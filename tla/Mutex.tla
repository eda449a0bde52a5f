-------------------------------- MODULE Mutex --------------------------------
(***************************************************************************)
(* What a lock promises: one owner at a time.                              *)
(***************************************************************************)
CONSTANTS Procs, NoProc

VARIABLE owner

MInit == owner = NoProc

Enter(p) == owner = NoProc /\ owner' = p

Leave(p) == owner = p /\ owner' = NoProc

MNext == \E p \in Procs : Enter(p) \/ Leave(p)

MSpec == MInit /\ [][MNext]_owner
=============================================================================
