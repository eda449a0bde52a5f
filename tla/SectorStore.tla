----------------------------- MODULE SectorStore -----------------------------
(***************************************************************************)
(* What bread(), bwrite() and brelse() promise the file system: sectors    *)
(* one process at a time has open, and a process that opens a sector finds *)
(* what was last stored in it.                                             *)
(***************************************************************************)
CONSTANTS Procs, NoProc, Sector, Val

VARIABLES content,   \* content[s]: what sector s holds
          user       \* user[s]: the process that has s open, or NoProc

svars == <<content, user>>

SInit == content \in [Sector -> Val] /\ user = [s \in Sector |-> NoProc]

Open(p, s) ==
  /\ user[s] = NoProc
  /\ user' = [user EXCEPT ![s] = p]
  /\ UNCHANGED content

Store(p, s, v) ==
  /\ user[s] = p
  /\ content' = [content EXCEPT ![s] = v]
  /\ UNCHANGED user

Shut(p, s) ==
  /\ user[s] = p
  /\ user' = [user EXCEPT ![s] = NoProc]
  /\ UNCHANGED content

SNext ==
  \E p \in Procs, s \in Sector : Open(p, s) \/ Shut(p, s) \/ \E v \in Val : Store(p, s, v)

SSpec == SInit /\ [][SNext]_svars
=============================================================================
