------------------------------ MODULE CondVar -------------------------------
(***************************************************************************)
(* What sleep() and wakeup() of kernel/proc.c promise to code that calls   *)
(* them with a spin lock lk held: sleep(chan, lk) releases lk and sleeps   *)
(* on chan in one indivisible step, wakeup(chan) wakes everyone who sleeps *)
(* on chan, and kill() may wake anyone at any time.                        *)
(***************************************************************************)
EXTENDS Integers

CONSTANTS Proc, NoProc, Chan, NoChan

VARIABLES owner,    \* who owns lk
          asleep    \* asleep[p]: the channel p sleeps on, or NoChan

cvars == <<owner, asleep>>

CInit == owner = NoProc /\ asleep = [p \in Proc |-> NoChan]

CAcquire(p) ==
  /\ owner = NoProc /\ asleep[p] = NoChan
  /\ owner' = p
  /\ UNCHANGED asleep

CRelease(p) == owner = p /\ owner' = NoProc /\ UNCHANGED asleep

CSleep(p, ch) ==
  /\ owner = p
  /\ owner' = NoProc
  /\ asleep' = [asleep EXCEPT ![p] = ch]

CWakeup(p, ch) ==
  /\ owner = p
  /\ asleep' = [q \in Proc |-> IF asleep[q] = ch THEN NoChan ELSE asleep[q]]
  /\ UNCHANGED owner

CKill(q) ==
  /\ asleep' = [asleep EXCEPT ![q] = NoChan]
  /\ UNCHANGED owner

CNext ==
  \E p \in Proc :
     \/ CAcquire(p) \/ CRelease(p) \/ CKill(p)
     \/ \E ch \in Chan : CSleep(p, ch) \/ CWakeup(p, ch)

CSpec == CInit /\ [][CNext]_cvars
=============================================================================
