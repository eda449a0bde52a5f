----------------------------- MODULE ByteChannel -----------------------------
(***************************************************************************)
(* What a pipe promises: a bounded first-in first-out channel of bytes.    *)
(* Bytes leave in the order they entered, each of them once; there are     *)
(* never more than Capacity of them, and none outlives its channel.        *)
(***************************************************************************)
EXTENDS Integers, Sequences

CONSTANTS Byte, NoByte, Capacity

VARIABLES exists,   \* there is a channel
          queue,    \* the bytes in it, oldest first
          taken     \* the byte a reader just took, or NoByte

bvars == <<exists, queue, taken>>

BInit == exists = FALSE /\ queue = << >> /\ taken = NoByte

Create == ~exists /\ exists' = TRUE /\ queue' = << >> /\ UNCHANGED taken

Put(b) ==
  /\ exists
  /\ Len(queue) < Capacity
  /\ queue' = Append(queue, b)
  /\ UNCHANGED <<exists, taken>>

Take ==
  /\ exists
  /\ queue # << >>
  /\ taken' = Head(queue)
  /\ queue' = Tail(queue)
  /\ UNCHANGED exists

(* The reader handed the byte to its caller, or failed to. *)
Deliver == taken' = NoByte /\ UNCHANGED <<exists, queue>>

Discard == exists /\ exists' = FALSE /\ queue' = << >> /\ UNCHANGED taken

BNext == Create \/ (\E b \in Byte : Put(b)) \/ Take \/ Deliver \/ Discard

BSpec == BInit /\ [][BNext]_bvars
=============================================================================
