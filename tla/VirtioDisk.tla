----------------------------- MODULE VirtioDisk ------------------------------
(***************************************************************************)
(* kernel/virtio_disk.c: the qemu disk driver.  Processes submit requests, *)
(* one buffer each, through descriptors and the avail ring, and sleep; the *)
(* device completes requests in any order through the used ring and raises *)
(* its interrupt; virtio_disk_intr() wakes the processes.  vdisk_lock      *)
(* makes virtio_disk_rw() one step between sleeps; the device runs without *)
(* it, so the interrupt handler is modelled loop test by loop test.        *)
(***************************************************************************)
EXTENDS Integers, FiniteSets

CONSTANTS
  Procs,   \* processes, each with the buffer it locked
  NUM,     \* descriptors, and entries of each ring
  UMod     \* the rings' indices are uint16: they count modulo UMod

Desc == 0..(NUM - 1)
None == "none"
NoHead == NUM   \* the head of a process without a request
Handler == "handler"

VARIABLES
  lock,      \* who holds vdisk_lock across steps: the handler, or None
  free,      \* the descriptors i with disk.free[i]
  chain,     \* chain[p]: the set idx[0..2] of p's request
  head,      \* head[p]: idx[0]
  info,      \* info[i]: whose buffer disk.info[i].b is, or None
  bdisk,     \* bdisk[p]: b->disk of p's buffer
  avail,     \* the avail ring
  availIdx,  \* disk.avail[1]
  devIdx,    \* how far the device has looked in the avail ring
  inflight,  \* heads of the chains the device works on
  used,      \* the used ring
  usedId,    \* disk.used->id, written by the device
  usedIdx,   \* disk.used_idx, how far the handler has looked
  isr,       \* the device's interrupt status bit
  moved,     \* moved[p]: the device has moved the data of p's request
  hpc,       \* the handler: "idle", "loop" or "ack"
  pc         \* where p is

request == <<free, chain, head, info, bdisk>>
ring == <<avail, availIdx, devIdx, inflight, used, usedId, usedIdx>>
vars == <<lock, free, chain, head, info, bdisk, avail, availIdx, devIdx, inflight,
          used, usedId, usedIdx, isr, moved, hpc, pc>>

(* "out"; "acq" at acquire(), at the start or after sleep(&disk.free[0]);  *)
(* "nodesc" in that sleep; "ioacq" after, and "io" in, sleep(b).           *)
Labels == {"out", "acq", "nodesc", "io", "ioacq"}

TypeOK ==
  /\ lock \in {None, Handler}
  /\ free \subseteq Desc
  /\ chain \in [Procs -> SUBSET Desc]
  /\ head \in [Procs -> Desc \cup {NoHead}]
  /\ info \in [Desc -> Procs \cup {None}]
  /\ bdisk \in [Procs -> BOOLEAN]
  /\ avail \in [Desc -> Desc] /\ used \in [Desc -> Desc]
  /\ {availIdx, devIdx, usedId} \subseteq 0..(UMod - 1) /\ usedIdx \in Desc
  /\ inflight \subseteq Desc
  /\ isr \in BOOLEAN
  /\ moved \in [Procs -> BOOLEAN]
  /\ hpc \in {"idle", "loop", "ack"}
  /\ pc \in [Procs -> Labels]

(* virtio_disk_init() *)
Init ==
  /\ lock = None
  /\ free = Desc
  /\ chain = [p \in Procs |-> {}]
  /\ head = [p \in Procs |-> NoHead]
  /\ info = [i \in Desc |-> None]
  /\ bdisk = [p \in Procs |-> FALSE]
  /\ avail = [i \in Desc |-> 0] /\ used = [i \in Desc |-> 0]
  /\ availIdx = 0 /\ devIdx = 0 /\ usedId = 0 /\ usedIdx = 0
  /\ inflight = {}
  /\ isr = FALSE
  /\ moved = [p \in Procs |-> FALSE]
  /\ hpc = "idle"
  /\ pc = [p \in Procs |-> "out"]

Lowest(S) == CHOOSE i \in S : \A j \in S : i <= j

(* The set alloc3_desc() takes: alloc_desc() finds the lowest free one. *)
Three ==
  LET a == Lowest(free)
      b == Lowest(free \ {a})
  IN {a, b, Lowest(free \ {a, b})}

(* The wakeup(&disk.free[0]) of free_desc(), p having gone on to l. *)
WokenForDesc(p, l) ==
  [q \in Procs |-> IF q = p THEN l ELSE IF pc[q] = "nodesc" THEN "acq" ELSE pc[q]]

-----------------------------------------------------------------------------
Call(p) ==
  /\ pc[p] = "out"
  /\ pc' = [pc EXCEPT ![p] = "acq"]
  /\ UNCHANGED <<lock, request, ring, isr, moved, hpc>>

(* Three descriptors, the request on the avail ring, the notification, and *)
(* the first sleep(b): the handler cannot run before it, it needs the lock *)
Submit(p) ==
  /\ pc[p] = "acq" /\ lock = None
  /\ Cardinality(free) >= 3
  /\ LET i == Lowest(Three) IN
       /\ free' = free \ Three
       /\ chain' = [chain EXCEPT ![p] = Three]
       /\ head' = [head EXCEPT ![p] = i]
       /\ info' = [info EXCEPT ![i] = p]
       /\ avail' = [avail EXCEPT ![availIdx % NUM] = i]
  /\ bdisk' = [bdisk EXCEPT ![p] = TRUE]
  /\ availIdx' = (availIdx + 1) % UMod
  /\ moved' = [moved EXCEPT ![p] = FALSE]
  /\ pc' = [pc EXCEPT ![p] = "io"]
  /\ UNCHANGED <<lock, devIdx, inflight, used, usedId, usedIdx, isr, hpc>>

(* Too few: what alloc3_desc() took it frees again, waking the others who  *)
(* wait for descriptors; then sleep(&disk.free[0]).                        *)
NoDesc(p) ==
  /\ pc[p] = "acq" /\ lock = None
  /\ Cardinality(free) < 3
  /\ pc' = IF free # {} THEN WokenForDesc(p, "nodesc") ELSE [pc EXCEPT ![p] = "nodesc"]
  /\ UNCHANGED <<lock, request, ring, isr, moved, hpc>>

(* while(b->disk == 1) once more *)
StillBusy(p) ==
  /\ pc[p] = "ioacq" /\ lock = None
  /\ bdisk[p]
  /\ pc' = [pc EXCEPT ![p] = "io"]
  /\ UNCHANGED <<lock, request, ring, isr, moved, hpc>>

(* Mutant of Return: nobody is told of the descriptors. *)
ReturnQuiet(p) ==
  /\ pc[p] = "ioacq" /\ lock = None
  /\ ~bdisk[p]
  /\ info' = [info EXCEPT ![head[p]] = None]
  /\ free' = free \cup chain[p]
  /\ chain' = [chain EXCEPT ![p] = {}]
  /\ head' = [head EXCEPT ![p] = NoHead]
  /\ pc' = [pc EXCEPT ![p] = "out"]
  /\ UNCHANGED <<lock, bdisk, ring, isr, moved, hpc>>

(* b->disk is 0: free_chain() and return. *)
Return(p) ==
  /\ pc[p] = "ioacq" /\ lock = None
  /\ ~bdisk[p]
  /\ info' = [info EXCEPT ![head[p]] = None]
  /\ free' = free \cup chain[p]
  /\ chain' = [chain EXCEPT ![p] = {}]
  /\ head' = [head EXCEPT ![p] = NoHead]
  /\ pc' = WokenForDesc(p, "out")
  /\ UNCHANGED <<lock, bdisk, ring, isr, moved, hpc>>

(* kill() wakes either sleep early. *)
KillWakes(p) ==
  /\ pc[p] \in {"nodesc", "io"}
  /\ pc' = [pc EXCEPT ![p] = IF @ = "io" THEN "ioacq" ELSE "acq"]
  /\ UNCHANGED <<lock, request, ring, isr, moved, hpc>>

-----------------------------------------------------------------------------
(* The device takes the next request off the avail ring ... *)
DeviceTake ==
  /\ devIdx # availIdx
  /\ inflight' = inflight \cup {avail[devIdx % NUM]}
  /\ devIdx' = (devIdx + 1) % UMod
  /\ UNCHANGED <<lock, request, avail, availIdx, used, usedId, usedIdx, isr, moved, hpc, pc>>

(* ... and completes the ones it has in any order. *)
DeviceDone(i) ==
  /\ i \in inflight
  /\ inflight' = inflight \ {i}
  /\ used' = [used EXCEPT ![usedId % NUM] = i]
  /\ usedId' = (usedId + 1) % UMod
  /\ isr' = TRUE
  /\ moved' = IF info[i] \in Procs THEN [moved EXCEPT ![info[i]] = TRUE] ELSE moved
  /\ UNCHANGED <<lock, request, avail, availIdx, devIdx, usedIdx, hpc, pc>>

(* virtio_disk_intr() *)
IntrBegin ==
  /\ isr /\ hpc = "idle" /\ lock = None
  /\ lock' = Handler
  /\ hpc' = "loop"
  /\ UNCHANGED <<request, ring, isr, moved, pc>>

(* One used element: its buffer is done, its process is woken. *)
IntrLoop ==
  LET p == info[used[usedIdx]] IN
  /\ hpc = "loop"
  /\ usedIdx # usedId % NUM
  /\ bdisk' = [bdisk EXCEPT ![p] = FALSE]
  /\ pc' = [pc EXCEPT ![p] = IF @ = "io" THEN "ioacq" ELSE @]
  /\ usedIdx' = (usedIdx + 1) % NUM
  /\ UNCHANGED <<lock, free, chain, head, info, avail, availIdx, devIdx, inflight,
                 used, usedId, isr, moved, hpc>>

IntrLoopEnd ==
  /\ hpc = "loop"
  /\ usedIdx = usedId % NUM
  /\ hpc' = "ack"
  /\ UNCHANGED <<lock, request, ring, isr, moved, pc>>

(* The acknowledgement comes after the loop. *)
IntrAck ==
  /\ hpc = "ack"
  /\ isr' = FALSE
  /\ lock' = None
  /\ hpc' = "idle"
  /\ UNCHANGED <<request, ring, moved, pc>>

-----------------------------------------------------------------------------
Inside(p) == Submit(p) \/ NoDesc(p) \/ StillBusy(p) \/ Return(p)
Driver == IntrBegin \/ IntrLoop \/ IntrLoopEnd \/ IntrAck
Device == DeviceTake \/ \E i \in Desc : DeviceDone(i)

Next == (\E p \in Procs : Call(p) \/ Inside(p) \/ KillWakes(p)) \/ Driver \/ Device

Spec == Init /\ [][Next]_vars

(* Processes go on and get vdisk_lock, the device completes requests, and  *)
(* an interrupt that stays raised is taken.                                *)
FairSpec ==
  /\ Spec
  /\ \A p \in Procs : SF_vars(Inside(p))
  /\ SF_vars(Driver) /\ WF_vars(Device)

-----------------------------------------------------------------------------
(* A request is finished when virtio_disk_rw() takes it to be: b->disk is  *)
(* cleared, and descriptors are reused, after the device moved the data.   *)
TransferComplete ==
  \A p \in Procs : pc[p] \in {"io", "ioacq"} /\ ~bdisk[p] => moved[p]

(* Whoever sleeps for descriptors waits for a request in progress. *)
DescSleepersHaveReason ==
  \A p \in Procs : pc[p] = "nodesc" => Cardinality(free) < 3

(* "Wait for virtio_disk_intr() to say request has finished.": a request   *)
(* that was submitted returns.                                             *)
RequestReturns == \A p \in Procs : pc[p] = "io" ~> pc[p] = "out"
-----------------------------------------------------------------------------
(* The inductive invariant: what a request in progress owns ...            *)
InProgress(p) == pc[p] \in {"io", "ioacq"}
Requests ==
  /\ \A p \in Procs :
       /\ chain[p] \cap free = {}
       /\ InProgress(p) => /\ head[p] \in chain[p] /\ (\E x \in chain[p] : x # head[p])
                           /\ info[head[p]] = p
       /\ ~InProgress(p) => chain[p] = {}
  /\ \A p, q \in Procs : p # q => chain[p] \cap chain[q] = {}
  /\ \A i \in Desc : info[i] # None => InProgress(info[i]) /\ head[info[i]] = i

(* ... the entries of a ring from index a to index b, which are fewer than *)
(* the ring has ...                                                        *)
Entries(a, b) == {j \in Desc : (j - a) % NUM < (b - a) % NUM}
Asked == Entries(devIdx, availIdx)
Answered == Entries(usedIdx, usedId)
AvailRoom == (availIdx - devIdx) % UMod < NUM

(* ... and where a request the handler has not seen the end of is: once on *)
(* the avail ring, in the device or on the used ring, done by then.        *)
Busy(i) == info[i] # None /\ bdisk[info[i]]
InRings ==
  /\ \A j \in Asked : Busy(avail[j])
  /\ \A i \in inflight : Busy(i)
  /\ \A j \in Answered : Busy(used[j]) /\ moved[info[used[j]]]
OncePerRequest ==
  /\ \A j, k \in Asked : avail[j] = avail[k] => j = k
  /\ \A j, k \in Answered : used[j] = used[k] => j = k
  /\ \A j \in Asked : avail[j] \notin inflight
  /\ \A j \in Answered : used[j] \notin inflight
  /\ \A j \in Asked, k \in Answered : avail[j] # used[k]

VdIndInv ==
  /\ TypeOK /\ Requests /\ AvailRoom /\ InRings /\ OncePerRequest
  /\ TransferComplete /\ DescSleepersHaveReason
=============================================================================
