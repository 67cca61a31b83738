-------------------------- MODULE SetpointWriteProofs --------------------------
(***************************************************************************)
(* Proofs about SetpointWrite for every set of points, every polling       *)
(* order, every number of client writes, every device and every tolerance. *)
(*                                                                         *)
(* Both invariants are about the lock of the line.  What makes them        *)
(* inductive is the order of its queue: the writes stand in it in the      *)
(* order the clients made them, a write that waits or verifies is in it,   *)
(* and the one that verifies is its head.  The refinement of               *)
(* SetpointContract rests on the same invariant.                           *)
(***************************************************************************)
EXTENDS SetpointWrite, TLAPS

Waits(n) == write[n].pc \in {"queued", "verify"}
InLine(n) == \E i \in 1..Len(queue) : queue[i] = n

(* The queue of the lock: who is in it, and in which order.                *)
QueueInv ==
  /\ \A n \in Write : Waits(n) <=> InLine(n)
  /\ \A i, j \in 1..Len(queue) :
       (i < j /\ queue[i] \in Write /\ queue[j] \in Write) => queue[i] < queue[j]

(* The owner verifies; nobody overtakes before the lock; writes are        *)
(* numbered without a gap.                                                 *)
OrderInv ==
  /\ \A n \in Write : write[n].pc = "verify" => Owner(n)
  /\ \A m, n \in Write : (m < n /\ Waits(n)) => write[m].pc # "spawned"
  /\ \A n \in Write : n > asked => write[n].pc = "unused"

(* What a task knows: the old values of the registers that were written,   *)
(* and, once it is under way, the one point it is for.                     *)
KnownInv ==
  \A n \in Write :
    /\ IsOpen(n) => write[n].previous \in [write[n].points -> Value]
    /\ Waits(n) => Matches(n)

PollInv == poll.pc = "queued" => MorePoints

IInv ==
  /\ TypeOK
  /\ QueueInv
  /\ OrderInv
  /\ KnownInv
  /\ PollInv
  /\ VerifySeesOwnWrite

ChannelShown == {CHANNEL_DISABLED, CHANNEL_OK, CHANNEL_COMM_ERROR, CHANNEL_FAILED}
WriteRecord == [pc : {"unused", "accepted", "refused"}] \cup OpenWrite \cup VerifyingWrite

-----------------------------------------------------------------------------
(* Facts about the operators.                                              *)

(* What kind of record a write is, by its phase.                           *)
LEMMA WriteKinds ==
  ASSUME NEW w \in WriteRecord
  PROVE  /\ w.pc \in {"spawned", "queued"} => w \in OpenWrite
         /\ w.pc = "verify" => w \in VerifyingWrite
  BY DEF WriteRecord, OpenWrite, VerifyingWrite

(* An open write is of published points and of a value.                    *)
LEMMA OpenTypes ==
  ASSUME TypeOK, NEW n \in Write, IsOpen(n)
  PROVE  write[n].points \subseteq Published /\ write[n].exact \in BOOLEAN
         /\ write[n].value \in Value
  <1>1. write[n] \in WriteRecord
    BY DEF TypeOK, WriteRecord
  <1>2. write[n] \in OpenWrite \cup VerifyingWrite
    BY <1>1, WriteKinds DEF IsOpen
  <1> QED
    BY <1>2 DEF OpenWrite, VerifyingWrite

(* A write that reaches the device is for one writable point.              *)
LEMMA SubjectIs ==
  ASSUME NEW n \in Write, Matches(n)
  PROVE  /\ Subject(n) \in Writable /\ Subject(n) \in Point
         /\ write[n].points = {Subject(n)}
  <1>1. PICK p \in Writable : write[n].points = {p}
    BY DEF Matches
  <1>2. p \in Point
    BY WriteAssumption
  <1>3. Subject(n) \in Point /\ write[n].points = {Subject(n)}
    BY <1>1, <1>2 DEF Subject
  <1> QED
    BY <1>1, <1>2, <1>3

(* A mask has bits of logic units only.                                    *)
LEMMA MaskType ==
  ASSUME NEW in, NEW previous
  PROVE  LogicMask(in, previous) \subseteq LogicUnit
  BY DEF LogicMask

(* The point the poll task is at is one of the device.                     *)
LEMMA AtPoint ==
  ASSUME TypeOK, MorePoints
  PROVE  At \in Point
  <1>1. poll.at \in 1..Len(PollOrder)
    BY WriteAssumption DEF TypeOK, MorePoints
  <1> QED
    BY <1>1, WriteAssumption DEF At

(* Going on to the next point ends behind the last one at most.            *)
LEMMA NextPosition ==
  ASSUME TypeOK, MorePoints
  PROVE  poll.at + 1 \in 1..(Len(PollOrder) + 1)
  <1>1. Len(PollOrder) \in Nat
    BY WriteAssumption
  <1>2. poll.at \in 1..(Len(PollOrder) + 1)
    BY DEF TypeOK
  <1>3. poll.at <= Len(PollOrder)
    BY DEF MorePoints
  <1> QED
    BY <1>1, <1>2, <1>3

LEMMA InitIInv == Init => IInv
  <1> SUFFICES ASSUME Init PROVE IInv
    OBVIOUS
  <1>1. TypeOK
    <2>1. 0 \in Value /\ 0 \in 0..MaxWrites /\ 0 \in 0..FaultAfter
          /\ 0 \in 0..(RecoveryCycles - 1)
      BY WriteAssumption
    <2>2. write \in [Write -> WriteRecord]
      BY DEF Init, Closed, WriteRecord
    <2>3. 1 \in 1..(Len(PollOrder) + 1)
      BY WriteAssumption
    <2>4. poll \in [pc : {"asleep", "running", "queued"}, at : 1..(Len(PollOrder) + 1)]
      BY <2>3 DEF Init
    <2>5. /\ consecutiveFailures \in [Point -> 0..FaultAfter]
          /\ recoverySkip \in [Point -> 0..(RecoveryCycles - 1)]
          /\ register \in [Point -> Value] /\ pointValue \in [Point -> Value \cup {None}]
      BY <2>1 DEF Init
    <2>6. queue \in Seq(Write \cup {Poller}) /\ asked \in 0..MaxWrites
      BY <2>1 DEF Init
    <2>7. /\ channelStatus \in [Point -> ChannelShown]
          /\ channelReg \in [Point -> ChannelShown]
      BY DEF Init, ChannelShown, CHANNEL_DISABLED
    <2> QED
      BY <2>2, <2>4, <2>5, <2>6, <2>7 DEF Init, TypeOK, WriteRecord, ChannelShown
  <1>2. \A n \in Write : write[n].pc = "unused"
    BY DEF Init, Closed
  <1>3. QueueInv /\ OrderInv
    BY <1>2 DEF Init, QueueInv, OrderInv, Waits, InLine
  <1> QED
    BY <1>1, <1>2, <1>3 DEF Init, IInv, KnownInv, PollInv, VerifySeesOwnWrite, IsOpen, Waits

-----------------------------------------------------------------------------
(* The queue of the lock.                                                  *)

(* It stays as it is while no task comes or goes.                          *)
LEMMA QueueStays ==
  ASSUME QueueInv, UNCHANGED queue, \A n \in Write : Waits(n)' <=> Waits(n)
  PROVE  QueueInv'
  BY DEF QueueInv, InLine

(* Another task joins at the end: the poll task, or the oldest write that  *)
(* has not started.                                                        *)
LEMMA QueueGrows ==
  ASSUME TypeOK, QueueInv, NEW t \in Write \cup {Poller}, queue' = Append(queue, t),
         \A n \in Write : Waits(n)' <=> (Waits(n) \/ n = t),
         t \in Write => \A k \in Write : Waits(k) => k < t
  PROVE  QueueInv'
  <1>1. /\ queue \in Seq(Write \cup {Poller})
        /\ Len(queue') = Len(queue) + 1 /\ Len(queue) \in Nat
        /\ \A i \in 1..Len(queue) : queue'[i] = queue[i]
        /\ queue'[Len(queue) + 1] = t
    BY DEF TypeOK
  <1>2. ASSUME NEW n \in Write PROVE Waits(n)' <=> InLine(n)'
    <2>1. InLine(n)' <=> (InLine(n) \/ n = t)
      BY <1>1 DEF InLine
    <2> QED
      BY <2>1 DEF QueueInv
  <1>3. ASSUME NEW i \in 1..Len(queue'), NEW j \in 1..Len(queue'), i < j,
               queue'[i] \in Write, queue'[j] \in Write
        PROVE  queue'[i] < queue'[j]
    <2>1. i \in 1..Len(queue)
      BY <1>1, <1>3
    <2>2. CASE j \in 1..Len(queue)
      BY <1>1, <1>3, <2>1, <2>2 DEF QueueInv
    <2>3. CASE j = Len(queue) + 1
      <3>1. InLine(queue[i]) /\ queue[i] \in Write
        BY <1>1, <1>3, <2>1 DEF InLine
      <3>2. Waits(queue[i])
        BY <3>1 DEF QueueInv
      <3> QED
        BY <1>1, <1>3, <2>1, <2>3, <3>1, <3>2
    <2> QED
      BY <1>1, <2>2, <2>3
  <1> QED
    BY <1>2, <1>3 DEF QueueInv

(* The owner leaves; who waits is next.                                    *)
LEMMA QueueShrinks ==
  ASSUME TypeOK, QueueInv, NEW t, Owner(t), queue' = Tail(queue),
         \A n \in Write : Waits(n)' <=> (Waits(n) /\ n # t)
  PROVE  QueueInv'
  <1>1. /\ queue \in Seq(Write \cup {Poller}) /\ queue # <<>>
        /\ Len(queue) \in Nat \ {0} /\ Len(queue') = Len(queue) - 1
        /\ \A i \in 1..Len(queue') : queue'[i] = queue[i + 1]
        /\ queue[1] = t
    BY DEF TypeOK, Owner
  <1>2. ASSUME NEW n \in Write PROVE Waits(n)' <=> InLine(n)'
    <2>1. ASSUME InLine(n)' PROVE InLine(n) /\ n # t
      <3>1. PICK i \in 1..Len(queue') : queue'[i] = n
        BY <2>1 DEF InLine
      <3>2. i + 1 \in 1..Len(queue) /\ queue[i + 1] = n /\ 1 < i + 1 /\ 1 \in 1..Len(queue)
        BY <1>1, <3>1
      <3>3. n # t
        BY <1>1, <3>2 DEF QueueInv, Write
      <3> QED
        BY <3>2, <3>3 DEF InLine
    <2>2. ASSUME InLine(n), n # t PROVE InLine(n)'
      <3>1. PICK i \in 1..Len(queue) : queue[i] = n
        BY <2>2 DEF InLine
      <3>2. i - 1 \in 1..Len(queue') /\ queue'[i - 1] = n
        BY <1>1, <2>2, <3>1
      <3> QED
        BY <3>2 DEF InLine
    <2> QED
      BY <2>1, <2>2 DEF QueueInv
  <1>3. ASSUME NEW i \in 1..Len(queue'), NEW j \in 1..Len(queue'), i < j,
               queue'[i] \in Write, queue'[j] \in Write
        PROVE  queue'[i] < queue'[j]
    <2>1. i + 1 \in 1..Len(queue) /\ j + 1 \in 1..Len(queue) /\ i + 1 < j + 1
      BY <1>1, <1>3
    <2> QED
      BY <1>1, <1>3, <2>1 DEF QueueInv
  <1> QED
    BY <1>2, <1>3 DEF QueueInv

(* The head of the queue is older than every other write under way.        *)
LEMMA OwnerIsOldest ==
  ASSUME TypeOK, QueueInv, OrderInv, NEW n \in Write, Owner(n), Waits(n),
         NEW m \in Write, m < n
  PROVE  ~IsOpen(m)
  <1>1. write[m].pc # "spawned"
    BY DEF OrderInv
  <1>2. ~Waits(m)
    <2> SUFFICES ASSUME Waits(m) PROVE FALSE
      OBVIOUS
    <2>1. PICK i \in 1..Len(queue) : queue[i] = m
      BY DEF QueueInv, InLine
    <2>2. queue[1] = n /\ Len(queue) \in Nat /\ 1 \in 1..Len(queue)
      BY <2>1 DEF TypeOK, Owner
    <2>3. i > 1
      BY <2>1, <2>2 DEF Write
    <2>4. n < m
      BY <2>1, <2>2, <2>3 DEF QueueInv
    <2> QED
      BY <2>4 DEF Write
  <1> QED
    BY <1>1, <1>2 DEF IsOpen, Waits

-----------------------------------------------------------------------------
(* Parts of the steps.                                                     *)

(* A write request: the registers, the new task.                           *)
LEMMA ClientWritePreserves ==
  ASSUME IInv, NEW t \in Target, NEW v \in Value, ClientWrite(t, v)
  PROVE  IInv'
  <1> USE DEF IInv
  <1> DEFINE n == asked + 1
             old == [p \in t.points |-> register[p]]
             new == [pc |-> "spawned", points |-> t.points, exact |-> t.exact, value |-> v,
                     previous |-> old]
  <1>1. n \in Write /\ asked \in Nat /\ asked' = n /\ n \in 0..MaxWrites
    BY WriteAssumption DEF ClientWrite, TypeOK, Write
  <1>2. write' = [write EXCEPT ![n] = new] /\ write \in [Write -> WriteRecord]
    BY DEF ClientWrite, TypeOK, WriteRecord
  <1>3. write[n].pc = "unused"
    BY <1>1 DEF OrderInv
  <1>4. t.points \subseteq Published /\ t.points \subseteq Point /\ t.exact \in BOOLEAN
    BY WriteAssumption
  <1>5. old \in [t.points -> Value]
    BY <1>4 DEF TypeOK
  <1>6. new \in OpenWrite
    <2> HIDE DEF old
    <2>1. old \in UNION {[s -> Value] : s \in SUBSET Published}
      BY <1>4, <1>5
    <2> QED
      BY <1>4, <2>1 DEF OpenWrite
  <1>7. new.pc = "spawned" /\ new.points = t.points /\ new.previous = old
    OBVIOUS
  <1> HIDE DEF new, old
  <1>8. write'[n] = new /\ \A m \in Write \ {n} : write'[m] = write[m]
    BY <1>1, <1>2
  <1>9. TypeOK'
    <2>1. write' \in [Write -> WriteRecord]
      BY <1>2, <1>6 DEF WriteRecord
    <2>2. register' \in [Point -> Value]
      BY DEF ClientWrite, TypeOK
    <2> QED
      BY <1>1, <2>1, <2>2 DEF ClientWrite, TypeOK, healthVars, WriteRecord
  <1>10. \A m \in Write : Waits(m)' <=> Waits(m)
    BY <1>3, <1>7, <1>8 DEF Waits
  <1>11. QueueInv'
    BY <1>10, QueueStays DEF ClientWrite
  <1>12. OrderInv'
    <2>1. ASSUME NEW m \in Write, write'[m].pc = "verify" PROVE Owner(m)'
      BY <1>7, <1>8, <2>1 DEF OrderInv, Owner, ClientWrite
    <2>2. ASSUME NEW m \in Write, NEW k \in Write, m < k, Waits(k)'
          PROVE  write'[m].pc # "spawned"
      <3>1. Waits(k) /\ write[k].pc # "unused"
        BY <1>10, <2>2 DEF Waits
      <3>2. k <= asked
        BY <1>1, <3>1 DEF OrderInv, Write
      <3>3. m # n
        BY <1>1, <2>2, <3>2 DEF Write
      <3> QED
        BY <1>8, <2>2, <3>1, <3>3 DEF OrderInv
    <2>3. ASSUME NEW m \in Write, m > asked' PROVE write'[m].pc = "unused"
      <3>1. m # n /\ m > asked
        BY <1>1, <2>3 DEF Write
      <3> QED
        BY <1>8, <3>1 DEF OrderInv
    <2> QED
      BY <2>1, <2>2, <2>3 DEF OrderInv
  <1>13. KnownInv'
    <2> SUFFICES ASSUME NEW m \in Write
                 PROVE  /\ IsOpen(m)' => write'[m].previous \in [write'[m].points -> Value]
                        /\ Waits(m)' => Matches(m)'
      BY DEF KnownInv
    <2>1. CASE m = n
      BY <1>1, <1>5, <1>7, <1>8, <2>1 DEF Waits
    <2>2. CASE m # n
      BY <1>8, <2>2 DEF KnownInv, IsOpen, Waits, Matches
    <2> QED
      BY <2>1, <2>2
  <1>14. VerifySeesOwnWrite'
    BY <1>7, <1>8 DEF VerifySeesOwnWrite, Subject, ClientWrite
  <1> QED
    BY <1>9, <1>11, <1>12, <1>13, <1>14 DEF ClientWrite, PollInv, MorePoints

(* Restoring the registers and closing the request.                        *)
LEMMA RefusedTypes ==
  ASSUME TypeOK, KnownInv, NEW n \in Write, IsOpen(n), Refused(n)
  PROVE  /\ register' \in [Point -> Value]
         /\ write' \in [Write -> WriteRecord]
         /\ write'[n].pc = "refused" /\ \A m \in Write \ {n} : write'[m] = write[m]
         /\ UNCHANGED <<pointValue, healthVars, mask>>
  <1>1. write \in [Write -> WriteRecord]
    BY DEF TypeOK, WriteRecord
  <1>2. Closed("refused") \in WriteRecord /\ Closed("refused").pc = "refused"
    BY DEF Closed, WriteRecord
  <1>3. write[n].previous \in [write[n].points -> Value]
    BY DEF KnownInv
  <1>4. register' \in [Point -> Value]
    BY <1>3 DEF Refused, Restore, TypeOK
  <1> QED
    BY <1>1, <1>2, <1>4 DEF Refused

(* One write closes: it was the owner, or had not started.                 *)
LEMMA CloseKeepsOrder ==
  ASSUME TypeOK, QueueInv, OrderInv, KnownInv, NEW n \in Write, IsOpen(n),
         write'[n].pc \in {"accepted", "refused"},
         \A m \in Write \ {n} : write'[m] = write[m],
         UNCHANGED asked,
         \/ Waits(n) /\ Owner(n) /\ queue' = Tail(queue)
         \/ ~Waits(n) /\ queue' = queue
  PROVE  QueueInv' /\ OrderInv' /\ KnownInv'
  <1>1. \A m \in Write : Waits(m)' <=> (Waits(m) /\ m # n)
    BY DEF Waits
  <1>2. QueueInv'
    <2>1. CASE Waits(n) /\ Owner(n) /\ queue' = Tail(queue)
      BY <1>1, <2>1, QueueShrinks
    <2>2. CASE ~Waits(n) /\ queue' = queue
      <3>1. \A m \in Write : Waits(m)' <=> Waits(m)
        BY <1>1, <2>2
      <3> QED
        BY <2>2, <3>1, QueueStays
    <2> QED
      BY <2>1, <2>2
  <1>3. ASSUME NEW m \in Write, write'[m].pc = "verify" PROVE Owner(m)'
    <2>1. m # n /\ write[m].pc = "verify" /\ Owner(m)
      BY <1>3 DEF OrderInv
    <2>2. ~Owner(n)
      BY <2>1 DEF Owner
    <2> QED
      BY <2>1, <2>2 DEF Owner
  <1>4. \A m, k \in Write : (m < k /\ Waits(k)') => write'[m].pc # "spawned"
    BY <1>1 DEF OrderInv
  <1>5. \A m \in Write : m > asked' => write'[m].pc = "unused"
    BY DEF OrderInv, IsOpen
  <1>6. KnownInv'
    BY <1>1 DEF KnownInv, IsOpen, Waits, Matches
  <1> QED
    BY <1>2, <1>3, <1>4, <1>5, <1>6 DEF OrderInv

(* Once the owner is gone nobody verifies.                                 *)
LEMMA NobodyVerifies ==
  ASSUME OrderInv, NEW n \in Write, Owner(n),
         write'[n].pc # "verify", \A m \in Write \ {n} : write'[m] = write[m]
  PROVE  VerifySeesOwnWrite'
  <1> SUFFICES ASSUME NEW m \in Write, write'[m].pc = "verify" PROVE FALSE
    BY DEF VerifySeesOwnWrite
  <1>1. m # n /\ Owner(m)
    BY DEF OrderInv
  <1> QED
    BY <1>1 DEF Owner

-----------------------------------------------------------------------------
(* The steps of a task.                                                    *)

LEMMA StartRefusedPreserves ==
  ASSUME IInv, NEW n \in Write, StartRefused(n)
  PROVE  IInv'
  <1> USE DEF IInv
  <1>1. IsOpen(n) /\ ~Waits(n)
    BY DEF StartRefused, Starts, IsOpen, Waits
  <1>2. Refused(n)
    BY DEF StartRefused
  <1>3. /\ register' \in [Point -> Value] /\ write' \in [Write -> WriteRecord]
        /\ write'[n].pc = "refused" /\ \A m \in Write \ {n} : write'[m] = write[m]
        /\ UNCHANGED <<pointValue, healthVars, mask>>
    BY <1>1, <1>2, RefusedTypes
  <1>4. QueueInv' /\ OrderInv' /\ KnownInv'
    BY <1>1, <1>3, CloseKeepsOrder DEF StartRefused
  <1>5. TypeOK'
    BY <1>3 DEF StartRefused, TypeOK, WriteRecord, healthVars
  <1>6. VerifySeesOwnWrite'
    BY <1>3 DEF StartRefused, VerifySeesOwnWrite, Subject
  <1> QED
    BY <1>4, <1>5, <1>6 DEF StartRefused, PollInv, MorePoints

(* The task of a write joins the queue: every younger one started later.   *)
LEMMA StartWritePreserves ==
  ASSUME IInv, NEW n \in Write, StartWrite(n)
  PROVE  IInv'
  <1> USE DEF IInv
  <1>1. /\ write[n].pc = "spawned" /\ Matches(n) /\ queue' = Append(queue, n)
        /\ write' = [write EXCEPT ![n] = [write[n] EXCEPT !.pc = "queued"]]
        /\ \A m \in Write : m < n => write[m].pc # "spawned"
    BY DEF StartWrite, Starts
  <1>2. write[n] \in OpenWrite /\ write \in [Write -> WriteRecord]
    BY <1>1, WriteKinds DEF TypeOK, WriteRecord
  <1>3. /\ write'[n] = [write[n] EXCEPT !.pc = "queued"]
        /\ \A m \in Write \ {n} : write'[m] = write[m]
    BY <1>1, <1>2
  <1>4. /\ write'[n] \in OpenWrite /\ write'[n].pc = "queued"
        /\ write'[n].points = write[n].points /\ write'[n].exact = write[n].exact
        /\ write'[n].previous = write[n].previous
    BY <1>2, <1>3 DEF OpenWrite
  <1>5. TypeOK'
    <2>1. write' \in [Write -> WriteRecord]
      BY <1>1, <1>2, <1>3, <1>4 DEF WriteRecord
    <2>2. queue' \in Seq(Write \cup {Poller})
      BY <1>1 DEF TypeOK
    <2> QED
      BY <2>1, <2>2 DEF StartWrite, TypeOK, WriteRecord, healthVars
  <1>6. \A m \in Write : Waits(m)' <=> (Waits(m) \/ m = n)
    BY <1>3, <1>4 DEF Waits
  <1>7. ASSUME NEW k \in Write, Waits(k) PROVE k < n
    <2>1. ~(n < k) /\ k # n
      BY <1>1, <1>7 DEF OrderInv, Waits
    <2> QED
      BY <2>1 DEF Write
  <1>8. QueueInv'
    BY <1>1, <1>6, <1>7, QueueGrows
  <1>9. OrderInv'
    <2>1. ASSUME NEW m \in Write, write'[m].pc = "verify" PROVE Owner(m)'
      <3>1. Owner(m)
        BY <1>3, <1>4, <2>1 DEF OrderInv
      <3> QED
        BY <1>1, <3>1 DEF Owner, TypeOK
    <2>2. \A m, k \in Write : (m < k /\ Waits(k)') => write'[m].pc # "spawned"
      BY <1>1, <1>3, <1>4, <1>6 DEF OrderInv
    <2>3. \A m \in Write : m > asked' => write'[m].pc = "unused"
      BY <1>1, <1>3 DEF OrderInv, StartWrite
    <2> QED
      BY <2>1, <2>2, <2>3 DEF OrderInv
  <1>10. KnownInv'
    <2>1. write[n].previous \in [write[n].points -> Value]
      BY <1>1 DEF KnownInv, IsOpen
    <2> SUFFICES ASSUME NEW m \in Write
                 PROVE  /\ IsOpen(m)' => write'[m].previous \in [write'[m].points -> Value]
                        /\ Waits(m)' => Matches(m)'
      BY DEF KnownInv
    <2>2. CASE m = n
      BY <1>1, <1>4, <2>1, <2>2 DEF Matches
    <2>3. CASE m # n
      BY <1>3, <2>3 DEF KnownInv, IsOpen, Waits, Matches
    <2> QED
      BY <2>2, <2>3
  <1>11. VerifySeesOwnWrite'
    <2>1. held' = held
      BY DEF StartWrite
    <2>2. \A m \in Write : write'[m].pc = "verify" => write'[m] = write[m]
      BY <1>3, <1>4
    <2> QED
      BY <2>1, <2>2 DEF VerifySeesOwnWrite, Subject
  <1> QED
    BY <1>5, <1>8, <1>9, <1>10, <1>11 DEF StartWrite, PollInv, MorePoints

(* The write was sent.  Here the value a verifying task will find gets     *)
(* into the device.                                                        *)
LEMMA DeviceAcksPreserves ==
  ASSUME IInv, NEW n \in Write, DeviceAcks(n)
  PROVE  IInv'
  <1> USE DEF IInv
  <1>1. PICK ack \in {"proper", "opaque", "improper"}, landed \in BOOLEAN :
          /\ write' = [write EXCEPT ![n] =
               [pc |-> "verify", points |-> write[n].points, exact |-> write[n].exact,
                value |-> write[n].value, previous |-> write[n].previous, ack |-> ack,
                attempt |-> 1, landed |-> landed]]
          /\ IF landed THEN DeviceTakes(n) ELSE UNCHANGED held
    BY DEF DeviceAcks
  <1>2. Owner(n) /\ write[n].pc = "queued" /\ Waits(n) /\ IsOpen(n) /\ Matches(n)
    BY DEF DeviceAcks, Waits, IsOpen, KnownInv
  <1>3. write[n] \in OpenWrite /\ write \in [Write -> WriteRecord]
    BY <1>2, WriteKinds DEF TypeOK, WriteRecord
  <1>4. /\ write'[n] = [pc |-> "verify", points |-> write[n].points, exact |-> write[n].exact,
                        value |-> write[n].value, previous |-> write[n].previous, ack |-> ack,
                        attempt |-> 1, landed |-> landed]
        /\ \A m \in Write \ {n} : write'[m] = write[m]
    BY <1>1, <1>3
  <1>5. /\ write'[n].pc = "verify" /\ write'[n].landed = landed
        /\ write'[n].points = write[n].points /\ write'[n].exact = write[n].exact
        /\ write'[n].previous = write[n].previous /\ write'[n].value = write[n].value
    BY <1>4
  <1>6. write'[n] \in VerifyingWrite
    <2>1. 1 \in 1..VerifyAttempts
      BY WriteAssumption
    <2> QED
      BY <1>3, <1>4, <2>1 DEF OpenWrite, VerifyingWrite
  <1>7. Subject(n) \in Point /\ write[n].value \in Value
    BY <1>2, SubjectIs, OpenTypes
  <1>8. TypeOK'
    <2>1. write' \in [Write -> WriteRecord]
      BY <1>1, <1>3, <1>4, <1>6 DEF WriteRecord
    <2>2. held' \in [Point -> Value]
      <3>1. Stored[write[n].value] \in Value /\ held \in [Point -> Value]
        BY <1>7, WriteAssumption DEF TypeOK
      <3>2. held' = held \/ held' = [held EXCEPT ![Subject(n)] = Stored[write[n].value]]
        BY <1>1 DEF DeviceTakes
      <3> QED
        BY <1>7, <3>1, <3>2
    <2> QED
      BY <2>1, <2>2 DEF DeviceAcks, TypeOK, WriteRecord, healthVars
  <1>9. \A m \in Write : Waits(m)' <=> Waits(m)
    BY <1>2, <1>4, <1>5 DEF Waits
  <1>10. QueueInv'
    BY <1>9, QueueStays DEF DeviceAcks
  <1>11. OrderInv'
    <2>1. \A m \in Write : write'[m].pc = "verify" => Owner(m)'
      BY <1>2, <1>4 DEF OrderInv, Owner, DeviceAcks
    <2>2. \A m, k \in Write : (m < k /\ Waits(k)') => write'[m].pc # "spawned"
      BY <1>4, <1>5, <1>9 DEF OrderInv
    <2>3. \A m \in Write : m > asked' => write'[m].pc = "unused"
      BY <1>2, <1>4 DEF OrderInv, DeviceAcks
    <2> QED
      BY <2>1, <2>2, <2>3 DEF OrderInv
  <1>12. KnownInv'
    <2>1. write[n].previous \in [write[n].points -> Value]
      BY <1>2 DEF KnownInv
    <2> SUFFICES ASSUME NEW m \in Write
                 PROVE  /\ IsOpen(m)' => write'[m].previous \in [write'[m].points -> Value]
                        /\ Waits(m)' => Matches(m)'
      BY DEF KnownInv
    <2>2. CASE m = n
      BY <1>2, <1>5, <2>1, <2>2 DEF Matches
    <2>3. CASE m # n
      BY <1>4, <2>3 DEF KnownInv, IsOpen, Waits, Matches
    <2> QED
      BY <2>2, <2>3
  <1>13. VerifySeesOwnWrite'
    <2> SUFFICES ASSUME NEW m \in Write, write'[m].pc = "verify", write'[m].landed
                 PROVE  held'[Subject(m)'] = Stored[write'[m].value]
      BY DEF VerifySeesOwnWrite
    <2>1. m = n
      BY <1>2, <1>4 DEF OrderInv, Owner
    <2>2. Subject(n)' = Subject(n) /\ landed
      BY <1>5, <2>1 DEF Subject
    <2>3. held' = [held EXCEPT ![Subject(n)] = Stored[write[n].value]]
      BY <1>1, <2>2 DEF DeviceTakes
    <2> QED
      BY <1>5, <1>7, <2>1, <2>2, <2>3 DEF TypeOK
  <1> QED
    BY <1>8, <1>10, <1>11, <1>12, <1>13 DEF DeviceAcks, PollInv, MorePoints

(* What all the ways a write fails under the lock have in common.          *)
LEMMA GiveUpPreserves ==
  ASSUME IInv, NEW n \in Write, Owner(n), Waits(n), Refused(n), queue' = Tail(queue),
         held' \in [Point -> Value], UNCHANGED <<asked, poll, clean>>
  PROVE  IInv'
  <1> USE DEF IInv
  <1>1. IsOpen(n)
    BY DEF IsOpen, Waits
  <1>2. /\ register' \in [Point -> Value] /\ write' \in [Write -> WriteRecord]
        /\ write'[n].pc = "refused" /\ \A m \in Write \ {n} : write'[m] = write[m]
        /\ UNCHANGED <<pointValue, healthVars, mask>>
    BY <1>1, RefusedTypes
  <1>3. QueueInv' /\ OrderInv' /\ KnownInv'
    BY <1>1, <1>2, CloseKeepsOrder
  <1>4. VerifySeesOwnWrite'
    BY <1>2, NobodyVerifies
  <1>5. TypeOK'
    <2>1. queue' \in Seq(Write \cup {Poller})
      BY DEF TypeOK, Owner
    <2> QED
      BY <1>2, <2>1 DEF TypeOK, WriteRecord, healthVars
  <1> QED
    BY <1>3, <1>4, <1>5 DEF PollInv, MorePoints

LEMMA DeviceSilentPreserves ==
  ASSUME IInv, NEW n \in Write, DeviceSilent(n)
  PROVE  IInv'
  <1>1. Owner(n) /\ Waits(n) /\ Matches(n) /\ IsOpen(n)
    BY DEF DeviceSilent, Waits, IsOpen, IInv, KnownInv
  <1>2. Subject(n) \in Point /\ write[n].value \in Value
    BY <1>1, SubjectIs, OpenTypes DEF IInv
  <1>3. held' \in [Point -> Value]
    BY <1>2, WriteAssumption DEF DeviceSilent, DeviceTakes, IInv, TypeOK
  <1> QED
    BY <1>1, <1>3, GiveUpPreserves DEF DeviceSilent

LEMMA VerifyRejectsAckPreserves ==
  ASSUME IInv, NEW n \in Write, VerifyRejectsAck(n)
  PROVE  IInv'
  <1>1. Owner(n) /\ Waits(n)
    BY DEF VerifyRejectsAck, ReadsBack, Waits
  <1>2. held' \in [Point -> Value]
    BY DEF VerifyRejectsAck, IInv, TypeOK
  <1> QED
    BY <1>1, <1>2, GiveUpPreserves DEF VerifyRejectsAck

LEMMA VerifyFailsPreserves ==
  ASSUME IInv, NEW n \in Write, VerifyFails(n)
  PROVE  IInv'
  <1>1. Owner(n) /\ Waits(n) /\ IsOpen(n) /\ write[n].pc = "verify"
    BY DEF VerifyFails, Waits, IsOpen
  <1>2. CASE ~(write[n].attempt < VerifyAttempts)
    <2>1. Refused(n) /\ queue' = Tail(queue) /\ UNCHANGED <<asked, poll, clean>>
      BY <1>2 DEF VerifyFails
    <2>2. held' \in [Point -> Value]
      BY DEF VerifyFails, IInv, TypeOK
    <2> QED
      BY <1>1, <2>1, <2>2, GiveUpPreserves
  <1>3. CASE write[n].attempt < VerifyAttempts
    <2> USE DEF IInv
    <2>1. /\ write' = [write EXCEPT ![n] = [write[n] EXCEPT !.attempt = @ + 1]]
          /\ UNCHANGED <<register, pointValue, healthVars, mask, queue, held, asked, poll, clean>>
      BY <1>3 DEF VerifyFails
    <2>2. write[n] \in VerifyingWrite /\ write \in [Write -> WriteRecord]
      BY <1>1, WriteKinds DEF TypeOK, WriteRecord
    <2>3. write[n].attempt + 1 \in 1..VerifyAttempts
      BY <1>3, <2>2, WriteAssumption DEF VerifyingWrite
    <2>4. /\ write'[n] = [write[n] EXCEPT !.attempt = @ + 1]
          /\ \A m \in Write \ {n} : write'[m] = write[m]
      BY <2>1, <2>2
    <2>5. /\ write'[n] \in VerifyingWrite
          /\ write'[n].pc = write[n].pc /\ write'[n].points = write[n].points
          /\ write'[n].exact = write[n].exact /\ write'[n].previous = write[n].previous
          /\ write'[n].value = write[n].value /\ write'[n].landed = write[n].landed
      BY <2>2, <2>3, <2>4 DEF VerifyingWrite
    <2>6. \A m \in Write :
            /\ write'[m].pc = write[m].pc
            /\ Waits(m)' <=> Waits(m)
            /\ IsOpen(m) => /\ write'[m].points = write[m].points
                            /\ write'[m].exact = write[m].exact
                            /\ write'[m].previous = write[m].previous
            /\ write[m].pc = "verify" =>
                 /\ Subject(m)' = Subject(m) /\ write'[m].value = write[m].value
                 /\ write'[m].landed = write[m].landed
      BY <2>4, <2>5 DEF Waits, Subject
    <2>7. TypeOK'
      <3>1. write' \in [Write -> WriteRecord]
        BY <2>1, <2>2, <2>4, <2>5 DEF WriteRecord
      <3> QED
        BY <2>1, <3>1 DEF TypeOK, WriteRecord, healthVars
    <2>8. QueueInv'
      BY <2>1, <2>6, QueueStays
    <2>9. OrderInv'
      BY <2>1, <2>6 DEF OrderInv, Owner
    <2>10. KnownInv'
      BY <2>6 DEF KnownInv, IsOpen, Waits, Matches
    <2>11. VerifySeesOwnWrite'
      BY <2>1, <2>6 DEF VerifySeesOwnWrite
    <2> QED
      BY <2>1, <2>7, <2>8, <2>9, <2>10, <2>11 DEF PollInv, MorePoints
  <1> QED
    BY <1>2, <1>3

LEMMA VerifyAcceptsPreserves ==
  ASSUME IInv, NEW n \in Write, VerifyAccepts(n)
  PROVE  IInv'
  <1> USE DEF IInv
  <1>1. Owner(n) /\ Waits(n) /\ IsOpen(n) /\ Matches(n)
    BY DEF VerifyAccepts, ReadsBack, Waits, IsOpen, KnownInv
  <1>2. Subject(n) \in Point
    BY <1>1, SubjectIs
  <1>3. /\ write' = [write EXCEPT ![n] = Closed("accepted")]
        /\ write \in [Write -> WriteRecord]
    BY DEF VerifyAccepts, TypeOK, WriteRecord
  <1>4. /\ write' \in [Write -> WriteRecord]
        /\ write'[n].pc = "accepted" /\ \A m \in Write \ {n} : write'[m] = write[m]
    BY <1>3 DEF Closed, WriteRecord
  <1>5. QueueInv' /\ OrderInv' /\ KnownInv'
    BY <1>1, <1>4, CloseKeepsOrder DEF VerifyAccepts
  <1>6. VerifySeesOwnWrite'
    BY <1>1, <1>4, NobodyVerifies
  <1>7. TypeOK'
    <2>1. queue' \in Seq(Write \cup {Poller})
      BY <1>1 DEF VerifyAccepts, TypeOK, Owner
    <2>2. register' \in [Point -> Value] /\ pointValue' \in [Point -> Value \cup {None}]
      BY <1>2 DEF VerifyAccepts, TypeOK
    <2>3. /\ consecutiveFailures' \in [Point -> 0..FaultAfter]
          /\ channelStatus' \in [Point -> ChannelShown]
          /\ channelReg' \in [Point -> ChannelShown]
      BY <1>2, WriteAssumption DEF VerifyAccepts, TypeOK, ChannelShown
    <2>4. mask' \subseteq LogicUnit
      BY MaskType DEF VerifyAccepts
    <2> QED
      BY <1>4, <2>1, <2>2, <2>3, <2>4 DEF VerifyAccepts, TypeOK, WriteRecord, ChannelShown
  <1> QED
    BY <1>5, <1>6, <1>7 DEF VerifyAccepts, PollInv, MorePoints

-----------------------------------------------------------------------------
(* The poll task.                                                          *)

(* It changes no write, and the device only answers.                       *)
LEMMA WritesUntouched ==
  ASSUME OrderInv, KnownInv, VerifySeesOwnWrite, UNCHANGED <<held, clientVars>>,
         \A n \in Write : (write[n].pc = "verify" /\ Owner(n)) => Owner(n)'
  PROVE  OrderInv' /\ KnownInv' /\ VerifySeesOwnWrite'
  BY DEF OrderInv, KnownInv, VerifySeesOwnWrite, clientVars, IsOpen, Waits, Matches, Subject

(* Steps that leave the lock alone.                                        *)
LEMMA PollMovesPreserves ==
  ASSUME IInv, PollWake \/ PollSkip \/ PollEnd
  PROVE  IInv'
  <1> USE DEF IInv
  <1>1. UNCHANGED <<register, pointValue, held, clientVars, queue, consecutiveFailures,
                    channelStatus, mask, clean>>
    BY DEF PollWake, PollSkip, PollEnd, healthVars
  <1>2. QueueInv'
    BY <1>1, QueueStays DEF clientVars, Waits
  <1>3. OrderInv' /\ KnownInv' /\ VerifySeesOwnWrite'
    BY <1>1, WritesUntouched DEF Owner
  <1>4. poll' \in [pc : {"asleep", "running", "queued"}, at : 1..(Len(PollOrder) + 1)]
        /\ poll'.pc # "queued"
    <2>1. 1 \in 1..(Len(PollOrder) + 1)
      BY WriteAssumption
    <2>2. CASE PollWake
      BY <2>1, <2>2 DEF PollWake
    <2>3. CASE PollEnd
      BY <2>1, <2>3 DEF PollEnd
    <2>4. CASE PollSkip
      <3>1. poll.at + 1 \in 1..(Len(PollOrder) + 1)
        BY <2>4, NextPosition DEF PollSkip
      <3> QED
        BY <2>4, <3>1 DEF PollSkip, TypeOK
    <2> QED
      BY <2>2, <2>3, <2>4
  <1>5. channelReg' \in [Point -> ChannelShown]
        /\ recoverySkip' \in [Point -> 0..(RecoveryCycles - 1)]
    <2>1. CASE PollSkip
      <3>1. At \in Point
        BY <2>1, AtPoint DEF PollSkip
      <3>2. recoverySkip[At] - 1 \in 0..(RecoveryCycles - 1)
        <4>1. RecoveryCycles \in Nat /\ recoverySkip[At] \in 0..(RecoveryCycles - 1)
          BY <3>1, WriteAssumption DEF TypeOK
        <4> QED
          BY <2>1, <4>1 DEF PollSkip
      <3> QED
        BY <2>1, <3>1, <3>2 DEF PollSkip, TypeOK, ChannelShown
    <2>2. CASE PollWake \/ PollEnd
      BY <2>2 DEF PollWake, PollEnd, healthVars, TypeOK, ChannelShown
    <2> QED
      BY <2>1, <2>2
  <1>6. TypeOK'
    BY <1>1, <1>4, <1>5 DEF TypeOK, clientVars, ChannelShown
  <1> QED
    BY <1>2, <1>3, <1>4, <1>6 DEF PollInv

(* The poll task joins the queue ...                                       *)
LEMMA PollBeginPreserves ==
  ASSUME IInv, PollBegin
  PROVE  IInv'
  <1> USE DEF IInv
  <1>1. \A n \in Write : Waits(n)' <=> (Waits(n) \/ n = Poller)
    BY WriteAssumption DEF PollBegin, clientVars, Waits
  <1>2. QueueInv'
    BY <1>1, QueueGrows, WriteAssumption DEF PollBegin
  <1>3. \A n \in Write : Owner(n) => Owner(n)'
    BY DEF PollBegin, Owner, TypeOK
  <1>4. OrderInv' /\ KnownInv' /\ VerifySeesOwnWrite'
    BY <1>3, WritesUntouched DEF PollBegin
  <1>5. TypeOK'
    <2>1. queue' \in Seq(Write \cup {Poller})
      BY DEF PollBegin, TypeOK
    <2>2. poll' \in [pc : {"asleep", "running", "queued"}, at : 1..(Len(PollOrder) + 1)]
      BY DEF PollBegin, TypeOK
    <2> QED
      BY <2>1, <2>2 DEF PollBegin, TypeOK, clientVars, healthVars
  <1>6. PollInv'
    BY DEF PollBegin, PollInv, MorePoints, TypeOK
  <1> QED
    BY <1>2, <1>4, <1>5, <1>6

(* ... and leaves it with an answer, without one, or with an empty one.    *)
LEMMA PollAnswersPreserves ==
  ASSUME IInv, PollValue \/ PollEmpty \/ PollFails
  PROVE  IInv'
  <1> USE DEF IInv
  <1>1. PollDone
    BY DEF PollValue, PollEmpty, PollFails
  <1>2. At \in Point
    BY <1>1, AtPoint DEF PollDone, PollInv
  <1>3. \A n \in Write : Waits(n)' <=> (Waits(n) /\ n # Poller)
    BY <1>1, WriteAssumption DEF PollDone, clientVars, Waits
  <1>4. QueueInv'
    BY <1>1, <1>3, QueueShrinks DEF PollDone
  <1>5. \A n \in Write : ~Owner(n)
    BY <1>1, WriteAssumption DEF PollDone, Owner
  <1>6. OrderInv' /\ KnownInv' /\ VerifySeesOwnWrite'
    BY <1>1, <1>5, WritesUntouched DEF PollDone
  <1>7. queue' \in Seq(Write \cup {Poller})
    BY <1>1 DEF PollDone, Owner, TypeOK
  <1>8. poll' \in [pc : {"asleep", "running", "queued"}, at : 1..(Len(PollOrder) + 1)]
        /\ poll'.pc # "queued"
    <2>1. poll.at + 1 \in 1..(Len(PollOrder) + 1)
      BY <1>1, NextPosition DEF PollDone, PollInv
    <2> QED
      BY <1>1, <2>1 DEF PollDone
  <1>9. /\ register' \in [Point -> Value]
        /\ pointValue' \in [Point -> Value \cup {None}]
    BY <1>2 DEF PollValue, PollEmpty, PollFails, TypeOK
  <1>10. /\ consecutiveFailures' \in [Point -> 0..FaultAfter]
         /\ recoverySkip' \in [Point -> 0..(RecoveryCycles - 1)]
         /\ channelStatus' \in [Point -> ChannelShown]
         /\ channelReg' \in [Point -> ChannelShown]
    <2>1. CASE PollValue \/ PollEmpty
      <3>1. 0 \in 0..FaultAfter
        BY WriteAssumption
      <3>2. PICK status \in {CHANNEL_OK, CHANNEL_DISABLED} : PollHealthy(status)
        BY <2>1 DEF PollValue, PollEmpty
      <3> QED
        BY <1>2, <3>1, <3>2 DEF PollHealthy, TypeOK, ChannelShown
    <2>2. CASE PollFails
      <3> DEFINE n == IF consecutiveFailures[At] < FaultAfter THEN consecutiveFailures[At] + 1
                                                              ELSE FaultAfter
      <3>1. n \in 0..FaultAfter /\ RecoveryCycles - 1 \in 0..(RecoveryCycles - 1)
        BY <1>2, WriteAssumption DEF TypeOK
      <3>2. consecutiveFailures' = [consecutiveFailures EXCEPT ![At] = n]
        BY <2>2 DEF PollFails
      <3>3. PICK status \in {CHANNEL_FAILED, CHANNEL_COMM_ERROR} :
              /\ channelStatus' = [channelStatus EXCEPT ![At] = status]
              /\ channelReg' = [channelReg EXCEPT ![At] = status]
        BY <2>2 DEF PollFails
      <3>4. PICK skip \in {RecoveryCycles - 1, recoverySkip[At]} :
              recoverySkip' = [recoverySkip EXCEPT ![At] = skip]
        BY <2>2 DEF PollFails
      <3> HIDE DEF n
      <3> QED
        BY <1>2, <3>1, <3>2, <3>3, <3>4 DEF TypeOK, ChannelShown
    <2> QED
      BY <2>1, <2>2
  <1>11. TypeOK'
    BY <1>1, <1>7, <1>8, <1>9, <1>10 DEF PollDone, TypeOK, clientVars, ChannelShown
  <1> QED
    BY <1>4, <1>6, <1>8, <1>11 DEF PollInv

-----------------------------------------------------------------------------
(* The field.                                                              *)

(* The operator changes the value a task is verifying: the task's write is *)
(* no longer what the device holds, and the model says so.                 *)
LEMMA PanelChangePreserves ==
  ASSUME IInv, NEW p \in Point, NEW v \in PanelValue, PanelChange(p, v)
  PROVE  IInv'
  <1> USE DEF IInv
  <1>1. write \in [Write -> WriteRecord] /\ held' = [held EXCEPT ![p] = v] /\ v \in Value
    BY WriteAssumption DEF PanelChange, TypeOK, WriteRecord
  <1>2. ASSUME NEW m \in Write
        PROVE  /\ write'[m] \in WriteRecord
               /\ write'[m].pc = write[m].pc
               /\ Waits(m)' <=> Waits(m)
               /\ IsOpen(m) => /\ write'[m].points = write[m].points
                               /\ write'[m].exact = write[m].exact
                               /\ write'[m].previous = write[m].previous
                               /\ write'[m].value = write[m].value
               /\ (write[m].pc = "verify" /\ write'[m].landed) =>
                    write[m].landed /\ p \notin write[m].points
    <2>1. CASE write[m].pc = "verify" /\ p \in write[m].points
      <3>1. write[m] \in VerifyingWrite
        BY <1>1, <2>1, WriteKinds
      <3>2. write'[m] = [write[m] EXCEPT !.landed = FALSE]
        BY <2>1 DEF PanelChange
      <3>3. /\ write'[m] \in VerifyingWrite /\ write'[m].landed = FALSE
            /\ write'[m].pc = write[m].pc /\ write'[m].points = write[m].points
            /\ write'[m].exact = write[m].exact /\ write'[m].previous = write[m].previous
            /\ write'[m].value = write[m].value
        BY <3>1, <3>2 DEF VerifyingWrite
      <3> QED
        BY <3>3 DEF Waits, WriteRecord
    <2>2. CASE ~(write[m].pc = "verify" /\ p \in write[m].points)
      <3>1. write'[m] = write[m]
        BY <2>2 DEF PanelChange
      <3> QED
        BY <1>1, <2>2, <3>1 DEF Waits
    <2> QED
      BY <2>1, <2>2
  <1>3. QueueInv'
    BY <1>2, QueueStays DEF PanelChange
  <1>4. OrderInv'
    BY <1>2 DEF OrderInv, Owner, PanelChange
  <1>5. KnownInv'
    BY <1>2 DEF KnownInv, IsOpen, Waits, Matches
  <1>6. VerifySeesOwnWrite'
    <2> SUFFICES ASSUME NEW m \in Write, write'[m].pc = "verify", write'[m].landed
                 PROVE  held'[Subject(m)'] = Stored[write'[m].value]
      BY DEF VerifySeesOwnWrite
    <2>1. /\ write[m].pc = "verify" /\ write[m].landed /\ p \notin write[m].points
          /\ write'[m].points = write[m].points /\ write'[m].value = write[m].value
      BY <1>2 DEF IsOpen
    <2>2. Subject(m)' = Subject(m)
      BY <2>1 DEF Subject
    <2>3. Subject(m) # p
      BY <2>1, SubjectIs DEF KnownInv, Waits
    <2>4. held[Subject(m)] = Stored[write[m].value]
      BY <2>1 DEF VerifySeesOwnWrite
    <2>5. Subject(m) \in Point
      BY <2>1, SubjectIs DEF KnownInv, Waits
    <2> QED
      BY <1>1, <2>1, <2>2, <2>3, <2>4, <2>5 DEF TypeOK
  <1>7. TypeOK'
    <2>1. write' \in [Write -> WriteRecord]
      BY <1>2 DEF PanelChange
    <2>2. held' \in [Point -> Value]
      BY <1>1 DEF TypeOK
    <2> QED
      BY <2>1, <2>2 DEF PanelChange, TypeOK, WriteRecord, healthVars
  <1> QED
    BY <1>3, <1>4, <1>5, <1>6, <1>7 DEF PanelChange, PollInv, MorePoints

LEMMA NextIInv == IInv /\ [Next]_vars => IInv'
  <1> SUFFICES ASSUME IInv, [Next]_vars PROVE IInv'
    OBVIOUS
  <1>1. ASSUME NEW n \in Write, HandlerStep(n) PROVE IInv'
    BY <1>1, StartRefusedPreserves, StartWritePreserves, DeviceAcksPreserves,
       DeviceSilentPreserves, VerifyAcceptsPreserves, VerifyRejectsAckPreserves,
       VerifyFailsPreserves DEF HandlerStep
  <1>2. CASE PollStep
    BY <1>2, PollMovesPreserves, PollBeginPreserves, PollAnswersPreserves DEF PollStep
  <1>3. CASE Settle \/ UNCHANGED vars
    <2>1. UNCHANGED <<register, pointValue, held, clientVars, queue, poll, healthVars, mask>>
          /\ clean' \in BOOLEAN
      BY <1>3 DEF Settle, vars, IInv, TypeOK
    <2>2. TypeOK' /\ PollInv'
      BY <2>1 DEF IInv, TypeOK, PollInv, MorePoints, clientVars, healthVars
    <2>3. QueueInv'
      BY <2>1, QueueStays DEF IInv, clientVars, Waits
    <2>4. OrderInv' /\ KnownInv' /\ VerifySeesOwnWrite'
      BY <2>1, WritesUntouched DEF IInv, Owner
    <2> QED
      BY <2>2, <2>3, <2>4 DEF IInv
  <1>4. CASE \E t \in Target, v \in Value : ClientWrite(t, v)
    BY <1>4, ClientWritePreserves
  <1>5. CASE \E p \in Point, v \in PanelValue : PanelChange(p, v)
    BY <1>5, PanelChangePreserves
  <1> QED
    BY <1>1, <1>2, <1>3, <1>4, <1>5 DEF Next

LEMMA Invariance == Spec => []IInv
  BY InitIInv, NextIInv, PTL DEF Spec

-----------------------------------------------------------------------------
(* Every variable keeps its type: registers and devices only ever hold     *)
(* values, and a task is in one of its phases with what that phase knows.  *)
THEOREM TypeCorrect == Spec => []TypeOK
  <1>1. IInv => TypeOK
    BY DEF IInv
  <1> QED
    BY <1>1, Invariance, PTL

(* A verifying task finds its own value in the device, unless the device   *)
(* did not take it or its panel was used: the lock is held from the write  *)
(* to the end of the readback.                                             *)
THEOREM VerifySeesOwnWriteCorrect == Spec => []VerifySeesOwnWrite
  <1>1. IInv => VerifySeesOwnWrite
    BY DEF IInv
  <1> QED
    BY <1>1, Invariance, PTL

(* Writes of one point reach the device in the order the clients made      *)
(* them, however many of them wait for the line.                           *)
THEOREM LastWriterWinsCorrect == Spec => []LastWriterWins
  <1>1. ASSUME IInv PROVE LastWriterWins
    <2> SUFFICES ASSUME NEW m \in Write, NEW n \in Write, m < n, IsOpen(m),
                        write[n].pc = "verify"
                 PROVE  FALSE
      BY DEF LastWriterWins
    <2>1. Owner(n) /\ Waits(n)
      BY <1>1 DEF IInv, OrderInv, Waits
    <2> QED
      BY <1>1, <2>1, OwnerIsOldest DEF IInv
  <1> QED
    BY <1>1, Invariance, PTL

-----------------------------------------------------------------------------
(* SetpointWrite implements SetpointContract.  What the contract says of   *)
(* the order of the writes needs the invariant: the write that owns the    *)
(* line is the oldest that is open.                                        *)

Requests == [n \in Write |-> RequestOf(n)]

(* Facts about the refinement mapping.                                     *)

(* A request stays what it is while its write stays open and asks the same.*)
LEMMA RequestStays ==
  ASSUME NEW n \in Write, IsOpen(n), IsOpen(n)',
         write'[n].points = write[n].points, write'[n].exact = write[n].exact,
         write'[n].value = write[n].value, write'[n].previous = write[n].previous
  PROVE  RequestOf(n)' = RequestOf(n)
  <1>1. Matches(n)' = Matches(n)
    BY DEF Matches
  <1> QED
    BY <1>1 DEF RequestOf

LEMMA RequestSame ==
  ASSUME NEW n \in Write, write'[n] = write[n]
  PROVE  RequestOf(n)' = RequestOf(n)
  BY DEF RequestOf, IsOpen, Matches

(* What an open request looks like.                                        *)
LEMMA OpenRequest ==
  ASSUME NEW n \in Write, IsOpen(n)
  PROVE  /\ Requests[n] = RequestOf(n) /\ RequestOf(n).state = "open"
         /\ RequestOf(n).points = write[n].points
         /\ RequestOf(n).setpoint = Matches(n)
         /\ RequestOf(n).value = write[n].value
         /\ RequestOf(n).before = write[n].previous
  BY DEF Requests, RequestOf

(* The device takes the value of one point: that of the request.           *)
LEMMA LandedIs ==
  ASSUME TypeOK, NEW n \in Write, IsOpen(n), Matches(n), DeviceTakes(n)
  PROVE  held' = [p \in Point |-> IF p \in Requests[n].points THEN Stored[Requests[n].value]
                                                               ELSE held[p]]
  <1>1. Requests[n].points = {Subject(n)} /\ Requests[n].value = write[n].value
    BY OpenRequest, SubjectIs
  <1>2. Subject(n) \in Point
    BY SubjectIs
  <1>3. held' = [held EXCEPT ![Subject(n)] = Stored[write[n].value]]
    BY DEF DeviceTakes
  <1>4. held \in [Point -> Value]
    BY DEF TypeOK
  <1> QED
    BY <1>1, <1>2, <1>3, <1>4

(* A write closes: so does its request, and no other.                      *)
LEMMA RequestCloses ==
  ASSUME NEW n \in Write, NEW how \in {"accepted", "refused"}, write'[n].pc = how,
         \A m \in Write \ {n} : write'[m] = write[m]
  PROVE  Requests' = [Requests EXCEPT ![n] = [state |-> how]]
  <1>1. RequestOf(n)' = [state |-> how]
    BY DEF RequestOf, IsOpen
  <1>2. \A m \in Write \ {n} : RequestOf(m)' = RequestOf(m)
    BY RequestSame
  <1> QED
    BY <1>1, <1>2 DEF Requests

(* A closed request is not open.                                           *)
LEMMA ClosedRequest ==
  ASSUME NEW m \in Write, ~IsOpen(m), write[m].pc \in {"unused", "accepted", "refused"}
  PROVE  Requests[m].state # "open"
  BY DEF Requests, RequestOf

(* The owner of the line may land: nothing older is open.                  *)
LEMMA OwnerInOrder ==
  ASSUME IInv, NEW n \in Write, Owner(n), Waits(n)
  PROVE  Contract!InOrder(n)
  <1> SUFFICES ASSUME NEW m \in Write, m < n, Requests[m].state = "open"
               PROVE  FALSE
    BY DEF Contract!InOrder, Contract!Open, Request, Requests
  <1>1. ~IsOpen(m)
    BY OwnerIsOldest DEF IInv
  <1>2. write[m] \in WriteRecord
    BY DEF IInv, TypeOK, WriteRecord
  <1>3. write[m].pc \in {"unused", "accepted", "refused"}
    BY <1>1, <1>2 DEF IsOpen, WriteRecord, OpenWrite, VerifyingWrite
  <1> QED
    BY <1>1, <1>3, ClosedRequest

-----------------------------------------------------------------------------
(* The steps.                                                              *)

LEMMA InitMaps == Init => Contract!Init
  <1> SUFFICES ASSUME Init PROVE Contract!Init
    OBVIOUS
  <1>1. \A n \in Write : RequestOf(n) = [state |-> "free"]
    BY DEF Init, Closed, RequestOf, IsOpen
  <1>2. register \in [Point -> Value]
    BY WriteAssumption DEF Init
  <1> QED
    BY <1>1, <1>2 DEF Init, Contract!Init, Contract!Closed, Request

LEMMA ClientWriteMaps ==
  ASSUME IInv, NEW t \in Target, NEW v \in Value, ClientWrite(t, v)
  PROVE  \E n \in Request : Contract!Ask(n)
  <1>1. asked \in Nat /\ asked + 1 \in Write
    BY WriteAssumption DEF ClientWrite, IInv, TypeOK, Write
  <1> PICK n \in Write : n = asked + 1
    BY <1>1
  <1> DEFINE old == [p \in t.points |-> register[p]]
             new == [pc |-> "spawned", points |-> t.points, exact |-> t.exact, value |-> v,
                     previous |-> old]
             isSetpoint == t.exact /\ \E p \in Writable : t.points = {p}
             ask == [points |-> t.points, setpoint |-> isSetpoint]
  <1>2. write[n].pc = "unused"
    <2>1. n > asked
      BY <1>1
    <2> QED
      BY <2>1 DEF IInv, OrderInv
  <1>3. /\ write'[n] = new /\ \A m \in Write \ {n} : write'[m] = write[m]
    BY <1>1 DEF ClientWrite, IInv, TypeOK
  <1>4. ask \in AskFor
    BY DEF AskFor
  <1>5. Matches(n)' = isSetpoint
    BY <1>3 DEF Matches
  <1>6. RequestOf(n)' = [state |-> "open", points |-> t.points, setpoint |-> isSetpoint,
                         value |-> v, before |-> old]
    <2>1. /\ write'[n].pc = "spawned" /\ write'[n].points = t.points /\ write'[n].value = v
          /\ write'[n].previous = old
      BY <1>3
    <2> HIDE DEF old, isSetpoint
    <2> QED
      BY <1>5, <2>1 DEF RequestOf, IsOpen
  <1>7. RequestOf(n) = [state |-> "free"]
    BY <1>2 DEF RequestOf, IsOpen
  <1>8. \A m \in Write \ {n} : RequestOf(m)' = RequestOf(m)
    BY <1>3, RequestSame
  <1>9. Requests' = [Requests EXCEPT ![n] =
          [state |-> "open", points |-> ask.points, setpoint |-> ask.setpoint, value |-> v,
           before |-> [p \in ask.points |-> register[p]]]]
    <2>1. ask.points = t.points /\ ask.setpoint = isSetpoint
      <3> HIDE DEF isSetpoint
      <3> QED
        OBVIOUS
    <2> HIDE DEF ask, isSetpoint
    <2> QED
      BY <1>6, <1>8, <2>1 DEF Requests
  <1>10. register' = [p \in Point |-> IF p \in ask.points THEN [q \in Point |-> v][p]
                                                         ELSE register[p]]
    BY DEF ClientWrite
  <1>11. Requests[n] = [state |-> "free"]
    BY <1>1, <1>7 DEF Requests
  <1> HIDE DEF ask
  <1>12. Contract!Ask(n)
    BY <1>4, <1>9, <1>10, <1>11
       DEF ClientWrite, Contract!Ask, Contract!Show, Contract!Closed, Requests, Request
  <1> QED
    BY <1>1, <1>12 DEF Request

(* A refusal, whether or not the device took the value before.             *)
LEMMA RefusedMaps ==
  ASSUME IInv, NEW n \in Write, IsOpen(n), Refused(n),
         \/ UNCHANGED held
         \/ Waits(n) /\ Owner(n) /\ DeviceTakes(n)
  PROVE  Contract!Refuse(n)
  <1>1. write'[n].pc = "refused" /\ \A m \in Write \ {n} : write'[m] = write[m]
    BY RefusedTypes DEF IInv
  <1>2. Requests' = [Requests EXCEPT ![n] = [state |-> "refused"]]
    BY <1>1, RequestCloses
  <1>3. register' = [p \in Point |-> IF p \in Requests[n].points THEN Requests[n].before[p]
                                                                ELSE register[p]]
    BY OpenRequest DEF Refused, Restore
  <1>4. ASSUME Waits(n), Owner(n), DeviceTakes(n)
        PROVE  Requests[n].setpoint /\ Contract!InOrder(n) /\ Contract!Landed(n)
    <2>1. Matches(n)
      BY <1>4 DEF IInv, KnownInv
    <2>2. held' = [p \in Point |-> IF p \in Requests[n].points THEN Stored[Requests[n].value]
                                                              ELSE held[p]]
      BY <1>4, <2>1, LandedIs DEF IInv
    <2> QED
      BY <1>4, <2>1, <2>2, OpenRequest, OwnerInOrder DEF Contract!Landed, Requests
  <1>5. UNCHANGED held \/ (Requests[n].setpoint /\ Contract!InOrder(n) /\ Contract!Landed(n))
    BY <1>4
  <1> QED
    BY <1>2, <1>3, <1>5, OpenRequest
       DEF Contract!Refuse, Contract!Open, Contract!Show, Contract!Closed, Requests, Request

LEMMA DeviceAcksMaps ==
  ASSUME IInv, NEW n \in Write, DeviceAcks(n)
  PROVE  Contract!Land(n) \/ UNCHANGED Contract!vars
  <1>1. Owner(n) /\ Waits(n) /\ IsOpen(n) /\ Matches(n)
    BY DEF DeviceAcks, Waits, IsOpen, IInv, KnownInv
  <1>2. /\ write'[n].pc = "verify" /\ write'[n].points = write[n].points
        /\ write'[n].exact = write[n].exact /\ write'[n].value = write[n].value
        /\ write'[n].previous = write[n].previous
        /\ \A m \in Write \ {n} : write'[m] = write[m]
    BY DEF DeviceAcks, IInv, TypeOK
  <1>3. Requests' = Requests
    BY <1>1, <1>2, RequestStays, RequestSame DEF Requests, IsOpen
  <1>4. CASE UNCHANGED held
    BY <1>3, <1>4 DEF DeviceAcks, Contract!vars, Requests, Request
  <1>5. CASE DeviceTakes(n)
    <2>1. held' = [p \in Point |-> IF p \in Requests[n].points THEN Stored[Requests[n].value]
                                                              ELSE held[p]]
      BY <1>1, <1>5, LandedIs DEF IInv
    <2>2. Requests[n].state = "open" /\ Requests[n].setpoint
      BY <1>1, OpenRequest
    <2> QED
      BY <1>1, <1>3, <2>1, <2>2, OwnerInOrder
         DEF DeviceAcks, Contract!Land, Contract!Open, Contract!Landed, Requests, Request
  <1> QED
    BY <1>4, <1>5 DEF DeviceAcks

LEMMA VerifyAcceptsMaps ==
  ASSUME IInv, NEW n \in Write, VerifyAccepts(n)
  PROVE  Contract!Accept(n)
  <1>1. Owner(n) /\ Waits(n) /\ IsOpen(n) /\ Matches(n)
    BY DEF VerifyAccepts, ReadsBack, Waits, IsOpen, IInv, KnownInv
  <1>2. Requests[n].state = "open" /\ Requests[n].setpoint
        /\ Requests[n].points = {Subject(n)} /\ Requests[n].value = write[n].value
    BY <1>1, OpenRequest, SubjectIs
  <1>3. write'[n].pc = "accepted" /\ \A m \in Write \ {n} : write'[m] = write[m]
    BY DEF VerifyAccepts, Closed, IInv, TypeOK
  <1>4. Requests' = [Requests EXCEPT ![n] = [state |-> "accepted"]]
    BY <1>3, RequestCloses
  <1>5. Contract!Distance(held[Subject(n)], write[n].value) <= Tolerance
    <2>1. held[Subject(n)] \in Int /\ write[n].value \in Int
      BY <1>1, SubjectIs, OpenTypes, WriteAssumption DEF IInv, TypeOK
    <2> QED
      BY <2>1 DEF VerifyAccepts, ReadsBack, Near, Magnitude, Contract!Distance
  <1>6. register' = [p \in Point |-> IF p \in Requests[n].points THEN held[p] ELSE register[p]]
    BY <1>1, <1>2, SubjectIs DEF VerifyAccepts, IInv, TypeOK
  <1>7. \A p \in Requests[n].points : Contract!Distance(held[p], Requests[n].value) <= Tolerance
    BY <1>2, <1>5
  <1> QED
    BY <1>1, <1>2, <1>4, <1>6, <1>7, OwnerInOrder
       DEF VerifyAccepts, Contract!Accept, Contract!Open, Contract!Show, Contract!Closed,
           Requests, Request

LEMMA HandlerMaps ==
  ASSUME IInv, NEW n \in Write, HandlerStep(n)
  PROVE  Contract!Land(n) \/ Contract!Accept(n) \/ Contract!Refuse(n) \/ UNCHANGED Contract!vars
  <1>1. CASE StartRefused(n)
    <2>1. IsOpen(n) /\ Refused(n) /\ UNCHANGED held
      BY <1>1 DEF StartRefused, Starts, IsOpen
    <2> QED
      BY <2>1, RefusedMaps
  <1>2. CASE StartWrite(n)
    <2>1. /\ IsOpen(n) /\ write'[n].pc = "queued" /\ write'[n].points = write[n].points
          /\ write'[n].exact = write[n].exact /\ write'[n].value = write[n].value
          /\ write'[n].previous = write[n].previous
          /\ \A m \in Write \ {n} : write'[m] = write[m]
      <3>1. write[n] \in OpenWrite /\ write[n].pc = "spawned"
        BY <1>2, WriteKinds DEF StartWrite, Starts, IInv, TypeOK, WriteRecord
      <3>2. write'[n] = [write[n] EXCEPT !.pc = "queued"]
            /\ \A m \in Write \ {n} : write'[m] = write[m]
        BY <1>2 DEF StartWrite, IInv, TypeOK
      <3> QED
        BY <3>1, <3>2 DEF IsOpen, OpenWrite
    <2>2. Requests' = Requests
      BY <2>1, RequestStays, RequestSame DEF Requests, IsOpen
    <2> QED
      BY <1>2, <2>2 DEF StartWrite, Contract!vars, Requests, Request
  <1>3. CASE DeviceAcks(n)
    BY <1>3, DeviceAcksMaps
  <1>4. CASE DeviceSilent(n)
    <2>1. /\ IsOpen(n) /\ Waits(n) /\ Owner(n) /\ Refused(n)
          /\ DeviceTakes(n) \/ UNCHANGED held
      BY <1>4 DEF DeviceSilent, IsOpen, Waits
    <2> QED
      BY <2>1, RefusedMaps
  <1>5. CASE VerifyAccepts(n)
    BY <1>5, VerifyAcceptsMaps
  <1>6. CASE VerifyRejectsAck(n)
    <2>1. IsOpen(n) /\ Refused(n) /\ UNCHANGED held
      BY <1>6 DEF VerifyRejectsAck, ReadsBack, IsOpen
    <2> QED
      BY <2>1, RefusedMaps
  <1>7. CASE VerifyFails(n) /\ Refused(n)
    <2>1. IsOpen(n) /\ UNCHANGED held
      BY <1>7 DEF VerifyFails, IsOpen
    <2> QED
      BY <1>7, <2>1, RefusedMaps
  <1>8. CASE VerifyFails(n) /\ ~Refused(n)
    <2>1. /\ IsOpen(n) /\ write'[n].pc = "verify" /\ write'[n].points = write[n].points
          /\ write'[n].exact = write[n].exact /\ write'[n].value = write[n].value
          /\ write'[n].previous = write[n].previous
          /\ \A m \in Write \ {n} : write'[m] = write[m]
      <3>1. write[n] \in VerifyingWrite /\ write[n].pc = "verify"
        BY <1>8, WriteKinds DEF VerifyFails, IInv, TypeOK, WriteRecord
      <3>2. write'[n] = [write[n] EXCEPT !.attempt = @ + 1]
            /\ \A m \in Write \ {n} : write'[m] = write[m]
        BY <1>8 DEF VerifyFails, IInv, TypeOK
      <3> QED
        BY <3>1, <3>2 DEF IsOpen, VerifyingWrite
    <2>2. Requests' = Requests
      BY <2>1, RequestStays, RequestSame DEF Requests, IsOpen
    <2> QED
      BY <1>8, <2>2 DEF VerifyFails, Contract!vars, Requests, Request
  <1> QED
    BY <1>1, <1>2, <1>3, <1>4, <1>5, <1>6, <1>7, <1>8 DEF HandlerStep

(* The poll task observes the points it publishes.                         *)
LEMMA PollMaps ==
  ASSUME IInv, PollStep
  PROVE  (\E p \in Point : Contract!Observe(p)) \/ UNCHANGED Contract!vars
  <1>1. UNCHANGED <<write, held>>
    BY DEF PollStep, PollWake, PollSkip, PollBegin, PollValue, PollEmpty, PollFails, PollEnd,
       PollDone, clientVars
  <1>2. Requests' = Requests
    BY <1>1, RequestSame DEF Requests
  <1>3. CASE UNCHANGED register
    BY <1>1, <1>2, <1>3 DEF Contract!vars, Requests, Request
  <1>4. CASE PollValue /\ At \in Published
    <2>1. At \in Point
      BY <1>4, AtPoint DEF PollValue, PollDone, IInv, PollInv
    <2>2. register' = [p \in Point |-> IF p \in {At} THEN held[p] ELSE register[p]]
      BY <1>4, <2>1 DEF PollValue, IInv, TypeOK
    <2>3. Contract!Observe(At)
      BY <1>1, <1>2, <2>2 DEF Contract!Observe, Contract!Show, Requests, Request
    <2> QED
      BY <2>1, <2>3
  <1> QED
    BY <1>3, <1>4 DEF PollStep, PollWake, PollSkip, PollBegin, PollValue, PollEmpty, PollFails,
       PollEnd

LEMMA PanelMaps ==
  ASSUME IInv, NEW p \in Point, NEW v \in PanelValue, PanelChange(p, v)
  PROVE  Contract!Panel(p)
  <1>1. ASSUME NEW m \in Write PROVE RequestOf(m)' = RequestOf(m)
    <2>1. CASE write[m].pc = "verify" /\ p \in write[m].points
      <3>1. write[m] \in VerifyingWrite
        BY <2>1, WriteKinds DEF IInv, TypeOK, WriteRecord
      <3>2. write'[m] = [write[m] EXCEPT !.landed = FALSE]
        BY <2>1 DEF PanelChange
      <3>3. /\ write'[m].pc = "verify" /\ write'[m].points = write[m].points
            /\ write'[m].exact = write[m].exact /\ write'[m].value = write[m].value
            /\ write'[m].previous = write[m].previous
        BY <2>1, <3>1, <3>2 DEF VerifyingWrite
      <3> QED
        BY <2>1, <3>3, RequestStays DEF IsOpen
    <2>2. CASE ~(write[m].pc = "verify" /\ p \in write[m].points)
      BY <2>2, RequestSame DEF PanelChange
    <2> QED
      BY <2>1, <2>2
  <1>2. Requests' = Requests
    BY <1>1 DEF Requests
  <1>3. v \in Value /\ held' = [held EXCEPT ![p] = v]
    BY WriteAssumption DEF PanelChange
  <1> QED
    BY <1>2, <1>3 DEF PanelChange, Contract!Panel, Requests, Request

LEMMA StepMaps == IInv /\ [Next]_vars => [Contract!Next]_(Contract!vars)
  <1> SUFFICES ASSUME IInv, [Next]_vars
               PROVE  Contract!Next \/ UNCHANGED Contract!vars
    OBVIOUS
  <1>1. CASE \E t \in Target, v \in Value : ClientWrite(t, v)
    BY <1>1, ClientWriteMaps DEF Contract!Next
  <1>2. CASE \E n \in Write : HandlerStep(n)
    BY <1>2, HandlerMaps DEF Contract!Next, Request
  <1>3. CASE PollStep
    BY <1>3, PollMaps DEF Contract!Next
  <1>4. CASE \E p \in Point, v \in PanelValue : PanelChange(p, v)
    BY <1>4, PanelMaps DEF Contract!Next
  <1>5. CASE Settle \/ UNCHANGED vars
    <2>1. UNCHANGED <<register, held, write>>
      BY <1>5 DEF Settle, vars, clientVars
    <2>2. Requests' = Requests
      BY <2>1, RequestSame DEF Requests
    <2> QED
      BY <2>1, <2>2 DEF Contract!vars, Requests, Request
  <1> QED
    BY <1>1, <1>2, <1>3, <1>4, <1>5 DEF Next

(* The gateway keeps its promise to the clients: each of its behaviours is *)
(* one of the contract, however many writes race for the line with the     *)
(* poll, the panel and each other.                                         *)
THEOREM ImplementsCorrect == Spec => Implements
  BY InitMaps, StepMaps, Invariance, PTL DEF Spec, Implements, Contract!Spec

=============================================================================
