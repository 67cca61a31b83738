-------------------------- MODULE SerialExchangeProofs --------------------------
(***************************************************************************)
(* Proofs about SerialExchange for every number of points, every layout of *)
(* parameters, every range of values and any number of answers on their    *)
(* way at a time.                                                          *)
(*                                                                         *)
(* The properties speak of the publication that was made last; that they   *)
(* hold depends on what may be in the buffer of the port when a frame is   *)
(* taken out of it, and that on what may be on its way.                    *)
(***************************************************************************)
EXTENDS SerialExchange, TLAPS

Exchange == [op: {"read", "write"}, point: Point, value: Payload, late: BOOLEAN]

(* Who has the line, and for which exchange.                               *)
LockInv ==
  /\ writer.pc # "idle" <=> lock = "write"
  /\ writer.pc # "idle" => writer.point \in Writable
  /\ lock = "poll" => poll \in 1..Len(PollOrder)
  /\ exchange # None =>
       /\ lock = "poll" => exchange.op = "read"
       /\ writer.pc = "verify" => exchange.op = "read" /\ exchange.point = writer.point

(* While the poll task is awake nothing from before its pause is on its    *)
(* way, and nothing is in the buffer it reads from.                        *)
FreshInv ==
  /\ poll # 0 => \A f \in air : ~f.old
  /\ lock = "poll" => \A f \in Range(buffer) : ~f.old

(* The answers a reading exchange can meet are its own, or were on their   *)
(* way when it began.                                                      *)
OwnInv ==
  exchange # None => \A f \in air \cup Range(buffer) :
    f.own \/ f.kind # "answer" \/ exchange.late \/ exchange.op = "write"

(* With nothing on its way when the client's value was sent, all answers a *)
(* readback can meet are of the point that was written.                    *)
AnswersHold(frames) ==
  \A f \in frames : f.kind = "answer" => f.payload \in {device[writer.point], None}

ValueInv ==
  (writer.pc # "idle" /\ ~writer.late) =>
    /\ AnswersHold(air)
    /\ (writer.pc = "verify" /\ exchange # None) => AnswersHold(Range(buffer))

TakenInv == FreshAnswers /\ OwnUnlessLeftOver /\ WriteConfirmed

IInv ==
  /\ TypeOK /\ buffer \in Seq(Frame)
  /\ LockInv
  /\ FreshInv
  /\ OwnInv
  /\ ValueInv
  /\ TakenInv

-----------------------------------------------------------------------------
(* Frames and buffers.                                                     *)

LEMMA AgedFrame ==
  ASSUME NEW f \in Frame
  PROVE  /\ Aged(f) \in Frame /\ Aged(f).kind = f.kind /\ Aged(f).own = f.own
         /\ Aged(f).payload = f.payload
  BY DEF Frame, Aged

LEMMA DisownedFrame ==
  ASSUME NEW f \in Frame
  PROVE  /\ Disowned(f) \in Frame /\ Disowned(f).kind = f.kind /\ Disowned(f).old = f.old
         /\ Disowned(f).payload = f.payload
  BY DEF Frame, Disowned

LEMMA AnswerFrame ==
  ASSUME NEW p \in Point, NEW v \in Payload
  PROVE  /\ Answer(p, v) \in Frame /\ Answer(p, v).own /\ ~Answer(p, v).old
         /\ Answer(p, v).payload = v
  BY DEF Frame, Answer

LEMMA GarbageFrame ==
  Garbage \in Frame /\ Garbage.kind # "answer" /\ ~Garbage.old
  BY DEF Frame, Garbage

LEMMA EchoFrame ==
  ASSUME NEW ex \in Exchange
  PROVE  /\ EchoOf(ex) \in Frame /\ ~EchoOf(ex).old
         /\ ex.op = "read" => EchoOf(ex).kind # "answer"
  BY DEF Frame, EchoOf, Exchange

LEMMA BufferTail ==
  ASSUME NEW S, NEW b \in Seq(S), b # <<>>
  PROVE  Tail(b) \in Seq(S) /\ Head(b) \in Range(b) /\ Range(Tail(b)) \subseteq Range(b)
         /\ Range(b) \subseteq S
  <1>1. Len(b) \in Nat \ {0} /\ DOMAIN b = 1..Len(b) /\ Head(b) = b[1]
    OBVIOUS
  <1>2. Tail(b) \in Seq(S) /\ DOMAIN Tail(b) = 1..(Len(b) - 1)
        /\ \A i \in 1..(Len(b) - 1) : Tail(b)[i] = b[i + 1] /\ i + 1 \in 1..Len(b)
    BY <1>1
  <1>3. 1 \in DOMAIN b
    BY <1>1
  <1>4. \A i \in 1..Len(b) : b[i] \in S
    OBVIOUS
  <1> QED
    BY <1>1, <1>2, <1>3, <1>4 DEF Range

LEMMA BufferAppend ==
  ASSUME NEW S, NEW b \in Seq(S), NEW f \in S
  PROVE  Append(b, f) \in Seq(S) /\ Range(Append(b, f)) = Range(b) \cup {f}
  <1>1. Len(b) \in Nat /\ DOMAIN b = 1..Len(b)
    OBVIOUS
  <1>2. /\ Append(b, f) \in Seq(S) /\ DOMAIN Append(b, f) = 1..(Len(b) + 1)
        /\ \A i \in 1..Len(b) : Append(b, f)[i] = b[i]
        /\ Append(b, f)[Len(b) + 1] = f
    BY <1>1
  <1>3. /\ Len(b) + 1 \in 1..(Len(b) + 1)
        /\ \A i \in 1..(Len(b) + 1) : i \in 1..Len(b) \/ i = Len(b) + 1
        /\ \A i \in 1..Len(b) : i \in 1..(Len(b) + 1)
    BY <1>1
  <1> QED
    BY <1>1, <1>2, <1>3 DEF Range

LEMMA BufferSingle ==
  ASSUME NEW S, NEW f \in S
  PROVE  <<f>> \in Seq(S) /\ Range(<<f>>) = {f} /\ <<>> \in Seq(S) /\ Range(<<>>) = {}
  BY DEF Range

(* What a request leaves in the buffer and on the line.                    *)
LEMMA RequestFrames ==
  ASSUME IInv, NEW ex \in Exchange, NEW answers, Request(ex, answers),
         \A a \in answers : \E p \in Point, v \in Payload : a = Answer(p, v),
         ex.late = (air # {})
  PROVE  /\ air' \subseteq Frame /\ buffer' \in Seq(Frame)
         /\ \A f \in Range(buffer') : f = EchoOf(ex)
         /\ \A f \in air' : f.own \/ ex.late
         /\ \A f \in air' : f.old => \E g \in air : g.old
         /\ \A f \in air' : f \in answers \/ \E g \in air : f.kind = g.kind /\ f.payload = g.payload
  <1>1. air \subseteq Frame
    BY DEF IInv, TypeOK
  <1>2. air' = {Disowned(f) : f \in air} \cup answers
    BY DEF Request
  <1>3. ASSUME NEW f \in air'
        PROVE  /\ f \in Frame
               /\ f.own \/ ex.late
               /\ f.old => \E g \in air : g.old
               /\ f \in answers \/ \E g \in air : f.kind = g.kind /\ f.payload = g.payload
    <2>1. CASE f \in answers
      <3>1. PICK p \in Point, v \in Payload : f = Answer(p, v)
        BY <2>1
      <3> QED
        BY <2>1, <3>1, AnswerFrame
    <2>2. CASE f \notin answers
      <3>1. PICK g \in air : f = Disowned(g)
        BY <1>2, <2>2
      <3>2. g \in Frame /\ air # {}
        BY <1>1
      <3>3. /\ f \in Frame /\ f.kind = g.kind /\ f.old = g.old /\ f.payload = g.payload
        BY <3>1, <3>2, DisownedFrame
      <3> QED
        BY <3>2, <3>3
    <2> QED
      BY <2>1, <2>2
  <1>4. EchoOf(ex) \in Frame
    BY EchoFrame
  <1>5. buffer' = <<EchoOf(ex)>> \/ buffer' = <<>>
    BY DEF Request
  <1>6. buffer' \in Seq(Frame) /\ \A f \in Range(buffer') : f = EchoOf(ex)
    <2> HIDE DEF EchoOf
    <2>1. CASE buffer' = <<EchoOf(ex)>>
      BY <1>4, <2>1, BufferSingle
    <2>2. CASE buffer' = <<>>
      BY <1>4, <2>2, BufferSingle
    <2> QED
      BY <1>5, <2>1, <2>2
  <1>7. air' \subseteq Frame /\ \A f \in air' : f.own \/ ex.late
    BY <1>3
  <1>8. \A f \in air' : f.old => \E g \in air : g.old
    BY <1>3
  <1>9. \A f \in air' : f \in answers \/ \E g \in air : f.kind = g.kind /\ f.payload = g.payload
    BY <1>3
  <1> QED
    BY <1>6, <1>7, <1>8, <1>9

LEMMA InitIInv == Init => IInv
  <1> SUFFICES ASSUME Init PROVE IInv
    OBVIOUS
  <1>1. Range(buffer) = {} /\ buffer \in Seq(Frame)
    BY DEF Init, Range
  <1>2. 1 \in 0..(Len(PollOrder) + 1)
    BY ExchangeAssumption
  <1>3. writer.pc = "idle" /\ taken = None /\ lock = None /\ exchange = None /\ air = {}
    BY DEF Init, NoWrite
  <1>4. writer \in [pc: {"idle", "write", "verify"}, point: Writable \cup {None},
                    value: Payload, attempt: 1 .. WRITE_VERIFY_ATTEMPTS, ackOk: BOOLEAN,
                    late: BOOLEAN]
    BY DEF Init, NoWrite, Payload, WRITE_VERIFY_ATTEMPTS
  <1>5. TypeOK
    BY <1>1, <1>2, <1>3, <1>4, ExchangeAssumption DEF Init, TypeOK, Payload
  <1> QED
    BY <1>1, <1>3, <1>5, ExchangeAssumption
       DEF Init, IInv, LockInv, FreshInv, OwnInv, ValueInv, TakenInv, FreshAnswers,
           OwnUnlessLeftOver, WriteConfirmed

-----------------------------------------------------------------------------
(* An exchange begins.                                                     *)

(* What a task asks is an exchange, and what a device answers are answers. *)
LEMMA AskTypes ==
  ASSUME IInv, NEW p \in Point
  PROVE  /\ Reading(p) \in Exchange /\ Reading(p).op = "read" /\ Reading(p).point = p
         /\ Reading(p).late = (air # {})
         /\ \A v \in Value : /\ Writing(p, v) \in Exchange /\ Writing(p, v).op = "write"
                             /\ Writing(p, v).late = (air # {})
         /\ \A answers \in ReadAnswers(p) : \A a \in answers :
              a = Answer(p, device[p]) /\ device[p] \in Payload
  BY DEF IInv, TypeOK, Exchange, Payload, Reading, Writing, ReadAnswers

(* A poll reads a point: nothing old is received any more.                 *)
LEMMA PollSendsPreserves ==
  ASSUME IInv, PollSends
  PROVE  IInv'
  <1> USE DEF IInv
  <1> DEFINE p == PollOrder[poll]
  <1>1. poll \in 1..Len(PollOrder) /\ p \in Point /\ Len(PollOrder) \in Nat
    BY ExchangeAssumption DEF PollSends, TypeOK
  <1>2. PICK answers \in ReadAnswers(p) : Request(Reading(p), answers)
    BY DEF PollSends
  <1> PICK ex : ex = Reading(p)
    OBVIOUS
  <1>3. /\ ex \in Exchange /\ ex.op = "read" /\ ex.late = (air # {})
        /\ \A a \in answers : \E q \in Point, v \in Payload : a = Answer(q, v)
        /\ Request(ex, answers)
    BY <1>1, <1>2, AskTypes
  <1>4. /\ air' \subseteq Frame /\ buffer' \in Seq(Frame)
        /\ \A f \in Range(buffer') : f = EchoOf(ex)
        /\ \A f \in air' : f.own \/ ex.late
        /\ \A f \in air' : f.old => \E g \in air : g.old
    BY <1>3, RequestFrames
  <1>5. /\ EchoOf(ex) \in Frame /\ ~EchoOf(ex).old /\ EchoOf(ex).kind # "answer"
    BY <1>3, EchoFrame
  <1>6. /\ lock' = "poll" /\ exchange' = ex /\ taken' = None /\ poll' = poll
        /\ UNCHANGED <<echo, calm, device, writer, shown>> /\ lock = None
    BY <1>3 DEF PollSends, Request
  <1>7. writer.pc = "idle"
    BY <1>6, ExchangeAssumption DEF LockInv
  <1>8. TypeOK' /\ buffer' \in Seq(Frame)
    BY <1>3, <1>4, <1>5, <1>6 DEF TypeOK, Exchange
  <1>9. LockInv'
    BY <1>1, <1>3, <1>6, <1>7 DEF LockInv
  <1>10. FreshInv'
    BY <1>1, <1>4, <1>5, <1>6 DEF FreshInv
  <1>11. OwnInv'
    BY <1>4, <1>5, <1>6 DEF OwnInv
  <1>12. ValueInv' /\ TakenInv'
    BY <1>6, <1>7 DEF ValueInv, TakenInv, FreshAnswers, OwnUnlessLeftOver, WriteConfirmed
  <1> QED
    BY <1>8, <1>9, <1>10, <1>11, <1>12

(* A client's value is sent.                                               *)
LEMMA WriteSendsPreserves ==
  ASSUME IInv, WriteSends
  PROVE  IInv'
  <1> USE DEF IInv
  <1>0. PICK p \in Writable, v \in Value :
          /\ ~calm /\ writer.pc = "idle" /\ lock = None
          /\ lock' = "write"
          /\ writer' = [NoWrite EXCEPT !.pc = "write", !.point = p, !.value = v,
                                       !.late = air # {}]
          /\ \E held \in {Stored[v], device[p]} :
               /\ device' = [device EXCEPT ![p] = held]
               /\ \E answers \in {{Answer(p, held)}, {Answer(p, None)}, {}} :
                    Fit(answers) /\ Request(Writing(p, v), answers)
          /\ UNCHANGED <<echo, calm, poll, shown>>
    BY Zenon DEF WriteSends
  <1>01. PICK held \in {Stored[v], device[p]} :
          /\ device' = [device EXCEPT ![p] = held]
          /\ \E answers \in {{Answer(p, held)}, {Answer(p, None)}, {}} :
               Request(Writing(p, v), answers)
    BY <1>0
  <1>1. PICK answers \in {{Answer(p, held)}, {Answer(p, None)}, {}} :
          /\ lock = None /\ lock' = "write" /\ writer.pc = "idle"
          /\ writer' = [NoWrite EXCEPT !.pc = "write", !.point = p, !.value = v,
                                       !.late = air # {}]
          /\ device' = [device EXCEPT ![p] = held]
          /\ Request(Writing(p, v), answers)
          /\ UNCHANGED <<echo, calm, poll, shown>>
    BY <1>0, <1>01
  <1>2. p \in Point /\ held \in Payload /\ None \in Payload /\ v \in Payload
    BY ExchangeAssumption DEF TypeOK, Payload
  <1> PICK ex : ex = Writing(p, v)
    OBVIOUS
  <1>3. /\ ex \in Exchange /\ ex.op = "write" /\ ex.late = (air # {})
        /\ \A a \in answers : \E q \in Point, x \in Payload : a = Answer(q, x)
        /\ Request(ex, answers)
    BY <1>1, <1>2, AskTypes
  <1>4. /\ air' \subseteq Frame /\ buffer' \in Seq(Frame)
        /\ \A f \in Range(buffer') : f = EchoOf(ex)
        /\ \A f \in air' : f.old => \E g \in air : g.old
        /\ \A f \in air' : f \in answers \/ \E g \in air : f.kind = g.kind /\ f.payload = g.payload
    BY <1>3, RequestFrames
  <1>5. EchoOf(ex) \in Frame /\ ~EchoOf(ex).old
    BY <1>3, EchoFrame
  <1>6. exchange' = ex /\ taken' = None
    BY <1>3 DEF Request
  <1>7. /\ writer'.pc = "write" /\ writer'.point = p /\ writer'.late = (air # {})
        /\ writer' \in [pc: {"idle", "write", "verify"}, point: Writable \cup {None},
                        value: Payload, attempt: 1 .. WRITE_VERIFY_ATTEMPTS, ackOk: BOOLEAN,
                        late: BOOLEAN]
    <2>1. writer' = [pc |-> "write", point |-> p, value |-> v, attempt |-> 1,
                     ackOk |-> FALSE, late |-> air # {}]
      BY <1>1 DEF NoWrite
    <2>2. (air # {}) \in BOOLEAN /\ 1 \in 1..WRITE_VERIFY_ATTEMPTS
      BY DEF WRITE_VERIFY_ATTEMPTS
    <2> QED
      BY <1>2, <2>1, <2>2
  <1>8. device' \in [Point -> Payload] /\ device'[p] = held
    BY <1>1, <1>2 DEF TypeOK
  <1>9. TypeOK' /\ buffer' \in Seq(Frame)
    BY <1>1, <1>3, <1>4, <1>5, <1>6, <1>7, <1>8 DEF TypeOK, Exchange
  <1>10. LockInv'
    BY <1>1, <1>3, <1>6, <1>7 DEF LockInv
  <1>11. FreshInv'
    BY <1>1, <1>4 DEF FreshInv
  <1>12. OwnInv'
    BY <1>3, <1>6 DEF OwnInv
  <1>13. ValueInv'
    <2> SUFFICES ASSUME air = {}, NEW f \in air', f.kind = "answer"
                 PROVE  f.payload \in {held, None}
      BY <1>7, <1>8 DEF ValueInv, AnswersHold
    <2>1. f \in {Answer(p, held), Answer(p, None)}
      BY <1>1, <1>4
    <2> QED
      BY <1>2, <2>1, AnswerFrame
  <1>14. TakenInv'
    BY <1>6 DEF TakenInv, FreshAnswers, OwnUnlessLeftOver, WriteConfirmed
  <1> QED
    BY <1>9, <1>10, <1>11, <1>12, <1>13, <1>14

(* A readback is asked for, the lock still held.                           *)
LEMMA VerifySendsPreserves ==
  ASSUME IInv, VerifySends
  PROVE  IInv'
  <1> USE DEF IInv
  <1> DEFINE p == writer.point
  <1>1. p \in Point /\ p \in Writable /\ writer.pc = "verify" /\ lock = "write"
    BY ExchangeAssumption DEF VerifySends, LockInv
  <1>2. PICK answers \in ReadAnswers(p) : Request(Reading(p), answers)
    BY DEF VerifySends
  <1> PICK ex : ex = Reading(p)
    OBVIOUS
  <1>3. /\ ex \in Exchange /\ ex.op = "read" /\ ex.point = p /\ ex.late = (air # {})
        /\ \A a \in answers : a = Answer(p, device[p]) /\ device[p] \in Payload
        /\ Request(ex, answers)
    BY <1>1, <1>2, AskTypes
  <1>4. /\ air' \subseteq Frame /\ buffer' \in Seq(Frame)
        /\ \A f \in Range(buffer') : f = EchoOf(ex)
        /\ \A f \in air' : f.own \/ ex.late
        /\ \A f \in air' : f.old => \E g \in air : g.old
        /\ \A f \in air' : f \in answers \/ \E g \in air : f.kind = g.kind /\ f.payload = g.payload
    BY <1>1, <1>3, RequestFrames
  <1>5. /\ EchoOf(ex) \in Frame /\ ~EchoOf(ex).old /\ EchoOf(ex).kind # "answer"
    BY <1>3, EchoFrame
  <1>6. /\ exchange' = ex /\ taken' = None
        /\ UNCHANGED <<echo, calm, device, lock, poll, writer, shown>>
    BY <1>3 DEF VerifySends, Request
  <1>7. TypeOK' /\ buffer' \in Seq(Frame)
    BY <1>3, <1>4, <1>5, <1>6 DEF TypeOK, Exchange
  <1>8. LockInv'
    BY <1>1, <1>3, <1>6 DEF LockInv
  <1>9. FreshInv'
    BY <1>1, <1>4, <1>5, <1>6 DEF FreshInv
  <1>10. OwnInv'
    BY <1>4, <1>5, <1>6 DEF OwnInv
  <1>11. ValueInv'
    <2>1. ASSUME ~writer.late, NEW f \in air', f.kind = "answer"
          PROVE  f.payload \in {device[p], None}
      <3>1. CASE f \in answers
        BY <1>1, <1>3, <3>1, AnswerFrame
      <3>2. CASE \E g \in air : f.kind = g.kind /\ f.payload = g.payload
        BY <1>1, <2>1, <3>2 DEF ValueInv, AnswersHold
      <3> QED
        BY <1>4, <3>1, <3>2
    <2> QED
      BY <1>4, <1>5, <1>6, <2>1 DEF ValueInv, AnswersHold
  <1>12. TakenInv'
    BY <1>6 DEF TakenInv, FreshAnswers, OwnUnlessLeftOver, WriteConfirmed
  <1> QED
    BY <1>7, <1>8, <1>9, <1>10, <1>11, <1>12

-----------------------------------------------------------------------------
(* An exchange ends.                                                       *)

(* What is published: the frame was in the buffer of an exchange that      *)
(* reads, and was taken for its answer.                                    *)
LEMMA PublishedIsRight ==
  ASSUME IInv, exchange # None, NEW f \in Range(buffer), f.kind = "answer", Publishes(f),
         UNCHANGED device,
         \/ lock = "poll"
         \/ writer.pc = "verify" /\ Near(writer.value, f.payload) /\ f.payload # None
  PROVE  TakenInv' /\ UNCHANGED device
         /\ shown' \in [Point -> {None, "own", "other", "echo"}]
         /\ taken' \in [point: Point, asked: Payload, value: Payload, by: {"poll", "write"}, old: BOOLEAN,
                        sent: {"own", "other", "echo"}, late: BOOLEAN, beforeWrite: BOOLEAN]
  <1> USE DEF IInv
  <1>1. /\ exchange \in Exchange /\ f \in Frame /\ lock \in {"poll", "write"}
        /\ writer.value \in Payload /\ writer.late \in BOOLEAN
    BY ExchangeAssumption DEF TypeOK, LockInv, Exchange
  <1>2. /\ f.old \in BOOLEAN /\ f.own \in BOOLEAN /\ f.payload \in Payload
        /\ exchange.late \in BOOLEAN /\ exchange.point \in Point
    BY <1>1 DEF Frame, Exchange
  <1>3. Sender(f) \in {"own", "other"} /\ (Sender(f) = "other" => ~f.own)
    BY DEF Sender
  <1>4. exchange.op = "read"
    BY DEF LockInv
  <1>5. Sender(f) # "own" => exchange.late
    BY <1>3, <1>4 DEF OwnInv, Sender
  <1>6. taken' = [point |-> exchange.point, asked |-> writer.value, by |-> lock, old |-> f.old,
                  value |-> f.payload, sent |-> Sender(f), late |-> exchange.late, beforeWrite |-> writer.late]
    BY DEF Publishes
  <1>7. shown' \in [Point -> {None, "own", "other", "echo"}]
    BY <1>2, <1>3 DEF Publishes, TypeOK
  <1>8. taken'.by = "poll" => ~taken'.old
    BY <1>6 DEF FreshInv
  <1>9. taken'.sent # "own" => taken'.sent = "other" /\ taken'.late
    BY <1>3, <1>5, <1>6
  <1>10. ASSUME taken'.by = "write", ~taken'.beforeWrite
         PROVE  device[taken'.point] = taken'.value /\ Near(taken'.asked, taken'.value)
    <2>1. lock = "write" /\ ~writer.late
      BY <1>6, <1>10
    <2>2. /\ writer.pc = "verify" /\ Near(writer.value, f.payload) /\ f.payload # None
          /\ exchange.point = writer.point
      BY <2>1 DEF LockInv
    <2>3. f.payload = device[writer.point]
      BY <2>1, <2>2 DEF ValueInv, AnswersHold
    <2> QED
      BY <1>6, <2>2, <2>3
  <1>11. TakenInv'
    BY <1>8, <1>9, <1>10 DEF TakenInv, FreshAnswers, OwnUnlessLeftOver, WriteConfirmed
  <1>12. taken' \in [point: Point, asked: Payload, value: Payload, by: {"poll", "write"}, old: BOOLEAN,
                     sent: {"own", "other", "echo"}, late: BOOLEAN, beforeWrite: BOOLEAN]
    BY <1>1, <1>2, <1>3, <1>6
  <1> QED
    BY <1>7, <1>11, <1>12

(* Nothing is published: what was published last is as right as before.    *)
LEMMA TakenStays ==
  ASSUME TakenInv, UNCHANGED <<taken, device>>
  PROVE  TakenInv'
  BY DEF TakenInv, FreshAnswers, OwnUnlessLeftOver, WriteConfirmed

WriterType ==
  [pc: {"idle", "write", "verify"}, point: Writable \cup {None}, value: Payload,
   attempt: 1 .. WRITE_VERIFY_ATTEMPTS, ackOk: BOOLEAN, late: BOOLEAN]

TakenType ==
  {None} \cup
    [point: Point, asked: Payload, value: Payload, by: {"poll", "write"}, old: BOOLEAN,
     sent: {"own", "other", "echo"}, late: BOOLEAN, beforeWrite: BOOLEAN]

(* What all the ways an exchange ends have in common: frames only go, or   *)
(* become the rest of a frame that was cut short.                          *)
LEMMA ExchangeEnds ==
  ASSUME IInv, exchange' = None, UNCHANGED <<echo, calm, device>>,
         \A f \in air' : f \in air \/ f = Garbage,
         buffer' \in Seq(Frame),
         poll' \in 0..(Len(PollOrder) + 1), poll' # 0 => poll # 0,
         lock' \in {None, "write"},
         writer' \in WriterType, writer'.pc # "idle" <=> lock' = "write",
         writer'.pc # "idle" =>
           writer.pc # "idle" /\ writer'.point = writer.point /\ writer'.late = writer.late,
         shown' \in [Point -> {None, "own", "other", "echo"}], taken' \in TakenType,
         TakenInv'
  PROVE  IInv'
  <1> USE DEF IInv
  <1>1. air' \subseteq Frame
    BY GarbageFrame DEF TypeOK
  <1>2. Range(buffer') \subseteq Frame
    BY DEF Range
  <1>3. TypeOK'
    BY <1>1, <1>2 DEF TypeOK, WriterType, TakenType
  <1>4. LockInv'
    BY ExchangeAssumption DEF LockInv
  <1>5. FreshInv'
    BY GarbageFrame, ExchangeAssumption DEF FreshInv
  <1>6. OwnInv'
    BY DEF OwnInv
  <1>7. ValueInv'
    BY GarbageFrame DEF ValueInv, AnswersHold
  <1> QED
    BY <1>3, <1>4, <1>5, <1>6, <1>7

(* A frame is taken out of the buffer.                                     *)
LEMMA ReceivedFrame ==
  ASSUME IInv, NEW f, Receives(f)
  PROVE  /\ exchange # None /\ f \in Range(buffer)
         /\ Tail(buffer) \in Seq(Frame)
  BY BufferTail DEF IInv, Receives

(* The poll task after an exchange.                                        *)
LEMMA PollGoesOnTypes ==
  ASSUME IInv, lock = "poll", PollGoesOn
  PROVE  /\ exchange' = None /\ UNCHANGED <<echo, calm, device, writer>>
         /\ poll' \in 0..(Len(PollOrder) + 1) /\ poll # 0 /\ lock' = None
         /\ writer' \in WriterType /\ writer'.pc = "idle"
  <1>1. poll \in 1..Len(PollOrder) /\ Len(PollOrder) \in Nat
    BY ExchangeAssumption DEF IInv, LockInv
  <1>2. writer.pc = "idle"
    BY DEF IInv, LockInv
  <1> QED
    BY <1>1, <1>2 DEF PollGoesOn, IInv, TypeOK, WriterType

LEMMA PollStepPreserves ==
  ASSUME IInv, PollStep
  PROVE  IInv'
  <1>1. CASE PollReceives
    <2>1. PICK f \in Range(buffer) :
            /\ lock = "poll" /\ Receives(f)
            /\ buffer' = Tail(buffer)
            /\ IF Taken(exchange.point, f) THEN Publishes(f) ELSE UNCHANGED <<shown, taken>>
            /\ PollGoesOn /\ UNCHANGED air
      BY <1>1 DEF PollReceives
    <2>2. exchange # None /\ buffer' \in Seq(Frame) /\ UNCHANGED device
      BY <2>1, ReceivedFrame, PollGoesOnTypes
    <2>3. /\ TakenInv' /\ taken' \in TakenType
          /\ shown' \in [Point -> {None, "own", "other", "echo"}]
      <3>1. CASE Taken(exchange.point, f)
        <4>1. Publishes(f) /\ f.kind = "answer"
          BY <2>1, <3>1 DEF Taken
        <4> QED
          BY <2>1, <2>2, <4>1, PublishedIsRight DEF TakenType
      <3>2. CASE ~Taken(exchange.point, f)
        BY <2>1, <2>2, <3>2, TakenStays DEF IInv, TypeOK, TakenType
      <3> QED
        BY <3>1, <3>2
    <2> QED
      BY <2>1, <2>2, <2>3, PollGoesOnTypes, ExchangeEnds, ExchangeAssumption
  <1>2. CASE PollTimesOut
    <2>1. lock = "poll" /\ PollGoesOn /\ UNCHANGED <<air, buffer, shown, taken>>
      BY <1>2 DEF PollTimesOut
    <2>2. /\ TakenInv' /\ taken' \in TakenType /\ buffer' \in Seq(Frame)
          /\ shown' \in [Point -> {None, "own", "other", "echo"}]
      BY <2>1, PollGoesOnTypes, TakenStays DEF IInv, TypeOK, TakenType
    <2> QED
      BY <2>1, <2>2, PollGoesOnTypes, ExchangeEnds, ExchangeAssumption
  <1>3. CASE PollCutShort
    <2>1. PICK f \in air :
            /\ lock = "poll" /\ air' = (air \ {f}) \cup {Garbage}
            /\ PollGoesOn /\ UNCHANGED <<buffer, shown, taken>>
      BY <1>3 DEF PollCutShort
    <2>2. /\ TakenInv' /\ taken' \in TakenType /\ buffer' \in Seq(Frame)
          /\ shown' \in [Point -> {None, "own", "other", "echo"}]
      BY <2>1, PollGoesOnTypes, TakenStays DEF IInv, TypeOK, TakenType
    <2> QED
      BY <2>1, <2>2, PollGoesOnTypes, ExchangeEnds, ExchangeAssumption
  <1> QED
    BY <1>1, <1>2, <1>3 DEF PollStep

(* The write handler after an exchange.                                    *)
HandlerGoesOn ==
  /\ exchange' = None /\ UNCHANGED <<echo, calm, device, poll>>
  /\ lock' \in {None, "write"}
  /\ writer' \in WriterType /\ (writer'.pc # "idle" <=> lock' = "write")
  /\ writer'.pc # "idle" => writer'.point = writer.point /\ writer'.late = writer.late

LEMMA WriteEnds ==
  ASSUME IInv, writer.pc # "idle", HandlerGoesOn,
         \A f \in air' : f \in air \/ f = Garbage, buffer' \in Seq(Frame),
         \/ UNCHANGED <<shown, taken>>
         \/ /\ TakenInv' /\ taken' \in TakenType
            /\ shown' \in [Point -> {None, "own", "other", "echo"}]
  PROVE  IInv'
  <1>1. /\ TakenInv' /\ taken' \in TakenType
        /\ shown' \in [Point -> {None, "own", "other", "echo"}]
    BY TakenStays DEF HandlerGoesOn, IInv, TypeOK, TakenType
  <1>2. poll' \in 0..(Len(PollOrder) + 1) /\ (poll' # 0 => poll # 0)
    BY DEF HandlerGoesOn, IInv, TypeOK
  <1> QED
    BY <1>1, <1>2, ExchangeEnds DEF HandlerGoesOn

LEMMA FinishesTypes ==
  ASSUME Finishes
  PROVE  HandlerGoesOn
  <1>1. NoWrite \in WriterType /\ NoWrite.pc = "idle"
    BY DEF NoWrite, WriterType, Payload, WRITE_VERIFY_ATTEMPTS
  <1> QED
    BY <1>1, ExchangeAssumption DEF Finishes, HandlerGoesOn

LEMMA RetriesTypes ==
  ASSUME IInv, writer.pc # "idle", Retries
  PROVE  HandlerGoesOn
  <1>1. writer \in WriterType /\ lock = "write"
    BY DEF IInv, TypeOK, LockInv, WriterType
  <1>2. writer.attempt + 1 \in 1..WRITE_VERIFY_ATTEMPTS
    BY <1>1 DEF Retries, WriterType, WRITE_VERIFY_ATTEMPTS
  <1>3. writer' = [writer EXCEPT !.attempt = writer.attempt + 1]
    BY DEF Retries
  <1>4. /\ writer' \in WriterType /\ writer'.pc = writer.pc
        /\ writer'.point = writer.point /\ writer'.late = writer.late
    BY <1>1, <1>2, <1>3 DEF WriterType
  <1> QED
    BY <1>1, <1>4 DEF Retries, HandlerGoesOn

LEMMA AcknowledgedTypes ==
  ASSUME IInv, writer.pc = "write", NEW ok \in BOOLEAN,
         writer' = [writer EXCEPT !.pc = "verify", !.ackOk = ok],
         exchange' = None, UNCHANGED <<echo, calm, device, lock, poll>>
  PROVE  HandlerGoesOn
  <1>1. writer \in WriterType /\ lock = "write"
    BY DEF IInv, TypeOK, LockInv, WriterType
  <1>2. /\ writer' \in WriterType /\ writer'.pc = "verify"
        /\ writer'.point = writer.point /\ writer'.late = writer.late
    BY <1>1 DEF WriterType
  <1> QED
    BY <1>1, <1>2 DEF HandlerGoesOn

(* The acknowledgement of a write.                                         *)
LEMMA AcknowledgementPreserves ==
  ASSUME IInv, WriteReceives \/ WriteCutShort \/ WriteTimesOut
  PROVE  IInv'
  <1>1. CASE WriteReceives
    <2>1. PICK f \in Range(buffer) :
            /\ writer.pc = "write" /\ Receives(f)
            /\ buffer' = Tail(buffer)
            /\ writer' = [writer EXCEPT !.pc = "verify", !.ackOk = Acknowledges(writer.point, f)]
            /\ exchange' = None
            /\ UNCHANGED <<echo, calm, device, air, lock, poll, shown, taken>>
      BY <1>1 DEF WriteReceives
    <2> DEFINE ok == Acknowledges(writer.point, f)
    <2>2. ok \in BOOLEAN
      BY DEF Acknowledges
    <2>3. HandlerGoesOn
      <3> HIDE DEF ok
      <3>1. writer' = [writer EXCEPT !.pc = "verify", !.ackOk = ok]
        BY <2>1 DEF ok
      <3> QED
        BY <2>1, <2>2, <3>1, AcknowledgedTypes
    <2>4. buffer' \in Seq(Frame)
      BY <2>1, ReceivedFrame
    <2> QED
      BY <2>1, <2>3, <2>4, WriteEnds
  <1>2. CASE WriteCutShort
    <2>1. PICK f \in air :
            /\ writer.pc = "write" /\ air' = (air \ {f}) \cup {Garbage}
            /\ writer' = [writer EXCEPT !.pc = "verify", !.ackOk = TRUE]
            /\ exchange' = None
            /\ UNCHANGED <<echo, calm, device, buffer, lock, poll, shown, taken>>
      BY <1>2 DEF WriteCutShort
    <2>2. HandlerGoesOn /\ buffer' \in Seq(Frame)
      BY <2>1, AcknowledgedTypes DEF IInv
    <2> QED
      BY <2>1, <2>2, WriteEnds
  <1>3. CASE WriteTimesOut
    <2>1. writer.pc = "write" /\ HandlerGoesOn /\ UNCHANGED <<air, buffer, shown, taken>>
      BY <1>3, FinishesTypes DEF WriteTimesOut
    <2> QED
      BY <2>1, WriteEnds DEF IInv
  <1> QED
    BY <1>1, <1>2, <1>3

(* The readback of a write.                                                *)
LEMMA ReadbackPreserves ==
  ASSUME IInv, VerifyReceives \/ VerifyTimesOut \/ VerifyCutShort
  PROVE  IInv'
  <1>0. ASSUME writer.pc = "verify", Retries \/ GivesUp
        PROVE  HandlerGoesOn
    BY <1>0, FinishesTypes, RetriesTypes DEF GivesUp
  <1>1. CASE VerifyReceives
    <2>1. PICK f \in Range(buffer) :
            /\ writer.pc = "verify" /\ Receives(f)
            /\ buffer' = Tail(buffer)
            /\ \/ /\ Confirms(writer, f)
                  /\ IF writer.ackOk
                     THEN Finishes /\ Publishes(f)
                     ELSE Finishes /\ UNCHANGED <<shown, taken>>
               \/ ~Confirms(writer, f) /\ (Retries \/ GivesUp) /\ UNCHANGED <<shown, taken>>
            /\ UNCHANGED air
      BY <1>1 DEF VerifyReceives
    <2>2. exchange # None /\ buffer' \in Seq(Frame)
      BY <2>1, ReceivedFrame
    <2>3. CASE Confirms(writer, f) /\ Finishes /\ Publishes(f)
      <3>1. f.kind = "answer" /\ Near(writer.value, f.payload) /\ f.payload # None
        BY <2>3 DEF Confirms, Decodes
      <3>2. /\ TakenInv' /\ taken' \in TakenType
            /\ shown' \in [Point -> {None, "own", "other", "echo"}]
        BY <2>1, <2>2, <2>3, <3>1, PublishedIsRight DEF Finishes, TakenType
      <3> QED
        BY <2>1, <2>2, <2>3, <3>2, FinishesTypes, WriteEnds
    <2>4. CASE (Finishes \/ Retries \/ GivesUp) /\ UNCHANGED <<shown, taken>>
      <3>1. HandlerGoesOn
        BY <1>0, <2>1, <2>4, FinishesTypes
      <3> QED
        BY <2>1, <2>2, <2>4, <3>1, WriteEnds
    <2> QED
      BY <2>1, <2>3, <2>4
  <1>2. CASE VerifyTimesOut
    <2>1. /\ writer.pc = "verify" /\ HandlerGoesOn
          /\ UNCHANGED <<air, buffer, shown, taken>>
      BY <1>0, <1>2 DEF VerifyTimesOut
    <2> QED
      BY <2>1, WriteEnds DEF IInv
  <1>3. CASE VerifyCutShort
    <2>1. PICK f \in air :
            /\ writer.pc = "verify" /\ air' = (air \ {f}) \cup {Garbage}
            /\ Retries \/ GivesUp
            /\ UNCHANGED <<buffer, shown, taken>>
      BY <1>3 DEF VerifyCutShort
    <2>2. HandlerGoesOn /\ buffer' \in Seq(Frame)
      BY <1>0, <2>1 DEF IInv
    <2> QED
      BY <2>1, <2>2, WriteEnds
  <1> QED
    BY <1>1, <1>2, <1>3

-----------------------------------------------------------------------------
(* The pause and the line.                                                 *)

(* The poll task goes to sleep: what is on its way now will be old.        *)
LEMMA PollSleepsPreserves ==
  ASSUME IInv, PollSleeps
  PROVE  IInv'
  <1> USE DEF IInv
  <1>1. /\ poll' = 0 /\ air' = {Aged(f) : f \in air} /\ lock # "poll"
        /\ buffer' = [i \in DOMAIN buffer |-> Aged(buffer[i])]
        /\ UNCHANGED <<echo, calm, device, exchange, lock, writer, shown, taken>>
    BY ExchangeAssumption DEF PollSleeps, LockInv
  <1>2. ASSUME NEW f \in air'
        PROVE  /\ f \in Frame
               /\ \E g \in air : f.kind = g.kind /\ f.own = g.own /\ f.payload = g.payload
    BY <1>1, AgedFrame DEF TypeOK
  <1>3. DOMAIN buffer = 1..Len(buffer) /\ Len(buffer) \in Nat
        /\ \A i \in 1..Len(buffer) : buffer[i] \in Frame /\ buffer[i] \in Range(buffer)
    BY DEF Range
  <1>4. buffer' \in Seq(Frame) /\ DOMAIN buffer' = 1..Len(buffer)
    <2>1. \A i \in 1..Len(buffer) : Aged(buffer[i]) \in Frame
      BY <1>3, AgedFrame
    <2>2. buffer' = [i \in 1..Len(buffer) |-> Aged(buffer[i])]
      BY <1>1, <1>3
    <2> QED
      BY <1>3, <2>1, <2>2
  <1>5. ASSUME NEW f \in Range(buffer')
        PROVE  /\ f \in Frame
               /\ \E g \in Range(buffer) : f.kind = g.kind /\ f.own = g.own /\ f.payload = g.payload
    <2>1. PICK i \in 1..Len(buffer) : f = Aged(buffer[i])
      BY <1>1, <1>3, <1>4 DEF Range
    <2> QED
      BY <1>3, <2>1, AgedFrame
  <1>6. air' \subseteq Frame /\ Range(buffer') \subseteq Frame
    BY <1>2, <1>5
  <1>7. TypeOK'
    BY <1>1, <1>6, ExchangeAssumption DEF TypeOK
  <1>8. LockInv' /\ FreshInv'
    BY <1>1 DEF LockInv, FreshInv
  <1>9. OwnInv'
    BY <1>1, <1>2, <1>5 DEF OwnInv
  <1>10. ValueInv'
    BY <1>1, <1>2, <1>5 DEF ValueInv, AnswersHold
  <1>11. TakenInv'
    BY <1>1, TakenStays
  <1> QED
    BY <1>4, <1>7, <1>8, <1>9, <1>10, <1>11

(* The pause is over: all answers sent before it have come in.             *)
LEMMA PollWakesPreserves ==
  ASSUME IInv, PollWakes
  PROVE  IInv'
  <1> USE DEF IInv
  <1>1. /\ poll = 0 /\ poll' = 1 /\ \A f \in air : ~f.old
        /\ UNCHANGED <<echo, calm, device, air, buffer, exchange, lock, writer, shown, taken>>
    BY DEF PollWakes, line
  <1>2. lock # "poll"
    BY <1>1 DEF LockInv
  <1>3. 1 \in 0..(Len(PollOrder) + 1)
    BY ExchangeAssumption
  <1>4. TypeOK' /\ LockInv' /\ FreshInv'
    BY <1>1, <1>2, <1>3 DEF TypeOK, LockInv, FreshInv
  <1> QED
    BY <1>1, <1>4, TakenStays DEF OwnInv, ValueInv, AnswersHold

(* A frame comes in, or is garbled or lost.                                *)
LEMMA ArrivesPreserves ==
  ASSUME IInv, Arrives
  PROVE  IInv'
  <1> USE DEF IInv
  <1>1. PICK f \in air :
          /\ air' = air \ {f}
          /\ buffer' = Append(buffer, f) \/ buffer' = Append(buffer, Garbage) \/ buffer' = buffer
          /\ UNCHANGED <<echo, calm, device, exchange, lock, poll, writer, shown, taken>>
    BY DEF Arrives
  <1>2. f \in Frame /\ Garbage \in Frame
    BY GarbageFrame DEF TypeOK
  <1>3. buffer' \in Seq(Frame) /\ Range(buffer') \subseteq Range(buffer) \cup {f, Garbage}
    <2>1. buffer \in Seq(Frame)
      OBVIOUS
    <2>2. \A g \in Frame : /\ Append(buffer, g) \in Seq(Frame)
                           /\ Range(Append(buffer, g)) = Range(buffer) \cup {g}
      BY <2>1, BufferAppend
    <2>3. CASE buffer' = Append(buffer, f)
      BY <1>2, <2>2, <2>3
    <2>4. CASE buffer' = Append(buffer, Garbage)
      BY <1>2, <2>2, <2>4
    <2>5. CASE buffer' = buffer
      BY <2>1, <2>5
    <2> QED
      BY <1>1, <2>3, <2>4, <2>5
  <1>4. Range(buffer') \subseteq Frame
    BY <1>2, <1>3 DEF TypeOK
  <1>5. TypeOK'
    BY <1>1, <1>4 DEF TypeOK
  <1>6. LockInv'
    BY <1>1 DEF LockInv
  <1>7. FreshInv'
    BY <1>1, <1>3, GarbageFrame DEF FreshInv, LockInv
  <1>8. OwnInv'
    BY <1>1, <1>3, GarbageFrame DEF OwnInv
  <1>9. ValueInv'
    BY <1>1, <1>3, GarbageFrame DEF ValueInv, AnswersHold
  <1>10. TakenInv'
    BY <1>1, TakenStays
  <1> QED
    BY <1>3, <1>5, <1>6, <1>7, <1>8, <1>9, <1>10

LEMMA NextIInv == IInv /\ [Next]_vars => IInv'
  <1> SUFFICES ASSUME IInv, [Next]_vars PROVE IInv'
    OBVIOUS
  <1>1. CASE Settles \/ UNCHANGED vars
    <2>1. /\ calm' \in BOOLEAN
          /\ UNCHANGED <<echo, device, air, buffer, exchange, lock, poll, writer, shown, taken>>
      BY <1>1 DEF Settles, vars, line, IInv, TypeOK
    <2>2. TypeOK' /\ TakenInv'
      BY <2>1, TakenStays DEF IInv, TypeOK
    <2> QED
      BY <2>1, <2>2 DEF IInv, LockInv, FreshInv, OwnInv, ValueInv, AnswersHold
  <1>2. CASE WriteStep
    BY <1>2, VerifySendsPreserves, AcknowledgementPreserves, ReadbackPreserves DEF WriteStep
  <1> QED
    BY <1>1, <1>2, PollSendsPreserves, PollStepPreserves, PollSleepsPreserves,
       PollWakesPreserves, WriteSendsPreserves, ArrivesPreserves DEF Next

LEMMA Invariance == Spec => []IInv
  BY InitIInv, NextIInv, PTL DEF Spec

-----------------------------------------------------------------------------
(* Frames, exchanges and publications keep their types; in particular a    *)
(* write is read back three times at most.                                 *)
THEOREM TypeCorrect == Spec => []TypeOK
  <1>1. IInv => TypeOK
    BY DEF IInv
  <1> QED
    BY <1>1, Invariance, PTL

(* No poll publishes what was sent before the pause it last made.          *)
THEOREM FreshAnswersCorrect == Spec => []FreshAnswers
  <1>1. IInv => FreshAnswers
    BY DEF IInv, TakenInv
  <1> QED
    BY <1>1, Invariance, PTL

(* Only an answer that was on its way when a request was sent can be taken *)
(* for the answer to that request; a returned request never is.            *)
THEOREM OwnUnlessLeftOverCorrect == Spec => []OwnUnlessLeftOver
  <1>1. IInv => OwnUnlessLeftOver
    BY DEF IInv, TakenInv
  <1> QED
    BY <1>1, Invariance, PTL

(* What is published for an accepted write is in the device and within the  *)
(* tolerance of what was asked for, whatever the tolerance, the limits of   *)
(* the devices and the values, unless an answer from before the write was   *)
(* still on its way.  (service.py:712-742, 779-809, 931-934)                *)
THEOREM WriteConfirmedCorrect == Spec => []WriteConfirmed
  <1>1. IInv => WriteConfirmed
    BY DEF IInv, TakenInv
  <1> QED
    BY <1>1, Invariance, PTL

=============================================================================
