---------------------------- MODULE SerialExchange ----------------------------
(***************************************************************************)
(* Requests and answers on one serial line (serial_client.py, exchange and *)
(* exchange_write) and how the gateway takes an answer for the answer to   *)
(* its request (service.py, _poll_single_point, _handle_modbus_holding_    *)
(* write and _verify_written_value_locked).                                *)
(*                                                                         *)
(* An exchange ends with the first frame that is complete, or with the     *)
(* timeout; the answer may still be on its way then, and is received while *)
(* a later exchange waits.  An answer carries the hash of its parameter    *)
(* and the address of its device; the gateway looks at the hash.  Frames   *)
(* are records: which point the sender answered for, what it carries, and, *)
(* for the properties only, whether it belongs to the current exchange     *)
(* (own) and was already sent when the poll task last went to sleep (old). *)
(***************************************************************************)
EXTENDS Integers, FiniteSets, Sequences, SequencesExt

CONSTANTS
  None,
  PollOrder,     \* the points of the line in the order they are polled
  Parameter,     \* Parameter[p]: the parameter of a point, hence its hash
  Layout,        \* Layout[m]: how the payload of parameter m is laid out
  Writable,      \* the points a Modbus client may write
  Value,         \* values of a parameter, in steps of its payload
  Stored,        \* Stored[v]: what a device makes of a written v (its limits)
  Tolerance,     \* FLOAT_VERIFY_TOLERANCE in these steps, 0 for integers
  Initially,     \* what the devices may hold at first, None for a channel that is off
  MaxAir         \* bound: answers on their way at a time

Point == Range(PollOrder)
WRITE_VERIFY_ATTEMPTS == 3

ASSUME ExchangeAssumption ==
  /\ PollOrder \in Seq(Point) /\ IsInjective(PollOrder) /\ Writable \subseteq Point
  /\ DOMAIN Parameter = Point /\ Range(Parameter) = DOMAIN Layout
  /\ None \notin Point \cup Value /\ None \notin {"poll", "write"}
  /\ Initially \subseteq [Point -> Value \cup {None}]
  /\ Value \subseteq Int /\ Stored \in [Value -> Value] /\ Tolerance \in Nat
  /\ MaxAir \in Nat \ {0}

VARIABLES
  echo,      \* the adapter returns what is sent
  calm,      \* from now on the line is undisturbed and no client writes
  device,    \* device[p]: the value the device holds, None for a channel that is off
  air,       \* frames on their way to the gateway
  buffer,    \* frames received and not read: the input buffer of the port
  exchange,  \* the exchange that waits for a frame, None without one
  lock,      \* who holds the lock of the line: None, "poll" or "write"
  poll,      \* the point the poll task is at, 0 while it sleeps
  writer,    \* the write handler
  shown,     \* who sent what is published for a point, None before
  taken      \* the publication of the exchange that ended last, or None

line == <<echo, calm, device, air, buffer>>
vars == <<line, exchange, lock, poll, writer, shown, taken>>

-----------------------------------------------------------------------------
(* Frames.                                                                 *)

Answer(p, value) == [kind |-> "answer", point |-> p, payload |-> value, own |-> TRUE, old |-> FALSE]
Garbage == [kind |-> "garbage", point |-> None, payload |-> None, own |-> FALSE, old |-> FALSE]

(* The request as the adapter returns it.  The frame of a read has the     *)
(* request flag set, the frame of a write has not.                         *)
EchoOf(ex) ==
  [kind |-> IF ex.op = "write" THEN "answer" ELSE "request",
   point |-> ex.point, payload |-> ex.value, own |-> FALSE, old |-> FALSE]

Aged(f) == [f EXCEPT !.old = TRUE]
Disowned(f) == [f EXCEPT !.own = FALSE]

(* An empty payload, or one of another layout, does not decode.            *)
Decodes(f, p) ==
  f.payload # None /\ Layout[Parameter[f.point]] = Layout[Parameter[p]]

-----------------------------------------------------------------------------
(* The serial client.                                                      *)

(* A faulty Request: the input buffer is not reset.                        *)
RequestUncleared(ex, answers) ==
  /\ exchange' = ex
  /\ taken' = None
  /\ buffer' = buffer \o (IF echo THEN <<EchoOf(ex)>> ELSE <<>>)
  /\ air' = {Disowned(f) : f \in air} \cup answers

(* reset_input_buffer and write: what was received is dropped, what is on  *)
(* its way is not.  answers is what the device sends.                      *)
Request(ex, answers) ==
  /\ exchange' = ex
  /\ taken' = None
  /\ buffer' = IF echo THEN <<EchoOf(ex)>> ELSE <<>>
  /\ air' = {Disowned(f) : f \in air} \cup answers

Reading(p) == [op |-> "read", point |-> p, value |-> None, late |-> air # {}]
Writing(p, value) == [op |-> "write", point |-> p, value |-> value, late |-> air # {}]

(* What the device answers to a read: its value, an empty payload from a   *)
(* channel that is off, or, on a disturbed line, nothing.                  *)
ReadAnswers(p) == {{Answer(p, device[p])}} \cup (IF calm THEN {} ELSE {{}})

Fit(answers) == Cardinality(air) + Cardinality(answers) <= MaxAir

(* read_until: the next complete frame.                                    *)
Receives(f) == exchange # None /\ buffer # <<>> /\ f = Head(buffer)

(* The timeout with nothing received.                                      *)
TimesOut ==
  /\ exchange # None /\ buffer = <<>>
  /\ calm => \A f \in air : ~f.own

(* The timeout in the middle of a frame: its first part is returned and is *)
(* no frame, its rest follows.                                             *)
CutShort(f) ==
  /\ exchange # None /\ buffer = <<>> /\ ~calm
  /\ f \in air

-----------------------------------------------------------------------------
(* The poll task: every point in turn, the lock for each exchange, then    *)
(* the pause between two cycles.                                           *)

PollSends ==
  /\ poll # 0 /\ poll <= Len(PollOrder) /\ lock = None
  /\ lock' = "poll"
  /\ \E answers \in ReadAnswers(PollOrder[poll]) :
       Fit(answers) /\ Request(Reading(PollOrder[poll]), answers)
  /\ UNCHANGED <<echo, calm, device, poll, writer, shown>>

PollGoesOn ==
  /\ exchange' = None /\ lock' = None
  /\ poll' = poll + 1
  /\ UNCHANGED <<echo, calm, device, writer>>

(* A faulty Taken: the request flag is not looked at.                      *)
TakenAnyFlag(p, f) == f.kind # "garbage" /\ Parameter[f.point] = Parameter[p]

(* _poll_single_point takes a frame for the answer: not a request, and the *)
(* hash is the one asked for.                                              *)
Taken(p, f) == f.kind = "answer" /\ Parameter[f.point] = Parameter[p]

Sender(f) == IF f.kind # "answer" THEN "echo" ELSE IF f.own THEN "own" ELSE "other"

Publishes(f) ==
  /\ shown' = [shown EXCEPT ![exchange.point] = Sender(f)]
  /\ taken' = [point |-> exchange.point, asked |-> writer.value, by |-> lock, old |-> f.old,
               value |-> f.payload, sent |-> Sender(f), late |-> exchange.late,
               beforeWrite |-> writer.late]

PollReceives == \E f \in Range(buffer) :
  /\ lock = "poll" /\ Receives(f)
  /\ buffer' = Tail(buffer)
  /\ IF Taken(exchange.point, f) THEN Publishes(f) ELSE UNCHANGED <<shown, taken>>
  /\ PollGoesOn /\ UNCHANGED air

PollTimesOut ==
  /\ lock = "poll" /\ TimesOut
  /\ PollGoesOn /\ UNCHANGED <<air, buffer, shown, taken>>

PollCutShort == \E f \in air :
  /\ lock = "poll" /\ CutShort(f)
  /\ air' = (air \ {f}) \cup {Garbage}
  /\ PollGoesOn /\ UNCHANGED <<buffer, shown, taken>>

(* A faulty PollSleeps: the next cycle begins at once.                      *)
PollGoesRound ==
  /\ poll > Len(PollOrder)
  /\ poll' = 1
  /\ UNCHANGED <<line, exchange, lock, writer, shown, taken>>

(* The pause.  A point that failed too often also sits out some cycles;    *)
(* that is part of Polling and not of this module.                         *)
PollSleeps ==
  /\ poll > Len(PollOrder)
  /\ poll' = 0
  /\ air' = {Aged(f) : f \in air}
  /\ buffer' = [i \in DOMAIN buffer |-> Aged(buffer[i])]
  /\ UNCHANGED <<echo, calm, device, exchange, lock, writer, shown, taken>>

(* No answer is later than a whole pause.                                  *)
PollWakes ==
  /\ poll = 0 /\ \A f \in air : ~f.old
  /\ poll' = 1
  /\ UNCHANGED <<line, exchange, lock, writer, shown, taken>>

-----------------------------------------------------------------------------
(* The write handler: the write and up to three readbacks, all under the   *)
(* lock of the line.                                                       *)

NoWrite == [pc |-> "idle", point |-> None, value |-> None, attempt |-> 1,
            ackOk |-> FALSE, late |-> FALSE]

(* The device takes the value, within its limits, or refuses it, and       *)
(* acknowledges, perhaps in vain, with the value it then holds.            *)
WriteSends == \E p \in Writable, v \in Value :
  /\ ~calm /\ writer.pc = "idle" /\ lock = None
  /\ lock' = "write"
  /\ writer' = [NoWrite EXCEPT !.pc = "write", !.point = p, !.value = v, !.late = air # {}]
  /\ \E held \in {Stored[v], device[p]} :
       /\ device' = [device EXCEPT ![p] = held]
       /\ \E answers \in {{Answer(p, held)}, {Answer(p, None)}, {}} :
            Fit(answers) /\ Request(Writing(p, v), answers)
  /\ UNCHANGED <<echo, calm, poll, shown>>

(* exchange_write: a frame that does not decode counts as an opaque        *)
(* acknowledgement; what the others say is judged after the readback.      *)
Acknowledges(p, f) ==
  \/ f.kind = "garbage"
  \/ f.kind = "answer" /\ Parameter[f.point] = Parameter[p] /\ f.payload # None

WriteReceives == \E f \in Range(buffer) :
  /\ writer.pc = "write" /\ Receives(f)
  /\ buffer' = Tail(buffer)
  /\ writer' = [writer EXCEPT !.pc = "verify", !.ackOk = Acknowledges(writer.point, f)]
  /\ exchange' = None
  /\ UNCHANGED <<echo, calm, device, air, lock, poll, shown, taken>>

WriteCutShort == \E f \in air :
  /\ writer.pc = "write" /\ CutShort(f)
  /\ air' = (air \ {f}) \cup {Garbage}
  /\ writer' = [writer EXCEPT !.pc = "verify", !.ackOk = TRUE]
  /\ exchange' = None
  /\ UNCHANGED <<echo, calm, device, buffer, lock, poll, shown, taken>>

Finishes ==
  /\ writer' = NoWrite
  /\ lock' = None /\ exchange' = None
  /\ UNCHANGED <<echo, calm, device, poll>>

WriteTimesOut ==
  /\ writer.pc = "write" /\ TimesOut
  /\ Finishes
  /\ UNCHANGED <<air, buffer, shown, taken>>

VerifySends ==
  /\ writer.pc = "verify" /\ exchange = None
  /\ \E answers \in ReadAnswers(writer.point) :
       Fit(answers) /\ Request(Reading(writer.point), answers)
  /\ UNCHANGED <<echo, calm, device, lock, poll, writer, shown>>

(* A faulty Confirms: any answer that decodes will do.                     *)
ConfirmsAnyValue(w, f) == f.kind = "answer" /\ Decodes(f, w.point)

(* _values_match.                                                          *)
Near(a, b) == -Tolerance <= a - b /\ a - b <= Tolerance

(* The readback agrees.  Neither hash nor address are looked at.           *)
Confirms(w, f) == f.kind = "answer" /\ Decodes(f, w.point) /\ Near(w.value, f.payload)

(* A faulty Retries: one attempt too many.                                 *)
RetriesOnceMore ==
  /\ writer.attempt <= WRITE_VERIFY_ATTEMPTS
  /\ writer' = [writer EXCEPT !.attempt = @ + 1]
  /\ exchange' = None
  /\ UNCHANGED <<echo, calm, device, lock, poll>>

(* A readback that failed: sleep, the lock held, and read once more.       *)
Retries ==
  /\ writer.attempt < WRITE_VERIFY_ATTEMPTS
  /\ writer' = [writer EXCEPT !.attempt = @ + 1]
  /\ exchange' = None
  /\ UNCHANGED <<echo, calm, device, lock, poll>>

GivesUp == writer.attempt >= WRITE_VERIFY_ATTEMPTS /\ Finishes

VerifyReceives == \E f \in Range(buffer) :
  /\ writer.pc = "verify" /\ Receives(f)
  /\ buffer' = Tail(buffer)
  /\ \/ /\ Confirms(writer, f)
        /\ IF writer.ackOk
           THEN Finishes /\ Publishes(f)
           ELSE Finishes /\ UNCHANGED <<shown, taken>>
     \/ ~Confirms(writer, f) /\ (Retries \/ GivesUp) /\ UNCHANGED <<shown, taken>>
  /\ UNCHANGED air

VerifyTimesOut ==
  /\ writer.pc = "verify" /\ TimesOut
  /\ Retries \/ GivesUp
  /\ UNCHANGED <<air, buffer, shown, taken>>

VerifyCutShort == \E f \in air :
  /\ writer.pc = "verify" /\ CutShort(f)
  /\ air' = (air \ {f}) \cup {Garbage}
  /\ Retries \/ GivesUp
  /\ UNCHANGED <<buffer, shown, taken>>

-----------------------------------------------------------------------------
(* The line.                                                               *)

(* A frame is received, or, on a disturbed line, garbled or lost.          *)
Arrives == \E f \in air :
  /\ air' = air \ {f}
  /\ \/ buffer' = Append(buffer, f)
     \/ ~calm /\ buffer' = Append(buffer, Garbage)
     \/ ~calm /\ buffer' = buffer
  /\ UNCHANGED <<echo, calm, device, exchange, lock, poll, writer, shown, taken>>

Settles ==
  /\ ~calm /\ writer.pc = "idle"
  /\ calm' = TRUE
  /\ UNCHANGED <<echo, device, air, buffer, exchange, lock, poll, writer, shown, taken>>

-----------------------------------------------------------------------------
Init ==
  /\ echo \in BOOLEAN
  /\ calm = FALSE
  /\ device \in Initially
  /\ air = {} /\ buffer = <<>>
  /\ exchange = None /\ lock = None
  /\ poll = 1
  /\ writer = NoWrite
  /\ shown = [p \in Point |-> None] /\ taken = None

PollStep == PollReceives \/ PollTimesOut \/ PollCutShort
WriteStep ==
  \/ WriteReceives \/ WriteTimesOut \/ WriteCutShort
  \/ VerifySends \/ VerifyReceives \/ VerifyTimesOut \/ VerifyCutShort

Next ==
  \/ PollSends \/ PollStep \/ PollSleeps \/ PollWakes
  \/ WriteSends \/ WriteStep
  \/ Arrives \/ Settles

Spec == Init /\ [][Next]_vars

(* A timeout ends every wait, the poll task goes on whenever the lock is   *)
(* free, and frames arrive.  No client has to write.                       *)
Fairness ==
  /\ WF_vars(PollSends) /\ WF_vars(PollStep) /\ WF_vars(PollSleeps) /\ WF_vars(PollWakes)
  /\ WF_vars(WriteStep) /\ WF_vars(Arrives)

FairSpec == Spec /\ Fairness

-----------------------------------------------------------------------------
(* Properties.                                                             *)

Payload == Value \cup {None}
Frame ==
  [kind: {"answer", "request"}, point: Point, payload: Payload, own: BOOLEAN, old: BOOLEAN]
    \cup [kind: {"garbage"}, point: {None}, payload: {None}, own: {FALSE}, old: BOOLEAN]

(* Type invariant; the attempts of a readback stay within their number.    *)
TypeOK ==
  /\ echo \in BOOLEAN /\ calm \in BOOLEAN
  /\ device \in [Point -> Payload]
  /\ air \subseteq Frame /\ Range(buffer) \subseteq Frame
  /\ exchange \in {None} \cup
       [op: {"read", "write"}, point: Point, value: Payload, late: BOOLEAN]
  /\ lock \in {None, "poll", "write"}
  /\ poll \in 0 .. Len(PollOrder) + 1
  /\ writer \in [pc: {"idle", "write", "verify"}, point: Writable \cup {None},
                 value: Payload, attempt: 1 .. WRITE_VERIFY_ATTEMPTS, ackOk: BOOLEAN,
                 late: BOOLEAN]
  /\ shown \in [Point -> {None, "own", "other", "echo"}]
  /\ taken \in {None} \cup
       [point: Point, asked: Payload, value: Payload, by: {"poll", "write"}, old: BOOLEAN,
        sent: {"own", "other", "echo"}, late: BOOLEAN, beforeWrite: BOOLEAN]

(* What the poll task publishes was never sent before the pause it last    *)
(* made: exchange drops what came in during the pause before it asks.      *)
FreshAnswers ==
  taken # None /\ taken.by = "poll" => ~taken.old

(* What is published for a point is the answer of that point to the very   *)
(* request made for it, and never a request returned by the adapter,       *)
(* unless the answer to an earlier request was still on its way when this  *)
(* one was sent: only then can the comparison of hashes be too weak.       *)
OwnUnlessLeftOver ==
  taken # None /\ taken.sent # "own" => taken.sent = "other" /\ taken.late

(* What is published for an accepted write is what the device holds, and    *)
(* it is as near to what the client wrote as a readback must be: a write    *)
(* that the device refused or limited by more is not accepted.  That,       *)
(* although the readback looks at neither hash nor address and an opaque or *)
(* repeated request counts as an acknowledgement; an answer left over from  *)
(* before the write is the one thing that can deceive it.                   *)
(* (service.py:712-742, 779-809, 931-934)                                   *)
WriteConfirmed ==
  taken # None /\ taken.by = "write" /\ ~taken.beforeWrite =>
    device[taken.point] = taken.value /\ Near(taken.asked, taken.value)

(* Once the line is undisturbed, everything published is in the end, and   *)
(* for ever, the point's own answer: the shift that one late answer causes *)
(* between requests and answers does not outlive the pause of the cycle.   *)
(* With an adapter that returns the requests no answer is ever taken.      *)
CalmLineHeals ==
  (<>calm) =>
    <>[](\A p \in Point : shown[p] \in {None, "own"})

=============================================================================
