----------------------------- MODULE SetpointWrite -----------------------------
(***************************************************************************)
(* Writing a parameter of a device through its Modbus register while the   *)
(* line is being polled (modbus_server.py and service.py,                  *)
(* _handle_modbus_holding_write).                                          *)
(*                                                                         *)
(* The Modbus server has already stored the client's value in the register *)
(* when _ObservableDataBlock starts a task for the write.  The task sends  *)
(* the value to the device and reads it back, under the lock of the line,  *)
(* and then either publishes what it read or restores the registers as     *)
(* they were when the client wrote.  The poll task of the line takes the   *)
(* same lock for every point, and publishes into the same registers.       *)
(*                                                                         *)
(* One device on one line is modelled: tasks of different lines share none *)
(* of this state, and devices of one line share only the lock.             *)
(***************************************************************************)
EXTENDS GatewayCodes, LogicUnits, Sequences, FiniteSets, SequencesExt

CONSTANTS
  Point,          \* the points of the device
  PollOrder,      \* the points in polling order
  Published,      \* points with publish_to_modbus: they have a register
  Writable,       \* points with writable
  Wiring,         \* Wiring[lu][f]: the point channel lu reads parameter f with, or None
  Value,          \* values, in units of the device
  Encodable,      \* values encode_payload accepts
  Stored,         \* Stored[v]: what the device makes of a written v (its limits)
  Tolerance,      \* FLOAT_VERIFY_TOLERANCE
  VerifyAttempts, \* WRITE_VERIFY_ATTEMPTS
  FaultAfter,     \* health.fault_after_failures
  RecoveryCycles, \* health.recovery_poll_interval_cycles
  Target,         \* what clients write: [points, exact]
  PanelValue,     \* what the operator sets at the device itself
  MaxWrites,      \* bound: number of client writes
  Poller          \* the poll task, as the owner of a place in the lock's queue

Write == 1..MaxWrites

ASSUME WriteAssumption ==
  /\ PollOrder \in Seq(Point)
  /\ Writable \subseteq Published /\ Published \subseteq Point
  /\ 0 \in Value /\ Value \subseteq Int
  /\ Encodable \subseteq Value /\ PanelValue \subseteq Value
  /\ Stored \in [Value -> Value]
  /\ Tolerance \in Nat
  /\ VerifyAttempts \in Nat \ {0} /\ FaultAfter \in Nat \ {0}
  /\ RecoveryCycles \in Nat \ {0} /\ MaxWrites \in Nat
  /\ \A t \in Target : t.points \subseteq Published /\ t.points # {} /\ t.exact \in BOOLEAN
  /\ Poller \notin Write
  /\ None \notin Int

VARIABLES
  register,            \* the holding registers of the points
  pointValue,          \* OwenGatewayService.point_values
  held,                \* the values the device holds
  write,               \* write[n]: the task of the n-th client write
  asked,               \* number of client writes so far
  queue,               \* the lock of the line: its owner, then those who wait
  poll,                \* the poll task: what it does, the point it is at
  consecutiveFailures, \* PointState, as in Polling
  channelStatus,
  recoverySkip,
  channelReg,          \* channel status registers
  mask,                \* device_logic_masks and HR48
  clean                \* the line and the panel are quiet from now on

clientVars == <<write, asked>>
healthVars == <<consecutiveFailures, channelStatus, recoverySkip, channelReg>>
vars == <<register, pointValue, held, clientVars, queue, poll, healthVars, mask, clean>>

-----------------------------------------------------------------------------
Near(a, b) == Magnitude(a - b) <= Tolerance

Closed(pc) == [pc |-> pc]
IsOpen(n) == write[n].pc \in {"spawned", "queued", "verify"}

(* _group_writable_points: a write goes to the device when it covers the   *)
(* registers of exactly one writable point.                                *)
Matches(n) == write[n].exact /\ \E p \in Writable : write[n].points = {p}
Subject(n) == CHOOSE p \in Point : write[n].points = {p}

(* The event loop is free unless the poll task is between two awaits.      *)
LoopFree == poll.pc # "running"

Owner(t) == queue # <<>> /\ Head(queue) = t

Init ==
  /\ register = [p \in Point |-> 0]
  /\ pointValue = [p \in Point |-> None]
  /\ held \in [Point -> Value]
  /\ write = [n \in Write |-> Closed("unused")]
  /\ asked = 0
  /\ queue = <<>>
  /\ poll = [pc |-> "asleep", at |-> 1]
  /\ consecutiveFailures = [p \in Point |-> 0]
  /\ channelStatus = [p \in Point |-> CHANNEL_COMM_ERROR]
  /\ recoverySkip = [p \in Point |-> 0]
  /\ channelReg = [p \in Point |-> 0]
  /\ mask = {}
  /\ clean = FALSE

-----------------------------------------------------------------------------
(* The Modbus client and its task.                                         *)

(* A write request: _ObservableDataBlock.setValues keeps the old values,   *)
(* stores the new ones and creates the task.                               *)
ClientWrite(t, v) ==
  LET n == asked + 1 IN
    /\ LoopFree
    /\ asked < MaxWrites
    /\ asked' = n
    /\ write' = [write EXCEPT ![n] =
         [pc |-> "spawned", points |-> t.points, exact |-> t.exact, value |-> v,
          previous |-> [p \in t.points |-> register[p]]]]
    /\ register' = [p \in Point |-> IF p \in t.points THEN v ELSE register[p]]
    /\ UNCHANGED <<pointValue, held, queue, poll, healthVars, mask, clean>>

(* A faulty Restore: the refused value stays in the register.               *)
RestoreNothing(n) == UNCHANGED register

(* restore_holding_registers                                               *)
Restore(n) ==
  register' = [p \in Point |->
                 IF p \in write[n].points THEN write[n].previous[p] ELSE register[p]]

Refused(n) ==
  /\ Restore(n)
  /\ write' = [write EXCEPT ![n] = Closed("refused")]
  /\ UNCHANGED <<pointValue, healthVars, mask>>

(* The loop starts the tasks in the order they were created.               *)
Starts(n) ==
  /\ LoopFree
  /\ write[n].pc = "spawned"
  /\ \A m \in Write : m < n => write[m].pc # "spawned"

StartRefused(n) ==
  /\ Starts(n)
  /\ ~(Matches(n) /\ write[n].value \in Encodable)
  /\ Refused(n)
  /\ UNCHANGED <<held, asked, queue, poll, clean>>

(* A faulty StartWrite: the newest write is the first to get the lock.      *)
StartWriteOvertakes(n) ==
  /\ Starts(n)
  /\ Matches(n) /\ write[n].value \in Encodable
  /\ write' = [write EXCEPT ![n].pc = "queued"]
  /\ queue' = IF queue = <<>> THEN <<n>> ELSE <<Head(queue), n>> \o Tail(queue)
  /\ UNCHANGED <<register, pointValue, held, asked, poll, healthVars, mask, clean>>

(* `async with bus_lock': the lock is handed on first come first served.   *)
StartWrite(n) ==
  /\ Starts(n)
  /\ Matches(n) /\ write[n].value \in Encodable
  /\ write' = [write EXCEPT ![n].pc = "queued"]
  /\ queue' = Append(queue, n)
  /\ UNCHANGED <<register, pointValue, held, asked, poll, healthVars, mask, clean>>

DeviceTakes(n) == held' = [held EXCEPT ![Subject(n)] = Stored[write[n].value]]

(* A faulty DeviceAcks: the lock is given back and taken again before the   *)
(* readback.                                                               *)
DeviceAcksUnlocks(n) ==
  /\ LoopFree
  /\ Owner(n) /\ write[n].pc = "queued"
  /\ write' = [write EXCEPT ![n] =
       [pc |-> "verify", points |-> @.points, exact |-> @.exact, value |-> @.value,
        previous |-> @.previous, ack |-> "proper", attempt |-> 1, landed |-> TRUE]]
  /\ DeviceTakes(n)
  /\ queue' = Append(Tail(queue), n)
  /\ UNCHANGED <<register, pointValue, asked, poll, healthVars, mask, clean>>

(* exchange_write answered: with a frame that is a proper acknowledgement, *)
(* with a frame that is not, or with something that is no frame at all.    *)
(* `landed' is history: the device took the value and keeps it.            *)
DeviceAcks(n) ==
  /\ LoopFree
  /\ Owner(n) /\ write[n].pc = "queued"
  /\ \E ack \in {"proper", "opaque"} \cup (IF clean THEN {} ELSE {"improper"}) :
       \E landed \in {TRUE} \cup (IF clean THEN {} ELSE {FALSE}) :
         /\ write' = [write EXCEPT ![n] =
              [pc |-> "verify", points |-> @.points, exact |-> @.exact, value |-> @.value,
               previous |-> @.previous, ack |-> ack, attempt |-> 1, landed |-> landed]]
         /\ IF landed THEN DeviceTakes(n) ELSE UNCHANGED held
  /\ UNCHANGED <<register, pointValue, asked, queue, poll, healthVars, mask, clean>>

(* exchange_write raised: a timeout, a serial error.  The device may have  *)
(* taken the value nevertheless.                                           *)
DeviceSilent(n) ==
  /\ LoopFree /\ ~clean
  /\ Owner(n) /\ write[n].pc = "queued"
  /\ DeviceTakes(n) \/ UNCHANGED held
  /\ Refused(n)
  /\ queue' = Tail(queue)
  /\ UNCHANGED <<asked, poll, clean>>

(* _verify_written_value_locked, one attempt: the readback agrees.  Then   *)
(* the lock is released, the acknowledgement is looked at, and what was    *)
(* read is published, all without another await.                           *)
ReadsBack(n) ==
  /\ LoopFree
  /\ Owner(n) /\ write[n].pc = "verify"
  /\ Near(write[n].value, held[Subject(n)])

InputNow(values) ==
  [lu \in LogicUnit |->
    [f \in {"measured", "setpoint", "hysteresis", "alType"} |->
      IF Wiring[lu][f] = None THEN None ELSE values[Wiring[lu][f]]]]

VerifyAccepts(n) ==
  /\ ReadsBack(n) /\ write[n].ack # "improper"
  /\ LET p == Subject(n) IN
       /\ pointValue' = [pointValue EXCEPT ![p] = held[p]]
       /\ register' = [register EXCEPT ![p] = held[p]]
       /\ consecutiveFailures' = [consecutiveFailures EXCEPT ![p] = 0]
       /\ channelStatus' = [channelStatus EXCEPT ![p] = CHANNEL_OK]
       /\ channelReg' = [channelReg EXCEPT ![p] = CHANNEL_OK]
  /\ mask' = LogicMask(InputNow(pointValue'), mask)
  /\ write' = [write EXCEPT ![n] = Closed("accepted")]
  /\ queue' = Tail(queue)
  /\ UNCHANGED <<held, asked, poll, recoverySkip, clean>>

VerifyRejectsAck(n) ==
  /\ ReadsBack(n) /\ write[n].ack = "improper"
  /\ Refused(n)
  /\ queue' = Tail(queue)
  /\ UNCHANGED <<held, asked, poll, clean>>

(* Faulty variants of VerifyFails: one attempt too many; no end of them.    *)
VerifyFailsOnceMore(n) ==
  /\ LoopFree
  /\ Owner(n) /\ write[n].pc = "verify"
  /\ clean => ~Near(write[n].value, held[Subject(n)])
  /\ IF write[n].attempt <= VerifyAttempts
     THEN /\ write' = [write EXCEPT ![n].attempt = @ + 1]
          /\ UNCHANGED <<register, pointValue, healthVars, mask, queue>>
     ELSE /\ Refused(n)
          /\ queue' = Tail(queue)
  /\ UNCHANGED <<held, asked, poll, clean>>

VerifyFailsForever(n) ==
  /\ LoopFree
  /\ Owner(n) /\ write[n].pc = "verify"
  /\ clean => ~Near(write[n].value, held[Subject(n)])
  /\ UNCHANGED vars

(* An attempt fails: another value, no answer, a malformed answer.         *)
VerifyFails(n) ==
  /\ LoopFree
  /\ Owner(n) /\ write[n].pc = "verify"
  /\ clean => ~Near(write[n].value, held[Subject(n)])
  /\ IF write[n].attempt < VerifyAttempts
     THEN /\ write' = [write EXCEPT ![n].attempt = @ + 1]
          /\ UNCHANGED <<register, pointValue, healthVars, mask, queue>>
     ELSE /\ Refused(n)
          /\ queue' = Tail(queue)
  /\ UNCHANGED <<held, asked, poll, clean>>

-----------------------------------------------------------------------------
(* The poll task, on the points of this device.                            *)

At == PollOrder[poll.at]
MorePoints == poll.at <= Len(PollOrder)

PollWake ==
  /\ poll.pc = "asleep"
  /\ poll' = [pc |-> "running", at |-> 1]
  /\ UNCHANGED <<register, pointValue, held, clientVars, queue, healthVars, mask, clean>>

PollSkip ==
  /\ poll.pc = "running" /\ MorePoints
  /\ recoverySkip[At] > 0
  /\ recoverySkip' = [recoverySkip EXCEPT ![At] = @ - 1]
  /\ channelReg' = [channelReg EXCEPT ![At] = CHANNEL_FAILED]
  /\ poll' = [poll EXCEPT !.at = @ + 1]
  /\ UNCHANGED <<register, pointValue, held, clientVars, queue, consecutiveFailures,
                 channelStatus, mask, clean>>

PollBegin ==
  /\ poll.pc = "running" /\ MorePoints
  /\ recoverySkip[At] = 0
  /\ queue' = Append(queue, Poller)
  /\ poll' = [poll EXCEPT !.pc = "queued"]
  /\ UNCHANGED <<register, pointValue, held, clientVars, healthVars, mask, clean>>

PollDone ==
  /\ poll.pc = "queued" /\ Owner(Poller)
  /\ queue' = Tail(queue)
  /\ poll' = [pc |-> "running", at |-> poll.at + 1]
  /\ UNCHANGED <<held, clientVars, mask, clean>>

(* A faulty PollHealthy: the channel status register is left as it was.     *)
PollHealthyUnpublished(status) ==
  /\ consecutiveFailures' = [consecutiveFailures EXCEPT ![At] = 0]
  /\ channelStatus' = [channelStatus EXCEPT ![At] = status]
  /\ UNCHANGED <<channelReg, recoverySkip>>

PollHealthy(status) ==
  /\ consecutiveFailures' = [consecutiveFailures EXCEPT ![At] = 0]
  /\ channelStatus' = [channelStatus EXCEPT ![At] = status]
  /\ channelReg' = [channelReg EXCEPT ![At] = status]
  /\ UNCHANGED recoverySkip

(* A faulty PollValue: only a value that changed is published.              *)
PollValueIfChanged ==
  /\ PollDone
  /\ pointValue' = [pointValue EXCEPT ![At] = held[At]]
  /\ register' = IF At \in Published /\ pointValue[At] # held[At]
                 THEN [register EXCEPT ![At] = held[At]] ELSE register
  /\ PollHealthy(CHANNEL_OK)

PollValue ==
  /\ PollDone
  /\ pointValue' = [pointValue EXCEPT ![At] = held[At]]
  /\ register' = IF At \in Published THEN [register EXCEPT ![At] = held[At]] ELSE register
  /\ PollHealthy(CHANNEL_OK)

(* An empty payload: the value is gone, its register keeps what it showed. *)
PollEmpty ==
  /\ PollDone /\ ~clean
  /\ pointValue' = [pointValue EXCEPT ![At] = None]
  /\ PollHealthy(CHANNEL_DISABLED)
  /\ UNCHANGED register

(* A failed exchange (the kinds of failure are told apart in Polling).     *)
PollFails ==
  /\ PollDone /\ ~clean
  /\ LET n == IF consecutiveFailures[At] < FaultAfter THEN consecutiveFailures[At] + 1
                                                      ELSE FaultAfter
         status == IF n >= FaultAfter THEN CHANNEL_FAILED ELSE CHANNEL_COMM_ERROR
     IN  /\ consecutiveFailures' = [consecutiveFailures EXCEPT ![At] = n]
         /\ channelStatus' = [channelStatus EXCEPT ![At] = status]
         /\ channelReg' = [channelReg EXCEPT ![At] = status]
         /\ recoverySkip' = [recoverySkip EXCEPT
              ![At] = IF n >= FaultAfter THEN RecoveryCycles - 1 ELSE @]
  /\ UNCHANGED <<register, pointValue>>

PollEnd ==
  /\ poll.pc = "running" /\ ~MorePoints
  /\ poll' = [pc |-> "asleep", at |-> 1]
  /\ UNCHANGED <<register, pointValue, held, clientVars, queue, healthVars, mask, clean>>

-----------------------------------------------------------------------------
(* The field.                                                              *)

PanelChange(p, v) ==
  /\ ~clean
  /\ held[p] # v
  /\ held' = [held EXCEPT ![p] = v]
  /\ write' = [n \in Write |->
       IF write[n].pc = "verify" /\ p \in write[n].points
       THEN [write[n] EXCEPT !.landed = FALSE] ELSE write[n]]
  /\ UNCHANGED <<register, pointValue, asked, queue, poll, healthVars, mask, clean>>

Settle ==
  /\ ~clean
  /\ clean' = TRUE
  /\ UNCHANGED <<register, pointValue, held, clientVars, queue, poll, healthVars, mask>>

HandlerStep(n) ==
  \/ StartRefused(n)
  \/ StartWrite(n)
  \/ DeviceAcks(n)
  \/ DeviceSilent(n)
  \/ VerifyAccepts(n)
  \/ VerifyRejectsAck(n)
  \/ VerifyFails(n)

PollStep ==
  \/ PollWake
  \/ PollSkip
  \/ PollBegin
  \/ PollValue
  \/ PollEmpty
  \/ PollFails
  \/ PollEnd

(* The loop is given back before another task runs: PollWake is enabled    *)
(* only while it is free, the other steps of a running poll task are its   *)
(* own.                                                                    *)
Next ==
  \/ \E t \in Target, v \in Value : ClientWrite(t, v)
  \/ \E n \in Write : HandlerStep(n)
  \/ PollStep
  \/ \E p \in Point, v \in PanelValue : PanelChange(p, v)
  \/ Settle

(* Exchanges end, sleeps end, and the loop serves ready tasks in order.    *)
(* Clients need not write, the line need not become quiet.                 *)
Fairness == SF_vars(PollStep) /\ \A n \in Write : SF_vars(HandlerStep(n))

Spec == Init /\ [][Next]_vars
FairSpec == Spec /\ Fairness

-----------------------------------------------------------------------------
(* Invariants.                                                             *)

OpenWrite ==
  [pc : {"spawned", "queued"}, points : SUBSET Published, exact : BOOLEAN, value : Value,
   previous : UNION {[s -> Value] : s \in SUBSET Published}]
VerifyingWrite ==
  [pc : {"verify"}, points : SUBSET Published, exact : BOOLEAN, value : Value,
   previous : UNION {[s -> Value] : s \in SUBSET Published},
   ack : {"proper", "opaque", "improper"}, attempt : 1..VerifyAttempts, landed : BOOLEAN]

TypeOK ==
  /\ register \in [Point -> Value]
  /\ pointValue \in [Point -> Value \cup {None}]
  /\ held \in [Point -> Value]
  /\ write \in [Write -> [pc : {"unused", "accepted", "refused"}] \cup OpenWrite \cup VerifyingWrite]
  /\ asked \in 0..MaxWrites
  /\ queue \in Seq(Write \cup {Poller})
  /\ poll \in [pc : {"asleep", "running", "queued"}, at : 1..(Len(PollOrder) + 1)]
  /\ consecutiveFailures \in [Point -> 0..FaultAfter]
  /\ channelStatus \in [Point -> {CHANNEL_DISABLED, CHANNEL_OK, CHANNEL_COMM_ERROR, CHANNEL_FAILED}]
  /\ channelReg \in [Point -> {CHANNEL_DISABLED, CHANNEL_OK, CHANNEL_COMM_ERROR, CHANNEL_FAILED}]
  /\ recoverySkip \in [Point -> 0..(RecoveryCycles - 1)]
  /\ mask \subseteq LogicUnit
  /\ clean \in BOOLEAN

(* The lock is held from the write to the end of the readback: what a       *)
(* verifying task finds in the device is its own value, unless the device   *)
(* did not take it or its panel was used.  No other write of the gateway    *)
(* can come in between.  (service.py:703-711)                               *)
VerifySeesOwnWrite ==
  \A n \in Write : (write[n].pc = "verify" /\ write[n].landed) =>
    held[Subject(n)] = Stored[write[n].value]

(* Two writes of the same point reach the device in the order the client    *)
(* made them: while one is being verified no older one is still open.       *)
(* (modbus_server.py:127-133, service.py:703)                               *)
LastWriterWins ==
  \A m, n \in Write :
    (m < n /\ IsOpen(m) /\ Matches(m) /\ write[n].pc = "verify")
      => Subject(m) # Subject(n)

-----------------------------------------------------------------------------
(* The contract.                                                           *)

Request == Write
AskFor == {[points |-> t.points, setpoint |-> t.exact /\ \E p \in Writable : t.points = {p}] :
             t \in Target}
RequestOf(n) ==
  IF IsOpen(n)
  THEN [state |-> "open", points |-> write[n].points, setpoint |-> Matches(n),
        value |-> write[n].value, before |-> write[n].previous]
  ELSE [state |-> IF write[n].pc = "unused" THEN "free" ELSE write[n].pc]

Contract == INSTANCE SetpointContract WITH
  Target <- AskFor,
  request <- [n \in Write |-> RequestOf(n)],
  shown <- register

(* The gateway keeps its promise to the clients.                            *)
Implements == Contract!Spec

-----------------------------------------------------------------------------
(* Liveness.                                                               *)

(* Every write is accepted or refused in the end, whatever the device does. *)
(* (service.py:682-777)                                                     *)
WriteResolved == \A n \in Write : IsOpen(n) ~> write[n].pc \in {"accepted", "refused"}

(* Once the line is quiet, the registers come to show what the device holds *)
(* and stay so: neither a refused write that restored an outdated value nor *)
(* one the device took although it was refused leaves a lasting trace, and  *)
(* no point stays failed.  (service.py:426-444, 758-777)                    *)
RegistersConverge ==
  clean ~> [](\A p \in Range(PollOrder) :
                /\ channelReg[p] = CHANNEL_OK /\ channelStatus[p] = CHANNEL_OK
                /\ pointValue[p] = held[p]
                /\ p \in Published => register[p] = held[p])

(* README.md:109-114: HR48 is computed from the measured value, setpoint,   *)
(* hysteresis and characteristic of the channels.  With a quiet line it     *)
(* comes to be the mask of the values that were polled.                     *)
MaskFollowsPolling ==
  clean ~> [](mask = LogicMask(InputNow(pointValue), mask))

=============================================================================
