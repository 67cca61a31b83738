-------------------------------- MODULE Polling --------------------------------
(***************************************************************************)
(* The polling engine of the gateway (service.py): one asyncio task per    *)
(* RS-485 line polls the points of its devices one exchange at a time,     *)
(* keeps the health of every point, derives the status of every device and *)
(* line, counts, and publishes all of it in Modbus holding registers.      *)
(*                                                                         *)
(* Scheduling.  asyncio is cooperative: a task keeps the event loop until  *)
(* it awaits something that is not ready.  `loop' names the task that has  *)
(* it.  A poll task gives it up at two places only: the exchange on the    *)
(* serial line, which runs in a worker thread, and the sleep between two   *)
(* cycles.  Whatever the task does between them nobody can observe half    *)
(* done: "at rest" below means loop = NoTask.  The one other task that     *)
(* touches the health of a point is the handler of a client write; what it *)
(* does when a write is accepted is WriteAccepted (the write itself, with  *)
(* its lock and readback, is in SetpointWrite).                            *)
(***************************************************************************)
EXTENDS GatewayCodes, Sequences, FiniteSets, FiniteSetsExt

CONSTANTS
  Bus,            \* serial lines
  Device,         \* devices; a device has one Modbus SlaveID
  Point,          \* polled parameters
  DevicesOf,      \* DevicesOf[b]: the devices of a line, in polling order
  PointsOf,       \* PointsOf[d]: the points of a device, in polling order
  Writable,       \* points a Modbus client may write
  FaultAfter,     \* health.fault_after_failures
  RecoveryCycles, \* health.recovery_poll_interval_cycles
  CounterRange,   \* values of a counter: 2^16 in the program
  LinkStates,     \* the ways a device may behave: sets of outcomes
  NoTask          \* nobody has the event loop

(* What one exchange with a device ends in.                                *)
Outcome == {"value", "empty", "timeout", "bad_flag", "hash", "decode", "io"}

(* Every device is on one line, every point belongs to one device, no      *)
(* device is without points.  A point here is a PointState, which is keyed *)
(* by the name of the point: that no two points share a name is not        *)
(* checked by load_config; it is so for the documents of the configuration *)
(* tools (PointNamesApart in ConfigTools).                                 *)
ASSUME PollingAssumption ==
  /\ DevicesOf \in [Bus -> Seq(Device)]
  /\ PointsOf \in [Device -> Seq(Point)]
  /\ \A d \in Device : Len(PointsOf[d]) > 0
  /\ \A b, c \in Bus : \A i \in 1..Len(DevicesOf[b]) : \A j \in 1..Len(DevicesOf[c]) :
        DevicesOf[b][i] = DevicesOf[c][j] => b = c /\ i = j
  /\ \A d, e \in Device : \A i \in 1..Len(PointsOf[d]) : \A j \in 1..Len(PointsOf[e]) :
        PointsOf[d][i] = PointsOf[e][j] => d = e /\ i = j
  /\ Writable \subseteq Point
  /\ FaultAfter \in Nat \ {0}
  /\ RecoveryCycles \in Nat \ {0}
  /\ CounterRange \in Nat \ {0}
  /\ LinkStates \subseteq SUBSET Outcome
  /\ {} \notin LinkStates
  /\ NoTask \notin Bus
  /\ IsFiniteSet(Device)

VARIABLES
  loop,                \* the task that runs on the event loop, or NoTask
  task,                \* task[b]: where the poll task of line b is, its locals
  consecutiveFailures, \* PointState.consecutive_failures, saturated at FaultAfter
  channelStatus,       \* PointState.channel_status
  recoverySkip,        \* PointState.recovery_skip_cycles
  deviceStatus,        \* DeviceState.status
  deviceOnline,        \* DeviceState.is_online
  deviceCount,         \* the counters and the last error of DeviceState
  busStatus,           \* OwenGatewayService.bus_statuses
  gatewayCount,        \* the counters and the last error of the gateway
  channelReg,          \* channel status register of a point
  deviceReg,           \* status and telemetry registers of a device
  lineReg,             \* HR10, HR11 of SlaveID 1
  serviceReg,          \* status and telemetry registers of SlaveID 1
  isConnected,         \* BusState.is_connected, as the startup left it
  port,                \* the serial port object of the line is open
  link,                \* how the device at the other end behaves now
  idle,                \* history: cycles since the poll last asked a point
  polled               \* history: channelStatus as the poll left it last

taskVars == <<loop, task>>
healthVars == <<consecutiveFailures, channelStatus, recoverySkip, channelReg, idle, polled>>
deviceVars == <<deviceStatus, deviceOnline, deviceReg>>
countVars == <<deviceCount, gatewayCount>>
lineVars == <<busStatus, lineReg, serviceReg>>
lineEnv == <<isConnected, port>>
vars == <<taskVars, healthVars, deviceVars, countVars, lineVars, lineEnv, link>>

-----------------------------------------------------------------------------
DevicesOn(b) == {DevicesOf[b][i] : i \in 1..Len(DevicesOf[b])}
PointsIn(d) == {PointsOf[d][i] : i \in 1..Len(PointsOf[d])}

Counters == [success : 0..(CounterRange - 1), timeout : 0..(CounterRange - 1),
             protocol : 0..(CounterRange - 1), cycles : 0..(CounterRange - 1),
             error : ErrorCode]
Registers == [status : Status, count : Counters]
NoCounts == [success |-> 0, timeout |-> 0, protocol |-> 0, cycles |-> 0,
             error |-> ERROR_NONE]

(* The locals of _poll_bus_once and _poll_device: positions in the two     *)
(* loops, and what the current device has failed so far.                   *)
Task == [pc : {"asleep", "polling", "exchange"},
         device : Nat \ {0}, point : Nat \ {0},
         failures : Nat, protocol : Nat, error : ErrorCode]
StartOfDevice(i) == [pc |-> "polling", device |-> i, point |-> 1,
                     failures |-> 0, protocol |-> 0, error |-> ERROR_NONE]
Asleep == [pc |-> "asleep", device |-> 1, point |-> 1,
           failures |-> 0, protocol |-> 0, error |-> ERROR_NONE]

CurrentDevice(b) == DevicesOf[b][task[b].device]
CurrentPoint(b) == PointsOf[CurrentDevice(b)][task[b].point]

HasDevice(b) == task[b].device <= Len(DevicesOf[b])
HasPoint(b) == HasDevice(b) /\ task[b].point <= Len(PointsOf[CurrentDevice(b)])
Running(b) == loop = b /\ task[b].pc = "polling"

Init ==
  /\ loop = NoTask
  /\ task = [b \in Bus |-> Asleep]
  /\ consecutiveFailures = [p \in Point |-> 0]
  /\ channelStatus = [p \in Point |-> CHANNEL_COMM_ERROR]
  /\ recoverySkip = [p \in Point |-> 0]
  /\ channelReg = [p \in Point |-> 0]
  /\ idle = [p \in Point |-> 0]
  /\ polled = [p \in Point |-> CHANNEL_COMM_ERROR]
  /\ deviceStatus = [d \in Device |-> STATUS_OFFLINE]
  /\ deviceOnline = [d \in Device |-> FALSE]
  /\ deviceCount = [d \in Device |-> NoCounts]
  /\ deviceReg = [d \in Device |-> [status |-> STATUS_OFFLINE, count |-> NoCounts]]
  /\ busStatus = [b \in Bus |-> STATUS_OFFLINE]
  /\ lineReg = [b \in Bus |-> STATUS_OFFLINE]
  /\ gatewayCount = NoCounts
  /\ serviceReg = [status |-> STATUS_OFFLINE, count |-> NoCounts]
  \* _safe_connect_bus: a connected line has an open port; a line whose
  \* buffers could not be reset is not connected although its port is open.
  /\ isConnected \in [Bus -> BOOLEAN]
  /\ port \in [Bus -> BOOLEAN]
  /\ \A b \in Bus : isConnected[b] => port[b]
  /\ link \in [Device -> LinkStates]

-----------------------------------------------------------------------------
(* The sleep of _poll_bus_loop ends and the next cycle starts.  A line     *)
(* without devices returns from _poll_bus_once at once: nothing happens.   *)
Wake(b) ==
  /\ loop = NoTask
  /\ task[b].pc = "asleep"
  /\ DevicesOf[b] # <<>>
  /\ loop' = b
  /\ task' = [task EXCEPT ![b] = StartOfDevice(1)]
  /\ UNCHANGED <<healthVars, deviceVars, countVars, lineVars, lineEnv, link>>

(* Faulty variants of SkipPoint: the device does not count the point; the   *)
(* cycles left to skip are never counted down.                             *)
SkipPointUncounted(b) ==
  /\ Running(b)
  /\ HasPoint(b)
  /\ LET p == CurrentPoint(b) IN
       /\ recoverySkip[p] > 0
       /\ recoverySkip' = [recoverySkip EXCEPT ![p] = @ - 1]
       /\ channelReg' = [channelReg EXCEPT ![p] = CHANNEL_FAILED]
       /\ idle' = [idle EXCEPT ![p] = @ + 1]
  /\ task' = [task EXCEPT ![b].point = @ + 1]
  /\ UNCHANGED <<loop, consecutiveFailures, channelStatus, polled, deviceVars, countVars,
                 lineVars, lineEnv, link>>

SkipPointForever(b) ==
  /\ Running(b)
  /\ HasPoint(b)
  /\ recoverySkip[CurrentPoint(b)] > 0
  /\ channelReg' = [channelReg EXCEPT ![CurrentPoint(b)] = CHANNEL_FAILED]
  /\ task' = [task EXCEPT ![b].point = @ + 1, ![b].failures = @ + 1]
  /\ UNCHANGED <<loop, consecutiveFailures, channelStatus, recoverySkip, idle, polled,
                 deviceVars, countVars, lineVars, lineEnv, link>>

(* A point that failed too often is left out of this cycle: no exchange,   *)
(* but its device counts it as failed.                                     *)
SkipPoint(b) ==
  /\ Running(b)
  /\ HasPoint(b)
  /\ LET p == CurrentPoint(b) IN
       /\ recoverySkip[p] > 0
       /\ recoverySkip' = [recoverySkip EXCEPT ![p] = @ - 1]
       /\ channelReg' = [channelReg EXCEPT ![p] = CHANNEL_FAILED]
       /\ idle' = [idle EXCEPT ![p] = @ + 1]
  /\ task' = [task EXCEPT ![b].point = @ + 1, ![b].failures = @ + 1]
  /\ UNCHANGED <<loop, consecutiveFailures, channelStatus, polled, deviceVars, countVars,
                 lineVars, lineEnv, link>>

(* `await asyncio.to_thread(exchange)': the event loop is free again.      *)
BeginExchange(b) ==
  /\ Running(b)
  /\ HasPoint(b)
  /\ recoverySkip[CurrentPoint(b)] = 0
  /\ loop' = NoTask
  /\ task' = [task EXCEPT ![b].pc = "exchange"]
  /\ UNCHANGED <<healthVars, deviceVars, countVars, lineVars, lineEnv, link>>

(* The exchange of line b ended in outcome o and its task runs again.  A   *)
(* port that never opened raises RuntimeError, which is a decode error.    *)
Replied(b, o) ==
  /\ loop = NoTask
  /\ task[b].pc = "exchange"
  /\ IF port[b] THEN o \in link[CurrentDevice(b)] ELSE o = "decode"

(* A faulty ResumeAfter: a good point clears the error of an earlier one.   *)
ResumeAfterClears(b, error) ==
  /\ loop' = b
  /\ task' = [task EXCEPT
       ![b].pc = "polling",
       ![b].point = @ + 1,
       ![b].failures = @ + (IF error = ERROR_NONE THEN 0 ELSE 1),
       ![b].protocol = @ + (IF error \in ProtocolError THEN 1 ELSE 0),
       ![b].error = error]

ResumeAfter(b, error) ==
  /\ loop' = b
  /\ task' = [task EXCEPT
       ![b].pc = "polling",
       ![b].point = @ + 1,
       ![b].failures = @ + (IF error = ERROR_NONE THEN 0 ELSE 1),
       ![b].protocol = @ + (IF error \in ProtocolError THEN 1 ELSE 0),
       ![b].error = IF error = ERROR_NONE THEN @ ELSE error]

(* A faulty Healthy: the failures in a row are not reset.                  *)
HealthyKeepsFailures(p, status) ==
  /\ channelStatus' = [channelStatus EXCEPT ![p] = status]
  /\ channelReg' = [channelReg EXCEPT ![p] = status]
  /\ idle' = [idle EXCEPT ![p] = 0]
  /\ polled' = [polled EXCEPT ![p] = status]
  /\ UNCHANGED <<consecutiveFailures, recoverySkip>>

(* The point answered: its health is reset and published.                  *)
Healthy(p, status) ==
  /\ consecutiveFailures' = [consecutiveFailures EXCEPT ![p] = 0]
  /\ channelStatus' = [channelStatus EXCEPT ![p] = status]
  /\ channelReg' = [channelReg EXCEPT ![p] = status]
  /\ idle' = [idle EXCEPT ![p] = 0]
  /\ polled' = [polled EXCEPT ![p] = status]
  /\ UNCHANGED recoverySkip

(* A faulty Failed: one cycle too many is skipped.                         *)
FailedSkipsOneMore(p, transient) ==
  LET n == IF consecutiveFailures[p] < FaultAfter THEN consecutiveFailures[p] + 1
                                                  ELSE FaultAfter
      fault == n >= FaultAfter
      status == IF fault THEN CHANNEL_FAILED ELSE transient
  IN  /\ consecutiveFailures' = [consecutiveFailures EXCEPT ![p] = n]
      /\ channelStatus' = [channelStatus EXCEPT ![p] = status]
      /\ channelReg' = [channelReg EXCEPT ![p] = status]
      /\ recoverySkip' = [recoverySkip EXCEPT ![p] = IF fault THEN RecoveryCycles ELSE @]
      /\ idle' = [idle EXCEPT ![p] = 0]
      /\ polled' = [polled EXCEPT ![p] = status]

(* _failure_status: one failure more, and from FaultAfter failures on the  *)
(* point is failed and skips RecoveryCycles - 1 cycles.                    *)
Failed(p, transient) ==
  LET n == IF consecutiveFailures[p] < FaultAfter THEN consecutiveFailures[p] + 1
                                                  ELSE FaultAfter
      fault == n >= FaultAfter
      status == IF fault THEN CHANNEL_FAILED ELSE transient
  IN  /\ consecutiveFailures' = [consecutiveFailures EXCEPT ![p] = n]
      /\ channelStatus' = [channelStatus EXCEPT ![p] = status]
      /\ channelReg' = [channelReg EXCEPT ![p] = status]
      /\ recoverySkip' = [recoverySkip EXCEPT ![p] = IF fault THEN RecoveryCycles - 1 ELSE @]
      /\ idle' = [idle EXCEPT ![p] = 0]
      /\ polled' = [polled EXCEPT ![p] = status]

(* A faulty CountBoth: the counter of the gateway stops at its limit.       *)
CountBothStops(d, field) ==
  /\ deviceCount' = [deviceCount EXCEPT ![d][field] = IncCounter(@, CounterRange)]
  /\ gatewayCount' = [gatewayCount EXCEPT
       ![field] = IF @ < CounterRange - 1 THEN @ + 1 ELSE @]

(* One more in the counter `field' of the device and of the gateway.       *)
CountBoth(d, field) ==
  /\ deviceCount' = [deviceCount EXCEPT ![d][field] = IncCounter(@, CounterRange)]
  /\ gatewayCount' = [gatewayCount EXCEPT ![field] = IncCounter(@, CounterRange)]

PointValue(b) ==
  /\ Replied(b, "value")
  /\ ResumeAfter(b, ERROR_NONE)
  /\ Healthy(CurrentPoint(b), CHANNEL_OK)
  /\ CountBoth(CurrentDevice(b), "success")
  /\ UNCHANGED <<deviceVars, lineVars, lineEnv, link>>

(* An empty payload: the channel is switched off in the device.  No error, *)
(* and no success counted either.                                          *)
PointEmpty(b) ==
  /\ Replied(b, "empty")
  /\ ResumeAfter(b, ERROR_NONE)
  /\ Healthy(CurrentPoint(b), CHANNEL_DISABLED)
  /\ UNCHANGED <<deviceVars, countVars, lineVars, lineEnv, link>>

PointTimeout(b) ==
  /\ Replied(b, "timeout")
  /\ ResumeAfter(b, ERROR_TIMEOUT)
  /\ Failed(CurrentPoint(b), CHANNEL_COMM_ERROR)
  /\ CountBoth(CurrentDevice(b), "timeout")
  /\ UNCHANGED <<deviceVars, lineVars, lineEnv, link>>

(* _map_protocol_error                                                     *)
ProtocolErrorOf(o) ==
  CASE o = "bad_flag" -> ERROR_BAD_FLAG
    [] o = "hash" -> ERROR_HASH_MISMATCH
    [] OTHER -> ERROR_DECODE

PointProtocolError(b) ==
  \E o \in {"bad_flag", "hash", "decode"} :
    /\ Replied(b, o)
    /\ ResumeAfter(b, ProtocolErrorOf(o))
    /\ Failed(CurrentPoint(b), CHANNEL_PROTOCOL_ERROR)
    /\ CountBoth(CurrentDevice(b), "protocol")
    /\ UNCHANGED <<deviceVars, lineVars, lineEnv, link>>

(* Any other exception, a dead serial port for instance: the gateway       *)
(* counts a timeout, the device does not.                                  *)
PointIoError(b) ==
  /\ Replied(b, "io")
  /\ ResumeAfter(b, ERROR_IO)
  /\ Failed(CurrentPoint(b), CHANNEL_COMM_ERROR)
  /\ gatewayCount' = [gatewayCount EXCEPT !.timeout = IncCounter(@, CounterRange)]
  /\ UNCHANGED <<deviceCount, deviceVars, lineVars, lineEnv, link>>

-----------------------------------------------------------------------------
(* A faulty DeviceResult: no device is offline while its line works.       *)
DeviceResultNoOffline(b) ==
  IF task[b].failures = 0 THEN STATUS_OK
  ELSE IF task[b].protocol = Len(PointsOf[CurrentDevice(b)]) THEN STATUS_PROTOCOL_ERROR
  ELSE STATUS_DEGRADED

(* The end of _poll_device: the status of a device from its points.        *)
DeviceResult(b) ==
  LET n == Len(PointsOf[CurrentDevice(b)]) IN
    IF task[b].failures = 0 THEN STATUS_OK
    ELSE IF task[b].protocol = n THEN STATUS_PROTOCOL_ERROR
    ELSE IF task[b].failures = n THEN STATUS_OFFLINE
    ELSE STATUS_DEGRADED

(* A faulty LineAggregate: the devices are not filtered by their line.      *)
LineAggregateAll(b, statuses) == AggregateStatus({statuses[d] : d \in Device})

LineAggregate(b, statuses) == AggregateStatus({statuses[d] : d \in DevicesOn(b)})

(* _record_device_result: the device, its line and the gateway are updated *)
(* and all their registers published in one go.                            *)
RecordDevice(b) ==
  LET d == CurrentDevice(b)
      status == DeviceResult(b)
  IN  /\ Running(b)
      /\ HasDevice(b)
      /\ ~HasPoint(b)
      /\ deviceStatus' = [deviceStatus EXCEPT ![d] = status]
      /\ deviceOnline' = [deviceOnline EXCEPT
           ![d] = CASE status = STATUS_OK -> TRUE
                    [] status = STATUS_OFFLINE -> FALSE
                    [] OTHER -> @]
      /\ deviceCount' = [deviceCount EXCEPT
           ![d].error = task[b].error, ![d].cycles = IncCounter(@, CounterRange)]
      /\ gatewayCount' = [gatewayCount EXCEPT
           !.error = task[b].error, !.cycles = IncCounter(@, CounterRange)]
      /\ busStatus' = [busStatus EXCEPT ![b] = LineAggregate(b, deviceStatus')]
      /\ deviceReg' = [deviceReg EXCEPT ![d] = [status |-> status, count |-> deviceCount'[d]]]
      /\ serviceReg' = [status |-> AggregateStatus({busStatus'[c] : c \in Bus}),
                        count |-> gatewayCount']
      /\ lineReg' = busStatus'
      /\ task' = [task EXCEPT ![b] = StartOfDevice(@.device + 1)]
      /\ UNCHANGED <<loop, healthVars, lineEnv, link>>

(* Faulty variants of FinishCycle: the state of the line is not looked at;  *)
(* it is, the wrong way round; the cycle is counted here, too late to be    *)
(* published.                                                              *)
FinishCycleUnchecked(b) ==
  /\ Running(b)
  /\ ~HasDevice(b)
  /\ busStatus' = [busStatus EXCEPT ![b] = LineAggregate(b, deviceStatus)]
  /\ lineReg' = busStatus'
  /\ loop' = NoTask
  /\ task' = [task EXCEPT ![b] = Asleep]
  /\ UNCHANGED <<healthVars, deviceVars, countVars, serviceReg, lineEnv, link>>

FinishCycleSwapped(b) ==
  /\ Running(b)
  /\ ~HasDevice(b)
  /\ busStatus' = [busStatus EXCEPT
       ![b] = IF isConnected[b] THEN STATUS_DISCONNECTED
                                ELSE LineAggregate(b, deviceStatus)]
  /\ lineReg' = busStatus'
  /\ loop' = NoTask
  /\ task' = [task EXCEPT ![b] = Asleep]
  /\ UNCHANGED <<healthVars, deviceVars, countVars, serviceReg, lineEnv, link>>

FinishCycleCounts(b) ==
  /\ Running(b)
  /\ ~HasDevice(b)
  /\ busStatus' = [busStatus EXCEPT
       ![b] = IF isConnected[b] THEN LineAggregate(b, deviceStatus)
                                ELSE STATUS_DISCONNECTED]
  /\ lineReg' = busStatus'
  /\ gatewayCount' = [gatewayCount EXCEPT !.cycles = IncCounter(@, CounterRange)]
  /\ loop' = NoTask
  /\ task' = [task EXCEPT ![b] = Asleep]
  /\ UNCHANGED <<healthVars, deviceVars, deviceCount, serviceReg, lineEnv, link>>

(* The tail of _poll_bus_once with _update_bus_status, then the sleep.     *)
(* _poll_device handles every error of its points, so the count of crashed *)
(* devices is 0 and so is BusState.consecutive_failures (see BusLifecycle).*)
FinishCycle(b) ==
  /\ Running(b)
  /\ ~HasDevice(b)
  /\ busStatus' = [busStatus EXCEPT
       ![b] = IF isConnected[b] THEN LineAggregate(b, deviceStatus)
                                ELSE STATUS_DISCONNECTED]
  /\ lineReg' = busStatus'
  /\ loop' = NoTask
  /\ task' = [task EXCEPT ![b] = Asleep]
  /\ UNCHANGED <<healthVars, deviceVars, countVars, serviceReg, lineEnv, link>>

-----------------------------------------------------------------------------
(* A faulty WriteAccepted: the channel status is not published.            *)
WriteAcceptedUnpublished(b) ==
  /\ loop = NoTask
  /\ port[b]
  /\ \E d \in DevicesOn(b) : \E p \in PointsIn(d) \cap Writable :
       /\ link[d] \cap {"value", "hash"} # {}
       /\ consecutiveFailures' = [consecutiveFailures EXCEPT ![p] = 0]
       /\ channelStatus' = [channelStatus EXCEPT ![p] = CHANNEL_OK]
  /\ UNCHANGED <<taskVars, recoverySkip, channelReg, idle, polled, deviceVars, countVars,
                 lineVars, lineEnv, link>>

(* The end of _handle_modbus_holding_write for a client's write to a point *)
(* of line b that the device confirmed.  The readback was a value (its     *)
(* hash is not looked at), and the lock of the line was just given back:   *)
(* its poll task sleeps or is about to ask.  The point is healthy from now *)
(* on, but the cycles it still has to be left out are not looked at.       *)
WriteAccepted(b) ==
  /\ loop = NoTask
  /\ port[b]
  /\ \E d \in DevicesOn(b) : \E p \in PointsIn(d) \cap Writable :
       /\ link[d] \cap {"value", "hash"} # {}
       /\ consecutiveFailures' = [consecutiveFailures EXCEPT ![p] = 0]
       /\ channelStatus' = [channelStatus EXCEPT ![p] = CHANNEL_OK]
       /\ channelReg' = [channelReg EXCEPT ![p] = CHANNEL_OK]
  /\ UNCHANGED <<taskVars, recoverySkip, idle, polled, deviceVars, countVars, lineVars,
                 lineEnv, link>>

(* The field: a device is unplugged, powered, disturbed.                   *)
LinkChange(d) ==
  /\ loop = NoTask
  /\ link' \in {[link EXCEPT ![d] = s] : s \in LinkStates \ {link[d]}}
  /\ UNCHANGED <<taskVars, healthVars, deviceVars, countVars, lineVars, lineEnv>>

PollStep(b) ==
  \/ Wake(b)
  \/ SkipPoint(b)
  \/ BeginExchange(b)
  \/ PointValue(b)
  \/ PointEmpty(b)
  \/ PointTimeout(b)
  \/ PointProtocolError(b)
  \/ PointIoError(b)
  \/ RecordDevice(b)
  \/ FinishCycle(b)

Next ==
  \/ \E b \in Bus : PollStep(b)
  \/ \E b \in Bus : WriteAccepted(b)
  \/ \E d \in Device : LinkChange(d)

(* Every sleep ends, an exchange is over after timeout_ms at the latest,   *)
(* and the event loop serves the tasks that are ready in the order they    *)
(* became so.  A task is not ready "all the time" while others run in      *)
(* between, so weak fairness would not say it.  No client has to write.    *)
Fairness == \A b \in Bus : SF_vars(PollStep(b))

Spec == Init /\ [][Next]_vars
FairSpec == Spec /\ Fairness

-----------------------------------------------------------------------------
(* Invariants.                                                             *)

TypeOK ==
  /\ loop \in Bus \cup {NoTask}
  /\ task \in [Bus -> Task]
  /\ consecutiveFailures \in [Point -> 0..FaultAfter]
  /\ channelStatus \in [Point -> ChannelStatus]
  /\ recoverySkip \in [Point -> 0..(RecoveryCycles - 1)]
  /\ channelReg \in [Point -> ChannelStatus]
  /\ idle \in [Point -> Nat]
  /\ polled \in [Point -> ChannelStatus]
  /\ deviceStatus \in [Device -> DeviceStatus]
  /\ deviceOnline \in [Device -> BOOLEAN]
  /\ deviceCount \in [Device -> Counters]
  /\ deviceReg \in [Device -> Registers]
  /\ busStatus \in [Bus -> Status]
  /\ lineReg \in [Bus -> Status]
  /\ gatewayCount \in Counters
  /\ serviceReg \in Registers
  /\ isConnected \in [Bus -> BOOLEAN]
  /\ port \in [Bus -> BOOLEAN]
  /\ link \in [Device -> LinkStates]

(* "4 failed, reduced polling": a point is failed exactly from FaultAfter   *)
(* failures in a row on; a point whose last exchange made it failed has     *)
(* been left alone for RecoveryCycles - 1 cycles when its next one is due,  *)
(* and every other point is polled in every cycle.  An accepted write ends  *)
(* the failed status in between, and neither ends nor prolongs the rest.    *)
(* (service.py:323-338, 735-742, 919-928)                                   *)
ReducedPolling ==
  \A p \in Point :
    /\ channelStatus[p] = CHANNEL_FAILED <=> consecutiveFailures[p] = FaultAfter
    /\ idle[p] + recoverySkip[p] =
         IF polled[p] = CHANNEL_FAILED THEN RecoveryCycles - 1 ELSE 0
    /\ channelStatus[p] # polled[p] => p \in Writable /\ channelStatus[p] = CHANNEL_OK

(* The channel status register shows the status of its point, with two      *)
(* exceptions: before the first exchange, and when a write was accepted     *)
(* while the point was left out: the next cycle that leaves it out          *)
(* publishes it as failed although it is ok.  (service.py:324-330, 735-742) *)
NeverAsked(p) == channelStatus[p] = CHANNEL_COMM_ERROR /\ consecutiveFailures[p] = 0

ChannelShowsPoint ==
  \A p \in Point :
    \/ channelReg[p] = channelStatus[p]
    \/ NeverAsked(p)
    \/ /\ channelReg[p] = CHANNEL_FAILED /\ channelStatus[p] = CHANNEL_OK
       /\ polled[p] = CHANNEL_FAILED /\ idle[p] > 0

(* The status register of a connected line is the aggregate of the status   *)
(* registers of its devices, whatever the other line publishes in between.  *)
(* (service.py:551-565, 567-617)                                            *)
LineAgreesWithDevices ==
  \A b \in Bus : isConnected[b] =>
    lineReg[b] = AggregateStatus({deviceReg[d].status : d \in DevicesOn(b)})

(* HR1 of SlaveID 1 is the aggregate of the line status registers, as long  *)
(* as every line is connected.  (With a disconnected line it may not be:    *)
(* _update_bus_status publishes the line and leaves HR1 as it was.)         *)
ServiceAgreesWithLines ==
  (\A b \in Bus : isConnected[b]) =>
    serviceReg.status = AggregateStatus({lineReg[b] : b \in Bus})

(* The status of a device that is not being polled right now is the one its *)
(* points had when the poll left them: ok iff all of them had answered,     *)
(* degraded iff only some had.  A write that was accepted since then shows  *)
(* in the point and not in the device.  (service.py:350-360, 735-742)       *)
BeingPolled(d) ==
  \E b \in Bus : /\ task[b].pc # "asleep"
                 /\ HasDevice(b)
                 /\ CurrentDevice(b) = d

Fine == {CHANNEL_OK, CHANNEL_DISABLED}

DeviceShowsPoints ==
  \A d \in Device : ~BeingPolled(d) =>
    LET answered == {p \in PointsIn(d) : polled[p] \in Fine} IN
      /\ deviceReg[d].status = STATUS_OK <=> answered = PointsIn(d)
      /\ deviceReg[d].status \in {STATUS_OFFLINE, STATUS_PROTOCOL_ERROR} <=> answered = {}
      /\ deviceReg[d].status = STATUS_PROTOCOL_ERROR =>
           \A p \in PointsIn(d) : polled[p] \in {CHANNEL_PROTOCOL_ERROR, CHANNEL_FAILED}

(* The gateway's counters are the sums of the devices' counters, also after *)
(* they wrapped: the two increments are one step whatever the other line    *)
(* does.  Timeouts are left out: an I/O error is the gateway's alone.       *)
(* (service.py:445-451, 504-510, 574-585)                                   *)
SumOf(count, field) == MapThenSumSet(LAMBDA d : count[d][field], Device)
TotalOf(field) == SumOf(deviceCount, field) % CounterRange

CounterSums ==
  \A field \in {"success", "protocol", "cycles"} : gatewayCount[field] = TotalOf(field)

(* While all poll tasks sleep, no published telemetry is behind: neither    *)
(* the gateway's, which every line overwrites, nor a device's.              *)
(* (service.py:586-606)                                                     *)
QuietTelemetry ==
  (\A b \in Bus : task[b].pc = "asleep") =>
    /\ serviceReg.count = gatewayCount
    /\ \A d \in Device : deviceReg[d].count = deviceCount[d]

-----------------------------------------------------------------------------
(* Action properties.                                                      *)

(* Whenever the registers of a device are published, the error code goes    *)
(* with the status: none with ok, a protocol error with protocol error, and *)
(* none with any other status only if all its bad points were left out.     *)
(* (service.py:323-367)                                                     *)
ErrorExplained(d) ==
  LET status == deviceReg'[d].status
      error == deviceReg'[d].count.error
  IN  /\ status = STATUS_OK => error = ERROR_NONE
      /\ status = STATUS_PROTOCOL_ERROR => error \in ProtocolError
      /\ (error = ERROR_NONE /\ status # STATUS_OK) =>
           \A p \in PointsIn(d) :
             \/ polled[p] \in Fine
             \/ polled[p] = CHANNEL_FAILED /\ idle[p] > 0

ErrorExplainsStatus ==
  [][\A d \in Device : deviceReg'[d] # deviceReg[d] => ErrorExplained(d)]_vars

-----------------------------------------------------------------------------
(* Liveness.                                                               *)

Good == {"value", "empty"}
Silent == {"timeout", "io"}
Garbled == {"bad_flag", "hash", "decode"}

Polled(d) == \E b \in Bus : d \in DevicesOn(b) /\ port[b]

(* A device that answers again is reported ok again, whatever happened to   *)
(* it before and whatever the other devices and the other line do.          *)
GoodDeviceIsOk ==
  \A d \in Device :
    (Polled(d) /\ <>[](link[d] \subseteq Good)) => <>[](deviceReg[d].status = STATUS_OK)

(* A device that stays silent is reported offline and stays so, through     *)
(* every cycle of the reduced polling.                                      *)
SilentDeviceIsOffline ==
  \A d \in Device :
    (Polled(d) /\ <>[](link[d] \subseteq Silent)) => <>[](deviceReg[d].status = STATUS_OFFLINE)

(* A device that only sends garbage is reported as such or as offline: the  *)
(* points that are left out do not count as protocol errors.                *)
GarbledDeviceIsNotOk ==
  \A d \in Device :
    (Polled(d) /\ <>[](link[d] \subseteq Garbled)) =>
      <>[](deviceReg[d].status \in {STATUS_PROTOCOL_ERROR, STATUS_OFFLINE})

(* A line that is not connected keeps coming back to status 5.              *)
DisconnectedLineIsShown ==
  \A b \in Bus :
    (~isConnected[b] /\ DevicesOf[b] # <<>>) => []<>(lineReg[b] = STATUS_DISCONNECTED)

(* README.md:234: on a physical break of the line its status register shows *)
(* 5.  The line was connected and none of its devices can be reached now;   *)
(* the register is read when the event loop is at rest.                     *)
BrokenLineShowsDisconnected ==
  \A b \in Bus :
    (isConnected[b] /\ DevicesOf[b] # <<>> /\ <>[](\A d \in DevicesOn(b) : link[d] = {"io"}))
      => <>[](loop = NoTask => lineReg[b] = STATUS_DISCONNECTED)

=============================================================================
