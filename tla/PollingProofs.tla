----------------------------- MODULE PollingProofs -----------------------------
(***************************************************************************)
(* Proofs about Polling for every layout of lines, devices and points,     *)
(* every threshold, every recovery interval and every counter width.       *)
(*                                                                         *)
(* IInv strengthens the invariants TLC checks with what the steps need:    *)
(* the point of a running exchange is not skipping, and the registers of   *)
(* lines and devices show the state behind them.                           *)
(***************************************************************************)
EXTENDS Polling, DataInduction

ExchangeInv ==
  \A b \in Bus : task[b].pc = "exchange" =>
    HasPoint(b) /\ recoverySkip[CurrentPoint(b)] = 0

StatusInv ==
  /\ lineReg = busStatus
  /\ \A d \in Device : deviceReg[d].status = deviceStatus[d]
  /\ \A b \in Bus : isConnected[b] => busStatus[b] = LineAggregate(b, deviceStatus)

IInv ==
  /\ TypeOK
  /\ ExchangeInv
  /\ ReducedPolling
  /\ StatusInv
  /\ ServiceAgreesWithLines

-----------------------------------------------------------------------------
(* Facts about the operators.                                              *)

(* A counter stays inside its register.                                    *)
LEMMA IncCounterRange ==
  ASSUME NEW v \in 0..(CounterRange - 1)
  PROVE  IncCounter(v, CounterRange) \in 0..(CounterRange - 1)
  BY PollingAssumption DEF IncCounter

(* Aggregating never invents a disconnected line.                          *)
LEMMA AggregateStatusType ==
  ASSUME NEW S
  PROVE  AggregateStatus(S) \in DeviceStatus
  BY DEF AggregateStatus, DeviceStatus, STATUS_OK, STATUS_DEGRADED, STATUS_OFFLINE,
         STATUS_PROTOCOL_ERROR

(* The positions of a poll task name a device of its line ...              *)
LEMMA CurrentDeviceType ==
  ASSUME TypeOK, NEW b \in Bus, HasDevice(b)
  PROVE  CurrentDevice(b) \in Device /\ CurrentDevice(b) \in DevicesOn(b)
<1>1. task[b].device \in 1..Len(DevicesOf[b])
  BY DEF TypeOK, Task, HasDevice
<1>2. DevicesOf[b] \in Seq(Device)
  BY PollingAssumption
<1> QED
  BY <1>1, <1>2 DEF CurrentDevice, DevicesOn

(* ... and a point of that device.                                         *)
LEMMA CurrentPointType ==
  ASSUME TypeOK, NEW b \in Bus, HasPoint(b)
  PROVE  CurrentDevice(b) \in Device /\ CurrentPoint(b) \in Point
<1>1. HasDevice(b)
  BY DEF HasPoint
<1>2. CurrentDevice(b) \in Device
  BY <1>1, CurrentDeviceType
<1>3. task[b].point \in 1..Len(PointsOf[CurrentDevice(b)])
  BY DEF TypeOK, Task, HasPoint
<1>4. PointsOf[CurrentDevice(b)] \in Seq(Point)
  BY <1>2, PollingAssumption
<1> QED
  BY <1>2, <1>3, <1>4 DEF CurrentPoint

(* The lists of two lines share no device and no list repeats one.         *)
LEMMA DevicesOfApart ==
  \A b, c \in Bus : \A i \in 1..Len(DevicesOf[b]) : \A j \in 1..Len(DevicesOf[c]) :
     DevicesOf[b][i] = DevicesOf[c][j] => b = c /\ i = j
BY PollingAssumption

LEMMA Recovery == RecoveryCycles \in Nat \ {0}
BY PollingAssumption

(* Two tasks never are at the same point.                                  *)
LEMMA PointsApart ==
  ASSUME TypeOK, NEW b \in Bus, NEW c \in Bus, b # c, HasPoint(b), HasPoint(c)
  PROVE  CurrentPoint(b) # CurrentPoint(c)
<1>1. ASSUME NEW k \in {b, c} PROVE task[k].device \in 1..Len(DevicesOf[k])
  <2>1. HasDevice(k) /\ task[k] \in Task
    BY DEF TypeOK, HasPoint
  <2> QED
    BY <2>1 DEF Task, HasDevice
<1>2. CurrentDevice(b) # CurrentDevice(c)
  BY <1>1, DevicesOfApart DEF CurrentDevice
<1>3. CurrentDevice(b) \in Device /\ CurrentDevice(c) \in Device
  BY CurrentPointType
<1>4. /\ task[b].point \in 1..Len(PointsOf[CurrentDevice(b)])
      /\ task[c].point \in 1..Len(PointsOf[CurrentDevice(c)])
  BY DEF TypeOK, Task, HasPoint
<1> QED
  BY <1>2, <1>3, <1>4, PollingAssumption DEF CurrentPoint

(* A device of one line is no device of another.                           *)
LEMMA LinesApart ==
  ASSUME NEW b \in Bus, NEW c \in Bus, b # c, NEW d \in DevicesOn(b)
  PROVE  d \notin DevicesOn(c)
  BY PollingAssumption DEF DevicesOn

-----------------------------------------------------------------------------
(* Type correctness.                                                       *)

LEMMA TypeInit == Init => TypeOK
<1> SUFFICES ASSUME Init PROVE TypeOK
  OBVIOUS
<1>1. NoCounts \in Counters
  BY PollingAssumption DEF NoCounts, Counters, ErrorCode, ERROR_NONE
<1>2. task \in [Bus -> Task]
  BY DEF Init, Task, Asleep, ErrorCode, ERROR_NONE
<1>3. deviceReg \in [Device -> Registers] /\ serviceReg \in Registers
  BY <1>1 DEF Init, Registers, Status, STATUS_OFFLINE
<1>4. /\ consecutiveFailures \in [Point -> 0..FaultAfter]
      /\ channelStatus \in [Point -> ChannelStatus]
      /\ recoverySkip \in [Point -> 0..(RecoveryCycles - 1)]
      /\ channelReg \in [Point -> ChannelStatus]
      /\ idle \in [Point -> Nat]
      /\ polled \in [Point -> ChannelStatus]
  BY PollingAssumption DEF Init, ChannelStatus, CHANNEL_COMM_ERROR
<1>5. /\ deviceStatus \in [Device -> DeviceStatus]
      /\ deviceOnline \in [Device -> BOOLEAN]
      /\ deviceCount \in [Device -> Counters]
      /\ busStatus \in [Bus -> Status]
      /\ lineReg \in [Bus -> Status]
  BY <1>1 DEF Init, DeviceStatus, Status, STATUS_OFFLINE
<1> QED
  BY <1>1, <1>2, <1>3, <1>4, <1>5 DEF Init, TypeOK

(* One lemma per group of variables an action changes.                     *)
LEMMA ResumeType ==
  ASSUME TypeOK, NEW b \in Bus, NEW error \in ErrorCode, ResumeAfter(b, error)
  PROVE  loop' \in Bus \cup {NoTask} /\ task' \in [Bus -> Task]
  BY SMTT(30) DEF TypeOK, ResumeAfter, Task, ErrorCode

LEMMA HealthyType ==
  ASSUME TypeOK, NEW p \in Point, NEW status \in ChannelStatus, Healthy(p, status)
  PROVE  /\ consecutiveFailures' \in [Point -> 0..FaultAfter]
         /\ channelStatus' \in [Point -> ChannelStatus]
         /\ recoverySkip' \in [Point -> 0..(RecoveryCycles - 1)]
         /\ channelReg' \in [Point -> ChannelStatus]
         /\ idle' \in [Point -> Nat]
         /\ polled' \in [Point -> ChannelStatus]
  BY PollingAssumption DEF TypeOK, Healthy

LEMMA FailedType ==
  ASSUME TypeOK, NEW p \in Point, NEW status \in ChannelStatus, Failed(p, status)
  PROVE  /\ consecutiveFailures' \in [Point -> 0..FaultAfter]
         /\ channelStatus' \in [Point -> ChannelStatus]
         /\ recoverySkip' \in [Point -> 0..(RecoveryCycles - 1)]
         /\ channelReg' \in [Point -> ChannelStatus]
         /\ idle' \in [Point -> Nat]
         /\ polled' \in [Point -> ChannelStatus]
  BY PollingAssumption DEF TypeOK, Failed, ChannelStatus, CHANNEL_FAILED

(* What an accepted write does, for the point it was about.                *)
LEMMA Written ==
  ASSUME NEW b \in Bus, WriteAccepted(b)
  PROVE  \E p \in Point \cap Writable :
           /\ consecutiveFailures' = [consecutiveFailures EXCEPT ![p] = 0]
           /\ channelStatus' = [channelStatus EXCEPT ![p] = CHANNEL_OK]
           /\ channelReg' = [channelReg EXCEPT ![p] = CHANNEL_OK]
           /\ UNCHANGED <<recoverySkip, idle, polled>>
<1>1. Writable \subseteq Point
  BY PollingAssumption
<1> QED
  BY <1>1 DEF WriteAccepted

LEMMA WrittenType ==
  ASSUME TypeOK, NEW b \in Bus, WriteAccepted(b)
  PROVE  /\ consecutiveFailures' \in [Point -> 0..FaultAfter]
         /\ channelStatus' \in [Point -> ChannelStatus]
         /\ channelReg' \in [Point -> ChannelStatus]
<1>1. CHANNEL_OK \in ChannelStatus /\ 0 \in 0..FaultAfter
  BY PollingAssumption DEF CHANNEL_OK, ChannelStatus
<1> QED
  BY <1>1, Written DEF TypeOK

LEMMA CountType ==
  ASSUME TypeOK, NEW d \in Device, NEW field \in {"success", "timeout", "protocol"},
         CountBoth(d, field)
  PROVE  deviceCount' \in [Device -> Counters] /\ gatewayCount' \in Counters
  BY IncCounterRange DEF TypeOK, CountBoth, Counters

LEMMA DeviceResultType ==
  ASSUME NEW b \in Bus
  PROVE  DeviceResult(b) \in DeviceStatus
  BY DEF DeviceResult, DeviceStatus, STATUS_OK, STATUS_PROTOCOL_ERROR, STATUS_OFFLINE,
         STATUS_DEGRADED

LEMMA RecordType ==
  ASSUME TypeOK, NEW b \in Bus, RecordDevice(b)
  PROVE  TypeOK'
<1> DEFINE d == CurrentDevice(b)
<1>1. d \in Device
  BY CurrentDeviceType DEF RecordDevice
<1>2. DeviceResult(b) \in DeviceStatus /\ DeviceResult(b) \in Status
  BY DeviceResultType DEF DeviceStatus, Status
<1>3. deviceStatus' \in [Device -> DeviceStatus] /\ deviceOnline' \in [Device -> BOOLEAN]
  BY <1>2 DEF TypeOK, RecordDevice
<1>4. task[b].error \in ErrorCode
  BY DEF TypeOK, Task
<1>5. deviceCount' \in [Device -> Counters] /\ gatewayCount' \in Counters
  BY <1>1, <1>4, IncCounterRange DEF TypeOK, RecordDevice, Counters
<1>6. busStatus' \in [Bus -> Status] /\ lineReg' \in [Bus -> Status]
  <2>1. LineAggregate(b, deviceStatus') \in Status
    BY AggregateStatusType DEF LineAggregate, DeviceStatus, Status
  <2> QED
    BY <2>1 DEF TypeOK, RecordDevice
<1>7. deviceReg' \in [Device -> Registers]
  <2>1. [status |-> DeviceResult(b), count |-> deviceCount'[d]] \in Registers
    BY <1>1, <1>2, <1>5 DEF Registers
  <2> QED
    BY <2>1 DEF TypeOK, RecordDevice
<1>8. serviceReg' \in Registers
  <2>1. AggregateStatus({busStatus'[c] : c \in Bus}) \in Status
    BY AggregateStatusType DEF DeviceStatus, Status
  <2> QED
    BY <2>1, <1>5 DEF RecordDevice, Registers
<1>9. task' \in [Bus -> Task]
  <2>1. StartOfDevice(task[b].device + 1) \in Task
    BY DEF TypeOK, Task, StartOfDevice, ErrorCode, ERROR_NONE
  <2> QED
    BY <2>1 DEF TypeOK, RecordDevice
<1> QED
  BY <1>3, <1>5, <1>6, <1>7, <1>8, <1>9
     DEF TypeOK, RecordDevice, healthVars, lineEnv

LEMMA TypeStep == TypeOK /\ ExchangeInv /\ [Next]_vars => TypeOK'
<1> SUFFICES ASSUME TypeOK, ExchangeInv, [Next]_vars PROVE TypeOK'
  OBVIOUS
<1> USE DEF healthVars, deviceVars, countVars, lineVars, lineEnv, taskVars
<1>1. ASSUME NEW b \in Bus, Wake(b) PROVE TypeOK'
  <2>1. StartOfDevice(1) \in Task
    BY DEF Task, StartOfDevice, ErrorCode, ERROR_NONE
  <2> QED
    BY <1>1, <2>1 DEF TypeOK, Wake
<1>2. ASSUME NEW b \in Bus, SkipPoint(b) PROVE TypeOK'
  <2>1. CurrentPoint(b) \in Point
    BY <1>2, CurrentPointType DEF SkipPoint
  <2>2. /\ recoverySkip' \in [Point -> 0..(RecoveryCycles - 1)]
        /\ channelReg' \in [Point -> ChannelStatus]
        /\ idle' \in [Point -> Nat]
    BY <1>2, <2>1, Recovery
       DEF TypeOK, SkipPoint, ChannelStatus, CHANNEL_FAILED
  <2>3. task' \in [Bus -> Task]
    BY <1>2, SMTT(30) DEF TypeOK, SkipPoint, Task
  <2> QED
    BY <1>2, <2>2, <2>3 DEF TypeOK, SkipPoint
<1>3. ASSUME NEW b \in Bus, BeginExchange(b) PROVE TypeOK'
  <2>1. task[b] \in Task
    BY DEF TypeOK
  <2>2. [task[b] EXCEPT !.pc = "exchange"] \in Task
    BY <2>1 DEF Task
  <2>3. task' = [task EXCEPT ![b] = [task[b] EXCEPT !.pc = "exchange"]]
    BY <1>3 DEF BeginExchange
  <2>4. task' \in [Bus -> Task]
    BY <2>2, <2>3 DEF TypeOK
  <2> QED
    BY <1>3, <2>4 DEF TypeOK, BeginExchange
<1>4. ASSUME NEW b \in Bus, task[b].pc = "exchange"
      PROVE  CurrentDevice(b) \in Device /\ CurrentPoint(b) \in Point
  BY <1>4, CurrentPointType DEF ExchangeInv
<1>5. ASSUME NEW b \in Bus, PointValue(b) PROVE TypeOK'
  <2>1. task[b].pc = "exchange"
    BY <1>5 DEF PointValue, Replied
  <2>2. ERROR_NONE \in ErrorCode /\ CHANNEL_OK \in ChannelStatus
    BY DEF ERROR_NONE, ErrorCode, CHANNEL_OK, ChannelStatus
  <2> QED
    BY <1>4, <1>5, <2>1, <2>2, ResumeType, HealthyType, CountType DEF TypeOK, PointValue
<1>6. ASSUME NEW b \in Bus, PointEmpty(b) PROVE TypeOK'
  <2>1. task[b].pc = "exchange"
    BY <1>6 DEF PointEmpty, Replied
  <2>2. ERROR_NONE \in ErrorCode /\ CHANNEL_DISABLED \in ChannelStatus
    BY DEF ERROR_NONE, ErrorCode, CHANNEL_DISABLED, ChannelStatus
  <2> QED
    BY <1>4, <1>6, <2>1, <2>2, ResumeType, HealthyType DEF TypeOK, PointEmpty
<1>7. ASSUME NEW b \in Bus, PointTimeout(b) PROVE TypeOK'
  <2>1. task[b].pc = "exchange"
    BY <1>7 DEF PointTimeout, Replied
  <2>2. ERROR_TIMEOUT \in ErrorCode /\ CHANNEL_COMM_ERROR \in ChannelStatus
    BY DEF ERROR_TIMEOUT, ErrorCode, CHANNEL_COMM_ERROR, ChannelStatus
  <2> QED
    BY <1>4, <1>7, <2>1, <2>2, ResumeType, FailedType, CountType DEF TypeOK, PointTimeout
<1>8. ASSUME NEW b \in Bus, PointProtocolError(b) PROVE TypeOK'
  <2>1. PICK o \in {"bad_flag", "hash", "decode"} :
          /\ Replied(b, o)
          /\ ResumeAfter(b, ProtocolErrorOf(o))
          /\ Failed(CurrentPoint(b), CHANNEL_PROTOCOL_ERROR)
          /\ CountBoth(CurrentDevice(b), "protocol")
          /\ UNCHANGED <<deviceVars, lineVars, lineEnv, link>>
    BY <1>8 DEF PointProtocolError
  <2>2. task[b].pc = "exchange"
    BY <2>1 DEF Replied
  <2>3. ProtocolErrorOf(o) \in ErrorCode /\ CHANNEL_PROTOCOL_ERROR \in ChannelStatus
    BY DEF ProtocolErrorOf, ErrorCode, ERROR_BAD_FLAG, ERROR_HASH_MISMATCH, ERROR_DECODE,
           CHANNEL_PROTOCOL_ERROR, ChannelStatus
  <2> QED
    BY <1>4, <2>1, <2>2, <2>3, ResumeType, FailedType, CountType DEF TypeOK
<1>9. ASSUME NEW b \in Bus, PointIoError(b) PROVE TypeOK'
  <2>1. task[b].pc = "exchange"
    BY <1>9 DEF PointIoError, Replied
  <2>2. ERROR_IO \in ErrorCode /\ CHANNEL_COMM_ERROR \in ChannelStatus
    BY DEF ERROR_IO, ErrorCode, CHANNEL_COMM_ERROR, ChannelStatus
  <2>3. gatewayCount' \in Counters
    BY <1>9, IncCounterRange DEF TypeOK, PointIoError, Counters
  <2> QED
    BY <1>4, <1>9, <2>1, <2>2, <2>3, ResumeType, FailedType DEF TypeOK, PointIoError
<1>10. ASSUME NEW b \in Bus, RecordDevice(b) PROVE TypeOK'
  BY <1>10, RecordType
<1>11. ASSUME NEW b \in Bus, FinishCycle(b) PROVE TypeOK'
  <2>1. LineAggregate(b, deviceStatus) \in Status /\ STATUS_DISCONNECTED \in Status
    BY AggregateStatusType DEF LineAggregate, DeviceStatus, Status, STATUS_DISCONNECTED
  <2>2. busStatus' \in [Bus -> Status] /\ lineReg' \in [Bus -> Status]
    BY <1>11, <2>1 DEF TypeOK, FinishCycle
  <2>3. Asleep \in Task
    BY DEF Asleep, Task, ErrorCode, ERROR_NONE
  <2>4. task' \in [Bus -> Task]
    BY <1>11, <2>3 DEF TypeOK, FinishCycle
  <2> QED
    BY <1>11, <2>2, <2>4 DEF TypeOK, FinishCycle
<1>12. ASSUME NEW d \in Device, LinkChange(d) PROVE TypeOK'
  BY <1>12 DEF TypeOK, LinkChange
<1>13. ASSUME NEW b \in Bus, WriteAccepted(b) PROVE TypeOK'
  BY <1>13, WrittenType DEF TypeOK, WriteAccepted
<1>14. CASE UNCHANGED vars
  BY <1>14 DEF TypeOK, vars
<1> QED
  BY <1>1, <1>2, <1>3, <1>5, <1>6, <1>7, <1>8, <1>9, <1>10, <1>11, <1>12, <1>13, <1>14
     DEF Next, PollStep

-----------------------------------------------------------------------------
(* Reduced polling.                                                        *)

LEMMA HealthyReduced ==
  ASSUME TypeOK, ReducedPolling, NEW p \in Point, NEW status \in {CHANNEL_OK, CHANNEL_DISABLED},
         recoverySkip[p] = 0, Healthy(p, status)
  PROVE  ReducedPolling'
  BY PollingAssumption
     DEF TypeOK, ReducedPolling, Healthy, CHANNEL_OK, CHANNEL_DISABLED, CHANNEL_FAILED

LEMMA FailedReduced ==
  ASSUME TypeOK, ReducedPolling, NEW p \in Point,
         NEW transient \in {CHANNEL_COMM_ERROR, CHANNEL_PROTOCOL_ERROR},
         recoverySkip[p] = 0, Failed(p, transient)
  PROVE  ReducedPolling'
  BY PollingAssumption
     DEF TypeOK, ReducedPolling, Failed, CHANNEL_COMM_ERROR, CHANNEL_PROTOCOL_ERROR, CHANNEL_FAILED

LEMMA WrittenReduced ==
  ASSUME TypeOK, ReducedPolling, NEW b \in Bus, WriteAccepted(b)
  PROVE  ReducedPolling'
<1>1. PICK p \in Point \cap Writable :
        /\ consecutiveFailures' = [consecutiveFailures EXCEPT ![p] = 0]
        /\ channelStatus' = [channelStatus EXCEPT ![p] = CHANNEL_OK]
        /\ UNCHANGED <<recoverySkip, idle, polled>>
  BY Written
<1>2. FaultAfter # 0 /\ CHANNEL_OK # CHANNEL_FAILED
  BY PollingAssumption DEF CHANNEL_OK, CHANNEL_FAILED
<1>3. ASSUME NEW q \in Point
      PROVE  \/ q = p /\ channelStatus'[q] = CHANNEL_OK /\ consecutiveFailures'[q] = 0
             \/ /\ channelStatus'[q] = channelStatus[q]
                /\ consecutiveFailures'[q] = consecutiveFailures[q]
  BY <1>1 DEF TypeOK
<1> QED
  BY <1>1, <1>2, <1>3 DEF ReducedPolling

LEMMA ReducedStep ==
  TypeOK /\ ExchangeInv /\ ReducedPolling /\ [Next]_vars => ReducedPolling'
<1> SUFFICES ASSUME TypeOK, ExchangeInv, ReducedPolling, [Next]_vars PROVE ReducedPolling'
  OBVIOUS
<1>1. ASSUME NEW b \in Bus, task[b].pc = "exchange"
      PROVE  CurrentPoint(b) \in Point /\ recoverySkip[CurrentPoint(b)] = 0
  BY <1>1, CurrentPointType DEF ExchangeInv
<1>2. ASSUME NEW b \in Bus, SkipPoint(b) PROVE ReducedPolling'
  <2>1. CurrentPoint(b) \in Point
    BY <1>2, CurrentPointType DEF SkipPoint
  <2> QED
    BY <1>2, <2>1, PollingAssumption DEF TypeOK, ReducedPolling, SkipPoint
<1>3. ASSUME NEW b \in Bus, PointValue(b) PROVE ReducedPolling'
  BY <1>1, <1>3, HealthyReduced DEF PointValue, Replied
<1>4. ASSUME NEW b \in Bus, PointEmpty(b) PROVE ReducedPolling'
  BY <1>1, <1>4, HealthyReduced DEF PointEmpty, Replied
<1>5. ASSUME NEW b \in Bus, PointTimeout(b) PROVE ReducedPolling'
  BY <1>1, <1>5, FailedReduced DEF PointTimeout, Replied
<1>6. ASSUME NEW b \in Bus, PointProtocolError(b) PROVE ReducedPolling'
  BY <1>1, <1>6, FailedReduced DEF PointProtocolError, Replied
<1>7. ASSUME NEW b \in Bus, PointIoError(b) PROVE ReducedPolling'
  BY <1>1, <1>7, FailedReduced DEF PointIoError, Replied
<1>8. ASSUME NEW b \in Bus, WriteAccepted(b) PROVE ReducedPolling'
  BY <1>8, WrittenReduced
<1>9. ASSUME UNCHANGED healthVars PROVE ReducedPolling'
  BY <1>9 DEF ReducedPolling, healthVars
<1> QED
  BY <1>2, <1>3, <1>4, <1>5, <1>6, <1>7, <1>8, <1>9
     DEF Next, PollStep, Wake, BeginExchange, RecordDevice, FinishCycle, LinkChange, vars

-----------------------------------------------------------------------------
(* The channel status registers.                                           *)

Shown(p) ==
  \/ channelReg[p] = channelStatus[p]
  \/ NeverAsked(p)
  \/ /\ channelReg[p] = CHANNEL_FAILED /\ channelStatus[p] = CHANNEL_OK
     /\ polled[p] = CHANNEL_FAILED /\ idle[p] > 0

(* Every action publishes the point it is about or leaves it alone; one     *)
(* that leaves a point out publishes it as failed.                          *)
LEMMA ShownPoint ==
  ASSUME ChannelShowsPoint, NEW p \in Point,
         \A q \in Point : q # p =>
           /\ channelReg'[q] = channelReg[q] /\ channelStatus'[q] = channelStatus[q]
           /\ consecutiveFailures'[q] = consecutiveFailures[q]
           /\ polled'[q] = polled[q] /\ idle'[q] = idle[q],
         Shown(p)'
  PROVE  ChannelShowsPoint'
<1>1. ASSUME NEW q \in Point, q # p PROVE Shown(q)'
  BY <1>1 DEF ChannelShowsPoint, Shown, NeverAsked
<1> QED
  BY <1>1 DEF ChannelShowsPoint, Shown

LEMMA HealthyShown ==
  ASSUME TypeOK, ChannelShowsPoint, NEW p \in Point, NEW status, Healthy(p, status)
  PROVE  ChannelShowsPoint'
<1>1. channelReg'[p] = status /\ channelStatus'[p] = status
  BY DEF TypeOK, Healthy
<1>2. \A q \in Point : q # p =>
        /\ channelReg'[q] = channelReg[q] /\ channelStatus'[q] = channelStatus[q]
        /\ consecutiveFailures'[q] = consecutiveFailures[q]
        /\ polled'[q] = polled[q] /\ idle'[q] = idle[q]
  BY DEF TypeOK, Healthy
<1> QED
  BY <1>1, <1>2, ShownPoint DEF Shown

LEMMA FailedShown ==
  ASSUME TypeOK, ChannelShowsPoint, NEW p \in Point, NEW transient, Failed(p, transient)
  PROVE  ChannelShowsPoint'
<1>1. channelReg'[p] = channelStatus'[p]
  BY DEF TypeOK, Failed
<1>2. \A q \in Point : q # p =>
        /\ channelReg'[q] = channelReg[q] /\ channelStatus'[q] = channelStatus[q]
        /\ consecutiveFailures'[q] = consecutiveFailures[q]
        /\ polled'[q] = polled[q] /\ idle'[q] = idle[q]
  BY DEF TypeOK, Failed
<1> QED
  BY <1>1, <1>2, ShownPoint DEF Shown

LEMMA ShowsStep ==
  TypeOK /\ ExchangeInv /\ ReducedPolling /\ ChannelShowsPoint /\ [Next]_vars
    => ChannelShowsPoint'
<1> SUFFICES ASSUME TypeOK, ExchangeInv, ReducedPolling, ChannelShowsPoint, [Next]_vars
             PROVE  ChannelShowsPoint'
  OBVIOUS
<1>1. ASSUME NEW b \in Bus, SkipPoint(b) PROVE ChannelShowsPoint'
  <2>1. PICK p \in Point : p = CurrentPoint(b)
    BY <1>1, CurrentPointType DEF SkipPoint
  <2>2. polled[p] = CHANNEL_FAILED
    BY <1>1, <2>1, PollingAssumption DEF SkipPoint, ReducedPolling, TypeOK
  <2>3. channelStatus[p] \in {CHANNEL_FAILED, CHANNEL_OK}
    BY <2>1, <2>2 DEF ReducedPolling
  <2>4. /\ channelReg'[p] = CHANNEL_FAILED /\ idle'[p] > 0
        /\ channelStatus' = channelStatus /\ polled' = polled
        /\ consecutiveFailures' = consecutiveFailures
    BY <1>1, <2>1 DEF SkipPoint, TypeOK
  <2>5. \A q \in Point : q # p => channelReg'[q] = channelReg[q] /\ idle'[q] = idle[q]
    BY <1>1, <2>1 DEF SkipPoint, TypeOK
  <2>6. /\ channelStatus'[p] \in {CHANNEL_FAILED, CHANNEL_OK}
        /\ polled'[p] = CHANNEL_FAILED
    BY <2>2, <2>3, <2>4
  <2>7. Shown(p)'
    BY <2>4, <2>6 DEF Shown
  <2>8. \A q \in Point : q # p =>
          /\ channelReg'[q] = channelReg[q] /\ channelStatus'[q] = channelStatus[q]
          /\ consecutiveFailures'[q] = consecutiveFailures[q]
          /\ polled'[q] = polled[q] /\ idle'[q] = idle[q]
    BY <2>4, <2>5
  <2> QED
    BY <2>7, <2>8, ShownPoint
<1>2. ASSUME NEW b \in Bus, WriteAccepted(b) PROVE ChannelShowsPoint'
  <2>1. PICK p \in Point \cap Writable :
          /\ consecutiveFailures' = [consecutiveFailures EXCEPT ![p] = 0]
          /\ channelStatus' = [channelStatus EXCEPT ![p] = CHANNEL_OK]
          /\ channelReg' = [channelReg EXCEPT ![p] = CHANNEL_OK]
          /\ UNCHANGED <<recoverySkip, idle, polled>>
    BY <1>2, Written
  <2>2. channelReg'[p] = CHANNEL_OK /\ channelStatus'[p] = CHANNEL_OK
    BY <2>1 DEF TypeOK
  <2>3. \A q \in Point : q # p =>
          /\ channelReg'[q] = channelReg[q] /\ channelStatus'[q] = channelStatus[q]
          /\ consecutiveFailures'[q] = consecutiveFailures[q]
    BY <2>1 DEF TypeOK
  <2> QED
    BY <2>1, <2>2, <2>3, ShownPoint DEF Shown
<1>3. ASSUME NEW b \in Bus, task[b].pc = "exchange"
      PROVE  CurrentPoint(b) \in Point
  BY <1>3, CurrentPointType DEF ExchangeInv
<1>4. ASSUME NEW b \in Bus, PointValue(b) \/ PointEmpty(b) PROVE ChannelShowsPoint'
  BY <1>3, <1>4, HealthyShown DEF PointValue, PointEmpty, Replied
<1>5. ASSUME NEW b \in Bus, PointTimeout(b) \/ PointProtocolError(b) \/ PointIoError(b)
      PROVE  ChannelShowsPoint'
  BY <1>3, <1>5, FailedShown DEF PointTimeout, PointProtocolError, PointIoError, Replied
<1>6. ASSUME UNCHANGED healthVars PROVE ChannelShowsPoint'
  BY <1>6 DEF ChannelShowsPoint, NeverAsked, healthVars
<1> QED
  BY <1>1, <1>2, <1>4, <1>5, <1>6
     DEF Next, PollStep, Wake, BeginExchange, RecordDevice, FinishCycle, LinkChange, vars

-----------------------------------------------------------------------------
(* The point of a running exchange.                                        *)

(* A step of one task leaves an exchange of another one alone: they are at *)
(* different points.                                                       *)
LEMMA OtherExchange ==
  ASSUME TypeOK, ExchangeInv, NEW b \in Bus, NEW c \in Bus, b # c, HasPoint(b),
         task' = [task EXCEPT ![b] = task'[b]],
         \A p \in Point : p # CurrentPoint(b) => recoverySkip'[p] = recoverySkip[p],
         task'[c].pc = "exchange"
  PROVE  HasPoint(c)' /\ recoverySkip'[CurrentPoint(c)'] = 0
<1>1. task'[c] = task[c]
  BY DEF TypeOK
<1>2. HasPoint(c) /\ recoverySkip[CurrentPoint(c)] = 0
  BY <1>1 DEF ExchangeInv
<1>3. HasPoint(c)' /\ CurrentPoint(c)' = CurrentPoint(c)
  BY <1>1, <1>2 DEF HasPoint, HasDevice, CurrentPoint, CurrentDevice
<1>4. CurrentPoint(c) \in Point /\ CurrentPoint(c) # CurrentPoint(b)
  BY <1>2, CurrentPointType, PointsApart
<1> QED
  BY <1>2, <1>3, <1>4

LEMMA ExchangeStep == TypeOK /\ ExchangeInv /\ [Next]_vars => ExchangeInv'
<1> SUFFICES ASSUME TypeOK, ExchangeInv, [Next]_vars,
                    NEW c \in Bus, task'[c].pc = "exchange"
             PROVE  HasPoint(c)' /\ recoverySkip'[CurrentPoint(c)'] = 0
  BY DEF ExchangeInv
<1> USE DEF healthVars
<1>1. ASSUME NEW b \in Bus, BeginExchange(b)
      PROVE  HasPoint(c)' /\ recoverySkip'[CurrentPoint(c)'] = 0
  <2>1. CASE b = c
    <3>1. /\ task'[c].device = task[c].device
          /\ task'[c].point = task[c].point
      BY <1>1, <2>1 DEF TypeOK, Task, BeginExchange
    <3> QED
      BY <1>1, <2>1, <3>1 DEF BeginExchange, HasPoint, HasDevice, CurrentPoint, CurrentDevice
  <2>2. CASE b # c
    BY <1>1, <2>2, OtherExchange DEF BeginExchange, TypeOK
  <2> QED
    BY <2>1, <2>2
<1>2. ASSUME NEW b \in Bus, SkipPoint(b)
      PROVE  HasPoint(c)' /\ recoverySkip'[CurrentPoint(c)'] = 0
  <2>1. b # c
    BY <1>2 DEF SkipPoint, Running, TypeOK, Task
  <2> QED
    BY <1>2, <2>1, OtherExchange DEF SkipPoint, TypeOK
<1>3. ASSUME NEW b \in Bus, NEW error, ResumeAfter(b, error), task[b].pc = "exchange",
             \A p \in Point : p # CurrentPoint(b) => recoverySkip'[p] = recoverySkip[p]
      PROVE  HasPoint(c)' /\ recoverySkip'[CurrentPoint(c)'] = 0
  <2>1. b # c
    BY <1>3 DEF ResumeAfter, TypeOK, Task
  <2>2. HasPoint(b)
    BY <1>3 DEF ExchangeInv
  <2>3. task' = [task EXCEPT ![b] = task'[b]]
    BY <1>3 DEF ResumeAfter, TypeOK
  <2> QED
    BY <1>3, <2>1, <2>2, <2>3, OtherExchange
<1>4. ASSUME NEW b \in Bus, PointValue(b) \/ PointEmpty(b)
      PROVE  HasPoint(c)' /\ recoverySkip'[CurrentPoint(c)'] = 0
  BY <1>3, <1>4 DEF PointValue, PointEmpty, Replied, Healthy
<1>5. ASSUME NEW b \in Bus, NEW p, NEW transient, Failed(p, transient)
      PROVE  \A q \in Point : q # p => recoverySkip'[q] = recoverySkip[q]
  BY <1>5 DEF Failed, TypeOK
<1>6. ASSUME NEW b \in Bus, PointTimeout(b) \/ PointIoError(b) \/ PointProtocolError(b)
      PROVE  HasPoint(c)' /\ recoverySkip'[CurrentPoint(c)'] = 0
  BY <1>3, <1>5, <1>6 DEF PointTimeout, PointIoError, PointProtocolError, Replied
<1>7. ASSUME NEW b \in Bus, Wake(b) \/ RecordDevice(b) \/ FinishCycle(b)
      PROVE  HasPoint(c)' /\ recoverySkip'[CurrentPoint(c)'] = 0
  <2>1. task'[b].pc # "exchange"
    <3>1. CASE Wake(b)
      BY <3>1 DEF Wake, StartOfDevice, TypeOK
    <3>2. CASE RecordDevice(b)
      BY <3>2 DEF RecordDevice, StartOfDevice, TypeOK
    <3>3. CASE FinishCycle(b)
      BY <3>3 DEF FinishCycle, Asleep, TypeOK
    <3> QED
      BY <1>7, <3>1, <3>2, <3>3
  <2>2. task'[c] = task[c] /\ recoverySkip' = recoverySkip
    BY <1>7, <2>1 DEF Wake, RecordDevice, FinishCycle, TypeOK
  <2> QED
    BY <2>2 DEF ExchangeInv, HasPoint, HasDevice, CurrentPoint, CurrentDevice
<1>8. ASSUME UNCHANGED <<task, recoverySkip>>
      PROVE  HasPoint(c)' /\ recoverySkip'[CurrentPoint(c)'] = 0
  BY <1>8 DEF ExchangeInv, HasPoint, HasDevice, CurrentPoint, CurrentDevice
<1> QED
  BY <1>1, <1>2, <1>4, <1>6, <1>7, <1>8
     DEF Next, PollStep, LinkChange, WriteAccepted, vars, taskVars

-----------------------------------------------------------------------------
(* Status registers.                                                       *)

LEMMA RecordStatus ==
  ASSUME TypeOK, StatusInv, NEW b \in Bus, RecordDevice(b)
  PROVE  StatusInv'
<1> DEFINE d == CurrentDevice(b)
<1>1. d \in Device /\ d \in DevicesOn(b)
  BY CurrentDeviceType DEF RecordDevice
<1>2. \A e \in Device : deviceReg'[e].status = deviceStatus'[e]
  BY <1>1 DEF RecordDevice, StatusInv, TypeOK
<1>3. ASSUME NEW c \in Bus, isConnected'[c]
      PROVE  busStatus'[c] = LineAggregate(c, deviceStatus')
  <2>1. CASE c = b
    BY <2>1 DEF RecordDevice, TypeOK
  <2>2. CASE c # b
    <3>1. \A e \in DevicesOn(c) : deviceStatus'[e] = deviceStatus[e]
      <4>1. \A e \in DevicesOn(c) : e \in Device /\ e # d
        BY <1>1, <2>2, LinesApart, PollingAssumption DEF DevicesOn
      <4> QED
        BY <4>1 DEF RecordDevice, TypeOK
    <3>2. LineAggregate(c, deviceStatus') = LineAggregate(c, deviceStatus)
      BY <3>1 DEF LineAggregate
    <3>3. isConnected[c] /\ busStatus'[c] = busStatus[c]
      BY <1>3, <2>2 DEF RecordDevice, lineEnv, TypeOK
    <3> QED
      BY <3>2, <3>3 DEF StatusInv
  <2> QED
    BY <2>1, <2>2
<1> QED
  <2>1. \A c \in Bus : LineAggregate(c, deviceStatus)' = LineAggregate(c, deviceStatus')
    BY DEF LineAggregate, DevicesOn
  <2> QED
    BY <1>2, <1>3, <2>1 DEF StatusInv, RecordDevice

LEMMA FinishStatus ==
  ASSUME TypeOK, StatusInv, NEW b \in Bus, FinishCycle(b)
  PROVE  StatusInv' /\ \A c \in Bus : isConnected[c] => busStatus'[c] = busStatus[c]
<1>1. \A c \in Bus : isConnected[c] => busStatus'[c] = busStatus[c]
  BY DEF FinishCycle, StatusInv, TypeOK
<1>2. /\ deviceReg' = deviceReg /\ deviceStatus' = deviceStatus
      /\ isConnected' = isConnected /\ lineReg' = busStatus'
  BY DEF FinishCycle, deviceVars, lineEnv
<1>3. \A c \in Bus : LineAggregate(c, deviceStatus)' = LineAggregate(c, deviceStatus)
  BY <1>2 DEF LineAggregate, DevicesOn
<1> QED
  BY <1>1, <1>2, <1>3 DEF StatusInv

LEMMA QuietStatus ==
  ASSUME StatusInv, UNCHANGED <<deviceReg, deviceStatus, busStatus, lineReg, isConnected>>
  PROVE  StatusInv'
  BY DEF StatusInv, LineAggregate, DevicesOn

LEMMA StatusStep == TypeOK /\ StatusInv /\ [Next]_vars => StatusInv'
<1> SUFFICES ASSUME TypeOK, StatusInv, [Next]_vars PROVE StatusInv'
  OBVIOUS
<1>1. ASSUME NEW b \in Bus, RecordDevice(b) PROVE StatusInv'
  BY <1>1, RecordStatus
<1>2. ASSUME NEW b \in Bus, FinishCycle(b) PROVE StatusInv'
  BY <1>2, FinishStatus
<1> QED
  BY <1>1, <1>2, QuietStatus
     DEF Next, PollStep, Wake, SkipPoint, BeginExchange, PointValue, PointEmpty, PointTimeout,
         PointProtocolError, PointIoError, LinkChange, WriteAccepted, deviceVars, lineVars, lineEnv,
         vars

LEMMA ServiceStep ==
  TypeOK /\ StatusInv /\ ServiceAgreesWithLines /\ [Next]_vars => ServiceAgreesWithLines'
<1> SUFFICES ASSUME TypeOK, StatusInv, ServiceAgreesWithLines, [Next]_vars,
                    \A b \in Bus : isConnected'[b]
             PROVE  serviceReg'.status = AggregateStatus({lineReg'[b] : b \in Bus})
  BY DEF ServiceAgreesWithLines
<1>1. ASSUME NEW b \in Bus, RecordDevice(b)
      PROVE  serviceReg'.status = AggregateStatus({lineReg'[c] : c \in Bus})
  BY <1>1 DEF RecordDevice
<1>2. ASSUME NEW b \in Bus, FinishCycle(b)
      PROVE  serviceReg'.status = AggregateStatus({lineReg'[c] : c \in Bus})
  <2>1. isConnected' = isConnected /\ lineReg' = busStatus' /\ serviceReg' = serviceReg
    BY <1>2 DEF FinishCycle, lineEnv
  <2>2. \A c \in Bus : lineReg'[c] = lineReg[c]
    BY <1>2, <2>1, FinishStatus DEF StatusInv
  <2> QED
    BY <2>1, <2>2 DEF ServiceAgreesWithLines
<1>3. ASSUME UNCHANGED <<lineReg, serviceReg, isConnected>>
      PROVE  serviceReg'.status = AggregateStatus({lineReg'[c] : c \in Bus})
  BY <1>3 DEF ServiceAgreesWithLines
<1> QED
  BY <1>1, <1>2, <1>3
     DEF Next, PollStep, Wake, SkipPoint, BeginExchange, PointValue, PointEmpty, PointTimeout,
         PointProtocolError, PointIoError, LinkChange, WriteAccepted, lineVars, lineEnv, vars

-----------------------------------------------------------------------------
(* The inductive invariant and what follows from it.                       *)

LEMMA IInvInit == Init => IInv
<1> SUFFICES ASSUME Init PROVE IInv
  OBVIOUS
<1>1. TypeOK
  BY TypeInit
<1>2. ExchangeInv
  BY DEF Init, ExchangeInv, Asleep
<1>3. ReducedPolling
  BY PollingAssumption DEF Init, ReducedPolling, CHANNEL_COMM_ERROR, CHANNEL_FAILED
<1>4. ASSUME NEW S, \A x \in S : x = STATUS_OFFLINE
      PROVE  AggregateStatus(S) = STATUS_OFFLINE
  BY <1>4 DEF AggregateStatus, STATUS_OFFLINE, STATUS_OK, STATUS_PROTOCOL_ERROR
<1>5. StatusInv
  <2>1. \A b \in Bus : \A d \in DevicesOn(b) : d \in Device
    BY PollingAssumption DEF DevicesOn
  <2>2. \A b \in Bus : LineAggregate(b, deviceStatus) = STATUS_OFFLINE
    BY <1>4, <2>1 DEF Init, LineAggregate
  <2> QED
    BY <2>2 DEF Init, StatusInv
<1>6. ServiceAgreesWithLines
  BY <1>4 DEF Init, ServiceAgreesWithLines
<1> QED
  BY <1>1, <1>2, <1>3, <1>5, <1>6 DEF IInv

(* IInv holds in every reachable state.                                    *)
THEOREM Invariance == Spec => []IInv
<1>1. IInv /\ [Next]_vars => IInv'
  BY TypeStep, ExchangeStep, ReducedStep, StatusStep, ServiceStep DEF IInv
<1> QED
  BY IInvInit, <1>1, PTL DEF Spec

(* Every variable of the polling engine keeps its type.                    *)
THEOREM TypeCorrect == Spec => []TypeOK
<1>1. IInv => TypeOK
  BY DEF IInv
<1> QED
  BY Invariance, <1>1, PTL

(* A point whose poll failed too often is left out for RecoveryCycles - 1   *)
(* cycles and any other point is polled in every cycle, for every threshold *)
(* and interval the configuration allows and whatever clients write in      *)
(* between.  (service.py:323-338, 735-742, 919-928)                         *)
THEOREM ReducedPollingCorrect == Spec => []ReducedPolling
<1>1. IInv => ReducedPolling
  BY DEF IInv
<1> QED
  BY Invariance, <1>1, PTL

(* A channel status register differs from its point before the first        *)
(* exchange and after a write to a point that is left out, and never else.  *)
(* (service.py:324-330, 735-742)                                            *)
THEOREM ChannelShownCorrect == Spec => []ChannelShowsPoint
<1>1. Init => ChannelShowsPoint
  BY DEF Init, ChannelShowsPoint, NeverAsked
<1>2. IInv /\ ChannelShowsPoint /\ [Next]_vars => ChannelShowsPoint'
  BY ShowsStep DEF IInv
<1> QED
  BY <1>1, <1>2, Invariance, PTL DEF Spec

(* The status register of a connected line is the aggregate of the status   *)
(* registers of its devices, for any number of lines and devices.           *)
(* (service.py:551-617)                                                     *)
THEOREM LineStatusCorrect == Spec => []LineAgreesWithDevices
<1>1. IInv => LineAgreesWithDevices
  <2> SUFFICES ASSUME IInv, NEW b \in Bus, isConnected[b]
               PROVE  lineReg[b] = AggregateStatus({deviceReg[d].status : d \in DevicesOn(b)})
    BY DEF LineAgreesWithDevices
  <2>1. \A d \in DevicesOn(b) : d \in Device
    BY PollingAssumption DEF DevicesOn
  <2>2. {deviceReg[d].status : d \in DevicesOn(b)} = {deviceStatus[d] : d \in DevicesOn(b)}
    BY <2>1 DEF IInv, StatusInv
  <2> QED
    BY <2>2 DEF IInv, StatusInv, LineAggregate
<1> QED
  BY Invariance, <1>1, PTL

(* While every line is connected the gateway's status register is the       *)
(* aggregate of the line status registers.  (service.py:579-607)            *)
THEOREM ServiceStatusCorrect == Spec => []ServiceAgreesWithLines
<1>1. IInv => ServiceAgreesWithLines
  BY DEF IInv
<1> QED
  BY Invariance, <1>1, PTL

-----------------------------------------------------------------------------
(* What is published of a device: its status against its points, its last  *)
(* error against its status, its telemetry against its counters.           *)
(*                                                                         *)
(* DeviceInv is the induction: what the locals of _poll_device know about  *)
(* the points it has passed, and that a device nobody polls at the moment  *)
(* shows its points and its counters.                                      *)

(* The locals of _poll_device count the points before the current one.     *)
Answered(p) == polled[p] \in Fine
PointAt(d, i) == PointsOf[d][i]
Passed(b) == 1..(task[b].point - 1)

LocalsOf(b) ==
  LET t == task[b]
      d == CurrentDevice(b)
  IN  /\ t.point <= Len(PointsOf[d]) + 1
      /\ t.protocol <= t.failures
      /\ t.failures <= t.point - 1
      /\ t.failures = 0 <=> \A i \in Passed(b) : Answered(PointAt(d, i))
      /\ t.failures = t.point - 1 <=> \A i \in Passed(b) : ~Answered(PointAt(d, i))
      /\ t.protocol = t.point - 1 =>
           \A i \in Passed(b) :
             polled[PointAt(d, i)] \in {CHANNEL_PROTOCOL_ERROR, CHANNEL_FAILED}
      /\ t.failures = 0 => t.error = ERROR_NONE
      /\ t.protocol = t.point - 1 => t.point = 1 \/ t.error \in ProtocolError
      /\ t.error = ERROR_NONE =>
           \A i \in Passed(b) :
             \/ Answered(PointAt(d, i))
             \/ polled[PointAt(d, i)] = CHANNEL_FAILED /\ idle[PointAt(d, i)] > 0

Polling(b) == task[b].pc # "asleep" /\ HasDevice(b)

LocalsInv == \A b \in Bus : Polling(b) => LocalsOf(b)

(* The status of a device against its points.                              *)
StatusShown(d, status) ==
  LET answered == {p \in PointsIn(d) : Answered(p)} IN
    /\ status = STATUS_OK <=> answered = PointsIn(d)
    /\ status \in {STATUS_OFFLINE, STATUS_PROTOCOL_ERROR} <=> answered = {}
    /\ status = STATUS_PROTOCOL_ERROR =>
         \A p \in PointsIn(d) : polled[p] \in {CHANNEL_PROTOCOL_ERROR, CHANNEL_FAILED}

ShownInv == \A d \in Device : ~BeingPolled(d) => StatusShown(d, deviceReg[d].status)

TelemetryInv ==
  /\ (\A b \in Bus : ~Polling(b)) => serviceReg.count = gatewayCount
  /\ \A d \in Device : ~BeingPolled(d) => deviceReg[d].count = deviceCount[d]

DeviceInv == LocalsInv /\ ShownInv /\ TelemetryInv

-----------------------------------------------------------------------------
(* Steps inside the loop over the points of one device.                    *)

(* The task of line b stays at its device and touches the health of its    *)
(* current point only.                                                     *)
Inside(b) ==
  /\ Polling(b)
  /\ HasPoint(b)
  /\ task'[b].pc # "asleep"
  /\ task'[b].device = task[b].device
  /\ \A c \in Bus : c # b => task'[c] = task[c]
  /\ \A p \in Point : p # CurrentPoint(b) =>
       polled'[p] = polled[p] /\ idle'[p] = idle[p]
  /\ UNCHANGED <<deviceReg, serviceReg>>

PointStep(b) ==
  \/ SkipPoint(b)
  \/ BeginExchange(b)
  \/ PointValue(b)
  \/ PointEmpty(b)
  \/ PointTimeout(b)
  \/ PointProtocolError(b)
  \/ PointIoError(b)

LEMMA ResumeTask ==
  ASSUME TypeOK, NEW b \in Bus, NEW error, ResumeAfter(b, error)
  PROVE  /\ task'[b].pc = "polling"
         /\ task'[b].device = task[b].device
         /\ task'[b].point = task[b].point + 1
         /\ task'[b].failures = task[b].failures + (IF error = ERROR_NONE THEN 0 ELSE 1)
         /\ task'[b].protocol = task[b].protocol + (IF error \in ProtocolError THEN 1 ELSE 0)
         /\ task'[b].error = IF error = ERROR_NONE THEN task[b].error ELSE error
         /\ \A c \in Bus : c # b => task'[c] = task[c]
  BY SMTT(30) DEF TypeOK, ResumeAfter, Task

LEMMA HealthElsewhere ==
  ASSUME TypeOK, NEW p \in Point,
         (\E s : Healthy(p, s)) \/ (\E s : Failed(p, s))
  PROVE  \A q \in Point : q # p => polled'[q] = polled[q] /\ idle'[q] = idle[q]
  BY DEF TypeOK, Healthy, Failed

LEMMA InsideStep ==
  ASSUME TypeOK, ExchangeInv, NEW b \in Bus, PointStep(b)
  PROVE  Inside(b)
<1> USE DEF deviceVars, lineVars, healthVars
<1>1. CASE SkipPoint(b)
  <2>1. CurrentPoint(b) \in Point
    BY <1>1, CurrentPointType DEF SkipPoint
  <2>2. task[b].pc = "polling" /\ HasDevice(b)
    BY <1>1 DEF SkipPoint, Running, HasPoint
  <2>3. /\ task'[b].pc = "polling" /\ task'[b].device = task[b].device
        /\ \A c \in Bus : c # b => task'[c] = task[c]
    BY <1>1, <2>2 DEF SkipPoint, TypeOK, Task
  <2>4. \A p \in Point : p # CurrentPoint(b) =>
          polled'[p] = polled[p] /\ idle'[p] = idle[p]
    BY <1>1, <2>1 DEF SkipPoint, TypeOK
  <2> QED
    BY <1>1, <2>2, <2>3, <2>4 DEF SkipPoint, Inside, Polling
<1>2. CASE BeginExchange(b)
  <2>2. task[b].pc = "polling" /\ HasDevice(b)
    BY <1>2 DEF BeginExchange, Running, HasPoint
  <2>3. /\ task'[b].pc = "exchange" /\ task'[b].device = task[b].device
        /\ \A c \in Bus : c # b => task'[c] = task[c]
    BY <1>2, <2>2 DEF BeginExchange, TypeOK, Task
  <2> QED
    BY <1>2, <2>2, <2>3 DEF BeginExchange, Inside, Polling
<1>3. ASSUME NEW error, ResumeAfter(b, error), task[b].pc = "exchange",
             (\E s : Healthy(CurrentPoint(b), s)) \/ (\E s : Failed(CurrentPoint(b), s)),
             UNCHANGED <<deviceReg, serviceReg>>
      PROVE  Inside(b)
  <2>1. HasPoint(b) /\ HasDevice(b)
    BY <1>3 DEF ExchangeInv, HasPoint
  <2>2. CurrentPoint(b) \in Point
    BY <2>1, CurrentPointType
  <2>3. \A p \in Point : p # CurrentPoint(b) =>
          polled'[p] = polled[p] /\ idle'[p] = idle[p]
    BY <1>3, <2>2, HealthElsewhere
  <2> QED
    BY <1>3, <2>1, <2>3, ResumeTask DEF Inside, Polling
<1>4. CASE PointValue(b) \/ PointEmpty(b)
  BY <1>3, <1>4 DEF PointValue, PointEmpty, Replied
<1>5. CASE PointTimeout(b) \/ PointIoError(b)
  BY <1>3, <1>5 DEF PointTimeout, PointIoError, Replied
<1>6. CASE PointProtocolError(b)
  BY <1>3, <1>6 DEF PointProtocolError, Replied
<1> QED
  BY <1>1, <1>2, <1>4, <1>5, <1>6 DEF PointStep

(* Such a step polls the same devices as before ...                        *)
LEMMA InsidePolls ==
  ASSUME TypeOK, NEW b \in Bus, Inside(b)
  PROVE  /\ \A c \in Bus : Polling(c)' = Polling(c)
         /\ \A c \in Bus : Polling(c) => CurrentDevice(c)' = CurrentDevice(c)
         /\ \A d \in Device : BeingPolled(d)' = BeingPolled(d)
<1>1. \A c \in Bus : task'[c].device = task[c].device
                  /\ (task'[c].pc = "asleep" <=> task[c].pc = "asleep")
  BY DEF Inside, Polling
<1>2. \A c \in Bus : HasDevice(c)' = HasDevice(c) /\ CurrentDevice(c)' = CurrentDevice(c)
  BY <1>1 DEF HasDevice, CurrentDevice
<1> QED
  BY <1>1, <1>2 DEF Polling, BeingPolled

(* ... and leaves the points of every other device alone.                  *)
LEMMA InsideElsewhere ==
  ASSUME TypeOK, NEW b \in Bus, Inside(b), NEW d \in Device, d # CurrentDevice(b)
  PROVE  /\ \A i \in 1..Len(PointsOf[d]) :
              /\ PointAt(d, i) \in Point
              /\ polled'[PointAt(d, i)] = polled[PointAt(d, i)]
              /\ idle'[PointAt(d, i)] = idle[PointAt(d, i)]
         /\ \A p \in PointsIn(d) :
              polled'[p] = polled[p] /\ idle'[p] = idle[p]
<1> DEFINE e == CurrentDevice(b)
<1>1. HasPoint(b) /\ e \in Device
  BY CurrentPointType DEF Inside
<1>2. task[b].point \in 1..Len(PointsOf[e])
  BY <1>1 DEF TypeOK, Task, HasPoint
<1>3. PointsOf[d] \in Seq(Point)
  BY PollingAssumption
<1>4. ASSUME NEW i \in 1..Len(PointsOf[d])
      PROVE  PointAt(d, i) \in Point /\ PointAt(d, i) # CurrentPoint(b)
  <2>1. PointsOf[d][i] # PointsOf[e][task[b].point]
    BY <1>1, <1>2, PollingAssumption
  <2> QED
    BY <1>3, <2>1 DEF PointAt, CurrentPoint
<1>5. \A i \in 1..Len(PointsOf[d]) :
        /\ polled'[PointAt(d, i)] = polled[PointAt(d, i)]
        /\ idle'[PointAt(d, i)] = idle[PointAt(d, i)]
  BY <1>4 DEF Inside
<1> QED
  BY <1>4, <1>5 DEF PointsIn, PointAt

-----------------------------------------------------------------------------
(* What the locals know.                                                   *)

(* The state of the point an iteration ends with, and what it adds.        *)
Advance(b, failed, garbled) ==
  LET p == CurrentPoint(b) IN
    /\ task'[b].point = task[b].point + 1
    /\ task'[b].failures = task[b].failures + (IF failed THEN 1 ELSE 0)
    /\ task'[b].protocol = task[b].protocol + (IF garbled THEN 1 ELSE 0)
    /\ failed <=> polled'[p] \notin Fine
    /\ garbled => failed /\ polled'[p] \in {CHANNEL_PROTOCOL_ERROR, CHANNEL_FAILED}
    /\ ~failed => task'[b].error = task[b].error
    /\ garbled => task'[b].error \in ProtocolError
    /\ failed =>
         \/ task'[b].error # ERROR_NONE
         \/ /\ task'[b].error = task[b].error
            /\ polled'[p] = CHANNEL_FAILED
            /\ idle'[p] > 0

LEMMA HealthyAnswered ==
  ASSUME TypeOK, NEW p \in Point, NEW status \in {CHANNEL_OK, CHANNEL_DISABLED}, Healthy(p, status)
  PROVE  polled'[p] \in Fine
  BY DEF TypeOK, Healthy, Fine

LEMMA FailedNotAnswered ==
  ASSUME TypeOK, NEW p \in Point,
         NEW transient \in {CHANNEL_COMM_ERROR, CHANNEL_PROTOCOL_ERROR}, Failed(p, transient)
  PROVE  polled'[p] \notin Fine /\ polled'[p] \in {transient, CHANNEL_FAILED}
<1>1. polled'[p] \in {transient, CHANNEL_FAILED}
  BY DEF TypeOK, Failed
<1> QED
  BY <1>1 DEF Fine, CHANNEL_OK, CHANNEL_DISABLED, CHANNEL_COMM_ERROR,
              CHANNEL_PROTOCOL_ERROR, CHANNEL_FAILED

(* Every iteration but the one that waits for its exchange is an Advance.  *)
LEMMA AdvanceStep ==
  ASSUME TypeOK, ExchangeInv, ReducedPolling, NEW b \in Bus, PointStep(b)
  PROVE  \/ BeginExchange(b)
         \/ \E failed, garbled \in BOOLEAN : Advance(b, failed, garbled)
<1> DEFINE p == CurrentPoint(b)
<1>1. HasPoint(b) /\ p \in Point
  BY InsideStep, CurrentPointType DEF Inside
<1> USE DEF Advance
<1>2. CASE SkipPoint(b)
  <2>1. /\ task'[b].point = task[b].point + 1
        /\ task'[b].failures = task[b].failures + 1
        /\ task'[b].protocol = task[b].protocol
        /\ task'[b].error = task[b].error
    BY <1>2, SMTT(30) DEF SkipPoint, TypeOK, Task
  <2>2. polled[p] = CHANNEL_FAILED
    BY <1>1, <1>2, PollingAssumption DEF SkipPoint, ReducedPolling, TypeOK
  <2>3. polled'[p] = CHANNEL_FAILED /\ idle'[p] > 0
    BY <1>1, <1>2, <2>2 DEF SkipPoint, TypeOK
  <2>4. polled'[p] \notin Fine
    BY <2>3 DEF Fine, CHANNEL_FAILED, CHANNEL_OK, CHANNEL_DISABLED
  <2>5. task[b].protocol + 0 = task[b].protocol
    BY DEF TypeOK, Task
  <2>6. Advance(b, TRUE, FALSE)
    BY <2>1, <2>3, <2>4, <2>5
  <2> QED
    BY <2>6
<1>3. CASE PointValue(b) \/ PointEmpty(b)
  <2>1. ResumeAfter(b, ERROR_NONE) /\ polled'[p] \in Fine
    BY <1>1, <1>3, HealthyAnswered DEF PointValue, PointEmpty
  <2>2. ERROR_NONE \notin ProtocolError
    BY DEF ERROR_NONE, ProtocolError, ERROR_BAD_FLAG, ERROR_HASH_MISMATCH, ERROR_DECODE
  <2>3. Advance(b, FALSE, FALSE)
    BY <2>1, <2>2, ResumeTask
  <2> QED
    BY <2>3
<1>4. CASE PointTimeout(b) \/ PointIoError(b)
  <2>1. PICK error \in {ERROR_TIMEOUT, ERROR_IO} :
          ResumeAfter(b, error) /\ Failed(p, CHANNEL_COMM_ERROR)
    BY <1>4 DEF PointTimeout, PointIoError
  <2>2. error # ERROR_NONE /\ error \notin ProtocolError
    BY DEF ERROR_NONE, ERROR_TIMEOUT, ERROR_IO, ProtocolError, ERROR_BAD_FLAG,
           ERROR_HASH_MISMATCH, ERROR_DECODE
  <2>3. polled'[p] \notin Fine
    BY <1>1, <2>1, FailedNotAnswered
  <2>4. Advance(b, TRUE, FALSE)
    BY <2>1, <2>2, <2>3, ResumeTask
  <2> QED
    BY <2>4
<1>5. CASE PointProtocolError(b)
  <2>1. PICK o \in {"bad_flag", "hash", "decode"} :
          ResumeAfter(b, ProtocolErrorOf(o)) /\ Failed(p, CHANNEL_PROTOCOL_ERROR)
    BY <1>5 DEF PointProtocolError
  <2>2. ProtocolErrorOf(o) # ERROR_NONE /\ ProtocolErrorOf(o) \in ProtocolError
    BY DEF ProtocolErrorOf, ERROR_NONE, ProtocolError, ERROR_BAD_FLAG,
           ERROR_HASH_MISMATCH, ERROR_DECODE
  <2>3. polled'[p] \notin Fine /\ polled'[p] \in {CHANNEL_PROTOCOL_ERROR, CHANNEL_FAILED}
    BY <1>1, <2>1, FailedNotAnswered
  <2>4. Advance(b, TRUE, TRUE)
    BY <2>1, <2>2, <2>3, ResumeTask
  <2> QED
    BY <2>4
<1> QED
  BY <1>2, <1>3, <1>4, <1>5 DEF PointStep

(* The induction step for the task that moves.                             *)
LEMMA AdvanceLocals ==
  ASSUME TypeOK, NEW b \in Bus, LocalsOf(b), Inside(b),
         NEW failed \in BOOLEAN, NEW garbled \in BOOLEAN, Advance(b, failed, garbled)
  PROVE  LocalsOf(b)'
<1> DEFINE t == task[b]
           u == task'[b]
           d == CurrentDevice(b)
           n == Len(PointsOf[d])
<1>1. /\ t.point \in Nat \ {0} /\ t.failures \in Nat /\ t.protocol \in Nat
      /\ t.error \in ErrorCode /\ t.point <= n /\ n \in Nat
      /\ d \in Device /\ CurrentDevice(b)' = d
  <2>1. HasPoint(b) /\ HasDevice(b)
    BY DEF Inside, HasPoint
  <2>2. d \in Device
    BY <2>1, CurrentPointType
  <2>3. CurrentDevice(b)' = d
    BY InsidePolls DEF Inside
  <2>4. n \in Nat
    BY <2>2, PollingAssumption
  <2> QED
    BY <2>1, <2>2, <2>3, <2>4 DEF TypeOK, Task, HasPoint
<1>2. \A i \in 1..(t.point - 1) :
        /\ polled'[PointAt(d, i)] = polled[PointAt(d, i)]
        /\ idle'[PointAt(d, i)] = idle[PointAt(d, i)]
  <2> SUFFICES ASSUME NEW i \in 1..(t.point - 1)
               PROVE  PointAt(d, i) \in Point /\ PointAt(d, i) # CurrentPoint(b)
    BY DEF Inside
  <2>1. i \in 1..n /\ t.point \in 1..n /\ i # t.point
    BY <1>1
  <2>2. PointsOf[d] \in Seq(Point)
    BY <1>1, PollingAssumption
  <2>3. PointsOf[d][i] # PointsOf[d][t.point]
    BY <1>1, <2>1, PollingAssumption
  <2> QED
    BY <2>1, <2>2, <2>3 DEF PointAt, CurrentPoint
<1>3. \A i \in 1..(t.point - 1) :
        Answered(PointAt(d, i)) <=> polled'[PointAt(d, i)] \in Fine
  BY <1>2 DEF Answered, Fine
<1>4. PointAt(d, t.point) = CurrentPoint(b)
  BY DEF PointAt, CurrentPoint
<1>5. Passed(b)' = 1..t.point /\ 1..t.point = (1..(t.point - 1)) \cup {t.point}
  BY <1>1 DEF Passed, Advance
<1>6. Passed(b) = 1..(t.point - 1)
  BY DEF Passed
<1>7. /\ u.point = t.point + 1
      /\ u.failures = IF failed THEN t.failures + 1 ELSE t.failures
      /\ u.protocol = IF garbled THEN t.protocol + 1 ELSE t.protocol
  BY <1>1 DEF Advance
<1>8. /\ t.protocol <= t.failures /\ t.failures <= t.point - 1
  BY DEF LocalsOf
<1>9. garbled => failed
  BY DEF Advance
<1>10. u.point <= n + 1 /\ u.protocol <= u.failures /\ u.failures <= u.point - 1
  <2>1. u.point <= n + 1 /\ u.point - 1 = t.point
    BY <1>1, <1>7
  <2>2. u.protocol <= u.failures
    BY <1>1, <1>7, <1>8, <1>9
  <2>3. u.failures <= t.point
    BY <1>1, <1>7, <1>8
  <2> QED
    BY <2>1, <2>2, <2>3
<1>11. (\A i \in Passed(b)' : polled'[PointAt(d, i)] \in Fine)
          <=> (\A i \in Passed(b) : Answered(PointAt(d, i))) /\ ~failed
  BY <1>3, <1>4, <1>5, <1>6 DEF Advance
<1>12. (\A i \in Passed(b)' : polled'[PointAt(d, i)] \notin Fine)
          <=> (\A i \in Passed(b) : ~Answered(PointAt(d, i))) /\ failed
  BY <1>3, <1>4, <1>5, <1>6 DEF Advance
<1>13. u.failures = 0 <=> \A i \in Passed(b)' : polled'[PointAt(d, i)] \in Fine
  BY <1>1, <1>7, <1>11 DEF LocalsOf
<1>14. u.failures = u.point - 1 <=> \A i \in Passed(b)' : polled'[PointAt(d, i)] \notin Fine
  <2>1. t.failures = t.point - 1 <=> \A i \in Passed(b) : ~Answered(PointAt(d, i))
    BY DEF LocalsOf
  <2>2. u.failures = u.point - 1 <=> t.failures = t.point - 1 /\ failed
    BY <1>1, <1>7, <1>8
  <2> QED
    BY <1>12, <2>1, <2>2
<1>15. ASSUME u.protocol = u.point - 1
       PROVE  /\ \A i \in Passed(b)' :
                   polled'[PointAt(d, i)] \in {CHANNEL_PROTOCOL_ERROR, CHANNEL_FAILED}
              /\ u.error \in ProtocolError
  <2>1. garbled /\ t.protocol = t.point - 1
    BY <1>1, <1>7, <1>8, <1>15
  <2> QED
    BY <1>2, <1>4, <1>5, <1>6, <2>1 DEF Advance, LocalsOf
<1>16. ASSUME u.failures = 0 PROVE u.error = ERROR_NONE
  <2>1. ~failed /\ t.failures = 0
    BY <1>1, <1>7, <1>16
  <2>2. t.error = ERROR_NONE
    BY <2>1 DEF LocalsOf
  <2> QED
    BY <2>1, <2>2 DEF Advance
<1>17. ASSUME u.error = ERROR_NONE, NEW i \in Passed(b)'
       PROVE  \/ polled'[PointAt(d, i)] \in Fine
              \/ polled'[PointAt(d, i)] = CHANNEL_FAILED /\ idle'[PointAt(d, i)] > 0
  <2>1. t.error = ERROR_NONE
    BY <1>17 DEF Advance
  <2>2. CASE i = t.point
    BY <1>4, <1>17, <2>2 DEF Advance
  <2>3. CASE i \in Passed(b)
    BY <1>2, <1>3, <1>6, <2>1, <2>3 DEF LocalsOf
  <2> QED
    BY <1>5, <1>6, <2>2, <2>3
<1> QED
  BY <1>1, <1>10, <1>13, <1>14, <1>15, <1>16, <1>17 DEF LocalsOf, Answered, Fine, PointAt

-----------------------------------------------------------------------------
(* Every step keeps what the locals know.                                  *)

(* Two tasks never are at the same device.                                 *)
LEMMA DevicesApart ==
  ASSUME TypeOK, NEW b \in Bus, NEW c \in Bus, b # c, HasDevice(b), HasDevice(c)
  PROVE  CurrentDevice(b) # CurrentDevice(c)
<1>1. /\ task[b].device \in 1..Len(DevicesOf[b])
      /\ task[c].device \in 1..Len(DevicesOf[c])
  BY DEF TypeOK, Task, HasDevice
<1> QED
  BY <1>1, DevicesOfApart DEF CurrentDevice

(* A task that does not move, while another one is inside its device.      *)
LEMMA OtherLocals ==
  ASSUME TypeOK, NEW b \in Bus, Inside(b), NEW c \in Bus, c # b, Polling(c), LocalsOf(c)
  PROVE  LocalsOf(c)'
<1> DEFINE d == CurrentDevice(c)
<1>1. task'[c] = task[c] /\ CurrentDevice(c)' = d
  BY InsidePolls DEF Inside
<1>2. d \in Device /\ d # CurrentDevice(b)
  BY DevicesApart, CurrentDeviceType DEF Inside, Polling
<1>3. Len(PointsOf[d]) \in Nat /\ task[c].point \in Nat /\ task[c].point <= Len(PointsOf[d]) + 1
  BY <1>2, PollingAssumption DEF LocalsOf, TypeOK, Task
<1>4. \A i \in Passed(c) : i \in 1..Len(PointsOf[d])
  BY <1>3 DEF Passed
<1>5. \A i \in Passed(c) :
        /\ polled'[PointAt(d, i)] = polled[PointAt(d, i)]
        /\ idle'[PointAt(d, i)] = idle[PointAt(d, i)]
  BY <1>2, <1>4, InsideElsewhere
<1>6. Passed(c)' = Passed(c)
  BY <1>1 DEF Passed
<1> QED
  BY <1>1, <1>5, <1>6 DEF LocalsOf, Answered, PointAt

(* The locals at the start of a device know nothing yet.                   *)
LEMMA FreshLocals ==
  ASSUME NEW b \in Bus, NEW j \in Nat \ {0}, task'[b] = StartOfDevice(j),
         j <= Len(DevicesOf[b])
  PROVE  LocalsOf(b)'
<1>1. /\ task'[b].point = 1 /\ task'[b].failures = 0 /\ task'[b].protocol = 0
      /\ task'[b].error = ERROR_NONE /\ task'[b].device = j
  BY DEF StartOfDevice
<1>2. j \in 1..Len(DevicesOf[b]) /\ DevicesOf[b] \in Seq(Device)
  BY PollingAssumption
<1>3. CurrentDevice(b)' \in Device
  BY <1>1, <1>2 DEF CurrentDevice
<1>4. Len(PointsOf[CurrentDevice(b)']) \in Nat
  BY <1>3, PollingAssumption
<1>5. Passed(b)' = {}
  BY <1>1 DEF Passed
<1> QED
  BY <1>1, <1>4, <1>5 DEF LocalsOf

(* The actions that change no health: they start or end a device.          *)
Between(b) == Wake(b) \/ RecordDevice(b) \/ FinishCycle(b)

LEMMA BetweenTask ==
  ASSUME TypeOK, NEW b \in Bus, Between(b)
  PROVE  /\ \A c \in Bus : c # b => task'[c] = task[c]
         /\ polled' = polled /\ idle' = idle
         /\ task'[b] = Asleep \/ \E j \in Nat \ {0} : task'[b] = StartOfDevice(j)
<1> USE DEF healthVars
<1>1. CASE Wake(b)
  BY <1>1 DEF Wake, TypeOK
<1>2. CASE RecordDevice(b)
  <2>1. task[b].device + 1 \in Nat \ {0}
    BY DEF TypeOK, Task
  <2>2. task'[b] = StartOfDevice(task[b].device + 1)
    BY <1>2 DEF RecordDevice, TypeOK
  <2> QED
    BY <1>2, <2>1, <2>2 DEF RecordDevice, TypeOK
<1>3. CASE FinishCycle(b)
  BY <1>3 DEF FinishCycle, TypeOK
<1> QED
  BY <1>1, <1>2, <1>3 DEF Between

LEMMA SameLocals ==
  ASSUME NEW c \in Bus, Polling(c)', LocalsInv,
         task'[c] = task[c], polled' = polled, idle' = idle
  PROVE  LocalsOf(c)'
<1>1. Polling(c)
  BY DEF Polling, HasDevice
<1>2. LocalsOf(c)
  BY <1>1 DEF LocalsInv
<1>3. CurrentDevice(c)' = CurrentDevice(c) /\ Passed(c)' = Passed(c)
  BY DEF CurrentDevice, Passed
<1> QED
  BY <1>2, <1>3 DEF LocalsOf, PointAt, Answered

(* How a step of the gateway relates to a line, seen from the devices.     *)
LEMMA StepKinds ==
  ASSUME [Next]_vars
  PROVE  \/ \E b \in Bus : PointStep(b)
         \/ \E b \in Bus : Between(b)
         \/ UNCHANGED <<taskVars, polled, idle, deviceVars, countVars, lineVars>>
  BY DEF Next, PollStep, PointStep, Between, LinkChange, WriteAccepted, healthVars, vars

LEMMA LocalsStep ==
  TypeOK /\ ExchangeInv /\ ReducedPolling /\ LocalsInv /\ [Next]_vars => LocalsInv'
<1> SUFFICES ASSUME TypeOK, ExchangeInv, ReducedPolling, LocalsInv, [Next]_vars,
                    NEW c \in Bus, Polling(c)'
             PROVE  LocalsOf(c)'
  BY DEF LocalsInv
<1>1. ASSUME NEW b \in Bus, PointStep(b) PROVE LocalsOf(c)'
  <2>1. Inside(b)
    BY <1>1, InsideStep
  <2>2. Polling(c) /\ LocalsOf(c)
    BY <2>1, InsidePolls DEF LocalsInv
  <2>3. CASE c # b
    BY <2>1, <2>2, <2>3, OtherLocals
  <2>4. CASE c = b /\ BeginExchange(b)
    <3>1. /\ task'[b].point = task[b].point /\ task'[b].failures = task[b].failures
          /\ task'[b].protocol = task[b].protocol /\ task'[b].error = task[b].error
      BY <2>4, SMTT(30) DEF BeginExchange, TypeOK, Task
    <3>2. polled' = polled /\ idle' = idle
      BY <2>4 DEF BeginExchange, healthVars
    <3>3. CurrentDevice(b)' = CurrentDevice(b)
      BY <2>1, InsidePolls DEF Inside
    <3> QED
      BY <2>2, <2>4, <3>1, <3>2, <3>3 DEF LocalsOf, Passed, PointAt, Answered
  <2>5. CASE c = b /\ \E failed, garbled \in BOOLEAN : Advance(b, failed, garbled)
    BY <2>1, <2>2, <2>5, AdvanceLocals
  <2> QED
    BY <1>1, <2>3, <2>4, <2>5, AdvanceStep
<1>2. ASSUME NEW b \in Bus, Between(b) PROVE LocalsOf(c)'
  <2>1. CASE c # b
    BY <1>2, <2>1, BetweenTask, SameLocals
  <2>2. CASE c = b
    <3>1. task'[b] # Asleep
      BY <2>2 DEF Polling, Asleep
    <3>2. PICK j \in Nat \ {0} : task'[b] = StartOfDevice(j)
      BY <1>2, <3>1, BetweenTask
    <3>3. j <= Len(DevicesOf[b])
      BY <2>2, <3>2 DEF Polling, HasDevice, StartOfDevice
    <3> QED
      BY <2>2, <3>2, <3>3, FreshLocals
  <2> QED
    BY <2>1, <2>2
<1>3. ASSUME UNCHANGED <<taskVars, polled, idle>> PROVE LocalsOf(c)'
  BY <1>3, SameLocals DEF taskVars
<1> QED
  BY <1>1, <1>2, <1>3, StepKinds

-----------------------------------------------------------------------------
(* The result of a device.                                                 *)

(* When its points are through, the locals speak of all of them.           *)
LEMMA AllPassed ==
  ASSUME TypeOK, LocalsInv, NEW b \in Bus, RecordDevice(b)
  PROVE  LET t == task[b]
             d == CurrentDevice(b)
             n == Len(PointsOf[d])
         IN  /\ d \in Device /\ Polling(b)
             /\ n \in Nat \ {0} /\ t.point - 1 = n
             /\ t.failures \in Nat /\ t.protocol \in Nat
             /\ t.protocol <= t.failures /\ t.failures <= n
             /\ t.failures = 0 <=> \A p \in PointsIn(d) : Answered(p)
             /\ t.failures = n <=> \A p \in PointsIn(d) : ~Answered(p)
             /\ t.protocol = n =>
                  /\ \A p \in PointsIn(d) :
                       polled[p] \in {CHANNEL_PROTOCOL_ERROR, CHANNEL_FAILED}
                  /\ t.error \in ProtocolError
             /\ t.failures = 0 => t.error = ERROR_NONE
             /\ t.error = ERROR_NONE =>
                  \A p \in PointsIn(d) :
                    Answered(p) \/ (polled[p] = CHANNEL_FAILED /\ idle[p] > 0)
<1> DEFINE t == task[b]
           d == CurrentDevice(b)
           n == Len(PointsOf[d])
<1>1. Polling(b) /\ d \in Device
  BY CurrentDeviceType DEF RecordDevice, Running, Polling
<1>2. LocalsOf(b)
  BY <1>1 DEF LocalsInv
<1>3. n \in Nat \ {0}
  BY <1>1, PollingAssumption
<1>4. t.point \in Nat \ {0} /\ t.failures \in Nat /\ t.protocol \in Nat
  BY DEF TypeOK, Task
<1>5. t.point <= n + 1 /\ t.point > n
  BY <1>1, <1>2, <1>3, <1>4 DEF LocalsOf, RecordDevice, HasPoint, Polling
<1>6. t.point - 1 = n /\ t.point # 1
  BY <1>3, <1>4, <1>5
<1>7. PointsIn(d) = {PointAt(d, i) : i \in Passed(b)}
  BY <1>6 DEF PointsIn, PointAt, Passed
<1> QED
  BY <1>1, <1>2, <1>3, <1>4, <1>6, <1>7 DEF LocalsOf

LEMMA RecordShown ==
  ASSUME TypeOK, LocalsInv, NEW b \in Bus, RecordDevice(b)
  PROVE  StatusShown(CurrentDevice(b), DeviceResult(b))
<1> DEFINE t == task[b]
           d == CurrentDevice(b)
           n == Len(PointsOf[d])
           status == DeviceResult(b)
           answered == {p \in PointsIn(d) : Answered(p)}
<1>1. PointsIn(d) # {}
  <2>1. 1 \in 1..n
    BY AllPassed
  <2> QED
    BY <2>1 DEF PointsIn
<1>2. status = STATUS_OK <=> t.failures = 0
  BY DEF DeviceResult, STATUS_OK, STATUS_OFFLINE, STATUS_PROTOCOL_ERROR, STATUS_DEGRADED
<1>3. status = STATUS_PROTOCOL_ERROR => t.protocol = n
  BY DEF DeviceResult, STATUS_OK, STATUS_OFFLINE, STATUS_PROTOCOL_ERROR, STATUS_DEGRADED
<1>4. status \in {STATUS_OFFLINE, STATUS_PROTOCOL_ERROR} <=> t.failures = n
  <2>1. t.protocol = n => t.failures = n
    BY AllPassed
  <2>2. t.failures = n => t.failures # 0
    BY AllPassed
  <2> QED
    BY <2>1, <2>2
       DEF DeviceResult, STATUS_OK, STATUS_OFFLINE, STATUS_PROTOCOL_ERROR, STATUS_DEGRADED
<1>5. answered = PointsIn(d) <=> t.failures = 0
  BY AllPassed
<1>6. answered = {} <=> t.failures = n
  BY AllPassed
<1>7. t.protocol = n =>
        \A p \in PointsIn(d) : polled[p] \in {CHANNEL_PROTOCOL_ERROR, CHANNEL_FAILED}
  BY AllPassed
<1> QED
  BY <1>2, <1>3, <1>4, <1>5, <1>6, <1>7 DEF StatusShown

(* What RecordDevice does to the registers and to who is being polled.     *)
LEMMA RecordRegisters ==
  ASSUME TypeOK, NEW b \in Bus, RecordDevice(b)
  PROVE  LET d == CurrentDevice(b) IN
           /\ d \in Device
           /\ deviceReg'[d].status = DeviceResult(b)
           /\ deviceReg'[d].count = deviceCount'[d]
           /\ deviceReg'[d].count.error = task[b].error
           /\ \A e \in Device : e # d =>
                /\ deviceReg'[e] = deviceReg[e]
                /\ deviceCount'[e] = deviceCount[e]
                /\ BeingPolled(e) => BeingPolled(e)'
           /\ serviceReg'.count = gatewayCount'
<1> DEFINE d == CurrentDevice(b)
<1>1. d \in Device
  BY CurrentDeviceType DEF RecordDevice
<1>2. /\ deviceReg'[d] = [status |-> DeviceResult(b), count |-> deviceCount'[d]]
      /\ deviceCount'[d].error = task[b].error
      /\ \A e \in Device : e # d =>
           deviceReg'[e] = deviceReg[e] /\ deviceCount'[e] = deviceCount[e]
      /\ serviceReg'.count = gatewayCount'
  BY <1>1 DEF RecordDevice, TypeOK, Counters
<1>3. /\ deviceReg'[d].status = DeviceResult(b)
      /\ deviceReg'[d].count = deviceCount'[d]
  BY <1>2
<1>4. ASSUME NEW e \in Device, e # d, BeingPolled(e) PROVE BeingPolled(e)'
  <2>1. PICK c \in Bus : task[c].pc # "asleep" /\ HasDevice(c) /\ CurrentDevice(c) = e
    BY <1>4 DEF BeingPolled
  <2>2. task'[c] = task[c]
    BY <1>4, <2>1, BetweenTask DEF Between
  <2> QED
    BY <2>1, <2>2 DEF BeingPolled, HasDevice, CurrentDevice
<1> QED
  BY <1>1, <1>2, <1>3, <1>4

(* Neither the start nor the end of a cycle changes a register of a device, *)
(* and nobody who is being polled is left.                                  *)
LEMMA CycleRegisters ==
  ASSUME TypeOK, NEW b \in Bus, Wake(b) \/ FinishCycle(b)
  PROVE  /\ UNCHANGED <<deviceReg, deviceCount, gatewayCount, serviceReg, polled, idle>>
         /\ \A c \in Bus : Polling(c) => Polling(c)'
         /\ \A e \in Device : BeingPolled(e) => BeingPolled(e)'
<1>1. UNCHANGED <<deviceReg, deviceCount, gatewayCount, serviceReg, polled, idle>>
  BY DEF Wake, FinishCycle, deviceVars, countVars, lineVars, healthVars
<1>2. ~Polling(b)
  BY DEF Polling, Wake, FinishCycle
<1>3. \A c \in Bus : c # b => task'[c] = task[c]
  BY BetweenTask DEF Between
<1>4. \A c \in Bus : Polling(c) => Polling(c)' /\ CurrentDevice(c)' = CurrentDevice(c)
  BY <1>2, <1>3 DEF Polling, HasDevice, CurrentDevice
<1> QED
  BY <1>1, <1>4 DEF BeingPolled, Polling

LEMMA SameShown ==
  ASSUME NEW d \in Device, StatusShown(d, deviceReg[d].status),
         deviceReg'[d] = deviceReg[d],
         \A p \in PointsIn(d) : polled'[p] = polled[p]
  PROVE  StatusShown(d, deviceReg[d].status)'
<1>1. {p \in PointsIn(d) : Answered(p)}' = {p \in PointsIn(d) : Answered(p)}
  BY DEF Answered, PointsIn
<1>2. PointsIn(d)' = PointsIn(d)
  BY DEF PointsIn
<1> QED
  BY <1>1, <1>2 DEF StatusShown

LEMMA ShownStep ==
  TypeOK /\ ExchangeInv /\ LocalsInv /\ ShownInv /\ [Next]_vars => ShownInv'
<1> SUFFICES ASSUME TypeOK, ExchangeInv, LocalsInv, ShownInv, [Next]_vars,
                    NEW d \in Device, ~BeingPolled(d)'
             PROVE  StatusShown(d, deviceReg[d].status)'
  BY DEF ShownInv
<1>1. ASSUME NEW b \in Bus, PointStep(b) PROVE StatusShown(d, deviceReg[d].status)'
  <2>1. Inside(b)
    BY <1>1, InsideStep
  <2>2. ~BeingPolled(d)
    BY <2>1, InsidePolls
  <2>3. d # CurrentDevice(b)
    BY <2>1, <2>2 DEF BeingPolled, Inside, Polling
  <2>4. StatusShown(d, deviceReg[d].status) /\ deviceReg'[d] = deviceReg[d]
    BY <2>1, <2>2 DEF ShownInv, Inside
  <2> QED
    BY <2>1, <2>3, <2>4, InsideElsewhere, SameShown
<1>2. ASSUME NEW b \in Bus, RecordDevice(b) PROVE StatusShown(d, deviceReg[d].status)'
  <2>1. \A p \in PointsIn(d) : polled'[p] = polled[p]
    BY <1>2 DEF RecordDevice, healthVars
  <2>2. CASE d # CurrentDevice(b)
    <3>1. ~BeingPolled(d) /\ deviceReg'[d] = deviceReg[d]
      BY <1>2, <2>2, RecordRegisters
    <3> QED
      BY <2>1, <3>1, SameShown DEF ShownInv
  <2>3. CASE d = CurrentDevice(b)
    <3>1. StatusShown(d, deviceReg'[d].status)
      <4>1. deviceReg'[d].status = DeviceResult(b)
        BY <1>2, <2>3, RecordRegisters
      <4> QED
        BY <1>2, <2>3, <4>1, RecordShown
    <3>2. PointsIn(d)' = PointsIn(d) /\ polled' = polled
      BY <1>2 DEF PointsIn, RecordDevice, healthVars
    <3> QED
      BY <3>1, <3>2 DEF StatusShown, Answered
  <2> QED
    BY <2>2, <2>3
<1>3. ASSUME NEW b \in Bus, Wake(b) \/ FinishCycle(b) PROVE StatusShown(d, deviceReg[d].status)'
  BY <1>3, CycleRegisters, SameShown DEF ShownInv
<1>4. ASSUME UNCHANGED <<taskVars, polled, deviceVars>>
      PROVE  StatusShown(d, deviceReg[d].status)'
  <2>1. BeingPolled(d)' = BeingPolled(d)
    BY <1>4 DEF BeingPolled, HasDevice, CurrentDevice, taskVars
  <2> QED
    BY <1>4, <2>1, SameShown DEF ShownInv, deviceVars
<1> QED
  BY <1>1, <1>2, <1>3, <1>4, StepKinds DEF Between

-----------------------------------------------------------------------------
(* Telemetry.                                                              *)

(* An exchange counts for the device it was about and for no other.        *)
LEMMA InsideCounts ==
  ASSUME TypeOK, NEW b \in Bus, PointStep(b), NEW d \in Device, d # CurrentDevice(b)
  PROVE  deviceCount'[d] = deviceCount[d]
<1>1. \/ deviceCount' = deviceCount
      \/ \E field : CountBoth(CurrentDevice(b), field)
  BY DEF PointStep, SkipPoint, BeginExchange, PointValue, PointEmpty, PointTimeout,
         PointProtocolError, PointIoError, countVars
<1> QED
  BY <1>1 DEF CountBoth, TypeOK

LEMMA TelemetryStep ==
  TypeOK /\ ExchangeInv /\ TelemetryInv /\ [Next]_vars => TelemetryInv'
<1> SUFFICES ASSUME TypeOK, ExchangeInv, TelemetryInv, [Next]_vars
             PROVE  TelemetryInv'
  OBVIOUS
<1>1. ASSUME NEW b \in Bus, PointStep(b) PROVE TelemetryInv'
  <2>1. Inside(b) /\ Polling(b)'
    BY <1>1, InsideStep, InsidePolls DEF Inside
  <2>2. ASSUME NEW d \in Device, ~BeingPolled(d)'
        PROVE  deviceReg'[d].count = deviceCount'[d]
    <3>1. ~BeingPolled(d)
      BY <2>1, <2>2, InsidePolls
    <3>2. d # CurrentDevice(b)
      BY <2>1, <3>1 DEF BeingPolled, Inside, Polling
    <3>3. deviceCount'[d] = deviceCount[d] /\ deviceReg' = deviceReg
      BY <1>1, <2>1, <3>2, InsideCounts DEF Inside
    <3> QED
      BY <3>1, <3>3 DEF TelemetryInv
  <2> QED
    BY <2>1, <2>2 DEF TelemetryInv
<1>2. ASSUME NEW b \in Bus, RecordDevice(b) PROVE TelemetryInv'
  <2>1. serviceReg'.count = gatewayCount'
    BY <1>2, RecordRegisters
  <2>2. ASSUME NEW d \in Device, ~BeingPolled(d)'
        PROVE  deviceReg'[d].count = deviceCount'[d]
    <3>1. CASE d = CurrentDevice(b)
      BY <1>2, <3>1, RecordRegisters
    <3>2. CASE d # CurrentDevice(b)
      <4>1. ~BeingPolled(d) /\ deviceReg'[d] = deviceReg[d] /\ deviceCount'[d] = deviceCount[d]
        BY <1>2, <2>2, <3>2, RecordRegisters
      <4> QED
        BY <4>1 DEF TelemetryInv
    <3> QED
      BY <3>1, <3>2
  <2> QED
    BY <2>1, <2>2 DEF TelemetryInv
<1>3. ASSUME NEW b \in Bus, Wake(b) \/ FinishCycle(b) PROVE TelemetryInv'
  BY <1>3, CycleRegisters DEF TelemetryInv
<1>4. ASSUME UNCHANGED <<taskVars, deviceVars, countVars, lineVars>> PROVE TelemetryInv'
  <2>1. /\ \A b \in Bus : Polling(b)' = Polling(b)
        /\ \A d \in Device : BeingPolled(d)' = BeingPolled(d)
    BY <1>4 DEF Polling, BeingPolled, HasDevice, CurrentDevice, taskVars
  <2> QED
    BY <1>4, <2>1 DEF TelemetryInv, deviceVars, countVars, lineVars
<1> QED
  BY <1>1, <1>2, <1>3, <1>4, StepKinds DEF Between

-----------------------------------------------------------------------------
(* The last error of a device against its status.                          *)

LEMMA ErrorStep ==
  ASSUME TypeOK, ExchangeInv, LocalsInv, [Next]_vars,
         NEW d \in Device, deviceReg'[d] # deviceReg[d]
  PROVE  ErrorExplained(d)
<1>1. PICK b \in Bus : RecordDevice(b)
  <2>1. \A b \in Bus : PointStep(b) => deviceReg' = deviceReg
    BY InsideStep DEF Inside
  <2>2. \A b \in Bus : Wake(b) \/ FinishCycle(b) => deviceReg' = deviceReg
    BY DEF Wake, FinishCycle, deviceVars
  <2> QED
    BY <2>1, <2>2, StepKinds DEF Between, deviceVars
<1>2. d = CurrentDevice(b)
  BY <1>1, RecordRegisters
<1>3. /\ deviceReg'[d].status = DeviceResult(b)
      /\ deviceReg'[d].count.error = task[b].error
  BY <1>1, <1>2, RecordRegisters
<1>4. DeviceResult(b) = STATUS_OK <=> task[b].failures = 0
  BY DEF DeviceResult, STATUS_OK, STATUS_OFFLINE, STATUS_PROTOCOL_ERROR, STATUS_DEGRADED
<1>5. DeviceResult(b) = STATUS_PROTOCOL_ERROR => task[b].protocol = Len(PointsOf[d])
  BY <1>2 DEF DeviceResult, STATUS_OK, STATUS_OFFLINE, STATUS_PROTOCOL_ERROR, STATUS_DEGRADED
<1>6. /\ task[b].failures = 0 => task[b].error = ERROR_NONE
      /\ task[b].protocol = Len(PointsOf[d]) => task[b].error \in ProtocolError
      /\ task[b].error = ERROR_NONE =>
           \A p \in PointsIn(d) :
             Answered(p) \/ (polled[p] = CHANNEL_FAILED /\ idle[p] > 0)
  BY <1>1, <1>2, AllPassed
<1> QED
  BY <1>3, <1>4, <1>5, <1>6 DEF ErrorExplained, Answered

-----------------------------------------------------------------------------
(* The inductive invariant and what follows from it.                       *)

LEMMA DeviceInvInit == Init => DeviceInv
<1> SUFFICES ASSUME Init PROVE DeviceInv
  OBVIOUS
<1>1. \A b \in Bus : ~Polling(b)
  BY DEF Init, Asleep, Polling
<1>2. TelemetryInv
  BY DEF Init, TelemetryInv
<1>3. ASSUME NEW d \in Device PROVE StatusShown(d, deviceReg[d].status)
  <2>1. PointsOf[d] \in Seq(Point) /\ Len(PointsOf[d]) \in Nat \ {0}
    BY PollingAssumption
  <2>2. \A p \in PointsIn(d) : p \in Point
    BY <2>1 DEF PointsIn
  <2>3. PointsIn(d) # {}
    BY <2>1 DEF PointsIn
  <2>4. \A p \in PointsIn(d) : ~Answered(p)
    BY <2>2 DEF Init, Answered, Fine, CHANNEL_OK, CHANNEL_DISABLED, CHANNEL_COMM_ERROR
  <2>5. deviceReg[d].status = STATUS_OFFLINE
    BY DEF Init
  <2> QED
    BY <2>3, <2>4, <2>5 DEF StatusShown, STATUS_OFFLINE, STATUS_OK, STATUS_PROTOCOL_ERROR
<1> QED
  BY <1>1, <1>2, <1>3 DEF DeviceInv, LocalsInv, ShownInv

(* DeviceInv holds in every reachable state.                               *)
THEOREM DeviceInvariance == Spec => [](IInv /\ DeviceInv)
<1>1. IInv /\ DeviceInv /\ [Next]_vars => DeviceInv'
  BY LocalsStep, ShownStep, TelemetryStep DEF IInv, DeviceInv
<1> QED
  BY DeviceInvInit, Invariance, <1>1, PTL DEF Spec

(* A device that is not being polled shows the status its points had when   *)
(* the poll left them, for any number of points, any threshold and any      *)
(* accepted writes.  (service.py:350-360, 735-742)                          *)
THEOREM DeviceStatusCorrect == Spec => []DeviceShowsPoints
<1>1. DeviceInv => DeviceShowsPoints
  BY DEF DeviceInv, ShownInv, StatusShown, DeviceShowsPoints, Answered
<1> QED
  BY DeviceInvariance, <1>1, PTL

(* While all poll tasks sleep no published counter is behind, however many  *)
(* lines overwrite the registers of SlaveID 1.  (service.py:586-606)        *)
THEOREM TelemetryCorrect == Spec => []QuietTelemetry
<1>1. DeviceInv => QuietTelemetry
  BY DEF DeviceInv, TelemetryInv, QuietTelemetry, Polling, BeingPolled
<1> QED
  BY DeviceInvariance, <1>1, PTL

(* Every status a device is published with comes with an error code that    *)
(* explains it.  (service.py:323-367)                                       *)
THEOREM ErrorCorrect == Spec => ErrorExplainsStatus
<1>1. IInv /\ DeviceInv /\ [Next]_vars =>
        [\A d \in Device : deviceReg'[d] # deviceReg[d] => ErrorExplained(d)]_vars
  BY ErrorStep DEF IInv, DeviceInv
<1> QED
  BY DeviceInvariance, <1>1, PTL DEF Spec, ErrorExplainsStatus

-----------------------------------------------------------------------------
(* The counters of the gateway against those of the devices.               *)

Summed == {"success", "protocol", "cycles"}

LEMMA TotalIsSum == \A count, field : SumOf(count, field) = FieldSum(count, field, Device)
  BY DEF SumOf, FieldSum

(* One more in a counter of one device and of the gateway, wrapped or not. *)
LEMMA TotalCounted ==
  ASSUME TypeOK, TypeOK', NEW d \in Device, NEW field \in Summed,
         gatewayCount[field] = TotalOf(field),
         deviceCount'[d][field] = IncCounter(deviceCount[d][field], CounterRange),
         gatewayCount'[field] = IncCounter(gatewayCount[field], CounterRange),
         \A e \in Device : e # d => deviceCount'[e][field] = deviceCount[e][field]
  PROVE  gatewayCount'[field] = TotalOf(field)'
<1> DEFINE old == FieldSum(deviceCount, field, Device)
           new == FieldSum(deviceCount', field, Device)
           v == deviceCount[d][field]
           w == deviceCount'[d][field]
<1>1. \A e \in Device : /\ deviceCount[e][field] \in 0..(CounterRange - 1)
                        /\ deviceCount'[e][field] \in 0..(CounterRange - 1)
  BY DEF TypeOK, Counters, Summed
<1>2. CounterRange \in Nat \ {0} /\ IsFiniteSet(Device)
  BY PollingAssumption
<1>3. old \in Int /\ new \in Int /\ new = old + w - v
  <2> DEFINE c == deviceCount
             e == deviceCount'
  <2>1. \A x \in Device : c[x][field] \in Int /\ e[x][field] \in Int
    BY <1>1, <1>2
  <2>2. \A x \in Device : x # d => e[x][field] = c[x][field]
    OBVIOUS
  <2> HIDE DEF c, e
  <2>3. /\ FieldSum(c, field, Device) \in Int
        /\ FieldSum(e, field, Device) \in Int
        /\ FieldSum(e, field, Device) = FieldSum(c, field, Device) + e[d][field] - c[d][field]
    <3>1. IsFiniteSet(Device)
      BY PollingAssumption
    <3> QED
      BY ONLY d \in Device, <3>1, <2>1, <2>2, FieldSumChanges
  <2> QED
    BY <2>3 DEF c, e
<1>4. v \in 0..(CounterRange - 1) /\ w = (v + 1) % CounterRange
  BY <1>1 DEF IncCounter
<1> HIDE DEF old, new, v, w
<1>5. w = IF v + 1 = CounterRange THEN 0 ELSE v + 1
  <2>1. CASE v + 1 = CounterRange
    <3>1. (v + 1) % CounterRange = 0
      BY <1>2, <1>4, <2>1, ModuloUnique
    <3> QED
      BY <1>4, <2>1, <3>1
  <2>2. CASE v + 1 # CounterRange
    BY <1>2, <1>4, <2>2
  <2> QED
    BY <2>1, <2>2
<1>6. new % CounterRange = ((old % CounterRange) + 1) % CounterRange
  <2>1. new = old + 1 \/ new = old + 1 - CounterRange
    BY <1>2, <1>3, <1>4, <1>5
  <2> QED
    BY <1>2, <1>3, <2>1, ModuloSucc
<1>7. TotalOf(field) = old % CounterRange /\ TotalOf(field)' = new % CounterRange
  BY TotalIsSum DEF TotalOf, old, new
<1> QED
  BY <1>6, <1>7 DEF IncCounter

LEMMA TotalKept ==
  ASSUME NEW field, gatewayCount[field] = TotalOf(field),
         gatewayCount'[field] = gatewayCount[field],
         \A e \in Device : deviceCount'[e][field] = deviceCount[e][field]
  PROVE  gatewayCount'[field] = TotalOf(field)'
<1>1. FieldSum(deviceCount', field, Device) = FieldSum(deviceCount, field, Device)
  BY FieldSumSame, PollingAssumption
<1> QED
  BY <1>1, TotalIsSum DEF TotalOf

LEMMA CountersStep ==
  TypeOK /\ ExchangeInv /\ TypeOK' /\ CounterSums /\ [Next]_vars => CounterSums'
<1> SUFFICES ASSUME TypeOK, ExchangeInv, TypeOK', CounterSums, [Next]_vars, NEW field \in Summed
             PROVE  gatewayCount'[field] = TotalOf(field)'
  BY DEF CounterSums, Summed
<1>1. gatewayCount[field] = TotalOf(field)
  BY DEF CounterSums, Summed
<1>2. ASSUME NEW d \in Device, NEW counted \in {"success", "timeout", "protocol"},
             CountBoth(d, counted)
      PROVE  gatewayCount'[field] = TotalOf(field)'
  <2>1. \A e \in Device : e # d => deviceCount'[e][field] = deviceCount[e][field]
    BY <1>2 DEF CountBoth, TypeOK
  <2>2. CASE field = counted
    <3>1. /\ deviceCount'[d][field] = IncCounter(deviceCount[d][field], CounterRange)
          /\ gatewayCount'[field] = IncCounter(gatewayCount[field], CounterRange)
      BY <1>2, <2>2 DEF CountBoth, TypeOK, Counters
    <3> QED
      BY <1>1, <2>1, <3>1, TotalCounted
  <2>3. CASE field # counted
    <3>1. /\ deviceCount'[d][field] = deviceCount[d][field]
          /\ gatewayCount'[field] = gatewayCount[field]
      BY <1>2, <2>3 DEF CountBoth, TypeOK, Counters, Summed
    <3> QED
      BY <1>1, <2>1, <3>1, TotalKept
  <2> QED
    BY <2>2, <2>3
<1>3. ASSUME NEW b \in Bus, PointValue(b) \/ PointTimeout(b) \/ PointProtocolError(b)
      PROVE  gatewayCount'[field] = TotalOf(field)'
  <2>1. CurrentDevice(b) \in Device
    BY <1>3, CurrentPointType
       DEF PointValue, PointTimeout, PointProtocolError, Replied, ExchangeInv
  <2> QED
    BY <1>2, <1>3, <2>1 DEF PointValue, PointTimeout, PointProtocolError
<1>4. ASSUME NEW b \in Bus, PointIoError(b) PROVE gatewayCount'[field] = TotalOf(field)'
  <2>1. gatewayCount'[field] = gatewayCount[field] /\ deviceCount' = deviceCount
    BY <1>4 DEF PointIoError, TypeOK, Counters, Summed
  <2> QED
    BY <1>1, <2>1, TotalKept
<1>5. ASSUME NEW b \in Bus, RecordDevice(b) PROVE gatewayCount'[field] = TotalOf(field)'
  <2> DEFINE d == CurrentDevice(b)
  <2>1. d \in Device
    BY <1>5, CurrentDeviceType DEF RecordDevice
  <2>2. \A e \in Device : e # d => deviceCount'[e][field] = deviceCount[e][field]
    BY <1>5 DEF RecordDevice, TypeOK
  <2>3. CASE field = "cycles"
    <3>1. /\ deviceCount'[d][field] = IncCounter(deviceCount[d][field], CounterRange)
          /\ gatewayCount'[field] = IncCounter(gatewayCount[field], CounterRange)
      BY <1>5, <2>1, <2>3 DEF RecordDevice, TypeOK, Counters
    <3> QED
      BY <1>1, <2>1, <2>2, <3>1, TotalCounted
  <2>4. CASE field # "cycles"
    <3>1. /\ deviceCount'[d][field] = deviceCount[d][field]
          /\ gatewayCount'[field] = gatewayCount[field]
      <4>1. field # "cycles" /\ field # "error"
        BY <2>4 DEF Summed
      <4>2. /\ deviceCount' = [deviceCount EXCEPT ![d].error = task[b].error,
                              ![d].cycles = IncCounter(@, CounterRange)]
            /\ gatewayCount' = [gatewayCount EXCEPT !.error = task[b].error,
                               !.cycles = IncCounter(@, CounterRange)]
        BY <1>5 DEF RecordDevice
      <4>3. deviceCount \in [Device -> Counters] /\ gatewayCount \in Counters
        BY DEF TypeOK
      <4> QED
        BY <2>1, <4>1, <4>2, <4>3 DEF Counters, Summed
    <3> QED
      BY <1>1, <2>2, <3>1, TotalKept
  <2> QED
    BY <2>3, <2>4
<1>6. ASSUME UNCHANGED countVars PROVE gatewayCount'[field] = TotalOf(field)'
  BY <1>1, <1>6, TotalKept DEF countVars
<1> QED
  BY <1>3, <1>4, <1>5, <1>6
     DEF Next, PollStep, Wake, SkipPoint, BeginExchange, PointEmpty, FinishCycle, LinkChange,
         WriteAccepted, vars

(* The counters of the gateway are the sums of the devices' counters modulo *)
(* the width of a register, for any number of devices and lines and however *)
(* often they wrapped.  (service.py:445-451, 504-510, 574-585)              *)
THEOREM CountersCorrect == Spec => []CounterSums
<1>1. Init => CounterSums
  <2> SUFFICES ASSUME Init, NEW field \in Summed PROVE gatewayCount[field] = TotalOf(field)
    BY DEF CounterSums, Summed
  <2>1. gatewayCount[field] = 0 /\ \A d \in Device : deviceCount[d][field] = 0
    BY DEF Init, NoCounts, Summed
  <2>2. FieldSum(deviceCount, field, Device) = 0
    BY <2>1, FieldSumZero, PollingAssumption
  <2> QED
    BY <2>1, <2>2, TotalIsSum, PollingAssumption DEF TotalOf
<1>2. IInv /\ IInv' /\ CounterSums /\ [Next]_vars => CounterSums'
  BY CountersStep DEF IInv
<1> QED
  BY <1>1, <1>2, Invariance, PTL DEF Spec

=============================================================================
