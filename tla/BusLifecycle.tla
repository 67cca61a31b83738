------------------------------ MODULE BusLifecycle ------------------------------
(***************************************************************************)
(* The life of the serial ports (service.py, run, _safe_connect_bus,       *)
(* _watchdog_loop; serial_client.py, connect and close): startup with its  *)
(* retries, the poll tasks and the watchdog that share the ports, and the  *)
(* shutdown, which may come at any moment.                                 *)
(*                                                                         *)
(* A cycle of a poll task is one exchange here, and a line has one device; *)
(* Polling has the inside of a cycle.  An adapter that is unplugged leaves *)
(* a port object behind that stays dead when it is plugged in again: the   *)
(* port must be opened anew.                                               *)
(***************************************************************************)
EXTENDS GatewayCodes, Sequences, FiniteSets, SequencesExt

CONSTANTS
  Bus,           \* serial lines
  BusOrder,      \* the lines in the order of the configuration
  RetryCount,    \* SERIAL_INIT_RETRY_COUNT
  ReconnectAt,   \* failed cycles after which the watchdog acts: 3
  GiveUpAt,      \* failed cycles after which a line is marked: 5
  CanReset,      \* FALSE: an opened port may fail to reset its buffers
  MaxFaults,     \* bound: how often the poll of a device raises
  MaxUnplugs     \* bound: how often adapters are unplugged

ASSUME LifecycleAssumption ==
  /\ BusOrder \in Seq(Bus) /\ Range(BusOrder) = Bus
  /\ \A i, j \in 1..Len(BusOrder) : BusOrder[i] = BusOrder[j] => i = j
  /\ RetryCount \in Nat \ {0}
  /\ ReconnectAt \in Nat \ {0} /\ GiveUpAt \in Nat /\ ReconnectAt <= GiveUpAt
  /\ CanReset \in BOOLEAN
  /\ MaxFaults \in Nat /\ MaxUnplugs \in Nat

VARIABLES
  main,        \* run(): its phase, the line it connects, the attempt
  watchdog,    \* the watchdog task, likewise
  poll,        \* poll[b]: the poll task of a line
  running,     \* OwenGatewayService._running
  started,     \* run()'s started_buses
  isConnected, \* BusState.is_connected
  failures,    \* BusState.consecutive_failures, saturated at GiveUpAt
  port,        \* OwenSerialClient._serial: no port object, a live or a dead one
  plugged,     \* the adapter is there
  unplugs,     \* number of unpluggings so far
  faults,      \* number of polls that raised so far
  device,      \* DeviceState.status of the line's device
  lineReg      \* bus_statuses and the line status registers

ports == <<isConnected, failures, port>>
field == <<plugged, unplugs, faults>>
vars == <<main, watchdog, poll, running, started, ports, field, device, lineReg>>

-----------------------------------------------------------------------------
Main == [pc : {"connect", "wait", "running", "stopped"}, at : Nat \ {0}, attempt : Nat \ {0}]
Watchdog == [pc : {"none", "sleep", "check", "connect", "wait"}, at : Nat \ {0}, attempt : Nat \ {0}]

Begin(pc) == [pc |-> pc, at |-> 1, attempt |-> 1]
More(proc) == proc.at <= Len(BusOrder)
At(proc) == BusOrder[proc.at]

Init ==
  /\ main = Begin("connect")
  /\ watchdog = Begin("none")
  /\ poll = [b \in Bus |-> "none"]
  /\ running = TRUE
  /\ started = {}
  /\ isConnected = [b \in Bus |-> FALSE]
  /\ failures = [b \in Bus |-> 0]
  /\ port = [b \in Bus |-> "none"]
  /\ plugged \in [Bus -> BOOLEAN]
  /\ unplugs = 0
  /\ faults = 0
  /\ device = [b \in Bus |-> STATUS_OFFLINE]
  /\ lineReg = [b \in Bus |-> STATUS_OFFLINE]

(* The watchdog runs between two of its awaits: it keeps the event loop.   *)
LoopFree == watchdog.pc \notin {"check", "connect"}

-----------------------------------------------------------------------------
(* _safe_connect_bus                                                       *)

(* connect(): the port opens and its buffers are reset.                    *)
Connected(b) ==
  /\ plugged[b]
  /\ port' = [port EXCEPT ![b] = "live"]
  /\ isConnected' = [isConnected EXCEPT ![b] = TRUE]
  /\ failures' = [failures EXCEPT ![b] = 0]

(* connect() raises: the port does not open, and the object of an earlier  *)
(* attempt stays, or it opens and the reset of its buffers raises.         *)
NotConnected(b) ==
  \/ UNCHANGED port
  \/ ~CanReset /\ plugged[b] /\ port' = [port EXCEPT ![b] = "live"]

(* A faulty NextAttempt: the attempts are not counted.                     *)
NextAttemptForever(proc, next) == [proc EXCEPT !.pc = "wait"]

(* A failed attempt: sleep and try again, or give the line up and go on.   *)
NextAttempt(proc, next) ==
  IF proc.attempt < RetryCount
  THEN [proc EXCEPT !.pc = "wait", !.attempt = @ + 1]
  ELSE [proc EXCEPT !.pc = next, !.attempt = 1, !.at = @ + 1]

GivesUp(proc, b) ==
  IF proc.attempt < RetryCount THEN UNCHANGED isConnected
  ELSE isConnected' = [isConnected EXCEPT ![b] = FALSE]

-----------------------------------------------------------------------------
(* run(): startup.                                                         *)

StartupConnects ==
  LET b == At(main) IN
    /\ main.pc = "connect" /\ More(main)
    /\ Connected(b)
    /\ started' = started \cup {b}
    /\ main' = [main EXCEPT !.at = @ + 1, !.attempt = 1]
    /\ UNCHANGED <<watchdog, poll, running, field, device, lineReg>>

StartupFails ==
  LET b == At(main) IN
    /\ main.pc = "connect" /\ More(main)
    /\ NotConnected(b)
    /\ GivesUp(main, b)
    /\ main' = NextAttempt(main, "connect")
    /\ UNCHANGED <<watchdog, poll, running, started, failures, field, device, lineReg>>

StartupRetries ==
  /\ main.pc = "wait"
  /\ main' = [main EXCEPT !.pc = "connect"]
  /\ UNCHANGED <<watchdog, poll, running, started, ports, field, device, lineReg>>

StartTasks ==
  /\ main.pc = "connect" /\ ~More(main)
  /\ main' = Begin("running")
  /\ watchdog' = Begin("sleep")
  /\ poll' = [b \in Bus |-> "asleep"]
  /\ UNCHANGED <<running, started, ports, field, device, lineReg>>

-----------------------------------------------------------------------------
(* The poll tasks.                                                         *)

(* The cycle begins: the exchange runs in a thread.  After _running was    *)
(* cleared the device loop returns at once.                                *)
PollBegins(b) ==
  /\ LoopFree /\ running
  /\ poll[b] = "asleep"
  /\ poll' = [poll EXCEPT ![b] = "exchange"]
  /\ UNCHANGED <<main, watchdog, running, started, ports, field, device, lineReg>>

(* The port goes away under the exchange that runs in the thread.          *)
Cut(b) == poll' = [poll EXCEPT ![b] = IF @ = "exchange" THEN "cut" ELSE @]

(* What the device is found to be: it answers through a live port, a dead  *)
(* one raises, and no port at all is a protocol error as long as the point *)
(* is polled in every cycle.  The exchange that lost its port may still    *)
(* have read the answer.                                                   *)
Found(b) ==
  CASE poll[b] = "cut"   -> {STATUS_OK, STATUS_PROTOCOL_ERROR, STATUS_OFFLINE}
    [] port[b] = "live"  -> {STATUS_OK}
    [] port[b] = "dead"  -> {STATUS_OFFLINE}
    [] OTHER             -> {STATUS_PROTOCOL_ERROR, STATUS_OFFLINE}

(* A faulty LineStatus: a line that is not connected has no status.         *)
LineStatusUnset(b) == IF isConnected'[b] THEN device'[b] ELSE 0

LineStatus(b) == IF isConnected'[b] THEN device'[b] ELSE STATUS_DISCONNECTED

(* A faulty PollEnds: the line is published after failures only.            *)
PollEndsUnpublished(b) ==
  /\ LoopFree
  /\ poll[b] \in {"exchange", "cut"}
  /\ \E s \in Found(b) : device' = [device EXCEPT ![b] = s]
  /\ failures' = [failures EXCEPT ![b] = 0]
  /\ poll' = [poll EXCEPT ![b] = "asleep"]
  /\ UNCHANGED <<main, watchdog, running, started, isConnected, port, field, lineReg>>

(* _poll_bus_once to its end: no device crashed.                           *)
PollEnds(b) ==
  /\ LoopFree
  /\ poll[b] \in {"exchange", "cut"}
  /\ \E s \in Found(b) : device' = [device EXCEPT ![b] = s]
  /\ failures' = [failures EXCEPT ![b] = 0]
  /\ poll' = [poll EXCEPT ![b] = "asleep"]
  /\ UNCHANGED <<main, watchdog, running, started, isConnected, port, field>>
  /\ lineReg' = [lineReg EXCEPT ![b] = LineStatus(b)]

(* _poll_device raised: the only failures that a cycle counts.             *)
PollCrashes(b) ==
  LET n == IF failures[b] < GiveUpAt THEN failures[b] + 1 ELSE GiveUpAt IN
    /\ LoopFree /\ faults < MaxFaults
    /\ poll[b] \in {"exchange", "cut"}
    /\ faults' = faults + 1
    /\ failures' = [failures EXCEPT ![b] = n]
    /\ isConnected' = [isConnected EXCEPT ![b] = @ /\ n < GiveUpAt]
    /\ device' = device
    /\ lineReg' = [lineReg EXCEPT ![b] = LineStatus(b)]
    /\ poll' = [poll EXCEPT ![b] = "asleep"]
    /\ UNCHANGED <<main, watchdog, running, started, port, plugged, unplugs>>

-----------------------------------------------------------------------------
(* The watchdog.                                                           *)

WatchdogWakes ==
  /\ watchdog.pc = "sleep" /\ running
  /\ watchdog' = Begin("check")
  /\ UNCHANGED <<main, poll, running, started, ports, field, device, lineReg>>

NeedsReconnect(b) == failures[b] >= ReconnectAt /\ isConnected[b]

WatchdogPasses ==
  /\ watchdog.pc = "check" /\ More(watchdog)
  /\ ~NeedsReconnect(At(watchdog))
  /\ watchdog' = [watchdog EXCEPT !.at = @ + 1]
  /\ UNCHANGED <<main, poll, running, started, ports, field, device, lineReg>>

(* A faulty WatchdogCloses: the line still counts as connected.             *)
WatchdogClosesOnly ==
  LET b == At(watchdog) IN
    /\ watchdog.pc = "check" /\ More(watchdog)
    /\ NeedsReconnect(b)
    /\ port' = [port EXCEPT ![b] = "none"]
    /\ watchdog' = [watchdog EXCEPT !.pc = "connect"]
    /\ Cut(b)
    /\ UNCHANGED <<main, running, started, isConnected, failures, field, device, lineReg>>

(* The port is closed without the lock of the line: an exchange may run.   *)
WatchdogCloses ==
  LET b == At(watchdog) IN
    /\ watchdog.pc = "check" /\ More(watchdog)
    /\ NeedsReconnect(b)
    /\ port' = [port EXCEPT ![b] = "none"]
    /\ isConnected' = [isConnected EXCEPT ![b] = FALSE]
    /\ watchdog' = [watchdog EXCEPT !.pc = "connect"]
    /\ Cut(b)
    /\ UNCHANGED <<main, running, started, failures, field, device, lineReg>>

WatchdogConnects ==
  LET b == At(watchdog) IN
    /\ watchdog.pc = "connect"
    /\ Connected(b)
    /\ watchdog' = [watchdog EXCEPT !.pc = "check", !.attempt = 1, !.at = @ + 1]
    /\ UNCHANGED <<main, poll, running, started, field, device, lineReg>>

WatchdogFails ==
  LET b == At(watchdog) IN
    /\ watchdog.pc = "connect"
    /\ NotConnected(b)
    /\ GivesUp(watchdog, b)
    /\ watchdog' = NextAttempt(watchdog, "check")
    /\ UNCHANGED <<main, poll, running, started, failures, field, device, lineReg>>

WatchdogRetries ==
  /\ watchdog.pc = "wait"
  /\ watchdog' = [watchdog EXCEPT !.pc = "connect"]
  /\ UNCHANGED <<main, poll, running, started, ports, field, device, lineReg>>

WatchdogSleeps ==
  /\ watchdog.pc = "check" /\ ~More(watchdog)
  /\ watchdog' = Begin("sleep")
  /\ UNCHANGED <<main, poll, running, started, ports, field, device, lineReg>>

-----------------------------------------------------------------------------
(* A faulty Stop: only the ports of connected lines are closed.             *)
StopClosesConnected ==
  /\ LoopFree
  /\ main.pc \in {"wait", "running"}
  /\ main' = Begin("stopped")
  /\ watchdog' = Begin("none")
  /\ poll' = [b \in Bus |-> "none"]
  /\ running' = FALSE
  /\ isConnected' = [b \in Bus |-> FALSE]
  /\ lineReg' = [b \in Bus |-> STATUS_OFFLINE]
  /\ port' = [b \in Bus |-> IF isConnected[b] THEN "none" ELSE port[b]]
  /\ UNCHANGED <<started, failures, field, device>>

(* The shutdown: run() is cancelled at one of its awaits, asyncio.gather   *)
(* has cancelled the tasks, and `finally' publishes and closes.            *)
Stop ==
  /\ LoopFree
  /\ main.pc \in {"wait", "running"}
  /\ main' = Begin("stopped")
  /\ watchdog' = Begin("none")
  /\ poll' = [b \in Bus |-> "none"]
  /\ running' = FALSE
  /\ isConnected' = [b \in Bus |-> FALSE]
  /\ lineReg' = [b \in Bus |-> STATUS_OFFLINE]
  /\ port' = [b \in Bus |-> IF b \in started THEN "none" ELSE port[b]]
  /\ UNCHANGED <<started, failures, field, device>>

(* The adapter.                                                            *)
Unplug(b) ==
  /\ plugged[b] /\ unplugs < MaxUnplugs
  /\ plugged' = [plugged EXCEPT ![b] = FALSE]
  /\ unplugs' = unplugs + 1
  /\ port' = [port EXCEPT ![b] = IF @ = "live" THEN "dead" ELSE @]
  /\ Cut(b)
  /\ UNCHANGED <<main, watchdog, running, started, isConnected, failures, faults, device, lineReg>>

Plug(b) ==
  /\ ~plugged[b]
  /\ plugged' = [plugged EXCEPT ![b] = TRUE]
  /\ UNCHANGED <<main, watchdog, poll, running, started, ports, unplugs, faults, device, lineReg>>

StartupStep == StartupConnects \/ StartupFails \/ StartupRetries \/ StartTasks
PollStep(b) == PollBegins(b) \/ PollEnds(b) \/ PollCrashes(b)
WatchdogStep ==
  \/ WatchdogWakes \/ WatchdogPasses \/ WatchdogCloses \/ WatchdogConnects
  \/ WatchdogFails \/ WatchdogRetries \/ WatchdogSleeps

Next ==
  \/ StartupStep
  \/ \E b \in Bus : PollStep(b)
  \/ WatchdogStep
  \/ Stop
  \/ \E b \in Bus : Unplug(b) \/ Plug(b)

(* Connects return, sleeps and exchanges end, and the loop serves every    *)
(* task.  Nobody need stop the gateway or plug an adapter in.              *)
Fairness ==
  /\ SF_vars(StartupStep)
  /\ SF_vars(WatchdogStep)
  /\ \A b \in Bus : SF_vars(PollStep(b))

Spec == Init /\ [][Next]_vars
FairSpec == Spec /\ Fairness

-----------------------------------------------------------------------------
(* Invariants.                                                             *)

TypeOK ==
  /\ main \in Main
  /\ watchdog \in Watchdog
  /\ poll \in [Bus -> {"none", "asleep", "exchange", "cut"}]
  /\ running \in BOOLEAN
  /\ started \subseteq Bus
  /\ isConnected \in [Bus -> BOOLEAN]
  /\ failures \in [Bus -> 0..GiveUpAt]
  /\ port \in [Bus -> {"none", "live", "dead"}]
  /\ plugged \in [Bus -> BOOLEAN]
  /\ unplugs \in 0..MaxUnplugs /\ faults \in 0..MaxFaults
  /\ device \in [Bus -> DeviceStatus]
  /\ lineReg \in [Bus -> Status]

(* A line counted as connected has a port object, and one that run() will   *)
(* close, whoever opened it last: startup or the watchdog.                  *)
(* (service.py:196-200, 246-251)                                            *)
ConnectedIsOwned ==
  \A b \in Bus : isConnected[b] => port[b] # "none" /\ b \in started

(* After the shutdown no line that was ever connected has its port open,    *)
(* also when it came in the middle of a reconnection.  (service.py:172-187) *)
PortsReleased ==
  main.pc = "stopped" => \A b \in started : port[b] = "none"

-----------------------------------------------------------------------------
(* Liveness.                                                               *)

(* Connecting ends whatever the adapters do: startup goes on to polling, so *)
(* that one dead line does not keep the other from being polled, and the    *)
(* watchdog from a line it reopens to the next one.                         *)
(* (service.py:154-165, 191-228, 238-251)                                   *)
ConnectingEnds ==
  /\ main.pc \in {"connect", "wait"} ~> main.pc \in {"running", "stopped"}
  /\ watchdog.pc \in {"connect", "wait"} ~> watchdog.pc \in {"sleep", "none"}

(* A line that stays connected through an adapter nobody unplugs is shown   *)
(* healthy in the end, also when the watchdog closed and reopened its port  *)
(* under a running exchange.  (service.py:253-304, 243-251)                 *)
SteadyLineIsOk ==
  \A b \in Bus :
    ([]plugged[b] /\ <>[](main.pc = "running") /\ <>[]isConnected[b])
      => <>[](lineReg[b] = STATUS_OK)

(* README.md:232-233: after a break of the line the gateway reconnects by   *)
(* itself and goes on working.                                              *)
LineComesBack ==
  \A b \in Bus :
    (<>[](main.pc = "running") /\ <>[]plugged[b]) => <>[](lineReg[b] = STATUS_OK)

=============================================================================
