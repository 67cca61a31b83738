--------------------------- MODULE BusLifecycleProofs ---------------------------
(***************************************************************************)
(* Proofs about BusLifecycle for every set of lines, every number of       *)
(* retries, every threshold, and however often polls raise and adapters    *)
(* are unplugged.                                                          *)
(*                                                                         *)
(* ConnectedIsOwned and PortsReleased are not inductive by themselves.     *)
(* The watchdog opens ports too: that run() closes them again depends on   *)
(* its reopening lines of started_buses only.  And nothing opens a port    *)
(* after the shutdown because the watchdog is gone with it.                *)
(***************************************************************************)
EXTENDS BusLifecycle, TLAPS

(* The line that the watchdog reopens is one that startup had connected.   *)
ReopensStarted ==
  watchdog.pc \in {"connect", "wait"} => More(watchdog) /\ At(watchdog) \in started

(* The watchdog does not survive the shutdown.                             *)
StoppedForGood == main.pc = "stopped" => watchdog.pc = "none"

IInv ==
  /\ TypeOK
  /\ ConnectedIsOwned
  /\ PortsReleased
  /\ ReopensStarted
  /\ StoppedForGood

-----------------------------------------------------------------------------
(* Facts about the operators.                                              *)

(* A task that is not past the last line is at a line.                     *)
LEMMA AtLine ==
  ASSUME NEW proc, proc.at \in Nat \ {0}, More(proc)
  PROVE  At(proc) \in Bus
  <1>1. proc.at \in 1..Len(BusOrder)
    BY LifecycleAssumption DEF More
  <1> QED
    BY <1>1, LifecycleAssumption DEF At

(* The positions and attempts of a task go up from one.                    *)
LEMMA Upwards ==
  ASSUME NEW proc, proc.at \in Nat \ {0}, proc.attempt \in Nat \ {0}
  PROVE  /\ proc.at + 1 \in Nat \ {0} /\ proc.attempt + 1 \in Nat \ {0}
         /\ 1 \in Nat \ {0}
  OBVIOUS

(* A counter of failures that was reset.                                   *)
LEMMA NoFailures == 0 \in 0..GiveUpAt
  BY LifecycleAssumption

(* The statuses of devices are statuses of lines.                          *)
LEMMA StatusTypes ==
  /\ DeviceStatus \subseteq Status /\ STATUS_DISCONNECTED \in Status
  /\ STATUS_OFFLINE \in DeviceStatus
  BY DEF DeviceStatus, Status, STATUS_DISCONNECTED, STATUS_OFFLINE

(* What a poll can find is a status of a device.                           *)
LEMMA FoundTypes ==
  ASSUME NEW b \in Bus
  PROVE  Found(b) \subseteq DeviceStatus
  BY DEF Found, DeviceStatus, STATUS_OK, STATUS_PROTOCOL_ERROR, STATUS_OFFLINE

LEMMA InitIInv == Init => IInv
  <1> SUFFICES ASSUME Init PROVE IInv
    OBVIOUS
  <1>1. TypeOK
    BY StatusTypes, LifecycleAssumption DEF Init, TypeOK, Main, Watchdog, Begin
  <1>2. ConnectedIsOwned /\ PortsReleased /\ ReopensStarted /\ StoppedForGood
    BY DEF Init, ConnectedIsOwned, PortsReleased, ReopensStarted, StoppedForGood, Begin
  <1> QED
    BY <1>1, <1>2 DEF IInv

-----------------------------------------------------------------------------
(* Startup.                                                                *)

LEMMA StartupPreserves ==
  ASSUME IInv, StartupStep
  PROVE  IInv'
  <1> USE DEF IInv
  <1>0. main \in Main
    BY DEF TypeOK
  <1>1. CASE StartupConnects
    <2>1. At(main) \in Bus /\ main.pc = "connect"
      BY <1>0, <1>1, AtLine DEF StartupConnects, Main
    <2>2. TypeOK'
      <3>1. main' \in Main
        BY <1>0, <1>1, Upwards DEF StartupConnects, Main
      <3>2. failures' \in [Bus -> 0..GiveUpAt]
        BY <1>1, <2>1, NoFailures DEF StartupConnects, Connected, TypeOK
      <3> QED
        BY <1>1, <2>1, <3>1, <3>2 DEF StartupConnects, Connected, TypeOK, field
    <2>3. main'.pc = "connect" /\ At(main) \in started' /\ port'[At(main)] = "live"
      BY <1>1, <2>1 DEF StartupConnects, Connected, TypeOK, Main
    <2>4. ConnectedIsOwned'
      BY <1>1, <2>1 DEF StartupConnects, Connected, TypeOK, ConnectedIsOwned
    <2>5. PortsReleased' /\ StoppedForGood' /\ ReopensStarted'
      BY <1>1, <2>3 DEF StartupConnects, PortsReleased, StoppedForGood, ReopensStarted,
         More, At
    <2> QED
      BY <2>2, <2>4, <2>5
  <1>2. CASE StartupFails
    <2>1. At(main) \in Bus /\ main.pc = "connect"
      BY <1>0, <1>2, AtLine DEF StartupFails, Main
    <2>2. main' \in Main /\ main'.pc \in {"connect", "wait"}
      BY <1>0, <1>2, Upwards DEF StartupFails, NextAttempt, Main
    <2>3. port' \in [Bus -> {"none", "live", "dead"}]
          /\ \A b \in Bus : port[b] # "none" => port'[b] # "none"
      BY <1>2, <2>1 DEF StartupFails, NotConnected, TypeOK
    <2>4. isConnected' \in [Bus -> BOOLEAN]
          /\ \A b \in Bus : isConnected'[b] => isConnected[b]
      BY <1>2, <2>1 DEF StartupFails, GivesUp, TypeOK
    <2>5. TypeOK'
      BY <1>2, <2>2, <2>3, <2>4 DEF StartupFails, TypeOK, field
    <2>6. ConnectedIsOwned'
      BY <1>2, <2>3, <2>4 DEF StartupFails, ConnectedIsOwned
    <2>7. PortsReleased' /\ StoppedForGood' /\ ReopensStarted'
      BY <1>2, <2>2 DEF StartupFails, PortsReleased, StoppedForGood, ReopensStarted, More, At
    <2> QED
      BY <2>5, <2>6, <2>7
  <1>3. CASE StartupRetries
    <2>1. main' \in Main /\ main'.pc = "connect"
      BY <1>0, <1>3 DEF StartupRetries, Main
    <2>2. TypeOK'
      BY <1>3, <2>1 DEF StartupRetries, TypeOK, ports, field
    <2> QED
      BY <1>3, <2>1, <2>2 DEF StartupRetries, ports, ConnectedIsOwned, PortsReleased,
         StoppedForGood, ReopensStarted, More, At
  <1>4. CASE StartTasks
    <2>1. /\ main' \in Main /\ main'.pc = "running"
          /\ watchdog' \in Watchdog /\ watchdog'.pc = "sleep"
      BY <1>4 DEF StartTasks, Begin, Main, Watchdog
    <2>2. TypeOK'
      BY <1>4, <2>1 DEF StartTasks, TypeOK, ports, field
    <2> QED
      BY <1>4, <2>1, <2>2 DEF StartTasks, ports, ConnectedIsOwned, PortsReleased,
         StoppedForGood, ReopensStarted
  <1> QED
    BY <1>1, <1>2, <1>3, <1>4 DEF StartupStep

-----------------------------------------------------------------------------
(* The poll tasks: they open and close nothing, and a cycle that crashes   *)
(* can only take the connection away.                                      *)

LEMMA PollPreserves ==
  ASSUME IInv, NEW b \in Bus, PollStep(b)
  PROVE  IInv'
  <1> USE DEF IInv
  <1>1. /\ port' = port /\ started' = started
        /\ UNCHANGED <<main, watchdog>>
        /\ isConnected' \in [Bus -> BOOLEAN]
        /\ \A c \in Bus : isConnected'[c] => isConnected[c]
    BY DEF PollStep, PollBegins, PollEnds, PollCrashes, TypeOK, ports
  <1>2. TypeOK'
    <2>1. CASE PollBegins(b)
      BY <2>1 DEF PollBegins, TypeOK, ports, field
    <2>2. CASE PollEnds(b)
      <3>1. device' \in [Bus -> DeviceStatus]
        BY <2>2, FoundTypes DEF PollEnds, TypeOK
      <3>2. LineStatus(b) \in Status
        BY <3>1, StatusTypes DEF LineStatus
      <3>3. failures' \in [Bus -> 0..GiveUpAt]
        BY <2>2, NoFailures DEF PollEnds, TypeOK
      <3> QED
        BY <2>2, <3>1, <3>2, <3>3 DEF PollEnds, TypeOK, field
    <2>3. CASE PollCrashes(b)
      <3>1. LineStatus(b) \in Status
        BY <2>3, StatusTypes DEF PollCrashes, LineStatus, TypeOK
      <3>2. failures' \in [Bus -> 0..GiveUpAt] /\ faults' \in 0..MaxFaults
        BY <2>3, LifecycleAssumption DEF PollCrashes, TypeOK
      <3> QED
        BY <1>1, <2>3, <3>1, <3>2 DEF PollCrashes, TypeOK
    <2> QED
      BY <2>1, <2>2, <2>3 DEF PollStep
  <1> QED
    BY <1>1, <1>2 DEF ConnectedIsOwned, PortsReleased, StoppedForGood, ReopensStarted, More, At

-----------------------------------------------------------------------------
(* The watchdog.  While it runs, run() has not stopped.                    *)

LEMMA WatchdogPreserves ==
  ASSUME IInv, WatchdogStep
  PROVE  IInv'
  <1> USE DEF IInv
  <1>0. watchdog \in Watchdog /\ watchdog.pc # "none" /\ main.pc # "stopped" /\ main' = main
        /\ started' = started
    BY DEF WatchdogStep, WatchdogWakes, WatchdogPasses, WatchdogCloses, WatchdogConnects,
       WatchdogFails, WatchdogRetries, WatchdogSleeps, StoppedForGood, TypeOK
  <1>1. CASE WatchdogWakes \/ WatchdogPasses \/ WatchdogSleeps
    <2>1. watchdog' \in Watchdog /\ watchdog'.pc \in {"sleep", "check"}
      BY <1>0, <1>1 DEF WatchdogWakes, WatchdogPasses, WatchdogSleeps, Begin, Watchdog
    <2>2. UNCHANGED <<main, poll, running, started, ports, field, device, lineReg>>
      BY <1>1 DEF WatchdogWakes, WatchdogPasses, WatchdogSleeps
    <2>3. TypeOK'
      BY <2>1, <2>2 DEF TypeOK, ports, field
    <2> QED
      BY <1>0, <2>1, <2>2, <2>3 DEF ports, ConnectedIsOwned, PortsReleased, StoppedForGood,
         ReopensStarted
  <1>2. CASE WatchdogRetries
    <2>1. watchdog' \in Watchdog /\ watchdog'.at = watchdog.at
      BY <1>0, <1>2 DEF WatchdogRetries, Watchdog
    <2>2. TypeOK'
      BY <1>2, <2>1 DEF WatchdogRetries, TypeOK, ports, field
    <2> QED
      BY <1>0, <1>2, <2>1, <2>2 DEF WatchdogRetries, ports, ConnectedIsOwned, PortsReleased,
         StoppedForGood, ReopensStarted, More, At
  <1>3. CASE WatchdogCloses
    <2>1. At(watchdog) \in Bus
      BY <1>0, <1>3, AtLine DEF WatchdogCloses, Watchdog
    <2>2. At(watchdog) \in started /\ More(watchdog)
      BY <1>3, <2>1 DEF WatchdogCloses, NeedsReconnect, ConnectedIsOwned
    <2>3. watchdog' \in Watchdog /\ watchdog'.at = watchdog.at
      BY <1>0, <1>3 DEF WatchdogCloses, Watchdog
    <2>4. TypeOK'
      BY <1>3, <2>3 DEF WatchdogCloses, Cut, TypeOK, field
    <2>5. ConnectedIsOwned'
      BY <1>3, <2>1 DEF WatchdogCloses, ConnectedIsOwned, TypeOK
    <2> QED
      BY <1>0, <2>2, <2>3, <2>4, <2>5 DEF PortsReleased, StoppedForGood, ReopensStarted, More, At
  <1>4. CASE WatchdogConnects
    <2>1. At(watchdog) \in Bus /\ At(watchdog) \in started
      BY <1>0, <1>4, AtLine DEF WatchdogConnects, ReopensStarted, Watchdog
    <2>2. watchdog' \in Watchdog /\ watchdog'.pc = "check"
      BY <1>0, <1>4, Upwards DEF WatchdogConnects, Watchdog
    <2>3. TypeOK'
      BY <1>4, <2>1, <2>2, NoFailures DEF WatchdogConnects, Connected, TypeOK, field
    <2>4. ConnectedIsOwned'
      BY <1>4, <2>1 DEF WatchdogConnects, Connected, ConnectedIsOwned, TypeOK
    <2> QED
      BY <1>0, <2>2, <2>3, <2>4 DEF PortsReleased, StoppedForGood, ReopensStarted
  <1>5. CASE WatchdogFails
    <2>1. At(watchdog) \in Bus /\ At(watchdog) \in started /\ More(watchdog)
      BY <1>0, <1>5, AtLine DEF WatchdogFails, ReopensStarted, Watchdog
    <2>2. /\ watchdog' \in Watchdog
          /\ watchdog'.pc = "check" \/ watchdog'.at = watchdog.at
      BY <1>0, <1>5, Upwards DEF WatchdogFails, NextAttempt, Watchdog
    <2>3. port' \in [Bus -> {"none", "live", "dead"}]
          /\ \A b \in Bus : port[b] # "none" => port'[b] # "none"
      BY <1>5, <2>1 DEF WatchdogFails, NotConnected, TypeOK
    <2>4. isConnected' \in [Bus -> BOOLEAN]
          /\ \A b \in Bus : isConnected'[b] => isConnected[b]
      BY <1>5, <2>1 DEF WatchdogFails, GivesUp, TypeOK
    <2>5. TypeOK'
      BY <1>5, <2>2, <2>3, <2>4 DEF WatchdogFails, TypeOK, field
    <2>6. ConnectedIsOwned'
      BY <1>0, <2>3, <2>4 DEF ConnectedIsOwned
    <2>7. ReopensStarted'
      BY <1>0, <2>1, <2>2 DEF ReopensStarted, More, At
    <2> QED
      BY <1>0, <2>5, <2>6, <2>7 DEF PortsReleased, StoppedForGood
  <1> QED
    BY <1>1, <1>2, <1>3, <1>4, <1>5 DEF WatchdogStep

-----------------------------------------------------------------------------
(* The shutdown and the adapters.                                          *)

LEMMA StopPreserves ==
  ASSUME IInv, Stop
  PROVE  IInv'
  <1> USE DEF IInv
  <1>1. main' \in Main /\ watchdog' \in Watchdog /\ watchdog'.pc = "none"
    BY DEF Stop, Begin, Main, Watchdog
  <1>2. TypeOK'
    BY <1>1, StatusTypes DEF Stop, TypeOK, field
  <1>3. PortsReleased'
    BY DEF Stop, PortsReleased, TypeOK
  <1> QED
    BY <1>1, <1>2, <1>3 DEF Stop, ConnectedIsOwned, StoppedForGood, ReopensStarted

LEMMA AdapterPreserves ==
  ASSUME IInv, NEW b \in Bus, Unplug(b) \/ Plug(b)
  PROVE  IInv'
  <1> USE DEF IInv
  <1>1. /\ port' \in [Bus -> {"none", "live", "dead"}]
        /\ \A c \in Bus : port'[c] = "none" <=> port[c] = "none"
    BY DEF Unplug, Plug, TypeOK, ports
  <1>2. TypeOK'
    <2>1. CASE Unplug(b)
      <3>1. unplugs' \in 0..MaxUnplugs
        BY <2>1, LifecycleAssumption DEF Unplug, TypeOK
      <3>2. poll' \in [Bus -> {"none", "asleep", "exchange", "cut"}]
        BY <2>1 DEF Unplug, Cut, TypeOK
      <3> QED
        BY <1>1, <2>1, <3>1, <3>2 DEF Unplug, TypeOK
    <2>2. CASE Plug(b)
      BY <2>2 DEF Plug, TypeOK, ports
    <2> QED
      BY <2>1, <2>2
  <1> QED
    BY <1>1, <1>2 DEF Unplug, Plug, ports, ConnectedIsOwned, PortsReleased, StoppedForGood,
       ReopensStarted, More, At, TypeOK

LEMMA NextIInv == IInv /\ [Next]_vars => IInv'
  <1> SUFFICES ASSUME IInv, [Next]_vars PROVE IInv'
    OBVIOUS
  <1>1. CASE UNCHANGED vars
    BY <1>1 DEF vars, ports, field, IInv, TypeOK, ConnectedIsOwned, PortsReleased,
       ReopensStarted, StoppedForGood, More, At
  <1>2. CASE Next
    BY <1>2, StartupPreserves, PollPreserves, WatchdogPreserves, StopPreserves,
       AdapterPreserves DEF Next
  <1> QED
    BY <1>1, <1>2

LEMMA Invariance == Spec => []IInv
  BY InitIInv, NextIInv, PTL DEF Spec

-----------------------------------------------------------------------------
(* Every variable of the port life cycle keeps its type; above all, the    *)
(* failure count saturates and a line always shows a declared status.      *)
THEOREM TypeCorrect == Spec => []TypeOK
  <1>1. IInv => TypeOK
    BY DEF IInv
  <1> QED
    BY <1>1, Invariance, PTL

(* A line counted as connected has a port object and is one that run()     *)
(* closes at the end, whoever opened it last.                              *)
THEOREM ConnectedIsOwnedCorrect == Spec => []ConnectedIsOwned
  <1>1. IInv => ConnectedIsOwned
    BY DEF IInv
  <1> QED
    BY <1>1, Invariance, PTL

(* After the shutdown, at whichever await it came, no line that was ever   *)
(* connected has its port open, and it stays so.                           *)
THEOREM PortsReleasedCorrect == Spec => []PortsReleased
  <1>1. IInv => PortsReleased
    BY DEF IInv
  <1> QED
    BY <1>1, Invariance, PTL

=============================================================================
