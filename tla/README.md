# TLA+ models of the OVEN / Modbus TCP gateway

The gateway polls temperature controllers (OVEN TRM138) on up to two RS-485
lines and publishes what they measure, and how they are, in the holding
registers of a Modbus TCP server. A client may write setpoints through the same
registers. This directory holds TLA+ models of the program (`owen_gateway/`), the
TLC configurations that check them on small instances, and proofs, checked by
TLAPS, of the properties that matter most.

## 1. The system

| Component (source) | State | Operations | Interacts with |
|---|---|---|---|
| Polling engine (`service.py`, `_poll_*`, `_record_device_result`, `_update_bus_status`) | `PointState`, `DeviceState`, `bus_statuses`, the gateway's counters | one poll task per line: cycle, point, skip, record, publish | serial client (in a worker thread), datastore |
| Setpoint writes (`service.py`, `_handle_modbus_holding_write`, `_verify_written_value_locked`; `modbus_server.py`, `_ObservableDataBlock`) | the registers, one task per client write, the line's lock | store, write, read back, publish or restore | polling engine through the lock, the registers and the point's health |
| Logic unit mask (`service.py`, `_publish_logic_unit_masks`, `_evaluate_logic_unit`) | `device_logic_masks`, HR48 | compute from `point_values` and the previous mask | setpoint writes (the only caller), polling (the values) |
| Serial port life cycle (`service.py`, `run`, `_safe_connect_bus`, `_watchdog_loop`; `serial_client.py`, `connect`, `close`) | `BusState`, the port objects, `started_buses`, `_running` | connect with retries, watchdog, shutdown | poll tasks, adapters |
| Modbus server and datastore (`modbus_server.py`) | the register blocks | start, stop, publish, restore | everything above, pymodbus |
| Serial client (`serial_client.py`) | the port and its input buffer | exchange, write, diagnostic Modbus RTU read | the devices |
| Configuration loader (`config.py`) | none | load, resolve SlaveIDs, validate | gives the parameters of the rest |
| Configuration tools (`config_tools.py`), command line (`cli.py`) | a JSON file | add, remove and change lines, devices and channels | the loader reads what they write |
| OVEN protocol and encodings (`protocol.py`, `encoding.py`, `trm138_parameters.py`) | none | frames, parameter hashes, payloads, register values | serial client, datastore |
| Probe (`probe.py`) | none | scan addresses and parameters | serial client |
| Deployment (`deploy/linux`) | files, systemd | install | none |

What is hard in it:

- **Concurrency.** Everything runs on one asyncio loop, but a poll task gives the
  loop up in every exchange, and so does the handler of a write. The tasks of two
  lines share the line registers, the gateway's status and its counters; a handler
  and a poll share a line's lock, the registers of a point and its health. The
  watchdog does not take the lock.
- **Failure.** A device times out, garbles, answers with an empty payload; a port
  dies; a write is applied although its answer is lost; an acknowledgement is not
  a frame; opening a port fails half way.
- **Ordering and retries.** Writes become tasks that queue for the lock; a readback
  is tried three times; connecting twice; failed points are polled less often.
- **History.** The mask keeps its previous state inside the hysteresis band; a
  refused write restores values remembered from before.

What makes each component correct:

- polling: a point is failed, left out and polled again exactly as the `health`
  section says; device, line and gateway status always agree; counters add up;
  a device is finally reported as what it is;
- writes: an accepted write is in the device, the register shows what was read
  back, writes land in order, every write is resolved, and the register, the
  point value and the device agree once the line is quiet;
- mask: no chattering inside the band, no memory outside, off when unknown;
- ports: whoever opened a port, it is closed; one line's trouble never stops the
  other; a steady line is shown healthy;
- loader and tools: no order of edits makes points contradict each other, moves a
  device to another SlaveID or leaves a map behind that tells something else than
  the gateway does; no two things write one register; every write lies in its block;
- protocol: what is encoded decodes to the same value; an answer is attributed to
  the point that was asked, although only the hash of the parameter is compared.

## 2. The modules

| Module | What it is |
|---|---|
| `GatewayCodes` | the published codes, `_aggregate_status`, `_inc_counter` |
| `Polling` | the polling engine |
| `MCPolling` | its instances |
| `PollingProofs` | theorems about `Polling`: types, reduced polling, status, errors, telemetry and counters |
| `DataInduction` | facts on finite sets, sums and remainders that the other proofs use, by least counterexamples |
| `LogicUnits` | the evaluation of the logic units, as functions |
| `LogicUnitMask`, `MCLogicUnitMask` | the mask of one device over time |
| `LogicUnitMaskProofs` | theorems about it |
| `SetpointContract` | abstract: what a client may rely on when it writes |
| `SetpointWrite`, `MCSetpointWrite` | the write path together with the poll of the same points; implements the contract |
| `SetpointWriteProofs` | theorems about it, and that it implements the contract |
| `BusLifecycle`, `MCBusLifecycle` | the serial ports: startup, watchdog, shutdown |
| `BusLifecycleProofs` | theorems about them |
| `SerialExchange`, `MCSerialExchange` | the exchanges of one line, frame by frame, with answers that come late |
| `SerialExchangeProofs` | theorems about them |
| `ConfigLoader` | what `load_config` resolves and refuses, as functions of a document |
| `RegisterMap` | the registers the gateway writes for a document, and the sizes of the blocks |
| `ConfigTools`, `MCConfigTools` | the tools that edit a document, over time |
| `ConfigToolsProofs` | theorems about them, the loader and the registers |
| `Encodings`, `EncodingsProofs` | registers, payloads and frames as functions, and theorems about them |

`SetpointWrite` composes the write handler with a poll task, the lock of the line
and `LogicUnits`; `BusLifecycle` composes startup, poll tasks, watchdog and
shutdown, with a poll cycle reduced to one exchange. `SerialExchange` composes the
serial client, a poll task, a write handler and the line under them, at a level where
an exchange is a request and the frames that come back. `ConfigTools` extends
`RegisterMap`, which extends `ConfigLoader`: a tool edits, the loader judges, and the
datastore writes what the loader accepted.

**How the state corresponds.** Variables carry the names of the attributes they
stand for (`consecutiveFailures`, `recoverySkip`, `busStatus`, `isConnected`, ...);
registers are variables of their own (`channelReg`, `deviceReg`, `lineReg`,
`serviceReg`, `register`, `mask`), because what is published may lag behind what
the program knows. The locals of a coroutine are a record (`task`, `poll`, `write`,
`main`, `watchdog`): a program counter, loop positions and accumulators.

**How the actions correspond.** A coroutine runs without interruption from one await
that really suspends it to the next. Awaits that suspend are the exchange in a worker
thread, a sleep, and the lock of a line when it is taken; `_state_lock` never is, since
it is released before the next suspension. In `Polling`, `loop` names the task that has
the event loop; its own steps (one per skipped point, per outcome of an exchange, per
recorded device, per end of a cycle) may be several, but no other task moves in between.
Of a client's write `Polling` has what it does to the health of its point
(`WriteAccepted`): failures back to none, status and channel register ok, the cycles the
point still has to be left out untouched. Since the poll and the writes change the same
`PointState`, what a point's status was when its poll left it is a history variable of
its own (`polled`). In `SetpointWrite` the same is said by `LoopFree`. A handler's last
segment (lock released, acknowledgement examined, registers, health and mask published)
is a single action, `VerifyAccepts`.

In `SerialExchange` a frame is a record: what kind it is, which point sent it, and two
history marks the program does not have, whether it answers the request that waits
(`own`) and whether it was sent before the last pause of the poll task (`old`). `air`
holds the answers on their way, `buffer` the input buffer of the port, which
`reset_input_buffer` empties before each request. A device takes a written value within
its limits (`Stored`) or keeps the one it has, and a readback confirms a write when it
is within `Tolerance` of it, as `_values_match` does for decimals. In `ConfigTools` a
document is a record of lines, points and service registers; a tool that raises saves
nothing and is no step. Each action is a tool as `cli.py` uses it: load, edit, save, and
write the map if the result can be loaded.

**What is abstracted.** Values in `Polling` (an exchange ends in one of seven
outcomes: value, empty, timeout, request flag, wrong hash, undecodable, I/O error);
time marks; logging; the byte layout of frames and registers. In `SetpointWrite` a
value is an integer and `Stored` says what the device makes of it. An exchange and the
resumption of the task that awaited it are one action: the line's lock keeps other
exchanges away, and only the panel of the device could tell the difference.
`consecutive_failures` grows without bound in the program and saturates at
`FaultAfter` (`GiveUpAt` for lines) in the models; it is only ever compared with these.

Operators introduced as "a faulty ..." are small deviations of the definition
that follows them. They are used by no specification; each shows that a property
really depends on the code it is about: with the deviation in place of the
definition, TLC finds the property violated.

## 3. The runs

| Run | Instance | What it shows |
|---|---|---|
| `polling_status` (`MCPolling_status.cfg`) | lines with 2 and 1 devices of one point, of which one is written by clients, `FaultAfter` 2, `RecoveryCycles` 3, every line connected or not | `ReducedPolling`: failed after exactly `FaultAfter` failures, left out for exactly `RecoveryCycles - 1` cycles, also when a write is accepted meanwhile. `ChannelShowsPoint`: a channel register shows its point's status, but for a written point that is left out. `LineAgreesWithDevices`, `ServiceAgreesWithLines`: the statuses of devices, lines and gateway agree in every state. |
| `polling_counters` | two lines, a device each, values, timeouts, wrong hashes and I/O errors, counters modulo 2 | `CounterSums`: the gateway's counters are the sums of the devices', also after a wrap. `QuietTelemetry`: between cycles nothing published is behind. |
| `polling_live` | a line with two devices, one of 2 points of which one is written, links that change | a device that is good, silent or garbled for good is reported so for good (garbled: protocol error or offline); a disconnected line keeps showing 5. `DeviceShowsPoints`: a device's status is the one its poll left its points in. `ErrorExplainsStatus`: no status is published with an error code that contradicts it. |
| `broken_line` | two lines, links that break | **violated**: README.md:234-235 says a broken line shows 5. |
| `logic_mask` | one channel, measured 0..5, setpoints 2 and 3, hysteresis -1..1, modes 1..5 | `BandHolds` and, everywhere else, `InputsDecide`, after every order of polls and mask computations. |
| `write_race` | one setpoint, two writes of all or part of its registers, the panel, two attempts to read back, reduced polling | `VerifySeesOwnWrite`, `LastWriterWins`, and `Implements`: every behaviour is one of `SetpointContract`. `WriteResolved`: every write is accepted or refused. `RegistersConverge`: register, point value and device agree once the line is quiet. |
| `mask_stale` | three points, no client write | **violated**: README.md:109-114 says HR48 is computed from the polled values. |
| `bus_ports` | two lines, two attempts, an unplugging, three crashing polls, a stop at any await | `ConnectedIsOwned`, `PortsReleased`, `ConnectingEnds`, `SteadyLineIsOk`. |
| `line_comes_back` | one line, one unplugging | **violated**: README.md:232-233 says a broken line is reconnected. |
| `late_answers` (`MCSerialExchange.cfg`) | one line, a measured value and two setpoints of which one is written, values 0..2 with the device limiting at 1 and a tolerance of 1, two answers on their way at a time, an adapter that may return what is sent | `FreshAnswers`: nothing from before a pause is published. `OwnUnlessLeftOver`: another point's answer is published only if one was still on its way when the request went out. `WriteConfirmed`: what is published for an accepted write is what the device holds and within the tolerance of what was asked, unless an answer from before the write was taken for the readback. `CalmLineHeals`: the shift that one late answer causes does not outlive the pause of the cycle. |
| `config_edits` (`MCConfigTools.cfg`) | new, older, legacy and unsound documents and four edits; documents with points written by hand around each limit and one edit; two devices a line, channels 1 and 8, bases 96 and 103, serial parameters sound or not | `ToolDocumentsLoad`: for which reasons, and for which only, a document of the tools is refused. `OneWriterPerRegister`, `WritesFitBlocks`: what an accepted document makes the gateway write. `MapIsCurrent`, `MapTellsRegisters`: the map file agrees with it. `DevicesKeepIdentity`, `DoublesOnlyBySetChannels`: what an edit may do to devices. |
| `switched_channel` (`MCConfigTools_switched.cfg`) | a document with one line, two edits | **violated**: docs/SESSION_NOTES.md:12-14 says a channel can be taken out of the poll by a flag of its points. |

Bounds. Two lines are the program's limit (`MAX_BUSES`). A device of two points and a
line of two devices are the smallest that can be partly failed; status is computed from
sets of statuses, so more devices add no case. `FaultAfter` 2 and `RecoveryCycles` 3
make a point go through one failure, the threshold, and more than one skipped cycle.
Counters of two values wrap within a few cycles, out of step with one another; where
counters are not the question they have one value. One point that clients write and one
of the same device that they do not are enough to have an accepted write before, while
and after a point is left out, and next to a point that the write must leave alone. Two
writes are enough for one to overtake, restore over, or be verified against the other;
limits of the device and the tolerance of a readback are in `late_answers`, and the
theorems about `SetpointWrite` hold for all of them. In `bus_ports` the watchdog acts
after two crashes and a line is given up after three, in the program after three and
five; what matters is that both thresholds are reachable in either order. `MaxFaults`,
`MaxUnplugs` and `MaxWrites` bound what the environment does. In `late_answers` an
answer is at most one pause late and equal left-over answers count once (`air` is a
set); two on their way are enough to shift every later answer by one, and three points
to have answers that agree in the hash (two setpoints) and one that does not. A limit at
1 with a tolerance of 1 has writes that are taken as they are, limited and accepted,
refused and accepted, and refused for good. Reduced polling is left to `Polling`. In
`config_edits` two devices fill a line, instead of 32; with the first and last channel
of a device at 96 its other end is 103, the base of another device, so that sparse
devices drift onto it, and four edits are enough to get there and to repair a document
afterwards. `CHECK_DEADLOCK FALSE` is used for `BusLifecycle`, where a stopped gateway
does nothing more, and for `ConfigTools`, which stops when its edits are used up.

Fairness. `SF` for the steps of each task. An exchange ends after `timeout_ms` at the
latest, every sleep ends, a lock is handed on first come first served, and the
asyncio loop serves ready tasks in the order they became ready; weak fairness would
not express that, since a task is disabled whenever another has the loop. In
`late_answers` weak fairness is enough: timeouts end waits, the poll task goes on when
it has the lock, and what is on its way arrives; no client has to write. No
fairness is assumed of clients, devices, adapters, the panel, or of the line becoming
quiet (`Settle`).

## 4. What the runs found

1. **A broken line is not reconnected** (`line_comes_back`). The watchdog looks at
   `consecutive_failures` of lines that are still connected (`service.py:239`). Only
   an exception out of `_poll_device` increments it (`service.py:281-293`), but a dead
   port raises inside `_poll_single_point`, which handles it. A line that was given
   up, or never connected at startup, is not tried again either.
2. **A broken line is not shown as 5** (`broken_line`). For the same reason
   `is_connected` stays true and the line is published as 3.
3. **HR48 does not follow the polled values** (`mask_stale`). The mask is computed
   after an accepted write only (`service.py:743`).
4. **A switched channel makes the document unusable** (`switched_channel`).
   `enable_channel` and `disable_channel` add a key `enabled` that the loader does not
   know: `load_config` raises `TypeError` (`config_tools.py:295`), where
   docs/SESSION_NOTES.md:12-14 describes a flag that takes a channel out of the poll.

Met while modelling, without a run of their own:

- a line whose port opened but whose buffers could not be reset is left open at
  shutdown, against the comment at `service.py:221`; `tests/test_service.py:314`
  expects `run()` to raise when a line cannot be connected, but it goes on without it;
- MULTI_LINE_GATEWAY.md (3, 32, 59, 108) and CONFIG_UTILS.md:58 speak of four lines;
  `MAX_BUSES` is 2 (`config.py:39`, as the help texts of `cli.py` have it), and the loader
  and every tool refuse a third (`ToolDocumentsLoad` has this among its reasons). The
  tools get there by themselves: setting line 1 of a document that names its lines `bus1`
  and `bus2` appends `line1`;
- after an accepted write to a failed point the point is ok but still left out: the
  next cycle publishes its channel as failed again, and its device does not recover,
  until the point is polled (`ChannelShowsPoint`, `ReducedPolling`; `service.py:735-742`
  does not touch `recovery_skip_cycles`);
- `cli.py` registers `set-line` twice (59, 198): from Python 3.11 on `argparse` refuses
  that and no configuration command can be used; before, the second parser wins and
  options that are not given are stored as `None`, which the loader refuses;
- the loader does not check that the names of points differ, under which the service
  keeps their state; the tools never make two alike (`PointNamesApart`, proved and not
  in a run);
- a write that the device limits or refuses by up to 0.051 is accepted (`service.py:933`);
  what is then published is what the device holds (`WriteConfirmed`);
- the flag that `disable_line` stores is read by nobody, and `set_line` drops it;
- `update_trm138_channels` derives SlaveID and base anew from the smallest address
  that is left: a sparse device moves, and may come to share addresses with another
  (`DevicesKeepIdentity` and `DoublesOnlyBySetChannels` state exactly when);
- a tool's `validate_config` reports `modbus_address_overlap` for every device of two
  or more channels; the loader's checks leave out a point's own metadata, the metadata
  of internal points, HR10, HR11 and HR48 (`OneWriterPerRegister` names each of them);
- the readback of a write looks at neither hash nor address: a late answer to an earlier
  read can confirm a write the device refused (`WriteConfirmed` names the condition);
  an adapter that returns what is sent makes every poll fail;
- a `stored_dot` payload of one byte is padded before it is taken apart, so that its
  sign and exponent become digits: 0.0 is written as `0x10`
  (`tests/test_owen_protocol.py` expects that), and `0x10` is read as 16. For a device
  that answers a readback in one byte, 0, 1 and every other number that fits in one
  cannot be written (`OneByteIsMisread`). `register_width` and
  `encode_registers` do not know `stored_dot` at all.

## 5. The proofs

Every invariant and every action property of the passing runs is proved, and so is the
refinement of `SetpointContract`. Each proof module proves its theorems for every value
of the constants that satisfies the assumptions of its model (`PollingAssumption`,
`ExchangeAssumption`, ...), which is what the loader or the program guarantees.
Properties are seldom inductive; each module defines `IInv`, with the parts that make it
so, and has one lemma per action for the step `IInv /\ [Next]_vars => IInv'`.

- `PollingProofs`: `TypeCorrect`, `ReducedPollingCorrect`, `ChannelShownCorrect`,
  `LineStatusCorrect`, `ServiceStatusCorrect`, `DeviceStatusCorrect`, `ErrorCorrect`,
  `TelemetryCorrect`, `CountersCorrect`. `IInv` adds `ExchangeInv`, a task that waits
  for an exchange is at an existing point that is not left out, without which the end of
  an exchange could be credited to a point that is being skipped; and `StatusInv`, the
  registers agree with the variables behind them. An accepted write changes a point
  between any two steps of its poll, so that `ReducedPolling`, the locals and the
  device's status are stated of `polled`, which only the poll changes; what a write can
  make of a point besides is one value, ok (`Written`, `WrittenReduced`). `DeviceInv`
  says what the locals of `_poll_device` know of the points already passed: no failure
  means that all of them answered, as many failures as points that none did, as many
  protocol errors that all of them are garbled or failed, and no last error that the bad
  ones were left out. Nobody counts points in the proof: each of these facts is kept by
  one more point (`AdvanceLocals`). A device that no task is at shows its points and its
  counters, because a step of one task leaves the points of every other device alone
  (`InsideElsewhere`). The counters need the sum over all devices: one device's counter
  and the gateway's grow together and wrap independently, and the sum follows by as
  much, modulo the range (`TotalCounted`). That the sum exists and follows one of its
  parts, for any finite number of devices, is proved in `DataInduction`.
- `DataInduction`: no theorem of its own worth listing. An induction is done by taking a
  least counterexample: the well-founded orders of the library on numbers and on finite
  sets need no operator as a parameter. From it come the least number of a set, the
  greatest of a finite one, the sum over a finite set and what it changes by when one
  summand changes, and the uniqueness of remainders.
- `LogicUnitMaskProofs`: `TypeCorrect`, `BandHoldsCorrect`, `InputsDecideCorrect`.
  `IInv` adds that channels that are not configured have no values; the rest is
  arithmetic on the distance from the setpoint.
- `BusLifecycleProofs`: `TypeCorrect`, `ConnectedIsOwnedCorrect`,
  `PortsReleasedCorrect`. The watchdog opens ports too; they are closed because it
  reopens lines of `started_buses` only (`ReopensStarted`) and does not survive the
  shutdown (`StoppedForGood`).
- `SetpointWriteProofs`: `TypeCorrect`, `VerifySeesOwnWriteCorrect`,
  `LastWriterWinsCorrect`, `ImplementsCorrect`. The first three are about the lock. `IInv`
  adds what its queue looks like: the writes stand in it in the order the clients made
  them, a write that waits or verifies is in it, and the one that verifies is its head.
  The last is the refinement: the initial states map to initial states, and every action
  to a step of the contract or a stutter; that an older write is resolved before a newer
  one is accepted follows from the queue.
- `SerialExchangeProofs`: `TypeCorrect`, `FreshAnswersCorrect`,
  `OwnUnlessLeftOverCorrect`, `WriteConfirmedCorrect`, for any number of answers on
  their way, any limits of the devices and any tolerance. The properties speak of what
  was taken last; `IInv` says what may be in the buffer and on its way while an exchange
  waits: nothing old while the poll task is awake (`FreshInv`), only answers of its own
  unless one was on its way at the request (`OwnInv`), and for a write only answers with
  the value the device holds (`ValueInv`), so that a readback within the tolerance of
  the request publishes that value.
- `EncodingsProofs`: the round trips of registers, integer payloads, `stored_dot`,
  frames and symbols, for all values; and `OneByteIsMisread`, the payloads for which
  there is none. They are theorems about functions; no run repeats them.
- `ConfigToolsProofs`: `TypeCorrect`, `ToolDocumentsCorrect`, `PointNamesCorrect`,
  `MapRegistersCorrect`,
  `MapCorrect`, `WritesCorrect`, `WritersCorrect`, `IdentityCorrect`, `DoublesCorrect`,
  for every set of start documents, channels and base addresses, devices up to any
  `MaxDevices`, and any number of edits in any order. There are three layers.
  *What the tools keep*: sorting and removing lines keep the entries, because every
  position is taken by exactly one of them (`Positions`, by counting those before it);
  every point is one of the three that a tool makes for a channel of its device, whatever
  was switched on it since (`ToolPoint`); the points of a device have one SlaveID and lie
  on a line that exists (`ToolPoints`). `IInv` says this of a document that started
  without points, and typing and finiteness of every document; one lemma per tool shows
  that it keeps both (`Keeps`). Without `ToolPoints` the properties are not inductive: a
  document the loader refuses, say for a channel that is switched, may become acceptable
  by the next edit, and only what its points are says what is accepted then.
  *What the loader makes of it*: nothing is left to resolve in such a document
  (`NothingToResolve`), its registers never overlap (`ToolRegistersApart`), so that five
  reasons for a refusal remain (`ToolDocumentAccepted`).
  *What the gateway writes*: each write is of one of five kinds (`Writers`). A block is
  as large as the greatest end of what it was made for, a maximum of a finite set
  (`BlockIsLargeEnough`); two writers of one register contradict what the loader checked
  or are among what it does not check (`ClashIsExcused`, for any document), and the latter
  cannot be in a document of the tools, whose registers lie in bands of their own
  (`UncheckedRegisters`, `RunningNames`). Of the start documents it is assumed that they
  are documents, with finitely many points, a legacy one with one line, and that one
  without points has the service registers of the templates and no two lines of one name
  (`StartAssumption`).

Only model-checked: the liveness properties (`GoodDeviceIsOk`, `WriteResolved`,
`RegistersConverge`, `ConnectingEnds`, `SteadyLineIsOk`, `CalmLineHeals` and the others),
which are out of the prover's reach, and the four violations. The only recursive
definition the models use, the fold behind the sums of `Polling`, is treated in
`DataInduction`; none is declared `RECURSIVE`.

A parenthesis more than needed around `UNION` and `SUBSET` is deliberate: the parsers of
TLC and TLAPS read `UNION A \cup B` differently.

## 6. Not modelled

- `probe.py`: one sequential loop of the same exchanges as in `SerialExchange`, for the
  commissioning engineer; it keeps no state, and checks neither flag nor hash. The Modbus
  RTU read of the serial client is used by it alone.
- The tools that only print (lists, summaries, the report of `validate_config`), the
  export to another file, argument parsing and menus: text output without decisions
  that change state.
- Starting pymodbus: the server runs in a task nobody awaits, and what happens to it is
  decided by the operating system.
- `float32` payloads and registers (conversions of `struct`), the hash of parameter names
  and the checksum (polynomial arithmetic on bits; a frame is garbled or not in
  `SerialExchange`), the table of parameter names.
- The deployment scripts, logging and diagnostics.
