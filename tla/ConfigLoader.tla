----------------------------- MODULE ConfigLoader -----------------------------
(***************************************************************************)
(* What load_config makes of a configuration document, and which documents *)
(* it refuses (config.py).  A document is a record                         *)
(*   legacy    it has no "buses" key: one line, described at the top level *)
(*   buses     the lines, in the order of the file                         *)
(*   points    the points                                                  *)
(*   service   where status and telemetry are published: register types    *)
(*             and sets of addresses, empty when disabled                  *)
(* A line is [name, on, sound]: on is the key "enabled", which only the    *)
(* tools read; sound says that _validate_serial_config and the limits on   *)
(* poll_interval_ms and modbus_slave_base find nothing.  A key that is     *)
(* absent from a point, or null, is None.  A refusal raises; which of      *)
(* several reasons is raised first is not told apart.                      *)
(***************************************************************************)
EXTENDS Integers, FiniteSets, Sequences

CONSTANTS
  None,          \* an absent key
  MaxBuses,      \* MAX_BUSES
  MaxDevices     \* MAX_DEVICES_PER_BUS

ASSUME LoaderAssumption ==
  /\ MaxBuses \in Nat \ {0} /\ MaxDevices \in Nat \ {0}
  /\ None \notin Int /\ None \notin STRING /\ None \notin BOOLEAN

SERVICE_SLAVE_ID == 1
MaxOvenAddress == 2047
RegisterType == {"coil", "discrete_input", "holding_register", "input_register"}
LegacyBusName == "bus1"       \* the loader's name for the line of a legacy document

SmallestOf(S) == CHOOSE x \in S : \A y \in S : x <= y
Present(S) == S \ {None}
Span(first, width) == first..(first + width - 1)

-----------------------------------------------------------------------------
(* Resolution: _load_buses, _load_point, _resolve_modbus_slave_ids.        *)

BusNames(doc) == {doc.buses[i].name : i \in DOMAIN doc.buses}

LoadPoint(doc, p) == IF p.bus = None THEN [p EXCEPT !.bus = doc.buses[1].name] ELSE p
LoadedPoints(doc) == {LoadPoint(doc, p) : p \in doc.points}

DeviceKey(p) == <<p.bus, p.device>>
DeviceKeys(points) == {DeviceKey(p) : p \in points}
DevicePoints(points, dev) == {p \in points : DeviceKey(p) = dev}
ExplicitIds(points, dev) == Present({p.slave : p \in DevicePoints(points, dev)})

(* The SlaveID of a device: the one its points name, else their smallest   *)
(* OVEN address.  The base of the line is not used.                        *)
ResolvedId(points, dev) ==
  LET explicit == ExplicitIds(points, dev)
  IN  IF explicit # {} THEN CHOOSE id \in explicit : TRUE
      ELSE SmallestOf({p.address : p \in DevicePoints(points, dev)})

Resolve(doc) ==
  LET points == LoadedPoints(doc)
      id == [dev \in DeviceKeys(points) |-> ResolvedId(points, dev)]
  IN  {[p EXCEPT !.slave = id[DeviceKey(p)]] : p \in points}

-----------------------------------------------------------------------------
(* Refusals: validate_config.                                              *)

LinesAccepted(doc) ==
  /\ Len(doc.buses) \in 1..MaxBuses
  /\ \A i, j \in DOMAIN doc.buses : doc.buses[i].name = doc.buses[j].name => i = j
  /\ \A i \in DOMAIN doc.buses : doc.buses[i].sound

(* PointConfig has no field for the tools' key "enabled": TypeError.      *)
KeysKnown(doc) == \A p \in doc.points : p.enabled = None

OneIdPerDevice(doc) ==
  LET points == LoadedPoints(doc)
  IN  \A dev \in DeviceKeys(points) : Cardinality(ExplicitIds(points, dev)) <= 1

Addresses(p) == {p.start} \cup Present({p.timeMark, p.channelStatus})

PointAccepted(names, p) ==
  /\ p.bus \in names
  /\ p.device \in 1..MaxDevices
  /\ p.slave \in 1..247 /\ p.slave # SERVICE_SLAVE_ID
  /\ p.address \in 0..MaxOvenAddress
  /\ p.type \in RegisterType
  /\ p.writable => p.published /\ p.type = "holding_register" /\ p.compatible
  /\ \A a \in Addresses(p) : a >= 0

SlaveIdsApart(points) == \A p, q \in points : p.slave = q.slave => DeviceKey(p) = DeviceKey(q)

(* The registers a published point takes in the check of overlaps.         *)
Claims(p) == Span(p.start, p.width) \cup Present({p.timeMark, p.channelStatus})

(* Status and telemetry take theirs in every device that publishes points  *)
(* of the same register type.                                              *)
ServiceClaims(service, type) ==
  (IF service.statusType = type THEN service.status ELSE {})
  \cup (IF service.telemetryType = type THEN service.telemetry ELSE {})

ServiceAccepted(service) ==
  /\ \A r \in service.status \cup service.telemetry : r >= 0
  /\ service.statusType = service.telemetryType => service.status \cap service.telemetry = {}

RegistersApart(service, points) ==
  LET shown == {p \in points : p.published}
  IN  \A p \in shown :
        /\ Claims(p) \cap ServiceClaims(service, p.type) = {}
        /\ \A q \in shown \ {p} :
             q.slave = p.slave /\ q.type = p.type => Claims(p) \cap Claims(q) = {}

(* load_config returns a configuration.  The limits on the number of       *)
(* devices never bite: they follow from the range of the device numbers.   *)
Accepted(doc) ==
  /\ LinesAccepted(doc)
  /\ KeysKnown(doc)
  /\ OneIdPerDevice(doc)
  /\ ServiceAccepted(doc.service)
  /\ LET points == Resolve(doc) IN
       /\ \A p \in points : PointAccepted(BusNames(doc), p)
       /\ SlaveIdsApart(points)
       /\ RegistersApart(doc.service, points)

=============================================================================
