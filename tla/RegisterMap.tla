------------------------------ MODULE RegisterMap ------------------------------
(***************************************************************************)
(* Which Modbus registers the running gateway writes for a configuration,  *)
(* by whom, and how large the blocks are that hold them (modbus_server.py, *)
(* _StoreAdapter, publish_* and _calc_size; service.py for what is         *)
(* published of lines and logic units).  A register is <<slave, type,      *)
(* address>>; a writer is named by its kind and the name of its point.     *)
(***************************************************************************)
EXTENDS ConfigLoader

SERVICE_LINE_STATUS_BASE == 10
LOGIC_UNIT_MASK_REGISTER == 48

Writes(kind, name, slave, type, addresses) ==
  {[by |-> <<kind, name>>, slave |-> slave, type |-> type, at |-> a] : a \in addresses}

(* write: internal points have no value register.  write_point_metadata:   *)
(* their metadata is written all the same.                                 *)
ValueWrites(p) ==
  IF ~p.published THEN {}
  ELSE Writes("value", p.name, p.slave, p.type, Span(p.start, p.width))

MetadataWrites(p) ==
  Writes("metadata", p.name, p.slave, p.type, Present({p.timeMark, p.channelStatus}))

(* publish_status and publish_telemetry, of a device and of the gateway.   *)
HealthWrites(service, slave) ==
  Writes("status", None, slave, service.statusType, service.status)
  \cup Writes("telemetry", None, slave, service.telemetryType, service.telemetry)

(* _publish_line_statuses: the i-th line of the file, whatever its name.   *)
LineWrites(doc) ==
  Writes("line", None, SERVICE_SLAVE_ID, "holding_register",
         Span(SERVICE_LINE_STATUS_BASE, Len(doc.buses)))

MaskWrites(slave) ==
  Writes("mask", None, slave, "holding_register", {LOGIC_UNIT_MASK_REGISTER})

SlavesOf(points) == {p.slave : p \in points}

(* Every write the gateway makes while it runs a configuration.            *)
GatewayWrites(doc) ==
  LET points == Resolve(doc)
  IN  (UNION {ValueWrites(p) \cup MetadataWrites(p) : p \in points})
      \cup (UNION {HealthWrites(doc.service, s) : s \in SlavesOf(points) \cup {SERVICE_SLAVE_ID}})
      \cup (UNION {MaskWrites(s) : s \in SlavesOf(points)})
      \cup LineWrites(doc)

Clash(v, w) == v.by # w.by /\ v.slave = w.slave /\ v.type = w.type /\ v.at = w.at

-----------------------------------------------------------------------------
(* _calc_size: coils and discrete inputs are of one size, holding and      *)
(* input registers of another, the same for every slave.                   *)
TypesOfSize(type) ==
  IF type \in {"coil", "discrete_input"} THEN {"coil", "discrete_input"}
  ELSE {"holding_register", "input_register"}

(* A faulty BlockSize: index 0, which no address reaches, is not counted   *)
(* for the values.                                                         *)
BlockSizeShort(doc, type) ==
  LET types == TypesOfSize(type)
      points == {p \in Resolve(doc) : p.published /\ p.type \in types}
      ends == {1} \cup {p.start + p.width : p \in points}
              \cup {a + 2 : a \in UNION {Present({p.timeMark, p.channelStatus}) : p \in points}}
              \cup {a + 2 : a \in UNION {ServiceClaims(doc.service, t) : t \in types}}
              \cup (IF "holding_register" \in types THEN {LOGIC_UNIT_MASK_REGISTER + 2} ELSE {})
  IN  CHOOSE n \in ends : \A m \in ends : m <= n

BlockSize(doc, type) ==
  LET types == TypesOfSize(type)
      points == {p \in Resolve(doc) : p.published /\ p.type \in types}
      ends == {1} \cup {p.start + p.width + 1 : p \in points}
              \cup {a + 2 : a \in UNION {Present({p.timeMark, p.channelStatus}) : p \in points}}
              \cup {a + 2 : a \in UNION {ServiceClaims(doc.service, t) : t \in types}}
              \cup (IF "holding_register" \in types THEN {LOGIC_UNIT_MASK_REGISTER + 2} ELSE {})
  IN  CHOOSE n \in ends : \A m \in ends : m <= n

(* The server keeps address a at index a + 1 of a block.                   *)
Fits(size, w) == w.at + 1 < size

=============================================================================
