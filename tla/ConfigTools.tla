------------------------------ MODULE ConfigTools ------------------------------
(***************************************************************************)
(* The configuration tools (config_tools.py, and the flows of cli.py that  *)
(* use them): each loads the document, edits it, saves it and, most of     *)
(* them, writes the map of the Modbus registers next to it, which succeeds *)
(* only when the document can be loaded.  A tool that raises saves         *)
(* nothing: it takes no step here.                                         *)
(***************************************************************************)
EXTENDS RegisterMap

CONSTANTS
  StartDocs,     \* the documents the tools start from
  Channel,       \* the channels asked for
  Base,          \* the OVEN base addresses asked for
  SoundInputs,   \* whether the serial parameters given for a line are sound
  MaxEdits,      \* bound: edits of a document without points of its own
  MaxHandEdits   \* bound: edits of a document with points written by hand

TRM138_CHANNEL_COUNT == 8
TRM138_REGISTER_BASE == 16
TRM138_TIME_MARK_BASE == TRM138_REGISTER_BASE + 2 * TRM138_CHANNEL_COUNT
(* A faulty TRM138_STATUS_BASE: one register too high.                     *)
StatusBaseTooHigh == TRM138_TIME_MARK_BASE + TRM138_CHANNEL_COUNT + 1
TRM138_STATUS_BASE == TRM138_TIME_MARK_BASE + TRM138_CHANNEL_COUNT
TRM138_SETPOINT_BASE == 56

-----------------------------------------------------------------------------
(* Documents.                                                              *)

NameOrder == [bus1 |-> 1, bus2 |-> 2, line1 |-> 3, line2 |-> 4]

Bus == [name : DOMAIN NameOrder, on : BOOLEAN \cup {None}, sound : BOOLEAN]

PointName == Nat \X Nat \X {"rEAd", "C.SP", "AL.t"}

Point ==
  [name : PointName, bus : DOMAIN NameOrder \cup {None},
   device : 1..MaxDevices, slave : Nat \cup {None}, address : Nat,
   parameter : {"rEAd", "C.SP", "AL.t"}, type : RegisterType, start : Nat, width : 1..2,
   timeMark : Nat \cup {None}, channelStatus : Nat \cup {None}, published : BOOLEAN,
   writable : BOOLEAN, compatible : BOOLEAN, enabled : BOOLEAN \cup {None}]

Service ==
  [statusType : RegisterType, status : SUBSET Nat,
   telemetryType : RegisterType, telemetry : SUBSET Nat]

Document == [legacy : BOOLEAN, buses : Seq(Bus), points : SUBSET Point, service : Service]

NamesApart(buses) == \A i, j \in DOMAIN buses : buses[i].name = buses[j].name => i = j

(* Status and telemetry as the tools' templates have them: below the line  *)
(* statuses, and apart.                                                    *)
TemplateService(service) ==
  /\ \A a \in service.status \cup service.telemetry : a < SERVICE_LINE_STATUS_BASE
  /\ service.status \cap service.telemetry = {}

ASSUME ToolsAssumption ==
  /\ MaxBuses <= 2
  /\ Channel \subseteq 1..TRM138_CHANNEL_COUNT
  /\ Base \subseteq Nat
  /\ SoundInputs \subseteq BOOLEAN
  /\ MaxEdits \in Nat /\ MaxHandEdits \in Nat
  /\ None \notin PointName \cup DOMAIN NameOrder

(* A legacy document has one line; what has no points yet is as a template *)
(* made it and as the tools left it.                                       *)
ASSUME StartAssumption ==
  \A d \in StartDocs :
    /\ d \in Document
    /\ d.legacy => Len(d.buses) = 1
    /\ IsFiniteSet(d.points)
    /\ IsFiniteSet(d.service.status) /\ IsFiniteSet(d.service.telemetry)
    /\ d.points = {} => NamesApart(d.buses) /\ TemplateService(d.service)

VARIABLES
  doc,       \* the document in the file
  mapped,    \* what the map file shows, None before it is written
  byHand,    \* the document started with points written by hand
  edits      \* edits left within the bound

vars == <<doc, mapped, byHand, edits>>

ValueRegister(channel) == TRM138_REGISTER_BASE + 2 * (channel - 1)
SetpointRegister(channel) == TRM138_SETPOINT_BASE + 2 * (channel - 1)
StatusRegister(channel) == TRM138_STATUS_BASE + channel - 1

-----------------------------------------------------------------------------
(* Lines.                                                                  *)

LineName == <<"line1", "line2">>
OldLineName == <<"bus1", "bus2">>
Line == 1..MaxBuses
(* _normalize_legacy_payload: the line of a legacy document becomes line1. *)
Normalized(d) ==
  IF ~d.legacy THEN d
  ELSE [d EXCEPT !.legacy = FALSE, !.buses = <<[@[1] EXCEPT !.name = LineName[1]]>>]

(* _get_buses: every tool raises when there are too many lines.            *)
Usable(d) == Len(d.buses) <= MaxBuses

(* _resolve_bus_name                                                       *)
BusOf(d, line) ==
  IF LineName[line] \in BusNames(d) \/ OldLineName[line] \notin BusNames(d)
  THEN LineName[line] ELSE OldLineName[line]

Configured(d, line) == BusOf(d, line) \in BusNames(d)

(* The entries of s at the positions `kept', in the order `before'.        *)
Arranged(s, kept, before) ==
  [k \in 1..Cardinality(kept) |->
    s[CHOOSE i \in kept : Cardinality({j \in kept : <<j, i>> \in before}) = k - 1]]

(* list.sort by name, which is stable.                                     *)
SortedByName(s) ==
  LET at == DOMAIN s
      nameOf(i) == NameOrder[s[i].name]
  IN  Arranged(s, at, {ij \in at \X at : \/ nameOf(ij[1]) < nameOf(ij[2])
                                         \/ nameOf(ij[1]) = nameOf(ij[2]) /\ ij[1] < ij[2]})

(* set_line: the entry is replaced, or appended and the lines sorted.      *)
WithLine(d, line, sound) ==
  LET entry == [name |-> LineName[line], on |-> None, sound |-> sound]
  IN  IF LineName[line] \in BusNames(d)
      THEN [d EXCEPT !.buses =
             [i \in DOMAIN @ |-> IF @[i].name = LineName[line] THEN entry ELSE @[i]]]
      ELSE [d EXCEPT !.buses = SortedByName(Append(@, entry))]

(* enable_line, disable_line                                               *)
WithLineOn(d, line, on) ==
  [d EXCEPT !.buses =
    [i \in DOMAIN @ |-> IF @[i].name = BusOf(d, line) THEN [@[i] EXCEPT !.on = on] ELSE @[i]]]

OtherLines(d, name) ==
  LET kept == {i \in DOMAIN d.buses : d.buses[i].name # name}
  IN  Arranged(d.buses, kept, {ij \in kept \X kept : ij[1] < ij[2]})

(* A faulty WithoutLine: the points of the line stay.                      *)
WithoutLineOnly(d, line) == [d EXCEPT !.buses = OtherLines(d, BusOf(d, line))]

(* remove_line                                                             *)
WithoutLine(d, line) ==
  [d EXCEPT !.buses = OtherLines(d, BusOf(d, line)),
            !.points = {p \in @ : p.bus # BusOf(d, line)}]

-----------------------------------------------------------------------------
(* Devices.                                                                *)

PointsOf(d, bus, device) == {p \in d.points : p.bus = bus /\ p.device = device}
DevicesOf(d, bus) == {p.device : p \in {q \in d.points : q.bus = bus}}
AddressesOf(points) == {p.address : p \in points}

Selector == [device : 1..MaxDevices \cup {None}, base : Base \cup {None}]

(* _match_device: the one device with the number and the smallest address  *)
(* that were given; none, or several, and the tool raises.                 *)
Matches(d, bus, sel) ==
  {n \in DevicesOf(d, bus) :
     /\ sel.device \in {None, n}
     /\ sel.base \in {None, SmallestOf(AddressesOf(PointsOf(d, bus, n)))}}

SelectorsOf(d, bus, device) == {sel \in Selector : Matches(d, bus, sel) = {device}}

Selectable(d, bus) == {n \in DevicesOf(d, bus) : SelectorsOf(d, bus, n) # {}}

TrmPoint(bus, device, base, channel, parameter, start, width) ==
  [name |-> <<base, channel, parameter>>, bus |-> bus, device |-> device, slave |-> base,
   address |-> base + channel - 1, parameter |-> parameter, type |-> "holding_register",
   start |-> start, width |-> width, timeMark |-> None, channelStatus |-> None,
   published |-> TRUE, writable |-> FALSE, compatible |-> TRUE, enabled |-> None]

(* _append_trm138_points, for one channel: a measured value, a setpoint    *)
(* and an internal characteristic.                                         *)
TrmPoints(bus, device, base, channel) ==
  { [TrmPoint(bus, device, base, channel, "rEAd", ValueRegister(channel), 2)
      EXCEPT !.channelStatus = StatusRegister(channel)],
    [TrmPoint(bus, device, base, channel, "C.SP", SetpointRegister(channel), 2)
      EXCEPT !.writable = TRUE],
    [TrmPoint(bus, device, base, channel, "AL.t", 0, 1) EXCEPT !.published = FALSE] }

DevicePointsOf(bus, device, base, channels) ==
  UNION {TrmPoints(bus, device, base, c) : c \in channels}

(* A faulty FreeAddresses: nothing is checked.                             *)
FreeUnchecked(d, bus, base, channels) == TRUE

(* The check of add_trm138_device, on the addresses of the line.           *)
FreeAddresses(d, bus, base, channels) ==
  \A p \in d.points : p.bus = bus => p.address \notin {base + c - 1 : c \in channels}

(* A faulty NextDevice: one number too many.                               *)
NextDeviceTooMany(d, bus, device) ==
  /\ device \in 1..(MaxDevices + 1) \ DevicesOf(d, bus)
  /\ \A n \in 1..(device - 1) : n \in DevicesOf(d, bus)

(* _next_device_number                                                     *)
NextDevice(d, bus, device) ==
  /\ device \in 1..MaxDevices \ DevicesOf(d, bus)
  /\ \A n \in 1..(device - 1) : n \in DevicesOf(d, bus)

(* A faulty WithoutDevice: the device of that number goes on every line.   *)
WithoutNumber(d, bus, device) == [d EXCEPT !.points = {p \in @ : p.device # device}]

WithoutDevice(d, bus, device) ==
  [d EXCEPT !.points = @ \ PointsOf(d, bus, device)]

ReadAddresses(d, bus, device) ==
  AddressesOf({p \in PointsOf(d, bus, device) : p.parameter = "rEAd"})

(* A faulty WithChannels: the registers and the SlaveID are kept, although *)
(* the addresses are counted anew.                                         *)
WithChannelsOldId(d, bus, device, channels) ==
  LET base == SmallestOf(ReadAddresses(d, bus, device))
      id == (CHOOSE p \in PointsOf(d, bus, device) : TRUE).slave
  IN  [WithoutDevice(d, bus, device) EXCEPT !.points =
        @ \cup {[p EXCEPT !.slave = id] : p \in DevicePointsOf(bus, device, base, channels)}]

(* update_trm138_channels: the device is built anew around its smallest    *)
(* measured address.                                                       *)
WithChannels(d, bus, device, channels) ==
  LET base == SmallestOf(ReadAddresses(d, bus, device))
  IN  [WithoutDevice(d, bus, device) EXCEPT !.points =
        @ \cup DevicePointsOf(bus, device, base, channels)]

(* _toggle_channel: the measured points of the channel; with a base        *)
(* address only the one at that channel's address.                         *)
ChannelPoints(d, bus, device, sel, channel) ==
  {p \in PointsOf(d, bus, device) :
     /\ p.parameter = "rEAd"
     /\ sel.base # None => p.address = sel.base + channel - 1
     /\ p.slave # None /\ p.address - p.slave + 1 = channel}

(* The sets of points the selectors of a device stand for.  The tool       *)
(* raises on a point without a SlaveID of its own.                         *)
ToggleSets(d, bus, device, channel) ==
  {ChannelPoints(d, bus, device, sel, channel) :
     sel \in {s \in SelectorsOf(d, bus, device) :
       \A p \in PointsOf(d, bus, device) :
         p.parameter = "rEAd" /\ (s.base # None => p.address = s.base + channel - 1)
           => p.slave # None}} \ {{}}

Toggled(d, points, on) ==
  [d EXCEPT !.points = (@ \ points) \cup {[p EXCEPT !.enabled = on] : p \in points}]

-----------------------------------------------------------------------------
(* render_modbus_map, _collect_devices: the devices a map lists.  The      *)
(* channels are counted from the SlaveID.                                  *)
Shown(d) ==
  LET points == Resolve(d)
      row(dev) == [device |-> dev,
                   slave |-> (CHOOSE p \in DevicePoints(points, dev) : TRUE).slave,
                   channels |-> {p.address - p.slave + 1 :
                     p \in {q \in DevicePoints(points, dev) : q.parameter = "rEAd"}}]
  IN  [lines |-> BusNames(d), devices |-> {row(dev) : dev \in DeviceKeys(points)}]

(* A faulty WriteMap: a map that exists is left alone.                     *)
WriteMapOnce(new) == IF mapped = None /\ Accepted(new) THEN Shown(new) ELSE mapped

(* write_generated_modbus_map: the document is loaded for it.              *)
WriteMap(new) == IF Accepted(new) THEN Shown(new) ELSE mapped

(* save_config_document                                                    *)
Save(new) ==
  /\ edits > 0
  /\ edits' = edits - 1
  /\ doc' = new
  /\ UNCHANGED byHand

SaveAndMap(new) == Save(new) /\ mapped' = WriteMap(new)
SaveOnly(new) == Save(new) /\ UNCHANGED mapped

Loaded == Normalized(doc)      \* load_config_document

-----------------------------------------------------------------------------
(* The tools.                                                              *)

SetLine == \E line \in Line, sound \in SoundInputs :
  /\ Usable(Loaded)
  /\ SaveAndMap(WithLine(Loaded, line, sound))

ToggleLine == \E line \in Line, on \in BOOLEAN :
  /\ Usable(Loaded) /\ Configured(Loaded, line)
  /\ SaveOnly(WithLineOn(Loaded, line, on))

RemoveLine == \E line \in Line :
  /\ Usable(Loaded) /\ Configured(Loaded, line)
  /\ SaveAndMap(WithoutLine(Loaded, line))

AddTrm138 == \E line \in Line, base \in Base, channels \in (SUBSET Channel) \ {{}} :
  LET bus == BusOf(Loaded, line) IN
    /\ Usable(Loaded) /\ Configured(Loaded, line)
    /\ FreeAddresses(Loaded, bus, base, channels)
    /\ \E device \in 1..(MaxDevices + 1) :
         /\ NextDevice(Loaded, bus, device)
         /\ SaveAndMap([Loaded EXCEPT !.points =
              @ \cup DevicePointsOf(bus, device, base, channels)])

RemoveTrm138 == \E line \in Line :
  LET bus == BusOf(Loaded, line) IN
    /\ Usable(Loaded)
    /\ \E device \in Selectable(Loaded, bus) :
         SaveAndMap(WithoutDevice(Loaded, bus, device))

SetTrm138Channels == \E line \in Line, channels \in (SUBSET Channel) \ {{}} :
  LET bus == BusOf(Loaded, line) IN
    /\ Usable(Loaded)
    /\ \E device \in Selectable(Loaded, bus) :
         /\ ReadAddresses(Loaded, bus, device) # {}
         /\ SaveAndMap(WithChannels(Loaded, bus, device, channels))

ToggleChannel == \E line \in Line, channel \in Channel, on \in BOOLEAN :
  LET bus == BusOf(Loaded, line) IN
    /\ Usable(Loaded)
    /\ \E device \in DevicesOf(Loaded, bus) :
         \E points \in ToggleSets(Loaded, bus, device, channel) :
           SaveOnly(Toggled(Loaded, points, on))

(* The menu's entry 7: save the document as it was loaded, write the map.  *)
Regenerate == SaveAndMap(Loaded)

Init ==
  /\ doc \in StartDocs
  /\ mapped = None
  /\ byHand = (doc.points # {})
  /\ edits = IF byHand THEN MaxHandEdits ELSE MaxEdits

Next ==
  \/ SetLine \/ ToggleLine \/ RemoveLine
  \/ AddTrm138 \/ RemoveTrm138 \/ SetTrm138Channels
  \/ ToggleChannel \/ Regenerate

Spec == Init /\ [][Next]_vars

-----------------------------------------------------------------------------
(* Properties.                                                             *)

(* What the variables hold; in particular a tool gives no device a number  *)
(* the loader refuses.                                                     *)
TypeOK ==
  /\ doc \in Document
  /\ byHand \in BOOLEAN
  /\ edits \in Nat

Devices(d) == DeviceKeys(d.points)
SlavesOn(d, dev) == {p.slave : p \in PointsOf(d, dev[1], dev[2])}

LinesSound(d) == \A i \in DOMAIN d.buses : d.buses[i].sound
NoneSwitched(d) == \A p \in d.points : p.enabled = None
IdsUsable(d) ==
  /\ \A dev \in Devices(d) : SlavesOn(d, dev) \subseteq 2..247
  /\ \A dev, other \in Devices(d) :
       dev # other => SlavesOn(d, dev) \cap SlavesOn(d, other) = {}

(* A document whose points all come from the tools is refused for these    *)
(* reasons only: no line or more than MAX_BUSES of them, unsound serial    *)
(* parameters, a channel that was switched, or base addresses that are no  *)
(* SlaveID or are used for two devices.  Never because its points          *)
(* contradict each other, lie on a missing line or share a register: no    *)
(* order of edits gets there.  Two of the reasons are not what the docs    *)
(* promise: a switched channel (see SwitchedChannelsLoad), and a third and *)
(* fourth line, which MULTI_LINE_GATEWAY.md has and MAX_BUSES does not.    *)
ToolDocumentsLoad ==
  ~byHand =>
    (Accepted(doc) <=>
      /\ Len(doc.buses) \in 1..MaxBuses
      /\ LinesSound(doc) /\ NoneSwitched(doc) /\ IdsUsable(doc))

(* What docs/SESSION_NOTES.md says of disable_channel: it takes a channel  *)
(* out of the poll through a flag of the points, and the document stays    *)
(* one the gateway loads.                                                  *)
SwitchedChannelsLoad ==
  ~byHand /\ Len(doc.buses) \in 1..MaxBuses /\ LinesSound(doc) /\ IdsUsable(doc)
    => Accepted(doc)

(* The service keeps the state of a point, and a client's write finds it,  *)
(* under the point's name, which the loader does not check: no order of    *)
(* edits leaves two points of one name in a document it accepts.           *)
PointNamesApart ==
  ~byHand /\ Accepted(doc) => \A p, q \in doc.points : p.name = q.name => p = q

(* The map file shows the document next to it whenever the gateway can     *)
(* load that document: the tools that write no map leave nothing behind    *)
(* that it would have to show, and a map that could not be written is      *)
(* caught up with when the document is repaired.                           *)
MapIsCurrent ==
  Accepted(doc) /\ mapped # None => mapped = Shown(doc)

(* The tables of the map derive a channel's registers from its address and *)
(* the SlaveID; the points carry registers of their own.  For documents of *)
(* the tools the two agree, also after the channels of a device were       *)
(* replaced and its addresses counted anew.                                *)
MapTellsRegisters ==
  ~byHand /\ Accepted(doc) =>
    \A p \in Resolve(doc) :
      LET channel == p.address - p.slave + 1 IN
        /\ channel \in 1..TRM138_CHANNEL_COUNT
        /\ p.parameter = "rEAd" =>
             p.start = ValueRegister(channel) /\ p.channelStatus = StatusRegister(channel)
        /\ p.parameter = "C.SP" => p.start = SetpointRegister(channel)

(* While the gateway runs a document it accepted, no register has two      *)
(* writers: none at all for a document of the tools, HR48 and the line     *)
(* statuses included.  With points written by hand the values and metadata *)
(* of different published points, and status and telemetry, keep apart;    *)
(* HR10, HR11, HR48 and the metadata of internal points are not checked by *)
(* the loader, nor is a point's own metadata against its value.            *)
OneWriterPerRegister ==
  Accepted(doc) =>
    LET unchecked == {"line", "mask"}
        internal == {p.name : p \in {q \in Resolve(doc) : ~q.published}}
    IN  \A v, w \in GatewayWrites(doc) :
          Clash(v, w) =>
            /\ byHand
            /\ \/ {v.by[1], w.by[1]} \cap unchecked # {}
               \/ {v.by[2], w.by[2]} \cap internal # {}
               \/ v.by[2] = w.by[2] /\ v.by[2] # None

(* Every register the gateway writes lies inside the block that was        *)
(* created for it, except metadata of internal points, which no block is   *)
(* sized for.                                                              *)
WritesFitBlocks ==
  Accepted(doc) =>
    LET internal == {p.name : p \in {q \in Resolve(doc) : ~q.published}}
        size == [type \in RegisterType |-> BlockSize(doc, type)]
    IN  \A w \in GatewayWrites(doc) : w.by[2] \notin internal => Fits(size[w.type], w)

(* A device that exists before and after a tool was used keeps its SlaveID,*)
(* unless its channel at that address had been removed and its channels    *)
(* are then set again; and no tool changes the points of two devices.      *)
DevicesKeepIdentity ==
  [][ LET changed == {dev \in Devices(Loaded) \cap Devices(doc') :
            PointsOf(Loaded, dev[1], dev[2]) # PointsOf(doc', dev[1], dev[2])}
          touched == changed \cup (Devices(Loaded) \ Devices(doc'))
      IN  /\ \A dev \in changed :
               SlavesOn(doc', dev) = SlavesOn(Loaded, dev)
               \/ SlavesOn(Loaded, dev) \cap ReadAddresses(Loaded, dev[1], dev[2]) = {}
               \/ byHand
          /\ \A dev, other \in touched : dev = other \/ RemoveLine
    ]_vars

(* Two devices that answer to the same address of a line.                  *)
Doubles(d) ==
  {pair \in d.points \X d.points :
     /\ pair[1].bus = pair[2].bus /\ pair[1].device # pair[2].device
     /\ pair[1].address = pair[2].address}

(* Nothing but replacing the channels of a device makes two devices of a   *)
(* line claim one OVEN address: only that tool omits the check.            *)
DoublesOnlyBySetChannels ==
  [][Doubles(doc') # {} => Doubles(Loaded) # {} \/ SetTrm138Channels]_vars

=============================================================================
