----------------------------- MODULE MCConfigTools -----------------------------
(***************************************************************************)
(* Documents for ConfigTools: new, with two lines, with a line of the older*)
(* naming or with serial parameters no port takes, legacy, and with one or *)
(* two points written by hand that meet each limit of the loader from both *)
(* sides.                                                                  *)
(***************************************************************************)
EXTENDS ConfigTools

Standard == [statusType |-> "holding_register", status |-> {1},
             telemetryType |-> "holding_register", telemetry |-> 2..6]
Moved == [statusType |-> "input_register", status |-> {18},
          telemetryType |-> "holding_register", telemetry |-> {19, 40}]

OldLine == [name |-> "bus1", on |-> None, sound |-> TRUE]

NewDoc == [legacy |-> FALSE, buses |-> <<>>, points |-> {}, service |-> Standard]
OldDoc == [NewDoc EXCEPT !.buses = <<OldLine>>]
UnsoundDoc == [NewDoc EXCEPT !.buses = <<[OldLine EXCEPT !.name = "line1", !.sound = FALSE]>>]
TwoLineDoc == [NewDoc EXCEPT !.buses = <<[OldLine EXCEPT !.name = "line1"],
                                        [OldLine EXCEPT !.name = "line2"]>>]
LegacyDoc == [OldDoc EXCEPT !.legacy = TRUE]

HandPoint ==
  [name |-> <<0, 1, "rEAd">>, bus |-> "bus1", device |-> 1, slave |-> 96, address |-> 96,
   parameter |-> "rEAd", type |-> "holding_register", start |-> 16, width |-> 2,
   timeMark |-> 32, channelStatus |-> 40, published |-> TRUE, writable |-> FALSE,
   compatible |-> TRUE, enabled |-> None]

(* The second point: of the same device or another one, its registers next *)
(* to, in or far from those of the first, of either register type.         *)
SecondPoints ==
  {[HandPoint EXCEPT !.name = <<0, 2, "C.SP">>, !.parameter = "C.SP", !.bus = bus,
      !.device = device, !.slave = slave, !.address = 97, !.type = type, !.start = start,
      !.timeMark = None, !.channelStatus = status, !.published = published,
      !.writable = writable, !.compatible = FALSE] :
     bus \in {"bus1", None}, device \in {1, 2}, slave \in {None, 96},
     type \in {"holding_register", "input_register"}, start \in {17, 18, 39, 300},
     status \in {None, 40, 301, 400}, published \in BOOLEAN, writable \in BOOLEAN}

FirstPoints ==
  {[HandPoint EXCEPT !.bus = bus, !.slave = slave, !.channelStatus = status, !.address = address] :
     bus \in {"bus1", None}, slave \in {None, 1, 96}, status \in {17, 40, 48},
     address \in {96, 2048}}

HandDocs ==
  {[OldDoc EXCEPT !.points = {HandPoint, p}] : p \in SecondPoints}
  \cup {[OldDoc EXCEPT !.points = {p}, !.legacy = legacy, !.service = service] :
         p \in FirstPoints, legacy \in BOOLEAN, service \in {Standard, Moved}}

OldDocs == {OldDoc}
AllDocs == {NewDoc, OldDoc, TwoLineDoc, UnsoundDoc, LegacyDoc} \cup HandDocs

=============================================================================
