----------------------------- MODULE LogicUnitMask -----------------------------
(***************************************************************************)
(* HR48 of one device over time.  The values of the points change with     *)
(* every poll; the mask is computed from the values of the moment and from *)
(* the mask published before (OwenGatewayService.device_logic_masks).      *)
(* SetpointWrite says when the program computes it.                        *)
(***************************************************************************)
EXTENDS LogicUnits

CONSTANTS
  Channel,    \* the configured channels: units of LogicUnit
  Measured,   \* values rEAd can have
  Setpoint,   \* values C.SP can have
  Hysteresis, \* values HYSt can have
  AlType      \* values AL.t can have

ASSUME MaskAssumption ==
  /\ Channel \subseteq LogicUnit
  /\ Measured \subseteq Int /\ Setpoint \subseteq Int
  /\ Hysteresis \subseteq Int /\ AlType \subseteq Int
  /\ None \notin Int

VARIABLES
  input,        \* point_values of the device, by channel and parameter
  mask          \* device_logic_masks = HR48

vars == <<input, mask>>

Nothing == [measured |-> None, setpoint |-> None, hysteresis |-> None, alType |-> None]

Init ==
  /\ input = [lu \in LogicUnit |-> Nothing]
  /\ mask = {}

(* A poll of one point ends with a value, or with an empty payload.        *)
Read(c, parameter, values) ==
  /\ \E v \in values \cup {None} : input' = [input EXCEPT ![c][parameter] = v]
  /\ UNCHANGED mask

(* _publish_logic_unit_masks                                               *)
PublishMask ==
  /\ mask' = LogicMask(input, mask)
  /\ UNCHANGED input

Next ==
  \/ \E c \in Channel :
       \/ Read(c, "measured", Measured)
       \/ Read(c, "setpoint", Setpoint)
       \/ Read(c, "hysteresis", Hysteresis)
       \/ Read(c, "alType", AlType)
  \/ PublishMask

Spec == Init /\ [][Next]_vars

-----------------------------------------------------------------------------
TypeOK ==
  /\ input \in [LogicUnit ->
       [measured : Measured \cup {None}, setpoint : Setpoint \cup {None},
        hysteresis : Hysteresis \cup {None}, alType : AlType \cup {None}]]
  /\ mask \subseteq Channel

Complete(c) == \A f \in {"measured", "setpoint", "alType"} : input[c][f] # None

Distance(c) == Magnitude(input[c].measured - input[c].setpoint)
Width(c) == IF input[c].hysteresis = None THEN 0 ELSE Magnitude(input[c].hysteresis)

(* What HR48 becomes if the mask is computed now.  The properties speak of  *)
(* it rather than of a step that changes the mask, so that a unit wrongly   *)
(* left as it was counts too.                                               *)
NextMask == LogicMask(input, mask)

(* No chattering: while the measured value is inside the closed band around *)
(* the setpoint, a unit in mode 1 or 2 stays as it is, also when its mode,  *)
(* setpoint or hysteresis were changed since the last mask.                 *)
(* (service.py:896-911)                                                     *)
Remembers(c) == Complete(c) /\ input[c].alType \in {1, 2} /\ Distance(c) <= Width(c)

BandHolds == \A c \in Channel : Remembers(c) => (c \in NextMask <=> c \in mask)

(* In every other case the inputs decide, whatever the unit did before: no  *)
(* history can lock it in a wrong position.  Below or above the band it is  *)
(* the side (modes 1 and 2), in mode 3 the inside without its edges, in     *)
(* mode 4 the outside; a unit goes off when its measured value, setpoint or *)
(* characteristic is unknown, or is none of the four.                       *)
(* (service.py:661-662, 896-916)                                            *)
InputsDecide ==
  \A c \in Channel : ~Remembers(c) =>
    LET in == input[c] IN
      c \in NextMask <=>
        /\ Complete(c)
        /\ \/ in.alType = 1 /\ in.measured < in.setpoint
           \/ in.alType = 2 /\ in.measured > in.setpoint
           \/ in.alType = 3 /\ Distance(c) < Width(c)
           \/ in.alType = 4 /\ Distance(c) > Width(c)

=============================================================================
