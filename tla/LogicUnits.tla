------------------------------ MODULE LogicUnits ------------------------------
(***************************************************************************)
(* The logic units of a TRM138 (service.py, _publish_logic_unit_masks and  *)
(* _evaluate_logic_unit): eight outputs, one per channel, derived from the *)
(* measured value, the setpoint, the hysteresis and the characteristic of  *)
(* the channel.  A mask is the set of the units that are on; bit i of HR48 *)
(* is unit i.  Values are integers: the unit of measurement is the tenth   *)
(* of a degree the device itself counts in.                                *)
(***************************************************************************)
EXTENDS Integers

CONSTANT None         \* a value that was never read, or read as empty

LogicUnit == 0..7     \* LOGIC_UNIT_COUNT units

Magnitude(x) == IF x < 0 THEN -x ELSE x

(* Faulty variants of EvaluateLogicUnit: the edges of the band belong to    *)
(* its outside; an unknown parameter or mode keeps the previous state.     *)
EvaluateOpenBand(value, setpoint, hysteresis, alType, previous) ==
  /\ setpoint # None /\ alType # None
  /\ LET low == setpoint - hysteresis
         high == setpoint + hysteresis
     IN  CASE alType = 1 -> value <= low \/ (value < high /\ previous)
           [] alType = 2 -> value >= high \/ (value > low /\ previous)
           [] alType = 3 -> low < value /\ value < high
           [] alType = 4 -> value < low \/ value > high
           [] OTHER -> FALSE

EvaluateKeepsUnknown(value, setpoint, hysteresis, alType, previous) ==
  IF setpoint = None \/ alType = None THEN previous
  ELSE LET low == setpoint - hysteresis
           high == setpoint + hysteresis
       IN  CASE alType = 1 -> value < low \/ (value <= high /\ previous)
             [] alType = 2 -> value > high \/ (value >= low /\ previous)
             [] alType = 3 -> low < value /\ value < high
             [] alType = 4 -> value < low \/ value > high
             [] OTHER -> previous

(* _evaluate_logic_unit.  Modes 1 and 2 keep their output inside the band  *)
(* setpoint +- hysteresis, 3 and 4 do not depend on it.                    *)
EvaluateLogicUnit(value, setpoint, hysteresis, alType, previous) ==
  IF setpoint = None \/ alType = None THEN FALSE
  ELSE LET low == setpoint - hysteresis
           high == setpoint + hysteresis
       IN  CASE alType = 1 -> value < low \/ (value <= high /\ previous)
             [] alType = 2 -> value > high \/ (value >= low /\ previous)
             [] alType = 3 -> low < value /\ value < high
             [] alType = 4 -> value < low \/ value > high
             [] OTHER -> FALSE

(* A faulty LogicMask: the bits of the mask are counted from one.          *)
LogicMaskFromOne(input, previous) ==
  {lu \in 1..8 :
    LET in == input[lu - 1] IN
      /\ in.measured # None
      /\ EvaluateLogicUnit(in.measured, in.setpoint,
           IF in.hysteresis = None THEN 0 ELSE Magnitude(in.hysteresis),
           in.alType, lu \in previous)}

(* The mask from the values of the points and the previous mask.           *)
(* input[c] holds what the points of channel c last read; a parameter the  *)
(* configuration does not poll reads None.                                 *)
LogicMask(input, previous) ==
  {lu \in LogicUnit :
    LET in == input[lu] IN
      /\ in.measured # None
      /\ EvaluateLogicUnit(in.measured, in.setpoint,
           IF in.hysteresis = None THEN 0 ELSE Magnitude(in.hysteresis),
           in.alType, lu \in previous)}

=============================================================================
