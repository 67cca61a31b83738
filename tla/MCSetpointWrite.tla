---------------------------- MODULE MCSetpointWrite ----------------------------
(***************************************************************************)
(* Instances of SetpointWrite for TLC: one setpoint, a setpoint beside a   *)
(* measured value, and the three points a logic unit is computed from.     *)
(***************************************************************************)
EXTENDS SetpointWrite

CONSTANTS rd, sp, al   \* points: rEAd, C.SP, AL.t of the first channel

OnePoint == <<sp>>
TwoPoints == <<rd, sp>>
ThreePoints == <<rd, sp, al>>

NoWiring ==
  [lu \in LogicUnit |->
    [measured |-> None, setpoint |-> None, hysteresis |-> None, alType |-> None]]

\* The first logic unit reads its channel without hysteresis.
FirstChannel ==
  [NoWiring EXCEPT ![0].measured = rd, ![0].setpoint = sp, ![0].alType = al]

\* The device limits a setpoint to 1.
Limited == [v \in Value |-> IF v > 1 THEN 1 ELSE v]

\* Writes of both registers of the setpoint, of only a part of them, and of
\* the registers of two points at once.
Whole == {[points |-> {sp}, exact |-> TRUE]}
WholeOrPart == Whole \cup {[points |-> {sp}, exact |-> FALSE]}
WholeOrSpan == Whole \cup {[points |-> {rd, sp}, exact |-> FALSE]}

=============================================================================
