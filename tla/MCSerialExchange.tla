--------------------------- MODULE MCSerialExchange ---------------------------
(***************************************************************************)
(* An instance of SerialExchange for TLC: the measured value of a channel  *)
(* and the setpoints of two channels on one line.                          *)
(***************************************************************************)
EXTENDS SerialExchange

CONSTANTS r1, s1, s2   \* points: rEAd of one channel, C.SP of two

Points == <<r1, s1, s2>>
Parameters == (r1 :> "rEAd") @@ (s1 :> "C.SP") @@ (s2 :> "C.SP")

\* Four bytes of a float, two of a stored_dot: neither decodes as the other.
Layouts == [m \in {"rEAd", "C.SP"} |-> IF m = "rEAd" THEN "long" ELSE "short"]

\* The setpoint has an upper limit of 1: a 2 is stored as 1, which is near
\* enough to be accepted; a device that still holds 0 refused it.
Limited == [v \in 0..2 |-> IF v > 1 THEN 1 ELSE v]

\* The channel of the measured value is off, the setpoints are at 0 and at 1.
AtFirst ==
  {(r1 :> None) @@ (s1 :> 0) @@ (s2 :> 1)}

=============================================================================
