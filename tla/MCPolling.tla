------------------------------- MODULE MCPolling -------------------------------
(***************************************************************************)
(* Instances of Polling for TLC.  Two lines are the most the program       *)
(* accepts (config.py, MAX_BUSES).                                         *)
(***************************************************************************)
EXTENDS Polling, TLC

CONSTANTS b1, b2, d1, d2, d3, p1, p2, p3   \* model values

\* Two lines with two devices and one, of one point each.
ThreeDevices == (b1 :> <<d1, d2>>) @@ (b2 :> <<d3>>)
ThreeDevicesPoints == (d1 :> <<p1>>) @@ (d2 :> <<p2>>) @@ (d3 :> <<p3>>)

\* Two lines with one device each, of one point each.
TwoDevices == (b1 :> <<d1>>) @@ (b2 :> <<d2>>)
TwoDevicesPoints == (d1 :> <<p1>>) @@ (d2 :> <<p2>>)

\* One line with two devices, the first of two points.
OneLine == b1 :> <<d1, d2>>
OneLinePoints == (d1 :> <<p1, p2>>) @@ (d2 :> <<p3>>)

\* What a device may do, now and from now on: one outcome of every kind of
\* handling, or one kind for as long as its link stays as it is.
AnyOutcome == {{"value", "timeout", "decode"}}
Counted == {{"value", "timeout", "hash", "io"}}
GoodOrDead == {{"value"}, {"io"}}
GoodSilentGarbled == {{"value", "empty"}, {"io"}, {"decode"}}

=============================================================================
