--------------------------- MODULE SetpointContract ---------------------------
(***************************************************************************)
(* What a Modbus client may rely on when it writes a setpoint, without the *)
(* event loop, the lock of the line, the retries and the polling that      *)
(* bring it about.  SetpointWrite implements this.                         *)
(*                                                                         *)
(*   - A request is accepted or refused, once.                             *)
(*   - It is accepted only when the device holds what was asked for (up to *)
(*     the tolerance), and the register then shows what the device holds.  *)
(*   - Requests for the same point that reach the device do so in the      *)
(*     order they were made.                                               *)
(*   - The device changes only by a request that is still open, or at its  *)
(*     own panel; a refused request may have changed it all the same.      *)
(*   - The register of a point shows what a client wrote, what the device  *)
(*     held when it was read, or what it showed when a request was made    *)
(*     that is refused now.                                                *)
(***************************************************************************)
EXTENDS Integers

CONSTANTS
  Point, Value,
  Request,     \* numbered in the order the requests are made
  Target,      \* what can be asked for: records [points, setpoint]
  Stored,      \* Stored[v]: what the device makes of a written v
  Tolerance    \* largest difference between asked for and held

VARIABLES
  request,     \* request[n]: its state and, while it is open, what it asks
  shown,       \* the registers
  held         \* the device

vars == <<request, shown, held>>

Distance(a, b) == IF a < b THEN b - a ELSE a - b

(* A request that is not open: nothing is left of it but how it ended.     *)
Closed(how) == [state |-> how]

Init ==
  /\ request = [n \in Request |-> Closed("free")]
  /\ shown \in [Point -> Value]
  /\ held \in [Point -> Value]

Show(points, registers) ==
  shown' = [p \in Point |-> IF p \in points THEN registers[p] ELSE shown[p]]

Ask(n) ==
  /\ request[n] = Closed("free")
  /\ \E t \in Target, v \in Value :
       /\ request' = [request EXCEPT ![n] =
            [state |-> "open", points |-> t.points, setpoint |-> t.setpoint, value |-> v,
             before |-> [p \in t.points |-> shown[p]]]]
       /\ Show(t.points, [p \in Point |-> v])
  /\ UNCHANGED held

(* Nothing older for the same point is still on its way to the device.     *)
Open(n) == request[n].state = "open"
InOrder(n) ==
  \A m \in Request :
    (m < n /\ Open(m) /\ request[m].setpoint) => request[m].points # request[n].points

Landed(n) ==
  held' = [p \in Point |->
             IF p \in request[n].points THEN Stored[request[n].value] ELSE held[p]]

(* An open request may reach the device at any time.                       *)
Land(n) ==
  /\ Open(n) /\ request[n].setpoint /\ InOrder(n)
  /\ Landed(n)
  /\ UNCHANGED <<request, shown>>

Accept(n) ==
  /\ Open(n) /\ request[n].setpoint /\ InOrder(n)
  /\ \A p \in request[n].points : Distance(held[p], request[n].value) <= Tolerance
  /\ request' = [request EXCEPT ![n] = Closed("accepted")]
  /\ Show(request[n].points, held)
  /\ UNCHANGED held

Refuse(n) ==
  /\ Open(n)
  /\ request' = [request EXCEPT ![n] = Closed("refused")]
  /\ Show(request[n].points, request[n].before)
  /\ \/ UNCHANGED held
     \/ request[n].setpoint /\ InOrder(n) /\ Landed(n)

Observe(p) ==
  /\ Show({p}, held)
  /\ UNCHANGED <<request, held>>

Panel(p) ==
  /\ \E v \in Value : held' = [held EXCEPT ![p] = v]
  /\ UNCHANGED <<request, shown>>

Next ==
  \/ \E n \in Request : Ask(n) \/ Land(n) \/ Accept(n) \/ Refuse(n)
  \/ \E p \in Point : Observe(p) \/ Panel(p)

Spec == Init /\ [][Next]_vars

=============================================================================
