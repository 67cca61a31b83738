-------------------------- MODULE LogicUnitMaskProofs --------------------------
(***************************************************************************)
(* Proofs about LogicUnitMask for every set of channels and every range of *)
(* values.  The mask has only bits of configured channels because the      *)
(* inputs of the others are never read; what the next mask becomes then    *)
(* follows from the types of the inputs alone, whatever was published      *)
(* before.                                                                 *)
(***************************************************************************)
EXTENDS LogicUnitMask, TLAPS

(* A channel that is not configured has no values.                         *)
OthersUnread == \A c \in LogicUnit \ Channel : input[c] = Nothing

IInv == TypeOK /\ OthersUnread

Field == {"measured", "setpoint", "hysteresis", "alType"}

Inputs ==
  [measured : Measured \cup {None}, setpoint : Setpoint \cup {None},
   hysteresis : Hysteresis \cup {None}, alType : AlType \cup {None}]

LEMMA InitIInv == Init => IInv
  BY DEF Init, IInv, TypeOK, OthersUnread, Nothing

(* A poll changes one parameter of one channel.                            *)
LEMMA ReadTyped ==
  ASSUME IInv, NEW c \in Channel, NEW f \in Field, NEW values,
         NEW v \in values \cup {None}, input' = [input EXCEPT ![c][f] = v],
         UNCHANGED mask,
         [input[c] EXCEPT ![f] = v] \in Inputs
  PROVE  IInv'
  <1>1. input \in [LogicUnit -> Inputs] /\ c \in LogicUnit
    BY MaskAssumption DEF IInv, TypeOK, Inputs
  <1>2. input' = [input EXCEPT ![c] = [input[c] EXCEPT ![f] = v]]
    OBVIOUS
  <1>3. input' \in [LogicUnit -> Inputs]
    BY <1>1, <1>2
  <1>4. OthersUnread'
    BY <1>1, <1>2 DEF IInv, OthersUnread
  <1> QED
    BY <1>3, <1>4 DEF IInv, TypeOK, Inputs

(* The mask has bits of configured channels only.                          *)
LEMMA MaskOfChannels ==
  ASSUME IInv
  PROVE  LogicMask(input, mask) \subseteq Channel
  <1> SUFFICES ASSUME NEW lu \in LogicUnit, lu \in LogicMask(input, mask)
               PROVE  lu \in Channel
    BY DEF LogicMask
  <1>1. input[lu].measured # None
    BY DEF LogicMask
  <1> QED
    BY <1>1 DEF IInv, OthersUnread, Nothing

LEMMA NextIInv == IInv /\ [Next]_vars => IInv'
  <1> SUFFICES ASSUME IInv, [Next]_vars
               PROVE  IInv'
    OBVIOUS
  <1>0. input \in [LogicUnit -> Inputs] /\ \A c \in Channel : input[c] \in Inputs
    BY MaskAssumption DEF IInv, TypeOK, Inputs
  <1>1. ASSUME NEW c \in Channel, Read(c, "measured", Measured) PROVE IInv'
    <2>1. PICK v \in Measured \cup {None} : input' = [input EXCEPT ![c]["measured"] = v]
      BY <1>1 DEF Read
    <2>2. [input[c] EXCEPT !["measured"] = v] \in Inputs
      BY <1>0 DEF Inputs
    <2> QED
      BY <1>1, <2>1, <2>2, ReadTyped DEF Read, Field
  <1>2. ASSUME NEW c \in Channel, Read(c, "setpoint", Setpoint) PROVE IInv'
    <2>1. PICK v \in Setpoint \cup {None} : input' = [input EXCEPT ![c]["setpoint"] = v]
      BY <1>2 DEF Read
    <2>2. [input[c] EXCEPT !["setpoint"] = v] \in Inputs
      BY <1>0 DEF Inputs
    <2> QED
      BY <1>2, <2>1, <2>2, ReadTyped DEF Read, Field
  <1>3. ASSUME NEW c \in Channel, Read(c, "hysteresis", Hysteresis) PROVE IInv'
    <2>1. PICK v \in Hysteresis \cup {None} : input' = [input EXCEPT ![c]["hysteresis"] = v]
      BY <1>3 DEF Read
    <2>2. [input[c] EXCEPT !["hysteresis"] = v] \in Inputs
      BY <1>0 DEF Inputs
    <2> QED
      BY <1>3, <2>1, <2>2, ReadTyped DEF Read, Field
  <1>4. ASSUME NEW c \in Channel, Read(c, "alType", AlType) PROVE IInv'
    <2>1. PICK v \in AlType \cup {None} : input' = [input EXCEPT ![c]["alType"] = v]
      BY <1>4 DEF Read
    <2>2. [input[c] EXCEPT !["alType"] = v] \in Inputs
      BY <1>0 DEF Inputs
    <2> QED
      BY <1>4, <2>1, <2>2, ReadTyped DEF Read, Field
  <1>5. CASE PublishMask
    BY <1>5, MaskOfChannels DEF PublishMask, IInv, TypeOK, OthersUnread
  <1>6. CASE UNCHANGED vars
    BY <1>6 DEF vars, IInv, TypeOK, OthersUnread
  <1> QED
    BY <1>1, <1>2, <1>3, <1>4, <1>5, <1>6 DEF Next

LEMMA Invariance == Spec => []IInv
  BY InitIInv, NextIInv, PTL DEF Spec

(* The mask has bits of configured channels only and the inputs keep their *)
(* types, for every set of channels and every range of values.             *)
THEOREM TypeCorrect == Spec => []TypeOK
  <1>1. IInv => TypeOK
    BY DEF IInv
  <1> QED
    BY <1>1, Invariance, PTL

-----------------------------------------------------------------------------
(* What the next mask says of a channel with everything it needs.          *)

LEMMA CompleteChannel ==
  ASSUME IInv, NEW c \in Channel, Complete(c)
  PROVE  /\ c \in LogicUnit
         /\ input[c].measured \in Int /\ input[c].setpoint \in Int /\ input[c].alType \in Int
         /\ Width(c) \in Int
         /\ c \in NextMask <=>
              EvaluateLogicUnit(input[c].measured, input[c].setpoint, Width(c),
                                input[c].alType, c \in mask)
  <1>1. c \in LogicUnit /\ input[c] \in Inputs
    BY MaskAssumption DEF IInv, TypeOK, Inputs
  <1>2. input[c].measured # None /\ input[c].setpoint # None /\ input[c].alType # None
    BY DEF Complete
  <1>3. input[c].measured \in Int /\ input[c].setpoint \in Int /\ input[c].alType \in Int
    BY <1>1, <1>2, MaskAssumption DEF Inputs
  <1>4. Width(c) \in Int
    <2>1. input[c].hysteresis \in Int \cup {None}
      BY <1>1, MaskAssumption DEF Inputs
    <2>2. CASE input[c].hysteresis = None
      BY <2>2 DEF Width
    <2>3. CASE input[c].hysteresis \in Int /\ input[c].hysteresis # None
      BY <2>3 DEF Width, Magnitude
    <2> QED
      BY <2>1, <2>2, <2>3
  <1>5. c \in NextMask <=>
          EvaluateLogicUnit(input[c].measured, input[c].setpoint, Width(c),
                            input[c].alType, c \in mask)
    BY <1>1, <1>2 DEF NextMask, LogicMask, Width
  <1> QED
    BY <1>1, <1>3, <1>4, <1>5

(* A unit in mode 1 or 2 keeps its state inside the closed band.           *)
LEMMA HoldsInBand ==
  ASSUME NEW value \in Int, NEW setpoint \in Int, NEW hysteresis \in Int,
         NEW previous \in BOOLEAN, NEW mode \in {1, 2}, None \notin Int,
         Magnitude(value - setpoint) <= hysteresis
  PROVE  EvaluateLogicUnit(value, setpoint, hysteresis, mode, previous) <=> previous
  <1>1. setpoint - hysteresis <= value /\ value <= setpoint + hysteresis
    BY DEF Magnitude
  <1>2. setpoint # None /\ mode # None
    OBVIOUS
  <1>3. CASE mode = 1
    BY <1>1, <1>2, <1>3 DEF EvaluateLogicUnit
  <1>4. CASE mode = 2
    BY <1>1, <1>2, <1>4 DEF EvaluateLogicUnit
  <1> QED
    BY <1>3, <1>4

(* Whatever is not inside the band in mode 1 or 2 is decided by the inputs. *)
LEMMA DecidedByInputs ==
  ASSUME NEW value \in Int, NEW setpoint \in Int, NEW hysteresis \in Nat,
         NEW previous \in BOOLEAN, NEW mode \in Int, None \notin Int,
         mode \in {1, 2} => Magnitude(value - setpoint) > hysteresis
  PROVE  EvaluateLogicUnit(value, setpoint, hysteresis, mode, previous) <=>
           \/ mode = 1 /\ value < setpoint
           \/ mode = 2 /\ value > setpoint
           \/ mode = 3 /\ Magnitude(value - setpoint) < hysteresis
           \/ mode = 4 /\ Magnitude(value - setpoint) > hysteresis
  <1>1. setpoint # None /\ mode # None
    OBVIOUS
  <1>2. mode \in {1, 2} => \/ (value < setpoint - hysteresis /\ value < setpoint)
                          \/ (value > setpoint + hysteresis /\ value > setpoint)
    BY DEF Magnitude
  <1>3. CASE mode = 1
    BY <1>1, <1>2, <1>3 DEF EvaluateLogicUnit
  <1>4. CASE mode = 2
    BY <1>1, <1>2, <1>4 DEF EvaluateLogicUnit
  <1>5. CASE mode = 3
    BY <1>1, <1>5 DEF EvaluateLogicUnit, Magnitude
  <1>6. CASE mode = 4
    BY <1>1, <1>6 DEF EvaluateLogicUnit, Magnitude
  <1>7. CASE mode \notin {1, 2, 3, 4}
    BY <1>1, <1>7 DEF EvaluateLogicUnit
  <1> QED
    BY <1>3, <1>4, <1>5, <1>6, <1>7

(* No chattering inside the band, for every setpoint and hysteresis and    *)
(* after every history of modes, setpoints and polls.                      *)
THEOREM BandHoldsCorrect == Spec => []BandHolds
  <1>1. ASSUME IInv PROVE BandHolds
    <2> SUFFICES ASSUME NEW c \in Channel, Complete(c), input[c].alType \in {1, 2},
                        Distance(c) <= Width(c)
                 PROVE  c \in NextMask <=> c \in mask
      BY DEF BandHolds, Remembers
    <2>1. Magnitude(input[c].measured - input[c].setpoint) <= Width(c)
      BY DEF Distance
    <2>2. /\ input[c].measured \in Int /\ input[c].setpoint \in Int /\ Width(c) \in Int
          /\ c \in NextMask <=>
               EvaluateLogicUnit(input[c].measured, input[c].setpoint, Width(c),
                                 input[c].alType, c \in mask)
      BY <1>1, CompleteChannel
    <2>3. EvaluateLogicUnit(input[c].measured, input[c].setpoint, Width(c),
                            input[c].alType, c \in mask) <=> c \in mask
      <3> DEFINE previous == c \in mask
      <3>1. previous \in BOOLEAN
        OBVIOUS
      <3> HIDE DEF previous
      <3>2. EvaluateLogicUnit(input[c].measured, input[c].setpoint, Width(c),
                              input[c].alType, previous) <=> previous
        BY <2>1, <2>2, <3>1, HoldsInBand, MaskAssumption
      <3> QED
        BY <3>2 DEF previous
    <2> QED
      BY <2>2, <2>3
  <1> QED
    BY <1>1, Invariance, PTL

(* In every other case, unknown parameters among them, the inputs alone     *)
(* decide, whatever the unit was before.  (service.py:661-662, 896-916)     *)
THEOREM InputsDecideCorrect == Spec => []InputsDecide
  <1>1. ASSUME IInv PROVE InputsDecide
    <2> SUFFICES ASSUME NEW c \in Channel, ~Remembers(c)
                 PROVE  c \in NextMask <=>
                          /\ Complete(c)
                          /\ \/ input[c].alType = 1 /\ input[c].measured < input[c].setpoint
                             \/ input[c].alType = 2 /\ input[c].measured > input[c].setpoint
                             \/ input[c].alType = 3 /\ Distance(c) < Width(c)
                             \/ input[c].alType = 4 /\ Distance(c) > Width(c)
      BY DEF InputsDecide
    <2>1. CASE ~Complete(c)
      BY <2>1 DEF Complete, NextMask, LogicMask, EvaluateLogicUnit
    <2>2. CASE Complete(c)
      <3>1. Width(c) \in Nat
        <4>1. input[c].hysteresis \in Int \cup {None}
          BY <1>1, MaskAssumption DEF IInv, TypeOK
        <4> QED
          BY <4>1 DEF Width, Magnitude
      <3>2. /\ input[c].measured \in Int /\ input[c].setpoint \in Int /\ input[c].alType \in Int
            /\ c \in NextMask <=>
                 EvaluateLogicUnit(input[c].measured, input[c].setpoint, Width(c),
                                   input[c].alType, c \in mask)
        BY <1>1, <2>2, CompleteChannel
      <3> DEFINE d == Magnitude(input[c].measured - input[c].setpoint)
      <3>3. d \in Int /\ (input[c].alType \in {1, 2} => d > Width(c))
        <4>1. d \in Int
          BY <3>2 DEF Magnitude
        <4>2. input[c].alType \in {1, 2} => ~(d <= Width(c))
          BY <2>2 DEF Remembers, Distance
        <4> HIDE DEF d
        <4> QED
          BY <3>1, <4>1, <4>2
      <3> DEFINE previous == c \in mask
      <3>4. previous \in BOOLEAN
        OBVIOUS
      <3>5. c \in NextMask <=>
              EvaluateLogicUnit(input[c].measured, input[c].setpoint, Width(c),
                                input[c].alType, previous)
        BY <3>2
      <3> HIDE DEF previous
      <3>6. EvaluateLogicUnit(input[c].measured, input[c].setpoint, Width(c),
                              input[c].alType, previous) <=>
              \/ input[c].alType = 1 /\ input[c].measured < input[c].setpoint
              \/ input[c].alType = 2 /\ input[c].measured > input[c].setpoint
              \/ input[c].alType = 3 /\ d < Width(c)
              \/ input[c].alType = 4 /\ d > Width(c)
        <4> DEFINE value == input[c].measured
                   setpoint == input[c].setpoint
                   mode == input[c].alType
                   width == Width(c)
        <4>1. /\ value \in Int /\ setpoint \in Int /\ mode \in Int /\ width \in Nat
              /\ mode \in {1, 2} => Magnitude(value - setpoint) > width
          BY <3>1, <3>2, <3>3
        <4> HIDE DEF value, setpoint, mode, width
        <4>2. EvaluateLogicUnit(value, setpoint, width, mode, previous) <=>
                \/ mode = 1 /\ value < setpoint
                \/ mode = 2 /\ value > setpoint
                \/ mode = 3 /\ Magnitude(value - setpoint) < width
                \/ mode = 4 /\ Magnitude(value - setpoint) > width
          BY <3>4, <4>1, DecidedByInputs, MaskAssumption
        <4> QED
          BY <4>2 DEF value, setpoint, mode, width
      <3> QED
        BY <2>2, <3>5, <3>6 DEF Distance
    <2> QED
      BY <2>1, <2>2
  <1> QED
    BY <1>1, Invariance, PTL

=============================================================================
