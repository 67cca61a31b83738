--------------------------- MODULE EncodingsProofs ---------------------------
(***************************************************************************)
(* The conversions of Encodings and their inverses: what is encoded        *)
(* decodes to the same value, for every value that can be encoded, and     *)
(* the one kind of payload for which it does not.                          *)
(***************************************************************************)
EXTENDS Encodings, SequenceTheorems, TLAPS

(* Division by 2^16: quotient and remainder exist and are unique.          *)
LEMMA Division ==
  ASSUME NEW n \in Int
  PROVE  /\ n \div 65536 \in Int /\ n % 65536 \in Int
         /\ 0 <= n % 65536 /\ n % 65536 < 65536
         /\ n = (n \div 65536) * 65536 + (n % 65536)
  OBVIOUS

LEMMA Quotient ==
  ASSUME NEW n \in Int, NEW q \in Int, NEW r \in Int, 0 <= r, r < 65536, n = q * 65536 + r
  PROVE  n \div 65536 = q /\ n % 65536 = r
  OBVIOUS

LEMMA Low16 ==
  ASSUME NEW n \in Int
  PROVE  n % 65536 \in Register
  <1> DEFINE r == n % 65536
  <1>1. r \in Int /\ 0 <= r /\ r < 65536
    BY Division
  <1> HIDE DEF r
  <1>2. r \in Register
    BY <1>1 DEF Register
  <1> QED
    BY <1>2 DEF r

LEMMA Fits16 ==
  ASSUME NEW n \in Register
  PROVE  n % 65536 = n
  <1>1. n \in Int /\ 0 <= n /\ n < 65536 /\ n = 0 * 65536 + n
    BY DEF Register
  <1> QED
    BY <1>1, Quotient

LEMMA WordBytes ==
  ASSUME NEW w \in Register
  PROVE  High(w) \in Byte /\ Low(w) \in Byte /\ Word(High(w), Low(w)) = w
  BY DEF Register, Byte, High, Low, Word

(* Two words make a 32-bit number, signed or not.                          *)
LEMMA LongWords ==
  ASSUME NEW n \in UnsignedLong
  PROVE  /\ n \div 65536 \in Register /\ n % 65536 \in Register
         /\ (n \div 65536) % 65536 = n \div 65536
         /\ (n \div 65536) * 65536 + (n % 65536) = n
  <1>1. n \in Int /\ 0 <= n /\ n < 65536 * 65536
    BY DEF UnsignedLong
  <1> DEFINE q == n \div 65536
             r == n % 65536
  <1>2. q \in Int /\ r \in Int /\ 0 <= r /\ r < 65536 /\ n = q * 65536 + r
    BY <1>1, Division
  <1>3. r \in Register
    BY <1>1, Low16
  <1> HIDE DEF q, r
  <1>4. q \in Register
    BY <1>1, <1>2 DEF Register
  <1>5. q % 65536 = q
    BY <1>4, Fits16
  <1> QED
    BY <1>2, <1>3, <1>4, <1>5 DEF q, r

LEMMA SignedRoundTrip ==
  ASSUME NEW n \in SignedShort
  PROVE  n % 65536 \in Register /\ SignedWord(n % 65536) = n
  <1>1. n \in Int /\ -32768 <= n /\ n < 32768
    BY DEF SignedShort
  <1>2. n % 65536 \in Register
    BY <1>1, Low16
  <1>3. CASE n >= 0
    <2>1. n % 65536 = n
      BY <1>1, <1>3, Fits16 DEF Register
    <2> QED
      BY <1>1, <1>2, <2>1 DEF SignedWord
  <1>4. CASE n < 0
    <2>1. n = -1 * 65536 + (n + 65536) /\ 0 <= n + 65536 /\ n + 65536 < 65536 /\ n + 65536 >= 32768
      BY <1>1, <1>4
    <2>2. n % 65536 = n + 65536
      BY <1>1, <2>1, Quotient
    <2> QED
      BY <1>1, <1>2, <2>1, <2>2 DEF SignedWord
  <1> QED
    BY <1>1, <1>3, <1>4

LEMMA SignedLongWords ==
  ASSUME NEW n \in SignedLong
  PROVE  /\ (n \div 65536) % 65536 \in Register /\ n % 65536 \in Register
         /\ SignedWord((n \div 65536) % 65536) = n \div 65536
         /\ (n \div 65536) * 65536 + (n % 65536) = n
  <1>1. n \in Int /\ -32768 * 65536 <= n /\ n < 32768 * 65536
    BY DEF SignedLong
  <1> DEFINE q == n \div 65536
             r == n % 65536
  <1>2. q \in Int /\ r \in Int /\ 0 <= r /\ r < 65536 /\ n = q * 65536 + r
    BY <1>1, Division
  <1>3. r \in Register
    BY <1>1, Low16
  <1> HIDE DEF q, r
  <1>4. q \in SignedShort
    BY <1>1, <1>2 DEF SignedShort
  <1>5. q % 65536 \in Register /\ SignedWord(q % 65536) = q
    BY <1>4, SignedRoundTrip
  <1> QED
    BY <1>2, <1>3, <1>5 DEF q, r

-----------------------------------------------------------------------------
(* Every value of a type takes as many registers as register_width says    *)
(* and is read back as it was written.                                     *)
ThroughRegisters(type, values) ==
  \A value \in values :
     LET registers == EncodeRegisters(value, type) IN
     /\ registers \in Seq(Register) /\ Len(registers) = RegisterWidth(type)
     /\ DecodeRegisters(registers, type) = value

(* encode_registers fills as many registers as register_width reserves,    *)
(* and decode_registers reads the value back: a client reads what the      *)
(* gateway published, and the gateway what a client wrote.                 *)
THEOREM RegistersRoundTrip ==
  /\ ThroughRegisters("bool", {0, 1})
  /\ ThroughRegisters("uint16", Register)
  /\ ThroughRegisters("int16", SignedShort)
  /\ ThroughRegisters("uint32", UnsignedLong)
  /\ ThroughRegisters("int32", SignedLong)
  <1>1. ASSUME NEW value \in Register, NEW type \in {"bool", "uint16"},
               type = "bool" => value \in {0, 1}
        PROVE  /\ EncodeRegisters(value, type) = <<value>>
               /\ RegisterWidth(type) = 1
               /\ DecodeRegisters(<<value>>, type) = value
    <2>1. value % 65536 = value
      BY Fits16
    <2> QED
      BY <1>1, <2>1 DEF EncodeRegisters, RegisterWidth, DecodeRegisters
  <1>2. ThroughRegisters("bool", {0, 1}) /\ ThroughRegisters("uint16", Register)
    <2>1. {0, 1} \subseteq Register
      BY DEF Register
    <2>2. \A value \in Register : <<value>> \in Seq(Register) /\ Len(<<value>>) = 1
      OBVIOUS
    <2>3. ThroughRegisters("bool", {0, 1})
      BY <1>1, <2>1, <2>2 DEF ThroughRegisters
    <2>4. ThroughRegisters("uint16", Register)
      BY <1>1, <2>2 DEF ThroughRegisters
    <2> QED
      BY <2>3, <2>4
  <1>3. ThroughRegisters("int16", SignedShort)
    BY SignedRoundTrip DEF ThroughRegisters, EncodeRegisters, RegisterWidth, DecodeRegisters
  <1>4. ThroughRegisters("uint32", UnsignedLong)
    BY LongWords DEF ThroughRegisters, EncodeRegisters, RegisterWidth, DecodeRegisters, DoubleWord
  <1>5. ThroughRegisters("int32", SignedLong)
    BY SignedLongWords DEF ThroughRegisters, EncodeRegisters, RegisterWidth, DecodeRegisters, DoubleWord
  <1> QED
    BY <1>2, <1>3, <1>4, <1>5

-----------------------------------------------------------------------------
(* A payload, bare or with two more bytes, is read as value.               *)
ThroughPayload(payload, format, value) ==
  \A a, b \in Byte :
     /\ Len(payload) \in PayloadLengths(format)
     /\ Len(payload \o <<a, b>>) \in PayloadLengths(format)
     /\ DecodePayload(payload, format) = value
     /\ DecodePayload(payload \o <<a, b>>, format) = value

(* Appending two bytes leaves what is there.                               *)
LEMMA Suffixed ==
  ASSUME NEW payload \in Seq(Byte), NEW a \in Byte, NEW b \in Byte
  PROVE  /\ Len(payload \o <<a, b>>) = Len(payload) + 2
         /\ \A i \in 1..Len(payload) : (payload \o <<a, b>>)[i] = payload[i]
  <1> DEFINE suffix == <<a, b>>
  <1>1. suffix \in Seq(Byte) /\ Len(suffix) = 2 /\ Len(payload) \in Nat
    OBVIOUS
  <1> HIDE DEF suffix
  <1>2. Len(payload \o suffix) = Len(payload) + 2
    BY <1>1, ConcatProperties
  <1>3. ASSUME NEW i \in 1..Len(payload)
        PROVE  (payload \o suffix)[i] = payload[i]
    BY <1>1
  <1> QED
    BY <1>2, <1>3 DEF suffix

LEMMA ShortPayload ==
  ASSUME NEW word \in Register, NEW format \in {"int16", "uint16"}
  PROVE  ThroughPayload(<<High(word), Low(word)>>, format,
                        IF format = "int16" THEN SignedWord(word) ELSE word)
  <1> SUFFICES ASSUME NEW a \in Byte, NEW b \in Byte,
                      NEW payload, payload = <<High(word), Low(word)>>,
                      NEW value, value = IF format = "int16" THEN SignedWord(word) ELSE word
               PROVE  /\ Len(payload) \in PayloadLengths(format)
                      /\ Len(payload \o <<a, b>>) \in PayloadLengths(format)
                      /\ DecodePayload(payload, format) = value
                      /\ DecodePayload(payload \o <<a, b>>, format) = value
    BY DEF ThroughPayload
  <1> DEFINE long == payload \o <<a, b>>
  <1>1. High(word) \in Byte /\ Low(word) \in Byte /\ Word(High(word), Low(word)) = word
    BY WordBytes
  <1>2. payload \in Seq(Byte) /\ Len(payload) = 2 /\ payload[1] = High(word) /\ payload[2] = Low(word)
    BY <1>1
  <1>3. Len(long) = 4 /\ long[1] = payload[1] /\ long[2] = payload[2]
    BY <1>2, Suffixed
  <1> HIDE DEF long
  <1>4. DecodePayload(payload, format) = value /\ DecodePayload(long, format) = value
    BY <1>1, <1>2, <1>3 DEF DecodePayload
  <1>5. Len(payload) \in PayloadLengths(format) /\ Len(long) \in PayloadLengths(format)
    BY <1>2, <1>3 DEF PayloadLengths
  <1> QED
    BY <1>4, <1>5 DEF long

LEMMA LongPayload ==
  ASSUME NEW payload \in Seq(Byte), Len(payload) = 4,
         NEW value, value = DoubleWord(Word(payload[1], payload[2]), Word(payload[3], payload[4]))
  PROVE  ThroughPayload(payload, "uint32", value)
  <1> SUFFICES ASSUME NEW a \in Byte, NEW b \in Byte
               PROVE  /\ Len(payload) \in PayloadLengths("uint32")
                      /\ Len(payload \o <<a, b>>) \in PayloadLengths("uint32")
                      /\ DecodePayload(payload, "uint32") = value
                      /\ DecodePayload(payload \o <<a, b>>, "uint32") = value
    BY DEF ThroughPayload
  <1> DEFINE long == payload \o <<a, b>>
  <1>0. Len(long) = Len(payload) + 2 /\ \A i \in 1..Len(payload) : long[i] = payload[i]
    BY Suffixed, Zenon
  <1> HIDE DEF long
  <1>1. /\ Len(long) = 6
        /\ long[1] = payload[1] /\ long[2] = payload[2]
        /\ long[3] = payload[3] /\ long[4] = payload[4]
    BY <1>0
  <1>2. DecodePayload(payload, "uint32") = value /\ DecodePayload(long, "uint32") = value
    BY <1>1 DEF DecodePayload
  <1>3. Len(payload) \in PayloadLengths("uint32") /\ Len(long) \in PayloadLengths("uint32")
    BY <1>1 DEF PayloadLengths
  <1> QED
    BY <1>2, <1>3 DEF long

(* An integer payload decodes to the value it was made from, also when a   *)
(* device appends the two bytes of an index or a time mark to it.          *)
THEOREM PayloadRoundTrip ==
  /\ \A value \in SignedShort : ThroughPayload(EncodePayload(value, "int16"), "int16", value)
  /\ \A value \in Register : ThroughPayload(EncodePayload(value, "uint16"), "uint16", value)
  /\ \A value \in UnsignedLong : ThroughPayload(EncodePayload(value, "uint32"), "uint32", value)
  <1>1. ASSUME NEW value \in SignedShort
        PROVE  ThroughPayload(EncodePayload(value, "int16"), "int16", value)
    <2>1. value % 65536 \in Register /\ SignedWord(value % 65536) = value
      BY SignedRoundTrip
    <2>2. ThroughPayload(<<High(value % 65536), Low(value % 65536)>>, "int16", value)
      BY <2>1, ShortPayload
    <2> QED
      BY <2>2 DEF EncodePayload
  <1>2. ASSUME NEW value \in Register
        PROVE  ThroughPayload(EncodePayload(value, "uint16"), "uint16", value)
    <2>1. value % 65536 = value
      BY Fits16
    <2>2. ThroughPayload(<<High(value), Low(value)>>, "uint16", value)
      BY ShortPayload
    <2> QED
      BY <2>1, <2>2 DEF EncodePayload
  <1>3. ASSUME NEW value \in UnsignedLong
        PROVE  ThroughPayload(EncodePayload(value, "uint32"), "uint32", value)
    <2> DEFINE high == value \div 65536
               low  == value % 65536
    <2>1. high \in Register /\ low \in Register /\ DoubleWord(high, low) = value
      BY LongWords DEF DoubleWord
    <2>2. EncodePayload(value, "uint32") = <<High(high), Low(high), High(low), Low(low)>>
      BY DEF EncodePayload
    <2> HIDE DEF high, low
    <2>3. /\ High(high) \in Byte /\ Low(high) \in Byte /\ Word(High(high), Low(high)) = high
          /\ High(low) \in Byte /\ Low(low) \in Byte /\ Word(High(low), Low(low)) = low
      BY <2>1, WordBytes
    <2> DEFINE payload == <<High(high), Low(high), High(low), Low(low)>>
    <2>4. /\ payload \in Seq(Byte) /\ Len(payload) = 4
          /\ payload[1] = High(high) /\ payload[2] = Low(high)
          /\ payload[3] = High(low) /\ payload[4] = Low(low)
      BY <2>3
    <2> HIDE DEF payload
    <2>5. value = DoubleWord(Word(payload[1], payload[2]), Word(payload[3], payload[4]))
      BY <2>1, <2>3, <2>4
    <2>6. ThroughPayload(payload, "uint32", value)
      BY <2>4, <2>5, LongPayload
    <2> QED
      BY <2>2, <2>6 DEF payload
  <1> QED
    BY <1>1, <1>2, <1>3
-----------------------------------------------------------------------------
(* A decimal whose mantissa needs more than four bits is sent in two or    *)
(* three bytes and decodes to itself: sign, digits and decimal point.      *)
THEOREM StoredDotRoundTrip ==
  \A d \in Decimal : d.mantissa >= 16 => DecodeStoredDot(EncodeStoredDot(d)) = d
  <1> SUFFICES ASSUME NEW d \in Decimal, d.mantissa >= 16
               PROVE  DecodeStoredDot(EncodeStoredDot(d)) = d
    OBVIOUS
  <1> DEFINE s == d.sign
             e == d.exponent
             m == d.mantissa
             image(sign, exponent, mantissa) ==
               [sign |-> sign, exponent |-> exponent, mantissa |-> mantissa]
  <1>1. /\ d = image(s, e, m)
        /\ s \in {0, 1} /\ e \in 0..7 /\ m \in Register /\ m \in Nat /\ m < 65536
    BY DEF Decimal, Register
  <1>2. CASE m < 4096
    <2> DEFINE raw == s * 32768 + e * 4096 + m
    <2>1. /\ raw \in Register
          /\ raw \div 32768 = s /\ (raw \div 4096) % 8 = e /\ raw % 4096 = m
      <3> HIDE DEF s, e, m
      <3>1. raw \in Register
        BY <1>1, <1>2 DEF Register
      <3>2. raw \div 32768 = s /\ raw \div 4096 = s * 8 + e /\ raw % 4096 = m
        BY <1>1, <1>2
      <3>3. (s * 8 + e) % 8 = e
        BY <1>1
      <3> QED
        BY <3>1, <3>2, <3>3
    <2>2. EncodeStoredDot(d) = <<High(raw), Low(raw)>>
      BY <1>1, <1>2 DEF EncodeStoredDot
    <2>3. Word(High(raw), Low(raw)) = raw
      BY <2>1, WordBytes
    <2> HIDE DEF raw
    <2>4. DecodeStoredDot(<<High(raw), Low(raw)>>)
            = image(raw \div 32768, (raw \div 4096) % 8, raw % 4096)
      BY <2>3 DEF DecodeStoredDot
    <2> QED
      BY <1>1, <2>1, <2>2, <2>4
  <1>3. CASE m >= 4096
    <2> DEFINE first == s * 128 + e * 16
    <2>1. first \div 128 = s /\ (first \div 16) % 8 = e
      <3> HIDE DEF s, e, m
      <3>1. first \div 128 = s /\ first \div 16 = s * 8 + e
        BY <1>1
      <3>2. (s * 8 + e) % 8 = e
        BY <1>1
      <3> QED
        BY <3>1, <3>2
    <2>2. EncodeStoredDot(d) = <<first, High(m), Low(m)>>
      BY <1>1, <1>3 DEF EncodeStoredDot
    <2>3. Word(High(m), Low(m)) = m
      BY <1>1, WordBytes
    <2> HIDE DEF first
    <2>4. DecodeStoredDot(<<first, High(m), Low(m)>>)
            = image(first \div 128, (first \div 16) % 8, m)
      BY <2>3 DEF DecodeStoredDot
    <2> QED
      BY <1>1, <2>1, <2>2, <2>4
  <1> QED
    BY <1>1, <1>2, <1>3

(* The whole numbers from 2 to 6553, positive or negative, can be written  *)
(* as setpoints and are read back as they were written.                    *)
THEOREM WholeSetpointsRoundTrip ==
  \A n \in Int : /\ n \in 2..6553 \/ -n \in 2..6553
                 => DecodeStoredDot(EncodeStoredDot(OfInteger(n))) = OfInteger(n)
  <1> SUFFICES ASSUME NEW n \in Int, n \in 2..6553 \/ -n \in 2..6553
               PROVE  DecodeStoredDot(EncodeStoredDot(OfInteger(n))) = OfInteger(n)
    OBVIOUS
  <1> DEFINE m == IF n < 0 THEN -10 * n ELSE 10 * n
             s == IF n < 0 THEN 1 ELSE 0
  <1>1. m \in Register /\ m >= 16 /\ s \in 0..1
    BY DEF Register
  <1>2. OfInteger(n) = [sign |-> s, exponent |-> 1, mantissa |-> m]
    BY DEF OfInteger
  <1> HIDE DEF m, s
  <1>3. OfInteger(n) \in Decimal /\ OfInteger(n).mantissa = m
    BY <1>1, <1>2 DEF Decimal
  <1> QED
    BY <1>1, <1>3, StoredDotRoundTrip

(* What fits in one byte is never read as the number that was written: the *)
(* exponent, which is never 0 there, becomes part of the digits. So the    *)
(* readback of a device that answers in the form it was written to refuses *)
(* the setpoints 0 and 1, 0.5 and the like.                                *)
THEOREM OneByteIsMisread ==
  \A d \in Decimal : d.mantissa < 16 /\ d.exponent > 0
                     => ~ SameNumber(DecodeStoredDot(EncodeStoredDot(d)), d)
  <1> SUFFICES ASSUME NEW d \in Decimal, d.mantissa < 16, d.exponent > 0
               PROVE  ~ SameNumber(DecodeStoredDot(EncodeStoredDot(d)), d)
    OBVIOUS
  <1> DEFINE s == d.sign
             e == d.exponent
             m == d.mantissa
             b == s * 128 + e * 16 + m
  <1>1. s \in {0, 1} /\ e \in 1..7 /\ m \in Nat /\ m < 16
    BY DEF Decimal, Register
  <1>2. EncodeStoredDot(d) = <<b>>
    BY DEF EncodeStoredDot
  <1> HIDE DEF s, e, m
  <1>3. b \in Nat /\ b < 256 /\ b > m
    BY <1>1
  <1> HIDE DEF b
  <1>4. DecodeStoredDot(<<b>>) = [sign |-> 0, exponent |-> 0, mantissa |-> b]
    <2>1. b \div 32768 = 0 /\ b \div 4096 = 0 /\ b % 4096 = b
      BY <1>3
    <2> QED
      BY <2>1 DEF DecodeStoredDot
  <1>5. Pow10[1] = 1 /\ Pow10[e + 1] \in Nat /\ Pow10[e + 1] >= 1
    BY <1>1 DEF Pow10
  <1>6. b * Pow10[e + 1] # m * Pow10[1]
    <2> DEFINE power == Pow10[e + 1]
    <2> HIDE DEF power
    <2>1. power \in Nat /\ power >= 1
      BY <1>5 DEF power
    <2>2. b * power >= b
      BY <1>3, <2>1
    <2> QED
      BY <1>1, <1>3, <1>5, <2>2 DEF power
  <1> QED
    BY <1>2, <1>4, <1>6 DEF SameNumber, e, m
-----------------------------------------------------------------------------
LEMMA Joined ==
  ASSUME NEW h \in Seq(Byte), NEW t \in Seq(Byte), Len(h) = 4
  PROVE  /\ h \o t \in Seq(Byte) /\ Len(h \o t) = 4 + Len(t)
         /\ \A i \in 1..(4 + Len(t)) : (h \o t)[i] = IF i <= 4 THEN h[i] ELSE t[i - 4]
  <1>1. /\ h \o t \in Seq(Byte) /\ Len(h \o t) = Len(h) + Len(t)
        /\ \A i \in 1..(Len(h) + Len(t)) :
             (h \o t)[i] = IF i <= Len(h) THEN h[i] ELSE t[i - Len(h)]
    BY ConcatProperties
  <1> QED
    BY <1>1

(* decode_frame takes apart what encode_frame has put together: address,   *)
(* request flag, hash and payload come back for every frame, and its       *)
(* length passes the check.                                                *)
THEOREM FrameRoundTrip ==
  \A f \in OwenFrame : WellFormed(EncodeBody(f)) /\ DecodeBody(EncodeBody(f)) = f
  <1> SUFFICES ASSUME NEW f \in OwenFrame
               PROVE  WellFormed(EncodeBody(f)) /\ DecodeBody(EncodeBody(f)) = f
    OBVIOUS
  <1> DEFINE n      == Len(f.payload)
             first  == f.address \div 8
             second == (f.address % 8) * 32 + f.request * 16 + n
             header == <<first, second, High(f.hash), Low(f.hash)>>
             body   == header \o f.payload
  <1>1. /\ f.address \in Nat /\ f.address < 2048 /\ f.request \in {0, 1}
        /\ f.hash \in Register /\ f.payload \in Seq(Byte) /\ n \in Nat /\ n <= 15
    <2>1. f.address \in Address /\ f.request \in {0, 1} /\ f.hash \in Register /\ f.payload \in Payload
      BY DEF OwenFrame
    <2> QED
      BY <2>1 DEF Address, Payload
  <1>2. High(f.hash) \in Byte /\ Low(f.hash) \in Byte /\ Word(High(f.hash), Low(f.hash)) = f.hash
    BY <1>1, WordBytes
  <1>3. first \in Byte /\ second \in Byte
        /\ first * 8 + second \div 32 = f.address
        /\ (second \div 16) % 2 = f.request
        /\ second % 16 = n
    <2> DEFINE a == f.address
               r == f.request
    <2> HIDE DEF n
    <2>1. a \in Nat /\ a < 2048 /\ r \in {0, 1} /\ n \in Nat /\ n <= 15
      BY <1>1
    <2>2. PICK q, x \in Nat : a = q * 8 + x /\ x < 8 /\ q < 256
      <3>1. a = (a \div 8) * 8 + (a % 8) /\ a % 8 \in Nat /\ a % 8 < 8 /\ a \div 8 \in Nat /\ a \div 8 < 256
        BY <2>1
      <3> QED
        BY <3>1
    <2>3. a \div 8 = q /\ a % 8 = x
      BY <2>2
    <2>4. first = q /\ second = x * 32 + r * 16 + n
      BY <2>3
    <2> HIDE DEF first, second, a, r
    <2>5. second \div 32 = x /\ second \div 16 = x * 2 + r /\ second % 16 = n
      BY <2>1, <2>2, <2>4
    <2>6. (x * 2 + r) % 2 = r
      BY <2>1, <2>2
    <2>7. first \in Byte /\ second \in Byte
      BY <2>1, <2>2, <2>4 DEF Byte
    <2> QED
      BY <2>2, <2>4, <2>5, <2>6, <2>7 DEF a, r
  <1> HIDE DEF first, second, n
  <1>4. /\ header \in Seq(Byte) /\ Len(header) = 4
        /\ header[1] = first /\ header[2] = second
        /\ header[3] = High(f.hash) /\ header[4] = Low(f.hash)
    BY <1>2, <1>3
  <1> HIDE DEF header
  <1>5. /\ body \in Seq(Byte) /\ Len(body) = 4 + n
        /\ \A i \in 1..(4 + n) : body[i] = IF i <= 4 THEN header[i] ELSE f.payload[i - 4]
    BY <1>1, <1>4, Joined DEF n
  <1> HIDE DEF body
  <1>6. /\ body[1] = first /\ body[2] = second
        /\ body[3] = High(f.hash) /\ body[4] = Low(f.hash)
    BY <1>1, <1>4, <1>5
  <1>7. SubSeq(body, 5, Len(body)) = f.payload
    <2> DEFINE part == SubSeq(body, 5, Len(body))
    <2>1. 5 \in 1..(Len(body) + 1) /\ Len(body) \in Nat
      BY <1>1, <1>5
    <2>2. part \in Seq(Byte) /\ Len(part) = n /\ \A i \in 1..n : part[i] = body[5 + i - 1]
      BY <1>1, <1>5, <2>1, SubSeqProperties
    <2>3. \A i \in 1..n : 4 + i \in 1..(4 + n) /\ ~ (4 + i <= 4) /\ 4 + i - 4 = i /\ 5 + i - 1 = 4 + i
      BY <1>1
    <2> HIDE DEF part
    <2>4. \A i \in 1..n : part[i] = f.payload[i]
      BY <1>5, <2>2, <2>3
    <2>5. part = f.payload
      BY <1>1, <2>2, <2>4, SeqEqual DEF n
    <2> QED
      BY <2>5 DEF part
  <1>8. EncodeBody(f) = body
    BY DEF EncodeBody, body, header, first, second, n
  <1>9. WellFormed(body)
    BY <1>1, <1>3, <1>5, <1>6 DEF WellFormed
  <1>10. DecodeBody(body) = [address |-> f.address, request |-> f.request,
                             hash |-> f.hash, payload |-> f.payload]
    BY <1>2, <1>3, <1>6, <1>7 DEF DecodeBody
  <1>11. f = [address |-> f.address, request |-> f.request,
              hash |-> f.hash, payload |-> f.payload]
    BY DEF OwenFrame
  <1> QED
    BY <1>8, <1>9, <1>10, <1>11

(* The symbols on the wire carry every byte of a frame.                    *)
THEOREM NibblesRoundTrip ==
  \A body \in Seq(Byte) : /\ NibbleEncode(body) \in Seq(0..15)
                          /\ NibbleDecode(NibbleEncode(body)) = body
  <1> SUFFICES ASSUME NEW body \in Seq(Byte)
               PROVE  /\ NibbleEncode(body) \in Seq(0..15)
                      /\ NibbleDecode(NibbleEncode(body)) = body
    OBVIOUS
  <1> DEFINE n       == Len(body)
             symbols == NibbleEncode(body)
             decoded == NibbleDecode(symbols)
  <1>1. n \in Nat /\ \A k \in 1..n : body[k] \in Byte
    OBVIOUS
  <1>2. ASSUME NEW k \in 1..n
        PROVE  /\ 2 * k - 1 \in 1..(2 * n) /\ (2 * k - 1) % 2 = 1 /\ (2 * k - 1 + 1) \div 2 = k
               /\ 2 * k \in 1..(2 * n) /\ (2 * k) % 2 = 0 /\ (2 * k) \div 2 = k
    BY <1>1
  <1>3. ASSUME NEW b \in Byte
        PROVE  /\ b \div 16 \in 0..15 /\ b % 16 \in 0..15
               /\ (b \div 16) * 16 + (b % 16) = b
    BY DEF Byte
  <1>4. ASSUME NEW i \in 1..(2 * n)
        PROVE  \E k \in 1..n : i = 2 * k - 1 \/ i = 2 * k
    <2>1. CASE i % 2 = 1
      <3>1. (i + 1) \div 2 \in 1..n /\ i = 2 * ((i + 1) \div 2) - 1
        BY <1>1, <2>1
      <3> QED
        BY <3>1
    <2>2. CASE i % 2 = 0
      <3>1. i \div 2 \in 1..n /\ i = 2 * (i \div 2)
        BY <1>1, <2>2
      <3> QED
        BY <3>1
    <2> QED
      BY <1>1, <2>1, <2>2
  <1>5. ASSUME NEW k \in 1..n
        PROVE  symbols[2 * k - 1] = body[k] \div 16 /\ symbols[2 * k] = body[k] % 16
    BY <1>2 DEF NibbleEncode
  <1>6. symbols \in Seq(0..15) /\ Len(symbols) = 2 * n
    <2>1. ASSUME NEW i \in 1..(2 * n)
          PROVE  symbols[i] \in 0..15
      <3>1. PICK k \in 1..n : i = 2 * k - 1 \/ i = 2 * k
        BY <1>4
      <3>2. symbols[2 * k - 1] = body[k] \div 16 /\ symbols[2 * k] = body[k] % 16
        BY <1>5
      <3>3. body[k] \div 16 \in 0..15 /\ body[k] % 16 \in 0..15
        BY <1>1, <1>3
      <3> HIDE DEF symbols
      <3> QED
        BY <3>1, <3>2, <3>3
    <2>2. symbols = [i \in 1..(2 * n) |-> symbols[i]] /\ 2 * n \in Nat
      BY <1>1 DEF NibbleEncode
    <2> HIDE DEF symbols
    <2> QED
      BY <2>1, <2>2
  <1>7. decoded = [k \in 1..n |-> body[k]]
    <2>1. (2 * n) \div 2 = n
      BY <1>1
    <2>2. decoded = [k \in 1..n |-> symbols[2 * k - 1] * 16 + symbols[2 * k]]
      BY <1>6, <2>1 DEF NibbleDecode
    <2>3. ASSUME NEW k \in 1..n
          PROVE  symbols[2 * k - 1] * 16 + symbols[2 * k] = body[k]
      BY <1>1, <1>3, <1>5
    <2> HIDE DEF decoded, symbols
    <2> QED
      BY <2>2, <2>3
  <1>8. body = [k \in 1..n |-> body[k]]
    OBVIOUS
  <1> QED
    BY <1>6, <1>7, <1>8
=============================================================================
