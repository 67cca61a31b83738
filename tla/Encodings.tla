------------------------------ MODULE Encodings ------------------------------
(***************************************************************************)
(* What the gateway's conversions compute: Modbus registers (encoding.py)  *)
(* and the payloads and frames of the OVEN protocol (protocol.py). All of  *)
(* them are pure functions of integers and bytes. Floating point (float32) *)
(* and the checksum are left out: the first is a conversion of the struct  *)
(* library, the second is a frame's being garbled or not, which            *)
(* SerialExchange models.                                                  *)
(***************************************************************************)
EXTENDS Integers, Sequences

Byte == 0..255
Register == {n \in Nat : n < 65536}
UnsignedLong == {n \in Nat : n < 65536 * 65536}
SignedShort == {n \in Int : -32768 <= n /\ n < 32768}
SignedLong == {n \in Int : -32768 * 65536 <= n /\ n < 32768 * 65536}

Word(high, low) == high * 256 + low
DoubleWord(high, low) == high * 65536 + low
High(word) == word \div 256
Low(word) == word % 256

\* Two's complement of 8 and of 16 bits.
SignedByte(b) == IF b >= 128 THEN b - 256 ELSE b
SignedWord(w) == IF w >= 32768 THEN w - 65536 ELSE w

-----------------------------------------------------------------------------
(* Registers, for the values encode_registers accepts: {0, 1} as bool,     *)
(* Register as uint16, SignedShort as int16, UnsignedLong as uint32 and    *)
(* SignedLong as int32.                                                    *)

\* The most significant register comes first.
EncodeRegisters(value, type) ==
  IF type \in {"uint32", "int32"}
  THEN <<(value \div 65536) % 65536, value % 65536>>
  ELSE <<value % 65536>>

RegisterWidth(type) == IF type \in {"uint32", "int32", "float32"} THEN 2 ELSE 1

DecodeRegisters(registers, type) ==
  LET first == IF type \in {"int16", "int32"} THEN SignedWord(registers[1]) ELSE registers[1] IN
  IF RegisterWidth(type) = 2 THEN DoubleWord(first, registers[2])
  ELSE IF type = "bool" /\ first # 0 THEN 1 ELSE first

-----------------------------------------------------------------------------
(* Payloads. An integer goes out with its full width; what comes in may be *)
(* one byte, or end in two bytes of an index or a time mark.               *)
EncodePayload(value, format) ==
  IF format = "uint32"
  THEN <<High(value \div 65536), Low(value \div 65536), High(value % 65536), Low(value % 65536)>>
  ELSE <<High(value % 65536), Low(value % 65536)>>

\* The lengths decode_payload reads; it raises for the others.
PayloadLengths(format) == IF format = "uint32" THEN {4, 6} ELSE {1, 2, 4}

DecodePayload(payload, format) ==
  LET first == Word(payload[1], payload[2]) IN
  IF format = "uint32" THEN DoubleWord(first, Word(payload[3], payload[4]))
  ELSE IF Len(payload) = 1
  THEN IF format = "int16" THEN SignedByte(payload[1]) ELSE payload[1]
  ELSE IF format = "int16" THEN SignedWord(first) ELSE first

-----------------------------------------------------------------------------
(* stored_dot: a decimal number, the mantissa shifted right by exponent    *)
(* digits, in as few bytes as the mantissa needs.                          *)
Decimal == [sign: 0..1, exponent: 0..7, mantissa: Register]

Pow10 == <<1, 10, 100, 1000, 10000, 100000, 1000000, 10000000>>

\* Two decimals that are the same number.
SameNumber(d, c) ==
  LET scaled == d.mantissa * Pow10[c.exponent + 1] IN
  /\ scaled = c.mantissa * Pow10[d.exponent + 1]
  /\ d.sign = c.sign \/ scaled = 0

\* A whole number is written with one digit after the point.
OfInteger(n) == [sign     |-> IF n < 0 THEN 1 ELSE 0,
                 exponent |-> 1,
                 mantissa |-> IF n < 0 THEN -10 * n ELSE 10 * n]

EncodeStoredDot(d) ==
  IF d.mantissa < 16
  THEN <<d.sign * 128 + d.exponent * 16 + d.mantissa>>
  ELSE IF d.mantissa < 4096
  THEN LET raw == d.sign * 32768 + d.exponent * 4096 + d.mantissa IN <<High(raw), Low(raw)>>
  ELSE <<d.sign * 128 + d.exponent * 16, High(d.mantissa), Low(d.mantissa)>>

\* Padding one byte to two leaves the sign and the exponent of a one-byte
\* payload among the digits of the mantissa.
DecodeStoredDot(payload) ==
  LET raw == IF Len(payload) = 1 THEN payload[1] ELSE Word(payload[1], payload[2]) IN
  IF Len(payload) = 3
  THEN [sign     |-> payload[1] \div 128,
        exponent |-> (payload[1] \div 16) % 8,
        mantissa |-> Word(payload[2], payload[3])]
  ELSE [sign     |-> raw \div 32768,
        exponent |-> (raw \div 4096) % 8,
        mantissa |-> raw % 4096]

-----------------------------------------------------------------------------
(* Frames. The header packs eleven bits of address, the request flag and   *)
(* the length of the payload into two bytes; every byte of a body travels  *)
(* as two symbols, here their numbers 0..15.                               *)
Payload == {p \in Seq(Byte) : Len(p) <= 15}
Address == {a \in Nat : a < 2048}
OwenFrame == [address: Address, request: {0, 1}, hash: Register, payload: Payload]

EncodeBody(f) ==
  <<f.address \div 8,
    (f.address % 8) * 32 + f.request * 16 + Len(f.payload),
    High(f.hash), Low(f.hash)>> \o f.payload

\* The check of decode_frame on the lengths; it raises otherwise.
WellFormed(body) == Len(body) >= 2 /\ Len(body) - 2 = (body[2] % 16) + 2

DecodeBody(body) ==
  [address |-> body[1] * 8 + body[2] \div 32,
   request |-> (body[2] \div 16) % 2,
   hash    |-> Word(body[3], body[4]),
   payload |-> SubSeq(body, 5, Len(body))]

NibbleEncode(body) ==
  [i \in 1..(2 * Len(body)) |-> IF i % 2 = 1 THEN body[(i + 1) \div 2] \div 16
                                             ELSE body[i \div 2] % 16]

NibbleDecode(symbols) ==
  [i \in 1..(Len(symbols) \div 2) |-> symbols[2 * i - 1] * 16 + symbols[2 * i]]
=============================================================================
