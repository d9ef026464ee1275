-------------------------------- MODULE Utf8 --------------------------------
(***************************************************************************)
(* The bytes of a transmission of hw1 (src/comdec.c): its markers, and the *)
(* values between them, in UTF-8.                                          *)
(***************************************************************************)
EXTENDS Integers, Sequences

SOT == 129   \* 0x81, start of transmission
EOT == 130   \* 0x82
SOB == 131   \* 0x83, start of block
EOB == 132   \* 0x84
EOR == 133   \* 0x85, end of rule

LastValue == 1114111   \* 0x10FFFF

Bits(v, unit) == 128 + ((v \div unit) % 64)

\* Mutant: a byte of text is written as it is.
Utf8Bytes(v) == IF v < 256 THEN <<v>> ELSE <<192 + (v \div 64), Bits(v, 1)>>

\* convert_utf8
Utf8(v) ==
  CASE v <= 127 -> <<v>>
    [] 127 < v /\ v <= 2047 -> <<192 + (v \div 64), Bits(v, 1)>>
    [] 2047 < v /\ v <= 65535 -> <<224 + (v \div 4096), Bits(v, 64), Bits(v, 1)>>
    [] 65535 < v /\ v <= LastValue ->
         <<240 + (v \div 262144), Bits(v, 4096), Bits(v, 64), Bits(v, 1)>>

NumBytes(b) == CASE b < 128 -> 1
                 [] b \in 192 .. 223 -> 2
                 [] b \in 224 .. 239 -> 3
                 [] b \in 240 .. 247 -> 4
                 [] OTHER -> 0

\* convert: the value whose first byte is Head(w), or -1.
Convert(w) ==
  LET n == NumBytes(Head(w))
      complete(m) == n = m /\ Len(w) >= m /\ \A k \in 2 .. m : w[k] \in 128 .. 191
      bits(k) == w[k] - 128
  IN CASE complete(1) -> Head(w)
       [] complete(2) -> (Head(w) - 192) * 64 + bits(2)
       [] complete(3) -> (Head(w) - 224) * 4096 + bits(2) * 64 + bits(3)
       [] complete(4) -> (Head(w) - 240) * 262144 + bits(2) * 4096 + bits(3) * 64 + bits(4)
       [] OTHER -> -1
=============================================================================
