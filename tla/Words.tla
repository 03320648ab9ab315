------------------------------- MODULE Words -------------------------------
(***************************************************************************)
(* Machine words, scaled: ByteBits is 8 in the code, and every other width *)
(* follows from it, so that small words overflow, carry and sign-extend at *)
(* the same places as 32-bit ones.  A word is a number in 0 .. Word - 1.   *)
(***************************************************************************)
EXTENDS Integers, Bitwise

CONSTANT ByteBits    \* bits in a byte

WordBits == 4 * ByteBits
Byte == 2 ^ ByteBits
Half == Byte * Byte
Word == Half * Half
SignBit == Word \div 2

Wrap(n) == n % Word
Negative(w) == w >= SignBit
Signed(w) == IF Negative(w) THEN w - Word ELSE w
Inverted(w) == Word - 1 - w
SignExtend(n, size) == IF n >= size \div 2 THEN Wrap(n - size) ELSE n

\* The n bytes at address a of the byte function m, least significant first.
Bytes(m, a, n) ==
  LET From[i \in 0 .. n] == IF i = n THEN 0 ELSE m[a + i] + Byte * From[i + 1]
  IN From[0]

\* m with the n low bytes of w stored at a.
WithBytes(m, a, n, w) ==
  [x \in DOMAIN m |-> IF x \in a .. a + n - 1 THEN (w \div Byte ^ (x - a)) % Byte ELSE m[x]]

=============================================================================
