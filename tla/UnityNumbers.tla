---------------------------- MODULE UnityNumbers ----------------------------
(***************************************************************************)
(* unity_internals.h and unity.c: the integers that Unity compares, their  *)
(* display styles, and what is printed for a number and for a string.      *)
(* Printed text is a sequence of strings, one per character; an escape is  *)
(* the characters it is written with.                                      *)
(***************************************************************************)
EXTENDS Integers, Sequences, SequencesExt

CONSTANTS
  ByteBits, IntSize, LongSize, (* bits of a byte, bytes of an int and of   *)
                               (* UNITY_INT                                *)
  Glyph, CR, LF                (* the printable characters by their code,  *)
                               (* and the codes of the two line ends       *)

ASSUME SizesAssumption ==
  /\ ByteBits \in {2 * n : n \in 1 .. 4}
  /\ IntSize \in 2 .. 4 /\ LongSize \in 3 .. 8 /\ IntSize < LongSize
ASSUME GlyphAssumption ==
  /\ \A m, n \in DOMAIN Glyph : Glyph[m] = Glyph[n] => m = n
  /\ {CR, LF} \cap DOMAIN Glyph = {} /\ CR # LF

Bits(size) == size * ByteBits

(* The conversions to the unsigned and the signed type of a size.          *)
Unsigned(n, size) == n % 2^Bits(size)
Signed(n, size) ==
  LET u == Unsigned(n, size)
  IN  IF u < 2^(Bits(size) - 1) THEN u ELSE u - 2^Bits(size)

UNITY_INT(n)  == Signed(n, LongSize)
UNITY_UINT(n) == Unsigned(n, LongSize)

Sizes == {1, IntSize, LongSize}

(* UNITY_DISPLAY_STYLE_T: a range and a size; cast is the size to which    *)
(* the macros of the style convert a number: INT and UINT do not narrow.   *)
Style(range, size, cast) == [range |-> range, size |-> size, cast |-> cast]
Styles == {Style(r, s, s) : r \in {"INT", "UINT", "HEX"}, s \in Sizes}
            \cup {Style(r, IntSize, LongSize) : r \in {"INT", "UINT"}}
            \cup {Style("CHAR", 1, 1)}

(* style & UNITY_DISPLAY_RANGE_INT: UNITY_DISPLAY_STYLE_CHAR has that bit. *)
RangeInt(style) == style.range \in {"INT", "CHAR"}

Digit == <<"0", "1", "2", "3", "4", "5", "6", "7", "8", "9",
           "A", "B", "C", "D", "E", "F">>

(* The values that divisor takes.  There are at most a third as many       *)
(* factors of ten in a UNITY_UINT as it has bits.                          *)
Divisor[k \in 0 .. Bits(LongSize) \div 3] == IF k = 0 THEN 1 ELSE 10 * Divisor[k - 1]

(* The decimal digits from one divisor down to 1.                          *)
Digits(number, k) ==
  [i \in 1 .. k + 1 |-> Digit[1 + ((number \div Divisor[k + 1 - i]) % 10)]]

(* Mutation: the divisor stops growing one step too early.                 *)
UnityPrintNumberUnsignedShort(number) ==
  Digits(number, Min({k \in DOMAIN Divisor : number \div Divisor[k] <= 99}))

(* Decimal digits from the first divisor that leaves one of them.          *)
UnityPrintNumberUnsigned(number) ==
  Digits(number, Min({k \in DOMAIN Divisor : number \div Divisor[k] <= 9}))

UnityPrintNumber(n) ==
  IF n < 0 THEN <<"-">> \o UnityPrintNumberUnsigned(UNITY_UINT(-n))
           ELSE UnityPrintNumberUnsigned(n)

(* A nibble is half a byte; UNITY_MAX_NIBBLES is what a UNITY_INT has.     *)
Nibble == ByteBits \div 2

UnityPrintNumberHex(number, nibbles) ==
  LET k == Min({nibbles, 2 * LongSize})
  IN  [i \in 1 .. k |-> Digit[1 + ((number \div 2^((k - i) * Nibble)) % 2^Nibble)]]

(* The bits of an int from the highest, X where the mask has none.         *)
UnityPrintMask(mask, number) ==
  [i \in 1 .. Bits(IntSize) |->
     LET bit == 2^(Bits(IntSize) - i)
     IN  IF (mask \div bit) % 2 = 0 THEN "X"
         ELSE IF (number \div bit) % 2 = 1 THEN "1" ELSE "0"]

(* What is printed for one character.                                      *)
UnityPrintChar(n) ==
  IF n \in DOMAIN Glyph THEN <<Glyph[n]>>
  ELSE IF n = CR THEN <<"\\", "r">>
  ELSE IF n = LF THEN <<"\\", "n">>
  ELSE <<"\\", "x">> \o UnityPrintNumberHex(UNITY_UINT(n), 2)

UnityPrintNumberByStyle(n, style) ==
  CASE style.range = "CHAR" -> <<"'">> \o UnityPrintChar(n) \o <<"'">>
    [] style.range = "INT"  -> UnityPrintNumber(n)
    [] style.range = "UINT" -> UnityPrintNumberUnsigned(UNITY_UINT(n))
    [] style.range = "HEX"  ->
         <<"0", "x">> \o UnityPrintNumberHex(UNITY_UINT(n), style.size * 2)

(* A C string is its address, 0 for NULL, and the bytes before its NUL.    *)
UnityPrintLen(string, length) ==
  IF string.at = 0 THEN <<>>
  ELSE LET shown == SubSeq(string.of, 1, Min({length, Len(string.of)}))
       IN  FlattenSeq([i \in 1 .. Len(shown) |-> UnityPrintChar(shown[i])])

UnityPrint(string) == UnityPrintLen(string, Len(string.of))
=============================================================================
