---------------------------- MODULE UnityMacros ----------------------------
(***************************************************************************)
(* The assertion macros of unity_internals.h: which function they call,    *)
(* and to what they convert the numbers they are given; and, stated        *)
(* without that code, what each of them claims and what its report should  *)
(* show.                                                                   *)
(*                                                                         *)
(* a holds the arguments of a macro.  The macros that differ only in the   *)
(* type of the numbers are one macro with a style, the comparisons one     *)
(* macro with a set of relations, the traits one macro with a trait.       *)
(***************************************************************************)
EXTENDS UnityAsserts

IntegerMacros == {"EQUAL", "ORDER", "WITHIN"}
ArrayMacros   == {"EQUAL_ARRAY", "EACH_EQUAL", "ARRAY_WITHIN"}
FloatMacros   == {"FLOAT_WITHIN", "EQUAL_FLOAT", "DOUBLE_WITHIN"}
FloatArrayMacros == {"EQUAL_FLOAT_ARRAY", "EACH_EQUAL_FLOAT", "EQUAL_DOUBLE_ARRAY"}
TraitMacros   == {"FLOAT_IS", "DOUBLE_IS"}
StringMacros  == {"EQUAL_STRING", "EQUAL_STRING_LEN"}
StringArrayMacros == {"EQUAL_STRING_ARRAY", "EACH_EQUAL_STRING"}
MemoryMacros  == {"EQUAL_MEMORY_ARRAY", "EACH_EQUAL_MEMORY"}
Macros == {"TRUE", "BITS"} \cup IntegerMacros \cup ArrayMacros \cup FloatMacros
            \cup FloatArrayMacros \cup TraitMacros \cup StringMacros
            \cup StringArrayMacros \cup MemoryMacros

(* The macros that walk through an array.                                  *)
Walked == ArrayMacros \cup FloatArrayMacros \cup StringArrayMacros \cup MemoryMacros

(* EQUAL casts to the signed type for HEX, the other two to the unsigned.  *)
EqualCast(n, style) ==
  IF style.range = "UINT" THEN UNITY_INT(Unsigned(n, style.cast)) ELSE Signed(n, style.cast)
OrderCast(n, style) ==
  IF RangeInt(style) THEN Signed(n, style.cast) ELSE UNITY_INT(Unsigned(n, style.cast))

(* UNITY_TEST_ASSERT fails with UnityFail, which prints no values.         *)
IntegerReport(macro, a) ==
  CASE macro = "EQUAL" ->
         UnityAssertEqualNumber(EqualCast(a.expected, a.style), EqualCast(a.actual, a.style),
                                a.style)
    [] macro = "ORDER" ->
         UnityAssertGreaterOrLessOrEqualNumber(
           OrderCast(a.expected, a.style), OrderCast(a.actual, a.style), a.compare, a.style)
    [] macro = "WITHIN" ->
         UnityAssertNumbersWithin(Unsigned(a.delta, a.style.cast),
           OrderCast(a.expected, a.style), OrderCast(a.actual, a.style), a.style)
    [] macro = "EQUAL_ARRAY" ->
         UnityAssertEqualIntArray(a.expected, a.actual, a.num_elements, a.style,
                                  "ARRAY_TO_ARRAY")
    [] macro = "EACH_EQUAL" ->
         UnityAssertEqualIntArray(
           UnityNumToPtr(EqualCast(a.expected, a.style), a.style.size), a.actual,
           a.num_elements, a.style, "ARRAY_TO_VAL")
    [] macro = "ARRAY_WITHIN" ->
         UnityAssertNumbersArrayWithin(Unsigned(a.delta, a.style.cast), a.expected, a.actual,
           a.num_elements, a.style, "ARRAY_TO_ARRAY")

FloatReport(macro, a) ==
  CASE macro = "FLOAT_WITHIN"  -> UnityAssertFloatsWithin(a.delta, a.expected, a.actual)
    [] macro = "DOUBLE_WITHIN" -> UnityAssertDoublesWithin(a.delta, a.expected, a.actual)
    [] macro = "EQUAL_FLOAT" ->
         UnityAssertFloatsWithin(TimesPrecision(a.expected), a.expected, a.actual)
    [] macro = "EQUAL_FLOAT_ARRAY" ->
         UnityAssertEqualFloatArray(a.expected, a.actual, a.num_elements, "ARRAY_TO_ARRAY")
    [] macro = "EQUAL_DOUBLE_ARRAY" ->
         UnityAssertEqualDoubleArray(a.expected, a.actual, a.num_elements, "ARRAY_TO_ARRAY")
    [] macro = "EACH_EQUAL_FLOAT" ->
         UnityAssertEqualFloatArray(FloatToPtr(a.expected), a.actual, a.num_elements,
                                    "ARRAY_TO_VAL")
    [] macro = "FLOAT_IS"  -> UnityAssertFloatSpecial(a.actual, a.trait, a.should)
    [] macro = "DOUBLE_IS" -> UnityAssertDoubleSpecial(a.actual, a.trait, a.should)

ByteReport(macro, a) ==
  CASE macro = "EQUAL_STRING"     -> UnityAssertEqualString(a.expected, a.actual)
    [] macro = "EQUAL_STRING_LEN" -> UnityAssertEqualStringLen(a.expected, a.actual, a.length)
    [] macro = "EQUAL_STRING_ARRAY" ->
         UnityAssertEqualStringArray(a.expected, a.actual, a.num_elements, "ARRAY_TO_ARRAY")
    [] macro = "EACH_EQUAL_STRING" ->
         UnityAssertEqualStringArray(a.expected, a.actual, a.num_elements, "ARRAY_TO_VAL")
    [] macro = "EQUAL_MEMORY_ARRAY" ->
         UnityAssertEqualMemory(a.expected, a.actual, a.length, a.num_elements,
                                "ARRAY_TO_ARRAY")
    [] macro = "EACH_EQUAL_MEMORY" ->
         UnityAssertEqualMemory(a.expected, a.actual, a.length, a.num_elements,
                                "ARRAY_TO_VAL")

UnityAssert(macro, a) ==
  CASE macro = "TRUE" -> IF a.condition THEN <<>> ELSE Says("Condition")
    [] macro = "BITS" -> UnityAssertBits(UNITY_INT(a.mask), UNITY_INT(a.expected),
                                         UNITY_INT(a.actual))
    [] macro \in IntegerMacros \cup ArrayMacros -> IntegerReport(macro, a)
    [] macro \in FloatMacros \cup FloatArrayMacros \cup TraitMacros -> FloatReport(macro, a)
    [] OTHER -> ByteReport(macro, a)

-----------------------------------------------------------------------------
(* What a test can give to a macro.                                        *)

(* Floating-point numbers, C strings, and arrays of n elements, each with  *)
(* something behind it unless it is NULL.                                  *)
FloatingPoint == [class : {"finite"}, n : Int] \cup [class : {"inf"}, n : {1, -1}]
                   \cup [class : {"nan"}, n : {0}]

Chars == (-2^(ByteBits - 1) .. 2^(ByteBits - 1) - 1) \ {NULByte}
CStrings == {x \in [at : Nat, of : Seq(Chars)] : x.at = 0 => x.of = <<>>}

IsArray(x, n, elements) ==
  x.at \in Nat /\ x.of \in Seq(elements) /\ (x.at # 0 => n <= Len(x.of))

(* The relations of UNITY_COMPARISON_T that macros ask for.                *)
Comparisons == {{}, {"GREATER_THAN"}, {"SMALLER_THAN"},
                {"EQUAL_TO", "GREATER_THAN"}, {"EQUAL_TO", "SMALLER_THAN"}}

(* UNITY_UINT32, the type of num_elements and length.                      *)
Counts == 0 .. 2^Bits(IntSize) - 1

Typed(macro, a) ==
  /\ macro = "TRUE" => a.condition \in BOOLEAN
  /\ macro = "BITS" => a.mask \in Int
  /\ macro \in {"BITS", "EACH_EQUAL"} \cup IntegerMacros => a.expected \in Int
  /\ macro \in {"BITS"} \cup IntegerMacros => a.actual \in Int
  /\ macro \in IntegerMacros \cup ArrayMacros => a.style \in Styles
  /\ macro = "ORDER" => a.compare \in Comparisons
  /\ macro \in {"WITHIN", "ARRAY_WITHIN"} => a.delta \in 0 .. 2^Bits(a.style.cast) - 1
  /\ macro \in FloatMacros \cup {"EACH_EQUAL_FLOAT"} => a.expected \in FloatingPoint
  /\ macro \in FloatMacros \cup TraitMacros => a.actual \in FloatingPoint
  /\ macro \in {"FLOAT_WITHIN", "DOUBLE_WITHIN"} => a.delta \in [class : {"finite"}, n : Nat]
  /\ macro \in TraitMacros => a.trait \in {"INF", "NEG_INF", "NAN", "DET"} /\ a.should \in BOOLEAN
  /\ macro \in StringMacros => a.expected \in CStrings /\ a.actual \in CStrings
  /\ macro = "EQUAL_STRING_LEN" => a.length \in Counts
  /\ macro = "EACH_EQUAL_STRING" => a.expected \in CStrings
  /\ macro \in Walked => a.num_elements \in Counts
  /\ macro \in ArrayMacros => IsArray(a.actual, a.num_elements, Int)
  /\ macro \in ArrayMacros \ {"EACH_EQUAL"} => IsArray(a.expected, a.num_elements, Int)
  /\ macro \in FloatArrayMacros => IsArray(a.actual, a.num_elements, FloatingPoint)
  /\ macro \in FloatArrayMacros \ {"EACH_EQUAL_FLOAT"} =>
       IsArray(a.expected, a.num_elements, FloatingPoint)
  /\ macro \in StringArrayMacros => IsArray(a.actual, a.num_elements, CStrings)
  /\ macro = "EQUAL_STRING_ARRAY" => IsArray(a.expected, a.num_elements, CStrings)
  /\ macro \in MemoryMacros =>
       /\ a.length \in Counts
       /\ IsArray(a.actual, a.num_elements * a.length, 0 .. 2^ByteBits - 1)
       /\ IsArray(a.expected,
                  IF macro = "EACH_EQUAL_MEMORY" THEN a.length ELSE a.num_elements * a.length,
                  0 .. 2^ByteBits - 1)

-----------------------------------------------------------------------------
(* What the macros claim.                                                  *)

(* A number, in the C type of a style.                                     *)
Value(n, style, size) == IF RangeInt(style) THEN Signed(n, size) ELSE Unsigned(n, size)

Compares(t, n, compare) ==
  \/ "EQUAL_TO" \in compare /\ n = t
  \/ "GREATER_THAN" \in compare /\ n > t
  \/ "SMALLER_THAN" \in compare /\ n < t
  \/ compare = {} /\ n # t

(* Two finite numbers, or two that are not finite and the same.            *)
CloseTo(distance, x, y) ==
  IF x.class = "finite" /\ y.class = "finite" THEN Magnitude(x.n - y.n) <= distance
                                              ELSE x = y
Relative(x) == Magnitude(x.n) \div Precision

HasTrait(x, trait) ==
  \/ trait = "INF"     /\ x = [class |-> "inf", n |-> 1]
  \/ trait = "NEG_INF" /\ x = [class |-> "inf", n |-> -1]
  \/ trait = "NAN"     /\ x.class = "nan"
  \/ trait = "DET"     /\ x.class \notin {"inf", "nan"}

SameString(x, y) == (x.at = 0) = (y.at = 0) /\ x.of = y.of

Prefix(x, length) == [x EXCEPT !.of = SubSeq(@, 1, Min({length, Len(@)}))]

(* The elements that are compared: how many there are, and the two at k.   *)
Count(macro, a) == IF macro \in MemoryMacros THEN a.num_elements * a.length ELSE a.num_elements

ExpectedAt(macro, a, k) ==
  CASE macro \in {"EACH_EQUAL", "EACH_EQUAL_FLOAT", "EACH_EQUAL_STRING"} -> a.expected
    [] macro = "EACH_EQUAL_MEMORY" -> a.expected.of[1 + ((k - 1) % a.length)]
    [] OTHER -> a.expected.of[k]

AgreesAt(macro, a, k) ==
  LET x == ExpectedAt(macro, a, k)
      y == a.actual.of[k]
      Number(n) == Value(n, a.style, a.style.size)
  IN  CASE macro \in {"EQUAL_ARRAY", "EACH_EQUAL"} -> Number(x) = Number(y)
        [] macro = "ARRAY_WITHIN" -> Magnitude(Number(x) - Number(y)) <= a.delta
        [] macro \in FloatArrayMacros -> CloseTo(Relative(x), x, y)
        [] macro \in StringArrayMacros -> SameString(x, y)
        [] macro \in MemoryMacros -> x = y

Mismatches(macro, a) == {k \in 1 .. Count(macro, a) : ~AgreesAt(macro, a, k)}

ByPointer(macro) == macro \notin {"EACH_EQUAL", "EACH_EQUAL_FLOAT"}

(* Arrays are equal when they are the same array, or when there is         *)
(* something to compare and it agrees.                                     *)
ArraysAgree(macro, a) ==
  /\ Count(macro, a) > 0
  /\ \/ ByPointer(macro) /\ a.expected.at = a.actual.at
     \/ /\ ByPointer(macro) => a.expected.at # 0
        /\ a.actual.at # 0
        /\ Mismatches(macro, a) = {}

Holds(macro, a) ==
  LET Number(n) == Value(n, a.style, a.style.cast)
      BitsOf(n) == {i \in 0 .. Bits(LongSize) - 1 : (UNITY_UINT(n) \div 2^i) % 2 = 1}
  IN  CASE macro = "TRUE"  -> a.condition
        [] macro = "BITS"  -> BitsOf(a.mask) \cap BitsOf(a.expected)
                                = BitsOf(a.mask) \cap BitsOf(a.actual)
        [] macro = "EQUAL" -> Number(a.expected) = Number(a.actual)
        [] macro = "ORDER" -> Compares(Number(a.expected), Number(a.actual), a.compare)
        [] macro = "WITHIN" -> Magnitude(Number(a.expected) - Number(a.actual)) <= a.delta
        [] macro \in {"FLOAT_WITHIN", "DOUBLE_WITHIN"} -> CloseTo(a.delta.n, a.expected, a.actual)
        [] macro = "EQUAL_FLOAT" -> CloseTo(Relative(a.expected), a.expected, a.actual)
        [] macro \in TraitMacros ->
             a.should = HasTrait(a.actual, a.trait)
        [] macro = "EQUAL_STRING" -> SameString(a.expected, a.actual)
        [] macro = "EQUAL_STRING_LEN" ->
             SameString(Prefix(a.expected, a.length), Prefix(a.actual, a.length))
        [] macro \in Walked -> ArraysAgree(macro, a)

(* UnityAssertNumbersArrayWithin compares the sign-extended elements also  *)
(* where the style is unsigned: the numbers to be compared then have to be *)
(* on the same side of the sign bit.                                       *)
OneSided(macro, a) ==
  \/ macro # "ARRAY_WITHIN"
  \/ RangeInt(a.style) \/ a.style.size = LongSize
  \/ \A k \in 1 .. a.num_elements :
       a.expected.at # 0 /\ a.actual.at # 0 =>
         (Signed(a.expected.of[k], a.style.size) < 0) = (Signed(a.actual.of[k], a.style.size) < 0)

(* A backslash is printed as it is, and an escape begins with one.         *)
Plain(string) == \A i \in DOMAIN string.of :
                   string.of[i] \in DOMAIN Glyph => Glyph[string.of[i]] # "\\"

(* Elements of an unsigned style as wide as int are printed with the sign  *)
(* extension, bits above those of an int are not printed, and the strings  *)
(* are those whose text can be read back.                                  *)
PrintedInFull(macro, a) ==
  /\ macro \in ArrayMacros /\ a.style.range = "UINT" /\ a.style.size = IntSize =>
       \A k \in 1 .. a.num_elements :
         /\ a.actual.at # 0 => Signed(a.actual.of[k], IntSize) >= 0
         /\ macro # "EACH_EQUAL" /\ a.expected.at # 0 => Signed(a.expected.of[k], IntSize) >= 0
         /\ macro = "EACH_EQUAL" => Signed(a.expected, IntSize) >= 0
  /\ macro = "BITS" => a.mask \in 0 .. 2^Bits(IntSize) - 1
  /\ macro \in StringMacros => Plain(a.expected) /\ Plain(a.actual)
  /\ macro \in StringArrayMacros =>
       /\ \A k \in 1 .. a.num_elements : a.actual.at # 0 => Plain(a.actual.of[k])
       /\ macro = "EACH_EQUAL_STRING" => Plain(a.expected)
       /\ macro = "EQUAL_STRING_ARRAY" =>
            \A k \in 1 .. a.num_elements : a.expected.at # 0 => Plain(a.expected.of[k])

-----------------------------------------------------------------------------
(* What a report shows.                                                    *)

(* What a text reads as in a base.                                         *)
Numeral(text, base) ==
  LET value[i \in 0 .. Len(text)] ==
        IF i = 0 THEN 0
        ELSE base * value[i - 1] + (CHOOSE d \in 1 .. 16 : Digit[d] = text[i]) - 1
  IN  value[Len(text)]

(* The text shows number n, in the way of the style.                       *)
Shows(text, n, style) ==
  CASE style.range = "CHAR" -> text = <<"'">> \o UnityPrintChar(n) \o <<"'">>
    [] style.range = "HEX"  -> Numeral(SubSeq(text, 3, Len(text)), 2^Nibble) = n
    [] style.range = "UINT" -> Numeral(text, 10) = n
    [] style.range = "INT"  -> IF n < 0 THEN Head(text) = "-" /\ Numeral(Tail(text), 10) = -n
                                        ELSE Numeral(text, 10) = n

Shows2(report, x, y, style) == Shows(report.expected, x, style) /\ Shows(report.was, y, style)

(* The report names element k, counted from 0, and for memory the byte.    *)
Names(report, macro, a, k) ==
  LET places == [i \in 1 .. Len(report.places) |-> Numeral(report.places[i], 10)]
      width  == IF macro \in MemoryMacros THEN a.length ELSE 1
      number == <<(k - 1) \div width>>
  IN  places = (IF a.num_elements = 1 /\ macro \in StringArrayMacros \cup MemoryMacros
                THEN <<>> ELSE number)
                 \o (IF macro \in MemoryMacros THEN <<(k - 1) % width>> ELSE <<>>)

(* The report of an assertion that failed shows the two numbers or the two *)
(* strings, and in an array the first element that does not agree.         *)
ReportShows(report, macro, a) ==
  LET Number(n) == Value(n, a.style, a.style.cast)
  IN  CASE macro = "EQUAL" \/ macro = "WITHIN" ->
             Shows2(report, Number(a.expected), Number(a.actual), a.style)
        [] macro = "ORDER" -> Shows2(report, Number(a.actual), Number(a.expected), a.style)
        [] macro \in StringMacros \cup {"BITS"} -> report.expected # report.was
        [] macro \in Walked /\ report.says \notin
             {"Pointless", "NullPointerForExpected", "NullPointerForActual"} ->
             LET k == Min(Mismatches(macro, a))
                 x == ExpectedAt(macro, a, k)
                 y == a.actual.of[k]
             IN  /\ Names(report, macro, a, k)
                 /\ macro \in ArrayMacros =>
                      Shows2(report, Value(x, a.style, a.style.size),
                             Value(y, a.style, a.style.size), a.style)
                 /\ macro \in StringArrayMacros => report.expected # report.was
                 /\ macro \in MemoryMacros => Shows2(report, x, y, HEX8)
        [] OTHER -> TRUE
=============================================================================
