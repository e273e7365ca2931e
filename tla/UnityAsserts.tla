---------------------------- MODULE UnityAsserts ----------------------------
(***************************************************************************)
(* The assertions of unity.c.  Each function of the code is an operator    *)
(* whose value is <<>> when the assertion lets the test go on, and         *)
(* otherwise the report it prints before it fails the test:                *)
(*   says      what is wrong, a name for the text that is printed           *)
(*   places    the printed indices of the element, or of the element and   *)
(*             the byte, when they are named                               *)
(*   expected, was   the two printed values, when they are printed         *)
(*                                                                         *)
(* An array or a string is [at, of]: its address, 0 for NULL, and what is  *)
(* stored there, an element as the bits of its size.  A floating-point     *)
(* number is [class, n], class one of "finite", "inf" and "nan", n its     *)
(* value or its sign.                                                      *)
(***************************************************************************)
EXTENDS UnityNumbers

CONSTANT Precision (* 1 / UNITY_FLOAT_PRECISION *)

ASSUME PrecisionAssumption == Precision \in Nat \ {0}

Report(says, places, expected, was) ==
  <<[says |-> says, places |-> places, expected |-> expected, was |-> was]>>

Says(what) == Report(what, <<>>, <<>>, <<>>)

UnityPrintPointlessAndBail == Says("Pointless")

UnityIsOneArrayNull(expected, actual) ==
  IF expected.at # actual.at /\ expected.at = 0    THEN Says("NullPointerForExpected")
  ELSE IF expected.at # actual.at /\ actual.at = 0 THEN Says("NullPointerForActual")
  ELSE <<>>

(* What the assertions on arrays do first: nothing to compare, the same    *)
(* pointer twice, one NULL pointer; then they walk through the elements.   *)
ArrayReport(expected, actual, num_elements, walk) ==
  IF num_elements = 0 THEN UnityPrintPointlessAndBail
  ELSE IF expected.at = actual.at THEN <<>>
  ELSE IF UnityIsOneArrayNull(expected, actual) # <<>>
       THEN UnityIsOneArrayNull(expected, actual)
  ELSE walk

(* The walk stops at the first element that differs and reports it.        *)
Walk(num_elements, Differs(_), ReportOf(_)) ==
  LET bad == {i \in 1 .. num_elements : Differs(i)}
  IN  IF bad = {} THEN <<>> ELSE ReportOf(Min(bad))

Element(i) == <<UnityPrintNumberUnsigned(i - 1)>>

(* With ARRAY_TO_VAL the pointer to the expected value does not move.      *)
At(i, flags) == IF flags = "ARRAY_TO_ARRAY" THEN i ELSE 1

-----------------------------------------------------------------------------
(* Integers.                                                               *)

UnityAssertBits(mask, expected, actual) ==
  LET Masked(n) == [i \in 0 .. Bits(LongSize) - 1 |->
                      ((UNITY_UINT(mask) \div 2^i) % 2) * ((UNITY_UINT(n) \div 2^i) % 2)]
  IN  IF Masked(expected) = Masked(actual) THEN <<>>
      ELSE Report("Bits", <<>>,
                  UnityPrintMask(UNITY_UINT(mask), UNITY_UINT(expected)),
                  UnityPrintMask(UNITY_UINT(mask), UNITY_UINT(actual)))

UnityAssertEqualNumber(expected, actual, style) ==
  IF expected = actual THEN <<>>
  ELSE Report("Number", <<>>, UnityPrintNumberByStyle(expected, style),
              UnityPrintNumberByStyle(actual, style))

(* Mutation: unsigned numbers are ordered as signed ones.                  *)
OrderedAsSigned(n, style) == n

(* A number as the comparisons of a style see it.                          *)
Ordered(n, style) == IF RangeInt(style) THEN n ELSE UNITY_UINT(n)

(* compare holds any of "EQUAL_TO", "GREATER_THAN" and "SMALLER_THAN"; it  *)
(* is empty for UNITY_NOT_EQUAL.                                           *)
UnityAssertGreaterOrLessOrEqualNumber(threshold, actual, compare, style) ==
  LET a == Ordered(actual, style)
      t == Ordered(threshold, style)
      failed == \/ threshold = actual /\ "EQUAL_TO" \notin compare
                \/ a > t /\ "SMALLER_THAN" \in compare
                \/ a < t /\ "GREATER_THAN" \in compare
  IN  IF failed
      THEN Report("Order", <<>>, UnityPrintNumberByStyle(actual, style),
                  UnityPrintNumberByStyle(threshold, style))
      ELSE <<>>

(* The distance is computed in the unsigned type, from the larger number.  *)
OutOfDelta(delta, expected, actual, style) ==
  LET e == UNITY_UINT(expected)
      a == UNITY_UINT(actual)
  IN  IF Ordered(actual, style) > Ordered(expected, style)
      THEN UNITY_UINT(a - e) > delta ELSE UNITY_UINT(e - a) > delta

UnityAssertNumbersWithin(delta, expected, actual, style) ==
  IF OutOfDelta(delta, expected, actual, style)
  THEN Report("Delta", <<>>, UnityPrintNumberByStyle(expected, style),
              UnityPrintNumberByStyle(actual, style))
  ELSE <<>>

(* The elements are read through signed pointers; the sign extension is    *)
(* removed again before an unsigned number narrower than int is printed.   *)
Printed(n, style) ==
  UnityPrintNumberByStyle(
    IF style.range = "UINT" /\ style.size < IntSize THEN Unsigned(n, style.size) ELSE n,
    style)

(* Mutation: the walk also moves on in a single expected value.            *)
UnityAssertEqualIntArrayMoving(expected, actual, num_elements, style, flags) ==
  LET Expected(i) == Signed(expected.of[Min({i, Len(expected.of)})], style.size)
      Actual(i)   == Signed(actual.of[Min({i, Len(expected.of)})], style.size)
  IN  ArrayReport(expected, actual, num_elements,
        Walk(num_elements,
             LAMBDA i : Expected(i) # Actual(i),
             LAMBDA i : Report("Number", Element(i), Printed(Expected(i), style),
                               Printed(Actual(i), style))))

UnityAssertEqualIntArray(expected, actual, num_elements, style, flags) ==
  LET Expected(i) == Signed(expected.of[At(i, flags)], style.size)
      Actual(i)   == Signed(actual.of[i], style.size)
  IN  ArrayReport(expected, actual, num_elements,
        Walk(num_elements,
             LAMBDA i : Expected(i) # Actual(i),
             LAMBDA i : Report("Number", Element(i), Printed(Expected(i), style),
                               Printed(Actual(i), style))))

UnityAssertNumbersArrayWithin(delta, expected, actual, num_elements, style, flags) ==
  LET Expected(i) == Signed(expected.of[At(i, flags)], style.size)
      Actual(i)   == Signed(actual.of[i], style.size)
  IN  ArrayReport(expected, actual, num_elements,
        Walk(num_elements,
             LAMBDA i : OutOfDelta(delta, Expected(i), Actual(i), style),
             LAMBDA i : Report("Delta", Element(i), Printed(Expected(i), style),
                               Printed(Actual(i), style))))

UnityQuickCompare == -1 (* its address *)

(* The pointer the EACH_EQUAL assertions pass for the expected number.     *)
UnityNumToPtr(num, size) == [at |-> UnityQuickCompare, of |-> <<Unsigned(num, size)>>]

-----------------------------------------------------------------------------
(* Floating-point numbers, without the text that is printed for one.       *)

FloatToPtr(num) == [at |-> UnityQuickCompare, of |-> <<num>>]

Magnitude(n) == IF n < 0 THEN -n ELSE n

(* Mutation: two infinite numbers are within delta whatever their signs.   *)
FloatsWithinAnySign(delta, expected, actual) ==
  \/ expected.class # "finite" /\ expected.class = actual.class
  \/ /\ expected.class = "finite" /\ actual.class = "finite"
     /\ \/ delta.class # "finite"
        \/ Magnitude(actual.n - expected.n) <= Magnitude(delta.n)

(* UNITY_FLOAT_OR_DOUBLE_WITHIN; the difference is infinite or NaN unless  *)
(* both numbers are finite.                                                *)
FloatsWithin(delta, expected, actual) ==
  \/ expected.class = "inf" /\ actual.class = "inf" /\ expected.n = actual.n
  \/ expected.class = "nan" /\ actual.class = "nan"
  \/ /\ expected.class = "finite" /\ actual.class = "finite"
     /\ \/ delta.class # "finite"
        \/ Magnitude(actual.n - expected.n) <= Magnitude(delta.n)

UnityAssertFloatsWithin(delta, expected, actual) ==
  IF FloatsWithin(delta, expected, actual) THEN <<>> ELSE Says("Delta")

(* number * UNITY_FLOAT_PRECISION, which may be negative                   *)
TimesPrecision(number) ==
  IF number.class # "finite" THEN number
  ELSE [number EXCEPT !.n = IF @ < 0 THEN -((-@) \div Precision) ELSE @ \div Precision]

UnityAssertEqualFloatArray(expected, actual, num_elements, flags) ==
  LET Expected(i) == expected.of[At(i, flags)]
  IN  ArrayReport(expected, actual, num_elements,
        Walk(num_elements,
             LAMBDA i : ~FloatsWithin(TimesPrecision(Expected(i)), Expected(i), actual.of[i]),
             LAMBDA i : Report("Delta", Element(i), <<>>, <<>>)))

(* UNITY_FLOAT_TRAIT_T: a trait, and whether the number should have it.    *)
UnityAssertFloatSpecial(actual, trait, should_be_trait) ==
  LET is_trait == CASE trait = "INF"     -> actual.class = "inf" /\ actual.n > 0
                    [] trait = "NEG_INF" -> actual.class = "inf" /\ actual.n < 0
                    [] trait = "NAN"     -> actual.class = "nan"
                    [] trait = "DET"     -> actual.class = "finite"
  IN  IF is_trait = should_be_trait THEN <<>> ELSE Says("Trait")

(* The same code again for UNITY_DOUBLE.                                   *)
UnityAssertDoublesWithin(delta, expected, actual) ==
  UnityAssertFloatsWithin(delta, expected, actual)
UnityAssertEqualDoubleArray(expected, actual, num_elements, flags) ==
  UnityAssertEqualFloatArray(expected, actual, num_elements, flags)
UnityAssertDoubleSpecial(actual, trait, should_be_trait) ==
  UnityAssertFloatSpecial(actual, trait, should_be_trait)

-----------------------------------------------------------------------------
(* Strings and memory.                                                     *)

NULByte == 0

CharOf(string, i) == IF i <= Len(string.of) THEN string.of[i] ELSE NULByte

(* The loop ends where both strings do, or at length.  Without two strings *)
(* the pointers are compared.                                              *)
StringsDiffer(expected, actual, length) ==
  IF expected.at # 0 /\ actual.at # 0
  THEN \E i \in 1 .. Min({length, Max({Len(expected.of), Len(actual.of)})}) :
         CharOf(expected, i) # CharOf(actual, i)
  ELSE expected.at # actual.at

Quoted(string, length) ==
  IF string.at = 0 THEN <<"NULL">> ELSE <<"'">> \o UnityPrintLen(string, length) \o <<"'">>

(* UnityPrintExpectedAndActualStrings and its variant with a length        *)
StringReport(places, expected, actual, length) ==
  Report("String", places, Quoted(expected, length), Quoted(actual, length))

(* Mutation: the shorter string ends the comparison.                       *)
UnityAssertEqualStringLenShort(expected, actual, length) ==
  IF StringsDiffer(expected, actual, Min({length, Len(expected.of)}))
  THEN StringReport(<<>>, expected, actual, length) ELSE <<>>

UnityAssertEqualStringLen(expected, actual, length) ==
  IF StringsDiffer(expected, actual, length)
  THEN StringReport(<<>>, expected, actual, length) ELSE <<>>

Longest(expected, actual) == Max({Len(expected.of), Len(actual.of)})

UnityAssertEqualString(expected, actual) ==
  IF StringsDiffer(expected, actual, Longest(expected, actual))
  THEN StringReport(<<>>, expected, actual, Longest(expected, actual)) ELSE <<>>

(* With ARRAY_TO_VAL, expected is a string and not an array of them.       *)
UnityAssertEqualStringArray(expected, actual, num_elements, flags) ==
  LET Expected(j) == IF flags = "ARRAY_TO_ARRAY" THEN expected.of[j] ELSE expected
  IN  ArrayReport(expected, actual, num_elements,
        Walk(num_elements,
             LAMBDA j : StringsDiffer(Expected(j), actual.of[j],
                                      Longest(Expected(j), actual.of[j])),
             LAMBDA j : StringReport(IF num_elements > 1 THEN Element(j) ELSE <<>>,
                                     Expected(j), actual.of[j],
                                     Longest(Expected(j), actual.of[j]))))

HEX8 == Style("HEX", 1, 1)

(* k counts the bytes of all the elements.                                 *)
UnityAssertEqualMemory(expected, actual, length, num_elements, flags) ==
  LET Expected(k) == expected.of[IF flags = "ARRAY_TO_ARRAY" THEN k ELSE 1 + ((k - 1) % length)]
  IN  ArrayReport(expected, actual, num_elements * length,
        Walk(num_elements * length,
             LAMBDA k : Expected(k) # actual.of[k],
             LAMBDA k : Report("Memory",
                               (IF num_elements > 1 THEN Element(1 + ((k - 1) \div length))
                                                    ELSE <<>>)
                                 \o Element(1 + ((k - 1) % length)),
                               UnityPrintNumberByStyle(Expected(k), HEX8),
                               UnityPrintNumberByStyle(actual.of[k], HEX8))))
=============================================================================
