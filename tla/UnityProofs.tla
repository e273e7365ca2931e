---------------------------- MODULE UnityProofs ----------------------------
(***************************************************************************)
(* What the assertions of Unity decide and print, for every size of the    *)
(* integer types and all arguments: the lemmas on UnityNumbers,            *)
(* UnityAsserts and UnityMacros.                                           *)
(***************************************************************************)
EXTENDS UnityMacros, LibraryFacts

-----------------------------------------------------------------------------
(* The widths of the integer types.                                        *)

LEMMA SizesOrdered ==
  /\ Sizes = {1, IntSize, LongSize}
  /\ IntSize \in Nat /\ LongSize \in Nat /\ 1 < IntSize /\ IntSize < LongSize
  BY SizesAssumption DEF Sizes

(* A type has 2 * h values, h of them negative if it is signed.            *)
LEMMA WidthFacts ==
  ASSUME NEW size \in Sizes
  PROVE  /\ Bits(size) \in Nat \ {0}
         /\ 2^Bits(size) \in Nat \ {0}
         /\ 2^(Bits(size) - 1) \in Nat \ {0}
         /\ 2^Bits(size) = 2 * 2^(Bits(size) - 1)
<1>1. size \in Nat \ {0} /\ ByteBits \in Nat \ {0}
  BY SizesAssumption, SizesOrdered
<1>2. PICK b \in Nat \ {0} : b = Bits(size)
  BY <1>1 DEF Bits
<1>3. b - 1 \in Nat /\ (b - 1) + 1 = b
  OBVIOUS
<1>4. 2^(b - 1) \in Nat \ {0} /\ 2^((b - 1) + 1) = 2 * 2^(b - 1)
  BY <1>3, PowerOfTwo
<1>5. QED
  BY <1>2, <1>3, <1>4

LEMMA CountsAreNaturals == \A n \in Counts : n \in Nat
<1>1. 2^Bits(IntSize) \in Nat
  BY WidthFacts, SizesOrdered
<1>2. QED
  BY <1>1 DEF Counts

(* The values of a wider type are a multiple of those of a narrower one.   *)
LEMMA WidthsNest ==
  ASSUME NEW s \in Sizes, NEW t \in Sizes, s <= t
  PROVE  \E k \in Nat \ {0} : 2^Bits(t) = k * 2^Bits(s)
<1>1. s \in Nat /\ t \in Nat /\ ByteBits \in Nat
  BY SizesAssumption, SizesOrdered
<1>2. PICK d \in Nat : d = (t - s) * ByteBits
  BY <1>1
<1>3. Bits(s) \in Nat /\ Bits(t) = d + Bits(s)
  BY <1>1, <1>2 DEF Bits
<1>4. 2^(d + Bits(s)) = 2^d * 2^Bits(s)
  BY <1>3, PowersAdd
<1>5. 2^d \in Nat \ {0}
  BY PowerOfTwo
<1>6. QED
  BY <1>3, <1>4, <1>5

-----------------------------------------------------------------------------
(* The conversions.                                                        *)

(* A converted number has the range of its type, and the signed one the    *)
(* same bits as the unsigned one.                                          *)
LEMMA Conversions ==
  ASSUME NEW n \in Int, NEW s \in Sizes
  PROVE  /\ Unsigned(n, s) \in 0 .. 2^Bits(s) - 1
         /\ Signed(n, s) \in -(2^(Bits(s) - 1)) .. 2^(Bits(s) - 1) - 1
         /\ Unsigned(Signed(n, s), s) = Unsigned(n, s)
<1>1. PICK h \in Nat \ {0} : h = 2^(Bits(s) - 1) /\ 2^Bits(s) = 2 * h
  BY WidthFacts
<1>2. PICK m \in Nat \ {0} : m = 2 * h
  OBVIOUS
<1>3. PICK u \in 0 .. m - 1 : u = n % m
  BY Division
<1>4. Unsigned(n, s) = u
  BY <1>1, <1>2, <1>3 DEF Unsigned
<1>5. Signed(n, s) = IF u < h THEN u ELSE u - m
  BY <1>1, <1>2, <1>4 DEF Signed
<1>6. u % m = u
  <2>1. (0 * m + u) % m = u
    BY DivisionUnique
  <2>2. QED
    BY <2>1
<1>7. (u - m) % m = u
  <2>1. PICK d \in Int, k \in Int : d = u - m /\ k = 1
    OBVIOUS
  <2>2. (d + k * m) % m = d % m
    BY SameRemainder
  <2>3. d + k * m = u
    BY <2>1
  <2>4. QED
    BY <1>6, <2>1, <2>2, <2>3
<1>8. Unsigned(Signed(n, s), s) = Signed(n, s) % m
  BY <1>1, <1>2 DEF Unsigned
<1>9. Unsigned(Signed(n, s), s) = u
  BY <1>5, <1>6, <1>7, <1>8
<1>10. u \in 0 .. 2^Bits(s) - 1
  BY <1>1, <1>2
<1>11. Signed(n, s) \in -h .. h - 1
  BY <1>2, <1>5
<1>12. QED
  BY <1>1, <1>4, <1>9, <1>10, <1>11

(* A signed number and its bits determine each other.                      *)
LEMMA SameBits ==
  ASSUME NEW m \in Int, NEW n \in Int, NEW s \in Sizes
  PROVE  Signed(m, s) = Signed(n, s) <=> Unsigned(m, s) = Unsigned(n, s)
<1>1. Signed(m, s) = Signed(n, s) => Unsigned(m, s) = Unsigned(n, s)
  <2>1. /\ Unsigned(Signed(m, s), s) = Unsigned(m, s)
        /\ Unsigned(Signed(n, s), s) = Unsigned(n, s)
    BY Conversions
  <2>2. QED
    BY <2>1
<1>2. Unsigned(m, s) = Unsigned(n, s) => Signed(m, s) = Signed(n, s)
  BY DEF Signed
<1>3. QED
  BY <1>1, <1>2

(* A number that has the range of the type is not changed.                 *)
LEMMA ConversionsKeep ==
  ASSUME NEW s \in Sizes
  PROVE  /\ \A n \in 0 .. 2^Bits(s) - 1 : Unsigned(n, s) = n
         /\ \A n \in -(2^(Bits(s) - 1)) .. 2^(Bits(s) - 1) - 1 : Signed(n, s) = n
<1>1. PICK h \in Nat \ {0} : h = 2^(Bits(s) - 1) /\ 2^Bits(s) = 2 * h
  BY WidthFacts
<1>2. PICK m \in Nat \ {0} : m = 2 * h
  OBVIOUS
<1>3. ASSUME NEW n \in 0 .. m - 1
      PROVE  Unsigned(n, s) = n
  <2>1. (0 * m + n) % m = n /\ 0 * m + n = n
    BY DivisionUnique
  <2>2. QED
    BY <1>1, <1>2, <2>1 DEF Unsigned
<1>4. ASSUME NEW n \in -h .. h - 1
      PROVE  Signed(n, s) = n
  <2>1. CASE n >= 0
    <3>1. n \in 0 .. m - 1 /\ n < h
      BY <1>2, <2>1
    <3>2. QED
      BY <1>1, <1>2, <1>3, <3>1 DEF Signed
  <2>2. CASE n < 0
    <3>1. n + m \in 0 .. m - 1 /\ ~(n + m < h) /\ (n + m) - m = n
      BY <1>2, <2>2
    <3>2. ((-1) * m + (n + m)) % m = n + m
      BY <3>1, DivisionUnique
    <3>3. (-1) * m + (n + m) = n
      OBVIOUS
    <3>4. Unsigned(n, s) = n + m
      BY <1>1, <1>2, <3>2, <3>3 DEF Unsigned
    <3>5. QED
      BY <1>1, <1>2, <3>1, <3>4 DEF Signed
  <2>3. QED
    BY <2>1, <2>2
<1>5. QED
  BY <1>1, <1>2, <1>3, <1>4

(* Narrowing after a conversion to a wider type is narrowing at once.      *)
LEMMA Narrowing ==
  ASSUME NEW n \in Int, NEW s \in Sizes, NEW t \in Sizes, s <= t
  PROVE  /\ Unsigned(Unsigned(n, t), s) = Unsigned(n, s)
         /\ Unsigned(Signed(n, t), s) = Unsigned(n, s)
<1>1. PICK m \in Nat \ {0} : m = 2^Bits(s)
  BY WidthFacts
<1>2. PICK k \in Nat \ {0} : 2^Bits(t) = k * m
  BY <1>1, WidthsNest
<1>3. \A x \in Int : Unsigned(Unsigned(x, t), s) = Unsigned(x, s)
  <2> TAKE x \in Int
  <2>1. (x % (k * m)) % m = x % m
    BY RemainderOfRemainder
  <2>2. QED
    BY <1>1, <1>2, <2>1 DEF Unsigned
<1>4. Signed(n, t) \in Int /\ Unsigned(Signed(n, t), t) = Unsigned(n, t)
  <2>1. 2^(Bits(t) - 1) \in Int
    BY WidthFacts
  <2>2. QED
    BY <2>1, Conversions
<1>5. QED
  BY <1>3, <1>4

(* The numbers of a narrower unsigned type are numbers of a wider one.     *)
LEMMA Widening ==
  ASSUME NEW n \in Int, NEW s \in Sizes, NEW t \in Sizes, s <= t
  PROVE  /\ Unsigned(n, s) \in 0 .. 2^Bits(t) - 1
         /\ Unsigned(Unsigned(n, s), t) = Unsigned(n, s)
<1>1. PICK m \in Nat \ {0}, k \in Nat \ {0} : m = 2^Bits(s) /\ 2^Bits(t) = k * m
  BY WidthFacts, WidthsNest
<1>2. k * m \in Nat /\ m <= k * m
  BY SMT
<1>3. Unsigned(n, s) \in 0 .. m - 1
  BY <1>1, Conversions
<1>4. Unsigned(n, s) \in 0 .. 2^Bits(t) - 1
  BY <1>1, <1>2, <1>3
<1>5. QED
  BY <1>4, ConversionsKeep

(* The unsigned number is the signed one, or that and all the values of    *)
(* the type when it is negative.                                           *)
LEMMA UnsignedOfSigned ==
  ASSUME NEW n \in Int, NEW s \in Sizes
  PROVE  Unsigned(n, s) = IF Signed(n, s) < 0 THEN Signed(n, s) + 2^Bits(s) ELSE Signed(n, s)
<1>1. PICK h \in Nat \ {0} : h = 2^(Bits(s) - 1) /\ 2^Bits(s) = 2 * h
  BY WidthFacts
<1>2. PICK u \in 0 .. 2 * h - 1 : u = Unsigned(n, s)
  BY <1>1, Conversions
<1>3. Signed(n, s) = IF u < h THEN u ELSE u - 2 * h
  BY <1>1, <1>2 DEF Signed
<1>4. QED
  BY <1>1, <1>2, <1>3

-----------------------------------------------------------------------------
(* The casts of the macros.                                                *)

LEMMA StyleFacts ==
  ASSUME NEW style \in Styles
  PROVE  /\ style.size \in Sizes /\ style.cast \in Sizes
         /\ style.size <= style.cast /\ style.cast <= LongSize /\ LongSize \in Sizes
         /\ style.range \in {"INT", "UINT", "HEX", "CHAR"}
         /\ style.range = "HEX" => style.cast = style.size
         /\ style.range = "CHAR" => style.cast = 1 /\ style.size = 1
<1>1. 1 <= IntSize /\ 1 <= LongSize /\ IntSize <= LongSize /\ 1 \in Sizes
      /\ IntSize \in Sizes /\ LongSize \in Sizes
      /\ \A s \in Sizes : s <= LongSize /\ s <= s
  BY SizesOrdered
<1>2. CASE style \in {Style(r, s, s) : r \in {"INT", "UINT", "HEX"}, s \in Sizes}
  BY <1>1, <1>2 DEF Style
<1>3. CASE style \in {Style(r, IntSize, LongSize) : r \in {"INT", "UINT"}}
  BY <1>1, <1>3 DEF Style
<1>4. CASE style = Style("CHAR", 1, 1)
  BY <1>1, <1>4 DEF Style
<1>5. QED
  BY <1>2, <1>3, <1>4 DEF Styles

(* The numbers of a narrower signed type are numbers of a wider one.       *)
LEMMA SignedFits ==
  ASSUME NEW n \in Int, NEW s \in Sizes, NEW t \in Sizes, s <= t
  PROVE  /\ Signed(n, s) \in -(2^(Bits(t) - 1)) .. 2^(Bits(t) - 1) - 1
         /\ Signed(Signed(n, s), t) = Signed(n, s)
<1>1. PICK h \in Nat \ {0} : h = 2^(Bits(s) - 1) /\ 2^Bits(s) = 2 * h
  BY WidthFacts
<1>2. PICK g \in Nat \ {0} : g = 2^(Bits(t) - 1) /\ 2^Bits(t) = 2 * g
  BY WidthFacts
<1>3. PICK k \in Nat \ {0} : 2 * g = k * (2 * h)
  BY <1>1, <1>2, WidthsNest
<1>4. h <= g
  <2>1. k * (2 * h) = 2 * (k * h) /\ k * h >= h
    BY SMT
  <2>2. k * h \in Nat
    BY SMT
  <2>3. QED
    BY <1>3, <2>1, <2>2
<1>5. Signed(n, s) \in -h .. h - 1
  BY <1>1, Conversions
<1>6. Signed(n, s) \in -g .. g - 1
  BY <1>4, <1>5
<1>7. QED
  BY <1>2, <1>6, ConversionsKeep

(* What the macros of order compare is the number in the type of the style.*)
LEMMA OrderedValue ==
  ASSUME NEW style \in Styles, NEW n \in Int
  PROVE  /\ OrderCast(n, style) \in -(2^(Bits(LongSize) - 1)) .. 2^(Bits(LongSize) - 1) - 1
         /\ Ordered(OrderCast(n, style), style) = Value(n, style, style.cast)
<1>1. style.cast \in Sizes /\ LongSize \in Sizes /\ style.cast <= LongSize
  BY StyleFacts
<1>2. CASE RangeInt(style)
  BY <1>1, <1>2, SignedFits DEF OrderCast, Ordered, Value
<1>3. CASE ~RangeInt(style)
  <2>1. PICK u \in Int : u = Unsigned(n, style.cast) /\ Unsigned(u, LongSize) = u
    <3>1. 2^Bits(style.cast) \in Int
      BY <1>1, WidthFacts
    <3>2. Unsigned(n, style.cast) \in Int
      BY <1>1, <3>1, Conversions
    <3>3. QED
      BY <1>1, <3>2, Widening
  <2>2. /\ UNITY_INT(u) \in -(2^(Bits(LongSize) - 1)) .. 2^(Bits(LongSize) - 1) - 1
        /\ UNITY_UINT(UNITY_INT(u)) = Unsigned(u, LongSize)
    BY <1>1, Conversions DEF UNITY_INT, UNITY_UINT
  <2>3. QED
    BY <1>3, <2>1, <2>2 DEF OrderCast, Ordered, Value
<1>4. QED
  BY <1>2, <1>3

(* EQUAL tells numbers apart that differ in the type of the style, and     *)
(* narrows them to it.                                                     *)
LEMMA EqualCastValue ==
  ASSUME NEW style \in Styles, NEW m \in Int, NEW n \in Int
  PROVE  /\ EqualCast(m, style) = EqualCast(n, style)
              <=> Value(m, style, style.cast) = Value(n, style, style.cast)
         /\ EqualCast(n, style) \in Int
         /\ Unsigned(EqualCast(n, style), style.cast) = Unsigned(n, style.cast)
         /\ Unsigned(EqualCast(n, style), style.size) = Unsigned(n, style.size)
<1>1. /\ style.cast \in Sizes /\ LongSize \in Sizes /\ style.cast <= LongSize
      /\ style.size \in Sizes /\ style.size <= style.cast
  BY StyleFacts
<1>2. ASSUME NEW x \in Int
      PROVE  /\ EqualCast(x, style) \in Int
             /\ Unsigned(EqualCast(x, style), style.cast) = Unsigned(x, style.cast)
  <2>1. \A y \in Int, t \in Sizes : Signed(y, t) \in Int /\ Unsigned(y, t) \in Int
    <3> TAKE y \in Int, t \in Sizes
    <3>1. 2^(Bits(t) - 1) \in Int /\ 2^Bits(t) \in Int
      BY WidthFacts
    <3>2. QED
      BY <3>1, Conversions
  <2>2. CASE style.range = "UINT"
    <3>1. PICK u \in Int : u = Unsigned(x, style.cast)
      BY <1>1, <2>1
    <3>2. EqualCast(x, style) = Signed(u, LongSize)
      BY <2>2, <3>1 DEF EqualCast, UNITY_INT
    <3>3. Unsigned(Signed(u, LongSize), style.cast) = Unsigned(u, style.cast)
      BY <1>1, Narrowing
    <3>4. Unsigned(u, style.cast) = u
      BY <1>1, <3>1, Conversions, ConversionsKeep
    <3>5. QED
      BY <1>1, <2>1, <3>1, <3>2, <3>3, <3>4
  <2>3. CASE style.range # "UINT"
    BY <1>1, <2>1, <2>3, Conversions DEF EqualCast
  <2>4. QED
    BY <2>2, <2>3
<1>3. EqualCast(m, style) = EqualCast(n, style)
        <=> Unsigned(m, style.cast) = Unsigned(n, style.cast)
  <2>1. Unsigned(m, style.cast) = Unsigned(n, style.cast)
          => Signed(m, style.cast) = Signed(n, style.cast)
    BY <1>1, SameBits
  <2>2. Unsigned(m, style.cast) = Unsigned(n, style.cast)
          => EqualCast(m, style) = EqualCast(n, style)
    BY <2>1 DEF EqualCast
  <2>3. QED
    BY <1>2, <2>2
<1>4. Unsigned(m, style.cast) = Unsigned(n, style.cast)
        <=> Value(m, style, style.cast) = Value(n, style, style.cast)
  BY <1>1, SameBits DEF Value
<1>5. PICK c \in Int : c = EqualCast(n, style)
  BY <1>2
<1>6. /\ Unsigned(Unsigned(c, style.cast), style.size) = Unsigned(c, style.size)
      /\ Unsigned(Unsigned(n, style.cast), style.size) = Unsigned(n, style.size)
  BY <1>1, Narrowing
<1>7. Unsigned(c, style.cast) = Unsigned(n, style.cast)
  BY <1>2, <1>5
<1>8. QED
  BY <1>2, <1>3, <1>4, <1>5, <1>6, <1>7

-----------------------------------------------------------------------------
(* The verdicts on integers.                                               *)

LEMMA ReportsAreSomething ==
  /\ \A says, places, expected, was : Report(says, places, expected, was) # <<>>
  /\ \A what : Says(what) # <<>>
  /\ UnityPrintPointlessAndBail # <<>>
<1>1. \A says, places, expected, was : Report(says, places, expected, was) # <<>>
  BY DEF Report
<1>2. QED
  BY <1>1 DEF Says, UnityPrintPointlessAndBail

LEMMA EqualVerdict ==
  ASSUME NEW style \in Styles, NEW x \in Int, NEW y \in Int
  PROVE  UnityAssertEqualNumber(EqualCast(x, style), EqualCast(y, style), style) = <<>>
           <=> Value(x, style, style.cast) = Value(y, style, style.cast)
<1>1. EqualCast(x, style) = EqualCast(y, style)
        <=> Value(x, style, style.cast) = Value(y, style, style.cast)
  BY EqualCastValue
<1>2. ASSUME NEW p, NEW q
      PROVE  UnityAssertEqualNumber(p, q, style) = <<>> <=> p = q
  BY ReportsAreSomething DEF UnityAssertEqualNumber
<1>3. QED
  BY <1>1, <1>2

(* Numbers are integers in every type.                                     *)
LEMMA ValueType ==
  ASSUME NEW style, NEW s \in Sizes, NEW n \in Int
  PROVE  Value(n, style, s) \in Int /\ Unsigned(n, s) \in Int /\ Signed(n, s) \in Int
<1>1. 2^(Bits(s) - 1) \in Int /\ 2^Bits(s) \in Int
  BY WidthFacts
<1>2. QED
  BY <1>1, Conversions DEF Value

LEMMA OrderVerdict ==
  ASSUME NEW style \in Styles, NEW x \in Int, NEW y \in Int, NEW compare \in Comparisons
  PROVE  UnityAssertGreaterOrLessOrEqualNumber(OrderCast(x, style), OrderCast(y, style),
                                               compare, style) = <<>>
           <=> Compares(Value(x, style, style.cast), Value(y, style, style.cast), compare)
<1> DEFINE t == OrderCast(x, style)
           a == OrderCast(y, style)
<1>1. PICK v \in Int, w \in Int : v = Value(x, style, style.cast) /\ w = Value(y, style, style.cast)
  BY StyleFacts, ValueType
<1>2. Ordered(t, style) = v /\ Ordered(a, style) = w
  BY <1>1, OrderedValue
<1>3. t = a <=> v = w
  <2>1. t = a => v = w
    BY <1>2
  <2>2. CASE RangeInt(style)
    BY <1>2, <2>2 DEF Ordered
  <2>3. CASE ~RangeInt(style)
    <3>1. LongSize \in Sizes
      BY StyleFacts
    <3>2. 2^(Bits(LongSize) - 1) \in Int
      BY <3>1, WidthFacts
    <3>3. t \in Int /\ a \in Int /\ Signed(t, LongSize) = t /\ Signed(a, LongSize) = a
      BY <3>1, <3>2, OrderedValue, ConversionsKeep
    <3> HIDE DEF t, a
    <3>4. Ordered(t, style) = Ordered(a, style) => t = a
      BY <2>3, <3>1, <3>3, SameBits DEF Ordered, UNITY_UINT
    <3>5. QED
      BY <1>2, <2>1, <3>4
  <2>4. QED
    BY <2>2, <2>3
<1> HIDE DEF t, a
<1>4. UnityAssertGreaterOrLessOrEqualNumber(t, a, compare, style) = <<>>
        <=> ~(\/ t = a /\ "EQUAL_TO" \notin compare
              \/ w > v /\ "SMALLER_THAN" \in compare
              \/ w < v /\ "GREATER_THAN" \in compare)
  BY <1>2, ReportsAreSomething DEF UnityAssertGreaterOrLessOrEqualNumber
<1>5. QED
  BY <1>1, <1>3, <1>4 DEF Compares, Comparisons, t, a

(* The distance in the unsigned type is the distance of the two numbers as *)
(* the style orders them.                                                  *)
LEMMA DeltaIsDistance ==
  ASSUME NEW style \in Styles, NEW delta \in Nat,
         NEW e \in -(2^(Bits(LongSize) - 1)) .. 2^(Bits(LongSize) - 1) - 1,
         NEW a \in -(2^(Bits(LongSize) - 1)) .. 2^(Bits(LongSize) - 1) - 1
  PROVE  OutOfDelta(delta, e, a, style)
           <=> Magnitude(Ordered(e, style) - Ordered(a, style)) > delta
<1>1. LongSize \in Sizes
  BY StyleFacts
<1>2. PICK h \in Nat \ {0} : h = 2^(Bits(LongSize) - 1) /\ 2^Bits(LongSize) = 2 * h
  BY <1>1, WidthFacts
<1>3. e \in -h .. h - 1 /\ a \in -h .. h - 1 /\ e \in Int /\ a \in Int
  BY <1>2
<1>4. Signed(e, LongSize) = e /\ Signed(a, LongSize) = a
  BY <1>1, ConversionsKeep
<1>5. /\ UNITY_UINT(e) = IF e < 0 THEN e + 2 * h ELSE e
      /\ UNITY_UINT(a) = IF a < 0 THEN a + 2 * h ELSE a
  BY <1>1, <1>2, <1>3, <1>4, UnsignedOfSigned DEF UNITY_UINT
<1>6. PICK m \in Nat \ {0} : m = 2 * h
  BY <1>2
(* A difference modulo m, of x and y in their unsigned forms u and v.      *)
<1>7. ASSUME NEW x \in -h .. h - 1, NEW y \in -h .. h - 1, NEW u \in Int, NEW v \in Int,
             u = IF x < 0 THEN x + m ELSE x,
             v = IF y < 0 THEN y + m ELSE y
      PROVE  /\ x >= y => UNITY_UINT(u - v) = x - y
             /\ u >= v => UNITY_UINT(u - v) = u - v
  <2>1. \A d \in 0 .. m - 1 : UNITY_UINT(d) = d
    BY <1>1, <1>2, <1>6, ConversionsKeep DEF UNITY_UINT
  <2>2. u >= v => u - v \in 0 .. m - 1
    BY <1>6, <1>7
  <2>3. ASSUME x >= y, ~(u >= v)
        PROVE  UNITY_UINT(u - v) = x - y
    <3>1. PICK d \in Int, k \in Int : d = u - v /\ k = 1
      OBVIOUS
    <3>2. (d + k * m) % m = d % m
      BY SameRemainder
    <3>3. d + k * m = x - y /\ x - y \in 0 .. m - 1
      BY <1>6, <1>7, <2>3, <3>1
    <3>4. UNITY_UINT(d) = UNITY_UINT(x - y)
      BY <1>2, <1>6, <3>2, <3>3 DEF UNITY_UINT, Unsigned
    <3>5. QED
      BY <2>1, <3>1, <3>3, <3>4
  <2>4. x >= y /\ u >= v => u - v = x - y
    BY <1>6, <1>7
  <2>5. QED
    BY <2>1, <2>2, <2>3, <2>4
<1>8. PICK ue \in Int, ua \in Int :
        /\ ue = UNITY_UINT(e) /\ ua = UNITY_UINT(a)
        /\ ue = IF e < 0 THEN e + m ELSE e
        /\ ua = IF a < 0 THEN a + m ELSE a
  BY <1>3, <1>5, <1>6
<1>9. CASE RangeInt(style)
  <2>1. Ordered(e, style) = e /\ Ordered(a, style) = a
    BY <1>9 DEF Ordered
  <2>2. /\ a > e => UNITY_UINT(ua - ue) = a - e
        /\ e >= a => UNITY_UINT(ue - ua) = e - a
    BY <1>3, <1>7, <1>8
  <2>3. QED
    BY <1>3, <1>8, <2>1, <2>2 DEF OutOfDelta, Magnitude
<1>10. CASE ~RangeInt(style)
  <2>1. Ordered(e, style) = ue /\ Ordered(a, style) = ua
    BY <1>8, <1>10 DEF Ordered
  <2>2. /\ ua > ue => UNITY_UINT(ua - ue) = ua - ue
        /\ ue >= ua => UNITY_UINT(ue - ua) = ue - ua
    BY <1>3, <1>7, <1>8
  <2>3. QED
    BY <1>8, <2>1, <2>2 DEF OutOfDelta, Magnitude
<1>11. QED
  BY <1>9, <1>10

LEMMA WithinVerdict ==
  ASSUME NEW style \in Styles, NEW x \in Int, NEW y \in Int,
         NEW delta \in 0 .. 2^Bits(style.cast) - 1
  PROVE  UnityAssertNumbersWithin(Unsigned(delta, style.cast), OrderCast(x, style),
                                  OrderCast(y, style), style) = <<>>
           <=> Magnitude(Value(x, style, style.cast) - Value(y, style, style.cast)) <= delta
<1>1. style.cast \in Sizes
  BY StyleFacts
<1>2. PICK v \in Int, w \in Int : v = Value(x, style, style.cast) /\ w = Value(y, style, style.cast)
  BY <1>1, ValueType
<1>3. Unsigned(delta, style.cast) = delta /\ delta \in Nat
  <2>1. 2^Bits(style.cast) \in Nat
    BY <1>1, WidthFacts
  <2>2. QED
    BY <1>1, <2>1, ConversionsKeep
<1>4. OutOfDelta(delta, OrderCast(x, style), OrderCast(y, style), style)
        <=> Magnitude(v - w) > delta
  BY <1>2, <1>3, OrderedValue, DeltaIsDistance
<1>5. \A d, p, q : UnityAssertNumbersWithin(d, p, q, style) = <<>> <=> ~OutOfDelta(d, p, q, style)
  BY ReportsAreSomething DEF UnityAssertNumbersWithin
<1>6. Magnitude(v - w) \in Int
  BY DEF Magnitude
<1>7. QED
  BY <1>2, <1>3, <1>4, <1>5, <1>6

(* What is compared of two numbers are the bits of the mask.               *)
LEMMA BitIs == ASSUME NEW n \in Int, NEW i \in Nat PROVE (n \div 2^i) % 2 \in {0, 1}
<1>1. PICK p \in Nat \ {0} : p = 2^i
  BY PowerOfTwo
<1>2. n \div p \in Int
  BY Division
<1>3. QED
  BY <1>1, <1>2

LEMMA BitsVerdict ==
  ASSUME NEW a, a.mask \in Int, a.expected \in Int, a.actual \in Int
  PROVE  UnityAssertBits(UNITY_INT(a.mask), UNITY_INT(a.expected), UNITY_INT(a.actual)) = <<>>
           <=> Holds("BITS", a)
<1> DEFINE I == 0 .. Bits(LongSize) - 1
           bit(n, i) == (UNITY_UINT(n) \div 2^i) % 2
           masked(n) == [i \in I |-> bit(a.mask, i) * bit(n, i)]
<1>1. LongSize \in Sizes /\ I \subseteq Nat
  BY StyleFacts, WidthFacts DEF Sizes
<1>2. \A n \in Int : UNITY_UINT(n) \in Int /\ UNITY_UINT(UNITY_INT(n)) = UNITY_UINT(n)
  <2>1. 2^Bits(LongSize) \in Int
    BY <1>1, WidthFacts
  <2>2. QED
    BY <1>1, <2>1, Conversions DEF UNITY_UINT, UNITY_INT
<1>3. \A n \in Int, i \in I : bit(n, i) \in {0, 1}
  BY <1>1, <1>2, BitIs
<1>4. masked(a.expected) = masked(a.actual)
        <=> \A i \in I : bit(a.mask, i) = 1 => bit(a.expected, i) = bit(a.actual, i)
  <2>1. \A i \in I : bit(a.mask, i) * bit(a.expected, i) = bit(a.mask, i) * bit(a.actual, i)
          <=> (bit(a.mask, i) = 1 => bit(a.expected, i) = bit(a.actual, i))
    <3> TAKE i \in I
    <3>1. PICK m \in {0, 1}, e \in {0, 1}, f \in {0, 1} :
            m = bit(a.mask, i) /\ e = bit(a.expected, i) /\ f = bit(a.actual, i)
      BY <1>3
    <3>2. m * e = m * f <=> (m = 1 => e = f)
      OBVIOUS
    <3>3. QED
      BY <3>1, <3>2
  <2> HIDE DEF bit, I
  <2>2. QED
    BY <2>1
<1>5. UnityAssertBits(UNITY_INT(a.mask), UNITY_INT(a.expected), UNITY_INT(a.actual)) = <<>>
        <=> masked(a.expected) = masked(a.actual)
  BY <1>2, ReportsAreSomething DEF UnityAssertBits
<1>6. Holds("BITS", a)
        <=> {i \in I : bit(a.mask, i) = 1} \cap {i \in I : bit(a.expected, i) = 1}
              = {i \in I : bit(a.mask, i) = 1} \cap {i \in I : bit(a.actual, i) = 1}
  BY DEF Holds, TraitMacros, Walked, ArrayMacros, FloatArrayMacros, StringArrayMacros,
         MemoryMacros
<1> HIDE DEF bit, I, masked
<1>7. Holds("BITS", a) <=> \A i \in I : bit(a.mask, i) = 1 =>
                               (bit(a.expected, i) = 1 <=> bit(a.actual, i) = 1)
  BY <1>6
<1>8. \A i \in I : (bit(a.expected, i) = 1 <=> bit(a.actual, i) = 1)
                     <=> bit(a.expected, i) = bit(a.actual, i)
  BY <1>3
<1>9. QED
  BY <1>4, <1>5, <1>7, <1>8

-----------------------------------------------------------------------------
(* The verdicts on arrays of integers.                                     *)

LEMMA ArrayVerdict ==
  ASSUME NEW expected, NEW actual, NEW n, NEW walk
  PROVE  ArrayReport(expected, actual, n, walk) = <<>>
           <=> /\ n # 0
               /\ \/ expected.at = actual.at
                  \/ expected.at # 0 /\ actual.at # 0 /\ walk = <<>>
  BY ReportsAreSomething DEF ArrayReport, UnityIsOneArrayNull

(* Two numbers of an array are within delta when their distance is; the    *)
(* sign extension of the elements does not show if both have it.           *)
LEMMA ElementsWithin ==
  ASSUME NEW style \in Styles, NEW x \in Int, NEW y \in Int, NEW delta \in Nat,
         \/ RangeInt(style) \/ style.size = LongSize
         \/ (Signed(x, style.size) < 0) = (Signed(y, style.size) < 0)
  PROVE  OutOfDelta(delta, Signed(x, style.size), Signed(y, style.size), style)
           <=> ~(Magnitude(Value(x, style, style.size) - Value(y, style, style.size)) <= delta)
<1>1. style.size \in Sizes /\ LongSize \in Sizes /\ style.size <= LongSize
  BY SizesOrdered, StyleFacts
<1>2. PICK p \in Int, q \in Int : p = Signed(x, style.size) /\ q = Signed(y, style.size)
  BY <1>1, ValueType
<1>3. /\ p \in -(2^(Bits(LongSize) - 1)) .. 2^(Bits(LongSize) - 1) - 1
      /\ q \in -(2^(Bits(LongSize) - 1)) .. 2^(Bits(LongSize) - 1) - 1
      /\ Signed(p, LongSize) = p /\ Signed(q, LongSize) = q
  BY <1>1, <1>2, SignedFits
<1>4. OutOfDelta(delta, p, q, style) <=> Magnitude(Ordered(p, style) - Ordered(q, style)) > delta
  BY <1>3, DeltaIsDistance
<1>5. PICK v \in Int, w \in Int : v = Value(x, style, style.size) /\ w = Value(y, style, style.size)
  BY <1>1, ValueType
<1>6. PICK c \in Int, d \in Int : c = Ordered(p, style) /\ d = Ordered(q, style)
  BY <1>1, ValueType DEF Ordered, UNITY_UINT
<1>7. c - d = v - w
  <2>1. CASE RangeInt(style)
    BY <1>2, <1>5, <1>6, <2>1 DEF Ordered, Value
  <2>2. CASE ~RangeInt(style)
    <3>1. PICK m \in Int, k \in Int : m = 2^Bits(style.size) /\ k = 2^Bits(LongSize)
      BY <1>1, WidthFacts
    <3>2. /\ v = IF p < 0 THEN p + m ELSE p
          /\ w = IF q < 0 THEN q + m ELSE q
      BY <1>1, <1>2, <1>5, <2>2, <3>1, UnsignedOfSigned DEF Value
    <3>3. /\ c = IF p < 0 THEN p + k ELSE p
          /\ d = IF q < 0 THEN q + k ELSE q
      BY <1>1, <1>3, <1>6, <2>2, <3>1, UnsignedOfSigned DEF Ordered, UNITY_UINT
    <3>4. style.size = LongSize => m = k
      BY <3>1
    <3>5. QED
      BY <1>2, <2>2, <3>2, <3>3, <3>4
  <2>3. QED
    BY <2>1, <2>2
<1>8. Magnitude(v - w) \in Int
  BY DEF Magnitude
<1>9. QED
  BY <1>2, <1>4, <1>5, <1>6, <1>7, <1>8

(* What the macros on arrays claim.                                        *)
LEMMA HoldsForArrays ==
  ASSUME NEW macro \in Walked, NEW a
  PROVE  Holds(macro, a) <=> ArraysAgree(macro, a)
  BY DEF Holds, TraitMacros, Walked, ArrayMacros, FloatArrayMacros, StringArrayMacros,
         MemoryMacros

(* An array that is not NULL has elements where they are compared.         *)
LEMMA ElementsOf ==
  ASSUME NEW S, NEW n \in Nat, NEW x, IsArray(x, n, S), x.at # 0
  PROVE  \A i \in 1 .. n : x.of[i] \in S
<1>1. x.of \in Seq(S) /\ n <= Len(x.of)
  BY DEF IsArray
<1>2. Len(x.of) \in Nat /\ \A i \in 1 .. Len(x.of) : x.of[i] \in S
  BY <1>1, LenProperties, ElementOfSeq
<1>3. QED
  BY <1>1, <1>2

(* The walk lets the test go on when the elements it reads are equal.      *)
LEMMA EqualWalk ==
  ASSUME NEW e, NEW a, NEW n, NEW style, NEW flags
  PROVE  UnityAssertEqualIntArray(e, a, n, style, flags) = <<>>
           <=> /\ n # 0
               /\ \/ e.at = a.at
                  \/ /\ e.at # 0 /\ a.at # 0
                     /\ \A i \in 1 .. n : Signed(e.of[At(i, flags)], style.size)
                                           = Signed(a.of[i], style.size)
<1> DEFINE E(i) == Signed(e.of[At(i, flags)], style.size)
           A(i) == Signed(a.of[i], style.size)
           bad == {i \in 1 .. n : E(i) # A(i)}
           walk == IF bad = {} THEN <<>>
                   ELSE Report("Number", Element(Min(bad)), Printed(E(Min(bad)), style),
                               Printed(A(Min(bad)), style))
<1>1. UnityAssertEqualIntArray(e, a, n, style, flags) = ArrayReport(e, a, n, walk)
  BY DEF UnityAssertEqualIntArray, Walk
<1>2. walk = <<>> <=> \A i \in 1 .. n : E(i) = A(i)
  BY ReportsAreSomething
<1> HIDE DEF walk
<1>3. QED
  BY <1>1, <1>2, ArrayVerdict

LEMMA EqualArrayVerdict ==
  ASSUME NEW a, Typed("EQUAL_ARRAY", a)
  PROVE  UnityAssert("EQUAL_ARRAY", a) = <<>> <=> Holds("EQUAL_ARRAY", a)
<1> DEFINE n == a.num_elements
           E(i) == Signed(a.expected.of[i], a.style.size)
           A(i) == Signed(a.actual.of[i], a.style.size)
           V(x) == Value(x, a.style, a.style.size)
<1>1. /\ a.style \in Styles /\ n \in Nat
      /\ IsArray(a.expected, n, Int) /\ IsArray(a.actual, n, Int)
  BY CountsAreNaturals DEF Typed, IntegerMacros, ArrayMacros, Walked
<1>2. a.style.size \in Sizes
  BY <1>1, StyleFacts
<1>3. UnityAssert("EQUAL_ARRAY", a)
        = UnityAssertEqualIntArray(a.expected, a.actual, n, a.style, "ARRAY_TO_ARRAY")
  BY DEF UnityAssert, IntegerReport, IntegerMacros, ArrayMacros, FloatMacros,
         FloatArrayMacros, TraitMacros
<1>4. UnityAssert("EQUAL_ARRAY", a) = <<>>
        <=> /\ n # 0
            /\ \/ a.expected.at = a.actual.at
               \/ a.expected.at # 0 /\ a.actual.at # 0 /\ \A i \in 1 .. n : E(i) = A(i)
  BY <1>3, EqualWalk DEF At
<1>5. /\ Mismatches("EQUAL_ARRAY", a) = {k \in 1 .. n : ~(V(a.expected.of[k]) = V(a.actual.of[k]))}
      /\ Count("EQUAL_ARRAY", a) = n /\ ByPointer("EQUAL_ARRAY")
  BY DEF Mismatches, AgreesAt, ExpectedAt, Count, ByPointer, MemoryMacros, FloatArrayMacros,
         StringArrayMacros
<1>6. Holds("EQUAL_ARRAY", a)
        <=> /\ n # 0
            /\ \/ a.expected.at = a.actual.at
               \/ a.expected.at # 0 /\ a.actual.at # 0 /\ Mismatches("EQUAL_ARRAY", a) = {}
  BY <1>1, <1>5, HoldsForArrays DEF Walked, ArrayMacros, ArraysAgree
<1>7. ASSUME a.expected.at # 0, a.actual.at # 0
      PROVE  (\A i \in 1 .. n : E(i) = A(i)) <=> Mismatches("EQUAL_ARRAY", a) = {}
  <2>1. \A i \in 1 .. n : a.expected.of[i] \in Int /\ a.actual.of[i] \in Int
    BY <1>1, <1>7, ElementsOf
  <2>2. \A x \in Int, y \in Int :
          V(x) = V(y) <=> Signed(x, a.style.size) = Signed(y, a.style.size)
    BY <1>2, SameBits DEF Value
  <2> HIDE DEF V
  <2>3. QED
    BY <1>5, <2>1, <2>2
<1>8. QED
  BY <1>4, <1>6, <1>7

(* The one value of an array comparison is stored in the size of the style.*)
LEMMA EachEqualVerdict ==
  ASSUME NEW a, Typed("EACH_EQUAL", a)
  PROVE  UnityAssert("EACH_EQUAL", a) = <<>> <=> Holds("EACH_EQUAL", a)
<1> DEFINE n == a.num_elements
           size == a.style.size
           num == EqualCast(a.expected, a.style)
           A(i) == Signed(a.actual.of[i], size)
           V(x) == Value(x, a.style, size)
           p == UnityNumToPtr(num, size)
<1>1. a.style \in Styles /\ n \in Nat /\ a.expected \in Int /\ IsArray(a.actual, n, Int)
  BY CountsAreNaturals DEF Typed, IntegerMacros, ArrayMacros, Walked
<1>2. /\ size \in Sizes /\ num \in Int
      /\ Unsigned(num, size) = Unsigned(a.expected, size)
  BY <1>1, StyleFacts, EqualCastValue
<1>3. UnityAssert("EACH_EQUAL", a)
        = UnityAssertEqualIntArray(p, a.actual, n, a.style, "ARRAY_TO_VAL")
  BY DEF UnityAssert, IntegerReport, IntegerMacros, ArrayMacros, FloatMacros,
         FloatArrayMacros, TraitMacros
<1>4. p.at # 0 /\ p.at # a.actual.at /\ p.of[1] = Unsigned(num, size)
  BY <1>1 DEF UnityNumToPtr, UnityQuickCompare, IsArray
<1>5. UnityAssert("EACH_EQUAL", a) = <<>>
        <=> /\ n # 0 /\ a.actual.at # 0
            /\ \A i \in 1 .. n : Signed(Unsigned(num, size), size) = A(i)
  <2> HIDE DEF p
  <2>1. At(1, "ARRAY_TO_VAL") = 1 /\ \A i : At(i, "ARRAY_TO_VAL") = 1
    BY DEF At
  <2>2. QED
    BY <1>3, <1>4, <2>1, EqualWalk
<1>6. /\ Mismatches("EACH_EQUAL", a) = {k \in 1 .. n : ~(V(a.expected) = V(a.actual.of[k]))}
      /\ Count("EACH_EQUAL", a) = n /\ ~ByPointer("EACH_EQUAL")
  BY DEF Mismatches, AgreesAt, ExpectedAt, Count, ByPointer, MemoryMacros, FloatArrayMacros,
         StringArrayMacros
<1>7. Holds("EACH_EQUAL", a) <=> n # 0 /\ a.actual.at # 0 /\ Mismatches("EACH_EQUAL", a) = {}
  BY <1>1, <1>6, HoldsForArrays DEF Walked, ArrayMacros, ArraysAgree
<1>8. ASSUME a.actual.at # 0
      PROVE  (\A i \in 1 .. n : Signed(Unsigned(num, size), size) = A(i))
               <=> Mismatches("EACH_EQUAL", a) = {}
  <2>1. \A i \in 1 .. n : a.actual.of[i] \in Int
    BY <1>1, <1>8, ElementsOf
  <2>2. PICK u \in Int : u = Unsigned(num, size)
    BY <1>2, ValueType
  <2>3. Unsigned(u, size) = Unsigned(a.expected, size)
    BY <1>2, <2>2, Conversions, ConversionsKeep
  <2>4. Signed(u, size) = Signed(a.expected, size)
    BY <1>1, <1>2, <2>3, SameBits
  <2>5. \A y \in Int : V(a.expected) = V(y) <=> Signed(u, size) = Signed(y, size)
    BY <1>1, <1>2, <2>4, SameBits DEF Value
  <2> HIDE DEF V
  <2>6. QED
    BY <1>6, <2>1, <2>2, <2>5
<1> HIDE DEF A
<1>9. QED
  BY <1>5, <1>7, <1>8

LEMMA ArrayWithinVerdict ==
  ASSUME NEW a, Typed("ARRAY_WITHIN", a),
         \/ RangeInt(a.style) \/ a.style.size = LongSize
         \/ \A k \in 1 .. a.num_elements :
              a.expected.at # 0 /\ a.actual.at # 0 =>
                (Signed(a.expected.of[k], a.style.size) < 0)
                  = (Signed(a.actual.of[k], a.style.size) < 0)
  PROVE  UnityAssert("ARRAY_WITHIN", a) = <<>> <=> Holds("ARRAY_WITHIN", a)
<1> DEFINE n == a.num_elements
           E(i) == Signed(a.expected.of[i], a.style.size)
           A(i) == Signed(a.actual.of[i], a.style.size)
           V(x) == Value(x, a.style, a.style.size)
           bad == {i \in 1 .. n : OutOfDelta(a.delta, E(i), A(i), a.style)}
           walk == IF bad = {} THEN <<>>
                   ELSE Report("Delta", Element(Min(bad)),
                               Printed(E(Min(bad)), a.style), Printed(A(Min(bad)), a.style))
<1>1. /\ a.style \in Styles /\ n \in Nat /\ a.delta \in 0 .. 2^Bits(a.style.cast) - 1
      /\ IsArray(a.expected, n, Int) /\ IsArray(a.actual, n, Int)
  BY CountsAreNaturals DEF Typed, IntegerMacros, ArrayMacros, Walked
<1>2. Unsigned(a.delta, a.style.cast) = a.delta /\ a.delta \in Nat
  <2>1. a.style.cast \in Sizes
    BY <1>1, StyleFacts
  <2>2. 2^Bits(a.style.cast) \in Nat
    BY <2>1, WidthFacts
  <2>3. QED
    BY <1>1, <2>1, <2>2, ConversionsKeep
<1>3. UnityAssert("ARRAY_WITHIN", a)
        = UnityAssertNumbersArrayWithin(a.delta, a.expected, a.actual, n, a.style,
                                        "ARRAY_TO_ARRAY")
  BY <1>2 DEF UnityAssert, IntegerReport, IntegerMacros, ArrayMacros, FloatMacros,
         FloatArrayMacros, TraitMacros
<1>4. UnityAssert("ARRAY_WITHIN", a) = ArrayReport(a.expected, a.actual, n, walk)
  BY <1>3 DEF UnityAssertNumbersArrayWithin, Walk, At
<1>5. walk = <<>> <=> bad = {}
  BY ReportsAreSomething
<1>6. /\ Mismatches("ARRAY_WITHIN", a)
           = {k \in 1 .. n :
                ~(Magnitude(V(a.expected.of[k]) - V(a.actual.of[k])) <= a.delta)}
      /\ Count("ARRAY_WITHIN", a) = n /\ ByPointer("ARRAY_WITHIN")
  BY DEF Mismatches, AgreesAt, ExpectedAt, Count, ByPointer, MemoryMacros, FloatArrayMacros,
         StringArrayMacros
<1>7. Holds("ARRAY_WITHIN", a)
        <=> /\ n # 0
            /\ \/ a.expected.at = a.actual.at
               \/ a.expected.at # 0 /\ a.actual.at # 0 /\ Mismatches("ARRAY_WITHIN", a) = {}
  BY <1>1, <1>6, HoldsForArrays DEF Walked, ArrayMacros, ArraysAgree
<1>8. ASSUME a.expected.at # 0, a.actual.at # 0
      PROVE  bad = Mismatches("ARRAY_WITHIN", a)
  <2>1. \A i \in 1 .. n : a.expected.of[i] \in Int /\ a.actual.of[i] \in Int
    BY <1>1, <1>8, ElementsOf
  <2>2. \A i \in 1 .. n : OutOfDelta(a.delta, E(i), A(i), a.style)
          <=> ~(Magnitude(V(a.expected.of[i]) - V(a.actual.of[i])) <= a.delta)
    <3> TAKE i \in 1 .. n
    <3>1. PICK x \in Int, y \in Int : x = a.expected.of[i] /\ y = a.actual.of[i]
      BY <2>1
    <3>2. \/ RangeInt(a.style) \/ a.style.size = LongSize
          \/ (Signed(x, a.style.size) < 0) = (Signed(y, a.style.size) < 0)
      BY <1>8, <3>1
    <3>3. QED
      BY <1>1, <1>2, <3>1, <3>2, ElementsWithin
  <2> HIDE DEF E, A, V
  <2>3. QED
    BY <1>6, <2>2
<1> HIDE DEF walk
<1>9. QED
  BY <1>4, <1>5, <1>7, <1>8, ArrayVerdict

-----------------------------------------------------------------------------
(* The verdicts on floating-point numbers.                                 *)

LEMMA FloatClose ==
  ASSUME NEW x \in FloatingPoint, NEW y \in FloatingPoint, NEW delta, NEW d \in Int,
         x.class = "finite" => delta.class = "finite" /\ delta.n \in Int /\ d = Magnitude(delta.n)
  PROVE  FloatsWithin(delta, x, y) <=> CloseTo(d, x, y)
<1>1. /\ x.class \in {"finite", "inf", "nan"} /\ y.class \in {"finite", "inf", "nan"}
      /\ x.n \in Int /\ y.n \in Int
      /\ x.class = "nan" => x.n = 0
      /\ y.class = "nan" => y.n = 0
      /\ x = y <=> x.class = y.class /\ x.n = y.n
  BY DEF FloatingPoint
<1>2. CASE x.class = "finite" /\ y.class = "finite"
  BY <1>1, <1>2 DEF FloatsWithin, CloseTo, Magnitude
<1>3. CASE ~(x.class = "finite" /\ y.class = "finite")
  BY <1>1, <1>3 DEF FloatsWithin, CloseTo
<1>4. QED
  BY <1>2, <1>3

(* The tolerance of an equality is the share of the number, whatever its   *)
(* sign.                                                                   *)
LEMMA Tolerance ==
  ASSUME NEW x \in FloatingPoint
  PROVE  /\ Relative(x) \in Int
         /\ x.class = "finite" => /\ TimesPrecision(x).class = "finite"
                                  /\ TimesPrecision(x).n \in Int
                                  /\ Relative(x) = Magnitude(TimesPrecision(x).n)
<1>1. x.n \in Int /\ Precision \in Nat \ {0}
  BY PrecisionAssumption DEF FloatingPoint
<1>2. \A k \in Nat : k \div Precision \in Nat
  BY <1>1
<1>3. Magnitude(x.n) \in Nat
  BY <1>1 DEF Magnitude
<1>4. Relative(x) \in Int
  BY <1>2, <1>3 DEF Relative
<1>5. ASSUME x.class = "finite"
      PROVE  /\ TimesPrecision(x).class = "finite"
             /\ TimesPrecision(x).n \in Int
             /\ Relative(x) = Magnitude(TimesPrecision(x).n)
  <2>1. x \in [class : {"finite"}, n : Int]
    BY <1>5 DEF FloatingPoint
  <2>2. /\ TimesPrecision(x).class = "finite"
        /\ TimesPrecision(x).n = IF x.n < 0 THEN -((-x.n) \div Precision) ELSE x.n \div Precision
    BY <1>5, <2>1 DEF TimesPrecision
  <2>3. CASE x.n < 0
    <3>1. PICK k \in Nat : k = (-x.n) \div Precision
      BY <1>1, <1>2, <2>3
    <3>2. Relative(x) = k
      BY <2>3, <3>1 DEF Relative, Magnitude
    <3>3. QED
      BY <2>2, <2>3, <3>1, <3>2 DEF Magnitude
  <2>4. CASE ~(x.n < 0)
    <3>1. PICK k \in Nat : k = x.n \div Precision
      BY <1>1, <1>2, <2>4
    <3>2. Relative(x) = k
      BY <2>4, <3>1 DEF Relative, Magnitude
    <3>3. QED
      BY <2>2, <2>4, <3>1, <3>2 DEF Magnitude
  <2>5. QED
    BY <2>2, <2>3, <2>4
<1>6. QED
  BY <1>4, <1>5

LEMMA FloatVerdict ==
  ASSUME NEW macro \in FloatMacros, NEW a, Typed(macro, a)
  PROVE  UnityAssert(macro, a) = <<>> <=> Holds(macro, a)
<1> USE DEF FloatMacros
<1>1. a.expected \in FloatingPoint /\ a.actual \in FloatingPoint
  BY DEF Typed
<1>2. \A delta : UnityAssertFloatsWithin(delta, a.expected, a.actual) = <<>>
                   <=> FloatsWithin(delta, a.expected, a.actual)
  BY ReportsAreSomething DEF UnityAssertFloatsWithin
<1>3. CASE macro \in {"FLOAT_WITHIN", "DOUBLE_WITHIN"}
  <2>1. a.delta.class = "finite" /\ a.delta.n \in Int /\ Magnitude(a.delta.n) = a.delta.n
    BY <1>3 DEF Typed, Magnitude
  <2>2. FloatsWithin(a.delta, a.expected, a.actual) <=> CloseTo(a.delta.n, a.expected, a.actual)
    BY <1>1, <2>1, FloatClose
  <2>3. UnityAssert(macro, a) = UnityAssertFloatsWithin(a.delta, a.expected, a.actual)
    BY <1>3 DEF UnityAssert, FloatReport, IntegerMacros, ArrayMacros, FloatArrayMacros,
           TraitMacros, UnityAssertDoublesWithin
  <2>4. Holds(macro, a) <=> CloseTo(a.delta.n, a.expected, a.actual)
    BY <1>3 DEF Holds, TraitMacros, Walked, ArrayMacros, FloatArrayMacros, StringArrayMacros,
           MemoryMacros
  <2>5. QED
    BY <1>2, <2>2, <2>3, <2>4
<1>4. CASE macro = "EQUAL_FLOAT"
  <2>1. FloatsWithin(TimesPrecision(a.expected), a.expected, a.actual)
          <=> CloseTo(Relative(a.expected), a.expected, a.actual)
    BY <1>1, Tolerance, FloatClose
  <2>2. UnityAssert(macro, a)
          = UnityAssertFloatsWithin(TimesPrecision(a.expected), a.expected, a.actual)
    BY <1>4 DEF UnityAssert, FloatReport, IntegerMacros, ArrayMacros, FloatArrayMacros,
           TraitMacros
  <2>3. Holds(macro, a) <=> CloseTo(Relative(a.expected), a.expected, a.actual)
    BY <1>4 DEF Holds, TraitMacros, Walked, ArrayMacros, FloatArrayMacros, StringArrayMacros,
           MemoryMacros
  <2>4. QED
    BY <1>2, <2>1, <2>2, <2>3
<1>5. QED
  BY <1>3, <1>4

(* The trait of a number is asked for, or that it does not have it.        *)
LEMMA TraitVerdict ==
  ASSUME NEW macro \in TraitMacros, NEW a, Typed(macro, a)
  PROVE  UnityAssert(macro, a) = <<>> <=> Holds(macro, a)
<1> USE DEF TraitMacros
<1> DEFINE is == CASE a.trait = "INF"     -> a.actual.class = "inf" /\ a.actual.n > 0
                   [] a.trait = "NEG_INF" -> a.actual.class = "inf" /\ a.actual.n < 0
                   [] a.trait = "NAN"     -> a.actual.class = "nan"
                   [] a.trait = "DET"     -> a.actual.class = "finite"
<1>1. /\ a.actual \in FloatingPoint /\ a.trait \in {"INF", "NEG_INF", "NAN", "DET"}
      /\ a.should \in BOOLEAN
  BY DEF Typed
<1>2. UnityAssert(macro, a) = <<>> <=> is = a.should
  <2>1. UnityAssert(macro, a) = UnityAssertFloatSpecial(a.actual, a.trait, a.should)
    BY DEF UnityAssert, FloatReport, IntegerMacros, ArrayMacros, FloatMacros,
           FloatArrayMacros, UnityAssertDoubleSpecial
  <2>2. QED
    BY <2>1, ReportsAreSomething DEF UnityAssertFloatSpecial
<1>3. Holds(macro, a) <=> a.should = HasTrait(a.actual, a.trait)
  BY DEF Holds, Walked, ArrayMacros, FloatArrayMacros, StringArrayMacros, MemoryMacros
<1>4. /\ a.actual.class \in {"finite", "inf", "nan"}
      /\ a.actual.class = "inf" => a.actual.n \in {1, -1}
      /\ a.actual = [class |-> "inf", n |-> 1] <=> a.actual.class = "inf" /\ a.actual.n > 0
      /\ a.actual = [class |-> "inf", n |-> -1] <=> a.actual.class = "inf" /\ a.actual.n < 0
  BY <1>1 DEF FloatingPoint
<1>5. is = HasTrait(a.actual, a.trait)
  <2>1. CASE a.trait = "INF"
    BY <1>4, <2>1 DEF HasTrait
  <2>2. CASE a.trait = "NEG_INF"
    BY <1>4, <2>2 DEF HasTrait
  <2>3. CASE a.trait = "NAN"
    BY <1>4, <2>3 DEF HasTrait
  <2>4. CASE a.trait = "DET"
    BY <1>4, <2>4 DEF HasTrait
  <2>5. QED
    BY <1>1, <2>1, <2>2, <2>3, <2>4
<1> HIDE DEF is
<1>6. QED
  BY <1>2, <1>3, <1>5

LEMMA FloatWalk ==
  ASSUME NEW e, NEW a, NEW n, NEW flags
  PROVE  UnityAssertEqualFloatArray(e, a, n, flags) = <<>>
           <=> /\ n # 0
               /\ \/ e.at = a.at
                  \/ /\ e.at # 0 /\ a.at # 0
                     /\ \A i \in 1 .. n : FloatsWithin(TimesPrecision(e.of[At(i, flags)]),
                                                       e.of[At(i, flags)], a.of[i])
<1> DEFINE E(i) == e.of[At(i, flags)]
           bad == {i \in 1 .. n : ~FloatsWithin(TimesPrecision(E(i)), E(i), a.of[i])}
           walk == IF bad = {} THEN <<>>
                   ELSE Report("Delta", Element(Min(bad)), <<>>, <<>>)
<1>1. UnityAssertEqualFloatArray(e, a, n, flags) = ArrayReport(e, a, n, walk)
  BY DEF UnityAssertEqualFloatArray, Walk
<1>2. walk = <<>> <=> \A i \in 1 .. n : FloatsWithin(TimesPrecision(E(i)), E(i), a.of[i])
  BY ReportsAreSomething
<1> HIDE DEF walk
<1>3. QED
  BY <1>1, <1>2, ArrayVerdict

LEMMA FloatArrayVerdict ==
  ASSUME NEW macro \in FloatArrayMacros, NEW a, Typed(macro, a)
  PROVE  UnityAssert(macro, a) = <<>> <=> Holds(macro, a)
<1> USE DEF FloatArrayMacros
<1> DEFINE n == a.num_elements
           close(x, y) == CloseTo(Relative(x), x, y)
<1>1. n \in Nat /\ IsArray(a.actual, n, FloatingPoint) /\ macro \in Walked
  BY CountsAreNaturals DEF Typed, Walked
<1>2. \A x \in FloatingPoint, y \in FloatingPoint :
        FloatsWithin(TimesPrecision(x), x, y) <=> close(x, y)
  <2> TAKE x \in FloatingPoint, y \in FloatingPoint
  <2>1. QED
    BY Tolerance, FloatClose
<1>3. /\ Count(macro, a) = n
      /\ Holds(macro, a) <=> ArraysAgree(macro, a)
  BY <1>1, HoldsForArrays DEF Count, MemoryMacros
<1>4. Mismatches(macro, a)
        = {k \in 1 .. n : ~close(ExpectedAt(macro, a, k), a.actual.of[k])}
  BY DEF Mismatches, AgreesAt, Count, MemoryMacros, ArrayMacros, StringArrayMacros
<1> HIDE DEF close
<1>5. CASE macro # "EACH_EQUAL_FLOAT"
  <2>1. IsArray(a.expected, n, FloatingPoint)
    BY <1>5 DEF Typed
  <2>2. UnityAssert(macro, a)
          = UnityAssertEqualFloatArray(a.expected, a.actual, n, "ARRAY_TO_ARRAY")
    BY <1>5 DEF UnityAssert, FloatReport, IntegerMacros, ArrayMacros, FloatMacros,
           TraitMacros, UnityAssertEqualDoubleArray
  <2>3. UnityAssert(macro, a) = <<>>
          <=> /\ n # 0
              /\ \/ a.expected.at = a.actual.at
                 \/ /\ a.expected.at # 0 /\ a.actual.at # 0
                    /\ \A i \in 1 .. n : FloatsWithin(TimesPrecision(a.expected.of[i]),
                                                      a.expected.of[i], a.actual.of[i])
    BY <2>2, FloatWalk DEF At
  <2>4. ByPointer(macro) /\ \A k : ExpectedAt(macro, a, k) = a.expected.of[k]
    BY <1>5 DEF ByPointer, ExpectedAt
  <2>5. ASSUME a.expected.at # 0, a.actual.at # 0
        PROVE  Mismatches(macro, a) = {}
                 <=> \A i \in 1 .. n : FloatsWithin(TimesPrecision(a.expected.of[i]),
                                                    a.expected.of[i], a.actual.of[i])
    <3>1. \A i \in 1 .. n : a.expected.of[i] \in FloatingPoint /\ a.actual.of[i] \in FloatingPoint
      BY <1>1, <2>1, <2>5, ElementsOf
    <3>2. QED
      BY <1>2, <1>4, <2>4, <3>1
  <2>6. QED
    BY <1>1, <1>3, <2>3, <2>4, <2>5 DEF ArraysAgree
<1>6. CASE macro = "EACH_EQUAL_FLOAT"
  <2> DEFINE p == FloatToPtr(a.expected)
  <2>1. a.expected \in FloatingPoint
    BY <1>6 DEF Typed
  <2>2. UnityAssert(macro, a) = UnityAssertEqualFloatArray(p, a.actual, n, "ARRAY_TO_VAL")
    BY <1>6 DEF UnityAssert, FloatReport, IntegerMacros, ArrayMacros, FloatMacros,
           TraitMacros
  <2>3. p.at # 0 /\ p.at # a.actual.at /\ \A i : p.of[At(i, "ARRAY_TO_VAL")] = a.expected
    BY <1>1 DEF FloatToPtr, UnityQuickCompare, IsArray, At
  <2> HIDE DEF p
  <2>4. UnityAssert(macro, a) = <<>>
          <=> /\ n # 0 /\ a.actual.at # 0
              /\ \A i \in 1 .. n : FloatsWithin(TimesPrecision(a.expected), a.expected,
                                                a.actual.of[i])
    BY <2>2, <2>3, FloatWalk
  <2>5. ~ByPointer(macro) /\ \A k : ExpectedAt(macro, a, k) = a.expected
    BY <1>6 DEF ByPointer, ExpectedAt
  <2>6. ASSUME a.actual.at # 0
        PROVE  Mismatches(macro, a) = {}
                 <=> \A i \in 1 .. n : FloatsWithin(TimesPrecision(a.expected), a.expected,
                                                    a.actual.of[i])
    <3>1. \A i \in 1 .. n : a.actual.of[i] \in FloatingPoint
      BY <1>1, <2>6, ElementsOf
    <3>2. QED
      BY <1>2, <1>4, <2>1, <2>5, <3>1
  <2>7. QED
    BY <1>1, <1>3, <2>4, <2>5, <2>6 DEF ArraysAgree
<1>7. QED
  BY <1>5, <1>6

-----------------------------------------------------------------------------
(* The verdicts on strings.                                                *)

LEMMA ExtremesOfTwo ==
  ASSUME NEW m \in Nat, NEW n \in Nat
  PROVE  /\ Min({m, n}) = IF m <= n THEN m ELSE n
         /\ Max({m, n}) = IF m <= n THEN n ELSE m
<1>1. Min({m, n}) \in {m, n} /\ \A y \in {m, n} : Min({m, n}) <= y
  BY MinOfNaturals
<1>2. Max({m, n}) \in {m, n} /\ \A y \in {m, n} : Max({m, n}) >= y
  <2>1. m + n \in Nat /\ {m, n} \subseteq 0 .. m + n /\ {m, n} # {}
    OBVIOUS
  <2>2. QED
    BY <2>1, MaxOfBounded
<1>3. QED
  BY <1>1, <1>2

(* The first characters of a string, up to a length.                       *)
LEMMA PrefixFacts ==
  ASSUME NEW x \in CStrings, NEW length \in Nat
  PROVE  /\ x.at \in Nat /\ x.of \in Seq(Chars) /\ (x.at = 0 => x.of = <<>>)
         /\ Prefix(x, length) \in CStrings /\ Prefix(x, length).at = x.at
         /\ Len(x.of) \in Nat
         /\ Prefix(x, length).of \in Seq(Chars)
         /\ Len(Prefix(x, length).of) = IF length <= Len(x.of) THEN length ELSE Len(x.of)
         /\ \A i \in 1 .. Len(Prefix(x, length).of) : Prefix(x, length).of[i] = x.of[i]
         /\ Prefix(x, Len(x.of)) = x
<1>1. /\ x \in [at : Nat, of : Seq(Chars)] /\ x.at \in Nat /\ x.of \in Seq(Chars)
      /\ x.at = 0 => x.of = <<>>
  BY DEF CStrings
<1>2. Len(x.of) \in Nat
  BY <1>1, LenProperties
<1>3. PICK k \in 0 .. Len(x.of) :
        /\ k = Min({length, Len(x.of)})
        /\ k = IF length <= Len(x.of) THEN length ELSE Len(x.of)
  BY <1>2, ExtremesOfTwo
<1> DEFINE s == SubSeq(x.of, 1, k)
           p == Prefix(x, length)
<1>4. p = [x EXCEPT !.of = s]
  BY <1>3 DEF Prefix
<1>5. p \in [at : {x.at}, of : {s}] /\ p.at = x.at /\ p.of = s
  BY <1>1, <1>4
<1>6. s \in Seq(Chars) /\ Len(s) = k /\ \A i \in 1 .. k : s[i] = x.of[i]
  <2>1. \A i \in 1 .. k : x.of[i] \in Chars
    BY <1>1, <1>2, ElementOfSeq
  <2>2. /\ SubSeq(x.of, 1, k) \in Seq(Chars)
        /\ Len(SubSeq(x.of, 1, k)) = IF 1 <= k THEN k - 1 + 1 ELSE 0
        /\ \A i \in 1 .. k - 1 + 1 : SubSeq(x.of, 1, k)[i] = x.of[1 + i - 1]
    BY <2>1, SubSeqProperties
  <2>3. k - 1 + 1 = k /\ \A i \in 1 .. k : 1 + i - 1 = i
    OBVIOUS
  <2>4. Len(s) = k
    BY <2>2, <2>3
  <2>5. \A i \in 1 .. k : s[i] = x.of[i]
    BY <2>2, <2>3
  <2>6. QED
    BY <2>2, <2>4, <2>5
<1>7. x.at = 0 => s = <<>>
  <2> SUFFICES ASSUME x.at = 0
               PROVE  s = <<>>
    OBVIOUS
  <2>1. Len(s) = 0
    BY <1>1, <1>6, EmptySeq
  <2>2. QED
    BY <1>6, <2>1, EmptySeq
<1> HIDE DEF s
<1>8. p \in CStrings
  BY <1>1, <1>5, <1>6, <1>7 DEF CStrings
<1>9. Prefix(x, Len(x.of)) = x
  <2>1. Min({Len(x.of), Len(x.of)}) = Len(x.of)
    BY <1>2, ExtremesOfTwo
  <2>2. SubSeq(x.of, 1, Len(x.of)) = x.of
    BY <1>1, SubSeqFull
  <2>3. Prefix(x, Len(x.of)) = [x EXCEPT !.of = x.of]
    BY <2>1, <2>2 DEF Prefix
  <2>4. QED
    BY <1>1, <2>3
<1> HIDE DEF p
<1>10. QED
  BY <1>1, <1>2, <1>3, <1>5, <1>6, <1>8, <1>9 DEF p

(* The loop compares as many characters as the longer string has, up to    *)
(* length: no character of a string is the NUL behind the other one.       *)
LEMMA StringsDifferMeans ==
  ASSUME NEW x \in CStrings, NEW y \in CStrings, NEW length \in Nat
  PROVE  StringsDiffer(x, y, length) <=> ~SameString(Prefix(x, length), Prefix(y, length))
<1> DEFINE p == Prefix(x, length)
           q == Prefix(y, length)
           m == Len(x.of)
           n == Len(y.of)
<1>1. /\ x.at \in Nat /\ p.at = x.at /\ p.of \in Seq(Chars) /\ p \in CStrings
      /\ Len(p.of) = IF length <= m THEN length ELSE m
      /\ \A i \in 1 .. Len(p.of) : p.of[i] = x.of[i]
      /\ m \in Nat /\ \A i \in 1 .. m : x.of[i] \in Chars
      /\ p.at = 0 => p.of = <<>>
  BY PrefixFacts, ElementOfSeq
<1>2. /\ y.at \in Nat /\ q.at = y.at /\ q.of \in Seq(Chars) /\ q \in CStrings
      /\ Len(q.of) = IF length <= n THEN length ELSE n
      /\ \A i \in 1 .. Len(q.of) : q.of[i] = y.of[i]
      /\ n \in Nat /\ \A i \in 1 .. n : y.of[i] \in Chars
      /\ q.at = 0 => q.of = <<>>
  BY PrefixFacts, ElementOfSeq
<1>3. CASE x.at = 0 \/ y.at = 0
  <2>1. StringsDiffer(x, y, length) <=> x.at # y.at
    BY <1>3 DEF StringsDiffer
  <2> HIDE DEF p, q
  <2>2. SameString(p, q) <=> ((x.at = 0) = (y.at = 0) /\ p.of = q.of)
    BY <1>1, <1>2 DEF SameString
  <2>3. QED
    BY <1>1, <1>2, <1>3, <2>1, <2>2 DEF p, q
<1>4. CASE x.at # 0 /\ y.at # 0
  <2> DEFINE most == Min({length, Max({m, n})})
  <2>1. most = IF length <= (IF m <= n THEN n ELSE m) THEN length ELSE IF m <= n THEN n ELSE m
    <3>1. Max({m, n}) = (IF m <= n THEN n ELSE m) /\ Max({m, n}) \in Nat
      BY <1>1, <1>2, ExtremesOfTwo
    <3>2. QED
      BY <3>1, ExtremesOfTwo
  <2>2. StringsDiffer(x, y, length) <=> \E i \in 1 .. most : CharOf(x, i) # CharOf(y, i)
    BY <1>4 DEF StringsDiffer
  <2>3. SameString(p, q) <=> p.of = q.of
    BY <1>1, <1>2, <1>4 DEF SameString
  <2> HIDE DEF most, p, q
  <2>4. ASSUME p.of = q.of, NEW i \in 1 .. most
        PROVE  CharOf(x, i) = CharOf(y, i)
    <3>1. Len(p.of) = Len(q.of)
      BY <2>4
    <3>2. CASE i <= Len(p.of)
      <4>1. i \in 1 .. Len(p.of) /\ i <= m /\ i <= n
        BY <1>1, <1>2, <2>1, <3>1, <3>2
      <4>2. x.of[i] = y.of[i]
        BY <1>1, <1>2, <2>4, <3>1, <4>1
      <4>3. QED
        BY <4>1, <4>2 DEF CharOf
    <3>3. CASE ~(i <= Len(p.of))
      BY <1>1, <1>2, <2>1, <3>1, <3>3 DEF CharOf
    <3>4. QED
      BY <3>2, <3>3
  <2>5. ASSUME \A i \in 1 .. most : CharOf(x, i) = CharOf(y, i)
        PROVE  p.of = q.of
    <3>1. NULByte \notin Chars
      BY DEF Chars
    <3>2. ASSUME Len(p.of) < Len(q.of)
          PROVE  FALSE
      <4>1. m < length /\ Len(q.of) \in 1 .. most /\ Len(q.of) \in 1 .. n /\ m < Len(q.of)
        BY <1>1, <1>2, <2>1, <3>2
      <4>2. CharOf(x, Len(q.of)) = NULByte /\ CharOf(y, Len(q.of)) \in Chars
        BY <1>1, <1>2, <4>1 DEF CharOf
      <4>3. QED
        BY <2>5, <3>1, <4>1, <4>2
    <3>3. ASSUME Len(q.of) < Len(p.of)
          PROVE  FALSE
      <4>1. n < length /\ Len(p.of) \in 1 .. most /\ Len(p.of) \in 1 .. m /\ n < Len(p.of)
        BY <1>1, <1>2, <2>1, <3>3
      <4>2. CharOf(y, Len(p.of)) = NULByte /\ CharOf(x, Len(p.of)) \in Chars
        BY <1>1, <1>2, <4>1 DEF CharOf
      <4>3. QED
        BY <2>5, <3>1, <4>1, <4>2
    <3>4. Len(p.of) = Len(q.of) /\ Len(p.of) \in Nat
      BY <1>1, <1>2, <3>2, <3>3
    <3>5. ASSUME NEW i \in 1 .. Len(p.of)
          PROVE  p.of[i] = q.of[i]
      <4>1. i <= m /\ i <= n /\ i \in 1 .. most
        BY <1>1, <1>2, <2>1, <3>4
      <4>2. x.of[i] = y.of[i]
        BY <2>5, <4>1 DEF CharOf
      <4>3. QED
        BY <1>1, <1>2, <3>4, <4>2
    <3>6. QED
      BY <1>1, <1>2, <3>4, <3>5, SeqEqual
  <2>6. QED
    BY <2>2, <2>3, <2>4, <2>5 DEF p, q
<1>5. QED
  BY <1>3, <1>4

LEMMA WholeStringsDiffer ==
  ASSUME NEW x \in CStrings, NEW y \in CStrings
  PROVE  StringsDiffer(x, y, Longest(x, y)) <=> ~SameString(x, y)
<1> DEFINE p == Prefix(x, Longest(x, y))
           q == Prefix(y, Longest(x, y))
<1>1. /\ Len(x.of) \in Nat /\ Len(y.of) \in Nat /\ x.of \in Seq(Chars) /\ y.of \in Seq(Chars)
      /\ x \in [at : Nat, of : Seq(Chars)] /\ y \in [at : Nat, of : Seq(Chars)]
  BY PrefixFacts DEF CStrings
<1>2. Longest(x, y) \in Nat /\ Len(x.of) <= Longest(x, y) /\ Len(y.of) <= Longest(x, y)
  <2>1. PICK m \in Nat, n \in Nat : m = Len(x.of) /\ n = Len(y.of)
    BY <1>1
  <2>2. Longest(x, y) = Max({m, n})
    BY <2>1 DEF Longest
  <2>3. Max({m, n}) = IF m <= n THEN n ELSE m
    BY ExtremesOfTwo
  <2>4. QED
    BY <2>1, <2>2, <2>3
<1>3. /\ p.at = x.at /\ p.of \in Seq(Chars) /\ Len(p.of) = Len(x.of)
      /\ \A i \in 1 .. Len(p.of) : p.of[i] = x.of[i]
  BY <1>1, <1>2, PrefixFacts
<1>4. /\ q.at = y.at /\ q.of \in Seq(Chars) /\ Len(q.of) = Len(y.of)
      /\ \A i \in 1 .. Len(q.of) : q.of[i] = y.of[i]
  BY <1>1, <1>2, PrefixFacts
<1> HIDE DEF p, q
<1>5. p.of = x.of /\ q.of = y.of
  BY <1>1, <1>3, <1>4, SeqEqual
<1>6. SameString(p, q) <=> SameString(x, y)
  BY <1>3, <1>4, <1>5 DEF SameString
<1>7. QED
  BY <1>2, <1>6, StringsDifferMeans DEF p, q

LEMMA StringVerdict ==
  ASSUME NEW macro \in StringMacros, NEW a, Typed(macro, a)
  PROVE  UnityAssert(macro, a) = <<>> <=> Holds(macro, a)
<1> USE DEF StringMacros
<1>1. a.expected \in CStrings /\ a.actual \in CStrings
  BY DEF Typed
<1>2. CASE macro = "EQUAL_STRING"
  <2>1. UnityAssert(macro, a) = UnityAssertEqualString(a.expected, a.actual)
    BY <1>2 DEF UnityAssert, ByteReport, IntegerMacros, ArrayMacros, FloatMacros,
           FloatArrayMacros, TraitMacros
  <2>2. UnityAssert(macro, a) = <<>>
          <=> ~StringsDiffer(a.expected, a.actual, Longest(a.expected, a.actual))
    BY <2>1, ReportsAreSomething DEF UnityAssertEqualString, StringReport
  <2>3. Holds(macro, a) <=> SameString(a.expected, a.actual)
    BY <1>2 DEF Holds, TraitMacros, Walked, ArrayMacros, FloatArrayMacros, StringArrayMacros,
           MemoryMacros
  <2>4. QED
    BY <1>1, <2>2, <2>3, WholeStringsDiffer
<1>3. CASE macro = "EQUAL_STRING_LEN"
  <2>1. UnityAssert(macro, a) = UnityAssertEqualStringLen(a.expected, a.actual, a.length)
    BY <1>3 DEF UnityAssert, ByteReport, IntegerMacros, ArrayMacros, FloatMacros,
           FloatArrayMacros, TraitMacros
  <2>2. UnityAssert(macro, a) = <<>> <=> ~StringsDiffer(a.expected, a.actual, a.length)
    BY <2>1, ReportsAreSomething DEF UnityAssertEqualStringLen, StringReport
  <2>3. Holds(macro, a) <=> SameString(Prefix(a.expected, a.length), Prefix(a.actual, a.length))
    BY <1>3 DEF Holds, TraitMacros, Walked, ArrayMacros, FloatArrayMacros, StringArrayMacros,
           MemoryMacros
  <2>4. a.length \in Nat
    BY <1>3, CountsAreNaturals DEF Typed
  <2>5. QED
    BY <1>1, <2>2, <2>3, <2>4, StringsDifferMeans
<1>4. QED
  BY <1>2, <1>3

LEMMA StringWalk ==
  ASSUME NEW e, NEW a, NEW n, NEW flags
  PROVE  UnityAssertEqualStringArray(e, a, n, flags) = <<>>
           <=> /\ n # 0
               /\ \/ e.at = a.at
                  \/ /\ e.at # 0 /\ a.at # 0
                     /\ \A j \in 1 .. n :
                          LET x == IF flags = "ARRAY_TO_ARRAY" THEN e.of[j] ELSE e
                          IN  ~StringsDiffer(x, a.of[j], Longest(x, a.of[j]))
<1> DEFINE E(j) == IF flags = "ARRAY_TO_ARRAY" THEN e.of[j] ELSE e
           bad == {j \in 1 .. n : StringsDiffer(E(j), a.of[j], Longest(E(j), a.of[j]))}
           k == Min(bad)
           walk == IF bad = {} THEN <<>>
                   ELSE StringReport(IF n > 1 THEN Element(k) ELSE <<>>, E(k), a.of[k],
                                     Longest(E(k), a.of[k]))
<1>1. UnityAssertEqualStringArray(e, a, n, flags) = ArrayReport(e, a, n, walk)
  BY DEF UnityAssertEqualStringArray, Walk
<1>2. walk = <<>> <=> \A j \in 1 .. n : ~StringsDiffer(E(j), a.of[j], Longest(E(j), a.of[j]))
  BY ReportsAreSomething DEF StringReport
<1> HIDE DEF walk
<1>3. QED
  BY <1>1, <1>2, ArrayVerdict

LEMMA StringArrayVerdict ==
  ASSUME NEW macro \in StringArrayMacros, NEW a, Typed(macro, a)
  PROVE  UnityAssert(macro, a) = <<>> <=> Holds(macro, a)
<1> USE DEF StringArrayMacros
<1> DEFINE n == a.num_elements
           flags == IF macro = "EQUAL_STRING_ARRAY" THEN "ARRAY_TO_ARRAY" ELSE "ARRAY_TO_VAL"
           E(j) == IF macro = "EQUAL_STRING_ARRAY" THEN a.expected.of[j] ELSE a.expected
           A(j) == a.actual.of[j]
<1>1. /\ n \in Nat /\ IsArray(a.actual, n, CStrings) /\ macro \in Walked
      /\ macro = "EQUAL_STRING_ARRAY" => IsArray(a.expected, n, CStrings)
      /\ macro = "EACH_EQUAL_STRING" => a.expected \in CStrings
  BY CountsAreNaturals DEF Typed, Walked
<1>2. UnityAssert(macro, a) = UnityAssertEqualStringArray(a.expected, a.actual, n, flags)
  BY DEF UnityAssert, ByteReport, IntegerMacros, ArrayMacros, FloatMacros,
         FloatArrayMacros, TraitMacros
<1>3. UnityAssert(macro, a) = <<>>
        <=> /\ n # 0
            /\ \/ a.expected.at = a.actual.at
               \/ /\ a.expected.at # 0 /\ a.actual.at # 0
                  /\ \A j \in 1 .. n : ~StringsDiffer(E(j), A(j), Longest(E(j), A(j)))
  BY <1>2, StringWalk
<1>4. /\ Count(macro, a) = n /\ ByPointer(macro)
      /\ Holds(macro, a) <=> ArraysAgree(macro, a)
      /\ Mismatches(macro, a) = {k \in 1 .. n : ~SameString(ExpectedAt(macro, a, k), A(k))}
      /\ \A k : ExpectedAt(macro, a, k) = E(k)
  <2>1. /\ Count(macro, a) = n /\ ByPointer(macro)
        /\ Holds(macro, a) <=> ArraysAgree(macro, a)
    BY <1>1, HoldsForArrays DEF Count, MemoryMacros, ByPointer
  <2>2. Mismatches(macro, a) = {k \in 1 .. n : ~SameString(ExpectedAt(macro, a, k), A(k))}
    BY <2>1 DEF Mismatches, AgreesAt, MemoryMacros, ArrayMacros, FloatArrayMacros
  <2>3. \A k : ExpectedAt(macro, a, k) = E(k)
    BY DEF ExpectedAt
  <2>4. QED
    BY <2>1, <2>2, <2>3
<1>5. ASSUME a.expected.at # 0, a.actual.at # 0
      PROVE  Mismatches(macro, a) = {}
               <=> \A j \in 1 .. n : ~StringsDiffer(E(j), A(j), Longest(E(j), A(j)))
  <2>1. \A j \in 1 .. n : A(j) \in CStrings
    BY <1>1, <1>5, ElementsOf
  <2>2. \A j \in 1 .. n : E(j) \in CStrings
    BY <1>1, <1>5, ElementsOf
  <2> HIDE DEF E, A
  <2>3. \A j \in 1 .. n : StringsDiffer(E(j), A(j), Longest(E(j), A(j)))
                            <=> ~SameString(E(j), A(j))
    BY <2>1, <2>2, WholeStringsDiffer
  <2>4. QED
    BY <1>4, <2>3
<1>6. QED
  BY <1>1, <1>3, <1>4, <1>5 DEF ArraysAgree

-----------------------------------------------------------------------------
(* The verdicts on memory.                                                 *)

LEMMA MemoryVerdict ==
  ASSUME NEW macro \in MemoryMacros, NEW a, Typed(macro, a)
  PROVE  UnityAssert(macro, a) = <<>> <=> Holds(macro, a)
<1> USE DEF MemoryMacros
<1> DEFINE n == a.num_elements * a.length
           E(k) == a.expected.of[IF macro = "EQUAL_MEMORY_ARRAY" THEN k
                                 ELSE 1 + ((k - 1) % a.length)]
           A(k) == a.actual.of[k]
           bad == {k \in 1 .. n : E(k) # A(k)}
           k0 == Min(bad)
           walk == IF bad = {} THEN <<>>
                   ELSE Report("Memory",
                               (IF a.num_elements > 1
                                THEN Element(1 + ((k0 - 1) \div a.length)) ELSE <<>>)
                                 \o Element(1 + ((k0 - 1) % a.length)),
                               UnityPrintNumberByStyle(E(k0), HEX8),
                               UnityPrintNumberByStyle(A(k0), HEX8))
<1>1. a.num_elements \in Nat /\ a.length \in Nat /\ macro \in Walked
  BY CountsAreNaturals DEF Typed, Walked
<1>2. n \in Nat
  BY <1>1
<1>3. UnityAssert(macro, a) = ArrayReport(a.expected, a.actual, n, walk)
  <2>1. UnityAssert(macro, a)
          = UnityAssertEqualMemory(a.expected, a.actual, a.length, a.num_elements,
              IF macro = "EQUAL_MEMORY_ARRAY" THEN "ARRAY_TO_ARRAY" ELSE "ARRAY_TO_VAL")
    BY DEF UnityAssert, ByteReport, IntegerMacros, ArrayMacros, FloatMacros,
           FloatArrayMacros, TraitMacros
  <2>2. CASE macro = "EQUAL_MEMORY_ARRAY"
    BY <2>1, <2>2 DEF UnityAssertEqualMemory, Walk
  <2>3. CASE macro = "EACH_EQUAL_MEMORY"
    BY <2>1, <2>3 DEF UnityAssertEqualMemory, Walk
  <2>4. QED
    BY <2>2, <2>3
<1>4. walk = <<>> <=> bad = {}
  BY ReportsAreSomething
<1>5. /\ Count(macro, a) = n /\ ByPointer(macro)
      /\ Holds(macro, a) <=> ArraysAgree(macro, a)
  BY <1>1, HoldsForArrays DEF Count, ByPointer
<1>6. Mismatches(macro, a) = bad
  <2>1. Mismatches(macro, a) = {k \in 1 .. n : ~(ExpectedAt(macro, a, k) = A(k))}
    BY <1>5 DEF Mismatches, AgreesAt, StringArrayMacros, ArrayMacros, FloatArrayMacros
  <2>2. \A k : ExpectedAt(macro, a, k) = E(k)
    BY DEF ExpectedAt
  <2> HIDE DEF E, A
  <2>3. QED
    BY <2>1, <2>2
<1> HIDE DEF n, walk, bad
<1>7. QED
  BY <1>2, <1>3, <1>4, <1>5, <1>6, ArrayVerdict DEF ArraysAgree

-----------------------------------------------------------------------------
(* The verdicts of all the macros.                                         *)

LEMMA IntegerVerdict ==
  ASSUME NEW macro \in IntegerMacros, NEW a, Typed(macro, a)
  PROVE  UnityAssert(macro, a) = <<>> <=> Holds(macro, a)
<1> USE DEF IntegerMacros
<1>1. /\ a.style \in Styles /\ a.expected \in Int /\ a.actual \in Int
      /\ macro = "ORDER" => a.compare \in Comparisons
      /\ macro = "WITHIN" => a.delta \in 0 .. 2^Bits(a.style.cast) - 1
  BY DEF Typed
<1>2. UnityAssert(macro, a) = IntegerReport(macro, a)
  BY DEF UnityAssert, ArrayMacros, FloatMacros, FloatArrayMacros, TraitMacros
<1> DEFINE v == Value(a.expected, a.style, a.style.cast)
           w == Value(a.actual, a.style, a.style.cast)
<1>3. /\ macro = "EQUAL"  => (Holds(macro, a) <=> v = w)
      /\ macro = "ORDER"  => (Holds(macro, a) <=> Compares(v, w, a.compare))
      /\ macro = "WITHIN" => (Holds(macro, a) <=> Magnitude(v - w) <= a.delta)
  BY DEF Holds, TraitMacros, Walked, ArrayMacros, FloatArrayMacros, StringArrayMacros,
         MemoryMacros
<1>4. CASE macro = "EQUAL"
  BY <1>1, <1>2, <1>3, <1>4, EqualVerdict DEF IntegerReport
<1>5. CASE macro = "ORDER"
  BY <1>1, <1>2, <1>3, <1>5, OrderVerdict DEF IntegerReport
<1>6. CASE macro = "WITHIN"
  BY <1>1, <1>2, <1>3, <1>6, WithinVerdict DEF IntegerReport
<1>7. QED
  BY <1>4, <1>5, <1>6

(* An assertion lets the test go on exactly when its claim is true.        *)
LEMMA Verdict ==
  ASSUME NEW macro \in Macros, NEW a, Typed(macro, a), OneSided(macro, a)
  PROVE  UnityAssert(macro, a) = <<>> <=> Holds(macro, a)
<1> USE DEF IntegerMacros, FloatMacros, TraitMacros, Walked, ArrayMacros, FloatArrayMacros,
            StringArrayMacros, MemoryMacros
<1>1. CASE macro = "TRUE"
  <2>1. UnityAssert(macro, a) = IF a.condition THEN <<>> ELSE Says("Condition")
    BY <1>1 DEF UnityAssert
  <2>2. Holds(macro, a) <=> a.condition
    BY <1>1 DEF Holds
  <2>3. QED
    BY <2>1, <2>2, ReportsAreSomething
<1>2. CASE macro = "BITS"
  <2>1. a.mask \in Int /\ a.expected \in Int /\ a.actual \in Int
    BY <1>2 DEF Typed
  <2>2. UnityAssert(macro, a)
          = UnityAssertBits(UNITY_INT(a.mask), UNITY_INT(a.expected), UNITY_INT(a.actual))
    BY <1>2 DEF UnityAssert
  <2>3. QED
    BY <1>2, <2>1, <2>2, BitsVerdict
<1>3. CASE macro \in IntegerMacros
  BY <1>3, IntegerVerdict
<1>4. CASE macro \in ArrayMacros
  BY <1>4, EqualArrayVerdict, EachEqualVerdict, ArrayWithinVerdict DEF OneSided
<1>5. CASE macro \in FloatMacros
  BY <1>5, FloatVerdict
<1>6. CASE macro \in FloatArrayMacros
  BY <1>6, FloatArrayVerdict
<1>7. CASE macro \in TraitMacros
  BY <1>7, TraitVerdict
<1>8. CASE macro \in StringMacros
  BY <1>8, StringVerdict
<1>9. CASE macro \in StringArrayMacros
  BY <1>9, StringArrayVerdict
<1>10. CASE macro \in MemoryMacros
  BY <1>10, MemoryVerdict
<1>11. QED
  BY <1>1, <1>2, <1>3, <1>4, <1>5, <1>6, <1>7, <1>8, <1>9, <1>10 DEF Macros

-----------------------------------------------------------------------------
(* The text of a number, and what it reads as.                             *)

(* The divisors are those that the loop computes.                          *)
LEMMA DivisorGrows ==
  /\ DOMAIN Divisor = 0 .. Bits(LongSize) \div 3
  /\ Divisor[0] = 1
  /\ \A k \in DOMAIN Divisor : k > 0 => Divisor[k] = 10 * Divisor[k - 1]
<1> DEFINE N == Bits(LongSize) \div 3
           Computes(f, n) == /\ f \in [0 .. n -> Nat] /\ f[0] = 1
                             /\ \A k \in 1 .. n : f[k] = 10 * f[k - 1]
           T == {n \in Nat : \E f : Computes(f, n)}
<1>1. Bits(LongSize) \in Nat
  BY WidthFacts, SizesOrdered
<1>2. N \in Nat
  <2>1. PICK b \in Nat : b = Bits(LongSize)
    BY <1>1
  <2>2. b \div 3 \in Nat
    BY SMT
  <2>3. QED
    BY <2>1, <2>2
<1>3. 0 \in T
  <2>1. Computes([k \in 0 .. 0 |-> 1], 0)
    OBVIOUS
  <2>2. QED
    BY <2>1
<1>4. ASSUME NEW n \in T
      PROVE  n + 1 \in T
  <2>1. PICK f : Computes(f, n)
    OBVIOUS
  <2> DEFINE g == [k \in 0 .. n + 1 |-> IF k = n + 1 THEN 10 * f[n] ELSE f[k]]
  <2>2. g \in [0 .. n + 1 -> Nat] /\ g[0] = 1
    BY <2>1
  <2>3. ASSUME NEW k \in 1 .. n + 1
        PROVE  g[k] = 10 * g[k - 1]
    <3>1. k - 1 \in 0 .. n + 1 /\ k - 1 # n + 1 /\ g[k - 1] = f[k - 1]
      OBVIOUS
    <3>2. CASE k = n + 1
      BY <3>1, <3>2
    <3>3. CASE k # n + 1
      BY <2>1, <3>1, <3>3
    <3>4. QED
      BY <3>2, <3>3
  <2> HIDE DEF g
  <2>4. Computes(g, n + 1) /\ n + 1 \in Nat
    BY <2>2, <2>3
  <2>5. QED
    BY <2>4
<1> HIDE DEF T
<1>5. T = Nat
  <2>1. T \subseteq Nat
    BY DEF T
  <2>2. QED
    BY <1>3, <1>4, <2>1, SetInduction
<1> HIDE DEF N
<1>6. PICK f : Computes(f, N)
  BY <1>2, <1>5 DEF T
<1> DEFINE F(d) == [k \in 0 .. N |-> IF k = 0 THEN 1 ELSE 10 * d[k - 1]]
<1>7. f = F(f)
  BY <1>2, <1>6
<1>8. Divisor = CHOOSE d : d = F(d)
  BY DEF Divisor, N
<1> HIDE DEF F
<1>9. Divisor = F(Divisor)
  BY <1>7, <1>8
<1>10. DOMAIN Divisor = 0 .. N /\ \A k \in 0 .. N : Divisor[k] = F(Divisor)[k]
  BY <1>9 DEF F
<1>11. \A k \in 0 .. N : Divisor[k] = IF k = 0 THEN 1 ELSE 10 * Divisor[k - 1]
  BY <1>10 DEF F
<1>12. 0 \in 0 .. N /\ \A k \in 0 .. N : k > 0 => k # 0
  BY <1>2
<1>13. QED
  BY <1>10, <1>11, <1>12 DEF N

LEMMA DivisorDomain == \E n \in Nat : DOMAIN Divisor = 0 .. n
<1>1. PICK b \in Nat : b = Bits(LongSize)
  BY WidthFacts, SizesOrdered
<1>2. b \div 3 \in Nat
  BY SMT
<1>3. QED
  BY <1>1, <1>2, DivisorGrows

LEMMA DivisorsPositive == \A k \in DOMAIN Divisor : Divisor[k] \in Nat \ {0}
<1> DEFINE T == {k \in Nat : k \in DOMAIN Divisor => Divisor[k] \in Nat \ {0}}
<1>1. PICK N \in Nat : DOMAIN Divisor = 0 .. N
  BY DivisorDomain
<1>2. 0 \in T
  BY DivisorGrows
<1>3. ASSUME NEW k \in T
      PROVE  k + 1 \in T
  <2>1. CASE k + 1 \in DOMAIN Divisor
    <3>1. k \in DOMAIN Divisor /\ (k + 1) - 1 = k /\ k + 1 > 0
      BY <1>1, <2>1
    <3>2. Divisor[k + 1] = 10 * Divisor[k]
      BY <2>1, <3>1, DivisorGrows
    <3>3. QED
      BY <3>1, <3>2
  <2>2. QED
    BY <2>1
<1> HIDE DEF T
<1>4. T = Nat
  <2>1. T \subseteq Nat
    BY DEF T
  <2>2. QED
    BY <1>2, <1>3, <2>1, SetInduction
<1>5. QED
  BY <1>1, <1>4 DEF T

(* A digit is found again in the list of digits.                           *)
LEMMA DigitFound == \A i \in 1 .. 16 : (CHOOSE d \in 1 .. 16 : Digit[d] = Digit[i]) = i
<1>1. \A i, j \in 1 .. 16 : Digit[i] = Digit[j] => i = j
  <2>1. \A i \in 1 .. 16 : \/ i = 1 \/ i = 2 \/ i = 3 \/ i = 4 \/ i = 5 \/ i = 6 \/ i = 7 \/ i = 8
                           \/ i = 9 \/ i = 10 \/ i = 11 \/ i = 12 \/ i = 13 \/ i = 14 \/ i = 15
                           \/ i = 16
    OBVIOUS
  <2>2. /\ Digit[1] = "0" /\ Digit[2] = "1" /\ Digit[3] = "2" /\ Digit[4] = "3"
        /\ Digit[5] = "4" /\ Digit[6] = "5" /\ Digit[7] = "6" /\ Digit[8] = "7"
        /\ Digit[9] = "8" /\ Digit[10] = "9" /\ Digit[11] = "A" /\ Digit[12] = "B"
        /\ Digit[13] = "C" /\ Digit[14] = "D" /\ Digit[15] = "E" /\ Digit[16] = "F"
    BY DEF Digit
  <2>3. QED
    BY <2>1, <2>2
<1>2. ASSUME NEW i \in 1 .. 16
      PROVE  (CHOOSE d \in 1 .. 16 : Digit[d] = Digit[i]) = i
  <2> DEFINE c == CHOOSE d \in 1 .. 16 : Digit[d] = Digit[i]
  <2>1. c \in 1 .. 16 /\ Digit[c] = Digit[i]
    OBVIOUS
  <2> HIDE DEF c
  <2>2. c = i
    BY <1>1, <2>1
  <2>3. QED
    BY <2>2 DEF c
<1>3. QED
  BY <1>2

(* A text of digits, one for each of d.                                    *)
LEMMA DigitTexts ==
  ASSUME NEW n \in Nat, NEW d \in [1 .. n -> 0 .. 15]
  PROVE  [i \in 1 .. n |-> Digit[1 + d[i]]] \in Seq({Digit[c] : c \in 1 .. 16})
<1>1. ASSUME NEW i \in 1 .. n
      PROVE  Digit[1 + d[i]] \in {Digit[c] : c \in 1 .. 16}
  <2>1. PICK c \in 0 .. 15 : c = d[i]
    OBVIOUS
  <2>2. 1 + c \in 1 .. 16
    OBVIOUS
  <2>3. QED
    BY <2>1, <2>2
<1> DEFINE text == [i \in 1 .. n |-> Digit[1 + d[i]]]
           printed == {Digit[c] : c \in 1 .. 16}
<1>2. text \in [1 .. n -> printed]
  BY <1>1, Zenon
<1>3. \A S : [1 .. n -> S] \subseteq Seq(S)
  BY SMTT(20)
<1> HIDE DEF text, printed
<1>4. text \in Seq(printed)
  BY <1>2, <1>3
<1>5. QED
  BY <1>4 DEF text, printed

(* A text reads as what its digits sum up to in the base.                  *)
LEMMA NumeralSums ==
  ASSUME NEW n \in Nat, NEW d \in [1 .. n -> 0 .. 15], NEW base \in Nat,
         NEW f \in [0 .. n -> Int], f[0] = 0,
         \A i \in 1 .. n : f[i] = base * f[i - 1] + d[i]
  PROVE  Numeral([i \in 1 .. n |-> Digit[1 + d[i]]], base) = f[n]
<1> DEFINE text == [i \in 1 .. n |-> Digit[1 + d[i]]]
           digit(i) == (CHOOSE c \in 1 .. 16 : Digit[c] = text[i])
           F(v) == [i \in 0 .. n |-> IF i = 0 THEN 0 ELSE base * v[i - 1] + digit(i) - 1]
           value == CHOOSE v : v = F(v)
<1>1. Len(text) = n
  OBVIOUS
<1>2. ASSUME NEW i \in 1 .. n
      PROVE  digit(i) = 1 + d[i]
  <2>1. PICK j \in 1 .. 16 : j = 1 + d[i]
    <3>1. PICK c \in 0 .. 15 : c = d[i]
      OBVIOUS
    <3>2. 1 + c \in 1 .. 16
      OBVIOUS
    <3>3. QED
      BY <3>1, <3>2
  <2>2. text[i] = Digit[j]
    BY <2>1
  <2>3. QED
    BY <2>1, <2>2, DigitFound
<1>3. Numeral(text, base) = value[n]
  BY <1>1 DEF Numeral
<1> HIDE DEF digit, text
<1>4. \A i \in 1 .. n : f[i] = base * f[i - 1] + digit(i) - 1
  <2> TAKE i \in 1 .. n
  <2>1. PICK x \in Int, c \in 0 .. 15 : x = f[i - 1] /\ c = d[i]
    <3>1. i - 1 \in 0 .. n /\ d[i] \in 0 .. 15
      OBVIOUS
    <3>2. f[i - 1] \in Int
      BY <3>1
    <3>3. QED
      BY <3>1, <3>2
  <2>2. PICK y \in Int : y = base * x
    BY SMT
  <2>3. f[i] = y + c /\ digit(i) = 1 + c /\ base * f[i - 1] = y
    BY <1>2, <2>1, <2>2
  <2>4. y + c = y + (1 + c) - 1
    OBVIOUS
  <2>5. QED
    BY <2>3, <2>4
<1>5. f = F(f)
  BY <1>4
<1> HIDE DEF F
<1>6. value = F(value)
  BY <1>5
<1> HIDE DEF value
<1>7. value[0] = 0 /\ \A i \in 1 .. n : value[i] = base * value[i - 1] + digit(i) - 1
  <2>1. \A i \in 0 .. n : value[i] = IF i = 0 THEN 0 ELSE base * value[i - 1] + digit(i) - 1
    BY <1>6 DEF F
  <2>2. QED
    BY <2>1
<1> DEFINE T == {i \in Nat : i <= n => value[i] = f[i]}
<1>8. 0 \in T
  BY <1>7
<1>9. ASSUME NEW i \in T
      PROVE  i + 1 \in T
  <2>1. CASE i + 1 <= n
    <3>1. i + 1 \in 1 .. n /\ (i + 1) - 1 = i /\ i <= n
      BY <2>1
    <3>2. value[i + 1] = base * value[i] + digit(i + 1) - 1
      BY <1>7, <3>1
    <3>3. f[i + 1] = base * f[i] + digit(i + 1) - 1
      BY <1>4, <3>1
    <3>4. QED
      BY <3>1, <3>2, <3>3
  <2>2. QED
    BY <2>1
<1> HIDE DEF T
<1>10. T = Nat
  <2>1. T \subseteq Nat
    BY DEF T
  <2>2. QED
    BY <1>8, <1>9, <2>1, SetInduction
<1>11. QED
  BY <1>3, <1>10 DEF T, text

(* There is a divisor for every number of the widest type.                 *)
LEMMA DivisorsSuffice ==
  ASSUME NEW number \in 0 .. 2^Bits(LongSize) - 1
  PROVE  \E k \in DOMAIN Divisor : number \div Divisor[k] <= 9
<1>1. PICK b \in Nat : b = Bits(LongSize)
  BY WidthFacts, SizesOrdered
<1>2. PICK N \in Int, r \in 0 .. 2 : b = N * 3 + r /\ N = b \div 3
  BY QuotientAndRemainder
<1>3. N \in Nat /\ DOMAIN Divisor = 0 .. N
  <2>1. N \in Nat
    BY <1>2
  <2>2. QED
    BY <1>1, <1>2, <2>1, DivisorGrows
<1> DEFINE T == {k \in Nat : k <= N => Divisor[k] \in Nat /\ Divisor[k] >= 2^(3 * k)}
<1>4. 0 \in T
  BY DivisorGrows
<1>5. ASSUME NEW k \in T
      PROVE  k + 1 \in T
  <2>1. CASE k + 1 <= N
    <3>1. k \in 0 .. N /\ k + 1 \in 0 .. N /\ (k + 1) - 1 = k /\ k + 1 > 0
      BY <2>1
    <3>2. Divisor[k + 1] = 10 * Divisor[k] /\ Divisor[k] \in Nat /\ Divisor[k] >= 2^(3 * k)
      <4>1. k + 1 \in DOMAIN Divisor /\ k <= N
        BY <1>3, <3>1
      <4>2. Divisor[k + 1] = 10 * Divisor[(k + 1) - 1]
        BY <3>1, <4>1, DivisorGrows
      <4>3. QED
        BY <3>1, <4>1, <4>2
    <3>3. 2^(3 * k + 3) = 2^(3 * k) * 2^3 /\ 2^(3 * k) \in Nat
      BY PowersAdd, PowerOfTwo
    <3>4. 2^3 = 8 /\ 3 * k + 3 = 3 * (k + 1)
      BY SMT
    <3>5. QED
      BY <3>2, <3>3, <3>4
  <2>2. QED
    BY <2>1
<1> HIDE DEF T
<1>6. T = Nat
  <2>1. T \subseteq Nat
    BY DEF T
  <2>2. QED
    BY <1>4, <1>5, <2>1, SetInduction
<1>7. Divisor[N] \in Nat /\ Divisor[N] >= 2^(3 * N) /\ 2^(3 * N) \in Nat \ {0}
  BY <1>3, <1>6, PowerOfTwo DEF T
<1>8. 2^b <= 4 * 2^(3 * N)
  <2>1. 2^(3 * N + r) = 2^(3 * N) * 2^r /\ 3 * N + r = b
    BY <1>2, <1>3, PowersAdd
  <2>2. 2^r <= 4 /\ 2^r \in Nat
    <3>1. r = 0 \/ r = 1 \/ r = 2
      OBVIOUS
    <3>2. 2^0 = 1 /\ 2^1 = 2 /\ 2^2 = 4
      OBVIOUS
    <3>3. CASE r = 0
      BY <3>2, <3>3
    <3>4. CASE r = 1
      BY <3>2, <3>4
    <3>5. CASE r = 2
      BY <3>2, <3>5
    <3>6. QED
      BY <3>1, <3>3, <3>4, <3>5
  <2>3. \A x, y \in Nat : y <= 4 => x * y <= 4 * x
    BY SMT
  <2>4. 2^(3 * N) * 2^r <= 4 * 2^(3 * N)
    BY <1>7, <2>2, <2>3
  <2>5. QED
    BY <2>1, <2>4
<1>9. PICK D \in Nat \ {0} : D = Divisor[N] /\ number < 4 * D
  BY <1>1, <1>7, <1>8
<1>10. number \div D <= 9
  <2>1. PICK q \in Int, m \in 0 .. D - 1 : number = q * D + m /\ q = number \div D
    BY QuotientAndRemainder
  <2>2. q >= 4 => q * D >= 4 * D
    BY SMT
  <2>3. PICK p \in Int : p = q * D
    BY SMT
  <2>4. q < 4
    BY <1>9, <2>1, <2>2, <2>3
  <2>5. QED
    BY <2>1, <2>4
<1>11. QED
  BY <1>3, <1>9, <1>10

(* A printed number reads back as itself.                                  *)
LEMMA DecimalReads ==
  ASSUME NEW number \in 0 .. 2^Bits(LongSize) - 1
  PROVE  /\ UnityPrintNumberUnsigned(number) \in Seq({Digit[c] : c \in 1 .. 16})
         /\ Numeral(UnityPrintNumberUnsigned(number), 10) = number
<1> DEFINE K == {k \in DOMAIN Divisor : number \div Divisor[k] <= 9}
<1>1. PICK N \in Nat : DOMAIN Divisor = 0 .. N
  BY DivisorDomain
<1>2. Min(K) \in K
  <2>1. K \subseteq Nat /\ K # {}
    BY <1>1, DivisorsSuffice
  <2>2. QED
    BY <2>1, MinOfNaturals
<1>3. PICK k \in Nat : /\ k \in 0 .. N /\ number \div Divisor[k] <= 9
                       /\ UnityPrintNumberUnsigned(number) = Digits(number, k)
  <2>1. UnityPrintNumberUnsigned(number) = Digits(number, Min(K))
    BY DEF UnityPrintNumberUnsigned
  <2>2. PICK k \in K : k = Min(K)
    BY <1>2
  <2>3. k \in 0 .. N /\ k \in Nat /\ number \div Divisor[k] <= 9
    BY <1>1
  <2> HIDE DEF K
  <2>4. QED
    BY <2>1, <2>2, <2>3
<1> HIDE DEF K
<1>4. PICK m \in Nat : m = number
  OBVIOUS
<1>5. ASSUME NEW j \in 0 .. k
      PROVE  /\ j \in DOMAIN Divisor /\ Divisor[j] \in Nat \ {0}
             /\ j > 0 => Divisor[j] = 10 * Divisor[j - 1]
  <2>1. j \in DOMAIN Divisor
    BY <1>1, <1>3
  <2>2. QED
    BY <2>1, DivisorsPositive, DivisorGrows
<1> DEFINE d == [i \in 1 .. k + 1 |-> (m \div Divisor[k + 1 - i]) % 10]
           f == [i \in 0 .. k + 1 |-> IF i = 0 THEN 0 ELSE m \div Divisor[k + 1 - i]]
<1>6. ASSUME NEW j \in 0 .. k
      PROVE  /\ d[k + 1 - j] = (m \div Divisor[j]) % 10
             /\ f[k + 1 - j] = m \div Divisor[j]
  <2>1. k + 1 - j \in 1 .. k + 1 /\ k + 1 - (k + 1 - j) = j
    OBVIOUS
  <2>2. QED
    BY <2>1
<1>7. /\ f[0] = 0 /\ DOMAIN f = 0 .. k + 1 /\ DOMAIN d = 1 .. k + 1
      /\ f = [i \in 0 .. k + 1 |-> f[i]] /\ d = [i \in 1 .. k + 1 |-> d[i]]
      /\ Digits(m, k) = [i \in 1 .. k + 1 |-> Digit[1 + d[i]]]
  BY DEF Digits
<1> HIDE DEF d, f
<1>8. ASSUME NEW j \in 0 .. k
      PROVE  /\ d[k + 1 - j] \in 0 .. 15 /\ f[k + 1 - j] \in Int
             /\ f[k + 1 - j] = 10 * f[(k + 1 - j) - 1] + d[k + 1 - j]
  <2>1. PICK b \in Nat \ {0} : b = Divisor[j]
    BY <1>5
  <2>2. PICK q \in Int, r \in 0 .. 9 : /\ q = m \div b /\ r = (m \div b) % 10
                                       /\ q = 10 * (m \div (10 * b)) + r
    <3>1. PICK ten \in Nat \ {0} : ten = 10
      OBVIOUS
    <3>2. /\ m \div b \in Int /\ (m \div b) % ten \in 0 .. ten - 1
          /\ m \div b = ten * (m \div (ten * b)) + ((m \div b) % ten)
      <4>1. m \in Int
        OBVIOUS
      <4>2. QED
        BY <4>1, QuotientGrows, Zenon
    <3>3. QED
      BY <3>1, <3>2
  <2>3. d[k + 1 - j] = r /\ f[k + 1 - j] = q
    BY <1>6, <2>1, <2>2
  <2>4. q = 10 * f[(k + 1 - j) - 1] + r
    <3>1. CASE j = k
      <4>1. q <= 9 /\ q >= 0
        <5>1. m \div b <= 9
          BY <1>3, <1>4, <2>1, <3>1
        <5>2. m \div b >= 0
          BY SMT
        <5>3. QED
          BY <2>2, <5>1, <5>2
      <4>2. (0 * 10 + q) % 10 = q /\ 0 * 10 + q = q
        BY <4>1, DivisionUnique
      <4>3. q = r
        BY <2>2, <4>2
      <4>4. (k + 1 - j) - 1 = 0
        BY <3>1
      <4>5. QED
        BY <1>7, <4>3, <4>4
    <3>2. CASE j # k
      <4>1. j + 1 \in 0 .. k /\ j + 1 > 0 /\ (j + 1) - 1 = j /\ (k + 1 - j) - 1 = k + 1 - (j + 1)
        BY <3>2
      <4>2. Divisor[j + 1] = 10 * b
        BY <1>5, <2>1, <4>1
      <4>3. f[k + 1 - (j + 1)] = m \div (10 * b)
        BY <1>6, <4>1, <4>2
      <4>4. QED
        BY <2>2, <4>1, <4>3
    <3>3. QED
      BY <3>1, <3>2
  <2>5. r \in 0 .. 15
    OBVIOUS
  <2>6. QED
    BY <2>3, <2>4, <2>5
<1>9. ASSUME NEW i \in 1 .. k + 1
      PROVE  d[i] \in 0 .. 15 /\ f[i] \in Int /\ f[i] = 10 * f[i - 1] + d[i]
  <2>1. k + 1 - i \in 0 .. k /\ k + 1 - (k + 1 - i) = i
    OBVIOUS
  <2>2. QED
    BY <1>8, <2>1
<1>10. d \in [1 .. k + 1 -> 0 .. 15] /\ f \in [0 .. k + 1 -> Int] /\ k + 1 \in Nat
  <2>1. \A i \in 0 .. k + 1 : i = 0 \/ i \in 1 .. k + 1
    OBVIOUS
  <2>2. ASSUME NEW i \in 0 .. k + 1
        PROVE  f[i] \in Int
    <3>1. CASE i = 0
      BY <1>7, <3>1
    <3>2. CASE i \in 1 .. k + 1
      BY <1>9, <3>2
    <3>3. QED
      BY <2>1, <3>1, <3>2
  <2>3. \A i \in 1 .. k + 1 : d[i] \in 0 .. 15
    BY <1>9
  <2>4. f \in [0 .. k + 1 -> Int]
    BY <1>7, <2>2
  <2>5. d \in [1 .. k + 1 -> 0 .. 15]
    BY <1>7, <2>3
  <2>6. QED
    BY <2>4, <2>5
<1>11. f[k + 1] = m
  <2>1. 0 \in 0 .. k /\ k + 1 - 0 = k + 1
    OBVIOUS
  <2>2. f[k + 1] = m \div 1
    BY <1>6, <2>1, DivisorGrows
  <2>3. (m * 1 + 0) \div 1 = m /\ m * 1 + 0 = m
    BY DivisionUnique
  <2>4. QED
    BY <2>2, <2>3
<1>12. PICK n \in Nat : n = k + 1
  OBVIOUS
<1>13. Numeral([i \in 1 .. n |-> Digit[1 + d[i]]], 10) = f[n]
  <2>1. PICK ten \in Nat : ten = 10
    OBVIOUS
  <2>2. \A i \in 1 .. n : f[i] = ten * f[i - 1] + d[i]
    BY <1>9, <1>12, <2>1
  <2>3. d \in [1 .. n -> 0 .. 15] /\ f \in [0 .. n -> Int] /\ f[0] = 0
    BY <1>7, <1>10, <1>12
  <2>4. Numeral([i \in 1 .. n |-> Digit[1 + d[i]]], ten) = f[n]
    BY <2>2, <2>3, NumeralSums, Zenon
  <2>5. QED
    BY <2>1, <2>4
<1>14. [i \in 1 .. n |-> Digit[1 + d[i]]] \in Seq({Digit[c] : c \in 1 .. 16})
  BY <1>10, <1>12, DigitTexts
<1>15. QED
  BY <1>3, <1>4, <1>7, <1>11, <1>12, <1>13, <1>14

(* The places of the nibbles.                                              *)
LEMMA NibbleFacts ==
  /\ Nibble \in Nat /\ 2 * Nibble = ByteBits
  /\ 2^Nibble \in 1 .. 16
  /\ \A j \in Nat : /\ 2^(j * Nibble) \in Nat \ {0}
                    /\ 2^((j + 1) * Nibble) = 2^Nibble * 2^(j * Nibble)
<1>1. Nibble \in {1, 2, 3, 4} /\ 2 * Nibble = ByteBits
  BY SizesAssumption DEF Nibble
<1>2. 2^Nibble \in 1 .. 16
  <2>1. 2^1 = 2 /\ 2^2 = 4 /\ 2^3 = 8 /\ 2^4 = 16
    OBVIOUS
  <2>2. CASE Nibble = 1
    BY <2>1, <2>2
  <2>3. CASE Nibble = 2
    BY <2>1, <2>3
  <2>4. CASE Nibble = 3
    BY <2>1, <2>4
  <2>5. CASE Nibble = 4
    BY <2>1, <2>5
  <2>6. QED
    BY <1>1, <2>2, <2>3, <2>4, <2>5
<1>3. ASSUME NEW j \in Nat
      PROVE  /\ 2^(j * Nibble) \in Nat \ {0}
             /\ 2^((j + 1) * Nibble) = 2^Nibble * 2^(j * Nibble)
  <2>1. PICK x \in Nat : x = j * Nibble
    BY <1>1
  <2>2. (j + 1) * Nibble = Nibble + x
    BY <1>1, <2>1
  <2>3. 2^(Nibble + x) = 2^Nibble * 2^x /\ 2^x \in Nat \ {0}
    <3>1. Nibble \in Nat
      BY <1>1
    <3>2. QED
      BY <3>1, PowersAdd, PowerOfTwo
  <2>4. QED
    BY <2>1, <2>2, <2>3
<1>4. QED
  BY <1>1, <1>2, <1>3

(* Of a number printed in nibbles, as many as a type has, the value in the *)
(* unsigned type reads back.                                               *)
LEMMA HexReads ==
  ASSUME NEW number \in Nat, NEW size \in Sizes
  PROVE  /\ UnityPrintNumberHex(number, 2 * size) \in Seq({Digit[c] : c \in 1 .. 16})
         /\ Len(UnityPrintNumberHex(number, 2 * size)) = 2 * size
         /\ Numeral(UnityPrintNumberHex(number, 2 * size), 2^Nibble) = Unsigned(number, size)
<1>1. PICK base \in Nat \ {0} : base = 2^Nibble /\ base <= 16
  BY NibbleFacts
<1>2. PICK k \in Nat : k = 2 * size /\ k <= 2 * LongSize
  BY SizesOrdered
<1>3. Min({k, 2 * LongSize}) = k
  BY <1>2, SizesOrdered, ExtremesOfTwo
<1>4. PICK e : /\ e \in [0 .. k -> Nat \ {0}] /\ e = [j \in 0 .. k |-> 2^(j * Nibble)]
               /\ e[0] = 1 /\ \A j \in 1 .. k : e[j] = base * e[j - 1]
  <2> DEFINE e == [j \in 0 .. k |-> 2^(j * Nibble)]
  <2>1. \A j \in 0 .. k : e[j] \in Nat \ {0}
    BY NibbleFacts
  <2>2. e[0] = 1
    <3>1. 0 * Nibble = 0 /\ 2^0 = 1
      BY NibbleFacts
    <3>2. 2^(0 * Nibble) = 2^0
      BY <3>1, Zenon
    <3>3. e[0] = 2^(0 * Nibble)
      OBVIOUS
    <3>4. QED
      BY <3>1, <3>2, <3>3, Zenon
  <2>3. ASSUME NEW j \in 1 .. k
        PROVE  e[j] = base * e[j - 1]
    <3>1. j - 1 \in Nat /\ j - 1 \in 0 .. k /\ (j - 1) + 1 = j
      OBVIOUS
    <3>2. 2^(((j - 1) + 1) * Nibble) = 2^Nibble * 2^((j - 1) * Nibble)
      BY <3>1, NibbleFacts
    <3>3. QED
      BY <1>1, <3>1, <3>2
  <2>4. e \in [0 .. k -> Nat \ {0}]
    BY <2>1
  <2>5. QED
    BY <2>2, <2>3, <2>4
<1>5. e[k] = 2^Bits(size)
  <2>1. k * Nibble = Bits(size)
    BY <1>2, NibbleFacts, SizesOrdered DEF Bits
  <2>2. k \in 0 .. k
    OBVIOUS
  <2>3. QED
    BY <1>4, <2>1, <2>2
<1> DEFINE q == [i \in 0 .. k |-> number \div e[k - i]]
           d == [i \in 1 .. k |-> (number \div e[k - i]) % base]
           f == [i \in 0 .. k |-> q[i] - q[0] * e[i]]
<1>6. UnityPrintNumberHex(number, 2 * size) = [i \in 1 .. k |-> Digit[1 + d[i]]]
  <2> DEFINE digit(i) == Digit[1 + ((number \div 2^((k - i) * Nibble)) % 2^Nibble)]
  <2>1. UnityPrintNumberHex(number, 2 * size) = [i \in 1 .. k |-> digit(i)]
    BY <1>2, <1>3 DEF UnityPrintNumberHex
  <2>2. ASSUME NEW i \in 1 .. k
        PROVE  digit(i) = Digit[1 + d[i]]
    <3>1. k - i \in 0 .. k
      OBVIOUS
    <3>2. e[k - i] = 2^((k - i) * Nibble)
      BY <1>4, <3>1
    <3>3. QED
      BY <1>1, <3>2
  <2> HIDE DEF digit, d
  <2>3. QED
    BY <2>1, <2>2
<1>7. ASSUME NEW i \in 0 .. k
      PROVE  q[i] = number \div e[k - i] /\ q[i] \in Int /\ k - i \in 0 .. k
  <2>1. k - i \in 0 .. k
    OBVIOUS
  <2>2. PICK b \in Nat \ {0} : b = e[k - i]
    BY <1>4, <2>1
  <2>3. number \div b \in Int
    BY SMT
  <2>4. QED
    BY <2>1, <2>2, <2>3
<1>8. ASSUME NEW i \in 1 .. k
      PROVE  d[i] \in 0 .. 15 /\ q[i] = base * q[i - 1] + d[i]
  <2>1. k - i \in 0 .. k /\ i \in 0 .. k /\ i - 1 \in 0 .. k /\ k - (i - 1) \in 1 .. k
        /\ (k - (i - 1)) - 1 = k - i
    OBVIOUS
  <2>2. PICK b \in Nat \ {0} : b = e[k - i]
    BY <1>4, <2>1
  <2>3. e[k - (i - 1)] = base * b
    BY <1>4, <2>1, <2>2
  <2>4. /\ (number \div b) % base \in 0 .. base - 1
        /\ number \div b = base * (number \div (base * b)) + ((number \div b) % base)
    <3>1. number \in Int
      OBVIOUS
    <3>2. QED
      BY <3>1, QuotientGrows, Zenon
  <2>5. q[i] = number \div b /\ d[i] = (number \div b) % base /\ q[i - 1] = number \div (base * b)
    BY <2>1, <2>2, <2>3
  <2> HIDE DEF q, d
  <2>6. d[i] \in 0 .. base - 1
    BY <2>4, <2>5
  <2>7. d[i] \in 0 .. 15
    BY <1>1, <2>6
  <2>8. QED
    BY <2>4, <2>5, <2>7
<1>9. d \in [1 .. k -> 0 .. 15]
  <2>1. DOMAIN d = 1 .. k /\ d = [i \in 1 .. k |-> d[i]]
    OBVIOUS
  <2> HIDE DEF d, q
  <2>2. QED
    BY <1>8, <2>1
<1>10. PICK z \in Int : z = q[0]
  BY <1>7
<1>11. \A i \in 0 .. k : f[i] = q[i] - z * e[i]
  BY <1>10
<1>12. ASSUME NEW i \in 0 .. k
       PROVE  f[i] \in Int
  <2>1. PICK x \in Int, y \in Int : x = q[i] /\ y = e[i]
    <3>1. e[i] \in Nat \ {0} /\ q[i] \in Int
      BY <1>4, <1>7
    <3> HIDE DEF q
    <3>2. QED
      BY <3>1
  <2>2. x - z * y \in Int
    BY SMT
  <2>3. QED
    BY <1>11, <2>1, <2>2
<1>13. f \in [0 .. k -> Int]
  <2>1. DOMAIN f = 0 .. k /\ f = [i \in 0 .. k |-> f[i]]
    OBVIOUS
  <2> HIDE DEF f
  <2>2. QED
    BY <1>12, <2>1
<1> HIDE DEF q, d, f
<1>14. f[0] = 0
  <2>1. z - z * 1 = 0 /\ 0 \in 0 .. k
    OBVIOUS
  <2>2. QED
    BY <1>4, <1>10, <1>11, <2>1
<1>15. ASSUME NEW i \in 1 .. k
       PROVE  f[i] = base * f[i - 1] + d[i]
  <2>1. i \in 0 .. k /\ i - 1 \in 0 .. k
    OBVIOUS
  <2>2. PICK x \in Int, y \in Int, c \in Int : x = q[i - 1] /\ y = e[i - 1] /\ c = d[i]
    <3>1. e[i - 1] \in Nat \ {0}
      BY <1>4, <2>1
    <3>2. d[i] \in 0 .. 15 /\ q[i - 1] \in Int
      BY <1>7, <1>8, <2>1
    <3>3. QED
      BY <3>1, <3>2
  <2>3. q[i] = base * x + c /\ e[i] = base * y
    BY <1>4, <1>8, <2>2
  <2>4. (base * x + c) - z * (base * y) = base * (x - z * y) + c
    <3>1. z * (base * y) = base * (z * y)
      BY SMT
    <3>2. PICK v \in Int : v = z * y
      BY SMT
    <3>3. base * (x - v) = base * x - base * v
      BY SMT
    <3>4. PICK u \in Int, w \in Int : u = base * x /\ w = base * v
      BY SMT
    <3>5. QED
      BY <3>1, <3>2, <3>3, <3>4
  <2>5. QED
    BY <1>11, <2>1, <2>2, <2>3, <2>4
<1>16. Numeral([i \in 1 .. k |-> Digit[1 + d[i]]], base) = f[k]
  <2>1. \A i \in 1 .. k : f[i] = base * f[i - 1] + d[i]
    BY <1>15
  <2>2. base \in Nat
    OBVIOUS
  <2>3. QED
    BY <1>9, <1>13, <1>14, <2>1, <2>2, NumeralSums, Zenon
<1>17. f[k] = Unsigned(number, size)
  <2>1. PICK m \in Nat \ {0} : m = e[k] /\ m = 2^Bits(size)
    BY <1>4, <1>5
  <2>2. k \in 0 .. k /\ 0 \in 0 .. k /\ k - 0 = k /\ k - k = 0
    OBVIOUS
  <2>3. z = number \div m
    BY <1>7, <1>10, <2>1, <2>2
  <2>4. q[k] = number
    <3>1. q[k] = number \div 1
      BY <1>4, <1>7, <2>2
    <3>2. (number * 1 + 0) \div 1 = number /\ number * 1 + 0 = number
      BY DivisionUnique
    <3>3. QED
      BY <3>1, <3>2
  <2>5. PICK r \in 0 .. m - 1 : number = z * m + r /\ r = number % m
    BY <2>3, QuotientAndRemainder
  <2>6. f[k] = number - z * m
    BY <1>11, <2>1, <2>2, <2>4
  <2>7. PICK w \in Int : w = z * m
    BY SMT
  <2>8. number = w + r /\ f[k] = number - w
    BY <2>5, <2>6, <2>7, Zenon
  <2>9. QED
    BY <2>1, <2>5, <2>8 DEF Unsigned
<1>18. [i \in 1 .. k |-> Digit[1 + d[i]]] \in Seq({Digit[c] : c \in 1 .. 16})
  BY <1>9, DigitTexts
<1>19. Len([i \in 1 .. k |-> Digit[1 + d[i]]]) = k
  OBVIOUS
<1>20. QED
  BY <1>1, <1>2, <1>6, <1>16, <1>17, <1>18, <1>19

-----------------------------------------------------------------------------
(* The numbers of a report.                                                *)

(* What is printed for v shows n, the number that v stands for in a style. *)
LEMMA StyleShows ==
  ASSUME NEW style \in Styles, NEW v \in Int, NEW n,
         RangeInt(style) =>
           n = v /\ v \in -(2^(Bits(LongSize) - 1)) .. 2^(Bits(LongSize) - 1) - 1,
         style.range = "UINT" => n = UNITY_UINT(v),
         style.range = "HEX" => n = Unsigned(v, style.size)
  PROVE  Shows(UnityPrintNumberByStyle(v, style), n, style)
<1> DEFINE text == UnityPrintNumberByStyle(v, style)
           digits == {Digit[c] : c \in 1 .. 16}
           S == digits \cup {"-", "0", "x"}
<1>1. /\ style.size \in Sizes /\ LongSize \in Sizes /\ style.size <= LongSize
      /\ style.range \in {"INT", "UINT", "HEX", "CHAR"}
  BY StyleFacts, SizesOrdered
<1>2. PICK h \in Nat : h = 2^(Bits(LongSize) - 1) /\ 2^Bits(LongSize) = 2 * h /\ h > 0
  BY <1>1, WidthFacts
<1>3. UNITY_UINT(v) \in 0 .. 2^Bits(LongSize) - 1 /\ UNITY_UINT(v) \in Nat
  BY <1>1, <1>2, Conversions DEF UNITY_UINT
<1>4. digits \subseteq S /\ "-" \in S /\ "0" \in S /\ "x" \in S
  OBVIOUS
<1>5. \A t \in Seq(digits) : t \in Seq(S)
  BY <1>4, SeqMonotonic
<1> HIDE DEF digits, S
<1>6. CASE style.range = "CHAR"
  BY <1>6 DEF Shows, UnityPrintNumberByStyle, RangeInt
<1>7. CASE style.range = "UINT"
  <2>1. text = UnityPrintNumberUnsigned(n)
    BY <1>7 DEF UnityPrintNumberByStyle
  <2>2. Numeral(text, 10) = n
    BY <1>3, <1>7, <2>1, DecimalReads
  <2>3. QED
    BY <1>7, <2>2 DEF Shows
<1>8. CASE style.range = "HEX"
  <2>1. PICK u \in Nat : u = UNITY_UINT(v)
    BY <1>3
  <2>2. PICK t : t = UnityPrintNumberHex(u, 2 * style.size)
    OBVIOUS
  <2>3. text = <<"0", "x">> \o t
    <3>1. style.size * 2 = 2 * style.size
      BY <1>1, SizesOrdered
    <3>2. QED
      BY <1>8, <2>1, <2>2, <3>1, Zenon DEF UnityPrintNumberByStyle
  <2>4. t \in Seq(S) /\ Numeral(t, 2^Nibble) = Unsigned(u, style.size)
    BY <1>1, <1>5, <2>2, HexReads DEF digits
  <2>5. SubSeq(text, 3, Len(text)) = t
    BY <1>4, <2>3, <2>4, AfterSecond
  <2>6. Unsigned(u, style.size) = n
    BY <1>1, <1>8, <2>1, Narrowing DEF UNITY_UINT
  <2>7. QED
    BY <1>8, <2>4, <2>5, <2>6 DEF Shows
<1>9. CASE style.range = "INT"
  <2>1. n = v /\ v \in -h .. h - 1 /\ text = UnityPrintNumber(v)
    BY <1>2, <1>9 DEF RangeInt, UnityPrintNumberByStyle
  <2>2. CASE v >= 0
    <3>1. v \in 0 .. 2^Bits(LongSize) - 1 /\ text = UnityPrintNumberUnsigned(v)
      BY <1>2, <2>1, <2>2 DEF UnityPrintNumber
    <3>2. Numeral(text, 10) = v
      BY <3>1, DecimalReads
    <3>3. QED
      BY <1>9, <2>1, <2>2, <3>2 DEF Shows
  <2>3. CASE v < 0
    <3>1. PICK m \in Int : m = -v /\ m \in 0 .. 2^Bits(LongSize) - 1
      BY <1>2, <2>1, <2>3
    <3>2. UNITY_UINT(m) = m
      BY <1>1, <3>1, ConversionsKeep DEF UNITY_UINT
    <3>3. PICK t : t = UnityPrintNumberUnsigned(m)
      OBVIOUS
    <3>4. text = <<"-">> \o t
      BY <2>1, <2>3, <3>1, <3>2, <3>3 DEF UnityPrintNumber
    <3>5. t \in Seq(S) /\ Numeral(t, 10) = m
      BY <1>5, <3>1, <3>3, DecimalReads DEF digits
    <3>6. Head(text) = "-" /\ Tail(text) = t
      BY <1>4, <3>4, <3>5, AfterFirst
    <3>7. QED
      BY <1>9, <2>1, <2>3, <3>1, <3>5, <3>6 DEF Shows
  <2>4. QED
    BY <2>1, <2>2, <2>3
<1>10. QED
  BY <1>1, <1>6, <1>7, <1>8, <1>9

(* What the macros on numbers pass on stands for the number they compare.  *)
LEMMA CastsShow ==
  ASSUME NEW style \in Styles, NEW x \in Int
  PROVE  /\ Shows(UnityPrintNumberByStyle(EqualCast(x, style), style),
                  Value(x, style, style.cast), style)
         /\ Shows(UnityPrintNumberByStyle(OrderCast(x, style), style),
                  Value(x, style, style.cast), style)
<1>1. /\ style.size \in Sizes /\ style.cast \in Sizes /\ LongSize \in Sizes
      /\ style.cast <= LongSize /\ style.range \in {"INT", "UINT", "HEX", "CHAR"}
      /\ LongSize <= LongSize /\ style.cast <= style.cast
      /\ style.range = "HEX" => style.cast = style.size
  BY StyleFacts, SizesOrdered
<1>2. PICK s \in Int, u \in Int : s = Signed(x, style.cast) /\ u = Unsigned(x, style.cast)
  BY <1>1, ValueType
<1>3. s \in -(2^(Bits(LongSize) - 1)) .. 2^(Bits(LongSize) - 1) - 1
  BY <1>1, <1>2, SignedFits
<1>4. PICK w \in Int : /\ w = UNITY_INT(u) /\ UNITY_UINT(w) = u
                       /\ Unsigned(w, style.cast) = u
  <2>1. UNITY_INT(u) \in Int
    BY <1>1, ValueType DEF UNITY_INT
  <2>2. Unsigned(Signed(u, LongSize), LongSize) = Unsigned(u, LongSize)
    BY <1>1, Narrowing
  <2>3. Unsigned(u, LongSize) = u
    BY <1>1, <1>2, Widening
  <2>4. /\ Unsigned(Signed(u, LongSize), style.cast) = Unsigned(u, style.cast)
    BY <1>1, Narrowing
  <2>5. Unsigned(u, style.cast) = u
    BY <1>1, <1>2, Narrowing
  <2>6. QED
    BY <2>1, <2>2, <2>3, <2>4, <2>5 DEF UNITY_INT, UNITY_UINT
<1>5. CASE RangeInt(style)
  <2>1. EqualCast(x, style) = s /\ OrderCast(x, style) = s /\ Value(x, style, style.cast) = s
    BY <1>2, <1>5 DEF EqualCast, OrderCast, Value, RangeInt
  <2>2. style.range # "UINT" /\ style.range # "HEX"
    BY <1>5 DEF RangeInt
  <2>3. QED
    BY <1>3, <2>1, <2>2, StyleShows
<1>6. CASE style.range = "UINT"
  <2>1. EqualCast(x, style) = w /\ OrderCast(x, style) = w /\ Value(x, style, style.cast) = u
    BY <1>2, <1>4, <1>6 DEF EqualCast, OrderCast, Value, RangeInt
  <2>2. ~RangeInt(style) /\ style.range # "HEX"
    BY <1>6 DEF RangeInt
  <2>3. QED
    BY <1>4, <2>1, <2>2, StyleShows
<1>7. CASE style.range = "HEX"
  <2>1. EqualCast(x, style) = s /\ OrderCast(x, style) = w /\ Value(x, style, style.cast) = u
    BY <1>2, <1>4, <1>7 DEF EqualCast, OrderCast, Value, RangeInt
  <2>2. ~RangeInt(style) /\ style.range # "UINT" /\ style.cast = style.size
    BY <1>1, <1>7 DEF RangeInt
  <2>3. Unsigned(s, style.cast) = u
    BY <1>1, <1>2, Narrowing
  <2>4. QED
    BY <1>4, <2>1, <2>2, <2>3, StyleShows
<1>8. QED
  BY <1>1, <1>5, <1>6, <1>7 DEF RangeInt

(* What a report holds.                                                    *)
LEMMA ReportHolds ==
  ASSUME NEW says, NEW places, NEW expected, NEW was, NEW r,
         r = Report(says, places, expected, was)
  PROVE  /\ r[1].says = says /\ r[1].places = places
         /\ r[1].expected = expected /\ r[1].was = was
  BY DEF Report

LEMMA IntegerShown ==
  ASSUME NEW macro \in IntegerMacros, NEW a, Typed(macro, a), UnityAssert(macro, a) # <<>>
  PROVE  ReportShows(UnityAssert(macro, a)[1], macro, a)
<1>1. a.style \in Styles /\ a.expected \in Int /\ a.actual \in Int
  BY DEF Typed, IntegerMacros
<1>2. PICK style : style = a.style
  OBVIOUS
<1>3. PICK v, w : /\ v = Value(a.expected, style, style.cast)
                  /\ w = Value(a.actual, style, style.cast)
  OBVIOUS
<1>4. PICK p, q, e, o, d : /\ p = OrderCast(a.expected, style) /\ q = OrderCast(a.actual, style)
                           /\ e = EqualCast(a.expected, style) /\ o = EqualCast(a.actual, style)
                           /\ d = Unsigned(a.delta, style.cast)
  OBVIOUS
<1> DEFINE P(n) == UnityPrintNumberByStyle(n, style)
<1>5. /\ Shows(P(e), v, style) /\ Shows(P(o), w, style)
      /\ Shows(P(p), v, style) /\ Shows(P(q), w, style)
  BY <1>1, <1>2, <1>3, <1>4, CastsShow
<1> HIDE DEF P
<1>6. PICK r : r = UnityAssert(macro, a)
  OBVIOUS
<1>7. /\ macro = "EQUAL" => r = UnityAssertEqualNumber(e, o, style)
      /\ macro = "ORDER" => r = UnityAssertGreaterOrLessOrEqualNumber(p, q, a.compare, style)
      /\ macro = "WITHIN" => r = UnityAssertNumbersWithin(d, p, q, style)
  <2>1. r = IntegerReport(macro, a)
    BY <1>6 DEF UnityAssert, IntegerMacros, ArrayMacros, FloatMacros, FloatArrayMacros,
                TraitMacros
  <2>2. QED
    BY <1>2, <1>4, <2>1 DEF IntegerReport
<1>8. /\ macro = "EQUAL" => r = Report("Number", <<>>, P(e), P(o))
      /\ macro = "ORDER" => r = Report("Order", <<>>, P(q), P(p))
      /\ macro = "WITHIN" => r = Report("Delta", <<>>, P(p), P(q))
  BY <1>6, <1>7 DEF UnityAssertEqualNumber, UnityAssertGreaterOrLessOrEqualNumber,
                    UnityAssertNumbersWithin, P
<1>9. /\ macro = "EQUAL" => r[1].expected = P(e) /\ r[1].was = P(o)
      /\ macro = "ORDER" => r[1].expected = P(q) /\ r[1].was = P(p)
      /\ macro = "WITHIN" => r[1].expected = P(p) /\ r[1].was = P(q)
  BY <1>8, ReportHolds
<1>10. PICK f : f = r[1]
  OBVIOUS
<1>11. /\ macro \in {"EQUAL", "WITHIN"} => Shows2(f, v, w, style)
       /\ macro = "ORDER" => Shows2(f, w, v, style)
  BY <1>5, <1>9, <1>10 DEF IntegerMacros, Shows2
<1>12. /\ macro \in {"EQUAL", "WITHIN"} => (ReportShows(f, macro, a) <=> Shows2(f, v, w, style))
       /\ macro = "ORDER" => (ReportShows(f, macro, a) <=> Shows2(f, w, v, style))
  BY <1>2, <1>3 DEF ReportShows, StringMacros, Walked, ArrayMacros, FloatArrayMacros,
                    StringArrayMacros, MemoryMacros
<1>13. QED
  BY <1>6, <1>10, <1>11, <1>12 DEF IntegerMacros

-----------------------------------------------------------------------------
(* The place that a report names.                                          *)

LEMMA IndexReads ==
  ASSUME NEW n \in Counts, NEW i \in 0 .. n - 1
  PROVE  Numeral(UnityPrintNumberUnsigned(i), 10) = i
<1>1. /\ IntSize \in Sizes /\ LongSize \in Sizes /\ IntSize <= LongSize
  BY SizesOrdered
<1>2. PICK p \in Nat, q \in Nat, k \in Nat \ {0} : p = 2^Bits(IntSize) /\ q = 2^Bits(LongSize)
                                                   /\ q = k * p
  BY <1>1, WidthFacts, WidthsNest
<1>3. p <= q
  <2>1. k >= 1
    OBVIOUS
  <2>2. k * p >= 1 * p
    BY <1>2, <2>1
  <2>3. QED
    BY <1>2, <2>2
<1>4. i \in 0 .. 2^Bits(LongSize) - 1
  BY <1>2, <1>3, CountsAreNaturals DEF Counts
<1>5. QED
  BY <1>4, DecimalReads

(* The texts that name no place, one and two, and what they read as.       *)
LEMMA PlacesRead ==
  ASSUME NEW t, NEW u, NEW m, NEW n, Numeral(t, 10) = m, Numeral(u, 10) = n
  PROVE  LET read(places) == [i \in 1 .. Len(places) |-> Numeral(places[i], 10)]
         IN  read(<<>>) = <<>> /\ read(<<t>>) = <<m>> /\ read(<<t, u>>) = <<m, n>>
<1> DEFINE read(places) == [i \in 1 .. Len(places) |-> Numeral(places[i], 10)]
<1>1. read(<<>>) = <<>>
  OBVIOUS
<1>2. read(<<t>>) = <<m>>
  OBVIOUS
<1>3. read(<<t, u>>) = <<m, n>>
  <2>1. Len(<<t, u>>) = 2 /\ <<t, u>>[1] = t /\ <<t, u>>[2] = u
    OBVIOUS
  <2>2. \A i \in 1 .. 2 : i = 1 \/ i = 2
    OBVIOUS
  <2>3. QED
    BY <2>1, <2>2
<1>4. QED
  BY <1>1, <1>2, <1>3

(* An array of other things than bytes.                                    *)
LEMMA ElementNamed ==
  ASSUME NEW macro, macro \notin MemoryMacros, NEW a, a.num_elements \in Counts,
         NEW k \in 1 .. a.num_elements, NEW f,
         f.places = IF a.num_elements = 1 /\ macro \in StringArrayMacros
                    THEN <<>> ELSE Element(k)
  PROVE  Names(f, macro, a, k)
<1>1. k \in Nat /\ k - 1 \in 0 .. a.num_elements - 1 /\ (k - 1) \div 1 = k - 1
  BY CountsAreNaturals
<1>2. PICK t : t = UnityPrintNumberUnsigned(k - 1)
  OBVIOUS
<1>3. Numeral(t, 10) = k - 1
  BY <1>1, <1>2, IndexReads
<1> DEFINE read(places) == [i \in 1 .. Len(places) |-> Numeral(places[i], 10)]
<1>4. read(<<>>) = <<>> /\ read(<<t>>) = <<k - 1>>
  BY <1>3, PlacesRead
<1>5. Names(f, macro, a, k) <=>
        read(f.places) = (IF a.num_elements = 1 /\ macro \in StringArrayMacros
                          THEN <<>> ELSE <<k - 1>>) \o <<>>
  BY <1>1 DEF Names
<1>6. <<>> \o <<>> = <<>> /\ <<k - 1>> \o <<>> = <<k - 1>>
  OBVIOUS
<1> HIDE DEF read
<1>7. f.places = IF a.num_elements = 1 /\ macro \in StringArrayMacros THEN <<>> ELSE <<t>>
  BY <1>2 DEF Element
<1>8. QED
  BY <1>4, <1>5, <1>6, <1>7

(* What the report of a walk has to show.                                  *)
LEMMA WalkShows ==
  ASSUME NEW macro \in Walked, NEW a, NEW f, NEW k, k = Min(Mismatches(macro, a)),
         Names(f, macro, a, k),
         macro \in ArrayMacros =>
           Shows2(f, Value(ExpectedAt(macro, a, k), a.style, a.style.size),
                  Value(a.actual.of[k], a.style, a.style.size), a.style),
         macro \in StringArrayMacros => f.expected # f.was,
         macro \in MemoryMacros => Shows2(f, ExpectedAt(macro, a, k), a.actual.of[k], HEX8)
  PROVE  ReportShows(f, macro, a)
<1>1. /\ macro # "EQUAL" /\ macro # "WITHIN" /\ macro # "ORDER"
      /\ macro \notin StringMacros \cup {"BITS"}
  BY DEF Walked, ArrayMacros, FloatArrayMacros, StringArrayMacros, MemoryMacros, StringMacros
<1>2. QED
  BY <1>1 DEF ReportShows

(* A report that there was nothing to walk through shows nothing.          *)
LEMMA NoWalkShows ==
  ASSUME NEW macro \in Walked, NEW a, NEW f,
         f.says \in {"Pointless", "NullPointerForExpected", "NullPointerForActual"}
  PROVE  ReportShows(f, macro, a)
<1>1. /\ macro # "EQUAL" /\ macro # "WITHIN" /\ macro # "ORDER"
      /\ macro \notin StringMacros \cup {"BITS"}
  BY DEF Walked, ArrayMacros, FloatArrayMacros, StringArrayMacros, MemoryMacros, StringMacros
<1>2. QED
  BY <1>1 DEF ReportShows

(* The report of an assertion on arrays is that of the walk, or shows that *)
(* there was nothing to walk through.                                      *)
LEMMA ReportOfArrays ==
  ASSUME NEW expected, NEW actual, NEW n, NEW walk, NEW r,
         r = ArrayReport(expected, actual, n, walk), r # <<>>
  PROVE  \/ r[1].says \in {"Pointless", "NullPointerForExpected", "NullPointerForActual"}
         \/ /\ r = walk /\ n # 0
            /\ expected.at # actual.at /\ expected.at # 0 /\ actual.at # 0
<1>1. \A what : Says(what)[1].says = what
  <2>1. \A what, s : s = Says(what) => s[1].says = what
    BY ReportHolds DEF Says
  <2>2. QED
    BY <2>1
<1>2. CASE n = 0
  <2>1. r = Says("Pointless")
    BY <1>2 DEF ArrayReport, UnityPrintPointlessAndBail
  <2>2. QED
    BY <1>1, <2>1
<1>3. CASE n # 0
  <2>1. expected.at # actual.at
    BY <1>3 DEF ArrayReport
  <2>2. CASE expected.at = 0
    <3>1. r = Says("NullPointerForExpected")
      BY <1>3, <2>1, <2>2, ReportsAreSomething DEF ArrayReport, UnityIsOneArrayNull
    <3>2. QED
      BY <1>1, <3>1
  <2>3. CASE expected.at # 0 /\ actual.at = 0
    <3>1. r = Says("NullPointerForActual")
      BY <1>3, <2>1, <2>3, ReportsAreSomething DEF ArrayReport, UnityIsOneArrayNull
    <3>2. QED
      BY <1>1, <3>1
  <2>4. CASE expected.at # 0 /\ actual.at # 0
    BY <1>3, <2>1, <2>4 DEF ArrayReport, UnityIsOneArrayNull
  <2>5. QED
    BY <2>2, <2>3, <2>4
<1>4. QED
  BY <1>2, <1>3

-----------------------------------------------------------------------------
(* The reports of the assertions on arrays of integers.                    *)

(* What is printed for an element, read through a signed pointer.          *)
LEMMA ElementShows ==
  ASSUME NEW style \in Styles, NEW x \in Int,
         style.range = "UINT" /\ style.size = IntSize => Signed(x, IntSize) >= 0
  PROVE  Shows(Printed(Signed(x, style.size), style), Value(x, style, style.size), style)
<1>1. /\ style.size \in Sizes /\ LongSize \in Sizes
      /\ style.size <= LongSize /\ style.range \in {"INT", "UINT", "HEX", "CHAR"}
      /\ style.size <= style.size /\ Sizes = {1, IntSize, LongSize}
      /\ 1 < IntSize /\ IntSize < LongSize /\ IntSize \in Nat /\ LongSize \in Nat
  BY StyleFacts, SizesOrdered
<1>2. PICK size \in Sizes : size = style.size /\ size <= LongSize /\ size <= size
  BY <1>1
<1>3. PICK s \in Int, u \in Int : s = Signed(x, size) /\ u = Unsigned(x, size)
  BY ValueType
<1>4. Unsigned(s, size) = u
  BY <1>2, <1>3, Narrowing
<1>5. s \in -(2^(Bits(LongSize) - 1)) .. 2^(Bits(LongSize) - 1) - 1
  BY <1>1, <1>2, <1>3, SignedFits
<1>6. CASE RangeInt(style)
  <2>1. Printed(s, style) = UnityPrintNumberByStyle(s, style) /\ Value(x, style, size) = s
    BY <1>3, <1>6 DEF Printed, Value, RangeInt
  <2>2. style.range # "UINT" /\ style.range # "HEX"
    BY <1>6 DEF RangeInt
  <2>3. QED
    BY <1>2, <1>3, <1>5, <2>1, <2>2, StyleShows
<1>7. CASE style.range = "HEX"
  <2>1. Printed(s, style) = UnityPrintNumberByStyle(s, style) /\ Value(x, style, size) = u
    BY <1>3, <1>7 DEF Printed, Value, RangeInt
  <2>2. ~RangeInt(style) /\ style.range # "UINT"
    BY <1>7 DEF RangeInt
  <2>3. QED
    BY <1>2, <1>3, <1>4, <2>1, <2>2, StyleShows
<1>8. CASE style.range = "UINT"
  <2>1. ~RangeInt(style) /\ style.range # "HEX" /\ Value(x, style, size) = u
    BY <1>3, <1>8 DEF RangeInt, Value
  <2>2. PICK v \in Int : /\ v = IF size < IntSize THEN u ELSE s
                         /\ Printed(s, style) = UnityPrintNumberByStyle(v, style)
    BY <1>2, <1>3, <1>4, <1>8 DEF Printed
  <2>3. UNITY_UINT(u) = u
    BY <1>1, <1>2, <1>3, Widening DEF UNITY_UINT
  <2>4. UNITY_UINT(v) = u
    <3>1. CASE size < IntSize
      BY <2>2, <2>3, <3>1
    <3>2. CASE size = IntSize
      <4>1. s >= 0
        BY <1>2, <1>3, <1>8, <3>2
      <4>2. u = s
        BY <1>3, <4>1, UnsignedOfSigned
      <4>3. QED
        BY <1>1, <2>2, <2>3, <3>2, <4>2
    <3>3. CASE size = LongSize
      BY <1>1, <1>4, <2>2, <3>3 DEF UNITY_UINT
    <3>4. QED
      BY <1>1, <1>2, <3>1, <3>2, <3>3
  <2>5. QED
    BY <1>2, <1>3, <1>8, <2>1, <2>2, <2>4, StyleShows
<1>9. QED
  BY <1>1, <1>6, <1>7, <1>8 DEF RangeInt

LEMMA IntArrayShows ==
  ASSUME NEW macro \in ArrayMacros, NEW a, a.style \in Styles, a.num_elements \in Counts,
         NEW k \in 1 .. a.num_elements, k = Min(Mismatches(macro, a)),
         NEW x \in Int, x = ExpectedAt(macro, a, k),
         NEW y \in Int, y = a.actual.of[k],
         a.style.range = "UINT" /\ a.style.size = IntSize =>
           Signed(x, IntSize) >= 0 /\ Signed(y, IntSize) >= 0,
         NEW says, NEW r,
         r = Report(says, Element(k), Printed(Signed(x, a.style.size), a.style),
                    Printed(Signed(y, a.style.size), a.style))
  PROVE  ReportShows(r[1], macro, a)
<1>1. macro \in Walked /\ macro \notin StringArrayMacros /\ macro \notin MemoryMacros
  BY DEF Walked, ArrayMacros, StringArrayMacros, MemoryMacros
<1>2. PICK f, e, w : /\ f = r[1] /\ f.places = Element(k) /\ f.expected = e /\ f.was = w
                     /\ e = Printed(Signed(x, a.style.size), a.style)
                     /\ w = Printed(Signed(y, a.style.size), a.style)
  BY ReportHolds
<1>3. Names(f, macro, a, k)
  BY <1>1, <1>2, ElementNamed
<1>4. Shows2(f, Value(x, a.style, a.style.size), Value(y, a.style, a.style.size), a.style)
  BY <1>2, ElementShows DEF Shows2
<1>5. QED
  BY <1>1, <1>2, <1>3, <1>4, WalkShows

LEMMA EqualArrayShown ==
  ASSUME NEW a, Typed("EQUAL_ARRAY", a), PrintedInFull("EQUAL_ARRAY", a),
         UnityAssert("EQUAL_ARRAY", a) # <<>>
  PROVE  ReportShows(UnityAssert("EQUAL_ARRAY", a)[1], "EQUAL_ARRAY", a)
<1> DEFINE n == a.num_elements
           E(i) == Signed(a.expected.of[i], a.style.size)
           A(i) == Signed(a.actual.of[i], a.style.size)
           V(x) == Value(x, a.style, a.style.size)
           bad == {i \in 1 .. n : E(i) # A(i)}
           k == Min(bad)
           walk == IF bad = {} THEN <<>>
                   ELSE Report("Number", Element(k), Printed(E(k), a.style),
                               Printed(A(k), a.style))
<1>1. /\ a.style \in Styles /\ n \in Counts /\ n \in Nat
      /\ IsArray(a.expected, n, Int) /\ IsArray(a.actual, n, Int)
  BY CountsAreNaturals DEF Typed, IntegerMacros, ArrayMacros, Walked
<1>2. PICK r : r = UnityAssert("EQUAL_ARRAY", a)
  OBVIOUS
<1>3. r = ArrayReport(a.expected, a.actual, n, walk)
  <2>1. UnityAssert("EQUAL_ARRAY", a)
          = UnityAssertEqualIntArray(a.expected, a.actual, n, a.style, "ARRAY_TO_ARRAY")
    BY DEF UnityAssert, IntegerReport, IntegerMacros, ArrayMacros, FloatMacros,
           FloatArrayMacros, TraitMacros
  <2>2. QED
    BY <1>2, <2>1 DEF UnityAssertEqualIntArray, Walk, At
<1> HIDE DEF walk
<1>4. CASE r[1].says \in {"Pointless", "NullPointerForExpected", "NullPointerForActual"}
  BY <1>2, <1>4, NoWalkShows DEF Walked, ArrayMacros
<1>5. CASE r = walk /\ n # 0 /\ a.expected.at # 0 /\ a.actual.at # 0
  <2>1. \A i \in 1 .. n : a.expected.of[i] \in Int /\ a.actual.of[i] \in Int
    BY <1>1, <1>5, ElementsOf
  <2>2. bad = Mismatches("EQUAL_ARRAY", a)
    <3>1. Mismatches("EQUAL_ARRAY", a)
            = {i \in 1 .. n : ~(V(a.expected.of[i]) = V(a.actual.of[i]))}
      BY DEF Mismatches, AgreesAt, ExpectedAt, Count, MemoryMacros, FloatArrayMacros,
             StringArrayMacros
    <3>2. \A x \in Int, y \in Int :
            V(x) = V(y) <=> Signed(x, a.style.size) = Signed(y, a.style.size)
      BY <1>1, StyleFacts, SameBits DEF Value
    <3> HIDE DEF V
    <3>3. QED
      BY <2>1, <3>1, <3>2
  <2>3. bad # {} /\ bad \subseteq Nat /\ bad \subseteq 1 .. n
    BY <1>1, <1>2, <1>5 DEF walk
  <2>4. k \in 1 .. n
    BY <2>3, MinOfNaturals
  <2>5. PICK x \in Int, y \in Int : x = a.expected.of[k] /\ y = a.actual.of[k]
    BY <2>1, <2>4
  <2>6. r = Report("Number", Element(k), Printed(Signed(x, a.style.size), a.style),
                   Printed(Signed(y, a.style.size), a.style))
    BY <1>5, <2>3, <2>5 DEF walk
  <2>7. x = ExpectedAt("EQUAL_ARRAY", a, k)
    BY <2>5 DEF ExpectedAt
  <2>8. a.style.range = "UINT" /\ a.style.size = IntSize =>
          Signed(x, IntSize) >= 0 /\ Signed(y, IntSize) >= 0
    BY <1>5, <2>4, <2>5 DEF PrintedInFull, ArrayMacros
  <2> HIDE DEF bad, E, A, V
  <2>9. PICK j \in 1 .. n : j = k
    BY <2>4
  <2>10. QED
    BY <1>1, <1>2, <2>2, <2>5, <2>6, <2>7, <2>8, <2>9, IntArrayShows DEF ArrayMacros
<1>6. QED
  BY <1>2, <1>3, <1>4, <1>5, ReportOfArrays

LEMMA EachEqualShown ==
  ASSUME NEW a, Typed("EACH_EQUAL", a), PrintedInFull("EACH_EQUAL", a),
         UnityAssert("EACH_EQUAL", a) # <<>>
  PROVE  ReportShows(UnityAssert("EACH_EQUAL", a)[1], "EACH_EQUAL", a)
<1> DEFINE n == a.num_elements
           size == a.style.size
           num == EqualCast(a.expected, a.style)
           p == UnityNumToPtr(num, size)
           E(i) == Signed(p.of[1], size)
           A(i) == Signed(a.actual.of[i], size)
           V(x) == Value(x, a.style, size)
           bad == {i \in 1 .. n : E(i) # A(i)}
           k == Min(bad)
           walk == IF bad = {} THEN <<>>
                   ELSE Report("Number", Element(k), Printed(E(k), a.style),
                               Printed(A(k), a.style))
<1>1. /\ a.style \in Styles /\ n \in Counts /\ n \in Nat
      /\ a.expected \in Int /\ IsArray(a.actual, n, Int)
  BY CountsAreNaturals DEF Typed, IntegerMacros, ArrayMacros, Walked
<1>2. PICK r : r = UnityAssert("EACH_EQUAL", a)
  OBVIOUS
<1>3. r = ArrayReport(p, a.actual, n, walk)
  <2>1. UnityAssert("EACH_EQUAL", a)
          = UnityAssertEqualIntArray(p, a.actual, n, a.style, "ARRAY_TO_VAL")
    BY DEF UnityAssert, IntegerReport, IntegerMacros, ArrayMacros, FloatMacros,
           FloatArrayMacros, TraitMacros
  <2> HIDE DEF p
  <2>2. QED
    BY <1>2, <2>1 DEF UnityAssertEqualIntArray, Walk, At
<1>4. \A i : E(i) = Signed(a.expected, size)
  <2>1. size \in Sizes /\ num \in Int /\ Unsigned(num, size) = Unsigned(a.expected, size)
    BY <1>1, StyleFacts, EqualCastValue
  <2>2. p.of[1] = Unsigned(num, size)
    BY DEF UnityNumToPtr
  <2>3. PICK u \in Int : u = Unsigned(num, size)
    BY <2>1, ValueType
  <2>4. Unsigned(u, size) = Unsigned(a.expected, size)
    BY <2>1, <2>3, Conversions, ConversionsKeep
  <2>5. Signed(u, size) = Signed(a.expected, size)
    BY <1>1, <2>1, <2>4, SameBits
  <2>6. QED
    BY <2>2, <2>3, <2>5
<1> HIDE DEF walk
<1>5. CASE r[1].says \in {"Pointless", "NullPointerForExpected", "NullPointerForActual"}
  BY <1>2, <1>5, NoWalkShows DEF Walked, ArrayMacros
<1>6. CASE r = walk /\ n # 0 /\ a.actual.at # 0
  <2>1. \A i \in 1 .. n : a.actual.of[i] \in Int
    BY <1>1, <1>6, ElementsOf
  <2> HIDE DEF E
  <2>2. bad = Mismatches("EACH_EQUAL", a)
    <3>1. Mismatches("EACH_EQUAL", a) = {i \in 1 .. n : ~(V(a.expected) = V(a.actual.of[i]))}
      BY DEF Mismatches, AgreesAt, ExpectedAt, Count, MemoryMacros, FloatArrayMacros,
             StringArrayMacros
    <3>2. \A x \in Int, y \in Int : V(x) = V(y) <=> Signed(x, size) = Signed(y, size)
      BY <1>1, StyleFacts, SameBits DEF Value
    <3> HIDE DEF V, size
    <3>3. QED
      BY <1>1, <1>4, <2>1, <3>1, <3>2
  <2>3. bad # {} /\ bad \subseteq Nat /\ bad \subseteq 1 .. n
    BY <1>1, <1>2, <1>6 DEF walk
  <2>4. k \in 1 .. n
    BY <2>3, MinOfNaturals
  <2>5. PICK x \in Int, y \in Int : x = a.expected /\ y = a.actual.of[k]
    BY <1>1, <2>1, <2>4
  <2>6. r = Report("Number", Element(k), Printed(Signed(x, size), a.style),
                   Printed(Signed(y, size), a.style))
    BY <1>4, <1>6, <2>3, <2>5 DEF walk
  <2>7. x = ExpectedAt("EACH_EQUAL", a, k)
    BY <2>5 DEF ExpectedAt
  <2>8. a.style.range = "UINT" /\ size = IntSize =>
          Signed(x, IntSize) >= 0 /\ Signed(y, IntSize) >= 0
    BY <1>6, <2>4, <2>5 DEF PrintedInFull, ArrayMacros
  <2> HIDE DEF bad, A, V
  <2>9. PICK j \in 1 .. n : j = k
    BY <2>4
  <2>10. QED
    BY <1>1, <1>2, <2>2, <2>5, <2>6, <2>7, <2>8, <2>9, IntArrayShows DEF ArrayMacros
<1>7. QED
  BY <1>2, <1>3, <1>5, <1>6, ReportOfArrays

LEMMA ArrayWithinShown ==
  ASSUME NEW a, Typed("ARRAY_WITHIN", a), OneSided("ARRAY_WITHIN", a),
         PrintedInFull("ARRAY_WITHIN", a), UnityAssert("ARRAY_WITHIN", a) # <<>>
  PROVE  ReportShows(UnityAssert("ARRAY_WITHIN", a)[1], "ARRAY_WITHIN", a)
<1> DEFINE n == a.num_elements
           E(i) == Signed(a.expected.of[i], a.style.size)
           A(i) == Signed(a.actual.of[i], a.style.size)
           V(x) == Value(x, a.style, a.style.size)
           bad == {i \in 1 .. n : OutOfDelta(a.delta, E(i), A(i), a.style)}
           k == Min(bad)
           walk == IF bad = {} THEN <<>>
                   ELSE Report("Delta", Element(k), Printed(E(k), a.style),
                               Printed(A(k), a.style))
<1>1. /\ a.style \in Styles /\ n \in Counts /\ n \in Nat
      /\ a.delta \in 0 .. 2^Bits(a.style.cast) - 1
      /\ IsArray(a.expected, n, Int) /\ IsArray(a.actual, n, Int)
  BY CountsAreNaturals DEF Typed, IntegerMacros, ArrayMacros, Walked
<1>2. Unsigned(a.delta, a.style.cast) = a.delta /\ a.delta \in Nat
  <2>1. a.style.cast \in Sizes
    BY <1>1, StyleFacts
  <2>2. 2^Bits(a.style.cast) \in Nat
    BY <2>1, WidthFacts
  <2>3. QED
    BY <1>1, <2>1, <2>2, ConversionsKeep
<1>3. PICK r : r = UnityAssert("ARRAY_WITHIN", a)
  OBVIOUS
<1>4. r = ArrayReport(a.expected, a.actual, n, walk)
  <2>1. UnityAssert("ARRAY_WITHIN", a)
          = UnityAssertNumbersArrayWithin(a.delta, a.expected, a.actual, n, a.style,
                                          "ARRAY_TO_ARRAY")
    BY <1>2 DEF UnityAssert, IntegerReport, IntegerMacros, ArrayMacros, FloatMacros,
           FloatArrayMacros, TraitMacros
  <2>2. QED
    BY <1>3, <2>1 DEF UnityAssertNumbersArrayWithin, Walk, At
<1> HIDE DEF walk
<1>5. CASE r[1].says \in {"Pointless", "NullPointerForExpected", "NullPointerForActual"}
  BY <1>3, <1>5, NoWalkShows DEF Walked, ArrayMacros
<1>6. CASE r = walk /\ n # 0 /\ a.expected.at # 0 /\ a.actual.at # 0
  <2>1. \A i \in 1 .. n : a.expected.of[i] \in Int /\ a.actual.of[i] \in Int
    BY <1>1, <1>6, ElementsOf
  <2>2. bad = Mismatches("ARRAY_WITHIN", a)
    <3>1. Mismatches("ARRAY_WITHIN", a)
            = {i \in 1 .. n :
                 ~(Magnitude(V(a.expected.of[i]) - V(a.actual.of[i])) <= a.delta)}
      BY DEF Mismatches, AgreesAt, ExpectedAt, Count, MemoryMacros, FloatArrayMacros,
             StringArrayMacros
    <3>2. \A i \in 1 .. n : OutOfDelta(a.delta, E(i), A(i), a.style)
            <=> ~(Magnitude(V(a.expected.of[i]) - V(a.actual.of[i])) <= a.delta)
      <4> TAKE i \in 1 .. n
      <4>1. PICK x \in Int, y \in Int : x = a.expected.of[i] /\ y = a.actual.of[i]
        BY <2>1
      <4>2. \/ RangeInt(a.style) \/ a.style.size = LongSize
            \/ (Signed(x, a.style.size) < 0) = (Signed(y, a.style.size) < 0)
        BY <1>6, <4>1 DEF OneSided
      <4>3. QED
        BY <1>1, <1>2, <4>1, <4>2, ElementsWithin
    <3> HIDE DEF E, A, V
    <3>3. QED
      BY <3>1, <3>2
  <2>3. bad # {} /\ bad \subseteq Nat /\ bad \subseteq 1 .. n
    BY <1>1, <1>3, <1>6 DEF walk
  <2>4. k \in 1 .. n
    BY <2>3, MinOfNaturals
  <2>5. PICK x \in Int, y \in Int : x = a.expected.of[k] /\ y = a.actual.of[k]
    BY <2>1, <2>4
  <2>6. r = Report("Delta", Element(k), Printed(Signed(x, a.style.size), a.style),
                   Printed(Signed(y, a.style.size), a.style))
    BY <1>6, <2>3, <2>5 DEF walk
  <2>7. x = ExpectedAt("ARRAY_WITHIN", a, k)
    BY <2>5 DEF ExpectedAt
  <2>8. a.style.range = "UINT" /\ a.style.size = IntSize =>
          Signed(x, IntSize) >= 0 /\ Signed(y, IntSize) >= 0
    BY <1>6, <2>4, <2>5 DEF PrintedInFull, ArrayMacros
  <2> HIDE DEF bad, E, A, V
  <2>9. PICK j \in 1 .. n : j = k
    BY <2>4
  <2>10. QED
    BY <1>1, <1>3, <2>2, <2>5, <2>6, <2>7, <2>8, <2>9, IntArrayShows DEF ArrayMacros
<1>7. QED
  BY <1>3, <1>4, <1>5, <1>6, ReportOfArrays

-----------------------------------------------------------------------------
(* The reports of the assertions on arrays of floating-point numbers and   *)
(* on memory.                                                              *)

LEMMA FloatArrayShown ==
  ASSUME NEW macro \in FloatArrayMacros, NEW a, Typed(macro, a), UnityAssert(macro, a) # <<>>
  PROVE  ReportShows(UnityAssert(macro, a)[1], macro, a)
<1> USE DEF FloatArrayMacros
<1> DEFINE n == a.num_elements
           E(i) == IF macro = "EACH_EQUAL_FLOAT" THEN a.expected ELSE a.expected.of[i]
           A(i) == a.actual.of[i]
           bad == {i \in 1 .. n : ~FloatsWithin(TimesPrecision(E(i)), E(i), A(i))}
           k == Min(bad)
           walk == IF bad = {} THEN <<>> ELSE Report("Delta", Element(k), <<>>, <<>>)
           p == IF macro = "EACH_EQUAL_FLOAT" THEN FloatToPtr(a.expected) ELSE a.expected
<1>1. /\ n \in Counts /\ n \in Nat /\ IsArray(a.actual, n, FloatingPoint)
      /\ macro \in Walked /\ macro \notin MemoryMacros /\ macro \notin StringArrayMacros
      /\ macro \notin ArrayMacros
      /\ macro = "EACH_EQUAL_FLOAT" => a.expected \in FloatingPoint
      /\ macro # "EACH_EQUAL_FLOAT" => IsArray(a.expected, n, FloatingPoint)
  BY CountsAreNaturals DEF Typed, Walked, MemoryMacros, StringArrayMacros, ArrayMacros
<1>2. PICK r : r = UnityAssert(macro, a)
  OBVIOUS
<1>3. r = ArrayReport(p, a.actual, n, walk)
  <2>1. CASE macro # "EACH_EQUAL_FLOAT"
    <3>1. r = UnityAssertEqualFloatArray(a.expected, a.actual, n, "ARRAY_TO_ARRAY")
      BY <1>2, <2>1 DEF UnityAssert, FloatReport, IntegerMacros, ArrayMacros, FloatMacros,
             TraitMacros, UnityAssertEqualDoubleArray
    <3>2. QED
      BY <2>1, <3>1 DEF UnityAssertEqualFloatArray, Walk, At
  <2>2. CASE macro = "EACH_EQUAL_FLOAT"
    <3>1. r = UnityAssertEqualFloatArray(FloatToPtr(a.expected), a.actual, n, "ARRAY_TO_VAL")
      BY <1>2, <2>2 DEF UnityAssert, FloatReport, IntegerMacros, ArrayMacros, FloatMacros,
             TraitMacros
    <3>2. FloatToPtr(a.expected).of[1] = a.expected
      BY DEF FloatToPtr
    <3>3. PICK q : q = FloatToPtr(a.expected)
      OBVIOUS
    <3>4. r = UnityAssertEqualFloatArray(q, a.actual, n, "ARRAY_TO_VAL") /\ q.of[1] = a.expected
          /\ p = q
      BY <2>2, <3>1, <3>2, <3>3
    <3> HIDE DEF p
    <3>5. QED
      BY <2>2, <3>4 DEF UnityAssertEqualFloatArray, Walk, At
  <2>3. QED
    BY <2>1, <2>2
<1> HIDE DEF walk
<1>4. CASE r[1].says \in {"Pointless", "NullPointerForExpected", "NullPointerForActual"}
  BY <1>1, <1>2, <1>4, NoWalkShows
<1>5. CASE r = walk /\ n # 0 /\ p.at # 0 /\ a.actual.at # 0
  <2>1. \A i \in 1 .. n : E(i) \in FloatingPoint /\ A(i) \in FloatingPoint
    <3>1. \A i \in 1 .. n : A(i) \in FloatingPoint
      BY <1>1, <1>5, ElementsOf
    <3>2. CASE macro = "EACH_EQUAL_FLOAT"
      BY <1>1, <3>1, <3>2
    <3>3. CASE macro # "EACH_EQUAL_FLOAT"
      <4>1. a.expected.at # 0
        BY <1>5, <3>3
      <4>2. \A i \in 1 .. n : a.expected.of[i] \in FloatingPoint
        BY <1>1, <3>3, <4>1, ElementsOf
      <4>3. QED
        BY <3>1, <3>3, <4>2
    <3>4. QED
      BY <3>2, <3>3
  <2>2. bad = Mismatches(macro, a)
    <3>1. Mismatches(macro, a)
            = {i \in 1 .. n : ~CloseTo(Relative(ExpectedAt(macro, a, i)),
                                       ExpectedAt(macro, a, i), A(i))}
      BY DEF Mismatches, AgreesAt, Count, MemoryMacros, ArrayMacros, StringArrayMacros
    <3>2. \A i : ExpectedAt(macro, a, i) = E(i)
      BY DEF ExpectedAt
    <3>3. \A x \in FloatingPoint, y \in FloatingPoint :
            FloatsWithin(TimesPrecision(x), x, y) <=> CloseTo(Relative(x), x, y)
      <4> TAKE x \in FloatingPoint, y \in FloatingPoint
      <4>1. QED
        BY Tolerance, FloatClose
    <3> HIDE DEF E, A
    <3>4. QED
      BY <2>1, <3>1, <3>2, <3>3
  <2>3. bad # {} /\ bad \subseteq Nat /\ bad \subseteq 1 .. n
    BY <1>1, <1>2, <1>5 DEF walk
  <2>4. k \in 1 .. n
    BY <2>3, MinOfNaturals
  <2>5. r = Report("Delta", Element(k), <<>>, <<>>)
    BY <1>5, <2>3 DEF walk
  <2> HIDE DEF bad, E, A
  <2>6. PICK j \in 1 .. n : j = k
    BY <2>4
  <2>7. PICK f : f = r[1] /\ f.places = Element(j)
    BY <2>5, <2>6, ReportHolds
  <2>8. Names(f, macro, a, j)
    BY <1>1, <2>7, ElementNamed
  <2>9. QED
    BY <1>1, <1>2, <2>2, <2>6, <2>7, <2>8, WalkShows
<1>6. QED
  BY <1>2, <1>3, <1>4, <1>5, ReportOfArrays

(* The element and the byte in it, or only the byte.                       *)
LEMMA ByteNamed ==
  ASSUME NEW macro \in MemoryMacros, NEW a, a.num_elements \in Counts, a.length \in Counts,
         NEW k \in 1 .. a.num_elements * a.length, NEW f,
         f.places = (IF a.num_elements > 1 THEN Element(1 + ((k - 1) \div a.length)) ELSE <<>>)
                      \o Element(1 + ((k - 1) % a.length))
  PROVE  Names(f, macro, a, k)
<1>1. PICK n \in Nat, l \in Nat : /\ n = a.num_elements /\ l = a.length
                                   /\ n \in Counts /\ l \in Counts
  BY CountsAreNaturals
<1>2. PICK j \in Int : j = k - 1 /\ j \in 0 .. n * l - 1
  <2>1. PICK m \in Nat : m = n * l
    BY <1>1
  <2>2. k \in 1 .. m
    BY <1>1, <2>1
  <2>3. QED
    BY <2>1, <2>2
<1>3. PICK q \in 0 .. n - 1, c \in 0 .. l - 1 : q = j \div l /\ c = j % l
  BY <1>2, RowAndColumn
<1>4. PICK t, u : t = UnityPrintNumberUnsigned(q) /\ u = UnityPrintNumberUnsigned(c)
  OBVIOUS
<1>5. Numeral(t, 10) = q /\ Numeral(u, 10) = c
  BY <1>1, <1>4, IndexReads
<1> DEFINE read(places) == [i \in 1 .. Len(places) |-> Numeral(places[i], 10)]
<1>6. read(<<t, u>>) = <<q, c>> /\ read(<<u>>) = <<c>>
  BY <1>5, PlacesRead
<1>7. Names(f, macro, a, k) <=> read(f.places) = (IF n = 1 THEN <<>> ELSE <<q>>) \o <<c>>
  BY <1>1, <1>2, <1>3 DEF Names
<1> HIDE DEF read
<1>8. Element(1 + q) = <<t>> /\ Element(1 + c) = <<u>>
  <2>1. (1 + q) - 1 = q /\ (1 + c) - 1 = c
    OBVIOUS
  <2>2. QED
    BY <1>4, <2>1 DEF Element
<1>9. f.places = (IF n > 1 THEN <<t>> ELSE <<>>) \o <<u>>
  BY <1>1, <1>2, <1>3, <1>8
<1>10. CASE n = 1
  <2>1. <<>> \o <<u>> = <<u>> /\ <<>> \o <<c>> = <<c>>
    OBVIOUS
  <2>2. (IF n > 1 THEN <<t>> ELSE <<>>) = <<>> /\ (IF n = 1 THEN <<>> ELSE <<q>>) = <<>>
    BY <1>10
  <2>3. f.places = <<u>> /\ (IF n = 1 THEN <<>> ELSE <<q>>) \o <<c>> = <<c>>
    BY <1>9, <2>1, <2>2, Zenon
  <2>4. QED
    BY <1>6, <1>7, <2>3, Zenon
<1>11. CASE n > 1
  <2>1. <<t>> \o <<u>> = <<t, u>> /\ <<q>> \o <<c>> = <<q, c>>
    BY OneAndOne
  <2>2. (IF n > 1 THEN <<t>> ELSE <<>>) = <<t>> /\ (IF n = 1 THEN <<>> ELSE <<q>>) = <<q>>
    BY <1>11
  <2>3. f.places = <<t, u>> /\ (IF n = 1 THEN <<>> ELSE <<q>>) \o <<c>> = <<q, c>>
    BY <1>9, <2>1, <2>2, Zenon
  <2>4. QED
    BY <1>6, <1>7, <2>3, Zenon
<1>12. n = 1 \/ n > 1
  <2>1. 0 <= q /\ q <= n - 1 /\ n \in Int
    BY <1>3
  <2>2. QED
    BY <2>1
<1>13. QED
  BY <1>10, <1>11, <1>12

LEMMA MemoryShown ==
  ASSUME NEW macro \in MemoryMacros, NEW a, Typed(macro, a), UnityAssert(macro, a) # <<>>
  PROVE  ReportShows(UnityAssert(macro, a)[1], macro, a)
<1> USE DEF MemoryMacros
<1> DEFINE n == a.num_elements * a.length
           Bytes == 0 .. 2^ByteBits - 1
           E(k) == a.expected.of[IF macro = "EQUAL_MEMORY_ARRAY" THEN k
                                 ELSE 1 + ((k - 1) % a.length)]
           A(k) == a.actual.of[k]
           bad == {k \in 1 .. n : E(k) # A(k)}
           k0 == Min(bad)
           walk == IF bad = {} THEN <<>>
                   ELSE Report("Memory",
                               (IF a.num_elements > 1
                                THEN Element(1 + ((k0 - 1) \div a.length)) ELSE <<>>)
                                 \o Element(1 + ((k0 - 1) % a.length)),
                               UnityPrintNumberByStyle(E(k0), HEX8),
                               UnityPrintNumberByStyle(A(k0), HEX8))
<1>1. /\ a.num_elements \in Counts /\ a.length \in Counts
      /\ a.num_elements \in Nat /\ a.length \in Nat /\ macro \in Walked
      /\ macro \notin ArrayMacros /\ macro \notin StringArrayMacros
      /\ IsArray(a.actual, n, Bytes)
      /\ macro = "EQUAL_MEMORY_ARRAY" => IsArray(a.expected, n, Bytes)
      /\ macro = "EACH_EQUAL_MEMORY" => IsArray(a.expected, a.length, Bytes)
  BY CountsAreNaturals DEF Typed, Walked, ArrayMacros, StringArrayMacros
<1>2. n \in Nat
  BY <1>1
<1>3. PICK r : r = UnityAssert(macro, a)
  OBVIOUS
<1>4. r = ArrayReport(a.expected, a.actual, n, walk)
  <2>1. UnityAssert(macro, a)
          = UnityAssertEqualMemory(a.expected, a.actual, a.length, a.num_elements,
              IF macro = "EQUAL_MEMORY_ARRAY" THEN "ARRAY_TO_ARRAY" ELSE "ARRAY_TO_VAL")
    BY DEF UnityAssert, ByteReport, IntegerMacros, ArrayMacros, FloatMacros,
           FloatArrayMacros, TraitMacros
  <2>2. CASE macro = "EQUAL_MEMORY_ARRAY"
    BY <1>3, <2>1, <2>2 DEF UnityAssertEqualMemory, Walk
  <2>3. CASE macro = "EACH_EQUAL_MEMORY"
    BY <1>3, <2>1, <2>3 DEF UnityAssertEqualMemory, Walk
  <2>4. QED
    BY <2>2, <2>3
<1> HIDE DEF walk
<1>5. CASE r[1].says \in {"Pointless", "NullPointerForExpected", "NullPointerForActual"}
  BY <1>1, <1>3, <1>5, NoWalkShows
<1>6. CASE r = walk /\ a.expected.at # 0 /\ a.actual.at # 0
  <2>1. bad = Mismatches(macro, a)
    <3>1. Count(macro, a) = n
      BY DEF Count
    <3>2. \A k : AgreesAt(macro, a, k) <=> ExpectedAt(macro, a, k) = A(k)
      BY DEF AgreesAt, StringArrayMacros, ArrayMacros, FloatArrayMacros
    <3>3. \A k : ExpectedAt(macro, a, k) = E(k)
      BY DEF ExpectedAt
    <3> HIDE DEF E, A, n
    <3>4. QED
      BY <3>1, <3>2, <3>3 DEF Mismatches
  <2>2. bad # {} /\ bad \subseteq Nat /\ bad \subseteq 1 .. n
    <3> HIDE DEF E, A, n
    <3>1. bad # {}
      BY <1>3, <1>6 DEF walk
    <3>2. QED
      BY <1>2, <3>1
  <2>3. PICK j \in 1 .. n : j = k0
    BY <2>2, MinOfNaturals
  <2>4. \A i \in 1 .. n : E(i) \in Bytes /\ A(i) \in Bytes
    <3> HIDE DEF Bytes, n
    <3>1. \A i \in 1 .. n : A(i) \in Bytes
      BY <1>1, <1>2, <1>6, ElementsOf
    <3>2. CASE macro = "EQUAL_MEMORY_ARRAY"
      <4>1. \A i \in 1 .. n : a.expected.of[i] \in Bytes
        BY <1>1, <1>2, <1>6, <3>2, ElementsOf
      <4>2. QED
        BY <3>1, <3>2, <4>1
    <3>3. CASE macro = "EACH_EQUAL_MEMORY"
      <4>1. \A i \in 1 .. a.length : a.expected.of[i] \in Bytes
        BY <1>1, <1>6, <3>3, ElementsOf
      <4>2. ASSUME NEW i \in 1 .. n
            PROVE  1 + ((i - 1) % a.length) \in 1 .. a.length
        <5>1. PICK l \in Nat : l = a.length
          BY <1>1
        <5>2. l # 0
          <6>1. a.num_elements * 0 = 0
            BY <1>1
          <6>2. n # 0
            BY <1>2
          <6>3. QED
            BY <5>1, <6>1, <6>2 DEF n
        <5>3. i - 1 \in Int
          BY <1>2
        <5>4. (i - 1) % l \in 0 .. l - 1
          BY <5>1, <5>2, <5>3, Division
        <5>5. QED
          BY <5>1, <5>4
      <4>3. QED
        BY <3>1, <3>3, <4>1, <4>2
    <3>4. QED
      BY <3>2, <3>3
  <2>5. PICK x \in Bytes, y \in Bytes : x = E(j) /\ y = A(j)
    BY <2>4
  <2>6. PICK places, p, q :
          /\ places = (IF a.num_elements > 1
                       THEN Element(1 + ((j - 1) \div a.length)) ELSE <<>>)
                        \o Element(1 + ((j - 1) % a.length))
          /\ p = UnityPrintNumberByStyle(x, HEX8) /\ q = UnityPrintNumberByStyle(y, HEX8)
          /\ r = Report("Memory", places, p, q)
    <3> HIDE DEF E, A, bad, n, Bytes
    <3>1. r = walk
      BY <1>6
    <3>2. walk = Report("Memory", (IF a.num_elements > 1
                                   THEN Element(1 + ((k0 - 1) \div a.length)) ELSE <<>>)
                                    \o Element(1 + ((k0 - 1) % a.length)),
                        UnityPrintNumberByStyle(E(k0), HEX8),
                        UnityPrintNumberByStyle(A(k0), HEX8))
      BY <2>2, Zenon DEF walk
    <3>3. k0 = j /\ E(j) = x /\ A(j) = y
      BY <2>3, <2>5
    <3> HIDE DEF k0
    <3>4. QED
      BY <3>1, <3>2, <3>3, Zenon
  <2>7. \A b \in Bytes : Shows(UnityPrintNumberByStyle(b, HEX8), b, HEX8)
    <3> TAKE b \in Bytes
    <3>1. HEX8 \in Styles /\ HEX8.range = "HEX" /\ HEX8.size = 1
      BY SizesOrdered DEF HEX8, Styles, Style
    <3>2. 1 \in Sizes /\ Bits(1) = ByteBits
      BY SizesOrdered, SizesAssumption DEF Bits
    <3>3. 2^ByteBits \in Nat
      BY <3>2, WidthFacts
    <3>4. b \in Int /\ Unsigned(b, 1) = b
      BY <3>2, <3>3, ConversionsKeep
    <3>5. QED
      BY <3>1, <3>4, StyleShows DEF RangeInt
  <2>8. PICK f : f = r[1] /\ f.expected = p /\ f.was = q /\ f.places = places
    <3> HIDE DEF n, Bytes
    <3>1. PICK says : r = Report(says, places, p, q)
      BY <2>6
    <3>2. r[1].places = places /\ r[1].expected = p /\ r[1].was = q
      BY <3>1, ReportHolds
    <3>3. QED
      BY <3>2
  <2>9. Names(f, macro, a, j)
    BY <1>1, <2>6, <2>8, ByteNamed
  <2>10. x = ExpectedAt(macro, a, j) /\ y = a.actual.of[j]
    BY <2>5 DEF ExpectedAt
  <2>11. Shows2(f, x, y, HEX8)
    BY <2>6, <2>7, <2>8 DEF Shows2
  <2> HIDE DEF bad, E, A, n, Bytes
  <2>12. QED
    BY <1>1, <1>3, <2>1, <2>3, <2>8, <2>9, <2>10, <2>11, WalkShows
<1>7. QED
  BY <1>3, <1>4, <1>5, <1>6, ReportOfArrays

-----------------------------------------------------------------------------
(* The report of the assertion on bits.                                    *)

(* A bit that is set in a number of the width of an int is one of an int.  *)
LEMMA BitOfInt ==
  ASSUME NEW n \in Nat, NEW w \in Nat, n < 2^w, NEW i \in Nat, (n \div 2^i) % 2 = 1
  PROVE  i < w
<1> SUFFICES ASSUME i >= w
             PROVE  FALSE
  OBVIOUS
<1>1. PICK d \in Nat : i = w + d
  <2>1. i - w \in Nat /\ i = w + (i - w)
    OBVIOUS
  <2>2. QED
    BY <2>1
<1>2. PICK p \in Nat \ {0}, q \in Nat \ {0} : p = 2^w /\ q = 2^d
  BY PowerOfTwo
<1>3. 2^i = p * q
  BY <1>1, <1>2, PowersAdd
<1>4. PICK y \in Nat \ {0} : y = p * q /\ y >= p
  <2>1. \A a, b \in Nat \ {0} : a * b \in Nat \ {0} /\ a * b >= a
    BY SMT
  <2>2. QED
    BY <2>1
<1>5. n \in 0 .. y - 1 /\ 0 * y + n = n
  BY <1>2, <1>4
<1>6. n \div y = 0
  BY <1>5, DivisionUnique
<1>7. QED
  BY <1>3, <1>4, <1>6

LEMMA BitsShown ==
  ASSUME NEW a, Typed("BITS", a), PrintedInFull("BITS", a), UnityAssert("BITS", a) # <<>>
  PROVE  ReportShows(UnityAssert("BITS", a)[1], "BITS", a)
<1> DEFINE I == 0 .. Bits(LongSize) - 1
           bit(n, i) == (UNITY_UINT(n) \div 2^i) % 2
           masked(n) == [i \in I |-> bit(a.mask, i) * bit(n, i)]
           text(n) == UnityPrintMask(UNITY_UINT(a.mask), UNITY_UINT(n))
<1>1. /\ LongSize \in Sizes /\ IntSize \in Sizes /\ IntSize <= LongSize
      /\ Bits(LongSize) \in Nat /\ Bits(IntSize) \in Nat /\ I \subseteq Nat
  <2>1. LongSize \in Sizes /\ IntSize \in Sizes /\ IntSize <= LongSize
    BY SizesOrdered
  <2>2. QED
    BY <2>1, WidthFacts
<1>2. /\ a.mask \in 0 .. 2^Bits(IntSize) - 1 /\ a.expected \in Int /\ a.actual \in Int
      /\ a.mask \in Int
  BY DEF Typed, PrintedInFull
<1>3. \A n \in Int : UNITY_UINT(n) \in Int /\ UNITY_UINT(UNITY_INT(n)) = UNITY_UINT(n)
  <2>1. 2^Bits(LongSize) \in Int
    BY <1>1, WidthFacts
  <2>2. QED
    BY <1>1, <2>1, Conversions DEF UNITY_UINT, UNITY_INT
<1>4. \A n \in Int, i \in I : bit(n, i) \in {0, 1}
  BY <1>1, <1>3, BitIs
<1>5. PICK r : /\ r = UnityAssert("BITS", a)
               /\ r = UnityAssertBits(UNITY_INT(a.mask), UNITY_INT(a.expected),
                                      UNITY_INT(a.actual))
  <2>1. UnityAssert("BITS", a) = UnityAssertBits(UNITY_INT(a.mask), UNITY_INT(a.expected),
                                                 UNITY_INT(a.actual))
    BY DEF UnityAssert, IntegerMacros, ArrayMacros, FloatMacros, FloatArrayMacros, TraitMacros
  <2>2. QED
    BY <2>1
<1>6. masked(a.expected) # masked(a.actual) /\ r = Report("Bits", <<>>, text(a.expected), text(a.actual))
  <2>1. /\ UNITY_UINT(UNITY_INT(a.mask)) = UNITY_UINT(a.mask)
        /\ UNITY_UINT(UNITY_INT(a.expected)) = UNITY_UINT(a.expected)
        /\ UNITY_UINT(UNITY_INT(a.actual)) = UNITY_UINT(a.actual)
    BY <1>2, <1>3
  <2>2. r = IF masked(a.expected) = masked(a.actual) THEN <<>>
            ELSE Report("Bits", <<>>, text(a.expected), text(a.actual))
    BY <1>5, <2>1, Zenon DEF UnityAssertBits
  <2> HIDE DEF masked, text
  <2>3. QED
    BY <1>5, <2>2
<1>7. PICK i \in I : bit(a.mask, i) = 1 /\ bit(a.expected, i) # bit(a.actual, i)
  <2>1. PICK i \in I : bit(a.mask, i) * bit(a.expected, i) # bit(a.mask, i) * bit(a.actual, i)
    BY <1>6
  <2>2. PICK m \in {0, 1}, e \in {0, 1}, f \in {0, 1} :
          m = bit(a.mask, i) /\ e = bit(a.expected, i) /\ f = bit(a.actual, i)
    BY <1>2, <1>4
  <2>3. m * e # m * f
    BY <2>1, <2>2
  <2>4. m = 1 /\ e # f
    BY <2>3
  <2>5. QED
    BY <2>2, <2>4
<1>8. PICK w \in Nat : w = Bits(IntSize)
  BY <1>1
<1>9. i \in Nat /\ i < w
  <2>1. PICK n \in Nat : n = a.mask /\ n < 2^w
    <3>1. PICK p \in Nat : p = 2^w
      BY <1>8, PowerOfTwo
    <3>2. QED
      BY <1>2, <1>8, <3>1
  <2>2. UNITY_UINT(a.mask) = a.mask
    <3>1. Unsigned(a.mask, IntSize) = a.mask
      BY <1>1, <1>2, ConversionsKeep
    <3>2. Unsigned(Unsigned(a.mask, IntSize), LongSize) = Unsigned(a.mask, IntSize)
      BY <1>1, <1>2, Widening
    <3>3. QED
      BY <3>1, <3>2 DEF UNITY_UINT
  <2>3. i \in Nat /\ (n \div 2^i) % 2 = 1
    BY <1>1, <1>7, <2>1, <2>2
  <2>4. QED
    BY <2>1, <2>3, BitOfInt
<1>10. PICK j \in 1 .. w : w - j = i
  <2>1. w - i \in 1 .. w /\ w - (w - i) = i
    BY <1>9
  <2>2. QED
    BY <2>1
<1>11. \A n : text(n)[j] = IF bit(n, i) = 1 THEN "1" ELSE "0"
  <2>1. \A n : text(n) = [k \in 1 .. w |->
                            IF (UNITY_UINT(a.mask) \div 2^(w - k)) % 2 = 0 THEN "X"
                            ELSE IF (UNITY_UINT(n) \div 2^(w - k)) % 2 = 1 THEN "1" ELSE "0"]
    BY <1>8, Zenon DEF UnityPrintMask
  <2> HIDE DEF text
  <2>2. \A n : text(n)[j] = IF (UNITY_UINT(a.mask) \div 2^i) % 2 = 0 THEN "X"
                            ELSE IF (UNITY_UINT(n) \div 2^i) % 2 = 1 THEN "1" ELSE "0"
    BY <1>10, <2>1
  <2>3. QED
    BY <1>7, <2>2
<1>12. text(a.expected)[j] # text(a.actual)[j]
  <2> HIDE DEF text
  <2>1. bit(a.expected, i) \in {0, 1} /\ bit(a.actual, i) \in {0, 1}
    BY <1>2, <1>4
  <2> HIDE DEF bit
  <2>2. QED
    BY <1>7, <1>11, <2>1
<1> HIDE DEF text
<1>13. PICK f : f = r[1] /\ f.expected # f.was
  BY <1>6, <1>12, ReportHolds
<1>14. QED
  BY <1>5, <1>13 DEF ReportShows, Walked, ArrayMacros, FloatArrayMacros, StringArrayMacros,
                     MemoryMacros

-----------------------------------------------------------------------------
(* The text of a string.  Whoever knows where one begins can read it back: *)
(* the first places tell the character, when it is not a backslash.        *)

PlainChars == {n \in Chars : n \in DOMAIN Glyph => Glyph[n] # "\\"}

(* What the printed characters consist of.                                 *)
Ink == {Glyph[n] : n \in DOMAIN Glyph} \cup {"\\", "r", "n", "x", "'", "NULL"}
         \cup {Digit[c] : c \in 1 .. 16}

LEMMA HexTells ==
  ASSUME NEW m \in Chars, NEW n \in Chars,
         UnityPrintNumberHex(UNITY_UINT(m), 2) = UnityPrintNumberHex(UNITY_UINT(n), 2)
  PROVE  m = n
<1>1. 1 \in Sizes /\ LongSize \in Sizes /\ 1 <= LongSize /\ 2 * 1 = 2
  BY SizesOrdered
<1>2. Bits(1) = ByteBits
  BY SizesAssumption DEF Bits
<1>3. ASSUME NEW c \in Chars
      PROVE  /\ c \in Int /\ UNITY_UINT(c) \in Nat /\ Signed(c, 1) = c
             /\ Numeral(UnityPrintNumberHex(UNITY_UINT(c), 2), 2^Nibble) = Unsigned(c, 1)
  <2>1. PICK h \in Nat \ {0} : h = 2^(Bits(1) - 1)
    BY <1>1, WidthFacts
  <2>2. c \in -h .. h - 1
    BY <1>2, <2>1 DEF Chars
  <2>3. Signed(c, 1) = c
    BY <1>1, <2>1, <2>2, ConversionsKeep
  <2>4. UNITY_UINT(c) \in Nat
    <3>1. 2^Bits(LongSize) \in Nat \ {0} /\ UNITY_UINT(c) \in 0 .. 2^Bits(LongSize) - 1
      BY <1>1, <2>2, WidthFacts, Conversions DEF UNITY_UINT
    <3>2. QED
      BY <3>1
  <2>5. Unsigned(UNITY_UINT(c), 1) = Unsigned(c, 1)
    BY <1>1, <2>2, Narrowing DEF UNITY_UINT
  <2>6. Numeral(UnityPrintNumberHex(UNITY_UINT(c), 2 * 1), 2^Nibble)
          = Unsigned(UNITY_UINT(c), 1)
    BY <1>1, <2>4, HexReads
  <2>7. QED
    BY <1>1, <2>2, <2>3, <2>4, <2>5, <2>6
<1>4. Unsigned(m, 1) = Unsigned(n, 1)
  BY <1>3
<1>5. QED
  BY <1>1, <1>3, <1>4, SameBits

(* A character is itself, an escape of two places, or one of four.         *)
LEMMA CharacterText ==
  ASSUME NEW n \in PlainChars
  PROVE  LET c == UnityPrintChar(n)
             h == UnityPrintNumberHex(UNITY_UINT(n), 2)
         IN  /\ c \in Seq(Ink)
             /\ \/ n \in DOMAIN Glyph /\ Len(c) = 1 /\ c[1] = Glyph[n] /\ c[1] # "\\"
                \/ n = CR /\ Len(c) = 2 /\ c[1] = "\\" /\ c[2] = "r"
                \/ n = LF /\ Len(c) = 2 /\ c[1] = "\\" /\ c[2] = "n"
                \/ /\ Len(c) = 4 /\ c[1] = "\\" /\ c[2] = "x"
                   /\ Len(h) = 2 /\ h \in Seq(Ink) /\ c[3] = h[1] /\ c[4] = h[2]
<1> DEFINE c == UnityPrintChar(n)
           h == UnityPrintNumberHex(UNITY_UINT(n), 2)
<1>1. n \in Chars /\ (n \in DOMAIN Glyph => Glyph[n] # "\\")
  BY DEF PlainChars
<1>2. CASE n \in DOMAIN Glyph
  <2>1. c = <<Glyph[n]>> /\ Glyph[n] \in Ink
    BY <1>2 DEF UnityPrintChar, Ink
  <2>2. QED
    BY <1>1, <1>2, <2>1
<1>3. CASE n \notin DOMAIN Glyph /\ n = CR
  <2>1. c = <<"\\", "r">> /\ "\\" \in Ink /\ "r" \in Ink
    BY <1>3 DEF UnityPrintChar, Ink
  <2>2. QED
    BY <1>3, <2>1
<1>4. CASE n \notin DOMAIN Glyph /\ n # CR /\ n = LF
  <2>1. c = <<"\\", "n">> /\ "\\" \in Ink /\ "n" \in Ink
    BY <1>4 DEF UnityPrintChar, Ink
  <2>2. QED
    BY <1>4, <2>1
<1>5. CASE n \notin DOMAIN Glyph /\ n # CR /\ n # LF
  <2>1. PICK u \in Nat : u = UNITY_UINT(n)
    <3>1. n \in Int /\ LongSize \in Sizes
      <4>1. 2^(Bits(1) - 1) \in Nat \ {0} /\ Bits(1) = ByteBits
        BY WidthFacts, SizesOrdered, SizesAssumption DEF Bits
      <4>2. QED
        BY <1>1, <4>1, SizesOrdered DEF Chars
    <3>2. 2^Bits(LongSize) \in Nat \ {0} /\ UNITY_UINT(n) \in 0 .. 2^Bits(LongSize) - 1
      BY <3>1, WidthFacts, Conversions DEF UNITY_UINT
    <3>3. QED
      BY <3>2
  <2>2. h \in Seq({Digit[d] : d \in 1 .. 16}) /\ Len(h) = 2
    <3>1. 2 * 1 = 2 /\ 1 \in Sizes
      BY SizesOrdered
    <3>2. UnityPrintNumberHex(u, 2 * 1) \in Seq({Digit[d] : d \in 1 .. 16})
          /\ Len(UnityPrintNumberHex(u, 2 * 1)) = 2 * 1
      BY <3>1, HexReads
    <3>3. QED
      BY <2>1, <3>1, <3>2
  <2> HIDE DEF h
  <2>3. h \in Seq(Ink)
    BY <2>2 DEF Ink
  <2>4. c = <<"\\", "x">> \o h
    BY <1>5 DEF UnityPrintChar, h
  <2>5. <<"\\", "x">> \in Seq(Ink)
    BY DEF Ink
  <2>6. /\ c \in Seq(Ink) /\ Len(c) = 2 + Len(h)
        /\ \A i \in 1 .. 2 + Len(h) : c[i] = IF i <= 2 THEN <<"\\", "x">>[i] ELSE h[i - 2]
    <3>1. Len(<<"\\", "x">>) = 2
      OBVIOUS
    <3> HIDE DEF c
    <3>2. QED
      BY <2>3, <2>4, <2>5, <3>1, ConcatProperties
  <2> HIDE DEF c
  <2>7. /\ c[1] = <<"\\", "x">>[1] /\ c[2] = <<"\\", "x">>[2] /\ c[3] = h[1] /\ c[4] = h[2]
    BY <2>2, <2>6
  <2>8. <<"\\", "x">>[1] = "\\" /\ <<"\\", "x">>[2] = "x"
    OBVIOUS
  <2>9. QED
    BY <2>2, <2>3, <2>6, <2>7, <2>8 DEF c, h
<1>6. QED
  BY <1>2, <1>3, <1>4, <1>5

(* Two texts that begin with a character begin with the same one.          *)
LEMMA SameCharacter ==
  ASSUME NEW m \in PlainChars, NEW n \in PlainChars
  PROVE  \A s, t \in Seq(Ink) : UnityPrintChar(m) \o s = UnityPrintChar(n) \o t => m = n /\ s = t
<1> SUFFICES ASSUME NEW s \in Seq(Ink), NEW t \in Seq(Ink),
                    UnityPrintChar(m) \o s = UnityPrintChar(n) \o t
             PROVE  m = n /\ s = t
  OBVIOUS
<1>1. PICK c, h : c = UnityPrintChar(m) /\ h = UnityPrintNumberHex(UNITY_UINT(m), 2)
  OBVIOUS
<1>2. PICK d, g : d = UnityPrintChar(n) /\ g = UnityPrintNumberHex(UNITY_UINT(n), 2)
  OBVIOUS
<1>3. PICK w : w = c \o s /\ w = d \o t
  BY <1>1, <1>2
<1>4. /\ c \in Seq(Ink)
      /\ \/ m \in DOMAIN Glyph /\ Len(c) = 1 /\ c[1] = Glyph[m] /\ c[1] # "\\"
         \/ m = CR /\ Len(c) = 2 /\ c[1] = "\\" /\ c[2] = "r"
         \/ m = LF /\ Len(c) = 2 /\ c[1] = "\\" /\ c[2] = "n"
         \/ /\ Len(c) = 4 /\ c[1] = "\\" /\ c[2] = "x"
            /\ Len(h) = 2 /\ h \in Seq(Ink) /\ c[3] = h[1] /\ c[4] = h[2]
  BY <1>1, CharacterText
<1>5. /\ d \in Seq(Ink)
      /\ \/ n \in DOMAIN Glyph /\ Len(d) = 1 /\ d[1] = Glyph[n] /\ d[1] # "\\"
         \/ n = CR /\ Len(d) = 2 /\ d[1] = "\\" /\ d[2] = "r"
         \/ n = LF /\ Len(d) = 2 /\ d[1] = "\\" /\ d[2] = "n"
         \/ /\ Len(d) = 4 /\ d[1] = "\\" /\ d[2] = "x"
            /\ Len(g) = 2 /\ g \in Seq(Ink) /\ d[3] = g[1] /\ d[4] = g[2]
  BY <1>2, CharacterText
<1>6. \A i \in 1 .. Len(c) : w[i] = c[i]
  <2>1. Len(s) \in Nat /\ Len(c) \in Nat
    BY <1>4, LenProperties
  <2>2. \A i \in 1 .. Len(c) + Len(s) : w[i] = IF i <= Len(c) THEN c[i] ELSE s[i - Len(c)]
    <3>1. \A i \in 1 .. Len(c) + Len(s) : (c \o s)[i] = IF i <= Len(c) THEN c[i] ELSE s[i - Len(c)]
      BY <1>4, ConcatProperties
    <3>2. QED
      BY <1>3, <3>1, Zenon
  <2>3. QED
    BY <2>1, <2>2
<1>7. \A i \in 1 .. Len(d) : w[i] = d[i]
  <2>1. Len(t) \in Nat /\ Len(d) \in Nat
    BY <1>5, LenProperties
  <2>2. \A i \in 1 .. Len(d) + Len(t) : w[i] = IF i <= Len(d) THEN d[i] ELSE t[i - Len(d)]
    <3>1. \A i \in 1 .. Len(d) + Len(t) : (d \o t)[i] = IF i <= Len(d) THEN d[i] ELSE t[i - Len(d)]
      BY <1>5, ConcatProperties
    <3>2. QED
      BY <1>3, <3>1, Zenon
  <2>3. QED
    BY <2>1, <2>2
<1>8. m = n
  <2>1. w[1] = c[1] /\ w[1] = d[1]
    BY <1>4, <1>5, <1>6, <1>7
  <2>2. CASE c[1] # "\\"
    <3>1. m \in DOMAIN Glyph /\ n \in DOMAIN Glyph /\ Glyph[m] = Glyph[n]
      BY <1>4, <1>5, <2>1, <2>2
    <3>2. QED
      BY <3>1, GlyphAssumption
  <2>3. CASE c[1] = "\\"
    <3>1. Len(c) \in {2, 4} /\ Len(d) \in {2, 4}
      BY <1>4, <1>5, <2>1, <2>3
    <3>2. c[2] = d[2]
      <4>1. 2 \in 1 .. Len(c) /\ 2 \in 1 .. Len(d)
        <5>1. \A k \in {2, 4} : 2 \in 1 .. k
          OBVIOUS
        <5>2. QED
          BY <3>1, <5>1, Zenon
      <4>2. QED
        BY <1>6, <1>7, <4>1
    <3>3. CASE c[2] \in {"r", "n"}
      BY <1>4, <1>5, <2>1, <2>3, <3>2, <3>3
    <3>4. CASE c[2] \notin {"r", "n"}
      <4>1. /\ Len(c) = 4 /\ Len(h) = 2 /\ h \in Seq(Ink) /\ c[3] = h[1] /\ c[4] = h[2]
            /\ Len(d) = 4 /\ Len(g) = 2 /\ g \in Seq(Ink) /\ d[3] = g[1] /\ d[4] = g[2]
        BY <1>4, <1>5, <2>1, <2>3, <3>2, <3>4
      <4>2. h[1] = g[1] /\ h[2] = g[2]
        <5>1. 3 \in 1 .. 4 /\ 4 \in 1 .. 4
          OBVIOUS
        <5>2. QED
          BY <1>6, <1>7, <4>1, <5>1
      <4>3. h = g
        <5>1. \A i \in 1 .. 2 : i = 1 \/ i = 2
          OBVIOUS
        <5>2. \A i \in 1 .. Len(h) : h[i] = g[i]
          BY <4>1, <4>2, <5>1
        <5>3. QED
          BY <4>1, <5>2, SeqEqual
      <4>4. m \in Chars /\ n \in Chars
        BY DEF PlainChars
      <4>5. QED
        BY <1>1, <1>2, <4>3, <4>4, HexTells
    <3>5. QED
      BY <3>3, <3>4
  <2>4. QED
    BY <2>2, <2>3
<1>9. s = t
  <2>1. c \o s = c \o t
    BY <1>1, <1>2, <1>3, <1>8
  <2>2. QED
    BY <1>4, <2>1, ConcatSimplifications
<1>10. QED
  BY <1>8, <1>9

(* The text of a string tells the string.                                  *)
Text(x) == FlattenSeq([i \in 1 .. Len(x) |-> UnityPrintChar(x[i])])

LEMMA TextFacts ==
  ASSUME NEW x \in Seq(PlainChars)
  PROVE  /\ Text(x) \in Seq(Ink)
         /\ x = <<>> => Text(x) = <<>>
         /\ x # <<>> => /\ x[1] \in PlainChars /\ Tail(x) \in Seq(PlainChars)
                        /\ Text(x) = UnityPrintChar(x[1]) \o Text(Tail(x))
                        /\ UnityPrintChar(x[1]) # <<>>
<1> DEFINE s == [i \in 1 .. Len(x) |-> UnityPrintChar(x[i])]
<1>1. Len(x) \in Nat /\ \A i \in 1 .. Len(x) : x[i] \in PlainChars
  BY LenProperties, ElementOfSeq
<1>2. \A i \in 1 .. Len(x) : UnityPrintChar(x[i]) \in Seq(Ink)
  BY <1>1, CharacterText
<1>3. s \in Seq(Seq(Ink)) /\ Len(s) = Len(x)
  BY <1>1, <1>2
<1>4. Text(x) \in Seq(Ink)
  BY <1>3, FlattenType DEF Text
<1>5. ASSUME x = <<>>
      PROVE  Text(x) = <<>>
  <2>1. Len(x) = 0
    BY <1>5, EmptySeq
  <2>2. s = SubSeq(s, 1, 0) \/ s = <<>>
    BY <1>3, <2>1, EmptySeq
  <2> HIDE DEF s
  <2>3. SubSeq(s, 1, 0) = <<>>
    BY SubSeqEmpty
  <2>4. FlattenSeq(SubSeq(s, 1, 0)) = <<>>
    BY <1>3, FlattenPrefix
  <2>5. QED
    BY <2>2, <2>3, <2>4 DEF Text, s
<1>6. ASSUME x # <<>>
      PROVE  /\ x[1] \in PlainChars /\ Tail(x) \in Seq(PlainChars)
             /\ Text(x) = UnityPrintChar(x[1]) \o Text(Tail(x))
             /\ UnityPrintChar(x[1]) # <<>>
  <2>1. /\ Len(x) \in Nat \ {0} /\ Tail(x) \in Seq(PlainChars) /\ Len(Tail(x)) = Len(x) - 1
        /\ \A i \in 1 .. Len(Tail(x)) : Tail(x)[i] = x[i + 1]
    BY <1>6, EmptySeq, HeadTailProperties
  <2>2. x[1] \in PlainChars /\ s[1] = UnityPrintChar(x[1])
    BY <1>1, <2>1
  <2>3. PICK y : y = Tail(x)
    OBVIOUS
  <2> DEFINE t == [i \in 1 .. Len(y) |-> UnityPrintChar(y[i])]
  <2>4. t \in Seq(Seq(Ink)) /\ Len(t) = Len(x) - 1
    <3>1. Len(y) \in Nat /\ \A i \in 1 .. Len(y) : y[i] \in PlainChars
      BY <2>1, <2>3, LenProperties, ElementOfSeq
    <3>2. \A i \in 1 .. Len(y) : UnityPrintChar(y[i]) \in Seq(Ink)
      BY <3>1, CharacterText
    <3>3. QED
      BY <2>1, <2>3, <3>1, <3>2
  <2>5. \A i \in 1 .. Len(x) - 1 : t[i] = s[i + 1]
    <3>1. ASSUME NEW i \in 1 .. Len(x) - 1
          PROVE  t[i] = s[i + 1]
      <4>1. i \in 1 .. Len(y) /\ i + 1 \in 1 .. Len(x) /\ y[i] = x[i + 1]
        BY <1>1, <2>1, <2>3
      <4>2. QED
        BY <4>1
    <3>2. QED
      BY <3>1
  <2> HIDE DEF s, t
  <2>6. s # <<>>
    BY <1>3, <2>1, EmptySeq
  <2>7. /\ Tail(s) \in Seq(Seq(Ink)) /\ Len(Tail(s)) = Len(s) - 1
        /\ \A i \in 1 .. Len(Tail(s)) : Tail(s)[i] = s[i + 1]
    BY <1>3, <2>6, HeadTailProperties
  <2>8. Tail(s) = t
    <3>1. Len(Tail(s)) = Len(t) /\ \A i \in 1 .. Len(Tail(s)) : Tail(s)[i] = t[i]
      BY <1>3, <2>4, <2>5, <2>7
    <3>2. QED
      BY <2>4, <2>7, <3>1, SeqEqual
  <2>9. FlattenSeq(s) = s[1] \o FlattenSeq(Tail(s))
    BY <1>3, <2>6, FlattenTail
  <2>10. Text(x) = UnityPrintChar(x[1]) \o Text(y)
    BY <2>2, <2>8, <2>9 DEF Text, s, t
  <2>11. UnityPrintChar(x[1]) # <<>>
    <3>1. PICK c : c = UnityPrintChar(x[1])
      OBVIOUS
    <3>2. Len(c) \in {1, 2, 4}
      BY <2>2, <3>1, CharacterText
    <3>3. Len(<<>>) \notin {1, 2, 4}
      OBVIOUS
    <3>4. QED
      BY <3>1, <3>2, <3>3, Zenon
  <2>12. QED
    BY <2>1, <2>2, <2>3, <2>10, <2>11
<1>7. QED
  BY <1>4, <1>5, <1>6

LEMMA TextTells ==
  ASSUME NEW x \in Seq(PlainChars), NEW y \in Seq(PlainChars), Text(x) = Text(y)
  PROVE  x = y
<1> DEFINE T == {n \in Nat : \A v, w \in Seq(PlainChars) :
                               Len(v) = n /\ Text(v) = Text(w) => v = w}
<1>1. ASSUME NEW v \in Seq(PlainChars), v # <<>>
      PROVE  Text(v) # <<>>
  <2>1. PICK c, t : c = UnityPrintChar(v[1]) /\ t = Text(Tail(v))
    OBVIOUS
  <2>2. c \in Seq(Ink) /\ c # <<>> /\ t \in Seq(Ink) /\ Text(v) = c \o t
    <3>1. v[1] \in PlainChars /\ Tail(v) \in Seq(PlainChars) /\ Text(v) = c \o t /\ c # <<>>
      BY <1>1, <2>1, TextFacts
    <3>2. QED
      BY <2>1, <3>1, TextFacts, CharacterText
  <2>3. QED
    BY <2>2, ConcatEqualIffEmpty
<1>2. 0 \in T
  <2>1. ASSUME NEW v \in Seq(PlainChars), NEW w \in Seq(PlainChars), Len(v) = 0,
               Text(v) = Text(w)
        PROVE  v = w
    <3>1. v = <<>>
      BY <2>1, EmptySeq
    <3>2. Text(w) = <<>>
      BY <2>1, <3>1, TextFacts
    <3>3. QED
      BY <1>1, <3>1, <3>2
  <2>2. QED
    BY <2>1
<1>3. ASSUME NEW n \in T
      PROVE  n + 1 \in T
  <2>1. ASSUME NEW v \in Seq(PlainChars), NEW w \in Seq(PlainChars), Len(v) = n + 1,
               Text(v) = Text(w)
        PROVE  v = w
    <3>1. v # <<>>
      <4>1. Len(<<>>) # n + 1
        OBVIOUS
      <4>2. QED
        BY <2>1, <4>1
    <3>2. w # <<>>
      <4>1. Text(<<>>) = <<>>
        BY EmptySeq, TextFacts
      <4>2. QED
        BY <1>1, <2>1, <3>1, <4>1
    <3>3. PICK s, t : s = Tail(v) /\ t = Tail(w)
      OBVIOUS
    <3>4. /\ v[1] \in PlainChars /\ s \in Seq(PlainChars)
          /\ Text(v) = UnityPrintChar(v[1]) \o Text(s)
      BY <3>1, <3>3, TextFacts
    <3>5. /\ w[1] \in PlainChars /\ t \in Seq(PlainChars)
          /\ Text(w) = UnityPrintChar(w[1]) \o Text(t)
      BY <3>2, <3>3, TextFacts
    <3>6. PICK p, q : p = Text(s) /\ q = Text(t) /\ p \in Seq(Ink) /\ q \in Seq(Ink)
      BY <3>4, <3>5, TextFacts
    <3>7. PICK a, b : a = v[1] /\ b = w[1]
      OBVIOUS
    <3>8. v[1] = w[1] /\ p = q
      <4>1. a \in PlainChars /\ b \in PlainChars /\ UnityPrintChar(a) \o p = UnityPrintChar(b) \o q
        BY <2>1, <3>4, <3>5, <3>6, <3>7
      <4>2. \A f, g \in Seq(Ink) : UnityPrintChar(a) \o f = UnityPrintChar(b) \o g => a = b /\ f = g
        BY <4>1, SameCharacter, Zenon
      <4>3. p \in Seq(Ink) /\ q \in Seq(Ink)
        BY <3>6
      <4>4. a = b /\ p = q
        BY <4>1, <4>2, <4>3, Zenon
      <4>5. QED
        BY <3>7, <4>4
    <3>9. /\ Len(s) = Len(v) - 1 /\ \A i \in 1 .. Len(s) : s[i] = v[i + 1]
          /\ Len(t) = Len(w) - 1 /\ \A i \in 1 .. Len(t) : t[i] = w[i + 1]
      BY <3>1, <3>2, <3>3, HeadTailProperties
    <3>10. s = t
      <4>1. Len(s) = n
        BY <2>1, <3>9
      <4>2. QED
        BY <3>4, <3>5, <3>6, <3>8, <4>1
    <3>11. Len(v) = Len(w) /\ Len(v) \in Nat
      BY <3>9, <3>10, LenProperties
    <3>12. \A i \in 1 .. Len(v) : v[i] = w[i]
      <4>1. ASSUME NEW i \in 1 .. Len(v), i # 1
            PROVE  v[i] = w[i]
        <5>1. i - 1 \in 1 .. Len(s) /\ (i - 1) + 1 = i
          BY <3>9, <3>11, <4>1
        <5>2. QED
          BY <3>9, <3>10, <5>1
      <4>2. QED
        BY <3>8, <4>1
    <3>13. QED
      BY <3>11, <3>12, SeqEqual
  <2>2. n + 1 \in Nat
    OBVIOUS
  <2>3. QED
    BY <2>1, <2>2
<1>4. T = Nat
  <2>1. T \subseteq Nat
    OBVIOUS
  <2> HIDE DEF T
  <2>2. QED
    BY <1>2, <1>3, <2>1, SetInduction
<1>5. QED
  <2>1. Len(x) \in T
    BY <1>4, LenProperties
  <2>2. QED
    BY <2>1

(* The text in quotes tells the part of the string that is printed.        *)
LEMMA QuotedTells ==
  ASSUME NEW x \in CStrings, NEW length \in Nat, Plain(x)
  PROVE  /\ Prefix(x, length).of \in Seq(PlainChars)
         /\ Quoted(x, length) = IF x.at = 0 THEN <<"NULL">>
                                ELSE <<"'">> \o Text(Prefix(x, length).of) \o <<"'">>
<1> DEFINE p == Prefix(x, length).of
<1>1. /\ p \in Seq(Chars) /\ Len(p) \in Nat /\ Len(x.of) \in Nat
      /\ Len(p) = IF length <= Len(x.of) THEN length ELSE Len(x.of)
      /\ \A i \in 1 .. Len(p) : p[i] = x.of[i]
      /\ x.of \in Seq(Chars)
      /\ x \in [at : Nat, of : Seq(Chars)]
  BY PrefixFacts, LenProperties DEF CStrings
<1>2. p = SubSeq(x.of, 1, Min({length, Len(x.of)}))
  <2>1. Prefix(x, length) = [x EXCEPT !.of = SubSeq(x.of, 1, Min({length, Len(x.of)}))]
    BY DEF Prefix
  <2> DEFINE s == SubSeq(x.of, 1, Min({length, Len(x.of)}))
  <2> HIDE DEF s
  <2>2. [x EXCEPT !.of = s].of = s
    BY <1>1
  <2>3. QED
    BY <2>1, <2>2 DEF s
<1> HIDE DEF p
<1>3. p \in Seq(PlainChars)
  <2>1. \A i \in 1 .. Len(p) : p[i] \in PlainChars
    <3>1. ASSUME NEW i \in 1 .. Len(p)
          PROVE  p[i] \in PlainChars
      <4>1. i \in 1 .. Len(x.of) /\ p[i] \in Chars
        BY <1>1, ElementOfSeq
      <4>2. i \in DOMAIN x.of
        BY <1>1, <4>1, LenProperties
      <4>3. QED
        BY <1>1, <4>1, <4>2 DEF Plain, PlainChars
    <3>2. QED
      BY <3>1
  <2>2. p \in [1 .. Len(p) -> Chars]
    BY <1>1, LenProperties
  <2>3. p \in [1 .. Len(p) -> PlainChars]
    BY <2>1, <2>2
  <2>4. QED
    BY <1>1, <2>3, SeqDef
<1>4. x.at # 0 => UnityPrintLen(x, length) = Text(p)
  BY <1>2 DEF UnityPrintLen, Text
<1>5. Quoted(x, length) = IF x.at = 0 THEN <<"NULL">> ELSE <<"'">> \o Text(p) \o <<"'">>
  BY <1>4 DEF Quoted
<1>6. QED
  BY <1>3, <1>5 DEF p

(* Two strings that differ as far as they are compared are printed so.     *)
LEMMA QuotedDiffer ==
  ASSUME NEW x \in CStrings, NEW y \in CStrings, NEW length \in Nat, Plain(x), Plain(y),
         StringsDiffer(x, y, length)
  PROVE  Quoted(x, length) # Quoted(y, length)
<1>1. PICK p, q : p = Prefix(x, length).of /\ q = Prefix(y, length).of
  OBVIOUS
<1>2. /\ p \in Seq(PlainChars) /\ q \in Seq(PlainChars)
      /\ Quoted(x, length) = IF x.at = 0 THEN <<"NULL">> ELSE <<"'">> \o Text(p) \o <<"'">>
      /\ Quoted(y, length) = IF y.at = 0 THEN <<"NULL">> ELSE <<"'">> \o Text(q) \o <<"'">>
  BY <1>1, QuotedTells
<1>3. ~((x.at = 0) = (y.at = 0) /\ p = q)
  <2>1. ~SameString(Prefix(x, length), Prefix(y, length))
    BY StringsDifferMeans
  <2>2. Prefix(x, length).at = x.at /\ Prefix(y, length).at = y.at
    BY PrefixFacts
  <2>3. QED
    BY <1>1, <2>1, <2>2 DEF SameString
<1>4. x.at = 0 => p = <<>>
  BY <1>1, PrefixFacts DEF CStrings
<1>5. y.at = 0 => q = <<>>
  BY <1>1, PrefixFacts DEF CStrings
<1>6. PICK t, u : t = Text(p) /\ u = Text(q) /\ t \in Seq(Ink) /\ u \in Seq(Ink)
  BY <1>2, TextFacts
<1>7. <<"'">> \in Seq(Ink) /\ <<"NULL">> \in Seq(Ink)
  BY DEF Ink
<1>8. \A v \in Seq(Ink) : <<"'">> \o v \o <<"'">> # <<"NULL">>
  <2>1. ASSUME NEW v \in Seq(Ink)
        PROVE  <<"'">> \o v \o <<"'">> # <<"NULL">>
    <3>1. PICK quote : quote = <<"'">> /\ Len(quote) = 1
      <4>1. Len(<<"'">>) = 1
        OBVIOUS
      <4>2. QED
        BY <4>1, Zenon
    <3>2. quote \o v \in Seq(Ink) /\ Len(quote \o v) = 1 + Len(v) /\ Len(v) \in Nat
      BY <1>7, <3>1, ConcatProperties, LenProperties
    <3>3. Len((quote \o v) \o quote) = 1 + Len(v) + 1
      BY <1>7, <3>1, <3>2, ConcatProperties
    <3>4. Len(<<"NULL">>) = 1
      OBVIOUS
    <3>5. 1 + Len(v) + 1 # 1
      BY <3>2
    <3>6. QED
      BY <3>1, <3>3, <3>4, <3>5, Zenon
  <2>2. QED
    BY <2>1
<1>9. CASE x.at # 0 /\ y.at # 0
  <2>1. ASSUME <<"'">> \o t \o <<"'">> = <<"'">> \o u \o <<"'">>
        PROVE  FALSE
    <3>1. PICK quote : quote = <<"'">>
      OBVIOUS
    <3>2. quote \in Seq(Ink) /\ quote \o t \in Seq(Ink) /\ quote \o u \in Seq(Ink)
      BY <1>6, <1>7, <3>1, ConcatProperties
    <3>3. quote \o t = quote \o u
      BY <2>1, <3>1, <3>2, ConcatSimplifications
    <3>4. t = u
      BY <1>6, <3>2, <3>3, ConcatSimplifications
    <3>5. p = q
      BY <1>2, <1>6, <3>4, TextTells
    <3>6. QED
      BY <1>3, <1>9, <3>5
  <2>2. QED
    BY <1>2, <1>6, <1>9, <2>1
<1>10. CASE ~(x.at # 0 /\ y.at # 0)
  BY <1>2, <1>3, <1>4, <1>5, <1>6, <1>8, <1>10
<1>11. QED
  BY <1>9, <1>10

-----------------------------------------------------------------------------
(* The reports on strings.                                                 *)

(* What is printed for two strings that are not the same.                  *)
LEMMA WholeQuotedDiffer ==
  ASSUME NEW x \in CStrings, NEW y \in CStrings, Plain(x), Plain(y),
         StringsDiffer(x, y, Longest(x, y))
  PROVE  Quoted(x, Longest(x, y)) # Quoted(y, Longest(x, y))
<1>1. Len(x.of) \in Nat /\ Len(y.of) \in Nat
  BY PrefixFacts
<1>2. Longest(x, y) \in Nat
  <2>1. PICK m \in Nat, n \in Nat : m = Len(x.of) /\ n = Len(y.of)
    BY <1>1
  <2>2. Longest(x, y) = Max({m, n})
    BY <2>1 DEF Longest
  <2>3. QED
    BY <2>2, ExtremesOfTwo
<1>3. QED
  BY <1>2, QuotedDiffer

LEMMA StringShown ==
  ASSUME NEW macro \in StringMacros, NEW a, Typed(macro, a), PrintedInFull(macro, a),
         UnityAssert(macro, a) # <<>>
  PROVE  ReportShows(UnityAssert(macro, a)[1], macro, a)
<1> USE DEF StringMacros
<1>1. PICK x, y : x = a.expected /\ y = a.actual
  OBVIOUS
<1>2. x \in CStrings /\ y \in CStrings /\ Plain(x) /\ Plain(y)
  BY <1>1 DEF Typed, PrintedInFull
<1>3. PICK r : r = UnityAssert(macro, a)
  OBVIOUS
<1>4. r[1].expected # r[1].was
  <2>1. CASE macro = "EQUAL_STRING"
    <3>1. r = UnityAssertEqualString(x, y)
      BY <1>1, <1>3, <2>1 DEF UnityAssert, ByteReport, IntegerMacros, ArrayMacros,
             FloatMacros, FloatArrayMacros, TraitMacros
    <3>2. PICK p, q : p = Quoted(x, Longest(x, y)) /\ q = Quoted(y, Longest(x, y))
      OBVIOUS
    <3>3. StringsDiffer(x, y, Longest(x, y)) /\ r = Report("String", <<>>, p, q)
      BY <1>3, <3>1, <3>2 DEF UnityAssertEqualString, StringReport
    <3>4. p # q
      BY <1>2, <3>2, <3>3, WholeQuotedDiffer
    <3>5. QED
      BY <3>3, <3>4, ReportHolds
  <2>2. CASE macro = "EQUAL_STRING_LEN"
    <3>1. PICK length \in Nat : length = a.length
      BY <2>2, CountsAreNaturals DEF Typed
    <3>2. r = UnityAssertEqualStringLen(x, y, length)
      BY <1>1, <1>3, <2>2, <3>1 DEF UnityAssert, ByteReport, IntegerMacros, ArrayMacros,
             FloatMacros, FloatArrayMacros, TraitMacros
    <3>3. PICK p, q : p = Quoted(x, length) /\ q = Quoted(y, length)
      OBVIOUS
    <3>4. StringsDiffer(x, y, length) /\ r = Report("String", <<>>, p, q)
      BY <1>3, <3>2, <3>3 DEF UnityAssertEqualStringLen, StringReport
    <3>5. p # q
      BY <1>2, <3>3, <3>4, QuotedDiffer
    <3>6. QED
      BY <3>4, <3>5, ReportHolds
  <2>3. QED
    BY <2>1, <2>2
<1>5. PICK f : f = r[1] /\ f.expected # f.was
  BY <1>4
<1>6. ReportShows(f, macro, a)
  BY <1>5 DEF ReportShows, Walked, ArrayMacros, FloatArrayMacros, StringArrayMacros, MemoryMacros
<1>7. QED
  BY <1>3, <1>5, <1>6

LEMMA StringArrayShown ==
  ASSUME NEW macro \in StringArrayMacros, NEW a, Typed(macro, a), PrintedInFull(macro, a),
         UnityAssert(macro, a) # <<>>
  PROVE  ReportShows(UnityAssert(macro, a)[1], macro, a)
<1> USE DEF StringArrayMacros
<1>1. PICK n, flags : /\ n = a.num_elements
                      /\ flags = IF macro = "EQUAL_STRING_ARRAY" THEN "ARRAY_TO_ARRAY"
                                                                 ELSE "ARRAY_TO_VAL"
  OBVIOUS
<1>2. PICK e, o : e = a.expected /\ o = a.actual
  OBVIOUS
<1>3. PICK E : E = [i \in 1 .. n |-> IF flags = "ARRAY_TO_ARRAY" THEN e.of[i] ELSE e]
  OBVIOUS
<1>4. PICK A : A = o.of
  OBVIOUS
<1>5. PICK bad : bad = {i \in 1 .. n : StringsDiffer(E[i], A[i], Longest(E[i], A[i]))}
  OBVIOUS
<1>6. PICK k : k = Min(bad)
  OBVIOUS
<1>7. /\ n \in Counts /\ n \in Nat /\ IsArray(o, n, CStrings)
      /\ macro \in Walked /\ macro \notin MemoryMacros /\ macro \notin ArrayMacros
      /\ macro = "EQUAL_STRING_ARRAY" => IsArray(e, n, CStrings)
      /\ macro = "EACH_EQUAL_STRING" => e \in CStrings
  BY <1>1, <1>2, CountsAreNaturals DEF Typed, Walked, MemoryMacros, ArrayMacros
<1>8. PICK r : r = UnityAssert(macro, a) /\ r # <<>>
  OBVIOUS
<1>9. r = UnityAssertEqualStringArray(e, o, n, flags)
  BY <1>1, <1>2, <1>8 DEF UnityAssert, ByteReport, IntegerMacros, ArrayMacros, FloatMacros,
         FloatArrayMacros, TraitMacros
<1> DEFINE Found == StringReport(IF n > 1 THEN Element(k) ELSE <<>>, E[k], A[k],
                                 Longest(E[k], A[k]))
<1>10. PICK walk : r = ArrayReport(e, o, n, walk)
                   /\ (walk # <<>> => k \in bad /\ walk = Found)
  <2> DEFINE F(i) == IF flags = "ARRAY_TO_ARRAY" THEN e.of[i] ELSE e
             differ == {i \in 1 .. n : StringsDiffer(F(i), o.of[i], Longest(F(i), o.of[i]))}
             first == Min(differ)
             walk == IF differ = {} THEN <<>>
                     ELSE StringReport(IF n > 1 THEN Element(first) ELSE <<>>, F(first),
                                       o.of[first], Longest(F(first), o.of[first]))
  <2>1. r = ArrayReport(e, o, n, walk)
    BY <1>9 DEF UnityAssertEqualStringArray, Walk
  <2>2. \A i \in 1 .. n : F(i) = E[i] /\ o.of[i] = A[i]
    BY <1>3, <1>4
  <2> HIDE DEF walk, F
  <2>3. differ = bad
    BY <1>5, <2>2
  <2>4. bad \subseteq 1 .. n /\ bad \subseteq Nat
    BY <1>5, <1>7
  <2> HIDE DEF differ
  <2>5. ASSUME walk # <<>>
        PROVE  k \in bad /\ walk = Found
    <3>1. differ # {} /\ walk = StringReport(IF n > 1 THEN Element(first) ELSE <<>>, F(first),
                                             o.of[first], Longest(F(first), o.of[first]))
      BY <2>5 DEF walk
    <3>2. first = k /\ k \in bad /\ k \in 1 .. n
      BY <1>6, <2>3, <2>4, <3>1, MinOfNaturals
    <3>3. F(k) = E[k] /\ o.of[k] = A[k]
      BY <2>2, <3>2
    <3> HIDE DEF first
    <3>4. QED
      BY <3>1, <3>2, <3>3
  <2> HIDE DEF Found
  <2>6. QED
    BY <2>1, <2>5
<1>11. CASE r[1].says \in {"Pointless", "NullPointerForExpected", "NullPointerForActual"}
  BY <1>7, <1>8, <1>11, NoWalkShows
<1>12. CASE /\ n # 0 /\ e.at # 0 /\ o.at # 0 /\ k \in bad /\ r = Found
  <2>1. \A i \in 1 .. n : A[i] \in CStrings /\ Plain(A[i])
    <3>1. \A i \in 1 .. n : A[i] \in CStrings
      BY <1>4, <1>7, <1>12, ElementsOf
    <3>2. \A i \in 1 .. n : Plain(A[i])
      BY <1>1, <1>2, <1>4, <1>12 DEF PrintedInFull
    <3>3. QED
      BY <3>1, <3>2
  <2>2. \A i \in 1 .. n : E[i] \in CStrings /\ Plain(E[i])
    <3>1. CASE macro = "EACH_EQUAL_STRING"
      <4>1. \A i \in 1 .. n : E[i] = e
        BY <1>1, <1>3, <3>1
      <4>2. e \in CStrings /\ Plain(e)
        BY <1>2, <1>7, <3>1 DEF PrintedInFull
      <4>3. QED
        BY <4>1, <4>2
    <3>2. CASE macro = "EQUAL_STRING_ARRAY"
      <4>1. \A i \in 1 .. n : E[i] = e.of[i]
        BY <1>1, <1>3, <3>2
      <4>2. \A i \in 1 .. n : e.of[i] \in CStrings
        BY <1>7, <1>12, <3>2, ElementsOf
      <4>3. \A i \in 1 .. n : Plain(e.of[i])
        BY <1>1, <1>2, <1>12, <3>2 DEF PrintedInFull
      <4>4. QED
        BY <4>1, <4>2, <4>3
    <3>3. QED
      BY <3>1, <3>2
  <2>3. bad = Mismatches(macro, a)
    <3>1. Count(macro, a) = n
      BY <1>1 DEF Count, MemoryMacros
    <3>2. Mismatches(macro, a)
            = {i \in 1 .. n : ~SameString(ExpectedAt(macro, a, i), A[i])}
      BY <1>2, <1>4, <3>1 DEF Mismatches, AgreesAt, MemoryMacros, ArrayMacros, FloatArrayMacros
    <3>3. \A i \in 1 .. n : ExpectedAt(macro, a, i) = E[i]
      BY <1>1, <1>2, <1>3 DEF ExpectedAt
    <3>4. \A i \in 1 .. n : StringsDiffer(E[i], A[i], Longest(E[i], A[i]))
                              <=> ~SameString(E[i], A[i])
      BY <2>1, <2>2, WholeStringsDiffer
    <3>5. QED
      BY <1>5, <3>2, <3>3, <3>4
  <2>4. PICK x, y : x = E[k] /\ y = A[k]
    OBVIOUS
  <2>5. /\ k \in 1 .. n /\ x \in CStrings /\ y \in CStrings /\ Plain(x) /\ Plain(y)
        /\ StringsDiffer(x, y, Longest(x, y))
    <3>1. k \in 1 .. n /\ StringsDiffer(E[k], A[k], Longest(E[k], A[k]))
      BY <1>5, <1>12
    <3>2. QED
      BY <2>1, <2>2, <2>4, <3>1
  <2>6. PICK p, q, places : /\ p = Quoted(x, Longest(x, y)) /\ q = Quoted(y, Longest(x, y))
                            /\ places = IF n > 1 THEN Element(k) ELSE <<>>
    OBVIOUS
  <2>7. p # q
    BY <2>5, <2>6, WholeQuotedDiffer
  <2>8. r = Report("String", places, p, q)
    BY <1>12, <2>4, <2>6 DEF StringReport
  <2>9. PICK f : f = r[1] /\ f.places = places /\ f.expected # f.was
    BY <2>7, <2>8, ReportHolds
  <2>10. f.places = IF a.num_elements = 1 /\ macro \in StringArrayMacros
                    THEN <<>> ELSE Element(k)
    <3>1. n > 1 <=> n # 1
      BY <1>7, <1>12
    <3>2. QED
      BY <1>1, <2>6, <2>9, <3>1
  <2>11. Names(f, macro, a, k)
    BY <1>1, <1>7, <2>5, <2>10, ElementNamed
  <2>12. ReportShows(f, macro, a)
    <3>1. k = Min(Mismatches(macro, a))
      BY <1>6, <2>3
    <3>2. QED
      BY <1>7, <2>9, <2>11, <3>1, WalkShows
  <2>13. QED
    BY <1>8, <2>9, <2>12
<1> HIDE DEF Found
<1>13. \/ r[1].says \in {"Pointless", "NullPointerForExpected", "NullPointerForActual"}
       \/ r = walk /\ n # 0 /\ e.at # o.at /\ e.at # 0 /\ o.at # 0
  BY <1>8, <1>10, ReportOfArrays
<1>14. QED
  BY <1>8, <1>10, <1>11, <1>12, <1>13

-----------------------------------------------------------------------------
(* The report of every assertion that failed shows what did not hold.      *)
LEMMA Reported ==
  ASSUME NEW macro \in Macros, NEW a, Typed(macro, a), OneSided(macro, a),
         PrintedInFull(macro, a), UnityAssert(macro, a) # <<>>
  PROVE  ReportShows(UnityAssert(macro, a)[1], macro, a)
<1>1. CASE macro \in IntegerMacros
  BY <1>1, IntegerShown
<1>2. CASE macro = "BITS"
  BY <1>2, BitsShown
<1>3. CASE macro = "EQUAL_ARRAY"
  BY <1>3, EqualArrayShown
<1>4. CASE macro = "EACH_EQUAL"
  BY <1>4, EachEqualShown
<1>5. CASE macro = "ARRAY_WITHIN"
  BY <1>5, ArrayWithinShown
<1>6. CASE macro \in FloatArrayMacros
  BY <1>6, FloatArrayShown
<1>7. CASE macro \in StringMacros
  BY <1>7, StringShown
<1>8. CASE macro \in StringArrayMacros
  BY <1>8, StringArrayShown
<1>9. CASE macro \in MemoryMacros
  BY <1>9, MemoryShown
<1>10. CASE macro \in {"TRUE"} \cup FloatMacros \cup TraitMacros
  <2>1. /\ macro # "EQUAL" /\ macro # "WITHIN" /\ macro # "ORDER"
        /\ macro \notin StringMacros \cup {"BITS"} /\ macro \notin Walked
    BY <1>10 DEF FloatMacros, TraitMacros, StringMacros, Walked, ArrayMacros, FloatArrayMacros,
                 StringArrayMacros, MemoryMacros
  <2>2. QED
    BY <2>1 DEF ReportShows
<1>11. QED
  BY <1>1, <1>2, <1>3, <1>4, <1>5, <1>6, <1>7, <1>8, <1>9, <1>10 DEF Macros, ArrayMacros
=============================================================================
