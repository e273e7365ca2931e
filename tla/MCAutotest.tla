----------------------------- MODULE MCAutotest -----------------------------
(***************************************************************************)
(* Instances of Autotest: bytes of 4 bits, an int of 2 bytes, UNITY_INT of *)
(* 3; a program for every macro that gives it all of its arguments, and    *)
(* programs that test the memory functions, the threads and the system     *)
(* calls.                                                                  *)
(***************************************************************************)
EXTENDS Autotest

MCGlyph == 4 :> "n" @@ 5 :> "\\"

(* Numbers: the borders of the C type that a macro converts to, and -1.    *)
Borders(bits) == {0, 1, 2^(bits - 1) - 1, 2^(bits - 1), 2^bits - 1}
NumbersOf(style) == Borders(Bits(style.cast)) \cup {-1}
Two(S) == [1 .. 2 -> S]
Elements(style) == {0, 2^(Bits(style.size) - 1) - 1, 2^(Bits(style.size) - 1)}
Compare == {{}, {"GREATER_THAN"}, {"SMALLER_THAN"}, {"EQUAL_TO", "GREATER_THAN"},
            {"EQUAL_TO", "SMALLER_THAN"}}
ForStyles(ArgumentsOf(_)) == UNION {ArgumentsOf(style) : style \in Styles}

(* Arrays: two different ones, the same one twice, NULL once or twice.     *)
Array(at, of) == [at |-> at, of |-> of]
Null == Array(0, <<>>)
Pairs(contents) ==
  {<<Array(1, x), Array(2, y)>> : x \in contents, y \in contents}
    \cup {<<Array(1, x), Array(1, x)>> : x \in contents}
    \cup {<<Null, Array(2, x)>> : x \in contents}
    \cup {<<Array(1, x), Null>> : x \in contents} \cup {<<Null, Null>>}
OrNull(contents) == {Array(2, x) : x \in contents} \cup {Null}

IntArrays(s) ==
  {[style |-> s, expected |-> p[1], actual |-> p[2], num_elements |-> k, delta |-> 1] :
     p \in Pairs(Two(Elements(s))), k \in 0 .. 2}
EachInts(s) ==
  [style : {s}, expected : Elements(s), actual : OrNull(Two(Elements(s))),
   num_elements : 0 .. 2]

Finite(numbers) == {[class |-> "finite", n |-> k] : k \in numbers}
Floating == Finite({-9, -8, -6, 0, 8, 9, 11})
              \cup {[class |-> "nan", n |-> 0]} \cup [class : {"inf"}, n : {1, -1}]
FewFloating == {x \in Floating : x.n \in {-1, 0, 1, 8, 9}}
FloatArrays ==
  {[expected |-> p[1], actual |-> p[2], num_elements |-> k] :
     p \in Pairs(Two(FewFloating)), k \in 0 .. 2}

(* The letter n and the backslash, the line feed that is printed with      *)
(* these two, and a character that is not printable.                       *)
Contents(length) == UNION {[1 .. k -> {4, 5, 2, -1}] : k \in 0 .. length}
StringPairs == Pairs(Contents(2))
Strings == {Array(1, x) : x \in {<<>>, <<4>>, <<4, 2>>}} \cup {Null}
StringArrays ==
  {[expected |-> p[1], actual |-> p[2], num_elements |-> k] :
     p \in Pairs(Two(Strings)), k \in 0 .. 2}
Memories ==
  {[expected |-> p[1], actual |-> p[2], num_elements |-> k, length |-> l] :
     p \in Pairs([1 .. 4 -> {0, 9}]), k \in 0 .. 2, l \in 0 .. 2}

MCArguments == [macro \in Macros |->
  CASE macro = "TRUE" -> [condition : BOOLEAN]
    [] macro = "BITS" ->
         [mask : Borders(8) \cup {-1}, expected : Borders(8) \cup Borders(16),
          actual : Borders(8) \cup Borders(16)]
    [] macro = "EQUAL" ->
         ForStyles(LAMBDA s : [style : {s}, expected : NumbersOf(s), actual : NumbersOf(s)])
    [] macro = "ORDER" ->
         ForStyles(LAMBDA s : [style : {s}, expected : NumbersOf(s), actual : NumbersOf(s),
                               compare : Compare])
    [] macro = "WITHIN" ->
         ForStyles(LAMBDA s : [style : {s}, expected : NumbersOf(s), actual : NumbersOf(s),
                               delta : {0, 1, 2^Bits(s.cast) - 1}])
    [] macro \in {"EQUAL_ARRAY", "ARRAY_WITHIN"} -> ForStyles(IntArrays)
    [] macro = "EACH_EQUAL" -> ForStyles(EachInts)
    [] macro \in {"FLOAT_WITHIN", "DOUBLE_WITHIN"} ->
         [delta : Finite(0 .. 2), expected : Floating, actual : Floating]
    [] macro = "EQUAL_FLOAT" -> [expected : Floating, actual : Floating]
    [] macro \in {"EQUAL_FLOAT_ARRAY", "EQUAL_DOUBLE_ARRAY"} -> FloatArrays
    [] macro = "EACH_EQUAL_FLOAT" ->
         [expected : Floating, actual : OrNull(Two(FewFloating)), num_elements : 0 .. 2]
    [] macro \in TraitMacros ->
         [actual : Floating, trait : {"INF", "NEG_INF", "NAN", "DET"}, should : BOOLEAN]
    [] macro = "EQUAL_STRING" -> {[expected |-> p[1], actual |-> p[2]] : p \in StringPairs}
    [] macro = "EQUAL_STRING_LEN" ->
         {[expected |-> p[1], actual |-> p[2], length |-> l] : p \in StringPairs, l \in 0 .. 2}
    [] macro = "EQUAL_STRING_ARRAY" -> StringArrays
    [] macro = "EACH_EQUAL_STRING" ->
         [expected : Strings, actual : OrNull(Two(Strings)), num_elements : 0 .. 2]
    [] macro \in MemoryMacros -> Memories]

NoArguments  == [macro \in Macros |-> {}]
FewArguments == [NoArguments EXCEPT !["TRUE"] = MCArguments["TRUE"]]
Only(macro)  == [NoArguments EXCEPT ![macro] = MCArguments[macro]]

TestFile(about, tests, arguments) == [about |-> about, tests |-> tests, arguments |-> arguments]

MCPrograms ==
  [macro \in Macros |-> <<TestFile("asserts", 1, Only(macro))>>]
  @@ "asserts" :> <<TestFile("asserts", 1, FewArguments), TestFile("asserts", 2, FewArguments)>>
  @@ "memory"  :> <<TestFile("memory", 2, FewArguments)>>
  @@ "threads" :> <<TestFile("threads", 1, NoArguments)>>
  @@ "calls"   :> <<TestFile("calls", 1, NoArguments), TestFile("asserts", 1, FewArguments)>>

(* The four tests of Test_threading.c: one thread with a locked and with   *)
(* an unlocked mutex, two threads with two mutexes and with one.           *)
MCThreadTests ==
  [mutexes : {<<1>>, <<1, 2>>, <<1, 1>>}, locked : {TRUE}]
    \cup [mutexes : {<<1>>}, locked : {FALSE}]

Command(runs, code, writes) == [runs |-> runs, status |-> code, writes |-> writes]
MCCommands == {Command(TRUE, 0, <<"home", "is">>), Command(TRUE, 0, <<"test">>),
               Command(TRUE, 1, <<"error">>), Command(FALSE, 0, <<>>)}
=============================================================================
