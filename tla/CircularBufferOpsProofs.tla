---------------------- MODULE CircularBufferOpsProofs ----------------------
(***************************************************************************)
(* Lemmas about the operators of CircularBufferOps: what they return for   *)
(* every value of the structure, torn ones included.                       *)
(***************************************************************************)
EXTENDS CircularBufferOps, LibraryFacts

-----------------------------------------------------------------------------
(* Arithmetic of the slot indices.                                         *)

(* The slot index of the code, (i + 1) % MaxOps, wraps at the last slot.   *)
LEMMA NextOffsetWraps ==
  \A i \in Offsets : /\ NextOffset(i) \in Offsets
                     /\ NextOffset(i) = IF i = MaxOps - 1 THEN 0 ELSE i + 1
  BY MaxOpsAssumption DEF NextOffset, Offsets

(* An index below twice the capacity is reduced by at most one capacity.   *)
LEMMA ModOnce ==
  \A x \in 0 .. 2 * MaxOps - 1 :
     x % MaxOps = IF x < MaxOps THEN x ELSE x - MaxOps
  BY MaxOpsAssumption

(* The index before slot 0 is the last slot.                               *)
LEMMA ModMinusOne == (-1) % MaxOps = MaxOps - 1
  BY MaxOpsAssumption

(* The walk never visits more slots than there are, and all in the array.  *)
LEMMA WalkBounds ==
  ASSUME NEW E, NEW b \in Buffers(E)
  PROVE  /\ WalkLength(b) \in 0 .. MaxOps
         /\ \A k \in 1 .. WalkLength(b) : SlotOf(b, k) \in Offsets
<1>1. b.in_offs \in Int /\ b.out_offs \in Int /\ MaxOps \in Nat /\ MaxOps > 0
  BY MaxOpsAssumption DEF Buffers, Offsets
<1>2. \A x \in Int : x % MaxOps \in 0 .. MaxOps - 1
  BY <1>1
<1>3. WalkLength(b) \in 0 .. MaxOps
  <2>1. PICK x \in Int : x = b.in_offs - b.out_offs
    BY <1>1
  <2>2. x % MaxOps \in 0 .. MaxOps - 1 /\ (x - 1) % MaxOps \in 0 .. MaxOps - 1
    BY <1>2, <2>1
  <2>3. QED
    BY <1>1, <2>1, <2>2 DEF WalkLength
<1>4. ASSUME NEW k \in 1 .. WalkLength(b)
      PROVE  SlotOf(b, k) \in Offsets
  <2>1. PICK x \in Int : x = b.out_offs + k - 1
    BY <1>1, <1>3
  <2>2. QED
    BY <1>2, <2>1 DEF SlotOf, Offsets
<1>5. QED
  BY <1>3, <1>4

-----------------------------------------------------------------------------
(* The statements of aesd_circular_buffer_add_entry keep the structure     *)
(* well-typed, each by itself.                                             *)
LEMMA StatementTypes ==
  ASSUME NEW E, NEW b \in Buffers(E), NEW e \in E
  PROVE  /\ StoreEntry(b, e) \in Buffers(E)
         /\ AdvanceIn(b) \in Buffers(E)
         /\ AdvanceOut(b) \in Buffers(E)
         /\ SetFull(b) \in Buffers(E)
<1>1. NextOffset(b.in_offs) \in Offsets
  BY NextOffsetWraps DEF Buffers
<1>2. QED
  BY <1>1 DEF Buffers, StoreEntry, AdvanceIn, AdvanceOut, SetFull

(* memset yields a structure of any type that has the empty slot.          *)
LEMMA InitType ==
  ASSUME NEW E, EmptySlot \in E
  PROVE  aesd_circular_buffer_init \in Buffers(E)
  BY MaxOpsAssumption DEF Buffers, aesd_circular_buffer_init, Offsets

-----------------------------------------------------------------------------
(* The lookups.                                                            *)

(* EndOf is the running sum of the sizes: the recursion is well-defined,   *)
(* by induction on the number of commands.                                 *)
LEMMA EndOfSums ==
  ASSUME NEW E, NEW b \in Buffers(E), \A e \in E : e.size \in Nat
  PROVE  /\ EndOf(b) \in [0 .. WalkLength(b) -> Nat]
         /\ EndOf(b)[0] = 0
         /\ \A k \in 1 .. WalkLength(b) :
              /\ Commands(b)[k] = b.entry[SlotOf(b, k)]
              /\ Commands(b)[k].size \in Nat
              /\ EndOf(b)[k] = EndOf(b)[k - 1] + Commands(b)[k].size
<1> DEFINE w == WalkLength(b)
           cmds == Commands(b)
           sz(k) == IF k \in 1 .. w THEN cmds[k].size ELSE 0
           Sums(g, n) == /\ g \in [0 .. n -> Nat]
                         /\ g[0] = 0
                         /\ \A k \in 1 .. n : g[k] = g[k - 1] + sz(k)
           T == {n \in Nat : \E g : Sums(g, n)}
<1>1. w \in Nat
  BY WalkBounds, MaxOpsAssumption
<1>2. ASSUME NEW k \in 1 .. w
      PROVE  cmds[k] = b.entry[SlotOf(b, k)] /\ cmds[k].size \in Nat
  <2>1. SlotOf(b, k) \in Offsets
    BY WalkBounds
  <2>2. cmds[k] = b.entry[SlotOf(b, k)]
    BY DEF Commands
  <2>3. QED
    BY <2>1, <2>2 DEF Buffers
<1>3. \A k \in Int : sz(k) \in Nat
  BY <1>2
<1> HIDE DEF sz
<1>4. T = Nat
  <2>1. 0 \in T
    <3>1. Sums([k \in 0 .. 0 |-> 0], 0)
      OBVIOUS
    <3>2. QED
      BY <3>1
  <2>2. ASSUME NEW n \in T
        PROVE  n + 1 \in T
    <3>1. PICK g : Sums(g, n)
      OBVIOUS
    <3> DEFINE h == [k \in 0 .. n + 1 |-> IF k = n + 1 THEN g[n] + sz(n + 1) ELSE g[k]]
    <3>0. n \in Nat /\ n + 1 \in Nat /\ n \in 0 .. n
      OBVIOUS
    <3>2. g[n] + sz(n + 1) \in Nat
      <4>1. g[n] \in Nat
        BY <3>0, <3>1
      <4>2. sz(n + 1) \in Nat
        BY <1>3, <3>0
      <4>3. QED
        BY <4>1, <4>2
    <3>3. h \in [0 .. n + 1 -> Nat] /\ h[0] = 0
      BY <3>1, <3>2
    <3>4. ASSUME NEW k \in 1 .. n + 1
          PROVE  h[k] = h[k - 1] + sz(k)
      BY <3>1
    <3>5. Sums(h, n + 1)
      BY <3>3, <3>4
    <3> HIDE DEF h
    <3>6. \E i : Sums(i, n + 1)
      BY <3>5
    <3>7. QED
      BY <3>0, <3>6
  <2>3. QED
    BY <2>1, <2>2, SetInduction
<1>5. PICK g : Sums(g, w)
  BY <1>1, <1>4
<1> DEFINE Def(f) == [k \in 0 .. w |-> IF k = 0 THEN 0 ELSE f[k - 1] + cmds[k].size]
<1>6. g = Def(g)
  BY <1>1, <1>5 DEF sz
<1>7. EndOf(b) = CHOOSE f : f = Def(f)
  BY DEF EndOf
<1>8. EndOf(b) = Def(EndOf(b))
  BY <1>6, <1>7
<1> DEFINE f == EndOf(b)
<1> DEFINE S == {n \in Nat : n \in 0 .. w => f[n] \in Nat}
<1>9. S = Nat
  <2>1. 0 \in S
    BY <1>1, <1>8
  <2>2. ASSUME NEW n \in S
        PROVE  n + 1 \in S
    <3>1. CASE n + 1 \in 0 .. w
      <4>1. f[n + 1] = f[n] + cmds[n + 1].size
        BY <1>1, <1>8, <3>1
      <4>2. QED
        BY <1>1, <1>2, <3>1, <4>1
    <3>2. QED
      BY <3>1
  <2>3. QED
    BY <2>1, <2>2, SetInduction
<1>10. f \in [0 .. w -> Nat] /\ f[0] = 0
  BY <1>1, <1>8, <1>9
<1>11. \A k \in 1 .. w : f[k] = f[k - 1] + cmds[k].size
  BY <1>1, <1>8
<1>12. QED
  BY <1>2, <1>10, <1>11

(* The running sum never decreases.                                        *)
LEMMA EndOfGrows ==
  ASSUME NEW E, NEW b \in Buffers(E), \A e \in E : e.size \in Nat,
         NEW j \in 0 .. WalkLength(b), NEW k \in j .. WalkLength(b)
  PROVE  EndOf(b)[j] <= EndOf(b)[k]
<1> DEFINE w == WalkLength(b)
           end == EndOf(b)
           T == {n \in Nat : j + n \in 0 .. w => end[j] <= end[j + n]}
<1>1. w \in Nat
  BY WalkBounds, MaxOpsAssumption
<1>2. /\ end \in [0 .. w -> Nat]
      /\ \A i \in 1 .. w : end[i - 1] <= end[i]
  <2>1. /\ end \in [0 .. w -> Nat]
        /\ \A i \in 1 .. w : /\ Commands(b)[i].size \in Nat
                             /\ end[i] = end[i - 1] + Commands(b)[i].size
    BY EndOfSums
  <2>2. ASSUME NEW i \in 1 .. w
        PROVE  end[i - 1] <= end[i]
    <3>1. i - 1 \in 0 .. w /\ i \in 0 .. w
      BY <1>1
    <3>2. end[i - 1] \in Nat /\ end[i] \in Nat
      BY <2>1, <3>1
    <3>3. QED
      BY <2>1, <3>2
  <2>3. QED
    BY <2>1, <2>2
<1> HIDE DEF end, w
<1>3. j \in Nat /\ j \in 0 .. w /\ k - j \in Nat /\ k = j + (k - j) /\ k \in 0 .. w
  BY <1>1 DEF w
<1>4. 0 \in T
  BY <1>2, <1>3
<1>5. ASSUME NEW n \in T
      PROVE  n + 1 \in T
  <2>1. CASE j + (n + 1) \in 0 .. w
    <3>1. j + n \in 0 .. w /\ j + (n + 1) \in 1 .. w /\ (j + (n + 1)) - 1 = j + n
      BY <1>1, <1>3, <2>1
    <3>2. end[j] <= end[j + n] /\ end[j + n] <= end[j + (n + 1)]
      BY <1>2, <3>1
    <3>3. end[j] \in Nat /\ end[j + n] \in Nat /\ end[j + (n + 1)] \in Nat
      BY <1>2, <1>3, <2>1, <3>1
    <3>4. QED
      BY <3>2, <3>3
  <2>2. QED
    BY <2>1
<1>6. T = Nat
  BY <1>4, <1>5, SetInduction
<1>7. k - j \in T
  BY <1>3, <1>6
<1>8. QED
  BY <1>3, <1>7 DEF end

(* What the lookup of aesd_read finds: the one command that the position   *)
(* lies in, or NULL when the position is at or behind the end.             *)
LEMMA FindEntryResult ==
  ASSUME NEW E, NEW b \in Buffers(E), \A e \in E : e.size \in Nat,
         NEW pos \in Nat
  PROVE  \/ /\ aesd_circular_buffer_find_entry_offset_for_fpos(b, pos) = NULL
            /\ pos >= EndOf(b)[WalkLength(b)]
         \/ \E k \in 1 .. WalkLength(b) :
              /\ aesd_circular_buffer_find_entry_offset_for_fpos(b, pos)
                   = [slot |-> SlotOf(b, k), byte |-> pos - EndOf(b)[k - 1]]
              /\ EndOf(b)[k - 1] <= pos /\ pos < EndOf(b)[k]
<1> DEFINE w == WalkLength(b)
           end == EndOf(b)
           hits == {k \in 1 .. w : pos < end[k]}
<1>1. w \in Nat /\ end \in [0 .. w -> Nat] /\ end[0] = 0
  BY WalkBounds, EndOfSums, MaxOpsAssumption
<1>2. aesd_circular_buffer_find_entry_offset_for_fpos(b, pos)
        = IF hits = {} THEN NULL
          ELSE [slot |-> SlotOf(b, Min(hits)), byte |-> pos - end[Min(hits) - 1]]
  BY DEF aesd_circular_buffer_find_entry_offset_for_fpos
<1> HIDE DEF end, w
<1>3. CASE hits = {}
  <2>1. pos >= end[w]
    <3>1. CASE w = 0
      BY <1>1, <3>1
    <3>2. CASE w # 0
      <4>1. w \in 1 .. w /\ w \in 0 .. w
        BY <1>1, <3>2
      <4>2. ~ (pos < end[w])
        BY <1>3, <4>1
      <4>3. end[w] \in Nat
        BY <1>1, <4>1
      <4>4. QED
        BY <4>2, <4>3
    <3>3. QED
      BY <3>1, <3>2
  <2>2. QED
    BY <1>2, <1>3, <2>1 DEF end, w
<1>4. CASE hits # {}
  <2> DEFINE k == Min(hits)
  <2>1. k \in hits /\ \A j \in hits : k <= j
    <3>1. hits \subseteq Nat
      BY <1>1
    <3> HIDE DEF hits
    <3>2. QED
      BY <1>4, <3>1, MinOfNaturals
  <2> HIDE DEF k
  <2>2. k \in 1 .. w /\ pos < end[k] /\ k - 1 \in 0 .. w
    BY <1>1, <2>1
  <2>3. end[k - 1] <= pos
    <3>1. CASE k = 1
      BY <1>1, <3>1
    <3>2. CASE k # 1
      <4>1. k - 1 \in 1 .. w /\ k - 1 \notin hits
        BY <1>1, <2>1, <2>2, <3>2
      <4>2. ~ (pos < end[k - 1])
        BY <4>1
      <4>3. end[k - 1] \in Nat
        BY <1>1, <2>2
      <4>4. QED
        BY <4>2, <4>3
    <3>3. QED
      BY <3>1, <3>2
  <2>4. aesd_circular_buffer_find_entry_offset_for_fpos(b, pos)
          = [slot |-> SlotOf(b, k), byte |-> pos - end[k - 1]]
    BY <1>2, <1>4 DEF k
  <2>5. QED
    BY <2>2, <2>3, <2>4 DEF end, w
<1>5. QED
  BY <1>3, <1>4

(* What the seek computes: the position of the byte asked for when there   *)
(* is one, and never a position behind the contents.                       *)
LEMMA FindPositionResult ==
  ASSUME NEW E, NEW b \in Buffers(E), \A e \in E : e.size \in Nat,
         NEW c \in Nat, NEW o \in Nat
  PROVE  LET pos == aesd_circular_buffer_find_position(b, c, o)
         IN  /\ pos \in Nat
             /\ pos <= EndOf(b)[WalkLength(b)]
             /\ c < WalkLength(b) /\ o < Commands(b)[c + 1].size =>
                  pos = EndOf(b)[c] + o /\ pos < EndOf(b)[c + 1]
<1> DEFINE w == WalkLength(b)
           end == EndOf(b)
           pos == aesd_circular_buffer_find_position(b, c, o)
<1>1. w \in Nat /\ end \in [0 .. w -> Nat]
  BY WalkBounds, EndOfSums, MaxOpsAssumption
<1>2. CASE c >= w
  <2>1. pos = end[w]
    BY <1>2 DEF aesd_circular_buffer_find_position
  <2>2. QED
    BY <1>1, <1>2, <2>1
<1>3. CASE c < w
  <2> DEFINE size == Commands(b)[c + 1].size
  <2>1. /\ c \in 0 .. w /\ c + 1 \in 1 .. w /\ c + 1 \in 0 .. w /\ (c + 1) - 1 = c
    BY <1>1, <1>3
  <2>2. size \in Nat /\ end[c + 1] = end[c] + size
    BY <2>1, EndOfSums
  <2>3. end[c + 1] <= end[w]
    <3>1. w \in (c + 1) .. w
      BY <1>1, <2>1
    <3>2. QED
      BY <2>1, <3>1, EndOfGrows
  <2>4. pos = end[c] + (IF o <= size THEN o ELSE 0)
    BY <1>1, <1>3 DEF aesd_circular_buffer_find_position
  <2>5. end[c] \in Nat /\ end[c + 1] \in Nat /\ end[w] \in Nat
    BY <1>1, <2>1
  <2> HIDE DEF size, end, pos, w
  <2>6. /\ pos \in Nat /\ pos <= end[w]
        /\ o < size => pos = end[c] + o /\ pos < end[c + 1]
    BY <2>2, <2>3, <2>4, <2>5
  <2>7. QED
    BY <2>6 DEF size, end, pos, w
<1>4. QED
  BY <1>1, <1>2, <1>3

(* The lookup finds the command that the position lies in.                 *)
LEMMA FindEntryUnique ==
  ASSUME NEW E, NEW b \in Buffers(E), \A e \in E : e.size \in Nat,
         NEW pos \in Nat, NEW k \in 1 .. WalkLength(b),
         EndOf(b)[k - 1] <= pos, pos < EndOf(b)[k]
  PROVE  aesd_circular_buffer_find_entry_offset_for_fpos(b, pos)
           = [slot |-> SlotOf(b, k), byte |-> pos - EndOf(b)[k - 1]]
<1> DEFINE w == WalkLength(b)
           end == EndOf(b)
           find == aesd_circular_buffer_find_entry_offset_for_fpos(b, pos)
<1>1. w \in Nat /\ end \in [0 .. w -> Nat] /\ k \in Nat /\ k <= w /\ k \in 0 .. w
  BY WalkBounds, EndOfSums, MaxOpsAssumption
<1>2. \A i \in 0 .. w : \A j \in i .. w : end[i] <= end[j]
  BY EndOfGrows
<1>3. \/ find = NULL /\ pos >= end[w]
      \/ \E j \in 1 .. w : /\ find = [slot |-> SlotOf(b, j), byte |-> pos - end[j - 1]]
                           /\ end[j - 1] <= pos /\ pos < end[j]
  BY FindEntryResult
<1>4. end[k - 1] <= pos /\ pos < end[k]
  OBVIOUS
<1> HIDE DEF end, w, find
<1>5. ~ (pos >= end[w])
  <2>1. end[k] <= end[w] /\ end[k] \in Nat /\ end[w] \in Nat
    BY <1>1, <1>2
  <2>2. QED
    BY <1>4, <2>1
<1>6. PICK j \in 1 .. w : /\ find = [slot |-> SlotOf(b, j), byte |-> pos - end[j - 1]]
                          /\ end[j - 1] <= pos /\ pos < end[j]
  BY <1>3, <1>5
<1>7. /\ j \in 0 .. w /\ j - 1 \in 0 .. w /\ k - 1 \in 0 .. w
      /\ end[j] \in Nat /\ end[k] \in Nat /\ end[j - 1] \in Nat /\ end[k - 1] \in Nat
  BY <1>1
<1>8. ~ (j < k)
  <2>1. SUFFICES ASSUME j < k
                 PROVE  FALSE
    OBVIOUS
  <2>2. k - 1 \in j .. w
    BY <1>1, <1>7, <2>1
  <2>3. end[j] <= end[k - 1]
    BY <1>2, <1>7, <2>2
  <2>4. QED
    BY <1>4, <1>6, <1>7, <2>3
<1>9. ~ (j > k)
  <2>1. SUFFICES ASSUME j > k
                 PROVE  FALSE
    OBVIOUS
  <2>2. j - 1 \in k .. w
    BY <1>1, <1>7, <2>1
  <2>3. end[k] <= end[j - 1]
    BY <1>1, <1>2, <2>2
  <2>4. QED
    BY <1>4, <1>6, <1>7, <2>3
<1>10. j = k
  BY <1>1, <1>8, <1>9
<1>11. QED
  BY <1>6, <1>10 DEF end, find

(* Two structures whose commands agree but for d more at the front of the  *)
(* first: their running sums differ by the size of those d.                *)
LEMMA EndOfShift ==
  ASSUME NEW E, \A e \in E : e.size \in Nat,
         NEW b \in Buffers(E), NEW c \in Buffers(E),
         NEW d \in 0 .. WalkLength(b), WalkLength(b) - d <= WalkLength(c),
         \A j \in 1 .. WalkLength(b) - d : Commands(c)[j] = Commands(b)[j + d]
  PROVE  \A j \in 0 .. WalkLength(b) - d : EndOf(c)[j] = EndOf(b)[j + d] - EndOf(b)[d]
<1> DEFINE w == WalkLength(b)
           v == WalkLength(c)
           T == {j \in Nat : j \in 0 .. w - d => EndOf(c)[j] = EndOf(b)[j + d] - EndOf(b)[d]}
<1>1. w \in Nat /\ v \in Nat /\ d \in Nat
  BY WalkBounds, MaxOpsAssumption
<1>2. /\ EndOf(b) \in [0 .. w -> Nat]
      /\ \A k \in 1 .. w : /\ Commands(b)[k].size \in Nat
                           /\ EndOf(b)[k] = EndOf(b)[k - 1] + Commands(b)[k].size
  BY EndOfSums
<1>3. /\ EndOf(c) \in [0 .. v -> Nat] /\ EndOf(c)[0] = 0
      /\ \A k \in 1 .. v : /\ Commands(c)[k].size \in Nat
                           /\ EndOf(c)[k] = EndOf(c)[k - 1] + Commands(c)[k].size
  BY EndOfSums
<1>4. w - d <= v /\ d <= w /\ \A j \in 1 .. w - d : Commands(c)[j] = Commands(b)[j + d]
  BY <1>1
<1> HIDE DEF w, v
<1>5. 0 \in T
  <2>1. EndOf(b)[d] \in Nat /\ 0 + d = d
    BY <1>1, <1>2, <1>4
  <2>2. QED
    BY <1>3, <2>1
<1>6. ASSUME NEW j \in T
      PROVE  j + 1 \in T
  <2>1. j \in Nat
    OBVIOUS
  <2>2. CASE j + 1 \in 0 .. w - d
    <3>1. /\ j \in 0 .. w - d /\ j + 1 \in 1 .. w - d /\ j + 1 \in 1 .. v /\ (j + 1) - 1 = j
          /\ (j + 1) + d \in 1 .. w /\ ((j + 1) + d) - 1 = j + d
          /\ j + d \in 0 .. w /\ j \in 0 .. v
      BY <1>1, <1>4, <2>1, <2>2
    <3>2. EndOf(c)[j + 1] = EndOf(c)[j] + Commands(b)[(j + 1) + d].size
      BY <1>3, <1>4, <3>1
    <3>3. /\ EndOf(b)[(j + 1) + d] = EndOf(b)[j + d] + Commands(b)[(j + 1) + d].size
          /\ Commands(b)[(j + 1) + d].size \in Nat
      BY <1>2, <3>1
    <3>4. EndOf(c)[j] = EndOf(b)[j + d] - EndOf(b)[d]
      BY <3>1
    <3>5. EndOf(b)[j + d] \in Nat /\ EndOf(b)[d] \in Nat
      BY <1>1, <1>2, <1>4, <3>1
    <3>6. EndOf(c)[j + 1] = EndOf(b)[(j + 1) + d] - EndOf(b)[d]
      BY <3>2, <3>3, <3>4, <3>5
    <3>7. QED
      BY <2>1, <3>6
  <2>3. CASE j + 1 \notin 0 .. w - d
    BY <2>1, <2>3
  <2>4. QED
    BY <2>2, <2>3
<1>7. T = Nat
  BY <1>5, <1>6, SetInduction
<1>8. ASSUME NEW j \in 0 .. w - d
      PROVE  EndOf(c)[j] = EndOf(b)[j + d] - EndOf(b)[d]
  <2>1. j \in T
    <3> HIDE DEF T
    <3>1. QED
      BY <1>1, <1>7
  <2>2. QED
    BY <2>1
<1>9. QED
  BY <1>8 DEF w


-----------------------------------------------------------------------------
(* A buffer as it is between two calls of add_entry: W are the values of a *)
(* written slot.  The slots are filled from 0 upwards, and once all are,   *)
(* the buffer stays full with both offsets equal.                          *)
ShapeOf(b, W) ==
  IF b.full
  THEN /\ b.in_offs = b.out_offs
       /\ \A i \in Offsets : b.entry[i] \in W
  ELSE /\ b.out_offs = 0
       /\ \A i \in Offsets : IF i < b.in_offs THEN b.entry[i] \in W
                                              ELSE b.entry[i] = EmptySlot

(* aesd_circular_buffer_init yields an empty buffer of the right shape.    *)
LEMMA InitShaped ==
  ASSUME NEW W
  PROVE  /\ aesd_circular_buffer_init \in Buffers(W \cup {EmptySlot})
         /\ ShapeOf(aesd_circular_buffer_init, W)
<1>1. 0 \in Offsets /\ \A i \in Offsets : ~ (i < 0)
  BY MaxOpsAssumption DEF Offsets
<1>2. aesd_circular_buffer_init \in Buffers(W \cup {EmptySlot})
  BY InitType
<1>3. QED
  BY <1>1, <1>2 DEF ShapeOf, aesd_circular_buffer_init

(* The walk is as long as the buffer is filled, and its k-th slot is       *)
(* out_offs + k - 1 wrapped once.                                          *)
LEMMA WalkShaped ==
  ASSUME NEW W, NEW b \in Buffers(W \cup {EmptySlot}), ShapeOf(b, W)
  PROVE  /\ WalkLength(b) = IF b.full THEN MaxOps ELSE b.in_offs
         /\ WalkLength(b) \in 0 .. MaxOps
         /\ \A k \in 1 .. WalkLength(b) :
              /\ SlotOf(b, k) \in Offsets
              /\ SlotOf(b, k) = IF b.out_offs + k - 1 < MaxOps
                                THEN b.out_offs + k - 1
                                ELSE b.out_offs + k - 1 - MaxOps
<1>1. /\ b.in_offs \in Offsets /\ b.out_offs \in Offsets
      /\ b.full \in BOOLEAN
  BY DEF Buffers
<1>2. WalkLength(b) = IF b.full THEN MaxOps ELSE b.in_offs
  <2>1. CASE b.full
    <3>1. b.in_offs - b.out_offs - 1 = -1
      BY <1>1, <2>1 DEF ShapeOf, Offsets
    <3>2. QED
      BY <2>1, <3>1, ModMinusOne, MaxOpsAssumption DEF WalkLength
  <2>2. CASE ~b.full
    <3>1. b.in_offs - b.out_offs = b.in_offs
      BY <1>1, <2>2 DEF ShapeOf, Offsets
    <3>2. b.in_offs % MaxOps = b.in_offs
      BY <1>1, ModOnce, MaxOpsAssumption DEF Offsets
    <3>3. QED
      BY <2>2, <3>1, <3>2 DEF WalkLength
  <2>3. QED
    BY <2>1, <2>2
<1>3. WalkLength(b) \in 0 .. MaxOps
  BY <1>1, <1>2, MaxOpsAssumption DEF Offsets
<1>4. ASSUME NEW k \in 1 .. WalkLength(b)
      PROVE  /\ SlotOf(b, k) \in Offsets
             /\ SlotOf(b, k) = IF b.out_offs + k - 1 < MaxOps
                               THEN b.out_offs + k - 1
                               ELSE b.out_offs + k - 1 - MaxOps
  <2>1. PICK x \in 0 .. 2 * MaxOps - 1 : x = b.out_offs + k - 1
    BY <1>1, <1>3, MaxOpsAssumption DEF Offsets
  <2>2. SlotOf(b, k) = IF x < MaxOps THEN x ELSE x - MaxOps
    BY <2>1, ModOnce DEF SlotOf
  <2>3. SlotOf(b, k) \in Offsets
    BY <2>2, MaxOpsAssumption DEF Offsets
  <2>4. QED
    BY <1>1, <2>1, <2>2, <2>3, MaxOpsAssumption DEF Offsets
<1>5. QED
  BY <1>2, <1>3, <1>4

(* The contents of a well-shaped buffer are a sequence of written slots.   *)
LEMMA CommandsShaped ==
  ASSUME NEW W, NEW b \in Buffers(W \cup {EmptySlot}), ShapeOf(b, W)
  PROVE  /\ Commands(b) \in Seq(W)
         /\ Len(Commands(b)) = WalkLength(b)
         /\ WalkLength(b) \in 0 .. MaxOps
         /\ \A k \in 1 .. WalkLength(b) : Commands(b)[k] = b.entry[SlotOf(b, k)]
<1>1. /\ b.in_offs \in Offsets /\ b.out_offs \in Offsets
      /\ b.full \in BOOLEAN
  BY DEF Buffers
<1>2. WalkLength(b) \in 0 .. MaxOps
  BY WalkShaped
<1>3. WalkLength(b) \in Nat
  BY <1>2, MaxOpsAssumption
<1>4. ASSUME NEW k \in 1 .. WalkLength(b)
      PROVE  b.entry[SlotOf(b, k)] \in W
  <2>1. CASE b.full
    BY <1>1, <2>1, WalkShaped DEF ShapeOf
  <2>2. CASE ~b.full
    BY <1>1, <2>2, WalkShaped, MaxOpsAssumption DEF ShapeOf, Offsets
  <2>3. QED
    BY <2>1, <2>2
<1>5. Commands(b) \in [1 .. WalkLength(b) -> W]
  BY <1>4 DEF Commands
<1>6. QED
  BY <1>2, <1>3, <1>5 DEF Commands

(* What aesd_circular_buffer_add_entry does to the fields, step by step.   *)
LEMMA AddEntryResult ==
  ASSUME NEW E, NEW b \in Buffers(E), NEW e \in E,
         NEW c, c = aesd_circular_buffer_add_entry(b, e)
  PROVE  /\ c \in Buffers(E)
         /\ c.entry = [b.entry EXCEPT ![b.in_offs] = e]
         /\ c.in_offs = NextOffset(b.in_offs)
         /\ c.out_offs = IF b.full THEN NextOffset(b.in_offs) ELSE b.out_offs
         /\ c.full <=> (c.in_offs = c.out_offs)
<1>1. NextOffset(b.in_offs) \in Offsets
  BY NextOffsetWraps DEF Buffers
<1>2. QED
  BY <1>1 DEF Buffers, aesd_circular_buffer_add_entry, StoreEntry, AdvanceIn, AdvanceOut,
              SetFull

(* Adding an entry keeps the shape: it fills the next free slot, or it     *)
(* moves both offsets of a full buffer together.                           *)
LEMMA AddEntryShaped ==
  ASSUME NEW W, NEW b \in Buffers(W \cup {EmptySlot}), ShapeOf(b, W), NEW e \in W,
         NEW c, c = aesd_circular_buffer_add_entry(b, e)
  PROVE  c \in Buffers(W \cup {EmptySlot}) /\ ShapeOf(c, W)
<1>0. /\ c \in Buffers(W \cup {EmptySlot})
      /\ c.entry = [b.entry EXCEPT ![b.in_offs] = e]
      /\ c.in_offs = NextOffset(b.in_offs)
      /\ c.out_offs = IF b.full THEN NextOffset(b.in_offs) ELSE b.out_offs
      /\ c.full <=> (c.in_offs = c.out_offs)
  BY AddEntryResult
<1>1. /\ b.in_offs \in Offsets /\ b.out_offs \in Offsets
      /\ b.full \in BOOLEAN /\ DOMAIN b.entry = Offsets
  BY DEF Buffers
<1>2. NextOffset(b.in_offs) = IF b.in_offs = MaxOps - 1 THEN 0 ELSE b.in_offs + 1
  BY <1>1, NextOffsetWraps
<1>3. \A i \in Offsets : c.entry[i] = IF i = b.in_offs THEN e ELSE b.entry[i]
  BY <1>0, <1>1
<1>4. CASE b.full
  BY <1>0, <1>1, <1>3, <1>4 DEF ShapeOf
<1>5. CASE ~b.full
  <2>1. CASE b.in_offs = MaxOps - 1
    <3>1. c.full /\ c.in_offs = c.out_offs
      BY <1>0, <1>1, <1>2, <1>5, <2>1 DEF ShapeOf
    <3>2. \A i \in Offsets : c.entry[i] \in W
      BY <1>0, <1>1, <1>3, <1>5, <2>1, MaxOpsAssumption DEF ShapeOf, Offsets
    <3>3. QED
      BY <1>0, <3>1, <3>2 DEF ShapeOf
  <2>2. CASE b.in_offs # MaxOps - 1
    <3>1. /\ ~c.full /\ c.out_offs = 0
          /\ c.in_offs = b.in_offs + 1
      BY <1>0, <1>1, <1>2, <1>5, <2>2 DEF ShapeOf, Offsets
    <3>2. \A i \in Offsets : IF i < c.in_offs THEN c.entry[i] \in W
                                              ELSE c.entry[i] = EmptySlot
      BY <1>0, <1>1, <1>3, <1>5, <3>1, MaxOpsAssumption DEF ShapeOf, Offsets
    <3>3. QED
      BY <1>0, <3>1, <3>2 DEF ShapeOf
  <2>3. QED
    BY <2>1, <2>2
<1>6. QED
  BY <1>1, <1>4, <1>5

(* Adding an entry appends it to the commands, and the oldest one gives    *)
(* way when all the slots were used.                                       *)
LEMMA AddEntryAppends ==
  ASSUME NEW W, NEW b \in Buffers(W \cup {EmptySlot}), ShapeOf(b, W), NEW e \in W,
         NEW c, c = aesd_circular_buffer_add_entry(b, e)
  PROVE  Commands(c) = Append(IF Len(Commands(b)) < MaxOps THEN Commands(b)
                              ELSE Tail(Commands(b)), e)
<1> DEFINE cmds == Commands(b)
           next == Commands(c)
           w    == WalkLength(b)
           w2   == WalkLength(c)
<1>1. /\ b.in_offs \in Offsets /\ b.out_offs \in Offsets
      /\ b.full \in BOOLEAN /\ c.full \in BOOLEAN
      /\ DOMAIN b.entry = Offsets
      /\ c \in Buffers(W \cup {EmptySlot}) /\ ShapeOf(c, W)
  BY AddEntryShaped DEF Buffers
<1>2. /\ cmds \in Seq(W) /\ Len(cmds) = w /\ w \in 0 .. MaxOps
      /\ w = IF b.full THEN MaxOps ELSE b.in_offs
      /\ \A k \in 1 .. w :
           /\ cmds[k] = b.entry[SlotOf(b, k)]
           /\ SlotOf(b, k) = IF b.out_offs + k - 1 < MaxOps
                             THEN b.out_offs + k - 1
                             ELSE b.out_offs + k - 1 - MaxOps
  BY CommandsShaped, WalkShaped
<1>3. /\ next \in Seq(W) /\ Len(next) = w2 /\ w2 \in 0 .. MaxOps
      /\ w2 = IF c.full THEN MaxOps ELSE c.in_offs
      /\ \A k \in 1 .. w2 :
           /\ next[k] = c.entry[SlotOf(c, k)]
           /\ SlotOf(c, k) = IF c.out_offs + k - 1 < MaxOps
                             THEN c.out_offs + k - 1
                             ELSE c.out_offs + k - 1 - MaxOps
  BY <1>1, CommandsShaped, WalkShaped
<1>4. /\ c.entry = [b.entry EXCEPT ![b.in_offs] = e]
      /\ c.in_offs = IF b.in_offs = MaxOps - 1 THEN 0 ELSE b.in_offs + 1
      /\ c.out_offs = IF b.full THEN c.in_offs ELSE b.out_offs
      /\ c.full <=> (c.in_offs = c.out_offs)
  <2>1. /\ c.entry = [b.entry EXCEPT ![b.in_offs] = e]
        /\ c.in_offs = NextOffset(b.in_offs)
        /\ c.out_offs = IF b.full THEN NextOffset(b.in_offs) ELSE b.out_offs
        /\ c.full <=> (c.in_offs = c.out_offs)
    BY AddEntryResult
  <2>2. QED
    BY <1>1, <2>1, NextOffsetWraps
<1>5. CASE ~b.full
  <2>1. /\ b.out_offs = 0 /\ w = b.in_offs /\ w < MaxOps
        /\ c.out_offs = 0 /\ w2 = w + 1
    <3>1. b.out_offs = 0 /\ w = b.in_offs /\ w < MaxOps /\ c.out_offs = 0
      BY <1>1, <1>2, <1>4, <1>5, MaxOpsAssumption DEF ShapeOf, Offsets
    <3>2. c.full <=> b.in_offs = MaxOps - 1
      BY <1>1, <1>4, <3>1, MaxOpsAssumption DEF Offsets
    <3>3. w2 = w + 1
      BY <1>1, <1>3, <1>4, <3>1, <3>2, MaxOpsAssumption DEF Offsets
    <3>4. QED
      BY <3>1, <3>3
  <2>2. ASSUME NEW k \in 1 .. w2
        PROVE  next[k] = IF k = w2 THEN e ELSE cmds[k]
    <3>1. SlotOf(c, k) = k - 1
      BY <1>3, <2>1, MaxOpsAssumption
    <3>2. next[k] = IF k = w2 THEN e ELSE b.entry[k - 1]
      <4>1. k - 1 \in Offsets /\ (k - 1 = b.in_offs <=> k = w2)
        BY <1>1, <2>1, MaxOpsAssumption DEF Offsets
      <4>2. next[k] = c.entry[k - 1]
        BY <1>3, <3>1
      <4>3. QED
        BY <1>1, <1>4, <4>1, <4>2
    <3>3. k # w2 => cmds[k] = b.entry[k - 1]
      BY <1>2, <2>1, MaxOpsAssumption
    <3>4. QED
      BY <3>2, <3>3
  <2>3. /\ Append(cmds, e) \in Seq(W)
        /\ Len(Append(cmds, e)) = w2
        /\ \A k \in 1 .. w2 :
             Append(cmds, e)[k] = IF k = w2 THEN e ELSE cmds[k]
    BY <1>2, <2>1, AppendProperties, MaxOpsAssumption
  <2>4. next = Append(cmds, e)
    BY <1>3, <2>2, <2>3, SeqEqual
  <2>5. QED
    BY <1>2, <2>1, <2>4
<1>6. CASE b.full
  <2>1. /\ b.out_offs = b.in_offs /\ w = MaxOps /\ w2 = MaxOps
        /\ c.out_offs = c.in_offs
    BY <1>1, <1>2, <1>3, <1>4, <1>6 DEF ShapeOf
  <2>2. ASSUME NEW k \in 1 .. w2
        PROVE  next[k] = IF k = w2 THEN e ELSE cmds[k + 1]
    <3>1. CASE k = w2
      <4>1. SlotOf(c, k) = b.in_offs
        BY <1>1, <1>3, <1>4, <2>1, <3>1, MaxOpsAssumption DEF Offsets
      <4>2. QED
        BY <1>1, <1>3, <1>4, <3>1, <4>1
    <3>2. CASE k # w2
      <4>1. k + 1 \in 1 .. w
        BY <2>1, <3>2, MaxOpsAssumption
      <4>2. SlotOf(b, k + 1) = IF b.in_offs + k < MaxOps
                               THEN b.in_offs + k
                               ELSE b.in_offs + k - MaxOps
        BY <1>1, <1>2, <2>1, <4>1, MaxOpsAssumption DEF Offsets
      <4>3. SlotOf(c, k) = IF c.in_offs + k - 1 < MaxOps
                           THEN c.in_offs + k - 1
                           ELSE c.in_offs + k - 1 - MaxOps
        BY <1>3, <2>1
      <4>4. k \in 1 .. MaxOps - 1
        BY <2>1, <3>2, MaxOpsAssumption
      <4>5. SlotOf(c, k) = SlotOf(b, k + 1)
        BY <1>1, <1>4, <4>2, <4>3, <4>4, MaxOpsAssumption DEF Offsets
      <4>6. /\ SlotOf(c, k) # b.in_offs
            /\ SlotOf(c, k) \in Offsets
        BY <1>1, <4>2, <4>4, <4>5, MaxOpsAssumption DEF Offsets
      <4>7. c.entry[SlotOf(c, k)] = b.entry[SlotOf(c, k)]
        BY <1>1, <1>4, <4>6
      <4>8. QED
        BY <1>2, <1>3, <3>2, <4>1, <4>5, <4>7
    <3>3. QED
      BY <3>1, <3>2
  <2>3. cmds # <<>>
    BY <1>2, <2>1, MaxOpsAssumption
  <2>4. /\ Tail(cmds) \in Seq(W)
        /\ Len(Tail(cmds)) = w2 - 1
        /\ \A k \in 1 .. w2 - 1 : Tail(cmds)[k] = cmds[k + 1]
    BY <1>2, <2>1, <2>3, HeadTailProperties
  <2>5. /\ Append(Tail(cmds), e) \in Seq(W)
        /\ Len(Append(Tail(cmds), e)) = w2
        /\ \A k \in 1 .. w2 :
             Append(Tail(cmds), e)[k] = IF k = w2 THEN e ELSE cmds[k + 1]
    BY <1>3, <2>1, <2>4, AppendProperties, MaxOpsAssumption
  <2>6. next = Append(Tail(cmds), e)
    <3> DEFINE pushed == Append(Tail(cmds), e)
    <3>1. \A k \in 1 .. Len(next) : next[k] = pushed[k]
      BY <1>3, <2>2, <2>5
    <3>2. Len(next) = Len(pushed) /\ pushed \in Seq(W)
      BY <1>3, <2>5
    <3> HIDE DEF pushed, next
    <3>3. next = pushed
      BY <1>3, <3>1, <3>2, SeqEqual
    <3>4. QED
      BY <3>3 DEF pushed
  <2>7. QED
    BY <1>2, <2>1, <2>6
<1>7. QED
  BY <1>1, <1>5, <1>6
=============================================================================
