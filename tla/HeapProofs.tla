----------------------------- MODULE HeapProofs -----------------------------
(***************************************************************************)
(* Proofs about module Heap and the frame allocator of module Frames, for  *)
(* every size of memory, page, header and request: the scan of pmm.c is a  *)
(* first fit, the list of kmalloc.c is what callers hold, and it tiles the *)
(* heap as long as that is one region.                                     *)
(***************************************************************************)
EXTENDS Heap, FiniteSetTheorems, WellFoundedInduction, TLAPS

\* Among the steps after which a loop of the code finds what it looks for
\* there is a least one, so that a CHOOSE of it is meaningful.
LEMMA LeastSteps ==
  ASSUME NEW S \in SUBSET Nat, S # {}
  PROVE  \E i \in S : \A j \in S : i <= j
<1> DEFINE below(i) == 0 .. i - 1
           T == {below(i) : i \in S}
<1>1. T \subseteq FiniteSubsetsOf(Nat) /\ T # {}
  <2>1. ASSUME NEW i \in S
        PROVE  IsFiniteSet(below(i)) /\ below(i) \subseteq Nat
    BY FS_Interval
  <2>2. T # {}
    OBVIOUS
  <2>3. QED
    BY <2>1, <2>2 DEF FiniteSubsetsOf
<1>2. PICK u \in T : \A v \in T : <<v, u>> \notin StrictSubsetOrdering(Nat)
  BY <1>1, FS_StrictSubsetOrderingWellFounded, WFMin
<1>3. PICK x \in S : u = below(x)
  OBVIOUS
<1>4. ASSUME NEW j \in S, j < x
      PROVE  FALSE
  <2>1. below(j) \subseteq below(x) /\ below(j) # below(x) /\ j \in below(x)
    BY <1>4
  <2>2. <<below(j), u>> \in StrictSubsetOrdering(Nat)
    BY <2>1, <1>3 DEF StrictSubsetOrdering
  <2>3. QED
    BY <2>2, <1>2
<1>5. QED
  BY <1>4

\* What holds at the first number of an interval and is handed on from each
\* to the next holds on all of it: induction, for a set instead of a formula.
LEMMA IntervalInduction ==
  ASSUME NEW a \in Int, NEW b \in Int, NEW S,
         a <= b => a \in S,
         \A n \in a .. b - 1 : n \in S => n + 1 \in S
  PROVE  a .. b \subseteq S
<1> DEFINE Bad == {k \in Nat : a + k <= b /\ a + k \notin S}
<1> SUFFICES ASSUME NEW i \in a .. b, i \notin S PROVE FALSE
  OBVIOUS
<1>1. i - a \in Bad
  <2>1. i - a \in Nat /\ a + (i - a) = i
    OBVIOUS
  <2>2. QED
    BY <2>1
<1>2. PICK k \in Bad : \A j \in Bad : k <= j
  <2>1. Bad \in SUBSET Nat
    OBVIOUS
  <2>2. QED
    BY <1>1, <2>1, LeastSteps
<1>3. k # 0
  BY <1>2
<1>4. k - 1 \in Nat /\ k - 1 \notin Bad
  BY <1>2, <1>3
<1>5. a + (k - 1) \in a .. b - 1 /\ a + (k - 1) \in S
  BY <1>2, <1>4
<1>6. a + (k - 1) + 1 \in S
  BY <1>5
<1>7. QED
  BY <1>2, <1>6

\* f has the values of a loop that starts with s and makes step once for
\* every number of an interval.
IsLoop(f, V, s, a, b, step) ==
  /\ f \in [a .. b -> V]
  /\ \A n \in a .. b : f[n] = IF n = a THEN s ELSE step[<<f[n - 1], n - 1>>]

\* There is such a function: a recursive definition of that form has a value.
LEMMA LoopExists ==
  ASSUME NEW V, NEW s \in V, NEW a \in Int, NEW b \in Int, a <= b,
         NEW step \in [V \X Int -> V]
  PROVE  \E f : IsLoop(f, V, s, a, b, step)
<1> DEFINE Loop(f, m) ==
             \A n \in a .. m : f[n] = IF n = a THEN s ELSE step[<<f[n - 1], n - 1>>]
           S == {m \in a .. b : \E f \in [a .. m -> V] : Loop(f, m)}
<1>1. a \in S
  <2> DEFINE f == [n \in a .. a |-> s]
  <2>1. f \in [a .. a -> V] /\ Loop(f, a)
    OBVIOUS
  <2>2. a \in a .. b
    OBVIOUS
  <2>3. QED
    BY <2>1, <2>2
<1>2. ASSUME NEW m \in a .. b - 1, m \in S PROVE m + 1 \in S
  <2>1. PICK f \in [a .. m -> V] : Loop(f, m)
    BY <1>2
  <2> DEFINE g == [n \in a .. m + 1 |-> IF n = m + 1 THEN step[<<f[m], m>>] ELSE f[n]]
  <2>2. m \in a .. m /\ f[m] \in V /\ m + 1 \in a .. b /\ m \in Int
    OBVIOUS
  <2>3. step[<<f[m], m>>] \in V
    BY <2>2
  <2>4. g \in [a .. m + 1 -> V]
    BY <2>3
  <2>5. ASSUME NEW n \in a .. m + 1
        PROVE  g[n] = IF n = a THEN s ELSE step[<<g[n - 1], n - 1>>]
    <3>1. CASE n = m + 1
      <4>1. n # a /\ n - 1 = m /\ g[m] = f[m] /\ g[n] = step[<<f[m], m>>]
        BY <3>1, <2>2
      <4>2. QED
        BY <4>1
    <3>2. CASE n # m + 1
      <4>1. n \in a .. m /\ g[n] = f[n] /\ (n # a => n - 1 \in a .. m + 1 /\ g[n - 1] = f[n - 1])
        BY <3>2
      <4>2. QED
        BY <4>1, <2>1
    <3>3. QED
      BY <3>1, <3>2
  <2>6. QED
    BY <2>2, <2>4, <2>5
<1>3. a .. b \subseteq S
  <2> HIDE DEF S
  <2>1. a <= b => a \in S
    BY <1>1
  <2>2. \A n \in a .. b - 1 : n \in S => n + 1 \in S
    BY <1>2
  <2>3. QED
    BY <2>1, <2>2, IntervalInduction
<1>4. QED
  BY <1>3 DEF IsLoop

-----------------------------------------------------------------------------
(* The scan of pmm_alloc_pages.                                            *)

\* One turn of the scan, and its states.
ScanStates == [run : Nat, start : Nat]
Turn(u, count, s, i) ==
  IF s.run = count THEN s
  ELSE IF i \in u THEN [s EXCEPT !.run = 0]
  ELSE [run |-> s.run + 1, start |-> IF s.run = 0 THEN i ELSE s.start]

\* A place where the request fits.
FitsAt(u, count, f) == f \in Frame /\ Run(f, count) \subseteq Frame \ u

\* What the scan knows before frame i: the free row that ends there, behind a
\* used frame or the beginning, and that the request fits nowhere below; or
\* the first place where it fits.
Knows(u, count, s, i) ==
  /\ s \in ScanStates /\ s.run <= count /\ s.run <= i
  /\ s.run < count =>
       /\ s.run > 0 => s.start = i - s.run
       /\ \A f \in i - s.run .. i - 1 : f \notin u
       /\ s.run < i => i - s.run - 1 \in u
       /\ \A f \in Frame : FitsAt(u, count, f) => f + count > i
  /\ s.run = count =>
       /\ FitsAt(u, count, s.start)
       /\ \A f \in Frame : FitsAt(u, count, f) => s.start <= f

\* A turn hands on what the scan knows.
LEMMA TurnKnows ==
  ASSUME NEW u, NEW count \in Nat \ {0}, NEW i \in 0 .. TotalPages - 1, NEW s,
         Knows(u, count, s, i)
  PROVE  Knows(u, count, Turn(u, count, s, i), i + 1)
<1>1. /\ s \in ScanStates /\ s.run <= count /\ s.run <= i /\ s.run \in Nat /\ s.start \in Nat
      /\ i \in Nat /\ i \in Frame
  BY FramesAssumption DEF Knows, ScanStates, Frame
<1>2. CASE s.run = count
  <2>1. Turn(u, count, s, i) = s
    BY <1>2 DEF Turn
  <2>2. QED
    BY <1>1, <1>2, <2>1 DEF Knows
<1>3. CASE s.run # count
  <2>1. /\ s.run < count
        /\ s.run > 0 => s.start = i - s.run
        /\ \A f \in i - s.run .. i - 1 : f \notin u
        /\ s.run < i => i - s.run - 1 \in u
        /\ \A f \in Frame : FitsAt(u, count, f) => f + count > i
    BY <1>1, <1>3 DEF Knows
  <2>2. \A f \in Frame : f \in Nat /\ f <= TotalPages - 1
    BY FramesAssumption DEF Frame
  <2>3. \A f \in Frame : \A g : FitsAt(u, count, f) /\ g \in f .. f + count - 1 => g \in Frame /\ g \notin u
    BY DEF FitsAt, Run
  <2>4. CASE i \in u
    <3>1. PICK t : t = [s EXCEPT !.run = 0]
      OBVIOUS
    <3>2. Turn(u, count, s, i) = t
      BY <1>3, <2>4, <3>1 DEF Turn
    <3>3. t \in ScanStates /\ t.run = 0
      BY <1>1, <3>1 DEF ScanStates
    <3>4. ASSUME NEW f \in Frame, FitsAt(u, count, f) PROVE f + count > i + 1
      <4>1. i \notin f .. f + count - 1
        BY <2>3, <2>4, <3>4
      <4>2. QED
        BY <1>1, <2>1, <2>2, <3>4, <4>1
    <3>5. QED
      BY <1>1, <2>4, <3>2, <3>3, <3>4 DEF Knows
  <2>5. CASE i \notin u
    <3>1. PICK t : t = [run |-> s.run + 1, start |-> IF s.run = 0 THEN i ELSE s.start]
      OBVIOUS
    <3>2. Turn(u, count, s, i) = t
      BY <1>3, <2>5, <3>1 DEF Turn
    <3>3. t \in ScanStates /\ t.run = s.run + 1 /\ t.start = i - s.run
      BY <1>1, <2>1, <3>1 DEF ScanStates
    <3>4. \A f \in i - s.run .. i : f \notin u /\ f \in Frame
      BY <1>1, <2>1, <2>5, FramesAssumption DEF Frame
    <3>5. CASE s.run + 1 < count
      <4>1. ASSUME NEW f \in Frame, FitsAt(u, count, f) PROVE f + count > i + 1
        <5> SUFFICES ASSUME f + count = i + 1 PROVE FALSE
          BY <1>1, <2>1, <2>2, <4>1
        <5>1. i - s.run - 1 \in f .. f + count - 1 /\ s.run < i
          BY <1>1, <2>2, <3>5
        <5>2. QED
          BY <2>1, <2>3, <4>1, <5>1
      <4>2. QED
        BY <1>1, <2>1, <3>2, <3>3, <3>4, <3>5, <4>1 DEF Knows
    <3>6. CASE s.run + 1 = count
      <4>1. Run(t.start, count) = i - s.run .. i
        BY <1>1, <3>3, <3>6 DEF Run
      <4>2. i - s.run \in i - s.run .. i
        BY <1>1
      <4>3. FitsAt(u, count, t.start)
        BY <3>3, <3>4, <4>1, <4>2 DEF FitsAt
      <4>4. \A f \in Frame : FitsAt(u, count, f) => t.start <= f
        BY <1>1, <2>1, <2>2, <3>3, <3>6
      <4>5. QED
        BY <1>1, <3>2, <3>3, <3>6, <4>3, <4>4 DEF Knows
    <3>7. QED
      BY <1>1, <2>1, <3>5, <3>6
  <2>6. QED
    BY <2>4, <2>5
<1>4. QED
  BY <1>2, <1>3

\* Through all frames.
LEMMA ScanKnows ==
  ASSUME NEW u, NEW count \in Nat \ {0}
  PROVE  Knows(u, count, Scan(u, count), TotalPages)
<1> DEFINE first == [run |-> 0, start |-> 0]
           step == [p \in ScanStates \X Int |->
                      IF p[2] \in Nat THEN Turn(u, count, p[1], p[2]) ELSE p[1]]
           Scanned(g) == [i \in 0 .. TotalPages |->
                            IF i = 0 THEN first ELSE Turn(u, count, g[i - 1], i - 1)]
           scan == CHOOSE g : g = Scanned(g)
<1>0. TotalPages \in Nat /\ 0 \in Int /\ TotalPages \in Int /\ 0 <= TotalPages
  BY FramesAssumption
<1>1. first \in ScanStates
  BY DEF ScanStates
<1>2. step \in [ScanStates \X Int -> ScanStates]
  <2>1. ASSUME NEW s \in ScanStates, NEW i \in Nat PROVE Turn(u, count, s, i) \in ScanStates
    BY DEF Turn, ScanStates
  <2>2. QED
    BY <2>1
<1>3. scan = Scanned(scan)
  <2> HIDE DEF step, first
  <2>1. PICK g : IsLoop(g, ScanStates, first, 0, TotalPages, step)
    BY <1>0, <1>1, <1>2, LoopExists
  <2>2. g = [i \in 0 .. TotalPages |-> g[i]]
    BY <2>1 DEF IsLoop
  <2>3. ASSUME NEW i \in 0 .. TotalPages
        PROVE  g[i] = IF i = 0 THEN first ELSE Turn(u, count, g[i - 1], i - 1)
    <3>1. g[i] = IF i = 0 THEN first ELSE step[<<g[i - 1], i - 1>>]
      BY <2>1 DEF IsLoop
    <3>2. CASE i # 0
      <4>1. i - 1 \in 0 .. TotalPages /\ i - 1 \in Nat /\ i - 1 \in Int
        BY <1>0, <3>2
      <4>2. g[i - 1] \in ScanStates
        BY <2>1, <4>1 DEF IsLoop
      <4>3. step[<<g[i - 1], i - 1>>] = Turn(u, count, g[i - 1], i - 1)
        BY <4>1, <4>2 DEF step
      <4>4. QED
        BY <3>1, <3>2, <4>3
    <3>3. QED
      BY <3>1, <3>2
  <2>4. g = Scanned(g)
    BY <2>2, <2>3
  <2>5. QED
    BY <2>4
<1>4. Scan(u, count) = scan[TotalPages]
  BY DEF Scan, Turn
<1> DEFINE S == {i \in 0 .. TotalPages : Knows(u, count, scan[i], i)}
<1>5. ASSUME NEW i \in 0 .. TotalPages
      PROVE  scan[i] = IF i = 0 THEN first ELSE Turn(u, count, scan[i - 1], i - 1)
  <2> HIDE DEF scan, first
  <2>1. scan[i] = Scanned(scan)[i]
    BY <1>3
  <2>2. QED
    BY <2>1
<1>6. 0 \in S
  <2>1. 0 \in 0 .. TotalPages
    BY <1>0
  <2>2. scan[0] = first
    BY <1>5, <2>1
  <2> HIDE DEF scan
  <2>3. \A f \in Frame : f + count > 0
    BY FramesAssumption DEF Frame
  <2>4. Knows(u, count, first, 0)
    BY <1>1, <2>3 DEF Knows
  <2>5. QED
    BY <2>1, <2>2, <2>4
<1>7. ASSUME NEW i \in 0 .. TotalPages - 1, i \in S PROVE i + 1 \in S
  <2> HIDE DEF scan
  <2>1. i + 1 \in 0 .. TotalPages /\ i + 1 # 0 /\ i + 1 - 1 = i
    BY <1>0
  <2>2. scan[i + 1] = Turn(u, count, scan[i], i)
    BY <1>5, <2>1
  <2>3. Knows(u, count, scan[i], i)
    BY <1>7
  <2>4. QED
    BY <2>1, <2>2, <2>3, TurnKnows
<1> HIDE DEF scan, S
<1>8. 0 .. TotalPages \subseteq S
  BY <1>0, <1>6, <1>7, IntervalInduction
<1>9. TotalPages \in S
  BY <1>0, <1>8
<1>10. QED
  BY <1>4, <1>9 DEF S

\* pmm_alloc_pages is the first fit that its clients are modelled with.
LEMMA AllocIsFirstFit ==
  ASSUME NEW u, NEW count \in Nat \ {0}
  PROVE  AllocPages(u, count) = FirstFit(u, count)
<1>1. PICK s : s = Scan(u, count)
  OBVIOUS
<1>2. Knows(u, count, s, TotalPages)
  BY <1>1, ScanKnows
<1>3. s \in ScanStates /\ s.run \in Nat /\ s.run <= count /\ s.start \in Nat
  BY <1>2 DEF Knows, ScanStates
<1> DEFINE fits == {f \in Frame : Run(f, count) \subseteq Frame \ u}
<1>4. \A f \in Frame : FitsAt(u, count, f) <=> f \in fits
  BY DEF FitsAt
<1>5. CASE s.run = count
  <2>1. s.start \in fits /\ \A f \in fits : s.start <= f
    BY <1>2, <1>4, <1>5 DEF Knows, FitsAt
  <2>2. \A f \in fits : (\A g \in fits : f <= g) => f = s.start
    BY <1>3, <2>1, FramesAssumption DEF Frame
  <2>3. FirstFit(u, count) = CHOOSE f \in fits : \A g \in fits : f <= g
    BY <2>1 DEF FirstFit
  <2> HIDE DEF fits
  <2>4. (CHOOSE f \in fits : \A g \in fits : f <= g) = s.start
    BY <2>1, <2>2
  <2>5. AllocPages(u, count) = s.start
    BY <1>1, <1>5 DEF AllocPages
  <2>6. QED
    BY <2>3, <2>4, <2>5
<1>6. CASE s.run # count
  <2>1. \A f \in Frame : FitsAt(u, count, f) => f + count > TotalPages
    BY <1>2, <1>3, <1>6 DEF Knows
  <2>2. ASSUME NEW f \in fits PROVE FALSE
    <3>1. f \in Frame /\ FitsAt(u, count, f) /\ f \in Nat
      BY FramesAssumption DEF FitsAt, Frame
    <3>2. f + count - 1 \in Run(f, count)
      BY <3>1 DEF Run
    <3>3. f + count - 1 <= TotalPages - 1
      BY <3>1, <3>2 DEF FitsAt, Frame
    <3>4. QED
      BY <2>1, <3>1, <3>3, FramesAssumption
  <2>3. FirstFit(u, count) = NoFrame
    BY <2>2 DEF FirstFit
  <2>4. AllocPages(u, count) = NoFrame
    BY <1>1, <1>6 DEF AllocPages
  <2>5. QED
    BY <2>3, <2>4
<1>7. QED
  BY <1>5, <1>6

\* pmm_alloc_pages, and pmm_alloc_page, whatever is in use.
THEOREM ScanIsCorrect == Spec => []ScanIsFirstFit
<1>1. ScanIsFirstFit
  BY AllocIsFirstFit, FramesAssumption DEF ScanIsFirstFit
<1>2. QED
  BY <1>1, PTL

\* What it returns is free.
LEMMA AllocIsFree ==
  ASSUME NEW u, NEW count \in Nat \ {0}, AllocPages(u, count) # NoFrame
  PROVE  AllocPages(u, count) \in Nat /\ Run(AllocPages(u, count), count) \subseteq Frame \ u
<1>1. PICK s : s = Scan(u, count)
  OBVIOUS
<1>2. Knows(u, count, s, TotalPages)
  BY <1>1, ScanKnows
<1>3. s.run = count /\ AllocPages(u, count) = s.start
  BY <1>1 DEF AllocPages
<1>4. QED
  BY <1>2, <1>3 DEF Knows, FitsAt, ScanStates

-----------------------------------------------------------------------------
(* The list of blocks, as a sequence.                                      *)

BlockSet == [at : Nat, size : Nat, free : BOOLEAN]

\* Block i is now x, with y behind it.
Split(bs, i, x, y) == InsertAt(ReplaceAt(bs, i, x), i + 1, y)
AfterSplit(N, bs, i, x, y, t) ==
  /\ t \in [1 .. N + 1 -> BlockSet]
  /\ \A k \in 1 .. N + 1 :
       t[k] = IF k < i THEN bs[k] ELSE IF k = i THEN x
              ELSE IF k = i + 1 THEN y ELSE bs[k - 1]

\* InsertAt and ReplaceAt, entry by entry.
LEMMA SplitSequence ==
  ASSUME NEW bs \in Seq(BlockSet), NEW i \in 1 .. Len(bs),
         NEW x \in BlockSet, NEW y \in BlockSet
  PROVE  AfterSplit(Len(bs), bs, i, x, y, Split(bs, i, x, y))
<1>1. PICK r : r = ReplaceAt(bs, i, x)
  OBVIOUS
<1>2. /\ r \in Seq(BlockSet) /\ Len(r) = Len(bs)
      /\ \A k \in 1 .. Len(bs) : r[k] = IF k = i THEN x ELSE bs[k]
  BY <1>1 DEF ReplaceAt
<1>3. PICK j, t : j = i + 1 /\ t = InsertAt(r, j, y)
  OBVIOUS
<1>4. t = SubSeq(r, 1, j - 1) \o <<y>> \o SubSeq(r, j, Len(r))
  BY <1>3 DEF InsertAt
<1>5. PICK a, c : a = SubSeq(r, 1, i) /\ c = SubSeq(r, j, Len(r))
  OBVIOUS
<1>6. j = i + 1 /\ j - 1 = i /\ i \in Nat /\ i >= 1 /\ i <= Len(bs) /\ Len(bs) \in Nat
  BY <1>3
<1>7. /\ a \in Seq(BlockSet) /\ Len(a) = i /\ \A k \in 1 .. i : a[k] = r[k]
  BY <1>2, <1>5, <1>6
<1>8. /\ c \in Seq(BlockSet) /\ Len(c) = Len(bs) - i
      /\ \A k \in 1 .. Len(bs) - i : c[k] = r[k + i]
  BY <1>2, <1>5, <1>6
<1>9. PICK d : d = a \o <<y>>
  OBVIOUS
<1>10. /\ d \in Seq(BlockSet) /\ Len(d) = i + 1
       /\ \A k \in 1 .. i + 1 : d[k] = IF k = i + 1 THEN y ELSE r[k]
  BY <1>6, <1>7, <1>9
<1>11. t = d \o c
  <2>1. SubSeq(r, 1, j - 1) = a
    BY <1>5, <1>6
  <2>2. QED
    BY <1>4, <1>5, <1>9, <2>1
<1>12. t \in Seq(BlockSet) /\ Len(t) = Len(bs) + 1
  <2>1. d \in Seq(BlockSet) /\ c \in Seq(BlockSet)
    BY <1>8, <1>10
  <2>2. t \in Seq(BlockSet) /\ Len(t) = Len(d) + Len(c)
    BY <1>11, <2>1
  <2>3. QED
    BY <1>6, <1>8, <1>10, <2>2
<1>13. ASSUME NEW k \in 1 .. Len(bs) + 1
       PROVE  t[k] = IF k < i THEN bs[k] ELSE IF k = i THEN x
                     ELSE IF k = i + 1 THEN y ELSE bs[k - 1]
  <2>1. CASE k <= i + 1
    <3>1. t[k] = d[k] /\ k \in 1 .. i + 1
      BY <1>6, <1>8, <1>10, <1>11, <2>1
    <3>2. QED
      BY <1>2, <1>6, <1>10, <3>1
  <2>2. CASE k > i + 1
    <3>1. t[k] = c[k - (i + 1)] /\ k - (i + 1) \in 1 .. Len(bs) - i
      BY <1>6, <1>8, <1>10, <1>11, <2>2
    <3>2. c[k - (i + 1)] = r[k - 1] /\ k - 1 \in 1 .. Len(bs) /\ k - 1 # i
      BY <1>6, <1>8, <2>2, <3>1
    <3>3. QED
      BY <1>2, <1>6, <2>2, <3>1, <3>2
  <2>3. QED
    BY <1>6, <2>1, <2>2
<1>14. t \in [1 .. Len(bs) + 1 -> BlockSet]
  BY <1>12
<1>15. t = Split(bs, i, x, y)
  BY <1>1, <1>3 DEF Split
<1>16. QED
  BY <1>13, <1>14, <1>15 DEF AfterSplit

\* The blocks i and i + 1 made one.
LEMMA MergedSequence ==
  ASSUME NEW bs \in Seq(BlockSet), NEW i \in 1 .. Len(bs) - 1
  PROVE  LET t == Merged(bs, i) IN
         /\ t \in Seq(BlockSet) /\ Len(t) = Len(bs) - 1
         /\ \A k \in 1 .. Len(bs) - 1 :
              t[k] = IF k < i THEN bs[k]
                     ELSE IF k = i THEN Block(bs[i].at, bs[i].size + Header + bs[i + 1].size, bs[i].free)
                     ELSE bs[k + 1]
<1>1. PICK x : x = Block(bs[i].at, bs[i].size + Header + bs[i + 1].size, bs[i].free)
  OBVIOUS
<1>2. PICK r : r = [bs EXCEPT ![i].size = @ + Header + bs[i + 1].size]
  OBVIOUS
<1>3. i \in Nat /\ i >= 1 /\ i <= Len(bs) - 1 /\ Len(bs) \in Nat /\ i \in 1 .. Len(bs)
      /\ i + 1 \in 1 .. Len(bs) /\ Header \in Nat
  BY HeapAssumption DEF HeapAssumption
<1>4. bs[i] \in BlockSet /\ bs[i + 1] \in BlockSet
  BY <1>3
<1>5. x \in BlockSet /\ x = [bs[i] EXCEPT !.size = @ + Header + bs[i + 1].size]
  <2>1. PICK o, z : o = bs[i] /\ z = o.size + Header + bs[i + 1].size
    OBVIOUS
  <2>2. o \in BlockSet /\ z \in Nat
    BY <1>3, <1>4, <2>1, SMTT(30) DEF BlockSet
  <2>3. x = [at |-> o.at, size |-> z, free |-> o.free]
    BY <1>1, <2>1 DEF Block
  <2>4. x \in BlockSet /\ x = [o EXCEPT !.size = z]
    <3>1. PICK p : p = [o EXCEPT !.size = z]
      OBVIOUS
    <3>2. p \in BlockSet /\ p.at = o.at /\ p.size = z /\ p.free = o.free
      BY <2>2, <3>1 DEF BlockSet
    <3>3. x \in BlockSet /\ x.at = o.at /\ x.size = z /\ x.free = o.free
      BY <2>2, <2>3 DEF BlockSet
    <3>4. p = x
      BY <3>2, <3>3 DEF BlockSet
    <3>5. QED
      BY <3>1, <3>3, <3>4
  <2>5. QED
    BY <2>1, <2>4
<1>6. r = [bs EXCEPT ![i] = x]
  BY <1>2, <1>5
<1>7. /\ r \in Seq(BlockSet) /\ Len(r) = Len(bs)
      /\ \A k \in 1 .. Len(bs) : r[k] = IF k = i THEN x ELSE bs[k]
  BY <1>3, <1>5, <1>6
<1>8. PICK t : t = Merged(bs, i)
  OBVIOUS
<1>9. PICK j, a, c : j = i + 1 /\ a = SubSeq(r, 1, i) /\ c = SubSeq(r, i + 2, Len(r))
  OBVIOUS
<1>10. t = a \o c
  <2>1. j - 1 = i /\ j + 1 = i + 2
    BY <1>3, <1>9
  <2>2. t = RemoveAt(r, j)
    BY <1>2, <1>8, <1>9 DEF Merged
  <2>3. t = SubSeq(r, 1, j - 1) \o SubSeq(r, j + 1, Len(r))
    BY <2>2 DEF RemoveAt
  <2>4. QED
    BY <1>9, <2>1, <2>3
<1>11. /\ a \in Seq(BlockSet) /\ Len(a) = i /\ \A k \in 1 .. i : a[k] = r[k]
  BY <1>3, <1>7, <1>9
<1>12. /\ c \in Seq(BlockSet) /\ Len(c) = Len(bs) - i - 1
       /\ \A k \in 1 .. Len(bs) - i - 1 : c[k] = r[k + i + 1]
  BY <1>3, <1>7, <1>9
<1>13. t \in Seq(BlockSet) /\ Len(t) = Len(bs) - 1
  BY <1>3, <1>10, <1>11, <1>12
<1>14. ASSUME NEW k \in 1 .. Len(bs) - 1
       PROVE  t[k] = IF k < i THEN bs[k] ELSE IF k = i THEN x ELSE bs[k + 1]
  <2>1. CASE k <= i
    <3>1. k \in 1 .. i /\ k \in 1 .. Len(bs) /\ Len(a) = i
      BY <1>3, <1>11, <2>1
    <3>2. t[k] = a[k] /\ a[k] = r[k]
      BY <1>10, <1>11, <1>12, <3>1
    <3>3. QED
      BY <1>3, <1>7, <2>1, <3>1, <3>2
  <2>2. CASE k > i
    <3>1. t[k] = c[k - i] /\ k - i \in 1 .. Len(bs) - i - 1
      BY <1>3, <1>10, <1>11, <1>12, <2>2
    <3>2. c[k - i] = r[k + 1] /\ k + 1 \in 1 .. Len(bs)
      BY <1>3, <1>12, <2>2, <3>1
    <3>3. QED
      BY <1>3, <1>7, <2>2, <3>1, <3>2
  <2>3. QED
    BY <1>3, <2>1, <2>2
<1>15. QED
  BY <1>1, <1>8, <1>13, <1>14

\* The same, of functions on 1 .. N.
LEMMA SplitFacts ==
  ASSUME NEW N \in Nat, NEW bs \in [1 .. N -> BlockSet], NEW i \in 1 .. N,
         NEW x \in BlockSet, NEW y \in BlockSet
  PROVE  AfterSplit(N, bs, i, x, y, Split(bs, i, x, y))
<1>1. bs \in Seq(BlockSet) /\ Len(bs) = N
  OBVIOUS
<1>2. i \in 1 .. Len(bs)
  BY <1>1
<1>3. AfterSplit(Len(bs), bs, i, x, y, Split(bs, i, x, y))
  BY <1>1, <1>2, SplitSequence
<1>4. QED
  BY <1>1, <1>3

AfterMerge(N, bs, i, t) ==
  /\ t \in [1 .. N - 1 -> BlockSet]
  /\ \A k \in 1 .. N - 1 :
       t[k] = IF k < i THEN bs[k]
              ELSE IF k = i THEN Block(bs[i].at, bs[i].size + Header + bs[i + 1].size, bs[i].free)
              ELSE bs[k + 1]

\* The same of the merge.
LEMMA MergedFacts ==
  ASSUME NEW N \in Nat, NEW bs \in [1 .. N -> BlockSet], NEW i \in 1 .. N - 1
  PROVE  AfterMerge(N, bs, i, Merged(bs, i))
<1>1. bs \in Seq(BlockSet) /\ Len(bs) = N
  OBVIOUS
<1>2. PICK t : t = Merged(bs, i)
  OBVIOUS
<1>3. /\ t \in Seq(BlockSet) /\ Len(t) = Len(bs) - 1
      /\ \A k \in 1 .. Len(bs) - 1 :
           t[k] = IF k < i THEN bs[k]
                  ELSE IF k = i THEN Block(bs[i].at, bs[i].size + Header + bs[i + 1].size, bs[i].free)
                  ELSE bs[k + 1]
  BY <1>1, <1>2, MergedSequence
<1>4. t \in [1 .. N - 1 -> BlockSet]
  BY <1>1, <1>3
<1>5. AfterMerge(N, bs, i, t)
  BY ONLY <1>1, <1>3, <1>4 DEF AfterMerge
<1>6. QED
  BY <1>2, <1>5

-----------------------------------------------------------------------------
(* What holds of the list, and what kmalloc's search does to it.  The list *)
(* is taken as a function on 1 .. N here.                                  *)

\* heap_end is the last block; no two blocks have one address.
Shape(N, bs, end) ==
  /\ N \in Nat \ {0} /\ bs \in [1 .. N -> BlockSet] /\ end = bs[N].at
  /\ \A i, j \in 1 .. N : i # j => bs[i].at # bs[j].at

NoOverlap(N, bs) ==
  \A i, j \in 1 .. N : bs[i].at < bs[j].at => BlockEnd(bs[i]) <= bs[j].at

\* What callers hold is what the list has in use, each block once.
Held(N, bs, lv) ==
  /\ \A b \in lv : \E i \in 1 .. N :
       bs[i].at = b.at /\ bs[i].free = FALSE /\ bs[i].size >= b.size
  /\ \A i \in 1 .. N : bs[i].free = FALSE => \E b \in lv : b.at = bs[i].at
  /\ \A b, c \in lv : b.at = c.at => b = c

\* The blocks follow each other in memory; which neighbours are both free.
InRow(N, bs) == \A i \in 1 .. N - 1 : bs[i + 1].at = BlockEnd(bs[i])
Twins(N, bs) == {i \in 1 .. N - 1 : bs[i].free = TRUE /\ bs[i + 1].free = TRUE}
SameSpan(N, bs, M, t) ==
  t[1].at = bs[1].at /\ BlockEnd(t[M]) = BlockEnd(bs[N])

Holdings == [at : Nat, size : Sizes]

\* What HeapAssumption says of the numbers.
LEMMA HeapNumbers ==
  /\ Header \in Nat \ {0} /\ PageUnits \in Nat \ {0} /\ Sizes \subseteq Nat \ {0}
  /\ Header < PageUnits /\ MinGrow \in Nat \ {0}
BY HeapAssumption DEF HeapAssumption

\* The fields of a block.
LEMMA BlockFacts ==
  ASSUME NEW at \in Nat, NEW size \in Nat, NEW free \in BOOLEAN
  PROVE  /\ Block(at, size, free) \in BlockSet
         /\ Block(at, size, free).at = at /\ Block(at, size, free).size = size
         /\ Block(at, size, free).free = free
         /\ BlockEnd(Block(at, size, free)) = at + Header + size
BY DEF Block, BlockSet, BlockEnd

\* A block is taken as it is.
LEMMA TakeWhole ==
  ASSUME NEW N, NEW bs, NEW end, Shape(N, bs, end), NEW lv, Held(N, bs, lv),
         NEW n \in Sizes, NEW i \in Fits(bs, n)
  PROVE  LET t == ReplaceAt(bs, i, Block(bs[i].at, bs[i].size, FALSE)) IN
         /\ Shape(N, t, end) /\ Held(N, t, lv \cup {[at |-> bs[i].at, size |-> n]})
         /\ InRow(N, bs) => InRow(N, t)
         /\ Twins(N, bs) = {} => Twins(N, t) = {}
         /\ SameSpan(N, bs, N, t)
<1>1. /\ bs \in [1 .. N -> BlockSet] /\ N \in Nat /\ N > 0
      /\ i \in 1 .. N /\ bs[i].free = TRUE /\ bs[i].size >= n
      /\ \A k \in 1 .. N : bs[k] \in BlockSet
  <2>1. bs \in [1 .. N -> BlockSet] /\ N \in Nat /\ N > 0 /\ i \in 1 .. N
    BY DEF Shape, Fits
  <2>2. bs[i].free /\ bs[i].size >= n /\ bs[i] \in BlockSet
    BY <2>1 DEF Fits
  <2>3. QED
    BY <2>1, <2>2 DEF BlockSet
<1>2. PICK x : x = Block(bs[i].at, bs[i].size, FALSE)
  OBVIOUS
<1>3. bs[i].at \in Nat /\ bs[i].size \in Nat /\ n \in Nat /\ Header \in Nat
  BY <1>1, HeapNumbers DEF BlockSet
<1>4. x \in BlockSet /\ x.at = bs[i].at /\ x.size = bs[i].size /\ x.free = FALSE
  BY ONLY <1>2, <1>3, SMT DEF Block, BlockSet
<1>14. PICK t : t = ReplaceAt(bs, i, Block(bs[i].at, bs[i].size, FALSE))
  OBVIOUS
<1>5. /\ t \in [1 .. N -> BlockSet]
      /\ \A k \in 1 .. N : t[k] = IF k = i THEN x ELSE bs[k]
  BY <1>1, <1>2, <1>4, <1>14 DEF ReplaceAt
<1>6. /\ \A k \in 1 .. N : t[k].at = bs[k].at /\ t[k].size = bs[k].size
      /\ \A k \in 1 .. N : BlockEnd(t[k]) = BlockEnd(bs[k])
      /\ \A k \in 1 .. N : t[k].free = IF k = i THEN FALSE ELSE bs[k].free
      /\ \A k \in 1 .. N - 1 : k \in 1 .. N /\ k + 1 \in 1 .. N
      /\ 1 \in 1 .. N /\ N \in 1 .. N
  <2>1. ASSUME NEW k \in 1 .. N
        PROVE  /\ t[k].at = bs[k].at /\ t[k].size = bs[k].size
               /\ t[k].free = IF k = i THEN FALSE ELSE bs[k].free
    BY <1>1, <1>4, <1>5
  <2>2. \A k \in 1 .. N : BlockEnd(t[k]) = BlockEnd(bs[k])
    BY <2>1 DEF BlockEnd
  <2>3. /\ \A k \in 1 .. N - 1 : k \in 1 .. N /\ k + 1 \in 1 .. N
        /\ 1 \in 1 .. N /\ N \in 1 .. N
    BY <1>1
  <2>4. QED
    BY <2>1, <2>2, <2>3
<1>7. Shape(N, t, end)
  <2>1. N \in Nat \ {0} /\ end = bs[N].at
    BY DEF Shape
  <2>2. \A k, j \in 1 .. N : k # j => bs[k].at # bs[j].at
    BY DEF Shape
  <2>3. \A k, j \in 1 .. N : k # j => t[k].at # t[j].at
    <3>1. \A k \in 1 .. N : t[k].at = bs[k].at
      BY <1>6
    <3>2. QED
      BY <2>2, <3>1
  <2>4. QED
    BY <1>5, <1>6, <2>1, <2>3 DEF Shape
<1>8. InRow(N, bs) => InRow(N, t)
  BY <1>5, <1>6 DEF InRow
<1>9. Twins(N, t) \subseteq Twins(N, bs)
  <2> SUFFICES ASSUME NEW k \in Twins(N, t) PROVE k \in Twins(N, bs)
    OBVIOUS
  <2>1. k \in 1 .. N - 1 /\ t[k].free = TRUE /\ t[k + 1].free = TRUE
    BY <1>5 DEF Twins
  <2>2. bs[k].free = TRUE /\ bs[k + 1].free = TRUE
    BY <1>6, <2>1
  <2>3. QED
    BY <2>1, <2>2 DEF Twins
<1>10. SameSpan(N, bs, N, t)
  BY <1>5, <1>6 DEF SameSpan
<1>11. Held(N, t, lv \cup {[at |-> bs[i].at, size |-> n]})
  <2>1. PICK new : new = [at |-> bs[i].at, size |-> n]
    OBVIOUS
  <2>2. new.at = bs[i].at /\ new.size = n
    BY <2>1
  <2>3. \A b \in lv : b.at # bs[i].at
    <3> SUFFICES ASSUME NEW b \in lv, b.at = bs[i].at PROVE FALSE
      OBVIOUS
    <3>1. PICK k \in 1 .. N : bs[k].at = b.at /\ bs[k].free = FALSE
      BY DEF Held
    <3>2. k # i
      BY <1>1, <3>1
    <3>3. QED
      BY <1>1, <3>1, <3>2 DEF Shape
  <2>4. ASSUME NEW b \in lv \cup {new}
        PROVE  \E k \in 1 .. N : t[k].at = b.at /\ t[k].free = FALSE /\ t[k].size >= b.size
    <3>1. CASE b = new
      BY <1>1, <1>5, <1>6, <2>2, <3>1
    <3>2. CASE b \in lv
      <4>1. PICK k \in 1 .. N :
              bs[k].at = b.at /\ bs[k].free = FALSE /\ bs[k].size >= b.size
        BY <3>2 DEF Held
      <4>2. QED
        BY <1>5, <1>6, <4>1
    <3>3. QED
      BY <3>1, <3>2
  <2>5. ASSUME NEW k \in 1 .. N, t[k].free = FALSE
        PROVE  \E b \in lv \cup {new} : b.at = t[k].at
    <3>1. CASE k = i
      BY <1>1, <1>6, <2>2, <3>1
    <3>2. CASE k # i
      <4>1. bs[k].free = FALSE /\ t[k].at = bs[k].at /\ k \in 1 .. N
        BY <1>5, <1>6, <2>5, <3>2
      <4>2. QED
        BY <4>1 DEF Held
    <3>3. QED
      BY <3>1, <3>2
  <2>6. \A b, c \in lv \cup {new} : b.at = c.at => b = c
    BY <2>2, <2>3 DEF Held
  <2>7. QED
    BY <2>1, <2>4, <2>5, <2>6 DEF Held
<1>13. Twins(N, bs) = {} => Twins(N, t) = {}
  BY <1>9
<1>15. QED
  BY <1>14, <1>7, <1>8, <1>13, <1>10, <1>11

\* A block is split: what the list t with the block x and the rest y for
\* block i has to do with bs.
IsSplit(N, bs, i, M, t, x, y) ==
  /\ N \in Nat \ {0} /\ M = N + 1 /\ i \in 1 .. N
  /\ bs \in [1 .. N -> BlockSet] /\ t \in [1 .. M -> BlockSet]
  /\ AfterSplit(N, bs, i, x, y, t)
  /\ bs[i].free = TRUE /\ x.at = bs[i].at /\ x.free = FALSE /\ y.free = TRUE
  /\ BlockEnd(x) = y.at /\ BlockEnd(y) = BlockEnd(bs[i])
  /\ bs[i].at < y.at /\ y.at < BlockEnd(bs[i])
  /\ bs[i].at \in Nat /\ y.at \in Nat /\ BlockEnd(bs[i]) \in Nat

\* The list before, at and behind the split.
LEMMA SplitParts ==
  ASSUME NEW N, NEW bs, NEW i, NEW M, NEW t, NEW x, NEW y,
         IsSplit(N, bs, i, M, t, x, y)
  PROVE  /\ \A k \in 1 .. N : k < i => t[k] = bs[k]
         /\ t[i] = x /\ t[i + 1] = y
         /\ \A k \in 1 .. M : k > i + 1 => t[k] = bs[k - 1]
<1>1. /\ N \in Nat \ {0} /\ M = N + 1 /\ i \in 1 .. N
      /\ \A k \in 1 .. M :
           t[k] = IF k < i THEN bs[k] ELSE IF k = i THEN x
                  ELSE IF k = i + 1 THEN y ELSE bs[k - 1]
  BY DEF IsSplit, AfterSplit
<1>2. \A k \in 1 .. N : k < i => t[k] = bs[k]
  BY <1>1
<1>3. t[i] = x /\ t[i + 1] = y
  BY <1>1
<1>4. \A k \in 1 .. M : k > i + 1 => t[k] = bs[k - 1]
  BY <1>1
<1>5. QED
  BY <1>2, <1>3, <1>4

\* A split keeps what is known of the list.
LEMMA SplitKeeps ==
  ASSUME NEW N, NEW bs, NEW i, NEW M, NEW t, NEW x, NEW rest,
         IsSplit(N, bs, i, M, t, x, rest),
         NEW end, Shape(N, bs, end), NoOverlap(N, bs),
         NEW lv, Held(N, bs, lv), NEW new, new.at = bs[i].at, x.size >= new.size
  PROVE  /\ Shape(M, t, IF bs[i].at = end THEN rest.at ELSE end)
         /\ Held(M, t, lv \cup {new})
         /\ InRow(N, bs) => InRow(M, t)
         /\ Twins(N, bs) = {} => Twins(M, t) = {}
         /\ SameSpan(N, bs, M, t)
<1>1. /\ N \in Nat /\ N > 0 /\ M = N + 1 /\ i \in 1 .. N
      /\ bs \in [1 .. N -> BlockSet] /\ t \in [1 .. M -> BlockSet]
  BY DEF IsSplit
<1>4. /\ bs[i].free = TRUE /\ x.at = bs[i].at /\ x.free = FALSE /\ rest.free = TRUE
      /\ BlockEnd(x) = rest.at /\ BlockEnd(rest) = BlockEnd(bs[i])
  BY DEF IsSplit
<1>5. M = N + 1
  BY <1>1
<1>6. /\ \A k \in 1 .. N : k < i => t[k] = bs[k]
      /\ t[i] = x /\ t[i + 1] = rest
      /\ \A k \in 1 .. M : k > i + 1 => t[k] = bs[k - 1]
  BY SplitParts
<1>7. ASSUME NEW k \in 1 .. N PROVE bs[k].at # rest.at
  <2> SUFFICES ASSUME bs[k].at = rest.at PROVE FALSE
    OBVIOUS
  <2>1. /\ bs[i].at < rest.at /\ rest.at < BlockEnd(bs[i])
        /\ rest.at \in Nat /\ BlockEnd(bs[i]) \in Nat
    BY DEF IsSplit
  <2>2. BlockEnd(bs[i]) <= bs[k].at
    BY <1>1, <2>1 DEF NoOverlap
  <2>3. QED
    BY <2>1, <2>2
\* Where the address of block k comes from.
<1> DEFINE From(k) == IF k <= i THEN k ELSE k - 1
<1>8. ASSUME NEW k \in 1 .. M, k # i + 1
      PROVE  From(k) \in 1 .. N /\ t[k].at = bs[From(k)].at
  <2>1. CASE k < i
    <3>1. k \in 1 .. N /\ From(k) = k
      BY <1>1, <2>1
    <3>2. t[k] = bs[k]
      BY <1>6, <2>1, <3>1
    <3>3. QED
      BY <3>1, <3>2
  <2>2. CASE k = i
    <3>1. From(k) = i
      BY <1>1, <2>2
    <3>2. QED
      BY <1>1, <1>4, <1>6, <2>2, <3>1
  <2>3. CASE k > i + 1
    <3>1. k - 1 \in 1 .. N /\ From(k) = k - 1
      BY <1>1, <2>3
    <3>2. t[k] = bs[k - 1]
      BY <1>6, <2>3
    <3>3. QED
      BY <3>1, <3>2
  <2>4. QED
    BY <1>1, <1>8, <2>1, <2>2, <2>3
<1>9. Shape(M, t, IF bs[i].at = end THEN rest.at ELSE end)
  <2>1. \A k, j \in 1 .. M : k # j => t[k].at # t[j].at
    <3> SUFFICES ASSUME NEW k \in 1 .. M, NEW j \in 1 .. M, k # j, t[k].at = t[j].at
                 PROVE  FALSE
      OBVIOUS
    <3>1. CASE k # i + 1 /\ j # i + 1
      <4>1. From(k) # From(j)
        BY <1>1, <3>1
      <4>2. From(k) \in 1 .. N /\ From(j) \in 1 .. N /\ bs[From(k)].at = bs[From(j)].at
        BY <1>8, <3>1
      <4>3. QED
        BY <4>1, <4>2 DEF Shape
    <3>2. CASE k = i + 1 /\ j # i + 1
      <4>1. From(j) \in 1 .. N /\ bs[From(j)].at = rest.at
        BY <1>6, <1>8, <3>2
      <4>2. QED
        BY <1>7, <4>1
    <3>3. CASE k # i + 1 /\ j = i + 1
      <4>1. From(k) \in 1 .. N /\ bs[From(k)].at = rest.at
        BY <1>6, <1>8, <3>3
      <4>2. QED
        BY <1>7, <4>1
    <3>4. QED
      BY <3>1, <3>2, <3>3
  <2>2. t[M].at = IF bs[i].at = end THEN rest.at ELSE end
    <3>1. CASE i = N
      BY <1>1, <1>5, <1>6, <3>1 DEF Shape
    <3>2. CASE i # N
      <4>1. N \in 1 .. N /\ N > i
        BY <1>1, <3>2
      <4>2. t[M] = bs[N]
        <5>1. M \in 1 .. M /\ M > i + 1 /\ M - 1 = N
          BY <1>1, <4>1
        <5>2. QED
          BY <1>6, <5>1
      <4>3. bs[i].at # end
        BY <1>1, <3>2, <4>1 DEF Shape
      <4>4. QED
        BY <4>2, <4>3 DEF Shape
    <3>3. QED
      BY <3>1, <3>2
  <2>3. QED
    BY <1>1, <1>5, <2>1, <2>2 DEF Shape
<1>10. ASSUME InRow(N, bs) PROVE InRow(M, t)
  <2> SUFFICES ASSUME NEW k \in 1 .. M - 1 PROVE t[k + 1].at = BlockEnd(t[k])
    BY DEF InRow
  <2>1. CASE k < i - 1
    <3>1. k \in 1 .. N - 1 /\ t[k] = bs[k] /\ t[k + 1] = bs[k + 1]
      BY <1>1, <1>5, <1>6, <2>1
    <3>2. QED
      BY <1>10, <3>1 DEF InRow
  <2>2. CASE k = i - 1
    <3>1. k \in 1 .. N - 1 /\ t[k] = bs[k] /\ t[k + 1] = x /\ k + 1 = i
      BY <1>1, <1>5, <1>6, <2>2
    <3>2. QED
      BY <1>4, <1>10, <3>1 DEF InRow
  <2>3. CASE k = i
    BY <1>4, <1>6, <2>3
  <2>4. CASE k = i + 1
    <3>1. i \in 1 .. N - 1 /\ i + 1 \in 1 .. N /\ t[k] = rest
      BY <1>1, <1>5, <1>6, <2>4
    <3>2. t[k + 1] = bs[i + 1]
      <4>1. k + 1 \in 1 .. M /\ k + 1 > i + 1 /\ k + 1 - 1 = i + 1
        BY <1>1, <2>4, <3>1
      <4>2. QED
        BY <1>6, <4>1
    <3>3. QED
      BY <1>4, <1>10, <3>1, <3>2 DEF InRow
  <2>5. CASE k > i + 1
    <3>1. k - 1 \in 1 .. N - 1 /\ k - 1 > i /\ k - 1 + 1 = k /\ k \in 1 .. N
      BY <1>1, <1>5, <2>5
    <3>2. t[k] = bs[k - 1] /\ t[k + 1] = bs[k]
      <4>1. k \in 1 .. M /\ k + 1 \in 1 .. M /\ k + 1 > i + 1 /\ k + 1 - 1 = k
        BY <1>1, <2>5
      <4>2. QED
        BY <1>6, <2>5, <4>1
    <3>3. bs[k - 1 + 1].at = BlockEnd(bs[k - 1])
      BY <1>10, <3>1 DEF InRow
    <3>4. QED
      BY <3>1, <3>2, <3>3
  <2>6. QED
    BY <1>1, <1>5, <2>1, <2>2, <2>3, <2>4, <2>5
<1>11. ASSUME Twins(N, bs) = {} PROVE Twins(M, t) = {}
  <2> SUFFICES ASSUME NEW k \in 1 .. M - 1, t[k].free = TRUE, t[k + 1].free = TRUE
               PROVE  FALSE
    BY DEF Twins
  <2>1. \A j \in 1 .. N - 1 : ~(bs[j].free = TRUE /\ bs[j + 1].free = TRUE)
    BY <1>11 DEF Twins
  <2>2. k # i /\ k # i - 1
    BY <1>1, <1>4, <1>6
  <2>3. CASE k < i - 1
    <3>1. k \in 1 .. N - 1 /\ t[k] = bs[k] /\ t[k + 1] = bs[k + 1]
      BY <1>1, <1>5, <1>6, <2>3
    <3>2. QED
      BY <2>1, <3>1
  <2>4. CASE k = i + 1
    <3>1. i \in 1 .. N - 1 /\ i + 1 \in 1 .. N
      BY <1>1, <1>5, <2>4
    <3>2. t[k + 1] = bs[i + 1]
      <4>1. k + 1 \in 1 .. M /\ k + 1 > i + 1 /\ k + 1 - 1 = i + 1
        BY <1>1, <2>4, <3>1
      <4>2. QED
        BY <1>6, <4>1
    <3>3. bs[i].free = TRUE /\ bs[i + 1].free = TRUE
      BY <1>4, <3>2
    <3>4. QED
      BY <2>1, <3>1, <3>3
  <2>5. CASE k > i + 1
    <3>1. k - 1 \in 1 .. N - 1 /\ k - 1 > i /\ k - 1 + 1 = k /\ k \in 1 .. N
      BY <1>1, <1>5, <2>5
    <3>2. t[k] = bs[k - 1] /\ t[k + 1] = bs[k]
      <4>1. k \in 1 .. M /\ k + 1 \in 1 .. M /\ k + 1 > i + 1 /\ k + 1 - 1 = k
        BY <1>1, <2>5
      <4>2. QED
        BY <1>6, <2>5, <4>1
    <3>3. ~(bs[k - 1].free = TRUE /\ bs[k - 1 + 1].free = TRUE)
      BY <2>1, <3>1
    <3>4. QED
      BY <3>1, <3>2, <3>3
  <2>6. QED
    BY <1>1, <1>5, <2>2, <2>3, <2>4, <2>5
<1>12. SameSpan(N, bs, M, t)
  <2>1. t[1].at = bs[1].at
    <3>1. CASE i = 1
      BY <1>4, <1>6, <3>1
    <3>2. CASE i # 1
      BY <1>1, <1>6, <3>2
    <3>3. QED
      BY <3>1, <3>2
  <2>2. BlockEnd(t[M]) = BlockEnd(bs[N])
    <3>1. CASE i = N
      BY <1>4, <1>5, <1>6, <3>1
    <3>2. CASE i # N
      <4>1. N \in 1 .. N /\ N > i
        BY <1>1, <3>2
      <4>2. M \in 1 .. M /\ M > i + 1 /\ M - 1 = N
        BY <1>1, <4>1
      <4>3. t[M] = bs[N]
        BY <1>6, <4>2
      <4>4. QED
        BY <4>3
    <3>3. QED
      BY <3>1, <3>2
  <2>3. QED
    BY <2>1, <2>2 DEF SameSpan
<1>13. Held(M, t, lv \cup {new})
  <2>3. \A b \in lv : b.at # bs[i].at
    <3> SUFFICES ASSUME NEW b \in lv, b.at = bs[i].at PROVE FALSE
      OBVIOUS
    <3>1. PICK k \in 1 .. N : bs[k].at = b.at /\ bs[k].free = FALSE
      BY DEF Held
    <3>2. k # i
      BY <1>4, <3>1
    <3>3. QED
      BY <1>1, <3>1, <3>2 DEF Shape
  <2>4. ASSUME NEW b \in lv \cup {new}
        PROVE  \E k \in 1 .. M : t[k].at = b.at /\ t[k].free = FALSE /\ t[k].size >= b.size
    <3>1. CASE b = new
      <4>1. i \in 1 .. M
        BY <1>1, <1>5
      <4>2. QED
        BY <1>4, <1>6, <3>1, <4>1
    <3>2. CASE b \in lv
      <4>1. PICK k \in 1 .. N :
              bs[k].at = b.at /\ bs[k].free = FALSE /\ bs[k].size >= b.size
        BY <3>2 DEF Held
      <4>2. k # i
        BY <1>4, <4>1
      <4>3. CASE k < i
        <5>1. k \in 1 .. M /\ t[k] = bs[k]
          BY <1>1, <1>5, <1>6, <4>3
        <5>2. QED
          BY <4>1, <5>1
      <4>4. CASE k > i
        <5>1. k + 1 \in 1 .. M /\ t[k + 1] = bs[k]
          <6>1. k + 1 \in 1 .. M /\ k + 1 > i + 1 /\ k + 1 - 1 = k
            BY <1>1, <4>4
          <6>2. QED
            BY <1>6, <6>1
        <5>2. QED
          BY <4>1, <5>1
      <4>5. k < i \/ k > i
        BY <1>1, <4>2
      <4>6. QED
        BY <4>3, <4>4, <4>5
    <3>3. QED
      BY <3>1, <3>2
  <2>5. ASSUME NEW k \in 1 .. M, t[k].free = FALSE
        PROVE  \E b \in lv \cup {new} : b.at = t[k].at
    <3>1. CASE k = i
      BY <1>4, <1>6, <3>1
    <3>2. CASE k < i
      <4>1. k \in 1 .. N /\ t[k] = bs[k]
        BY <1>1, <1>6, <3>2
      <4>2. QED
        BY <2>5, <4>1 DEF Held
    <3>3. CASE k > i + 1
      <4>1. k - 1 \in 1 .. N /\ t[k] = bs[k - 1]
        BY <1>1, <1>6, <3>3
      <4>2. QED
        BY <2>5, <4>1 DEF Held
    <3>4. k # i + 1
      BY <1>4, <1>6, <2>5
    <3>5. QED
      BY <1>1, <3>1, <3>2, <3>3, <3>4
  <2>6. \A b, c \in lv \cup {new} : b.at = c.at => b = c
    BY <2>3 DEF Held
  <2>7. QED
    BY <2>4, <2>5, <2>6 DEF Held
<1>14. QED
  BY <1>9, <1>10, <1>11, <1>12, <1>13

\* The numbers of a split.
LEMMA RestNumbers ==
  ASSUME NEW a \in Nat, NEW z \in Nat, NEW n \in Nat, z >= n + Header + 1
  PROVE  /\ a + Header + n \in Nat /\ z - n - Header \in Nat
         /\ a < a + Header + n /\ a + Header + n < a + Header + z
         /\ (a + Header + n) + Header + (z - n - Header) = a + Header + z
         /\ a + Header + z \in Nat /\ n \in Nat
<1>1. Header \in Nat /\ Header > 0
  BY HeapNumbers
<1>2. QED
  BY <1>1

\* A block is taken and its rest made a block.
LEMMA TakeSplit ==
  ASSUME NEW N, NEW bs, NEW end, Shape(N, bs, end), NoOverlap(N, bs),
         NEW lv, Held(N, bs, lv),
         NEW n \in Sizes, NEW i \in Fits(bs, n), Splits(bs[i], n)
  PROVE  LET rest == Block(bs[i].at + Header + n, bs[i].size - n - Header, TRUE)
             t == Split(bs, i, Block(bs[i].at, n, FALSE), rest) IN
         /\ Shape(N + 1, t, IF bs[i].at = end THEN rest.at ELSE end)
         /\ Held(N + 1, t, lv \cup {[at |-> bs[i].at, size |-> n]})
         /\ InRow(N, bs) => InRow(N + 1, t)
         /\ Twins(N, bs) = {} => Twins(N + 1, t) = {}
         /\ SameSpan(N, bs, N + 1, t)
<1>1. /\ bs \in [1 .. N -> BlockSet] /\ N \in Nat /\ N > 0
      /\ i \in 1 .. N /\ bs[i].free = TRUE /\ bs[i] \in BlockSet
  <2>1. bs \in [1 .. N -> BlockSet] /\ N \in Nat /\ N > 0 /\ i \in 1 .. N
    BY DEF Shape, Fits
  <2>2. bs[i].free /\ bs[i] \in BlockSet
    BY <2>1 DEF Fits
  <2>3. QED
    BY <2>1, <2>2 DEF BlockSet
<1>2. PICK b, a, z : b = bs[i] /\ a = b.at /\ z = b.size
  OBVIOUS
<1>3. b \in BlockSet /\ a \in Nat /\ z \in Nat /\ n \in Nat /\ z >= n + Header + 1
  <2>1. b \in BlockSet
    BY <1>1, <1>2
  <2>2. a \in Nat /\ z \in Nat
    BY <1>2, <2>1 DEF BlockSet
  <2>3. Splits(b, n) /\ n \in Nat
    BY <1>2, HeapNumbers
  <2>4. QED
    BY <1>2, <2>1, <2>2, <2>3 DEF Splits
<1>4. PICK c, w, e : c = a + Header + n /\ w = z - n - Header /\ e = a + Header + z
  OBVIOUS
<1>5. c \in Nat /\ w \in Nat /\ e \in Nat /\ a < c /\ c < e /\ c + Header + w = e
  BY ONLY <1>3, <1>4, RestNumbers
<1>6. PICK x, rest : x = Block(a, n, FALSE) /\ rest = Block(c, w, TRUE)
  OBVIOUS
<1>7. x \in BlockSet /\ x.at = a /\ x.size = n /\ x.free = FALSE /\ BlockEnd(x) = c
  BY ONLY <1>3, <1>4, <1>6, BlockFacts
<1>8. rest \in BlockSet /\ rest.at = c /\ rest.free = TRUE /\ BlockEnd(rest) = e
  <2>1. /\ Block(c, w, TRUE) \in BlockSet /\ Block(c, w, TRUE).at = c
        /\ Block(c, w, TRUE).free = TRUE /\ BlockEnd(Block(c, w, TRUE)) = c + Header + w
    BY ONLY <1>5, BlockFacts
  <2>2. QED
    BY ONLY <1>5, <1>6, <2>1
<1>9. BlockEnd(b) = e
  BY ONLY <1>2, <1>4 DEF BlockEnd
<1>10. PICK t, M, new : t = Split(bs, i, x, rest) /\ M = N + 1 /\ new = [at |-> a, size |-> n]
  OBVIOUS
<1>11. AfterSplit(N, bs, i, x, rest, t)
  BY ONLY <1>1, <1>7, <1>8, <1>10, SplitFacts
<1>12. IsSplit(N, bs, i, M, t, x, rest)
  <2>1. t \in [1 .. M -> BlockSet]
    BY ONLY <1>10, <1>11 DEF AfterSplit
  <2>2. /\ bs[i].free = TRUE /\ x.at = bs[i].at /\ x.free = FALSE /\ rest.free = TRUE
        /\ BlockEnd(x) = rest.at /\ BlockEnd(rest) = BlockEnd(bs[i])
        /\ bs[i].at < rest.at /\ rest.at < BlockEnd(bs[i])
        /\ bs[i].at \in Nat /\ rest.at \in Nat /\ BlockEnd(bs[i]) \in Nat
    BY ONLY <1>1, <1>2, <1>3, <1>5, <1>7, <1>8, <1>9
  <2>3. N \in Nat \ {0} /\ i \in 1 .. N /\ bs \in [1 .. N -> BlockSet] /\ M = N + 1
    BY ONLY <1>1, <1>10
  <2>4. QED
    BY ONLY <1>11, <2>1, <2>2, <2>3 DEF IsSplit
<1>13. new.at = bs[i].at /\ x.size >= new.size
  BY ONLY <1>2, <1>3, <1>7, <1>10
<1>14. /\ Shape(M, t, IF bs[i].at = end THEN rest.at ELSE end)
       /\ Held(M, t, lv \cup {new})
       /\ InRow(N, bs) => InRow(M, t)
       /\ Twins(N, bs) = {} => Twins(M, t) = {}
       /\ SameSpan(N, bs, M, t)
  BY <1>12, <1>13, SplitKeeps
<1>15. /\ rest = Block(bs[i].at + Header + n, bs[i].size - n - Header, TRUE)
       /\ x = Block(bs[i].at, n, FALSE) /\ new = [at |-> bs[i].at, size |-> n]
  BY ONLY <1>2, <1>4, <1>6, <1>10
<1>16. QED
  BY ONLY <1>10, <1>14, <1>15, Zenon

\* What a step does for the tiling: from the list bs of N blocks to t of M.
Tidy(N, bs, M, t) ==
  /\ InRow(N, bs) => InRow(M, t) /\ SameSpan(N, bs, M, t)
  /\ Twins(N, bs) = {} => Twins(M, t) = {}

\* The least of the blocks that fit.
LEMMA FirstFits ==
  ASSUME NEW N \in Nat, NEW bs \in [1 .. N -> BlockSet], NEW n, Fits(bs, n) # {}
  PROVE  (CHOOSE j \in Fits(bs, n) : \A k \in Fits(bs, n) : j <= k) \in Fits(bs, n)
<1>1. Fits(bs, n) \in SUBSET Nat
  BY DEF Fits
<1>2. \E j \in Fits(bs, n) : \A k \in Fits(bs, n) : j <= k
  BY <1>1, LeastSteps
<1>3. QED
  BY <1>2

\* The search of kmalloc, when it finds something.
LEMMA TakeKeeps ==
  ASSUME NEW N, NEW bs, NEW end, Shape(N, bs, end), NoOverlap(N, bs),
         live \in SUBSET Holdings, Held(N, bs, live),
         NEW n \in Sizes, Fits(bs, n) # {}, Take(bs, end, n)
  PROVE  /\ live' \in SUBSET Holdings
         /\ \E M : /\ Shape(M, blocks', heap_end') /\ Held(M, blocks', live')
                   /\ Tidy(N, bs, M, blocks')
<1>1. N \in Nat /\ bs \in [1 .. N -> BlockSet]
  BY DEF Shape
<1>2. PICK i : i = CHOOSE j \in Fits(bs, n) : \A k \in Fits(bs, n) : j <= k
  OBVIOUS
<1>3. i \in Fits(bs, n)
  BY <1>1, <1>2, FirstFits
<1>4. PICK b, rest, new :
        /\ b = bs[i] /\ new = [at |-> b.at, size |-> n]
        /\ rest = Block(b.at + Header + n, b.size - n - Header, TRUE)
  OBVIOUS
<1>5. /\ blocks' = IF Splits(b, n) THEN Split(bs, i, Block(b.at, n, FALSE), rest)
                   ELSE ReplaceAt(bs, i, Block(b.at, b.size, FALSE))
      /\ heap_end' = IF Splits(b, n) /\ b.at = end THEN rest.at ELSE end
      /\ live' = live \cup {new}
  BY <1>2, <1>4 DEF Take, Split
<1>6. live' \in SUBSET Holdings
  <2>1. b \in BlockSet
    BY <1>1, <1>3, <1>4 DEF Fits
  <2>2. b.at \in Nat
    BY <2>1 DEF BlockSet
  <2>3. new \in Holdings
    BY <1>4, <2>2 DEF Holdings
  <2>4. QED
    BY <1>5, <2>3
<1>7. CASE Splits(b, n)
  <2>1. Splits(bs[i], n)
    BY <1>4, <1>7
  <2>2. LET r == Block(bs[i].at + Header + n, bs[i].size - n - Header, TRUE)
            t == Split(bs, i, Block(bs[i].at, n, FALSE), r) IN
        /\ Shape(N + 1, t, IF bs[i].at = end THEN r.at ELSE end)
        /\ Held(N + 1, t, live \cup {[at |-> bs[i].at, size |-> n]})
        /\ InRow(N, bs) => InRow(N + 1, t)
        /\ Twins(N, bs) = {} => Twins(N + 1, t) = {}
        /\ SameSpan(N, bs, N + 1, t)
    BY <1>3, <2>1, TakeSplit
  <2>3. /\ blocks' = Split(bs, i, Block(b.at, n, FALSE), rest)
        /\ heap_end' = IF b.at = end THEN rest.at ELSE end
    BY <1>5, <1>7
  <2>4. /\ Shape(N + 1, blocks', heap_end') /\ Held(N + 1, blocks', live')
        /\ Tidy(N, bs, N + 1, blocks')
    BY ONLY <1>4, <1>5, <2>2, <2>3, Zenon DEF Tidy
  <2>5. QED
    BY <1>6, <2>4
<1>8. CASE ~Splits(b, n)
  <2>1. LET t == ReplaceAt(bs, i, Block(bs[i].at, bs[i].size, FALSE)) IN
        /\ Shape(N, t, end) /\ Held(N, t, live \cup {[at |-> bs[i].at, size |-> n]})
        /\ InRow(N, bs) => InRow(N, t)
        /\ Twins(N, bs) = {} => Twins(N, t) = {}
        /\ SameSpan(N, bs, N, t)
    BY <1>3, TakeWhole
  <2>2. blocks' = ReplaceAt(bs, i, Block(bs[i].at, bs[i].size, FALSE)) /\ heap_end' = end
    BY ONLY <1>4, <1>5, <1>8
  <2>4. Shape(N, blocks', heap_end') /\ Held(N, blocks', live') /\ Tidy(N, bs, N, blocks')
    BY ONLY <1>4, <1>5, <2>1, <2>2, Zenon DEF Tidy
  <2>5. QED
    BY <1>6, <2>4
<1>9. QED
  BY <1>7, <1>8

-----------------------------------------------------------------------------
(* kfree.                                                                  *)

\* The free blocks j and j + 1 are merged: what the list t with the block x
\* for them has to do with bs.
IsMerged(N, bs, j, M, t, x) ==
  /\ N \in Nat /\ N > 1 /\ M = N - 1 /\ j \in 1 .. M
  /\ bs \in [1 .. N -> BlockSet] /\ t \in [1 .. M -> BlockSet]
  /\ \A k \in 1 .. M : t[k] = IF k < j THEN bs[k] ELSE IF k = j THEN x ELSE bs[k + 1]
  /\ bs[j].free = TRUE /\ bs[j + 1].free = TRUE
  /\ x.at = bs[j].at /\ x.free = TRUE
  /\ bs[j + 1].at = BlockEnd(bs[j]) => BlockEnd(x) = BlockEnd(bs[j + 1])

\* The list before, at and behind the merged block.
LEMMA MergedParts ==
  ASSUME NEW N, NEW bs, NEW j, NEW M, NEW t, NEW x,
         IsMerged(N, bs, j, M, t, x)
  PROVE  /\ \A k \in 1 .. M : k < j => t[k] = bs[k]
         /\ t[j] = x
         /\ \A k \in 1 .. M : k > j => t[k] = bs[k + 1]
         /\ \A k \in 1 .. N : k > j + 1 => t[k - 1] = bs[k]
<1>1. /\ N \in Nat /\ N > 1 /\ M = N - 1 /\ j \in 1 .. M
      /\ \A k \in 1 .. M : t[k] = IF k < j THEN bs[k] ELSE IF k = j THEN x ELSE bs[k + 1]
  BY DEF IsMerged
<1>2. /\ \A k \in 1 .. M : k < j => t[k] = bs[k]
      /\ t[j] = x
      /\ \A k \in 1 .. M : k > j => t[k] = bs[k + 1]
  BY <1>1
<1>3. ASSUME NEW k \in 1 .. N, k > j + 1 PROVE t[k - 1] = bs[k]
  <2>1. k - 1 \in 1 .. M /\ k - 1 > j /\ k - 1 + 1 = k
    BY <1>1, <1>3
  <2>2. QED
    BY <1>2, <2>1
<1>4. QED
  BY <1>2, <1>3

\* A merge keeps what is known of the list; its free neighbours were there.
LEMMA MergeKeeps ==
  ASSUME NEW N, NEW bs, NEW j, NEW M, NEW t, NEW x,
         IsMerged(N, bs, j, M, t, x),
         NEW end, Shape(N, bs, end), NEW lv, Held(N, bs, lv)
  PROVE  /\ Shape(M, t, IF bs[j + 1].at = end THEN bs[j].at ELSE end)
         /\ Held(M, t, lv)
         /\ InRow(N, bs) => InRow(M, t) /\ SameSpan(N, bs, M, t)
         /\ \A k \in Twins(M, t) : IF k < j THEN k \in Twins(N, bs) ELSE k + 1 \in Twins(N, bs)
<1>1. /\ N \in Nat /\ N > 1 /\ M = N - 1 /\ j \in 1 .. M
      /\ bs \in [1 .. N -> BlockSet] /\ t \in [1 .. M -> BlockSet]
  BY DEF IsMerged
<1>2. /\ bs[j].free = TRUE /\ bs[j + 1].free = TRUE
      /\ x.at = bs[j].at /\ x.free = TRUE
  BY DEF IsMerged
<1>3. /\ \A k \in 1 .. M : k < j => t[k] = bs[k]
      /\ t[j] = x
      /\ \A k \in 1 .. M : k > j => t[k] = bs[k + 1]
      /\ \A k \in 1 .. N : k > j + 1 => t[k - 1] = bs[k]
  BY MergedParts
<1> DEFINE From(k) == IF k <= j THEN k ELSE k + 1
<1>4. ASSUME NEW k \in 1 .. M
      PROVE  From(k) \in 1 .. N /\ t[k].at = bs[From(k)].at
             /\ t[k].free = bs[From(k)].free
  <2>1. CASE k < j
    <3>1. k \in 1 .. N /\ From(k) = k
      BY <1>1, <2>1
    <3>2. t[k] = bs[k]
      BY <1>3, <2>1
    <3>3. QED
      BY <3>1, <3>2
  <2>2. CASE k = j
    <3>1. From(k) = j /\ j \in 1 .. N
      BY <1>1, <2>2
    <3>2. QED
      BY <1>2, <1>3, <2>2, <3>1
  <2>3. CASE k > j
    <3>1. From(k) = k + 1 /\ k + 1 \in 1 .. N
      BY <1>1, <2>3
    <3>2. t[k] = bs[k + 1]
      BY <1>3, <2>3
    <3>3. QED
      BY <3>1, <3>2
  <2>4. QED
    BY <1>1, <2>1, <2>2, <2>3
<1>5. Shape(M, t, IF bs[j + 1].at = end THEN bs[j].at ELSE end)
  <2>1. ASSUME NEW k \in 1 .. M, NEW l \in 1 .. M, k # l PROVE t[k].at # t[l].at
    <3>1. From(k) # From(l)
      BY <1>1, <2>1
    <3>2. From(k) \in 1 .. N /\ From(l) \in 1 .. N
          /\ t[k].at = bs[From(k)].at /\ t[l].at = bs[From(l)].at
      BY <1>4
    <3>3. QED
      BY <3>1, <3>2 DEF Shape
  <2>2. t[M].at = IF bs[j + 1].at = end THEN bs[j].at ELSE end
    <3>1. CASE j = M
      <4>1. j + 1 = N
        BY <1>1, <3>1
      <4>2. QED
        BY <1>2, <1>3, <3>1, <4>1 DEF Shape
    <3>2. CASE j # M
      <4>1. M \in 1 .. M /\ M > j /\ M + 1 = N /\ j + 1 \in 1 .. N /\ j + 1 # N /\ N \in 1 .. N
        BY <1>1, <3>2
      <4>2. t[M] = bs[N]
        BY <1>3, <4>1
      <4>3. bs[j + 1].at # end
        BY <4>1 DEF Shape
      <4>4. QED
        BY <4>2, <4>3 DEF Shape
    <3>3. QED
      BY <3>1, <3>2
  <2>3. M \in Nat \ {0} /\ t \in [1 .. M -> BlockSet]
    BY <1>1
  <2>4. QED
    BY <2>1, <2>2, <2>3 DEF Shape
<1>6. Held(M, t, lv)
  <2>1. ASSUME NEW b \in lv
        PROVE  \E k \in 1 .. M : t[k].at = b.at /\ t[k].free = FALSE /\ t[k].size >= b.size
    <3>1. PICK k \in 1 .. N : bs[k].at = b.at /\ bs[k].free = FALSE /\ bs[k].size >= b.size
      BY DEF Held
    <3>2. k # j /\ k # j + 1
      BY <1>2, <3>1
    <3>3. CASE k < j
      <4>1. k \in 1 .. M
        BY <1>1, <3>3
      <4>2. t[k] = bs[k]
        BY <1>3, <3>3, <4>1
      <4>3. QED
        BY <3>1, <4>1, <4>2
    <3>4. CASE k > j + 1
      <4>1. k - 1 \in 1 .. M
        BY <1>1, <3>4
      <4>2. t[k - 1] = bs[k]
        BY <1>3, <3>4
      <4>3. QED
        BY <3>1, <4>1, <4>2
    <3>5. k < j \/ k > j + 1
      BY <1>1, <3>2
    <3>6. QED
      BY <3>3, <3>4, <3>5
  <2>2. ASSUME NEW k \in 1 .. M, t[k].free = FALSE
        PROVE  \E b \in lv : b.at = t[k].at
    <3>1. From(k) \in 1 .. N /\ bs[From(k)].free = FALSE /\ bs[From(k)].at = t[k].at
      BY <1>4, <2>2
    <3>2. PICK l : l = From(k)
      OBVIOUS
    <3> HIDE DEF From
    <3>3. QED
      BY <3>1, <3>2 DEF Held
  <2>3. \A b, c \in lv : b.at = c.at => b = c
    BY DEF Held
  <2>4. QED
    BY <2>1, <2>2, <2>3 DEF Held
<1>7. ASSUME InRow(N, bs) PROVE InRow(M, t) /\ SameSpan(N, bs, M, t)
  <2>1. \A k \in 1 .. N - 1 : bs[k + 1].at = BlockEnd(bs[k])
    BY <1>7 DEF InRow
  <2>2. BlockEnd(x) = BlockEnd(bs[j + 1])
    <3>1. bs[j + 1].at = BlockEnd(bs[j])
      BY <1>1, <2>1
    <3>2. QED
      BY <3>1 DEF IsMerged
  <2>3. ASSUME NEW k \in 1 .. M
        PROVE  BlockEnd(t[k]) = IF k < j THEN BlockEnd(bs[k]) ELSE BlockEnd(bs[k + 1])
    <3>1. CASE k < j
      BY <1>3, <3>1
    <3>2. CASE k = j
      BY <1>1, <1>3, <2>2, <3>2
    <3>3. CASE k > j
      BY <1>1, <1>3, <3>3
    <3>4. QED
      BY <1>1, <3>1, <3>2, <3>3
  <2>4. ASSUME NEW k \in 1 .. M - 1 PROVE t[k + 1].at = BlockEnd(t[k])
    <3>1. k \in 1 .. M /\ k + 1 \in 1 .. M /\ k \in 1 .. N - 1 /\ k + 1 \in 1 .. N - 1
      BY <1>1
    <3>2. CASE k < j
      <4>1. From(k + 1) = k + 1
        BY <1>1, <3>2
      <4>2. t[k + 1].at = bs[k + 1].at
        BY <1>4, <3>1, <4>1
      <4>3. QED
        BY <2>1, <2>3, <3>1, <3>2, <4>2
    <3>3. CASE k >= j
      <4>1. From(k + 1) = k + 1 + 1
        BY <1>1, <3>3
      <4>2. t[k + 1].at = bs[k + 1 + 1].at
        BY <1>4, <3>1, <4>1
      <4>3. BlockEnd(t[k]) = BlockEnd(bs[k + 1])
        BY <1>1, <2>3, <3>1, <3>3
      <4>4. QED
        BY <2>1, <3>1, <4>2, <4>3
    <3>4. QED
      BY <1>1, <3>2, <3>3
  <2>5. t[1].at = bs[1].at
    <3>1. From(1) = 1 /\ 1 \in 1 .. M
      BY <1>1
    <3>2. QED
      BY <1>4, <3>1
  <2>6. BlockEnd(t[M]) = BlockEnd(bs[N])
    <3>1. M \in 1 .. M /\ ~(M < j) /\ M + 1 = N
      BY <1>1
    <3>2. QED
      BY <2>3, <3>1
  <2>7. QED
    BY <2>4, <2>5, <2>6 DEF InRow, SameSpan
<1>8. ASSUME NEW k \in Twins(M, t)
      PROVE  IF k < j THEN k \in Twins(N, bs) ELSE k + 1 \in Twins(N, bs)
  <2>1. k \in 1 .. M - 1 /\ t[k].free = TRUE /\ t[k + 1].free = TRUE
    BY DEF Twins
  <2>2. k \in 1 .. M /\ k + 1 \in 1 .. M /\ k \in 1 .. N - 1 /\ k + 1 \in 1 .. N - 1
    BY <1>1, <2>1
  <2>3. bs[From(k)].free = TRUE /\ bs[From(k + 1)].free = TRUE
    BY <1>4, <2>1, <2>2
  <2>4. CASE k < j
    <3>1. From(k) = k /\ From(k + 1) = k + 1
      BY <1>1, <2>2, <2>4
    <3>2. bs[k].free = TRUE /\ bs[k + 1].free = TRUE
      BY <2>3, <3>1
    <3>3. QED
      BY <2>2, <2>4, <3>2 DEF Twins
  <2>5. CASE ~(k < j)
    <3>1. From(k + 1) = k + 1 + 1
      BY <1>1, <2>2, <2>5
    <3>2. bs[k + 1].free = TRUE
      <4>1. CASE k = j
        BY <1>2, <4>1
      <4>2. CASE k # j
        <5>1. From(k) = k + 1
          BY <1>1, <2>2, <2>5, <4>2
        <5>2. QED
          BY <2>3, <5>1
      <4>3. QED
        BY <4>1, <4>2
    <3>3. bs[k + 1 + 1].free = TRUE
      BY <2>3, <3>1
    <3>4. QED
      BY <2>2, <2>5, <3>2, <3>3 DEF Twins
  <2>6. QED
    BY <2>4, <2>5
<1>9. QED
  BY <1>5, <1>6, <1>7, <1>8

\* Merged makes such a list.
MergeResult(N, bs, j, end, lv, M, t) ==
  /\ Shape(M, t, IF bs[j + 1].at = end THEN bs[j].at ELSE end)
  /\ Held(M, t, lv)
  /\ InRow(N, bs) => InRow(M, t) /\ SameSpan(N, bs, M, t)
  /\ \A k \in Twins(M, t) : IF k < j THEN k \in Twins(N, bs) ELSE k + 1 \in Twins(N, bs)
  /\ \A k \in 1 .. j : t[k].at = bs[k].at /\ t[k].free = bs[k].free

LEMMA MergedKeeps ==
  ASSUME NEW N, NEW bs, NEW end, Shape(N, bs, end), NEW lv, Held(N, bs, lv),
         NEW j \in 1 .. N - 1, bs[j].free = TRUE, bs[j + 1].free = TRUE
  PROVE  MergeResult(N, bs, j, end, lv, N - 1, Merged(bs, j))
<1>1. /\ N \in Nat /\ bs \in [1 .. N -> BlockSet] /\ j \in Nat /\ N > 1
      /\ j \in 1 .. N /\ j + 1 \in 1 .. N
  BY DEF Shape
<1>2. PICK b, c, a, z : b = bs[j] /\ c = bs[j + 1] /\ a = b.at /\ z = b.size + Header + c.size
  OBVIOUS
<1>3. b \in BlockSet /\ c \in BlockSet
  BY <1>1, <1>2
<1>4. a \in Nat /\ z \in Nat /\ b.size \in Nat /\ c.size \in Nat /\ c.at \in Nat /\ Header \in Nat
  BY ONLY <1>2, <1>3, HeapNumbers DEF BlockSet
<1>5. PICK x, t, M : x = Block(a, z, TRUE) /\ t = Merged(bs, j) /\ M = N - 1
  OBVIOUS
<1>6. x \in BlockSet /\ x.at = a /\ x.size = z /\ x.free = TRUE /\ BlockEnd(x) = a + Header + z
  BY ONLY <1>4, <1>5, BlockFacts, ZenonT(30)
<1>7. c.at = BlockEnd(b) => BlockEnd(x) = BlockEnd(c)
  <2>1. BlockEnd(b) = a + Header + b.size /\ BlockEnd(c) = c.at + Header + c.size
    BY ONLY <1>2 DEF BlockEnd
  <2>2. QED
    BY ONLY <1>2, <1>4, <1>6, <2>1
<1>8. x = Block(bs[j].at, bs[j].size + Header + bs[j + 1].size, bs[j].free)
  BY <1>2, <1>5
<1>9. /\ t \in [1 .. M -> BlockSet]
      /\ \A k \in 1 .. M : t[k] = IF k < j THEN bs[k] ELSE IF k = j THEN x ELSE bs[k + 1]
  <2>1. j \in 1 .. N - 1
    OBVIOUS
  <2>2. AfterMerge(N, bs, j, t)
    BY <1>1, <1>5, <2>1, MergedFacts
  <2>3. QED
    BY ONLY <1>5, <1>8, <2>2, Zenon DEF AfterMerge
<1>10. IsMerged(N, bs, j, M, t, x)
  <2>1. bs[j].free = TRUE /\ bs[j + 1].free = TRUE /\ x.at = bs[j].at /\ x.free = TRUE
    BY <1>2, <1>6
  <2>2. bs[j + 1].at = BlockEnd(bs[j]) => BlockEnd(x) = BlockEnd(bs[j + 1])
    BY ONLY <1>2, <1>7
  <2>3. M = N - 1 /\ j \in 1 .. M
    BY <1>5
  <2>4. QED
    BY ONLY <1>1, <1>9, <2>1, <2>2, <2>3 DEF IsMerged
<1>11. /\ Shape(M, t, IF bs[j + 1].at = end THEN bs[j].at ELSE end)
       /\ Held(M, t, lv)
       /\ InRow(N, bs) => InRow(M, t) /\ SameSpan(N, bs, M, t)
       /\ \A k \in Twins(M, t) : IF k < j THEN k \in Twins(N, bs) ELSE k + 1 \in Twins(N, bs)
  BY <1>10, MergeKeeps
<1>12. \A k \in 1 .. j : t[k].at = bs[k].at /\ t[k].free = bs[k].free
  <2>1. /\ \A k \in 1 .. M : k < j => t[k] = bs[k]
        /\ t[j] = x
    BY <1>10, MergedParts
  <2>2. ASSUME NEW k \in 1 .. j PROVE t[k].at = bs[k].at /\ t[k].free = bs[k].free
    <3>1. CASE k = j
      BY <1>2, <1>6, <2>1, <3>1
    <3>2. CASE k < j
      <4>1. k \in 1 .. M
        BY <1>1, <1>5, <3>2
      <4>2. QED
        BY <2>1, <3>2, <4>1
    <3>3. QED
      BY <1>1, <3>1, <3>2
  <2>3. QED
    BY <2>2
<1>13. MergeResult(N, bs, j, end, lv, M, t)
  BY ONLY <1>11, <1>12, Zenon DEF MergeResult
<1>14. QED
  BY <1>5, <1>13

\* The block that is meant is the one with that address.
LEMMA IndexIs ==
  ASSUME NEW N, NEW bs, NEW end, Shape(N, bs, end), NEW i \in 1 .. N
  PROVE  IndexOf(bs, bs[i].at) = i
<1>1. DOMAIN bs = 1 .. N
  BY DEF Shape
<1>2. \A k \in 1 .. N : bs[k].at = bs[i].at => k = i
  BY DEF Shape
<1>3. QED
  BY <1>1, <1>2 DEF IndexOf

\* The block is marked free.
FreeResult(N, bs, i, end, lv, b, t) ==
  /\ Shape(N, t, end) /\ Held(N, t, lv \ {b})
  /\ InRow(N, bs) => InRow(N, t) /\ SameSpan(N, bs, N, t)
  /\ Twins(N, bs) = {} => Twins(N, t) \subseteq {i - 1, i}
  /\ \A k \in 1 .. N : t[k].at = bs[k].at /\ t[k].free \in BOOLEAN
  /\ t[i].free = TRUE

LEMMA FreedKeeps ==
  ASSUME NEW N, NEW bs, NEW end, Shape(N, bs, end), NEW lv, Held(N, bs, lv),
         NEW b \in lv, NEW i \in 1 .. N, bs[i].at = b.at
  PROVE  FreeResult(N, bs, i, end, lv, b, [bs EXCEPT ![i].free = TRUE])
<1>1. /\ N \in Nat /\ N > 0 /\ bs \in [1 .. N -> BlockSet]
      /\ \A k, l \in 1 .. N : k # l => bs[k].at # bs[l].at
      /\ end = bs[N].at
  BY DEF Shape
<1>2. PICK x, t : x = [bs[i] EXCEPT !.free = TRUE] /\ t = [bs EXCEPT ![i].free = TRUE]
  OBVIOUS
<1>3. x \in BlockSet /\ x.at = bs[i].at /\ x.size = bs[i].size /\ x.free = TRUE
  <2>1. bs[i] \in BlockSet
    BY <1>1
  <2>2. QED
    BY ONLY <1>2, <2>1 DEF BlockSet
<1>4. t = [bs EXCEPT ![i] = x]
  BY ONLY <1>2, Zenon
<1>5. /\ t \in [1 .. N -> BlockSet]
      /\ \A k \in 1 .. N : t[k] = IF k = i THEN x ELSE bs[k]
  BY <1>1, <1>3, <1>4
<1>6. /\ \A k \in 1 .. N : t[k].at = bs[k].at
      /\ \A k \in 1 .. N : t[k].size = bs[k].size
      /\ \A k \in 1 .. N : t[k].free = IF k = i THEN TRUE ELSE bs[k].free
  BY <1>3, <1>5
<1>7. \A k \in 1 .. N : BlockEnd(t[k]) = BlockEnd(bs[k])
  BY <1>6 DEF BlockEnd
<1>8. \A k \in 1 .. N : t[k].free \in BOOLEAN
  BY ONLY <1>5 DEF BlockSet
<1>9. /\ \A k \in 1 .. N - 1 : k \in 1 .. N /\ k + 1 \in 1 .. N
      /\ 1 \in 1 .. N /\ N \in 1 .. N /\ i \in Nat /\ N \in Nat \ {0}
  BY <1>1
<1>10. Shape(N, t, end)
  <2>1. end = t[N].at
    BY ONLY <1>1, <1>6, <1>9
  <2>2. \A k, l \in 1 .. N : k # l => t[k].at # t[l].at
    BY ONLY <1>1, <1>6
  <2>3. QED
    BY ONLY <1>5, <1>9, <2>1, <2>2 DEF Shape
<1>11. InRow(N, bs) => InRow(N, t) /\ SameSpan(N, bs, N, t)
  BY ONLY <1>6, <1>7, <1>9 DEF InRow, SameSpan
<1>12. ASSUME Twins(N, bs) = {}, NEW k \in Twins(N, t) PROVE k \in {i - 1, i}
  <2> SUFFICES ASSUME k # i - 1, k # i PROVE FALSE
    OBVIOUS
  <2>1. k \in 1 .. N - 1 /\ t[k].free = TRUE /\ t[k + 1].free = TRUE
    BY DEF Twins
  <2>2. k \in 1 .. N /\ k + 1 \in 1 .. N /\ k + 1 # i
    BY <1>9, <2>1
  <2>3. bs[k].free = TRUE /\ bs[k + 1].free = TRUE
    BY <1>6, <2>1, <2>2
  <2>4. k \in Twins(N, bs)
    BY <2>1, <2>3 DEF Twins
  <2>5. QED
    BY <1>12, <2>4
<1>13. Held(N, t, lv \ {b})
  <2>1. ASSUME NEW c \in lv \ {b}
        PROVE  \E k \in 1 .. N : t[k].at = c.at /\ t[k].free = FALSE /\ t[k].size >= c.size
    <3>1. PICK k \in 1 .. N : bs[k].at = c.at /\ bs[k].free = FALSE /\ bs[k].size >= c.size
      BY DEF Held
    <3>2. k # i
      BY <2>1, <3>1 DEF Held
    <3>3. t[k] = bs[k]
      BY <1>5, <3>2
    <3>4. QED
      BY <3>1, <3>3
  <2>2. ASSUME NEW k \in 1 .. N, t[k].free = FALSE
        PROVE  \E c \in lv \ {b} : c.at = t[k].at
    <3>1. k # i /\ bs[k].free = FALSE /\ t[k].at = bs[k].at
      BY <1>6, <2>2
    <3>2. PICK c \in lv : c.at = bs[k].at
      BY <3>1 DEF Held
    <3>3. c # b
      BY <1>1, <3>1, <3>2
    <3>4. QED
      BY <3>1, <3>2, <3>3
  <2>3. \A c, d \in lv \ {b} : c.at = d.at => c = d
    BY DEF Held
  <2>4. QED
    BY <2>1, <2>2, <2>3 DEF Held
<1>14. t[i].free = TRUE
  BY <1>6
<1>15. FreeResult(N, bs, i, end, lv, b, t)
  BY <1>6, <1>8, <1>10, <1>11, <1>12, <1>13, <1>14 DEF FreeResult
<1>16. QED
  BY <1>2, <1>15

\* The two tests of kfree, once the block is marked.
Behind(N, bs, i) == i < N /\ bs[i + 1].free
Before(bs, i) == i > 1 /\ bs[i - 1].free

\* Freeing and merging with the block behind, then with the one before.
LEMMA KfreeKeeps ==
  ASSUME NEW N, Shape(N, blocks, heap_end), Held(N, blocks, live),
         NEW b \in live, Kfree(b)
  PROVE  \E M : /\ Shape(M, blocks', heap_end') /\ Held(M, blocks', live')
                /\ Tidy(N, blocks, M, blocks')
<1>1. PICK i \in 1 .. N : blocks[i].at = b.at
  BY DEF Held
<1>2. i = IndexOf(blocks, b.at) /\ N \in Nat /\ i \in Nat
  <2>1. IndexOf(blocks, blocks[i].at) = i
    BY IndexIs
  <2>2. QED
    BY <1>1, <2>1 DEF Shape
<1>3. PICK bs : bs = [blocks EXCEPT ![i].free = TRUE]
  OBVIOUS
<1>4. /\ Shape(N, bs, heap_end) /\ Held(N, bs, live \ {b})
      /\ InRow(N, blocks) => InRow(N, bs) /\ SameSpan(N, blocks, N, bs)
      /\ Twins(N, blocks) = {} => Twins(N, bs) \subseteq {i - 1, i}
      /\ \A k \in 1 .. N : bs[k].at = blocks[k].at /\ bs[k].free \in BOOLEAN
      /\ bs[i].free = TRUE
  <2>1. FreeResult(N, blocks, i, heap_end, live, b, bs)
    BY <1>1, <1>3, FreedKeeps
  <2>2. QED
    BY ONLY <2>1, Zenon DEF FreeResult
<1>5. Len(bs) = N
  BY <1>4 DEF Shape
<1>6. PICK bs1, end : /\ bs1 = IF Behind(N, bs, i) THEN Merged(bs, i) ELSE bs
                      /\ end = IF Behind(N, bs, i) /\ bs[i + 1].at = heap_end THEN b.at ELSE heap_end
  OBVIOUS
<1>7. \/ Before(bs, i) /\ blocks' = Merged(bs1, i - 1) /\ heap_end' = IF end = b.at THEN bs[i - 1].at ELSE end
      \/ ~Before(bs, i) /\ blocks' = bs1 /\ heap_end' = end
  <2>1. /\ blocks' = IF Before(bs, i) THEN Merged(bs1, i - 1) ELSE bs1
        /\ heap_end' = IF Before(bs, i) /\ end = b.at THEN bs[i - 1].at ELSE end
    BY <1>2, <1>3, <1>5, <1>6 DEF Kfree, Behind, Before
  <2>2. QED
    BY ONLY <2>1, Zenon
<1>8. live' = live \ {b}
  BY DEF Kfree
<1>9. PICK K : /\ Shape(K, bs1, end) /\ Held(K, bs1, live \ {b}) /\ i \in 1 .. K
               /\ InRow(N, blocks) => InRow(K, bs1) /\ SameSpan(N, blocks, K, bs1)
               /\ Twins(N, blocks) = {} => Twins(K, bs1) \subseteq {i - 1}
               /\ \A k \in 1 .. i : bs1[k].at = bs[k].at /\ bs1[k].free = bs[k].free
  <2>1. CASE Behind(N, bs, i)
    <3>1. i \in 1 .. N - 1 /\ bs[i + 1].free = TRUE
      <4>1. i \in 1 .. N - 1 /\ i + 1 \in 1 .. N
        BY <1>2, <2>1 DEF Behind
      <4>2. bs[i + 1].free /\ bs[i + 1].free \in BOOLEAN
        BY <1>4, <2>1, <4>1 DEF Behind
      <4>3. QED
        BY <4>1, <4>2
    <3>2. PICK t, K : t = Merged(bs, i) /\ K = N - 1
      OBVIOUS
    <3>3. /\ Shape(K, t, IF bs[i + 1].at = heap_end THEN bs[i].at ELSE heap_end)
          /\ Held(K, t, live \ {b})
          /\ InRow(N, bs) => InRow(K, t) /\ SameSpan(N, bs, K, t)
          /\ \A k \in Twins(K, t) : IF k < i THEN k \in Twins(N, bs) ELSE k + 1 \in Twins(N, bs)
          /\ \A k \in 1 .. i : t[k].at = bs[k].at /\ t[k].free = bs[k].free
      <4>1. MergeResult(N, bs, i, heap_end, live \ {b}, K, t)
        BY <1>4, <3>1, <3>2, MergedKeeps
      <4>2. QED
        BY ONLY <4>1, Zenon DEF MergeResult
    <3>4. t = bs1 /\ end = IF bs[i + 1].at = heap_end THEN bs[i].at ELSE heap_end
      BY <1>1, <1>4, <1>6, <2>1, <3>2
    <3>5. ASSUME Twins(N, blocks) = {}, NEW k \in Twins(K, t) PROVE k \in {i - 1}
      <4>1. Twins(N, bs) \subseteq {i - 1, i}
        BY <1>4, <3>5
      <4>2. k \in Nat
        BY <1>2, <3>2 DEF Twins
      <4>3. CASE k < i
        <5>1. k \in Twins(N, bs)
          BY <3>3, <4>3
        <5>2. QED
          BY <4>1, <4>3, <5>1
      <4>4. CASE ~(k < i)
        <5>1. k + 1 \in Twins(N, bs)
          BY <3>3, <4>4
        <5>2. k + 1 \in {i - 1, i}
          BY <4>1, <5>1
        <5>3. QED
          BY <1>2, <4>2, <4>4, <5>2
      <4>5. QED
        BY <4>3, <4>4
    <3>6. InRow(N, blocks) => InRow(K, t) /\ SameSpan(N, blocks, K, t)
      BY <1>4, <3>3 DEF SameSpan
    <3>7. i \in 1 .. K
      BY <3>1, <3>2
    <3>8. Shape(K, t, end)
      BY <3>3, <3>4
    <3>9. QED
      BY <3>3, <3>4, <3>5, <3>6, <3>7, <3>8
  <2>2. CASE ~Behind(N, bs, i)
    <3>1. bs1 = bs /\ end = heap_end
      BY <1>6, <2>2
    <3>2. ASSUME Twins(N, blocks) = {}, NEW k \in Twins(N, bs) PROVE k \in {i - 1}
      <4>1. k # i
        <5> SUFFICES ASSUME k = i PROVE FALSE
          OBVIOUS
        <5>1. k \in 1 .. N - 1 /\ bs[k + 1].free = TRUE
          BY DEF Twins
        <5>2. i < N /\ bs[i + 1].free
          BY <1>2, <5>1
        <5>3. QED
          BY <2>2, <5>2 DEF Behind
      <4>2. QED
        BY <1>4, <3>2, <4>1
    <3>3. QED
      BY <1>4, <3>1, <3>2
  <2>3. QED
    BY <2>1, <2>2
<1>10. CASE Before(bs, i)
  <2>1. i > 1 /\ bs[i - 1].free
    BY <1>10 DEF Before
  <2>2. i - 1 \in 1 .. N /\ i - 1 \in 1 .. i /\ i \in 1 .. i /\ i - 1 + 1 = i /\ i - 1 \in 1 .. K - 1
    BY <1>2, <1>9, <2>1 DEF Shape
  <2>3. bs1[i - 1].free = TRUE /\ bs1[i].free = TRUE
    <3>1. bs[i - 1].free \in BOOLEAN
      BY <1>4, <2>2
    <3>2. QED
      BY <1>4, <1>9, <2>1, <2>2, <3>1
  <2>4. PICK j, t, M : j = i - 1 /\ t = Merged(bs1, j) /\ M = K - 1
    OBVIOUS
  <2>5. j \in 1 .. K - 1 /\ j + 1 = i /\ bs1[j].free = TRUE /\ bs1[j + 1].free = TRUE
    BY <2>2, <2>3, <2>4
  <2>6. /\ Shape(M, t, IF bs1[j + 1].at = end THEN bs1[j].at ELSE end)
        /\ Held(M, t, live \ {b})
        /\ InRow(K, bs1) => InRow(M, t) /\ SameSpan(K, bs1, M, t)
        /\ \A k \in Twins(M, t) : IF k < j THEN k \in Twins(K, bs1) ELSE k + 1 \in Twins(K, bs1)
    <3>1. MergeResult(K, bs1, j, end, live \ {b}, M, t)
      BY <1>9, <2>4, <2>5, MergedKeeps
    <3>2. QED
      BY ONLY <3>1, Zenon DEF MergeResult
  <2>7. bs1[j + 1].at = b.at /\ bs1[j].at = bs[i - 1].at
    <3>1. bs1[i].at = bs[i].at /\ bs[i].at = blocks[i].at /\ bs1[i - 1].at = bs[i - 1].at
      BY <1>4, <1>9, <2>2
    <3>2. QED
      BY <1>1, <2>4, <2>5, <3>1
  <2>8. blocks' = t /\ heap_end' = IF bs1[j + 1].at = end THEN bs1[j].at ELSE end
    BY <1>7, <1>10, <2>4, <2>7
  <2>9. ASSUME Twins(N, blocks) = {} PROVE Twins(M, t) = {}
    <3> SUFFICES ASSUME NEW k \in Twins(M, t) PROVE FALSE
      OBVIOUS
    <3>1. Twins(K, bs1) \subseteq {j}
      BY <1>9, <2>4, <2>9
    <3>2. k \in Nat /\ j \in Nat
      BY <1>2, <2>5 DEF Twins
    <3>3. IF k < j THEN k = j ELSE k + 1 = j
      BY <2>6, <3>1
    <3>4. QED
      BY <3>2, <3>3
  <2>10. InRow(N, blocks) => InRow(M, t) /\ SameSpan(N, blocks, M, t)
    BY <1>9, <2>6 DEF SameSpan
  <2>11. Tidy(N, blocks, M, t)
    BY <2>9, <2>10 DEF Tidy
  <2>12. Shape(M, t, heap_end') /\ Held(M, t, live')
    BY <1>8, <2>6, <2>8
  <2>13. QED
    BY <2>8, <2>11, <2>12
<1>11. CASE ~Before(bs, i)
  <2>1. blocks' = bs1 /\ heap_end' = end
    BY <1>7, <1>11
  <2>2. ASSUME Twins(N, blocks) = {} PROVE Twins(K, bs1) = {}
    <3> SUFFICES ASSUME NEW k \in Twins(K, bs1) PROVE FALSE
      OBVIOUS
    <3>1. k = i - 1
      BY <1>9, <2>2
    <3>2. k \in 1 .. K - 1 /\ bs1[k].free = TRUE
      BY DEF Twins
    <3>3. i > 1 /\ i - 1 \in 1 .. i
      BY <1>2, <3>1, <3>2
    <3>4. bs[i - 1].free
      BY <1>9, <3>1, <3>2, <3>3
    <3>5. QED
      BY <1>11, <3>3, <3>4 DEF Before
  <2>3. Tidy(N, blocks, K, bs1)
    BY <1>9, <2>2 DEF Tidy
  <2>4. QED
    BY <1>8, <1>9, <2>1, <2>3
<1>12. QED
  BY <1>10, <1>11

-----------------------------------------------------------------------------
(* Growth.                                                                 *)

\* No block of bs has memory between lo and hi.
Clear(N, bs, lo, hi) ==
  \A k \in 1 .. N :
    /\ bs[k].at < lo => BlockEnd(bs[k]) <= lo
    /\ bs[k].at >= lo => bs[k].at >= hi

\* What heap_grow does with memory from lo to hi: t has it and is as good as
\* bs; when it follows the last block, it is as tidy.
GrowResult(N, bs, lo, hi, lv, M, t, end) ==
  /\ Shape(M, t, end) /\ NoOverlap(M, t) /\ Held(M, t, lv)
  /\ t[M].free = TRUE /\ t[M].at <= lo /\ BlockEnd(t[M]) = hi
  /\ BlockEnd(bs[N]) = lo =>
       /\ InRow(N, bs) => InRow(M, t)
       /\ Twins(N, bs) = {} => Twins(M, t) = {}
       /\ t[1].at = bs[1].at

\* Blocks have room for their header.
LEMMA BlockEndIs ==
  ASSUME NEW b \in BlockSet
  PROVE  BlockEnd(b) \in Nat /\ BlockEnd(b) > b.at /\ BlockEnd(b) = b.at + Header + b.size
BY HeapNumbers DEF BlockEnd, BlockSet

\* The last block is extended.
LEMMA ExtendKeeps ==
  ASSUME NEW N, NEW bs, NEW end, Shape(N, bs, end), NoOverlap(N, bs),
         NEW lv, Held(N, bs, lv),
         NEW lo \in Nat, NEW hi \in Nat, lo < hi, Clear(N, bs, lo, hi),
         bs[N].free = TRUE, BlockEnd(bs[N]) = lo,
         NEW t, NEW x \in BlockSet, t = [bs EXCEPT ![N] = x],
         x.at = bs[N].at, x.free = TRUE, BlockEnd(x) = hi
  PROVE  GrowResult(N, bs, lo, hi, lv, N, t, end)
<1>1. /\ N \in Nat /\ N > 0 /\ bs \in [1 .. N -> BlockSet] /\ end = bs[N].at
      /\ N \in Nat \ {0} /\ N \in 1 .. N /\ 1 \in 1 .. N
  BY DEF Shape
<1>2. /\ t \in [1 .. N -> BlockSet]
      /\ \A k \in 1 .. N : t[k] = IF k = N THEN x ELSE bs[k]
  BY <1>1
<1>3. /\ \A k \in 1 .. N : t[k].at = bs[k].at
      /\ \A k \in 1 .. N : t[k].free = bs[k].free
      /\ \A k \in 1 .. N : BlockEnd(t[k]) = IF k = N THEN hi ELSE BlockEnd(bs[k])
  BY <1>2
<1>4. \A k \in 1 .. N : bs[k].at \in Nat /\ BlockEnd(bs[k]) \in Nat /\ BlockEnd(bs[k]) > bs[k].at
  <2>1. ASSUME NEW k \in 1 .. N
        PROVE  bs[k].at \in Nat /\ BlockEnd(bs[k]) \in Nat /\ BlockEnd(bs[k]) > bs[k].at
    <3>1. bs[k] \in BlockSet
      BY <1>1
    <3>2. QED
      BY ONLY <3>1, BlockEndIs DEF BlockSet
  <2>2. QED
    BY <2>1
<1>5. Shape(N, t, end)
  <2>1. \A k, l \in 1 .. N : k # l => bs[k].at # bs[l].at
    BY DEF Shape
  <2>2. \A k, l \in 1 .. N : k # l => t[k].at # t[l].at
    BY <1>3, <2>1
  <2>3. end = t[N].at
    BY <1>1, <1>3
  <2>4. QED
    BY <1>1, <1>2, <2>2, <2>3 DEF Shape
<1>6. NoOverlap(N, t)
  <2> SUFFICES ASSUME NEW i \in 1 .. N, NEW j \in 1 .. N, t[i].at < t[j].at
               PROVE  BlockEnd(t[i]) <= t[j].at
    BY DEF NoOverlap
  <2>1. bs[i].at < bs[j].at /\ t[j].at = bs[j].at
    BY <1>3
  <2>2. BlockEnd(bs[i]) <= bs[j].at
    BY <2>1 DEF NoOverlap
  <2>3. CASE i = N
    <3>1. bs[j].at >= lo
      BY <2>2, <2>3
    <3>2. bs[j].at >= hi
      BY <3>1 DEF Clear
    <3>3. BlockEnd(t[i]) = hi
      BY <1>3, <2>3
    <3>4. QED
      BY <1>4, <2>1, <3>2, <3>3
  <2>4. CASE i # N
    <3>1. BlockEnd(t[i]) = BlockEnd(bs[i])
      BY <1>3, <2>4
    <3>2. QED
      BY <2>1, <2>2, <3>1
  <2>5. QED
    BY <2>3, <2>4
<1>7. Held(N, t, lv)
  <2>1. ASSUME NEW b \in lv
        PROVE  \E k \in 1 .. N : t[k].at = b.at /\ t[k].free = FALSE /\ t[k].size >= b.size
    <3>1. PICK k \in 1 .. N : bs[k].at = b.at /\ bs[k].free = FALSE /\ bs[k].size >= b.size
      BY DEF Held
    <3>2. k # N
      BY <3>1
    <3>3. t[k] = bs[k]
      BY <1>2, <3>2
    <3>4. QED
      BY <3>1, <3>3
  <2>2. \A k \in 1 .. N : t[k].free = FALSE => \E b \in lv : b.at = t[k].at
    BY <1>3 DEF Held
  <2>3. \A b, c \in lv : b.at = c.at => b = c
    BY DEF Held
  <2>4. QED
    BY <2>1, <2>2, <2>3 DEF Held
<1>8. InRow(N, bs) => InRow(N, t)
  <2> SUFFICES ASSUME InRow(N, bs), NEW k \in 1 .. N - 1 PROVE t[k + 1].at = BlockEnd(t[k])
    BY DEF InRow
  <2>1. k \in 1 .. N /\ k + 1 \in 1 .. N /\ k # N
    BY <1>1
  <2>2. bs[k + 1].at = BlockEnd(bs[k])
    BY DEF InRow
  <2>3. QED
    BY <1>3, <2>1, <2>2
<1>9. Twins(N, t) \subseteq Twins(N, bs)
  <2> SUFFICES ASSUME NEW k \in Twins(N, t) PROVE k \in Twins(N, bs)
    OBVIOUS
  <2>1. k \in 1 .. N - 1 /\ t[k].free = TRUE /\ t[k + 1].free = TRUE
    BY DEF Twins
  <2>2. k \in 1 .. N /\ k + 1 \in 1 .. N
    BY <1>1, <2>1
  <2>3. bs[k].free = TRUE /\ bs[k + 1].free = TRUE
    BY <1>3, <2>1, <2>2
  <2>4. QED
    BY <2>1, <2>3 DEF Twins
<1>10. t[1].at = bs[1].at /\ BlockEnd(t[N]) = hi /\ t[N].free = TRUE /\ t[N].at <= lo
  <2>1. bs[N].at < lo
    BY <1>1, <1>4
  <2>2. QED
    BY <1>1, <1>3, <1>4, <2>1
<1>11. Twins(N, bs) = {} => Twins(N, t) = {}
  BY <1>9
<1>12. QED
  BY <1>5, <1>6, <1>7, <1>8, <1>10, <1>11 DEF GrowResult

\* A new block is appended.
LEMMA AppendKeeps ==
  ASSUME NEW N, NEW bs, NEW end, Shape(N, bs, end), NoOverlap(N, bs),
         NEW lv, Held(N, bs, lv),
         NEW lo \in Nat, NEW hi \in Nat, lo < hi, Clear(N, bs, lo, hi),
         BlockEnd(bs[N]) = lo => bs[N].free = FALSE,
         NEW M, M = N + 1, NEW t \in [1 .. M -> BlockSet], NEW x,
         \A k \in 1 .. M : t[k] = IF k = M THEN x ELSE bs[k],
         x.at = lo, x.free = TRUE, BlockEnd(x) = hi
  PROVE  GrowResult(N, bs, lo, hi, lv, M, t, x.at)
<1>1. /\ N \in Nat /\ N > 0 /\ bs \in [1 .. N -> BlockSet]
      /\ N \in 1 .. N /\ 1 \in 1 .. N /\ M \in Nat \ {0} /\ M \in 1 .. M /\ 1 \in 1 .. M
      /\ N \in 1 .. M /\ N # M /\ 1 # M
  BY DEF Shape
<1>2. /\ t[M] = x
      /\ \A k \in 1 .. N : k \in 1 .. M /\ t[k] = bs[k]
      /\ \A k \in 1 .. M : k = M \/ k \in 1 .. N
  BY <1>1
<1>3. \A k \in 1 .. N : bs[k].at \in Nat /\ BlockEnd(bs[k]) \in Nat /\ BlockEnd(bs[k]) > bs[k].at
  <2>1. ASSUME NEW k \in 1 .. N
        PROVE  bs[k].at \in Nat /\ BlockEnd(bs[k]) \in Nat /\ BlockEnd(bs[k]) > bs[k].at
    <3>1. bs[k] \in BlockSet
      BY <1>1
    <3>2. QED
      BY ONLY <3>1, BlockEndIs DEF BlockSet
  <2>2. QED
    BY <2>1
<1>4. \A k \in 1 .. N : bs[k].at # lo
  BY <1>3 DEF Clear
<1>5. Shape(M, t, x.at)
  <2>1. \A k, l \in 1 .. N : k # l => bs[k].at # bs[l].at
    BY DEF Shape
  <2>2. ASSUME NEW k \in 1 .. M, NEW l \in 1 .. M, k # l PROVE t[k].at # t[l].at
    <3>1. CASE k = M
      BY <1>2, <1>4, <2>2, <3>1
    <3>2. CASE l = M
      BY <1>2, <1>4, <2>2, <3>2
    <3>3. CASE k # M /\ l # M
      BY <1>2, <2>1, <2>2, <3>3
    <3>4. QED
      BY <3>1, <3>2, <3>3
  <2>3. QED
    BY <1>1, <1>2, <2>2 DEF Shape
<1>6. NoOverlap(M, t)
  <2> SUFFICES ASSUME NEW i \in 1 .. M, NEW j \in 1 .. M, t[i].at < t[j].at
               PROVE  BlockEnd(t[i]) <= t[j].at
    BY DEF NoOverlap
  <2>1. CASE i = M /\ j # M
    <3>1. j \in 1 .. N /\ t[j] = bs[j] /\ t[i] = x
      BY <1>2, <2>1
    <3>2. bs[j].at \in Nat /\ bs[j].at >= lo
      BY <1>3, <3>1
    <3>3. bs[j].at >= hi
      BY <3>1, <3>2 DEF Clear
    <3>4. QED
      BY <3>1, <3>2, <3>3
  <2>2. CASE i # M /\ j = M
    <3>1. i \in 1 .. N /\ t[i] = bs[i] /\ t[j] = x
      BY <1>2, <2>2
    <3>2. bs[i].at < lo
      BY <3>1
    <3>3. QED
      BY <3>1, <3>2 DEF Clear
  <2>3. CASE i # M /\ j # M
    <3>1. i \in 1 .. N /\ t[i] = bs[i] /\ j \in 1 .. N /\ t[j] = bs[j]
      BY <1>2, <2>3
    <3>2. QED
      BY <3>1 DEF NoOverlap
  <2>4. ~(i = M /\ j = M)
    <3> SUFFICES ASSUME i = M, j = M PROVE FALSE
      OBVIOUS
    <3>1. lo < lo
      BY <1>2
    <3>2. QED
      BY <3>1
  <2>5. QED
    BY <2>1, <2>2, <2>3, <2>4
<1>7. Held(M, t, lv)
  <2>1. ASSUME NEW b \in lv
        PROVE  \E k \in 1 .. M : t[k].at = b.at /\ t[k].free = FALSE /\ t[k].size >= b.size
    <3>1. PICK k \in 1 .. N : bs[k].at = b.at /\ bs[k].free = FALSE /\ bs[k].size >= b.size
      BY DEF Held
    <3>2. k \in 1 .. M /\ t[k] = bs[k]
      BY <1>2
    <3>3. QED
      BY <3>1, <3>2
  <2>2. ASSUME NEW k \in 1 .. M, t[k].free = FALSE PROVE \E b \in lv : b.at = t[k].at
    <3>1. k # M
      BY <1>2, <2>2
    <3>2. k \in 1 .. N /\ t[k] = bs[k]
      BY <1>2, <3>1
    <3>3. QED
      BY <2>2, <3>2 DEF Held
  <2>3. \A b, c \in lv : b.at = c.at => b = c
    BY DEF Held
  <2>4. QED
    BY <2>1, <2>2, <2>3 DEF Held
<1>8. ASSUME BlockEnd(bs[N]) = lo, InRow(N, bs) PROVE InRow(M, t)
  <2> SUFFICES ASSUME NEW k \in 1 .. M - 1 PROVE t[k + 1].at = BlockEnd(t[k])
    BY DEF InRow
  <2>1. CASE k = N
    <3>1. t[k] = bs[N] /\ t[k + 1] = x
      BY <1>1, <1>2, <2>1
    <3>2. QED
      BY <1>8, <3>1
  <2>2. CASE k # N
    <3>1. k \in 1 .. N - 1 /\ k \in 1 .. N /\ k + 1 \in 1 .. N
      BY <1>1, <2>2
    <3>2. bs[k + 1].at = BlockEnd(bs[k])
      BY <1>8, <3>1 DEF InRow
    <3>3. QED
      BY <1>2, <3>1, <3>2
  <2>3. QED
    BY <2>1, <2>2
<1>9. ASSUME BlockEnd(bs[N]) = lo, Twins(N, bs) = {} PROVE Twins(M, t) = {}
  <2> SUFFICES ASSUME NEW k \in Twins(M, t) PROVE FALSE
    OBVIOUS
  <2>1. k \in 1 .. M - 1 /\ t[k].free = TRUE /\ t[k + 1].free = TRUE
    BY DEF Twins
  <2>2. k # N
    <3> SUFFICES ASSUME k = N PROVE FALSE
      OBVIOUS
    <3>1. t[k] = bs[N]
      BY <1>1, <1>2
    <3>2. QED
      BY <1>9, <2>1, <3>1
  <2>3. k \in 1 .. N - 1 /\ k \in 1 .. N /\ k + 1 \in 1 .. N
    BY <1>1, <2>1, <2>2
  <2>4. k \in Twins(N, bs)
    BY <1>2, <2>1, <2>3 DEF Twins
  <2>5. QED
    BY <1>9, <2>4
<1>10. t[1].at = bs[1].at /\ BlockEnd(t[M]) = hi /\ t[M].free = TRUE /\ t[M].at <= lo
  BY <1>1, <1>2
<1>11. QED
  BY <1>5, <1>6, <1>7, <1>8, <1>9, <1>10 DEF GrowResult

\* Pages and addresses.
LEMMA DivBounds ==
  ASSUME NEW p \in Nat \ {0}, NEW a \in Nat, NEW s \in Nat
  PROVE  /\ a \div p \in Nat
         /\ a < s * p => a \div p < s
         /\ a >= s * p => a \div p >= s
<1>1. PICK q, r : q = a \div p /\ r = a % p
  OBVIOUS
<1>2. q \in Nat /\ r \in 0 .. p - 1 /\ a = q * p + r
  BY <1>1
<1>3. ASSUME a < s * p PROVE q < s
  <2> SUFFICES ASSUME q >= s PROVE FALSE
    BY <1>2
  <2>1. PICK d \in Nat : q = s + d
    <3>1. q - s \in Nat /\ q = s + (q - s)
      BY <1>2
    <3>2. QED
      BY <3>1
  <2>2. q * p = s * p + d * p /\ d * p >= 0
    BY <2>1
  <2>3. QED
    BY <1>2, <1>3, <2>2
<1>4. ASSUME a >= s * p PROVE q >= s
  <2> SUFFICES ASSUME q < s PROVE FALSE
    BY <1>2
  <2>1. PICK d \in Nat : s = q + 1 + d
    <3>1. s - q - 1 \in Nat /\ s = q + 1 + (s - q - 1)
      BY <1>2
    <3>2. QED
      BY <3>1
  <2>2. s * p = q * p + p + d * p /\ d * p >= 0
    BY <1>2, <2>1
  <2>3. QED
    BY <1>2, <1>4, <2>2
<1>5. QED
  BY <1>1, <1>2, <1>3, <1>4

\* Later addresses are on later pages.
LEMMA DivMono ==
  ASSUME NEW p \in Nat \ {0}, NEW a \in Nat, NEW b \in Nat, a <= b
  PROVE  a \div p <= b \div p
<1>1. PICK s : s = a \div p
  OBVIOUS
<1>2. s \in Nat /\ a >= s * p
  <2>1. PICK r : r = a % p
    OBVIOUS
  <2>2. s \in Nat /\ r \in Nat /\ a = s * p + r
    BY <1>1, <2>1
  <2>3. QED
    BY <2>2
<1>3. b >= s * p
  BY <1>2
<1>4. QED
  BY <1>1, <1>2, <1>3, DivBounds

\* Products of pages, for the provers.
LEMMA PageProducts ==
  ASSUME NEW p \in Nat \ {0}, NEW s \in Nat, NEW k \in Nat
  PROVE  /\ s * p \in Nat /\ (s + k) * p = s * p + k * p
         /\ k > 0 => k * p >= p
BY SMT

\* Free frames are clear of blocks that are made of frames of the heap.
Own(N, bs, frames) ==
  \A k \in 1 .. N :
    bs[k].at \div PageUnits .. (BlockEnd(bs[k]) - 1) \div PageUnits \subseteq frames

LEMMA FreeIsClear ==
  ASSUME NEW N \in Nat, NEW bs \in [1 .. N -> BlockSet], NEW frames, Own(N, bs, frames),
         NEW start \in Nat, NEW pages \in Nat \ {0}, Run(start, pages) \cap frames = {},
         NEW lo, lo = start * PageUnits, NEW hi, hi = (start + pages) * PageUnits
  PROVE  Clear(N, bs, lo, hi)
<1> SUFFICES ASSUME NEW k \in 1 .. N
             PROVE  /\ bs[k].at < lo => BlockEnd(bs[k]) <= lo
                    /\ bs[k].at >= lo => bs[k].at >= hi
  BY DEF Clear
<1>1. PICK a, e, p, end : a = bs[k].at /\ e = BlockEnd(bs[k]) - 1 /\ p = PageUnits /\ end = start + pages
  OBVIOUS
<1>2. bs[k] \in BlockSet
  OBVIOUS
<1>3. /\ a \in Nat /\ e \in Nat /\ a <= e /\ BlockEnd(bs[k]) = e + 1
  <2>1. /\ bs[k].at \in Nat /\ BlockEnd(bs[k]) \in Nat /\ BlockEnd(bs[k]) > bs[k].at
    BY ONLY <1>2, BlockEndIs DEF BlockSet
  <2>2. QED
    BY ONLY <1>1, <2>1
<1>4. p \in Nat \ {0} /\ end \in Nat /\ start \in Nat
  BY <1>1, HeapNumbers
<1>5. lo = start * p /\ hi = end * p
  BY <1>1
<1>6. PICK q, r : q = a \div p /\ r = e \div p
  OBVIOUS
<1>7. q .. r \subseteq frames
  BY <1>1, <1>6 DEF Own
<1>8. \A f \in q .. r : ~(start <= f /\ f < end)
  <2> SUFFICES ASSUME NEW f \in q .. r, start <= f, f < end PROVE FALSE
    OBVIOUS
  <2>1. q \in Nat /\ r \in Nat
    BY ONLY <1>3, <1>4, <1>6, DivBounds
  <2>2. f \in Run(start, pages)
    BY <1>1, <1>4, <2>1 DEF Run
  <2>3. QED
    BY <1>7, <2>2
<1>9. q \in Nat /\ r \in Nat /\ q <= r
  BY ONLY <1>3, <1>4, <1>6, DivBounds, DivMono
<1>10. ASSUME a < lo PROVE e + 1 <= lo
  <2> SUFFICES ASSUME e >= lo PROVE FALSE
    <3>1. lo \in Nat
      BY ONLY <1>4, <1>5, PageProducts
    <3>2. QED
      BY <1>3, <3>1
  <2>1. q < start /\ r >= start
    BY ONLY <1>3, <1>4, <1>5, <1>6, <1>10, e >= lo, DivBounds
  <2>2. start < end
    BY <1>1, <1>4
  <2>3. QED
    BY ONLY <1>4, <1>8, <1>9, <2>1, <2>2
<1>11. ASSUME a >= lo PROVE a >= hi
  <2> SUFFICES ASSUME a < hi PROVE FALSE
    <3>1. hi \in Nat
      BY ONLY <1>4, <1>5, PageProducts
    <3>2. QED
      BY <1>3, <3>1
  <2>1. q >= start /\ q < end
    BY ONLY <1>3, <1>4, <1>5, <1>6, <1>11, a < hi, DivBounds
  <2>2. QED
    BY ONLY <1>8, <1>9, <2>1
<1>12. QED
  BY ONLY <1>1, <1>3, <1>10, <1>11

\* Append, as a function.
IsAppended(M, bs, x, t) ==
  /\ t \in [1 .. M -> BlockSet] /\ Len(t) = M
  /\ \A k \in 1 .. M : t[k] = IF k = M THEN x ELSE bs[k]

LEMMA AppendFacts ==
  ASSUME NEW N \in Nat, NEW bs \in [1 .. N -> BlockSet], NEW x \in BlockSet
  PROVE  IsAppended(N + 1, bs, x, Append(bs, x))
<1>1. bs \in Seq(BlockSet) /\ Len(bs) = N
  OBVIOUS
<1>2. PICK t : t = Append(bs, x)
  OBVIOUS
<1>3. /\ t \in Seq(BlockSet) /\ Len(t) = N + 1
      /\ \A k \in 1 .. N + 1 : t[k] = IF k = N + 1 THEN x ELSE bs[k]
  BY <1>1, <1>2
<1>4. t \in [1 .. N + 1 -> BlockSet]
  BY <1>3
<1>5. IsAppended(N + 1, bs, x, t)
  BY ONLY <1>3, <1>4 DEF IsAppended
<1>6. QED
  BY <1>2, <1>5

\* heap_grow.
LEMMA GrownKeeps ==
  ASSUME NEW N, Shape(N, blocks, heap_end), NoOverlap(N, blocks),
         NEW lv, Held(N, blocks, lv),
         NEW start \in Nat, NEW pages \in Nat \ {0},
         NEW lo, lo = start * PageUnits, NEW hi, hi = (start + pages) * PageUnits,
         Clear(N, blocks, lo, hi),
         NEW t, t = Grown(blocks, start, pages)
  PROVE  \E M : GrowResult(N, blocks, lo, hi, lv, M, t,
                           IF Len(t) > Len(blocks) THEN Last(t).at ELSE heap_end)
<1>1. /\ N \in Nat /\ N > 0 /\ N \in 1 .. N /\ blocks \in [1 .. N -> BlockSet]
      /\ heap_end = blocks[N].at /\ Len(blocks) = N /\ blocks[N] \in BlockSet
  BY DEF Shape
<1>2. PICK b, p : b = blocks[N] /\ p = pages * PageUnits
  OBVIOUS
<1>3. b \in BlockSet /\ b.at \in Nat /\ b.size \in Nat /\ b.free \in BOOLEAN
  <2>1. b \in BlockSet
    BY <1>1, <1>2
  <2>2. QED
    BY ONLY <2>1 DEF BlockSet
<1>4. /\ lo \in Nat /\ p \in Nat /\ hi = lo + p /\ p >= PageUnits
      /\ Header \in Nat /\ PageUnits \in Nat /\ Header < PageUnits /\ 0 < PageUnits
  <2>1. PICK s, k, q : s = start /\ k = pages /\ q = PageUnits
    OBVIOUS
  <2>2. s \in Nat /\ k \in Nat /\ k > 0 /\ q \in Nat \ {0}
    BY <2>1, HeapNumbers
  <2>3. /\ s * q \in Nat /\ (s + k) * q = s * q + k * q
        /\ k * q >= q /\ k * q \in Nat
    BY ONLY <2>2, PageProducts
  <2>4. QED
    BY <1>2, <2>1, <2>3, HeapNumbers
<1>5. lo \in Nat /\ hi \in Nat /\ lo < hi
  BY ONLY <1>4
<1>6. IndexOf(blocks, heap_end) = N
  <2>1. IndexOf(blocks, blocks[N].at) = N
    BY <1>1, IndexIs
  <2>2. QED
    BY <1>1, <2>1
<1>7. t = IF BlockEnd(b) = lo /\ b.free
          THEN [blocks EXCEPT ![N].size = @ + p]
          ELSE Append(SubSeq(blocks, 1, N), Block(lo, p - Header, TRUE))
  BY <1>2, <1>6 DEF Grown
<1>8. CASE BlockEnd(b) = lo /\ b.free
  <2>1. PICK z, x : z = b.size + p /\ x = [b EXCEPT !.size = z]
    OBVIOUS
  <2>2. z \in Nat
    BY ONLY <1>3, <1>4, <2>1
  <2>3. x \in BlockSet /\ x.at = b.at /\ x.size = z /\ x.free = b.free
    BY ONLY <1>3, <2>1, <2>2 DEF BlockSet
  <2>4. t = [blocks EXCEPT ![N] = x]
    <3>1. t = [blocks EXCEPT ![N].size = @ + p]
      BY ONLY <1>7, <1>8, Zenon
    <3>2. x = [blocks[N] EXCEPT !.size = blocks[N].size + p]
      BY ONLY <1>2, <2>1
    <3>3. QED
      BY ONLY <3>1, <3>2
  <2>5. BlockEnd(x) = hi
    <3>1. BlockEnd(x) = b.at + Header + z /\ BlockEnd(b) = b.at + Header + b.size
      BY ONLY <2>3 DEF BlockEnd
    <3>2. QED
      BY ONLY <1>3, <1>4, <1>8, <2>1, <3>1
  <2>6. b.free = TRUE
    BY <1>3, <1>8
  <2>7. GrowResult(N, blocks, lo, hi, lv, N, t, heap_end)
    <3>1. blocks[N].free = TRUE /\ BlockEnd(blocks[N]) = lo /\ x.at = blocks[N].at /\ x.free = TRUE
      BY <1>2, <1>8, <2>3, <2>6
    <3>2. QED
      BY <1>5, <2>3, <2>4, <2>5, <3>1, ExtendKeeps
  <2>8. Len(t) = Len(blocks)
    <3>1. t \in [1 .. N -> BlockSet]
      BY ONLY <1>1, <2>3, <2>4
    <3>2. QED
      BY ONLY <1>1, <3>1
  <2>9. ~(Len(t) > Len(blocks))
    BY ONLY <1>1, <2>8
  <2>10. QED
    BY <2>7, <2>9
<1>9. CASE ~(BlockEnd(b) = lo /\ b.free)
  <2>1. PICK z, x, M : z = p - Header /\ x = Block(lo, z, TRUE) /\ M = N + 1
    OBVIOUS
  <2>2. z \in Nat /\ lo + Header + z = hi
    BY ONLY <1>4, <2>1
  <2>3. x \in BlockSet /\ x.at = lo /\ x.free = TRUE /\ BlockEnd(x) = hi
    BY ONLY <1>4, <2>1, <2>2, SMT DEF Block, BlockSet, BlockEnd
  <2>4. t = Append(SubSeq(blocks, 1, N), x)
    BY ONLY <1>7, <1>9, <2>1, Zenon
  <2>5. SubSeq(blocks, 1, N) = blocks /\ blocks \in Seq(BlockSet)
    BY ONLY <1>1
  <2>6. /\ t \in [1 .. M -> BlockSet] /\ Len(t) = M
        /\ \A k \in 1 .. M : t[k] = IF k = M THEN x ELSE blocks[k]
    <3>1. t = Append(blocks, x)
      BY ONLY <2>4, <2>5
    <3>2. N \in Nat /\ blocks \in [1 .. N -> BlockSet] /\ x \in BlockSet
      BY <1>1, <2>3
    <3>3. IsAppended(M, blocks, x, t)
      BY ONLY <2>1, <3>1, <3>2, AppendFacts
    <3>4. QED
      BY ONLY <3>3, Zenon DEF IsAppended
  <2>7. BlockEnd(blocks[N]) = lo => blocks[N].free = FALSE
    BY ONLY <1>2, <1>3, <1>9
  <2>8. GrowResult(N, blocks, lo, hi, lv, M, t, x.at)
    BY <1>5, <2>1, <2>3, <2>6, <2>7, AppendKeeps
  <2>9. Len(t) > Len(blocks) /\ Last(t).at = x.at
    <3>1. Len(t) > Len(blocks) /\ M \in 1 .. M
      BY ONLY <1>1, <2>1, <2>6
    <3>2. Last(t) = t[M]
      BY ONLY <2>6 DEF Last
    <3>3. QED
      BY ONLY <2>6, <3>1, <3>2
  <2>10. QED
    BY <2>8, <2>9
<1>10. QED
  BY <1>8, <1>9

-----------------------------------------------------------------------------
(* The invariant.                                                          *)

\* As long as the heap is one region: the blocks make up the memory of its
\* frames, and no two free ones are neighbours.
Tiles(N, bs, frames) ==
  /\ InRow(N, bs) /\ Twins(N, bs) = {}
  /\ BlockEnd(bs[N]) = bs[1].at + Cardinality(frames) * PageUnits

Lists(N) ==
  /\ Shape(N, blocks, heap_end) /\ Held(N, blocks, live)
  /\ oneRegion = TRUE => Tiles(N, blocks, heap)

Sorts ==
  /\ used \subseteq Frame /\ heap \subseteq used /\ live \in SUBSET Holdings
  /\ oneRegion \in BOOLEAN /\ hung \in BOOLEAN

HeapInv == Sorts /\ \E N : Lists(N)

\* While the kernel goes on, blocks are apart and made of frames of the heap.
LEMMA GoesMeans ==
  ASSUME NEW N, Shape(N, blocks, heap_end), Goes
  PROVE  NoOverlap(N, blocks) /\ Own(N, blocks, heap)
<1>1. DOMAIN blocks = 1 .. N
  BY DEF Shape
<1>2. NoOverlap(N, blocks)
  BY <1>1 DEF Goes, BlocksAreOwnMemory, NoOverlap
<1>3. Own(N, blocks, heap)
  BY <1>1 DEF Goes, BlocksAreOwnMemory, Own
<1>4. QED
  BY <1>2, <1>3

\* Frames are counted.
LEMMA RunIsCounted ==
  ASSUME NEW start \in Nat, NEW pages \in Nat, NEW s \in SUBSET Frame,
         Run(start, pages) \cap s = {}
  PROVE  /\ IsFiniteSet(s) /\ Cardinality(s) \in Nat
         /\ Cardinality(s \cup Run(start, pages)) = Cardinality(s) + pages
<1>1. PICK e : e = start + pages - 1
  OBVIOUS
<1>2. start \in Int /\ e \in Int /\ Run(start, pages) = start .. e
  BY <1>1 DEF Run
<1>3. IsFiniteSet(Run(start, pages)) /\ Cardinality(Run(start, pages)) = pages
  <2>1. IsFiniteSet(start .. e) /\ Cardinality(start .. e) = IF start > e THEN 0 ELSE e - start + 1
    BY <1>2, FS_Interval
  <2>2. QED
    BY <1>1, <1>2, <2>1
<1>4. IsFiniteSet(s) /\ Cardinality(s) \in Nat
  <2>1. IsFiniteSet(Frame)
    <3>1. 0 \in Int /\ TotalPages - 1 \in Int
      BY FramesAssumption
    <3>2. QED
      BY <3>1, FS_Interval DEF Frame
  <2>2. IsFiniteSet(s)
    BY <2>1, FS_Subset
  <2>3. QED
    BY <2>2, FS_CardinalityType
<1>5. PICK r : r = Run(start, pages)
  OBVIOUS
<1>6. /\ Cardinality(s \cup r) = Cardinality(s) + Cardinality(r) - Cardinality(s \cap r)
  BY <1>3, <1>4, <1>5, FS_Union
<1>7. Cardinality(s \cap r) = 0
  <2>1. s \cap r = {}
    BY <1>5
  <2>2. QED
    BY <2>1, FS_EmptySet
<1>8. QED
  BY ONLY <1>3, <1>4, <1>5, <1>6, <1>7

\* After kmalloc_init.
LEMMA InitHolds == Init => HeapInv
<1> SUFFICES ASSUME Init PROVE HeapInv
  OBVIOUS
<1>1. PICK k, p, z : k = InitialPages /\ p = PageUnits /\ z = k * p - Header
  OBVIOUS
<1>2. k \in 1 .. TotalPages /\ k \in Nat /\ k > 0 /\ p \in Nat \ {0} /\ TotalPages \in Nat
  BY <1>1, HeapAssumption, FramesAssumption DEF HeapAssumption
<1>3. k * p \in Nat /\ k * p >= p
  <2>1. 0 \in Nat
    OBVIOUS
  <2>2. QED
    BY ONLY <1>2, <2>1, PageProducts
<1>4. z \in Nat /\ Header + z = k * p /\ Header \in Nat
  BY <1>1, <1>3, HeapNumbers
<1>5. PICK x : x = Block(0, z, TRUE)
  OBVIOUS
<1>6. x \in BlockSet /\ x.at = 0 /\ x.free = TRUE /\ BlockEnd(x) = k * p
  <2>1. 0 \in Nat /\ TRUE \in BOOLEAN
    OBVIOUS
  <2>2. x \in BlockSet /\ x.at = 0 /\ x.free = TRUE /\ BlockEnd(x) = 0 + Header + z
    BY ONLY <1>4, <1>5, <2>1, BlockFacts
  <2>3. QED
    BY ONLY <1>4, <2>2
<1>7. blocks = <<x>> /\ heap_end = 0 /\ live = {} /\ oneRegion = TRUE /\ hung = FALSE
  BY <1>1, <1>5 DEF Init
<1>8. heap = Run(0, k) /\ used = heap /\ used \subseteq Frame
  <2>1. heap = Run(0, k) /\ used = heap
    BY <1>1 DEF Init
  <2>2. Run(0, k) \subseteq Frame
    BY ONLY <1>2 DEF Run, Frame
  <2>3. QED
    BY <2>1, <2>2
<1>9. blocks \in [1 .. 1 -> BlockSet] /\ blocks[1] = x
  BY ONLY <1>6, <1>7
<1>10. Shape(1, blocks, heap_end)
  BY ONLY <1>6, <1>7, <1>9 DEF Shape
<1>11. Held(1, blocks, live)
  BY ONLY <1>6, <1>7, <1>9 DEF Held
<1>12. Tiles(1, blocks, heap)
  <2>1. Cardinality(heap) = k
    <3>1. Run(0, k) \cap {} = {} /\ {} \in SUBSET Frame /\ 0 \in Nat
      OBVIOUS
    <3>2. Cardinality({} \cup Run(0, k)) = Cardinality({}) + k
      BY ONLY <1>2, <3>1, RunIsCounted
    <3>3. Cardinality({}) = 0 /\ {} \cup Run(0, k) = heap
      BY ONLY <1>8, FS_EmptySet
    <3>4. QED
      BY ONLY <1>2, <3>2, <3>3
  <2>2. BlockEnd(blocks[1]) = blocks[1].at + Cardinality(heap) * PageUnits
    BY ONLY <1>1, <1>3, <1>6, <1>9, <2>1
  <2>3. InRow(1, blocks) /\ Twins(1, blocks) = {}
    BY DEF InRow, Twins
  <2>4. QED
    BY <2>2, <2>3 DEF Tiles
<1>13. Sorts
  BY ONLY <1>7, <1>8 DEF Sorts
<1>14. QED
  BY <1>10, <1>11, <1>12, <1>13 DEF HeapInv, Lists

\* A step that leaves the frames of the heap alone and is tidy.
LEMMA TidyTiles ==
  ASSUME NEW N, NEW bs, NEW M, NEW t, Tidy(N, bs, M, t), NEW frames, Tiles(N, bs, frames)
  PROVE  Tiles(M, t, frames)
BY DEF Tidy, Tiles, SameSpan

\* kmalloc without growth.
LEMMA FitsHolds ==
  ASSUME HeapInv, NEW n \in Sizes, KmallocFits(n)
  PROVE  HeapInv'
<1>1. PICK N : Lists(N)
  BY DEF HeapInv
<1>2. Shape(N, blocks, heap_end) /\ Held(N, blocks, live) /\ (oneRegion = TRUE => Tiles(N, blocks, heap))
  BY <1>1 DEF Lists
<1>3. /\ Goes /\ Fits(blocks, n) # {} /\ Take(blocks, heap_end, n)
      /\ used' = used /\ heap' = heap /\ oneRegion' = oneRegion /\ hung' = hung
  BY DEF KmallocFits
<1>4. NoOverlap(N, blocks)
  BY <1>2, <1>3, GoesMeans
<1>5. live \in SUBSET Holdings
  BY DEF HeapInv, Sorts
<1>6. /\ live' \in SUBSET Holdings
      /\ \E M : /\ Shape(M, blocks', heap_end') /\ Held(M, blocks', live')
                /\ Tidy(N, blocks, M, blocks')
  BY ONLY <1>2, <1>3, <1>4, <1>5, n \in Sizes, TakeKeeps
<1>7. PICK M : Shape(M, blocks', heap_end') /\ Held(M, blocks', live') /\ Tidy(N, blocks, M, blocks')
  BY <1>6
<1>8. oneRegion' = TRUE => Tiles(M, blocks', heap')
  BY <1>2, <1>3, <1>7, TidyTiles
<1>9. Lists(M)'
  BY <1>7, <1>8 DEF Lists
<1>10. Sorts'
  BY <1>3, <1>6 DEF HeapInv, Sorts
<1>11. QED
  BY <1>9, <1>10 DEF HeapInv

\* kfree.
LEMMA KfreeHolds ==
  ASSUME HeapInv, NEW b \in live, Kfree(b)
  PROVE  HeapInv'
<1>1. PICK N : Lists(N)
  BY DEF HeapInv
<1>2. Shape(N, blocks, heap_end) /\ Held(N, blocks, live) /\ (oneRegion = TRUE => Tiles(N, blocks, heap))
  BY <1>1 DEF Lists
<1>3. /\ used' = used /\ heap' = heap /\ oneRegion' = oneRegion /\ hung' = hung
      /\ live' = live \ {b}
  BY DEF Kfree
<1>4. PICK M : Shape(M, blocks', heap_end') /\ Held(M, blocks', live') /\ Tidy(N, blocks, M, blocks')
  BY <1>2, KfreeKeeps
<1>5. oneRegion' = TRUE => Tiles(M, blocks', heap')
  BY <1>2, <1>3, <1>4, TidyTiles
<1>6. Lists(M)'
  BY <1>4, <1>5 DEF Lists
<1>7. Sorts'
  BY <1>3 DEF HeapInv, Sorts
<1>8. QED
  BY <1>6, <1>7 DEF HeapInv

\* The pages that kmalloc asks for are enough.
LEMMA PagesAreEnough ==
  ASSUME NEW n \in Sizes, NEW pages, pages = PagesNeeded(n)
  PROVE  pages \in Nat \ {0} /\ pages * PageUnits >= n + Header
<1>1. PICK p, a, q, r : p = PageUnits /\ a = n + Header /\ q = (n + Header + PageUnits - 1) \div p
                        /\ r = (a + p - 1) % p
  OBVIOUS
<1>2. p \in Nat \ {0} /\ a \in Nat /\ a > 0 /\ MinGrow \in Nat /\ MinGrow > 0
  BY <1>1, HeapNumbers
<1>3. q = (a + p - 1) \div p
  BY <1>1, HeapNumbers
<1>4. q \in Nat /\ r \in 0 .. p - 1 /\ a + p - 1 = q * p + r
  <2>1. PICK c : c = a + p - 1
    OBVIOUS
  <2>2. c \in Nat /\ q = c \div p /\ r = c % p
    BY ONLY <1>1, <1>2, <1>3, <2>1
  <2>3. q \in Nat /\ r \in 0 .. p - 1 /\ c = q * p + r
    BY ONLY <1>2, <2>2
  <2>4. QED
    BY ONLY <2>1, <2>3
<1>5. q * p >= a /\ q * p \in Nat
  BY ONLY <1>2, <1>4
<1>6. pages = IF q < MinGrow THEN MinGrow ELSE q
  BY <1>1 DEF PagesNeeded
<1>7. pages \in Nat /\ pages > 0 /\ pages >= q
  <2>1. q > 0
    BY ONLY <1>2, <1>4, <1>5
  <2>2. QED
    BY ONLY <1>2, <1>4, <1>6, <2>1
<1>8. pages * p >= a
  <2>1. PICK d \in Nat : pages = q + d
    <3>1. pages - q \in Nat /\ pages = q + (pages - q)
      BY ONLY <1>4, <1>7
    <3>2. QED
      BY <3>1
  <2>2. (q + d) * p = q * p + d * p /\ d * p \in Nat
    BY ONLY <1>2, <1>4, d \in Nat, PageProducts
  <2>3. QED
    BY ONLY <1>2, <1>5, <2>1, <2>2
<1>9. QED
  BY <1>1, <1>7, <1>8

\* kmalloc with growth: the frames are free, so no block reaches into them.
LEMMA GrowsHolds ==
  ASSUME HeapInv, NEW n \in Sizes, KmallocGrows(n)
  PROVE  HeapInv'
<1>1. PICK N : Lists(N)
  BY DEF HeapInv
<1>2. Shape(N, blocks, heap_end) /\ Held(N, blocks, live) /\ (oneRegion = TRUE => Tiles(N, blocks, heap))
  BY <1>1 DEF Lists
<1>3. Sorts
  BY DEF HeapInv
<1>4. PICK pages, start, bs, end :
        /\ pages = PagesNeeded(n) /\ start = AllocPages(used, pages)
        /\ bs = Grown(blocks, start, pages)
        /\ end = IF Len(bs) > Len(blocks) THEN Last(bs).at ELSE heap_end
  OBVIOUS
<1>5. /\ Goes /\ start # NoFrame
      /\ used' = used \cup Run(start, pages) /\ heap' = heap \cup Run(start, pages)
      /\ oneRegion' = (oneRegion /\ BlockEnd(Last(blocks)) = start * PageUnits)
      /\ Take(bs, end, n) /\ hung' = hung
  BY <1>4 DEF KmallocGrows
<1>6. pages \in Nat \ {0} /\ pages \in Nat /\ pages * PageUnits >= n + Header
  BY ONLY <1>4, n \in Sizes, PagesAreEnough
<1>7. start \in Nat /\ Run(start, pages) \subseteq Frame \ used
  BY ONLY <1>4, <1>5, <1>6, AllocIsFree
<1>8. Run(start, pages) \cap heap = {} /\ heap \in SUBSET Frame
  BY ONLY <1>3, <1>7 DEF Sorts
<1>9. /\ N \in Nat /\ blocks \in [1 .. N -> BlockSet] /\ N \in 1 .. N /\ Last(blocks) = blocks[N]
  BY ONLY <1>2 DEF Shape, Last
<1>10. NoOverlap(N, blocks) /\ Own(N, blocks, heap)
  BY <1>2, <1>5, GoesMeans
<1>11. PICK lo, hi : lo = start * PageUnits /\ hi = (start + pages) * PageUnits
  OBVIOUS
<1>12. /\ lo \in Nat /\ hi \in Nat /\ hi = lo + pages * PageUnits /\ PageUnits \in Nat \ {0}
       /\ pages * PageUnits \in Nat
  <2>1. PICK p : p = PageUnits
    OBVIOUS
  <2>2. p \in Nat \ {0}
    BY <2>1, HeapNumbers
  <2>3. /\ start * p \in Nat /\ pages * p \in Nat /\ (start + pages) * p = start * p + pages * p
    BY ONLY <1>6, <1>7, <2>2, PageProducts
  <2>4. QED
    BY ONLY <1>11, <2>1, <2>2, <2>3
<1>13. Clear(N, blocks, lo, hi)
  BY ONLY <1>6, <1>7, <1>8, <1>9, <1>10, <1>11, FreeIsClear
<1>14. PICK K : GrowResult(N, blocks, lo, hi, live, K, bs, end)
  <2>1. \E K : GrowResult(N, blocks, lo, hi, live, K, bs,
                          IF Len(bs) > Len(blocks) THEN Last(bs).at ELSE heap_end)
    BY ONLY <1>2, <1>4, <1>6, <1>7, <1>10, <1>11, <1>13, GrownKeeps
  <2>2. QED
    BY ONLY <1>4, <2>1
<1>15. /\ Shape(K, bs, end) /\ NoOverlap(K, bs) /\ Held(K, bs, live)
       /\ bs[K].free = TRUE /\ bs[K].at <= lo /\ BlockEnd(bs[K]) = hi
       /\ BlockEnd(blocks[N]) = lo =>
            /\ InRow(N, blocks) => InRow(K, bs)
            /\ Twins(N, blocks) = {} => Twins(K, bs) = {}
            /\ bs[1].at = blocks[1].at
  BY ONLY <1>14, Zenon DEF GrowResult
<1>16. Fits(bs, n) # {}
  <2>1. PICK b : b = bs[K]
    OBVIOUS
  <2>2. K \in DOMAIN bs /\ b \in BlockSet
    BY ONLY <1>15, <2>1 DEF Shape
  <2>3. b.at \in Nat /\ b.size \in Nat /\ BlockEnd(b) = b.at + Header + b.size
        /\ Header \in Nat /\ n \in Nat
    BY ONLY <2>2, HeapNumbers, BlockEndIs, n \in Sizes DEF BlockSet
  <2>4. b.size >= n /\ b.free
    BY ONLY <1>6, <1>12, <1>15, <2>1, <2>3
  <2>5. K \in Fits(bs, n)
    BY ONLY <2>1, <2>2, <2>4 DEF Fits
  <2>6. QED
    BY <2>5
<1>17. /\ live' \in SUBSET Holdings
       /\ \E M : Shape(M, blocks', heap_end') /\ Held(M, blocks', live') /\ Tidy(K, bs, M, blocks')
  <2>1. live \in SUBSET Holdings
    BY ONLY <1>3 DEF Sorts
  <2>2. QED
    BY ONLY <1>5, <1>15, <1>16, <2>1, n \in Sizes, TakeKeeps
<1>18. PICK M : Shape(M, blocks', heap_end') /\ Held(M, blocks', live') /\ Tidy(K, bs, M, blocks')
  BY <1>17
<1>19. ASSUME oneRegion' = TRUE PROVE Tiles(M, blocks', heap')
  <2>1. oneRegion = TRUE /\ BlockEnd(blocks[N]) = lo
    BY ONLY <1>3, <1>5, <1>9, <1>11, <1>19 DEF Sorts
  <2>2. /\ InRow(N, blocks) /\ Twins(N, blocks) = {}
        /\ lo = blocks[1].at + Cardinality(heap) * PageUnits
    BY ONLY <1>2, <2>1 DEF Tiles
  <2>3. InRow(K, bs) /\ Twins(K, bs) = {} /\ bs[1].at = blocks[1].at
    BY ONLY <1>15, <2>1, <2>2
  <2>4. Cardinality(heap) \in Nat /\ Cardinality(heap') = Cardinality(heap) + pages
    BY ONLY <1>5, <1>6, <1>7, <1>8, RunIsCounted
  <2>5. PICK c, p, a : c = Cardinality(heap) /\ p = PageUnits /\ a = blocks[1].at
    OBVIOUS
  <2>6. c \in Nat /\ p \in Nat \ {0} /\ a \in Nat
    <3>1. 1 \in 1 .. N
      BY ONLY <1>9
    <3>2. blocks[1] \in BlockSet
      BY ONLY <1>9, <3>1
    <3>3. QED
      BY ONLY <1>12, <2>4, <2>5, <3>2 DEF BlockSet
  <2>7. (c + pages) * p = c * p + pages * p /\ c * p \in Nat /\ pages * p \in Nat
    BY ONLY <1>6, <2>6, PageProducts
  <2>8. hi = a + (c + pages) * p
    <3>1. hi = lo + pages * p /\ lo = a + c * p
      BY ONLY <1>12, <2>2, <2>5
    <3>2. QED
      BY ONLY <2>6, <2>7, <3>1
  <2>9. BlockEnd(bs[K]) = bs[1].at + Cardinality(heap') * PageUnits
    BY ONLY <1>15, <2>3, <2>4, <2>5, <2>8
  <2>10. Tiles(K, bs, heap')
    BY ONLY <2>3, <2>9 DEF Tiles
  <2>11. QED
    BY ONLY <1>18, <2>10, TidyTiles
<1>20. Lists(M)'
  BY <1>18, <1>19 DEF Lists
<1>21. Sorts'
  <2>1. oneRegion' \in BOOLEAN
    BY ONLY <1>5
  <2>2. used' \subseteq Frame /\ heap' \subseteq used'
    BY ONLY <1>3, <1>5, <1>7 DEF Sorts
  <2>3. QED
    BY ONLY <1>3, <1>5, <1>17, <2>1, <2>2 DEF Sorts
<1>22. QED
  BY <1>20, <1>21 DEF HeapInv

\* Steps that leave the list alone.
LEMMA SameList ==
  ASSUME HeapInv, UNCHANGED <<heap, blocks, heap_end, live, oneRegion>>,
         used' \subseteq Frame, heap \subseteq used', hung' \in BOOLEAN
  PROVE  HeapInv'
<1>1. PICK N : Lists(N)
  BY DEF HeapInv
<1>2. Lists(N)'
  BY <1>1 DEF Lists
<1>3. Sorts'
  BY DEF HeapInv, Sorts
<1>4. QED
  BY <1>2, <1>3 DEF HeapInv

\* The other users of pmm.c, and kmalloc that fails.
LEMMA OthersHold ==
  ASSUME HeapInv
  PROVE  /\ \A n \in Sizes : KmallocRecurses(n) => HeapInv'
         /\ \A count \in OtherRuns : OthersAlloc(count) => HeapInv'
         /\ \A f \in Frame : OthersFree(f) => HeapInv'
         /\ UNCHANGED vars => HeapInv'
<1>1. used \subseteq Frame /\ heap \subseteq used /\ hung \in BOOLEAN
  BY DEF HeapInv, Sorts
<1>2. ASSUME NEW n \in Sizes, KmallocRecurses(n) PROVE HeapInv'
  BY <1>1, <1>2, SameList DEF KmallocRecurses
<1>3. ASSUME NEW count \in OtherRuns, OthersAlloc(count) PROVE HeapInv'
  <2>1. count \in Nat \ {0}
    BY HeapAssumption DEF HeapAssumption
  <2>2. AllocPages(used, count) # NoFrame
    BY <1>3 DEF OthersAlloc
  <2>3. Run(AllocPages(used, count), count) \subseteq Frame \ used
    BY <2>1, <2>2, AllocIsFree
  <2>4. used' \subseteq Frame /\ heap \subseteq used'
    BY <1>1, <1>3, <2>3 DEF OthersAlloc
  <2>5. QED
    BY <1>1, <1>3, <2>4, SameList DEF OthersAlloc
<1>4. ASSUME NEW f \in Frame, OthersFree(f) PROVE HeapInv'
  BY <1>1, <1>4, SameList DEF OthersFree
<1>5. ASSUME UNCHANGED vars PROVE HeapInv'
  BY <1>1, <1>5, SameList DEF vars
<1>6. QED
  BY <1>2, <1>3, <1>4, <1>5

-----------------------------------------------------------------------------
\* The invariant of kmalloc and kfree, whatever the other users of pmm.c do:
\* the block that heap_end names is the last of the list, no two blocks have
\* the same address, the list is what callers hold, and tiles one region.
THEOREM HeapInvHolds == Spec => []HeapInv
<1>1. HeapInv /\ [Next]_vars => HeapInv'
  <2> SUFFICES ASSUME HeapInv, [Next]_vars PROVE HeapInv'
    OBVIOUS
  <2>1. ASSUME NEW n \in Sizes, KmallocFits(n) PROVE HeapInv'
    BY <2>1, FitsHolds
  <2>2. ASSUME NEW n \in Sizes, KmallocGrows(n) PROVE HeapInv'
    BY <2>2, GrowsHolds
  <2>3. ASSUME NEW b \in live, Kfree(b) PROVE HeapInv'
    BY <2>3, KfreeHolds
  <2>4. QED
    BY <2>1, <2>2, <2>3, OthersHold DEF Next
<1>2. QED
  BY <1>1, InitHolds, PTL DEF Spec

\* The list is a list of blocks, and the sets are sets of frames and holdings.
THEOREM TypeCorrect == Spec => []TypeOK
<1>1. HeapInv => TypeOK
  <2> SUFFICES ASSUME HeapInv PROVE TypeOK
    OBVIOUS
  <2>1. PICK N : Shape(N, blocks, heap_end)
    BY DEF HeapInv, Lists
  <2>2. N \in Nat /\ N \in 1 .. N /\ blocks \in [1 .. N -> BlockSet] /\ heap_end = blocks[N].at
    BY <2>1 DEF Shape
  <2>3. blocks \in Seq(BlockSet) /\ blocks[N] \in BlockSet
    BY ONLY <2>2
  <2>4. heap_end \in Nat
    BY ONLY <2>2, <2>3 DEF BlockSet
  <2>5. QED
    BY <2>3, <2>4 DEF TypeOK, HeapInv, Sorts, Holdings, BlockSet
<1>2. QED
  BY <1>1, HeapInvHolds, PTL

\* What callers hold is what the list of kmalloc.c has in use, with the room
\* they asked for: no block is given out twice or too small, and kfree frees
\* no block but the one it is given.
THEOREM HoldingsAreListed == Spec => []LiveBlocksAreListed
<1>1. HeapInv => LiveBlocksAreListed
  <2> SUFFICES ASSUME HeapInv PROVE LiveBlocksAreListed
    OBVIOUS
  <2>1. PICK N : Shape(N, blocks, heap_end) /\ Held(N, blocks, live)
    BY DEF HeapInv, Lists
  <2>2. DOMAIN blocks = 1 .. N
    BY <2>1 DEF Shape
  <2>3. \A i \in 1 .. N : blocks[i].free \in BOOLEAN
    <3>1. blocks \in [1 .. N -> BlockSet]
      BY <2>1 DEF Shape
    <3>2. QED
      BY ONLY <3>1 DEF BlockSet
  <2>4. ASSUME NEW b \in live
        PROVE  \E i \in DOMAIN blocks :
                 blocks[i].at = b.at /\ ~blocks[i].free /\ blocks[i].size >= b.size
    <3>1. PICK i \in 1 .. N :
            blocks[i].at = b.at /\ blocks[i].free = FALSE /\ blocks[i].size >= b.size
      BY <2>1 DEF Held
    <3>2. QED
      BY <2>2, <3>1
  <2>5. ASSUME NEW i \in DOMAIN blocks, ~blocks[i].free PROVE \E b \in live : b.at = blocks[i].at
    <3>1. i \in 1 .. N /\ blocks[i].free = FALSE
      BY <2>2, <2>3, <2>5
    <3>2. QED
      BY <2>1, <3>1 DEF Held
  <2>6. QED
    BY <2>4, <2>5 DEF LiveBlocksAreListed
<1>2. QED
  BY <1>1, HeapInvHolds, PTL

\* While the heap is one region, the blocks of kmalloc.c tile it, heap_end is
\* the last, and what was freed is merged.
THEOREM HeapIsTiled == Spec => []BlocksTileHeap
<1>1. HeapInv => BlocksTileHeap
  <2> SUFFICES ASSUME HeapInv, oneRegion PROVE BlocksTileHeap
    BY DEF BlocksTileHeap
  <2>1. oneRegion = TRUE
    BY DEF HeapInv, Sorts
  <2>2. PICK N : Shape(N, blocks, heap_end) /\ Tiles(N, blocks, heap)
    BY <2>1 DEF HeapInv, Lists
  <2>3. N \in Nat /\ N \in 1 .. N /\ blocks \in [1 .. N -> BlockSet] /\ heap_end = blocks[N].at
    BY ONLY <2>2 DEF Shape
  <2>4. Len(blocks) = N /\ Last(blocks) = blocks[N]
    BY ONLY <2>3 DEF Last
  <2>5. \A i \in 1 .. N - 1 : blocks[i + 1].at = BlockEnd(blocks[i])
    BY ONLY <2>2 DEF Tiles, InRow
  <2>6. \A i \in 1 .. N - 1 : ~(blocks[i].free = TRUE /\ blocks[i + 1].free = TRUE)
    BY ONLY <2>2 DEF Tiles, Twins
  <2>7. \A i \in 1 .. N - 1 : ~(blocks[i].free /\ blocks[i + 1].free)
    <3>1. \A i \in 1 .. N : blocks[i].free \in BOOLEAN
      BY ONLY <2>3 DEF BlockSet
    <3>2. \A i \in 1 .. N - 1 : i \in 1 .. N /\ i + 1 \in 1 .. N
      BY ONLY <2>3
    <3>3. QED
      BY ONLY <2>6, <3>1, <3>2
  <2>8. BlockEnd(blocks[N]) = blocks[1].at + Cardinality(heap) * PageUnits
    BY ONLY <2>2 DEF Tiles
  <2>9. /\ \A i \in 1 .. Len(blocks) - 1 : blocks[i + 1].at = BlockEnd(blocks[i])
        /\ BlockEnd(Last(blocks)) = blocks[1].at + Cardinality(heap) * PageUnits
        /\ heap_end = Last(blocks).at
        /\ \A i \in 1 .. Len(blocks) - 1 : ~(blocks[i].free /\ blocks[i + 1].free)
    BY ONLY <2>3, <2>4, <2>5, <2>7, <2>8
  <2>10. QED
    BY <2>9 DEF BlocksTileHeap
<1>2. QED
  BY <1>1, HeapInvHolds, PTL

=============================================================================
