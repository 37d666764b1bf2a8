-------------------------- MODULE UserMemoryProofs --------------------------
(***************************************************************************)
(* Proofs about module UserMemory, for every number of frames, layout of   *)
(* the address space, size of program and pattern of calls: programs share *)
(* no memory, the heap is mapped up to the break, and no frame is lost but *)
(* where mmu.c loses it.                                                   *)
(***************************************************************************)
EXTENDS UserMemory, FiniteSetTheorems, WellFoundedInduction, TLAPS

\* Among the steps after which a loop of the code finds what it looks for
\* there is a least one, so that a CHOOSE of it is meaningful.
LEMMA LeastSteps ==
  ASSUME NEW S \in SUBSET Nat, S # {}
  PROVE  \E i \in S : \A j \in S : i <= j
<1> DEFINE below(i) == 0 .. i - 1
           T == {below(i) : i \in S}
<1>1. T \subseteq FiniteSubsetsOf(Nat) /\ T # {}
  <2>1. ASSUME NEW i \in S
        PROVE  IsFiniteSet(below(i)) /\ below(i) \subseteq Nat
    BY FS_Interval
  <2>2. T # {}
    OBVIOUS
  <2>3. QED
    BY <2>1, <2>2 DEF FiniteSubsetsOf
<1>2. PICK u \in T : \A v \in T : <<v, u>> \notin StrictSubsetOrdering(Nat)
  BY <1>1, FS_StrictSubsetOrderingWellFounded, WFMin
<1>3. PICK x \in S : u = below(x)
  OBVIOUS
<1>4. ASSUME NEW j \in S, j < x
      PROVE  FALSE
  <2>1. below(j) \subseteq below(x) /\ below(j) # below(x) /\ j \in below(x)
    BY <1>4
  <2>2. <<below(j), u>> \in StrictSubsetOrdering(Nat)
    BY <2>1, <1>3 DEF StrictSubsetOrdering
  <2>3. QED
    BY <2>2, <1>2
<1>5. QED
  BY <1>4

\* What holds at the first number of an interval and is handed on from each
\* to the next holds on all of it: induction, for a set instead of a formula.
LEMMA IntervalInduction ==
  ASSUME NEW a \in Int, NEW b \in Int, NEW S,
         a <= b => a \in S,
         \A n \in a .. b - 1 : n \in S => n + 1 \in S
  PROVE  a .. b \subseteq S
<1> DEFINE Bad == {k \in Nat : a + k <= b /\ a + k \notin S}
<1> SUFFICES ASSUME NEW i \in a .. b, i \notin S PROVE FALSE
  OBVIOUS
<1>1. i - a \in Bad
  <2>1. i - a \in Nat /\ a + (i - a) = i
    OBVIOUS
  <2>2. QED
    BY <2>1
<1>2. PICK k \in Bad : \A j \in Bad : k <= j
  <2>1. Bad \in SUBSET Nat
    OBVIOUS
  <2>2. QED
    BY <1>1, <2>1, LeastSteps
<1>3. k # 0
  BY <1>2
<1>4. k - 1 \in Nat /\ k - 1 \notin Bad
  BY <1>2, <1>3
<1>5. a + (k - 1) \in a .. b - 1 /\ a + (k - 1) \in S
  BY <1>2, <1>4
<1>6. a + (k - 1) + 1 \in S
  BY <1>5
<1>7. QED
  BY <1>2, <1>6

\* f has the values of a loop that starts with s and makes step once for
\* every number of an interval.
IsLoop(f, V, s, a, b, step) ==
  /\ f \in [a .. b -> V]
  /\ \A n \in a .. b : f[n] = IF n = a THEN s ELSE step[<<f[n - 1], n - 1>>]

\* There is such a function: a recursive definition of that form has a value.
LEMMA LoopExists ==
  ASSUME NEW V, NEW s \in V, NEW a \in Int, NEW b \in Int, a <= b,
         NEW step \in [V \X Int -> V]
  PROVE  \E f : IsLoop(f, V, s, a, b, step)
<1> DEFINE Loop(f, m) ==
             \A n \in a .. m : f[n] = IF n = a THEN s ELSE step[<<f[n - 1], n - 1>>]
           S == {m \in a .. b : \E f \in [a .. m -> V] : Loop(f, m)}
<1>1. a \in S
  <2> DEFINE f == [n \in a .. a |-> s]
  <2>1. f \in [a .. a -> V] /\ Loop(f, a)
    OBVIOUS
  <2>2. a \in a .. b
    OBVIOUS
  <2>3. QED
    BY <2>1, <2>2
<1>2. ASSUME NEW m \in a .. b - 1, m \in S PROVE m + 1 \in S
  <2>1. PICK f \in [a .. m -> V] : Loop(f, m)
    BY <1>2
  <2> DEFINE g == [n \in a .. m + 1 |-> IF n = m + 1 THEN step[<<f[m], m>>] ELSE f[n]]
  <2>2. m \in a .. m /\ f[m] \in V /\ m + 1 \in a .. b /\ m \in Int
    OBVIOUS
  <2>3. step[<<f[m], m>>] \in V
    BY <2>2
  <2>4. g \in [a .. m + 1 -> V]
    BY <2>3
  <2>5. ASSUME NEW n \in a .. m + 1
        PROVE  g[n] = IF n = a THEN s ELSE step[<<g[n - 1], n - 1>>]
    <3>1. CASE n = m + 1
      <4>1. n # a /\ n - 1 = m /\ g[m] = f[m] /\ g[n] = step[<<f[m], m>>]
        BY <3>1, <2>2
      <4>2. QED
        BY <4>1
    <3>2. CASE n # m + 1
      <4>1. n \in a .. m /\ g[n] = f[n] /\ (n # a => n - 1 \in a .. m + 1 /\ g[n - 1] = f[n - 1])
        BY <3>2
      <4>2. QED
        BY <4>1, <2>1
    <3>3. QED
      BY <3>1, <3>2
  <2>6. QED
    BY <2>2, <2>4, <2>5
<1>3. a .. b \subseteq S
  <2> HIDE DEF S
  <2>1. a <= b => a \in S
    BY <1>1
  <2>2. \A n \in a .. b - 1 : n \in S => n + 1 \in S
    BY <1>2
  <2>3. QED
    BY <2>1, <2>2, IntervalInduction
<1>4. QED
  BY <1>3 DEF IsLoop

-----------------------------------------------------------------------------
(* Pages and regions.                                                      *)

\* Division rounds down.
LEMMA DivFacts ==
  ASSUME NEW a \in Nat, NEW r \in Nat \ {0}
  PROVE  /\ a \div r \in Nat
         /\ (a \div r) * r <= a /\ a < (a \div r) * r + r
OBVIOUS

LEMMA DivMono ==
  ASSUME NEW a \in Nat, NEW b \in Nat, a <= b, NEW r \in Nat \ {0}
  PROVE  a \div r <= b \div r
<1> DEFINE p == a \div r
           q == b \div r
<1>1. p \in Nat /\ q \in Nat /\ p * r <= a /\ b < q * r + r
  BY DivFacts
<1> SUFFICES ASSUME p >= q + 1 PROVE FALSE
  BY <1>1
<1> HIDE DEF p, q
<1>2. p * r >= (q + 1) * r
  BY <1>1
<1>3. (q + 1) * r = q * r + r
  BY <1>1
<1>4. QED
  BY <1>1, <1>2, <1>3

\* PageUp rounds up: to the page itself at its beginning, and never past a
\* page that begins at or above the address.
LEMMA PageUpFacts ==
  ASSUME MemoryAssumption
  PROVE  /\ \A va \in Nat : PageUp(va) \in Nat
         /\ \A n \in Nat : PageUp(n * PageUnits) = n
         /\ \A n \in Nat, va \in Nat : va <= n * PageUnits => PageUp(va) <= n
<1>1. PageUnits \in Nat \ {0}
  BY DEF MemoryAssumption
<1>2. ASSUME NEW va \in Nat PROVE PageUp(va) \in Nat
  <2>1. va + PageUnits - 1 \in Nat
    BY <1>1
  <2>2. QED
    BY <1>1, <2>1, DivFacts DEF PageUp
<1>3. ASSUME NEW n \in Nat, NEW va \in Nat, va <= n * PageUnits PROVE PageUp(va) <= n
  <2> DEFINE q == PageUp(va)
  <2>1. q \in Nat /\ q * PageUnits <= va + PageUnits - 1
    <3>1. va + PageUnits - 1 \in Nat
      BY <1>1
    <3>2. QED
      BY <1>1, <3>1, DivFacts DEF PageUp
  <2> SUFFICES ASSUME q >= n + 1 PROVE FALSE
    BY <2>1
  <2> HIDE DEF q
  <2>2. q * PageUnits >= (n + 1) * PageUnits
    BY <1>1, <2>1
  <2>3. (n + 1) * PageUnits = n * PageUnits + PageUnits
    BY <1>1
  <2>4. QED
    BY <1>1, <1>3, <2>1, <2>2, <2>3
<1>4. ASSUME NEW n \in Nat PROVE PageUp(n * PageUnits) = n
  <2> DEFINE q == PageUp(n * PageUnits)
  <2>1. n * PageUnits \in Nat /\ n * PageUnits + PageUnits - 1 \in Nat
    BY <1>1
  <2>2. q \in Nat /\ q <= n /\ n * PageUnits + PageUnits - 1 < q * PageUnits + PageUnits
    BY <1>1, <1>2, <1>3, <2>1, DivFacts DEF PageUp
  <2> SUFFICES ASSUME q + 1 <= n PROVE FALSE
    BY <2>2
  <2> HIDE DEF q
  <2>3. (q + 1) * PageUnits <= n * PageUnits
    BY <1>1, <2>2
  <2>4. (q + 1) * PageUnits = q * PageUnits + PageUnits
    BY <1>1, <2>2
  <2>5. QED
    BY <1>1, <2>1, <2>2, <2>3, <2>4
<1>5. QED
  BY <1>2, <1>3, <1>4

\* Every page has its L3 table in the table of regions; code and stack lie in
\* different ones.
LEMMA RegionFacts ==
  ASSUME CodeSizes # {}
  PROVE  /\ \A vp \in Pages : Region(vp) \in Regions
         /\ GuardPage \in Nat /\ GuardPage + 1 + StackPages = StackPage
         /\ \A n \in CodeSizes : n \in Nat \ {0} /\ CodePage + n <= GuardPage
         /\ CodePage \in Nat /\ StackPages \in Nat \ {0} /\ StackPage \in Nat \ {0}
         /\ Region(CodePage) \in Regions /\ Region(StackPage - 1) \in Regions
         /\ Region(CodePage) # Region(StackPage - 1)
<1>1. PICK n \in CodeSizes : n \in Nat \ {0} /\ CodePage + n <= GuardPage
  BY MemoryAssumption DEF MemoryAssumption
<1>2. /\ CodePage \in Nat /\ StackPages \in Nat \ {0} /\ StackPage \in Nat
      /\ RegionPages \in Nat \ {0}
      /\ GuardPage \in Nat /\ GuardPage + 1 + StackPages = StackPage
  BY <1>1, MemoryAssumption DEF MemoryAssumption, GuardPage
<1>3. StackPage \in Nat \ {0} /\ CodePage \in Pages /\ StackPage - 1 \in Pages
  BY <1>1, <1>2 DEF Pages
<1>4. ASSUME NEW vp \in Pages PROVE Region(vp) \in Regions
  <2>1. vp \in Nat /\ StackPage - 1 \in Nat /\ vp <= StackPage - 1
    BY <1>3 DEF Pages
  <2>2. vp \div RegionPages <= (StackPage - 1) \div RegionPages
    BY <1>2, <2>1, DivMono
  <2>3. vp \div RegionPages \in Nat /\ (StackPage - 1) \div RegionPages \in Nat
    BY <1>2, <2>1, DivFacts
  <2>4. QED
    BY <2>2, <2>3 DEF Regions, Region
<1>5. Region(CodePage) # Region(StackPage - 1)
  BY MemoryAssumption DEF MemoryAssumption
<1>6. \A m \in CodeSizes : m \in Nat \ {0} /\ CodePage + m <= GuardPage
  BY MemoryAssumption DEF MemoryAssumption
<1>7. QED
  BY <1>2, <1>3, <1>4, <1>5, <1>6

-----------------------------------------------------------------------------
(* Frames.                                                                 *)

\* FirstFit, for which the heap run and HeapProofs show that pmm_alloc_pages
\* is it, returns frames that are free.
LEMMA FirstFitIsFree ==
  ASSUME NEW u, NEW count \in Nat \ {0}
  PROVE  LET f == FirstFit(u, count) IN
         \/ f = NoFrame
         \/ f \in Frame /\ f # NoFrame /\ Run(f, count) \subseteq Frame \ u
<1> DEFINE fits == {f \in Frame : Run(f, count) \subseteq Frame \ u}
<1>1. CASE fits = {}
  BY <1>1 DEF FirstFit
<1>2. CASE fits # {}
  <2>1. fits \in SUBSET Nat
    BY FramesAssumption DEF Frame
  <2>2. \E f \in fits : \A g \in fits : f <= g
    BY <1>2, <2>1, LeastSteps
  <2>3. FirstFit(u, count) = CHOOSE f \in fits : \A g \in fits : f <= g
    BY <1>2 DEF FirstFit
  <2>4. FirstFit(u, count) \in fits
    BY <2>2, <2>3
  <2>5. QED
    BY <2>4, FramesAssumption DEF Frame, NoFrame
<1>3. QED
  BY <1>1, <1>2

LEMMA OneFree ==
  ASSUME NEW u
  PROVE  FirstFit(u, 1) = NoFrame \/ FirstFit(u, 1) \in Frame \ u
<1>1. FirstFit(u, 1) = NoFrame \/
        (FirstFit(u, 1) \in Frame /\ Run(FirstFit(u, 1), 1) \subseteq Frame \ u)
  BY FirstFitIsFree
<1>2. FirstFit(u, 1) \in Frame => FirstFit(u, 1) \in Run(FirstFit(u, 1), 1)
  BY FramesAssumption DEF Frame, Run
<1>3. QED
  BY <1>1, <1>2

\* pmm_alloc_page, called again and again: different frames that were free.
Fresh(u, s) ==
  /\ s \in Seq(Frame \ u)
  /\ \A i, j \in 1 .. Len(s) : i # j => s[i] # s[j]
NextPage(u, s) ==
  LET f == FirstFit(u \cup Range(s), 1) IN IF f = NoFrame THEN s ELSE Append(s, f)

LEMMA FreshStep ==
  ASSUME NEW u, NEW s, Fresh(u, s)
  PROVE  Fresh(u, NextPage(u, s)) /\ Len(NextPage(u, s)) <= Len(s) + 1
<1>1. PICK f : f = FirstFit(u \cup Range(s), 1)
  OBVIOUS
<1>2. s \in Seq(Frame \ u) /\ Len(s) \in Nat
      /\ \A i, j \in 1 .. Len(s) : i # j => s[i] # s[j]
  BY DEF Fresh
<1>3. CASE f = NoFrame
  BY <1>1, <1>2, <1>3 DEF NextPage
<1>4. CASE f # NoFrame
  <2>1. f \in Frame \ u /\ f \notin Range(s)
    BY <1>1, <1>4, OneFree
  <2>2. \A i \in 1 .. Len(s) : s[i] # f
    BY <1>2, <2>1 DEF Range
  <2>3. /\ Append(s, f) \in Seq(Frame \ u) /\ Len(Append(s, f)) = Len(s) + 1
        /\ \A i \in 1 .. Len(s) : Append(s, f)[i] = s[i]
        /\ Append(s, f)[Len(s) + 1] = f
    BY <1>2, <2>1
  <2>4. \A i, j \in 1 .. Len(s) + 1 : i # j => Append(s, f)[i] # Append(s, f)[j]
    BY <1>2, <2>2, <2>3
  <2>5. NextPage(u, s) = Append(s, f)
    BY <1>1, <1>4 DEF NextPage
  <2>6. QED
    BY <2>3, <2>4, <2>5 DEF Fresh
<1>5. QED
  BY <1>3, <1>4

LEMMA SinglePagesAreFresh ==
  ASSUME NEW u, NEW n \in Nat
  PROVE  Fresh(u, SinglePages(u, n)) /\ Len(SinglePages(u, n)) <= n
<1> DEFINE V == Seq(Frame)
           step == [p \in V \X Int |-> NextPage(u, p[1])]
           Got(g) == [i \in 0 .. n |-> IF i = 0 THEN <<>> ELSE NextPage(u, g[i - 1])]
           got == CHOOSE g : g = Got(g)
<1>1. ASSUME NEW s \in V PROVE NextPage(u, s) \in V
  <2>1. FirstFit(u \cup Range(s), 1) = NoFrame \/ FirstFit(u \cup Range(s), 1) \in Frame
    BY OneFree
  <2>2. QED
    BY <2>1 DEF NextPage
<1>2. step \in [V \X Int -> V] /\ <<>> \in V
  BY <1>1
<1>3. \E g : g = Got(g)
  <2>0. 0 \in Int /\ n \in Int /\ 0 <= n /\ 0 \in 0 .. n
    OBVIOUS
  <2>1. PICK g : IsLoop(g, V, <<>>, 0, n, step)
    <3> HIDE DEF V, step
    <3>1. QED
      BY <1>2, <2>0, LoopExists
  <2>2. ASSUME NEW i \in 0 .. n, i # 0 PROVE g[i] = NextPage(u, g[i - 1])
    <3>1. i - 1 \in 0 .. n /\ i - 1 \in Int
      BY <2>2
    <3>2. g[i - 1] \in V
      BY <2>1, <3>1 DEF IsLoop
    <3>3. <<g[i - 1], i - 1>> \in V \X Int
      BY <3>1, <3>2
    <3>4. step[<<g[i - 1], i - 1>>] = NextPage(u, g[i - 1])
      BY <3>3
    <3>5. g[i] = step[<<g[i - 1], i - 1>>]
      BY <2>1, <2>2 DEF IsLoop
    <3>6. QED
      BY <3>4, <3>5
  <2>3. g[0] = <<>>
    BY <2>0, <2>1 DEF IsLoop
  <2>4. g = Got(g)
    BY <2>1, <2>2, <2>3 DEF IsLoop
  <2>5. QED
    BY <2>4
<1>4. got = Got(got)
  BY <1>3
<1>5. SinglePages(u, n) = got[n]
  BY DEF SinglePages, NextPage
<1> HIDE DEF got
<1>6. got[0] = <<>>
  <2>1. Got(got)[0] = <<>>
    OBVIOUS
  <2>2. QED
    BY <1>4, <2>1
<1>7. ASSUME NEW i \in 0 .. n - 1 PROVE got[i + 1] = NextPage(u, got[i])
  <2>1. Got(got)[i + 1] = NextPage(u, got[i])
    <3>1. i + 1 \in 0 .. n /\ i + 1 # 0 /\ (i + 1) - 1 = i
      OBVIOUS
    <3>2. QED
      BY <3>1
  <2>2. QED
    BY <1>4, <2>1
<1> DEFINE S == {i \in 0 .. n : Fresh(u, got[i]) /\ Len(got[i]) <= i}
<1>8. 0 \in S
  <2>1. Fresh(u, <<>>) /\ Len(<<>>) <= 0
    BY DEF Fresh
  <2>2. QED
    BY <1>6, <2>1
<1>9. ASSUME NEW i \in 0 .. n - 1, i \in S PROVE i + 1 \in S
  <2>1. Fresh(u, got[i]) /\ Len(got[i]) <= i /\ i + 1 \in 0 .. n
    BY <1>9
  <2>2. Fresh(u, got[i + 1]) /\ Len(got[i + 1]) <= Len(got[i]) + 1
    BY <1>7, <2>1, FreshStep
  <2>3. Len(got[i]) \in Nat /\ Len(got[i + 1]) \in Nat
    BY <2>1, <2>2 DEF Fresh
  <2>4. QED
    BY <2>1, <2>2, <2>3
<1>10. 0 .. n \subseteq S
  <2> HIDE DEF S
  <2>1. QED
    BY <1>8, <1>9, IntervalInduction
<1>11. QED
  BY <1>5, <1>10

-----------------------------------------------------------------------------
(* The loop of SYS_SBRK.                                                   *)

\* What the loop goes through.
LoopStates ==
  [ok : BOOLEAN, used : SUBSET Frame, map : [Pages -> Frame \cup {NoFrame}],
   l3 : [Regions -> Frame \cup {NoFrame}]]

\* What it has done when it began with b, is at m, and the pages below vp were
\* its turn: frames that were free became pages and tables, each of them once;
\* what was mapped is mapped, and other pages are as they were.
New(b, m) == m.used \ b.used
Done(b, m, from, vp) ==
  /\ m \in LoopStates /\ b.used \subseteq m.used
  /\ \A p \in Pages : m.map[p] = b.map[p] \/ (m.map[p] \in New(b, m) /\ p \in from .. vp - 1)
  /\ \A r \in Regions : m.l3[r] = b.l3[r] \/ (m.l3[r] \in New(b, m) /\ b.l3[r] = NoFrame)
  /\ \A f \in New(b, m) : (\E p \in Pages : m.map[p] = f) \/ (\E r \in Regions : m.l3[r] = f)
  /\ \A p \in Pages, r \in Regions : m.map[p] \in New(b, m) => m.map[p] # m.l3[r]
  /\ \A p, q \in Pages : m.map[p] \in New(b, m) /\ p # q => m.map[p] # m.map[q]
  /\ m.ok => \A p \in from .. vp - 1 : m.map[p] # NoFrame

\* The frames in the tables at the start are in use.
Sound(b) ==
  /\ b \in LoopStates
  /\ \A p \in Pages : b.map[p] \in b.used \cup {NoFrame}
  /\ \A r \in Regions : b.l3[r] \in b.used \cup {NoFrame}

LEMMA MapPageTypes ==
  ASSUME NEW m \in LoopStates, NEW vp \in Pages, Region(vp) \in Regions
  PROVE  \/ MapPage(m, vp) = [m EXCEPT !.ok = FALSE]
         \/ \E page, table :
              /\ m.ok /\ page \in Frame \ m.used
              /\ \/ table = m.l3[Region(vp)] /\ table \in Frame
                 \/ m.l3[Region(vp)] = NoFrame /\ table \in Frame \ (m.used \cup {page})
              /\ MapPage(m, vp) =
                   [ok |-> TRUE, used |-> m.used \cup {page, table},
                    map |-> [m.map EXCEPT ![vp] = page],
                    l3 |-> [m.l3 EXCEPT ![Region(vp)] = table]]
<1>1. PICK page : page = FirstFit(m.used, 1)
  OBVIOUS
<1>2. PICK old : old = m.l3[Region(vp)]
  OBVIOUS
<1>3. PICK table : table = IF old # NoFrame THEN old ELSE FirstFit(m.used \cup {page}, 1)
  OBVIOUS
<1>4. MapPage(m, vp) =
        IF ~m.ok \/ page = NoFrame \/ table = NoFrame THEN [m EXCEPT !.ok = FALSE]
        ELSE [ok |-> TRUE, used |-> m.used \cup {page, table},
              map |-> [m.map EXCEPT ![vp] = page], l3 |-> [m.l3 EXCEPT ![Region(vp)] = table]]
  BY <1>1, <1>2, <1>3 DEF MapPage
<1>5. page = NoFrame \/ page \in Frame \ m.used
  BY <1>1, OneFree
<1>6. old \in Frame \cup {NoFrame}
  BY <1>2 DEF LoopStates
<1>7. table = NoFrame \/ (table = old /\ table \in Frame)
        \/ (old = NoFrame /\ table \in Frame \ (m.used \cup {page}))
  BY <1>3, <1>6, OneFree
<1>8. QED
  BY <1>2, <1>4, <1>5, <1>7

LEMMA MapPageStays ==
  ASSUME NEW m \in LoopStates, NEW vp \in Pages, Region(vp) \in Regions
  PROVE  MapPage(m, vp) \in LoopStates
<1>1. [m EXCEPT !.ok = FALSE] \in LoopStates
  BY DEF LoopStates
<1>2. ASSUME NEW page \in Frame, NEW table \in Frame
      PROVE  [ok |-> TRUE, used |-> m.used \cup {page, table},
              map |-> [m.map EXCEPT ![vp] = page],
              l3 |-> [m.l3 EXCEPT ![Region(vp)] = table]] \in LoopStates
  BY DEF LoopStates
<1>3. CASE MapPage(m, vp) # [m EXCEPT !.ok = FALSE]
  <2>1. PICK page \in Frame, table \in Frame :
          MapPage(m, vp) =
            [ok |-> TRUE, used |-> m.used \cup {page, table},
             map |-> [m.map EXCEPT ![vp] = page], l3 |-> [m.l3 EXCEPT ![Region(vp)] = table]]
    BY <1>3, MapPageTypes
  <2>2. QED
    BY <1>2, <2>1
<1>4. QED
  BY <1>1, <1>3

\* One turn of the loop.
LEMMA MapPageDone ==
  ASSUME NEW b, Sound(b), NEW m, NEW from \in Nat, NEW vp \in Pages, from <= vp,
         Region(vp) \in Regions, Done(b, m, from, vp)
  PROVE  Done(b, MapPage(m, vp), from, vp + 1)
<1>1. m \in LoopStates /\ MapPage(m, vp) \in LoopStates
  BY MapPageStays DEF Done
<1>2. vp \in Nat /\ \A p : p \in from .. vp <=> p \in from .. vp - 1 \/ p = vp
  BY DEF Pages
<1>3. CASE MapPage(m, vp) = [m EXCEPT !.ok = FALSE]
  <2>1. PICK n : n = MapPage(m, vp)
    OBVIOUS
  <2>2. n \in LoopStates /\ n.used = m.used /\ n.map = m.map /\ n.l3 = m.l3 /\ n.ok = FALSE
    BY <1>1, <1>3, <2>1 DEF LoopStates
  <2>3. New(b, n) = New(b, m)
    BY <2>2 DEF New
  <2>4. Done(b, n, from, vp + 1)
    BY <1>2, <2>2, <2>3 DEF Done
  <2>5. QED
    BY <2>1, <2>4
<1>4. ASSUME NEW page, NEW table,
             m.ok, page \in Frame \ m.used,
             \/ table = m.l3[Region(vp)] /\ table \in Frame
             \/ m.l3[Region(vp)] = NoFrame /\ table \in Frame \ (m.used \cup {page}),
             MapPage(m, vp) =
               [ok |-> TRUE, used |-> m.used \cup {page, table},
                map |-> [m.map EXCEPT ![vp] = page],
                l3 |-> [m.l3 EXCEPT ![Region(vp)] = table]]
      PROVE  Done(b, MapPage(m, vp), from, vp + 1)
  <2>1. PICK n : n = MapPage(m, vp)
    OBVIOUS
  <2>2. PICK rg : rg = Region(vp)
    OBVIOUS
  <2>3. /\ n \in LoopStates /\ n.used = m.used \cup {page, table} /\ n.ok = TRUE
        /\ \A p \in Pages : n.map[p] = IF p = vp THEN page ELSE m.map[p]
        /\ \A r \in Regions : n.l3[r] = IF r = rg THEN table ELSE m.l3[r]
        /\ rg \in Regions
    BY <1>1, <1>4, <2>1, <2>2 DEF LoopStates
  <2>4. /\ b.used \subseteq m.used
        /\ \A p \in Pages : m.map[p] = b.map[p] \/ (m.map[p] \in New(b, m) /\ p \in from .. vp - 1)
        /\ \A r \in Regions : m.l3[r] = b.l3[r] \/ (m.l3[r] \in New(b, m) /\ b.l3[r] = NoFrame)
        /\ \A f \in New(b, m) :
             (\E p \in Pages : m.map[p] = f) \/ (\E r \in Regions : m.l3[r] = f)
        /\ \A p \in Pages, r \in Regions : m.map[p] \in New(b, m) => m.map[p] # m.l3[r]
        /\ \A p, q \in Pages : m.map[p] \in New(b, m) /\ p # q => m.map[p] # m.map[q]
        /\ \A p \in from .. vp - 1 : m.map[p] # NoFrame
    BY <1>4 DEF Done
  <2>5. /\ \A p \in Pages : b.map[p] \in b.used \cup {NoFrame}
        /\ \A r \in Regions : b.l3[r] \in b.used \cup {NoFrame}
    BY DEF Sound
  <2>6. NoFrame \notin Frame /\ NoFrame \notin m.used /\ NoFrame \notin n.used
    BY <1>1, <2>3, FramesAssumption DEF NoFrame, Frame, LoopStates
  \* What was in the tables is in use, so that it is not the new page.
  <2>7. /\ \A p \in Pages : m.map[p] \in m.used \cup {NoFrame}
        /\ \A r \in Regions : m.l3[r] \in m.used \cup {NoFrame}
    BY <2>4, <2>5 DEF New
  <2>8. /\ table \notin {page, NoFrame} /\ table \in Frame
        /\ m.l3[rg] = NoFrame \/ table = m.l3[rg]
        /\ table \in m.used => table = m.l3[rg]
    BY <1>4, <2>2, <2>3, <2>6, <2>7
  <2>9. /\ b.used \subseteq n.used /\ page \in New(b, n) /\ New(b, m) \subseteq New(b, n)
        /\ New(b, n) \subseteq New(b, m) \cup {page, table}
    BY <1>4, <2>3, <2>4 DEF New
  <2>10. \A p \in Pages : n.map[p] = b.map[p] \/ (n.map[p] \in New(b, n) /\ p \in from .. vp)
    BY <1>2, <2>3, <2>4, <2>9
  <2>11. ASSUME NEW r \in Regions
         PROVE  n.l3[r] = b.l3[r] \/ (n.l3[r] \in New(b, n) /\ b.l3[r] = NoFrame)
    <3>1. CASE r # rg
      BY <2>3, <2>4, <2>9, <3>1
    <3>2. CASE r = rg /\ table = m.l3[rg]
      BY <2>3, <2>4, <2>9, <3>2
    <3>3. CASE r = rg /\ table # m.l3[rg]
      <4>1. m.l3[rg] = NoFrame /\ table \notin m.used
        BY <2>8, <3>3
      <4>2. b.l3[rg] = NoFrame
        BY <2>3, <2>4, <2>6, <4>1 DEF New
      <4>3. table \in New(b, n)
        BY <2>3, <2>4, <4>1 DEF New
      <4>4. QED
        BY <2>3, <3>3, <4>2, <4>3
    <3>4. QED
      BY <3>1, <3>2, <3>3
  <2>12. ASSUME NEW f \in New(b, n)
         PROVE  (\E p \in Pages : n.map[p] = f) \/ (\E r \in Regions : n.l3[r] = f)
    <3>1. CASE f = page
      BY <2>3, <3>1
    <3>2. CASE f = table
      BY <2>3, <3>2
    <3>3. CASE f \in New(b, m) /\ f # table
      <4>1. CASE \E p \in Pages : m.map[p] = f
        <5>1. PICK p \in Pages : m.map[p] = f
          BY <4>1
        <5>2. p # vp
          <6>1. f # b.map[p]
            BY <2>5, <2>6, <3>3 DEF New
          <6>2. vp \notin from .. vp - 1
            BY <1>2
          <6>3. QED
            BY <2>4, <5>1, <6>1, <6>2
        <5>3. QED
          BY <2>3, <5>1, <5>2
      <4>2. CASE \E r \in Regions : m.l3[r] = f
        <5>1. PICK r \in Regions : m.l3[r] = f
          BY <4>2
        <5>2. r # rg
          BY <2>6, <2>8, <3>3, <5>1 DEF New
        <5>3. QED
          BY <2>3, <5>1, <5>2
      <4>3. QED
        BY <2>4, <3>3, <4>1, <4>2
    <3>4. QED
      BY <2>9, <3>1, <3>2, <3>3
  <2>13. ASSUME NEW p \in Pages, NEW r \in Regions, n.map[p] \in New(b, n)
         PROVE  n.map[p] # n.l3[r]
    <3>1. CASE p = vp
      BY <1>4, <2>3, <2>6, <2>7, <2>8, <3>1
    <3>2. CASE p # vp
      <4>1. n.map[p] = m.map[p] /\ m.map[p] \in m.used
        BY <2>3, <2>6, <2>7, <2>13, <3>2 DEF New
      <4>2. m.map[p] \in New(b, m)
        BY <2>13, <4>1 DEF New
      <4>3. CASE r # rg
        BY <2>3, <2>4, <4>1, <4>2, <4>3
      <4>4. CASE r = rg
        BY <2>3, <2>4, <2>8, <4>1, <4>2, <4>4
      <4>5. QED
        BY <4>3, <4>4
    <3>3. QED
      BY <3>1, <3>2
  <2>14. ASSUME NEW p \in Pages, NEW q \in Pages, n.map[p] \in New(b, n), p # q
         PROVE  n.map[p] # n.map[q]
    <3>1. CASE p = vp
      BY <1>4, <2>3, <2>6, <2>7, <2>14, <3>1
    <3>2. CASE p # vp
      <4>1. n.map[p] = m.map[p] /\ m.map[p] \in m.used
        BY <2>3, <2>6, <2>7, <2>14, <3>2 DEF New
      <4>2. m.map[p] \in New(b, m)
        BY <2>14, <4>1 DEF New
      <4>3. QED
        BY <1>4, <2>3, <2>4, <2>14, <4>1, <4>2
    <3>3. QED
      BY <3>1, <3>2
  <2>15. \A p \in from .. vp : n.map[p] # NoFrame
    <3>1. \A p \in from .. vp : p \in Pages
      BY MemoryAssumption DEF Pages, MemoryAssumption
    <3>2. QED
      BY <1>2, <1>4, <2>3, <2>4, <2>6, <3>1
  <2>16. (vp + 1) - 1 = vp
    BY <1>2
  <2>17. Done(b, n, from, vp + 1)
    BY <2>3, <2>9, <2>10, <2>11, <2>12, <2>13, <2>14, <2>15, <2>16 DEF Done
  <2>18. QED
    BY <2>1, <2>17
<1>5. QED
  BY <1>1, <1>3, <1>4, MapPageTypes

\* Before the loop.
LEMMA NothingDone ==
  ASSUME NEW b, Sound(b), NEW from \in Int, NEW vp \in Int, vp <= from
  PROVE  Done(b, b, from, vp)
<1>1. New(b, b) = {} /\ from .. vp - 1 = {}
  BY DEF New
<1>2. QED
  BY <1>1 DEF Done, Sound

\* The whole loop.
LEMMA MapPagesDone ==
  ASSUME NEW b, Sound(b), NEW from \in Nat, NEW to \in Int, from .. to \subseteq Pages,
         \A vp \in Pages : Region(vp) \in Regions
  PROVE  Done(b, MapPages(b, from, to), from, to + 1)
<1>1. CASE from > to
  <2>1. MapPages(b, from, to) = b
    BY <1>1 DEF MapPages
  <2>2. to + 1 <= from /\ to + 1 \in Int
    BY <1>1
  <2>3. QED
    BY <2>1, <2>2, NothingDone
<1>2. CASE from <= to
  <2> DEFINE V == LoopStates
             step == [p \in V \X Int |-> IF p[2] \in Pages THEN MapPage(p[1], p[2]) ELSE p[1]]
             Mapped(g) == [vp \in from .. to + 1 |->
                             IF vp = from THEN b ELSE MapPage(g[vp - 1], vp - 1)]
             mapped == CHOOSE g : g = Mapped(g)
  <2>1. b \in V /\ from \in Int /\ to + 1 \in Int /\ from <= to + 1 /\ from \in from .. to + 1
    BY <1>2 DEF Sound
  <2>2. step \in [V \X Int -> V]
    BY MapPageStays
  <2>3. \E g : g = Mapped(g)
    <3>1. PICK g : IsLoop(g, V, b, from, to + 1, step)
      <4> HIDE DEF V, step
      <4>1. QED
        BY <2>1, <2>2, LoopExists
    <3>2. ASSUME NEW vp \in from .. to + 1, vp # from PROVE g[vp] = MapPage(g[vp - 1], vp - 1)
      <4>1. vp - 1 \in from .. to + 1 /\ vp - 1 \in Int /\ vp - 1 \in Pages
        BY <3>2
      <4>2. g[vp - 1] \in V
        BY <3>1, <4>1 DEF IsLoop
      <4>3. <<g[vp - 1], vp - 1>> \in V \X Int
        BY <4>1, <4>2
      <4>4. step[<<g[vp - 1], vp - 1>>] = MapPage(g[vp - 1], vp - 1)
        BY <4>1, <4>3
      <4>5. g[vp] = step[<<g[vp - 1], vp - 1>>]
        BY <3>1, <3>2 DEF IsLoop
      <4>6. QED
        BY <4>4, <4>5
    <3>3. g[from] = b
      BY <2>1, <3>1 DEF IsLoop
    <3>4. g = Mapped(g)
      BY <3>1, <3>2, <3>3 DEF IsLoop
    <3>5. QED
      BY <3>4
  <2>4. mapped = Mapped(mapped)
    BY <2>3
  <2>5. MapPages(b, from, to) = mapped[to + 1]
    BY <1>2 DEF MapPages
  <2> HIDE DEF mapped
  <2>6. mapped[from] = b
    <3>1. Mapped(mapped)[from] = b
      BY <2>1
    <3>2. QED
      BY <2>4, <3>1
  <2>7. ASSUME NEW vp \in from .. to PROVE mapped[vp + 1] = MapPage(mapped[vp], vp)
    <3>1. vp + 1 \in from .. to + 1 /\ vp + 1 # from /\ (vp + 1) - 1 = vp
      OBVIOUS
    <3>2. Mapped(mapped)[vp + 1] = MapPage(mapped[vp], vp)
      BY <3>1
    <3>3. QED
      BY <2>4, <3>2
  <2> DEFINE S == {vp \in from .. to + 1 : Done(b, mapped[vp], from, vp)}
  <2>8. from \in S
    BY <2>1, <2>6, NothingDone
  <2>9. ASSUME NEW vp \in from .. (to + 1) - 1, vp \in S PROVE vp + 1 \in S
    <3>1. vp \in from .. to /\ vp \in Pages /\ from <= vp /\ vp + 1 \in from .. to + 1
      BY <2>1
    <3>2. Done(b, mapped[vp], from, vp)
      BY <2>9
    <3>3. Done(b, mapped[vp + 1], from, vp + 1)
      BY <2>7, <3>1, <3>2, MapPageDone
    <3>4. QED
      BY <3>1, <3>3
  <2>10. from .. to + 1 \subseteq S
    <3> HIDE DEF S
    <3>1. QED
      BY <2>1, <2>8, <2>9, IntervalInduction
  <2>11. to + 1 \in S
    <3> HIDE DEF S
    <3>1. to + 1 \in from .. to + 1
      BY <2>1
    <3>2. QED
      BY <2>10, <3>1
  <2>12. QED
    BY <2>5, <2>11
<1>3. QED
  BY <1>1, <1>2

-----------------------------------------------------------------------------
(* A new address space.                                                    *)

\* The frames that Allocation has got, in use afterwards.
GotAll(u, pages, a) ==
  /\ a.code \in Frame /\ Run(a.code, pages) \subseteq Frame \ u
  /\ a.stack \in Frame
  /\ Run(a.stack - 1, StackPages + 1) \subseteq Frame \ (u \cup Run(a.code, pages))
  /\ a.tables \in Seq(Frame) /\ Len(a.tables) = TableFrames
  /\ \A i, j \in 1 .. TableFrames : i # j => a.tables[i] # a.tables[j]
  /\ \A i \in 1 .. TableFrames :
       a.tables[i] \notin u \cup Run(a.code, pages) \cup Run(a.stack - 1, StackPages + 1)
  /\ a.used = u \cup Run(a.code, pages) \cup Run(a.stack - 1, StackPages + 1)
                \cup Range(a.tables)

LEMMA AllocationFacts ==
  ASSUME NEW u \in SUBSET Frame, NEW pages \in CodeSizes
  PROVE  LET a == Allocation(u, pages) IN
         /\ a.ok \in BOOLEAN /\ a.short \in BOOLEAN
         /\ a.used \in SUBSET Frame /\ u \subseteq a.used
         /\ ~a.ok /\ ~a.short => a.used = u
         /\ a.ok => GotAll(u, pages, a)
<1>0. pages \in Nat \ {0} /\ StackPages + 1 \in Nat \ {0} /\ StackPages \in Nat \ {0}
  BY RegionFacts
<1>1. PICK code : code = FirstFit(u, pages)
  OBVIOUS
<1>2. PICK u1 : u1 = u \cup Run(code, pages)
  OBVIOUS
<1>3. PICK stack : stack = FirstFit(u1, StackPages + 1)
  OBVIOUS
<1>4. PICK u2 : u2 = u1 \cup Run(stack, StackPages + 1)
  OBVIOUS
<1>5. PICK tables : tables = SinglePages(u2, TableFrames)
  OBVIOUS
<1>6. PICK failed : failed = [ok |-> FALSE, used |-> u, short |-> FALSE]
  OBVIOUS
<1>7. PICK a : a = Allocation(u, pages)
  OBVIOUS
<1>8. a = IF code = NoFrame \/ stack = NoFrame \/ Len(tables) < 2 THEN failed
          ELSE IF Len(tables) < TableFrames
          THEN [failed EXCEPT !.used = u \cup Range(tables), !.short = TRUE]
          ELSE [ok |-> TRUE, used |-> u2 \cup Range(tables), short |-> FALSE,
                code |-> code, stack |-> stack + 1, tables |-> tables]
  BY <1>1, <1>2, <1>3, <1>4, <1>5, <1>6, <1>7 DEF Allocation
<1>9. /\ tables \in Seq(Frame \ u2) /\ Len(tables) \in Nat /\ Len(tables) <= TableFrames
      /\ \A i, j \in 1 .. Len(tables) : i # j => tables[i] # tables[j]
  <2>1. TableFrames \in Nat
    BY DEF TableFrames
  <2>2. Fresh(u2, SinglePages(u2, TableFrames)) /\ Len(SinglePages(u2, TableFrames)) <= TableFrames
    BY <2>1, SinglePagesAreFresh
  <2>3. Fresh(u2, tables) /\ Len(tables) <= TableFrames
    BY <1>5, <2>2
  <2>4. tables \in Seq(Frame \ u2) /\ \A i, j \in 1 .. Len(tables) : i # j => tables[i] # tables[j]
    BY <2>3 DEF Fresh
  <2>5. Len(tables) \in Nat
    BY <2>4
  <2>6. QED
    BY <2>3, <2>4, <2>5
<1>10. tables \in Seq(Frame) /\ Range(tables) \subseteq Frame
  BY <1>9 DEF Range
<1>11. CASE code = NoFrame \/ stack = NoFrame \/ Len(tables) < 2
  BY <1>6, <1>7, <1>8, <1>11
<1>12. CASE /\ ~(code = NoFrame \/ stack = NoFrame \/ Len(tables) < 2)
            /\ Len(tables) < TableFrames
  <2>1. a.ok = FALSE /\ a.used = u \cup Range(tables) /\ a.short = TRUE
    BY <1>6, <1>8, <1>12
  <2>2. QED
    BY <1>7, <1>10, <2>1
<1>13. CASE /\ ~(code = NoFrame \/ stack = NoFrame \/ Len(tables) < 2)
            /\ ~(Len(tables) < TableFrames)
  <2>1. /\ a.ok = TRUE /\ a.used = u2 \cup Range(tables) /\ a.short = FALSE
        /\ a.code = code /\ a.stack = stack + 1 /\ a.tables = tables
    BY <1>8, <1>13
  <2>2. Len(tables) = TableFrames
    <3>1. Len(tables) \in Nat /\ Len(tables) <= 4
      BY <1>9 DEF TableFrames
    <3>2. ~(Len(tables) < 4)
      BY <1>13 DEF TableFrames
    <3>3. \A n \in Nat : n <= 4 /\ ~(n < 4) => n = 4
      OBVIOUS
    <3>4. Len(tables) = 4
      BY <3>1, <3>2, <3>3, Zenon
    <3>5. QED
      BY <3>4 DEF TableFrames
  <2>3. code \in Frame /\ Run(code, pages) \subseteq Frame \ u
    BY <1>0, <1>1, <1>13, FirstFitIsFree
  <2>4. stack \in Frame /\ Run(stack, StackPages + 1) \subseteq Frame \ u1
    BY <1>0, <1>3, <1>13, FirstFitIsFree
  <2>5. stack \in Int /\ stack + 1 - 1 = stack
    BY <2>4, FramesAssumption DEF Frame
  <2>6. stack + 1 \in Frame
    <3>1. stack + 1 \in Run(stack, StackPages + 1)
      BY <1>0, <2>5 DEF Run
    <3>2. QED
      BY <2>4, <3>1
  <2>7. Run(a.stack - 1, StackPages + 1) = Run(stack, StackPages + 1)
    BY <2>1, <2>5
  <2>8. \A i \in 1 .. TableFrames : tables[i] \notin u2
    BY <1>9, <2>2
  <2>9. GotAll(u, pages, a)
    BY <1>2, <1>4, <1>9, <1>10, <2>1, <2>2, <2>3, <2>4, <2>6, <2>7, <2>8 DEF GotAll
  <2>10. a.used \in SUBSET Frame /\ u \subseteq a.used
    BY <1>2, <1>4, <1>10, <2>1, <2>3, <2>4
  <2>11. QED
    BY <1>7, <2>1, <2>9, <2>10
<1>14. QED
  BY <1>11, <1>12, <1>13

\* Of one address space, what Isolation and HeapIsMapped say.
Separate(s) ==
  /\ TablesOf(s) \cap MappedBy(s) = {}
  /\ \A p, q \in Pages : s.map[p] = s.map[q] => p = q \/ s.map[p] = NoFrame
HeapMapped(s) ==
  /\ ~s.forked => \A vp \in CodePage .. PageUp(s.heap_break) - 1 : s.map[vp] # NoFrame
  /\ s.map[GuardPage] = NoFrame
  /\ \A i \in 0 .. StackPages - 1 : s.map[StackPage - StackPages + i] = s.stack_pa + i

\* Where a break can be, and where the first is.
BreakRange == 0 .. GuardPage * PageUnits
FirstBreak(pages) == (CodePage + pages) * PageUnits

LEMMA NewSpaceFacts ==
  ASSUME NEW u \in SUBSET Frame, NEW pages \in CodeSizes, NEW a, GotAll(u, pages, a),
         NEW brk \in BreakRange, NEW forked \in BOOLEAN
  PROVE  LET s == NewSpace(a, pages, brk, forked) IN
         /\ s \in Spaces /\ Owned(s) = a.used \ u /\ Separate(s)
         /\ forked \/ brk = FirstBreak(pages) => HeapMapped(s)
<1> DEFINE code == a.code
           stk == a.stack
           T == a.tables
           InCode(vp) == vp \in CodePage .. CodePage + pages - 1
           InStack(vp) == vp >= StackPage - StackPages
<1>1. PICK s : s = NewSpace(a, pages, brk, forked)
  OBVIOUS
<1>2. /\ \A vp \in Pages : Region(vp) \in Regions
      /\ GuardPage \in Nat /\ GuardPage + 1 + StackPages = StackPage
      /\ pages \in Nat \ {0} /\ CodePage + pages <= GuardPage
      /\ CodePage \in Nat /\ StackPages \in Nat \ {0} /\ StackPage \in Nat \ {0}
      /\ Region(CodePage) \in Regions /\ Region(StackPage - 1) \in Regions
      /\ Region(CodePage) # Region(StackPage - 1)
  BY RegionFacts
<1>3. /\ code \in Frame /\ code \in Nat /\ stk \in Frame /\ stk \in Nat
      /\ Frame \subseteq Nat /\ NoFrame \notin Frame
  BY FramesAssumption DEF GotAll, Frame, NoFrame
<1>4. /\ T[1] \in Frame /\ T[2] \in Frame /\ T[3] \in Frame /\ T[4] \in Frame
      /\ Range(T) = {T[1], T[2], T[3], T[4]}
      /\ \A i \in 1 .. 4 : T[i] \notin u \cup Run(code, pages) \cup Run(stk - 1, StackPages + 1)
  <2>1. T \in Seq(Frame) /\ Len(T) = 4
    BY DEF GotAll, TableFrames
  <2>2. DOMAIN T = 1 .. 4 /\ 1 .. 4 = {1, 2, 3, 4}
    BY <2>1
  <2>3. QED
    BY <2>1, <2>2 DEF Range, GotAll, TableFrames
<1>5. /\ s.roots = <<T[1], T[2]>>
      /\ s.l3 = [r \in Regions |-> IF r = Region(CodePage) THEN T[3]
                                   ELSE IF r = Region(StackPage - 1) THEN T[4] ELSE NoFrame]
      /\ s.map = [vp \in Pages |->
           IF InCode(vp) THEN code + (vp - CodePage)
           ELSE IF InStack(vp) THEN stk + (vp - (StackPage - StackPages)) ELSE NoFrame]
      /\ s.code_pa = code /\ s.code_pages = pages /\ s.stack_pa = stk
      /\ s.heap_break = brk /\ s.forked = forked
  BY <1>1 DEF NewSpace
<1>6. ASSUME NEW vp \in Pages
      PROVE  /\ InCode(vp) => s.map[vp] = code + (vp - CodePage) /\ s.map[vp] \in Run(code, pages)
             /\ InStack(vp) => /\ ~InCode(vp) /\ s.map[vp] = stk + (vp - (StackPage - StackPages))
                               /\ s.map[vp] \in Run(stk - 1, StackPages + 1)
             /\ ~InCode(vp) /\ ~InStack(vp) => s.map[vp] = NoFrame
  <2>1. vp \in Nat /\ vp <= StackPage - 1
    BY <1>2 DEF Pages
  <2>2. s.map[vp] = IF InCode(vp) THEN code + (vp - CodePage)
                    ELSE IF InStack(vp) THEN stk + (vp - (StackPage - StackPages)) ELSE NoFrame
    BY <1>5
  <2>3. CASE InCode(vp)
    <3>1. s.map[vp] = code + (vp - CodePage)
      BY <2>2, <2>3
    <3>2. ~InStack(vp) /\ vp - CodePage \in 0 .. pages - 1
      BY <1>2, <2>1, <2>3
    <3>3. code + (vp - CodePage) \in Run(code, pages)
      BY <1>2, <1>3, <3>2 DEF Run
    <3>4. QED
      BY <2>3, <3>1, <3>2, <3>3
  <2>4. CASE InStack(vp)
    <3>1. ~InCode(vp) /\ vp - (StackPage - StackPages) \in 0 .. StackPages - 1
      BY <1>2, <2>1, <2>4
    <3>2. s.map[vp] = stk + (vp - (StackPage - StackPages))
      BY <2>2, <2>4, <3>1
    <3>3. stk + (vp - (StackPage - StackPages)) \in Run(stk - 1, StackPages + 1)
      BY <1>2, <1>3, <3>1 DEF Run
    <3>4. QED
      BY <2>4, <3>1, <3>2, <3>3
  <2>5. CASE ~InCode(vp) /\ ~InStack(vp)
    BY <2>2, <2>5
  <2>6. QED
    BY <2>3, <2>4, <2>5
<1>7. /\ Run(code, pages) \subseteq Frame \ u
      /\ Run(stk - 1, StackPages + 1) \subseteq Frame \ (u \cup Run(code, pages))
      /\ a.used = u \cup Run(code, pages) \cup Run(stk - 1, StackPages + 1) \cup Range(T)
  BY DEF GotAll
<1>8. s \in Spaces
  <2>1. s.roots \in [1 .. 2 -> Frame]
    BY <1>4, <1>5
  <2>2. s.l3 \in [Regions -> Frame \cup {NoFrame}]
    BY <1>4, <1>5
  <2>3. \A vp \in Pages : s.map[vp] \in Frame \cup {NoFrame}
    BY <1>6, <1>7
  <2>4. s.map \in [Pages -> Frame \cup {NoFrame}]
    BY <1>5, <2>3
  <2>5. s = [roots |-> s.roots, l3 |-> s.l3, map |-> s.map, code_pa |-> s.code_pa,
             code_pages |-> s.code_pages, stack_pa |-> s.stack_pa,
             heap_break |-> s.heap_break, forked |-> s.forked]
    BY <1>1 DEF NewSpace
  <2>6. QED
    BY <1>3, <1>5, <2>1, <2>2, <2>4, <2>5 DEF Spaces, BreakRange
<1>9. TablesOf(s) = Range(T)
  <2>1. Range(s.roots) = {T[1], T[2]}
    BY <1>5 DEF Range
  <2>2. Range(s.l3) \ {NoFrame} = {T[3], T[4]}
    BY <1>2, <1>3, <1>4, <1>5 DEF Range
  <2>3. QED
    BY <1>4, <2>1, <2>2 DEF TablesOf
<1>10. MappedBy(s) \subseteq Run(code, pages) \cup Run(stk - 1, StackPages + 1)
  <2>1. DOMAIN s.map = Pages
    BY <1>5
  <2>2. ASSUME NEW vp \in Pages, s.map[vp] # NoFrame
        PROVE  s.map[vp] \in Run(code, pages) \cup Run(stk - 1, StackPages + 1)
    BY <1>6, <2>2
  <2>3. QED
    BY <2>1, <2>2 DEF MappedBy, Range
<1>11. Owned(s) = a.used \ u
  <2>1. Owned(s) = Range(T) \cup MappedBy(s) \cup Run(code, pages)
                     \cup Run(stk - 1, StackPages + 1)
    BY <1>5, <1>9 DEF Owned
  <2>2. Range(T) \cap u = {}
    BY <1>4
  <2>3. QED
    BY <1>7, <1>10, <2>1, <2>2
<1>12. Separate(s)
  <2>1. TablesOf(s) \cap MappedBy(s) = {}
    BY <1>4, <1>9, <1>10
  <2>2. ASSUME NEW p \in Pages, NEW q \in Pages, s.map[p] = s.map[q], s.map[p] # NoFrame
        PROVE  p = q
    <3>1. InCode(p) \/ InStack(p)
      BY <1>6, <2>2
    <3>2. InCode(q) \/ InStack(q)
      BY <1>6, <2>2
    <3>3. (InCode(p) /\ InCode(q)) \/ (InStack(p) /\ InStack(q))
      BY <1>6, <1>7, <2>2, <3>1, <3>2
    <3>4. CASE InCode(p) /\ InCode(q)
      <4>1. code + (p - CodePage) = code + (q - CodePage)
        BY <1>6, <2>2, <3>4
      <4>2. QED
        BY <1>2, <1>3, <4>1 DEF Pages
    <3>5. CASE InStack(p) /\ InStack(q)
      <4>1. stk + (p - (StackPage - StackPages)) = stk + (q - (StackPage - StackPages))
        BY <1>6, <2>2, <3>5
      <4>2. QED
        BY <1>2, <1>3, <4>1 DEF Pages
    <3>6. QED
      BY <3>3, <3>4, <3>5
  <2>3. QED
    BY <2>1, <2>2 DEF Separate
<1>13. ASSUME forked \/ brk = FirstBreak(pages) PROVE HeapMapped(s)
  <2>1. ASSUME ~forked, NEW vp \in CodePage .. PageUp(s.heap_break) - 1
        PROVE  s.map[vp] # NoFrame
    <3>1. PageUp(s.heap_break) = CodePage + pages
      BY <1>2, <1>5, <1>13, <2>1, PageUpFacts, MemoryAssumption DEF FirstBreak
    <3>2. vp \in Pages /\ InCode(vp)
      BY <1>2, <3>1 DEF Pages
    <3>3. QED
      BY <1>3, <1>6, <1>7, <3>2
  <2>2. s.map[GuardPage] = NoFrame
    <3>1. GuardPage \in Pages /\ ~InCode(GuardPage) /\ ~InStack(GuardPage)
      BY <1>2 DEF Pages
    <3>2. QED
      BY <1>6, <3>1
  <2>3. ASSUME NEW i \in 0 .. StackPages - 1
        PROVE  s.map[StackPage - StackPages + i] = s.stack_pa + i
    <3>1. PICK vp : vp = StackPage - StackPages + i
      OBVIOUS
    <3>2. vp \in Pages /\ InStack(vp) /\ vp - (StackPage - StackPages) = i
      BY <1>2, <3>1 DEF Pages
    <3>3. QED
      BY <1>5, <1>6, <3>1, <3>2
  <2>4. QED
    BY <1>5, <2>1, <2>2, <2>3 DEF HeapMapped
<1>14. QED
  BY <1>1, <1>8, <1>11, <1>12, <1>13

-----------------------------------------------------------------------------
(* The invariant: what the runs check is inductive as it stands.           *)

\* What every step keeps.
MemInv == TypeOK /\ Isolation /\ HeapIsMapped /\ NoOrphans

\* The same, by address space and by frame.
Apart(sp) == \A t, u \in DOMAIN sp : t # u => Owned(sp[t]) \cap Owned(sp[u]) = {}
OwnMemory(u, k, sp) == \A t \in DOMAIN sp : Owned(sp[t]) \subseteq u \ k
Listed(u, k, sp) == \A f \in u : f \in k \/ \E t \in DOMAIN sp : f \in Owned(sp[t])

LEMMA MemInvParts ==
  MemInv <=> /\ TypeOK
             /\ Apart(space) /\ OwnMemory(used, kernel, space)
             /\ \A t \in DOMAIN space : Separate(space[t]) /\ HeapMapped(space[t])
             /\ ~short /\ ~remapped => Listed(used, kernel, space)
<1>1. Isolation <=> /\ Apart(space) /\ OwnMemory(used, kernel, space)
                    /\ \A t \in DOMAIN space : Separate(space[t])
  BY DEF Isolation, Apart, OwnMemory, Separate
<1>2. HeapIsMapped <=> \A t \in DOMAIN space : HeapMapped(space[t])
  BY DEF HeapIsMapped, HeapMapped
<1>3. ASSUME TypeOK, OwnMemory(used, kernel, space)
      PROVE  used = kernel \cup UNION {Owned(space[t]) : t \in DOMAIN space}
               <=> Listed(used, kernel, space)
  <2>1. kernel \subseteq used
    BY <1>3 DEF TypeOK
  <2>2. \A t \in DOMAIN space : Owned(space[t]) \subseteq used
    BY <1>3 DEF OwnMemory
  <2>3. QED
    BY <2>1, <2>2 DEF Listed
<1>4. QED
  BY <1>1, <1>2, <1>3 DEF MemInv, NoOrphans

LEMMA MemInvPartsNext ==
  ASSUME TypeOK', Apart(space'), OwnMemory(used', kernel', space'),
         \A t \in DOMAIN space' : Separate(space'[t]) /\ HeapMapped(space'[t]),
         ~short' /\ ~remapped' => Listed(used', kernel', space')
  PROVE  MemInv'
<1>1. MemInv' <=>
        (/\ TypeOK
         /\ Apart(space) /\ OwnMemory(used, kernel, space)
         /\ \A t \in DOMAIN space : Separate(space[t]) /\ HeapMapped(space[t])
         /\ ~short /\ ~remapped => Listed(used, kernel, space))'
  BY MemInvParts, PTL
<1>2. QED
  BY <1>1

LEMMA InitGood == Init => MemInv
<1> SUFFICES ASSUME Init PROVE MemInv
  OBVIOUS
<1>1. TypeOK
  <2>1. KernelFrames \in 0 .. TotalPages /\ MaxTasks \in Nat
    BY MemoryAssumption DEF MemoryAssumption
  <2>2. Run(0, KernelFrames) \subseteq Frame
    BY <2>1, FramesAssumption DEF Run, Frame
  <2>3. space \in Seq(Spaces) /\ Len(space) = 0 /\ used = Run(0, KernelFrames) /\ kernel = used
    BY DEF Init
  <2>4. alive = {} /\ short \in BOOLEAN /\ remapped \in BOOLEAN
    BY DEF Init
  <2>5. QED
    BY <2>1, <2>2, <2>3, <2>4 DEF TypeOK
<1>2. DOMAIN space = {}
  BY DEF Init
<1>3. Listed(used, kernel, space)
  BY DEF Init, Listed
<1>4. QED
  BY <1>1, <1>2, <1>3, MemInvParts DEF Apart, OwnMemory

\* sched_create_user and sched_fork.
LEMMA NewTaskGood ==
  ASSUME MemInv, NEW pages \in CodeSizes, NEW brk \in BreakRange,
         NEW forked \in BOOLEAN, forked \/ brk = FirstBreak(pages),
         NewTask(pages, brk, forked)
  PROVE  MemInv'
<1>1. PICK a : a = Allocation(used, pages)
  OBVIOUS
<1>2. /\ TypeOK /\ Apart(space) /\ OwnMemory(used, kernel, space)
      /\ \A t \in DOMAIN space : Separate(space[t]) /\ HeapMapped(space[t])
      /\ ~short /\ ~remapped => Listed(used, kernel, space)
  BY MemInvParts
<1>3. /\ Len(space) < MaxTasks
      /\ used' = a.used /\ short' = (short \/ a.short)
      /\ kernel' = kernel /\ remapped' = remapped
      /\ a.ok => /\ space' = Append(space, NewSpace(a, pages, brk, forked))
                 /\ alive' = alive \cup {Len(space) + 1}
      /\ ~a.ok => space' = space /\ alive' = alive
  BY <1>1 DEF NewTask
<1>4. /\ used \subseteq Frame /\ kernel \subseteq used /\ space \in Seq(Spaces)
      /\ Len(space) <= MaxTasks /\ alive \subseteq DOMAIN space
      /\ short \in BOOLEAN /\ remapped \in BOOLEAN
  BY <1>2 DEF TypeOK
<1>5. /\ a.ok \in BOOLEAN /\ a.short \in BOOLEAN
      /\ a.used \in SUBSET Frame /\ used \subseteq a.used
      /\ ~a.ok /\ ~a.short => a.used = used
      /\ a.ok => GotAll(used, pages, a)
  BY <1>1, <1>4, AllocationFacts
<1>6. CASE ~a.ok
  <2>1. space' = space /\ alive' = alive
    BY <1>3, <1>6
  <2>2. TypeOK'
    BY <1>3, <1>4, <1>5, <2>1 DEF TypeOK
  <2>3. OwnMemory(used', kernel', space')
    BY <1>2, <1>3, <1>5, <2>1 DEF OwnMemory
  <2>4. ~short' /\ ~remapped' => Listed(used', kernel', space')
    BY <1>2, <1>3, <1>5, <1>6, <2>1
  <2>5. QED
    BY <1>2, <2>1, <2>2, <2>3, <2>4, MemInvPartsNext
<1>7. CASE a.ok
  <2>1. PICK s : s = NewSpace(a, pages, brk, forked)
    OBVIOUS
  <2>2. s \in Spaces /\ Owned(s) = a.used \ used /\ Separate(s) /\ HeapMapped(s)
    <3>1. used \in SUBSET Frame /\ GotAll(used, pages, a)
      BY <1>4, <1>5, <1>7
    <3>2. /\ s \in Spaces /\ Owned(s) = a.used \ used /\ Separate(s)
          /\ forked \/ brk = FirstBreak(pages) => HeapMapped(s)
      BY <2>1, <3>1, NewSpaceFacts
    <3>3. QED
      BY <3>2
  <2>3. space' = Append(space, s) /\ alive' = alive \cup {Len(space) + 1}
    BY <1>3, <1>7, <2>1
  <2>4. Len(space) \in Nat /\ MaxTasks \in Nat
    BY <1>4, MemoryAssumption DEF MemoryAssumption
  <2>5. /\ space' \in Seq(Spaces) /\ Len(space') = Len(space) + 1
        /\ DOMAIN space' = 1 .. Len(space) + 1 /\ DOMAIN space = 1 .. Len(space)
    BY <1>4, <2>2, <2>3
  <2>6. /\ \A t \in DOMAIN space : t \in DOMAIN space' /\ space'[t] = space[t]
        /\ Len(space) + 1 \in DOMAIN space' /\ space'[Len(space) + 1] = s
        /\ \A t \in DOMAIN space' : t \in DOMAIN space \/ t = Len(space) + 1
    BY <1>4, <2>3, <2>4, <2>5
  <2>7. TypeOK'
    <3>1. Len(space') <= MaxTasks
      BY <1>3, <2>4, <2>5
    <3>2. alive' \subseteq DOMAIN space'
      BY <1>4, <2>3, <2>6
    <3>3. QED
      BY <1>3, <1>4, <1>5, <2>5, <3>1, <3>2 DEF TypeOK
  <2>8. \A t \in DOMAIN space : Owned(space[t]) \subseteq used \ kernel
    BY <1>2 DEF OwnMemory
  <2>9. Apart(space')
    <3> SUFFICES ASSUME NEW t \in DOMAIN space', NEW v \in DOMAIN space', t # v
                 PROVE  Owned(space'[t]) \cap Owned(space'[v]) = {}
      BY DEF Apart
    <3>1. CASE t \in DOMAIN space /\ v \in DOMAIN space
      BY <1>2, <2>6, <3>1 DEF Apart
    <3>2. CASE t \in DOMAIN space /\ v = Len(space) + 1
      BY <2>2, <2>6, <2>8, <3>2
    <3>3. CASE t = Len(space) + 1 /\ v \in DOMAIN space
      BY <2>2, <2>6, <2>8, <3>3
    <3>4. QED
      BY <2>6, <3>1, <3>2, <3>3
  <2>10. OwnMemory(used', kernel', space')
    <3> SUFFICES ASSUME NEW t \in DOMAIN space'
                 PROVE  Owned(space'[t]) \subseteq a.used \ kernel
      BY <1>3 DEF OwnMemory
    <3>1. CASE t \in DOMAIN space
      BY <1>5, <2>6, <2>8, <3>1
    <3>2. CASE t = Len(space) + 1
      BY <1>4, <2>2, <2>6, <3>2
    <3>3. QED
      BY <2>6, <3>1, <3>2
  <2>11. \A t \in DOMAIN space' : Separate(space'[t]) /\ HeapMapped(space'[t])
    BY <1>2, <2>2, <2>6
  <2>12. ~short' /\ ~remapped' => Listed(used', kernel', space')
    <3> SUFFICES ASSUME ~short', ~remapped', NEW f \in a.used, f \notin kernel
                 PROVE  \E t \in DOMAIN space' : f \in Owned(space'[t])
      BY <1>3 DEF Listed
    <3>1. CASE f \in used
      <4>1. PICK t \in DOMAIN space : f \in Owned(space[t])
        BY <1>2, <1>3, <3>1 DEF Listed
      <4>2. QED
        BY <2>6, <4>1
    <3>2. CASE f \notin used
      BY <2>2, <2>6, <3>2
    <3>3. QED
      BY <3>1, <3>2
  <2>13. QED
    BY <2>7, <2>9, <2>10, <2>11, <2>12, MemInvPartsNext
<1>8. QED
  BY <1>5, <1>6, <1>7
-----------------------------------------------------------------------------
(* sbrk: the task's space after the loop.                                  *)

\* The parts of an address space that own frames.
LEMMA OwnedBy ==
  ASSUME NEW s \in Spaces, NEW f
  PROVE  /\ f \in TablesOf(s) <=> \/ \E i \in 1 .. 2 : s.roots[i] = f
                                  \/ f # NoFrame /\ \E r \in Regions : s.l3[r] = f
         /\ f \in MappedBy(s) <=> f # NoFrame /\ \E p \in Pages : s.map[p] = f
<1>1. DOMAIN s.roots = 1 .. 2 /\ DOMAIN s.l3 = Regions /\ DOMAIN s.map = Pages
  BY DEF Spaces
<1>2. QED
  BY <1>1 DEF TablesOf, MappedBy, Range

\* What the loop has put into s, which held only frames of u, is its own, and
\* nothing else was added.
Remade(s, m, brk, n) ==
  /\ s \in Spaces /\ n \in Spaces
  /\ n.roots = s.roots /\ n.l3 = m.l3 /\ n.map = m.map
  /\ n.code_pa = s.code_pa /\ n.code_pages = s.code_pages /\ n.stack_pa = s.stack_pa
  /\ n.forked = s.forked
  /\ n.heap_break = IF m.ok THEN brk ELSE s.heap_break

\* sbrk's loop begins with this.
Begin(s, u) == [ok |-> TRUE, used |-> u, map |-> s.map, l3 |-> s.l3]

LEMMA RemadeOwns ==
  ASSUME NEW s, NEW m, NEW brk, NEW n, Remade(s, m, brk, n), NEW u \in SUBSET Frame,
         NEW b, b = Begin(s, u),
         Owned(s) \subseteq u,
         NEW from \in Nat, NEW vp \in Int, Done(b, m, from, vp)
  PROVE  /\ Owned(n) \subseteq Owned(s) \cup (m.used \ u)
         /\ m.used \ u \subseteq Owned(n)
         /\ (\A p \in from .. vp - 1 : p \in Pages /\ s.map[p] # NoFrame => m.map[p] = s.map[p])
              => Owned(s) \subseteq Owned(n)
         /\ Separate(s) => Separate(n)
<1>1. New(b, m) = m.used \ u
  BY DEF New, Begin
<1>2. PICK new : new = m.used \ u
  OBVIOUS
<1>3. /\ m \in LoopStates /\ u \subseteq m.used
      /\ \A p \in Pages : m.map[p] = s.map[p] \/ (m.map[p] \in new /\ p \in from .. vp - 1)
      /\ \A r \in Regions : m.l3[r] = s.l3[r] \/ (m.l3[r] \in new /\ s.l3[r] = NoFrame)
      /\ \A f \in new : (\E p \in Pages : m.map[p] = f) \/ (\E r \in Regions : m.l3[r] = f)
      /\ \A p \in Pages, r \in Regions : m.map[p] \in new => m.map[p] # m.l3[r]
      /\ \A p, q \in Pages : m.map[p] \in new /\ p # q => m.map[p] # m.map[q]
  BY <1>1, <1>2 DEF Done, Begin
<1>4. \A f \in new : f # NoFrame /\ f \notin u
  BY <1>2, <1>3, FramesAssumption DEF LoopStates, Frame, NoFrame
<1>5. /\ s \in Spaces /\ n \in Spaces
      /\ n.roots = s.roots /\ n.l3 = m.l3 /\ n.map = m.map
      /\ n.code_pa = s.code_pa /\ n.code_pages = s.code_pages /\ n.stack_pa = s.stack_pa
  BY DEF Remade
<1>6. \A f : f \in TablesOf(n) => f \in TablesOf(s) \/ f \in new
  <2> SUFFICES ASSUME NEW f \in TablesOf(n), f \notin TablesOf(s) PROVE f \in new
    OBVIOUS
  <2>1. PICK r \in Regions : n.l3[r] = f /\ f # NoFrame
    BY <1>5, OwnedBy
  <2>2. s.l3[r] # f
    BY <1>5, <2>1, OwnedBy
  <2>3. QED
    BY <1>3, <1>5, <2>1, <2>2
<1>7. \A f : f \in MappedBy(n) => f \in MappedBy(s) \/ f \in new
  <2> SUFFICES ASSUME NEW f \in MappedBy(n), f \notin MappedBy(s) PROVE f \in new
    OBVIOUS
  <2>1. PICK p \in Pages : n.map[p] = f /\ f # NoFrame
    BY <1>5, OwnedBy
  <2>2. s.map[p] # f
    BY <1>5, <2>1, OwnedBy
  <2>3. QED
    BY <1>3, <1>5, <2>1, <2>2
<1>8. Owned(n) \subseteq Owned(s) \cup new
  BY <1>5, <1>6, <1>7 DEF Owned
<1>9. new \subseteq Owned(n)
  <2> SUFFICES ASSUME NEW f \in new PROVE f \in Owned(n)
    OBVIOUS
  <2>1. f \in TablesOf(n) \/ f \in MappedBy(n)
    BY <1>3, <1>4, <1>5, OwnedBy
  <2>2. QED
    BY <2>1 DEF Owned
<1>10. ASSUME \A p \in from .. vp - 1 : p \in Pages /\ s.map[p] # NoFrame => m.map[p] = s.map[p]
       PROVE  Owned(s) \subseteq Owned(n)
  <2>1. \A r \in Regions : s.l3[r] # NoFrame => n.l3[r] = s.l3[r]
    BY <1>3, <1>5
  <2>2. \A p \in Pages : s.map[p] # NoFrame => n.map[p] = s.map[p]
    BY <1>3, <1>5, <1>10
  <2>3. \A f : f \in TablesOf(s) => f \in TablesOf(n)
    BY <1>5, <2>1, OwnedBy
  <2>4. \A f : f \in MappedBy(s) => f \in MappedBy(n)
    BY <1>5, <2>2, OwnedBy
  <2>5. QED
    BY <1>5, <2>3, <2>4 DEF Owned
<1>11. ASSUME Separate(s) PROVE Separate(n)
  <2>1. TablesOf(s) \subseteq u /\ MappedBy(s) \subseteq u
    BY DEF Owned
  <2>2. ASSUME NEW f \in TablesOf(n), f \in MappedBy(n) PROVE FALSE
    <3>1. PICK p \in Pages : m.map[p] = f /\ f # NoFrame
      BY <1>5, <2>2, OwnedBy
    <3>2. CASE f \in new
      <4>1. f \notin TablesOf(s)
        BY <1>4, <2>1, <3>2
      <4>2. PICK r \in Regions : m.l3[r] = f
        BY <1>5, <2>2, <4>1, OwnedBy
      <4>3. QED
        BY <1>3, <3>1, <3>2, <4>2
    <3>3. CASE f \notin new
      <4>1. f \in TablesOf(s) /\ f \in MappedBy(s)
        BY <1>6, <1>7, <2>2, <3>3
      <4>2. QED
        BY <1>11, <4>1 DEF Separate
    <3>4. QED
      BY <3>2, <3>3
  <2>3. ASSUME NEW p \in Pages, NEW q \in Pages, n.map[p] = n.map[q], n.map[p] # NoFrame
        PROVE  p = q
    <3>1. m.map[p] = m.map[q] /\ m.map[p] # NoFrame
      BY <1>5, <2>3
    <3>2. CASE m.map[p] \in new
      BY <1>3, <3>1, <3>2
    <3>3. CASE m.map[p] \notin new
      <4>1. s.map[p] = m.map[p] /\ s.map[q] = m.map[q]
        BY <1>3, <3>1, <3>3
      <4>2. QED
        BY <1>11, <3>1, <4>1 DEF Separate
    <3>4. QED
      BY <3>2, <3>3
  <2>4. QED
    BY <2>2, <2>3 DEF Separate
<1>12. QED
  BY <1>2, <1>8, <1>9, <1>10, <1>11

\* And the heap is mapped up to the new break.
LEMMA RemadeIsMapped ==
  ASSUME NEW s, NEW m, NEW brk \in Nat, NEW n, Remade(s, m, brk, n), NEW u \in SUBSET Frame,
         NEW b, b = Begin(s, u),
         PageUp(brk) <= GuardPage, CodeSizes # {},
         Done(b, m, PageUp(s.heap_break), PageUp(brk)), HeapMapped(s)
  PROVE  HeapMapped(n)
<1>1. /\ GuardPage \in Nat /\ GuardPage + 1 + StackPages = StackPage
      /\ CodePage \in Nat /\ StackPages \in Nat \ {0} /\ StackPage \in Nat \ {0}
  BY RegionFacts
<1>2. PICK from, vp : from = PageUp(s.heap_break) /\ vp = PageUp(brk)
  OBVIOUS
<1>3. /\ s \in Spaces /\ n.map = m.map /\ n.stack_pa = s.stack_pa /\ n.forked = s.forked
      /\ n.heap_break = IF m.ok THEN brk ELSE s.heap_break
  BY DEF Remade
<1>4. from \in Nat /\ vp \in Nat /\ vp <= GuardPage /\ from <= GuardPage
  <2>1. s.heap_break \in Nat /\ s.heap_break <= GuardPage * PageUnits
    BY <1>1, <1>3, MemoryAssumption DEF Spaces, MemoryAssumption
  <2>2. QED
    BY <1>1, <1>2, <2>1, PageUpFacts, MemoryAssumption
<1>5. /\ \A p \in Pages : m.map[p] = s.map[p] \/ (m.map[p] \in m.used /\ p \in from .. vp - 1)
      /\ m.ok => \A p \in from .. vp - 1 : m.map[p] # NoFrame
      /\ m \in LoopStates
  BY <1>2 DEF Done, New, Begin
<1>6. \A p \in Pages : s.map[p] # NoFrame => m.map[p] # NoFrame
  BY <1>5, FramesAssumption DEF LoopStates, Frame, NoFrame
<1>7. ASSUME ~n.forked, NEW p \in CodePage .. PageUp(n.heap_break) - 1
      PROVE  n.map[p] # NoFrame
  <2>1. \A q \in CodePage .. from - 1 : q \in Pages /\ s.map[q] # NoFrame
    BY <1>1, <1>2, <1>3, <1>4, <1>7 DEF HeapMapped, Pages
  <2>2. CASE p <= from - 1
    <3>1. p \in CodePage .. from - 1
      BY <1>1, <1>4, <1>7, <2>2
    <3>2. QED
      BY <1>3, <1>6, <2>1, <3>1
  <2>3. CASE ~(p <= from - 1)
    <3>1. m.ok
      <4> SUFFICES ASSUME ~m.ok PROVE FALSE
        OBVIOUS
      <4>1. PageUp(n.heap_break) = from
        BY <1>2, <1>3
      <4>2. QED
        BY <1>1, <1>4, <1>7, <2>3, <4>1
    <3>2. PageUp(n.heap_break) = vp
      BY <1>2, <1>3, <3>1
    <3>3. p \in from .. vp - 1
      BY <1>1, <1>4, <1>7, <2>3, <3>2
    <3>4. QED
      BY <1>3, <1>5, <3>1, <3>3
  <2>4. QED
    BY <2>2, <2>3
<1>8. \A p \in GuardPage .. StackPage - 1 : p \in Pages /\ p \notin from .. vp - 1
  BY <1>1, <1>4 DEF Pages
<1>9. \A p \in GuardPage .. StackPage - 1 : n.map[p] = s.map[p]
  BY <1>3, <1>5, <1>8
<1>10. n.map[GuardPage] = NoFrame
  <2>1. GuardPage \in GuardPage .. StackPage - 1
    BY <1>1
  <2>2. QED
    BY <1>9, <2>1 DEF HeapMapped
<1>11. ASSUME NEW i \in 0 .. StackPages - 1
       PROVE  n.map[StackPage - StackPages + i] = n.stack_pa + i
  <2>1. StackPage - StackPages + i \in GuardPage .. StackPage - 1
    BY <1>1
  <2>2. QED
    BY <1>3, <1>9, <2>1 DEF HeapMapped
<1>12. QED
  BY <1>7, <1>10, <1>11 DEF HeapMapped

LEMMA SbrkGood ==
  ASSUME MemInv, NEW t, NEW brk \in Breaks, Sbrk(t, brk)
  PROVE  MemInv'
<1>1. /\ TypeOK /\ Apart(space) /\ OwnMemory(used, kernel, space)
      /\ \A v \in DOMAIN space : Separate(space[v]) /\ HeapMapped(space[v])
      /\ ~short /\ ~remapped => Listed(used, kernel, space)
  BY MemInvParts
<1>2. /\ used \subseteq Frame /\ kernel \subseteq used /\ space \in Seq(Spaces)
      /\ Len(space) <= MaxTasks /\ alive \subseteq DOMAIN space
      /\ short \in BOOLEAN /\ remapped \in BOOLEAN
  BY <1>1 DEF TypeOK
<1>3. t \in DOMAIN space /\ space[t] \in Spaces
  BY <1>2 DEF Sbrk
<1>4. PICK s : s = space[t]
  OBVIOUS
<1>5. PICK b : b = Begin(s, used)
  OBVIOUS
<1>6. PICK from, to : from = PageUp(s.heap_break) /\ to = PageUp(brk) - 1
  OBVIOUS
<1>7. PICK m : m = MapPages(b, from, to)
  OBVIOUS
<1>8. /\ brk < GuardPage * PageUnits
      /\ used' = m.used /\ kernel' = kernel /\ alive' = alive /\ short' = short
      /\ space' = [space EXCEPT ![t].map = m.map, ![t].l3 = m.l3,
                                ![t].heap_break = IF m.ok THEN brk ELSE s.heap_break]
      /\ remapped' = (remapped \/ \E vp \in from .. to : NoFrame # s.map[vp] /\ m.map[vp] # s.map[vp])
  BY <1>4, <1>5, <1>6, <1>7 DEF Sbrk, PagesToMap, MapFrom, Allowed, Begin
<1>9. PICK n : n = space'[t]
  OBVIOUS
<1>10. /\ \A vp \in Pages : Region(vp) \in Regions
       /\ GuardPage \in Nat /\ GuardPage + 1 + StackPages = StackPage
       /\ StackPages \in Nat \ {0} /\ StackPage \in Nat \ {0} /\ CodeSizes # {}
  <2>1. CodeSizes # {}
    BY <1>3 DEF Spaces
  <2>2. QED
    BY <2>1, RegionFacts
<1>11. /\ brk \in Nat /\ brk \in 0 .. GuardPage * PageUnits
       /\ PageUp(brk) \in Nat /\ PageUp(brk) <= GuardPage /\ from \in Nat /\ to \in Int
       /\ to + 1 = PageUp(brk)
  <2>1. brk \in Nat /\ s.heap_break \in Nat /\ PageUnits \in Nat
    BY <1>3, <1>4, MemoryAssumption DEF MemoryAssumption, Spaces
  <2>2. GuardPage * PageUnits \in Nat
    BY <1>10, <2>1
  <2>3. PICK top : top = GuardPage * PageUnits
    OBVIOUS
  <2>4. brk <= top /\ brk \in 0 .. top
    BY <1>8, <2>1, <2>2, <2>3
  <2>5. PageUp(brk) \in Nat /\ PageUp(brk) <= GuardPage /\ from \in Nat
    BY <1>6, <1>10, <2>1, <2>3, <2>4, PageUpFacts, MemoryAssumption
  <2>6. QED
    BY <1>6, <2>1, <2>3, <2>4, <2>5
<1>12. from .. to \subseteq Pages
  BY <1>10, <1>11 DEF Pages
<1>13. \A v \in DOMAIN space : Owned(space[v]) \subseteq used /\ Owned(space[v]) \cap kernel = {}
  BY <1>1 DEF OwnMemory
<1>14. Sound(b)
  <2>1. s \in Spaces /\ Owned(s) \subseteq used
    BY <1>3, <1>4, <1>13
  <2>2. b \in LoopStates
    BY <1>2, <1>5, <2>1 DEF LoopStates, Spaces, Begin
  <2>3. \A p \in Pages : s.map[p] \in used \cup {NoFrame}
    BY <2>1, OwnedBy DEF Owned
  <2>4. \A r \in Regions : s.l3[r] \in used \cup {NoFrame}
    BY <2>1, OwnedBy DEF Owned
  <2>5. QED
    BY <1>5, <2>2, <2>3, <2>4 DEF Sound, Begin
<1>15. Done(b, m, from, to + 1)
  BY <1>7, <1>10, <1>11, <1>12, <1>14, MapPagesDone
<1>16. m \in LoopStates /\ used \subseteq m.used
  BY <1>5, <1>15 DEF Done, Begin
<1>17. /\ DOMAIN space' = DOMAIN space
       /\ \A v \in DOMAIN space : v # t => space'[v] = space[v]
       /\ n = [s EXCEPT !.map = m.map, !.l3 = m.l3,
                        !.heap_break = IF m.ok THEN brk ELSE s.heap_break]
  BY <1>2, <1>3, <1>4, <1>8, <1>9
<1>18. Remade(s, m, brk, n)
  <2>1. /\ n.roots = s.roots /\ n.l3 = m.l3 /\ n.map = m.map
        /\ n.code_pa = s.code_pa /\ n.code_pages = s.code_pages /\ n.stack_pa = s.stack_pa
        /\ n.forked = s.forked
        /\ n.heap_break = IF m.ok THEN brk ELSE s.heap_break
    BY <1>3, <1>4, <1>17 DEF Spaces
  <2>2. n.heap_break \in 0 .. GuardPage * PageUnits
    BY <1>3, <1>4, <1>11, <2>1 DEF Spaces
  <2>3. m.map \in [Pages -> Frame \cup {NoFrame}] /\ m.l3 \in [Regions -> Frame \cup {NoFrame}]
    BY <1>16 DEF LoopStates
  <2>4. n \in Spaces
    BY <1>3, <1>4, <1>17, <2>2, <2>3 DEF Spaces
  <2>5. QED
    BY <1>3, <1>4, <2>1, <2>4 DEF Remade
<1>19. /\ Owned(n) \subseteq Owned(s) \cup (m.used \ used)
       /\ m.used \ used \subseteq Owned(n)
       /\ (\A p \in from .. to + 1 - 1 : p \in Pages /\ s.map[p] # NoFrame => m.map[p] = s.map[p])
            => Owned(s) \subseteq Owned(n)
       /\ Separate(s) => Separate(n)
  <2>1. to + 1 \in Int /\ used \in SUBSET Frame /\ Owned(s) \subseteq used
    BY <1>2, <1>3, <1>4, <1>11, <1>13
  <2>2. QED
    BY <1>5, <1>11, <1>15, <1>18, <2>1, RemadeOwns
<1>20. HeapMapped(n)
  <2>1. HeapMapped(s) /\ used \in SUBSET Frame
    BY <1>1, <1>2, <1>3, <1>4
  <2>2. Done(b, m, PageUp(s.heap_break), PageUp(brk))
    BY <1>6, <1>11, <1>15
  <2>3. brk \in Nat /\ PageUp(brk) <= GuardPage /\ CodeSizes # {}
    BY <1>10, <1>11
  <2>4. QED
    BY <1>5, <1>18, <2>1, <2>2, <2>3, RemadeIsMapped
<1>21. TypeOK'
  <2>1. n \in Spaces
    BY <1>18 DEF Remade
  <2>2. DOMAIN space = 1 .. Len(space) /\ Len(space) \in Nat
    BY <1>2
  <2>3. space' \in [1 .. Len(space) -> Spaces]
    <3>1. space' = [v \in DOMAIN space |-> space'[v]]
      <4>1. space' = [v \in DOMAIN space' |-> space'[v]]
        <5>1. PICK new : new = IF m.ok THEN brk ELSE s.heap_break
          OBVIOUS
        <5>2. space' = [space EXCEPT ![t].map = m.map, ![t].l3 = m.l3, ![t].heap_break = new]
          BY <1>8, <5>1
        <5>3. QED
          BY ONLY <5>2
      <4>2. QED
        BY <1>17, <4>1
    <3>2. \A v \in DOMAIN space : space'[v] \in Spaces
      <4>1. \A v \in DOMAIN space : space[v] \in Spaces
        BY <1>2
      <4>2. \A v \in DOMAIN space : v # t => space'[v] = space[v]
        BY <1>17
      <4>3. QED
        BY <1>9, <2>1, <4>1, <4>2
    <3>3. QED
      BY <2>2, <3>1, <3>2
  <2>4. space' \in Seq(Spaces) /\ Len(space') = Len(space)
    BY <1>17, <2>2, <2>3
  <2>5. remapped' \in BOOLEAN /\ m.used \subseteq Frame
    BY <1>2, <1>8, <1>16 DEF LoopStates
  <2>6. QED
    BY <1>2, <1>8, <1>16, <1>17, <2>4, <2>5 DEF TypeOK
<1>22. Apart(space')
  <2> SUFFICES ASSUME NEW v \in DOMAIN space, NEW w \in DOMAIN space, v # w
               PROVE  Owned(space'[v]) \cap Owned(space'[w]) = {}
    BY <1>17 DEF Apart
  <2>1. Owned(space[v]) \cap Owned(space[w]) = {}
    BY <1>1 DEF Apart
  <2>2. CASE v # t /\ w # t
    BY <1>17, <2>1, <2>2
  <2>3. CASE v = t
    <3>1. space'[v] = n /\ space'[w] = space[w] /\ space[v] = s
      BY <1>4, <1>9, <1>17, <2>3
    <3>2. QED
      BY <1>13, <1>19, <2>1, <3>1
  <2>4. CASE w = t
    <3>1. space'[w] = n /\ space'[v] = space[v] /\ space[w] = s
      BY <1>4, <1>9, <1>17, <2>4
    <3>2. QED
      BY <1>13, <1>19, <2>1, <3>1
  <2>5. QED
    BY <2>2, <2>3, <2>4
<1>23. OwnMemory(used', kernel', space')
  <2> SUFFICES ASSUME NEW v \in DOMAIN space
               PROVE  Owned(space'[v]) \subseteq m.used \ kernel
    BY <1>8, <1>17 DEF OwnMemory
  <2>1. CASE v # t
    BY <1>13, <1>16, <1>17, <2>1
  <2>2. CASE v = t
    BY <1>2, <1>3, <1>4, <1>9, <1>13, <1>16, <1>19, <2>2
  <2>3. QED
    BY <2>1, <2>2
<1>24. \A v \in DOMAIN space' : Separate(space'[v]) /\ HeapMapped(space'[v])
  BY <1>1, <1>3, <1>4, <1>9, <1>17, <1>19, <1>20
<1>25. ~short' /\ ~remapped' => Listed(used', kernel', space')
  <2> SUFFICES ASSUME ~short', ~remapped', NEW f \in m.used, f \notin kernel
               PROVE  \E v \in DOMAIN space' : f \in Owned(space'[v])
    BY <1>8 DEF Listed
  <2>1. /\ ~short /\ ~remapped
        /\ \A vp \in from .. to : s.map[vp] # NoFrame => m.map[vp] = s.map[vp]
    BY <1>8
  <2>2. to + 1 - 1 = to
    BY <1>11
  <2>3. Owned(s) \subseteq Owned(n)
    BY <1>19, <2>1, <2>2
  <2>4. CASE f \in used
    <3>1. PICK v \in DOMAIN space : f \in Owned(space[v])
      BY <1>1, <2>1, <2>4 DEF Listed
    <3>2. QED
      BY <1>4, <1>9, <1>17, <2>3, <3>1
  <2>5. CASE f \notin used
    BY <1>3, <1>9, <1>17, <1>19, <2>5
  <2>6. QED
    BY <2>4, <2>5
<1>26. QED
  BY <1>21, <1>22, <1>23, <1>24, <1>25, MemInvPartsNext

-----------------------------------------------------------------------------
(* The other steps, and the theorems.                                      *)

LEMMA ExitGood ==
  ASSUME MemInv, NEW t, Exit(t)
  PROVE  MemInv'
<1>1. TypeOK'
  BY DEF MemInv, TypeOK, Exit
<1>2. Isolation' /\ HeapIsMapped' /\ NoOrphans'
  BY DEF MemInv, Exit, Isolation, HeapIsMapped, NoOrphans
<1>3. QED
  BY <1>1, <1>2 DEF MemInv

LEMMA KernelGrowsGood ==
  ASSUME MemInv, NEW count \in Growths, KernelGrows(count)
  PROVE  MemInv'
<1>1. /\ TypeOK /\ Apart(space) /\ OwnMemory(used, kernel, space)
      /\ \A v \in DOMAIN space : Separate(space[v]) /\ HeapMapped(space[v])
      /\ ~short /\ ~remapped => Listed(used, kernel, space)
  BY MemInvParts
<1>2. PICK start : start = FirstFit(used, count)
  OBVIOUS
<1>3. PICK run : run = Run(start, count)
  OBVIOUS
<1>4. /\ start # NoFrame
      /\ used' = used \cup run /\ kernel' = kernel \cup run
      /\ space' = space /\ alive' = alive /\ short' = short /\ remapped' = remapped
  BY <1>2, <1>3 DEF KernelGrows
<1>5. run \subseteq Frame \ used
  <2>1. count \in Nat \ {0}
    BY MemoryAssumption DEF MemoryAssumption
  <2>2. QED
    BY <1>2, <1>3, <1>4, <2>1, FirstFitIsFree
<1>6. TypeOK'
  BY <1>1, <1>4, <1>5 DEF TypeOK
<1>7. OwnMemory(used', kernel', space')
  BY <1>1, <1>4, <1>5 DEF OwnMemory
<1>8. ~short' /\ ~remapped' => Listed(used', kernel', space')
  BY <1>1, <1>4 DEF Listed
<1>9. QED
  BY <1>1, <1>4, <1>6, <1>7, <1>8, MemInvPartsNext

LEMMA NextGood == MemInv /\ [Next]_vars => MemInv'
<1> SUFFICES ASSUME MemInv, [Next]_vars PROVE MemInv'
  OBVIOUS
<1>1. ASSUME NEW pages \in CodeSizes, CreateUser(pages) PROVE MemInv'
  <2>1. FirstBreak(pages) \in BreakRange
    <3>1. /\ CodePage + pages \in Nat /\ GuardPage \in Nat /\ CodePage + pages <= GuardPage
          /\ PageUnits \in Nat
      BY <1>1, RegionFacts, MemoryAssumption DEF MemoryAssumption
    <3>2. \A i, j, k \in Nat : i <= j => i * k \in 0 .. j * k
      OBVIOUS
    <3>3. QED
      BY <3>1, <3>2 DEF FirstBreak, BreakRange
  <2>2. NewTask(pages, FirstBreak(pages), FALSE)
    BY <1>1 DEF CreateUser, FirstBreak
  <2>3. QED
    BY <2>1, <2>2, NewTaskGood
<1>2. ASSUME NEW t \in alive, Fork(t) PROVE MemInv'
  <2>1. space[t] \in Spaces
    BY DEF MemInv, TypeOK
  <2>2. space[t].code_pages \in CodeSizes /\ space[t].heap_break \in BreakRange
    BY <2>1 DEF Spaces, BreakRange
  <2>3. NewTask(space[t].code_pages, space[t].heap_break, TRUE)
    BY <1>2 DEF Fork
  <2>4. QED
    BY <2>2, <2>3, NewTaskGood
<1>3. CASE UNCHANGED vars
  BY <1>3 DEF vars, MemInv, TypeOK, Isolation, HeapIsMapped, NoOrphans
<1>4. QED
  BY <1>1, <1>2, <1>3, ExitGood, SbrkGood, KernelGrowsGood DEF Next

\* What the runs check on a small memory holds for every memory, layout of the
\* address space and pattern of calls.
THEOREM MemInvHolds == Spec => []MemInv
BY InitGood, NextGood, PTL DEF Spec

\* The state stays in the sets that TypeOK names, for programs whose break
\* never leaves the room below the guard page.
THEOREM TypeCorrect == Spec => []TypeOK
<1>1. MemInv => TypeOK
  BY DEF MemInv
<1>2. QED
  BY <1>1, MemInvHolds, PTL

\* sched_create_user, sched_fork and SYS_SBRK of syscall.c: whatever they
\* get, also when the frames run out half-way, no program can reach the
\* memory of another, of the kernel or of its page tables.
THEOREM ProgramsAreIsolated == Spec => []Isolation
<1>1. MemInv => Isolation
  BY DEF MemInv
<1>2. QED
  BY <1>1, MemInvHolds, PTL

\* SYS_SBRK: every page below the break it has returned is mapped, the guard
\* page never is, and the stack stays where it was.
THEOREM BreaksAreBacked == Spec => []HeapIsMapped
<1>1. MemInv => HeapIsMapped
  BY DEF MemInv
<1>2. QED
  BY <1>1, MemInvHolds, PTL

\* mmu.c:93 and 117, and a break that is moved back and forth, are the only
\* ways to lose a frame: without them every frame in use has an owner.
THEOREM FramesAreOwned == Spec => []NoOrphans
<1>1. MemInv => NoOrphans
  BY DEF MemInv
<1>2. QED
  BY <1>1, MemInvHolds, PTL

=============================================================================
