--------------------------- MODULE FileTableProofs ---------------------------
(***************************************************************************)
(* Proofs about module FileTable, for every number of tasks, descriptors,  *)
(* open files and pipes: reference counts are exact, nothing is freed that *)
(* a pointer leads to, and what the loops of a pipe test is true.          *)
(***************************************************************************)
EXTENDS FileTable, FiniteSetTheorems, WellFoundedInduction, TLAPS

\* Among the steps after which a loop of the code finds what it looks for
\* there is a least one, so that a CHOOSE of it is meaningful.
LEMMA LeastSteps ==
  ASSUME NEW S \in SUBSET Nat, S # {}
  PROVE  \E i \in S : \A j \in S : i <= j
<1> DEFINE below(i) == 0 .. i - 1
           T == {below(i) : i \in S}
<1>1. T \subseteq FiniteSubsetsOf(Nat) /\ T # {}
  <2>1. ASSUME NEW i \in S
        PROVE  IsFiniteSet(below(i)) /\ below(i) \subseteq Nat
    BY FS_Interval
  <2>2. T # {}
    OBVIOUS
  <2>3. QED
    BY <2>1, <2>2 DEF FiniteSubsetsOf
<1>2. PICK u \in T : \A v \in T : <<v, u>> \notin StrictSubsetOrdering(Nat)
  BY <1>1, FS_StrictSubsetOrderingWellFounded, WFMin
<1>3. PICK x \in S : u = below(x)
  OBVIOUS
<1>4. ASSUME NEW j \in S, j < x
      PROVE  FALSE
  <2>1. below(j) \subseteq below(x) /\ below(j) # below(x) /\ j \in below(x)
    BY <1>4
  <2>2. <<below(j), u>> \in StrictSubsetOrdering(Nat)
    BY <2>1, <1>3 DEF StrictSubsetOrdering
  <2>3. QED
    BY <2>2, <1>2
<1>5. QED
  BY <1>4

Ends == {"rd", "wr"}

CountsExact == \A f \in Files : ref_count[f] = Cardinality(Holders(f))

\* An open_file is in use as long as a descriptor refers to it.
InUseWhenHeld ==
  /\ kind[Console] = "console"
  /\ \A f \in Objs : kind[f] # "console" /\ (kind[f] = "free" <=> Holders(f) = {})

\* Tasks that have ended, and slots that no task has had, hold nothing.
OnlyTheLiveHold ==
  \A t \in Tasks \ live : busy[t] = Null /\ \A fd \in Fds : fds[t][fd] = Null

\* An allocated pipe has at most one open_file for each of its ends, which
\* its two flags tell, and at least one of them.
EndsHavePipes == \A f \in Objs : kind[f] \in Ends => pipe[f] \in pipes
OneFilePerEnd ==
  \A f, g \in Objs : kind[f] \in Ends /\ kind[f] = kind[g] /\ pipe[f] = pipe[g] => f = g
FlagsTellEnds ==
  \A p \in pipes :
    /\ read_open[p] <=> \E f \in Objs : kind[f] = "rd" /\ pipe[f] = p
    /\ write_open[p] <=> \E f \in Objs : kind[f] = "wr" /\ pipe[f] = p
    /\ read_open[p] \/ write_open[p]

\* Who is in a loop of fd_read or fd_write keeps its descriptor meanwhile.
WaitersHoldTheEnd ==
  \A t \in Tasks : busy[t] # Null =>
    \E fd \in Fds :
      LET f == fds[t][fd] IN f \in Objs /\ kind[f] \in Ends /\ pipe[f] = busy[t]

PipeObjects == EndsHavePipes /\ OneFilePerEnd /\ FlagsTellEnds

TableInv ==
  /\ TypeOK /\ CountsExact /\ InUseWhenHeld /\ OnlyTheLiveHold
  /\ PipeObjects /\ WaitersHoldTheEnd

-----------------------------------------------------------------------------
\* The types, without those of what the proofs of a step leave alone.
LEMMA TableTypes ==
  ASSUME TypeOK
  PROVE  /\ IsFiniteSet(Fds) /\ IsFiniteSet(Tasks) /\ IsFiniteSet(Tasks \X Fds)
         /\ Null \notin Files
         /\ \A t \in Tasks, fd \in Fds : fds[t][fd] \in Files \cup {Null}
<1>1. IsFiniteSet(Fds) /\ IsFiniteSet(Tasks)
  <2>1. MaxFds - 1 \in Int /\ 0 \in Int
    BY FdAssumption
  <2>2. QED
    BY <2>1, ObjAssumption, FS_Interval DEF Fds
<1>2. IsFiniteSet(Tasks \X Fds)
  BY <1>1, FS_Product
<1>3. QED
  BY <1>1, <1>2, ObjAssumption DEF TypeOK, Files

\* The descriptors that refer to f, when those of t that are in S are closed.
Left(t, S, f) == {h \in Holders(f) : ~(h[1] = t /\ h[2] \in S)}

LEMMA LeftCount ==
  ASSUME TypeOK, NEW t \in Tasks, NEW S \in SUBSET Fds, NEW f
  PROVE  /\ IsFiniteSet(Holders(f)) /\ Cardinality(Holders(f)) \in Nat
         /\ IsFiniteSet(Left(t, S, f)) /\ Cardinality(Left(t, S, f)) \in Nat
         /\ Refs(t, S, f) \in Nat
         /\ Cardinality(Left(t, S, f)) = Cardinality(Holders(f)) - Refs(t, S, f)
         /\ Refs(t, S, f) > 0 <=> \E fd \in S : fds[t][fd] = f
<1> DEFINE D == {fd \in S : fds[t][fd] = f}
           G == {t} \X D
<1>1. IsFiniteSet(Holders(f)) /\ IsFiniteSet(Left(t, S, f)) /\ IsFiniteSet(D)
  <2>1. Holders(f) \in SUBSET (Tasks \X Fds) /\ D \in SUBSET Fds
    BY DEF Holders
  <2>2. IsFiniteSet(Holders(f)) /\ IsFiniteSet(D)
    BY <2>1, TableTypes, FS_Subset
  <2>3. Left(t, S, f) \in SUBSET Holders(f)
    BY DEF Left
  <2>4. QED
    BY <2>2, <2>3, FS_Subset
<1>2. IsFiniteSet(G) /\ Cardinality(G) = Cardinality(D)
  <2>1. IsFiniteSet({t}) /\ Cardinality({t}) = 1 /\ Cardinality(D) \in Nat
    BY <1>1, FS_Singleton, FS_CardinalityType
  <2>2. Cardinality(G) = 1 * Cardinality(D) /\ IsFiniteSet(G)
    BY <1>1, <2>1, FS_Product
  <2>3. QED
    BY <2>1, <2>2
<1>3. Holders(f) = Left(t, S, f) \cup G /\ Left(t, S, f) \cap G = {}
  BY DEF Holders, Left
<1>4. Cardinality(Holders(f)) = Cardinality(Left(t, S, f)) + Cardinality(G) - 0
  BY <1>1, <1>2, <1>3, FS_Union, FS_EmptySet
<1>5. Refs(t, S, f) = Cardinality(D)
  BY DEF Refs
<1>6. /\ Cardinality(Holders(f)) \in Nat /\ Cardinality(Left(t, S, f)) \in Nat
      /\ Cardinality(D) \in Nat /\ (Cardinality(D) = 0 <=> D = {})
  BY <1>1, FS_CardinalityType, FS_EmptySet
<1>7. Refs(t, S, f) > 0 <=> \E fd \in S : fds[t][fd] = f
  BY <1>5, <1>6
<1>8. QED
  BY <1>1, <1>2, <1>4, <1>5, <1>6, <1>7

\* Closing frees what has a descriptor, and no other than those closed.
LEMMA FreedAreUnused ==
  ASSUME TableInv, NEW t \in Tasks, NEW S \in SUBSET Fds
  PROVE  /\ \A f \in Objs : f \in Freed(t, S) <=> Holders(f) # {} /\ Left(t, S, f) = {}
         /\ \A f \in Files : ref_count[f] - Refs(t, S, f) = Cardinality(Left(t, S, f))
<1>1. \A f \in Files : ref_count[f] - Refs(t, S, f) = Cardinality(Left(t, S, f))
  BY LeftCount DEF TableInv, CountsExact
<1>2. ASSUME NEW f \in Objs
      PROVE  f \in Freed(t, S) <=> Holders(f) # {} /\ Left(t, S, f) = {}
  <2>1. f \in Files
    BY DEF Files
  <2>2. f \in Freed(t, S) <=> Refs(t, S, f) > 0 /\ Cardinality(Left(t, S, f)) <= 0
    BY <1>1, <2>1 DEF Freed
  <2>3. Cardinality(Left(t, S, f)) <= 0 <=> Left(t, S, f) = {}
    BY LeftCount, FS_EmptySet DEF TableInv
  <2>4. Refs(t, S, f) > 0 <=> \E fd \in S : fds[t][fd] = f
    BY LeftCount DEF TableInv
  <2>5. Left(t, S, f) = {} => (Holders(f) # {} <=> \E fd \in S : fds[t][fd] = f)
    <3>1. ASSUME NEW h \in Holders(f), Left(t, S, f) = {}
          PROVE  h[2] \in S /\ fds[t][h[2]] = f
      BY <3>1 DEF Left, Holders
    <3>2. ASSUME NEW fd \in S, fds[t][fd] = f
          PROVE  <<t, fd>> \in Holders(f)
      BY <3>2 DEF Holders
    <3>3. QED
      BY <3>1, <3>2
  <2>6. QED
    BY <2>2, <2>3, <2>4, <2>5
<1>3. QED
  BY <1>1, <1>2

-----------------------------------------------------------------------------
\* What closing leaves of the pipes: the one open_file of an end, when it is
\* freed, takes its flag with it, and the second one the pipe.
LEMMA PipesWhenClosed ==
  ASSUME TableInv, NEW t \in Tasks, NEW S \in SUBSET Fds, NEW next,
         ClosePlus(t, S, next)
  PROVE  PipeObjects'
<1> DEFINE F == Freed(t, S)
           ended(k) == {pipe[f] : f \in {g \in F : kind[g] = k}}
<1>1. /\ \A f \in Objs : /\ kind'[f] = IF f \in F THEN "free" ELSE kind[f]
                         /\ pipe'[f] = IF f \in F THEN Null ELSE pipe[f]
      /\ \A p \in Pipes : /\ read_open'[p] <=> read_open[p] /\ p \notin ended("rd")
                          /\ write_open'[p] <=> write_open[p] /\ p \notin ended("wr")
      /\ pipes' = {p \in pipes : p \in ended("rd") \cup ended("wr")
                                   => read_open'[p] \/ write_open'[p]}
      /\ F \subseteq Objs /\ pipes \subseteq Pipes
  BY DEF ClosePlus, Freed, Files, TableInv, TypeOK
<1>2. EndsHavePipes /\ OneFilePerEnd /\ FlagsTellEnds
  BY DEF TableInv, PipeObjects
<1> HIDE DEF F
<1>3. OneFilePerEnd'
  BY <1>1, <1>2 DEF OneFilePerEnd, Ends
<1>4. EndsHavePipes'
  <2> SUFFICES ASSUME NEW f \in Objs, kind'[f] \in Ends PROVE pipe'[f] \in pipes'
    BY DEF EndsHavePipes
  <2>1. f \notin F /\ kind[f] \in Ends /\ kind'[f] = kind[f] /\ pipe'[f] = pipe[f] /\ pipe[f] \in pipes
    BY <1>1, <1>2 DEF EndsHavePipes, Ends
  <2>2. pipe[f] \notin ended(kind[f])
    BY <1>1, <1>2, <2>1 DEF OneFilePerEnd
  <2>3. CASE kind[f] = "rd"
    BY <1>1, <1>2, <2>1, <2>2, <2>3 DEF FlagsTellEnds
  <2>4. CASE kind[f] = "wr"
    BY <1>1, <1>2, <2>1, <2>2, <2>4 DEF FlagsTellEnds
  <2>5. QED
    BY <2>1, <2>3, <2>4 DEF Ends
<1>5. FlagsTellEnds'
  <2> SUFFICES ASSUME NEW p \in pipes'
               PROVE  /\ read_open'[p] <=> \E f \in Objs : kind'[f] = "rd" /\ pipe'[f] = p
                      /\ write_open'[p] <=> \E f \in Objs : kind'[f] = "wr" /\ pipe'[f] = p
                      /\ read_open'[p] \/ write_open'[p]
    BY DEF FlagsTellEnds
  <2>1. p \in pipes /\ p \in Pipes
    BY <1>1
  <2>2. read_open'[p] \/ write_open'[p]
    BY <1>1, <1>2, <2>1 DEF FlagsTellEnds
  <2>3. read_open'[p] <=> \E f \in Objs : kind'[f] = "rd" /\ pipe'[f] = p
    <3>1. read_open[p] <=> \E f \in Objs : kind[f] = "rd" /\ pipe[f] = p
      BY <1>2, <2>1 DEF FlagsTellEnds
    <3>2. p \in ended("rd") <=> \E f \in F : kind[f] = "rd" /\ pipe[f] = p
      OBVIOUS
    <3>3. ASSUME NEW f \in Objs, NEW g \in Objs, kind[f] = "rd", pipe[f] = p,
                 kind[g] = "rd", pipe[g] = p
          PROVE  f = g
      BY <3>3, <1>2 DEF OneFilePerEnd, Ends
    <3>4. QED
      BY <1>1, <2>1, <3>1, <3>2, <3>3
  <2>4. write_open'[p] <=> \E f \in Objs : kind'[f] = "wr" /\ pipe'[f] = p
    <3>1. write_open[p] <=> \E f \in Objs : kind[f] = "wr" /\ pipe[f] = p
      BY <1>2, <2>1 DEF FlagsTellEnds
    <3>2. p \in ended("wr") <=> \E f \in F : kind[f] = "wr" /\ pipe[f] = p
      OBVIOUS
    <3>3. ASSUME NEW f \in Objs, NEW g \in Objs, kind[f] = "wr", pipe[f] = p,
                 kind[g] = "wr", pipe[g] = p
          PROVE  f = g
      BY <3>3, <1>2 DEF OneFilePerEnd, Ends
    <3>4. QED
      BY <1>1, <2>1, <3>1, <3>2, <3>3
  <2>5. QED
    BY <2>2, <2>3, <2>4
<1>6. QED
  BY <1>3, <1>4, <1>5 DEF PipeObjects

LEMMA ClosePlusTypes ==
  ASSUME TypeOK, NEW t \in Tasks, NEW S \in SUBSET Fds, NEW next, ClosePlus(t, S, next)
  PROVE  /\ kind' \in [Files -> {"free", "console", "file", "rd", "wr"}]
         /\ ref_count' \in [Files -> Int]
         /\ pipe' \in [Files -> Pipes \cup {Null}] /\ pipes' \subseteq Pipes
         /\ read_open' \in [Pipes -> BOOLEAN] /\ write_open' \in [Pipes -> BOOLEAN]
<1>1. \A f : Refs(t, S, f) \in Nat
  BY LeftCount
<1>2. ref_count' \in [Files -> Int]
  <2>1. \A f \in Files : ref_count[f] - Refs(t, S, f) + (IF f = next THEN 1 ELSE 0) \in Int
    BY <1>1 DEF TypeOK
  <2>2. QED
    BY <2>1 DEF ClosePlus
<1>3. kind' \in [Files -> {"free", "console", "file", "rd", "wr"}]
  BY DEF ClosePlus, TypeOK
<1>4. pipe' \in [Files -> Pipes \cup {Null}] /\ pipes' \subseteq Pipes
  BY DEF ClosePlus, TypeOK
<1>5. read_open' \in [Pipes -> BOOLEAN] /\ write_open' \in [Pipes -> BOOLEAN]
  BY DEF ClosePlus
<1>6. QED
  BY <1>2, <1>3, <1>4, <1>5

\* A call that closes the descriptors S of its task, and may give an
\* open_file that stays another one, h.
LEMMA ClosingKept ==
  ASSUME TableInv, NEW t \in Tasks, busy[t] = Null, NEW S \in SUBSET Fds,
         NEW next \in Files \cup {Null}, NEW h, ClosePlus(t, S, next),
         \A f \in Files : Holders(f)' = Left(t, S, f) \cup (IF f = next THEN {h} ELSE {}),
         next \in Files => h \notin Left(t, S, next) /\ Left(t, S, next) # {},
         TypeOK', OnlyTheLiveHold', busy' = busy,
         \A u \in Tasks \ {t} : fds'[u] = fds[u]
  PROVE  TableInv'
<1>1. TypeOK /\ CountsExact /\ InUseWhenHeld /\ WaitersHoldTheEnd
  BY DEF TableInv
<1>2. CountsExact'
  <2> SUFFICES ASSUME NEW f \in Files PROVE ref_count'[f] = Cardinality(Holders(f)')
    BY DEF CountsExact
  <2>1. ref_count'[f] = ref_count[f] - Refs(t, S, f) + (IF f = next THEN 1 ELSE 0)
    BY DEF ClosePlus
  <2>2. ref_count[f] - Refs(t, S, f) = Cardinality(Left(t, S, f))
    BY FreedAreUnused
  <2>3. IsFiniteSet(Left(t, S, f)) /\ Cardinality(Left(t, S, f)) \in Nat
    BY <1>1, LeftCount
  <2>4. CASE f = next
    <3>1. Cardinality(Left(t, S, f) \cup {h}) = Cardinality(Left(t, S, f)) + 1
      BY <2>3, <2>4, FS_AddElement
    <3>2. QED
      BY <2>1, <2>2, <2>4, <3>1
  <2>5. CASE f # next
    <3>1. Holders(f)' = Left(t, S, f)
      BY <2>5
    <3>2. QED
      BY <2>1, <2>2, <2>3, <2>5, <3>1
  <2>6. QED
    BY <2>4, <2>5
<1>3. \A f \in Objs : /\ kind'[f] = IF f \in Freed(t, S) THEN "free" ELSE kind[f]
                      /\ pipe'[f] = IF f \in Freed(t, S) THEN Null ELSE pipe[f]
  BY DEF ClosePlus, Files
<1>4. InUseWhenHeld'
  <2>1. kind'[Console] = "console"
    BY <1>1, ObjAssumption DEF ClosePlus, Freed, Files, InUseWhenHeld
  <2>2. ASSUME NEW f \in Objs
        PROVE  kind'[f] # "console" /\ (kind'[f] = "free" <=> Holders(f)' = {})
    <3>1. f \in Files /\ kind[f] # "console" /\ (kind[f] = "free" <=> Holders(f) = {})
      BY <1>1 DEF InUseWhenHeld, Files
    <3>2. f \in Freed(t, S) <=> Holders(f) # {} /\ Left(t, S, f) = {}
      BY FreedAreUnused
    <3>3. Holders(f) = {} => Left(t, S, f) = {}
      BY DEF Left
    <3>4. Holders(f)' = {} <=> Left(t, S, f) = {}
      BY <3>1
    <3>5. QED
      BY <1>3, <3>1, <3>2, <3>3, <3>4
  <2>3. QED
    BY <2>1, <2>2 DEF InUseWhenHeld
<1>5. PipeObjects'
  BY PipesWhenClosed
<1>6. WaitersHoldTheEnd'
  <2> SUFFICES ASSUME NEW u \in Tasks, busy[u] # Null
               PROVE  \E fd \in Fds : LET f == fds'[u][fd] IN
                        f \in Objs /\ kind'[f] \in Ends /\ pipe'[f] = busy[u]
    BY DEF WaitersHoldTheEnd
  <2>1. u # t /\ fds'[u] = fds[u]
    OBVIOUS
  <2>2. PICK fd \in Fds : LET f == fds[u][fd] IN
                            f \in Objs /\ kind[f] \in Ends /\ pipe[f] = busy[u]
    BY <1>1 DEF WaitersHoldTheEnd
  <2>3. <<u, fd>> \in Left(t, S, fds[u][fd])
    BY <2>1 DEF Left, Holders
  <2>4. fds[u][fd] \notin Freed(t, S)
    BY <2>2, <2>3, FreedAreUnused
  <2>5. QED
    BY <1>3, <2>1, <2>2, <2>4
<1>7. QED
  BY <1>2, <1>4, <1>5, <1>6 DEF TableInv

\* The same without a new descriptor.
LEMMA OnlyClosingKept ==
  ASSUME TableInv, NEW t \in Tasks, busy[t] = Null, NEW S \in SUBSET Fds,
         ClosePlus(t, S, Null), \A f \in Files : Holders(f)' = Left(t, S, f),
         TypeOK', OnlyTheLiveHold', busy' = busy,
         \A u \in Tasks \ {t} : fds'[u] = fds[u]
  PROVE  TableInv'
<1>1. Null \notin Files
  BY TableTypes DEF TableInv
<1>2. PICK next, h : next = Null /\ h = t
  OBVIOUS
<1>3. \A f \in Files : Holders(f)' = Left(t, S, f) \cup (IF f = next THEN {h} ELSE {})
  BY <1>1, <1>2
<1>4. next \in Files \cup {Null} /\ next \notin Files /\ ClosePlus(t, S, next)
  BY <1>1, <1>2
<1>5. QED
  BY <1>3, <1>4, ClosingKept

-----------------------------------------------------------------------------
LEMMA CloseKept ==
  ASSUME TableInv, NEW t \in Tasks, NEW fd \in Fds, Close(t, fd)
  PROVE  TableInv'
<1> DEFINE S == {d \in Fds : d = fd}
<1>1. /\ t \in live /\ busy[t] = Null /\ S \in SUBSET Fds /\ ClosePlus(t, S, Null)
      /\ fds' = [fds EXCEPT ![t][fd] = Null] /\ UNCHANGED <<live, unborn, busy, crashed>>
  <2>1. S = {fd}
    OBVIOUS
  <2>2. QED
    BY <2>1 DEF Close, Calls
<1>2. TypeOK /\ OnlyTheLiveHold /\ Null \notin Files
  BY TableTypes DEF TableInv
<1>3. TypeOK'
  <2>1. fds' \in [Tasks -> [Fds -> Files \cup {Null}]]
    BY <1>1, <1>2 DEF TypeOK
  <2>2. QED
    BY <1>1, <1>2, <2>1, ClosePlusTypes DEF TypeOK
<1>4. OnlyTheLiveHold'
  BY <1>1, <1>2 DEF OnlyTheLiveHold, TypeOK
<1>5. \A f \in Files : Holders(f)' = Left(t, S, f)
  <2> SUFFICES ASSUME NEW f \in Files PROVE Holders(f)' = Left(t, S, f)
    OBVIOUS
  <2>1. \A u \in Tasks, d \in Fds :
          fds'[u][d] = IF u = t /\ d = fd THEN Null ELSE fds[u][d]
    BY <1>1, <1>2 DEF TypeOK
  <2>2. QED
    BY <1>2, <2>1 DEF Holders, Left
<1>6. \A u \in Tasks \ {t} : fds'[u] = fds[u]
  BY <1>1, <1>2 DEF TypeOK
<1>7. QED
  BY <1>1, <1>2, <1>3, <1>4, <1>5, <1>6, OnlyClosingKept

LEMMA ExitKept ==
  ASSUME TableInv, NEW t \in Tasks, Exit(t)
  PROVE  TableInv'
<1> DEFINE S == {fd \in Fds : IsOpen(t, fd)}
<1>1. /\ t \in live /\ busy[t] = Null /\ S \in SUBSET Fds /\ ClosePlus(t, S, Null)
      /\ fds' = [fds EXCEPT ![t] = NoTable] /\ live' = live \ {t}
      /\ UNCHANGED <<unborn, busy, crashed>>
  BY DEF Exit, Calls
<1>2. TypeOK /\ OnlyTheLiveHold /\ Null \notin Files
  BY TableTypes DEF TableInv
<1>3. TypeOK'
  <2>1. fds' \in [Tasks -> [Fds -> Files \cup {Null}]]
    BY <1>1, <1>2 DEF TypeOK, NoTable
  <2>2. live' \subseteq Tasks /\ unborn' \subseteq Tasks \ live'
    BY <1>1, <1>2 DEF TypeOK
  <2>3. QED
    BY <1>1, <1>2, <2>1, <2>2, ClosePlusTypes DEF TypeOK
<1>4. OnlyTheLiveHold'
  BY <1>1, <1>2 DEF OnlyTheLiveHold, TypeOK, NoTable
<1>5. \A f \in Files : Holders(f)' = Left(t, S, f)
  <2> SUFFICES ASSUME NEW f \in Files PROVE Holders(f)' = Left(t, S, f)
    OBVIOUS
  <2>1. \A u \in Tasks, d \in Fds : fds'[u][d] = IF u = t THEN Null ELSE fds[u][d]
    BY <1>1, <1>2 DEF TypeOK, NoTable
  <2>2. \A d \in Fds : fds[t][d] = f => d \in S
    BY <1>2 DEF IsOpen
  <2>3. QED
    BY <1>2, <2>1, <2>2 DEF Holders, Left
<1>6. \A u \in Tasks \ {t} : fds'[u] = fds[u]
  BY <1>1, <1>2 DEF TypeOK
<1>7. QED
  BY <1>1, <1>2, <1>3, <1>4, <1>5, <1>6, OnlyClosingKept

\* dup2: the descriptor oldfd keeps its open_file in use while newfd is
\* closed, unless the two are one.
LEMMA Dup2Kept ==
  ASSUME TableInv, NEW t \in Tasks, NEW oldfd \in Fds, NEW newfd \in Fds,
         Dup2(t, oldfd, newfd)
  PROVE  TableInv'
<1> DEFINE S == {newfd} \cap {fd \in Fds : IsOpen(t, fd)}
           file == IF oldfd = newfd THEN Null ELSE fds[t][oldfd]
           h == <<t, newfd>>
<1>1. /\ t \in live /\ busy[t] = Null /\ S \in SUBSET Fds /\ ClosePlus(t, S, file)
      /\ fds' = [fds EXCEPT ![t][newfd] = file] /\ crashed' \in BOOLEAN
      /\ UNCHANGED <<live, unborn, busy>>
  BY DEF Dup2, Calls
<1>2. TypeOK /\ OnlyTheLiveHold /\ Null \notin Files
  BY TableTypes DEF TableInv
<1>3. file \in Files \cup {Null}
  BY <1>2 DEF TypeOK
<1>4. TypeOK'
  <2>1. fds' \in [Tasks -> [Fds -> Files \cup {Null}]]
    BY <1>1, <1>2, <1>3 DEF TypeOK
  <2>2. QED
    BY <1>1, <1>2, <2>1, ClosePlusTypes DEF TypeOK
<1>5. OnlyTheLiveHold'
  BY <1>1, <1>2 DEF OnlyTheLiveHold, TypeOK
<1>6. \A f \in Files : Holders(f)' = Left(t, S, f) \cup (IF f = file THEN {h} ELSE {})
  <2> SUFFICES ASSUME NEW f \in Files
               PROVE  Holders(f)' = Left(t, S, f) \cup (IF f = file THEN {h} ELSE {})
    OBVIOUS
  <2>1. \A u \in Tasks, d \in Fds :
          fds'[u][d] = IF u = t /\ d = newfd THEN file ELSE fds[u][d]
    BY <1>1, <1>2 DEF TypeOK
  <2>2. fds[t][newfd] = f => newfd \in S
    BY <1>2 DEF IsOpen
  <2> HIDE DEF S, file
  <2>3. S \subseteq {newfd}
    BY DEF S
  <2>4. QED
    BY <1>2, <2>1, <2>2, <2>3 DEF Holders, Left
<1>7. file \in Files => h \notin Left(t, S, file) /\ Left(t, S, file) # {}
  <2> SUFFICES ASSUME file \in Files
               PROVE  h \notin Left(t, S, file) /\ Left(t, S, file) # {}
    OBVIOUS
  <2>1. oldfd # newfd /\ file = fds[t][oldfd]
    BY <1>2
  <2>2. <<t, oldfd>> \in Left(t, S, file)
    BY <2>1 DEF Left, Holders
  <2>3. h \notin Left(t, S, file)
    BY <1>2, <2>1 DEF Left, Holders, IsOpen
  <2>4. QED
    BY <2>2, <2>3
<1>8. \A u \in Tasks \ {t} : fds'[u] = fds[u]
  BY <1>1, <1>2 DEF TypeOK
<1>9. QED
  <2> HIDE DEF S, file, h
  <2>1. QED
    BY <1>1, <1>2, <1>3, <1>4, <1>5, <1>6, <1>7, <1>8, ClosingKept

-----------------------------------------------------------------------------
\* find_free_fd returns a free descriptor or none.
LEMMA FreeFdIsFree ==
  ASSUME NEW table, FreeFd(table) \in Fds
  PROVE  table[FreeFd(table)] = Null
<1> DEFINE Good(fd) == /\ fd < MaxFds => table[fd] = Null
                       /\ \A d \in 0 .. fd - 1 : table[d] # Null
           S == {fd \in 0 .. MaxFds : fd = MaxFds \/ table[fd] = Null}
<1>1. MaxFds \in Nat
  BY FdAssumption
<1>2. S \in SUBSET Nat /\ MaxFds \in S
  BY <1>1
<1>3. PICK least \in S : \A j \in S : least <= j
  BY <1>2, LeastSteps
<1>4. least \in 0 .. MaxFds /\ Good(least)
  <2>1. least \in 0 .. MaxFds /\ (least = MaxFds \/ table[least] = Null)
    OBVIOUS
  <2>2. ASSUME NEW d \in 0 .. least - 1, table[d] = Null PROVE FALSE
    <3>1. d \in S /\ d < least
      BY <1>1, <2>1, <2>2
    <3>2. QED
      BY <1>1, <1>3, <2>1, <3>1
  <2>3. QED
    BY <1>1, <2>1, <2>2
<1>5. FreeFd(table) = CHOOSE fd \in 0 .. MaxFds : Good(fd)
  BY DEF FreeFd
<1> HIDE DEF Good
<1>6. Good(FreeFd(table))
  BY <1>4, <1>5
<1>7. FreeFd(table) < MaxFds
  BY <1>1 DEF Fds
<1>8. QED
  BY <1>6, <1>7 DEF Good

LEMMA OpenKept ==
  ASSUME TableInv, NEW t \in Tasks, Open(t)
  PROVE  TableInv'
<1> DEFINE fd == FreeFd(fds[t])
<1>1. fd \in Fds /\ fds[t][fd] = Null /\ t \in live /\ busy[t] = Null
  BY FreeFdIsFree DEF Open, Calls
<1>2. PICK f \in Objs :
        /\ kind[f] = "free"
        /\ kind' = [kind EXCEPT ![f] = "file"]
        /\ ref_count' = [ref_count EXCEPT ![f] = 1]
        /\ fds' = [fds EXCEPT ![t][fd] = f]
  BY DEF Open
<1>3. UNCHANGED <<live, unborn, pipe, pipes, read_open, write_open, busy, crashed>>
  BY DEF Open
<1> HIDE DEF fd
<1>4. /\ TypeOK /\ CountsExact /\ InUseWhenHeld /\ OnlyTheLiveHold
      /\ PipeObjects /\ WaitersHoldTheEnd /\ Null \notin Files /\ f \in Files
  BY TableTypes DEF TableInv, Files
<1>5. TypeOK'
  BY <1>1, <1>2, <1>3, <1>4 DEF TypeOK
<1>6. \A u \in Tasks, d \in Fds :
        fds'[u][d] = IF u = t /\ d = fd THEN f ELSE fds[u][d]
  BY <1>1, <1>2, <1>4 DEF TypeOK
<1>7. /\ Holders(f) = {} /\ Holders(f)' = {<<t, fd>>}
      /\ \A g \in Files \ {f} : Holders(g)' = Holders(g)
  <2>1. Holders(f) = {}
    BY <1>2, <1>4 DEF InUseWhenHeld
  <2>2. \A g : Holders(g)' = {h \in Tasks \X Fds : fds'[h[1]][h[2]] = g}
    BY DEF Holders
  <2>3. Holders(f)' = {<<t, fd>>}
    BY <1>1, <1>6, <2>1, <2>2 DEF Holders
  <2>4. \A g \in Files \ {f} : Holders(g)' = Holders(g)
    BY <1>1, <1>4, <1>6, <2>2 DEF Holders
  <2>5. QED
    BY <2>1, <2>3, <2>4
<1>8. CountsExact'
  <2>1. Cardinality({<<t, fd>>}) = 1
    BY FS_Singleton
  <2>2. QED
    BY <1>2, <1>4, <1>7, <2>1 DEF CountsExact, TypeOK
<1>9. \A g \in Files : kind'[g] = IF g = f THEN "file" ELSE kind[g]
  BY <1>2, <1>4 DEF TypeOK
<1>10. InUseWhenHeld'
  BY <1>4, <1>7, <1>9, ObjAssumption DEF InUseWhenHeld, Files
<1>11. OnlyTheLiveHold'
  BY <1>1, <1>3, <1>4, <1>6 DEF OnlyTheLiveHold
<1>12. \A g \in Objs, k \in Ends : kind'[g] = k <=> kind[g] = k
  BY <1>2, <1>9 DEF Ends, Files
<1>13. PipeObjects'
  <2>1. EndsHavePipes' /\ OneFilePerEnd'
    BY <1>3, <1>4, <1>12 DEF PipeObjects, EndsHavePipes, OneFilePerEnd, Ends
  <2>2. FlagsTellEnds'
    BY <1>3, <1>4, <1>12 DEF PipeObjects, FlagsTellEnds, Ends
  <2>3. QED
    BY <2>1, <2>2 DEF PipeObjects
<1>14. WaitersHoldTheEnd'
  BY <1>1, <1>3, <1>4, <1>6, <1>12 DEF WaitersHoldTheEnd, Ends, Files
<1>15. QED
  BY <1>5, <1>8, <1>10, <1>11, <1>13, <1>14 DEF TableInv

LEMMA PipeKept ==
  ASSUME TableInv, NEW t \in Tasks, Pipe(t)
  PROVE  TableInv'
<1> DEFINE rfd == FreeFd(fds[t])
           dummy == [fds[t] EXCEPT ![rfd] = Console]
           wfd == FreeFd(dummy)
<1>1. /\ TypeOK /\ CountsExact /\ InUseWhenHeld /\ OnlyTheLiveHold
      /\ PipeObjects /\ WaitersHoldTheEnd /\ Null \notin Files /\ Objs \subseteq Files
  BY TableTypes DEF TableInv, Files
<1>2. /\ rfd \in Fds /\ wfd \in Fds /\ rfd # wfd
      /\ fds[t][rfd] = Null /\ fds[t][wfd] = Null
      /\ t \in live /\ busy[t] = Null
  <2>1. rfd \in Fds /\ wfd \in Fds /\ t \in live /\ busy[t] = Null
    BY DEF Pipe, Calls
  <2>2. fds[t][rfd] = Null /\ dummy[wfd] = Null
    BY <2>1, FreeFdIsFree
  <2>3. dummy[rfd] = Console /\ Console # Null
    BY <1>1, <2>1 DEF TypeOK, Files
  <2>4. dummy[wfd] = fds[t][wfd]
    BY <1>1, <2>1, <2>2, <2>3 DEF TypeOK
  <2>5. QED
    BY <2>1, <2>2, <2>3, <2>4
<1>3. PICK p \in Pipes \ pipes, rf \in Objs, wf \in Objs :
        /\ rf # wf /\ kind[rf] = "free" /\ kind[wf] = "free"
        /\ kind' = [kind EXCEPT ![rf] = "rd", ![wf] = "wr"]
        /\ ref_count' = [ref_count EXCEPT ![rf] = 1, ![wf] = 1]
        /\ pipe' = [pipe EXCEPT ![rf] = p, ![wf] = p]
        /\ pipes' = pipes \cup {p}
        /\ read_open' = [read_open EXCEPT ![p] = TRUE]
        /\ write_open' = [write_open EXCEPT ![p] = TRUE]
        /\ fds' = [fds EXCEPT ![t][rfd] = rf, ![t][wfd] = wf]
  BY DEF Pipe
<1>4. UNCHANGED <<live, unborn, busy, crashed>>
  BY DEF Pipe
<1> HIDE DEF rfd, wfd
<1>5. \A u \in Tasks, d \in Fds :
        fds'[u][d] = IF u = t /\ d = rfd THEN rf
                     ELSE IF u = t /\ d = wfd THEN wf ELSE fds[u][d]
  BY <1>1, <1>2, <1>3 DEF TypeOK
<1>6. TypeOK'
  <2>1. fds' \in [Tasks -> [Fds -> Files \cup {Null}]]
    BY <1>1, <1>2, <1>3 DEF TypeOK
  <2>2. /\ kind' \in [Files -> {"free", "console", "file", "rd", "wr"}]
        /\ ref_count' \in [Files -> Int] /\ pipe' \in [Files -> Pipes \cup {Null}]
    BY <1>1, <1>3 DEF TypeOK
  <2>3. QED
    BY <1>1, <1>3, <1>4, <2>1, <2>2 DEF TypeOK
<1>7. /\ Holders(rf)' = {<<t, rfd>>} /\ Holders(wf)' = {<<t, wfd>>}
      /\ \A g \in Files \ {rf, wf} : Holders(g)' = Holders(g)
  <2>1. \A u \in Tasks, d \in Fds : fds[u][d] \notin {rf, wf}
    <3>1. Holders(rf) = {} /\ Holders(wf) = {}
      BY <1>1, <1>3 DEF InUseWhenHeld
    <3>2. \A u \in Tasks, d \in Fds : <<u, d>> \in Holders(fds[u][d])
      BY DEF Holders
    <3>3. QED
      BY <3>1, <3>2
  <2>2. \A g : Holders(g)' = {h \in Tasks \X Fds : fds'[h[1]][h[2]] = g}
    BY DEF Holders
  <2>3. Holders(rf)' = {<<t, rfd>>}
    <3>1. ASSUME NEW u \in Tasks, NEW d \in Fds
          PROVE  fds'[u][d] = rf <=> u = t /\ d = rfd
      <4>1. fds[u][d] # rf /\ fds[u][d] # wf /\ rf # wf /\ rfd # wfd
        BY <1>2, <1>3, <2>1
      <4>2. fds'[u][d] = IF u = t /\ d = rfd THEN rf
                         ELSE IF u = t /\ d = wfd THEN wf ELSE fds[u][d]
        BY <1>5
      <4>3. QED
        BY <4>1, <4>2
    <3>2. QED
      BY <1>2, <2>2, <3>1
  <2>4. Holders(wf)' = {<<t, wfd>>}
    <3>1. ASSUME NEW u \in Tasks, NEW d \in Fds
          PROVE  fds'[u][d] = wf <=> u = t /\ d = wfd
      <4>1. fds[u][d] # rf /\ fds[u][d] # wf /\ rf # wf /\ rfd # wfd
        BY <1>2, <1>3, <2>1
      <4>2. fds'[u][d] = IF u = t /\ d = rfd THEN rf
                         ELSE IF u = t /\ d = wfd THEN wf ELSE fds[u][d]
        BY <1>5
      <4>3. QED
        BY <4>1, <4>2
    <3>2. QED
      BY <1>2, <2>2, <3>1
  <2>5. \A g \in Files \ {rf, wf} : Holders(g)' = Holders(g)
    BY <1>1, <1>2, <1>5, <2>2 DEF Holders
  <2>6. QED
    BY <2>3, <2>4, <2>5
<1>8. CountsExact'
  <2>1. Cardinality({<<t, rfd>>}) = 1 /\ Cardinality({<<t, wfd>>}) = 1
    BY FS_Singleton
  <2>2. QED
    BY <1>1, <1>3, <1>7, <2>1 DEF CountsExact, TypeOK
<1>9. \A g \in Files :
        /\ kind'[g] = IF g = rf THEN "rd" ELSE IF g = wf THEN "wr" ELSE kind[g]
        /\ pipe'[g] = IF g \in {rf, wf} THEN p ELSE pipe[g]
  BY <1>1, <1>3 DEF TypeOK
<1>10. InUseWhenHeld'
  <2>1. kind'[Console] = "console"
    BY <1>1, <1>9, ObjAssumption DEF InUseWhenHeld, Files
  <2>2. \A f \in Objs : kind'[f] # "console" /\ (kind'[f] = "free" <=> Holders(f)' = {})
    BY <1>1, <1>7, <1>9 DEF InUseWhenHeld
  <2>3. QED
    BY <2>1, <2>2 DEF InUseWhenHeld
<1>11. OnlyTheLiveHold'
  BY <1>1, <1>2, <1>4, <1>5 DEF OnlyTheLiveHold
<1>12. \A f \in Objs : kind[f] \in Ends => f \notin {rf, wf} /\ pipe[f] \in pipes /\ pipe[f] # p
  BY <1>1, <1>3 DEF PipeObjects, EndsHavePipes, Ends
<1>13. \A f \in Objs : kind'[f] \in Ends =>
         IF f \in {rf, wf} THEN pipe'[f] = p
         ELSE /\ kind'[f] = kind[f] /\ pipe'[f] = pipe[f]
              /\ pipe'[f] \in pipes /\ pipe'[f] # p
  BY <1>1, <1>9, <1>12
<1>14. EndsHavePipes' /\ OneFilePerEnd'
  <2>1. ASSUME NEW f \in Objs, kind'[f] \in Ends
        PROVE  pipe'[f] \in pipes'
    <3>1. pipe'[f] = p \/ pipe'[f] \in pipes
      BY <1>13, <2>1
    <3>2. pipes' = pipes \cup {p}
      BY <1>3
    <3>3. QED
      BY <3>1, <3>2
  <2>2. ASSUME NEW f \in Objs, NEW g \in Objs, kind'[f] \in Ends,
               kind'[f] = kind'[g], pipe'[f] = pipe'[g]
        PROVE  f = g
    <3>1. f \in {rf, wf} <=> g \in {rf, wf}
      BY <1>13, <2>2
    <3>2. CASE f \in {rf, wf} /\ g \in {rf, wf}
      BY <1>1, <1>3, <1>9, <2>2, <3>2
    <3>3. CASE f \notin {rf, wf} /\ g \notin {rf, wf}
      BY <1>1, <1>13, <2>2, <3>3 DEF PipeObjects, OneFilePerEnd
    <3>4. QED
      BY <3>1, <3>2, <3>3
  <2>3. QED
    BY <2>1, <2>2 DEF EndsHavePipes, OneFilePerEnd
<1>15. FlagsTellEnds'
  <2> SUFFICES ASSUME NEW q \in pipes'
               PROVE  /\ read_open'[q] <=> \E f \in Objs : kind'[f] = "rd" /\ pipe'[f] = q
                      /\ write_open'[q] <=> \E f \in Objs : kind'[f] = "wr" /\ pipe'[f] = q
                      /\ read_open'[q] \/ write_open'[q]
    BY DEF FlagsTellEnds
  <2>1. CASE q = p
    BY <1>1, <1>3, <1>9, <2>1 DEF TypeOK
  <2>2. CASE q # p
    <3>1. q \in pipes /\ q \in Pipes
      BY <1>1, <1>3, <2>2 DEF TypeOK
    <3>2. read_open'[q] = read_open[q] /\ write_open'[q] = write_open[q]
      BY <1>1, <1>3, <2>2, <3>1 DEF TypeOK
    <3>3. \A f \in Objs, k \in Ends :
            kind'[f] = k /\ pipe'[f] = q <=> kind[f] = k /\ pipe[f] = q
      BY <1>1, <1>3, <1>9, <1>12, <2>2 DEF Ends
    <3>4. QED
      BY <1>1, <3>1, <3>2, <3>3 DEF PipeObjects, FlagsTellEnds, Ends
  <2>3. QED
    BY <2>1, <2>2
<1>16. WaitersHoldTheEnd'
  <2> SUFFICES ASSUME NEW u \in Tasks, busy[u] # Null
               PROVE  \E fd \in Fds : LET f == fds'[u][fd] IN
                        f \in Objs /\ kind'[f] \in Ends /\ pipe'[f] = busy[u]
    BY <1>4 DEF WaitersHoldTheEnd
  <2>1. PICK fd \in Fds : LET f == fds[u][fd] IN
                            f \in Objs /\ kind[f] \in Ends /\ pipe[f] = busy[u]
    BY <1>1 DEF WaitersHoldTheEnd
  <2>2. u # t /\ fds'[u][fd] = fds[u][fd]
    BY <1>2, <1>5
  <2>3. QED
    BY <1>1, <1>9, <1>12, <2>1, <2>2
<1>17. QED
  BY <1>6, <1>8, <1>10, <1>11, <1>14, <1>15, <1>16 DEF TableInv, PipeObjects

-----------------------------------------------------------------------------
\* A new task's table adds the descriptors D of it to those of f.
LEMMA RowCount ==
  ASSUME TypeOK, NEW child \in Tasks, NEW D \in SUBSET Fds, NEW f,
         \A fd \in Fds : fds[child][fd] # f
  PROVE  Cardinality(Holders(f) \cup ({child} \X D)) = Cardinality(Holders(f)) + Cardinality(D)
<1> DEFINE G == {child} \X D
<1>1. Holders(f) \in SUBSET (Tasks \X Fds)
  BY DEF Holders
<1>2. IsFiniteSet(Holders(f)) /\ IsFiniteSet(D)
  BY <1>1, TableTypes, FS_Subset
<1>3. IsFiniteSet({child}) /\ Cardinality({child}) = 1 /\ Cardinality(D) \in Nat
  BY <1>2, FS_Singleton, FS_CardinalityType
<1>4. IsFiniteSet(G) /\ Cardinality(G) = 1 * Cardinality(D)
  BY <1>2, <1>3, FS_Product
<1>5. Holders(f) \cap G = {}
  BY DEF Holders
<1>6. Cardinality(Holders(f) \cup G) = Cardinality(Holders(f)) + Cardinality(G) - 0
  BY <1>2, <1>4, <1>5, FS_Union, FS_EmptySet
<1>7. Cardinality(Holders(f)) \in Nat
  BY <1>2, FS_CardinalityType
<1>8. QED
  BY <1>3, <1>4, <1>6, <1>7

\* A call that gives a new task the table T and counts its references.
LEMMA BirthKept ==
  ASSUME TableInv, NEW child \in unborn, NEW T \in [Fds -> Files \cup {Null}],
         fds' = [fds EXCEPT ![child] = T],
         ref_count' \in [Files -> Int],
         \A f \in Files :
           ref_count'[f] = ref_count[f] + Cardinality({fd \in Fds : T[fd] = f}),
         \A f \in Objs : Holders(f) = {} => \A fd \in Fds : T[fd] # f,
         live' = live \cup {child}, unborn' = unborn \ {child},
         UNCHANGED <<kind, pipe, pipes, read_open, write_open, busy, crashed>>
  PROVE  TableInv'
<1>1. /\ TypeOK /\ CountsExact /\ InUseWhenHeld /\ OnlyTheLiveHold
      /\ PipeObjects /\ WaitersHoldTheEnd /\ Null \notin Files /\ Objs \subseteq Files
  BY TableTypes DEF TableInv, Files
<1>2. /\ child \in Tasks \ live /\ busy[child] = Null
      /\ \A fd \in Fds : fds[child][fd] = Null
  BY <1>1 DEF TypeOK, OnlyTheLiveHold
<1>3. TypeOK'
  BY <1>1, <1>2 DEF TypeOK
<1>4. \A u \in Tasks, d \in Fds : fds'[u][d] = IF u = child THEN T[d] ELSE fds[u][d]
  BY <1>1, <1>2 DEF TypeOK
<1>5. ASSUME NEW f \in Files
      PROVE  Holders(f)' = Holders(f) \cup ({child} \X {fd \in Fds : T[fd] = f})
  <2>1. Holders(f)' = {h \in Tasks \X Fds : fds'[h[1]][h[2]] = f}
    BY DEF Holders
  <2>2. QED
    BY <1>1, <1>2, <1>4, <2>1 DEF Holders
<1>6. CountsExact'
  <2> SUFFICES ASSUME NEW f \in Files PROVE ref_count'[f] = Cardinality(Holders(f)')
    BY DEF CountsExact
  <2>1. {fd \in Fds : T[fd] = f} \in SUBSET Fds /\ \A fd \in Fds : fds[child][fd] # f
    BY <1>1, <1>2
  <2>2. Cardinality(Holders(f)') = Cardinality(Holders(f)) + Cardinality({fd \in Fds : T[fd] = f})
    BY <1>1, <1>2, <1>5, <2>1, RowCount
  <2>3. QED
    BY <1>1, <2>2 DEF CountsExact
<1>7. InUseWhenHeld'
  BY <1>1, <1>5 DEF InUseWhenHeld
<1>8. OnlyTheLiveHold'
  BY <1>1, <1>2, <1>4 DEF OnlyTheLiveHold
<1>9. PipeObjects'
  BY <1>1 DEF PipeObjects, EndsHavePipes, OneFilePerEnd, FlagsTellEnds
<1>10. WaitersHoldTheEnd'
  BY <1>1, <1>2, <1>4 DEF WaitersHoldTheEnd
<1>11. QED
  BY <1>3, <1>6, <1>7, <1>8, <1>9, <1>10 DEF TableInv

LEMMA ForkKept ==
  ASSUME TableInv, NEW t \in Tasks, NEW child \in Tasks, Fork(t, child)
  PROVE  TableInv'
<1>1. /\ TypeOK /\ child \in unborn /\ fds[t] \in [Fds -> Files \cup {Null}]
      /\ fds' = [fds EXCEPT ![child] = fds[t]]
      /\ live' = live \cup {child} /\ unborn' = unborn \ {child}
      /\ UNCHANGED <<kind, pipe, pipes, read_open, write_open, busy, crashed>>
  BY DEF Fork, TableInv, TypeOK
<1>2. ref_count' = [f \in Files |-> ref_count[f] + Refs(t, Fds, f)]
  BY DEF Fork
<1>3. ref_count' \in [Files -> Int]
  <2>1. \A f \in Files : Refs(t, Fds, f) \in Nat
    <3>1. Fds \in SUBSET Fds
      OBVIOUS
    <3>2. QED
      BY <1>1, <3>1, LeftCount
  <2>2. QED
    BY <1>1, <1>2, <2>1 DEF TypeOK
<1>4. \A f \in Files :
        ref_count'[f] = ref_count[f] + Cardinality({fd \in Fds : fds[t][fd] = f})
  BY <1>2 DEF Refs
<1>5. \A f \in Objs : Holders(f) = {} => \A fd \in Fds : fds[t][fd] # f
  <2>1. \A fd \in Fds : <<t, fd>> \in Holders(fds[t][fd])
    BY DEF Holders
  <2>2. QED
    BY <2>1
<1>6. QED
  BY <1>1, <1>3, <1>4, <1>5, BirthKept

LEMMA StdCount ==
  /\ NewTable \in [Fds -> Files \cup {Null}]
  /\ \A f \in Objs, fd \in Fds : NewTable[fd] # f
  /\ \A f \in Files :
       Cardinality({fd \in Fds : NewTable[fd] = f}) = IF f = Console THEN StdFds ELSE 0
<1>1. MaxFds \in Nat /\ StdFds \in 0 .. MaxFds /\ Console # Null /\ Console \notin Objs
  BY FdAssumption, ObjAssumption
<1>2. NewTable \in [Fds -> Files \cup {Null}] /\ \A f \in Objs, fd \in Fds : NewTable[fd] # f
  BY <1>1, ObjAssumption DEF NewTable, Files
<1>3. {fd \in Fds : NewTable[fd] = Console} = 0 .. StdFds - 1
  BY <1>1, ObjAssumption DEF NewTable, Fds
<1>4. Cardinality(0 .. StdFds - 1) = StdFds
  <2>1. StdFds \in Nat /\ 0 \in Int /\ StdFds - 1 \in Int
    BY <1>1
  <2>2. Cardinality(0 .. StdFds - 1) = IF 0 > StdFds - 1 THEN 0 ELSE StdFds - 1 - 0 + 1
    BY <2>1, FS_Interval
  <2>3. QED
    BY <2>1, <2>2
<1>5. ASSUME NEW f \in Objs
      PROVE  Cardinality({fd \in Fds : NewTable[fd] = f}) = 0
  <2>1. {fd \in Fds : NewTable[fd] = f} = {}
    BY <1>2
  <2>2. QED
    BY <2>1, FS_EmptySet
<1>6. QED
  BY <1>1, <1>2, <1>3, <1>4, <1>5 DEF Files

LEMMA ExecKept ==
  ASSUME TableInv, NEW t \in Tasks, NEW child \in Tasks, Exec(t, child)
  PROVE  TableInv'
<1>1. /\ TypeOK /\ child \in unborn
      /\ fds' = [fds EXCEPT ![child] = NewTable]
      /\ ref_count' = [ref_count EXCEPT ![Console] = @ + StdFds]
      /\ live' = live \cup {child} /\ unborn' = unborn \ {child}
      /\ UNCHANGED <<kind, pipe, pipes, read_open, write_open, busy, crashed>>
  BY DEF Exec, TableInv
<1>2. StdFds \in Nat /\ ref_count \in [Files -> Int] /\ Console \in Files
  BY <1>1, FdAssumption DEF TypeOK, Files
<1>3. ref_count' \in [Files -> Int]
  BY <1>1, <1>2
<1>4. \A f \in Files :
        ref_count'[f] = ref_count[f] + Cardinality({fd \in Fds : NewTable[fd] = f})
  BY <1>1, <1>2, StdCount
<1>5. QED
  BY <1>1, <1>3, <1>4, StdCount, BirthKept

\* A reader or writer holds its descriptor when it begins to wait, and its
\* table is left alone until it has ended.
LEMMA WaitKept ==
  ASSUME TableInv, NEW t \in Tasks,
         EndWait(t) \/ \E fd \in Fds : StartWait(t, fd)
  PROVE  TableInv'
<1>1. /\ TypeOK /\ CountsExact /\ InUseWhenHeld /\ OnlyTheLiveHold
      /\ PipeObjects /\ WaitersHoldTheEnd
  BY DEF TableInv
<1>2. UNCHANGED <<fds, live, unborn, kind, ref_count, pipe, pipes, read_open,
                  write_open, crashed>>
  BY DEF EndWait, StartWait, objvars
<1>3. CountsExact' /\ InUseWhenHeld' /\ PipeObjects'
  BY <1>1, <1>2 DEF CountsExact, InUseWhenHeld, Holders, PipeObjects, EndsHavePipes,
       OneFilePerEnd, FlagsTellEnds
<1>4. CASE EndWait(t)
  <2>1. busy' = [busy EXCEPT ![t] = Null]
    BY <1>4 DEF EndWait
  <2>2. TypeOK' /\ OnlyTheLiveHold' /\ WaitersHoldTheEnd'
    BY <1>1, <1>2, <2>1 DEF TypeOK, OnlyTheLiveHold, WaitersHoldTheEnd
  <2>3. QED
    BY <1>3, <2>2 DEF TableInv
<1>5. ASSUME NEW fd \in Fds, StartWait(t, fd) PROVE TableInv'
  <2>1. /\ t \in live /\ fds[t][fd] # Null /\ kind[fds[t][fd]] \in Ends
        /\ busy' = [busy EXCEPT ![t] = pipe[fds[t][fd]]]
    BY <1>5 DEF StartWait, Calls, IsOpen, Ends
  <2>2. fds[t][fd] \in Objs
    BY <1>1, <2>1 DEF TypeOK, Files, InUseWhenHeld, Ends
  <2>3. pipe[fds[t][fd]] \in Pipes
    BY <1>1, <2>1, <2>2 DEF PipeObjects, EndsHavePipes, TypeOK
  <2>4. TypeOK' /\ OnlyTheLiveHold'
    BY <1>1, <1>2, <2>1, <2>3 DEF TypeOK, OnlyTheLiveHold
  <2>5. WaitersHoldTheEnd'
    BY <1>1, <1>2, <2>1, <2>2 DEF TypeOK, WaitersHoldTheEnd
  <2>6. QED
    BY <1>3, <2>4, <2>5 DEF TableInv
<1>6. QED
  BY <1>4, <1>5

LEMMA InitHolds == Init => TableInv
<1> SUFFICES ASSUME Init PROVE TableInv
  OBVIOUS
<1>1. PICK shell \in Tasks :
        /\ live = {shell} /\ unborn = Tasks \ {shell}
        /\ fds = [t \in Tasks |-> IF t = shell THEN NewTable ELSE NoTable]
  BY DEF Init
<1>2. /\ kind = [f \in Files |-> IF f = Console THEN "console" ELSE "free"]
      /\ ref_count = [f \in Files |-> IF f = Console THEN StdFds ELSE 0]
      /\ pipe = [f \in Files |-> Null] /\ pipes = {}
      /\ read_open = [p \in Pipes |-> FALSE] /\ write_open = [p \in Pipes |-> FALSE]
      /\ busy = [t \in Tasks |-> Null] /\ crashed = FALSE
  BY DEF Init
<1>3. Console \in Files /\ Console \notin Objs /\ Null \notin Files /\ StdFds \in Nat
  BY ObjAssumption, FdAssumption DEF Files
<1>4. TypeOK
  <2>1. fds \in [Tasks -> [Fds -> Files \cup {Null}]]
    BY <1>1, StdCount DEF NoTable
  <2>2. ref_count \in [Files -> Int]
    BY <1>2, <1>3
  <2>3. QED
    BY <1>1, <1>2, <2>1, <2>2 DEF TypeOK
<1>5. ASSUME NEW f \in Files
      PROVE  Holders(f) = {shell} \X {fd \in Fds : NewTable[fd] = f}
  <2>1. \A u \in Tasks, d \in Fds :
          fds[u][d] = IF u = shell THEN NewTable[d] ELSE Null
    BY <1>1 DEF NoTable
  <2>2. QED
    BY <1>3, <2>1 DEF Holders
<1>6. CountsExact
  <2> SUFFICES ASSUME NEW f \in Files PROVE ref_count[f] = Cardinality(Holders(f))
    BY DEF CountsExact
  <2> DEFINE D == {fd \in Fds : NewTable[fd] = f}
  <2>1. Cardinality(D) = ref_count[f] /\ Cardinality(D) \in Nat
    BY <1>2, <1>3, StdCount
  <2>2. IsFiniteSet(D) /\ IsFiniteSet({shell}) /\ Cardinality({shell}) = 1
    <3>1. D \in SUBSET Fds
      OBVIOUS
    <3>2. QED
      BY <1>4, <3>1, TableTypes, FS_Subset, FS_Singleton
  <2>3. Cardinality({shell} \X D) = 1 * Cardinality(D)
    BY <2>2, FS_Product
  <2>4. Holders(f) = {shell} \X D
    BY <1>5
  <2> HIDE DEF D
  <2>5. QED
    BY <2>1, <2>3, <2>4
<1>7. InUseWhenHeld
  <2>1. \A f \in Objs : f \in Files /\ {fd \in Fds : NewTable[fd] = f} = {}
    BY StdCount DEF Files
  <2>2. QED
    BY <1>2, <1>3, <1>5, <2>1 DEF InUseWhenHeld
<1>8. OnlyTheLiveHold
  BY <1>1, <1>2 DEF OnlyTheLiveHold, NoTable
<1>9. PipeObjects /\ WaitersHoldTheEnd
  BY <1>2, <1>3 DEF PipeObjects, EndsHavePipes, OneFilePerEnd, FlagsTellEnds,
       WaitersHoldTheEnd, Ends, Files
<1>10. QED
  BY <1>4, <1>6, <1>7, <1>8, <1>9 DEF TableInv

-----------------------------------------------------------------------------
\* The invariant of the descriptor tables, of which the properties follow.
THEOREM TablesAgree == Spec => []TableInv
<1>1. TableInv /\ [Next]_vars => TableInv'
  <2> SUFFICES ASSUME TableInv, [Next]_vars PROVE TableInv'
    OBVIOUS
  <2>1. ASSUME NEW t \in Tasks, NEW fd \in Fds, Close(t, fd) PROVE TableInv'
    BY <2>1, CloseKept
  <2>2. ASSUME NEW t \in Tasks, Open(t) PROVE TableInv'
    BY <2>2, OpenKept
  <2>3. ASSUME NEW t \in Tasks, Pipe(t) PROVE TableInv'
    BY <2>3, PipeKept
  <2>4. ASSUME NEW t \in Tasks, Exit(t) PROVE TableInv'
    BY <2>4, ExitKept
  <2>5. ASSUME NEW t \in Tasks, NEW oldfd \in Fds, NEW newfd \in Fds,
               Dup2(t, oldfd, newfd)
        PROVE  TableInv'
    BY <2>5, Dup2Kept
  <2>6. ASSUME NEW t \in Tasks, NEW child \in Tasks, Fork(t, child) PROVE TableInv'
    BY <2>6, ForkKept
  <2>7. ASSUME NEW t \in Tasks, NEW child \in Tasks, Exec(t, child) PROVE TableInv'
    BY <2>7, ExecKept
  <2>8. ASSUME NEW t \in Tasks, EndWait(t) \/ \E fd \in Fds : StartWait(t, fd)
        PROVE  TableInv'
    BY <2>8, WaitKept
  <2>9. CASE UNCHANGED vars
    BY <2>9 DEF vars, TableInv, TypeOK, CountsExact, InUseWhenHeld, OnlyTheLiveHold,
         PipeObjects, EndsHavePipes, OneFilePerEnd, FlagsTellEnds, WaitersHoldTheEnd,
         Holders
  <2>10. QED
    BY <2>1, <2>2, <2>3, <2>4, <2>5, <2>6, <2>7, <2>8, <2>9 DEF Next
<1>2. QED
  BY InitHolds, <1>1, PTL DEF Spec

\* The tables, open files and pipes stay in their types through every call.
THEOREM TypeCorrect == Spec => []TypeOK
<1>1. TableInv => TypeOK
  BY DEF TableInv
<1>2. QED
  BY TablesAgree, <1>1, PTL

\* Every reference count of fd.c is the number of descriptors that refer to
\* the open_file, and no open_file or pipe is leaked.
THEOREM CountsAreExact == Spec => []RefCountsExact
<1>1. TableInv => RefCountsExact
  <2> SUFFICES ASSUME TableInv PROVE RefCountsExact
    OBVIOUS
  <2>1. \A f \in Objs : kind[f] # "free" => Holders(f) # {}
    BY DEF TableInv, InUseWhenHeld
  <2>2. \A p \in pipes : \E f \in Objs : kind[f] \in {"rd", "wr"} /\ pipe[f] = p
    BY DEF TableInv, PipeObjects, FlagsTellEnds
  <2>3. QED
    BY <2>1, <2>2 DEF TableInv, CountsExact, RefCountsExact
<1>2. QED
  BY TablesAgree, <1>1, PTL

\* A descriptor refers to an open_file in use, a pipe end to an allocated
\* pipe, and the pointer that a waiting task has kept still leads to one.
THEOREM NothingDangles == Spec => []NoDangling
<1>1. TableInv => NoDangling
  <2> SUFFICES ASSUME TableInv PROVE NoDangling
    OBVIOUS
  <2>1. TypeOK /\ InUseWhenHeld /\ EndsHavePipes /\ WaitersHoldTheEnd
    BY DEF TableInv, PipeObjects
  <2>2. ASSUME NEW t \in Tasks, NEW fd \in Fds, fds[t][fd] # Null
        PROVE  /\ kind[fds[t][fd]] # "free"
               /\ kind[fds[t][fd]] \in {"rd", "wr"} => pipe[fds[t][fd]] \in pipes
    <3>1. <<t, fd>> \in Holders(fds[t][fd]) /\ fds[t][fd] \in Objs \cup {Console}
      BY <2>1, <2>2 DEF Holders, TypeOK, Files
    <3>2. CASE fds[t][fd] = Console
      BY <2>1, <3>2 DEF InUseWhenHeld
    <3>3. CASE fds[t][fd] \in Objs
      BY <2>1, <3>1, <3>3 DEF InUseWhenHeld, EndsHavePipes, Ends
    <3>4. QED
      BY <3>1, <3>2, <3>3
  <2>3. \A t \in Tasks : busy[t] # Null => busy[t] \in pipes
    BY <2>1 DEF WaitersHoldTheEnd, EndsHavePipes
  <2>4. QED
    BY <2>2, <2>3 DEF NoDangling, IsOpen
<1>2. QED
  BY TablesAgree, <1>1, PTL

\* read_open and write_open, which the waiting loops test, tell whether
\* somebody has a descriptor of that end.
THEOREM FlagsAreTrue == Spec => []EndsAreTrue
<1>1. TableInv => EndsAreTrue
  <2> SUFFICES ASSUME TableInv PROVE EndsAreTrue
    OBVIOUS
  <2>1. TypeOK /\ InUseWhenHeld /\ FlagsTellEnds
    BY DEF TableInv, PipeObjects
  <2>2. ASSUME NEW p \in pipes, NEW k \in Ends
        PROVE  (\E f \in Objs : kind[f] = k /\ pipe[f] = p) <=>
                 \E t \in Tasks, fd \in Fds :
                   IsOpen(t, fd) /\ kind[fds[t][fd]] = k /\ pipe[fds[t][fd]] = p
    <3>1. ASSUME NEW f \in Objs, kind[f] = k
          PROVE  \E t \in Tasks, fd \in Fds : IsOpen(t, fd) /\ fds[t][fd] = f
      <4>1. PICK h \in Holders(f) : TRUE
        BY <2>1, <3>1 DEF InUseWhenHeld, Ends
      <4>2. h[1] \in Tasks /\ h[2] \in Fds /\ fds[h[1]][h[2]] = f /\ f # Null
        BY <4>1, ObjAssumption DEF Holders
      <4>3. QED
        BY <4>2 DEF IsOpen
    <3>2. ASSUME NEW t \in Tasks, NEW fd \in Fds, IsOpen(t, fd), kind[fds[t][fd]] = k
          PROVE  fds[t][fd] \in Objs
      BY <2>1, <3>2 DEF IsOpen, TypeOK, Files, InUseWhenHeld, Ends
    <3>3. QED
      BY <3>1, <3>2
  <2>3. QED
    BY <2>1, <2>2 DEF EndsAreTrue, FlagsTellEnds, Ends
<1>2. QED
  BY TablesAgree, <1>1, PTL

=============================================================================
