----------------------------- MODULE UserMemory -----------------------------
(***************************************************************************)
(* The memory of user programs: the frames and page tables that            *)
(* sched_create_user and sched_fork of sched.c get for a new task,         *)
(* mmu_create_user_pgd and mmu_map_user_page_in_pgd of mmu.c, and SYS_SBRK *)
(* of syscall.c, with the paths on which frames run out half-way.          *)
(*                                                                         *)
(* Virtual addresses are in units, PageUnits to a page.  Only the lowest   *)
(* gigabyte is ever mapped, under one L1 and one L2 table; an L3 table     *)
(* covers RegionPages pages.  All of these calls run to their end before   *)
(* another task does anything.  Nothing is given back when a task ends.    *)
(***************************************************************************)
EXTENDS Frames, Sequences, FiniteSets, Functions

CONSTANTS
  MaxTasks,      \* how many user tasks there may be
  KernelFrames,  \* how many frames are in use at first
  PageUnits,     \* PAGE_SIZE
  RegionPages,   \* 512 in the code
  CodePage,      \* the page of USER_VA_CODE
  StackPage,     \* the page of USER_VA_STACK, behind the stack
  StackPages,    \* USER_STACK_PAGES
  CodeSizes,     \* code_pages of the programs, room for BSS included
  Breaks,        \* where programs set their break
  Growths        \* how many frames the kernel heap grows by

GuardPage == StackPage - (StackPages + 1)      \* USER_VA_GUARD
Region(vp) == vp \div RegionPages

ASSUME MemoryAssumption ==
  /\ MaxTasks \in Nat /\ KernelFrames \in 0 .. TotalPages
  /\ PageUnits \in Nat \ {0} /\ RegionPages \in Nat \ {0}
  /\ CodePage \in Nat /\ StackPage \in Nat /\ StackPages \in Nat \ {0}
  /\ CodeSizes \subseteq Nat \ {0} /\ Breaks \subseteq Nat
  /\ Growths \subseteq Nat \ {0}
  /\ \A n \in CodeSizes : CodePage + n <= GuardPage /\ Region(CodePage + n - 1) = Region(CodePage)
  /\ Region(CodePage) # Region(StackPage - StackPages)
  /\ Region(StackPage - StackPages) = Region(StackPage - 1)

Pages == 0 .. StackPage - 1
Regions == 0 .. Region(StackPage - 1)

VARIABLES
  used,      \* the frames in use
  kernel,    \* those that the kernel image and its heap have
  space,     \* the user tasks in the order of their creation
  alive,     \* which of them have not ended
  short,     \* a call ran out of frames in the middle of the page tables
  remapped   \* sbrk has put a page where there was one

vars == <<used, kernel, space, alive, short, remapped>>

\* What struct task and the page tables say: roots are the frames of L1 and
\* L2, l3 those of the L3 tables, map the frame of each page; code_pa and
\* stack_pa, behind the guard, were allocated at creation.  forked: the task
\* is a fork's child.
Spaces == [roots : [1 .. 2 -> Frame],
           l3 : [Regions -> Frame \cup {NoFrame}],
           map : [Pages -> Frame \cup {NoFrame}],
           code_pa : Frame, code_pages : CodeSizes, stack_pa : Frame,
           heap_break : 0 .. GuardPage * PageUnits,
           forked : BOOLEAN]

TypeOK ==
  /\ used \subseteq Frame /\ kernel \subseteq used
  /\ space \in Seq(Spaces) /\ Len(space) <= MaxTasks
  /\ alive \subseteq DOMAIN space
  /\ short \in BOOLEAN /\ remapped \in BOOLEAN

Init ==
  /\ used = Run(0, KernelFrames) /\ kernel = used
  /\ space = <<>> /\ alive = {}
  /\ short = FALSE /\ remapped = FALSE

-----------------------------------------------------------------------------
\* What n calls of pmm_alloc_page return, up to the first that fails.
SinglePages(u, n) ==
  LET got[i \in 0 .. n] ==
        IF i = 0 THEN <<>>
        ELSE LET f == FirstFit(u \cup Range(got[i - 1]), 1) IN
             IF f = NoFrame THEN got[i - 1] ELSE Append(got[i - 1], f)
  IN  got[n]

TableFrames == 4       \* L1, L2, the L3 of the code and that of the stack

\* The frames for a task with this much code, when u are in use: code, stack
\* with its guard, and mmu_create_user_pgd; and what is in use in the end.
\* When there is no frame for an L3 table, the other tables are not freed.
Allocation(u, pages) ==
  LET code   == FirstFit(u, pages)
      u1     == u \cup Run(code, pages)
      stack  == FirstFit(u1, StackPages + 1)
      u2     == u1 \cup Run(stack, StackPages + 1)
      tables == SinglePages(u2, TableFrames)
      failed == [ok |-> FALSE, used |-> u, short |-> FALSE] IN
  IF code = NoFrame \/ stack = NoFrame \/ Len(tables) < 2 THEN failed
  ELSE IF Len(tables) < TableFrames
  THEN [failed EXCEPT !.used = u \cup Range(tables), !.short = TRUE]
  ELSE [ok |-> TRUE, used |-> u2 \cup Range(tables), short |-> FALSE,
        code |-> code, stack |-> stack + 1, tables |-> tables]

\* The address space that it becomes.
NewSpace(a, pages, brk, forked) ==
  [roots |-> <<a.tables[1], a.tables[2]>>,
   l3 |-> [r \in Regions |-> IF r = Region(CodePage) THEN a.tables[3]
                             ELSE IF r = Region(StackPage - 1) THEN a.tables[4]
                             ELSE NoFrame],
   map |-> [vp \in Pages |->
     IF vp \in CodePage .. CodePage + pages - 1 THEN a.code + (vp - CodePage)
     ELSE IF vp >= StackPage - StackPages THEN a.stack + (vp - (StackPage - StackPages))
     ELSE NoFrame],
   code_pa |-> a.code, code_pages |-> pages, stack_pa |-> a.stack,
   heap_break |-> brk, forked |-> forked]

NewTask(pages, brk, forked) ==
  LET a == Allocation(used, pages) IN
  /\ Len(space) < MaxTasks
  /\ used' = a.used /\ short' = (short \/ a.short)
  /\ IF a.ok
     THEN /\ space' = Append(space, NewSpace(a, pages, brk, forked))
          /\ alive' = alive \cup {Len(space) + 1}
     ELSE UNCHANGED <<space, alive>>
  /\ UNCHANGED <<kernel, remapped>>

\* sched_create_user, by SYS_EXEC of any task or at boot.
CreateUser(pages) == NewTask(pages, (CodePage + pages) * PageUnits, FALSE)

\* sched_fork: code and stack are copied, the heap is not; its break is.
Fork(t) == NewTask(space[t].code_pages, space[t].heap_break, TRUE)

-----------------------------------------------------------------------------
PageUp(va) == (va + PageUnits - 1) \div PageUnits

\* (Variant: the guard page is not spared.)
AllowedUpToStack(brk) == brk < (StackPage - StackPages) * PageUnits

Allowed(brk) == brk < GuardPage * PageUnits

\* (Variant: the page behind the break, also when it begins there.)
MapFromNext(old) == old \div PageUnits + 1

\* The pages that sbrk maps.
MapFrom(old) == PageUp(old)
PagesToMap(old, new) == MapFrom(old) .. PageUp(new) - 1

\* (Variants: the frame of a new table is not marked used; the page is kept
\* when there is none.)
MapPageTableFree(s, vp) ==
  LET page  == FirstFit(s.used, 1)
      table == IF s.l3[Region(vp)] # NoFrame THEN s.l3[Region(vp)]
               ELSE FirstFit(s.used \cup {page}, 1) IN
  IF ~s.ok \/ page = NoFrame \/ table = NoFrame THEN [s EXCEPT !.ok = FALSE]
  ELSE [ok |-> TRUE, used |-> s.used \cup {page},
        map |-> [s.map EXCEPT ![vp] = page], l3 |-> [s.l3 EXCEPT ![Region(vp)] = table]]
MapPageKeepsPage(s, vp) ==
  LET page  == FirstFit(s.used, 1)
      table == IF s.l3[Region(vp)] # NoFrame THEN s.l3[Region(vp)]
               ELSE FirstFit(s.used \cup {page}, 1) IN
  IF ~s.ok \/ page = NoFrame THEN [s EXCEPT !.ok = FALSE]
  ELSE IF table = NoFrame THEN [s EXCEPT !.ok = FALSE, !.used = @ \cup {page}]
  ELSE [ok |-> TRUE, used |-> s.used \cup {page, table},
        map |-> [s.map EXCEPT ![vp] = page], l3 |-> [s.l3 EXCEPT ![Region(vp)] = table]]

\* One turn of its loop: pmm_alloc_page and mmu_map_user_page_in_pgd, which
\* may need a frame for an L3 table; when that fails, the page is freed.
MapPage(s, vp) ==
  LET page  == FirstFit(s.used, 1)
      table == IF s.l3[Region(vp)] # NoFrame THEN s.l3[Region(vp)]
               ELSE FirstFit(s.used \cup {page}, 1) IN
  IF ~s.ok \/ page = NoFrame \/ table = NoFrame THEN [s EXCEPT !.ok = FALSE]
  ELSE [ok |-> TRUE, used |-> s.used \cup {page, table},
        map |-> [s.map EXCEPT ![vp] = page], l3 |-> [s.l3 EXCEPT ![Region(vp)] = table]]

MapPages(s, from, to) ==
  LET mapped[vp \in from .. to + 1] == IF vp = from THEN s ELSE MapPage(mapped[vp - 1], vp - 1)
  IN  IF from > to THEN s ELSE mapped[to + 1]

\* SYS_SBRK with the increment that leads to the break brk: the sum is taken
\* modulo 2^64, so that every brk can be had, lower ones too.  On failure the
\* pages mapped so far stay.
Sbrk(t, brk) ==
  LET old   == space[t].heap_break
      pages == PagesToMap(old, brk)
      s     == MapPages([ok |-> TRUE, used |-> used, map |-> space[t].map, l3 |-> space[t].l3],
                        MapFrom(old), PageUp(brk) - 1) IN
  /\ t \in alive /\ brk # old /\ Allowed(brk)
  /\ used' = s.used
  /\ space' = [space EXCEPT ![t].map = s.map, ![t].l3 = s.l3,
                            ![t].heap_break = IF s.ok THEN brk ELSE old]
  /\ remapped' = (remapped \/ \E vp \in pages : NoFrame # space[t].map[vp]
                                                 /\ s.map[vp] # space[t].map[vp])
  /\ UNCHANGED <<kernel, alive, short>>

\* sched_exit frees nothing of this.
Exit(t) ==
  /\ t \in alive
  /\ alive' = alive \ {t}
  /\ UNCHANGED <<used, kernel, space, short, remapped>>

\* heap_grow, for kmalloc of whatever.
KernelGrows(count) ==
  LET start == FirstFit(used, count) IN
  /\ start # NoFrame
  /\ used' = used \cup Run(start, count)
  /\ kernel' = kernel \cup Run(start, count)
  /\ UNCHANGED <<space, alive, short, remapped>>

Next ==
  \/ \E pages \in CodeSizes : (space = <<>> \/ alive # {}) /\ CreateUser(pages)
  \/ \E t \in alive : Fork(t) \/ Exit(t) \/ \E brk \in Breaks : Sbrk(t, brk)
  \/ \E count \in Growths : KernelGrows(count)

Spec == Init /\ [][Next]_vars

-----------------------------------------------------------------------------
(* Properties.                                                             *)

TablesOf(s) == Range(s.roots) \cup (Range(s.l3) \ {NoFrame})
MappedBy(s) == Range(s.map) \ {NoFrame}
Owned(s) ==
  TablesOf(s) \cup MappedBy(s) \cup Run(s.code_pa, s.code_pages)
    \cup Run(s.stack_pa - 1, StackPages + 1)

\* Isolation: what a program can write is its own.  No frame is mapped by two
\* tasks or twice by one; none that is mapped is a page table or the kernel's
\* or free; no two tasks share a table.
Isolation ==
  /\ \A t, u \in DOMAIN space : t # u => Owned(space[t]) \cap Owned(space[u]) = {}
  /\ \A t \in DOMAIN space :
       /\ Owned(space[t]) \subseteq used \ kernel
       /\ TablesOf(space[t]) \cap MappedBy(space[t]) = {}
       /\ \A p, q \in Pages : space[t].map[p] = space[t].map[q] => p = q \/ space[t].map[p] = NoFrame

\* What sbrk has returned can be used: every page from the code up to the
\* break is mapped, through growth, shrinking and growth that failed.  (Not so
\* in a child of fork, which has the break of its parent without the pages.)
\* However far the heap has grown, the guard page is unmapped, so that a stack
\* that overflows faults, and the stack is the one the task was given.
HeapIsMapped ==
  \A t \in DOMAIN space :
    /\ ~space[t].forked =>
         \A vp \in CodePage .. PageUp(space[t].heap_break) - 1 : space[t].map[vp] # NoFrame
    /\ space[t].map[GuardPage] = NoFrame
    /\ \A i \in 0 .. StackPages - 1 :
         space[t].map[StackPage - StackPages + i] = space[t].stack_pa + i

\* Calls that fail for want of frames give back what they got: every frame in
\* use has an owner, unless the tables ran short (mmu.c:93 and 117) or sbrk
\* went twice over the same pages.
NoOrphans ==
  ~short /\ ~remapped =>
    used = kernel \cup UNION {Owned(space[t]) : t \in DOMAIN space}

=============================================================================
