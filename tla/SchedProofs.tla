---------------------------- MODULE SchedProofs ----------------------------
(***************************************************************************)
(* Proofs about module Sched, for every size of the table and every set of *)
(* signals.                                                                *)
(*                                                                         *)
(* TableInv is inductive whatever interrupts kernel code; it gives the     *)
(* types and what holds of the task table in every build of the model.     *)
(* ProtocolInv adds what relates a task's place in the code to its entry   *)
(* in the table; it is inductive when ticks do not land in kernel code.    *)
(***************************************************************************)
EXTENDS Sched, FiniteSetTheorems, WellFoundedInduction, TLAPS

\* Among the steps after which a loop of the code finds what it looks for
\* there is a least one, so that a CHOOSE of it is meaningful.
LEMMA LeastSteps ==
  ASSUME NEW S \in SUBSET Nat, S # {}
  PROVE  \E i \in S : \A j \in S : i <= j
<1> DEFINE below(i) == 0 .. i - 1
           T == {below(i) : i \in S}
<1>1. T \subseteq FiniteSubsetsOf(Nat) /\ T # {}
  <2>1. ASSUME NEW i \in S
        PROVE  IsFiniteSet(below(i)) /\ below(i) \subseteq Nat
    BY FS_Interval
  <2>2. T # {}
    OBVIOUS
  <2>3. QED
    BY <2>1, <2>2 DEF FiniteSubsetsOf
<1>2. PICK u \in T : \A v \in T : <<v, u>> \notin StrictSubsetOrdering(Nat)
  BY <1>1, FS_StrictSubsetOrderingWellFounded, WFMin
<1>3. PICK x \in S : u = below(x)
  OBVIOUS
<1>4. ASSUME NEW j \in S, j < x
      PROVE  FALSE
  <2>1. below(j) \subseteq below(x) /\ below(j) # below(x) /\ j \in below(x)
    BY <1>4
  <2>2. <<below(j), u>> \in StrictSubsetOrdering(Nat)
    BY <2>1, <1>3 DEF StrictSubsetOrdering
  <2>3. QED
    BY <2>2, <1>2
<1>5. QED
  BY <1>4

\* Task 0 runs kernel_main, every other task a user program.
PlacesFit == \A t \in Tasks : t = 0 <=> pc[t] \in {"boot", "idle"}

\* A slot that was never handed out is as sched_init left it.
UnusedClean ==
  \A t \in Tasks : t >= num_tasks =>
    pc[t] = "start" /\ waitarg[t] = None /\ pending[t] = {}

OnlyCurrentRunning == \A t \in Tasks : state[t] = "RUNNING" => t = current_task

PickedInTable == \A t \in Tasks : picked[t] \in 0 .. num_tasks - 1 \cup {None}

TableInv ==
  /\ TypeOK
  /\ PlacesFit
  /\ UnusedClean
  /\ OnlyCurrentRunning
  /\ PickedInTable
  /\ IdleCanRun
  /\ SlotsInOrder

\* Only the current task can be in the middle of sched_yield or sched_exit.
OthersAtRest ==
  \A t \in Tasks : t # current_task => picked[t] = None /\ pc[t] # "reap"

\* Where a task is, against the state that its entry has.
EndedWhereFinished ==
  \A t \in Tasks : state[t] = "FINISHED" <=> pc[t] \in {"reap", "dead"}
BlockedInWait == \A t \in Tasks : state[t] = "BLOCKED" => pc[t] = "wait"
WaitHasTarget ==
  \A t \in Tasks : IF pc[t] = "wait" THEN waitarg[t] \in 0 .. num_tasks - 1
                                    ELSE waitarg[t] = None

\* A task that has been woken inside sched_wait has a reason to be.
WokenForAReason ==
  \A t \in Tasks : pc[t] = "wait" /\ state[t] # "BLOCKED" =>
    state[waitarg[t]] = "FINISHED" \/ pending[t] # {}

\* The current task is RUNNING outside of sched_yield and sched_exit, and
\* what it has picked is still right: itself, or a READY task.
CurrentIsRunning ==
  picked[current_task] = None /\ pc[current_task] # "reap"
    => state[current_task] = "RUNNING"
PickIsFresh ==
  LET p == picked[current_task] IN
  p # None => /\ pc[current_task] \notin {"el0", "reap"}
              /\ \/ p = current_task /\ state[p] = "RUNNING"
                 \/ p # current_task /\ state[p] = "READY"

\* Ticks switch out only user code and the idle loop, and user code is
\* switched out by ticks only.
FramedFits ==
  \A t \in Tasks : /\ framed[t] => /\ t # current_task
                                   /\ pc[t] \in {"el0", "boot", "idle"}
                   /\ pc[t] = "el0" /\ t # current_task => framed[t]
UserUnmasked == cpu = "run" /\ pc[current_task] = "el0" => ~masked

ProtocolInv ==
  /\ OthersAtRest
  /\ EndedWhereFinished
  /\ BlockedInWait
  /\ WaitHasTarget
  /\ WokenForAReason
  /\ NoLostWakeup
  /\ CurrentIsRunning
  /\ PickIsFresh
  /\ FramedFits
  /\ UserUnmasked

-----------------------------------------------------------------------------
(* pick_next.                                                              *)

\* The indices pick_next computes with % are in the table, and the loop
\* comes by slot 0.
LEMMA Modulo ==
  ASSUME NEW n \in Nat \ {0}, NEW c \in 0 .. n - 1, NEW i \in 1 .. n
  PROVE  /\ (c + i) % n \in 0 .. n - 1
         /\ (c + (n - c)) % n = 0
  OBVIOUS

\* pick_next returns a slot in use; while idle can run, the task in it is
\* READY, or it is the current task and RUNNING.
LEMMA PickNextPicks ==
  ASSUME num_tasks \in 1 .. MAX_TASKS, current_task \in 0 .. num_tasks - 1,
         NEW st \in [Tasks -> States],
         st[0] \in {"READY", "RUNNING"},
         st[0] = "RUNNING" => current_task = 0
  PROVE  /\ PickNext(st) \in 0 .. num_tasks - 1
         /\ \/ st[PickNext(st)] = "READY"
            \/ PickNext(st) = current_task /\ st[current_task] = "RUNNING"
<1>1. CASE ReadySteps(st) # {}
  <2> DEFINE first == CHOOSE i \in ReadySteps(st) :
                        \A j \in ReadySteps(st) : i <= j
  <2>1. ReadySteps(st) \in SUBSET Nat
    BY DEF ReadySteps
  <2>2. first \in ReadySteps(st)
    BY <1>1, <2>1, LeastSteps
  <2>3. PickNext(st) = (current_task + first) % num_tasks
    BY <1>1 DEF PickNext
  <2> HIDE DEF first
  <2>4. QED
    BY <2>2, <2>3, Modulo, MaxTasksAssumption DEF ReadySteps
<1>2. CASE ReadySteps(st) = {}
  <2>1. num_tasks - current_task \in 1 .. num_tasks
    BY MaxTasksAssumption
  <2>2. (current_task + (num_tasks - current_task)) % num_tasks = 0
    BY <2>1, Modulo, MaxTasksAssumption
  <2>3. st[0] # "READY"
    BY <1>2, <2>1, <2>2 DEF ReadySteps
  <2>4. QED
    BY <1>2, <2>3 DEF PickNext
<1>3. QED
  BY <1>1, <1>2

-----------------------------------------------------------------------------
(* The invariant of every build.                                           *)

LEMMA TableInvInit == Init => TableInv
<1> SUFFICES ASSUME Init PROVE TableInv
  OBVIOUS
<1> USE MaxTasksAssumption, SignalsAssumption
    DEF Init, Tasks, States, Places, Handlers, None
<1>1. TypeOK
  <2>1. /\ state \in [Tasks -> States] /\ pc \in [Tasks -> Places]
        /\ wait_for_tid \in [Tasks -> Tasks \cup {None}]
        /\ parent_tid \in [Tasks -> Tasks \cup {None}]
    OBVIOUS
  <2>2. /\ pending \in [Tasks -> SUBSET Signals]
        /\ handlers \in [Tasks -> [Signals -> Handlers]]
        /\ framed \in [Tasks -> BOOLEAN]
    OBVIOUS
  <2>3. num_tasks \in 1 .. MAX_TASKS /\ current_task \in 0 .. num_tasks - 1
    OBVIOUS
  <2>4. /\ picked \in [Tasks -> Tasks \cup {None}]
        /\ waitarg \in [Tasks -> Tasks \cup {None}]
        /\ masked \in BOOLEAN /\ cpu \in {"run", "hung", "halted"}
    OBVIOUS
  <2>5. QED
    BY <2>1, <2>2, <2>3, <2>4 DEF TypeOK
<1>2. PlacesFit
  BY DEF PlacesFit
<1>3. UnusedClean
  BY DEF UnusedClean
<1>4. OnlyCurrentRunning
  BY DEF OnlyCurrentRunning
<1>5. PickedInTable
  BY DEF PickedInTable
<1>6. IdleCanRun
  BY DEF IdleCanRun
<1>7. SlotsInOrder
  BY DEF SlotsInOrder
<1>8. QED
  BY <1>1, <1>2, <1>3, <1>4, <1>5, <1>6, <1>7 DEF TableInv

LEMMA Names ==
  /\ {"UNUSED", "READY", "RUNNING", "BLOCKED", "FINISHED"} \subseteq States
  /\ {"idle", "el0", "wait", "poll", "deliver", "reap", "dead"} \subseteq Places
  /\ "dfl" \in Handlers
  /\ SIGKILL \in Signals /\ SIGSEGV \in Signals /\ SIGCHLD \in Signals
  BY SignalsAssumption DEF States, Places, Handlers

LEMMA Slots ==
  ASSUME TableInv
  PROVE  /\ 0 \in Tasks
         /\ Users \subseteq Tasks
         /\ 0 .. num_tasks - 1 \subseteq Tasks
         /\ num_tasks < MAX_TASKS => num_tasks \in Tasks /\ num_tasks # 0
         /\ num_tasks \in Int /\ current_task \in Tasks
  BY MaxTasksAssumption DEF TableInv, TypeOK, Tasks, Users

\* While TableInv holds, pick_next returns a slot in use, for the states in
\* the table and for all others that agree on idle.
LEMMA PickInTable ==
  ASSUME TableInv, NEW st \in [Tasks -> States], st[0] = state[0]
  PROVE  /\ PickNext(st) \in 0 .. num_tasks - 1
         /\ PickNext(st) \in Tasks
         /\ \/ st[PickNext(st)] = "READY"
            \/ PickNext(st) = current_task /\ st[current_task] = "RUNNING"
<1>1. st[0] \in {"READY", "RUNNING"} /\ (st[0] = "RUNNING" => current_task = 0)
  BY Slots DEF TableInv, IdleCanRun, OnlyCurrentRunning
<1>2. QED
  BY <1>1, PickNextPicks, Slots DEF TableInv, TypeOK

\* The same after the first half of sched_yield, for the picks it leaves.
LEMMA YieldPicks ==
  ASSUME TableInv, NEW t \in Tasks, Yield(t),
         state' \in [Tasks -> States], state'[0] = state[0]
  PROVE  /\ picked' \in [Tasks -> Tasks \cup {None}]
         /\ \A u \in Tasks : picked'[u] \in 0 .. num_tasks - 1 \cup {None}
<1>1. PickNext(state') \in 0 .. num_tasks - 1 /\ PickNext(state') \in Tasks
  BY PickInTable
<1>2. picked \in [Tasks -> Tasks \cup {None}] /\ PickedInTable
  BY DEF TableInv, TypeOK
<1>3. picked' = [picked EXCEPT ![t] = PickNext(state')]
  BY DEF Yield
<1> HIDE DEF PickNext
<1>4. QED
  BY <1>1, <1>2, <1>3 DEF PickedInTable

\* What the operations on the table leave in it.
LEMMA CreateTaskType ==
  ASSUME TableInv, num_tasks < MAX_TASKS, NEW parent \in Tasks \cup {None},
         NEW hs \in [Signals -> Handlers], CreateTask(parent, hs)
  PROVE  /\ state' \in [Tasks -> States]
         /\ wait_for_tid' \in [Tasks -> Tasks \cup {None}]
         /\ parent_tid' \in [Tasks -> Tasks \cup {None}]
         /\ pending' \in [Tasks -> SUBSET Signals]
         /\ handlers' \in [Tasks -> [Signals -> Handlers]]
         /\ num_tasks' \in 1 .. MAX_TASKS /\ num_tasks' = num_tasks + 1
<1>1. num_tasks' \in 1 .. MAX_TASKS
  BY MaxTasksAssumption DEF CreateTask, TableInv, TypeOK
<1>2. QED
  BY <1>1, Names DEF CreateTask, TableInv, TypeOK

LEMMA WakeType ==
  ASSUME TableInv, NEW W, Wake(W), \A u \in W : state[u] = "BLOCKED"
  PROVE  /\ state' \in [Tasks -> States]
         /\ wait_for_tid' \in [Tasks -> Tasks \cup {None}]
         /\ \A u \in Tasks : \/ state'[u] = state[u]
                             \/ state[u] = "BLOCKED" /\ state'[u] = "READY"
<1>1. /\ state \in [Tasks -> States]
      /\ wait_for_tid \in [Tasks -> Tasks \cup {None}]
  BY DEF TableInv, TypeOK
<1>2. /\ state' = [u \in Tasks |-> IF u \in W THEN "READY" ELSE state[u]]
      /\ wait_for_tid' =
           [u \in Tasks |-> IF u \in W THEN None ELSE wait_for_tid[u]]
  BY DEF Wake
<1>3. state' \in [Tasks -> States]
  BY <1>1, <1>2, Names
<1>4. wait_for_tid' \in [Tasks -> Tasks \cup {None}]
  BY <1>1, <1>2
<1>5. QED
  BY <1>2, <1>3, <1>4

LEMMA SendSignalType ==
  ASSUME TableInv, NEW tid \in Tasks, NEW sig \in Signals, SendSignal(tid, sig)
  PROVE  /\ state' \in [Tasks -> States]
         /\ wait_for_tid' \in [Tasks -> Tasks \cup {None}]
         /\ pending' \in [Tasks -> SUBSET Signals]
         /\ \A u \in Tasks : \/ state'[u] = state[u]
                             \/ state[u] = "BLOCKED" /\ state'[u] = "READY"
         /\ \A u \in Tasks : pending'[u] # pending[u] => state[u] # "UNUSED"
<1>1. CASE Signalable(tid)
  <2>1. pending' = [pending EXCEPT ![tid] = @ \cup {sig}] /\ state[tid] # "UNUSED"
    BY <1>1 DEF SendSignal, Signalable
  <2>2. Wake({tid} \cap {u \in Tasks : state[u] = "BLOCKED"})
    BY <1>1 DEF SendSignal
  <2>3. QED
    BY <2>1, <2>2, WakeType DEF TableInv, TypeOK
<1>2. CASE ~Signalable(tid)
  <2>1. UNCHANGED <<pending, state, wait_for_tid>>
    BY <1>2 DEF SendSignal
  <2>2. QED
    BY <2>1 DEF TableInv, TypeOK
<1>3. QED
  BY <1>1, <1>2

\* Every step keeps the types: one case per action of Next.
LEMMA TypeStep == TableInv /\ [Next]_vars => TypeOK'
<1> SUFFICES ASSUME TableInv, [Next]_vars
             PROVE  TypeOK'
  OBVIOUS
<1>0. /\ PickNext(state) \in 0 .. num_tasks - 1
      /\ PickNext(state) \in Tasks
  BY PickInTable DEF TableInv, TypeOK
<1>a. NoHandlers \in [Signals -> Handlers] /\ None \in Tasks \cup {None}
  BY Names DEF NoHandlers
<1> USE Names, Slots
    DEF TableInv, TypeOK, At, Trap, Goto, tableVars
<1>1. CASE Tick
  <2>1. Switched(PickNext(state)) \in [Tasks -> States]
    BY <1>0 DEF Switched
  <2>2. QED
    BY <1>0, <1>1, <2>1 DEF Tick
<1>2. ASSUME NEW t \in Users, SysPlain(t)
      PROVE  TypeOK'
  BY <1>2 DEF SysPlain
<1>3. ASSUME NEW t \in Users, SysYield(t)
      PROVE  TypeOK'
  <2>1. state' = state /\ Yield(t)
    BY <1>3 DEF SysYield
  <2>2. picked' \in [Tasks -> Tasks \cup {None}]
    BY <2>1, YieldPicks
  <2>3. QED
    BY <1>3, <2>2 DEF SysYield
<1>4. ASSUME NEW t \in Users, SysPoll(t)
      PROVE  TypeOK'
  BY <1>4 DEF SysPoll
<1>5. ASSUME NEW t \in Users, SysFork(t)
      PROVE  TypeOK'
  <2>1. CASE num_tasks < MAX_TASKS /\ CreateTask(t, handlers[t])
    <3>1. t \in Tasks \cup {None} /\ handlers[t] \in [Signals -> Handlers]
      OBVIOUS
    <3>2. current_task \in 0 .. num_tasks' - 1
      BY <2>1 DEF CreateTask
    <3>3. QED
      BY <1>5, <2>1, <3>1, <3>2, CreateTaskType DEF SysFork
  <2>2. CASE UNCHANGED tableVars
    BY <1>5, <2>2 DEF SysFork
  <2>3. QED
    BY <1>5, <2>1, <2>2 DEF SysFork
<1>6. ASSUME NEW t \in Users, SysExec(t)
      PROVE  TypeOK'
  <2>1. CASE num_tasks < MAX_TASKS /\ CreateTask(None, NoHandlers)
    <3>1. current_task \in 0 .. num_tasks' - 1
      BY <2>1 DEF CreateTask
    <3>2. QED
      BY <1>6, <1>a, <2>1, <3>1, CreateTaskType DEF SysExec
  <2>2. CASE UNCHANGED tableVars
    BY <1>6, <2>2 DEF SysExec
  <2>3. QED
    BY <1>6, <2>1, <2>2 DEF SysExec
<1>7. ASSUME NEW t \in Users, SysExit(t)
      PROVE  TypeOK'
  BY <1>7 DEF SysExit, Finish
<1>8. ASSUME NEW t \in Users, NEW tid \in Tasks, SysWait(t, tid)
      PROVE  TypeOK'
  <2>1. CASE tid >= num_tasks \/ state[tid] = "FINISHED"
    BY <1>8, <2>1 DEF SysWait
  <2>2. CASE ~(tid >= num_tasks \/ state[tid] = "FINISHED")
    <3>1. state' = [state EXCEPT ![t] = "BLOCKED"] /\ Yield(t)
      BY <1>8, <2>2 DEF SysWait
    <3>2. state' \in [Tasks -> States] /\ state'[0] = state[0]
      BY <3>1 DEF Users
    <3>3. picked' \in [Tasks -> Tasks \cup {None}]
      BY <3>1, <3>2, YieldPicks
    <3>4. /\ wait_for_tid' = [wait_for_tid EXCEPT ![t] = tid]
          /\ waitarg' = [waitarg EXCEPT ![t] = tid]
          /\ Goto(t, "wait")
      BY <1>8, <2>2 DEF SysWait
    <3>5. /\ wait_for_tid' \in [Tasks -> Tasks \cup {None}]
          /\ waitarg' \in [Tasks -> Tasks \cup {None}]
          /\ pc' \in [Tasks -> Places]
      BY <3>4
    <3>6. QED
      BY <1>8, <3>2, <3>3, <3>5 DEF SysWait
  <2>3. QED
    BY <2>1, <2>2
<1>9. ASSUME NEW t \in Users, NEW tid \in Tasks, NEW sig \in Sendable,
             SysKill(t, tid, sig)
      PROVE  TypeOK'
  <2>1. sig \in Signals /\ SendSignal(tid, sig)
    BY <1>9, SignalsAssumption DEF SysKill
  <2>2. QED
    BY <1>9, <2>1, SendSignalType DEF SysKill
<1>10. ASSUME NEW t \in Users, NEW sig \in Settable, NEW h \in Handlers,
              SysSignal(t, sig, h)
       PROVE  TypeOK'
  BY <1>10, SignalsAssumption DEF SysSignal
<1>11. ASSUME NEW t \in Users, Fault(t)
       PROVE  TypeOK'
  <2>1. CASE handlers[t][SIGSEGV] = "usr"
    <3>1. /\ Trap(t) /\ SendSignal(t, SIGSEGV) /\ cpu' = "hung"
          /\ UNCHANGED <<pc, parent_tid, handlers, num_tasks, current_task,
                         picked, waitarg, framed>>
      BY <1>11, <2>1 DEF Fault
    <3>2. /\ state' \in [Tasks -> States]
          /\ wait_for_tid' \in [Tasks -> Tasks \cup {None}]
          /\ pending' \in [Tasks -> SUBSET Signals]
      BY <3>1, SignalsAssumption, SendSignalType
    <3>3. QED
      BY <3>1, <3>2
  <2>2. CASE handlers[t][SIGSEGV] # "usr"
    <3>1. /\ Trap(t) /\ state' = [state EXCEPT ![t] = "FINISHED"]
          /\ Goto(t, "reap")
          /\ UNCHANGED <<pending, wait_for_tid, cpu, parent_tid, handlers,
                         num_tasks, current_task, picked, waitarg, framed>>
      BY <1>11, <2>2 DEF Fault, Finish
    <3>2. QED
      BY <3>1
  <2>3. QED
    BY <2>1, <2>2
<1>12. ASSUME NEW t \in Tasks, SwitchTo(t)
       PROVE  TypeOK'
  <2>1. picked[t] \in 0 .. num_tasks - 1
    BY <1>12 DEF SwitchTo, PickedInTable
  <2>2. Switched(picked[t]) \in [Tasks -> States]
    BY <2>1 DEF Switched
  <2>3. picked' \in [Tasks -> Tasks \cup {None}]
    BY <1>12 DEF SwitchTo
  <2>4. QED
    BY <1>12, <2>1, <2>2, <2>3 DEF SwitchTo
<1>13. ASSUME NEW t \in Tasks, WaitReturn(t)
       PROVE  TypeOK'
  BY <1>13 DEF WaitReturn
<1>14. ASSUME NEW t \in Tasks, PollAgain(t)
       PROVE  TypeOK'
  <2>1. state' = state /\ Yield(t)
    BY <1>14 DEF PollAgain
  <2>2. picked' \in [Tasks -> Tasks \cup {None}]
    BY <2>1, YieldPicks
  <2>3. QED
    BY <1>14, <2>2 DEF PollAgain
<1>15. ASSUME NEW t \in Tasks, PollDone(t)
       PROVE  TypeOK'
  BY <1>15 DEF PollDone
<1>16. ASSUME NEW t \in Tasks, Deliver(t)
       PROVE  TypeOK'
  BY <1>16 DEF Deliver, Finish, AfterDelivery
<1>17. ASSUME NEW t \in Tasks, Reap(t)
       PROVE  TypeOK'
  <2>1. Wake(WokenByExit(t)) /\ Yield(t)
    BY <1>17 DEF Reap
  <2>2. /\ state' \in [Tasks -> States]
        /\ wait_for_tid' \in [Tasks -> Tasks \cup {None}]
        /\ state'[0] = state[0]
    BY <2>1, WakeType DEF WokenByExit, IdleCanRun
  <2>3. picked' \in [Tasks -> Tasks \cup {None}]
    BY <2>1, <2>2, YieldPicks
  <2>4. pending' \in [Tasks -> SUBSET Signals]
    BY <1>17 DEF Reap
  <2>5. QED
    BY <1>17, <2>2, <2>3, <2>4 DEF Reap
<1>18. ASSUME NEW t \in Tasks, Launch(t)
       PROVE  TypeOK'
  BY <1>18 DEF Launch
<1>19. CASE BootShell
  <2>1. CASE num_tasks < MAX_TASKS /\ CreateTask(None, NoHandlers)
    <3>1. current_task \in 0 .. num_tasks' - 1
      BY <2>1 DEF CreateTask
    <3>2. QED
      BY <1>19, <1>a, <2>1, <3>1, CreateTaskType DEF BootShell
  <2>2. CASE UNCHANGED tableVars
    BY <1>19, <2>2 DEF BootShell
  <2>3. QED
    BY <1>19, <2>1, <2>2 DEF BootShell
<1>20. CASE IdleYield
  <2>1. state' = state /\ Yield(0)
    BY <1>20 DEF IdleYield
  <2>2. picked' \in [Tasks -> Tasks \cup {None}]
    BY <2>1, YieldPicks
  <2>3. QED
    BY <1>20, <2>2 DEF IdleYield
<1>21. CASE Halt
  BY <1>21 DEF Halt
<1>22. CASE Stopped \/ UNCHANGED vars
  BY <1>22 DEF Stopped, vars
<1>23. QED
  BY <1>1, <1>2, <1>3, <1>4, <1>5, <1>6, <1>7, <1>8, <1>9, <1>10, <1>11,
     <1>12, <1>13, <1>14, <1>15, <1>16, <1>17, <1>18, <1>19, <1>20, <1>21,
     <1>22
  DEF Next, Syscall, KernelStep

\* Every step keeps what holds of the table in every build.
LEMMA TableStep == TableInv /\ [Next]_vars => TableInv'
<1> SUFFICES ASSUME TableInv, [Next]_vars
             PROVE  TableInv'
  OBVIOUS
<1>0. TypeOK /\ TypeOK'
  BY TypeStep DEF TableInv
<1>a. PickNext(state) \in 0 .. num_tasks - 1
  BY PickInTable DEF TableInv, TypeOK
<1> USE Slots
    DEF TableInv, PlacesFit, UnusedClean, OnlyCurrentRunning, PickedInTable,
        IdleCanRun, SlotsInOrder, At, Trap, Goto, tableVars, TypeOK
<1>1. CASE Tick
  <2>1. SlotsInOrder' /\ IdleCanRun' /\ OnlyCurrentRunning'
    BY <1>0, <1>a, <1>1 DEF Tick, Switched
  <2>2. QED
    BY <1>0, <1>1, <2>1 DEF Tick
<1>2. ASSUME NEW t \in Users, SysPlain(t)
      PROVE  TableInv'
  BY <1>0, <1>2 DEF SysPlain, Users
<1>3. ASSUME NEW t \in Users, SysYield(t)
      PROVE  TableInv'
  <2>1. PickedInTable'
    BY <1>3, YieldPicks DEF SysYield
  <2>2. QED
    BY <1>0, <1>3, <2>1 DEF SysYield, Users
<1>4. ASSUME NEW t \in Users, SysPoll(t)
      PROVE  TableInv'
  BY <1>0, <1>4 DEF SysPoll, Users
<1>5. ASSUME NEW t \in Users, SysFork(t) \/ SysExec(t)
      PROVE  TableInv'
  <2>1. CASE UNCHANGED tableVars
    BY <1>0, <1>5, <2>1 DEF SysFork, SysExec, Users
  <2>2. ASSUME NEW parent, NEW hs, num_tasks < MAX_TASKS, CreateTask(parent, hs)
        PROVE  TableInv'
    <3>1. /\ num_tasks \in Tasks /\ num_tasks # 0 /\ num_tasks' = num_tasks + 1
          /\ state' = [state EXCEPT ![num_tasks] = "READY"]
          /\ pending' = [pending EXCEPT ![num_tasks] = {}]
      BY <2>2 DEF CreateTask
    <3>2. SlotsInOrder' /\ IdleCanRun' /\ OnlyCurrentRunning'
      BY <1>0, <1>5, <3>1 DEF SysFork, SysExec, Tasks
    <3>3. PickedInTable'
      BY <1>0, <1>5, <3>1 DEF SysFork, SysExec
    <3>4. UnusedClean' /\ PlacesFit'
      BY <1>0, <1>5, <3>1 DEF SysFork, SysExec, Tasks, Users
    <3>5. QED
      BY <1>0, <3>2, <3>3, <3>4
  <2>3. QED
    BY <1>5, <2>1, <2>2 DEF SysFork, SysExec
<1>7. ASSUME NEW t \in Users, SysExit(t)
      PROVE  TableInv'
  BY <1>0, <1>7 DEF SysExit, Finish, Users
<1>8. ASSUME NEW t \in Users, NEW tid \in Tasks, SysWait(t, tid)
      PROVE  TableInv'
  <2>1. CASE tid >= num_tasks \/ state[tid] = "FINISHED"
    BY <1>0, <1>8, <2>1 DEF SysWait, Users
  <2>2. CASE ~(tid >= num_tasks \/ state[tid] = "FINISHED")
    <3>1. state' = [state EXCEPT ![t] = "BLOCKED"] /\ Yield(t)
      BY <1>8, <2>2 DEF SysWait
    <3>2. state' \in [Tasks -> States] /\ state'[0] = state[0]
      BY <1>0, <3>1 DEF Users
    <3>3. PickedInTable'
      BY <1>8, <3>1, <3>2, YieldPicks DEF SysWait
    <3>4. QED
      BY <1>0, <1>8, <2>2, <3>1, <3>2, <3>3 DEF SysWait, Users
  <2>3. QED
    BY <2>1, <2>2
<1>9. ASSUME NEW t \in Users, NEW tid \in Tasks, NEW sig \in Sendable,
             SysKill(t, tid, sig)
      PROVE  TableInv'
  <2>1. sig \in Signals /\ SendSignal(tid, sig)
    BY <1>9, SignalsAssumption DEF SysKill
  <2>2. QED
    BY <1>0, <1>9, <2>1, SendSignalType DEF SysKill, Users
<1>10. ASSUME NEW t \in Users, NEW sig \in Settable, NEW h \in Handlers,
              SysSignal(t, sig, h)
       PROVE  TableInv'
  BY <1>0, <1>10 DEF SysSignal, Users
<1>11. ASSUME NEW t \in Users, Fault(t)
       PROVE  TableInv'
  <2>1. CASE handlers[t][SIGSEGV] = "usr"
    <3>1. SendSignal(t, SIGSEGV) /\ UNCHANGED pc
      BY <1>11, <2>1 DEF Fault
    <3>2. QED
      BY <1>0, <1>11, <3>1, SendSignalType, Names DEF Fault, Users
  <2>2. CASE handlers[t][SIGSEGV] # "usr"
    BY <1>0, <1>11, <2>2 DEF Fault, Finish, Users
  <2>3. QED
    BY <2>1, <2>2
<1>12. ASSUME NEW t \in Tasks, SwitchTo(t)
       PROVE  TableInv'
  <2>1. picked[t] \in 0 .. num_tasks - 1 /\ t = current_task
    BY <1>12 DEF SwitchTo
  <2>2. SlotsInOrder' /\ IdleCanRun' /\ OnlyCurrentRunning'
    <3>1. CASE picked[t] = t
      BY <1>12, <3>1 DEF SwitchTo
    <3>2. CASE picked[t] # t
      <4>1. /\ state' = Switched(picked[t]) /\ current_task' = picked[t]
            /\ num_tasks' = num_tasks /\ picked[t] \in Tasks
        BY <1>12, <2>1, <3>2 DEF SwitchTo
      <4>2. QED
        BY <2>1, <3>2, <4>1 DEF Switched
    <3>3. QED
      BY <3>1, <3>2
  <2>3. PickedInTable' /\ PlacesFit' /\ UnusedClean'
    BY <1>12 DEF SwitchTo
  <2>4. QED
    BY <1>0, <2>2, <2>3
<1>13. ASSUME NEW t \in Tasks, WaitReturn(t)
       PROVE  TableInv'
  BY <1>0, <1>13 DEF WaitReturn
<1>14. ASSUME NEW t \in Tasks, PollAgain(t)
       PROVE  TableInv'
  <2>1. PickedInTable'
    BY <1>14, YieldPicks DEF PollAgain
  <2>2. QED
    BY <1>0, <1>14, <2>1 DEF PollAgain
<1>15. ASSUME NEW t \in Tasks, PollDone(t)
       PROVE  TableInv'
  BY <1>0, <1>15 DEF PollDone
<1>16. ASSUME NEW t \in Tasks, Deliver(t)
       PROVE  TableInv'
  <2>1. t # 0 /\ t < num_tasks /\ t = current_task
    BY <1>16 DEF Deliver
  <2>2. UnusedClean' /\ PlacesFit' /\ PickedInTable'
    BY <1>0, <1>16, <2>1 DEF Deliver, Finish
  <2>3. SlotsInOrder' /\ IdleCanRun' /\ OnlyCurrentRunning'
    BY <1>0, <1>16, <2>1 DEF Deliver, Finish
  <2>4. QED
    BY <1>0, <2>2, <2>3
<1>17. ASSUME NEW t \in Tasks, Reap(t)
       PROVE  TableInv'
  <2>1. Wake(WokenByExit(t)) /\ Yield(t)
    BY <1>17 DEF Reap
  <2>2. /\ state' \in [Tasks -> States]
        /\ state'[0] = state[0]
        /\ \A u \in Tasks : \/ state'[u] = state[u]
                            \/ state[u] = "BLOCKED" /\ state'[u] = "READY"
    BY <2>1, WakeType DEF WokenByExit
  <2>3. PickedInTable'
    BY <1>17, <2>1, <2>2, YieldPicks DEF Reap
  <2>4. t # 0 /\ t < num_tasks /\ t = current_task
    BY <1>17 DEF Reap
  <2>5. UnusedClean' /\ PlacesFit'
    BY <1>0, <1>17, <2>4 DEF Reap, Signalable
  <2>6. SlotsInOrder' /\ IdleCanRun' /\ OnlyCurrentRunning'
    BY <1>0, <1>17, <2>2 DEF Reap
  <2>7. QED
    BY <1>0, <2>3, <2>5, <2>6
<1>18. ASSUME NEW t \in Tasks, Launch(t)
       PROVE  TableInv'
  BY <1>0, <1>18 DEF Launch
<1>19. CASE BootShell
  <2>1. CASE UNCHANGED tableVars
    BY <1>0, <1>19, <2>1 DEF BootShell
  <2>2. ASSUME NEW parent, NEW hs, num_tasks < MAX_TASKS, CreateTask(parent, hs)
        PROVE  TableInv'
    <3>1. /\ num_tasks \in Tasks /\ num_tasks # 0 /\ num_tasks' = num_tasks + 1
          /\ state' = [state EXCEPT ![num_tasks] = "READY"]
          /\ pending' = [pending EXCEPT ![num_tasks] = {}]
      BY <2>2 DEF CreateTask
    <3>2. /\ SlotsInOrder' /\ IdleCanRun'
          /\ OnlyCurrentRunning'
      <4>1. current_task' = current_task
        BY <1>19 DEF BootShell
      <4>2. SlotsInOrder'
        BY <1>0, <3>1 DEF Tasks
      <4>3. IdleCanRun' /\ OnlyCurrentRunning'
        BY <1>0, <3>1, <4>1 DEF Tasks
      <4>4. QED
        BY <4>2, <4>3
    <3>3. PickedInTable'
      BY <1>0, <1>19, <3>1 DEF BootShell
    <3>4. /\ UNCHANGED waitarg /\ pc'[0] = "idle"
          /\ \A u \in Users : pc'[u] = pc[u]
      BY <1>0, <1>19 DEF BootShell, Tasks, Users
    <3>5. UnusedClean' /\ PlacesFit'
      BY <1>0, <3>1, <3>4 DEF Tasks, Users
    <3>6. QED
      BY <1>0, <3>2, <3>3, <3>5
  <2>3. QED
    BY <1>19, <2>1, <2>2 DEF BootShell
<1>20. CASE IdleYield
  <2>1. PickedInTable'
    BY <1>20, YieldPicks DEF IdleYield
  <2>2. QED
    BY <1>0, <1>20, <2>1 DEF IdleYield
<1>21. CASE Halt
  BY <1>0, <1>21 DEF Halt
<1>22. CASE Stopped \/ UNCHANGED vars
  <2>1. UNCHANGED vars
    BY <1>22 DEF Stopped
  <2>2. QED
    BY <1>0, <2>1 DEF vars
<1>23. QED
  BY <1>1, <1>2, <1>3, <1>4, <1>5, <1>7, <1>8, <1>9, <1>10, <1>11, <1>12,
     <1>13, <1>14, <1>15, <1>16, <1>17, <1>18, <1>19, <1>20, <1>21, <1>22
  DEF Next, Syscall, KernelStep

-----------------------------------------------------------------------------
(* The invariant of the builds in which ticks do not land in kernel code.  *)

LEMMA ProtocolInvInit == Init => ProtocolInv
<1> SUFFICES ASSUME Init
             PROVE  ProtocolInv
  OBVIOUS
<1> USE MaxTasksAssumption DEF Init, Tasks, None
<1>1. OthersAtRest /\ EndedWhereFinished /\ BlockedInWait
  BY DEF OthersAtRest, EndedWhereFinished, BlockedInWait
<1>2. WaitHasTarget /\ WokenForAReason /\ NoLostWakeup
  BY DEF WaitHasTarget, WokenForAReason, NoLostWakeup
<1>3. CurrentIsRunning /\ PickIsFresh
  BY DEF CurrentIsRunning, PickIsFresh
<1>4. FramedFits /\ UserUnmasked
  BY DEF FramedFits, UserUnmasked
<1>5. QED
  BY <1>1, <1>2, <1>3, <1>4 DEF ProtocolInv

\* The first half of sched_yield picks the current task if it is RUNNING, or
\* a READY task.
LEMMA YieldFresh ==
  ASSUME TableInv, Yield(current_task), state' \in [Tasks -> States],
         state'[0] = state[0], state'[current_task] # "READY"
  PROVE  /\ picked'[current_task] # None
         /\ \/ /\ picked'[current_task] = current_task
               /\ state'[current_task] = "RUNNING"
            \/ /\ picked'[current_task] # current_task
               /\ state'[picked'[current_task]] = "READY"
         /\ \A u \in Tasks : u # current_task => picked'[u] = picked[u]
<1>1. /\ PickNext(state') \in 0 .. num_tasks - 1
      /\ \/ state'[PickNext(state')] = "READY"
         \/ PickNext(state') = current_task /\ state'[current_task] = "RUNNING"
  BY PickInTable
<1>2. picked' = [picked EXCEPT ![current_task] = PickNext(state')]
  BY DEF Yield
<1>3. picked \in [Tasks -> Tasks \cup {None}] /\ num_tasks \in Int
  BY DEF TableInv, TypeOK
<1>4. PickNext(state') # None
  BY <1>1, <1>3 DEF None
<1> HIDE DEF PickNext
<1>5. QED
  BY <1>1, <1>2, <1>3, <1>4, Slots

LEMMA ProtocolStep ==
  ASSUME ~KernelPreemptible
  PROVE  TableInv /\ ProtocolInv /\ [Next]_vars => ProtocolInv'
<1> SUFFICES ASSUME TableInv, ProtocolInv, [Next]_vars
             PROVE  ProtocolInv'
  OBVIOUS
<1>0. TypeOK /\ TypeOK' /\ TableInv /\ TableInv'
  BY TableStep DEF TableInv
<1> USE <1>0, Slots
    DEF ProtocolInv, OthersAtRest, EndedWhereFinished, BlockedInWait,
        WaitHasTarget, WokenForAReason, NoLostWakeup, CurrentIsRunning,
        PickIsFresh, FramedFits, UserUnmasked, TypeOK,
        At, Trap, Goto, tableVars
<1>1. CASE Tick
  <2>1. PickNext(state) \in Tasks /\ state[PickNext(state)] = "READY"
    BY <1>1, PickInTable DEF Tick
  <2>2. pc[current_task] \in {"el0", "boot", "idle"} /\ picked[current_task] = None
    BY <1>1 DEF Tick, Interruptible
  <2> HIDE DEF PickNext
  <2> DEFINE next == PickNext(state)
  <2>3. /\ next \in Tasks /\ state[next] = "READY" /\ next # current_task
        /\ current_task' = next
        /\ state' = [state EXCEPT ![current_task] = IF @ = "RUNNING" THEN "READY" ELSE @,
                                  ![next] = "RUNNING"]
        /\ framed' = [framed EXCEPT ![current_task] = TRUE, ![next] = FALSE]
        /\ masked' = ~framed[next]
    BY <1>1, <2>1 DEF Tick, Switched
  <2>4. UNCHANGED <<pending, num_tasks, wait_for_tid, pc, picked, waitarg, cpu>>
    BY <1>1 DEF Tick
  <2> HIDE DEF next
  <2>5. state[current_task] = "RUNNING"
    BY <2>2
  <2>6. \A u \in Tasks : /\ state'[u] = "BLOCKED" <=> state[u] = "BLOCKED"
                         /\ state'[u] = "FINISHED" <=> state[u] = "FINISHED"
    BY <2>3, <2>5
  <2>7. OthersAtRest' /\ EndedWhereFinished' /\ BlockedInWait'
    BY <2>2, <2>3, <2>4, <2>6
  <2>8. WaitHasTarget' /\ WokenForAReason'
    BY <2>3, <2>4, <2>6
  <2>9. NoLostWakeup'
    BY <2>2, <2>3, <2>4, <2>6
  <2>10. CurrentIsRunning' /\ PickIsFresh'
    BY <2>2, <2>3, <2>4
  <2>11. FramedFits' /\ UserUnmasked'
    BY <2>2, <2>3, <2>4
  <2>12. QED
    BY <2>7, <2>8, <2>9, <2>10, <2>11
<1>2. ASSUME NEW t \in Users, SysPlain(t)
      PROVE  ProtocolInv'
  BY <1>2 DEF SysPlain
<1>3. ASSUME NEW t \in Users, SysYield(t)
      PROVE  ProtocolInv'
  BY <1>3, YieldFresh DEF SysYield
<1>4. ASSUME NEW t \in Users, SysPoll(t)
      PROVE  ProtocolInv'
  BY <1>4 DEF SysPoll
<1>5. ASSUME NEW t \in Users, SysFork(t) \/ SysExec(t)
      PROVE  ProtocolInv'
  <2>0. /\ Trap(t) /\ Goto(t, "deliver")
        /\ UNCHANGED <<current_task, picked, waitarg, framed, cpu>>
    BY <1>5 DEF SysFork, SysExec
  <2>1. CASE UNCHANGED tableVars
    BY <2>0, <2>1
  <2>2. ASSUME NEW parent, NEW hs, num_tasks < MAX_TASKS, CreateTask(parent, hs)
        PROVE  ProtocolInv'
    <3>1. /\ num_tasks \in Tasks /\ state[num_tasks] = "UNUSED"
          /\ num_tasks # t /\ t = current_task
          /\ pc[num_tasks] = "start" /\ waitarg[num_tasks] = None
      BY <2>0, <2>2 DEF TableInv, UnusedClean, SlotsInOrder, Tasks
    <3>2. /\ num_tasks' = num_tasks + 1
          /\ state' = [state EXCEPT ![num_tasks] = "READY"]
          /\ wait_for_tid' = [wait_for_tid EXCEPT ![num_tasks] = None]
          /\ pending' = [pending EXCEPT ![num_tasks] = {}]
      BY <2>2 DEF CreateTask
    <3>3. /\ OthersAtRest' /\ EndedWhereFinished' /\ BlockedInWait'
          /\ CurrentIsRunning' /\ PickIsFresh' /\ FramedFits' /\ UserUnmasked'
      BY <2>0, <3>1, <3>2
    <3>4. WaitHasTarget'
      BY <2>0, <3>1, <3>2
    <3>5. WokenForAReason' /\ NoLostWakeup'
      BY <2>0, <3>1, <3>2
    <3>6. QED
      BY <3>3, <3>4, <3>5
  <2>3. QED
    BY <1>5, <2>1, <2>2 DEF SysFork, SysExec
<1>7. ASSUME NEW t \in Users, SysExit(t)
      PROVE  ProtocolInv'
  BY <1>7 DEF SysExit, Finish
<1>8. ASSUME NEW t \in Users, NEW tid \in Tasks, SysWait(t, tid)
      PROVE  ProtocolInv'
  <2>1. CASE tid >= num_tasks \/ state[tid] = "FINISHED"
    BY <1>8, <2>1 DEF SysWait
  <2>2. CASE ~(tid >= num_tasks \/ state[tid] = "FINISHED")
    <3>1. /\ state' = [state EXCEPT ![t] = "BLOCKED"] /\ Yield(current_task)
          /\ t = current_task
      BY <1>8, <2>2 DEF SysWait
    <3>2. state'[0] = state[0]
      BY <3>1 DEF Users
    <3>3. tid \in 0 .. num_tasks - 1
      BY <2>2 DEF Tasks
    <3>4. QED
      BY <1>8, <2>2, <3>1, <3>2, <3>3, YieldFresh DEF SysWait
  <2>3. QED
    BY <2>1, <2>2
<1>9. ASSUME NEW t \in Users, NEW tid \in Tasks, NEW sig \in Sendable,
             SysKill(t, tid, sig)
      PROVE  ProtocolInv'
  <2>0. /\ Trap(t) /\ SendSignal(tid, sig) /\ Goto(t, "deliver")
        /\ UNCHANGED <<num_tasks, current_task, picked, waitarg, framed, cpu>>
    BY <1>9 DEF SysKill
  <2>1. CASE ~Signalable(tid)
    BY <2>0, <2>1 DEF SendSignal
  <2>2. CASE Signalable(tid)
    <3>1. /\ pending' = [pending EXCEPT ![tid] = @ \cup {sig}]
          /\ state' = [u \in Tasks |-> IF u = tid /\ state[u] = "BLOCKED"
                                       THEN "READY" ELSE state[u]]
          /\ wait_for_tid' = [u \in Tasks |-> IF u = tid /\ state[u] = "BLOCKED"
                                              THEN None ELSE wait_for_tid[u]]
      BY <2>0, <2>2 DEF SendSignal, Wake
    <3>2. \A u \in Tasks : u # tid => /\ state'[u] = state[u]
                                      /\ pending'[u] = pending[u]
                                      /\ wait_for_tid'[u] = wait_for_tid[u]
      BY <3>1
    <3>3. state'[tid] = (IF state[tid] = "BLOCKED" THEN "READY" ELSE state[tid])
      BY <3>1
    <3>4. pending'[tid] # {} /\ state[t] = "RUNNING" /\ t = current_task
      BY <2>0, <3>1
    <3>5. /\ OthersAtRest' /\ EndedWhereFinished' /\ BlockedInWait'
          /\ CurrentIsRunning' /\ PickIsFresh' /\ FramedFits' /\ UserUnmasked'
      BY <2>0, <3>2, <3>3, <3>4
    <3>6. WaitHasTarget'
      BY <2>0
    <3>7. WokenForAReason'
      <4>1. \A u \in Tasks : /\ pending[u] # {} => pending'[u] # {}
                             /\ state[u] = "FINISHED" => state'[u] = "FINISHED"
        BY <3>2, <3>3, <3>4
      <4>2. \A u \in Tasks : pc'[u] = "wait" => pc[u] = "wait" /\ waitarg'[u] = waitarg[u]
                                                /\ waitarg[u] \in Tasks
        BY <2>0
      <4>3. \A u \in Tasks : u # tid => (state'[u] # "BLOCKED" => state[u] # "BLOCKED")
        BY <3>2
      <4>4. SUFFICES ASSUME NEW u \in Tasks, pc'[u] = "wait", state'[u] # "BLOCKED"
                     PROVE  state'[waitarg'[u]] = "FINISHED" \/ pending'[u] # {}
        BY DEF WokenForAReason
      <4>5. CASE u = tid
        BY <4>5, <3>4
      <4>6. CASE u # tid
        <5>1. /\ pc[u] = "wait" /\ state[u] # "BLOCKED"
              /\ waitarg'[u] = waitarg[u] /\ waitarg[u] \in Tasks
          BY <4>2, <4>3, <4>4, <4>6
        <5>2. state[waitarg[u]] = "FINISHED" \/ pending[u] # {}
          BY <5>1 DEF WokenForAReason
        <5>3. QED
          BY <5>1, <5>2, <4>1
      <4>7. QED
        BY <4>5, <4>6
    <3>8. NoLostWakeup'
      <4>1. pc[t] = "el0" /\ t = current_task
        BY <2>0
      <4>2. \A u \in Tasks : /\ state'[u] = "BLOCKED" => u # tid /\ state[u] = "BLOCKED"
                             /\ state'[u] = "FINISHED" => state[u] = "FINISHED"
        BY <3>2, <3>3
      <4>3. \A u \in Tasks : state[u] = "BLOCKED" => state[waitarg[u]] # "FINISHED"
        BY <4>1 DEF NoLostWakeup
      <4>4. \A u \in Tasks : state'[u] = "BLOCKED" =>
              /\ wait_for_tid'[u] = waitarg'[u]
              /\ waitarg'[u] \in 0 .. num_tasks' - 1
        BY <2>0, <3>2, <4>2 DEF NoLostWakeup
      <4>5. QED
        BY <2>0, <4>2, <4>3, <4>4 DEF NoLostWakeup
    <3>9. QED
      BY <3>5, <3>6, <3>7, <3>8
  <2>3. QED
    BY <2>1, <2>2
<1>10. ASSUME NEW t \in Users, NEW sig \in Settable, NEW h \in Handlers,
              SysSignal(t, sig, h)
       PROVE  ProtocolInv'
  BY <1>10 DEF SysSignal
<1>11. ASSUME NEW t \in Users, Fault(t)
       PROVE  ProtocolInv'
  <2>1. CASE handlers[t][SIGSEGV] = "usr"
    <3>1. /\ Trap(t) /\ state[t] = "RUNNING" /\ SendSignal(t, SIGSEGV)
          /\ UNCHANGED <<num_tasks, current_task, pc, picked, waitarg, framed>>
          /\ cpu' = "hung"
      BY <1>11, <2>1 DEF Fault
    <3>2. {t} \cap {u \in Tasks : state[u] = "BLOCKED"} = {}
      BY <3>1
    <3>3. \/ /\ pending' = [pending EXCEPT ![t] = @ \cup {SIGSEGV}]
             /\ Wake({})
          \/ UNCHANGED <<pending, state, wait_for_tid>>
      BY <3>1, <3>2 DEF SendSignal
    <3>4. Wake({}) => UNCHANGED <<state, wait_for_tid>>
      BY DEF Wake
    <3>5. \A u \in Tasks : pending[u] # {} => pending'[u] # {}
      <4>1. CASE pending' = [pending EXCEPT ![t] = @ \cup {SIGSEGV}]
        <5>1. pending'[t] # {} /\ \A u \in Tasks : u # t => pending'[u] = pending[u]
          BY <4>1
        <5>2. QED
          BY <5>1
      <4>2. CASE UNCHANGED pending
        BY <4>2
      <4>3. QED
        BY <4>1, <4>2, <3>3
    <3>6. /\ UNCHANGED <<state, wait_for_tid, num_tasks, current_task, pc, picked,
                        waitarg, framed>>
          /\ cpu' = "hung"
      BY <3>1, <3>3, <3>4
    <3>7. WokenForAReason'
      BY <3>5, <3>6
    <3>8. QED
      BY <3>6, <3>7
  <2>2. CASE handlers[t][SIGSEGV] # "usr"
    <3>1. /\ Trap(t) /\ Finish(t)
          /\ UNCHANGED <<pending, wait_for_tid, cpu, parent_tid, handlers,
                         num_tasks, current_task, picked, waitarg, framed>>
      BY <1>11, <2>2 DEF Fault
    <3>2. QED
      BY <3>1 DEF Finish
  <2>3. QED
    BY <2>1, <2>2
<1>12. ASSUME NEW t \in Tasks, SwitchTo(t)
       PROVE  ProtocolInv'
  <2>1. CASE picked[t] = t
    BY <1>12, <2>1 DEF SwitchTo
  <2>2. CASE picked[t] # t
    <3> DEFINE next == picked[t]
    <3>1. /\ t = current_task /\ picked[t] # None /\ cpu = "run"
          /\ picked' = [picked EXCEPT ![t] = None]
          /\ state' = [state EXCEPT ![current_task] = IF @ = "RUNNING" THEN "READY" ELSE @,
                                    ![next] = "RUNNING"]
          /\ current_task' = next
          /\ framed' = [framed EXCEPT ![next] = FALSE]
          /\ masked' = (masked /\ ~framed[next])
          /\ UNCHANGED <<wait_for_tid, pending, num_tasks, pc, waitarg, cpu>>
      BY <1>12, <2>2 DEF SwitchTo, Switched
    <3>2. /\ next \in Tasks /\ next # current_task /\ state[next] = "READY"
          /\ pc[t] # "el0" /\ pc[next] # "reap"
      BY <2>2, <3>1
    <3> HIDE DEF next
    <3>3. \A u \in Tasks : /\ state'[u] = "BLOCKED" <=> state[u] = "BLOCKED"
                           /\ state'[u] = "FINISHED" <=> state[u] = "FINISHED"
      BY <3>1, <3>2
    <3>4. \A u \in Tasks : pc[u] = "reap" => u = t
      BY <3>1
    <3>5. pc[t] # "reap"
      BY <3>1, <3>2
    <3>6. OthersAtRest' /\ EndedWhereFinished' /\ BlockedInWait'
      BY <3>1, <3>2, <3>3, <3>4, <3>5
    <3>7. WaitHasTarget' /\ WokenForAReason'
      BY <3>1, <3>2, <3>3
    <3>8. NoLostWakeup'
      BY <3>1, <3>2, <3>3, <3>4, <3>5
    <3>9. CurrentIsRunning' /\ PickIsFresh'
      BY <3>1, <3>2
    <3>10. FramedFits' /\ UserUnmasked'
      BY <3>1, <3>2
    <3>11. QED
      BY <3>6, <3>7, <3>8, <3>9, <3>10
  <2>3. QED
    BY <2>1, <2>2
<1>13. ASSUME NEW t \in Tasks, WaitReturn(t)
       PROVE  ProtocolInv'
  BY <1>13 DEF WaitReturn
<1>14. ASSUME NEW t \in Tasks, PollAgain(t)
       PROVE  ProtocolInv'
  BY <1>14, YieldFresh DEF PollAgain
<1>15. ASSUME NEW t \in Tasks, PollDone(t)
       PROVE  ProtocolInv'
  BY <1>15 DEF PollDone
<1>16. ASSUME NEW t \in Tasks, Deliver(t)
       PROVE  ProtocolInv'
  BY <1>16 DEF Deliver, Finish, AfterDelivery
<1>17. ASSUME NEW t \in Tasks, Reap(t)
       PROVE  ProtocolInv'
  <2>1. /\ Wake(WokenByExit(t)) /\ Yield(current_task) /\ t = current_task
        /\ t # 0 /\ state[t] = "FINISHED"
    BY <1>17 DEF Reap, TableInv, PlacesFit
  <2>2. state'[0] = state[0] /\ state'[t] = "FINISHED"
    BY <2>1 DEF Wake, WokenByExit, TableInv, IdleCanRun
  <2>3. /\ At(t, "reap") /\ Goto(t, "dead")
        /\ UNCHANGED <<num_tasks, current_task, waitarg, framed, masked, cpu>>
    BY <1>17 DEF Reap
  <2>4. /\ state' = [u \in Tasks |-> IF u \in WokenByExit(t) THEN "READY" ELSE state[u]]
        /\ wait_for_tid' = [u \in Tasks |-> IF u \in WokenByExit(t) THEN None
                                            ELSE wait_for_tid[u]]
    BY <2>1 DEF Wake
  <2>5. \A u \in Tasks : u \in WokenByExit(t) => state[u] = "BLOCKED" /\ u # t
    BY <2>1 DEF WokenByExit
  <2>6. \A u \in Tasks : pending[u] \subseteq pending'[u]
    BY <1>17 DEF Reap
  <2>7. \A u \in Tasks : u \in WokenByExit(t) =>
          state[waitarg[u]] = "FINISHED" \/ pending'[u] # {}
    <3>1. SUFFICES ASSUME NEW u \in Tasks, u \in WokenByExit(t), u = parent_tid[t]
                   PROVE  pending'[u] # {}
      BY <2>1 DEF WokenByExit
    <3>2. Signalable(u)
      BY <3>1, <2>5 DEF Signalable, TableInv, SlotsInOrder, Tasks
    <3>3. SIGCHLD \in pending'[u]
      BY <1>17, <3>1, <3>2 DEF Reap, None, Tasks
    <3>4. QED
      BY <3>3
  <2>8. \A u \in Tasks : state[u] = "BLOCKED" /\ u \notin WokenByExit(t)
                           => wait_for_tid[u] # t
    BY DEF WokenByExit
  <2>9. /\ picked'[t] # None
        /\ \/ picked'[t] = t /\ state'[t] = "RUNNING"
           \/ picked'[t] # t /\ state'[picked'[t]] = "READY"
        /\ \A u \in Tasks : u # t => picked'[u] = picked[u]
    BY <2>1, <2>2, YieldFresh
  <2>10. \A u \in Tasks : pc'[u] = IF u = t THEN "dead" ELSE pc[u]
    BY <2>3
  <2> HIDE DEF WokenByExit
  <2>11. OthersAtRest' /\ EndedWhereFinished' /\ BlockedInWait'
    BY <2>1, <2>2, <2>3, <2>4, <2>5, <2>9, <2>10
  <2>12. WaitHasTarget' /\ WokenForAReason'
    BY <2>1, <2>2, <2>3, <2>4, <2>5, <2>6, <2>7, <2>10
  <2>13. NoLostWakeup'
    BY <2>1, <2>2, <2>3, <2>4, <2>5, <2>8, <2>10
  <2>14. CurrentIsRunning' /\ PickIsFresh'
    BY <2>1, <2>3, <2>9, <2>10
  <2>15. FramedFits' /\ UserUnmasked'
    BY <2>1, <2>3, <2>10
  <2>16. QED
    BY <2>11, <2>12, <2>13, <2>14, <2>15
<1>18. ASSUME NEW t \in Tasks, Launch(t)
       PROVE  ProtocolInv'
  BY <1>18 DEF Launch
<1>19. CASE BootShell
  <2>1. CASE UNCHANGED tableVars
    BY <1>19, <2>1 DEF BootShell
  <2>2. ASSUME NEW parent, NEW hs, num_tasks < MAX_TASKS, CreateTask(parent, hs)
        PROVE  ProtocolInv'
    BY <1>19, <2>2 DEF BootShell, CreateTask, TableInv, UnusedClean, SlotsInOrder
  <2>3. QED
    BY <1>19, <2>1, <2>2 DEF BootShell
<1>20. CASE IdleYield
  BY <1>20, YieldFresh DEF IdleYield
<1>21. CASE Halt
  BY <1>21 DEF Halt
<1>22. CASE Stopped \/ UNCHANGED vars
  <2>1. UNCHANGED vars
    BY <1>22 DEF Stopped
  <2>2. QED
    BY <2>1 DEF vars
<1>23. QED
  BY <1>1, <1>2, <1>3, <1>4, <1>5, <1>7, <1>8, <1>9, <1>10, <1>11, <1>12,
     <1>13, <1>14, <1>15, <1>16, <1>17, <1>18, <1>19, <1>20, <1>21, <1>22
  DEF Next, Syscall, KernelStep

-----------------------------------------------------------------------------
(* What no step may do.                                                    *)

LEMMA KillStep ==
  ASSUME TableInv, [Next]_vars, NEW t \in Tasks, SIGKILL \in pending[t]
  PROVE  SIGKILL \in pending'[t] \/ state'[t] = "FINISHED"
<1> USE Slots DEF TypeOK, tableVars
<1>0. TypeOK /\ TypeOK'
  BY TableStep DEF TableInv
<1>1. CASE UNCHANGED pending
  BY <1>1
<1>2. ASSUME NEW u \in Tasks, Deliver(u)
      PROVE  SIGKILL \in pending'[t] \/ state'[t] = "FINISHED"
  <2>1. CASE u = t /\ LowestPending(t) = SIGKILL
    BY <1>0, <1>2, <2>1 DEF Deliver, Fatal, Finish
  <2>2. CASE ~(u = t /\ LowestPending(t) = SIGKILL)
    BY <1>0, <1>2, <2>2 DEF Deliver, AfterDelivery
  <2>3. QED
    BY <2>1, <2>2
<1>3. ASSUME NEW u \in Tasks, Reap(u)
      PROVE  SIGKILL \in pending'[t]
  BY <1>0, <1>3 DEF Reap
<1>4. ASSUME NEW u \in Tasks, NEW sig \in Signals, SendSignal(u, sig)
      PROVE  SIGKILL \in pending'[t]
  <2>1. CASE Signalable(u)
    <3>1. pending' = [pending EXCEPT ![u] = @ \cup {sig}]
      BY <1>4, <2>1 DEF SendSignal
    <3>2. QED
      BY <1>0, <3>1
  <2>2. CASE ~Signalable(u)
    BY <1>4, <2>2 DEF SendSignal
  <2>3. QED
    BY <2>1, <2>2
<1>5. ASSUME NEW parent, NEW hs, num_tasks < MAX_TASKS, CreateTask(parent, hs)
      PROVE  SIGKILL \in pending'[t]
  <2>1. t # num_tasks
    BY DEF TableInv, UnusedClean, Tasks
  <2>2. QED
    BY <1>0, <1>5, <2>1 DEF CreateTask
<1>6. CASE Tick
  BY <1>6, <1>1 DEF Tick
<1>7. ASSUME NEW u \in Users, Syscall(u)
      PROVE  SIGKILL \in pending'[t]
  <2>1. CASE UNCHANGED pending
    BY <2>1
  <2>2. CASE SysFork(u) \/ SysExec(u)
    BY <2>1, <2>2, <1>5 DEF SysFork, SysExec
  <2>3. ASSUME NEW tid \in Tasks, NEW sig \in Sendable, SysKill(u, tid, sig)
        PROVE  SIGKILL \in pending'[t]
    BY <2>3, <1>4, SignalsAssumption DEF SysKill
  <2>4. QED
    BY <1>7, <2>1, <2>2, <2>3
    DEF Syscall, SysPlain, SysYield, SysPoll, SysExit, SysWait, SysSignal
<1>8. ASSUME NEW u \in Users, Fault(u)
      PROVE  SIGKILL \in pending'[t]
  BY <1>8, <1>1, <1>4, SignalsAssumption DEF Fault
<1>9. ASSUME NEW u \in Tasks, KernelStep(u)
      PROVE  SIGKILL \in pending'[t] \/ state'[t] = "FINISHED"
  BY <1>9, <1>1, <1>2, <1>3
  DEF KernelStep, SwitchTo, WaitReturn, PollAgain, PollDone, Launch
<1>10. CASE BootShell \/ IdleYield \/ Halt
  BY <1>10, <1>1, <1>5 DEF BootShell, IdleYield, Halt
<1>11. CASE Stopped \/ UNCHANGED vars
  BY <1>11, <1>1 DEF Stopped, vars
<1>12. QED
  BY <1>6, <1>7, <1>8, <1>9, <1>10, <1>11 DEF Next

LEMMA FinishedStep ==
  ASSUME ~KernelPreemptible, TableInv, ProtocolInv, [Next]_vars,
         NEW t \in Tasks, state[t] = "FINISHED"
  PROVE  state'[t] = "FINISHED"
<1>1. pc[t] \in {"reap", "dead"}
  BY DEF ProtocolInv, EndedWhereFinished
<1>2. ProtocolInv' /\ TypeOK /\ TypeOK'
  BY ProtocolStep, TableStep DEF TableInv
<1>3. ASSUME pc'[t] = pc[t] \/ pc'[t] = "dead"
      PROVE  state'[t] = "FINISHED"
  BY <1>1, <1>2, <1>3 DEF ProtocolInv, EndedWhereFinished
<1> USE <1>2, Slots DEF TypeOK, At, Trap, Goto
<1>4. ASSUME NEW u \in Users, Syscall(u) \/ Fault(u)
      PROVE  pc'[t] = pc[t]
  BY <1>4, <1>1
  DEF Syscall, SysPlain, SysYield, SysPoll, SysExit, SysWait, SysSignal,
      SysKill, SysFork, SysExec, Fault, Finish
<1>5. ASSUME NEW u \in Tasks, KernelStep(u)
      PROVE  pc'[t] = pc[t] \/ pc'[t] = "dead"
  BY <1>5, <1>1
  DEF KernelStep, SwitchTo, WaitReturn, PollAgain, PollDone, Deliver, Reap,
      Launch, Finish
<1>6. ASSUME Tick \/ BootShell \/ IdleYield \/ Halt \/ Stopped \/ UNCHANGED vars
      PROVE  pc'[t] = pc[t]
  BY <1>6, <1>1 DEF Tick, BootShell, IdleYield, Halt, Stopped, vars
<1>7. QED
  BY <1>3, <1>4, <1>5, <1>6 DEF Next

LEMMA ReasonStep ==
  ASSUME TableInv, ProtocolInv, [Next]_vars,
         NEW t \in Tasks, pc[t] = "wait", pc'[t] = "deliver"
  PROVE  state[waitarg[t]] = "FINISHED" \/ pending[t] # {}
<1> USE Slots DEF TypeOK, At, Trap, Goto
<1>0. TypeOK
  BY DEF TableInv
<1>1. ASSUME state[t] # "BLOCKED"
      PROVE  state[waitarg[t]] = "FINISHED" \/ pending[t] # {}
  BY <1>1 DEF ProtocolInv, WokenForAReason
<1>2. ASSUME NEW u \in Users, Syscall(u) \/ Fault(u)
      PROVE  FALSE
  BY <1>0, <1>2
  DEF Syscall, SysPlain, SysYield, SysPoll, SysExit, SysWait, SysSignal,
      SysKill, SysFork, SysExec, Fault, Finish
<1>3. ASSUME NEW u \in Tasks, KernelStep(u)
      PROVE  current_task = t /\ picked[t] = None
  BY <1>0, <1>3
  DEF KernelStep, SwitchTo, WaitReturn, PollAgain, PollDone, Deliver, Reap,
      Launch, Finish
<1>4. ASSUME Tick \/ BootShell \/ IdleYield \/ Halt \/ Stopped \/ UNCHANGED vars
      PROVE  FALSE
  BY <1>0, <1>4 DEF Tick, BootShell, IdleYield, Halt, Stopped, vars
<1>5. ASSUME current_task = t, picked[t] = None
      PROVE  state[t] # "BLOCKED"
  BY <1>5 DEF ProtocolInv, CurrentIsRunning
<1>6. QED
  BY <1>1, <1>2, <1>3, <1>4, <1>5 DEF Next

-----------------------------------------------------------------------------
(* Theorems.                                                               *)

LEMMA TableInvariant == Spec => []TableInv
<1>1. Init => TableInv
  BY TableInvInit
<1>2. TableInv /\ [Next]_vars => TableInv'
  BY TableStep
<1>3. QED
  BY <1>1, <1>2, PTL DEF Spec

LEMMA ProtocolInvariant ==
  ASSUME ~KernelPreemptible
  PROVE  Spec => [](TableInv /\ ProtocolInv)
<1>1. Init => TableInv /\ ProtocolInv
  BY TableInvInit, ProtocolInvInit
<1>2. TableInv /\ ProtocolInv /\ [Next]_vars => TableInv' /\ ProtocolInv'
  BY TableStep, ProtocolStep
<1>3. QED
  BY <1>1, <1>2, PTL DEF Spec

\* Every variable keeps to its type, in every build: the tables of sched.c
\* are indexed by task numbers in use, and pick_next returns one.
THEOREM TypeCorrect == Spec => []TypeOK
<1>1. TableInv => TypeOK
  BY DEF TableInv
<1>2. QED
  BY <1>1, TableInvariant, PTL

\* Task 0 is READY or RUNNING for ever, in every build: the fallback of
\* pick_next to task 0, which does not look at its state, is sound.
THEOREM IdleAlwaysCanRun == Spec => []IdleCanRun
<1>1. TableInv => IdleCanRun
  BY DEF TableInv
<1>2. QED
  BY <1>1, TableInvariant, PTL

\* The slots in use are those below num_tasks, in every build: the bound
\* that pick_next, sched_wait and signal_send test is the right one.
THEOREM SlotsAreInOrder == Spec => []SlotsInOrder
<1>1. TableInv => SlotsInOrder
  BY DEF TableInv
<1>2. QED
  BY <1>1, TableInvariant, PTL

\* When ticks do not land in kernel code, only the current task is RUNNING,
\* and it is RUNNING whenever it executes outside sched_yield and sched_exit.
THEOREM CurrentTaskRuns ==
  ASSUME ~KernelPreemptible
  PROVE  Spec => []CurrentRuns
<1>1. TableInv /\ ProtocolInv => CurrentRuns
  BY DEF TableInv, ProtocolInv, OnlyCurrentRunning, CurrentIsRunning, CurrentRuns
<1>2. QED
  BY <1>1, ProtocolInvariant, PTL

\* When ticks do not land in kernel code, a task that blocks in sched_wait is
\* never left behind by the exit of the task it waits for.
THEOREM WakeupsAreNotLost ==
  ASSUME ~KernelPreemptible
  PROVE  Spec => []NoLostWakeup
<1>1. TableInv /\ ProtocolInv => NoLostWakeup
  BY DEF ProtocolInv
<1>2. QED
  BY <1>1, ProtocolInvariant, PTL

\* When ticks do not land in kernel code, whatever path a task takes back to
\* user code, eret leaves IRQs unmasked there.
THEOREM UserCodeIsPreemptible ==
  ASSUME ~KernelPreemptible
  PROVE  Spec => []UserCodePreemptible
<1>1. TableInv /\ ProtocolInv => UserCodePreemptible
  BY DEF ProtocolInv, UserUnmasked, UserCodePreemptible
<1>2. QED
  BY <1>1, ProtocolInvariant, PTL

\* In every build, a SIGKILL that signal_send has accepted stays pending
\* until the task it was sent to has ended.
THEOREM KillsAreNotLost == Spec => KillIsNotLost
<1> DEFINE Kept == \A t \in Tasks : SIGKILL \in pending[t] =>
                     SIGKILL \in pending'[t] \/ state'[t] = "FINISHED"
<1>1. TableInv /\ [Next]_vars => [Kept]_vars
  BY KillStep
<1>2. QED
  BY <1>1, TableInvariant, PTL DEF Spec, KillIsNotLost

\* When ticks do not land in kernel code, nothing revives an ended task.
THEOREM FinishedStaysFinished ==
  ASSUME ~KernelPreemptible
  PROVE  Spec => FinishedIsFinal
<1> DEFINE Stays == \A t \in Tasks : state[t] = "FINISHED" => state'[t] = "FINISHED"
<1>1. TableInv /\ ProtocolInv /\ [Next]_vars => [Stays]_vars
  BY FinishedStep
<1>2. QED
  BY <1>1, ProtocolInvariant, PTL DEF Spec, FinishedIsFinal

\* When ticks do not land in kernel code, sched_wait returns only when its
\* target has ended or a signal is pending for the caller.
THEOREM WaitHasReason ==
  ASSUME ~KernelPreemptible
  PROVE  Spec => WaitReturnsForAReason
<1> DEFINE Reason == \A t \in Tasks : pc[t] = "wait" /\ pc'[t] = "deliver" =>
                       state[waitarg[t]] = "FINISHED" \/ pending[t] # {}
<1>1. TableInv /\ ProtocolInv /\ [Next]_vars => [Reason]_vars
  BY ReasonStep
<1>2. QED
  BY <1>1, ProtocolInvariant, PTL DEF Spec, WaitReturnsForAReason

=============================================================================
