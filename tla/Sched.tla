------------------------------- MODULE Sched -------------------------------
(***************************************************************************)
(* The task table and the preemptive round-robin scheduler of sched.c,     *)
(* with the parts of signal.c, syscall.c and irq.c that read or write it:  *)
(* timer ticks, yield, wait, fork, exec, exit, kill, signal delivery on    *)
(* the way out of a system call, faults of user programs, and the idle     *)
(* loop of main.c that boots the shell and waits for every task to end.    *)
(*                                                                         *)
(* There is one CPU.  A task is somewhere in its code (pc[t]); a system    *)
(* call is a sequence of steps: the body of the call, the return through   *)
(* signal_deliver, and, where the code calls sched_yield, the two halves   *)
(* of it: pick_next, whose result is kept in picked[t], and switch_to.     *)
(* The CPU's IRQ mask (PSTATE.I) is kept in masked: exceptions set it,     *)
(* eret to EL0 clears it, and context_switch does NOT save or restore it.  *)
(*                                                                         *)
(* KernelPreemptible says whether a tick may interrupt kernel code that    *)
(* happens to run with the mask clear.  The code allows it; FALSE is the   *)
(* behaviour its authors describe.  Register contents and page tables are  *)
(* left to other modules.                                                  *)
(***************************************************************************)
EXTENDS Integers

CONSTANTS
  MAX_TASKS,         \* SCHED_MAX_TASKS, 8 in the code
  Signals,           \* the signal numbers that occur
  Sendable,          \* those that programs send with kill
  Settable,          \* those that programs call signal for
  KernelPreemptible  \* may a tick land in unmasked kernel code?

NSIG    == 32
SIGKILL == 9
SIGSEGV == 11
SIGCHLD == 17

ASSUME MaxTasksAssumption == MAX_TASKS \in Nat \ {0}
ASSUME SignalsAssumption ==
  /\ Signals \subseteq 1 .. NSIG - 1
  /\ {SIGKILL, SIGSEGV, SIGCHLD} \subseteq Signals
  /\ Sendable \subseteq Signals
  /\ Settable \subseteq Signals
ASSUME PreemptibleAssumption == KernelPreemptible \in BOOLEAN

Tasks == 0 .. MAX_TASKS - 1
Users == Tasks \ {0}          \* every task but idle is a user task
None  == -1                   \* "no task" in wait_for_tid and parent_tid

\* What a handler slot holds: SIG_DFL, SIG_IGN or a function of the program.
Handlers == {"dfl", "ign", "usr"}

VARIABLES
  state,         \* tasks[t].state
  wait_for_tid,  \* tasks[t].wait_for_tid
  parent_tid,    \* tasks[t].parent_tid
  pending,       \* tasks[t].sig.pending, as a set
  handlers,      \* tasks[t].sig.handlers
  num_tasks,
  current_task,
  pc,            \* where task t is, or will be when it is switched to
  picked,        \* the result of pick_next that task t is about to switch to
  waitarg,       \* the argument of the sched_wait task t is inside of
  framed,        \* t was switched out by a tick: it resumes through irq_entry
  masked,        \* PSTATE.I of the CPU
  cpu            \* "run", "hung" (spinning with IRQs masked) or "halted"

tableVars == <<state, wait_for_tid, parent_tid, pending, handlers, num_tasks>>
vars == <<state, wait_for_tid, parent_tid, pending, handlers, num_tasks,
          current_task, pc, picked, waitarg, framed, masked, cpu>>

States == {"UNUSED", "READY", "RUNNING", "BLOCKED", "FINISHED"}

\* boot, idle: kernel_main; start: task_wrapper or fork_child_return, before
\* the first eret; el0: user code; wait: inside sched_wait, after its yield;
\* poll: inside the blocking loop of a pipe read or write; deliver: at the
\* end of syscall_handler; reap: in sched_exit, FINISHED but not yet gone;
\* dead: behind the sched_yield of sched_exit.
Places == {"boot", "idle", "start", "el0", "wait", "poll", "deliver",
           "reap", "dead"}

TypeOK ==
  /\ state \in [Tasks -> States]
  /\ wait_for_tid \in [Tasks -> Tasks \cup {None}]
  /\ parent_tid \in [Tasks -> Tasks \cup {None}]
  /\ pending \in [Tasks -> SUBSET Signals]
  /\ handlers \in [Tasks -> [Signals -> Handlers]]
  /\ num_tasks \in 1 .. MAX_TASKS
  /\ current_task \in 0 .. num_tasks - 1
  /\ pc \in [Tasks -> Places]
  /\ picked \in [Tasks -> Tasks \cup {None}]
  /\ waitarg \in [Tasks -> Tasks \cup {None}]
  /\ framed \in [Tasks -> BOOLEAN]
  /\ masked \in BOOLEAN
  /\ cpu \in {"run", "hung", "halted"}

\* After sched_init, in demo_filesystem: the caller is task 0, IRQs are on.
Init ==
  /\ state = [t \in Tasks |-> IF t = 0 THEN "RUNNING" ELSE "UNUSED"]
  /\ wait_for_tid = [t \in Tasks |-> None]
  /\ parent_tid = [t \in Tasks |-> 0]      \* the table starts zeroed
  /\ pending = [t \in Tasks |-> {}]
  /\ handlers = [t \in Tasks |-> [s \in Signals |-> "dfl"]]
  /\ num_tasks = 1
  /\ current_task = 0
  /\ pc = [t \in Tasks |-> IF t = 0 THEN "boot" ELSE "start"]
  /\ picked = [t \in Tasks |-> None]
  /\ waitarg = [t \in Tasks |-> None]
  /\ framed = [t \in Tasks |-> FALSE]
  /\ masked = FALSE
  /\ cpu = "run"

-----------------------------------------------------------------------------
(* Choosing and switching.                                                 *)

\* pick_next on the task states st: the first READY task after the current
\* one in cyclic order, else the current one if it can go on, else idle.
ReadySteps(st) ==
  {i \in 1 .. num_tasks : st[(current_task + i) % num_tasks] = "READY"}
\* (Variant: a scan that always starts at slot 0.)
PickNextFromZero(st) ==
  IF \E t \in 0 .. num_tasks - 1 : st[t] = "READY"
  THEN CHOOSE t \in 0 .. num_tasks - 1 :
         st[t] = "READY" /\ \A u \in 0 .. t - 1 : st[u] # "READY"
  ELSE IF st[current_task] = "RUNNING" THEN current_task ELSE 0
PickNext(st) ==
  IF ReadySteps(st) # {}
  THEN LET first == CHOOSE i \in ReadySteps(st) :
                      \A j \in ReadySteps(st) : i <= j
       IN  (current_task + first) % num_tasks
  ELSE IF st[current_task] = "RUNNING" THEN current_task ELSE 0

\* (Variants: a previous task that is not demoted, and one that always is.)
SwitchedKeepsPrevious(next) == [state EXCEPT ![next] = "RUNNING"]
SwitchedDemotesAny(next) == [state EXCEPT ![current_task] = "READY", ![next] = "RUNNING"]

\* The task states when the CPU passes from the current task to next.
Switched(next) ==
  [state EXCEPT ![current_task] = IF @ = "RUNNING" THEN "READY" ELSE @,
                ![next] = "RUNNING"]

\* Task t, at place p, is the one whose instructions the CPU executes.
At(t, p) == cpu = "run" /\ current_task = t /\ picked[t] = None /\ pc[t] = p

Goto(t, p) == pc' = [pc EXCEPT ![t] = p]

\* First half of sched_yield, with the task states of the step that calls it.
Yield(t) == picked' = [picked EXCEPT ![t] = PickNext(state')]

\* Second half: switch_to and context_switch.  next was chosen earlier; the
\* CPU keeps its mask unless next resumes through the exit path of irq_entry.
SwitchTo(t) ==
  /\ cpu = "run" /\ current_task = t /\ picked[t] # None
  /\ picked' = [picked EXCEPT ![t] = None]
  /\ IF picked[t] = t
     THEN UNCHANGED <<state, current_task, framed, masked>>
     ELSE /\ state' = Switched(picked[t])
          /\ current_task' = picked[t]
          /\ framed' = [framed EXCEPT ![picked[t]] = FALSE]
          /\ masked' = (masked /\ ~framed[picked[t]])
  /\ UNCHANGED <<wait_for_tid, parent_tid, pending, handlers, num_tasks,
                 pc, waitarg, cpu>>

\* Where a timer interrupt can be taken: user code and the idle loop, and
\* any other kernel code when KernelPreemptible.  Kernel code behind a
\* sched_exit that was switched out and comes back has no further step here.
Interruptible(t) ==
  /\ ~masked
  /\ \/ KernelPreemptible
     \/ pc[t] \in {"el0", "boot", "idle"} /\ picked[t] = None

\* irq_entry, irq_handler and sched_tick: masked while they run, so one step.
\* (A tick that picks the current task again changes nothing kept here.)
Tick ==
  LET next == PickNext(state) IN
  /\ cpu = "run" /\ Interruptible(current_task)
  /\ next # current_task
  /\ state' = Switched(next)
  /\ current_task' = next
  /\ framed' = [framed EXCEPT ![current_task] = TRUE, ![next] = FALSE]
  /\ masked' = ~framed[next]
  /\ UNCHANGED <<wait_for_tid, parent_tid, pending, handlers, num_tasks,
                 pc, picked, waitarg, cpu>>

-----------------------------------------------------------------------------
(* Operations on the task table.                                           *)

\* The end of sched_create_user and of sched_fork: slot num_tasks is filled.
CreateTask(parent, hs) ==
  /\ num_tasks' = num_tasks + 1
  /\ state' = [state EXCEPT ![num_tasks] = "READY"]
  /\ wait_for_tid' = [wait_for_tid EXCEPT ![num_tasks] = None]
  /\ parent_tid' = [parent_tid EXCEPT ![num_tasks] = parent]
  /\ pending' = [pending EXCEPT ![num_tasks] = {}]
  /\ handlers' = [handlers EXCEPT ![num_tasks] = hs]

\* The tasks signal_send accepts, in the table as it is now.
Signalable(t) == t \in 0 .. num_tasks - 1 /\ state[t] \notin {"UNUSED", "FINISHED"}

\* (Variants: the waiters are forgotten; every BLOCKED task is woken.)
WokenByExitNoWaiters(t) == {u \in Tasks : state[u] = "BLOCKED" /\ u = parent_tid[t]}
WokenByExitAll(t) == {u \in Tasks : state[u] = "BLOCKED"}

\* The tasks that the end of task t makes READY: its parent, when it is
\* BLOCKED on whatever (signal_send), and those waiting for t (sched_exit).
WokenByExit(t) ==
  {u \in Tasks : /\ state[u] = "BLOCKED"
                 /\ u = parent_tid[t] \/ wait_for_tid[u] = t}

\* State and wait_for_tid when the tasks in W are woken.
Wake(W) ==
  /\ state' = [u \in Tasks |-> IF u \in W THEN "READY" ELSE state[u]]
  /\ wait_for_tid' = [u \in Tasks |-> IF u \in W THEN None ELSE wait_for_tid[u]]

\* (Variant: a signal replaces the others.)
SendSignalReplaces(tid, sig) ==
  IF Signalable(tid)
  THEN /\ pending' = [pending EXCEPT ![tid] = {sig}]
       /\ Wake({tid} \cap {u \in Tasks : state[u] = "BLOCKED"})
  ELSE UNCHANGED <<pending, state, wait_for_tid>>

\* signal_send(tid, sig) with a valid sig.
SendSignal(tid, sig) ==
  IF Signalable(tid)
  THEN /\ pending' = [pending EXCEPT ![tid] = @ \cup {sig}]
       /\ Wake({tid} \cap {u \in Tasks : state[u] = "BLOCKED"})
  ELSE UNCHANGED <<pending, state, wait_for_tid>>

\* The first step of sched_exit.
Finish(t) == state' = [state EXCEPT ![t] = "FINISHED"] /\ Goto(t, "reap")

-----------------------------------------------------------------------------
(* System calls and faults of the program in task t.                       *)

\* An SVC or a fault: the CPU leaves EL0 with IRQs masked.
Trap(t) == At(t, "el0") /\ masked' = TRUE

\* Calls that neither switch nor touch the task table: getpid, sbrk, open,
\* close, dup2, listdir, sigreturn, reads and writes that need not wait, ...
SysPlain(t) ==
  /\ Trap(t)
  /\ Goto(t, "deliver")
  /\ UNCHANGED <<tableVars, current_task, picked, waitarg, framed, cpu>>

SysYield(t) ==
  /\ Trap(t)
  /\ Goto(t, "deliver")
  /\ UNCHANGED tableVars
  /\ Yield(t)
  /\ UNCHANGED <<current_task, waitarg, framed, cpu>>

\* sched_wait, up to its return or its switch away.
SysWait(t, tid) ==
  /\ Trap(t)
  /\ IF tid >= num_tasks \/ state[tid] = "FINISHED"
     THEN /\ Goto(t, "deliver")
          /\ UNCHANGED <<state, wait_for_tid, waitarg, picked>>
     ELSE /\ Goto(t, "wait")
          /\ state' = [state EXCEPT ![t] = "BLOCKED"]
          /\ wait_for_tid' = [wait_for_tid EXCEPT ![t] = tid]
          /\ waitarg' = [waitarg EXCEPT ![t] = tid]
          /\ Yield(t)
  /\ UNCHANGED <<parent_tid, pending, handlers, num_tasks, current_task,
                 framed, cpu>>

\* Switched to again, sched_wait returns 0 without looking at its target.
WaitReturn(t) ==
  /\ At(t, "wait")
  /\ Goto(t, "deliver")
  /\ waitarg' = [waitarg EXCEPT ![t] = None]
  /\ UNCHANGED <<tableVars, current_task, picked, framed, masked, cpu>>

\* A pipe read or write that has to wait: it loops, calling sched_yield,
\* until the condition that it tests (abstracted here) lets it return.
SysPoll(t) ==
  /\ Trap(t)
  /\ Goto(t, "poll")
  /\ UNCHANGED <<tableVars, current_task, picked, waitarg, framed, cpu>>

PollAgain(t) ==
  /\ At(t, "poll")
  /\ UNCHANGED tableVars
  /\ Yield(t)
  /\ UNCHANGED <<current_task, pc, waitarg, framed, masked, cpu>>

PollDone(t) ==
  /\ At(t, "poll")
  /\ Goto(t, "deliver")
  /\ UNCHANGED <<tableVars, current_task, picked, waitarg, framed, masked, cpu>>

\* (Variant: the test for a full table is off by one.)
SysForkPastEnd(t) ==
  /\ Trap(t)
  /\ \/ num_tasks <= MAX_TASKS /\ CreateTask(t, handlers[t])
     \/ UNCHANGED tableVars
  /\ Goto(t, "deliver")
  /\ UNCHANGED <<current_task, picked, waitarg, framed, cpu>>

\* sched_fork and SYS_EXEC, which fail when the table is full, and also when
\* memory or, for exec, the file cannot be had.
SysFork(t) ==
  /\ Trap(t)
  /\ \/ num_tasks < MAX_TASKS /\ CreateTask(t, handlers[t])
     \/ UNCHANGED tableVars
  /\ Goto(t, "deliver")
  /\ UNCHANGED <<current_task, picked, waitarg, framed, cpu>>

NoHandlers == [s \in Signals |-> "dfl"]     \* signal_init

SysExec(t) ==
  /\ Trap(t)
  /\ \/ num_tasks < MAX_TASKS /\ CreateTask(None, NoHandlers)
     \/ UNCHANGED tableVars
  /\ Goto(t, "deliver")
  /\ UNCHANGED <<current_task, picked, waitarg, framed, cpu>>

SysKill(t, tid, sig) ==
  /\ Trap(t)
  /\ SendSignal(tid, sig)
  /\ Goto(t, "deliver")
  /\ UNCHANGED <<parent_tid, handlers, num_tasks, current_task, picked,
                 waitarg, framed, cpu>>

\* signal_set_handler, which refuses SIGKILL.
SysSignal(t, sig, h) ==
  /\ Trap(t)
  /\ handlers' = IF sig = SIGKILL THEN handlers
                 ELSE [handlers EXCEPT ![t][sig] = h]
  /\ Goto(t, "deliver")
  /\ UNCHANGED <<state, wait_for_tid, parent_tid, pending, num_tasks,
                 current_task, picked, waitarg, framed, cpu>>

SysExit(t) ==
  /\ Trap(t)
  /\ Finish(t)
  /\ UNCHANGED <<wait_for_tid, parent_tid, pending, handlers, num_tasks,
                 current_task, picked, waitarg, framed, cpu>>

\* unhandled_sync_el0: a task with a SIGSEGV handler is sent the signal, and
\* the return goes to the "b ." behind the call in sync_el0_not_svc.
Fault(t) ==
  /\ Trap(t)
  /\ IF handlers[t][SIGSEGV] = "usr"
     THEN /\ SendSignal(t, SIGSEGV)
          /\ cpu' = "hung"
          /\ UNCHANGED pc
     ELSE Finish(t) /\ UNCHANGED <<pending, wait_for_tid, cpu>>
  /\ UNCHANGED <<parent_tid, handlers, num_tasks, current_task, picked,
                 waitarg, framed>>

-----------------------------------------------------------------------------
(* Leaving the kernel.                                                     *)

LowestPending(t) ==
  CHOOSE s \in pending[t] : \A r \in pending[t] : s <= r

\* SIGKILL, or the default action of every other signal but SIGCHLD.
Fatal(t, sig) ==
  sig = SIGKILL \/ (handlers[t][sig] = "dfl" /\ sig # SIGCHLD)

\* What signal_deliver leaves pending: the bit of one signal is cleared.
AfterDelivery(t) == pending[t] \ {LowestPending(t)}

\* signal_deliver, and the eret at the end of sync_el0_entry, or the exit of
\* a task that the signal kills.
Deliver(t) ==
  /\ At(t, "deliver")
  /\ IF pending[t] # {} /\ Fatal(t, LowestPending(t))
     THEN Finish(t) /\ UNCHANGED masked
     ELSE Goto(t, "el0") /\ masked' = FALSE /\ UNCHANGED state
  /\ pending' = IF pending[t] = {} THEN pending
                ELSE [pending EXCEPT ![t] = AfterDelivery(t)]
  /\ UNCHANGED <<wait_for_tid, parent_tid, handlers, num_tasks, current_task,
                 picked, waitarg, framed, cpu>>

\* The rest of sched_exit: SIGCHLD to the parent, the waiters are woken, and
\* the CPU is given away for good.
Reap(t) ==
  /\ At(t, "reap")
  /\ pending' = IF parent_tid[t] # None /\ Signalable(parent_tid[t])
                THEN [pending EXCEPT ![parent_tid[t]] = @ \cup {SIGCHLD}]
                ELSE pending
  /\ Wake(WokenByExit(t))
  /\ Goto(t, "dead")
  /\ Yield(t)
  /\ UNCHANGED <<parent_tid, handlers, num_tasks, current_task, waitarg,
                 framed, masked, cpu>>

\* task_wrapper or fork_child_return: IRQs are enabled, then eret to EL0.
Launch(t) ==
  /\ At(t, "start")
  /\ Goto(t, "el0")
  /\ masked' = FALSE
  /\ UNCHANGED <<tableVars, current_task, picked, waitarg, framed, cpu>>

-----------------------------------------------------------------------------
(* Task 0.                                                                 *)

\* The shell is created; main.c does not look at the result.
BootShell ==
  /\ At(0, "boot")
  /\ \/ num_tasks < MAX_TASKS /\ CreateTask(None, NoHandlers)
     \/ UNCHANGED tableVars
  /\ Goto(0, "idle")
  /\ UNCHANGED <<current_task, picked, waitarg, framed, masked, cpu>>

\* (Variant: the idle loop takes a FINISHED task for a live one.)
AnyUsed == \E t \in 1 .. num_tasks - 1 : state[t] # "UNUSED"
AnyAlive == \E t \in 1 .. num_tasks - 1 : state[t] \notin {"FINISHED", "UNUSED"}

IdleYield ==
  /\ At(0, "idle") /\ AnyAlive
  /\ UNCHANGED tableVars
  /\ Yield(0)
  /\ UNCHANGED <<current_task, pc, waitarg, framed, masked, cpu>>

\* timer_disable, irq_disable, halt.
Halt ==
  /\ At(0, "idle") /\ ~AnyAlive
  /\ cpu' = "halted"
  /\ masked' = TRUE
  /\ UNCHANGED <<tableVars, current_task, pc, picked, waitarg, framed>>

\* The CPU spins or sleeps for ever: nothing more happens.
Stopped == cpu # "run" /\ UNCHANGED vars

-----------------------------------------------------------------------------
Syscall(t) ==
  \/ SysPlain(t) \/ SysYield(t) \/ SysPoll(t)
  \/ SysFork(t) \/ SysExec(t) \/ SysExit(t)
  \/ \E tid \in Tasks : SysWait(t, tid)
  \/ \E tid \in Tasks, sig \in Sendable : SysKill(t, tid, sig)
  \/ \E sig \in Settable, h \in Handlers : SysSignal(t, sig, h)

\* What the CPU does by itself once it is in the kernel.
KernelStep(t) ==
  \/ SwitchTo(t) \/ WaitReturn(t) \/ PollAgain(t) \/ PollDone(t)
  \/ Deliver(t) \/ Reap(t) \/ Launch(t)

Next ==
  \/ Tick
  \/ \E t \in Users : Syscall(t) \/ Fault(t)
  \/ \E t \in Tasks : KernelStep(t)
  \/ BootShell \/ IdleYield \/ Halt
  \/ Stopped

Spec == Init /\ [][Next]_vars

\* Fairness: the CPU goes on with kernel code; the timer interrupt, which
\* stays pending while masked, is taken at one of the places that allow it.
\* Nothing is assumed of programs.
Fairness ==
  /\ \A t \in Tasks : WF_vars(KernelStep(t))
  /\ WF_vars(BootShell \/ IdleYield \/ Halt)
  /\ SF_vars(Tick)

FairSpec == Spec /\ Fairness

-----------------------------------------------------------------------------
(* Properties.                                                             *)

\* Mutual exclusion on the CPU: only the current task is RUNNING, and it is
\* whenever its code executes, but for the instants in which it has blocked
\* or ended and not yet switched away (switch_to, sched_tick, sched_exit).
CurrentRuns ==
  /\ \A t \in Tasks : state[t] = "RUNNING" => t = current_task
  /\ cpu = "run" /\ picked[current_task] = None /\ pc[current_task] # "reap"
       => state[current_task] = "RUNNING"

\* pick_next falls back on task 0 without a look at its state: that is sound
\* because task 0 can always go on.
IdleCanRun == state[0] \in {"READY", "RUNNING"}

\* Slots are handed out in order and never given back: exactly those below
\* num_tasks hold a task, which is what pick_next, sched_wait and
\* signal_send rely on when they take num_tasks for the end of the table.
SlotsInOrder == \A t \in Tasks : state[t] = "UNUSED" <=> t >= num_tasks

\* No lost wakeup: a BLOCKED task waits for the task it asked for, and that
\* task has not ended, or is in sched_exit on its way to wake the waiters.
NoLostWakeup ==
  \A t \in Tasks : state[t] = "BLOCKED" =>
    /\ wait_for_tid[t] = waitarg[t]
    /\ waitarg[t] \in 0 .. num_tasks - 1
    /\ state[waitarg[t]] = "FINISHED" =>
         pc[waitarg[t]] = "reap" /\ current_task = waitarg[t]

\* User code runs with IRQs unmasked, whatever mask the code that switched
\* to it had (drop_to_el0, irq_entry): else it could never be preempted.
UserCodePreemptible ==
  cpu = "run" /\ picked[current_task] = None /\ pc[current_task] = "el0"
    => ~masked

\* The end of a task is final: no switch, wakeup or signal revives it.
FinishedIsFinal ==
  [][\A t \in Tasks : state[t] = "FINISHED" => state'[t] = "FINISHED"]_vars

\* sched_wait returns for a reason: its target has ended, or the waiter has
\* a signal to take, which is still pending when it returns.
WaitReturnsForAReason ==
  [][\A t \in Tasks : pc[t] = "wait" /\ pc'[t] = "deliver" =>
       state[waitarg[t]] = "FINISHED" \/ pending[t] # {}]_vars

\* A SIGKILL that signal_send has accepted is not lost: it stays pending,
\* whatever else is delivered, until it ends the task.
KillIsNotLost ==
  [][\A t \in Tasks : SIGKILL \in pending[t] =>
       SIGKILL \in pending'[t] \/ state'[t] = "FINISHED"]_vars

\* Round robin starves nobody: a READY task runs, or the system stops.
ReadyTaskRuns ==
  \A t \in Tasks : state[t] = "READY" ~> state[t] = "RUNNING" \/ cpu # "run"

\* A task that waits for a task that has ended is woken.
WaiterWakes ==
  \A t, u \in Tasks :
    state[t] = "BLOCKED" /\ wait_for_tid[t] = u /\ state[u] = "FINISHED"
      ~> state[t] # "BLOCKED"

\* When every task has ended, the idle loop finds out and the system halts.
SystemHalts ==
  (num_tasks > 1 /\ \A t \in Users : state[t] \in {"FINISHED", "UNUSED"})
     ~> cpu = "halted"

-----------------------------------------------------------------------------
(* What comments of the code say and the code does not do.                 *)

\* sched.c:350, behind the yield of sched_wait: "We've been woken up - target
\* is finished".
WaitReturnsWhenTargetFinished ==
  [][\A t \in Tasks : pc[t] = "wait" /\ pc'[t] = "deliver" =>
       state[waitarg[t]] = "FINISHED"]_vars

=============================================================================
