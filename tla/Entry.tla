------------------------------- MODULE Entry -------------------------------
(***************************************************************************)
(* How the CPU gets into the kernel and back: irq_entry of start.S,        *)
(* sync_el0_entry and drop_to_el0 of el0_entry.S, context_switch.S, and    *)
(* task_wrapper and fork_child_return of sched.c, with the registers that  *)
(* they share: ELR_EL1, SPSR_EL1, SP_EL0, the general registers, PSTATE.I  *)
(* and TTBR0.  Every task has a kernel stack with frames of saved          *)
(* registers on it, and, when it is switched out, a kernel context.  With  *)
(* them, what signal_deliver and signal_return of signal.c do to the frame *)
(* of a system call; which signals are pending is the matter of Sched.     *)
(*                                                                         *)
(* The values of registers are addresses: a point of a program, which      *)
(* stands for all that the program has in its registers there, or a place  *)
(* of the kernel.  Which task is switched to is the matter of Sched: here  *)
(* it may be any.  KernelPreemptible says whether interrupts are taken in  *)
(* kernel code that runs unmasked, the idle loop apart.                    *)
(***************************************************************************)
EXTENDS Integers, Sequences, SequencesExt

CONSTANTS
  MaxTid,             \* the highest task number
  Points,             \* how many points each program has (a bound)
  Nesting,            \* how deep signal handlers nest (a bound)
  KernelPreemptible

ASSUME EntryAssumption ==
  /\ MaxTid \in Nat /\ Points \in Nat \ {0} /\ Nesting \in Nat
  /\ KernelPreemptible \in BOOLEAN

Tasks == 0 .. MaxTid      \* 0 is the idle task
Users == 1 .. MaxTid

\* Addresses, as triples so that they can be compared.
User(t, v) == <<"user", t, v>>
Kernel(label) == <<label, 0, 0>>

\* The start of a handler that runs on the signal frame of that depth, which
\* is also the address of that frame on the user stack.
Handler(t, depth) == User(t, Points - 1 + depth)
DepthOf(addr) == addr[3] - (Points - 1)
UserAddrs == {User(t, v) : t \in Users, v \in 0 .. Points - 1 + Nesting}
\* svc, irq: in syscall_handler and irq_handler; ret1, ret2: in the exit path
\* of the entry code, before the msr's and before the ldp's and eret; wrap:
\* task_wrapper; drop1 .. drop3: drop_to_el0, before elr, before spsr, and
\* before eret; fork: fork_child_return; crash: an exception in kernel code
\* or a jump of EL0 into it; data: in a register, a value of the kernel's.
KernelAddrs == {Kernel(l) : l \in {"idle", "svc", "irq", "ret1", "ret2", "wrap",
                  "drop1", "drop2", "drop3", "fork", "crash", "data"}}
Addrs == UserAddrs \cup KernelAddrs

\* A saved program status: the level and the mask.
InEL0 == [el |-> 0, masked |-> FALSE]
Statuses == [el : {0, 1}, masked : BOOLEAN]
Frames == [x : Addrs, sp_el0 : Addrs, elr : Addrs, spsr : Statuses]

VARIABLES
  current_task,
  place,          \* the PC
  x, sp_el0, elr, spsr,
  masked,         \* PSTATE.I
  ttbr0,          \* whose page tables
  active,         \* the interrupt is acknowledged and not yet ended
  stack,          \* the frames on the kernel stack of each task
  ctx,            \* where context_switch returns to in each task
  sigframes,      \* the signal frames on the user stack of each program
  alive,          \* the tasks that exist and have not ended
  born,           \* how many were created, task 0 included
  user,           \* the point at which each program is, as it sees it
  interrupted     \* the points at which handlers interrupted it

registers == <<x, sp_el0, elr, spsr>>
tasks == <<stack, ctx, alive, born>>
handling == <<sigframes, interrupted>>
program == <<user, handling>>
vars == <<current_task, place, x, sp_el0, elr, spsr, masked, ttbr0, active,
          stack, ctx, sigframes, alive, born, user, interrupted>>

TypeOK ==
  /\ current_task \in Tasks
  /\ place \in Addrs /\ x \in Addrs /\ sp_el0 \in Addrs /\ elr \in Addrs
  /\ spsr \in Statuses
  /\ masked \in BOOLEAN /\ ttbr0 \in Tasks /\ active \in BOOLEAN
  /\ stack \in [Tasks -> Seq(Frames)]
  /\ ctx \in [Tasks -> KernelAddrs]
  /\ alive \subseteq Tasks /\ born \in 1 .. MaxTid + 1
  /\ user \in [Users -> UserAddrs]
  /\ sigframes \in [Users -> Seq(Frames)]
  /\ interrupted \in [Users -> Seq(UserAddrs)]

\* In the idle loop of main.c; the first program is created from there.
Init ==
  /\ current_task = 0
  /\ place = Kernel("idle")
  /\ x = Kernel("data") /\ sp_el0 = Kernel("data") /\ elr = Kernel("data")
  /\ spsr = [el |-> 1, masked |-> TRUE]
  /\ masked = FALSE /\ ttbr0 = 0 /\ active = FALSE
  /\ stack = [t \in Tasks |-> <<>>]
  /\ ctx = [t \in Tasks |-> Kernel("wrap")]
  /\ alive = {0} /\ born = 1
  /\ user = [t \in Users |-> User(t, 0)]
  /\ sigframes = [t \in Users |-> <<>>]
  /\ interrupted = [t \in Users |-> <<>>]

-----------------------------------------------------------------------------
At(label) == place = Kernel(label)
Goto(label) == place' = Kernel(label)
OnUser == place \in UserAddrs

\* (Variant: SP_EL0 is not saved.)
EnterNoSp(label, level) ==
  /\ elr' = place
  /\ spsr' = [el |-> level, masked |-> masked]
  /\ masked' = TRUE
  /\ stack' = [stack EXCEPT ![current_task] =
       Append(@, [x |-> x, sp_el0 |-> Kernel("data"), elr |-> place,
                  spsr |-> [el |-> level, masked |-> masked]])]
  /\ x' = Kernel("data")
  /\ Goto(label)

\* An exception at the place where the CPU is: what the hardware saves, and
\* the frame that the entry code pushes.
Enter(label, level) ==
  /\ elr' = place
  /\ spsr' = [el |-> level, masked |-> masked]
  /\ masked' = TRUE
  /\ stack' = [stack EXCEPT ![current_task] =
       Append(@, [x |-> x, sp_el0 |-> sp_el0, elr |-> place,
                  spsr |-> [el |-> level, masked |-> masked]])]
  /\ x' = Kernel("data")
  /\ Goto(label)

\* eret with these registers: EL0 cannot execute kernel code.
Eret ==
  /\ place' = IF spsr.el = 0 /\ elr \notin UserAddrs THEN Kernel("crash") ELSE elr
  /\ masked' = spsr.masked

\* switch_to, or sched_tick: the CPU goes on in task next where that was
\* switched out, and will come back to label.  PSTATE.I stays as it is.
Switch(next, label) ==
  /\ next \in alive \ {current_task}
  /\ ctx' = [ctx EXCEPT ![current_task] = Kernel(label)]
  /\ current_task' = next
  /\ place' = ctx[next]
  /\ ttbr0' = next
  /\ x' = Kernel("data")

-----------------------------------------------------------------------------
(* Programs.                                                               *)

\* The program goes on to its next point, changing its registers.  (What a
\* handler does before its next call is its one point.)
UserStep ==
  LET next == User(current_task, (user[current_task][3] + 1) % Points) IN
  /\ OnUser /\ interrupted[current_task] = <<>>
  /\ user' = [user EXCEPT ![current_task] = next]
  /\ place' = next /\ x' = next /\ sp_el0' = next
  /\ UNCHANGED <<current_task, elr, spsr, masked, ttbr0, active, tasks, handling>>

Svc ==
  /\ OnUser
  /\ Enter("svc", 0)
  /\ UNCHANGED <<current_task, sp_el0, ttbr0, active, ctx, alive, born, program>>

-----------------------------------------------------------------------------
(* In the kernel.                                                          *)

\* The end of a call of task t: regs is what it leaves in the frame, frames
\* are the signal frames on the user stack, here and saved the program's
\* point and those it was interrupted at.  signal_deliver may find a signal
\* with a handler: it pushes regs on the user stack and makes them those of
\* the start of the handler.
Deliver(t, regs, frames, here, saved) ==
  LET start == Handler(t, Len(frames) + 1)
      LeaveWith(r) == stack' = [stack EXCEPT ![t] = Append(Front(@), r)] IN
  /\ Goto("ret1")
  /\ \/ /\ LeaveWith(regs)
        /\ sigframes' = [sigframes EXCEPT ![t] = frames]
        /\ user' = [user EXCEPT ![t] = here]
        /\ interrupted' = [interrupted EXCEPT ![t] = saved]
     \/ /\ Len(frames) < Nesting
        /\ LeaveWith([regs EXCEPT !.x = start, !.sp_el0 = start, !.elr = start])
        /\ sigframes' = [sigframes EXCEPT ![t] = Append(frames, regs)]
        /\ user' = [user EXCEPT ![t] = start]
        /\ interrupted' = [interrupted EXCEPT ![t] = Append(saved, here)]

SysReturn ==
  LET t == current_task IN
  /\ At("svc")
  /\ Deliver(t, Last(stack[t]), sigframes[t], user[t], interrupted[t])
  /\ UNCHANGED <<current_task, registers, masked, ttbr0, active, ctx, alive, born>>

\* (Variant: only the PC and the stack pointer come back from the frame.)
SysSigreturnPartly ==
  LET t == current_task
      regs == Last(stack[t])
      depth == DepthOf(regs.sp_el0)
      saved == sigframes[t][depth] IN
  /\ At("svc") /\ interrupted[t] # <<>>
  /\ Deliver(t, [regs EXCEPT !.sp_el0 = saved.sp_el0, !.elr = saved.elr],
             SubSeq(sigframes[t], 1, depth - 1),
             Last(interrupted[t]), Front(interrupted[t]))
  /\ UNCHANGED <<current_task, registers, masked, ttbr0, active, ctx, alive, born>>

\* signal_return, called by the trampoline at the end of a handler: the frame
\* is the one that SP_EL0 points at.  Then, signal_deliver as ever.
SysSigreturn ==
  LET t == current_task
      depth == DepthOf(Last(stack[t]).sp_el0) IN
  /\ At("svc") /\ interrupted[t] # <<>>
  /\ Deliver(t, sigframes[t][depth], SubSeq(sigframes[t], 1, depth - 1),
             Last(interrupted[t]), Front(interrupted[t]))
  /\ UNCHANGED <<current_task, registers, masked, ttbr0, active, ctx, alive, born>>

\* sched_yield, sched_wait and the loops of pipe reads and writes.
SysSwitch(next) ==
  /\ At("svc") /\ Switch(next, "svc")
  /\ UNCHANGED <<sp_el0, elr, spsr, masked, active, stack, alive, born, program>>

\* sched_exit, of a call or of a fault.
SysExit(next) ==
  /\ At("svc") /\ Switch(next, "crash")
  /\ alive' = alive \ {current_task}
  /\ UNCHANGED <<sp_el0, elr, spsr, masked, active, stack, born, program>>

\* (Variant: the test for a full table is off by one.)
CreatePastEnd ==
  /\ At("svc") \/ (At("idle") /\ born = 1)
  /\ born <= MaxTid + 1
  /\ born' = born + 1 /\ alive' = alive \cup {born}
  /\ ctx' = [ctx EXCEPT ![born] = Kernel("wrap")]
  /\ stack' = [stack EXCEPT ![born] = <<>>]
  /\ UNCHANGED <<current_task, place, registers, masked, ttbr0, active, program>>

\* sched_create_user, of SYS_EXEC or of the idle task before its loop.
Create ==
  /\ At("svc") \/ (At("idle") /\ born = 1)
  /\ born <= MaxTid
  /\ born' = born + 1 /\ alive' = alive \cup {born}
  /\ ctx' = [ctx EXCEPT ![born] = Kernel("wrap")]
  /\ stack' = [stack EXCEPT ![born] = <<>>]
  /\ UNCHANGED <<current_task, place, registers, masked, ttbr0, active, program>>

\* sched_fork: the child gets a copy of the frame of its parent's call, and
\* of its stack.
Fork ==
  /\ At("svc") /\ born <= MaxTid
  /\ born' = born + 1 /\ alive' = alive \cup {born}
  /\ ctx' = [ctx EXCEPT ![born] = Kernel("fork")]
  /\ stack' = [stack EXCEPT ![born] = <<Last(stack[current_task])>>]
  /\ user' = [user EXCEPT ![born] = user[current_task]]
  /\ sigframes' = [sigframes EXCEPT ![born] = sigframes[current_task]]
  /\ interrupted' = [interrupted EXCEPT ![born] = interrupted[current_task]]
  /\ UNCHANGED <<current_task, place, registers, masked, ttbr0, active>>

IdleYield(next) ==
  /\ At("idle") /\ Switch(next, "idle")
  /\ UNCHANGED <<sp_el0, elr, spsr, masked, active, stack, alive, born, program>>

\* An interrupt: taken, ...
Interruptible ==
  /\ ~masked /\ ~active
  /\ OnUser \/ At("idle") \/ (KernelPreemptible /\ ~At("crash"))
Irq ==
  /\ Interruptible
  /\ active' = TRUE
  /\ Enter("irq", IF OnUser THEN 0 ELSE 1)
  /\ UNCHANGED <<current_task, sp_el0, ttbr0, ctx, alive, born, program>>

\* (Variant: the interrupt is ended after sched_tick, by whom it returns to.)
IrqHandlerEoiLast ==
  /\ At("irq")
  /\ \/ Goto("ret1") /\ active' = FALSE /\ UNCHANGED <<current_task, ttbr0, x, ctx>>
     \/ (\E next \in Tasks : Switch(next, "irq")) /\ UNCHANGED active
  /\ UNCHANGED <<sp_el0, elr, spsr, masked, stack, alive, born, program>>

\* ... handled: irq_handler ends it, then sched_tick may switch.
IrqHandler ==
  /\ At("irq")
  /\ active' = FALSE
  /\ \/ Goto("ret1") /\ UNCHANGED <<current_task, ttbr0, x, ctx>>
     \/ \E next \in Tasks : Switch(next, "ret1")
  /\ UNCHANGED <<sp_el0, elr, spsr, masked, stack, alive, born, program>>

-----------------------------------------------------------------------------
(* Back to where the exception came from.                                  *)

\* SP_EL0, ELR_EL1 and SPSR_EL1 are restored from the frame, ...
Ret1 ==
  /\ At("ret1")
  /\ elr' = Last(stack[current_task]).elr
  /\ spsr' = Last(stack[current_task]).spsr
  /\ sp_el0' = Last(stack[current_task]).sp_el0
  /\ Goto("ret2")
  /\ UNCHANGED <<current_task, x, masked, ttbr0, active, tasks, program>>

\* ... then the general registers; the frame is popped; eret.  (Executed once
\* too often, this reads past the end of the stack.)
Ret2 ==
  /\ At("ret2")
  /\ IF stack[current_task] = <<>>
     THEN Goto("crash") /\ UNCHANGED <<x, masked, stack>>
     ELSE /\ x' = Last(stack[current_task]).x
          /\ stack' = [stack EXCEPT ![current_task] = Front(@)]
          /\ Eret
  /\ UNCHANGED <<current_task, sp_el0, elr, spsr, ttbr0, active, ctx, alive, born, program>>

\* fork_child_return unmasks, then does the same.
ForkReturn ==
  /\ At("fork") /\ Goto("ret1")
  /\ masked' = FALSE
  /\ UNCHANGED <<current_task, registers, ttbr0, active, tasks, program>>

\* task_wrapper unmasks and calls drop_to_el0, which sets SP_EL0 and ELR_EL1,
\* then SPSR_EL1, then clears the general registers, and erets.
Wrap ==
  /\ At("wrap") /\ Goto("drop1")
  /\ masked' = FALSE
  /\ UNCHANGED <<current_task, registers, ttbr0, active, tasks, program>>

Drop1 ==
  /\ At("drop1") /\ Goto("drop2")
  /\ sp_el0' = User(current_task, 0) /\ elr' = User(current_task, 0)
  /\ UNCHANGED <<current_task, x, spsr, masked, ttbr0, active, tasks, program>>

Drop2 ==
  /\ At("drop2") /\ Goto("drop3")
  /\ spsr' = InEL0
  /\ UNCHANGED <<current_task, x, sp_el0, elr, masked, ttbr0, active, tasks, program>>

Drop3 ==
  /\ At("drop3")
  /\ x' = User(current_task, 0)
  /\ Eret
  /\ UNCHANGED <<current_task, sp_el0, elr, spsr, ttbr0, active, tasks, program>>

Next ==
  \/ UserStep \/ Svc
  \/ SysReturn \/ SysSigreturn \/ Create \/ Fork
  \/ \E next \in Tasks : SysSwitch(next) \/ SysExit(next) \/ IdleYield(next)
  \/ Irq \/ IrqHandler
  \/ Ret1 \/ Ret2 \/ ForkReturn \/ Wrap \/ Drop1 \/ Drop2 \/ Drop3

Spec == Init /\ [][Next]_vars

-----------------------------------------------------------------------------
(* Properties.                                                             *)

\* A program never notices that it was interrupted, switched out or made to
\* run signal handlers, nested ones too: in EL0, the PC, the general registers,
\* the stack pointer and the address space are those of the current task, as
\* it left them (start.S, el0_entry.S, signal_deliver, signal_return).
UserContextKept ==
  OnUser =>
    /\ place = user[current_task] /\ x = place /\ sp_el0 = place
    /\ ttbr0 = current_task

\* Programs and the idle loop cannot keep the CPU: in EL0 interrupts are
\* unmasked, and none that was acknowledged is left without its end, in
\* which case the GIC would signal no other one.
NextTickCanCome == OnUser => ~masked /\ ~active

\* What is pushed on a kernel stack is popped, and leads back to where it was
\* pushed: the stack is empty while its program runs and never holds more
\* than one frame, so that 8 KB are enough; the frame leads to the program's
\* own point, or to the idle loop for task 0.
FramesLeadBack ==
  /\ OnUser => stack[current_task] = <<>>
  /\ \A t \in alive : stack[t] # <<>> =>
       LET f == Last(stack[t]) IN
       /\ Len(stack[t]) = 1
       /\ IF t = 0 THEN f.elr = Kernel("idle") /\ f.spsr.el = 1
          ELSE f.elr = user[t] /\ f.x = user[t] /\ f.sp_el0 = user[t] /\ f.spsr = InEL0

=============================================================================
