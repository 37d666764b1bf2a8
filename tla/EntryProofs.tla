---------------------------- MODULE EntryProofs ----------------------------
(***************************************************************************)
(* Proofs about module Entry, for every number of tasks, points of a       *)
(* program and nested handlers, in the build whose kernel code is not      *)
(* interrupted: a program finds its registers as it left them, and what is *)
(* pushed on a kernel stack leads back to where it was pushed.             *)
(***************************************************************************)
EXTENDS Entry, TLAPS

\* Saved registers that lead to point a of a program.
Regs(r, a) == r.x = a /\ r.sp_el0 = a /\ r.elr = a /\ r.spsr = InEL0

\* The one frame on the kernel stack of task t leads to the idle loop, or to
\* the point at which its program is.
HasFrame(t) ==
  /\ Len(stack[t]) = 1
  /\ IF t = 0 THEN /\ stack[t][1].elr = Kernel("idle")
                   /\ stack[t][1].spsr = [el |-> 1, masked |-> FALSE]
              ELSE Regs(stack[t][1], user[t])

\* Places of the kernel with and without a frame on the stack, those of a new
\* program, and those at which a task is switched out.
Framed == {"svc", "fork", "irq", "ret1", "ret2"}
Starts == {"wrap", "drop1", "drop2", "drop3"}
Labels == Framed \cup Starts \cup {"idle"}
Resumed == {"svc", "fork", "ret1", "wrap", "idle"}

\* Task t can be at place l.
Fits(t, l) ==
  /\ IF l \in Framed THEN HasFrame(t) ELSE stack[t] = <<>>
  /\ l = "idle" => t = 0
  /\ l \in Starts \cup {"svc", "fork"} => t # 0
  /\ l \in Starts => user[t] = User(t, 0)

\* In a program, registers, mask and stack are as the program expects; at a
\* place of the kernel, the frame is there, and what has been restored of it.
InProgram ==
  /\ current_task # 0 /\ place = user[current_task] /\ x = place /\ sp_el0 = place
  /\ stack[current_task] = <<>> /\ ~masked
InKernel ==
  \E l \in Labels :
    /\ At(l) /\ Fits(current_task, l)
    /\ l = "ret2" => LET f == stack[current_task][1] IN
                     elr = f.elr /\ spsr = f.spsr /\ sp_el0 = f.sp_el0
    /\ l \in {"drop2", "drop3"} => elr = User(current_task, 0) /\ sp_el0 = elr
    /\ l = "drop3" => spsr = InEL0

\* The signal frames on a user stack are those of the points at which the
\* handlers interrupted the program, one in another.
Nested(frames, saved, here) ==
  /\ Len(frames) = Len(saved) /\ Len(saved) <= Nesting
  /\ \A i \in 1 .. Len(saved) : Regs(frames[i], saved[i])
  /\ \A i \in 2 .. Len(saved) : DepthOf(saved[i]) = i - 1
  /\ saved # <<>> => DepthOf(here) = Len(saved)

CpuInv ==
  /\ ttbr0 = current_task /\ current_task \in alive
  /\ alive \subseteq 0 .. born - 1
  /\ active => At("irq")
  /\ InProgram \/ InKernel

SwitchedOut ==
  \A t \in alive \ {current_task} : \E l \in Resumed : ctx[t] = Kernel(l) /\ Fits(t, l)

UnbornClean ==
  \A t \in Users : t >= born =>
    user[t] = User(t, 0) /\ sigframes[t] = <<>> /\ interrupted[t] = <<>>

HandlersNest == \A t \in Users : Nested(sigframes[t], interrupted[t], user[t])

EntryInv == TypeOK /\ CpuInv /\ SwitchedOut /\ UnbornClean /\ HandlersNest

-----------------------------------------------------------------------------
(* Addresses and frames.                                                   *)

\* Places of the kernel are told apart by their labels, and are in no program.
LEMMA AddrFacts ==
  /\ \A k, l : Kernel(k) = Kernel(l) => k = l
  /\ \A l \in Labels : Kernel(l) \notin UserAddrs /\ Kernel(l) \in KernelAddrs
  /\ \A t \in Users, v \in 0 .. Points - 1 + Nesting : User(t, v) \in UserAddrs
  /\ \A t \in Users : User(t, 0) \in UserAddrs
  /\ KernelAddrs \subseteq Addrs /\ UserAddrs \subseteq Addrs
  /\ Kernel("data") \in Addrs
<1>1. \A k, l : Kernel(k) = Kernel(l) => k = l
  BY DEF Kernel
<1>2. ASSUME NEW l \in Labels, Kernel(l) \in UserAddrs PROVE FALSE
  <2>1. PICK t \in Users, v \in 0 .. Points - 1 + Nesting : Kernel(l) = User(t, v)
    BY <1>2 DEF UserAddrs
  <2>2. l = "user"
    BY <2>1 DEF Kernel, User
  <2>3. QED
    BY <2>2 DEF Labels, Framed, Starts
<1>3. \A l \in Labels : Kernel(l) \in KernelAddrs
  BY DEF KernelAddrs, Labels, Framed, Starts
<1>4. \A t \in Users, v \in 0 .. Points - 1 + Nesting : User(t, v) \in UserAddrs
  BY DEF UserAddrs
<1>5. 0 \in 0 .. Points - 1 + Nesting
  BY EntryAssumption
<1>6. Kernel("data") \in KernelAddrs
  BY DEF KernelAddrs
<1>7. QED
  BY <1>1, <1>2, <1>3, <1>4, <1>5, <1>6 DEF Addrs

\* A stack of one frame, and what is left when it is popped or replaced.
LEMMA OneFrame ==
  ASSUME NEW s \in Seq(Frames), Len(s) = 1
  PROVE  /\ s # <<>> /\ Last(s) = s[1] /\ s[1] \in Frames
         /\ Front(s) = <<>>
         /\ \A r : Append(Front(s), r) = <<r>>
<1>1. Front(s) = <<>>
  BY DEF Front
<1>2. QED
  BY <1>1 DEF Last

LEMMA NewFrame ==
  ASSUME NEW r \in Frames
  PROVE  /\ Append(<<>>, r) = <<r>> /\ <<r>> \in Seq(Frames)
         /\ Len(<<r>>) = 1 /\ <<r>>[1] = r
OBVIOUS

\* signal_deliver: one more signal frame on the user stack.
LEMMA NestedPush ==
  ASSUME NEW frames \in Seq(Frames), NEW saved \in Seq(UserAddrs),
         NEW here, NEW start, NEW r, Regs(r, here),
         Nested(frames, saved, here), Len(frames) < Nesting,
         DepthOf(start) = Len(frames) + 1
  PROVE  Nested(Append(frames, r), Append(saved, here), start)
<1> DEFINE F == Append(frames, r)
           S == Append(saved, here)
<1>1. Len(F) = Len(frames) + 1 /\ Len(S) = Len(saved) + 1 /\ Len(saved) = Len(frames)
  BY DEF Nested
<1>2. \A i \in 1 .. Len(saved) : F[i] = frames[i] /\ S[i] = saved[i]
  BY <1>1
<1>3. F[Len(S)] = r /\ S[Len(S)] = here
  BY <1>1
<1>4. ASSUME NEW i \in 1 .. Len(S) PROVE Regs(F[i], S[i])
  <2>1. i \in 1 .. Len(saved) \/ i = Len(S)
    BY <1>1
  <2>2. QED
    BY <2>1, <1>2, <1>3 DEF Nested
<1>5. ASSUME NEW i \in 2 .. Len(S) PROVE DepthOf(S[i]) = i - 1
  <2>1. CASE i = Len(S)
    <3>1. saved # <<>>
      BY <2>1, <1>1
    <3>2. QED
      BY <3>1, <2>1, <1>1, <1>3 DEF Nested
  <2>2. CASE i # Len(S)
    <3>1. i \in 2 .. Len(saved) /\ i \in 1 .. Len(saved)
      BY <2>2, <1>1
    <3>2. QED
      BY <3>1, <1>2 DEF Nested
  <2>3. QED
    BY <2>1, <2>2
<1>6. Len(F) = Len(S) /\ Len(S) <= Nesting
  BY <1>1, EntryAssumption
<1>7. DepthOf(start) = Len(S)
  BY <1>1
<1>8. QED
  BY <1>4, <1>5, <1>6, <1>7 DEF Nested

\* signal_return: the last signal frame is the one that the handler runs on.
LEMMA NestedPop ==
  ASSUME NEW frames \in Seq(Frames), NEW saved \in Seq(UserAddrs), NEW here,
         Nested(frames, saved, here), saved # <<>>
  PROVE  LET d == DepthOf(here) IN
         /\ d \in 1 .. Len(frames)
         /\ frames[d] \in Frames /\ Regs(frames[d], Last(saved))
         /\ SubSeq(frames, 1, d - 1) \in Seq(Frames)
         /\ Front(saved) \in Seq(UserAddrs) /\ Last(saved) \in UserAddrs
         /\ Nested(SubSeq(frames, 1, d - 1), Front(saved), Last(saved))
<1> DEFINE n == Len(saved)
           F == SubSeq(frames, 1, n - 1)
           S == SubSeq(saved, 1, n - 1)
<1>1. n \in Nat \ {0} /\ DepthOf(here) = n /\ Len(frames) = n
  BY DEF Nested
<1>2. /\ Len(F) = n - 1 /\ Len(S) = n - 1
      /\ \A i \in 1 .. n - 1 : F[i] = frames[i] /\ S[i] = saved[i]
      /\ F \in Seq(Frames) /\ S \in Seq(UserAddrs)
  BY <1>1
<1>3. Last(saved) = saved[n] /\ Front(saved) = S
  BY DEF Last, Front
<1>4. frames[n] \in Frames /\ saved[n] \in UserAddrs /\ Regs(frames[n], saved[n])
  <2>1. n \in 1 .. n
    BY <1>1
  <2>2. QED
    BY <2>1, <1>1 DEF Nested
<1>5. Nested(F, S, saved[n])
  <2>1. \A i \in 1 .. Len(S) : Regs(F[i], S[i])
    <3>1. \A i \in 1 .. Len(S) : i \in 1 .. Len(saved) /\ i \in 1 .. n - 1
      BY <1>1, <1>2
    <3>2. QED
      BY <3>1, <1>2 DEF Nested
  <2>2. \A i \in 2 .. Len(S) : DepthOf(S[i]) = i - 1
    <3>1. \A i \in 2 .. Len(S) : i \in 2 .. Len(saved) /\ i \in 1 .. n - 1
      BY <1>1, <1>2
    <3>2. QED
      BY <3>1, <1>2 DEF Nested
  <2>3. Len(F) = Len(S) /\ Len(S) <= Nesting
    BY <1>1, <1>2, EntryAssumption DEF Nested
  <2>4. S # <<>> => DepthOf(saved[n]) = Len(S)
    <3>1. S # <<>> => n \in 2 .. n
      BY <1>1, <1>2
    <3>2. QED
      BY <3>1, <1>2 DEF Nested
  <2>5. QED
    BY <2>1, <2>2, <2>3, <2>4 DEF Nested
<1>6. QED
  BY <1>1, <1>2, <1>3, <1>4, <1>5

-----------------------------------------------------------------------------
(* What the invariant says at a place, and what keeps it.                  *)

\* At a place of the kernel.
LEMMA AtPlace ==
  ASSUME EntryInv, NEW l \in Labels, At(l)
  PROVE  /\ ~OnUser /\ Fits(current_task, l) /\ current_task \in Tasks
         /\ current_task \in alive /\ (l # "irq" => ~active)
         /\ l = "ret2" => LET f == stack[current_task][1] IN
                          elr = f.elr /\ spsr = f.spsr /\ sp_el0 = f.sp_el0
         /\ l \in {"drop2", "drop3"} => elr = User(current_task, 0) /\ sp_el0 = elr
         /\ l = "drop3" => spsr = InEL0
<1>1. ~OnUser
  BY AddrFacts DEF At, OnUser
<1>2. InKernel
  <2>1. InProgram => OnUser
    BY DEF InProgram, OnUser, EntryInv, TypeOK, Users, Tasks
  <2>2. QED
    BY <1>1, <2>1 DEF EntryInv, CpuInv
<1>3. \A k \in Labels : At(k) => k = l
  BY AddrFacts DEF At
<1>4. l # "irq" => ~active
  <2>1. "irq" \in Labels
    BY DEF Labels, Framed
  <2>2. QED
    BY <1>3, <2>1 DEF EntryInv, CpuInv
<1>5. PICK k \in Labels :
    /\ At(k) /\ Fits(current_task, k)
    /\ k = "ret2" => LET f == stack[current_task][1] IN
                     elr = f.elr /\ spsr = f.spsr /\ sp_el0 = f.sp_el0
    /\ k \in {"drop2", "drop3"} => elr = User(current_task, 0) /\ sp_el0 = elr
    /\ k = "drop3" => spsr = InEL0
  BY <1>2 DEF InKernel
<1>6. k = l
  BY <1>3, <1>5
<1>7. current_task \in Tasks /\ current_task \in alive
  BY DEF EntryInv, TypeOK, CpuInv
<1>8. QED
  BY <1>1, <1>4, <1>5, <1>6, <1>7

\* In a program.
LEMMA InUser ==
  ASSUME EntryInv, OnUser
  PROVE  /\ InProgram /\ current_task \in Users /\ current_task \in Tasks
         /\ current_task \in alive /\ ~active /\ ttbr0 = current_task
<1>1. ~InKernel
  BY AddrFacts DEF InKernel, OnUser, At
<1>2. ~At("irq")
  BY AddrFacts DEF At, OnUser, Labels, Framed
<1>3. QED
  BY <1>1, <1>2 DEF EntryInv, CpuInv, InProgram, TypeOK, Tasks, Users

\* Whether a task can be at a place depends on its stack and its program.
LEMMA FitsKept ==
  ASSUME EntryInv, NEW t \in Tasks, NEW l, Fits(t, l),
         stack'[t] = stack[t], t # 0 => user'[t] = user[t]
  PROVE  Fits(t, l)'
<1>1. HasFrame(t) => HasFrame(t)'
  BY DEF HasFrame
<1>2. l \in Starts => t # 0
  BY DEF Fits
<1>3. QED
  BY <1>1, <1>2 DEF Fits

\* A step changes nothing of the tasks that are switched out.
OthersKept ==
  /\ \A t \in Tasks \ {current_task} : stack'[t] = stack[t]
  /\ \A t \in Users \ {current_task} :
       /\ user'[t] = user[t] /\ sigframes'[t] = sigframes[t]
       /\ interrupted'[t] = interrupted[t]

\* A step of the current task that remains the current one.
LEMMA LocalKept ==
  ASSUME EntryInv, OthersKept, TypeOK',
         UNCHANGED <<current_task, ttbr0, ctx, alive, born>>,
         active' => At("irq")', (InProgram \/ InKernel)',
         current_task # 0 =>
           Nested(sigframes'[current_task], interrupted'[current_task], user'[current_task])
  PROVE  EntryInv'
<1>1. CpuInv'
  BY DEF EntryInv, CpuInv
<1>2. SwitchedOut'
  <2> SUFFICES ASSUME NEW t \in alive \ {current_task}
               PROVE  \E l \in Resumed : ctx[t] = Kernel(l) /\ Fits(t, l)'
    BY DEF SwitchedOut
  <2>1. PICK l \in Resumed : ctx[t] = Kernel(l) /\ Fits(t, l)
    BY DEF EntryInv, SwitchedOut
  <2>2. t \in Tasks /\ stack'[t] = stack[t] /\ (t # 0 => user'[t] = user[t])
    BY DEF OthersKept, EntryInv, TypeOK, Tasks, Users
  <2>3. Fits(t, l)'
    BY <2>1, <2>2, FitsKept
  <2>4. QED
    BY <2>1, <2>3
<1>3. UnbornClean'
  <2>1. \A t \in Users : t >= born => t # current_task
    BY DEF EntryInv, CpuInv, TypeOK, Users, Tasks
  <2>2. QED
    BY <2>1 DEF EntryInv, UnbornClean, OthersKept
<1>4. HandlersNest'
  <2>1. \A t \in Users : t = current_task \/ t \in Users \ {current_task}
    OBVIOUS
  <2>2. \A t \in Users : t = current_task => t # 0
    BY DEF Users
  <2>3. QED
    BY <2>1, <2>2 DEF EntryInv, HandlersNest, OthersKept
<1>5. QED
  BY <1>1, <1>2, <1>3, <1>4 DEF EntryInv

\* A step that changes neither stacks nor programs changes nothing of the
\* others, and signal frames stay nested.
LEMMA NothingMoved ==
  ASSUME EntryInv, UNCHANGED <<current_task, stack, program>>
  PROVE  /\ OthersKept
         /\ current_task # 0 =>
              Nested(sigframes'[current_task], interrupted'[current_task], user'[current_task])
<1>1. current_task # 0 => current_task \in Users
  BY DEF EntryInv, TypeOK, Tasks, Users
<1>2. QED
  BY <1>1 DEF OthersKept, program, handling, EntryInv, HandlersNest

\* The CPU goes on in another task, which is where it was switched out.
LEMMA SwitchKept ==
  ASSUME EntryInv, NEW next \in Tasks, NEW l \in KernelAddrs,
         next \in alive \ {current_task},
         ctx' = [ctx EXCEPT ![current_task] = l],
         current_task' = next, place' = ctx[next], ttbr0' = next, x' = Kernel("data"),
         UNCHANGED <<sp_el0, elr, spsr, masked, stack, born, program>>,
         active' = FALSE,
         alive' \in {alive, alive \ {current_task}},
         current_task \in alive' =>
           \E k \in Resumed : l = Kernel(k) /\ Fits(current_task, k)
  PROVE  EntryInv'
<1>1. TypeOK'
  BY AddrFacts DEF EntryInv, TypeOK, program, handling, Addrs
<1>2. \A t \in Tasks : \A k : Fits(t, k) => Fits(t, k)'
  BY DEF Fits, HasFrame, program
<1>3. PICK k \in Resumed : ctx[next] = Kernel(k) /\ Fits(next, k)
  BY DEF EntryInv, SwitchedOut
<1>4. InKernel'
  <2>1. k \in Labels /\ k \notin {"ret2", "drop2", "drop3"}
    BY DEF Resumed, Labels, Framed, Starts
  <2>2. At(k)'
    BY <1>3 DEF At
  <2>3. Fits(next, k)'
    BY <1>2, <1>3
  <2>4. Fits(current_task, k)'
    BY <2>3
  <2>5. QED
    BY <2>1, <2>2, <2>4 DEF InKernel
<1>5. CpuInv'
  BY <1>4 DEF EntryInv, CpuInv
<1>6. SwitchedOut'
  <2> SUFFICES ASSUME NEW t \in alive' \ {next}
               PROVE  \E j \in Resumed : ctx'[t] = Kernel(j) /\ Fits(t, j)'
    BY DEF SwitchedOut
  <2>1. t \in Tasks /\ t \in alive
    BY DEF EntryInv, TypeOK
  <2>2. CASE t = current_task
    <3>1. ctx'[t] = l
      BY <2>1, <2>2 DEF EntryInv, TypeOK
    <3>2. QED
      BY <3>1, <2>1, <2>2, <1>2
  <2>3. CASE t # current_task
    <3>1. ctx'[t] = ctx[t]
      BY <2>1, <2>3 DEF EntryInv, TypeOK
    <3>2. \E j \in Resumed : ctx[t] = Kernel(j) /\ Fits(t, j)
      BY <2>1, <2>3 DEF EntryInv, SwitchedOut
    <3>3. QED
      BY <3>1, <3>2, <2>1, <1>2
  <2>4. QED
    BY <2>2, <2>3
<1>7. UnbornClean' /\ HandlersNest'
  BY DEF EntryInv, UnbornClean, HandlersNest, program, handling, Nested
<1>8. QED
  BY <1>1, <1>5, <1>6, <1>7 DEF EntryInv

-----------------------------------------------------------------------------
(* The steps of a program and its entries into the kernel.                 *)

LEMMA UserStepHolds == EntryInv /\ UserStep => EntryInv'
<1> SUFFICES ASSUME EntryInv, UserStep PROVE EntryInv'
  OBVIOUS
<1> DEFINE t == current_task
           next == User(t, (user[t][3] + 1) % Points)
<1>1. InProgram /\ t \in Users /\ t \in Tasks /\ ~active
  BY InUser DEF UserStep
<1>2. next \in UserAddrs
  <2>1. user[t] \in UserAddrs
    BY <1>1 DEF EntryInv, TypeOK
  <2>2. user[t][3] \in Int
    BY <2>1, EntryAssumption DEF UserAddrs, User
  <2>3. (user[t][3] + 1) % Points \in 0 .. Points - 1 + Nesting
    BY <2>2, EntryAssumption
  <2>4. QED
    BY <1>1, <2>3, AddrFacts
<1>3. TypeOK'
  BY <1>1, <1>2, AddrFacts DEF UserStep, EntryInv, TypeOK, tasks, handling
<1>4. OthersKept
  BY <1>1 DEF UserStep, OthersKept, EntryInv, TypeOK, tasks, handling
<1>5. InProgram'
  BY <1>1 DEF UserStep, InProgram, EntryInv, TypeOK, tasks
<1>6. Nested(sigframes'[t], interrupted'[t], user'[t])
  BY <1>1 DEF UserStep, EntryInv, HandlersNest, Nested, handling
<1>7. QED
  BY <1>1, <1>3, <1>4, <1>5, <1>6, LocalKept DEF UserStep, tasks

\* An exception pushes one frame, of the place where the CPU is.
LEMMA EnterPushes ==
  ASSUME EntryInv, NEW l \in {"svc", "irq"}, NEW level \in {0, 1}, Enter(l, level),
         current_task \in Tasks, stack[current_task] = <<>>,
         UNCHANGED <<current_task, sp_el0, ttbr0, ctx, alive, born, program>>,
         active' \in BOOLEAN
  PROVE  LET f == [x |-> x, sp_el0 |-> sp_el0, elr |-> place,
                   spsr |-> [el |-> level, masked |-> masked]] IN
         /\ TypeOK' /\ OthersKept
         /\ f \in Frames /\ stack'[current_task] = <<f>>
         /\ place' = Kernel(l)
<1> DEFINE f == [x |-> x, sp_el0 |-> sp_el0, elr |-> place,
                 spsr |-> [el |-> level, masked |-> masked]]
<1>1. f \in Frames
  BY DEF EntryInv, TypeOK, Frames, Statuses
<1>2. /\ stack' = [stack EXCEPT ![current_task] = <<f>>]
      /\ elr' = place /\ spsr' = f.spsr /\ masked' = TRUE
      /\ x' = Kernel("data") /\ place' = Kernel(l)
  BY <1>1, NewFrame DEF Enter, Goto, EntryInv, TypeOK
<1>3. Kernel(l) \in Addrs /\ f.spsr \in Statuses /\ <<f>> \in Seq(Frames)
  BY <1>1, AddrFacts, NewFrame DEF Labels, Framed, Frames
<1>4. TypeOK'
  BY <1>2, <1>3, AddrFacts DEF EntryInv, TypeOK, program, handling
<1>5. OthersKept /\ stack'[current_task] = <<f>>
  BY <1>2 DEF EntryInv, TypeOK, OthersKept, program, handling
<1>6. QED
  BY <1>1, <1>2, <1>4, <1>5

LEMMA SvcHolds == EntryInv /\ Svc => EntryInv'
<1> SUFFICES ASSUME EntryInv, Svc PROVE EntryInv'
  OBVIOUS
<1> DEFINE t == current_task
           f == [x |-> x, sp_el0 |-> sp_el0, elr |-> place,
                 spsr |-> [el |-> 0, masked |-> masked]]
<1>1. InProgram /\ t \in Users /\ t \in Tasks /\ ~active
  BY InUser DEF Svc
<1>2. TypeOK' /\ OthersKept /\ f \in Frames /\ stack'[t] = <<f>> /\ place' = Kernel("svc")
  <2>1. Enter("svc", 0) /\ active' \in BOOLEAN /\ stack[t] = <<>>
    BY <1>1 DEF Svc, InProgram, EntryInv, TypeOK
  <2>2. QED
    BY <1>1, <2>1, EnterPushes DEF Svc
<1>3. Regs(f, user[t])
  <2>1. masked = FALSE
    BY <1>1 DEF InProgram, EntryInv, TypeOK
  <2>2. QED
    BY <1>1, <2>1 DEF Regs, InProgram, InEL0
<1>4. Fits(t, "svc")'
  <2>1. t # 0 /\ user' = user /\ t' = t
    BY <1>1 DEF Users, Svc, program
  <2>2. HasFrame(t)'
    BY <1>2, <1>3, <2>1, NewFrame DEF HasFrame, Regs
  <2>3. QED
    BY <2>1, <2>2 DEF Fits, Framed, Starts
<1>5. InKernel'
  BY <1>2, <1>4 DEF InKernel, At, Labels, Framed
<1>6. Nested(sigframes'[t], interrupted'[t], user'[t])
  BY <1>1 DEF Svc, EntryInv, HandlersNest, program, handling
<1>7. QED
  BY <1>1, <1>2, <1>5, <1>6, LocalKept DEF Svc

\* An interrupt is taken in a program or in the idle loop.
LEMMA IrqHolds == ~KernelPreemptible /\ EntryInv /\ Irq => EntryInv'
<1> SUFFICES ASSUME ~KernelPreemptible, EntryInv, Irq PROVE EntryInv'
  OBVIOUS
<1> DEFINE t == current_task
           level == IF OnUser THEN 0 ELSE 1
           f == [x |-> x, sp_el0 |-> sp_el0, elr |-> place,
                 spsr |-> [el |-> level, masked |-> masked]]
<1>1. masked = FALSE /\ (OnUser \/ At("idle"))
  BY DEF Irq, Interruptible, EntryInv, TypeOK
<1>2. "idle" \in Labels /\ "idle" \notin Framed /\ "irq" \in Labels /\ "irq" \in Framed
      /\ "irq" \notin Starts
  BY DEF Labels, Framed, Starts
<1>3. t \in Tasks /\ stack[t] = <<>>
  <2>1. CASE OnUser
    BY <2>1, InUser DEF InProgram
  <2>2. CASE At("idle")
    BY <2>2, <1>2, AtPlace DEF Fits
  <2>3. QED
    BY <1>1, <2>1, <2>2
<1>4. TypeOK' /\ OthersKept /\ f \in Frames /\ stack'[t] = <<f>> /\ place' = Kernel("irq")
  BY <1>3, EnterPushes DEF Irq
<1>5. HasFrame(t)'
  <2>1. CASE OnUser
    <3>1. InProgram /\ t # 0
      BY <2>1, InUser DEF InProgram
    <3>2. Regs(f, user[t])
      BY <1>1, <2>1, <3>1 DEF Regs, InProgram, InEL0
    <3>3. QED
      BY <1>4, <3>1, <3>2, NewFrame DEF HasFrame, Regs, Irq, program
  <2>2. CASE At("idle") /\ ~OnUser
    <3>1. t = 0
      BY <2>2, <1>2, AtPlace DEF Fits
    <3>2. f.elr = Kernel("idle") /\ f.spsr = [el |-> 1, masked |-> FALSE]
      BY <1>1, <2>2 DEF At, EntryInv, TypeOK
    <3>3. QED
      BY <1>4, <3>1, <3>2, NewFrame DEF HasFrame, Irq
  <2>3. QED
    BY <1>1, <2>1, <2>2
<1>6. InKernel'
  <2>1. Fits(t, "irq")'
    BY <1>2, <1>5 DEF Fits
  <2>2. QED
    BY <1>2, <1>4, <2>1 DEF InKernel, At
<1>7. t # 0 => Nested(sigframes'[t], interrupted'[t], user'[t])
  BY <1>3 DEF Irq, EntryInv, HandlersNest, program, handling, Tasks, Users
<1>8. At("irq")'
  BY <1>4 DEF At
<1>9. QED
  BY <1>4, <1>6, <1>7, <1>8, LocalKept DEF Irq

-----------------------------------------------------------------------------
(* The ends of system calls, with signal_deliver and signal_return.        *)

\* The handler for the frame of a depth is an address of the program, and
\* tells the depth.
LEMMA HandlerFacts ==
  ASSUME NEW t \in Users, NEW d \in 1 .. Nesting
  PROVE  Handler(t, d) \in UserAddrs /\ DepthOf(Handler(t, d)) = d
<1>1. Points - 1 + d \in 0 .. Points - 1 + Nesting
  BY EntryAssumption
<1>2. Handler(t, d) \in UserAddrs
  BY <1>1, AddrFacts DEF Handler
<1>3. Handler(t, d)[3] = Points - 1 + d
  BY DEF Handler, User
<1>4. QED
  BY <1>2, <1>3, EntryAssumption DEF DepthOf

\* In the frame of a call are the registers of the program.
LEMMA CallFrame ==
  ASSUME EntryInv, At("svc")
  PROVE  LET t == current_task
             f == Last(stack[t]) IN
         /\ t \in Users /\ t \in Tasks /\ t # 0 /\ ~active
         /\ stack[t] \in Seq(Frames) /\ Len(stack[t]) = 1
         /\ f = stack[t][1] /\ f \in Frames /\ Regs(f, user[t])
         /\ user[t] \in UserAddrs
         /\ sigframes[t] \in Seq(Frames) /\ interrupted[t] \in Seq(UserAddrs)
         /\ Nested(sigframes[t], interrupted[t], user[t])
<1> DEFINE t == current_task
<1>1. "svc" \in Labels /\ "svc" \in Framed
  BY DEF Labels, Framed
<1>2. Fits(t, "svc") /\ t \in Tasks /\ ~active
  BY <1>1, AtPlace
<1>3. t # 0 /\ HasFrame(t)
  BY <1>1, <1>2 DEF Fits
<1>4. t \in Users
  BY <1>2, <1>3 DEF Tasks, Users
<1>5. stack[t] \in Seq(Frames) /\ Len(stack[t]) = 1 /\ Regs(stack[t][1], user[t])
  BY <1>2, <1>3 DEF HasFrame, EntryInv, TypeOK
<1>6. Last(stack[t]) = stack[t][1] /\ stack[t][1] \in Frames
  BY <1>5, OneFrame
<1>7. QED
  BY <1>2, <1>3, <1>4, <1>5, <1>6 DEF EntryInv, TypeOK, HandlersNest

\* The frame of the call becomes r, and the program goes on at here.
LEMMA LeaveKept ==
  ASSUME EntryInv, At("svc"), Goto("ret1"),
         NEW r \in Frames, NEW F \in Seq(Frames), NEW here \in UserAddrs,
         NEW S \in Seq(UserAddrs), Regs(r, here), Nested(F, S, here),
         stack' = [stack EXCEPT ![current_task] = Append(Front(@), r)],
         sigframes' = [sigframes EXCEPT ![current_task] = F],
         user' = [user EXCEPT ![current_task] = here],
         interrupted' = [interrupted EXCEPT ![current_task] = S],
         UNCHANGED <<current_task, registers, masked, ttbr0, active, ctx, alive, born>>
  PROVE  EntryInv'
<1> DEFINE t == current_task
<1>1. /\ t \in Users /\ t \in Tasks /\ t # 0 /\ ~active
      /\ stack[t] \in Seq(Frames) /\ Len(stack[t]) = 1
  BY CallFrame
<1>2. stack' = [stack EXCEPT ![t] = <<r>>]
  BY <1>1, OneFrame
<1>3. <<r>> \in Seq(Frames) /\ Kernel("ret1") \in Addrs
  BY NewFrame, AddrFacts DEF Labels, Framed
<1>4. TypeOK'
  BY <1>1, <1>2, <1>3 DEF EntryInv, TypeOK, Goto, registers
<1>5. OthersKept /\ stack'[t] = <<r>> /\ user'[t] = here
      /\ sigframes'[t] = F /\ interrupted'[t] = S
  BY <1>1, <1>2 DEF OthersKept, EntryInv, TypeOK
<1>6. HasFrame(t)'
  BY <1>1, <1>5, NewFrame DEF HasFrame, Regs
<1>7. InKernel'
  <2>1. "ret1" \in Labels /\ "ret1" \in Framed /\ "ret1" \notin Starts
    BY DEF Labels, Framed, Starts
  <2>2. Fits(t, "ret1")'
    BY <1>6, <2>1 DEF Fits
  <2>3. QED
    BY <2>1, <2>2 DEF InKernel, At, Goto
<1>8. QED
  BY <1>1, <1>4, <1>5, <1>7, LocalKept

\* signal_deliver at the end of a call that leaves the program's registers,
\* those of the point here, in its frame.
LEMMA DeliverKept ==
  ASSUME EntryInv, At("svc"),
         NEW r \in Frames, NEW F \in Seq(Frames), NEW here \in UserAddrs,
         NEW S \in Seq(UserAddrs), Regs(r, here), Nested(F, S, here),
         Deliver(current_task, r, F, here, S),
         UNCHANGED <<current_task, registers, masked, ttbr0, active, ctx, alive, born>>
  PROVE  EntryInv'
<1> DEFINE t == current_task
           start == Handler(t, Len(F) + 1)
           h == [r EXCEPT !.x = start, !.sp_el0 = start, !.elr = start]
<1>1. CASE /\ Goto("ret1")
           /\ stack' = [stack EXCEPT ![t] = Append(Front(@), r)]
           /\ sigframes' = [sigframes EXCEPT ![t] = F]
           /\ user' = [user EXCEPT ![t] = here]
           /\ interrupted' = [interrupted EXCEPT ![t] = S]
  BY <1>1, LeaveKept
<1>2. CASE /\ Goto("ret1") /\ Len(F) < Nesting
           /\ stack' = [stack EXCEPT ![t] = Append(Front(@), h)]
           /\ sigframes' = [sigframes EXCEPT ![t] = Append(F, r)]
           /\ user' = [user EXCEPT ![t] = start]
           /\ interrupted' = [interrupted EXCEPT ![t] = Append(S, here)]
  <2>1. start \in UserAddrs /\ DepthOf(start) = Len(F) + 1
    <3>1. Len(F) + 1 \in 1 .. Nesting
      BY <1>2, EntryAssumption
    <3>2. QED
      BY <3>1, CallFrame, HandlerFacts
  <2>2. h \in Frames /\ Regs(h, start)
    BY <2>1, AddrFacts DEF Frames, Regs
  <2>3. Nested(Append(F, r), Append(S, here), start)
    BY <1>2, <2>1, NestedPush
  <2>4. Append(F, r) \in Seq(Frames) /\ Append(S, here) \in Seq(UserAddrs)
    OBVIOUS
  <2>5. QED
    BY <1>2, <2>1, <2>2, <2>3, <2>4, LeaveKept
<1>3. QED
  BY <1>1, <1>2 DEF Deliver

LEMMA SysReturnHolds == EntryInv /\ SysReturn => EntryInv'
<1> SUFFICES ASSUME EntryInv, SysReturn PROVE EntryInv'
  OBVIOUS
<1> DEFINE t == current_task
<1>1. At("svc") /\ Deliver(t, Last(stack[t]), sigframes[t], user[t], interrupted[t])
      /\ UNCHANGED <<current_task, registers, masked, ttbr0, active, ctx, alive, born>>
  BY DEF SysReturn
<1>2. QED
  BY <1>1, CallFrame, DeliverKept

LEMMA SysSigreturnHolds == EntryInv /\ SysSigreturn => EntryInv'
<1> SUFFICES ASSUME EntryInv, SysSigreturn PROVE EntryInv'
  OBVIOUS
<1> DEFINE t == current_task
           d == DepthOf(user[t])
<1>1. At("svc") /\ interrupted[t] # <<>>
      /\ UNCHANGED <<current_task, registers, masked, ttbr0, active, ctx, alive, born>>
  BY DEF SysSigreturn
<1>2. DepthOf(Last(stack[t]).sp_el0) = d
  BY <1>1, CallFrame DEF Regs
<1>3. Deliver(t, sigframes[t][d], SubSeq(sigframes[t], 1, d - 1),
              Last(interrupted[t]), Front(interrupted[t]))
  BY <1>2 DEF SysSigreturn
<1>4. /\ sigframes[t][d] \in Frames /\ Regs(sigframes[t][d], Last(interrupted[t]))
      /\ SubSeq(sigframes[t], 1, d - 1) \in Seq(Frames)
      /\ Front(interrupted[t]) \in Seq(UserAddrs) /\ Last(interrupted[t]) \in UserAddrs
      /\ Nested(SubSeq(sigframes[t], 1, d - 1), Front(interrupted[t]), Last(interrupted[t]))
  BY <1>1, CallFrame, NestedPop
<1>5. QED
  BY <1>1, <1>3, <1>4, DeliverKept

-----------------------------------------------------------------------------
(* New tasks.                                                              *)

\* The slot of a new task was not used before.
LEMMA Unborn ==
  ASSUME EntryInv, born <= MaxTid
  PROVE  /\ born \in Users /\ born \in Tasks /\ born # current_task /\ born \notin alive
         /\ born # 0 /\ user[born] = User(born, 0)
         /\ sigframes[born] = <<>> /\ interrupted[born] = <<>>
<1>1. born \in Users /\ born \in Tasks /\ born # 0 /\ born \notin alive
  BY EntryAssumption DEF EntryInv, TypeOK, CpuInv, Users, Tasks
<1>2. born >= born /\ born # current_task
  BY <1>1 DEF EntryInv, CpuInv, Users
<1>3. QED
  BY <1>1, <1>2 DEF EntryInv, UnbornClean

\* sched_create_user and sched_fork: a task that starts at place l, and
\* nothing else that concerns the others.
LEMMA BirthKept ==
  ASSUME EntryInv, born <= MaxTid, TypeOK', NEW l \in {"wrap", "fork"},
         NEW b, b = born, born' = b + 1, alive' = alive \cup {b},
         ctx' = [ctx EXCEPT ![b] = Kernel(l)], Fits(b, l)',
         UNCHANGED <<current_task, place, registers, masked, ttbr0, active>>,
         \A t \in Tasks \ {b} : stack'[t] = stack[t],
         \A t \in Users \ {b} :
           user'[t] = user[t] /\ sigframes'[t] = sigframes[t] /\ interrupted'[t] = interrupted[t],
         Nested(sigframes'[b], interrupted'[b], user'[b])
  PROVE  EntryInv'
<1>1. b \in Users /\ b \in Tasks /\ b # current_task /\ b \notin alive /\ b # 0
  BY Unborn
<1>2. ASSUME NEW t \in Tasks \ {b}, NEW k, Fits(t, k) PROVE Fits(t, k)'
  <2>1. t # 0 => t \in Users \ {b}
    BY DEF Tasks, Users
  <2>2. stack'[t] = stack[t] /\ (t # 0 => user'[t] = user[t])
    BY <2>1
  <2>3. QED
    BY <1>2, <2>2, FitsKept
<1>3. current_task \in Tasks \ {b}
  BY <1>1 DEF EntryInv, TypeOK
<1>4. (InProgram \/ InKernel)'
  <2>1. CASE InProgram
    <3>1. current_task \in Users \ {b}
      BY <2>1, <1>3 DEF InProgram, Tasks, Users
    <3>2. QED
      BY <2>1, <3>1, <1>3 DEF InProgram, registers
  <2>2. CASE InKernel
    <3>1. PICK k \in Labels :
            /\ At(k) /\ Fits(current_task, k)
            /\ k = "ret2" => LET f == stack[current_task][1] IN
                             elr = f.elr /\ spsr = f.spsr /\ sp_el0 = f.sp_el0
            /\ k \in {"drop2", "drop3"} => elr = User(current_task, 0) /\ sp_el0 = elr
            /\ k = "drop3" => spsr = InEL0
      BY <2>2 DEF InKernel
    <3>2. Fits(current_task, k)'
      <4>1. PICK c : c = current_task
        OBVIOUS
      <4>2. Fits(c, k)'
        BY <3>1, <4>1, <1>2, <1>3
      <4>3. QED
        BY <4>1, <4>2
    <3>3. stack'[current_task'] = stack[current_task]
      BY <1>3
    <3>4. QED
      BY <3>1, <3>2, <3>3 DEF InKernel, At, registers
  <2>3. QED
    BY <2>1, <2>2 DEF EntryInv, CpuInv
<1>5. CpuInv'
  <2>1. alive' \subseteq 0 .. born' - 1
    BY <1>1 DEF EntryInv, CpuInv, TypeOK, Users
  <2>2. At("irq") => At("irq")'
    BY DEF At
  <2>3. QED
    BY <1>4, <2>1, <2>2 DEF EntryInv, CpuInv
<1>6. SwitchedOut'
  <2> SUFFICES ASSUME NEW t \in (alive \cup {b}) \ {current_task}
               PROVE  \E k \in Resumed : ctx'[t] = Kernel(k) /\ Fits(t, k)'
    BY DEF SwitchedOut
  <2>1. CASE t = b
    BY <2>1, <1>1 DEF EntryInv, TypeOK, Resumed
  <2>2. CASE t # b
    <3>1. t \in alive \ {current_task} /\ t \in Tasks \ {b}
      BY <2>2 DEF EntryInv, TypeOK
    <3>2. PICK k \in Resumed : ctx[t] = Kernel(k) /\ Fits(t, k)
      BY <3>1 DEF EntryInv, SwitchedOut
    <3>3. ctx'[t] = ctx[t]
      BY <3>1 DEF EntryInv, TypeOK
    <3>4. QED
      BY <3>1, <3>2, <3>3, <1>2
  <2>3. QED
    BY <2>1, <2>2
<1>7. UnbornClean'
  <2>1. \A t \in Users : t >= b + 1 => t \in Users \ {b} /\ t >= born
    BY <1>1 DEF Users
  <2>2. QED
    BY <2>1 DEF EntryInv, UnbornClean
<1>8. HandlersNest'
  BY DEF EntryInv, HandlersNest
<1>9. QED
  BY <1>5, <1>6, <1>7, <1>8 DEF EntryInv

LEMMA CreateHolds == EntryInv /\ Create => EntryInv'
<1> SUFFICES ASSUME EntryInv, Create PROVE EntryInv'
  OBVIOUS
<1>0. PICK b : b = born
  OBVIOUS
<1>1. /\ b \in Users /\ b \in Tasks /\ b # 0 /\ user[b] = User(b, 0)
      /\ sigframes[b] = <<>> /\ interrupted[b] = <<>>
  BY <1>0, Unborn DEF Create
<1>2. TypeOK'
  <2>1. Kernel("wrap") \in KernelAddrs /\ <<>> \in Seq(Frames)
    BY AddrFacts DEF Labels, Starts
  <2>2. b + 1 \in 1 .. MaxTid + 1
    BY <1>1, EntryAssumption DEF Users
  <2>3. QED
    BY <1>0, <1>1, <2>1, <2>2 DEF Create, EntryInv, TypeOK, registers, program, handling
<1>3. \A t \in Tasks : stack'[t] = IF t = b THEN <<>> ELSE stack[t]
  BY <1>0 DEF Create, EntryInv, TypeOK
<1>4. Fits(b, "wrap")'
  <2>1. stack'[b] = <<>> /\ user'[b] = User(b, 0)
    BY <1>1, <1>3 DEF Create, program
  <2>2. QED
    BY <1>1, <2>1 DEF Fits, Framed, Starts
<1>5. \A t \in Users : user'[t] = user[t] /\ sigframes'[t] = sigframes[t]
                       /\ interrupted'[t] = interrupted[t]
  BY DEF Create, program, handling
<1>6. Nested(sigframes'[b], interrupted'[b], user'[b])
  BY <1>1, <1>5 DEF EntryInv, HandlersNest
<1>7. QED
  BY <1>0, <1>2, <1>3, <1>4, <1>5, <1>6, BirthKept DEF Create

\* The child of a fork has the frame, the program and the signal frames of
\* its parent.
LEMMA ForkHolds == EntryInv /\ Fork => EntryInv'
<1> SUFFICES ASSUME EntryInv, Fork PROVE EntryInv'
  OBVIOUS
<1> DEFINE p == current_task
           f == Last(stack[p])
<1>0. PICK b : b = born
  OBVIOUS
<1>1. b \in Users /\ b \in Tasks /\ b # 0
  BY <1>0, Unborn DEF Fork
<1>2. /\ p \in Users /\ f \in Frames /\ Regs(f, user[p]) /\ user[p] \in UserAddrs
      /\ sigframes[p] \in Seq(Frames) /\ interrupted[p] \in Seq(UserAddrs)
      /\ Nested(sigframes[p], interrupted[p], user[p])
  BY CallFrame DEF Fork
<1>3. TypeOK'
  <2>1. Kernel("fork") \in KernelAddrs /\ <<f>> \in Seq(Frames)
    BY <1>2, AddrFacts, NewFrame DEF Labels, Framed
  <2>2. b + 1 \in 1 .. MaxTid + 1
    BY <1>1, EntryAssumption DEF Users
  <2>3. QED
    BY <1>0, <1>1, <1>2, <2>1, <2>2 DEF Fork, EntryInv, TypeOK, registers
<1>4. \A t \in Tasks : stack'[t] = IF t = b THEN <<f>> ELSE stack[t]
  BY <1>0 DEF Fork, EntryInv, TypeOK
<1>5. \A t \in Users \ {b} : user'[t] = user[t] /\ sigframes'[t] = sigframes[t]
                             /\ interrupted'[t] = interrupted[t]
  BY <1>0 DEF Fork, EntryInv, TypeOK
<1>6. user'[b] = user[p] /\ sigframes'[b] = sigframes[p] /\ interrupted'[b] = interrupted[p]
  BY <1>0, <1>1 DEF Fork, EntryInv, TypeOK
<1>7. Fits(b, "fork")'
  <2>1. stack'[b] = <<f>>
    BY <1>1, <1>4
  <2>2. HasFrame(b)'
    BY <1>1, <1>2, <1>6, <2>1, NewFrame DEF HasFrame, Regs
  <2>3. QED
    BY <1>1, <2>2 DEF Fits, Framed, Starts
<1>8. Nested(sigframes'[b], interrupted'[b], user'[b])
  BY <1>2, <1>6
<1>9. QED
  BY <1>0, <1>3, <1>4, <1>5, <1>7, <1>8, BirthKept DEF Fork

-----------------------------------------------------------------------------
(* Switches.                                                               *)

LEMMA SysSwitchHolds == ASSUME EntryInv, NEW next \in Tasks, SysSwitch(next) PROVE EntryInv'
<1>1. "svc" \in Labels /\ "svc" \in Resumed
  BY DEF Labels, Framed, Resumed
<1>2. Kernel("svc") \in KernelAddrs /\ Fits(current_task, "svc") /\ active = FALSE
  BY <1>1, AddrFacts, AtPlace DEF SysSwitch, EntryInv, TypeOK
<1>3. QED
  BY <1>1, <1>2, SwitchKept DEF SysSwitch, Switch

LEMMA SysExitHolds == ASSUME EntryInv, NEW next \in Tasks, SysExit(next) PROVE EntryInv'
<1>1. "svc" \in Labels /\ Kernel("crash") \in KernelAddrs
  BY DEF Labels, Framed, KernelAddrs
<1>2. active = FALSE
  BY <1>1, AtPlace DEF SysExit, EntryInv, TypeOK
<1>3. QED
  BY <1>1, <1>2, SwitchKept DEF SysExit, Switch

LEMMA IdleYieldHolds == ASSUME EntryInv, NEW next \in Tasks, IdleYield(next) PROVE EntryInv'
<1>1. "idle" \in Labels /\ "idle" \in Resumed
  BY DEF Labels, Framed, Resumed
<1>2. Kernel("idle") \in KernelAddrs /\ Fits(current_task, "idle") /\ active = FALSE
  BY <1>1, AddrFacts, AtPlace DEF IdleYield, EntryInv, TypeOK
<1>3. QED
  BY <1>1, <1>2, SwitchKept DEF IdleYield, Switch

\* A step of the current task from one place of the kernel to another, with
\* the stack and the program as they are.
LEMMA MoveKept ==
  ASSUME EntryInv, NEW k \in Labels, NEW l \in Labels \ {"irq"}, At(k), Goto(l),
         UNCHANGED <<current_task, x, ttbr0, tasks, program>>, active' = FALSE,
         sp_el0' \in Addrs, elr' \in Addrs, spsr' \in Statuses, masked' \in BOOLEAN,
         Fits(current_task, k) => Fits(current_task, l),
         l = "ret2" => LET f == stack[current_task][1] IN
                       elr' = f.elr /\ spsr' = f.spsr /\ sp_el0' = f.sp_el0,
         l \in {"drop2", "drop3"} => elr' = User(current_task, 0) /\ sp_el0' = elr',
         l = "drop3" => spsr' = InEL0
  PROVE  EntryInv'
<1>1. TypeOK'
  BY AddrFacts DEF EntryInv, TypeOK, Goto, tasks, program, handling
<1>2. Fits(current_task, l) /\ current_task \in Tasks
  BY AtPlace
<1>3. InKernel'
  <2>1. PICK c : c = current_task
    OBVIOUS
  <2>2. Fits(c, l)'
    BY <1>2, <2>1, FitsKept DEF tasks, program
  <2>3. QED
    BY <2>1, <2>2 DEF InKernel, At, Goto, tasks
<1>4. QED
  BY <1>1, <1>3, NothingMoved, LocalKept DEF tasks

LEMMA IrqHandlerHolds == EntryInv /\ IrqHandler => EntryInv'
<1> SUFFICES ASSUME EntryInv, IrqHandler PROVE EntryInv'
  OBVIOUS
<1>1. /\ "irq" \in Labels /\ "irq" \in Framed /\ "irq" \notin Starts
      /\ "ret1" \in Labels \ {"irq"} /\ "ret1" \in Framed /\ "ret1" \notin Starts
      /\ "ret1" \in Resumed
  BY DEF Labels, Framed, Starts, Resumed
<1>2. At("irq") /\ Fits(current_task, "irq")
  BY <1>1, AtPlace DEF IrqHandler
<1>3. Fits(current_task, "ret1")
  BY <1>1, <1>2 DEF Fits
<1>4. CASE Goto("ret1") /\ UNCHANGED <<current_task, ttbr0, x, ctx>>
  <2>1. UNCHANGED <<current_task, x, ttbr0, tasks, program>> /\ active' = FALSE
    BY <1>4 DEF IrqHandler, tasks
  <2>2. /\ sp_el0' \in Addrs /\ elr' \in Addrs /\ spsr' \in Statuses /\ masked' \in BOOLEAN
    BY DEF IrqHandler, EntryInv, TypeOK
  <2>3. QED
    BY <1>1, <1>2, <1>3, <1>4, <2>1, <2>2, MoveKept
<1>5. ASSUME NEW next \in Tasks, Switch(next, "ret1") PROVE EntryInv'
  <2>1. Kernel("ret1") \in KernelAddrs
    BY <1>1, AddrFacts
  <2>2. QED
    BY <1>1, <1>3, <1>5, <2>1, SwitchKept DEF IrqHandler, Switch
<1>6. QED
  BY <1>4, <1>5 DEF IrqHandler

-----------------------------------------------------------------------------
(* The ways back to where an exception came from, and to a new program.    *)

\* The frame of a task that has one.
LEMMA FrameOf ==
  ASSUME EntryInv, NEW l \in {"ret1", "ret2"}, At(l)
  PROVE  LET c == current_task
             f == Last(stack[c]) IN
         /\ c \in Tasks /\ ~active /\ HasFrame(c) /\ stack[c] # <<>>
         /\ stack[c] \in Seq(Frames) /\ f = stack[c][1] /\ f \in Frames
         /\ Front(stack[c]) = <<>>
<1>1. l \in Labels /\ l \in Framed /\ l # "irq"
  BY DEF Labels, Framed
<1>2. Fits(current_task, l) /\ current_task \in Tasks /\ ~active
  BY <1>1, AtPlace
<1>3. stack[current_task] \in Seq(Frames) /\ HasFrame(current_task)
  BY <1>1, <1>2 DEF Fits, EntryInv, TypeOK
<1>4. QED
  BY <1>2, <1>3, OneFrame DEF HasFrame

LEMMA Ret1Holds == EntryInv /\ Ret1 => EntryInv'
<1> SUFFICES ASSUME EntryInv, Ret1 PROVE EntryInv'
  OBVIOUS
<1>1. /\ "ret1" \in Labels /\ "ret1" \in Framed /\ "ret1" \notin Starts
      /\ "ret2" \in Labels \ {"irq"} /\ "ret2" \in Framed /\ "ret2" \notin Starts
  BY DEF Labels, Framed, Starts
<1>2. LET f == Last(stack[current_task]) IN
      f \in Frames /\ f = stack[current_task][1] /\ ~active
  BY FrameOf DEF Ret1
<1>3. sp_el0' \in Addrs /\ elr' \in Addrs /\ spsr' \in Statuses
  BY <1>2 DEF Ret1, Frames
<1>4. active' = FALSE /\ masked' \in BOOLEAN
  BY <1>2 DEF Ret1, EntryInv, TypeOK
<1>5. Fits(current_task, "ret1") => Fits(current_task, "ret2")
  BY <1>1 DEF Fits
<1>6. QED
  BY <1>1, <1>2, <1>3, <1>4, <1>5, MoveKept DEF Ret1

\* The frame is popped, and eret goes to the program or to the idle loop.
LEMMA Ret2Holds == EntryInv /\ Ret2 => EntryInv'
<1> SUFFICES ASSUME EntryInv, Ret2 PROVE EntryInv'
  OBVIOUS
<1> DEFINE c == current_task
           f == stack[c][1]
<1>1. /\ c \in Tasks /\ ~active /\ HasFrame(c) /\ stack[c] # <<>>
      /\ Last(stack[c]) = f /\ f \in Frames /\ Front(stack[c]) = <<>>
  BY FrameOf DEF Ret2
<1>2. elr = f.elr /\ spsr = f.spsr /\ sp_el0 = f.sp_el0
  <2>1. "ret2" \in Labels
    BY DEF Labels, Framed
  <2>2. QED
    BY <2>1, AtPlace DEF Ret2
<1>3. x' = f.x /\ stack' = [stack EXCEPT ![c] = <<>>] /\ Eret
  BY <1>1 DEF Ret2
<1>4. OthersKept /\ stack'[c] = <<>>
  BY <1>1, <1>3 DEF Ret2, OthersKept, EntryInv, TypeOK, program, handling
<1>5. c # 0 => /\ c \in Users
               /\ Nested(sigframes'[c], interrupted'[c], user'[c])
  BY <1>1 DEF Ret2, program, handling, EntryInv, HandlersNest, Tasks, Users
<1>6. /\ place' \in Addrs /\ masked' = f.spsr.masked
      /\ c # 0 => place' = user[c] /\ x' = user[c] /\ sp_el0 = user[c] /\ masked' = FALSE
      /\ c = 0 => place' = Kernel("idle")
  <2>1. CASE c = 0
    <3>1. f.elr = Kernel("idle") /\ f.spsr.el = 1
      BY <1>1, <2>1 DEF HasFrame
    <3>2. Kernel("idle") \in Addrs
      BY AddrFacts DEF Labels
    <3>3. QED
      BY <1>2, <1>3, <2>1, <3>1, <3>2 DEF Eret
  <2>2. CASE c # 0
    <3>1. Regs(f, user[c])
      BY <1>1, <2>2 DEF HasFrame
    <3>2. user[c] \in UserAddrs /\ user[c] \in Addrs
      BY <1>5, <2>2, AddrFacts DEF EntryInv, TypeOK
    <3>3. QED
      BY <1>2, <1>3, <2>2, <3>1, <3>2 DEF Eret, Regs, InEL0
  <2>3. QED
    BY <2>1, <2>2
<1>7. TypeOK'
  <2>1. x' \in Addrs /\ masked' \in BOOLEAN /\ <<>> \in Seq(Frames)
    BY <1>1, <1>3, <1>6 DEF Frames, Statuses
  <2>2. QED
    BY <1>3, <1>6, <2>1 DEF Ret2, EntryInv, TypeOK, program, handling
<1>8. (InProgram \/ InKernel)'
  <2>1. CASE c = 0
    <3>1. "idle" \in Labels /\ "idle" \notin Framed /\ "idle" \notin Starts
      BY DEF Labels, Framed, Starts
    <3>2. Fits(0, "idle")'
      BY <1>4, <2>1, <3>1 DEF Fits
    <3>3. Fits(current_task, "idle")'
      BY <2>1, <3>2 DEF Ret2
    <3>4. QED
      BY <1>6, <2>1, <3>1, <3>3 DEF InKernel, At
  <2>2. CASE c # 0
    BY <1>4, <1>6, <2>2 DEF Ret2, InProgram, program
  <2>3. QED
    BY <2>1, <2>2
<1>9. QED
  BY <1>1, <1>4, <1>5, <1>7, <1>8, LocalKept DEF Ret2

\* fork_child_return goes on in the exit path.
LEMMA ForkReturnHolds == EntryInv /\ ForkReturn => EntryInv'
<1> SUFFICES ASSUME EntryInv, ForkReturn PROVE EntryInv'
  OBVIOUS
<1>1. /\ "fork" \in Labels /\ "fork" \in Framed /\ "fork" \notin Starts
      /\ "ret1" \in Labels \ {"irq"} /\ "ret1" \in Framed /\ "ret1" \notin Starts
  BY DEF Labels, Framed, Starts
<1>2. ~active
  BY <1>1, AtPlace DEF ForkReturn
<1>3. Fits(current_task, "fork") => Fits(current_task, "ret1")
  BY <1>1 DEF Fits
<1>4. /\ active' = FALSE /\ masked' \in BOOLEAN
      /\ sp_el0' \in Addrs /\ elr' \in Addrs /\ spsr' \in Statuses
  BY <1>2 DEF ForkReturn, EntryInv, TypeOK, registers
<1>5. QED
  BY <1>1, <1>3, <1>4, MoveKept DEF ForkReturn, registers

\* task_wrapper and the first two steps of drop_to_el0.
LEMMA StartFacts ==
  ASSUME EntryInv, NEW k \in Starts, At(k)
  PROVE  /\ k \in Labels /\ k # "irq" /\ ~active /\ current_task \in Users
         /\ current_task # 0 /\ current_task \in Tasks
         /\ Fits(current_task, k) /\ stack[current_task] = <<>>
         /\ user[current_task] = User(current_task, 0)
         /\ User(current_task, 0) \in UserAddrs /\ User(current_task, 0) \in Addrs
         /\ \A l \in Starts : Fits(current_task, l)
<1>1. k \in Labels /\ k # "irq" /\ \A l \in Starts : l \notin Framed /\ l # "idle"
  BY DEF Labels, Framed, Starts
<1>2. ~active /\ Fits(current_task, k) /\ current_task \in Tasks
  BY <1>1, AtPlace
<1>3. /\ current_task # 0 /\ stack[current_task] = <<>>
      /\ user[current_task] = User(current_task, 0)
  BY <1>1, <1>2 DEF Fits
<1>4. current_task \in Users
  BY <1>2, <1>3 DEF Tasks, Users
<1>5. QED
  BY <1>1, <1>2, <1>3, <1>4, AddrFacts DEF Fits

LEMMA WrapHolds == EntryInv /\ Wrap => EntryInv'
<1> SUFFICES ASSUME EntryInv, Wrap PROVE EntryInv'
  OBVIOUS
<1>1. "wrap" \in Starts /\ "drop1" \in Starts /\ "drop1" \in Labels \ {"irq"}
  BY DEF Starts, Labels, Framed
<1>2. "wrap" \in Labels /\ ~active /\ Fits(current_task, "drop1")
  BY <1>1, StartFacts DEF Wrap
<1>3. /\ active' = FALSE /\ masked' \in BOOLEAN
      /\ sp_el0' \in Addrs /\ elr' \in Addrs /\ spsr' \in Statuses
  BY <1>2 DEF Wrap, EntryInv, TypeOK, registers
<1>4. QED
  BY <1>1, <1>2, <1>3, MoveKept DEF Wrap, registers

LEMMA Drop1Holds == EntryInv /\ Drop1 => EntryInv'
<1> SUFFICES ASSUME EntryInv, Drop1 PROVE EntryInv'
  OBVIOUS
<1>1. "drop1" \in Starts /\ "drop2" \in Starts /\ "drop2" \in Labels \ {"irq"}
  BY DEF Starts, Labels, Framed
<1>2. /\ "drop1" \in Labels /\ ~active /\ Fits(current_task, "drop2")
      /\ User(current_task, 0) \in Addrs
  BY <1>1, StartFacts DEF Drop1
<1>3. /\ active' = FALSE /\ masked' \in BOOLEAN
      /\ sp_el0' \in Addrs /\ elr' \in Addrs /\ spsr' \in Statuses
  BY <1>2 DEF Drop1, EntryInv, TypeOK
<1>4. QED
  BY <1>1, <1>2, <1>3, MoveKept DEF Drop1

LEMMA Drop2Holds == EntryInv /\ Drop2 => EntryInv'
<1> SUFFICES ASSUME EntryInv, Drop2 PROVE EntryInv'
  OBVIOUS
<1>1. "drop2" \in Starts /\ "drop3" \in Starts /\ "drop3" \in Labels \ {"irq"}
  BY DEF Starts, Labels, Framed
<1>2. "drop2" \in Labels /\ ~active /\ Fits(current_task, "drop3")
  BY <1>1, StartFacts DEF Drop2
<1>3. /\ active' = FALSE /\ masked' \in BOOLEAN
      /\ sp_el0' \in Addrs /\ elr' \in Addrs /\ spsr' \in Statuses
  BY <1>2 DEF Drop2, EntryInv, TypeOK, Statuses, InEL0
<1>4. elr' = User(current_task, 0) /\ sp_el0' = elr'
  BY <1>2, AtPlace DEF Drop2
<1>5. QED
  BY <1>1, <1>2, <1>3, <1>4, MoveKept DEF Drop2

\* eret into the new program.
LEMMA Drop3Holds == EntryInv /\ Drop3 => EntryInv'
<1> SUFFICES ASSUME EntryInv, Drop3 PROVE EntryInv'
  OBVIOUS
<1> DEFINE c == current_task
<1>1. "drop3" \in Starts
  BY DEF Starts
<1>2. /\ "drop3" \in Labels /\ ~active /\ c \in Users /\ c # 0 /\ c \in Tasks
      /\ stack[c] = <<>> /\ user[c] = User(c, 0)
      /\ User(c, 0) \in UserAddrs /\ User(c, 0) \in Addrs
  BY <1>1, StartFacts DEF Drop3
<1>3. elr = User(c, 0) /\ sp_el0 = elr /\ spsr = InEL0
  BY <1>2, AtPlace DEF Drop3
<1>4. place' = User(c, 0) /\ masked' = FALSE /\ x' = User(c, 0)
  BY <1>2, <1>3 DEF Drop3, Eret, InEL0
<1>5. TypeOK'
  BY <1>2, <1>4 DEF Drop3, EntryInv, TypeOK, tasks, program, handling
<1>6. InProgram'
  BY <1>2, <1>3, <1>4 DEF Drop3, InProgram, tasks, program
<1>7. QED
  BY <1>2, <1>5, <1>6, NothingMoved, LocalKept DEF Drop3, tasks

-----------------------------------------------------------------------------
LEMMA InitHolds == Init => EntryInv
<1> SUFFICES ASSUME Init PROVE EntryInv
  OBVIOUS
<1>1. TypeOK
  <2>1. \A l \in {"idle", "data", "wrap"} : Kernel(l) \in KernelAddrs /\ Kernel(l) \in Addrs
    BY DEF KernelAddrs, Addrs
  <2>2. \A t \in Users : User(t, 0) \in UserAddrs
    BY AddrFacts
  <2>3. 0 \in Tasks /\ 1 \in 1 .. MaxTid + 1
    BY EntryAssumption DEF Tasks
  <2>4. <<>> \in Seq(Frames) /\ <<>> \in Seq(UserAddrs)
    OBVIOUS
  <2>5. QED
    BY <2>1, <2>2, <2>3, <2>4 DEF Init, TypeOK, Statuses
<1>2. CpuInv
  <2>1. "idle" \in Labels /\ "idle" \notin Framed /\ "idle" \notin Starts
    BY DEF Labels, Framed, Starts
  <2>2. Fits(0, "idle")
    BY <2>1, EntryAssumption DEF Init, Fits, Tasks
  <2>3. InKernel
    BY <2>1, <2>2 DEF Init, InKernel, At
  <2>4. QED
    BY <2>3 DEF Init, CpuInv
<1>3. SwitchedOut /\ UnbornClean
  BY DEF Init, SwitchedOut, UnbornClean
<1>4. HandlersNest
  BY EntryAssumption DEF Init, HandlersNest, Nested
<1>5. QED
  BY <1>1, <1>2, <1>3, <1>4 DEF EntryInv

LEMMA StutterHolds == EntryInv /\ UNCHANGED vars => EntryInv'
<1> SUFFICES ASSUME EntryInv, UNCHANGED vars PROVE EntryInv'
  OBVIOUS
<1>1. TypeOK' /\ (InProgram => InProgram') /\ (At("irq") => At("irq")')
  BY DEF vars, EntryInv, TypeOK, InProgram, At
<1>2. \A t, l : Fits(t, l) => Fits(t, l)'
  BY DEF vars, Fits, HasFrame
<1>3. InKernel => InKernel'
  BY <1>2 DEF vars, InKernel, At
<1>4. CpuInv' /\ SwitchedOut'
  BY <1>1, <1>2, <1>3 DEF vars, EntryInv, CpuInv, SwitchedOut
<1>5. UnbornClean' /\ HandlersNest'
  BY DEF vars, EntryInv, UnbornClean, HandlersNest
<1>6. QED
  BY <1>1, <1>4, <1>5 DEF EntryInv

-----------------------------------------------------------------------------
\* What the registers, kernel stacks, contexts and user stacks hold always
\* fits the place at which each task is.
THEOREM EntryInvHolds == ASSUME ~KernelPreemptible PROVE Spec => []EntryInv
<1>1. EntryInv /\ [Next]_vars => EntryInv'
  <2> SUFFICES ASSUME EntryInv, [Next]_vars PROVE EntryInv'
    OBVIOUS
  <2>1. CASE UserStep \/ Svc \/ Irq \/ IrqHandler
    BY <2>1, UserStepHolds, SvcHolds, IrqHolds, IrqHandlerHolds
  <2>2. CASE SysReturn \/ SysSigreturn \/ Create \/ Fork
    BY <2>2, SysReturnHolds, SysSigreturnHolds, CreateHolds, ForkHolds
  <2>3. CASE \E next \in Tasks : SysSwitch(next) \/ SysExit(next) \/ IdleYield(next)
    BY <2>3, SysSwitchHolds, SysExitHolds, IdleYieldHolds
  <2>4. CASE Ret1 \/ Ret2 \/ ForkReturn
    BY <2>4, Ret1Holds, Ret2Holds, ForkReturnHolds
  <2>5. CASE Wrap \/ Drop1 \/ Drop2 \/ Drop3
    BY <2>5, WrapHolds, Drop1Holds, Drop2Holds, Drop3Holds
  <2>6. CASE UNCHANGED vars
    BY <2>6, StutterHolds
  <2>7. QED
    BY <2>1, <2>2, <2>3, <2>4, <2>5, <2>6 DEF Next
<1>2. QED
  BY InitHolds, <1>1, PTL DEF Spec

\* Registers, frames and contexts keep their types in start.S, el0_entry.S and
\* context_switch.S.
THEOREM TypeCorrect == ASSUME ~KernelPreemptible PROVE Spec => []TypeOK
<1>1. EntryInv => TypeOK
  BY DEF EntryInv
<1>2. QED
  BY EntryInvHolds, <1>1, PTL

\* In EL0 the registers, the stack pointer and the page tables are those of
\* the current program, as it left them, whatever interrupted it.
THEOREM ContextIsKept == ASSUME ~KernelPreemptible PROVE Spec => []UserContextKept
<1>1. EntryInv => UserContextKept
  BY InUser DEF UserContextKept, InProgram
<1>2. QED
  BY EntryInvHolds, <1>1, PTL

\* In EL0 interrupts are unmasked and none is left without its end.
THEOREM TicksCanCome == ASSUME ~KernelPreemptible PROVE Spec => []NextTickCanCome
<1>1. EntryInv => NextTickCanCome
  BY InUser DEF NextTickCanCome, InProgram
<1>2. QED
  BY EntryInvHolds, <1>1, PTL

\* No kernel stack holds more than one frame of saved registers, and it leads
\* to the program's own point or to the idle loop.
THEOREM FramesAreBalanced == ASSUME ~KernelPreemptible PROVE Spec => []FramesLeadBack
<1>1. ASSUME EntryInv PROVE FramesLeadBack
  <2>1. OnUser => stack[current_task] = <<>>
    BY <1>1, InUser DEF InProgram
  <2>2. ASSUME NEW t \in alive, stack[t] # <<>> PROVE HasFrame(t)
    <3>1. CASE t = current_task
      <4>1. CASE InProgram
        BY <2>2, <3>1, <4>1 DEF InProgram
      <4>2. CASE InKernel
        BY <2>2, <3>1, <4>2 DEF InKernel, Fits
      <4>3. QED
        BY <1>1, <4>1, <4>2 DEF EntryInv, CpuInv
    <3>2. CASE t # current_task
      BY <1>1, <2>2, <3>2 DEF EntryInv, SwitchedOut, Fits
    <3>3. QED
      BY <3>1, <3>2
  <2>3. ASSUME NEW t \in alive, stack[t] # <<>>
        PROVE  LET f == Last(stack[t]) IN
               /\ Len(stack[t]) = 1
               /\ IF t = 0 THEN f.elr = Kernel("idle") /\ f.spsr.el = 1
                  ELSE f.elr = user[t] /\ f.x = user[t] /\ f.sp_el0 = user[t] /\ f.spsr = InEL0
    <3>1. HasFrame(t) /\ stack[t] \in Seq(Frames)
      BY <1>1, <2>2, <2>3 DEF EntryInv, TypeOK
    <3>2. Last(stack[t]) = stack[t][1]
      BY <3>1, OneFrame DEF HasFrame
    <3>3. QED
      BY <3>1, <3>2 DEF HasFrame, Regs
  <2>4. QED
    BY <2>1, <2>3 DEF FramesLeadBack
<1>2. QED
  BY EntryInvHolds, <1>1, PTL

=============================================================================
