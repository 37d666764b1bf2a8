------------------------------- MODULE Shell -------------------------------
(***************************************************************************)
(* The shell, uprogs/shell.c, at work: execute_line with its pipes, forks, *)
(* dup2s, closes and waits, and its children, on the system calls that the *)
(* other modules are about.                                                *)
(*                                                                         *)
(* Every system call is a step, and any task that can go on may take the   *)
(* next one.  Calls act as FileTable, Pipe and Sched have them: an end of  *)
(* a pipe is open as long as a descriptor of a task refers to it; a task   *)
(* that waits goes on when its target ends, or when a child of its own     *)
(* does and SIGCHLD comes.  Any fork, pipe or exec may fail.  Signals that *)
(* programs send are left out, and wc on the console, which never ends.    *)
(***************************************************************************)
EXTENDS Integers, Sequences

CONSTANTS
  MaxTid,             \* the highest task number, the shell being task 1
  MaxFd,              \* the highest descriptor
  MaxPipes,           \* how many pipes there is memory for
  PipeSize,           \* PIPE_BUF_SIZE
  EchoBytes,          \* how many bytes echo writes (a bound), one in a call
  Lines               \* what is typed: commands, at least one (shell.c:194 returns)

ASSUME ShellAssumption ==
  /\ MaxTid \in Nat \ {0} /\ MaxFd \in Nat /\ MaxFd > 2
  /\ MaxPipes \in Nat /\ PipeSize \in Nat \ {0} /\ EchoBytes \in Nat \ {0}
  /\ Lines \subseteq Seq({"echo", "wc", "program", "exit"}) \ {<<>>}

Sh == 1
Tasks == 1 .. MaxTid
Pipes == 1 .. MaxPipes
Fds == 0 .. MaxFd
STDIN == 0
STDOUT == 1

NoFile == <<"none", 0>>
Console == <<"console", 0>>
R(p) == <<"read", p>>
W(p) == <<"write", p>>
Ends == {NoFile, Console} \cup {R(p) : p \in Pipes} \cup {W(p) : p \in Pipes}
OnlyConsole == [fd \in Fds |-> IF fd <= 2 THEN Console ELSE NoFile]

VARIABLES
  pc,           \* per task: where it is
  calls,        \* per task: the dup2's and closes it makes before it goes on
  fds,
  locals,       \* the variables of execute_line
  bytes,        \* per pipe: how many are in it
  left,         \* per task: how many it has still to write
  written,      \* per task: how many it has written to a pipe
  counted,      \* per task: how many it has read, as wc
  parent_tid,
  born,         \* how many tasks there were
  pipe_failed   \* "pipe failed" was printed

vars == <<pc, calls, fds, locals, bytes, left, written, counted, parent_tid, born, pipe_failed>>

Labels == {"none", "prompt", "pipe", "fork", "wait", "blocked", "run", "write", "read",
           "program", "exit", "finished"}

\* pids: child_pids; k: the number of the wait.
NoLocals == [line |-> <<>>, i |-> 1, prev_read_fd |-> -1, rfd |-> -1, wfd |-> -1,
             pids |-> <<>>, k |-> 1]

\* close(fd), and dup2(old, new).
Close(fd) == <<"close", fd, fd>>
Dup2(old, new) == <<"dup2", old, new>>
Calls == {Close(fd) : fd \in Fds} \cup {Dup2(old, new) : old \in Fds, new \in 0 .. 2}

TypeOK ==
  /\ pc \in [Tasks -> Labels]
  /\ fds \in [Tasks -> [Fds -> Ends]]
  /\ \A t \in Tasks :
       /\ locals[t].line \in Lines \cup {<<>>}
       /\ {locals[t].prev_read_fd, locals[t].rfd, locals[t].wfd} \subseteq -1 .. MaxFd
       /\ \A n \in DOMAIN locals[t].pids : locals[t].pids[n] \in {-1} \cup 2 .. born
       /\ calls[t] \in Seq(Calls)
       /\ pc[t] = "blocked" => locals[t].pids[locals[t].k] # -1
       /\ pc[t] # "none" <=> t <= born
  /\ bytes \in [Pipes -> 0 .. PipeSize]
  /\ left \in [Tasks -> 0 .. EchoBytes]
  /\ written \in [Tasks -> 0 .. EchoBytes] /\ counted \in [Tasks -> 0 .. EchoBytes]
  /\ parent_tid \in [Tasks -> -1 .. MaxTid]
  /\ born \in Tasks /\ pipe_failed \in BOOLEAN

Init ==
  /\ pc = [t \in Tasks |-> IF t = Sh THEN "prompt" ELSE "none"]
  /\ calls = [t \in Tasks |-> <<>>]
  /\ fds = [t \in Tasks |-> [fd \in Fds |-> IF t = Sh THEN OnlyConsole[fd] ELSE NoFile]]
  /\ locals = [t \in Tasks |-> NoLocals]
  /\ bytes = [p \in Pipes |-> 0]
  /\ left = [t \in Tasks |-> 0]
  /\ written = [t \in Tasks |-> 0] /\ counted = [t \in Tasks |-> 0]
  /\ parent_tid = [t \in Tasks |-> -1]
  /\ born = 1 /\ pipe_failed = FALSE

-----------------------------------------------------------------------------
At(t, label) == pc[t] = label /\ calls[t] = <<>>
Goto(t, label) == pc' = [pc EXCEPT ![t] = label]
Open(end) == \E t \in Tasks, fd \in Fds : fds[t][fd] = end
nseg(t) == Len(locals[t].line)

\* The end of run_single_cmd, or of the waits of execute_line.
Done(t) ==
  /\ Goto(t, IF t = Sh THEN "prompt" ELSE "exit")
  /\ locals' = IF t = Sh THEN [locals EXCEPT ![t] = NoLocals] ELSE locals

\* The next of the calls.
DescriptorCall(t) ==
  /\ calls[t] # <<>>
  /\ LET c == Head(calls[t]) IN
     fds' = [fds EXCEPT ![t][c[3]] = IF c[1] = "close" THEN NoFile ELSE fds[t][c[2]]]
  /\ calls' = [calls EXCEPT ![t] = Tail(@)]
  /\ UNCHANGED <<pc, locals, bytes, left, written, counted, parent_tid, born, pipe_failed>>

\* What the child of a fork does with the descriptors of the shell, and what
\* the shell does.  (Variants: the read end of the child's own pipe, and the
\* write end of the shell, stay open.)
Connects(fd, std) == IF fd = -1 THEN <<>> ELSE <<Dup2(fd, std), Close(fd)>>
Closes(fd) == IF fd = -1 THEN <<>> ELSE <<Close(fd)>>
ChildCallsKeepRead(l) == Connects(l.prev_read_fd, STDIN) \o Connects(l.wfd, STDOUT)
ChildCalls(l) ==
  Connects(l.prev_read_fd, STDIN) \o Connects(l.wfd, STDOUT) \o Closes(l.rfd)
ParentCallsKeepWrite(l) == Closes(l.prev_read_fd)
ParentCalls(l) == Closes(l.prev_read_fd) \o Closes(l.wfd)

counters == <<left, written, counted>>

-----------------------------------------------------------------------------
(* execute_line.                                                           *)

ReadLine ==
  /\ At(Sh, "prompt")
  /\ \E line \in Lines :
       /\ locals' = [locals EXCEPT ![Sh] = [NoLocals EXCEPT !.line = line]]
       /\ Goto(Sh, IF line = <<"exit">> THEN "exit"
                   ELSE IF Len(line) = 1 THEN "run" ELSE "pipe")
  /\ UNCHANGED <<calls, fds, bytes, counters, parent_tid, born, pipe_failed>>

\* A pipe between this segment and the next, on the two lowest descriptors.
Pipe(t) ==
  LET free == {fd \in Fds : fds[t][fd] = NoFile} IN
  /\ At(t, "pipe")
  /\ \/ /\ \E rfd, wfd \in free, p \in Pipes :
             /\ ~Open(R(p)) /\ ~Open(W(p))
             /\ \A q \in 1 .. p - 1 : Open(R(q)) \/ Open(W(q))
             /\ rfd < wfd /\ \A fd \in free : rfd <= fd /\ (fd # rfd => wfd <= fd)
             /\ locals' = [locals EXCEPT ![t].rfd = rfd, ![t].wfd = wfd]
             /\ fds' = [fds EXCEPT ![t][rfd] = R(p), ![t][wfd] = W(p)]
             /\ bytes' = [bytes EXCEPT ![p] = 0]
        /\ Goto(t, "fork") /\ UNCHANGED pipe_failed
     \/ /\ pipe_failed' = TRUE
        /\ locals' = [locals EXCEPT ![t] = NoLocals]
        /\ Goto(t, "prompt") /\ UNCHANGED <<fds, bytes>>
  /\ UNCHANGED <<calls, counters, parent_tid, born>>

\* sched_fork of the i-th child, which has the descriptors and the variables
\* of the shell, or not, when there is no slot or no memory for it.  The last
\* segment needs no pipe.
Fork(t) ==
  LET l == locals[t]
      After(pid) == [l EXCEPT !.pids = Append(@, pid), !.prev_read_fd = l.rfd,
                              !.i = IF @ < nseg(t) THEN @ + 1 ELSE @,
                              !.rfd = -1, !.wfd = -1]
      next == IF l.i = nseg(t) THEN "wait"
              ELSE IF l.i + 1 = nseg(t) THEN "fork" ELSE "pipe" IN
  /\ At(t, "fork")
  /\ \/ /\ born < MaxTid
        /\ born' = born + 1
        /\ fds' = [fds EXCEPT ![born'] = fds[t]]
        /\ locals' = [locals EXCEPT ![born'] = l, ![t] = After(born')]
        /\ parent_tid' = [parent_tid EXCEPT ![born'] = t]
        /\ pc' = [pc EXCEPT ![t] = next, ![born'] = "run"]
        /\ calls' = [calls EXCEPT ![t] = ParentCalls(l), ![born'] = ChildCalls(l)]
     \/ /\ locals' = [locals EXCEPT ![t] = After(-1)]
        /\ Goto(t, next)
        /\ calls' = [calls EXCEPT ![t] = ParentCalls(l)]
        /\ UNCHANGED <<born, fds, parent_tid>>
  /\ UNCHANGED <<bytes, counters, pipe_failed>>

\* sched_wait, for each child in turn: at once for one that has ended, or that
\* could not be forked.
Wait(t) ==
  LET l == locals[t] IN
  /\ At(t, "wait")
  /\ IF l.k > Len(l.pids) THEN Done(t)
     ELSE IF l.pids[l.k] = -1 \/ pc[l.pids[l.k]] = "finished"
     THEN locals' = [locals EXCEPT ![t].k = @ + 1] /\ UNCHANGED pc
     ELSE Goto(t, "blocked") /\ UNCHANGED locals
  /\ UNCHANGED <<calls, fds, bytes, counters, parent_tid, born, pipe_failed>>

-----------------------------------------------------------------------------
(* run_single_cmd: echo stands for the commands that only write, wc for    *)
(* those that read to the end and then write, program for the others.      *)

Command(t) == locals[t].line[locals[t].i]

Run(t) ==
  /\ At(t, "run")
  /\ \/ /\ Command(t) = "echo" /\ Goto(t, "write")
        /\ left' = [left EXCEPT ![t] = EchoBytes]
        /\ UNCHANGED <<fds, locals, parent_tid, born>>
     \/ /\ Command(t) = "wc" /\ Goto(t, "read")
        /\ UNCHANGED <<fds, locals, left, parent_tid, born>>
     \/ /\ Command(t) \in {"program", "exit"}       \* SYS_EXEC, then wait
        /\ born < MaxTid
        /\ born' = born + 1
        /\ fds' = [fds EXCEPT ![born'] = OnlyConsole]
        /\ locals' = [locals EXCEPT ![t].pids = <<born'>>, ![t].k = 1]
        /\ parent_tid' = [parent_tid EXCEPT ![born'] = t]
        /\ pc' = [pc EXCEPT ![t] = "wait", ![born'] = "program"]
        /\ UNCHANGED left
     \/ /\ Command(t) \in {"program", "exit"}       \* not found
        /\ Done(t)
        /\ UNCHANGED <<fds, left, parent_tid, born>>
  /\ UNCHANGED <<calls, bytes, written, counted, pipe_failed>>

HasRoomOff(p) == bytes[p] <= PipeSize       \* (variant)
HasRoom(p) == bytes[p] < PipeSize

\* write, of one byte, to the console, or to a pipe that has room or has no
\* reader and fails.
Write(t) ==
  /\ At(t, "write")
  /\ \/ /\ left[t] = 0 /\ Done(t) /\ UNCHANGED <<bytes, left, written>>
     \/ /\ left[t] > 0 /\ UNCHANGED <<pc, locals>>
        /\ left' = [left EXCEPT ![t] = @ - 1]
        /\ \/ fds[t][STDOUT] = Console /\ UNCHANGED <<bytes, written>>
           \/ \E p \in Pipes :
                /\ fds[t][STDOUT] = W(p)
                /\ \/ ~Open(R(p)) /\ UNCHANGED <<bytes, written>>
                   \/ /\ Open(R(p)) /\ HasRoom(p)
                      /\ bytes' = [bytes EXCEPT ![p] = @ + 1]
                      /\ written' = [written EXCEPT ![t] = @ + 1]
  /\ UNCHANGED <<calls, fds, counted, parent_tid, born, pipe_failed>>

\* (Variant: the end is looked for before the bytes.)
ReadEndFirst(t) ==
  /\ At(t, "read")
  /\ \E p \in Pipes :
       /\ fds[t][STDIN] = R(p)
       /\ \/ /\ bytes[p] > 0 /\ UNCHANGED <<pc, left>>
             /\ counted' = [counted EXCEPT ![t] = @ + bytes[p]]
             /\ bytes' = [bytes EXCEPT ![p] = 0]
          \/ /\ ~Open(W(p)) /\ Goto(t, "write")
             /\ left' = [left EXCEPT ![t] = 1]
             /\ UNCHANGED <<bytes, counted>>
  /\ UNCHANGED <<calls, fds, locals, written, parent_tid, born, pipe_failed>>

\* read, by wc, of all that is in the pipe; at its end, wc reports.
Read(t) ==
  /\ At(t, "read")
  /\ \E p \in Pipes :
       /\ fds[t][STDIN] = R(p)
       /\ \/ /\ bytes[p] > 0 /\ UNCHANGED <<pc, left>>
             /\ counted' = [counted EXCEPT ![t] = @ + bytes[p]]
             /\ bytes' = [bytes EXCEPT ![p] = 0]
          \/ /\ bytes[p] = 0 /\ ~Open(W(p)) /\ Goto(t, "write")
             /\ left' = [left EXCEPT ![t] = 1]
             /\ UNCHANGED <<bytes, counted>>
  /\ UNCHANGED <<calls, fds, locals, written, parent_tid, born, pipe_failed>>

-----------------------------------------------------------------------------
\* A program does what it does, and ends.
Program(t) ==
  /\ At(t, "program") /\ Goto(t, "exit")
  /\ UNCHANGED <<calls, fds, locals, bytes, counters, parent_tid, born, pipe_failed>>

\* Those that the end of t wakes from their wait: who waits for it, and by
\* SIGCHLD its parent, whatever that waits for.
Woken(t) ==
  {u \in Tasks : /\ pc[u] = "blocked"
                 /\ locals[u].pids[locals[u].k] = t \/ parent_tid[t] = u}

\* sched_exit.
Exit(t) ==
  /\ At(t, "exit")
  /\ fds' = [fds EXCEPT ![t] = [fd \in Fds |-> NoFile]]
  /\ pc' = [u \in Tasks |-> IF u = t THEN "finished"
                            ELSE IF u \in Woken(t) THEN "wait" ELSE pc[u]]
  /\ locals' = [u \in Tasks |-> IF u = t THEN NoLocals
                                ELSE IF u \in Woken(t) THEN [locals[u] EXCEPT !.k = @ + 1]
                                ELSE locals[u]]
  /\ counted' = [counted EXCEPT ![t] = 0]
  /\ UNCHANGED <<calls, bytes, left, written, parent_tid, born, pipe_failed>>

Works(t) ==
  \/ DescriptorCall(t) \/ Pipe(t) \/ Fork(t) \/ Wait(t)
  \/ Run(t) \/ Write(t) \/ Read(t) \/ Program(t) \/ Exit(t)

Next == ReadLine \/ \E t \in Tasks : Works(t)

\* The scheduler is fair (ReadyTaskRuns of Sched), and pipe calls end when
\* they can (NobodyIsStuck of Pipe).
Spec == Init /\ [][Next]_vars /\ \A t \in Tasks : WF_vars(Works(t))

-----------------------------------------------------------------------------
(* Properties.                                                             *)

\* The command before t in its pipeline.
Upstream(t) == locals[t].pids[locals[t].i - 1]

\* A command that sees the end of its input has seen all of it: the command
\* before it has ended, or never was, and every byte that it could write was
\* counted, wherever the two, the shell and later forks were when the ends
\* were duplicated and closed (shell.c:239-274, fd.c:157-171).
InputIsComplete ==
  \A t \in Tasks \ {Sh} :
    /\ pc[t] \in {"write", "exit"} /\ nseg(t) > 0 /\ Command(t) = "wc"
    => IF Upstream(t) = -1 THEN counted[t] = 0
       ELSE pc[Upstream(t)] = "finished" /\ counted[t] = written[Upstream(t)]

\* Nobody keeps an end of a pipe that is not its input or output: a command
\* runs with the descriptors 0 to 2 alone, and the shell at its prompt has the
\* console alone, however many lines it has run (unless a pipe could not be
\* made, when shell.c:235 returns with the last read end open).
DescriptorsAreTidy ==
  /\ TypeOK
  /\ ~pipe_failed =>
       /\ pc[Sh] = "prompt" => fds[Sh] = OnlyConsole
       /\ \A t \in Tasks \ {Sh} : calls[t] = <<>> /\ pc[t] \in {"run", "read", "write", "wait"} =>
            \A fd \in Fds : fds[t][fd] = NoFile <=> fd > 2

\* Pipelines come to their end, and the shell to its next prompt: no command
\* waits for ever for input that nobody will write or for room that nobody
\* will make (unless, again, a pipe could not be made).
PipelinesEnd ==
  /\ \A t \in Tasks \ {Sh} : pc[t] # "none" ~> pc[t] = "finished" \/ pipe_failed
  /\ pc[Sh] \notin {"prompt", "finished"} ~> pc[Sh] \in {"prompt", "finished"}

=============================================================================
