----------------------------- MODULE FileTable -----------------------------
(***************************************************************************)
(* The descriptor tables of fd.c: open, close, pipe, dup2, their copies by *)
(* fork, their creation by exec and destruction by exit, and the reference *)
(* counts by which open files and pipes are freed.                         *)
(*                                                                         *)
(* A call runs to its end before another task makes one, but for reads and *)
(* writes of pipes, which keep a pointer to the pipe while they call       *)
(* sched_yield in a loop: busy[t].  The bytes in pipes are the subject of  *)
(* Pipe.  Memory for an open file or a pipe may be refused at any time.    *)
(***************************************************************************)
EXTENDS Integers, FiniteSets

CONSTANTS
  Tasks,    \* the tasks that ever exist
  MaxFds,   \* MAX_FDS_PER_TASK, 16 in the code
  StdFds,   \* how many descriptors fd_table_init opens, 3 in the code
  Objs,     \* the memory that kzalloc may return for an open_file
  Console,  \* console_file
  Pipes,    \* the memory that kzalloc may return for a pipe
  Null

ASSUME FdAssumption == MaxFds \in Nat /\ StdFds \in 0 .. MaxFds
ASSUME ObjAssumption ==
  /\ IsFiniteSet(Tasks) /\ Tasks # {}
  /\ Console \notin Objs /\ Null \notin Objs \cup {Console} \cup Pipes

Fds   == 0 .. MaxFds - 1
Files == Objs \cup {Console}

VARIABLES
  fds,         \* the tables: an open file, or Null
  live,        \* the tasks that run
  unborn,      \* those that have not been created yet
  kind,        \* of an open file: "free", "console", "file", "rd" or "wr"
  ref_count,
  pipe,        \* the pipe of a pipe end
  pipes,       \* the pipes that are allocated
  read_open, write_open,
  busy,        \* the pipe that a task is reading or writing in a loop
  crashed      \* the kernel has dereferenced NULL: it stops for good

objvars == <<kind, ref_count, pipe, pipes, read_open, write_open>>
vars == <<fds, live, unborn, kind, ref_count, pipe, pipes, read_open,
          write_open, busy, crashed>>

TypeOK ==
  /\ fds \in [Tasks -> [Fds -> Files \cup {Null}]]
  /\ live \subseteq Tasks /\ unborn \subseteq Tasks \ live
  /\ kind \in [Files -> {"free", "console", "file", "rd", "wr"}]
  /\ ref_count \in [Files -> Int]
  /\ pipe \in [Files -> Pipes \cup {Null}]
  /\ pipes \subseteq Pipes
  /\ read_open \in [Pipes -> BOOLEAN] /\ write_open \in [Pipes -> BOOLEAN]
  /\ busy \in [Tasks -> Pipes \cup {Null}]
  /\ crashed \in BOOLEAN

NewTable == [fd \in Fds |-> IF fd < StdFds THEN Console ELSE Null]
NoTable  == [fd \in Fds |-> Null]

\* The shell has been created, nothing else.
Init ==
  /\ \E shell \in Tasks :
       /\ live = {shell} /\ unborn = Tasks \ {shell}
       /\ fds = [t \in Tasks |-> IF t = shell THEN NewTable ELSE NoTable]
  /\ kind = [f \in Files |-> IF f = Console THEN "console" ELSE "free"]
  /\ ref_count = [f \in Files |-> IF f = Console THEN StdFds ELSE 0]
  /\ pipe = [f \in Files |-> Null]
  /\ pipes = {}
  /\ read_open = [p \in Pipes |-> FALSE]
  /\ write_open = [p \in Pipes |-> FALSE]
  /\ busy = [t \in Tasks |-> Null]
  /\ crashed = FALSE

-----------------------------------------------------------------------------
\* Task t makes a call.
Calls(t) == ~crashed /\ t \in live /\ busy[t] = Null

IsOpen(t, fd) == fd \in Fds /\ fds[t][fd] # Null

\* find_free_fd; MaxFds when there is none.
FreeFd(table) ==
  CHOOSE fd \in 0 .. MaxFds :
    /\ fd < MaxFds => table[fd] = Null
    /\ \A d \in 0 .. fd - 1 : table[d] # Null

\* How many of the descriptors S of task t refer to f.
Refs(t, S, f) == Cardinality({fd \in S : fds[t][fd] = f})

\* (Variant: freed with one reference left.)
FreedEarly(t, S) ==
  {f \in Objs : Refs(t, S, f) > 0 /\ ref_count[f] - Refs(t, S, f) <= 1}

\* The open files that closing the descriptors S of task t frees, and what
\* becomes of the objects then (fd_close for each of S), when next is given
\* a reference behind it.  (kzalloc clears the memory before its next use.)
Freed(t, S) ==
  {f \in Objs : Refs(t, S, f) > 0 /\ ref_count[f] - Refs(t, S, f) <= 0}
\* (Variant: an end is taken for closed with the first descriptor of it.)
ClosePlusFirst(t, S, next) ==
  LET ended(k) == {pipe[f] : f \in {g \in Objs : Refs(t, S, g) > 0 /\ kind[g] = k}} IN
  /\ kind' = [f \in Files |-> IF f \in Freed(t, S) THEN "free" ELSE kind[f]]
  /\ ref_count' = [f \in Files |-> ref_count[f] - Refs(t, S, f)
                                     + IF f = next THEN 1 ELSE 0]
  /\ read_open' = [p \in Pipes |-> read_open[p] /\ p \notin ended("rd")]
  /\ write_open' = [p \in Pipes |-> write_open[p] /\ p \notin ended("wr")]
  /\ UNCHANGED <<pipe, pipes>>
ClosePlus(t, S, next) ==
  LET ended(k) == {pipe[f] : f \in {g \in Freed(t, S) : kind[g] = k}} IN
  /\ kind' = [f \in Files |-> IF f \in Freed(t, S) THEN "free" ELSE kind[f]]
  /\ ref_count' = [f \in Files |-> ref_count[f] - Refs(t, S, f)
                                     + IF f = next THEN 1 ELSE 0]
  /\ read_open' = [p \in Pipes |-> read_open[p] /\ p \notin ended("rd")]
  /\ write_open' = [p \in Pipes |-> write_open[p] /\ p \notin ended("wr")]
  /\ pipes' = {p \in pipes : p \in ended("rd") \cup ended("wr")
                               => read_open'[p] \/ write_open'[p]}
  /\ pipe' = [f \in Files |-> IF f \in Freed(t, S) THEN Null ELSE pipe[f]]

\* fd_close of an open descriptor (of any other it returns -1).
Close(t, fd) ==
  /\ Calls(t) /\ IsOpen(t, fd)
  /\ ClosePlus(t, {fd}, Null)
  /\ fds' = [fds EXCEPT ![t][fd] = Null]
  /\ UNCHANGED <<live, unborn, busy, crashed>>

\* fd_open, when the file exists and there is a free descriptor.
Open(t) ==
  LET fd == FreeFd(fds[t]) IN
  /\ Calls(t) /\ fd \in Fds
  /\ \E f \in Objs :
       /\ kind[f] = "free"
       /\ kind' = [kind EXCEPT ![f] = "file"]
       /\ ref_count' = [ref_count EXCEPT ![f] = 1]
       /\ fds' = [fds EXCEPT ![t][fd] = f]
  /\ UNCHANGED <<live, unborn, pipe, pipes, read_open, write_open, busy, crashed>>

\* fd_pipe, when it gets two descriptors and memory (else it frees what it
\* has got and returns -1).
Pipe(t) ==
  LET rfd == FreeFd(fds[t])
      wfd == FreeFd([fds[t] EXCEPT ![rfd] = Console]) IN    \* the dummy
  /\ Calls(t) /\ rfd \in Fds /\ wfd \in Fds
  /\ \E p \in Pipes \ pipes, rf, wf \in Objs :
       /\ rf # wf /\ kind[rf] = "free" /\ kind[wf] = "free"
       /\ kind' = [kind EXCEPT ![rf] = "rd", ![wf] = "wr"]
       /\ ref_count' = [ref_count EXCEPT ![rf] = 1, ![wf] = 1]
       /\ pipe' = [pipe EXCEPT ![rf] = p, ![wf] = p]
       /\ pipes' = pipes \cup {p}
       /\ read_open' = [read_open EXCEPT ![p] = TRUE]
       /\ write_open' = [write_open EXCEPT ![p] = TRUE]
       /\ fds' = [fds EXCEPT ![t][rfd] = rf, ![t][wfd] = wf]
  /\ UNCHANGED <<live, unborn, busy, crashed>>

\* (Variant: an open newfd is overwritten, not closed.)
Dup2NoClose(t, oldfd, newfd) ==
  /\ Calls(t) /\ IsOpen(t, oldfd) /\ newfd \in Fds
  /\ fds' = [fds EXCEPT ![t][newfd] = fds[t][oldfd]]
  /\ ref_count' = [ref_count EXCEPT ![fds[t][oldfd]] = @ + 1]
  /\ UNCHANGED <<live, unborn, kind, pipe, pipes, read_open, write_open, busy, crashed>>

\* fd_dup2.  It closes newfd first, and so oldfd when the two are the same;
\* then it follows the pointer in oldfd.
Dup2(t, oldfd, newfd) ==
  LET open == {newfd} \cap {fd \in Fds : IsOpen(t, fd)}
      file == IF oldfd = newfd THEN Null ELSE fds[t][oldfd] IN
  /\ Calls(t) /\ IsOpen(t, oldfd) /\ newfd \in Fds
  /\ ClosePlus(t, open, file)
  /\ fds' = [fds EXCEPT ![t][newfd] = file]
  /\ crashed' = (file = Null)
  /\ UNCHANGED <<live, unborn, busy>>

\* (Variants: shared files are not counted; a slot may be used again.)
ForkNoRefs(t, child) ==
  /\ Calls(t) /\ child \in unborn
  /\ fds' = [fds EXCEPT ![child] = fds[t]]
  /\ live' = live \cup {child} /\ unborn' = unborn \ {child}
  /\ UNCHANGED <<objvars, busy, crashed>>
ForkAgain(t, child) ==
  /\ Calls(t) /\ child \in unborn
  /\ fds' = [fds EXCEPT ![child] = fds[t]]
  /\ ref_count' = [f \in Files |-> ref_count[f] + Refs(t, Fds, f)]
  /\ live' = live \cup {child} /\ UNCHANGED unborn
  /\ UNCHANGED <<kind, pipe, pipes, read_open, write_open, busy, crashed>>

\* fd_table_dup, in sched_fork.
Fork(t, child) ==
  /\ Calls(t) /\ child \in unborn
  /\ fds' = [fds EXCEPT ![child] = fds[t]]
  /\ ref_count' = [f \in Files |-> ref_count[f] + Refs(t, Fds, f)]
  /\ live' = live \cup {child} /\ unborn' = unborn \ {child}
  /\ UNCHANGED <<kind, pipe, pipes, read_open, write_open, busy, crashed>>

\* fd_table_init, in sched_create_user.
Exec(t, child) ==
  /\ Calls(t) /\ child \in unborn
  /\ fds' = [fds EXCEPT ![child] = NewTable]
  /\ ref_count' = [ref_count EXCEPT ![Console] = @ + StdFds]
  /\ live' = live \cup {child} /\ unborn' = unborn \ {child}
  /\ UNCHANGED <<kind, pipe, pipes, read_open, write_open, busy, crashed>>

\* fd_table_destroy, in sched_exit.
Exit(t) ==
  /\ Calls(t)
  /\ ClosePlus(t, {fd \in Fds : IsOpen(t, fd)}, Null)
  /\ fds' = [fds EXCEPT ![t] = NoTable]
  /\ live' = live \ {t}
  /\ UNCHANGED <<unborn, busy, crashed>>

\* fd_read or fd_write of a pipe calls sched_yield in its loop, ...
StartWait(t, fd) ==
  /\ Calls(t) /\ IsOpen(t, fd) /\ kind[fds[t][fd]] \in {"rd", "wr"}
  /\ busy' = [busy EXCEPT ![t] = pipe[fds[t][fd]]]
  /\ UNCHANGED <<fds, live, unborn, objvars, crashed>>

\* ... and goes on with the pointer it had.
EndWait(t) ==
  /\ ~crashed /\ busy[t] # Null
  /\ busy' = [busy EXCEPT ![t] = Null]
  /\ UNCHANGED <<fds, live, unborn, objvars, crashed>>

Next ==
  \E t \in Tasks :
    \/ \E fd \in Fds : Close(t, fd) \/ StartWait(t, fd)
    \/ Open(t) \/ Pipe(t) \/ Exit(t) \/ EndWait(t)
    \/ \E oldfd, newfd \in Fds : Dup2(t, oldfd, newfd)
    \/ \E child \in Tasks : Fork(t, child) \/ Exec(t, child)

Spec == Init /\ [][Next]_vars

-----------------------------------------------------------------------------
(* Properties.                                                             *)

\* The descriptors of all tasks that refer to f.
Holders(f) == {h \in Tasks \X Fds : fds[h[1]][h[2]] = f}

\* fd.h:43, "Number of fd's pointing to this file", through every fork,
\* dup2, close and exit; and nothing is leaked: an open_file that no descriptor
\* refers to is freed, and a pipe that has no end left.
RefCountsExact ==
  /\ \A f \in Files : ref_count[f] = Cardinality(Holders(f))
  /\ \A f \in Objs : kind[f] # "free" => Holders(f) # {}
  /\ \A p \in pipes : \E f \in Objs : kind[f] \in {"rd", "wr"} /\ pipe[f] = p

\* No pointer leads to freed memory, whatever the other tasks close: an
\* open_file is not freed under a descriptor, nor a pipe under its ends or
\* under a task that waits on it in fd_read or fd_write, with the pointer it
\* had before sched_yield.
NoDangling ==
  /\ \A t \in Tasks, fd \in Fds : IsOpen(t, fd) =>
       LET f == fds[t][fd] IN
       /\ kind[f] # "free"
       /\ kind[f] \in {"rd", "wr"} => pipe[f] \in pipes
  /\ \A t \in Tasks : busy[t] # Null => busy[t] \in pipes

\* What the loops of fd_read and fd_write test is true: read_open says that
\* somebody can still read from the pipe, write_open that somebody can write.
EndsAreTrue ==
  \A p \in pipes :
    /\ read_open[p] <=> \E t \in Tasks, fd \in Fds :
         IsOpen(t, fd) /\ kind[fds[t][fd]] = "rd" /\ pipe[fds[t][fd]] = p
    /\ write_open[p] <=> \E t \in Tasks, fd \in Fds :
         IsOpen(t, fd) /\ kind[fds[t][fd]] = "wr" /\ pipe[fds[t][fd]] = p

=============================================================================
