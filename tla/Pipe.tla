-------------------------------- MODULE Pipe --------------------------------
(***************************************************************************)
(* One pipe of fd.c: the ring buffer, the blocking loops of fd_read and    *)
(* fd_write, and the closing of its ends, used by tasks that inherited it. *)
(*                                                                         *)
(* A system call runs with IRQs masked, so that another task gets the CPU  *)
(* only when the loops call sched_yield: cpu is the task that is in the    *)
(* kernel, or NoTask.  But a task that comes back from sched_yield keeps   *)
(* the mask of whoever switched to it (see Sched): when Preemptible, it    *)
(* may go on unmasked, and is then in soft: a tick can take the CPU away   *)
(* from it anywhere.  p->count++ and p->count-- are a load and a store.    *)
(* Here a task has one descriptor for each end that it holds, see          *)
(* FileTable for the tables of descriptors.                                *)
(***************************************************************************)
EXTENDS Integers, Sequences, FiniteSets

CONSTANTS
  Size,         \* PIPE_BUF_SIZE, 4096 in the code
  Readers,      \* the tasks that have the read end at first
  Writers,      \* the tasks that have the write end at first
  NoTask,       \* not a task
  Counts,       \* the byte counts that calls ask for
  MaxBytes,     \* no write call starts behind this many bytes (a bound)
  Preemptible   \* may a system call go on unmasked after sched_yield?

Tasks == Readers \cup Writers

ASSUME SizeAssumption == Size \in Nat \ {0}
ASSUME TaskAssumption == NoTask \notin Tasks
ASSUME CountsAssumption == Counts \subseteq Nat \ {0} /\ MaxBytes \in Nat

VARIABLES
  buf, read_pos, write_pos, count,  \* struct pipe
  rd, wr,       \* the tasks that hold the ends: read_open is rd # {}
  pc,           \* where each task is
  left,         \* count - total of the call it is in
  reg,          \* p->count as it has loaded it
  cpu,          \* the task in the kernel, or NoTask
  soft,         \* the tasks whose call goes on with IRQs unmasked
  sent, out,    \* how many bytes were written, and which were read
  answer        \* of the last call: "end" of file (0), "broken" (-1), or none

ring == <<buf, read_pos, write_pos, count>>
ends == <<rd, wr>>
history == <<sent, out, answer>>
vars == <<buf, read_pos, write_pos, count, rd, wr, pc, left, reg, cpu, soft,
          sent, out, answer>>

\* rtest, reof: the waiting loop of fd_read, before its two tests; rcopy,
\* rdec: its copying loop, at the test and before count-- is stored; wtest,
\* wfull, winc: the same of fd_write, where wfull has found the buffer full.
Places == {"user", "rtest", "reof", "rcopy", "rdec", "wtest", "wfull", "winc"}

TypeOK ==
  /\ buf \in [0 .. Size - 1 -> Nat]
  /\ read_pos \in 0 .. Size - 1 /\ write_pos \in 0 .. Size - 1
  /\ count \in Int
  /\ rd \subseteq Readers /\ wr \subseteq Writers
  /\ pc \in [Tasks -> Places]
  /\ left \in [Tasks -> Nat]
  /\ reg \in [Tasks -> Int]
  /\ cpu \in Tasks \cup {NoTask} /\ soft \subseteq Tasks
  /\ sent \in Nat /\ out \in Seq(Nat)
  /\ answer \in [Tasks -> {"none", "end", "broken"}]

\* After fd_pipe, whose kzalloc clears the struct, and the forks.
Init ==
  /\ buf = [i \in 0 .. Size - 1 |-> 0]
  /\ read_pos = 0 /\ write_pos = 0 /\ count = 0
  /\ rd = Readers /\ wr = Writers
  /\ pc = [t \in Tasks |-> "user"]
  /\ left = [t \in Tasks |-> 0]
  /\ reg = [t \in Tasks |-> 0]
  /\ cpu = NoTask /\ soft = {}
  /\ sent = 0 /\ out = <<>>
  /\ answer = [t \in Tasks |-> "none"]

-----------------------------------------------------------------------------
\* Task t executes at place p.
At(t, p) == pc[t] = p /\ cpu \in {t, NoTask} \cup soft

\* It goes on at q, enters the kernel at q, goes back to its program, or
\* calls sched_yield, to come back at q.
Goto(t, q) == pc' = [pc EXCEPT ![t] = q] /\ cpu' = t /\ UNCHANGED soft
Enter(t, q) == pc' = [pc EXCEPT ![t] = q] /\ cpu' = t /\ soft' = soft \ {t}
Return(t) == pc' = [pc EXCEPT ![t] = "user"] /\ cpu' = NoTask /\ UNCHANGED soft
YieldTo(t, q) ==
  /\ pc' = [pc EXCEPT ![t] = q] /\ cpu' = NoTask
  /\ \/ soft' = soft \ {t}
     \/ Preemptible /\ soft' = soft \cup {t}

\* Neither fd_read nor fd_write looks at which end the descriptor is of.
StartRead(t, n) ==
  /\ At(t, "user") /\ t \in rd \cup wr
  /\ Enter(t, "rtest")
  /\ left' = [left EXCEPT ![t] = n]
  /\ answer' = [answer EXCEPT ![t] = "none"]
  /\ UNCHANGED <<ring, ends, reg, sent, out>>

\* (Variants: write_open is tested first; the wait is for a full buffer.)
RTestEofFirst(t) ==
  /\ At(t, "rtest")
  /\ Goto(t, IF count = 0 \/ wr = {} THEN "reof" ELSE "rcopy")
  /\ UNCHANGED <<ring, ends, left, reg, history>>
RTestFull(t) ==
  /\ At(t, "rtest")
  /\ Goto(t, IF count < Size THEN "reof" ELSE "rcopy")
  /\ UNCHANGED <<ring, ends, left, reg, history>>

\* while (p->count == 0)
RTest(t) ==
  /\ At(t, "rtest")
  /\ Goto(t, IF count = 0 THEN "reof" ELSE "rcopy")
  /\ UNCHANGED <<ring, ends, left, reg, history>>

\* (Variant: the end of the writers is not noticed.)
REofNever(t) ==
  /\ At(t, "reof")
  /\ YieldTo(t, "rtest") /\ UNCHANGED answer
  /\ UNCHANGED <<ring, ends, left, reg, sent, out>>

\* if (!p->write_open) return 0; sched_yield();
REof(t) ==
  /\ At(t, "reof")
  /\ IF wr = {} THEN Return(t) /\ answer' = [answer EXCEPT ![t] = "end"]
                ELSE YieldTo(t, "rtest") /\ UNCHANGED answer
  /\ UNCHANGED <<ring, ends, left, reg, sent, out>>

\* while (total < count && p->count > 0): a byte is taken, or fd_read returns.
RTake(t) ==
  /\ At(t, "rcopy") /\ left[t] > 0 /\ count > 0
  /\ out' = Append(out, buf[read_pos])
  /\ read_pos' = (read_pos + 1) % Size
  /\ reg' = [reg EXCEPT ![t] = count]
  /\ left' = [left EXCEPT ![t] = @ - 1]
  /\ Goto(t, "rdec")
  /\ UNCHANGED <<buf, write_pos, count, ends, sent, answer>>

\* (Variant: the count is not decremented.)
RStoreSame(t) ==
  /\ At(t, "rdec")
  /\ count' = reg[t]
  /\ Goto(t, "rcopy")
  /\ UNCHANGED <<buf, read_pos, write_pos, ends, left, reg, history>>

RStore(t) ==
  /\ At(t, "rdec")
  /\ count' = reg[t] - 1
  /\ Goto(t, "rcopy")
  /\ UNCHANGED <<buf, read_pos, write_pos, ends, left, reg, history>>

RReturn(t) ==
  /\ At(t, "rcopy") /\ ~(left[t] > 0 /\ count > 0)
  /\ Return(t)
  /\ UNCHANGED <<ring, ends, left, reg, history>>

\* if (!p->read_open) return -1, at the start of fd_write.
StartWrite(t, n) ==
  /\ At(t, "user") /\ t \in rd \cup wr /\ sent + n <= MaxBytes
  /\ answer' = [answer EXCEPT ![t] = IF rd = {} THEN "broken" ELSE "none"]
  /\ IF rd = {} THEN UNCHANGED <<pc, cpu, soft, left>>
     ELSE Enter(t, "wtest") /\ left' = [left EXCEPT ![t] = n]
  /\ UNCHANGED <<ring, ends, reg, sent, out>>

\* while (total < count): fd_write returns, ...
WReturn(t) ==
  /\ At(t, "wtest") /\ left[t] = 0
  /\ Return(t)
  /\ UNCHANGED <<ring, ends, left, reg, history>>

\* ... finds the buffer full, ...
WFull(t) ==
  /\ At(t, "wtest") /\ left[t] > 0 /\ count = Size
  /\ Goto(t, "wfull")
  /\ UNCHANGED <<ring, ends, left, reg, history>>

\* if (!p->read_open) return -1; sched_yield();
WBroken(t) ==
  /\ At(t, "wfull")
  /\ IF rd = {} THEN Return(t) /\ answer' = [answer EXCEPT ![t] = "broken"]
                ELSE YieldTo(t, "wtest") /\ UNCHANGED answer
  /\ UNCHANGED <<ring, ends, left, reg, sent, out>>

\* (Variant: the position does not wrap.)
WPutNoWrap(t) ==
  /\ At(t, "wtest") /\ left[t] > 0 /\ count # Size
  /\ buf' = [buf EXCEPT ![write_pos] = sent + 1]
  /\ write_pos' = write_pos + 1
  /\ reg' = [reg EXCEPT ![t] = count]
  /\ left' = [left EXCEPT ![t] = @ - 1]
  /\ sent' = sent + 1
  /\ Goto(t, "winc")
  /\ UNCHANGED <<read_pos, count, ends, out, answer>>

\* ... or stores a byte.
WPut(t) ==
  /\ At(t, "wtest") /\ left[t] > 0 /\ count # Size
  /\ buf' = [buf EXCEPT ![write_pos] = sent + 1]
  /\ write_pos' = (write_pos + 1) % Size
  /\ reg' = [reg EXCEPT ![t] = count]
  /\ left' = [left EXCEPT ![t] = @ - 1]
  /\ sent' = sent + 1
  /\ Goto(t, "winc")
  /\ UNCHANGED <<read_pos, count, ends, out, answer>>

WStore(t) ==
  /\ At(t, "winc")
  /\ count' = reg[t] + 1
  /\ Goto(t, "wtest")
  /\ UNCHANGED <<buf, read_pos, write_pos, ends, left, reg, history>>

\* fd_close of a descriptor of the pipe, or sched_exit.
CloseEnd(t) ==
  /\ At(t, "user")
  /\ \/ t \in rd /\ rd' = rd \ {t} /\ UNCHANGED wr
     \/ t \in wr /\ wr' = wr \ {t} /\ UNCHANGED rd
  /\ UNCHANGED <<ring, pc, cpu, soft, left, reg, history>>

-----------------------------------------------------------------------------
InKernel(t) ==
  \/ RTest(t) \/ REof(t) \/ RTake(t) \/ RStore(t) \/ RReturn(t)
  \/ WReturn(t) \/ WFull(t) \/ WBroken(t) \/ WPut(t) \/ WStore(t)

Next ==
  \E t \in Tasks :
    \/ InKernel(t)
    \/ \E n \in Counts : StartRead(t, n) \/ StartWrite(t, n)
    \/ CloseEnd(t)

Spec == Init /\ [][Next]_vars

\* sched_yield goes round the READY tasks, so that each one that polls gets
\* the CPU again and again (ReadyTaskRuns of Sched).
FairSpec == Spec /\ \A t \in Tasks : SF_vars(InKernel(t))

-----------------------------------------------------------------------------
(* Properties.                                                             *)

C == INSTANCE Channel WITH
       Size <- Size, Readers <- Readers, Writers <- Writers,
       sent <- sent, out <- out, rd <- rd, wr <- wr, answer <- answer

\* Every behaviour of the pipe is one of the channel: bytes come out once and
\* in order, 0 means that all was read and nobody can write, -1 that nobody
\* can read (fd_read, fd_write, fd_close).
ImplementsChannel == C!Spec

\* How far p->count lags behind what was written and read: by the calls that
\* have moved a byte and not yet stored the new count.
Lag == Cardinality({t \in Tasks : pc[t] = "winc"})
         - Cardinality({t \in Tasks : pc[t] = "rdec"})

\* fd.h:34, "bytes in buffer": the counter agrees with the bytes that were
\* written and not yet read, which the two positions enclose.
CountIsBytesInBuffer ==
  /\ TypeOK
  /\ count + Lag = sent - Len(out)
  /\ count + Lag \in 0 .. Size
  /\ write_pos = (read_pos + count + Lag) % Size

\* A reader gets its answer or a byte when all writers are gone, and a writer
\* finishes when all readers are: nobody polls for ever at a dead pipe.
CallsReturn ==
  \A t \in Tasks :
    /\ wr = {} /\ pc[t] \in {"rtest", "reof"} ~> pc[t] = "user"
    /\ rd = {} /\ pc[t] \in {"wtest", "wfull"} ~> pc[t] = "user"

\* A task that waits for bytes does not stay while there are some: the byte
\* is read, by it or by another reader.
BytesAreRead ==
  \A t \in Tasks, n \in 1 .. MaxBytes :
    sent >= n /\ Len(out) < n /\ pc[t] = "rtest" ~> Len(out) >= n \/ pc[t] = "user"

\* No call of a pipe waits for what has come, or for what cannot come any more.
NobodyIsStuck == CallsReturn /\ BytesAreRead

=============================================================================
