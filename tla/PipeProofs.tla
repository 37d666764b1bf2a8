----------------------------- MODULE PipeProofs -----------------------------
(***************************************************************************)
(* Proofs about module Pipe, for every size of the buffer, every number of *)
(* readers and writers and every pattern of calls: in the build whose      *)
(* calls are not interrupted, the pipe implements the channel.             *)
(***************************************************************************)
EXTENDS Pipe, FiniteSetTheorems, TLAPS

\* A position of a ring wraps with %: by at most one round, here a case.
LEMMA Wrap ==
  ASSUME NEW n \in Nat \ {0}, NEW a \in 0 .. n - 1, NEW k \in 0 .. n
  PROVE  (a + k) % n = IF a + k < n THEN a + k ELSE a + k - n
<1>1. CASE a + k < n
  BY <1>1
<1>2. CASE a + k >= n
  BY <1>2
<1>3. QED
  BY <1>1, <1>2

\* How many bytes are in the buffer, and where the k-th of them is.
InBuffer == sent - Len(out)
Place(k) == IF read_pos + k < Size THEN read_pos + k ELSE read_pos + k - Size

\* Between these places a call does not give up the CPU.
Alone == \A t \in Tasks : pc[t] \in {"reof", "rcopy", "rdec", "wfull", "winc"} => cpu = t

\* Who is in a call has a descriptor of the pipe.
CallersHaveAnEnd == \A t \in Tasks : pc[t] # "user" => t \in rd \cup wr

\* The counter is right, but for a byte whose count is about to be stored.
CounterFollows ==
  /\ (\A t \in Tasks : pc[t] \notin {"rdec", "winc"}) => count = InBuffer
  /\ \A t \in Tasks : pc[t] = "rdec" => reg[t] = count /\ count - 1 = InBuffer
  /\ \A t \in Tasks : pc[t] = "winc" => reg[t] = count /\ count + 1 = InBuffer

\* fd_read tests write_open with an empty buffer.
EmptyAtEof == \A t \in Tasks : pc[t] = "reof" => InBuffer = 0

InRange == InBuffer \in 0 .. Size

\* The two positions enclose the bytes that were written and not yet read,
\* in order.
Positions == write_pos = Place(InBuffer)
Contents == \A k \in 0 .. InBuffer - 1 : buf[Place(k)] = Len(out) + k + 1

ControlInv == TypeOK /\ soft = {} /\ Alone /\ CallersHaveAnEnd
RingInv == CounterFollows /\ EmptyAtEof /\ InRange /\ Positions /\ Contents
PipeInv == ControlInv /\ RingInv

-----------------------------------------------------------------------------
\* The empty buffer of Init.
LEMMA InitHolds == Init => PipeInv
<1> SUFFICES ASSUME Init PROVE PipeInv
  OBVIOUS
<1>1. ControlInv
  BY SizeAssumption DEF Init, ControlInv, TypeOK, Places, Alone, CallersHaveAnEnd, Tasks
<1>2. InBuffer = 0 /\ Place(0) = 0
  <2>1. Len(out) = 0 /\ sent = 0 /\ read_pos = 0
    BY DEF Init
  <2>2. QED
    BY <2>1, SizeAssumption DEF InBuffer, Place
<1>3. CounterFollows /\ EmptyAtEof
  BY <1>2 DEF Init, CounterFollows, EmptyAtEof
<1>4. InRange /\ Positions /\ Contents
  BY <1>2, SizeAssumption DEF Init, InRange, Positions, Contents
<1>5. QED
  BY <1>1, <1>3, <1>4 DEF PipeInv, RingInv

\* Who executes has the CPU or takes it: no other call is half way.
LEMMA OthersWait ==
  ASSUME ControlInv, NEW t \in Tasks, NEW p, At(t, p)
  PROVE  \A u \in Tasks \ {t} : pc[u] \notin {"reof", "rcopy", "rdec", "wfull", "winc"}
<1>1. cpu \in {t, NoTask}
  BY DEF ControlInv, At
<1>2. QED
  BY <1>1, TaskAssumption DEF ControlInv, Alone

\* A step that leaves the ring alone, comes from no place at which a count
\* is about to be stored and goes to none, keeps the ring in order.
LEMMA RingKept ==
  ASSUME PipeInv, NEW t \in Tasks, NEW q,
         UNCHANGED <<ring, reg, sent, out>>,
         pc' = [pc EXCEPT ![t] = q],
         pc[t] \notin {"rdec", "winc"}, q \notin {"rdec", "winc"},
         q = "reof" => InBuffer = 0
  PROVE  RingInv'
<1>1. /\ pc \in [Tasks -> Places]
      /\ \A u \in Tasks : pc'[u] = IF u = t THEN q ELSE pc[u]
  BY DEF PipeInv, ControlInv, TypeOK
<1>2. InBuffer' = InBuffer /\ \A k : Place(k)' = Place(k)
  BY DEF InBuffer, Place, ring
<1>3. CounterFollows'
  BY <1>1, <1>2 DEF PipeInv, RingInv, CounterFollows, ring
<1>4. EmptyAtEof'
  BY <1>1, <1>2 DEF PipeInv, RingInv, EmptyAtEof
<1>5. InRange' /\ Positions' /\ Contents'
  BY <1>2 DEF PipeInv, RingInv, InRange, Positions, Contents, ring
<1>6. QED
  BY <1>3, <1>4, <1>5 DEF RingInv

-----------------------------------------------------------------------------
\* How Goto, Enter, Return and YieldTo move a task.
Moves(t, q) ==
  /\ pc' = [pc EXCEPT ![t] = q]
  /\ soft' = {}
  /\ \/ cpu' = t
     \/ cpu' = NoTask /\ q \in {"user", "rtest", "wtest"}

LEMMA MoveCases ==
  ASSUME ~Preemptible, ControlInv, NEW t \in Tasks, NEW q
  PROVE  /\ Goto(t, q) => Moves(t, q)
         /\ Enter(t, q) => Moves(t, q)
         /\ Return(t) => Moves(t, "user")
         /\ YieldTo(t, q) /\ q \in {"rtest", "wtest"} => Moves(t, q)
<1>1. soft = {} /\ soft \ {t} = {}
  BY DEF ControlInv
<1>2. QED
  BY <1>1 DEF Goto, Enter, Return, YieldTo, Moves

\* A step of one task that moves to a place of a call.
LEMMA ControlKept ==
  ASSUME ControlInv, NEW t \in Tasks, NEW p, At(t, p), NEW q \in Places, Moves(t, q),
         UNCHANGED ends, q = "user" \/ t \in rd \cup wr
  PROVE  /\ pc' \in [Tasks -> Places] /\ cpu' \in Tasks \cup {NoTask} /\ soft' = {}
         /\ rd' \subseteq Readers /\ wr' \subseteq Writers
         /\ Alone' /\ CallersHaveAnEnd'
<1>1. /\ pc \in [Tasks -> Places] /\ rd \subseteq Readers /\ wr \subseteq Writers
      /\ pc' = [pc EXCEPT ![t] = q] /\ rd' = rd /\ wr' = wr
  BY DEF ControlInv, TypeOK, Moves, ends
<1>2. \A u \in Tasks : pc'[u] = IF u = t THEN q ELSE pc[u]
  BY <1>1
<1>3. Alone'
  BY <1>2, OthersWait DEF Alone, Moves
<1>4. CallersHaveAnEnd'
  BY <1>1, <1>2 DEF ControlInv, CallersHaveAnEnd
<1>5. QED
  BY <1>1, <1>3, <1>4 DEF Moves

-----------------------------------------------------------------------------
\* The steps that leave the ring alone: tests, returns and the starts of calls.
QuietStep(t, q) ==
  /\ pc[t] \notin {"rdec", "winc"} /\ q \in Places \ {"rdec", "winc"}
  /\ q = "reof" => InBuffer = 0
  /\ q = "user" \/ t \in rd \cup wr
  /\ Moves(t, q)
  /\ left' \in [Tasks -> Nat] /\ answer' \in [Tasks -> {"none", "end", "broken"}]
  /\ UNCHANGED <<ring, ends, reg, sent, out>>

LEMMA QuietKept ==
  ASSUME PipeInv, NEW t \in Tasks, NEW q, At(t, pc[t]), QuietStep(t, q)
  PROVE  PipeInv'
<1>1. RingInv'
  BY RingKept DEF QuietStep, Moves
<1>2. ControlInv'
  <2>1. /\ pc' \in [Tasks -> Places] /\ cpu' \in Tasks \cup {NoTask} /\ soft' = {}
        /\ rd' \subseteq Readers /\ wr' \subseteq Writers
        /\ Alone' /\ CallersHaveAnEnd'
    BY ControlKept DEF PipeInv, QuietStep
  <2>2. TypeOK'
    BY <2>1 DEF PipeInv, ControlInv, TypeOK, QuietStep, ring
  <2>3. QED
    BY <2>1, <2>2 DEF ControlInv
<1>3. QED
  BY <1>1, <1>2 DEF PipeInv

\* At the test of fd_read, the counter is the number of bytes.
LEMMA CountWhenStill ==
  ASSUME PipeInv, NEW t \in Tasks, NEW p, At(t, p), p \notin {"rdec", "winc"}
  PROVE  count = InBuffer
<1>1. \A u \in Tasks : pc[u] \notin {"rdec", "winc"}
  BY OthersWait DEF PipeInv, At
<1>2. QED
  BY <1>1 DEF PipeInv, RingInv, CounterFollows

LEMMA QuietSteps ==
  ASSUME ~Preemptible, PipeInv, NEW t \in Tasks,
         \/ RTest(t) \/ REof(t) \/ RReturn(t) \/ WReturn(t) \/ WFull(t) \/ WBroken(t)
         \/ \E n \in Counts : StartRead(t, n) \/ StartWrite(t, n)
  PROVE  PipeInv'
<1> DEFINE Verdicts == {"none", "end", "broken"}
<1>1. /\ ControlInv /\ soft = {}
      /\ pc \in [Tasks -> Places] /\ left \in [Tasks -> Nat] /\ Counts \subseteq Nat
      /\ answer \in [Tasks -> Verdicts]
      /\ pc[t] # "user" => t \in rd \cup wr
  BY CountsAssumption DEF PipeInv, ControlInv, TypeOK, CallersHaveAnEnd
<1>2. \A a \in Verdicts : [answer EXCEPT ![t] = a] \in [Tasks -> Verdicts]
  BY <1>1
<1>3. SUFFICES \E q : QuietStep(t, q) /\ At(t, pc[t])
  BY QuietKept
<1>4. ASSUME NEW n \in Counts, StartRead(t, n)
      PROVE  \E q : QuietStep(t, q) /\ At(t, pc[t])
  <2>1. QuietStep(t, "rtest")
    BY <1>1, <1>2, <1>4, MoveCases DEF StartRead, At, QuietStep, Places
  <2>2. QED
    BY <2>1, <1>4 DEF StartRead, At
<1>5. CASE RTest(t)
  <2>1. count = InBuffer
    BY <1>5, CountWhenStill DEF RTest
  <2>2. QuietStep(t, IF count = 0 THEN "reof" ELSE "rcopy")
    BY <1>1, <1>5, <2>1, MoveCases DEF RTest, At, QuietStep, Places, history
  <2>3. QED
    BY <2>2, <1>5 DEF RTest, At
<1>6. CASE REof(t)
  <2>1. QuietStep(t, IF wr = {} THEN "user" ELSE "rtest")
    BY <1>1, <1>2, <1>6, MoveCases DEF REof, At, QuietStep, Places
  <2>2. QED
    BY <2>1, <1>6 DEF REof, At
<1>7. CASE RReturn(t)
  <2>1. QuietStep(t, "user")
    BY <1>1, <1>7, MoveCases DEF RReturn, At, QuietStep, Places, history
  <2>2. QED
    BY <2>1, <1>7 DEF RReturn, At
<1>8. ASSUME NEW n \in Counts, StartWrite(t, n)
      PROVE  \E q : QuietStep(t, q) /\ At(t, pc[t])
  <2>1. CASE rd = {}
    <3>1. pc' = [pc EXCEPT ![t] = "user"] /\ cpu' \in {t, NoTask}
      BY <1>1, <1>8, <2>1 DEF StartWrite, At
    <3>2. QuietStep(t, "user")
      BY <1>1, <1>2, <1>8, <2>1, <3>1 DEF StartWrite, At, QuietStep, Moves, Places
    <3>3. QED
      BY <3>2, <1>8 DEF StartWrite, At
  <2>2. CASE rd # {}
    <3>1. QuietStep(t, "wtest")
      BY <1>1, <1>2, <1>8, <2>2, MoveCases DEF StartWrite, At, QuietStep, Places
    <3>2. QED
      BY <3>1, <1>8 DEF StartWrite, At
  <2>3. QED
    BY <2>1, <2>2
<1>9. CASE WReturn(t)
  <2>1. QuietStep(t, "user")
    BY <1>1, <1>9, MoveCases DEF WReturn, At, QuietStep, Places, history
  <2>2. QED
    BY <2>1, <1>9 DEF WReturn, At
<1>10. CASE WFull(t)
  <2>1. QuietStep(t, "wfull")
    BY <1>1, <1>10, MoveCases DEF WFull, At, QuietStep, Places, history
  <2>2. QED
    BY <2>1, <1>10 DEF WFull, At
<1>11. CASE WBroken(t)
  <2>1. QuietStep(t, IF rd = {} THEN "user" ELSE "wtest")
    BY <1>1, <1>2, <1>11, MoveCases DEF WBroken, At, QuietStep, Places
  <2>2. QED
    BY <2>1, <1>11 DEF WBroken, At
<1>12. QED
  BY <1>4, <1>5, <1>6, <1>7, <1>8, <1>9, <1>10, <1>11

\* fd_close comes between calls, and touches the open flags alone.
LEMMA CloseKept ==
  ASSUME PipeInv, NEW t \in Tasks, CloseEnd(t)
  PROVE  PipeInv'
<1>1. pc[t] = "user" /\ UNCHANGED <<buf, read_pos, write_pos, count, pc, cpu, soft,
                                    left, reg, sent, out, answer>>
  BY DEF CloseEnd, At, ring, history
<1>2. /\ rd' \subseteq Readers /\ wr' \subseteq Writers
      /\ rd \ {t} \subseteq rd' /\ wr \ {t} \subseteq wr'
  BY DEF CloseEnd, PipeInv, ControlInv, TypeOK
<1>3. ControlInv'
  <2>1. TypeOK' /\ soft' = {} /\ Alone'
    BY <1>1, <1>2 DEF PipeInv, ControlInv, TypeOK, Alone
  <2>2. CallersHaveAnEnd'
    BY <1>1, <1>2 DEF PipeInv, ControlInv, CallersHaveAnEnd
  <2>3. QED
    BY <2>1, <2>2 DEF ControlInv
<1>4. InBuffer' = InBuffer /\ \A k : Place(k)' = Place(k)
  BY <1>1 DEF InBuffer, Place
<1>5. RingInv'
  BY <1>1, <1>4 DEF PipeInv, RingInv, CounterFollows, EmptyAtEof, InRange, Positions, Contents
<1>6. QED
  BY <1>3, <1>5 DEF PipeInv

-----------------------------------------------------------------------------
\* Places of the buffer: different ones for different bytes, one after another.
LEMMA PlaceFacts ==
  ASSUME ControlInv
  PROVE  /\ \A k \in 0 .. Size : Place(k) \in 0 .. Size - 1
         /\ \A j, k \in 0 .. Size - 1 : Place(j) = Place(k) => j = k
         /\ \A k \in 0 .. Size - 1 : (Place(k) + 1) % Size = Place(k + 1)
         /\ (read_pos + 1) % Size = Place(1) /\ Place(0) = read_pos
         /\ \A k \in 0 .. Size : (read_pos + k) % Size = Place(k)
<1>1. Size \in Nat \ {0} /\ read_pos \in 0 .. Size - 1
  BY SizeAssumption DEF ControlInv, TypeOK
<1>2. \A k \in 0 .. Size : Place(k) \in 0 .. Size - 1
  BY <1>1 DEF Place
<1>3. \A j, k \in 0 .. Size - 1 : Place(j) = Place(k) => j = k
  BY <1>1 DEF Place
<1>4. \A k \in 0 .. Size - 1 : (Place(k) + 1) % Size = Place(k + 1)
  <2> SUFFICES ASSUME NEW k \in 0 .. Size - 1
               PROVE  (Place(k) + 1) % Size = Place(k + 1)
    OBVIOUS
  <2>1. (Place(k) + 1) % Size = IF Place(k) + 1 < Size THEN Place(k) + 1
                                                       ELSE Place(k) + 1 - Size
    <3>1. Place(k) \in 0 .. Size - 1 /\ 1 \in 0 .. Size
      BY <1>1, <1>2
    <3>2. QED
      BY <1>1, <3>1, Wrap
  <2>2. QED
    BY <1>1, <2>1 DEF Place
<1>5. \A k \in 0 .. Size : (read_pos + k) % Size = Place(k)
  BY <1>1, Wrap DEF Place
<1>6. (read_pos + 1) % Size = Place(1) /\ Place(0) = read_pos
  BY <1>1, <1>5 DEF Place
<1>7. QED
  BY <1>2, <1>3, <1>4, <1>5, <1>6

\* What the bytes between the positions say of a single one.
LEMMA InvFacts ==
  ASSUME PipeInv
  PROVE  /\ ControlInv /\ soft = {} /\ Size \in Nat \ {0}
         /\ buf \in [0 .. Size - 1 -> Nat]
         /\ read_pos \in 0 .. Size - 1 /\ write_pos \in 0 .. Size - 1
         /\ count \in Int /\ sent \in Nat /\ out \in Seq(Nat) /\ Len(out) \in Nat
         /\ pc \in [Tasks -> Places] /\ left \in [Tasks -> Nat]
         /\ reg \in [Tasks -> Int]
         /\ \A t \in Tasks : pc[t] # "user" => t \in rd \cup wr
         /\ InBuffer \in 0 .. Size /\ write_pos = Place(InBuffer)
         /\ \A k \in 0 .. InBuffer - 1 : buf[Place(k)] = Len(out) + k + 1
  BY SizeAssumption, SMTT(30) DEF PipeInv, RingInv, ControlInv, TypeOK, CallersHaveAnEnd,
       InRange, Positions, Contents

\* A step of task t to q, when no other call is half way.
LEMMA MovedAlone ==
  ASSUME PipeInv, NEW t \in Tasks, NEW p, At(t, p), NEW q, Moves(t, q)
  PROVE  \A u \in Tasks : /\ u = t => pc'[u] = q
                          /\ u # t => pc'[u] \notin {"reof", "rcopy", "rdec", "wfull", "winc"}
<1>1. pc \in [Tasks -> Places] /\ pc' = [pc EXCEPT ![t] = q]
  BY InvFacts DEF Moves
<1>2. QED
  BY <1>1, OthersWait DEF PipeInv

LEMMA RTakeKept ==
  ASSUME ~Preemptible, PipeInv, NEW t \in Tasks, RTake(t)
  PROVE  PipeInv' /\ out' = Append(out, Len(out) + 1) /\ Len(out) < sent
<1>1. At(t, "rcopy") /\ Moves(t, "rdec") /\ count = InBuffer /\ count > 0
  BY MoveCases, CountWhenStill, InvFacts DEF RTake
<1>2. /\ read_pos' = Place(1) /\ Place(0) = read_pos
      /\ UNCHANGED <<buf, write_pos, count, rd, wr, sent, answer>>
  BY PlaceFacts, InvFacts DEF RTake, ends
<1>3. out' = Append(out, Len(out) + 1)
  <2>1. buf[Place(0)] = Len(out) + 1
    BY <1>1, InvFacts
  <2>2. QED
    BY <1>2, <2>1 DEF RTake
<1>4. out' \in Seq(Nat) /\ Len(out') = Len(out) + 1
  BY <1>3, InvFacts
<1>5. InBuffer' = InBuffer - 1 /\ Len(out) < sent
  BY <1>1, <1>2, <1>4, InvFacts DEF InBuffer
<1>5a. /\ Size \in Nat \ {0} /\ read_pos \in 0 .. Size - 1
       /\ read_pos' = IF read_pos + 1 < Size THEN read_pos + 1 ELSE read_pos + 1 - Size
  BY <1>2, InvFacts DEF Place
<1>6. \A k \in 0 .. Size - 1 : Place(k)' = Place(k + 1)
  BY <1>5a DEF Place
<1>7. ControlInv'
  <2>1. /\ pc' \in [Tasks -> Places] /\ cpu' \in Tasks \cup {NoTask} /\ soft' = {}
        /\ rd' \subseteq Readers /\ wr' \subseteq Writers
        /\ Alone' /\ CallersHaveAnEnd'
    BY <1>1, <1>2, ControlKept, InvFacts DEF Places, At, ends
  <2>2. /\ read_pos' \in 0 .. Size - 1
        /\ left' \in [Tasks -> Nat] /\ reg' \in [Tasks -> Int]
    <3>1. Place(1) \in 0 .. Size - 1
      <4>1. 1 \in 0 .. Size
        BY InvFacts
      <4>2. QED
        BY <4>1, PlaceFacts, InvFacts
    <3>2. left[t] - 1 \in Nat
      BY InvFacts DEF RTake
    <3>3. /\ left \in [Tasks -> Nat] /\ left' = [left EXCEPT ![t] = @ - 1]
          /\ reg \in [Tasks -> Int] /\ reg' = [reg EXCEPT ![t] = count] /\ count \in Int
      BY InvFacts DEF RTake
    <3>4. QED
      BY <1>2, <3>1, <3>2, <3>3
  <2>3. QED
    BY <1>2, <1>4, <2>1, <2>2, InvFacts DEF ControlInv, TypeOK
<1>8. CounterFollows' /\ EmptyAtEof'
  <2>1. reg'[t] = count'
    BY <1>2, InvFacts DEF RTake
  <2>2. count' - 1 = InBuffer'
    BY <1>1, <1>2, <1>5
  <2>3. \A u \in Tasks : /\ u = t => pc'[u] = "rdec"
                         /\ u # t => pc'[u] \notin {"reof", "rcopy", "rdec", "wfull", "winc"}
    BY <1>1, MovedAlone
  <2>4. QED
    BY <2>1, <2>2, <2>3 DEF CounterFollows, EmptyAtEof
<1>9. InRange' /\ Positions'
  <2>1. InBuffer - 1 \in 0 .. Size - 1
    BY <1>1, InvFacts
  <2>2. Place(InBuffer)' = Place(InBuffer)
    <3>1. InBuffer \in 1 .. Size /\ InBuffer' = InBuffer - 1
      BY <1>5, <2>1, InvFacts
    <3>2. QED
      BY <1>5a, <3>1 DEF Place
  <2>3. QED
    <3>1. InBuffer' \in 0 .. Size /\ write_pos' = Place(InBuffer)
      BY <1>2, <1>5, <2>1, InvFacts
    <3>2. QED
      BY <2>2, <3>1 DEF InRange, Positions
<1>10. Contents'
  <2> SUFFICES ASSUME NEW k \in 0 .. InBuffer' - 1
               PROVE  buf'[Place(k)'] = Len(out') + k + 1
    BY DEF Contents
  <2>1. k \in 0 .. Size - 1 /\ k + 1 \in 0 .. InBuffer - 1
    BY <1>5, InvFacts
  <2>2. buf[Place(k + 1)] = Len(out) + (k + 1) + 1
    BY <2>1, InvFacts
  <2>3. Place(k)' = Place(k + 1) /\ buf' = buf
    BY <1>2, <1>6, <2>1
  <2>4. Len(out) + (k + 1) + 1 = Len(out') + k + 1
    BY <1>4, <2>1, InvFacts
  <2>5. QED
    BY <2>2, <2>3, <2>4
<1>11. QED
  BY <1>3, <1>5, <1>7, <1>8, <1>9, <1>10 DEF PipeInv, RingInv

LEMMA WPutKept ==
  ASSUME ~Preemptible, PipeInv, NEW t \in Tasks, WPut(t)
  PROVE  PipeInv' /\ sent' = sent + 1 /\ sent - Len(out) < Size
<1>1. /\ At(t, "wtest") /\ Moves(t, "winc") /\ count = InBuffer
      /\ InBuffer \in 0 .. Size - 1
  <2>1. At(t, "wtest") /\ Moves(t, "winc") /\ count = InBuffer /\ count # Size
    BY MoveCases, CountWhenStill, InvFacts DEF WPut
  <2>2. QED
    BY <2>1, InvFacts
<1>2. /\ write_pos = Place(InBuffer) /\ write_pos' = Place(InBuffer + 1)
      /\ UNCHANGED <<read_pos, count, rd, wr, out, answer>> /\ sent' = sent + 1
  BY <1>1, PlaceFacts, InvFacts DEF WPut, ends
<1>3. buf' = [buf EXCEPT ![write_pos] = sent + 1]
  BY DEF WPut
<1>4. InBuffer' = InBuffer + 1 /\ sent = Len(out) + InBuffer /\ sent - Len(out) < Size
  BY <1>1, <1>2, InvFacts, SMTT(30) DEF InBuffer
<1>5. \A k : Place(k)' = Place(k)
  BY <1>2 DEF Place
<1>6. ControlInv'
  <2>1. /\ pc' \in [Tasks -> Places] /\ cpu' \in Tasks \cup {NoTask} /\ soft' = {}
        /\ rd' \subseteq Readers /\ wr' \subseteq Writers
        /\ Alone' /\ CallersHaveAnEnd'
    BY <1>1, <1>2, ControlKept, InvFacts DEF Places, At, ends
  <2>2. write_pos' \in 0 .. Size - 1
    <3>1. InBuffer + 1 \in 0 .. Size
      BY <1>1, InvFacts
    <3>2. QED
      BY <1>2, <3>1, PlaceFacts, InvFacts
  <2>3. left' \in [Tasks -> Nat] /\ reg' \in [Tasks -> Int]
    <3>1. left[t] - 1 \in Nat
      BY InvFacts DEF WPut
    <3>2. /\ left \in [Tasks -> Nat] /\ left' = [left EXCEPT ![t] = @ - 1]
          /\ reg \in [Tasks -> Int] /\ reg' = [reg EXCEPT ![t] = count] /\ count \in Int
      BY InvFacts DEF WPut
    <3>3. QED
      BY <3>1, <3>2
  <2>4. buf' \in [0 .. Size - 1 -> Nat]
    BY <1>3, InvFacts
  <2>5. QED
    <3>1. sent' \in Nat
      BY <1>2, InvFacts
    <3>2. QED
      BY <1>2, <2>1, <2>2, <2>3, <2>4, <3>1 DEF PipeInv, ControlInv, TypeOK
<1>7. CounterFollows' /\ EmptyAtEof'
  <2>1. reg'[t] = count'
    BY <1>2, InvFacts DEF WPut
  <2>2. count' + 1 = InBuffer'
    BY <1>1, <1>2, <1>4
  <2>3. \A u \in Tasks : /\ u = t => pc'[u] = "winc"
                         /\ u # t => pc'[u] \notin {"reof", "rcopy", "rdec", "wfull", "winc"}
    BY <1>1, MovedAlone
  <2>4. QED
    BY <2>1, <2>2, <2>3 DEF CounterFollows, EmptyAtEof
<1>8. InRange' /\ Positions'
  <2>1. InBuffer' \in 0 .. Size
    BY <1>1, <1>4, InvFacts
  <2>2. Place(InBuffer)' = Place(InBuffer + 1)
    BY <1>2, <1>4 DEF Place
  <2>3. QED
    BY <1>2, <2>1, <2>2 DEF InRange, Positions
<1>9. Contents'
  <2> SUFFICES ASSUME NEW k \in 0 .. InBuffer' - 1
               PROVE  buf'[Place(k)] = Len(out) + k + 1
    BY <1>2, <1>5 DEF Contents
  <2>1. k \in 0 .. Size - 1 /\ (k = InBuffer \/ k \in 0 .. InBuffer - 1)
    BY <1>1, <1>4, InvFacts
  <2>2. Place(k) \in 0 .. Size - 1 /\ write_pos \in 0 .. Size - 1
    <3>1. k \in 0 .. Size
      BY <2>1, InvFacts
    <3>2. QED
      BY <3>1, PlaceFacts, InvFacts
  <2>3. CASE k = InBuffer
    BY <1>2, <1>3, <1>4, <2>2, <2>3, InvFacts
  <2>4. CASE k \in 0 .. InBuffer - 1
    <3>1. Place(k) # write_pos
      <4>1. k # InBuffer
        BY <1>1, <2>4
      <4>2. QED
        BY <1>1, <1>2, <2>1, <4>1, PlaceFacts, InvFacts
    <3>2. buf'[Place(k)] = buf[Place(k)]
      BY <1>3, <2>2, <3>1, InvFacts
    <3>3. QED
      BY <3>2, <2>4, InvFacts
  <2>5. QED
    BY <2>1, <2>3, <2>4
<1>10. QED
  BY <1>2, <1>4, <1>6, <1>7, <1>8, <1>9 DEF PipeInv, RingInv

\* count-- and count++ are stored before any other call goes on.
LEMMA StoreKept ==
  ASSUME ~Preemptible, PipeInv, NEW t \in Tasks, RStore(t) \/ WStore(t)
  PROVE  PipeInv'
<1>1. PICK q \in {"rcopy", "wtest"} :
        /\ At(t, pc[t]) /\ pc[t] \in {"rdec", "winc"} /\ Moves(t, q)
        /\ UNCHANGED <<buf, read_pos, write_pos, rd, wr, left, reg, sent, out, answer>>
  BY MoveCases, InvFacts DEF RStore, WStore, At, ends, history
<1>2. count' = InBuffer /\ InBuffer \in Nat
  BY InvFacts DEF RStore, WStore, At, PipeInv, RingInv, CounterFollows
<1>3. ControlInv'
  <2>1. /\ pc' \in [Tasks -> Places] /\ cpu' \in Tasks \cup {NoTask} /\ soft' = {}
        /\ rd' \subseteq Readers /\ wr' \subseteq Writers
        /\ Alone' /\ CallersHaveAnEnd'
    BY <1>1, ControlKept, InvFacts DEF Places, ends
  <2>2. QED
    BY <1>1, <1>2, <2>1, InvFacts DEF PipeInv, ControlInv, TypeOK
<1>4. InBuffer' = InBuffer /\ \A k : Place(k)' = Place(k)
  BY <1>1 DEF InBuffer, Place
<1>5. \A u \in Tasks : pc'[u] \notin {"reof", "rdec", "winc"}
  BY <1>1, MovedAlone
<1>6. CounterFollows' /\ EmptyAtEof'
  BY <1>2, <1>4, <1>5 DEF CounterFollows, EmptyAtEof
<1>7. InRange' /\ Positions' /\ Contents'
  BY <1>1, <1>4 DEF PipeInv, RingInv, InRange, Positions, Contents
<1>8. QED
  BY <1>3, <1>6, <1>7 DEF PipeInv, RingInv

-----------------------------------------------------------------------------
LEMMA StepHolds == ~Preemptible => (PipeInv /\ [Next]_vars => PipeInv')
<1> SUFFICES ASSUME ~Preemptible, PipeInv, [Next]_vars PROVE PipeInv'
  OBVIOUS
<1>1. CASE Next
  <2>1. PICK t \in Tasks :
          \/ InKernel(t)
          \/ \E n \in Counts : StartRead(t, n) \/ StartWrite(t, n)
          \/ CloseEnd(t)
    BY <1>1 DEF Next
  <2>2. CASE InKernel(t)
    <3>1. CASE RTake(t)
      BY <3>1, RTakeKept
    <3>2. CASE WPut(t)
      BY <3>2, WPutKept
    <3>3. CASE RStore(t) \/ WStore(t)
      BY <3>3, StoreKept
    <3>4. CASE \/ RTest(t) \/ REof(t) \/ RReturn(t)
               \/ WReturn(t) \/ WFull(t) \/ WBroken(t)
      BY <3>4, QuietSteps
    <3>5. QED
      BY <2>2, <3>1, <3>2, <3>3, <3>4 DEF InKernel
  <2>3. CASE \E n \in Counts : StartRead(t, n) \/ StartWrite(t, n)
    BY <2>3, QuietSteps
  <2>4. CASE CloseEnd(t)
    BY <2>4, CloseKept
  <2>5. QED
    BY <2>1, <2>2, <2>3, <2>4
<1>2. CASE UNCHANGED vars
  BY <1>2 DEF vars, PipeInv, ControlInv, RingInv, TypeOK, Alone, CallersHaveAnEnd,
       CounterFollows, EmptyAtEof, InRange, Positions, Contents, InBuffer, Place
<1>3. QED
  BY <1>1, <1>2

\* The strengthening is inductive, so that it always holds.
THEOREM PipeInvHolds == ASSUME ~Preemptible PROVE Spec => []PipeInv
<1>1. PipeInv /\ [Next]_vars => PipeInv'
  BY StepHolds
<1>2. QED
  BY InitHolds, <1>1, PTL DEF Spec

-----------------------------------------------------------------------------
\* The bytes that are counted ahead of p->count or behind it: one at most.
LEMMA LagIsOneByte ==
  ASSUME PipeInv
  PROVE  count + Lag = InBuffer /\ Lag \in {-1, 0, 1}
<1> DEFINE Inc == {t \in Tasks : pc[t] = "winc"}
           Dec == {t \in Tasks : pc[t] = "rdec"}
<1>1. \A t, u \in Inc \cup Dec : t = u
  BY DEF PipeInv, ControlInv, Alone
<1>2. Inc \cap Dec = {}
  OBVIOUS
<1>3. CASE Inc = {} /\ Dec = {}
  <2>1. count = InBuffer /\ Lag = 0
    BY <1>3, FS_EmptySet DEF PipeInv, RingInv, CounterFollows, Lag
  <2>2. QED
    BY <2>1, InvFacts
<1>4. ASSUME NEW t \in Inc PROVE count + Lag = InBuffer /\ Lag = 1
  <2>1. Inc = {t} /\ Dec = {}
    BY <1>1, <1>2, <1>4
  <2>2. Cardinality(Inc) = 1 /\ Cardinality(Dec) = 0
    BY <2>1, FS_EmptySet, FS_Singleton
  <2>3. Lag = 1 /\ count + 1 = InBuffer
    BY <1>4, <2>2 DEF PipeInv, RingInv, CounterFollows, Lag
  <2>4. QED
    BY <2>3
<1>5. ASSUME NEW t \in Dec PROVE count + Lag = InBuffer /\ Lag = -1
  <2>1. Dec = {t} /\ Inc = {}
    BY <1>1, <1>2, <1>5
  <2>2. Cardinality(Inc) = 0 /\ Cardinality(Dec) = 1
    BY <2>1, FS_EmptySet, FS_Singleton
  <2>3. Lag = -1 /\ count - 1 = InBuffer
    BY <1>5, <2>2 DEF PipeInv, RingInv, CounterFollows, Lag
  <2>4. QED
    BY <2>3, InvFacts
<1>6. QED
  BY <1>3, <1>4, <1>5

\* fd.h:34: the counter and the two positions agree with the bytes in the
\* buffer, at every point of fd_read and fd_write.
THEOREM CountIsRight == ASSUME ~Preemptible PROVE Spec => []CountIsBytesInBuffer
<1>1. PipeInv => CountIsBytesInBuffer
  <2> SUFFICES ASSUME PipeInv PROVE CountIsBytesInBuffer
    OBVIOUS
  <2>1. count + Lag = InBuffer /\ InBuffer \in 0 .. Size /\ TypeOK
    BY LagIsOneByte, InvFacts DEF ControlInv
  <2>2. write_pos = (read_pos + InBuffer) % Size
    BY <2>1, PlaceFacts, InvFacts
  <2>3. read_pos + count + Lag = read_pos + (count + Lag)
    <3>1. Lag \in Int
      BY LagIsOneByte
    <3>2. QED
      BY <3>1, InvFacts
  <2>4. QED
    BY <2>1, <2>2, <2>3 DEF CountIsBytesInBuffer, InBuffer
<1>2. QED
  BY PipeInvHolds, <1>1, PTL

-----------------------------------------------------------------------------
\* A call that returns 0 or -1 gives the channel's answer, another one starts
\* with none: neither touches the bytes.
LEMMA Answers ==
  ASSUME PipeInv, NEW t \in Tasks,
         \/ REof(t) \/ WBroken(t)
         \/ \E n \in Counts : StartRead(t, n) \/ StartWrite(t, n)
  PROVE  [C!Next]_(C!cvars)
<1>1. UNCHANGED <<sent, out, rd, wr>>
  BY DEF REof, WBroken, StartRead, StartWrite, ends
<1>2. t \in rd \cup wr
  BY InvFacts DEF REof, WBroken, StartRead, StartWrite, At
<1>3. \/ answer' = answer
      \/ answer' = [answer EXCEPT ![t] = "none"]
      \/ answer' = [answer EXCEPT ![t] = "end"] /\ wr = {} /\ pc[t] = "reof"
      \/ answer' = [answer EXCEPT ![t] = "broken"] /\ rd = {}
  BY DEF REof, WBroken, StartRead, StartWrite, At
<1>4. pc[t] = "reof" => Len(out) = sent
  BY InvFacts DEF PipeInv, RingInv, EmptyAtEof, InBuffer
<1>5. \/ answer' = answer
      \/ \E a \in {"none", "end", "broken"} : C!Answer(t, a)
  BY <1>1, <1>2, <1>3, <1>4 DEF C!Answer
<1>6. QED
  BY <1>1, <1>5 DEF C!Next, C!cvars, Tasks

\* Every other step of a call is one of the channel, or none of its concern.
LEMMA KernelStep ==
  ASSUME ~Preemptible, PipeInv, NEW t \in Tasks, InKernel(t)
  PROVE  [C!Next]_(C!cvars)
<1>1. CASE RTake(t)
  <2>1. C!Get
    BY <1>1, RTakeKept DEF RTake, ends, C!Get
  <2>2. QED
    BY <2>1 DEF C!Next
<1>2. CASE WPut(t)
  <2>1. C!Put
    BY <1>2, WPutKept DEF WPut, ends, C!Put
  <2>2. QED
    BY <2>1 DEF C!Next
<1>3. CASE REof(t) \/ WBroken(t)
  BY <1>3, Answers
<1>4. CASE RTest(t) \/ RStore(t) \/ RReturn(t) \/ WReturn(t) \/ WFull(t) \/ WStore(t)
  BY <1>4 DEF RTest, RStore, RReturn, WReturn, WFull, WStore, ends, history, C!cvars
<1>5. QED
  BY <1>1, <1>2, <1>3, <1>4 DEF InKernel

\* What fd_read, fd_write and fd_close do is what a channel does: bytes come
\* out once and in order, a read returns 0 only when everything was read and
\* nobody can write, a write returns -1 only when nobody can read.
THEOREM PipeIsAChannel == ASSUME ~Preemptible PROVE Spec => ImplementsChannel
<1>1. Init => C!Init
  BY DEF Init, C!Init, Tasks
<1>2. PipeInv /\ [Next]_vars => [C!Next]_(C!cvars)
  <2> SUFFICES ASSUME PipeInv, [Next]_vars PROVE [C!Next]_(C!cvars)
    OBVIOUS
  <2>1. CASE UNCHANGED vars
    BY <2>1 DEF vars, C!cvars
  <2>2. ASSUME NEW t \in Tasks, InKernel(t) PROVE [C!Next]_(C!cvars)
    BY <2>2, KernelStep
  <2>3. ASSUME NEW t \in Tasks, CloseEnd(t) PROVE [C!Next]_(C!cvars)
    <3>1. C!Close(t)
      BY <2>3 DEF CloseEnd, history, C!Close
    <3>2. QED
      BY <3>1 DEF C!Next, Tasks
  <2>4. ASSUME NEW t \in Tasks, \E n \in Counts : StartRead(t, n) \/ StartWrite(t, n)
        PROVE  [C!Next]_(C!cvars)
    BY <2>4, Answers
  <2>5. QED
    BY <2>1, <2>2, <2>3, <2>4 DEF Next
<1>3. QED
  BY PipeInvHolds, <1>1, <1>2, PTL DEF Spec, ImplementsChannel, C!Spec

=============================================================================
