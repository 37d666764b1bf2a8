---------------------------- MODULE ShellProofs ----------------------------
(***************************************************************************)
(* Proofs of the invariants of Shell, for every number of tasks, of        *)
(* descriptors and of pipes, and for all lines.                            *)
(***************************************************************************)
EXTENDS Shell, SequenceTheorems, TLAPS

\* What descriptor fd refers to when the calls cs have been made, with the
\* descriptors f to begin with.
Becomes(f, cs, fd) ==
  LET on == {n \in DOMAIN cs : cs[n][3] = fd} IN
  IF on = {} THEN f[fd]
  ELSE LET c == cs[CHOOSE n \in on : TRUE] IN IF c[1] = "close" THEN NoFile ELSE f[c[2]]

\* The calls are on descriptors of their own, and none duplicates one that a
\* call before it has changed.
InOrder(cs) ==
  \A m, n \in DOMAIN cs :
    m < n => cs[m][3] # cs[n][3] /\ (cs[n][1] = "dup2" => cs[m][3] # cs[n][2])

Fd(t, fd) == Becomes(fds[t], calls[t], fd)

\* The children of the shell that it has forked and that have not ended.
Kids == {t \in Tasks : t # Sh /\ nseg(t) > 0}

Reads == {R(p) : p \in Pipes}
Writes == {W(p) : p \in Pipes}
MaybeFd == -1 .. MaxFd
Ls == [line : Lines \cup {<<>>}, i : Nat \ {0}, prev_read_fd : MaybeFd, rfd : MaybeFd,
       wfd : MaybeFd, pids : Seq(Int), k : Nat \ {0}]

TypesInv ==
  /\ pc \in [Tasks -> Labels]
  /\ fds \in [Tasks -> [Fds -> Ends]]
  /\ calls \in [Tasks -> Seq(Calls)]
  /\ locals \in [Tasks -> Ls]
  /\ bytes \in [Pipes -> 0 .. PipeSize]
  /\ left \in [Tasks -> 0 .. EchoBytes]
  /\ written \in [Tasks -> 0 .. EchoBytes] /\ counted \in [Tasks -> 0 .. EchoBytes]
  /\ parent_tid \in [Tasks -> -1 .. MaxTid]
  /\ born \in Tasks /\ pipe_failed \in BOOLEAN

\* Which tasks there are, and where they can be.
TaskInv(t) ==
  /\ pc[t] = "none" <=> t > born
  /\ t > born => locals[t] = NoLocals /\ left[t] = 0 /\ written[t] = 0 /\ counted[t] = 0
  /\ InOrder(calls[t])
  /\ calls[t] # <<>> => \/ t \in Kids /\ pc[t] = "run"
                        \/ t = Sh /\ pc[t] \in {"pipe", "fork", "wait"}
  /\ pc[t] = "finished" => fds[t] = [fd \in Fds |-> NoFile]
  /\ t \notin Kids /\ t # Sh => pc[t] \in {"none", "program", "exit", "finished"}
  /\ t \in Kids => pc[t] \in {"run", "write", "read", "wait", "blocked", "exit"}
  /\ pc[t] \in {"pipe", "fork"} => t = Sh
  /\ \A n \in DOMAIN locals[t].pids : locals[t].pids[n] \in {-1} \cup 2 .. born
  /\ pc[t] = "blocked" => /\ locals[t].k <= Len(locals[t].pids)
                          /\ locals[t].pids[locals[t].k] # -1

TasksInv ==
  /\ pc[Sh] \notin {"none", "program"}
  /\ \A t \in Tasks : TaskInv(t)

\* What a child works on.
KidInv(t) ==
  /\ locals[t].i \in 1 .. nseg(t) /\ nseg(t) > 1
  /\ Command(t) \in {"echo", "wc"} => Len(locals[t].pids) = locals[t].i - 1
  /\ pc[t] \in {"wait", "blocked"} => Command(t) \notin {"echo", "wc"}
  /\ pc[t] = "read" => Command(t) = "wc"
  /\ pc[t] \in {"run", "read"} => written[t] = 0
  /\ pc[t] = "run" => counted[t] = 0
  /\ written[t] + left[t] <= EchoBytes \/ pc[t] \in {"run", "read"}

KidsInv == \A t \in Kids : KidInv(t)

\* The variables of execute_line at its labels.
LineInv ==
  LET l == locals[Sh] IN
  /\ pc[Sh] \in {"pipe", "fork"} =>
       /\ l.i \in 1 .. nseg(Sh) /\ nseg(Sh) > 1 /\ Len(l.pids) = l.i - 1
       /\ l.prev_read_fd = -1 <=> l.i = 1
  /\ pc[Sh] = "pipe" => l.i < nseg(Sh) /\ l.rfd = -1 /\ l.wfd = -1
  /\ pc[Sh] = "fork" => (l.rfd = -1 <=> l.i = nseg(Sh)) /\ (l.wfd = -1 <=> l.i = nseg(Sh))
  /\ pc[Sh] \notin {"pipe", "fork"} => l.prev_read_fd = -1 /\ l.rfd = -1 /\ l.wfd = -1
  /\ {l.prev_read_fd, l.rfd, l.wfd} \cap 0 .. 2 = {}
  /\ l.prev_read_fd # -1 => l.prev_read_fd # l.rfd /\ l.prev_read_fd # l.wfd
  /\ l.rfd # -1 => l.rfd # l.wfd

\* What the shell holds, when the calls that it makes now are made.
ShellInv ==
  LET l == locals[Sh] IN
  pc[Sh] # "finished" =>
    /\ \A fd \in 0 .. 2 : Fd(Sh, fd) = Console
    /\ l.prev_read_fd # -1 => Fd(Sh, l.prev_read_fd) \in Reads
    /\ l.rfd # -1 => \E p \in Pipes : /\ Fd(Sh, l.rfd) = R(p) /\ Fd(Sh, l.wfd) = W(p)
                                      /\ bytes[p] = 0
                                      /\ \A t \in Kids : Fd(t, 1) # W(p)
    /\ ~pipe_failed => \A fd \in 3 .. MaxFd \ {l.prev_read_fd, l.rfd, l.wfd} :
                         Fd(Sh, fd) = NoFile

\* What a child holds, when the calls that it makes now are made.
KidHolds(t) ==
  /\ IF locals[t].i = 1 THEN Fd(t, 0) = Console ELSE Fd(t, 0) \in Reads
  /\ IF locals[t].i = nseg(t) THEN Fd(t, 1) = Console ELSE Fd(t, 1) \in Writes
  /\ Fd(t, 2) = Console
  /\ ~pipe_failed => \A fd \in 3 .. MaxFd : Fd(t, fd) = NoFile

HoldsInv == \A t \in Kids : KidHolds(t)

\* No two of them read from the same pipe, or write to the same.
ApartInv ==
  /\ \A s, t \in Kids : s # t =>
       /\ Fd(s, 0) = Fd(t, 0) => Fd(s, 0) = Console
       /\ Fd(s, 1) = Fd(t, 1) => Fd(s, 1) = Console
  /\ \A fd \in {locals[Sh].prev_read_fd, locals[Sh].rfd} \ {-1} :
       \A t \in Kids : Fd(t, 0) # Fd(Sh, fd)
  /\ locals[Sh].prev_read_fd # -1 /\ locals[Sh].rfd # -1 =>
       Fd(Sh, locals[Sh].prev_read_fd) # Fd(Sh, locals[Sh].rfd)

\* Pipe p is written by u, or by nobody when u could not be forked, and n
\* bytes were read from it.
Fed(u, p, n) ==
  /\ IF u = -1 THEN bytes[p] = 0 /\ n = 0 ELSE bytes[p] + n = written[u]
  /\ \A v \in Kids : Fd(v, 1) = W(p) => v = u
  /\ u # -1 /\ pc[u] # "finished" => u \in Kids /\ Fd(u, 1) = W(p)

\* What t has read, as wc, is what the command before it has written and is
\* not in the pipe between them.
Counts(t) ==
  /\ locals[t].i = 1 => pc[t] \in {"run", "read"} /\ counted[t] = 0
  /\ \A p \in Pipes : Fd(t, 0) = R(p) => Fed(Upstream(t), p, counted[t])
  /\ pc[t] \in {"write", "exit"} =>
       IF Upstream(t) = -1 THEN counted[t] = 0
       ELSE pc[Upstream(t)] = "finished" /\ counted[t] = written[Upstream(t)]

\* And nothing was read from the pipe whose next reader is not forked yet.
Unread ==
  locals[Sh].prev_read_fd # -1 =>
    \A p \in Pipes : Fd(Sh, locals[Sh].prev_read_fd) = R(p) =>
      Fed(locals[Sh].pids[locals[Sh].i - 1], p, 0)

FlowInv ==
  /\ \A t \in Kids : Command(t) = "wc" => Counts(t)
  /\ Unread

PipelineInv ==
  TypesInv /\ TasksInv /\ KidsInv /\ LineInv /\ ShellInv /\ HoldsInv /\ ApartInv /\ FlowInv

-----------------------------------------------------------------------------
(* Ends of pipes, and calls.                                               *)

\* The ends of pipes differ from each other and from everything else.
LEMMA EndFacts ==
  /\ \A p, q : R(p) = R(q) => p = q
  /\ \A p, q : W(p) = W(q) => p = q
  /\ \A p, q : R(p) # W(q) /\ R(p) # Console /\ R(p) # NoFile
               /\ W(p) # Console /\ W(p) # NoFile
  /\ Console # NoFile
  /\ NoFile \in Ends /\ Console \in Ends
  /\ \A p \in Pipes : R(p) \in Ends /\ W(p) \in Ends
BY DEF R, W, Console, NoFile, Ends

\* With no calls to make, nothing changes.
LEMMA NoCalls ==
  ASSUME NEW f, NEW fd
  PROVE  Becomes(f, <<>>, fd) = f[fd]
<1>1. DOMAIN <<>> = {}
  OBVIOUS
<1>2. QED
  BY <1>1, Zenon DEF Becomes

\* A call that is the only one on its descriptor decides what it becomes.
LEMMA TheCall ==
  ASSUME NEW f, NEW cs, InOrder(cs), NEW n \in DOMAIN cs, DOMAIN cs \subseteq Int
  PROVE  Becomes(f, cs, cs[n][3]) = IF cs[n][1] = "close" THEN NoFile ELSE f[cs[n][2]]
<1> DEFINE on == {m \in DOMAIN cs : cs[m][3] = cs[n][3]}
<1>1. on = {n}
  BY DEF InOrder
<1>2. on # {} /\ (CHOOSE m \in on : TRUE) = n
  BY <1>1
<1>3. QED
  BY <1>2, Zenon DEF Becomes

\* A descriptor that no call is on stays what it is.
LEMMA OtherCalls ==
  ASSUME NEW f, NEW cs, NEW fd, \A n \in DOMAIN cs : cs[n][3] # fd
  PROVE  Becomes(f, cs, fd) = f[fd]
<1>1. {n \in DOMAIN cs : cs[n][3] = fd} = {}
  OBVIOUS
<1>2. QED
  BY <1>1, Zenon DEF Becomes

\* What a descriptor becomes is among what is open.
LEMMA BecomesHeld ==
  ASSUME NEW f \in [Fds -> Ends], NEW cs \in Seq(Calls), InOrder(cs), NEW fd \in Fds
  PROVE  Becomes(f, cs, fd) = NoFile \/ \E x \in Fds : Becomes(f, cs, fd) = f[x]
<1>1. CASE \A n \in DOMAIN cs : cs[n][3] # fd
  BY <1>1, OtherCalls
<1>2. ASSUME NEW n \in DOMAIN cs, cs[n][3] = fd
      PROVE  Becomes(f, cs, fd) = NoFile \/ \E x \in Fds : Becomes(f, cs, fd) = f[x]
  <2>1. Becomes(f, cs, cs[n][3]) = IF cs[n][1] = "close" THEN NoFile ELSE f[cs[n][2]]
    BY TheCall
  <2>2. cs[n][2] \in Fds
    <3>1. cs[n] \in Calls
      OBVIOUS
    <3>2. QED
      BY <3>1 DEF Calls, Close, Dup2
  <2>3. QED
    BY <1>2, <2>1, <2>2
<1>3. QED
  BY <1>1, <1>2

\* The first of the calls cs is made: f becomes g.
FirstCallMade(f, cs, g) ==
  g = [f EXCEPT ![cs[1][3]] = IF cs[1][1] = "close" THEN NoFile ELSE f[cs[1][2]]]

SameBecomes(f, cs, g) ==
  /\ g \in [Fds -> Ends] /\ Tail(cs) \in Seq(Calls) /\ InOrder(Tail(cs))
  /\ \A fd \in Fds : Becomes(g, Tail(cs), fd) = Becomes(f, cs, fd)

\* A call is made: what everything becomes stays the same.
LEMMA CallMade ==
  ASSUME NEW f \in [Fds -> Ends], NEW cs \in Seq(Calls), InOrder(cs), cs # <<>>,
         NEW g, FirstCallMade(f, cs, g)
  PROVE  SameBecomes(f, cs, g)
<1> PICK c, e, x :
      /\ c = cs[1] /\ x = c[3] /\ e = IF c[1] = "close" THEN NoFile ELSE f[c[2]]
      /\ g = [f EXCEPT ![x] = e]
  BY DEF FirstCallMade
<1>1. PICK r : r = Tail(cs)
  OBVIOUS
<1>2. /\ r \in Seq(Calls) /\ Len(cs) \in Nat /\ Len(cs) > 0 /\ Len(r) = Len(cs) - 1
      /\ DOMAIN r = 1 .. Len(r) /\ DOMAIN cs = 1 .. Len(cs)
      /\ \A n \in 1 .. Len(r) : r[n] = cs[n + 1]
  BY <1>1
<1>3. cs[1] \in Calls
  BY <1>2
<1>4. cs[1][3] \in Fds /\ cs[1][2] \in Fds /\ cs[1][3] = x
  BY <1>3, ShellAssumption DEF Calls, Close, Dup2, Fds
<1>5. g \in [Fds -> Ends]
  BY <1>4, EndFacts
<1>6. InOrder(r)
  <2>1. ASSUME NEW m \in DOMAIN r, NEW n \in DOMAIN r, m < n
        PROVE  r[m][3] # r[n][3] /\ (r[n][1] = "dup2" => r[m][3] # r[n][2])
    <3>1. /\ m + 1 \in DOMAIN cs /\ n + 1 \in DOMAIN cs /\ m + 1 < n + 1
          /\ r[m] = cs[m + 1] /\ r[n] = cs[n + 1]
      BY <1>2, <2>1
    <3>2. QED
      BY <3>1 DEF InOrder
  <2>2. QED
    BY <2>1 DEF InOrder
<1>7. ASSUME NEW fd \in Fds
      PROVE  Becomes(g, r, fd) = Becomes(f, cs, fd)
  <2>1. CASE fd = cs[1][3]
    <3>1. Becomes(f, cs, fd) = e
      <4>1. 1 \in DOMAIN cs /\ DOMAIN cs \subseteq Int
        BY <1>2
      <4>2. QED
        BY <2>1, <4>1, TheCall
    <3>2. \A n \in DOMAIN r : r[n][3] # fd
      <4>1. SUFFICES ASSUME NEW n \in DOMAIN r PROVE r[n][3] # fd
        OBVIOUS
      <4>2. 1 \in DOMAIN cs /\ n + 1 \in DOMAIN cs /\ 1 < n + 1 /\ r[n] = cs[n + 1]
        BY <1>2
      <4>3. QED
        BY <2>1, <4>2 DEF InOrder
    <3>3. Becomes(g, r, fd) = g[fd]
      BY <3>2, OtherCalls
    <3>4. g[fd] = e
      BY <1>4, <2>1
    <3>5. QED
      BY <3>1, <3>3, <3>4
  <2>2. CASE fd # cs[1][3] /\ \A n \in DOMAIN r : r[n][3] # fd
    <3>1. \A n \in DOMAIN cs : cs[n][3] # fd
      <4>1. SUFFICES ASSUME NEW n \in DOMAIN cs, n # 1 PROVE cs[n][3] # fd
        BY <2>2
      <4>2. n - 1 \in DOMAIN r /\ r[n - 1] = cs[n]
        BY <1>2, <4>1
      <4>3. QED
        BY <2>2, <4>2
    <3>2. Becomes(f, cs, fd) = f[fd]
      BY <3>1, OtherCalls, Zenon
    <3>3. Becomes(g, r, fd) = g[fd]
      BY <2>2, OtherCalls, Zenon
    <3>4. g[fd] = f[fd]
      BY <1>4, <2>2
    <3>5. QED
      BY <3>2, <3>3, <3>4
  <2>3. ASSUME NEW n \in DOMAIN r, r[n][3] = fd, fd # cs[1][3]
        PROVE  Becomes(g, r, fd) = Becomes(f, cs, fd)
    <3>1. 1 \in DOMAIN cs /\ n + 1 \in DOMAIN cs /\ 1 < n + 1 /\ r[n] = cs[n + 1]
      BY <1>2
    <3>2. Becomes(g, r, fd) = IF r[n][1] = "close" THEN NoFile ELSE g[r[n][2]]
      <4>1. DOMAIN r \subseteq Int
        BY <1>2
      <4>2. PICK h : h = g
        OBVIOUS
      <4>3. Becomes(h, r, r[n][3]) = IF r[n][1] = "close" THEN NoFile ELSE h[r[n][2]]
        <5>1. InOrder(r) /\ n \in DOMAIN r /\ DOMAIN r \subseteq Int
          BY <1>6, <2>3, <4>1
        <5>2. QED
          BY <5>1, TheCall
      <4>4. QED
        BY <2>3, <4>2, <4>3
    <3>3. Becomes(f, cs, fd) = IF r[n][1] = "close" THEN NoFile ELSE f[r[n][2]]
      <4>1. DOMAIN cs \subseteq Int
        BY <1>2
      <4>2. QED
        BY <2>3, <3>1, <4>1, TheCall
    <3>4. r[n] \in Calls
      BY <1>2
    <3>5. r[n][1] \in {"close", "dup2"} /\ r[n][2] \in Fds
      BY <3>4 DEF Calls, Close, Dup2
    <3>6. r[n][1] = "dup2" => g[r[n][2]] = f[r[n][2]]
      <4>1. r[n][1] = "dup2" => cs[1][3] # r[n][2]
        BY <3>1 DEF InOrder
      <4>2. QED
        BY <3>5, <4>1
    <3>7. QED
      BY <3>2, <3>3, <3>5, <3>6
  <2>4. QED
    BY <2>1, <2>2, <2>3
<1>8. QED
  BY <1>1, <1>2, <1>5, <1>6, <1>7 DEF SameBecomes

\* The calls one after the other.
LEMMA CallFacts ==
  ASSUME NEW p \in Fds, NEW s \in 0 .. 2
  PROVE  /\ Close(p) \in Calls /\ Close(p)[1] = "close" /\ Close(p)[3] = p
         /\ Dup2(p, s) \in Calls /\ Dup2(p, s)[1] = "dup2" /\ Dup2(p, s)[2] = p
         /\ Dup2(p, s)[3] = s
BY DEF Calls, Close, Dup2

\* Sequences of up to five calls.
LEMMA Five ==
  ASSUME NEW a \in Calls, NEW b \in Calls, NEW c \in Calls, NEW d \in Calls, NEW e \in Calls
  PROVE  /\ <<a>> \in Seq(Calls) /\ DOMAIN <<a>> = 1 .. 1 /\ <<a>>[1] = a
         /\ <<a, b>> \in Seq(Calls) /\ DOMAIN <<a, b>> = 1 .. 2
         /\ <<a, b>>[1] = a /\ <<a, b>>[2] = b
         /\ <<a, b, c>> \in Seq(Calls) /\ DOMAIN <<a, b, c>> = 1 .. 3
         /\ <<a, b, c>>[1] = a /\ <<a, b, c>>[2] = b /\ <<a, b, c>>[3] = c
         /\ <<a, b, c, d, e>> \in Seq(Calls) /\ DOMAIN <<a, b, c, d, e>> = 1 .. 5
         /\ <<a, b, c, d, e>>[1] = a /\ <<a, b, c, d, e>>[2] = b /\ <<a, b, c, d, e>>[3] = c
         /\ <<a, b, c, d, e>>[4] = d /\ <<a, b, c, d, e>>[5] = e
OBVIOUS

\* A sequence of calls followed by another.
LEMMA Followed ==
  ASSUME NEW u \in Seq(Calls), NEW v \in Seq(Calls), NEW w \in Seq(Calls),
         Len(w) = Len(u) + Len(v),
         \A i \in 1 .. Len(u) : w[i] = u[i],
         \A i \in 1 .. Len(v) : w[Len(u) + i] = v[i]
  PROVE  u \o v = w
<1>1. u \o v \in Seq(Calls) /\ Len(u \o v) = Len(u) + Len(v)
  BY ConcatProperties
<1>2. Len(u) \in Nat /\ Len(v) \in Nat
  OBVIOUS
<1>3. \A i \in 1 .. Len(u) + Len(v) : (u \o v)[i] = w[i]
  <2>1. SUFFICES ASSUME NEW i \in 1 .. Len(u) + Len(v) PROVE (u \o v)[i] = w[i]
    OBVIOUS
  <2>2. (u \o v)[i] = IF i <= Len(u) THEN u[i] ELSE v[i - Len(u)]
    BY ConcatProperties
  <2>3. CASE i <= Len(u)
    BY <1>2, <2>2, <2>3
  <2>4. CASE i > Len(u)
    <3>1. i - Len(u) \in 1 .. Len(v) /\ Len(u) + (i - Len(u)) = i
      BY <1>2, <2>4
    <3>2. w[i] = v[i - Len(u)]
      BY <3>1
    <3>3. ~(i <= Len(u))
      BY <1>2, <2>4
    <3>4. QED
      BY <2>2, <3>2, <3>3
  <2>5. QED
    BY <1>2, <2>3, <2>4
<1>4. QED
  BY <1>1, <1>3, SeqEqual

\* One call after two, and so on.
LEMMA Joined ==
  ASSUME NEW a \in Calls, NEW b \in Calls, NEW c \in Calls
  PROVE  /\ (<<a, b>> \o <<>>) \o <<>> = <<a, b>>
         /\ (<<>> \o <<a, b>>) \o <<c>> = <<a, b, c>>
         /\ (<<>> \o <<>>) \o <<>> = <<>>
         /\ <<a>> \o <<b>> = <<a, b>> /\ <<>> \o <<a>> = <<a>> /\ <<a>> \o <<>> = <<a>>
<1>1. <<a, b>> \o <<>> = <<a, b>> /\ <<>> \o <<a, b>> = <<a, b>>
  BY Five, ConcatEmptySeq
<1>2. <<a, b>> \o <<c>> = <<a, b, c>>
  <2>1. /\ Len(<<a, b>>) = 2 /\ Len(<<c>>) = 1 /\ Len(<<a, b, c>>) = 3
        /\ <<a, b>>[1] = a /\ <<a, b>>[2] = b /\ <<c>>[1] = c
        /\ <<a, b, c>>[1] = a /\ <<a, b, c>>[2] = b /\ <<a, b, c>>[3] = c
    OBVIOUS
  <2>2. PICK u, v, w : u = <<a, b>> /\ v = <<c>> /\ w = <<a, b, c>>
    OBVIOUS
  <2>3. u \in Seq(Calls) /\ v \in Seq(Calls) /\ w \in Seq(Calls)
    BY <2>2, Five
  <2>4. Len(u) = 2 /\ Len(v) = 1 /\ Len(w) = 3
    BY <2>1, <2>2
  <2>5. \A i \in 1 .. 2 : w[i] = u[i]
    <3>1. w[1] = u[1] /\ w[2] = u[2]
      BY <2>1, <2>2
    <3>2. 1 .. 2 = {1, 2}
      OBVIOUS
    <3>3. QED
      BY <3>1, <3>2
  <2>6. \A i \in 1 .. 1 : w[2 + i] = v[i]
    <3>1. w[3] = v[1]
      BY <2>1, <2>2
    <3>2. 1 .. 1 = {1} /\ 2 + 1 = 3
      OBVIOUS
    <3>3. QED
      BY <3>1, <3>2
  <2>7. /\ Len(w) = Len(u) + Len(v)
        /\ \A i \in 1 .. Len(u) : w[i] = u[i]
        /\ \A i \in 1 .. Len(v) : w[Len(u) + i] = v[i]
    BY <2>4, <2>5, <2>6
  <2>8. u \o v = w
    BY <2>3, <2>7, Followed
  <2>9. QED
    BY <2>2, <2>8
<1>3. <<a>> \o <<b>> = <<a, b>>
  <2>1. /\ Len(<<a>>) = 1 /\ Len(<<b>>) = 1 /\ Len(<<a, b>>) = 2
        /\ <<a, b>>[1] = a /\ <<a, b>>[2] = b /\ <<a>>[1] = a /\ <<b>>[1] = b
    OBVIOUS
  <2>2. PICK u, v, w : u = <<a>> /\ v = <<b>> /\ w = <<a, b>>
    OBVIOUS
  <2>3. u \in Seq(Calls) /\ v \in Seq(Calls) /\ w \in Seq(Calls)
    BY <2>2, Five
  <2>4. Len(u) = 1 /\ Len(v) = 1 /\ Len(w) = 2
    BY <2>1, <2>2
  <2>5. \A i \in 1 .. 1 : w[i] = u[i]
    <3>1. w[1] = u[1]
      BY <2>1, <2>2
    <3>2. 1 .. 1 = {1}
      OBVIOUS
    <3>3. QED
      BY <3>1, <3>2
  <2>6. \A i \in 1 .. 1 : w[1 + i] = v[i]
    <3>1. w[2] = v[1]
      BY <2>1, <2>2
    <3>2. 1 .. 1 = {1} /\ 1 + 1 = 2
      OBVIOUS
    <3>3. QED
      BY <3>1, <3>2
  <2>7. /\ Len(w) = Len(u) + Len(v)
        /\ \A i \in 1 .. Len(u) : w[i] = u[i]
        /\ \A i \in 1 .. Len(v) : w[Len(u) + i] = v[i]
    BY <2>4, <2>5, <2>6
  <2>8. u \o v = w
    BY <2>3, <2>7, Followed
  <2>9. QED
    BY <2>2, <2>8
<1>4. <<>> \o <<>> = <<>> /\ <<>> \o <<a>> = <<a>> /\ <<a>> \o <<>> = <<a>>
  BY Five, ConcatEmptySeq, EmptySeq
<1>5. QED
  BY <1>1, <1>2, <1>3, <1>4

\* The descriptors that execute_line keeps are its own, above the standard
\* ones, and there is something to connect.
Kept(l) ==
  /\ l \in Ls
  /\ {l.prev_read_fd, l.rfd, l.wfd} \cap 0 .. 2 = {}
  /\ l.prev_read_fd # -1 => l.prev_read_fd # l.rfd /\ l.prev_read_fd # l.wfd
  /\ l.rfd # -1 => l.rfd # l.wfd
  /\ l.rfd = -1 <=> l.wfd = -1
  /\ l.prev_read_fd = -1 => l.rfd # -1

\* Each of them is no descriptor, or one above the standard ones.
LEMMA KeptFacts ==
  ASSUME NEW l, Kept(l)
  PROVE  /\ l.prev_read_fd = -1 \/ l.prev_read_fd \in 3 .. MaxFd
         /\ l.rfd = -1 \/ l.rfd \in 3 .. MaxFd
         /\ l.wfd = -1 \/ l.wfd \in 3 .. MaxFd
<1>1. l.prev_read_fd \in -1 .. MaxFd /\ l.rfd \in -1 .. MaxFd /\ l.wfd \in -1 .. MaxFd
  BY DEF Kept, Ls, MaybeFd
<1>2. l.prev_read_fd \notin 0 .. 2 /\ l.rfd \notin 0 .. 2 /\ l.wfd \notin 0 .. 2
  BY DEF Kept
<1>3. MaxFd \in Nat
  BY ShellAssumption
<1>4. QED
  BY <1>1, <1>2, <1>3

\* What the descriptors of a child become: its input the read end before it,
\* its output the write end of its own pipe, and the ends that it was forked
\* with are closed.
ChildHas(f, l, cs) ==
  /\ cs \in Seq(Calls) /\ InOrder(cs) /\ cs # <<>>
  /\ Becomes(f, cs, 0) = f[IF l.prev_read_fd = -1 THEN 0 ELSE l.prev_read_fd]
  /\ Becomes(f, cs, 1) = f[IF l.wfd = -1 THEN 1 ELSE l.wfd]
  /\ Becomes(f, cs, 2) = f[2]
  /\ \A fd \in 3 .. MaxFd :
       Becomes(f, cs, fd) = IF fd \in {l.prev_read_fd, l.rfd, l.wfd} THEN NoFile ELSE f[fd]

\* One after the other, between the first and the last command.
LEMMA ChildInTheMiddle ==
  ASSUME NEW f, NEW l, Kept(l), l.prev_read_fd # -1, l.rfd # -1, NEW cs, cs = ChildCalls(l)
  PROVE  ChildHas(f, l, cs)
<1>1. PICK p, r, w : p = l.prev_read_fd /\ r = l.rfd /\ w = l.wfd
  OBVIOUS
<1>2. /\ {p, r, w} \subseteq 3 .. MaxFd /\ p # r /\ p # w /\ r # w
      /\ {p, r, w} \subseteq Fds /\ 0 \in 0 .. 2 /\ 1 \in 0 .. 2
  BY <1>1, KeptFacts, ShellAssumption DEF Kept, Fds
<1>3. PICK a, b, c, d, e : /\ a = Dup2(p, 0) /\ b = Close(p)
                           /\ c = Dup2(w, 1) /\ d = Close(w) /\ e = Close(r)
  OBVIOUS
<1>4. /\ a \in Calls /\ a[1] = "dup2" /\ a[2] = p /\ a[3] = 0
      /\ b \in Calls /\ b[1] = "close" /\ b[3] = p
      /\ c \in Calls /\ c[1] = "dup2" /\ c[2] = w /\ c[3] = 1
      /\ d \in Calls /\ d[1] = "close" /\ d[3] = w
      /\ e \in Calls /\ e[1] = "close" /\ e[3] = r
  BY <1>2, <1>3, CallFacts
<1>5. cs = <<a, b, c, d, e>>
  <2>1. cs = (<<a, b>> \o <<c, d>>) \o <<e>>
    <3>1. p # -1 /\ w # -1 /\ r # -1
      BY <1>2
    <3>2. QED
      BY <1>1, <1>3, <3>1 DEF ChildCalls, Connects, Closes, STDIN, STDOUT
  <2>2. a \in Calls /\ b \in Calls /\ c \in Calls /\ d \in Calls /\ e \in Calls
    BY <1>4
  <2>3. <<a, b>> \o <<c, d>> = <<a, b, c, d>> /\ <<a, b, c, d>> \in Seq(Calls)
    <3>1. /\ Len(<<a, b>>) = 2 /\ Len(<<c, d>>) = 2 /\ Len(<<a, b, c, d>>) = 4
          /\ <<a, b>>[1] = a /\ <<a, b>>[2] = b /\ <<c, d>>[1] = c /\ <<c, d>>[2] = d
          /\ <<a, b, c, d>>[1] = a /\ <<a, b, c, d>>[2] = b /\ <<a, b, c, d>>[3] = c
          /\ <<a, b, c, d>>[4] = d
      OBVIOUS
    <3>2. PICK x, y, z : x = <<a, b>> /\ y = <<c, d>> /\ z = <<a, b, c, d>>
      OBVIOUS
    <3>3. x \in Seq(Calls) /\ y \in Seq(Calls) /\ z \in Seq(Calls)
      BY <2>2, <3>2
    <3>4. Len(x) = 2 /\ Len(y) = 2 /\ Len(z) = 4
      BY <3>1, <3>2
    <3>5. \A i \in 1 .. 2 : z[i] = x[i]
      <4>1. z[1] = x[1] /\ z[2] = x[2]
        BY <3>1, <3>2
      <4>2. 1 .. 2 = {1, 2}
        OBVIOUS
      <4>3. QED
        BY <4>1, <4>2
    <3>6. \A i \in 1 .. 2 : z[2 + i] = y[i]
      <4>1. z[3] = y[1] /\ z[4] = y[2]
        BY <3>1, <3>2
      <4>2. 1 .. 2 = {1, 2} /\ 2 + 1 = 3 /\ 2 + 2 = 4
        OBVIOUS
      <4>3. QED
        BY <4>1, <4>2
    <3>7. /\ Len(z) = Len(x) + Len(y)
          /\ \A i \in 1 .. Len(x) : z[i] = x[i]
          /\ \A i \in 1 .. Len(y) : z[Len(x) + i] = y[i]
      BY <3>4, <3>5, <3>6
    <3>8. x \o y = z
      BY <3>3, <3>7, Followed
    <3>9. QED
      BY <3>2, <3>3, <3>8
  <2>4. <<a, b, c, d>> \o <<e>> = <<a, b, c, d, e>>
    <3>1. /\ Len(<<a, b, c, d>>) = 4 /\ Len(<<e>>) = 1 /\ Len(<<a, b, c, d, e>>) = 5
          /\ <<a, b, c, d>>[1] = a /\ <<a, b, c, d>>[2] = b /\ <<a, b, c, d>>[3] = c
          /\ <<a, b, c, d>>[4] = d /\ <<e>>[1] = e
      OBVIOUS
    <3>2. PICK x, y, z : x = <<a, b, c, d>> /\ y = <<e>> /\ z = <<a, b, c, d, e>>
      OBVIOUS
    <3>3. x \in Seq(Calls) /\ y \in Seq(Calls) /\ z \in Seq(Calls)
      BY <2>2, <3>2, Five
    <3>4. Len(x) = 4 /\ Len(y) = 1 /\ Len(z) = 5
      BY <3>1, <3>2
    <3>5. \A i \in 1 .. 4 : z[i] = x[i]
      <4>1. z[1] = x[1] /\ z[2] = x[2] /\ z[3] = x[3] /\ z[4] = x[4]
        BY <2>2, <3>1, <3>2, Five
      <4>2. 1 .. 4 = {1, 2, 3, 4}
        OBVIOUS
      <4>3. QED
        BY <4>1, <4>2
    <3>6. \A i \in 1 .. 1 : z[4 + i] = y[i]
      <4>1. z[5] = y[1]
        BY <2>2, <3>1, <3>2, Five
      <4>2. 1 .. 1 = {1} /\ 4 + 1 = 5
        OBVIOUS
      <4>3. QED
        BY <4>1, <4>2
    <3>7. /\ Len(z) = Len(x) + Len(y)
          /\ \A i \in 1 .. Len(x) : z[i] = x[i]
          /\ \A i \in 1 .. Len(y) : z[Len(x) + i] = y[i]
      BY <3>4, <3>5, <3>6
    <3>8. x \o y = z
      BY <3>3, <3>7, Followed
    <3>9. QED
      BY <3>2, <3>3, <3>8
  <2>5. QED
    BY <2>1, <2>3, <2>4
<1>6. /\ cs \in Seq(Calls) /\ DOMAIN cs = 1 .. 5
      /\ cs[1] = a /\ cs[2] = b /\ cs[3] = c /\ cs[4] = d /\ cs[5] = e
  BY <1>4, <1>5, Five
<1>7. cs # <<>>
  BY <1>5
<1>8. InOrder(cs)
  <2>1. ASSUME NEW m \in 1 .. 5, NEW n \in 1 .. 5, m < n
        PROVE  cs[m][3] # cs[n][3] /\ (cs[n][1] = "dup2" => cs[m][3] # cs[n][2])
    BY <1>2, <1>4, <1>6, <2>1
  <2>2. QED
    BY <1>6, <2>1 DEF InOrder
<1>9. 1 \in DOMAIN cs /\ 2 \in DOMAIN cs /\ 3 \in DOMAIN cs /\ 4 \in DOMAIN cs /\ 5 \in DOMAIN cs
      /\ DOMAIN cs \subseteq Int
  BY <1>6
<1>10. Becomes(f, cs, 0) = f[p]
  <2>1. Becomes(f, cs, cs[1][3]) = IF cs[1][1] = "close" THEN NoFile ELSE f[cs[1][2]]
    BY <1>8, <1>9, TheCall
  <2>2. QED
    BY <1>4, <1>6, <2>1
<1>11. Becomes(f, cs, 1) = f[w]
  <2>1. Becomes(f, cs, cs[3][3]) = IF cs[3][1] = "close" THEN NoFile ELSE f[cs[3][2]]
    BY <1>8, <1>9, TheCall
  <2>2. QED
    BY <1>4, <1>6, <2>1
<1>12. Becomes(f, cs, p) = NoFile
  <2>1. Becomes(f, cs, cs[2][3]) = IF cs[2][1] = "close" THEN NoFile ELSE f[cs[2][2]]
    BY <1>8, <1>9, TheCall
  <2>2. QED
    BY <1>4, <1>6, <2>1
<1>13. Becomes(f, cs, w) = NoFile
  <2>1. Becomes(f, cs, cs[4][3]) = IF cs[4][1] = "close" THEN NoFile ELSE f[cs[4][2]]
    BY <1>8, <1>9, TheCall
  <2>2. QED
    BY <1>4, <1>6, <2>1
<1>14. Becomes(f, cs, r) = NoFile
  <2>1. Becomes(f, cs, cs[5][3]) = IF cs[5][1] = "close" THEN NoFile ELSE f[cs[5][2]]
    BY <1>8, <1>9, TheCall
  <2>2. QED
    BY <1>4, <1>6, <2>1
<1>15. ASSUME NEW fd \in 2 .. MaxFd, fd \notin {p, r, w}
       PROVE  Becomes(f, cs, fd) = f[fd]
  <2>1. \A n \in DOMAIN cs : cs[n][3] # fd
    <3>1. ASSUME NEW n \in 1 .. 5 PROVE cs[n][3] \in {0, p, 1, w, r}
      BY <1>4, <1>6
    <3>2. fd \notin {0, p, 1, w, r}
      BY <1>15
    <3>3. QED
      BY <1>6, <3>1, <3>2
  <2>2. QED
    BY <2>1, OtherCalls
<1>16. Becomes(f, cs, 2) = f[2]
  <2>1. 2 \in 2 .. MaxFd /\ 2 \notin {p, r, w}
    BY <1>2, ShellAssumption
  <2>2. QED
    BY <1>15, <2>1
<1>17. \A fd \in 3 .. MaxFd : Becomes(f, cs, fd) = IF fd \in {p, r, w} THEN NoFile ELSE f[fd]
  <2>1. ASSUME NEW fd \in 3 .. MaxFd, fd \notin {p, r, w} PROVE Becomes(f, cs, fd) = f[fd]
    <3>1. fd \in 2 .. MaxFd
      OBVIOUS
    <3>2. QED
      BY <1>15, <2>1, <3>1
  <2>2. QED
    BY <1>12, <1>13, <1>14, <2>1, Zenon
<1>18. /\ (IF l.prev_read_fd = -1 THEN 0 ELSE l.prev_read_fd) = p
       /\ (IF l.wfd = -1 THEN 1 ELSE l.wfd) = w
  BY <1>1, <1>2
<1>19. QED
  BY <1>1, <1>6, <1>7, <1>8, <1>10, <1>11, <1>16, <1>17, <1>18, Zenon DEF ChildHas

\* The first command.
LEMMA ChildAtTheStart ==
  ASSUME NEW f, NEW l, Kept(l), l.prev_read_fd = -1, NEW cs, cs = ChildCalls(l)
  PROVE  ChildHas(f, l, cs)
<1>1. PICK p, r, w : p = l.prev_read_fd /\ r = l.rfd /\ w = l.wfd
  OBVIOUS
<1>2. /\ {r, w} \subseteq 3 .. MaxFd /\ r # w /\ p = -1
      /\ {r, w} \subseteq Fds /\ 0 \in 0 .. 2 /\ 1 \in 0 .. 2
  BY <1>1, KeptFacts, ShellAssumption DEF Kept, Fds
<1>3. PICK c, d, e : c = Dup2(w, 1) /\ d = Close(w) /\ e = Close(r)
  OBVIOUS
<1>4. /\ c \in Calls /\ c[1] = "dup2" /\ c[2] = w /\ c[3] = 1
      /\ d \in Calls /\ d[1] = "close" /\ d[3] = w
      /\ e \in Calls /\ e[1] = "close" /\ e[3] = r
  BY <1>2, <1>3, CallFacts
<1>5. cs = <<c, d, e>>
  <2>1. cs = (<<>> \o <<c, d>>) \o <<e>>
    <3>1. p = -1 /\ w # -1 /\ r # -1
      BY <1>2
    <3>2. QED
      BY <1>1, <1>3, <3>1 DEF ChildCalls, Connects, Closes, STDIN, STDOUT
  <2>2. QED
    BY <1>4, <2>1, Joined
<1>6. /\ cs \in Seq(Calls) /\ DOMAIN cs = 1 .. 3
      /\ cs[1] = c /\ cs[2] = d /\ cs[3] = e
  BY <1>4, <1>5, Five
<1>7. cs # <<>>
  BY <1>5
<1>8. InOrder(cs)
  <2>1. ASSUME NEW m \in 1 .. 3, NEW n \in 1 .. 3, m < n
        PROVE  cs[m][3] # cs[n][3] /\ (cs[n][1] = "dup2" => cs[m][3] # cs[n][2])
    BY <1>2, <1>4, <1>6, <2>1
  <2>2. QED
    BY <1>6, <2>1 DEF InOrder
<1>9. 1 \in DOMAIN cs /\ 2 \in DOMAIN cs /\ 3 \in DOMAIN cs /\ DOMAIN cs \subseteq Int
  BY <1>6
<1>10. Becomes(f, cs, 1) = f[w]
  <2>1. Becomes(f, cs, cs[1][3]) = IF cs[1][1] = "close" THEN NoFile ELSE f[cs[1][2]]
    BY <1>8, <1>9, TheCall
  <2>2. QED
    BY <1>4, <1>6, <2>1
<1>11. Becomes(f, cs, w) = NoFile
  <2>1. Becomes(f, cs, cs[2][3]) = IF cs[2][1] = "close" THEN NoFile ELSE f[cs[2][2]]
    BY <1>8, <1>9, TheCall
  <2>2. QED
    BY <1>4, <1>6, <2>1
<1>12. Becomes(f, cs, r) = NoFile
  <2>1. Becomes(f, cs, cs[3][3]) = IF cs[3][1] = "close" THEN NoFile ELSE f[cs[3][2]]
    BY <1>8, <1>9, TheCall
  <2>2. QED
    BY <1>4, <1>6, <2>1
<1>13. ASSUME NEW fd \in 0 .. MaxFd, fd \notin {1, r, w}
       PROVE  Becomes(f, cs, fd) = f[fd]
  <2>1. \A n \in DOMAIN cs : cs[n][3] # fd
    <3>1. ASSUME NEW n \in 1 .. 3 PROVE cs[n][3] \in {1, w, r}
      BY <1>4, <1>6
    <3>2. QED
      BY <1>6, <1>13, <3>1
  <2>2. QED
    BY <2>1, OtherCalls
<1>14. Becomes(f, cs, 0) = f[0] /\ Becomes(f, cs, 2) = f[2]
  <2>1. 0 \in 0 .. MaxFd /\ 2 \in 0 .. MaxFd /\ 2 \notin {1, r, w} /\ 0 \notin {1, r, w}
    BY <1>2, ShellAssumption
  <2>2. QED
    BY <1>13, <2>1
<1>15. \A fd \in 3 .. MaxFd : Becomes(f, cs, fd) = IF fd \in {p, r, w} THEN NoFile ELSE f[fd]
  <2>1. ASSUME NEW fd \in 3 .. MaxFd PROVE fd \in 0 .. MaxFd /\ fd # 1 /\ fd # p
    BY <1>2
  <2>2. ASSUME NEW fd \in 3 .. MaxFd, fd \notin {p, r, w} PROVE Becomes(f, cs, fd) = f[fd]
    BY <1>13, <2>1, <2>2
  <2>3. QED
    BY <1>11, <1>12, <2>1, <2>2, Zenon
<1>16. /\ (IF l.prev_read_fd = -1 THEN 0 ELSE l.prev_read_fd) = 0
       /\ (IF l.wfd = -1 THEN 1 ELSE l.wfd) = w
  BY <1>1, <1>2
<1>17. QED
  BY <1>1, <1>6, <1>7, <1>8, <1>10, <1>14, <1>15, <1>16, Zenon DEF ChildHas

\* The last command.
LEMMA ChildAtTheEnd ==
  ASSUME NEW f, NEW l, Kept(l), l.rfd = -1, NEW cs, cs = ChildCalls(l)
  PROVE  ChildHas(f, l, cs)
<1>1. PICK p, r, w : p = l.prev_read_fd /\ r = l.rfd /\ w = l.wfd
  OBVIOUS
<1>2. /\ p \in 3 .. MaxFd /\ r = -1 /\ w = -1
      /\ p \in Fds /\ 0 \in 0 .. 2
  BY <1>1, KeptFacts, ShellAssumption DEF Kept, Fds
<1>3. PICK a, b : a = Dup2(p, 0) /\ b = Close(p)
  OBVIOUS
<1>4. /\ a \in Calls /\ a[1] = "dup2" /\ a[2] = p /\ a[3] = 0
      /\ b \in Calls /\ b[1] = "close" /\ b[3] = p
  BY <1>2, <1>3, CallFacts
<1>5. cs = <<a, b>>
  <2>1. cs = (<<a, b>> \o <<>>) \o <<>>
    <3>1. p # -1 /\ w = -1 /\ r = -1
      BY <1>2
    <3>2. QED
      BY <1>1, <1>3, <3>1 DEF ChildCalls, Connects, Closes, STDIN, STDOUT
  <2>2. QED
    BY <1>4, <2>1, Joined
<1>6. /\ cs \in Seq(Calls) /\ DOMAIN cs = 1 .. 2
      /\ cs[1] = a /\ cs[2] = b
  BY <1>4, <1>5, Five
<1>7. cs # <<>>
  BY <1>5
<1>8. InOrder(cs)
  <2>1. ASSUME NEW m \in 1 .. 2, NEW n \in 1 .. 2, m < n
        PROVE  cs[m][3] # cs[n][3] /\ (cs[n][1] = "dup2" => cs[m][3] # cs[n][2])
    BY <1>2, <1>4, <1>6, <2>1
  <2>2. QED
    BY <1>6, <2>1 DEF InOrder
<1>9. 1 \in DOMAIN cs /\ 2 \in DOMAIN cs /\ DOMAIN cs \subseteq Int
  BY <1>6
<1>10. Becomes(f, cs, 0) = f[p]
  <2>1. Becomes(f, cs, cs[1][3]) = IF cs[1][1] = "close" THEN NoFile ELSE f[cs[1][2]]
    BY <1>8, <1>9, TheCall
  <2>2. QED
    BY <1>4, <1>6, <2>1
<1>11. Becomes(f, cs, p) = NoFile
  <2>1. Becomes(f, cs, cs[2][3]) = IF cs[2][1] = "close" THEN NoFile ELSE f[cs[2][2]]
    BY <1>8, <1>9, TheCall
  <2>2. QED
    BY <1>4, <1>6, <2>1
<1>12. ASSUME NEW fd \in 0 .. MaxFd, fd \notin {0, p}
       PROVE  Becomes(f, cs, fd) = f[fd]
  <2>1. \A n \in DOMAIN cs : cs[n][3] # fd
    <3>1. ASSUME NEW n \in 1 .. 2 PROVE cs[n][3] \in {0, p}
      BY <1>4, <1>6
    <3>2. QED
      BY <1>6, <1>12, <3>1
  <2>2. QED
    BY <2>1, OtherCalls
<1>13. Becomes(f, cs, 1) = f[1] /\ Becomes(f, cs, 2) = f[2]
  <2>1. 1 \in 0 .. MaxFd /\ 2 \in 0 .. MaxFd /\ 2 \notin {0, p} /\ 1 \notin {0, p}
    BY <1>2, ShellAssumption
  <2>2. QED
    BY <1>12, <2>1
<1>14. \A fd \in 3 .. MaxFd : Becomes(f, cs, fd) = IF fd \in {p, r, w} THEN NoFile ELSE f[fd]
  <2>1. ASSUME NEW fd \in 3 .. MaxFd PROVE fd \in 0 .. MaxFd /\ fd # 0 /\ fd # r /\ fd # w
    BY <1>2
  <2>2. ASSUME NEW fd \in 3 .. MaxFd, fd \notin {p, r, w} PROVE Becomes(f, cs, fd) = f[fd]
    BY <1>12, <2>1, <2>2
  <2>3. QED
    BY <1>11, <2>1, <2>2, Zenon
<1>15. /\ (IF l.prev_read_fd = -1 THEN 0 ELSE l.prev_read_fd) = p
       /\ (IF l.wfd = -1 THEN 1 ELSE l.wfd) = 1
  BY <1>1, <1>2
<1>16. QED
  BY <1>1, <1>6, <1>7, <1>8, <1>10, <1>13, <1>14, <1>15, Zenon DEF ChildHas

\* Whichever command it is.
LEMMA ChildBecomes ==
  ASSUME NEW f, NEW l, Kept(l)
  PROVE  ChildHas(f, l, ChildCalls(l))
<1>1. CASE l.prev_read_fd # -1 /\ l.rfd # -1
  BY <1>1, ChildInTheMiddle
<1>2. CASE l.prev_read_fd = -1
  BY <1>2, ChildAtTheStart
<1>3. CASE l.rfd = -1
  BY <1>3, ChildAtTheEnd
<1>4. QED
  BY <1>1, <1>2, <1>3

\* What the descriptors of the shell become after a fork: it closes the read
\* end before the child, and the write end of the child.
ShellHas(f, l, cs) ==
  /\ cs \in Seq(Calls) /\ InOrder(cs)
  /\ \A fd \in Fds :
       Becomes(f, cs, fd) = IF fd \in {l.prev_read_fd, l.wfd} THEN NoFile ELSE f[fd]

\* It does so whatever it has to close.
LEMMA ShellBecomes ==
  ASSUME NEW f, NEW l, Kept(l)
  PROVE  ShellHas(f, l, ParentCalls(l))
<1>1. PICK p, w, cs : p = l.prev_read_fd /\ w = l.wfd /\ cs = ParentCalls(l)
  OBVIOUS
<1>2. /\ {p, w} \subseteq -1 .. MaxFd /\ p # w /\ {p, w} \subseteq {-1} \cup Fds
      /\ -1 \notin Fds
  BY <1>1, KeptFacts, ShellAssumption DEF Kept, Fds
<1>3. PICK a, b : a = Close(p) /\ b = Close(w)
  OBVIOUS
<1>4. p \in Fds => a \in Calls /\ a[1] = "close" /\ a[3] = p
  BY <1>3, CallFacts
<1>5. w \in Fds => b \in Calls /\ b[1] = "close" /\ b[3] = w
  BY <1>3, CallFacts
<1>6. cs = (IF p = -1 THEN <<>> ELSE <<a>>) \o (IF w = -1 THEN <<>> ELSE <<b>>)
  BY <1>1, <1>3 DEF ParentCalls, Closes
<1>7. CASE p # -1 /\ w # -1
  <2>1. p \in Fds /\ w \in Fds
    BY <1>2, <1>7
  <2>2. cs = <<a, b>>
    BY <1>4, <1>5, <1>6, <1>7, <2>1, Joined
  <2>3. cs \in Seq(Calls) /\ DOMAIN cs = 1 .. 2 /\ cs[1] = a /\ cs[2] = b
    BY <1>4, <1>5, <2>1, <2>2, Five
  <2>4. InOrder(cs)
    <3>1. ASSUME NEW m \in 1 .. 2, NEW n \in 1 .. 2, m < n
          PROVE  cs[m][3] # cs[n][3] /\ (cs[n][1] = "dup2" => cs[m][3] # cs[n][2])
      BY <1>2, <1>4, <1>5, <2>1, <2>3, <3>1
    <3>2. QED
      BY <2>3, <3>1 DEF InOrder
  <2>5. 1 \in DOMAIN cs /\ 2 \in DOMAIN cs /\ DOMAIN cs \subseteq Int
    BY <2>3
  <2>6. Becomes(f, cs, cs[1][3]) = IF cs[1][1] = "close" THEN NoFile ELSE f[cs[1][2]]
    BY <2>4, <2>5, TheCall
  <2>7. Becomes(f, cs, cs[2][3]) = IF cs[2][1] = "close" THEN NoFile ELSE f[cs[2][2]]
    BY <2>4, <2>5, TheCall
  <2>8. Becomes(f, cs, p) = NoFile /\ Becomes(f, cs, w) = NoFile
    BY <1>4, <1>5, <2>1, <2>3, <2>6, <2>7
  <2>9. ASSUME NEW fd \in Fds, fd \notin {p, w} PROVE Becomes(f, cs, fd) = f[fd]
    <3>1. ASSUME NEW n \in 1 .. 2 PROVE cs[n][3] \in {p, w}
      BY <1>4, <1>5, <2>1, <2>3
    <3>2. \A n \in DOMAIN cs : cs[n][3] # fd
      BY <2>3, <2>9, <3>1
    <3>3. QED
      BY <3>2, OtherCalls
  <2>10. QED
    BY <1>1, <2>3, <2>4, <2>8, <2>9, Zenon DEF ShellHas
<1>8. ASSUME NEW x \in Fds, NEW y, y \notin Fds, {p, w} = {x, y},
             NEW c \in Calls, c[1] = "close", c[3] = x, cs = <<c>>
      PROVE  ShellHas(f, l, cs)
  <2>1. cs \in Seq(Calls) /\ DOMAIN cs = 1 .. 1 /\ cs[1] = c
    BY <1>8, Five
  <2>2. InOrder(cs)
    BY <2>1 DEF InOrder
  <2>3. 1 \in DOMAIN cs /\ DOMAIN cs \subseteq Int
    BY <2>1
  <2>4. Becomes(f, cs, cs[1][3]) = IF cs[1][1] = "close" THEN NoFile ELSE f[cs[1][2]]
    BY <2>2, <2>3, TheCall
  <2>5. Becomes(f, cs, x) = NoFile
    BY <1>8, <2>1, <2>4
  <2>6. ASSUME NEW fd \in Fds, fd # x PROVE Becomes(f, cs, fd) = f[fd]
    <3>1. \A n \in DOMAIN cs : cs[n][3] # fd
      BY <1>8, <2>1, <2>6
    <3>2. QED
      BY <3>1, OtherCalls
  <2>7. \A fd \in Fds : fd \in {p, w} <=> fd = x
    BY <1>8
  <2>8. QED
    BY <1>1, <2>1, <2>2, <2>5, <2>6, <2>7, Zenon DEF ShellHas
<1>9. CASE p # -1 /\ w = -1
  <2>1. p \in Fds /\ w \notin Fds /\ cs = <<a>>
    BY <1>2, <1>4, <1>6, <1>9, Joined
  <2>2. QED
    BY <1>1, <1>4, <1>8, <2>1
<1>10. CASE p = -1 /\ w # -1
  <2>1. w \in Fds /\ p \notin Fds /\ cs = <<b>>
    BY <1>2, <1>5, <1>6, <1>10, Joined
  <2>2. {p, w} = {w, p}
    OBVIOUS
  <2>3. QED
    BY <1>1, <1>5, <1>8, <2>1, <2>2
<1>11. CASE p = -1 /\ w = -1
  BY <1>2, <1>11
<1>12. QED
  BY <1>1, <1>7, <1>9, <1>10, <1>11

-----------------------------------------------------------------------------
(* What a step that leaves the ends of the pipes alone keeps.              *)

\* Everything that is about task s alone stays.
Same(s) ==
  /\ pc'[s] = pc[s] /\ calls'[s] = calls[s] /\ fds'[s] = fds[s] /\ locals'[s] = locals[s]
  /\ left'[s] = left[s] /\ written'[s] = written[s] /\ counted'[s] = counted[s]

\* Tasks that others let alone are where they were.
LEMMA OtherTask ==
  ASSUME born \in Nat, NEW s \in Tasks, TaskInv(s), Same(s),
         born' = born \/ (born' = born + 1 /\ s # born')
  PROVE  TaskInv(s)'
<1>1. pc'[s] = "none" <=> s > born'
  BY DEF TaskInv, Same, Tasks
<1>2. s > born' => s > born
  BY DEF Tasks
<1>3. (s \in Kids)' <=> s \in Kids
  BY DEF Same, Kids, nseg
<1>4. \A n \in DOMAIN locals[s].pids : locals[s].pids[n] \in {-1} \cup 2 .. born'
  <2>1. 2 .. born \subseteq 2 .. born'
    OBVIOUS
  <2>2. QED
    BY <2>1 DEF TaskInv
<1>5. /\ s > born' => /\ locals'[s] = NoLocals /\ left'[s] = 0
                      /\ written'[s] = 0 /\ counted'[s] = 0
      /\ InOrder(calls'[s])
      /\ pc'[s] = "finished" => fds'[s] = [fd \in Fds |-> NoFile]
      /\ pc'[s] \in {"pipe", "fork"} => s = Sh
      /\ pc'[s] = "blocked" => /\ locals'[s].k <= Len(locals'[s].pids)
                               /\ locals'[s].pids[locals'[s].k] # -1
  BY <1>2 DEF TaskInv, Same
<1>6. /\ calls'[s] # <<>> => \/ (s \in Kids)' /\ pc'[s] = "run"
                             \/ s = Sh /\ pc'[s] \in {"pipe", "fork", "wait"}
      /\ ~(s \in Kids)' /\ s # Sh => pc'[s] \in {"none", "program", "exit", "finished"}
      /\ (s \in Kids)' => pc'[s] \in {"run", "write", "read", "wait", "blocked", "exit"}
  BY <1>3 DEF TaskInv, Same
<1>7. \A n \in DOMAIN locals'[s].pids : locals'[s].pids[n] \in {-1} \cup 2 .. born'
  BY <1>4 DEF Same
<1>8. QED
  BY <1>1, <1>5, <1>6, <1>7, Zenon DEF TaskInv

\* So are the children.
LEMMA OtherKid ==
  ASSUME NEW s, KidInv(s), Same(s)
  PROVE  KidInv(s)'
BY DEF KidInv, Same, nseg, Command

\* The ends that each has become are as they were, for those that go on.
EndsKept ==
  /\ \A s \in Kids' : /\ s \in Kids
                      /\ locals'[s].i = locals[s].i /\ locals'[s].line = locals[s].line
                      /\ \A fd \in Fds : Fd(s, fd)' = Fd(s, fd)
  /\ locals'[Sh].prev_read_fd = locals[Sh].prev_read_fd
  /\ locals'[Sh].rfd = locals[Sh].rfd /\ locals'[Sh].wfd = locals[Sh].wfd
  /\ pc'[Sh] # "finished" =>
       pc[Sh] # "finished" /\ \A fd \in Fds : Fd(Sh, fd)' = Fd(Sh, fd)
  /\ pipe_failed' = pipe_failed
  /\ \A p \in Pipes : locals[Sh].rfd # -1 /\ Fd(Sh, locals[Sh].rfd) = R(p) => bytes'[p] = bytes[p]

\* The numbers of descriptors.
LEMMA FdNumbers ==
  /\ 0 \in Fds /\ 1 \in Fds /\ 2 \in Fds /\ 3 .. MaxFd \subseteq Fds /\ 0 .. 2 \subseteq Fds
  /\ -1 \notin Fds
  /\ \A fd \in MaybeFd : fd # -1 => fd \in Fds
BY ShellAssumption DEF Fds, MaybeFd

\* The variables of a task have their types.
LEMMA LocalTypes ==
  ASSUME TypesInv, NEW t \in Tasks
  PROVE  /\ locals[t] \in Ls
         /\ locals[t].line \in Lines \cup {<<>>} /\ locals[t].i \in Nat \ {0}
         /\ locals[t].prev_read_fd \in MaybeFd /\ locals[t].rfd \in MaybeFd
         /\ locals[t].wfd \in MaybeFd /\ locals[t].pids \in Seq(Int)
         /\ locals[t].k \in Nat \ {0}
<1>1. locals[t] \in Ls
  BY DEF TypesInv
<1>2. QED
  BY <1>1 DEF Ls

\* The shell is a task.
LEMMA ShellIsTask == Sh \in Tasks
BY ShellAssumption DEF Sh, Tasks

\* Then who holds what is as it was.
LEMMA Steady ==
  ASSUME TypesInv, LineInv, LineInv', ShellInv, HoldsInv, ApartInv, EndsKept
  PROVE  ShellInv' /\ HoldsInv' /\ ApartInv'
<1>1. PICK prev, rfd, wfd : /\ prev = locals[Sh].prev_read_fd
                            /\ rfd = locals[Sh].rfd /\ wfd = locals[Sh].wfd
  OBVIOUS
<1>2. /\ prev = locals'[Sh].prev_read_fd
      /\ rfd = locals'[Sh].rfd /\ wfd = locals'[Sh].wfd
      /\ prev \in MaybeFd /\ rfd \in MaybeFd /\ wfd \in MaybeFd
  BY <1>1, ShellIsTask, LocalTypes DEF EndsKept
<1>3. (prev # -1 => prev \in Fds) /\ (rfd # -1 => rfd \in Fds)
  BY <1>2, FdNumbers
<1>4. ASSUME NEW s \in Kids'
      PROVE  /\ s \in Kids /\ locals'[s].i = locals[s].i /\ locals'[s].line = locals[s].line
             /\ \A fd \in Fds : Fd(s, fd)' = Fd(s, fd)
  BY DEF EndsKept
<1>5. ShellInv'
  <2> SUFFICES ASSUME pc'[Sh] # "finished" PROVE ShellInv'
    BY Zenon DEF ShellInv
  <2>1. pc[Sh] # "finished" /\ \A fd \in Fds : Fd(Sh, fd)' = Fd(Sh, fd)
    BY DEF EndsKept
  <2>2. \A fd \in 0 .. 2 : Fd(Sh, fd)' = Console
    BY <2>1, FdNumbers DEF ShellInv
  <2>3. prev # -1 => Fd(Sh, prev)' \in Reads
    BY <1>1, <1>3, <2>1 DEF ShellInv
  <2>4. rfd # -1 => \E p \in Pipes : /\ Fd(Sh, rfd)' = R(p) /\ Fd(Sh, wfd)' = W(p)
                                     /\ bytes'[p] = 0
                                     /\ \A t \in Kids' : Fd(t, 1)' # W(p)
    <3> SUFFICES ASSUME rfd # -1
                 PROVE  \E p \in Pipes : /\ Fd(Sh, rfd)' = R(p) /\ Fd(Sh, wfd)' = W(p)
                                         /\ bytes'[p] = 0
                                         /\ \A t \in Kids' : Fd(t, 1)' # W(p)
      OBVIOUS
    <3>1. PICK p \in Pipes : /\ Fd(Sh, rfd) = R(p) /\ Fd(Sh, wfd) = W(p) /\ bytes[p] = 0
                             /\ \A t \in Kids : Fd(t, 1) # W(p)
      BY <1>1, <2>1 DEF ShellInv
    <3>2. wfd # -1
      BY <1>1 DEF LineInv
    <3>3. wfd \in Fds
      BY <1>2, <3>2, FdNumbers
    <3>4. Fd(Sh, rfd)' = R(p) /\ Fd(Sh, wfd)' = W(p)
      BY <1>3, <2>1, <3>1, <3>3
    <3>5. bytes'[p] = 0
      BY <1>1, <3>1 DEF EndsKept
    <3>6. \A t \in Kids' : Fd(t, 1)' # W(p)
      BY <1>4, <3>1, FdNumbers
    <3>7. QED
      BY <3>4, <3>5, <3>6
  <2>5. ~pipe_failed' => \A fd \in 3 .. MaxFd \ {prev, rfd, wfd} : Fd(Sh, fd)' = NoFile
    <3>1. pipe_failed' = pipe_failed
      BY DEF EndsKept
    <3>2. QED
      BY <1>1, <2>1, <3>1, FdNumbers DEF ShellInv
  <2>6. QED
    BY <1>2, <2>2, <2>3, <2>4, <2>5, Zenon DEF ShellInv
<1>6. HoldsInv'
  <2> SUFFICES ASSUME NEW t \in Kids' PROVE KidHolds(t)'
    BY Zenon DEF HoldsInv
  <2>1. /\ t \in Kids /\ locals'[t].i = locals[t].i /\ nseg(t)' = nseg(t)
        /\ \A fd \in Fds : Fd(t, fd)' = Fd(t, fd)
    BY <1>4 DEF nseg
  <2>2. KidHolds(t)
    BY <2>1 DEF HoldsInv
  <2>3. pipe_failed' = pipe_failed
    BY DEF EndsKept
  <2>4. /\ Fd(t, 0)' = Fd(t, 0) /\ Fd(t, 1)' = Fd(t, 1) /\ Fd(t, 2)' = Fd(t, 2)
        /\ \A fd \in 3 .. MaxFd : Fd(t, fd)' = Fd(t, fd)
    BY <2>1, FdNumbers
  <2>5. /\ IF locals'[t].i = 1 THEN Fd(t, 0)' = Console ELSE Fd(t, 0)' \in Reads
        /\ IF locals'[t].i = nseg(t)' THEN Fd(t, 1)' = Console ELSE Fd(t, 1)' \in Writes
        /\ Fd(t, 2)' = Console
        /\ ~pipe_failed' => \A fd \in 3 .. MaxFd : Fd(t, fd)' = NoFile
    BY <2>1, <2>2, <2>3, <2>4, Zenon DEF KidHolds
  <2>6. QED
    BY <2>5, Zenon DEF KidHolds, Reads, Writes
<1>7. ApartInv'
  <2>1. ASSUME NEW s \in Kids', NEW t \in Kids', s # t
        PROVE  /\ Fd(s, 0)' = Fd(t, 0)' => Fd(s, 0)' = Console
               /\ Fd(s, 1)' = Fd(t, 1)' => Fd(s, 1)' = Console
    <3>1. s \in Kids /\ t \in Kids
      BY <1>4
    <3>2. /\ Fd(s, 0)' = Fd(s, 0) /\ Fd(s, 1)' = Fd(s, 1)
          /\ Fd(t, 0)' = Fd(t, 0) /\ Fd(t, 1)' = Fd(t, 1)
      BY <1>4, FdNumbers
    <3>3. /\ Fd(s, 0) = Fd(t, 0) => Fd(s, 0) = Console
          /\ Fd(s, 1) = Fd(t, 1) => Fd(s, 1) = Console
      BY <2>1, <3>1, Zenon DEF ApartInv
    <3>4. QED
      BY <3>2, <3>3
  <2>2. prev # -1 \/ rfd # -1 => pc'[Sh] # "finished"
    BY <1>2 DEF LineInv
  <2>3. \A fd \in {prev, rfd} \ {-1} : fd \in Fds /\ Fd(Sh, fd)' = Fd(Sh, fd)
    BY <1>3, <2>2 DEF EndsKept
  <2>4. \A fd \in {prev, rfd} \ {-1} : \A t \in Kids' : Fd(t, 0)' # Fd(Sh, fd)'
    <3>1. SUFFICES ASSUME NEW fd \in {prev, rfd} \ {-1}, NEW t \in Kids'
                   PROVE  Fd(t, 0)' # Fd(Sh, fd)'
      OBVIOUS
    <3>2. t \in Kids /\ Fd(t, 0)' = Fd(t, 0) /\ Fd(Sh, fd)' = Fd(Sh, fd)
      BY <1>4, <2>3, FdNumbers
    <3>3. Fd(t, 0) # Fd(Sh, fd)
      BY <1>1, <3>2, Zenon DEF ApartInv
    <3>4. QED
      BY <3>2, <3>3
  <2>5. prev # -1 /\ rfd # -1 => Fd(Sh, prev)' # Fd(Sh, rfd)'
    <3>1. prev # -1 /\ rfd # -1 => Fd(Sh, prev) # Fd(Sh, rfd)
      BY <1>1, Zenon DEF ApartInv
    <3>2. QED
      BY <2>3, <3>1
  <2>6. QED
    BY <1>2, <2>1, <2>4, <2>5, Zenon DEF ApartInv
<1>8. QED
  BY <1>5, <1>6, <1>7

\* A command before another is none, or a task.
LEMMA UpstreamTask ==
  ASSUME TypesInv, TasksInv, KidsInv, NEW t \in Kids, Command(t) = "wc", locals[t].i # 1
  PROVE  Upstream(t) \in {-1} \cup Tasks
<1>1. t \in Tasks /\ locals[t].i \in 1 .. nseg(t) /\ Len(locals[t].pids) = locals[t].i - 1
  BY DEF KidsInv, KidInv, Kids
<1>2. locals[t].i - 1 \in DOMAIN locals[t].pids
  BY <1>1, LocalTypes
<1>3. Upstream(t) \in {-1} \cup 2 .. born
  BY <1>1, <1>2 DEF TasksInv, TaskInv, Upstream
<1>4. 2 .. born \subseteq Tasks
  BY ShellAssumption DEF TypesInv, Tasks
<1>5. QED
  BY <1>3, <1>4

\* So is the last one that the shell has forked.
LEMMA LastForked ==
  ASSUME TypesInv, TasksInv, LineInv, locals[Sh].prev_read_fd # -1
  PROVE  /\ locals[Sh].pids[locals[Sh].i - 1] \in {-1} \cup Tasks
         /\ pc[Sh] \in {"pipe", "fork"} /\ locals[Sh].i # 1
<1>1. pc[Sh] \in {"pipe", "fork"}
  BY DEF LineInv
<1>2. locals[Sh].i # 1 /\ locals[Sh].i \in Nat /\ Len(locals[Sh].pids) = locals[Sh].i - 1
  BY <1>1, LocalTypes, ShellIsTask DEF LineInv
<1>3. locals[Sh].i - 1 \in DOMAIN locals[Sh].pids
  BY <1>2, LocalTypes, ShellIsTask
<1>4. locals[Sh].pids[locals[Sh].i - 1] \in {-1} \cup 2 .. born
  BY <1>3, ShellIsTask DEF TasksInv, TaskInv
<1>5. 2 .. born \subseteq Tasks
  BY ShellAssumption DEF TypesInv, Tasks
<1>6. QED
  BY <1>1, <1>2, <1>4, <1>5

\* The writers: those that go on hold the same ends, and none has written.
WritersKept ==
  /\ \A s \in Kids' : s \in Kids /\ Fd(s, 1)' = Fd(s, 1)
  /\ \A s \in Tasks : /\ written'[s] = written[s]
                      /\ pc[s] = "finished" => pc'[s] = "finished"
                      /\ s \in Kids => s \in Kids' \/ pc'[s] = "finished"

\* Then a pipe whose bytes stay is fed as it was.
LEMMA StillFed ==
  ASSUME WritersKept, NEW u \in {-1} \cup Tasks, NEW p \in Pipes, NEW n, Fed(u, p, n),
         bytes'[p] = bytes[p]
  PROVE  Fed(u, p, n)'
<1>1. IF u = -1 THEN bytes'[p] = 0 /\ n = 0 ELSE bytes'[p] + n = written'[u]
  BY DEF Fed, WritersKept
<1>2. \A v \in Kids' : Fd(v, 1)' = W(p) => v = u
  BY DEF Fed, WritersKept
<1>3. u # -1 /\ pc'[u] # "finished" => u \in Kids' /\ Fd(u, 1)' = W(p)
  BY DEF Fed, WritersKept
<1>4. QED
  BY <1>1, <1>2, <1>3, Zenon DEF Fed, W

\* A reader that goes on as it was.
ReaderKept(t) ==
  /\ t \in Kids /\ t \in Tasks
  /\ locals'[t].i = locals[t].i /\ locals'[t].line = locals[t].line /\ Fd(t, 0)' = Fd(t, 0)
  /\ Command(t) = "wc" =>
       /\ locals'[t].pids = locals[t].pids /\ counted'[t] = counted[t]
       /\ pc'[t] \in {"write", "exit"} => pc[t] \in {"write", "exit"}
       /\ pc[t] \in {"run", "read"} /\ locals[t].i = 1 => pc'[t] \in {"run", "read"}
       /\ \A p \in Pipes : Fd(t, 0) = R(p) => bytes'[p] = bytes[p]

\* It counts what it did.
LEMMA StillCounts ==
  ASSUME TypesInv, TasksInv, KidsInv, HoldsInv, WritersKept,
         NEW t, ReaderKept(t), Command(t) = "wc", Counts(t)
  PROVE  Counts(t)'
<1>1. /\ Upstream(t)' = Upstream(t)
      /\ locals'[t].i = locals[t].i /\ counted'[t] = counted[t] /\ Fd(t, 0)' = Fd(t, 0)
  BY DEF ReaderKept, Upstream
<1>2. CASE locals[t].i = 1
  <2>1. pc[t] \in {"run", "read"} /\ counted[t] = 0
    BY <1>2 DEF Counts
  <2>2. pc'[t] \in {"run", "read"} /\ counted'[t] = 0
    BY <1>1, <1>2, <2>1 DEF ReaderKept
  <2>3. Fd(t, 0)' = Console
    BY <1>1, <1>2 DEF ReaderKept, HoldsInv, KidHolds
  <2>4. \A p \in Pipes : Fd(t, 0)' # R(p)
    BY <2>3, EndFacts
  <2>5. pc'[t] \notin {"write", "exit"}
    BY <2>2
  <2>6. QED
    BY <2>2, <2>4, <2>5, Zenon DEF Counts, R
<1>3. CASE locals[t].i # 1
  <2>1. PICK u \in {-1} \cup Tasks : u = Upstream(t)
    BY <1>3, UpstreamTask DEF ReaderKept
  <2>2. ASSUME NEW p \in Pipes, Fd(t, 0)' = R(p)
        PROVE  Fed(Upstream(t), p, counted[t])'
    <3>1. PICK n : n = counted[t]
      OBVIOUS
    <3>2. Fd(t, 0) = R(p)
      BY <1>1, <2>2
    <3>3. Fed(u, p, n)
      BY <2>1, <3>1, <3>2, Zenon DEF Counts
    <3>4. bytes'[p] = bytes[p]
      BY <3>2 DEF ReaderKept
    <3>5. Fed(u, p, n)'
      BY <3>3, <3>4, StillFed
    <3>6. Upstream(t)' = u /\ counted'[t] = n
      BY <1>1, <2>1, <3>1
    <3>7. QED
      BY <3>5, <3>6, Zenon DEF Fed, W
  <2>3. ASSUME pc'[t] \in {"write", "exit"}
        PROVE  IF u = -1 THEN counted'[t] = 0
               ELSE pc'[u] = "finished" /\ counted'[t] = written'[u]
    <3>1. pc[t] \in {"write", "exit"}
      BY <2>3 DEF ReaderKept
    <3>2. IF u = -1 THEN counted[t] = 0 ELSE pc[u] = "finished" /\ counted[t] = written[u]
      BY <2>1, <3>1 DEF Counts
    <3>3. u # -1 => u \in Tasks
      OBVIOUS
    <3>4. QED
      BY <1>1, <3>2, <3>3 DEF WritersKept
  <2>4. Upstream(t)' = u
    BY <1>1, <2>1
  <2>5. QED
    BY <1>1, <1>3, <2>2, <2>3, <2>4, Zenon DEF Counts, R
<1>4. QED
  BY <1>2, <1>3

\* The shell keeps the pipe that it reads for the next child.
ShellKept ==
  locals'[Sh].prev_read_fd # -1 =>
    /\ locals'[Sh].prev_read_fd = locals[Sh].prev_read_fd
    /\ locals'[Sh].pids = locals[Sh].pids /\ locals'[Sh].i = locals[Sh].i
    /\ \A p \in Pipes : Fd(Sh, locals[Sh].prev_read_fd)' = R(p) =>
         Fd(Sh, locals[Sh].prev_read_fd) = R(p) /\ bytes'[p] = bytes[p]

\* It is fed as it was.
LEMMA StillUnread ==
  ASSUME TypesInv, TasksInv, LineInv, WritersKept, ShellKept, Unread
  PROVE  Unread'
<1>1. CASE locals'[Sh].prev_read_fd = -1
  BY <1>1, Zenon DEF Unread
<1>2. CASE locals'[Sh].prev_read_fd # -1
  <2>1. PICK d, u : d = locals[Sh].prev_read_fd /\ u = locals[Sh].pids[locals[Sh].i - 1]
    OBVIOUS
  <2>2. /\ d # -1 /\ locals'[Sh].prev_read_fd = d
        /\ locals'[Sh].pids[locals'[Sh].i - 1] = u
    BY <1>2, <2>1 DEF ShellKept
  <2>3. u \in {-1} \cup Tasks
    BY <2>1, <2>2, LastForked
  <2>4. ASSUME NEW p \in Pipes, Fd(Sh, d)' = R(p) PROVE Fed(u, p, 0)'
    <3>1. Fd(Sh, d) = R(p) /\ bytes'[p] = bytes[p]
      BY <1>2, <2>1, <2>4 DEF ShellKept
    <3>2. Fed(u, p, 0)
      BY <2>1, <2>2, <3>1, Zenon DEF Unread
    <3>3. QED
      BY <2>3, <3>1, <3>2, StillFed
  <2>5. QED
    BY <2>2, <2>4, Zenon DEF Unread, R
<1>3. QED
  BY <1>1, <1>2

\* Then the bytes flow as they did.
LEMMA FlowSteady ==
  ASSUME TypesInv, TasksInv, KidsInv, LineInv, HoldsInv, FlowInv, WritersKept, ShellKept,
         \A t \in Kids' : ReaderKept(t)
  PROVE  FlowInv'
<1>1. ASSUME NEW t \in Kids', Command(t)' = "wc" PROVE Counts(t)'
  <2>1. ReaderKept(t) /\ t \in Kids
    BY DEF ReaderKept
  <2>2. Command(t) = "wc"
    BY <1>1, <2>1 DEF ReaderKept, Command
  <2>3. Counts(t)
    BY <2>1, <2>2, Zenon DEF FlowInv
  <2>4. QED
    BY <2>1, <2>2, <2>3, StillCounts
<1>2. Unread'
  BY StillUnread DEF FlowInv
<1>3. QED
  BY <1>1, <1>2, Zenon DEF FlowInv

-----------------------------------------------------------------------------
(* The steps of one task that leave ends and bytes alone.                  *)

\* With the same descriptors and calls, all become the same.
LEMMA SameFds ==
  ASSUME NEW s, fds'[s] = fds[s], calls'[s] = calls[s]
  PROVE  \A fd : Fd(s, fd)' = Fd(s, fd)
BY DEF Fd

\* At most one task has moved.
LEMMA OneTask ==
  ASSUME TypesInv, TasksInv, KidsInv, NEW t \in Tasks, \A s \in Tasks \ {t} : Same(s),
         born' = born, TaskInv(t)', t \in Kids' => KidInv(t)',
         t = Sh => pc'[t] \notin {"none", "program"}
  PROVE  TasksInv' /\ KidsInv'
<1>1. born \in Nat
  BY ShellAssumption DEF TypesInv, Tasks
<1>2. ASSUME NEW s \in Tasks, s # t PROVE TaskInv(s)'
  BY <1>1, <1>2, OtherTask DEF TasksInv
<1>3. pc'[Sh] \notin {"none", "program"}
  BY ShellIsTask DEF TasksInv, Same
<1>4. TasksInv'
  BY <1>2, <1>3, Zenon DEF TasksInv, Tasks
<1>5. ASSUME NEW s \in Kids', s # t PROVE KidInv(s)'
  <2>1. s \in Tasks /\ Same(s)
    BY <1>5 DEF Kids
  <2>2. s \in Kids
    BY <2>1 DEF Kids, Same, nseg
  <2>3. QED
    BY <2>1, <2>2, OtherKid DEF KidsInv
<1>6. KidsInv'
  BY <1>5, Zenon DEF KidsInv
<1>7. QED
  BY <1>4, <1>6

\* The variables of execute_line are not touched.
LEMMA SameLine ==
  ASSUME LineInv, pc'[Sh] = pc[Sh], locals'[Sh] = locals[Sh]
  PROVE  LineInv'
BY DEF LineInv, nseg

\* Task t goes on, and nothing that the ends and bytes depend on changes.
OnlyMoves(t) ==
  /\ \A s \in Tasks \ {t} : Same(s)
  /\ born' = born /\ pipe_failed' = pipe_failed /\ bytes' = bytes /\ written' = written
  /\ \A fd \in Fds : Fd(t, fd)' = Fd(t, fd)
  /\ pc[t] # "finished" /\ pc'[t] # "finished"
  /\ t # Sh =>
       /\ locals'[t].i = locals[t].i /\ locals'[t].line = locals[t].line
       /\ t \in Kids /\ Command(t) = "wc" =>
            /\ locals'[t].pids = locals[t].pids /\ counted'[t] = counted[t]
            /\ pc'[t] \in {"write", "exit"} => pc[t] \in {"write", "exit"}
            /\ pc[t] \in {"run", "read"} /\ locals[t].i = 1 => pc'[t] \in {"run", "read"}
  /\ t = Sh =>
       /\ pc'[t] \notin {"none", "program"}
       /\ locals'[t].prev_read_fd = locals[t].prev_read_fd
       /\ locals'[t].rfd = locals[t].rfd /\ locals'[t].wfd = locals[t].wfd
       /\ locals'[t].prev_read_fd # -1 =>
            locals'[t].pids = locals[t].pids /\ locals'[t].i = locals[t].i

\* Such a step keeps the invariant.
LEMMA MovesKeep ==
  ASSUME PipelineInv, NEW t \in Tasks, OnlyMoves(t), TypesInv', TaskInv(t)',
         t \in Kids' => KidInv(t)', LineInv'
  PROVE  PipelineInv'
<1>1. /\ TypesInv /\ TasksInv /\ KidsInv /\ LineInv /\ ShellInv /\ HoldsInv
      /\ ApartInv /\ FlowInv
  BY DEF PipelineInv
<1>2. TasksInv' /\ KidsInv'
  BY <1>1, OneTask DEF OnlyMoves
<1>3. ASSUME NEW s \in Tasks
      PROVE  /\ \A fd \in Fds : Fd(s, fd)' = Fd(s, fd)
             /\ pc[s] = "finished" <=> pc'[s] = "finished"
             /\ s # Sh => locals'[s].i = locals[s].i /\ locals'[s].line = locals[s].line
             /\ s \in Kids' <=> s \in Kids
  <2>1. CASE s = t
    <3>1. s # Sh => locals'[s].i = locals[s].i /\ locals'[s].line = locals[s].line
      BY <2>1 DEF OnlyMoves
    <3>2. s \in Kids' <=> s \in Kids
      BY <3>1 DEF Kids, nseg
    <3>3. QED
      BY <2>1, <3>1, <3>2 DEF OnlyMoves
  <2>2. CASE s # t
    <3>1. Same(s)
      BY <2>2 DEF OnlyMoves
    <3>2. \A fd \in Fds : Fd(s, fd)' = Fd(s, fd)
      BY <3>1, SameFds DEF Same
    <3>3. s \in Kids' <=> s \in Kids
      BY <3>1 DEF Kids, nseg, Same
    <3>4. QED
      BY <3>1, <3>2, <3>3 DEF Same
  <2>3. QED
    BY <2>1, <2>2
<1>4. /\ locals'[Sh].prev_read_fd = locals[Sh].prev_read_fd
      /\ locals'[Sh].rfd = locals[Sh].rfd /\ locals'[Sh].wfd = locals[Sh].wfd
      /\ locals'[Sh].prev_read_fd # -1 =>
           locals'[Sh].pids = locals[Sh].pids /\ locals'[Sh].i = locals[Sh].i
  <2>1. CASE t = Sh
    BY <2>1 DEF OnlyMoves
  <2>2. CASE t # Sh
    BY <2>2, ShellIsTask DEF OnlyMoves, Same
  <2>3. QED
    BY <2>1, <2>2
<1>5. /\ \A s \in Kids' : s \in Tasks /\ s # Sh /\ s \in Kids
      /\ \A s \in Kids : s \in Kids'
      /\ bytes' = bytes /\ written' = written /\ pipe_failed' = pipe_failed
  BY <1>3 DEF Kids, OnlyMoves
<1>6. EndsKept
  BY <1>3, <1>4, <1>5, ShellIsTask DEF EndsKept
<1>7. WritersKept
  BY <1>3, <1>5, FdNumbers DEF WritersKept
<1>8. ShellKept
  <2> SUFFICES ASSUME locals'[Sh].prev_read_fd # -1 PROVE ShellKept
    BY DEF ShellKept
  <2>1. locals[Sh].prev_read_fd \in Fds
    BY <1>1, <1>4, ShellIsTask, LocalTypes, FdNumbers
  <2>2. QED
    BY <1>3, <1>4, <1>5, <2>1, ShellIsTask DEF ShellKept
<1>9. ASSUME NEW s \in Kids' PROVE ReaderKept(s)
  <2>1. /\ s \in Kids /\ s \in Tasks /\ s # Sh
        /\ locals'[s].i = locals[s].i /\ locals'[s].line = locals[s].line
        /\ Fd(s, 0)' = Fd(s, 0) /\ bytes' = bytes
    BY <1>3, <1>5, FdNumbers
  <2>2. CASE s = t
    BY <2>1, <2>2 DEF OnlyMoves, ReaderKept
  <2>3. CASE s # t
    BY <2>1, <2>3 DEF OnlyMoves, ReaderKept, Same
  <2>4. QED
    BY <2>2, <2>3
<1>10. ShellInv' /\ HoldsInv' /\ ApartInv'
  BY <1>1, <1>6, Steady
<1>11. FlowInv'
  BY <1>1, <1>7, <1>8, <1>9, FlowSteady
<1>12. QED
  BY <1>2, <1>10, <1>11 DEF PipelineInv

\* A label and a call of the labels' task tell which task it can be.
LEMMA WhoActs ==
  ASSUME PipelineInv, NEW t \in Tasks
  PROVE  /\ TaskInv(t) /\ (t \in Kids => KidInv(t))
         /\ pc[t] \in Labels /\ calls[t] \in Seq(Calls) /\ fds[t] \in [Fds -> Ends]
         /\ t # Sh /\ pc[t] \notin {"none", "program", "exit", "finished"} => t \in Kids
         /\ locals[t] \in Ls /\ born \in Tasks /\ t \in Nat /\ born \in Nat
<1>1. TaskInv(t) /\ (t \in Kids => KidInv(t))
  BY DEF PipelineInv, TasksInv, KidsInv
<1>2. /\ pc[t] \in Labels /\ calls[t] \in Seq(Calls) /\ fds[t] \in [Fds -> Ends]
      /\ locals[t] \in Ls /\ born \in Tasks
  BY DEF PipelineInv, TypesInv
<1>3. t # Sh /\ pc[t] \notin {"none", "program", "exit", "finished"} => t \in Kids
  BY <1>1 DEF TaskInv
<1>4. t \in Nat /\ born \in Nat
  BY <1>2, ShellAssumption DEF Tasks
<1>5. QED
  BY <1>1, <1>2, <1>3, <1>4

\* The variables at the start have their types.
LEMMA NoLocalsFacts ==
  /\ NoLocals \in Ls /\ NoLocals.line = <<>> /\ NoLocals.i = 1 /\ NoLocals.prev_read_fd = -1
  /\ NoLocals.rfd = -1 /\ NoLocals.wfd = -1 /\ NoLocals.pids = <<>> /\ NoLocals.k = 1
<1>1. /\ <<>> \in Lines \cup {<<>>} /\ 1 \in Nat \ {0} /\ -1 \in MaybeFd
      /\ <<>> \in Seq(Int)
  BY ShellAssumption DEF MaybeFd
<1>2. QED
  BY <1>1 DEF NoLocals, Ls

\* The variables that keep their values keep their types.
LEMMA StillTyped ==
  ASSUME TypesInv,
         pc' \in [Tasks -> Labels], locals' \in [Tasks -> Ls],
         fds' = fds \/ fds' \in [Tasks -> [Fds -> Ends]],
         calls' = calls \/ calls' \in [Tasks -> Seq(Calls)],
         bytes' = bytes \/ bytes' \in [Pipes -> 0 .. PipeSize],
         left' = left \/ left' \in [Tasks -> 0 .. EchoBytes],
         written' = written \/ written' \in [Tasks -> 0 .. EchoBytes],
         counted' = counted \/ counted' \in [Tasks -> 0 .. EchoBytes],
         parent_tid' = parent_tid \/ parent_tid' \in [Tasks -> -1 .. MaxTid],
         born' = born \/ born' \in Tasks, pipe_failed' = pipe_failed \/ pipe_failed' \in BOOLEAN
  PROVE  TypesInv'
<1>1. /\ fds' \in [Tasks -> [Fds -> Ends]] /\ calls' \in [Tasks -> Seq(Calls)]
      /\ bytes' \in [Pipes -> 0 .. PipeSize] /\ left' \in [Tasks -> 0 .. EchoBytes]
      /\ written' \in [Tasks -> 0 .. EchoBytes] /\ counted' \in [Tasks -> 0 .. EchoBytes]
      /\ parent_tid' \in [Tasks -> -1 .. MaxTid]
      /\ born' \in Tasks /\ pipe_failed' \in BOOLEAN
  BY Zenon DEF TypesInv
<1>2. QED
  BY <1>1 DEF TypesInv

\* A line is read.
LEMMA ReadLineKeeps ==
  ASSUME PipelineInv, ReadLine
  PROVE  PipelineInv'
<1>1. /\ TypesInv /\ TasksInv /\ LineInv /\ TaskInv(Sh) /\ Sh \in Tasks
      /\ pc[Sh] = "prompt" /\ calls[Sh] = <<>>
  BY ShellIsTask, WhoActs DEF PipelineInv, ReadLine, At
<1>2. PICK line \in Lines :
        /\ locals' = [locals EXCEPT ![Sh] = [NoLocals EXCEPT !.line = line]]
        /\ Goto(Sh, IF line = <<"exit">> THEN "exit"
                    ELSE IF Len(line) = 1 THEN "run" ELSE "pipe")
  BY DEF ReadLine
<1>3. PICK x \in {"exit", "run", "pipe"} :
        pc' = [pc EXCEPT ![Sh] = x] /\ (x = "pipe" => Len(line) # 1)
  BY <1>2 DEF Goto
<1>4. /\ calls' = calls /\ fds' = fds /\ bytes' = bytes /\ left' = left
      /\ written' = written /\ counted' = counted /\ parent_tid' = parent_tid
      /\ born' = born /\ pipe_failed' = pipe_failed
  BY DEF ReadLine, counters
<1>5. PICK l : l = [NoLocals EXCEPT !.line = line]
  OBVIOUS
<1>6. /\ l \in Ls /\ l.line = line /\ l.i = 1 /\ l.prev_read_fd = -1 /\ l.rfd = -1
      /\ l.wfd = -1 /\ l.pids = <<>> /\ l.k = 1
  <2>1. l = [line |-> line, i |-> 1, prev_read_fd |-> -1, rfd |-> -1, wfd |-> -1,
             pids |-> <<>>, k |-> 1]
    BY <1>5 DEF NoLocals
  <2>2. /\ line \in Lines \cup {<<>>} /\ 1 \in Nat \ {0} /\ -1 \in MaybeFd
        /\ <<>> \in Seq(Int)
    BY ShellAssumption DEF MaybeFd
  <2>3. QED
    BY <2>1, <2>2 DEF Ls
<1>7. /\ locals'[Sh] = l /\ pc'[Sh] = x
      /\ \A s \in Tasks \ {Sh} : locals'[s] = locals[s] /\ pc'[s] = pc[s]
      /\ locals' \in [Tasks -> Ls] /\ pc' \in [Tasks -> Labels]
  BY <1>1, <1>2, <1>3, <1>5, <1>6 DEF TypesInv, Labels
<1>8. TypesInv'
  BY <1>1, <1>4, <1>7, StillTyped
<1>9. Len(line) \in Nat /\ (Len(line) # 1 => Len(line) > 1)
  <2>1. line \in Seq({"echo", "wc", "program", "exit"}) /\ line # <<>>
    BY ShellAssumption
  <2>2. Len(line) \in Nat /\ Len(line) # 0
    BY <2>1, EmptySeq
  <2>3. \A n \in Nat : n # 0 /\ n # 1 => n > 1
    OBVIOUS
  <2>4. QED
    BY <2>2, <2>3, Zenon
<1>10. LineInv'
  <2>1. nseg(Sh)' = Len(line)
    BY <1>6, <1>7 DEF nseg
  <2>2. Len(l.pids) = 0
    BY <1>6
  <2>3. QED
    BY <1>3, <1>6, <1>7, <1>9, <2>1, <2>2 DEF LineInv
<1>11. TaskInv(Sh)'
  <2>1. Sh <= born
    BY <1>1 DEF TaskInv, TypesInv, Sh, Tasks
  <2>2. ~(Sh \in Kids)'
    BY DEF Kids
  <2>3. DOMAIN l.pids = {}
    BY <1>6
  <2>4. ~(Sh > born')
    BY <1>4, <2>1, <1>1 DEF TypesInv, Tasks, Sh
  <2>5. InOrder(calls[Sh])
    BY <1>1 DEF TaskInv
  <2>6. QED
    BY <1>1, <1>3, <1>4, <1>7, <2>2, <2>3, <2>4, <2>5 DEF TaskInv
<1>12. OnlyMoves(Sh)
  <2>1. \A s \in Tasks \ {Sh} : Same(s)
    BY <1>4, <1>7 DEF Same
  <2>2. \A fd \in Fds : Fd(Sh, fd)' = Fd(Sh, fd)
    BY <1>4, SameFds
  <2>3. /\ locals[Sh].prev_read_fd = -1 /\ locals[Sh].rfd = -1 /\ locals[Sh].wfd = -1
    BY <1>1 DEF LineInv
  <2>4. QED
    BY <1>1, <1>3, <1>4, <1>6, <1>7, <2>1, <2>2, <2>3 DEF OnlyMoves
<1>13. Sh \notin Kids'
  BY DEF Kids
<1>14. QED
  BY <1>1, <1>8, <1>10, <1>11, <1>12, <1>13, MovesKeep

\* One of the dup2's and closes is made.
LEMMA DescriptorCallKeeps ==
  ASSUME PipelineInv, NEW t \in Tasks, DescriptorCall(t)
  PROVE  PipelineInv'
<1>1. /\ TypesInv /\ TasksInv /\ LineInv /\ TaskInv(t) /\ (t \in Kids => KidInv(t))
      /\ calls[t] \in Seq(Calls) /\ fds[t] \in [Fds -> Ends] /\ calls[t] # <<>>
      /\ InOrder(calls[t])
  BY WhoActs DEF PipelineInv, DescriptorCall, TaskInv
<1>2. /\ pc' = pc /\ locals' = locals /\ bytes' = bytes /\ left' = left
      /\ written' = written /\ counted' = counted /\ parent_tid' = parent_tid
      /\ born' = born /\ pipe_failed' = pipe_failed
  BY DEF DescriptorCall
<1>3. PICK cs, f, g : cs = calls[t] /\ f = fds[t] /\ FirstCallMade(f, cs, g)
  BY DEF FirstCallMade
<1>4. fds' = [fds EXCEPT ![t] = g] /\ calls' = [calls EXCEPT ![t] = Tail(cs)]
  <2>1. Head(cs) = cs[1]
    BY <1>1, <1>3
  <2>2. QED
    BY <1>1, <1>3, <2>1 DEF DescriptorCall, TypesInv, FirstCallMade
<1>5. /\ g \in [Fds -> Ends] /\ Tail(cs) \in Seq(Calls) /\ InOrder(Tail(cs))
      /\ \A fd \in Fds : Becomes(g, Tail(cs), fd) = Becomes(f, cs, fd)
  <2>1. f \in [Fds -> Ends] /\ cs \in Seq(Calls) /\ InOrder(cs) /\ cs # <<>>
    BY <1>1, <1>3
  <2>2. QED
    BY <1>3, <2>1, CallMade DEF SameBecomes
<1>6. /\ fds'[t] = g /\ calls'[t] = Tail(cs)
      /\ fds' \in [Tasks -> [Fds -> Ends]] /\ calls' \in [Tasks -> Seq(Calls)]
      /\ \A s \in Tasks \ {t} : Same(s)
  BY <1>1, <1>2, <1>4, <1>5 DEF TypesInv, Same
<1>7. TypesInv'
  BY <1>1, <1>2, <1>6, StillTyped DEF TypesInv
<1>8. LineInv'
  BY <1>1, <1>2, SameLine
<1>9. /\ pc[t] \in {"run", "pipe", "fork", "wait"} /\ (t \in Kids)' <=> t \in Kids
      /\ \/ t \in Kids /\ pc[t] = "run"
         \/ t = Sh /\ pc[t] \in {"pipe", "fork", "wait"}
  <2>1. \/ t \in Kids /\ pc[t] = "run"
        \/ t = Sh /\ pc[t] \in {"pipe", "fork", "wait"}
    BY <1>1 DEF TaskInv
  <2>2. (t \in Kids)' <=> t \in Kids
    BY <1>2 DEF Kids, nseg
  <2>3. QED
    BY <2>1, <2>2
<1>10. TaskInv(t)'
  <2>1. pc[t] = "none" <=> t > born
    BY <1>1 DEF TaskInv
  <2>2. pc[t] # "finished"
    BY <1>9
  <2>3. QED
    BY <1>1, <1>2, <1>5, <1>6, <1>9, <2>2 DEF TaskInv
<1>11. t \in Kids' => KidInv(t)'
  BY <1>1, <1>2, <1>9 DEF KidInv, nseg, Command
<1>12. OnlyMoves(t)
  <2>1. \A fd \in Fds : Fd(t, fd)' = Fd(t, fd)
    BY <1>3, <1>5, <1>6 DEF Fd
  <2>2. QED
    BY <1>2, <1>6, <1>9, <2>1 DEF OnlyMoves
<1>13. QED
  BY <1>7, <1>8, <1>10, <1>11, <1>12, MovesKeep

\* Task t moves to another label, and may change its variables.
Moves(t, x, l) ==
  /\ pc' = [pc EXCEPT ![t] = x] /\ locals' = [locals EXCEPT ![t] = l]
  /\ calls' = calls /\ fds' = fds /\ bytes' = bytes /\ written' = written
  /\ counted' = counted /\ born' = born /\ pipe_failed' = pipe_failed
  /\ \E n \in 0 .. EchoBytes : left' = [left EXCEPT ![t] = n]
  /\ parent_tid' = parent_tid

\* A task whose calls are made moves on, in the commands and the waits.
LEMMA MoveKeeps ==
  ASSUME PipelineInv, NEW t \in Tasks, NEW x \in Labels, NEW l \in Ls, Moves(t, x, l),
         calls[t] = <<>>, pc[t] \notin {"none", "finished"},
         x \notin {"none", "finished", "pipe", "fork"},
         t = Sh => l.prev_read_fd = -1 /\ l.rfd = -1 /\ l.wfd = -1,
         pc[t] \notin {"pipe", "fork"},
         \A n \in DOMAIN l.pids : l.pids[n] \in {-1} \cup 2 .. born,
         x = "blocked" => l.k <= Len(l.pids) /\ l.pids[l.k] # -1,
         t = Sh => x # "program",
         t # Sh =>
           /\ l.i = locals[t].i /\ l.line = locals[t].line
           /\ t \notin Kids => x \in {"program", "exit"}
           /\ t \in Kids =>
                /\ x \in {"write", "read", "wait", "blocked", "exit"}
                /\ KidInv(t)'
                /\ Command(t) = "wc" =>
                     /\ l.pids = locals[t].pids
                     /\ x \in {"write", "exit"} => pc[t] \in {"write", "exit"}
                     /\ pc[t] \in {"run", "read"} /\ l.i = 1 => x = "read"
  PROVE  PipelineInv'
<1>1. /\ TypesInv /\ TasksInv /\ LineInv /\ TaskInv(t)
  BY WhoActs DEF PipelineInv
<1>2. /\ pc'[t] = x /\ locals'[t] = l /\ pc' \in [Tasks -> Labels] /\ locals' \in [Tasks -> Ls]
      /\ left' \in [Tasks -> 0 .. EchoBytes]
      /\ calls' = calls /\ fds' = fds /\ bytes' = bytes /\ written' = written
      /\ counted' = counted /\ parent_tid' = parent_tid /\ born' = born
      /\ pipe_failed' = pipe_failed
      /\ \A s \in Tasks \ {t} : Same(s)
  BY <1>1 DEF Moves, TypesInv, Same
<1>3. TypesInv'
  BY <1>1, <1>2, StillTyped
<1>4. (t \in Kids)' <=> t \in Kids
  BY <1>2 DEF Kids, nseg
<1>5. TaskInv(t)'
  <2>1. ~(t > born)
    BY <1>1 DEF TaskInv
  <2>2. /\ ~(t > born')
        /\ ~(t \in Kids)' /\ t # Sh => x \in {"none", "program", "exit", "finished"}
        /\ (t \in Kids)' => x \in {"run", "write", "read", "wait", "blocked", "exit"}
        /\ InOrder(calls'[t]) /\ calls'[t] = <<>>
    BY <1>1, <1>2, <1>4, <2>1 DEF TaskInv, Kids
  <2>3. /\ pc'[t] = "none" <=> t > born'
        /\ pc'[t] # "finished" /\ pc'[t] \notin {"pipe", "fork"}
        /\ \A n \in DOMAIN locals'[t].pids : locals'[t].pids[n] \in {-1} \cup 2 .. born'
        /\ pc'[t] = "blocked" => /\ locals'[t].k <= Len(locals'[t].pids)
                                 /\ locals'[t].pids[locals'[t].k] # -1
    BY <1>2, <2>1
  <2>4. QED
    BY <1>2, <2>2, <2>3, Zenon DEF TaskInv
<1>6. LineInv'
  <2>1. CASE t = Sh
    <3>1. /\ pc'[Sh] \notin {"pipe", "fork"} /\ locals'[Sh].prev_read_fd = -1
          /\ locals'[Sh].rfd = -1 /\ locals'[Sh].wfd = -1
      BY <1>2, <2>1
    <3>2. QED
      BY <3>1 DEF LineInv
  <2>2. CASE t # Sh
    BY <1>1, <1>2, <2>2, ShellIsTask, SameLine DEF Same
  <2>3. QED
    BY <2>1, <2>2
<1>7. t \in Kids' => KidInv(t)'
  BY <1>4 DEF Kids
<1>8. OnlyMoves(t)
  <2>1. \A fd \in Fds : Fd(t, fd)' = Fd(t, fd)
    BY <1>2, SameFds
  <2>2. t = Sh => /\ locals[t].prev_read_fd = -1 /\ locals[t].rfd = -1 /\ locals[t].wfd = -1
    BY <1>1 DEF LineInv
  <2>3. t # Sh =>
       /\ locals'[t].i = locals[t].i /\ locals'[t].line = locals[t].line
       /\ t \in Kids /\ Command(t) = "wc" =>
            /\ locals'[t].pids = locals[t].pids /\ counted'[t] = counted[t]
            /\ pc'[t] \in {"write", "exit"} => pc[t] \in {"write", "exit"}
            /\ pc[t] \in {"run", "read"} /\ locals[t].i = 1 => pc'[t] \in {"run", "read"}
    BY <1>2
  <2>4. t = Sh =>
       /\ pc'[t] \notin {"none", "program"}
       /\ locals'[t].prev_read_fd = locals[t].prev_read_fd
       /\ locals'[t].rfd = locals[t].rfd /\ locals'[t].wfd = locals[t].wfd
       /\ locals'[t].prev_read_fd # -1 =>
            locals'[t].pids = locals[t].pids /\ locals'[t].i = locals[t].i
    BY <1>2, <2>2
  <2>5. QED
    BY <1>2, <2>1, <2>3, <2>4 DEF OnlyMoves
<1>9. QED
  BY <1>3, <1>5, <1>6, <1>7, <1>8, MovesKeep

\* A command, or a line, is done.
LEMMA DoneKeeps ==
  ASSUME PipelineInv, NEW t \in Tasks, Done(t), calls[t] = <<>>,
         pc[t] \in {"wait", "run", "write"},
         t \in Kids /\ Command(t) = "wc" => pc[t] = "write",
         calls' = calls, fds' = fds, bytes' = bytes, left' = left, written' = written,
         counted' = counted, parent_tid' = parent_tid, born' = born,
         pipe_failed' = pipe_failed
  PROVE  PipelineInv'
<1>1. /\ TypesInv /\ TaskInv(t) /\ (t \in Kids => KidInv(t)) /\ locals[t] \in Ls
      /\ left[t] \in 0 .. EchoBytes /\ (t # Sh => t \in Kids)
  <2>1. TypesInv /\ TaskInv(t) /\ (t \in Kids => KidInv(t)) /\ locals[t] \in Ls
        /\ (t # Sh => t \in Kids)
    BY WhoActs DEF PipelineInv
  <2>2. QED
    BY <2>1 DEF TypesInv
<1>2. left' = [left EXCEPT ![t] = left[t]]
  BY <1>1 DEF TypesInv
<1>3. CASE t = Sh
  <2>1. pc' = [pc EXCEPT ![t] = "prompt"] /\ locals' = [locals EXCEPT ![t] = NoLocals]
    BY <1>3 DEF Done, Goto
  <2>2. Moves(t, "prompt", NoLocals)
    BY <1>1, <1>2, <2>1 DEF Moves
  <2>3. DOMAIN NoLocals.pids = {}
    BY NoLocalsFacts
  <2>4. "prompt" \in Labels
    BY DEF Labels
  <2>5. QED
    BY <1>3, <2>2, <2>3, <2>4, NoLocalsFacts, MoveKeeps
<1>4. CASE t # Sh
  <2>1. pc' = [pc EXCEPT ![t] = "exit"] /\ locals' = locals
    BY <1>4 DEF Done, Goto
  <2>2. locals' = [locals EXCEPT ![t] = locals[t]]
    BY <1>1, <2>1 DEF TypesInv
  <2>3. Moves(t, "exit", locals[t])
    BY <1>1, <1>2, <2>1, <2>2 DEF Moves
  <2>4. pc'[t] = "exit"
    BY <1>1, <2>1 DEF TypesInv
  <2>5. written[t] + left[t] <= EchoBytes
    <3>1. EchoBytes \in Nat
      BY ShellAssumption
    <3>2. pc[t] = "run" => written[t] = 0
      BY <1>1, <1>4 DEF KidInv
    <3>3. pc[t] # "run" => written[t] + left[t] <= EchoBytes
      BY <1>1, <1>4 DEF KidInv
    <3>4. QED
      BY <1>1, <3>1, <3>2, <3>3
  <2>6. KidInv(t)'
    <3>1. KidInv(t)
      BY <1>1, <1>4
    <3>2. QED
      BY <2>1, <2>4, <2>5, <3>1 DEF KidInv, nseg, Command
  <2>7. \A n \in DOMAIN locals[t].pids : locals[t].pids[n] \in {-1} \cup 2 .. born
    BY <1>1 DEF TaskInv
  <2>8. "exit" \in Labels
    BY DEF Labels
  <2>9. QED
    BY <1>1, <1>4, <2>3, <2>6, <2>7, <2>8, MoveKeeps
<1>5. QED
  BY <1>3, <1>4

\* A task that waits goes to its next child, blocks, or is done.
LEMMA WaitKeeps ==
  ASSUME PipelineInv, NEW t \in Tasks, Wait(t)
  PROVE  PipelineInv'
<1>1. /\ TypesInv /\ TaskInv(t) /\ (t \in Kids => KidInv(t)) /\ locals[t] \in Ls
      /\ (t # Sh => t \in Kids) /\ calls[t] = <<>> /\ pc[t] = "wait"
  BY WhoActs DEF PipelineInv, Wait, At
<1>2. /\ calls' = calls /\ fds' = fds /\ bytes' = bytes /\ left' = left /\ written' = written
      /\ counted' = counted /\ parent_tid' = parent_tid /\ born' = born
      /\ pipe_failed' = pipe_failed
  BY DEF Wait, counters
<1>3. left' = [left EXCEPT ![t] = left[t]] /\ left[t] \in 0 .. EchoBytes
  BY <1>1, <1>2 DEF TypesInv
<1>4. t \in Kids => Command(t) # "wc"
  BY <1>1 DEF KidInv
<1>5. PICK l : l = locals[t]
  OBVIOUS
<1>6. l.k \in Nat \ {0} /\ l.pids \in Seq(Int)
  BY <1>1, <1>5, LocalTypes
<1>7. CASE l.k > Len(l.pids)
  <2>1. Done(t)
    BY <1>5, <1>7 DEF Wait
  <2>2. QED
    BY <1>1, <1>2, <1>4, <2>1, DoneKeeps
<1>8. ASSUME ~(l.k > Len(l.pids)), NEW x \in {"wait", "blocked"}, NEW m,
             m \in Ls, Moves(t, x, m), m.pids = l.pids, m.line = l.line, m.i = l.i,
             m.prev_read_fd = l.prev_read_fd, m.rfd = l.rfd, m.wfd = l.wfd,
             x = "blocked" => m.k = l.k /\ l.pids[l.k] # -1
      PROVE  PipelineInv'
  <2>1. /\ pc'[t] = x /\ locals'[t] = m /\ written' = written /\ left'[t] = left[t]
        /\ counted' = counted
    BY <1>1, <1>2, <1>8 DEF Moves, TypesInv
  <2>2. t \in Kids => KidInv(t)'
    <3>1. SUFFICES ASSUME t \in Kids PROVE KidInv(t)'
      OBVIOUS
    <3>2. KidInv(t)
      BY <1>1, <3>1
    <3>3. /\ m.i = locals[t].i /\ m.line = locals[t].line /\ m.pids = locals[t].pids
      BY <1>5, <1>8
    <3>4. QED
      BY <1>1, <2>1, <3>2, <3>3 DEF KidInv, nseg, Command
  <2>3. t = Sh => m.prev_read_fd = -1 /\ m.rfd = -1 /\ m.wfd = -1
    BY <1>1, <1>5, <1>8 DEF PipelineInv, LineInv
  <2>4. \A n \in DOMAIN m.pids : m.pids[n] \in {-1} \cup 2 .. born
    BY <1>1, <1>5, <1>8 DEF TaskInv
  <2>5. x = "blocked" => m.k <= Len(m.pids) /\ m.pids[m.k] # -1
    BY <1>6, <1>8
  <2>6. x \in Labels
    BY DEF Labels
  <2>7. QED
    BY <1>1, <1>4, <1>5, <1>8, <2>2, <2>3, <2>4, <2>5, <2>6, MoveKeeps
<1>9. CASE ~(l.k > Len(l.pids)) /\ (l.pids[l.k] = -1 \/ pc[l.pids[l.k]] = "finished")
  <2>1. locals' = [locals EXCEPT ![t] = [l EXCEPT !.k = l.k + 1]] /\ pc' = pc
    BY <1>1, <1>5, <1>9 DEF Wait, TypesInv
  <2>2. pc' = [pc EXCEPT ![t] = "wait"]
    BY <1>1, <2>1 DEF TypesInv
  <2>3. PICK m : m = [l EXCEPT !.k = l.k + 1]
    OBVIOUS
  <2>4. l.k + 1 \in Nat \ {0}
    BY <1>6
  <2>5. /\ m \in Ls /\ m.pids = l.pids /\ m.line = l.line /\ m.i = l.i
        /\ m.prev_read_fd = l.prev_read_fd /\ m.rfd = l.rfd /\ m.wfd = l.wfd
    BY <1>1, <1>5, <2>3, <2>4 DEF Ls
  <2>6. Moves(t, "wait", m)
    BY <1>2, <1>3, <2>1, <2>2, <2>3 DEF Moves
  <2>7. QED
    BY <1>8, <1>9, <2>5, <2>6
<1>10. CASE ~(l.k > Len(l.pids)) /\ ~(l.pids[l.k] = -1 \/ pc[l.pids[l.k]] = "finished")
  <2>1. locals' = locals /\ pc' = [pc EXCEPT ![t] = "blocked"]
    BY <1>5, <1>10 DEF Wait, Goto
  <2>2. locals' = [locals EXCEPT ![t] = l]
    BY <1>1, <1>5, <2>1 DEF TypesInv
  <2>3. Moves(t, "blocked", l)
    BY <1>2, <1>3, <2>1, <2>2 DEF Moves
  <2>4. QED
    BY <1>1, <1>5, <1>8, <1>10, <2>3
<1>11. QED
  BY <1>7, <1>9, <1>10

\* A program ends.
LEMMA ProgramKeeps ==
  ASSUME PipelineInv, NEW t \in Tasks, Program(t)
  PROVE  PipelineInv'
<1>1. /\ TypesInv /\ TasksInv /\ TaskInv(t) /\ locals[t] \in Ls
      /\ calls[t] = <<>> /\ pc[t] = "program"
  BY WhoActs DEF PipelineInv, Program, At
<1>2. t # Sh /\ t \notin Kids
  BY <1>1 DEF TasksInv, TaskInv
<1>3. left' = [left EXCEPT ![t] = left[t]] /\ left[t] \in 0 .. EchoBytes
      /\ locals' = [locals EXCEPT ![t] = locals[t]]
  BY <1>1 DEF TypesInv, Program, counters
<1>4. Moves(t, "exit", locals[t])
  BY <1>3 DEF Moves, Program, Goto, counters
<1>5. \A n \in DOMAIN locals[t].pids : locals[t].pids[n] \in {-1} \cup 2 .. born
  BY <1>1 DEF TaskInv
<1>6. "exit" \in Labels
  BY DEF Labels
<1>7. QED
  BY <1>1, <1>2, <1>4, <1>5, <1>6, MoveKeeps

\* A byte goes to the console, or nowhere.
LEMMA ByteLeaves ==
  ASSUME PipelineInv, NEW t \in Tasks, pc[t] = "write", calls[t] = <<>>, left[t] > 0,
         pc' = pc, locals' = locals, left' = [left EXCEPT ![t] = @ - 1],
         calls' = calls, fds' = fds, bytes' = bytes, written' = written,
         counted' = counted, parent_tid' = parent_tid, born' = born,
         pipe_failed' = pipe_failed
  PROVE  PipelineInv'
<1>1. /\ TypesInv /\ TaskInv(t) /\ (t \in Kids => KidInv(t)) /\ locals[t] \in Ls
      /\ (t # Sh => t \in Kids)
  BY WhoActs DEF PipelineInv
<1>2. left[t] \in 0 .. EchoBytes /\ EchoBytes \in Nat /\ written[t] \in 0 .. EchoBytes
  BY <1>1, ShellAssumption DEF TypesInv
<1>3. left[t] - 1 \in 0 .. EchoBytes /\ left' = [left EXCEPT ![t] = left[t] - 1]
      /\ left'[t] = left[t] - 1
  BY <1>1, <1>2 DEF TypesInv
<1>4. pc' = [pc EXCEPT ![t] = "write"] /\ locals' = [locals EXCEPT ![t] = locals[t]]
  BY <1>1 DEF TypesInv
<1>5. Moves(t, "write", locals[t])
  BY <1>3, <1>4 DEF Moves
<1>6. t \in Kids => KidInv(t)'
  <2>1. SUFFICES ASSUME t \in Kids PROVE KidInv(t)'
    OBVIOUS
  <2>2. KidInv(t)
    BY <1>1, <2>1
  <2>3. written[t] + left[t] <= EchoBytes
    BY <2>2 DEF KidInv
  <2>4. written'[t] + left'[t] <= EchoBytes
    BY <1>2, <1>3, <2>3
  <2>5. QED
    BY <2>2, <2>4 DEF KidInv, nseg, Command
<1>7. \A n \in DOMAIN locals[t].pids : locals[t].pids[n] \in {-1} \cup 2 .. born
  BY <1>1 DEF TaskInv
<1>8. "write" \in Labels
  BY DEF Labels
<1>9. t = Sh => /\ locals[t].prev_read_fd = -1 /\ locals[t].rfd = -1 /\ locals[t].wfd = -1
  BY DEF PipelineInv, LineInv
<1>10. QED
  BY <1>1, <1>5, <1>6, <1>7, <1>8, <1>9, MoveKeeps

\* A byte goes into pipe p.
IntoPipe(t, p) ==
  /\ pc[t] = "write" /\ calls[t] = <<>> /\ left[t] > 0 /\ fds[t][STDOUT] = W(p)
  /\ Open(R(p)) /\ HasRoom(p)
  /\ pc' = pc /\ locals' = locals /\ left' = [left EXCEPT ![t] = @ - 1]
  /\ bytes' = [bytes EXCEPT ![p] = @ + 1] /\ written' = [written EXCEPT ![t] = @ + 1]
  /\ calls' = calls /\ fds' = fds /\ counted' = counted /\ parent_tid' = parent_tid
  /\ born' = born /\ pipe_failed' = pipe_failed

\* The parts of the invariant.
LEMMA Parts ==
  ASSUME PipelineInv
  PROVE  /\ TypesInv /\ TasksInv /\ KidsInv /\ LineInv /\ ShellInv /\ HoldsInv
         /\ ApartInv /\ FlowInv
BY DEF PipelineInv

\* It is a child of the shell that writes it, and the types stay.
LEMMA IntoPipeFacts ==
  ASSUME PipelineInv, NEW t \in Tasks, NEW p \in Pipes, IntoPipe(t, p)
  PROVE  /\ TypesInv' /\ TasksInv' /\ KidsInv' /\ LineInv' /\ t \in Kids
         /\ Fd(t, 1) = W(p) /\ Kids' = Kids
         /\ \A s \in Tasks \ {t} : Same(s)
         /\ bytes'[p] = bytes[p] + 1 /\ written'[t] = written[t] + 1
         /\ \A q \in Pipes \ {p} : bytes'[q] = bytes[q]
<1>1. /\ TypesInv /\ TasksInv /\ KidsInv /\ LineInv /\ ShellInv /\ TaskInv(t)
      /\ (t # Sh => t \in Kids)
  BY WhoActs, Parts DEF IntoPipe
<1>2. Fd(t, 1) = W(p)
  BY NoCalls DEF IntoPipe, Fd, STDOUT
<1>3. t \in Kids
  <2>1. ASSUME t = Sh PROVE FALSE
    <3>1. 1 \in 0 .. 2 /\ pc[Sh] # "finished"
      BY <2>1 DEF IntoPipe
    <3>2. Fd(Sh, 1) = Console
      BY <1>1, <3>1 DEF ShellInv
    <3>3. QED
      BY <1>2, <2>1, <3>2, EndFacts
  <2>2. QED
    BY <1>1, <2>1
<1>4. /\ EchoBytes \in Nat /\ PipeSize \in Nat /\ bytes[p] \in 0 .. PipeSize
      /\ left[t] \in 0 .. EchoBytes /\ written[t] \in 0 .. EchoBytes
  BY <1>1, ShellAssumption DEF TypesInv
<1>5. written[t] + left[t] <= EchoBytes
  BY <1>1, <1>3 DEF KidsInv, KidInv, IntoPipe
<1>6. /\ left[t] - 1 \in 0 .. EchoBytes /\ written[t] + 1 \in 0 .. EchoBytes
      /\ bytes[p] + 1 \in 0 .. PipeSize /\ (written[t] + 1) + (left[t] - 1) <= EchoBytes
  BY <1>4, <1>5 DEF IntoPipe, HasRoom
<1>7. /\ left' \in [Tasks -> 0 .. EchoBytes] /\ written' \in [Tasks -> 0 .. EchoBytes]
      /\ bytes' \in [Pipes -> 0 .. PipeSize]
      /\ left'[t] = left[t] - 1 /\ written'[t] = written[t] + 1 /\ bytes'[p] = bytes[p] + 1
      /\ \A q \in Pipes \ {p} : bytes'[q] = bytes[q]
      /\ \A s \in Tasks \ {t} : left'[s] = left[s] /\ written'[s] = written[s]
  BY <1>1, <1>6 DEF TypesInv, IntoPipe
<1>8. /\ pc' = pc /\ locals' = locals /\ calls' = calls /\ fds' = fds /\ counted' = counted
      /\ parent_tid' = parent_tid /\ born' = born /\ pipe_failed' = pipe_failed
  BY DEF IntoPipe
<1>9. \A s \in Tasks \ {t} : Same(s)
  BY <1>7, <1>8 DEF Same
<1>10. TypesInv'
  BY <1>1, <1>7, <1>8, StillTyped DEF TypesInv
<1>11. Kids' = Kids
  BY <1>8 DEF Kids, nseg
<1>12. TaskInv(t)'
  <2>1. ~(t > born)
    BY <1>1 DEF TaskInv, IntoPipe
  <2>2. QED
    BY <1>1, <1>8, <1>11, <2>1 DEF TaskInv
<1>13. KidInv(t)'
  <2>1. KidInv(t)
    BY <1>1, <1>3 DEF KidsInv
  <2>2. pc[t] = "write"
    BY DEF IntoPipe
  <2>3. QED
    BY <1>6, <1>7, <1>8, <2>1, <2>2 DEF KidInv, nseg, Command
<1>14. TasksInv' /\ KidsInv'
  <2>1. t # Sh
    BY <1>3 DEF Kids
  <2>2. QED
    BY <1>1, <1>8, <1>9, <1>12, <1>13, <2>1, OneTask
<1>15. LineInv'
  BY <1>1, <1>8, SameLine
<1>16. QED
  BY <1>2, <1>3, <1>7, <1>9, <1>10, <1>11, <1>14, <1>15

\* Each that was fed is fed: the byte is in the pipe and written, or neither
\* is its pipe.
LEMMA ByteIsFed ==
  ASSUME PipelineInv, NEW t \in Tasks, NEW p \in Pipes, IntoPipe(t, p),
         NEW u \in {-1} \cup Tasks, NEW q \in Pipes, NEW n \in Nat, Fed(u, q, n)
  PROVE  Fed(u, q, n)'
<1>1. /\ t \in Kids /\ Fd(t, 1) = W(p) /\ Kids' = Kids /\ \A s \in Tasks \ {t} : Same(s)
      /\ bytes'[p] = bytes[p] + 1 /\ written'[t] = written[t] + 1
      /\ \A r \in Pipes \ {p} : bytes'[r] = bytes[r]
  BY IntoPipeFacts
<1>2. pc' = pc /\ pc[t] = "write" /\ \A s \in Kids, fd \in Fds : Fd(s, fd)' = Fd(s, fd)
  BY DEF IntoPipe, Fd
<1>3. /\ \A v \in Kids' : Fd(v, 1)' = W(q) => v = u
      /\ u # -1 /\ pc'[u] # "finished" => u \in Kids' /\ Fd(u, 1)' = W(q)
  BY <1>1, <1>2, FdNumbers DEF Fed
<1>4. TypesInv /\ bytes[q] \in Nat /\ (u # -1 => u \in Tasks /\ written[u] \in Nat)
  <2>1. TypesInv
    BY Parts
  <2>2. bytes[q] \in 0 .. PipeSize /\ (u \in Tasks => written[u] \in 0 .. EchoBytes)
    BY <2>1 DEF TypesInv
  <2>3. PipeSize \in Nat /\ EchoBytes \in Nat
    BY ShellAssumption
  <2>4. QED
    BY <2>1, <2>2, <2>3
<1>5. CASE q = p
  <2>1. u = t /\ u # -1
    BY <1>1, <1>5, ShellAssumption DEF Fed, Tasks
  <2>2. bytes[q] + n = written[u]
    BY <2>1 DEF Fed
  <2>3. bytes'[q] + n = written'[u]
    BY <1>1, <1>4, <1>5, <2>1, <2>2
  <2>4. QED
    BY <1>3, <2>1, <2>3, Zenon DEF Fed, W
<1>6. CASE q # p
  <2>1. u # t
    <3>1. ASSUME u = t PROVE FALSE
      <4>1. Fd(t, 1) = W(q)
        BY <1>2, <3>1, ShellAssumption DEF Fed, Tasks
      <4>2. QED
        BY <1>1, <1>6, <4>1, EndFacts
    <3>2. QED
      BY <3>1
  <2>2. bytes'[q] = bytes[q] /\ (u # -1 => written'[u] = written[u])
    BY <1>1, <1>6, <2>1 DEF Same
  <2>3. IF u = -1 THEN bytes'[q] = 0 /\ n = 0 ELSE bytes'[q] + n = written'[u]
    BY <2>2 DEF Fed
  <2>4. QED
    BY <1>3, <2>3, Zenon DEF Fed, W
<1>7. QED
  BY <1>5, <1>6

\* A byte that goes into a pipe is written, and is in the pipe.
LEMMA IntoPipeKeeps ==
  ASSUME PipelineInv, NEW t \in Tasks, NEW p \in Pipes, IntoPipe(t, p)
  PROVE  PipelineInv'
<1>1. /\ TypesInv /\ TasksInv /\ KidsInv /\ LineInv /\ ShellInv /\ HoldsInv
      /\ ApartInv /\ FlowInv
  BY Parts
<1>2. /\ TypesInv' /\ TasksInv' /\ KidsInv' /\ LineInv' /\ t \in Kids
      /\ Fd(t, 1) = W(p) /\ Kids' = Kids
      /\ \A s \in Tasks \ {t} : Same(s)
      /\ bytes'[p] = bytes[p] + 1 /\ written'[t] = written[t] + 1
      /\ \A q \in Pipes \ {p} : bytes'[q] = bytes[q]
  BY IntoPipeFacts
<1>3. /\ pc' = pc /\ locals' = locals /\ counted' = counted /\ pipe_failed' = pipe_failed
      /\ pc[t] = "write"
      /\ \A s, fd : Fd(s, fd)' = Fd(s, fd)
  BY DEF IntoPipe, Fd
<1>4. EndsKept
  <2>1. ASSUME NEW q \in Pipes, locals[Sh].rfd # -1, Fd(Sh, locals[Sh].rfd) = R(q)
        PROVE  q # p
    <3>1. pc[Sh] # "finished"
      BY <1>1, <2>1 DEF LineInv
    <3>2. PICK r \in Pipes : Fd(Sh, locals[Sh].rfd) = R(r) /\ \A s \in Kids : Fd(s, 1) # W(r)
      BY <1>1, <2>1, <3>1 DEF ShellInv
    <3>3. r = q
      BY <2>1, <3>2, EndFacts
    <3>4. QED
      BY <1>2, <3>2, <3>3
  <2>2. QED
    BY <1>2, <1>3, <2>1 DEF EndsKept
<1>5. ShellInv' /\ HoldsInv' /\ ApartInv'
  BY <1>1, <1>2, <1>4, Steady
<1>6. ASSUME NEW s \in Kids, Command(s) = "wc" PROVE Counts(s)'
  <2>1. Counts(s) /\ s \in Tasks /\ counted[s] \in Nat
    BY <1>1, <1>6, ShellAssumption DEF FlowInv, Kids, TypesInv
  <2>2. PICK u, n, m : u = Upstream(s) /\ n = counted[s] /\ m = locals[s].i
    OBVIOUS
  <2>3. Upstream(s)' = u /\ counted'[s] = n /\ locals'[s].i = m
    BY <1>3, <2>2 DEF Upstream
  <2>4. m = 1 => pc'[s] \in {"run", "read"} /\ n = 0
    BY <1>3, <2>1, <2>2 DEF Counts
  <2>5. ASSUME NEW q \in Pipes, Fd(s, 0)' = R(q) PROVE Fed(u, q, n)'
    <3>1. Fd(s, 0) = R(q)
      BY <1>3, <2>5
    <3>2. Fed(u, q, n)
      BY <2>1, <2>2, <3>1, Zenon DEF Counts
    <3>3. m # 1
      BY <1>1, <2>2, <3>1, EndFacts DEF HoldsInv, KidHolds
    <3>4. u \in {-1} \cup Tasks
      BY <1>1, <1>6, <2>2, <3>3, UpstreamTask
    <3>5. QED
      BY <2>1, <2>2, <3>2, <3>4, ByteIsFed
  <2>6. ASSUME pc'[s] \in {"write", "exit"}
        PROVE  IF u = -1 THEN n = 0 ELSE pc'[u] = "finished" /\ n = written'[u]
    <3>1. IF u = -1 THEN n = 0 ELSE pc[u] = "finished" /\ n = written[u]
      BY <1>3, <2>1, <2>2, <2>6 DEF Counts
    <3>2. m # 1
      BY <1>3, <2>4, <2>6
    <3>3. u \in {-1} \cup Tasks
      BY <1>1, <1>6, <2>2, <3>2, UpstreamTask
    <3>4. u # -1 => written'[u] = written[u]
      BY <1>2, <1>3, <3>1, <3>3 DEF Same
    <3>5. QED
      BY <1>3, <3>1, <3>4
  <2>7. QED
    BY <2>3, <2>4, <2>5, <2>6, Zenon DEF Counts, R
<1>7. Unread'
  <2>1. CASE locals[Sh].prev_read_fd = -1
    BY <1>3, <2>1 DEF Unread
  <2>2. CASE locals[Sh].prev_read_fd # -1
    <3>1. PICK d, u : d = locals[Sh].prev_read_fd /\ u = locals[Sh].pids[locals[Sh].i - 1]
      OBVIOUS
    <3>2. u \in {-1} \cup Tasks
      BY <1>1, <2>2, <3>1, LastForked
    <3>3. ASSUME NEW q \in Pipes, Fd(Sh, d)' = R(q) PROVE Fed(u, q, 0)'
      <4>1. Fd(Sh, d) = R(q)
        BY <1>3, <3>3
      <4>2. Fed(u, q, 0)
        BY <1>1, <2>2, <3>1, <4>1, Zenon DEF FlowInv, Unread
      <4>3. QED
        BY <3>2, <4>2, ByteIsFed
    <3>4. locals'[Sh].prev_read_fd = d /\ locals'[Sh].pids[locals'[Sh].i - 1] = u
      BY <1>3, <3>1
    <3>5. QED
      BY <3>3, <3>4, Zenon DEF Unread, R
  <2>3. QED
    BY <2>1, <2>2
<1>8. FlowInv'
  <2>1. \A s \in Kids' : Command(s)' = Command(s)
    BY <1>3 DEF Command
  <2>2. QED
    BY <1>2, <1>6, <1>7, <2>1, Zenon DEF FlowInv
<1>9. QED
  BY <1>2, <1>5, <1>8 DEF PipelineInv

\* A command writes, or is done with it.
LEMMA WriteKeeps ==
  ASSUME PipelineInv, NEW t \in Tasks, Write(t)
  PROVE  PipelineInv'
<1>1. /\ pc[t] = "write" /\ calls[t] = <<>>
      /\ calls' = calls /\ fds' = fds /\ counted' = counted /\ parent_tid' = parent_tid
      /\ born' = born /\ pipe_failed' = pipe_failed
  BY DEF Write, At
<1>2. CASE left[t] = 0 /\ Done(t) /\ UNCHANGED <<bytes, left, written>>
  BY <1>1, <1>2, DoneKeeps
<1>3. CASE /\ left[t] > 0 /\ UNCHANGED <<pc, locals, bytes, written>>
           /\ left' = [left EXCEPT ![t] = @ - 1]
  BY <1>1, <1>3, ByteLeaves
<1>4. ASSUME left[t] > 0, UNCHANGED <<pc, locals>>, left' = [left EXCEPT ![t] = @ - 1],
             NEW p \in Pipes, fds[t][STDOUT] = W(p), Open(R(p)), HasRoom(p),
             bytes' = [bytes EXCEPT ![p] = @ + 1], written' = [written EXCEPT ![t] = @ + 1]
      PROVE  PipelineInv'
  <2>1. IntoPipe(t, p)
    BY <1>1, <1>4 DEF IntoPipe
  <2>2. QED
    BY <2>1, IntoPipeKeeps
<1>5. QED
  BY <1>2, <1>3, <1>4, Zenon DEF Write

-----------------------------------------------------------------------------
(* The other calls and commands.                                           *)

\* It is a child that reads, as wc, and its pipe is not a new one of the
\* shell, nor does another child read it.
LEMMA ReadFacts ==
  ASSUME PipelineInv, NEW t \in Tasks, pc[t] = "read", calls[t] = <<>>,
         NEW p \in Pipes, fds[t][STDIN] = R(p)
  PROVE  /\ t \in Kids /\ Command(t) = "wc" /\ Fd(t, 0) = R(p) /\ locals[t].i # 1
         /\ Upstream(t) \in {-1} \cup Tasks /\ Fed(Upstream(t), p, counted[t])
         /\ \A s \in Kids : s # t => Fd(s, 0) # R(p)
         /\ \A fd \in {locals[Sh].prev_read_fd, locals[Sh].rfd} \ {-1} : Fd(Sh, fd) # R(p)
<1>1. /\ TypesInv /\ TasksInv /\ KidsInv /\ ShellInv /\ HoldsInv /\ ApartInv /\ FlowInv
      /\ (t # Sh => t \in Kids)
  BY WhoActs, Parts
<1>2. Fd(t, 0) = R(p)
  BY NoCalls DEF Fd, STDIN
<1>3. t \in Kids
  <2>1. ASSUME t = Sh PROVE FALSE
    <3>1. 0 \in 0 .. 2 /\ pc[Sh] # "finished"
      BY <2>1
    <3>2. Fd(Sh, 0) = Console
      BY <1>1, <3>1 DEF ShellInv
    <3>3. QED
      BY <1>2, <2>1, <3>2, EndFacts
  <2>2. QED
    BY <1>1, <2>1
<1>4. Command(t) = "wc"
  BY <1>1, <1>3 DEF KidsInv, KidInv
<1>5. locals[t].i # 1
  BY <1>1, <1>2, <1>3, EndFacts DEF HoldsInv, KidHolds
<1>6. Fed(Upstream(t), p, counted[t])
  BY <1>1, <1>2, <1>3, <1>4, Zenon DEF FlowInv, Counts
<1>7. ASSUME NEW s \in Kids, s # t PROVE Fd(s, 0) # R(p)
  <2>1. Fd(s, 0) = Fd(t, 0) => Fd(s, 0) = Console
    BY <1>1, <1>3, <1>7, Zenon DEF ApartInv
  <2>2. QED
    BY <1>2, <2>1, EndFacts
<1>8. \A fd \in {locals[Sh].prev_read_fd, locals[Sh].rfd} \ {-1} : Fd(Sh, fd) # R(p)
  BY <1>1, <1>2, <1>3 DEF ApartInv
<1>9. Upstream(t) \in {-1} \cup Tasks
  BY <1>1, <1>3, <1>4, <1>5, UpstreamTask
<1>10. QED
  BY <1>2, <1>3, <1>4, <1>5, <1>6, <1>7, <1>8, <1>9

\* All that is in pipe p is read, by t; or t sees its end, and reports.
OutOfPipe(t, p) ==
  /\ pc[t] = "read" /\ calls[t] = <<>> /\ fds[t][STDIN] = R(p)
  /\ calls' = calls /\ fds' = fds /\ locals' = locals /\ written' = written
  /\ parent_tid' = parent_tid /\ born' = born /\ pipe_failed' = pipe_failed

Takes(t, p) ==
  /\ bytes[p] > 0 /\ pc' = pc /\ left' = left
  /\ counted' = [counted EXCEPT ![t] = @ + bytes[p]] /\ bytes' = [bytes EXCEPT ![p] = 0]

SeesEnd(t, p) ==
  /\ bytes[p] = 0 /\ ~Open(W(p)) /\ pc' = [pc EXCEPT ![t] = "write"]
  /\ left' = [left EXCEPT ![t] = 1] /\ bytes' = bytes /\ counted' = counted

\* Either way, who holds what stays, and only t counts.
LEMMA OutOfPipeFrame ==
  ASSUME PipelineInv, NEW t \in Tasks, NEW p \in Pipes, OutOfPipe(t, p),
         TypesInv', TaskInv(t)', KidInv(t)', pc'[t] # "finished",
         \A s \in Tasks \ {t} : Same(s), \A q \in Pipes \ {p} : bytes'[q] = bytes[q],
         Counts(t)'
  PROVE  PipelineInv'
<1>1. /\ TypesInv /\ TasksInv /\ KidsInv /\ LineInv /\ ShellInv /\ HoldsInv
      /\ ApartInv /\ FlowInv
  BY Parts
<1>2. /\ t \in Kids /\ Command(t) = "wc" /\ Fd(t, 0) = R(p)
      /\ \A s \in Kids : s # t => Fd(s, 0) # R(p)
      /\ \A fd \in {locals[Sh].prev_read_fd, locals[Sh].rfd} \ {-1} : Fd(Sh, fd) # R(p)
  BY ReadFacts DEF OutOfPipe
<1>3. /\ \A s, fd : Fd(s, fd)' = Fd(s, fd)
      /\ locals' = locals /\ written' = written /\ born' = born /\ pipe_failed' = pipe_failed
      /\ Kids' = Kids /\ t # Sh /\ pc[t] # "finished"
  BY <1>2 DEF OutOfPipe, Fd, Kids, nseg
<1>4. TasksInv' /\ KidsInv'
  BY <1>1, <1>3, OneTask
<1>5. pc'[Sh] = pc[Sh]
  BY <1>3, ShellIsTask DEF Same
<1>6. LineInv'
  BY <1>1, <1>3, <1>5, SameLine
<1>7. EndsKept
  <2>1. \A q \in Pipes : locals[Sh].rfd # -1 /\ Fd(Sh, locals[Sh].rfd) = R(q) =>
          bytes'[q] = bytes[q]
    BY <1>2
  <2>2. QED
    BY <1>3, <1>5, <2>1 DEF EndsKept
<1>8. ShellInv' /\ HoldsInv' /\ ApartInv'
  BY <1>1, <1>6, <1>7, Steady
<1>9. WritersKept
  <2>1. ASSUME NEW s \in Tasks PROVE pc[s] = "finished" => pc'[s] = "finished"
    BY <1>3 DEF Same
  <2>2. QED
    BY <1>3, <2>1 DEF WritersKept
<1>10. ShellKept
  BY <1>2, <1>3 DEF ShellKept
<1>11. ASSUME NEW s \in Kids, s # t PROVE ReaderKept(s)
  <2>1. s \in Tasks /\ Same(s)
    BY <1>11 DEF Kids
  <2>2. \A q \in Pipes : Fd(s, 0) = R(q) => bytes'[q] = bytes[q]
    BY <1>2, <1>11
  <2>3. QED
    BY <1>3, <2>1, <2>2 DEF ReaderKept, Same
<1>12. ASSUME NEW s \in Kids', Command(s)' = "wc" PROVE Counts(s)'
  <2>1. s \in Kids /\ Command(s) = "wc"
    BY <1>3, <1>12 DEF Command
  <2>2. CASE s = t
    BY <2>2
  <2>3. CASE s # t
    <3>1. Counts(s)
      BY <1>1, <2>1 DEF FlowInv
    <3>2. QED
      BY <1>1, <1>9, <1>11, <2>1, <2>3, <3>1, StillCounts
  <2>4. QED
    BY <2>2, <2>3
<1>13. Unread'
  BY <1>1, <1>9, <1>10, StillUnread DEF FlowInv
<1>14. FlowInv'
  BY <1>12, <1>13, Zenon DEF FlowInv
<1>15. QED
  BY <1>4, <1>6, <1>8, <1>14 DEF PipelineInv

\* A read that returns bytes.
LEMMA TakesKeeps ==
  ASSUME PipelineInv, NEW t \in Tasks, NEW p \in Pipes, OutOfPipe(t, p), Takes(t, p)
  PROVE  PipelineInv'
<1>1. /\ TypesInv /\ TaskInv(t) /\ pc[t] = "read" /\ calls[t] = <<>>
  BY WhoActs, Parts DEF OutOfPipe
<1>2. /\ t \in Kids /\ Fd(t, 0) = R(p) /\ locals[t].i # 1
      /\ Upstream(t) \in {-1} \cup Tasks /\ Fed(Upstream(t), p, counted[t])
  BY ReadFacts DEF OutOfPipe
<1>3. KidInv(t)
  BY <1>2, WhoActs
<1>4. PICK u : u = Upstream(t)
  OBVIOUS
<1>5. /\ bytes[p] \in 0 .. PipeSize /\ counted[t] \in 0 .. EchoBytes
      /\ EchoBytes \in Nat /\ PipeSize \in Nat
  BY <1>1, ShellAssumption DEF TypesInv
<1>6. u # -1 /\ u \in Tasks /\ bytes[p] + counted[t] = written[u]
  BY <1>2, <1>4, <1>5 DEF Fed, Takes
<1>7. counted[t] + bytes[p] \in 0 .. EchoBytes /\ counted[t] + bytes[p] = written[u]
  <2>1. written[u] \in 0 .. EchoBytes
    BY <1>1, <1>6 DEF TypesInv
  <2>2. QED
    BY <1>5, <1>6, <2>1
<1>8. /\ counted' \in [Tasks -> 0 .. EchoBytes] /\ bytes' \in [Pipes -> 0 .. PipeSize]
      /\ counted'[t] = counted[t] + bytes[p] /\ bytes'[p] = 0
      /\ \A s \in Tasks \ {t} : counted'[s] = counted[s]
      /\ \A q \in Pipes \ {p} : bytes'[q] = bytes[q]
  <2>1. PICK m : m = counted[t] + bytes[p]
    OBVIOUS
  <2>2. m \in 0 .. EchoBytes /\ 0 \in 0 .. PipeSize
    BY <1>5, <1>7, <2>1
  <2>3. /\ counted \in [Tasks -> 0 .. EchoBytes] /\ bytes \in [Pipes -> 0 .. PipeSize]
        /\ counted' = [counted EXCEPT ![t] = m] /\ bytes' = [bytes EXCEPT ![p] = 0]
    BY <1>1, <2>1 DEF TypesInv, Takes
  <2>4. QED
    BY <2>1, <2>2, <2>3
<1>9. /\ pc' = pc /\ locals' = locals /\ calls' = calls /\ fds' = fds /\ left' = left
      /\ written' = written /\ parent_tid' = parent_tid /\ born' = born
      /\ pipe_failed' = pipe_failed
  BY DEF OutOfPipe, Takes
<1>10. TypesInv'
  BY <1>1, <1>8, <1>9, StillTyped DEF TypesInv
<1>11. \A s \in Tasks \ {t} : Same(s)
  BY <1>8, <1>9 DEF Same
<1>12. Kids' = Kids
  BY <1>9 DEF Kids, nseg
<1>13. TaskInv(t)'
  <2>1. ~(t > born)
    BY <1>1 DEF TaskInv
  <2>2. QED
    BY <1>1, <1>9, <1>12, <2>1 DEF TaskInv
<1>14. KidInv(t)'
  BY <1>1, <1>3, <1>9 DEF KidInv, nseg, Command
<1>15. Counts(t)'
  <2>1. Upstream(t)' = u /\ locals'[t].i # 1 /\ pc'[t] = "read"
    BY <1>1, <1>2, <1>4, <1>9 DEF Upstream
  <2>2. PICK n : n = counted[t] + bytes[p]
    OBVIOUS
  <2>3. Fed(u, p, n)'
    <3>1. bytes'[p] + n = written'[u]
      BY <1>7, <1>8, <1>9, <2>2
    <3>2. /\ \A v \in Kids' : Fd(v, 1)' = W(p) => v = u
          /\ u # -1 /\ pc'[u] # "finished" => u \in Kids' /\ Fd(u, 1)' = W(p)
      BY <1>2, <1>4, <1>9, <1>12 DEF Fed, Fd
    <3>3. QED
      BY <1>6, <3>1, <3>2, Zenon DEF Fed, W
  <2>4. \A q \in Pipes : Fd(t, 0)' = R(q) => q = p
    BY <1>2, <1>9, EndFacts DEF Fd
  <2>5. counted'[t] = n
    BY <1>8, <2>2
  <2>6. \A q \in Pipes : Fd(t, 0)' = R(q) => Fed(u, q, n)'
    BY <2>3, <2>4
  <2>7. pc'[t] \notin {"write", "exit"}
    BY <2>1
  <2>8. QED
    BY <2>1, <2>5, <2>6, <2>7, Zenon DEF Counts, R
<1>16. pc'[t] # "finished"
  BY <1>1, <1>9
<1>17. QED
  BY <1>8, <1>10, <1>11, <1>13, <1>14, <1>15, <1>16, OutOfPipeFrame

\* A read that sees the end: the command before has ended, or never was, and
\* all that it wrote is counted.
LEMMA SeesEndKeeps ==
  ASSUME PipelineInv, NEW t \in Tasks, NEW p \in Pipes, OutOfPipe(t, p), SeesEnd(t, p)
  PROVE  PipelineInv'
<1>1. /\ TypesInv /\ TasksInv /\ TaskInv(t) /\ pc[t] = "read" /\ calls[t] = <<>>
  BY WhoActs, Parts DEF OutOfPipe
<1>2. /\ t \in Kids /\ Command(t) = "wc" /\ Fd(t, 0) = R(p) /\ locals[t].i # 1
      /\ Upstream(t) \in {-1} \cup Tasks /\ Fed(Upstream(t), p, counted[t])
  BY ReadFacts DEF OutOfPipe
<1>3. KidInv(t)
  BY <1>2, WhoActs
<1>4. PICK u : u = Upstream(t)
  OBVIOUS
<1>5. 1 \in 0 .. EchoBytes /\ EchoBytes \in Nat /\ counted[t] \in 0 .. EchoBytes /\ bytes[p] = 0
  BY <1>1, ShellAssumption DEF TypesInv, SeesEnd
<1>6. /\ calls' = calls /\ fds' = fds /\ locals' = locals /\ written' = written
      /\ parent_tid' = parent_tid /\ born' = born /\ pipe_failed' = pipe_failed
      /\ bytes' = bytes /\ counted' = counted
  BY DEF OutOfPipe, SeesEnd
<1>7. /\ pc' \in [Tasks -> Labels] /\ left' \in [Tasks -> 0 .. EchoBytes]
      /\ pc'[t] = "write" /\ left'[t] = 1
      /\ \A s \in Tasks \ {t} : pc'[s] = pc[s] /\ left'[s] = left[s]
  BY <1>1, <1>5 DEF TypesInv, SeesEnd, Labels
<1>8. TypesInv'
  BY <1>1, <1>6, <1>7, StillTyped DEF TypesInv
<1>9. \A s \in Tasks \ {t} : Same(s)
  BY <1>6, <1>7 DEF Same
<1>10. Kids' = Kids
  BY <1>6 DEF Kids, nseg
<1>11. TaskInv(t)'
  <2>1. ~(t > born)
    BY <1>1 DEF TaskInv
  <2>2. QED
    BY <1>1, <1>2, <1>6, <1>7, <1>10, <2>1 DEF TaskInv
<1>12. KidInv(t)'
  <2>1. written[t] = 0
    BY <1>1, <1>3 DEF KidInv
  <2>2. written'[t] + left'[t] <= EchoBytes
    BY <1>5, <1>6, <1>7, <2>1
  <2>3. QED
    BY <1>1, <1>2, <1>3, <1>6, <1>7, <2>2 DEF KidInv, nseg, Command
<1>13. u # -1 => pc[u] = "finished"
  <2>1. SUFFICES ASSUME u # -1, pc[u] # "finished" PROVE FALSE
    OBVIOUS
  <2>2. u \in Kids /\ u \in Tasks /\ Fd(u, 1) = W(p)
    BY <1>2, <1>4, <2>1 DEF Fed
  <2>3. fds[u] \in [Fds -> Ends] /\ calls[u] \in Seq(Calls) /\ InOrder(calls[u])
    BY <1>1, <2>2 DEF TypesInv, TasksInv, TaskInv
  <2>4. Fd(u, 1) = NoFile \/ \E x \in Fds : Fd(u, 1) = fds[u][x]
    BY <2>3, BecomesHeld, FdNumbers DEF Fd
  <2>5. PICK x \in Fds : fds[u][x] = W(p)
    BY <2>2, <2>4, EndFacts
  <2>6. Open(W(p))
    BY <2>2, <2>5 DEF Open
  <2>7. QED
    BY <2>6 DEF SeesEnd
<1>14. IF u = -1 THEN counted[t] = 0 ELSE pc[u] = "finished" /\ counted[t] = written[u]
  <2>1. IF u = -1 THEN counted[t] = 0 ELSE bytes[p] + counted[t] = written[u]
    BY <1>2, <1>4 DEF Fed
  <2>2. bytes[p] + counted[t] = counted[t]
    BY <1>5
  <2>3. QED
    BY <1>13, <2>1, <2>2
<1>15. Counts(t)'
  <2>1. /\ Upstream(t)' = u /\ locals'[t].i # 1 /\ counted'[t] = counted[t]
        /\ Fd(t, 0)' = R(p)
    BY <1>2, <1>4, <1>6 DEF Upstream, Fd
  <2>2. PICK n : n = counted[t]
    OBVIOUS
  <2>3. Fed(u, p, n)'
    <3>1. u # t
      BY <1>1, <1>2, <1>13, ShellAssumption DEF Tasks
    <3>2. u # -1 => pc'[u] = "finished"
      BY <1>2, <1>4, <1>7, <1>13, <3>1
    <3>3. /\ IF u = -1 THEN bytes'[p] = 0 /\ n = 0 ELSE bytes'[p] + n = written'[u]
          /\ \A v \in Kids' : Fd(v, 1)' = W(p) => v = u
      BY <1>2, <1>4, <1>6, <1>10, <2>2 DEF Fed, Fd
    <3>4. QED
      BY <3>2, <3>3, Zenon DEF Fed, W
  <2>4. \A q \in Pipes : Fd(t, 0)' = R(q) => Fed(u, q, n)'
    BY <2>1, <2>3, EndFacts
  <2>5. IF u = -1 THEN n = 0 ELSE pc'[u] = "finished" /\ n = written'[u]
    <3>1. u # -1 => u # t /\ u \in Tasks
      BY <1>1, <1>2, <1>4, <1>13
    <3>2. u # -1 => pc'[u] = "finished"
      BY <1>7, <1>13, <3>1
    <3>3. QED
      BY <1>6, <1>14, <2>2, <3>2
  <2>6. QED
    BY <2>1, <2>2, <2>4, <2>5, Zenon DEF Counts, R
<1>16. pc'[t] # "finished" /\ \A q \in Pipes \ {p} : bytes'[q] = bytes[q]
  BY <1>6, <1>7
<1>17. QED
  BY <1>8, <1>9, <1>11, <1>12, <1>15, <1>16, OutOfPipeFrame

\* wc reads.
LEMMA ReadKeeps ==
  ASSUME PipelineInv, NEW t \in Tasks, Read(t)
  PROVE  PipelineInv'
<1>1. PICK p \in Pipes :
        /\ fds[t][STDIN] = R(p)
        /\ \/ /\ bytes[p] > 0 /\ UNCHANGED <<pc, left>>
              /\ counted' = [counted EXCEPT ![t] = @ + bytes[p]]
              /\ bytes' = [bytes EXCEPT ![p] = 0]
           \/ /\ bytes[p] = 0 /\ ~Open(W(p)) /\ Goto(t, "write")
              /\ left' = [left EXCEPT ![t] = 1]
              /\ UNCHANGED <<bytes, counted>>
  BY DEF Read
<1>2. OutOfPipe(t, p)
  BY <1>1 DEF Read, OutOfPipe, At
<1>3. Takes(t, p) \/ SeesEnd(t, p)
  BY <1>1 DEF Takes, SeesEnd, Goto
<1>4. QED
  BY <1>2, <1>3, TakesKeeps, SeesEndKeeps

\* A task starts a command, and goes to label x with n bytes to write.
LEMMA StartsKeeps ==
  ASSUME PipelineInv, NEW t \in Tasks, pc[t] = "run", calls[t] = <<>>,
         NEW x \in {"write", "read"}, NEW n \in 0 .. EchoBytes,
         x = "write" => Command(t) = "echo" /\ n = EchoBytes,
         x = "read" => Command(t) = "wc",
         pc' = [pc EXCEPT ![t] = x], left' = [left EXCEPT ![t] = n],
         calls' = calls, fds' = fds, bytes' = bytes, locals' = locals, written' = written,
         counted' = counted, parent_tid' = parent_tid, born' = born,
         pipe_failed' = pipe_failed
  PROVE  PipelineInv'
<1>1. /\ TypesInv /\ TaskInv(t) /\ (t \in Kids => KidInv(t)) /\ locals[t] \in Ls
      /\ (t # Sh => t \in Kids)
  BY WhoActs, Parts
<1>2. locals' = [locals EXCEPT ![t] = locals[t]]
  BY <1>1 DEF TypesInv
<1>3. Moves(t, x, locals[t])
  BY <1>2 DEF Moves
<1>4. x \in Labels
  BY DEF Labels
<1>5. pc'[t] = x /\ left'[t] = n
  BY <1>1 DEF TypesInv
<1>6. t \in Kids => KidInv(t)'
  <2>1. SUFFICES ASSUME t \in Kids PROVE KidInv(t)'
    OBVIOUS
  <2>2. KidInv(t) /\ written[t] = 0 /\ counted[t] = 0
    BY <1>1, <2>1 DEF KidInv
  <2>3. x = "write" => written'[t] + left'[t] <= EchoBytes
    BY <1>5, <2>2, ShellAssumption
  <2>4. QED
    BY <1>5, <2>2, <2>3 DEF KidInv, nseg, Command
<1>7. \A m \in DOMAIN locals[t].pids : locals[t].pids[m] \in {-1} \cup 2 .. born
  BY <1>1 DEF TaskInv
<1>8. t = Sh => /\ locals[t].prev_read_fd = -1 /\ locals[t].rfd = -1 /\ locals[t].wfd = -1
  BY Parts DEF LineInv
<1>9. QED
  BY <1>1, <1>3, <1>4, <1>6, <1>7, <1>8, MoveKeeps

\* SYS_EXEC: the program has the console and is no child of a pipeline.
Execs(t) ==
  /\ pc[t] = "run" /\ calls[t] = <<>> /\ Command(t) \in {"program", "exit"} /\ born < MaxTid
  /\ born' = born + 1
  /\ fds' = [fds EXCEPT ![born'] = OnlyConsole]
  /\ locals' = [locals EXCEPT ![t].pids = <<born'>>, ![t].k = 1]
  /\ parent_tid' = [parent_tid EXCEPT ![born'] = t]
  /\ pc' = [pc EXCEPT ![t] = "wait", ![born'] = "program"]
  /\ calls' = calls /\ left' = left /\ bytes' = bytes /\ written' = written
  /\ counted' = counted /\ pipe_failed' = pipe_failed

\* What it does to the new task n, to t and to the others.
LEMMA ExecFacts ==
  ASSUME PipelineInv, NEW t \in Tasks, Execs(t), NEW n, n = born + 1
  PROVE  /\ n \in Tasks /\ n # t /\ n # Sh /\ n > born /\ born' = n /\ TypesInv'
         /\ pc'[n] = "program" /\ fds'[n] = OnlyConsole /\ locals'[n] = locals[n]
         /\ pc'[t] = "wait" /\ fds'[t] = fds[t] /\ locals'[t].pids = <<n>>
         /\ locals'[t].k = 1 /\ locals'[t].i = locals[t].i /\ locals'[t].line = locals[t].line
         /\ locals'[t].prev_read_fd = locals[t].prev_read_fd
         /\ locals'[t].rfd = locals[t].rfd /\ locals'[t].wfd = locals[t].wfd
         /\ \A s \in Tasks \ {t, n} : Same(s)
<1>1. /\ TypesInv /\ TasksInv /\ TaskInv(t) /\ t \in Nat /\ born \in Nat
      /\ locals[t] \in Ls
  BY WhoActs, Parts
<1>2. n \in Tasks /\ n > born /\ born' = n /\ n \in Int
  BY <1>1, ShellAssumption DEF Execs, Tasks
<1>3. t <= born /\ Sh <= born
  <2>1. ~(t > born)
    BY <1>1 DEF TaskInv, Execs
  <2>2. Sh <= born
    BY <1>1 DEF TypesInv, Tasks, Sh
  <2>3. QED
    BY <1>1, <2>1, <2>2
<1>4. n # t /\ n # Sh
  BY <1>1, <1>2, <1>3 DEF Sh
<1>5. PICK l : l = [locals[t] EXCEPT !.pids = <<n>>, !.k = 1]
  OBVIOUS
<1>6. /\ l \in Ls /\ l.pids = <<n>> /\ l.k = 1 /\ l.i = locals[t].i
      /\ l.line = locals[t].line /\ l.prev_read_fd = locals[t].prev_read_fd
      /\ l.rfd = locals[t].rfd /\ l.wfd = locals[t].wfd
  <2>1. <<n>> \in Seq(Int) /\ 1 \in Nat \ {0}
    BY <1>2
  <2>2. QED
    BY <1>1, <1>5, <2>1 DEF Ls
<1>7. locals' = [locals EXCEPT ![t] = l]
  BY <1>1, <1>2, <1>5 DEF Execs, TypesInv
<1>8. OnlyConsole \in [Fds -> Ends]
  BY EndFacts DEF OnlyConsole
<1>9. /\ pc' \in [Tasks -> Labels] /\ pc'[t] = "wait" /\ pc'[n] = "program"
      /\ \A s \in Tasks \ {t, n} : pc'[s] = pc[s]
  BY <1>1, <1>2, <1>4 DEF TypesInv, Execs, Labels
<1>10. /\ fds' \in [Tasks -> [Fds -> Ends]] /\ fds'[n] = OnlyConsole
       /\ \A s \in Tasks \ {n} : fds'[s] = fds[s]
  BY <1>1, <1>2, <1>8 DEF TypesInv, Execs
<1>11. /\ locals' \in [Tasks -> Ls] /\ locals'[t] = l
       /\ \A s \in Tasks \ {t} : locals'[s] = locals[s]
  BY <1>1, <1>6, <1>7 DEF TypesInv
<1>12. parent_tid' \in [Tasks -> -1 .. MaxTid]
  <2>1. t \in -1 .. MaxTid
    BY ShellAssumption DEF Tasks
  <2>2. QED
    BY <1>1, <1>2, <2>1 DEF TypesInv, Execs
<1>13. TypesInv'
  BY <1>1, <1>2, <1>9, <1>10, <1>11, <1>12, StillTyped DEF Execs
<1>14. \A s \in Tasks \ {t, n} : Same(s)
  BY <1>9, <1>10, <1>11 DEF Same, Execs
<1>15. QED
  BY <1>2, <1>4, <1>6, <1>9, <1>10, <1>11, <1>13, <1>14

\* It keeps the invariant.
LEMMA ExecKeeps ==
  ASSUME PipelineInv, NEW t \in Tasks, Execs(t)
  PROVE  PipelineInv'
<1>1. /\ TypesInv /\ TasksInv /\ KidsInv /\ LineInv /\ ShellInv /\ HoldsInv
      /\ ApartInv /\ FlowInv /\ TaskInv(t) /\ (t # Sh => t \in Kids) /\ born \in Nat
  BY WhoActs, Parts DEF Execs
<1>2. PICK n : n = born + 1
  OBVIOUS
<1>3. /\ n \in Tasks /\ n # t /\ n # Sh /\ n > born /\ born' = n /\ TypesInv'
      /\ pc'[n] = "program" /\ fds'[n] = OnlyConsole /\ locals'[n] = locals[n]
      /\ pc'[t] = "wait" /\ fds'[t] = fds[t] /\ locals'[t].pids = <<n>>
      /\ locals'[t].k = 1 /\ locals'[t].i = locals[t].i /\ locals'[t].line = locals[t].line
      /\ locals'[t].prev_read_fd = locals[t].prev_read_fd
      /\ locals'[t].rfd = locals[t].rfd /\ locals'[t].wfd = locals[t].wfd
      /\ \A s \in Tasks \ {t, n} : Same(s)
  BY <1>2, ExecFacts
<1>4. /\ calls' = calls /\ left' = left /\ bytes' = bytes /\ written' = written
      /\ counted' = counted /\ pipe_failed' = pipe_failed
      /\ pc[t] = "run" /\ calls[t] = <<>> /\ Command(t) \in {"program", "exit"}
  BY DEF Execs
<1>5. TaskInv(n) /\ locals[n] = NoLocals /\ pc[n] = "none"
  BY <1>1, <1>3 DEF TasksInv, TaskInv
<1>6. n \notin Kids /\ ~(n \in Kids)'
  <2>1. Len(<<>>) = 0
    OBVIOUS
  <2>2. nseg(n) = 0 /\ nseg(n)' = 0
    BY <1>3, <1>5, <2>1, NoLocalsFacts DEF nseg
  <2>3. QED
    BY <2>2 DEF Kids
<1>7. Kids' = Kids
  <2>1. ASSUME NEW s \in Tasks PROVE s \in Kids' <=> s \in Kids
    BY <1>3, <1>6 DEF Kids, nseg, Same
  <2>2. QED
    BY <2>1 DEF Kids
<1>8. TaskInv(n)'
  <2>1. calls[n] = <<>> /\ InOrder(calls[n])
    BY <1>3, <1>5, <1>6 DEF TaskInv
  <2>2. ~(n > born')
    BY <1>1, <1>2, <1>3
  <2>3. DOMAIN locals'[n].pids = {}
    BY <1>3, <1>5, NoLocalsFacts
  <2>4. QED
    BY <1>3, <1>4, <1>6, <2>1, <2>2, <2>3 DEF TaskInv
<1>9. TaskInv(t)'
  <2>1. ~(t > born) /\ ~(t > born')
    <3>1. ~(t > born)
      BY <1>1, <1>4 DEF TaskInv
    <3>2. t \in Int
      BY DEF Tasks
    <3>3. QED
      BY <1>1, <1>2, <1>3, <3>1, <3>2
  <2>2. \A m \in DOMAIN locals'[t].pids : locals'[t].pids[m] \in {-1} \cup 2 .. born'
    <3>1. DOMAIN <<n>> = 1 .. 1 /\ <<n>>[1] = n
      OBVIOUS
    <3>2. n \in 2 .. n
      BY <1>2, <1>3 DEF Tasks, Sh
    <3>3. QED
      BY <1>3, <3>1, <3>2
  <2>3. (t \in Kids)' <=> t \in Kids
    BY <1>7
  <2>4. InOrder(calls[t])
    BY <1>1 DEF TaskInv
  <2>5. QED
    BY <1>1, <1>3, <1>4, <2>1, <2>2, <2>3, <2>4 DEF TaskInv
<1>10. TasksInv'
  <2>1. ASSUME NEW s \in Tasks, s # t, s # n PROVE TaskInv(s)'
    <3>1. TaskInv(s) /\ Same(s) /\ born' = born + 1 /\ s # born'
      BY <1>1, <1>2, <1>3, <2>1 DEF TasksInv
    <3>2. QED
      BY <1>1, <3>1, OtherTask
  <2>2. pc'[Sh] \notin {"none", "program"}
    BY <1>1, <1>3, ShellIsTask DEF Same, TasksInv
  <2>3. QED
    BY <1>8, <1>9, <2>1, <2>2, Zenon DEF TasksInv, Tasks
<1>11. KidsInv'
  <2>1. ASSUME NEW s \in Kids, s # t PROVE KidInv(s)'
    <3>1. KidInv(s) /\ s \in Tasks /\ s # n
      BY <1>1, <1>6, <2>1 DEF KidsInv, Kids
    <3>2. Same(s)
      BY <1>3, <2>1, <3>1
    <3>3. QED
      BY <3>1, <3>2, OtherKid
  <2>2. ASSUME t \in Kids PROVE KidInv(t)'
    <3>1. KidInv(t) /\ written[t] = 0
      BY <1>1, <1>4, <2>2 DEF KidsInv, KidInv
    <3>2. left[t] \in 0 .. EchoBytes /\ EchoBytes \in Nat
      BY <1>1, ShellAssumption DEF TypesInv
    <3>3. written'[t] + left'[t] <= EchoBytes
      BY <1>4, <3>1, <3>2
    <3>4. Command(t)' = Command(t) /\ nseg(t)' = nseg(t) /\ Command(t) \notin {"echo", "wc"}
      BY <1>3, <1>4 DEF Command, nseg
    <3>5. QED
      BY <1>3, <1>4, <3>1, <3>3, <3>4 DEF KidInv
  <2>3. QED
    BY <1>7, <2>1, <2>2, Zenon DEF KidsInv
<1>12. LineInv'
  <2>1. CASE t = Sh
    <3>1. /\ locals'[Sh].prev_read_fd = -1 /\ locals'[Sh].rfd = -1 /\ locals'[Sh].wfd = -1
          /\ pc'[Sh] = "wait"
      BY <1>1, <1>3, <1>4, <2>1 DEF LineInv
    <3>2. QED
      BY <3>1 DEF LineInv
  <2>2. CASE t # Sh
    BY <1>1, <1>3, <2>2, ShellIsTask, SameLine DEF Same
  <2>3. QED
    BY <2>1, <2>2
<1>13. \A s \in Tasks \ {n} : \A fd \in Fds : Fd(s, fd)' = Fd(s, fd)
  <2>1. SUFFICES ASSUME NEW s \in Tasks \ {n} PROVE \A fd \in Fds : Fd(s, fd)' = Fd(s, fd)
    OBVIOUS
  <2>2. fds'[s] = fds[s]
    BY <1>3 DEF Same
  <2>3. QED
    BY <1>4, <2>2, SameFds
<1>14. ASSUME NEW s \in Kids
       PROVE  /\ s \in Tasks \ {n} /\ s # Sh
              /\ locals'[s].i = locals[s].i /\ locals'[s].line = locals[s].line
              /\ \A fd \in Fds : Fd(s, fd)' = Fd(s, fd)
  BY <1>3, <1>6, <1>13 DEF Kids, Same
<1>15. /\ locals'[Sh].prev_read_fd = locals[Sh].prev_read_fd
       /\ locals'[Sh].rfd = locals[Sh].rfd /\ locals'[Sh].wfd = locals[Sh].wfd
       /\ t = Sh => locals[Sh].prev_read_fd = -1
       /\ t # Sh => locals'[Sh] = locals[Sh]
       /\ pc'[Sh] # "finished" => pc[Sh] # "finished"
       /\ \A fd \in Fds : Fd(Sh, fd)' = Fd(Sh, fd)
  BY <1>1, <1>3, <1>4, <1>13, ShellIsTask DEF Same, LineInv
<1>16. EndsKept
  BY <1>4, <1>7, <1>14, <1>15 DEF EndsKept
<1>17. ShellInv' /\ HoldsInv' /\ ApartInv'
  BY <1>1, <1>12, <1>16, Steady
<1>18. WritersKept
  <2>1. ASSUME NEW s \in Tasks PROVE pc[s] = "finished" => pc'[s] = "finished"
    BY <1>3, <1>4, <1>5 DEF Same
  <2>2. QED
    BY <1>4, <1>7, <1>14, <2>1, FdNumbers DEF WritersKept
<1>19. ShellKept
  <2> SUFFICES ASSUME locals'[Sh].prev_read_fd # -1 PROVE ShellKept
    BY DEF ShellKept
  <2>1. locals[Sh].prev_read_fd \in Fds
    BY <1>1, <1>15, ShellIsTask, LocalTypes, FdNumbers
  <2>2. QED
    BY <1>4, <1>15, <2>1 DEF ShellKept
<1>20. ASSUME NEW s \in Kids' PROVE ReaderKept(s)
  <2>1. s \in Kids
    BY <1>7
  <2>2. CASE s = t
    BY <1>4, <1>14, <2>1, <2>2, FdNumbers DEF ReaderKept
  <2>3. CASE s # t
    <3>1. Same(s)
      BY <1>3, <1>14, <2>1, <2>3
    <3>2. QED
      BY <1>4, <1>14, <2>1, <3>1, FdNumbers DEF ReaderKept, Same
  <2>4. QED
    BY <2>2, <2>3
<1>21. FlowInv'
  BY <1>1, <1>18, <1>19, <1>20, FlowSteady
<1>22. QED
  BY <1>3, <1>10, <1>11, <1>12, <1>17, <1>21 DEF PipelineInv

\* A command is run.
LEMMA RunKeeps ==
  ASSUME PipelineInv, NEW t \in Tasks, Run(t)
  PROVE  PipelineInv'
<1>1. /\ pc[t] = "run" /\ calls[t] = <<>> /\ calls' = calls /\ bytes' = bytes
      /\ written' = written /\ counted' = counted /\ pipe_failed' = pipe_failed
  BY DEF Run, At
<1>2. CASE /\ Command(t) = "echo" /\ Goto(t, "write")
           /\ left' = [left EXCEPT ![t] = EchoBytes]
           /\ UNCHANGED <<fds, locals, parent_tid, born>>
  <2>1. EchoBytes \in 0 .. EchoBytes
    BY ShellAssumption
  <2>2. QED
    BY <1>1, <1>2, <2>1, StartsKeeps DEF Goto
<1>3. CASE /\ Command(t) = "wc" /\ Goto(t, "read")
           /\ UNCHANGED <<fds, locals, left, parent_tid, born>>
  <2>1. left[t] \in 0 .. EchoBytes /\ left' = [left EXCEPT ![t] = left[t]]
    BY <1>3, Parts DEF TypesInv
  <2>2. QED
    BY <1>1, <1>3, <2>1, StartsKeeps DEF Goto
<1>4. CASE /\ Command(t) \in {"program", "exit"}
           /\ born < MaxTid
           /\ born' = born + 1
           /\ fds' = [fds EXCEPT ![born'] = OnlyConsole]
           /\ locals' = [locals EXCEPT ![t].pids = <<born'>>, ![t].k = 1]
           /\ parent_tid' = [parent_tid EXCEPT ![born'] = t]
           /\ pc' = [pc EXCEPT ![t] = "wait", ![born'] = "program"]
           /\ UNCHANGED left
  <2>1. Execs(t)
    BY <1>1, <1>4 DEF Execs
  <2>2. QED
    BY <2>1, ExecKeeps
<1>5. CASE /\ Command(t) \in {"program", "exit"}
           /\ Done(t)
           /\ UNCHANGED <<fds, left, parent_tid, born>>
  BY <1>1, <1>5, DoneKeeps
<1>6. QED
  BY <1>2, <1>3, <1>4, <1>5, Zenon DEF Run

\* What the end of t does to the others: those that it wakes go on waiting, for
\* the next child.
Wakes(s) ==
  /\ pc[s] = "blocked" /\ pc'[s] = "wait"
  /\ calls'[s] = calls[s] /\ fds'[s] = fds[s]
  /\ left'[s] = left[s] /\ written'[s] = written[s] /\ counted'[s] = counted[s]
  /\ locals'[s] = [locals[s] EXCEPT !.k = locals[s].k + 1]

\* It ends with nothing open, and nothing else changes but those.
LEMMA ExitFacts ==
  ASSUME PipelineInv, NEW t \in Tasks, Exit(t)
  PROVE  /\ TypesInv' /\ pc[t] = "exit" /\ calls[t] = <<>>
         /\ pc'[t] = "finished" /\ locals'[t] = NoLocals /\ fds'[t] = [fd \in Fds |-> NoFile]
         /\ \A s \in Tasks \ {t} : Same(s) \/ Wakes(s)
         /\ calls' = calls /\ bytes' = bytes /\ left' = left /\ written' = written
         /\ born' = born /\ pipe_failed' = pipe_failed
<1>1. /\ TypesInv /\ pc[t] = "exit" /\ calls[t] = <<>>
  BY Parts DEF Exit, At
<1>2. /\ calls' = calls /\ bytes' = bytes /\ left' = left /\ written' = written
      /\ born' = born /\ pipe_failed' = pipe_failed /\ parent_tid' = parent_tid
  BY DEF Exit
<1>3. /\ pc' = [u \in Tasks |-> IF u = t THEN "finished"
                                ELSE IF u \in Woken(t) THEN "wait" ELSE pc[u]]
      /\ locals' = [u \in Tasks |-> IF u = t THEN NoLocals
                                    ELSE IF u \in Woken(t) THEN [locals[u] EXCEPT !.k = @ + 1]
                                    ELSE locals[u]]
  BY DEF Exit
<1>4. fds' = [fds EXCEPT ![t] = [fd \in Fds |-> NoFile]] /\ counted' = [counted EXCEPT ![t] = 0]
  BY DEF Exit
<1>5. /\ pc'[t] = "finished" /\ locals'[t] = NoLocals
      /\ \A s \in Tasks \ {t} :
           /\ s \notin Woken(t) => pc'[s] = pc[s] /\ locals'[s] = locals[s]
           /\ s \in Woken(t) =>
                pc'[s] = "wait" /\ locals'[s] = [locals[s] EXCEPT !.k = locals[s].k + 1]
  BY <1>3
<1>6. \A s \in Woken(t) : pc[s] = "blocked"
  BY DEF Woken
<1>7. /\ fds' \in [Tasks -> [Fds -> Ends]] /\ fds'[t] = [fd \in Fds |-> NoFile]
      /\ \A s \in Tasks \ {t} : fds'[s] = fds[s]
  <2>1. [fd \in Fds |-> NoFile] \in [Fds -> Ends]
    BY EndFacts
  <2>2. QED
    BY <1>1, <1>4, <2>1 DEF TypesInv
<1>8. /\ counted' \in [Tasks -> 0 .. EchoBytes]
      /\ \A s \in Tasks \ {t} : counted'[s] = counted[s]
  <2>1. 0 \in 0 .. EchoBytes
    BY ShellAssumption
  <2>2. QED
    BY <1>1, <1>4, <2>1 DEF TypesInv
<1>9. pc' \in [Tasks -> Labels]
  <2>1. \A s \in Tasks : pc[s] \in Labels
    BY <1>1 DEF TypesInv
  <2>2. "finished" \in Labels /\ "wait" \in Labels
    BY DEF Labels
  <2>3. QED
    BY <1>3, <2>1, <2>2
<1>10. locals' \in [Tasks -> Ls]
  <2>1. ASSUME NEW s \in Tasks
        PROVE  locals[s] \in Ls /\ [locals[s] EXCEPT !.k = @ + 1] \in Ls
    <3>1. locals[s] \in Ls /\ locals[s].k \in Nat \ {0}
      BY <1>1, LocalTypes
    <3>2. locals[s].k + 1 \in Nat \ {0}
      BY <3>1
    <3>3. QED
      BY <3>1, <3>2 DEF Ls
  <2>2. QED
    BY <1>3, <2>1, NoLocalsFacts
<1>11. TypesInv'
  BY <1>1, <1>2, <1>7, <1>8, <1>9, <1>10, StillTyped
<1>12. ASSUME NEW s \in Tasks \ {t} PROVE Same(s) \/ Wakes(s)
  <2>1. fds'[s] = fds[s] /\ counted'[s] = counted[s]
    BY <1>7, <1>8
  <2>2. CASE s \in Woken(t)
    BY <1>2, <1>5, <1>6, <2>1, <2>2 DEF Wakes
  <2>3. CASE s \notin Woken(t)
    BY <1>2, <1>5, <2>1, <2>3 DEF Same
  <2>4. QED
    BY <2>2, <2>3
<1>13. QED
  BY <1>1, <1>2, <1>5, <1>7, <1>11, <1>12

\* What a task that is woken keeps.
LEMMA WokenFacts ==
  ASSUME PipelineInv, NEW s \in Tasks, Wakes(s)
  PROVE  /\ s \in Kids' <=> s \in Kids
         /\ locals'[s].line = locals[s].line /\ locals'[s].i = locals[s].i
         /\ locals'[s].pids = locals[s].pids
         /\ locals'[s].prev_read_fd = locals[s].prev_read_fd
         /\ locals'[s].rfd = locals[s].rfd /\ locals'[s].wfd = locals[s].wfd
         /\ (s \in Kids => Command(s) # "wc" /\ KidInv(s)') /\ (born' = born => TaskInv(s)')
<1>1. locals[s] \in Ls /\ TaskInv(s) /\ (s \in Kids => KidInv(s))
  BY WhoActs
<1>2. /\ locals'[s].line = locals[s].line /\ locals'[s].i = locals[s].i
      /\ locals'[s].pids = locals[s].pids
      /\ locals'[s].prev_read_fd = locals[s].prev_read_fd
      /\ locals'[s].rfd = locals[s].rfd /\ locals'[s].wfd = locals[s].wfd
  BY <1>1 DEF Wakes, Ls
<1>3. s \in Kids' <=> s \in Kids
  BY <1>2 DEF Kids, nseg
<1>4. s \in Kids => Command(s) \notin {"echo", "wc"}
  BY <1>1 DEF KidInv, Wakes
<1>5. s \in Kids => KidInv(s)'
  BY <1>1, <1>2, <1>4 DEF KidInv, Wakes, nseg, Command
<1>6. ASSUME born' = born PROVE TaskInv(s)'
  <2>1. ~(s > born)
    BY <1>1 DEF TaskInv, Wakes
  <2>2. \A n \in DOMAIN locals'[s].pids : locals'[s].pids[n] \in {-1} \cup 2 .. born'
    BY <1>1, <1>2, <1>6 DEF TaskInv
  <2>3. InOrder(calls'[s]) /\ calls[s] = <<>>
    BY <1>1 DEF TaskInv, Wakes
  <2>4. (s \in Kids)' <=> s \in Kids
    BY <1>3
  <2>5. ~(s \in Kids)' /\ s # Sh => FALSE
    BY <1>1, <2>4 DEF TaskInv, Wakes
  <2>6. QED
    BY <1>6, <2>1, <2>2, <2>3, <2>4, <2>5 DEF TaskInv, Wakes
<1>7. QED
  BY <1>2, <1>3, <1>4, <1>5, <1>6

\* A task ends.
LEMMA ExitKeeps ==
  ASSUME PipelineInv, NEW t \in Tasks, Exit(t)
  PROVE  PipelineInv'
<1>1. /\ TypesInv /\ TasksInv /\ KidsInv /\ LineInv /\ ShellInv /\ HoldsInv
      /\ ApartInv /\ FlowInv /\ TaskInv(t) /\ born \in Nat
  BY WhoActs, Parts
<1>2. /\ TypesInv' /\ pc[t] = "exit" /\ calls[t] = <<>>
      /\ pc'[t] = "finished" /\ locals'[t] = NoLocals /\ fds'[t] = [fd \in Fds |-> NoFile]
      /\ \A s \in Tasks \ {t} : Same(s) \/ Wakes(s)
      /\ calls' = calls /\ bytes' = bytes /\ left' = left /\ written' = written
      /\ born' = born /\ pipe_failed' = pipe_failed
  BY ExitFacts
<1>3. t \notin Kids'
  <2>1. Len(<<>>) = 0
    OBVIOUS
  <2>2. nseg(t)' = 0
    BY <1>2, <2>1, NoLocalsFacts DEF nseg
  <2>3. QED
    BY <2>2 DEF Kids
<1>4. ASSUME NEW s \in Tasks, s # t
      PROVE  /\ TaskInv(s)' /\ (s \in Kids' => KidInv(s)') /\ (s \in Kids' <=> s \in Kids)
             /\ locals'[s].i = locals[s].i /\ locals'[s].line = locals[s].line
             /\ locals'[s].prev_read_fd = locals[s].prev_read_fd
             /\ locals'[s].rfd = locals[s].rfd /\ locals'[s].wfd = locals[s].wfd
             /\ locals'[s].pids = locals[s].pids
             /\ \A fd \in Fds : Fd(s, fd)' = Fd(s, fd)
             /\ pc[s] = "finished" <=> pc'[s] = "finished"
             /\ s \in Kids => ReaderKept(s)
  <2>1. CASE Same(s)
    <3>1. TaskInv(s) /\ (s \in Kids => KidInv(s))
      BY <1>1 DEF TasksInv, KidsInv
    <3>2. s \in Kids' <=> s \in Kids
      BY <2>1 DEF Same, Kids, nseg
    <3>3. TaskInv(s)'
      BY <1>1, <1>2, <2>1, <3>1, OtherTask
    <3>4. s \in Kids' => KidInv(s)'
      BY <2>1, <3>1, <3>2, OtherKid
    <3>5. \A fd \in Fds : Fd(s, fd)' = Fd(s, fd)
      BY <2>1, SameFds DEF Same
    <3>6. s \in Kids => ReaderKept(s)
      BY <1>2, <2>1, <3>5, FdNumbers DEF Same, ReaderKept
    <3>7. QED
      BY <2>1, <3>2, <3>3, <3>4, <3>5, <3>6 DEF Same
  <2>2. CASE Wakes(s)
    <3>1. \A fd \in Fds : Fd(s, fd)' = Fd(s, fd)
      BY <2>2, SameFds DEF Wakes
    <3>2. s \in Kids => Command(s) # "wc"
      BY <2>2, WokenFacts
    <3>3. locals'[s].i = locals[s].i /\ locals'[s].line = locals[s].line
      BY <2>2, WokenFacts
    <3>4. s \in Kids => ReaderKept(s)
      BY <3>1, <3>2, <3>3, FdNumbers DEF ReaderKept
    <3>5. pc[s] = "blocked" /\ pc'[s] = "wait"
      BY <2>2 DEF Wakes
    <3>6. QED
      BY <1>2, <2>2, <3>1, <3>4, <3>5, WokenFacts
  <2>3. QED
    BY <1>2, <1>4, <2>1, <2>2
<1>5. TaskInv(t)'
  <2>1. ~(t > born) /\ InOrder(calls[t])
    BY <1>1, <1>2 DEF TaskInv
  <2>2. DOMAIN locals'[t].pids = {}
    BY <1>2, NoLocalsFacts
  <2>3. ~(t \in Kids)'
    BY <1>3
  <2>4. QED
    BY <1>2, <2>1, <2>2, <2>3 DEF TaskInv
<1>6. TasksInv'
  <2>1. pc'[Sh] \notin {"none", "program"}
    BY <1>1, <1>2, ShellIsTask DEF TasksInv, Same, Wakes
  <2>2. QED
    BY <1>4, <1>5, <2>1, Zenon DEF TasksInv, Tasks
<1>7. KidsInv'
  <2>1. \A s \in Kids' : s \in Tasks /\ s # t
    BY <1>3 DEF Kids
  <2>2. QED
    BY <1>4, <2>1, Zenon DEF KidsInv
<1>8. LineInv'
  <2>1. CASE t = Sh
    <3>1. /\ locals'[Sh].prev_read_fd = -1 /\ locals'[Sh].rfd = -1 /\ locals'[Sh].wfd = -1
          /\ pc'[Sh] = "finished"
      BY <1>2, <2>1, NoLocalsFacts
    <3>2. QED
      BY <3>1 DEF LineInv
  <2>2. CASE t # Sh /\ Same(Sh)
    BY <1>1, <2>2, SameLine DEF Same
  <2>3. CASE t # Sh /\ Wakes(Sh)
    <3>1. /\ locals[Sh].prev_read_fd = -1 /\ locals[Sh].rfd = -1 /\ locals[Sh].wfd = -1
      BY <1>1, <2>3 DEF LineInv, Wakes
    <3>2. /\ locals'[Sh].prev_read_fd = -1 /\ locals'[Sh].rfd = -1 /\ locals'[Sh].wfd = -1
          /\ pc'[Sh] = "wait"
      BY <2>3, <3>1, ShellIsTask, WokenFacts DEF Wakes
    <3>3. QED
      BY <3>2 DEF LineInv
  <2>4. QED
    BY <1>2, <2>1, <2>2, <2>3, ShellIsTask
<1>9. /\ locals'[Sh].prev_read_fd = locals[Sh].prev_read_fd
      /\ locals'[Sh].rfd = locals[Sh].rfd /\ locals'[Sh].wfd = locals[Sh].wfd
  <2>1. CASE t = Sh
    <3>1. /\ locals[Sh].prev_read_fd = -1 /\ locals[Sh].rfd = -1 /\ locals[Sh].wfd = -1
      BY <1>1, <1>2, <2>1 DEF LineInv
    <3>2. QED
      BY <1>2, <2>1, <3>1, NoLocalsFacts
  <2>2. CASE t # Sh
    BY <1>4, <2>2, ShellIsTask
  <2>3. QED
    BY <2>1, <2>2
<1>10. \A s \in Kids' : s \in Tasks /\ s # t /\ s \in Kids /\ s # Sh
  BY <1>3, <1>4 DEF Kids
<1>11. pc'[Sh] # "finished" => t # Sh
  BY <1>2
<1>12. EndsKept
  <2>1. \A s \in Kids' : /\ s \in Kids
                         /\ locals'[s].i = locals[s].i /\ locals'[s].line = locals[s].line
                         /\ \A fd \in Fds : Fd(s, fd)' = Fd(s, fd)
    BY <1>4, <1>10
  <2>2. pc'[Sh] # "finished" =>
          pc[Sh] # "finished" /\ \A fd \in Fds : Fd(Sh, fd)' = Fd(Sh, fd)
    BY <1>4, <1>11, ShellIsTask
  <2>3. QED
    BY <1>2, <1>9, <2>1, <2>2 DEF EndsKept
<1>13. ShellInv' /\ HoldsInv' /\ ApartInv'
  BY <1>1, <1>8, <1>12, Steady
<1>14. WritersKept
  <2>1. \A s \in Kids' : s \in Kids /\ Fd(s, 1)' = Fd(s, 1)
    BY <1>4, <1>10, FdNumbers
  <2>2. ASSUME NEW s \in Tasks
        PROVE  /\ written'[s] = written[s]
               /\ pc[s] = "finished" => pc'[s] = "finished"
               /\ s \in Kids => s \in Kids' \/ pc'[s] = "finished"
    BY <1>2, <1>4
  <2>3. QED
    BY <2>1, <2>2 DEF WritersKept
<1>15. ShellKept
  <2> SUFFICES ASSUME locals'[Sh].prev_read_fd # -1 PROVE ShellKept
    BY DEF ShellKept
  <2>1. t # Sh /\ locals[Sh].prev_read_fd \in Fds
    BY <1>1, <1>2, <1>9, NoLocalsFacts, ShellIsTask, LocalTypes, FdNumbers
  <2>2. /\ locals'[Sh].pids = locals[Sh].pids /\ locals'[Sh].i = locals[Sh].i
        /\ \A fd \in Fds : Fd(Sh, fd)' = Fd(Sh, fd)
    BY <1>4, <2>1, ShellIsTask
  <2>3. QED
    BY <1>2, <1>9, <2>1, <2>2 DEF ShellKept
<1>16. \A s \in Kids' : ReaderKept(s)
  BY <1>4, <1>10
<1>17. FlowInv'
  BY <1>1, <1>14, <1>15, <1>16, FlowSteady
<1>18. QED
  BY <1>2, <1>6, <1>7, <1>8, <1>13, <1>17 DEF PipelineInv

\* An end of a pipe that is not open is nowhere, and nothing becomes it.
LEMMA NotOpen ==
  ASSUME PipelineInv, NEW e, ~Open(e), e # NoFile, NEW s \in Tasks, NEW fd \in Fds
  PROVE  Fd(s, fd) # e
<1>1. fds[s] \in [Fds -> Ends] /\ calls[s] \in Seq(Calls) /\ TaskInv(s)
  BY WhoActs
<1>2. InOrder(calls[s])
  BY <1>1 DEF TaskInv
<1>3. Fd(s, fd) = NoFile \/ \E x \in Fds : Fd(s, fd) = fds[s][x]
  BY <1>1, <1>2, BecomesHeld DEF Fd
<1>4. QED
  BY <1>3 DEF Open

\* The shell makes pipe p, on the descriptors r and w.
PipeMade(r, w, p) ==
  /\ pc[Sh] = "pipe" /\ calls[Sh] = <<>>
  /\ r \in Fds /\ w \in Fds /\ r < w /\ fds[Sh][r] = NoFile /\ fds[Sh][w] = NoFile
  /\ p \in Pipes /\ ~Open(R(p)) /\ ~Open(W(p))
  /\ locals' = [locals EXCEPT ![Sh].rfd = r, ![Sh].wfd = w]
  /\ fds' = [fds EXCEPT ![Sh][r] = R(p), ![Sh][w] = W(p)]
  /\ bytes' = [bytes EXCEPT ![p] = 0] /\ pc' = [pc EXCEPT ![Sh] = "fork"]
  /\ calls' = calls /\ left' = left /\ written' = written /\ counted' = counted
  /\ parent_tid' = parent_tid /\ born' = born /\ pipe_failed' = pipe_failed

\* What it changes.
LEMMA PipeMadeFacts ==
  ASSUME PipelineInv, NEW r, NEW w, NEW p, PipeMade(r, w, p)
  PROVE  /\ TypesInv' /\ r \in 3 .. MaxFd /\ w \in 3 .. MaxFd /\ r # w
         /\ r # locals[Sh].prev_read_fd /\ w # locals[Sh].prev_read_fd
         /\ locals'[Sh].rfd = r /\ locals'[Sh].wfd = w
         /\ locals'[Sh].prev_read_fd = locals[Sh].prev_read_fd
         /\ locals'[Sh].i = locals[Sh].i /\ locals'[Sh].line = locals[Sh].line
         /\ locals'[Sh].pids = locals[Sh].pids
         /\ Fd(Sh, r)' = R(p) /\ Fd(Sh, w)' = W(p)
         /\ \A fd \in Fds \ {r, w} : Fd(Sh, fd)' = Fd(Sh, fd)
         /\ \A s \in Tasks \ {Sh} : Same(s)
         /\ pc'[Sh] = "fork" /\ bytes'[p] = 0 /\ \A q \in Pipes \ {p} : bytes'[q] = bytes[q]
<1>1. /\ TypesInv /\ LineInv /\ ShellInv /\ Sh \in Tasks /\ pc[Sh] = "pipe"
      /\ calls[Sh] = <<>> /\ calls' = calls /\ p \in Pipes
      /\ r \in Fds /\ w \in Fds /\ r < w /\ locals[Sh] \in Ls
  BY WhoActs, Parts, ShellIsTask DEF PipeMade
<1>2. \A fd : Fd(Sh, fd) = fds[Sh][fd] /\ Fd(Sh, fd)' = fds'[Sh][fd]
  BY <1>1, NoCalls DEF Fd
<1>3. /\ r \notin 0 .. 2 /\ w \notin 0 .. 2 /\ r # locals[Sh].prev_read_fd
      /\ w # locals[Sh].prev_read_fd
  <2>1. Fd(Sh, r) = NoFile /\ Fd(Sh, w) = NoFile
    BY <1>2 DEF PipeMade
  <2>2. \A fd \in 0 .. 2 : Fd(Sh, fd) # NoFile
    BY <1>1, EndFacts DEF ShellInv
  <2>3. locals[Sh].prev_read_fd # -1 => Fd(Sh, locals[Sh].prev_read_fd) \in Reads
    BY <1>1 DEF ShellInv
  <2>4. NoFile \notin Reads
    BY EndFacts DEF Reads
  <2>5. r # -1 /\ w # -1
    BY <1>1, FdNumbers
  <2>6. QED
    BY <2>1, <2>2, <2>3, <2>4, <2>5
<1>4. r \in 3 .. MaxFd /\ w \in 3 .. MaxFd /\ r # w
  BY <1>1, <1>3, ShellAssumption DEF Fds
<1>5. PICK l : l = [locals[Sh] EXCEPT !.rfd = r, !.wfd = w]
  OBVIOUS
<1>6. /\ l \in Ls /\ l.rfd = r /\ l.wfd = w /\ l.prev_read_fd = locals[Sh].prev_read_fd
      /\ l.i = locals[Sh].i /\ l.line = locals[Sh].line /\ l.pids = locals[Sh].pids
  <2>1. r \in MaybeFd /\ w \in MaybeFd
    BY <1>1, ShellAssumption DEF MaybeFd, Fds
  <2>2. QED
    BY <1>1, <1>5, <2>1 DEF Ls
<1>7. /\ locals' \in [Tasks -> Ls] /\ locals'[Sh] = l
      /\ \A s \in Tasks \ {Sh} : locals'[s] = locals[s]
  BY <1>1, <1>5, <1>6 DEF TypesInv, PipeMade
<1>8. PICK f : f = [fds[Sh] EXCEPT ![r] = R(p), ![w] = W(p)]
  OBVIOUS
<1>9. /\ f \in [Fds -> Ends] /\ f[r] = R(p) /\ f[w] = W(p)
      /\ \A fd \in Fds \ {r, w} : f[fd] = fds[Sh][fd]
  <2>1. fds[Sh] \in [Fds -> Ends]
    BY <1>1 DEF TypesInv
  <2>2. R(p) \in Ends /\ W(p) \in Ends
    BY <1>1, EndFacts
  <2>3. QED
    BY <1>1, <1>4, <1>8, <2>1, <2>2
<1>10. /\ fds' \in [Tasks -> [Fds -> Ends]] /\ fds'[Sh] = f
       /\ \A s \in Tasks \ {Sh} : fds'[s] = fds[s]
  <2>1. fds' = [fds EXCEPT ![Sh] = f]
    BY <1>1, <1>4, <1>8 DEF TypesInv, PipeMade
  <2>2. QED
    BY <1>1, <1>9, <2>1 DEF TypesInv
<1>11. /\ pc' \in [Tasks -> Labels] /\ pc'[Sh] = "fork"
       /\ \A s \in Tasks \ {Sh} : pc'[s] = pc[s]
  BY <1>1 DEF TypesInv, PipeMade, Labels
<1>12. /\ bytes' \in [Pipes -> 0 .. PipeSize] /\ bytes'[p] = 0
       /\ \A q \in Pipes \ {p} : bytes'[q] = bytes[q]
  <2>1. 0 \in 0 .. PipeSize
    BY ShellAssumption
  <2>2. QED
    BY <1>1, <2>1 DEF TypesInv, PipeMade
<1>13. TypesInv'
  BY <1>1, <1>7, <1>10, <1>11, <1>12, StillTyped DEF PipeMade
<1>14. \A s \in Tasks \ {Sh} : Same(s)
  BY <1>7, <1>10, <1>11 DEF Same, PipeMade
<1>15. QED
  BY <1>2, <1>3, <1>4, <1>6, <1>7, <1>9, <1>10, <1>11, <1>12, <1>13, <1>14

\* A new pipe is empty, and nobody else has an end of it.
LEMMA PipeMadeKeeps ==
  ASSUME PipelineInv, NEW r, NEW w, NEW p, PipeMade(r, w, p)
  PROVE  PipelineInv'
<1>1. /\ TypesInv /\ TasksInv /\ KidsInv /\ LineInv /\ ShellInv /\ HoldsInv
      /\ ApartInv /\ FlowInv /\ TaskInv(Sh) /\ Sh \in Tasks /\ born \in Nat
  BY WhoActs, Parts, ShellIsTask
<1>2. /\ TypesInv' /\ r \in 3 .. MaxFd /\ w \in 3 .. MaxFd /\ r # w
      /\ r # locals[Sh].prev_read_fd /\ w # locals[Sh].prev_read_fd
      /\ locals'[Sh].rfd = r /\ locals'[Sh].wfd = w
      /\ locals'[Sh].prev_read_fd = locals[Sh].prev_read_fd
      /\ locals'[Sh].i = locals[Sh].i /\ locals'[Sh].line = locals[Sh].line
      /\ locals'[Sh].pids = locals[Sh].pids
      /\ Fd(Sh, r)' = R(p) /\ Fd(Sh, w)' = W(p)
      /\ \A fd \in Fds \ {r, w} : Fd(Sh, fd)' = Fd(Sh, fd)
      /\ \A s \in Tasks \ {Sh} : Same(s)
      /\ pc'[Sh] = "fork" /\ bytes'[p] = 0 /\ \A q \in Pipes \ {p} : bytes'[q] = bytes[q]
  BY PipeMadeFacts
<1>3. /\ pc[Sh] = "pipe" /\ calls[Sh] = <<>> /\ p \in Pipes /\ ~Open(R(p)) /\ ~Open(W(p))
      /\ calls' = calls /\ left' = left /\ written' = written /\ counted' = counted
      /\ born' = born /\ pipe_failed' = pipe_failed
  BY DEF PipeMade
<1>4. \A s \in Tasks, fd \in Fds : Fd(s, fd) # R(p) /\ Fd(s, fd) # W(p)
  BY <1>3, NotOpen, EndFacts
<1>5. PICK prev : prev = locals[Sh].prev_read_fd
  OBVIOUS
<1>6. prev # -1 => prev \in Fds /\ prev # r /\ prev # w
  BY <1>1, <1>2, <1>5, LocalTypes, FdNumbers
<1>7. ASSUME NEW s \in Tasks, s # Sh
      PROVE  Same(s) /\ (s \in Kids' <=> s \in Kids) /\ \A fd : Fd(s, fd)' = Fd(s, fd)
  <2>1. Same(s)
    BY <1>2, <1>7
  <2>2. QED
    BY <2>1, SameFds DEF Same, Kids, nseg
<1>8. Kids' = Kids
  BY <1>7 DEF Kids
<1>9. \A s \in Kids : s \in Tasks /\ s # Sh /\ Same(s) /\ \A fd : Fd(s, fd)' = Fd(s, fd)
  BY <1>7 DEF Kids
<1>10. TaskInv(Sh)'
  <2>1. ~(Sh > born) /\ InOrder(calls[Sh])
    BY <1>1, <1>3 DEF TaskInv
  <2>2. \A n \in DOMAIN locals'[Sh].pids : locals'[Sh].pids[n] \in {-1} \cup 2 .. born'
    BY <1>1, <1>2, <1>3 DEF TaskInv
  <2>3. ~(Sh \in Kids)'
    BY DEF Kids
  <2>4. QED
    BY <1>2, <1>3, <2>1, <2>2, <2>3 DEF TaskInv
<1>11. TasksInv' /\ KidsInv'
  <2>1. Sh \notin Kids'
    BY DEF Kids
  <2>2. QED
    BY <1>1, <1>2, <1>3, <1>10, <2>1, OneTask
<1>12. LineInv'
  <2>1. nseg(Sh)' = nseg(Sh) /\ nseg(Sh) > 1 /\ locals[Sh].i \in 1 .. nseg(Sh)
        /\ Len(locals[Sh].pids) = locals[Sh].i - 1 /\ (prev = -1 <=> locals[Sh].i = 1)
        /\ locals[Sh].i < nseg(Sh)
    BY <1>1, <1>2, <1>3, <1>5 DEF LineInv, nseg
  <2>2. locals[Sh].i # nseg(Sh)
    BY <2>1
  <2>3. prev \notin 0 .. 2 /\ r \notin 0 .. 2 /\ w \notin 0 .. 2 /\ r # -1 /\ w # -1
    <3>1. prev \notin 0 .. 2
      BY <1>1, <1>5 DEF LineInv
    <3>2. \A n \in 3 .. MaxFd : n \notin 0 .. 2 /\ n # -1
      OBVIOUS
    <3>3. QED
      BY <1>2, <3>1, <3>2
  <2>4. /\ locals'[Sh].prev_read_fd = prev /\ locals'[Sh].rfd = r /\ locals'[Sh].wfd = w
        /\ locals'[Sh].i = locals[Sh].i /\ locals'[Sh].pids = locals[Sh].pids
    BY <1>2, <1>5
  <2>5. QED
    BY <1>2, <1>5, <2>1, <2>2, <2>3, <2>4 DEF LineInv
<1>13. ShellInv'
  <2>1. ASSUME NEW fd \in 0 .. 2 PROVE Fd(Sh, fd)' = Console
    <3>1. fd \in Fds \ {r, w}
      BY <1>2, FdNumbers
    <3>2. Fd(Sh, fd) = Console
      BY <1>1, <1>3 DEF ShellInv
    <3>3. QED
      BY <1>2, <3>1, <3>2
  <2>2. prev # -1 => Fd(Sh, prev)' \in Reads
    BY <1>1, <1>2, <1>3, <1>5, <1>6 DEF ShellInv
  <2>3. \A t \in Kids' : Fd(t, 1)' # W(p)
    BY <1>4, <1>8, <1>9, FdNumbers
  <2>4. ~pipe_failed' => \A fd \in 3 .. MaxFd \ {prev, r, w} : Fd(Sh, fd)' = NoFile
    <3>1. SUFFICES ASSUME ~pipe_failed, NEW fd \in 3 .. MaxFd \ {prev, r, w}
                   PROVE  Fd(Sh, fd)' = NoFile
      BY <1>3
    <3>2. fd \in Fds \ {r, w} /\ fd # -1
      BY FdNumbers
    <3>3. locals[Sh].rfd = -1 /\ locals[Sh].wfd = -1
      BY <1>1, <1>3 DEF LineInv
    <3>4. Fd(Sh, fd) = NoFile
      BY <1>1, <1>3, <1>5, <3>1, <3>2, <3>3 DEF ShellInv
    <3>5. QED
      BY <1>2, <3>2, <3>4
  <2>5. \E q \in Pipes : /\ Fd(Sh, r)' = R(q) /\ Fd(Sh, w)' = W(q) /\ bytes'[q] = 0
                         /\ \A t \in Kids' : Fd(t, 1)' # W(q)
    BY <1>2, <1>3, <2>3
  <2>6. /\ locals'[Sh].prev_read_fd = prev /\ locals'[Sh].rfd = r /\ locals'[Sh].wfd = w
    BY <1>2, <1>5
  <2>7. QED
    BY <2>1, <2>2, <2>4, <2>5, <2>6, Zenon DEF ShellInv, W, R, Reads
<1>14. HoldsInv'
  <2>1. ASSUME NEW t \in Kids PROVE KidHolds(t)'
    <3>1. KidHolds(t)
      BY <1>1 DEF HoldsInv
    <3>2. QED
      BY <1>3, <1>9, <3>1 DEF KidHolds, Same, nseg
  <2>2. QED
    BY <1>8, <2>1, Zenon DEF HoldsInv
<1>15. ApartInv'
  <2>1. ASSUME NEW s \in Kids, NEW t \in Kids, s # t
        PROVE  /\ Fd(s, 0)' = Fd(t, 0)' => Fd(s, 0)' = Console
               /\ Fd(s, 1)' = Fd(t, 1)' => Fd(s, 1)' = Console
    <3>1. /\ Fd(s, 0) = Fd(t, 0) => Fd(s, 0) = Console
          /\ Fd(s, 1) = Fd(t, 1) => Fd(s, 1) = Console
      BY <1>1, <2>1, Zenon DEF ApartInv
    <3>2. QED
      BY <1>9, <3>1
  <2>2. ASSUME NEW t \in Kids PROVE Fd(t, 0)' # Fd(Sh, r)'
    BY <1>2, <1>4, <1>9, FdNumbers
  <2>3. ASSUME NEW t \in Kids, prev # -1 PROVE Fd(t, 0)' # Fd(Sh, prev)'
    <3>1. Fd(t, 0) # Fd(Sh, prev)
      BY <1>1, <1>5, <2>3, Zenon DEF ApartInv
    <3>2. Fd(Sh, prev)' = Fd(Sh, prev)
      BY <1>2, <1>6, <2>3
    <3>3. QED
      BY <1>9, <3>1, <3>2
  <2>4. prev # -1 => Fd(Sh, prev)' # Fd(Sh, r)'
    BY <1>1, <1>2, <1>4, <1>6
  <2>5. /\ locals'[Sh].prev_read_fd = prev /\ locals'[Sh].rfd = r
    BY <1>2, <1>5
  <2>6. \A fd \in {prev, r} \ {-1} : \A t \in Kids : Fd(t, 0)' # Fd(Sh, fd)'
    BY <2>2, <2>3
  <2>7. QED
    BY <1>8, <2>1, <2>4, <2>5, <2>6, Zenon DEF ApartInv
<1>16. WritersKept
  <2>1. \A s \in Tasks : pc[s] = "finished" => pc'[s] = "finished"
    BY <1>3, <1>7 DEF Same
  <2>2. QED
    BY <1>3, <1>8, <1>9, <2>1 DEF WritersKept
<1>17. ShellKept
  <2> SUFFICES ASSUME prev # -1 PROVE ShellKept
    BY <1>2, <1>5 DEF ShellKept
  <2>1. Fd(Sh, prev)' = Fd(Sh, prev) /\ Fd(Sh, prev) # R(p)
    BY <1>1, <1>2, <1>4, <1>6
  <2>2. \A q \in Pipes : Fd(Sh, prev)' = R(q) => Fd(Sh, prev) = R(q) /\ bytes'[q] = bytes[q]
    BY <1>2, <2>1
  <2>3. QED
    BY <1>2, <1>5, <2>2 DEF ShellKept
<1>18. ASSUME NEW s \in Kids' PROVE ReaderKept(s)
  <2>1. s \in Kids /\ s \in Tasks /\ Same(s) /\ \A fd : Fd(s, fd)' = Fd(s, fd)
    BY <1>8, <1>9
  <2>2. \A q \in Pipes : Fd(s, 0) = R(q) => bytes'[q] = bytes[q]
    BY <1>2, <1>4, <2>1, FdNumbers
  <2>3. QED
    BY <2>1, <2>2 DEF ReaderKept, Same
<1>19. FlowInv'
  BY <1>1, <1>16, <1>17, <1>18, FlowSteady
<1>20. QED
  BY <1>2, <1>11, <1>12, <1>13, <1>14, <1>15, <1>19 DEF PipelineInv

\* No pipe could be made: the shell is back at its prompt.
PipeFails ==
  /\ pc[Sh] = "pipe" /\ calls[Sh] = <<>>
  /\ pipe_failed' = TRUE /\ locals' = [locals EXCEPT ![Sh] = NoLocals]
  /\ pc' = [pc EXCEPT ![Sh] = "prompt"]
  /\ calls' = calls /\ fds' = fds /\ bytes' = bytes /\ left' = left /\ written' = written
  /\ counted' = counted /\ parent_tid' = parent_tid /\ born' = born

\* Then nothing more is said of the other descriptors.
LEMMA PipeFailsKeeps ==
  ASSUME PipelineInv, PipeFails
  PROVE  PipelineInv'
<1>1. /\ TypesInv /\ TasksInv /\ KidsInv /\ LineInv /\ ShellInv /\ HoldsInv
      /\ ApartInv /\ FlowInv /\ TaskInv(Sh) /\ Sh \in Tasks
  BY WhoActs, Parts, ShellIsTask
<1>2. /\ pc[Sh] = "pipe" /\ calls[Sh] = <<>> /\ pipe_failed' = TRUE
      /\ calls' = calls /\ fds' = fds /\ bytes' = bytes /\ left' = left /\ written' = written
      /\ counted' = counted /\ parent_tid' = parent_tid /\ born' = born
  BY DEF PipeFails
<1>3. /\ locals' \in [Tasks -> Ls] /\ locals'[Sh] = NoLocals
      /\ pc' \in [Tasks -> Labels] /\ pc'[Sh] = "prompt"
      /\ \A s \in Tasks \ {Sh} : locals'[s] = locals[s] /\ pc'[s] = pc[s]
  BY <1>1, NoLocalsFacts DEF PipeFails, TypesInv, Labels
<1>4. TypesInv'
  BY <1>1, <1>2, <1>3, StillTyped DEF TypesInv
<1>5. \A s \in Tasks \ {Sh} : Same(s)
  BY <1>2, <1>3 DEF Same
<1>6. Sh \notin Kids' /\ \A s, fd : Fd(s, fd)' = Fd(s, fd)
  BY <1>2 DEF Kids, Fd
<1>7. Kids' = Kids /\ \A s \in Kids : s \in Tasks /\ s # Sh /\ Same(s)
  <2>1. \A s \in Tasks \ {Sh} : nseg(s)' = nseg(s)
    BY <1>5 DEF nseg, Same
  <2>2. QED
    BY <1>5, <2>1 DEF Kids
<1>8. TaskInv(Sh)'
  <2>1. ~(Sh > born) /\ InOrder(calls[Sh])
    BY <1>1, <1>2 DEF TaskInv
  <2>2. DOMAIN locals'[Sh].pids = {}
    BY <1>3, NoLocalsFacts
  <2>3. ~(Sh \in Kids)'
    BY <1>6
  <2>4. QED
    BY <1>2, <1>3, <2>1, <2>2, <2>3 DEF TaskInv
<1>9. TasksInv' /\ KidsInv'
  BY <1>1, <1>2, <1>3, <1>5, <1>6, <1>8, OneTask
<1>10. /\ locals'[Sh].prev_read_fd = -1 /\ locals'[Sh].rfd = -1 /\ locals'[Sh].wfd = -1
  BY <1>3, NoLocalsFacts
<1>11. LineInv'
  BY <1>3, <1>10 DEF LineInv
<1>12. ShellInv'
  <2>1. \A fd \in 0 .. 2 : Fd(Sh, fd)' = Console
    BY <1>1, <1>2, <1>6 DEF ShellInv
  <2>2. QED
    BY <1>2, <1>10, <2>1 DEF ShellInv
<1>13. HoldsInv'
  <2>1. ASSUME NEW t \in Kids PROVE KidHolds(t)'
    <3>1. KidHolds(t)
      BY <1>1 DEF HoldsInv
    <3>2. QED
      BY <1>2, <1>6, <1>7, <3>1 DEF KidHolds, Same, nseg
  <2>2. QED
    BY <1>7, <2>1, Zenon DEF HoldsInv
<1>14. ApartInv'
  <2>1. ASSUME NEW s \in Kids, NEW t \in Kids, s # t
        PROVE  /\ Fd(s, 0)' = Fd(t, 0)' => Fd(s, 0)' = Console
               /\ Fd(s, 1)' = Fd(t, 1)' => Fd(s, 1)' = Console
    <3>1. /\ Fd(s, 0) = Fd(t, 0) => Fd(s, 0) = Console
          /\ Fd(s, 1) = Fd(t, 1) => Fd(s, 1) = Console
      BY <1>1, <2>1, Zenon DEF ApartInv
    <3>2. QED
      BY <1>6, <3>1
  <2>2. {locals'[Sh].prev_read_fd, locals'[Sh].rfd} \ {-1} = {}
    BY <1>10
  <2>3. QED
    BY <1>7, <1>10, <2>1, <2>2, Zenon DEF ApartInv
<1>15. WritersKept
  <2>1. \A s \in Tasks : pc[s] = "finished" => pc'[s] = "finished"
    BY <1>2, <1>3
  <2>2. QED
    BY <1>2, <1>6, <1>7, <2>1 DEF WritersKept
<1>16. ShellKept
  BY <1>10 DEF ShellKept
<1>17. ASSUME NEW s \in Kids' PROVE ReaderKept(s)
  BY <1>2, <1>6, <1>7 DEF ReaderKept, Same
<1>18. FlowInv'
  BY <1>1, <1>15, <1>16, <1>17, FlowSteady
<1>19. QED
  BY <1>4, <1>9, <1>11, <1>12, <1>13, <1>14, <1>18 DEF PipelineInv

\* A pipe is made, or not; it is the shell that does so.
LEMMA PipeKeeps ==
  ASSUME PipelineInv, NEW t \in Tasks, Pipe(t)
  PROVE  PipelineInv'
<1>1. t = Sh /\ pc[Sh] = "pipe" /\ calls[Sh] = <<>>
  BY WhoActs DEF Pipe, At, TaskInv
<1>2. /\ calls' = calls /\ left' = left /\ written' = written /\ counted' = counted
      /\ parent_tid' = parent_tid /\ born' = born
  BY DEF Pipe, counters
<1>3. (\E r, w, p : PipeMade(r, w, p)) \/ PipeFails
  <2>1. CASE /\ \E rfd, wfd \in {fd \in Fds : fds[t][fd] = NoFile}, p \in Pipes :
                  /\ ~Open(R(p)) /\ ~Open(W(p)) /\ rfd < wfd
                  /\ locals' = [locals EXCEPT ![t].rfd = rfd, ![t].wfd = wfd]
                  /\ fds' = [fds EXCEPT ![t][rfd] = R(p), ![t][wfd] = W(p)]
                  /\ bytes' = [bytes EXCEPT ![p] = 0]
             /\ Goto(t, "fork") /\ UNCHANGED pipe_failed
    BY <1>1, <1>2, <2>1 DEF PipeMade, Goto
  <2>2. CASE /\ pipe_failed' = TRUE
             /\ locals' = [locals EXCEPT ![t] = NoLocals]
             /\ Goto(t, "prompt") /\ UNCHANGED <<fds, bytes>>
    BY <1>1, <1>2, <2>2 DEF PipeFails, Goto
  <2>3. QED
    BY <2>1, <2>2 DEF Pipe
<1>4. QED
  BY <1>3, PipeMadeKeeps, PipeFailsKeeps

\* The variables l of execute_line, after the fork of pid, and the next label.
After(l, pid, m, x) ==
  /\ m \in Ls /\ m.line = l.line /\ m.pids = Append(l.pids, pid)
  /\ m.prev_read_fd = l.rfd /\ m.rfd = -1 /\ m.wfd = -1
  /\ \/ l.i = nseg(Sh) /\ m.i = l.i /\ x = "wait"
     \/ /\ l.i < nseg(Sh) /\ m.i = l.i + 1
        /\ \/ m.i = nseg(Sh) /\ x = "fork"
           \/ m.i < nseg(Sh) /\ x = "pipe"

\* What a fork is to the shell, which goes on as m has it, to the child that
\* pid numbers, if there is one, and to the others.
Forks(pid, m, x) ==
  /\ pc[Sh] = "fork" /\ calls[Sh] = <<>> /\ After(locals[Sh], pid, m, x)
  /\ pc'[Sh] = x /\ locals'[Sh] = m /\ calls'[Sh] = ParentCalls(locals[Sh])
  /\ fds'[Sh] = fds[Sh]
  /\ bytes' = bytes /\ left' = left /\ written' = written /\ counted' = counted
  /\ pipe_failed' = pipe_failed
  /\ \A s \in Tasks \ {Sh, pid} : Same(s)
  /\ \/ pid = -1 /\ born' = born
     \/ /\ pid = born + 1 /\ born' = pid /\ pid \in Tasks
        /\ pc'[pid] = "run" /\ fds'[pid] = fds[Sh] /\ locals'[pid] = locals[Sh]
        /\ calls'[pid] = ChildCalls(locals[Sh])

\* The shell, when it forks, has ends to connect.
LEMMA ForkStarts ==
  ASSUME PipelineInv, pc[Sh] = "fork", calls[Sh] = <<>>
  PROVE  /\ Kept(locals[Sh]) /\ locals[Sh].i \in 1 .. nseg(Sh) /\ nseg(Sh) > 1
         /\ nseg(Sh) \in Nat /\ locals[Sh].pids \in Seq(Int)
         /\ Len(locals[Sh].pids) = locals[Sh].i - 1
         /\ (locals[Sh].prev_read_fd = -1 <=> locals[Sh].i = 1)
         /\ (locals[Sh].rfd = -1 <=> locals[Sh].i = nseg(Sh))
         /\ (locals[Sh].wfd = -1 <=> locals[Sh].i = nseg(Sh))
         /\ \A fd : fds[Sh][fd] = Fd(Sh, fd)
<1>1. /\ TypesInv /\ LineInv /\ locals[Sh] \in Ls
  BY Parts, ShellIsTask, LocalTypes
<1>2. /\ locals[Sh].i \in 1 .. nseg(Sh) /\ nseg(Sh) > 1
      /\ Len(locals[Sh].pids) = locals[Sh].i - 1
      /\ (locals[Sh].prev_read_fd = -1 <=> locals[Sh].i = 1)
      /\ (locals[Sh].rfd = -1 <=> locals[Sh].i = nseg(Sh))
      /\ (locals[Sh].wfd = -1 <=> locals[Sh].i = nseg(Sh))
  BY <1>1 DEF LineInv
<1>3. nseg(Sh) \in Nat /\ locals[Sh].pids \in Seq(Int)
  <2>1. locals[Sh].line \in Seq({"echo", "wc", "program", "exit"})
    <3>1. /\ locals[Sh].line \in Lines \cup {<<>>}
          /\ <<>> \in Seq({"echo", "wc", "program", "exit"})
          /\ Lines \subseteq Seq({"echo", "wc", "program", "exit"})
      BY <1>1, ShellIsTask, LocalTypes, ShellAssumption
    <3>2. QED
      BY <3>1, Zenon
  <2>2. QED
    BY <1>1, <2>1, ShellIsTask, LocalTypes DEF nseg
<1>4. Kept(locals[Sh])
  <2>1. /\ {locals[Sh].prev_read_fd, locals[Sh].rfd, locals[Sh].wfd} \cap 0 .. 2 = {}
        /\ locals[Sh].prev_read_fd # -1 =>
             locals[Sh].prev_read_fd # locals[Sh].rfd /\ locals[Sh].prev_read_fd # locals[Sh].wfd
        /\ locals[Sh].rfd # -1 => locals[Sh].rfd # locals[Sh].wfd
    BY <1>1 DEF LineInv
  <2>2. locals[Sh].rfd = -1 <=> locals[Sh].wfd = -1
    BY <1>2
  <2>3. locals[Sh].prev_read_fd = -1 => locals[Sh].rfd # -1
    BY <1>2
  <2>4. QED
    BY <1>1, <2>1, <2>2, <2>3 DEF Kept
<1>5. \A fd : fds[Sh][fd] = Fd(Sh, fd)
  BY NoCalls DEF Fd
<1>6. QED
  BY <1>2, <1>3, <1>4, <1>5

\* The next label and variables of the shell are where they should be.
LEMMA ShellGoesOn ==
  ASSUME PipelineInv, NEW pid, NEW m, NEW x, Forks(pid, m, x)
  PROVE  /\ LineInv' /\ TaskInv(Sh)' /\ x \in Labels /\ x # "finished"
         /\ ShellHas(fds[Sh], locals[Sh], calls'[Sh])
         /\ m.prev_read_fd # -1 => m.pids[m.i - 1] = pid
<1>1. PICK l, n : l = locals[Sh] /\ n = nseg(Sh)
  OBVIOUS
<1>2. /\ Kept(l) /\ l.i \in 1 .. n /\ n > 1 /\ n \in Nat
      /\ l.pids \in Seq(Int) /\ Len(l.pids) = l.i - 1
      /\ (l.rfd = -1 <=> l.i = n) /\ l.rfd \notin 0 .. 2
      /\ TaskInv(Sh) /\ born \in Nat
  <2>1. pc[Sh] = "fork" /\ calls[Sh] = <<>>
    BY DEF Forks
  <2>2. Kept(l) => l.rfd \notin 0 .. 2
    BY DEF Kept
  <2>3. QED
    BY <1>1, <2>1, <2>2, ForkStarts, ShellIsTask, WhoActs
<1>3. /\ m \in Ls /\ m.line = l.line /\ m.pids = Append(l.pids, pid)
      /\ m.prev_read_fd = l.rfd /\ m.rfd = -1 /\ m.wfd = -1
      /\ \/ l.i = n /\ m.i = l.i /\ x = "wait"
         \/ l.i < n /\ m.i = l.i + 1 /\ m.i = n /\ x = "fork"
         \/ l.i < n /\ m.i = l.i + 1 /\ m.i < n /\ x = "pipe"
  BY <1>1, Zenon DEF Forks, After
<1>4. pc'[Sh] = x /\ locals'[Sh] = m /\ calls'[Sh] = ParentCalls(l)
  BY <1>1 DEF Forks
<1>5. pid \in {-1} \cup 2 .. born' /\ born' \in Nat /\ Sh <= born' /\ pid \in Int
  <2>1. ~(Sh > born)
    BY <1>2 DEF TaskInv, Forks
  <2>2. (pid = -1 /\ born' = born) \/ (pid = born + 1 /\ born' = pid)
    BY DEF Forks
  <2>3. QED
    BY <1>2, <2>1, <2>2 DEF Sh
<1>6. /\ Len(m.pids) = l.i /\ \A k \in 1 .. l.i - 1 : m.pids[k] = l.pids[k]
      /\ m.pids[l.i] = pid /\ DOMAIN m.pids = 1 .. l.i /\ DOMAIN l.pids = 1 .. l.i - 1
  BY <1>2, <1>3, <1>5
<1>7. x \in {"wait", "fork", "pipe"} /\ x \in Labels /\ x # "finished"
  BY <1>3 DEF Labels
<1>8. ShellHas(fds[Sh], locals[Sh], calls'[Sh])
  BY <1>1, <1>2, <1>4, ShellBecomes
<1>9. LineInv'
  <2>1. nseg(Sh)' = n
    BY <1>1, <1>3, <1>4 DEF nseg
  <2>2. x \in {"pipe", "fork"} =>
          /\ m.i \in 1 .. n /\ n > 1 /\ Len(m.pids) = m.i - 1 /\ m.prev_read_fd # -1 /\ m.i # 1
    BY <1>2, <1>3, <1>6
  <2>3. x = "pipe" => m.i < n
    BY <1>3
  <2>4. x = "fork" => m.i = n
    BY <1>3
  <2>5. x \notin {"pipe", "fork"} => m.prev_read_fd = -1
    BY <1>2, <1>3
  <2>6. {m.prev_read_fd, m.rfd, m.wfd} \cap 0 .. 2 = {}
    BY <1>2, <1>3
  <2>7. QED
    BY <1>3, <1>4, <2>1, <2>2, <2>3, <2>4, <2>5, <2>6 DEF LineInv
<1>10. TaskInv(Sh)'
  <2>1. ~(Sh \in Kids)' /\ ~(Sh > born')
    BY <1>5 DEF Kids, Sh
  <2>2. \A k \in DOMAIN m.pids : m.pids[k] \in {-1} \cup 2 .. born'
    <3>1. \A k \in DOMAIN l.pids : l.pids[k] \in {-1} \cup 2 .. born
      BY <1>1, <1>2 DEF TaskInv
    <3>2. born' = born \/ born' = born + 1
      BY DEF Forks
    <3>3. 2 .. born \subseteq 2 .. born'
      BY <1>2, <3>2
    <3>4. ASSUME NEW k \in 1 .. l.i PROVE m.pids[k] \in {-1} \cup 2 .. born'
      <4>1. CASE k = l.i
        BY <1>5, <1>6, <4>1
      <4>2. CASE k # l.i
        <5>1. k \in DOMAIN l.pids /\ m.pids[k] = l.pids[k]
          BY <1>2, <1>6, <4>2
        <5>2. QED
          BY <3>1, <3>3, <5>1
      <4>3. QED
        BY <4>1, <4>2
    <3>5. QED
      BY <1>6, <3>4
  <2>3. InOrder(calls'[Sh])
    BY <1>8 DEF ShellHas
  <2>4. QED
    BY <1>4, <1>7, <2>1, <2>2, <2>3 DEF TaskInv
<1>11. m.prev_read_fd # -1 => m.pids[m.i - 1] = pid
  BY <1>2, <1>3, <1>6
<1>12. QED
  BY <1>7, <1>8, <1>9, <1>10, <1>11

\* The shell has closed the read end of the pipe before the child, and the
\* write end of the child.
LEMMA ShellCloses ==
  ASSUME PipelineInv, NEW pid, NEW m, NEW x, Forks(pid, m, x)
  PROVE  \A fd \in Fds : Fd(Sh, fd)' = IF fd \in {locals[Sh].prev_read_fd, locals[Sh].wfd}
                                       THEN NoFile ELSE Fd(Sh, fd)
<1>1. ShellHas(fds[Sh], locals[Sh], calls'[Sh])
  BY ShellGoesOn
<1>2. \A fd : fds[Sh][fd] = Fd(Sh, fd)
  BY ForkStarts DEF Forks
<1>3. fds'[Sh] = fds[Sh]
  BY DEF Forks
<1>4. \A fd \in Fds :
        Becomes(fds[Sh], calls'[Sh], fd) = IF fd \in {locals[Sh].prev_read_fd, locals[Sh].wfd}
                                           THEN NoFile ELSE fds[Sh][fd]
  BY <1>1, Zenon DEF ShellHas
<1>5. \A fd : Fd(Sh, fd)' = Becomes(fds[Sh], calls'[Sh], fd)
  BY <1>3 DEF Fd
<1>6. QED
  BY <1>2, <1>4, <1>5

\* Which tasks are children then, and that only the new one has changed.
LEMMA ForkedKids ==
  ASSUME PipelineInv, NEW pid, NEW m, NEW x, Forks(pid, m, x)
  PROVE  /\ Kids' = Kids \cup ({pid} \ {-1}) /\ pid \notin Kids /\ pid # Sh
         /\ pid # -1 => /\ pid \in Tasks /\ pc[pid] = "none" /\ pid > born
                        /\ left[pid] = 0 /\ written[pid] = 0 /\ counted[pid] = 0
         /\ \A s \in Kids : /\ s \in Tasks /\ s # Sh /\ s # pid /\ Same(s)
                            /\ \A fd : Fd(s, fd)' = Fd(s, fd)
<1>1. /\ TasksInv /\ born \in Nat /\ TaskInv(Sh)
      /\ \/ pid = -1
         \/ pid = born + 1 /\ pid \in Tasks /\ locals'[pid] = locals[Sh]
  BY Parts, ShellIsTask, WhoActs DEF Forks
<1>2. Sh <= born
  <2>1. ~(Sh > born)
    BY <1>1 DEF TaskInv, Forks
  <2>2. QED
    BY <1>1, <2>1 DEF Sh
<1>3. pid # Sh /\ -1 \notin Tasks /\ -1 # Sh
  BY <1>1, <1>2 DEF Sh, Tasks
<1>4. pid # -1 => /\ pid \in Tasks /\ pc[pid] = "none" /\ pid > born
                  /\ left[pid] = 0 /\ written[pid] = 0 /\ counted[pid] = 0
                  /\ locals[pid] = NoLocals /\ pid \notin Kids
  <2>1. SUFFICES ASSUME pid # -1
                 PROVE  /\ pid \in Tasks /\ pc[pid] = "none" /\ pid > born
                        /\ left[pid] = 0 /\ written[pid] = 0 /\ counted[pid] = 0
                        /\ locals[pid] = NoLocals /\ pid \notin Kids
    OBVIOUS
  <2>2. pid \in Tasks /\ pid > born
    BY <1>1, <2>1
  <2>3. TaskInv(pid)
    BY <1>1, <2>2 DEF TasksInv
  <2>4. pc[pid] = "none" /\ left[pid] = 0 /\ written[pid] = 0 /\ counted[pid] = 0
        /\ locals[pid] = NoLocals
    BY <2>2, <2>3 DEF TaskInv
  <2>5. pid \notin Kids
    BY <2>3, <2>4 DEF TaskInv
  <2>6. QED
    BY <2>2, <2>4, <2>5
<1>5. pid \notin Kids
  BY <1>3, <1>4 DEF Kids
<1>6. \A s \in Tasks \ {Sh, pid} : Same(s)
  BY DEF Forks
<1>7. \A s \in Kids : /\ s \in Tasks /\ s # Sh /\ s # pid /\ Same(s)
                      /\ \A fd : Fd(s, fd)' = Fd(s, fd)
  <2>1. SUFFICES ASSUME NEW s \in Kids
                 PROVE  /\ s \in Tasks /\ s # Sh /\ s # pid /\ Same(s)
                        /\ \A fd : Fd(s, fd)' = Fd(s, fd)
    OBVIOUS
  <2>2. s \in Tasks /\ s # Sh /\ s # pid
    BY <1>5 DEF Kids
  <2>3. Same(s)
    BY <1>6, <2>2
  <2>4. QED
    BY <2>2, <2>3, SameFds DEF Same
<1>8. Kids' = Kids \cup ({pid} \ {-1})
  <2>1. ASSUME NEW s \in Tasks \ {Sh, pid} PROVE s \in Kids' <=> s \in Kids
    BY <1>6 DEF Same, Kids, nseg
  <2>2. pid # -1 => pid \in Kids'
    <3>1. SUFFICES ASSUME pid # -1 PROVE pid \in Kids'
      OBVIOUS
    <3>2. nseg(pid)' = nseg(Sh) /\ nseg(Sh) > 0
      BY <1>1, <3>1, ForkStarts DEF nseg, Forks
    <3>3. QED
      BY <1>3, <1>4, <3>1, <3>2 DEF Kids
  <2>3. Sh \notin Kids' /\ Sh \notin Kids /\ Kids' \subseteq Tasks /\ Kids \subseteq Tasks
    BY DEF Kids
  <2>4. QED
    BY <1>3, <1>5, <2>1, <2>2, <2>3
<1>9. QED
  BY <1>3, <1>4, <1>5, <1>7, <1>8

\* The ends that the child has become.
LEMMA ChildConnects ==
  ASSUME PipelineInv, NEW pid, NEW m, NEW x, Forks(pid, m, x), pid # -1
  PROVE  LET l == locals[Sh] IN
         /\ calls'[pid] # <<>> /\ InOrder(calls'[pid])
         /\ Fd(pid, 0)' = IF l.prev_read_fd = -1 THEN Console ELSE Fd(Sh, l.prev_read_fd)
         /\ Fd(pid, 1)' = IF l.wfd = -1 THEN Console ELSE Fd(Sh, l.wfd)
         /\ KidHolds(pid)'
<1>1. PICK l, n : l = locals[Sh] /\ n = nseg(Sh)
  OBVIOUS
<1>2. /\ ShellInv /\ pc[Sh] = "fork" /\ fds'[pid] = fds[Sh] /\ locals'[pid] = l
      /\ calls'[pid] = ChildCalls(l) /\ pipe_failed' = pipe_failed
  BY <1>1, Parts DEF Forks
<1>3. /\ Kept(l) /\ (l.prev_read_fd = -1 <=> l.i = 1) /\ (l.wfd = -1 <=> l.i = n)
      /\ \A fd : fds[Sh][fd] = Fd(Sh, fd)
  BY <1>1, ForkStarts DEF Forks
<1>4. ChildHas(fds[Sh], l, calls'[pid])
  BY <1>2, <1>3, ChildBecomes
<1>5. \A fd : Fd(pid, fd)' = Becomes(fds[Sh], calls'[pid], fd)
  BY <1>2 DEF Fd
<1>6. /\ Fd(Sh, 0) = Console /\ Fd(Sh, 1) = Console /\ Fd(Sh, 2) = Console
      /\ l.prev_read_fd # -1 => Fd(Sh, l.prev_read_fd) \in Reads
      /\ l.wfd # -1 => Fd(Sh, l.wfd) \in Writes
      /\ ~pipe_failed => \A fd \in 3 .. MaxFd \ {l.prev_read_fd, l.rfd, l.wfd} :
                           Fd(Sh, fd) = NoFile
  <2>1. \A fd \in 0 .. 2 : Fd(Sh, fd) = Console
    BY <1>2 DEF ShellInv
  <2>2. l.wfd # -1 => Fd(Sh, l.wfd) \in Writes
    BY <1>1, <1>2, <1>3 DEF ShellInv, Writes, Kept
  <2>3. QED
    BY <1>1, <1>2, <2>1, <2>2 DEF ShellInv
<1>7. /\ calls'[pid] # <<>> /\ InOrder(calls'[pid])
      /\ Fd(pid, 0)' = Fd(Sh, IF l.prev_read_fd = -1 THEN 0 ELSE l.prev_read_fd)
      /\ Fd(pid, 1)' = Fd(Sh, IF l.wfd = -1 THEN 1 ELSE l.wfd)
      /\ Fd(pid, 2)' = Fd(Sh, 2)
      /\ \A fd \in 3 .. MaxFd :
           Fd(pid, fd)' = IF fd \in {l.prev_read_fd, l.rfd, l.wfd} THEN NoFile ELSE Fd(Sh, fd)
  BY <1>3, <1>4, <1>5, Zenon DEF ChildHas
<1>8. /\ Fd(pid, 0)' = IF l.prev_read_fd = -1 THEN Console ELSE Fd(Sh, l.prev_read_fd)
      /\ Fd(pid, 1)' = IF l.wfd = -1 THEN Console ELSE Fd(Sh, l.wfd)
      /\ Fd(pid, 2)' = Console
  BY <1>6, <1>7
<1>9. ~pipe_failed' => \A fd \in 3 .. MaxFd : Fd(pid, fd)' = NoFile
  BY <1>2, <1>6, <1>7
<1>10. KidHolds(pid)'
  <2>1. nseg(pid)' = n /\ locals'[pid].i = l.i
    BY <1>1, <1>2 DEF nseg
  <2>2. IF l.i = 1 THEN Fd(pid, 0)' = Console ELSE Fd(pid, 0)' \in Reads
    BY <1>3, <1>6, <1>8
  <2>3. IF l.i = n THEN Fd(pid, 1)' = Console ELSE Fd(pid, 1)' \in Writes
    BY <1>3, <1>6, <1>8
  <2>4. QED
    BY <1>8, <1>9, <2>1, <2>2, <2>3, Zenon DEF KidHolds, Reads, Writes
<1>11. QED
  BY <1>1, <1>7, <1>8, <1>10, Zenon

\* Who reads and writes after a fork: the child reads what the shell has kept,
\* nobody yet the new pipe, and the child alone writes it.
LEMMA EndsAfterFork ==
  ASSUME PipelineInv, NEW pid, NEW m, NEW x, Forks(pid, m, x)
  PROVE  ShellInv' /\ HoldsInv' /\ ApartInv'
<1>1. PICK l : l = locals[Sh]
  OBVIOUS
<1>2. /\ TypesInv /\ ShellInv /\ HoldsInv /\ ApartInv /\ pc[Sh] = "fork" /\ Kept(l)
      /\ bytes' = bytes /\ pipe_failed' = pipe_failed /\ pc'[Sh] = x /\ locals'[Sh] = m
      /\ m.prev_read_fd = l.rfd /\ m.rfd = -1 /\ m.wfd = -1
  BY <1>1, Parts, ForkStarts DEF Forks, After
<1>3. /\ Kids' = Kids \cup ({pid} \ {-1}) /\ pid \notin Kids
      /\ \A s \in Kids : /\ s \in Tasks /\ s # Sh /\ s # pid /\ Same(s)
                         /\ \A fd : Fd(s, fd)' = Fd(s, fd)
  BY ForkedKids
<1>4. /\ l.prev_read_fd \in MaybeFd /\ l.rfd \in MaybeFd /\ l.wfd \in MaybeFd
      /\ l.prev_read_fd \notin 0 .. 2 /\ l.wfd \notin 0 .. 2
      /\ (l.rfd # -1 => l.rfd \in Fds /\ l.rfd # l.wfd /\ l.wfd # -1)
      /\ (l.rfd # -1 => l.rfd # l.prev_read_fd)
      /\ (l.wfd # -1 => l.rfd # -1)
  BY <1>2, FdNumbers DEF Kept, Ls
<1>5. \A fd \in Fds : Fd(Sh, fd)' = IF fd \in {l.prev_read_fd, l.wfd}
                                    THEN NoFile ELSE Fd(Sh, fd)
  BY <1>1, ShellCloses
<1>6. l.rfd # -1 => Fd(Sh, l.rfd)' = Fd(Sh, l.rfd)
  BY <1>4, <1>5
<1>7. /\ \A fd \in 0 .. 2 : Fd(Sh, fd) = Console
      /\ l.prev_read_fd # -1 => Fd(Sh, l.prev_read_fd) \in Reads
      /\ l.rfd # -1 => \E p \in Pipes : /\ Fd(Sh, l.rfd) = R(p) /\ Fd(Sh, l.wfd) = W(p)
                                        /\ bytes[p] = 0
                                        /\ \A t \in Kids : Fd(t, 1) # W(p)
      /\ ~pipe_failed => \A fd \in 3 .. MaxFd \ {l.prev_read_fd, l.rfd, l.wfd} :
                           Fd(Sh, fd) = NoFile
  BY <1>1, <1>2, Zenon DEF ShellInv
<1>8. l.rfd # -1 => Fd(Sh, l.rfd) \in Reads /\ Fd(Sh, l.rfd) # Console
  BY <1>7, EndFacts DEF Reads
<1>9. ShellInv'
  <2>1. \A fd \in 0 .. 2 : Fd(Sh, fd)' = Console
    BY <1>4, <1>5, <1>7, FdNumbers
  <2>2. l.rfd # -1 => Fd(Sh, l.rfd)' \in Reads
    BY <1>6, <1>8
  <2>3. ASSUME ~pipe_failed, NEW fd \in 3 .. MaxFd \ {l.rfd} PROVE Fd(Sh, fd)' = NoFile
    BY <1>5, <1>7, <2>3, FdNumbers
  <2>4. \A fd \in 3 .. MaxFd \ {l.rfd, -1, -1} : fd \in 3 .. MaxFd \ {l.rfd}
    OBVIOUS
  <2>5. ~pipe_failed' => \A fd \in 3 .. MaxFd \ {l.rfd, -1, -1} : Fd(Sh, fd)' = NoFile
    BY <1>2, <2>3, <2>4
  <2>6. /\ locals'[Sh].prev_read_fd = l.rfd /\ locals'[Sh].rfd = -1 /\ locals'[Sh].wfd = -1
    BY <1>2
  <2>7. QED
    BY <2>1, <2>2, <2>5, <2>6, Zenon DEF ShellInv, Reads
<1>10. ASSUME NEW s \in Kids PROVE KidHolds(s)'
  <2>1. KidHolds(s)
    BY <1>2 DEF HoldsInv
  <2>2. QED
    BY <1>2, <1>3, <2>1 DEF KidHolds, Same, nseg
<1>11. CASE pid = -1
  <2>1. Kids' = Kids
    BY <1>3, <1>11
  <2>2. HoldsInv'
    BY <1>10, <2>1, Zenon DEF HoldsInv
  <2>3. ApartInv'
    <3>1. ASSUME NEW s \in Kids, NEW t \in Kids, s # t
          PROVE  /\ Fd(s, 0)' = Fd(t, 0)' => Fd(s, 0)' = Console
                 /\ Fd(s, 1)' = Fd(t, 1)' => Fd(s, 1)' = Console
      <4>1. /\ Fd(s, 0) = Fd(t, 0) => Fd(s, 0) = Console
            /\ Fd(s, 1) = Fd(t, 1) => Fd(s, 1) = Console
        BY <1>2, <3>1, Zenon DEF ApartInv
      <4>2. QED
        BY <1>3, <4>1
    <3>2. ASSUME l.rfd # -1, NEW t \in Kids PROVE Fd(t, 0)' # Fd(Sh, l.rfd)'
      <4>1. Fd(t, 0) # Fd(Sh, l.rfd)
        BY <1>1, <1>2, <3>2, Zenon DEF ApartInv
      <4>2. QED
        BY <1>3, <1>6, <3>2, <4>1
    <3>3. \A fd \in {l.rfd, -1} \ {-1} : \A t \in Kids' : Fd(t, 0)' # Fd(Sh, fd)'
      BY <2>1, <3>2
    <3>4. locals'[Sh].prev_read_fd = l.rfd /\ locals'[Sh].rfd = -1
      BY <1>2
    <3>5. QED
      BY <2>1, <3>1, <3>3, <3>4, Zenon DEF ApartInv
  <2>4. QED
    BY <1>9, <2>2, <2>3
<1>12. CASE pid # -1
  <2>1. Kids' = Kids \cup {pid}
    BY <1>3, <1>12
  <2>2. /\ Fd(pid, 0)' = IF l.prev_read_fd = -1 THEN Console ELSE Fd(Sh, l.prev_read_fd)
        /\ Fd(pid, 1)' = IF l.wfd = -1 THEN Console ELSE Fd(Sh, l.wfd)
        /\ KidHolds(pid)'
    BY <1>1, <1>12, ChildConnects
  <2>3. HoldsInv'
    BY <1>10, <2>1, <2>2, Zenon DEF HoldsInv
  <2>4. ASSUME NEW s \in Kids, NEW t \in Kids, s # t
        PROVE  /\ Fd(s, 0)' = Fd(t, 0)' => Fd(s, 0)' = Console
               /\ Fd(s, 1)' = Fd(t, 1)' => Fd(s, 1)' = Console
    <3>1. /\ Fd(s, 0) = Fd(t, 0) => Fd(s, 0) = Console
          /\ Fd(s, 1) = Fd(t, 1) => Fd(s, 1) = Console
      BY <1>2, <2>4, Zenon DEF ApartInv
    <3>2. QED
      BY <1>3, <3>1
  <2>5. ASSUME NEW s \in Kids
        PROVE  /\ Fd(s, 0)' = Fd(pid, 0)' => Fd(pid, 0)' = Console
               /\ Fd(s, 1)' = Fd(pid, 1)' => Fd(pid, 1)' = Console
    <3>1. ASSUME l.prev_read_fd # -1 PROVE Fd(s, 0) # Fd(Sh, l.prev_read_fd)
      BY <1>1, <1>2, <3>1, Zenon DEF ApartInv
    <3>2. l.wfd # -1 => Fd(s, 1) # Fd(Sh, l.wfd)
      BY <1>4, <1>7
    <3>3. Fd(s, 0)' = Fd(s, 0) /\ Fd(s, 1)' = Fd(s, 1)
      BY <1>3
    <3>4. QED
      BY <2>2, <3>1, <3>2, <3>3
  <2>6. ASSUME l.rfd # -1, NEW t \in Kids PROVE Fd(t, 0)' # Fd(Sh, l.rfd)'
    <3>1. Fd(t, 0) # Fd(Sh, l.rfd)
      BY <1>1, <1>2, <2>6, Zenon DEF ApartInv
    <3>2. QED
      BY <1>3, <1>6, <2>6, <3>1
  <2>7. ASSUME l.rfd # -1 PROVE Fd(pid, 0)' # Fd(Sh, l.rfd)'
    <3>1. l.prev_read_fd # -1 => Fd(Sh, l.prev_read_fd) # Fd(Sh, l.rfd)
      BY <1>1, <1>2, <2>7, Zenon DEF ApartInv
    <3>2. QED
      BY <1>6, <1>8, <2>2, <2>7, <3>1
  <2>8. \A fd \in {l.rfd, -1} \ {-1} : \A t \in Kids' : Fd(t, 0)' # Fd(Sh, fd)'
    BY <2>1, <2>6, <2>7
  <2>9. locals'[Sh].prev_read_fd = l.rfd /\ locals'[Sh].rfd = -1
    BY <1>2
  <2>10. ASSUME NEW s \in Kids', NEW t \in Kids', s # t
         PROVE  /\ Fd(s, 0)' = Fd(t, 0)' => Fd(s, 0)' = Console
                /\ Fd(s, 1)' = Fd(t, 1)' => Fd(s, 1)' = Console
    <3>1. CASE s \in Kids /\ t \in Kids
      BY <2>4, <2>10, <3>1
    <3>2. CASE s = pid /\ t \in Kids
      BY <2>5, <3>2
    <3>3. CASE s \in Kids /\ t = pid
      BY <2>5, <3>3
    <3>4. QED
      BY <2>1, <2>10, <3>1, <3>2, <3>3
  <2>11. ApartInv'
    BY <2>8, <2>9, <2>10, Zenon DEF ApartInv
  <2>12. QED
    BY <1>9, <2>3, <2>11
<1>13. QED
  BY <1>11, <1>12

\* A pipe that was there before the child's is fed as it was.
LEMMA FedAfterFork ==
  ASSUME PipelineInv, NEW pid, NEW m, NEW x, Forks(pid, m, x),
         NEW u \in {-1} \cup Tasks, NEW p \in Pipes, NEW n, Fed(u, p, n),
         locals[Sh].rfd # -1 => Fd(Sh, locals[Sh].rfd) # R(p)
  PROVE  Fed(u, p, n)'
<1>1. /\ Kids' = Kids \cup ({pid} \ {-1}) /\ pid \notin Kids /\ Sh \notin Kids
      /\ pid # -1 => pc[pid] = "none"
      /\ \A s \in Kids : Same(s) /\ \A fd : Fd(s, fd)' = Fd(s, fd)
  BY ForkedKids DEF Kids
<1>2. /\ bytes' = bytes /\ written' = written /\ pc[Sh] = "fork" /\ ShellInv
      /\ \A s \in Tasks \ {Sh, pid} : Same(s)
  BY Parts DEF Forks
<1>3. IF u = -1 THEN bytes'[p] = 0 /\ n = 0 ELSE bytes'[p] + n = written'[u]
  BY <1>2 DEF Fed
<1>4. ASSUME NEW v \in Kids', Fd(v, 1)' = W(p) PROVE v = u
  <2>1. CASE v \in Kids
    BY <1>1, <1>4, <2>1 DEF Fed
  <2>2. CASE v = pid /\ pid # -1
    <3>1. /\ Fd(pid, 1)' = IF locals[Sh].wfd = -1 THEN Console ELSE Fd(Sh, locals[Sh].wfd)
          /\ (locals[Sh].rfd = -1 <=> locals[Sh].wfd = -1)
      BY <1>2, <2>2, ChildConnects, ForkStarts DEF Kept, Forks
    <3>2. locals[Sh].rfd # -1
      BY <1>4, <2>2, <3>1, EndFacts
    <3>3. PICK q \in Pipes : Fd(Sh, locals[Sh].rfd) = R(q) /\ Fd(Sh, locals[Sh].wfd) = W(q)
      BY <1>2, <3>2 DEF ShellInv
    <3>4. W(q) = W(p)
      BY <1>4, <2>2, <3>1, <3>2, <3>3
    <3>5. q = p
      BY <3>4, EndFacts
    <3>6. QED
      BY <3>2, <3>3, <3>5
  <2>3. QED
    BY <1>1, <2>1, <2>2
<1>5. u # -1 /\ pc'[u] # "finished" => u \in Kids' /\ Fd(u, 1)' = W(p)
  <2>1. SUFFICES ASSUME u # -1, pc'[u] # "finished" PROVE u \in Kids' /\ Fd(u, 1)' = W(p)
    OBVIOUS
  <2>2. pc[u] # "finished"
    BY <1>1, <1>2, <2>1 DEF Same
  <2>3. u \in Kids /\ Fd(u, 1) = W(p)
    BY <2>1, <2>2 DEF Fed
  <2>4. QED
    BY <1>1, <2>3
<1>6. QED
  BY <1>3, <1>4, <1>5, Zenon DEF Fed, W

\* What is read is what was written, with the new child too.
LEMMA FlowAfterFork ==
  ASSUME PipelineInv, NEW pid, NEW m, NEW x, Forks(pid, m, x)
  PROVE  FlowInv'
<1>1. PICK l : l = locals[Sh]
  OBVIOUS
<1>2. /\ TypesInv /\ TasksInv /\ KidsInv /\ LineInv /\ ShellInv /\ HoldsInv /\ ApartInv
      /\ FlowInv /\ pc[Sh] = "fork" /\ bytes' = bytes /\ written' = written
      /\ counted' = counted /\ locals'[Sh] = m /\ m.prev_read_fd = l.rfd
      /\ \A s \in Tasks \ {Sh, pid} : Same(s)
  BY <1>1, Parts DEF Forks, After
<1>3. /\ Kids' = Kids \cup ({pid} \ {-1}) /\ pid \notin Kids
      /\ pid # -1 => pid \in Tasks /\ pc[pid] = "none" /\ written[pid] = 0 /\ counted[pid] = 0
      /\ \A s \in Kids : /\ s \in Tasks /\ Same(s)
                         /\ \A fd : Fd(s, fd)' = Fd(s, fd)
  BY ForkedKids
<1>4. ASSUME NEW s \in Kids, Command(s) = "wc" PROVE Counts(s)'
  <2>1. /\ Counts(s) /\ KidHolds(s) /\ Same(s) /\ Fd(s, 0)' = Fd(s, 0)
    BY <1>2, <1>3, <1>4, Zenon DEF FlowInv, HoldsInv
  <2>2. locals'[s] = locals[s] /\ pc'[s] = pc[s] /\ counted'[s] = counted[s]
    BY <2>1 DEF Same
  <2>3. PICK u : u = Upstream(s)
    OBVIOUS
  <2>4. Upstream(s)' = u
    BY <2>2, <2>3 DEF Upstream
  <2>5. locals[s].i = 1 => pc[s] \in {"run", "read"} /\ Fd(s, 0) = Console
    BY <2>1 DEF Counts, KidHolds
  <2>6. locals[s].i # 1 => u \in {-1} \cup Tasks
    BY <1>2, <1>4, <2>3, UpstreamTask
  <2>7. ASSUME NEW p \in Pipes, Fd(s, 0)' = R(p) PROVE Fed(u, p, counted[s])'
    <3>1. PICK n : n = counted[s]
      OBVIOUS
    <3>2. Fd(s, 0) = R(p) /\ u \in {-1} \cup Tasks
      BY <2>1, <2>5, <2>6, <2>7, EndFacts
    <3>3. Fed(u, p, n)
      BY <2>1, <2>3, <3>1, <3>2, Zenon DEF Counts
    <3>4. l.rfd # -1 => Fd(s, 0) # Fd(Sh, l.rfd)
      BY <1>1, <1>2, Zenon DEF ApartInv
    <3>5. Fed(u, p, n)'
      BY <1>1, <3>2, <3>3, <3>4, FedAfterFork
    <3>6. QED
      BY <2>2, <3>1, <3>5, Zenon DEF Fed, W
  <2>8. ASSUME pc'[s] \in {"write", "exit"}
        PROVE  IF u = -1 THEN counted'[s] = 0
               ELSE pc'[u] = "finished" /\ counted'[s] = written'[u]
    <3>1. pc[s] \in {"write", "exit"} /\ u \in {-1} \cup Tasks
      BY <2>2, <2>5, <2>6, <2>8
    <3>2. IF u = -1 THEN counted[s] = 0 ELSE pc[u] = "finished" /\ counted[s] = written[u]
      BY <2>1, <2>3, <3>1 DEF Counts
    <3>3. CASE u = -1
      BY <2>2, <3>2, <3>3
    <3>4. CASE u # -1
      <4>1. u \in Tasks /\ pc[u] = "finished" /\ u # Sh /\ u # pid
        BY <1>2, <1>3, <3>1, <3>2, <3>4
      <4>2. pc'[u] = "finished"
        BY <1>2, <4>1 DEF Same
      <4>3. QED
        BY <1>2, <2>2, <3>2, <3>4, <4>2
    <3>5. QED
      BY <3>3, <3>4
  <2>9. locals'[s].i = 1 => pc'[s] \in {"run", "read"} /\ counted'[s] = 0
    BY <2>1, <2>2 DEF Counts
  <2>10. QED
    BY <2>4, <2>7, <2>8, <2>9, Zenon DEF Counts, R, Fed, W
<1>5. ASSUME pid # -1 PROVE Counts(pid)'
  <2>1. /\ pc'[pid] = "run" /\ locals'[pid] = l /\ counted'[pid] = 0
    BY <1>1, <1>2, <1>3, <1>5 DEF Forks
  <2>2. PICK u : u = l.pids[l.i - 1]
    OBVIOUS
  <2>3. Upstream(pid)' = u
    BY <2>1, <2>2 DEF Upstream
  <2>4. ASSUME NEW p \in Pipes, Fd(pid, 0)' = R(p) PROVE Fed(u, p, 0)'
    <3>1. Fd(pid, 0)' = IF l.prev_read_fd = -1 THEN Console ELSE Fd(Sh, l.prev_read_fd)
      BY <1>1, <1>5, ChildConnects
    <3>2. l.prev_read_fd # -1 /\ Fd(Sh, l.prev_read_fd) = R(p)
      BY <2>4, <3>1, EndFacts
    <3>3. u \in {-1} \cup Tasks
      BY <1>1, <1>2, <2>2, <3>2, LastForked
    <3>4. Fed(u, p, 0)
      BY <1>1, <1>2, <2>2, <3>2, Zenon DEF FlowInv, Unread
    <3>5. l.rfd # -1 => Fd(Sh, l.prev_read_fd) # Fd(Sh, l.rfd)
      BY <1>1, <1>2, <3>2, Zenon DEF ApartInv
    <3>6. QED
      BY <1>1, <3>2, <3>3, <3>4, <3>5, FedAfterFork
  <2>5. pc'[pid] \in {"run", "read"} /\ pc'[pid] \notin {"write", "exit"}
    BY <2>1
  <2>6. \A p \in Pipes : Fd(pid, 0)' = R(p) => Fed(u, p, counted[pid])'
    BY <2>1, <2>4, Zenon DEF Fed, W
  <2>7. QED
    BY <2>1, <2>3, <2>5, <2>6, Zenon DEF Counts, R, Fed, W
<1>6. Unread'
  <2>1. SUFFICES ASSUME l.rfd # -1, NEW p \in Pipes, Fd(Sh, l.rfd)' = R(p)
                 PROVE  Fed(pid, p, 0)'
    <3>1. m.prev_read_fd # -1 => m.pids[m.i - 1] = pid
      BY ShellGoesOn
    <3>2. locals'[Sh].prev_read_fd = l.rfd /\ locals'[Sh] = m
      BY <1>2
    <3>3. l.rfd # -1 => locals'[Sh].pids[locals'[Sh].i - 1] = pid
      BY <1>2, <3>1
    <3>4. QED
      BY <3>2, <3>3, Zenon DEF Unread, R, Fed, W
  <2>2. Kept(l)
    BY <1>1, <1>2, ForkStarts DEF Forks
  <2>3. l.rfd \in Fds /\ l.rfd # l.prev_read_fd /\ l.rfd # l.wfd /\ l.wfd # -1
    BY <2>1, <2>2, FdNumbers DEF Kept, Ls
  <2>4. Fd(Sh, l.rfd) = R(p)
    BY <1>1, <2>1, <2>3, ShellCloses
  <2>5. PICK q \in Pipes : /\ Fd(Sh, l.rfd) = R(q) /\ Fd(Sh, l.wfd) = W(q) /\ bytes[q] = 0
                           /\ \A t \in Kids : Fd(t, 1) # W(q)
    BY <1>1, <1>2, <2>1 DEF ShellInv
  <2>6. q = p
    BY <2>4, <2>5, EndFacts
  <2>7. IF pid = -1 THEN bytes'[p] = 0 /\ 0 = 0 ELSE bytes'[p] + 0 = written'[pid]
    BY <1>2, <1>3, <2>5, <2>6
  <2>8. \A v \in Kids' : Fd(v, 1)' = W(p) => v = pid
    BY <1>3, <2>5, <2>6
  <2>9. pid # -1 /\ pc'[pid] # "finished" => pid \in Kids' /\ Fd(pid, 1)' = W(p)
    BY <1>1, <1>3, <2>3, <2>5, <2>6, ChildConnects
  <2>10. QED
    BY <2>7, <2>8, <2>9, Zenon DEF Fed, W
<1>7. ASSUME NEW s \in Kids', Command(s)' = "wc" PROVE Counts(s)'
  <2>1. CASE s \in Kids
    <3>1. Command(s) = "wc"
      BY <1>3, <1>7, <2>1 DEF Command, Same
    <3>2. QED
      BY <1>4, <2>1, <3>1
  <2>2. CASE s = pid /\ pid # -1
    BY <1>5, <2>2
  <2>3. QED
    BY <1>3, <2>1, <2>2
<1>8. QED
  BY <1>6, <1>7, Zenon DEF FlowInv

\* The fork keeps the invariant.
LEMMA ForksKeep ==
  ASSUME PipelineInv, NEW pid, NEW m, NEW x, Forks(pid, m, x), TypesInv'
  PROVE  PipelineInv'
<1>1. PICK l : l = locals[Sh]
  OBVIOUS
<1>2. /\ TypesInv /\ TasksInv /\ KidsInv /\ LineInv /\ born \in Nat
      /\ LineInv' /\ TaskInv(Sh)' /\ pc'[Sh] = x /\ pc[Sh] = "fork" /\ x \in Labels
      /\ left' = left /\ written' = written /\ counted' = counted
      /\ \A s \in Tasks \ {Sh, pid} : Same(s)
  BY Parts, ShellIsTask, WhoActs, ShellGoesOn DEF Forks
<1>3. /\ Kids' = Kids \cup ({pid} \ {-1}) /\ pid \notin Kids /\ pid # Sh
      /\ pid # -1 => /\ pid \in Tasks /\ pc[pid] = "none" /\ pid > born
                     /\ left[pid] = 0 /\ written[pid] = 0 /\ counted[pid] = 0
      /\ \A s \in Kids : s \in Tasks /\ s # Sh /\ s # pid /\ Same(s)
  BY ForkedKids
<1>4. born' = born \/ (born' = born + 1 /\ pid = born')
  BY DEF Forks
<1>5. ASSUME NEW s \in Tasks, s # Sh, s # pid PROVE TaskInv(s)'
  <2>1. TaskInv(s) /\ Same(s)
    BY <1>2, <1>5 DEF TasksInv
  <2>2. born' = born \/ (born' = born + 1 /\ s # born')
    BY <1>4, <1>5
  <2>3. QED
    BY <1>2, <2>1, <2>2, OtherTask
<1>6. ASSUME pid # -1 PROVE TaskInv(pid)' /\ KidInv(pid)'
  <2>1. /\ pc'[pid] = "run" /\ locals'[pid] = l /\ born' = pid
        /\ calls'[pid] # <<>> /\ InOrder(calls'[pid]) /\ (pid \in Kids)'
        /\ left'[pid] = 0 /\ written'[pid] = 0 /\ counted'[pid] = 0
    BY <1>1, <1>2, <1>3, <1>6, ChildConnects DEF Forks
  <2>2. ~(pid > born')
    BY <1>2, <1>4, <2>1
  <2>3. \A n \in DOMAIN l.pids : l.pids[n] \in {-1} \cup 2 .. born'
    <3>1. \A n \in DOMAIN l.pids : l.pids[n] \in {-1} \cup 2 .. born
      BY <1>1, <1>2, ShellIsTask DEF TasksInv, TaskInv
    <3>2. 2 .. born \subseteq 2 .. born'
      BY <1>2, <1>4
    <3>3. QED
      BY <3>1, <3>2
  <2>4. TaskInv(pid)'
    BY <1>3, <2>1, <2>2, <2>3 DEF TaskInv
  <2>5. /\ l.i \in 1 .. nseg(Sh) /\ nseg(Sh) > 1 /\ Len(l.pids) = l.i - 1
    BY <1>1, <1>2, ForkStarts DEF Forks
  <2>6. nseg(pid)' = nseg(Sh)
    BY <1>1, <2>1 DEF nseg
  <2>7. KidInv(pid)'
    BY <2>1, <2>5, <2>6 DEF KidInv
  <2>8. QED
    BY <2>4, <2>7
<1>7. TasksInv'
  <2>1. pc'[Sh] \notin {"none", "program"}
    BY <1>2 DEF Forks, After
  <2>2. ASSUME NEW s \in Tasks PROVE TaskInv(s)'
    <3>1. s # -1
      BY DEF Tasks
    <3>2. QED
      BY <1>2, <1>5, <1>6, <2>2, <3>1
  <2>3. QED
    BY <2>1, <2>2, Zenon DEF TasksInv, Tasks
<1>8. KidsInv'
  <2>1. ASSUME NEW s \in Kids PROVE KidInv(s)'
    BY <1>2, <1>3, OtherKid DEF KidsInv
  <2>2. ASSUME NEW s \in Kids' PROVE KidInv(s)'
    BY <1>3, <1>6, <2>1
  <2>3. QED
    BY <2>2, Zenon DEF KidsInv
<1>9. ShellInv' /\ HoldsInv' /\ ApartInv' /\ FlowInv'
  BY EndsAfterFork, FlowAfterFork
<1>10. QED
  BY <1>2, <1>7, <1>8, <1>9 DEF PipelineInv

\* The shell forks, or fails to.
LEMMA ForkKeeps ==
  ASSUME PipelineInv, NEW t \in Tasks, Fork(t)
  PROVE  PipelineInv'
<1>1. t = Sh /\ pc[Sh] = "fork" /\ calls[Sh] = <<>>
  BY WhoActs DEF Fork, At, TaskInv
<1>2. PICK l, n : l = locals[Sh] /\ n = nseg(Sh)
  OBVIOUS
<1>3. /\ bytes' = bytes /\ left' = left /\ written' = written /\ counted' = counted
      /\ pipe_failed' = pipe_failed
  BY DEF Fork, counters
<1>4. /\ Kept(l) /\ l \in Ls /\ l.i \in 1 .. n /\ n \in Nat /\ born \in Nat /\ TypesInv
      /\ l.pids \in Seq(Int) /\ Sh \in Tasks
  BY <1>1, <1>2, ForkStarts, Parts, ShellIsTask, WhoActs DEF Kept
<1>5. PICK x : x = IF l.i = n THEN "wait" ELSE IF l.i + 1 = n THEN "fork" ELSE "pipe"
  OBVIOUS
<1>6. x \in Labels
  BY <1>5 DEF Labels
<1>7. ShellHas(fds[Sh], l, ParentCalls(l)) /\ ChildHas(fds[Sh], l, ChildCalls(l))
  BY <1>4, ShellBecomes, ChildBecomes
<1>8. ParentCalls(l) \in Seq(Calls) /\ ChildCalls(l) \in Seq(Calls)
  BY <1>7 DEF ShellHas, ChildHas
<1>9. ASSUME NEW pid \in Int, NEW m,
             m = [l EXCEPT !.pids = Append(@, pid), !.prev_read_fd = l.rfd,
                           !.i = IF @ < n THEN @ + 1 ELSE @, !.rfd = -1, !.wfd = -1]
      PROVE  After(l, pid, m, x)
  <2>1. PICK i, ps : i = (IF l.i < n THEN l.i + 1 ELSE l.i) /\ ps = Append(l.pids, pid)
    OBVIOUS
  <2>2. m = [l EXCEPT !.pids = ps, !.prev_read_fd = l.rfd, !.i = i, !.rfd = -1, !.wfd = -1]
    BY <1>9, <2>1
  <2>3. i \in Nat \ {0} /\ ps \in Seq(Int) /\ -1 \in MaybeFd /\ l.rfd \in MaybeFd
    BY <1>4, <2>1, ShellAssumption DEF MaybeFd, Ls
  <2>4. /\ m \in Ls /\ m.line = l.line /\ m.pids = ps /\ m.prev_read_fd = l.rfd
        /\ m.rfd = -1 /\ m.wfd = -1 /\ m.i = i
    BY <1>4, <2>2, <2>3 DEF Ls
  <2>5. \/ l.i = n /\ i = l.i /\ x = "wait"
        \/ l.i < n /\ i = l.i + 1 /\ i = n /\ x = "fork"
        \/ l.i < n /\ i = l.i + 1 /\ i < n /\ x = "pipe"
    BY <1>4, <1>5, <2>1
  <2>6. QED
    BY <1>2, <2>1, <2>4, <2>5 DEF After
<1>10. ASSUME NEW pid \in {-1} \cup Nat PROVE \E m : After(l, pid, m, x)
              /\ m = [l EXCEPT !.pids = Append(@, pid), !.prev_read_fd = l.rfd,
                               !.i = IF @ < n THEN @ + 1 ELSE @, !.rfd = -1, !.wfd = -1]
  <2>1. pid \in Int
    OBVIOUS
  <2>2. QED
    BY <1>9, <2>1, Zenon
<1>11. CASE /\ born < MaxTid
            /\ born' = born + 1
            /\ fds' = [fds EXCEPT ![born'] = fds[t]]
            /\ locals' = [locals EXCEPT
                 ![born'] = l,
                 ![t] = [l EXCEPT !.pids = Append(@, born'), !.prev_read_fd = l.rfd,
                                  !.i = IF @ < n THEN @ + 1 ELSE @, !.rfd = -1, !.wfd = -1]]
            /\ parent_tid' = [parent_tid EXCEPT ![born'] = t]
            /\ pc' = [pc EXCEPT ![t] = x, ![born'] = "run"]
            /\ calls' = [calls EXCEPT ![t] = ParentCalls(l), ![born'] = ChildCalls(l)]
  <2>1. PICK pid : pid = born + 1
    OBVIOUS
  <2>2. /\ pid \in Tasks /\ born' = pid /\ pid \in Nat /\ pid # Sh
    <3>1. ~(Sh > born)
      BY <1>1, WhoActs, ShellIsTask DEF TaskInv
    <3>2. QED
      BY <1>4, <1>11, <2>1, <3>1, ShellAssumption DEF Tasks, Sh
  <2>3. PICK m : /\ After(l, pid, m, x)
                 /\ m = [l EXCEPT !.pids = Append(@, pid), !.prev_read_fd = l.rfd,
                                  !.i = IF @ < n THEN @ + 1 ELSE @, !.rfd = -1, !.wfd = -1]
    BY <1>10, <2>2
  <2>4. m \in Ls
    BY <2>3 DEF After
  <2>5. /\ locals' = [locals EXCEPT ![pid] = l, ![Sh] = m]
    BY <1>1, <1>11, <2>2, <2>3
  <2>6. /\ locals' \in [Tasks -> Ls] /\ locals'[pid] = l /\ locals'[Sh] = m
        /\ \A s \in Tasks \ {Sh, pid} : locals'[s] = locals[s]
    BY <1>4, <2>2, <2>4, <2>5 DEF TypesInv
  <2>7. /\ pc' \in [Tasks -> Labels] /\ pc'[pid] = "run" /\ pc'[Sh] = x
        /\ \A s \in Tasks \ {Sh, pid} : pc'[s] = pc[s]
    <3>1. pc' = [pc EXCEPT ![Sh] = x, ![pid] = "run"] /\ "run" \in Labels
      BY <1>1, <1>11, <2>2 DEF Labels
    <3>2. QED
      BY <1>4, <1>6, <2>2, <3>1 DEF TypesInv
  <2>8. /\ calls' \in [Tasks -> Seq(Calls)] /\ calls'[pid] = ChildCalls(l)
        /\ calls'[Sh] = ParentCalls(l)
        /\ \A s \in Tasks \ {Sh, pid} : calls'[s] = calls[s]
    <3>1. PICK pcs, ccs : pcs = ParentCalls(l) /\ ccs = ChildCalls(l)
      OBVIOUS
    <3>2. calls' = [calls EXCEPT ![Sh] = pcs, ![pid] = ccs]
      BY <1>1, <1>11, <2>2, <3>1
    <3>3. QED
      BY <1>4, <1>8, <2>2, <3>1, <3>2 DEF TypesInv
  <2>9. /\ fds' \in [Tasks -> [Fds -> Ends]] /\ fds'[pid] = fds[Sh]
        /\ \A s \in Tasks \ {pid} : fds'[s] = fds[s]
    <3>1. fds' = [fds EXCEPT ![pid] = fds[Sh]]
      BY <1>1, <1>11, <2>2
    <3>2. QED
      BY <1>4, <2>2, <3>1 DEF TypesInv
  <2>10. parent_tid' \in [Tasks -> -1 .. MaxTid]
    <3>1. t \in -1 .. MaxTid
      BY ShellAssumption DEF Tasks
    <3>2. QED
      BY <1>4, <1>11, <2>2, <3>1 DEF TypesInv
  <2>11. TypesInv'
    BY <1>3, <1>4, <2>2, <2>6, <2>7, <2>8, <2>9, <2>10, StillTyped
  <2>12. \A s \in Tasks \ {Sh, pid} : Same(s)
    BY <1>3, <2>6, <2>7, <2>8, <2>9 DEF Same
  <2>13. fds'[Sh] = fds[Sh]
    BY <1>4, <2>2, <2>9
  <2>14. Forks(pid, m, x)
    BY <1>1, <1>2, <1>3, <2>1, <2>2, <2>3, <2>6, <2>7, <2>8, <2>9, <2>12, <2>13, Zenon DEF Forks
  <2>15. QED
    BY <2>11, <2>14, ForksKeep
<1>12. CASE /\ locals' = [locals EXCEPT
                 ![t] = [l EXCEPT !.pids = Append(@, -1), !.prev_read_fd = l.rfd,
                                  !.i = IF @ < n THEN @ + 1 ELSE @, !.rfd = -1, !.wfd = -1]]
            /\ Goto(t, x)
            /\ calls' = [calls EXCEPT ![t] = ParentCalls(l)]
            /\ UNCHANGED <<born, fds, parent_tid>>
  <2>1. PICK m : /\ After(l, -1, m, x)
                 /\ m = [l EXCEPT !.pids = Append(@, -1), !.prev_read_fd = l.rfd,
                                  !.i = IF @ < n THEN @ + 1 ELSE @, !.rfd = -1, !.wfd = -1]
    BY <1>10
  <2>2. m \in Ls
    BY <2>1 DEF After
  <2>3. locals' = [locals EXCEPT ![Sh] = m] /\ pc' = [pc EXCEPT ![Sh] = x]
    BY <1>1, <1>12, <2>1 DEF Goto
  <2>4. /\ locals' \in [Tasks -> Ls] /\ locals'[Sh] = m
        /\ pc' \in [Tasks -> Labels] /\ pc'[Sh] = x
        /\ \A s \in Tasks \ {Sh} : locals'[s] = locals[s] /\ pc'[s] = pc[s]
    BY <1>4, <1>6, <2>2, <2>3 DEF TypesInv
  <2>5. /\ calls' \in [Tasks -> Seq(Calls)] /\ calls'[Sh] = ParentCalls(l)
        /\ \A s \in Tasks \ {Sh} : calls'[s] = calls[s]
    <3>1. PICK pcs : pcs = ParentCalls(l)
      OBVIOUS
    <3>2. calls' = [calls EXCEPT ![Sh] = pcs]
      BY <1>1, <1>12, <3>1
    <3>3. QED
      BY <1>4, <1>8, <3>1, <3>2 DEF TypesInv
  <2>6. born' = born /\ fds' = fds /\ parent_tid' = parent_tid
    BY <1>12
  <2>7. TypesInv'
    BY <1>3, <1>4, <2>4, <2>5, <2>6, StillTyped
  <2>8. \A s \in Tasks \ {Sh, -1} : Same(s)
    BY <1>3, <2>4, <2>5, <2>6 DEF Same
  <2>9. fds'[Sh] = fds[Sh]
    BY <2>6
  <2>10. Forks(-1, m, x)
    BY <1>1, <1>2, <1>3, <2>1, <2>4, <2>5, <2>6, <2>8, <2>9, Zenon DEF Forks
  <2>11. QED
    BY <2>7, <2>10, ForksKeep
<1>13. QED
  BY <1>1, <1>2, <1>5, <1>11, <1>12, Zenon DEF Fork

-----------------------------------------------------------------------------
(* The invariant, and what it shows.                                       *)

\* The shell at its first prompt, alone.
LEMMA InitKeeps ==
  ASSUME Init
  PROVE  PipelineInv
<1>1. /\ pc = [t \in Tasks |-> IF t = Sh THEN "prompt" ELSE "none"]
      /\ calls = [t \in Tasks |-> <<>>]
      /\ fds = [t \in Tasks |-> [fd \in Fds |-> IF t = Sh THEN OnlyConsole[fd] ELSE NoFile]]
      /\ locals = [t \in Tasks |-> NoLocals]
      /\ bytes = [p \in Pipes |-> 0] /\ left = [t \in Tasks |-> 0]
      /\ written = [t \in Tasks |-> 0] /\ counted = [t \in Tasks |-> 0]
      /\ parent_tid = [t \in Tasks |-> -1] /\ born = 1 /\ pipe_failed = FALSE
  BY DEF Init
<1>2. Sh \in Tasks /\ 1 \in Tasks /\ Sh = 1 /\ MaxTid \in Nat /\ MaxFd \in Nat
  BY ShellAssumption DEF Tasks, Sh
<1>3. \A t \in Tasks : /\ pc[t] = (IF t = Sh THEN "prompt" ELSE "none") /\ calls[t] = <<>>
                       /\ locals[t] = NoLocals /\ left[t] = 0 /\ written[t] = 0
                       /\ counted[t] = 0
  BY <1>1
<1>4. TypesInv
  <2>1. pc \in [Tasks -> Labels]
    BY <1>1 DEF Labels
  <2>2. \A e \in Fds : OnlyConsole[e] \in Ends /\ NoFile \in Ends
    BY EndFacts DEF OnlyConsole
  <2>3. fds \in [Tasks -> [Fds -> Ends]]
    BY <1>1, <2>2
  <2>4. calls \in [Tasks -> Seq(Calls)] /\ locals \in [Tasks -> Ls]
    BY <1>1, NoLocalsFacts
  <2>5. /\ bytes \in [Pipes -> 0 .. PipeSize] /\ left \in [Tasks -> 0 .. EchoBytes]
        /\ written \in [Tasks -> 0 .. EchoBytes] /\ counted \in [Tasks -> 0 .. EchoBytes]
        /\ parent_tid \in [Tasks -> -1 .. MaxTid]
    BY <1>1, <1>2, ShellAssumption
  <2>6. QED
    BY <1>1, <1>2, <2>1, <2>3, <2>4, <2>5 DEF TypesInv
<1>5. \A t \in Tasks : nseg(t) = 0
  <2>1. Len(<<>>) = 0
    OBVIOUS
  <2>2. QED
    BY <1>3, <2>1, NoLocalsFacts DEF nseg
<1>6. Kids = {}
  BY <1>5 DEF Kids
<1>7. TasksInv
  <2>1. ASSUME NEW t \in Tasks PROVE TaskInv(t)
    <3>1. t > born <=> t # Sh
      BY <1>1, <1>2 DEF Tasks
    <3>2. InOrder(<<>>)
      BY DEF InOrder
    <3>3. DOMAIN locals[t].pids = {}
      BY <1>3, NoLocalsFacts
    <3>4. pc[t] = (IF t = Sh THEN "prompt" ELSE "none") /\ calls[t] = <<>>
      BY <1>3
    <3>5. QED
      BY <1>3, <1>6, <3>1, <3>2, <3>3, <3>4 DEF TaskInv
  <2>2. QED
    BY <1>2, <1>3, <2>1 DEF TasksInv
<1>8. KidsInv /\ HoldsInv
  BY <1>6 DEF KidsInv, HoldsInv
<1>9. /\ locals[Sh].prev_read_fd = -1 /\ locals[Sh].rfd = -1 /\ locals[Sh].wfd = -1
      /\ pc[Sh] = "prompt" /\ calls[Sh] = <<>>
  BY <1>2, <1>3, NoLocalsFacts
<1>10. LineInv
  BY <1>9 DEF LineInv
<1>11. \A fd \in Fds : Fd(Sh, fd) = IF fd <= 2 THEN Console ELSE NoFile
  <2>1. \A fd : Fd(Sh, fd) = fds[Sh][fd]
    BY <1>9, NoCalls DEF Fd
  <2>2. QED
    BY <1>1, <1>2, <2>1 DEF OnlyConsole
<1>12. ShellInv
  <2>1. \A fd \in 0 .. 2 : Fd(Sh, fd) = Console
    BY <1>11, FdNumbers
  <2>2. \A fd \in 3 .. MaxFd : Fd(Sh, fd) = NoFile
    BY <1>11, FdNumbers
  <2>3. QED
    BY <1>9, <2>1, <2>2 DEF ShellInv
<1>13. ApartInv
  BY <1>6, <1>9 DEF ApartInv
<1>14. FlowInv
  BY <1>6, <1>9 DEF FlowInv, Unread
<1>15. QED
  BY <1>4, <1>7, <1>8, <1>10, <1>12, <1>13, <1>14 DEF PipelineInv

\* No step, of the shell or of another task, breaks it.
LEMMA StepKeeps ==
  ASSUME PipelineInv, [Next]_vars
  PROVE  PipelineInv'
<1>1. ASSUME NEW t \in Tasks, Works(t) PROVE PipelineInv'
  <2>1. CASE DescriptorCall(t)
    BY <2>1, DescriptorCallKeeps
  <2>2. CASE Pipe(t)
    BY <2>2, PipeKeeps
  <2>3. CASE Fork(t)
    BY <2>3, ForkKeeps
  <2>4. CASE Wait(t)
    BY <2>4, WaitKeeps
  <2>5. CASE Run(t)
    BY <2>5, RunKeeps
  <2>6. CASE Write(t)
    BY <2>6, WriteKeeps
  <2>7. CASE Read(t)
    BY <2>7, ReadKeeps
  <2>8. CASE Program(t)
    BY <2>8, ProgramKeeps
  <2>9. CASE Exit(t)
    BY <2>9, ExitKeeps
  <2>10. QED
    BY <1>1, <2>1, <2>2, <2>3, <2>4, <2>5, <2>6, <2>7, <2>8, <2>9 DEF Works
<1>2. CASE UNCHANGED vars
  <2>1. /\ pc' = pc /\ calls' = calls /\ fds' = fds /\ locals' = locals /\ bytes' = bytes
        /\ left' = left /\ written' = written /\ counted' = counted
        /\ parent_tid' = parent_tid /\ born' = born /\ pipe_failed' = pipe_failed
    BY <1>2 DEF vars
  <2>2. TypesInv' /\ LineInv'
    BY <2>1, Parts DEF TypesInv, LineInv, nseg
  <2>3. \A s \in Tasks : Same(s)
    BY <2>1 DEF Same
  <2>4. TaskInv(Sh)' /\ Sh \notin Kids'
    <3>1. TaskInv(Sh) /\ born \in Nat
      BY ShellIsTask, WhoActs
    <3>2. QED
      BY <2>1, <2>3, <3>1, ShellIsTask, OtherTask DEF Kids
  <2>5. OnlyMoves(Sh) \/ pc[Sh] = "finished"
    <3>1. SUFFICES ASSUME pc[Sh] # "finished" PROVE OnlyMoves(Sh)
      OBVIOUS
    <3>2. \A fd \in Fds : Fd(Sh, fd)' = Fd(Sh, fd)
      BY <2>1, SameFds
    <3>3. pc[Sh] \notin {"none", "program"}
      BY Parts DEF TasksInv
    <3>4. QED
      BY <2>1, <2>3, <3>1, <3>2, <3>3 DEF OnlyMoves
  <2>6. CASE OnlyMoves(Sh)
    BY <2>2, <2>4, <2>6, ShellIsTask, MovesKeep
  <2>7. CASE pc[Sh] = "finished"
    <3>1. Kids' = Kids /\ \A s, fd : Fd(s, fd)' = Fd(s, fd)
      BY <2>1 DEF Kids, nseg, Fd
    <3>2. TasksInv' /\ KidsInv'
      BY <2>1, <2>3, <2>4, ShellIsTask, Parts, OneTask DEF TasksInv
    <3>3. EndsKept
      BY <2>1, <3>1 DEF EndsKept
    <3>4. ShellInv' /\ HoldsInv' /\ ApartInv'
      BY <2>2, <3>3, Parts, Steady
    <3>5. WritersKept /\ ShellKept
      BY <2>1, <3>1 DEF WritersKept, ShellKept
    <3>6. \A s \in Kids' : ReaderKept(s)
      BY <2>1, <3>1 DEF ReaderKept, Kids
    <3>7. FlowInv'
      BY <3>5, <3>6, Parts, FlowSteady
    <3>8. QED
      BY <2>2, <3>2, <3>4, <3>7 DEF PipelineInv
  <2>8. QED
    BY <2>5, <2>6, <2>7
<1>3. QED
  BY <1>1, <1>2, ReadLineKeeps DEF Next

\* Wherever the shell and its children are in their forks, dup2s, closes and
\* waits (shell.c:215-283), each pipe of a line has one reader and one writer
\* to come, and the bytes that are in it are those that were written to it
\* and not read.
THEOREM PipelineHolds == Spec => []PipelineInv
<1>1. Init => PipelineInv
  BY InitKeeps
<1>2. PipelineInv /\ [Next]_vars => PipelineInv'
  BY StepKeeps
<1>3. QED
  BY <1>1, <1>2, PTL DEF Spec

\* A command that sees the end of its input has counted all that the command
\* before it has written (shell.c:239-274, fd.c:157-171).
THEOREM InputIsCompleteHolds == Spec => []InputIsComplete
<1>1. ASSUME PipelineInv PROVE InputIsComplete
  <2>1. SUFFICES ASSUME NEW t \in Tasks \ {Sh}, pc[t] \in {"write", "exit"}, nseg(t) > 0,
                        Command(t) = "wc"
                 PROVE  IF Upstream(t) = -1 THEN counted[t] = 0
                        ELSE /\ pc[Upstream(t)] = "finished"
                             /\ counted[t] = written[Upstream(t)]
    BY DEF InputIsComplete
  <2>2. t \in Kids
    BY <2>1 DEF Kids
  <2>3. Counts(t)
    BY <1>1, <2>1, <2>2, Parts DEF FlowInv
  <2>4. QED
    BY <2>1, <2>3 DEF Counts
<1>2. QED
  BY <1>1, PipelineHolds, PTL

\* Nobody keeps an end of a pipe that is not its input or output (shell.c:227-
\* 275), and every variable has its type.
THEOREM DescriptorsAreTidyHolds == Spec => []DescriptorsAreTidy
<1>1. ASSUME PipelineInv PROVE TypeOK
  <2>1. TypesInv /\ TasksInv
    BY <1>1, Parts
  <2>2. ASSUME NEW t \in Tasks
        PROVE  /\ locals[t].line \in Lines \cup {<<>>}
               /\ {locals[t].prev_read_fd, locals[t].rfd, locals[t].wfd} \subseteq -1 .. MaxFd
               /\ \A n \in DOMAIN locals[t].pids : locals[t].pids[n] \in {-1} \cup 2 .. born
               /\ calls[t] \in Seq(Calls)
               /\ pc[t] = "blocked" => locals[t].pids[locals[t].k] # -1
               /\ pc[t] # "none" <=> t <= born
    <3>1. /\ locals[t].line \in Lines \cup {<<>>}
          /\ {locals[t].prev_read_fd, locals[t].rfd, locals[t].wfd} \subseteq -1 .. MaxFd
      BY <2>1, LocalTypes DEF MaybeFd
    <3>2. TaskInv(t) /\ calls[t] \in Seq(Calls) /\ born \in Nat /\ t \in Nat
      BY <1>1, WhoActs
    <3>3. t <= born <=> ~(t > born)
      BY <3>2
    <3>4. QED
      BY <3>1, <3>2, <3>3 DEF TaskInv
  <2>3. QED
    BY <2>1, <2>2 DEF TypesInv, TypeOK
<1>2. ASSUME PipelineInv, ~pipe_failed, pc[Sh] = "prompt" PROVE fds[Sh] = OnlyConsole
  <2>1. ShellInv /\ LineInv /\ TaskInv(Sh) /\ fds[Sh] \in [Fds -> Ends]
    BY <1>2, Parts, ShellIsTask, WhoActs
  <2>2. calls[Sh] = <<>>
    BY <1>2, <2>1 DEF TaskInv, Kids
  <2>3. \A fd : Fd(Sh, fd) = fds[Sh][fd]
    BY <2>2, NoCalls DEF Fd
  <2>4. locals[Sh].prev_read_fd = -1 /\ locals[Sh].rfd = -1 /\ locals[Sh].wfd = -1
    BY <1>2, <2>1 DEF LineInv
  <2>5. \A fd \in 0 .. 2 : fds[Sh][fd] = Console
    BY <1>2, <2>1, <2>3 DEF ShellInv
  <2>6. \A fd \in 3 .. MaxFd : fds[Sh][fd] = NoFile
    BY <1>2, <2>1, <2>3, <2>4 DEF ShellInv
  <2>7. \A fd \in Fds : fds[Sh][fd] = IF fd <= 2 THEN Console ELSE NoFile
    BY <2>5, <2>6, ShellAssumption DEF Fds
  <2>8. QED
    BY <2>1, <2>7 DEF OnlyConsole
<1>3. ASSUME PipelineInv, ~pipe_failed, NEW t \in Tasks \ {Sh}, calls[t] = <<>>,
             pc[t] \in {"run", "read", "write", "wait"}, NEW fd \in Fds
      PROVE  fds[t][fd] = NoFile <=> fd > 2
  <2>1. t \in Kids
    BY <1>3, WhoActs
  <2>2. KidHolds(t)
    BY <1>3, <2>1, Parts DEF HoldsInv
  <2>3. \A e : Fd(t, e) = fds[t][e]
    BY <1>3, NoCalls DEF Fd
  <2>4. NoFile \notin Reads /\ NoFile \notin Writes /\ NoFile # Console
    BY EndFacts DEF Reads, Writes
  <2>5. fds[t][0] # NoFile /\ fds[t][1] # NoFile /\ fds[t][2] # NoFile
    BY <2>2, <2>3, <2>4 DEF KidHolds
  <2>6. \A e \in 3 .. MaxFd : fds[t][e] = NoFile
    BY <1>3, <2>2, <2>3 DEF KidHolds
  <2>7. fd \in 3 .. MaxFd \/ fd \in {0, 1, 2}
    BY ShellAssumption DEF Fds
  <2>8. QED
    BY <2>5, <2>6, <2>7
<1>4. PipelineInv => DescriptorsAreTidy
  BY <1>1, <1>2, <1>3, Zenon DEF DescriptorsAreTidy
<1>5. QED
  BY <1>4, PipelineHolds, PTL

=============================================================================
