----------------------------- MODULE VirtQueue -----------------------------
(***************************************************************************)
(* The split virtqueue of virtqueue.c: the descriptor table with its free  *)
(* list, the available ring that the driver fills and the used ring that   *)
(* the device fills.  The operators here say what the calls of the driver  *)
(* and the steps of the device do to it; Drivers makes actions of them.    *)
(* The rings' indices run modulo IdxMod, 2^16 in the code.                 *)
(***************************************************************************)
EXTENDS Integers, Sequences, SequencesExt, Functions, FiniteSets

CONSTANTS
  MaxNum,   \* VIRTQ_MAX_SIZE
  IdxMod    \* how many values the 16-bit indices have

ASSUME QueueAssumption == MaxNum \in Nat \ {0} /\ IdxMod \in Nat /\ IdxMod > MaxNum

\* virtio: the sizes of queues divide 2^16.
QueueSizes == {n \in 1 .. MaxNum : IdxMod % n = 0}

NoDesc == -1                \* 0xFFFF
Indices == 0 .. IdxMod - 1

VARIABLES
  num,            \* vq->num, the number of descriptors
  next,           \* desc[i].next
  more,           \* VRING_DESC_F_NEXT of desc[i].flags
  free_head,
  avail_idx,      \* vq->avail_idx and avail->idx
  avail,          \* avail->ring
  last_used_idx,
  used_idx,       \* used->idx
  used,           \* used->ring, the ids
  seen_idx        \* external: how far the device has read the available ring

queueVars == <<num, next, more, free_head, avail_idx, avail, last_used_idx,
               used_idx, used, seen_idx>>

Descs == 0 .. num - 1

QueueTypeOK ==
  /\ num \in QueueSizes \cup {0}
  /\ next \in [Descs -> Descs \cup {NoDesc}]
  /\ more \in [Descs -> BOOLEAN]
  /\ num = 0 \/ free_head \in Descs \cup {NoDesc}
  /\ avail_idx \in Indices /\ last_used_idx \in Indices
  /\ used_idx \in Indices /\ seen_idx \in Indices
  /\ avail \in [Descs -> Descs] /\ used \in [Descs -> Descs]

\* A struct virtqueue that is still zeroed.
QueueInit ==
  /\ num = 0 /\ free_head = 0
  /\ next = <<>> /\ more = <<>> /\ avail = <<>> /\ used = <<>>
  /\ avail_idx = 0 /\ last_used_idx = 0 /\ used_idx = 0 /\ seen_idx = 0

\* virtqueue_init
InitQueue(n) ==
  /\ num' = n /\ free_head' = 0
  /\ next' = [i \in 0 .. n - 1 |-> IF i = n - 1 THEN NoDesc ELSE i + 1]
  /\ more' = [i \in 0 .. n - 1 |-> FALSE]
  /\ avail' = [i \in 0 .. n - 1 |-> 0] /\ used' = [i \in 0 .. n - 1 |-> 0]
  /\ avail_idx' = 0 /\ last_used_idx' = 0 /\ used_idx' = 0 /\ seen_idx' = 0

-----------------------------------------------------------------------------
\* The first len descriptors of the free list, fewer when it is shorter.
FreeChain(len) ==
  LET walk[i \in 0 .. len] ==
        IF i = 0 THEN <<>>
        ELSE LET c == walk[i - 1]
                 d == IF c = <<>> THEN free_head ELSE next[Last(c)] IN
             IF d = NoDesc THEN c ELSE Append(c, d)
  IN  walk[len]

\* The chain that begins at descriptor head.
ChainOf(head) ==
  LET walk[i \in 1 .. num] ==
        IF i = 1 THEN <<head>>
        ELSE LET c == walk[i - 1] IN
             IF more[Last(c)] THEN Append(c, next[Last(c)]) ELSE c
  IN  walk[num]

HasRoom(len) == Len(FreeChain(len)) = len

\* (Variant: the last descriptor keeps the flag it had.)
AddChainKeepsFlag(len) ==
  LET chain == FreeChain(len) IN
  /\ more' = [d \in Descs |-> IF d \in Range(Front(chain)) THEN TRUE ELSE more[d]]
  /\ free_head' = next[Last(chain)]
  /\ next' = [next EXCEPT ![Last(chain)] = 0]
  /\ avail' = [avail EXCEPT ![avail_idx % num] = chain[1]]
  /\ avail_idx' = (avail_idx + 1) % IdxMod
  /\ UNCHANGED <<num, last_used_idx, used_idx, used, seen_idx>>

\* (Variant: avail_idx is wider than the ring's 16 bits.)
AddChainWide(len) ==
  LET chain == FreeChain(len) IN
  /\ more' = [d \in Descs |-> IF d \in Range(chain) THEN d # Last(chain) ELSE more[d]]
  /\ free_head' = next[Last(chain)]
  /\ next' = [next EXCEPT ![Last(chain)] = 0]
  /\ avail' = [avail EXCEPT ![avail_idx % num] = chain[1]]
  /\ avail_idx' = avail_idx + 1
  /\ UNCHANGED <<num, last_used_idx, used_idx, used, seen_idx>>

\* virtqueue_add_chain of len buffers when there is room, and the kick.
AddChain(len) ==
  LET chain == FreeChain(len) IN
  /\ more' = [d \in Descs |-> IF d \in Range(chain) THEN d # Last(chain) ELSE more[d]]
  /\ free_head' = next[Last(chain)]
  /\ next' = [next EXCEPT ![Last(chain)] = 0]
  /\ avail' = [avail EXCEPT ![avail_idx % num] = chain[1]]
  /\ avail_idx' = (avail_idx + 1) % IdxMod
  /\ UNCHANGED <<num, last_used_idx, used_idx, used, seen_idx>>

\* (Variant: an index that has caught up counts as a used buffer.)
HasUsedOrEqual == last_used_idx <= used_idx

HasUsed == last_used_idx # used_idx

\* virtqueue_get_used when there is a used buffer: its descriptors are pushed
\* on the free list one after the other.
GetUsed ==
  LET chain == ChainOf(used[last_used_idx % num]) IN
  /\ next' = [d \in Descs |->
       IF d = chain[1] THEN free_head
       ELSE IF d \in Range(chain) THEN chain[(CHOOSE i \in DOMAIN chain : chain[i] = d) - 1]
       ELSE next[d]]
  /\ free_head' = Last(chain)
  /\ last_used_idx' = (last_used_idx + 1) % IdxMod
  /\ UNCHANGED <<num, more, avail_idx, avail, used_idx, used, seen_idx>>

\* The device takes the next available chain, ...
HasAvail == seen_idx # avail_idx
NextAvail == avail[seen_idx % num]
TakeAvail ==
  /\ seen_idx' = (seen_idx + 1) % IdxMod
  /\ UNCHANGED <<num, next, more, free_head, avail_idx, avail, last_used_idx, used_idx, used>>

\* ... and puts one into the used ring when it has finished with it.
PutUsed(head) ==
  /\ used' = [used EXCEPT ![used_idx % num] = head]
  /\ used_idx' = (used_idx + 1) % IdxMod
  /\ UNCHANGED <<num, next, more, free_head, avail_idx, avail, last_used_idx, seen_idx>>

-----------------------------------------------------------------------------
\* The entries of a ring from index i up to index j.
Between(ring, i, j) == {ring[(i + k) % num] : k \in 0 .. ((j - i) % IdxMod) - 1}

\* Given the heads that the device is working on: every descriptor is either
\* in the free list or in exactly one chain on its way to the device, in it,
\* or on its way back; none is lost, and none is given out twice.
DescriptorsAccounted(working) ==
  LET free == FreeChain(num + 1)
      avl == Between(avail, seen_idx, avail_idx)
      usd == Between(used, last_used_idx, used_idx)
      heads == avl \cup working \cup usd
      chains == {Range(ChainOf(h)) : h \in heads} IN
  /\ IsInjective(free)
  /\ Cardinality(heads) = ((avail_idx - seen_idx) % IdxMod) + Cardinality(working)
                            + ((used_idx - last_used_idx) % IdxMod)
  /\ \A h, g \in heads : h # g => Range(ChainOf(h)) \cap Range(ChainOf(g)) = {}
  /\ Range(free) \cap UNION chains = {}
  /\ Range(free) \cup UNION chains = Descs

=============================================================================
