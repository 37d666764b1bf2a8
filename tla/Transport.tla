----------------------------- MODULE Transport -----------------------------
(***************************************************************************)
(* From a device on the PCI bus to a driver that can use it: pci.c, which  *)
(* finds the device and gives its BARs addresses, virtio_pci.c, which      *)
(* looks up its registers, negotiates and sets up the queues, the static   *)
(* rings of virtqueue.c, and the init functions of the five drivers, each  *)
(* with the points at which it gives up.  The init functions run one after *)
(* the other, in any order and again, as the demos of main.c call them.    *)
(***************************************************************************)
EXTENDS Integers, Sequences, SequencesExt, FiniteSets

CONSTANTS
  Buses,       \* what may be on bus 0: functions from its slots to devices
  Inputs,      \* input_devs: the names of the entries (MAX_INPUT_DEVS of them)
  MaxQueues,   \* VIRTQ_MAX_QUEUES
  MmioBase,    \* where mmio32_alloc begins
  PioBase,     \* where pio_alloc begins
  MaxInits     \* how many init functions are called (a bound)

Singles == {"rng", "blk", "gpu", "net"}      \* the statics of main.c
Handles == Singles \cup Range(Inputs)
IdOf(h) == IF h \in Singles THEN h ELSE "input"

\* The sizes of the queues that each driver asks for.
Desired == [rng |-> <<16>>, blk |-> <<32>>, gpu |-> <<64>>,
            net |-> <<256, 256>>, input |-> <<64, 8>>]

\* A device: what it is, its BARs, its vendor capabilities in the order of the
\* list, whether it accepts the features, and the sizes its queues may have,
\* 0 for a queue that is not there.  The BAR behind a "mem64" is a "high".
BarKinds == {"none", "io", "mem32", "mem64", "high"}
CfgTypes == {"common", "notify", "isr", "device"}
IsDevice(d) ==
  /\ d.id \in {"rng", "blk", "gpu", "net", "input", "other"}
  /\ d.bars \in Seq([kind : BarKinds, size : Nat \ {0}])
  /\ d.caps \in Seq([cfg : CfgTypes, bar : DOMAIN d.bars])
  /\ d.accepts \in BOOLEAN
  /\ d.queues \in Seq(Nat) /\ (d.id # "other" => Len(d.queues) = Len(Desired[d.id]))

ASSUME BusesAssumption == \A b \in Buses : \A s \in DOMAIN b : s \in Nat /\ IsDevice(b[s])
ASSUME InputsAssumption ==       \* the entries are different structs, and not the statics
  /\ Inputs \in Seq(Range(Inputs)) /\ Len(Inputs) > 0
  /\ \A i, j \in DOMAIN Inputs : Inputs[i] = Inputs[j] => i = j
  /\ Range(Inputs) \cap (Singles \cup {"nobody"}) = {}
ASSUME TransportAssumption ==
  /\ MaxQueues \in Nat /\ MmioBase \in Nat \ {0} /\ PioBase \in Nat \ {0} /\ MaxInits \in Nat

Nobody == "nobody"
NoAddr == 0
NoRing == -1          \* the pointers of a struct virtqueue that is still zeroed
NoCfg == [c \in CfgTypes |-> NoAddr]

VARIABLES
  bus,              \* external: the devices, by slot
  window,           \* the addresses in the BARs, as the device decodes them
  status,           \* the device status register
  given,            \* the rings that the device was told to use, by queue
  mmio32_alloc, pio_alloc, next_queue_slot,
  drv,              \* struct virtio_blk etc.: slot, BARs, registers, queues
  live,             \* the drivers that have set DRIVER_OK
  input_dev_count,
  at,               \* the init function that runs: for whom, its next step, and
                    \* from which slot find_and_init_input goes on
  starved,          \* has virtqueue_init ever run out of rings?
  inits             \* how many init functions were called

transportVars == <<bus, window, status, given, mmio32_alloc, pio_alloc,
                   next_queue_slot, drv, live, input_dev_count, at, starved, inits>>

Idle == [who |-> Nobody, step |-> "idle", scan |-> 0]
NoQueue == [ring |-> NoRing, num |-> 0]

TransportTypeOK ==
  /\ bus \in Buses
  /\ \A s \in DOMAIN bus :
       /\ window[s] \in [DOMAIN bus[s].bars -> Nat]
       /\ status[s] \in {"reset", "driver", "features_ok", "driver_ok", "failed"}
       /\ given[s] \in [DOMAIN bus[s].queues -> NoRing .. MaxQueues - 1]
  /\ next_queue_slot \in 0 .. MaxQueues
  /\ live \subseteq Handles
  /\ input_dev_count \in 0 .. Len(Inputs)
  /\ at.who \in Handles \cup {Nobody}
  /\ starved \in BOOLEAN /\ inits \in 0 .. MaxInits

TransportInit ==
  /\ bus \in Buses
  /\ window = [s \in DOMAIN bus |-> [i \in DOMAIN bus[s].bars |-> NoAddr]]
  /\ status = [s \in DOMAIN bus |-> "reset"]
  /\ given = [s \in DOMAIN bus |-> [q \in DOMAIN bus[s].queues |-> NoRing]]
  /\ mmio32_alloc = MmioBase /\ pio_alloc = PioBase /\ next_queue_slot = 0
  /\ drv = [h \in Handles |->
              [slot |-> -1, bars |-> <<>>, cfg |-> NoCfg,
               vq |-> [q \in DOMAIN Desired[IdOf(h)] |-> NoQueue]]]
  /\ live = {} /\ input_dev_count = 0 /\ at = Idle
  /\ starved = FALSE /\ inits = 0

-----------------------------------------------------------------------------
\* (Variant: the block begins where the last one ended.)
NoAlign(a, n) == a

\* The next multiple of n, where a naturally aligned block can begin.
AlignUp(a, n) == ((a + n - 1) \div n) * n

\* One turn of the loop of pci_assign_bars.
AssignBar(acc, b) ==
  LET io == AlignUp(acc.pio, b.size)
      mem == AlignUp(acc.mmio, b.size) IN
  CASE b.kind = "io" -> [acc EXCEPT !.addr = Append(@, io), !.pio = io + b.size]
    [] b.kind \in {"mem32", "mem64"} ->
         [acc EXCEPT !.addr = Append(@, mem), !.mmio = mem + b.size]
    [] OTHER -> [acc EXCEPT !.addr = Append(@, NoAddr)]

\* The addresses of the BARs of a device, and what is left of the allocators.
AssignBars(bars) ==
  LET turn[i \in 0 .. Len(bars)] ==
        IF i = 0 THEN [mmio |-> mmio32_alloc, pio |-> pio_alloc, addr |-> <<>>]
        ELSE AssignBar(turn[i - 1], bars[i])
  IN  turn[Len(bars)]

\* A BAR has no bits below its size: the device decodes from there.
Decoded(addr, b) == addr - (addr % b.size)

Start(h) ==
  /\ at = Idle /\ inits < MaxInits
  /\ at' = [Idle EXCEPT !.who = h, !.step = "find"]
  /\ inits' = inits + 1
  /\ UNCHANGED <<bus, window, status, given, mmio32_alloc, pio_alloc,
                 next_queue_slot, drv, starved>>

StartSingle(h) ==
  /\ Start(h)
  /\ live' = live \ {h}
  /\ UNCHANGED input_dev_count

\* virtio_input_init_all forgets the devices that it had.
StartInputs ==
  /\ Start(Inputs[1])
  /\ live' = live \ Range(Inputs)
  /\ input_dev_count' = 0

\* The init function returns -1; the scan for input devices goes on with the
\* same entry.
GiveUp(h) ==
  at' = IF h \in Singles THEN Idle ELSE [at EXCEPT !.step = "find"]

Claimed(s) == \E i \in 1 .. input_dev_count : drv[Inputs[i]].slot = s
Candidates(h) ==
  {s \in DOMAIN bus : /\ bus[s].id = IdOf(h) /\ s >= at.scan
                      /\ h \in Singles \/ ~Claimed(s)}

\* The search ends without a device.
FindNone(h) ==
  /\ at.who = h /\ at.step = "find" /\ Candidates(h) = {}
  /\ at' = Idle
  /\ UNCHANGED <<bus, window, status, given, mmio32_alloc, pio_alloc,
                 next_queue_slot, drv, live, input_dev_count, starved, inits>>

\* pci_find_virtio_rng and its brothers, with pci_assign_bars.
Find(h) ==
  /\ at.who = h /\ at.step = "find" /\ Candidates(h) # {}
  /\ LET s == CHOOSE s \in Candidates(h) : \A t \in Candidates(h) : s <= t
         bars == bus[s].bars
         all == AssignBars(bars) IN
     /\ mmio32_alloc' = all.mmio /\ pio_alloc' = all.pio
     /\ window' = [window EXCEPT ![s] = [i \in DOMAIN bars |-> Decoded(all.addr[i], bars[i])]]
     /\ drv' = [drv EXCEPT ![h].slot = s, ![h].bars = all.addr]
     /\ at' = [at EXCEPT !.step = "caps", !.scan = s + 1]
  /\ UNCHANGED <<bus, status, given, next_queue_slot, live, input_dev_count, starved, inits>>

\* virtio_pci_parse_caps: the last capability of a type counts, those in BARs
\* without an address do not; what is not found keeps its old value.
ParseCaps(h) ==
  LET caps == bus[drv[h].slot].caps
      usable(t) == {c \in DOMAIN caps : caps[c].cfg = t /\ drv[h].bars[caps[c].bar] # NoAddr}
      last(t) == CHOOSE c \in usable(t) : \A e \in usable(t) : e <= c IN
  /\ at.who = h /\ at.step = "caps"
  /\ drv' = [drv EXCEPT ![h].cfg = [t \in CfgTypes |->
               IF usable(t) # {} THEN drv[h].bars[caps[last(t)].bar] ELSE @[t]]]
  /\ IF \A t \in {"common", "notify", "isr"} : usable(t) # {}
     THEN at' = [at EXCEPT !.step = "negotiate"]
     ELSE GiveUp(h)
  /\ UNCHANGED <<bus, window, status, given, mmio32_alloc, pio_alloc,
                 next_queue_slot, live, input_dev_count, starved, inits>>

\* virtio_pci_init_device, whose reset makes the device forget its queues; blk
\* and net want the device's configuration as well.
Negotiate(h) ==
  LET s == drv[h].slot IN
  /\ at.who = h /\ at.step = "negotiate"
  /\ given' = [given EXCEPT ![s] = [q \in DOMAIN @ |-> NoRing]]
  /\ status' = [status EXCEPT ![s] = IF bus[s].accepts THEN "features_ok" ELSE "failed"]
  /\ IF bus[s].accepts /\ (h \in {"blk", "net"} => drv[h].cfg["device"] # NoAddr)
     THEN at' = [at EXCEPT !.step = "queue1"]
     ELSE GiveUp(h)
  /\ UNCHANGED <<bus, window, mmio32_alloc, pio_alloc, next_queue_slot, drv,
                 live, input_dev_count, starved, inits>>

QueueStep == <<"queue1", "queue2", "live">>

SetupNone(h, q) ==
  /\ at.who = h /\ at.step = QueueStep[q] /\ bus[drv[h].slot].queues[q] = 0
  /\ GiveUp(h)
  /\ UNCHANGED <<bus, window, status, given, mmio32_alloc, pio_alloc,
                 next_queue_slot, drv, live, input_dev_count, starved, inits>>

\* (Variant: the counter of rings in use is not increased.)
SameSlot(n) == n

\* next_queue_slot++, while there are rings left.
NextSlot(n) == IF n < MaxQueues THEN n + 1 ELSE n

\* virtio_pci_setup_queue with virtqueue_init, which says nothing to its
\* caller when there are no rings left.
SetupQueue(h, q) ==
  LET s == drv[h].slot
      size == bus[s].queues[q]
      want == Desired[IdOf(h)][q]
      vq == IF next_queue_slot < MaxQueues
            THEN [ring |-> next_queue_slot, num |-> IF want > size THEN size ELSE want]
            ELSE drv[h].vq[q] IN
  /\ at.who = h /\ at.step = QueueStep[q] /\ size > 0
  /\ drv' = [drv EXCEPT ![h].vq[q] = vq]
  /\ given' = [given EXCEPT ![s][q] = vq.ring]
  /\ next_queue_slot' = NextSlot(next_queue_slot)
  /\ starved' = (starved \/ next_queue_slot = MaxQueues)
  /\ at' = [at EXCEPT !.step = IF q < Len(Desired[IdOf(h)]) THEN QueueStep[q + 1] ELSE "live"]
  /\ UNCHANGED <<bus, window, status, mmio32_alloc, pio_alloc, live, input_dev_count, inits>>

\* virtio_pci_set_driver_ok, the end of the init function (the commands of gpu
\* and the first buffers of net and input are in Drivers); the scan for input
\* devices goes on while it has entries.
GoLive(h) ==
  /\ at.who = h /\ at.step = "live"
  /\ status' = [status EXCEPT ![drv[h].slot] = "driver_ok"]
  /\ live' = live \cup {h}
  /\ IF h \in Singles
     THEN at' = Idle /\ UNCHANGED input_dev_count
     ELSE /\ input_dev_count' = input_dev_count + 1
          /\ at' = IF input_dev_count' < Len(Inputs)
                   THEN [at EXCEPT !.who = Inputs[input_dev_count' + 1], !.step = "find"]
                   ELSE Idle
  /\ UNCHANGED <<bus, window, given, mmio32_alloc, pio_alloc, next_queue_slot, drv,
                 starved, inits>>

TransportNext ==
  \/ \E h \in Singles : StartSingle(h)
  \/ StartInputs
  \/ \E h \in Handles :
       \/ FindNone(h) \/ Find(h) \/ ParseCaps(h) \/ Negotiate(h) \/ GoLive(h)
       \/ \E q \in DOMAIN Desired[IdOf(h)] : SetupNone(h, q) \/ SetupQueue(h, q)

-----------------------------------------------------------------------------
(* Properties.                                                             *)

Windows == UNION {{<<s, i>> : i \in {j \in DOMAIN window[s] : window[s][j] # NoAddr}} :
                  s \in DOMAIN bus}
Bytes(w) == window[w[1]][w[2]] .. window[w[1]][w[2]] + bus[w[1]].bars[w[2]].size - 1
IsIo(w) == bus[w[1]].bars[w[2]].kind = "io"

\* However often and in whatever order devices are brought up, no two BARs of
\* one address space answer to the same address, and no two at all while the
\* memory allocator, which has no limit, has not come as far as the I/O
\* window; and a driver that is ready reaches, for each
\* register block that its device offers, a window of its own device: not
\* what a device before it has left in the struct (pci_assign_bars,
\* virtio_pci_parse_caps).  For a block that the device does not offer the
\* struct keeps whatever it held.
WindowsAreApart ==
  /\ \A v, w \in Windows : v # w /\ (IsIo(v) = IsIo(w) \/ mmio32_alloc <= PioBase) =>
       Bytes(v) \cap Bytes(w) = {}
  /\ \A h \in live :
       LET s == drv[h].slot IN
       \A c \in DOMAIN bus[s].caps :
         LET b == bus[s].caps[c].bar IN
         drv[h].bars[b] # NoAddr => \E e \in DOMAIN bus[s].caps :
           /\ bus[s].caps[e].cfg = bus[s].caps[c].cfg
           /\ drv[h].cfg[bus[s].caps[c].cfg] = window[s][bus[s].caps[e].bar]

\* A driver that is ready has a device of its kind to itself, and the device
\* runs; as long as virtqueue_init never ran out of rings, it runs on the
\* rings that the driver writes to, and no other device on these.
DriversOwnTheirQueues ==
  /\ TransportTypeOK
  /\ \A h \in live : bus[drv[h].slot].id = IdOf(h) /\ status[drv[h].slot] = "driver_ok"
  /\ \A g, h \in live : drv[g].slot = drv[h].slot => g = h
  /\ ~starved =>
       /\ \A h \in live : \A q \in DOMAIN drv[h].vq :
            /\ drv[h].vq[q].ring # NoRing /\ given[drv[h].slot][q] = drv[h].vq[q].ring
            /\ drv[h].vq[q].num \in 1 .. bus[drv[h].slot].queues[q]
       /\ \A s, t \in DOMAIN bus : status[s] = "driver_ok" /\ status[t] = "driver_ok" =>
            \A q \in DOMAIN given[s], r \in DOMAIN given[t] :
              given[s][q] = given[t][r] => s = t /\ q = r

=============================================================================
