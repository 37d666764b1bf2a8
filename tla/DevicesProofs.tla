---------------------------- MODULE DevicesProofs ----------------------------
(***************************************************************************)
(* Proofs about Devices: what holds of the bus and of the drivers however  *)
(* many devices there are, however they are brought up, and whatever the   *)
(* sizes of BARs, queues, pools and rings.                                 *)
(***************************************************************************)
EXTENDS Devices, FiniteSetTheorems, WellFoundedInduction, TLAPS

\* Among the steps after which a loop of the code finds what it looks for
\* there is a least one, so that a CHOOSE of it is meaningful.
LEMMA LeastSteps ==
  ASSUME NEW S \in SUBSET Nat, S # {}
  PROVE  \E i \in S : \A j \in S : i <= j
<1> DEFINE below(i) == 0 .. i - 1
           T == {below(i) : i \in S}
<1>1. T \subseteq FiniteSubsetsOf(Nat) /\ T # {}
  <2>1. ASSUME NEW i \in S
        PROVE  IsFiniteSet(below(i)) /\ below(i) \subseteq Nat
    BY FS_Interval
  <2>2. T # {}
    OBVIOUS
  <2>3. QED
    BY <2>1, <2>2 DEF FiniteSubsetsOf
<1>2. PICK u \in T : \A v \in T : <<v, u>> \notin StrictSubsetOrdering(Nat)
  BY <1>1, FS_StrictSubsetOrderingWellFounded, WFMin
<1>3. PICK x \in S : u = below(x)
  OBVIOUS
<1>4. ASSUME NEW j \in S, j < x
      PROVE  FALSE
  <2>1. below(j) \subseteq below(x) /\ below(j) # below(x) /\ j \in below(x)
    BY <1>4
  <2>2. <<below(j), u>> \in StrictSubsetOrdering(Nat)
    BY <2>1, <1>3 DEF StrictSubsetOrdering
  <2>3. QED
    BY <2>2, <1>2
<1>5. QED
  BY <1>4

\* What holds at the first number of an interval and is handed on from each
\* to the next holds on all of it: induction, for a set instead of a formula.
LEMMA IntervalInduction ==
  ASSUME NEW a \in Int, NEW b \in Int, NEW S,
         a <= b => a \in S,
         \A n \in a .. b - 1 : n \in S => n + 1 \in S
  PROVE  a .. b \subseteq S
<1> DEFINE Bad == {k \in Nat : a + k <= b /\ a + k \notin S}
<1> SUFFICES ASSUME NEW i \in a .. b, i \notin S PROVE FALSE
  OBVIOUS
<1>1. i - a \in Bad
  <2>1. i - a \in Nat /\ a + (i - a) = i
    OBVIOUS
  <2>2. QED
    BY <2>1
<1>2. PICK k \in Bad : \A j \in Bad : k <= j
  <2>1. Bad \in SUBSET Nat
    OBVIOUS
  <2>2. QED
    BY <1>1, <2>1, LeastSteps
<1>3. k # 0
  BY <1>2
<1>4. k - 1 \in Nat /\ k - 1 \notin Bad
  BY <1>2, <1>3
<1>5. a + (k - 1) \in a .. b - 1 /\ a + (k - 1) \in S
  BY <1>2, <1>4
<1>6. a + (k - 1) + 1 \in S
  BY <1>5
<1>7. QED
  BY <1>2, <1>6

\* f has the values of a loop that starts with s and makes step once for
\* every number of an interval.
IsLoop(f, V, s, a, b, step) ==
  /\ f \in [a .. b -> V]
  /\ \A n \in a .. b : f[n] = IF n = a THEN s ELSE step[<<f[n - 1], n - 1>>]

\* There is such a function: a recursive definition of that form has a value.
LEMMA LoopExists ==
  ASSUME NEW V, NEW s \in V, NEW a \in Int, NEW b \in Int, a <= b,
         NEW step \in [V \X Int -> V]
  PROVE  \E f : IsLoop(f, V, s, a, b, step)
<1> DEFINE Loop(f, m) ==
             \A n \in a .. m : f[n] = IF n = a THEN s ELSE step[<<f[n - 1], n - 1>>]
           S == {m \in a .. b : \E f \in [a .. m -> V] : Loop(f, m)}
<1>1. a \in S
  <2> DEFINE f == [n \in a .. a |-> s]
  <2>1. f \in [a .. a -> V] /\ Loop(f, a)
    OBVIOUS
  <2>2. a \in a .. b
    OBVIOUS
  <2>3. QED
    BY <2>1, <2>2
<1>2. ASSUME NEW m \in a .. b - 1, m \in S PROVE m + 1 \in S
  <2>1. PICK f \in [a .. m -> V] : Loop(f, m)
    BY <1>2
  <2> DEFINE g == [n \in a .. m + 1 |-> IF n = m + 1 THEN step[<<f[m], m>>] ELSE f[n]]
  <2>2. m \in a .. m /\ f[m] \in V /\ m + 1 \in a .. b /\ m \in Int
    OBVIOUS
  <2>3. step[<<f[m], m>>] \in V
    BY <2>2
  <2>4. g \in [a .. m + 1 -> V]
    BY <2>3
  <2>5. ASSUME NEW n \in a .. m + 1
        PROVE  g[n] = IF n = a THEN s ELSE step[<<g[n - 1], n - 1>>]
    <3>1. CASE n = m + 1
      <4>1. n # a /\ n - 1 = m /\ g[m] = f[m] /\ g[n] = step[<<f[m], m>>]
        BY <3>1, <2>2
      <4>2. QED
        BY <4>1
    <3>2. CASE n # m + 1
      <4>1. n \in a .. m /\ g[n] = f[n] /\ (n # a => n - 1 \in a .. m + 1 /\ g[n - 1] = f[n - 1])
        BY <3>2
      <4>2. QED
        BY <4>1, <2>1
    <3>3. QED
      BY <3>1, <3>2
  <2>6. QED
    BY <2>2, <2>4, <2>5
<1>3. a .. b \subseteq S
  <2> HIDE DEF S
  <2>1. a <= b => a \in S
    BY <1>1
  <2>2. \A n \in a .. b - 1 : n \in S => n + 1 \in S
    BY <1>2
  <2>3. QED
    BY <2>1, <2>2, IntervalInduction
<1>4. QED
  BY <1>3 DEF IsLoop

(***************************************************************************)
(* Bringing devices up.                                                    *)
(***************************************************************************)

\* The steps of an init function that has found its device, and those after
\* virtio_pci_init_device.
Found == {"caps", "negotiate", "queue1", "queue2", "live"}
Accepted == {"queue1", "queue2", "live"}

Queues(h) == DOMAIN Desired[IdOf(h)]

\* The drivers that have a device: those that are ready and the one that has
\* just found its own.  Each one's registers have been looked up.
Bound(h) == h \in live \/ (at.who = h /\ at.step \in Found)
LookedUp(h) == h \in live \/ (at.who = h /\ at.step \in Found \ {"caps"})

\* Queue q of driver h has been set up.
IsSetUp(h, q) ==
  \/ h \in live
  \/ at.who = h /\ (at.step = "live" \/ (at.step = "queue2" /\ q = 1))

\* What kind of values there are, slot by slot and driver by driver.
TypesInv ==
  /\ bus \in Buses
  /\ window = [s \in DOMAIN bus |-> window[s]]
  /\ \A s \in DOMAIN bus : window[s] \in [DOMAIN bus[s].bars -> Nat]
  /\ status \in [DOMAIN bus -> {"reset", "driver", "features_ok", "driver_ok", "failed"}]
  /\ given = [s \in DOMAIN bus |-> given[s]]
  /\ \A s \in DOMAIN bus : given[s] \in [DOMAIN bus[s].queues -> NoRing .. MaxQueues - 1]
  /\ next_queue_slot \in 0 .. MaxQueues
  /\ starved \in BOOLEAN /\ inits \in 0 .. MaxInits
  /\ mmio32_alloc \in Nat \ {0} /\ pio_alloc \in Nat \ {0}
  /\ drv = [h \in Handles |-> drv[h]]
  /\ \A h \in Handles :
       /\ drv[h] = [slot |-> drv[h].slot, bars |-> drv[h].bars, cfg |-> drv[h].cfg,
                    vq |-> drv[h].vq]
       /\ drv[h].cfg \in [CfgTypes -> Nat]
       /\ drv[h].vq \in [Queues(h) -> [ring : NoRing .. MaxQueues - 1, num : Nat]]

\* Which init function runs, and which drivers are ready: the entries of
\* input_devs are filled from the first on.
ControlInv ==
  /\ at = [who |-> at.who, step |-> at.step, scan |-> at.scan]
  /\ at.scan \in Nat
  /\ at = Idle \/ (at.who \in Handles /\ at.step \in {"find"} \cup Found)
  /\ live \subseteq Handles
  /\ input_dev_count \in 0 .. Len(Inputs)
  /\ live \cap Range(Inputs) = {Inputs[i] : i \in 1 .. input_dev_count}
  /\ at.who \in Range(Inputs) =>
       input_dev_count < Len(Inputs) /\ at.who = Inputs[input_dev_count + 1]
  /\ at.who \notin live
  /\ at.step = "queue2" => 2 \in Queues(at.who)

\* Every driver with a device has it to itself, and knows what addresses its
\* BARs have.
BoundInv ==
  /\ \A h \in Handles : Bound(h) =>
       /\ drv[h].slot \in DOMAIN bus /\ bus[drv[h].slot].id = IdOf(h)
       /\ \A i \in DOMAIN bus[drv[h].slot].bars : drv[h].bars[i] = window[drv[h].slot][i]
  /\ \A g, h \in Handles : Bound(g) /\ Bound(h) /\ drv[g].slot = drv[h].slot => g = h

\* The device of a driver that is ready runs; a device whose queues are being
\* set up does not.
StatusInv ==
  /\ \A h \in live : status[drv[h].slot] = "driver_ok"
  /\ at.step \in Accepted => status[drv[at.who].slot] # "driver_ok"

\* As long as there were rings for everybody: no ring is given out twice, and
\* driver and device agree on those of the queues that have been set up.
RingsInv ==
  ~starved =>
    /\ \A s \in DOMAIN bus : \A q \in DOMAIN given[s] :
         /\ given[s][q] < next_queue_slot
         /\ status[s] = "driver_ok" => given[s][q] # NoRing
    /\ \A s, t \in DOMAIN bus : \A q \in DOMAIN given[s], r \in DOMAIN given[t] :
         given[s][q] = given[t][r] /\ given[s][q] # NoRing => s = t /\ q = r
    /\ \A h \in Handles : \A q \in Queues(h) : Bound(h) /\ IsSetUp(h, q) =>
         /\ drv[h].vq[q].ring # NoRing /\ given[drv[h].slot][q] = drv[h].vq[q].ring
         /\ drv[h].vq[q].num \in 1 .. bus[drv[h].slot].queues[q]

BringUpInv == TypesInv /\ ControlInv /\ BoundInv /\ StatusInv /\ RingsInv

\* The windows of each address space lie between where its allocator began
\* and where it is, one after the other.
Size(s, i) == bus[s].bars[i].size
Kind(s, i) == bus[s].bars[i].kind
Before(s, i, t, j) == window[s][i] + Size(s, i) <= window[t][j]
WindowsInv ==
  /\ mmio32_alloc >= MmioBase /\ pio_alloc >= PioBase
  /\ \A s \in DOMAIN bus : \A i \in DOMAIN bus[s].bars : window[s][i] # NoAddr =>
       /\ Kind(s, i) \in {"io", "mem32", "mem64"}
       /\ Kind(s, i) = "io" =>
            PioBase <= window[s][i] /\ window[s][i] + Size(s, i) <= pio_alloc
       /\ Kind(s, i) # "io" =>
            MmioBase <= window[s][i] /\ window[s][i] + Size(s, i) <= mmio32_alloc
  /\ \A s, t \in DOMAIN bus : \A i \in DOMAIN bus[s].bars, j \in DOMAIN bus[t].bars :
       /\ s # t \/ i # j
       /\ window[s][i] # NoAddr /\ window[t][j] # NoAddr
       /\ (Kind(s, i) = "io") = (Kind(t, j) = "io")
       => Before(s, i, t, j) \/ Before(t, j, s, i)

\* The registers of a driver lie in a window that its device has offered for
\* them.
InWindows(caps, bars, cfg, win) ==
  \A c \in DOMAIN caps : bars[caps[c].bar] # NoAddr =>
    \E e \in DOMAIN caps : /\ caps[e].cfg = caps[c].cfg
                          /\ cfg[caps[c].cfg] = win[caps[e].bar]
RegistersInv ==
  \A h \in Handles : LookedUp(h) =>
    InWindows(bus[drv[h].slot].caps, drv[h].bars, drv[h].cfg, window[drv[h].slot])

AddressInv == WindowsInv /\ RegistersInv

-----------------------------------------------------------------------------
\* The drivers and their devices.
LEMMA HandleFacts ==
  /\ \A h \in Handles : /\ h \in Singles <=> h \notin Range(Inputs)
                        /\ IdOf(h) \in DOMAIN Desired /\ IdOf(h) # "other"
                        /\ h # Nobody
                        /\ h \in Singles => IdOf(h) = h
                        /\ h \in Range(Inputs) => IdOf(h) = "input"
                        /\ Queues(h) \in {1 .. 1, 1 .. 2} /\ 1 \in Queues(h)
                        /\ Queues(h) = 1 .. Len(Desired[IdOf(h)])
                        /\ Len(Desired[IdOf(h)]) \in {1, 2}
                        /\ \A q \in Queues(h) : Desired[IdOf(h)][q] \in Nat \ {0}
  /\ Nobody \notin Handles /\ Nobody \notin Range(Inputs)
  /\ Len(Inputs) \in Nat \ {0} /\ \A i \in 1 .. Len(Inputs) : Inputs[i] \in Range(Inputs)
  /\ Range(Inputs) \subseteq Handles /\ Singles \subseteq Handles
<1>1. \A h \in Handles : IdOf(h) \in {"rng", "blk", "gpu", "net", "input"}
  BY DEF Handles, IdOf, Singles
<1>2. \A x \in {"rng", "blk", "gpu", "net", "input"} :
        /\ x \in DOMAIN Desired /\ Len(Desired[x]) \in {1, 2} /\ Desired[x] \in Seq(Nat \ {0})
  <2>1. /\ Desired["rng"] = <<16>> /\ Desired["blk"] = <<32>> /\ Desired["gpu"] = <<64>>
        /\ Desired["net"] = <<256, 256>> /\ Desired["input"] = <<64, 8>>
        /\ DOMAIN Desired = {"rng", "blk", "gpu", "net", "input"}
    BY DEF Desired
  <2>2. /\ <<16>> \in Seq(Nat \ {0}) /\ <<32>> \in Seq(Nat \ {0}) /\ <<64>> \in Seq(Nat \ {0})
        /\ Len(<<16>>) = 1 /\ Len(<<32>>) = 1 /\ Len(<<64>>) = 1
    OBVIOUS
  <2>3. /\ <<256, 256>> \in Seq(Nat \ {0}) /\ <<64, 8>> \in Seq(Nat \ {0})
        /\ Len(<<256, 256>>) = 2 /\ Len(<<64, 8>>) = 2
    OBVIOUS
  <2> DEFINE Good(x) == x \in DOMAIN Desired /\ Len(Desired[x]) \in {1, 2} /\ Desired[x] \in Seq(Nat \ {0})
  <2>4. Good("rng") /\ Good("blk") /\ Good("gpu")
    BY <2>1, <2>2
  <2>5. Good("net") /\ Good("input")
    BY <2>1, <2>3
  <2>6. QED
    <3> HIDE DEF Good
    <3>1. \A x \in {"rng", "blk", "gpu", "net", "input"} : Good(x)
      BY <2>4, <2>5
    <3>2. QED
      BY <3>1 DEF Good
<1>3. \A h \in Handles : Desired[IdOf(h)] \in Seq(Nat \ {0}) /\ Len(Desired[IdOf(h)]) \in {1, 2}
  BY <1>1, <1>2
<1>4. ASSUME NEW h \in Handles
      PROVE  /\ Queues(h) = 1 .. Len(Desired[IdOf(h)])
             /\ \A q \in Queues(h) : Desired[IdOf(h)][q] \in Nat \ {0}
  BY <1>3 DEF Queues
<1>5. Range(Inputs) = {Inputs[i] : i \in 1 .. Len(Inputs)} /\ Len(Inputs) \in Nat \ {0}
  BY InputsAssumption DEF Range
<1>6. \A h \in Handles : h \in Singles <=> h \notin Range(Inputs)
  BY InputsAssumption DEF Handles
<1>7. \A h \in Handles : /\ h \in Singles => IdOf(h) = h
                         /\ h \notin Singles => IdOf(h) = "input"
                         /\ h # Nobody
  BY InputsAssumption DEF Handles, IdOf, Singles, Nobody
<1>8. \A h \in Handles : Queues(h) \in {1 .. 1, 1 .. 2} /\ 1 \in Queues(h)
  BY <1>3, <1>4
<1>9. IdOf("rng") # "other" /\ \A h \in Handles : IdOf(h) \in DOMAIN Desired /\ IdOf(h) # "other"
  BY <1>1, <1>2 DEF IdOf, Singles
<1>10. Nobody \notin Handles /\ Nobody \notin Range(Inputs)
  BY <1>7 DEF Handles
<1>11. Range(Inputs) \subseteq Handles /\ Singles \subseteq Handles
  BY DEF Handles
<1>12. \A i \in 1 .. Len(Inputs) : Inputs[i] \in Range(Inputs)
  BY <1>5
<1>13. \A h \in Handles : h \in Range(Inputs) => IdOf(h) = "input"
  BY <1>6, <1>7
<1>14. QED
  BY ONLY <1>3, <1>4, <1>5, <1>6, <1>7, <1>8, <1>9, <1>10, <1>11, <1>12, <1>13

\* What stands on the bus.
Bar == [kind : BarKinds, size : Nat \ {0}]

\* What BusesAssumption says of the bus that there is.
LEMMA BusFacts ==
  ASSUME bus \in Buses
  PROVE  \A s \in DOMAIN bus :
           /\ s \in Nat
           /\ bus[s].bars \in Seq(Bar) /\ bus[s].caps \in Seq([cfg : CfgTypes, bar : DOMAIN bus[s].bars])
           /\ bus[s].accepts \in BOOLEAN
           /\ bus[s].queues \in Seq(Nat)
           /\ \A h \in Handles : bus[s].id = IdOf(h) => DOMAIN bus[s].queues = Queues(h)
<1> SUFFICES ASSUME NEW s \in DOMAIN bus
             PROVE  /\ s \in Nat
                    /\ bus[s].bars \in Seq(Bar)
                    /\ bus[s].caps \in Seq([cfg : CfgTypes, bar : DOMAIN bus[s].bars])
                    /\ bus[s].accepts \in BOOLEAN
                    /\ bus[s].queues \in Seq(Nat)
                    /\ \A h \in Handles : bus[s].id = IdOf(h) => DOMAIN bus[s].queues = Queues(h)
  OBVIOUS
<1>1. s \in Nat /\ IsDevice(bus[s])
  BY BusesAssumption
<1>2. /\ bus[s].bars \in Seq(Bar) /\ bus[s].caps \in Seq([cfg : CfgTypes, bar : DOMAIN bus[s].bars])
      /\ bus[s].accepts \in BOOLEAN /\ bus[s].queues \in Seq(Nat)
      /\ bus[s].id # "other" => Len(bus[s].queues) = Len(Desired[bus[s].id])
  BY <1>1 DEF IsDevice, Bar
<1>3. ASSUME NEW h \in Handles, bus[s].id = IdOf(h)
      PROVE  DOMAIN bus[s].queues = Queues(h)
  <2>1. Len(bus[s].queues) = Len(Desired[IdOf(h)])
    BY <1>2, <1>3, HandleFacts
  <2>2. DOMAIN bus[s].queues = 1 .. Len(bus[s].queues)
    BY <1>2
  <2>3. QED
    BY <2>1, <2>2, HandleFacts
<1>4. QED
  BY <1>1, <1>2, <1>3

\* At boot no driver is ready and no ring is given out.
LEMMA BringUpInit ==
  ASSUME TransportInit
  PROVE  BringUpInv
<1>1. TypesInv
  <2>1. \A s \in DOMAIN bus : window[s] \in [DOMAIN bus[s].bars -> Nat]
    BY DEF TransportInit, NoAddr
  <2>2. \A s \in DOMAIN bus : given[s] \in [DOMAIN bus[s].queues -> NoRing .. MaxQueues - 1]
    BY TransportAssumption DEF TransportInit, NoRing
  <2>3. ASSUME NEW h \in Handles
        PROVE  /\ drv[h] = [slot |-> drv[h].slot, bars |-> drv[h].bars, cfg |-> drv[h].cfg,
                            vq |-> drv[h].vq]
               /\ drv[h].cfg \in [CfgTypes -> Nat]
               /\ drv[h].vq \in [Queues(h) -> [ring : NoRing .. MaxQueues - 1, num : Nat]]
    <3>1. drv[h] = [slot |-> -1, bars |-> <<>>, cfg |-> NoCfg,
                    vq |-> [q \in Queues(h) |-> NoQueue]]
      BY DEF TransportInit, Queues
    <3>2. NoCfg \in [CfgTypes -> Nat]
      BY DEF NoCfg, NoAddr
    <3>3. NoQueue \in [ring : NoRing .. MaxQueues - 1, num : Nat]
      BY TransportAssumption DEF NoQueue, NoRing
    <3>4. QED
      BY <3>1, <3>2, <3>3
  <2>4. drv = [h \in Handles |-> drv[h]]
    BY DEF TransportInit
  <2>5. mmio32_alloc \in Nat \ {0} /\ pio_alloc \in Nat \ {0} /\ inits \in 0 .. MaxInits
        /\ next_queue_slot \in 0 .. MaxQueues
    BY TransportAssumption DEF TransportInit
  <2>6. QED
    BY <2>1, <2>2, <2>3, <2>4, <2>5 DEF TypesInv, TransportInit
<1>2. ControlInv
  BY HandleFacts DEF ControlInv, TransportInit, Idle, Nobody
<1>3. \A h \in Handles : ~Bound(h)
  BY DEF TransportInit, Idle, Bound, Found
<1>4. BoundInv
  BY <1>3 DEF BoundInv
<1>5. StatusInv
  BY DEF StatusInv, TransportInit, Idle, Accepted
<1>6. RingsInv
  <2>1. \A s \in DOMAIN bus : \A q \in DOMAIN given[s] : given[s][q] = NoRing
    BY DEF TransportInit
  <2>2. \A s \in DOMAIN bus : status[s] = "reset"
    BY DEF TransportInit
  <2>3. next_queue_slot = 0
    BY DEF TransportInit
  <2>4. QED
    BY <1>3, <2>1, <2>2, <2>3 DEF RingsInv, NoRing
<1>7. QED
  BY <1>1, <1>2, <1>4, <1>5, <1>6 DEF BringUpInv

\* An init function that begins, or gives up, takes nothing from the others.
LEMMA NothingFound ==
  ASSUME BringUpInv, TypesInv', ControlInv',
         UNCHANGED <<bus, window, status, given, next_queue_slot, drv, starved>>,
         live' \subseteq live, at'.step \notin Found
  PROVE  BringUpInv'
<1>1. \A h : Bound(h)' => Bound(h) /\ h \in live /\ h \in live'
  BY DEF Bound
<1>2. BoundInv'
  BY <1>1 DEF BringUpInv, BoundInv
<1>3. StatusInv'
  BY DEF BringUpInv, StatusInv, Found, Accepted
<1>4. RingsInv'
  <2>1. \A h, q : Bound(h)' => Bound(h) /\ IsSetUp(h, q)
    BY <1>1 DEF IsSetUp
  <2>2. \A h : Queues(h)' = Queues(h)
    BY DEF Queues
  <2>3. QED
    BY <2>1, <2>2 DEF BringUpInv, RingsInv
<1>5. QED
  BY <1>2, <1>3, <1>4 DEF BringUpInv

\* The steps of an init function as records.
LEMMA AtFacts ==
  ASSUME ControlInv
  PROVE  /\ at.step \in {"idle", "find"} \cup Found
         /\ at = Idle <=> at.who = Nobody
         /\ at = Idle <=> at.step = "idle"
         /\ \A x : LET u == [at EXCEPT !.step = x] IN
              u.who = at.who /\ u.step = x /\ u.scan = at.scan
              /\ u = [who |-> u.who, step |-> u.step, scan |-> u.scan]
         /\ \A x, n : LET u == [at EXCEPT !.step = x, !.scan = n] IN
              u.who = at.who /\ u.step = x /\ u.scan = n
              /\ u = [who |-> u.who, step |-> u.step, scan |-> u.scan]
         /\ \A x, y : LET u == [at EXCEPT !.who = y, !.step = x] IN
              u.who = y /\ u.step = x /\ u.scan = at.scan
              /\ u = [who |-> u.who, step |-> u.step, scan |-> u.scan]
<1>1. PICK w, t, n : w = at.who /\ t = at.step /\ n = at.scan
  OBVIOUS
<1>2. at = [who |-> w, step |-> t, scan |-> n]
  BY <1>1 DEF ControlInv
<1>3. at = Idle \/ (w \in Handles /\ t \in {"find"} \cup Found)
  BY <1>1 DEF ControlInv
<1>4. Idle.who = Nobody /\ Idle.step = "idle" /\ "idle" \notin {"find"} \cup Found
  BY DEF Idle, Found
<1>5. /\ t \in {"idle", "find"} \cup Found
      /\ at = Idle <=> w = Nobody
      /\ at = Idle <=> t = "idle"
  BY <1>1, <1>3, <1>4, HandleFacts
<1>6. ASSUME NEW x
      PROVE  LET u == [at EXCEPT !.step = x] IN
              u.who = at.who /\ u.step = x /\ u.scan = at.scan
              /\ u = [who |-> u.who, step |-> u.step, scan |-> u.scan]
  <2>1. [at EXCEPT !.step = x] = [who |-> w, step |-> x, scan |-> n]
    BY <1>2
  <2>2. QED
    BY <1>1, <2>1
<1>7. ASSUME NEW x, NEW m
      PROVE  LET u == [at EXCEPT !.step = x, !.scan = m] IN
              u.who = at.who /\ u.step = x /\ u.scan = m
              /\ u = [who |-> u.who, step |-> u.step, scan |-> u.scan]
  <2>1. [at EXCEPT !.step = x, !.scan = m] = [who |-> w, step |-> x, scan |-> m]
    <3>1. [at EXCEPT !.step = x] = [who |-> w, step |-> x, scan |-> n]
      BY <1>2
    <3>2. [at EXCEPT !.step = x, !.scan = m] = [[at EXCEPT !.step = x] EXCEPT !.scan = m]
      OBVIOUS
    <3>3. [[who |-> w, step |-> x, scan |-> n] EXCEPT !.scan = m] = [who |-> w, step |-> x, scan |-> m]
      OBVIOUS
    <3>4. QED
      BY <3>1, <3>2, <3>3
  <2>2. QED
    BY <1>1, <2>1
<1>8. ASSUME NEW x, NEW y
      PROVE  LET u == [at EXCEPT !.who = y, !.step = x] IN
              u.who = y /\ u.step = x /\ u.scan = at.scan
              /\ u = [who |-> u.who, step |-> u.step, scan |-> u.scan]
  <2>1. [at EXCEPT !.who = y, !.step = x] = [who |-> y, step |-> x, scan |-> n]
    <3>1. [at EXCEPT !.who = y] = [who |-> y, step |-> t, scan |-> n]
      BY <1>2
    <3>2. [at EXCEPT !.who = y, !.step = x] = [[at EXCEPT !.who = y] EXCEPT !.step = x]
      OBVIOUS
    <3>3. [[who |-> y, step |-> t, scan |-> n] EXCEPT !.step = x] = [who |-> y, step |-> x, scan |-> n]
      OBVIOUS
    <3>4. QED
      BY <3>1, <3>2, <3>3
  <2>2. QED
    BY <1>1, <2>1
<1>9. QED
  BY <1>1, <1>5, <1>6, <1>7, <1>8

\* The first step of an init function: what a driver forgets.
LEMMA StartKeeps ==
  ASSUME BringUpInv, StartInputs \/ \E h \in Singles : StartSingle(h)
  PROVE  BringUpInv'
<1>1. PICK w : Start(w) /\ at' = [who |-> w, step |-> "find", scan |-> 0]
  BY DEF StartInputs, StartSingle, Start, Idle
<1>2. TypesInv'
  BY <1>1, TransportAssumption DEF BringUpInv, TypesInv, Start, Queues
<1>3. ControlInv'
  <2>1. live \subseteq Handles /\ live \cap Range(Inputs) = {Inputs[i] : i \in 1 .. input_dev_count}
        /\ input_dev_count \in 0 .. Len(Inputs)
    BY DEF BringUpInv, ControlInv
  <2>2. CASE StartInputs
    <3>1. /\ w = Inputs[1] /\ w \in Handles /\ live' = live \ Range(Inputs) /\ input_dev_count' = 0
          /\ w \in Range(Inputs)
      <4>1. at' = [who |-> Inputs[1], step |-> "find", scan |-> 0]
        BY <2>2 DEF StartInputs, Start, Idle
      <4>2. live' = live \ Range(Inputs) /\ input_dev_count' = 0
        BY <2>2 DEF StartInputs
      <4>3. QED
        BY <1>1, <4>1, <4>2, HandleFacts
    <3>2. live' \cap Range(Inputs) = {Inputs[i] : i \in 1 .. 0}
      BY <3>1
    <3>3. QED
      BY <1>1, <2>1, <3>1, <3>2, HandleFacts DEF ControlInv
  <2>3. CASE \E h \in Singles : StartSingle(h)
    <3>1. /\ w \in Singles /\ w \in Handles /\ live' = live \ {w} /\ input_dev_count' = input_dev_count
          /\ w \notin Range(Inputs)
      <4>1. PICK h \in Singles : StartSingle(h)
        BY <2>3
      <4>2. at' = [who |-> h, step |-> "find", scan |-> 0] /\ live' = live \ {h}
            /\ input_dev_count' = input_dev_count
        BY <4>1 DEF StartSingle, Start, Idle
      <4>3. QED
        BY <1>1, <4>2, HandleFacts
    <3>2. live' \cap Range(Inputs) = live \cap Range(Inputs)
      BY <3>1
    <3>3. QED
      BY <1>1, <2>1, <3>1, <3>2 DEF ControlInv
  <2>4. QED
    BY <2>2, <2>3
<1>4. UNCHANGED <<bus, window, status, given, next_queue_slot, drv, starved>>
  BY <1>1 DEF Start
<1>5. live' \subseteq live
  BY DEF StartInputs, StartSingle
<1>6. at'.step \notin Found
  BY <1>1 DEF Found
<1>7. QED
  BY <1>2, <1>3, <1>4, <1>5, <1>6, NothingFound

\* pci_find_virtio_* without a device.
LEMMA FindNoneKeeps ==
  ASSUME BringUpInv, NEW h \in Handles, FindNone(h)
  PROVE  BringUpInv'
<1>1. at' = [who |-> Nobody, step |-> "idle", scan |-> 0]
  BY DEF FindNone, Idle
<1>2. TypesInv'
  BY DEF BringUpInv, TypesInv, FindNone, Queues
<1>3. ControlInv'
  BY <1>1, HandleFacts DEF BringUpInv, ControlInv, FindNone, Idle
<1>4. QED
  BY <1>1, <1>2, <1>3, NothingFound DEF FindNone, Found

\* An init function that gives up is on no device.
LEMMA GiveUpFacts ==
  ASSUME BringUpInv, NEW h \in Handles, at.who = h, GiveUp(h),
         UNCHANGED <<live, input_dev_count>>
  PROVE  ControlInv' /\ at'.step \notin Found /\ at'.scan \in Nat
<1>1. CASE h \in Singles
  <2>1. at' = [who |-> Nobody, step |-> "idle", scan |-> 0]
    BY <1>1 DEF GiveUp, Idle
  <2>2. QED
    BY <2>1, HandleFacts DEF BringUpInv, ControlInv, Idle, Found
<1>2. CASE h \notin Singles
  <2>1. /\ at' = [at EXCEPT !.step = "find"] /\ at'.who = h /\ at'.step = "find"
        /\ at'.scan = at.scan /\ at' = [who |-> at'.who, step |-> at'.step, scan |-> at'.scan]
    BY <1>2, AtFacts DEF GiveUp, BringUpInv
  <2>2. QED
    BY <2>1 DEF BringUpInv, ControlInv, Found
<1>3. QED
  BY <1>1, <1>2

\* virtio_pci_setup_queue finds that there is no such queue.
LEMMA SetupNoneKeeps ==
  ASSUME BringUpInv, NEW h \in Handles, NEW q \in Queues(h), SetupNone(h, q)
  PROVE  BringUpInv'
<1>1. TypesInv'
  BY DEF BringUpInv, TypesInv, SetupNone, Queues
<1>2. ControlInv' /\ at'.step \notin Found
  BY GiveUpFacts DEF SetupNone
<1>3. QED
  BY <1>1, <1>2, NothingFound DEF SetupNone

\* Alignment.
LEMMA Multiple ==
  ASSUME NEW q \in Nat, NEW n \in Nat \ {0}
  PROVE  (q * n) % n = 0 /\ q * n \in Nat
<1>1. PICK p : p = q * n
  OBVIOUS
<1>2. PICK d, e : d = p \div n /\ e = p % n
  OBVIOUS
<1>3. p \in Nat /\ d \in Nat /\ e \in 0 .. n - 1 /\ p = d * n + e
  BY <1>1, <1>2
<1>4. PICK k \in Int : k = q - d
  BY <1>3
<1>5. k * n = e
  <2>1. q = d + k
    BY <1>3, <1>4
  <2>2. q * n = d * n + k * n
    BY <1>3, <2>1
  <2>3. QED
    BY <1>1, <1>3, <2>2
<1>6. k = 0
  <2>1. k >= 1 => k * n >= n
    OBVIOUS
  <2>2. k <= -1 => k * n <= -n
    OBVIOUS
  <2>3. QED
    BY <1>3, <1>5, <2>1, <2>2
<1>7. QED
  BY <1>1, <1>2, <1>3, <1>5, <1>6

\* alloc_mmio32, alloc_pio: the block begins at a multiple, not below.
LEMMA AlignFacts ==
  ASSUME NEW a \in Nat \ {0}, NEW n \in Nat \ {0}
  PROVE  AlignUp(a, n) \in Nat \ {0} /\ AlignUp(a, n) >= a /\ AlignUp(a, n) % n = 0
<1>1. PICK q, r : q = (a + n - 1) \div n /\ r = (a + n - 1) % n
  OBVIOUS
<1>2. q \in Nat /\ r \in 0 .. n - 1 /\ a + n - 1 = q * n + r
  BY <1>1
<1>3. AlignUp(a, n) = q * n
  BY <1>1 DEF AlignUp
<1>4. q * n \in Nat /\ (q * n) % n = 0
  BY <1>2, Multiple
<1>5. q * n >= a
  BY <1>2, <1>4
<1>6. QED
  BY <1>3, <1>4, <1>5

\* What pci_assign_bars has given to the first m BARs.
IsIoBar(b) == b.kind = "io"
HasAddr(b) == b.kind \in {"io", "mem32", "mem64"}
Accs == [mmio : Nat \ {0}, pio : Nat \ {0}, addr : Seq(Nat)]

Given(bars, m, acc) ==
  /\ acc \in Accs /\ Len(acc.addr) = m
  /\ acc.mmio >= mmio32_alloc /\ acc.pio >= pio_alloc
  /\ \A i \in 1 .. m :
       /\ acc.addr[i] \in Nat /\ acc.addr[i] % bars[i].size = 0
       /\ acc.addr[i] # NoAddr <=> HasAddr(bars[i])
       /\ HasAddr(bars[i]) /\ IsIoBar(bars[i]) =>
            pio_alloc <= acc.addr[i] /\ acc.addr[i] + bars[i].size <= acc.pio
       /\ HasAddr(bars[i]) /\ ~IsIoBar(bars[i]) =>
            mmio32_alloc <= acc.addr[i] /\ acc.addr[i] + bars[i].size <= acc.mmio
  /\ \A i, j \in 1 .. m :
       i < j /\ HasAddr(bars[i]) /\ HasAddr(bars[j]) /\ IsIoBar(bars[i]) = IsIoBar(bars[j]) =>
         acc.addr[i] + bars[i].size <= acc.addr[j]

\* The address that one turn gives to a BAR, and what it leaves.
Appended(s, x, m, t) ==
  /\ t \in Seq(Nat) /\ Len(t) = m + 1
  /\ t[m + 1] = x /\ \A i \in 1 .. m : t[i] = s[i]

\* One more address.
LEMMA AppendNat ==
  ASSUME NEW s \in Seq(Nat), NEW x \in Nat, NEW m \in Nat, Len(s) = m
  PROVE  Appended(s, x, m, Append(s, x))
BY DEF Appended

\* One turn of the loop of pci_assign_bars.
LEMMA TurnFacts ==
  ASSUME NEW acc \in Accs, NEW b \in Bar, NEW m \in Nat, Len(acc.addr) = m
  PROVE  LET r == AssignBar(acc, b) IN
         \E x \in Nat :
           /\ r \in Accs /\ Appended(acc.addr, x, m, r.addr)
           /\ x % b.size = 0 /\ r.mmio >= acc.mmio /\ r.pio >= acc.pio
           /\ x # NoAddr <=> HasAddr(b)
           /\ HasAddr(b) /\ IsIoBar(b) => acc.pio <= x /\ x + b.size <= r.pio
           /\ HasAddr(b) /\ ~IsIoBar(b) => acc.mmio <= x /\ x + b.size <= r.mmio
<1>1. PICK p, n, a : p = acc.mmio /\ n = acc.pio /\ a = acc.addr
  OBVIOUS
<1>2. /\ acc = [mmio |-> p, pio |-> n, addr |-> a]
      /\ p \in Nat \ {0} /\ n \in Nat \ {0} /\ a \in Seq(Nat) /\ Len(a) = m
  BY <1>1 DEF Accs
<1>3. PICK sz : sz = b.size /\ sz \in Nat \ {0}
  BY DEF Bar
<1> DEFINE io == AlignUp(n, sz)
           mem == AlignUp(p, sz)
<1>4. /\ io \in Nat \ {0} /\ io >= n /\ io % sz = 0
      /\ mem \in Nat \ {0} /\ mem >= p /\ mem % sz = 0
  BY <1>2, <1>3, AlignFacts
<1> HIDE DEF io, mem
<1> DEFINE r == AssignBar(acc, b)
<1>5. CASE b.kind = "io"
  <2>1. PICK y : y = Append(a, io)
    OBVIOUS
  <2>2. Appended(a, io, m, y) /\ y \in Seq(Nat)
    BY <1>2, <1>4, <2>1, AppendNat DEF Appended
  <2>3. r = [mmio |-> p, pio |-> io + sz, addr |-> y]
    <3>1. r = [acc EXCEPT !.addr = y, !.pio = io + sz]
      BY <1>1, <1>3, <1>5, <2>1 DEF AssignBar, io
    <3>2. [acc EXCEPT !.addr = y] = [mmio |-> p, pio |-> n, addr |-> y]
      BY <1>2
    <3>3. [acc EXCEPT !.addr = y, !.pio = io + sz] = [[acc EXCEPT !.addr = y] EXCEPT !.pio = io + sz]
      OBVIOUS
    <3>4. [[mmio |-> p, pio |-> n, addr |-> y] EXCEPT !.pio = io + sz]
            = [mmio |-> p, pio |-> io + sz, addr |-> y]
      OBVIOUS
    <3>5. QED
      BY <3>1, <3>2, <3>3, <3>4
  <2>4. io + sz \in Nat \ {0} /\ io + sz >= n
    BY <1>2, <1>3, <1>4
  <2>5. r \in Accs /\ r.mmio = p /\ r.pio = io + sz /\ r.addr = y
    BY <1>2, <2>2, <2>3, <2>4 DEF Accs
  <2>6. HasAddr(b) /\ IsIoBar(b)
    BY <1>5 DEF HasAddr, IsIoBar
  <2>7. io \in Nat /\ io # NoAddr /\ p >= p
    BY <1>2, <1>4 DEF NoAddr
  <2> HIDE DEF r
  <2>8. /\ r \in Accs /\ Appended(acc.addr, io, m, r.addr)
        /\ io % b.size = 0 /\ r.mmio >= acc.mmio /\ r.pio >= acc.pio
        /\ acc.pio <= io /\ io + b.size <= r.pio
    BY <1>1, <1>2, <1>3, <1>4, <2>2, <2>4, <2>5
  <2>9. QED
    BY <2>6, <2>7, <2>8 DEF r
<1>6. CASE b.kind \in {"mem32", "mem64"}
  <2>1. PICK y : y = Append(a, mem)
    OBVIOUS
  <2>2. Appended(a, mem, m, y) /\ y \in Seq(Nat)
    BY <1>2, <1>4, <2>1, AppendNat DEF Appended
  <2>3. r = [mmio |-> mem + sz, pio |-> n, addr |-> y]
    <3>1. r = [acc EXCEPT !.addr = y, !.mmio = mem + sz]
      BY <1>1, <1>3, <1>6, <2>1 DEF AssignBar, mem
    <3>2. [acc EXCEPT !.addr = y] = [mmio |-> p, pio |-> n, addr |-> y]
      BY <1>2
    <3>3. [acc EXCEPT !.addr = y, !.mmio = mem + sz] = [[acc EXCEPT !.addr = y] EXCEPT !.mmio = mem + sz]
      OBVIOUS
    <3>4. [[mmio |-> p, pio |-> n, addr |-> y] EXCEPT !.mmio = mem + sz]
            = [mmio |-> mem + sz, pio |-> n, addr |-> y]
      OBVIOUS
    <3>5. QED
      BY <3>1, <3>2, <3>3, <3>4
  <2>4. mem + sz \in Nat \ {0} /\ mem + sz >= p
    BY <1>2, <1>3, <1>4
  <2>5. r \in Accs /\ r.mmio = mem + sz /\ r.pio = n /\ r.addr = y
    BY <1>2, <2>2, <2>3, <2>4 DEF Accs
  <2>6. HasAddr(b) /\ ~IsIoBar(b)
    BY <1>6 DEF HasAddr, IsIoBar
  <2>7. mem \in Nat /\ mem # NoAddr /\ n >= n
    BY <1>2, <1>4 DEF NoAddr
  <2> HIDE DEF r
  <2>8. /\ r \in Accs /\ Appended(acc.addr, mem, m, r.addr)
        /\ mem % b.size = 0 /\ r.mmio >= acc.mmio /\ r.pio >= acc.pio
        /\ acc.mmio <= mem /\ mem + b.size <= r.mmio
    BY <1>1, <1>2, <1>3, <1>4, <2>2, <2>4, <2>5
  <2>9. QED
    BY <2>6, <2>7, <2>8 DEF r
<1>7. CASE b.kind \notin {"io", "mem32", "mem64"}
  <2>1. PICK y : y = Append(a, 0)
    OBVIOUS
  <2>2. Appended(a, 0, m, y) /\ y \in Seq(Nat)
    BY <1>2, <2>1, AppendNat DEF Appended
  <2>3. r = [mmio |-> p, pio |-> n, addr |-> y]
    <3>1. r = [acc EXCEPT !.addr = y]
      BY <1>1, <1>7, <2>1 DEF AssignBar, NoAddr
    <3>2. QED
      BY <1>2, <3>1
  <2>4. r \in Accs /\ r.mmio = p /\ r.pio = n /\ r.addr = y
    BY <1>2, <2>2, <2>3 DEF Accs
  <2>5. ~HasAddr(b) /\ 0 % sz = 0 /\ 0 \in Nat /\ 0 = NoAddr
    BY <1>3, <1>7 DEF HasAddr, NoAddr
  <2> HIDE DEF r
  <2>6. /\ r \in Accs /\ Appended(acc.addr, 0, m, r.addr)
        /\ 0 % b.size = 0 /\ r.mmio >= acc.mmio /\ r.pio >= acc.pio
    BY <1>1, <1>2, <1>3, <2>2, <2>4, <2>5
  <2>7. QED
    BY <2>5, <2>6 DEF r
<1>8. QED
  BY <1>5, <1>6, <1>7

\* The addresses that it has given lie between where the allocators began and
\* where they are, one after the other, and one more turn keeps that.
LEMMA TurnGiven ==
  ASSUME NEW bars \in Seq(Bar), NEW m \in 0 .. Len(bars) - 1, NEW acc, Given(bars, m, acc),
         mmio32_alloc \in Nat \ {0}, pio_alloc \in Nat \ {0}
  PROVE  Given(bars, m + 1, AssignBar(acc, bars[m + 1]))
<1>1. PICK b : b = bars[m + 1]
  OBVIOUS
<1>2. PICK r : r = AssignBar(acc, b)
  OBVIOUS
<1>3. m \in Nat /\ b \in Bar /\ \A i \in 1 .. m + 1 : bars[i].size \in Nat \ {0}
  <2>1. Len(bars) \in Nat /\ \A i \in 1 .. Len(bars) : bars[i] \in Bar
    OBVIOUS
  <2>2. m \in Nat /\ m + 1 \in 1 .. Len(bars) /\ 1 .. m + 1 \subseteq 1 .. Len(bars)
    BY <2>1
  <2>3. \A i \in 1 .. m + 1 : bars[i] \in Bar
    BY <2>1, <2>2
  <2>4. QED
    BY <1>1, <2>1, <2>2, <2>3 DEF Bar
<1>4. acc \in Accs /\ Len(acc.addr) = m
  BY DEF Given
<1>5. PICK x \in Nat :
           /\ r \in Accs /\ Appended(acc.addr, x, m, r.addr)
           /\ x % b.size = 0 /\ r.mmio >= acc.mmio /\ r.pio >= acc.pio
           /\ x # NoAddr <=> HasAddr(b)
           /\ HasAddr(b) /\ IsIoBar(b) => acc.pio <= x /\ x + b.size <= r.pio
           /\ HasAddr(b) /\ ~IsIoBar(b) => acc.mmio <= x /\ x + b.size <= r.mmio
  BY <1>2, <1>3, <1>4, TurnFacts
<1>6. /\ acc.mmio \in Nat /\ acc.pio \in Nat /\ r.mmio \in Nat /\ r.pio \in Nat
      /\ acc.mmio >= mmio32_alloc /\ acc.pio >= pio_alloc
      /\ mmio32_alloc <= acc.mmio
  BY <1>4, <1>5 DEF Accs, Given
<1>7. Len(r.addr) = m + 1 /\ r.addr[m + 1] = x /\ \A i \in 1 .. m : r.addr[i] = acc.addr[i]
  BY <1>5 DEF Appended
<1>8. /\ \A i \in 1 .. m :
           /\ acc.addr[i] \in Nat /\ acc.addr[i] % bars[i].size = 0
           /\ acc.addr[i] # NoAddr <=> HasAddr(bars[i])
           /\ HasAddr(bars[i]) /\ IsIoBar(bars[i]) =>
                pio_alloc <= acc.addr[i] /\ acc.addr[i] + bars[i].size <= acc.pio
           /\ HasAddr(bars[i]) /\ ~IsIoBar(bars[i]) =>
                mmio32_alloc <= acc.addr[i] /\ acc.addr[i] + bars[i].size <= acc.mmio
      /\ \A i, j \in 1 .. m :
           i < j /\ HasAddr(bars[i]) /\ HasAddr(bars[j]) /\ IsIoBar(bars[i]) = IsIoBar(bars[j]) =>
             acc.addr[i] + bars[i].size <= acc.addr[j]
  BY DEF Given
<1>9. mmio32_alloc \in Int /\ pio_alloc \in Int
  OBVIOUS
<1>10. QED
  <2>1. r.mmio >= mmio32_alloc /\ r.pio >= pio_alloc
    BY <1>5, <1>6, <1>9
  <2>2. ASSUME NEW i \in 1 .. m + 1
        PROVE  /\ r.addr[i] \in Nat /\ r.addr[i] % bars[i].size = 0
               /\ r.addr[i] # NoAddr <=> HasAddr(bars[i])
               /\ HasAddr(bars[i]) /\ IsIoBar(bars[i]) =>
                    pio_alloc <= r.addr[i] /\ r.addr[i] + bars[i].size <= r.pio
               /\ HasAddr(bars[i]) /\ ~IsIoBar(bars[i]) =>
                    mmio32_alloc <= r.addr[i] /\ r.addr[i] + bars[i].size <= r.mmio
    <3>1. CASE i = m + 1
      <4>1. r.addr[i] = x /\ bars[i] = b
        BY <1>1, <1>7, <3>1
      <4>2. QED
        BY <1>3, <1>5, <1>6, <1>9, <4>1
    <3>2. CASE i # m + 1
      <4>1. i \in 1 .. m
        BY <1>3, <3>2
      <4>2. r.addr[i] = acc.addr[i] /\ bars[i].size \in Nat
        BY <1>3, <1>7, <4>1
      <4>3. PICK y, z : y = acc.addr[i] /\ z = bars[i].size
        OBVIOUS
      <4>4. /\ y \in Nat /\ y % z = 0 /\ z \in Nat
            /\ y # NoAddr <=> HasAddr(bars[i])
            /\ HasAddr(bars[i]) /\ IsIoBar(bars[i]) => pio_alloc <= y /\ y + z <= acc.pio
            /\ HasAddr(bars[i]) /\ ~IsIoBar(bars[i]) => mmio32_alloc <= y /\ y + z <= acc.mmio
        BY <1>8, <4>1, <4>2, <4>3
      <4>5. /\ HasAddr(bars[i]) /\ IsIoBar(bars[i]) => pio_alloc <= y /\ y + z <= r.pio
            /\ HasAddr(bars[i]) /\ ~IsIoBar(bars[i]) => mmio32_alloc <= y /\ y + z <= r.mmio
        BY ONLY <1>6, <1>9, <4>4, <1>5, SMT
      <4>6. QED
        BY <4>2, <4>3, <4>4, <4>5
    <3>3. QED
      BY <3>1, <3>2
  <2>3. ASSUME NEW i \in 1 .. m + 1, NEW j \in 1 .. m + 1, i < j,
               HasAddr(bars[i]), HasAddr(bars[j]), IsIoBar(bars[i]) = IsIoBar(bars[j])
        PROVE  r.addr[i] + bars[i].size <= r.addr[j]
    <3>1. i \in 1 .. m /\ r.addr[i] = acc.addr[i]
      BY <1>3, <1>7, <2>3
    <3>2. PICK y, z : y = acc.addr[i] /\ z = bars[i].size
      OBVIOUS
    <3>3. CASE j = m + 1
      <4>1. r.addr[j] = x /\ bars[j] = b
        BY <1>1, <1>7, <3>3
      <4>2. /\ y \in Nat /\ z \in Nat
            /\ IsIoBar(bars[i]) => y + z <= acc.pio
            /\ ~IsIoBar(bars[i]) => y + z <= acc.mmio
        BY <1>3, <1>8, <2>3, <3>1, <3>2
      <4>3. IsIoBar(b) => y + z <= x
        BY <1>5, <1>6, <2>3, <4>1, <4>2
      <4>4. ~IsIoBar(b) => y + z <= x
        BY <1>5, <1>6, <2>3, <4>1, <4>2
      <4>5. QED
        BY <3>1, <3>2, <4>1, <4>3, <4>4
    <3>4. CASE j # m + 1
      <4>1. j \in 1 .. m /\ r.addr[j] = acc.addr[j]
        BY <1>3, <1>7, <3>4
      <4>2. QED
        BY <1>8, <2>3, <3>1, <4>1
    <3>5. QED
      BY <3>3, <3>4
  <2>4. Given(bars, m + 1, r)
    BY <1>5, <1>7, <2>1, <2>2, <2>3 DEF Given
  <2>5. QED
    BY <1>1, <1>2, <2>4

\* What pci_assign_bars does for a device.
LEMMA AssignFacts ==
  ASSUME NEW bars \in Seq(Bar), mmio32_alloc \in Nat \ {0}, pio_alloc \in Nat \ {0}
  PROVE  Given(bars, Len(bars), AssignBars(bars))
<1> DEFINE N == Len(bars)
           first == [mmio |-> mmio32_alloc, pio |-> pio_alloc, addr |-> <<>>]
           step == [p \in Accs \X Int |->
                      IF p[2] + 1 \in 1 .. N THEN AssignBar(p[1], bars[p[2] + 1]) ELSE p[1]]
           Turned(g) == [i \in 0 .. N |->
                           IF i = 0 THEN first ELSE AssignBar(g[i - 1], bars[i])]
           turn == CHOOSE g : g = Turned(g)
<1>0. N \in Nat /\ 0 \in Int /\ N \in Int /\ 0 <= N /\ \A i \in 1 .. N : bars[i] \in Bar
  OBVIOUS
<1>1. first \in Accs /\ Given(bars, 0, first)
  <2>1. first \in Accs /\ Len(first.addr) = 0
    BY DEF Accs
  <2>2. QED
    BY <2>1 DEF Given
<1>2. step \in [Accs \X Int -> Accs]
  <2>1. ASSUME NEW a \in Accs, NEW i \in 1 .. N PROVE AssignBar(a, bars[i]) \in Accs
    <3>1. PICK m \in Nat : m = Len(a.addr)
      BY DEF Accs
    <3>2. QED
      BY <1>0, <3>1, TurnFacts
  <2>2. QED
    BY <2>1
<1>3. turn = Turned(turn)
  <2> HIDE DEF step, first
  <2>1. PICK g : IsLoop(g, Accs, first, 0, N, step)
    <3> HIDE DEF N
    <3>1. QED
      BY <1>0, <1>1, <1>2, LoopExists
  <2>2. g = [i \in 0 .. N |-> g[i]]
    BY <2>1 DEF IsLoop
  <2>3. ASSUME NEW i \in 0 .. N
        PROVE  g[i] = IF i = 0 THEN first ELSE AssignBar(g[i - 1], bars[i])
    <3>1. g[i] = IF i = 0 THEN first ELSE step[<<g[i - 1], i - 1>>]
      BY <2>1 DEF IsLoop
    <3>2. CASE i # 0
      <4>1. i - 1 \in 0 .. N /\ i - 1 \in Int /\ i - 1 + 1 = i /\ i \in 1 .. N
        BY <1>0, <3>2
      <4>2. g[i - 1] \in Accs
        BY <2>1, <4>1 DEF IsLoop
      <4>3. step[<<g[i - 1], i - 1>>] = AssignBar(g[i - 1], bars[i])
        BY <4>1, <4>2 DEF step
      <4>4. QED
        BY <3>1, <3>2, <4>3
    <3>3. QED
      BY <3>1, <3>2
  <2>4. g = Turned(g)
    BY <2>2, <2>3
  <2>5. QED
    BY <2>4
<1>4. AssignBars(bars) = turn[N]
  BY DEF AssignBars
<1> DEFINE S == {i \in 0 .. N : Given(bars, i, turn[i])}
<1>5. ASSUME NEW i \in 0 .. N
      PROVE  turn[i] = IF i = 0 THEN first ELSE AssignBar(turn[i - 1], bars[i])
  <2> HIDE DEF turn, first
  <2>1. turn[i] = Turned(turn)[i]
    BY <1>3
  <2>2. QED
    BY <2>1
<1> HIDE DEF turn, first, N
<1>6. 0 \in S
  BY <1>0, <1>1, <1>5
<1>7. ASSUME NEW i \in 0 .. N - 1, i \in S PROVE i + 1 \in S
  <2>1. i + 1 \in 0 .. N /\ i + 1 # 0 /\ i + 1 - 1 = i
    BY <1>0
  <2>2. turn[i + 1] = AssignBar(turn[i], bars[i + 1])
    BY <1>5, <2>1
  <2>3. Given(bars, i, turn[i])
    BY <1>7
  <2>4. QED
    BY <2>1, <2>2, <2>3, TurnGiven DEF N
<1> HIDE DEF S
<1>8. 0 .. N \subseteq S
  BY <1>0, <1>6, <1>7, IntervalInduction
<1>9. QED
  BY <1>0, <1>4, <1>8 DEF S, N

\* The fields of the struct of one driver change, those of the others do not.
DrvIs(h, s, b, c, v) ==
  /\ drv' = [g \in Handles |-> drv'[g]]
  /\ \A g \in Handles : g # h => drv'[g] = drv[g]
  /\ drv'[h] = [slot |-> s, bars |-> b, cfg |-> c, vq |-> v]

\* The struct of one driver changes.
LEMMA DrvPut ==
  ASSUME TypesInv, NEW h \in Handles, NEW s, NEW b, NEW c, NEW v,
         drv' = [drv EXCEPT ![h] = [slot |-> s, bars |-> b, cfg |-> c, vq |-> v]]
  PROVE  DrvIs(h, s, b, c, v)
<1>1. drv = [g \in Handles |-> drv[g]]
  BY DEF TypesInv
<1>2. DOMAIN drv = Handles
  BY <1>1
<1> HIDE <1>1
<1>3. drv' = [g \in Handles |-> IF g = h THEN [slot |-> s, bars |-> b, cfg |-> c, vq |-> v]
                                ELSE drv[g]]
  BY <1>2
<1>4. \A g \in Handles : drv'[g] = IF g = h THEN [slot |-> s, bars |-> b, cfg |-> c, vq |-> v]
                                   ELSE drv[g]
  BY <1>3
<1>5. drv' = [g \in Handles |-> drv'[g]]
  BY <1>3, <1>4
<1>6. QED
  BY <1>4, <1>5 DEF DrvIs

\* The device that Find takes: the first one of its kind that nobody has.
Finds(h, s, acc) ==
  /\ at.who = h /\ at.step = "find"
  /\ s \in DOMAIN bus /\ s \in Nat /\ bus[s].id = IdOf(h)
  /\ \A g \in live : drv[g].slot # s
  /\ Given(bus[s].bars, Len(bus[s].bars), acc)
  /\ mmio32_alloc' = acc.mmio /\ pio_alloc' = acc.pio
  /\ window' = [t \in DOMAIN bus |-> window'[t]]
  /\ \A t \in DOMAIN bus : t # s => window'[t] = window[t]
  /\ DOMAIN window'[s] = DOMAIN bus[s].bars
  /\ window'[s] \in [DOMAIN bus[s].bars -> Nat]
  /\ \A i \in DOMAIN bus[s].bars : window'[s][i] = acc.addr[i]
  /\ DrvIs(h, s, acc.addr, drv[h].cfg, drv[h].vq)
  /\ at' = [who |-> h, step |-> "caps", scan |-> s + 1]
  /\ UNCHANGED <<bus, status, given, next_queue_slot, live, input_dev_count, starved, inits>>

\* What Find does, variable by variable.
LEMMA FindFacts ==
  ASSUME BringUpInv, NEW h \in Handles, Find(h)
  PROVE  \E s, acc : Finds(h, s, acc)
<1> DEFINE s == CHOOSE s \in Candidates(h) : \A t \in Candidates(h) : s <= t
           bars == bus[s].bars
           acc == AssignBars(bars)
<1>1. /\ at.who = h /\ at.step = "find" /\ Candidates(h) # {}
      /\ mmio32_alloc' = acc.mmio /\ pio_alloc' = acc.pio
      /\ window' = [window EXCEPT ![s] = [i \in DOMAIN bars |-> Decoded(acc.addr[i], bars[i])]]
      /\ drv' = [drv EXCEPT ![h].slot = s, ![h].bars = acc.addr]
      /\ at' = [at EXCEPT !.step = "caps", !.scan = s + 1]
      /\ UNCHANGED <<bus, status, given, next_queue_slot, live, input_dev_count, starved, inits>>
  BY DEF Find
<1>2. s \in Candidates(h)
  <2>1. Candidates(h) \in SUBSET Nat
    BY BusFacts DEF Candidates, BringUpInv, TypesInv
  <2>2. \E x \in Candidates(h) : \A t \in Candidates(h) : x <= t
    BY <1>1, <2>1, LeastSteps
  <2>3. QED
    BY <2>2
<1> HIDE DEF s
<1>3. s \in DOMAIN bus /\ bus[s].id = IdOf(h) /\ (h \in Singles \/ ~Claimed(s))
  BY <1>2 DEF Candidates
<1>4. s \in Nat /\ bars \in Seq(Bar)
  BY <1>3, BusFacts DEF BringUpInv, TypesInv
<1>5. ASSUME NEW g \in live, drv[g].slot = s PROVE FALSE
  <2>1. g \in Handles /\ bus[s].id = IdOf(g) /\ g # h
    BY <1>1, <1>5 DEF BringUpInv, BoundInv, ControlInv, Bound
  <2>2. h \notin Singles /\ g \notin Singles
    BY <1>3, <2>1, HandleFacts DEF IdOf, Singles, Handles
  <2>3. g \in Range(Inputs)
    BY <2>1, <2>2 DEF Handles
  <2>4. PICK i \in 1 .. input_dev_count : g = Inputs[i]
    BY <2>3 DEF BringUpInv, ControlInv
  <2>5. QED
    BY <1>3, <1>5, <2>2, <2>4 DEF Claimed
<1>6. Given(bars, Len(bars), acc)
  BY <1>4, AssignFacts DEF BringUpInv, TypesInv
<1> HIDE DEF acc
<1>7. DOMAIN bars = 1 .. Len(bars) /\ \A i \in DOMAIN bars : bars[i].size \in Nat \ {0}
  <2>1. DOMAIN bars = 1 .. Len(bars) /\ \A i \in DOMAIN bars : bars[i] \in Bar
    <3> HIDE DEF bars
    <3>1. QED
      BY <1>4
  <2>2. QED
    BY <2>1 DEF Bar
<1>8. \A i \in DOMAIN bars : Decoded(acc.addr[i], bars[i]) = acc.addr[i] /\ acc.addr[i] \in Nat
  BY <1>6, <1>7 DEF Decoded, Given
<1>9. [i \in DOMAIN bars |-> Decoded(acc.addr[i], bars[i])] = [i \in DOMAIN bars |-> acc.addr[i]]
  BY <1>8
<1>10. PICK win : win = [i \in DOMAIN bars |-> acc.addr[i]]
  OBVIOUS
<1>11. window' = [window EXCEPT ![s] = win]
  BY <1>1, <1>9, <1>10
<1>12. DOMAIN win = DOMAIN bars /\ win \in [DOMAIN bars -> Nat] /\ \A i \in DOMAIN bars : win[i] = acc.addr[i]
  BY <1>8, <1>10
<1>13. DOMAIN window = DOMAIN bus
  <2>1. window = [t \in DOMAIN bus |-> window[t]]
    BY DEF BringUpInv, TypesInv
  <2>2. QED
    BY <2>1
<1>14. window' = [t \in DOMAIN bus |-> IF t = s THEN win ELSE window[t]]
  BY <1>11, <1>13
<1>15. \A t \in DOMAIN bus : window'[t] = IF t = s THEN win ELSE window[t]
  BY <1>14
<1>16. window' = [t \in DOMAIN bus |-> window'[t]]
  BY <1>14, <1>15
<1>17. DrvIs(h, s, acc.addr, drv[h].cfg, drv[h].vq)
  <2>1. PICK a, b, c, v : a = drv[h].slot /\ b = drv[h].bars /\ c = drv[h].cfg /\ v = drv[h].vq
    OBVIOUS
  <2>2. drv[h] = [slot |-> a, bars |-> b, cfg |-> c, vq |-> v]
    BY <2>1 DEF BringUpInv, TypesInv
  <2>3. drv' = [drv EXCEPT ![h] = [[drv[h] EXCEPT !.slot = s] EXCEPT !.bars = acc.addr]]
    <3>1. DOMAIN drv = Handles
      <4>1. drv = [g \in Handles |-> drv[g]]
        BY DEF BringUpInv, TypesInv
      <4>2. QED
        BY <4>1
    <3>2. PICK d : d = [drv EXCEPT ![h].slot = s]
      OBVIOUS
    <3>3. DOMAIN d = Handles /\ d[h] = [drv[h] EXCEPT !.slot = s]
      BY <3>1, <3>2
    <3>4. drv' = [d EXCEPT ![h].bars = acc.addr]
      BY <1>1, <3>2
    <3>5. QED
      BY <3>1, <3>2, <3>3, <3>4
  <2>4. [drv[h] EXCEPT !.slot = s] = [slot |-> s, bars |-> b, cfg |-> c, vq |-> v]
    BY <2>2
  <2>5. [[slot |-> s, bars |-> b, cfg |-> c, vq |-> v] EXCEPT !.bars = acc.addr]
          = [slot |-> s, bars |-> acc.addr, cfg |-> c, vq |-> v]
    OBVIOUS
  <2>6. drv' = [drv EXCEPT ![h] = [slot |-> s, bars |-> acc.addr, cfg |-> c, vq |-> v]]
    BY <2>3, <2>4, <2>5
  <2>7. QED
    BY <2>1, <2>6, DrvPut DEF BringUpInv
<1>18. at' = [who |-> h, step |-> "caps", scan |-> s + 1]
  <2>1. PICK u : u = [at EXCEPT !.step = "caps", !.scan = s + 1]
    OBVIOUS
  <2>2. /\ u.who = at.who /\ u.step = "caps" /\ u.scan = s + 1
        /\ u = [who |-> u.who, step |-> u.step, scan |-> u.scan]
    BY <2>1, AtFacts DEF BringUpInv
  <2>3. QED
    BY <1>1, <2>1, <2>2
<1>19. Finds(h, s, acc)
  BY <1>1, <1>3, <1>4, <1>5, <1>6, <1>12, <1>15, <1>16, <1>17, <1>18 DEF Finds
<1>20. QED
  BY <1>19

\* The driver whose init function runs is a driver, and not a ready one.
LEMMA RunsFacts ==
  ASSUME BringUpInv, NEW h \in Handles, at.who = h
  PROVE  /\ h \notin live /\ live \subseteq Handles
         /\ \A g \in live : g # h
         /\ at.step \in {"find"} \cup Found
         /\ \A g \in Handles : Bound(g) <=> g \in live \/ (g = h /\ at.step \in Found)
         /\ \A g \in live : drv[g].slot \in DOMAIN bus /\ status[drv[g].slot] = "driver_ok"
<1>1. /\ h \notin live /\ live \subseteq Handles
      /\ at = Idle \/ at.step \in {"find"} \cup Found
      /\ at = Idle => at.who = Nobody
  BY DEF BringUpInv, ControlInv, Idle
<1>2. h # Nobody
  BY HandleFacts
<1>3. \A g \in Handles : Bound(g) <=> g \in live \/ (g = h /\ at.step \in Found)
  BY DEF Bound
<1>4. \A g \in live : drv[g].slot \in DOMAIN bus
  BY <1>1, <1>3 DEF BringUpInv, BoundInv
<1>5. \A g \in live : status[drv[g].slot] = "driver_ok"
  BY DEF BringUpInv, StatusInv
<1>6. QED
  BY <1>1, <1>2, <1>3, <1>4, <1>5

\* What stays a value of its kind when one driver's struct changes.
LEMMA DrvTypes ==
  ASSUME TypesInv, NEW h \in Handles, NEW s, NEW b, NEW c, NEW v, DrvIs(h, s, b, c, v),
         c \in [CfgTypes -> Nat],
         v \in [Queues(h) -> [ring : NoRing .. MaxQueues - 1, num : Nat]]
  PROVE  /\ drv' = [g \in Handles |-> drv'[g]]
         /\ \A g \in Handles :
              /\ drv'[g] = [slot |-> drv'[g].slot, bars |-> drv'[g].bars, cfg |-> drv'[g].cfg,
                            vq |-> drv'[g].vq]
              /\ drv'[g].cfg \in [CfgTypes -> Nat]
              /\ drv'[g].vq \in [Queues(g) -> [ring : NoRing .. MaxQueues - 1, num : Nat]]
<1>1. /\ drv' = [g \in Handles |-> drv'[g]]
      /\ \A g \in Handles : g # h => drv'[g] = drv[g]
      /\ drv'[h] = [slot |-> s, bars |-> b, cfg |-> c, vq |-> v]
  BY DEF DrvIs
<1> DEFINE Fine(d, g) == /\ d = [slot |-> d.slot, bars |-> d.bars, cfg |-> d.cfg, vq |-> d.vq]
                         /\ d.cfg \in [CfgTypes -> Nat]
                         /\ d.vq \in [Queues(g) -> [ring : NoRing .. MaxQueues - 1, num : Nat]]
<1>2. Fine([slot |-> s, bars |-> b, cfg |-> c, vq |-> v], h)
  OBVIOUS
<1>3. \A g \in Handles : Fine(drv[g], g)
  BY DEF TypesInv
<1> HIDE DEF Fine
<1>4. \A g \in Handles : Fine(drv'[g], g)
  BY <1>1, <1>2, <1>3
<1>5. QED
  BY <1>1, <1>4 DEF Fine

\* pci_find_virtio_* with a device: nobody else has it.
LEMMA FindKeeps ==
  ASSUME BringUpInv, NEW h \in Handles, Find(h)
  PROVE  BringUpInv'
<1>1. PICK s, acc : Finds(h, s, acc)
  BY FindFacts
<1>2. /\ at.who = h /\ at.step = "find"
      /\ s \in DOMAIN bus /\ s \in Nat /\ bus[s].id = IdOf(h)
      /\ \A g \in live : drv[g].slot # s
      /\ mmio32_alloc' = acc.mmio /\ pio_alloc' = acc.pio
      /\ window' = [t \in DOMAIN bus |-> window'[t]]
      /\ \A t \in DOMAIN bus : t # s => window'[t] = window[t]
      /\ window'[s] \in [DOMAIN bus[s].bars -> Nat]
      /\ \A i \in DOMAIN bus[s].bars : window'[s][i] = acc.addr[i]
      /\ DrvIs(h, s, acc.addr, drv[h].cfg, drv[h].vq)
      /\ UNCHANGED <<bus, status, given, next_queue_slot, live, input_dev_count, starved, inits>>
  BY <1>1 DEF Finds
<1>3. at' = [who |-> h, step |-> "caps", scan |-> s + 1]
  BY <1>1 DEF Finds
<1>4. /\ h \notin live /\ live \subseteq Handles
      /\ \A g \in live : g # h
      /\ \A g \in live : drv[g].slot \in DOMAIN bus /\ status[drv[g].slot] = "driver_ok"
      /\ \A g \in live : Bound(g)
  BY <1>2, RunsFacts
<1>5. /\ \A g \in Handles : g # h => drv'[g] = drv[g]
      /\ drv'[h].slot = s /\ drv'[h].bars = acc.addr /\ drv'[h].vq = drv[h].vq
  BY <1>2 DEF DrvIs
<1>6. \A g \in Handles : Bound(g)' <=> g \in live \/ g = h
  BY <1>2, <1>3 DEF Bound, Found
<1>7. TypesInv'
  <2>1. acc.mmio \in Nat \ {0} /\ acc.pio \in Nat \ {0}
    BY <1>1 DEF Finds, Given, Accs
  <2>2. \A g \in Handles : Queues(g)' = Queues(g)
    BY DEF Queues
  <2>3. /\ drv[h].cfg \in [CfgTypes -> Nat]
        /\ drv[h].vq \in [Queues(h) -> [ring : NoRing .. MaxQueues - 1, num : Nat]]
    BY DEF BringUpInv, TypesInv
  <2>4. /\ drv' = [g \in Handles |-> drv'[g]]
        /\ \A g \in Handles :
              /\ drv'[g] = [slot |-> drv'[g].slot, bars |-> drv'[g].bars, cfg |-> drv'[g].cfg,
                            vq |-> drv'[g].vq]
              /\ drv'[g].cfg \in [CfgTypes -> Nat]
              /\ drv'[g].vq \in [Queues(g) -> [ring : NoRing .. MaxQueues - 1, num : Nat]]
    BY <1>2, <2>3, DrvTypes DEF BringUpInv
  <2>5. \A t \in DOMAIN bus : window'[t] \in [DOMAIN bus[t].bars -> Nat]
    BY <1>2 DEF BringUpInv, TypesInv
  <2>6. QED
    BY <1>2, <2>1, <2>2, <2>4, <2>5 DEF BringUpInv, TypesInv
<1>8. ControlInv'
  <2>1. at'.who = h /\ at'.step = "caps" /\ at'.scan = s + 1
    BY <1>3
  <2>2. s + 1 \in Nat /\ "caps" \in Found /\ "caps" # "queue2"
    BY <1>2 DEF Found
  <2>3. QED
    BY <1>2, <1>3, <2>1, <2>2 DEF BringUpInv, ControlInv
<1>9. BoundInv'
  <2>1. ASSUME NEW g \in Handles, Bound(g)'
        PROVE  /\ drv'[g].slot \in DOMAIN bus' /\ bus'[drv'[g].slot].id = IdOf(g)
               /\ \A i \in DOMAIN bus'[drv'[g].slot].bars : drv'[g].bars[i] = window'[drv'[g].slot][i]
    <3>1. CASE g = h
      BY <1>2, <1>5, <3>1
    <3>2. CASE g # h
      <4>1. g \in live /\ drv'[g] = drv[g] /\ Bound(g)
        BY <1>4, <1>5, <1>6, <2>1, <3>2
      <4>2. window'[drv[g].slot] = window[drv[g].slot]
        BY <1>2, <1>4, <4>1
      <4>3. QED
        BY <1>2, <4>1, <4>2 DEF BringUpInv, BoundInv
    <3>3. QED
      BY <3>1, <3>2
  <2>2. ASSUME NEW f \in Handles, NEW g \in Handles, Bound(f)', Bound(g)', drv'[f].slot = drv'[g].slot
        PROVE  f = g
    <3>1. CASE f = h \/ g = h
      BY <1>2, <1>5, <1>6, <2>2, <3>1
    <3>2. CASE f # h /\ g # h
      BY <1>4, <1>5, <1>6, <2>2, <3>2 DEF BringUpInv, BoundInv
    <3>3. QED
      BY <3>1, <3>2
  <2>3. \A g \in Handles : IdOf(g)' = IdOf(g)
    BY DEF IdOf
  <2>4. QED
    BY <2>1, <2>2, <2>3 DEF BoundInv
<1>10. StatusInv'
  <2>1. at'.step \notin Accepted
    BY <1>3 DEF Accepted
  <2>2. QED
    BY <1>2, <1>4, <1>5, <2>1 DEF BringUpInv, StatusInv
<1>11. RingsInv'
  <2>1. \A q : \A g \in Handles : IsSetUp(g, q)' => g \in live /\ IsSetUp(g, q)
    BY <1>2, <1>3 DEF IsSetUp
  <2>2. \A g \in Handles : Queues(g)' = Queues(g)
    BY DEF Queues
  <2>3. ASSUME NEW g \in Handles, NEW q, IsSetUp(g, q)'
        PROVE  drv'[g] = drv[g] /\ Bound(g) /\ IsSetUp(g, q)
    BY <1>4, <1>5, <2>1, <2>3
  <2>4. QED
    BY <1>2, <2>2, <2>3 DEF BringUpInv, RingsInv
<1>12. QED
  BY <1>7, <1>8, <1>9, <1>10, <1>11 DEF BringUpInv

\* What virtio_pci_parse_caps finds.
Usable(h, t) ==
  {c \in DOMAIN bus[drv[h].slot].caps :
     bus[drv[h].slot].caps[c].cfg = t /\ drv[h].bars[bus[drv[h].slot].caps[c].bar] # NoAddr}

Parsed(h, cfg) ==
  /\ cfg \in [CfgTypes -> Nat]
  /\ \A t \in CfgTypes : Usable(h, t) # {} =>
       \E c \in Usable(h, t) : cfg[t] = drv[h].bars[bus[drv[h].slot].caps[c].bar]
  /\ DrvIs(h, drv[h].slot, drv[h].bars, cfg, drv[h].vq)

\* A sequence as a function.
LEMMA SeqFacts ==
  ASSUME NEW R, NEW s \in Seq(R)
  PROVE  Len(s) \in Nat /\ DOMAIN s = 1 .. Len(s) /\ \A i \in 1 .. Len(s) : s[i] \in R
OBVIOUS

\* A set of positions of a sequence has a last one.
LEMMA LastOf ==
  ASSUME NEW N \in Nat, NEW S \in SUBSET (1 .. N), S # {}
  PROVE  \E c \in S : \A e \in S : e <= c
<1> DEFINE T == {N - c : c \in S}
<1>1. T \in SUBSET Nat /\ T # {}
  <2>1. \A c \in S : c \in 1 .. N /\ N - c \in Nat
    OBVIOUS
  <2>2. PICK c \in S : TRUE
    OBVIOUS
  <2>3. QED
    BY <2>1, <2>2
<1>2. PICK i \in T : \A j \in T : i <= j
  BY <1>1, LeastSteps
<1>3. PICK c \in S : i = N - c
  BY <1>2
<1>4. \A e \in S : N - e \in T /\ e \in Int
  OBVIOUS
<1>5. \A e \in S : N - c <= N - e /\ c \in Int
  BY <1>2, <1>3, <1>4
<1>6. QED
  BY <1>4, <1>5

\* What ParseCaps does, variable by variable.
LEMMA ParseFacts ==
  ASSUME BringUpInv, NEW h \in Handles, ParseCaps(h)
  PROVE  \E cfg : Parsed(h, cfg)
<1> DEFINE s == drv[h].slot
           caps == bus[s].caps
           usable(t) == {c \in DOMAIN caps : caps[c].cfg = t /\ drv[h].bars[caps[c].bar] # NoAddr}
           last(t) == CHOOSE c \in usable(t) : \A e \in usable(t) : e <= c
           cfg == [t \in CfgTypes |-> IF usable(t) # {} THEN drv[h].bars[caps[last(t)].bar]
                                      ELSE drv[h].cfg[t]]
<1>1. at.who = h /\ at.step = "caps" /\ Bound(h)
  BY DEF ParseCaps, Bound, Found
<1>2. drv' = [drv EXCEPT ![h].cfg = cfg]
  BY DEF ParseCaps
<1>3. /\ s \in DOMAIN bus
      /\ \A i \in DOMAIN bus[s].bars : drv[h].bars[i] = window[s][i] /\ window[s][i] \in Nat
  BY <1>1 DEF BringUpInv, BoundInv, TypesInv
<1>4. caps \in Seq([cfg : CfgTypes, bar : DOMAIN bus[s].bars])
  BY <1>3, BusFacts DEF BringUpInv, TypesInv
<1>5. PICK N \in Nat : DOMAIN caps = 1 .. N /\ \A c \in 1 .. N : caps[c].bar \in DOMAIN bus[s].bars
  <2>1. Len(caps) \in Nat /\ DOMAIN caps = 1 .. Len(caps)
        /\ \A c \in 1 .. Len(caps) : caps[c] \in [cfg : CfgTypes, bar : DOMAIN bus[s].bars]
    BY <1>4, SeqFacts
  <2>2. QED
    BY <2>1
<1>6. ASSUME NEW t \in CfgTypes, usable(t) # {} PROVE last(t) \in usable(t)
  <2>1. usable(t) \in SUBSET (1 .. N)
    BY <1>5
  <2>2. \E c \in usable(t) : \A e \in usable(t) : e <= c
    BY <1>6, <2>1, LastOf
  <2>3. QED
    BY <2>2
<1>7. \A t : usable(t) = Usable(h, t)
  BY DEF Usable
<1> HIDE DEF last, usable
<1>8. ASSUME NEW t \in CfgTypes, usable(t) # {}
      PROVE  \E c \in usable(t) : cfg[t] = drv[h].bars[caps[c].bar] /\ cfg[t] \in Nat
  <2>1. last(t) \in usable(t) /\ cfg[t] = drv[h].bars[caps[last(t)].bar]
    BY <1>6, <1>8
  <2>2. last(t) \in DOMAIN caps
    BY <2>1 DEF usable
  <2>3. caps[last(t)].bar \in DOMAIN bus[s].bars
    BY <1>5, <2>2
  <2>4. QED
    BY <1>3, <2>1, <2>3
<1>9. cfg \in [CfgTypes -> Nat]
  <2>1. \A t \in CfgTypes : drv[h].cfg[t] \in Nat
    BY DEF BringUpInv, TypesInv
  <2>2. \A t \in CfgTypes : cfg[t] \in Nat
    BY <1>8, <2>1
  <2>3. QED
    BY <2>2
<1> HIDE DEF cfg
<1>10. DrvIs(h, drv[h].slot, drv[h].bars, cfg, drv[h].vq)
  <2>1. PICK a, b, c, v : a = drv[h].slot /\ b = drv[h].bars /\ c = drv[h].cfg /\ v = drv[h].vq
    OBVIOUS
  <2>2. drv[h] = [slot |-> a, bars |-> b, cfg |-> c, vq |-> v]
    BY <2>1 DEF BringUpInv, TypesInv
  <2>3. drv' = [drv EXCEPT ![h] = [drv[h] EXCEPT !.cfg = cfg]]
    BY <1>2
  <2>4. [drv[h] EXCEPT !.cfg = cfg] = [slot |-> a, bars |-> b, cfg |-> cfg, vq |-> v]
    BY <2>2
  <2>5. drv' = [drv EXCEPT ![h] = [slot |-> a, bars |-> b, cfg |-> cfg, vq |-> v]]
    BY <2>3, <2>4
  <2>6. QED
    BY <2>1, <2>5, DrvPut DEF BringUpInv
<1>11. Parsed(h, cfg)
  BY <1>7, <1>8, <1>9, <1>10 DEF Parsed
<1>12. QED
  BY <1>11

\* What the invariant needs to know about a step that only looks.
LEMMA LooksOnly ==
  ASSUME BringUpInv, NEW h \in Handles, at.who = h, at.step \in Found, at'.step \notin Accepted,
         NEW c \in [CfgTypes -> Nat], DrvIs(h, drv[h].slot, drv[h].bars, c, drv[h].vq),
         UNCHANGED <<bus, window, status, given, mmio32_alloc, pio_alloc, next_queue_slot, live,
                     input_dev_count, starved, inits>>,
         at'.who = h \/ at' = Idle, ControlInv'
  PROVE  BringUpInv'
<1>1. /\ h \notin live /\ \A g \in live : g # h
      /\ live \subseteq Handles
      /\ \A g \in Handles : Bound(g) <=> g \in live \/ g = h
  BY RunsFacts
<1>2. /\ \A g \in Handles : g # h => drv'[g] = drv[g]
      /\ drv'[h].slot = drv[h].slot /\ drv'[h].bars = drv[h].bars /\ drv'[h].vq = drv[h].vq
  BY DEF DrvIs
<1>3. \A g \in Handles : /\ drv'[g].slot = drv[g].slot /\ drv'[g].bars = drv[g].bars
                         /\ drv'[g].vq = drv[g].vq
  BY <1>2
<1>4. \A g \in Handles : Bound(g)' => Bound(g)
  BY <1>1, HandleFacts DEF Bound, Idle
<1>5. TypesInv'
  <2>1. \A g \in Handles : Queues(g)' = Queues(g)
    BY DEF Queues
  <2>2. /\ drv' = [g \in Handles |-> drv'[g]]
        /\ \A g \in Handles :
              /\ drv'[g] = [slot |-> drv'[g].slot, bars |-> drv'[g].bars, cfg |-> drv'[g].cfg,
                            vq |-> drv'[g].vq]
              /\ drv'[g].cfg \in [CfgTypes -> Nat]
              /\ drv'[g].vq \in [Queues(g) -> [ring : NoRing .. MaxQueues - 1, num : Nat]]
    <3>1. drv[h].vq \in [Queues(h) -> [ring : NoRing .. MaxQueues - 1, num : Nat]]
      BY DEF BringUpInv, TypesInv
    <3>2. QED
      BY <3>1, DrvTypes DEF BringUpInv
  <2>3. QED
    BY <2>1, <2>2 DEF BringUpInv, TypesInv
<1>6. BoundInv'
  BY <1>3, <1>4 DEF BringUpInv, BoundInv
<1>7. StatusInv'
  BY <1>1, <1>3 DEF BringUpInv, StatusInv
<1>8. RingsInv'
  <2>1. ASSUME NEW g \in Handles, NEW q, IsSetUp(g, q)' PROVE Bound(g) /\ IsSetUp(g, q)
    BY <1>4, <2>1, RunsFacts DEF IsSetUp, Accepted
  <2>2. \A g \in Handles : Queues(g)' = Queues(g)
    BY DEF Queues
  <2>3. QED
    BY <1>3, <2>1, <2>2 DEF BringUpInv, RingsInv
<1>9. QED
  BY <1>5, <1>6, <1>7, <1>8 DEF BringUpInv

\* virtio_pci_parse_caps.
LEMMA ParseCapsKeeps ==
  ASSUME BringUpInv, NEW h \in Handles, ParseCaps(h)
  PROVE  BringUpInv'
<1>1. PICK c : Parsed(h, c)
  BY ParseFacts
<1>2. /\ at.who = h /\ at.step = "caps" /\ at.step \in Found
      /\ UNCHANGED <<bus, window, status, given, mmio32_alloc, pio_alloc, next_queue_slot, live,
                     input_dev_count, starved, inits>>
      /\ at' = [at EXCEPT !.step = "negotiate"] \/ GiveUp(h)
  BY DEF ParseCaps, Found
<1>3. ControlInv' /\ at'.step \notin Accepted /\ (at'.who = h \/ at' = Idle)
  <2>1. CASE GiveUp(h)
    <3>1. ControlInv' /\ at'.step \notin Found
      BY <1>2, <2>1, GiveUpFacts
    <3>2. at'.who = h \/ at' = Idle
      BY <1>2, <2>1, AtFacts DEF GiveUp, BringUpInv
    <3>3. QED
      BY <3>1, <3>2 DEF Found, Accepted
  <2>2. CASE at' = [at EXCEPT !.step = "negotiate"]
    <3>1. /\ at'.who = h /\ at'.step = "negotiate" /\ at'.scan = at.scan
          /\ at' = [who |-> at'.who, step |-> at'.step, scan |-> at'.scan]
      BY <1>2, <2>2, AtFacts DEF BringUpInv
    <3>2. QED
      BY <1>2, <3>1 DEF BringUpInv, ControlInv, Accepted, Found
  <2>3. QED
    BY <1>2, <2>1, <2>2
<1>4. /\ c \in [CfgTypes -> Nat] /\ DrvIs(h, drv[h].slot, drv[h].bars, c, drv[h].vq)
  BY <1>1 DEF Parsed
<1>5. QED
  BY <1>2, <1>3, <1>4, LooksOnly

\* A device's queues change, and nobody else's.
GivenIs(s, gs) ==
  /\ given' = [t \in DOMAIN bus |-> given'[t]]
  /\ \A t \in DOMAIN bus : t # s => given'[t] = given[t]
  /\ given'[s] = gs

\* The rings that one device was told change.
LEMMA GivenPut ==
  ASSUME TypesInv, NEW s \in DOMAIN bus, NEW gs, given' = [given EXCEPT ![s] = gs]
  PROVE  GivenIs(s, gs)
<1>1. DOMAIN given = DOMAIN bus
  <2>1. given = [t \in DOMAIN bus |-> given[t]]
    BY DEF TypesInv
  <2>2. QED
    BY <2>1
<1>2. given' = [t \in DOMAIN bus |-> IF t = s THEN gs ELSE given[t]]
  BY <1>1
<1>3. \A t \in DOMAIN bus : given'[t] = IF t = s THEN gs ELSE given[t]
  BY <1>2
<1>4. given' = [t \in DOMAIN bus |-> given'[t]]
  BY <1>2, <1>3
<1>5. QED
  BY <1>3, <1>4 DEF GivenIs

\* The device of the driver whose init function runs, and those of others.
LEMMA DeviceFacts ==
  ASSUME BringUpInv, NEW h \in Handles, at.who = h, at.step \in Found,
         NEW s, s = drv[h].slot
  PROVE  /\ s \in DOMAIN bus /\ bus[s].id = IdOf(h)
         /\ DOMAIN bus[s].queues = Queues(h) /\ DOMAIN given[s] = Queues(h)
         /\ given[s] \in [Queues(h) -> NoRing .. MaxQueues - 1]
         /\ bus[s].queues \in [Queues(h) -> Nat] /\ bus[s].accepts \in BOOLEAN
         /\ \A g \in live : g # h /\ drv[g].slot # s /\ drv[g].slot \in DOMAIN bus
<1>1. Bound(h) /\ h \notin live
  BY RunsFacts
<1>2. s \in DOMAIN bus /\ bus[s].id = IdOf(h)
  BY <1>1 DEF BringUpInv, BoundInv
<1>3. DOMAIN bus[s].queues = Queues(h) /\ bus[s].queues \in Seq(Nat) /\ bus[s].accepts \in BOOLEAN
  <2>1. bus \in Buses
    BY DEF BringUpInv, TypesInv
  <2>2. QED
    BY <1>2, <2>1, BusFacts, Zenon
<1>4. given[s] \in [Queues(h) -> NoRing .. MaxQueues - 1]
  BY <1>2, <1>3 DEF BringUpInv, TypesInv
<1>5. bus[s].queues \in [Queues(h) -> Nat]
  <2>1. PICK qs \in Seq(Nat) : qs = bus[s].queues
    BY <1>3
  <2>2. qs \in [1 .. Len(qs) -> Nat] /\ DOMAIN qs = 1 .. Len(qs)
    BY <2>1
  <2>3. QED
    BY <1>3, <2>1, <2>2
<1>6. \A g \in live : g # h /\ g \in Handles /\ Bound(g)
  BY <1>1 DEF Bound, BringUpInv, ControlInv
<1>7. \A g \in live : drv[g].slot # s /\ drv[g].slot \in DOMAIN bus
  BY <1>1, <1>6 DEF BringUpInv, BoundInv
<1>8. QED
  BY <1>2, <1>3, <1>4, <1>5, <1>6, <1>7

\* virtio_pci_init_device: only a device that is nobody else's is reset.
LEMMA NegotiateKeeps ==
  ASSUME BringUpInv, NEW h \in Handles, Negotiate(h)
  PROVE  BringUpInv'
<1> DEFINE s == drv[h].slot
           none == [q \in DOMAIN given[s] |-> NoRing]
           state == IF bus[s].accepts THEN "features_ok" ELSE "failed"
<1>1. /\ at.who = h /\ at.step = "negotiate" /\ at.step \in Found
      /\ UNCHANGED <<bus, window, mmio32_alloc, pio_alloc, next_queue_slot, drv,
                     live, input_dev_count, starved, inits>>
      /\ given' = [given EXCEPT ![s] = none]
      /\ status' = [status EXCEPT ![s] = state]
      /\ at' = [at EXCEPT !.step = "queue1"] \/ GiveUp(h)
  BY DEF Negotiate, Found
<1>2. /\ s \in DOMAIN bus /\ bus[s].id = IdOf(h)
      /\ DOMAIN given[s] = Queues(h) /\ DOMAIN bus[s].queues = Queues(h)
      /\ \A g \in live : g # h /\ drv[g].slot # s /\ drv[g].slot \in DOMAIN bus
  BY <1>1, DeviceFacts
<1>3. /\ given' = [t \in DOMAIN bus |-> given'[t]]
      /\ \A t \in DOMAIN bus : t # s => given'[t] = given[t]
      /\ given'[s] = none
  <2>1. GivenIs(s, none)
    BY <1>1, <1>2, GivenPut DEF BringUpInv
  <2>2. QED
    BY <2>1 DEF GivenIs
<1>4. /\ status' \in [DOMAIN bus -> {"reset", "driver", "features_ok", "driver_ok", "failed"}]
      /\ \A t \in DOMAIN bus : status'[t] = IF t = s THEN state ELSE status[t]
      /\ state # "driver_ok"
  BY <1>1, <1>2 DEF BringUpInv, TypesInv
<1>5. none \in [Queues(h) -> NoRing .. MaxQueues - 1] /\ \A q \in Queues(h) : none[q] = NoRing
  BY <1>2, TransportAssumption DEF NoRing
<1> HIDE DEF none, state
<1>6. ControlInv' /\ (at'.who = h \/ at' = Idle) /\ at'.step \notin {"caps", "negotiate", "queue2", "live"}
  <2>1. CASE GiveUp(h)
    <3>1. ControlInv' /\ at'.step \notin Found
      BY <1>1, <2>1, GiveUpFacts
    <3>2. at'.who = h \/ at' = Idle
      BY <1>1, <2>1, AtFacts DEF GiveUp, BringUpInv
    <3>3. QED
      BY <3>1, <3>2 DEF Found
  <2>2. CASE at' = [at EXCEPT !.step = "queue1"]
    <3>1. /\ at'.who = h /\ at'.step = "queue1" /\ at'.scan = at.scan
          /\ at' = [who |-> at'.who, step |-> at'.step, scan |-> at'.scan]
      BY <1>1, <2>2, AtFacts DEF BringUpInv
    <3>2. QED
      BY <1>1, <3>1 DEF BringUpInv, ControlInv, Found
  <2>3. QED
    BY <1>1, <2>1, <2>2
<1>7. \A g \in Handles : Bound(g)' => Bound(g)
  BY <1>1, <1>6, HandleFacts DEF Bound, Idle
<1>8. TypesInv'
  <2>1. \A g \in Handles : Queues(g)' = Queues(g)
    BY DEF Queues
  <2>2. \A t \in DOMAIN bus : given'[t] \in [DOMAIN bus[t].queues -> NoRing .. MaxQueues - 1]
    BY <1>2, <1>3, <1>5 DEF BringUpInv, TypesInv
  <2>3. QED
    BY <1>1, <1>3, <1>4, <2>1, <2>2 DEF BringUpInv, TypesInv
<1>9. BoundInv'
  BY <1>1, <1>7 DEF BringUpInv, BoundInv
<1>10. StatusInv'
  <2>1. \A g \in live' : status'[drv'[g].slot] = "driver_ok"
    BY <1>1, <1>2, <1>4 DEF BringUpInv, StatusInv
  <2>2. at'.step \in Accepted => status'[drv'[at'.who].slot] # "driver_ok"
    BY <1>1, <1>2, <1>4, <1>6 DEF Accepted, Idle
  <2>3. QED
    BY <2>1, <2>2 DEF StatusInv
<1>11. RingsInv'
  <2>1. ASSUME ~starved
        PROVE  /\ \A t \in DOMAIN bus : \A q \in DOMAIN given'[t] :
                    /\ given'[t][q] < next_queue_slot
                    /\ status'[t] = "driver_ok" => given'[t][q] # NoRing
               /\ \A t, u \in DOMAIN bus : \A q \in DOMAIN given'[t], r \in DOMAIN given'[u] :
                    given'[t][q] = given'[u][r] /\ given'[t][q] # NoRing => t = u /\ q = r
    <3>1. \A t \in DOMAIN bus : t # s => \A q \in DOMAIN given'[t] :
            /\ given'[t][q] < next_queue_slot
            /\ status'[t] = "driver_ok" => given'[t][q] # NoRing
      BY <1>3, <1>4, <2>1 DEF BringUpInv, RingsInv
    <3>2. \A q \in DOMAIN given'[s] : given'[s][q] = NoRing
      BY <1>2, <1>3, <1>5
    <3>3. NoRing < next_queue_slot
      BY TransportAssumption DEF BringUpInv, TypesInv, NoRing
    <3>4. status'[s] # "driver_ok"
      BY <1>2, <1>4
    <3>5. \A t, u \in DOMAIN bus : t # s /\ u # s =>
            \A q \in DOMAIN given'[t], r \in DOMAIN given'[u] :
              given'[t][q] = given'[u][r] /\ given'[t][q] # NoRing => t = u /\ q = r
      BY <1>3, <2>1 DEF BringUpInv, RingsInv
    <3>6. QED
      BY <3>1, <3>2, <3>3, <3>4, <3>5
  <2>2. ASSUME ~starved, NEW g \in Handles, NEW q \in Queues(g), IsSetUp(g, q)'
        PROVE  /\ drv'[g].vq[q].ring # NoRing /\ given'[drv'[g].slot][q] = drv'[g].vq[q].ring
               /\ drv'[g].vq[q].num \in 1 .. bus'[drv'[g].slot].queues[q]
    <3>1. g \in live
      BY <1>1, <1>6, <2>2 DEF IsSetUp
    <3>2. given'[drv[g].slot] = given[drv[g].slot]
      BY <1>2, <1>3, <3>1
    <3>3. Bound(g) /\ IsSetUp(g, q)
      BY <3>1 DEF Bound, IsSetUp
    <3>4. QED
      BY <1>1, <2>2, <3>2, <3>3 DEF BringUpInv, RingsInv
  <2>3. \A g \in Handles : Queues(g)' = Queues(g)
    BY DEF Queues
  <2>4. QED
    BY <1>1, <2>1, <2>2, <2>3 DEF RingsInv
<1>12. QED
  BY <1>6, <1>8, <1>9, <1>10, <1>11 DEF BringUpInv

\* The queue that a driver gets.
NewQueue(h, q) ==
  LET size == bus[drv[h].slot].queues[q]
      want == Desired[IdOf(h)][q] IN
  IF next_queue_slot < MaxQueues
  THEN [ring |-> next_queue_slot, num |-> IF want > size THEN size ELSE want]
  ELSE drv[h].vq[q]

\* What virtio_pci_setup_queue changes.
SetsUp(h, q, s, x, v, gs) ==
  /\ at.who = h /\ at.step = QueueStep[q] /\ at.step \in {"queue1", "queue2"}
  /\ s = drv[h].slot /\ bus[s].queues[q] > 0
  /\ x = NewQueue(h, q)
  /\ v = [drv[h].vq EXCEPT ![q] = x] /\ DrvIs(h, s, drv[h].bars, drv[h].cfg, v)
  /\ gs = [given[s] EXCEPT ![q] = x.ring] /\ GivenIs(s, gs)
  /\ next_queue_slot' = NextSlot(next_queue_slot)
  /\ starved' = (starved \/ next_queue_slot = MaxQueues)
  /\ at' = [at EXCEPT !.step = IF q < Len(Desired[IdOf(h)]) THEN QueueStep[q + 1] ELSE "live"]
  /\ UNCHANGED <<bus, window, status, mmio32_alloc, pio_alloc, live, input_dev_count, inits>>

\* What SetupQueue does, variable by variable.
LEMMA SetupFacts ==
  ASSUME BringUpInv, NEW h \in Handles, NEW q \in Queues(h), SetupQueue(h, q)
  PROVE  \E s, x, v, gs : SetsUp(h, q, s, x, v, gs)
<1>1. PICK s, x : s = drv[h].slot /\ x = NewQueue(h, q)
  OBVIOUS
<1>2. PICK v : v = [drv[h].vq EXCEPT ![q] = x]
  OBVIOUS
<1>3. PICK gs : gs = [given[s] EXCEPT ![q] = x.ring]
  OBVIOUS
<1>4. /\ at.who = h /\ at.step = QueueStep[q] /\ bus[s].queues[q] > 0
      /\ drv' = [drv EXCEPT ![h].vq[q] = x]
      /\ given' = [given EXCEPT ![s][q] = x.ring]
      /\ next_queue_slot' = NextSlot(next_queue_slot)
      /\ starved' = (starved \/ next_queue_slot = MaxQueues)
      /\ at' = [at EXCEPT !.step = IF q < Len(Desired[IdOf(h)]) THEN QueueStep[q + 1] ELSE "live"]
      /\ UNCHANGED <<bus, window, status, mmio32_alloc, pio_alloc, live, input_dev_count, inits>>
  BY <1>1 DEF SetupQueue, NewQueue
<1>5. at.step \in {"queue1", "queue2"} /\ at.step \in Found
  <2>1. q \in {1, 2}
    BY HandleFacts
  <2>2. QueueStep[1] = "queue1" /\ QueueStep[2] = "queue2"
    BY DEF QueueStep
  <2>3. QED
    BY <1>4, <2>1, <2>2 DEF Found
<1>6. s \in DOMAIN bus
  BY <1>1, <1>4, <1>5, DeviceFacts
<1>7. GivenIs(s, gs)
  <2>1. given' = [given EXCEPT ![s] = gs]
    BY <1>3, <1>4
  <2>2. QED
    BY <1>6, <2>1, GivenPut DEF BringUpInv
<1>8. DrvIs(h, s, drv[h].bars, drv[h].cfg, v)
  <2>1. PICK b, c, w : b = drv[h].bars /\ c = drv[h].cfg /\ w = drv[h].vq
    OBVIOUS
  <2>2. drv[h] = [slot |-> s, bars |-> b, cfg |-> c, vq |-> w]
    BY <1>1, <2>1 DEF BringUpInv, TypesInv
  <2>3. drv' = [drv EXCEPT ![h] = [drv[h] EXCEPT !.vq = v]]
    BY <1>2, <1>4
  <2>4. [drv[h] EXCEPT !.vq = v] = [slot |-> s, bars |-> b, cfg |-> c, vq |-> v]
    BY <2>2
  <2>5. drv' = [drv EXCEPT ![h] = [slot |-> s, bars |-> b, cfg |-> c, vq |-> v]]
    BY <2>3, <2>4
  <2>6. QED
    BY <2>1, <2>5, DrvPut DEF BringUpInv
<1>9. SetsUp(h, q, s, x, v, gs)
  BY <1>1, <1>2, <1>3, <1>4, <1>5, <1>7, <1>8 DEF SetsUp
<1>10. QED
  BY <1>9

\* The queue that virtqueue_init sets up, while there are rings.
LEMMA NewQueueFacts ==
  ASSUME BringUpInv, NEW h \in Handles, NEW q \in Queues(h), at.who = h, at.step \in Found,
         bus[drv[h].slot].queues[q] > 0
  PROVE  /\ NewQueue(h, q) \in [ring : NoRing .. MaxQueues - 1, num : Nat]
         /\ next_queue_slot < MaxQueues =>
              /\ NewQueue(h, q).ring = next_queue_slot
              /\ NewQueue(h, q).num \in 1 .. bus[drv[h].slot].queues[q]
<1>1. PICK size, want : size = bus[drv[h].slot].queues[q] /\ want = Desired[IdOf(h)][q]
  OBVIOUS
<1>2. size \in Nat \ {0} /\ want \in Nat \ {0}
  <2>1. bus[drv[h].slot].queues \in [Queues(h) -> Nat]
    BY DeviceFacts
  <2>2. Desired[IdOf(h)][q] \in Nat \ {0}
    BY HandleFacts
  <2>3. bus[drv[h].slot].queues[q] \in Nat
    BY <2>1
  <2>4. QED
    BY <1>1, <2>2, <2>3
<1>3. drv[h].vq[q] \in [ring : NoRing .. MaxQueues - 1, num : Nat]
  BY DEF BringUpInv, TypesInv
<1>4. next_queue_slot \in 0 .. MaxQueues /\ MaxQueues \in Nat
  BY TransportAssumption DEF BringUpInv, TypesInv
<1>5. CASE next_queue_slot < MaxQueues
  <2>1. PICK k : k = IF want > size THEN size ELSE want
    OBVIOUS
  <2>2. k \in 1 .. size /\ k \in Nat
    BY <1>2, <2>1
  <2>3. NewQueue(h, q) = [ring |-> next_queue_slot, num |-> k]
    BY <1>1, <1>5, <2>1 DEF NewQueue
  <2>4. next_queue_slot \in NoRing .. MaxQueues - 1
    BY <1>4, <1>5 DEF NoRing
  <2>5. QED
    BY <1>1, <2>2, <2>3, <2>4
<1>6. CASE ~(next_queue_slot < MaxQueues)
  BY <1>3, <1>6 DEF NewQueue
<1>7. QED
  BY <1>5, <1>6

\* virtio_pci_setup_queue: the ring is a new one as long as there are any.
LEMMA SetupQueueKeeps ==
  ASSUME BringUpInv, NEW h \in Handles, NEW q \in Queues(h), SetupQueue(h, q)
  PROVE  BringUpInv'
<1>1. PICK s, x, v, gs : SetsUp(h, q, s, x, v, gs)
  BY SetupFacts
<1>2. /\ at.who = h /\ at.step = QueueStep[q] /\ at.step \in {"queue1", "queue2"}
      /\ at.step \in Found /\ at.step \in Accepted
      /\ s = drv[h].slot /\ bus[s].queues[q] > 0
      /\ x = NewQueue(h, q)
      /\ v = [drv[h].vq EXCEPT ![q] = x] /\ DrvIs(h, s, drv[h].bars, drv[h].cfg, v)
      /\ gs = [given[s] EXCEPT ![q] = x.ring]
      /\ given' = [t \in DOMAIN bus |-> given'[t]]
      /\ \A t \in DOMAIN bus : t # s => given'[t] = given[t]
      /\ given'[s] = gs
      /\ UNCHANGED <<bus, window, status, mmio32_alloc, pio_alloc, live, input_dev_count, inits>>
  BY <1>1 DEF SetsUp, GivenIs, Found, Accepted
<1>3. /\ next_queue_slot' = NextSlot(next_queue_slot)
      /\ starved' = (starved \/ next_queue_slot = MaxQueues)
      /\ at' = [at EXCEPT !.step = IF q < Len(Desired[IdOf(h)]) THEN QueueStep[q + 1] ELSE "live"]
  BY <1>1 DEF SetsUp
<1>4. /\ s \in DOMAIN bus /\ bus[s].id = IdOf(h)
      /\ DOMAIN bus[s].queues = Queues(h)
      /\ given[s] \in [Queues(h) -> NoRing .. MaxQueues - 1]
      /\ \A g \in live : g # h /\ drv[g].slot # s /\ drv[g].slot \in DOMAIN bus
  BY <1>2, DeviceFacts
<1>5. /\ x \in [ring : NoRing .. MaxQueues - 1, num : Nat]
      /\ next_queue_slot < MaxQueues => x.ring = next_queue_slot /\ x.num \in 1 .. bus[s].queues[q]
  BY <1>2, NewQueueFacts
<1>6. /\ drv[h].vq \in [Queues(h) -> [ring : NoRing .. MaxQueues - 1, num : Nat]]
      /\ drv[h].cfg \in [CfgTypes -> Nat]
  BY DEF BringUpInv, TypesInv
<1>7. /\ v \in [Queues(h) -> [ring : NoRing .. MaxQueues - 1, num : Nat]]
      /\ \A r \in Queues(h) : v[r] = IF r = q THEN x ELSE drv[h].vq[r]
  BY <1>2, <1>5, <1>6
<1>8. /\ gs \in [Queues(h) -> NoRing .. MaxQueues - 1]
      /\ \A r \in Queues(h) : gs[r] = IF r = q THEN x.ring ELSE given[s][r]
  BY <1>2, <1>4, <1>5
<1>9. /\ \A g \in Handles : g # h => drv'[g] = drv[g]
      /\ drv'[h].slot = s /\ drv'[h].bars = drv[h].bars /\ drv'[h].vq = v
  BY <1>2 DEF DrvIs
<1>10. /\ at'.who = h /\ at'.scan = at.scan
       /\ at' = [who |-> at'.who, step |-> at'.step, scan |-> at'.scan]
       /\ \/ at.step = "queue1" /\ q = 1 /\ at'.step = "queue2" /\ 2 \in Queues(h)
          \/ at.step = "queue1" /\ q = 1 /\ at'.step = "live" /\ Queues(h) = 1 .. 1
          \/ at.step = "queue2" /\ q = 2 /\ at'.step = "live" /\ Queues(h) = 1 .. 2
  <2>0. PICK n : n = Len(Desired[IdOf(h)])
    OBVIOUS
  <2>1. PICK y : y = IF q < n THEN QueueStep[q + 1] ELSE "live"
    OBVIOUS
  <2>2. /\ at'.who = h /\ at'.scan = at.scan /\ at'.step = y
        /\ at' = [who |-> at'.who, step |-> at'.step, scan |-> at'.scan]
    <3>1. PICK u : u = [at EXCEPT !.step = y]
      OBVIOUS
    <3>2. /\ u.who = at.who /\ u.step = y /\ u.scan = at.scan
          /\ u = [who |-> u.who, step |-> u.step, scan |-> u.scan]
      BY <3>1, AtFacts DEF BringUpInv
    <3>3. QED
      BY <1>2, <1>3, <2>0, <2>1, <3>1, <3>2
  <2>3. QueueStep[1] = "queue1" /\ QueueStep[2] = "queue2"
    BY DEF QueueStep
  <2>4. n \in {1, 2} /\ Queues(h) = 1 .. n /\ q \in 1 .. n
    BY <2>0, HandleFacts
  <2>5. CASE n = 1
    BY <1>2, <2>1, <2>2, <2>3, <2>4, <2>5
  <2>6. CASE n = 2 /\ q = 1
    BY <1>2, <2>1, <2>2, <2>3, <2>4, <2>6
  <2>7. CASE n = 2 /\ q = 2
    BY <1>2, <2>1, <2>2, <2>3, <2>4, <2>7
  <2>8. QED
    BY <2>4, <2>5, <2>6, <2>7
<1>11. /\ next_queue_slot' \in 0 .. MaxQueues
       /\ next_queue_slot < MaxQueues => next_queue_slot' = next_queue_slot + 1
       /\ starved \in BOOLEAN /\ starved' \in BOOLEAN
       /\ ~starved' => ~starved /\ next_queue_slot < MaxQueues
  <2>1. next_queue_slot \in 0 .. MaxQueues /\ starved \in BOOLEAN /\ MaxQueues \in Nat
    BY TransportAssumption DEF BringUpInv, TypesInv
  <2>2. /\ next_queue_slot' = NextSlot(next_queue_slot)
        /\ starved' = (starved \/ next_queue_slot = MaxQueues)
    BY <1>1 DEF SetsUp
  <2>3. /\ next_queue_slot' \in 0 .. MaxQueues
        /\ next_queue_slot < MaxQueues => next_queue_slot' = next_queue_slot + 1
        /\ next_queue_slot = MaxQueues \/ next_queue_slot < MaxQueues
    BY <2>1, <2>2 DEF NextSlot
  <2>4. starved' \in BOOLEAN /\ (~starved' => ~starved /\ next_queue_slot # MaxQueues)
    BY <2>1, <2>2, Zenon
  <2>5. QED
    BY <2>1, <2>3, <2>4, Zenon
<1>12. \A g \in Handles : Bound(g)' <=> Bound(g)
  BY <1>2, <1>10 DEF Bound, Found
<1>13. TypesInv'
  <2>1. \A g \in Handles : Queues(g)' = Queues(g)
    BY DEF Queues
  <2>2. /\ drv' = [g \in Handles |-> drv'[g]]
        /\ \A g \in Handles :
              /\ drv'[g] = [slot |-> drv'[g].slot, bars |-> drv'[g].bars, cfg |-> drv'[g].cfg,
                            vq |-> drv'[g].vq]
              /\ drv'[g].cfg \in [CfgTypes -> Nat]
              /\ drv'[g].vq \in [Queues(g) -> [ring : NoRing .. MaxQueues - 1, num : Nat]]
    BY <1>2, <1>6, <1>7, DrvTypes DEF BringUpInv
  <2>3. \A t \in DOMAIN bus : given'[t] \in [DOMAIN bus[t].queues -> NoRing .. MaxQueues - 1]
    <3>1. given'[s] = gs /\ \A t \in DOMAIN bus : t # s => given'[t] = given[t]
      BY <1>2
    <3>2. gs \in [DOMAIN bus[s].queues -> NoRing .. MaxQueues - 1]
      BY <1>4, <1>8
    <3>3. \A t \in DOMAIN bus : given[t] \in [DOMAIN bus[t].queues -> NoRing .. MaxQueues - 1]
      BY DEF BringUpInv, TypesInv
    <3>4. QED
      BY <3>1, <3>2, <3>3
  <2>4. QED
    BY <1>2, <1>11, <2>1, <2>2, <2>3 DEF BringUpInv, TypesInv
<1>14. ControlInv'
  <2>1. at'.step \in Found
    BY <1>10 DEF Found
  <2>2. QED
    BY <1>2, <1>10, <2>1 DEF BringUpInv, ControlInv
<1>15. BoundInv'
  <2>1. \A g \in Handles : drv'[g].slot = drv[g].slot /\ drv'[g].bars = drv[g].bars
    BY <1>2, <1>9
  <2>2. QED
    BY <1>2, <1>12, <2>1 DEF BringUpInv, BoundInv
<1>16. StatusInv'
  <2>1. \A g \in live : drv'[g] = drv[g]
    BY <1>4, <1>9 DEF BringUpInv, ControlInv
  <2>2. QED
    BY <1>2, <1>9, <1>10, <2>1 DEF BringUpInv, StatusInv
<1>17. RingsInv'
  <2>1. ASSUME ~starved'
        PROVE  /\ \A t \in DOMAIN bus : \A r \in DOMAIN given'[t] :
                    /\ given'[t][r] < next_queue_slot'
                    /\ status'[t] = "driver_ok" => given'[t][r] # NoRing
               /\ \A t, u \in DOMAIN bus : \A p \in DOMAIN given'[t], r \in DOMAIN given'[u] :
                    given'[t][p] = given'[u][r] /\ given'[t][p] # NoRing => t = u /\ p = r
    <3>1. /\ ~starved /\ x.ring = next_queue_slot /\ next_queue_slot \in Nat
          /\ next_queue_slot' = next_queue_slot + 1
      BY <1>5, <1>11, <2>1 DEF BringUpInv, TypesInv
    <3>2. /\ \A t \in DOMAIN bus : \A r \in DOMAIN given[t] :
               /\ given[t][r] < next_queue_slot /\ given[t][r] \in Int
               /\ status[t] = "driver_ok" => given[t][r] # NoRing
          /\ \A t, u \in DOMAIN bus : \A p \in DOMAIN given[t], r \in DOMAIN given[u] :
               given[t][p] = given[u][r] /\ given[t][p] # NoRing => t = u /\ p = r
      BY <3>1 DEF BringUpInv, RingsInv, TypesInv
    <3>3. status[s] # "driver_ok"
      BY <1>2 DEF BringUpInv, StatusInv
    <3>4. DOMAIN given[s] = Queues(h) /\ DOMAIN given'[s] = Queues(h)
      BY <1>2, <1>4, <1>8
    <3>5. ASSUME NEW t \in DOMAIN bus, NEW r \in DOMAIN given'[t]
          PROVE  \/ t = s /\ r = q /\ given'[t][r] = next_queue_slot
                 \/ /\ t # s \/ r # q
                    /\ r \in DOMAIN given[t] /\ given'[t][r] = given[t][r]
                    /\ given'[t][r] < next_queue_slot
      <4>1. CASE t # s
        BY <1>2, <3>2, <3>5, <4>1
      <4>2. CASE t = s
        BY <1>2, <1>8, <3>1, <3>2, <3>4, <3>5, <4>2
      <4>3. QED
        BY <4>1, <4>2
    <3>6. \A t \in DOMAIN bus : \A r \in DOMAIN given'[t] :
                    /\ given'[t][r] < next_queue_slot'
                    /\ status'[t] = "driver_ok" => given'[t][r] # NoRing
      BY <1>2, <3>1, <3>2, <3>3, <3>5
    <3>7. ASSUME NEW t \in DOMAIN bus, NEW u \in DOMAIN bus,
                 NEW p \in DOMAIN given'[t], NEW r \in DOMAIN given'[u],
                 given'[t][p] = given'[u][r], given'[t][p] # NoRing
          PROVE  t = u /\ p = r
      <4>1. /\ \/ t = s /\ p = q /\ given'[t][p] = next_queue_slot
               \/ /\ t # s \/ p # q
                  /\ p \in DOMAIN given[t] /\ given'[t][p] = given[t][p]
                  /\ given'[t][p] < next_queue_slot
            /\ \/ u = s /\ r = q /\ given'[u][r] = next_queue_slot
               \/ /\ u # s \/ r # q
                  /\ r \in DOMAIN given[u] /\ given'[u][r] = given[u][r]
                  /\ given'[u][r] < next_queue_slot
        BY <3>5
      <4>2. QED
        BY <3>1, <3>2, <3>7, <4>1
    <3>8. QED
      BY <3>6, <3>7
  <2>2. ASSUME ~starved', NEW g \in Handles, NEW r \in Queues(g), Bound(g)', IsSetUp(g, r)'
        PROVE  /\ drv'[g].vq[r].ring # NoRing /\ given'[drv'[g].slot][r] = drv'[g].vq[r].ring
               /\ drv'[g].vq[r].num \in 1 .. bus'[drv'[g].slot].queues[r]
    <3>1. CASE g \in live
      <4>1. g # h /\ drv'[g] = drv[g] /\ drv[g].slot # s /\ drv[g].slot \in DOMAIN bus
        BY <1>4, <1>9, <3>1
      <4>2. Bound(g) /\ IsSetUp(g, r)
        BY <3>1 DEF Bound, IsSetUp
      <4>3. QED
        BY <1>2, <1>11, <2>2, <4>1, <4>2 DEF BringUpInv, RingsInv
    <3>2. CASE g \notin live
      <4>1. g = h
        BY <1>2, <1>10, <2>2, <3>2 DEF IsSetUp
      <4>2. CASE r = q
        <5>1. x.ring = next_queue_slot /\ x.num \in 1 .. bus[s].queues[q]
          BY <1>5, <1>11, <2>2
        <5>2. next_queue_slot # NoRing
          BY DEF BringUpInv, TypesInv, NoRing
        <5>3. QED
          BY <1>2, <1>7, <1>8, <1>9, <4>1, <4>2, <5>1, <5>2
      <4>3. CASE r # q
        <5>1. r = 1 /\ at.step = "queue2"
          BY <1>2, <1>10, <2>2, <3>2, <4>1, <4>3 DEF IsSetUp
        <5>2. Bound(h) /\ IsSetUp(h, r)
          BY <1>2, <5>1 DEF Bound, IsSetUp
        <5>3. /\ drv[h].vq[r].ring # NoRing /\ given[s][r] = drv[h].vq[r].ring
              /\ drv[h].vq[r].num \in 1 .. bus[s].queues[r]
          BY <1>2, <1>11, <2>2, <4>1, <5>2 DEF BringUpInv, RingsInv
        <5>4. QED
          BY <1>2, <1>7, <1>8, <1>9, <2>2, <4>1, <4>3, <5>3
      <4>4. QED
        BY <4>2, <4>3
    <3>3. QED
      BY <3>1, <3>2
  <2>3. \A g \in Handles : Queues(g)' = Queues(g)
    BY DEF Queues
  <2>4. QED
    BY <1>2, <2>1, <2>2, <2>3 DEF RingsInv
<1>18. QED
  BY <1>13, <1>14, <1>15, <1>16, <1>17 DEF BringUpInv

\* Where the scan goes on when a driver is ready.
GoesOn(h) ==
  \/ /\ h \in Singles /\ input_dev_count' = input_dev_count
     /\ at' = [who |-> Nobody, step |-> "idle", scan |-> 0]
  \/ /\ h \notin Singles /\ input_dev_count' = input_dev_count + 1
     /\ \/ /\ input_dev_count + 1 < Len(Inputs)
           /\ at' = [who |-> Inputs[input_dev_count + 2], step |-> "find", scan |-> at.scan]
        \/ /\ ~(input_dev_count + 1 < Len(Inputs))
           /\ at' = [who |-> Nobody, step |-> "idle", scan |-> 0]

\* Who is ready after DRIVER_OK.
LEMMA GoLiveFacts ==
  ASSUME BringUpInv, NEW h \in Handles, GoLive(h)
  PROVE  GoesOn(h)
<1>1. CASE h \in Singles
  BY <1>1 DEF GoLive, GoesOn, Idle
<1>2. CASE h \notin Singles
  <2>1. PICK n \in Nat : n = input_dev_count
    BY HandleFacts DEF BringUpInv, ControlInv
  <2>2. /\ input_dev_count' = n + 1
        /\ at' = IF input_dev_count' < Len(Inputs)
                 THEN [at EXCEPT !.who = Inputs[input_dev_count' + 1], !.step = "find"]
                 ELSE Idle
    BY <1>2, <2>1 DEF GoLive
  <2>3. PICK u : u = [at EXCEPT !.who = Inputs[n + 2], !.step = "find"]
    OBVIOUS
  <2>4. /\ u.who = Inputs[n + 2] /\ u.step = "find" /\ u.scan = at.scan
        /\ u = [who |-> u.who, step |-> u.step, scan |-> u.scan]
    BY <2>3, AtFacts DEF BringUpInv
  <2>5. n + 1 + 1 = n + 2
    BY <2>1
  <2>6. at' = IF n + 1 < Len(Inputs) THEN u ELSE Idle
    BY <2>2, <2>3, <2>5
  <2>7. QED
    BY <1>2, <2>1, <2>2, <2>4, <2>6 DEF GoesOn, Idle
<1>3. QED
  BY <1>1, <1>2

\* virtio_pci_set_driver_ok.
LEMMA GoLiveKeeps ==
  ASSUME BringUpInv, NEW h \in Handles, GoLive(h)
  PROVE  BringUpInv'
<1>1. PICK s : s = drv[h].slot
  OBVIOUS
<1>2. /\ at.who = h /\ at.step = "live" /\ at.step \in Found
      /\ UNCHANGED <<bus, window, given, mmio32_alloc, pio_alloc, next_queue_slot, drv,
                     starved, inits>>
      /\ status' = [status EXCEPT ![s] = "driver_ok"]
      /\ live' = live \cup {h}
  BY <1>1 DEF GoLive, Found
<1>3. GoesOn(h)
  BY GoLiveFacts
<1>4. /\ s \in DOMAIN bus /\ bus[s].id = IdOf(h)
      /\ DOMAIN given[s] = Queues(h)
      /\ \A g \in live : g # h /\ drv[g].slot # s /\ drv[g].slot \in DOMAIN bus
  BY <1>1, <1>2, DeviceFacts
<1>5. /\ status' \in [DOMAIN bus -> {"reset", "driver", "features_ok", "driver_ok", "failed"}]
      /\ \A t \in DOMAIN bus : status'[t] = IF t = s THEN "driver_ok" ELSE status[t]
  BY <1>2, <1>4 DEF BringUpInv, TypesInv
<1>6. at'.step \in {"idle", "find"}
  BY <1>3 DEF GoesOn
<1>7. \A g \in Handles : Bound(g)' <=> Bound(g)
  <2>1. \A g \in Handles : Bound(g)' <=> g \in live \/ g = h
    BY <1>2, <1>6 DEF Bound, Found
  <2>2. QED
    BY <1>2, <2>1, RunsFacts
<1>8. TypesInv'
  <2>1. \A g \in Handles : Queues(g)' = Queues(g)
    BY DEF Queues
  <2>2. QED
    BY <1>2, <1>5, <2>1 DEF BringUpInv, TypesInv
<1>9. ControlInv'
  <2>1. /\ live \subseteq Handles /\ input_dev_count \in 0 .. Len(Inputs) /\ at.scan \in Nat
        /\ live \cap Range(Inputs) = {Inputs[i] : i \in 1 .. input_dev_count}
        /\ h \in Range(Inputs) => input_dev_count < Len(Inputs) /\ h = Inputs[input_dev_count + 1]
    BY <1>2 DEF BringUpInv, ControlInv
  <2>2. PICK n, N : n = input_dev_count /\ N = Len(Inputs)
    OBVIOUS
  <2>3. N \in Nat /\ n \in 0 .. N
    BY <2>1, <2>2, HandleFacts
  <2>4. CASE h \in Singles
    <3>1. input_dev_count' = n /\ at' = [who |-> Nobody, step |-> "idle", scan |-> 0]
      BY <1>3, <2>2, <2>4 DEF GoesOn
    <3>2. live' \cap Range(Inputs) = live \cap Range(Inputs)
      BY <1>2, <2>4, HandleFacts
    <3>3. Nobody \notin Range(Inputs) /\ Nobody \notin live'
      BY <1>2, <2>1, HandleFacts
    <3>4. QED
      BY <1>2, <2>1, <2>2, <3>1, <3>2, <3>3 DEF ControlInv, Idle
  <2>5. CASE h \notin Singles
    <3>1. h \in Range(Inputs) /\ n < N /\ h = Inputs[n + 1]
      BY <2>1, <2>2, <2>5, HandleFacts
    <3>2. input_dev_count' = n + 1 /\ n + 1 \in 0 .. N
      BY <1>3, <2>2, <2>3, <2>5, <3>1 DEF GoesOn
    <3>3. live' \cap Range(Inputs) = {Inputs[i] : i \in 1 .. n + 1}
      <4>1. 1 .. n + 1 = (1 .. n) \cup {n + 1}
        BY <2>3
      <4>2. {Inputs[i] : i \in 1 .. n + 1} = {Inputs[i] : i \in 1 .. n} \cup {Inputs[n + 1]}
        BY <4>1
      <4>3. QED
        BY <1>2, <2>1, <2>2, <3>1, <4>2
    <3>4. live' \subseteq Handles
      BY <1>2, <2>1
    <3>5. CASE n + 1 < N
      <4>1. at' = [who |-> Inputs[n + 2], step |-> "find", scan |-> at.scan]
        BY <1>3, <2>2, <2>5, <3>5 DEF GoesOn
      <4>2. n + 2 \in 1 .. N /\ n + 1 + 1 = n + 2
        BY <2>3, <3>5
      <4>3. Inputs[n + 2] \in Range(Inputs) /\ Inputs[n + 2] \in Handles
        BY <2>2, <4>2, HandleFacts
      <4>4. Inputs[n + 2] \notin live'
        <5>1. ASSUME NEW i \in 1 .. n + 1, Inputs[i] = Inputs[n + 2] PROVE FALSE
          <6>1. i \in 1 .. N /\ i # n + 2
            BY <2>3, <3>5
          <6>2. \A x, y \in 1 .. N : Inputs[x] = Inputs[y] => x = y
            BY <2>2, InputsAssumption
          <6>3. QED
            BY <4>2, <5>1, <6>1, <6>2
        <5>2. QED
          BY <3>3, <4>3, <5>1
      <4>5. QED
        BY <2>1, <2>2, <3>2, <3>3, <3>4, <3>5, <4>1, <4>2, <4>3, <4>4 DEF ControlInv
    <3>6. CASE ~(n + 1 < N)
      <4>1. at' = [who |-> Nobody, step |-> "idle", scan |-> 0]
        BY <1>3, <2>2, <2>5, <3>6 DEF GoesOn
      <4>2. Nobody \notin Range(Inputs) /\ Nobody \notin live'
        BY <3>4, HandleFacts
      <4>3. QED
        BY <2>2, <3>2, <3>3, <3>4, <4>1, <4>2 DEF ControlInv, Idle
    <3>7. QED
      BY <3>5, <3>6
  <2>6. QED
    BY <2>4, <2>5
<1>10. BoundInv'
  BY <1>2, <1>7 DEF BringUpInv, BoundInv
<1>11. StatusInv'
  <2>1. \A g \in live' : status'[drv[g].slot] = "driver_ok"
    BY <1>1, <1>2, <1>4, <1>5 DEF BringUpInv, StatusInv
  <2>2. QED
    BY <1>2, <1>6, <2>1 DEF StatusInv, Accepted
<1>12. RingsInv'
  <2>1. ASSUME ~starved
        PROVE  \A q \in Queues(h) :
                 /\ drv[h].vq[q].ring # NoRing /\ given[s][q] = drv[h].vq[q].ring
                 /\ drv[h].vq[q].num \in 1 .. bus[s].queues[q]
    <3>1. Bound(h) /\ \A q : IsSetUp(h, q)
      BY <1>2 DEF Bound, IsSetUp
    <3>2. QED
      BY <1>1, <2>1, <3>1 DEF BringUpInv, RingsInv
  <2>2. ASSUME ~starved, NEW t \in DOMAIN bus, NEW q \in DOMAIN given[t]
        PROVE  given[t][q] < next_queue_slot /\ (status'[t] = "driver_ok" => given[t][q] # NoRing)
    <3>1. CASE t = s
      BY <1>4, <2>1, <2>2, <3>1 DEF BringUpInv, RingsInv
    <3>2. CASE t # s
      BY <1>5, <2>2, <3>2 DEF BringUpInv, RingsInv
    <3>3. QED
      BY <3>1, <3>2
  <2>3. ASSUME ~starved, NEW g \in Handles, NEW q \in Queues(g), Bound(g)'
        PROVE  /\ drv[g].vq[q].ring # NoRing /\ given[drv[g].slot][q] = drv[g].vq[q].ring
               /\ drv[g].vq[q].num \in 1 .. bus[drv[g].slot].queues[q]
    <3>1. CASE g = h
      BY <1>1, <2>1, <2>3, <3>1
    <3>2. CASE g # h
      <4>1. g \in live
        BY <1>2, <1>7, <2>3, <3>2, RunsFacts
      <4>2. Bound(g) /\ IsSetUp(g, q)
        BY <4>1 DEF Bound, IsSetUp
      <4>3. QED
        BY <2>3, <4>2 DEF BringUpInv, RingsInv
    <3>3. QED
      BY <3>1, <3>2
  <2>4. \A g \in Handles : Queues(g)' = Queues(g)
    BY DEF Queues
  <2>5. ASSUME ~starved
        PROVE  \A t, u \in DOMAIN bus : \A q \in DOMAIN given[t], r \in DOMAIN given[u] :
                 given[t][q] = given[u][r] /\ given[t][q] # NoRing => t = u /\ q = r
    BY <2>5 DEF BringUpInv, RingsInv
  <2>6. QED
    BY <1>2, <2>2, <2>3, <2>4, <2>5 DEF RingsInv
<1>13. QED
  BY <1>8, <1>9, <1>10, <1>11, <1>12 DEF BringUpInv

\* Every step of bringing a driver up keeps the invariant.
LEMMA BringUpNext ==
  ASSUME BringUpInv, TransportNext
  PROVE  BringUpInv'
<1>1. CASE StartInputs \/ \E h \in Singles : StartSingle(h)
  BY <1>1, StartKeeps
<1>2. ASSUME NEW h \in Handles, FindNone(h) PROVE BringUpInv'
  BY <1>2, FindNoneKeeps
<1>3. ASSUME NEW h \in Handles, Find(h) PROVE BringUpInv'
  BY <1>3, FindKeeps
<1>4. ASSUME NEW h \in Handles, ParseCaps(h) PROVE BringUpInv'
  BY <1>4, ParseCapsKeeps
<1>5. ASSUME NEW h \in Handles, Negotiate(h) PROVE BringUpInv'
  BY <1>5, NegotiateKeeps
<1>6. ASSUME NEW h \in Handles, GoLive(h) PROVE BringUpInv'
  BY <1>6, GoLiveKeeps
<1>7. ASSUME NEW h \in Handles, NEW q \in Queues(h), SetupNone(h, q) PROVE BringUpInv'
  BY <1>7, SetupNoneKeeps
<1>8. ASSUME NEW h \in Handles, NEW q \in Queues(h), SetupQueue(h, q) PROVE BringUpInv'
  BY <1>8, SetupQueueKeeps
<1>9. QED
  BY <1>1, <1>2, <1>3, <1>4, <1>5, <1>6, <1>7, <1>8 DEF TransportNext, Queues

\* Whatever a step of Devices is, for the bus it is one of an init function or
\* none.
LEMMA StepOfTransport ==
  ASSUME [Next]_vars
  PROVE  TransportNext \/ UNCHANGED transportVars
<1>1. CASE UNCHANGED vars
  BY <1>1 DEF vars
<1>2. CASE BringUp
  BY <1>2 DEF BringUp
<1>3. ASSUME NEW d \in DOMAIN QueueOf, Work(d) PROVE UNCHANGED transportVars
  BY <1>3 DEF Work, transportVars
<1>4. CASE DriversNext /\ UNCHANGED transportVars
  BY <1>4
<1>5. QED
  BY <1>1, <1>2, <1>3, <1>4 DEF Next

\* So does every step of somebody else.
LEMMA BringUpStutters ==
  ASSUME BringUpInv, UNCHANGED transportVars
  PROVE  BringUpInv'
<1> USE DEF transportVars
<1>1. TypesInv'
  BY DEF BringUpInv, TypesInv, Queues
<1>2. ControlInv'
  BY DEF BringUpInv, ControlInv, Queues
<1>3. BoundInv'
  BY DEF BringUpInv, BoundInv, Bound
<1>4. StatusInv'
  BY DEF BringUpInv, StatusInv
<1>5. RingsInv'
  BY DEF BringUpInv, RingsInv, Bound, IsSetUp, Queues
<1>6. QED
  BY <1>1, <1>2, <1>3, <1>4, <1>5 DEF BringUpInv

\* Which driver has which device, registers and rings is as BringUpInv says in
\* every state, also when an init function has failed half way or is called
\* again (virtio_*_init, find_and_init_input).
THEOREM BringUpIsSafe == Spec => []BringUpInv
<1>1. Init => BringUpInv
  BY BringUpInit DEF Init
<1>2. BringUpInv /\ [Next]_vars => BringUpInv'
  BY StepOfTransport, BringUpNext, BringUpStutters
<1>3. QED
  BY <1>1, <1>2, PTL DEF Spec

\* DriversOwnTheirQueues is part of the invariant.
LEMMA OwnQueues ==
  ASSUME BringUpInv
  PROVE  DriversOwnTheirQueues
<1>1. TransportTypeOK
  <2>1. at.who \in Handles \cup {Nobody}
    BY DEF BringUpInv, ControlInv, Idle
  <2>2. QED
    BY <2>1 DEF BringUpInv, TypesInv, ControlInv, TransportTypeOK
<1>2. \A h \in live : h \in Handles /\ Bound(h) /\ \A q : IsSetUp(h, q)
  BY DEF BringUpInv, ControlInv, Bound, IsSetUp
<1>3. \A h \in live : bus[drv[h].slot].id = IdOf(h) /\ status[drv[h].slot] = "driver_ok"
  BY <1>2 DEF BringUpInv, BoundInv, StatusInv
<1>4. \A g, h \in live : drv[g].slot = drv[h].slot => g = h
  BY <1>2 DEF BringUpInv, BoundInv
<1>5. \A h \in live : DOMAIN drv[h].vq = Queues(h)
  BY <1>2 DEF BringUpInv, TypesInv
<1>6. ASSUME ~starved, NEW h \in live, NEW q \in DOMAIN drv[h].vq
      PROVE  /\ drv[h].vq[q].ring # NoRing /\ given[drv[h].slot][q] = drv[h].vq[q].ring
             /\ drv[h].vq[q].num \in 1 .. bus[drv[h].slot].queues[q]
  BY <1>2, <1>5, <1>6 DEF BringUpInv, RingsInv
<1>7. ASSUME ~starved
      PROVE  \A s, t \in DOMAIN bus : status[s] = "driver_ok" /\ status[t] = "driver_ok" =>
               \A q \in DOMAIN given[s], r \in DOMAIN given[t] :
                 given[s][q] = given[t][r] => s = t /\ q = r
  BY <1>7 DEF BringUpInv, RingsInv
<1>8. QED
  BY <1>1, <1>3, <1>4, <1>6, <1>7 DEF DriversOwnTheirQueues

\* A driver that is ready has a running device of its kind to itself and, as
\* long as there were rings, the rings that the device uses, which no other
\* device uses (virtqueue_init, virtio_pci_setup_queue, find_and_init_input).
THEOREM DriversOwnTheirQueuesHolds == Spec => []DriversOwnTheirQueues
<1>1. BringUpInv => DriversOwnTheirQueues
  BY OwnQueues
<1>2. QED
  BY <1>1, BringUpIsSafe, PTL

\* At boot no BAR has an address.
LEMMA AddressInit ==
  ASSUME TransportInit
  PROVE  AddressInv
<1>1. \A s \in DOMAIN bus : \A i \in DOMAIN bus[s].bars : window[s][i] = NoAddr
  BY DEF TransportInit
<1>2. mmio32_alloc >= MmioBase /\ pio_alloc >= PioBase
  BY TransportAssumption DEF TransportInit
<1>3. \A h : ~LookedUp(h)
  BY DEF TransportInit, LookedUp, Idle, Found
<1>4. QED
  BY <1>1, <1>2, <1>3 DEF AddressInv, WindowsInv, RegistersInv

\* The windows of a device that is found anew lie behind all the others.
LEMMA FindWindows ==
  ASSUME BringUpInv, WindowsInv, NEW h \in Handles, NEW s, NEW acc, Finds(h, s, acc)
  PROVE  WindowsInv'
<1>1. PICK mm, io, mm2, io2 : /\ mm = mmio32_alloc /\ io = pio_alloc
                              /\ mm2 = acc.mmio /\ io2 = acc.pio
  OBVIOUS
<1>2. PICK bars : bars = bus[s].bars
  OBVIOUS
<1>3. /\ s \in DOMAIN bus /\ bus' = bus
      /\ mmio32_alloc' = mm2 /\ pio_alloc' = io2
      /\ \A t \in DOMAIN bus : t # s => window'[t] = window[t]
      /\ \A i \in DOMAIN bars : window'[s][i] = acc.addr[i]
      /\ Given(bars, Len(bars), acc)
  BY <1>1, <1>2 DEF Finds
<1>4. DOMAIN bars = 1 .. Len(bars) /\ Len(bars) \in Nat /\ \A i \in DOMAIN bars : bars[i].size \in Nat \ {0}
  <2>1. bars \in Seq(Bar)
    BY <1>2, <1>3, BusFacts DEF BringUpInv, TypesInv
  <2>2. DOMAIN bars = 1 .. Len(bars) /\ Len(bars) \in Nat /\ \A i \in DOMAIN bars : bars[i] \in Bar
    BY <2>1, SeqFacts
  <2>3. QED
    BY <2>2 DEF Bar
<1>5. /\ mm \in Nat /\ io \in Nat /\ mm2 \in Nat /\ io2 \in Nat
      /\ MmioBase <= mm /\ PioBase <= io /\ mm <= mm2 /\ io <= io2
      /\ MmioBase \in Nat /\ PioBase \in Nat
  BY <1>1, <1>3, TransportAssumption DEF BringUpInv, TypesInv, WindowsInv, Given, Accs
<1>6. \A i \in DOMAIN bars : Size(s, i) = bars[i].size /\ Kind(s, i) = bars[i].kind
  BY <1>2 DEF Size, Kind
<1>7. ASSUME NEW i \in DOMAIN bars, window'[s][i] # NoAddr
      PROVE  /\ Kind(s, i) \in {"io", "mem32", "mem64"} /\ window'[s][i] \in Nat
             /\ Kind(s, i) = "io" => io <= window'[s][i] /\ window'[s][i] + Size(s, i) <= io2
             /\ Kind(s, i) # "io" => mm <= window'[s][i] /\ window'[s][i] + Size(s, i) <= mm2
  BY <1>1, <1>3, <1>4, <1>6, <1>7 DEF Given, HasAddr, IsIoBar
<1>8. ASSUME NEW t \in DOMAIN bus, t # s, NEW i \in DOMAIN bus[t].bars, window[t][i] # NoAddr
      PROVE  /\ window'[t][i] = window[t][i] /\ window[t][i] \in Nat /\ Size(t, i) \in Nat
             /\ Kind(t, i) \in {"io", "mem32", "mem64"}
             /\ Kind(t, i) = "io" => PioBase <= window[t][i] /\ window[t][i] + Size(t, i) <= io
             /\ Kind(t, i) # "io" => MmioBase <= window[t][i] /\ window[t][i] + Size(t, i) <= mm
  <2>1. Size(t, i) \in Nat
    <3>1. bus[t].bars \in Seq(Bar)
      BY BusFacts DEF BringUpInv, TypesInv
    <3>2. bus[t].bars[i] \in Bar
      BY <3>1, <1>8
    <3>3. QED
      BY <3>2 DEF Size, Bar
  <2>2. window[t][i] \in Nat
    BY DEF BringUpInv, TypesInv
  <2>3. QED
    BY <1>1, <1>3, <1>8, <2>1, <2>2 DEF WindowsInv
<1>9. /\ \A t, i : Size(t, i)' = Size(t, i) /\ Kind(t, i)' = Kind(t, i)
      /\ \A t, i, u, j : Before(t, i, u, j)' = (window'[t][i] + Size(t, i) <= window'[u][j])
  BY <1>3 DEF Size, Kind, Before
<1>10. ASSUME NEW t \in DOMAIN bus, NEW i \in DOMAIN bus[t].bars, window'[t][i] # NoAddr
       PROVE  /\ Kind(t, i) \in {"io", "mem32", "mem64"}
              /\ Kind(t, i) = "io" => PioBase <= window'[t][i] /\ window'[t][i] + Size(t, i) <= io2
              /\ Kind(t, i) # "io" => MmioBase <= window'[t][i] /\ window'[t][i] + Size(t, i) <= mm2
  <2>1. CASE t = s
    <3>1. i \in DOMAIN bars
      BY <1>2, <2>1
    <3>2. QED
      BY <1>5, <1>7, <1>10, <2>1, <3>1
  <2>2. CASE t # s
    <3>1. window[t][i] # NoAddr
      BY <1>3, <1>10, <2>2
    <3>2. QED
      BY <1>5, <1>8, <2>2, <3>1
  <2>3. QED
    BY <2>1, <2>2
<1>11. ASSUME NEW t \in DOMAIN bus, NEW u \in DOMAIN bus,
              NEW i \in DOMAIN bus[t].bars, NEW j \in DOMAIN bus[u].bars, t # u \/ i # j,
              window'[t][i] # NoAddr, window'[u][j] # NoAddr, (Kind(t, i) = "io") = (Kind(u, j) = "io")
       PROVE  \/ window'[t][i] + Size(t, i) <= window'[u][j]
              \/ window'[u][j] + Size(u, j) <= window'[t][i]
  <2>1. CASE t = s /\ u = s
    <3>1. i \in 1 .. Len(bars) /\ j \in 1 .. Len(bars) /\ i # j
      BY <1>2, <1>4, <1>11, <2>1
    <3>2. /\ HasAddr(bars[i]) /\ HasAddr(bars[j]) /\ IsIoBar(bars[i]) = IsIoBar(bars[j])
          /\ window'[s][i] = acc.addr[i] /\ window'[s][j] = acc.addr[j]
      BY <1>3, <1>4, <1>6, <1>7, <1>11, <2>1, <3>1 DEF HasAddr, IsIoBar
    <3>3. i < j => acc.addr[i] + bars[i].size <= acc.addr[j]
      BY <1>3, <3>1, <3>2 DEF Given
    <3>4. j < i => acc.addr[j] + bars[j].size <= acc.addr[i]
      BY <1>3, <3>1, <3>2 DEF Given
    <3>5. Size(s, i) = bars[i].size /\ Size(s, j) = bars[j].size
      BY <1>4, <1>6, <3>1
    <3>6. QED
      BY <2>1, <3>1, <3>2, <3>3, <3>4, <3>5
  <2>2. CASE t = s /\ u # s
    <3>1. i \in DOMAIN bars /\ window'[s][i] # NoAddr /\ window[u][j] # NoAddr
      BY <1>2, <1>3, <1>11, <2>2
    <3>2. /\ window'[s][i] \in Nat
          /\ Kind(s, i) = "io" => io <= window'[s][i]
          /\ Kind(s, i) # "io" => mm <= window'[s][i]
      BY <1>7, <3>1
    <3>3. /\ window'[u][j] = window[u][j] /\ window[u][j] \in Nat /\ Size(u, j) \in Nat
          /\ Kind(u, j) = "io" => window[u][j] + Size(u, j) <= io
          /\ Kind(u, j) # "io" => window[u][j] + Size(u, j) <= mm
      BY <1>8, <2>2, <3>1
    <3>4. QED
      BY <1>5, <1>11, <2>2, <3>2, <3>3
  <2>3. CASE t # s /\ u = s
    <3>1. j \in DOMAIN bars /\ window'[s][j] # NoAddr /\ window[t][i] # NoAddr
      BY <1>2, <1>3, <1>11, <2>3
    <3>2. /\ window'[s][j] \in Nat
          /\ Kind(s, j) = "io" => io <= window'[s][j]
          /\ Kind(s, j) # "io" => mm <= window'[s][j]
      BY <1>7, <3>1
    <3>3. /\ window'[t][i] = window[t][i] /\ window[t][i] \in Nat /\ Size(t, i) \in Nat
          /\ Kind(t, i) = "io" => window[t][i] + Size(t, i) <= io
          /\ Kind(t, i) # "io" => window[t][i] + Size(t, i) <= mm
      BY <1>8, <2>3, <3>1
    <3>4. QED
      BY <1>5, <1>11, <2>3, <3>2, <3>3
  <2>4. CASE t # s /\ u # s
    BY <1>3, <1>11, <2>4 DEF WindowsInv, Before
  <2>5. QED
    BY <2>1, <2>2, <2>3, <2>4
<1>12. mmio32_alloc' >= MmioBase /\ pio_alloc' >= PioBase
  BY <1>3, <1>5
<1>13. \A t \in DOMAIN bus' : \A i \in DOMAIN bus'[t].bars : window'[t][i] # NoAddr =>
          /\ Kind(t, i)' \in {"io", "mem32", "mem64"}
          /\ Kind(t, i)' = "io" =>
               PioBase <= window'[t][i] /\ window'[t][i] + Size(t, i)' <= pio_alloc'
          /\ Kind(t, i)' # "io" =>
               MmioBase <= window'[t][i] /\ window'[t][i] + Size(t, i)' <= mmio32_alloc'
  BY <1>3, <1>9, <1>10
<1>14. \A t, u \in DOMAIN bus' : \A i \in DOMAIN bus'[t].bars, j \in DOMAIN bus'[u].bars :
         /\ t # u \/ i # j
         /\ window'[t][i] # NoAddr /\ window'[u][j] # NoAddr
         /\ (Kind(t, i)' = "io") = (Kind(u, j)' = "io")
         => Before(t, i, u, j)' \/ Before(u, j, t, i)'
  <2>1. SUFFICES ASSUME NEW t \in DOMAIN bus, NEW u \in DOMAIN bus,
                        NEW i \in DOMAIN bus[t].bars, NEW j \in DOMAIN bus[u].bars, t # u \/ i # j,
                        window'[t][i] # NoAddr, window'[u][j] # NoAddr,
                        (Kind(t, i)' = "io") = (Kind(u, j)' = "io")
                 PROVE  Before(t, i, u, j)' \/ Before(u, j, t, i)'
    BY <1>3
  <2>2. (Kind(t, i) = "io") = (Kind(u, j) = "io")
    BY <1>9, <2>1
  <2>3. \/ window'[t][i] + Size(t, i) <= window'[u][j]
        \/ window'[u][j] + Size(u, j) <= window'[t][i]
    BY <1>11, <2>1, <2>2
  <2>4. QED
    BY <1>9, <2>3
<1>15. QED
  BY <1>12, <1>13, <1>14 DEF WindowsInv

\* pci_assign_bars keeps the windows apart.
LEMMA FindAddresses ==
  ASSUME BringUpInv, AddressInv, NEW h \in Handles, Find(h)
  PROVE  AddressInv'
<1>1. PICK s, acc : Finds(h, s, acc)
  BY FindFacts
<1>2. WindowsInv'
  BY <1>1, FindWindows DEF AddressInv
<1>3. /\ at.who = h /\ at' = [who |-> h, step |-> "caps", scan |-> s + 1] /\ live' = live
      /\ \A g \in live : drv[g].slot # s
      /\ \A t \in DOMAIN bus : t # s => window'[t] = window[t]
      /\ \A g \in Handles : g # h => drv'[g] = drv[g]
      /\ bus' = bus
  BY <1>1 DEF Finds, DrvIs
<1>4. ASSUME NEW g \in Handles, LookedUp(g)'
      PROVE  LookedUp(g) /\ drv'[g] = drv[g] /\ window'[drv[g].slot] = window[drv[g].slot]
  <2>1. g \in live
    BY <1>3, <1>4 DEF LookedUp, Found
  <2>2. g # h /\ drv[g].slot \in DOMAIN bus
    BY <1>3, <2>1, RunsFacts
  <2>3. QED
    BY <1>3, <2>1, <2>2 DEF LookedUp
<1>5. RegistersInv'
  <2>1. ASSUME NEW g \in Handles, LookedUp(g)'
        PROVE  InWindows(bus'[drv'[g].slot].caps, drv'[g].bars, drv'[g].cfg, window'[drv'[g].slot])
    <3>1. InWindows(bus[drv[g].slot].caps, drv[g].bars, drv[g].cfg, window[drv[g].slot])
      BY <1>4, <2>1 DEF AddressInv, RegistersInv
    <3>2. QED
      BY <1>3, <1>4, <2>1, <3>1
  <2>2. QED
    BY <2>1 DEF RegistersInv
<1>6. QED
  BY <1>2, <1>5 DEF AddressInv

\* A driver that goes on has looked up its registers in a window.
LEMMA ParseAddresses ==
  ASSUME BringUpInv, AddressInv, NEW h \in Handles, ParseCaps(h)
  PROVE  AddressInv'
<1>1. PICK cfg : Parsed(h, cfg)
  BY ParseFacts
<1>2. /\ at.who = h /\ at.step = "caps" /\ at.step \in Found
      /\ UNCHANGED <<bus, window, mmio32_alloc, pio_alloc, live>>
  BY DEF ParseCaps, Found
<1>3. /\ \A g \in Handles : g # h => drv'[g] = drv[g]
      /\ drv'[h].slot = drv[h].slot /\ drv'[h].bars = drv[h].bars /\ drv'[h].cfg = cfg
  BY <1>1 DEF Parsed, DrvIs
<1>4. WindowsInv'
  <2>1. \A t, i, u, j : Size(t, i)' = Size(t, i) /\ Kind(t, i)' = Kind(t, i)
                        /\ Before(t, i, u, j)' = Before(t, i, u, j)
    BY <1>2 DEF Size, Kind, Before
  <2>2. QED
    BY <1>2, <2>1 DEF AddressInv, WindowsInv
<1>5. PICK s : s = drv[h].slot
  OBVIOUS
<1>6. /\ s \in DOMAIN bus
      /\ \A i \in DOMAIN bus[s].bars : drv[h].bars[i] = window[s][i]
  <2>1. Bound(h)
    BY <1>2 DEF Bound
  <2>2. QED
    BY <1>5, <2>1 DEF BringUpInv, BoundInv
<1>7. \A c \in DOMAIN bus[s].caps :
        bus[s].caps[c].cfg \in CfgTypes /\ bus[s].caps[c].bar \in DOMAIN bus[s].bars
  <2>1. bus[s].caps \in Seq([cfg : CfgTypes, bar : DOMAIN bus[s].bars])
    <3>1. bus \in Buses
      BY DEF BringUpInv, TypesInv
    <3>2. QED
      BY <1>6, <3>1, BusFacts, Zenon
  <2>2. \A c \in DOMAIN bus[s].caps : bus[s].caps[c] \in [cfg : CfgTypes, bar : DOMAIN bus[s].bars]
    <3>1. PICK R, cs : R = [cfg : CfgTypes, bar : DOMAIN bus[s].bars] /\ cs = bus[s].caps
      OBVIOUS
    <3>2. cs \in Seq(R)
      BY <2>1, <3>1
    <3>3. \A c \in DOMAIN cs : cs[c] \in R
      BY ONLY <3>2, SeqFacts
    <3>4. QED
      BY <3>1, <3>3
  <2>3. QED
    BY <2>2
<1>8. ASSUME NEW c \in DOMAIN bus[s].caps, drv[h].bars[bus[s].caps[c].bar] # NoAddr
      PROVE  \E e \in DOMAIN bus[s].caps :
               /\ bus[s].caps[e].cfg = bus[s].caps[c].cfg
               /\ cfg[bus[s].caps[c].cfg] = window[s][bus[s].caps[e].bar]
  <2>1. PICK t : t = bus[s].caps[c].cfg
    OBVIOUS
  <2>2. t \in CfgTypes /\ c \in Usable(h, t)
    BY <1>5, <1>7, <1>8, <2>1 DEF Usable
  <2>3. PICK e \in Usable(h, t) : cfg[t] = drv[h].bars[bus[s].caps[e].bar]
    BY <1>1, <1>5, <2>2 DEF Parsed
  <2>4. e \in DOMAIN bus[s].caps /\ bus[s].caps[e].cfg = t
    BY <1>5, <2>3 DEF Usable
  <2>5. QED
    BY <1>6, <1>7, <2>1, <2>3, <2>4
<1>9. ASSUME NEW g \in Handles, g # h, LookedUp(g)' PROVE LookedUp(g) /\ drv'[g] = drv[g]
  <2>1. at'.who = h \/ at' = Idle
    <3>1. PICK u : u = [at EXCEPT !.step = "negotiate"]
      OBVIOUS
    <3>2. PICK v : v = [at EXCEPT !.step = "find"]
      OBVIOUS
    <3>3. u.who = at.who /\ v.who = at.who
      BY <3>1, <3>2, AtFacts DEF BringUpInv, ControlInv
    <3>4. at' = u \/ at' = Idle \/ at' = v
      BY <3>1, <3>2 DEF ParseCaps, GiveUp
    <3>5. QED
      BY <1>2, <3>3, <3>4
  <2>2. g \in live
    BY <1>2, <1>9, <2>1, HandleFacts DEF LookedUp, Idle
  <2>3. QED
    BY <1>3, <1>9, <2>2 DEF LookedUp
<1>10. RegistersInv'
  <2>1. ASSUME NEW g \in Handles, LookedUp(g)'
        PROVE  InWindows(bus'[drv'[g].slot].caps, drv'[g].bars, drv'[g].cfg, window'[drv'[g].slot])
    <3>1. CASE g = h
      <4>1. InWindows(bus[s].caps, drv[h].bars, cfg, window[s])
        BY <1>8 DEF InWindows
      <4>2. QED
        BY <1>2, <1>3, <1>5, <3>1, <4>1
    <3>2. CASE g # h
      <4>1. InWindows(bus[drv[g].slot].caps, drv[g].bars, drv[g].cfg, window[drv[g].slot])
        BY <1>9, <2>1, <3>2 DEF AddressInv, RegistersInv
      <4>2. QED
        BY <1>2, <1>9, <2>1, <3>2, <4>1
    <3>3. QED
      BY <3>1, <3>2
  <2>2. QED
    BY <2>1 DEF RegistersInv
<1>11. QED
  BY <1>4, <1>10 DEF AddressInv

\* The other steps give no addresses and look for none.
LEMMA OtherAddresses ==
  ASSUME AddressInv, UNCHANGED <<bus, window, mmio32_alloc, pio_alloc>>,
         \A h \in Handles : LookedUp(h)' =>
           /\ LookedUp(h) /\ drv'[h].slot = drv[h].slot
           /\ drv'[h].bars = drv[h].bars /\ drv'[h].cfg = drv[h].cfg
  PROVE  AddressInv'
<1>1. WindowsInv'
  <2>1. \A t, i, u, j : Size(t, i)' = Size(t, i) /\ Kind(t, i)' = Kind(t, i)
                        /\ Before(t, i, u, j)' = Before(t, i, u, j)
    BY DEF Size, Kind, Before
  <2>2. QED
    BY <2>1 DEF AddressInv, WindowsInv
<1>2. ASSUME NEW h \in Handles, LookedUp(h)'
      PROVE  InWindows(bus'[drv'[h].slot].caps, drv'[h].bars, drv'[h].cfg, window'[drv'[h].slot])
  <2>1. InWindows(bus[drv[h].slot].caps, drv[h].bars, drv[h].cfg, window[drv[h].slot])
    BY <1>2 DEF AddressInv, RegistersInv
  <2>2. QED
    BY <1>2, <2>1
<1>3. RegistersInv'
  BY <1>2 DEF RegistersInv
<1>4. QED
  BY <1>1, <1>3 DEF AddressInv


\* An init function that is past its capabilities, or that has given up, has
\* looked up no registers that were not looked up before.
LEMMA LookedUpBefore ==
  ASSUME BringUpInv, live' \subseteq live \/ (live' \subseteq live \cup {at.who} /\ at.step = "live"),
         \/ at'.step \notin Found
         \/ at'.who = at.who /\ at.step \in Found \ {"caps"}
  PROVE  \A g \in Handles : LookedUp(g)' => LookedUp(g)
BY DEF LookedUp, Found

\* So does everything else, and registers are looked up in the windows.
LEMMA AddressNext ==
  ASSUME BringUpInv, AddressInv, TransportNext
  PROVE  AddressInv'
<1>1. ASSUME UNCHANGED <<bus, window, mmio32_alloc, pio_alloc, drv>>,
             \A g \in Handles : LookedUp(g)' => LookedUp(g)
      PROVE  AddressInv'
  BY <1>1, OtherAddresses
<1>2. CASE StartInputs \/ \E h \in Singles : StartSingle(h)
  <2>1. PICK w : Start(w) /\ at' = [who |-> w, step |-> "find", scan |-> 0]
    BY <1>2 DEF StartInputs, StartSingle, Start, Idle
  <2>2. live' \subseteq live
    BY <1>2 DEF StartInputs, StartSingle
  <2>3. at'.step \notin Found
    BY <2>1 DEF Found
  <2>4. UNCHANGED <<bus, window, mmio32_alloc, pio_alloc, drv>>
    BY <2>1 DEF Start
  <2>5. QED
    BY <1>1, <2>2, <2>3, <2>4, LookedUpBefore
<1>3. ASSUME NEW h \in Handles, FindNone(h) PROVE AddressInv'
  <2>1. at'.step \notin Found /\ live' = live
    BY <1>3 DEF FindNone, Idle, Found
  <2>2. QED
    BY <1>1, <1>3, <2>1, LookedUpBefore DEF FindNone
<1>4. ASSUME NEW h \in Handles, Find(h) PROVE AddressInv'
  BY <1>4, FindAddresses
<1>5. ASSUME NEW h \in Handles, ParseCaps(h) PROVE AddressInv'
  BY <1>5, ParseAddresses
<1>6. ASSUME NEW h \in Handles, Negotiate(h) PROVE AddressInv'
  <2>1. /\ live' = live /\ input_dev_count' = input_dev_count
        /\ UNCHANGED <<bus, window, mmio32_alloc, pio_alloc, drv>>
        /\ at.who = h /\ at.step \in Found \ {"caps"}
    BY <1>6 DEF Negotiate, Found
  <2>2. PICK u : u = [at EXCEPT !.step = "queue1"]
    OBVIOUS
  <2>3. u.who = at.who
    BY <2>2, AtFacts DEF BringUpInv
  <2>4. at' = u \/ GiveUp(h)
    BY <1>6, <2>2 DEF Negotiate
  <2>5. at'.who = at.who \/ at'.step \notin Found
    BY <2>1, <2>3, <2>4, GiveUpFacts
  <2>6. QED
    BY <1>1, <2>1, <2>5, LookedUpBefore
<1>7. ASSUME NEW h \in Handles, NEW q \in Queues(h), SetupNone(h, q) PROVE AddressInv'
  <2>1. at'.step \notin Found
    BY <1>7, GiveUpFacts DEF SetupNone
  <2>2. live' = live /\ UNCHANGED <<bus, window, mmio32_alloc, pio_alloc, drv>>
    BY <1>7 DEF SetupNone
  <2>3. QED
    BY <1>1, <2>1, <2>2, LookedUpBefore
<1>8. ASSUME NEW h \in Handles, NEW q \in Queues(h), SetupQueue(h, q) PROVE AddressInv'
  <2>1. PICK s, x, v, gs : SetsUp(h, q, s, x, v, gs)
    BY <1>8, SetupFacts
  <2>2. /\ at.step \in Found \ {"caps"} /\ live' = live
        /\ UNCHANGED <<bus, window, mmio32_alloc, pio_alloc>>
        /\ DrvIs(h, s, drv[h].bars, drv[h].cfg, v) /\ s = drv[h].slot
    BY <2>1 DEF SetsUp, Found
  <2>3. at'.who = at.who
    <3>1. ControlInv
      BY DEF BringUpInv
    <3>2. PICK st : at' = [at EXCEPT !.step = st]
      BY <2>1, Zenon DEF SetsUp
    <3>3. QED
      BY <3>1, <3>2, AtFacts
  <2>4. \A g \in Handles : LookedUp(g)' => LookedUp(g)
    BY <2>2, <2>3, LookedUpBefore
  <2>5. \A g \in Handles : /\ drv'[g].slot = drv[g].slot
                           /\ drv'[g].bars = drv[g].bars /\ drv'[g].cfg = drv[g].cfg
    BY <2>2 DEF DrvIs
  <2>6. QED
    BY <2>2, <2>4, <2>5, OtherAddresses
<1>9. ASSUME NEW h \in Handles, GoLive(h) PROVE AddressInv'
  <2>1. /\ at.who = h /\ at.step = "live" /\ live' = live \cup {h}
        /\ UNCHANGED <<bus, window, mmio32_alloc, pio_alloc, drv>>
    BY <1>9 DEF GoLive
  <2>2. at'.step \notin Found
    BY <1>9, GoLiveFacts DEF GoesOn, Found
  <2>3. QED
    BY <1>1, <2>1, <2>2, LookedUpBefore
<1>10. QED
  BY <1>2, <1>3, <1>4, <1>5, <1>6, <1>7, <1>8, <1>9 DEF TransportNext, Queues

\* The addresses that pci_assign_bars has given out are apart, and drivers know
\* theirs (virtio_pci_parse_caps).
THEOREM AddressesAreSafe == Spec => []AddressInv
<1>1. Init => AddressInv
  BY AddressInit DEF Init
<1>2. BringUpInv /\ AddressInv /\ [Next]_vars => AddressInv'
  <2>1. AddressInv /\ UNCHANGED transportVars => AddressInv'
    BY OtherAddresses DEF transportVars, LookedUp
  <2>2. QED
    BY <2>1, StepOfTransport, AddressNext
<1>3. QED
  BY <1>1, <1>2, BringUpIsSafe, PTL DEF Spec

\* WindowsAreApart is part of the invariant.
LEMMA ApartAddresses ==
  ASSUME BringUpInv, AddressInv
  PROVE  WindowsAreApart
<1>1. ASSUME NEW v \in Windows
      PROVE  \E s \in DOMAIN bus : \E i \in DOMAIN bus[s].bars :
               v = <<s, i>> /\ window[s][i] # NoAddr
  BY DEF Windows, BringUpInv, TypesInv
<1>2. ASSUME NEW s \in DOMAIN bus, NEW i \in DOMAIN bus[s].bars, window[s][i] # NoAddr
      PROVE  /\ window[s][i] \in Nat /\ Size(s, i) \in Nat /\ Kind(s, i) \in {"io", "mem32", "mem64"}
             /\ Kind(s, i) = "io" => PioBase <= window[s][i]
             /\ Kind(s, i) # "io" => window[s][i] + Size(s, i) <= mmio32_alloc
  <2>1. bus[s].bars \in Seq(Bar)
    BY BusFacts DEF BringUpInv, TypesInv
  <2>2. bus[s].bars[i] \in Bar
    BY <2>1, <1>2
  <2>3. Size(s, i) \in Nat
    BY <2>2 DEF Size, Bar
  <2>4. window[s][i] \in Nat
    BY DEF BringUpInv, TypesInv
  <2>5. QED
    BY <1>2, <2>3, <2>4 DEF AddressInv, WindowsInv
<1>3. ASSUME NEW v \in Windows, NEW w \in Windows, v # w,
             IsIo(v) = IsIo(w) \/ mmio32_alloc <= PioBase
      PROVE  Bytes(v) \cap Bytes(w) = {}
  <2>1. PICK s, i : s \in DOMAIN bus /\ i \in DOMAIN bus[s].bars
                    /\ v = <<s, i>> /\ window[s][i] # NoAddr
    BY <1>1
  <2>2. PICK t, j : t \in DOMAIN bus /\ j \in DOMAIN bus[t].bars
                    /\ w = <<t, j>> /\ window[t][j] # NoAddr
    BY <1>1
  <2>3. PICK a, b, m, n : a = window[s][i] /\ b = window[t][j] /\ m = Size(s, i) /\ n = Size(t, j)
    OBVIOUS
  <2>4. a \in Nat /\ b \in Nat /\ m \in Nat /\ n \in Nat
    BY <1>2, <2>1, <2>2, <2>3
  <2>5. Bytes(v) = a .. a + m - 1 /\ Bytes(w) = b .. b + n - 1
    BY <2>1, <2>2, <2>3 DEF Bytes, Size
  <2>6. IsIo(v) = (Kind(s, i) = "io") /\ IsIo(w) = (Kind(t, j) = "io")
    BY <2>1, <2>2 DEF IsIo, Kind
  <2>7. a + m <= b \/ b + n <= a
    <3>1. CASE IsIo(v) = IsIo(w)
      <4>1. s # t \/ i # j
        BY <1>3, <2>1, <2>2
      <4>2. Before(s, i, t, j) \/ Before(t, j, s, i)
        BY <2>1, <2>2, <2>6, <3>1, <4>1 DEF AddressInv, WindowsInv
      <4>3. QED
        BY <2>3, <4>2 DEF Before
    <3>2. CASE mmio32_alloc <= PioBase /\ IsIo(v) # IsIo(w)
      <4>1. mmio32_alloc \in Nat /\ PioBase \in Nat
        BY TransportAssumption DEF BringUpInv, TypesInv
      <4>2. \/ Kind(s, i) = "io" /\ Kind(t, j) # "io"
            \/ Kind(s, i) # "io" /\ Kind(t, j) = "io"
        BY <2>6, <3>2
      <4>3. CASE Kind(s, i) = "io" /\ Kind(t, j) # "io"
        <5>1. PioBase <= a /\ b + n <= mmio32_alloc
          BY <1>2, <2>1, <2>2, <2>3, <4>3
        <5>2. QED
          BY <2>4, <3>2, <4>1, <5>1
      <4>4. CASE Kind(s, i) # "io" /\ Kind(t, j) = "io"
        <5>1. PioBase <= b /\ a + m <= mmio32_alloc
          BY <1>2, <2>1, <2>2, <2>3, <4>4
        <5>2. QED
          BY <2>4, <3>2, <4>1, <5>1
      <4>5. QED
        BY <4>2, <4>3, <4>4
    <3>3. QED
      BY <1>3, <3>1, <3>2
  <2>8. QED
    BY <2>4, <2>5, <2>7
<1>4. ASSUME NEW h \in live, NEW c \in DOMAIN bus[drv[h].slot].caps,
             drv[h].bars[bus[drv[h].slot].caps[c].bar] # NoAddr
      PROVE  \E e \in DOMAIN bus[drv[h].slot].caps :
               /\ bus[drv[h].slot].caps[e].cfg = bus[drv[h].slot].caps[c].cfg
               /\ drv[h].cfg[bus[drv[h].slot].caps[c].cfg]
                    = window[drv[h].slot][bus[drv[h].slot].caps[e].bar]
  <2>1. h \in Handles /\ LookedUp(h)
    BY DEF BringUpInv, ControlInv, LookedUp
  <2>2. QED
    BY <1>4, <2>1 DEF AddressInv, RegistersInv, InWindows
<1>5. QED
  BY <1>3, <1>4 DEF WindowsAreApart

\* No two BARs of one address space answer to the same address, and none of
\* the two spaces while memory has not come as far as the I/O window; a driver
\* that is ready reaches the registers that its own device offers
\* (pci_assign_bars, virtio_pci_parse_caps).
THEOREM WindowsAreApartHolds == Spec => []WindowsAreApart
<1>1. BringUpInv /\ AddressInv => WindowsAreApart
  BY ApartAddresses
<1>2. QED
  BY <1>1, BringUpIsSafe, AddressesAreSafe, PTL

-----------------------------------------------------------------------------
(***************************************************************************)
(* What a driver that starts to work has.                                  *)
(***************************************************************************)

\* A queue that is set up has a size that virtio allows.
SizesInv == \A h \in Handles : \A q \in Queues(h) : drv[h].vq[q].num \in QueueSizes \cup {0}

\* virtio_pci_setup_queue takes the smaller of two sizes.
LEMMA NewSize ==
  ASSUME BringUpInv, SizesInv, NEW h \in Handles, NEW q \in Queues(h), at.who = h,
         at.step \in Found, bus[drv[h].slot].queues[q] > 0
  PROVE  NewQueue(h, q).num \in QueueSizes \cup {0}
<1>1. PICK s, size, want : s = drv[h].slot /\ size = bus[s].queues[q] /\ want = Desired[IdOf(h)][q]
  OBVIOUS
<1>2. s \in DOMAIN bus /\ bus[s].queues \in [Queues(h) -> Nat] /\ size > 0 /\ size \in Nat
  BY <1>1, DeviceFacts
<1>3. size \in QueueSizes
  <2>1. size \in Range(bus[s].queues)
    BY <1>1, <1>2 DEF Range
  <2>2. bus \in Buses
    BY DEF BringUpInv, TypesInv
  <2>3. size \in QueueSizes \cup {0}
    BY <1>2, <2>1, <2>2, SizesAssumption
  <2>4. QED
    BY <1>2, <2>3
<1>4. want <= size => want \in QueueSizes
  <2>1. want \in Nat \ {0} /\ IdOf(h) \in DOMAIN Desired
    BY <1>1, HandleFacts
  <2>2. want \in Range(Desired[IdOf(h)])
    BY <1>1 DEF Range, Queues
  <2>3. want <= size => want \in 1 .. MaxNum
    BY <1>3, <2>1, QueueAssumption DEF QueueSizes
  <2>4. QED
    BY <2>1, <2>2, <2>3, SizesAssumption
<1>5. CASE next_queue_slot < MaxQueues
  <2>1. PICK k : k = IF want > size THEN size ELSE want
    OBVIOUS
  <2>2. want \in Nat
    BY <1>1, HandleFacts
  <2>3. k \in QueueSizes
    BY <1>2, <1>3, <1>4, <2>1, <2>2
  <2>4. NewQueue(h, q).num = k
    BY <1>1, <1>5, <2>1 DEF NewQueue
  <2>5. QED
    BY <2>3, <2>4
<1>6. CASE ~(next_queue_slot < MaxQueues)
  BY <1>6 DEF NewQueue, SizesInv
<1>7. QED
  BY <1>5, <1>6

\* The sizes of queues stay those that devices may have.
LEMMA SizesNext ==
  ASSUME BringUpInv, SizesInv, TransportNext
  PROVE  SizesInv'
<1>1. /\ QueueSizes' = QueueSizes /\ \A g : Queues(g)' = Queues(g)
  BY DEF QueueSizes, Queues
<1>2. ASSUME \A g \in Handles : drv'[g].vq = drv[g].vq PROVE SizesInv'
  BY <1>1, <1>2 DEF SizesInv
<1>3. ASSUME NEW h \in Handles, NEW s, NEW b, NEW c, DrvIs(h, s, b, c, drv[h].vq) PROVE SizesInv'
  <2>1. \A g \in Handles : drv'[g].vq = drv[g].vq
    BY <1>3 DEF DrvIs
  <2>2. QED
    BY <1>2, <2>1
<1>4. CASE UNCHANGED drv
  BY <1>2, <1>4
<1>5. ASSUME NEW h \in Handles, Find(h) PROVE SizesInv'
  <2>1. PICK s, acc : Finds(h, s, acc)
    BY <1>5, FindFacts
  <2>2. QED
    BY <1>3, <2>1 DEF Finds
<1>6. ASSUME NEW h \in Handles, ParseCaps(h) PROVE SizesInv'
  <2>1. PICK c : Parsed(h, c)
    BY <1>6, ParseFacts
  <2>2. QED
    BY <1>3, <2>1 DEF Parsed
<1>7. ASSUME NEW h \in Handles, NEW q \in Queues(h), SetupQueue(h, q) PROVE SizesInv'
  <2>1. PICK s, x, v, gs : SetsUp(h, q, s, x, v, gs)
    BY <1>7, SetupFacts
  <2>2. x.num \in QueueSizes \cup {0}
    BY <2>1, NewSize DEF SetsUp, Found
  <2>3. /\ \A g \in Handles : g # h => drv'[g] = drv[g]
        /\ drv'[h].vq = [drv[h].vq EXCEPT ![q] = x]
    BY <2>1 DEF SetsUp, DrvIs
  <2>4. DOMAIN drv[h].vq = Queues(h)
    BY DEF BringUpInv, TypesInv
  <2>5. ASSUME NEW r \in Queues(h) PROVE drv'[h].vq[r].num \in QueueSizes \cup {0}
    BY <2>2, <2>3, <2>4 DEF SizesInv
  <2>6. \A g \in Handles : \A r \in Queues(g) : drv'[g].vq[r].num \in QueueSizes \cup {0}
    BY <2>3, <2>5 DEF SizesInv
  <2>7. QED
    BY <1>1, <2>6 DEF SizesInv
<1>8. QED
  <2>1. ASSUME NEW h \in Handles,
               \/ FindNone(h) \/ Negotiate(h) \/ GoLive(h)
               \/ \E q \in Queues(h) : SetupNone(h, q)
        PROVE  UNCHANGED drv
    BY <2>1 DEF FindNone, Negotiate, GoLive, SetupNone
  <2>2. ASSUME StartInputs \/ \E h \in Singles : StartSingle(h)
        PROVE  UNCHANGED drv
    BY <2>2 DEF StartInputs, StartSingle, Start
  <2>3. QED
    BY <1>4, <1>5, <1>6, <1>7, <2>1, <2>2 DEF TransportNext, Queues

\* Every queue that a ready driver works on has a size that virtio allows.
LEMMA SizesAreSafe == Spec => []SizesInv
<1>1. Init => SizesInv
  <2>1. ASSUME Init, NEW h \in Handles, NEW q \in Queues(h) PROVE drv[h].vq[q].num = 0
    <3>1. drv[h].vq = [r \in Queues(h) |-> NoQueue]
      BY <2>1 DEF Init, TransportInit, Queues
    <3>2. QED
      BY <3>1 DEF NoQueue
  <2>2. QED
    BY <2>1 DEF SizesInv
<1>2. BringUpInv /\ SizesInv /\ [Next]_vars => SizesInv'
  <2>1. SizesInv /\ UNCHANGED transportVars => SizesInv'
    BY DEF SizesInv, transportVars, Queues, QueueSizes
  <2>2. QED
    BY <2>1, StepOfTransport, SizesNext
<1>3. QED
  BY <1>1, <1>2, BringUpIsSafe, PTL DEF Spec

(***************************************************************************)
(* The drivers at work.                                                    *)
(***************************************************************************)

\* How far index j is ahead of index i, and the k-th entry of a ring from
\* index i on.
Dist(i, j) == (j - i) % IdxMod
Entry(ring, i, k) == ring[(i + k) % num]

\* The part of a ring from i up to j fits into it and holds nothing twice.
Once(ring, i, j) ==
  /\ Dist(i, j) <= num
  /\ \A k, l \in 0 .. Dist(i, j) - 1 : Entry(ring, i, k) = Entry(ring, i, l) => k = l

Avl == Between(avail, seen_idx, avail_idx)
Usd == Between(used, last_used_idx, used_idx)

\* Each chain in flight is in one place only.
FlightInv ==
  /\ Once(avail, seen_idx, avail_idx) /\ Once(used, last_used_idx, used_idx)
  /\ Avl \cap Working = {} /\ Avl \cap Usd = {} /\ Working \cap Usd = {}
  /\ IsFiniteSet(jobs)
  /\ \A i, j \in jobs : i.head = j.head => i = j
  /\ InFlight \subseteq Descs

\* The i-th descriptor of the chain that begins at h, for as many as a driver
\* puts into one chain.
Link(h, i) == IF i = 1 THEN h ELSE IF i = 2 THEN next[h] ELSE next[next[h]]
Links == 1 .. ChainLen[user]

\* A chain in flight has the length that its driver gives it, without a
\* descriptor that occurs twice or in another chain.
ChainsInv ==
  /\ \A h \in InFlight : \A i \in Links :
       Link(h, i) \in Descs /\ more[Link(h, i)] = (i < ChainLen[user])
  /\ \A g, h \in InFlight : \A i, j \in Links : Link(g, i) = Link(h, j) => g = h /\ i = j

\* The free list is f, of n descriptors.
FreeIs(n, f) ==
  /\ n \in Nat /\ f \in [1 .. n -> Descs]
  /\ \A i, j \in 1 .. n : f[i] = f[j] => i = j
  /\ free_head = IF n = 0 THEN NoDesc ELSE f[1]
  /\ \A i \in 1 .. n : next[f[i]] = IF i = n THEN NoDesc ELSE f[i + 1]

\* What is not in the free list is in a chain.
SharedOut(n, f) ==
  /\ \A h \in InFlight : \A i \in Links, j \in 1 .. n : Link(h, i) # f[j]
  /\ \A d \in Descs : \/ \E j \in 1 .. n : f[j] = d
                      \/ \E h \in InFlight : \E i \in Links : Link(h, i) = d

FreeInv == \E n \in 0 .. num : \E f \in [1 .. n -> Descs] : FreeIs(n, f) /\ SharedOut(n, f)

\* The queue of the driver that is followed.
QueueInv == QueueTypeOK /\ num \in QueueSizes /\ FlightInv /\ ChainsInv /\ FreeInv

-----------------------------------------------------------------------------
\* Numbers modulo the size of the ring.
LEMMA DivUnique ==
  ASSUME NEW n \in Nat \ {0}, NEW q \in Int, NEW r \in 0 .. n - 1, NEW x \in Int, x = q * n + r
  PROVE  x % n = r
<1>1. PICK d, e : d = x \div n /\ e = x % n
  OBVIOUS
<1>2. d \in Int /\ e \in 0 .. n - 1 /\ x = d * n + e
  BY <1>1
<1>3. PICK k \in Int : k = q - d
  BY <1>2
<1>4. k * n = e - r
  <2>1. q = d + k
    BY <1>2, <1>3
  <2>2. q * n = d * n + k * n
    BY <1>2, <2>1
  <2>3. QED
    BY <1>2, <2>2
<1>5. k = 0
  <2>1. k >= 1 => k * n >= n
    OBVIOUS
  <2>2. k <= -1 => k * n <= -n
    OBVIOUS
  <2>3. QED
    BY <1>2, <1>4, <2>1, <2>2
<1>6. QED
  BY <1>1, <1>2, <1>4, <1>5

\* A multiple of n does not count modulo n.
LEMMA ModAdd ==
  ASSUME NEW n \in Nat \ {0}, NEW x \in Int, NEW m \in Int
  PROVE  (x + m * n) % n = x % n
<1>1. PICK q, r : q = x \div n /\ r = x % n
  OBVIOUS
<1>2. q \in Int /\ r \in 0 .. n - 1 /\ x = q * n + r
  BY <1>1
<1>3. PICK y, u : y = x + m * n /\ u = q + m
  OBVIOUS
<1>4. u \in Int /\ y = u * n + r /\ y \in Int
  BY <1>2, <1>3
<1>5. y % n = r
  BY <1>2, <1>4, DivUnique
<1>6. QED
  BY <1>1, <1>3, <1>5

\* Fewer than n numbers in a row are different modulo n.
LEMMA ModApart ==
  ASSUME NEW n \in Nat \ {0}, NEW x \in Int, NEW k \in 0 .. n - 1, NEW l \in 0 .. n - 1,
         (x + k) % n = (x + l) % n
  PROVE  k = l
<1>1. PICK d, e, r : d = (x + k) \div n /\ e = (x + l) \div n /\ r = (x + k) % n
  OBVIOUS
<1>2. d \in Int /\ e \in Int /\ r \in Int /\ x + k = d * n + r /\ x + l = e * n + r
  BY <1>1
<1>3. PICK m \in Int : m = d - e
  BY <1>2
<1>4. k - l = m * n
  <2>1. d = e + m
    BY <1>2, <1>3
  <2>2. d * n = e * n + m * n
    BY <1>2, <2>1
  <2>3. QED
    BY <1>2, <2>2
<1>5. m = 0
  <2>1. m >= 1 => m * n >= n
    OBVIOUS
  <2>2. m <= -1 => m * n <= -n
    OBVIOUS
  <2>3. QED
    BY <1>4, <2>1, <2>2
<1>6. QED
  BY <1>4, <1>5

\* A queue has at least one descriptor, fewer than the indices have values,
\* and its size divides their number.
LEMMA SizeFacts ==
  ASSUME NEW n \in QueueSizes
  PROVE  /\ n \in Nat \ {0} /\ n <= MaxNum /\ n < IdxMod /\ IdxMod \in Nat \ {0}
         /\ \E m \in Nat : IdxMod = m * n
<1>1. n \in Nat \ {0} /\ n <= MaxNum /\ n < IdxMod /\ IdxMod \in Nat \ {0} /\ IdxMod % n = 0
  BY QueueAssumption DEF QueueSizes
<1>2. PICK m : m = IdxMod \div n
  OBVIOUS
<1>3. m \in Nat /\ IdxMod = m * n
  BY <1>1, <1>2
<1>4. QED
  BY <1>1, <1>3

\* An index that has run over is as good as one that has not.
LEMMA IndexMod ==
  ASSUME NEW n \in QueueSizes, NEW i \in Indices, NEW k \in Int
  PROVE  /\ (i + 1) % IdxMod \in Indices
         /\ (((i + 1) % IdxMod) + k) % n = (i + (k + 1)) % n
<1>1. PICK m \in Nat : IdxMod = m * n
  BY SizeFacts
<1>2. n \in Nat \ {0} /\ IdxMod \in Nat \ {0} /\ i \in 0 .. IdxMod - 1
  BY SizeFacts DEF Indices
<1>3. CASE i + 1 < IdxMod
  <2>1. (i + 1) % IdxMod = i + 1
    <3>1. i + 1 = 0 * IdxMod + (i + 1) /\ i + 1 \in 0 .. IdxMod - 1
      BY <1>2, <1>3
    <3>2. QED
      BY <1>2, <3>1, DivUnique
  <2>2. (i + 1) + k = i + (k + 1)
    BY <1>2
  <2>3. QED
    BY <1>2, <1>3, <2>1, <2>2 DEF Indices
<1>4. CASE i + 1 = IdxMod
  <2>1. (i + 1) % IdxMod = 0
    <3>1. i + 1 = 1 * IdxMod + 0 /\ 0 \in 0 .. IdxMod - 1 /\ i + 1 \in Int
      BY <1>2, <1>4
    <3>2. QED
      BY <1>2, <3>1, DivUnique
  <2>2. i + (k + 1) = k + m * n
    BY <1>1, <1>2, <1>4
  <2>3. (k + m * n) % n = k % n
    <3>1. \A x, c \in Int : (x + c * n) % n = x % n
      BY <1>2, ModAdd, Zenon
    <3>2. m \in Int
      BY <1>1
    <3>3. QED
      BY <3>1, <3>2, Zenon
  <2>4. 0 + k = k
    OBVIOUS
  <2>5. QED
    BY <1>2, <2>1, <2>2, <2>3, <2>4 DEF Indices
<1>5. QED
  BY <1>2, <1>3, <1>4

\* How the distance of two indices changes when one of them moves.
LEMMA DistFacts ==
  ASSUME NEW i \in Indices, NEW j \in Indices
  PROVE  /\ Dist(i, j) = IF j >= i THEN j - i ELSE j - i + IdxMod
         /\ Dist(i, j) \in 0 .. IdxMod - 1
         /\ Dist(i, j) = 0 <=> i = j
<1>1. IdxMod \in Nat \ {0} /\ i \in 0 .. IdxMod - 1 /\ j \in 0 .. IdxMod - 1
  BY QueueAssumption DEF Indices
<1>2. CASE j >= i
  <2>1. j - i = 0 * IdxMod + (j - i) /\ j - i \in 0 .. IdxMod - 1
    BY <1>1, <1>2
  <2>2. (j - i) % IdxMod = j - i
    BY <1>1, <2>1, DivUnique
  <2>3. QED
    BY <1>1, <1>2, <2>2 DEF Dist
<1>3. CASE j < i
  <2>1. j - i = (-1) * IdxMod + (j - i + IdxMod) /\ j - i + IdxMod \in 0 .. IdxMod - 1 /\ j - i \in Int
    BY <1>1, <1>3
  <2>2. (j - i) % IdxMod = j - i + IdxMod
    BY <1>1, <2>1, DivUnique
  <2>3. QED
    BY <1>1, <1>3, <2>2 DEF Dist
<1>4. QED
  BY <1>1, <1>2, <1>3

\* An index is counted up.
LEMMA NextIndex ==
  ASSUME NEW i \in Indices
  PROVE  (i + 1) % IdxMod = IF i + 1 = IdxMod THEN 0 ELSE i + 1
<1>1. IdxMod \in Nat \ {0} /\ i \in 0 .. IdxMod - 1
  BY QueueAssumption DEF Indices
<1>2. CASE i + 1 = IdxMod
  <2>1. i + 1 = 1 * IdxMod + 0 /\ 0 \in 0 .. IdxMod - 1 /\ i + 1 \in Int
    BY <1>1, <1>2
  <2>2. QED
    BY <1>1, <1>2, <2>1, DivUnique
<1>3. CASE i + 1 # IdxMod
  <2>1. i + 1 = 0 * IdxMod + (i + 1) /\ i + 1 \in 0 .. IdxMod - 1
    BY <1>1, <1>3
  <2>2. QED
    BY <1>1, <1>3, <2>1, DivUnique
<1>4. QED
  BY <1>2, <1>3

\* The distance of two indices when one of them is counted up.
LEMMA DistMoves ==
  ASSUME NEW i \in Indices, NEW j \in Indices
  PROVE  /\ i # j => Dist((i + 1) % IdxMod, j) = Dist(i, j) - 1
         /\ Dist(i, j) < IdxMod - 1 => Dist(i, (j + 1) % IdxMod) = Dist(i, j) + 1
<1>1. IdxMod \in Nat \ {0} /\ i \in 0 .. IdxMod - 1 /\ j \in 0 .. IdxMod - 1
  BY QueueAssumption DEF Indices
<1>2. PICK a, b : a = (i + 1) % IdxMod /\ b = (j + 1) % IdxMod
  OBVIOUS
<1>3. /\ a = IF i + 1 = IdxMod THEN 0 ELSE i + 1
      /\ b = IF j + 1 = IdxMod THEN 0 ELSE j + 1
  BY <1>2, NextIndex
<1>4. a \in Indices /\ b \in Indices
  BY <1>1, <1>3 DEF Indices
<1>5. /\ Dist(i, j) = IF j >= i THEN j - i ELSE j - i + IdxMod
      /\ Dist(a, j) = IF j >= a THEN j - a ELSE j - a + IdxMod
      /\ Dist(i, b) = IF b >= i THEN b - i ELSE b - i + IdxMod
  BY <1>4, DistFacts
<1>6. i # j => Dist(a, j) = Dist(i, j) - 1
  BY <1>1, <1>3, <1>5
<1>7. Dist(i, j) < IdxMod - 1 => Dist(i, b) = Dist(i, j) + 1
  BY <1>1, <1>3, <1>5
<1>8. QED
  BY <1>2, <1>6, <1>7

\* The last index of a stretch, from its first.
LEMMA LastIndex ==
  ASSUME NEW n \in QueueSizes, NEW i \in Indices, NEW j \in Indices
  PROVE  (i + Dist(i, j)) % n = j % n
<1>1. IdxMod \in Nat \ {0} /\ i \in 0 .. IdxMod - 1 /\ j \in 0 .. IdxMod - 1
  BY QueueAssumption DEF Indices
<1>2. PICK m \in Nat : IdxMod = m * n
  BY SizeFacts
<1>3. CASE j >= i
  <2>1. i + Dist(i, j) = j
    BY <1>1, <1>3, DistFacts
  <2>2. QED
    BY <2>1
<1>4. CASE j < i
  <2>1. i + Dist(i, j) = j + IdxMod
    BY <1>1, <1>4, DistFacts
  <2>2. i + Dist(i, j) = j + m * n
    BY <1>2, <2>1
  <2>3. n \in Nat \ {0} /\ j \in Int
    BY <1>1, SizeFacts
  <2>4. (j + m * n) % n = j % n
    <3>1. \A x, c \in Int : (x + c * n) % n = x % n
      BY <2>3, ModAdd, Zenon
    <3>2. m \in Int
      BY <1>2
    <3>3. QED
      BY <2>3, <3>1, <3>2, Zenon
  <2>5. QED
    BY <2>2, <2>4
<1>5. QED
  BY <1>1, <1>3, <1>4

-----------------------------------------------------------------------------
\* How many distinct descriptors there can be.
LEMMA CountDescs ==
  ASSUME num \in QueueSizes
  PROVE  /\ IsFiniteSet(Descs) /\ Cardinality(Descs) = num
         /\ \A x \in Descs : IsFiniteSet(Descs \ {x}) /\ Cardinality(Descs \ {x}) = num - 1
<1>1. num \in Nat \ {0}
  BY SizeFacts
<1>2. IsFiniteSet(Descs) /\ Cardinality(Descs) = num
  <2>1. IsFiniteSet(0 .. num - 1) /\ Cardinality(0 .. num - 1) = IF 0 > num - 1 THEN 0 ELSE num - 1 - 0 + 1
    BY <1>1, FS_Interval
  <2>2. QED
    BY <1>1, <2>1 DEF Descs
<1>3. QED
  BY <1>2, FS_RemoveElement

\* n different values need a set of at least n.
LEMMA Pigeons ==
  ASSUME NEW n \in Nat, NEW S, IsFiniteSet(S), NEW f,
         \A k \in 0 .. n - 1 : f[k] \in S,
         \A k, l \in 0 .. n - 1 : f[k] = f[l] => k = l
  PROVE  n <= Cardinality(S)
<1> DEFINE g == [k \in 0 .. n - 1 |-> f[k]]
<1>1. g \in Injection(0 .. n - 1, S)
  BY DEF Injection, IsInjective
<1>2. Cardinality(0 .. n - 1) <= Cardinality(S)
  BY <1>1, FS_Injection
<1>3. Cardinality(0 .. n - 1) = IF 0 > n - 1 THEN 0 ELSE n - 1 - 0 + 1
  BY FS_Interval
<1>4. QED
  BY <1>2, <1>3

\* The entries of a ring: each position from i on, for one round.
LEMMA EntryFacts ==
  ASSUME num \in QueueSizes, NEW i \in Indices
  PROVE  /\ \A k \in Nat : (i + k) % num \in Descs
         /\ \A k, l \in 0 .. num - 1 : (i + k) % num = (i + l) % num => k = l
<1>1. num \in Nat \ {0} /\ i \in Int
  BY SizeFacts, QueueAssumption DEF Indices
<1>2. \A k \in Nat : (i + k) % num \in Descs
  BY <1>1 DEF Descs
<1>3. \A k, l \in 0 .. num - 1 : (i + k) % num = (i + l) % num => k = l
  BY <1>1, ModApart
<1>4. QED
  BY <1>2, <1>3

\* The part of a ring between two indices, entry by entry.
LEMMA BetweenFacts ==
  ASSUME NEW ring, NEW i, NEW j
  PROVE  Between(ring, i, j) = {Entry(ring, i, k) : k \in 0 .. Dist(i, j) - 1}
BY DEF Between, Entry, Dist

\* x is put into a ring.
Puts(ring, i, j, x, r, m) ==
  /\ Dist(i, j) < num /\ Dist(i, m) = Dist(i, j) + 1 /\ m \in Indices
  /\ r \in [Descs -> Descs] /\ Once(r, i, m)
  /\ Between(r, i, m) = Between(ring, i, j) \cup {x}
  /\ \A k \in 0 .. Dist(i, j) - 1 : Entry(r, i, k) = Entry(ring, i, k)
  /\ Entry(r, i, Dist(i, j)) = x

\* Putting a value into a ring that is not in it leaves no value twice.
LEMMA RingPut ==
  ASSUME num \in QueueSizes, NEW i \in Indices, NEW j \in Indices, NEW ring \in [Descs -> Descs],
         Once(ring, i, j), NEW x \in Descs, x \notin Between(ring, i, j),
         NEW r, r = [ring EXCEPT ![j % num] = x], NEW m, m = (j + 1) % IdxMod
  PROVE  Puts(ring, i, j, x, r, m)
<1>1. PICK d : d = Dist(i, j)
  OBVIOUS
<1>2. d \in Nat /\ d <= num /\ num \in Nat \ {0} /\ num < IdxMod /\ IdxMod \in Nat \ {0}
  BY <1>1, DistFacts, SizeFacts DEF Once
<1>3. \A k \in 0 .. d - 1 : (i + k) % num \in Descs /\ Entry(ring, i, k) \in Descs
                            /\ Entry(ring, i, k) \in Between(ring, i, j)
  <2>1. \A k \in 0 .. d - 1 : (i + k) % num \in Descs
    BY <1>2, EntryFacts
  <2>2. QED
    BY <1>1, <2>1, BetweenFacts DEF Entry
<1>4. d < num
  <2> DEFINE f == [k \in 0 .. d - 1 |-> Entry(ring, i, k)]
  <2>1. \A k \in 0 .. d - 1 : f[k] \in Descs \ {x}
    BY <1>3
  <2>2. \A k, l \in 0 .. d - 1 : f[k] = f[l] => k = l
    BY <1>1 DEF Once
  <2> HIDE DEF f
  <2>3. IsFiniteSet(Descs \ {x}) /\ Cardinality(Descs \ {x}) = num - 1
    BY CountDescs
  <2>4. d <= Cardinality(Descs \ {x})
    BY <1>2, <2>1, <2>2, <2>3, Pigeons
  <2>5. QED
    BY <1>2, <2>3, <2>4
<1>5. (i + d) % num = j % num /\ j % num \in Descs
  BY <1>1, <1>2, LastIndex, EntryFacts
<1>6. m \in Indices /\ Dist(i, m) = d + 1
  <2>1. m \in Indices
    BY IndexMod, <1>2
  <2>2. QED
    BY <1>1, <1>2, <1>4, <2>1, DistMoves
<1>7. r \in [Descs -> Descs]
  OBVIOUS
<1>8. \A k \in 0 .. d - 1 : Entry(r, i, k) = Entry(ring, i, k)
  <2>1. ASSUME NEW k \in 0 .. d - 1 PROVE (i + k) % num # (i + d) % num
    <3>1. k \in 0 .. num - 1 /\ d \in 0 .. num - 1 /\ k # d
      BY <1>2, <1>4
    <3>2. QED
      BY <3>1, EntryFacts
  <2>2. QED
    BY <1>3, <1>5, <2>1 DEF Entry
<1>9. Entry(r, i, d) = x
  BY <1>5 DEF Entry
<1>10. Between(r, i, m) = Between(ring, i, j) \cup {x}
  <2>1. Between(r, i, m) = {Entry(r, i, k) : k \in 0 .. d}
    <3>1. Dist(i, m) - 1 = d
      BY <1>2, <1>6
    <3>2. QED
      BY <3>1, BetweenFacts
  <2>2. 0 .. d = (0 .. d - 1) \cup {d}
    BY <1>2
  <2>3. Between(r, i, m) = {Entry(r, i, k) : k \in 0 .. d - 1} \cup {Entry(r, i, d)}
    BY <2>1, <2>2
  <2>4. {Entry(r, i, k) : k \in 0 .. d - 1} = {Entry(ring, i, k) : k \in 0 .. d - 1}
    BY <1>8
  <2>5. QED
    BY <1>1, <1>9, <2>3, <2>4, BetweenFacts
<1>11. Once(r, i, m)
  <2>1. ASSUME NEW k \in 0 .. d, NEW l \in 0 .. d, Entry(r, i, k) = Entry(r, i, l) PROVE k = l
    <3>1. CASE k # d /\ l # d
      <4>1. k \in 0 .. d - 1 /\ l \in 0 .. d - 1
        BY <1>2, <3>1
      <4>2. QED
        BY <1>1, <1>8, <2>1, <4>1 DEF Once
    <3>2. CASE k = d /\ l # d
      <4>1. l \in 0 .. d - 1
        BY <1>2, <3>2
      <4>2. QED
        BY <1>3, <1>8, <1>9, <2>1, <3>2, <4>1
    <3>3. CASE k # d /\ l = d
      <4>1. k \in 0 .. d - 1
        BY <1>2, <3>3
      <4>2. QED
        BY <1>3, <1>8, <1>9, <2>1, <3>3, <4>1
    <3>4. QED
      BY <3>1, <3>2, <3>3
  <2>2. d + 1 - 1 = d /\ d + 1 <= num
    BY <1>2, <1>4
  <2>3. Dist(i, m) <= num /\ Dist(i, m) - 1 = d
    BY <1>2, <1>4, <1>6
  <2>4. QED
    BY <2>1, <2>3 DEF Once
<1>12. QED
  BY <1>1, <1>4, <1>6, <1>7, <1>8, <1>9, <1>10, <1>11 DEF Puts

\* The first entry x is taken from a ring.
Takes(ring, i, j, x, m) ==
  /\ Dist(i, j) > 0 /\ Dist(m, j) = Dist(i, j) - 1 /\ m \in Indices
  /\ x = Entry(ring, i, 0) /\ x \in Between(ring, i, j)
  /\ Once(ring, m, j)
  /\ Between(ring, m, j) = Between(ring, i, j) \ {x}
  /\ \A k \in Nat : Entry(ring, m, k) = Entry(ring, i, k + 1)

\* Taking the first entry leaves the others.
LEMMA RingTake ==
  ASSUME num \in QueueSizes, NEW i \in Indices, NEW j \in Indices, NEW ring \in [Descs -> Descs],
         Once(ring, i, j), i # j, NEW x, x = ring[i % num], NEW m, m = (i + 1) % IdxMod
  PROVE  Takes(ring, i, j, x, m)
<1>1. PICK d : d = Dist(i, j)
  OBVIOUS
<1>2. d \in Nat \ {0} /\ d <= num /\ num \in Nat \ {0}
  BY <1>1, DistFacts, SizeFacts, QueueAssumption DEF Once
<1>3. m \in Indices /\ Dist(m, j) = d - 1
  BY <1>1, IndexMod, DistMoves
<1>4. \A k \in Nat : Entry(ring, m, k) = Entry(ring, i, k + 1)
  BY IndexMod DEF Entry
<1>5. x = Entry(ring, i, 0)
  <2>1. i + 0 = i
    BY DEF Indices
  <2>2. QED
    BY <2>1 DEF Entry
<1>6. Between(ring, i, j) = {Entry(ring, i, k) : k \in 0 .. d - 1}
  BY <1>1, BetweenFacts
<1>7. Between(ring, m, j) = {Entry(ring, i, k) : k \in 1 .. d - 1}
  <2>1. Between(ring, m, j) = {Entry(ring, m, k) : k \in 0 .. d - 1 - 1}
    BY <1>3, BetweenFacts
  <2>2. ASSUME NEW k \in 0 .. d - 1 - 1
        PROVE  k + 1 \in 1 .. d - 1 /\ Entry(ring, m, k) = Entry(ring, i, k + 1)
    BY <1>2, <1>4
  <2>3. ASSUME NEW k \in 1 .. d - 1
        PROVE  k - 1 \in 0 .. d - 1 - 1 /\ Entry(ring, m, k - 1) = Entry(ring, i, k)
    <3>1. k - 1 \in Nat /\ (k - 1) + 1 = k /\ k - 1 \in 0 .. d - 1 - 1
      BY <1>2
    <3>2. QED
      BY <1>4, <3>1
  <2>4. QED
    BY <2>1, <2>2, <2>3
<1>8. \A k, l \in 0 .. d - 1 : Entry(ring, i, k) = Entry(ring, i, l) => k = l
  BY <1>1 DEF Once
<1>9. Between(ring, m, j) = Between(ring, i, j) \ {x}
  <2>1. ASSUME NEW k \in 1 .. d - 1 PROVE Entry(ring, i, k) # x /\ k \in 0 .. d - 1
    <3>1. k \in 0 .. d - 1 /\ 0 \in 0 .. d - 1 /\ k # 0
      BY <1>2
    <3>2. QED
      BY <1>5, <1>8, <3>1
  <2>2. ASSUME NEW k \in 0 .. d - 1, Entry(ring, i, k) # x PROVE k \in 1 .. d - 1
    BY <1>2, <1>5, <2>2
  <2>3. QED
    BY <1>6, <1>7, <2>1, <2>2
<1>10. Once(ring, m, j)
  <2>1. ASSUME NEW k \in 0 .. d - 1 - 1, NEW l \in 0 .. d - 1 - 1, Entry(ring, m, k) = Entry(ring, m, l)
        PROVE  k = l
    <3>1. k + 1 \in 0 .. d - 1 /\ l + 1 \in 0 .. d - 1 /\ k \in Nat /\ l \in Nat
      BY <1>2
    <3>2. k + 1 = l + 1
      BY <1>4, <1>8, <2>1, <3>1
    <3>3. QED
      BY <3>1, <3>2
  <2>2. QED
    BY <1>2, <1>3, <2>1 DEF Once
<1>11. x \in Between(ring, i, j)
  <2>1. 0 \in 0 .. d - 1
    BY <1>2
  <2>2. QED
    BY <1>5, <1>6, <2>1
<1>12. QED
  BY <1>1, <1>2, <1>3, <1>4, <1>5, <1>9, <1>10, <1>11 DEF Takes

\* How many entries a stretch has that holds nothing twice.
LEMMA CountRing ==
  ASSUME num \in QueueSizes, NEW i \in Indices, NEW j \in Indices, NEW ring, Once(ring, i, j)
  PROVE  IsFiniteSet(Between(ring, i, j)) /\ Cardinality(Between(ring, i, j)) = Dist(i, j)
<1>1. PICK d : d = Dist(i, j)
  OBVIOUS
<1>2. d \in Nat
  BY <1>1, DistFacts, QueueAssumption
<1> DEFINE f == [k \in 0 .. d - 1 |-> Entry(ring, i, k)]
           S == Between(ring, i, j)
<1>3. S = {Entry(ring, i, k) : k \in 0 .. d - 1}
  BY <1>1, BetweenFacts
<1>4. f \in Bijection(0 .. d - 1, S)
  BY <1>1, <1>3 DEF Once, Bijection, Injection, IsInjective, Surjection
<1>5. ExistsBijection(0 .. d - 1, S)
  BY <1>4 DEF ExistsBijection
<1>6. IsFiniteSet(0 .. d - 1) /\ Cardinality(0 .. d - 1) = d
  <2>1. IsFiniteSet(0 .. d - 1) /\ Cardinality(0 .. d - 1) = IF 0 > d - 1 THEN 0 ELSE d - 1 - 0 + 1
    BY <1>2, FS_Interval
  <2>2. QED
    BY <1>2, <2>1
<1>7. QED
  BY <1>1, <1>5, <1>6, FS_Bijection

-----------------------------------------------------------------------------
\* The chains that the code follows along desc[i].next.
Prefix(f, m) == [j \in 1 .. m |-> f[j]]

\* The beginning of a sequence of values of S.
LEMMA PrefixFacts ==
  ASSUME NEW f, NEW m \in Nat, NEW S, \A j \in 1 .. m : f[j] \in S
  PROVE  /\ Prefix(f, m) \in Seq(S) /\ Len(Prefix(f, m)) = m
         /\ \A j \in 1 .. m : Prefix(f, m)[j] = f[j]
         /\ DOMAIN Prefix(f, m) = 1 .. m
         /\ Prefix(f, m) = <<>> <=> m = 0
         /\ m # 0 => Last(Prefix(f, m)) = f[m]
<1>1. Prefix(f, m) \in Seq(S) /\ Len(Prefix(f, m)) = m /\ DOMAIN Prefix(f, m) = 1 .. m
  BY DEF Prefix
<1>2. \A j \in 1 .. m : Prefix(f, m)[j] = f[j]
  BY DEF Prefix
<1>3. Prefix(f, m) = <<>> <=> m = 0
  BY <1>1
<1>4. m # 0 => Last(Prefix(f, m)) = f[m]
  BY <1>1, <1>2 DEF Last
<1>5. QED
  BY <1>1, <1>2, <1>3, <1>4

\* The same for values of any kind.
LEMMA PrefixLast ==
  ASSUME NEW f, NEW m \in Nat
  PROVE  /\ Len(Prefix(f, m)) = m /\ DOMAIN Prefix(f, m) = 1 .. m
         /\ \A j \in 1 .. m : Prefix(f, m)[j] = f[j]
         /\ m # 0 => Last(Prefix(f, m)) = f[m]
<1> DEFINE S == {f[j] : j \in 1 .. m}
<1>1. \A j \in 1 .. m : f[j] \in S
  OBVIOUS
<1> HIDE DEF S
<1>2. QED
  BY <1>1, PrefixFacts

\* The beginning, one longer.
LEMMA PrefixAppend ==
  ASSUME NEW f, NEW m \in Nat
  PROVE  Append(Prefix(f, m), f[m + 1]) = Prefix(f, m + 1)
<1> DEFINE S == {f[j] : j \in 1 .. m + 1}
           a == Prefix(f, m)
           b == Append(a, f[m + 1])
           c == Prefix(f, m + 1)
<1>1. \A j \in 1 .. m + 1 : f[j] \in S
  OBVIOUS
<1> HIDE DEF S
<1>2. a \in Seq(S) /\ Len(a) = m /\ \A j \in 1 .. m : a[j] = f[j]
  <2>1. \A j \in 1 .. m : f[j] \in S
    BY <1>1
  <2>2. QED
    BY <2>1, PrefixFacts
<1>3. c \in Seq(S) /\ Len(c) = m + 1 /\ \A j \in 1 .. m + 1 : c[j] = f[j]
  <2>1. m + 1 \in Nat
    OBVIOUS
  <2>2. QED
    BY <1>1, <2>1, PrefixFacts
<1> HIDE DEF a, c
<1>4. f[m + 1] \in S
  BY <1>1
<1>5. b \in Seq(S) /\ Len(b) = m + 1 /\ b[m + 1] = f[m + 1] /\ \A j \in 1 .. m : b[j] = a[j]
  BY <1>2, <1>4
<1> HIDE DEF b
<1>6. \A j \in 1 .. m + 1 : b[j] = c[j]
  BY <1>2, <1>3, <1>5
<1>7. b = c
  BY <1>3, <1>5, <1>6
<1>8. QED
  BY <1>7 DEF a, b, c

\* One turn: c and the descriptor after it.
Follow(c) ==
  LET d == IF c = <<>> THEN free_head ELSE next[Last(c)] IN
  IF d = NoDesc THEN c ELSE Append(c, d)

\* virtqueue_add_chain takes one more descriptor from the free list.
LEMMA FreeStep ==
  ASSUME NEW n, NEW f, FreeIs(n, f), NEW m \in 0 .. n
  PROVE  Follow(Prefix(f, m)) = Prefix(f, IF m < n THEN m + 1 ELSE n)
<1>1. PICK c, d : c = Prefix(f, m) /\ d = IF c = <<>> THEN free_head ELSE next[Last(c)]
  OBVIOUS
<1>2. m \in Nat /\ n \in Nat /\ m <= n /\ \A j \in 1 .. n : f[j] \in Descs
  BY DEF FreeIs
<1>3. (c = <<>> <=> m = 0) /\ (m # 0 => Last(c) = f[m])
  <2>1. \A j \in 1 .. m : f[j] \in Descs
    BY <1>2
  <2>2. QED
    BY <1>1, <1>2, <2>1, PrefixFacts
<1>4. d = IF m = n THEN NoDesc ELSE f[m + 1]
  <2>1. CASE m = 0
    BY <1>1, <1>2, <1>3, <2>1 DEF FreeIs
  <2>2. CASE m # 0
    <3>1. m \in 1 .. n /\ d = next[f[m]]
      BY <1>1, <1>2, <1>3, <2>2
    <3>2. QED
      BY <3>1 DEF FreeIs
  <2>3. QED
    BY <2>1, <2>2
<1>5. CASE m = n
  BY <1>1, <1>2, <1>4, <1>5 DEF Follow
<1>6. CASE m # n
  <2>1. m + 1 \in 1 .. n /\ m < n
    BY <1>2, <1>6
  <2>2. f[m + 1] \in Descs /\ d = f[m + 1]
    BY <1>2, <1>4, <1>6, <2>1
  <2>3. d # NoDesc
    <3>1. num \in Int \/ num \notin Int
      OBVIOUS
    <3>2. QED
      BY <2>2 DEF Descs, NoDesc
  <2>4. Append(c, d) = Prefix(f, m + 1)
    BY <1>1, <1>2, <2>2, PrefixAppend
  <2>5. QED
    BY <1>1, <2>1, <2>3, <2>4 DEF Follow
<1>7. QED
  BY <1>5, <1>6

Least(m, n) == IF m < n THEN m ELSE n

\* What add_chain finds when it follows the free list.
LEMMA FreeChainFacts ==
  ASSUME NEW n, NEW f, FreeIs(n, f), NEW len \in Nat
  PROVE  FreeChain(len) = Prefix(f, Least(len, n))
<1> DEFINE Walked(g) == [i \in 0 .. len |->
             IF i = 0 THEN <<>> ELSE Follow(g[i - 1])]
           walk == CHOOSE g : g = Walked(g)
           know == [i \in 0 .. len |-> Prefix(f, Least(i, n))]
<1>1. n \in Nat
  BY DEF FreeIs
<1>2. Prefix(f, 0) = <<>> /\ Least(0, n) = 0
  <2>1. \A j \in 1 .. 0 : f[j] \in {}
    OBVIOUS
  <2>2. QED
    BY <1>1, <2>1, PrefixFacts DEF Least
<1>3. ASSUME NEW g, NEW i \in 1 .. len, g[i - 1] = Prefix(f, Least(i - 1, n))
      PROVE  Follow(g[i - 1]) = Prefix(f, Least(i, n))
  <2>1. PICK m \in 0 .. n : m = Least(i - 1, n)
    BY <1>1 DEF Least
  <2>2. (IF m < n THEN m + 1 ELSE n) = Least(i, n)
    BY <1>1, <2>1 DEF Least
  <2>3. g[i - 1] = Prefix(f, m)
    BY <1>3, <2>1
  <2>4. QED
    BY <2>2, <2>3, FreeStep
<1>4. know = Walked(know)
  <2>1. ASSUME NEW i \in 0 .. len
        PROVE  know[i] = Walked(know)[i]
    <3>1. CASE i = 0
      BY <1>2, <3>1
    <3>2. CASE i # 0
      <4>1. i \in 1 .. len /\ i - 1 \in 0 .. len
        BY <3>2
      <4>2. know[i - 1] = Prefix(f, Least(i - 1, n))
        BY <4>1
      <4> HIDE DEF know
      <4>3. Walked(know)[i] = Prefix(f, Least(i, n))
        BY <1>3, <3>2, <4>1, <4>2
      <4>4. QED
        BY <4>3 DEF know
    <3>3. QED
      BY <3>1, <3>2
  <2>2. know = [i \in 0 .. len |-> know[i]] /\ Walked(know) = [i \in 0 .. len |-> Walked(know)[i]]
    OBVIOUS
  <2> HIDE DEF know, Walked
  <2>3. QED
    BY <2>1, <2>2
<1>5. walk = Walked(walk)
  <2> HIDE DEF know, Walked
  <2>1. QED
    BY <1>4
<1> DEFINE S == {i \in 0 .. len : walk[i] = Prefix(f, Least(i, n))}
<1>6. 0 \in S
  <2>1. Walked(walk)[0] = <<>>
    OBVIOUS
  <2> HIDE DEF walk, Walked
  <2>2. QED
    BY <1>2, <1>5, <2>1
<1>7. ASSUME NEW i \in 0 .. len - 1, i \in S PROVE i + 1 \in S
  <2>1. i + 1 \in 1 .. len /\ i + 1 - 1 = i /\ i + 1 # 0 /\ i + 1 \in 0 .. len
    OBVIOUS
  <2>2. walk[i + 1 - 1] = Prefix(f, Least(i + 1 - 1, n))
    BY <1>7, <2>1
  <2> HIDE DEF walk
  <2>3. Walked(walk)[i + 1] = Prefix(f, Least(i + 1, n))
    BY <1>3, <2>1, <2>2
  <2> HIDE DEF Walked
  <2>4. QED
    BY <1>5, <2>1, <2>3
<1> HIDE DEF S
<1>8. 0 .. len \subseteq S
  BY <1>6, <1>7, IntervalInduction
<1> HIDE DEF walk
<1>9. walk[len] = Prefix(f, Least(len, n))
  BY <1>8 DEF S
<1>10. QED
  BY <1>9 DEF FreeChain, walk, Follow

\* There is room for as many buffers as the free list has descriptors.
LEMMA RoomFacts ==
  ASSUME NEW n, NEW f, FreeIs(n, f), NEW len \in Nat
  PROVE  /\ HasRoom(len) <=> len <= n
         /\ len <= n => FreeChain(len) = Prefix(f, len)
<1>1. n \in Nat /\ \A j \in 1 .. n : f[j] \in Descs
  BY DEF FreeIs
<1>2. PICK m \in 0 .. n : m = Least(len, n)
  BY <1>1 DEF Least
<1>3. FreeChain(len) = Prefix(f, m)
  BY <1>2, FreeChainFacts
<1>4. Len(Prefix(f, m)) = m
  <2>1. \A j \in 1 .. m : f[j] \in Descs
    BY <1>1
  <2>2. QED
    BY <2>1, PrefixFacts
<1>5. m = len <=> len <= n
  BY <1>1, <1>2 DEF Least
<1>6. QED
  BY <1>3, <1>4, <1>5 DEF HasRoom

\* The chain of l descriptors that begins at h.
ChainIs(h, l) ==
  /\ l \in 1 .. 3
  /\ \A i \in 1 .. l : Link(h, i) \in Descs /\ more[Link(h, i)] = (i < l)

Extend(c) == IF more[Last(c)] THEN Append(c, next[Last(c)]) ELSE c
Links3(h) == [i \in 1 .. 3 |-> Link(h, i)]

\* virtqueue_get_used follows a chain by one more descriptor.
LEMMA ChainStep ==
  ASSUME NEW h, NEW l, ChainIs(h, l), NEW m \in 1 .. l
  PROVE  Extend(Prefix(Links3(h), m)) = Prefix(Links3(h), IF m < l THEN m + 1 ELSE l)
<1>1. PICK c : c = Prefix(Links3(h), m)
  OBVIOUS
<1>2. m \in 1 .. 3 /\ l \in 1 .. 3 /\ m <= l
  BY DEF ChainIs
<1>3. Last(c) = Link(h, m)
  <2>1. Last(c) = Links3(h)[m]
    BY <1>1, <1>2, PrefixLast
  <2>2. QED
    BY <1>2, <2>1 DEF Links3
<1>4. CASE m = l
  <2>1. more[Last(c)] = FALSE
    <3>1. more[Link(h, m)] = (m < l)
      BY DEF ChainIs
    <3>2. (m < l) = FALSE
      BY <1>2, <1>4
    <3>3. QED
      BY <1>3, <3>1, <3>2
  <2>2. Extend(c) = c
    BY <2>1, Zenon DEF Extend
  <2>3. QED
    BY <1>1, <1>2, <1>4, <2>2
<1>5. CASE m # l
  <2>1. m < l /\ m + 1 \in 1 .. 3 /\ m \in 1 .. 2
    BY <1>2, <1>5
  <2>2. more[Last(c)] = TRUE
    BY <1>2, <1>3, <2>1 DEF ChainIs
  <2>3. Extend(c) = Append(c, next[Last(c)])
    BY <2>2, Zenon DEF Extend
  <2>4. next[Last(c)] = Links3(h)[m + 1]
    <3>1. CASE m = 1
      BY <1>3, <3>1 DEF Links3, Link
    <3>2. CASE m = 2
      BY <1>3, <3>2 DEF Links3, Link
    <3>3. QED
      BY <2>1, <3>1, <3>2
  <2>5. Extend(c) = Prefix(Links3(h), m + 1)
    <3>1. PICK f : f = Links3(h)
      OBVIOUS
    <3>2. m \in Nat
      BY <1>2
    <3>3. Append(Prefix(f, m), f[m + 1]) = Prefix(f, m + 1)
      BY ONLY <3>2, PrefixAppend
    <3>4. QED
      BY <1>1, <2>3, <2>4, <3>1, <3>3, Zenon
  <2>6. QED
    BY <1>1, <2>1, <2>5
<1>6. QED
  BY <1>4, <1>5

\* What the driver reads when it follows a chain.
LEMMA ChainOfFacts ==
  ASSUME num \in Nat, NEW h, NEW l, ChainIs(h, l), l <= num
  PROVE  ChainOf(h) = Prefix(Links3(h), l)
<1> DEFINE Walked(g) == [i \in 1 .. num |-> IF i = 1 THEN <<h>> ELSE Extend(g[i - 1])]
           walk == CHOOSE g : g = Walked(g)
           know == [i \in 1 .. num |-> Prefix(Links3(h), Least(i, l))]
<1>1. l \in 1 .. 3 /\ num \in Nat /\ 1 <= num
  BY DEF ChainIs
<1>2. Prefix(Links3(h), 1) = <<h>> /\ Least(1, l) = 1
  <2>1. Prefix(Links3(h), 1) = [i \in 1 .. 1 |-> h]
    BY DEF Prefix, Links3, Link
  <2>2. <<h>> = [i \in 1 .. 1 |-> h]
    OBVIOUS
  <2>3. QED
    BY <1>1, <2>1, <2>2 DEF Least
<1>3. ASSUME NEW g, NEW i \in 2 .. num, g[i - 1] = Prefix(Links3(h), Least(i - 1, l))
      PROVE  Extend(g[i - 1]) = Prefix(Links3(h), Least(i, l))
  <2>1. PICK m \in 1 .. l : m = Least(i - 1, l)
    BY <1>1 DEF Least
  <2>2. (IF m < l THEN m + 1 ELSE l) = Least(i, l)
    BY <1>1, <2>1 DEF Least
  <2>3. g[i - 1] = Prefix(Links3(h), m)
    BY <1>3, <2>1
  <2>4. QED
    BY <2>2, <2>3, ChainStep
<1>4. know = Walked(know)
  <2>1. ASSUME NEW i \in 1 .. num
        PROVE  know[i] = Walked(know)[i]
    <3>1. CASE i = 1
      BY <1>2, <3>1
    <3>2. CASE i # 1
      <4>1. i \in 2 .. num /\ i - 1 \in 1 .. num
        BY <1>1, <3>2
      <4>2. know[i - 1] = Prefix(Links3(h), Least(i - 1, l))
        BY <4>1
      <4> HIDE DEF know
      <4>3. Walked(know)[i] = Prefix(Links3(h), Least(i, l))
        BY <1>3, <3>2, <4>1, <4>2
      <4>4. QED
        BY <4>3 DEF know
    <3>3. QED
      BY <3>1, <3>2
  <2>2. know = [i \in 1 .. num |-> know[i]] /\ Walked(know) = [i \in 1 .. num |-> Walked(know)[i]]
    OBVIOUS
  <2> HIDE DEF know, Walked
  <2>3. QED
    BY <2>1, <2>2
<1>5. walk = Walked(walk)
  <2> HIDE DEF know, Walked
  <2>1. QED
    BY <1>4
<1> DEFINE S == {i \in 1 .. num : walk[i] = Prefix(Links3(h), Least(i, l))}
<1>6. 1 \in S
  <2>1. Walked(walk)[1] = <<h>>
    BY <1>1
  <2> HIDE DEF walk, Walked
  <2>2. QED
    BY <1>1, <1>2, <1>5, <2>1
<1>7. ASSUME NEW i \in 1 .. num - 1, i \in S PROVE i + 1 \in S
  <2>1. i + 1 \in 2 .. num /\ i + 1 - 1 = i /\ i + 1 # 1 /\ i + 1 \in 1 .. num
    BY <1>1
  <2>2. walk[i + 1 - 1] = Prefix(Links3(h), Least(i + 1 - 1, l))
    BY <1>7, <2>1
  <2> HIDE DEF walk
  <2>3. Walked(walk)[i + 1] = Prefix(Links3(h), Least(i + 1, l))
    BY <1>3, <2>1, <2>2
  <2> HIDE DEF Walked
  <2>4. QED
    BY <1>5, <2>1, <2>3
<1> HIDE DEF S
<1>8. 1 .. num \subseteq S
  BY <1>1, <1>6, <1>7, IntervalInduction
<1> HIDE DEF walk
<1>9. walk[num] = Prefix(Links3(h), l)
  <2>1. num \in 1 .. num /\ Least(num, l) = l
    BY <1>1 DEF Least
  <2>2. QED
    BY <1>8, <2>1 DEF S
<1>10. QED
  BY <1>9 DEF ChainOf, walk, Extend

\* The chains in flight.
LEMMA FlightChains ==
  ASSUME QueueInv, user \in DOMAIN ChainLen, NEW h \in InFlight
  PROVE  /\ ChainLen[user] \in 1 .. 3 /\ Links = 1 .. ChainLen[user] /\ ChainLen[user] <= num
         /\ ChainOf(h) = Prefix(Links3(h), ChainLen[user])
         /\ Range(ChainOf(h)) = {Link(h, i) : i \in Links}
<1>1. PICK l : l = ChainLen[user]
  OBVIOUS
<1>2. l \in 1 .. 3 /\ Links = 1 .. l
  BY <1>1 DEF ChainLen, Links
<1>3. ChainIs(h, l)
  BY <1>1, <1>2 DEF QueueInv, ChainsInv, ChainIs
<1>4. l <= num
  <2>1. \A i \in 1 .. l : Links3(h)[i] = Link(h, i) /\ Link(h, i) \in Descs
    BY <1>2, <1>3 DEF Links3, ChainIs
  <2>2. \A i, j \in 1 .. l : Link(h, i) = Link(h, j) => i = j
    BY <1>2 DEF QueueInv, ChainsInv
  <2>3. IsFiniteSet(Descs) /\ Cardinality(Descs) = num
    BY CountDescs DEF QueueInv
  <2>4. l <= Cardinality(Descs)
    <3> DEFINE g == [k \in 0 .. l - 1 |-> Link(h, k + 1)]
    <3>1. l \in Nat /\ \A k \in 0 .. l - 1 : k + 1 \in 1 .. l
      BY <1>2
    <3>2. \A k \in 0 .. l - 1 : g[k] \in Descs
      BY <2>1, <3>1
    <3>3. \A k, m \in 0 .. l - 1 : g[k] = g[m] => k = m
      <4>1. ASSUME NEW k \in 0 .. l - 1, NEW m \in 0 .. l - 1, g[k] = g[m] PROVE k = m
        <5>1. k + 1 = m + 1
          BY <2>2, <3>1, <4>1
        <5>2. QED
          BY <5>1
      <4>2. QED
        BY <4>1
    <3> HIDE DEF g
    <3>4. QED
      BY <2>3, <3>1, <3>2, <3>3, Pigeons
  <2>5. QED
    BY <2>3, <2>4
<1>5. num \in Nat
  BY SizeFacts DEF QueueInv
<1>6. ChainOf(h) = Prefix(Links3(h), l)
  BY <1>3, <1>4, <1>5, ChainOfFacts
<1>7. Range(ChainOf(h)) = {Link(h, i) : i \in 1 .. l}
  <2>1. \A i \in 1 .. l : Links3(h)[i] = Link(h, i)
    BY <1>2 DEF Links3
  <2>2. Prefix(Links3(h), l) = [i \in 1 .. l |-> Link(h, i)]
    BY <2>1 DEF Prefix
  <2>3. QED
    BY <1>6, <2>2 DEF Range
<1>8. QED
  BY <1>1, <1>2, <1>4, <1>6, <1>7

-----------------------------------------------------------------------------
\* The device works on as many chains as it has jobs.
LEMMA CountJobs ==
  ASSUME FlightInv
  PROVE  IsFiniteSet(Working) /\ Cardinality(Working) = Cardinality(jobs)
<1> DEFINE f == [job \in jobs |-> job.head]
<1>1. f \in Bijection(jobs, Working)
  <2>1. f \in [jobs -> Working] /\ \A w \in Working : \E job \in jobs : f[job] = w
    BY DEF Working
  <2>2. \A i, j \in jobs : f[i] = f[j] => i = j
    BY DEF FlightInv
  <2> HIDE DEF f
  <2>3. QED
    BY <2>1, <2>2 DEF Bijection, Injection, IsInjective, Surjection
<1>2. ExistsBijection(jobs, Working)
  BY <1>1 DEF ExistsBijection
<1>3. QED
  BY <1>2, FS_Bijection DEF FlightInv

\* The chains in flight are as many as the indices say.
LEMMA CountHeads ==
  ASSUME QueueInv
  PROVE  Cardinality(InFlight) = Dist(seen_idx, avail_idx) + Cardinality(Working)
                                   + Dist(last_used_idx, used_idx)
<1>1. /\ num \in QueueSizes /\ seen_idx \in Indices /\ avail_idx \in Indices
      /\ last_used_idx \in Indices /\ used_idx \in Indices
      /\ Once(avail, seen_idx, avail_idx) /\ Once(used, last_used_idx, used_idx)
      /\ Avl \cap Working = {} /\ (Avl \cup Working) \cap Usd = {}
  BY DEF QueueInv, QueueTypeOK, FlightInv
<1>2. IsFiniteSet(Avl) /\ Cardinality(Avl) = Dist(seen_idx, avail_idx)
  BY <1>1, CountRing DEF Avl
<1>3. IsFiniteSet(Usd) /\ Cardinality(Usd) = Dist(last_used_idx, used_idx)
  BY <1>1, CountRing DEF Usd
<1>4. IsFiniteSet(Working)
  BY CountJobs DEF QueueInv
<1>5. Cardinality({}) = 0
  BY FS_EmptySet
<1>6. Cardinality(Avl) \in Nat /\ Cardinality(Usd) \in Nat /\ Cardinality(Working) \in Nat
  BY <1>2, <1>3, <1>4, FS_CardinalityType
<1>7. /\ IsFiniteSet(Avl \cup Working)
      /\ Cardinality(Avl \cup Working) = Cardinality(Avl) + Cardinality(Working)
  <2>1. /\ IsFiniteSet(Avl \cup Working)
        /\ Cardinality(Avl \cup Working)
             = Cardinality(Avl) + Cardinality(Working) - Cardinality(Avl \cap Working)
    BY <1>2, <1>4, FS_Union
  <2>2. Cardinality(Avl \cap Working) = 0
    BY <1>1, <1>5
  <2>3. QED
    BY <1>6, <2>1, <2>2
<1>8. Cardinality((Avl \cup Working) \cup Usd) = Cardinality(Avl \cup Working) + Cardinality(Usd)
  <2>1. Cardinality((Avl \cup Working) \cup Usd)
          = Cardinality(Avl \cup Working) + Cardinality(Usd) - Cardinality((Avl \cup Working) \cap Usd)
    BY <1>3, <1>7, FS_Union
  <2>2. Cardinality((Avl \cup Working) \cap Usd) = 0
    BY <1>1, <1>5
  <2>3. Cardinality(Avl \cup Working) \in Nat
    BY <1>6, <1>7
  <2>4. QED
    BY <1>6, <2>1, <2>2, <2>3
<1>9. InFlight = (Avl \cup Working) \cup Usd
  BY DEF InFlight, Avl, Usd
<1>10. QED
  BY <1>2, <1>3, <1>7, <1>8, <1>9

\* The free list has at most all descriptors.
LEMMA FreeFits ==
  ASSUME num \in QueueSizes, NEW n, NEW f, FreeIs(n, f)
  PROVE  n \in 0 .. num /\ f \in [1 .. n -> Descs]
<1>1. n \in Nat /\ f \in [1 .. n -> Descs] /\ \A i, j \in 1 .. n : f[i] = f[j] => i = j
  BY DEF FreeIs
<1> DEFINE g == [k \in 0 .. n - 1 |-> f[k + 1]]
<1>2. \A k \in 0 .. n - 1 : k + 1 \in 1 .. n
  BY <1>1
<1>3. \A k \in 0 .. n - 1 : g[k] \in Descs
  BY <1>1, <1>2
<1>4. ASSUME NEW k \in 0 .. n - 1, NEW m \in 0 .. n - 1, g[k] = g[m] PROVE k = m
  <2>1. k + 1 = m + 1
    BY <1>1, <1>2, <1>4
  <2>2. QED
    BY <2>1
<1>5. IsFiniteSet(Descs) /\ Cardinality(Descs) = num /\ num \in Nat
  BY CountDescs, SizeFacts
<1> HIDE DEF g
<1>6. n <= Cardinality(Descs)
  BY <1>1, <1>3, <1>4, <1>5, Pigeons
<1>7. QED
  BY <1>1, <1>5, <1>6

\* The invariant says what DescriptorsAccounted does.
LEMMA Accounted ==
  ASSUME QueueInv, user \in DOMAIN ChainLen
  PROVE  DescriptorsAccounted(Working)
<1>1. PICK n, f : FreeIs(n, f) /\ SharedOut(n, f)
  BY DEF QueueInv, FreeInv
<1>2. n \in 0 .. num /\ num \in Nat /\ num \in QueueSizes
  BY <1>1, FreeFits, SizeFacts DEF QueueInv
<1>3. PICK free : free = FreeChain(num + 1)
  OBVIOUS
<1>4. free = Prefix(f, n)
  <2>1. Least(num + 1, n) = n /\ num + 1 \in Nat
    BY <1>2 DEF Least
  <2>2. QED
    BY <1>1, <1>3, <2>1, FreeChainFacts
<1>5. free = [j \in 1 .. n |-> f[j]]
  BY <1>4 DEF Prefix
<1>6. IsInjective(free)
  BY <1>1, <1>5 DEF FreeIs, IsInjective
<1>7. Range(free) = {f[j] : j \in 1 .. n}
  BY <1>5 DEF Range
<1>8. \A h \in InFlight : Range(ChainOf(h)) = {Link(h, i) : i \in Links}
  BY FlightChains
<1>9. \A h, g \in InFlight : h # g => Range(ChainOf(h)) \cap Range(ChainOf(g)) = {}
  BY <1>8 DEF QueueInv, ChainsInv
<1>10. Range(free) \cap UNION {Range(ChainOf(h)) : h \in InFlight} = {}
  BY <1>1, <1>7, <1>8 DEF SharedOut
<1>11. Range(free) \cup UNION {Range(ChainOf(h)) : h \in InFlight} = Descs
  <2>1. ASSUME NEW d \in Descs PROVE d \in Range(free) \cup UNION {Range(ChainOf(h)) : h \in InFlight}
    BY <1>1, <1>7, <1>8, <2>1 DEF SharedOut
  <2>2. ASSUME NEW h \in InFlight PROVE Range(ChainOf(h)) \subseteq Descs
    BY <1>8 DEF QueueInv, ChainsInv
  <2>3. Range(free) \subseteq Descs
    BY <1>1, <1>7 DEF FreeIs
  <2>4. QED
    BY <2>1, <2>2, <2>3
<1>12. Cardinality(InFlight) = ((avail_idx - seen_idx) % IdxMod) + Cardinality(Working)
                                 + ((used_idx - last_used_idx) % IdxMod)
  BY CountHeads DEF Dist
<1>13. InFlight = Between(avail, seen_idx, avail_idx) \cup Working
                    \cup Between(used, last_used_idx, used_idx)
  BY DEF InFlight
<1>14. QED
  BY <1>3, <1>6, <1>9, <1>10, <1>11, <1>12, <1>13 DEF DescriptorsAccounted

-----------------------------------------------------------------------------
\* The types of a queue, and how many descriptors a chain has.
LEMMA QueueFacts ==
  ASSUME QueueInv, user \in DOMAIN ChainLen
  PROVE  /\ num \in QueueSizes /\ num \in Nat \ {0} /\ 0 \in Descs
         /\ next \in [Descs -> Descs \cup {NoDesc}] /\ more \in [Descs -> BOOLEAN]
         /\ free_head \in Descs \cup {NoDesc}
         /\ avail_idx \in Indices /\ seen_idx \in Indices
         /\ last_used_idx \in Indices /\ used_idx \in Indices
         /\ avail \in [Descs -> Descs] /\ used \in [Descs -> Descs]
         /\ ChainLen[user] \in 1 .. 3 /\ Links = 1 .. ChainLen[user]
         /\ InFlight = (Avl \cup Working) \cup Usd /\ InFlight \subseteq Descs
         /\ \A h : Link(h, 1) = h
<1>1. num \in QueueSizes /\ num \in Nat \ {0} /\ 0 \in Descs
  BY SizeFacts DEF QueueInv, Descs
<1>2. /\ next \in [Descs -> Descs \cup {NoDesc}] /\ more \in [Descs -> BOOLEAN]
      /\ free_head \in Descs \cup {NoDesc}
      /\ avail_idx \in Indices /\ seen_idx \in Indices
      /\ last_used_idx \in Indices /\ used_idx \in Indices
      /\ avail \in [Descs -> Descs] /\ used \in [Descs -> Descs]
  BY <1>1 DEF QueueInv, QueueTypeOK
<1>3. ChainLen[user] \in 1 .. 3 /\ Links = 1 .. ChainLen[user]
  BY DEF ChainLen, Links
<1>4. InFlight = (Avl \cup Working) \cup Usd /\ InFlight \subseteq Descs
  BY DEF QueueInv, FlightInv, InFlight, Avl, Usd
<1>5. \A h : Link(h, 1) = h
  BY DEF Link
<1>6. QED
  BY <1>1, <1>2, <1>3, <1>4, <1>5

\* The rings after a step that leaves the number of descriptors alone.
LEMMA RingsNext ==
  ASSUME num' = num
  PROVE  /\ Descs' = Descs
         /\ Avl' = Between(avail', seen_idx', avail_idx')
         /\ Usd' = Between(used', last_used_idx', used_idx')
         /\ Once(avail, seen_idx, avail_idx)' <=> Once(avail', seen_idx', avail_idx')
         /\ Once(used, last_used_idx, used_idx)' <=> Once(used', last_used_idx', used_idx')
         /\ InFlight' = (Avl' \cup Working') \cup Usd'
<1>1. Descs' = Descs
  BY DEF Descs
<1>2. Avl' = Between(avail', seen_idx', avail_idx')
  BY DEF Avl, Between
<1>3. Usd' = Between(used', last_used_idx', used_idx')
  BY DEF Usd, Between
<1>4. Once(avail, seen_idx, avail_idx)' <=> Once(avail', seen_idx', avail_idx')
  BY DEF Once, Entry, Dist
<1>5. Once(used, last_used_idx, used_idx)' <=> Once(used', last_used_idx', used_idx')
  BY DEF Once, Entry, Dist
<1>6. InFlight' = (Avl' \cup Working') \cup Usd'
  BY DEF InFlight, Avl, Usd
<1>7. QED
  BY <1>1, <1>2, <1>3, <1>4, <1>5, <1>6

\* What virtqueue_add_chain does to a queue: head begins the new chain.
Adds(head, n, f, l) ==
  /\ FreeIs(n, f) /\ SharedOut(n, f) /\ l \in 1 .. 3 /\ l = ChainLen[user] /\ l <= n
  /\ head = f[1] /\ head = free_head /\ head \in Descs /\ head \notin InFlight
  /\ num' = num /\ seen_idx' = seen_idx /\ last_used_idx' = last_used_idx
  /\ used_idx' = used_idx /\ used' = used
  /\ more' = [d \in Descs |-> IF d \in {f[j] : j \in 1 .. l} THEN d # f[l] ELSE more[d]]
  /\ free_head' = IF l = n THEN NoDesc ELSE f[l + 1]
  /\ next' = [next EXCEPT ![f[l]] = 0]
  /\ avail' = [avail EXCEPT ![avail_idx % num] = head]
  /\ avail_idx' = (avail_idx + 1) % IdxMod

\* What virtqueue_add_chain does, for a free list f and a chain of length l.
LEMMA AddFacts ==
  ASSUME QueueInv, user \in DOMAIN ChainLen, HasRoom(ChainLen[user]), AddChain(ChainLen[user])
  PROVE  \E head, n, f, l : Adds(head, n, f, l)
<1>1. PICK n, f : FreeIs(n, f) /\ SharedOut(n, f)
  BY DEF QueueInv, FreeInv
<1>2. PICK l : l = ChainLen[user]
  OBVIOUS
<1>3. l \in 1 .. 3 /\ Links = 1 .. l
  BY <1>2, QueueFacts
<1>4. l <= n /\ FreeChain(l) = Prefix(f, l)
  <2>1. l \in Nat
    BY <1>3
  <2>2. QED
    BY <1>1, <1>2, <2>1, RoomFacts
<1>5. PICK chain : chain = FreeChain(l)
  OBVIOUS
<1>6. Range(chain) = {f[j] : j \in 1 .. l} /\ chain[1] = f[1] /\ Last(chain) = f[l]
  <2>1. chain = [j \in 1 .. l |-> f[j]]
    BY <1>4, <1>5 DEF Prefix
  <2>2. Last(chain) = f[l]
    <3>1. l \in Nat /\ l # 0
      BY <1>3
    <3>2. QED
      BY <1>4, <1>5, <3>1, PrefixLast
  <2>3. QED
    BY <1>3, <2>1, <2>2 DEF Range
<1>7. PICK head : head = f[1]
  OBVIOUS
<1>8. head = free_head /\ head \in Descs /\ n \in Nat \ {0} /\ next[f[l]] = IF l = n THEN NoDesc ELSE f[l + 1]
  <2>1. n \in Nat /\ 1 \in 1 .. n /\ l \in 1 .. n /\ n # 0
    BY <1>1, <1>3, <1>4 DEF FreeIs
  <2>2. QED
    BY <1>1, <1>7, <2>1 DEF FreeIs
<1>9. head \notin InFlight
  <2>1. 1 \in Links /\ 1 \in 1 .. n
    BY <1>3, <1>8
  <2>2. \A h \in InFlight : Link(h, 1) # f[1]
    BY <1>1, <2>1 DEF SharedOut
  <2>3. QED
    BY <1>7, <2>2, QueueFacts
<1>10. /\ more' = [d \in Descs |-> IF d \in Range(chain) THEN d # Last(chain) ELSE more[d]]
       /\ free_head' = next[Last(chain)]
       /\ next' = [next EXCEPT ![Last(chain)] = 0]
       /\ avail' = [avail EXCEPT ![avail_idx % num] = chain[1]]
       /\ avail_idx' = (avail_idx + 1) % IdxMod
       /\ UNCHANGED <<num, last_used_idx, used_idx, used, seen_idx>>
  BY <1>2, <1>5 DEF AddChain
<1>11. Adds(head, n, f, l)
  BY <1>1, <1>2, <1>3, <1>4, <1>6, <1>7, <1>8, <1>9, <1>10 DEF Adds
<1>12. QED
  BY <1>11

\* The chains after that.
LEMMA AddLinks ==
  ASSUME QueueInv, user \in DOMAIN ChainLen, NEW head, NEW n, NEW f, NEW l, Adds(head, n, f, l)
  PROVE  /\ \A i \in 1 .. l : Link(head, i)' = f[i] /\ f[i] \in Descs
         /\ \A g \in InFlight : \A i \in 1 .. l : Link(g, i)' = Link(g, i)
         /\ \A d \in Descs : d # f[l] => next'[d] = next[d]
<1>1. /\ l \in 1 .. 3 /\ l <= n /\ n \in Nat /\ head = f[1] /\ Links = 1 .. l
      /\ next' = [next EXCEPT ![f[l]] = 0]
      /\ \A i, j \in 1 .. n : f[i] = f[j] => i = j
      /\ \A i \in 1 .. n : f[i] \in Descs
      /\ \A i \in 1 .. n : next[f[i]] = IF i = n THEN NoDesc ELSE f[i + 1]
  BY QueueFacts DEF Adds, FreeIs
<1>2. \A d \in Descs : d # f[l] => next'[d] = next[d]
  BY <1>1, QueueFacts
<1>3. \A i \in 1 .. l : i \in 1 .. n /\ f[i] \in Descs /\ (i # l => f[i] # f[l])
  <2>1. \A i \in 1 .. l : i \in 1 .. n
    BY <1>1
  <2>2. l \in 1 .. n
    BY <1>1
  <2>3. QED
    BY <1>1, <2>1, <2>2
<1>4. l >= 2 => next'[f[1]] = f[2]
  <2>1. l >= 2 => 1 \in 1 .. l /\ 1 # l /\ 1 # n /\ 1 \in 1 .. n /\ 1 + 1 = 2
    BY <1>1
  <2>2. QED
    BY <1>1, <1>2, <1>3, <2>1
<1>5. l >= 3 => next'[f[2]] = f[3]
  <2>1. l >= 3 => 2 \in 1 .. l /\ 2 # l /\ 2 # n /\ 2 \in 1 .. n /\ 2 + 1 = 3
    BY <1>1
  <2>2. QED
    BY <1>1, <1>2, <1>3, <2>1
<1>6. ASSUME NEW i \in 1 .. l PROVE Link(head, i)' = f[i]
  <2>1. Link(head, i)' = IF i = 1 THEN head ELSE IF i = 2 THEN next'[head] ELSE next'[next'[head]]
    BY DEF Link
  <2>2. i \in {1, 2, 3} /\ (i = 2 => l >= 2) /\ (i = 3 => l >= 2 /\ l >= 3)
    BY <1>1
  <2>3. QED
    BY <1>1, <1>4, <1>5, <2>1, <2>2
<1>7. ASSUME NEW g \in InFlight, NEW i \in 1 .. l PROVE Link(g, i)' = Link(g, i)
  <2>1. l \in 1 .. n
    BY <1>1
  <2>2. \A j \in 1 .. l : Link(g, j) # f[l] /\ Link(g, j) \in Descs
    BY <1>1, <2>1 DEF Adds, SharedOut, QueueInv, ChainsInv
  <2>3. 1 \in 1 .. l /\ (i \in {2, 3} => 2 \in 1 .. l) /\ i \in {1, 2, 3}
    BY <1>1
  <2>4. next'[g] = next[g]
    <3>1. g \in Descs /\ g # f[l]
      BY <2>2, <2>3, QueueFacts
    <3>2. QED
      BY <1>2, <3>1
  <2>5. i \in {2, 3} => next'[next[g]] = next[next[g]]
    <3>1. Link(g, 2) = next[g]
      BY DEF Link
    <3>2. i \in {2, 3} => next[g] \in Descs /\ next[g] # f[l]
      BY <2>2, <2>3, <3>1
    <3>3. QED
      BY <1>2, <3>2
  <2>6. QED
    BY <2>3, <2>4, <2>5 DEF Link
<1>8. QED
  BY <1>2, <1>3, <1>6, <1>7

\* The chains that are in one place change with the rings only.
Flights(a, w, u) ==
  /\ Avl' = a /\ Working' = w /\ Usd' = u /\ InFlight' = (a \cup w) \cup u

\* virtqueue_add_chain leaves the queue intact.
LEMMA AddKeeps ==
  ASSUME QueueInv, user \in DOMAIN ChainLen, NEW head, NEW n, NEW f, NEW l, Adds(head, n, f, l),
         user' = user, jobs' = jobs
  PROVE  QueueInv' /\ Flights(Avl \cup {head}, Working, Usd)
<1>1. /\ num' = num /\ num \in QueueSizes /\ Links = 1 .. l /\ l \in 1 .. 3 /\ l <= n /\ n \in Nat
      /\ l = ChainLen[user] /\ head \in Descs /\ head \notin InFlight
      /\ head = f[1] /\ 1 \in 1 .. l
  BY QueueFacts DEF Adds, FreeIs
<1>2. Links' = Links /\ Working' = Working
  BY DEF Links, Working
<1>3. Puts(avail, seen_idx, avail_idx, head, avail', avail_idx')
  <2>1. Once(avail, seen_idx, avail_idx) /\ head \notin Between(avail, seen_idx, avail_idx)
    BY <1>1 DEF QueueInv, FlightInv, InFlight
  <2>2. QED
    BY <1>1, <2>1, QueueFacts, RingPut DEF Adds
<1>4. Flights(Avl \cup {head}, Working, Usd)
  <2>1. Avl' = Avl \cup {head}
    BY <1>1, <1>3, RingsNext DEF Puts, Avl, Adds
  <2>2. Usd' = Usd
    BY <1>1, RingsNext DEF Adds, Usd
  <2>3. QED
    BY <1>1, <1>2, <2>1, <2>2, RingsNext DEF Flights
<1>5. InFlight' = InFlight \cup {head}
  BY <1>4, QueueFacts DEF Flights
<1>6. FlightInv'
  <2>1. Once(avail, seen_idx, avail_idx)'
    BY <1>1, <1>3, RingsNext DEF Puts, Adds
  <2>2. Once(used, last_used_idx, used_idx)'
    BY <1>1, RingsNext DEF Adds, QueueInv, FlightInv
  <2>3. head \notin Working /\ head \notin Usd
    BY <1>1, QueueFacts
  <2>4. Avl' \cap Working' = {} /\ Avl' \cap Usd' = {} /\ Working' \cap Usd' = {}
    BY <1>4, <2>3 DEF QueueInv, FlightInv, Flights
  <2>5. InFlight' \subseteq Descs'
    BY <1>1, <1>5, QueueFacts, RingsNext
  <2>6. IsFiniteSet(jobs') /\ \A i, j \in jobs' : i.head = j.head => i = j
    BY DEF QueueInv, FlightInv
  <2>7. QED
    BY <2>1, <2>2, <2>4, <2>5, <2>6 DEF FlightInv
<1>7. /\ \A i \in 1 .. l : Link(head, i)' = f[i] /\ f[i] \in Descs
      /\ \A g \in InFlight : \A i \in 1 .. l : Link(g, i)' = Link(g, i)
      /\ \A d \in Descs : d # f[l] => next'[d] = next[d]
  BY AddLinks
<1>8. /\ \A g \in InFlight : \A i \in 1 .. l, j \in 1 .. n : Link(g, i) # f[j]
      /\ \A i, j \in 1 .. n : f[i] = f[j] => i = j
      /\ \A i \in 1 .. n : f[i] \in Descs
      /\ 1 .. l \subseteq 1 .. n
  BY <1>1 DEF Adds, SharedOut, FreeIs
<1>9. ChainsInv'
  <2>1. ASSUME NEW i \in 1 .. l
        PROVE  Link(head, i)' \in Descs /\ more'[Link(head, i)'] = (i < l)
    <3>1. more'[f[i]] = (f[i] # f[l])
      BY <1>7, <2>1 DEF Adds
    <3>2. (f[i] # f[l]) = (i < l)
      BY <1>1, <1>8, <2>1
    <3>3. QED
      BY <1>7, <3>1, <3>2
  <2>2. ASSUME NEW g \in InFlight, NEW i \in 1 .. l
        PROVE  Link(g, i)' \in Descs /\ more'[Link(g, i)'] = (i < l)
    <3>1. Link(g, i) \in Descs /\ more[Link(g, i)] = (i < l)
      BY <1>1 DEF QueueInv, ChainsInv
    <3>2. Link(g, i) \notin {f[j] : j \in 1 .. l}
      BY <1>8
    <3>3. more'[Link(g, i)] = more[Link(g, i)]
      BY <3>1, <3>2 DEF Adds
    <3>4. QED
      BY <1>7, <3>1, <3>3
  <2>3. ASSUME NEW g \in InFlight \cup {head}, NEW h \in InFlight \cup {head},
               NEW i \in 1 .. l, NEW j \in 1 .. l, Link(g, i)' = Link(h, j)'
        PROVE  g = h /\ i = j
    <3>1. CASE g = head /\ h = head
      BY <1>7, <1>8, <2>3, <3>1
    <3>2. CASE g = head /\ h # head
      BY <1>7, <1>8, <2>3, <3>2
    <3>3. CASE g # head /\ h = head
      BY <1>7, <1>8, <2>3, <3>3
    <3>4. CASE g # head /\ h # head
      <4>1. g \in InFlight /\ h \in InFlight /\ Link(g, i) = Link(h, j)
        BY <1>7, <2>3, <3>4
      <4>2. QED
        BY <1>1, <4>1 DEF QueueInv, ChainsInv
    <3>5. QED
      BY <3>1, <3>2, <3>3, <3>4
  <2>4. ASSUME NEW h \in InFlight', NEW i \in Links'
        PROVE  Link(h, i)' \in Descs' /\ more'[Link(h, i)'] = (i < ChainLen[user'])
    BY <1>1, <1>2, <1>5, <2>1, <2>2, RingsNext
  <2>5. QED
    BY <1>1, <1>2, <1>5, <2>3, <2>4 DEF ChainsInv
<1>10. FreeInv'
  <2> DEFINE k == n - l
             e == [j \in 1 .. k |-> f[l + j]]
  <2>1. k \in Nat /\ \A j \in 1 .. k : l + j \in 1 .. n /\ l + j \notin 1 .. l /\ e[j] = f[l + j]
    BY <1>1
  <2>2. \A j \in 1 .. k : e[j] \in Descs /\ e[j] # f[l]
    <3>1. l \in 1 .. n /\ l \in 1 .. l
      BY <1>1
    <3>2. QED
      BY <1>8, <2>1, <3>1
  <2>3. FreeIs(k, e)'
    <3>1. e \in [1 .. k -> Descs]
      BY <2>2
    <3>2. \A i, j \in 1 .. k : e[i] = e[j] => i = j
      <4>1. ASSUME NEW i \in 1 .. k, NEW j \in 1 .. k, e[i] = e[j] PROVE i = j
        <5>1. l + i = l + j
          BY <1>8, <2>1, <4>1
        <5>2. QED
          BY <1>1, <5>1
      <4>2. QED
        BY <4>1
    <3>3. free_head' = IF k = 0 THEN NoDesc ELSE e[1]
      <4>1. free_head' = IF l = n THEN NoDesc ELSE f[l + 1]
        BY DEF Adds
      <4>2. k = 0 <=> l = n
        BY <1>1
      <4>3. k # 0 => e[1] = f[l + 1]
        BY <2>1
      <4>4. QED
        BY <4>1, <4>2, <4>3
    <3>4. ASSUME NEW i \in 1 .. k PROVE next'[e[i]] = IF i = k THEN NoDesc ELSE e[i + 1]
      <4>1. next'[e[i]] = next[e[i]]
        BY <1>7, <2>2
      <4>2. next[f[l + i]] = IF l + i = n THEN NoDesc ELSE f[(l + i) + 1]
        BY <2>1 DEF Adds, FreeIs
      <4>3. (l + i = n <=> i = k) /\ (l + i) + 1 = l + (i + 1) /\ (i # k => i + 1 \in 1 .. k)
        BY <1>1
      <4>4. i # k => e[i + 1] = f[l + (i + 1)]
        BY <4>3
      <4>5. QED
        BY <2>1, <4>1, <4>2, <4>3, <4>4
    <3> HIDE DEF e, k
    <3>5. QED
      BY <1>1, <2>1, <3>1, <3>2, <3>3, <3>4, RingsNext DEF FreeIs
  <2>4. SharedOut(k, e)'
    <3>1. ASSUME NEW h \in InFlight', NEW i \in Links', NEW j \in 1 .. k PROVE Link(h, i)' # e[j]
      <4>1. i \in 1 .. l
        BY <1>1, <1>2
      <4>2. CASE h = head
        <5>1. Link(h, i)' = f[i] /\ i \in 1 .. n /\ i # l + j
          BY <1>7, <1>8, <2>1, <4>1, <4>2
        <5>2. QED
          BY <1>8, <2>1, <5>1
      <4>3. CASE h # head
        <5>1. h \in InFlight /\ Link(h, i)' = Link(h, i)
          BY <1>5, <1>7, <4>1, <4>3
        <5>2. QED
          BY <1>8, <2>1, <4>1, <5>1
      <4>4. QED
        BY <4>2, <4>3
    <3>2. ASSUME NEW d \in Descs
          PROVE  \/ \E j \in 1 .. k : e[j] = d
                 \/ \E h \in InFlight' : \E i \in Links' : Link(h, i)' = d
      <4>1. CASE \E h \in InFlight : \E i \in Links : Link(h, i) = d
        <5>1. PICK h \in InFlight, i \in Links : Link(h, i) = d
          BY <4>1
        <5>2. h \in InFlight' /\ i \in Links' /\ Link(h, i)' = d
          BY <1>1, <1>2, <1>5, <1>7, <5>1
        <5>3. QED
          BY <5>2
      <4>2. CASE \E j \in 1 .. n : f[j] = d
        <5>1. PICK j \in 1 .. n : f[j] = d
          BY <4>2
        <5>2. CASE j \in 1 .. l
          <6>1. head \in InFlight' /\ j \in Links' /\ Link(head, j)' = d
            BY <1>1, <1>2, <1>5, <1>7, <5>1, <5>2
          <6>2. QED
            BY <6>1
        <5>3. CASE j \notin 1 .. l
          <6>1. j - l \in 1 .. k /\ l + (j - l) = j
            BY <1>1, <5>3
          <6>2. e[j - l] = d
            BY <5>1, <6>1
          <6>3. QED
            BY <6>1, <6>2
        <5>4. QED
          BY <5>2, <5>3
      <4>3. QED
        BY <4>1, <4>2 DEF Adds, SharedOut
    <3> HIDE DEF e, k
    <3>3. QED
      BY <1>1, <3>1, <3>2, RingsNext DEF SharedOut
  <2>5. k \in 0 .. num' /\ e \in [1 .. k -> Descs']
    <3>1. k \in 0 .. n /\ n \in 0 .. num /\ num \in Nat
      BY <1>1, FreeFits, QueueFacts DEF Adds
    <3>2. QED
      BY <1>1, <2>2, <3>1, RingsNext
  <2> HIDE DEF e, k
  <2>6. QED
    BY <2>3, <2>4, <2>5 DEF FreeInv
<1>11. QueueTypeOK'
  <2>1. more' \in [Descs -> BOOLEAN]
    BY QueueFacts DEF Adds
  <2>2. next' \in [Descs -> Descs \cup {NoDesc}]
    BY QueueFacts DEF Adds
  <2>3. avail' \in [Descs -> Descs] /\ avail_idx' \in Indices
    BY <1>3 DEF Puts
  <2>4. free_head' \in Descs \cup {NoDesc}
    <3>1. l # n => l + 1 \in 1 .. n
      BY <1>1
    <3>2. QED
      BY <1>8, <3>1 DEF Adds
  <2>5. used' \in [Descs -> Descs] /\ seen_idx' \in Indices /\ last_used_idx' \in Indices
        /\ used_idx' \in Indices
    BY QueueFacts DEF Adds
  <2>6. QED
    BY <1>1, <2>1, <2>2, <2>3, <2>4, <2>5, RingsNext DEF QueueTypeOK
<1>12. QED
  BY <1>1, <1>4, <1>6, <1>9, <1>10, <1>11 DEF QueueInv

-----------------------------------------------------------------------------
\* What virtqueue_get_used does: the chain of head goes to the free list.
Gets(head, n, f, l) ==
  /\ FreeIs(n, f) /\ SharedOut(n, f) /\ l \in 1 .. 3 /\ l = ChainLen[user]
  /\ head \in Usd /\ head \in InFlight
  /\ num' = num /\ more' = more /\ avail_idx' = avail_idx /\ avail' = avail
  /\ used_idx' = used_idx /\ used' = used /\ seen_idx' = seen_idx
  /\ Takes(used, last_used_idx, used_idx, head, last_used_idx')
  /\ next' \in [Descs -> Descs \cup {NoDesc}]
  /\ next'[Link(head, 1)] = free_head
  /\ \A i \in 2 .. l : next'[Link(head, i)] = Link(head, i - 1)
  /\ \A d \in Descs : (\A i \in 1 .. l : d # Link(head, i)) => next'[d] = next[d]
  /\ free_head' = Link(head, l)

\* What virtqueue_get_used does, for a free list f and a chain of length l.
LEMMA GetFacts ==
  ASSUME QueueInv, user \in DOMAIN ChainLen, HasUsed, GetUsed
  PROVE  \E n, f, l : Gets(used[last_used_idx % num], n, f, l)
<1>1. PICK n, f : FreeIs(n, f) /\ SharedOut(n, f)
  BY DEF QueueInv, FreeInv
<1>2. PICK l, head : l = ChainLen[user] /\ head = used[last_used_idx % num]
  OBVIOUS
<1>3. l \in 1 .. 3 /\ Links = 1 .. l
  BY <1>2, QueueFacts
<1>4. Takes(used, last_used_idx, used_idx, head, last_used_idx')
  <2>1. /\ last_used_idx # used_idx /\ last_used_idx' = (last_used_idx + 1) % IdxMod
        /\ Once(used, last_used_idx, used_idx)
    BY DEF HasUsed, GetUsed, QueueInv, FlightInv
  <2>2. QED
    BY <1>2, <2>1, QueueFacts, RingTake
<1>5. head \in Usd /\ head \in InFlight
  BY <1>4, QueueFacts DEF Takes, Usd
<1>6. PICK c : c = ChainOf(head)
  OBVIOUS
<1>7. c = [i \in 1 .. l |-> Link(head, i)] /\ Range(c) = {Link(head, i) : i \in 1 .. l} /\ Last(c) = Link(head, l)
  <2>1. c = Prefix(Links3(head), l) /\ Range(c) = {Link(head, i) : i \in 1 .. l}
    BY <1>2, <1>3, <1>5, <1>6, FlightChains
  <2>2. \A i \in 1 .. l : Links3(head)[i] = Link(head, i)
    BY <1>3 DEF Links3
  <2>3. c = [i \in 1 .. l |-> Link(head, i)]
    BY <2>1, <2>2 DEF Prefix
  <2>4. l \in Nat /\ l # 0 /\ l \in 1 .. l
    BY <1>3
  <2>5. Last(c) = Links3(head)[l]
    BY <2>1, <2>4, PrefixLast
  <2>6. QED
    BY <2>1, <2>2, <2>3, <2>4, <2>5
<1>8. /\ \A i \in 1 .. l : Link(head, i) \in Descs
      /\ \A i, j \in 1 .. l : Link(head, i) = Link(head, j) => i = j
  BY <1>3, <1>5 DEF QueueInv, ChainsInv
<1>9. /\ next' = [d \in Descs |->
            IF d = c[1] THEN free_head
            ELSE IF d \in Range(c) THEN c[(CHOOSE i \in DOMAIN c : c[i] = d) - 1]
            ELSE next[d]]
      /\ free_head' = Last(c)
      /\ last_used_idx' = (last_used_idx + 1) % IdxMod
      /\ UNCHANGED <<num, more, avail_idx, avail, used_idx, used, seen_idx>>
  BY <1>2, <1>6 DEF GetUsed
<1>10. ASSUME NEW i \in 2 .. l
       PROVE  next'[Link(head, i)] = Link(head, i - 1)
  <2>1. i \in 1 .. l /\ 1 \in 1 .. l /\ i # 1 /\ i - 1 \in 1 .. l
    BY <1>3
  <2>2. PICK j : j = CHOOSE m \in DOMAIN c : c[m] = Link(head, i)
    OBVIOUS
  <2>3. j \in 1 .. l /\ Link(head, j) = Link(head, i)
    <3>1. DOMAIN c = 1 .. l /\ c[i] = Link(head, i)
      BY <1>7, <2>1
    <3>2. j \in DOMAIN c /\ c[j] = Link(head, i)
      BY <2>1, <2>2, <3>1
    <3>3. QED
      BY <1>7, <3>1, <3>2
  <2>4. j = i
    BY <1>8, <2>1, <2>3
  <2>5. Link(head, i) # c[1] /\ Link(head, i) \in Range(c) /\ c[i - 1] = Link(head, i - 1)
        /\ Link(head, i) \in Descs
    BY <1>7, <1>8, <2>1
  <2>6. QED
    BY <1>9, <2>2, <2>4, <2>5
<1>11. next'[Link(head, 1)] = free_head
  BY <1>3, <1>7, <1>8, <1>9
<1>12. \A d \in Descs : (\A i \in 1 .. l : d # Link(head, i)) => next'[d] = next[d]
  BY <1>3, <1>7, <1>9
<1>13. next' \in [Descs -> Descs \cup {NoDesc}]
  <2>1. ASSUME NEW d \in Descs PROVE next'[d] \in Descs \cup {NoDesc}
    <3>1. CASE \A i \in 1 .. l : d # Link(head, i)
      BY <1>12, <3>1, QueueFacts
    <3>2. CASE d = Link(head, 1)
      BY <1>11, <3>2, QueueFacts
    <3>3. ASSUME NEW i \in 2 .. l, d = Link(head, i) PROVE next'[d] \in Descs
      <4>1. i - 1 \in 1 .. l
        BY <1>3
      <4>2. QED
        BY <1>8, <1>10, <3>3, <4>1
    <3>4. \A i \in 1 .. l : i = 1 \/ i \in 2 .. l
      BY <1>3
    <3>5. QED
      BY <3>1, <3>2, <3>3, <3>4
  <2>2. next' = [d \in Descs |-> next'[d]]
    BY <1>9
  <2>3. QED
    BY <2>1, <2>2
<1>14. Gets(head, n, f, l)
  BY <1>1, <1>2, <1>3, <1>4, <1>5, <1>7, <1>9, <1>10, <1>11, <1>12, <1>13 DEF Gets
<1>15. QED
  BY <1>2, <1>14

\* virtqueue_get_used leaves the queue intact.
LEMMA GetKeeps ==
  ASSUME QueueInv, user \in DOMAIN ChainLen, NEW head, NEW n, NEW f, NEW l, Gets(head, n, f, l),
         user' = user, jobs' = jobs
  PROVE  QueueInv' /\ Flights(Avl, Working, Usd \ {head})
<1>1. /\ num' = num /\ num \in QueueSizes /\ Links = 1 .. l /\ l \in 1 .. 3 /\ n \in Nat
      /\ l = ChainLen[user] /\ head \in Descs /\ head \in InFlight /\ head \in Usd
      /\ 1 \in 1 .. l /\ l \in 1 .. l
  BY QueueFacts DEF Gets, FreeIs
<1>2. Links' = Links /\ Working' = Working
  BY DEF Links, Working
<1>3. Takes(used, last_used_idx, used_idx, head, last_used_idx')
  BY DEF Gets
<1>4. Flights(Avl, Working, Usd \ {head})
  <2>1. Usd' = Usd \ {head}
    BY <1>1, <1>3, RingsNext DEF Takes, Usd, Gets
  <2>2. Avl' = Avl
    BY <1>1, RingsNext DEF Gets, Avl
  <2>3. QED
    BY <1>1, <1>2, <2>1, <2>2, RingsNext DEF Flights
<1>5. InFlight' = InFlight \ {head}
  BY <1>1, <1>4, QueueFacts DEF Flights, QueueInv, FlightInv
<1>6. FlightInv'
  <2>1. Once(used, last_used_idx, used_idx)'
    BY <1>1, <1>3, RingsNext DEF Takes, Gets
  <2>2. Once(avail, seen_idx, avail_idx)'
    BY <1>1, RingsNext DEF Gets, QueueInv, FlightInv
  <2>3. Avl' \cap Working' = {} /\ Avl' \cap Usd' = {} /\ Working' \cap Usd' = {}
    BY <1>4 DEF QueueInv, FlightInv, Flights
  <2>4. InFlight' \subseteq Descs'
    BY <1>1, <1>5, QueueFacts, RingsNext
  <2>5. IsFiniteSet(jobs') /\ \A i, j \in jobs' : i.head = j.head => i = j
    BY DEF QueueInv, FlightInv
  <2>6. QED
    BY <2>1, <2>2, <2>3, <2>4, <2>5 DEF FlightInv
<1>7. /\ \A g \in InFlight : \A i \in 1 .. l : Link(g, i) \in Descs /\ more[Link(g, i)] = (i < l)
      /\ \A g, h \in InFlight : \A i, j \in 1 .. l : Link(g, i) = Link(h, j) => g = h /\ i = j
  BY <1>1 DEF QueueInv, ChainsInv
<1>8. ASSUME NEW g \in InFlight, g # head, NEW i \in 1 .. l
      PROVE  Link(g, i)' = Link(g, i)
  <2>1. \A j \in 1 .. l : next'[Link(g, j)] = next[Link(g, j)]
    BY <1>1, <1>7, <1>8 DEF Gets
  <2>2. 1 \in 1 .. l /\ (i \in {2, 3} => 2 \in 1 .. l) /\ i \in {1, 2, 3}
    BY <1>1
  <2>3. next'[g] = next[g]
    BY <2>1, <2>2, QueueFacts
  <2>4. i \in {2, 3} => next'[next[g]] = next[next[g]]
    <3>1. Link(g, 2) = next[g]
      BY DEF Link
    <3>2. QED
      BY <2>1, <2>2, <3>1
  <2>5. QED
    BY <2>2, <2>3, <2>4 DEF Link
<1>9. ChainsInv'
  <2>1. ASSUME NEW h \in InFlight', NEW i \in Links'
        PROVE  Link(h, i)' \in Descs' /\ more'[Link(h, i)'] = (i < ChainLen[user'])
    <3>1. h \in InFlight /\ h # head /\ i \in 1 .. l
      BY <1>1, <1>2, <1>5
    <3>2. Link(h, i)' = Link(h, i) /\ Link(h, i) \in Descs /\ more[Link(h, i)] = (i < l)
      BY <1>7, <1>8, <3>1
    <3>3. QED
      BY <1>1, <3>2, RingsNext DEF Gets
  <2>2. ASSUME NEW g \in InFlight', NEW h \in InFlight', NEW i \in Links', NEW j \in Links',
               Link(g, i)' = Link(h, j)'
        PROVE  g = h /\ i = j
    <3>1. g \in InFlight /\ g # head /\ h \in InFlight /\ h # head /\ i \in 1 .. l /\ j \in 1 .. l
      BY <1>1, <1>2, <1>5
    <3>2. Link(g, i) = Link(h, j)
      BY <1>8, <2>2, <3>1
    <3>3. QED
      BY <1>7, <3>1, <3>2
  <2>3. QED
    BY <2>1, <2>2 DEF ChainsInv
<1>10. /\ \A g \in InFlight : \A i \in 1 .. l, j \in 1 .. n : Link(g, i) # f[j]
       /\ \A i, j \in 1 .. n : f[i] = f[j] => i = j
       /\ \A i \in 1 .. n : f[i] \in Descs
       /\ \A i \in 1 .. n : next[f[i]] = IF i = n THEN NoDesc ELSE f[i + 1]
       /\ free_head = IF n = 0 THEN NoDesc ELSE f[1]
  BY <1>1 DEF Gets, SharedOut, FreeIs
<1>11. FreeInv'
  <2>0. PICK k, c : k = n + l /\ c = [i \in 1 .. l |-> Link(head, i)]
    OBVIOUS
  <2>1. k \in Nat /\ l \in Nat /\ n \in Nat
    BY <1>1, <2>0
  <2>2. /\ \A i \in 1 .. l : c[i] = Link(head, i) /\ c[i] \in Descs
        /\ \A i, j \in 1 .. l : c[i] = c[j] => i = j
        /\ \A i \in 1 .. l, j \in 1 .. n : c[i] # f[j]
        /\ \A i \in 2 .. l : next'[c[i]] = c[i - 1]
        /\ next'[c[1]] = free_head /\ free_head' = c[l]
        /\ \A d \in Descs : (\A i \in 1 .. l : d # c[i]) => next'[d] = next[d]
    <3>1. \A i \in 1 .. l : c[i] = Link(head, i) /\ c[i] \in Descs
      BY <1>1, <1>7, <2>0
    <3>2. \A i, j \in 1 .. l : c[i] = c[j] => i = j
      BY <1>1, <1>7, <3>1
    <3>3. \A i \in 1 .. l, j \in 1 .. n : c[i] # f[j]
      BY <1>1, <1>10, <3>1
    <3>4. \A i \in 2 .. l : i \in 1 .. l /\ i - 1 \in 1 .. l
      BY <2>1
    <3>5. \A i \in 2 .. l : next'[c[i]] = c[i - 1]
      BY <3>1, <3>4 DEF Gets
    <3>6. next'[c[1]] = free_head /\ free_head' = c[l]
      BY <1>1, <3>1 DEF Gets
    <3>7. \A d \in Descs : (\A i \in 1 .. l : d # c[i]) => next'[d] = next[d]
      BY <3>1 DEF Gets
    <3>8. QED
      BY <3>1, <3>2, <3>3, <3>5, <3>6, <3>7
  <2> DEFINE e == [j \in 1 .. k |-> IF j <= l THEN c[l + 1 - j] ELSE f[j - l]]
  <2>3. \A j \in 1 .. l : j \in 1 .. k /\ l + 1 - j \in 1 .. l /\ e[j] = c[l + 1 - j]
    BY <2>0, <2>1
  <2>4. \A j \in 1 .. k : j \notin 1 .. l => j - l \in 1 .. n /\ e[j] = f[j - l]
    BY <2>0, <2>1
  <2>10. e \in [1 .. k -> Descs]
    <3>1. ASSUME NEW j \in 1 .. k
          PROVE  (IF j <= l THEN c[l + 1 - j] ELSE f[j - l]) \in Descs
      <4>1. CASE j <= l
        <5>1. l + 1 - j \in 1 .. l
          BY <2>1, <4>1
        <5>2. QED
          BY <2>2, <4>1, <5>1
      <4>2. CASE ~(j <= l)
        <5>1. j - l \in 1 .. n
          BY <2>0, <2>1, <4>2
        <5>2. QED
          BY <1>10, <4>2, <5>1
      <4>3. QED
        BY <4>1, <4>2
    <3>2. QED
      BY <3>1
  <2> HIDE DEF e
  <2>5. FreeIs(k, e)'
    <3>1. e \in [1 .. k -> Descs]
      BY <2>10
    <3>2. ASSUME NEW i \in 1 .. k, NEW j \in 1 .. k, e[i] = e[j] PROVE i = j
      <4>1. CASE i \in 1 .. l /\ j \in 1 .. l
        <5>1. e[i] = c[l + 1 - i] /\ e[j] = c[l + 1 - j]
              /\ l + 1 - i \in 1 .. l /\ l + 1 - j \in 1 .. l
          BY <2>3, <4>1
        <5>2. l + 1 - i = l + 1 - j
          BY <2>2, <3>2, <5>1
        <5>3. QED
          BY <1>1, <4>1, <5>2
      <4>2. CASE i \in 1 .. l /\ j \notin 1 .. l
        BY <2>2, <2>3, <2>4, <3>2, <4>2
      <4>3. CASE i \notin 1 .. l /\ j \in 1 .. l
        BY <2>2, <2>3, <2>4, <3>2, <4>3
      <4>4. CASE i \notin 1 .. l /\ j \notin 1 .. l
        <5>1. i - l = j - l
          BY <1>10, <2>4, <3>2, <4>4
        <5>2. QED
          BY <2>1, <5>1
      <4>5. QED
        BY <4>1, <4>2, <4>3, <4>4
    <3>3. free_head' = IF k = 0 THEN NoDesc ELSE e[1]
      <4>1. k # 0 /\ l + 1 - 1 = l
        BY <1>1, <2>0
      <4>2. QED
        BY <1>1, <2>2, <2>3, <4>1
    <3>4. ASSUME NEW i \in 1 .. k PROVE next'[e[i]] = IF i = k THEN NoDesc ELSE e[i + 1]
      <4>1. CASE i \in 1 .. l /\ i # l
        <5>1. /\ l + 1 - i \in 2 .. l /\ i + 1 \in 1 .. l /\ i # k
              /\ l + 1 - (i + 1) = (l + 1 - i) - 1
          BY <1>1, <2>0, <4>1
        <5>2. next'[c[l + 1 - i]] = c[(l + 1 - i) - 1]
          BY <2>2, <5>1
        <5>3. e[i] = c[l + 1 - i] /\ e[i + 1] = c[(l + 1 - i) - 1]
          BY <2>3, <4>1, <5>1
        <5>4. QED
          BY <5>1, <5>2, <5>3
      <4>2. CASE i = l
        <5>1. e[l] = c[1] /\ (l = k <=> n = 0)
          <6>1. l + 1 - l = 1 /\ (l = k <=> n = 0)
            BY <1>1, <2>0
          <6>2. QED
            BY <1>1, <2>3, <6>1
        <5>2. n # 0 => e[l + 1] = f[1]
          <6>1. SUFFICES ASSUME n # 0 PROVE e[l + 1] = f[1]
            OBVIOUS
          <6>2. PICK m \in Nat : m = l + 1
            BY <2>1
          <6>3. m \in 1 .. k /\ m \notin 1 .. l /\ m - l = 1
            BY <1>1, <2>0, <2>1, <6>1, <6>2
          <6>4. e[m] = f[m - l]
            BY <2>4, <6>3
          <6>5. QED
            BY <6>2, <6>3, <6>4
        <5>3. QED
          BY <1>10, <2>2, <4>2, <5>1, <5>2
      <4>3. CASE i \notin 1 .. l
        <5>1. i - l \in 1 .. n /\ e[i] = f[i - l] /\ (i = k <=> i - l = n)
          BY <1>1, <2>0, <2>4, <4>3
        <5>2. next'[e[i]] = next[e[i]]
          <6>1. e[i] \in Descs /\ \A j \in 1 .. l : e[i] # c[j]
            BY <1>10, <2>2, <5>1
          <6>2. QED
            BY <2>2, <6>1
        <5>3. i # k => e[i + 1] = f[(i - l) + 1]
          <6>1. i # k => i + 1 \in 1 .. k /\ i + 1 \notin 1 .. l /\ (i + 1) - l = (i - l) + 1
            BY <1>1, <2>0, <4>3
          <6>2. QED
            BY <2>4, <6>1
        <5>4. next[f[i - l]] = IF i - l = n THEN NoDesc ELSE f[(i - l) + 1]
          BY <1>10, <5>1
        <5>5. QED
          BY <5>1, <5>2, <5>3, <5>4
      <4>4. QED
        BY <4>1, <4>2, <4>3
    <3>5. QED
      BY <1>1, <2>1, <3>1, <3>2, <3>3, <3>4, RingsNext DEF FreeIs
  <2>6. SharedOut(k, e)'
    <3>1. ASSUME NEW h \in InFlight', NEW i \in Links', NEW j \in 1 .. k PROVE Link(h, i)' # e[j]
      <4>1. h \in InFlight /\ h # head /\ i \in 1 .. l /\ Link(h, i)' = Link(h, i)
        BY <1>1, <1>2, <1>5, <1>8
      <4>2. CASE j \in 1 .. l
        <5>1. l + 1 - j \in 1 .. l /\ e[j] = Link(head, l + 1 - j)
          BY <2>2, <2>3, <4>2
        <5>2. QED
          BY <1>1, <1>7, <4>1, <5>1
      <4>3. CASE j \notin 1 .. l
        BY <1>10, <2>4, <4>1, <4>3
      <4>4. QED
        BY <4>2, <4>3
    <3>2. ASSUME NEW d \in Descs
          PROVE  \/ \E j \in 1 .. k : e[j] = d
                 \/ \E h \in InFlight' : \E i \in Links' : Link(h, i)' = d
      <4>1. CASE \E h \in InFlight : \E i \in Links : Link(h, i) = d
        <5>1. PICK h \in InFlight, i \in Links : Link(h, i) = d
          BY <4>1
        <5>2. CASE h # head
          <6>1. h \in InFlight' /\ i \in Links' /\ Link(h, i)' = d
            BY <1>1, <1>2, <1>5, <1>8, <5>1, <5>2
          <6>2. QED
            BY <6>1
        <5>3. CASE h = head
          <6>1. l + 1 - i \in 1 .. l /\ l + 1 - (l + 1 - i) = i
            BY <1>1
          <6>2. l + 1 - i \in 1 .. k /\ e[l + 1 - i] = d
            BY <2>2, <2>3, <5>1, <5>3, <6>1
          <6>3. QED
            BY <6>2
        <5>4. QED
          BY <5>2, <5>3
      <4>2. CASE \E j \in 1 .. n : f[j] = d
        <5>1. PICK j \in 1 .. n : f[j] = d
          BY <4>2
        <5>2. j + l \in 1 .. k /\ j + l \notin 1 .. l /\ (j + l) - l = j
          BY <1>1, <2>0
        <5>3. e[j + l] = d
          BY <2>4, <5>1, <5>2
        <5>4. QED
          BY <5>2, <5>3
      <4>3. QED
        BY <4>1, <4>2 DEF Gets, SharedOut
    <3>3. QED
      BY <1>1, <3>1, <3>2, RingsNext DEF SharedOut
  <2>7. num \in QueueSizes' /\ QueueSizes' = QueueSizes
    BY <1>1 DEF QueueSizes
  <2>8. k \in 0 .. num' /\ e \in [1 .. k -> Descs']
    <3>1. num' \in QueueSizes /\ FreeIs(k, e)'
      BY <1>1, <2>5
    <3>2. k \in Nat /\ e \in [1 .. k -> Descs] /\ \A i, j \in 1 .. k : e[i] = e[j] => i = j
      BY <2>1, <2>10, <3>1 DEF FreeIs
    <3>3. k <= num
      <4> DEFINE g == [m \in 0 .. k - 1 |-> e[m + 1]]
      <4>1. \A m \in 0 .. k - 1 : m + 1 \in 1 .. k
        BY <3>2
      <4>2. \A m \in 0 .. k - 1 : g[m] \in Descs
        BY <3>2, <4>1
      <4>3. ASSUME NEW m \in 0 .. k - 1, NEW p \in 0 .. k - 1, g[m] = g[p] PROVE m = p
        <5>1. m + 1 = p + 1
          BY <3>2, <4>1, <4>3
        <5>2. QED
          BY <5>1
      <4>4. IsFiniteSet(Descs) /\ Cardinality(Descs) = num
        BY <1>1, CountDescs
      <4> HIDE DEF g
      <4>5. k <= Cardinality(Descs)
        BY <3>2, <4>2, <4>3, <4>4, Pigeons
      <4>6. QED
        BY <4>4, <4>5
    <3>4. QED
      BY <1>1, <3>2, <3>3, QueueFacts, RingsNext
  <2>9. QED
    BY <2>5, <2>6, <2>8 DEF FreeInv
<1>12. QueueTypeOK'
  <2>1. free_head' \in Descs /\ next' \in [Descs -> Descs \cup {NoDesc}] /\ more' \in [Descs -> BOOLEAN]
    BY <1>1, <1>7, QueueFacts DEF Gets
  <2>2. /\ avail' \in [Descs -> Descs] /\ used' \in [Descs -> Descs] /\ seen_idx' \in Indices
        /\ avail_idx' \in Indices /\ used_idx' \in Indices /\ last_used_idx' \in Indices
    BY <1>3, QueueFacts DEF Gets, Takes
  <2>3. QED
    BY <1>1, <2>1, <2>2, RingsNext DEF QueueTypeOK
<1>13. QED
  BY <1>1, <1>4, <1>6, <1>9, <1>11, <1>12 DEF QueueInv

-----------------------------------------------------------------------------
\* The device leaves descriptors and free list alone.
LEMMA DeviceLeaves ==
  ASSUME QueueInv, user \in DOMAIN ChainLen, user' = user, InFlight' = InFlight,
         num' = num, next' = next, more' = more, free_head' = free_head
  PROVE  ChainsInv' /\ FreeInv'
<1>1. Descs' = Descs /\ Links' = Links /\ \A h, i : Link(h, i)' = Link(h, i)
  BY DEF Descs, Links, Link
<1>2. ChainsInv'
  BY <1>1 DEF QueueInv, ChainsInv
<1>3. FreeInv'
  <2>1. PICK n \in 0 .. num : \E f \in [1 .. n -> Descs] : FreeIs(n, f) /\ SharedOut(n, f)
    BY DEF QueueInv, FreeInv
  <2>2. PICK f \in [1 .. n -> Descs] : FreeIs(n, f) /\ SharedOut(n, f)
    BY <2>1
  <2>3. FreeIs(n, f)'
    BY <1>1, <2>2 DEF FreeIs
  <2>4. SharedOut(n, f)'
    BY <1>1, <2>2 DEF SharedOut
  <2>5. QED
    BY <1>1, <2>1, <2>2, <2>3, <2>4 DEF FreeInv
<1>4. QED
  BY <1>2, <1>3

\* The device takes a chain.
LEMMA FetchKeeps ==
  ASSUME QueueInv, user \in DOMAIN ChainLen, HasAvail, TakeAvail, NEW head, head = NextAvail,
         NEW o, jobs' = jobs \cup {[head |-> head, op |-> o]}, user' = user
  PROVE  QueueInv' /\ head \in Avl /\ Flights(Avl \ {head}, Working \cup {head}, Usd)
<1>1. /\ num' = num /\ next' = next /\ more' = more /\ free_head' = free_head
      /\ avail_idx' = avail_idx /\ avail' = avail /\ last_used_idx' = last_used_idx
      /\ used_idx' = used_idx /\ used' = used /\ seen_idx' = (seen_idx + 1) % IdxMod
  BY DEF TakeAvail
<1>2. Takes(avail, seen_idx, avail_idx, head, seen_idx')
  <2>1. seen_idx # avail_idx /\ Once(avail, seen_idx, avail_idx) /\ head = avail[seen_idx % num]
    BY DEF HasAvail, NextAvail, QueueInv, FlightInv
  <2>2. QED
    BY <1>1, <2>1, QueueFacts, RingTake
<1>3. head \in Avl /\ Avl' = Avl \ {head} /\ Usd' = Usd
  BY <1>1, <1>2, RingsNext DEF Takes, Avl, Usd
<1>4. PICK job : job = [head |-> head, op |-> o]
  OBVIOUS
<1>5. job.head = head /\ jobs' = jobs \cup {job}
  BY <1>4
<1>6. Working' = Working \cup {head}
  BY <1>5 DEF Working
<1>7. Flights(Avl \ {head}, Working \cup {head}, Usd)
  BY <1>1, <1>3, <1>6, RingsNext DEF Flights
<1>8. InFlight' = InFlight
  BY <1>3, <1>7, QueueFacts DEF Flights
<1>9. FlightInv'
  <2>1. Once(avail, seen_idx, avail_idx)'
    BY <1>1, <1>2, RingsNext DEF Takes
  <2>2. Once(used, last_used_idx, used_idx)'
    BY <1>1, RingsNext DEF QueueInv, FlightInv
  <2>3. Avl' \cap Working' = {} /\ Avl' \cap Usd' = {} /\ Working' \cap Usd' = {}
    BY <1>3, <1>6 DEF QueueInv, FlightInv
  <2>4. InFlight' \subseteq Descs'
    BY <1>1, <1>8, QueueFacts, RingsNext
  <2>5. IsFiniteSet(jobs')
    BY <1>5, FS_AddElement DEF QueueInv, FlightInv
  <2>6. \A i \in jobs : i.head # head
    BY <1>3 DEF QueueInv, FlightInv, Working
  <2>7. \A i, j \in jobs' : i.head = j.head => i = j
    BY <1>5, <2>6 DEF QueueInv, FlightInv
  <2>8. QED
    BY <2>1, <2>2, <2>3, <2>4, <2>5, <2>7 DEF FlightInv
<1>10. QueueTypeOK'
  BY <1>1, <1>2, QueueFacts, RingsNext DEF QueueTypeOK, Takes
<1>11. ChainsInv' /\ FreeInv'
  BY <1>1, <1>8, DeviceLeaves
<1>12. num' \in QueueSizes
  BY <1>1, QueueFacts
<1>13. QED
  BY <1>3, <1>7, <1>9, <1>10, <1>11, <1>12 DEF QueueInv

\* The device gives a chain back.
LEMMA PutKeeps ==
  ASSUME QueueInv, user \in DOMAIN ChainLen, NEW job \in jobs, NEW head, head = job.head,
         PutUsed(head), jobs' = jobs \ {job}, user' = user
  PROVE  /\ QueueInv' /\ head \in Working /\ Flights(Avl, Working \ {head}, Usd \cup {head})
         /\ Puts(used, last_used_idx, used_idx, head, used', used_idx')
<1>1. /\ num' = num /\ next' = next /\ more' = more /\ free_head' = free_head
      /\ avail_idx' = avail_idx /\ avail' = avail /\ last_used_idx' = last_used_idx
      /\ used' = [used EXCEPT ![used_idx % num] = head]
      /\ used_idx' = (used_idx + 1) % IdxMod /\ seen_idx' = seen_idx
  BY DEF PutUsed
<1>2. head \in Working /\ head \in Descs /\ head \notin Usd /\ head \notin Avl
  <2>1. head \in Working
    BY DEF Working
  <2>2. QED
    BY <2>1, QueueFacts DEF QueueInv, FlightInv
<1>3. Puts(used, last_used_idx, used_idx, head, used', used_idx')
  <2>1. Once(used, last_used_idx, used_idx) /\ head \notin Between(used, last_used_idx, used_idx)
    BY <1>2 DEF QueueInv, FlightInv, Usd
  <2>2. QED
    BY <1>1, <1>2, <2>1, QueueFacts, RingPut
<1>4. Avl' = Avl /\ Usd' = Usd \cup {head}
  BY <1>1, <1>3, RingsNext DEF Puts, Avl, Usd
<1>5. Working' = Working \ {head}
  <2>1. \A i \in jobs : i.head = head => i = job
    BY DEF QueueInv, FlightInv
  <2>2. QED
    BY <2>1 DEF Working
<1>6. Flights(Avl, Working \ {head}, Usd \cup {head})
  BY <1>1, <1>4, <1>5, RingsNext DEF Flights
<1>7. InFlight' = InFlight
  BY <1>2, <1>6, QueueFacts DEF Flights
<1>8. FlightInv'
  <2>1. Once(used, last_used_idx, used_idx)'
    BY <1>1, <1>3, RingsNext DEF Puts
  <2>2. Once(avail, seen_idx, avail_idx)'
    BY <1>1, RingsNext DEF QueueInv, FlightInv
  <2>3. Avl' \cap Working' = {} /\ Avl' \cap Usd' = {} /\ Working' \cap Usd' = {}
    BY <1>2, <1>4, <1>5 DEF QueueInv, FlightInv
  <2>4. InFlight' \subseteq Descs'
    BY <1>1, <1>7, QueueFacts, RingsNext
  <2>5. IsFiniteSet(jobs') /\ \A i, j \in jobs' : i.head = j.head => i = j
    BY FS_RemoveElement DEF QueueInv, FlightInv
  <2>6. QED
    BY <2>1, <2>2, <2>3, <2>4, <2>5 DEF FlightInv
<1>9. QueueTypeOK'
  BY <1>1, <1>3, QueueFacts, RingsNext DEF QueueTypeOK, Puts
<1>10. ChainsInv' /\ FreeInv'
  BY <1>1, <1>7, DeviceLeaves
<1>11. num' \in QueueSizes
  BY <1>1, QueueFacts
<1>12. QED
  BY <1>2, <1>3, <1>6, <1>8, <1>9, <1>10, <1>11 DEF QueueInv

-----------------------------------------------------------------------------
(* Where a driver is, and what its steps do to its queue.                  *)

\* Nobody has begun.
Fresh ==
  /\ pc = "idle" /\ jobs = {} /\ call = <<>> /\ todo = <<>> /\ effects = <<>>
  /\ filled = 0 /\ arrived = 0 /\ got = <<>>

PlaceInv ==
  /\ DriversTypeOK
  /\ addr = [d \in 0 .. MaxNum - 1 |-> addr[d]]
  /\ user \in Requesters => pc \in {"idle", "next", "poll"}
  /\ user \in Pools => pc \in {"idle", "fill", "copy", "post"}
  /\ pc = "fill" => filled < PoolCount
  /\ user = "nobody" => Fresh

DriverInv == PlaceInv /\ (user # "nobody" => QueueInv)

\* Who the driver at work is, and where it can be.
LEMMA UserFacts ==
  ASSUME DriverInv
  PROVE  /\ Requesters \cap Pools = {} /\ DOMAIN ChainLen = Requesters \cup Pools
         /\ user \in Requesters \cup Pools => user # "nobody"
         /\ user # "nobody" => QueueInv /\ user \in Requesters \cup Pools /\ user \in DOMAIN ChainLen
         /\ user \in Pools => ChainLen[user] = 1
         /\ pc = "fill" => user \in Pools
         /\ pc = "copy" => user \in Pools
         /\ pc = "post" => user \in Pools
         /\ pc = "next" => user \in Requesters
         /\ pc = "poll" => user \in Requesters
<1>1. Requesters \cap Pools = {} /\ DOMAIN ChainLen = Requesters \cup Pools
  BY DEF Requesters, Pools, ChainLen
<1>2. user \in Requesters \cup Pools => user # "nobody"
  BY DEF Requesters, Pools
<1>3. user \in Requesters \cup Pools \cup {"nobody"}
  BY DEF DriverInv, PlaceInv, DriversTypeOK
<1>4. user # "nobody" => QueueInv
  BY DEF DriverInv
<1>5. user \in Pools => ChainLen[user] = 1
  BY DEF Pools, ChainLen
<1>6. /\ user \in Requesters => pc \in {"idle", "next", "poll"}
      /\ user \in Pools => pc \in {"idle", "fill", "copy", "post"}
      /\ user = "nobody" => pc = "idle"
  BY DEF DriverInv, PlaceInv, Fresh
<1>7. QED
  BY <1>1, <1>2, <1>3, <1>4, <1>5, <1>6

\* The queue when a driver does something else.
LEMMA StayKeeps ==
  ASSUME QueueInv, user \in DOMAIN ChainLen, UNCHANGED <<queueVars, jobs, user>>
  PROVE  QueueInv' /\ Flights(Avl, Working, Usd)
<1>1. /\ num' = num /\ next' = next /\ more' = more /\ free_head' = free_head
      /\ avail_idx' = avail_idx /\ avail' = avail /\ last_used_idx' = last_used_idx
      /\ used_idx' = used_idx /\ used' = used /\ seen_idx' = seen_idx /\ jobs' = jobs
  BY DEF queueVars
<1>2. Working' = Working
  BY DEF Working
<1>3. Avl' = Avl /\ Usd' = Usd
  BY <1>1, RingsNext DEF Avl, Usd
<1>4. Flights(Avl, Working, Usd)
  BY <1>1, <1>2, <1>3, RingsNext DEF Flights
<1>5. InFlight' = InFlight
  BY <1>4, QueueFacts DEF Flights
<1>6. FlightInv'
  BY <1>1, <1>2, <1>3, <1>5, RingsNext DEF QueueInv, FlightInv
<1>7. QueueTypeOK'
  BY <1>1, QueueFacts, RingsNext DEF QueueTypeOK
<1>8. ChainsInv' /\ FreeInv'
  BY <1>1, <1>5, DeviceLeaves
<1>9. num' \in QueueSizes
  BY <1>1, QueueFacts
<1>10. QED
  BY <1>4, <1>6, <1>7, <1>8, <1>9 DEF QueueInv

\* What a step adds to a queue, by its head, or that it does not change one.
Added(head) ==
  /\ head = free_head /\ head \in Descs /\ head \in 0 .. MaxNum - 1 /\ head \notin InFlight
  /\ Flights(Avl \cup {head}, Working, Usd)
  /\ UNCHANGED <<num, used, used_idx, last_used_idx>>
Still == Flights(Avl, Working, Usd) /\ UNCHANGED <<num, used, used_idx, last_used_idx>>

\* The tables of the drivers (desc_to_rxbuf and others) have room for every
\* descriptor.
LEMMA DescsFit ==
  ASSUME num \in QueueSizes, NEW d \in Descs
  PROVE  d \in 0 .. MaxNum - 1
BY QueueAssumption DEF QueueSizes, Descs

\* virtqueue_add_chain adds one chain to those in flight.
LEMMA AddQueue ==
  ASSUME QueueInv, user \in DOMAIN ChainLen, HasRoom(ChainLen[user]), AddChain(ChainLen[user]),
         UNCHANGED <<user, jobs>>
  PROVE  QueueInv' /\ Added(free_head)
<1>1. PICK head, n, f, l : Adds(head, n, f, l)
  BY AddFacts
<1>2. QueueInv' /\ Flights(Avl \cup {head}, Working, Usd)
  BY <1>1, AddKeeps
<1>3. /\ head = free_head /\ head \in Descs /\ head \notin InFlight
      /\ UNCHANGED <<num, used, used_idx, last_used_idx>>
  BY <1>1 DEF Adds
<1>4. head \in 0 .. MaxNum - 1
  BY <1>3, QueueFacts, DescsFit
<1>5. QED
  BY <1>2, <1>3, <1>4 DEF Added

\* A request is submitted, or fails for want of descriptors.
LEMMA SubmitQueue ==
  ASSUME DriverInv, user \in Requesters, NEW op, Submit(op), UNCHANGED <<user, jobs>>
  PROVE  /\ QueueInv'
         /\ \/ /\ Added(free_head) /\ addr' = [addr EXCEPT ![free_head] = op.buf]
               /\ pc' = "poll" /\ answer' = answer
            \/ Still /\ addr' = addr /\ pc' = "idle" /\ answer' = "failed"
<1>1. QueueInv /\ user \in DOMAIN ChainLen
  BY UserFacts
<1>2. CASE HasRoom(ChainLen[user])
  <2>1. /\ AddChain(ChainLen[user]) /\ addr' = [addr EXCEPT ![free_head] = op.buf]
        /\ pc' = "poll" /\ answer' = answer
    BY <1>2 DEF Submit
  <2>2. QED
    BY <1>1, <1>2, <2>1, AddQueue
<1>3. CASE ~HasRoom(ChainLen[user])
  <2>1. UNCHANGED <<queueVars, addr>> /\ pc' = "idle" /\ answer' = "failed"
    BY <1>3 DEF Submit
  <2>2. UNCHANGED <<num, used, used_idx, last_used_idx>>
    BY <2>1 DEF queueVars
  <2>3. QED
    BY <1>1, <2>1, <2>2, StayKeeps DEF Still
<1>4. QED
  BY <1>2, <1>3

\* A buffer is posted, or is not for want of descriptors.
LEMMA PostQueue ==
  ASSUME DriverInv, user \in Pools, NEW i, PostBuffer(i), UNCHANGED <<user, jobs>>
  PROVE  /\ QueueInv'
         /\ \/ /\ HasRoom(1) /\ Added(free_head)
               /\ addr' = [addr EXCEPT ![free_head] = i]
               /\ slot_of' = [slot_of EXCEPT ![free_head] = i]
            \/ ~HasRoom(1) /\ Still /\ addr' = addr /\ slot_of' = slot_of
<1>1. QueueInv /\ user \in DOMAIN ChainLen /\ ChainLen[user] = 1
  BY UserFacts
<1>2. CASE HasRoom(1)
  <2>1. /\ AddChain(1) /\ addr' = [addr EXCEPT ![free_head] = i]
        /\ slot_of' = [slot_of EXCEPT ![free_head] = i]
    BY <1>2 DEF PostBuffer
  <2>2. QED
    BY <1>1, <1>2, <2>1, AddQueue
<1>3. CASE ~HasRoom(1)
  <2>1. UNCHANGED <<queueVars, addr, slot_of>>
    BY <1>3 DEF PostBuffer
  <2>2. UNCHANGED <<num, used, used_idx, last_used_idx>>
    BY <2>1 DEF queueVars
  <2>3. QED
    BY <1>1, <1>3, <2>1, <2>2, StayKeeps DEF Still
<1>4. QED
  BY <1>2, <1>3

\* A used buffer is taken out of the used ring.
GotUsed(head) ==
  /\ head \in Usd /\ head \in Descs /\ Flights(Avl, Working, Usd \ {head}) /\ num' = num /\ used' = used
  /\ used_idx' = used_idx /\ Takes(used, last_used_idx, used_idx, head, last_used_idx')

\* virtqueue_get_used takes one chain from those in flight.
LEMMA GetQueue ==
  ASSUME QueueInv, user \in DOMAIN ChainLen, HasUsed, GetUsed, UNCHANGED <<user, jobs>>
  PROVE  QueueInv' /\ GotUsed(used[last_used_idx % num])
<1>1. PICK head : head = used[last_used_idx % num]
  OBVIOUS
<1>2. PICK n, f, l : Gets(head, n, f, l)
  BY <1>1, GetFacts
<1>3. QueueInv' /\ Flights(Avl, Working, Usd \ {head})
  BY <1>2, GetKeeps
<1>4. head \in Usd /\ head \in Descs /\ num' = num /\ used' = used /\ used_idx' = used_idx
      /\ Takes(used, last_used_idx, used_idx, head, last_used_idx')
  BY <1>2, QueueFacts DEF Gets
<1>5. QED
  BY <1>1, <1>3, <1>4 DEF GotUsed

-----------------------------------------------------------------------------
(* The steps of the drivers and of the device.                             *)

\* Nobody works before somebody does.
LEMMA SomebodyWorks ==
  ASSUME DriverInv, DriversNext
  PROVE  /\ user # "nobody" /\ QueueInv /\ user \in DOMAIN ChainLen
         /\ user' = user /\ user \in Requesters \cup Pools
<1>1. user # "nobody"
  <2>1. CASE user \in Requesters \cup Pools
    BY <2>1, UserFacts
  <2>2. CASE Fetch
    BY <2>2 DEF Fetch
  <2>3. CASE FillQueue \/ Copy \/ PostAgain \/ NextCommand \/ Finish \/ Timeout
    <3>1. pc \in {"fill", "copy", "post", "next", "poll"}
      BY <2>3 DEF FillQueue, Copy, PostAgain, NextCommand, Finish, Timeout
    <3>2. QED
      BY <3>1, UserFacts
  <2>4. CASE \E job \in jobs : Complete(job) \/ Receive(job)
    BY <2>4, UserFacts DEF Complete, Receive
  <2>5. CASE Take
    BY <2>5, UserFacts DEF Take
  <2>6. QED
    BY <2>1, <2>2, <2>3, <2>4, <2>5 DEF DriversNext
<1>2. user' = user
  BY DEF DriversNext, Call, NextCommand, Finish, Timeout, Fetch, Complete, Receive, FillQueue,
         Take, Copy, PostAgain
<1>3. QED
  BY <1>1, <1>2, UserFacts

\* What the steps of a request have to leave.
LEMMA RequestPlace ==
  ASSUME DriverInv, user \in Requesters, QueueInv', user' = user, num' = num,
         UNCHANGED poolVars, pc' \in {"idle", "next", "poll"},
         resp' \in {"none", "ok", "info", "nodata", "error"}, answer' \in {"ok", "failed"},
         ready' \in BOOLEAN, timeouts' \in 0 .. MaxTimeouts,
         addr' = addr \/ \E d \in 0 .. MaxNum - 1 : \E b : addr' = [addr EXCEPT ![d] = b]
  PROVE  DriverInv'
<1>1. /\ slot_of' = slot_of /\ filled' = filled /\ slot' = slot /\ full' = full
      /\ content' = content /\ length' = length /\ arrived' = arrived /\ got' = got
  BY DEF poolVars
<1>2. QueueTypeOK'
  BY DEF QueueInv
<1>3. DriversTypeOK'
  <2>1. /\ user \in Requesters \cup Pools \cup {"nobody"}
        /\ slot_of \in [0 .. MaxNum - 1 -> Buffers] /\ slot \in Buffers /\ full \in BOOLEAN
        /\ filled \in 0 .. PoolSize
        /\ content \in [Buffers -> 0 .. MaxFrames]
        /\ length \in [0 .. MaxNum - 1 -> {"frame", "short"}]
        /\ arrived \in 0 .. MaxFrames
    BY DEF DriverInv, PlaceInv, DriversTypeOK
  <2>2. Buffers' = Buffers
    BY DEF Buffers
  <2>3. QED
    BY <1>1, <1>2, <2>1, <2>2 DEF DriversTypeOK
<1>4. addr' = [d \in 0 .. MaxNum - 1 |-> addr'[d]]
  BY DEF DriverInv, PlaceInv
<1>5. user' \notin Pools /\ user' # "nobody"
  BY UserFacts
<1>6. PlaceInv'
  BY <1>3, <1>4, <1>5 DEF PlaceInv
<1>7. QED
  BY <1>6 DEF DriverInv

\* And those of a pool.
LEMMA PoolPlace ==
  ASSUME DriverInv, user \in Pools, QueueInv', user' = user, num' = num,
         UNCHANGED requestVars, pc' \in {"idle", "fill", "copy", "post"},
         pc' = "fill" => filled' < PoolCount, filled' \in 0 .. PoolSize,
         slot' \in Buffers, full' \in BOOLEAN,
         slot_of' = slot_of \/ \E d \in 0 .. MaxNum - 1, b \in Buffers :
                                 slot_of' = [slot_of EXCEPT ![d] = b],
         length' \in [0 .. MaxNum - 1 -> {"frame", "short"}],
         content' \in [Buffers -> 0 .. MaxFrames], arrived' \in 0 .. MaxFrames,
         addr' = addr \/ \E d \in 0 .. MaxNum - 1 : \E b : addr' = [addr EXCEPT ![d] = b]
  PROVE  DriverInv'
<1>1. /\ call' = call /\ todo' = todo /\ cmd' = cmd /\ resp' = resp /\ answer' = answer
      /\ ready' = ready /\ effects' = effects /\ timeouts' = timeouts
  BY DEF requestVars
<1>2. QueueTypeOK'
  BY DEF QueueInv
<1>3. slot_of' \in [0 .. MaxNum - 1 -> Buffers]
  <2>1. slot_of \in [0 .. MaxNum - 1 -> Buffers]
    BY DEF DriverInv, PlaceInv, DriversTypeOK
  <2>2. QED
    BY <2>1
<1>4. DriversTypeOK'
  <2>1. /\ user \in Requesters \cup Pools \cup {"nobody"}
        /\ resp \in {"none", "ok", "info", "nodata", "error"}
        /\ answer \in {"ok", "failed"} /\ ready \in BOOLEAN
        /\ timeouts \in 0 .. MaxTimeouts
    BY DEF DriverInv, PlaceInv, DriversTypeOK
  <2>2. Buffers' = Buffers
    BY DEF Buffers
  <2>3. QED
    BY <1>1, <1>2, <1>3, <2>1, <2>2 DEF DriversTypeOK
<1>5. addr' = [d \in 0 .. MaxNum - 1 |-> addr'[d]]
  BY DEF DriverInv, PlaceInv
<1>6. user' \notin Requesters /\ user' # "nobody" /\ PoolCount' = PoolCount
  BY UserFacts DEF PoolCount
<1>7. PlaceInv'
  BY <1>4, <1>5, <1>6 DEF PlaceInv
<1>8. QED
  BY <1>7 DEF DriverInv

\* What Places says, by name.
LEMMA TypeFacts ==
  ASSUME DriverInv
  PROVE  /\ pc \in {"idle", "next", "poll", "fill", "copy", "post"}
         /\ resp \in {"none", "ok", "info", "nodata", "error"}
         /\ answer \in {"ok", "failed"} /\ ready \in BOOLEAN /\ timeouts \in 0 .. MaxTimeouts
         /\ slot_of \in [0 .. MaxNum - 1 -> Buffers] /\ slot \in Buffers /\ full \in BOOLEAN
         /\ filled \in 0 .. PoolSize /\ content \in [Buffers -> 0 .. MaxFrames]
         /\ length \in [0 .. MaxNum - 1 -> {"frame", "short"}]
         /\ arrived \in 0 .. MaxFrames
         /\ user \in Requesters => pc \in {"idle", "next", "poll"}
         /\ user \in Pools => pc \in {"idle", "fill", "copy", "post"}
         /\ pc = "fill" => filled < PoolCount
         /\ DOMAIN addr = 0 .. MaxNum - 1
BY DEF DriverInv, PlaceInv, DriversTypeOK

\* blk_do_request, gpu_send_cmd and the others up to the kick.
LEMMA SubmitPlaces ==
  ASSUME DriverInv, user \in Requesters, NEW op, Submit(op), UNCHANGED <<user, ready, jobs>>,
         timeouts' = timeouts, UNCHANGED poolVars
  PROVE  DriverInv'
<1>1. /\ QueueInv'
      /\ \/ /\ Added(free_head) /\ addr' = [addr EXCEPT ![free_head] = op.buf]
            /\ pc' = "poll" /\ answer' = answer
         \/ Still /\ addr' = addr /\ pc' = "idle" /\ answer' = "failed"
  BY SubmitQueue
<1>2. PICK f, b : f = free_head /\ b = op.buf
  OBVIOUS
<1>3. addr' = addr \/ \E d \in 0 .. MaxNum - 1 : \E x : addr' = [addr EXCEPT ![d] = x]
  <2>1. ASSUME Added(free_head), addr' = [addr EXCEPT ![free_head] = op.buf]
        PROVE  f \in 0 .. MaxNum - 1 /\ addr' = [addr EXCEPT ![f] = b]
    BY <1>2, <2>1 DEF Added
  <2>2. QED
    BY <1>1, <2>1
<1>4. num' = num
  BY <1>1 DEF Added, Still
<1>5. resp' = "none"
  BY DEF Submit
<1>6. pc' \in {"idle", "next", "poll"} /\ answer' \in {"ok", "failed"}
  BY <1>1, TypeFacts
<1>7. ready' \in BOOLEAN /\ timeouts' \in 0 .. MaxTimeouts
  BY TypeFacts
<1>8. QED
  BY <1>1, <1>3, <1>4, <1>5, <1>6, <1>7, RequestPlace

\* The end of their loop.
LEMMA FinishPlaces ==
  ASSUME DriverInv, Finish \/ Timeout
  PROVE  DriverInv'
<1>1. /\ user \in Requesters /\ user \in DOMAIN ChainLen /\ QueueInv
      /\ UNCHANGED <<user, jobs, addr>> /\ UNCHANGED poolVars
  BY UserFacts DEF Finish, Timeout
<1>2. QueueInv' /\ num' = num
  <2>1. CASE Finish
    <3>1. HasUsed /\ GetUsed
      BY <2>1 DEF Finish
    <3>2. QED
      BY <1>1, <3>1, GetQueue DEF GotUsed
  <2>2. CASE Timeout
    <3>1. UNCHANGED queueVars
      BY <2>2 DEF Timeout
    <3>2. QED
      BY <1>1, <3>1, StayKeeps DEF queueVars
  <2>3. QED
    BY <2>1, <2>2
<1>3. pc' \in {"idle", "next", "poll"} /\ resp' = resp
  BY DEF Finish, Timeout
<1>4. answer' \in {"ok", "failed"}
  BY TypeFacts DEF Finish, Timeout
<1>5. ready' \in BOOLEAN
  BY TypeFacts DEF Finish, Timeout
<1>6. timeouts' \in 0 .. MaxTimeouts
  BY TypeFacts, DriversAssumption DEF Finish, Timeout
<1>7. resp' \in {"none", "ok", "info", "nodata", "error"}
  BY <1>3, TypeFacts
<1>8. QED
  BY <1>1, <1>2, <1>3, <1>4, <1>5, <1>6, <1>7, RequestPlace

\* The device takes a chain.
LEMMA FetchPlaces ==
  ASSUME DriverInv, Fetch
  PROVE  DriverInv'
<1>1. /\ user # "nobody" /\ QueueInv /\ user \in DOMAIN ChainLen /\ user \in Requesters \cup Pools
      /\ HasAvail /\ TakeAvail /\ UNCHANGED <<user, pc, addr>> /\ UNCHANGED requestVars
      /\ UNCHANGED poolVars
      /\ jobs' = jobs \cup {[head |-> NextAvail, op |-> Op(cmd, addr[NextAvail])]}
  BY UserFacts DEF Fetch
<1>2. PICK head, o : head = NextAvail /\ o = Op(cmd, addr[NextAvail])
  OBVIOUS
<1>3. QueueInv' /\ num' = num
  <2>1. jobs' = jobs \cup {[head |-> head, op |-> o]} /\ user' = user
    BY <1>1, <1>2
  <2>2. QueueInv'
    BY <1>1, <1>2, <2>1, FetchKeeps
  <2>3. QED
    BY <1>1, <2>2 DEF TakeAvail
<1>4. /\ call' = call /\ todo' = todo /\ cmd' = cmd /\ resp' = resp /\ answer' = answer
      /\ ready' = ready /\ effects' = effects /\ timeouts' = timeouts
      /\ slot_of' = slot_of /\ filled' = filled /\ slot' = slot /\ full' = full
      /\ content' = content /\ length' = length /\ arrived' = arrived /\ got' = got
  BY <1>1 DEF requestVars, poolVars
<1>5. CASE user \in Requesters
  BY <1>1, <1>3, <1>4, <1>5, TypeFacts, RequestPlace
<1>6. CASE user \in Pools
  BY <1>1, <1>3, <1>4, <1>6, TypeFacts, PoolPlace
<1>7. QED
  BY <1>1, <1>5, <1>6

\* The device answers a request.
LEMMA CompletePlaces ==
  ASSUME DriverInv, NEW job \in jobs, Complete(job)
  PROVE  DriverInv'
<1>1. /\ user \in Requesters /\ QueueInv /\ user \in DOMAIN ChainLen
      /\ PutUsed(job.head) /\ jobs' = jobs \ {job} /\ UNCHANGED <<user, pc, addr, answer, ready, timeouts>>
      /\ UNCHANGED poolVars
  BY UserFacts DEF Complete
<1>2. PICK head : head = job.head
  OBVIOUS
<1>3. QueueInv' /\ num' = num
  <2>1. QueueInv'
    BY <1>1, <1>2, PutKeeps
  <2>2. QED
    BY <1>1, <2>1 DEF PutUsed
<1>4. resp' \in {"none", "ok", "info", "nodata", "error"}
  BY TypeFacts DEF Complete
<1>5. QED
  BY <1>1, <1>3, <1>4, TypeFacts, RequestPlace

\* The device fills a buffer of a pool.
LEMMA ReceivePlaces ==
  ASSUME DriverInv, NEW job \in jobs, Receive(job)
  PROVE  DriverInv'
<1>1. /\ user \in Pools /\ QueueInv /\ user \in DOMAIN ChainLen
      /\ PutUsed(job.head) /\ jobs' = jobs \ {job}
      /\ UNCHANGED <<user, pc, addr, slot_of, filled, slot, full, got>>
      /\ UNCHANGED requestVars
  BY UserFacts DEF Receive
<1>2. PICK head : head = job.head
  OBVIOUS
<1>3. QueueInv' /\ num' = num
  <2>1. QueueInv'
    BY <1>1, <1>2, PutKeeps
  <2>2. QED
    BY <1>1, <2>1 DEF PutUsed
<1>4. arrived' \in 0 .. MaxFrames
  BY TypeFacts, DriversAssumption DEF Receive
<1>5. content' \in [Buffers -> 0 .. MaxFrames]
  <2>1. content \in [Buffers -> 0 .. MaxFrames] /\ 0 \in 0 .. MaxFrames
    BY TypeFacts, DriversAssumption
  <2>2. QED
    BY <1>4, <2>1 DEF Receive
<1>6. length' \in [0 .. MaxNum - 1 -> {"frame", "short"}]
  BY TypeFacts DEF Receive
<1>7. QED
  BY <1>1, <1>3, <1>4, <1>5, <1>6, TypeFacts, PoolPlace

\* post_rx_buffer, post_evt_buffer.
LEMMA PostPlaces ==
  ASSUME DriverInv, FillQueue \/ PostAgain
  PROVE  DriverInv'
<1>1. PICK i : i = IF pc = "fill" THEN filled ELSE slot
  OBVIOUS
<1>2. /\ user \in Pools /\ PostBuffer(i) /\ UNCHANGED <<user, jobs>>
      /\ UNCHANGED requestVars /\ UNCHANGED <<slot, full, content, length, arrived, got>>
  BY <1>1, UserFacts DEF FillQueue, PostAgain
<1>3. /\ QueueInv'
      /\ \/ /\ HasRoom(1) /\ Added(free_head)
            /\ addr' = [addr EXCEPT ![free_head] = i]
            /\ slot_of' = [slot_of EXCEPT ![free_head] = i]
         \/ ~HasRoom(1) /\ Still /\ addr' = addr /\ slot_of' = slot_of
  BY <1>2, PostQueue
<1>4. num' = num
  BY <1>3 DEF Added, Still
<1>5. PoolCount \in 0 .. PoolSize
  <2>1. num \in Nat /\ PoolSize \in Nat
    BY <1>2, UserFacts, QueueFacts, DriversAssumption
  <2>2. QED
    BY <2>1 DEF PoolCount
<1>6. i \in Buffers
  <2>1. pc = "fill" => filled \in 0 .. PoolSize - 1
    BY <1>5, TypeFacts, DriversAssumption
  <2>2. QED
    BY <1>1, <2>1, TypeFacts DEF Buffers
<1>7. /\ pc' \in {"idle", "fill", "copy", "post"} /\ filled' \in 0 .. PoolSize
      /\ pc' = "fill" => filled' < PoolCount
  <2>1. CASE FillQueue
    <3>1. /\ pc = "fill" /\ filled' = filled + 1
          /\ pc' = IF filled' = PoolCount THEN "idle" ELSE "fill"
      BY <2>1 DEF FillQueue
    <3>2. QED
      BY <1>5, <3>1, TypeFacts, DriversAssumption
  <2>2. CASE PostAgain
    <3>1. pc' = "idle" /\ filled' = filled
      BY <2>2 DEF PostAgain, StepAfter
    <3>2. QED
      BY <3>1, TypeFacts
  <2>3. QED
    BY <2>1, <2>2
<1>8. free_head \in 0 .. MaxNum - 1 \/ (addr' = addr /\ slot_of' = slot_of)
  BY <1>3 DEF Added
<1>9. PICK f : f = free_head
  OBVIOUS
<1>10. addr' = addr \/ \E d \in 0 .. MaxNum - 1 : \E x : addr' = [addr EXCEPT ![d] = x]
  <2>1. addr' = addr \/ (f \in 0 .. MaxNum - 1 /\ addr' = [addr EXCEPT ![f] = i])
    BY <1>3, <1>8, <1>9
  <2>2. QED
    BY <2>1
<1>11. slot_of' = slot_of \/ \E d \in 0 .. MaxNum - 1, b \in Buffers :
                               slot_of' = [slot_of EXCEPT ![d] = b]
  <2>1. slot_of' = slot_of \/ (f \in 0 .. MaxNum - 1 /\ slot_of' = [slot_of EXCEPT ![f] = i])
    BY <1>3, <1>8, <1>9
  <2>2. QED
    BY <1>6, <2>1
<1>12. slot' \in Buffers /\ full' \in BOOLEAN /\ length' \in [0 .. MaxNum - 1 -> {"frame", "short"}]
       /\ content' \in [Buffers -> 0 .. MaxFrames] /\ arrived' \in 0 .. MaxFrames
  BY <1>2, TypeFacts
<1>13. QED
  BY <1>2, <1>3, <1>4, <1>7, <1>10, <1>11, <1>12, PoolPlace

\* virtio_net_rx, virtio_input_poll up to posting again.
LEMMA TakePlaces ==
  ASSUME DriverInv, Take \/ Copy
  PROVE  DriverInv'
<1>1. /\ user \in Pools /\ QueueInv /\ user \in DOMAIN ChainLen
      /\ UNCHANGED <<user, jobs, addr, slot_of, filled, content, length, arrived>>
      /\ UNCHANGED requestVars
  BY UserFacts DEF Take, Copy
<1>2. QueueInv' /\ num' = num
  <2>1. CASE Take
    <3>1. HasUsed /\ GetUsed
      BY <2>1 DEF Take
    <3>2. QED
      BY <1>1, <3>1, GetQueue DEF GotUsed
  <2>2. CASE Copy
    <3>1. UNCHANGED queueVars
      BY <2>2 DEF Copy
    <3>2. QED
      BY <1>1, <3>1, StayKeeps DEF queueVars
  <2>3. QED
    BY <2>1, <2>2
<1>3. pc' \in {"copy", "post"}
  BY DEF Take, Copy, StepAfter
<1>4. slot' \in Buffers /\ full' \in BOOLEAN
  <2>1. CASE Take
    <3>1. PICK head : head = used[last_used_idx % num]
      OBVIOUS
    <3>2. slot' = slot_of[head] /\ full' = (length[head] = "frame")
      BY <2>1, <3>1 DEF Take
    <3>3. HasUsed /\ GetUsed
      BY <2>1 DEF Take
    <3>4. head \in Descs /\ num \in QueueSizes
      BY <1>1, <3>1, <3>3, GetQueue, QueueFacts DEF GotUsed
    <3>5. head \in 0 .. MaxNum - 1
      BY <3>4, DescsFit
    <3>6. QED
      BY <3>2, <3>5, TypeFacts
  <2>2. CASE Copy
    BY <2>2, TypeFacts DEF Copy
  <2>3. QED
    BY <2>1, <2>2
<1>5. QED
  BY <1>1, <1>2, <1>3, <1>4, TypeFacts, PoolPlace

-----------------------------------------------------------------------------
\* Every step of a driver or of its device keeps the invariant.
LEMMA DriverNext ==
  ASSUME DriverInv, DriversNext
  PROVE  DriverInv'
<1>1. ASSUME NEW c, Call(c) PROVE DriverInv'
  <2>1. PICK op : op = Head(c)
    OBVIOUS
  <2>2. user \in Requesters /\ Submit(op) /\ UNCHANGED <<user, ready, jobs, timeouts>>
        /\ UNCHANGED poolVars
    BY <1>1, <2>1 DEF Call
  <2>3. QED
    BY <2>2, SubmitPlaces
<1>2. CASE NextCommand
  <2>1. PICK op : op = Head(todo)
    OBVIOUS
  <2>2. user \in Requesters /\ Submit(op) /\ UNCHANGED <<user, ready, jobs, timeouts>>
        /\ UNCHANGED poolVars
    BY <1>2, <2>1, UserFacts DEF NextCommand
  <2>3. QED
    BY <2>2, SubmitPlaces
<1>3. CASE Finish \/ Timeout
  BY <1>3, FinishPlaces
<1>4. CASE Fetch
  BY <1>4, FetchPlaces
<1>5. ASSUME NEW job \in jobs, Complete(job) \/ Receive(job) PROVE DriverInv'
  BY <1>5, CompletePlaces, ReceivePlaces
<1>6. CASE FillQueue \/ PostAgain
  BY <1>6, PostPlaces
<1>7. CASE Take \/ Copy
  BY <1>7, TakePlaces
<1>8. QED
  BY <1>1, <1>2, <1>3, <1>4, <1>5, <1>6, <1>7 DEF DriversNext

\* virtqueue_init leaves a queue all of whose descriptors are free.
LEMMA NewQueueWorks ==
  ASSUME NEW n \in QueueSizes, InitQueue(n), jobs' = {}
  PROVE  QueueInv' /\ InFlight' = {}
<1>1. /\ num' = n /\ free_head' = 0
      /\ next' = [i \in 0 .. n - 1 |-> IF i = n - 1 THEN NoDesc ELSE i + 1]
      /\ more' = [i \in 0 .. n - 1 |-> FALSE]
      /\ avail' = [i \in 0 .. n - 1 |-> 0] /\ used' = [i \in 0 .. n - 1 |-> 0]
      /\ avail_idx' = 0 /\ last_used_idx' = 0 /\ used_idx' = 0 /\ seen_idx' = 0
  BY DEF InitQueue
<1>2. n \in Nat \ {0} /\ 0 \in 0 .. n - 1 /\ 0 \in Indices /\ Descs' = 0 .. n - 1
      /\ QueueSizes' = QueueSizes /\ Indices' = Indices
  BY <1>1, SizeFacts, QueueAssumption DEF Descs, QueueSizes, Indices
<1>3. Dist(0, 0) = 0
  BY <1>2, DistFacts
<1>4. Between(avail, seen_idx, avail_idx)' = {} /\ Between(used, last_used_idx, used_idx)' = {}
  <2>1. 0 - 0 = 0 /\ (0 - 0) % IdxMod = 0 /\ 0 .. 0 - 1 = {}
    BY <1>3 DEF Dist
  <2>2. QED
    BY <1>1, <2>1 DEF Between
<1>5. Working' = {} /\ Avl' = {} /\ Usd' = {}
  BY <1>4 DEF Working, Avl, Usd
<1>6. InFlight' = {}
  BY <1>5 DEF InFlight, Avl, Usd
<1>7. QueueTypeOK'
  <2>1. next' \in [0 .. n - 1 -> (0 .. n - 1) \cup {NoDesc}]
    BY <1>1, <1>2
  <2>2. QED
    BY <1>1, <1>2, <2>1 DEF QueueTypeOK
<1>8. FlightInv'
  <2>1. \A ring : Once(ring, 0, 0)'
    BY <1>1, <1>2, <1>3 DEF Once, Dist
  <2>2. Once(avail, seen_idx, avail_idx)' /\ Once(used, last_used_idx, used_idx)'
    BY <1>1, <1>2, <1>3 DEF Once, Dist
  <2>3. IsFiniteSet(jobs')
    BY FS_EmptySet
  <2>4. QED
    BY <1>5, <1>6, <2>2, <2>3 DEF FlightInv
<1>9. ChainsInv'
  BY <1>6 DEF ChainsInv
<1>10. FreeInv'
  <2>1. PICK f : f = [i \in 1 .. n |-> i - 1]
    OBVIOUS
  <2>2. \A i \in 1 .. n : f[i] = i - 1 /\ i - 1 \in 0 .. n - 1
    BY <1>2, <2>1
  <2>3. f \in [1 .. n -> 0 .. n - 1] /\ f \in [1 .. n -> Descs']
    BY <1>2, <2>1, <2>2
  <2>4. FreeIs(n, f)'
    <3>1. \A i, j \in 1 .. n : f[i] = f[j] => i = j
      BY <2>2
    <3>2. free_head' = IF n = 0 THEN NoDesc ELSE f[1]
      BY <1>1, <1>2, <2>2
    <3>3. ASSUME NEW i \in 1 .. n PROVE next'[f[i]] = IF i = n THEN NoDesc ELSE f[i + 1]
      <4>1. next'[i - 1] = IF i - 1 = n - 1 THEN NoDesc ELSE (i - 1) + 1
        BY <1>1, <2>2
      <4>2. (i - 1 = n - 1 <=> i = n) /\ (i - 1) + 1 = i /\ (i # n => i + 1 \in 1 .. n)
            /\ (i + 1) - 1 = i
        BY <1>2
      <4>3. i # n => f[i + 1] = (i + 1) - 1
        BY <2>2, <4>2
      <4>4. QED
        BY <2>2, <4>1, <4>2, <4>3
    <3>4. QED
      BY <1>2, <2>3, <3>1, <3>2, <3>3 DEF FreeIs
  <2>5. SharedOut(n, f)'
    <3>1. ASSUME NEW d \in 0 .. n - 1 PROVE \E j \in 1 .. n : f[j] = d
      <4>1. d + 1 \in 1 .. n /\ (d + 1) - 1 = d
        BY <1>2
      <4>2. QED
        BY <2>2, <4>1
    <3>2. QED
      BY <1>2, <1>6, <3>1 DEF SharedOut
  <2>6. n \in 0 .. num'
    BY <1>1, <1>2
  <2>7. QED
    BY <2>3, <2>4, <2>5, <2>6 DEF FreeInv
<1>11. num' \in QueueSizes'
  BY <1>1, <1>2
<1>12. QED
  BY <1>6, <1>7, <1>8, <1>9, <1>10, <1>11 DEF QueueInv

\* The queue that a driver begins to work on has been set up.
LEMMA WorkSize ==
  ASSUME BringUpInv, SizesInv, NEW d \in DOMAIN QueueOf, Work(d)
  PROVE  \E n \in QueueSizes : InitQueue(n)
<1>1. PICK h, q, n : h = QueueOf[d][1] /\ q = QueueOf[d][2] /\ n = drv[h].vq[q].num
  OBVIOUS
<1>2. h \in live /\ ~starved /\ InitQueue(n)
  BY <1>1 DEF Work
<1>3. h \in Handles /\ Bound(h) /\ IsSetUp(h, q)
  BY <1>2 DEF BringUpInv, ControlInv, Bound, IsSetUp
<1>4. q \in Queues(h)
  <2>1. q = 1 \/ (q = 2 /\ h = "net")
    BY <1>1 DEF QueueOf
  <2>2. 1 \in Queues(h)
    BY <1>3, HandleFacts
  <2>3. h = "net" => Queues(h) = 1 .. 2
    BY DEF Queues, IdOf, Singles, Desired
  <2>4. QED
    BY <2>1, <2>2, <2>3
<1>5. n \in 1 .. bus[drv[h].slot].queues[q]
  BY <1>1, <1>2, <1>3, <1>4 DEF BringUpInv, RingsInv
<1>6. n \in QueueSizes \cup {0}
  BY <1>1, <1>3, <1>4 DEF SizesInv
<1>7. QED
  BY <1>2, <1>5, <1>6

\* It holds while nobody works.
LEMMA DriverInitial ==
  ASSUME DriversInit
  PROVE  DriverInv
<1>1. QueueTypeOK
  <2>1. num = 0 /\ Descs = {} /\ 0 \in Indices
    BY QueueAssumption DEF DriversInit, QueueInit, Descs, Indices
  <2>2. <<>> \in [{} -> {} \cup {NoDesc}] /\ <<>> \in [{} -> BOOLEAN] /\ <<>> \in [{} -> {}]
    OBVIOUS
  <2>3. QED
    BY <2>1, <2>2 DEF DriversInit, QueueInit, QueueTypeOK
<1>2. DriversTypeOK
  <2>1. 0 \in Buffers /\ 0 \in 0 .. PoolSize /\ 0 \in 0 .. MaxTimeouts /\ 0 \in 0 .. MaxFrames
    BY DriversAssumption DEF Buffers
  <2>2. QED
    BY <1>1, <2>1 DEF DriversInit, DriversTypeOK
<1>3. addr = [e \in 0 .. MaxNum - 1 |-> addr[e]]
  BY DEF DriversInit
<1>4. Fresh /\ user = "nobody" /\ pc = "idle"
  BY DEF Fresh, DriversInit
<1>5. "nobody" \notin Requesters \cup Pools
  BY DEF Requesters, Pools
<1>6. PlaceInv
  BY <1>2, <1>3, <1>4, <1>5 DEF PlaceInv
<1>7. QED
  BY <1>4, <1>6 DEF DriverInv

\* It holds when a driver begins; its queue is empty.
LEMMA DriverWork ==
  ASSUME BringUpInv, SizesInv, DriverInv, NEW d \in DOMAIN QueueOf, Work(d)
  PROVE  DriverInv' /\ InFlight' = {} /\ filled < PoolCount' /\ 0 < num'
<1>1. PICK n \in QueueSizes : InitQueue(n)
  BY WorkSize
<1>2. /\ user = "nobody" /\ user' = d /\ d \in Requesters \cup Pools
      /\ pc' = (IF d \in Pools THEN "fill" ELSE "idle")
      /\ UNCHANGED requestVars /\ UNCHANGED <<addr, jobs>> /\ UNCHANGED poolVars
  BY DEF Work, QueueOf, Requesters, Pools
<1>3. Fresh
  BY <1>2 DEF DriverInv, PlaceInv
<1>4. QueueInv' /\ InFlight' = {} /\ num' = n
  <2>1. jobs' = {}
    BY <1>2, <1>3 DEF Fresh
  <2>2. num' = n
    BY <1>1 DEF InitQueue
  <2>3. QED
    BY <1>1, <2>1, <2>2, NewQueueWorks
<1>5. filled = 0 /\ filled < PoolCount' /\ 0 < num'
  <2>1. n \in Nat \ {0} /\ PoolSize \in Nat \ {0}
    BY SizeFacts, DriversAssumption
  <2>2. PoolCount' = IF PoolSize > n THEN n ELSE PoolSize
    BY <1>4 DEF PoolCount
  <2>3. QED
    BY <1>3, <1>4, <2>1, <2>2 DEF Fresh
<1>6. /\ call' = call /\ todo' = todo /\ cmd' = cmd /\ resp' = resp /\ answer' = answer
      /\ ready' = ready /\ effects' = effects /\ timeouts' = timeouts
      /\ slot_of' = slot_of /\ filled' = filled /\ slot' = slot /\ full' = full
      /\ content' = content /\ length' = length /\ arrived' = arrived /\ got' = got
      /\ addr' = addr /\ jobs' = jobs
  BY <1>2 DEF requestVars, poolVars
<1>7. DriversTypeOK'
  <2>1. QueueTypeOK'
    BY <1>4 DEF QueueInv
  <2>2. Buffers' = Buffers
    BY DEF Buffers
  <2>3. QED
    BY <1>2, <1>6, <2>1, <2>2, TypeFacts DEF DriversTypeOK
<1>8. addr' = [e \in 0 .. MaxNum - 1 |-> addr'[e]]
  BY <1>6 DEF DriverInv, PlaceInv
<1>9. user' # "nobody" /\ (user' \in Requesters => pc' = "idle") /\ (user' \in Pools => pc' = "fill")
  BY <1>2 DEF Requesters, Pools
<1>10. PlaceInv'
  BY <1>5, <1>6, <1>7, <1>8, <1>9 DEF PlaceInv
<1>11. QED
  BY <1>4, <1>5, <1>10 DEF DriverInv

\* The steps of bringing drivers up do not touch it.
LEMMA DriverStutters ==
  ASSUME DriverInv, UNCHANGED driverVars
  PROVE  DriverInv'
<1>1. /\ UNCHANGED queueVars /\ jobs' = jobs /\ user' = user /\ pc' = pc /\ addr' = addr
      /\ UNCHANGED requestVars /\ UNCHANGED poolVars
  BY DEF driverVars
<1>2. /\ call' = call /\ todo' = todo /\ cmd' = cmd /\ resp' = resp /\ answer' = answer
      /\ ready' = ready /\ effects' = effects /\ timeouts' = timeouts
      /\ slot_of' = slot_of /\ filled' = filled /\ slot' = slot /\ full' = full
      /\ content' = content /\ length' = length /\ arrived' = arrived /\ got' = got
  BY <1>1 DEF requestVars, poolVars
<1>3. user # "nobody" => QueueInv'
  BY <1>1, UserFacts, StayKeeps
<1>4. QueueTypeOK'
  <2>1. QueueTypeOK
    BY DEF DriverInv, PlaceInv, DriversTypeOK
  <2>2. QED
    BY <1>1, <2>1 DEF QueueTypeOK, queueVars, Descs, Indices, QueueSizes
<1>5. DriversTypeOK'
  BY <1>1, <1>2, <1>4 DEF DriverInv, PlaceInv, DriversTypeOK, Buffers
<1>6. PlaceInv'
  BY <1>1, <1>2, <1>5 DEF DriverInv, PlaceInv, Fresh, PoolCount, queueVars
<1>7. QED
  BY <1>1, <1>3, <1>6 DEF DriverInv

\* The steps of Devices, as the drivers see them.
LEMMA StepOfDrivers ==
  ASSUME [Next]_vars
  PROVE  \/ UNCHANGED driverVars \/ DriversNext
         \/ \E d \in DOMAIN QueueOf : Work(d)
BY DEF Next, BringUp, vars

\* The queue of the driver at work is intact in every state: rings, chains and
\* free list (virtqueue.c).
THEOREM DriversAreSafe == Spec => []DriverInv
<1>1. Init => DriverInv
  BY DriverInitial DEF Init
<1>2. BringUpInv /\ SizesInv /\ DriverInv /\ [Next]_vars => DriverInv'
  BY StepOfDrivers, DriverStutters, DriverNext, DriverWork
<1>3. QED
  BY <1>1, <1>2, BringUpIsSafe, SizesAreSafe, PTL DEF Spec

\* No descriptor is lost or given out twice, whatever times out, comes late or
\* in another order, and wherever the indices wrap (virtqueue_add_chain,
\* virtqueue_get_used).
THEOREM DescriptorsKeptHolds == Spec => []DescriptorsKept
<1>1. DriverInv => DescriptorsKept
  <2> SUFFICES ASSUME DriverInv PROVE DescriptorsKept
    OBVIOUS
  <2>2. DriversTypeOK
    BY DEF DriverInv, PlaceInv
  <2>3. user # "nobody" => DescriptorsAccounted(Working)
    BY UserFacts, Accounted
  <2>4. Cardinality(Working) = Cardinality(jobs)
    <3>1. CASE user = "nobody"
      <4>1. jobs = {} /\ Working = {}
        BY <3>1 DEF DriverInv, PlaceInv, Fresh, Working
      <4>2. QED
        BY <4>1
    <3>2. CASE user # "nobody"
      BY <3>2, UserFacts, CountJobs DEF QueueInv
    <3>3. QED
      BY <3>1, <3>2
  <2>5. QED
    BY <2>2, <2>3, <2>4 DEF DescriptorsKept
<1>2. QED
  BY <1>1, DriversAreSafe, PTL

-----------------------------------------------------------------------------
(* Requests.                                                               *)

Cmds == {Op(w, b) : w \in Sectors \cup {"bytes", "info", "create", "attach", "scanout",
                                        "transfer", "flush"},
                    b \in Bufs \cup {Nothing}}

\* The first k commands of the call have been submitted, todo are the others.
Asked(k) ==
  /\ k \in Nat /\ call \in Seq(Cmds) /\ todo \in Seq(Cmds) /\ Len(call) = k + Len(todo)
  /\ \A i \in 1 .. Len(todo) : todo[i] = call[k + i]

\* The first m commands of the call have been carried out.
Done(m) == effects = Prefix(call, m)

\* The k-th command is in the one chain in flight, h; it has been carried out
\* when the chain has come back with a good response.
Under(k, h) ==
  /\ InFlight = {h} /\ h \in Descs /\ call[k] = Op(cmd, addr[h])
  /\ \A job \in jobs : job.op = call[k]
  /\ Done(IF h \in Usd /\ GoodResponse THEN k ELSE k - 1)

Stage(k) ==
  /\ pc = "idle" => /\ InFlight = {}
                    /\ call # <<>> => IF answer = "ok" THEN Done(Len(call))
                                      ELSE \E m \in 0 .. Len(call) - 1 : Done(m)
  /\ pc = "next" => InFlight = {} /\ todo # <<>> /\ Done(k)
  /\ pc = "poll" => k > 0 /\ \E h \in Descs : Under(k, h)

\* As long as no request has timed out, a request is where its driver is.
RequestInv ==
  user \in Requesters /\ timeouts = 0 => \E k \in 0 .. Len(call) : Asked(k) /\ Stage(k)

-----------------------------------------------------------------------------
\* What Asked says of primed variables, and of sequences.
LEMMA CmdFacts ==
  ASSUME NEW op \in Cmds
  PROVE  op = Op(op.what, op.buf) /\ op.what \in Sectors \cup {"bytes", "info", "create", "attach",
                                                "scanout", "transfer", "flush"}
BY DEF Cmds, Op

\* What calls consist of: one command or more.
LEMMA CallFacts ==
  ASSUME NEW d \in Requesters, NEW c \in Calls(d)
  PROVE  c \in Seq(Cmds) /\ Len(c) > 0
<1>1. \A w \in Sectors \cup {"bytes", "info", "create", "attach", "scanout", "transfer", "flush"},
         b \in Bufs \cup {Nothing} : Op(w, b) \in Cmds
  BY DEF Cmds
<1>2. \A o \in Cmds : <<o>> \in Seq(Cmds) /\ Len(<<o>>) > 0
  OBVIOUS
<1>3. CASE d = "blk"
  <2>1. c \in {<<Op(s, b)>> : s \in Sectors, b \in Bufs}
    BY <1>3 DEF Calls
  <2>2. PICK s \in Sectors, b \in Bufs : c = <<Op(s, b)>>
    BY <2>1
  <2>3. QED
    BY <1>1, <1>2, <2>2
<1>4. CASE d = "rng"
  <2>1. c \in {<<Op("bytes", b)>> : b \in Bufs}
    BY <1>4 DEF Calls
  <2>2. PICK b \in Bufs : c = <<Op("bytes", b)>>
    BY <2>1
  <2>3. QED
    BY <1>1, <1>2, <2>2
<1>5. CASE d = "tx"
  <2>1. c \in {<<Op(s, Nothing)>> : s \in Sectors}
    BY <1>5 DEF Calls
  <2>2. PICK s \in Sectors : c = <<Op(s, Nothing)>>
    BY <2>1
  <2>3. QED
    BY <1>1, <1>2, <2>2
<1>6. CASE d = "gpu"
  <2>1. c \in {GpuFlush, GpuInit}
    BY <1>6 DEF Calls
  <2>2. \A o, p \in Cmds : <<o, p>> \in Seq(Cmds) /\ Len(<<o, p>>) > 0
    OBVIOUS
  <2>3. \A o, p, q, r \in Cmds : <<o, p, q, r>> \in Seq(Cmds) /\ Len(<<o, p, q, r>>) > 0
    OBVIOUS
  <2>4. /\ Op("info", Nothing) \in Cmds /\ Op("create", Nothing) \in Cmds
        /\ Op("attach", Nothing) \in Cmds /\ Op("scanout", Nothing) \in Cmds
        /\ Op("transfer", Nothing) \in Cmds /\ Op("flush", Nothing) \in Cmds
    BY <1>1
  <2>5. GpuFlush \in Seq(Cmds) /\ Len(GpuFlush) > 0
    BY <2>2, <2>4 DEF GpuFlush
  <2>6. GpuInit \in Seq(Cmds) /\ Len(GpuInit) > 0
    BY <2>3, <2>4 DEF GpuInit
  <2>7. QED
    BY <2>1, <2>5, <2>6
<1>7. QED
  BY <1>3, <1>4, <1>5, <1>6 DEF Requesters

\* The first of a sequence and the others.
LEMMA TailFacts ==
  ASSUME NEW R, NEW s \in Seq(R), s # <<>>
  PROVE  /\ Head(s) = s[1] /\ Head(s) \in R /\ Len(s) \in Nat \ {0}
         /\ Tail(s) \in Seq(R) /\ Len(Tail(s)) = Len(s) - 1
         /\ \A i \in 1 .. Len(s) - 1 : Tail(s)[i] = s[i + 1]
OBVIOUS

\* Nothing has been carried out.
LEMMA NoneDone ==
  ASSUME NEW c
  PROVE  Prefix(c, 0) = <<>>
<1>1. \A j \in 1 .. 0 : c[j] \in {}
  OBVIOUS
<1>2. QED
  BY <1>1, PrefixFacts

\* All commands have been carried out.
LEMMA AllDone ==
  ASSUME NEW R, NEW c \in Seq(R)
  PROVE  Prefix(c, Len(c)) = c
<1>1. Len(c) \in Nat /\ \A j \in 1 .. Len(c) : c[j] \in R
  OBVIOUS
<1>2. PICK p : p = Prefix(c, Len(c))
  OBVIOUS
<1>3. p \in Seq(R) /\ Len(p) = Len(c) /\ \A j \in 1 .. Len(c) : p[j] = c[j]
  BY <1>1, <1>2, PrefixFacts
<1>4. p = c
  BY <1>3
<1>5. QED
  BY <1>2, <1>4

\* What a call that has failed has done.
LEMMA PartDone ==
  ASSUME NEW R, NEW c \in Seq(R), NEW m \in 0 .. Len(c) - 1
  PROVE  IsStrictPrefix(Prefix(c, m), c)
<1>1. m \in Nat /\ Len(c) \in Nat /\ m < Len(c) /\ \A j \in 1 .. Len(c) : c[j] \in R
  OBVIOUS
<1>2. PICK p : p = Prefix(c, m)
  OBVIOUS
<1>3. p \in Seq(R) /\ Len(p) = m /\ \A j \in 1 .. m : p[j] = c[j]
  <2>1. \A j \in 1 .. m : c[j] \in R
    BY <1>1
  <2>2. QED
    BY <1>1, <1>2, <2>1, PrefixFacts
<1>4. SubSeq(p, 1, m) = SubSeq(c, 1, m)
  <2>1. SubSeq(p, 1, m) = [j \in 1 .. m |-> p[j]]
    BY <1>1, <1>3
  <2>2. SubSeq(c, 1, m) = [j \in 1 .. m |-> c[j]]
    BY <1>1
  <2>3. QED
    BY <1>3, <2>1, <2>2
<1>5. p # c /\ Len(p) <= Len(c)
  BY <1>1, <1>3
<1>6. QED
  BY <1>2, <1>3, <1>4, <1>5 DEF IsStrictPrefix, IsPrefix

\* The command that has been submitted.
LEMMA SubmitAsks ==
  ASSUME DriverInv, user \in Requesters, NEW op \in Cmds, Submit(op), UNCHANGED <<user, jobs>>,
         InFlight = {}
  PROVE  \/ pc' = "idle" /\ answer' = "failed" /\ InFlight' = {}
         \/ /\ pc' = "poll"
            /\ \E h \in Descs' : /\ InFlight' = {h} /\ h \notin Usd' /\ op = Op(cmd', addr'[h])
                                 /\ jobs' = {}
<1>1. /\ QueueInv'
      /\ \/ /\ Added(free_head) /\ addr' = [addr EXCEPT ![free_head] = op.buf]
            /\ pc' = "poll" /\ answer' = answer
         \/ Still /\ addr' = addr /\ pc' = "idle" /\ answer' = "failed"
  BY SubmitQueue
<1>2. QueueInv /\ user \in DOMAIN ChainLen
  BY UserFacts
<1>3. Avl = {} /\ Working = {} /\ Usd = {}
  BY <1>2, QueueFacts
<1>4. jobs = {}
  BY <1>3 DEF Working
<1>5. CASE Still /\ pc' = "idle" /\ answer' = "failed"
  BY <1>3, <1>5 DEF Still, Flights
<1>6. CASE Added(free_head) /\ addr' = [addr EXCEPT ![free_head] = op.buf] /\ pc' = "poll"
  <2>1. PICK h : h = free_head
    OBVIOUS
  <2>2. h \in Descs /\ h \in 0 .. MaxNum - 1 /\ num' = num /\ InFlight' = {h} /\ Usd' = {}
    BY <1>3, <1>6, <2>1 DEF Added, Flights
  <2>3. h \in Descs'
    BY <2>2 DEF Descs
  <2>4. addr'[h] = op.buf
    BY <1>6, <2>1, <2>2, TypeFacts
  <2>5. cmd' = op.what
    BY DEF Submit
  <2>6. op = Op(cmd', addr'[h])
    BY <2>4, <2>5, CmdFacts
  <2>7. QED
    BY <1>4, <1>6, <2>2, <2>3, <2>6
<1>7. QED
  BY <1>1, <1>5, <1>6

\* The k-th command of a call is submitted.
LEMMA RequestSubmits ==
  ASSUME DriverInv, user \in Requesters, NEW op \in Cmds, Submit(op), UNCHANGED <<user, jobs>>,
         InFlight = {}, NEW k \in Nat \ {0}, Asked(k)', call'[k] = op, effects' = Prefix(call', k - 1)
  PROVE  RequestInv'
<1>1. Len(call') \in Nat /\ k \in 0 .. Len(call') /\ k - 1 \in 0 .. Len(call') - 1
  <2>1. Len(call') = k + Len(todo') /\ Len(todo') \in Nat
    BY DEF Asked
  <2>2. QED
    BY <2>1
<1>2. CASE pc' = "idle" /\ answer' = "failed" /\ InFlight' = {}
  <2>1. \E m \in 0 .. Len(call') - 1 : effects' = Prefix(call', m)
    BY <1>1
  <2>2. Stage(k)'
    BY <1>2, <2>1 DEF Stage, Done
  <2>3. QED
    BY <1>1, <2>2 DEF RequestInv
<1>3. ASSUME pc' = "poll", NEW h \in Descs', InFlight' = {h}, h \notin Usd',
             op = Op(cmd', addr'[h]), jobs' = {}
      PROVE  RequestInv'
  <2>1. Under(k, h)'
    BY <1>3 DEF Under, Done
  <2>2. Stage(k)'
    BY <1>3, <2>1 DEF Stage
  <2>3. QED
    BY <1>1, <2>2 DEF RequestInv
<1>4. QED
  BY <1>2, <1>3, SubmitAsks

\* A call begins.
LEMMA CallAsks ==
  ASSUME DriverInv, RequestInv, NEW c \in Calls(user), Call(c), timeouts = 0
  PROVE  RequestInv'
<1>1. user \in Requesters /\ pc = "idle" /\ call' = c /\ todo' = Tail(c) /\ effects' = <<>>
      /\ UNCHANGED <<user, jobs>>
  BY DEF Call
<1>2. c \in Seq(Cmds) /\ Len(c) > 0
  BY <1>1, CallFacts
<1>3. PICK op : op = Head(c)
  OBVIOUS
<1>4. Submit(op)
  BY <1>3 DEF Call
<1>5. c # <<>>
  BY <1>2
<1>6. /\ op \in Cmds /\ op = c[1] /\ Len(c) \in Nat \ {0} /\ Tail(c) \in Seq(Cmds)
      /\ Len(Tail(c)) = Len(c) - 1 /\ \A i \in 1 .. Len(c) - 1 : Tail(c)[i] = c[i + 1]
  BY <1>2, <1>3, <1>5, TailFacts
<1>7. Asked(1)'
  <2>1. Len(call') = 1 + Len(todo')
    BY <1>1, <1>6
  <2>2. \A i \in 1 .. Len(todo') : todo'[i] = call'[1 + i]
    BY <1>1, <1>6
  <2>3. QED
    BY <1>1, <1>2, <1>6, <2>1, <2>2 DEF Asked
<1>8. InFlight = {}
  BY <1>1 DEF RequestInv, Stage
<1>9. effects' = Prefix(call', 1 - 1)
  BY <1>1, NoneDone
<1>10. call'[1] = op /\ 1 \in Nat \ {0}
  BY <1>1, <1>6
<1>11. QED
  BY <1>1, <1>4, <1>6, <1>7, <1>8, <1>9, <1>10, RequestSubmits

\* A call goes on with its next command.
LEMMA NextAsks ==
  ASSUME DriverInv, RequestInv, NextCommand, timeouts = 0
  PROVE  RequestInv'
<1>1. user \in Requesters /\ pc = "next" /\ todo' = Tail(todo) /\ call' = call
      /\ effects' = effects /\ UNCHANGED <<user, jobs>>
  BY UserFacts DEF NextCommand
<1>2. PICK k \in 0 .. Len(call) : Asked(k) /\ Stage(k)
  BY <1>1 DEF RequestInv
<1>3. InFlight = {} /\ todo # <<>> /\ effects = Prefix(call, k)
  BY <1>1, <1>2 DEF Stage, Done
<1>4. /\ k \in Nat /\ call \in Seq(Cmds) /\ todo \in Seq(Cmds) /\ Len(call) = k + Len(todo)
      /\ \A i \in 1 .. Len(todo) : todo[i] = call[k + i]
  BY <1>2 DEF Asked
<1>5. PICK op : op = Head(todo)
  OBVIOUS
<1>6. Submit(op)
  BY <1>5 DEF NextCommand
<1>7. /\ op \in Cmds /\ op = todo[1] /\ Len(todo) \in Nat \ {0} /\ Tail(todo) \in Seq(Cmds)
      /\ Len(Tail(todo)) = Len(todo) - 1
      /\ \A i \in 1 .. Len(todo) - 1 : Tail(todo)[i] = todo[i + 1]
  BY <1>3, <1>4, <1>5, TailFacts
<1>8. PICK j \in Nat \ {0} : j = k + 1
  BY <1>4
<1>9. op = call[j] /\ k = j - 1
  <2>1. 1 \in 1 .. Len(todo)
    BY <1>7
  <2>2. QED
    BY <1>4, <1>7, <1>8, <2>1
<1>10. Asked(j)'
  <2>1. Len(call') = j + Len(todo')
    BY <1>1, <1>4, <1>7, <1>8
  <2>2. ASSUME NEW i \in 1 .. Len(todo') PROVE todo'[i] = call'[j + i]
    <3>1. i \in 1 .. Len(todo) - 1 /\ i + 1 \in 1 .. Len(todo) /\ k + (i + 1) = j + i
      BY <1>1, <1>7, <1>8
    <3>2. todo'[i] = todo[i + 1] /\ todo[i + 1] = call[k + (i + 1)]
      BY <1>1, <1>4, <1>7, <3>1
    <3>3. QED
      BY <1>1, <3>1, <3>2
  <2>3. QED
    BY <1>1, <1>4, <1>7, <1>8, <2>1, <2>2 DEF Asked
<1>11. effects' = Prefix(call', j - 1)
  BY <1>1, <1>3, <1>9
<1>12. QED
  BY <1>1, <1>3, <1>6, <1>7, <1>9, <1>10, <1>11, RequestSubmits

\* The loop ends.
LEMMA FinishAsks ==
  ASSUME DriverInv, RequestInv, Finish, timeouts = 0
  PROVE  RequestInv'
<1>1. /\ user \in Requesters /\ pc = "poll" /\ user \in DOMAIN ChainLen /\ QueueInv
      /\ HasUsed /\ GetUsed
      /\ UNCHANGED <<user, call, todo, cmd, resp, addr, jobs, effects>>
      /\ IF GoodResponse /\ todo # <<>> THEN pc' = "next"
         ELSE pc' = "idle" /\ answer' = IF GoodResponse THEN "ok" ELSE "failed"
  BY UserFacts DEF Finish
<1>2. PICK k \in 0 .. Len(call) : Asked(k) /\ Stage(k)
  BY <1>1 DEF RequestInv
<1>3. k > 0
  BY <1>1, <1>2 DEF Stage
<1>4. PICK h \in Descs : Under(k, h)
  BY <1>1, <1>2 DEF Stage
<1>5. PICK head : head = used[last_used_idx % num]
  OBVIOUS
<1>6. head \in Usd /\ Flights(Avl, Working, Usd \ {head})
  BY <1>1, <1>5, GetQueue DEF GotUsed
<1>7. head = h /\ h \in Usd /\ InFlight' = {}
  <2>1. InFlight = (Avl \cup Working) \cup Usd /\ InFlight = {h}
    BY <1>1, <1>4, QueueFacts DEF Under
  <2>2. head = h
    BY <1>6, <2>1
  <2>3. Usd \cap Avl = {} /\ Usd \cap Working = {}
    BY <1>1 DEF QueueInv, FlightInv
  <2>4. QED
    BY <1>6, <2>1, <2>2, <2>3 DEF Flights
<1>8. effects = Prefix(call, IF GoodResponse THEN k ELSE k - 1)
  BY <1>4, <1>7 DEF Under, Done
<1>9. Asked(k)'
  BY <1>1, <1>2 DEF Asked
<1>10. /\ Len(call) = k + Len(todo) /\ Len(todo) \in Nat /\ k \in Nat /\ call \in Seq(Cmds)
       /\ todo = <<>> => Len(todo) = 0
  BY <1>2 DEF Asked
<1>11. Stage(k)'
  <2>1. CASE GoodResponse /\ todo # <<>>
    BY <1>1, <1>7, <1>8, <2>1 DEF Stage, Done
  <2>2. CASE GoodResponse /\ todo = <<>>
    <3>1. pc' = "idle" /\ answer' = "ok" /\ k = Len(call)
      BY <1>1, <1>10, <2>2
    <3>2. effects' = Prefix(call', Len(call'))
      BY <1>1, <1>8, <2>2, <3>1
    <3>3. QED
      BY <1>7, <3>1, <3>2 DEF Stage, Done
  <2>3. CASE ~GoodResponse
    <3>1. pc' = "idle" /\ answer' = "failed"
      BY <1>1, <2>3
    <3>2. k - 1 \in 0 .. Len(call') - 1
      BY <1>1, <1>3, <1>10
    <3>3. effects' = Prefix(call', k - 1)
      BY <1>1, <1>8, <2>3
    <3>4. \E m \in 0 .. Len(call') - 1 : effects' = Prefix(call', m)
      BY <3>2, <3>3
    <3>5. QED
      BY <1>7, <3>1, <3>4 DEF Stage, Done
  <2>4. QED
    BY <2>1, <2>2, <2>3
<1>12. k \in 0 .. Len(call')
  BY <1>1
<1>13. QED
  BY <1>9, <1>11, <1>12 DEF RequestInv

\* What the device works on is in flight, and there is only one chain.
LEMMA OnlyOne ==
  ASSUME DriverInv, RequestInv, user \in Requesters, timeouts = 0, InFlight # {}
  PROVE  \E k \in 0 .. Len(call) : \E h \in Descs : pc = "poll" /\ k > 0 /\ Asked(k) /\ Under(k, h)
<1>1. PICK k \in 0 .. Len(call) : Asked(k) /\ Stage(k)
  BY DEF RequestInv
<1>2. pc \in {"idle", "next", "poll"}
  BY TypeFacts
<1>3. pc = "poll" /\ k > 0 /\ \E h \in Descs : Under(k, h)
  BY <1>1, <1>2 DEF Stage
<1>4. QED
  BY <1>1, <1>3

\* The device reads the request that is there: the one that was submitted.
LEMMA FetchAsks ==
  ASSUME DriverInv, RequestInv, user \in Requesters, Fetch, timeouts = 0
  PROVE  RequestInv'
<1>1. /\ user \in DOMAIN ChainLen /\ QueueInv /\ HasAvail /\ TakeAvail
      /\ UNCHANGED <<user, pc, call, todo, cmd, resp, answer, addr, effects, timeouts>>
      /\ jobs' = jobs \cup {[head |-> NextAvail, op |-> Op(cmd, addr[NextAvail])]}
  BY UserFacts DEF Fetch, requestVars
<1>2. PICK head, o : head = NextAvail /\ o = Op(cmd, addr[NextAvail])
  OBVIOUS
<1>3. head \in Avl /\ Flights(Avl \ {head}, Working \cup {head}, Usd)
  <2>1. jobs' = jobs \cup {[head |-> head, op |-> o]}
    BY <1>1, <1>2
  <2>2. QED
    BY <1>1, <1>2, <2>1, FetchKeeps
<1>4. InFlight = (Avl \cup Working) \cup Usd /\ Usd \cap Avl = {}
  BY <1>1, QueueFacts DEF QueueInv, FlightInv
<1>5. InFlight # {}
  BY <1>3, <1>4
<1>6. PICK k \in 0 .. Len(call) : \E h \in Descs : pc = "poll" /\ k > 0 /\ Asked(k) /\ Under(k, h)
  BY <1>5, OnlyOne
<1>7. PICK h \in Descs : pc = "poll" /\ k > 0 /\ Asked(k) /\ Under(k, h)
  BY <1>6
<1>8. head = h /\ h \notin Usd /\ InFlight' = {h} /\ Usd' = Usd
  <2>1. InFlight = {h}
    BY <1>7 DEF Under
  <2>2. QED
    BY <1>3, <1>4, <2>1 DEF Flights
<1>9. \A job \in jobs' : job.op = call'[k]
  <2>1. \A job \in jobs : job.op = call[k]
    BY <1>7 DEF Under
  <2>2. o = call[k]
    BY <1>2, <1>7, <1>8 DEF Under
  <2>3. jobs' = jobs \cup {[head |-> head, op |-> o]}
    BY <1>1, <1>2
  <2>4. QED
    BY <1>1, <2>1, <2>2, <2>3
<1>10. Under(k, h)'
  <2>1. h \in Descs' /\ call'[k] = Op(cmd', addr'[h])
    BY <1>1, <1>7 DEF Under, TakeAvail, Descs
  <2>2. effects' = Prefix(call', k - 1)
    BY <1>1, <1>7, <1>8 DEF Under, Done
  <2>3. QED
    BY <1>8, <1>9, <2>1, <2>2 DEF Under, Done
<1>11. Asked(k)' /\ Stage(k)'
  BY <1>1, <1>7, <1>10 DEF Asked, Stage, Under
<1>12. QED
  BY <1>1, <1>11 DEF RequestInv

\* It carries it out, or fails.
LEMMA CompleteAsks ==
  ASSUME DriverInv, RequestInv, NEW job \in jobs, Complete(job), timeouts = 0
  PROVE  RequestInv'
<1>1. /\ user \in Requesters /\ user \in DOMAIN ChainLen /\ QueueInv
      /\ PutUsed(job.head) /\ jobs' = jobs \ {job}
      /\ UNCHANGED <<user, pc, call, todo, cmd, answer, addr, timeouts>>
  BY UserFacts DEF Complete
<1>2. PICK head : head = job.head
  OBVIOUS
<1>3. /\ head \in Working /\ Flights(Avl, Working \ {head}, Usd \cup {head})
  BY <1>1, <1>2, PutKeeps
<1>4. InFlight = (Avl \cup Working) \cup Usd /\ Working \cap Usd = {}
  BY <1>1, QueueFacts DEF QueueInv, FlightInv
<1>5. InFlight # {}
  BY <1>3, <1>4
<1>6. PICK k \in 0 .. Len(call) : \E h \in Descs : pc = "poll" /\ k > 0 /\ Asked(k) /\ Under(k, h)
  BY <1>1, <1>5, OnlyOne
<1>7. PICK h \in Descs : pc = "poll" /\ k > 0 /\ Asked(k) /\ Under(k, h)
  BY <1>6
<1>8. head = h /\ h \notin Usd /\ InFlight' = {h} /\ h \in Usd'
  <2>1. InFlight = {h}
    BY <1>7 DEF Under
  <2>2. QED
    BY <1>3, <1>4, <2>1 DEF Flights
<1>9. /\ job.op = call[k] /\ job.op.what = cmd /\ k \in Nat \ {0}
      /\ effects = Prefix(call, k - 1)
  <2>1. job.op = call[k] /\ call[k] = Op(cmd, addr[h])
    BY <1>7 DEF Under
  <2>2. QED
    BY <1>7, <1>8, <2>1 DEF Under, Done, Op, Asked
<1>10. effects' = Prefix(call', IF GoodResponse' THEN k ELSE k - 1)
  <2>1. CASE /\ effects' = Append(effects, job.op)
             /\ resp' = CASE user = "blk" -> "ok"
                          [] user = "gpu" -> IF job.op.what = "info" THEN "info" ELSE "nodata"
                          [] OTHER -> resp
    <3>1. GoodResponse'
      BY <1>1, <1>9, <2>1 DEF GoodResponse
    <3>2. k - 1 \in Nat /\ (k - 1) + 1 = k
      BY <1>9
    <3>3. Append(Prefix(call, k - 1), call[k]) = Prefix(call, k)
      BY <3>2, PrefixAppend
    <3>4. QED
      BY <1>1, <1>9, <2>1, <3>1, <3>3
  <2>2. CASE user \in {"blk", "gpu"} /\ resp' = "error" /\ effects' = effects
    <3>1. ~GoodResponse'
      BY <1>1, <2>2 DEF GoodResponse
    <3>2. QED
      BY <1>1, <1>9, <2>2, <3>1
  <2>3. QED
    BY <2>1, <2>2 DEF Complete
<1>11. Under(k, h)'
  <2>1. h \in Descs' /\ call'[k] = Op(cmd', addr'[h])
    BY <1>1, <1>7 DEF Under, PutUsed, Descs
  <2>2. \A j \in jobs' : j.op = call'[k]
    BY <1>1, <1>7 DEF Under
  <2>3. QED
    BY <1>8, <1>10, <2>1, <2>2 DEF Under, Done
<1>12. Asked(k)' /\ Stage(k)'
  BY <1>1, <1>7, <1>11 DEF Asked, Stage, Under
<1>13. QED
  BY <1>1, <1>12 DEF RequestInv

\* Every step of a driver or of its device keeps a request where it belongs.
LEMMA RequestNext ==
  ASSUME DriverInv, RequestInv, DriversNext
  PROVE  RequestInv'
<1> SUFFICES ASSUME user' \in Requesters, timeouts' = 0 PROVE RequestInv'
  BY DEF RequestInv
<1>1. user' = user /\ user \in Requesters /\ user \notin Pools
  BY SomebodyWorks, UserFacts
<1>2. timeouts = 0 /\ ~Timeout
  <2>1. timeouts \in Nat
    BY TypeFacts, DriversAssumption
  <2>2. timeouts' = timeouts \/ timeouts' = timeouts + 1
    BY DEF DriversNext, Call, NextCommand, Finish, Timeout, Fetch, Complete, Receive, FillQueue,
           Take, Copy, PostAgain, requestVars
  <2>3. Timeout => timeouts' = timeouts + 1
    BY DEF Timeout
  <2>4. QED
    BY <2>1, <2>2, <2>3
<1>3. pc \in {"idle", "next", "poll"}
  BY <1>1, TypeFacts
<1>4. ~FillQueue /\ ~Copy /\ ~PostAgain /\ ~Take
  BY <1>1, <1>3 DEF FillQueue, Copy, PostAgain, Take
<1>5. \A job \in jobs : ~Receive(job)
  BY <1>1 DEF Receive
<1>6. QED
  BY <1>1, <1>2, <1>4, <1>5, CallAsks, NextAsks, FinishAsks, FetchAsks, CompleteAsks DEF DriversNext

\* The steps of bringing drivers up leave it there.
LEMMA RequestStutters ==
  ASSUME RequestInv, UNCHANGED driverVars
  PROVE  RequestInv'
<1>1. /\ num' = num /\ avail_idx' = avail_idx /\ avail' = avail /\ last_used_idx' = last_used_idx
      /\ used_idx' = used_idx /\ used' = used /\ seen_idx' = seen_idx
      /\ jobs' = jobs /\ user' = user /\ pc' = pc /\ addr' = addr
      /\ call' = call /\ todo' = todo /\ cmd' = cmd /\ resp' = resp /\ answer' = answer
      /\ effects' = effects /\ timeouts' = timeouts
  BY DEF driverVars, requestVars, queueVars
<1>2. Descs' = Descs /\ Working' = Working /\ Usd' = Usd /\ InFlight' = InFlight
  BY <1>1 DEF Descs, Working, Usd, InFlight, Between
<1>3. GoodResponse' = GoodResponse
  BY <1>1 DEF GoodResponse
<1>4. \A k : Asked(k)' = Asked(k) /\ Done(k)' = Done(k)
  BY <1>1 DEF Asked, Done
<1>5. \A k, h : Under(k, h)' = Under(k, h)
  BY <1>1, <1>2, <1>3 DEF Under, Done
<1>6. \A k : Stage(k)' = Stage(k)
  BY <1>1, <1>2, <1>5 DEF Stage, Done
<1>7. QED
  BY <1>1, <1>4, <1>6 DEF RequestInv

\* A driver begins without a request.
LEMMA RequestWork ==
  ASSUME BringUpInv, SizesInv, DriverInv, NEW d \in DOMAIN QueueOf, Work(d)
  PROVE  RequestInv'
<1>1. InFlight' = {}
  BY DriverWork
<1>2. user = "nobody" /\ UNCHANGED requestVars
  BY DEF Work
<1>3. call' = <<>> /\ todo' = <<>> /\ effects' = <<>>
  BY <1>2 DEF DriverInv, PlaceInv, Fresh, requestVars
<1>4. user' \in Requesters => pc' = "idle"
  BY DEF Work, Requesters, Pools
<1>5. Asked(0)'
  <2>1. <<>> \in Seq(Cmds) /\ Len(<<>>) = 0 /\ 0 = 0 + 0 /\ 1 .. 0 = {}
    OBVIOUS
  <2>2. QED
    BY <1>3, <2>1 DEF Asked
<1>6. user' \in Requesters => Stage(0)'
  BY <1>1, <1>3, <1>4 DEF Stage
<1>7. 0 \in 0 .. Len(call')
  BY <1>3
<1>8. QED
  BY <1>5, <1>6, <1>7 DEF RequestInv

\* As long as no request has timed out, a request is where its driver is, in
\* every state.
LEMMA RequestsAreSafe == Spec => []RequestInv
<1>1. Init => RequestInv
  BY DEF Init, DriversInit, RequestInv, Requesters
<1>2. BringUpInv /\ SizesInv /\ DriverInv /\ RequestInv /\ [Next]_vars => RequestInv'
  BY StepOfDrivers, RequestStutters, RequestNext, RequestWork
<1>3. QED
  BY <1>1, <1>2, BringUpIsSafe, SizesAreSafe, DriversAreSafe, PTL DEF Spec

\* A call that has returned has had each of its commands carried out, once and
\* in order, with the request and the buffer of this call, or has stopped at
\* the one that failed; and nothing is in flight any more, as long as no
\* request has timed out (blk_do_request, gpu_send_cmd, virtio_net_tx,
\* virtio_rng_read).
THEOREM RequestsAreDoneHolds == Spec => []RequestsAreDone
<1>1. RequestInv => RequestsAreDone
  <2> SUFFICES ASSUME RequestInv, user \in Requesters, pc = "idle", timeouts = 0, call # <<>>
               PROVE  /\ InFlight = {}
                      /\ IF answer = "ok" THEN effects = call ELSE IsStrictPrefix(effects, call)
    BY DEF RequestsAreDone
  <2>1. PICK k \in 0 .. Len(call) : Asked(k) /\ Stage(k)
    BY DEF RequestInv
  <2>2. call \in Seq(Cmds)
    BY <2>1 DEF Asked
  <2>3. /\ InFlight = {}
        /\ IF answer = "ok" THEN Done(Len(call)) ELSE \E m \in 0 .. Len(call) - 1 : Done(m)
    BY <2>1 DEF Stage
  <2>4. answer = "ok" => effects = call
    BY <2>2, <2>3, AllDone DEF Done
  <2>5. answer # "ok" => IsStrictPrefix(effects, call)
    BY <2>2, <2>3, PartDone DEF Done
  <2>6. QED
    BY <2>3, <2>4, <2>5
<1>2. QED
  BY <1>1, RequestsAreSafe, PTL

-----------------------------------------------------------------------------
(* Pools.                                                                  *)

\* The buffers in flight.
Slots == {slot_of[h] : h \in InFlight}

\* Each buffer of the pool is in one chain, and the chain points to it; all
\* are in flight but the one that is being taken out.
SlotsInv ==
  /\ \A h \in InFlight : addr[h] = slot_of[h]
  /\ \A g, h \in InFlight : slot_of[g] = slot_of[h] => g = h
  /\ \A job \in jobs : job.op.buf = slot_of[job.head]
  /\ pc = "idle" => Slots = 0 .. PoolCount - 1
  /\ pc = "fill" => Slots = 0 .. filled - 1
  /\ pc \in {"copy", "post"} => /\ slot \in 0 .. PoolCount - 1
                                /\ Slots = (0 .. PoolCount - 1) \ {slot}

\* The entries of the used ring that the driver has not seen: those with a
\* frame or an event, and what the buffer of each one holds.
Framed == {k \in 0 .. Dist(last_used_idx, used_idx) - 1 :
             length[Entry(used, last_used_idx, k)] = "frame"}
Held == [k \in 0 .. Dist(last_used_idx, used_idx) - 1 |->
           content[slot_of[Entry(used, last_used_idx, k)]]]

\* At the positions F, C has the numbers from a up to b, in order.
InOrder(F, C, a, b) ==
  /\ \A k, l \in F : k < l => C[k] < C[l]
  /\ \A k \in F : C[k] \in a .. b
  /\ \A x \in a .. b : \E k \in F : C[k] = x

\* The number of the frame that is due when g were handed out: one more may
\* have been taken out of the ring.
Due(g) == IF pc = "copy" /\ full THEN g + 2 ELSE g + 1

\* Where the g frames are that were handed out, and the others.
FramesAre(g) ==
  /\ got = [i \in 1 .. g |-> i]
  /\ pc = "copy" /\ full => content[slot] = g + 1
  /\ Due(g) <= arrived + 1
  /\ InOrder(Framed, Held, Due(g), arrived)
FramesInv == \E g \in 0 .. MaxFrames : FramesAre(g)

PoolInv == user \in Pools => SlotsInv /\ FramesInv

-----------------------------------------------------------------------------
\* The first of the numbers in order goes, or one that is none of them.
LEMMA OrderDrop ==
  ASSUME NEW n \in Nat \ {0}, NEW F \in SUBSET (0 .. n - 1), NEW C, NEW a \in Nat, NEW b \in Nat,
         InOrder(F, C, a, b),
         NEW F2, F2 = {k \in 0 .. (n - 1) - 1 : k + 1 \in F},
         NEW C2, \A k \in 0 .. (n - 1) - 1 : C2[k] = C[k + 1]
  PROVE  /\ 0 \in F => C[0] = a /\ a <= b /\ InOrder(F2, C2, a + 1, b)
         /\ 0 \notin F => InOrder(F2, C2, a, b)
<1>1. /\ \A k, l \in F : k < l => C[k] < C[l]
      /\ \A k \in F : C[k] \in a .. b
      /\ \A x \in a .. b : \E k \in F : C[k] = x
  BY DEF InOrder
<1>2. \A k \in F2 : k + 1 \in F /\ C2[k] = C[k + 1] /\ k \in Nat
  OBVIOUS
<1>3. \A k \in F : k # 0 => k - 1 \in F2 /\ C2[k - 1] = C[k]
  <2>1. ASSUME NEW k \in F, k # 0 PROVE k - 1 \in F2 /\ C2[k - 1] = C[k]
    <3>1. PICK j \in 0 .. (n - 1) - 1 : k = j + 1
      BY <2>1
    <3>2. j \in F2 /\ C2[j] = C[k] /\ k - 1 = j
      BY <3>1
    <3>3. QED
      BY <3>2
  <2>2. QED
    BY <2>1
<1>4. \A k, l \in F2 : k < l => C2[k] < C2[l]
  BY <1>1, <1>2
<1>5. CASE 0 \in F
  <2>1. C[0] \in a .. b /\ a \in a .. b
    BY <1>1, <1>5
  <2>2. C[0] = a
    <3>1. PICK k \in F : C[k] = a
      BY <1>1, <2>1
    <3>2. k # 0 => C[0] < a
      BY <1>1, <1>5, <3>1
    <3>3. QED
      BY <2>1, <3>1, <3>2
  <2>3. ASSUME NEW k \in F2 PROVE C2[k] \in a + 1 .. b
    <3>1. C[0] < C[k + 1] /\ C[k + 1] \in a .. b
      BY <1>1, <1>2, <1>5
    <3>2. QED
      BY <1>2, <2>2, <3>1
  <2>4. ASSUME NEW x \in a + 1 .. b PROVE \E k \in F2 : C2[k] = x
    <3>1. PICK k \in F : C[k] = x
      BY <1>1
    <3>2. k # 0
      BY <2>2, <3>1
    <3>3. QED
      BY <1>3, <3>1, <3>2
  <2>5. InOrder(F2, C2, a + 1, b)
    BY <1>4, <2>3, <2>4 DEF InOrder
  <2>6. QED
    BY <1>5, <2>1, <2>2, <2>5
<1>6. CASE 0 \notin F
  <2>1. ASSUME NEW x \in a .. b PROVE \E k \in F2 : C2[k] = x
    <3>1. PICK k \in F : C[k] = x
      BY <1>1
    <3>2. QED
      BY <1>3, <1>6, <3>1
  <2>2. \A k \in F2 : C2[k] \in a .. b
    BY <1>1, <1>2
  <2>3. QED
    BY <1>4, <1>6, <2>1, <2>2 DEF InOrder
<1>7. QED
  BY <1>5, <1>6

\* The next number comes in.
LEMMA OrderPut ==
  ASSUME NEW n \in Nat, NEW F \in SUBSET (0 .. n - 1), NEW C, NEW a \in Nat, NEW b \in Nat,
         InOrder(F, C, a, b), a <= b + 1,
         NEW C2, \A k \in F : C2[k] = C[k], C2[n] = b + 1
  PROVE  InOrder(F \cup {n}, C2, a, b + 1)
<1>1. /\ \A k, l \in F : k < l => C[k] < C[l]
      /\ \A k \in F : C[k] \in a .. b
      /\ \A x \in a .. b : \E k \in F : C[k] = x
  BY DEF InOrder
<1>2. ASSUME NEW k \in F \cup {n}, NEW l \in F \cup {n}, k < l PROVE C2[k] < C2[l]
  <2>1. k \in F
    BY <1>2
  <2>2. CASE l \in F
    BY <1>1, <1>2, <2>1, <2>2
  <2>3. CASE l = n
    BY <1>1, <2>1, <2>3
  <2>4. QED
    BY <2>2, <2>3
<1>3. \A k \in F \cup {n} : C2[k] \in a .. b + 1
  <2>1. \A k \in F : C2[k] \in a .. b + 1
    BY <1>1
  <2>2. C2[n] \in a .. b + 1
    OBVIOUS
  <2>3. QED
    BY <2>1, <2>2
<1>4. ASSUME NEW x \in a .. b + 1 PROVE \E k \in F \cup {n} : C2[k] = x
  <2>1. CASE x = b + 1
    BY <2>1
  <2>2. CASE x # b + 1
    <3>1. x \in a .. b
      BY <2>2
    <3>2. QED
      BY <1>1, <3>1
  <2>3. QED
    BY <2>1, <2>2
<1>5. QED
  BY <1>2, <1>3, <1>4 DEF InOrder

\* A pool always finds a descriptor: there are at least as many as buffers,
\* and not all buffers are in flight.
LEMMA PoolRoom ==
  ASSUME DriverInv, user \in Pools, SlotsInv, pc \in {"fill", "post"}
  PROVE  HasRoom(1)
<1>1. QueueInv /\ user \in DOMAIN ChainLen /\ ChainLen[user] = 1
  BY UserFacts
<1>2. num \in QueueSizes /\ num \in Nat \ {0} /\ PoolSize \in Nat
  BY <1>1, QueueFacts, DriversAssumption
<1>3. PoolCount \in Nat /\ PoolCount <= num
  BY <1>2 DEF PoolCount
<1>4. PICK e \in 0 .. PoolCount - 1 : Slots \subseteq (0 .. PoolCount - 1) \ {e}
  <2>1. CASE pc = "fill"
    <3>1. filled \in Nat /\ filled < PoolCount /\ Slots = 0 .. filled - 1
      BY <2>1, TypeFacts, DriversAssumption DEF SlotsInv
    <3>2. filled \in 0 .. PoolCount - 1 /\ 0 .. filled - 1 \subseteq (0 .. PoolCount - 1) \ {filled}
      BY <1>3, <3>1
    <3>3. QED
      BY <3>1, <3>2
  <2>2. CASE pc = "post"
    BY <2>2 DEF SlotsInv
  <2>3. QED
    BY <2>1, <2>2
<1>5. PICK n, f : FreeIs(n, f) /\ SharedOut(n, f)
  BY <1>1 DEF QueueInv, FreeInv
<1>6. n \in Nat
  BY <1>5 DEF FreeIs
<1>7. n # 0
  <2>1. SUFFICES ASSUME n = 0 PROVE FALSE
    OBVIOUS
  <2>2. \A d \in Descs : d \in InFlight
    <3>1. 1 .. n = {} /\ Links = {1}
      BY <1>1, <2>1, QueueFacts
    <3>2. \A d \in Descs : \E h \in InFlight : \E i \in Links : Link(h, i) = d
      BY <1>5, <3>1 DEF SharedOut
    <3>3. \A h : Link(h, 1) = h
      BY DEF Link
    <3>4. QED
      BY <3>1, <3>2, <3>3
  <2>3. \A k \in 0 .. num - 1 : k \in InFlight
    BY <2>2 DEF Descs
  <2> DEFINE S == (0 .. PoolCount - 1) \ {e}
  <2>4. IsFiniteSet(S) /\ Cardinality(S) = PoolCount - 1
    <3>1. IsFiniteSet(0 .. PoolCount - 1) /\ Cardinality(0 .. PoolCount - 1) = PoolCount
      <4>1. IsFiniteSet(0 .. PoolCount - 1)
            /\ Cardinality(0 .. PoolCount - 1) = IF 0 > PoolCount - 1 THEN 0 ELSE PoolCount - 1 - 0 + 1
        BY <1>3, FS_Interval
      <4>2. QED
        BY <1>3, <4>1
    <3>2. QED
      BY <1>4, <3>1, FS_RemoveElement
  <2>5. \A k \in 0 .. num - 1 : slot_of[k] \in S
    BY <1>4, <2>3 DEF Slots
  <2>6. \A k, l \in 0 .. num - 1 : slot_of[k] = slot_of[l] => k = l
    BY <2>3 DEF SlotsInv
  <2> HIDE DEF S
  <2>7. num <= Cardinality(S)
    BY <1>2, <2>4, <2>5, <2>6, Pigeons
  <2>8. QED
    BY <1>2, <1>3, <2>4, <2>7
<1>8. 1 <= n
  BY <1>6, <1>7
<1>9. QED
  BY <1>5, <1>8, RoomFacts

\* What the pool and the used ring have to do with each other.
LEMMA PoolFacts ==
  ASSUME DriverInv, user \in Pools, PoolInv
  PROVE  /\ QueueInv /\ user \in DOMAIN ChainLen /\ SlotsInv /\ FramesInv
         /\ num \in QueueSizes /\ InFlight = (Avl \cup Working) \cup Usd
         /\ Usd = {Entry(used, last_used_idx, k) : k \in 0 .. Dist(last_used_idx, used_idx) - 1}
         /\ Dist(last_used_idx, used_idx) \in Nat
         /\ Framed \subseteq 0 .. Dist(last_used_idx, used_idx) - 1
         /\ InFlight \subseteq 0 .. MaxNum - 1
         /\ PoolCount \in Nat \ {0} /\ PoolCount <= PoolSize
<1>1. QueueInv /\ user \in DOMAIN ChainLen /\ SlotsInv /\ FramesInv
  BY UserFacts DEF PoolInv
<1>2. num \in QueueSizes /\ InFlight = (Avl \cup Working) \cup Usd /\ InFlight \subseteq Descs
      /\ num \in Nat \ {0}
  BY <1>1, QueueFacts
<1>3. Usd = {Entry(used, last_used_idx, k) : k \in 0 .. Dist(last_used_idx, used_idx) - 1}
  BY BetweenFacts DEF Usd
<1>4. Dist(last_used_idx, used_idx) \in Nat
  <2>1. last_used_idx \in Indices /\ used_idx \in Indices
    BY <1>1, QueueFacts
  <2>2. Dist(last_used_idx, used_idx) \in 0 .. IdxMod - 1 /\ IdxMod \in Nat
    BY <2>1, DistFacts, QueueAssumption
  <2>3. QED
    BY <2>2
<1>5. Framed \subseteq 0 .. Dist(last_used_idx, used_idx) - 1
  BY DEF Framed
<1>6. InFlight \subseteq 0 .. MaxNum - 1
  BY <1>2, DescsFit
<1>7. PoolCount \in Nat \ {0} /\ PoolCount <= PoolSize
  BY <1>2, DriversAssumption DEF PoolCount
<1>8. QED
  BY <1>1, <1>2, <1>3, <1>4, <1>5, <1>6, <1>7

\* A buffer is posted.
LEMMA PostSlots ==
  ASSUME DriverInv, user \in Pools, PoolInv, FillQueue \/ PostAgain
  PROVE  SlotsInv'
<1>1. PICK i : i = IF pc = "fill" THEN filled ELSE slot
  OBVIOUS
<1>2. /\ PostBuffer(i) /\ pc \in {"fill", "post"} /\ UNCHANGED <<user, jobs>> /\ slot' = slot
  BY <1>1 DEF FillQueue, PostAgain
<1>3. HasRoom(1)
  BY <1>2, PoolFacts, PoolRoom
<1>4. PICK head : head = free_head
  OBVIOUS
<1>5. /\ Added(head) /\ addr' = [addr EXCEPT ![head] = i]
      /\ slot_of' = [slot_of EXCEPT ![head] = i]
  BY <1>2, <1>3, <1>4, PostQueue
<1>6. /\ head \notin InFlight /\ InFlight' = InFlight \cup {head} /\ num' = num
      /\ addr'[head] = i /\ slot_of'[head] = i
      /\ \A h \in InFlight : addr'[h] = addr[h] /\ slot_of'[h] = slot_of[h]
  <2>1. head \in 0 .. MaxNum - 1 /\ head \notin InFlight /\ num' = num
        /\ InFlight' = InFlight \cup {head}
    BY <1>5, PoolFacts DEF Added, Flights
  <2>2. DOMAIN addr = 0 .. MaxNum - 1 /\ DOMAIN slot_of = 0 .. MaxNum - 1
    BY TypeFacts
  <2>3. QED
    BY <1>5, <2>1, <2>2
<1>7. i \notin Slots /\ Slots' = Slots \cup {i} /\ PoolCount' = PoolCount
  <2>1. i \notin Slots
    <3>1. filled \in Nat
      BY TypeFacts, DriversAssumption
    <3>2. QED
      BY <1>1, <1>2, <3>1, PoolFacts DEF SlotsInv
  <2>2. Slots' = Slots \cup {i}
    BY <1>6 DEF Slots
  <2>3. QED
    BY <1>6, <2>1, <2>2 DEF PoolCount
<1>8. \A h \in InFlight' : addr'[h] = slot_of'[h]
  BY <1>6, PoolFacts DEF SlotsInv
<1>9. \A g, h \in InFlight' : slot_of'[g] = slot_of'[h] => g = h
  <2>1. \A h \in InFlight : slot_of[h] # i
    BY <1>7 DEF Slots
  <2>2. QED
    BY <1>6, <2>1, PoolFacts DEF SlotsInv
<1>10. \A job \in jobs' : job.op.buf = slot_of'[job.head]
  <2>1. \A job \in jobs : job.head \in InFlight
    BY PoolFacts DEF Working
  <2>2. QED
    BY <1>2, <1>6, <2>1, PoolFacts DEF SlotsInv
<1>11. /\ pc' = "idle" => Slots' = 0 .. PoolCount - 1
       /\ pc' = "fill" => Slots' = 0 .. filled' - 1
       /\ pc' \notin {"copy", "post"}
  <2>1. CASE FillQueue
    <3>1. /\ pc = "fill" /\ filled' = filled + 1 /\ i = filled
          /\ pc' = IF filled' = PoolCount THEN "idle" ELSE "fill"
      BY <1>1, <2>1 DEF FillQueue
    <3>2. Slots = 0 .. filled - 1 /\ filled \in Nat
      BY <3>1, TypeFacts, DriversAssumption, PoolFacts DEF SlotsInv
    <3>3. Slots' = 0 .. filled' - 1
      BY <1>7, <3>1, <3>2
    <3>4. QED
      BY <3>1, <3>3
  <2>2. CASE PostAgain
    <3>1. pc = "post" /\ pc' = "idle" /\ i = slot
      BY <1>1, <2>2 DEF PostAgain, StepAfter
    <3>2. slot \in 0 .. PoolCount - 1 /\ Slots = (0 .. PoolCount - 1) \ {slot}
      BY <3>1, PoolFacts DEF SlotsInv
    <3>3. Slots' = 0 .. PoolCount - 1
      BY <1>7, <3>1, <3>2
    <3>4. QED
      BY <3>1, <3>3
  <2>3. QED
    BY <2>1, <2>2
<1>12. QED
  BY <1>7, <1>8, <1>9, <1>10, <1>11 DEF SlotsInv

\* A buffer is taken out, and copied.
LEMMA TakeSlots ==
  ASSUME DriverInv, user \in Pools, PoolInv, Take
  PROVE  SlotsInv'
<1>1. PICK head : head = used[last_used_idx % num]
  OBVIOUS
<1>2. /\ pc = "idle" /\ pc' = "copy" /\ slot' = slot_of[head] /\ HasUsed /\ GetUsed
      /\ UNCHANGED <<user, jobs, addr, slot_of, filled>>
  BY <1>1 DEF Take, StepAfter
<1>3. head \in Usd /\ Flights(Avl, Working, Usd \ {head}) /\ num' = num
  BY <1>1, <1>2, PoolFacts, GetQueue DEF GotUsed
<1>4. head \in InFlight /\ InFlight' = InFlight \ {head}
  <2>1. Avl \cap Usd = {} /\ Working \cap Usd = {}
    BY PoolFacts DEF QueueInv, FlightInv
  <2>2. QED
    BY <1>3, <2>1, PoolFacts DEF Flights
<1>5. Slots = 0 .. PoolCount - 1 /\ PoolCount' = PoolCount
      /\ \A g, h \in InFlight : slot_of[g] = slot_of[h] => g = h
  BY <1>2, <1>3, PoolFacts DEF SlotsInv, PoolCount
<1>6. slot' \in Slots /\ Slots' = Slots \ {slot'}
  BY <1>2, <1>4, <1>5 DEF Slots
<1>7. QED
  BY <1>2, <1>4, <1>5, <1>6, PoolFacts DEF SlotsInv

\* The buffer that was taken out is copied.
LEMMA CopySlots ==
  ASSUME DriverInv, user \in Pools, PoolInv, Copy
  PROVE  SlotsInv'
<1>1. /\ pc = "copy" /\ pc' = "post" /\ UNCHANGED <<user, jobs, addr, slot_of, filled, slot>>
      /\ UNCHANGED queueVars
  BY DEF Copy, StepAfter
<1>2. InFlight' = InFlight /\ PoolCount' = PoolCount
  <2>1. Flights(Avl, Working, Usd)
    BY <1>1, PoolFacts, StayKeeps
  <2>2. QED
    BY <1>1, <2>1, PoolFacts DEF Flights, PoolCount, queueVars
<1>3. Slots' = Slots
  BY <1>1, <1>2 DEF Slots
<1>4. QED
  BY <1>1, <1>2, <1>3, PoolFacts DEF SlotsInv

\* The device takes a chain.
LEMMA FetchSlots ==
  ASSUME DriverInv, user \in Pools, PoolInv, Fetch
  PROVE  SlotsInv' /\ InFlight' = InFlight /\ Usd' = Usd
<1>1. /\ HasAvail /\ TakeAvail /\ UNCHANGED <<user, pc, addr>> /\ UNCHANGED poolVars
      /\ jobs' = jobs \cup {[head |-> NextAvail, op |-> Op(cmd, addr[NextAvail])]}
  BY DEF Fetch
<1>2. PICK head, o : head = NextAvail /\ o = Op(cmd, addr[NextAvail])
  OBVIOUS
<1>3. PICK job : job = [head |-> head, op |-> o]
  OBVIOUS
<1>4. job.head = head /\ job.op = o /\ jobs' = jobs \cup {job}
      /\ jobs' = jobs \cup {[head |-> head, op |-> o]}
  BY <1>1, <1>2, <1>3
<1>5. head \in Avl /\ Flights(Avl \ {head}, Working \cup {head}, Usd)
  BY <1>1, <1>2, <1>4, PoolFacts, FetchKeeps
<1>6. InFlight' = InFlight /\ head \in InFlight /\ Usd' = Usd
  BY <1>5, PoolFacts DEF Flights
<1>7. /\ slot_of' = slot_of /\ addr' = addr /\ slot' = slot /\ filled' = filled /\ pc' = pc
      /\ num' = num
  BY <1>1 DEF poolVars, TakeAvail
<1>8. Slots' = Slots /\ PoolCount' = PoolCount
  BY <1>6, <1>7 DEF Slots, PoolCount
<1>9. \A j \in jobs' : j.op.buf = slot_of'[j.head]
  <2>1. o.buf = addr[head]
    BY <1>2 DEF Op
  <2>2. job.op.buf = slot_of[job.head]
    BY <1>4, <1>6, <2>1, PoolFacts DEF SlotsInv
  <2>3. QED
    BY <1>4, <1>7, <2>2, PoolFacts DEF SlotsInv
<1>10. QED
  BY <1>6, <1>7, <1>8, <1>9, PoolFacts DEF SlotsInv

\* The device gives one back.
LEMMA ReceiveSlots ==
  ASSUME DriverInv, user \in Pools, PoolInv, NEW job \in jobs, Receive(job)
  PROVE  SlotsInv' /\ InFlight' = InFlight
<1>1. /\ PutUsed(job.head) /\ jobs' = jobs \ {job}
      /\ UNCHANGED <<user, pc, addr, slot_of, filled, slot, full, got>>
  BY DEF Receive
<1>2. PICK head : head = job.head
  OBVIOUS
<1>3. head \in Working /\ Flights(Avl, Working \ {head}, Usd \cup {head})
  BY <1>1, <1>2, PoolFacts, PutKeeps
<1>4. InFlight' = InFlight
  BY <1>3, PoolFacts DEF Flights
<1>5. num' = num
  BY <1>1 DEF PutUsed
<1>6. Slots' = Slots /\ PoolCount' = PoolCount
  BY <1>1, <1>4, <1>5 DEF Slots, PoolCount
<1>7. QED
  BY <1>1, <1>4, <1>6, PoolFacts DEF SlotsInv

-----------------------------------------------------------------------------
(* The frames in the used ring.                                            *)

\* The entries that the driver has not seen, after a step.
LEMMA UsedNext ==
  ASSUME num' = num
  PROVE  /\ Framed' = {k \in 0 .. Dist(last_used_idx', used_idx') - 1 :
                          length'[Entry(used', last_used_idx', k)] = "frame"}
         /\ \A k \in 0 .. Dist(last_used_idx', used_idx') - 1 :
              Held'[k] = content'[slot_of'[Entry(used', last_used_idx', k)]]
BY DEF Framed, Held, Entry, Dist

\* The order depends on the numbers at these positions only.
LEMMA OrderSame ==
  ASSUME NEW F, NEW C, NEW a, NEW b, InOrder(F, C, a, b), NEW C2, \A k \in F : C2[k] = C[k]
  PROVE  InOrder(F, C2, a, b)
<1>1. /\ \A k, l \in F : k < l => C[k] < C[l]
      /\ \A k \in F : C[k] \in a .. b
      /\ \A x \in a .. b : \E k \in F : C[k] = x
  BY DEF InOrder
<1>2. \A k, l \in F : k < l => C2[k] < C2[l]
  BY <1>1
<1>3. \A x \in a .. b : \E k \in F : C2[k] = x
  BY <1>1
<1>4. QED
  BY <1>1, <1>2, <1>3 DEF InOrder

\* A step that leaves the used ring, the slots of what is in it, and the frames
\* alone.
LEMMA FramesStay ==
  ASSUME DriverInv, user \in Pools, PoolInv,
         UNCHANGED <<num, used, used_idx, last_used_idx, slot, full, content, length, arrived, got>>,
         \A h \in Usd : slot_of'[h] = slot_of[h],
         pc' = pc \/ (pc # "copy" /\ pc' # "copy")
  PROVE  FramesInv'
<1>1. PICK g \in 0 .. MaxFrames : FramesAre(g)
  BY PoolFacts DEF FramesInv
<1>2. /\ got = [i \in 1 .. g |-> i]
      /\ pc = "copy" /\ full => content[slot] = g + 1
      /\ Due(g) <= arrived + 1
      /\ InOrder(Framed, Held, Due(g), arrived)
  BY <1>1 DEF FramesAre
<1>3. Framed' = Framed
  BY UsedNext DEF Framed
<1>4. \A k \in Framed : Held'[k] = Held[k]
  <2>1. ASSUME NEW k \in Framed PROVE Held'[k] = Held[k]
    <3>1. k \in 0 .. Dist(last_used_idx, used_idx) - 1
      BY DEF Framed
    <3>2. Entry(used, last_used_idx, k) \in Usd
      BY <3>1, PoolFacts
    <3>3. Held'[k] = content[slot_of'[Entry(used, last_used_idx, k)]]
      BY <3>1, UsedNext
    <3>4. Held[k] = content[slot_of[Entry(used, last_used_idx, k)]]
      BY <3>1 DEF Held
    <3>5. QED
      BY <3>2, <3>3, <3>4
  <2>2. QED
    BY <2>1
<1>5. Due(g)' = Due(g)
  BY DEF Due
<1>6. InOrder(Framed, Held', Due(g), arrived)
  BY <1>2, <1>4, OrderSame
<1>7. InOrder(Framed, Held, Due(g), arrived)'
  BY <1>3, <1>5, <1>6 DEF InOrder
<1>8. FramesAre(g)'
  BY <1>2, <1>5, <1>7 DEF FramesAre
<1>9. QED
  BY <1>8 DEF FramesInv
\* Posting a buffer leaves the frames alone.
LEMMA PostFrames ==
  ASSUME DriverInv, user \in Pools, PoolInv, FillQueue \/ PostAgain
  PROVE  FramesInv'
<1>1. PICK i : i = IF pc = "fill" THEN filled ELSE slot
  OBVIOUS
<1>2. /\ PostBuffer(i) /\ pc \in {"fill", "post"} /\ UNCHANGED <<user, jobs>>
      /\ pc' # "copy" /\ UNCHANGED <<slot, full, content, length, arrived, got>>
  BY <1>1 DEF FillQueue, PostAgain, StepAfter
<1>3. HasRoom(1)
  BY <1>2, PoolFacts, PoolRoom
<1>4. PICK head : head = free_head
  OBVIOUS
<1>5. Added(head) /\ slot_of' = [slot_of EXCEPT ![head] = i]
  BY <1>2, <1>3, <1>4, PostQueue
<1>6. head \notin InFlight /\ UNCHANGED <<num, used, used_idx, last_used_idx>>
  BY <1>5 DEF Added
<1>7. \A h \in Usd : slot_of'[h] = slot_of[h]
  BY <1>5, <1>6, PoolFacts
<1>8. QED
  BY <1>2, <1>6, <1>7, FramesStay

\* So does the device when it takes one.
LEMMA FetchFrames ==
  ASSUME DriverInv, user \in Pools, PoolInv, Fetch
  PROVE  FramesInv'
<1>1. TakeAvail /\ pc' = pc /\ UNCHANGED poolVars
  BY DEF Fetch
<1>2. /\ UNCHANGED <<num, used, used_idx, last_used_idx, slot, full, content, length, arrived, got>>
      /\ slot_of' = slot_of
  BY <1>1 DEF TakeAvail, poolVars
<1>3. QED
  BY <1>1, <1>2, FramesStay

\* The driver takes the first entry.
LEMMA TakeFrames ==
  ASSUME DriverInv, user \in Pools, PoolInv, Take
  PROVE  FramesInv'
<1>1. PICK head : head = used[last_used_idx % num]
  OBVIOUS
<1>2. /\ pc = "idle" /\ pc' = "copy" /\ slot' = slot_of[head] /\ full' = (length[head] = "frame")
      /\ HasUsed /\ GetUsed
      /\ UNCHANGED <<user, jobs, slot_of, content, length, arrived, got>>
  BY <1>1 DEF Take, StepAfter
<1>3. /\ Takes(used, last_used_idx, used_idx, head, last_used_idx')
      /\ num' = num /\ used' = used /\ used_idx' = used_idx
  BY <1>1, <1>2, PoolFacts, GetQueue DEF GotUsed
<1>4. PICK g \in 0 .. MaxFrames : FramesAre(g)
  BY PoolFacts DEF FramesInv
<1>5. /\ got = [i \in 1 .. g |-> i]
      /\ g + 1 <= arrived + 1 /\ InOrder(Framed, Held, g + 1, arrived)
  BY <1>2, <1>4 DEF FramesAre, Due
<1>6. PICK n : n = Dist(last_used_idx, used_idx)
  OBVIOUS
<1>7. /\ n \in Nat \ {0} /\ Dist(last_used_idx', used_idx') = n - 1
      /\ head = Entry(used, last_used_idx, 0)
      /\ \A k \in Nat : Entry(used', last_used_idx', k) = Entry(used, last_used_idx, k + 1)
  BY <1>3, <1>6, PoolFacts DEF Takes
<1>8. /\ Framed = {k \in 0 .. n - 1 : length[Entry(used, last_used_idx, k)] = "frame"}
      /\ \A k \in 0 .. n - 1 : Held[k] = content[slot_of[Entry(used, last_used_idx, k)]]
  BY <1>6 DEF Framed, Held
<1>9. /\ Framed' = {k \in 0 .. (n - 1) - 1 : length[Entry(used', last_used_idx', k)] = "frame"}
      /\ \A k \in 0 .. (n - 1) - 1 :
           Held'[k] = content[slot_of[Entry(used', last_used_idx', k)]]
  BY <1>2, <1>3, <1>7, UsedNext
<1>10. PICK F, C, F2, C2 : F = Framed /\ C = Held /\ F2 = Framed' /\ C2 = Held'
  OBVIOUS
<1>11. F2 = {k \in 0 .. (n - 1) - 1 : k + 1 \in F}
  <2>1. \A k \in 0 .. (n - 1) - 1 : k + 1 \in 0 .. n - 1 /\ k \in Nat
    BY <1>7
  <2>2. \A k \in 0 .. (n - 1) - 1 :
          k + 1 \in F <=> length[Entry(used', last_used_idx', k)] = "frame"
    BY <1>7, <1>8, <1>10, <2>1
  <2>3. QED
    BY <1>9, <1>10, <2>2
<1>12. \A k \in 0 .. (n - 1) - 1 : C2[k] = C[k + 1]
  <2>1. \A k \in 0 .. (n - 1) - 1 : k + 1 \in 0 .. n - 1 /\ k \in Nat
    BY <1>7
  <2>2. QED
    BY <1>7, <1>8, <1>9, <1>10, <2>1
<1>13. 0 \in F <=> full'
  <2>1. 0 \in 0 .. n - 1
    BY <1>7
  <2>2. QED
    BY <1>2, <1>7, <1>8, <1>10, <2>1
<1>14. C[0] = content'[slot']
  <2>1. 0 \in 0 .. n - 1
    BY <1>7
  <2>2. QED
    BY <1>2, <1>7, <1>8, <1>10, <2>1
<1>15. /\ 0 \in F => C[0] = g + 1 /\ g + 1 <= arrived /\ InOrder(F2, C2, (g + 1) + 1, arrived)
       /\ 0 \notin F => InOrder(F2, C2, g + 1, arrived)
  <2>1. g \in Nat /\ g + 1 \in Nat /\ arrived \in Nat
    BY TypeFacts, DriversAssumption
  <2>2. F \in SUBSET (0 .. n - 1) /\ InOrder(F, C, g + 1, arrived)
    BY <1>5, <1>8, <1>10
  <2>3. QED
    BY <1>7, <1>11, <1>12, <2>1, <2>2, OrderDrop
<1>16. g \in Nat /\ arrived \in Nat /\ arrived' = arrived /\ got' = got
  BY <1>2, TypeFacts, DriversAssumption
<1>17. FramesAre(g)'
  <2>1. CASE full'
    <3>1. Due(g)' = g + 2
      BY <1>2, <2>1 DEF Due
    <3>2. InOrder(F2, C2, g + 2, arrived) /\ content'[slot'] = g + 1 /\ g + 2 <= arrived + 1
      <4>1. (g + 1) + 1 = g + 2
        BY <1>16
      <4>2. QED
        BY <1>13, <1>14, <1>15, <1>16, <2>1, <4>1
    <3>3. InOrder(Framed, Held, Due(g), arrived)'
      BY <1>10, <1>16, <3>1, <3>2 DEF InOrder
    <3>4. QED
      BY <1>5, <1>16, <3>1, <3>2, <3>3 DEF FramesAre
  <2>2. CASE ~full'
    <3>1. Due(g)' = g + 1
      BY <2>2 DEF Due
    <3>2. InOrder(F2, C2, g + 1, arrived)
      BY <1>13, <1>15, <2>2
    <3>3. InOrder(Framed, Held, Due(g), arrived)'
      BY <1>10, <1>16, <3>1, <3>2 DEF InOrder
    <3>4. QED
      BY <1>5, <1>16, <2>2, <3>1, <3>3 DEF FramesAre
  <2>3. QED
    BY <2>1, <2>2
<1>18. QED
  BY <1>17 DEF FramesInv

\* And copies what it holds.
LEMMA CopyFrames ==
  ASSUME DriverInv, user \in Pools, PoolInv, Copy
  PROVE  FramesInv'
<1>1. /\ pc = "copy" /\ pc' = "post" /\ got' = (IF full THEN Append(got, content[slot]) ELSE got)
      /\ UNCHANGED <<num, used, used_idx, last_used_idx, slot_of, slot, full, content, length,
                     arrived>>
  BY DEF Copy, StepAfter, queueVars
<1>2. PICK g \in 0 .. MaxFrames : FramesAre(g)
  BY PoolFacts DEF FramesInv
<1>3. /\ got = [i \in 1 .. g |-> i] /\ (full => content[slot] = g + 1)
      /\ Due(g) <= arrived + 1 /\ InOrder(Framed, Held, Due(g), arrived)
      /\ Due(g) = (IF full THEN g + 2 ELSE g + 1)
  BY <1>1, <1>2 DEF FramesAre, Due
<1>4. PICK k : k = IF full THEN g + 1 ELSE g
  OBVIOUS
<1>5. k \in 0 .. MaxFrames /\ Due(g) = k + 1
  BY <1>3, <1>4, TypeFacts, DriversAssumption
<1>6. got' = [i \in 1 .. k |-> i]
  <2>1. CASE full
    <3>1. PICK f : f = [i \in 1 .. g + 1 |-> i]
      OBVIOUS
    <3>2. g \in Nat /\ f[g + 1] = g + 1 /\ \A i \in 1 .. g : f[i] = i
      BY <3>1
    <3>3. Prefix(f, g) = got /\ Prefix(f, g + 1) = [i \in 1 .. g + 1 |-> i]
      BY <1>3, <3>1, <3>2 DEF Prefix
    <3>4. Append(Prefix(f, g), f[g + 1]) = Prefix(f, g + 1)
      BY <3>2, PrefixAppend
    <3>5. QED
      BY <1>1, <1>3, <1>4, <2>1, <3>2, <3>3, <3>4
  <2>2. CASE ~full
    BY <1>1, <1>3, <1>4, <2>2
  <2>3. QED
    BY <2>1, <2>2
<1>7. Due(k)' = k + 1
  BY <1>1 DEF Due
<1>8. Framed' = Framed /\ Held' = Held
  BY <1>1 DEF Framed, Held, Entry, Dist
<1>9. InOrder(Framed, Held, Due(k), arrived)'
  BY <1>1, <1>3, <1>5, <1>7, <1>8 DEF InOrder
<1>10. FramesAre(k)'
  BY <1>1, <1>3, <1>5, <1>6, <1>7, <1>9 DEF FramesAre
<1>11. QED
  BY <1>5, <1>10 DEF FramesInv
\* The device puts a frame, or too little for one, behind the others.
LEMMA ReceiveFrames ==
  ASSUME DriverInv, user \in Pools, PoolInv, NEW job \in jobs, Receive(job)
  PROVE  FramesInv'
<1>1. PICK head, b : head = job.head /\ b = job.op.buf
  OBVIOUS
<1>2. /\ PutUsed(head) /\ jobs' = jobs \ {job}
      /\ UNCHANGED <<user, pc, slot_of, slot, full, got>>
      /\ \/ /\ arrived < MaxFrames /\ arrived' = arrived + 1
            /\ content' = [content EXCEPT ![b] = arrived']
            /\ length' = [length EXCEPT ![head] = "frame"]
         \/ /\ content' = [content EXCEPT ![b] = 0]
            /\ length' = [length EXCEPT ![head] = "short"]
            /\ arrived' = arrived
  BY <1>1 DEF Receive
<1>3. /\ head \in Working /\ Puts(used, last_used_idx, used_idx, head, used', used_idx')
      /\ num' = num /\ last_used_idx' = last_used_idx
  <2>1. num' = num /\ last_used_idx' = last_used_idx
    BY <1>2 DEF PutUsed
  <2>2. QED
    BY <1>1, <1>2, <2>1, PoolFacts, PutKeeps
<1>4. head \in InFlight /\ head \notin Usd /\ b = slot_of[head] /\ b \in Slots
      /\ \A h \in Usd : slot_of[h] # b
  <2>1. head \in InFlight /\ b = slot_of[head]
    BY <1>1, <1>3, PoolFacts DEF SlotsInv
  <2>2. head \notin Usd
    BY <1>3, PoolFacts DEF QueueInv, FlightInv
  <2>3. \A h \in Usd : h \in InFlight
    BY PoolFacts
  <2>4. QED
    BY <2>1, <2>2, <2>3, PoolFacts DEF SlotsInv, Slots
<1>5. /\ DOMAIN content = Buffers /\ b \in Buffers /\ DOMAIN length = 0 .. MaxNum - 1
      /\ head \in 0 .. MaxNum - 1 /\ slot \in Buffers
  BY <1>4, PoolFacts, TypeFacts
<1>6. pc = "copy" => content'[slot] = content[slot]
  <2>1. pc = "copy" => slot # b
    BY <1>4, PoolFacts DEF SlotsInv
  <2>2. QED
    BY <1>2, <1>5, <2>1
<1>7. \A h \in Usd : length'[h] = length[h] /\ content'[slot_of[h]] = content[slot_of[h]]
  <2>1. \A h \in Usd : h \in DOMAIN length /\ slot_of[h] \in DOMAIN content /\ h # head
    BY <1>4, <1>5, PoolFacts, TypeFacts
  <2>2. \A h \in DOMAIN length : h # head => length'[h] = length[h]
    BY <1>2
  <2>3. \A i \in DOMAIN content : i # b => content'[i] = content[i]
    BY <1>2
  <2>4. QED
    BY <1>4, <2>1, <2>2, <2>3
<1>8. PICK g \in 0 .. MaxFrames : FramesAre(g)
  BY PoolFacts DEF FramesInv
<1>9. /\ got = [i \in 1 .. g |-> i]
      /\ pc = "copy" /\ full => content[slot] = g + 1
      /\ Due(g) <= arrived + 1
      /\ InOrder(Framed, Held, Due(g), arrived)
  BY <1>8 DEF FramesAre
<1>10. Due(g)' = Due(g) /\ Due(g) \in Nat /\ arrived \in Nat
  BY <1>2, TypeFacts, DriversAssumption DEF Due
<1>11. PICK n : n = Dist(last_used_idx, used_idx)
  OBVIOUS
<1>12. /\ n \in Nat /\ Dist(last_used_idx', used_idx') = n + 1
       /\ \A k \in 0 .. n - 1 : Entry(used', last_used_idx', k) = Entry(used, last_used_idx, k)
       /\ Entry(used', last_used_idx', n) = head
  BY <1>3, <1>11, PoolFacts DEF Puts
<1>13. /\ Framed = {k \in 0 .. n - 1 : length[Entry(used, last_used_idx, k)] = "frame"}
       /\ \A k \in 0 .. n - 1 : Held[k] = content[slot_of[Entry(used, last_used_idx, k)]]
       /\ \A k \in 0 .. n - 1 : Entry(used, last_used_idx, k) \in Usd
  BY <1>11, PoolFacts DEF Framed, Held
<1>14. /\ Framed' = {k \in 0 .. n : length'[Entry(used', last_used_idx', k)] = "frame"}
       /\ \A k \in 0 .. n : Held'[k] = content'[slot_of[Entry(used', last_used_idx', k)]]
  <2>1. (n + 1) - 1 = n
    BY <1>12
  <2>2. QED
    BY <1>2, <1>3, <1>12, <2>1, UsedNext
<1>15. \A k \in 0 .. n : k \in 0 .. n - 1 \/ k = n
  BY <1>12
<1>16. 0 .. n - 1 \subseteq 0 .. n /\ n \in 0 .. n /\ n \notin 0 .. n - 1
  BY <1>12
<1>17. \A k \in 0 .. n - 1 : k \in Framed' <=> k \in Framed
  BY <1>7, <1>12, <1>13, <1>14, <1>16
<1>18. \A k \in Framed : Held'[k] = Held[k]
  BY <1>7, <1>12, <1>13, <1>14, <1>16
<1>19. n \in Framed' <=> length'[head] = "frame"
  BY <1>12, <1>14, <1>16
<1>20. Held'[n] = content'[b]
  BY <1>4, <1>12, <1>14, <1>16
<1>21. PICK F, C, F2, C2, a : F = Framed /\ C = Held /\ F2 = Framed' /\ C2 = Held' /\ a = Due(g)
  OBVIOUS
<1>22. F \subseteq 0 .. n - 1 /\ F2 \subseteq 0 .. n
  BY <1>13, <1>14, <1>21
<1>23. InOrder(F2, C2, a, arrived') /\ a <= arrived' + 1
  <2>1. CASE length'[head] = "frame"
    <3>1. arrived' = arrived + 1 /\ content'[b] = arrived + 1
      BY <1>2, <1>5, <2>1
    <3>2. F2 = F \cup {n}
      BY <1>15, <1>16, <1>17, <1>19, <1>21, <1>22, <2>1
    <3>3. C2[n] = arrived + 1 /\ \A k \in F : C2[k] = C[k]
      BY <1>18, <1>20, <1>21, <3>1
    <3>4. InOrder(F, C, a, arrived) /\ a <= arrived + 1 /\ a \in Nat /\ F \in SUBSET (0 .. n - 1)
      BY <1>9, <1>10, <1>21, <1>22
    <3>5. InOrder(F \cup {n}, C2, a, arrived + 1)
      BY <1>10, <1>12, <3>3, <3>4, OrderPut
    <3>6. QED
      BY <1>10, <3>1, <3>2, <3>4, <3>5
  <2>2. CASE length'[head] # "frame"
    <3>1. arrived' = arrived
      BY <1>2, <1>5, <2>2
    <3>2. F2 = F
      BY <1>15, <1>16, <1>17, <1>19, <1>21, <1>22, <2>2
    <3>3. InOrder(F, C2, a, arrived)
      BY <1>9, <1>18, <1>21, OrderSame
    <3>4. QED
      BY <1>9, <1>21, <3>1, <3>2, <3>3
  <2>3. QED
    BY <2>1, <2>2
<1>24. InOrder(Framed, Held, Due(g), arrived)'
  BY <1>10, <1>21, <1>23 DEF InOrder
<1>25. FramesAre(g)'
  BY <1>2, <1>6, <1>9, <1>10, <1>21, <1>23, <1>24 DEF FramesAre
<1>26. QED
  BY <1>25 DEF FramesInv
-----------------------------------------------------------------------------
\* Every step of a pool or of its device keeps buffers and frames.
LEMMA PoolNext ==
  ASSUME DriverInv, PoolInv, DriversNext
  PROVE  PoolInv'
<1> SUFFICES ASSUME user' \in Pools PROVE SlotsInv' /\ FramesInv'
  BY DEF PoolInv
<1>1. user \in Pools /\ user \notin Requesters
  BY SomebodyWorks, UserFacts
<1>2. pc \notin {"next", "poll"}
  BY <1>1, TypeFacts
<1>3. \/ Fetch \/ (\E job \in jobs : Receive(job))
      \/ FillQueue \/ Take \/ Copy \/ PostAgain
  BY <1>1, <1>2 DEF DriversNext, NextCommand, Finish, Timeout, Complete
<1>4. CASE Fetch
  BY <1>1, <1>4, FetchSlots, FetchFrames
<1>5. CASE \E job \in jobs : Receive(job)
  BY <1>1, <1>5, ReceiveSlots, ReceiveFrames
<1>6. CASE FillQueue \/ PostAgain
  BY <1>1, <1>6, PostSlots, PostFrames
<1>7. CASE Take
  BY <1>1, <1>7, TakeSlots, TakeFrames
<1>8. CASE Copy
  BY <1>1, <1>8, CopySlots, CopyFrames
<1>9. QED
  BY <1>3, <1>4, <1>5, <1>6, <1>7, <1>8

\* So do the steps of bringing drivers up.
LEMMA PoolStutters ==
  ASSUME PoolInv, UNCHANGED driverVars
  PROVE  PoolInv'
<1>1. /\ num' = num /\ avail_idx' = avail_idx /\ avail' = avail /\ last_used_idx' = last_used_idx
      /\ used_idx' = used_idx /\ used' = used /\ seen_idx' = seen_idx
      /\ jobs' = jobs /\ user' = user /\ pc' = pc /\ addr' = addr
      /\ slot_of' = slot_of /\ filled' = filled /\ slot' = slot /\ full' = full
      /\ content' = content /\ length' = length /\ arrived' = arrived /\ got' = got
  BY DEF driverVars, poolVars, queueVars
<1>2. Working' = Working /\ InFlight' = InFlight /\ PoolCount' = PoolCount
  BY <1>1 DEF Working, InFlight, Between, PoolCount
<1>3. Slots' = Slots
  BY <1>1, <1>2 DEF Slots
<1>4. SlotsInv' = SlotsInv
  BY <1>1, <1>2, <1>3 DEF SlotsInv
<1>5. Framed' = Framed /\ Held' = Held
  BY <1>1 DEF Framed, Held, Entry, Dist
<1>6. \A g : FramesAre(g)' = FramesAre(g)
  BY <1>1, <1>5 DEF FramesAre, Due, InOrder
<1>7. FramesInv' = FramesInv
  BY <1>6 DEF FramesInv
<1>8. QED
  BY <1>1, <1>4, <1>7 DEF PoolInv

\* A pool begins to fill its queue.
LEMMA PoolWork ==
  ASSUME BringUpInv, SizesInv, DriverInv, NEW d \in DOMAIN QueueOf, Work(d)
  PROVE  PoolInv'
<1> SUFFICES ASSUME user' \in Pools PROVE SlotsInv' /\ FramesInv'
  BY DEF PoolInv
<1>1. DriverInv' /\ InFlight' = {} /\ UNCHANGED poolVars /\ jobs' = jobs
      /\ user = "nobody" /\ pc' = "fill"
  BY DriverWork DEF Work
<1>2. Fresh
  BY <1>1 DEF DriverInv, PlaceInv
<1>3. jobs' = {} /\ filled' = 0 /\ arrived' = 0 /\ got' = <<>>
  BY <1>1, <1>2 DEF Fresh, poolVars
<1>4. Slots' = {} /\ 0 .. 0 - 1 = {}
  BY <1>1 DEF Slots
<1>5. SlotsInv'
  BY <1>1, <1>3, <1>4 DEF SlotsInv
<1>6. PICK n \in QueueSizes : InitQueue(n)
  BY WorkSize
<1>7. last_used_idx' = 0 /\ used_idx' = 0 /\ num' = n
  BY <1>6 DEF InitQueue
<1>8. 0 .. Dist(last_used_idx', used_idx') - 1 = {}
  <2>1. Dist(0, 0) = 0
    BY DistFacts, QueueAssumption DEF Indices
  <2>2. QED
    BY <1>7, <2>1
<1>9. Framed' = {}
  <2>1. Dist(last_used_idx', used_idx') = Dist(last_used_idx, used_idx)'
    BY DEF Dist
  <2>2. QED
    BY <1>8, <2>1 DEF Framed
<1>10. Due(0)' = 1
  BY <1>1 DEF Due
<1>11. InOrder(Framed, Held, Due(0), arrived)'
  <2>1. 1 .. 0 = {}
    OBVIOUS
  <2>2. QED
    BY <1>3, <1>9, <1>10, <2>1 DEF InOrder
<1>12. FramesAre(0)'
  BY <1>1, <1>3, <1>10, <1>11 DEF FramesAre
<1>13. 0 \in 0 .. MaxFrames
  BY DriversAssumption
<1>14. QED
  BY <1>5, <1>12, <1>13 DEF FramesInv

\* The pool of the driver at work is complete, and the frames in it are in
\* order, in every state (fill_rx_queue, virtio_net_rx, virtio_input_poll).
LEMMA PoolsAreSafe == Spec => []PoolInv
<1>1. Init => PoolInv
  BY DEF Init, DriversInit, PoolInv, Pools
<1>2. BringUpInv /\ SizesInv /\ DriverInv /\ PoolInv /\ [Next]_vars => PoolInv'
  BY StepOfDrivers, PoolStutters, PoolNext, PoolWork
<1>3. QED
  BY <1>1, <1>2, BringUpIsSafe, SizesAreSafe, DriversAreSafe, PTL DEF Spec

\* Every frame or event comes out once, in the order of arrival, as the device
\* wrote it, and each buffer of the pool is in flight exactly once but for the
\* one that is being taken out (virtio_net_rx, virtio_input_poll).
THEOREM FramesAreTrueHolds == Spec => []FramesAreTrue
<1>1. PoolInv => FramesAreTrue
  <2> SUFFICES ASSUME PoolInv, user \in Pools
               PROVE  /\ got = [i \in 1 .. Len(got) |-> i]
                      /\ \A h \in InFlight : addr[h] = slot_of[h]
                      /\ \A g, h \in InFlight : slot_of[g] = slot_of[h] => g = h
                      /\ pc = "idle" => {slot_of[h] : h \in InFlight} = 0 .. PoolCount - 1
    BY DEF FramesAreTrue
  <2>1. SlotsInv /\ FramesInv
    BY DEF PoolInv
  <2>2. PICK g \in 0 .. MaxFrames : FramesAre(g)
    BY <2>1 DEF FramesInv
  <2>3. g \in Nat /\ got = [i \in 1 .. g |-> i]
    BY <2>2, DriversAssumption DEF FramesAre
  <2>4. Len(got) = g
    BY <2>3
  <2>5. QED
    BY <2>1, <2>3, <2>4 DEF SlotsInv, Slots
<1>2. QED
  BY <1>1, PoolsAreSafe, PTL
=============================================================================
