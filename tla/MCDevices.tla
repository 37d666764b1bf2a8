----------------------------- MODULE MCDevices -----------------------------
(* What is on the bus, for the run of Devices.                             *)
EXTENDS Devices, TLC

Bar(k, n) == [kind |-> k, size |-> n]
None == Bar("none", 1)
Cap(t, b) == [cfg |-> t, bar |-> b]
Device(id, bars, caps, accepts, queues) ==
  [id |-> id, bars |-> bars, caps |-> caps, accepts |-> accepts, queues |-> queues]

\* The BARs of a virtio device of QEMU, without and with the legacy I/O window.
Modern == <<None, Bar("mem32", 2), None, None, Bar("mem64", 8), Bar("high", 1)>>
Legacy == <<Bar("io", 2), Bar("mem32", 1), None, None, Bar("mem64", 4), Bar("high", 1)>>

Caps == <<Cap("common", 5), Cap("isr", 5), Cap("device", 5), Cap("notify", 5)>>
\* The device registers in a BAR without an address; two offers of one block.
NoDeviceCfg == <<Cap("common", 5), Cap("isr", 5), Cap("device", 3), Cap("notify", 5)>>
TwoOffers == <<Cap("notify", 1), Cap("isr", 5), Cap("common", 5), Cap("notify", 5)>>
NoNotify == <<Cap("common", 5), Cap("isr", 5), Cap("device", 2)>>

Disk == Device("blk", Legacy, Caps, TRUE, <<6>>)
SmallDisk == Device("blk", Modern, Caps, TRUE, <<4>>)
Net == Device("net", Legacy, Caps, TRUE, <<3, 4>>)
Gpu == Device("gpu", Modern, TwoOffers, TRUE, <<4>>)
Rng == Device("rng", Modern, TwoOffers, TRUE, <<4>>)
Bridge == Device("other", <<None>>, <<>>, TRUE, <<>>)
Keyboard == Device("input", Modern, Caps, TRUE, <<1, 4>>)
NoStatusQueue == Device("input", Modern, Caps, TRUE, <<1, 0>>)

MCBuses == {
  \* all is well
  0 :> Bridge @@ 1 :> Disk @@ 2 :> Net @@ 3 :> Gpu,
  \* two keyboards behind a device that fails half way
  1 :> Rng @@ 2 :> NoStatusQueue @@ 4 :> Keyboard @@ 7 :> Keyboard @@ 8 :> SmallDisk,
  \* each of the other failures
  1 :> Device("blk", Legacy, NoDeviceCfg, TRUE, <<6>>) @@
  2 :> Device("net", Legacy, Caps, FALSE, <<3, 4>>) @@
  3 :> Device("gpu", Modern, NoNotify, TRUE, <<4>>) @@ 5 :> Keyboard }

Symmetry == Permutations(Sectors)

MCInputs == <<"input1", "input2">>

=============================================================================
