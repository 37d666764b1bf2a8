------------------------------ MODULE Devices ------------------------------
(***************************************************************************)
(* From the bus to the work of a driver: the init functions of Transport,  *)
(* and then one of the drivers of Drivers on one of the queues that its    *)
(* init function has set up, with the size that the device offered.        *)
(***************************************************************************)
EXTENDS Transport, Drivers

\* Which queue of which device a driver works on.
QueueOf == [blk |-> <<"blk", 1>>, rng |-> <<"rng", 1>>, gpu |-> <<"gpu", 1>>,
            rx |-> <<"net", 1>>, tx |-> <<"net", 2>>, input |-> <<Inputs[1], 1>>]

\* A device offers sizes that divide 2^16, and so do the drivers ask for them.
ASSUME SizesAssumption ==
  /\ \A b \in Buses : \A s \in DOMAIN b : Range(b[s].queues) \subseteq QueueSizes \cup {0}
  /\ \A id \in DOMAIN Desired : Range(Desired[id]) \cap 1 .. MaxNum \subseteq QueueSizes

vars == <<transportVars, driverVars>>

Init == TransportInit /\ DriversInit

BringUp == user = "nobody" /\ TransportNext /\ UNCHANGED driverVars

\* The driver begins its work; its queue is as virtqueue_init has left it.
\* The pools fill their queues at the end of their init functions.  A driver
\* is only followed to its work when it was the first one brought up, and as
\* long as there were rings for everybody (bounds): what one does on a struct
\* virtqueue that virtqueue_init has left alone is undefined.
Work(d) ==
  LET h == QueueOf[d][1]
      q == QueueOf[d][2] IN
  /\ user = "nobody" /\ at = Idle /\ h \in live /\ inits = 1 /\ ~starved
  /\ user' = d
  /\ InitQueue(drv[h].vq[q].num)
  /\ pc' = IF d \in Pools THEN "fill" ELSE "idle"
  /\ UNCHANGED <<transportVars, requestVars, addr, jobs, poolVars>>

Next ==
  \/ BringUp
  \/ \E d \in DOMAIN QueueOf : Work(d)
  \/ DriversNext /\ UNCHANGED transportVars

Spec == Init /\ [][Next]_vars

=============================================================================
