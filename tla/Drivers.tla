------------------------------ MODULE Drivers ------------------------------
(***************************************************************************)
(* The virtio drivers at work on a virtqueue, one queue at a time.  Two    *)
(* patterns make up all of them:                                           *)
(*                                                                         *)
(*   requests   blk, rng, gpu and the sending side of net put one chain    *)
(*              into the queue and poll until there is a used buffer, or   *)
(*              lose patience.  Their request and response memory is       *)
(*              static, one for all requests.                              *)
(*   pools      input and the receiving side of net post all their buffers *)
(*              beforehand; each one that comes back is copied and posted  *)
(*              again.                                                     *)
(*                                                                         *)
(* The device works at its own pace, on several chains at once, and gives  *)
(* them back in any order.                                                 *)
(***************************************************************************)
EXTENDS VirtQueue

CONSTANTS
  Sectors,       \* what blk reads and net sends: sectors, frames
  Bufs,          \* the buffers of callers
  Nothing,       \* what static memory holds before
  PoolSize,      \* NET_RX_RING_SIZE, INPUT_EVT_RING_SIZE
  MaxTimeouts,   \* how many requests may time out (a bound)
  MaxFrames      \* how many frames or events arrive (a bound)

ASSUME DriversAssumption ==
  /\ Nothing \notin Sectors \cup Bufs /\ Bufs # {}
  /\ PoolSize \in Nat \ {0} /\ MaxTimeouts \in Nat /\ MaxFrames \in Nat

Requesters == {"blk", "rng", "gpu", "tx"}
Pools == {"rx", "input"}

VARIABLES
  user,        \* external: the driver whose queue is followed, or "nobody"
  pc,          \* where it is
  call,        \* the commands that the call in progress, or the last, consists of
  todo,        \* those that have not been submitted yet
  cmd,         \* the static request: blk_req_hdr.sector, cmd_buf, the frame
  resp,        \* the static response: blk_status or the type in resp_buf
  answer,      \* what the last call has returned: "ok" or "failed"
  ready,       \* gpu: virtio_gpu_init has returned 0
  addr,        \* the buffer that each chain points to, by its head: a caller's
               \* buffer, or a slot of the pool
  jobs,        \* external: what the device is working on
  effects,     \* external: what it has carried out since the call began
  timeouts,    \* how many calls have timed out
  slot_of,     \* desc_to_rxbuf, desc_to_evt
  filled,      \* how many buffers fill_rx_queue has posted
  slot,        \* of the buffer that is being taken out
  full,        \* its length covers a frame or an event
  content,     \* the frame in each slot, 0 for none
  length,      \* whether a chain came back with a frame, by its head
  arrived,     \* external: how many frames have come
  got          \* the frames that were handed to the caller

requestVars == <<call, todo, cmd, resp, answer, ready, effects, timeouts>>
poolVars == <<slot_of, filled, slot, full, content, length, arrived, got>>
driverVars == <<queueVars, user, pc, requestVars, addr, jobs, poolVars>>

\* A command: what it asks for, and the buffer that it is about.
Op(what, buf) == [what |-> what, buf |-> buf]
GpuInit == <<Op("info", Nothing), Op("create", Nothing), Op("attach", Nothing),
             Op("scanout", Nothing)>>
GpuFlush == <<Op("transfer", Nothing), Op("flush", Nothing)>>

\* The calls of a driver, as the commands that they consist of.
Calls(d) ==
  CASE d = "blk" -> {<<Op(s, b)>> : s \in Sectors, b \in Bufs}
    [] d = "rng" -> {<<Op("bytes", b)>> : b \in Bufs}
    [] d = "tx" -> {<<Op(s, Nothing)>> : s \in Sectors}
    [] d = "gpu" -> IF ready THEN {GpuFlush} ELSE {GpuInit}

\* header, data, status; one buffer; command, response; header, frame
ChainLen == [blk |-> 3, rng |-> 1, gpu |-> 2, tx |-> 2, rx |-> 1, input |-> 1]

Buffers == 0 .. PoolSize - 1

DriversTypeOK ==
  /\ QueueTypeOK
  /\ user \in Requesters \cup Pools \cup {"nobody"}
  /\ pc \in {"idle", "next", "poll", "fill", "copy", "post"}
  /\ resp \in {"none", "ok", "info", "nodata", "error"}
  /\ answer \in {"ok", "failed"} /\ ready \in BOOLEAN
  /\ timeouts \in 0 .. MaxTimeouts
  /\ slot_of \in [0 .. MaxNum - 1 -> Buffers] /\ slot \in Buffers /\ full \in BOOLEAN
  /\ filled \in 0 .. PoolSize
  /\ content \in [Buffers -> 0 .. MaxFrames] /\ length \in [0 .. MaxNum - 1 -> {"frame", "short"}]
  /\ arrived \in 0 .. MaxFrames

DriversInit ==
  /\ QueueInit
  /\ user = "nobody" /\ pc = "idle" /\ call = <<>> /\ todo = <<>>
  /\ cmd = Nothing /\ resp = "none" /\ answer = "ok" /\ ready = FALSE
  /\ addr = [d \in 0 .. MaxNum - 1 |-> Nothing] /\ jobs = {} /\ effects = <<>> /\ timeouts = 0
  /\ slot_of = [d \in 0 .. MaxNum - 1 |-> 0] /\ filled = 0 /\ slot = 0 /\ full = FALSE
  /\ content = [i \in Buffers |-> 0] /\ length = [d \in 0 .. MaxNum - 1 |-> "frame"]
  /\ arrived = 0 /\ got = <<>>

-----------------------------------------------------------------------------
(* Requests.                                                               *)

\* The static memory is filled and the chain added and kicked; without
\* descriptors the call fails.
Submit(op) ==
  /\ cmd' = op.what /\ resp' = "none"
  /\ IF HasRoom(ChainLen[user])
     THEN /\ AddChain(ChainLen[user])
          /\ addr' = [addr EXCEPT ![free_head] = op.buf]
          /\ pc' = "poll" /\ UNCHANGED answer
     ELSE UNCHANGED <<queueVars, addr>> /\ pc' = "idle" /\ answer' = "failed"

\* virtio_blk_read, virtio_rng_read, virtio_net_tx, virtio_gpu_init from its
\* first command on, virtio_gpu_flush.  The demo gives up a display whose
\* initialisation has failed.
Call(c) ==
  /\ user \in Requesters /\ pc = "idle" /\ c \in Calls(user)
  /\ user = "gpu" /\ ~ready => call = <<>>
  /\ call' = c /\ todo' = Tail(c) /\ effects' = <<>>
  /\ Submit(Head(c))
  /\ UNCHANGED <<user, ready, jobs, timeouts, poolVars>>

\* The next command of virtio_gpu_init or virtio_gpu_flush.
NextCommand ==
  /\ pc = "next"
  /\ todo' = Tail(todo)
  /\ Submit(Head(todo))
  /\ UNCHANGED <<user, call, ready, effects, jobs, timeouts, poolVars>>

\* (Variant: whatever the device says is good enough.)
AnyResponse == TRUE

\* What the driver looks at when the loop has ended.
GoodResponse ==
  /\ user = "blk" => resp = "ok"
  /\ user = "gpu" => resp = IF cmd = "info" THEN "info" ELSE "nodata"

\* A used buffer, whosever it is, ends the loop.
Finish ==
  /\ pc = "poll" /\ HasUsed
  /\ GetUsed
  /\ IF GoodResponse /\ todo # <<>>
     THEN pc' = "next" /\ UNCHANGED <<answer, ready>>
     ELSE /\ pc' = "idle"
          /\ answer' = IF GoodResponse THEN "ok" ELSE "failed"
          /\ ready' = (ready \/ (call = GpuInit /\ GoodResponse))
  /\ UNCHANGED <<user, call, todo, cmd, resp, addr, jobs, effects, timeouts, poolVars>>

Timeout ==
  /\ pc = "poll" /\ ~HasUsed /\ timeouts < MaxTimeouts
  /\ pc' = "idle" /\ answer' = "failed"
  /\ timeouts' = timeouts + 1
  /\ UNCHANGED <<queueVars, user, call, todo, cmd, resp, ready, addr, jobs, effects, poolVars>>

\* The device reads the chain and the request that it points to (external).
Fetch ==
  /\ user # "nobody" /\ HasAvail
  /\ TakeAvail
  /\ jobs' = jobs \cup {[head |-> NextAvail, op |-> Op(cmd, addr[NextAvail])]}
  /\ UNCHANGED <<user, pc, requestVars, addr, poolVars>>

\* It writes data and response, then the used ring (external).
Complete(job) ==
  /\ user \in Requesters /\ job \in jobs
  /\ PutUsed(job.head)
  /\ jobs' = jobs \ {job}
  /\ \/ /\ effects' = Append(effects, job.op)
        /\ resp' = CASE user = "blk" -> "ok"
                     [] user = "gpu" -> IF job.op.what = "info" THEN "info" ELSE "nodata"
                     [] OTHER -> resp
     \/ /\ user \in {"blk", "gpu"}
        /\ resp' = "error" /\ UNCHANGED effects
  /\ UNCHANGED <<user, pc, call, todo, cmd, answer, ready, addr, timeouts, poolVars>>

-----------------------------------------------------------------------------
(* Pools.                                                                  *)

\* post_rx_buffer, post_evt_buffer: when there is no descriptor the buffer is
\* not posted, and nobody is told.
PostBuffer(i) ==
  IF HasRoom(1)
  THEN /\ AddChain(1)
       /\ addr' = [addr EXCEPT ![free_head] = i]
       /\ slot_of' = [slot_of EXCEPT ![free_head] = i]
  ELSE UNCHANGED <<queueVars, addr, slot_of>>

PoolCount == IF PoolSize > num THEN num ELSE PoolSize

\* One turn of fill_rx_queue or fill_evt_queue; the device may begin at once.
FillQueue ==
  /\ pc = "fill"
  /\ PostBuffer(filled)
  /\ filled' = filled + 1
  /\ pc' = IF filled' = PoolCount THEN "idle" ELSE "fill"
  /\ UNCHANGED <<user, requestVars, jobs, slot, full, content, length, arrived, got>>

\* (Variant: the buffer is given back before it is copied.)
PostFirst == [take |-> "post", post |-> "copy", copy |-> "idle"]

\* The order of the steps of virtio_net_rx and virtio_input_poll.
StepAfter == [take |-> "copy", copy |-> "post", post |-> "idle"]

\* A used buffer is taken; without one the call returns 0 and nothing happens.
Take ==
  /\ user \in Pools /\ pc = "idle" /\ HasUsed
  /\ LET head == used[last_used_idx % num] IN
     slot' = slot_of[head] /\ full' = (length[head] = "frame")
  /\ GetUsed
  /\ pc' = StepAfter.take
  /\ UNCHANGED <<user, requestVars, addr, jobs, slot_of, filled, content, length, arrived, got>>

Copy ==
  /\ pc = "copy"
  /\ got' = IF full THEN Append(got, content[slot]) ELSE got
  /\ pc' = StepAfter.copy
  /\ UNCHANGED <<queueVars, user, requestVars, addr, jobs, slot_of, filled, slot, full,
                 content, length, arrived>>

PostAgain ==
  /\ pc = "post"
  /\ PostBuffer(slot)
  /\ pc' = StepAfter.post
  /\ UNCHANGED <<user, requestVars, jobs, filled, slot, full, content, length, arrived, got>>

\* The device puts a frame, or too little for one, into a buffer (external).
Receive(job) ==
  /\ user \in Pools /\ job \in jobs
  /\ PutUsed(job.head)
  /\ jobs' = jobs \ {job}
  /\ \/ /\ arrived < MaxFrames /\ arrived' = arrived + 1
        /\ content' = [content EXCEPT ![job.op.buf] = arrived']
        /\ length' = [length EXCEPT ![job.head] = "frame"]
     \/ /\ content' = [content EXCEPT ![job.op.buf] = 0]
        /\ length' = [length EXCEPT ![job.head] = "short"]
        /\ UNCHANGED arrived
  /\ UNCHANGED <<user, pc, requestVars, addr, slot_of, filled, slot, full, got>>

DriversNext ==
  \/ user \in Requesters /\ \E c \in Calls(user) : Call(c)
  \/ NextCommand \/ Finish \/ Timeout
  \/ Fetch
  \/ \E job \in jobs : Complete(job) \/ Receive(job)
  \/ FillQueue \/ Take \/ Copy \/ PostAgain

-----------------------------------------------------------------------------
(* Properties.                                                             *)

Working == {job.head : job \in jobs}

\* The chains that are on their way to the device, in it, or on their way back.
InFlight == Between(avail, seen_idx, avail_idx) \cup Working
              \cup Between(used, last_used_idx, used_idx)

\* No descriptor is lost or given out twice, through timeouts, late answers,
\* answers in another order and the wrap of the 16-bit indices
\* (virtqueue_add_chain, virtqueue_get_used).
DescriptorsKept ==
  /\ DriversTypeOK
  /\ user # "nobody" => DescriptorsAccounted(Working)
  /\ Cardinality(Working) = Cardinality(jobs)

\* While no request has timed out, the device is quiet between calls: it does
\* not write to memory that the caller uses for something else.  A call that
\* returned success has had each of its commands carried out, once and in
\* order, with the request and the buffer of this call, and one that returned
\* -1 has stopped at the command that failed (blk_do_request, gpu_send_cmd,
\* virtio_net_tx, virtio_rng_read).
RequestsAreDone ==
  user \in Requesters /\ pc = "idle" /\ timeouts = 0 /\ call # <<>> =>
    /\ InFlight = {}
    /\ IF answer = "ok" THEN effects = call ELSE IsStrictPrefix(effects, call)

\* Every frame or event comes out once, in the order of arrival, as the device
\* wrote it; each buffer of the pool is in flight exactly once, but for the one
\* that is being taken out, so that the pool never runs dry (virtio_net_rx,
\* virtio_input_poll).
FramesAreTrue ==
  user \in Pools =>
    /\ got = [i \in 1 .. Len(got) |-> i]
    /\ \A h \in InFlight : addr[h] = slot_of[h]
    /\ \A g, h \in InFlight : slot_of[g] = slot_of[h] => g = h
    /\ pc = "idle" => {slot_of[h] : h \in InFlight} = 0 .. PoolCount - 1

=============================================================================
