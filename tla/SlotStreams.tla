----------------------------- MODULE SlotStreams -----------------------------
(***************************************************************************)
(* The device work of one slot of the FrameEncoder: the operations that    *)
(* submit (enqueue_frame) and the driver (start_copies, code_frame) put in *)
(* the slot's three CUDA streams, the events that order the streams, and   *)
(* the buffers the operations share with the host                          *)
(* (src/src/frame_encoder.cu).                                             *)
(*                                                                         *)
(* FrameEncoder shows that the caller and the driver never use one slot at *)
(* a time; here the frames given to the slot follow each other, and it is  *)
(* the device that runs behind.  The frames in the other slots are out of  *)
(* sight: the driver comes to this slot once or twice a frame.             *)
(*                                                                         *)
(* What a buffer holds is abstracted to whether it is data of the slot's   *)
(* frame.  It is after an operation of that frame whose inputs were; data  *)
(* of other frames, of different frames, or none are all alike.            *)
(***************************************************************************)
EXTENDS Integers, FiniteSets, SequencesExt

CONSTANTS
  AC_BATCHES,    (* the batches the AC groups are packed and copied in     *)
  Image,         (* [num_ac, tokens, aligned]: the parameters of the       *)
                 (* frames: AC groups, the coder's tokens, chroma pitch    *)
  MaxFrames      (* bound: calls of submit                                 *)

ASSUME BoundsAssumption == AC_BATCHES \in Nat \ {0} /\ MaxFrames \in Nat
ASSUME ImageAssumption ==
  /\ Image # {}
  /\ Image \subseteq [num_ac : Nat \ {0, 1}, tokens : Nat \ {0}, aligned : BOOLEAN]

Stream == {"input_stream", "stream", "dc_stream", "copy_stream"}
SlotStream == Stream \ {"input_stream"}
Batch  == 0 .. AC_BATCHES - 1

-----------------------------------------------------------------------------
(* Events and buffers.  A device buffer stands for all the outputs of the  *)
(* call that fills it.                                                     *)

Once(e)      == <<e>>
packed(b)    == <<"batch_packed", b>>
copied(b)    == <<"batch_copied", b>>
Event == {Once(e) : e \in {"input_ready", "forked", "layout_copied",
                           "dc_sizes_copied", "dc_body_copied"}}
         \cup {packed(b) : b \in Batch} \cup {copied(b) : b \in Batch}
NO_EVENT == <<>>

planes  == <<"planes">>     (* the caller's luma and chroma *)
texture == <<"texture">>    (* slot.chroma *)
dev(x)  == <<"device", x>>
host(x) == <<"host", x>>
devBatch(x, b)  == <<"device", x, b>>
hostBatch(x, b) == <<"host", x, b>>

HostOnce == {"calibration", "clustering", "coeff_orders", "layout", "dc_sizes", "dc_body"}
Arena == {dev(x) : x \in {"aligned_chroma", "frontend", "residual", "dc_hist", "am_hist",
                          "first_blocks", "dc_blobs", "dc_groups", "coeff_orders",
                          "histogram", "layout", "clustering"}}
         \cup {devBatch(x, b) : x \in {"entries", "raw"}, b \in Batch}
(* What each allocation of the slot consists of. *)
Memory ==
  [a \in {"arena", "chroma", "entries", "raw"} \cup HostOnce |->
     CASE a = "arena"              -> Arena
       [] a = "chroma"             -> {texture}
       [] a \in {"entries", "raw"} -> {hostBatch(a, b) : b \in Batch}
       [] OTHER                    -> {host(a)}]
Buffer == {planes} \cup UNION {Memory[a] : a \in DOMAIN Memory}

VARIABLES
  queue,      (* the operations in each stream, the next to run first      *)
  holds,      (* the buffers that hold data of the slot's frame            *)
  capacity,   (* of each allocation; 1 if slot.chroma has a texture        *)
  slot,       (* the frame of the last submit, its image, copies_started   *)
  caller,     (* phase of the caller and its next call                     *)
  driver,     (* phase of the driver, its next call, batches seen landed   *)
  in_flight,  (* submitted and not yet received                            *)
  result      (* of the last frame *)

device == <<queue, holds, capacity>>
vars   == <<device, slot, caller, driver, in_flight, result>>

batch_begin(num_ac, b) == (b * num_ac) \div AC_BATCHES
HasGroups(image, b) == batch_begin(image.num_ac, b) # batch_begin(image.num_ac, b + 1)
-----------------------------------------------------------------------------
(* A call of the CUDA runtime. *)

Call(kind, s, event, reads, writes) ==
  [kind |-> kind, stream |-> s, event |-> event, reads |-> reads, writes |-> writes]
Run(s, reads, writes) == Call("run", s, NO_EVENT, reads, writes)
Copy(s, from, to)     == Run(s, {from}, {to})
Record(s, event)      == Call("record", s, event, {}, {})
Wait(s, event)        == Call("wait", s, event, {}, {})
Sync(s)               == Call("sync", s, NO_EVENT, {}, {})
Reserve(a, size)      == [kind |-> "reserve", memory |-> a, size |-> size]
ToHost(s, x)          == Copy(s, dev(x), host(x))

(* Mutant: a failed frame's token copies may still run. *)
ReuseCalls_NoCopyStream == <<Sync("stream"), Sync("dc_stream")>>

(* submit: the slot's streams are idle before it is used again. *)
ReuseCalls == <<Sync("stream"), Sync("dc_stream"), Sync("copy_stream")>>

ReserveCalls(image) ==
  <<Reserve("arena", image.num_ac), Reserve("calibration", 1), Reserve("clustering", 1),
    Reserve("coeff_orders", 1), Reserve("layout", 3 * image.num_ac + 2),
    Reserve("dc_sizes", 1)>>

(* The front end, on `stream` after the caller's work on its own stream. *)
InputCalls(image) ==
  <<Record("input_stream", Once("input_ready")), Wait("stream", Once("input_ready"))>>
  \o (IF image.aligned THEN <<>> ELSE <<Copy("stream", planes, dev("aligned_chroma"))>>)

FrontendCalls(image) ==
  <<[kind |-> "texture"],
    Run("stream", {planes, texture} \cup
                  (IF image.aligned THEN {} ELSE {dev("aligned_chroma")}),
        {dev("frontend")}),
    Run("stream", {dev("frontend")}, {dev("residual")})>>

(* Mutant: the DC path does not wait for the front end. *)
DcCalls_NoFork ==
  <<Record("stream", Once("forked")),
    Run("dc_stream", {dev("residual")}, {dev("dc_hist")}),
    Run("dc_stream", {dev("frontend"), dev("residual")}, {dev("am_hist")}),
    Run("dc_stream", {dev("frontend")}, {dev("first_blocks")}),
    Run("dc_stream", {dev("dc_hist"), dev("am_hist"), dev("first_blocks")}, {dev("dc_blobs")}),
    Run("dc_stream", {dev("frontend"), dev("residual"), dev("first_blocks"), dev("dc_blobs")},
        {dev("dc_groups")}),
    Copy("dc_stream", dev("dc_groups"), host("dc_sizes")),
    Record("dc_stream", Once("dc_sizes_copied"))>>

(* The DcGroups, on a stream forked from `stream`. *)
DcCalls ==
  <<Record("stream", Once("forked")), Wait("dc_stream", Once("forked")),
    Run("dc_stream", {dev("residual")}, {dev("dc_hist")}),
    Run("dc_stream", {dev("frontend"), dev("residual")}, {dev("am_hist")}),
    Run("dc_stream", {dev("frontend")}, {dev("first_blocks")}),
    Run("dc_stream", {dev("dc_hist"), dev("am_hist"), dev("first_blocks")}, {dev("dc_blobs")}),
    Run("dc_stream", {dev("frontend"), dev("residual"), dev("first_blocks"), dev("dc_blobs")},
        {dev("dc_groups")}),
    Copy("dc_stream", dev("dc_groups"), host("dc_sizes")),
    Record("dc_stream", Once("dc_sizes_copied"))>>

(* The tables of the AC entropy code and the layout of its tokens. *)
AcCalls ==
  <<Run("stream", {dev("residual")}, {dev("coeff_orders")}),
    Run("stream", {dev("frontend"), dev("residual"), dev("coeff_orders")}, {dev("histogram")}),
    Run("stream", {dev("histogram")}, {dev("layout")}),
    Run("stream", {dev("histogram")}, {dev("clustering")}),
    Copy("stream", dev("frontend"), host("calibration")),
    ToHost("stream", "clustering"), ToHost("stream", "coeff_orders"), ToHost("stream", "layout"),
    Record("stream", Once("layout_copied"))>>

PackCalls(image, b) ==
  (IF HasGroups(image, b)
   THEN <<Run("stream", {dev("frontend"), dev("residual"), dev("coeff_orders"),
                         dev("clustering"), dev("histogram"), dev("layout")},
              {devBatch("entries", b), devBatch("raw", b)})>>
   ELSE <<>>)
  \o <<Record("stream", packed(b))>>

OverBatches(Calls(_, _), image) == FlattenSeq([i \in 1 .. AC_BATCHES |-> Calls(image, i - 1)])

SubmitCalls ==
  [image \in Image |->
     ReuseCalls \o ReserveCalls(image) \o InputCalls(image) \o FrontendCalls(image)
     \o DcCalls \o AcCalls \o OverBatches(PackCalls, image)]

(* start_copies: the tokens of a batch follow its packing only. *)
CopyCalls(image, b) ==
  <<Wait("copy_stream", packed(b))>>
  \o (IF HasGroups(image, b)
      THEN <<Copy("copy_stream", devBatch("entries", b), hostBatch("entries", b)),
             Copy("copy_stream", devBatch("raw", b), hostBatch("raw", b))>>
      ELSE <<>>)
  \o <<Record("copy_stream", copied(b))>>

StartCopiesCalls ==
  [image \in Image |->
     <<Reserve("entries", image.tokens), Reserve("raw", image.tokens + 1)>>
     \o OverBatches(CopyCalls, image)]

(* code_frame, thread 0: the coded DcGroups, once their sizes are known. *)
FetchDcCalls ==
  [image \in Image |->
     <<Reserve("dc_body", image.tokens), Copy("dc_stream", dev("dc_groups"), host("dc_body")),
       Record("dc_stream", Once("dc_body_copied"))>>]
-----------------------------------------------------------------------------
(* What a call does.  cudaStreamWaitEvent waits for the last record of the *)
(* event made before the call: a waiting operation counts the records it   *)
(* has ahead of it.                                                        *)

Records(event) ==
  UNION {{s} \X {i \in DOMAIN queue[s] :
                    queue[s][i].kind = "record" /\ queue[s][i].event = event} : s \in Stream}
Pending(event) == Cardinality(Records(event))

(* What cudaEventSynchronize waits for, and cudaEventQuery asks. *)
Landed(event) == Pending(event) = 0

Operation(c) ==
  [kind |-> c.kind, frame |-> slot.frame, event |-> c.event,
   ahead |-> IF c.kind = "wait" THEN Pending(c.event) ELSE 0,
   reads |-> c.reads, writes |-> c.writes]

Enqueue(c) ==
  /\ queue' = [queue EXCEPT ![c.stream] = Append(@, Operation(c))]
  /\ UNCHANGED <<holds, capacity>>

Allocated(a, size) ==
  /\ capacity' = [capacity EXCEPT ![a] = size]
  /\ holds' = holds \ Memory[a]
  /\ UNCHANGED queue

(* Buffers of the host have headroom. *)
Grown(a, size) == IF a = "arena" THEN size ELSE size + size \div 4

(* DeviceArena::reserve and PinnedBuffer::reserve: the old memory is freed *)
(* first, and the contents are not kept.                                   *)
Grow(c) == capacity[c.memory] < c.size /\ Allocated(c.memory, Grown(c.memory, c.size))
Keep(c) == capacity[c.memory] >= c.size /\ UNCHANGED device

(* slot.chroma.emplace: the destructor of the texture before waits for the *)
(* stream that reads it.                                                   *)
TextureIdle == capacity["chroma"] = 1 => queue["stream"] = <<>>
Emplace ==
  /\ TextureIdle
  /\ capacity' = [capacity EXCEPT !["chroma"] = 1]
  /\ holds' = holds \cup {texture}
  /\ UNCHANGED queue

Succeeds(c) ==
  \/ c.kind \in {"run", "record", "wait"} /\ Enqueue(c)
  \/ c.kind = "sync" /\ queue[c.stream] = <<>> /\ UNCHANGED device
  \/ c.kind = "reserve" /\ (Grow(c) \/ Keep(c))
  \/ c.kind = "texture" /\ Emplace

(* A call that fails enqueues nothing; a failed allocation has freed the   *)
(* memory it was to replace, and a failed texture the one before it.       *)
Fails(c) ==
  \/ c.kind \in {"run", "record", "wait", "sync"} /\ UNCHANGED device
  \/ c.kind = "reserve" /\ capacity[c.memory] < c.size /\ Allocated(c.memory, 0)
  \/ c.kind = "texture" /\ TextureIdle /\ Allocated("chroma", 0)
-----------------------------------------------------------------------------
(* The device runs the operations of each stream in order. *)

(* A record has been reached: one fewer ahead of the waits for its event. *)
Reached(event, ops) ==
  [i \in DOMAIN ops |->
     IF ops[i].event = event /\ ops[i].ahead > 0
     THEN [ops[i] EXCEPT !.ahead = @ - 1] ELSE ops[i]]

Execute(s) ==
  /\ queue[s] # <<>>
  /\ LET op   == Head(queue[s])
         rest == [queue EXCEPT ![s] = Tail(@)]
     IN  \/ /\ op.kind = "run"
            /\ holds' = IF op.frame = slot.frame /\ op.reads \subseteq holds
                        THEN holds \cup op.writes ELSE holds \ op.writes
            /\ queue' = rest
         \/ /\ op.kind = "record"
            /\ queue' = [t \in Stream |-> Reached(op.event, rest[t])]
            /\ UNCHANGED holds
         \/ /\ op.kind = "wait" /\ op.ahead = 0
            /\ queue' = rest
            /\ UNCHANGED holds
  /\ UNCHANGED <<capacity, slot, caller, driver, in_flight, result>>
-----------------------------------------------------------------------------
(* The caller.  It writes the planes of a frame in its own stream and      *)
(* submits them; they stay as they are until the frame is received.        *)

Begin(image) ==
  /\ caller.phase = "idle" /\ ~in_flight /\ slot.frame < MaxFrames
  /\ slot' = [frame |-> slot.frame + 1, image |-> image, copies_started |-> FALSE]
  /\ queue' = [queue EXCEPT !["input_stream"] =
        Append(@, [kind |-> "run", frame |-> slot.frame + 1, event |-> NO_EVENT, ahead |-> 0,
                   reads |-> {}, writes |-> {planes}])]
  /\ holds' = {}
  /\ caller' = [phase |-> "submit", next |-> 1]
  /\ driver' = [driver EXCEPT !.visited = FALSE]
  /\ result' = "none"
  /\ UNCHANGED <<capacity, in_flight>>

Submitting == caller.phase = "submit" /\ caller.next <= Len(SubmitCalls[slot.image])

SubmitCall ==
  /\ Submitting
  /\ Succeeds(SubmitCalls[slot.image][caller.next])
  /\ caller' = [caller EXCEPT !.next = @ + 1]
  /\ UNCHANGED <<slot, driver, in_flight, result>>

(* submit returns false; what it has enqueued runs on. *)
SubmitFails ==
  /\ Submitting
  /\ Fails(SubmitCalls[slot.image][caller.next])
  /\ caller' = [phase |-> "idle", next |-> 1]
  /\ UNCHANGED <<slot, driver, in_flight, result>>

SubmitPublish ==
  /\ caller.phase = "submit" /\ caller.next > Len(SubmitCalls[slot.image])
  /\ in_flight' = TRUE
  /\ caller' = [phase |-> "idle", next |-> 1]
  /\ UNCHANGED <<device, slot, driver, result>>

Receive ==
  /\ in_flight /\ result # "none"
  /\ in_flight' = FALSE
  /\ UNCHANGED <<device, slot, caller, driver, result>>
-----------------------------------------------------------------------------
(* The driver. *)

Coming == driver.phase = "away" /\ in_flight /\ result = "none"
Go(phase) == driver' = [driver EXCEPT !.phase = phase, !.next = 1]
Complete(r) == Go("away") /\ result' = r

(* start_next_copies, in the host stage of the frame before: only if the   *)
(* layout has landed.                                                      *)
StartNextCopies ==
  /\ Coming /\ ~driver.visited /\ Landed(Once("layout_copied"))
  /\ driver' = [driver EXCEPT !.phase = "early", !.next = 1, !.visited = TRUE]
  /\ UNCHANGED <<device, slot, caller, in_flight, result>>

CodeFrame ==
  /\ Coming
  /\ Go(IF slot.copies_started THEN "tables" ELSE "layout")
  /\ UNCHANGED <<device, slot, caller, in_flight, result>>

LayoutLands ==
  /\ driver.phase = "layout" /\ Landed(Once("layout_copied"))
  /\ Go("copies")
  /\ UNCHANGED <<device, slot, caller, in_flight, result>>

Copying == driver.phase \in {"early", "copies"}

CopyCall ==
  /\ Copying /\ driver.next <= Len(StartCopiesCalls[slot.image])
  /\ Succeeds(StartCopiesCalls[slot.image][driver.next])
  /\ driver' = [driver EXCEPT !.next = @ + 1]
  /\ UNCHANGED <<slot, caller, in_flight, result>>

(* A failure of the early copies shows again when the frame is coded. *)
CopyFails ==
  /\ Copying /\ driver.next <= Len(StartCopiesCalls[slot.image])
  /\ Fails(StartCopiesCalls[slot.image][driver.next])
  /\ IF driver.phase = "early" THEN Go("away") /\ UNCHANGED result ELSE Complete("failed")
  /\ UNCHANGED <<slot, caller, in_flight>>

CopiesStarted ==
  /\ Copying /\ driver.next > Len(StartCopiesCalls[slot.image])
  /\ slot' = [slot EXCEPT !.copies_started = TRUE]
  /\ Go(IF driver.phase = "early" THEN "away" ELSE "tables")
  /\ UNCHANGED <<device, caller, in_flight, result>>

(* AcGlobal is built from the tables, and the token streams are set up. *)
TablesBuilt ==
  /\ driver.phase = "tables"
  /\ driver' = [driver EXCEPT !.phase = "release", !.landed = 0]
  /\ UNCHANGED <<device, slot, caller, in_flight, result>>

(* Mutant: one batch too many. *)
ReleaseBatch_OneMore ==
  /\ driver.phase = "release" /\ driver.landed <= AC_BATCHES
  /\ Landed(copied(driver.landed))
  /\ driver' = [driver EXCEPT !.landed = @ + 1]
  /\ UNCHANGED <<device, slot, caller, in_flight, result>>

(* release_batches; the threads code the tokens released from here on. *)
ReleaseBatch ==
  /\ driver.phase = "release" /\ driver.landed < AC_BATCHES
  /\ Landed(copied(driver.landed))
  /\ driver' = [driver EXCEPT !.landed = @ + 1]
  /\ UNCHANGED <<device, slot, caller, in_flight, result>>

AllReleased ==
  /\ driver.phase = "release" /\ driver.landed = AC_BATCHES
  /\ Go("dc_sizes")
  /\ UNCHANGED <<device, slot, caller, in_flight, result>>

DcSizesLand ==
  /\ driver.phase = "dc_sizes" /\ Landed(Once("dc_sizes_copied"))
  /\ Go("fetch")
  /\ UNCHANGED <<device, slot, caller, in_flight, result>>

FetchCall ==
  /\ driver.phase = "fetch" /\ driver.next <= Len(FetchDcCalls[slot.image])
  /\ Succeeds(FetchDcCalls[slot.image][driver.next])
  /\ driver' = [driver EXCEPT !.next = @ + 1]
  /\ UNCHANGED <<slot, caller, in_flight, result>>

FetchFails ==
  /\ driver.phase = "fetch" /\ driver.next <= Len(FetchDcCalls[slot.image])
  /\ Fails(FetchDcCalls[slot.image][driver.next])
  /\ Complete("failed")
  /\ UNCHANGED <<slot, caller, in_flight>>

(* Mutant: the file is assembled before the DcGroups have been copied. *)
DcBodyLands_NoWait ==
  /\ driver.phase = "fetch" /\ driver.next > Len(FetchDcCalls[slot.image])
  /\ Go("assemble")
  /\ UNCHANGED <<device, slot, caller, in_flight, result>>

DcBodyLands ==
  /\ driver.phase = "fetch" /\ driver.next > Len(FetchDcCalls[slot.image])
  /\ Landed(Once("dc_body_copied"))
  /\ Go("assemble")
  /\ UNCHANGED <<device, slot, caller, in_flight, result>>

Assemble ==
  /\ driver.phase = "assemble"
  /\ Complete("ok")
  /\ UNCHANGED <<device, slot, caller, in_flight>>

(* A wait for an event fails, or the DcGroups exceed their capacity. *)
CodeFails ==
  /\ \/ driver.phase \in {"layout", "dc_sizes"}
     \/ driver.phase = "release" /\ driver.landed < AC_BATCHES
     \/ driver.phase = "fetch" /\ (driver.next = 1 \/ driver.next > Len(FetchDcCalls[slot.image]))
  /\ Complete("failed")
  /\ UNCHANGED <<device, slot, caller, in_flight>>
-----------------------------------------------------------------------------
Init ==
  /\ queue = [s \in Stream |-> <<>>]
  /\ holds = {}
  /\ capacity = [a \in DOMAIN Memory |-> 0]
  /\ slot = [frame |-> 0, image |-> CHOOSE image \in Image : TRUE, copies_started |-> FALSE]
  /\ caller = [phase |-> "idle", next |-> 1]
  /\ driver = [phase |-> "away", next |-> 1, landed |-> 0, visited |-> FALSE]
  /\ in_flight = FALSE /\ result = "none"

Caller ==
  \/ \E image \in Image : Begin(image)
  \/ SubmitCall \/ SubmitFails \/ SubmitPublish \/ Receive

Drive ==
  \/ StartNextCopies \/ CodeFrame \/ LayoutLands \/ CopyCall \/ CopyFails \/ CopiesStarted
  \/ TablesBuilt \/ ReleaseBatch \/ AllReleased \/ DcSizesLand
  \/ FetchCall \/ FetchFails \/ DcBodyLands \/ Assemble \/ CodeFails

(* The bound on frames is reached, and the device is idle. *)
Stopped ==
  /\ slot.frame = MaxFrames /\ caller.phase = "idle" /\ ~in_flight
  /\ \A s \in Stream : queue[s] = <<>>
  /\ UNCHANGED vars

Next == Caller \/ Drive \/ (\E s \in Stream : Execute(s)) \/ Stopped

Spec == Init /\ [][Next]_vars
-----------------------------------------------------------------------------
Op == [kind : {"run", "record", "wait"}, frame : 1 .. MaxFrames,
       event : Event \cup {NO_EVENT}, ahead : Nat,
       reads : SUBSET Buffer, writes : SUBSET Buffer]

(* Every variable keeps its type: operations address buffers of the slot   *)
(* and events it created, and a buffer holds data of a frame submitted.    *)
TypeOK ==
  /\ queue \in [Stream -> Seq(Op)]
  /\ holds \subseteq Buffer
  /\ capacity \in [DOMAIN Memory -> Nat]
  /\ slot \in [frame : 0 .. MaxFrames, image : Image, copies_started : BOOLEAN]
  /\ caller \in [phase : {"idle", "submit"}, next : 1 .. Len(SubmitCalls[slot.image]) + 1]
  /\ driver \in [phase : {"away", "early", "layout", "copies", "tables", "release",
                          "dc_sizes", "fetch", "assemble"},
                 next : 1 .. Len(StartCopiesCalls[slot.image]) + 1,
                 landed : 0 .. AC_BATCHES, visited : BOOLEAN]
  /\ in_flight \in BOOLEAN /\ result \in {"none", "ok", "failed"}

(* What the host reads, or lets the coding threads read, in each phase of  *)
(* the driver.                                                             *)
Released ==
  {hostBatch(x, b) : x \in {"entries", "raw"},
                     b \in {c \in Batch : c < driver.landed /\ HasGroups(slot.image, c)}}
Reading ==
  CASE driver.phase \in {"early", "copies"} -> {host("layout")}
    [] driver.phase = "tables" ->
         {host("calibration"), host("clustering"), host("coeff_orders"), host("layout")}
    [] driver.phase \in {"release", "dc_sizes"} -> Released
    [] driver.phase = "fetch"    -> Released \cup {host("dc_sizes")}
    [] driver.phase = "assemble" -> Released \cup {host("dc_sizes"), host("dc_body")}
    [] OTHER -> {}

(* The host reads only data of the frame it codes, and the data stand      *)
(* while it reads them: through three streams, copies started early, late  *)
(* or twice, and whatever a failed submit or frame has left running, no    *)
(* kernel or copy ran before its inputs were there or after they were      *)
(* overwritten (the events of enqueue_frame and start_copies).             *)
HostReadsItsFrame == Reading \subseteq holds

Uses(x) ==
  \E s \in Stream : \E i \in DOMAIN queue[s] : x \in queue[s][i].reads \cup queue[s][i].writes

(* No memory is freed, nor a texture destroyed, while an operation that    *)
(* uses it is still to run: reserve grows the arena and the pinned buffers *)
(* in submit, on the driver and after failures.                            *)
Freed(a) ==
  \/ capacity[a] # 0 /\ capacity'[a] # capacity[a]
  \/ a = "chroma" /\ capacity[a] # 0 /\ texture \in holds' \ holds
FreedWhenUnused ==
  [][\A a \in DOMAIN Memory : Freed(a) => \A x \in Memory[a] : ~Uses(x)]_vars

(* A frame that completes OK has run all its device work, so that its      *)
(* planes are no longer read when it is received and its slot is idle.     *)
OkLeavesNothingRunning ==
  result = "ok" => \A s \in SlotStream : queue[s] = <<>>

(* submit "returns without waiting for" the frame (cujpegxl.h): when it    *)
(* waits for a stream, it is for what earlier frames left there, never for *)
(* work of the frame it submits.                                           *)
Awaited(c) ==
  IF c.kind = "sync" THEN {c.stream}
  ELSE IF c.kind = "texture" /\ capacity["chroma"] = 1 THEN {"stream"} ELSE {}
SubmitDoesNotWait ==
  Submitting =>
    \A s \in Awaited(SubmitCalls[slot.image][caller.next]) :
      \A i \in DOMAIN queue[s] : queue[s][i].frame # slot.frame
=============================================================================
