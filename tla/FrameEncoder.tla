--------------------------- MODULE FrameEncoder ---------------------------
(***************************************************************************)
(* The pipeline of src/src/frame_encoder.cu: class FrameEncoder with its   *)
(* State.  A caller thread submits, receives and destroys; a driver thread *)
(* codes the frames on the host.  Frame k (counting the accepted frames    *)
(* from 0) lives in slot k % Depth until it is received.                   *)
(*                                                                         *)
(* A step of the model is a critical section of State::mutex, or the work  *)
(* a thread does outside of it between two of them.  A condition variable  *)
(* is a control state of its waiter ("asleep", "waiting"): a notification  *)
(* moves the waiter back to where it evaluates its predicate, and is lost  *)
(* when nobody waits.  Every CUDA call may fail.  What code_frame does     *)
(* inside (threads, batches, placement) is module HostStage; here it is    *)
(* the points at which it touches the slots and the output buffer.         *)
(***************************************************************************)
EXTENDS Integers

CONSTANTS
  Depth,      (* pipeline_depth, the number of slots                       *)
  MaxCalls,   (* BOUND: calls of submit() in the life of the encoder       *)
  Params,     (* what a frame is encoded with: size and distance           *)
  Encodable,  (* the Params of more than one AC group                      *)
  Buffers,    (* the caller's output buffers (out_file)                    *)
  NoFrame     (* not a frame                                               *)

(* A frame that was given a slot; call tells the calls of submit() apart. *)
Frame == [call : 1 .. MaxCalls, params : Encodable, out : Buffers]

ASSUME DepthAssumption    == Depth \in Nat \ {0}
ASSUME MaxCallsAssumption == MaxCalls \in Nat
ASSUME EncodableAssumption == Encodable \subseteq Params
ASSUME NoFrameAssumption  == NoFrame \notin Frame

VARIABLES
  (* State, under the mutex *)
  submitted, completed, received, stop,
  (* Slot: one function of the slot index per field *)
  frame,           (* the frame whose size, out_file, ... the slot holds   *)
  device,          (* the frame whose device work was enqueued             *)
  copies_started,
  tokens,          (* the frame whose token copies were enqueued           *)
  result,
  (* the caller thread *)
  caller, calls, args,
  accepted,        (* what submit() last returned                          *)
  returned,        (* what receive() last returned                         *)
  (* the driver thread *)
  driver, outcome,
  (* memory of the caller: the frame whose file each buffer holds *)
  files

counters == <<submitted, completed, received, stop>>
slots    == <<frame, device, copies_started, tokens, result>>
replies  == <<accepted, returned>>
callers  == <<caller, calls, args, replies>>
drivers  == <<driver, outcome>>
vars     == <<counters, slots, callers, drivers, files>>

Slot == 0 .. Depth - 1

SlotOf(k) == k % Depth

in_flight == submitted - received

Statuses == {"OK", "BUFFER_TOO_SMALL", "FAILED"}

(* EncodeResult: a file size is abstracted to the frame whose file has it. *)
EncodeResult == [status : Statuses, file_size : Frame \cup {NoFrame}]

ENCODE_FAILED == [status |-> "FAILED", file_size |-> NoFrame]

Init ==
  /\ submitted = 0 /\ completed = 0 /\ received = 0 /\ stop = FALSE
  /\ frame          = [i \in Slot |-> NoFrame]
  /\ device         = [i \in Slot |-> NoFrame]
  /\ copies_started = [i \in Slot |-> FALSE]
  /\ tokens         = [i \in Slot |-> NoFrame]
  /\ result         = [i \in Slot |-> ENCODE_FAILED]
  /\ caller = "idle" /\ calls = 0 /\ args = NoFrame
  /\ accepted = FALSE /\ returned = ENCODE_FAILED
  /\ driver = "check" /\ outcome = ENCODE_FAILED
  /\ files = [b \in Buffers |-> NoFrame]

---------------------------------------------------------------------------
(* submit(): the caller thread.                                            *)

(* Mutant: the pipeline may hold one frame more than there are slots. *)
SubmitBegin_DepthOffByOne(p, b) ==
  /\ caller = "idle"
  /\ calls < MaxCalls
  /\ in_flight <= Depth
  /\ calls' = calls + 1
  /\ p \in Encodable
  /\ args' = [call |-> calls + 1, params |-> p, out |-> b]
  /\ caller' = "prepare"
  /\ UNCHANGED <<counters, slots, replies, drivers, files>>

(* Mutant: frames of a single AC group are not refused. *)
SubmitBegin_AnySize(p, b) ==
  /\ caller = "idle"
  /\ calls < MaxCalls
  /\ in_flight < Depth
  /\ calls' = calls + 1
  /\ args' = [call |-> calls + 1, params |-> p, out |-> b]
  /\ caller' = "prepare"
  /\ UNCHANGED <<counters, slots, replies, drivers, files>>

(* submit() past its assertion, which a release build does not evaluate: a *)
(* frame of a single AC group is refused before any slot is touched.       *)
SubmitCall(p, b) ==
  /\ caller = "idle"
  /\ calls < MaxCalls
  /\ calls' = calls + 1
  /\ IF p \in Encodable
     THEN /\ args' = [call |-> calls + 1, params |-> p, out |-> b]
          /\ caller' = "prepare"
          /\ UNCHANGED accepted
     ELSE /\ accepted' = FALSE
          /\ UNCHANGED <<args, caller>>
  /\ UNCHANGED <<counters, slots, returned, drivers, files>>

(* in_flight() < pipeline_depth() is asserted: what the caller owes.       *)
SubmitBegin(p, b) == in_flight < Depth /\ SubmitCall(p, b)

(* Mutant: the reused slot keeps the copies_started of its last frame. *)
SubmitPrepare_KeepsCopiesStarted ==
  /\ caller = "prepare"
  /\ frame' = [frame EXCEPT ![SlotOf(submitted)] = args]
  /\ caller' = "enqueue"
  /\ UNCHANGED <<counters, device, copies_started, tokens, result, calls, args,
                 replies, drivers, files>>

(* Mutant: the slot is chosen by the calls made, failed ones included. *)
SubmitPrepare_SlotOfCall ==
  LET s == SlotOf(calls - 1) IN
  /\ caller = "prepare"
  /\ frame' = [frame EXCEPT ![s] = args]
  /\ copies_started' = [copies_started EXCEPT ![s] = FALSE]
  /\ caller' = "enqueue"
  /\ UNCHANGED <<counters, device, tokens, result, calls, args, replies, drivers,
                 files>>

(* The device is selected, the slot's streams are created at the first use *)
(* and drained; the slot then takes the frame's arguments.                 *)
SubmitPrepare ==
  LET s == SlotOf(submitted) IN
  /\ caller = "prepare"
  /\ frame' = [frame EXCEPT ![s] = args]
  /\ copies_started' = [copies_started EXCEPT ![s] = FALSE]
  /\ caller' = "enqueue"
  /\ UNCHANGED <<counters, device, tokens, result, calls, args, replies,
                 drivers, files>>

SubmitFails ==
  /\ caller' = "idle"
  /\ args' = NoFrame
  /\ accepted' = FALSE
  /\ UNCHANGED <<counters, frame, copies_started, tokens, result, calls,
                 returned, drivers, files>>

SubmitPrepareFails ==
  /\ caller = "prepare"
  /\ SubmitFails
  /\ UNCHANGED device

SubmitEnqueue ==
  /\ caller = "enqueue"
  /\ device' = [device EXCEPT ![SlotOf(submitted)] = args]
  /\ caller' = "publish"
  /\ UNCHANGED <<counters, frame, copies_started, tokens, result, calls, args,
                 replies, drivers, files>>

(* A prefix of the device work has been enqueued: the slot's device        *)
(* buffers hold no whole frame.                                            *)
SubmitEnqueueFails ==
  /\ caller = "enqueue"
  /\ SubmitFails
  /\ device' = [device EXCEPT ![SlotOf(submitted)] = NoFrame]

SubmitPublish ==
  /\ caller = "publish"
  /\ submitted' = submitted + 1
  /\ caller' = "notify"
  /\ UNCHANGED <<completed, received, stop, slots, calls, args, replies,
                 drivers, files>>

(* Mutant: the driver is not notified. *)
NotifyDriver_Missing == UNCHANGED drivers

(* submitted_cv.notify_one(), after the mutex is released. *)
NotifyDriver ==
  /\ driver' = IF driver = "asleep" THEN "check" ELSE driver
  /\ UNCHANGED outcome

SubmitNotify ==
  /\ caller = "notify"
  /\ NotifyDriver
  /\ caller' = "idle"
  /\ args' = NoFrame
  /\ accepted' = TRUE
  /\ UNCHANGED <<counters, slots, calls, returned, files>>

---------------------------------------------------------------------------
(* receive(): the caller thread.                                           *)

(* receive() past its assertion, *)
ReceiveCall ==
  /\ caller = "idle"
  /\ caller' = "receive"
  /\ UNCHANGED <<counters, slots, calls, args, replies, drivers, files>>

(* in_flight() > 0. *)
ReceiveBegin == in_flight > 0 /\ ReceiveCall

ReceiveBlock ==
  /\ caller = "receive"
  /\ completed = received
  /\ caller' = "waiting"
  /\ UNCHANGED <<counters, slots, calls, args, replies, drivers, files>>

ReceiveTake ==
  /\ caller = "receive"
  /\ completed # received
  /\ returned' = result[SlotOf(received)]
  /\ received' = received + 1
  /\ caller' = "idle"
  /\ UNCHANGED <<submitted, completed, stop, slots, calls, args, accepted,
                 drivers, files>>

(* A condition variable may wake its waiter without a notification. *)
CallerSpuriousWake ==
  /\ caller = "waiting"
  /\ caller' = "receive"
  /\ UNCHANGED <<counters, slots, calls, args, replies, drivers, files>>

---------------------------------------------------------------------------
(* ~State(): the caller thread.                                            *)

DestroyStop ==
  /\ caller = "idle"
  /\ stop' = TRUE
  /\ caller' = "stopping"
  /\ UNCHANGED <<submitted, completed, received, slots, calls, args, replies,
                 drivers, files>>

DestroyNotify ==
  /\ caller = "stopping"
  /\ NotifyDriver
  /\ caller' = "joining"
  /\ UNCHANGED <<counters, slots, calls, args, replies, files>>

DestroyJoin ==
  /\ caller = "joining"
  /\ driver = "exited"
  /\ caller' = "destroyed"
  /\ UNCHANGED <<counters, slots, calls, args, replies, drivers, files>>

---------------------------------------------------------------------------
(* drive() and code_frame(): the driver thread.                            *)

(* Mutant: the driver obeys stop before the frames in flight. *)
DriverCheck_StopFirst ==
  /\ driver = "check"
  /\ driver' = CASE stop                             -> "exited"
                 [] ~stop /\ completed # submitted   -> "start"
                 [] ~stop /\ completed = submitted   -> "asleep"
  /\ UNCHANGED <<counters, slots, callers, outcome, files>>

(* submitted_cv.wait's predicate and the return after it. *)
DriverCheck ==
  /\ driver = "check"
  /\ driver' = CASE completed # submitted            -> "start"
                 [] completed = submitted /\ stop    -> "exited"
                 [] completed = submitted /\ ~stop   -> "asleep"
  /\ UNCHANGED <<counters, slots, callers, outcome, files>>

DriverSpuriousWake ==
  /\ driver = "asleep"
  /\ driver' = "check"
  /\ UNCHANGED <<counters, slots, callers, outcome, files>>

(* start_copies enqueues the token copies of the slot once, in either of   *)
(* its two calls; the copies read what the device work left there.         *)
EnqueueCopies(s) ==
  /\ copies_started' = [copies_started EXCEPT ![s] = TRUE]
  /\ tokens' = IF copies_started[s] THEN tokens
               ELSE [tokens EXCEPT ![s] = device[s]]
  /\ UNCHANGED <<frame, device, result>>

(* start_copies(slot, true), at the head of code_frame. *)
DriverStartCopies ==
  /\ driver = "start"
  /\ EnqueueCopies(SlotOf(completed))
  /\ driver' = "code"
  /\ UNCHANGED <<counters, callers, outcome, files>>

(* Mutant: code_frame goes on after start_copies failed. *)
DriverStartCopiesFails_Ignored ==
  /\ driver = "start"
  /\ ~copies_started[SlotOf(completed)]
  /\ driver' = "code"
  /\ UNCHANGED <<counters, slots, callers, outcome, files>>

DriverStartCopiesFails ==
  /\ driver = "start"
  /\ ~copies_started[SlotOf(completed)]
  /\ driver' = "publish"
  /\ outcome' = ENCODE_FAILED
  /\ UNCHANGED <<counters, slots, callers, files>>

(* Mutant: the next slot is touched whether or not a frame is in it. *)
DriverPeekNext_Always ==
  /\ driver = "code"
  /\ driver' = "next"
  /\ UNCHANGED <<counters, slots, callers, outcome, files>>

(* The worker pool has coded the frame's tokens; start_next_copies looks   *)
(* for a next frame under the mutex.                                       *)
DriverPeekNext ==
  /\ driver = "code"
  /\ driver' = IF completed + 1 = submitted THEN "finish" ELSE "next"
  /\ UNCHANGED <<counters, slots, callers, outcome, files>>

(* start_copies(next slot, false): the layout has not landed yet or a call *)
(* fails, which changes nothing here, or the copies are enqueued.          *)
DriverStartNext ==
  /\ driver = "next"
  /\ \/ EnqueueCopies(SlotOf(completed + 1))
     \/ UNCHANGED slots
  /\ driver' = "finish"
  /\ UNCHANGED <<counters, callers, outcome, files>>

(* The end of code_frame.  Only an OK frame writes the output buffer: its  *)
(* size is compared with the capacity before the first byte.               *)
DriverFinish ==
  LET f == frame[SlotOf(completed)] IN
  /\ driver = "finish"
  /\ \/ /\ outcome' = [status |-> "OK", file_size |-> f]
        /\ files' = [files EXCEPT ![f.out] = tokens[SlotOf(completed)]]
     \/ /\ outcome' = [status |-> "BUFFER_TOO_SMALL", file_size |-> f]
        /\ UNCHANGED files
     \/ /\ outcome' = ENCODE_FAILED
        /\ UNCHANGED files
  /\ driver' = "publish"
  /\ UNCHANGED <<counters, slots, callers>>

(* Mutant: the result goes to the slot of the count after the increment. *)
DriverPublish_CountFirst ==
  /\ driver = "publish"
  /\ completed' = completed + 1
  /\ result' = [result EXCEPT ![SlotOf(completed')] = outcome]
  /\ caller' = IF caller = "waiting" THEN "receive" ELSE caller
  /\ driver' = "check"
  /\ outcome' = ENCODE_FAILED
  /\ UNCHANGED <<submitted, received, stop, frame, device, copies_started,
                 tokens, calls, args, replies, files>>

(* Under the mutex, with completed_cv.notify_one(). *)
DriverPublish ==
  /\ driver = "publish"
  /\ result' = [result EXCEPT ![SlotOf(completed)] = outcome]
  /\ completed' = completed + 1
  /\ caller' = IF caller = "waiting" THEN "receive" ELSE caller
  /\ driver' = "check"
  /\ outcome' = ENCODE_FAILED
  /\ UNCHANGED <<submitted, received, stop, frame, device, copies_started,
                 tokens, calls, args, replies, files>>

---------------------------------------------------------------------------
Submit ==
  \/ SubmitPrepare \/ SubmitPrepareFails \/ SubmitEnqueue
  \/ SubmitEnqueueFails \/ SubmitPublish \/ SubmitNotify

Receive == ReceiveBlock \/ ReceiveTake

Destroy == DestroyNotify \/ DestroyJoin

Drive ==
  \/ DriverCheck \/ DriverStartCopies \/ DriverStartCopiesFails
  \/ DriverPeekNext \/ DriverStartNext \/ DriverFinish \/ DriverPublish

SpuriousWake == CallerSpuriousWake \/ DriverSpuriousWake

(* The encoder is gone: nothing is left to do. *)
Gone == caller = "destroyed" /\ UNCHANGED vars

Next ==
  \/ \E p \in Params, b \in Buffers : SubmitBegin(p, b)
  \/ Submit
  \/ ReceiveBegin \/ Receive
  \/ DestroyStop \/ Destroy
  \/ Drive
  \/ SpuriousWake
  \/ Gone

Spec == Init /\ [][Next]_vars

---------------------------------------------------------------------------
(* Properties.                                                             *)

CallerStates == {"idle", "prepare", "enqueue", "publish", "notify", "receive",
                 "waiting", "stopping", "joining", "destroyed"}

DriverStates == {"check", "asleep", "start", "code", "next", "finish",
                 "publish", "exited"}

(* The types of the counters, the slots' fields, the threads' control      *)
(* states and locals, and the buffers: in particular no frame of a single  *)
(* AC group, for which the coder has no layout, ever enters a slot.        *)
TypeOK ==
  /\ submitted \in Nat /\ completed \in Nat /\ received \in Nat
  /\ stop \in BOOLEAN
  /\ frame          \in [Slot -> Frame \cup {NoFrame}]
  /\ device         \in [Slot -> Frame \cup {NoFrame}]
  /\ copies_started \in [Slot -> BOOLEAN]
  /\ tokens         \in [Slot -> Frame \cup {NoFrame}]
  /\ result         \in [Slot -> EncodeResult]
  /\ caller \in CallerStates /\ calls \in 0 .. MaxCalls
  /\ args \in Frame \cup {NoFrame}
  /\ accepted \in BOOLEAN /\ returned \in EncodeResult
  /\ driver \in DriverStates /\ outcome \in EncodeResult
  /\ files \in [Buffers -> Frame \cup {NoFrame}]

(* The frames in flight: accepted by submit and not yet received. *)
InFlight == received .. submitted - 1

(* The three counters never pass each other and a frame is never accepted  *)
(* into a full pipeline: submit's in_flight check is made two critical     *)
(* sections before ++submitted.                                            *)
CountersOrdered ==
  /\ received <= completed
  /\ completed <= submitted
  /\ submitted <= received + Depth

CallerSlots ==
  IF caller \in {"prepare", "enqueue"} THEN {SlotOf(submitted)} ELSE {}

DriverSlots ==
  (IF driver \in {"start", "code", "next", "finish"}
     THEN {SlotOf(completed)} ELSE {})
  \cup (IF driver = "next" THEN {SlotOf(completed + 1)} ELSE {})

(* The caller prepares a slot, outside of the mutex, while the driver reads *)
(* and writes others: the frame it codes and, when it starts the next       *)
(* frame's copies early, the slot after it, wrapping around the ring.       *)
SlotExclusive == CallerSlots \cap DriverSlots = {}

(* The tokens the driver codes are those of the frame the slot was given,   *)
(* not what an earlier frame or a failed submit left in the reused slot.    *)
CodesItsFrame ==
  driver \in {"code", "next", "finish"} =>
    LET s == SlotOf(completed) IN
    /\ frame[s] # NoFrame
    /\ tokens[s] = frame[s]

(* A result waits in its slot for receive(): it is that of the slot's       *)
(* frame, and the file of an OK frame is in its buffer unless a frame       *)
(* submitted after it into the same buffer is in flight.                    *)
ResultsStand ==
  \A k \in received .. completed - 1 :
    LET s == SlotOf(k) IN
    /\ result[s].status # "FAILED" => result[s].file_size = frame[s]
    /\ result[s].status = "OK" =>
         \/ files[frame[s].out] = frame[s]
         \/ \E j \in k + 1 .. submitted - 1 :
              frame[SlotOf(j)].out = frame[s].out

(* From its acceptance to its receipt nothing a thread does changes what a  *)
(* slot holds of its frame, nor a result once published.                    *)
InFlightKept ==
  [][ \A k \in received' .. submitted - 1 :
        LET s == SlotOf(k) IN
        /\ frame'[s] = frame[s]
        /\ device'[s] = device[s]
        /\ k < completed => result'[s] = result[s] ]_vars

(* A caller's buffer is written only while a frame submitted into it is in  *)
(* flight and with that frame's file: never for a submit that failed, never *)
(* after the frame was received.                                            *)
FilesWrittenInFlight ==
  [][ \A b \in Buffers : files'[b] # files[b] =>
        \E k \in InFlight : /\ files'[b] = frame[SlotOf(k)]
                            /\ frame[SlotOf(k)].out = b ]_vars

(* The driver leaves only when every accepted frame has completed, so that  *)
(* the destructor waits for the frames in flight.                           *)
ExitDrains ==
  driver = "exited" => stop /\ completed = submitted
===========================================================================
