-------------------------- MODULE EncoderPipeline --------------------------
(***************************************************************************)
(* What the C ABI (src/include/cujpegxl/cujpegxl.h) promises its caller,   *)
(* with no slots, threads or counters: an encoder is a queue of at most    *)
(* Depth frames in flight.  Frames complete in the background, in order;   *)
(* receive waits for the oldest one and hands back its output.  A submit   *)
(* that does not return OK leaves no frame in flight.  Destruction waits   *)
(* for the frames in flight.                                               *)
(***************************************************************************)
EXTENDS Naturals, Sequences

CONSTANTS
  Depth,     (* the most frames in flight                                  *)
  Frames,    (* a frame as submitted: [output, config]                     *)
  NoOutput   (* the answer of a call that returns no output                *)

VARIABLES
  queue,     (* the frames in flight, oldest first, with their statuses    *)
  call,      (* the call the caller is in                                  *)
  answer     (* what the last call returned                                *)

vars == <<queue, call, answer>>

Completions == {"OK", "BUFFER_TOO_SMALL", "INTERNAL_ERROR"}

Refusals == {"INVALID_ARGUMENT", "UNSUPPORTED_RESOLUTION", "NO_DEVICE",
             "UNSUPPORTED_DEVICE", "INTERNAL_ERROR"}

Pending == "PENDING"

Answer(status, output) == [status |-> status, output |-> output]

Init ==
  /\ queue = <<>>
  /\ call = "none"
  /\ answer = Answer("OK", NoOutput)

(* Creating or configuring an encoder, or a call whose arguments are bad:  *)
(* the frames in flight are not concerned.                                 *)
OtherCall(status) ==
  /\ call = "none"
  /\ status \in Refusals \cup {"OK"}
  /\ answer' = Answer(status, NoOutput)
  /\ UNCHANGED <<queue, call>>

SubmitFull ==
  /\ call = "none"
  /\ Len(queue) = Depth
  /\ answer' = Answer("PIPELINE_FULL", NoOutput)
  /\ UNCHANGED <<queue, call>>

Submit ==
  /\ call = "none"
  /\ Len(queue) < Depth
  /\ call' = "submit"
  /\ UNCHANGED <<queue, answer>>

Accept(f) ==
  /\ call = "submit"
  /\ queue' = Append(queue, [frame |-> f, status |-> Pending])
  /\ call' = "accepted"
  /\ UNCHANGED answer

SubmitReturns ==
  /\ \/ call = "submit"   /\ answer' = Answer("INTERNAL_ERROR", NoOutput)
     \/ call = "accepted" /\ answer' = Answer("OK", NoOutput)
  /\ call' = "none"
  /\ UNCHANGED queue

Complete(status) ==
  /\ \E i \in DOMAIN queue :
       /\ queue[i].status = Pending
       /\ \A j \in 1 .. i - 1 : queue[j].status # Pending
       /\ queue' = [queue EXCEPT ![i].status = status]
  /\ UNCHANGED <<call, answer>>

ReceiveEmpty ==
  /\ call = "none"
  /\ queue = <<>>
  /\ answer' = Answer("PIPELINE_EMPTY", NoOutput)
  /\ UNCHANGED <<queue, call>>

Receive ==
  /\ call = "none"
  /\ queue # <<>>
  /\ call' = "receive"
  /\ UNCHANGED <<queue, answer>>

ReceiveReturns ==
  /\ call = "receive"
  /\ Head(queue).status # Pending
  /\ answer' = Answer(Head(queue).status, Head(queue).frame.output)
  /\ queue' = Tail(queue)
  /\ call' = "none"

Destroy ==
  /\ call = "none"
  /\ call' = "destroy"
  /\ UNCHANGED <<queue, answer>>

DestroyReturns ==
  /\ call = "destroy"
  /\ \A i \in DOMAIN queue : queue[i].status # Pending
  /\ call' = "destroyed"
  /\ UNCHANGED <<queue, answer>>

Next ==
  \/ \E status \in Refusals \cup {"OK"} : OtherCall(status)
  \/ SubmitFull \/ Submit \/ (\E f \in Frames : Accept(f)) \/ SubmitReturns
  \/ \E status \in Completions : Complete(status)
  \/ ReceiveEmpty \/ Receive \/ ReceiveReturns
  \/ Destroy \/ DestroyReturns

(* Every frame in flight completes, and every call returns. *)
Fairness ==
  /\ WF_vars(\E status \in Completions : Complete(status))
  /\ WF_vars(SubmitReturns)
  /\ WF_vars(ReceiveReturns)
  /\ WF_vars(DestroyReturns)

Spec == Init /\ [][Next]_vars /\ Fairness
============================================================================
