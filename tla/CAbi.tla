------------------------------- MODULE CAbi -------------------------------
(***************************************************************************)
(* src/src/cujpegxl.cc: the C ABI over a FrameEncoder.  The encoder object *)
(* keeps the config of the frames submitted next and, beside the slots of  *)
(* the FrameEncoder, its own ring of the caller's outputs: receive() of    *)
(* the FrameEncoder returns a result only, the ring says whose it is.      *)
(*                                                                         *)
(* The caller's buffer of an output is the output itself: Buffers are the  *)
(* cujpegxl_output objects, Params the configs.  The ABI is called by one  *)
(* thread at a time ("An encoder is not thread-safe").                     *)
(***************************************************************************)
EXTENDS FrameEncoder, Sequences

CONSTANTS
  GoodDistance,  (* the configs whose distance is finite and positive      *)
  NoOutput,      (* not an output: nullptr                                 *)
  NoConfig       (* no encoder, no config                                  *)

ASSUME GoodDistanceAssumption == GoodDistance \subseteq Params
ASSUME NoOutputAssumption     == NoOutput \notin Buffers
ASSUME NoConfigAssumption     == NoConfig \notin Params

VARIABLES
  handle,         (* the caller's cujpegxl_encoder: "null", "live", "gone" *)
  config,
  outputs,        (* the ring of outputs, and where its oldest one is      *)
  oldest_output,
  pending,        (* submit's locals: its output and in_flight             *)
  status,         (* what the last ABI call returned                       *)
  out_output,     (* the output the last receive returned                  *)
  size            (* output->size, as the frame whose file has the size    *)

ring    == <<outputs, oldest_output>>
abi     == <<handle, config, ring, pending, status, out_output, size>>
abiVars == <<vars, abi>>

NoSubmit == [output |-> NoOutput, in_flight |-> 0]

AbiInit ==
  /\ Init
  /\ handle = "null"
  /\ config = NoConfig
  /\ outputs = [i \in Slot |-> NoOutput]
  /\ oldest_output = 0
  /\ pending = NoSubmit
  /\ status = "OK"
  /\ out_output = NoOutput
  /\ size = [o \in Buffers |-> NoFrame]

validate_config(c) ==
  CASE c \notin GoodDistance                     -> "INVALID_ARGUMENT"
    [] c \in GoodDistance /\ c \notin Encodable  -> "UNSUPPORTED_RESOLUTION"
    [] c \in GoodDistance /\ c \in Encodable     -> "OK"

(* The caller is in no ABI call. *)
Calling == caller = "idle"

(* A call that answers without touching the encoder. *)
Answers(s) ==
  /\ status' = s
  /\ out_output' = NoOutput
  /\ UNCHANGED <<vars, handle, config, ring, pending, size>>

---------------------------------------------------------------------------
(* A null pointer or a zero depth, or pitches shorter than a row. *)
BadArguments == Calling /\ handle # "gone" /\ Answers("INVALID_ARGUMENT")

Create(c) ==
  /\ Calling /\ handle = "null"
  /\ validate_config(c) = "OK"
  /\ handle' = "live"
  /\ config' = c
  /\ status' = "OK"
  /\ out_output' = NoOutput
  /\ UNCHANGED <<vars, ring, pending, size>>

(* The config is refused, the device is missing or has no code in the      *)
(* library, or the object cannot be allocated: there is no encoder.        *)
CreateFails(c) ==
  /\ Calling /\ handle = "null"
  /\ \/ validate_config(c) # "OK" /\ Answers(validate_config(c))
     \/ /\ validate_config(c) = "OK"
        /\ \E e \in {"NO_DEVICE", "UNSUPPORTED_DEVICE", "INTERNAL_ERROR"} :
             Answers(e)

Configure(c) ==
  /\ Calling /\ handle = "live"
  /\ validate_config(c) = "OK"
  /\ config' = c
  /\ status' = "OK"
  /\ out_output' = NoOutput
  /\ UNCHANGED <<vars, handle, ring, pending, size>>

ConfigureFails(c) ==
  /\ Calling /\ handle = "live"
  /\ validate_config(c) # "OK"
  /\ Answers(validate_config(c))

---------------------------------------------------------------------------
(* cujpegxl_encoder_submit validates the encoder's config again. *)
AbiSubmitRefused ==
  /\ Calling /\ handle = "live"
  /\ \/ validate_config(config) # "OK" /\ Answers(validate_config(config))
     \/ /\ validate_config(config) = "OK"
        /\ in_flight = Depth
        /\ Answers("PIPELINE_FULL")

(* Mutant: a full pipeline is not reported. *)
AbiSubmit_Full(o) ==
  /\ Calling /\ handle = "live"
  /\ validate_config(config) = "OK"
  /\ pending' = [output |-> o, in_flight |-> in_flight]
  /\ SubmitCall(config, o)
  /\ UNCHANGED <<handle, config, ring, status, out_output, size>>

(* The FrameEncoder is called past its assertion: that it has room is left *)
(* to the test of in_flight here.                                          *)
AbiSubmit(o) ==
  /\ Calling /\ handle = "live"
  /\ validate_config(config) = "OK"
  /\ in_flight # Depth
  /\ pending' = [output |-> o, in_flight |-> in_flight]
  /\ SubmitCall(config, o)
  /\ UNCHANGED <<handle, config, ring, status, out_output, size>>

(* FrameEncoder::submit goes on. *)
AbiSubmitting ==
  /\ SubmitPrepare \/ SubmitEnqueue \/ SubmitPublish
  /\ UNCHANGED abi

AbiSubmitFails ==
  /\ SubmitPrepareFails \/ SubmitEnqueueFails
  /\ status' = "INTERNAL_ERROR"
  /\ out_output' = NoOutput
  /\ pending' = NoSubmit
  /\ UNCHANGED <<handle, config, ring, size>>

(* Mutant: in_flight is read after the frame was accepted. *)
AbiSubmitReturns_LateInFlight ==
  /\ SubmitNotify
  /\ outputs' = [outputs EXCEPT ![(oldest_output + in_flight) % Depth] =
                   pending.output]
  /\ status' = "OK"
  /\ out_output' = NoOutput
  /\ pending' = NoSubmit
  /\ UNCHANGED <<handle, config, oldest_output, size>>

AbiSubmitReturns ==
  /\ SubmitNotify
  /\ outputs' = [outputs EXCEPT ![(oldest_output + pending.in_flight) % Depth] =
                   pending.output]
  /\ status' = "OK"
  /\ out_output' = NoOutput
  /\ pending' = NoSubmit
  /\ UNCHANGED <<handle, config, oldest_output, size>>

---------------------------------------------------------------------------
AbiReceiveEmpty ==
  /\ Calling /\ handle = "live"
  /\ in_flight = 0
  /\ Answers("PIPELINE_EMPTY")

(* Mutant: an empty pipeline is not reported. *)
AbiReceive_Empty ==
  /\ Calling /\ handle = "live"
  /\ ReceiveCall
  /\ UNCHANGED abi

AbiReceive ==
  /\ Calling /\ handle = "live"
  /\ in_flight # 0
  /\ ReceiveCall
  /\ UNCHANGED abi

AbiReceiving ==
  /\ ReceiveBlock \/ CallerSpuriousWake
  /\ UNCHANGED abi

(* Mutant: the ring advances before the output is read. *)
AbiReceiveReturns_Late ==
  LET output == outputs[(oldest_output + 1) % Depth]
      failed == returned'.status = "FAILED" IN
  /\ ReceiveTake
  /\ oldest_output' = (oldest_output + 1) % Depth
  /\ out_output' = output
  /\ status' = IF failed THEN "INTERNAL_ERROR" ELSE returned'.status
  /\ size' = [o \in Buffers |-> IF o = output /\ ~failed THEN returned'.file_size
                                                         ELSE size[o]]
  /\ UNCHANGED <<handle, config, outputs, pending>>

(* The size is set unless the frame failed. *)
AbiReceiveReturns ==
  LET output == outputs[oldest_output]
      failed == returned'.status = "FAILED" IN
  /\ ReceiveTake
  /\ oldest_output' = (oldest_output + 1) % Depth
  /\ out_output' = output
  /\ status' = IF failed THEN "INTERNAL_ERROR" ELSE returned'.status
  /\ size' = IF failed THEN size
             ELSE [size EXCEPT ![output] = returned'.file_size]
  /\ UNCHANGED <<handle, config, outputs, pending>>

---------------------------------------------------------------------------
AbiDestroy ==
  /\ Calling /\ handle = "live"
  /\ DestroyStop
  /\ UNCHANGED abi

AbiDestroying ==
  /\ \/ DestroyNotify /\ UNCHANGED handle
     \/ DestroyJoin /\ handle' = "gone"
  /\ UNCHANGED <<config, ring, pending, status, out_output, size>>

(* The driver thread runs from the construction of the FrameEncoder on. *)
AbiDrive ==
  /\ handle = "live"
  /\ Drive \/ DriverSpuriousWake
  /\ UNCHANGED abi

AbiGone == handle = "gone" /\ UNCHANGED abiVars

AbiNext ==
  \/ BadArguments
  \/ \E c \in Params :
       Create(c) \/ CreateFails(c) \/ Configure(c) \/ ConfigureFails(c)
  \/ AbiSubmitRefused \/ AbiSubmitting \/ AbiSubmitFails \/ AbiSubmitReturns
  \/ \E o \in Buffers : AbiSubmit(o)
  \/ AbiReceiveEmpty \/ AbiReceive \/ AbiReceiving \/ AbiReceiveReturns
  \/ AbiDestroy \/ AbiDestroying
  \/ AbiDrive
  \/ AbiGone

AbiSpec == AbiInit /\ [][AbiNext]_abiVars

(* As in FrameEncoder: calls in progress and the driver are scheduled. *)
AbiFairness ==
  /\ WF_abiVars(AbiSubmitting \/ AbiSubmitFails \/ AbiSubmitReturns)
  /\ WF_abiVars(ReceiveBlock /\ UNCHANGED abi)
  /\ WF_abiVars(AbiReceiveReturns)
  /\ WF_abiVars(AbiDestroying)
  /\ WF_abiVars(handle = "live" /\ Drive /\ UNCHANGED abi)

AbiFairSpec == AbiSpec /\ AbiFairness
---------------------------------------------------------------------------
(* Properties.                                                             *)

(* The ABI's ring of outputs and the FrameEncoder's ring of slots are kept *)
(* apart, by different counters: at every frame in flight they must agree. *)
(* The frame being accepted enters the outputs only when submit returns.   *)
RingsAgree ==
  /\ oldest_output = SlotOf(received)
  /\ \A k \in InFlight :
       \/ k = submitted - 1 /\ caller = "notify"
       \/ outputs[(oldest_output + k - received) % Depth] = frame[SlotOf(k)].out

(* An OK receive hands back an output holding the file of a frame that was *)
(* submitted into it, with that file's size, unless a frame submitted into *)
(* the same output is still in flight.                                     *)
ReceivedFileInOutput ==
  Calling /\ status = "OK" /\ out_output # NoOutput =>
    /\ size[out_output] # NoFrame
    /\ size[out_output].out = out_output
    /\ \/ files[out_output] = size[out_output]
       \/ \E k \in InFlight : frame[SlotOf(k)].out = out_output

(* FrameEncoder leaves to its caller what it only asserts: that submit     *)
(* finds room and receive a frame.  The ABI's own tests, in_flight against *)
(* the depth and 0 for equality, see to it: however its calls interleave   *)
(* with the driver, every call of the FrameEncoder is one that Spec allows. *)
UsesFrameEncoder == Spec

---------------------------------------------------------------------------
(* The abstract pipeline: what of the slots is in flight, oldest first.    *)

AbstractStatus(k) ==
  LET r == result[SlotOf(k)].status IN
  CASE k >= completed                 -> "PENDING"
    [] k < completed /\ r = "FAILED" -> "INTERNAL_ERROR"
    [] k < completed /\ r # "FAILED" -> r

AbstractFrame(f) == [output |-> f.out, config |-> f.params]

AbstractQueue ==
  [i \in 1 .. in_flight |->
     LET k == received + i - 1 IN
     [frame |-> AbstractFrame(frame[SlotOf(k)]), status |-> AbstractStatus(k)]]

AbstractCall ==
  CASE caller = "idle"                               -> "none"
    [] caller \in {"prepare", "enqueue", "publish"} -> "submit"
    [] caller = "notify"                             -> "accepted"
    [] caller \in {"receive", "waiting"}            -> "receive"
    [] caller \in {"stopping", "joining"}           -> "destroy"
    [] caller = "destroyed"                          -> "destroyed"

Pipeline == INSTANCE EncoderPipeline WITH
  Frames <- [output : Buffers, config : Params],
  queue  <- AbstractQueue,
  call   <- AbstractCall,
  answer <- [status |-> status, output |-> out_output]

(* The C ABI, with its rings, counters, locks and threads, behaves as a    *)
(* queue of frames in flight (module EncoderPipeline), fairness included.  *)
ImplementsPipeline == Pipeline!Spec
===========================================================================
