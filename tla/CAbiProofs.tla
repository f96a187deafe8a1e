---------------------------- MODULE CAbiProofs ----------------------------
(* Theorems about CAbi, for every depth, number of calls, set of configs   *)
(* and set of outputs.                                                     *)
EXTENDS CAbi, FrameEncoderProofs, SequenceTheorems

---------------------------------------------------------------------------
(* The ABI takes the FrameEncoder's steps, and no others.                  *)

(* What validate_config accepts the FrameEncoder can encode. *)
LEMMA ValidConfig ==
  ASSUME NEW c, validate_config(c) = "OK"
  PROVE  c \in Encodable /\ c \in Params
<1>1. c \in GoodDistance /\ c \in Encodable
  BY DEF validate_config
<1> QED BY <1>1, EncodableAssumption

(* A call of submit that the ABI lets through. The ABI has seen that       *)
(* in_flight is not the depth; that it is less is what the FrameEncoder's  *)
(* invariant says.                                                         *)
LEMMA AbiSubmitBegins ==
  ASSUME IInv, NEW o \in Buffers, AbiSubmit(o)
  PROVE  /\ \E p \in Params, b \in Buffers : SubmitBegin(p, b)
         /\ args'.out = o
         /\ caller' = "prepare"
         /\ in_flight < Depth
<1>1. config \in Encodable /\ config \in Params
  BY ValidConfig DEF AbiSubmit
<1>2. in_flight < Depth
  BY DepthAssumption
  DEF AbiSubmit, IInv, TypeOK, CountersOrdered, in_flight
<1>3. SubmitCall(config, o)
  BY DEF AbiSubmit
<1>4. SubmitBegin(config, o)
  BY <1>2, <1>3 DEF SubmitBegin
<1> QED BY <1>1, <1>2, <1>3, <1>4 DEF SubmitCall

(* A call of receive that the ABI lets through. *)
LEMMA AbiReceiveBegins ==
  ASSUME IInv, AbiReceive
  PROVE  ReceiveBegin
BY DEF AbiReceive, IInv, TypeOK, CountersOrdered, in_flight, ReceiveBegin

(* A step of the ABI is a step of the FrameEncoder or none. *)
LEMMA AbiStep ==
  ASSUME IInv, [AbiNext]_abiVars
  PROVE  [Next]_vars
<1>1. CASE \/ BadArguments \/ AbiSubmitRefused \/ AbiReceiveEmpty \/ AbiGone
           \/ \E c \in Params : Create(c) \/ CreateFails(c) \/ Configure(c)
                                  \/ ConfigureFails(c)
           \/ UNCHANGED abiVars
  BY <1>1 DEF BadArguments, AbiSubmitRefused, AbiReceiveEmpty, AbiGone, Create,
              CreateFails, Configure, ConfigureFails, Answers, abiVars
<1>2. CASE AbiSubmitting \/ AbiSubmitFails \/ AbiSubmitReturns
  BY <1>2 DEF AbiSubmitting, AbiSubmitFails, AbiSubmitReturns, Next, Submit
<1>3. CASE \E o \in Buffers : AbiSubmit(o)
  BY <1>3, AbiSubmitBegins DEF Next
<1>4. CASE AbiReceive
  BY <1>4, AbiReceiveBegins DEF Next
<1>5. CASE AbiReceiving \/ AbiReceiveReturns
  BY <1>5 DEF AbiReceiving, AbiReceiveReturns, Next, Receive, SpuriousWake
<1>6. CASE AbiDestroy \/ AbiDestroying \/ AbiDrive
  BY <1>6 DEF AbiDestroy, AbiDestroying, AbiDrive, Next, Destroy, SpuriousWake
<1> QED BY <1>1, <1>2, <1>3, <1>4, <1>5, <1>6 DEF AbiNext

(* The ABI calls the FrameEncoder only where its assertions hold, although *)
(* nothing below the ABI tests them: submit never finds the pipeline full, *)
(* receive never finds it empty.  That the ABI's equality tests suffice    *)
(* rests on the FrameEncoder's invariant, which in turn rests on the calls *)
(* made so far; all that is proved of FrameEncoder holds behind the ABI.   *)
THEOREM AbiUsesFrameEncoder == AbiSpec => UsesFrameEncoder
<1>1. AbiInit => Init /\ IInv
  BY InitIInv DEF AbiInit
<1>2. IInv /\ [AbiNext]_abiVars => [Next]_vars /\ IInv'
  BY AbiStep, NextIInv
<1> QED BY <1>1, <1>2, PTL DEF AbiSpec, Spec, UsesFrameEncoder
---------------------------------------------------------------------------
(* The inductive invariant: that of FrameEncoder, and what ties the ring   *)
(* of outputs to the ring of slots.                                        *)

AbiTypeOK ==
  /\ outputs \in [Slot -> Buffers \cup {NoOutput}]
  /\ size \in [Buffers -> Frame \cup {NoFrame}]
  /\ out_output \in Buffers \cup {NoOutput}

InSubmit == caller \in {"prepare", "enqueue", "publish", "notify"}

(* What submit remembers while the FrameEncoder's submit runs: its output,  *)
(* and how many frames were in flight before; nothing is received meanwhile, *)
(* so that this still is the place of the frame when it returns.            *)
PendingInv ==
  InSubmit =>
    /\ args \in Frame
    /\ pending.output = args.out
    /\ IF caller = "notify"
       THEN /\ received < submitted
            /\ pending.in_flight = submitted - 1 - received
            /\ frame[SlotOf(submitted - 1)] = args
       ELSE pending.in_flight = submitted - received

(* The oldest output is in the place of the oldest slot, and so is every    *)
(* output of a frame in flight but the one whose submit has yet to return.  *)
RingInv ==
  /\ oldest_output = SlotOf(received)
  /\ \A k \in InFlight :
       /\ frame[SlotOf(k)] \in Frame
       /\ \/ k = submitted - 1 /\ caller = "notify"
          \/ outputs[SlotOf(k)] = frame[SlotOf(k)].out

AbiIInv ==
  /\ IInv
  /\ AbiTypeOK
  /\ PendingInv
  /\ RingInv
  /\ ReceivedFileInOutput

(* Numbers a multiple of the depth apart have the same slot. *)
LEMMA SameSlot ==
  ASSUME NEW a \in Nat, NEW b \in Nat, NEW q \in Int, a - b = Depth * q
  PROVE  SlotOf(a) = SlotOf(b)
<1>1. /\ a = Depth * (a \div Depth) + (a % Depth)
      /\ b = Depth * (b \div Depth) + (b % Depth)
      /\ a \div Depth \in Nat /\ b \div Depth \in Nat
      /\ a % Depth \in 0 .. Depth - 1 /\ b % Depth \in 0 .. Depth - 1
  BY DepthAssumption
<1> DEFINE r == q - (a \div Depth) + (b \div Depth)
<1>2. r \in Int /\ (a % Depth) - (b % Depth) = Depth * r
  BY <1>1, DepthAssumption
<1>3. CASE r <= -1
  <2>1. Depth * r <= -Depth
    BY <1>2, <1>3, DepthAssumption
  <2> QED BY <1>1, <1>2, <2>1, DepthAssumption
<1>4. CASE r >= 1
  <2>1. Depth * r >= Depth
    BY <1>2, <1>4, DepthAssumption
  <2> QED BY <1>1, <1>2, <2>1, DepthAssumption
<1>5. CASE r = 0
  <2>1. Depth * r = 0
    BY <1>5, DepthAssumption
  <2> QED BY <1>1, <1>2, <2>1 DEF SlotOf
<1> QED BY <1>2, <1>3, <1>4, <1>5

(* The place of frame k in a ring whose oldest element is frame r. *)
LEMMA RingIndex ==
  ASSUME NEW r \in Nat, NEW k \in Nat, r <= k
  PROVE  (SlotOf(r) + (k - r)) % Depth = SlotOf(k)
<1> DEFINE a == SlotOf(r) + (k - r)
<1>1. /\ r = Depth * (r \div Depth) + (r % Depth)
      /\ r \div Depth \in Nat
      /\ r % Depth \in Nat
  BY DepthAssumption
<1>2. a \in Nat /\ -(r \div Depth) \in Int
  BY <1>1 DEF SlotOf
<1>3. a - k = Depth * (-(r \div Depth))
  BY <1>1, DepthAssumption DEF SlotOf
<1>4. SlotOf(a) = SlotOf(k)
  BY <1>2, <1>3, SameSlot
<1> QED BY <1>4 DEF SlotOf

(* The invariant holds initially. *)
LEMMA InitAbiIInv == AbiInit => AbiIInv
<1> SUFFICES ASSUME AbiInit PROVE AbiIInv
  OBVIOUS
<1>1. IInv
  BY InitIInv DEF AbiInit
<1>2. AbiTypeOK /\ PendingInv /\ ReceivedFileInOutput
  BY DEF AbiInit, Init, AbiTypeOK, PendingInv, InSubmit, ReceivedFileInOutput
<1>3. RingInv
  <2>1. InFlight = {}
    BY DEF AbiInit, Init, InFlight
  <2>2. SlotOf(received) = 0
    BY DepthAssumption DEF AbiInit, Init, SlotOf
  <2> QED BY <2>1, <2>2 DEF AbiInit, RingInv
<1> QED BY <1>1, <1>2, <1>3 DEF AbiIInv

(* The driver moves neither end of the frames in flight nor the caller,    *)
(* but to wake it in receive.                                              *)
LEMMA DriveKeeps ==
  ASSUME Drive \/ DriverSpuriousWake
  PROVE  /\ UNCHANGED <<submitted, received, stop, calls, args, replies>>
         /\ \/ caller' = caller
            \/ caller = "waiting" /\ caller' = "receive"
BY DEF Drive, DriverCheck, DriverStartCopies, DriverStartCopiesFails,
       DriverPeekNext, DriverStartNext, DriverFinish, DriverPublish,
       DriverSpuriousWake, counters, callers, replies

(* As long as nothing enters or leaves the pipeline the rings agree.       *)
LEMMA RingKept ==
  ASSUME AbiIInv, [Next]_vars, UNCHANGED <<ring, submitted, received>>,
         caller = "notify" => caller' = "notify"
  PROVE  RingInv'
<1> SUFFICES ASSUME NEW k \in received .. submitted - 1
             PROVE  /\ frame'[SlotOf(k)] \in Frame
                    /\ \/ k = submitted - 1 /\ caller' = "notify"
                       \/ outputs[SlotOf(k)] = frame'[SlotOf(k)].out
  BY DEF AbiIInv, RingInv, InFlight, ring
<1>1. frame'[SlotOf(k)] = frame[SlotOf(k)]
  <2>1. CASE Next
    BY <2>1, KeepsInFlight DEF AbiIInv
  <2>2. CASE UNCHANGED vars
    BY <2>2 DEF vars, slots
  <2> QED BY <2>1, <2>2
<1> QED BY <1>1 DEF AbiIInv, RingInv, InFlight

(* Nor is what was received spoilt by what the driver writes: it writes    *)
(* only what is in flight.                                                 *)
LEMMA ReceivedKept ==
  ASSUME AbiIInv, AbiDrive
  PROVE  ReceivedFileInOutput'
<1> USE DEF AbiDrive, abi
<1>0. /\ UNCHANGED <<submitted, received>>
      /\ caller' = "idle" => caller = "idle"
  BY DriveKeeps
<1> DEFINE o == out_output
<1> SUFFICES ASSUME caller = "idle", status = "OK", o # NoOutput
             PROVE  /\ size[o] # NoFrame
                    /\ size[o].out = o
                    /\ \/ files'[o] = size[o]
                       \/ \E k \in InFlight' : frame'[SlotOf(k)].out = o
  BY <1>0 DEF ReceivedFileInOutput, Calling
<1>1. /\ o \in Buffers /\ size[o] # NoFrame /\ size[o].out = o
      /\ \/ files[o] = size[o]
         \/ \E k \in InFlight : frame[SlotOf(k)].out = o
  BY DEF AbiIInv, AbiTypeOK, ReceivedFileInOutput, Calling
<1>2. Next
  BY DEF Next, SpuriousWake
<1>3. InFlight' = InFlight
  BY <1>0 DEF InFlight
<1>4. \A k \in InFlight : frame'[SlotOf(k)] = frame[SlotOf(k)]
  BY <1>0, <1>2, KeepsInFlight DEF InFlight, AbiIInv
<1>5. CASE files'[o] = files[o]
  BY <1>1, <1>3, <1>4, <1>5
<1>6. CASE files'[o] # files[o]
  BY <1>1, <1>2, <1>3, <1>4, <1>6, WritesInFlight DEF AbiIInv
<1> QED BY <1>1, <1>5, <1>6

(* The calls that answer without touching the encoder, or only its config. *)
LEMMA AnswersAbiIInv ==
  ASSUME AbiIInv, IInv', UNCHANGED <<vars, ring, pending, size>>,
         out_output' = NoOutput
  PROVE  AbiIInv'
<1>1. AbiTypeOK' /\ PendingInv' /\ ReceivedFileInOutput'
  BY DEF AbiIInv, AbiTypeOK, PendingInv, InSubmit, ReceivedFileInOutput, vars,
         counters, slots, callers, ring
<1>2. RingInv'
  BY RingKept DEF vars, counters, callers
<1> QED BY <1>1, <1>2 DEF AbiIInv

(* The steps of a submit keep the invariant, *)
LEMMA SubmitAbiIInv ==
  ASSUME AbiIInv, IInv',
         \/ \E o \in Buffers : AbiSubmit(o)
         \/ AbiSubmitting \/ AbiSubmitFails \/ AbiSubmitReturns
  PROVE  AbiIInv'
<1> USE DEF AbiTypeOK, PendingInv, InSubmit, ReceivedFileInOutput, Calling,
            counters, callers, replies, ring, abi
<1>0. /\ submitted \in Nat /\ received \in Nat /\ received <= submitted
      /\ AbiTypeOK /\ PendingInv /\ RingInv
  BY DEF AbiIInv, IInv, TypeOK, CountersOrdered
<1>1. ASSUME NEW o \in Buffers, AbiSubmit(o)
      PROVE  AbiIInv'
  <2>1. /\ UNCHANGED <<counters, slots, ring, status, out_output, size>>
        /\ args'.out = o /\ caller = "idle" /\ caller' = "prepare"
        /\ pending' = [output |-> o, in_flight |-> submitted - received]
    BY <1>1, AbiSubmitBegins
    DEF AbiSubmit, SubmitCall, in_flight, AbiIInv
  <2>2. args' \in Frame
    BY <2>1 DEF IInv, ControlInv
  <2>3. Next
    BY <1>1, AbiSubmitBegins DEF Next, AbiIInv
  <2>4. RingInv'
    BY <2>1, <2>3, RingKept
  <2>5. AbiTypeOK' /\ PendingInv' /\ ReceivedFileInOutput'
    BY <1>0, <2>1, <2>2
  <2> QED BY <2>4, <2>5 DEF AbiIInv
<1>2. CASE (SubmitPrepare \/ SubmitEnqueue) /\ UNCHANGED abi
  <2>1. RingInv'
    BY <1>2, RingKept DEF SubmitPrepare, SubmitEnqueue, Next, Submit
  <2>2. AbiTypeOK' /\ PendingInv' /\ ReceivedFileInOutput'
    BY <1>0, <1>2 DEF SubmitPrepare, SubmitEnqueue
  <2> QED BY <2>1, <2>2 DEF AbiIInv
<1>3. CASE SubmitPublish /\ UNCHANGED abi
  <2>1. /\ submitted' = submitted + 1 /\ received' = received
        /\ UNCHANGED <<slots, args>>
        /\ caller = "publish" /\ caller' = "notify"
    BY <1>3 DEF SubmitPublish
  <2>2. frame[SlotOf(submitted)] = args
    BY <2>1 DEF AbiIInv, IInv, SlotsInv
  <2>3. InFlight' = InFlight \cup {submitted}
    BY <1>0, <2>1 DEF InFlight
  <2>4. RingInv'
    BY <1>0, <1>3, <2>1, <2>2, <2>3 DEF RingInv, slots
  <2>5. AbiTypeOK' /\ PendingInv' /\ ReceivedFileInOutput'
    BY <1>0, <1>3, <2>1, <2>2 DEF slots
  <2> QED BY <2>4, <2>5 DEF AbiIInv
<1>4. CASE AbiSubmitFails
  <2>1. RingInv'
    BY <1>4, RingKept
    DEF AbiSubmitFails, SubmitPrepareFails, SubmitEnqueueFails, SubmitFails,
        Next, Submit
  <2>2. AbiTypeOK' /\ PendingInv' /\ ReceivedFileInOutput'
    BY <1>0, <1>4
    DEF AbiSubmitFails, SubmitPrepareFails, SubmitEnqueueFails, SubmitFails
  <2> QED BY <2>1, <2>2 DEF AbiIInv
<1>5. CASE AbiSubmitReturns
  <2> DEFINE last == submitted - 1
  <2>1. /\ UNCHANGED <<counters, slots>>
        /\ caller = "notify" /\ caller' = "idle"
        /\ outputs' = [outputs EXCEPT
             ![(oldest_output + pending.in_flight) % Depth] = pending.output]
        /\ oldest_output' = oldest_output
        /\ out_output' = NoOutput /\ size' = size
    BY <1>5 DEF AbiSubmitReturns, SubmitNotify
  <2>2. (oldest_output + pending.in_flight) % Depth = SlotOf(last)
    BY <1>0, <2>1, RingIndex DEF RingInv
  <2>3. outputs' = [outputs EXCEPT ![SlotOf(last)] = frame[SlotOf(last)].out]
    BY <1>0, <2>1, <2>2
  <2>4. SlotOf(last) \in Slot /\ args.out \in Buffers
    BY <1>0, <2>1, SlotOfInSlot DEF Frame
  <2>5. ASSUME NEW k \in InFlight
        PROVE  outputs'[SlotOf(k)] = frame[SlotOf(k)].out
    <3>1. CASE k = last
      BY <1>0, <2>3, <2>4, <3>1
    <3>2. CASE k # last
      <4>1. last \in InFlight
        BY <1>0, <2>1 DEF InFlight
      <4>2. SlotOf(k) # SlotOf(last)
        BY <3>2, <4>1, InFlightApart DEF InFlight, AbiIInv, IInv
      <4>3. SlotOf(k) \in Slot
        BY <1>0, SlotOfInSlot DEF InFlight
      <4> QED BY <1>0, <2>1, <2>3, <3>2, <4>2, <4>3 DEF RingInv
    <3> QED BY <3>1, <3>2
  <2>6. RingInv'
    BY <1>0, <2>1, <2>5 DEF RingInv, InFlight, slots
  <2>7. AbiTypeOK'
    BY <1>0, <2>1, <2>3, <2>4
  <2>8. PendingInv' /\ ReceivedFileInOutput'
    BY <2>1
  <2> QED BY <2>6, <2>7, <2>8 DEF AbiIInv
<1> QED BY <1>1, <1>2, <1>3, <1>4, <1>5 DEF AbiSubmitting

(* those of a receive do, *)
LEMMA ReceiveAbiIInv ==
  ASSUME AbiIInv, IInv', AbiReceive \/ AbiReceiving \/ AbiReceiveReturns
  PROVE  AbiIInv'
<1> USE DEF AbiTypeOK, PendingInv, InSubmit, Calling, counters, callers,
            replies, ring, abi
<1>0. /\ submitted \in Nat /\ completed \in Nat /\ received \in Nat
      /\ received <= completed /\ completed <= submitted
      /\ AbiTypeOK /\ PendingInv /\ RingInv
  BY DEF AbiIInv, IInv, TypeOK, CountersOrdered
<1>1. CASE AbiReceive \/ AbiReceiving
  <2>1. RingInv'
    BY <1>1, RingKept, AbiReceiveBegins
    DEF AbiIInv, AbiReceive, AbiReceiving, ReceiveCall, ReceiveBlock,
        CallerSpuriousWake, Next, Receive, SpuriousWake
  <2>2. AbiTypeOK' /\ PendingInv' /\ ReceivedFileInOutput'
    BY <1>0, <1>1
    DEF AbiReceive, AbiReceiving, ReceiveCall, ReceiveBlock,
        CallerSpuriousWake, ReceivedFileInOutput
  <2> QED BY <2>1, <2>2 DEF AbiIInv
<1>2. CASE AbiReceiveReturns
  <2> DEFINE s == SlotOf(received)
             f == frame[s]
             failed == returned'.status = "FAILED"
  <2>1. /\ received' = received + 1 /\ received < completed
        /\ UNCHANGED <<submitted, completed, slots, files, outputs>>
        /\ caller = "receive" /\ caller' = "idle"
        /\ returned' = result[s]
        /\ oldest_output' = (oldest_output + 1) % Depth
        /\ out_output' = outputs[s]
        /\ status' = IF failed THEN "INTERNAL_ERROR" ELSE returned'.status
        /\ size' = IF failed THEN size
                   ELSE [size EXCEPT ![outputs[s]] = returned'.file_size]
    BY <1>0, <1>2 DEF AbiReceiveReturns, ReceiveTake, RingInv
  <2>2. received \in InFlight
    BY <1>0, <2>1 DEF InFlight
  <2>3. f \in Frame /\ outputs[s] = f.out /\ f.out \in Buffers
    BY <1>0, <2>1, <2>2 DEF RingInv, Frame
  <2>4. /\ ~failed => returned'.file_size = f
        /\ returned'.status = "OK" =>
             \/ files[f.out] = f
             \/ \E j \in received + 1 .. submitted - 1 :
                  frame[SlotOf(j)].out = f.out
    BY <1>0, <2>1 DEF AbiIInv, IInv, ResultsStand
  <2>5. AbiTypeOK'
    BY <1>0, <2>1, <2>3, <2>4
  <2>6. ReceivedFileInOutput'
    <3> SUFFICES ASSUME status' = "OK"
                 PROVE  /\ size'[f.out] # NoFrame
                        /\ size'[f.out].out = f.out
                        /\ \/ files[f.out] = size'[f.out]
                           \/ \E k \in InFlight' : frame[SlotOf(k)].out = f.out
      BY <2>1, <2>3 DEF ReceivedFileInOutput, slots
    <3>1. ~failed /\ returned'.status = "OK"
      BY <2>1
    <3>2. size'[f.out] = f
      BY <1>0, <2>1, <2>3, <2>4, <3>1
    <3>3. InFlight' = received + 1 .. submitted - 1
      BY <2>1 DEF InFlight
    <3> QED BY <2>3, <2>4, <3>1, <3>2, <3>3, NoFrameAssumption
  <2>7. RingInv'
    <3>1. oldest_output' = SlotOf(received')
      <4>1. (SlotOf(received) + (received + 1 - received)) % Depth =
              SlotOf(received + 1)
        BY <1>0, RingIndex
      <4>2. SlotOf(received) \in Nat
        BY <1>0, DepthAssumption DEF SlotOf
      <4>3. received + 1 - received = 1
        BY <1>0
      <4> QED BY <1>0, <2>1, <4>1, <4>2, <4>3 DEF RingInv
    <3>2. InFlight' \subseteq InFlight
      BY <1>0, <2>1 DEF InFlight
    <3> QED BY <1>0, <2>1, <3>1, <3>2 DEF RingInv, slots
  <2> QED BY <2>1, <2>5, <2>6, <2>7 DEF AbiIInv
<1> QED BY <1>1, <1>2

(* and those of the driver and of destroy. *)
LEMMA DriveAbiIInv ==
  ASSUME AbiIInv, IInv', AbiDestroy \/ AbiDestroying \/ AbiDrive
  PROVE  AbiIInv'
<1> USE DEF AbiTypeOK, PendingInv, InSubmit, counters, callers, replies, ring,
            abi
<1>0. /\ submitted \in Nat /\ received \in Nat
      /\ AbiTypeOK /\ PendingInv /\ ReceivedFileInOutput
  BY DEF AbiIInv, IInv, TypeOK
<1>1. CASE AbiDestroy \/ AbiDestroying
  <2>1. RingInv'
    BY <1>1, RingKept
    DEF AbiDestroy, AbiDestroying, DestroyStop, DestroyNotify, DestroyJoin,
        Next, Destroy
  <2>2. AbiTypeOK' /\ PendingInv' /\ ReceivedFileInOutput'
    BY <1>0, <1>1
    DEF AbiDestroy, AbiDestroying, DestroyStop, DestroyNotify, DestroyJoin,
        ReceivedFileInOutput, Calling
  <2> QED BY <2>1, <2>2 DEF AbiIInv
<1>2. CASE AbiDrive
  <2>1. Next
    BY <1>2 DEF AbiDrive, Next, SpuriousWake
  <2>2. /\ UNCHANGED <<submitted, received, args, abi>>
        /\ \/ caller' = caller
           \/ caller = "waiting" /\ caller' = "receive"
    BY <1>2, DriveKeeps DEF AbiDrive
  <2>3. RingInv'
    BY <2>1, <2>2, RingKept
  <2>4. caller = "notify" =>
          frame'[SlotOf(submitted - 1)] = frame[SlotOf(submitted - 1)]
    BY <1>0, <2>1, <2>2, KeepsInFlight DEF AbiIInv
  <2>5. PendingInv'
    BY <1>0, <2>2, <2>4
  <2>6. AbiTypeOK'
    BY <1>0, <2>2
  <2> QED BY <1>2, <2>3, <2>5, <2>6, ReceivedKept DEF AbiIInv
<1> QED BY <1>1, <1>2

(* Every step keeps it. *)
LEMMA NextAbiIInv ==
  ASSUME AbiIInv, [AbiNext]_abiVars
  PROVE  AbiIInv'
<1>1. IInv'
  BY AbiStep, NextIInv DEF AbiIInv
<1>2. CASE UNCHANGED abiVars
  BY <1>2, <1>1, RingKept
  DEF AbiIInv, AbiTypeOK, PendingInv, InSubmit, ReceivedFileInOutput, Calling,
      InFlight, abiVars, vars, counters, callers, slots, ring, abi
<1>3. CASE \/ BadArguments \/ AbiSubmitRefused \/ AbiReceiveEmpty
           \/ \E c \in Params : Create(c) \/ CreateFails(c) \/ Configure(c)
                                  \/ ConfigureFails(c)
  BY <1>1, <1>3, AnswersAbiIInv
  DEF BadArguments, AbiSubmitRefused, AbiReceiveEmpty, Create, CreateFails,
      Configure, ConfigureFails, Answers
<1> QED BY <1>1, <1>2, <1>3, SubmitAbiIInv, ReceiveAbiIInv, DriveAbiIInv
    DEF AbiNext, AbiGone

(* The invariant holds in every reachable state. *)
LEMMA AbiInductive == AbiSpec => []AbiIInv
BY InitAbiIInv, NextAbiIInv, PTL DEF AbiSpec

(* The two rings, moved by different counters at different moments, stay   *)
(* in step: the oldest output is that of the oldest slot, and so on.       *)
THEOREM RingsAlwaysAgree == AbiSpec => []RingsAgree
<1>1. ASSUME AbiIInv PROVE RingsAgree
  <2>1. /\ received \in Nat /\ submitted \in Nat
        /\ oldest_output = SlotOf(received)
    BY <1>1 DEF AbiIInv, IInv, TypeOK, RingInv
  <2>2. ASSUME NEW k \in InFlight
        PROVE  (oldest_output + k - received) % Depth = SlotOf(k)
    <3>1. k \in Nat /\ received <= k /\ SlotOf(received) \in Nat
      BY <2>1, DepthAssumption DEF InFlight, SlotOf
    <3>2. oldest_output + k - received = SlotOf(received) + (k - received)
      BY <2>1, <3>1
    <3> QED BY <2>1, <3>1, <3>2, RingIndex
  <2> QED BY <1>1, <2>1, <2>2 DEF AbiIInv, RingInv, RingsAgree
<1> QED BY <1>1, AbiInductive, PTL

(* What receive hands back with OK is an output whose memory holds the     *)
(* file of the frame submitted into it, with that file's size.             *)
THEOREM ReceivedFileIsInOutput == AbiSpec => []ReceivedFileInOutput
<1>1. AbiIInv => ReceivedFileInOutput
  BY DEF AbiIInv
<1> QED BY <1>1, AbiInductive, PTL
---------------------------------------------------------------------------
(* The ABI implements EncoderPipeline.                                     *)

(* What the queue holds of frame k. *)
Entry(k) ==
  [frame |-> AbstractFrame(frame[SlotOf(k)]), status |-> AbstractStatus(k)]

EntrySet ==
  [frame  : [output : Buffers, config : Params],
   status : {"PENDING", "OK", "BUFFER_TOO_SMALL", "INTERNAL_ERROR"}]

(* The queue holds what is in flight, oldest first. *)
QueueIsInFlight ==
  /\ AbstractQueue \in Seq(EntrySet)
  /\ Len(AbstractQueue) = submitted - received
  /\ \A i \in 1 .. submitted - received :
       AbstractQueue[i] = Entry(received + i - 1)

(* The abstract status of every frame, and the abstract call. *)
StatusIs ==
  \A k \in Nat :
    AbstractStatus(k) =
      IF k >= completed THEN "PENDING"
      ELSE IF result[SlotOf(k)].status = "FAILED" THEN "INTERNAL_ERROR"
      ELSE result[SlotOf(k)].status

CallIs ==
  /\ caller = "idle" => AbstractCall = "none"
  /\ caller \in {"prepare", "enqueue", "publish"} => AbstractCall = "submit"
  /\ caller = "notify" => AbstractCall = "accepted"
  /\ caller \in {"receive", "waiting"} => AbstractCall = "receive"
  /\ caller \in {"stopping", "joining"} => AbstractCall = "destroy"
  /\ caller = "destroyed" => AbstractCall = "destroyed"

(* What the queue's operators are for the ABI's state: the statuses, *)
LEMMA StatusFacts == completed \in Nat => StatusIs
<1> SUFFICES ASSUME completed \in Nat, NEW k \in Nat
             PROVE  AbstractStatus(k) =
                      IF k >= completed THEN "PENDING"
                      ELSE IF result[SlotOf(k)].status = "FAILED"
                      THEN "INTERNAL_ERROR"
                      ELSE result[SlotOf(k)].status
  BY DEF StatusIs
<1>1. k >= completed <=> ~(k < completed)
  OBVIOUS
<1>2. CASE k >= completed
  BY <1>1, <1>2 DEF AbstractStatus
<1>3. CASE k < completed /\ result[SlotOf(k)].status = "FAILED"
  BY <1>1, <1>3 DEF AbstractStatus
<1>4. CASE k < completed /\ result[SlotOf(k)].status # "FAILED"
  BY <1>1, <1>4 DEF AbstractStatus
<1> QED BY <1>1, <1>2, <1>3, <1>4

(* the call in progress, *)
LEMMA CallFacts == CallIs
BY DEF CallIs, AbstractCall

(* and the queue, which is the frames in flight. *)
LEMMA QueueFacts == AbiIInv => QueueIsInFlight
<1> SUFFICES ASSUME AbiIInv PROVE QueueIsInFlight
  OBVIOUS
<1>0. /\ submitted \in Nat /\ completed \in Nat /\ received \in Nat
      /\ received <= submitted
      /\ result \in [Slot -> EncodeResult]
      /\ RingInv
  BY DEF AbiIInv, IInv, TypeOK, CountersOrdered
<1> DEFINE n == submitted - received
<1>1. AbstractQueue = [i \in 1 .. n |-> Entry(received + i - 1)]
  BY DEF AbstractQueue, Entry, in_flight
<1>2. ASSUME NEW k \in InFlight
      PROVE  Entry(k) \in EntrySet
  <2>1. k \in Nat /\ SlotOf(k) \in Slot
    BY <1>0, SlotOfInSlot DEF InFlight
  <2>2. frame[SlotOf(k)] \in Frame
    BY <1>0 DEF RingInv
  <2>3. AbstractFrame(frame[SlotOf(k)]) \in [output : Buffers, config : Params]
    BY <2>2, EncodableAssumption DEF AbstractFrame, Frame
  <2>4. result[SlotOf(k)].status \in {"OK", "BUFFER_TOO_SMALL", "FAILED"}
    BY <1>0, <2>1 DEF EncodeResult, Statuses
  <2>5. AbstractStatus(k) \in {"PENDING", "OK", "BUFFER_TOO_SMALL",
                               "INTERNAL_ERROR"}
    BY <1>0, <2>1, <2>4, StatusFacts DEF StatusIs
  <2> QED BY <2>3, <2>5 DEF Entry, EntrySet
<1>3. n \in Nat /\ \A i \in 1 .. n : received + i - 1 \in InFlight
  BY <1>0 DEF InFlight
<1> HIDE DEF n
<1>4. AbstractQueue \in [1 .. n -> EntrySet]
  BY <1>1, <1>2, <1>3
<1>5. AbstractQueue \in Seq(EntrySet) /\ Len(AbstractQueue) = n
  BY <1>3, <1>4, SeqDef
<1> QED BY <1>1, <1>5 DEF QueueIsInFlight, n

(* The same of the next state. *)
LEMMA FactsNext ==
  /\ AbiIInv' => QueueIsInFlight'
  /\ (completed \in Nat)' => StatusIs'
  /\ CallIs'
BY QueueFacts, StatusFacts, CallFacts, PTL

(* A frame that stays in flight keeps its entry unless it completes. *)
LEMMA EntryKept ==
  ASSUME AbiIInv, AbiIInv', Next, NEW k \in received' .. submitted - 1,
         k < completed' => k < completed
  PROVE  Entry(k)' = Entry(k)
<1>0. /\ submitted \in Nat /\ completed \in Nat /\ completed' \in Nat
      /\ received' \in Nat
      /\ IInv
  BY DEF AbiIInv, IInv, TypeOK
<1>1. k \in Nat
  BY <1>0
<1>2. /\ frame'[SlotOf(k)] = frame[SlotOf(k)]
      /\ k < completed => result'[SlotOf(k)] = result[SlotOf(k)]
  BY <1>0, KeepsInFlight
<1>3. k < completed => k < completed'
  BY <1>0, <1>1
  DEF Next, SubmitBegin, SubmitCall, Submit, SubmitPrepare,
      SubmitPrepareFails, SubmitFails, SubmitEnqueue, SubmitEnqueueFails, SubmitPublish,
      SubmitNotify, ReceiveBegin, ReceiveCall, Receive, ReceiveBlock,
      ReceiveTake, DestroyStop, Destroy, DestroyNotify, DestroyJoin, Drive, DriverCheck,
      DriverStartCopies, DriverStartCopiesFails, DriverPeekNext,
      DriverStartNext, DriverFinish, DriverPublish, SpuriousWake,
      CallerSpuriousWake, DriverSpuriousWake, Gone, vars, counters
<1>4. AbstractStatus(k)' = AbstractStatus(k)
  BY <1>0, <1>1, <1>2, <1>3, StatusFacts, FactsNext DEF StatusIs
<1> QED BY <1>2, <1>4 DEF Entry

(* As long as no frame enters, completes or leaves, the queue stands. *)
LEMMA QueueKept ==
  ASSUME AbiIInv, AbiIInv', Next, UNCHANGED <<submitted, completed, received>>
  PROVE  AbstractQueue' = AbstractQueue
<1>0. submitted \in Nat /\ completed \in Nat /\ received \in Nat
  BY DEF AbiIInv, IInv, TypeOK
<1>1. QueueIsInFlight /\ QueueIsInFlight'
  BY QueueFacts, FactsNext
<1>2. ASSUME NEW i \in 1 .. submitted - received
      PROVE  AbstractQueue'[i] = AbstractQueue[i]
  <2>1. received + i - 1 \in received' .. submitted - 1
    BY <1>0
  <2>2. Entry(received + i - 1)' = Entry(received + i - 1)
    BY <2>1, EntryKept
  <2> QED BY <1>1, <2>2 DEF QueueIsInFlight
<1> QED BY <1>1, <1>2, SeqEqual DEF QueueIsInFlight

(* ++submitted appends a pending frame. *)
LEMMA PublishRefines ==
  ASSUME AbiIInv, AbiIInv', SubmitPublish, UNCHANGED abi
  PROVE  Pipeline!Next
<1> USE DEF counters
<1>0. /\ submitted \in Nat /\ completed \in Nat /\ received \in Nat
      /\ completed <= submitted /\ received <= submitted
      /\ QueueIsInFlight /\ QueueIsInFlight'
      /\ StatusIs' /\ CallIs /\ CallIs'
  BY QueueFacts, StatusFacts, CallFacts, FactsNext
  DEF AbiIInv, IInv, TypeOK, CountersOrdered
<1>1. /\ submitted' = submitted + 1 /\ received' = received
      /\ completed' = completed /\ UNCHANGED slots
      /\ caller = "publish" /\ caller' = "notify"
  BY DEF SubmitPublish
<1>2. args \in Frame /\ frame'[SlotOf(submitted)] = args
  BY <1>1 DEF AbiIInv, IInv, ControlInv, SlotsInv, slots
<1> DEFINE f == AbstractFrame(args)
           e == [frame |-> f, status |-> "PENDING"]
<1>3. f \in [output : Buffers, config : Params] /\ e \in EntrySet
  BY <1>2, EncodableAssumption DEF AbstractFrame, Frame, EntrySet
<1>4. ASSUME NEW k \in Nat, k = submitted
      PROVE  Entry(k)' = e
  <2>1. AbstractStatus(k)' = "PENDING"
    BY <1>0, <1>1, <1>4 DEF StatusIs
  <2> QED BY <1>1, <1>2, <1>4, <2>1 DEF Entry
<1>5. ASSUME NEW k \in received .. submitted - 1
      PROVE  Entry(k)' = Entry(k)
  BY <1>0, <1>1, EntryKept DEF Next, Submit
<1> DEFINE q == Append(AbstractQueue, e)
           n == submitted - received
<1>6. /\ q \in Seq(EntrySet) /\ Len(q) = n + 1
      /\ \A i \in 1 .. n : q[i] = AbstractQueue[i]
      /\ q[n + 1] = e
  BY <1>0, <1>3, AppendProperties DEF QueueIsInFlight
<1>7. ASSUME NEW i \in 1 .. n + 1
      PROVE  AbstractQueue'[i] = q[i]
  <2>1. AbstractQueue'[i] = Entry(received + i - 1)'
    BY <1>0, <1>1 DEF QueueIsInFlight
  <2>2. CASE i = n + 1
    BY <1>0, <1>1, <1>4, <1>6, <2>1, <2>2
  <2>3. CASE i # n + 1
    <3>1. received + i - 1 \in received .. submitted - 1 /\ i \in 1 .. n
      BY <1>0, <2>3
    <3> QED BY <1>0, <1>1, <1>5, <1>6, <2>1, <3>1 DEF QueueIsInFlight
  <2> QED BY <2>2, <2>3
<1>8. AbstractQueue' = q
  <2>1. AbstractQueue' \in Seq(EntrySet) /\ Len(AbstractQueue') = n + 1
    BY <1>0, <1>1 DEF QueueIsInFlight
  <2> QED BY <1>6, <1>7, <2>1, SeqEqual
<1>9. Pipeline!Accept(f)
  BY <1>0, <1>1, <1>8 DEF Pipeline!Accept, Pipeline!Pending, CallIs, abi
<1> QED BY <1>3, <1>9 DEF Pipeline!Next

(* ++completed gives the first pending frame its status. *)
LEMMA CompleteRefines ==
  ASSUME AbiIInv, AbiIInv', DriverPublish, UNCHANGED abi
  PROVE  Pipeline!Next
<1> USE DEF counters
<1>0. /\ submitted \in Nat /\ completed \in Nat /\ received \in Nat
      /\ received <= completed /\ completed < submitted
      /\ QueueIsInFlight /\ QueueIsInFlight'
      /\ StatusIs /\ StatusIs' /\ CallIs /\ CallIs'
      /\ result \in [Slot -> EncodeResult]
      /\ result' \in [Slot -> EncodeResult]
  BY QueueFacts, StatusFacts, CallFacts, FactsNext
  DEF AbiIInv, IInv, TypeOK, CountersOrdered, ControlInv, DriverPublish
<1>1. /\ completed' = completed + 1
      /\ received' = received /\ submitted' = submitted
      /\ frame' = frame
      /\ caller' = IF caller = "waiting" THEN "receive" ELSE caller
      /\ Next
  BY DEF DriverPublish, Next, Drive
<1> DEFINE n == submitted - received
           m == completed - received + 1
<1>2. PICK c \in Nat : c = completed
  BY <1>0
<1>3. PICK st : st = AbstractStatus(c)'
  OBVIOUS
<1>4. st \in Pipeline!Completions
  <2>1. SlotOf(c) \in Slot
    BY SlotOfInSlot
  <2>2. result'[SlotOf(c)].status \in {"OK", "BUFFER_TOO_SMALL", "FAILED"}
    BY <1>0, <2>1 DEF EncodeResult, Statuses
  <2>3. st = IF result'[SlotOf(c)].status = "FAILED" THEN "INTERNAL_ERROR"
             ELSE result'[SlotOf(c)].status
    BY <1>0, <1>1, <1>2, <1>3 DEF StatusIs
  <2> QED BY <2>2, <2>3 DEF Pipeline!Completions
<1>5. /\ m \in 1 .. n
      /\ AbstractQueue[m] = Entry(c)
      /\ AbstractQueue[m].status = "PENDING"
      /\ DOMAIN AbstractQueue = 1 .. n
  <2>1. m \in 1 .. n /\ received + m - 1 = completed
    BY <1>0
  <2>2. AbstractQueue[m] = Entry(c)
    BY <1>0, <1>2, <2>1 DEF QueueIsInFlight
  <2>3. AbstractStatus(c) = "PENDING"
    BY <1>0, <1>2 DEF StatusIs
  <2>4. DOMAIN AbstractQueue = 1 .. n
    BY <1>0, LenProperties DEF QueueIsInFlight
  <2> QED BY <2>1, <2>2, <2>3, <2>4 DEF Entry
<1>6. ASSUME NEW j \in 1 .. m - 1
      PROVE  AbstractQueue[j].status # "PENDING"
  <2>1. PICK k \in Nat : k = received + j - 1 /\ k < completed
    BY <1>0
  <2>2. AbstractQueue[j] = Entry(k)
    BY <1>0, <2>1 DEF QueueIsInFlight
  <2>3. result[SlotOf(k)].status \in {"OK", "BUFFER_TOO_SMALL", "FAILED"}
    BY <1>0, SlotOfInSlot DEF EncodeResult, Statuses
  <2>4. AbstractStatus(k) # "PENDING"
    BY <1>0, <2>1, <2>3 DEF StatusIs
  <2> QED BY <2>2, <2>4 DEF Entry
<1> DEFINE e == [AbstractQueue[m] EXCEPT !.status = st]
           q == [AbstractQueue EXCEPT ![m] = e]
<1>7. Entry(c)' = e
  <2>1. Entry(c)' = [frame |-> AbstractFrame(frame[SlotOf(c)]), status |-> st]
    BY <1>1, <1>3 DEF Entry
  <2> QED BY <1>5, <2>1 DEF Entry
<1>8. e \in EntrySet
  <2>1. AbstractQueue[m] \in EntrySet
    BY <1>0, <1>5, ElementOfSeq DEF QueueIsInFlight
  <2> QED BY <1>4, <2>1 DEF EntrySet, Pipeline!Completions
<1>9. AbstractQueue' = q
  <2>1. /\ q \in Seq(EntrySet) /\ Len(q) = n
        /\ \A i \in 1 .. n : q[i] = IF i = m THEN e ELSE AbstractQueue[i]
    BY <1>0, <1>5, <1>8, ExceptSeq DEF QueueIsInFlight
  <2>2. AbstractQueue' \in Seq(EntrySet) /\ Len(AbstractQueue') = n
    BY <1>0, <1>1 DEF QueueIsInFlight
  <2>3. ASSUME NEW i \in 1 .. n
        PROVE  AbstractQueue'[i] = q[i]
    <3>1. PICK k \in received .. submitted - 1 : k = received + i - 1
      BY <1>0
    <3>2. /\ AbstractQueue'[i] = Entry(k)' /\ AbstractQueue[i] = Entry(k)
      BY <1>0, <1>1, <3>1 DEF QueueIsInFlight
    <3>3. CASE i = m
      <4>1. k = c
        BY <1>0, <1>2, <3>1, <3>3
      <4> QED BY <1>7, <2>1, <3>2, <3>3, <4>1
    <3>4. CASE i # m
      <4>1. k < completed' => k < completed
        BY <1>0, <1>1, <3>1, <3>4
      <4>2. Entry(k)' = Entry(k)
        BY <1>1, <4>1, EntryKept
      <4> QED BY <2>1, <3>2, <3>4, <4>2
    <3> QED BY <3>3, <3>4
  <2> QED BY <2>1, <2>2, <2>3, SeqEqual
<1>10. AbstractCall' = AbstractCall
  <2>1. caller \in CallerStates
    BY DEF AbiIInv, IInv, TypeOK
  <2> QED BY <1>0, <1>1, <2>1 DEF CallIs, CallerStates
<1>11. Pipeline!Complete(st)
  BY <1>5, <1>6, <1>9, <1>10 DEF Pipeline!Complete, Pipeline!Pending, abi
<1> QED BY <1>4, <1>11 DEF Pipeline!Next

(* receive takes the oldest frame, which has completed. *)
LEMMA ReceiveRefines ==
  ASSUME AbiIInv, AbiIInv', AbiReceiveReturns
  PROVE  Pipeline!Next
<1> USE DEF counters
<1>1. /\ submitted \in Nat /\ completed \in Nat /\ received \in Nat
      /\ received <= completed /\ completed <= submitted
      /\ completed # received
      /\ QueueIsInFlight /\ QueueIsInFlight'
      /\ StatusIs /\ CallIs /\ CallIs'
      /\ result \in [Slot -> EncodeResult]
      /\ RingInv
  BY QueueFacts, StatusFacts, CallFacts, FactsNext
  DEF AbiIInv, IInv, TypeOK, CountersOrdered, AbiReceiveReturns, ReceiveTake
<1>2. /\ received' = received + 1 /\ submitted' = submitted
      /\ completed' = completed
      /\ caller = "receive" /\ caller' = "idle"
      /\ returned' = result[SlotOf(received)]
      /\ out_output' = outputs[SlotOf(received)]
      /\ status' = IF returned'.status = "FAILED" THEN "INTERNAL_ERROR"
                   ELSE returned'.status
      /\ Next
  BY <1>1 DEF AbiReceiveReturns, ReceiveTake, RingInv, Next, Receive
<1> DEFINE n == submitted - received
<1>3. /\ AbstractQueue # <<>> /\ Head(AbstractQueue) = Entry(received)
      /\ n \in Nat /\ Len(AbstractQueue) = n
  BY <1>1, EmptySeq DEF QueueIsInFlight
<1>4. Entry(received).status = status' /\ status' # "PENDING"
  <2>1. SlotOf(received) \in Slot
    BY <1>1, SlotOfInSlot
  <2>2. result[SlotOf(received)].status \in {"OK", "BUFFER_TOO_SMALL", "FAILED"}
    BY <1>1, <2>1 DEF EncodeResult, Statuses
  <2> QED BY <1>1, <1>2, <2>2 DEF StatusIs, Entry
<1>5. Entry(received).frame.output = out_output'
  <2>1. received \in InFlight
    BY <1>1 DEF InFlight
  <2> QED BY <1>1, <1>2, <2>1 DEF RingInv, Entry, AbstractFrame
<1>6. AbstractQueue' = Tail(AbstractQueue)
  <2> DEFINE q == Tail(AbstractQueue)
  <2>1. q \in Seq(EntrySet) /\ Len(q) = n - 1
    BY <1>1, <1>3, HeadTailProperties DEF QueueIsInFlight
  <2>2. \A i \in 1 .. n - 1 : q[i] = AbstractQueue[i + 1]
    BY <1>1, <1>3 DEF QueueIsInFlight
  <2>3. AbstractQueue' \in Seq(EntrySet) /\ Len(AbstractQueue') = n - 1
    BY <1>1, <1>2 DEF QueueIsInFlight
  <2>4. ASSUME NEW i \in 1 .. n - 1
        PROVE  AbstractQueue'[i] = q[i]
    <3>1. PICK k \in received' .. submitted - 1 : k = received + i
      BY <1>1, <1>2
    <3>2. AbstractQueue'[i] = Entry(k)' /\ AbstractQueue[i + 1] = Entry(k)
      BY <1>1, <1>2, <3>1 DEF QueueIsInFlight
    <3>3. Entry(k)' = Entry(k)
      BY <1>2, EntryKept
    <3> QED BY <2>2, <3>2, <3>3
  <2> QED BY <2>1, <2>3, <2>4, SeqEqual
<1>7. Pipeline!ReceiveReturns
  BY <1>1, <1>2, <1>3, <1>4, <1>5, <1>6
  DEF Pipeline!ReceiveReturns, Pipeline!Answer, Pipeline!Pending, CallIs
<1> QED BY <1>7 DEF Pipeline!Next

(* The calls that leave the FrameEncoder alone. *)
LEMMA AnswersRefine ==
  ASSUME AbiIInv, AbiIInv',
         \/ BadArguments \/ AbiSubmitRefused \/ AbiReceiveEmpty
         \/ \E c \in Params : Create(c) \/ CreateFails(c) \/ Configure(c)
                                \/ ConfigureFails(c)
  PROVE  Pipeline!Next
<1>0. /\ submitted \in Nat /\ received \in Nat
      /\ QueueIsInFlight /\ CallIs
  BY QueueFacts, CallFacts DEF AbiIInv, IInv, TypeOK
<1>1. caller = "idle" /\ UNCHANGED vars /\ out_output' = NoOutput
  BY DEF BadArguments, AbiSubmitRefused, AbiReceiveEmpty, Create, CreateFails,
         Configure, ConfigureFails, Answers, Calling
<1>2. /\ AbstractCall = "none"
      /\ UNCHANGED <<AbstractQueue, AbstractCall>>
  BY <1>0, <1>1 DEF CallIs, AbstractQueue, AbstractStatus, AbstractFrame,
     AbstractCall, in_flight, SlotOf, vars, counters, slots, callers
<1>3. ASSUME NEW s \in Pipeline!Refusals \cup {"OK"}, status' = s
      PROVE  Pipeline!Next
  BY <1>1, <1>2, <1>3 DEF Pipeline!OtherCall, Pipeline!Answer, Pipeline!Next
<1>4. \A c : validate_config(c) \in {"OK", "INVALID_ARGUMENT",
                                    "UNSUPPORTED_RESOLUTION"}
  BY DEF validate_config
<1>5. CASE BadArguments
  BY <1>3, <1>5 DEF BadArguments, Answers, Pipeline!Refusals
<1>6. CASE \E c \in Params : Create(c) \/ CreateFails(c) \/ Configure(c)
                             \/ ConfigureFails(c)
  BY <1>3, <1>4, <1>6 DEF Create, CreateFails, Configure, ConfigureFails,
                          Answers, Pipeline!Refusals
<1>7. CASE AbiSubmitRefused
  <2>1. CASE validate_config(config) # "OK" /\ Answers(validate_config(config))
    BY <1>3, <1>4, <2>1 DEF Answers, Pipeline!Refusals
  <2>2. CASE in_flight = Depth /\ Answers("PIPELINE_FULL")
    <3>1. Len(AbstractQueue) = Depth
      BY <1>0, <2>2 DEF QueueIsInFlight, in_flight
    <3> QED BY <1>1, <1>2, <2>2, <3>1
        DEF Answers, Pipeline!SubmitFull, Pipeline!Answer, Pipeline!Next
  <2> QED BY <1>7, <2>1, <2>2 DEF AbiSubmitRefused
<1>8. CASE AbiReceiveEmpty
  <2>1. AbstractQueue = <<>>
    BY <1>0, <1>8, EmptySeq DEF AbiReceiveEmpty, QueueIsInFlight, in_flight
  <2> QED BY <1>1, <1>2, <1>8, <2>1
      DEF AbiReceiveEmpty, Answers, Pipeline!ReceiveEmpty, Pipeline!Answer,
          Pipeline!Next
<1> QED BY <1>5, <1>6, <1>7, <1>8

(* The steps of submit, and the entry of receive. *)
LEMMA CallsRefine ==
  ASSUME AbiIInv, AbiIInv',
         \/ \E o \in Buffers : AbiSubmit(o)
         \/ AbiSubmitting \/ AbiSubmitFails \/ AbiSubmitReturns
         \/ AbiReceive \/ AbiReceiving
  PROVE  [Pipeline!Next]_Pipeline!vars
<1> USE DEF counters, callers, replies, abi, ring, Pipeline!vars
<1>0. /\ submitted \in Nat /\ received \in Nat
      /\ QueueIsInFlight /\ CallIs /\ CallIs'
  BY QueueFacts, CallFacts, FactsNext DEF AbiIInv, IInv, TypeOK
<1>1. ASSUME NEW o \in Buffers, AbiSubmit(o)
      PROVE  Pipeline!Next
  <2>1. /\ Next /\ UNCHANGED counters
        /\ caller = "idle" /\ caller' = "prepare"
        /\ in_flight < Depth
        /\ UNCHANGED <<status, out_output>>
    BY <1>1, AbiSubmitBegins DEF AbiSubmit, SubmitCall, Next, AbiIInv
  <2>2. AbstractQueue' = AbstractQueue /\ Len(AbstractQueue) < Depth
    BY <1>0, <2>1, QueueKept DEF QueueIsInFlight, in_flight
  <2> QED BY <1>0, <2>1, <2>2 DEF CallIs, Pipeline!Submit, Pipeline!Next
<1>2. CASE (SubmitPrepare \/ SubmitEnqueue) /\ UNCHANGED abi
  <2>1. AbstractQueue' = AbstractQueue
    BY <1>2, QueueKept DEF SubmitPrepare, SubmitEnqueue, Next, Submit
  <2>2. AbstractCall' = AbstractCall
    BY <1>0, <1>2 DEF SubmitPrepare, SubmitEnqueue, CallIs
  <2> QED BY <1>2, <2>1, <2>2
<1>3. CASE SubmitPublish /\ UNCHANGED abi
  BY <1>3, PublishRefines
<1>4. CASE AbiSubmitFails
  <2>1. AbstractQueue' = AbstractQueue
    BY <1>4, QueueKept
    DEF AbiSubmitFails, SubmitPrepareFails, SubmitEnqueueFails, SubmitFails,
        Next, Submit
  <2>2. AbstractCall = "submit" /\ AbstractCall' = "none"
    BY <1>0, <1>4
    DEF AbiSubmitFails, SubmitPrepareFails, SubmitEnqueueFails, SubmitFails,
        CallIs
  <2> QED BY <1>4, <2>1, <2>2
      DEF AbiSubmitFails, Pipeline!SubmitReturns, Pipeline!Answer, Pipeline!Next
<1>5. CASE AbiSubmitReturns
  <2>1. AbstractQueue' = AbstractQueue
    BY <1>5, QueueKept DEF AbiSubmitReturns, SubmitNotify, Next, Submit
  <2>2. AbstractCall = "accepted" /\ AbstractCall' = "none"
    BY <1>0, <1>5 DEF AbiSubmitReturns, SubmitNotify, CallIs
  <2> QED BY <1>5, <2>1, <2>2
      DEF AbiSubmitReturns, Pipeline!SubmitReturns, Pipeline!Answer,
          Pipeline!Next
<1>6. CASE AbiReceive
  <2>1. AbstractQueue' = AbstractQueue
    BY <1>6, QueueKept, AbiReceiveBegins DEF AbiReceive, ReceiveCall, Next, AbiIInv
  <2>2. AbstractQueue # <<>>
    <3>1. Len(AbstractQueue) > 0
      BY <1>0, <1>6, AbiReceiveBegins
      DEF AbiIInv, ReceiveBegin, QueueIsInFlight, in_flight
    <3> QED BY <1>0, <3>1, EmptySeq DEF QueueIsInFlight
  <2>3. AbstractCall = "none" /\ AbstractCall' = "receive"
    BY <1>0, <1>6 DEF AbiReceive, ReceiveCall, CallIs
  <2> QED BY <1>6, <2>1, <2>2, <2>3 DEF AbiReceive, Pipeline!Receive, Pipeline!Next
<1>7. CASE AbiReceiving
  <2>1. AbstractQueue' = AbstractQueue
    BY <1>7, QueueKept
    DEF AbiReceiving, ReceiveBlock, CallerSpuriousWake, Next, Receive,
        SpuriousWake
  <2>2. AbstractCall' = AbstractCall
    BY <1>0, <1>7 DEF AbiReceiving, ReceiveBlock, CallerSpuriousWake, CallIs
  <2> QED BY <1>7, <2>1, <2>2 DEF AbiReceiving
<1> QED BY <1>1, <1>2, <1>3, <1>4, <1>5, <1>6, <1>7 DEF AbiSubmitting

(* The destructor, and the driver. *)
LEMMA DriveRefines ==
  ASSUME AbiIInv, AbiIInv', AbiDestroy \/ AbiDestroying \/ AbiDrive
  PROVE  [Pipeline!Next]_Pipeline!vars
<1> USE DEF counters, callers, replies, abi, ring, Pipeline!vars
<1>0. /\ submitted \in Nat /\ completed \in Nat /\ received \in Nat
      /\ QueueIsInFlight /\ StatusIs /\ CallIs /\ CallIs'
      /\ caller \in CallerStates
      /\ result \in [Slot -> EncodeResult]
  BY QueueFacts, StatusFacts, CallFacts, FactsNext DEF AbiIInv, IInv, TypeOK
<1>1. CASE AbiDestroy
  <2>1. AbstractQueue' = AbstractQueue
    BY <1>1, QueueKept DEF AbiDestroy, DestroyStop, Next
  <2>2. AbstractCall = "none" /\ AbstractCall' = "destroy"
    BY <1>0, <1>1 DEF AbiDestroy, DestroyStop, CallIs
  <2> QED BY <1>1, <2>1, <2>2 DEF AbiDestroy, Pipeline!Destroy, Pipeline!Next
<1>2. CASE AbiDestroying
  <2>1. AbstractQueue' = AbstractQueue
    BY <1>2, QueueKept
    DEF AbiDestroying, DestroyNotify, DestroyJoin, Next, Destroy
  <2>2. CASE DestroyNotify
    <3>1. AbstractCall' = AbstractCall
      BY <1>0, <2>2 DEF DestroyNotify, CallIs
    <3> QED BY <1>2, <2>1, <3>1 DEF AbiDestroying
  <2>3. CASE DestroyJoin
    <3>1. AbstractCall = "destroy" /\ AbstractCall' = "destroyed"
      BY <1>0, <2>3 DEF DestroyJoin, CallIs
    <3>2. completed = submitted
      BY <2>3 DEF DestroyJoin, AbiIInv, IInv, ExitDrains
    <3>3. ASSUME NEW i \in DOMAIN AbstractQueue
          PROVE  AbstractQueue[i].status # "PENDING"
      <4>1. i \in 1 .. submitted - received
        BY <1>0, LenProperties DEF QueueIsInFlight
      <4>2. PICK k \in Nat : k = received + i - 1 /\ k < completed
        BY <1>0, <3>2, <4>1
      <4>3. AbstractQueue[i] = Entry(k)
        BY <1>0, <4>1, <4>2 DEF QueueIsInFlight
      <4>4. result[SlotOf(k)].status \in {"OK", "BUFFER_TOO_SMALL", "FAILED"}
        BY <1>0, SlotOfInSlot DEF EncodeResult, Statuses
      <4>5. AbstractStatus(k) # "PENDING"
        BY <1>0, <4>2, <4>4 DEF StatusIs
      <4> QED BY <4>3, <4>5 DEF Entry
    <3> QED BY <1>2, <2>1, <3>1, <3>3
        DEF AbiDestroying, Pipeline!DestroyReturns, Pipeline!Pending,
            Pipeline!Next
  <2> QED BY <1>2, <2>2, <2>3 DEF AbiDestroying
<1>3. CASE DriverPublish /\ UNCHANGED abi
  BY <1>3, CompleteRefines
<1>4. CASE AbiDrive /\ ~DriverPublish
  <2>1. Next /\ UNCHANGED <<submitted, received, completed>>
    BY <1>4
    DEF AbiDrive, Next, SpuriousWake, Drive, DriverCheck, DriverStartCopies,
        DriverStartCopiesFails, DriverPeekNext, DriverStartNext, DriverFinish,
        DriverSpuriousWake
  <2>2. AbstractQueue' = AbstractQueue
    BY <2>1, QueueKept
  <2>3. AbstractCall' = AbstractCall
    <3>1. \/ caller' = caller
          \/ caller = "waiting" /\ caller' = "receive"
      BY <1>4, DriveKeeps DEF AbiDrive
    <3> QED BY <1>0, <3>1 DEF CallIs, CallerStates
  <2> QED BY <1>4, <2>2, <2>3 DEF AbiDrive
<1> QED BY <1>1, <1>2, <1>3, <1>4 DEF AbiDrive

(* A step of the ABI is a step of the queue or none. *)
LEMMA AbiStepRefines ==
  ASSUME AbiIInv, AbiIInv', [AbiNext]_abiVars
  PROVE  [Pipeline!Next]_Pipeline!vars
<1>1. CASE AbiGone \/ UNCHANGED abiVars
  BY <1>1 DEF AbiGone, abiVars, abi, vars, counters, slots, callers,
     Pipeline!vars, AbstractQueue, AbstractStatus, AbstractFrame,
     AbstractCall, in_flight, SlotOf
<1> QED BY <1>1, AnswersRefine, CallsRefine, ReceiveRefines, DriveRefines
    DEF AbiNext

(* The C ABI over the frame pipeline, with its two rings, its counters and *)
(* its threads, is a queue of frames: its fairness left aside, every       *)
(* behaviour of it is one of EncoderPipeline.                              *)
THEOREM AbiIsPipeline ==
  AbiSpec => Pipeline!Init /\ [][Pipeline!Next]_Pipeline!vars
<1>1. AbiInit => Pipeline!Init
  <2> SUFFICES ASSUME AbiInit PROVE Pipeline!Init
    OBVIOUS
  <2>1. QueueIsInFlight
    BY InitAbiIInv, QueueFacts
  <2>2. AbstractQueue = <<>>
    BY <2>1, EmptySeq DEF QueueIsInFlight, AbiInit, Init
  <2>3. AbstractCall = "none"
    BY CallFacts DEF CallIs, AbiInit, Init
  <2> QED BY <2>2, <2>3 DEF AbiInit, Pipeline!Init, Pipeline!Answer
<1>2. AbiIInv /\ AbiIInv' /\ [AbiNext]_abiVars
        => [Pipeline!Next]_Pipeline!vars
  BY AbiStepRefines
<1> QED BY <1>1, <1>2, AbiInductive, PTL DEF AbiSpec
===========================================================================
