------------------------ MODULE FrameEncoderProofs ------------------------
(* Theorems about FrameEncoder, for every depth, number of calls, set of   *)
(* frame parameters and set of buffers.                                    *)
EXTENDS FrameEncoder, TLAPS

(* A frame's slot exists. *)
LEMMA SlotOfInSlot ==
  ASSUME NEW k \in Nat
  PROVE  SlotOf(k) \in Slot
BY DepthAssumption DEF SlotOf, Slot

(* Frames less than the depth apart have different slots. *)
LEMMA SlotsDiffer ==
  ASSUME NEW i \in Nat, NEW j \in Nat, i < j, j < i + Depth
  PROVE  SlotOf(i) # SlotOf(j)
<1>1. /\ i = Depth * (i \div Depth) + (i % Depth)
      /\ j = Depth * (j \div Depth) + (j % Depth)
      /\ i \div Depth \in Nat /\ j \div Depth \in Nat
  BY DepthAssumption
<1> DEFINE q == (j \div Depth) - (i \div Depth)
<1>2. SUFFICES ASSUME i % Depth = j % Depth PROVE FALSE
  BY DEF SlotOf
<1>3. q \in Int /\ j - i = Depth * q
  BY <1>1, <1>2, DepthAssumption
<1>4. CASE q <= 0
  <2>1. Depth * q <= 0
    BY <1>3, <1>4, DepthAssumption
  <2> QED BY <2>1, <1>3
<1>5. CASE q >= 1
  <2>1. Depth * q >= Depth
    BY <1>3, <1>5, DepthAssumption
  <2> QED BY <2>1, <1>3, DepthAssumption
<1> QED BY <1>3, <1>4, <1>5
---------------------------------------------------------------------------
(* Type correctness.                                                       *)

(* The types hold initially, *)
LEMMA InitTypeOK == Init => TypeOK
<1>1. ENCODE_FAILED \in EncodeResult
  BY DEF ENCODE_FAILED, EncodeResult, Statuses
<1>2. 0 \in 0 .. MaxCalls
  BY MaxCallsAssumption
<1> SUFFICES ASSUME Init PROVE TypeOK
  OBVIOUS
<1>3. /\ frame \in [Slot -> Frame \cup {NoFrame}]
      /\ device \in [Slot -> Frame \cup {NoFrame}]
      /\ copies_started \in [Slot -> BOOLEAN]
      /\ tokens \in [Slot -> Frame \cup {NoFrame}]
      /\ result \in [Slot -> EncodeResult]
      /\ files \in [Buffers -> Frame \cup {NoFrame}]
  BY <1>1 DEF Init
<1>4. /\ submitted \in Nat /\ completed \in Nat /\ received \in Nat
      /\ stop \in BOOLEAN /\ accepted \in BOOLEAN
      /\ caller \in CallerStates /\ driver \in DriverStates
  BY DEF Init, CallerStates, DriverStates
<1> QED BY <1>1, <1>2, <1>3, <1>4 DEF Init, TypeOK

(* The actions of submit(). *)
LEMMA SubmitTypeOK ==
  ASSUME TypeOK, Submit \/ \E p \in Params, b \in Buffers : SubmitBegin(p, b)
  PROVE  TypeOK'
<1> USE DEF TypeOK, counters, slots, callers, replies, drivers, CallerStates,
            DriverStates
<1>0. SlotOf(submitted) \in Slot
  BY SlotOfInSlot
<1>1. ASSUME NEW p \in Params, NEW b \in Buffers, SubmitBegin(p, b)
      PROVE  TypeOK'
  <2>1. calls + 1 \in 1 .. MaxCalls
    BY <1>1, MaxCallsAssumption DEF SubmitBegin, SubmitCall
  <2>2. CASE p \in Encodable
    <3>1. args' \in Frame
      BY <1>1, <2>1, <2>2 DEF SubmitBegin, SubmitCall, Frame
    <3>2. calls' \in 0 .. MaxCalls
      BY <1>1, <2>1, MaxCallsAssumption DEF SubmitBegin, SubmitCall
    <3> QED BY <1>1, <2>2, <3>1, <3>2 DEF SubmitBegin, SubmitCall
  <2>3. CASE p \notin Encodable
    <3>1. calls' \in 0 .. MaxCalls
      BY <1>1, <2>1, MaxCallsAssumption DEF SubmitBegin, SubmitCall
    <3> QED BY <1>1, <2>3, <3>1 DEF SubmitBegin, SubmitCall
  <2> QED BY <2>2, <2>3
<1>2. CASE SubmitPrepare
  BY <1>0, <1>2 DEF SubmitPrepare
<1>3. CASE SubmitPrepareFails
  BY <1>3 DEF SubmitPrepareFails, SubmitFails
<1>4. CASE SubmitEnqueue
  BY <1>0, <1>4 DEF SubmitEnqueue
<1>5. CASE SubmitEnqueueFails
  BY <1>0, <1>5 DEF SubmitEnqueueFails, SubmitFails
<1>6. CASE SubmitPublish
  BY <1>6 DEF SubmitPublish
<1>7. CASE SubmitNotify
  BY <1>7 DEF SubmitNotify, NotifyDriver
<1> QED BY <1>1, <1>2, <1>3, <1>4, <1>5, <1>6, <1>7 DEF Submit

(* The actions of receive(), of the destructor and of spurious wake-ups. *)
LEMMA CallerTypeOK ==
  ASSUME TypeOK,
         ReceiveBegin \/ Receive \/ DestroyStop \/ Destroy \/ SpuriousWake
  PROVE  TypeOK'
<1> USE DEF TypeOK, counters, slots, callers, replies, drivers, CallerStates,
            DriverStates
<1>1. CASE ReceiveBegin
  BY <1>1 DEF ReceiveBegin, ReceiveCall
<1>2. CASE ReceiveBlock
  BY <1>2 DEF ReceiveBlock
<1>3. CASE ReceiveTake
  <2>1. SlotOf(received) \in Slot
    BY SlotOfInSlot
  <2> QED BY <1>3, <2>1 DEF ReceiveTake
<1>4. CASE DestroyStop
  BY <1>4 DEF DestroyStop
<1>5. CASE Destroy
  BY <1>5 DEF Destroy, DestroyNotify, DestroyJoin, NotifyDriver
<1>6. CASE SpuriousWake
  BY <1>6 DEF SpuriousWake, CallerSpuriousWake, DriverSpuriousWake
<1> QED BY <1>1, <1>2, <1>3, <1>4, <1>5, <1>6 DEF Receive

(* The actions of the driver. *)
LEMMA DriveTypeOK ==
  ASSUME TypeOK, Drive
  PROVE  TypeOK'
<1> USE DEF TypeOK, counters, slots, callers, replies, drivers, CallerStates,
            DriverStates
<1>0. SlotOf(completed) \in Slot /\ SlotOf(completed + 1) \in Slot
  BY SlotOfInSlot
<1>a. ENCODE_FAILED \in EncodeResult
  BY DEF ENCODE_FAILED, EncodeResult, Statuses
<1>1. CASE DriverCheck
  BY <1>1 DEF DriverCheck
<1>2. CASE DriverStartCopies
  BY <1>0, <1>2 DEF DriverStartCopies, EnqueueCopies
<1>3. CASE DriverStartCopiesFails
  BY <1>3, <1>a DEF DriverStartCopiesFails
<1>4. CASE DriverPeekNext
  BY <1>4 DEF DriverPeekNext
<1>5. CASE DriverStartNext
  BY <1>0, <1>5 DEF DriverStartNext, EnqueueCopies
<1>6. CASE DriverFinish
  <2>1. outcome' \in EncodeResult
    BY <1>0, <1>6, <1>a DEF DriverFinish, EncodeResult, Statuses
  <2>2. files' \in [Buffers -> Frame \cup {NoFrame}]
    BY <1>0, <1>6 DEF DriverFinish
  <2> QED BY <1>6, <2>1, <2>2 DEF DriverFinish
<1>7. CASE DriverPublish
  BY <1>0, <1>7, <1>a DEF DriverPublish
<1> QED BY <1>1, <1>2, <1>3, <1>4, <1>5, <1>6, <1>7 DEF Drive

(* and every step keeps them. *)
LEMMA NextTypeOK ==
  ASSUME TypeOK, [Next]_vars
  PROVE  TypeOK'
<1>1. CASE UNCHANGED vars
  BY <1>1 DEF TypeOK, vars, counters, slots, callers, replies, drivers
<1> QED BY <1>1, SubmitTypeOK, CallerTypeOK, DriveTypeOK DEF Next, Gone

(* Every variable keeps its type: in particular no frame of a single AC    *)
(* group, which the coder has no layout for, is ever given a slot.         *)
THEOREM TypeCorrect == Spec => []TypeOK
BY InitTypeOK, NextTypeOK, PTL DEF Spec
---------------------------------------------------------------------------
(* The inductive invariant.                                                *)

(* The threads' control states and the counters: the check of in_flight    *)
(* still stands when submit() publishes, for only the caller's own receive *)
(* moves the other end; the driver is past its predicate only with a frame *)
(* to code, and goes to the next slot only if a frame is in it; nobody     *)
(* submits to an encoder that stops.                                       *)
ControlInv ==
  /\ caller \in {"prepare", "enqueue", "publish"} =>
       submitted < received + Depth /\ args \in Frame
  /\ caller \in {"receive", "waiting"} => received < submitted
  /\ stop => caller \in {"stopping", "joining", "destroyed"}
  /\ driver \in {"start", "code", "next", "finish", "publish"} =>
       completed < submitted
  /\ driver = "next" => completed + 1 < submitted

(* What slot s holds of the frame it was given. *)
Holds(s) ==
  /\ frame[s] \in Frame
  /\ device[s] = frame[s]
  /\ copies_started[s] => tokens[s] = frame[s]

(* The slots: the one the caller prepares, those waiting for the driver,   *)
(* the one the driver codes.                                               *)
SlotsInv ==
  /\ caller \in {"enqueue", "publish"} =>
       /\ frame[SlotOf(submitted)] = args
       /\ ~copies_started[SlotOf(submitted)]
  /\ caller = "publish" => device[SlotOf(submitted)] = args
  /\ \A k \in completed .. submitted - 1 : Holds(SlotOf(k))
  /\ driver \in {"code", "next", "finish"} =>
       copies_started[SlotOf(completed)]

(* The outcome the driver is about to publish. *)
OutcomeInv ==
  LET f == frame[SlotOf(completed)] IN
  driver = "publish" =>
    /\ outcome.status # "FAILED" => outcome.file_size = f
    /\ outcome.status = "OK" => files[f.out] = f

IInv ==
  /\ TypeOK
  /\ CountersOrdered
  /\ ControlInv
  /\ ExitDrains
  /\ SlotsInv
  /\ OutcomeInv
  /\ ResultsStand

(* The invariant holds initially. *)
LEMMA InitIInv == Init => IInv
<1> SUFFICES ASSUME Init PROVE IInv
  OBVIOUS
<1>1. CountersOrdered /\ ControlInv /\ ExitDrains
  BY DepthAssumption DEF Init, CountersOrdered, ControlInv, ExitDrains
<1>2. SlotsInv /\ OutcomeInv /\ ResultsStand
  BY DEF Init, SlotsInv, OutcomeInv, ResultsStand
<1> QED BY <1>1, <1>2, InitTypeOK DEF IInv

(* Every step keeps what the counters are in each control state. *)
LEMMA ControlStep ==
  ASSUME TypeOK, CountersOrdered, ControlInv, ExitDrains, [Next]_vars
  PROVE  CountersOrdered' /\ ControlInv' /\ ExitDrains'
<1> USE DepthAssumption
    DEF CountersOrdered, ControlInv, ExitDrains, counters, callers, replies,
        drivers, in_flight
<1>0. /\ submitted \in Nat /\ completed \in Nat /\ received \in Nat
      /\ stop \in BOOLEAN
  BY DEF TypeOK
<1>1. ASSUME NEW p \in Params, NEW b \in Buffers, SubmitBegin(p, b)
      PROVE  CountersOrdered' /\ ControlInv' /\ ExitDrains'
  <2>1. p \in Encodable => args' \in Frame
    <3>1. calls + 1 \in 1 .. MaxCalls
      BY <1>1, MaxCallsAssumption DEF SubmitBegin, SubmitCall, TypeOK
    <3> QED BY <1>1, <3>1 DEF SubmitBegin, SubmitCall, Frame
  <2> QED BY <1>0, <1>1, <2>1 DEF SubmitBegin, SubmitCall
<1>2. CASE SubmitPrepare
  BY <1>0, <1>2 DEF SubmitPrepare
<1>3. CASE SubmitPrepareFails \/ SubmitEnqueueFails
  BY <1>0, <1>3 DEF SubmitPrepareFails, SubmitEnqueueFails, SubmitFails
<1>4. CASE SubmitEnqueue
  BY <1>0, <1>4 DEF SubmitEnqueue
<1>5. CASE SubmitPublish
  BY <1>0, <1>5 DEF SubmitPublish
<1>6. CASE SubmitNotify
  BY <1>0, <1>6 DEF SubmitNotify, NotifyDriver
<1>7. CASE ReceiveBegin \/ ReceiveBlock
  BY <1>0, <1>7 DEF ReceiveBegin, ReceiveCall, ReceiveBlock
<1>8. CASE ReceiveTake
  BY <1>0, <1>8 DEF ReceiveTake
<1>9. CASE DestroyStop
  BY <1>0, <1>9 DEF DestroyStop
<1>10. CASE DestroyNotify \/ DestroyJoin
  BY <1>0, <1>10 DEF DestroyNotify, DestroyJoin, NotifyDriver
<1>11. CASE DriverCheck
  BY <1>0, <1>11 DEF DriverCheck
<1>12. CASE DriverStartCopies \/ DriverStartCopiesFails
  BY <1>0, <1>12 DEF DriverStartCopies, DriverStartCopiesFails
<1>13. CASE DriverPeekNext
  BY <1>0, <1>13 DEF DriverPeekNext
<1>14. CASE DriverStartNext \/ DriverFinish
  BY <1>0, <1>14 DEF DriverStartNext, DriverFinish
<1>15. CASE DriverPublish
  BY <1>0, <1>15 DEF DriverPublish
<1>16. CASE SpuriousWake
  BY <1>0, <1>16 DEF SpuriousWake, CallerSpuriousWake, DriverSpuriousWake
<1>17. CASE UNCHANGED vars
  BY <1>0, <1>17 DEF vars
<1> QED
  BY <1>1, <1>2, <1>3, <1>4, <1>5, <1>6, <1>7, <1>8, <1>9, <1>10, <1>11, <1>12,
     <1>13, <1>14, <1>15, <1>16, <1>17
  DEF Next, Submit, Receive, Destroy, Drive, Gone

(* The frames in flight have slots of their own. *)
LEMMA InFlightApart ==
  ASSUME TypeOK, CountersOrdered,
         NEW i \in received .. submitted - 1, NEW j \in received .. submitted - 1,
         i # j
  PROVE  SlotOf(i) # SlotOf(j)
<1>1. /\ i \in Nat /\ j \in Nat
      /\ i < j + Depth /\ j < i + Depth
  BY DepthAssumption DEF TypeOK, CountersOrdered
<1>2. CASE i < j
  BY <1>1, <1>2, SlotsDiffer
<1>3. CASE j < i
  BY <1>1, <1>3, SlotsDiffer
<1> QED BY <1>1, <1>2, <1>3

(* The slot the caller prepares is none of theirs. *)
LEMMA CallerApart ==
  ASSUME TypeOK, CountersOrdered, ControlInv,
         caller \in {"prepare", "enqueue", "publish"},
         NEW k \in received .. submitted - 1
  PROVE  SlotOf(k) # SlotOf(submitted)
BY SlotsDiffer, DepthAssumption DEF TypeOK, CountersOrdered, ControlInv

(* Every step keeps what the slots hold of the frames in flight. *)
LEMMA SlotsStep ==
  ASSUME TypeOK, CountersOrdered, ControlInv, SlotsInv, [Next]_vars
  PROVE  SlotsInv'
<1> USE DEF SlotsInv, counters, callers, replies, drivers
<1>0. /\ submitted \in Nat /\ completed \in Nat /\ received \in Nat
      /\ frame          \in [Slot -> Frame \cup {NoFrame}]
      /\ device         \in [Slot -> Frame \cup {NoFrame}]
      /\ copies_started \in [Slot -> BOOLEAN]
      /\ tokens         \in [Slot -> Frame \cup {NoFrame}]
      /\ received <= completed
  BY DEF TypeOK, CountersOrdered
<1>a. /\ SlotOf(submitted) \in Slot
      /\ SlotOf(completed) \in Slot
      /\ SlotOf(completed + 1) \in Slot
  BY <1>0, SlotOfInSlot
<1>b. \A k \in completed .. submitted - 1 :
        /\ k \in received .. submitted - 1
        /\ SlotOf(k) \in Slot
        /\ Holds(SlotOf(k))
  BY <1>0, SlotOfInSlot
<1>c. caller \in {"prepare", "enqueue", "publish"} =>
        \A k \in completed .. submitted - 1 : SlotOf(k) # SlotOf(submitted)
  BY <1>b, CallerApart
<1>1. ASSUME NEW p \in Params, NEW b \in Buffers, SubmitBegin(p, b)
      PROVE  SlotsInv'
  BY <1>1 DEF SubmitBegin, SubmitCall, slots, Holds
<1>2. CASE SubmitPrepare
  <2>1. ASSUME NEW k \in completed .. submitted - 1
        PROVE  Holds(SlotOf(k))'
    BY <1>0, <1>a, <1>b, <1>c, <1>2 DEF SubmitPrepare, Holds
  <2>2. /\ frame'[SlotOf(submitted)] = args
        /\ copies_started'[SlotOf(submitted)] = FALSE
    BY <1>0, <1>a, <1>2 DEF SubmitPrepare
  <2>3. SlotOf(completed) # SlotOf(submitted) \/ completed >= submitted
    BY <1>0, <1>c, <1>2 DEF SubmitPrepare
  <2>4. driver \in {"code", "next", "finish"} =>
          copies_started'[SlotOf(completed)]
    BY <1>0, <1>a, <1>2, <2>3 DEF SubmitPrepare, ControlInv
  <2> QED BY <1>2, <2>1, <2>2, <2>4 DEF SubmitPrepare
<1>3. CASE SubmitPrepareFails
  BY <1>3 DEF SubmitPrepareFails, SubmitFails, Holds
<1>4. CASE SubmitEnqueueFails
  BY <1>0, <1>a, <1>b, <1>c, <1>4 DEF SubmitEnqueueFails, SubmitFails, Holds
<1>5. CASE SubmitEnqueue
  BY <1>0, <1>a, <1>b, <1>c, <1>5 DEF SubmitEnqueue, Holds
<1>6. CASE SubmitPublish
  <2>1. Holds(SlotOf(submitted))
    BY <1>6 DEF SubmitPublish, ControlInv, Holds
  <2>2. completed' .. submitted' - 1 = completed .. submitted
    BY <1>0, <1>6 DEF SubmitPublish
  <2>3. \A k \in completed .. submitted : Holds(SlotOf(k))
    BY <1>0, <1>b, <2>1
  <2> QED BY <1>6, <2>2, <2>3 DEF SubmitPublish, slots, Holds
<1>7. CASE SubmitNotify
  BY <1>7 DEF SubmitNotify, NotifyDriver, slots, Holds
<1>8. CASE ReceiveBegin \/ ReceiveBlock
  BY <1>8 DEF ReceiveBegin, ReceiveCall, ReceiveBlock, slots, Holds
<1>9. CASE ReceiveTake
  BY <1>9 DEF ReceiveTake, slots, Holds
<1>10. CASE DestroyStop \/ DestroyNotify \/ DestroyJoin
  BY <1>10 DEF DestroyStop, DestroyNotify, DestroyJoin, NotifyDriver, slots,
               Holds
<1>11. CASE DriverCheck
  BY <1>11 DEF DriverCheck, slots, Holds
<1>12. ASSUME NEW k \in completed .. submitted - 1, EnqueueCopies(SlotOf(k)),
              UNCHANGED <<counters, callers>>
       PROVE  /\ \A j \in completed .. submitted - 1 : Holds(SlotOf(j))'
              /\ copies_started'[SlotOf(k)]
              /\ copies_started[SlotOf(completed)] =>
                    copies_started'[SlotOf(completed)]
              /\ caller' \in {"enqueue", "publish"} =>
                    copies_started'[SlotOf(submitted)] =
                    copies_started[SlotOf(submitted)]
  BY <1>0, <1>a, <1>b, <1>c, <1>12 DEF EnqueueCopies, Holds
<1>13. CASE DriverStartCopies
  <2>1. completed \in completed .. submitted - 1
    BY <1>0, <1>13 DEF DriverStartCopies, ControlInv
  <2> QED BY <1>12, <1>13, <2>1 DEF DriverStartCopies, EnqueueCopies
<1>14. CASE DriverStartNext
  <2>1. CASE UNCHANGED slots
    BY <1>14, <2>1 DEF DriverStartNext, slots, Holds
  <2>2. CASE EnqueueCopies(SlotOf(completed + 1))
    <3>1. completed + 1 \in completed .. submitted - 1
      BY <1>0, <1>14 DEF DriverStartNext, ControlInv
    <3> QED BY <1>12, <1>14, <2>2, <3>1 DEF DriverStartNext, EnqueueCopies
  <2> QED BY <1>14, <2>1, <2>2 DEF DriverStartNext
<1>15. CASE DriverStartCopiesFails \/ DriverPeekNext \/ DriverFinish
  BY <1>15 DEF DriverStartCopiesFails, DriverPeekNext, DriverFinish, slots,
               Holds
<1>16. CASE DriverPublish
  BY <1>0, <1>16 DEF DriverPublish, Holds
<1>17. CASE SpuriousWake \/ UNCHANGED vars
  BY <1>17 DEF SpuriousWake, CallerSpuriousWake, DriverSpuriousWake, vars,
               slots, Holds
<1> QED
  BY <1>1, <1>2, <1>3, <1>4, <1>5, <1>6, <1>7, <1>8, <1>9, <1>10, <1>11,
     <1>13, <1>14, <1>15, <1>16, <1>17
  DEF Next, Submit, Receive, Destroy, Drive, Gone

(* DriverFinish reads a frame whose tokens are its own. *)
LEMMA OutcomeStep ==
  ASSUME TypeOK, CountersOrdered, ControlInv, SlotsInv, OutcomeInv, [Next]_vars
  PROVE  OutcomeInv'
<1> USE DEF OutcomeInv, counters, callers, replies, drivers
<1>0. /\ submitted \in Nat /\ completed \in Nat
      /\ frame \in [Slot -> Frame \cup {NoFrame}]
      /\ files \in [Buffers -> Frame \cup {NoFrame}]
      /\ SlotOf(submitted) \in Slot /\ SlotOf(completed) \in Slot
  BY SlotOfInSlot DEF TypeOK
<1>1. ASSUME NEW p \in Params, NEW b \in Buffers, SubmitBegin(p, b)
      PROVE  OutcomeInv'
  BY <1>1 DEF SubmitBegin, SubmitCall, slots
<1>2. CASE SubmitPrepare
  <2>1. driver = "publish" => SlotOf(completed) # SlotOf(submitted)
    BY <1>2, CallerApart DEF SubmitPrepare, TypeOK, CountersOrdered, ControlInv
  <2> QED BY <1>0, <1>2, <2>1 DEF SubmitPrepare
<1>3. CASE SubmitPrepareFails \/ SubmitEnqueueFails \/ SubmitEnqueue
  BY <1>3 DEF SubmitPrepareFails, SubmitEnqueueFails, SubmitFails, SubmitEnqueue
<1>4. CASE SubmitPublish \/ SubmitNotify
  BY <1>4 DEF SubmitPublish, SubmitNotify, NotifyDriver, slots
<1>5. CASE ReceiveBegin \/ Receive
  BY <1>5 DEF ReceiveBegin, ReceiveCall, Receive, ReceiveBlock, ReceiveTake,
              slots
<1>6. CASE DestroyStop \/ Destroy
  BY <1>6 DEF DestroyStop, Destroy, DestroyNotify, DestroyJoin, NotifyDriver,
              slots
<1>7. CASE DriverCheck \/ DriverPeekNext
  BY <1>7 DEF DriverCheck, DriverPeekNext
<1>8. CASE DriverStartCopies \/ DriverStartNext
  BY <1>8 DEF DriverStartCopies, DriverStartNext
<1>9. CASE DriverStartCopiesFails
  BY <1>9 DEF DriverStartCopiesFails, ENCODE_FAILED
<1>10. CASE DriverFinish
  <2>1. /\ frame[SlotOf(completed)] \in Frame
        /\ tokens[SlotOf(completed)] = frame[SlotOf(completed)]
    BY <1>0, <1>10 DEF DriverFinish, ControlInv, SlotsInv, Holds
  <2>2. frame[SlotOf(completed)].out \in Buffers
    BY <2>1 DEF Frame
  <2> QED BY <1>0, <1>10, <2>1, <2>2 DEF DriverFinish, ENCODE_FAILED, slots
<1>11. CASE DriverPublish
  BY <1>11 DEF DriverPublish
<1>12. CASE SpuriousWake \/ UNCHANGED vars
  BY <1>12 DEF SpuriousWake, CallerSpuriousWake, DriverSpuriousWake, vars, slots
<1> QED
  BY <1>1, <1>2, <1>3, <1>4, <1>5, <1>6, <1>7, <1>8, <1>9, <1>10, <1>11, <1>12
  DEF Next, Submit, Drive, Gone

(* A published result stands: only DriverPublish writes a result and only   *)
(* DriverFinish a buffer, each for the frame the driver codes.              *)
LEMMA ResultsStep ==
  ASSUME TypeOK, CountersOrdered, ControlInv, SlotsInv, OutcomeInv, ResultsStand,
         [Next]_vars
  PROVE  ResultsStand'
<1> USE DEF counters, callers, replies, drivers
<1>0. /\ submitted \in Nat /\ completed \in Nat /\ received \in Nat
      /\ frame  \in [Slot -> Frame \cup {NoFrame}]
      /\ result \in [Slot -> EncodeResult]
      /\ files  \in [Buffers -> Frame \cup {NoFrame}]
      /\ SlotOf(submitted) \in Slot /\ SlotOf(completed) \in Slot
      /\ received <= completed /\ completed <= submitted
  BY SlotOfInSlot DEF TypeOK, CountersOrdered
<1>a. caller \in {"prepare", "enqueue", "publish"} =>
        \A k \in received .. submitted - 1 : SlotOf(k) # SlotOf(submitted)
  BY CallerApart
<1>1. ASSUME \A k \in received .. submitted - 1 :
               frame'[SlotOf(k)] = frame[SlotOf(k)],
             submitted' \in {submitted, submitted + 1},
             received' \in {received, received + 1},
             UNCHANGED <<completed, result, files>>
      PROVE  ResultsStand'
  <2>1. /\ submitted' \in Nat /\ submitted <= submitted'
        /\ completed' = completed
        /\ received' .. completed - 1 \subseteq received .. completed - 1
    BY <1>0, <1>1
  <2> SUFFICES ASSUME NEW k \in received .. completed - 1
               PROVE  LET s == SlotOf(k) IN
                      /\ result[s].status # "FAILED" =>
                           result[s].file_size = frame'[s]
                      /\ result[s].status = "OK" =>
                           \/ files[frame'[s].out] = frame'[s]
                           \/ \E j \in k + 1 .. submitted' - 1 :
                                frame'[SlotOf(j)].out = frame'[s].out
    BY <1>1, <2>1 DEF ResultsStand
  <2>2. /\ k \in received .. submitted - 1
        /\ k + 1 .. submitted - 1 \subseteq received .. submitted - 1
        /\ k + 1 .. submitted - 1 \subseteq k + 1 .. submitted' - 1
    <3>1. k \in Nat /\ received <= k /\ k <= submitted - 1
      BY <1>0
    <3>2. k \in received .. submitted - 1
      BY <1>0, <3>1
    <3>3. k + 1 .. submitted - 1 \subseteq received .. submitted - 1
      BY <1>0, <3>1
    <3>4. ASSUME NEW n \in Nat, submitted <= n
          PROVE  k + 1 .. submitted - 1 \subseteq k + 1 .. n - 1
      BY <1>0, <3>1, <3>4
    <3> QED BY <2>1, <3>2, <3>3, <3>4
  <2>3. /\ frame'[SlotOf(k)] = frame[SlotOf(k)]
        /\ \A j \in k + 1 .. submitted - 1 :
             frame'[SlotOf(j)] = frame[SlotOf(j)]
    BY <1>1, <2>2
  <2> QED BY <2>2, <2>3 DEF ResultsStand
<1>2. ASSUME NEW p \in Params, NEW b \in Buffers, SubmitBegin(p, b)
      PROVE  ResultsStand'
  BY <1>1, <1>2 DEF SubmitBegin, SubmitCall, slots
<1>3. CASE SubmitPrepare
  BY <1>0, <1>a, <1>1, <1>3 DEF SubmitPrepare
<1>4. CASE SubmitPrepareFails \/ SubmitEnqueueFails \/ SubmitEnqueue
  BY <1>1, <1>4 DEF SubmitPrepareFails, SubmitEnqueueFails, SubmitFails,
                    SubmitEnqueue
<1>5. CASE SubmitPublish \/ SubmitNotify
  BY <1>1, <1>5 DEF SubmitPublish, SubmitNotify, NotifyDriver, slots
<1>6. CASE ReceiveBegin \/ Receive
  BY <1>1, <1>6 DEF ReceiveBegin, ReceiveCall, Receive, ReceiveBlock,
                    ReceiveTake, slots
<1>7. CASE DestroyStop \/ Destroy
  BY <1>1, <1>7 DEF DestroyStop, Destroy, DestroyNotify, DestroyJoin,
                    NotifyDriver, slots
<1>8. CASE DriverCheck \/ DriverPeekNext \/ DriverStartCopiesFails
  BY <1>1, <1>8 DEF DriverCheck, DriverPeekNext, DriverStartCopiesFails, slots
<1>9. CASE DriverStartCopies \/ DriverStartNext
  BY <1>1, <1>9 DEF DriverStartCopies, DriverStartNext, EnqueueCopies, slots
<1>10. CASE DriverFinish
  <2> DEFINE f == frame[SlotOf(completed)]
  <2>1. completed < submitted /\ f \in Frame /\ f.out \in Buffers
    BY <1>0, <1>10 DEF DriverFinish, ControlInv, SlotsInv, Holds, Frame
  <2>2. ASSUME NEW b \in Buffers, b # f.out PROVE files'[b] = files[b]
    BY <1>0, <1>10, <2>1, <2>2 DEF DriverFinish
  <2>3. ASSUME NEW k \in received .. completed - 1,
               frame[SlotOf(k)].out = f.out
        PROVE  \E j \in k + 1 .. submitted - 1 :
                 frame[SlotOf(j)].out = frame[SlotOf(k)].out
    BY <1>0, <2>1, <2>3
  <2>4. CASE UNCHANGED files
    BY <1>1, <1>10, <2>4 DEF DriverFinish, slots
  <2>5. CASE files' = [files EXCEPT ![f.out] = tokens[SlotOf(completed)]]
    <3> SUFFICES ASSUME NEW k \in received .. completed - 1,
                        result[SlotOf(k)].status = "OK"
                 PROVE  \/ files'[frame[SlotOf(k)].out] = frame[SlotOf(k)]
                        \/ \E j \in k + 1 .. submitted - 1 :
                             frame[SlotOf(j)].out = frame[SlotOf(k)].out
      BY <1>10 DEF DriverFinish, ResultsStand, slots
    <3>1. CASE frame[SlotOf(k)].out = f.out
      BY <2>3, <3>1
    <3>2. CASE frame[SlotOf(k)].out # f.out
      BY <1>0, <2>5, <3>2 DEF ResultsStand
    <3> QED BY <3>1, <3>2
  <2> QED BY <1>10, <2>4, <2>5 DEF DriverFinish
<1>11. CASE DriverPublish
  <2>1. completed < submitted
    BY <1>11 DEF DriverPublish, ControlInv
  <2>2. ASSUME NEW k \in received .. completed - 1
        PROVE  result'[SlotOf(k)] = result[SlotOf(k)]
    <3>1. SlotOf(k) # SlotOf(completed)
      BY <1>0, <2>1, InFlightApart
    <3> QED BY <1>0, <1>11, <3>1 DEF DriverPublish
  <2>3. result'[SlotOf(completed)] = outcome
    BY <1>0, <1>11 DEF DriverPublish
  <2>4. ASSUME NEW k \in received .. completed
        PROVE  LET s == SlotOf(k) IN
               /\ result'[s].status # "FAILED" =>
                    result'[s].file_size = frame[s]
               /\ result'[s].status = "OK" =>
                    \/ files[frame[s].out] = frame[s]
                    \/ \E j \in k + 1 .. submitted - 1 :
                         frame[SlotOf(j)].out = frame[s].out
    <3>1. CASE k = completed
      BY <1>11, <2>3, <3>1 DEF DriverPublish, OutcomeInv
    <3>2. CASE k # completed
      BY <1>0, <2>2, <3>2 DEF ResultsStand
    <3> QED BY <3>1, <3>2
  <2>5. received' .. completed' - 1 = received .. completed
    BY <1>0, <1>11 DEF DriverPublish
  <2> QED BY <1>11, <2>4, <2>5 DEF DriverPublish, ResultsStand
<1>12. CASE SpuriousWake \/ UNCHANGED vars
  BY <1>1, <1>12 DEF SpuriousWake, CallerSpuriousWake, DriverSpuriousWake, vars,
                     slots
<1> QED
  BY <1>2, <1>3, <1>4, <1>5, <1>6, <1>7, <1>8, <1>9, <1>10, <1>11, <1>12
  DEF Next, Submit, Drive, Gone
---------------------------------------------------------------------------
(* The theorems.                                                           *)

(* Every step keeps the invariant. *)
LEMMA NextIInv ==
  ASSUME IInv, [Next]_vars
  PROVE  IInv'
BY NextTypeOK, ControlStep, SlotsStep, OutcomeStep, ResultsStep DEF IInv

(* The invariant holds in every reachable state. *)
LEMMA Inductive == Spec => []IInv
BY InitIInv, NextIInv, PTL DEF Spec

(* submit()'s check of in_flight, made before the slot is prepared outside *)
(* of the mutex, is enough: the pipeline never holds more frames than      *)
(* slots, and completion stays between receipt and submission.             *)
THEOREM CountersStayOrdered == Spec => []CountersOrdered
<1>1. IInv => CountersOrdered
  BY DEF IInv
<1> QED BY <1>1, Inductive, PTL

(* The caller and the driver never touch the same slot, although neither    *)
(* holds the mutex while it works on one and the driver reaches ahead.      *)
THEOREM SlotsStayExclusive == Spec => []SlotExclusive
<1>1. ASSUME IInv PROVE SlotExclusive
  <2> USE DEF IInv
  <2>0. /\ submitted \in Nat /\ completed \in Nat /\ received \in Nat
        /\ received <= completed
    BY <1>1 DEF TypeOK, CountersOrdered
  <2> SUFFICES ASSUME caller \in {"prepare", "enqueue"}
               PROVE  SlotOf(submitted) \notin DriverSlots
    BY DEF SlotExclusive, CallerSlots
  <2>1. \A k \in received .. submitted - 1 : SlotOf(k) # SlotOf(submitted)
    BY <1>1, CallerApart
  <2>2. CASE driver \in {"start", "code", "next", "finish"}
    <3>1. SlotOf(completed) # SlotOf(submitted)
      BY <1>1, <2>0, <2>1, <2>2 DEF ControlInv
    <3>2. driver = "next" => SlotOf(completed + 1) # SlotOf(submitted)
      BY <1>1, <2>0, <2>1 DEF ControlInv
    <3> QED BY <3>1, <3>2 DEF DriverSlots
  <2>3. CASE driver \notin {"start", "code", "next", "finish"}
    BY <2>3 DEF DriverSlots
  <2> QED BY <2>2, <2>3
<1> QED BY <1>1, Inductive, PTL

(* The driver codes the tokens of the frame its slot was given, whatever   *)
(* the slot held before and whatever failed in it.                         *)
THEOREM DriverCodesItsFrame == Spec => []CodesItsFrame
<1>1. ASSUME IInv PROVE CodesItsFrame
  <2> SUFFICES ASSUME driver \in {"code", "next", "finish"}
               PROVE  LET s == SlotOf(completed) IN
                      frame[s] # NoFrame /\ tokens[s] = frame[s]
    BY DEF CodesItsFrame
  <2>1. completed \in completed .. submitted - 1
    BY <1>1 DEF IInv, TypeOK, ControlInv
  <2>2. Holds(SlotOf(completed)) /\ copies_started[SlotOf(completed)]
    BY <1>1, <2>1 DEF IInv, SlotsInv
  <2> QED BY <2>2, NoFrameAssumption DEF Holds
<1> QED BY <1>1, Inductive, PTL

(* A result waits for receive() undisturbed, and with it the file of an OK *)
(* frame in the caller's buffer.                                           *)
THEOREM ResultsAlwaysStand == Spec => []ResultsStand
<1>1. IInv => ResultsStand
  BY DEF IInv
<1> QED BY <1>1, Inductive, PTL

(* The driver's exit, and so the destructor's return, comes after the last *)
(* frame in flight has completed.                                          *)
THEOREM ExitAfterDraining == Spec => []ExitDrains
<1>1. IInv => ExitDrains
  BY DEF IInv
<1> QED BY <1>1, Inductive, PTL

(* What a step leaves alone of a frame that stays in flight. *)
LEMMA KeepsInFlight ==
  ASSUME IInv, Next, NEW k \in received' .. submitted - 1
  PROVE  /\ k \in received .. submitted - 1
         /\ frame'[SlotOf(k)] = frame[SlotOf(k)]
         /\ device'[SlotOf(k)] = device[SlotOf(k)]
         /\ k < completed => result'[SlotOf(k)] = result[SlotOf(k)]
<1> USE DEF counters, callers, replies, drivers
<1>0. /\ submitted \in Nat /\ completed \in Nat /\ received \in Nat
      /\ frame  \in [Slot -> Frame \cup {NoFrame}]
      /\ device \in [Slot -> Frame \cup {NoFrame}]
      /\ result \in [Slot -> EncodeResult]
      /\ received <= completed
  BY DEF IInv, TypeOK, CountersOrdered
<1>1. received' \in {received, received + 1}
  BY <1>0 DEF Next, SubmitBegin, SubmitCall, Submit, SubmitPrepare,
     SubmitPrepareFails,
     SubmitFails, SubmitEnqueue, SubmitEnqueueFails, SubmitPublish,
     SubmitNotify, NotifyDriver, ReceiveBegin, ReceiveCall, Receive,
     ReceiveBlock,
     ReceiveTake, DestroyStop, Destroy, DestroyNotify, DestroyJoin, Drive,
     DriverCheck, DriverStartCopies, DriverStartCopiesFails, DriverPeekNext,
     DriverStartNext, DriverFinish, DriverPublish, SpuriousWake,
     CallerSpuriousWake, DriverSpuriousWake, Gone, vars
<1>2. k \in received .. submitted - 1 /\ SlotOf(k) \in Slot
  BY <1>0, <1>1, SlotOfInSlot
<1>3. CASE SubmitPrepare \/ SubmitEnqueue \/ SubmitEnqueueFails
  <2>1. SlotOf(k) # SlotOf(submitted)
    BY <1>2, <1>3, CallerApart
    DEF IInv, SubmitPrepare, SubmitEnqueue, SubmitEnqueueFails
  <2> QED BY <1>0, <1>2, <1>3, <2>1
      DEF SubmitPrepare, SubmitEnqueue, SubmitEnqueueFails, SubmitFails
<1>4. CASE DriverPublish
  <2>1. completed \in received .. submitted - 1
    BY <1>0, <1>4 DEF IInv, ControlInv, DriverPublish
  <2>2. k < completed => SlotOf(k) # SlotOf(completed)
    BY <1>0, <1>2, <2>1, InFlightApart DEF IInv
  <2> QED BY <1>0, <1>2, <1>4, <2>2 DEF DriverPublish
<1>5. CASE UNCHANGED <<frame, device, result>>
  BY <1>2, <1>5
<1>6. \/ SubmitPrepare \/ SubmitEnqueue \/ SubmitEnqueueFails
      \/ DriverPublish
      \/ UNCHANGED <<frame, device, result>>
  BY DEF Next, SubmitBegin, SubmitCall, Submit, SubmitPrepareFails,
     SubmitFails, SubmitPublish, SubmitNotify, ReceiveBegin, ReceiveCall,
     Receive,
     ReceiveBlock, ReceiveTake, DestroyStop, Destroy, DestroyNotify,
     DestroyJoin, Drive, DriverCheck, DriverStartCopies,
     DriverStartCopiesFails, DriverPeekNext, DriverStartNext, DriverFinish,
     EnqueueCopies, SpuriousWake, CallerSpuriousWake, DriverSpuriousWake,
     Gone, vars, slots
<1> QED BY <1>2, <1>3, <1>4, <1>5, <1>6

(* No step changes what the slot of a frame in flight holds of the frame,  *)
(* nor its published result.                                               *)
THEOREM InFlightIsKept == Spec => InFlightKept
<1> DEFINE Kept ==
      \A k \in received' .. submitted - 1 :
        LET s == SlotOf(k) IN
        /\ frame'[s] = frame[s]
        /\ device'[s] = device[s]
        /\ k < completed => result'[s] = result[s]
<1>1. ASSUME IInv, [Next]_vars PROVE [Kept]_vars
  BY <1>1, KeepsInFlight
<1> QED BY <1>1, Inductive, PTL DEF Spec, InFlightKept

(* A step that changes a caller's buffer is the driver's, at the frame it  *)
(* codes, and the buffer is that frame's.                                  *)
LEMMA WritesInFlight ==
  ASSUME IInv, Next, NEW b \in Buffers, files'[b] # files[b]
  PROVE  /\ DriverFinish
         /\ \E k \in InFlight : /\ files'[b] = frame[SlotOf(k)]
                                /\ frame[SlotOf(k)].out = b
<1> USE DEF counters, callers, replies, drivers
<1>1. DriverFinish \/ UNCHANGED files
  BY DEF Next, SubmitBegin, SubmitCall, Submit, SubmitPrepare,
     SubmitPrepareFails,
     SubmitFails, SubmitEnqueue, SubmitEnqueueFails, SubmitPublish,
     SubmitNotify, ReceiveBegin, ReceiveCall, Receive, ReceiveBlock, ReceiveTake,
     DestroyStop, Destroy, DestroyNotify, DestroyJoin, Drive, DriverCheck,
     DriverStartCopies, DriverStartCopiesFails, DriverPeekNext,
     DriverStartNext, DriverPublish, SpuriousWake, CallerSpuriousWake,
     DriverSpuriousWake, Gone, vars
<1>2. DriverFinish
  BY <1>1
<1>3. completed \in InFlight /\ completed \in completed .. submitted - 1
  BY <1>2
  DEF IInv, TypeOK, CountersOrdered, ControlInv, DriverFinish, InFlight
<1>4. /\ frame[SlotOf(completed)] \in Frame
      /\ tokens[SlotOf(completed)] = frame[SlotOf(completed)]
  BY <1>2, <1>3 DEF IInv, SlotsInv, Holds, DriverFinish
<1>5. /\ files \in [Buffers -> Frame \cup {NoFrame}]
      /\ frame[SlotOf(completed)].out \in Buffers
  BY <1>4 DEF IInv, TypeOK, Frame
<1>6. files' = [files EXCEPT ![frame[SlotOf(completed)].out] =
                  tokens[SlotOf(completed)]]
  BY <1>2 DEF DriverFinish
<1> QED BY <1>2, <1>3, <1>4, <1>5, <1>6

(* A caller's buffer changes only to the file of a frame in flight that    *)
(* was submitted into it.                                                  *)
THEOREM FilesAreWrittenInFlight == Spec => FilesWrittenInFlight
<1> DEFINE Written ==
      \A b \in Buffers : files'[b] # files[b] =>
        \E k \in InFlight : /\ files'[b] = frame[SlotOf(k)]
                            /\ frame[SlotOf(k)].out = b
<1>1. ASSUME IInv, [Next]_vars PROVE [Written]_vars
  BY <1>1, WritesInFlight
<1> QED BY <1>1, Inductive, PTL DEF Spec, FilesWrittenInFlight
===========================================================================
