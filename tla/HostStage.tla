----------------------------- MODULE HostStage -----------------------------
(***************************************************************************)
(* The host stage of one frame: the task code_frame runs on the worker     *)
(* pool (src/src/frame_encoder.cu) and the stream queue it shares          *)
(* (src/src/bitstream/token_stream.cc).                                    *)
(*                                                                         *)
(* All threads build the parts of AcGlobal, then code the token streams of *)
(* the AC groups that thread 0 releases as their copies land; thread 0     *)
(* lays the file out once all are coded, and all place the groups in it.   *)
(* There are no locks: the threads meet at atomic counters and flags, so a *)
(* step is one operation on those, with the private work before it.        *)
(*                                                                         *)
(* What is coded is abstracted: a group's coded stream is the group, with  *)
(* its number of tokens and its size in bytes.                             *)
(***************************************************************************)
EXTENDS Integers, FiniteSets, TLC

CONSTANTS
  NumThreads,    (* pool.size()                                            *)
  NumAc,         (* AC groups, at least 2                                  *)
  Batches,       (* AC_BATCHES                                             *)
  LANES,         (* streams a thread codes at a time                       *)
  NumClusters,   (* clusters of the frame's AC contexts                    *)
  Tokens,        (* the number of tokens of each group                     *)
  Size,          (* the size of each coded group                           *)
  FixedSize,     (* the size of the file before the AC groups              *)
  Capacities     (* the out_capacity the caller may give                   *)

Thread == 0 .. NumThreads - 1
Group  == 0 .. NumAc - 1
Lane   == 1 .. LANES
Table  == 0 .. NumClusters + 1

ASSUME CountsAssumption ==
  /\ NumThreads \in Nat \ {0} /\ NumAc \in Nat \ {0} /\ Batches \in Nat \ {0}
  /\ LANES \in Nat \ {0} /\ NumClusters \in Nat /\ FixedSize \in Nat
ASSUME GroupsAssumption == Tokens \in [Group -> Nat] /\ Size \in [Group -> Nat]
ASSUME CapacitiesAssumption == Capacities \subseteq Nat

NO_STREAM == -1

VARIABLES
  (* the device, and the frame's buffer *)
  copied,        (* how many batches have landed in pinned memory          *)
  out_capacity,
  file,          (* who wrote each byte of the output buffer               *)
  (* code_frame's shared locals *)
  next_table, tables_done, builds, ac_global, code_ready,
  coders_done, dc_ok, placement, next_placed, result,
  (* StreamQueue; order outlives the frame, its initial value is another   *)
  (* frame's                                                               *)
  next, ready, cancelled, order, coded,
  (* release_batches: the batches seen to have landed *)
  landed,
  (* the threads: control state, table or group at hand, claimed position  *)
  (* of the queue, lanes, lanes still to be refilled *)
  pc, item, lanes, refill

tables  == <<next_table, tables_done, builds, ac_global, code_ready>>
placing == <<coders_done, dc_ok, placement, next_placed, result>>
queue   == <<next, ready, cancelled, order, coded>>
coders  == <<item, lanes, refill>>
memory  == <<copied, out_capacity, file>>
vars    == <<memory, tables, placing, queue, landed, pc, coders>>

batch_begin(b) == (b * NumAc) \div Batches

(* The sum of the sizes of the groups before g: ac_offsets and the file    *)
(* size are FixedSize plus such a sum.                                     *)
SizeBefore[g \in 0 .. NumAc] ==
  IF g = 0 THEN 0 ELSE SizeBefore[g - 1] + Size[g - 1]

FileSize == FixedSize + SizeBefore[NumAc]

Idle == [stream |-> NO_STREAM, left |-> 0]

GoTo(t, label) == pc' = [pc EXCEPT ![t] = label]

Init ==
  /\ copied = 0
  /\ out_capacity \in Capacities
  /\ file = [i \in 0 .. out_capacity - 1 |-> "old"]
  /\ next_table = 0 /\ tables_done = 0 /\ ac_global = FALSE /\ code_ready = FALSE
  /\ builds = [c \in Table |-> 0]
  /\ coders_done = 0 /\ dc_ok = FALSE /\ placement = "PENDING" /\ next_placed = 0
  /\ result = "FAILED"
  /\ next = 0 /\ ready = 0 /\ cancelled = FALSE
  /\ order = [k \in Group |-> NumAc - 1 - k]
  /\ coded = [g \in Group |-> 0]
  /\ landed = 0
  /\ pc = [t \in Thread |-> "tables"]
  /\ item = [t \in Thread |-> 0]
  /\ lanes = [t \in Thread |-> [l \in Lane |-> Idle]]
  /\ refill = [t \in Thread |-> {}]

(* The device copies the batches to the host one after the other. *)
BatchLands ==
  /\ copied < Batches
  /\ copied' = copied + 1
  /\ UNCHANGED <<out_capacity, file, tables, placing, queue, landed, pc, coders>>

---------------------------------------------------------------------------
(* The parts of AcGlobal: job 0 is the context map, 1 the coefficient      *)
(* orders, the others the clusters' ANS tables.                            *)

ClaimTable(t) ==
  /\ pc[t] = "tables"
  /\ next_table' = next_table + 1
  /\ IF next_table \in Table
     THEN item' = [item EXCEPT ![t] = next_table] /\ GoTo(t, "build")
     ELSE GoTo(t, "built") /\ UNCHANGED item
  /\ UNCHANGED <<memory, tables_done, builds, ac_global, code_ready, placing,
                 queue, landed, lanes, refill>>

BuildTable(t) ==
  /\ pc[t] = "build"
  /\ builds' = [builds EXCEPT ![item[t]] = @ + 1]
  /\ GoTo(t, "tables")
  /\ UNCHANGED <<memory, next_table, tables_done, ac_global, code_ready, placing,
                 queue, landed, coders>>

TablesDone(t) ==
  /\ pc[t] = "built"
  /\ tables_done' = tables_done + 1
  /\ GoTo(t, IF t = 0 THEN "finish" ELSE "await_code")
  /\ UNCHANGED <<memory, next_table, builds, ac_global, code_ready, placing,
                 queue, landed, coders>>

(* Mutant: thread 0 does not wait for the other threads' tables. *)
FinishTables_Early(t) ==
  /\ pc[t] = "finish"
  /\ ac_global' = TRUE
  /\ GoTo(t, "publish_code")
  /\ UNCHANGED <<memory, next_table, tables_done, builds, code_ready, placing,
                 queue, landed, coders>>

(* tables.finish(), by thread 0. *)
FinishTables(t) ==
  /\ pc[t] = "finish"
  /\ tables_done = NumThreads
  /\ ac_global' = TRUE
  /\ GoTo(t, "publish_code")
  /\ UNCHANGED <<memory, next_table, tables_done, builds, code_ready, placing,
                 queue, landed, coders>>

PublishCode(t) ==
  /\ pc[t] = "publish_code"
  /\ code_ready' = TRUE
  /\ GoTo(t, "sync_batch")
  /\ UNCHANGED <<memory, next_table, tables_done, builds, ac_global, placing,
                 queue, landed, coders>>

StartCoding(t) ==
  /\ refill' = [refill EXCEPT ![t] = Lane]
  /\ GoTo(t, "code")

AwaitCode(t) ==
  /\ pc[t] = "await_code"
  /\ code_ready
  /\ StartCoding(t)
  /\ UNCHANGED <<memory, tables, placing, queue, landed, item, lanes>>

---------------------------------------------------------------------------
(* release_batches, by thread 0: every batch landed so far at once, the    *)
(* groups of most tokens first.                                            *)

Longer(a, b) == \/ Tokens[a] > Tokens[b]
                \/ Tokens[a] = Tokens[b] /\ a < b

(* The n-th of the groups: n of them come before it. *)
Longest(groups, n) ==
  CHOOSE g \in groups : Cardinality({h \in groups : Longer(h, g)}) = n

(* Mutant: everything landed so far is sorted again. *)
SortBatches_All(t) ==
  LET end == batch_begin(copied) IN
  /\ pc[t] = "sync_batch"
  /\ landed < Batches
  /\ copied > landed
  /\ landed' = copied
  /\ order' = [k \in Group |-> IF k < end THEN Longest(0 .. end - 1, k) ELSE order[k]]
  /\ GoTo(t, "release")
  /\ UNCHANGED <<memory, tables, placing, next, ready, cancelled, coded, coders>>

SortBatches(t) ==
  LET end == batch_begin(copied) IN
  /\ pc[t] = "sync_batch"
  /\ landed < Batches
  /\ copied > landed
  /\ landed' = copied
  /\ order' = [k \in Group |-> IF k \in ready .. end - 1
                               THEN Longest(ready .. end - 1, k - ready)
                               ELSE order[k]]
  /\ GoTo(t, "release")
  /\ UNCHANGED <<memory, tables, placing, next, ready, cancelled, coded, coders>>

(* Mutant: the batch after the landed ones is released too. *)
ReleaseBatches_OneMore(t) ==
  /\ pc[t] = "release"
  /\ ready' = batch_begin(IF landed < Batches THEN landed + 1 ELSE landed)
  /\ GoTo(t, "sync_batch")
  /\ UNCHANGED <<memory, tables, placing, next, cancelled, order, coded, landed,
                 coders>>

ReleaseBatches(t) ==
  /\ pc[t] = "release"
  /\ ready' = batch_begin(landed)
  /\ GoTo(t, "sync_batch")
  /\ UNCHANGED <<memory, tables, placing, next, cancelled, order, coded, landed,
                 coders>>

AllReleased(t) ==
  /\ pc[t] = "sync_batch"
  /\ landed = Batches
  /\ StartCoding(t)
  /\ UNCHANGED <<memory, tables, placing, queue, landed, item, lanes>>

(* A batch's event reports a CUDA error. *)
CancelQueue(t) ==
  /\ pc[t] = "sync_batch"
  /\ landed < Batches
  /\ cancelled' = TRUE
  /\ StartCoding(t)
  /\ UNCHANGED <<memory, tables, placing, next, ready, order, coded, landed,
                 item, lanes>>

---------------------------------------------------------------------------
(* code_token_streams: LANES streams at a time, claimed from the queue.    *)

(* The lane to refill first; a lane whose stream has no tokens left        *)
(* finishes it before.                                                     *)
NextLane(t) == CHOOSE l \in refill[t] : \A m \in refill[t] : l <= m

Finished(t, l) ==
  IF lanes[t][l].stream = NO_STREAM THEN coded
  ELSE [coded EXCEPT ![lanes[t][l].stream] = @ + 1]

ClaimStream(t) ==
  LET l == NextLane(t) IN
  /\ pc[t] = "code"
  /\ refill[t] # {}
  /\ coded' = Finished(t, l)
  /\ next' = next + 1
  /\ IF next < NumAc
     THEN /\ item' = [item EXCEPT ![t] = next]
          /\ lanes' = [lanes EXCEPT ![t][l] = Idle]
          /\ GoTo(t, "await_stream")
          /\ UNCHANGED refill
     ELSE /\ lanes' = [lanes EXCEPT ![t][l] = Idle]
          /\ refill' = [refill EXCEPT ![t] = @ \ {l}]
          /\ UNCHANGED <<item, pc>>
  /\ UNCHANGED <<memory, tables, placing, ready, cancelled, order, landed>>

(* Mutant: the position is read before it is released. *)
StartStream_Early(t) ==
  LET l == NextLane(t)
      g == order[item[t]] IN
  /\ pc[t] = "await_stream"
  /\ lanes' = [lanes EXCEPT ![t][l] = [stream |-> g, left |-> Tokens[g]]]
  /\ refill' = IF Tokens[g] = 0 THEN refill ELSE [refill EXCEPT ![t] = @ \ {l}]
  /\ GoTo(t, "code")
  /\ UNCHANGED <<memory, tables, placing, queue, landed, item>>

(* The claimed position is released: the lane takes its stream, and needs  *)
(* another one at once if this one is empty.                               *)
StartStream(t) ==
  LET l == NextLane(t)
      g == order[item[t]] IN
  /\ pc[t] = "await_stream"
  /\ ready > item[t]
  /\ lanes' = [lanes EXCEPT ![t][l] = [stream |-> g, left |-> Tokens[g]]]
  /\ refill' = IF Tokens[g] = 0 THEN refill ELSE [refill EXCEPT ![t] = @ \ {l}]
  /\ GoTo(t, "code")
  /\ UNCHANGED <<memory, tables, placing, queue, landed, item>>

(* Mutant: a thread waiting for a stream does not look at cancelled. *)
StreamCancelled_Never(t) == FALSE

StreamCancelled(t) ==
  /\ pc[t] = "await_stream"
  /\ ready <= item[t]
  /\ cancelled
  /\ refill' = [refill EXCEPT ![t] = @ \ {NextLane(t)}]
  /\ GoTo(t, "code")
  /\ UNCHANGED <<memory, tables, placing, queue, landed, item, lanes>>

Active(t) == {l \in Lane : lanes[t][l].stream # NO_STREAM}

(* All lanes advance by the shortest one's tokens; once some lane found    *)
(* the queue exhausted, the others are drained.                            *)
CodeTokens(t) ==
  LET steps == CHOOSE n \in {lanes[t][l].left : l \in Active(t)} :
                 \A l \in Active(t) : n <= lanes[t][l].left
      left(l) == IF Active(t) = Lane THEN lanes[t][l].left - steps ELSE 0 IN
  /\ pc[t] = "code"
  /\ refill[t] = {}
  /\ Active(t) # {}
  /\ lanes' = [lanes EXCEPT ![t] =
                 [l \in Lane |-> IF l \in Active(t) THEN [@[l] EXCEPT !.left = left(l)]
                                                    ELSE @[l]]]
  /\ refill' = [refill EXCEPT ![t] = {l \in Active(t) : left(l) = 0}]
  /\ UNCHANGED <<memory, tables, placing, queue, landed, pc, item>>

CoderDone(t) ==
  /\ pc[t] = "code"
  /\ refill[t] = {}
  /\ Active(t) = {}
  /\ coders_done' = coders_done + 1
  /\ GoTo(t, IF t = 0 THEN "fetch_dc" ELSE "await_placement")
  /\ UNCHANGED <<memory, tables, dc_ok, placement, next_placed, result, queue,
                 landed, coders>>

---------------------------------------------------------------------------
(* The layout, by thread 0.                                                *)

(* The DcGroups' sizes are waited for, checked and their copy enqueued:    *)
(* any of it may fail.                                                     *)
FetchDc(t) ==
  /\ pc[t] = "fetch_dc"
  /\ dc_ok' \in IF cancelled THEN {FALSE} ELSE BOOLEAN
  /\ GoTo(t, "await_coders")
  /\ UNCHANGED <<memory, tables, coders_done, placement, next_placed, result,
                 queue, landed, coders>>

Skip(t) ==
  /\ placement' = "SKIP"
  /\ GoTo(t, "done")
  /\ UNCHANGED <<memory, tables, coders_done, dc_ok, next_placed, queue, landed,
                 coders>>

(* No DcGroups, or their copy fails. *)
SkipFailed(t) ==
  /\ pc[t] = "await_coders"
  /\ coders_done = NumThreads
  /\ Skip(t)
  /\ UNCHANGED result

(* Mutant: the headers are written before the size is compared. *)
SkipTooLarge_AfterHead(t) ==
  /\ pc[t] = "await_coders"
  /\ coders_done = NumThreads
  /\ dc_ok
  /\ FileSize > out_capacity
  /\ file' = [i \in DOMAIN file |-> IF i < FixedSize THEN "head" ELSE file[i]]
  /\ placement' = "SKIP"
  /\ result' = "BUFFER_TOO_SMALL"
  /\ GoTo(t, "done")
  /\ UNCHANGED <<copied, out_capacity, tables, coders_done, dc_ok, next_placed,
                 queue, landed, coders>>

SkipTooLarge(t) ==
  /\ pc[t] = "await_coders"
  /\ coders_done = NumThreads
  /\ dc_ok
  /\ FileSize > out_capacity
  /\ Skip(t)
  /\ result' = "BUFFER_TOO_SMALL"

(* The framing, headers, DcGlobal, DcGroups and AcGlobal are written. *)
LayOut(t) ==
  /\ pc[t] = "await_coders"
  /\ coders_done = NumThreads
  /\ dc_ok
  /\ FileSize <= out_capacity
  /\ file' = [i \in DOMAIN file |-> IF i < FixedSize THEN "head" ELSE file[i]]
  /\ result' = "OK"
  /\ GoTo(t, "publish_layout")
  /\ UNCHANGED <<copied, out_capacity, tables, coders_done, dc_ok, placement,
                 next_placed, queue, landed, coders>>

PublishLayout(t) ==
  /\ pc[t] = "publish_layout"
  /\ placement' = "PLACE"
  /\ GoTo(t, "place")
  /\ UNCHANGED <<memory, tables, coders_done, dc_ok, next_placed, result, queue,
                 landed, coders>>

AwaitPlacement(t) ==
  /\ pc[t] = "await_placement"
  /\ placement # "PENDING"
  /\ GoTo(t, IF placement = "PLACE" THEN "place" ELSE "done")
  /\ UNCHANGED <<memory, tables, placing, queue, landed, coders>>

ClaimPlace(t) ==
  /\ pc[t] = "place"
  /\ next_placed' = next_placed + 1
  /\ IF next_placed < NumAc
     THEN item' = [item EXCEPT ![t] = next_placed] /\ GoTo(t, "copy")
     ELSE GoTo(t, "done") /\ UNCHANGED item
  /\ UNCHANGED <<memory, tables, coders_done, dc_ok, placement, result, queue,
                 landed, lanes, refill>>

(* Mutant: a group's offset counts the group itself. *)
PlaceGroup_OffsetAfter(t) ==
  LET g     == item[t]
      start == FixedSize + SizeBefore[g + 1] IN
  /\ pc[t] = "copy"
  /\ file' = [i \in DOMAIN file |-> IF i \in start .. start + Size[g] - 1
                                    THEN ToString(g) ELSE file[i]]
  /\ GoTo(t, "place")
  /\ UNCHANGED <<copied, out_capacity, tables, placing, queue, landed, coders>>

(* place_coded_stream. *)
PlaceGroup(t) ==
  LET g     == item[t]
      start == FixedSize + SizeBefore[g] IN
  /\ pc[t] = "copy"
  /\ file' = [i \in DOMAIN file |-> IF i \in start .. start + Size[g] - 1
                                    THEN ToString(g) ELSE file[i]]
  /\ GoTo(t, "place")
  /\ UNCHANGED <<copied, out_capacity, tables, placing, queue, landed, coders>>

---------------------------------------------------------------------------
BuildTables(t) ==
  ClaimTable(t) \/ BuildTable(t) \/ TablesDone(t) \/ FinishTables(t)
    \/ PublishCode(t) \/ AwaitCode(t)

Release(t) ==
  SortBatches(t) \/ ReleaseBatches(t) \/ AllReleased(t) \/ CancelQueue(t)

Code(t) ==
  ClaimStream(t) \/ StartStream(t) \/ StreamCancelled(t) \/ CodeTokens(t)
    \/ CoderDone(t)

Place(t) ==
  FetchDc(t) \/ SkipFailed(t) \/ SkipTooLarge(t) \/ LayOut(t) \/ PublishLayout(t)
    \/ AwaitPlacement(t) \/ ClaimPlace(t) \/ PlaceGroup(t)

Step(t) == BuildTables(t) \/ Release(t) \/ Code(t) \/ Place(t)

(* pool.run has returned. *)
Returned == \A t \in Thread : pc[t] = "done"

Next ==
  \/ BatchLands
  \/ \E t \in Thread : Step(t)
  \/ Returned /\ UNCHANGED vars

(* The threads are scheduled; the device completes what was enqueued. *)
Spec ==
  /\ Init /\ [][Next]_vars
  /\ \A t \in Thread : WF_vars(Step(t))
  /\ WF_vars(BatchLands)

---------------------------------------------------------------------------
(* Properties.                                                             *)

(* The code that AcGlobal describes is complete, every part built once,    *)
(* before thread 0 assembles it and before any thread codes a token.       *)
TablesBeforeCode ==
  /\ ac_global => \A c \in Table : builds[c] = 1
  /\ (\E t \in Thread : Active(t) # {}) => ac_global

InLane(t, l, g) == lanes[t][l].stream = g

(* No stream is coded twice, by two threads or in two lanes of one.        *)
StreamsCodedOnce ==
  \A g \in Group :
    Cardinality({tl \in Thread \X Lane : InLane(tl[1], tl[2], g)}) + coded[g] <= 1

(* A thread reads a group's tokens, and the sort their number, only after  *)
(* the copies of the group's batch have landed.                            *)
TokensLanded ==
  \A t \in Thread, l \in Lane, g \in Group :
    InLane(t, l, g) => g < batch_begin(copied)

(* What is released of the order is a permutation of the groups released   *)
(* and is never written again: threads read it without a lock.             *)
ReleasedOrderKept ==
  [][ /\ {order'[k] : k \in 0 .. ready' - 1} = 0 .. ready' - 1
      /\ ready' >= ready
      /\ \A k \in 0 .. ready - 1 : order'[k] = order[k] ]_<<order, ready>>

(* The buffer is untouched unless the frame is OK: "The file size is known *)
(* before the first write"; and never touched past the file.               *)
UntouchedUnlessOk ==
  \A i \in DOMAIN file : result # "OK" \/ i >= FileSize => file[i] = "old"

(* The file a schedule-independent encoder would write: the sections in    *)
(* order, without gap or overlap.                                          *)
ExpectedFile ==
  [i \in DOMAIN file |->
     IF i < FixedSize THEN "head"
     ELSE IF i >= FileSize THEN "old"
     ELSE ToString(CHOOSE g \in Group : i - FixedSize \in SizeBefore[g] ..
                                            SizeBefore[g + 1] - 1)]

(* Thread 0 sums the coded sizes and lays out the file when every group    *)
(* has been coded, to its last token, and no lane is at work.              *)
LaidOutWhenCoded ==
  result # "FAILED" =>
    /\ \A g \in Group : coded[g] = 1
    /\ \A t \in Thread : Active(t) = {}

(* The file is laid out from coded groups only. When pool.run returns, an  *)
(* OK frame's file is complete and does not depend on how the threads      *)
(* shared the work; a frame that is too large says so whenever its         *)
(* DcGroups could be fetched.                                              *)
FileComplete ==
  /\ LaidOutWhenCoded
  /\ Returned =>
       /\ result = "OK" => file = ExpectedFile /\ FileSize <= out_capacity
       /\ result = "BUFFER_TOO_SMALL" => FileSize > out_capacity
       /\ cancelled => result = "FAILED"

(* pool.run returns: whatever fails, no thread spins for ever. *)
StageReturns == <>Returned
============================================================================
