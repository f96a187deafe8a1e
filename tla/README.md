# cujpegxl: TLA+ models and proofs

cujpegxl encodes NV12 frames that live in GPU memory to JPEG XL files. A frame
goes through three hands: the caller, who submits it through a C ABI; the
device, which transforms, quantizes and tokenizes it in CUDA streams; and a
driver thread with a pool of workers, which entropy-codes the tokens and writes
the file. Several frames are in flight at once. This directory models the parts
of the encoder in which those hands meet, and the computations whose results
must agree to the bit: the quantizer's and the entropy coder's kernels against
their serial references, the entropy codes against a decoder. TLC checks them on
small instances, and TLAPS proves the central ones for every instance. Paths
below are relative to the repository, `src/` first, as in `PROJECT.json`.

## 1. Inventory

### The encoder's own machinery

| Component | State it keeps | Operations | What makes it correct |
|---|---|---|---|
| **C ABI** `src/src/cujpegxl.cc` | current config, a ring `outputs` of the callers' output structs, `oldest_output` | create, configure, submit, receive, destroy | it is a FIFO of at most `pipeline_depth` frames; receive hands back the output the frame was submitted with; its ring never runs apart from the FrameEncoder's; it meets the FrameEncoder's asserted preconditions |
| **Frame pipeline** `src/src/frame_encoder.cu` (`State`, `submit`, `receive`, `drive`) | ring of slots; counters `submitted`, `completed`, `received`; `stop`; a mutex and two condition variables | submit and receive on the caller's thread; the driver loop; the destructor | caller and driver never touch one slot at a time outside of the mutex; each frame is coded from its own data; results stand until received; the destructor drains; no wake-up is lost |
| **Device work of a slot** (`enqueue_frame`, `start_copies`, `release_batches`, `ChromaTexture`) | three streams, events, a device arena, pinned buffers, a texture, `copies_started` | enqueue a frame, start its token copies (early or not), fetch the DcGroups | events alone order four streams: the host reads only its frame's data; nothing is freed under running work; an OK frame has no work left |
| **Host stage** (`code_frame` on the pool, `bitstream/token_stream.cc`) | atomics `next_table`, `tables_done`, `code_ready`, `coders_done`, `placement`, `next_placed`; the stream queue `next`, `ready`, `cancelled`, `order` | build the AcGlobal parts, release batches, claim and code streams in lanes, lay out the file, place the groups | without a lock: tables before tokens, no stream coded twice, no unlanded token read, one complete file or an untouched buffer, and every thread returns |
| **Worker pool** `src/src/worker_pool.cc` | `task_`, `generation_`, `running_`, `stop_`, a mutex, two condition variables | `run`, the workers' loop, the destructor | each task runs exactly once on each thread; `run` returns after all; no dangling task |

They interact so: the C ABI calls `FrameEncoder::submit` / `receive`; `submit`
enqueues on the slot's streams and raises `submitted` under the mutex; the
driver takes frame `completed`, waits for the slot's events, runs `code_frame`'s
lambda on the pool as its thread 0, and raises `completed`; `receive` waits for
that and raises `received`. The host stage of a frame also reaches into the
*next* slot, to start its copies early. Every CUDA call may fail; a failed
submit leaves the frame out of flight with part of its work enqueued, a failed
frame completes with `FAILED`.

The hard behaviours are therefore: two threads on a ring with most work outside
of the mutex; condition variables with the notification after the unlock; an
asynchronous device that runs behind the host, also after failures; a
lock-free stage where positions are claimed before they are released; the reuse
of everything (slots, buffers, `order`, outputs) by later frames.

### Computations

| Component | Content | What makes it correct |
|---|---|---|
| Token stream coder, ANS, prefix codes, context map, histograms (`src/src/bitstream`) | entropy coding on the host: codes from histograms, their descriptions, streams coded backwards in lanes and placed in the file | a decoder rebuilds from the sections every code, map and order, and from the streams every token |
| Codestream, container, field coders | headers, TOC, boxes | each field encodes its value in its range |
| AC entropy kernels (`src/src/entropy.cu`) | tokens of a warp by ballots, histograms, layout, packing into shared words | the tokens of a serial walk, each counted in the context it is coded in |
| AC context clustering (`entropy.cu`, `ac_clustering.h`) | a cooperative kernel: Lloyd iterations with a refill of empty clusters, between grid barriers | the clusters of the sequential reference; every counted token has a code |
| DC entropy kernels (`entropy.cu`) | first blocks, residuals, histograms, sizes and offsets of runs, bits into shared words | the section a serial writer makes; sizes, offsets and bits agree |
| Prefix code builder (`prefix_build.cu`) | a warp builds and describes a code | the host's code, to the bit |
| Coefficient orders (`coeff_order.*`, `entropy.cu`) | ranks of coefficients by their statistics, Lehmer codes | a permutation that a decoder finds again |
| Quantizer (`frontend_quantize.cu`, `cfl.h`) | a tile's coefficients quantized in shared memory, chroma predicted from luma, non-zeros counted | no warp reads what another has overwritten or not yet written; counts match the coefficients |
| Quantizer calibration (`quant_calibration.h`) | floating point to header integers | representable in the header |
| Rest of the front end (`frontend_fused.cu`, DCT, XYB, ...) | floating-point signal processing | numeric; out of TLC's reach |
| Bindings, command line, tools, benchmarks, tests, packaging | sequential users of the C ABI, measurement | not part of the encoder |

The kernels follow each other in the slot's streams: the quantizer hands its
coefficients and counts to the AC statistics, which feed the clustering, the
orders and the layout, which feed the packing; the DC coefficients go through
first blocks, histograms, the prefix code builder and the emission. The tokens
and histograms are copied to the host, which builds the AC codes and codes the
streams. Every one of these stages trusts counts that another pass over the same
data made: sizes before bits, histograms before tokens, ranks before orders.
That is where they can go wrong without any single one of them being wrong.

`PROJECT.json` lists every component with its status, and under `hazards` each
place of this code that is hard to test, with the properties that watch it.

## 2. Modules

| Module | Models | Grain of a step |
|---|---|---|
| `EncoderPipeline` | what `cujpegxl.h` promises: a queue of frames in flight | a call begins, a frame is accepted or completes, a call returns |
| `CAbi` (EXTENDS `FrameEncoder`) | every encoder call over the frame pipeline | a call's work between the FrameEncoder's steps |
| `FrameEncoder` | slots, counters, caller and driver threads | a critical section, or the work on a slot between two |
| `SlotStreams` | the streams, events and buffers of one slot | one CUDA call of the host; one operation of a stream |
| `ForkJoin` | what `WorkerPool::run` promises | a thread runs the task |
| `WorkerPool` | the pool | a critical section or a notification |
| `HostStage` | the lock-free stage of one frame | one operation on a shared atomic, with the private work before it |
| `AcClustering` | the clustering kernel, and `ClusterReference` | a warp's work on a context, or a block's work between two barriers |
| `DcSections` | the DC and AcMetadata sections on the device, and the serial writer | a kernel; in the emission, one word of one thread |
| `AcTokens` (EXTENDS `VarDctLayout`) | orders, AC statistics, layout and packing, and the serial walk | a kernel; in the packing, one warp's item |
| `QuantizeTile` (EXTENDS `VarDctLayout`) | the quantizer's tiles, and one thread that quantizes the frame | a warp's work between two block barriers |
| `TokenCodes` | a frame's entropy codes and streams, to the bit | a section, a lane's step, a placement |
| `PrefixCodes`, `CodeHeaders`, `AnsCodes` | the code construction and descriptions `TokenCodes` uses | operators |
| `WarpPrefix` | the device's prefix code builder | operators: its lanes only meet at warp votes |
| `EntropyFormat` | how a decoder reads codes and streams: a reference, not code of the repository | operators |
| `VarDctLayout`, `EntropyOps`, `KernelOps` | blocks and transforms; hybrid integers; warp sums | operators |
| `FrameEncoderProofs`, `CAbiProofs`, `WorkerPoolProofs`, `HostStageProofs`, `SlotStreamsProofs`, `AcClusteringProofs`, `AcTokensProofs`, `QuantizeTileProofs` | theorems about the module they are named after | |
| `MC*` | instances for TLC | |

How they compose: `CAbi` is built on `FrameEncoder`'s actions and is shown to
implement both `FrameEncoder`'s `Spec` (`UsesFrameEncoder`) and `EncoderPipeline`
(`ImplementsPipeline`). Of submit and receive it takes the bodies (`SubmitCall`,
`ReceiveCall`), which leave out what the code only asserts; `FrameEncoder`'s own
`SubmitBegin` and `ReceiveBegin` add the assertions. What keeps the ABI to them is its
own checks, so that without either the refinement fails. `WorkerPool`
implements `ForkJoin`, which is what `HostStage` assumes of `pool.run`.
`FrameEncoder` has the device work of a frame and the host stage as one step
each; `SlotStreams` and `HostStage` are those steps in detail. `SlotStreams`
takes from `FrameEncoder` that the caller and the driver are never in one slot
together (`SlotExclusive`, proved), `HostStage` takes from `SlotStreams` that
batches land in order and are the frame's (`HostReadsItsFrame`, proved).

How state corresponds to the code:

- `FrameEncoder`: `submitted`, `completed`, `received`, `stop` are the fields of
  `State`; `frame[s]`, `copies_started[s]`, `result[s]` those of `Slot`.
  `device[s]` is the frame whose work was last enqueued for the slot and
  `tokens[s]` the frame its pinned tokens are of; `files` is the content of the
  callers' buffers. `caller` and `driver` are control states; `"waiting"` and
  `"asleep"` are the wait sets of the two condition variables, which a thread
  enters with its predicate false and leaves by a notification or spuriously. A
  notification of a thread that is not there is lost, as in the code.
- `CAbi`: `config`, `outputs`, `oldest_output` are the fields of
  `cujpegxl_encoder`, `pending` the locals of a submit in progress.
- `SlotStreams`: `SubmitCalls`, `StartCopiesCalls` and `FetchDcCalls` are the
  CUDA calls of `submit`, `start_copies` and `code_frame` in their order, with
  the stream of each and what it reads and writes. A thread makes one call at a
  time and each may fail. `queue` holds what the device has yet to run;
  `holds` is the set of buffers that hold data of the slot's frame: an
  operation leaves such data only if it belongs to the frame and all its inputs
  were such data. A kernel launcher is one operation; a launcher that fails half
  way leaves some of its outputs written, which makes no difference to a frame
  that is then never coded. cudaEventRecord, cudaStreamWaitEvent and the rest
  are external: a wait is for the last record made before the call, events are
  reached in stream order.
- `WorkerPool`: fields without their underscore; `seen`, `job` are the locals of
  a worker.
- `HostStage`: the atomics by their names; `lanes[t][l]` is the stream a lane
  codes and its tokens left; `file` has one cell per byte of the output buffer,
  holding which section wrote it. What is coded is abstracted to a number of
  tokens and bytes per group.

- `AcClustering`: the fields of the kernel's global scratch by their names, a
  program counter per block and warp, and the barrier as the count of arrivals.
  The costs are integers, as in the code, with a shorter logarithm table.
- `DcSections`: `stage` is the kernel that runs next in the stream. A bit of the
  output is named by what it stands for, so `out` tells a lost, doubled or
  misplaced bit from the right one; a word not zeroed holds `"stale"`. `qf` is the
  device's plane, a value per block: the histograms read it at the block, the emission
  through the list of first blocks. The serial writer of the repository writes one value
  for the whole frame; the reference here takes it from the plane.
- `AcTokens`: the same for the raw words of the packed tokens. A token is an entry
  with its cluster and symbol. `Serial` is the walk of
  `tools/bitstream/vardct_frame.cc`, coefficient by coefficient, without ballots,
  chunks or offsets.
- `QuantizeTile`: `region[t][w]` is the barrier interval a warp is in, `tile` the
  shared memory, of which the statistics reuse the coefficients' words. Floats
  are exact fractions and the weights small integers, so what is checked is who
  reads and writes what when, not the rounding. The `int16_t` of a stored
  coefficient is `Narrowed`, of `Int16Values` values; the code keeps the int of luma for
  the prediction of chroma and for the flag that the statistics count, and so does the
  model. The two count differently where narrowing makes a luma coefficient zero, and
  `CountsMatchCoefficients` asks nothing of the statistics of such a position (`LumaKept`).
- `TokenCodes`: `blobs` are the device's headers, `global` the members of
  `AcGlobalBuilder`, `lanes` the lanes of one caller of `code_token_streams`
  (`HostStage` has several callers, which share nothing but the queue). A stream's
  words are the bits of a `BackWriter`. The method of an ANS histogram is any that
  the code might choose.

Left out of the modelled parts: the stage timings (`stats`, which the C ABI
never asks for, and the wait for the front end that belongs to them), the
version and size queries, and what kernels compute.

## 3. What the runs check

| Run | Instance | Shows |
|---|---|---|
| `frame_encoder` | 2 slots, 5 submit calls, 2 buffers, one frame size the coder refuses | `CountersOrdered`, `SlotExclusive`, `CodesItsFrame`, `ResultsStand`, `ExitDrains`, `InFlightKept`, `FilesWrittenInFlight` under every interleaving of caller, driver, spurious wake-ups and failures |
| `c_abi` | 2 slots, 3 submits, 2 outputs, 4 configs of which 2 are refused | `RingsAgree`, `ReceivedFileInOutput`, `UsesFrameEncoder` |
| `c_abi_pipeline` | as above with one config | `ImplementsPipeline`, with fairness: every call returns, every frame completes |
| `slot_streams` | 2 frames, 2 batches, 2 image sizes, aligned and unaligned chroma | `HostReadsItsFrame`, `FreedWhenUnused`, `OkLeavesNothingRunning`, and that host and device never wait for each other for ever (deadlock is checked) |
| `slot_submit` | the same | a finding, section 5 |
| `worker_pool` | 3 workers and the caller, 3 runs | `RunningCountsOutstanding`, `TaskOutlivesWorkers`, `ImplementsForkJoin`, `DestroyReturns` |
| `host_stage` | 3 threads of 2 lanes, 4 groups in 3 batches, 3 buffer capacities | `TablesBeforeCode`, `StreamsCodedOnce`, `TokensLanded`, `ReleasedOrderKept`, `UntouchedUnlessOk`, `FileComplete`, `StageReturns` |
| `ac_clusters` | 3 blocks of a warp, 5 contexts over 4 clusters of which 2 start empty, 128 frames' histograms | `MatchesReference`, `CodesEveryToken`: the kernel settles on the reference's clusters in every interleaving between the grid barriers |
| `dc_sections` | 10 frames of up to 5x3 blocks in groups of 4x4, 3 chunks of 2 threads, with and without a 16x16 transform, one over the capacity, one of 3 blocks | `SectionsHoldTheItems`, `CountedAsEmitted` |
| `ac_tokens` | 13 frames of up to 5x4 blocks of 2x2 coefficients, transforms of 1 and 4 blocks, from all zero to all non-zero, 4 lanes, two batches | `PackedIsSerial`, `ContextsCounted`, `OrdersDecoded` |
| `quantize_tile` | 4 frames of 1 or 2 tiles of 8x8 blocks, transforms of 1, 4 and 16 blocks, some cut by the frame's edge, 2 warps | `QuantizedSerially`, `CountsMatchCoefficients` |
| `token_codes` | some 800 frames: DC histograms of 2 to 19 symbols, AC streams of 0 to 84 tokens in 1 to 10 clusters, maps of up to 60 contexts | `DecoderReadsCodes`, `DeviceBuildsHostCode`, `DecoderReadsTokens` |

Every property is preceded in its module by what it says. `FrameEncoder`,
`WorkerPool` and `SlotStreams` have a type invariant, whose bounds say something;
the other modules' properties determine the values outright. Each checked property has a *mutant*: a version of one
action with a plausible bug (a dropped wait, a swapped order, an off-by-one, an
unreset flag), kept beside the action it mutates and named after it, under which
TLC finds the property violated.

**Why the bounds are enough.** Five submits over two slots wrap the ring twice,
with every mix of refused, failed and received frames; two slots are the fewest
where the driver can reach from one into another, and the proofs remove both
bounds. Three workers are enough for one to be late while another is waited for,
three runs for a stale notification of the first to meet the third. In
`SlotStreams` a slot only ever remembers the work and the memory of the frame
before, since its streams are idle when it is taken again: two frames show
every pair of a failed or completed frame and its successor, with buffers that
fit or must grow. Every batch of the instance has groups; `AC_BATCHES` (4 in the
code) only repeats the pattern of one batch. In `HostStage` the groups
include one without tokens and one longer than those before it (so that sorting
moves it), a batch of two groups and two of one; three threads are one releasing
and two competing, and two lanes let one thread hold two streams.
The constants `MaxCalls`, `MaxRuns` and `MaxFrames` bound histories only.

In the kernels every width is a constant, scaled down so that the borders are
met within a few items: lanes of a warp, threads of a block, blocks of a group,
bits of a word. What the code compares (a group cut by the frame's edge, a run
that starts or ends in a word of another thread, an item over several chunks
of lanes, a tie, a batch that starts in the middle) happens in the instances
above.
In `AcClustering` three blocks are one late, one early and one last at a barrier,
three iterations are one before the refill, the refill and one after. In
`QuantizeTile` both warps have a band of the tile (of the code's 16 only two have); the
proof is for any number of warps at least that of the bands. An `int16_t` has 4 values
there (`Int16Values`, 65536 in the code), so that the coefficients of the instance's frames
are narrowed, some to zero. In
`DcSections` the words of the instance have room for two to six items. In
`TokenCodes` the rANS table has 32 entries and the state moves 6 bits at a time
(`AnsLogTabSize`, `ChunkBits`; 12 and 16 in the code), a word 24 bits
(`WordBits`, 64), a warp 4 lanes (`WarpLanes`, 32), prefix codes are used below 4 tokens
(`MinAnsTokens`), and the tokens' hybrid integers are split at 4 with one bit kept: the
ratios that the code rests on are kept: a state is two chunks, a word four, and
a chunk holds a table slot and the longest prefix code word a stream is coded
with. Among its frames are streams that fill the last word to
the bit, raw bits across two words, streams without tokens between others,
runs of equal counts, counts that the scaling rounds over the table, codes
deeper than the limit, and context maps too long for the simple form, with and
without move-to-front. Frames have more than one AC context, as the code's
always have: of one, a decoder reads no map. Empty histograms and streams, which no frame
has, belong to what these parts promise: their tests have them
(`token_stream_test.cc:227`, `prefix_build_gpu_test.cc:43`).

**Fairness.** Only threads inside of a call, the driver, the workers and the
device are fair, weakly: operating system and device run what can run. No
fairness is asked of the caller beginning a call or of failures, and
spurious wake-ups are never fair. In `HostStage` the spinning threads `yield`,
and a weakly fair thread whose step is only the spin's exit stays disabled
until another thread has stepped. The mutexes are held for bounded sections
and need no fairness of their own, a critical section being one step.

## 4. What is proved

The theorems hold for every value of the constants that meets the named
assumptions of the modules. These say that numbers are natural and counts
positive, that there are images and finitely many workers, and that "no frame"
is no frame; those of `AcClustering` add that the refill is neither in the first
nor after the last iteration and that a frame has fewer tokens than a logarithm's
argument counts (2^29 less half the alphabet; `ac_clustering.h` counts on 2^27
at most), those of `AcTokens` that a side is a multiple of the block's and that the
splits, warps and frames have sizes. Those of `QuantizeTile` are
`quantize_tile_kernel`'s `static_assert`s with a tile's side that is a multiple
of a band's rows, these of every transform's side, and no more bands than warps
(8, 4 and 16 in the code, where a tile has two bands), and
`FramesAssumption`: each block of a frame is covered by one transform, which is
aligned to its size and lies in the frame. That is what `select_transforms`
leaves: a region is whole only if it fits (`fit32`, `fit16`), its quadrants are
even, and every block takes its signal from the region's one layout. TLC
evaluates the assumptions on every run.

None of the safety properties is inductive. Each proof module states the
inductive invariant it needs as a conjunction of named parts, proves that the
initial states have it and that each action keeps each part, and derives the
properties from it; each invariant was checked with TLC on the run's instance
before it was proved.

| Module | Theorems | Property of the run |
|---|---|---|
| `FrameEncoderProofs` | `TypeCorrect`, `CountersStayOrdered`, `SlotsStayExclusive`, `DriverCodesItsFrame`, `ResultsAlwaysStand`, `ExitAfterDraining`, `InFlightIsKept`, `FilesAreWrittenInFlight` | all eight of `frame_encoder` |
| `CAbiProofs` | `AbiUsesFrameEncoder`, `RingsAlwaysAgree`, `ReceivedFileIsInOutput` | all three of `c_abi` |
| | `AbiIsPipeline` | the safety of `ImplementsPipeline` |
| `WorkerPoolProofs` | `TypeCorrect`, `RunningIsExact`, `TaskStandsWhileItRuns` | the invariants of `worker_pool` |
| | `PoolIsForkJoin` | the safety of `ImplementsForkJoin` |
| `HostStageProofs` | `TablesComeFirst`, `EveryStreamOnce`, `TokensHaveLanded`, `ReleasedOrderStays`, `BufferUntouched`, `FileIsComplete` | all of `host_stage` but its liveness |
| `SlotStreamsProofs` | `Types`, `HostReadsItsFrameHolds`, `OkLeavesNothingRunningHolds`, `FreedWhenUnusedHolds` | all four of `slot_streams` |
| `AcClusteringProofs` | `DeviceMatchesReference`, `OutputCodesEveryToken` | both of `ac_clusters` |
| | `ClusteringInvariant`, `BlocksStayTogether`, `SharedReadsAreStable` | what the two rest on, and why a step may read shared memory at once |
| `AcTokensProofs` | `DecoderFindsOrders` | `OrdersDecoded`, of `ac_tokens` |
| `QuantizeTileProofs` | `WarpsQuantizeSerially`, `CountsAreOfCoefficients` | both of `quantize_tile` |

**The ring of slots** (`FrameEncoderProofs`). `IInv` adds to the properties
`ControlInv`: what the counters must be in each control state of either thread,
e.g. that the caller inside of `submit` still sees a free slot. That
`in_flight() < depth` is checked long before `++submitted` is harmless only
because `submitted` is the caller's own and `received` cannot fall. `SlotsInv`
says what a slot holds of its frame while that frame is in flight, in each phase
of the driver, and `OutcomeInv` what the driver knows of the result it is about
to publish. The argument that makes it work is arithmetic: frames less than
`Depth` apart have different slots (`SlotsDiffer`), so with the counters ordered
the slot being prepared is neither the one being coded nor the one after it.

**The C ABI** (`CAbiProofs`). The ABI's own checks are of `in_flight` against the depth
and against 0, not the assertions' comparisons, and it calls bodies that assert nothing.
With `IInv`, by which 0 <= `in_flight` <= `Depth`, the checks give the assertions
(`AbiSubmitBegins`, `AbiReceiveBegins`), so that its step is one of the FrameEncoder
(`AbiStep`) and keeps `IInv`: the two are proved together, each from the other before the step.
To it `AbiIInv` adds `RingInv`, which ties `outputs` to the slots of the frames
in flight, and `PendingInv`, what submit's locals are worth while the
FrameEncoder's submit runs. The window in which the two rings differ is one
state wide (`caller = "notify"`: the frame is published, its output not yet
entered), and the proof is that nothing can be received in it. `AbiIsPipeline`
maps every step of the composition to a step of the queue or to none: the
frame's acceptance is `SubmitPublish`, its completion the driver's
`DriverPublish`, and the rest happens between.

**The pool** (`WorkerPoolProofs`). `running_` is the number of workers that have
not counted themselves out of this generation, and outside of `run` there are
none (`RoundInv`); so a worker that is late finds either the task of the run
that waits for it, or no task. `PoolIsForkJoin` follows action by action: a
worker's `count` is the moment its thread's task is done.

**The host stage** (`HostStageProofs`). The parts are the disciplines that take
the place of a lock: what a claimed table part is worth (`TablesInv`,
`AcGlobalInv`), that the sorted prefix of `order` names the released groups once
each (`OrderInv`), that a claimed position is awaited, being coded or coded, by
one lane (`LanesInv`, `StartedInv`, `OnceInv`, `CodersInv`), and what placement and
file are in each phase (`ResultInv`, `FileInv`). That no byte of the file is
written twice or left out rests on sums: `SizeBefore` is a recursive function,
from whose recursion equation it follows that the groups' ranges
are disjoint and cover the file (`BytesDisjoint`, `BytesCover`), and that
sorting a batch changes no released position.

**The device work of a slot** (`SlotStreamsProofs`). The question is what an
event promises. `Carries(image, e, x)` answers it: when event e of a frame is
reached, buffer x holds the frame's data. The argument has two halves.

- Of the calls alone, without a state: each call of `submit`,
  `start_copies` and `code_frame` is *supplied* by the calls before it. What an
  operation reads was written earlier in its stream, or before an event that its
  stream waits for; what an event promises was written in its stream before its
  record; no event is recorded again after a wait for it. The sequences of
  calls are joined from parts, one per batch, and so is the proof (`Chained`),
  for every `AC_BATCHES` and every mix of batches with and without groups.
- Of the state: `MadeInv` says what each call made so far has brought about *or
  will*: a buffer is written, or a write of it is still in the queue ahead of
  where it matters (`Covered`, `DeliveredAt`). Enqueuing a call keeps this
  because the call is supplied; running an operation keeps it because streams
  are first-in first-out and an operation at the head of a stream reads only
  what has been delivered (`OpsInv`).

The other parts say why that is enough across frames and failures: the slot's
streams are empty once `submit` has synchronized them (`SyncInv`, `Clean`), so
no operation of an earlier frame overtakes; the caller's stream writes the
planes of this frame last (`InputInv`); a stream keeps to its own buffers
(`AreaInv`), so that growing the pinned tokens on the driver can only disturb
the copy stream, which then has nothing of them (`CapacityInv`); the last
operation of a stream is the record that the host waits for (`LastInv`), so that
a frame that completed has left nothing behind it; and `PhaseInv` says what each
phase of the driver has seen land. Neither a failed call nor the order in which
the device runs its streams is restricted. The proof needs of an image only what
`ImageAssumption` says: two AC groups or more, a token or more. It holds for one
slot whose caller and driver are never in it together, which is
`SlotsStayExclusive`.

**The clustering kernel** (`AcClusteringProofs`). Here the theorem is that a
parallel program computes what a sequential one does, so the invariant says what
is in the shared memory at every moment in the terms of the reference:
`LloydReference(hist)[i]` is its assignment after i iterations. A context has
made `Progress` of so many iterations, which depends on its block's iteration,
barriers and remaining work alone; then (`SharedInv`) its assignment is the
reference's of that iteration, cluster j of iteration i holds the sum of the
contexts that have reached i with assignment j (`ClustersInv`), a cluster's key is
the largest of the contexts that have been proposed, its first context the lowest of
those that have come to the last iteration (`KeysInv`, `FirstInv`), and a block's
own copy is the histograms of its iteration, refilled or not (`CountsInv`).

- The control half (`ControlInv`) is the barrier. `arrivals` is the sum of what
  the blocks have counted and is never reset, so that a block that has seen
  `barriers * NumBlocks` of them knows of *this* barrier only if no block is two
  ahead: `Separated` says so, and is what makes the invariant inductive.
  It gives that when a block reads an iteration's histograms all contexts have
  reached it, and `SharedReadsAreStable`: nothing that a block reads in many reads,
  and the model in one step, changes meanwhile.
- The data half is algebra. Sums over finite sets do not depend on the order in
  which the blocks add (`SumFunctionOnSet` by its recursion equation); the share
  of the list each block takes is a partition for either stride, which differs
  between the nominations and the assignments; the moves that each block makes
  in its own copy of the histograms, adding and subtracting one context each, yield
  the histograms of the reference's new assignment, since a cluster nominates one
  context, keys differ and a vacant cluster takes one; and the clusters numbered
  by first context on the device are those that the reference numbers.

Ties are decided by values that are never equal (keys hold the context, costs
the cluster), and no overflow is assumed away but in the argument of a logarithm.

**The coefficient orders** (`AcTokensProofs`). `coeff_orders_kernel` never sorts: a
position's place is the number of keys that come before it, which `OrderSplits`
threads count in parts, each with two bounds of its warp, and the place's Lehmer
code is the position's index less those before it of lower index. That a decoder
finds the order takes four facts, none of which depends on the statistics:

- the natural order lists every position of a transform once (`NaturalOrder`),
  the corner first and then the diagonals;
- the parts of the splits cover the positions once, and within a part the keys
  that the two bounds leave out of the comparison of indices are on the side of
  the position that their comparison takes them for (`PartsCover`, `PartialIs`), so
  that a place is a rank in the order of the keys, ties by index (`CountedForIs`);
- ranks of different values number them from 0 on (`RanksNumber`), so that
  places and positions correspond one to one (`AtIs`), and each place is written
  by one thread;
- what the decoder has left before place k is what is not in the places before k,
  and of it the position at k is the one with as many below it as the code says
  (`UnusedIs`, by induction over the places; `TakenIs`).

That it is the order of `coeff_order_reference.cc` follows from the same facts
about its ranking (`ReferenceSorts`).

**The quantizer** (`QuantizeTileProofs`). The warps of a tile's block meet at barriers
only; between them each reads what the others stage, sum and map, and at the end
the buffer of the coefficients is zeroed and reused for the statistics. That what
they leave is what one thread makes of the frame has a part without states and
a part with.

- Of the frame alone. Blocks and the positions of tiles correspond one to one
  (`BlockInTile`), and since bands and tiles are multiples of a transform's side, the
  owner of a position is in its tile and band (`OwnerInTile`), so that a shuffle
  within the warp finds it (`PositionIs`). The cells that a tile's sums run over, those that
  are no corner, are the disjoint shares of its warps' lanes (`KeysAre`), so
  that the lanes' sums add up to the tile's (`SumClasses`, `SumRenamed`, `TotalIs`) and the
  maps made of them are the serial ones (`MapsAre`). The DC of a block is
  computed from the corner of its transform in the staged tile (`DcAtIs`), and each slot of
  the planes belongs to one warp (`SharesAre`), which writes what one thread
  would (`LumaDoes`, `ChromaDoes`).
- Of the state. `Inv` says what a warp's `region` implies: its share of the tile is
  staged (`StagedSoFar`), its sums, and warp 0's maps, are in shared memory (`SummedSoFar`,
  `MappedSoFar`), what it keeps in registers for the chroma is the luma it
  has quantized (`KeptSoFar`), and its slots of the output are the serial ones
  (`DcWritten`, `LumaWritten`, `ChromaWritten`). The staged coefficients stand
  only until some warp has reused the buffer, and `StagedSoFar` says no more; what makes it enough is `Barriers`: no warp is more than one
  barrier ahead of another, so while any warp has coefficients to read none has
  gone on to zero them. Dropping that barrier (the run's mutant) breaks it.
- Of the counts. `CountsInv` is about the same steps: a counter holds the non-zeros
  found by the warps that have passed the channel's barrier (`CountedSoFar`), the registers
  the flags of the warp's own cells (`FoundSoFar`), a word of the statistics what the
  warps past its zeroing have added (`StatsSoFar`), the output the sum over the tiles that have
  flushed (`OrdersWritten`). A count is the size of a set of cells, so that a warp's
  atomic additions are a disjoint union (`CountMore`), and at the end the sets correspond one
  to one to the non-zero positions of a transform (`TallyWritten`) and to the transforms with a
  non-zero at a position (`HitsWritten`), by `OrdinalTells`: no two cells of a transform
  are the same coefficient. Words of different sides, channels and positions are different words
  (`OffsetsAre`). The statistics count flags, of luma before it is narrowed
  (`FlaggedCells`), the blocks what is stored (`NonzeroCells`); `FlagIsKept` is where they agree.

What is proved is the arithmetic of the model, whose numbers are integers: that the
float sums of the regression are added in another order than a serial walk would is
outside of it.

The induction theorems of the library take an operator as their parameter, which
the provers here cannot be given. Where a lemma needs induction over a number,
it applies the least-number principle (`Least`, `LeastNumber`) to the set of counterexamples.

Only model-checked, and why:

- liveness (`StageReturns`, `DestroyReturns`) and the fairness in
  `ImplementsPipeline` and `ImplementsForkJoin`: the prover has no rules for
  fairness. The two refinement theorems therefore state `Init` and `[][Next]` of
  the abstract specification;
- the other kernels and the codes (`DcSections`, `TokenCodes`, and of `AcTokens` the
  statistics and the packing, `ContextsCounted` and `PackedIsSerial`): their properties
  are about what folds over a frame's data compute (prefix sums of bits, scans of
  blocks, trees and rANS states), which takes an induction over the data for every
  definition.

## 5. Findings

`slot_submit`: the C ABI says that submit "returns without waiting", and that a
caller need not synchronize after writing the planes. But `enqueue_frame`
replaces the slot's `ChromaTexture` after it has enqueued the wait for the
caller's stream and the copy of an unaligned chroma plane, and the destructor of
the texture it replaces synchronizes that very stream. From the second frame of
a slot on, submit blocks until the caller's stream has reached the call and the
chroma has been copied. TLC's trace is one complete frame (or a submit that
failed after the texture was made) and the next submit up to `emplace`. The
synchronization at the start of submit has already waited for the old texture's
last use, so replacing it before the new frame's first call would not wait.

## 6. What is not modelled, and the plan

Floating point is outside of what TLC can check: the front end up to the
quantizer, the quantizer's rounding, the calibration. Of the calibration one
thing is known and not checked: from a distance of some 287,000 on, which
`validate_config` accepts, its DC quantizer is 0, which the header's field has
no code for, against the comment of `calibrate_quant`; `write_u32` only asserts it.
The size bound (`max_encoded_size`) rests on how many bits a real frame's
transforms can leave per sample and is not modelled either. The box framing, the
image and frame headers are sequences of constants but for two sizes. The
constant tables' one copy per process (`ensure_constants`) is listed as a hazard
that no property covers. The bindings, tools and tests around the encoder are
sequential users of it, except for the serial writer, which the kernels are
compared with.

Planned, most important first:

1. **Proofs**: the packing of `AcTokens` (`PackedIsSerial`), and that what it packs has
   been counted (`ContextsCounted`).
2. **Sizes**: `max_encoded_size` against the sections' capacities, once the bits
   per sample are stated somewhere.
3. **Tables per process and device**, with a second encoder.

Abstract specifications worth stating are the two there are (`EncoderPipeline`,
`ForkJoin`).

## 7. Running

    tlc -config MCFrameEncoder.cfg MCFrameEncoder
    tlc -config MCCAbi.cfg MCCAbi
    tlc -config MCCAbiPipeline.cfg MCCAbi
    tlc -config MCSlotStreams.cfg MCSlotStreams
    tlc -config MCSlotSubmit.cfg MCSlotStreams      (violated: section 5)
    tlc -config MCWorkerPool.cfg MCWorkerPool
    tlc -config MCHostStage.cfg MCHostStage
    tlc -config MCAcClustering.cfg MCAcClustering
    tlc -config MCDcSections.cfg MCDcSections
    tlc -config MCAcTokens.cfg MCAcTokens
    tlc -config MCQuantizeTile.cfg MCQuantizeTile
    tlc -config MCTokenCodes.cfg MCTokenCodes
    tlapm FrameEncoderProofs.tla
    tlapm CAbiProofs.tla
    tlapm WorkerPoolProofs.tla
    tlapm HostStageProofs.tla
    tlapm SlotStreamsProofs.tla                     (more than ten minutes)
    tlapm AcClusteringProofs.tla
    tlapm AcTokensProofs.tla
    tlapm QuantizeTileProofs.tla                    (more than ten minutes)

The community modules and the TLAPS library must be on the module path.
