--------------------------- MODULE AcClustering ---------------------------
(***************************************************************************)
(* The clustering of a frame's AC contexts (src/src/ac_clustering.h):      *)
(* ClusterReference is the sequential host reference, and the state        *)
(* machine is the device's version of it, context_stats_kernel and the     *)
(* cooperative cluster_contexts_kernel (src/src/entropy.cu), whose thread  *)
(* blocks meet at grid barriers and share the cluster histograms, the      *)
(* assignment and the nominees of a refill.                                *)
(*                                                                         *)
(* A step of a thread block is the work of a warp on one context, in any   *)
(* order, or what the whole block does between two barriers in its shared  *)
(* memory. The atomic additions of a warp are one step: they commute.      *)
(***************************************************************************)
EXTENDS Integers, TLC, FiniteSets, FiniteSetsExt

CONSTANTS
  NumBlocks,        (* gridDim.x, all resident                             *)
  Warps,            (* warps of a thread block                             *)
  WarpSize,
  NumContexts,      (* AC_NUM_CONTEXTS                                     *)
  NumClusters,      (* AC_MAX_CLUSTERS                                     *)
  AlphabetSize,     (* AC_CONTEXT_ALPHABET                                 *)
  Iterations,       (* AC_CLUSTER_LLOYD_ITERATIONS                         *)
  RefillIteration,  (* AC_CLUSTER_REFILL_ITERATION                         *)
  InitialCluster,   (* ac_initial_cluster                                  *)
  TableBits, RemBits, Log2Table, FracBits, ExcessBits,
  Inputs            (* the context histograms of a frame                   *)

Block   == 0 .. NumBlocks - 1
Context == 0 .. NumContexts - 1
Cluster == 0 .. NumClusters - 1
Symbol  == 0 .. AlphabetSize - 1

Zero == [s \in Symbol |-> 0]
NoTokens == [j \in Cluster |-> Zero]
Add(h, g) == [s \in Symbol |-> h[s] + g[s]]
Total(h) == SumFunctionOnSet(h, Symbol)

(* How often a set of contexts has each symbol. *)
SumOf(hist, contexts) ==
  [s \in Symbol |-> SumFunctionOnSet([c \in Context |-> hist[c][s]], contexts)]

Pow2[n \in Nat] == IF n = 0 THEN 1 ELSE 2 * Pow2[n - 1]

ASSUME ClusteringAssumption ==
  /\ NumBlocks \in Nat \ {0} /\ Warps \in Nat \ {0} /\ WarpSize \in Nat \ {0}
  /\ NumContexts \in Nat /\ NumClusters \in Nat \ {0} /\ AlphabetSize \in Nat
  /\ Iterations \in Nat /\ RefillIteration \in Nat
  /\ 0 < RefillIteration /\ RefillIteration < Iterations
  /\ InitialCluster \in [Context -> Cluster]

ASSUME CostAssumption ==
  /\ TableBits \in Nat /\ RemBits \in Nat /\ FracBits \in Nat
  /\ ExcessBits \in 0 .. FracBits
  /\ Log2Table \in [0 .. Pow2[TableBits] -> Nat]

(* ac_clustering.h counts on the 2^27 tokens of the largest frames: twice  *)
(* the tokens of a frame and an alphabet fit a logarithm's argument.       *)
ASSUME TokensAssumption ==
  /\ Inputs \subseteq [Context -> [Symbol -> Nat]]
  /\ \A h \in Inputs : 2 * Total(SumOf(h, Context)) + AlphabetSize < Pow2[30]

(* One past the highest symbol of any context. *)
Alphabet(hist) ==
  Max({0} \cup {s + 1 : s \in {s \in Symbol : \E c \in Context : hist[c][s] # 0}})

Active(hist) == {c \in Context : Total(hist[c]) # 0}

-----------------------------------------------------------------------------
(* Costs in fixed point. *)

FloorLog2(x) == CHOOSE e \in 0 .. 30 : Pow2[e] <= x /\ x < Pow2[e + 1]

(* Linear interpolation in the table of log2(1 + i / 2^TableBits). *)
FixedLog2(x) ==
  LET e    == FloorLog2(x)
      frac == ((x - Pow2[e]) * Pow2[TableBits + RemBits]) \div Pow2[e]
      idx  == frac \div Pow2[RemBits]
      lo   == Log2Table[idx]
  IN  e * Pow2[FracBits] + lo
        + ((Log2Table[idx + 1] - lo) * (frac % Pow2[RemBits])) \div Pow2[RemBits]

(* The size of h coded with the smoothed distribution of a cluster. *)
CodingCost(h, cluster, alphabet) ==
  Total(h) * FixedLog2(2 * Total(cluster) + alphabet)
    - SumFunctionOnSet([s \in Symbol |-> h[s] * FixedLog2(2 * cluster[s] + 1)],
                       {s \in Symbol : h[s] # 0})

Entropy(h) ==
  Total(h) * FixedLog2(Total(h))
    - SumFunctionOnSet([s \in Symbol |-> h[s] * FixedLog2(h[s])], {s \in Symbol : h[s] # 0})

RefillExcess(h, cluster, alphabet) ==
  Max({0, CodingCost(h, cluster, alphabet) - Entropy(h)}) \div Pow2[FracBits - ExcessBits]

(* Ordered by the largest excess, then the lowest context; never 0. *)
RefillKey(excess, c) == excess * (NumContexts + 1) + (NumContexts - c)
RefillKeyContext(key) == NumContexts - (key % (NumContexts + 1))

-----------------------------------------------------------------------------
(* The host reference. *)

(* f itself, as a table: TLC evaluates a function defined by an expression *)
(* anew at each of its uses, unless it has compared the function before.   *)
Tabulated(f) == CHOOSE g \in {f} : g = g

ClusterHistograms(hist, assignment) ==
  Tabulated([j \in Cluster |-> SumOf(hist, {c \in Active(hist) : assignment[c] = j})])

EmptyClusters(counts) == {j \in Cluster : Total(counts[j]) = 0}

(* The non-empty cluster that codes h in the fewest bits, the lowest of    *)
(* equals.                                                                 *)
Cheapest(h, counts, alphabet) ==
  Min({CodingCost(h, counts[j], alphabet) * NumClusters + j :
         j \in {j \in Cluster : Total(counts[j]) # 0}}) % NumClusters

Nth(S, n) == CHOOSE x \in S : Cardinality({y \in S : y < x}) = n

(* Every cluster with contexts nominates that of its largest key. *)
NomineeKeys(hist, assignment) ==
  LET counts == ClusterHistograms(hist, assignment)
      key(c) == RefillKey(RefillExcess(hist[c], counts[assignment[c]], Alphabet(hist)), c)
  IN  {Max({key(c) : c \in {c \in Active(hist) : assignment[c] = j}}) :
         j \in {assignment[c] : c \in Active(hist)}}

(* A context of key k among the nominees goes to the empty cluster of the  *)
(* same rank.                                                              *)
RefillReference(hist) ==
  [assignment \in [Context -> Cluster] |->
     LET keys    == NomineeKeys(hist, assignment)
         empty   == EmptyClusters(ClusterHistograms(hist, assignment))
         moved   == {k \in keys : Cardinality({l \in keys : l > k}) < Cardinality(empty)}
         target(k) == Nth(empty, Cardinality({l \in keys : l > k}))
     IN  Tabulated([c \in Context |->
            IF \E k \in moved : RefillKeyContext(k) = c
            THEN target(CHOOSE k \in moved : RefillKeyContext(k) = c)
            ELSE assignment[c]])]

Reassigned(hist) ==
  [assignment \in [Context -> Cluster] |->
     LET counts == ClusterHistograms(hist, assignment)
     IN  Tabulated([c \in Context |->
            IF c \in Active(hist) THEN Cheapest(hist[c], counts, Alphabet(hist))
            ELSE assignment[c]])]

(* The assignments of the Lloyd iterations. *)
LloydReference(hist) ==
  LET lloyd[i \in 0 .. Iterations] ==
        IF i = 0 THEN InitialCluster
        ELSE Reassigned(hist)[IF i - 1 = RefillIteration THEN RefillReference(hist)[lloyd[i - 1]]
                              ELSE lloyd[i - 1]]
  IN  lloyd

(* Clusters numbered by their first context; a context without tokens      *)
(* takes the cluster of the last context with tokens before it.            *)
Renumbered(hist) ==
  [assignment \in [Context -> Cluster] |->
     LET active  == Active(hist)
         first   == {c \in active : \A d \in active : d < c => assignment[d] # assignment[c]}
         rank(c) == Cardinality({d \in first : d < Min({f \in first : assignment[f] = assignment[c]})})
     IN  [num_clusters |-> Max({1, Cardinality(first)}),
          context_map  |-> [c \in Context |->
                              IF \E d \in active : d <= c
                              THEN rank(Max({d \in active : d <= c})) ELSE 0],
          histograms   |-> [r \in Cluster |->
                              IF r < Cardinality(first)
                              THEN ClusterHistograms(hist, assignment)[assignment[Nth(first, r)]]
                              ELSE Zero]]]

ClusterReference(hist) == Renumbered(hist)[LloydReference(hist)[Iterations]]

-----------------------------------------------------------------------------
VARIABLES
  hist,          (* the input *)
  (* global memory: ClusterScratch and the output *)
  cluster_hist, refill_keys, arrivals, alphabet, totals, first_context, active, assignment,
  out,
  (* each thread block: the contexts its warps still have to visit, its    *)
  (* iteration and number of barriers, and in shared memory the cluster    *)
  (* histograms of the iteration                                           *)
  pc, todo, it, barriers, counts

stats   == <<hist, alphabet, totals>>
scratch == <<cluster_hist, refill_keys, first_context, active, assignment>>
blocks  == <<pc, todo, it, barriers, counts>>
vars    == <<stats, scratch, arrivals, out, blocks>>

None == NumContexts   (* UINT32_MAX of first_context *)

Init ==
  /\ hist \in Inputs
  /\ cluster_hist = [i \in 0 .. Iterations |-> NoTokens]
  /\ refill_keys = [j \in Cluster |-> 0]
  /\ arrivals = 0
  /\ alphabet = 0
  /\ totals = [c \in Context |-> 0]
  /\ first_context = [j \in Cluster |-> 0]
  /\ active = <<>>
  /\ assignment = [c \in Context |-> 0]
  /\ out = [num_clusters |-> 0, context_map |-> [c \in Context |-> 0], histograms |-> NoTokens]
  /\ pc = [b \in Block |-> "stats"]
  /\ todo = [b \in Block |-> {}]
  /\ it = [b \in Block |-> 0]
  /\ barriers = [b \in Block |-> 0]
  /\ counts = [b \in Block |-> NoTokens]

(* The kernel before: the totals, the alphabet and the histograms of the   *)
(* initial clusters.                                                       *)
ContextStats ==
  /\ \A b \in Block : pc[b] = "stats"
  /\ totals' = [c \in Context |-> Total(hist[c])]
  /\ alphabet' = Alphabet(hist)
  /\ cluster_hist' = [cluster_hist EXCEPT ![0] = ClusterHistograms(hist, InitialCluster)]
  /\ pc' = [b \in Block |-> "start"]
  /\ UNCHANGED <<hist, refill_keys, first_context, active, assignment, arrivals, out, todo, it,
                 barriers, counts>>

(* Block 0 lists the contexts with tokens while the others go to wait. *)
ListActive(b) ==
  /\ pc[b] = "start"
  /\ IF b = 0
     THEN /\ LET with == {c \in Context : totals[c] # 0}
             IN  active' = [a \in 1 .. Cardinality(with) |-> Nth(with, a - 1)]
          /\ first_context' = [j \in Cluster |-> None]
     ELSE UNCHANGED <<active, first_context>>
  /\ pc' = [pc EXCEPT ![b] = "arrive"]
  /\ UNCHANGED <<stats, cluster_hist, refill_keys, assignment, arrivals, out, todo, it, barriers,
                 counts>>

(* grid_barrier: once all its warps are there, a block counts itself...    *)
Arrive(b) ==
  /\ pc[b] = "arrive" /\ todo[b] = {}
  /\ barriers' = [barriers EXCEPT ![b] = @ + 1]
  /\ arrivals' = arrivals + 1
  /\ pc' = [pc EXCEPT ![b] = "spin"]
  /\ UNCHANGED <<stats, scratch, out, todo, it, counts>>

(* ...and leaves once the count of this barrier is complete. Which barrier *)
(* it is tells what comes after it: the first starts the iterations, that  *)
(* of the refill goes on with it, and the others end an iteration.         *)
Passed(b) ==
  IF barriers[b] = 1 THEN "load"
  ELSE IF barriers[b] = RefillIteration + 2 THEN "refill"
  ELSE IF it[b] < Iterations THEN "load" ELSE "finish"

Leave(b) ==
  /\ pc[b] = "spin"
  /\ arrivals >= barriers[b] * NumBlocks
  /\ pc' = [pc EXCEPT ![b] = Passed(b)]
  /\ UNCHANGED <<stats, scratch, arrivals, out, todo, it, barriers, counts>>

(* The active contexts of a block when `stride` of them go to each block   *)
(* in turn.                                                                *)
ShareOf(b, stride) == {active[a] : a \in {a \in DOMAIN active : ((a - 1) \div stride) % NumBlocks = b}}

LoadClusters(b) ==
  /\ pc[b] = "load"
  /\ counts' = [counts EXCEPT ![b] = cluster_hist[it[b]]]
  /\ IF it[b] = RefillIteration
     THEN /\ todo' = [todo EXCEPT ![b] = ShareOf(b, Warps * WarpSize)]
          /\ pc' = [pc EXCEPT ![b] = "nominate"]
     ELSE /\ todo' = [todo EXCEPT ![b] = ShareOf(b, Warps)]
          /\ pc' = [pc EXCEPT ![b] = "assign"]
  /\ UNCHANGED <<stats, scratch, arrivals, out, it, barriers>>

(* Mutant: the nominee is stored, not merged by an atomic maximum.         *)
Nominate_Store(b, c) ==
  /\ pc[b] = "nominate" /\ c \in todo[b]
  /\ LET j == assignment[c]
     IN  refill_keys' = [refill_keys EXCEPT ![j] =
           RefillKey(RefillExcess(hist[c], counts[b][j], alphabet), c)]
  /\ todo' = [todo EXCEPT ![b] = @ \ {c}]
  /\ UNCHANGED <<stats, cluster_hist, first_context, active, assignment, arrivals, out, pc, it,
                 barriers, counts>>

(* A thread proposes its context for a move out of its cluster. *)
Nominate(b, c) ==
  /\ pc[b] = "nominate" /\ c \in todo[b]
  /\ LET j == assignment[c]
     IN  refill_keys' = [refill_keys EXCEPT ![j] =
           Max({@, RefillKey(RefillExcess(hist[c], counts[b][j], alphabet), c)})]
  /\ todo' = [todo EXCEPT ![b] = @ \ {c}]
  /\ UNCHANGED <<stats, cluster_hist, first_context, active, assignment, arrivals, out, pc, it,
                 barriers, counts>>

Nominated(b) ==
  /\ pc[b] = "nominate" /\ todo[b] = {}
  /\ pc' = [pc EXCEPT ![b] = "arrive"]
  /\ UNCHANGED <<stats, scratch, arrivals, out, todo, it, barriers, counts>>

(* Every block makes the moves in its own copy of the clusters. *)
Moves(b) ==
  LET empty    == EmptyClusters(counts[b])
      nominees == {j \in Cluster : refill_keys[j] # 0}
      rank(j)  == Cardinality({k \in Cluster : refill_keys[k] > refill_keys[j]})
      moves    == Min({Cardinality(nominees), Cardinality(empty)})
  IN  {[from |-> j, to |-> Nth(empty, rank(j)), context |-> RefillKeyContext(refill_keys[j])] :
         j \in {j \in nominees : rank(j) < moves}}

Refill(b) ==
  /\ pc[b] = "refill"
  /\ counts' = [counts EXCEPT ![b] = [j \in Cluster |->
       IF \E m \in Moves(b) : m.to = j
       THEN hist[(CHOOSE m \in Moves(b) : m.to = j).context]
       ELSE IF \E m \in Moves(b) : m.from = j
       THEN LET m == CHOOSE m \in Moves(b) : m.from = j
            IN  [s \in Symbol |-> @[j][s] - hist[m.context][s]]
       ELSE @[j]]]
  /\ todo' = [todo EXCEPT ![b] = ShareOf(b, Warps)]
  /\ pc' = [pc EXCEPT ![b] = "assign"]
  /\ UNCHANGED <<stats, scratch, arrivals, out, it, barriers>>

(* A warp moves its context to the cheapest cluster, adds it to the        *)
(* histograms of the next iteration and, in the last, to its first context.*)
Assign(b, c) ==
  /\ pc[b] = "assign" /\ c \in todo[b]
  /\ LET j == Cheapest(hist[c], counts[b], alphabet)
     IN  /\ cluster_hist' = [cluster_hist EXCEPT ![it[b] + 1][j] = Add(@, hist[c])]
         /\ assignment' = [assignment EXCEPT ![c] = j]
         /\ first_context' = IF it[b] + 1 = Iterations
                             THEN [first_context EXCEPT ![j] = Min({@, c})] ELSE first_context
  /\ todo' = [todo EXCEPT ![b] = @ \ {c}]
  /\ UNCHANGED <<stats, refill_keys, active, arrivals, out, pc, it, barriers, counts>>

Assigned(b) ==
  /\ pc[b] = "assign" /\ todo[b] = {}
  /\ it' = [it EXCEPT ![b] = @ + 1]
  /\ pc' = [pc EXCEPT ![b] = "arrive"]
  /\ UNCHANGED <<stats, scratch, arrivals, out, todo, barriers, counts>>

(* The clusters in the order of their first contexts. *)
Numbered == {j \in Cluster : first_context[j] # None}
Rank(j)  == Cardinality({k \in Numbered : first_context[k] < first_context[j]})

(* The histograms of the clusters in their order. *)
Ordered(clusters) ==
  [r \in Cluster |-> IF r < Cardinality(Numbered)
                     THEN clusters[CHOOSE j \in Numbered : Rank(j) = r] ELSE Zero]

(* How many active contexts there are up to context c (a binary search).   *)
(* Mutant: c itself is not counted.                                        *)
ActiveUpTo_Below(c) == Cardinality({a \in DOMAIN active : active[a] < c})

ActiveUpTo(c) == Cardinality({a \in DOMAIN active : active[a] <= c})

(* The block writes the map of its contexts, block 0 also the histograms.  *)
Finish(b) ==
  /\ pc[b] = "finish"
  /\ LET mine    == {c \in Context : (c \div (Warps * WarpSize)) % NumBlocks = b}
         map     == [c \in Context |->
                       IF c \notin mine THEN out.context_map[c]
                       ELSE IF ActiveUpTo(c) = 0 THEN 0
                       ELSE Rank(assignment[active[ActiveUpTo(c)]])]
     IN  out' = IF b = 0 THEN [num_clusters |-> Max({Cardinality(Numbered), 1}), context_map |-> map,
                               histograms |-> Ordered(cluster_hist[Iterations])]
                ELSE [out EXCEPT !.context_map = map]
  /\ pc' = [pc EXCEPT ![b] = "done"]
  /\ UNCHANGED <<stats, scratch, arrivals, todo, it, barriers, counts>>

Done == \A b \in Block : pc[b] = "done"

Terminated == Done /\ UNCHANGED vars

BlockStep(b) ==
  \/ ListActive(b) \/ Arrive(b) \/ Leave(b) \/ LoadClusters(b)
  \/ (\E c \in Context : Nominate(b, c)) \/ Nominated(b) \/ Refill(b)
  \/ (\E c \in Context : Assign(b, c)) \/ Assigned(b) \/ Finish(b)

Next == ContextStats \/ (\E b \in Block : BlockStep(b)) \/ Terminated

Spec == Init /\ [][Next]_vars

-----------------------------------------------------------------------------
(* "Costs are in integer fixed point, so the device and the host reference *)
(* cluster identically" (ac_clustering.h): however the blocks interleave,  *)
(* the kernel's output is the reference's.                                 *)
MatchesReference == Done => out = ClusterReference(hist)

(* A frame's AC tokens can be coded with the output: the context map names *)
(* clusters there are, and the histogram of a context's cluster has every  *)
(* symbol the context has.                                                 *)
CodesEveryToken ==
  Done => \A c \in Context :
    /\ out.context_map[c] < out.num_clusters
    /\ \A s \in Symbol : hist[c][s] # 0 => out.histograms[out.context_map[c]][s] >= hist[c][s]
===========================================================================
