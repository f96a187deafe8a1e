-------------------------- MODULE MCAcClustering --------------------------
(* Instances of AcClustering for TLC. *)
EXTENDS AcClustering

(* lround(16 * log2(1 + i / 4)) *)
MCLog2Table == 0 :> 0 @@ 1 :> 5 @@ 2 :> 9 @@ 3 :> 13 @@ 4 :> 16

(* Clusters 2 and 3 start empty. *)
MCInitialCluster == [c \in 0 .. 4 |-> c % 2]

(* Contexts without tokens, with one symbol, with both; context 2 has both.*)
MCHistograms == {<<0, 0>>, <<5, 0>>, <<0, 4>>, <<2, 3>>}
MCInputs == {[c \in 0 .. 4 |-> [s \in 0 .. 1 |-> h[c][s + 1]]] :
               h \in {h \in [0 .. 4 -> MCHistograms] : h[2] = <<2, 3>> /\ h[0] \in {<<0, 0>>, <<5, 0>>}}}
===========================================================================
