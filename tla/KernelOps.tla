----------------------------- MODULE KernelOps -----------------------------
(***************************************************************************)
(* What the device kernels have in common: tables, and the sums over the   *)
(* lanes of a warp or the threads of a block.                              *)
(***************************************************************************)
EXTENDS Integers, Sequences, FiniteSets, SequencesExt

(* f itself, as a table that TLC evaluates once. *)
Tabulated(f) == CHOOSE g \in {f} : g = g

CeilDiv(a, b) == (a + b - 1) \div b
Least(a, b) == IF a < b THEN a ELSE b
SumOver(S, f(_)) == SumFunctionOnSet([x \in S |-> f(x)], S)

(* The inclusive sums of v[0 .. n-1]: in each round lane l adds what lane  *)
(* l - d had before it, for d = 1, 2, 4, ... (warp_inclusive_sum, and      *)
(* block_scan_exclusive between its barriers).                             *)
InclusiveSums(v, n) ==
  LET round(s, k) ==
        IF 2^k >= n THEN s
        ELSE Tabulated([l \in 0 .. n - 1 |-> s[l] + IF l >= 2^k THEN s[l - 2^k] ELSE 0])
  IN  FoldLeft(round, Tabulated(v), [k \in 1 .. n |-> k - 1])
=============================================================================
