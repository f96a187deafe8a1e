----------------------------- MODULE EntropyOps -----------------------------
(***************************************************************************)
(* The tokens of the hybrid unsigned integer coder.                        *)
(***************************************************************************)
EXTENDS KernelOps

CONSTANTS
  SplitExponent, MsbInToken   (* HybridUintConfig, whose lsb_in_token is 0 *)

ASSUME HybridAssumption ==
  SplitExponent \in Nat /\ 0 < MsbInToken /\ MsbInToken <= SplitExponent

PackSigned(v) == IF v >= 0 THEN 2 * v ELSE -2 * v - 1

FloorLog2(v) == CHOOSE n \in 0 .. 31 : 2^n <= v /\ v < 2^(n + 1)

(* The symbol of a value and the bits it leaves raw. *)
Hybrid(v) ==
  IF v < 2^SplitExponent THEN [symbol |-> v, nbits |-> 0, bits |-> 0]
  ELSE LET n == FloorLog2(v)
           m == v - 2^n
       IN  [symbol |-> 2^SplitExponent + (n - SplitExponent) * 2^MsbInToken + (m \div 2^(n - MsbInToken)),
            nbits  |-> n - MsbInToken,
            bits   |-> v % 2^(n - MsbInToken)]
=============================================================================
