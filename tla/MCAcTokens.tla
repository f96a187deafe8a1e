----------------------------- MODULE MCAcTokens -----------------------------
(* Instances of AcTokens for TLC. *)
EXTENDS AcTokens

MCContextMap(context) == context % 7

(* A frame of bw x bh blocks, of coefficients that are zero for `seed` of  *)
(* 7 slots or so. A transform of 4x4 covers four blocks if `mixed`.        *)
Frame(bw, bh, mixed, seed) ==
  [bw |-> bw, bh |-> bh,
   acs |-> [b \in 0 .. bw * bh - 1 |->
              IF ~mixed THEN 2 ELSE IF b = 0 THEN 4 ELSE IF b \in {1, bw, bw + 1} THEN 0 ELSE 2],
   ac |-> [c \in 0 .. 2 |-> [s \in 0 .. bw * bh * 4 - 1 |->
             LET h == (s * s * (c + 3) + 5 * s + seed * (s + c)) % 7
             IN  IF h < seed THEN 0 ELSE ((h * (s + 1)) % 11) - 5]]]

MCFrames == {Frame(3, 3, mixed, seed) : mixed \in BOOLEAN, seed \in {0, 3, 5, 6, 7}}
              \cup {Frame(5, 4, TRUE, seed) : seed \in {4, 6}} \cup {Frame(2, 2, TRUE, 5)}
=============================================================================
