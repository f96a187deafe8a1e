---------------------------- MODULE MCSlotStreams ----------------------------
(* Two frames through one slot, of two and three AC groups in two batches: *)
(* frames that make the slot's buffers grow or fit, whose chroma pitch     *)
(* needs a copy or not.                                                    *)
EXTENDS SlotStreams

MCImage == {[num_ac |-> 2, tokens |-> 4, aligned |-> TRUE],
            [num_ac |-> 3, tokens |-> 8, aligned |-> FALSE]}
=============================================================================
