---------------------------- MODULE MCRequestSlots ----------------------------
(* RequestSlots for TLC.  Interchangeable requests may be permuted in runs  *)
(* that check safety only.                                                  *)
EXTENDS RequestSlots

Symmetry == Permutations(Requests)
==============================================================================
