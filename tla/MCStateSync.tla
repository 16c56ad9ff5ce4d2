---------------------------- MODULE MCStateSync ----------------------------
(* Two keys, enough for subscriptions that overlap, cover or miss a change. *)
EXTENDS StateSync

CONSTANTS k1, k2

KeySymmetry == Permutations(Keys)
=============================================================================
