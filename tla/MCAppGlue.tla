----------------------------- MODULE MCAppGlue -----------------------------
(* Small instances of AppGlue for TLC. *)
EXTENDS AppGlue

CONSTANTS w1, w2, q1, q2, d1, d2
=============================================================================
