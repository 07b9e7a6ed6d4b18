----------------------------- MODULE MCBusiness -----------------------------
(* Names for the two workers. *)
EXTENDS BusinessProps
CONSTANTS w1, w2
=============================================================================
