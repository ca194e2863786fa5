----------------------------- MODULE MCStorage -----------------------------
(* One channel from its offer to its deletion, with one fault of each kind. *)
EXTENDS Storage
=============================================================================
