---------------------------- MODULE MCTransport ----------------------------
(* A segmented message of either node; the coordinator has a second, short one. *)
EXTENDS Transport

MCScript ==
    [coordinator |-> <<[kind |-> "RenewOffer", segments |-> 3],
                       [kind |-> "RolloverRevoke", segments |-> 1]>>,
     app |-> <<[kind |-> "RenewAccept", segments |-> 2]>>]
=============================================================================
