---------------------------- MODULE TradeLedger ----------------------------
(***************************************************************************)
(* What the coordinator's tables promise about a protocol, whatever happens *)
(* to messages, tasks and connections: its outcome is decided once, its     *)
(* trade is recorded with the success and with nothing else, and an offer   *)
(* whose rejection was processed never becomes a trade.                     *)
(*                                                                         *)
(* A failure is not the end: the answer to an offer can arrive after the    *)
(* protocol was taken for failed, and the channel is then set up.           *)
(***************************************************************************)
EXTENDS Naturals

CONSTANTS Protocols   \* identifiers of protocols

VARIABLES
    outcome,    \* the outcome recorded for each protocol
    trades,     \* number of trades recorded for each protocol
    rejected    \* protocols whose offer the trader has turned down

ledger == <<outcome, trades, rejected>>

Init ==
    /\ outcome = [p \in Protocols |-> "None"]
    /\ trades = [p \in Protocols |-> 0]
    /\ rejected = {}

Start(p) ==
    /\ outcome[p] = "None"
    /\ outcome' = [outcome EXCEPT ![p] = "Pending"]
    /\ UNCHANGED <<trades, rejected>>

Fail(p) ==
    /\ outcome[p] = "Pending"
    /\ outcome' = [outcome EXCEPT ![p] = "Failed"]
    /\ UNCHANGED <<trades, rejected>>

\* An offer that was never recorded as a protocol can be turned down as well.
Reject(p) ==
    /\ outcome[p] # "Success"
    /\ rejected' = rejected \union {p}
    /\ outcome' \in {outcome, [outcome EXCEPT ![p] = IF @ = "None" THEN @ ELSE "Failed"]}
    /\ UNCHANGED trades

\* Rollovers succeed without a trade.
Succeed(p) ==
    /\ outcome[p] \in {"Pending", "Failed"}
    /\ p \notin rejected
    /\ outcome' = [outcome EXCEPT ![p] = "Success"]
    /\ \E n \in {0, 1} : trades' = [trades EXCEPT ![p] = @ + n]
    /\ UNCHANGED rejected

Next == \E p \in Protocols : Start(p) \/ Fail(p) \/ Reject(p) \/ Succeed(p)

Spec == Init /\ [][Next]_ledger
=============================================================================
