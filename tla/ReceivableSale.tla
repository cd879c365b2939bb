---------------------------- MODULE ReceivableSale ----------------------------
(***************************************************************************)
(* What the desk promises for a receivable, without offers, bids, locks,   *)
(* registry or disputes: it is sold at most once, it is never on sale and  *)
(* pledged for financing at a time, and its owner changes in one step      *)
(* only, the settlement of a struck sale, to its purchaser.                *)
(***************************************************************************)
CONSTANTS Receivable, Party, None, creditorOf

VARIABLES
  stage,     \* "free", "pledged", "offered", "pending", "failed" or "sold"
  owner,
  purchaser  \* of the struck sale

sale == <<stage, owner, purchaser>>

Init ==
  /\ stage = [r \in Receivable |-> "free"]
  /\ owner = creditorOf
  /\ purchaser = [r \in Receivable |-> None]

Moves(r, from, to) == stage[r] \in from /\ stage' = [stage EXCEPT ![r] = to]

Pledge(r) == Moves(r, {"free"}, "pledged") /\ UNCHANGED <<owner, purchaser>>
Release(r) == Moves(r, {"pledged"}, "free") /\ UNCHANGED <<owner, purchaser>>
PutUp(r) == Moves(r, {"free"}, "offered") /\ UNCHANGED <<owner, purchaser>>
Withdraw(r) == Moves(r, {"offered"}, "free") /\ UNCHANGED <<owner, purchaser>>

(* A private sale is struck without having been on offer. *)
Strike(r, p) ==
  /\ Moves(r, {"free", "offered"}, "pending")
  /\ purchaser' = [purchaser EXCEPT ![r] = p]
  /\ UNCHANGED owner

Fail(r) == Moves(r, {"pending"}, "failed") /\ UNCHANGED <<owner, purchaser>>

Settle(r) ==
  /\ Moves(r, {"pending"}, "sold")
  /\ owner' = [owner EXCEPT ![r] = purchaser[r]]
  /\ UNCHANGED purchaser

Next ==
  \E r \in Receivable :
    \/ Pledge(r) \/ Release(r) \/ PutUp(r) \/ Withdraw(r)
    \/ \E p \in Party : Strike(r, p)
    \/ Fail(r) \/ Settle(r)

Spec == Init /\ [][Next]_sale
=============================================================================
