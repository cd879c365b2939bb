------------------------ MODULE ReceivableTransitions ------------------------
(***************************************************************************)
(* The status tables of packages/shared/src/receivable-transitions.ts.     *)
(* assertTransition(map, from, to) throws unless `to` is listed under      *)
(* `from`; a handler that throws writes nothing, so in the specifications  *)
(* an asserted transition is the guard `to \in ...Next(from)`.             *)
(***************************************************************************)

ReceivableStatus ==
  {"UNVERIFIED", "VERIFIED", "ACCEPTED", "PARTIALLY_DISPUTED", "DISPUTED",
   "OFFERED", "TRADE_LOCKED", "FINANCED", "TRANSFERRED", "PARTIALLY_PAID",
   "PAID", "DEFAULTED", "CLOSED"}

OfferStatus == {"DRAFT", "LIVE", "WITHDRAWN", "TRADED", "EXPIRED"}

TradeStatus ==
  {"CREATED", "INSTRUCTION_ISSUED", "SETTLEMENT_PENDING",
   "SETTLEMENT_CONFIRMED", "ASSIGNMENT_EFFECTIVE", "COMPLETED",
   "SETTLEMENT_FAILED", "DISPUTED_SETTLEMENT", "CANCELLED"}

SettlementStatus ==
  {"ISSUED", "SEEN", "CONFIRMED", "PARTIAL", "FAILED", "EXPIRED", "MISMATCH"}

ReceivableNext(from) ==
  CASE from = "UNVERIFIED" -> {"VERIFIED", "DISPUTED", "CLOSED"}
    [] from = "VERIFIED" ->
         {"ACCEPTED", "PARTIALLY_DISPUTED", "DISPUTED", "CLOSED"}
    [] from = "ACCEPTED" ->
         {"OFFERED", "PARTIALLY_DISPUTED", "DISPUTED", "PARTIALLY_PAID",
          "PAID", "CLOSED"}
    [] from = "PARTIALLY_DISPUTED" -> {"ACCEPTED", "DISPUTED", "CLOSED"}
    [] from = "DISPUTED" -> {"ACCEPTED", "PARTIALLY_DISPUTED", "CLOSED"}
    [] from = "OFFERED" ->
         {"ACCEPTED", "TRADE_LOCKED", "PARTIALLY_DISPUTED", "DISPUTED",
          "CLOSED"}
    [] from = "TRADE_LOCKED" ->
         {"TRANSFERRED", "FINANCED", "OFFERED", "ACCEPTED", "DISPUTED",
          "CLOSED"}
    [] from = "FINANCED" ->
         {"TRANSFERRED", "PARTIALLY_PAID", "PAID", "DEFAULTED", "DISPUTED",
          "CLOSED"}
    [] from = "TRANSFERRED" ->
         {"PARTIALLY_PAID", "PAID", "DEFAULTED", "DISPUTED", "CLOSED"}
    [] from = "PARTIALLY_PAID" -> {"PAID", "DEFAULTED", "DISPUTED", "CLOSED"}
    [] from \in {"PAID", "DEFAULTED"} -> {"CLOSED"}
    [] OTHER -> {}

OfferNext(from) ==
  CASE from = "DRAFT" -> {"LIVE", "WITHDRAWN"}
    [] from = "LIVE" -> {"WITHDRAWN", "TRADED", "EXPIRED"}
    [] OTHER -> {}

TradeNext(from) ==
  CASE from = "CREATED" -> {"INSTRUCTION_ISSUED", "CANCELLED"}
    [] from = "INSTRUCTION_ISSUED" ->
         {"SETTLEMENT_PENDING", "SETTLEMENT_FAILED", "CANCELLED"}
    [] from = "SETTLEMENT_PENDING" ->
         {"SETTLEMENT_CONFIRMED", "SETTLEMENT_FAILED", "DISPUTED_SETTLEMENT",
          "CANCELLED"}
    [] from = "SETTLEMENT_CONFIRMED" -> {"ASSIGNMENT_EFFECTIVE"}
    [] from = "ASSIGNMENT_EFFECTIVE" -> {"COMPLETED"}
    [] from \in {"SETTLEMENT_FAILED", "DISPUTED_SETTLEMENT"} ->
         {"INSTRUCTION_ISSUED", "CANCELLED"}
    [] OTHER -> {}

SettlementNext(from) ==
  CASE from = "ISSUED" ->
         {"SEEN", "CONFIRMED", "PARTIAL", "FAILED", "EXPIRED", "MISMATCH"}
    [] from = "SEEN" ->
         {"CONFIRMED", "PARTIAL", "FAILED", "EXPIRED", "MISMATCH"}
    [] from = "PARTIAL" -> {"CONFIRMED", "FAILED", "EXPIRED"}
    [] OTHER -> {}

-----------------------------------------------------------------------------

(* A receivable is offered "clean": accepted, nothing disputed. *)
canOfferClean(status, disputedAmount) ==
  status = "ACCEPTED" /\ disputedAmount = 0

(* No second offer beside a LIVE one, nor on a locked receivable. *)
canCreateSecondLiveOffer(hasLiveOffer, lockState) ==
  ~hasLiveOffer /\ lockState \notin {"OFFER_LOCK", "TRADE_LOCK", "ASSIGNED"}
=============================================================================
