---------------------------- MODULE ReceivableDesk ----------------------------
(***************************************************************************)
(* The trading desk of one tenant: the life of a receivable from its       *)
(* recording through offer, bid, trade, payment and dispute, as            *)
(* apps/api/src/modules/sponsum/service.ts runs it.                        *)
(*                                                                         *)
(* Every request handler works on `snapshot()`, a deep copy of the one     *)
(* JSON document, and writes it back with `replace()`; one that throws     *)
(* before writes nothing.  A synchronous handler runs in one turn of the   *)
(* Node.js event loop, so each handler is one action whose guards are the  *)
(* conditions under which it does not throw.  Handlers that write more     *)
(* than once are one action too; what a crash between two of their writes  *)
(* leaves behind is said at each of them.                                  *)
(*                                                                         *)
(* Ids (randomUUID) are elements of constant sets: an id is fresh while    *)
(* its row is ABSENT.  A registry row carries no offer id, so the rows of  *)
(* a receivable are only counted.                                          *)
(***************************************************************************)
EXTENDS Naturals, ReceivableTransitions

CONSTANTS
  Receivable,   \* receivable_id of the receivables that may be recorded
  Linked,       \* those with an ERPNext Sales Invoice (asset.sales_invoice)
  Offer, Bid, Trade,        \* ids; an instruction is named by its trade
  Event,        \* provider_event_id of the payment provider's reports
  Party,        \* creditors, sellers and buyers
  creditorOf,   \* creditor_party_id of each receivable
  QuoteBuyer,   \* the buyers requestLiquidity always quotes
  User, Admin,  \* signed-in persons; tenant administrators
  Nominal,      \* nominal_amount; amounts are 0..Nominal
  Price,        \* the amounts sellers, buyers and payment reports name
  None          \* null

ASSUME DeskAssumption ==
  /\ Linked \subseteq Receivable
  /\ creditorOf \in [Receivable -> Party]
  /\ QuoteBuyer \subseteq Party
  /\ Admin \subseteq User
  /\ Nominal \in Nat \ {0}
  /\ Price \subseteq 0..Nominal
  /\ None \notin Party \cup User \cup Receivable \cup Offer \cup Bid \cup Trade

VARIABLES
  assets,        \* receivables: status, disputed_amount, holder, instrument
  locks,         \* the lock row of each receivable
  registry,      \* assignment registry: RESERVED and ACTIVE rows, transferee
  offers, bids, trades, instructions, observations,
  assignments,   \* the written assignment contract of a trade, if any
  dispute_workbenches,  \* lifecycle of the dispute file of each receivable
  verifications, \* receivables with a verification record that reached 50
                 \* points, without dispute and unpaid
  capital_needs, \* receivables linked to a CONFIRMED capital need
  kyc,           \* parties whose KYC is PASSED
  late           \* receivables whose maturity_date has passed

vars == <<assets, locks, registry, offers, bids, trades, instructions,
          observations, assignments, dispute_workbenches, verifications,
          capital_needs, kyc, late>>

Amount == 0..Nominal

\* Verification scores: below 40, 40 to 49, 50 and more points.
Band == {"low", "mid", "high"}

LockState == {"UNLOCKED", "OFFER_LOCK", "TRADE_LOCK", "ASSIGNED"}
Lifecycle == {"open", "closed", "archived"}

\* A payment report is the provider's (event id) or the manual one of an
\* instruction (provider "manual-bank-statement", event "manual-<id>").
ReportId == [source : {"psp"}, id : Event] \cup [source : {"manual"}, id : Trade]

AssetRow ==
  [status : ReceivableStatus \cup {"ABSENT"}, disputed : Amount, holder : Party,
   instrument : {"ORDINARY", "PURCHASED_RECEIVABLE", "ASSIGNED_RECEIVABLE"}]
LockRow ==
  [state : LockState, offer : Offer \cup {None}, trade : Trade \cup {None}]
RegistryRow == [reserved : Nat, active : Nat, transferee : Party \cup {None}]
OfferRow ==
  [status : OfferStatus \cup {"ABSENT"}, receivable : Receivable \cup {None},
   seller : Party \cup {None}, min : Amount]
BidRow ==
  [status : {"ABSENT", "OPEN", "COUNTERED", "ACCEPTED", "LAPSED"},
   offer : Offer \cup {None}, buyer : Party \cup {None}, amount : Amount]
TradeRow ==
  [status : TradeStatus \cup {"ABSENT"}, receivable : Receivable \cup {None},
   offer : Offer \cup {None}, bid : Bid \cup {None},
   buyer : Party \cup {None}, price : Amount]
InstructionRow ==
  [status : SettlementStatus \cup {"ABSENT"}, amount : Amount,
   issued_by : User \cup {None}]
Observation ==
  [report : ReportId, instruction : Trade, amount : Amount,
   sameCurrency : BOOLEAN]

(* Every variable has the shape of the collection it stands for. *)
TypeOK ==
  /\ assets \in [Receivable -> AssetRow]
  /\ locks \in [Receivable -> LockRow]
  /\ registry \in [Receivable -> RegistryRow]
  /\ offers \in [Offer -> OfferRow]
  /\ bids \in [Bid -> BidRow]
  /\ trades \in [Trade -> TradeRow]
  /\ instructions \in [Trade -> InstructionRow]
  /\ observations \subseteq Observation
  /\ assignments \in [Trade -> {"ABSENT", "INSTRUCTION_ISSUED", "EFFECTIVE"}]
  /\ dispute_workbenches \in [Receivable -> Lifecycle \cup {"ABSENT"}]
  /\ verifications \subseteq Receivable
  /\ capital_needs \subseteq Receivable
  /\ kyc \subseteq Party
  /\ late \subseteq Receivable

NoOffer == [status |-> "ABSENT", receivable |-> None, seller |-> None, min |-> 0]
NoBid == [status |-> "ABSENT", offer |-> None, buyer |-> None, amount |-> 0]
NoTrade == [status |-> "ABSENT", receivable |-> None, offer |-> None,
            bid |-> None, buyer |-> None, price |-> 0]
NoInstruction == [status |-> "ABSENT", amount |-> 0, issued_by |-> None]

Init ==
  /\ assets = [r \in Receivable |->
                 [status |-> "ABSENT", disputed |-> 0, holder |-> creditorOf[r],
                  instrument |-> "ORDINARY"]]
  /\ locks = [r \in Receivable |->
                 [state |-> "UNLOCKED", offer |-> None, trade |-> None]]
  /\ registry = [r \in Receivable |->
                 [reserved |-> 0, active |-> 0, transferee |-> None]]
  /\ offers = [o \in Offer |-> NoOffer]
  /\ bids = [b \in Bid |-> NoBid]
  /\ trades = [t \in Trade |-> NoTrade]
  /\ instructions = [t \in Trade |-> NoInstruction]
  /\ observations = {}
  /\ assignments = [t \in Trade |-> "ABSENT"]
  /\ dispute_workbenches = [r \in Receivable |-> "ABSENT"]
  /\ verifications = {}
  /\ capital_needs = {}
  /\ kyc = {}
  /\ late = {}

-----------------------------------------------------------------------------
(* What the handlers look up. *)

Recorded(r) == assets[r].status # "ABSENT"
LiveOffers(r) ==
  {o \in Offer : offers[o].receivable = r /\ offers[o].status = "LIVE"}
TradesOf(r) == {t \in Trade : trades[t].receivable = r}
Disputed(r) == assets[r].status \in {"DISPUTED", "PARTIALLY_DISPUTED"}

(* overdueDays(asset) > 0 *)
Overdue(r) ==
  r \in late /\ assets[r].status \notin {"PAID", "CLOSED", "TRANSFERRED", "FINANCED"}

\* Mutant: the reservation by a capital need is forgotten.
assertNotFinanced_StatusOnly(r) == assets[r].status # "FINANCED"

assertNotFinanced(r) == assets[r].status # "FINANCED" /\ r \notin capital_needs

assertNotForSale(r) ==
  /\ assets[r].status \notin {"OFFERED", "TRADE_LOCKED", "TRANSFERRED", "FINANCED"}
  /\ assets[r].holder = creditorOf[r]
  /\ locks[r].state = "UNLOCKED"
  /\ LiveOffers(r) = {}
  /\ registry[r].active = 0
  /\ \A t \in TradesOf(r) : trades[t].status \in {"CANCELLED", "SETTLEMENT_FAILED"}
  /\ r \notin capital_needs

(* withCheckedInvoice + checkedInvoice: a linked invoice is read live from  *)
(* ERPNext first (the step is refused unless it is open), and its due date *)
(* replaces maturity_date, after the handler has tested for overdue.       *)
checkedInvoice(r) ==
  late' \in (IF r \in Linked THEN {late \cup {r}, late \ {r}} ELSE {late})

(* Where listDisputes finds a dispute file for the receivable. *)
HasDossier(r) ==
  \/ Disputed(r)
  \/ assets[r].disputed > 0
  \/ dispute_workbenches[r] # "ABSENT"

\* A missing workbench reads as the default one, which is open.
benchLifecycle(r) ==
  IF dispute_workbenches[r] = "ABSENT" THEN "open" ELSE dispute_workbenches[r]

-----------------------------------------------------------------------------
(* Recording and verification. *)

(* Evidence at recording: a manual receivable proves nothing (below 40), a *)
(* booked ERPNext invoice reaches 40 to 49 unless an earlier assignment or *)
(* a dispute is declared, a Wechsel draft asserts enough for 50.           *)
InitialBand(r) == IF r \in Linked THEN {"low", "mid"} ELSE {"low", "high"}

InitialStatus(band, hasDispute, disputed) ==
  CASE hasDispute /\ disputed > 0 -> "PARTIALLY_DISPUTED"
    [] hasDispute /\ disputed = 0 -> "DISPUTED"
    [] ~hasDispute /\ band = "low" -> "UNVERIFIED"
    [] ~hasDispute /\ band = "mid" -> "VERIFIED"
    [] ~hasDispute /\ band = "high" -> "ACCEPTED"

createReceivable(r, band, hasDispute, disputed, u) ==
  /\ ~Recorded(r)
  /\ band \in InitialBand(r)
  /\ hasDispute => band = "low"
  /\ band = "high" => disputed = 0
  /\ assets' = [assets EXCEPT
       ![r].status = InitialStatus(band, hasDispute, disputed),
       ![r].disputed = disputed]
  /\ verifications' = IF band = "high" THEN verifications \cup {r}
                      ELSE verifications
  /\ kyc' = IF u \in Admin THEN kyc \cup {creditorOf[r]} ELSE kyc
  /\ UNCHANGED <<locks, registry, offers, bids, trades, instructions,
                 observations, assignments, dispute_workbenches,
                 capital_needs, late>>

\* Mutant: a lower score takes a status back.
VerifiedStatus_Downgrades(row, band, hasDispute, unpaid) ==
  CASE hasDispute -> IF row.disputed > 0 THEN "PARTIALLY_DISPUTED" ELSE "DISPUTED"
    [] ~hasDispute /\ band = "low" -> "UNVERIFIED"
    [] ~hasDispute /\ band = "mid" -> "VERIFIED"
    [] ~hasDispute /\ band = "high" -> "ACCEPTED"

(* The status verify() moves to: a dispute wins, else 40 points make an    *)
(* UNVERIFIED receivable VERIFIED and 50 a VERIFIED unpaid one ACCEPTED.   *)
VerifiedStatus(row, band, hasDispute, unpaid) ==
  IF hasDispute
  THEN IF row.disputed > 0 THEN "PARTIALLY_DISPUTED" ELSE "DISPUTED"
  ELSE LET reached == IF row.status = "UNVERIFIED" /\ band # "low"
                      THEN "VERIFIED" ELSE row.status
       IN  IF reached = "VERIFIED" /\ band = "high" /\ unpaid
           THEN "ACCEPTED" ELSE reached

(* Offers and locks are left as they are, also when the receivable becomes *)
(* disputed here.                                                          *)
verify(r, band, hasDispute, unpaid) ==
  LET next == VerifiedStatus(assets[r], band, hasDispute, unpaid) IN
  /\ Recorded(r)
  /\ hasDispute /\ next # assets[r].status
       => next \in ReceivableNext(assets[r].status)
  /\ assets' = [assets EXCEPT ![r].status = next]
  /\ verifications' = IF band = "high" /\ ~hasDispute /\ unpaid
                      THEN verifications \cup {r} ELSE verifications
  /\ UNCHANGED <<locks, registry, offers, bids, trades, instructions,
                 observations, assignments, dispute_workbenches,
                 capital_needs, kyc, late>>

setKyc(p, passed) ==
  /\ kyc' = IF passed THEN kyc \cup {p} ELSE kyc \ {p}
  /\ UNCHANGED <<assets, locks, registry, offers, bids, trades, instructions,
                 observations, assignments, dispute_workbenches,
                 verifications, capital_needs, late>>

(* The calendar (sponsumToday) passes maturity_date. *)
MaturityPasses(r) ==
  /\ Recorded(r)
  /\ late' = late \cup {r}
  /\ UNCHANGED <<assets, locks, registry, offers, bids, trades, instructions,
                 observations, assignments, dispute_workbenches,
                 verifications, capital_needs, kyc>>

-----------------------------------------------------------------------------
(* Disputes. *)

DisputeStatus(amount) ==
  IF 0 < amount /\ amount < Nominal THEN "PARTIALLY_DISPUTED" ELSE "DISPUTED"

\* Mutants: the lock of the withdrawn offer stays; a trade's lock goes too.
LocksAfterDispute_Kept(r) == locks
LocksAfterDispute_Traded(r) ==
  IF locks[r].state # "ASSIGNED" THEN [locks EXCEPT ![r].state = "UNLOCKED"]
  ELSE locks

LocksAfterDispute(r) ==
  IF locks[r].state = "OFFER_LOCK"
  THEN [locks EXCEPT ![r].state = "UNLOCKED", ![r].offer = None]
  ELSE locks

(* LIVE offers are withdrawn and an OFFER_LOCK is released; a TRADE_LOCK,  *)
(* the RESERVED registry rows and the bids stay.                           *)
openDispute(r, amount) ==
  LET next == DisputeStatus(amount) IN
  /\ Recorded(r)
  /\ assets[r].status = next \/ next \in ReceivableNext(assets[r].status)
  /\ assets' = [assets EXCEPT ![r].status = next, ![r].disputed = amount]
  /\ offers' = [o \in Offer |->
       IF o \in LiveOffers(r) THEN [offers[o] EXCEPT !.status = "WITHDRAWN"]
       ELSE offers[o]]
  /\ locks' = LocksAfterDispute(r)
  /\ dispute_workbenches' = [dispute_workbenches EXCEPT ![r] = "open"]
  /\ UNCHANGED <<registry, bids, trades, instructions, observations,
                 assignments, verifications, capital_needs, kyc, late>>

createDispute(r, amount) ==
  /\ amount > 0
  /\ ~(benchLifecycle(r) = "open" /\ Disputed(r))
  /\ openDispute(r, amount)

(* Its first write only stores the workbench as it was; the amount is the  *)
(* one given or the stored one.                                            *)
reopenDispute(r, amount) ==
  /\ HasDossier(r)
  /\ benchLifecycle(r) # "open"
  /\ assets[r].status \notin {"CLOSED", "PAID"}
  /\ openDispute(r, amount)

(* applyDisputeAssetAction: the asset row after the chosen consequence,    *)
(* and whether its transition is allowed.                                  *)
AssetActionAllowed(row, action) ==
  CASE action = "keep" -> TRUE
    [] action = "restore" ->
         \/ row.status \in {"ACCEPTED", "CLOSED", "PAID"}
         \/ "ACCEPTED" \in ReceivableNext(row.status)
    [] action = "close_asset" ->
         row.status = "CLOSED" \/ "CLOSED" \in ReceivableNext(row.status)

AssetAfter(row, action) ==
  CASE action = "keep" -> row
    [] action = "restore" ->
         [row EXCEPT !.disputed = 0,
            !.status = IF @ \in {"CLOSED", "PAID"} THEN @ ELSE "ACCEPTED"]
    [] action = "close_asset" -> [row EXCEPT !.status = "CLOSED"]

(* Allowed whenever there is a dispute file that is not archived, also on  *)
(* one already closed; offers, locks and trades are left as they are.      *)
closeDispute(r, action) ==
  /\ HasDossier(r)
  /\ Recorded(r)
  /\ benchLifecycle(r) # "archived"
  /\ AssetActionAllowed(assets[r], action)
  /\ assets' = [assets EXCEPT ![r] = AssetAfter(assets[r], action)]
  /\ dispute_workbenches' = [dispute_workbenches EXCEPT ![r] = "closed"]
  /\ UNCHANGED <<locks, registry, offers, bids, trades, instructions,
                 observations, assignments, verifications, capital_needs,
                 kyc, late>>

archiveDispute(r) ==
  /\ benchLifecycle(r) = "closed"
  /\ dispute_workbenches' = [dispute_workbenches EXCEPT ![r] = "archived"]
  /\ UNCHANGED <<assets, locks, registry, offers, bids, trades, instructions,
                 observations, assignments, verifications, capital_needs,
                 kyc, late>>

(* updateDisputeTrack and linkDispute: a dossier without stored workbench   *)
(* gets the default one, otherwise only texts and stages change.           *)
updateDisputeTrack(r) ==
  /\ HasDossier(r)
  /\ Recorded(r)
  /\ dispute_workbenches' = [dispute_workbenches EXCEPT ![r] = benchLifecycle(r)]
  /\ UNCHANGED <<assets, locks, registry, offers, bids, trades, instructions,
                 observations, assignments, verifications, capital_needs,
                 kyc, late>>

-----------------------------------------------------------------------------
(* Offer, bid, trade. *)

\* Mutant: createOffer tests for another LIVE offer, not for the lock.
MayOffer_LockForgotten(r, p) ==
  /\ Recorded(r)
  /\ ~Overdue(r)
  /\ p = assets[r].holder
  /\ assertNotFinanced(r)
  /\ LiveOffers(r) = {}
  /\ ~Disputed(r)
  /\ canOfferClean(assets[r].status, assets[r].disputed)
  /\ registry[r].active = 0
  /\ "OFFERED" \in ReceivableNext(assets[r].status)

(* createOffer's guards, but for the seller's KYC. *)
MayOffer(r, p) ==
  /\ Recorded(r)
  /\ ~Overdue(r)
  /\ p = assets[r].holder
  /\ assertNotFinanced(r)
  /\ canCreateSecondLiveOffer(LiveOffers(r) # {}, locks[r].state)
  /\ ~Disputed(r)
  /\ canOfferClean(assets[r].status, assets[r].disputed)
  /\ registry[r].active = 0
  /\ "OFFERED" \in ReceivableNext(assets[r].status)

(* The writes of createOffer for a fresh offer id. *)
OfferMade(r, o, p, min) ==
  /\ p \in kyc
  /\ MayOffer(r, p)
  /\ offers[o].status = "ABSENT"
  /\ checkedInvoice(r)
  /\ assets' = [assets EXCEPT ![r].status = "OFFERED"]
  /\ offers' = [offers EXCEPT ![o] =
       [status |-> "LIVE", receivable |-> r, seller |-> p, min |-> min]]
  /\ locks' = [locks EXCEPT ![r].state = "OFFER_LOCK", ![r].offer = o]
  /\ registry' = [registry EXCEPT ![r].reserved = @ + 1]
  /\ UNCHANGED <<bids, trades, instructions, observations, assignments,
                 dispute_workbenches, verifications, capital_needs>>

createOffer(r, o, p, min) == OfferMade(r, o, p, min) /\ UNCHANGED kyc

(* An RFQ offer without minimum price, then a second write that passes the *)
(* KYC of the quoted buyers; a crash before it is createOffer.             *)
requestLiquidity(r, o, p) == OfferMade(r, o, p, 0) /\ kyc' = kyc \cup QuoteBuyer

NewBid(o, p, amount) ==
  [status |-> "OPEN", offer |-> o, buyer |-> p, amount |-> amount]

MayBid(o, p, amount) ==
  /\ p \in kyc
  /\ offers[o].status = "LIVE"
  /\ ~Overdue(offers[o].receivable)
  /\ amount >= offers[o].min

createBid(b, o, p, amount) ==
  /\ bids[b].status = "ABSENT"
  /\ MayBid(o, p, amount)
  /\ bids' = [bids EXCEPT ![b] = NewBid(o, p, amount)]
  /\ UNCHANGED <<assets, locks, registry, offers, trades, instructions,
                 observations, assignments, dispute_workbenches,
                 verifications, capital_needs, kyc, late>>

counterOffer(b, amount) ==
  /\ bids[b].status = "OPEN"
  /\ bids' = [bids EXCEPT ![b].amount = amount, ![b].status = "COUNTERED"]
  /\ UNCHANGED <<assets, locks, registry, offers, trades, instructions,
                 observations, assignments, dispute_workbenches,
                 verifications, capital_needs, kyc, late>>

\* Mutant: the receivable's own transition is not tested.
MayAccept_StatusForgotten(o) ==
  LET r == offers[o].receivable IN
  /\ offers[o].status = "LIVE"
  /\ ~Overdue(r)
  /\ assertNotFinanced(r)

(* acceptBid's guards on the offer and its receivable, when its seller asks. *)
MayAccept(o) ==
  LET r == offers[o].receivable IN
  /\ offers[o].status = "LIVE"
  /\ ~Overdue(r)
  /\ assertNotFinanced(r)
  /\ "TRADE_LOCKED" \in ReceivableNext(assets[r].status)
  /\ "TRADED" \in OfferNext(offers[o].status)

\* Mutant: the trade is stored without its instruction.
TradeStruck_NoInstruction(t, r, o, b, bid, u) ==
  /\ trades[t].status = "ABSENT"
  /\ trades' = [trades EXCEPT ![t] =
       [status |-> "SETTLEMENT_PENDING", receivable |-> r, offer |-> o,
        bid |-> b, buyer |-> bid.buyer, price |-> bid.amount]]
  /\ assets' = [assets EXCEPT ![r].status = "TRADE_LOCKED"]
  /\ UNCHANGED instructions

(* The trade and its instruction struck by user u for bid b (row bid). *)
TradeStruck(t, r, o, b, bid, u) ==
  /\ trades[t].status = "ABSENT"
  /\ trades' = [trades EXCEPT ![t] =
       [status |-> "SETTLEMENT_PENDING", receivable |-> r, offer |-> o,
        bid |-> b, buyer |-> bid.buyer, price |-> bid.amount]]
  /\ instructions' = [instructions EXCEPT ![t] =
       [status |-> "ISSUED", amount |-> bid.amount, issued_by |-> u]]
  /\ assets' = [assets EXCEPT ![r].status = "TRADE_LOCKED"]

\* Mutant: the losing bids stay OPEN.
BidsAfter_LosersOpen(b, bid) ==
  [x \in Bid |-> IF x = b THEN [bid EXCEPT !.status = "ACCEPTED"] ELSE bids[x]]

\* The accepted bid; the other OPEN bids on its offer lapse.
BidsAfter(b, bid) ==
  [x \in Bid |->
     IF x = b THEN [bid EXCEPT !.status = "ACCEPTED"]
     ELSE IF bids[x].offer = bid.offer /\ bids[x].status = "OPEN"
     THEN [bids[x] EXCEPT !.status = "LAPSED"] ELSE bids[x]]

(* The writes of acceptBid for the bid row `bid` of id b, by user u.        *)
BidAccepted(b, bid, t, u) ==
  LET r == offers[bid.offer].receivable IN
  /\ MayAccept(bid.offer)
  /\ checkedInvoice(r)
  /\ TradeStruck(t, r, bid.offer, b, bid, u)
  /\ bids' = BidsAfter(b, bid)
  /\ offers' = [offers EXCEPT ![bid.offer].status = "TRADED"]
  /\ locks' = [locks EXCEPT ![r].state = "TRADE_LOCK", ![r].trade = t]
  /\ UNCHANGED <<registry, observations, assignments, dispute_workbenches,
                 verifications, capital_needs>>

acceptBid(b, t, u) ==
  /\ bids[b].status \in {"OPEN", "COUNTERED"}
  /\ BidAccepted(b, bids[b], t, u)
  /\ UNCHANGED kyc

(* Three writes in a row: the buyer's KYC, createBid on the LIVE offer,    *)
(* acceptBid.  A failure in between leaves what setKyc and createBid leave.*)
acceptLiquidityQuote(o, b, t, p, amount, u) ==
  /\ bids[b].status = "ABSENT"
  /\ offers[o].status = "LIVE"
  /\ amount >= offers[o].min
  /\ BidAccepted(b, NewBid(o, p, amount), t, u)
  /\ kyc' = kyc \cup {p}

(* Five writes in a row: the buyer's KYC, createOffer at the price as the  *)
(* minimum, createBid (which tests for overdue again, after the invoice    *)
(* has set the due date), acceptBid, the contract.  A failure in between   *)
(* leaves what those handlers leave, at the last a trade without contract. *)
createAssignment(r, o, b, t, s, p, amount, u) ==
  LET bid == NewBid(o, p, amount) IN
  /\ s \in kyc \cup {p}
  /\ MayOffer(r, s)
  /\ offers[o].status = "ABSENT"
  /\ bids[b].status = "ABSENT"
  /\ checkedInvoice(r)
  /\ r \notin late'
  /\ TradeStruck(t, r, o, b, bid, u)
  /\ offers' = [offers EXCEPT ![o] =
       [status |-> "TRADED", receivable |-> r, seller |-> s, min |-> amount]]
  /\ bids' = [bids EXCEPT ![b] = [bid EXCEPT !.status = "ACCEPTED"]]
  /\ locks' = [locks EXCEPT
       ![r] = [state |-> "TRADE_LOCK", offer |-> o, trade |-> t]]
  /\ registry' = [registry EXCEPT ![r].reserved = @ + 1]
  /\ assignments' = [assignments EXCEPT ![t] = "INSTRUCTION_ISSUED"]
  /\ kyc' = kyc \cup {p}
  /\ UNCHANGED <<observations, dispute_workbenches, verifications,
                 capital_needs>>

-----------------------------------------------------------------------------
(* Payment. *)

\* A report already stored is answered from the store.
Replayed(report) == \E obs \in observations : obs.report = report

Exact(obs) == obs.sameCurrency /\ obs.amount = instructions[obs.instruction].amount

\* Mutants: parking without looking at the instruction's status, with the
\* instruction's vocabulary for the trade, and of the instruction alone.
PaymentDiffers_Unguarded(t) ==
  /\ instructions' = [instructions EXCEPT ![t].status = "MISMATCH"]
  /\ trades' = [trades EXCEPT ![t].status = "DISPUTED_SETTLEMENT"]
  /\ UNCHANGED <<assets, locks, registry>>
PaymentDiffers_WrongWord(t) ==
  /\ "MISMATCH" \in SettlementNext(instructions[t].status)
  /\ instructions' = [instructions EXCEPT ![t].status = "MISMATCH"]
  /\ trades' = [trades EXCEPT ![t].status = "MISMATCH"]
  /\ UNCHANGED <<assets, locks, registry>>
PaymentDiffers_TradeForgotten(t) ==
  /\ "MISMATCH" \in SettlementNext(instructions[t].status)
  /\ instructions' = [instructions EXCEPT ![t].status = "MISMATCH"]
  /\ UNCHANGED <<assets, locks, registry, trades>>

(* Amount or currency differ: the trade is parked, nothing moves.          *)
PaymentDiffers(t) ==
  /\ "MISMATCH" \in SettlementNext(instructions[t].status)
  /\ instructions' = [instructions EXCEPT ![t].status = "MISMATCH"]
  /\ trades' = [trades EXCEPT ![t].status = "DISPUTED_SETTLEMENT"]
  /\ UNCHANGED <<assets, locks, registry>>

\* Mutant: the instrument follows the contract's later state.
InstrumentAfter_Effective(t) ==
  IF assignments[t] = "EFFECTIVE" THEN "ASSIGNED_RECEIVABLE" ELSE "PURCHASED_RECEIVABLE"

\* A trade with a written contract is an assignment, one without a purchase.
InstrumentAfter(t) ==
  IF assignments[t] # "ABSENT" THEN "ASSIGNED_RECEIVABLE" ELSE "PURCHASED_RECEIVABLE"

\* Mutant: every RESERVED row of the receivable becomes ACTIVE.
RegistryAfter_AllReserved(r, p) ==
  [registry EXCEPT ![r].reserved = 0, ![r].active = @ + registry[r].reserved,
                   ![r].transferee = p]

\* The first RESERVED row becomes the ACTIVE one of transferee p.
RegistryAfter(r, p) ==
  IF registry[r].reserved = 0 THEN registry
  ELSE [registry EXCEPT ![r].reserved = @ - 1, ![r].active = @ + 1,
                        ![r].transferee = p]

(* The trade runs through to COMPLETED and the receivable changes hands.   *)
(* If it may not move to TRANSFERRED the handler throws at the end and the *)
(* report is not stored either.                                            *)
PaymentMatches(t) ==
  LET r == trades[t].receivable
      buyer == trades[t].buyer
  IN
  /\ "CONFIRMED" \in SettlementNext(instructions[t].status)
  /\ "SETTLEMENT_CONFIRMED" \in TradeNext(trades[t].status)
  /\ "TRANSFERRED" \in ReceivableNext(assets[r].status)
  /\ instructions' = [instructions EXCEPT ![t].status = "CONFIRMED"]
  /\ trades' = [trades EXCEPT ![t].status = "COMPLETED"]
  /\ assets' = [assets EXCEPT
       ![r].status = "TRANSFERRED", ![r].holder = buyer,
       ![r].instrument = InstrumentAfter(t)]
  /\ locks' = [locks EXCEPT ![r].state = "ASSIGNED"]
  /\ registry' = RegistryAfter(r, buyer)

SettlementReported(obs) ==
  LET t == obs.instruction IN
  /\ ~Replayed(obs.report)
  /\ instructions[t].status # "ABSENT"
  /\ observations' = observations \cup {obs}
  /\ IF Exact(obs) THEN PaymentMatches(t) ELSE PaymentDiffers(t)
  /\ UNCHANGED <<offers, bids, dispute_workbenches, verifications,
                 capital_needs, kyc, late>>

(* A signed report of the payment provider.                                *)
applySettlementWebhook(e, t, amount, sameCurrency) ==
  /\ SettlementReported([report |-> [source |-> "psp", id |-> e],
                         instruction |-> t, amount |-> amount,
                         sameCurrency |-> sameCurrency])
  /\ UNCHANGED assignments

(* A tenant administrator, not the one who struck the trade, confirms from *)
(* the bank statement.  A second write makes the contract effective; a     *)
(* crash before it leaves the contract as it was (effective = FALSE).      *)
confirmByProvider(t, u, effective) ==
  /\ u \in Admin
  /\ instructions[t].status # "CONFIRMED"
  /\ instructions[t].issued_by # u
  /\ SettlementReported([report |-> [source |-> "manual", id |-> t],
                         instruction |-> t, amount |-> instructions[t].amount,
                         sameCurrency |-> TRUE])
  /\ assignments' = IF effective /\ assignments[t] # "ABSENT"
                    THEN [assignments EXCEPT ![t] = "EFFECTIVE"]
                    ELSE assignments

-----------------------------------------------------------------------------
(* Financing, as far as the desk sees it: a CONFIRMED capital need reserves *)
(* the receivable.  The needs and the loan system are in CapitalLending.   *)

confirmCapitalNeed(r) ==
  /\ assertNotForSale(r)
  /\ assets[r].status \in {"VERIFIED", "ACCEPTED", "PARTIALLY_PAID"}
  /\ checkedInvoice(r)
  /\ capital_needs' = capital_needs \cup {r}
  /\ UNCHANGED <<assets, locks, registry, offers, bids, trades, instructions,
                 observations, assignments, dispute_workbenches,
                 verifications, kyc>>

(* withdrawCapitalNeed, or requestCapitalIntro of a confirmed need.        *)
releaseCapitalNeed(r) ==
  /\ r \in capital_needs
  /\ capital_needs' = capital_needs \ {r}
  /\ UNCHANGED <<assets, locks, registry, offers, bids, trades, instructions,
                 observations, assignments, dispute_workbenches,
                 verifications, kyc, late>>

-----------------------------------------------------------------------------

Recording(r) ==
  \/ \E band \in Band, hasDispute \in BOOLEAN, disputed \in Amount, u \in User :
       createReceivable(r, band, hasDispute, disputed, u)
  \/ \E band \in Band, hasDispute, unpaid \in BOOLEAN :
       verify(r, band, hasDispute, unpaid)
  \/ MaturityPasses(r)

Disputing(r) ==
  \/ \E amount \in Amount : \/ openDispute(r, amount)
                            \/ createDispute(r, amount)
                            \/ reopenDispute(r, amount)
  \/ \E action \in {"keep", "restore", "close_asset"} : closeDispute(r, action)
  \/ archiveDispute(r)
  \/ updateDisputeTrack(r)

Financing(r) == confirmCapitalNeed(r) \/ releaseCapitalNeed(r)

Offering(r) ==
  \E o \in Offer, p \in Party :
    \/ \E min \in Price : createOffer(r, o, p, min)
    \/ requestLiquidity(r, o, p)

Bidding(b) ==
  \E amount \in Price :
    \/ \E o \in Offer, p \in Party : createBid(b, o, p, amount)
    \/ counterOffer(b, amount)

Trading(b, t) ==
  \/ \E u \in User : acceptBid(b, t, u)
  \/ \E o \in Offer, p \in Party, amount \in Price, u \in Admin :
       acceptLiquidityQuote(o, b, t, p, amount, u)
  \/ \E r \in Receivable, o \in Offer, s, p \in Party, amount \in Price,
        u \in Admin : createAssignment(r, o, b, t, s, p, amount, u)

Paying(t) ==
  \/ \E e \in Event, amount \in Price, sameCurrency \in BOOLEAN :
       applySettlementWebhook(e, t, amount, sameCurrency)
  \/ \E u \in User, effective \in BOOLEAN : confirmByProvider(t, u, effective)

Next ==
  \/ \E r \in Receivable :
       Recording(r) \/ Disputing(r) \/ Financing(r) \/ Offering(r)
  \/ \E p \in Party, passed \in BOOLEAN : setKyc(p, passed)
  \/ \E b \in Bid : Bidding(b)
  \/ \E b \in Bid, t \in Trade : Trading(b, t)
  \/ \E t \in Trade : Paying(t)

Spec == Init /\ [][Next]_vars

(* The payment provider delivers the report of an exact payment until it   *)
(* is answered: the only fairness assumed, nobody else has to act.         *)
ExactPaymentReported(t) ==
  \E e \in Event : applySettlementWebhook(e, t, instructions[t].amount, TRUE)

FairSpec == Spec /\ \A t \in Trade : WF_vars(ExactPaymentReported(t))

-----------------------------------------------------------------------------
(* Properties. *)

(* The LIVE offers of a receivable are the one its OFFER_LOCK names, and   *)
(* none without that lock: offers, disputes and sales each write both      *)
(* rows, in different handlers.                                            *)
OfferLockAgreement ==
  \A r \in Receivable :
    LiveOffers(r) =
      IF locks[r].state = "OFFER_LOCK" THEN {locks[r].offer} ELSE {}

(* A receivable is sold once: its trades are the one its TRADE_LOCK or     *)
(* ASSIGNED lock names, whatever disputes and new offers came since.       *)
SoldOnce ==
  \A r \in Receivable :
    TradesOf(r) = IF locks[r].state \in {"TRADE_LOCK", "ASSIGNED"}
                  THEN {locks[r].trade} ELSE {}

(* What a trade's instruction and the trade itself may say together.       *)
Papers ==
  \A t \in Trade :
    <<instructions[t].status, trades[t].status>> \in
      {<<"ABSENT", "ABSENT">>, <<"ISSUED", "SETTLEMENT_PENDING">>,
       <<"MISMATCH", "DISPUTED_SETTLEMENT">>, <<"CONFIRMED", "COMPLETED">>}

(* Trade, instruction and lock tell the same story about the payment.      *)
SettlementAgreement ==
  /\ Papers
  /\ \A t \in Trade : trades[t].status # "ABSENT" =>
       (trades[t].status = "COMPLETED"
          <=> locks[trades[t].receivable].state = "ASSIGNED")

ReportsOn(t) == {obs \in observations : obs.instruction = t}

(* The first stored report decides a trade for good: none while it is      *)
(* pending, and then exactly one, exact if it completed and differing if   *)
(* it is parked, although provider and administrator may report the same   *)
(* payment, reports are redelivered, and amounts differ.                   *)
OneReportDecides ==
  \A t \in Trade :
    CASE instructions[t].status \in {"ABSENT", "ISSUED"} -> ReportsOn(t) = {}
      [] OTHER -> \E obs \in ReportsOn(t) :
                    /\ ReportsOn(t) = {obs}
                    /\ Exact(obs) <=> instructions[t].status = "CONFIRMED"

(* The creditor holds the receivable until its trade has settled; from     *)
(* then on the buyer of that trade does, and the registry shows exactly    *)
(* one ACTIVE assignment, to that buyer, also when offers withdrawn before *)
(* left RESERVED rows behind.                                              *)
OwnershipFollowsPayment ==
  \A r \in Receivable :
    IF locks[r].state = "ASSIGNED"
    THEN /\ assets[r].holder = trades[locks[r].trade].buyer
         /\ registry[r].active = 1
         /\ registry[r].transferee = assets[r].holder
    ELSE /\ assets[r].holder = creditorOf[r]
         /\ registry[r].active = 0
         /\ registry[r].transferee = None

(* The status of the receivable never claims more than lock and trade back: *)
(* OFFERED needs the offer lock, TRADE_LOCKED a trade not yet completed,    *)
(* TRANSFERRED a completed one, and a receivable with nothing proven is not *)
(* locked at all.                                                           *)
StatusBacked ==
  \A r \in Receivable :
    /\ assets[r].status = "OFFERED" => locks[r].state = "OFFER_LOCK"
    /\ assets[r].status = "TRADE_LOCKED" => locks[r].state = "TRADE_LOCK"
    /\ assets[r].status = "TRANSFERRED" => locks[r].state = "ASSIGNED"
    /\ assets[r].status \in {"ABSENT", "UNVERIFIED", "VERIFIED"}
         => locks[r].state = "UNLOCKED"

(* A trade is struck on the terms of one bid: the only ACCEPTED one of its *)
(* offer, with its buyer and price, which is the amount to be paid; the    *)
(* offer is TRADED, no other trade uses it, and none of its bids is still  *)
(* OPEN.                                                                   *)
TradeTerms ==
  \A t \in Trade : trades[t].status # "ABSENT" =>
    LET o == trades[t].offer
        b == trades[t].bid
    IN
    /\ offers[o].status = "TRADED"
    /\ offers[o].receivable = trades[t].receivable
    /\ {x \in Bid : bids[x].offer = o /\ bids[x].status = "ACCEPTED"} = {b}
    /\ bids[b].buyer = trades[t].buyer
    /\ bids[b].amount = trades[t].price
    /\ instructions[t].amount = trades[t].price
    /\ \A x \in Bid : bids[x].offer = o => bids[x].status # "OPEN"
    /\ \A x \in Trade : trades[x].offer = o => x = t

(* Sale or financing, never both: a receivable reserved by a confirmed     *)
(* capital need is not locked, offered or traded and is still its          *)
(* creditor's.                                                             *)
SaleXorFinancing ==
  \A r \in capital_needs :
    /\ locks[r].state = "UNLOCKED"
    /\ LiveOffers(r) = {}
    /\ TradesOf(r) = {}
    /\ assets[r].holder = creditorOf[r]

(* A receivable counts as assigned (OR 165) exactly when the trade that    *)
(* transferred it has a written contract, and a contract is effective only *)
(* when its trade completed on a manual confirmation.                      *)
ContractBacksAssignment ==
  /\ \A r \in Receivable :
       assets[r].instrument =
         IF locks[r].state # "ASSIGNED" THEN "ORDINARY"
         ELSE IF assignments[locks[r].trade] # "ABSENT" THEN "ASSIGNED_RECEIVABLE"
         ELSE "PURCHASED_RECEIVABLE"
  /\ \A t \in Trade : assignments[t] = "EFFECTIVE" =>
       \E obs \in ReportsOn(t) : obs.report.source = "manual" /\ Exact(obs)

(* What is settled stays settled: after the transfer no dispute,           *)
(* verification, offer, report or financing moves the lock, the holder,    *)
(* the trade or the active registry row again, and a parked trade stays    *)
(* parked.                                                                 *)
SettledForGood ==
  [][/\ \A r \in Receivable : locks[r].state = "ASSIGNED" =>
          /\ locks'[r] = locks[r]
          /\ assets'[r].holder = assets[r].holder
          /\ assets'[r].instrument = assets[r].instrument
          /\ registry'[r].active = registry[r].active
     /\ \A t \in Trade :
          trades[t].status \in {"COMPLETED", "DISPUTED_SETTLEMENT"} =>
            trades'[t] = trades[t] /\ instructions'[t] = instructions[t]]_vars

(* A disputed receivable enters no new commitment, whichever handler the   *)
(* dispute came from and whatever it left behind: no LIVE offer, trade,    *)
(* transfer or reservation for financing appears on it.                    *)
DisputeBlocksDeals ==
  [][\A r \in Receivable : Disputed(r) =>
       /\ LiveOffers(r)' \subseteq LiveOffers(r)
       /\ TradesOf(r)' = TradesOf(r)
       /\ assets'[r].holder = assets[r].holder
       /\ r \in capital_needs' => r \in capital_needs]_vars

(* A pending payment is decided, or the receivable has left TRADE_LOCKED   *)
(* (a dispute): if the provider keeps reporting, no interleaving of bids,  *)
(* offers, counter-offers or other payments keeps a sale open for ever.    *)
PendingSettles ==
  \A t \in Trade :
    trades[t].status = "SETTLEMENT_PENDING" ~>
      \/ trades[t].status \in {"COMPLETED", "DISPUTED_SETTLEMENT"}
      \/ \E r \in Receivable : trades[t].receivable = r
                                /\ assets[r].status # "TRADE_LOCKED"

(* verify's comment and its route say that a receivable becomes free for   *)
(* offers only through attested evidence of 50 points.  TLC refutes it:    *)
(* closing a dispute frees it without (README, "Seen while modelling").    *)
OfferedOnlyAttested ==
  \A r \in Receivable : LiveOffers(r) # {} => r \in verifications

-----------------------------------------------------------------------------
(* What the proofs of ReceivableDesk_proofs start from. *)

(* A row is ABSENT or complete, and a bid names an offer there is.         *)
RowsComplete ==
  /\ \A o \in Offer :
       IF offers[o].status = "ABSENT" THEN offers[o].receivable = None
       ELSE offers[o].receivable \in Receivable /\ offers[o].seller \in Party
  /\ \A b \in Bid :
       IF bids[b].status = "ABSENT" THEN bids[b].offer = None
       ELSE /\ bids[b].offer \in Offer
            /\ bids[b].buyer \in Party
            /\ offers[bids[b].offer].status # "ABSENT"
  /\ \A t \in Trade :
       IF trades[t].status = "ABSENT"
       THEN trades[t].receivable = None /\ trades[t].offer = None
       ELSE /\ trades[t].receivable \in Receivable
            /\ trades[t].offer \in Offer
            /\ trades[t].bid \in Bid
            /\ trades[t].buyer \in Party

(* An offer or trade lock stands on a RESERVED registry row, and a lock    *)
(* names a trade only while it is a trade's.                               *)
ReservedBacksLock ==
  \A r \in Receivable :
    /\ locks[r].state \in {"OFFER_LOCK", "TRADE_LOCK"} => registry[r].reserved > 0
    /\ locks[r].state \in {"UNLOCKED", "OFFER_LOCK"} => locks[r].trade = None
    /\ locks[r].state # "UNLOCKED" => Recorded(r)

-----------------------------------------------------------------------------
(* The abstract sale this implements. *)

saleStage ==
  [r \in Receivable |->
     CASE locks[r].state = "ASSIGNED" -> "sold"
       [] locks[r].state = "TRADE_LOCK"
            /\ instructions[locks[r].trade].status = "MISMATCH" -> "failed"
       [] locks[r].state = "TRADE_LOCK"
            /\ instructions[locks[r].trade].status # "MISMATCH" -> "pending"
       [] locks[r].state = "OFFER_LOCK" -> "offered"
       [] locks[r].state = "UNLOCKED" /\ r \in capital_needs -> "pledged"
       [] OTHER -> "free"]
saleOwner == [r \in Receivable |-> assets[r].holder]
saleBuyer ==
  [r \in Receivable |->
     IF locks[r].trade = None THEN None ELSE trades[locks[r].trade].buyer]

Sale == INSTANCE ReceivableSale WITH
          stage <- saleStage, owner <- saleOwner, purchaser <- saleBuyer

(* The desk implements the abstract sale.                                  *)
ImplementsSale == Sale!Spec
=============================================================================
