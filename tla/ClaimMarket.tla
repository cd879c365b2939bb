---- MODULE ClaimMarket ----
(* The earlier product: claims, their transaction lifecycle, marketplace        *)
(* listings, settlement events and disputes, kept in PostgreSQL through Prisma  *)
(* (apps/api/src/modules/{claims,transaction-lifecycle,marketplace,settlements, *)
(* disputes,escrow,custody,collateral}). app.ts does not mount their routers at *)
(* present: this is what they do where they are mounted. Every handler awaits   *)
(* the database, so handlers of different requests interleave at each await. A  *)
(* transaction takes effect when it commits; at the default isolation level     *)
(* (read committed) what it read before may have changed by then.               *)
EXTENDS Naturals, Sequences, FiniteSets

CONSTANTS
    User,     \* signed-in users
    Claim,    \* ids of claims
    Listing,  \* ids of marketplace listings
    Dispute,  \* ids of dispute cases
    Call,     \* requests that may be running at the same time
    Given,    \* statuses that clients send: in PATCH, in settlement events
    MaxLog,   \* bound: entries of one claim's event log
    None      \* null

ASSUME MarketAssumption ==
    /\ MaxLog \in Nat
    /\ None \notin User \cup Claim \cup Listing \cup Dispute

VARIABLES
    claims,    \* Claim rows: status, creator (who is also the issuer), parties
    listings,  \* MarketplaceListing rows
    disputes,  \* DisputeCase rows
    attached,  \* which other rows a claim has: escrow, custody, collateral
    log,       \* the EventLog of each claim, in the order of the commits
    calls      \* requests between an answer of the database and the next query

vars == <<claims, listings, disputes, attached, log, calls>>

-----------------------------------------------------------------------------
(* The schema.                                                                *)

ClaimStatus == {"DRAFT", "ISSUED", "ACCEPTED", "ACTIVE", "PARTIALLY_SETTLED",
    "SETTLED", "OVERDUE", "DEFAULTED", "DISPUTED", "IN_ENFORCEMENT", "RESOLVED",
    "CANCELLED"}

ListingStatus == {"DRAFT", "PUBLISHED", "PRIVATE", "FILLED", "CANCELLED"}

DisputeStatus == {"OPEN", "UNDER_REVIEW", "MEDIATION", "ARBITRATION", "COURT",
    "RESOLVED", "REJECTED"}

Attachment == {"escrow", "custody", "collateral"}

ASSUME GivenAssumption == Given \subseteq ClaimStatus /\ None \notin ClaimStatus

(* Where a transaction may move a claim. *)
allowedLifecycleTransitions == [s \in ClaimStatus |->
    CASE s = "DRAFT"     -> {"ISSUED", "CANCELLED"}
      [] s = "ISSUED"    -> {"ACCEPTED", "CANCELLED"}
      [] s = "ACCEPTED"  -> {"ACTIVE", "CANCELLED"}
      [] s = "ACTIVE"    -> {"PARTIALLY_SETTLED", "SETTLED", "DEFAULTED", "DISPUTED"}
      [] s \in {"PARTIALLY_SETTLED", "OVERDUE"} -> {"SETTLED", "DEFAULTED", "DISPUTED"}
      [] s = "DEFAULTED" -> {"IN_ENFORCEMENT", "RESOLVED"}
      [] s = "DISPUTED"  -> {"RESOLVED", "IN_ENFORCEMENT"}
      [] s = "IN_ENFORCEMENT" -> {"RESOLVED"}
      [] OTHER           -> {}]

(* An entry of the event log: what happened, by whom if the handler records   *)
(* it, and the claim status that the entry's type or payload tells, if any.   *)
Entry(type, actor, tells) == [type |-> type, actor |-> actor, tells |-> tells]

(* A running request: between "read" and the commit of its transaction it     *)
(* only remembers the status it read; a purchase also stops between filling   *)
(* the listing and writing the event.                                         *)
Idle == [op |-> "fund", at |-> "idle", actor |-> None, claim |-> None,
    listing |-> None, next |-> None]

Init ==
    /\ claims = [c \in Claim |-> [status |-> "ABSENT", creator |-> None, parties |-> {}]]
    /\ listings = [l \in Listing |-> [status |-> "ABSENT", claim |-> None,
                                      seller |-> None, buyer |-> None]]
    /\ disputes = [d \in Dispute |-> [status |-> "ABSENT", claim |-> None,
                                      claimant |-> None, respondent |-> None]]
    /\ attached = [c \in Claim |-> {}]
    /\ log = [c \in Claim |-> <<>>]
    /\ calls = [x \in Call |-> Idle]

-----------------------------------------------------------------------------
(* Who may do what. Creator, issuer and parties of a claim never change, so   *)
(* it does not matter that these checks are queries of their own.             *)

Exists(c) == claims[c].status # "ABSENT"

assertCanManageClaim(c, u) == Exists(c) /\ claims[c].creator = u

assertCanActOnClaim(c, u) ==
    /\ Exists(c)
    /\ claims[c].creator = u \/ u \in claims[c].parties

assertTransition(s, t) == t \in allowedLifecycleTransitions[s]

Logged(c, entries) ==
    /\ Len(log[c]) + Len(entries) <= MaxLog
    /\ log' = [log EXCEPT ![c] = @ \o entries]

NewListing(l, status, c, seller, buyer) ==
    /\ listings[l].status = "ABSENT"
    /\ listings' = [listings EXCEPT ![l] =
           [status |-> status, claim |-> c, seller |-> seller, buyer |-> buyer]]

NewDispute(d, c, claimant, respondent) ==
    /\ disputes[d].status = "ABSENT"
    /\ disputes' = [disputes EXCEPT ![d] =
           [status |-> "OPEN", claim |-> c, claimant |-> claimant, respondent |-> respondent]]

-----------------------------------------------------------------------------
(* Claims.                                                                    *)

Created(c, u, status, P, entry) ==
    /\ ~Exists(c)
    /\ claims' = [claims EXCEPT ![c] = [status |-> status, creator |-> u, parties |-> P]]
    /\ Logged(c, <<entry>>)
    /\ UNCHANGED <<listings, disputes, attached, calls>>

(* claimsService.create: any status; the entry names neither actor nor status. *)
createClaim(c, u, status, P) ==
    Created(c, u, status, P, Entry("claim_created", None, None))

(* transactionLifecycleService.create: issued at once. *)
createTransaction(c, u, P) ==
    Created(c, u, "ISSUED", P, Entry("transaction_created", u, "ISSUED"))

(* PATCH: a status in the body is taken as it is; s is None without one. *)
update(c, u, s) ==
    /\ assertCanManageClaim(c, u)
    /\ claims' = [claims EXCEPT ![c].status = IF s = None THEN @ ELSE s]
    /\ Logged(c, <<Entry("claim_updated", None, s)>>)
    /\ UNCHANGED <<listings, disputes, attached, calls>>

(* One nested write: the claim, its listing and the entry. *)
publish(c, u, l, status) ==
    /\ assertCanManageClaim(c, u)
    /\ claims' = [claims EXCEPT ![c].status = "ACTIVE"]
    /\ NewListing(l, status, c, u, None)
    /\ Logged(c, <<Entry("claim_published", None, "ACTIVE")>>)
    /\ UNCHANGED <<disputes, attached, calls>>

(* claimsService.transfer only writes an entry. *)
claimTransfer(c, u) ==
    /\ assertCanManageClaim(c, u)
    /\ Logged(c, <<Entry("claim_transferred", u, None)>>)
    /\ UNCHANGED <<claims, listings, disputes, attached, calls>>

(* Rows of escrow, custody and collateral that parties attach to a claim. *)
createForClaim(c, u, kind) ==
    /\ assertCanActOnClaim(c, u)
    /\ attached' = [attached EXCEPT ![c] = @ \cup {kind}]
    /\ UNCHANGED <<claims, listings, disputes, log, calls>>

-----------------------------------------------------------------------------
(* The transaction lifecycle: fund, transfer and settle read the claim in     *)
(* their transaction, check the transition from what they read, and write.    *)

Begins(x, op, c, l, u, next) ==
    /\ calls[x].at = "idle"
    /\ calls' = [calls EXCEPT ![x] = [op |-> op, at |-> "read", actor |-> u,
                                      claim |-> c, listing |-> l, next |-> next]]
    /\ UNCHANGED <<claims, listings, disputes, attached, log>>

ReadsClaim(x, op, c, u, next) ==
    /\ assertCanActOnClaim(c, u)
    /\ assertTransition(claims[c].status, next)
    /\ Begins(x, op, c, None, u, next)

(* The target of a payment: all of the claim's amount or only a part. *)
TargetOf(op) ==
    CASE op = "fund"     -> {"ACCEPTED"}
      [] op = "transfer" -> {"ACTIVE"}
      [] op = "settle"   -> {"SETTLED", "PARTIALLY_SETTLED"}

\* Mutant: the status is written outside the transaction that logs it.
Commits_Unlogged(x, type) ==
    /\ claims' = [claims EXCEPT ![calls[x].claim].status = calls[x].next]
    /\ UNCHANGED log
    /\ calls' = [calls EXCEPT ![x] = Idle]

Commits(x, type) ==
    LET r == calls[x] IN
    /\ claims' = [claims EXCEPT ![r.claim].status = r.next]
    /\ Logged(r.claim, <<Entry(type, r.actor, r.next)>>)
    /\ calls' = [calls EXCEPT ![x] = Idle]

fund(x, fromEscrow) ==
    /\ calls[x].op = "fund" /\ calls[x].at = "read"
    /\ Commits(x, "transaction_funded")
    /\ attached' = IF fromEscrow
                   THEN [attached EXCEPT ![calls[x].claim] = @ \cup {"escrow"}]
                   ELSE attached
    /\ UNCHANGED <<listings, disputes>>

transfer(x, l, buyer) ==
    /\ calls[x].op = "transfer" /\ calls[x].at = "read"
    /\ NewListing(l, "FILLED", calls[x].claim, calls[x].actor, buyer)
    /\ Commits(x, "transaction_transferred")
    /\ UNCHANGED <<disputes, attached>>

settle(x) ==
    /\ calls[x].op = "settle" /\ calls[x].at = "read"
    /\ Commits(x, "transaction_settled")
    /\ UNCHANGED <<listings, disputes, attached>>

-----------------------------------------------------------------------------
(* The marketplace. A purchase is three queries without a transaction.        *)

createListing(c, u, l) ==
    /\ assertCanManageClaim(c, u)
    /\ NewListing(l, "PUBLISHED", c, u, None)
    /\ UNCHANGED <<claims, disputes, attached, log, calls>>

Available(l) == listings[l].status \in ListingStatus \ {"FILLED", "CANCELLED"}

buyListing(x, l, u) ==
    /\ Available(l)
    /\ listings[l].seller # u
    /\ Begins(x, "buy", listings[l].claim, l, u, None)

ListingFilled(x) ==
    /\ calls[x].op = "buy" /\ calls[x].at = "read"
    /\ listings' = [listings EXCEPT ![calls[x].listing].status = "FILLED",
                                    ![calls[x].listing].buyer = calls[x].actor]
    /\ calls' = [calls EXCEPT ![x].at = "filled"]
    /\ UNCHANGED <<claims, disputes, attached, log>>

PurchaseLogged(x) ==
    /\ calls[x].at = "filled"
    /\ Logged(calls[x].claim,
              <<Entry("marketplace_listing_bought", calls[x].actor, None)>>)
    /\ calls' = [calls EXCEPT ![x] = Idle]
    /\ UNCHANGED <<claims, listings, disputes, attached>>

(* The connection or the process is lost: what was not committed is undone.   *)
CallFails(x) ==
    /\ calls[x].at # "idle"
    /\ calls' = [calls EXCEPT ![x] = Idle]
    /\ UNCHANGED <<claims, listings, disputes, attached, log>>

-----------------------------------------------------------------------------
(* Settlement events and disputes. Each is one transaction.                   *)

addEvent(c, u, s) ==
    /\ assertCanActOnClaim(c, u)
    /\ claims' = [claims EXCEPT ![c].status = s]
    /\ Logged(c, <<Entry("settlement_event", u, s)>>)
    /\ UNCHANGED <<listings, disputes, attached, calls>>

(* DEFAULT_TRIGGERED with a claimant and a respondent opens a dispute too. *)
DefaultTriggered(c, u, s, d, respondent) ==
    /\ assertCanActOnClaim(c, u)
    /\ claims' = [claims EXCEPT ![c].status = "DISPUTED"]
    /\ NewDispute(d, c, u, respondent)
    /\ Logged(c, <<Entry("settlement_event", u, s), Entry("dispute_opened", u, "DISPUTED")>>)
    /\ UNCHANGED <<listings, attached, calls>>

createDispute(c, u, d, respondent) ==
    /\ assertCanActOnClaim(c, u)
    /\ NewDispute(d, c, u, respondent)
    /\ claims' = [claims EXCEPT ![c].status = "DISPUTED"]
    /\ Logged(c, <<Entry("dispute_opened", u, "DISPUTED")>>)
    /\ UNCHANGED <<listings, attached, calls>>

(* What an answer to a dispute says of its claim; None leaves the claim alone. *)
ClaimAfter(s) ==
    CASE s = "RESOLVED" -> "RESOLVED"
      [] s = "REJECTED" -> "ACTIVE"
      [] OTHER          -> None

respond(d, u, s) ==
    LET c == disputes[d].claim  after == ClaimAfter(s) IN
    /\ disputes[d].status # "ABSENT"
    /\ u \in {disputes[d].claimant, disputes[d].respondent}
    /\ disputes' = [disputes EXCEPT ![d].status = IF s = None THEN @ ELSE s]
    /\ claims' = [claims EXCEPT ![c].status = IF after = None THEN @ ELSE after]
    /\ Logged(c, <<Entry(IF s = "RESOLVED" THEN "dispute_resolved" ELSE "dispute_updated",
                         u, after)>>)
    /\ UNCHANGED <<listings, attached, calls>>

-----------------------------------------------------------------------------
(* What each router lets a signed-in user u do, and what the calls that it    *)
(* accepted do next.                                                          *)
claimsRouter(c, u) ==
    \/ \E s \in Given, P \in SUBSET User : createClaim(c, u, s, P)
    \/ \E s \in Given \cup {None} : update(c, u, s)
    \/ \E l \in Listing, s \in ListingStatus : publish(c, u, l, s)
    \/ claimTransfer(c, u)

transactionLifecycleRouter(c, u) ==
    \/ \E P \in SUBSET User : createTransaction(c, u, P)
    \/ \E x \in Call, op \in {"fund", "transfer", "settle"} :
           \E next \in TargetOf(op) : ReadsClaim(x, op, c, u, next)

settlementsRouter(c, u) ==
    \/ \E s \in Given : addEvent(c, u, s)
    \/ \E s \in Given, d \in Dispute, v \in User : DefaultTriggered(c, u, s, d, v)

disputesRouter(d, u) ==
    \/ \E c \in Claim, v \in User : createDispute(c, u, d, v)
    \/ \E s \in DisputeStatus \cup {None} : respond(d, u, s)

marketplaceRouter(l, u) ==
    \/ \E c \in Claim : createListing(c, u, l)
    \/ \E x \in Call : buyListing(x, l, u)

GoesOn(x) ==
    \/ \E fromEscrow \in BOOLEAN : fund(x, fromEscrow)
    \/ \E l \in Listing, buyer \in User : transfer(x, l, buyer)
    \/ settle(x)
    \/ ListingFilled(x)
    \/ PurchaseLogged(x)
    \/ CallFails(x)

Next ==
    \/ \E u \in User :
           \/ \E c \in Claim :
                  \/ claimsRouter(c, u)
                  \/ transactionLifecycleRouter(c, u)
                  \/ settlementsRouter(c, u)
                  \/ \E kind \in Attachment : createForClaim(c, u, kind)
           \/ \E d \in Dispute : disputesRouter(d, u)
           \/ \E l \in Listing : marketplaceRouter(l, u)
    \/ \E x \in Call : GoesOn(x)

Spec == Init /\ [][Next]_vars

-----------------------------------------------------------------------------
(* Replaying the event log of a claim gives its status: the last entry that   *)
(* tells a status tells the present one, whichever handlers ran and however   *)
(* they interleaved.                                                          *)
Telling(c) == {i \in DOMAIN log[c] : log[c][i].tells # None}

LogTellsStatus ==
    \A c \in Claim : \A i \in Telling(c) :
        (\A j \in Telling(c) : j <= i) => log[c][i].tells = claims[c].status

(* A claim is only DISPUTED while a dispute about it is undecided, whoever      *)
(* else acts on the claim meanwhile, as long as no client sends that status     *)
(* (theorem DisputedByADispute).                                                *)
DisputedOnACase ==
    \A c \in Claim : claims[c].status = "DISPUTED" =>
        \E d \in Dispute : disputes[d].claim = c
            /\ disputes[d].status \notin {"ABSENT", "RESOLVED", "REJECTED"}

(* The lifecycle's table, as a claim about the claims themselves: funding,    *)
(* transfer and settlement move a claim only along it. TLC refutes it: two    *)
(* calls that read the same status both commit (README, "Seen while           *)
(* modelling").                                                               *)
LifecycleRespected ==
    [][\A x \in Call :
          (/\ calls[x].op # "buy" /\ calls[x].at = "read"
           /\ calls'[x].at = "idle"
           /\ log'[calls[x].claim] # log[calls[x].claim])
          => assertTransition(claims[calls[x].claim].status, calls[x].next)]_vars
====
