---------------------------- MODULE CapitalLending ----------------------------
(***************************************************************************)
(* Financing instead of sale: capital needs in service.ts, their handover  *)
(* to Frappe Lending in lending-bridge.ts, and Lending itself.             *)
(*                                                                         *)
(* The two handlers that await Lending are split where they await.  A      *)
(* call's `snapshot()` is what it captured when it began; Lending answers  *)
(* a query in a step of its own, so that its answer can be stale when the  *)
(* handler resumes.  An answer can get lost (10 s abort, network, restart  *)
(* of the process) while Lending still does what it was asked, if Lossy.   *)
(*                                                                         *)
(* The desk enters as the abstract sale it implements (ReceivableSale),    *)
(* guarded by assertNotFinanced.  Amounts, currencies and the status of    *)
(* the receivable only decide whether assertLendable throws: LoanRefused.  *)
(***************************************************************************)
EXTENDS Naturals, FiniteSets

CONSTANTS
  Need, Receivable, Provider,
  Call,      \* HTTP calls being handled
  Doc,       \* Loan Applications Sponsum may send to Lending
  None,
  Lossy      \* whether answers of Lending can get lost

ASSUME LendingAssumption == Lossy \in BOOLEAN /\ None \notin Receivable \cup Need \cup Doc

VARIABLES
  needs,      \* capital_needs: status and receivable_id
  interests,  \* capital_interests
  requested,  \* needs with a LENDING_APPLICATION_REQUESTED event
  calls,      \* loan requests and withdrawals under way
  inFlight,   \* inFlightApplications: receivables whose handover runs
  docs,       \* the Loan Applications at Lending, each with its Loan
  stage,      \* of the receivable at the desk, but for "pledged"
  lost        \* history: applications that were sent and whose answer was lost

vars == <<needs, interests, requested, calls, inFlight, docs, stage, lost>>

Idle == [op |-> "none", step |-> "idle", need |-> None, receivable |-> None,
         confirmed |-> FALSE, doc |-> None]
NoDoc == [status |-> "none", loan |-> "none", need |-> None, receivable |-> None]

Init ==
  /\ needs = [n \in Need |-> [status |-> "ABSENT", receivable |-> None]]
  /\ interests = {}
  /\ requested = {}
  /\ calls = [c \in Call |-> Idle]
  /\ inFlight = {}
  /\ docs = [d \in Doc |-> NoDoc]
  /\ stage = [r \in Receivable |-> "free"]
  /\ lost = {}

-----------------------------------------------------------------------------

ConfirmedFor(r) ==
  {n \in Need : needs[n].status = "CONFIRMED" /\ needs[n].receivable = r}

assertNotFinanced(r) == ConfirmedFor(r) = {}

\* Mutant: other capital needs are not looked at.
assertNotForSale_DeskOnly(r, n) == stage[r] = "free"

assertNotForSale(r, n) == stage[r] = "free" /\ ConfirmedFor(r) \ {n} = {}

(* existingForReceivable: an application or loan that is not Rejected or   *)
(* Closed.  An approved application keeps its status when its loan closes. *)
OpenAtLending(r) ==
  \E d \in Doc :
    /\ docs[d].receivable = r
    /\ docs[d].status \in {"Open", "Approved"} \/ docs[d].loan = "Disbursed"

-----------------------------------------------------------------------------
(* Capital needs. *)

createCapitalNeed(n) ==
  /\ needs[n].status = "ABSENT"
  /\ needs' = [needs EXCEPT ![n].status = "OPEN"]
  /\ UNCHANGED <<interests, requested, calls, inFlight, docs, stage, lost>>

(* Also a CONFIRMED need becomes INTRODUCED; it keeps its receivable_id.   *)
requestCapitalIntro(n, p) ==
  /\ needs[n].status \notin {"ABSENT", "WITHDRAWN"}
  /\ <<n, p>> \notin interests
  /\ interests' = interests \cup {<<n, p>>}
  /\ needs' = [needs EXCEPT ![n].status = "INTRODUCED"]
  /\ UNCHANGED <<requested, calls, inFlight, docs, stage, lost>>

(* By a tenant administrator; for a debt need.                             *)
confirmCapitalNeed(n, r) ==
  /\ needs[n].status \in {"OPEN", "INTRODUCED"}
  /\ assertNotForSale(r, n)
  /\ needs' = [needs EXCEPT ![n] = [status |-> "CONFIRMED", receivable |-> r]]
  /\ UNCHANGED <<interests, requested, calls, inFlight, docs, stage, lost>>

Withdrawn(n) == needs' = [needs EXCEPT ![n].status = "WITHDRAWN"]

(* Lending is asked only for a CONFIRMED need with a recorded request.     *)
MustAskLending(n) ==
  /\ needs[n].status = "CONFIRMED"
  /\ needs[n].receivable # None
  /\ n \in requested

withdrawCapitalNeed(c, n) ==
  /\ calls[c] = Idle
  /\ needs[n].status # "ABSENT"
  /\ IF MustAskLending(n)
     THEN /\ calls' = [calls EXCEPT ![c] =
               [Idle EXCEPT !.op = "withdraw", !.step = "asking", !.need = n,
                            !.receivable = needs[n].receivable]]
          /\ UNCHANGED needs
     ELSE Withdrawn(n) /\ UNCHANGED calls
  /\ UNCHANGED <<interests, requested, inFlight, docs, stage, lost>>

(* readLendingStatus answers: something open ends the withdrawal.          *)
WithdrawAnswered(c) ==
  /\ calls[c].op = "withdraw" /\ calls[c].step = "asking"
  /\ calls' = [calls EXCEPT ![c] =
       IF OpenAtLending(calls[c].receivable) THEN Idle
       ELSE [calls[c] EXCEPT !.step = "freed"]]
  /\ UNCHANGED <<needs, interests, requested, inFlight, docs, stage, lost>>

(* The handler resumes on a fresh snapshot, without looking again.         *)
WithdrawResumes(c) ==
  /\ calls[c].op = "withdraw" /\ calls[c].step = "freed"
  /\ Withdrawn(calls[c].need)
  /\ calls' = [calls EXCEPT ![c] = Idle]
  /\ UNCHANGED <<interests, requested, inFlight, docs, stage, lost>>

-----------------------------------------------------------------------------
(* The handover. *)

\* The call captures the need and enters the in-flight map.
LoanBegins(c, n) ==
  /\ calls[c] = Idle
  /\ calls' = [calls EXCEPT ![c] =
       [op |-> "loan", step |-> "asking", need |-> n,
        receivable |-> needs[n].receivable,
        confirmed |-> needs[n].status = "CONFIRMED", doc |-> None]]
  /\ inFlight' = inFlight \cup {needs[n].receivable}
  /\ UNCHANGED <<needs, interests, requested, docs, stage, lost>>

\* Mutant: a second request does not join the one that runs.
LoanRequested_NotJoined(c, n) == needs[n].receivable # None /\ LoanBegins(c, n)

(* A request for a receivable whose handover runs joins it: it waits for   *)
(* the same answer and writes nothing.                                     *)
requestCapitalNeedLoan(c, n) ==
  /\ needs[n].receivable # None
  /\ needs[n].receivable \notin inFlight
  /\ LoanBegins(c, n)

\* Mutant: the in-flight entry is deleted on success only.
LoanEnds_EntryStays(c) ==
  /\ calls' = [calls EXCEPT ![c] = Idle]
  /\ inFlight' = IF calls[c].doc # None /\ docs[calls[c].doc].status # "sent"
                 THEN inFlight \ {calls[c].receivable} ELSE inFlight

\* The attempt settles: the in-flight entry goes (finally).
LoanEnds(c) ==
  /\ calls' = [calls EXCEPT ![c] = Idle]
  /\ inFlight' = inFlight \ {calls[c].receivable}

(* What Lending has open is returned (created: false, no event), else the  *)
(* captured need must be CONFIRMED and an application is sent.             *)
LoanListed(c) ==
  /\ calls[c].op = "loan" /\ calls[c].step = "asking"
  /\ IF OpenAtLending(calls[c].receivable) \/ ~calls[c].confirmed
     THEN LoanEnds(c) /\ UNCHANGED docs
     ELSE \E d \in Doc :
            /\ docs[d].status = "none"
            /\ docs' = [docs EXCEPT ![d] =
                 [status |-> "sent", loan |-> "none", need |-> calls[c].need,
                  receivable |-> calls[c].receivable]]
            /\ calls' = [calls EXCEPT ![c].step = "sending", ![c].doc = d]
            /\ UNCHANGED inFlight
  /\ UNCHANGED <<needs, interests, requested, stage, lost>>

(* The invoice is no longer open, assertLendable throws, the customer does *)
(* not exist, or Lending rejects the application.                          *)
LoanRefused(c) ==
  /\ calls[c].op = "loan"
  /\ \/ calls[c].step = "asking" /\ UNCHANGED docs
     \/ /\ calls[c].step = "sending"
        /\ docs[calls[c].doc].status = "sent"
        /\ docs' = [docs EXCEPT ![calls[c].doc] = NoDoc]
  /\ LoanEnds(c)
  /\ UNCHANGED <<needs, interests, requested, stage, lost>>

(* The answer arrives: the event is appended to a fresh snapshot in the    *)
(* same turn of the event loop that deletes the in-flight entry.           *)
LoanAnswered(c) ==
  /\ calls[c].op = "loan" /\ calls[c].step = "sending"
  /\ docs[calls[c].doc].status # "sent"
  /\ LoanEnds(c)
  /\ requested' = requested \cup {calls[c].need}
  /\ UNCHANGED <<needs, interests, docs, stage, lost>>

\* The applications of these calls will never be answered.
Unanswered(cs) == lost' = lost \cup ({calls[c].doc : c \in cs} \ {None})

(* The 10 s abort or the network ends a call without an answer; what was   *)
(* sent may still reach Lending.                                           *)
CallLost(c) ==
  /\ Lossy
  /\ calls[c] # Idle
  /\ IF calls[c].op = "loan" THEN LoanEnds(c)
     ELSE calls' = [calls EXCEPT ![c] = Idle] /\ UNCHANGED inFlight
  /\ Unanswered({c})
  /\ UNCHANGED <<needs, interests, requested, docs, stage>>

(* The process restarts: calls and the in-flight map are gone.             *)
Restart ==
  /\ Lossy
  /\ calls' = [c \in Call |-> Idle]
  /\ inFlight' = {}
  /\ Unanswered(Call)
  /\ UNCHANGED <<needs, interests, requested, docs, stage>>

-----------------------------------------------------------------------------
(* Frappe Lending. *)

Inserts(d) ==
  /\ docs[d].status = "sent"
  /\ docs' = [docs EXCEPT ![d].status = "Open"]
  /\ UNCHANGED <<needs, interests, requested, calls, inFlight, stage, lost>>

(* The lender rejects, or approves and disburses a loan, which then closes. *)
Decides(d) ==
  /\ \/ docs[d].status = "Open" /\ docs' = [docs EXCEPT ![d].status = "Rejected"]
     \/ /\ docs[d].status = "Open"
        /\ docs' = [docs EXCEPT ![d].status = "Approved", ![d].loan = "Disbursed"]
     \/ /\ docs[d].loan = "Disbursed"
        /\ docs' = [docs EXCEPT ![d].loan = "Closed"]
  /\ UNCHANGED <<needs, interests, requested, calls, inFlight, stage, lost>>

-----------------------------------------------------------------------------
(* The desk's sale of a receivable (ReceivableSale). *)

StageMoves(r, from, to) ==
  /\ stage[r] \in from
  /\ stage' = [stage EXCEPT ![r] = to]
  /\ UNCHANGED <<needs, interests, requested, calls, inFlight, docs, lost>>

Offered(r) == assertNotFinanced(r) /\ StageMoves(r, {"free"}, "offered")
OfferWithdrawn(r) == StageMoves(r, {"offered"}, "free")
Struck(r) == assertNotFinanced(r) /\ StageMoves(r, {"free", "offered"}, "pending")

\* Mutant: a second report decides a parked trade again.
Paid_AfterFailure(r) ==
  \E to \in {"failed", "sold"} : StageMoves(r, {"pending", "failed"}, to)

Paid(r) == \E to \in {"failed", "sold"} : StageMoves(r, {"pending"}, to)

-----------------------------------------------------------------------------

Next ==
  \/ \E n \in Need :
       \/ createCapitalNeed(n)
       \/ \E p \in Provider : requestCapitalIntro(n, p)
       \/ \E r \in Receivable : confirmCapitalNeed(n, r)
       \/ \E c \in Call : withdrawCapitalNeed(c, n) \/ requestCapitalNeedLoan(c, n)
  \/ \E c \in Call :
       \/ WithdrawAnswered(c) \/ WithdrawResumes(c)
       \/ LoanListed(c) \/ LoanRefused(c) \/ LoanAnswered(c)
       \/ CallLost(c)
  \/ Restart
  \/ \E d \in Doc : Inserts(d) \/ Decides(d)
  \/ \E r \in Receivable :
       Offered(r) \/ OfferWithdrawn(r) \/ Struck(r) \/ Paid(r)

Spec == Init /\ [][Next]_vars

(* Every await ends: AbortSignal.timeout gives each request 10 seconds.    *)
FairSpec == Spec /\ \A c \in Call : WF_vars(CallLost(c))

-----------------------------------------------------------------------------
(* Properties. *)

(* A receivable is reserved by one CONFIRMED need at most, and only while  *)
(* the desk has it free, although a need can lose its confirmation to an   *)
(* introduction and be confirmed again, for this receivable or another.    *)
OneNeedPerReceivable ==
  \A r \in Receivable :
    /\ Cardinality(ConfirmedFor(r)) <= 1
    /\ ConfirmedFor(r) # {} => stage[r] = "free"

(* Lending has one application of a receivable at most that it did not     *)
(* reject, however often and for however many needs the handover is asked  *)
(* for (docs/lending.md: "Sponsum legt hoechstens einen Entwurf einer Loan *)
(* Application pro Forderung an"), but for those whose answer was lost:    *)
(* one that was sent without an answer can arrive after the retry listed   *)
(* what is there.                                                          *)
OneApplication ==
  \A r \in Receivable :
    Cardinality({d \in Doc \ lost : docs[d].receivable = r
                              /\ docs[d].status \in {"Open", "Approved"}}) <= 1

(* Every application at Lending has its event, unless its call still runs  *)
(* or its answer was lost (theorem AllRecorded).                           *)
ApplicationsRecorded ==
  \A d \in Doc \ lost :
    docs[d].status # "none" =>
      docs[d].need \in requested \/ \E c \in Call : calls[c].doc = d

(* A handover does not block its receivable for ever: whatever Lending     *)
(* does, the in-flight entry goes and a later request is not joined to a   *)
(* dead one.                                                               *)
HandoverEnds == \A r \in Receivable : r \in inFlight ~> r \notin inFlight

(* docs/lending.md says of a CONFIRMED need with a Lending application     *)
(* that "sonst bleibt die Forderung reserviert": as long as Lending has    *)
(* something open whose request Sponsum has recorded, its receivable is    *)
(* reserved.                                                               *)
ReservedWhileOpen ==
  \A r \in Receivable :
    (\E d \in Doc : docs[d].receivable = r /\ docs[d].need \in requested
                     /\ docs[d].status = "Open")
      => ConfirmedFor(r) # {}

(* The comment of withdrawCapitalNeed says that a need with a Lending      *)
(* application stays until Lending has nothing open.                       *)
WithdrawnOnlyWithNothingOpen ==
  [][\A n \in Need :
       needs[n].status = "CONFIRMED" /\ needs'[n].status = "WITHDRAWN"
         => ~OpenAtLending(needs[n].receivable)]_vars

-----------------------------------------------------------------------------
(* The abstract sale this implements, for a sale to one buyer. *)

CONSTANTS creditor, buyer

saleStage == [r \in Receivable |->
  IF ConfirmedFor(r) # {} /\ stage[r] = "free" THEN "pledged" ELSE stage[r]]

saleOwner == [r \in Receivable |-> IF stage[r] = "sold" THEN buyer ELSE creditor]

saleBuyer == [r \in Receivable |->
  IF stage[r] \in {"pending", "failed", "sold"} THEN buyer ELSE None]

Sale == INSTANCE ReceivableSale WITH
  Party <- {creditor, buyer}, creditorOf <- [r \in Receivable |-> creditor],
  stage <- saleStage, owner <- saleOwner, purchaser <- saleBuyer

(* Needs, introductions, confirmations, withdrawals and sales together are *)
(* steps of the same abstract sale that the desk implements.               *)
ImplementsSale == Sale!Spec
=============================================================================
