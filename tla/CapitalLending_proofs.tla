------------------------- MODULE CapitalLending_proofs -------------------------
(***************************************************************************)
(* Financing, for any set of needs, receivables, providers, calls and      *)
(* applications, whether answers of Lending get lost or not: one need      *)
(* reserves a receivable, one application of it waits at Lending, each has *)
(* its event, and financing and sale are steps of the abstract sale.       *)
(***************************************************************************)
EXTENDS CapitalLending, FiniteSetTheorems, TLAPS

-----------------------------------------------------------------------------
(* Invariants. *)

NeedRow == [status : {"ABSENT", "OPEN", "INTRODUCED", "CONFIRMED", "WITHDRAWN"},
            receivable : Receivable \cup {None}]

CallRow ==
  {Idle} \cup
  [op : {"loan", "withdraw"}, step : {"asking", "sending", "freed"},
   need : Need, receivable : Receivable, confirmed : BOOLEAN, doc : Doc \cup {None}]

DocRow ==
  {NoDoc} \cup
  [status : {"sent", "Open", "Rejected", "Approved"},
   loan : {"none", "Disbursed", "Closed"}, need : Need, receivable : Receivable]

TypeOK ==
  /\ needs \in [Need -> NeedRow]
  /\ requested \subseteq Need
  /\ calls \in [Call -> CallRow]
  /\ inFlight \subseteq Receivable
  /\ docs \in [Doc -> DocRow]
  /\ stage \in [Receivable -> {"free", "offered", "pending", "failed", "sold"}]

(* OneNeedPerReceivable without counting, and with a receivable that is    *)
(* there.                                                                  *)
OneReserver ==
  \A n \in Need : needs[n].status = "CONFIRMED" =>
    /\ needs[n].receivable \in Receivable
    /\ stage[needs[n].receivable] = "free"
    /\ \A m \in Need :
         needs[m].status = "CONFIRMED" /\ needs[m].receivable = needs[n].receivable
           => m = n

(* A handover that runs is the one in-flight entry of its receivable; once *)
(* it has sent an application, this is for its need and receivable.        *)
Handovers ==
  /\ \A c \in Call : calls[c].op = "loan" =>
       /\ calls[c].receivable \in inFlight
       /\ \A x \in Call :
            calls[x].op = "loan" /\ calls[x].receivable = calls[c].receivable => x = c
  /\ \A c \in Call : calls[c].doc # None =>
       /\ calls[c].op = "loan" /\ calls[c].step = "sending"
       /\ docs[calls[c].doc].status # "none"
       /\ docs[calls[c].doc].need = calls[c].need
       /\ docs[calls[c].doc].receivable = calls[c].receivable
       /\ \A x \in Call : calls[x].doc = calls[c].doc => x = c
  /\ \A c \in Call : calls[c].step = "sending" => calls[c].doc # None

(* An application on its way is waited for, unless its answer was lost.    *)
SentAwaited ==
  \A d \in Doc \ lost : docs[d].status = "sent" => \E c \in Call : calls[c].doc = d

Live(d) == docs[d].status \in {"sent", "Open", "Approved"}

(* OneApplication without counting, and with those on their way.           *)
OneLive ==
  \A d, e \in Doc \ lost :
    Live(d) /\ Live(e) /\ docs[d].receivable = docs[e].receivable => d = e

IInv ==
  /\ TypeOK
  /\ OneReserver
  /\ Handovers
  /\ SentAwaited
  /\ OneLive
  /\ ApplicationsRecorded

LEMMA InitHolds == Init => IInv
  BY LendingAssumption
  DEF Init, IInv, TypeOK, OneReserver, Handovers, SentAwaited, OneLive, Live,
      ApplicationsRecorded, NeedRow, CallRow, DocRow, Idle, NoDoc

(* Every step is one of these; the needs, the handover, Lending and the    *)
(* desk are looked at one after the other.                                 *)
OnNeeds ==
  \E n \in Need :
    \/ createCapitalNeed(n)
    \/ \E p \in Provider : requestCapitalIntro(n, p)
    \/ \E r \in Receivable : confirmCapitalNeed(n, r)

Withdrawing ==
  \E c \in Call :
    \/ \E n \in Need : withdrawCapitalNeed(c, n)
    \/ WithdrawAnswered(c) \/ WithdrawResumes(c)

Loaning ==
  \/ \E c \in Call :
       \/ \E n \in Need : requestCapitalNeedLoan(c, n)
       \/ LoanListed(c) \/ LoanRefused(c) \/ LoanAnswered(c) \/ CallLost(c)
  \/ Restart

Lending == \E d \in Doc : Inserts(d) \/ Decides(d)

Selling ==
  \E r \in Receivable : Offered(r) \/ OfferWithdrawn(r) \/ Struck(r) \/ Paid(r)

LEMMA NextCases ==
  [Next]_vars => OnNeeds \/ Withdrawing \/ Loaning \/ Lending \/ Selling
                 \/ UNCHANGED vars
  BY DEF Next, OnNeeds, Withdrawing, Loaning, Lending, Selling

-----------------------------------------------------------------------------
(* Types. *)

LEMMA Rows == Idle \in CallRow /\ NoDoc \in DocRow
  BY DEF CallRow, DocRow

(* What steps on needs and withdrawals do to the needs.                    *)
Loosened(n) ==
  \E x \in {"OPEN", "INTRODUCED", "WITHDRAWN"} : needs' = [needs EXCEPT ![n].status = x]

LEMMA NeedMoves ==
  ASSUME TypeOK, OnNeeds \/ Withdrawing
  PROVE  /\ UNCHANGED <<requested, inFlight, docs, stage, lost>>
         /\ \/ UNCHANGED needs
            \/ \E n \in Need : Loosened(n) \/ \E r \in Receivable : confirmCapitalNeed(n, r)
<1>1. CASE OnNeeds
  BY <1>1 DEF OnNeeds, createCapitalNeed, requestCapitalIntro, confirmCapitalNeed,
      Loosened
<1>2. ASSUME NEW c \in Call, WithdrawResumes(c)
      PROVE  \E n \in Need : Loosened(n)
  <2>1. calls[c].need \in Need BY <1>2 DEF WithdrawResumes, TypeOK, CallRow, Idle
  <2> QED BY <1>2, <2>1 DEF WithdrawResumes, Withdrawn, Loosened
<1>3. CASE Withdrawing
  <2>1. UNCHANGED <<requested, inFlight, docs, stage, lost>>
    BY <1>3 DEF Withdrawing, withdrawCapitalNeed, WithdrawAnswered, WithdrawResumes
  <2>2. UNCHANGED needs \/ \E n \in Need : Loosened(n)
    BY <1>2, <1>3 DEF Withdrawing, withdrawCapitalNeed, WithdrawAnswered, Withdrawn,
        Loosened
  <2> QED BY <2>1, <2>2
<1> QED BY <1>1, <1>3

LEMMA TypeStep == ASSUME TypeOK, Handovers, [Next]_vars PROVE TypeOK'
<1>0. ASSUME OnNeeds \/ Withdrawing PROVE needs' \in [Need -> NeedRow]
  <2>1. ASSUME NEW n \in Need, Loosened(n) PROVE needs' \in [Need -> NeedRow]
    BY <2>1 DEF TypeOK, NeedRow, Loosened
  <2>2. ASSUME NEW n \in Need, NEW r \in Receivable, confirmCapitalNeed(n, r)
        PROVE  needs' \in [Need -> NeedRow]
    <3>1. [status |-> "CONFIRMED", receivable |-> r] \in NeedRow BY DEF NeedRow
    <3> QED BY <2>2, <3>1 DEF TypeOK, confirmCapitalNeed
  <2> QED BY <1>0, <2>1, <2>2, NeedMoves DEF TypeOK
<1>1. CASE OnNeeds
  <2>1. UNCHANGED <<requested, calls, inFlight, docs, stage>>
    BY <1>1 DEF OnNeeds, createCapitalNeed, requestCapitalIntro, confirmCapitalNeed
  <2>2. needs' \in [Need -> NeedRow] BY <1>1, <1>0
  <2> QED BY <2>1, <2>2 DEF TypeOK
<1>2. CASE Withdrawing
  <2>1. UNCHANGED <<requested, inFlight, docs, stage>>
    BY <1>2 DEF Withdrawing, withdrawCapitalNeed, WithdrawAnswered, WithdrawResumes
  <2>2. needs' \in [Need -> NeedRow] BY <1>2, <1>0
  <2>3. ASSUME NEW c \in Call, NEW n \in Need, withdrawCapitalNeed(c, n)
        PROVE  calls' \in [Call -> CallRow]
    <3>1. needs[n].receivable \in Receivable \cup {None} BY DEF TypeOK, NeedRow
    <3>2. CASE MustAskLending(n)
      <4> DEFINE row == [Idle EXCEPT !.op = "withdraw", !.step = "asking", !.need = n,
                              !.receivable = needs[n].receivable]
      <4>1. row \in CallRow BY <3>1, <3>2 DEF MustAskLending, CallRow, Idle
      <4>2. calls' = [calls EXCEPT ![c] = row] BY <2>3, <3>2 DEF withdrawCapitalNeed
      <4> QED BY <4>1, <4>2 DEF TypeOK
    <3>3. CASE ~MustAskLending(n) BY <2>3, <3>3 DEF withdrawCapitalNeed, TypeOK
    <3> QED BY <3>2, <3>3
  <2>4. ASSUME NEW c \in Call, WithdrawAnswered(c)
        PROVE  calls' \in [Call -> CallRow]
    <3> DEFINE row == IF OpenAtLending(calls[c].receivable) THEN Idle
                      ELSE [calls[c] EXCEPT !.step = "freed"]
    <3>1. calls[c] \in CallRow BY DEF TypeOK
    <3>2. [calls[c] EXCEPT !.step = "freed"] \in CallRow
      BY <2>4, <3>1 DEF WithdrawAnswered, CallRow, Idle
    <3>3. row \in CallRow BY <3>2, Rows
    <3>4. calls' = [calls EXCEPT ![c] = row] BY <2>4 DEF WithdrawAnswered
    <3> QED BY <3>3, <3>4 DEF TypeOK
  <2>5. ASSUME NEW c \in Call, WithdrawResumes(c)
        PROVE  calls' \in [Call -> CallRow]
    BY <2>5, Rows DEF TypeOK, WithdrawResumes
  <2> QED BY <1>2, <2>1, <2>2, <2>3, <2>4, <2>5 DEF Withdrawing, TypeOK
<1>3. CASE Loaning
  <2>1. UNCHANGED <<needs, stage>>
    BY <1>3 DEF Loaning, requestCapitalNeedLoan, LoanBegins, LoanListed, LoanRefused,
        LoanAnswered, CallLost, Restart
  <2>2. ASSUME NEW c \in Call, NEW n \in Need, requestCapitalNeedLoan(c, n)
        PROVE  TypeOK'
    <3> DEFINE row == [op |-> "loan", step |-> "asking", need |-> n,
                       receivable |-> needs[n].receivable,
                       confirmed |-> needs[n].status = "CONFIRMED", doc |-> None]
    <3>1. needs[n].receivable \in Receivable
      BY <2>2 DEF requestCapitalNeedLoan, TypeOK, NeedRow
    <3>2. row \in CallRow BY <3>1 DEF CallRow
    <3>3. calls' = [calls EXCEPT ![c] = row] /\ UNCHANGED <<requested, docs>>
      BY <2>2 DEF requestCapitalNeedLoan, LoanBegins
    <3>4. inFlight' = inFlight \cup {needs[n].receivable}
      BY <2>2 DEF requestCapitalNeedLoan, LoanBegins
    <3> QED BY <2>1, <3>1, <3>2, <3>3, <3>4 DEF TypeOK
  <2>3. ASSUME NEW c \in Call, LoanEnds(c), requested' \subseteq Need,
               docs' \in [Doc -> DocRow]
        PROVE  TypeOK'
    BY <2>1, <2>3, Rows DEF LoanEnds, TypeOK
  <2>4. ASSUME NEW c \in Call, LoanListed(c) PROVE TypeOK'
    <3>1. UNCHANGED requested BY <2>4 DEF LoanListed
    <3>2. CASE OpenAtLending(calls[c].receivable) \/ ~calls[c].confirmed
      BY <2>3, <2>4, <3>2 DEF LoanListed, TypeOK
    <3>3. CASE ~(OpenAtLending(calls[c].receivable) \/ ~calls[c].confirmed)
      <4>1. calls[c] \in CallRow \ {Idle} BY <2>4 DEF LoanListed, TypeOK, Idle
      <4>2. PICK d \in Doc :
              /\ docs' = [docs EXCEPT ![d] =
                   [status |-> "sent", loan |-> "none", need |-> calls[c].need,
                    receivable |-> calls[c].receivable]]
              /\ calls' = [calls EXCEPT ![c].step = "sending", ![c].doc = d]
              /\ UNCHANGED inFlight
        BY <2>4, <3>3 DEF LoanListed
      <4>3. [status |-> "sent", loan |-> "none", need |-> calls[c].need,
             receivable |-> calls[c].receivable] \in DocRow
        BY <4>1 DEF CallRow, DocRow
      <4>4. [calls[c] EXCEPT !.step = "sending", !.doc = d] \in CallRow
        BY <4>1 DEF CallRow
      <4>5. docs' \in [Doc -> DocRow] BY <4>2, <4>3 DEF TypeOK
      <4>6. calls' \in [Call -> CallRow] BY <4>2, <4>4 DEF TypeOK
      <4> QED BY <2>1, <3>1, <4>2, <4>5, <4>6 DEF TypeOK
    <3> QED BY <3>2, <3>3
  <2>5. ASSUME NEW c \in Call, LoanRefused(c) PROVE TypeOK'
    <3>1. UNCHANGED requested /\ LoanEnds(c) BY <2>5 DEF LoanRefused
    <3>2. docs' \in [Doc -> DocRow] BY <2>5, Rows DEF LoanRefused, TypeOK
    <3> QED BY <2>3, <3>1, <3>2 DEF TypeOK
  <2>6. ASSUME NEW c \in Call, LoanAnswered(c) PROVE TypeOK'
    <3>1. LoanEnds(c) /\ UNCHANGED docs BY <2>6 DEF LoanAnswered
    <3>2. calls[c].need \in Need BY <2>6 DEF LoanAnswered, TypeOK, CallRow, Idle
    <3>3. requested' \subseteq Need BY <2>6, <3>2 DEF LoanAnswered, TypeOK
    <3> QED BY <2>3, <3>1, <3>3 DEF TypeOK
  <2>7. ASSUME NEW c \in Call, CallLost(c) PROVE TypeOK'
    <3>1. UNCHANGED <<requested, docs>> BY <2>7 DEF CallLost
    <3>2. calls' = [calls EXCEPT ![c] = Idle] BY <2>7 DEF CallLost, LoanEnds
    <3>3. inFlight' \subseteq inFlight BY <2>7 DEF CallLost, LoanEnds
    <3> QED BY <2>1, <3>1, <3>2, <3>3, Rows DEF TypeOK
  <2>8. CASE Restart
    BY <2>1, <2>8, Rows DEF Restart, TypeOK
  <2> QED BY <1>3, <2>2, <2>4, <2>5, <2>6, <2>7, <2>8 DEF Loaning
<1>4. CASE Lending
  <2>1. UNCHANGED <<needs, requested, calls, inFlight, stage>>
    BY <1>4 DEF Lending, Inserts, Decides
  <2>2. docs' \in [Doc -> DocRow]
    BY <1>4 DEF Lending, Inserts, Decides, DocRow, NoDoc, TypeOK
  <2> QED BY <2>1, <2>2 DEF TypeOK
<1>5. CASE Selling
  BY <1>5 DEF Selling, Offered, OfferWithdrawn, Struck, Paid, StageMoves, TypeOK
<1>6. CASE UNCHANGED vars
  BY <1>6 DEF vars, TypeOK
<1> QED BY <1>1, <1>2, <1>3, <1>4, <1>5, <1>6, NextCases

-----------------------------------------------------------------------------
(* Needs and the desk. *)

LEMMA ReserverStep == ASSUME TypeOK, OneReserver, [Next]_vars PROVE OneReserver'
<1>1. ASSUME OnNeeds \/ Withdrawing PROVE OneReserver'
  <2>1. ASSUME NEW n \in Need, Loosened(n), UNCHANGED stage PROVE OneReserver'
    BY <2>1 DEF Loosened, OneReserver, TypeOK, NeedRow
  <2>2. ASSUME NEW n \in Need, NEW r \in Receivable, confirmCapitalNeed(n, r)
        PROVE  OneReserver'
    <3>1. stage[r] = "free" /\ UNCHANGED stage
      BY <2>2 DEF confirmCapitalNeed, assertNotForSale
    <3>2. \A m \in Need : needs[m].status = "CONFIRMED" /\ needs[m].receivable = r => m = n
      BY <2>2 DEF confirmCapitalNeed, assertNotForSale, ConfirmedFor
    <3>3. needs' = [needs EXCEPT ![n] = [status |-> "CONFIRMED", receivable |-> r]]
      BY <2>2 DEF confirmCapitalNeed
    <3> QED BY <3>1, <3>2, <3>3 DEF OneReserver, TypeOK
  <2> QED BY <1>1, <2>1, <2>2, NeedMoves DEF OneReserver
<1>2. CASE Loaning \/ Lending \/ UNCHANGED vars
  <2>1. UNCHANGED <<needs, stage>>
    BY <1>2 DEF Loaning, requestCapitalNeedLoan, LoanBegins, LoanListed, LoanRefused,
        LoanAnswered, CallLost, Restart, Lending, Inserts, Decides, vars
  <2> QED BY <2>1 DEF OneReserver
<1>3. CASE Selling
  <2>1. PICK r \in Receivable : Offered(r) \/ OfferWithdrawn(r) \/ Struck(r) \/ Paid(r)
    BY <1>3 DEF Selling
  <2>2. UNCHANGED needs
    BY <2>1 DEF Offered, OfferWithdrawn, Struck, Paid, StageMoves
  <2>3. ASSUME NEW n \in Need, needs[n].status = "CONFIRMED" PROVE needs[n].receivable # r
    <3>1. CASE ConfirmedFor(r) = {} BY <2>3, <3>1 DEF ConfirmedFor
    <3>2. CASE stage[r] # "free" BY <2>3, <3>2 DEF OneReserver
    <3> QED
      BY <2>1, <3>1, <3>2
      DEF Offered, OfferWithdrawn, Struck, Paid, StageMoves, assertNotFinanced
  <2>4. \A q \in Receivable \ {r} : stage'[q] = stage[q]
    BY <2>1 DEF Offered, OfferWithdrawn, Struck, Paid, StageMoves, TypeOK
  <2> QED BY <2>2, <2>3, <2>4 DEF OneReserver
<1> QED BY <1>1, <1>2, <1>3, NextCases

-----------------------------------------------------------------------------
(* The handover and Lending. *)

Handover == Handovers /\ SentAwaited /\ OneLive /\ ApplicationsRecorded

(* Only its application is lost with a call that ends, so the rest of the  *)
(* handovers is as it was.                                                 *)
LEMMA EndedCall ==
  ASSUME TypeOK, Handovers, NEW c \in Call, LoanEnds(c), calls[c].op = "loan",
         UNCHANGED docs
  PROVE  Handovers'
<1>1. calls'[c] = Idle /\ \A x \in Call \ {c} : calls'[x] = calls[x]
  BY DEF LoanEnds, TypeOK
<1>2. inFlight' = inFlight \ {calls[c].receivable} BY DEF LoanEnds
<1> QED BY <1>1, <1>2 DEF Handovers, Idle

LEMMA HandoverStep ==
  ASSUME TypeOK, Handover, [Next]_vars
  PROVE  Handover'
<1> USE DEF Handover
<1>1. CASE OnNeeds \/ Selling \/ UNCHANGED vars
  <2>1. UNCHANGED <<requested, calls, inFlight, docs, lost>>
    BY <1>1 DEF OnNeeds, createCapitalNeed, requestCapitalIntro, confirmCapitalNeed,
        Selling, Offered, OfferWithdrawn, Struck, Paid, StageMoves, vars
  <2> QED BY <2>1 DEF Handovers, SentAwaited, OneLive, Live, ApplicationsRecorded
<1>2. CASE Withdrawing
  <2>1. UNCHANGED <<requested, inFlight, docs, lost>>
    BY <1>2 DEF Withdrawing, withdrawCapitalNeed, WithdrawAnswered, WithdrawResumes
  <2>2. \A x \in Call :
          calls'[x] = calls[x]
          \/ /\ calls[x].op # "loan" /\ calls'[x].op # "loan"
             /\ calls'[x].step # "sending" /\ calls'[x].doc = None
    <3>1. ASSUME NEW c \in Call, NEW n \in Need, withdrawCapitalNeed(c, n), NEW x \in Call
          PROVE  \/ calls'[x] = calls[x]
                 \/ /\ calls[x].op # "loan" /\ calls'[x].op # "loan"
                    /\ calls'[x].step # "sending" /\ calls'[x].doc = None
      <4> DEFINE row == [Idle EXCEPT !.op = "withdraw", !.step = "asking", !.need = n,
                              !.receivable = needs[n].receivable]
      <4>1. row.op = "withdraw" /\ row.step = "asking" /\ row.doc = None BY DEF Idle
      <4>2. calls' = calls \/ calls' = [calls EXCEPT ![c] = row]
        BY <3>1 DEF withdrawCapitalNeed
      <4>3. calls[c] = Idle BY <3>1 DEF withdrawCapitalNeed
      <4> HIDE DEF row
      <4> QED BY <4>1, <4>2, <4>3 DEF TypeOK, Idle
    <3>2. ASSUME NEW c \in Call, WithdrawAnswered(c), NEW x \in Call
          PROVE  \/ calls'[x] = calls[x]
                 \/ /\ calls[x].op # "loan" /\ calls'[x].op # "loan"
                    /\ calls'[x].step # "sending" /\ calls'[x].doc = None
      <4>1. calls[c] \in CallRow /\ calls[c].doc = None
        BY <3>2 DEF WithdrawAnswered, Handovers, TypeOK
      <4>2. calls'[c] = Idle \/ calls'[c] = [calls[c] EXCEPT !.step = "freed"]
        BY <3>2 DEF WithdrawAnswered, TypeOK
      <4>3. x # c => calls'[x] = calls[x] BY <3>2 DEF WithdrawAnswered, TypeOK
      <4> QED BY <3>2, <4>1, <4>2, <4>3 DEF WithdrawAnswered, CallRow, Idle
    <3>3. ASSUME NEW c \in Call, WithdrawResumes(c), NEW x \in Call
          PROVE  \/ calls'[x] = calls[x]
                 \/ /\ calls[x].op # "loan" /\ calls'[x].op # "loan"
                    /\ calls'[x].step # "sending" /\ calls'[x].doc = None
      BY <3>3 DEF WithdrawResumes, Idle, TypeOK
    <3> QED BY <1>2, <3>1, <3>2, <3>3 DEF Withdrawing
  <2>3. \A x \in Call : calls[x].doc # None => calls'[x] = calls[x]
    BY <2>2 DEF Handovers
  <2>4. Handovers' BY <2>1, <2>2, <2>3 DEF Handovers
  <2>5. SentAwaited' /\ ApplicationsRecorded'
    BY <2>1, <2>3, LendingAssumption DEF SentAwaited, ApplicationsRecorded
  <2>6. OneLive' BY <2>1 DEF OneLive, Live
  <2> QED BY <2>4, <2>5, <2>6
<1>3. ASSUME NEW c \in Call, NEW n \in Need, requestCapitalNeedLoan(c, n)
      PROVE  Handover'
  <2>1. UNCHANGED <<requested, docs, lost>> /\ inFlight' = inFlight \cup {needs[n].receivable}
    BY <1>3 DEF requestCapitalNeedLoan, LoanBegins
  <2>2. \A x \in Call \ {c} : calls'[x] = calls[x]
    BY <1>3 DEF requestCapitalNeedLoan, LoanBegins, TypeOK
  <2>3. /\ calls[c].op = "none" /\ calls[c].doc = None
        /\ calls'[c].op = "loan" /\ calls'[c].step = "asking" /\ calls'[c].doc = None
        /\ calls'[c].receivable = needs[n].receivable
    BY <1>3 DEF requestCapitalNeedLoan, LoanBegins, Idle, TypeOK
  <2>4. needs[n].receivable \notin inFlight BY <1>3 DEF requestCapitalNeedLoan
  <2>5. Handovers' BY <2>1, <2>2, <2>3, <2>4 DEF Handovers
  <2>6. SentAwaited' /\ ApplicationsRecorded'
    BY <2>1, <2>2, <2>3, LendingAssumption DEF SentAwaited, ApplicationsRecorded
  <2>7. OneLive' BY <2>1 DEF OneLive, Live
  <2> QED BY <2>5, <2>6, <2>7
<1>4. ASSUME NEW c \in Call, LoanListed(c) PROVE Handover'
  <2>1. UNCHANGED <<requested, lost>> BY <1>4 DEF LoanListed
  <2>2. calls[c].doc = None BY <1>4 DEF LoanListed, Handovers
  <2>3. CASE OpenAtLending(calls[c].receivable) \/ ~calls[c].confirmed
    <3>1. LoanEnds(c) /\ UNCHANGED docs BY <1>4, <2>3 DEF LoanListed
    <3>2. Handovers' BY <1>4, <3>1, EndedCall DEF LoanListed
    <3>3. \A x \in Call \ {c} : calls'[x] = calls[x] BY <3>1 DEF LoanEnds, TypeOK
    <3>4. SentAwaited' /\ ApplicationsRecorded'
      BY <2>1, <2>2, <3>1, <3>3, LendingAssumption DEF SentAwaited, ApplicationsRecorded
    <3>5. OneLive' BY <2>1, <3>1 DEF OneLive, Live
    <3> QED BY <3>2, <3>4, <3>5
  <2>4. CASE ~(OpenAtLending(calls[c].receivable) \/ ~calls[c].confirmed)
    <3>1. PICK d \in Doc :
            /\ docs[d].status = "none"
            /\ docs' = [docs EXCEPT ![d] =
                 [status |-> "sent", loan |-> "none", need |-> calls[c].need,
                  receivable |-> calls[c].receivable]]
            /\ calls' = [calls EXCEPT ![c].step = "sending", ![c].doc = d]
            /\ UNCHANGED inFlight
      BY <1>4, <2>4 DEF LoanListed
    <3>2. /\ calls'[c].op = "loan" /\ calls'[c].step = "sending" /\ calls'[c].doc = d
          /\ calls'[c].receivable = calls[c].receivable
          /\ calls'[c].need = calls[c].need
          /\ \A x \in Call \ {c} : calls'[x] = calls[x]
      <4> DEFINE row == [calls[c] EXCEPT !.step = "sending", !.doc = d]
      <4>1. calls[c] \in CallRow \ {Idle} BY <1>4 DEF LoanListed, TypeOK, Idle
      <4>2. /\ row.op = "loan" /\ row.step = "sending" /\ row.doc = d
            /\ row.receivable = calls[c].receivable /\ row.need = calls[c].need
        BY <1>4, <4>1 DEF LoanListed, CallRow
      <4>3. calls' = [calls EXCEPT ![c] = row] BY <3>1
      <4> HIDE DEF row
      <4> QED BY <4>2, <4>3 DEF TypeOK
    <3>3. /\ docs'[d].status = "sent" /\ docs'[d].need = calls[c].need
          /\ docs'[d].receivable = calls[c].receivable
          /\ \A e \in Doc \ {d} : docs'[e] = docs[e]
      BY <3>1 DEF TypeOK
    <3>4. \A x \in Call : calls[x].doc # d
      BY <3>1, LendingAssumption DEF Handovers
    <3>5. Handovers'
      <4>1. \A x \in Call \ {c} : calls[x].doc # None => calls[x].doc \in Doc \ {d}
        BY <3>4 DEF TypeOK, CallRow, Idle
      <4>2. ASSUME NEW x \in Call, calls'[x].op = "loan"
            PROVE  /\ calls'[x].receivable \in inFlight'
                   /\ \A y \in Call : calls'[y].op = "loan"
                        /\ calls'[y].receivable = calls'[x].receivable => y = x
        <5>1. \A y \in Call : calls'[y].op = calls[y].op
                              /\ calls'[y].receivable = calls[y].receivable
          BY <1>4, <3>2 DEF LoanListed
        <5>2. UNCHANGED inFlight BY <3>1
        <5> HIDE <3>1, <3>2
        <5> QED BY <4>2, <5>1, <5>2 DEF Handovers
      <4>3. ASSUME NEW x \in Call, calls'[x].doc # None
            PROVE  /\ calls'[x].op = "loan" /\ calls'[x].step = "sending"
                   /\ docs'[calls'[x].doc].status # "none"
                   /\ docs'[calls'[x].doc].need = calls'[x].need
                   /\ docs'[calls'[x].doc].receivable = calls'[x].receivable
                   /\ \A y \in Call : calls'[y].doc = calls'[x].doc => y = x
        <5>1. CASE x = c BY <3>2, <3>3, <3>4, <5>1
        <5>2. CASE x # c BY <3>2, <3>3, <3>4, <4>1, <4>3, <5>2 DEF Handovers
        <5> QED BY <5>1, <5>2
      <4>4. ASSUME NEW x \in Call, calls'[x].step = "sending" PROVE calls'[x].doc # None
        BY <3>2, <4>4, LendingAssumption DEF Handovers
      <4> QED BY <4>2, <4>3, <4>4 DEF Handovers
    <3>6. SentAwaited'
      BY <2>1, <2>2, <3>2, <3>3, LendingAssumption DEF SentAwaited
    <3>7. ApplicationsRecorded'
      BY <2>1, <2>2, <3>2, <3>3, LendingAssumption DEF ApplicationsRecorded
    <3>8. ASSUME NEW e \in Doc \ lost, e # d, Live(e)
          PROVE  docs[e].receivable # calls[c].receivable
      <4>1. CASE docs[e].status \in {"Open", "Approved"}
        BY <2>4, <4>1 DEF OpenAtLending
      <4>2. CASE docs[e].status = "sent"
        <5>1. PICK x \in Call : calls[x].doc = e BY <3>8, <4>2 DEF SentAwaited
        <5>2. /\ calls[x].op = "loan" /\ calls[x].step = "sending"
              /\ docs[e].receivable = calls[x].receivable
          BY <5>1, LendingAssumption DEF Handovers
        <5>3. x # c BY <1>4, <5>2 DEF LoanListed
        <5> QED BY <1>4, <5>2, <5>3 DEF LoanListed, Handovers
      <4> QED BY <3>8, <4>1, <4>2 DEF Live
    <3>9. OneLive' BY <2>1, <3>3, <3>8 DEF OneLive, Live
    <3> QED BY <3>5, <3>6, <3>7, <3>9
  <2> QED BY <2>3, <2>4
<1>5. ASSUME NEW c \in Call, LoanRefused(c) PROVE Handover'
  <2>1. UNCHANGED <<requested, lost>> /\ LoanEnds(c) /\ calls[c].op = "loan"
    BY <1>5 DEF LoanRefused
  <2>2. calls'[c] = Idle /\ \A x \in Call \ {c} : calls'[x] = calls[x]
    BY <2>1 DEF LoanEnds, TypeOK
  <2>3. CASE calls[c].step = "asking" /\ UNCHANGED docs
    <3>1. calls[c].doc = None BY <2>3 DEF Handovers
    <3>2. Handovers' BY <2>1, <2>3, EndedCall
    <3>3. SentAwaited' /\ ApplicationsRecorded'
      BY <2>1, <2>2, <2>3, <3>1, LendingAssumption DEF SentAwaited, ApplicationsRecorded
    <3>4. OneLive' BY <2>1, <2>3 DEF OneLive, Live
    <3> QED BY <3>2, <3>3, <3>4
  <2>4. CASE /\ calls[c].step = "sending"
             /\ docs' = [docs EXCEPT ![calls[c].doc] = NoDoc]
    <3>1. calls[c].doc \in Doc BY <2>4 DEF Handovers, TypeOK, CallRow, Idle
    <3>2. docs'[calls[c].doc] = NoDoc
      BY <2>4, <3>1 DEF TypeOK
    <3>3. \A e \in Doc \ {calls[c].doc} : docs'[e] = docs[e]
      BY <2>4, <3>1 DEF TypeOK
    <3>4. \A x \in Call \ {c} : calls[x].doc # None => calls[x].doc \in Doc \ {calls[c].doc}
      BY <3>1, LendingAssumption DEF Handovers, TypeOK, CallRow, Idle
    <3>5. Handovers'
      BY <2>1, <2>2, <3>2, <3>3, <3>4 DEF LoanEnds, Handovers, Idle
    <3>6. SentAwaited' /\ ApplicationsRecorded'
      BY <2>1, <2>2, <3>2, <3>3, LendingAssumption
      DEF SentAwaited, ApplicationsRecorded, NoDoc
    <3>7. OneLive' BY <2>1, <3>2, <3>3 DEF OneLive, Live, NoDoc
    <3> QED BY <3>5, <3>6, <3>7
  <2> QED BY <1>5, <2>3, <2>4 DEF LoanRefused
<1>6. ASSUME NEW c \in Call, LoanAnswered(c) PROVE Handover'
  <2>1. /\ UNCHANGED <<docs, lost>> /\ LoanEnds(c) /\ calls[c].op = "loan"
        /\ requested' = requested \cup {calls[c].need}
    BY <1>6 DEF LoanAnswered
  <2>2. calls'[c] = Idle /\ \A x \in Call \ {c} : calls'[x] = calls[x]
    BY <2>1 DEF LoanEnds, TypeOK
  <2>3. Handovers' BY <2>1, EndedCall
  <2>4. SentAwaited' BY <1>6, <2>1, <2>2 DEF SentAwaited, LoanAnswered
  <2>5. ApplicationsRecorded'
    BY <2>1, <2>2, LendingAssumption DEF ApplicationsRecorded, Handovers
  <2>6. OneLive' BY <2>1 DEF OneLive, Live
  <2> QED BY <2>3, <2>4, <2>5, <2>6
<1>7. ASSUME NEW c \in Call, CallLost(c) PROVE Handover'
  <2>1. UNCHANGED <<requested, docs>> /\ lost' = lost \cup ({calls[c].doc} \ {None})
    BY <1>7 DEF CallLost, Unanswered
  <2>2. calls'[c] = Idle /\ \A x \in Call \ {c} : calls'[x] = calls[x]
    BY <1>7 DEF CallLost, LoanEnds, TypeOK
  <2>3. Handovers'
    <3>1. CASE calls[c].op = "loan" BY <1>7, <2>1, <3>1, EndedCall DEF CallLost
    <3>2. CASE calls[c].op # "loan"
      BY <1>7, <2>1, <2>2, <3>2 DEF CallLost, Handovers, Idle
    <3> QED BY <3>1, <3>2
  <2>4. SentAwaited' /\ ApplicationsRecorded'
    BY <2>1, <2>2, LendingAssumption DEF SentAwaited, ApplicationsRecorded
  <2>5. OneLive' BY <2>1 DEF OneLive, Live
  <2> QED BY <2>3, <2>4, <2>5
<1>8. CASE Restart
  <2>1. /\ UNCHANGED <<requested, docs>>
        /\ lost' = lost \cup ({calls[c].doc : c \in Call} \ {None})
        /\ calls' = [c \in Call |-> Idle]
    BY <1>8 DEF Restart, Unanswered
  <2>2. Handovers' BY <2>1 DEF Handovers, Idle
  <2>3. SentAwaited' /\ ApplicationsRecorded'
    BY <2>1, LendingAssumption DEF SentAwaited, ApplicationsRecorded
  <2>4. OneLive' BY <2>1 DEF OneLive, Live
  <2> QED BY <2>2, <2>3, <2>4
<1>9. CASE Lending
  <2>1. UNCHANGED <<requested, calls, inFlight, lost>>
    BY <1>9 DEF Lending, Inserts, Decides
  <2>2. PICK d \in Doc : Inserts(d) \/ Decides(d) BY <1>9 DEF Lending
  <2>3. \A e \in Doc \ {d} : docs'[e] = docs[e]
    BY <2>2 DEF Inserts, Decides, TypeOK
  <2>4. /\ docs'[d].need = docs[d].need /\ docs'[d].receivable = docs[d].receivable
        /\ \/ docs[d].status # "none" /\ docs'[d].status \notin {"none", "sent"}
           \/ docs'[d].status = docs[d].status
        /\ docs'[d].status \in {"Open", "Approved"} => Live(d)
    BY <2>2 DEF Inserts, Decides, TypeOK, DocRow, NoDoc, Live
  <2>5. Handovers'
    <3>1. \A e \in Doc : docs[e].status # "none" =>
            /\ docs'[e].status # "none" /\ docs'[e].need = docs[e].need
            /\ docs'[e].receivable = docs[e].receivable
      BY <2>3, <2>4
    <3>2. \A c \in Call : calls[c].doc # None => calls[c].doc \in Doc
      BY DEF TypeOK, CallRow, Idle
    <3> QED BY <2>1, <3>1, <3>2 DEF Handovers
  <2>6. SentAwaited' BY <2>1, <2>3, <2>4 DEF SentAwaited
  <2>7. ApplicationsRecorded' BY <2>1, <2>3, <2>4 DEF ApplicationsRecorded
  <2>8. OneLive' BY <2>1, <2>3, <2>4 DEF OneLive, Live
  <2> QED BY <2>5, <2>6, <2>7, <2>8
<1> QED
  BY <1>1, <1>2, <1>3, <1>4, <1>5, <1>6, <1>7, <1>8, <1>9, NextCases DEF Loaning

-----------------------------------------------------------------------------
(* Theorems. *)

LEMMA IInvInductive == Spec => []IInv
<1>1. IInv /\ [Next]_vars => IInv'
  BY TypeStep, ReserverStep, HandoverStep DEF IInv, Handover
<1> QED BY <1>1, InitHolds, PTL DEF Spec

(* A set is counted by comparing its members.                              *)
LEMMA AtMostOne ==
  ASSUME NEW S, \A x, y \in S : x = y
  PROVE  Cardinality(S) <= 1
<1>1. CASE S = {} BY <1>1, FS_EmptySet
<1>2. CASE S # {}
  <2>1. PICK x \in S : S = {x} BY <1>2
  <2>2. Cardinality({x}) = 1 BY FS_Singleton
  <2> QED BY <2>1, <2>2
<1> QED BY <1>1, <1>2

(* However needs are introduced, confirmed again and withdrawn, and        *)
(* whatever the desk does: a receivable is reserved by one need at most,   *)
(* and only while it is free.                                              *)
THEOREM ReservedByOne == Spec => []OneNeedPerReceivable
<1>1. IInv => OneNeedPerReceivable
  <2> SUFFICES ASSUME OneReserver, NEW r \in Receivable
               PROVE  /\ Cardinality(ConfirmedFor(r)) <= 1
                      /\ ConfirmedFor(r) # {} => stage[r] = "free"
    BY DEF IInv, OneNeedPerReceivable
  <2>1. \A m, n \in ConfirmedFor(r) : m = n BY DEF OneReserver, ConfirmedFor
  <2>2. ConfirmedFor(r) # {} => stage[r] = "free" BY DEF OneReserver, ConfirmedFor
  <2> QED BY <2>1, <2>2, AtMostOne
<1> QED BY <1>1, IInvInductive, PTL

(* Two handovers of one receivable never run at the same time, and what    *)
(* one has sent is waited for, so that the listing of the next finds it:   *)
(* of the applications whose answer was not lost one at most is open.      *)
THEOREM AppliedOnce == Spec => []OneApplication
<1>1. IInv => OneApplication
  <2> SUFFICES ASSUME OneLive, NEW r \in Receivable
               PROVE  Cardinality({d \in Doc \ lost : docs[d].receivable = r
                              /\ docs[d].status \in {"Open", "Approved"}}) <= 1
    BY DEF IInv, OneApplication
  <2> QED BY AtMostOne DEF OneLive, Live
<1> QED BY <1>1, IInvInductive, PTL

(* Every application at Lending has its event, its call still runs or its  *)
(* answer was lost.                                                        *)
THEOREM AllRecorded == Spec => []ApplicationsRecorded
  BY IInvInductive, PTL DEF IInv

-----------------------------------------------------------------------------
(* The abstract sale. *)

LEMMA SaleInit == Init => Sale!Init
<1> SUFFICES ASSUME Init PROVE Sale!Init OBVIOUS
<1>1. saleStage = [r \in Receivable |-> "free"]
  BY DEF Init, saleStage, ConfirmedFor
<1>2. saleOwner = [r \in Receivable |-> creditor] BY DEF Init, saleOwner
<1>3. saleBuyer = [r \in Receivable |-> None] BY DEF Init, saleBuyer
<1> QED BY <1>1, <1>2, <1>3 DEF Sale!Init

(* What a need gives up or takes is one receivable's pledge.               *)
LEMMA PledgeStep ==
  ASSUME TypeOK, OneReserver, NEW n \in Need, UNCHANGED stage,
         Loosened(n) \/ \E r \in Receivable : confirmCapitalNeed(n, r)
  PROVE  [Sale!Next]_(Sale!sale)
<1>1. UNCHANGED <<saleOwner, saleBuyer>> BY DEF saleOwner, saleBuyer
<1>2. CASE Loosened(n) /\ needs[n].status # "CONFIRMED"
  <2>1. \A m \in Need : needs'[m].status = "CONFIRMED" <=> needs[m].status = "CONFIRMED"
    BY <1>2 DEF Loosened, TypeOK, NeedRow
  <2>2. \A m \in Need : needs'[m].receivable = needs[m].receivable
    BY <1>2 DEF Loosened, TypeOK, NeedRow
  <2>3. \A r \in Receivable : ConfirmedFor(r)' = ConfirmedFor(r)
    BY <2>1, <2>2 DEF ConfirmedFor
  <2>4. saleStage' = saleStage BY <2>3 DEF saleStage
  <2> QED BY <1>1, <2>4 DEF Sale!sale
<1>3. CASE Loosened(n) /\ needs[n].status = "CONFIRMED"
  <2>1. PICK r \in Receivable : r = needs[n].receivable /\ stage[r] = "free"
    BY <1>3 DEF OneReserver
  <2>2. /\ needs'[n].status # "CONFIRMED"
        /\ \A m \in Need \ {n} : needs'[m] = needs[m]
    BY <1>3 DEF Loosened, TypeOK, NeedRow
  <2>3. \A q \in Receivable \ {r} : ConfirmedFor(q)' = ConfirmedFor(q)
    BY <2>1, <2>2 DEF ConfirmedFor
  <2>4. ConfirmedFor(r)' = {}
    BY <1>3, <2>1, <2>2 DEF ConfirmedFor, OneReserver
  <2>5. n \in ConfirmedFor(r) BY <1>3, <2>1 DEF ConfirmedFor
  <2>6. saleStage[r] = "pledged" BY <2>1, <2>5 DEF saleStage
  <2>7. saleStage' = [saleStage EXCEPT ![r] = "free"]
    BY <2>1, <2>3, <2>4 DEF saleStage
  <2> QED BY <1>1, <2>1, <2>6, <2>7 DEF Sale!Next, Sale!Release, Sale!Moves
<1>4. ASSUME NEW r \in Receivable, confirmCapitalNeed(n, r)
      PROVE  Sale!Pledge(r)
  <2>1. /\ stage[r] = "free" /\ ConfirmedFor(r) \ {n} = {}
        /\ needs[n].status # "CONFIRMED"
        /\ needs'[n].status = "CONFIRMED" /\ needs'[n].receivable = r
        /\ \A m \in Need \ {n} : needs'[m] = needs[m]
    BY <1>4 DEF confirmCapitalNeed, assertNotForSale, TypeOK
  <2>2. ConfirmedFor(r) = {} BY <2>1 DEF ConfirmedFor
  <2>3. n \in ConfirmedFor(r)' BY <2>1 DEF ConfirmedFor
  <2>4. \A q \in Receivable \ {r} : ConfirmedFor(q)' = ConfirmedFor(q)
    BY <2>1 DEF ConfirmedFor
  <2>5. saleStage[r] = "free" BY <2>1, <2>2 DEF saleStage
  <2>6. saleStage' = [saleStage EXCEPT ![r] = "pledged"]
    BY <2>1, <2>3, <2>4 DEF saleStage
  <2> QED BY <1>1, <2>5, <2>6 DEF Sale!Pledge, Sale!Moves
<1> QED BY <1>2, <1>3, <1>4 DEF Sale!Next

(* A move of the stage of a receivable that no need reserves.              *)
LEMMA Moved ==
  ASSUME TypeOK, NEW r \in Receivable, NEW from, NEW to, StageMoves(r, from, to),
         stage[r] # "free" \/ ConfirmedFor(r) = {},
         to # "free" \/ ConfirmedFor(r) = {}
  PROVE  /\ saleStage[r] \in from
         /\ saleStage' = [saleStage EXCEPT ![r] = to]
<1>1. /\ stage[r] \in from /\ stage' = [stage EXCEPT ![r] = to] /\ UNCHANGED needs
  BY DEF StageMoves
<1>2. \A q \in Receivable : ConfirmedFor(q)' = ConfirmedFor(q)
  BY <1>1 DEF ConfirmedFor
<1>3. saleStage[r] = stage[r] BY DEF saleStage
<1>4. saleStage'[r] = to BY <1>1, <1>2 DEF saleStage, TypeOK
<1>5. \A q \in Receivable \ {r} : saleStage'[q] = saleStage[q]
  BY <1>1, <1>2 DEF saleStage, TypeOK
<1> QED BY <1>1, <1>3, <1>4, <1>5 DEF saleStage

LEMMA SaleStep ==
  ASSUME TypeOK, OneReserver, NEW r \in Receivable,
         Offered(r) \/ OfferWithdrawn(r) \/ Struck(r) \/ Paid(r)
  PROVE  Sale!Next
<1>1. stage[r] # "free" => ConfirmedFor(r) = {} BY DEF ConfirmedFor, OneReserver
<1>2. CASE Offered(r)
  <2>1. StageMoves(r, {"free"}, "offered") /\ ConfirmedFor(r) = {}
    BY <1>2 DEF Offered, assertNotFinanced
  <2>2. UNCHANGED <<saleOwner, saleBuyer>>
    BY <2>1 DEF saleOwner, saleBuyer, StageMoves, TypeOK
  <2> QED BY <2>1, <2>2, Moved DEF Sale!Next, Sale!PutUp, Sale!Moves
<1>3. CASE OfferWithdrawn(r)
  <2>1. StageMoves(r, {"offered"}, "free") /\ ConfirmedFor(r) = {}
    BY <1>1, <1>3 DEF OfferWithdrawn, StageMoves
  <2>2. UNCHANGED <<saleOwner, saleBuyer>>
    BY <2>1 DEF saleOwner, saleBuyer, StageMoves, TypeOK
  <2> QED BY <2>1, <2>2, Moved DEF Sale!Next, Sale!Withdraw, Sale!Moves
<1>4. CASE Struck(r)
  <2>1. StageMoves(r, {"free", "offered"}, "pending") /\ ConfirmedFor(r) = {}
    BY <1>4 DEF Struck, assertNotFinanced
  <2>2. saleOwner' = saleOwner BY <2>1 DEF saleOwner, StageMoves, TypeOK
  <2>3. saleBuyer' = [saleBuyer EXCEPT ![r] = buyer]
    <3>1. stage' = [stage EXCEPT ![r] = "pending"] BY <2>1 DEF StageMoves
    <3>2. stage'[r] = "pending" /\ \A q \in Receivable \ {r} : stage'[q] = stage[q]
      BY <3>1 DEF TypeOK
    <3> QED BY <3>2 DEF saleBuyer
  <2>4. /\ saleStage[r] \in {"free", "offered"}
        /\ saleStage' = [saleStage EXCEPT ![r] = "pending"]
    BY <2>1, Moved
  <2>5. Sale!Strike(r, buyer)
    BY <2>2, <2>3, <2>4 DEF Sale!Strike, Sale!Moves
  <2> QED BY <2>5 DEF Sale!Next
<1>5. CASE Paid(r)
  <2>1. PICK to \in {"failed", "sold"} : StageMoves(r, {"pending"}, to)
    BY <1>5 DEF Paid
  <2>2. /\ saleStage[r] \in {"pending"}
        /\ saleStage' = [saleStage EXCEPT ![r] = to]
    BY <1>1, <2>1, Moved DEF StageMoves
  <2>3. saleBuyer' = saleBuyer BY <2>1 DEF saleBuyer, StageMoves, TypeOK
  <2>4. CASE to = "failed"
    <3>1. saleOwner' = saleOwner BY <2>1, <2>4 DEF saleOwner, StageMoves, TypeOK
    <3>2. Sale!Fail(r) BY <2>2, <2>3, <2>4, <3>1 DEF Sale!Fail, Sale!Moves
    <3> QED BY <3>2 DEF Sale!Next
  <2>5. CASE to = "sold"
    <3>1. saleBuyer[r] = buyer BY <2>1 DEF saleBuyer, StageMoves
    <3>2. saleOwner' = [saleOwner EXCEPT ![r] = buyer]
      BY <2>1, <2>5 DEF saleOwner, StageMoves, TypeOK
    <3>3. Sale!Settle(r)
      BY <2>2, <2>3, <2>5, <3>1, <3>2 DEF Sale!Settle, Sale!Moves
    <3> QED BY <3>3 DEF Sale!Next
  <2> QED BY <2>4, <2>5
<1> QED BY <1>2, <1>3, <1>4, <1>5

LEMMA SaleNext == ASSUME IInv, [Next]_vars PROVE [Sale!Next]_(Sale!sale)
<1> USE DEF IInv
<1>1. ASSUME UNCHANGED <<needs, stage>> PROVE UNCHANGED Sale!sale
  <2>1. \A r \in Receivable : ConfirmedFor(r)' = ConfirmedFor(r)
    BY <1>1 DEF ConfirmedFor
  <2> QED BY <1>1, <2>1 DEF saleStage, saleOwner, saleBuyer, Sale!sale
<1>2. CASE OnNeeds \/ Withdrawing BY <1>1, <1>2, NeedMoves, PledgeStep
<1>3. CASE Loaning \/ Lending \/ UNCHANGED vars
  <2>1. UNCHANGED <<needs, stage>>
    BY <1>3 DEF Loaning, requestCapitalNeedLoan, LoanBegins, LoanListed, LoanRefused,
        LoanAnswered, CallLost, Restart, Lending, Inserts, Decides, vars
  <2> QED BY <1>1, <2>1
<1>4. CASE Selling BY <1>4, SaleStep DEF Selling
<1> QED BY <1>2, <1>3, <1>4, NextCases

(* Financing and sale never meet: confirming pledges a receivable that the *)
(* desk has free, losing the confirmation releases it, and the desk's      *)
(* moves are those of a sale.                                              *)
THEOREM LendingImplementsSale == Spec => ImplementsSale
<1>1. IInv /\ [Next]_vars => [Sale!Next]_(Sale!sale) BY SaleNext
<1> QED BY <1>1, IInvInductive, SaleInit, PTL DEF Spec, ImplementsSale, Sale!Spec
=============================================================================
