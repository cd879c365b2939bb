---- MODULE ClaimMarket_proofs ----
(* Claims and their log, for any set of users, claims, listings, disputes and   *)
(* running calls, and logs of any length: the log tells the status of its claim *)
(* and a disputed claim has an undecided dispute, however the handlers of the   *)
(* earlier product interleave and wherever one of them is cut off.              *)
EXTENDS ClaimMarket, SequenceTheorems, TLAPS

-----------------------------------------------------------------------------
(* Invariants.                                                                *)

ClaimRow == [status : ClaimStatus \cup {"ABSENT"}, creator : User \cup {None},
             parties : SUBSET User]

ListingRow == [status : ListingStatus \cup {"ABSENT"}, claim : Claim \cup {None},
               seller : User \cup {None}, buyer : User \cup {None}]

DisputeRow == [status : DisputeStatus \cup {"ABSENT"}, claim : Claim \cup {None},
               claimant : User \cup {None}, respondent : User \cup {None}]

EntryType == {"claim_created", "transaction_created", "claim_updated",
    "claim_published", "claim_transferred", "transaction_funded",
    "transaction_transferred", "transaction_settled", "marketplace_listing_bought",
    "settlement_event", "dispute_opened", "dispute_resolved", "dispute_updated"}

EntryRow == [type : EntryType, actor : User \cup {None}, tells : ClaimStatus \cup {None}]

CallRow == [op : {"fund", "transfer", "settle", "buy"}, at : {"idle", "read", "filled"},
            actor : User \cup {None}, claim : Claim \cup {None},
            listing : Listing \cup {None}, next : ClaimStatus \cup {None}]

TypeOK ==
    /\ claims \in [Claim -> ClaimRow]
    /\ listings \in [Listing -> ListingRow]
    /\ disputes \in [Dispute -> DisputeRow]
    /\ log \in [Claim -> Seq(EntryRow)]
    /\ calls \in [Call -> CallRow]

(* Nothing is said of a claim before it exists.                               *)
NothingBefore == \A c \in Claim : ~Exists(c) => log[c] = <<>>

(* What refers to a claim, a running call too, refers to one that exists; and *)
(* the lifecycle's calls take it to a status of the lifecycle, never DISPUTED. *)
Referring ==
    /\ \A l \in Listing : listings[l].status # "ABSENT" =>
           listings[l].claim \in Claim /\ Exists(listings[l].claim)
    /\ \A d \in Dispute : disputes[d].status # "ABSENT" =>
           disputes[d].claim \in Claim /\ Exists(disputes[d].claim)
    /\ \A x \in Call : calls[x].at # "idle" =>
           /\ calls[x].claim \in Claim /\ Exists(calls[x].claim)
           /\ calls[x].actor \in User
           /\ calls[x].op = "buy" => calls[x].listing \in Listing
                                     /\ listings[calls[x].listing].status # "ABSENT"
           /\ calls[x].op # "buy" => calls[x].at = "read"
                /\ calls[x].next \in {"ACCEPTED", "ACTIVE", "PARTIALLY_SETTLED", "SETTLED"}

IInv == TypeOK /\ NothingBefore /\ Referring /\ LogTellsStatus

-----------------------------------------------------------------------------
(* Logs.                                                                      *)

(* A log says s where its last telling entry, if it has one, tells s.         *)
Says(L, s) ==
    \A i \in DOMAIN L :
        L[i].tells # None /\ (\A j \in DOMAIN L : L[j].tells # None => j <= i)
            => L[i].tells = s

LEMMA LogSays == LogTellsStatus <=> \A c \in Claim : Says(log[c], claims[c].status)
BY DEF LogTellsStatus, Telling, Says

(* An entry that tells a status decides what the log says; another keeps it.  *)
LEMMA OneMore ==
    ASSUME NEW L \in Seq(EntryRow), NEW s, Says(L, s), NEW e \in EntryRow,
           NEW t, IF e.tells = None THEN t = s ELSE t = e.tells
    PROVE  L \o <<e>> \in Seq(EntryRow) /\ Says(L \o <<e>>, t)
<1>. PICK n : n = Len(L)
  OBVIOUS
<1>. PICK M : M = L \o <<e>>
  OBVIOUS
<1>1. /\ n \in Nat /\ DOMAIN L = 1..n
      /\ M \in Seq(EntryRow) /\ DOMAIN M = 1..(n + 1)
      /\ \A i \in 1..n : M[i] = L[i]
      /\ M[n + 1] = e
  OBVIOUS
<1>2. ASSUME NEW i \in 1..(n + 1), M[i].tells # None,
             \A j \in 1..(n + 1) : M[j].tells # None => j <= i
      PROVE  M[i].tells = t
  <2>1. CASE i = n + 1
    BY <1>1, <1>2, <2>1
  <2>2. CASE i <= n
    <3>1. i \in 1..n /\ n + 1 \in 1..(n + 1) /\ ~(n + 1 <= i)
      BY <1>1, <2>2
    <3>2. e.tells = None
      BY <1>1, <1>2, <3>1
    <3>3. \A j \in 1..n : L[j].tells # None => j <= i
      BY <1>1, <1>2
    <3>. QED
      BY <1>1, <1>2, <3>1, <3>2, <3>3 DEF Says
  <2>. QED
    BY <1>1, <2>1, <2>2
<1>. QED
  BY <1>1, <1>2 DEF Says

(* What a handler does to a claim c, its log and, by that, to all of them:    *)
(* it enters e, and the claim is in status t afterwards.                      *)
Entered(c, t, e) ==
    /\ claims' \in [Claim -> ClaimRow]
    /\ claims'[c].status = t
    /\ \A k \in Claim \ {c} : claims'[k].status = claims[k].status
    /\ log' = [log EXCEPT ![c] = @ \o <<e>>]
    /\ t \in ClaimStatus /\ e \in EntryRow
    /\ \/ e.tells = t
       \/ e.tells = None /\ (t = claims[c].status \/ ~Exists(c))

(* After it, claims that existed do, and the log tells the status.            *)
Kept ==
    /\ claims' \in [Claim -> ClaimRow]
    /\ log' \in [Claim -> Seq(EntryRow)]
    /\ \A c \in Claim : Exists(c) => Exists(c)'
    /\ \A c \in Claim : ~Exists(c)' => log'[c] = <<>>
    /\ LogTellsStatus'

LEMMA EnteredKeeps ==
    ASSUME IInv, NEW c \in Claim, NEW t, NEW e, Entered(c, t, e)
    PROVE  Kept
<1>1. /\ log \in [Claim -> Seq(EntryRow)] /\ claims \in [Claim -> ClaimRow]
      /\ None \notin ClaimStatus /\ "ABSENT" \notin ClaimStatus
      /\ \A k \in Claim : Says(log[k], claims[k].status)
  BY LogSays, GivenAssumption DEF IInv, TypeOK, ClaimStatus
<1>2. log[c] \o <<e>> \in Seq(EntryRow) /\ Says(log[c] \o <<e>>, t)
  <2>1. CASE e.tells = t
    BY <1>1, <2>1, OneMore DEF Entered
  <2>2. CASE e.tells = None /\ t = claims[c].status
    BY <1>1, <2>2, OneMore DEF Entered
  <2>3. CASE e.tells = None /\ ~Exists(c)
    <3>1. log[c] = <<>> /\ Says(log[c], t)
      BY <2>3 DEF IInv, NothingBefore, Says
    <3>. QED
      BY <1>1, <2>3, <3>1, OneMore DEF Entered
  <2>. QED
    BY <2>1, <2>2, <2>3 DEF Entered
<1>3. /\ log'[c] = log[c] \o <<e>>
      /\ \A k \in Claim \ {c} : log'[k] = log[k]
      /\ log' \in [Claim -> Seq(EntryRow)]
  BY <1>1, <1>2 DEF Entered
<1>4. \A k \in Claim : Says(log'[k], claims'[k].status)
  BY <1>1, <1>2, <1>3 DEF Entered
<1>5. LogTellsStatus'
  BY <1>4, LogSays DEF LogTellsStatus, Telling, Says
<1>. QED
  BY <1>1, <1>3, <1>5 DEF Entered, Kept, Exists, IInv, NothingBefore

LEMMA UnchangedKeeps ==
    ASSUME IInv, claims' = claims, log' = log
    PROVE  Kept
BY DEF IInv, TypeOK, NothingBefore, Exists, Kept, LogTellsStatus, Telling


(* The rest of the state where nobody writes it.                              *)
Others == <<listings, disputes, calls>>

LEMMA ReferringKept ==
    ASSUME IInv, Kept, UNCHANGED Others
    PROVE  IInv'
BY DEF IInv, TypeOK, NothingBefore, Referring, Kept, Others

LEMMA ListingKept ==
    ASSUME IInv, Kept, disputes' = disputes, calls' \in [Call -> CallRow],
           \A x \in Call : calls'[x] \in {calls[x], Idle},
           NEW l \in Listing, NEW s \in ListingStatus, NEW c \in Claim, Exists(c)',
           NEW seller \in User, NEW buyer \in User \cup {None},
           NewListing(l, s, c, seller, buyer)
    PROVE  IInv'
<1>. PICK row : row = [status |-> s, claim |-> c, seller |-> seller, buyer |-> buyer]
  OBVIOUS
<1>1. row \in ListingRow /\ row.status # "ABSENT" /\ row.claim = c
  BY DEF ListingRow, ListingStatus
<1>2. listings' = [listings EXCEPT ![l] = row] /\ listings[l].status = "ABSENT"
  BY DEF NewListing
<1>3. listings \in [Listing -> ListingRow]
  BY DEF IInv, TypeOK
<1>4. TypeOK' /\ NothingBefore' /\ LogTellsStatus'
  BY <1>1, <1>2, <1>3 DEF IInv, TypeOK, NothingBefore, Kept
<1>5. \A m \in Listing : listings'[m] = IF m = l THEN row ELSE listings[m]
  BY <1>2, <1>3
<1>6. \A m \in Listing : listings[m].status # "ABSENT" => listings'[m].status # "ABSENT"
  BY <1>1, <1>5
<1>7. \A x \in Call : calls'[x].at # "idle" => calls'[x] = calls[x]
  BY DEF Idle
<1>8. Referring'
  BY <1>1, <1>5, <1>6, <1>7 DEF IInv, Referring, Kept
<1>. QED
  BY <1>4, <1>8 DEF IInv

LEMMA DisputeKept ==
    ASSUME IInv, Kept, UNCHANGED <<listings, calls>>,
           NEW d \in Dispute, NEW c \in Claim, Exists(c)',
           NEW claimant \in User, NEW respondent \in User,
           NewDispute(d, c, claimant, respondent)
    PROVE  /\ IInv'
           /\ disputes'[d].claim = c /\ disputes'[d].status = "OPEN"
           /\ \A e \in Dispute \ {d} : disputes'[e] = disputes[e]
           /\ disputes[d].status = "ABSENT"
<1>. PICK row : row = [status |-> "OPEN", claim |-> c, claimant |-> claimant,
                       respondent |-> respondent]
  OBVIOUS
<1>1. row \in DisputeRow /\ row.status = "OPEN" /\ row.claim = c
  BY DEF DisputeRow, DisputeStatus
<1>2. disputes' = [disputes EXCEPT ![d] = row] /\ disputes[d].status = "ABSENT"
  BY DEF NewDispute
<1>3. disputes \in [Dispute -> DisputeRow]
  BY DEF IInv, TypeOK
<1>4. TypeOK' /\ NothingBefore' /\ LogTellsStatus'
  BY <1>1, <1>2, <1>3 DEF IInv, TypeOK, NothingBefore, Kept
<1>5. \A e \in Dispute : disputes'[e] = IF e = d THEN row ELSE disputes[e]
  BY <1>2, <1>3
<1>6. Referring'
  BY <1>1, <1>2, <1>5 DEF IInv, Referring, Kept
<1>. QED
  BY <1>1, <1>2, <1>4, <1>5, <1>6 DEF IInv

(* A call that ends, or is cut off.                                           *)
LEMMA CallEnds ==
    ASSUME IInv, NEW x \in Call
    PROVE  /\ [calls EXCEPT ![x] = Idle] \in [Call -> CallRow]
           /\ \A y \in Call : [calls EXCEPT ![x] = Idle][y] =
                                  IF y = x THEN Idle ELSE calls[y]
           /\ Idle.at = "idle"
BY DEF IInv, TypeOK, CallRow, Idle

LEMMA IdleKept ==
    ASSUME IInv, Kept, UNCHANGED <<listings, disputes>>,
           NEW x \in Call, calls' = [calls EXCEPT ![x] = Idle]
    PROVE  IInv'
<1>1. TypeOK' /\ NothingBefore' /\ LogTellsStatus'
  BY CallEnds DEF IInv, TypeOK, NothingBefore, Kept
<1>2. Referring'
  BY CallEnds DEF IInv, Referring, Kept
<1>. QED
  BY <1>1, <1>2 DEF IInv


-----------------------------------------------------------------------------
(* Steps.                                                                     *)

(* What clients send can make a claim DISPUTED without a dispute.             *)
OnACase == "DISPUTED" \notin Given => DisputedOnACase

LEMMA SameCases ==
    ASSUME OnACase, disputes' = disputes,
           \A c \in Claim : claims'[c].status = "DISPUTED" =>
               claims[c].status = "DISPUTED" \/ "DISPUTED" \in Given
    PROVE  OnACase'
BY DEF OnACase, DisputedOnACase

LEMMA InitHolds == Init => IInv /\ OnACase
<1>. SUFFICES ASSUME Init PROVE IInv /\ OnACase
  OBVIOUS
<1>1. TypeOK
  BY DEF Init, TypeOK, ClaimRow, ListingRow, DisputeRow, CallRow, Idle
<1>2. NothingBefore /\ Referring /\ LogTellsStatus /\ OnACase
  BY DEF Init, NothingBefore, Referring, LogTellsStatus, Telling, OnACase,
         DisputedOnACase, Idle
<1>. QED
  BY <1>1, <1>2 DEF IInv

(* A handler writes the status of c.                                          *)
Writes(c, t) == claims' = [claims EXCEPT ![c].status = t]

(* A handler that writes the status of c, and an entry that tells it or does  *)
(* not have to.                                                               *)
LEMMA WritesStatus ==
    ASSUME IInv, NEW c \in Claim, NEW t \in ClaimStatus, NEW e \in EntryRow,
           e.tells = t \/ (e.tells = None /\ (t = claims[c].status \/ ~Exists(c))),
           Writes(c, t), Logged(c, <<e>>)
    PROVE  /\ Kept /\ Exists(c)'
           /\ \A k \in Claim : claims'[k].status = IF k = c THEN t ELSE claims[k].status
<1>1. claims \in [Claim -> ClaimRow] /\ "ABSENT" \notin ClaimStatus
  BY DEF IInv, TypeOK, ClaimStatus
<1>2. /\ claims' \in [Claim -> ClaimRow]
      /\ \A k \in Claim : claims'[k].status = IF k = c THEN t ELSE claims[k].status
  BY <1>1 DEF ClaimRow, Writes
<1>3. Entered(c, t, e)
  BY <1>2 DEF Entered, Logged
<1>. QED
  BY <1>1, <1>2, <1>3, EnteredKeeps DEF Exists

LEMMA CreatedHolds ==
    ASSUME IInv, OnACase, NEW c \in Claim, NEW u \in User, NEW t \in ClaimStatus,
           NEW P \in SUBSET User, NEW e \in EntryRow, e.tells \in {t, None},
           t = "DISPUTED" => "DISPUTED" \in Given, Created(c, u, t, P, e)
    PROVE  IInv' /\ OnACase'
<1>. PICK row : row = [status |-> t, creator |-> u, parties |-> P]
  OBVIOUS
<1>1. row \in ClaimRow /\ row.status = t
  BY DEF ClaimRow
<1>2. /\ claims' = [claims EXCEPT ![c] = row] /\ ~Exists(c) /\ Logged(c, <<e>>)
      /\ UNCHANGED Others
  BY DEF Created, Others
<1>3. claims \in [Claim -> ClaimRow]
  BY DEF IInv, TypeOK
<1>4. Entered(c, t, e)
  BY <1>1, <1>2, <1>3 DEF Entered, Logged
<1>5. IInv'
  BY <1>2, <1>4, EnteredKeeps, ReferringKept
<1>6. OnACase'
  BY <1>1, <1>2, <1>3, SameCases DEF Others
<1>. QED
  BY <1>5, <1>6

LEMMA ClaimsHold ==
    ASSUME IInv, OnACase, NEW c \in Claim, NEW u \in User, claimsRouter(c, u)
    PROVE  IInv' /\ OnACase'
<1>1. ASSUME NEW s \in Given, NEW P \in SUBSET User, createClaim(c, u, s, P)
      PROVE  IInv' /\ OnACase'
  <2>. PICK e : e = Entry("claim_created", None, None)
    OBVIOUS
  <2>1. e \in EntryRow /\ e.tells = None /\ s \in ClaimStatus
    BY GivenAssumption DEF Entry, EntryRow, EntryType
  <2>. QED
    BY <1>1, <2>1, CreatedHolds DEF createClaim
<1>2. ASSUME NEW s \in Given \cup {None}, update(c, u, s)
      PROVE  IInv' /\ OnACase'
  <2>. PICK t : t = IF s = None THEN claims[c].status ELSE s
    OBVIOUS
  <2>. PICK e : e = Entry("claim_updated", None, s)
    OBVIOUS
  <2>1. e \in EntryRow /\ e.tells = s
    BY GivenAssumption DEF Entry, EntryRow, EntryType
  <2>2. /\ t \in ClaimStatus
        /\ Writes(c, t)
    BY <1>2, GivenAssumption
    DEF update, assertCanManageClaim, Exists, IInv, TypeOK, ClaimRow, Writes
  <2>. Logged(c, <<e>>) /\ (e.tells = t \/ (e.tells = None /\ t = claims[c].status))
    BY <1>2, <2>1 DEF update
  <2>3. /\ Kept
        /\ \A k \in Claim : claims'[k].status = IF k = c THEN t ELSE claims[k].status
    BY <2>1, <2>2, WritesStatus
  <2>4. IInv'
    BY <1>2, <2>3, ReferringKept DEF update, Others
  <2>5. OnACase'
    BY <1>2, <2>3, SameCases DEF update
  <2>. QED
    BY <2>4, <2>5
<1>3. ASSUME NEW l \in Listing, NEW s \in ListingStatus, publish(c, u, l, s)
      PROVE  IInv' /\ OnACase'
  <2>. PICK e : e = Entry("claim_published", None, "ACTIVE")
    OBVIOUS
  <2>1. e \in EntryRow /\ e.tells = "ACTIVE" /\ "ACTIVE" \in ClaimStatus
    BY DEF Entry, EntryRow, EntryType, ClaimStatus
  <2>. /\ Logged(c, <<e>>)
       /\ Writes(c, "ACTIVE")
    BY <1>3 DEF publish, Writes
  <2>2. /\ Kept /\ Exists(c)'
        /\ \A k \in Claim : claims'[k].status = IF k = c THEN "ACTIVE" ELSE claims[k].status
    BY <2>1, WritesStatus
  <2>3. IInv'
    BY <1>3, <2>2, ListingKept DEF publish, IInv, TypeOK
  <2>4. OnACase'
    BY <1>3, <2>2, SameCases DEF publish
  <2>. QED
    BY <2>3, <2>4
<1>4. CASE claimTransfer(c, u)
  <2>. PICK e : e = Entry("claim_transferred", u, None)
    OBVIOUS
  <2>1. e \in EntryRow /\ e.tells = None
    BY DEF Entry, EntryRow, EntryType
  <2>2. claims[c].status \in ClaimStatus /\ claims \in [Claim -> ClaimRow]
    BY <1>4 DEF claimTransfer, assertCanManageClaim, Exists, IInv, TypeOK, ClaimRow
  <2>3. Entered(c, claims[c].status, e)
    BY <1>4, <2>1, <2>2 DEF claimTransfer, Logged, Entered
  <2>4. IInv'
    BY <1>4, <2>3, EnteredKeeps, ReferringKept DEF claimTransfer, Others
  <2>5. OnACase'
    BY <1>4, SameCases DEF claimTransfer
  <2>. QED
    BY <2>4, <2>5
<1>. QED
  BY <1>1, <1>2, <1>3, <1>4 DEF claimsRouter


(* A call that begins with a row of its own.                                  *)
LEMMA BegunHolds ==
    ASSUME IInv, OnACase, NEW x \in Call, NEW row \in CallRow, row.at = "read",
           calls' = [calls EXCEPT ![x] = row],
           UNCHANGED <<claims, listings, disputes, log>>,
           row.claim \in Claim, Exists(row.claim), row.actor \in User,
           row.op = "buy" => row.listing \in Listing
                             /\ listings[row.listing].status # "ABSENT",
           row.op # "buy" =>
               row.next \in {"ACCEPTED", "ACTIVE", "PARTIALLY_SETTLED", "SETTLED"}
    PROVE  IInv' /\ OnACase'
<1>1. Kept
  BY UnchangedKeeps
<1>2. calls \in [Call -> CallRow]
  BY DEF IInv, TypeOK
<1>3. /\ calls' \in [Call -> CallRow]
      /\ \A y \in Call : calls'[y] = IF y = x THEN row ELSE calls[y]
  BY <1>2
<1>4. TypeOK' /\ NothingBefore' /\ LogTellsStatus'
  BY <1>1, <1>3 DEF IInv, TypeOK, NothingBefore, Kept
<1>5. Referring'
  BY <1>3 DEF IInv, Referring, Exists
<1>. QED
  BY <1>4, <1>5, SameCases DEF IInv

LEMMA LifecycleHolds ==
    ASSUME IInv, OnACase, NEW c \in Claim, NEW u \in User,
           transactionLifecycleRouter(c, u)
    PROVE  IInv' /\ OnACase'
<1>1. ASSUME NEW P \in SUBSET User, createTransaction(c, u, P)
      PROVE  IInv' /\ OnACase'
  <2>. PICK e : e = Entry("transaction_created", u, "ISSUED")
    OBVIOUS
  <2>1. e \in EntryRow /\ e.tells = "ISSUED" /\ "ISSUED" \in ClaimStatus
    BY DEF Entry, EntryRow, EntryType, ClaimStatus
  <2>2. Created(c, u, "ISSUED", P, e)
    BY <1>1 DEF createTransaction
  <2>. QED
    BY <2>1, <2>2, CreatedHolds
<1>2. ASSUME NEW x \in Call, NEW op \in {"fund", "transfer", "settle"},
             NEW next \in TargetOf(op), ReadsClaim(x, op, c, u, next)
      PROVE  IInv' /\ OnACase'
  <2>. PICK row : row = [op |-> op, at |-> "read", actor |-> u, claim |-> c,
                         listing |-> None, next |-> next]
    OBVIOUS
  <2>1. next \in {"ACCEPTED", "ACTIVE", "PARTIALLY_SETTLED", "SETTLED"}
    BY DEF TargetOf
  <2>2. /\ row \in CallRow /\ row.at = "read" /\ row.claim = c /\ row.actor = u
        /\ row.op # "buy" /\ row.next = next
    BY <2>1 DEF CallRow, ClaimStatus
  <2>3. /\ calls' = [calls EXCEPT ![x] = row] /\ Exists(c)
        /\ UNCHANGED <<claims, listings, disputes, log>>
    BY <1>2 DEF ReadsClaim, Begins, assertCanActOnClaim
  <2>. QED
    BY <2>1, <2>2, <2>3, BegunHolds
<1>. QED
  BY <1>1, <1>2 DEF transactionLifecycleRouter

LEMMA MarketplaceHolds ==
    ASSUME IInv, OnACase, NEW l \in Listing, NEW u \in User, marketplaceRouter(l, u)
    PROVE  IInv' /\ OnACase'
<1>1. ASSUME NEW c \in Claim, createListing(c, u, l)
      PROVE  IInv' /\ OnACase'
  <2>1. Kept /\ Exists(c)'
    BY <1>1, UnchangedKeeps DEF createListing, assertCanManageClaim, Exists
  <2>2. IInv'
    BY <1>1, <2>1, ListingKept DEF createListing, ListingStatus, IInv, TypeOK
  <2>. QED
    BY <1>1, <2>2, SameCases DEF createListing
<1>2. ASSUME NEW x \in Call, buyListing(x, l, u)
      PROVE  IInv' /\ OnACase'
  <2>. PICK c : c = listings[l].claim
    OBVIOUS
  <2>. PICK row : row = [op |-> "buy", at |-> "read", actor |-> u, claim |-> c,
                         listing |-> l, next |-> None]
    OBVIOUS
  <2>1. listings[l].status # "ABSENT"
    BY <1>2 DEF buyListing, Available, ListingStatus
  <2>2. c \in Claim /\ Exists(c)
    BY <2>1 DEF IInv, Referring
  <2>3. /\ row \in CallRow /\ row.at = "read" /\ row.claim = c /\ row.actor = u
        /\ row.op = "buy" /\ row.listing = l
    BY <2>2 DEF CallRow
  <2>4. /\ calls' = [calls EXCEPT ![x] = row]
        /\ UNCHANGED <<claims, listings, disputes, log>>
    BY <1>2 DEF buyListing, Begins
  <2>. QED
    BY <2>1, <2>2, <2>3, <2>4, BegunHolds
<1>. QED
  BY <1>1, <1>2 DEF marketplaceRouter

(* The status that fund, transfer and settle write, with its entry.           *)
LEMMA CommitHolds ==
    ASSUME IInv, NEW x \in Call, calls[x].op # "buy", calls[x].at = "read",
           NEW type \in EntryType, Commits(x, type)
    PROVE  /\ Kept /\ calls[x].claim \in Claim
           /\ claims'[calls[x].claim].status # "ABSENT"
           /\ calls[x].actor \in User
           /\ \A k \in Claim : claims'[k].status = "DISPUTED" =>
                  claims[k].status = "DISPUTED"
           /\ calls' = [calls EXCEPT ![x] = Idle]
<1>. PICK c : c = calls[x].claim
  OBVIOUS
<1>. PICK t : t = calls[x].next
  OBVIOUS
<1>. PICK e : e = Entry(type, calls[x].actor, t)
  OBVIOUS
<1>1. /\ c \in Claim /\ calls[x].actor \in User
      /\ t \in {"ACCEPTED", "ACTIVE", "PARTIALLY_SETTLED", "SETTLED"}
  BY DEF IInv, Referring
<1>2. t \in ClaimStatus /\ t # "DISPUTED" /\ e \in EntryRow /\ e.tells = t
  BY <1>1 DEF Entry, EntryRow, ClaimStatus
<1>3. /\ Writes(c, t) /\ Logged(c, <<e>>)
      /\ calls' = [calls EXCEPT ![x] = Idle]
  BY DEF Commits, Writes
<1>4. /\ Kept /\ Exists(c)'
      /\ \A k \in Claim : claims'[k].status = IF k = c THEN t ELSE claims[k].status
  BY <1>1, <1>2, <1>3, WritesStatus
<1>5. claims'[c].status # "ABSENT"
  BY <1>4 DEF Exists
<1>. QED
  BY <1>1, <1>2, <1>3, <1>4, <1>5

LEMMA CallsHold ==
    ASSUME IInv, OnACase, NEW x \in Call, GoesOn(x)
    PROVE  IInv' /\ OnACase'
<1>1. ASSUME NEW fromEscrow \in BOOLEAN, fund(x, fromEscrow)
      PROVE  IInv' /\ OnACase'
  BY <1>1, CommitHolds, IdleKept, SameCases DEF fund, EntryType
<1>2. CASE settle(x)
  BY <1>2, CommitHolds, IdleKept, SameCases DEF settle, EntryType
<1>3. CASE CallFails(x)
  BY <1>3, UnchangedKeeps, IdleKept, SameCases DEF CallFails
<1>4. ASSUME NEW l \in Listing, NEW buyer \in User, transfer(x, l, buyer)
      PROVE  IInv' /\ OnACase'
  <2>. PICK c : c = calls[x].claim
    OBVIOUS
  <2>. PICK seller : seller = calls[x].actor
    OBVIOUS
  <2>1. /\ Kept /\ c \in Claim /\ Exists(c)' /\ seller \in User
        /\ \A k \in Claim : claims'[k].status = "DISPUTED" => claims[k].status = "DISPUTED"
        /\ calls' = [calls EXCEPT ![x] = Idle]
    BY <1>4, CommitHolds DEF transfer, EntryType, Exists
  <2>2. /\ disputes' = disputes /\ "FILLED" \in ListingStatus
        /\ NewListing(l, "FILLED", c, seller, buyer)
    BY <1>4 DEF transfer, ListingStatus
  <2>3. IInv'
    BY <2>1, <2>2, CallEnds, ListingKept
  <2>. QED
    BY <2>1, <2>2, <2>3, SameCases
<1>5. CASE ListingFilled(x)
  <2>. PICK l : l = calls[x].listing
    OBVIOUS
  <2>. PICK old : old = listings[l]
    OBVIOUS
  <2>. PICK row : row = [old EXCEPT !.status = "FILLED", !.buyer = calls[x].actor]
    OBVIOUS
  <2>1. /\ l \in Listing /\ old.status # "ABSENT" /\ calls[x].actor \in User
        /\ old \in ListingRow /\ listings \in [Listing -> ListingRow]
        /\ calls \in [Call -> CallRow] /\ calls[x].op = "buy" /\ calls[x].at = "read"
    BY <1>5 DEF ListingFilled, IInv, TypeOK, Referring
  <2>2. row \in ListingRow /\ row.status = "FILLED" /\ row.claim = old.claim
    BY <2>1 DEF ListingRow, ListingStatus
  <2>3. /\ listings' = [listings EXCEPT ![l] = row]
        /\ UNCHANGED <<claims, disputes, log>>
    BY <1>5, <2>1 DEF ListingFilled, ListingRow
  <2>. PICK call : call = [calls[x] EXCEPT !.at = "filled"]
    OBVIOUS
  <2>4. /\ calls' = [calls EXCEPT ![x] = call] /\ call \in CallRow
        /\ call.op = "buy" /\ call.claim = calls[x].claim
        /\ call.actor = calls[x].actor /\ call.listing = l
    BY <1>5, <2>1 DEF ListingFilled, CallRow
  <2>5. Kept
    BY <2>3, UnchangedKeeps
  <2>6. TypeOK' /\ NothingBefore' /\ LogTellsStatus'
    BY <2>1, <2>2, <2>3, <2>4, <2>5 DEF IInv, TypeOK, NothingBefore, Kept
  <2>7. /\ \A m \in Listing : listings'[m] = IF m = l THEN row ELSE listings[m]
        /\ \A y \in Call : calls'[y] = IF y = x THEN call ELSE calls[y]
    BY <2>1, <2>3, <2>4
  <2>8. Referring'
    BY <2>1, <2>2, <2>3, <2>4, <2>7 DEF IInv, Referring, Exists
  <2>. QED
    BY <2>3, <2>6, <2>8, SameCases DEF IInv
<1>6. CASE PurchaseLogged(x)
  <2>. PICK c : c = calls[x].claim
    OBVIOUS
  <2>. PICK e : e = Entry("marketplace_listing_bought", calls[x].actor, None)
    OBVIOUS
  <2>1. c \in Claim /\ Exists(c) /\ calls[x].actor \in User
    BY <1>6 DEF PurchaseLogged, IInv, Referring
  <2>2. e \in EntryRow /\ e.tells = None
    BY <2>1 DEF Entry, EntryRow, EntryType
  <2>3. claims \in [Claim -> ClaimRow] /\ claims[c].status \in ClaimStatus
    BY <2>1 DEF IInv, TypeOK, ClaimRow, Exists
  <2>4. /\ UNCHANGED <<claims, listings, disputes>> /\ Logged(c, <<e>>)
        /\ calls' = [calls EXCEPT ![x] = Idle]
    BY <1>6 DEF PurchaseLogged
  <2>5. Entered(c, claims[c].status, e)
    BY <2>2, <2>3, <2>4 DEF Entered, Logged
  <2>. QED
    BY <2>1, <2>4, <2>5, EnteredKeeps, IdleKept, SameCases
<1>. QED
  BY <1>1, <1>2, <1>3, <1>4, <1>5, <1>6 DEF GoesOn


(* A default that opens a dispute writes two entries; the second one tells.   *)
LEMMA TwoEntered ==
    ASSUME IInv, NEW c \in Claim, NEW a \in EntryRow, NEW b \in EntryRow,
           NEW t \in ClaimStatus, b.tells = t,
           Writes(c, t), Logged(c, <<a, b>>)
    PROVE  /\ Kept /\ Exists(c)'
           /\ \A k \in Claim : claims'[k].status = IF k = c THEN t ELSE claims[k].status
<1>1. /\ log \in [Claim -> Seq(EntryRow)] /\ claims \in [Claim -> ClaimRow]
      /\ None \notin ClaimStatus /\ "ABSENT" \notin ClaimStatus
      /\ \A k \in Claim : Says(log[k], claims[k].status)
  BY LogSays, GivenAssumption DEF IInv, TypeOK, ClaimStatus
<1>2. /\ claims' \in [Claim -> ClaimRow]
      /\ \A k \in Claim : claims'[k].status = IF k = c THEN t ELSE claims[k].status
  BY <1>1 DEF ClaimRow, Writes
<1>. PICK L : L = log[c]
  OBVIOUS
<1>. PICK M : M = L \o <<a>>
  OBVIOUS
<1>. PICK s : s = IF a.tells = None THEN claims[c].status ELSE a.tells
  OBVIOUS
<1>3. M \in Seq(EntryRow) /\ Says(M, s)
  BY <1>1, OneMore
<1>4. M \o <<b>> \in Seq(EntryRow) /\ Says(M \o <<b>>, t)
  BY <1>1, <1>3, OneMore
<1>5. L \o <<a, b>> = M \o <<b>>
  <2>. PICK n : n = Len(L)
    OBVIOUS
  <2>. PICK ab : ab = <<a, b>>
    OBVIOUS
  <2>1. n \in Nat /\ L \in Seq(EntryRow) /\ Len(M) = n + 1
        /\ M[n + 1] = a /\ \A i \in 1..n : M[i] = L[i]
    BY <1>1
  <2>2. ab \in Seq(EntryRow) /\ Len(ab) = 2 /\ ab[1] = a /\ ab[2] = b
    OBVIOUS
  <2>3. /\ L \o ab \in Seq(EntryRow) /\ Len(L \o ab) = n + 2
        /\ \A i \in 1..(n + 2) : (L \o ab)[i] = IF i <= n THEN L[i] ELSE ab[i - n]
    BY <2>1, <2>2, ConcatProperties
  <2>4. /\ Len(M \o <<b>>) = n + 2
        /\ \A i \in 1..(n + 2) : (M \o <<b>>)[i] = IF i <= n + 1 THEN M[i] ELSE b
    BY <1>3, <2>1
  <2>5. \A i \in 1..(n + 2) : (L \o ab)[i] = (M \o <<b>>)[i]
    <3>. TAKE i \in 1..(n + 2)
    <3>1. CASE i <= n
      BY <2>1, <2>3, <2>4, <3>1
    <3>2. CASE i = n + 1
      BY <2>1, <2>2, <2>3, <2>4, <3>2
    <3>3. CASE i = n + 2
      BY <2>1, <2>2, <2>3, <2>4, <3>3
    <3>. QED
      BY <2>1, <3>1, <3>2, <3>3
  <2>. QED
    BY <1>4, <2>1, <2>3, <2>4, <2>5, SeqEqual
<1>6. /\ log'[c] = M \o <<b>>
      /\ \A k \in Claim \ {c} : log'[k] = log[k]
      /\ log' \in [Claim -> Seq(EntryRow)]
  BY <1>1, <1>4, <1>5 DEF Logged
<1>7. \A k \in Claim : Says(log'[k], claims'[k].status)
  BY <1>1, <1>2, <1>4, <1>6
<1>8. LogTellsStatus'
  BY <1>7, LogSays DEF LogTellsStatus, Telling, Says
<1>. QED
  BY <1>1, <1>2, <1>6, <1>8 DEF Kept, Exists, IInv, NothingBefore

(* A new dispute backs the claim it is about, and no other loses its own.     *)
LEMMA NewCase ==
    ASSUME OnACase, NEW c \in Claim, NEW d \in Dispute,
           disputes'[d].claim = c, disputes'[d].status = "OPEN",
           disputes[d].status = "ABSENT",
           \A e \in Dispute \ {d} : disputes'[e] = disputes[e],
           \A k \in Claim \ {c} : claims'[k].status = claims[k].status
    PROVE  OnACase'
BY DEF OnACase, DisputedOnACase

LEMMA SettlementsHold ==
    ASSUME IInv, OnACase, NEW c \in Claim, NEW u \in User, settlementsRouter(c, u)
    PROVE  IInv' /\ OnACase'
<1>1. ASSUME NEW s \in Given, addEvent(c, u, s)
      PROVE  IInv' /\ OnACase'
  <2>. PICK e : e = Entry("settlement_event", u, s)
    OBVIOUS
  <2>1. e \in EntryRow /\ e.tells = s /\ s \in ClaimStatus
    BY GivenAssumption DEF Entry, EntryRow, EntryType
  <2>2. /\ Writes(c, s) /\ Logged(c, <<e>>)
        /\ UNCHANGED Others
    BY <1>1 DEF addEvent, Others, Writes
  <2>3. /\ Kept
        /\ \A k \in Claim : claims'[k].status = IF k = c THEN s ELSE claims[k].status
    BY <2>1, <2>2, WritesStatus
  <2>. QED
    BY <2>2, <2>3, ReferringKept, SameCases DEF Others
<1>2. ASSUME NEW s \in Given, NEW d \in Dispute, NEW v \in User,
             DefaultTriggered(c, u, s, d, v)
      PROVE  IInv' /\ OnACase'
  <2>. PICK a : a = Entry("settlement_event", u, s)
    OBVIOUS
  <2>. PICK b : b = Entry("dispute_opened", u, "DISPUTED")
    OBVIOUS
  <2>1. a \in EntryRow /\ b \in EntryRow /\ b.tells = "DISPUTED" /\ "DISPUTED" \in ClaimStatus
    BY GivenAssumption DEF Entry, EntryRow, EntryType, ClaimStatus
  <2>2. /\ Writes(c, "DISPUTED") /\ Logged(c, <<a, b>>)
        /\ UNCHANGED <<listings, calls>> /\ NewDispute(d, c, u, v)
    BY <1>2 DEF DefaultTriggered, Writes
  <2>3. /\ Kept /\ Exists(c)'
        /\ \A k \in Claim : claims'[k].status = IF k = c THEN "DISPUTED" ELSE claims[k].status
    BY <2>1, <2>2, TwoEntered
  <2>. QED
    BY <2>2, <2>3, DisputeKept, NewCase
<1>. QED
  BY <1>1, <1>2 DEF settlementsRouter

LEMMA DisputesHold ==
    ASSUME IInv, OnACase, NEW d \in Dispute, NEW u \in User, disputesRouter(d, u)
    PROVE  IInv' /\ OnACase'
<1>1. ASSUME NEW c \in Claim, NEW v \in User, createDispute(c, u, d, v)
      PROVE  IInv' /\ OnACase'
  <2>. PICK e : e = Entry("dispute_opened", u, "DISPUTED")
    OBVIOUS
  <2>1. e \in EntryRow /\ e.tells = "DISPUTED" /\ "DISPUTED" \in ClaimStatus
    BY DEF Entry, EntryRow, EntryType, ClaimStatus
  <2>2. /\ Writes(c, "DISPUTED") /\ Logged(c, <<e>>)
        /\ UNCHANGED <<listings, calls>> /\ NewDispute(d, c, u, v)
    BY <1>1 DEF createDispute, Writes
  <2>3. /\ Kept /\ Exists(c)'
        /\ \A k \in Claim : claims'[k].status = IF k = c THEN "DISPUTED" ELSE claims[k].status
    BY <2>1, <2>2, WritesStatus
  <2>. QED
    BY <2>2, <2>3, DisputeKept, NewCase
<1>2. ASSUME NEW s \in DisputeStatus \cup {None}, respond(d, u, s)
      PROVE  IInv' /\ OnACase'
  <2>. PICK c : c = disputes[d].claim
    OBVIOUS
  <2>. PICK after : after = ClaimAfter(s)
    OBVIOUS
  <2>. PICK t : t = IF after = None THEN claims[c].status ELSE after
    OBVIOUS
  <2>. PICK type : type = IF s = "RESOLVED" THEN "dispute_resolved" ELSE "dispute_updated"
    OBVIOUS
  <2>. PICK e : e = Entry(type, u, after)
    OBVIOUS
  <2>. PICK row : row = [disputes[d] EXCEPT !.status = IF s = None THEN @ ELSE s]
    OBVIOUS
  <2>1. /\ disputes[d].status # "ABSENT" /\ disputes \in [Dispute -> DisputeRow]
        /\ c \in Claim /\ Exists(c) /\ claims \in [Claim -> ClaimRow]
        /\ None \notin ClaimStatus
    BY <1>2, GivenAssumption DEF respond, IInv, TypeOK, Referring
  <2>2. /\ after \in {"RESOLVED", "ACTIVE", None}
        /\ s = "RESOLVED" => after = "RESOLVED"
        /\ s = "REJECTED" => after = "ACTIVE"
    BY DEF ClaimAfter
  <2>3. e \in EntryRow /\ e.tells = after
    BY <2>2 DEF Entry, EntryRow, EntryType, ClaimStatus
  <2>4. t \in ClaimStatus /\ (t = after \/ (after = None /\ t = claims[c].status))
    BY <2>1, <2>2 DEF ClaimStatus, ClaimRow, Exists
  <2>5. /\ Writes(c, t) /\ Logged(c, <<e>>)
        /\ disputes' = [disputes EXCEPT ![d] = row]
        /\ UNCHANGED <<listings, calls>>
    BY <1>2, <2>1 DEF respond, Writes
  <2>6. /\ Kept
        /\ \A k \in Claim : claims'[k].status = IF k = c THEN t ELSE claims[k].status
    <3>1. e.tells = t \/ (e.tells = None /\ (t = claims[c].status \/ ~Exists(c)))
      BY <2>3, <2>4
    <3>. QED
      BY <2>1, <2>3, <2>4, <2>5, <3>1, WritesStatus
  <2>7. /\ row \in DisputeRow /\ row.claim = c /\ row.status # "ABSENT"
        /\ row.status = IF s = None THEN disputes[d].status ELSE s
    BY <2>1 DEF DisputeRow, DisputeStatus
  <2>8. \A m \in Dispute : disputes'[m] = IF m = d THEN row ELSE disputes[m]
    BY <2>1, <2>5
  <2>9. TypeOK' /\ NothingBefore' /\ LogTellsStatus'
    BY <2>1, <2>5, <2>6, <2>7 DEF IInv, TypeOK, NothingBefore, Kept
  <2>10. Referring'
    BY <2>1, <2>5, <2>6, <2>7, <2>8 DEF IInv, Referring, Kept
  <2>11. OnACase'
    <3>1. CASE after = None
      <4>1. s \notin {"RESOLVED", "REJECTED"} /\ t = claims[c].status
        BY <2>1, <2>2, <3>1 DEF ClaimStatus
      <4>2. disputes[d].status \notin {"ABSENT", "RESOLVED", "REJECTED"}
              => row.status \notin {"ABSENT", "RESOLVED", "REJECTED"}
        BY <2>7, <4>1
      <4>3. \A k \in Claim : claims'[k].status = claims[k].status
        BY <2>6, <4>1
      <4>. QED
        <5>. SUFFICES ASSUME "DISPUTED" \notin Given, NEW k \in Claim,
                             claims'[k].status = "DISPUTED"
                      PROVE  \E m \in Dispute : disputes'[m].claim = k
                               /\ disputes'[m].status
                                    \notin {"ABSENT", "RESOLVED", "REJECTED"}
          BY DEF OnACase, DisputedOnACase
        <5>1. PICK m \in Dispute : disputes[m].claim = k
                /\ disputes[m].status \notin {"ABSENT", "RESOLVED", "REJECTED"}
          BY <4>3 DEF OnACase, DisputedOnACase
        <5>2. disputes'[m].claim = k
              /\ disputes'[m].status \notin {"ABSENT", "RESOLVED", "REJECTED"}
          BY <2>7, <2>8, <4>2, <5>1
        <5>. QED
          BY <5>2
    <3>2. CASE after # None
      BY <2>1, <2>2, <2>4, <2>6, <2>7, <2>8, <3>2 DEF OnACase, DisputedOnACase
    <3>. QED
      BY <3>1, <3>2
  <2>. QED
    BY <2>9, <2>10, <2>11 DEF IInv
<1>. QED
  BY <1>1, <1>2 DEF disputesRouter

LEMMA NextHolds ==
    ASSUME IInv, OnACase, [Next]_vars
    PROVE  IInv' /\ OnACase'
<1>1. ASSUME NEW c \in Claim, NEW u \in User, NEW kind \in Attachment,
             createForClaim(c, u, kind)
      PROVE  IInv' /\ OnACase'
  BY <1>1, UnchangedKeeps, ReferringKept, SameCases DEF createForClaim, Others
<1>2. ASSUME UNCHANGED vars
      PROVE  IInv' /\ OnACase'
  BY <1>2, UnchangedKeeps, ReferringKept, SameCases DEF vars, Others
<1>. QED
  BY <1>1, <1>2, ClaimsHold, LifecycleHolds, SettlementsHold, DisputesHold,
     MarketplaceHolds, CallsHold
  DEF Next

LEMMA IInvHolds == Spec => [](IInv /\ OnACase)
BY InitHolds, NextHolds, PTL DEF Spec

-----------------------------------------------------------------------------
(* The theorems.                                                              *)

(* The log of a claim, replayed, ends in its status: each handler enters in   *)
(* one transaction what it writes, also where it wrote on what it had read    *)
(* before another one committed.                                              *)
THEOREM LogTellsTheStatus == Spec => []LogTellsStatus
BY IInvHolds, PTL DEF IInv

(* Unless clients may send that status, a claim is DISPUTED only while one of *)
(* its disputes is neither resolved nor rejected.                             *)
THEOREM DisputedByADispute ==
    ASSUME "DISPUTED" \notin Given
    PROVE  Spec => []DisputedOnACase
<1>1. OnACase => DisputedOnACase
  BY DEF OnACase
<1>. QED
  BY <1>1, IInvHolds, PTL

====
