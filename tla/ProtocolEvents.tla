---------------------------- MODULE ProtocolEvents ----------------------------
(***************************************************************************)
(* The chain of protocol events (appendEvent in service.ts over            *)
(* scoped-store.ts, receivable-events.ts) and the Lombard request, which   *)
(* writes to Frappe Lending first and to the store and its chain then.     *)
(*                                                                         *)
(* An event is a hash over its content and the hash of an earlier event.   *)
(* Hashes are taken as injective, so that prev is the position of that     *)
(* event, 0 for none.  What a call is shown, and with it the event it      *)
(* chains to, are the rows its user may write.  Handlers that run in one   *)
(* turn differ only in how many events they append; those that await with  *)
(* the store captured are syncAssignmentSignatures and syncSignatures.     *)
(***************************************************************************)
EXTENDS Naturals, Sequences, SequencesExt, FiniteSetsExt

CONSTANTS
  User, Admin,    \* Admin: administrators of their own tenant
  tenantOf,
  lendingTenant,  \* MOVENA_LENDING_TENANT
  Receivable,
  Request,        \* ids of Lombard requests, one for each call
  Call,
  MaxEvents,      \* bound on the length of the chain
  None

Root == Receivable \cup Request

ASSUME EventsAssumption ==
  /\ Admin \subseteq User
  /\ tenantOf \in [User -> {tenantOf[u] : u \in User}]
  /\ Receivable \cap Request = {}
  /\ MaxEvents \in Nat
  /\ None \notin User \cup Root

VARIABLES
  document,      \* owners of the roots, withdrawn needs, events
  calls,         \* calls that await something
  applications,  \* the Loan Applications at Lending
  lost           \* history: requests that were sent and never answered

vars == <<document, calls, applications, lost>>

Idle == [op |-> "none", who |-> None, about |-> None, base |-> None]

Init ==
  /\ document = [owner |-> [x \in Root |-> None], withdrawn |-> {}, events |-> <<>>]
  /\ calls = [c \in Call |-> Idle]
  /\ applications = [q \in Request |-> "none"]
  /\ lost = {}

-----------------------------------------------------------------------------
(* The chain. *)

(* scopedState in write mode: administrators see the rows of their tenant, *)
(* others their own, and an event is seen with what it is about.           *)
Sees(u, x) ==
  LET owner == document.owner[x] IN
  /\ owner # None
  /\ tenantOf[owner] = tenantOf[u]
  /\ u \in Admin \/ owner = u

\* Mutant: an event is chained to the last one of its own receivable.
LastSeen_OfTheRoot(u, x) ==
  Max({0} \cup {i \in DOMAIN document.events : document.events[i].about = x})

LastSeen(u, x) ==
  Max({0} \cup {i \in DOMAIN document.events : Sees(u, document.events[i].about)})

(* The events after u has appended n about x.                              *)
appendEvent(u, x, n) ==
  LET length == Len(document.events) IN
  document.events \o
    [i \in 1..n |-> [about |-> x, by |-> u,
                     prev |-> IF i = 1 THEN LastSeen(u, x) ELSE length + i - 1]]

RoomFor(n) == Len(document.events) + n <= MaxEvents

(* A receivable is recorded with RECEIVABLE_CREATED and _VERIFIED.         *)
createReceivable(u, r) ==
  /\ document.owner[r] = None
  /\ RoomFor(2)
  /\ document' = [document EXCEPT !.owner[r] = u, !.events = appendEvent(u, r, 2)]
  /\ UNCHANGED <<calls, applications, lost>>

\* A handler that appends n events about x in one turn.
Appends(u, x, n) ==
  /\ Sees(u, x)
  /\ RoomFor(n)
  /\ document' = [document EXCEPT !.events = appendEvent(u, x, n)]
  /\ UNCHANGED <<calls, applications, lost>>

anchorWechsel(u, r) == Appends(u, r, 1)

(* The request and, in a write of its own but in the same turn, the grant. *)
requestDisclosure(u, r) == Appends(u, r, 2)

(* The sync keeps the store it was shown while it awaits Skribble.         *)
syncAssignmentSignatures(c, u, r) ==
  /\ calls[c] = Idle
  /\ Sees(u, r)
  /\ calls' = [calls EXCEPT ![c] =
       [op |-> "sync", who |-> u, about |-> r, base |-> document]]
  /\ UNCHANGED <<document, applications, lost>>

\* Mutant: what the call was shown is written without comparing.
SyncWrites_Unchecked(c) ==
  document' = [calls[c].base EXCEPT !.events =
    Append(@, [about |-> calls[c].about, by |-> calls[c].who, prev |-> Len(@)])]

(* Its write is refused (conflict) if anything was written meanwhile.      *)
SyncWrites(c) ==
  /\ document = calls[c].base
  /\ document' = [document EXCEPT
       !.events = appendEvent(calls[c].who, calls[c].about, 1)]

SyncEnds(c) ==
  /\ calls[c].op = "sync"
  /\ RoomFor(1)
  /\ SyncWrites(c) \/ UNCHANGED document
  /\ calls' = [calls EXCEPT ![c] = Idle]
  /\ UNCHANGED <<applications, lost>>

-----------------------------------------------------------------------------
(* Lombard credit. *)

\* lombardGate: an administrator of the lending tenant.
MayAskLombard(u) == u \in Admin /\ tenantOf[u] = lendingTenant

(* The request gets a fresh id; Lending is asked for it and for prices.    *)
requestLombard(c, u, q) ==
  /\ calls[c] = Idle
  /\ MayAskLombard(u)
  /\ document.owner[q] = None /\ applications[q] = "none"
  /\ \A x \in Call : calls[x].about # q
  /\ calls' = [calls EXCEPT ![c] =
       [op |-> "lombard", who |-> u, about |-> q, base |-> None]]
  /\ UNCHANGED <<document, applications, lost>>

(* No price, too little collateral, no such customer, or Lending refuses.  *)
LombardRefused(c) ==
  /\ calls[c].op = "lombard"
  /\ applications[calls[c].about] \in {"none", "sent"}
  /\ applications' = [applications EXCEPT ![calls[c].about] = "none"]
  /\ calls' = [calls EXCEPT ![c] = Idle]
  /\ UNCHANGED <<document, lost>>

\* The need, owned by u, with its two events.
Recorded(u, q) ==
  document' = [document EXCEPT !.owner[q] = u, !.events = appendEvent(u, q, 2)]

\* Mutant: the need is recorded before Lending has answered.
LombardSent_RecordedFirst(c) ==
  LET q == calls[c].about IN
  /\ calls[c].op = "lombard" /\ applications[q] = "none"
  /\ applications' = [applications EXCEPT ![q] = "sent"]
  /\ Recorded(calls[c].who, q)
  /\ UNCHANGED <<calls, lost>>

LombardSent(c) ==
  LET q == calls[c].about IN
  /\ calls[c].op = "lombard" /\ applications[q] = "none"
  /\ applications' = [applications EXCEPT ![q] = "sent"]
  /\ UNCHANGED <<document, calls, lost>>

\* Lending stores the application; it may do so after the call has ended.
Inserts(q) ==
  /\ applications[q] = "sent"
  /\ applications' = [applications EXCEPT ![q] = "open"]
  /\ UNCHANGED <<document, calls, lost>>

(* The answer is recorded on a fresh snapshot, in one write.               *)
LombardAnswered(c) ==
  LET q == calls[c].about IN
  /\ calls[c].op = "lombard" /\ applications[q] = "open"
  /\ RoomFor(2)
  /\ Recorded(calls[c].who, q)
  /\ calls' = [calls EXCEPT ![c] = Idle]
  /\ UNCHANGED <<applications, lost>>

(* A Lombard need has no receivable: Lending is not asked, and no event is *)
(* written.                                                                *)
withdrawCapitalNeed(u, q) ==
  /\ Sees(u, q)
  /\ document' = [document EXCEPT !.withdrawn = @ \cup {q}]
  /\ UNCHANGED <<calls, applications, lost>>

-----------------------------------------------------------------------------
(* Faults. *)

Unanswered(cs) ==
  lost' = lost \cup {q \in Request : /\ applications[q] # "none"
                                     /\ \E c \in cs : calls[c].about = q}

\* Timeout or network: what was sent to Lending may still arrive there.
CallLost(c) ==
  /\ calls[c] # Idle
  /\ calls' = [calls EXCEPT ![c] = Idle]
  /\ Unanswered({c})
  /\ UNCHANGED <<document, applications>>

Restart ==
  /\ calls' = [c \in Call |-> Idle]
  /\ Unanswered(Call)
  /\ UNCHANGED <<document, applications>>

Next ==
  \/ \E u \in User, r \in Receivable :
       \/ createReceivable(u, r) \/ anchorWechsel(u, r) \/ requestDisclosure(u, r)
       \/ \E c \in Call : syncAssignmentSignatures(c, u, r)
  \/ \E u \in User, q \in Request :
       withdrawCapitalNeed(u, q) \/ \E c \in Call : requestLombard(c, u, q)
  \/ \E c \in Call :
       \/ SyncEnds(c) \/ LombardRefused(c) \/ LombardSent(c) \/ LombardAnswered(c)
       \/ CallLost(c)
  \/ \E q \in Request : Inserts(q)
  \/ Restart

Spec == Init /\ [][Next]_vars

-----------------------------------------------------------------------------
(* Properties. *)

(* Where the chain forks, two events name the same predecessor, and then   *)
(* the writer of the later one could not see the earlier one: members of   *)
(* a tenant fork behind each other's backs, and tenants do, but no event   *)
(* is passed over by somebody who is shown it, not even by a call that     *)
(* awaited something while it was written.                                 *)
ForksOnlyBehindTheView ==
  \A i, j \in DOMAIN document.events :
    i < j /\ document.events[i].prev = document.events[j].prev
      => ~Sees(document.events[j].by, document.events[i].about)

(* Nobody's write loses or rewrites an event, also not of rows it was not  *)
(* shown or that came while it awaited Skribble.                           *)
EventsStay == [][IsPrefix(document.events, document'.events)]_vars

(* The comment of requestLombard: "only when Lending accepted it, Sponsum  *)
(* records the request", and a refused one leaves nothing behind in either *)
(* system.  An application without a need is one whose call still runs or  *)
(* whose answer was lost; whatever else is written while Lending is asked  *)
(* does not keep the answer from being recorded.                           *)
LombardTogether ==
  \A q \in Request :
    /\ document.owner[q] # None => applications[q] = "open"
    /\ applications[q] # "none" =>
         document.owner[q] # None \/ q \in lost \/ \E c \in Call : calls[c].about = q
=============================================================================
