--------------------------- MODULE SignedInstruments ---------------------------
(***************************************************************************)
(* Wechsel drafts and assignment contracts (Zessionen) and the signatures  *)
(* on them: service.ts with skribble.ts, and Skribble itself as far as the *)
(* two use it.                                                             *)
(*                                                                         *)
(* A simple signature (SES) is written at once.  An advanced or qualified  *)
(* one (AES, QES) is asked for at Skribble and read back by a later sync:  *)
(* the handler takes its snapshot, awaits Skribble, and writes the         *)
(* snapshot it took, changed.  The store of the running service refuses a  *)
(* snapshot that is no longer current (scoped-store.ts), so that every     *)
(* write in between makes the handler fail with "conflict".                *)
(*                                                                         *)
(* What a document says never changes after its creation, so neither does  *)
(* its content hash.  Both are left out, as are the receivable behind a    *)
(* draft and its trade: ReceivableDesk has them.                           *)
(***************************************************************************)
EXTENDS Naturals, FiniteSets

CONSTANTS
  Draft,      \* instrument_ids of Wechsel drafts
  Sola,       \* those of form SOLA: drawer and drawee are one party
  Zession,    \* assignment_ids of the contracts a draft is assigned by
  Request,    \* signature requests at Skribble
  Call,       \* HTTP calls awaiting Skribble
  None,
  Asked,      \* the qualities that are asked for at Skribble
  Delivered,  \* the qualities Skribble delivers
  AllowDemo,  \* SKRIBBLE_ALLOW_DEMO
  MaxWrites   \* bound on the writes that touch no document's signatures

ASSUME SigningAssumption ==
  /\ Sola \subseteq Draft
  /\ Draft \cap Zession = {}
  /\ None \notin Draft \cup Zession \cup Request
  /\ Asked \subseteq {"AES", "QES"}
  /\ Delivered \subseteq {"SES", "AES", "AES_MINIMAL", "QES", "DEMO"}
  /\ AllowDemo \in BOOLEAN
  /\ MaxWrites \in Nat

VARIABLES
  store,    \* the documents as the store holds them
  remote,   \* the requests at Skribble
  calls     \* calls under way, with the snapshot each has taken

vars == <<store, remote, calls>>

Document == Draft \cup Zession
DraftRole == {"DRAWER", "DRAWEE", "GUARANTOR"}
ZessionRole == {"TRANSFEROR", "TRANSFEREE"}
RolesOf(d) == IF d \in Draft THEN DraftRole ELSE ZessionRole

Row ==
  [role : DraftRole \cup ZessionRole, status : {"PENDING", "SIGNED"},
   quality : {"SES", "AES", "QES", "DEMO"}, req : Request \cup {None}]

(* status of a draft; those with a signature; the draft a Zession belongs  *)
(* to; assignment_ids; the signature rows; and, as a count, everything     *)
(* else that is written: anchors, guarantees, the rest of the desk.        *)
Store ==
  [status : [Draft -> {"ABSENT", "DRAFT", "ISSUED", "ACKNOWLEDGED",
                       "SECURED", "ASSIGNED"}],
   accepted : SUBSET Draft,
   of : [Zession -> Draft \cup {None}],
   listed : [Draft -> SUBSET Zession],
   sigs : [Document -> SUBSET Row],
   others : 0 .. MaxWrites]

EmptyStore ==
  [status |-> [d \in Draft |-> "ABSENT"], accepted |-> {},
   of |-> [z \in Zession |-> None], listed |-> [d \in Draft |-> {}],
   sigs |-> [d \in Document |-> {}], others |-> 0]

Idle ==
  [step |-> "idle", doc |-> None, role |-> "DRAWER", quality |-> "SES",
   req |-> None, queue |-> {}, base |-> EmptyStore, work |-> EmptyStore]

CallRecord ==
  [step : {"idle", "asking", "asked", "syncing"},
   doc : Document \cup {None}, role : DraftRole \cup ZessionRole,
   quality : Asked \cup {"SES"}, req : Request \cup {None},
   queue : SUBSET Row, base : Store, work : Store]

NoRequest == [state |-> "none", asked |-> "QES", given |-> "QES"]

(* Every variable has the shape of what it stands for.                     *)
TypeOK ==
  /\ store \in Store
  /\ remote \in [Request ->
       [state : {"none", "open", "signed", "declined"},
        asked : Asked \cup {"QES"}, given : Delivered \cup {"QES"}]]
  /\ calls \in [Call -> CallRecord]

Init ==
  /\ store = EmptyStore
  /\ remote = [r \in Request |-> NoRequest]
  /\ calls = [c \in Call |-> Idle]

-----------------------------------------------------------------------------
(* Helpers of the service. *)

Exists(s, d) ==
  IF d \in Draft THEN s.status[d] # "ABSENT" ELSE s.of[d] # None

Signed(s, d) == {row \in s.sigs[d] : row.status = "SIGNED"}

hasSignature(s, d, role) == \E row \in Signed(s, d) : row.role = role

qualityRank(q) ==
  CASE q = "QES" -> 40
    [] q \in {"AES", "AES_MINIMAL"} -> 30
    [] q = "SES" -> 20
    [] OTHER -> 5

\* Mutant: whatever Skribble delivers is taken.
Honoured_Anything(asked, given) == TRUE

(* assertQualityHonored does not throw.                                    *)
Honoured(asked, given) ==
  \/ qualityRank(given) >= qualityRank(asked)
  \/ given = "DEMO" /\ AllowDemo

(* The quality written on the row: everything unlisted becomes QES.        *)
Recorded(given) == IF given \in {"DEMO", "AES", "SES"} THEN given ELSE "QES"

\* Mutant: the drawee's signature sets the draft back to ACKNOWLEDGED.
StatusAfter_Always(s, d, role) ==
  CASE role = "DRAWEE" -> "ACKNOWLEDGED"
    [] role = "DRAWER" /\ s.status[d] \in {"DRAFT", "ISSUED"} ->
         IF d \in Sola THEN "ACKNOWLEDGED" ELSE "ISSUED"
    [] OTHER -> s.status[d]

(* The status of a draft once a signature in this role is complete.        *)
StatusAfter(s, d, role) ==
  IF s.status[d] \in {"DRAFT", "ISSUED"}
  THEN CASE role = "DRAWEE" \/ (role = "DRAWER" /\ d \in Sola) -> "ACKNOWLEDGED"
         [] role = "DRAWER" /\ d \notin Sola -> "ISSUED"
         [] OTHER -> s.status[d]
  ELSE s.status[d]

(* The drawer of a SOLA signs as its drawee in the same breath.            *)
OwnDrawee(s, d, row) ==
  IF row.role = "DRAWER" /\ d \in Sola /\ ~hasSignature(s, d, "DRAWEE")
  THEN {[row EXCEPT !.role = "DRAWEE", !.req = None]}
  ELSE {}

\* Mutant: with the drawer's own row a SOLA is not accepted.
Completed_OwnForgotten(s, d, old, row) ==
  LET own == OwnDrawee(s, d, row)
  IN  [s EXCEPT !.sigs[d] = (@ \ {old}) \cup {row} \cup own,
                !.status = IF d \in Draft
                           THEN [@ EXCEPT ![d] = StatusAfter(s, d, row.role)]
                           ELSE @,
                !.accepted = IF row.role = "DRAWEE" THEN @ \cup {d} ELSE @]

(* The store once `row` is SIGNED in place of `old`, with everything       *)
(* completeWechselEffects does; on a Zession there is nothing to do.       *)
Completed(s, d, old, row) ==
  LET own == OwnDrawee(s, d, row)
  IN  [s EXCEPT !.sigs[d] = (@ \ {old}) \cup {row} \cup own,
                !.status = IF d \in Draft
                           THEN [@ EXCEPT ![d] = StatusAfter(s, d, row.role)]
                           ELSE @,
                !.accepted = IF row.role = "DRAWEE" \/ own # {}
                             THEN @ \cup {d} ELSE @]

\* Mutant: the store takes every snapshot it is given.
Replaced_Unchecked(base, next) == store' = next

(* replace: a snapshot that is not current throws "conflict".              *)
Replaced(base, next) == store' = IF store = base THEN next ELSE store

-----------------------------------------------------------------------------
(* Handlers that do not wait. *)

createWechselDraft(d) ==
  /\ store.status[d] = "ABSENT"
  /\ store' = [store EXCEPT !.status[d] = "DRAFT"]
  /\ UNCHANGED <<remote, calls>>

\* Mutant: the drawee need not wait for the drawer.
MaySign_AnyOrder(d, role) ==
  /\ Exists(store, d)
  /\ role \in RolesOf(d)
  /\ ~hasSignature(store, d, role)

(* Roles that sign before the drawer are turned away; so is a second one.  *)
MaySign(d, role) ==
  /\ Exists(store, d)
  /\ role \in RolesOf(d)
  /\ d \in Draft /\ role # "DRAWER" => hasSignature(store, d, "DRAWER")
  /\ ~hasSignature(store, d, role)

(* signWechsel, acknowledgeWechsel and signAssignment with an SES.         *)
SignNow(d, role) ==
  LET row == [role |-> role, status |-> "SIGNED", quality |-> "SES", req |-> None]
  IN  /\ MaySign(d, role)
      /\ store' = Completed(store, d, row, row)
      /\ UNCHANGED <<remote, calls>>

(* A guarantee secures an acknowledged draft; an ISSUED one stays ISSUED.  *)
addWechselGuarantee(d) ==
  /\ Exists(store, d)
  /\ hasSignature(store, d, "DRAWER")
  /\ store.others < MaxWrites
  /\ store' = [store EXCEPT
       !.status[d] = IF @ \in {"DRAFT", "ACKNOWLEDGED"} THEN "SECURED" ELSE @,
       !.others = @ + 1]
  /\ UNCHANGED <<remote, calls>>

(* anchorWechsel, and every other write of the desk.                       *)
WriteElsewhere ==
  /\ store.others < MaxWrites
  /\ store' = [store EXCEPT !.others = @ + 1]
  /\ UNCHANGED <<remote, calls>>

(* createAssignment may refuse; where it does not, the draft is updated in *)
(* a second write.                                                         *)
assignWechsel(d, z) ==
  /\ Exists(store, d)
  /\ hasSignature(store, d, "DRAWER")
  /\ store.of[z] = None
  /\ store' = [store EXCEPT !.of[z] = d, !.listed[d] = @ \cup {z},
                            !.status[d] = "ASSIGNED"]
  /\ UNCHANGED <<remote, calls>>

(* The process stops between the two writes.                               *)
AssignCut(d, z) ==
  /\ Exists(store, d)
  /\ hasSignature(store, d, "DRAWER")
  /\ store.of[z] = None
  /\ store' = [store EXCEPT !.of[z] = d]
  /\ calls' = [c \in Call |-> Idle]
  /\ UNCHANGED remote

-----------------------------------------------------------------------------
(* Handlers that wait for Skribble. *)

(* signWechsel and signAssignment up to the await.                         *)
StartSigning(c, d, role, quality) ==
  /\ calls[c] = Idle
  /\ MaySign(d, role)
  /\ calls' = [calls EXCEPT ![c] =
       [Idle EXCEPT !.step = "asking", !.doc = d, !.role = role,
                    !.quality = quality, !.base = store, !.work = store]]
  /\ UNCHANGED <<store, remote>>

(* Skribble creates the request; the signer is told by Skribble itself.    *)
RequestCreated(c, r) ==
  /\ calls[c].step = "asking"
  /\ remote[r].state = "none"
  /\ remote' = [remote EXCEPT ![r] =
       [state |-> "open", asked |-> calls[c].quality, given |-> "QES"]]
  /\ calls' = [calls EXCEPT ![c].step = "asked", ![c].req = r]
  /\ UNCHANGED store

(* The handler resumes: a PENDING row, unless the store has moved on.      *)
RowAdded(c) ==
  /\ calls[c].step = "asked"
  /\ LET row == [role |-> calls[c].role, status |-> "PENDING",
                 quality |-> calls[c].quality, req |-> calls[c].req]
     IN  Replaced(calls[c].base,
                  [calls[c].work EXCEPT !.sigs[calls[c].doc] = @ \cup {row}])
  /\ calls' = [calls EXCEPT ![c] = Idle]
  /\ UNCHANGED remote

(* Skribble: the signer signs, with a quality of Skribble's choosing, or   *)
(* declines.  Nothing expires.                                             *)
SignerActs(r) ==
  /\ remote[r].state = "open"
  /\ \/ \E q \in Delivered :
          remote' = [remote EXCEPT ![r].state = "signed", ![r].given = q]
     \/ remote' = [remote EXCEPT ![r].state = "declined"]
  /\ UNCHANGED <<store, calls>>

(* syncSignatures and syncAssignmentSignatures up to the first await.      *)
StartSync(c, d) ==
  /\ calls[c] = Idle
  /\ Exists(store, d)
  /\ calls' = [calls EXCEPT ![c] =
       [Idle EXCEPT !.step = "syncing", !.doc = d, !.base = store, !.work = store,
          !.queue = {row \in store.sigs[d] : row.status = "PENDING"}]]
  /\ UNCHANGED <<store, remote>>

(* One answer of Skribble: an unsigned request is passed over, a signed    *)
(* one completed in the snapshot, a downgrade ends the whole sync.         *)
SyncAnswered(c, row) ==
  LET call == calls[c]
      answer == remote[row.req]
      done == [row EXCEPT !.status = "SIGNED", !.quality = Recorded(answer.given)]
      rest == [call EXCEPT !.queue = @ \ {row}]
  IN  /\ call.step = "syncing"
      /\ row \in call.queue
      /\ calls' = [calls EXCEPT ![c] =
           IF answer.state # "signed" THEN rest
           ELSE IF Honoured(row.quality, answer.given)
           THEN [rest EXCEPT !.work = Completed(@, call.doc, row, done)]
           ELSE Idle]
      /\ UNCHANGED <<store, remote>>

SyncWritten(c) ==
  /\ calls[c].step = "syncing"
  /\ calls[c].queue = {}
  /\ Replaced(calls[c].base, calls[c].work)
  /\ calls' = [calls EXCEPT ![c] = Idle]
  /\ UNCHANGED remote

(* Skribble cannot be reached, answers with an error, or this process is   *)
(* restarted: the call ends without a write.                               *)
CallFails(c) ==
  /\ calls[c].step # "idle"
  /\ calls' = [calls EXCEPT ![c] = Idle]
  /\ UNCHANGED <<store, remote>>

-----------------------------------------------------------------------------

Next ==
  \/ \E d \in Draft : createWechselDraft(d) \/ addWechselGuarantee(d)
  \/ \E d \in Draft, z \in Zession : assignWechsel(d, z) \/ AssignCut(d, z)
  \/ WriteElsewhere
  \/ \E d \in Document : \E role \in RolesOf(d) : SignNow(d, role)
  \/ \E c \in Call, d \in Document : \E role \in RolesOf(d), q \in Asked :
       StartSigning(c, d, role, q)
  \/ \E c \in Call, r \in Request : RequestCreated(c, r)
  \/ \E c \in Call : RowAdded(c) \/ SyncWritten(c) \/ CallFails(c)
  \/ \E c \in Call, d \in Document : StartSync(c, d)
  \/ \E c \in Call : \E row \in calls[c].queue : SyncAnswered(c, row)
  \/ \E r \in Request : SignerActs(r)

Spec == Init /\ [][Next]_vars

-----------------------------------------------------------------------------
(* Properties. *)

(* Nothing happens to a draft before its drawer has signed: it keeps the   *)
(* status DRAFT, no other role has signed or been asked to, it is neither  *)
(* accepted nor assigned.                                                  *)
DrawerFirstIn(s) ==
  \A d \in Draft :
    ~hasSignature(s, d, "DRAWER") =>
      /\ s.status[d] \in {"ABSENT", "DRAFT"}
      /\ d \notin s.accepted
      /\ \A row \in s.sigs[d] : row.role = "DRAWER"
      /\ \A z \in Zession : s.of[z] # d

(* In the store, at all times.                                             *)
DrawerFirst == DrawerFirstIn(store)

(* A draft counts as accepted exactly when a signature of its drawee is    *)
(* complete, and is then at least ACKNOWLEDGED, however the signature came *)
(* about: at once, by a sync, or with the drawer's own on a SOLA.          *)
AcceptanceSignedIn(s) ==
  \A d \in Draft :
    /\ d \in s.accepted <=> hasSignature(s, d, "DRAWEE")
    /\ d \in s.accepted =>
         s.status[d] \in {"ACKNOWLEDGED", "SECURED", "ASSIGNED"}

(* In the store, at all times.                                             *)
AcceptanceSigned == AcceptanceSignedIn(store)

(* A signature from Skribble is SIGNED in the store only if its signer has *)
(* signed there, at the quality asked for when the request was created (or *)
(* DEMO, where the environment allows it).                                 *)
QualityHonoured ==
  \A d \in Document : \A row \in Signed(store, d) :
    row.req # None =>
      /\ remote[row.req].state = "signed"
      /\ \/ qualityRank(remote[row.req].given) >= qualityRank(remote[row.req].asked)
         \/ AllowDemo /\ remote[row.req].given = "DEMO"

(* A completed signature is never lost, whatever calls are still waiting   *)
(* with a snapshot from before it.                                         *)
SignedForGood ==
  [][\A d \in Document : Signed(store, d) \subseteq Signed(store', d)]_vars

StatusRank(s) ==
  CASE s = "ABSENT" -> 0 [] s = "DRAFT" -> 1 [] s = "ISSUED" -> 2
    [] s = "ACKNOWLEDGED" -> 3 [] s = "SECURED" -> 4 [] OTHER -> 5

(* The status of a draft never falls back, in whichever order guarantee,   *)
(* assignment and late signatures arrive.                                  *)
StatusForward ==
  [][\A d \in Draft : StatusRank(store.status[d]) <= StatusRank(store'.status[d])]_vars

(* A party signs a document once: "Diese Partei hat bereits gezeichnet."   *)
(* TLC refutes it, since hasSignature does not count requests under way    *)
(* (README, "Seen while modelling").                                       *)
RoleSignedOnce ==
  \A d \in Document : \A a, b \in Signed(store, d) : a.role = b.role => a = b
=============================================================================
