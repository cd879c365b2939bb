---- MODULE DeskPages ----
(* One browser tab of the desk: apps/api/public/sponsum/sponsum-desk.js. The    *)
(* script keeps a copy of the workspace, draws the page of the address, and     *)
(* sends what the user does. Everything it awaits - answers of the API, the     *)
(* dialog - lets other events in: a change of the address, a click on what is   *)
(* still shown, an answer that belongs to an earlier page. The API is the other *)
(* modules' subject: here its rows change in any way.                           *)
EXTENDS Naturals, FiniteSets

CONSTANTS
    Id,     \* rows with pages of their own
    Views,  \* [Id -> SUBSET DossierView]: the pages of each row
    Facts,  \* [Id -> a set of facts]: what the pages tell apart about each row
    Lists,  \* the list pages that the user may open
    Task,   \* bound: routings, acts and exports that run at the same time
    None    \* null

VARIABLES
    rows,       \* the rows at the API: the facts that hold of each
    workspace,  \* the tab's copy of the rows, or None before it is loaded
    address,    \* window.location.hash
    page,       \* what main shows
    dialog,     \* the dialog that is open, or None
    busy,       \* the flag of that name
    tasks,      \* running calls of route(), act() and the export's handler
    assessing,  \* dispute pages whose venue card is being completed
    refreshing  \* venue cards that are being determined again

vars == <<rows, workspace, address, page, dialog, busy, tasks, assessing, refreshing>>

-----------------------------------------------------------------------------
(* The pages and what a user can do on them. Facts are those of the row that   *)
(* a page or a line of a list shows; links and filters change nothing.         *)

ListView == {"hub", "receivables", "zession", "wechsels", "capital", "market",
    "portfolio", "settlement", "disputes", "accounting", "risk", "policy",
    "protocol", "identity"}

DossierView == {"receivable", "wechsel", "offer", "dispute", "zessionDossier",
    "need", "provider", "lombard", "lombardDossier", "proposal", "party", "factor"}

ASSUME PageAssumption ==
    /\ Views \in [Id -> SUBSET DossierView]
    /\ DOMAIN Facts = Id
    /\ Lists \subseteq ListView
    /\ None \notin Id

When(condition, acts) == IF condition THEN acts ELSE {}

(* The form for evidence. *)
renderEvidenceCard(F) ==
    When(F \cap {"UNVERIFIED", "VERIFIED"} # {}, {"verify"})

renderDossier(F) ==
    renderEvidenceCard(F)
    \cup When("ACCEPTED" \in F /\ "overdue" \notin F, {"liquidity", "offer"})
    \cup When("case" \notin F, {"openDispute"})
    \cup When({"live", "openBid"} \subseteq F, {"acceptBid"})
    \cup When("pending" \in F, {"confirmPayment"})

(* Signing forms: a role that has no completed signature yet. *)
zesSign(F) ==
    When("transferorSigned" \notin F, {"signTransferor"})
    \cup When("transfereeSigned" \notin F, {"signTransferee"})

renderWechselDossier(F) ==
    {"syncSignatures", "anchor", "aval", "guarantee", "endorse", "protest", "default", "assign"}
    \cup When("drawerSigned" \notin F, {"signDrawer"})
    \cup When("draweeSigned" \notin F \/ "accepted" \notin F, {"signDrawee"})
    \cup When("assigned" \in F, zesSign(F))

renderDisputeLifecycleCard(F) ==
    IF "archived" \in F THEN {"reopen"}
    ELSE IF "closed" \in F THEN {"archive", "reopen"}
    ELSE {"close"}

renderDisputeDossier(F) ==
    renderDisputeLifecycleCard(F) \cup {"trackOoc", "trackCourt", "link", "form", "export"}

renderOfferDetail(F) ==
    {"bid"} \cup When("level0" \in F, {"requestLevel1"})
            \cup When("level1" \in F, {"requestLevel2"})

(* A need is confirmed with a candidate by who may, and then handed over. *)
lendingCard(F) ==
    IF F \cap {"LOMBARD", "EQUITY", "WITHDRAWN"} # {} \/ "mayConfirm" \notin F THEN {}
    ELSE IF "CONFIRMED" \in F THEN {"requestLoan"}
    ELSE When("candidates" \in F, {"confirmNeed"})

renderCapitalNeedDossier(F) == lendingCard(F) \cup When("unasked" \in F, {"interest"})

renderLombard(F) ==
    When({"configured", "customers", "priced"} \subseteq F, {"lombard"})

ReadOnlyDossiers == {"provider", "lombardDossier", "proposal", "party", "factor"}

OnDossier(v, F) ==
    CASE v = "receivable"     -> renderDossier(F)
      [] v = "wechsel"        -> renderWechselDossier(F)
      [] v = "offer"          -> renderOfferDetail(F)
      [] v = "dispute"        -> renderDisputeDossier(F)
      [] v = "zessionDossier" -> zesSign(F)
      [] v = "need"           -> renderCapitalNeedDossier(F)
      [] v = "lombard"        -> renderLombard(F)
      [] v \in ReadOnlyDossiers -> {}

(* Forms of list pages that make a new row ... *)
renderReceivables == {"create"}
renderWechsel     == {"draft"}
renderCapital     == {"createNeed"}

OnList(v) ==
    CASE v = "receivables" -> renderReceivables
      [] v = "wechsels"    -> renderWechsel
      [] v = "capital"     -> renderCapital
      [] OTHER             -> {}

(* ... and what they offer for each row of the workspace. *)
renderZession(F)    == When("ACCEPTED" \in F, {"createAssignment"})
renderSettlement(F) == When("pending" \in F, {"confirmPayment"})
renderDisputes(F)   == When("candidate" \in F, {"createDispute"})
matchProviders(F)   == When("match" \in F /\ "unasked" \in F, {"interest"})

(* Tables whose lines only lead to dossiers, narrowed and sorted in place. *)
LinkedLines == {"hub", "receivables", "market", "wechsels"}

OnLine(v, F) ==
    CASE v \in LinkedLines -> {}
      [] v = "zession"    -> renderZession(F)
      [] v = "settlement" -> renderSettlement(F)
      [] v = "disputes"   -> renderDisputes(F)
      [] v = "capital"    -> matchProviders(F)
      [] OTHER            -> {}

(* Acts whose handler leads the tab to the row that they made. *)
Leads == {"createAssignment", "createDispute", "draft", "createNeed", "lombard"}

(* Acts that run without a dialog, ... *)
UnaskedOnWechsel == {"syncSignatures", "aval", "endorse", "protest"}

UnaskedOnDispute == {"form", "trackOoc", "trackCourt", "link"}

Unasked == UnaskedOnWechsel \cup UnaskedOnDispute
    \cup {"verify", "requestLevel1", "requestLevel2", "draft", "createNeed"}

(* ... and the one whose dialog opens without a look at the flag, so that it  *)
(* is looked at when the dialog is confirmed.                                 *)
AskedFirst == {"openDispute"}

-----------------------------------------------------------------------------
(* The copies of the rows that there can be. *)
Rows == {r \in [Id -> SUBSET UNION {Facts[i] : i \in Id}] : \A i \in Id : r[i] \subseteq Facts[i]}

Address == [view: Lists, id: {None}] \cup UNION {[view: Views[i], id: {i}] : i \in Id}

(* venue: whose venue card a dispute page shows; saves: whose dispute its     *)
(* button "Neu ermitteln" saves to - every listener that it has.              *)
Plain(view, id, F) == [view |-> view, id |-> id, facts |-> F, venue |-> None, saves |-> {}]

(* A button or form: whether it asks ("first": before it looks at the flag),  *)
(* whether it leads to a new row, and the row that its handler was bound to.  *)
ButtonFor(act, id) ==
    [asks |-> IF act \in Unasked THEN "no" ELSE IF act \in AskedFirst THEN "first" ELSE "yes",
     leads |-> act \in Leads, id |-> id]

(* A running call: what it awaits ("posting"; of loadWorkspace(), "loading"   *)
(* the rows and "completing" parties and customers; "fetching" a page, or     *)
(* "caught" after a failure), and the page it will draw.                      *)
IdleTask == [kind |-> "idle", at |-> "idle", leads |-> FALSE, id |-> None,
    view |-> None, of |-> None]

Free == {t \in Task : tasks[t].kind = "idle"}

(* The rows after any change of one of them. *)
Changed(i) ==
    IF i = None THEN {rows} ELSE {[rows EXCEPT ![i] = F] : F \in SUBSET Facts[i]}

Init ==
    /\ rows \in Rows
    /\ workspace = None
    /\ address \in Address
    /\ page = Plain("loading", None, {})
    /\ dialog = None
    /\ busy = FALSE
    /\ \E t \in Task : tasks = [u \in Task |->
           IF u = t THEN [IdleTask EXCEPT !.kind = "route", !.at = "loading"] ELSE IdleTask]
    /\ assessing = {}
    /\ refreshing = {}

-----------------------------------------------------------------------------
(* Drawing. main.innerHTML replaces all that was shown, so a venue card that  *)
(* is waiting for its answer is no longer in the document.                    *)
Rendered(p) ==
    /\ page' = p
    /\ refreshing' = {[r EXCEPT !.attached = FALSE] : r \in refreshing}
    /\ assessing' = IF p.view = "dispute" THEN assessing \cup {p.id} ELSE assessing

Undrawn == UNCHANGED <<page, refreshing, assessing>>

(* A call ends and leaves the rest to another, if any; act() then releases    *)
(* the flag.                                                                  *)
LeftTo(t, rest) ==
    /\ tasks' = [tasks EXCEPT ![t] = rest]
    /\ busy' = (busy /\ tasks[t].kind # "act")

Ended(t) == LeftTo(t, IdleTask)

(* route(): lists are drawn from the workspace at once, dossiers when the API *)
(* has answered, for the address that was read when it was asked.  The list   *)
(* of Lombard loans asks the API too, but route() does not wait for it.       *)
Routed(t, row) ==
    IF workspace' = None
    THEN /\ tasks' = [tasks EXCEPT ![t] = [row EXCEPT !.at = "loading"]]
         /\ Rendered(Plain("loading", None, {}))
         /\ UNCHANGED busy
    ELSE IF address'.view = "lombard"
    THEN /\ LeftTo(t, [IdleTask EXCEPT !.kind = "route", !.at = "fetching",
                           !.view = address'.view, !.of = address'.id])
         /\ Undrawn
    ELSE IF address'.id # None
    THEN /\ tasks' = [tasks EXCEPT ![t] = [row EXCEPT
                          !.at = IF row.at = "caught" THEN "caught" ELSE "fetching",
                          !.view = address'.view, !.of = address'.id]]
         /\ Undrawn
         /\ UNCHANGED busy
    ELSE /\ Rendered(Plain(address'.view, None, {}))
         /\ Ended(t)

(* The user follows a link, or the address is edited: hashchange. *)
Navigate(a, t) ==
    /\ t \in Free
    /\ a # address
    /\ address' = a
    /\ UNCHANGED <<rows, workspace, dialog>>
    /\ Routed(t, [IdleTask EXCEPT !.kind = "route"])

(* The first answer to loadWorkspace(), which every call can use from then    *)
(* on, and a failed one; the other two requests only fill lists to choose     *)
(* from, and their failures are caught.                                       *)
LoadAnswered(t) ==
    /\ tasks[t].at = "loading"
    /\ workspace' = rows
    /\ tasks' = [tasks EXCEPT ![t].at = "completing"]
    /\ Undrawn
    /\ UNCHANGED <<rows, address, dialog, busy>>

LoadCompleted(t) ==
    /\ tasks[t].at = "completing"
    /\ UNCHANGED <<rows, workspace, address, dialog>>
    /\ Routed(t, tasks[t])

LoadFails(t) ==
    /\ tasks[t].at = "loading"
    /\ UNCHANGED <<rows, workspace, address, dialog>>
    /\ IF tasks[t].kind = "route"
       THEN Rendered(Plain("notFound", None, {})) /\ Ended(t)
       ELSE Routed(t, [tasks[t] EXCEPT !.at = "caught"])

(* The answer to a page's request, and a failed one: the page says so; but    *)
(* renderOfferDetail does not catch, so its failure leaves what was shown and *)
(* is caught by act() and the export, which call route() once more.           *)
(* renderLombard takes the customers from the workspace, which may not have   *)
(* them.                                                                      *)
FetchAnswered(t) ==
    LET k == tasks[t]
        unread == When(k.view = "lombard", {rows[k.of] \ {"customers"}})
    IN
    /\ k.at \in {"fetching", "caught"} /\ k.view # None
    /\ \E F \in {rows[k.of]} \cup unread :
           Rendered([Plain(k.view, k.of, F) EXCEPT
               !.venue = IF k.view = "dispute" THEN k.of ELSE None,
               !.saves = IF k.view = "dispute" THEN {k.of} ELSE {}])
    /\ Ended(t)
    /\ UNCHANGED <<rows, workspace, address, dialog>>

FetchFails(t) ==
    LET k == tasks[t] IN
    /\ k.at \in {"fetching", "caught"} /\ k.view # None
    /\ UNCHANGED <<rows, workspace, address, dialog>>
    /\ \/ k.view # "offer" /\ Rendered(Plain("notFound", None, {})) /\ Ended(t)
       \/ k.view = "offer" /\ (k.kind = "route" \/ k.at = "caught") /\ Undrawn /\ Ended(t)
       \/ /\ k.view = "offer" /\ k.kind # "route" /\ k.at = "fetching"
          /\ Routed(t, [k EXCEPT !.at = "caught"])

-----------------------------------------------------------------------------
(* Acts.                                                                      *)

(* What can be clicked, with the row that the handler was bound to. *)
Offered ==
    {ButtonFor(a, page.id) :
        a \in IF page.id = None THEN {} ELSE OnDossier(page.view, page.facts) \ {"export"}}
    \cup {ButtonFor(a, None) : a \in OnList(page.view)}
    \cup UNION {{ButtonFor(a, i) : a \in OnLine(page.view, workspace[i])} :
                    i \in IF workspace = None THEN {} ELSE Id}

(* act() has passed its guards: the flag is set and the request is sent. *)
Started(t, p) ==
    /\ t \in Free
    /\ busy' = TRUE
    /\ tasks' = [tasks EXCEPT ![t] = [IdleTask EXCEPT !.kind = "act", !.at = "posting",
                     !.leads = p.leads, !.id = p.id]]

(* A click: while the flag is set there is only a notice. A dialog is modal.  *)
Click(p, t) ==
    /\ dialog = None
    /\ p \in Offered
    /\ IF p.asks = "no"
       THEN ~busy /\ Started(t, p) /\ UNCHANGED dialog
       ELSE /\ ~busy \/ p.asks = "first"
            /\ dialog' = p
            /\ UNCHANGED <<busy, tasks>>
    /\ UNCHANGED <<rows, workspace, address, page, assessing, refreshing>>

(* Only the dialog of AskedFirst may find the flag set when it is confirmed.  *)
\* Mutant: without this second look.
DialogConfirmed_Unchecked(t) ==
    /\ dialog # None
    /\ dialog' = None
    /\ Started(t, dialog)
    /\ UNCHANGED <<rows, workspace, address, page, assessing, refreshing>>

DialogConfirmed(t) ==
    /\ dialog # None
    /\ dialog' = None
    /\ IF dialog.asks = "first" /\ busy
       THEN UNCHANGED <<busy, tasks>>
       ELSE Started(t, dialog)
    /\ UNCHANGED <<rows, workspace, address, page, assessing, refreshing>>

DialogCancelled ==
    /\ dialog # None
    /\ dialog' = None
    /\ UNCHANGED <<rows, workspace, address, page, busy, tasks, assessing, refreshing>>

(* The API has done what was asked; it may lead the tab to the new row, whose *)
(* hashchange calls route() too, if a task is left for it.                    *)
Posted(t, r, a) ==
    LET k == tasks[t] IN
    /\ k.at = "posting"
    /\ rows' = r
    /\ address' = IF k.leads THEN a ELSE address
    /\ tasks' = [u \in Task |->
           IF u = t THEN [k EXCEPT !.at = "loading"]
           ELSE IF address' # address /\ address'.id # None /\ Free # {}
                   /\ u = CHOOSE v \in Free : TRUE
           THEN [IdleTask EXCEPT !.kind = "route", !.at = "fetching",
                     !.view = address'.view, !.of = address'.id]
           ELSE tasks[u]]
    /\ UNCHANGED <<workspace, page, dialog, busy, assessing, refreshing>>

\* Mutant: a failed act is sent again.
PostFails_Resent(t, r) ==
    /\ tasks[t].at = "posting"
    /\ rows' = r
    /\ UNCHANGED <<workspace, address, dialog, busy, tasks>>
    /\ Undrawn

(* Refused, unreachable, or given up after 55 seconds: the API may have done  *)
(* it all the same. The error is shown; the workspace stays as it is.         *)
PostFails(t, r) ==
    LET k == tasks[t] IN
    /\ k.at = "posting"
    /\ rows' = r
    /\ UNCHANGED <<workspace, address, dialog>>
    /\ Routed(t, [k EXCEPT !.at = "caught"])

(* The export's handler neither asks nor looks at the flag. *)
Export(t) ==
    /\ dialog = None
    /\ t \in Free
    /\ page.id # None /\ "export" \in OnDossier(page.view, page.facts)
    /\ tasks' = [tasks EXCEPT ![t] = [IdleTask EXCEPT !.kind = "export", !.at = "posting",
                     !.id = page.id]]
    /\ UNCHANGED <<rows, workspace, address, page, dialog, busy, assessing, refreshing>>

-----------------------------------------------------------------------------
(* The venue card of a dispute page.                                          *)

OnDispute == page.view = "dispute"

(* The answer that renderDisputeDossier waits for looks the card up then. *)
VenueAnswered(i) ==
    /\ i \in assessing
    /\ assessing' = assessing \ {i}
    /\ page' = IF OnDispute THEN [page EXCEPT !.venue = i, !.saves = {i}] ELSE page
    /\ UNCHANGED <<rows, workspace, address, dialog, busy, tasks, refreshing>>

(* "Neu ermitteln": every listener of the button saves and asks. *)
assess ==
    /\ dialog = None /\ OnDispute
    /\ refreshing' = refreshing \cup {[id |-> i, attached |-> TRUE] : i \in page.saves}
    /\ UNCHANGED <<rows, workspace, address, page, dialog, busy, tasks, assessing>>

(* The card that was found at the click is filled, if it is still there; then *)
(* the button that is there now gets a listener.                              *)
Reassessed(r) ==
    /\ r \in refreshing
    /\ refreshing' = refreshing \ {r}
    /\ page' = IF r.attached THEN [page EXCEPT !.venue = r.id, !.saves = {r.id}]
               ELSE IF OnDispute THEN [page EXCEPT !.saves = @ \cup {r.id}] ELSE page
    /\ UNCHANGED <<rows, workspace, address, dialog, busy, tasks, assessing>>

VenueFails ==
    /\ \/ \E i \in assessing : assessing' = assessing \ {i} /\ UNCHANGED refreshing
       \/ \E r \in refreshing : refreshing' = refreshing \ {r} /\ UNCHANGED assessing
    /\ UNCHANGED <<rows, workspace, address, page, dialog, busy, tasks>>

(* Somebody else, or time, changes a row. *)
OthersAct(r) ==
    /\ rows' = r
    /\ UNCHANGED <<workspace, address, page, dialog, busy, tasks, assessing, refreshing>>

-----------------------------------------------------------------------------
Answers(t) ==
    \/ LoadAnswered(t) \/ LoadFails(t) \/ LoadCompleted(t) \/ FetchAnswered(t) \/ FetchFails(t)
    \/ \E r \in Changed(tasks[t].id) : PostFails(t, r) \/ \E a \in Address : Posted(t, r, a)

Next ==
    \/ \E t \in Task :
           \/ \E a \in Address : Navigate(a, t)
           \/ Answers(t)
           \/ \E p \in Offered : Click(p, t)
           \/ DialogConfirmed(t)
           \/ Export(t)
    \/ DialogCancelled
    \/ \E i \in Id : VenueAnswered(i) \/ \E r \in Changed(i) : OthersAct(r)
    \/ assess
    \/ \E r \in refreshing : Reassessed(r)
    \/ VenueFails

Spec == Init /\ [][Next]_vars

(* api() aborts after 55 seconds: every request is answered or fails. *)
FairSpec == Spec /\ \A t \in Task : WF_vars(Answers(t))

-----------------------------------------------------------------------------
(* The flag says exactly whether an act is running, and one at most is,       *)
(* although act() awaits the dialog between the test of the flag and setting  *)
(* it, and a dialog can be opened while an act runs.                          *)
OneActAtATime ==
    LET acting == {t \in Task : tasks[t].kind = "act"} IN
    /\ Cardinality(acting) <= 1
    /\ busy <=> acting # {}

(* The venue card on a dispute's page is the card of this dispute, and its    *)
(* button saves to this dispute, as docs/disputes-workbench.md has it: a case *)
(* is worked on in its dossier, its venue on the card there. TLC refutes it:  *)
(* an assessment that is answered late fills the card of the page then shown. *)
VenueOfThisDispute ==
    OnDispute => page.venue = page.id /\ page.saves = {page.id}

(* Every act ends: the flag cannot stay set.                                  *)
BusyEnds == busy ~> ~busy
====
