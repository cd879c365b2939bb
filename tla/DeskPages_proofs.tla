---- MODULE DeskPages_proofs ----
(* The tab of the desk, for any set of rows, pages and running calls: at most   *)
(* one act runs, and the flag says so.                                          *)
EXTENDS DeskPages, FiniteSetTheorems, TLAPS

-----------------------------------------------------------------------------
(* Invariants.                                                                *)

AnyFact == UNION {Facts[i] : i \in Id}

AnyView == ListView \cup DossierView

PageRow == [view : AnyView \cup {"loading", "notFound"}, id : Id \cup {None},
            facts : SUBSET AnyFact, venue : Id \cup {None}, saves : SUBSET Id]

ButtonRow == [asks : {"no", "first", "yes"}, leads : BOOLEAN, id : Id \cup {None}]

TaskRow == [kind : {"idle", "route", "act", "export"},
            at : {"idle", "posting", "loading", "completing", "fetching", "caught"},
            leads : BOOLEAN, id : Id \cup {None},
            view : AnyView \cup {None}, of : Id \cup {None}]

TypeOK ==
    /\ rows \in [Id -> SUBSET AnyFact]
    /\ workspace \in {None} \cup [Id -> SUBSET AnyFact]
    /\ address \in Address
    /\ page \in PageRow
    /\ dialog \in {None} \cup ButtonRow
    /\ busy \in BOOLEAN
    /\ tasks \in [Task -> TaskRow]
    /\ refreshing \subseteq [id : Id, attached : BOOLEAN]

(* A call that fetches a dossier knows whose.                                 *)
Fetching == \A t \in Task : tasks[t].view # None => tasks[t].of \in Id

(* The first conjunct of OneActAtATime without counting, the second as it is, *)
(* and why a confirmed dialog need not look at the flag again: while one is   *)
(* open that looked, no act can start.                                        *)
OneAct ==
    /\ \A t, u \in Task : tasks[t].kind = "act" /\ tasks[u].kind = "act" => t = u
    /\ busy <=> \E t \in Task : tasks[t].kind = "act"
    /\ dialog # None /\ dialog.asks # "first" => ~busy

IInv == TypeOK /\ Fetching /\ OneAct

-----------------------------------------------------------------------------
(* Addresses.                                                                 *)

LEMMA Addresses ==
    ASSUME NEW a \in Address
    PROVE  /\ a.view \in AnyView /\ a.id \in Id \cup {None}
           /\ a.id = None => a.view \in ListView
<1>1. CASE a \in [view : Lists, id : {None}]
  BY <1>1, PageAssumption DEF AnyView
<1>2. CASE \E i \in Id : a \in [view : Views[i], id : {i}]
  BY <1>2, PageAssumption DEF AnyView
<1>. QED
  BY <1>1, <1>2 DEF Address

LEMMA PlainPages ==
    ASSUME NEW v \in AnyView \cup {"loading", "notFound"}, NEW i \in Id \cup {None},
           NEW F \in SUBSET AnyFact
    PROVE  Plain(v, i, F) \in PageRow
BY DEF Plain, PageRow

LEMMA InitHolds == Init => IInv
<1>. SUFFICES ASSUME Init PROVE IInv
  OBVIOUS
<1>1. rows \in [Id -> SUBSET AnyFact]
  BY DEF Init, Rows, AnyFact
<1>2. page \in PageRow
  BY PlainPages DEF Init
<1>3. PICK t \in Task : tasks = [u \in Task |->
        IF u = t THEN [IdleTask EXCEPT !.kind = "route", !.at = "loading"] ELSE IdleTask]
  BY DEF Init
<1>4. \A u \in Task : /\ tasks[u] \in TaskRow /\ tasks[u].kind \in {"idle", "route"}
                      /\ tasks[u].view = None
  BY <1>3 DEF IdleTask, TaskRow
<1>5. tasks \in [Task -> TaskRow]
  <2>1. tasks = [u \in Task |-> tasks[u]]
    BY <1>3
  <2>. QED
    BY <1>4, <2>1
<1>6. TypeOK
  BY <1>1, <1>2, <1>5 DEF Init, TypeOK
<1>7. Fetching /\ OneAct
  BY <1>4 DEF Init, Fetching, OneAct
<1>. QED
  BY <1>6, <1>7 DEF IInv

-----------------------------------------------------------------------------
(* Running calls.                                                             *)

(* What a step does to the call t: it goes on, begins, or ends and leaves the *)
(* rest to a route; acts begin elsewhere.                                     *)
GoesOn(t) ==
    /\ tasks'[t].kind = tasks[t].kind
    /\ busy' = busy

Begins(t) ==
    /\ tasks[t].kind = "idle" /\ tasks'[t].kind \in {"route", "export"}
    /\ busy' = busy

Ends(t) ==
    /\ tasks'[t].kind \in {"idle", "route"}
    /\ busy' = (busy /\ tasks[t].kind # "act")

Moves(t) ==
    /\ tasks' \in [Task -> TaskRow]
    /\ \A u \in Task \ {t} : tasks'[u] = tasks[u]
    /\ GoesOn(t) \/ Begins(t) \/ Ends(t)

LEMMA MovesKeep ==
    ASSUME IInv, NEW t \in Task, Moves(t), dialog' = dialog
    PROVE  OneAct'
<1>1. tasks \in [Task -> TaskRow] /\ busy \in BOOLEAN
  BY DEF IInv, TypeOK
<1>2. CASE GoesOn(t)
  BY <1>1, <1>2 DEF IInv, Moves, GoesOn, OneAct
<1>3. CASE Begins(t)
  BY <1>1, <1>3 DEF IInv, Moves, Begins, OneAct
<1>4. CASE Ends(t)
  BY <1>1, <1>4 DEF IInv, Moves, Ends, OneAct
<1>. QED
  BY <1>2, <1>3, <1>4 DEF Moves

(* Drawing a page.                                                            *)
LEMMA Drawn ==
    ASSUME TypeOK, NEW p \in PageRow, Rendered(p)
    PROVE  page' \in PageRow /\ refreshing' \subseteq [id : Id, attached : BOOLEAN]
BY DEF TypeOK, Rendered

LEMMA LeftMoves ==
    ASSUME TypeOK, Fetching, NEW t \in Task, NEW rest \in TaskRow,
           rest.kind \in {"idle", "route"}, rest.view # None => rest.of \in Id,
           LeftTo(t, rest)
    PROVE  Moves(t) /\ busy' \in BOOLEAN /\ Fetching'
BY DEF TypeOK, Fetching, LeftTo, Moves, Ends

LEMMA EndedMoves ==
    ASSUME TypeOK, Fetching, NEW t \in Task, Ended(t)
    PROVE  Moves(t) /\ busy' \in BOOLEAN /\ Fetching'
<1>1. IdleTask \in TaskRow /\ IdleTask.kind = "idle" /\ IdleTask.view = None
  BY DEF IdleTask, TaskRow
<1>. QED
  BY <1>1, LeftMoves DEF Ended

(* A row that t gets and keeps: it goes on or begins.                         *)
NewRow(t, row) ==
    /\ row \in TaskRow
    /\ row.view # None => row.of \in Id
    /\ \/ row.kind = tasks[t].kind
       \/ tasks[t].kind = "idle" /\ row.kind \in {"route", "export"}

LEMMA NewRowMoves ==
    ASSUME TypeOK, Fetching, NEW t \in Task, NEW row, NewRow(t, row),
           tasks' = [tasks EXCEPT ![t] = row], busy' = busy
    PROVE  Moves(t) /\ busy' \in BOOLEAN /\ Fetching'
BY DEF TypeOK, Fetching, NewRow, Moves, GoesOn, Begins

(* What a step that draws, or does not, leaves well typed.                    *)
Shows ==
    /\ page' \in PageRow
    /\ refreshing' \subseteq [id : Id, attached : BOOLEAN]
    /\ busy' \in BOOLEAN

LEMMA RoutedMoves ==
    ASSUME TypeOK, Fetching, NEW t \in Task, NEW row, NewRow(t, row),
           address' \in Address, Routed(t, row)
    PROVE  Moves(t) /\ Shows /\ Fetching'
<1>1. CASE workspace' = None
  <2>. PICK new : new = [row EXCEPT !.at = "loading"]
    OBVIOUS
  <2>1. NewRow(t, new)
    BY DEF NewRow, TaskRow
  <2>2. /\ tasks' = [tasks EXCEPT ![t] = new] /\ busy' = busy
        /\ Rendered(Plain("loading", None, {}))
    BY <1>1 DEF Routed
  <2>3. Plain("loading", None, {}) \in PageRow
    BY PlainPages
  <2>. QED
    BY <2>1, <2>2, <2>3, NewRowMoves, Drawn DEF Shows
<1>2. CASE workspace' # None /\ address'.view = "lombard"
  <2>. PICK view, of : view = address'.view /\ of = address'.id
    OBVIOUS
  <2>. PICK rest : rest = [IdleTask EXCEPT !.kind = "route", !.at = "fetching",
                                           !.view = view, !.of = of]
    OBVIOUS
  <2>1. view \in AnyView /\ of \in Id
    BY <1>2, Addresses DEF ListView
  <2>2. rest \in TaskRow /\ rest.kind = "route" /\ rest.of \in Id
    BY <2>1 DEF IdleTask, TaskRow
  <2>3. LeftTo(t, rest) /\ Undrawn
    BY <1>2 DEF Routed
  <2>. QED
    BY <2>2, <2>3, LeftMoves DEF Shows, Undrawn, TypeOK
<1>3. CASE workspace' # None /\ address'.view # "lombard" /\ address'.id # None
  <2>. PICK at : at = IF row.at = "caught" THEN "caught" ELSE "fetching"
    OBVIOUS
  <2>. PICK view, of : view = address'.view /\ of = address'.id
    OBVIOUS
  <2>. PICK new : new = [row EXCEPT !.at = at, !.view = view, !.of = of]
    OBVIOUS
  <2>1. of \in Id /\ view \in AnyView /\ at \in {"caught", "fetching"}
    BY <1>3, Addresses
  <2>2. NewRow(t, new)
    BY <2>1 DEF NewRow, TaskRow
  <2>3. tasks' = [tasks EXCEPT ![t] = new] /\ busy' = busy /\ Undrawn
    BY <1>3 DEF Routed
  <2>. QED
    BY <2>2, <2>3, NewRowMoves DEF Shows, Undrawn, TypeOK
<1>4. CASE workspace' # None /\ address'.view # "lombard" /\ address'.id = None
  <2>. PICK view : view = address'.view
    OBVIOUS
  <2>1. Rendered(Plain(view, None, {})) /\ Ended(t)
    BY <1>4 DEF Routed
  <2>2. view \in AnyView
    BY Addresses
  <2>3. Plain(view, None, {}) \in PageRow
    BY <2>2, PlainPages
  <2>. QED
    BY <2>1, <2>3, EndedMoves, Drawn DEF Shows
<1>. QED
  BY <1>1, <1>2, <1>3, <1>4

-----------------------------------------------------------------------------
(* Steps.                                                                     *)

LEMMA StepKeeps ==
    ASSUME IInv, NEW t \in Task, Moves(t), Shows, Fetching',
           rows' \in [Id -> SUBSET AnyFact],
           workspace' \in {None} \cup [Id -> SUBSET AnyFact],
           address' \in Address, dialog' = dialog
    PROVE  IInv'
BY MovesKeep DEF IInv, TypeOK, Shows, Moves

LEMMA NavigateHolds ==
    ASSUME IInv, NEW t \in Task, NEW a \in Address, Navigate(a, t)
    PROVE  IInv'
<1>. PICK row : row = [IdleTask EXCEPT !.kind = "route"]
  OBVIOUS
<1>1. NewRow(t, row)
  BY DEF Navigate, Free, NewRow, IdleTask, TaskRow
<1>2. address' \in Address /\ Routed(t, row)
  BY DEF Navigate
<1>3. Moves(t) /\ Shows /\ Fetching'
  BY <1>1, <1>2, RoutedMoves DEF IInv
<1>. QED
  BY <1>2, <1>3, StepKeeps DEF Navigate, IInv, TypeOK

LEMMA KeptRow ==
    ASSUME IInv, NEW t \in Task
    PROVE  NewRow(t, tasks[t]) /\ NewRow(t, [tasks[t] EXCEPT !.at = "caught"])
BY DEF IInv, TypeOK, Fetching, NewRow, TaskRow

LEMMA LoadHolds ==
    ASSUME IInv, NEW t \in Task, LoadAnswered(t) \/ LoadCompleted(t) \/ LoadFails(t)
    PROVE  IInv'
<1>1. CASE LoadAnswered(t)
  <2>. PICK row : row = [tasks[t] EXCEPT !.at = "completing"]
    OBVIOUS
  <2>1. NewRow(t, row)
    BY DEF IInv, TypeOK, Fetching, NewRow, TaskRow
  <2>2. tasks' = [tasks EXCEPT ![t] = row] /\ busy' = busy /\ Undrawn
    BY <1>1 DEF LoadAnswered
  <2>3. Moves(t) /\ Shows /\ Fetching'
    BY <2>1, <2>2, NewRowMoves DEF IInv, TypeOK, Shows, Undrawn
  <2>. QED
    BY <1>1, <2>3, StepKeeps DEF LoadAnswered, IInv, TypeOK
<1>3. CASE LoadCompleted(t)
  <2>1. /\ Routed(t, tasks[t]) /\ address' \in Address
        /\ workspace' \in {None} \cup [Id -> SUBSET AnyFact]
    BY <1>3 DEF LoadCompleted, IInv, TypeOK
  <2>2. Moves(t) /\ Shows /\ Fetching'
    BY <2>1, KeptRow, RoutedMoves DEF IInv
  <2>. QED
    BY <1>3, <2>1, <2>2, StepKeeps DEF LoadCompleted, IInv, TypeOK
<1>2. CASE LoadFails(t)
  <2>1. address' \in Address
    BY <1>2 DEF LoadFails, IInv, TypeOK
  <2>2. CASE Rendered(Plain("notFound", None, {})) /\ Ended(t)
    <3>1. Plain("notFound", None, {}) \in PageRow
      BY PlainPages
    <3>. QED
      BY <1>2, <2>1, <2>2, <3>1, Drawn, EndedMoves, StepKeeps
      DEF LoadFails, IInv, TypeOK, Shows
  <2>3. CASE Routed(t, [tasks[t] EXCEPT !.at = "caught"])
    <3>1. Moves(t) /\ Shows /\ Fetching'
      BY <2>1, <2>3, KeptRow, RoutedMoves DEF IInv
    <3>. QED
      BY <1>2, <2>1, <3>1, StepKeeps DEF LoadFails, IInv, TypeOK
  <2>. QED
    BY <1>2, <2>2, <2>3 DEF LoadFails
<1>. QED
  BY <1>1, <1>2, <1>3

LEMMA FetchHolds ==
    ASSUME IInv, NEW t \in Task, FetchAnswered(t) \/ FetchFails(t)
    PROVE  IInv'
<1>1. /\ tasks[t].view \in AnyView /\ tasks[t].of \in Id
      /\ rows \in [Id -> SUBSET AnyFact] /\ address \in Address
      /\ workspace \in {None} \cup [Id -> SUBSET AnyFact]
      /\ UNCHANGED <<rows, workspace, address, dialog>>
  BY DEF FetchAnswered, FetchFails, IInv, TypeOK, TaskRow, Fetching
<1>2. CASE FetchAnswered(t)
  <2>. PICK view, of : view = tasks[t].view /\ of = tasks[t].of
    OBVIOUS
  <2>. PICK F \in {rows[of]} \cup When(view = "lombard", {rows[of] \ {"customers"}}) :
           Rendered([Plain(view, of, F) EXCEPT
               !.venue = IF view = "dispute" THEN of ELSE None,
               !.saves = IF view = "dispute" THEN {of} ELSE {}])
    BY <1>2 DEF FetchAnswered
  <2>. PICK plain : plain = Plain(view, of, F)
    OBVIOUS
  <2>1. plain \in PageRow
    <3>1. F \in SUBSET AnyFact
      BY <1>1 DEF When
    <3>. QED
      BY <1>1, <3>1, PlainPages
  <2>2. PICK p : p = [plain EXCEPT !.venue = IF view = "dispute" THEN of ELSE None,
                                   !.saves = IF view = "dispute" THEN {of} ELSE {}]
    OBVIOUS
  <2>3. p \in PageRow
    BY <1>1, <2>1, <2>2 DEF PageRow
  <2>4. Rendered(p) /\ Ended(t)
    BY <1>2, <2>2 DEF FetchAnswered
  <2>5. Moves(t) /\ Shows /\ Fetching'
    BY <2>3, <2>4, Drawn, EndedMoves DEF IInv, Shows
  <2>. QED
    BY <1>1, <2>5, StepKeeps
<1>3. CASE FetchFails(t)
  <2>1. CASE Rendered(Plain("notFound", None, {})) /\ Ended(t)
    <3>1. Plain("notFound", None, {}) \in PageRow
      BY PlainPages
    <3>2. Moves(t) /\ Shows /\ Fetching'
      BY <2>1, <3>1, Drawn, EndedMoves DEF IInv, Shows
    <3>. QED
      BY <1>1, <3>2, StepKeeps
  <2>2. CASE Undrawn /\ Ended(t)
    <3>1. Moves(t) /\ Shows /\ Fetching'
      BY <2>2, EndedMoves DEF IInv, Shows, Undrawn, TypeOK
    <3>. QED
      BY <1>1, <3>1, StepKeeps
  <2>3. CASE Routed(t, [tasks[t] EXCEPT !.at = "caught"])
    <3>1. Moves(t) /\ Shows /\ Fetching'
      BY <1>1, <2>3, KeptRow, RoutedMoves DEF IInv
    <3>. QED
      BY <1>1, <3>1, StepKeeps
  <2>. QED
    BY <1>3, <2>1, <2>2, <2>3 DEF FetchFails
<1>. QED
  BY <1>2, <1>3

LEMMA ChangedRows ==
    ASSUME TypeOK, NEW i \in Id \cup {None}, NEW r \in Changed(i)
    PROVE  r \in [Id -> SUBSET AnyFact]
<1>1. CASE i = None
  BY <1>1 DEF TypeOK, Changed
<1>2. CASE i # None
  <2>1. PICK F \in SUBSET Facts[i] : r = [rows EXCEPT ![i] = F]
    BY <1>2 DEF Changed
  <2>2. F \subseteq AnyFact
    BY <1>2 DEF AnyFact
  <2>. QED
    BY <2>1, <2>2 DEF TypeOK
<1>. QED
  BY <1>1, <1>2

LEMMA OfferedRows ==
    ASSUME TypeOK, NEW p \in Offered
    PROVE  p \in ButtonRow
<1>1. ASSUME NEW a, NEW i \in Id \cup {None}
      PROVE  ButtonFor(a, i) \in ButtonRow
  BY DEF ButtonFor, ButtonRow
<1>2. page.id \in Id \cup {None}
  BY DEF TypeOK, PageRow
<1>3. \E a, i : i \in Id \cup {None} /\ p = ButtonFor(a, i)
  BY <1>2 DEF Offered
<1>. QED
  BY <1>1, <1>3

(* An act begins only while none runs.                                        *)
LEMMA StartedHolds ==
    ASSUME IInv, NEW t \in Task, NEW p \in ButtonRow, ~busy,
           Started(t, p), dialog' = None,
           UNCHANGED <<rows, workspace, address, page, assessing, refreshing>>
    PROVE  IInv'
<1>. PICK row : row = [IdleTask EXCEPT !.kind = "act", !.at = "posting",
                           !.leads = p.leads, !.id = p.id]
  OBVIOUS
<1>1. /\ row \in TaskRow /\ row.kind = "act" /\ row.view = None
      /\ tasks' = [tasks EXCEPT ![t] = row] /\ busy' = TRUE
  BY DEF Started, IdleTask, TaskRow, ButtonRow
<1>2. \A u \in Task : tasks'[u] = IF u = t THEN row ELSE tasks[u]
  BY <1>1 DEF IInv, TypeOK
<1>3. TypeOK' /\ Fetching'
  BY <1>1, <1>2 DEF IInv, TypeOK, Fetching
<1>4. OneAct'
  <2>1. \A u \in Task : tasks[u].kind # "act"
    BY DEF IInv, OneAct
  <2>2. \A u \in Task : tasks'[u].kind = "act" <=> u = t
    BY <1>1, <1>2, <2>1
  <2>. QED
    BY <1>1, <2>2 DEF OneAct
<1>. QED
  BY <1>3, <1>4 DEF IInv

LEMMA ClickHolds ==
    ASSUME IInv, NEW t \in Task, NEW p \in Offered, Click(p, t)
    PROVE  IInv'
<1>1. p \in ButtonRow
  BY OfferedRows DEF IInv
<1>2. CASE p.asks = "no"
  BY <1>1, <1>2, StartedHolds DEF Click
<1>3. CASE p.asks # "no"
  <2>1. /\ UNCHANGED <<rows, workspace, address, page, busy, tasks, refreshing>>
        /\ dialog' = p /\ (~busy \/ p.asks = "first")
    BY <1>3 DEF Click
  <2>2. TypeOK' /\ Fetching'
    BY <1>1, <2>1 DEF IInv, TypeOK, Fetching
  <2>3. OneAct'
    BY <2>1 DEF IInv, OneAct
  <2>. QED
    BY <2>2, <2>3 DEF IInv
<1>. QED
  BY <1>2, <1>3

(* The rest of the state, when only the dialog closes.                        *)
LEMMA ClosedHolds ==
    ASSUME IInv, dialog' = None,
           UNCHANGED <<rows, workspace, address, page, busy, tasks, assessing, refreshing>>
    PROVE  IInv'
<1>1. TypeOK' /\ Fetching'
  BY DEF IInv, TypeOK, Fetching
<1>2. OneAct'
  BY DEF IInv, OneAct
<1>. QED
  BY <1>1, <1>2 DEF IInv

LEMMA DialogHolds ==
    ASSUME IInv, NEW t \in Task, DialogConfirmed(t)
    PROVE  IInv'
<1>1. dialog # None /\ dialog \in ButtonRow /\ dialog' = None
  BY DEF DialogConfirmed, IInv, TypeOK
<1>2. CASE dialog.asks = "first" /\ busy
  BY <1>2, ClosedHolds DEF DialogConfirmed
<1>3. CASE ~(dialog.asks = "first" /\ busy)
  <2>1. ~busy
    BY <1>1, <1>3 DEF IInv, OneAct
  <2>. PICK p : p = dialog
    OBVIOUS
  <2>2. Started(t, p)
    BY <1>3 DEF DialogConfirmed
  <2>. QED
    BY <1>1, <2>1, <2>2, StartedHolds DEF DialogConfirmed
<1>. QED
  BY <1>2, <1>3


(* Calls of which none becomes an act or ends being one.                      *)
LEMMA NoActMoves ==
    ASSUME IInv, tasks' \in [Task -> TaskRow], busy' = busy, dialog' = dialog,
           \A u \in Task :
               \/ tasks'[u].kind = tasks[u].kind
               \/ tasks[u].kind = "idle" /\ tasks'[u].kind \in {"route", "export"}
    PROVE  OneAct'
<1>1. \A u \in Task : tasks'[u].kind = "act" <=> tasks[u].kind = "act"
  OBVIOUS
<1>. QED
  BY <1>1 DEF IInv, OneAct

LEMMA PostedHolds ==
    ASSUME IInv, NEW t \in Task, NEW r \in Changed(tasks[t].id), NEW a \in Address,
           Posted(t, r, a)
    PROVE  IInv'
<1>1. tasks \in [Task -> TaskRow] /\ tasks[t].id \in Id \cup {None}
  BY DEF IInv, TypeOK, TaskRow
<1>2. /\ rows' \in [Id -> SUBSET AnyFact] /\ address' \in Address
      /\ UNCHANGED <<workspace, page, dialog, busy, refreshing>>
  BY <1>1, ChangedRows DEF Posted, IInv, TypeOK
<1>. PICK view, of : view = address'.view /\ of = address'.id
  OBVIOUS
<1>. PICK free : free = CHOOSE v \in Free : TRUE
  OBVIOUS
<1>. PICK posted : posted = [tasks[t] EXCEPT !.at = "loading"]
  OBVIOUS
<1>. PICK routed : routed = [IdleTask EXCEPT !.kind = "route", !.at = "fetching",
                                             !.view = view, !.of = of]
  OBVIOUS
<1>3. view \in AnyView /\ of \in Id \cup {None}
  BY <1>2, Addresses
<1>4. /\ posted \in TaskRow /\ posted.kind = tasks[t].kind
      /\ posted.view = tasks[t].view /\ posted.of = tasks[t].of
  BY <1>1 DEF TaskRow
<1>5. routed \in TaskRow /\ routed.kind = "route" /\ routed.of = of
  BY <1>3 DEF TaskRow, IdleTask
<1>6. Free # {} => free \in Task /\ tasks[free].kind = "idle"
  BY DEF Free
<1>7. tasks' = [u \in Task |->
        IF u = t THEN posted
        ELSE IF address' # address /\ of # None /\ Free # {} /\ u = free THEN routed
        ELSE tasks[u]]
  BY DEF Posted
<1>8. \A u \in Task :
        \/ u = t /\ tasks'[u] = posted
        \/ tasks[u].kind = "idle" /\ of # None /\ tasks'[u] = routed
        \/ tasks'[u] = tasks[u]
  BY <1>6, <1>7
<1>9. tasks' \in [Task -> TaskRow]
  <2>1. \A u \in Task : tasks'[u] \in TaskRow
    BY <1>1, <1>4, <1>5, <1>8
  <2>2. tasks' = [u \in Task |-> tasks'[u]]
    BY <1>7
  <2>. QED
    BY <2>1, <2>2
<1>10. OneAct'
  BY <1>2, <1>4, <1>5, <1>8, <1>9, NoActMoves
<1>11. Fetching'
  BY <1>3, <1>4, <1>5, <1>8 DEF IInv, Fetching
<1>12. TypeOK'
  BY <1>2, <1>9 DEF IInv, TypeOK
<1>. QED
  BY <1>10, <1>11, <1>12 DEF IInv

LEMMA PostFailsHolds ==
    ASSUME IInv, NEW t \in Task, NEW r \in Changed(tasks[t].id), PostFails(t, r)
    PROVE  IInv'
<1>1. tasks[t].id \in Id \cup {None}
  BY DEF IInv, TypeOK, TaskRow
<1>2. /\ rows' \in [Id -> SUBSET AnyFact] /\ address' \in Address
      /\ workspace' \in {None} \cup [Id -> SUBSET AnyFact] /\ dialog' = dialog
      /\ Routed(t, [tasks[t] EXCEPT !.at = "caught"])
  BY <1>1, ChangedRows DEF PostFails, IInv, TypeOK
<1>3. Moves(t) /\ Shows /\ Fetching'
  BY <1>2, KeptRow, RoutedMoves DEF IInv
<1>. QED
  BY <1>2, <1>3, StepKeeps

LEMMA ExportHolds ==
    ASSUME IInv, NEW t \in Task, Export(t)
    PROVE  IInv'
<1>. PICK id : id = page.id
  OBVIOUS
<1>. PICK row : row = [IdleTask EXCEPT !.kind = "export", !.at = "posting", !.id = id]
  OBVIOUS
<1>1. id \in Id
  BY DEF Export, IInv, TypeOK, PageRow
<1>2. NewRow(t, row)
  BY <1>1 DEF Export, Free, NewRow, TaskRow, IdleTask
<1>3. tasks' = [tasks EXCEPT ![t] = row] /\ busy' = busy
  BY DEF Export
<1>4. Moves(t) /\ busy' \in BOOLEAN /\ Fetching'
  BY <1>2, <1>3, NewRowMoves DEF IInv
<1>. QED
  BY <1>4, StepKeeps DEF Export, IInv, TypeOK, Shows

(* Venue cards and other people's acts touch no call and no dialog.           *)
LEMMA ElsewhereHolds ==
    ASSUME IInv, UNCHANGED <<workspace, address, dialog, busy, tasks>>,
           rows' \in [Id -> SUBSET AnyFact], page' \in PageRow,
           refreshing' \subseteq [id : Id, attached : BOOLEAN]
    PROVE  IInv'
<1>1. TypeOK' /\ Fetching'
  BY DEF IInv, TypeOK, Fetching
<1>2. OneAct'
  BY DEF IInv, OneAct
<1>. QED
  BY <1>1, <1>2 DEF IInv

LEMMA VenueHolds ==
    ASSUME IInv,
           \/ \E i \in Id : VenueAnswered(i)
           \/ assess
           \/ \E r \in refreshing : Reassessed(r)
           \/ VenueFails
    PROVE  IInv'
<1>1. /\ page \in PageRow /\ refreshing \subseteq [id : Id, attached : BOOLEAN]
      /\ rows \in [Id -> SUBSET AnyFact]
  BY DEF IInv, TypeOK
<1>2. ASSUME NEW i \in Id
      PROVE  /\ [page EXCEPT !.venue = i, !.saves = {i}] \in PageRow
             /\ [page EXCEPT !.saves = @ \cup {i}] \in PageRow
  BY <1>1 DEF PageRow
<1>3. ASSUME NEW i \in Id, VenueAnswered(i)
      PROVE  IInv'
  BY <1>1, <1>2, <1>3, ElsewhereHolds DEF VenueAnswered
<1>4. CASE assess
  <2>1. page.saves \subseteq Id
    BY <1>1 DEF PageRow
  <2>2. {[id |-> i, attached |-> TRUE] : i \in page.saves}
          \subseteq [id : Id, attached : BOOLEAN]
    <3>1. \A i \in page.saves :
            [id |-> i, attached |-> TRUE] \in [id : Id, attached : BOOLEAN]
      BY <2>1
    <3>. QED
      BY <3>1
  <2>. QED
    BY <1>1, <1>4, <2>2, ElsewhereHolds DEF assess
<1>5. ASSUME NEW r \in refreshing, Reassessed(r)
      PROVE  IInv'
  <2>1. r.id \in Id
    BY <1>1
  <2>2. page' \in PageRow
    BY <1>1, <1>2, <1>5, <2>1 DEF Reassessed
  <2>. QED
    BY <1>1, <1>5, <2>2, ElsewhereHolds DEF Reassessed
<1>6. CASE VenueFails
  BY <1>1, <1>6, ElsewhereHolds DEF VenueFails
<1>. QED
  BY <1>3, <1>4, <1>5, <1>6

LEMMA NextHolds ==
    ASSUME IInv, [Next]_vars
    PROVE  IInv'
<1>1. ASSUME NEW t \in Task, Answers(t)
      PROVE  IInv'
  BY <1>1, LoadHolds, FetchHolds, PostedHolds, PostFailsHolds DEF Answers
<1>2. ASSUME NEW t \in Task,
             \/ \E a \in Address : Navigate(a, t)
             \/ \E p \in Offered : Click(p, t)
             \/ DialogConfirmed(t) \/ Export(t)
      PROVE  IInv'
  BY <1>2, NavigateHolds, ClickHolds, DialogHolds, ExportHolds
<1>3. CASE DialogCancelled
  BY <1>3, ClosedHolds DEF DialogCancelled
<1>4. ASSUME NEW i \in Id, NEW r \in Changed(i), OthersAct(r)
      PROVE  IInv'
  BY <1>4, ChangedRows, ElsewhereHolds DEF OthersAct, IInv, TypeOK
<1>5. CASE UNCHANGED vars
  BY <1>5, ElsewhereHolds DEF vars, IInv, TypeOK
<1>. QED
  BY <1>1, <1>2, <1>3, <1>4, <1>5, VenueHolds DEF Next

LEMMA IInvHolds == Spec => []IInv
BY InitHolds, NextHolds, PTL DEF Spec

-----------------------------------------------------------------------------
(* The theorems.                                                              *)

(* act() runs at most once at a time and its flag tells so, wherever dialogs, *)
(* answers and changes of the address come in between.                        *)
THEOREM OneActRuns == Spec => []OneActAtATime
<1>1. ASSUME IInv PROVE OneActAtATime
  <2>. DEFINE acting == {t \in Task : tasks[t].kind = "act"}
  <2>1. busy <=> acting # {}
    BY <1>1 DEF IInv, OneAct
  <2>2. CASE acting = {}
    BY <2>1, <2>2, FS_EmptySet DEF OneActAtATime
  <2>3. CASE acting # {}
    <3>1. PICK t \in Task : acting = {t}
      BY <1>1, <2>3 DEF IInv, OneAct
    <3>2. Cardinality(acting) = 1
      BY <3>1, FS_Singleton
    <3>. HIDE DEF acting
    <3>3. Cardinality(acting) <= 1 /\ (busy <=> acting # {})
      BY <2>1, <3>2
    <3>. QED
      BY <3>3 DEF OneActAtATime, acting
  <2>. QED
    BY <2>2, <2>3
<1>. QED
  BY <1>1, IInvHolds, PTL

====
