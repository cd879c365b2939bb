----------------------------- MODULE DisputeFiles -----------------------------
(***************************************************************************)
(* The content of the dispute files: stages, links, letters and exports    *)
(* that the workbench of apps/api/src/modules/sponsum/service.ts and       *)
(* dispute-workbench.ts keep beside a disputed receivable.                 *)
(*                                                                         *)
(* ReceivableDesk has the money side of a dispute (offers, locks, trades); *)
(* here only the status, the disputed amount, the Resolve case and the     *)
(* holder of a receivable are kept, and a sale is one external step.       *)
(*                                                                         *)
(* A request names its case by a key, which is looked up among four ids of *)
(* every listed case.  All requests are signed-in: a dossier that is read  *)
(* gains the catalogue's links in the answer only, no Fulfilment box is    *)
(* looked up, and the parties of a letter are those of the records.  A     *)
(* letter is drafted while OpenAI is awaited (with a 45 s limit); every    *)
(* other handler runs in one turn.  Links are a set of names:              *)
(* addRecordLinks compares untrimmed names, so it may append a second      *)
(* copy, which normalizeWorkbench drops when the store writes.             *)
(***************************************************************************)
EXTENDS Naturals, Sequences, SequencesExt, ReceivableTransitions

CONSTANTS
  Receivable,   \* numbers, in the order in which they were recorded
  invoiceOf,    \* invoice_id of each
  creditorOf,   \* creditor_party_id of each
  debtorOf,     \* debtor_party_id of each
  Party,
  nameOf,       \* the name that documents give each
  spelt,        \* its id, without the prefix that says what it is
  CalledSo,     \* <<p, q>>: q's name is p's id
  Fits,         \* <<p, q>>: p's id contains how q's name begins
  Nominal,
  Case,         \* Resolve cases a person may type in
  Word,         \* names of records a person may link
  OocInput, CourtInput,  \* stages that updateDisputeTrack is called with
  Call,         \* requests for a letter
  Export,       \* ids of exports
  AiEnabled,    \* whether OPENAI_API_KEY is set
  None

ASSUME DisputeFilesAssumption ==
  /\ Receivable \subseteq Nat
  /\ creditorOf \in [Receivable -> Party]
  /\ debtorOf \in [Receivable -> Party]
  /\ Nominal \in Nat \ {0}
  /\ AiEnabled \in BOOLEAN
  /\ None \notin Party \cup Case

(* Nobody takes for a name the id of a party that has another one.         *)
ASSUME NameAssumption == \A p, q \in Party : <<p, q>> \in CalledSo => nameOf[q] = nameOf[p]

VARIABLES
  assets,              \* status, disputed_amount, resolve_case_id, holder
  dispute_workbenches, \* the rows, in the order in which they were added
  calls                \* letters being drafted

vars == <<assets, dispute_workbenches, calls>>

OOC_STAGES == {"negotiation", "mediation", "resolve", "settled", "withdrawn"}
COURT_STAGES == {"idle", "eschkg", "justitia_inbox", "justitia_filed"}
DISPUTE_OUTCOMES == {"settled", "withdrawn"}

ASSUME StageAssumption == OocInput \subseteq OOC_STAGES /\ CourtInput \subseteq COURT_STAGES

(* Ids, told apart by where they come from. *)
Key == [kind : {"receivable", "dispute", "resolve"}, id : Receivable]
       \cup [kind : {"case"}, id : Case]
       \cup [kind : {"invoice", "resolve-invoice"}, id : {invoiceOf[r] : r \in Receivable}]
ReceivableKey(r) == [kind |-> "receivable", id |-> r]

NoCall == [stage |-> "idle"]

Init ==
  /\ \E bad \in SUBSET Receivable :
       assets = [r \in Receivable |->
         [status |-> IF r \in bad THEN "PARTIALLY_DISPUTED" ELSE "ACCEPTED",
          disputed |-> IF r \in bad THEN 1 ELSE 0,
          resolve |-> None, holder |-> creditorOf[r]]]
  /\ dispute_workbenches = <<>>
  /\ calls = [c \in Call |-> NoCall]

-----------------------------------------------------------------------------
(* The rows of the workbench. *)

defaultWorkbench(r, resolve) ==
  [receivable |-> r, ooc |-> IF resolve = None THEN "negotiation" ELSE "resolve",
   court |-> "idle", lifecycle |-> "open", outcome |-> None,
   links |-> {}, forms |-> {}, exports |-> {}]

HasBench(benches, r) == \E i \in DOMAIN benches : benches[i].receivable = r
BenchAt(benches, r) ==
  CHOOSE i \in DOMAIN benches : benches[i].receivable = r

readWorkbench(r) ==
  IF HasBench(dispute_workbenches, r)
  THEN dispute_workbenches[BenchAt(dispute_workbenches, r)]
  ELSE defaultWorkbench(r, assets[r].resolve)

(* The row that a handler changes; a new one comes after the others.       *)
upsertWorkbench(r, resolve) ==
  IF HasBench(dispute_workbenches, r)
  THEN dispute_workbenches[BenchAt(dispute_workbenches, r)]
  ELSE defaultWorkbench(r, resolve)

Saved(bench) ==
  dispute_workbenches' =
    IF HasBench(dispute_workbenches, bench.receivable)
    THEN [dispute_workbenches EXCEPT
            ![BenchAt(dispute_workbenches, bench.receivable)] = bench]
    ELSE Append(dispute_workbenches, bench)

-----------------------------------------------------------------------------
(* How a request finds its case. *)

Disputed(r) == assets[r].status \in {"DISPUTED", "PARTIALLY_DISPUTED"}

(* Receivables with a dispute of their own come first, in their order,     *)
(* then those that only have a file, in the order of the files.            *)
listDisputes ==
  LET own == {r \in Receivable :
                Disputed(r) \/ assets[r].disputed > 0 \/ assets[r].resolve # None}
      filed == [i \in DOMAIN dispute_workbenches |-> dispute_workbenches[i].receivable]
  IN  SetToSortSeq(own, <) \o SelectSeq(filed, LAMBDA r : r \notin own)

dispute_id(r) ==
  IF assets[r].resolve # None THEN assets[r].resolve
  ELSE [kind |-> "dispute", id |-> r]

Names(k, r) ==
  k \in {dispute_id(r), assets[r].resolve, ReceivableKey(r),
         [kind |-> "invoice", id |-> invoiceOf[r]]}

(* disputeDossier(k) of the receivable r: the first row that k names.      *)
disputeDossier(k, r) ==
  \E i \in DOMAIN listDisputes :
    /\ listDisputes[i] = r
    /\ Names(k, r)
    /\ \A j \in 1..(i - 1) : ~Names(k, listDisputes[j])

(* The link of a row of the desk's list (disputeHref of sponsum-desk.js).  *)
disputeHref(r) == dispute_id(r)

-----------------------------------------------------------------------------
(* Opening, closing, archiving. *)

OpenedBench(bench) ==
  [bench EXCEPT
     !.lifecycle = "open", !.outcome = None,
     !.ooc = IF @ \in DISPUTE_OUTCOMES THEN "resolve" ELSE @]

openDispute(r, amount, case) ==
  LET next == IF 0 < amount /\ amount < Nominal THEN "PARTIALLY_DISPUTED"
              ELSE "DISPUTED"
      resolve == IF case # None THEN case ELSE [kind |-> "resolve", id |-> r]
  IN  /\ assets[r].status = next \/ next \in ReceivableNext(assets[r].status)
      /\ assets' = [assets EXCEPT ![r].status = next, ![r].disputed = amount,
                                  ![r].resolve = resolve]
      /\ Saved(OpenedBench(upsertWorkbench(r, resolve)))
      /\ UNCHANGED calls

createDispute(r, amount, case) ==
  /\ amount > 0
  /\ ~(readWorkbench(r).lifecycle = "open" /\ Disputed(r))
  /\ openDispute(r, amount,
       IF case # None THEN case
       ELSE [kind |-> "resolve-invoice", id |-> invoiceOf[r]])

(* The first of its two writes stores the file as it was.                  *)
reopenDispute(r, amount) ==
  /\ readWorkbench(r).lifecycle # "open"
  /\ assets[r].status \notin {"CLOSED", "PAID"}
  /\ openDispute(r, amount, assets[r].resolve)

AssetAction(row, action) ==
  CASE action = "keep" -> {row}
    [] action = "restore" /\ row.status \in {"ACCEPTED", "CLOSED", "PAID"} ->
         {[row EXCEPT !.disputed = 0]}
    [] action = "restore" /\ "ACCEPTED" \in ReceivableNext(row.status) ->
         {[row EXCEPT !.disputed = 0, !.status = "ACCEPTED"]}
    [] action = "close_asset" /\ row.status = "CLOSED" -> {row}
    [] action = "close_asset" /\ "CLOSED" \in ReceivableNext(row.status) ->
         {[row EXCEPT !.status = "CLOSED"]}
    [] OTHER -> {}

closeDispute(r, outcome, action) ==
  /\ readWorkbench(r).lifecycle # "archived"
  /\ \E row \in AssetAction(assets[r], action) : assets' = [assets EXCEPT ![r] = row]
  /\ Saved([upsertWorkbench(r, assets[r].resolve) EXCEPT
             !.ooc = outcome, !.lifecycle = "closed", !.outcome = outcome])
  /\ UNCHANGED calls

archiveDispute(r) ==
  /\ readWorkbench(r).lifecycle = "closed"
  /\ Saved([upsertWorkbench(r, assets[r].resolve) EXCEPT !.lifecycle = "archived"])
  /\ UNCHANGED <<assets, calls>>

-----------------------------------------------------------------------------
(* The content of the file, whatever its lifecycle. *)

updateDisputeTrack(r, ooc, court) ==
  /\ Saved([upsertWorkbench(r, assets[r].resolve) EXCEPT
             !.ooc = IF ooc = None THEN @ ELSE ooc,
             !.court = IF court = None THEN @ ELSE court])
  /\ UNCHANGED <<assets, calls>>

linkDispute(r, word) ==
  /\ Saved([upsertWorkbench(r, assets[r].resolve) EXCEPT !.links = @ \cup {word}])
  /\ UNCHANGED <<assets, calls>>

(* The record of an export; its ZIP is packed anew at each download, from  *)
(* the letters the file then has.                                          *)
createDisputeExport(r, e) ==
  /\ \A i \in DOMAIN dispute_workbenches : e \notin dispute_workbenches[i].exports
  /\ Saved([upsertWorkbench(r, assets[r].resolve) EXCEPT !.exports = @ \cup {e}])
  /\ UNCHANGED <<assets, calls>>

-----------------------------------------------------------------------------
(* Letters. *)

\* Mutant: without the holders.
localPartiesFromState_NoHolder ==
  UNION {{debtorOf[r], creditorOf[r]} : r \in Receivable}

localPartiesFromState ==
  UNION {{debtorOf[r], assets[r].holder, creditorOf[r]} : r \in Receivable}

(* What a letter calls a party: whom the list has under this id or name,   *)
(* else the first whose name begins with what the id contains, else the    *)
(* id.  Which of several is the first is left open.                        *)
matchParty(p, parties) ==
  LET same == {q \in parties : q = p \/ <<p, q>> \in CalledSo}
      near == {q \in parties : <<p, q>> \in Fits}
  IN  IF same # {} THEN {nameOf[q] : q \in same}
      ELSE IF near # {} THEN {nameOf[q] : q \in near}
      ELSE {spelt[p]}

(* The dossier that a letter is drafted from, its file included (of which  *)
(* the exports are kept here).                                             *)
disputeContext(r) ==
  [receivable |-> r, holder |-> assets[r].holder, resolve |-> assets[r].resolve,
   exports |-> readWorkbench(r).exports]

(* ... with what it will call the parties.                                 *)
enrichDisputeContext(r) ==
  LET ctx == disputeContext(r)
      Called(p) == matchParty(p, localPartiesFromState)
  IN  {[ctx |-> ctx, debtor |-> d, holder |-> h, creditor |-> o] :
         d \in Called(debtorOf[r]), h \in Called(ctx.holder), o \in Called(creditorOf[r])}

FormOf(c, draft, source) ==
  [call |-> c, receivable |-> draft.ctx.receivable, of |-> draft.ctx.holder,
   debtor |-> draft.debtor, holder |-> draft.holder, creditor |-> draft.creditor,
   source |-> source]

\* Mutant: the exports are written back as they were before the await.
FormFiled_Captured(c, draft, source) ==
  /\ Saved([upsertWorkbench(draft.ctx.receivable, draft.ctx.resolve) EXCEPT
             !.forms = @ \cup {FormOf(c, draft, source)}, !.exports = draft.ctx.exports])
  /\ calls' = [calls EXCEPT ![c] = [stage |-> "done"]]
  /\ UNCHANGED assets

(* The letter is put into the file as it is now, which is read again; its  *)
(* text is that of the dossier read before the await.                      *)
FormFiled(c, draft, source) ==
  /\ Saved([upsertWorkbench(draft.ctx.receivable, draft.ctx.resolve) EXCEPT
             !.forms = @ \cup {FormOf(c, draft, source)}])
  /\ calls' = [calls EXCEPT ![c] = [stage |-> "done"]]
  /\ UNCHANGED assets

(* Without OpenAI the letter is that of the template, at once. *)
generateDisputeForm(c, r, wantAi) ==
  /\ calls[c] = NoCall
  /\ \E draft \in enrichDisputeContext(r) :
       IF wantAi /\ AiEnabled
       THEN /\ calls' = [calls EXCEPT ![c] = [stage |-> "openai", draft |-> draft]]
            /\ UNCHANGED <<assets, dispute_workbenches>>
       ELSE FormFiled(c, draft, "template")

OpenAiAnswers(c) == calls[c].stage = "openai" /\ FormFiled(c, calls[c].draft, "openai")

\* Mutant: a failed draft ends the request.
OpenAiFails_Throws(c) ==
  /\ calls[c].stage = "openai"
  /\ calls' = [calls EXCEPT ![c] = [stage |-> "done"]]
  /\ UNCHANGED <<assets, dispute_workbenches>>

(* An error, an empty answer, or none within the limit.                    *)
OpenAiFails(c) == calls[c].stage = "openai" /\ FormFiled(c, calls[c].draft, "template")

-----------------------------------------------------------------------------
(* A sale of an undisputed receivable, from offer to payment; meanwhile    *)
(* nothing else of it is changed here.                                     *)
Sold(r, p) ==
  /\ assets[r].status = "ACCEPTED"
  /\ p # assets[r].holder
  /\ assets' = [assets EXCEPT ![r].status = "TRANSFERRED", ![r].holder = p]
  /\ UNCHANGED <<dispute_workbenches, calls>>

OnCase(k, r) ==
  /\ disputeDossier(k, r)
  /\ \/ \E amount \in 0..Nominal : reopenDispute(r, amount)
     \/ \E outcome \in DISPUTE_OUTCOMES, action \in {"keep", "restore", "close_asset"} :
          closeDispute(r, outcome, action)
     \/ archiveDispute(r)
     \/ \E ooc \in OocInput \cup {None}, court \in CourtInput \cup {None} :
          updateDisputeTrack(r, ooc, court)
     \/ \E word \in Word : linkDispute(r, word)
     \/ \E e \in Export : createDisputeExport(r, e)
     \/ \E c \in Call, wantAi \in BOOLEAN : generateDisputeForm(c, r, wantAi)

CaseInput == {[kind |-> "case", id |-> c] : c \in Case} \cup {None}

Next ==
  \/ \E r \in Receivable, amount \in 0..Nominal, case \in CaseInput :
       openDispute(r, amount, case) \/ createDispute(r, amount, case)
  \/ \E k \in Key, r \in Receivable : OnCase(k, r)
  \/ \E c \in Call : OpenAiAnswers(c) \/ OpenAiFails(c)
  \/ \E r \in Receivable, p \in Party : Sold(r, p)

Spec == Init /\ [][Next]_vars

(* The 45 s limit ends the wait for OpenAI.                                *)
FairSpec == Spec /\ \A c \in Call : WF_vars(OpenAiAnswers(c) \/ OpenAiFails(c))

-----------------------------------------------------------------------------
FormsOf(benches, r) ==
  IF HasBench(benches, r) THEN benches[BenchAt(benches, r)].forms ELSE {}

(* A letter that enters the file is in the name of the party that holds    *)
(* the receivable (docs/disputes-workbench.md: "Holder gewinnt gegen       *)
(* Origin-Creditor").  TLC refutes it (README, "Seen while modelling"):    *)
(* the receivable may be sold while OpenAI is awaited, and the letter is   *)
(* then filed in the seller's name.                                        *)
HolderSigns ==
  [][\A r \in Receivable :
       \A f \in FormsOf(dispute_workbenches', r) \ FormsOf(dispute_workbenches, r) :
         f.receivable = r /\ f.holder = nameOf[assets[r].holder]]_vars

(* No letter takes one party for another: each names debtor, holder and    *)
(* creditor as documents name them, and never comes to the guess by how a  *)
(* name begins, whoever held the receivables when it was asked for.        *)
LettersNameTheirParties ==
  \A i \in DOMAIN dispute_workbenches :
    LET row == dispute_workbenches[i]
    IN  \A f \in row.forms :
          /\ f.receivable = row.receivable
          /\ f.debtor = nameOf[debtorOf[row.receivable]]
          /\ f.holder = nameOf[f.of]
          /\ f.creditor = nameOf[creditorOf[row.receivable]]

(* What was put into a file stays there: no close, reopening, stage or     *)
(* link that is written while a letter is being drafted is undone by it,   *)
(* and no letter by them.  (An export names no letters: its download packs *)
(* those of the file.)                                                     *)
FileOnlyGrows ==
  [][\A i \in DOMAIN dispute_workbenches :
       LET before == dispute_workbenches[i]
           after == dispute_workbenches'[i]
       IN  /\ after.receivable = before.receivable
           /\ before.links \subseteq after.links
           /\ before.forms \subseteq after.forms
           /\ before.exports \subseteq after.exports]_vars

(* A letter that was asked for is in the file in the end, also when OpenAI *)
(* fails or stays silent.                                                  *)
LettersArrive ==
  \A c \in Call :
    calls[c].stage = "openai" ~>
      \E i \in DOMAIN dispute_workbenches : \E f \in dispute_workbenches[i].forms : f.call = c

(* The row of a case in the list leads to its own dossier                  *)
(* (docs/disputes-workbench.md: "Dossier (Zeile in der Liste)").  TLC      *)
(* refutes it for two receivables that share a Resolve case (README, "Seen *)
(* while modelling").                                                      *)
RowOpensItsDossier ==
  \A i \in DOMAIN listDisputes : disputeDossier(disputeHref(listDisputes[i]), listDisputes[i])
=============================================================================
