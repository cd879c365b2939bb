------------------------ MODULE DisputeWorkbench_proofs ---------------------
(***************************************************************************)
(* The dispute workbench.                                                  *)
(*                                                                         *)
(* Its files, for any receivables, parties, cases and letters: what is in  *)
(* a file stays there, however the drafting of letters interleaves with    *)
(* the handlers that run in one turn, and every letter in it calls the     *)
(* parties by their names, whatever the names and ids look like.           *)
(*                                                                         *)
(* Its deadlines, for any period in which the guards of the loops suffice  *)
(* (CalendarServes): they end on the day that the law gives.               *)
(***************************************************************************)
EXTENDS DisputeFiles, LegalDeadlines, SequenceTheorems, FiniteSetTheorems, TLAPS

-----------------------------------------------------------------------------
(* The files: invariants. *)

AssetRow == [status : ReceivableStatus, disputed : 0..Nominal,
             resolve : Key \cup {None}, holder : Party]

Name == {nameOf[p] : p \in Party}

FormRow == [call : Call, receivable : Receivable, of : Party, debtor : Name,
            holder : Name, creditor : Name, source : {"template", "openai"}]

BenchRow == [receivable : Receivable, ooc : OOC_STAGES, court : COURT_STAGES,
             lifecycle : {"open", "closed", "archived"},
             outcome : DISPUTE_OUTCOMES \cup {None},
             links : SUBSET Word, forms : SUBSET FormRow, exports : SUBSET Export]

Context == [receivable : Receivable, holder : Party, resolve : Key \cup {None},
            exports : SUBSET Export]

DraftRow == [ctx : Context, debtor : Name, holder : Name, creditor : Name]

CallRow == {NoCall, [stage |-> "done"]} \cup [stage : {"openai"}, draft : DraftRow]

TypeOK ==
  /\ assets \in [Receivable -> AssetRow]
  /\ dispute_workbenches \in Seq(BenchRow)
  /\ calls \in [Call -> CallRow]

(* No receivable has two files.                                            *)
OneEach(benches) ==
  \A i, j \in DOMAIN benches : benches[i].receivable = benches[j].receivable => i = j
OneFileEach == OneEach(dispute_workbenches)

(* A letter, or the draft of one, for the receivable r that calls every    *)
(* party by its name.                                                      *)
WellNamed(text, r, holder) ==
  /\ text.debtor = nameOf[debtorOf[r]]
  /\ text.holder = nameOf[holder]
  /\ text.creditor = nameOf[creditorOf[r]]

RightForms(r, forms) == \A f \in forms : f.receivable = r /\ WellNamed(f, r, f.of)

LettersRight == \A r \in Receivable : RightForms(r, FormsOf(dispute_workbenches, r))

DraftsRight ==
  \A c \in Call :
    calls[c].stage = "openai" =>
      LET d == calls[c].draft IN WellNamed(d, d.ctx.receivable, d.ctx.holder)

IInv == TypeOK /\ OneFileEach /\ LettersRight /\ DraftsRight

-----------------------------------------------------------------------------
(* What one step may do. *)

RowGrows(before, after) ==
  /\ after.receivable = before.receivable
  /\ before.links \subseteq after.links
  /\ before.forms \subseteq after.forms
  /\ before.exports \subseteq after.exports

FilesGrow ==
  \A i \in DOMAIN dispute_workbenches :
    RowGrows(dispute_workbenches[i], dispute_workbenches'[i])

-----------------------------------------------------------------------------
(* The rows of the workbench. *)

Put(benches, bench) ==
  IF HasBench(benches, bench.receivable)
  THEN [benches EXCEPT ![BenchAt(benches, bench.receivable)] = bench]
  ELSE Append(benches, bench)

LEMMA FileFound ==
  ASSUME NEW L, NEW r, HasBench(L, r)
  PROVE  BenchAt(L, r) \in DOMAIN L /\ L[BenchAt(L, r)].receivable = r
BY DEF HasBench, BenchAt

LEMMA TheFile ==
  ASSUME NEW L, OneEach(L), NEW i \in DOMAIN L
  PROVE  HasBench(L, L[i].receivable) /\ BenchAt(L, L[i].receivable) = i
<1>1. HasBench(L, L[i].receivable)
  BY DEF HasBench
<1>2. QED
  BY <1>1, FileFound DEF OneEach

(* A row that is put in grows the one it replaces and leaves the others.   *)
LEMMA PuttingIn ==
  ASSUME NEW L \in Seq(BenchRow), OneEach(L), NEW b \in BenchRow,
         HasBench(L, b.receivable) => RowGrows(L[BenchAt(L, b.receivable)], b)
  PROVE  /\ Put(L, b) \in Seq(BenchRow)
         /\ OneEach(Put(L, b))
         /\ \A i \in DOMAIN L : RowGrows(L[i], Put(L, b)[i])
         /\ \A r : FormsOf(Put(L, b), r)
                     = IF r = b.receivable THEN b.forms ELSE FormsOf(L, r)
<1>. PICK M : M = Put(L, b)
  OBVIOUS
<1>. PICK n \in Nat : n = Len(L)
  OBVIOUS
<1>0. DOMAIN L = 1..n /\ \A i \in 1..n : L[i] \in BenchRow /\ RowGrows(L[i], L[i])
  BY DEF RowGrows
<1>1. CASE HasBench(L, b.receivable)
  <2>. PICK k : k = BenchAt(L, b.receivable)
    OBVIOUS
  <2>1. k \in 1..n /\ L[k].receivable = b.receivable /\ RowGrows(L[k], b)
    BY <1>0, <1>1, FileFound
  <2>2. M = [L EXCEPT ![k] = b]
    BY <1>1 DEF Put
  <2>3. M \in Seq(BenchRow) /\ DOMAIN M = 1..n
    BY <1>0, <2>1, <2>2, ExceptSeq
  <2>4. M[k] = b /\ \A i \in 1..n : i # k => M[i] = L[i]
    BY <1>0, <2>1, <2>2
  <2>5. \A i \in 1..n : RowGrows(L[i], M[i]) /\ M[i].receivable = L[i].receivable
    BY <1>0, <2>1, <2>4 DEF RowGrows
  <2>6. OneEach(M)
    BY <1>0, <2>3, <2>5 DEF OneEach
  <2>7. ASSUME NEW r
        PROVE  FormsOf(M, r) = IF r = b.receivable THEN b.forms ELSE FormsOf(L, r)
    <3>1. CASE \E i \in 1..n : L[i].receivable = r
      <4>1. PICK i \in 1..n : L[i].receivable = r
        BY <3>1
      <4>2. HasBench(L, r) /\ BenchAt(L, r) = i
        BY <1>0, <4>1, TheFile
      <4>3. HasBench(M, r) /\ BenchAt(M, r) = i
        BY <2>3, <2>5, <2>6, <4>1, TheFile
      <4>4. r = b.receivable <=> i = k
        BY <1>0, <2>1, <4>1 DEF OneEach
      <4>5. QED
        BY <2>4, <4>2, <4>3, <4>4 DEF FormsOf
    <3>2. CASE ~\E i \in 1..n : L[i].receivable = r
      <4>1. ~HasBench(L, r) /\ ~HasBench(M, r) /\ r # b.receivable
        BY <1>0, <2>1, <2>3, <2>5, <3>2 DEF HasBench
      <4>2. QED
        BY <4>1 DEF FormsOf
    <3>3. QED
      BY <3>1, <3>2
  <2>8. QED
    BY <1>0, <2>3, <2>5, <2>6, <2>7
<1>2. CASE ~HasBench(L, b.receivable)
  <2>1. M = Append(L, b)
    BY <1>2 DEF Put
  <2>2. M \in Seq(BenchRow) /\ DOMAIN M = 1..(n + 1)
    BY <2>1
  <2>3. M[n + 1] = b /\ \A i \in 1..n : M[i] = L[i]
    BY <2>1
  <2>4. \A i \in 1..n : L[i].receivable # b.receivable
    BY <1>0, <1>2 DEF HasBench
  <2>5. OneEach(M)
    <3>. SUFFICES ASSUME NEW i \in 1..(n + 1), NEW j \in 1..(n + 1),
                         M[i].receivable = M[j].receivable
                  PROVE  i = j
      BY <2>2 DEF OneEach
    <3>1. (i \in 1..n \/ i = n + 1) /\ (j \in 1..n \/ j = n + 1)
      OBVIOUS
    <3>2. QED
      BY <1>0, <2>3, <2>4, <3>1 DEF OneEach
  <2>6. ASSUME NEW r
        PROVE  FormsOf(M, r) = IF r = b.receivable THEN b.forms ELSE FormsOf(L, r)
    <3>1. CASE r = b.receivable
      <4>1. n + 1 \in DOMAIN M /\ M[n + 1].receivable = r
        BY <2>2, <2>3, <3>1
      <4>2. HasBench(M, r) /\ BenchAt(M, r) = n + 1
        BY <2>5, <4>1, TheFile
      <4>3. QED
        BY <2>3, <3>1, <4>2 DEF FormsOf
    <3>2. CASE r # b.receivable /\ HasBench(L, r)
      <4>1. PICK i \in 1..n : L[i].receivable = r
        BY <1>0, <3>2 DEF HasBench
      <4>2. BenchAt(L, r) = i
        BY <1>0, <4>1, TheFile
      <4>3. i \in DOMAIN M /\ M[i].receivable = r
        BY <2>2, <2>3, <4>1
      <4>4. HasBench(M, r) /\ BenchAt(M, r) = i
        BY <2>5, <4>3, TheFile
      <4>5. QED
        BY <2>3, <3>2, <4>2, <4>4 DEF FormsOf
    <3>3. CASE r # b.receivable /\ ~HasBench(L, r)
      <4>1. \A i \in 1..(n + 1) : i \in 1..n \/ i = n + 1
        OBVIOUS
      <4>2. ~HasBench(M, r)
        BY <1>0, <2>2, <2>3, <3>3, <4>1 DEF HasBench
      <4>3. QED
        BY <3>3, <4>2 DEF FormsOf
    <3>4. QED
      BY <3>1, <3>2, <3>3
  <2>7. \A i \in 1..n : RowGrows(L[i], M[i])
    BY <1>0, <2>3
  <2>8. QED
    BY <1>0, <2>2, <2>5, <2>6, <2>7
<1>3. QED
  BY <1>1, <1>2

-----------------------------------------------------------------------------
(* What a step of the file must keep, beside the calls and the assets.     *)
FileKept ==
  /\ dispute_workbenches' \in Seq(BenchRow)
  /\ OneFileEach'
  /\ LettersRight'
  /\ FilesGrow

LEMMA AnUpsert ==
  ASSUME IInv, NEW r \in Receivable, NEW resolve
  PROVE  /\ upsertWorkbench(r, resolve) \in BenchRow
         /\ upsertWorkbench(r, resolve).receivable = r
         /\ upsertWorkbench(r, resolve).forms = FormsOf(dispute_workbenches, r)
<1>. PICK L \in Seq(BenchRow) : L = dispute_workbenches
  BY DEF IInv, TypeOK
<1>1. CASE HasBench(L, r)
  <2>1. BenchAt(L, r) \in DOMAIN L /\ L[BenchAt(L, r)].receivable = r
    BY <1>1, FileFound
  <2>2. L[BenchAt(L, r)] \in BenchRow
    BY <2>1
  <2>3. QED
    BY <1>1, <2>1, <2>2 DEF upsertWorkbench, FormsOf
<1>2. CASE ~HasBench(L, r)
  BY <1>2 DEF upsertWorkbench, FormsOf, defaultWorkbench, BenchRow, OOC_STAGES, COURT_STAGES
<1>3. QED
  BY <1>1, <1>2

(* A saved row that grew from the one upsertWorkbench gave.                *)
LEMMA Saving ==
  ASSUME IInv, NEW r \in Receivable, NEW resolve, NEW b \in BenchRow,
         RowGrows(upsertWorkbench(r, resolve), b), RightForms(r, b.forms), Saved(b)
  PROVE  FileKept
<1>. PICK L \in Seq(BenchRow) : L = dispute_workbenches
  BY DEF IInv, TypeOK
<1>1. OneEach(L)
  BY DEF IInv, OneFileEach
<1>2. b.receivable = r
  BY AnUpsert DEF RowGrows
<1>3. HasBench(L, b.receivable) => RowGrows(L[BenchAt(L, b.receivable)], b)
  BY <1>2 DEF upsertWorkbench
<1>4. dispute_workbenches' = Put(L, b)
  BY DEF Saved, Put
<1>5. /\ dispute_workbenches' \in Seq(BenchRow) /\ OneFileEach' /\ FilesGrow
      /\ \A s : FormsOf(dispute_workbenches', s)
                  = IF s = r THEN b.forms ELSE FormsOf(dispute_workbenches, s)
  BY <1>1, <1>2, <1>3, <1>4, PuttingIn DEF OneFileEach, FilesGrow
<1>6. LettersRight'
  BY <1>5 DEF IInv, LettersRight
<1>7. QED
  BY <1>5, <1>6 DEF FileKept

(* ... with the letters it had.                                            *)
LEMMA SavingNoLetter ==
  ASSUME IInv, NEW r \in Receivable, NEW resolve, NEW b \in BenchRow,
         RowGrows(upsertWorkbench(r, resolve), b), Saved(b),
         b.forms = upsertWorkbench(r, resolve).forms
  PROVE  FileKept
<1>1. RightForms(r, b.forms)
  BY AnUpsert DEF IInv, LettersRight
<1>2. QED
  BY <1>1, Saving

LEMMA NothingSaved ==
  ASSUME IInv, UNCHANGED dispute_workbenches
  PROVE  FileKept
BY DEF IInv, TypeOK, OneFileEach, LettersRight, FileKept, FilesGrow, RowGrows

-----------------------------------------------------------------------------
(* The calls and the assets. *)

LEMMA OneAsset ==
  ASSUME IInv, NEW r \in Receivable, NEW row \in AssetRow,
         assets' = [assets EXCEPT ![r] = row], UNCHANGED calls, FileKept
  PROVE  IInv'
BY DEF IInv, TypeOK, FileKept, DraftsRight

LEMMA OnlyTheFile ==
  ASSUME IInv, UNCHANGED <<assets, calls>>, FileKept
  PROVE  IInv'
BY DEF IInv, TypeOK, FileKept, DraftsRight

(* A call that ends or drafts.                                             *)
LEMMA CallMoves ==
  ASSUME IInv, NEW c \in Call, NEW row \in CallRow,
         row.stage = "openai" =>
           WellNamed(row.draft, row.draft.ctx.receivable, row.draft.ctx.holder),
         calls' = [calls EXCEPT ![c] = row], UNCHANGED assets, FileKept
  PROVE  IInv'
<1>1. calls' \in [Call -> CallRow] /\ calls'[c] = row
      /\ \A d \in Call \ {c} : calls'[d] = calls[d]
  BY DEF IInv, TypeOK
<1>2. DraftsRight'
  BY <1>1 DEF IInv, DraftsRight
<1>3. QED
  BY <1>1, <1>2 DEF IInv, TypeOK, FileKept

-----------------------------------------------------------------------------
(* Every action. *)

Kept == IInv' /\ FilesGrow

LEMMA Opening ==
  ASSUME IInv, NEW r \in Receivable, NEW amount \in 0..Nominal,
         NEW case \in Key \cup {None}, openDispute(r, amount, case)
  PROVE  Kept
<1>. PICK resolve : resolve = IF case # None THEN case ELSE [kind |-> "resolve", id |-> r]
  OBVIOUS
<1>. PICK next : next = IF 0 < amount /\ amount < Nominal THEN "PARTIALLY_DISPUTED"
                        ELSE "DISPUTED"
  OBVIOUS
<1>. PICK row : row = [assets[r] EXCEPT !.status = next, !.disputed = amount,
                                        !.resolve = resolve]
  OBVIOUS
<1>. PICK old : old = upsertWorkbench(r, resolve)
  OBVIOUS
<1>. PICK b : b = OpenedBench(old)
  OBVIOUS
<1>1. assets[r] \in AssetRow /\ assets \in [Receivable -> AssetRow]
  BY DEF IInv, TypeOK
<1>2. resolve \in Key \cup {None}
  BY DEF Key
<1>3. next \in ReceivableStatus
  BY DEF ReceivableStatus
<1>4. row \in AssetRow
  BY <1>1, <1>2, <1>3 DEF AssetRow
<1>5. assets' = [assets EXCEPT ![r] = row] /\ Saved(b) /\ UNCHANGED calls
  BY <1>1 DEF openDispute
<1>6. old \in BenchRow
  BY AnUpsert
<1>7. b \in BenchRow /\ RowGrows(old, b) /\ b.forms = old.forms
  BY <1>6 DEF OpenedBench, BenchRow, RowGrows, DISPUTE_OUTCOMES, OOC_STAGES
<1>8. FileKept
  BY <1>5, <1>7, SavingNoLetter
<1>9. IInv'
  BY <1>4, <1>5, <1>8, OneAsset
<1>10. QED
  BY <1>8, <1>9 DEF Kept, FileKept

LEMMA Creating ==
  ASSUME IInv, NEW r \in Receivable, NEW amount \in 0..Nominal,
         NEW case \in Key \cup {None}, createDispute(r, amount, case)
  PROVE  Kept
<1>1. [kind |-> "resolve-invoice", id |-> invoiceOf[r]] \in Key
  BY DEF Key
<1>2. QED
  BY <1>1, Opening DEF createDispute

LEMMA Reopening ==
  ASSUME IInv, NEW r \in Receivable, NEW amount \in 0..Nominal, reopenDispute(r, amount)
  PROVE  Kept
<1>1. assets[r].resolve \in Key \cup {None}
  BY DEF IInv, TypeOK, AssetRow
<1>2. QED
  BY <1>1, Opening DEF reopenDispute

LEMMA Closing ==
  ASSUME IInv, NEW r \in Receivable, NEW outcome \in DISPUTE_OUTCOMES,
         NEW action \in {"keep", "restore", "close_asset"},
         closeDispute(r, outcome, action)
  PROVE  Kept
<1>. PICK old : old = upsertWorkbench(r, assets[r].resolve)
  OBVIOUS
<1>. PICK b : b = [old EXCEPT !.ooc = outcome, !.lifecycle = "closed", !.outcome = outcome]
  OBVIOUS
<1>1. PICK row \in AssetAction(assets[r], action) : assets' = [assets EXCEPT ![r] = row]
  BY DEF closeDispute
<1>2. assets[r] \in AssetRow
  BY DEF IInv, TypeOK
<1>3. row \in AssetRow
  <2>1. CASE action = "keep"
    BY <1>1, <1>2, <2>1 DEF AssetAction
  <2>2. CASE action = "restore"
    <3>1. row = [assets[r] EXCEPT !.disputed = 0]
          \/ row = [assets[r] EXCEPT !.disputed = 0, !.status = "ACCEPTED"]
      BY <1>1, <2>2 DEF AssetAction
    <3>2. 0 \in 0..Nominal
      BY DisputeFilesAssumption
    <3>3. QED
      BY <1>2, <3>1, <3>2 DEF AssetRow, ReceivableStatus
  <2>3. CASE action = "close_asset"
    <3>1. row = assets[r] \/ row = [assets[r] EXCEPT !.status = "CLOSED"]
      BY <1>1, <2>3 DEF AssetAction
    <3>2. QED
      BY <1>2, <3>1 DEF AssetRow, ReceivableStatus
  <2>4. QED
    BY <2>1, <2>2, <2>3
<1>4. Saved(b) /\ UNCHANGED calls
  BY DEF closeDispute
<1>5. old \in BenchRow
  BY AnUpsert
<1>6. b \in BenchRow /\ RowGrows(old, b) /\ b.forms = old.forms
  BY <1>5 DEF BenchRow, RowGrows, DISPUTE_OUTCOMES, OOC_STAGES
<1>7. FileKept
  BY <1>4, <1>6, SavingNoLetter
<1>8. IInv'
  BY <1>1, <1>3, <1>4, <1>7, OneAsset
<1>9. QED
  BY <1>7, <1>8 DEF Kept, FileKept

(* The handlers that change nothing but the file, and add no letter to it. *)
LEMMA Writing ==
  ASSUME IInv, NEW r \in Receivable, NEW b \in BenchRow,
         RowGrows(upsertWorkbench(r, assets[r].resolve), b), Saved(b),
         b.forms = upsertWorkbench(r, assets[r].resolve).forms,
         UNCHANGED <<assets, calls>>
  PROVE  Kept
<1>1. FileKept
  BY SavingNoLetter
<1>2. QED
  BY <1>1, OnlyTheFile DEF Kept, FileKept

LEMMA Archiving ==
  ASSUME IInv, NEW r \in Receivable, archiveDispute(r)
  PROVE  Kept
<1>. PICK old : old = upsertWorkbench(r, assets[r].resolve)
  OBVIOUS
<1>. PICK b : b = [old EXCEPT !.lifecycle = "archived"]
  OBVIOUS
<1>1. old \in BenchRow
  BY AnUpsert
<1>2. b \in BenchRow /\ RowGrows(old, b) /\ b.forms = old.forms
  BY <1>1 DEF BenchRow, RowGrows
<1>3. QED
  BY <1>2, Writing DEF archiveDispute

LEMMA Tracking ==
  ASSUME IInv, NEW r \in Receivable, NEW ooc \in OocInput \cup {None},
         NEW court \in CourtInput \cup {None}, updateDisputeTrack(r, ooc, court)
  PROVE  Kept
<1>. PICK old : old = upsertWorkbench(r, assets[r].resolve)
  OBVIOUS
<1>. PICK b : b = [old EXCEPT !.ooc = IF ooc = None THEN @ ELSE ooc,
                              !.court = IF court = None THEN @ ELSE court]
  OBVIOUS
<1>1. old \in BenchRow
  BY AnUpsert
<1>2. b \in BenchRow /\ RowGrows(old, b) /\ b.forms = old.forms
  BY <1>1, StageAssumption DEF BenchRow, RowGrows
<1>3. QED
  BY <1>2, Writing DEF updateDisputeTrack

LEMMA Linking ==
  ASSUME IInv, NEW r \in Receivable, NEW word \in Word, linkDispute(r, word)
  PROVE  Kept
<1>. PICK old : old = upsertWorkbench(r, assets[r].resolve)
  OBVIOUS
<1>. PICK b : b = [old EXCEPT !.links = @ \cup {word}]
  OBVIOUS
<1>1. old \in BenchRow
  BY AnUpsert
<1>2. b \in BenchRow /\ RowGrows(old, b) /\ b.forms = old.forms
  BY <1>1 DEF BenchRow, RowGrows
<1>3. QED
  BY <1>2, Writing DEF linkDispute

LEMMA Exporting ==
  ASSUME IInv, NEW r \in Receivable, NEW e \in Export, createDisputeExport(r, e)
  PROVE  Kept
<1>. PICK old : old = upsertWorkbench(r, assets[r].resolve)
  OBVIOUS
<1>. PICK b : b = [old EXCEPT !.exports = @ \cup {e}]
  OBVIOUS
<1>1. old \in BenchRow
  BY AnUpsert
<1>2. b \in BenchRow /\ RowGrows(old, b) /\ b.forms = old.forms
  BY <1>1 DEF BenchRow, RowGrows
<1>3. QED
  BY <1>2, Writing DEF createDisputeExport

-----------------------------------------------------------------------------
(* Letters. *)

(* A party that is in the list is called by its name.                      *)
LEMMA Calling ==
  ASSUME NEW parties \in SUBSET Party, NEW p \in parties
  PROVE  matchParty(p, parties) = {nameOf[p]}
<1>. PICK same : same = {q \in parties : q = p \/ <<p, q>> \in CalledSo}
  OBVIOUS
<1>1. p \in same /\ \A q \in same : nameOf[q] = nameOf[p]
  BY NameAssumption
<1>2. matchParty(p, parties) = {nameOf[q] : q \in same}
  BY <1>1 DEF matchParty
<1>3. QED
  BY <1>1, <1>2

LEMMA Enriching ==
  ASSUME IInv, NEW r \in Receivable, NEW draft \in enrichDisputeContext(r)
  PROVE  /\ draft \in DraftRow
         /\ draft.ctx.receivable = r
         /\ WellNamed(draft, r, draft.ctx.holder)
<1>. PICK ctx : ctx = disputeContext(r)
  OBVIOUS
<1>. PICK parties : parties = localPartiesFromState
  OBVIOUS
<1>1. readWorkbench(r) \in BenchRow
  BY AnUpsert DEF readWorkbench, upsertWorkbench
<1>2. readWorkbench(r).exports \in SUBSET Export
  BY <1>1 DEF BenchRow
<1>3. ctx \in Context /\ ctx.receivable = r /\ ctx.holder = assets[r].holder
  BY <1>2 DEF disputeContext, Context, IInv, TypeOK, AssetRow
<1>4. /\ \A q \in Receivable : {debtorOf[q], assets[q].holder, creditorOf[q]} \subseteq Party
      /\ {debtorOf[r], assets[r].holder, creditorOf[r]} \subseteq parties
  BY DisputeFilesAssumption DEF IInv, TypeOK, AssetRow, localPartiesFromState
<1>5. parties \in SUBSET Party
  BY <1>4 DEF localPartiesFromState
<1>6. draft = [ctx |-> ctx, debtor |-> nameOf[debtorOf[r]],
               holder |-> nameOf[ctx.holder], creditor |-> nameOf[creditorOf[r]]]
  <2>1. /\ matchParty(debtorOf[r], parties) = {nameOf[debtorOf[r]]}
        /\ matchParty(ctx.holder, parties) = {nameOf[ctx.holder]}
        /\ matchParty(creditorOf[r], parties) = {nameOf[creditorOf[r]]}
    BY <1>3, <1>4, <1>5, Calling
  <2>2. QED
    BY <2>1 DEF enrichDisputeContext
<1>7. QED
  BY <1>3, <1>4, <1>6 DEF DraftRow, Name, WellNamed

LEMMA Filing ==
  ASSUME IInv, NEW c \in Call, NEW source \in {"template", "openai"},
         NEW draft \in DraftRow,
         WellNamed(draft, draft.ctx.receivable, draft.ctx.holder),
         FormFiled(c, draft, source)
  PROVE  Kept
<1>. PICK ctx \in Context : ctx = draft.ctx
  BY DEF DraftRow
<1>. PICK r \in Receivable : r = ctx.receivable
  BY DEF Context
<1>. PICK form : form = FormOf(c, draft, source)
  OBVIOUS
<1>. PICK old : old = upsertWorkbench(r, ctx.resolve)
  OBVIOUS
<1>. PICK b : b = [old EXCEPT !.forms = @ \cup {form}]
  OBVIOUS
<1>1. form \in FormRow /\ form.receivable = r /\ WellNamed(form, r, form.of)
  BY DEF FormOf, FormRow, DraftRow, Context, WellNamed
<1>2. old \in BenchRow /\ old.forms = FormsOf(dispute_workbenches, r)
  BY AnUpsert
<1>3. b \in BenchRow /\ RowGrows(old, b) /\ b.forms = old.forms \cup {form}
  BY <1>1, <1>2 DEF BenchRow, RowGrows
<1>4. RightForms(r, b.forms)
  BY <1>1, <1>2, <1>3 DEF IInv, LettersRight, RightForms
<1>5. Saved(b) /\ calls' = [calls EXCEPT ![c] = [stage |-> "done"]] /\ UNCHANGED assets
  BY DEF FormFiled
<1>6. FileKept
  BY <1>3, <1>4, <1>5, Saving
<1>7. [stage |-> "done"] \in CallRow /\ [stage |-> "done"].stage # "openai"
  BY DEF CallRow
<1>8. IInv'
  BY <1>5, <1>6, <1>7, CallMoves
<1>9. QED
  BY <1>6, <1>8 DEF Kept, FileKept

LEMMA Beginning ==
  ASSUME IInv, NEW c \in Call, NEW r \in Receivable, NEW wantAi \in BOOLEAN,
         generateDisputeForm(c, r, wantAi)
  PROVE  Kept
<1>1. PICK draft \in enrichDisputeContext(r) :
        IF wantAi /\ AiEnabled
        THEN /\ calls' = [calls EXCEPT ![c] = [stage |-> "openai", draft |-> draft]]
             /\ UNCHANGED <<assets, dispute_workbenches>>
        ELSE FormFiled(c, draft, "template")
  BY DEF generateDisputeForm
<1>2. draft \in DraftRow /\ WellNamed(draft, draft.ctx.receivable, draft.ctx.holder)
  BY Enriching
<1>. PICK row : row = [stage |-> "openai", draft |-> draft]
  OBVIOUS
<1>3. row \in CallRow /\ row.draft = draft
  BY <1>2 DEF CallRow
<1>4. CASE wantAi /\ AiEnabled
  <2>1. FileKept
    BY <1>1, <1>4, NothingSaved
  <2>2. QED
    BY <1>1, <1>2, <1>3, <1>4, <2>1, CallMoves DEF Kept, FileKept
<1>5. CASE ~(wantAi /\ AiEnabled)
  BY <1>1, <1>2, <1>5, Filing
<1>6. QED
  BY <1>4, <1>5

LEMMA Answering ==
  ASSUME IInv, NEW c \in Call, OpenAiAnswers(c) \/ OpenAiFails(c)
  PROVE  Kept
<1>. PICK draft : draft = calls[c].draft
  OBVIOUS
<1>1. calls[c] \in [stage : {"openai"}, draft : DraftRow]
  BY DEF OpenAiAnswers, OpenAiFails, IInv, TypeOK, CallRow, NoCall
<1>2. draft \in DraftRow /\ WellNamed(draft, draft.ctx.receivable, draft.ctx.holder)
  BY <1>1 DEF IInv, DraftsRight
<1>3. QED
  BY <1>2, Filing DEF OpenAiAnswers, OpenAiFails

LEMMA Selling ==
  ASSUME IInv, NEW r \in Receivable, NEW p \in Party, Sold(r, p)
  PROVE  Kept
<1>. PICK row : row = [assets[r] EXCEPT !.status = "TRANSFERRED", !.holder = p]
  OBVIOUS
<1>1. row \in AssetRow
  BY DEF IInv, TypeOK, AssetRow, ReceivableStatus
<1>2. assets' = [assets EXCEPT ![r] = row] /\ UNCHANGED <<dispute_workbenches, calls>>
  BY DEF Sold, IInv, TypeOK
<1>3. FileKept
  BY <1>2, NothingSaved
<1>4. QED
  BY <1>1, <1>2, <1>3, OneAsset DEF Kept, FileKept

LEMMA Steps ==
  ASSUME IInv, [Next]_vars
  PROVE  Kept
<1>1. CASE UNCHANGED vars
  <2>1. FileKept
    BY <1>1, NothingSaved DEF vars
  <2>2. QED
    BY <1>1, <2>1, OnlyTheFile DEF vars, Kept, FileKept
<1>2. ASSUME NEW r \in Receivable, NEW amount \in 0..Nominal, NEW case \in CaseInput,
             openDispute(r, amount, case) \/ createDispute(r, amount, case)
      PROVE  Kept
  <2>1. case \in Key \cup {None}
    BY DEF CaseInput, Key
  <2>2. QED
    BY <1>2, <2>1, Opening, Creating
<1>3. ASSUME NEW k \in Key, NEW r \in Receivable, OnCase(k, r)
      PROVE  Kept
  BY <1>3, Reopening, Closing, Archiving, Tracking, Linking, Exporting, Beginning DEF OnCase
<1>4. ASSUME NEW c \in Call, OpenAiAnswers(c) \/ OpenAiFails(c)
      PROVE  Kept
  BY <1>4, Answering
<1>5. ASSUME NEW r \in Receivable, NEW p \in Party, Sold(r, p)
      PROVE  Kept
  BY <1>5, Selling
<1>6. QED
  BY <1>1, <1>2, <1>3, <1>4, <1>5 DEF Next

LEMMA Starts == Init => IInv
<1>. SUFFICES ASSUME Init
              PROVE  IInv
  OBVIOUS
<1>1. PICK bad \in SUBSET Receivable :
        assets = [r \in Receivable |->
          [status |-> IF r \in bad THEN "PARTIALLY_DISPUTED" ELSE "ACCEPTED",
           disputed |-> IF r \in bad THEN 1 ELSE 0,
           resolve |-> None, holder |-> creditorOf[r]]]
  BY DEF Init
<1>2. 0 \in 0..Nominal /\ 1 \in 0..Nominal /\ \A r \in Receivable : creditorOf[r] \in Party
  BY DisputeFilesAssumption
<1>3. assets \in [Receivable -> AssetRow]
  BY <1>1, <1>2 DEF AssetRow, ReceivableStatus
<1>4. dispute_workbenches \in Seq(BenchRow) /\ OneFileEach
  BY DEF Init, OneFileEach, OneEach
<1>5. calls \in [Call -> CallRow] /\ DraftsRight
  BY DEF Init, CallRow, DraftsRight, NoCall
<1>6. LettersRight
  BY DEF Init, LettersRight, RightForms, FormsOf, HasBench
<1>7. QED
  BY <1>3, <1>4, <1>5, <1>6 DEF IInv, TypeOK

LEMMA Always == Spec => []IInv
<1>1. IInv /\ [Next]_vars => IInv'
  BY Steps DEF Kept
<1>2. QED
  BY <1>1, Starts, PTL DEF Spec

-----------------------------------------------------------------------------
(* The links, letters and exports of a file stay in it, whatever else is   *)
(* written while a letter is being drafted: generateDisputeForm reads the  *)
(* row again before it writes.                                             *)
THEOREM WhatIsFiledStays == Spec => FileOnlyGrows
<1>1. IInv /\ [Next]_vars => FilesGrow
  BY Steps DEF Kept
<1>2. QED
  BY <1>1, Always, PTL DEF Spec, FileOnlyGrows, FilesGrow, RowGrows

(* A letter calls debtor, holder and creditor by their names, for any      *)
(* names and ids that there are: matchParty is given a list that has all   *)
(* three, so it never comes to guess.                                      *)
THEOREM LettersAreWellNamed == Spec => []LettersNameTheirParties
<1>1. ASSUME IInv PROVE LettersNameTheirParties
  <2>. PICK L \in Seq(BenchRow) : L = dispute_workbenches
    BY <1>1 DEF IInv, TypeOK
  <2>1. ASSUME NEW i \in DOMAIN L
        PROVE  RightForms(L[i].receivable, L[i].forms)
    <3>0. L[i] \in BenchRow
      OBVIOUS
    <3>. PICK r \in Receivable : r = L[i].receivable
      BY <3>0 DEF BenchRow
    <3>1. HasBench(L, r)
      BY DEF HasBench
    <3>2. BenchAt(L, r) = i
      BY <1>1, <3>1, FileFound DEF IInv, OneFileEach, OneEach
    <3>3. FormsOf(L, r) = L[i].forms
      BY <3>1, <3>2 DEF FormsOf
    <3>4. QED
      BY <1>1, <3>3 DEF IInv, LettersRight
  <2>2. QED
    BY <2>1 DEF LettersNameTheirParties, RightForms, WellNamed
<1>2. QED
  BY <1>1, Always, PTL

-----------------------------------------------------------------------------
(* The deadlines: counting days. *)

IsFirst(d, S, e) == e \in S /\ d <= e /\ \A x \in d..(e - 1) : x \notin S

LEMMA FirstIs ==
  ASSUME NEW S \in SUBSET Int, NEW d \in Int, NEW e, IsFirst(d, S, e)
  PROVE  FirstFrom(d, S) = e
<1>1. ASSUME NEW f \in S, f >= d, \A x \in d..(f - 1) : x \notin S
      PROVE  f = e
  <2>1. e \in Int /\ f \in Int
    BY DEF IsFirst
  <2>2. ~(f < e) /\ ~(e < f)
    BY <1>1, <2>1 DEF IsFirst
  <2>3. QED
    BY <2>1, <2>2
<1>2. e \in S /\ e >= d /\ \A x \in d..(e - 1) : x \notin S
  BY DEF IsFirst
<1>3. QED
  BY <1>1, <1>2 DEF FirstFrom

LEMMA LaterFirst ==
  ASSUME NEW S \in SUBSET Int, NEW c \in Int, NEW d \in Int, c <= d,
         NEW e, IsFirst(c, S, e), NEW f, IsFirst(d, S, f)
  PROVE  e <= f
<1>1. e \in Int /\ f \in Int
  BY DEF IsFirst
<1>2. ~(f < e)
  BY <1>1 DEF IsFirst
<1>3. QED
  BY <1>1, <1>2

(* One more day counts if it is in the set.                                *)
LEMMA OneMoreDay ==
  ASSUME NEW S, NEW b \in Int, NEW e \in Int, b <= e + 1
  PROVE  /\ IsFiniteSet((b..e) \cap S) /\ Cardinality((b..e) \cap S) \in Nat
         /\ e + 1 \in S => Cardinality((b..(e + 1)) \cap S) = Cardinality((b..e) \cap S) + 1
         /\ e + 1 \notin S => Cardinality((b..(e + 1)) \cap S) = Cardinality((b..e) \cap S)
<1>1. IsFiniteSet(b..e)
  BY FS_Interval
<1>2. IsFiniteSet((b..e) \cap S)
  BY <1>1, FS_Subset
<1>3. Cardinality((b..e) \cap S) \in Nat
  BY <1>2, FS_CardinalityType
<1>4. b..(e + 1) = (b..e) \cup {e + 1} /\ e + 1 \notin b..e
  OBVIOUS
<1>5. ASSUME e + 1 \in S
      PROVE  Cardinality((b..(e + 1)) \cap S) = Cardinality((b..e) \cap S) + 1
  <2>1. (b..(e + 1)) \cap S = ((b..e) \cap S) \cup {e + 1} /\ e + 1 \notin (b..e) \cap S
    BY <1>4, <1>5
  <2>2. QED
    BY <1>2, <1>3, <2>1, FS_AddElement
<1>6. ASSUME e + 1 \notin S
      PROVE  (b..(e + 1)) \cap S = (b..e) \cap S
  BY <1>4, <1>6
<1>7. QED
  BY <1>2, <1>3, <1>5, <1>6

(* Days of a deadline: those after the delivery that do not stand still.   *)
Running(d, e) == ((d + 1)..e) \ courtStandstill

LEMMA RunningDays ==
  ASSUME NEW d \in Int, NEW e \in Int, d <= e
  PROVE  /\ IsFiniteSet(Running(d, e)) /\ Cardinality(Running(d, e)) \in Nat
         /\ e + 1 \in courtStandstill =>
              Cardinality(Running(d, e + 1)) = Cardinality(Running(d, e))
         /\ e + 1 \notin courtStandstill =>
              Cardinality(Running(d, e + 1)) = Cardinality(Running(d, e)) + 1
         /\ Cardinality(Running(d, d)) = 0
<1>. PICK S : S = Int \ courtStandstill
  OBVIOUS
<1>1. Running(d, e) = ((d + 1)..e) \cap S /\ Running(d, e + 1) = ((d + 1)..(e + 1)) \cap S
  BY DEF Running
<1>2. e + 1 \in S <=> e + 1 \notin courtStandstill
  OBVIOUS
<1>3. Cardinality(Running(d, d)) = 0
  BY FS_EmptySet DEF Running
<1>4. d + 1 \in Int /\ d + 1 <= e + 1
  OBVIOUS
<1>5. /\ IsFiniteSet(((d + 1)..e) \cap S) /\ Cardinality(((d + 1)..e) \cap S) \in Nat
      /\ e + 1 \in S => Cardinality(((d + 1)..(e + 1)) \cap S)
                          = Cardinality(((d + 1)..e) \cap S) + 1
      /\ e + 1 \notin S => Cardinality(((d + 1)..(e + 1)) \cap S)
                             = Cardinality(((d + 1)..e) \cap S)
  BY <1>4, OneMoreDay
<1>6. QED
  BY <1>1, <1>2, <1>3, <1>5

LEMMA MoreRunningDays ==
  ASSUME NEW c \in Int, NEW d \in Int, c <= d, NEW e \in Int, NEW f \in Int, e <= f
  PROVE  Cardinality(Running(d, e)) <= Cardinality(Running(c, f))
<1>1. IsFiniteSet(Running(c, f))
  <2>1. IsFiniteSet((c + 1)..f)
    BY FS_Interval
  <2>2. QED
    BY <2>1, FS_Subset DEF Running
<1>2. Running(d, e) \subseteq Running(c, f)
  BY DEF Running
<1>3. QED
  BY <1>1, <1>2, FS_Subset

-----------------------------------------------------------------------------
(* The deadlines: invariants. *)

OpenDay == isBusinessDay \ courtStandstill

FreeDay == Calendar \ debtEnforcementHoliday

Frist == [days : 1..30, regime : {"fiction", "schkg", "zpo", "stpo", "federal-admin"}]

DeadlineTypes ==
  /\ frist \in Frist
  /\ frist.regime = "schkg" => frist.days <= 20
  /\ delivery \in Int /\ FirstDay - 1 <= delivery
  /\ delivery >= FirstDay => delivery <= LastDay
  /\ day \in Nat /\ counted \in Nat /\ turn \in Nat /\ last \in Nat

(* WithStandstill for a day of delivery d and an end e, without CHOOSE.    *)
StandingEnd(d, n, e) ==
  \E full \in (d + 1)..e :
    /\ full \notin courtStandstill
    /\ Cardinality(Running(d, full)) = n
    /\ IsFirst(full, OpenDay, e)

(* The loops with a standstill: what is counted are the running days up to *)
(* the current one; the last of them is where the shift begins.            *)
Standing ==
  \/ /\ at = "count"
     /\ day = delivery + 1 + turn
     /\ counted = Cardinality(Running(delivery, day - 1))
     /\ counted < frist.days
  \/ /\ at = "shift"
     /\ \E full \in (delivery + 1)..(delivery + 70) :
          /\ full \notin courtStandstill
          /\ Cardinality(Running(delivery, full)) = frist.days
          /\ day = full + turn
          /\ \A x \in full..(day - 1) : x \notin OpenDay
  \/ at = "done" /\ StandingEnd(delivery, frist.days, day)

(* Criminal procedure: only the end is shifted.                            *)
Criminal ==
  \/ /\ at = "shift" /\ day = delivery + frist.days + turn
     /\ \A x \in (delivery + frist.days)..(day - 1) : x \notin isBusinessDay
  \/ at = "done" /\ IsFirst(delivery + frist.days, isBusinessDay, day)

(* Where a deadline of debt enforcement begins, and where it would end.    *)
Effective(e) ==
  e \in Int /\ IsFirst(delivery, FreeDay, e) /\ e <= delivery + 50
Regular(end) ==
  \E e \in Int :
    Effective(e) /\ IsFirst(e + frist.days, isBusinessDay, end)
    /\ end \in Int /\ end <= delivery + 120

Enforced ==
  \/ /\ at = "effective" /\ counted = 0
     /\ delivery <= day /\ \A x \in delivery..(day - 1) : x \in debtEnforcementHoliday
  \/ /\ at = "shift" /\ counted = 0
     /\ \E e \in Int : Effective(e) /\ e + frist.days <= day
          /\ \A x \in (e + frist.days)..(day - 1) : x \notin isBusinessDay
  \/ at = "extend" /\ counted = 0 /\ Regular(day)
  \/ /\ at = "behind" /\ counted = 0
     /\ \E end \in Int : Regular(end) /\ end < day
          /\ \A x \in end..(day - 1) : x \in debtEnforcementHoliday
  \/ /\ at = "third" /\ counted < 3
     /\ \E end \in Int, b \in Int :
          /\ Regular(end) /\ end \in debtEnforcementHoliday /\ IsFirst(end, FreeDay, b)
          /\ b - 1 <= day /\ counted = Cardinality((b..day) \cap isBusinessDay)
  \/ /\ at = "done"
     /\ \/ Regular(day) /\ day \in FreeDay
        \/ \E end \in Int, b \in Int :
             /\ Regular(end) /\ end \in debtEnforcementHoliday /\ IsFirst(end, FreeDay, b)
             /\ day \in isBusinessDay /\ Cardinality((b..day) \cap isBusinessDay) = 3

(* Where the deadline ends that was served on d.                           *)
EndOf(d, e) ==
  /\ Standstill => StandingEnd(d, frist.days, e)
  /\ frist.regime = "stpo" => IsFirst(d + frist.days, isBusinessDay, e)
  /\ frist.regime = "fiction" => e = d + frist.days

Served ==
  /\ Standstill => Standing
  /\ frist.regime = "stpo" => Criminal
  /\ frist.regime = "schkg" => Enforced
  /\ frist.regime = "fiction" => at = "done" /\ day = delivery + frist.days

DeadlineInv ==
  /\ DeadlineTypes
  /\ delivery < FirstDay => at = "done" /\ day = 0
  /\ delivery >= FirstDay => Served
  /\ delivery <= FirstDay => last = 0
  /\ delivery > FirstDay => EndOf(delivery - 1, last)

-----------------------------------------------------------------------------
(* The calendar. *)

LEMMA DaysAreNumbers ==
  /\ FirstDay \in Nat /\ LastDay \in Nat /\ Calendar \subseteq Int
  /\ isBusinessDay \subseteq Calendar /\ OpenDay \subseteq Int /\ FreeDay \subseteq Int
BY PeriodAssumption DEF Calendar, isBusinessDay, OpenDay, FreeDay

LEMMA Soon ==
  ASSUME NEW d \in FirstDay..(LastDay + 120)
  PROVE  \E e \in d..(d + 50) : e \in isBusinessDay /\ e \in OpenDay /\ e \in FreeDay
<1>1. PICK e \in d..(d + 50) :
        e \in isBusinessDay \ (courtStandstill \cup debtEnforcementHoliday)
  BY CalendarServes
<1>2. QED
  BY <1>1, DaysAreNumbers DEF OpenDay, FreeDay

(* A stretch without a working day, or of holidays only, is a short one.   *)
LEMMA ShortStretch ==
  ASSUME NEW d \in FirstDay..(LastDay + 120), NEW y \in Int,
         \/ \A x \in d..(y - 1) : x \notin isBusinessDay
         \/ \A x \in d..(y - 1) : x \notin OpenDay
         \/ \A x \in d..(y - 1) : x \in debtEnforcementHoliday
  PROVE  y <= d + 50
<1>0. d \in Int
  BY DaysAreNumbers
<1>1. PICK e \in d..(d + 50) : e \in isBusinessDay /\ e \in OpenDay /\ e \in FreeDay
  BY Soon
<1>2. e \in Int /\ d <= e /\ e <= d + 50 /\ e \notin debtEnforcementHoliday
  BY <1>0, <1>1 DEF FreeDay
<1>3. e \notin d..(y - 1)
  BY <1>1, <1>2
<1>4. QED
  BY <1>0, <1>2, <1>3

(* The day on which it ends lies in the calendar.                          *)
LEMMA InCalendar ==
  ASSUME NEW d \in FirstDay..(LastDay + 120), NEW y \in Int, d <= y,
         \A x \in d..(y - 1) : x \in debtEnforcementHoliday
  PROVE  y \in Calendar
<1>0. d \in Int
  BY DaysAreNumbers
<1>1. PICK e \in d..(d + 50) : e \in isBusinessDay /\ e \in OpenDay /\ e \in FreeDay
  BY Soon
<1>2. e \in Int /\ d <= e /\ e \in Calendar /\ e \notin debtEnforcementHoliday
  BY <1>0, <1>1 DEF FreeDay
<1>3. e \notin d..(y - 1)
  BY <1>2
<1>4. y <= e
  BY <1>0, <1>2, <1>3
<1>5. QED
  BY <1>0, <1>2, <1>4, PeriodAssumption DEF Calendar

LEMMA Regimes ==
  ASSUME DeadlineTypes
  PROVE  /\ frist.days \in 1..30
         /\ frist.regime \in {"fiction", "schkg", "zpo", "stpo", "federal-admin"}
         /\ Standstill <=> frist.regime \notin {"fiction", "schkg", "stpo"}
BY DEF DeadlineTypes, Frist, Standstill

-----------------------------------------------------------------------------
(* The turns of the loops. *)

LEMMA LoopTurns ==
  ASSUME DeadlineInv, UNCHANGED <<frist, delivery, last>>, FirstDay <= delivery,
         day' \in Nat, counted' \in Nat, turn' \in Nat, Served'
  PROVE  DeadlineInv'
<1>1. DeadlineTypes'
  BY DEF DeadlineInv, DeadlineTypes
<1>2. delivery \in Int /\ FirstDay \in Nat
  BY PeriodAssumption DEF DeadlineInv, DeadlineTypes
<1>3. EndOf(delivery - 1, last) => EndOf(delivery - 1, last)'
  BY DEF EndOf, Standstill
<1>4. QED
  BY <1>1, <1>2, <1>3 DEF DeadlineInv

(* A loop runs for a delivery of the period.                               *)
LEMMA Looping ==
  ASSUME DeadlineInv, at # "done"
  PROVE  /\ FirstDay <= delivery /\ delivery <= LastDay /\ Served
         /\ delivery \in Int /\ FirstDay \in Nat /\ LastDay \in Nat
         /\ day \in Nat /\ counted \in Nat /\ turn \in Nat
BY PeriodAssumption DEF DeadlineInv, DeadlineTypes

LEMMA Counting ==
  ASSUME DeadlineInv, CountDay
  PROVE  DeadlineInv'
<1>. PICK n \in 1..30 : n = frist.days
  BY Regimes DEF DeadlineInv
<1>1. FirstDay <= delivery /\ delivery <= LastDay /\ Served
      /\ delivery \in Int /\ FirstDay \in Nat /\ LastDay \in Nat
      /\ day \in Nat /\ counted \in Nat /\ turn \in Nat
  BY Looping DEF CountDay
<1>2. Standstill
  BY <1>1, Regimes DEF DeadlineInv, Served, CountDay, Criminal, Enforced
<1>3. /\ day = delivery + 1 + turn
      /\ counted = Cardinality(Running(delivery, day - 1))
      /\ counted < n
  BY <1>1, <1>2 DEF Served, Standing, CountDay
<1>4. day <= delivery + 70
  <2>1. Cardinality(Running(delivery, delivery + 70)) >= 30
    BY <1>1, CalendarServes DEF Running
  <2>2. IsFiniteSet(Running(delivery, delivery + 70))
        /\ Cardinality(Running(delivery, delivery + 70)) \in Nat
    BY <1>1, RunningDays
  <2>3. delivery + 70 <= day - 1 =>
          Cardinality(Running(delivery, delivery + 70)) <= counted
    BY <1>1, <1>3, MoreRunningDays
  <2>4. QED
    BY <1>1, <1>3, <2>1, <2>2, <2>3
<1>5. turn < 999
  BY <1>1, <1>3, <1>4
<1>6. /\ day \in courtStandstill => Cardinality(Running(delivery, day)) = counted
      /\ day \notin courtStandstill => Cardinality(Running(delivery, day)) = counted + 1
  <2>1. delivery <= day - 1 /\ day - 1 \in Int /\ (day - 1) + 1 = day
    BY <1>1, <1>3
  <2>2. QED
    BY <1>1, <1>3, <2>1, RunningDays
<1>7. frist' = frist /\ delivery' = delivery /\ last' = last
  BY DEF CountDay, GoesOn
<1>8. Standing' /\ day' \in Nat /\ counted' \in Nat /\ turn' \in Nat
  <2>1. CASE day \notin courtStandstill /\ counted + 1 >= n
    <3>1. at' = "shift" /\ day' = day /\ turn' = 0 /\ counted' = counted + 1
      BY <2>1 DEF CountDay, GoesOn
    <3>2. day \in (delivery + 1)..(delivery + 70) /\ day' = day + turn'
      BY <1>1, <1>3, <1>4, <3>1
    <3>3. Cardinality(Running(delivery, day)) = n
      BY <1>1, <1>3, <1>6, <2>1
    <3>4. day..(day - 1) = {}
      BY <1>1
    <3>5. \E full \in (delivery + 1)..(delivery + 70) :
            /\ full \notin courtStandstill
            /\ Cardinality(Running(delivery, full)) = n
            /\ day' = full + turn'
            /\ \A x \in full..(day' - 1) : x \notin OpenDay
      BY <2>1, <3>1, <3>2, <3>3, <3>4
    <3>6. QED
      BY <1>1, <1>7, <3>1, <3>5 DEF Standing
  <2>2. CASE ~(day \notin courtStandstill /\ counted + 1 >= n)
    <3>1. at' = "count" /\ day' = day + 1 /\ turn' = turn + 1
          /\ counted' = IF day \in courtStandstill THEN counted ELSE counted + 1
      BY <1>1, <1>5, <2>2 DEF CountDay, GoesOn
    <3>2. counted' = Cardinality(Running(delivery, day)) /\ counted' < n
      BY <1>1, <1>3, <1>6, <2>2, <3>1
    <3>3. day' - 1 = day /\ day' = delivery + 1 + turn'
      BY <1>1, <1>3, <3>1
    <3>4. counted' \in Nat
      BY <1>1, <3>1
    <3>5. QED
      BY <1>1, <1>7, <3>1, <3>2, <3>3, <3>4 DEF Standing
  <2>3. QED
    BY <2>1, <2>2
<1>9. Served'
  BY <1>2, <1>7, <1>8, Regimes DEF Served, Standstill, DeadlineInv
<1>10. QED
  BY <1>1, <1>7, <1>8, <1>9, LoopTurns

(* Shut is what the regime says.                                           *)
LEMMA Shutting ==
  ASSUME DeadlineTypes
  PROVE  /\ Standstill => (Shut(day) <=> day \notin OpenDay)
         /\ ~Standstill => (Shut(day) <=> day \notin isBusinessDay)
BY DEF Shut, OpenDay

LEMMA ShiftingStanding ==
  ASSUME DeadlineInv, ShiftEnd, Standstill
  PROVE  DeadlineInv'
<1>. PICK n \in 1..30 : n = frist.days
  BY Regimes DEF DeadlineInv
<1>1. FirstDay <= delivery /\ delivery <= LastDay /\ Served
      /\ delivery \in Int /\ FirstDay \in Nat /\ LastDay \in Nat
      /\ day \in Nat /\ counted \in Nat /\ turn \in Nat
  BY Looping DEF ShiftEnd
<1>2. PICK full \in (delivery + 1)..(delivery + 70) :
        /\ full \notin courtStandstill
        /\ Cardinality(Running(delivery, full)) = n
        /\ day = full + turn
        /\ \A x \in full..(day - 1) : x \notin OpenDay
  BY <1>1 DEF Served, Standing, ShiftEnd
<1>3. full \in Int /\ full \in FirstDay..(LastDay + 120) /\ delivery + 1 <= full
  BY <1>1, <1>2
<1>4. turn <= 50
  <2>1. day <= full + 50
    BY <1>1, <1>2, <1>3, ShortStretch
  <2>2. QED
    BY <1>1, <1>2, <1>3, <2>1
<1>5. frist' = frist /\ delivery' = delivery /\ last' = last /\ counted' = counted
  BY DEF ShiftEnd, GoesOn
<1>6. frist.regime # "stpo" /\ frist.regime # "schkg" /\ frist.regime # "fiction" /\ turn # 60
  BY <1>1, <1>4, Regimes DEF DeadlineInv
<1>7. CASE day \notin OpenDay
  <2>1. at' = "shift" /\ day' = day + 1 /\ turn' = turn + 1
    BY <1>6, <1>7, Shutting DEF ShiftEnd, GoesOn, DeadlineInv
  <2>2. \A x \in full..(day' - 1) : x \notin OpenDay
    <3>1. \A x \in full..(day' - 1) : x \in full..(day - 1) \/ x = day
      BY <1>1, <1>3, <2>1
    <3>2. QED
      BY <1>2, <1>7, <3>1
  <2>3. day' = full + turn' /\ day' \in Nat /\ turn' \in Nat
    BY <1>1, <1>2, <1>3, <2>1
  <2>4. Standing'
    BY <1>2, <1>5, <2>1, <2>2, <2>3 DEF Standing
  <2>5. Served'
    BY <1>5, <1>6, <2>4 DEF Served, Standstill
  <2>6. QED
    BY <1>1, <1>5, <2>3, <2>5, LoopTurns
<1>8. CASE day \in OpenDay
  <2>1. at' = "done" /\ day' = day /\ turn' = 0
    BY <1>6, <1>8, Shutting DEF ShiftEnd, GoesOn, DeadlineInv
  <2>2. full <= day
    BY <1>1, <1>2, <1>3
  <2>3. IsFirst(full, OpenDay, day) /\ full \in (delivery + 1)..day
    BY <1>1, <1>2, <1>3, <1>8, <2>2 DEF IsFirst
  <2>4. StandingEnd(delivery, n, day)
    BY <1>2, <2>3 DEF StandingEnd
  <2>5. Standing'
    BY <1>5, <2>1, <2>4 DEF Standing
  <2>6. Served'
    BY <1>5, <1>6, <2>5 DEF Served, Standstill
  <2>7. QED
    BY <1>1, <1>5, <2>1, <2>6, LoopTurns
<1>9. QED
  BY <1>7, <1>8

LEMMA ShiftingCriminal ==
  ASSUME DeadlineInv, ShiftEnd, frist.regime = "stpo"
  PROVE  DeadlineInv'
<1>. PICK n \in 1..30 : n = frist.days
  BY Regimes DEF DeadlineInv
<1>1. FirstDay <= delivery /\ delivery <= LastDay /\ Served
      /\ delivery \in Int /\ FirstDay \in Nat /\ LastDay \in Nat
      /\ day \in Nat /\ counted \in Nat /\ turn \in Nat
  BY Looping DEF ShiftEnd
<1>. PICK start \in Int : start = delivery + n
  BY <1>1
<1>2. /\ day = start + turn
      /\ \A x \in start..(day - 1) : x \notin isBusinessDay
  BY <1>1 DEF Served, Criminal, ShiftEnd
<1>3. ~Standstill
  BY Regimes DEF DeadlineInv
<1>4. ~(day \notin isBusinessDay /\ turn = 16)
  <2>1. PICK e \in start..(start + 16) : e \in isBusinessDay
    BY <1>1, CalendarServes
  <2>2. e \notin start..(day - 1)
    BY <1>2, <2>1
  <2>3. day <= e
    BY <1>1, <2>1, <2>2
  <2>4. turn = 16 => e = day
    BY <1>1, <1>2, <2>1, <2>3
  <2>5. QED
    BY <2>1, <2>4
<1>5. frist' = frist /\ delivery' = delivery /\ last' = last /\ counted' = counted
  BY DEF ShiftEnd, GoesOn
<1>6. CASE day \notin isBusinessDay
  <2>1. at' = "shift" /\ day' = day + 1 /\ turn' = turn + 1
    BY <1>3, <1>4, <1>6, Shutting DEF ShiftEnd, GoesOn, DeadlineInv
  <2>2. \A x \in start..(day' - 1) : x \notin isBusinessDay
    <3>1. \A x \in start..(day' - 1) : x \in start..(day - 1) \/ x = day
      BY <1>1, <2>1
    <3>2. QED
      BY <1>2, <1>6, <3>1
  <2>3. day' = start + turn' /\ day' \in Nat /\ turn' \in Nat
    BY <1>1, <1>2, <2>1
  <2>4. Criminal'
    BY <1>5, <2>1, <2>2, <2>3 DEF Criminal
  <2>5. Served'
    BY <1>3, <1>5, <2>4 DEF Served, Standstill
  <2>6. QED
    BY <1>1, <1>5, <2>3, <2>5, LoopTurns
<1>7. CASE day \in isBusinessDay
  <2>1. at' = "done" /\ day' = day /\ turn' = 0
    BY <1>3, <1>7, Shutting DEF ShiftEnd, GoesOn, DeadlineInv
  <2>2. start <= day
    BY <1>1, <1>2
  <2>3. IsFirst(start, isBusinessDay, day)
    BY <1>2, <1>7, <2>2 DEF IsFirst
  <2>4. Criminal'
    BY <1>5, <2>1, <2>3 DEF Criminal
  <2>5. Served'
    BY <1>3, <1>5, <2>4 DEF Served, Standstill
  <2>6. QED
    BY <1>1, <1>5, <2>1, <2>5, LoopTurns
<1>8. QED
  BY <1>6, <1>7

-----------------------------------------------------------------------------
(* Debt enforcement. *)

(* A turn of one of its loops keeps Enforced.                              *)
LEMMA EnforcedTurns ==
  ASSUME DeadlineInv, UNCHANGED <<frist, delivery, last>>, FirstDay <= delivery,
         frist.regime = "schkg",
         day' \in Nat, counted' \in Nat, turn' \in Nat, Enforced'
  PROVE  DeadlineInv'
<1>1. Served'
  BY DEF Served, Standstill
<1>2. QED
  BY <1>1, LoopTurns

(* Who is in these loops.                                                  *)
LEMMA Enforcing ==
  ASSUME DeadlineInv,
         \/ at \in {"effective", "extend", "behind", "third"}
         \/ at = "shift" /\ frist.regime = "schkg"
  PROVE  /\ FirstDay <= delivery /\ delivery <= LastDay
         /\ delivery \in Int /\ FirstDay \in Nat /\ LastDay \in Nat
         /\ day \in Nat /\ counted \in Nat /\ turn \in Nat
         /\ frist.regime = "schkg" /\ ~Standstill
         /\ frist.days \in 1..20 /\ Enforced
<1>1. FirstDay <= delivery /\ delivery <= LastDay /\ Served
      /\ delivery \in Int /\ FirstDay \in Nat /\ LastDay \in Nat
      /\ day \in Nat /\ counted \in Nat /\ turn \in Nat
  BY Looping
<1>2. frist.regime = "schkg"
  BY <1>1, Regimes DEF DeadlineInv, Served, Standing, Criminal
<1>3. frist.days \in 1..20
  BY <1>2, Regimes DEF DeadlineInv, DeadlineTypes
<1>4. QED
  BY <1>1, <1>2, <1>3 DEF Served, Standstill

LEMMA TakingEffect ==
  ASSUME DeadlineInv, EffectiveDay
  PROVE  DeadlineInv'
<1>. PICK n \in 1..20 : n = frist.days
  BY Enforcing DEF EffectiveDay
<1>1. FirstDay <= delivery /\ delivery <= LastDay
      /\ delivery \in Int /\ FirstDay \in Nat /\ LastDay \in Nat
      /\ day \in Nat /\ counted \in Nat /\ turn \in Nat
      /\ frist.regime = "schkg"
  BY Enforcing DEF EffectiveDay
<1>2. /\ counted = 0 /\ delivery <= day
      /\ \A x \in delivery..(day - 1) : x \in debtEnforcementHoliday
  BY Enforcing DEF EffectiveDay, Enforced
<1>3. frist' = frist /\ delivery' = delivery /\ last' = last
      /\ counted' = counted /\ turn' = turn
  BY DEF EffectiveDay, GoesOn
<1>4. delivery \in FirstDay..(LastDay + 120)
  BY <1>1
<1>5. CASE day \in debtEnforcementHoliday
  <2>1. at' = "effective" /\ day' = day + 1
    BY <1>5 DEF EffectiveDay, GoesOn
  <2>2. \A x \in delivery..(day' - 1) : x \in delivery..(day - 1) \/ x = day
    BY <1>1, <2>1
  <2>3. delivery <= day' /\ day' \in Nat
    BY <1>1, <1>2, <2>1
  <2>4. Enforced'
    BY <1>2, <1>3, <1>5, <2>1, <2>2, <2>3 DEF Enforced
  <2>5. QED
    BY <1>1, <1>3, <2>3, <2>4, EnforcedTurns
<1>6. CASE day \notin debtEnforcementHoliday
  <2>1. at' = "shift" /\ day' = day + n
    BY <1>6 DEF EffectiveDay, GoesOn
  <2>2. day \in FreeDay
    BY <1>1, <1>2, <1>4, <1>6, InCalendar DEF FreeDay
  <2>3. \A x \in delivery..(day - 1) : x \notin FreeDay
    BY <1>2 DEF FreeDay
  <2>4. day <= delivery + 50
    BY <1>1, <1>2, <1>4, ShortStretch
  <2>5. Effective(day)
    BY <1>1, <1>2, <2>2, <2>3, <2>4 DEF Effective, IsFirst
  <2>7. day \in Int /\ (day + n)..(day' - 1) = {} /\ day + n <= day' /\ day' \in Nat
    BY <1>1, <2>1
  <2>8. \E e \in Int : /\ e \in Int /\ IsFirst(delivery, FreeDay, e) /\ e <= delivery + 50
                       /\ e + n <= day'
                       /\ \A x \in (e + n)..(day' - 1) : x \notin isBusinessDay
    BY <2>5, <2>7 DEF Effective
  <2>9. Enforced'
    BY <1>2, <1>3, <2>1, <2>8 DEF Enforced, Effective
  <2>10. QED
    BY <1>1, <1>3, <2>7, <2>9, EnforcedTurns
<1>7. QED
  BY <1>5, <1>6

LEMMA ShiftingEnforced ==
  ASSUME DeadlineInv, ShiftEnd, frist.regime = "schkg"
  PROVE  DeadlineInv'
<1>. PICK n \in 1..20 : n = frist.days
  BY Enforcing DEF ShiftEnd
<1>1. FirstDay <= delivery /\ delivery <= LastDay
      /\ delivery \in Int /\ FirstDay \in Nat /\ LastDay \in Nat
      /\ day \in Nat /\ counted \in Nat /\ turn \in Nat /\ ~Standstill
  BY Enforcing DEF ShiftEnd
<1>2. PICK e \in Int :
        /\ counted = 0 /\ IsFirst(delivery, FreeDay, e) /\ e <= delivery + 50
        /\ e + n <= day /\ \A x \in (e + n)..(day - 1) : x \notin isBusinessDay
  BY Enforcing DEF ShiftEnd, Enforced, Effective
<1>3. frist' = frist /\ delivery' = delivery /\ last' = last /\ counted' = counted
  BY DEF ShiftEnd, GoesOn
<1>4. CASE day \notin isBusinessDay
  <2>1. at' = "shift" /\ day' = day + 1 /\ turn' = turn + 1
    BY <1>1, <1>4, Shutting DEF ShiftEnd, GoesOn, DeadlineInv
  <2>2. \A x \in (e + n)..(day' - 1) : x \in (e + n)..(day - 1) \/ x = day
    BY <1>1, <2>1
  <2>3. e + n <= day' /\ day' \in Nat /\ turn' \in Nat
    BY <1>1, <1>2, <2>1
  <2>4. \A x \in (e + n)..(day' - 1) : x \notin isBusinessDay
    BY <1>2, <1>4, <2>2
  <2>5. Enforced'
    BY <1>2, <1>3, <2>1, <2>3, <2>4 DEF Enforced, Effective
  <2>6. QED
    BY <1>1, <1>3, <2>3, <2>5, EnforcedTurns
<1>5. CASE day \in isBusinessDay
  <2>1. at' = "extend" /\ day' = day /\ turn' = 0
    BY <1>1, <1>5, Shutting DEF ShiftEnd, GoesOn, DeadlineInv
  <2>2. IsFirst(e + n, isBusinessDay, day)
    BY <1>2, <1>5 DEF IsFirst
  <2>3. e + n \in FirstDay..(LastDay + 120) /\ day \in Int
    BY <1>1, <1>2 DEF IsFirst
  <2>4. day <= e + n + 50
    BY <1>2, <2>3, ShortStretch
  <2>5. day <= delivery + 120
    BY <1>1, <1>2, <2>4
  <2>6. Enforced'
    BY <1>1, <1>2, <1>3, <2>1, <2>2, <2>5 DEF Enforced, Regular, Effective
  <2>7. QED
    BY <1>1, <1>3, <2>1, <2>6, EnforcedTurns
<1>6. QED
  BY <1>4, <1>5

(* The end of which the holidays' extension is asked lies in the period.   *)
LEMMA RegularDay ==
  ASSUME DeadlineInv, FirstDay <= delivery, NEW end, Regular(end)
  PROVE  end \in Int /\ delivery <= end /\ end \in FirstDay..(LastDay + 120)
         /\ end \in isBusinessDay /\ end \in Calendar
<1>1. delivery \in Int /\ delivery <= LastDay /\ frist.days \in 1..30
      /\ FirstDay \in Nat /\ LastDay \in Nat
  BY Regimes, PeriodAssumption DEF DeadlineInv, DeadlineTypes
<1>2. PICK e \in Int : /\ delivery <= e /\ e + frist.days <= end
                       /\ end \in Int /\ end <= delivery + 120 /\ end \in isBusinessDay
  BY DEF Regular, Effective, IsFirst
<1>3. QED
  BY <1>1, <1>2, DaysAreNumbers

LEMMA Extending ==
  ASSUME DeadlineInv, ExtendEnd
  PROVE  DeadlineInv'
<1>1. FirstDay <= delivery /\ delivery \in Int /\ frist.regime = "schkg"
      /\ day \in Nat /\ counted \in Nat /\ turn \in Nat
      /\ counted = 0 /\ Regular(day)
  BY Enforcing DEF ExtendEnd, Enforced
<1>2. frist' = frist /\ delivery' = delivery /\ last' = last
      /\ counted' = counted /\ turn' = turn
  BY DEF ExtendEnd, GoesOn
<1>3. \A x : Regular(x) => /\ \E e \in Int :
                                 /\ IsFirst(delivery, FreeDay, e) /\ e <= delivery + 50
                                 /\ IsFirst(e + frist.days, isBusinessDay, x)
                                 /\ x \in Int /\ x <= delivery + 120
  BY DEF Regular, Effective
<1>4. day \in Int /\ day \in Calendar
  BY <1>1, RegularDay
<1>5. CASE day \in debtEnforcementHoliday
  <2>1. at' = "behind" /\ day' = day + 1
    BY <1>5 DEF ExtendEnd, GoesOn
  <2>2. day < day' /\ day' \in Nat /\ \A x \in day..(day' - 1) : x = day
    BY <1>1, <2>1
  <2>3. Enforced'
    BY <1>1, <1>2, <1>3, <1>4, <1>5, <2>1, <2>2 DEF Enforced, Regular, Effective
  <2>4. QED
    BY <1>1, <1>2, <2>2, <2>3, EnforcedTurns
<1>6. CASE day \notin debtEnforcementHoliday
  <2>1. at' = "done" /\ day' = day
    BY <1>6 DEF ExtendEnd, GoesOn
  <2>2. day \in FreeDay
    BY <1>4, <1>6 DEF FreeDay
  <2>3. Enforced'
    BY <1>1, <1>2, <1>3, <2>1, <2>2 DEF Enforced, Regular, Effective
  <2>4. QED
    BY <1>1, <1>2, <2>1, <2>3, EnforcedTurns
<1>7. QED
  BY <1>5, <1>6

LEMMA Leaving ==
  ASSUME DeadlineInv, LeaveHoliday
  PROVE  DeadlineInv'
<1>1. FirstDay <= delivery /\ delivery \in Int /\ frist.regime = "schkg"
      /\ day \in Nat /\ counted \in Nat /\ turn \in Nat /\ FirstDay \in Nat
  BY Enforcing DEF LeaveHoliday
<1>2. PICK end \in Int :
        /\ counted = 0 /\ Regular(end) /\ end < day
        /\ \A x \in end..(day - 1) : x \in debtEnforcementHoliday
  BY Enforcing DEF LeaveHoliday, Enforced
<1>3. frist' = frist /\ delivery' = delivery /\ last' = last
      /\ counted' = counted /\ turn' = turn
  BY DEF LeaveHoliday, GoesOn
<1>4. Regular(end)'
  BY <1>2, <1>3 DEF Regular, Effective
<1>5. CASE day \in debtEnforcementHoliday
  <2>1. at' = "behind" /\ day' = day + 1
    BY <1>5 DEF LeaveHoliday, GoesOn
  <2>2. \A x \in end..(day' - 1) : x \in end..(day - 1) \/ x = day
    BY <1>1, <2>1
  <2>3. end < day' /\ day' \in Nat
    BY <1>1, <1>2, <2>1
  <2>4. Enforced'
    BY <1>2, <1>3, <1>4, <1>5, <2>1, <2>2, <2>3 DEF Enforced
  <2>5. QED
    BY <1>1, <1>3, <2>3, <2>4, EnforcedTurns
<1>6. CASE day \notin debtEnforcementHoliday
  <2>1. at' = "third" /\ day' = day - 1
    BY <1>6 DEF LeaveHoliday, GoesOn
  <2>2. end \in FirstDay..(LastDay + 120) /\ delivery <= end
    BY <1>1, <1>2, RegularDay
  <2>3. day \in FreeDay
    BY <1>1, <1>2, <1>6, <2>2, InCalendar DEF FreeDay
  <2>4. IsFirst(end, FreeDay, day)
    BY <1>1, <1>2, <2>3 DEF IsFirst, FreeDay
  <2>5. end \in end..(day - 1)
    BY <1>1, <1>2
  <2>6. end \in debtEnforcementHoliday
    BY <1>2, <2>5
  <2>7. (day..(day - 1)) \cap isBusinessDay = {}
    BY <1>1
  <2>8. Cardinality((day..(day - 1)) \cap isBusinessDay) = 0
    BY <2>7, FS_EmptySet
  <2>9. day' \in Nat /\ day \in Int /\ day - 1 <= day' /\ counted' < 3
        /\ counted' = Cardinality((day..day') \cap isBusinessDay)
    BY <1>1, <1>2, <1>3, <2>1, <2>2, <2>8
  <2>10. Enforced'
    BY <1>2, <1>4, <2>1, <2>4, <2>6, <2>9 DEF Enforced
  <2>11. QED
    BY <1>1, <1>3, <2>9, <2>10, EnforcedTurns
<1>7. QED
  BY <1>5, <1>6

LEMMA CountingToThree ==
  ASSUME DeadlineInv, ThirdDay
  PROVE  DeadlineInv'
<1>1. FirstDay <= delivery /\ delivery \in Int /\ frist.regime = "schkg"
      /\ day \in Nat /\ counted \in Nat /\ turn \in Nat
  BY Enforcing DEF ThirdDay
<1>2. PICK end \in Int, b \in Int :
        /\ Regular(end) /\ end \in debtEnforcementHoliday /\ IsFirst(end, FreeDay, b)
        /\ b - 1 <= day /\ counted < 3
        /\ counted = Cardinality((b..day) \cap isBusinessDay)
  BY Enforcing DEF ThirdDay, Enforced
<1>3. frist' = frist /\ delivery' = delivery /\ last' = last /\ turn' = turn
      /\ day' = day + 1
  BY DEF ThirdDay, GoesOn
<1>4. Regular(end)'
  BY <1>2, <1>3 DEF Regular, Effective
<1>5. /\ day + 1 \in isBusinessDay =>
           Cardinality((b..(day + 1)) \cap isBusinessDay) = counted + 1
      /\ day + 1 \notin isBusinessDay =>
           Cardinality((b..(day + 1)) \cap isBusinessDay) = counted
  <2>1. b <= day + 1 /\ day \in Int
    BY <1>1, <1>2
  <2>2. QED
    BY <1>2, <2>1, OneMoreDay
<1>6. counted' = Cardinality((b..day') \cap isBusinessDay)
  BY <1>3, <1>5 DEF ThirdDay
<1>7. /\ day + 1 \in isBusinessDay => counted' = counted + 1
      /\ day + 1 \notin isBusinessDay => counted' = counted
  BY DEF ThirdDay
<1>8. b - 1 <= day' /\ day' \in Nat /\ counted' \in Nat
  BY <1>1, <1>2, <1>3, <1>7
<1>9. CASE counted' < 3
  <2>1. at' = "third"
    BY <1>9 DEF ThirdDay, GoesOn
  <2>2. Enforced'
    BY <1>2, <1>4, <1>6, <1>8, <1>9, <2>1 DEF Enforced
  <2>3. QED
    BY <1>1, <1>3, <1>8, <2>2, EnforcedTurns
<1>10. CASE ~(counted' < 3)
  <2>1. at' = "done"
    BY <1>10 DEF ThirdDay, GoesOn
  <2>2. day' \in isBusinessDay /\ counted' = 3
    BY <1>1, <1>2, <1>3, <1>7, <1>8, <1>10
  <2>3. Cardinality((b..day') \cap isBusinessDay) = 3
    BY <1>6, <2>2
  <2>4. Enforced'
    BY <1>2, <1>4, <2>1, <2>2, <2>3 DEF Enforced
  <2>5. QED
    BY <1>1, <1>3, <1>8, <2>4, EnforcedTurns
<1>11. QED
  BY <1>9, <1>10

-----------------------------------------------------------------------------
(* The next delivery. *)

LEMMA Ended ==
  ASSUME DeadlineInv, at = "done", FirstDay <= delivery
  PROVE  EndOf(delivery, day)
<1>1. Served
  BY DEF DeadlineInv
<1>2. /\ Standstill => StandingEnd(delivery, frist.days, day)
      /\ frist.regime = "stpo" => IsFirst(delivery + frist.days, isBusinessDay, day)
      /\ frist.regime = "fiction" => day = delivery + frist.days
  BY <1>1 DEF Served, Standing, Criminal
<1>3. QED
  BY <1>2 DEF EndOf

LEMMA Delivering ==
  ASSUME DeadlineInv, NextDelivery
  PROVE  DeadlineInv'
<1>. PICK d : d = delivery + 1
  OBVIOUS
<1>. PICK n \in 1..30 : n = frist.days
  BY Regimes DEF DeadlineInv
<1>1. /\ FirstDay \in Nat /\ FirstDay > 400 /\ LastDay \in Nat
      /\ delivery \in Int /\ FirstDay - 1 <= delivery /\ delivery < LastDay
      /\ day \in Nat
  BY PeriodAssumption DEF DeadlineInv, DeadlineTypes, NextDelivery
<1>2. d \in Nat /\ FirstDay <= d /\ d <= LastDay
  BY <1>1
<1>3. frist' = frist /\ last' = day /\ delivery' = d /\ counted' = 0 /\ turn' = 0
  BY DEF NextDelivery, Delivered
<1>4. Standstill' = Standstill
  BY <1>3 DEF Standstill
<1>5. Served' /\ day' \in Nat
  <2>1. CASE Standstill
    <3>1. at' = "count" /\ day' = d + 1
      BY <1>3, <2>1 DEF NextDelivery, Delivered, Standstill
    <3>2. day' = d + 1 + turn' /\ day' - 1 = d
      BY <1>2, <1>3, <3>1
    <3>3. Cardinality(Running(d, d)) = 0
      BY <1>2, RunningDays
    <3>4. Standing'
      BY <1>3, <3>1, <3>2, <3>3 DEF Standing
    <3>5. QED
      BY <1>2, <1>3, <1>4, <2>1, <3>1, <3>4 DEF Served, Standstill
  <2>2. CASE frist.regime = "stpo"
    <3>1. at' = "shift" /\ day' = d + 1 + n - 1
      BY <1>3, <2>2 DEF NextDelivery, Delivered
    <3>2. day' = d + n + turn' /\ (d + n)..(day' - 1) = {} /\ day' \in Nat
      BY <1>2, <1>3, <3>1
    <3>3. Criminal'
      BY <1>3, <3>1, <3>2 DEF Criminal
    <3>4. QED
      BY <1>3, <1>4, <2>2, <3>2, <3>3 DEF Served, Standstill
  <2>3. CASE frist.regime = "schkg"
    <3>1. at' = "effective" /\ day' = d
      BY <1>3, <2>3 DEF NextDelivery, Delivered
    <3>2. d <= day' /\ d..(day' - 1) = {} /\ day' \in Nat
      BY <1>2, <3>1
    <3>3. Enforced'
      BY <1>3, <3>1, <3>2 DEF Enforced
    <3>4. QED
      BY <1>3, <1>4, <2>3, <3>2, <3>3 DEF Served, Standstill
  <2>4. CASE frist.regime = "fiction"
    <3>1. at' = "done" /\ day' = d + n
      BY <1>3, <2>4 DEF NextDelivery, Delivered
    <3>2. QED
      BY <1>2, <1>3, <1>4, <2>4, <3>1 DEF Served, Standstill
  <2>5. QED
    BY <2>1, <2>2, <2>3, <2>4, Regimes DEF DeadlineInv
<1>6. DeadlineTypes'
  BY <1>1, <1>2, <1>3, <1>5 DEF DeadlineInv, DeadlineTypes
<1>7. d <= FirstDay => day = 0
  BY <1>1 DEF DeadlineInv
<1>8. d > FirstDay => EndOf(d - 1, day)
  <2>1. d - 1 = delivery /\ (d > FirstDay => FirstDay <= delivery)
    BY <1>1
  <2>2. QED
    BY <2>1, Ended DEF NextDelivery
<1>9. EndOf(d - 1, day) => EndOf(delivery - 1, last)'
  BY <1>3, <1>4 DEF EndOf
<1>10. QED
  BY <1>1, <1>2, <1>3, <1>5, <1>6, <1>7, <1>8, <1>9 DEF DeadlineInv

LEMMA DeadlineStarts == DeadlineInit => DeadlineInv
<1>. SUFFICES ASSUME DeadlineInit
              PROVE  DeadlineInv
  OBVIOUS
<1>1. family \in PROCEDURE_FAMILIES
  BY DEF DeadlineInit, inferFamily, PROCEDURE_FAMILIES
<1>2. frist \in Fristen(family)
  BY DEF DeadlineInit
<1>3. frist \in Frist /\ (frist.regime = "schkg" => frist.days <= 20)
  <2>1. frist = [days |-> 7, regime |-> "fiction"]
        \/ frist \in ZpoFristen \/ frist \in StpoFristen
        \/ frist \in AdminFristen \/ frist \in SchkgFristen
    BY <1>2 DEF Fristen
  <2>2. QED
    BY <2>1 DEF ZpoFristen, StpoFristen, AdminFristen, SchkgFristen, Frist
<1>4. DeadlineTypes /\ delivery < FirstDay /\ at = "done" /\ day = 0 /\ last = 0
  BY <1>3, PeriodAssumption DEF DeadlineTypes, DeadlineInit
<1>5. ~(FirstDay <= delivery) /\ ~(FirstDay < delivery) /\ delivery <= FirstDay
  BY <1>4, PeriodAssumption DEF DeadlineTypes
<1>6. QED
  BY <1>4, <1>5 DEF DeadlineInv

LEMMA DeadlineSteps == DeadlineInv /\ [DeadlineNext]_deadlineVars => DeadlineInv'
<1>. SUFFICES ASSUME DeadlineInv, [DeadlineNext]_deadlineVars
              PROVE  DeadlineInv'
  OBVIOUS
<1>1. CASE ShiftEnd
  <2>1. Standstill \/ frist.regime \in {"stpo", "schkg"}
    <3>1. frist.regime = "fiction" => at = "done"
      BY <1>1, Looping DEF ShiftEnd, Served
    <3>2. QED
      BY <1>1, <3>1, Regimes DEF ShiftEnd, DeadlineInv
  <2>2. QED
    BY <1>1, <2>1, ShiftingStanding, ShiftingCriminal, ShiftingEnforced
<1>2. CASE UNCHANGED deadlineVars
  BY <1>2 DEF deadlineVars, DeadlineInv, DeadlineTypes, Served, Standing, Criminal, Enforced,
              Regular, Effective, EndOf, Standstill
<1>3. QED
  BY <1>1, <1>2, Delivering, Counting, TakingEffect, Extending, Leaving, CountingToThree
  DEF DeadlineNext

LEMMA DeadlineAlways == DeadlineSpec => []DeadlineInv
BY DeadlineStarts, DeadlineSteps, PTL DEF DeadlineSpec

-----------------------------------------------------------------------------
LEMMA LawsDay == ASSUME DeadlineInv PROVE EndsAsTheLawSays
<1>. SUFFICES ASSUME at = "done", delivery >= FirstDay
              PROVE  CASE Standstill -> WithStandstill
                       [] frist.regime = "stpo" ->
                            day = FirstFrom(delivery + frist.days, isBusinessDay)
                       [] frist.regime = "schkg" -> WithEnforcementHolidays
                       [] frist.regime = "fiction" -> day = delivery + frist.days
  BY DEF EndsAsTheLawSays
<1>0. FirstDay \in Nat /\ delivery \in Int /\ FirstDay <= delivery /\ frist.days \in Int
  BY Regimes, PeriodAssumption DEF DeadlineInv, DeadlineTypes
<1>1. EndOf(delivery, day)
  BY <1>0, Ended
<1>2. CASE Standstill
  <2>1. PICK full \in (delivery + 1)..day :
          /\ full \notin courtStandstill
          /\ Cardinality(Running(delivery, full)) = frist.days
          /\ IsFirst(full, OpenDay, day)
    BY <1>1, <1>2 DEF EndOf, StandingEnd
  <2>2. full \in Int
    BY <1>0
  <2>3. day = FirstFrom(full, OpenDay)
    BY <2>1, <2>2, FirstIs, DaysAreNumbers
  <2>4. WithStandstill
    BY <2>1, <2>3 DEF WithStandstill, Running, OpenDay
  <2>5. QED
    BY <1>2, <2>4 DEF Standstill
<1>3. CASE frist.regime = "stpo"
  <2>1. delivery + frist.days \in Int
    BY <1>0
  <2>2. isBusinessDay \in SUBSET Int
    BY DaysAreNumbers
  <2>3. day = FirstFrom(delivery + frist.days, isBusinessDay)
    BY <1>1, <1>3, <2>1, <2>2, FirstIs DEF EndOf
  <2>4. QED
    BY <1>3, <2>3 DEF Standstill
<1>4. CASE frist.regime = "schkg"
  <2>1. WithEnforcementHolidays
    <3>1. isBusinessDay \in SUBSET Int /\ FreeDay \in SUBSET Int
      BY DaysAreNumbers
    <3>2. \A end : Regular(end) =>
            /\ FirstFrom(FirstFrom(delivery, FreeDay) + frist.days, isBusinessDay) = end
            /\ end \in Int /\ end \in isBusinessDay /\ end \in Calendar
      <4>. SUFFICES ASSUME NEW end, Regular(end)
                    PROVE  /\ FirstFrom(FirstFrom(delivery, FreeDay) + frist.days,
                                        isBusinessDay) = end
                           /\ end \in Int /\ end \in isBusinessDay /\ end \in Calendar
        OBVIOUS
      <4>1. PICK e \in Int : /\ IsFirst(delivery, FreeDay, e)
                             /\ IsFirst(e + frist.days, isBusinessDay, end)
        BY DEF Regular, Effective
      <4>2. FirstFrom(delivery, FreeDay) = e
        BY <1>0, <3>1, <4>1, FirstIs
      <4>3. e + frist.days \in Int
        BY <1>0
      <4>4. FirstFrom(e + frist.days, isBusinessDay) = end
        BY <3>1, <4>1, <4>3, FirstIs
      <4>5. QED
        BY <1>0, <4>2, <4>4, RegularDay
    <3>3. Enforced
      BY <1>0, <1>4 DEF DeadlineInv, Served
    <3>4. CASE Regular(day) /\ day \in FreeDay
      BY <3>2, <3>4 DEF WithEnforcementHolidays, FreeDay
    <3>5. ASSUME NEW end \in Int, NEW b \in Int, Regular(end),
                 end \in debtEnforcementHoliday, IsFirst(end, FreeDay, b),
                 day \in isBusinessDay, Cardinality((b..day) \cap isBusinessDay) = 3
          PROVE  WithEnforcementHolidays
      <4>1. FirstFrom(end, FreeDay) = b
        BY <3>1, <3>5, FirstIs
      <4>2. end \notin FreeDay
        BY <3>5 DEF FreeDay
      <4>3. FirstFrom(FirstFrom(delivery, FreeDay) + frist.days, isBusinessDay) = end
        BY <3>2, <3>5
      <4>4. QED
        BY <3>5, <4>1, <4>2, <4>3 DEF WithEnforcementHolidays, FreeDay
    <3>6. QED
      BY <3>3, <3>4, <3>5 DEF Enforced
  <2>2. QED
    BY <1>4, <2>1 DEF Standstill
<1>5. CASE frist.regime = "fiction"
  <2>1. day = delivery + frist.days
    BY <1>1, <1>5 DEF EndOf
  <2>2. QED
    BY <1>5, <2>1 DEF Standstill
<1>6. QED
  BY <1>2, <1>3, <1>4, <1>5, Regimes DEF DeadlineInv

(* Two ends of deadlines with a standstill are in the order of their       *)
(* deliveries: the later one's last running day is not the earlier.        *)
LEMMA StandingInOrder ==
  ASSUME NEW c \in Int, NEW d \in Int, c < d, NEW n \in Nat,
         NEW e \in Int, NEW f \in Int, StandingEnd(c, n, e), StandingEnd(d, n, f)
  PROVE  e <= f
<1>1. PICK s \in (c + 1)..e : /\ s \notin courtStandstill
                              /\ Cardinality(Running(c, s)) = n /\ IsFirst(s, OpenDay, e)
  BY DEF StandingEnd
<1>2. PICK t \in (d + 1)..f : /\ t \notin courtStandstill
                              /\ Cardinality(Running(d, t)) = n /\ IsFirst(t, OpenDay, f)
  BY DEF StandingEnd
<1>3. s \in Int /\ t \in Int /\ c + 1 <= s
  OBVIOUS
<1>4. s <= t
  <2>. SUFFICES ASSUME t <= s - 1
                PROVE  FALSE
    BY <1>3
  <2>1. n <= Cardinality(Running(c, s - 1))
    BY <1>2, <1>3, MoreRunningDays
  <2>2. c <= s - 1 /\ s - 1 \in Int /\ (s - 1) + 1 = s
    BY <1>3
  <2>3. n = Cardinality(Running(c, s - 1)) + 1 /\ Cardinality(Running(c, s - 1)) \in Nat
    BY <1>1, <2>2, RunningDays
  <2>4. QED
    BY <2>1, <2>3
<1>5. QED
  BY <1>1, <1>2, <1>3, <1>4, LaterFirst, DaysAreNumbers

LEMMA EndsInOrder == ASSUME DeadlineInv PROVE LaterServiceLaterEnd
<1>. SUFFICES ASSUME at = "done", frist.regime # "schkg"
              PROVE  last <= day
  BY DEF LaterServiceLaterEnd
<1>1. FirstDay \in Nat /\ delivery \in Int /\ day \in Nat /\ last \in Nat /\ frist.days \in Nat
  BY Regimes, PeriodAssumption DEF DeadlineInv, DeadlineTypes
<1>2. CASE delivery <= FirstDay
  BY <1>1, <1>2 DEF DeadlineInv
<1>3. CASE delivery > FirstDay
  <2>1. EndOf(delivery - 1, last) /\ EndOf(delivery, day)
    BY <1>1, <1>3, Ended DEF DeadlineInv
  <2>2. delivery - 1 \in Int /\ delivery - 1 < delivery /\ last \in Int /\ day \in Int
    BY <1>1
  <2>3. CASE Standstill
    BY <1>1, <2>1, <2>2, <2>3, StandingInOrder DEF EndOf
  <2>4. CASE frist.regime = "stpo"
    <3>1. delivery - 1 + frist.days \in Int /\ delivery + frist.days \in Int
          /\ delivery - 1 + frist.days <= delivery + frist.days
      BY <1>1
    <3>2. QED
      BY <2>1, <2>4, <3>1, LaterFirst, DaysAreNumbers DEF EndOf
  <2>5. CASE frist.regime = "fiction"
    BY <1>1, <2>1, <2>5 DEF EndOf
  <2>6. QED
    BY <2>3, <2>4, <2>5, Regimes DEF DeadlineInv
<1>4. QED
  BY <1>1, <1>2, <1>3
(* A deadline ends on the day that the cited articles give, whatever loops *)
(* computeLegalDeadline runs through and whichever standstills and         *)
(* holidays they meet.                                                     *)
THEOREM EndsOnTheLawsDay == DeadlineSpec => []EndsAsTheLawSays
BY DeadlineAlways, LawsDay, PTL

(* A deadline served a day later never ends earlier, but in debt           *)
(* enforcement.                                                            *)
THEOREM LaterServedEndsLater == DeadlineSpec => []LaterServiceLaterEnd
BY DeadlineAlways, EndsInOrder, PTL
=============================================================================
