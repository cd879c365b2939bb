# Sponsum: TLA+ specifications

Sponsum is the receivables desk of a tenant: it records invoices as receivables, verifies them, handles disputes, offers
and sells them against payment through an external provider, or finances them through loans in Frappe Lending. These
modules specify the API in `apps/api/src/modules/sponsum` (called S below) and `packages/shared/src`, the desk's script in the
browser (`apps/api/public/sponsum/sponsum-desk.js`, called D), the earlier product beside it (`apps/api/src/modules/claims` and
others) and the forms of its web front end (`apps/web`, called W). Paths are relative to the repository.

## 1. Inventory

| Component | State | Operations | Hard because |
|---|---|---|---|
| Status tables, `packages/shared/src/receivable-transitions.ts` | none | `assertTransition`, `canOfferClean`, `canCreateSecondLiveOffer` | they are the only guard of many handlers |
| Trading desk, S`/service.ts` 300-1090, 1778-1835 | `assets`, `locks`, `registry`, `offers`, `bids`, `trades`, `instructions`, `observations`, `assignments`, `verifications`, `dispute_workbenches`, `kyc` | record, verify, dispute (open, create, close, reopen, archive), offer, liquidity request, bid, counter, accept, assignment contract, payment report, manual confirmation | six collections tell one story; each handler updates some of them; disputes and verification reach into sales; reports are repeated, differ, and come from two sources |
| Capital needs and Lending handover, S`/service.ts` 2402-2625, S`/lending-bridge.ts` | `capital_needs`, `capital_interests`, the event `LENDING_APPLICATION_REQUESTED`, the in-flight map; at Lending: applications and loans | create, introduce, confirm, withdraw, request a loan | two handlers await HTTP calls; the 10 s abort loses answers; a restart loses the in-flight map; Lending is asked for what is open and the answer ages |
| Signed instruments, S`/service.ts` 1837-2360, S`/skribble.ts` | `wechsel_drafts`, signatures of drafts and contracts, at Skribble: signature requests | draft, sign, synchronise, anchor, guarantee, assign | a remote request is made before the local write; a sync awaits Skribble once per row and writes one old snapshot at the end; Skribble decides the quality |
| Scoped store, S`/scoped-store.ts`, S`/access-context.ts`, S`/store.ts` | the document in memory and on disk, per-request views | `snapshot`, `replace` with conflict check and merge, `loadState`, `persist` | views captured before an await; memory changed before the file is written; a torn file |
| Lombard credit, S`/service.ts` 2652-2760 | needs of kind LOMBARD; at Lending: applications | one request that creates application and need; withdrawal | remote write before the local one; the answer may be lost |
| Dispute files, S`/service.ts` 500-640, 1130-1500, S`/dispute-workbench.ts`, S`/form-ai.ts` | `dispute_workbenches`: stages, links, letters, exports | open, close, archive, edit, link, draft a letter, export | cases are looked up by four ids; a letter is drafted across awaits of up to 45 s while the file and the receivable go on |
| Deadlines, S`/jurisdiction-deadlines.ts` | none | `computeLegalDeadline` and its calendar | loops across standstills, feasts and the turn of the year |
| Protocol events, S`/service.ts` 3120-3160, `packages/shared/src/receivable-events.ts` | `events` | `appendEvent` | the hash chain is computed over what the caller sees |
| Accounting, `packages/shared/src/receivable-accounting.ts` | `accounting` | proposals | |
| Verification score, `packages/shared/src/receivable-verification.ts` | none | sum of weights | thresholds 40 and 50 |
| Disclosures, profiles | `disclosures`, `buyer_profiles` | request, grant | filters only |
| Desk script, D | one tab: workspace, address, page, dialog, `busy` | routing, forms, `act`, dialog, venue card | every await lets clicks, address changes and late answers in |
| Claims, marketplace, settlements, disputes, escrow, custody, collateral, transaction lifecycle (Prisma, `apps/api/src/modules`) | tables of the earlier product, its event log | create, patch, publish, fund, transfer, settle, buy, settlement events, disputes | read-modify-write over a database at read committed; `app.ts` mounts none of the routers at present |
| Sign-in, `apps/api/src/modules/auth`, W`/src/lib/auth.ts`, its forms and navigation bar | table `User`; the session in `localStorage`, shared by all tabs; what each tab shows of it | register, log in, the demo's own registration, log out, the browser's storage event | two requests and two tabs; a form's answer comes after its user has left; registering reads first and creates then |
| Claim wizard, W`/src/components/claims/SimpleClaimWizard.tsx`, `packages/shared/src/schemas.ts` | step, basics, instrument, the fields of all instruments | type, choose, next, back, submit | fields of earlier choices stay; wizard and API check on their own |
| Instrument forms, W`/src/components/instruments`, W`/src/lib/instruments` | values, mode, marks, status line | type, choose mode and reader, submit | a hidden field keeps its value and its rules are skipped; a mark may be on a field that is not shown |
| Other pages of W, seed | none that outlives a page | | |

**Interaction.** Every handler takes `snapshot()`, a deep copy of one JSON document, and writes it back with
`replace()`. A handler that throws before `replace()` has written nothing. Handlers without `await` run in one turn of the
Node.js event loop and therefore never interleave with each other: they are atomic actions. Three kinds of steps do
interleave with everything: handlers that await Lending, Skribble, OpenAI or ERPNext; the external systems; the calendar. Desk and
financing share the receivable: `assertNotFinanced` and `assertNotForSale` keep sale and loan apart by looking at
each other's rows.

**What makes it correct.** A receivable is sold at most once, never while it is pledged, and changes hands in exactly
the step in which an exact payment is recorded, to the buyer of the accepted bid at the accepted price; disputes block new
deals but cannot undo a settled one; the two report channels cannot decide a trade twice; a receivable stays reserved
while a loan for it is open; there is one open loan application for it at most. A Wechsel is accepted exactly when its drawee has signed, nobody signs
before the drawer, a signature counts only at the quality asked for, and a completed one is never lost. A letter calls each
party by its own name and a dispute file loses nothing; a deadline ends on the day that the law gives; the chain of events
only grows, and nobody passes over an event that is shown to him. In the browser one act runs at a time and always ends. In the
earlier product the event log tells the status of a claim, every tab shows whose session is stored, a claim is of
one instrument with all that this one asks for, and what an instrument form accepts obeys its template's rules, while a refusal shows what is
wrong.

## 2. Modules

| Module | Models |
|---|---|
| `ReceivableTransitions` | the status tables |
| `ReceivableDesk` | the trading desk, one action per handler |
| `ReceivableSale` | what desk and financing promise together: an abstract sale with stage, owner and buyer |
| `CapitalLending` | capital needs, the Lending handover split at its awaits, Lending as the desk sees it, the desk as its abstract sale |
| `SignedInstruments` | Wechsel drafts, assignment contracts, their signatures, Skribble as far as they use it |
| `ScopedStore` | what each user sees of the document, the checks and the merge of a write, the file |
| `SharedRecords` | what the store promises: one document changed atomically by those who may |
| `DisputeFiles` | the content of dispute files, how a request finds its case, letters drafted across awaits |
| `LegalDeadlines` | `computeLegalDeadline`, one action per turn of its loops, its calendar, and what the cited articles say |
| `ProtocolEvents` | the event chain over what each user sees, Lombard credit |
| `DeskPages` | one browser tab of the desk |
| `ClaimMarket` | the earlier product over its database |
| `WebSignIn` | signing in to the earlier product, from several tabs |
| `ClaimWizard` | the wizard that enters a claim, and what the API takes |
| `InstrumentForms` | the instrument form with its eight templates |
| `MCReceivableDesk`, `MCCapitalLending`, `MCSignedInstruments`, `MCScopedStore`, `MCProtocolEvents`, `MCDeskPages` | values of the constants, symmetry |
| `MCDisputeWorkbench` (`DisputeFiles`, `LegalDeadlines`), `MCEarlierProduct` (`ClaimMarket`, `WebSignIn`), `MCBrowserPages` (`DeskPages`, `ClaimWizard`, `InstrumentForms`) | the same for modules put side by side; they share no state, so `part` chooses which one runs in a behaviour |
| `ReceivableDesk_proofs` | theorems about the desk and its refinement of the abstract sale |
| `CapitalLending_proofs` | theorems about needs and handovers, and their refinement of the same abstract sale |
| `SignedInstruments_proofs` | theorems about signatures |
| `ScopedStore_proofs` | theorems about the store and its refinement |
| `DisputeWorkbench_proofs` | theorems about dispute files and about deadlines |
| `ProtocolEvents_proofs`, `DeskPages_proofs`, `ClaimMarket_proofs` | theorems about the event chain and Lombard credit, the browser tab, the earlier product |

### ReceivableDesk and the code

Each variable is the collection of the same name in `SponsumState`, as a function of ids: a row that is not there has status
`ABSENT`, `randomUUID()` picks an id whose row is absent. Differences:

* `assets` keeps status, disputed amount, holder and instrument type. Amounts are `0..Nominal`; the currency of a report is
  the right one or not.
* `registry` rows carry no offer id in the code, so a receivable's RESERVED and ACTIVE rows are counted; the transferee is that
  of the ACTIVE one.
* `verifications` is the set of receivables with a record of at least 50 points; the score itself is a band, since the
  code only asks for 40 and 50.
* `capital_needs` is the set of receivables a CONFIRMED need reserves; the needs are in `CapitalLending`.
* `late` is the set of receivables whose `maturity_date` lies before `sponsumToday()`. Time passes in `MaturityPasses`;
  a live-checked invoice may set another due date (`checkedInvoice`).
* A handler's parameters are quantified in the disjuncts of `Next`. Guards are the conditions under which the handler does
  not throw, in the code's terms: `p \in kyc` is `assertKyc`, `to \in ReceivableNext(from)` is `assertTransition`.
* `requestLiquidity`, `acceptLiquidityQuote`, `createAssignment`, `reopenDispute` and `confirmByProvider` write several times in one
  turn. They are one action; the comment at each says which states a crash between two writes leaves. For
  `confirmByProvider` that state is new, so the action has the parameter `effective`.
* Without a principal (tests, scripts) the four-eyes rule does not apply; the model has only signed-in users.
* `Band` `"high"` at recording stands for a Wechsel draft, whose receivable is recorded with enough asserted evidence.

### CapitalLending and the code

A call (`calls[c]`) is a running `requestCapitalNeedLoan` or `withdrawCapitalNeed`. It captures what the handler's
`snapshot()` captured, then advances at each await: `LoanBegins`, `LoanListed` (the list queries have answered; the
application is sent), `Inserts` (it reaches Lending), `LoanAnswered` (the answer reaches the handler: in-flight entry
deleted, event written). `LoanRefused` stands for every refusal in between. With `Lossy`, `CallLost` (abort, network) and
`Restart` end calls at any point, while what was sent stays sent. A second request for the same receivable joins the running
one; it writes nothing, so it is not an action. Lending (`Inserts`, `Decides`) is external, modelled from how
`lending-bridge.ts` and `lending-mock.ts` use it: an application is inserted Open, rejected, or approved together with
a disbursed loan, which closes. `lost` is history: the applications whose call ended without an answer.

### SignedInstruments and the code

`store` is what the JSON document says of drafts and contracts, as one record, because a waiting handler holds a copy of all of
it: `calls[c].base` is the snapshot it took, `calls[c].work` the same after its changes. `signWechsel` and `signAssignment` with
AES or QES are split at the request to Skribble (`StartSigning`, `RequestCreated`, `RowAdded`), `syncSignatures` and
`syncAssignmentSignatures` at each status query (`StartSync`, one `SyncAnswered` per PENDING row, `SyncWritten`).
`CallFails` ends a call anywhere (network, refusal, restart): the request at Skribble stays, its row is never written.

`sponsumService` (`service.ts:3159`), which the routes use, is built on `secureStore`, whose `replace()` compares the digest of the current document with that of
the snapshot: `Replaced(base, next)`. `others` counts all writes that leave signatures alone; one of them is enough to make
a waiting handler fail. Content hashes never change after creation and are left out; so are the receivable and the
trade behind a draft. `assignWechsel` writes twice in one turn; `AssignCut` is the crash in between.

### ScopedStore and the code

The other modules act on the whole document; `ScopedStore` is the layer below that makes this right for several users and
tenants. A row is its access record (`_suite_access`), the row it hangs on and a text for everything else. Collections are grouped
by how deep they hang: `Root` (assets, needs, profiles, KYC), `Link` (rows with a `receivable_id` or `need_id`), `Leaf` (bids,
disclosures, instructions; observations hang one deeper and are treated in the same way). What a handler makes of the rows it is
shown is the parameter `Edited`, so that the proofs hold for every handler; no handler takes a row out. `mode` is what
`requireSponsumScope` sets (GET read, POST write); `"both"` is `inScope` without a mode, as tests use it, where rows are
shown that may not be written.

`Begins`, `Writes` and `Ends` are a request that awaits something between `snapshot()` and `replace()`, `HandledAtOnce` one that does
not. `Stored` writes memory, then the file or (the write fails) not; `Restart` reads the file, or nothing if that fails.

An administrator sees every row of the tenant, so leaving the user out in the other modules is leaving the least
restricted one in: KYC rows, for example, are shown to their creator and to administrators only.

### DisputeFiles and the code

`assets` keeps what a dispute file reads of a receivable, `dispute_workbenches` the rows in the order in which they were added, since
`listDisputes` and the first match of `disputeDossier` depend on it. A request names its case by a key (`Key`): an invoice, a
receivable, a Resolve case a person typed in, or the id that the code makes up. `generateDisputeForm` is split where it awaits OpenAI, which
answers, fails or stays silent until its limit (`OpenAiAnswers`, `OpenAiFails`); the letter is then put into the file as it is by now.

Whom a letter names is decided before that: `enrichDisputeContext` lists the parties (debtors, holders and creditors of all receivables, for a
signed-in user from the store alone) and `matchParty` looks debtor, holder and creditor up in the list. Its four searches come down to two:
a party whose id or name is what is looked for (`CalledSo`: a name that is somebody's id), else one whose name begins with something the id
contains (`Fits`), else the id itself. Of several hits the code takes the first in a list; the model takes any. `NameAssumption` excludes that a
name is the id of a party that is called otherwise: `partyDisplayName` makes names of ids, so only a made-up party could be named so. `Sold` is
the desk's sale as one external step.

### LegalDeadlines and the code

`at` is the loop that runs, `day`, `counted` and `turn` its variables; `CountDay`, `ShiftEnd`, `EffectiveDay`, `ExtendEnd`, `LeaveHoliday`
and `ThirdDay` are one turn of each, with the guards that end them (1000, 60 and 16 turns). `NextDelivery` takes the procedure up for the
next day of delivery, so that `last` can compare two neighbouring days. A day is its number since 1970; `DayOf` stands for `Date.UTC`.
Deadlines of no days and the regime `zpo-summary` are not enumerated: `assessJurisdiction` uses neither.

### ProtocolEvents and the code

An event is what it is about, who wrote it and the position of the event whose hash it took (hashes are injective). `Sees` is
`inScope` in write mode, of which `ScopedStore` has the details. Handlers that append within one turn differ only in the number of
events: `Appends` stands for them, `createReceivable` appends two about a new row. `syncAssignmentSignatures` waits for Skribble with its
snapshot and is refused if anything was written meanwhile. A Lombard request is `requestLombard` (id drawn, prices asked),
`LombardSent`, `Inserts` at Lending, and `LombardAnswered`; `CallLost` and `Restart` end it anywhere. `lost` is history.

### DeskPages and the code

A row is the set of facts that the pages tell apart about it; what the API does with it is the other modules' subject, so `rows` changes
in any way (`Posted`, `PostFails`, `OthersAct`). The operators named `render...` say which acts a page offers for those facts.
A running call of `route()`, `act()` or the export is a task; `at` is the await it stands at. `Click`, `DialogConfirmed`, `Posted` or
`PostFails`, `LoadAnswered`, `LoadCompleted` and `FetchAnswered` are one act from click to redrawn page. `loadWorkspace` sets the workspace with
its first answer and goes on to two more, so other calls see it one step earlier (`"completing"`). `route()` does not await the page
of Lombard loans: an act that leads there is over (`busy` free) before the page is drawn, by a task that runs on alone.

The venue card is on the page of a dispute: `page.venue` is the dispute it shows, `page.saves` the disputes its button posts to, one per listener.
`assessing` and `refreshing` are the card's two lookups, which run outside `act()` and write into whatever card is there when they are answered.

### ClaimMarket and the code

`claims`, `listings`, `disputes` and `log` are the tables; `attached` says which of escrow, custody and collateral rows a claim has.
`fund`, `transfer` and `settle` read the claim, check the transition and write in one transaction; at PostgreSQL's default isolation what
was read may be stale at the commit, so reading (`ReadsClaim`) and committing are two steps. A purchase is three queries without a
transaction. Handlers whose writes do not depend on a status they read are one step each. Each router is an operator of its name.

### WebSignIn and the code

`users` is the table, `session` the one entry of `localStorage`, `tabs[t].user` what the bar of a tab shows. A fetch goes from `"sent"` through the
API (`LoginHandled`; `RegisterChecked` and `RegisterCreated`, since the service reads before it creates) to `"answered"`, and is then taken up by the form
that sent it (`SignedIn`, `AnswerShown`), on whatever page its tab is by now. `DemoRegistered` is the login form's own registration of the demo user after a 401.
`Told` is the pair of events that a change of the session raises: the tab's own at once, the browser's `storage` event in the others later
(`StorageHeard`). A token is its user and whether it is still valid. A fetch that failed or was aborted may still reach the API (`heard`).

### ClaimWizard and the code

One action per input, `nextStep`, `previousStep` and `submitClaim` with the guards of `validateStep`; `ClaimCreated` and `ClaimNotCreated` are the API with
`createClaimSchema`. `instrumentValues` keeps the fields of all nine instruments, as the code's state does. A text is its length with and without blanks around
it, since the wizard trims and the API does not. The wizard learns of the session by events (`refreshAuth`), reads it when it posts, and other tabs change it.

### InstrumentForms and the code

A template is a record of sets: which fields are required, shown in which mode, to which reader, after which answer; its rules are tuples by kind.
`isFieldVisible`, `checkRule`, `runCrossFieldRule` and `validateTemplateData` are the functions of that name, `visibilityContext` is the renderer's.
`handleFieldChange` removes the mark of its own field only, and a change of mode or reader removes none.

## 3. Runs

| Run | States | Shows |
|---|---|---|
| `desk` | 448 092 | one linked receivable, two offers, two bids, two trades, partial amounts, two administrators: types, `SettlementAgreement`, `OneReportDecides`, `StatusBacked`, `ContractBacksAssignment`, `OfferLockAgreement`, `SoldOnce`, `OwnershipFollowsPayment`, `SaleXorFinancing`, `SettledForGood`, `DisputeBlocksDeals`, and the refinement `ImplementsSale` |
| `desk_terms` | 557 532 | two bids at two prices: `TradeTerms`, and `PendingSettles` under fairness |
| `lending` | 449 484 | two needs contend for a receivable, with lost answers and restarts: `OneNeedPerReceivable`, `OneApplication`, `ImplementsSale`, and `HandoverEnds` under fairness |
| `sign_documents` | 3 469 894 | a draft, a SOLA and a contract, one call at a time awaiting Skribble: `DrawerFirst`, `AcceptanceSigned`, `QualityHonoured`, `SignedForGood`, `StatusForward` |
| `store_shared` | 85 628 | three users of two tenants, one administrator, a row from before rows had owners: `Rooted`, `ImplementsRecords` |
| `workbench` | 829 266 | files: a file worked on while a letter is drafted and the receivable sold: `LettersNameTheirParties`, `FileOnlyGrows`, and `LettersArrive` under fairness; deadlines: every delivery from 2026 to 2040 in each procedure: `EndsAsTheLawSays`, `LaterServiceLaterEnd` |
| `protocol` | 171 094 | administrator, member and a user of another tenant, two Lombard requests: `ForksOnlyBehindTheView`, `EventsStay`, `LombardTogether` |
| `browser_pages` | 837 852 | a receivable with its offer and a dispute in one tab: `OneActAtATime`, and `BusyEnds` under fairness; the wizard with two users: `ClaimIsComplete`; the form with each template: `RefusalIsShown`, `AcceptedSaysWhatItMust` |
| `earlier_product` | 1 694 456 | two users, two running calls, one claim: `LogTellsStatus`; two tabs, two fetches, two addresses: `NavShowsTheUser` |
| `lending_intro`, `lending_withdraw`, `desk_venue` | | counterexamples, see section 6 |

Every property has a mutant: a definition of the module named like the mapped one with a suffix (`Shut_NotInStandstill`), a plausible bug with which
TLC finds the property violated.

**Bounds.** Receivables interact only through `capital_needs` and `kyc`, so the desk's runs have one; the proofs are for
every set. Two offers and two trades are needed for a sale after a withdrawn offer and for a second sale to be refused;
two bids for lapsing and countering; `Nominal` 2 distinguishes partial and full disputes; one provider event per report,
beside the manual one of each instruction, gives the race of the two channels, and a repeated event is a replay. Two calls, two
needs and two applications are the least that can race for one receivable. Ids
are symmetric and used up, which bounds every run; deadlock is checked, since disputes, verification or KYC can always go on.
Documents meet only in the store-wide conflict check: one of each form and one contract, one request, and one waiting call
among simple signatures and other writes (`MaxWrites` 1) give every conflict. `AES_MINIMAL` honours the AES asked for, `DEMO` does not.
That run does not check deadlock: once everybody has signed, nothing is left to do.

`store_shared` has two roots, one link, one leaf and one waiting request. `MCEdited` lets a handler change a text, tamper with an owner,
hang a row elsewhere, and add one or two rows. `Near` stops exploring where the file or a captured document differs from
memory in more than one row; one row is enough for every refusal and every loss.

`workbench` has one receivable, one letter, one link and one export: files do not read each other. Its buyer's id begins with the debtor's name
(`MCFits`), so that a letter whose holder is missing from the list would go out in the debtor's name. Its deadlines have fifteen years, with
Easter in March and at the end of April, leap years and every feast on each weekday; `Horizon` leaves room for the longest deadline. That part ends
with its calendar (`CalendarEnds`), so deadlock is checked for the files. `protocol` has six events (`MaxEvents`), enough for two receivables of two
writers and one fork in between.

`browser_pages` has for the desk two rows and two tasks, one act and whatever routing or export meets it; a third call of `route()` waits until one
ends. The wizard chooses between two of the nine instruments, one with a date of issue and one without; lengths of texts lie on both sides of the limits of title
and currency, and one user has a name of one letter, while debtors are never typed too short. The form edits the fields that the rules name
(`MCEdited`); the other required ones were filled in before. `MCTyped` has one value on each side of each limit; numbers and days are places on
a scale (`Amounts`, `Days`). Its readers are `internal` and `marketplace`: no template hides a field from the marketplace that a counterparty sees, so
the two are treated alike. Folded sections count as on the form; clauses are left out; the template of a form does not change.

In `earlier_product`, `claims` has three log entries (`MaxLog`): a creation and two handlers that race; `Given` is ACTIVE: a client that sends
another status is logged in the same way. Its sign-in has two tabs and two fetches, the least that can cross; passwords are long enough for the API, one
address is the demo's and is typed in capitals. A fetch has no timeout there, so nothing is said about whether it ends.

**Fairness.** `PendingSettles` assumes only that the provider keeps delivering the report of an exact payment until it is
answered (weak fairness of that one report; an external assumption, usual for payment webhooks). No seller, buyer or
administrator is assumed to act. `HandoverEnds` assumes that every await ends: `AbortSignal.timeout(10_000)` in
`lending-bridge.ts` gives each request ten seconds. `LettersArrive` assumes that the wait for
OpenAI ends, which `form-ai.ts` limits to 45 s. `BusyEnds` assumes that each request of the desk's tab is answered or fails: `api()` aborts after
55 s (D:424). That the user confirms a dialog is not assumed.

## 4. Proofs

Every safety property of every passing run is proved for all values of the constants, except those of the three modules of W. Three more invariants are
proved and not repeated by a run: `ApplicationsRecorded` (`CapitalLending`), `TypeOK` of `ScopedStore` and `DisputedOnACase` (`ClaimMarket`). The theorems hold for `Spec`, without
fairness. Each rests on the `ASSUME`s of its module, which TLC evaluates in the runs. They are facts about ids and bounds (creditors
are parties, `None` is no id, no status and no party, amounts and limits are naturals), with two exceptions: `CalendarServes` in
`LegalDeadlines` says how far apart the open days of a calendar can be, and section 5 tells for which years it was evaluated; `NameAssumption` in `DisputeFiles`
says that nobody is called what is the id of somebody with another name.
A theorem `Spec => []Inv` has three parts: the
initial state, one lemma per action (or class of actions), and the temporal step.

**`ReceivableDesk_proofs`** proves its invariants in stages, each with the help of the one before:

1. **Rows**: `TypeOK`, `RowsComplete` (a row is ABSENT or names things that exist) and `Papers` (which states instruction and
   trade can be in together). Gives `TypeCorrect`.
2. **Locks**: `OfferLockAgreement` and `SoldOnce`. Both are inductive together with Rows: a fresh offer or trade needs an unlocked
   receivable, and only the lock's own offer can be LIVE. Gives `OffersAgree` and `NeverSoldTwice`.
3. **Money**: `SettlementAgreement`, `OwnershipFollowsPayment`, `PledgedFree` (a reserved receivable is not locked), and
   `ReservedBacksLock` (an offered or traded receivable has a RESERVED row to activate), without which the registry part of
   ownership is not inductive. Gives `SettlementsAgree`, `OwnershipIsPaidFor`, `NeverSoldAndFinanced`.
4. On these three stand, side by side: `StatusIsBacked` (inductive with Rows alone), `FirstReportDecides` (an instruction's amount never changes,
   so that what was an exact report stays one), `AssignedByContract` (with `EffectiveConfirmed`: a contract is effective only after the exact
   manual report) and `TradedAsBid` (with `AcceptedTraded`: a bid is accepted together with its offer, hence no second bid of an offer can be).

Between 2 and 3 every step is classified once (`EveryStepMoves`): it is quiet for locks and money, or the opening of a
dispute, a financing step, an offer, an accepted bid, an assignment or a report. Stage 3, `SettlementIsFinal` (the action property
`SettledForGood`), `DisputesBlockDeals` and the refinement `DeskImplementsSale` (each class maps to one step of the abstract sale or a
stutter) go through that classification instead of all handlers; `PapersMove` is its counterpart for instructions, reports and contracts.

**`CapitalLending_proofs`** (`ReservedByOne`, `AppliedOnce`, `AllRecorded`, `LendingImplementsSale`). "At most one" is not inductive while it
counts what has arrived only: an application on its way arrives later. `OneLive` therefore counts those that are on their way too, `SentAwaited` says
that one on its way is waited for by a call, and `Handovers` that one call at most runs for a receivable and has sent at most one application, for
its own need; so whoever is about to send knows that nothing is on its way, except what was lost. The refinement maps a CONFIRMED need of a
free receivable to the stage "pledged"; with the desk's own refinement both halves keep the one promise of `ReceivableSale`.

**`SignedInstruments_proofs`** proves `TypeOK`, `DrawerFirst`, `AcceptanceSigned`, `QualityHonoured`, `SignedForGood` and
`StatusForward`. The store alone is not inductive, because a call writes a copy that it made earlier. `IInv` therefore says the same of copies as of
the store: what holds in the store (`Sound`, `Backed`) holds in each waiting call's `work`, and `work` extends `base` (no signature lost, no status
set back). `Replaced` does the rest: when a copy is written, its `base` is the store. One lemma says what `Completed` does to a document;
a simple signature and an answered sync both use it.

**`ScopedStore_proofs`** proves `TypeOK`, `Rooted` and the refinement `ImplementsRecords` for any users, tenants, rows, requests and any
`Edited`. The invariant is `TypeOK` and `Rooted` of memory and file. `WriteChanges` says what an accepted write does to the document, `ScopeGrows`
carries rights from the stamped rows to the merged document, and `WriteKeepsRooted` needs `Rooted` for rows that hang on a row that changes.

**`ProtocolEvents_proofs`** (`ForkedOutOfSight`, `LombardStandsTogether`, `NoEventIsLost`). An event is chained to the last one its author sees;
`Backwards` (an event is about something recorded and follows an earlier position) makes the last visible position greater than any predecessor that
an earlier event took, so that a fork passes over something out of sight. `RunningCalls` says that no two Lombard calls share a request, that the need
of a running one is not there yet, and that a sync was shown its receivable.

**`DisputeWorkbench_proofs`** has two parts. The files (`WhatIsFiledStays`, `LettersAreWellNamed`): `PuttingIn` says once what storing a row does to the sequence of files, given
that no receivable has two (`OneFileEach`): the row grows, the others stay. That letters are well named follows for the one that is
being drafted from the list (`localPartiesFromState`), in which each of its three parties stands, so that the search never comes to the beginnings of names; the
invariant says it of running calls as of filed letters.

The deadlines (`EndsOnTheLawsDay`, `LaterServedEndsLater`; `DeadlineSpec` is the specification): `DeadlineInv` says of each loop what its
variables have to do with the calendar, for example that `counted` is the number of days since the delivery that do not stand still, or that every day
since the shift began was shut. No arithmetic of Easter is needed, since the loops meet the calendar as sets of days; what they do need of it is
`CalendarServes`: among any 70 days 30 that do not stand still, one open day among any 51, one working day among any 17. With less, a guard
(60 or 16 turns) could end a loop too early. TLC evaluates the assumption for the run's period, and did so for all years from 1972 to 2098.
`StandingInOrder` compares two deliveries: a later one cannot have its last running day earlier.

**`DeskPages_proofs`** (`OneActRuns`). That one act runs needs to know why a confirmed dialog does not look at `busy` again:
while a dialog is open whose act has passed the test already, no act can start (`OneAct`). `Fetching` says that a dossier that is fetched is somebody's.

**`ClaimMarket_proofs`** (`LogTellsTheStatus`, `DisputedByADispute`). `OneMore` says what one more entry does to what a log tells; `Referring` that
listings, disputes and running calls name claims that exist, and that the lifecycle never writes DISPUTED. The second theorem has the
hypothesis that clients do not send DISPUTED themselves (PATCH accepts any status).

**What the attempts showed.** Two definitions had to be put right. `ContractBacksAssignment` was a CASE whose second arm was not excluded by the first,
which TLA+ leaves open although TLC takes the first arm. `ClaimMarket` did not say that `None` (null) differs from every status, without which an
entry that tells nothing could tell one. Everything else was true as it stood, but almost nothing was inductive alone; the parts named
above are what was missing.

## 5. Only model-checked

* The liveness properties `PendingSettles`, `HandoverEnds`, `LettersArrive` and `BusyEnds`: fairness is out of the prover's reach.
* The properties of `WebSignIn`, `ClaimWizard` and `InstrumentForms`. The last one is about eight fixed templates, which TLC goes through one by one.
* That the calendar of the code is the Gregorian one with its Easter (`CalendarAssumption` of `MCDisputeWorkbench`) and that it serves
  (`CalendarServes`): TLC evaluates both; the proofs assume the second.
* That the deadline loops end: the run visits every one of them to its end.

## 6. Where the code disagrees with what the repository says

1. **`lending_intro`**: introducing a CONFIRMED need to another provider sets it to INTRODUCED and frees the receivable while its
   loan application is open (`service.ts:2489`; compare `docs/lending.md:78`).
2. **`lending_withdraw`**: a withdrawal during the handover does not ask Lending, because the event that makes it ask is written
   only after Lending has answered (`service.ts:2508`; compare the comment at 2503).
3. **`desk_venue`**: a venue that is answered after the page changed to another dispute fills that dispute's card and binds its button to the
   earlier one, so that a click saves to a dispute that is not on the screen (D:2858; compare `docs/disputes-workbench.md:12` and `:43`).

**Seen while modelling.** The first eight have a property in their module that says what one would expect and that TLC refutes; no run checks them.

* `OfferedOnlyAttested` (`ReceivableDesk`): a receivable that was never verified is recorded, disputed and "restored": `closeDispute`
  moves it to ACCEPTED, and it can be offered (`service.ts:637`; compare `route.ts:351`).
* `RoleSignedOnce` (`SignedInstruments`): while a signature of a role is pending at Skribble the same role can sign again, and the sync then
  completes the pending one as well (`service.ts:3461` looks at completed rows only; compare "Diese Partei hat bereits gezeichnet.", 1986).
* `OneApplication` without the exception for `lost` (`CapitalLending`): a handover repeated after a lost answer can create a second application
  (`lending-bridge.ts:401`; compare `docs/lending.md:14`).
* `HolderSigns` (`DisputeFiles`): a receivable that is sold while OpenAI is awaited gets a letter in the seller's name (`service.ts:1436`; compare
  "Holder gewinnt gegen Origin-Creditor", `docs/disputes-workbench.md:58`).
* `EnforcementIsDecided` (`InstrumentForms`): a Schuldschein with the notarial option on is accepted without the decision on enforcement, because
  the rule is skipped while its field is hidden, and it is hidden outside the expert mode (W`/src/lib/instruments/validation.ts:108`; compare
  `schuldschein.template.ts:58`).
* `RowOpensItsDossier` (`DisputeFiles`): if two receivables were given the same Resolve case, the second one's row in the list opens the dossier of the
  first (`service.ts:1265-1274`, D:953-955; compare `docs/disputes-workbench.md`, "Dossier (Zeile in der Liste)").
* `LifecycleRespected` (`ClaimMarket`): two lifecycle calls that read the same status both commit, so that a claim moves against the table
  (`transaction-lifecycle/service.ts:147`).
* A chain without forks (`ForksOnlyBehindTheView` says where there are forks): members of one tenant, and tenants, fork the chain behind each other's views, while
  the desk speaks of "Signierte, verkettete Ereignisse" (D:3214).

Others: a Lombard need is withdrawn without asking Lending and without an event; a Lombard request repeated after a lost answer has a fresh id and makes a
second application; the collateral recorded for it is neither merged nor trimmed like what is pledged (`service.ts:2706`). An application that
Lending leaves Approved after repayment counts as open (`lending-bridge.ts:323`). An advanced signature delivered as AES_MINIMAL is recorded as QES
(`service.ts:2079`), and one request refused for its quality makes the whole sync throw (2077). A change whose file write failed stays in memory
(`store.ts:343`). `money()` turns text that is no number into "NaN" (`service.ts:3564`). `api.integration.ts` still calls routes of the earlier
product, which `app.ts` does not mount. Receivables of one invoice can be handed over to Lending twice, and an offer is checked for being overdue before ERPNext's due date
is known.

In W: a login answered late restores a session after a logout and pulls its tab to the dashboard; of two concurrent demo sign-ins one is answered 409 or 500; an expired
session stays stored and shown. The wizard stays on step 4 after success, so a second press posts a second claim; a due date may precede the date of issue; a user with a name
of one letter can never create a claim, and is told to check API and login. "Validierung erfolgreich." stays when values change. The justification of
a price above the nominal is marked also where it is not shown; a second mark is on the price then. `internalOnlyFields` and `ndaProtectedFields` of the templates are read by
nobody.

## 7. Plan

All modules of the plan are written. What is left:

1. Theorems about `WebSignIn` and `ClaimWizard`, whose properties are the ones that do not depend on fixed tables.
2. Type correctness of the modules whose `TypeOK` is part of an invariant but not stated as a theorem of its own.
3. The properties under "Seen while modelling" whose expected form holds under a named condition, stated and proved with that condition.

## 8. Not modelled, and why

The pages of W over mock data, clause selection, the investment workbench, the structured claim wizard that no page imports, and the buttons that
publish and invest, which write nothing in the browser; password hashing, the signature of tokens and HTTP (in the desk's modules who may do what
enters as `User` and `Admin`); texts, documents, content hashes, PDF and ZIP generation; the demonstration book of the seed; Skribble's login token and
expiry of requests; that a pending signature is ever synchronised (no code polls: a user asks for it); the sum behind the verification score, accounting
proposals, risk classes, policy texts, disclosures as filters and buyer profiles, which decide neither money nor ownership; the Fulfilment box and the guess
of canton and venue, which only add text to a dossier; expiry times of offers, bids and instructions, which the code stores and never reads;
`renderSettlementDossier` of the desk script, which nothing calls.

`app.ts` mounts neither the routers of `ClaimMarket` nor those of `WebSignIn` and `POST /claims` at present; `docs/api.md:7` calls them the unused claims product.
