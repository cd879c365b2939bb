---- MODULE ClaimWizard ----
(***************************************************************************)
(* The wizard in which a claim is entered in four steps and posted         *)
(* (apps/web, SimpleClaimWizard.tsx), and what POST /claims of apps/api    *)
(* takes (packages/shared, schemas.ts).                                    *)
(*                                                                         *)
(* Each of nine instruments asks for fields of its own.  All fields are    *)
(* kept, also those of instruments that were chosen before, and the user   *)
(* may go back and choose again.  Wizard and API check on their own: the   *)
(* wizard what its steps ask for, the API the body it is sent.  Of a text  *)
(* the model has its length, with and without the blanks around it.        *)
(***************************************************************************)
EXTENDS Integers, FiniteSets, TLC

CONSTANTS
  Instruments,  \* the instruments that are chosen from
  TypedTitle, TypedCurrency, TypedAmount, TypedField,
                \* what is typed into the fields, and ...
  TypedDate,    \* ... into those of dates
  Securities,   \* which of collateral, guarantor and pledge may be given
  Person,       \* users who sign in ...
  fullName,     \* ... and their names
  Nothing

Text == [raw : Nat, trimmed : Nat]
NoText == [raw |-> 0, trimmed |-> 0]
Long(n) == [raw |-> n, trimmed |-> n]

ASSUME WizardAssumption ==
  /\ TypedTitle \cup TypedCurrency \cup TypedField \cup TypedDate \subseteq Text
  /\ fullName \in [Person -> Text] /\ Nothing \notin Person
  /\ TypedAmount \subseteq Int
  /\ Securities \subseteq SUBSET {"collateral", "guarantor", "pledge"}

VARIABLES
  step,
  basics,           \* title, description, amount, currency
  selectedInstrumentKey,
  instrumentValues, \* of all fields of all instruments
  security,         \* which of collateral, guarantor and pledge are given
  storedSession,    \* who is signed in: other tabs change it at any time
  isAuthenticated,  \* what the wizard has been told of that
  call,             \* the request that runs (isSubmitting) or Nothing
  claim             \* the claim the API created last

wizardVars == <<step, basics, selectedInstrumentKey, instrumentValues, security,
                storedSession, isAuthenticated, call, claim>>

-----------------------------------------------------------------------------

Config(type, model, debtor, due, issue, others) ==
  [instrumentType |-> type, settlementModel |-> model, debtor |-> debtor, due |-> due,
   issue |-> issue, fields |-> {debtor, due} \cup ((others \cup {issue}) \ {""})]

(* The instruments; every field of each is required.                       *)
ShortTermConfigs ==
  "invoice_receivable" :> Config("INVOICE_SALE", "SINGLE_MATURITY",
     "invoice_debtor", "invoice_due_date", "invoice_date", {"invoice_supporting_document"}) @@
  "bill_of_exchange" :> Config("BILL_OF_EXCHANGE", "SINGLE_MATURITY",
     "bill_drawee", "bill_maturity_date", "bill_issue_date", {"bill_drawer", "bill_payee"}) @@
  "promissory_note" :> Config("PROMISSORY_NOTE", "SINGLE_MATURITY",
     "note_issuer", "note_due_date", "", {"note_beneficiary", "note_interest_rate"}) @@
  "tax_refund_claim" :> Config("ASSIGNABLE_RECEIVABLE", "SINGLE_MATURITY",
     "tax_authority", "tax_expected_payment_date", "", {"tax_year", "tax_expected_refund_amount"}) @@
  "future_payment_claim" :> Config("ASSIGNABLE_RECEIVABLE", "SINGLE_MATURITY",
     "future_payment_source", "future_expected_date", "", {"future_supporting_documentation"})

LongTermConfigs ==
  "land_backed_debt" :> Config("ANNUITY_GUELT", "ANNUITY",
     "guelt_land_owner", "guelt_next_payment_date", "",
     {"guelt_property_description", "guelt_land_registry_reference", "guelt_collateral_value",
      "guelt_priority_rank"}) @@
  "profit_participation" :> Config("VENTURE_FINANCING", "PROFIT_SHARE",
     "kommenda_operating_partner", "kommenda_settlement_date", "",
     {"kommenda_venture_description", "kommenda_expected_profit_share",
      "kommenda_investment_duration", "kommenda_risk_disclosure"}) @@
  "trade_finance_participation" :> Config("COLLATERALIZED_BORROWING", "SINGLE_MATURITY",
     "trade_finance_importer_debtor", "trade_finance_expected_payment_date", "",
     {"trade_finance_underlying_transaction", "trade_finance_goods_description"}) @@
  "other_claim" :> Config("CUSTOM_PRIVATE_LAW", "CONDITIONAL",
     "other_debtor", "other_due_date", "", {"other_custom_notes"})

INSTRUMENT_CONFIGS == ShortTermConfigs @@ LongTermConfigs

AllFields == UNION {INSTRUMENT_CONFIGS[k].fields : k \in DOMAIN INSTRUMENT_CONFIGS}
DateIds == {INSTRUMENT_CONFIGS[k].due : k \in DOMAIN INSTRUMENT_CONFIGS}
           \cup ({INSTRUMENT_CONFIGS[k].issue : k \in DOMAIN INSTRUMENT_CONFIGS} \ {""})

selectedInstrument == INSTRUMENT_CONFIGS[selectedInstrumentKey]

(* A field that is left empty, or has blanks only.                         *)
Blank(value) == value.trimmed = 0

(* deriveSecurityLevel *)
securityLevel ==
  CASE Cardinality(security) >= 2 -> "secured"
    [] Cardinality(security) = 1  -> "partially secured"
    [] OTHER                      -> "unsecured"

-----------------------------------------------------------------------------
(* The steps.  Inputs are there only on their own step. *)

TitleTyped(v) == step = 1 /\ basics' = [basics EXCEPT !.title = v]
DescriptionTyped(v) == step = 1 /\ basics' = [basics EXCEPT !.description = v]
AmountTyped(v) == step = 1 /\ basics' = [basics EXCEPT !.amount = v]
CurrencyTyped(v) == step = 1 /\ basics' = [basics EXCEPT !.currency = v]

BasicsTyped ==
  /\ \/ \E v \in TypedTitle : TitleTyped(v) \/ DescriptionTyped(v)
     \/ \E v \in TypedAmount : AmountTyped(v)
     \/ \E v \in TypedCurrency : CurrencyTyped(v)
  /\ UNCHANGED <<step, selectedInstrumentKey, instrumentValues, security, storedSession,
                 isAuthenticated, call, claim>>

InstrumentChosen(k) ==
  /\ step = 2
  /\ selectedInstrumentKey' = k
  /\ UNCHANGED <<step, basics, instrumentValues, security, storedSession, isAuthenticated, call, claim>>

setInstrumentFieldValue(f, v) ==
  /\ step = 2 /\ f \in selectedInstrument.fields
  /\ v \in IF f \in DateIds THEN TypedDate \cup {NoText} ELSE TypedField
  /\ instrumentValues' = [instrumentValues EXCEPT ![f] = v]
  /\ UNCHANGED <<step, basics, selectedInstrumentKey, security, storedSession, isAuthenticated, call, claim>>

SecurityTyped(s) ==
  /\ step = 3
  /\ security' = s
  /\ UNCHANGED <<step, basics, selectedInstrumentKey, instrumentValues, storedSession,
                 isAuthenticated, call, claim>>

\* Mutant: only what is posted by name is asked for.
validateStep_PostedOnly(n) ==
  /\ n = 1 => /\ ~Blank(basics.title) /\ ~Blank(basics.description) /\ basics.amount > 0
              /\ basics.currency.trimmed = 3
  /\ n = 2 => \A f \in {selectedInstrument.debtor, selectedInstrument.due} : ~Blank(instrumentValues[f])

validateStep(n) ==
  /\ n = 1 => /\ ~Blank(basics.title) /\ ~Blank(basics.description) /\ basics.amount > 0
              /\ basics.currency.trimmed = 3
  /\ n = 2 => \A f \in selectedInstrument.fields : ~Blank(instrumentValues[f])

nextStep ==
  /\ step < 4 /\ call = Nothing
  /\ validateStep(step)
  /\ step' = step + 1
  /\ UNCHANGED <<basics, selectedInstrumentKey, instrumentValues, security, storedSession,
                 isAuthenticated, call, claim>>

previousStep ==
  /\ step > 1 /\ call = Nothing
  /\ step' = step - 1
  /\ UNCHANGED <<basics, selectedInstrumentKey, instrumentValues, security, storedSession,
                 isAuthenticated, call, claim>>

-----------------------------------------------------------------------------
(* Posting. *)

(* What is posted; the summary has the values of the instrument's fields.  *)
Body ==
  LET value(f) == IF f = "" THEN NoText ELSE instrumentValues[f]
      debtor == value(selectedInstrument.debtor)
  IN  [title |-> basics.title, amount |-> basics.amount, currency |-> basics.currency,
       instrumentType |-> selectedInstrument.instrumentType,
       settlementModel |-> selectedInstrument.settlementModel,
       issueDate |-> IF value(selectedInstrument.issue) = NoText THEN Long(10) \* today
                     ELSE value(selectedInstrument.issue),
       maturityDate |-> value(selectedInstrument.due),
       debtor |-> IF debtor = NoText THEN Long(10) ELSE debtor, \* "Debtor TBD"
       issuer |-> fullName[storedSession],
       details |-> [f \in selectedInstrument.fields |-> instrumentValues[f]],
       securityLevel |-> securityLevel]

(* Without a session or a due date the wizard only says so.                *)
submitClaim ==
  /\ step = 4 /\ isAuthenticated /\ call = Nothing
  /\ storedSession # Nothing
  /\ instrumentValues[selectedInstrument.due] # NoText
  /\ call' = Body
  /\ UNCHANGED <<step, basics, selectedInstrumentKey, instrumentValues, security, storedSession,
                 isAuthenticated, claim>>

(* partySchema and createClaimSchema; the other texts are constant.        *)
partySchema(displayName) == displayName.raw >= 2
createClaimSchema(body) ==
  /\ body.title.raw >= 3 /\ body.amount > 0 /\ body.currency.raw = 3
  /\ partySchema(body.issuer) /\ partySchema(body.debtor)

(* The claim is created, whether or not the answer arrives.                *)
ClaimCreated ==
  /\ call # Nothing /\ createClaimSchema(call)
  /\ claim' = call /\ call' = Nothing
  /\ UNCHANGED <<step, basics, selectedInstrumentKey, instrumentValues, security, storedSession, isAuthenticated>>

(* The schema or requireAuth refuses it, or the request is lost.           *)
ClaimNotCreated ==
  /\ call # Nothing
  /\ call' = Nothing
  /\ UNCHANGED <<step, basics, selectedInstrumentKey, instrumentValues, security, storedSession,
                 isAuthenticated, claim>>

(* Signing in or out in another tab, and the event that tells of it.       *)
SessionChanges(u) ==
  /\ storedSession' = u
  /\ UNCHANGED <<step, basics, selectedInstrumentKey, instrumentValues, security,
                 isAuthenticated, call, claim>>

refreshAuth ==
  /\ isAuthenticated' = (storedSession # Nothing)
  /\ UNCHANGED <<step, basics, selectedInstrumentKey, instrumentValues, security, storedSession, call, claim>>

-----------------------------------------------------------------------------

WizardInit ==
  /\ step = 1
  /\ basics = [title |-> Long(13), description |-> Long(39), amount |-> 12000, currency |-> Long(3)]
  /\ selectedInstrumentKey = "invoice_receivable"
  /\ instrumentValues = [f \in AllFields |-> NoText]
  /\ security = {}
  /\ storedSession \in Person \cup {Nothing}
  /\ isAuthenticated = (storedSession # Nothing)
  /\ call = Nothing /\ claim = Nothing

WizardNext ==
  \/ BasicsTyped
  \/ \E k \in Instruments : InstrumentChosen(k)
  \/ \E f \in AllFields, v \in TypedField \cup TypedDate \cup {NoText} : setInstrumentFieldValue(f, v)
  \/ \E s \in Securities : SecurityTyped(s)
  \/ nextStep \/ previousStep \/ submitClaim \/ ClaimCreated \/ ClaimNotCreated
  \/ \E u \in Person \cup {Nothing} : SessionChanges(u)
  \/ refreshAuth

WizardSpec == WizardInit /\ [][WizardNext]_wizardVars

-----------------------------------------------------------------------------

(* A claim that exists is of one instrument through and through: its type, *)
(* settlement model, debtor and dates are those of one instrument, with    *)
(* all that this one asks for, in whatever order steps were gone through   *)
(* and instruments chosen.                                                 *)
ClaimIsComplete ==
  claim # Nothing =>
    \E k \in DOMAIN INSTRUMENT_CONFIGS :
      LET config == INSTRUMENT_CONFIGS[k]
      IN  /\ claim.instrumentType = config.instrumentType
          /\ claim.settlementModel = config.settlementModel
          /\ DOMAIN claim.details = config.fields
          /\ \A f \in config.fields : ~Blank(claim.details[f])
          /\ claim.debtor = claim.details[config.debtor]
          /\ claim.maturityDate = claim.details[config.due]
          /\ config.issue # "" => claim.issueDate = claim.details[config.issue]
          /\ claim.amount > 0 /\ claim.currency = Long(3) /\ ~Blank(claim.title)

====
