---- MODULE MCBrowserPages ----
(* What runs in a browser: a tab of the desk, the wizard that enters a claim,  *)
(* or an instrument form. They share no state, so that one of them runs in a   *)
(* behaviour.                                                                  *)
EXTENDS DeskPages, ClaimWizard, InstrumentForms

CONSTANTS d1, d2, ines, o

(* The desk: a receivable with an offer, and a dispute beside the list of      *)
(* Lombard loans.                                                              *)
MCViews == d1 :> {"receivable", "offer"} @@ d2 :> {"dispute", "lombard"}
MCFacts == d1 :> {"case"} @@ d2 :> {}

(* The wizard: texts too short for the API are among what is typed, and one of *)
(* the users has such a name.                                                  *)
MCTypedTitle == {Long(2)}
MCTypedCurrency == {Long(2), Long(3)}
MCTypedField == {Long(5)}
MCTypedDate == {Long(11)}
MCFullName == [u \in Person |-> IF u = o THEN Long(1) ELSE Long(13)]

(* The forms: the fields the rules name, with one plain field for the rest;    *)
(* one value on each side of every limit.                                      *)
MCEdited == {"verfalltag", "akzeptErforderlich", "akzeptdatum", "avalVorhanden", "avalist",
             "endfaelligkeit", "zinssatz", "notarielleOption", "vollstreckungsunterwerfung",
             "nominalwert", "kaufpreis", "kaufpreisBegruendung", "diskont",
             "ursprungsfaelligkeit", "einlage", "zweck", "rentenhoehe", "abloesbarkeit",
             "abloesesumme", "hoechstbetrag", "einredenverzicht", "vorschussbetrag",
             "erwarteterForderungswert", "scoringMetadaten", "abschlag", "belege"}

MCTyped == [text |-> {"", " ", "text"}, date |-> {"", "2026-03-01", "2030-04-15"},
            number |-> {"", "0", "0.01", "1000000000"}, percent |-> {"", "-0.01", "100.01"},
            flag |-> {"true", "false"}, openOrSilent |-> {"", "offen", "still"}]

VARIABLE part

(* A page that is not open keeps nothing. *)
NoDesk ==
    /\ rows = <<>> /\ workspace = None /\ address = None /\ page = [view |-> "none"]
    /\ dialog = None /\ busy = FALSE /\ tasks = [t \in Task |-> IdleTask]
    /\ assessing = {} /\ refreshing = {}

NoWizard ==
    /\ step = 0 /\ basics = <<>> /\ selectedInstrumentKey = "" /\ instrumentValues = <<>>
    /\ security = {} /\ storedSession = Nothing /\ isAuthenticated = FALSE
    /\ call = Nothing /\ claim = Nothing

NoForm == template = "" /\ values = <<>> /\ mode = [audience |-> ""] /\ errors = {} /\ status = ""

BrowserInit ==
    /\ part \in {"desk", "wizard", "form"}
    /\ IF part = "desk" THEN Init ELSE NoDesk
    /\ IF part = "wizard" THEN WizardInit ELSE NoWizard
    /\ IF part = "form" THEN FormInit ELSE NoForm

BrowserNext ==
    /\ UNCHANGED part
    /\ \/ part = "desk" /\ Next /\ UNCHANGED <<wizardVars, formVars>>
       \/ part = "wizard" /\ WizardNext /\ UNCHANGED <<vars, formVars>>
       \/ part = "form" /\ FormNext /\ UNCHANGED <<vars, wizardVars>>

BrowserSpec == BrowserInit /\ [][BrowserNext]_<<part, vars, wizardVars, formVars>>

(* api() aborts after 55 seconds: every request of the desk ends. *)
FairBrowserSpec ==
    BrowserSpec /\ \A t \in Task : WF_vars(part = "desk" /\ Answers(t))
====
