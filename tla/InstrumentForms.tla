-------------------------- MODULE InstrumentForms --------------------------
(***************************************************************************)
(* The instrument form of the web front end: a template (fields with the   *)
(* modes, readers and answers they are shown to, and rules between them),  *)
(* the values typed into it, the toolbar that chooses who looks at it, and *)
(* the check behind its button.  A hidden field keeps its value, a mark    *)
(* stays until its own field is edited, and the check looks at what is     *)
(* shown at that moment.                                                   *)
(*                                                                         *)
(* A value is a string; "" stands for undefined, null, "" and the empty    *)
(* list, which no rule tells apart, and " " for a text of blanks only.     *)
(* Numbers and days are only compared, so they are places on a scale.      *)
(***************************************************************************)
EXTENDS Naturals, Sequences, FiniteSets, SequencesExt

CONSTANTS
    Templates,  \* the templates the form is mounted with
    Edited,     \* the fields the user of the form still edits (bound)
    Audiences,  \* the readers the toolbar is set to
    Typed       \* kind of field -> the values typed into it

Kinds == {"text", "date", "number", "percent", "flag", "openOrSilent"}

ASSUME FormAssumption ==
    /\ "internal" \in Audiences
    /\ Audiences \subseteq {"internal", "counterparty", "marketplace"}
    /\ DOMAIN Typed = Kinds

Empty == ""

Amounts == << "-0.01", "0", "0.01", "5.14", "6.8", "10.5", "100", "100.01",
              "36000", "125000", "332000", "350000", "480000", "800000",
              "900000", "940000", "999999999", "1000000000" >>
Days == << "2026-03-01", "2026-04-15", "2026-07-01", "2026-09-01",
           "2026-09-30", "2030-04-15" >>

Place(scale, v) == CHOOSE i \in DOMAIN scale : scale[i] = v
Less(scale, v, w) == Place(scale, v) < Place(scale, w)

asNumber(v) == IF v \in Range(Amounts) THEN {v} ELSE {}
asDate(v) == IF v \in Range(Days) THEN {v} ELSE {}

NoFields == [required |-> {}, optional |-> {}, expertOnly |-> {}, historical |-> {},
             internal |-> {}, nda |-> {}, when |-> << >>, date |-> {},
             number |-> {}, percent |-> {}, flag |-> {}, openOrSilent |-> {},
             min |-> << >>, default |-> << >>]

NoRules == [before |-> {}, range |-> {}, notAbove |-> {}, requiredWhen |-> {}]

(***************************************************************************)
(* The eight templates: their fields, and the rules between fields.        *)
(***************************************************************************)

wechselFields == [NoFields EXCEPT
    !.required = {"dokumententitel", "wechselart", "aussteller", "bezogener", "remittent",
        "ausstellungsort", "ausstellungsdatum", "zahlungsort", "verfalltyp", "verfalltag",
        "waehrung", "betragNumerisch", "betragAusgeschrieben", "rechtswahl", "gerichtsstand"},
    !.optional = {"teilzahlbarkeit", "akzeptErforderlich", "akzeptdatum", "indossierbar",
        "protestverzicht", "avalVorhanden", "avalist", "grundgeschaeftReferenz", "warenbezug",
        "finanzierungshintergrund", "historischeFormel", "unterschriftsanforderungen",
        "digitaleSignaturMoeglich", "belege", "nichtzahlungsfolgen", "protestfristen",
        "schiedsoption", "marktplatzsichtbarkeit", "uebertragungsregeln"},
    !.expertOnly = {"grundgeschaeftReferenz"}, !.internal = {"grundgeschaeftReferenz"},
    !.historical = {"protestverzicht", "warenbezug", "historischeFormel", "protestfristen"},
    !.nda = {"belege"},
    !.when = [akzeptdatum |-> << "akzeptErforderlich", "true" >>,
              avalist |-> << "avalVorhanden", "true" >>],
    !.date = {"ausstellungsdatum", "verfalltag", "akzeptdatum"}, !.number = {"betragNumerisch"},
    !.flag = {"teilzahlbarkeit", "akzeptErforderlich", "indossierbar", "protestverzicht",
              "avalVorhanden", "digitaleSignaturMoeglich", "schiedsoption"},
    !.min = [betragNumerisch |-> "0.01"],
    !.default = [dokumententitel |-> "text", waehrung |-> "text", teilzahlbarkeit |-> "false",
        akzeptErforderlich |-> "true", indossierbar |-> "true", protestverzicht |-> "false",
        avalVorhanden |-> "false", digitaleSignaturMoeglich |-> "true",
        schiedsoption |-> "false", marktplatzsichtbarkeit |-> "text"]]

wechselRules == [NoRules EXCEPT
    !.before = {<< "verfalltag", "ausstellungsdatum" >>},
    !.requiredWhen = {<< "avalist", "avalVorhanden" >>, << "akzeptdatum", "akzeptErforderlich" >>}]

solawechselFields == [NoFields EXCEPT
    !.required = {"dokumententitel", "direkterZahlungsversprecher", "aussteller", "remittent",
        "zahlstelle", "waehrung", "betragNumerisch", "betragAusgeschrieben",
        "ausstellungsdatum", "verfalltag", "defaultDefinition", "rechtswahl", "gerichtsstand"},
    !.optional = {"zahlungsversprechenFormel", "kuendigungsregeln", "vorlageklauseln",
        "mitschuldner", "belege", "marktplatzsichtbarkeit"},
    !.historical = {"zahlungsversprechenFormel", "vorlageklauseln"}, !.nda = {"belege"},
    !.date = {"ausstellungsdatum", "verfalltag"}, !.number = {"betragNumerisch"},
    !.min = [betragNumerisch |-> "0.01"],
    !.default = [dokumententitel |-> "text", waehrung |-> "text",
                 marktplatzsichtbarkeit |-> "text"]]

solawechselRules == [NoRules EXCEPT !.before = {<< "verfalltag", "ausstellungsdatum" >>}]

schuldscheinFields == [NoFields EXCEPT
    !.required = {"dokumententitel", "schuldner", "glaeubiger", "schuldgrund", "kapitalbetrag",
        "waehrung", "valutierungsdatum", "zinsmodell", "zinssatz", "zinsperiode",
        "tilgungsmodus", "endfaelligkeit", "rechtswahl", "gerichtsstand"},
    !.optional = {"ratenplan", "vorzeitigeRueckzahlung", "verzugszins", "mahnstufen",
        "sicherheiten", "mitverpflichtete", "schuldanerkennung", "beweisfunktion",
        "notarielleOption", "vollstreckungsunterwerfung", "anhangsdokumente", "riskMarker",
        "marktplatzsichtbarkeit"},
    !.expertOnly = {"ratenplan", "beweisfunktion", "vollstreckungsunterwerfung", "riskMarker"},
    !.internal = {"riskMarker"},
    !.when = [vollstreckungsunterwerfung |-> << "notarielleOption", "true" >>],
    !.date = {"valutierungsdatum", "endfaelligkeit"}, !.number = {"kapitalbetrag"},
    !.percent = {"zinssatz", "verzugszins"},
    !.flag = {"schuldanerkennung", "notarielleOption", "vollstreckungsunterwerfung"},
    !.min = [kapitalbetrag |-> "0.01"],
    !.default = [dokumententitel |-> "text", waehrung |-> "text", schuldanerkennung |-> "true",
                 notarielleOption |-> "false", marktplatzsichtbarkeit |-> "text"]]

schuldscheinRules == [NoRules EXCEPT
    !.before = {<< "endfaelligkeit", "valutierungsdatum" >>},
    !.range = {<< "zinssatz", "0", "100" >>, << "verzugszins", "0", "100" >>},
    !.requiredWhen = {<< "vollstreckungsunterwerfung", "notarielleOption" >>}]

zessionFields == [NoFields EXCEPT
    !.required = {"dokumententitel", "zedent", "zessionar", "drittschuldner", "grundgeschaeft",
        "abtretungsdatum", "nominalwert", "kaufpreis", "offeneOderStilleZession",
        "prioritaetsregeln", "dokumentnachweise", "ursprungsfaelligkeit", "inkassoDurch",
        "rechtswahl", "gerichtsstand"},
    !.optional = {"kaufpreisBegruendung", "diskont", "benachrichtigungDrittschuldner",
        "rueckgriffsrechte", "gewaerleistungBestand", "gewaerleistungEinbringlichkeit",
        "teilabtretung", "streitfallGrundgeschaeft", "rueckabwicklung",
        "marktplatzsichtbarkeit"},
    !.expertOnly = {"kaufpreisBegruendung"}, !.internal = {"kaufpreisBegruendung"},
    !.when = [benachrichtigungDrittschuldner |-> << "offeneOderStilleZession", "offen" >>],
    !.date = {"abtretungsdatum", "ursprungsfaelligkeit"}, !.number = {"nominalwert", "kaufpreis"},
    !.percent = {"diskont"}, !.openOrSilent = {"offeneOderStilleZession"},
    !.flag = {"gewaerleistungBestand", "gewaerleistungEinbringlichkeit", "teilabtretung"},
    !.min = [nominalwert |-> "0.01", kaufpreis |-> "0"],
    !.default = [dokumententitel |-> "text", gewaerleistungBestand |-> "true",
        gewaerleistungEinbringlichkeit |-> "false", teilabtretung |-> "false",
        marktplatzsichtbarkeit |-> "text"]]

zessionRules == [NoRules EXCEPT
    !.before = {<< "ursprungsfaelligkeit", "abtretungsdatum" >>},
    !.range = {<< "diskont", "0", "100" >>},
    !.notAbove = {<< "kaufpreis", "nominalwert", "kaufpreisBegruendung" >>}]

commendaFields == [NoFields EXCEPT
    !.required = {"dokumententitel", "kapitalgeber", "operativerPartner", "zweck",
        "projektbeschreibung", "laufzeit", "einlage", "waehrung", "gewinnverteilung",
        "verlusttragung", "erlaubteGeschaefte", "reportingpflichten", "exitRegeln",
        "kapitalrueckfuehrung", "pflichtverletzungen", "disputeMechanik", "rechtswahl",
        "gerichtsstand"},
    !.optional = {"haftungsgrenzen", "ausgeschlosseneGeschaefte", "rechenschaftslegung",
        "zwischenabrechnungen", "treuepflichten", "custody",
        "historischePlausibilitaetsklauseln", "investorenMetadaten", "belege",
        "marktplatzsichtbarkeit"},
    !.expertOnly = {"investorenMetadaten"}, !.internal = {"investorenMetadaten"},
    !.historical = {"historischePlausibilitaetsklauseln"},
    !.number = {"einlage"}, !.min = [einlage |-> "0.01"],
    !.default = [dokumententitel |-> "text", waehrung |-> "text",
                 marktplatzsichtbarkeit |-> "text"]]

commendaRules == [NoRules EXCEPT !.range = {<< "einlage", "0.01", "999999999" >>}]

gueltFields == [NoFields EXCEPT
    !.required = {"dokumententitel", "rentenglaeubiger", "verpflichteter", "belastetesObjekt",
        "objektbeschreibung", "kapitalbetrag", "waehrung", "rentenart", "rentenhoehe",
        "zahlungstermine", "rangstelle", "zahlungsversaeumnisfolgen", "rechtswahl",
        "gerichtsstand"},
    !.optional = {"abloesbarkeit", "abloesesumme", "dinglicherCharakter", "ertragsquelle",
        "pfandcharakter", "eigentumsreferenz", "urkundenhinweise", "notarinfo",
        "historischeKlauseln", "uebertragbarkeitGlaeubigerposition", "marktplatzsichtbarkeit"},
    !.expertOnly = {"eigentumsreferenz"},
    !.historical = {"dinglicherCharakter", "urkundenhinweise", "historischeKlauseln"},
    !.when = [abloesesumme |-> << "abloesbarkeit", "true" >>],
    !.number = {"kapitalbetrag", "rentenhoehe", "abloesesumme"}, !.flag = {"abloesbarkeit"},
    !.min = [kapitalbetrag |-> "0.01", rentenhoehe |-> "0", abloesesumme |-> "0"],
    !.default = [dokumententitel |-> "text", waehrung |-> "text", abloesbarkeit |-> "true",
                 marktplatzsichtbarkeit |-> "text"]]

gueltRules == [NoRules EXCEPT
    !.range = {<< "abloesesumme", "0", "999999999" >>},
    !.requiredWhen = {<< "abloesesumme", "abloesbarkeit" >>}]

garantieFields == [NoFields EXCEPT
    !.required = {"dokumententitel", "hauptschuldner", "buergeOderGarant", "beguenstigter",
        "sicherheitsart", "subsidiarOderPrimaer", "hoechstbetrag", "waehrung", "laufzeit",
        "bedingungseintritt", "abrufformalitaeten", "erloeschensgruende", "rechtswahl",
        "gerichtsstand"},
    !.optional = {"einredenverzicht", "dokumentanforderungen", "teilinanspruchnahme",
        "regressrechte", "marktplatzsichtbarkeit"},
    !.expertOnly = {"einredenverzicht"}, !.number = {"hoechstbetrag"},
    !.flag = {"einredenverzicht", "teilinanspruchnahme"}, !.min = [hoechstbetrag |-> "0.01"],
    !.default = [dokumententitel |-> "text", waehrung |-> "text", einredenverzicht |-> "false",
                 teilinanspruchnahme |-> "true", marktplatzsichtbarkeit |-> "text"]]

garantieRules == [NoRules EXCEPT !.range = {<< "hoechstbetrag", "0.01", "999999999" >>}]

vorschussFields == [NoFields EXCEPT
    !.required = {"dokumententitel", "vorschussgeber", "empfaenger", "forderungsquelle",
        "erwarteterForderungswert", "vorschussbetrag", "waehrung", "abtretungsmechanik",
        "faelligkeitstrigger", "nachweispflichten", "ausfallrisiko", "rueckabwicklung",
        "reportingPflichten", "rechtswahl", "gerichtsstand"},
    !.optional = {"abschlag", "gebuehren", "sicherheiten", "scoringMetadaten",
        "dokumentnachweise", "marktplatzsichtbarkeit"},
    !.expertOnly = {"scoringMetadaten"}, !.internal = {"scoringMetadaten"},
    !.nda = {"dokumentnachweise"},
    !.number = {"erwarteterForderungswert", "vorschussbetrag"}, !.percent = {"abschlag"},
    !.min = [erwarteterForderungswert |-> "0.01", vorschussbetrag |-> "0.01"],
    !.default = [dokumententitel |-> "text", waehrung |-> "text",
                 marktplatzsichtbarkeit |-> "text"]]

vorschussRules == [NoRules EXCEPT
    !.notAbove = {<< "vorschussbetrag", "erwarteterForderungswert", "scoringMetadaten" >>},
    !.range = {<< "abschlag", "0", "100" >>}]

FieldsOf == [wechsel |-> wechselFields, solawechsel |-> solawechselFields,
             schuldschein |-> schuldscheinFields, guelt |-> gueltFields,
             commenda |-> commendaFields, zession |-> zessionFields,
             garantie |-> garantieFields, vorschuss |-> vorschussFields]

RulesOf == [wechsel |-> wechselRules, solawechsel |-> solawechselRules,
            schuldschein |-> schuldscheinRules, guelt |-> gueltRules,
            commenda |-> commendaRules, zession |-> zessionRules,
            garantie |-> garantieRules, vorschuss |-> vorschussRules]

FieldIds(t) == FieldsOf[t].required \cup FieldsOf[t].optional

(***************************************************************************)
(* The form as its page mounts it: the template's defaults, and on a       *)
(* template's own page the values of the seeded example.                   *)
(***************************************************************************)

makeDraftFromTemplate(t) ==
    FieldsOf[t].default @@ [f \in FieldIds(t) |-> Empty]

Texts(fields) == [f \in fields |-> "text"]

seededInstrumentExamples == [
    wechsel |-> Texts({"dokumententitel", "wechselart", "aussteller", "bezogener", "remittent",
            "ausstellungsort", "waehrung", "betragAusgeschrieben", "avalist", "rechtswahl",
            "gerichtsstand"})
        @@ [ausstellungsdatum |-> "2026-03-01", verfalltag |-> "2026-09-01",
            betragNumerisch |-> "125000", avalVorhanden |-> "true"],
    schuldschein |-> Texts({"dokumententitel", "schuldner", "glaeubiger", "schuldgrund",
            "waehrung", "zinsmodell", "zinsperiode", "tilgungsmodus", "rechtswahl",
            "gerichtsstand"})
        @@ [kapitalbetrag |-> "480000", valutierungsdatum |-> "2026-04-15", zinssatz |-> "6.8",
            endfaelligkeit |-> "2030-04-15", verzugszins |-> "10.5"],
    guelt |-> Texts({"dokumententitel", "rentenglaeubiger", "verpflichteter",
            "belastetesObjekt", "objektbeschreibung", "rentenart", "zahlungstermine",
            "rangstelle", "rechtswahl", "gerichtsstand"})
        @@ [kapitalbetrag |-> "900000", rentenhoehe |-> "36000", abloesbarkeit |-> "true",
            abloesesumme |-> "940000"],
    commenda |-> Texts({"dokumententitel", "kapitalgeber", "operativerPartner", "zweck",
            "projektbeschreibung", "waehrung", "gewinnverteilung", "verlusttragung",
            "reportingpflichten", "exitRegeln", "rechtswahl", "gerichtsstand"})
        @@ [einlage |-> "800000"],
    zession |-> Texts({"dokumententitel", "zedent", "zessionar", "drittschuldner",
            "grundgeschaeft", "benachrichtigungDrittschuldner", "inkassoDurch", "rechtswahl",
            "gerichtsstand"})
        @@ [abtretungsdatum |-> "2026-07-01", nominalwert |-> "350000",
            kaufpreis |-> "332000", diskont |-> "5.14", offeneOderStilleZession |-> "offen",
            ursprungsfaelligkeit |-> "2026-09-30"]]

(***************************************************************************)
(* What is shown.  A context is who looks: modes, reader, NDA.             *)
(***************************************************************************)

\* The rules of the field's own visibility list; a rule on another field
\* compares it with one value.
passesVisibilityRule(t, f, ctx, vals) ==
    /\ f \in FieldsOf[t].internal => ctx.audience = "internal"
    /\ f \in FieldsOf[t].nda => ctx.ndaAccepted
    /\ f \in DOMAIN FieldsOf[t].when =>
           vals[FieldsOf[t].when[f][1]] = FieldsOf[t].when[f][2]

\* No field of any template has marketplaceVisible: false.
isFieldVisible(t, f, ctx, vals) ==
    /\ f \in FieldsOf[t].expertOnly => ctx.expertMode
    /\ f \in FieldsOf[t].historical => ctx.historicalMode
    /\ passesVisibilityRule(t, f, ctx, vals)

(***************************************************************************)
(* What the check marks.                                                   *)
(***************************************************************************)

\* IF the field is required and empty, or its number is outside its own
\* limits, THEN it is marked.
checkRule(t, f, vals) ==
    LET here == FieldsOf[t] IN
    \/ f \in here.required /\ vals[f] = Empty
    \/ f \in here.percent /\ \E n \in asNumber(vals[f]) :
           Less(Amounts, n, "0") \/ Less(Amounts, "100", n)
    \/ f \in DOMAIN here.min /\ \E n \in asNumber(vals[f]) : Less(Amounts, n, here.min[f])

\* Mutant: a justification of blanks counts.
TrimmedEmpty_Untrimmed(v) == v = Empty

TrimmedEmpty(v) == v \in {Empty, " "}

\* Mutant: a rule also runs for a hidden field.
RuleApplies_Hidden(t, f, ctx, vals) == TRUE

\* A rule between fields is left out while the field it marks is hidden.
RuleApplies(t, f, ctx, vals) == isFieldVisible(t, f, ctx, vals)

\* The field of the justification is marked along with the price, shown or not.
runCrossFieldRule(t, vals, ctx) ==
    LET rules == RulesOf[t]
        runs(f) == RuleApplies(t, f, ctx, vals)
    IN  {r[1] : r \in {s \in rules.before : runs(s[1]) /\
             \E d \in asDate(vals[s[1]]), e \in asDate(vals[s[2]]) : Less(Days, d, e)}}
        \cup {r[1] : r \in {s \in rules.range : runs(s[1]) /\
             \E n \in asNumber(vals[s[1]]) : Less(Amounts, n, s[2]) \/ Less(Amounts, s[3], n)}}
        \cup UNION {{r[1], r[3]} : r \in {s \in rules.notAbove : runs(s[1]) /\
             (\E n \in asNumber(vals[s[1]]), m \in asNumber(vals[s[2]]) : Less(Amounts, m, n))
             /\ TrimmedEmpty(vals[s[3]])}}
        \cup {r[1] : r \in {s \in rules.requiredWhen : runs(s[1]) /\
             vals[s[2]] = "true" /\ vals[s[1]] = Empty}}

validateTemplateData(t, vals, ctx) ==
    {f \in FieldIds(t) : isFieldVisible(t, f, ctx, vals) /\ checkRule(t, f, vals)}
    \cup runCrossFieldRule(t, vals, ctx)

-----------------------------------------------------------------------------
VARIABLES
    template,     \* the template the form was mounted with
    values,       \* field -> what it holds
    mode,         \* expertMode, historicalMode, audience, ndaAccepted as set
    errors,       \* the fields that carry a mark
    status        \* the line beside the button

formVars == << template, values, mode, errors, status >>

\* An internal reader needs no NDA, whatever the box was left at.
visibilityContext ==
    [mode EXCEPT !.ndaAccepted = mode.audience = "internal" \/ mode.ndaAccepted]

Shown(f) == isFieldVisible(template, f, visibilityContext, values)

KindOf(t, f) == LET k == {c \in Kinds \ {"text"} : f \in FieldsOf[t][c]}
                IN  IF k = {} THEN "text" ELSE CHOOSE c \in k : TRUE

\* The required fields the run does not edit have been filled in before (bound).
Filled(t) == [f \in (FieldsOf[t].required \ Edited) |->
                 CASE KindOf(t, f) = "date" -> "2026-09-01"
                   [] KindOf(t, f) = "number" -> "125000"
                   [] KindOf(t, f) = "percent" -> "6.8"
                   [] KindOf(t, f) = "openOrSilent" -> "offen"
                   [] OTHER -> "text"]

InitialValues(t) ==
    {<< >>} \cup (IF t \in DOMAIN seededInstrumentExamples
                  THEN {seededInstrumentExamples[t]} ELSE {})

FormInit ==
    /\ template \in Templates
    /\ \E initial \in InitialValues(template) :
           values = initial @@ Filled(template) @@ makeDraftFromTemplate(template)
    /\ mode = [expertMode |-> FALSE, historicalMode |-> FALSE,
               audience |-> "internal", ndaAccepted |-> TRUE]
    /\ errors = {}
    /\ status = "none"

\* An input on the form is edited: only its own mark goes, the status line stays.
handleFieldChange(f, v) ==
    /\ f \in FieldIds(template) /\ Shown(f)
    /\ values[f] # v
    /\ values' = [values EXCEPT ![f] = v]
    /\ errors' = errors \ {f}
    /\ UNCHANGED << template, mode, status >>

setMode(m) ==
    /\ m # mode
    /\ mode' = m
    /\ UNCHANGED << template, values, errors, status >>

setExpertMode == setMode([mode EXCEPT !.expertMode = ~@])
setHistoricalMode == setMode([mode EXCEPT !.historicalMode = ~@])
setAudience(a) == setMode([mode EXCEPT !.audience = a])

\* The box cannot be ticked while the reader is internal.
setNdaAccepted ==
    /\ mode.audience # "internal"
    /\ setMode([mode EXCEPT !.ndaAccepted = ~@])

handleSubmit ==
    /\ errors' = validateTemplateData(template, values, visibilityContext)
    /\ status' = IF errors' = {} THEN "valid" ELSE "refused"
    /\ UNCHANGED << template, values, mode >>

FormNext ==
    \/ \E f \in Edited \cap FieldIds(template) :
           \E v \in Typed[KindOf(template, f)] : handleFieldChange(f, v)
    \/ setExpertMode
    \/ setHistoricalMode
    \/ \E a \in Audiences : setAudience(a)
    \/ setNdaAccepted
    \/ handleSubmit

FormSpec == FormInit /\ [][FormNext]_formVars

-----------------------------------------------------------------------------
\* Just submitted: the values and the modes are what the check has looked at.
Submits == << errors', status' >> # << errors, status >> /\ UNCHANGED << values, mode >>

(***************************************************************************)
(* "Please check the marked fields": a form that is refused carries a mark *)
(* on a field that is on the form, in whatever modes and for whatever      *)
(* reader it is submitted (validation.ts, renderer 117-126, 179-188).      *)
(***************************************************************************)
RefusalIsShown ==
    [][Submits /\ status' = "refused" =>
          \E f \in errors' : isFieldVisible(template, f, visibilityContext, values)]_formVars

(***************************************************************************)
(* A form that is accepted says what the templates' rules ask for, read    *)
(* from the rules' messages and whatever is hidden at that moment: no      *)
(* maturity before issue, no price above the nominal without a reason, no  *)
(* rate out of range, an aval with its avalist, an acceptance with its     *)
(* date, a redemption with its sum.                                        *)
(***************************************************************************)
OrderedDays(early, late) ==
    values[early] \in Range(Days) /\ values[late] \in Range(Days)
        => ~Less(Days, values[late], values[early])

GivenWith(flag, f) == values[flag] = "true" => values[f] # Empty

ReasonGiven(price, worth, why) ==
    values[price] \in Range(Amounts) /\ values[worth] \in Range(Amounts)
        /\ Less(Amounts, values[worth], values[price])
    => values[why] \notin {Empty, " "}

Rate(f) == \A n \in asNumber(values[f]) : ~Less(Amounts, n, "0") /\ ~Less(Amounts, "100", n)

SaysWhatItMust ==
    CASE template = "wechsel" -> /\ OrderedDays("ausstellungsdatum", "verfalltag")
                                 /\ GivenWith("avalVorhanden", "avalist")
                                 /\ GivenWith("akzeptErforderlich", "akzeptdatum")
      [] template = "solawechsel" -> OrderedDays("ausstellungsdatum", "verfalltag")
      [] template = "schuldschein" -> /\ OrderedDays("valutierungsdatum", "endfaelligkeit")
                                      /\ Rate("zinssatz") /\ Rate("verzugszins")
      [] template = "guelt" -> GivenWith("abloesbarkeit", "abloesesumme")
      [] template = "zession" -> /\ OrderedDays("abtretungsdatum", "ursprungsfaelligkeit")
                                 /\ ReasonGiven("kaufpreis", "nominalwert",
                                                "kaufpreisBegruendung")
                                 /\ Rate("diskont")
      [] template = "vorschuss" -> /\ ReasonGiven("vorschussbetrag",
                                          "erwarteterForderungswert", "scoringMetadaten")
                                   /\ Rate("abschlag")
      [] OTHER -> TRUE

AcceptedSaysWhatItMust ==
    [][Submits /\ status' = "valid" => SaysWhatItMust]_formVars

(***************************************************************************)
(* "Please decide on the submission to enforcement expressly when the      *)
(* notarial option is on" (schuldschein.template.ts 58): an accepted note  *)
(* with the option on has that field set.  The rule is skipped while the   *)
(* field is hidden (validation.ts 107-110), and it is hidden outside the   *)
(* expert mode, so the form is accepted without it: TLC refutes this       *)
(* (README, "Seen while modelling").                                       *)
(***************************************************************************)
EnforcementIsDecided ==
    [][Submits /\ status' = "valid" /\ template = "schuldschein" =>
          GivenWith("notarielleOption", "vollstreckungsunterwerfung")]_formVars

=============================================================================
