SPECIFICATION FairBrowserSpec
CONSTANTS
    d1 = d1
    d2 = d2
    Id = {d1, d2}
    Views <- MCViews
    Facts <- MCFacts
    Lists = {"wechsels"}
    Task = {t1, t2}
    None = None
    Instruments = {"invoice_receivable", "other_claim"}
    TypedTitle <- MCTypedTitle
    TypedCurrency <- MCTypedCurrency
    TypedAmount = {0, 12000}
    TypedField <- MCTypedField
    TypedDate <- MCTypedDate
    Securities = {{"guarantor", "pledge"}}
    ines = ines
    o = o
    Person = {ines, o}
    fullName <- MCFullName
    Nothing = Nothing
    Templates = {"wechsel", "solawechsel", "schuldschein", "zession", "commenda", "guelt", "garantie", "vorschuss"}
    Edited <- MCEdited
    Audiences = {"internal", "marketplace"}
    Typed <- MCTyped
INVARIANTS OneActAtATime ClaimIsComplete
PROPERTIES BusyEnds RefusalIsShown AcceptedSaysWhatItMust
