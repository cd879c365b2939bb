SPECIFICATION FairWorkbenchSpec
CONSTANTS
    seller = seller
    buyer = buyer
    debtor = debtor
    Receivable = {1}
    invoiceOf <- MCInvoice
    creditorOf <- MCCreditor
    debtorOf <- MCDebtor
    Party = {seller, buyer, debtor}
    nameOf <- MCName
    spelt <- MCSpelt
    CalledSo = {}
    Fits <- MCFits
    Nominal = 2
    Case = {k1}
    Word = {w1}
    OocInput = {"mediation"}
    CourtInput = {"eschkg"}
    Call = {c1}
    Export = {e1}
    AiEnabled = TRUE
    None = None
    FirstDay <- MCFirstDay
    LastDay <- MCLastDay
    Horizon = 170
INVARIANTS LettersNameTheirParties LaterServiceLaterEnd EndsAsTheLawSays
PROPERTIES FileOnlyGrows LettersArrive
