---- MODULE MCDisputeWorkbench ----
(* The dispute workbench: its files, or the deadlines that it computes, which  *)
(* share no state, so that one of them runs in a behaviour.                    *)
EXTENDS DisputeFiles, LegalDeadlines

CONSTANTS seller, buyer, debtor

(* Invoice numbers and parties of the receivables. *)
MCInvoice == [r \in Receivable |-> r]
MCCreditor == [r \in Receivable |-> seller]
MCDebtor == [r \in Receivable |-> debtor]

(* Seller and debtor have names of their own; the buyer's id begins with the   *)
(* debtor's name ("company:Nordholz Finanz AG", "Nordholz AG").                *)
MCName == [p \in Party |-> IF p = buyer THEN <<"id", p>> ELSE <<"name", p>>]
MCSpelt == [p \in Party |-> <<"id", p>>]
MCFits == {<<buyer, debtor>>}

(* The years 2026 to 2040: early and late Easter (28 March 2027, 25 April      *)
(* 2038), leap years, and each feast on every day of the week.                 *)
MCFirstDay == DayOf(2026, 1, 5)
MCLastDay == DayOf(2040, 12, 31)

(* The day count starts in 1970; two Easter Sundays of the calendar. *)
ASSUME CalendarAssumption ==
    /\ DayOf(1970, 1, 1) = 0 /\ DayOf(2026, 11, 20) = 20777
    /\ easterSunday(2026) = DayOf(2026, 4, 5)
    /\ easterSunday(2038) = DayOf(2038, 4, 25)

VARIABLE part

WorkbenchInit ==
    /\ part \in {"files", "deadlines"}
    /\ Init
    /\ DeadlineInit
    /\ part = "deadlines" => \A r \in Receivable : assets[r].status = "ACCEPTED"
    /\ part = "files" => family = "zpo" /\ frist = CHOOSE f \in Fristen(family) : TRUE

(* The calendar of the run has an end, the work on a file has none. *)
CalendarEnds == at = "done" /\ delivery = LastDay /\ UNCHANGED deadlineVars

WorkbenchNext ==
    /\ UNCHANGED part
    /\ \/ part = "files" /\ Next /\ UNCHANGED deadlineVars
       \/ part = "deadlines" /\ (DeadlineNext \/ CalendarEnds) /\ UNCHANGED vars

WorkbenchSpec == WorkbenchInit /\ [][WorkbenchNext]_<<part, vars, deadlineVars>>

(* The 45 s limit ends the wait for OpenAI. *)
FairWorkbenchSpec ==
    /\ WorkbenchSpec
    /\ \A c \in Call : WF_vars(part = "files" /\ (OpenAiAnswers(c) \/ OpenAiFails(c)))
====
