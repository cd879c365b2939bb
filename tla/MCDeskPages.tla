---- MODULE MCDeskPages ----
EXTENDS DeskPages, TLC

CONSTANTS d1, d2

(* Two disputes. *)
MCDisputes == [i \in {d1, d2} |-> {"dispute"}]

MCNoFacts == [i \in {d1, d2} |-> {}]
====
