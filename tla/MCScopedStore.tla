---------------------------- MODULE MCScopedStore ----------------------------
EXTENDS ScopedStore, Naturals, FiniteSets
CONSTANTS anna, bob, eve, a, b, r1, r2, l1, f1, x, y, c1, none

MCtenantOf == [u \in User |-> IF u = eve THEN b ELSE a]

(* A handler changes the text of a link, tampers with an owner, hangs a    *)
(* row elsewhere, adds one of any kind, or a root with what hangs on it.   *)
New(u, parent) ==
  [tenant |-> tenantOf[u], owner |-> None, readers |-> {},
   parent |-> parent, text |-> x]

MCEdited(view, u) ==
  LET there == {k \in Key : view[k] # None}
      above(k) == IF k \in Root THEN {None} ELSE IF k \in Link THEN Root ELSE Link
  IN  {[view EXCEPT ![k].text = t] : k \in there \cap Link, t \in Text}
      \cup {[view EXCEPT ![k].owner = u] : k \in there}
      \cup {[view EXCEPT ![k].parent = p] : k \in there \ Root, p \in Root \cup Link}
      \cup UNION {{[view EXCEPT ![k] = New(u, p)] : p \in above(k)} : k \in Key \ there}
      \cup {[view EXCEPT ![r] = New(u, None), ![l] = New(u, r)] :
              r \in Root \ there, l \in Link \ there}

(* The file, and what a waiting request has captured, differ from memory   *)
(* in one row at most; states beyond that are checked, not continued.      *)
Apart(d, e) == Cardinality({k \in Key : d[k] # e[k]})
Near ==
  /\ Apart(mem, disk) <= 1
  /\ \A c \in Call : calls[c] # Idle => Apart(mem, calls[c].base) <= 1
=============================================================================
