----------------------------- MODULE SharedRecords -----------------------------
(***************************************************************************)
(* What scoped-store.ts promises: one document of records, changed in one  *)
(* step at a time by somebody who may change every record that changes.    *)
(* There are no snapshots and no calls here, only rights and the file that *)
(* a restart goes back to.                                                 *)
(*                                                                         *)
(* A root (asset, need, profile, KYC) belongs to a user of a tenant; a     *)
(* link (offer, trade, lock ...) hangs on a root, a leaf (bid, instruction *)
(* ...) on a link.  Who owns the root, or administers its tenant, may      *)
(* change it and what hangs on it.                                         *)
(***************************************************************************)
CONSTANTS User, Admin, tenantOf, Root, Link, Leaf, Text, None

VARIABLES records, saved

Key == Root \cup Link \cup Leaf

Row ==
  [tenant : {tenantOf[u] : u \in User}, owner : User \cup {None},
   readers : SUBSET User, parent : Key \cup {None}, text : Text]

Document == [Key -> Row \cup {None}]
Empty == [k \in Key |-> None]

RootOf(doc, k) ==
  IF k \in Root THEN k
  ELSE IF k \in Link THEN doc[k].parent
  ELSE doc[doc[k].parent].parent

MayChange(doc, u, k) ==
  LET root == doc[RootOf(doc, k)]
  IN  /\ root # None
      /\ root.tenant = tenantOf[u]
      /\ u \in Admin \/ root.owner = u

(* A new record is its creator's alone; an old one keeps owner and readers. *)
Write(u) ==
  /\ records' \in Document
  /\ \A k \in Key : records'[k] # records[k] =>
       /\ records'[k] # None
       /\ MayChange(records', u, k)
       /\ IF records[k] = None
          THEN /\ records'[k].tenant = tenantOf[u]
               /\ records'[k].owner = u
               /\ records'[k].readers = {}
          ELSE /\ MayChange(records, u, k)
               /\ records'[k].tenant = records[k].tenant
               /\ records'[k].owner = records[k].owner
               /\ records'[k].readers = records[k].readers
  /\ saved' \in {saved, records'}

(* Readers are set on roots; one without an owner gets one.                 *)
Share(u) ==
  \E k \in Root, readers \in SUBSET User :
    /\ records[k] # None
    /\ MayChange(records, u, k)
    /\ records' = [records EXCEPT
         ![k].readers = readers,
         ![k].owner = IF @ = None THEN u ELSE @]
    /\ saved' \in {saved, records'}

Restart ==
  /\ records' \in {saved, Empty}
  /\ saved' = saved

(* Roots from before there were owners may be there at the start.           *)
Init ==
  /\ records \in Document
  /\ \A k \in Key : records[k] # None =>
       k \in Root /\ records[k].owner = None /\ records[k].readers = {}
  /\ saved = records

Next == Restart \/ \E u \in User : Write(u) \/ Share(u)

Spec == Init /\ [][Next]_<<records, saved>>
=============================================================================
