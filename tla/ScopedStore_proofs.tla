-------------------------- MODULE ScopedStore_proofs --------------------------
(***************************************************************************)
(* The scoped store keeps every row under a root of its own tenant and     *)
(* implements SharedRecords, for any users, rows and requests and for      *)
(* whatever the handlers make of the rows they are shown (Edited).         *)
(***************************************************************************)
EXTENDS ScopedStore, TLAPS

(* The document and the file are typed and rooted; what a request has      *)
(* captured is only ever written if it is the document.                    *)
IInv == TypeOK /\ Rooted

-----------------------------------------------------------------------------
(* Scopes. *)

(* A writable row may be changed, and what it hangs on is there.           *)
LEMMA ScopeMeans ==
  ASSUME NEW doc \in Document, NEW u \in User, NEW k \in Scope(doc, u, TRUE)
  PROVE  /\ k \in Key
         /\ doc[k] # None
         /\ Records!MayChange(doc, u, k)
         /\ k \in Link => doc[k].parent \in Root \cap Scope(doc, u, TRUE)
         /\ k \in Leaf => doc[k].parent \in Link \cap Scope(doc, u, TRUE)
<1> DEFINE roots == {r \in Root : doc[r] # None /\ permittedRoot(doc[r], u, TRUE)}
           links == Linked(doc, u, Link, roots)
<1>1. \A r \in roots : /\ r \in Root
                       /\ doc[r] # None
                       /\ doc[r].tenant = tenantOf[u]
                       /\ u \in Admin \/ doc[r].owner = u
  BY DEF permittedRoot
<1>2. \A l \in links : /\ l \in Link
                       /\ doc[l] # None
                       /\ doc[l].owner = None \/ doc[l].tenant = tenantOf[u]
                       /\ doc[l].parent \in roots
  BY DEF Linked
<1>3. \A f \in Linked(doc, u, Leaf, links) :
        /\ f \in Leaf
        /\ doc[f] # None
        /\ doc[f].owner = None \/ doc[f].tenant = tenantOf[u]
        /\ doc[f].parent \in links
  BY DEF Linked
<1>4. k \in roots \/ k \in links \/ k \in Linked(doc, u, Leaf, links)
  BY DEF Scope
<1>5a. roots \subseteq Scope(doc, u, TRUE) /\ links \subseteq Scope(doc, u, TRUE)
  BY DEF Scope
<1> HIDE DEF roots, links
<1>5. Root \cap Link = {} /\ Root \cap Leaf = {} /\ Link \cap Leaf = {}
  BY StoreAssumption
<1>6. CASE k \in roots
  BY <1>1, <1>5, <1>5a, <1>6 DEF Key, Records!MayChange, Records!RootOf
<1>7. CASE k \in links
  BY <1>1, <1>2, <1>5, <1>5a, <1>7 DEF Key, Records!MayChange, Records!RootOf
<1>8. CASE k \in Linked(doc, u, Leaf, links)
  BY <1>1, <1>2, <1>3, <1>5, <1>5a, <1>8 DEF Key, Records!MayChange, Records!RootOf
<1> QED
  BY <1>4, <1>6, <1>7, <1>8

(* It is of the user's tenant if it belongs to anybody.                    *)
LEMMA ScopeTenant ==
  ASSUME NEW doc \in Document, NEW u \in User, NEW k \in Scope(doc, u, TRUE)
  PROVE  doc[k].owner = None \/ doc[k].tenant = tenantOf[u]
BY DEF Scope, Linked, permittedRoot

(* A writable root is one of the user's tenant.                             *)
LEMMA ScopeRoot ==
  ASSUME NEW doc \in Document, NEW u \in User, NEW k \in Root \cap Scope(doc, u, TRUE)
  PROVE  doc[k].tenant = tenantOf[u]
<1>1. k \notin Link /\ k \notin Leaf
  BY StoreAssumption
<1> QED
  BY <1>1 DEF Scope, Linked, permittedRoot

(* A row is there if it is shown.                                          *)
LEMMA ShownIsThere ==
  ASSUME NEW doc, NEW u, NEW write, NEW k \in Scope(doc, u, write)
  PROVE  k \in Key /\ doc[k] # None
BY DEF Scope, Linked, Key

(* What was writable stays so in a document that has more rows.            *)
LEMMA ScopeGrows ==
  ASSUME NEW d, NEW e, NEW u, NEW write,
         \A k \in Key : d[k] # None => e[k] = d[k]
  PROVE  Scope(d, u, write) \subseteq Scope(e, u, write)
<1> DEFINE roots(doc) == {k \in Root : doc[k] # None /\ permittedRoot(doc[k], u, write)}
           links(doc) == Linked(doc, u, Link, roots(doc))
<1>1. roots(d) \subseteq roots(e)
  BY DEF Key
<1>2. links(d) \subseteq links(e)
  BY <1>1 DEF Key, Linked
<1>3. Linked(d, u, Leaf, links(d)) \subseteq Linked(e, u, Leaf, links(e))
  BY <1>2 DEF Key, Linked
<1> QED
  BY <1>1, <1>2, <1>3 DEF Scope

-----------------------------------------------------------------------------
(* A write. *)

(* What an accepted write does to the document: it stays a document, each  *)
(* changed row is one the writer may change afterwards, a new one is the   *)
(* writer's, an old one was writable before and keeps its access record.   *)
LEMMA WriteChanges ==
  ASSUME NEW u \in User, NEW mode, NEW base \in Document, NEW next \in Document,
         \A k \in Key : scopedState(base, u, mode = "write")[k] # None => next[k] # None,
         Accepted(u, mode, base, next)
  PROVE  LET after == Merged(u, mode, base, next)
         IN  /\ after \in Document
             /\ \A k \in Key : after[k] # base[k] =>
                  /\ k \in Scope(after, u, TRUE)
                  /\ base[k] # None => /\ k \in Scope(base, u, TRUE)
                                       /\ SameAccess(after[k], base[k])
                  /\ base[k] = None => /\ after[k].tenant = tenantOf[u]
                                       /\ after[k].owner = u
                                       /\ after[k].readers = {}
<1> DEFINE shown == Scope(base, u, mode = "write")
           view == scopedState(base, u, mode = "write")
           stamped == Stamped(u, view, next)
           after == Merged(u, mode, base, next)
<1>1. \A k \in Key : view[k] = IF k \in shown THEN base[k] ELSE None
  BY DEF scopedState
<1>2. \A k \in shown : k \in Key /\ base[k] # None
  BY ShownIsThere
<1>3. \A k \in Key : stamped[k] =
        IF next[k] # None /\ view[k] = None
        THEN [next[k] EXCEPT !.tenant = tenantOf[u], !.owner = u, !.readers = {}]
        ELSE next[k]
  BY DEF Stamped
<1>4. \A k \in Key : after[k] =
        IF k \in shown \/ next[k] # None THEN stamped[k] ELSE base[k]
  BY DEF Merged
<1>5. /\ \A k \in shown : /\ next[k] # base[k] => k \in Scope(base, u, TRUE)
                          /\ next[k] # None => SameAccess(next[k], base[k])
      /\ \A k \in Key \ shown : next[k] # None => base[k] = None
      /\ \A k \in Key : stamped[k] # view[k] => k \in Scope(stamped, u, TRUE)
  BY DEF Accepted
<1>6. \A k \in Key : /\ base[k] \in Row \cup {None}
                     /\ next[k] \in Row \cup {None}
  BY DEF Document
<1>7. after = [k \in Key |-> after[k]]
  BY DEF Merged
<1>8. \A k \in Key : view[k] # None => next[k] # None
  OBVIOUS
<1> HIDE DEF shown, view, stamped, after
<1>9. \A k \in Key : next[k] # None /\ view[k] = None =>
        /\ stamped[k] \in Row
        /\ stamped[k].tenant = tenantOf[u]
        /\ stamped[k].owner = u
        /\ stamped[k].readers = {}
  <2> SUFFICES ASSUME NEW k \in Key, next[k] # None, view[k] = None
               PROVE  /\ stamped[k] \in Row
                      /\ stamped[k].tenant = tenantOf[u]
                      /\ stamped[k].owner = u
                      /\ stamped[k].readers = {}
    OBVIOUS
  <2>1. next[k] \in Row
    BY <1>6
  <2>2. tenantOf[u] \in Tenant
    BY DEF Tenant
  <2>3. stamped[k] = [next[k] EXCEPT !.tenant = tenantOf[u], !.owner = u, !.readers = {}]
    BY <1>3
  <2> QED
    BY <2>1, <2>2, <2>3 DEF Row
<1>10. \A k \in Key : stamped[k] \in Row \cup {None}
  BY <1>3, <1>6, <1>9
<1>11. after \in Document
  BY <1>4, <1>6, <1>7, <1>10 DEF Document
<1>12. \A k \in Key : stamped[k] # None => after[k] = stamped[k]
  BY <1>3, <1>4
<1>13. Scope(stamped, u, TRUE) \subseteq Scope(after, u, TRUE)
  BY <1>12, ScopeGrows
<1>14. ASSUME NEW k \in Key, after[k] # base[k]
       PROVE  /\ k \in Scope(after, u, TRUE)
              /\ base[k] # None => /\ k \in Scope(base, u, TRUE)
                                   /\ SameAccess(after[k], base[k])
              /\ base[k] = None => /\ after[k].tenant = tenantOf[u]
                                   /\ after[k].owner = u
                                   /\ after[k].readers = {}
  <2>1. CASE k \in shown
    <3>1. view[k] = base[k] /\ base[k] # None
      BY <1>1, <1>2, <2>1
    <3>2. after[k] = next[k] /\ stamped[k] = next[k] /\ next[k] # None
      BY <1>3, <1>4, <1>8, <2>1, <3>1
    <3> QED
      BY <1>5, <1>13, <1>14, <2>1, <3>1, <3>2
  <2>2. CASE k \notin shown
    <3>1. next[k] # None /\ view[k] = None
      BY <1>1, <1>4, <1>14, <2>2
    <3>2. base[k] = None
      BY <1>5, <2>2, <3>1
    <3>3. after[k] = stamped[k]
      BY <1>4, <3>1
    <3>4. k \in Scope(after, u, TRUE)
      BY <1>5, <1>13, <1>14, <3>1, <3>2, <3>3
    <3> QED
      BY <1>9, <3>1, <3>2, <3>3, <3>4
  <2> QED
    BY <2>1, <2>2
<1> QED
  BY <1>11, <1>14 DEF after

(* ... and every row still hangs on a root of its own tenant.              *)
LEMMA WriteKeepsRooted ==
  ASSUME NEW u \in User, NEW base \in Document, NEW after \in Document,
         None \notin User,
         RootedIn(base),
         \A k \in Key : after[k] # base[k] =>
           /\ k \in Scope(after, u, TRUE)
           /\ base[k] # None => SameAccess(after[k], base[k])
           /\ base[k] = None => after[k].owner = u
  PROVE  RootedIn(after)
<1>1. ASSUME NEW k \in Scope(after, u, TRUE)
      PROVE  /\ after[k] # None
             /\ k \in Link => after[k].parent \in Root \cap Scope(after, u, TRUE)
             /\ k \in Leaf => after[k].parent \in Link \cap Scope(after, u, TRUE)
  BY ScopeMeans
<1>1a. ASSUME NEW k \in Scope(after, u, TRUE), after[k].owner # None
       PROVE  after[k].tenant = tenantOf[u]
  BY <1>1a, ScopeTenant
<1>1b. ASSUME NEW k \in Root \cap Scope(after, u, TRUE)
       PROVE  after[k].tenant = tenantOf[u]
  BY ScopeRoot
<1>2. \A k \in Key : base[k] # None =>
        after[k] # None /\ SameAccess(after[k], base[k])
  <2> SUFFICES ASSUME NEW k \in Key, base[k] # None
               PROVE  after[k] # None /\ SameAccess(after[k], base[k])
    OBVIOUS
  <2>1. CASE after[k] # base[k]
    BY <1>1, <2>1
  <2>2. CASE after[k] = base[k]
    BY <2>2 DEF SameAccess
  <2> QED
    BY <2>1, <2>2
<1>3. \A k \in Link \cup Leaf : after[k] # None => after[k].owner # None
  BY <1>2 DEF RootedIn, SameAccess, Key
<1>4. ASSUME NEW k \in Link, after[k] # None
      PROVE  /\ after[k].parent \in Root
             /\ after[after[k].parent] # None
             /\ after[k].tenant = after[after[k].parent].tenant
  <2>1. CASE after[k] # base[k]
    BY <1>1, <1>1a, <1>1b, <1>3, <1>4, <2>1 DEF Key
  <2>2. CASE after[k] = base[k]
    BY <1>2, <1>4, <2>2 DEF RootedIn, SameAccess, Key
  <2> QED
    BY <2>1, <2>2
<1>5. ASSUME NEW k \in Leaf, after[k] # None
      PROVE  /\ after[k].parent \in Link
             /\ after[after[k].parent] # None
             /\ after[k].tenant = after[after[k].parent].tenant
  <2>1. CASE after[k] # base[k]
    BY <1>1, <1>1a, <1>1b, <1>3, <1>5, <2>1 DEF Key
  <2>2. CASE after[k] = base[k]
    BY <1>2, <1>5, <2>2 DEF RootedIn, SameAccess, Key
  <2> QED
    BY <2>1, <2>2
<1> QED
  BY <1>3, <1>4, <1>5 DEF RootedIn

(* The two together, for the step of a request that writes.                *)
LEMMA WrittenStep ==
  ASSUME TypeOK, Rooted, NEW u \in User, NEW mode, NEW base \in Document,
         Written(u, mode, base)
  PROVE  /\ mem' \in Document /\ RootedIn(mem')
         /\ disk' \in {disk, mem'}
         /\ Records!Write(u)
<1> DEFINE view == scopedState(base, u, mode = "write")
<1>1. PICK next \in Edited(view, u) :
        /\ next \in Document
        /\ \A k \in Key : view[k] # None => next[k] # None
        /\ mem = base
        /\ Accepted(u, mode, base, next)
        /\ Stored(Merged(u, mode, base, next))
  BY DEF Written
<1>2. /\ mem' = Merged(u, mode, base, next)
      /\ disk' \in {disk, mem'}
  BY <1>1 DEF Stored
<1>3. /\ mem' \in Document
      /\ \A k \in Key : mem'[k] # mem[k] =>
           /\ k \in Scope(mem', u, TRUE)
           /\ mem[k] # None => /\ k \in Scope(mem, u, TRUE)
                               /\ SameAccess(mem'[k], mem[k])
           /\ mem[k] = None => /\ mem'[k].tenant = tenantOf[u]
                               /\ mem'[k].owner = u
                               /\ mem'[k].readers = {}
  <2> DEFINE after == Merged(u, mode, base, next)
  <2>1. /\ after \in Document
        /\ \A k \in Key : after[k] # base[k] =>
             /\ k \in Scope(after, u, TRUE)
             /\ base[k] # None => /\ k \in Scope(base, u, TRUE)
                                  /\ SameAccess(after[k], base[k])
             /\ base[k] = None => /\ after[k].tenant = tenantOf[u]
                                  /\ after[k].owner = u
                                  /\ after[k].readers = {}
    BY <1>1, WriteChanges
  <2> HIDE DEF after
  <2>2. mem' = after
    BY <1>2 DEF after
  <2> QED
    BY <1>1, <2>1, <2>2
<1>4. mem \in Document
  BY DEF TypeOK
<1>5. None \notin User
  BY StoreAssumption
<1> HIDE DEF view
<1>6. ASSUME NEW after, after = mem'
      PROVE  RootedIn(after)
  <2>1. after \in Document
    BY <1>3, <1>6
  <2>2. \A k \in Key : after[k] # mem[k] =>
           /\ k \in Scope(after, u, TRUE)
           /\ mem[k] # None => SameAccess(after[k], mem[k])
           /\ mem[k] = None => after[k].owner = u
    BY <1>3, <1>6
  <2>3. RootedIn(mem)
    BY DEF Rooted
  <2> QED
    BY <1>4, <1>5, <2>1, <2>2, <2>3, WriteKeepsRooted
<1>7. RootedIn(mem')
  BY <1>6
<1>8. ASSUME NEW after, after = mem'
      PROVE  \A k \in Key : after[k] # mem[k] =>
               after[k] # None /\ Records!MayChange(after, u, k)
  <2>1. after \in Document /\ \A k \in Key : after[k] # mem[k] => k \in Scope(after, u, TRUE)
    BY <1>3, <1>8
  <2> QED
    BY <2>1, ScopeMeans
<1>9. \A k \in Key : mem'[k] # mem[k] =>
        mem'[k] # None /\ Records!MayChange(mem', u, k)
  BY <1>8
<1>10. \A k \in Key : mem'[k] # mem[k] /\ mem[k] # None => Records!MayChange(mem, u, k)
  BY <1>3, <1>4, ScopeMeans
<1>11. Records!Key = Key /\ Records!Document = Document
  BY DEF Records!Key, Key, Records!Document, Document, Records!Row, Row, Tenant
<1>12. Records!Write(u)
  BY <1>2, <1>3, <1>9, <1>10, <1>11 DEF Records!Write, SameAccess
<1> QED
  BY <1>2, <1>3, <1>7, <1>12

(* Sharing changes readers, and gives a root without an owner its owner.   *)
LEMMA SharedStep ==
  ASSUME TypeOK, Rooted, NEW u \in User, NEW k \in Root,
         NEW readers \in SUBSET Reader, setRecordReaders(u, k, readers)
  PROVE  /\ mem' \in Document /\ RootedIn(mem')
         /\ disk' \in {disk, mem'}
         /\ Records!Share(u)
<1> DEFINE after == [mem EXCEPT ![k].readers = readers,
                               ![k].owner = IF @ = None THEN u ELSE @]
<1>1. /\ mem[k] # None
      /\ permittedRoot(mem[k], u, TRUE)
      /\ mem' = after /\ disk' \in {disk, after}
  BY DEF setRecordReaders, Stored
<1>2. k \in Key /\ mem \in Document /\ mem[k] \in Row
  BY <1>1 DEF TypeOK, Document, Key
<1>3. readers \in SUBSET User
  BY StoreAssumption
<1>4. /\ after[k] \in Row
      /\ after[k].tenant = mem[k].tenant
      /\ after[k] # None
      /\ \A j \in Key : j # k => after[j] = mem[j]
  BY <1>2, <1>3, NoneIsNoRow DEF Document, Row
<1>5. after \in Document
  BY <1>2, <1>4 DEF Document
<1>6. RootedIn(after)
  <2>1. k \notin Link /\ k \notin Leaf
    BY StoreAssumption
  <2> HIDE DEF after
  <2> QED
    BY <1>1, <1>2, <1>4, <2>1 DEF Rooted, RootedIn, Key
<1>7. Records!MayChange(mem, u, k)
  BY <1>1 DEF permittedRoot, Records!MayChange, Records!RootOf
<1>8. Records!Share(u)
  BY <1>1, <1>3, <1>7 DEF Records!Share
<1> QED
  BY <1>1, <1>5, <1>6, <1>8

-----------------------------------------------------------------------------
(* The invariant. *)

LEMMA InitTyped == Init => IInv
<1> SUFFICES ASSUME Init
             PROVE  IInv
  OBVIOUS
<1>1. PICK text \in Text :
        mem = [k \in Key |->
          IF k \in Old
          THEN [tenant |-> legacyTenant, owner |-> None, readers |-> {},
                parent |-> None, text |-> text]
          ELSE None]
  BY DEF Init
<1>2. Old # {} => legacyTenant \in Tenant
  BY StoreAssumption
<1>3. mem \in Document
  BY <1>1, <1>2 DEF Document, Row
<1>4. disk = mem /\ calls = [c \in Call |-> Idle]
  BY DEF Init
<1>5. \A k \in Link \cup Leaf : mem[k] = None
  BY <1>1, StoreAssumption DEF Key
<1>6. Rooted
  BY <1>4, <1>5 DEF Rooted, RootedIn
<1> QED
  BY <1>3, <1>4, <1>6 DEF IInv, TypeOK

(* Every step either is one of the abstract document or leaves it alone,   *)
(* and keeps it and the file typed and rooted.                             *)
LEMMA EveryStep ==
  ASSUME IInv, [Next]_vars
  PROVE  /\ mem' \in Document /\ disk' \in Document
         /\ RootedIn(mem') /\ RootedIn(disk')
         /\ Records!Next \/ UNCHANGED <<mem, disk>>
<1> USE DEF IInv
<1>1. /\ mem \in Document /\ disk \in Document
      /\ RootedIn(mem) /\ RootedIn(disk)
      /\ calls \in [Call -> {Idle} \cup [who : User, mode : Mode, base : Document]]
  BY DEF TypeOK, Rooted
<1>2. ASSUME NEW u \in User, NEW mode, NEW base \in Document, Written(u, mode, base)
      PROVE  /\ mem' \in Document /\ disk' \in Document
             /\ RootedIn(mem') /\ RootedIn(disk')
             /\ Records!Next
  <2>1. /\ mem' \in Document /\ RootedIn(mem')
        /\ disk' \in {disk, mem'}
        /\ Records!Write(u)
    BY <1>2, WrittenStep
  <2>2. RootedIn(disk')
    BY <1>1, <2>1
  <2> QED
    BY <1>1, <2>1, <2>2 DEF Records!Next
<1>3. ASSUME NEW u \in User, NEW mode \in Mode, HandledAtOnce(u, mode)
      PROVE  /\ mem' \in Document /\ disk' \in Document
             /\ RootedIn(mem') /\ RootedIn(disk')
             /\ Records!Next
  <2> SUFFICES ASSUME NEW base \in Document, base = mem
               PROVE  Written(u, mode, base)
    BY <1>1, <1>2
  <2> QED
    BY <1>3 DEF HandledAtOnce
<1>4. ASSUME NEW c \in Call, Writes(c)
      PROVE  /\ mem' \in Document /\ disk' \in Document
             /\ RootedIn(mem') /\ RootedIn(disk')
             /\ Records!Next
  <2>1. calls[c] \in [who : User, mode : Mode, base : Document]
    BY <1>1, <1>4 DEF Writes
  <2> SUFFICES ASSUME NEW u \in User, NEW mode, NEW base \in Document,
                      u = calls[c].who, mode = calls[c].mode, base = calls[c].base
               PROVE  Written(u, mode, base)
    BY <1>2, <2>1
  <2> QED
    BY <1>4 DEF Writes
<1>5. ASSUME NEW u \in User, NEW k \in Root, NEW readers \in SUBSET Reader,
             setRecordReaders(u, k, readers)
      PROVE  /\ mem' \in Document /\ disk' \in Document
             /\ RootedIn(mem') /\ RootedIn(disk')
             /\ Records!Next
  <2>1. /\ mem' \in Document /\ RootedIn(mem')
        /\ disk' \in {disk, mem'}
        /\ Records!Share(u)
    BY <1>5, SharedStep
  <2>2. RootedIn(disk')
    BY <1>1, <2>1
  <2> QED
    BY <1>1, <2>1, <2>2 DEF Records!Next
<1>6. CASE Restart
  <2>1. Empty \in Document /\ RootedIn(Empty)
    BY DEF Empty, Document, RootedIn, Key
  <2>2. Records!Restart
    BY <1>6 DEF Restart, Records!Restart, Empty, Records!Empty, Key, Records!Key
  <2>3. mem' \in {disk, Empty} /\ disk' = disk
    BY <1>6 DEF Restart
  <2>4. mem' \in Document /\ RootedIn(mem') /\ RootedIn(disk')
    BY <1>1, <2>1, <2>3
  <2> QED
    BY <1>1, <2>2, <2>3, <2>4 DEF Records!Next
<1>7. CASE UNCHANGED <<mem, disk>>
  <2>1. RootedIn(mem') /\ RootedIn(disk')
    BY <1>1, <1>7
  <2> QED
    BY <1>1, <1>7, <2>1
<1>8. ASSUME NEW c \in Call, Ends(c) \/ \E u \in User, mode \in Mode : Begins(c, u, mode)
      PROVE  UNCHANGED <<mem, disk>>
  BY <1>8 DEF Ends, Begins
<1> QED
  BY <1>3, <1>4, <1>5, <1>6, <1>7, <1>8 DEF Next, vars

(* What a request captures is a document.                                  *)
LEMMA CallsTyped ==
  ASSUME TypeOK, [Next]_vars
  PROVE  calls' \in [Call -> {Idle} \cup [who : User, mode : Mode, base : Document]]
<1>1. CASE \E u \in User, mode \in Mode : HandledAtOnce(u, mode)
  BY <1>1 DEF HandledAtOnce, TypeOK
<1>2. ASSUME NEW c \in Call, NEW u \in User, NEW mode \in Mode, Begins(c, u, mode)
      PROVE  calls' \in [Call -> {Idle} \cup [who : User, mode : Mode, base : Document]]
  BY <1>2 DEF Begins, TypeOK
<1>3. ASSUME NEW c \in Call, Writes(c) \/ Ends(c)
      PROVE  calls' \in [Call -> {Idle} \cup [who : User, mode : Mode, base : Document]]
  BY <1>3 DEF Writes, Ends, TypeOK
<1>4. CASE \E u \in User, k \in Root, readers \in SUBSET Reader : setRecordReaders(u, k, readers)
  BY <1>4 DEF setRecordReaders, TypeOK
<1>5. CASE Restart
  BY <1>5 DEF Restart, TypeOK
<1>6. CASE UNCHANGED vars
  BY <1>6 DEF vars, TypeOK
<1> QED
  BY <1>1, <1>2, <1>3, <1>4, <1>5, <1>6 DEF Next

(* Types and roots are kept by every step.                                 *)
LEMMA Invariance == Spec => []IInv
<1>1. ASSUME IInv, [Next]_vars
      PROVE  IInv'
  <2>1. TypeOK
    BY <1>1 DEF IInv
  <2>2. calls' \in [Call -> {Idle} \cup [who : User, mode : Mode, base : Document]]
    BY <1>1, <2>1, CallsTyped
  <2>3. /\ mem' \in Document /\ disk' \in Document
        /\ RootedIn(mem') /\ RootedIn(disk')
    BY <1>1, EveryStep
  <2> QED
    BY <2>2, <2>3 DEF IInv, TypeOK, Rooted
<1> QED
  BY InitTyped, <1>1, PTL DEF Spec

-----------------------------------------------------------------------------
(* The theorems. *)

(* Document, file and captured documents have the right shape.             *)
THEOREM StoreTyped == Spec => []TypeOK
<1>1. IInv => TypeOK
  BY DEF IInv
<1> QED
  BY Invariance, <1>1, PTL

(* No step of any user, no failed write and no restart leaves a row        *)
(* without a root of its own tenant (scoped-store.ts, replace).            *)
THEOREM EverythingRooted == Spec => []Rooted
<1>1. IInv => Rooted
  BY DEF IInv
<1> QED
  BY Invariance, <1>1, PTL

(* scopedState, conflict check, access checks and merge of scoped-store.ts *)
(* implement one document that users change atomically within their        *)
(* rights.                                                                 *)
THEOREM StoreImplementsRecords == Spec => ImplementsRecords
<1>1. Init => Records!Init
  <2> SUFFICES ASSUME Init
               PROVE  Records!Init
    OBVIOUS
  <2>1. mem \in Document
    BY InitTyped DEF IInv, TypeOK
  <2>2. PICK text \in Text :
        mem = [k \in Key |->
          IF k \in Old
          THEN [tenant |-> legacyTenant, owner |-> None, readers |-> {},
                parent |-> None, text |-> text]
          ELSE None]
    BY DEF Init
  <2>3. Records!Key = Key /\ Records!Document = Document
    BY DEF Records!Key, Key, Records!Document, Document, Records!Row, Row, Tenant
  <2>4. \A k \in Key : mem[k] # None =>
          k \in Root /\ mem[k].owner = None /\ mem[k].readers = {}
    BY <2>2, StoreAssumption
  <2>5. disk = mem
    BY DEF Init
  <2> QED
    BY <2>1, <2>3, <2>4, <2>5 DEF Records!Init
<1>2. ASSUME IInv, [Next]_vars
      PROVE  [Records!Next]_<<mem, disk>>
  BY <1>2, EveryStep
<1> QED
  BY Invariance, <1>1, <1>2, PTL DEF Spec, ImplementsRecords, Records!Spec
=============================================================================
