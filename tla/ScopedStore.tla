------------------------------ MODULE ScopedStore ------------------------------
(***************************************************************************)
(* The store between handlers and document: scoped-store.ts over           *)
(* FileSponsumStore of store.ts, with the request context of               *)
(* access-context.ts.                                                      *)
(*                                                                         *)
(* A request is shown the rows of its principal.  It may await something   *)
(* before it writes; the write is checked against what was captured,       *)
(* stamped, and merged into the whole document, which is kept in memory    *)
(* and then written to a file.                                             *)
(*                                                                         *)
(* A row is its access record, what it hangs on, and a text for everything *)
(* else.  Ids of KYC rows and profiles are made unique per tenant by the   *)
(* code, so a key here is one row.                                         *)
(***************************************************************************)
CONSTANTS
  User, Admin,    \* Admin: administrators of their own tenant
  tenantOf,
  Root,           \* ids of assets, capital_needs, buyer_profiles, kyc
  Link,           \* ids of rows with a receivable_id or a need_id
  Leaf,           \* ids of rows with an offer_id, trade_id (or one further)
  Text,
  Mode,           \* of a request: GET "read", POST "write", none "both"
  Call,           \* requests that await something between read and write
  None,
  Reader,         \* users that rows are shared with
  Old,            \* roots from before rows had owners
  legacyTenant,
  Edited(_, _)    \* what the handlers make of the rows a user is shown

Tenant == {tenantOf[u] : u \in User}
Key == Root \cup Link \cup Leaf

ASSUME StoreAssumption ==
  /\ Admin \subseteq User /\ Reader \subseteq User
  /\ tenantOf \in [User -> Tenant]
  /\ Root \cap Link = {} /\ Root \cap Leaf = {} /\ Link \cap Leaf = {}
  /\ None \notin User \cup Key
  /\ Mode \subseteq {"read", "write", "both"}
  /\ Old \subseteq Root
  /\ Old # {} => legacyTenant \in Tenant /\ Text # {}

VARIABLES
  mem,     \* the document in memory
  disk,    \* the document in the file
  calls    \* requests under way, with the document each has captured

vars == <<mem, disk, calls>>

Row ==
  [tenant : Tenant, owner : User \cup {None}, readers : SUBSET User,
   parent : Key \cup {None}, text : Text]

ASSUME NoneIsNoRow == None \notin Row

Document == [Key -> Row \cup {None}]
Empty == [k \in Key |-> None]

Idle == [who |-> None, mode |-> "read", base |-> Empty]

(* Every variable has the shape of what it stands for.                     *)
TypeOK ==
  /\ mem \in Document
  /\ disk \in Document
  /\ calls \in [Call -> {Idle} \cup [who : User, mode : Mode, base : Document]]

Init ==
  /\ \E text \in Text :
       mem = [k \in Key |->
         IF k \in Old
         THEN [tenant |-> legacyTenant, owner |-> None, readers |-> {},
               parent |-> None, text |-> text]
         ELSE None]
  /\ disk = mem
  /\ calls = [c \in Call |-> Idle]

-----------------------------------------------------------------------------
(* What a user is shown. *)

(* A row without an access record (owner None) is shown to admins only.    *)
permittedRoot(row, u, write) ==
  /\ row.tenant = tenantOf[u]
  /\ u \in Admin \/ row.owner = u \/ (~write /\ u \in row.readers)

Linked(doc, u, kind, above) ==
  {k \in kind :
     /\ doc[k] # None
     /\ doc[k].owner = None \/ doc[k].tenant = tenantOf[u]
     /\ doc[k].parent \in above}

(* The rows of scopedState(doc, u, write).                                 *)
Scope(doc, u, write) ==
  LET roots == {k \in Root : doc[k] # None /\ permittedRoot(doc[k], u, write)}
      links == Linked(doc, u, Link, roots)
  IN  roots \cup links \cup Linked(doc, u, Leaf, links)

scopedState(doc, u, write) ==
  LET shown == Scope(doc, u, write)
  IN  [k \in Key |-> IF k \in shown THEN doc[k] ELSE None]

-----------------------------------------------------------------------------
(* What a write has to be. *)

SameAccess(a, b) ==
  a.tenant = b.tenant /\ a.owner = b.owner /\ a.readers = b.readers

(* New rows become the writer's.                                           *)
Stamped(u, view, next) ==
  [k \in Key |->
     IF next[k] # None /\ view[k] = None
     THEN [next[k] EXCEPT !.tenant = tenantOf[u], !.owner = u, !.readers = {}]
     ELSE next[k]]

\* Mutant: relations of new and changed rows are not looked at.
Accepted_AnyLink(u, mode, base, next) ==
  LET shown == Scope(base, u, mode = "write")
      may == Scope(base, u, TRUE)
  IN  /\ mode # "read"
      /\ \A k \in shown :
           /\ next[k] # base[k] => k \in may
           /\ next[k] # None => SameAccess(next[k], base[k])
      /\ \A k \in Key \ shown : next[k] # None =>
           /\ base[k] = None
           /\ next[k].owner = None
           /\ k \in Root => next[k].tenant = tenantOf[u]

(* replace() does not deny: rows that were shown are changed only where    *)
(* they may be, with their access record untouched; a new row takes no     *)
(* hidden row's id and brings no access record; what is new or changed     *)
(* hangs on a writable root.                                               *)
Accepted(u, mode, base, next) ==
  LET view == scopedState(base, u, mode = "write")
      shown == Scope(base, u, mode = "write")
      may == Scope(base, u, TRUE)
      stamped == Stamped(u, view, next)
      allowed == Scope(stamped, u, TRUE)
  IN  /\ mode # "read"
      /\ \A k \in shown :
           /\ next[k] # base[k] => k \in may
           /\ next[k] # None => SameAccess(next[k], base[k])
      /\ \A k \in Key \ shown : next[k] # None =>
           /\ base[k] = None
           /\ next[k].owner = None
           /\ k \in Root => next[k].tenant = tenantOf[u]
      /\ \A k \in Key : stamped[k] # view[k] => k \in allowed

(* The whole document after the write; rows that were not shown stay.      *)
Merged(u, mode, base, next) ==
  LET shown == Scope(base, u, mode = "write")
      stamped == Stamped(u, scopedState(base, u, mode = "write"), next)
  IN  [k \in Key |-> IF k \in shown \/ next[k] # None THEN stamped[k] ELSE base[k]]

(* Memory first, then the file; if writing the file fails, the handler     *)
(* throws and memory keeps the change.                                     *)
Stored(next) == mem' = next /\ disk' \in {disk, next}

\* Mutant: what others wrote since the snapshot is not noticed.
Written_Unchecked(u, mode, base) ==
  LET view == scopedState(base, u, mode = "write")
  IN  \E next \in Edited(view, u) :
        /\ next \in Document
        /\ \A k \in Key : view[k] # None => next[k] # None
        /\ Accepted(u, mode, base, next)
        /\ Stored(Merged(u, mode, base, next))

(* replace() in a request of u that captured base: refused ("conflict") if *)
(* the document has changed since.  No handler takes a row out.            *)
Written(u, mode, base) ==
  LET view == scopedState(base, u, mode = "write")
  IN  \E next \in Edited(view, u) :
        /\ next \in Document
        /\ \A k \in Key : view[k] # None => next[k] # None
        /\ mem = base
        /\ Accepted(u, mode, base, next)
        /\ Stored(Merged(u, mode, base, next))

-----------------------------------------------------------------------------

(* A handler without await: snapshot and replace in one turn.              *)
HandledAtOnce(u, mode) ==
  /\ Written(u, mode, mem)
  /\ UNCHANGED calls

(* A handler up to its await.                                              *)
Begins(c, u, mode) ==
  /\ calls[c] = Idle
  /\ calls' = [calls EXCEPT ![c] = [who |-> u, mode |-> mode, base |-> mem]]
  /\ UNCHANGED <<mem, disk>>

(* It resumes and writes.                                                  *)
Writes(c) ==
  /\ calls[c] # Idle
  /\ Written(calls[c].who, calls[c].mode, calls[c].base)
  /\ calls' = [calls EXCEPT ![c] = Idle]

(* It was a read, throws, or its write is denied or in conflict.           *)
Ends(c) ==
  /\ calls[c] # Idle
  /\ calls' = [calls EXCEPT ![c] = Idle]
  /\ UNCHANGED <<mem, disk>>

(* On the raw store, in one turn; calls under way meet a conflict.         *)
setRecordReaders(u, k, readers) ==
  /\ mem[k] # None
  /\ permittedRoot(mem[k], u, TRUE)
  /\ Stored([mem EXCEPT ![k].readers = readers,
                        ![k].owner = IF @ = None THEN u ELSE @])
  /\ UNCHANGED calls

(* loadState: the file, or nothing if it cannot be read.                   *)
Restart ==
  /\ mem' \in {disk, Empty}
  /\ calls' = [c \in Call |-> Idle]
  /\ UNCHANGED disk

Next ==
  \/ \E u \in User, mode \in Mode : HandledAtOnce(u, mode)
  \/ \E c \in Call, u \in User, mode \in Mode : Begins(c, u, mode)
  \/ \E c \in Call : Writes(c) \/ Ends(c)
  \/ \E u \in User, k \in Root, readers \in SUBSET Reader : setRecordReaders(u, k, readers)
  \/ Restart

Spec == Init /\ [][Next]_vars

-----------------------------------------------------------------------------
(* Properties. *)

RootedIn(doc) ==
  /\ \A k \in Link : doc[k] # None =>
       /\ doc[k].parent \in Root
       /\ doc[doc[k].parent] # None
       /\ doc[k].owner # None
       /\ doc[k].tenant = doc[doc[k].parent].tenant
  /\ \A k \in Leaf : doc[k] # None =>
       /\ doc[k].parent \in Link
       /\ doc[doc[k].parent] # None
       /\ doc[k].owner # None
       /\ doc[k].tenant = doc[doc[k].parent].tenant

(* Whatever handlers do and in whatever order their writes, shares, failed *)
(* file writes and restarts come: every row hangs on a root of its own     *)
(* tenant, in memory and in the file.                                      *)
Rooted == RootedIn(mem) /\ RootedIn(disk)

Records == INSTANCE SharedRecords WITH records <- mem, saved <- disk

(* Snapshots, scopes, conflict check and merge amount to this: each step   *)
(* changes only what one user may change at that moment, foreign rows are  *)
(* kept, shared ones are read-only, owners and readers stay.               *)
ImplementsRecords == Records!Spec
=============================================================================
