----------------------- MODULE SignedInstruments_proofs -----------------------
(***************************************************************************)
(* Proofs about SignedInstruments.  The state of a waiting call is a       *)
(* second copy of the store, so the invariant says of that copy what it    *)
(* says of the store, and that the copy extends the snapshot it was made   *)
(* from.  The check in `replace` does the rest.                            *)
(***************************************************************************)
EXTENDS SignedInstruments, TLAPS

(* Every row is of a role its document has, on a document that exists, and *)
(* a PENDING one knows its request.                                        *)
RowsFit(s) ==
  \A d \in Document : \A row \in s.sigs[d] :
    /\ row.role \in RolesOf(d)
    /\ row.status = "PENDING" => row.req # None
    /\ Exists(s, d)

Sound(s) == DrawerFirstIn(s) /\ AcceptanceSignedIn(s) /\ RowsFit(s)

(* Every row agrees with its request at Skribble.                          *)
Backed(s) ==
  \A d \in Document : \A row \in s.sigs[d] :
    row.req # None =>
      /\ remote[row.req].state # "none"
      /\ row.status = "PENDING" => row.quality = remote[row.req].asked
      /\ row.status = "SIGNED" =>
           /\ remote[row.req].state = "signed"
           /\ Honoured(remote[row.req].asked, remote[row.req].given)

(* t has every completed signature of s, and no draft has fallen back.     *)
Grows(s, t) ==
  /\ \A d \in Document : Signed(s, d) \subseteq Signed(t, d)
  /\ \A d \in Draft : StatusRank(s.status[d]) <= StatusRank(t.status[d])

(* What a handler that resumes can rely on.                                *)
CallOK(k) ==
  /\ k.step # "idle" =>
       /\ k.doc \in Document
       /\ Exists(k.work, k.doc)
       /\ Sound(k.work)
       /\ Backed(k.work)
       /\ Grows(k.base, k.work)
  /\ k.step \in {"asking", "asked"} =>
       /\ k.quality \in Asked
       /\ k.role \in RolesOf(k.doc)
       /\ k.doc \in Draft /\ k.role # "DRAWER" => hasSignature(k.work, k.doc, "DRAWER")
  /\ k.step = "asked" =>
       /\ k.req \in Request
       /\ remote[k.req].state # "none"
       /\ remote[k.req].asked = k.quality
  /\ k.step = "syncing" =>
       k.queue \subseteq {row \in k.work.sigs[k.doc] : row.status = "PENDING"}

IInv ==
  /\ TypeOK
  /\ Sound(store)
  /\ Backed(store)
  /\ \A c \in Call : CallOK(calls[c])

-----------------------------------------------------------------------------
(* A completed signature in a store.                                       *)

(* Completed yields a store again.                                         *)
LEMMA CompletedType ==
  ASSUME NEW s \in Store, NEW d \in Document, NEW old \in Row, NEW row \in Row,
         row.role \in RolesOf(d)
  PROVE  Completed(s, d, old, row) \in Store
PROOF
<1> DEFINE own == OwnDrawee(s, d, row)
           t == Completed(s, d, old, row)
<1>1. own \subseteq Row
  BY DEF OwnDrawee, Row, DraftRole
<1>2. row.role \in {"DRAWER", "DRAWEE"} => d \in Draft
  BY DEF RolesOf, ZessionRole
<1>3. own # {} => d \in Draft
  BY <1>2 DEF OwnDrawee
<1>4. d \in Draft => StatusAfter(s, d, row.role) \in
        {"ABSENT", "DRAFT", "ISSUED", "ACKNOWLEDGED", "SECURED", "ASSIGNED"}
  BY DEF StatusAfter, Store
<1>5. [s.sigs EXCEPT ![d] = (@ \ {old}) \cup {row} \cup own]
        \in [Document -> SUBSET Row]
  BY <1>1 DEF Store
<1>6. (IF d \in Draft THEN [s.status EXCEPT ![d] = StatusAfter(s, d, row.role)]
       ELSE s.status)
        \in [Draft -> {"ABSENT", "DRAFT", "ISSUED", "ACKNOWLEDGED", "SECURED", "ASSIGNED"}]
  BY <1>4 DEF Store
<1>7. (IF row.role = "DRAWEE" \/ own # {} THEN s.accepted \cup {d} ELSE s.accepted)
        \in SUBSET Draft
  BY <1>2, <1>3 DEF Store
<1> QED
  BY <1>5, <1>6, <1>7 DEF Completed, Store

(* The parts of the store Completed changes, read off one by one.          *)
LEMMA CompletedParts ==
  ASSUME NEW s \in Store, NEW d \in Document, NEW old \in Row, NEW row \in Row
  PROVE  /\ Completed(s, d, old, row).sigs[d] =
               (s.sigs[d] \ {old}) \cup {row} \cup OwnDrawee(s, d, row)
         /\ \A e \in Document :
              e # d => Completed(s, d, old, row).sigs[e] = s.sigs[e]
         /\ d \in Draft =>
              Completed(s, d, old, row).status[d] = StatusAfter(s, d, row.role)
         /\ \A e \in Draft :
              e # d => Completed(s, d, old, row).status[e] = s.status[e]
         /\ Completed(s, d, old, row).of = s.of
PROOF
<1> DEFINE own == OwnDrawee(s, d, row)
           t == Completed(s, d, old, row)
<1>1. t.sigs = [s.sigs EXCEPT ![d] = (@ \ {old}) \cup {row} \cup own]
  BY DEF Completed, Store
<1>2. t.status = IF d \in Draft
                 THEN [s.status EXCEPT ![d] = StatusAfter(s, d, row.role)]
                 ELSE s.status
  BY DEF Completed, Store
<1>4. t.of = s.of
  BY DEF Completed, Store
<1>5. DOMAIN s.sigs = Document /\ DOMAIN s.status = Draft
  BY DEF Store
<1> QED
  BY <1>1, <1>2, <1>4, <1>5

(* Who has accepted after it.                                              *)
LEMMA CompletedAccepted ==
  ASSUME NEW s \in Store, NEW d \in Document, NEW old \in Row, NEW row \in Row
  PROVE  Completed(s, d, old, row).accepted =
           IF row.role = "DRAWEE" \/ OwnDrawee(s, d, row) # {}
           THEN s.accepted \cup {d} ELSE s.accepted
BY DEF Completed, Store

(* Nothing that was complete is undone.                                    *)
LEMMA CompletedGrows ==
  ASSUME NEW s \in Store, NEW d \in Document, NEW old \in Row, NEW row \in Row,
         row.status = "SIGNED", old.status = "PENDING" \/ old = row
  PROVE  Grows(s, Completed(s, d, old, row))
PROOF
<1> DEFINE t == Completed(s, d, old, row)
<1>0. /\ t.sigs[d] = (s.sigs[d] \ {old}) \cup {row} \cup OwnDrawee(s, d, row)
      /\ \A e \in Document : e # d => t.sigs[e] = s.sigs[e]
      /\ d \in Draft => t.status[d] = StatusAfter(s, d, row.role)
      /\ \A e \in Draft : e # d => t.status[e] = s.status[e]
  BY CompletedParts
<1> HIDE DEF t
<1>1. ASSUME NEW e \in Document
      PROVE  Signed(s, e) \subseteq Signed(t, e)
  <2>1. CASE e = d
    BY <1>0, <2>1 DEF Signed
  <2>2. CASE e # d
    BY <1>0, <2>2 DEF Signed
  <2> QED
    BY <2>1, <2>2
<1>2. ASSUME NEW e \in Draft
      PROVE  StatusRank(s.status[e]) <= StatusRank(t.status[e])
  <2>1. StatusRank(s.status[e]) \in Nat
    BY DEF StatusRank
  <2>2. CASE e = d
    <3>1. t.status[e] = StatusAfter(s, e, row.role)
      BY <1>0, <2>2
    <3> QED
      BY <3>1 DEF StatusAfter, StatusRank
  <2>3. CASE e # d
    BY <1>0, <2>1, <2>3
  <2> QED
    BY <2>2, <2>3
<1> QED
  BY <1>1, <1>2 DEF Grows, t

(* The drawee's row a SOLA gets with its drawer's.                         *)
LEMMA OwnRow ==
  ASSUME NEW s \in Store, NEW d \in Document, NEW row \in Row,
         row.status = "SIGNED", row.role \in RolesOf(d)
  PROVE  /\ OwnDrawee(s, d, row) # {} => row.role = "DRAWER" /\ d \in Sola /\ d \in Draft
         /\ \A x \in OwnDrawee(s, d, row) :
              x \in Row /\ x.role = "DRAWEE" /\ x.status = "SIGNED" /\ x.req = None
         /\ row.role = "DRAWER" /\ d \in Sola /\ ~hasSignature(s, d, "DRAWEE") =>
              OwnDrawee(s, d, row) # {}
BY DEF OwnDrawee, Row, RolesOf, ZessionRole, DraftRole

(* Who has signed d afterwards: whoever had, the role of the row, and the  *)
(* drawee of a SOLA if it was the drawer's.                                *)
LEMMA CompletedSigned ==
  ASSUME NEW s \in Store, NEW d \in Document, NEW old \in Row, NEW row \in Row,
         row.status = "SIGNED", old.status = "PENDING" \/ old = row,
         row.role \in RolesOf(d), NEW role
  PROVE  hasSignature(Completed(s, d, old, row), d, role) <=>
           \/ hasSignature(s, d, role)
           \/ role = row.role
           \/ role = "DRAWEE" /\ OwnDrawee(s, d, row) # {}
PROOF
<1> DEFINE t == Completed(s, d, old, row)
           own == OwnDrawee(s, d, row)
<1>1. t.sigs[d] = (s.sigs[d] \ {old}) \cup {row} \cup own
  BY CompletedParts
<1>2. \A x \in own : x.role = "DRAWEE" /\ x.status = "SIGNED"
  BY OwnRow
<1> HIDE DEF t, own
<1>3. hasSignature(t, d, role) => hasSignature(s, d, role) \/ role = row.role
                                    \/ (role = "DRAWEE" /\ own # {})
  BY <1>1, <1>2 DEF hasSignature, Signed
<1>4. hasSignature(s, d, role) => hasSignature(t, d, role)
  BY <1>1 DEF hasSignature, Signed
<1>5. role = row.role => hasSignature(t, d, role)
  BY <1>1 DEF hasSignature, Signed
<1>6. role = "DRAWEE" /\ own # {} => hasSignature(t, d, role)
  BY <1>1, <1>2 DEF hasSignature, Signed
<1> QED
  BY <1>3, <1>4, <1>5, <1>6 DEF t, own

(* A document still exists after a signature.                              *)
LEMMA CompletedExists ==
  ASSUME NEW s \in Store, NEW d \in Document, NEW old \in Row, NEW row \in Row,
         NEW e \in Document, Exists(s, e)
  PROVE  Exists(Completed(s, d, old, row), e)
PROOF
<1> DEFINE t == Completed(s, d, old, row)
<1>1. /\ d \in Draft => t.status[d] = StatusAfter(s, d, row.role)
      /\ \A x \in Draft : x # d => t.status[x] = s.status[x]
      /\ t.of = s.of
  BY CompletedParts
<1> HIDE DEF t
<1>2. CASE e \in Draft
  BY <1>1, <1>2 DEF Exists, StatusAfter, t
<1>3. CASE e \notin Draft
  BY <1>1, <1>3 DEF Exists, t
<1> QED
  BY <1>2, <1>3

(* What holds of signatures and status in a store holds once another       *)
(* signature is complete, if it was that party's turn.                     *)
LEMMA CompletedSound ==
  ASSUME NEW s \in Store, NEW d \in Document, NEW old \in Row, NEW row \in Row,
         row.status = "SIGNED", old.status = "PENDING" \/ old = row,
         row.role \in RolesOf(d), Exists(s, d), Sound(s),
         d \in Draft /\ row.role # "DRAWER" => hasSignature(s, d, "DRAWER")
  PROVE  Sound(Completed(s, d, old, row))
PROOF
<1> DEFINE t == Completed(s, d, old, row)
           own == OwnDrawee(s, d, row)
<1>1. /\ t.sigs[d] = (s.sigs[d] \ {old}) \cup {row} \cup own
      /\ \A e \in Document : e # d => t.sigs[e] = s.sigs[e]
      /\ d \in Draft => t.status[d] = StatusAfter(s, d, row.role)
      /\ \A e \in Draft : e # d => t.status[e] = s.status[e]
      /\ t.of = s.of
  BY CompletedParts
<1>2. t.accepted = IF row.role = "DRAWEE" \/ own # {}
                   THEN s.accepted \cup {d} ELSE s.accepted
  BY CompletedAccepted
<1>3. \A role : hasSignature(t, d, role) <=>
        hasSignature(s, d, role) \/ role = row.role \/ (role = "DRAWEE" /\ own # {})
  BY CompletedSigned
<1>4. /\ own # {} => row.role = "DRAWER" /\ d \in Sola /\ d \in Draft
      /\ \A x \in own : x.role = "DRAWEE" /\ x.status = "SIGNED"
  BY OwnRow
<1>5. \A e \in Document : Exists(s, e) => Exists(t, e)
  BY CompletedExists
<1>6. \A role : \A e \in Document : e # d => (hasSignature(t, e, role) <=> hasSignature(s, e, role))
  BY <1>1 DEF hasSignature, Signed
<1> HIDE DEF t, own
<1>7. d \in Draft => hasSignature(t, d, "DRAWER")
  BY <1>3
<1>8. DrawerFirstIn(t)
  <2> SUFFICES ASSUME NEW e \in Draft, ~hasSignature(t, e, "DRAWER")
               PROVE  /\ t.status[e] \in {"ABSENT", "DRAFT"}
                      /\ e \notin t.accepted
                      /\ \A x \in t.sigs[e] : x.role = "DRAWER"
                      /\ \A z \in Zession : t.of[z] # e
    BY DEF DrawerFirstIn
  <2>1. e # d /\ e \in Document
    BY <1>7 DEF Document
  <2>2. ~hasSignature(s, e, "DRAWER")
    BY <1>6, <2>1
  <2> QED
    BY <1>1, <1>2, <2>1, <2>2 DEF Sound, DrawerFirstIn
<1>9. AcceptanceSignedIn(t)
  <2> SUFFICES ASSUME NEW e \in Draft
               PROVE  /\ e \in t.accepted <=> hasSignature(t, e, "DRAWEE")
                      /\ e \in t.accepted =>
                           t.status[e] \in {"ACKNOWLEDGED", "SECURED", "ASSIGNED"}
    BY DEF AcceptanceSignedIn
  <2>0. e \in Document
    BY DEF Document
  <2>1. /\ e \in s.accepted <=> hasSignature(s, e, "DRAWEE")
        /\ e \in s.accepted => s.status[e] \in {"ACKNOWLEDGED", "SECURED", "ASSIGNED"}
    BY DEF Sound, AcceptanceSignedIn
  <2>2. CASE e # d
    BY <1>1, <1>2, <1>6, <2>0, <2>1, <2>2
  <2>3. CASE e = d
    <3>1. e \in t.accepted <=> hasSignature(t, e, "DRAWEE")
      BY <1>2, <1>3, <2>1, <2>3
    <3>2. s.status[e] \in {"DRAFT", "ISSUED", "ACKNOWLEDGED", "SECURED", "ASSIGNED"}
      BY <2>3 DEF Store, Exists
    <3>3. row.role = "DRAWEE" \/ own # {} =>
            t.status[e] \in {"ACKNOWLEDGED", "SECURED", "ASSIGNED"}
      BY <1>1, <1>4, <2>3, <3>2 DEF StatusAfter
    <3>4. e \in s.accepted => t.status[e] \in {"ACKNOWLEDGED", "SECURED", "ASSIGNED"}
      BY <1>1, <2>1, <2>3 DEF StatusAfter
    <3> QED
      BY <1>2, <2>3, <3>1, <3>3, <3>4
  <2> QED
    BY <2>2, <2>3
<1>10. RowsFit(t)
  <2> SUFFICES ASSUME NEW e \in Document, NEW x \in t.sigs[e]
               PROVE  /\ x.role \in RolesOf(e)
                      /\ x.status = "PENDING" => x.req # None
                      /\ Exists(t, e)
    BY DEF RowsFit
  <2>1. CASE x \in s.sigs[e]
    BY <1>5, <2>1 DEF Sound, RowsFit
  <2>2. CASE x \notin s.sigs[e]
    <3>1. e = d /\ (x = row \/ x \in own)
      BY <1>1, <2>2
    <3> QED
      BY <1>4, <1>5, <3>1 DEF RolesOf, DraftRole
  <2> QED
    BY <2>1, <2>2
<1> QED
  BY <1>8, <1>9, <1>10 DEF Sound, t

(* Nor does it come to differ from what Skribble says.                     *)
LEMMA CompletedBacked ==
  ASSUME NEW s \in Store, NEW d \in Document, NEW old \in Row, NEW row \in Row,
         row.status = "SIGNED", row.role \in RolesOf(d), Backed(s),
         row.req # None =>
           /\ remote[row.req].state = "signed"
           /\ Honoured(remote[row.req].asked, remote[row.req].given)
  PROVE  Backed(Completed(s, d, old, row))
PROOF
<1> DEFINE t == Completed(s, d, old, row)
           own == OwnDrawee(s, d, row)
<1>1. /\ t.sigs[d] = (s.sigs[d] \ {old}) \cup {row} \cup own
      /\ \A e \in Document : e # d => t.sigs[e] = s.sigs[e]
  BY CompletedParts
<1>2. \A x \in own : x.req = None
  BY OwnRow
<1> HIDE DEF t, own
<1> QED
  BY <1>1, <1>2 DEF Backed, t

-----------------------------------------------------------------------------
(* Steps.                                                                  *)

(* Skribble only answers what was open and opens what was not there.       *)
RemoteOnward ==
  \A r \in Request :
    \/ remote'[r] = remote[r]
    \/ remote[r].state = "none"
    \/ /\ remote[r].state = "open"
       /\ remote'[r].state # "none"
       /\ remote'[r].asked = remote[r].asked

(* Rows agree with Skribble still after a step of Skribble.                *)
LEMMA BackedOnward ==
  ASSUME NEW s \in Store, Backed(s), RemoteOnward
  PROVE  Backed(s)'
PROOF
<1> SUFFICES ASSUME NEW d \in Document, NEW row \in s.sigs[d], row.req # None
             PROVE  /\ remote'[row.req].state # "none"
                    /\ row.status = "PENDING" => row.quality = remote'[row.req].asked
                    /\ row.status = "SIGNED" =>
                         /\ remote'[row.req].state = "signed"
                         /\ Honoured(remote'[row.req].asked, remote'[row.req].given)
  BY DEF Backed, Honoured
<1>1. row.req \in Request
  BY DEF Store, Row
<1>2. /\ remote[row.req].state # "none"
      /\ row.status = "PENDING" => row.quality = remote[row.req].asked
      /\ row.status = "SIGNED" =>
           /\ remote[row.req].state = "signed"
           /\ Honoured(remote[row.req].asked, remote[row.req].given)
  BY DEF Backed
<1>3. row.status \in {"PENDING", "SIGNED"}
  BY DEF Store, Row
<1> QED
  BY <1>1, <1>2, <1>3 DEF RemoteOnward

(* So does all that a waiting call relies on.                              *)
LEMMA CallOnward ==
  ASSUME NEW k, k.work \in Store, CallOK(k), RemoteOnward
  PROVE  CallOK(k)'
PROOF
<1>1. k.step # "idle" => Backed(k.work)'
  BY BackedOnward DEF CallOK
<1>2. k.step = "asked" => remote'[k.req].state # "none" /\ remote'[k.req].asked = k.quality
  BY DEF CallOK, RemoteOnward
<1> QED
  BY <1>1, <1>2 DEF CallOK, Sound, DrawerFirstIn, AcceptanceSignedIn, RowsFit, Exists,
     Grows, Signed, hasSignature, RolesOf, StatusRank

(* A call that has ended relies on nothing.                                *)
LEMMA IdleOK == CallOK(Idle)'
BY DEF CallOK, Idle

(* A write that leaves the signatures alone keeps a store sound if nobody  *)
(* who has accepted falls back, and nothing unsigned moves.                *)
LEMMA FrameSound ==
  ASSUME NEW s \in Store, NEW t \in Store, Sound(s),
         t.sigs = s.sigs, t.accepted = s.accepted,
         \A e \in s.accepted : t.status[e] \in {"ACKNOWLEDGED", "SECURED", "ASSIGNED"},
         \A e \in Draft : ~hasSignature(s, e, "DRAWER") =>
            /\ t.status[e] \in {"ABSENT", "DRAFT"}
            /\ \A z \in Zession : t.of[z] # e,
         \A e \in Document : Exists(s, e) => Exists(t, e)
  PROVE  Sound(t)
PROOF
<1>1. \A e, role : hasSignature(t, e, role) <=> hasSignature(s, e, role)
  BY DEF hasSignature, Signed
<1>2. DrawerFirstIn(t)
  BY <1>1 DEF Sound, DrawerFirstIn
<1>3. AcceptanceSignedIn(t)
  BY <1>1 DEF Sound, AcceptanceSignedIn
<1>4. RowsFit(t)
  BY DEF Sound, RowsFit
<1> QED
  BY <1>2, <1>3, <1>4 DEF Sound

(* The empty store is one, and what a call starts with has its shape.      *)
LEMMA EmptyType == EmptyStore \in Store
BY SigningAssumption DEF EmptyStore, Store

(* An ended call has the shape of one.                                     *)
LEMMA IdleType == Idle \in CallRecord
BY EmptyType DEF Idle, CallRecord, DraftRole

(* A store without a document is sound.                                    *)
LEMMA InitInv == Init => IInv
PROOF
<1> SUFFICES ASSUME Init PROVE IInv
  OBVIOUS
<1>1. TypeOK
  <2>1. NoRequest \in [state : {"none", "open", "signed", "declined"},
          asked : Asked \cup {"QES"}, given : Delivered \cup {"QES"}]
    BY DEF NoRequest
  <2>2. Idle \in CallRecord
    BY IdleType
  <2> QED
    BY <2>1, <2>2, EmptyType DEF Init, TypeOK
<1>2. \A e \in Document : store.sigs[e] = {}
  BY DEF Init, EmptyStore
<1>3. Sound(store)
  <2>1. /\ \A e \in Draft : store.status[e] = "ABSENT"
        /\ store.accepted = {}
        /\ \A z \in Zession : store.of[z] = None
    BY DEF Init, EmptyStore
  <2>2. \A role : \A e \in Draft : ~hasSignature(store, e, role)
    BY <1>2 DEF hasSignature, Signed, Document
  <2>3. \A e \in Draft : e # None /\ e \in Document
    BY SigningAssumption DEF Document
  <2> QED
    BY <1>2, <2>1, <2>2, <2>3 DEF Sound, DrawerFirstIn, AcceptanceSignedIn, RowsFit
<1>4. Backed(store)
  BY <1>2 DEF Backed
<1>5. \A c \in Call : CallOK(calls[c])
  BY DEF Init, CallOK, Idle
<1> QED
  BY <1>1, <1>3, <1>4, <1>5 DEF IInv

(* A write without a wait: the calls are untouched or have all ended.      *)
LEMMA WriteInv ==
  ASSUME IInv, UNCHANGED remote, UNCHANGED calls \/ calls' = [c \in Call |-> Idle],
         store' \in Store, Sound(store'), Backed(store')
  PROVE  IInv'
PROOF
<1>1. RemoteOnward
  BY DEF RemoteOnward
<1>2. Idle \in CallRecord
  BY IdleType
<1>3. TypeOK'
  BY <1>2 DEF IInv, TypeOK
<1>4. Sound(store)'
  BY DEF Sound, DrawerFirstIn, AcceptanceSignedIn, RowsFit, Exists, hasSignature, Signed, RolesOf
<1>5. Backed(store)'
  BY DEF Backed, Honoured
<1>6. ASSUME NEW c \in Call PROVE CallOK(calls[c])'
  <2>1. calls[c].work \in Store /\ CallOK(calls[c])
    BY DEF IInv, TypeOK, CallRecord
  <2>2. CASE calls'[c] = calls[c]
    <3>1. CallOK(calls[c]) /\ calls[c].work \in Store
      BY <2>1
    <3> QED
      BY <1>1, <2>2, <3>1, CallOnward DEF CallOK, Backed, Honoured, Sound, DrawerFirstIn,
         AcceptanceSignedIn, RowsFit, Exists, Grows, Signed, hasSignature, RolesOf, StatusRank
  <2>3. CASE calls'[c] = Idle
    BY <2>3 DEF CallOK, Idle
  <2> QED
    BY <2>2, <2>3
<1> QED
  BY <1>3, <1>4, <1>5, <1>6 DEF IInv

(* A step of one call.                                                     *)
LEMMA CallInv ==
  ASSUME IInv, RemoteOnward, NEW c \in Call, NEW k \in CallRecord,
         calls' = [calls EXCEPT ![c] = k], CallOK(k)',
         remote' \in [Request ->
           [state : {"none", "open", "signed", "declined"},
            asked : Asked \cup {"QES"}, given : Delivered \cup {"QES"}]],
         store' \in Store, Sound(store'), Backed(store)'
  PROVE  IInv'
PROOF
<1>1. TypeOK'
  BY DEF IInv, TypeOK
<1>2. Sound(store)'
  BY DEF Sound, DrawerFirstIn, AcceptanceSignedIn, RowsFit, Exists, hasSignature, Signed, RolesOf
<1>3. ASSUME NEW e \in Call PROVE CallOK(calls[e])'
  <2>1. calls[e].work \in Store /\ CallOK(calls[e]) /\ calls \in [Call -> CallRecord]
    BY DEF IInv, TypeOK, CallRecord
  <2>2. CASE e = c
    <3>1. calls'[e] = k
      BY <2>1, <2>2
    <3> QED
      BY <3>1 DEF CallOK, Backed, Honoured, Sound, DrawerFirstIn,
         AcceptanceSignedIn, RowsFit, Exists, Grows, Signed, hasSignature, RolesOf, StatusRank
  <2>3. CASE e # c
    <3>1. calls'[e] = calls[e]
      BY <2>1, <2>3
    <3>2. CallOK(calls[e])
      BY <2>1
    <3>3. calls[e].work \in Store
      BY <2>1
    <3>4. ASSUME NEW q, q = calls[e]
          PROVE  CallOK(q)'
      BY <3>2, <3>3, <3>4, CallOnward
    <3> QED
      BY <3>1, <3>4 DEF CallOK, Backed, Honoured, Sound, DrawerFirstIn,
         AcceptanceSignedIn, RowsFit, Exists, Grows, Signed, hasSignature, RolesOf, StatusRank
  <2> QED
    BY <2>2, <2>3
<1> QED
  BY <1>1, <1>2, <1>3 DEF IInv

(* A step of one call that writes nothing and asks nothing of Skribble.    *)
LEMMA CallStarts ==
  ASSUME IInv, NEW c \in Call, NEW k \in CallRecord, k.work \in Store, CallOK(k),
         calls' = [calls EXCEPT ![c] = k], UNCHANGED <<store, remote>>
  PROVE  IInv'
PROOF
<1>1. RemoteOnward
  BY DEF RemoteOnward
<1>2. CallOK(k)'
  BY <1>1, CallOnward
<1>3. Backed(store)'
  BY DEF IInv, Backed, Honoured
<1> QED
  BY <1>1, <1>2, <1>3, CallInv DEF IInv, TypeOK

(* A write by a call that had to wait: either nothing, or its own store.   *)
LEMMA ReplacedInv ==
  ASSUME IInv, NEW c \in Call, NEW next \in Store, NEW base,
         Replaced(base, next), Sound(next), Backed(next),
         calls' = [calls EXCEPT ![c] = Idle], UNCHANGED remote
  PROVE  IInv'
PROOF
<1>1. RemoteOnward
  BY DEF RemoteOnward
<1>2. /\ store' \in Store
      /\ Sound(store')
      /\ Backed(store')
  BY DEF Replaced, IInv, TypeOK
<1>3. Backed(store)'
  BY <1>2 DEF Backed, Honoured
<1> QED
  BY <1>1, <1>2, <1>3, CallInv, IdleOK, IdleType DEF IInv, TypeOK

(* Writes that touch no signature.                                         *)
LEMMA PlainWrites ==
  ASSUME IInv,
         \/ \E d \in Draft : createWechselDraft(d) \/ addWechselGuarantee(d)
         \/ \E d \in Draft, z \in Zession : assignWechsel(d, z) \/ AssignCut(d, z)
         \/ WriteElsewhere
  PROVE  /\ IInv'
         /\ Grows(store, store')
PROOF
<1>1. store \in Store /\ Sound(store) /\ Backed(store)
  BY DEF IInv, TypeOK
<1>2. \A e \in Draft :
        /\ ~hasSignature(store, e, "DRAWER") =>
             /\ store.status[e] \in {"ABSENT", "DRAFT"}
             /\ \A z \in Zession : store.of[z] # e
        /\ e \in store.accepted =>
             store.status[e] \in {"ACKNOWLEDGED", "SECURED", "ASSIGNED"}
  BY <1>1 DEF Sound, DrawerFirstIn, AcceptanceSignedIn
<1>3. /\ store' \in Store
      /\ store'.sigs = store.sigs
      /\ store'.accepted = store.accepted
      /\ UNCHANGED remote
      /\ UNCHANGED calls \/ calls' = [c \in Call |-> Idle]
      /\ \A e \in Draft : ~hasSignature(store, e, "DRAWER") =>
           /\ store'.status[e] \in {"ABSENT", "DRAFT"}
           /\ \A z \in Zession : store'.of[z] # e
      /\ \A e \in store.accepted :
           store'.status[e] \in {"ACKNOWLEDGED", "SECURED", "ASSIGNED"}
      /\ \A e \in Draft : StatusRank(store.status[e]) <= StatusRank(store'.status[e])
      /\ \A e \in Draft : store.status[e] # "ABSENT" => store'.status[e] # "ABSENT"
      /\ \A z \in Zession : store.of[z] # None => store'.of[z] # None
  <2>1. ASSUME NEW d \in Draft, createWechselDraft(d) PROVE <1>3!:
    BY <1>1, <1>2, <2>1 DEF createWechselDraft, Store, StatusRank
  <2>2. ASSUME NEW d \in Draft, addWechselGuarantee(d) PROVE <1>3!:
    <3>1. /\ store'.of = store.of
          /\ store'.sigs = store.sigs
          /\ store'.accepted = store.accepted
          /\ store'.status = [store.status EXCEPT ![d] =
               IF @ \in {"DRAFT", "ACKNOWLEDGED"} THEN "SECURED" ELSE @]
          /\ UNCHANGED <<remote, calls>>
          /\ hasSignature(store, d, "DRAWER")
      BY <1>1, <2>2 DEF addWechselGuarantee, Store
    <3>2. store' \in Store
      <4>1. store.others + 1 \in 0 .. MaxWrites
        <5>1. store.others \in 0 .. MaxWrites
          BY <1>1 DEF Store
        <5>2. store.others < MaxWrites
          BY <2>2 DEF addWechselGuarantee
        <5> QED
          BY <5>1, <5>2, SigningAssumption
      <4>2. [store.status EXCEPT ![d] = IF @ \in {"DRAFT", "ACKNOWLEDGED"} THEN "SECURED" ELSE @]
              \in [Draft -> {"ABSENT", "DRAFT", "ISSUED", "ACKNOWLEDGED", "SECURED", "ASSIGNED"}]
        BY <1>1 DEF Store
      <4> QED
        BY <1>1, <2>2, <4>1, <4>2 DEF addWechselGuarantee, Store
    <3>3. /\ store.status \in [Draft -> {"ABSENT", "DRAFT", "ISSUED", "ACKNOWLEDGED",
                                       "SECURED", "ASSIGNED"}]
          /\ store.accepted \subseteq Draft
      BY <1>1 DEF Store
    <3> QED
      BY <1>2, <3>1, <3>2, <3>3 DEF StatusRank
  <2>3. ASSUME NEW d \in Draft, NEW z \in Zession, assignWechsel(d, z) PROVE <1>3!:
    <3>1. /\ store'.of = [store.of EXCEPT ![z] = d]
          /\ store'.sigs = store.sigs
          /\ store'.accepted = store.accepted
          /\ store'.status = [store.status EXCEPT ![d] = "ASSIGNED"]
          /\ store' \in Store
          /\ UNCHANGED remote
          /\ hasSignature(store, d, "DRAWER")
          /\ UNCHANGED calls
      BY <1>1, <2>3 DEF assignWechsel, Store
    <3>2. /\ store.status \in [Draft -> {"ABSENT", "DRAFT", "ISSUED", "ACKNOWLEDGED",
                                       "SECURED", "ASSIGNED"}]
          /\ store.of \in [Zession -> Draft \cup {None}]
          /\ store.accepted \subseteq Draft
          /\ d # None
      BY <1>1, SigningAssumption DEF Store
    <3> QED
      BY <1>2, <3>1, <3>2 DEF StatusRank
  <2>4. ASSUME NEW d \in Draft, NEW z \in Zession, AssignCut(d, z) PROVE <1>3!:
    <3>1. /\ store'.of = [store.of EXCEPT ![z] = d]
          /\ store'.sigs = store.sigs
          /\ store'.accepted = store.accepted
          /\ store'.status = store.status
          /\ store' \in Store
          /\ UNCHANGED remote
          /\ hasSignature(store, d, "DRAWER")
          /\ calls' = [c \in Call |-> Idle]
      BY <1>1, <2>4 DEF AssignCut, Store
    <3>2. /\ store.status \in [Draft -> {"ABSENT", "DRAFT", "ISSUED", "ACKNOWLEDGED",
                                       "SECURED", "ASSIGNED"}]
          /\ store.of \in [Zession -> Draft \cup {None}]
          /\ store.accepted \subseteq Draft
          /\ d # None
      BY <1>1, SigningAssumption DEF Store
    <3> QED
      BY <1>2, <3>1, <3>2 DEF StatusRank
  <2>5. CASE WriteElsewhere
    BY <1>1, <1>2, <2>5, SigningAssumption DEF WriteElsewhere, Store, StatusRank
  <2> QED
    BY <2>1, <2>2, <2>3, <2>4, <2>5
<1>4. Sound(store')
  <2>1. \A e \in Document : Exists(store, e) => Exists(store', e)
    BY <1>3 DEF Exists, Document
  <2> QED
    BY <1>1, <1>3, <2>1, FrameSound
<1>5. Backed(store')
  BY <1>1, <1>3 DEF Backed
<1>6. Grows(store, store')
  BY <1>3 DEF Grows, Signed
<1> QED
  BY <1>3, <1>4, <1>5, <1>6, WriteInv

(* A simple signature.                                                     *)
LEMMA SimpleSignature ==
  ASSUME IInv, NEW d \in Document, NEW role \in RolesOf(d), SignNow(d, role)
  PROVE  /\ IInv'
         /\ Grows(store, store')
PROOF
<1> DEFINE row == [role |-> role, status |-> "SIGNED", quality |-> "SES", req |-> None]
<1>1. store \in Store /\ Sound(store) /\ Backed(store)
  BY DEF IInv, TypeOK
<1>2. /\ Exists(store, d)
      /\ d \in Draft /\ role # "DRAWER" => hasSignature(store, d, "DRAWER")
      /\ store' = Completed(store, d, row, row)
      /\ UNCHANGED <<remote, calls>>
  BY DEF SignNow, MaySign
<1>3. /\ row \in Row
      /\ row.status = "SIGNED" /\ row.role = role /\ row.req = None
  BY DEF Row, RolesOf
<1> HIDE DEF row
<1>4. store' \in Store
  BY <1>1, <1>2, <1>3, CompletedType
<1>5. Sound(store')
  BY <1>1, <1>2, <1>3, CompletedSound
<1>6. Backed(store')
  BY <1>1, <1>2, <1>3, CompletedBacked
<1>7. Grows(store, store')
  BY <1>1, <1>2, <1>3, CompletedGrows
<1> QED
  BY <1>2, <1>4, <1>5, <1>6, <1>7, WriteInv

(* A handler that begins to wait writes nothing.                           *)
LEMMA Waiting ==
  ASSUME IInv,
         NEW c \in Call,
         \/ \E d \in Document : \E role \in RolesOf(d), q \in Asked :
              StartSigning(c, d, role, q)
         \/ \E r \in Request : RequestCreated(c, r)
         \/ \E d \in Document : StartSync(c, d)
         \/ CallFails(c)
  PROVE  IInv' /\ UNCHANGED store
PROOF
<1>1. /\ store \in Store /\ Sound(store) /\ Backed(store)
      /\ calls \in [Call -> CallRecord]
      /\ calls[c] \in CallRecord /\ CallOK(calls[c])
      /\ remote \in [Request ->
           [state : {"none", "open", "signed", "declined"},
            asked : Asked \cup {"QES"}, given : Delivered \cup {"QES"}]]
  BY DEF IInv, TypeOK
<1>2. Grows(store, store)
  BY <1>1 DEF Grows, StatusRank
<1>3. ASSUME NEW d \in Document, NEW role \in RolesOf(d), NEW q \in Asked,
             StartSigning(c, d, role, q)
      PROVE  IInv' /\ UNCHANGED store
  <2> DEFINE k == [Idle EXCEPT !.step = "asking", !.doc = d, !.role = role,
                               !.quality = q, !.base = store, !.work = store]
  <2>1. /\ calls' = [calls EXCEPT ![c] = k]
        /\ UNCHANGED <<store, remote>>
        /\ Exists(store, d)
        /\ d \in Draft /\ role # "DRAWER" => hasSignature(store, d, "DRAWER")
    BY <1>3 DEF StartSigning, MaySign
  <2>2. k \in CallRecord
    BY <1>1, IdleType DEF CallRecord, RolesOf
  <2>3. CallOK(k)
    BY <1>1, <1>2, <2>1 DEF CallOK, Idle
  <2>4. k.work \in Store
    BY <1>1 DEF Idle
  <2> QED
    BY <1>1, <2>1, <2>2, <2>3, <2>4, CallStarts
<1>4. ASSUME NEW r \in Request, RequestCreated(c, r)
      PROVE  IInv' /\ UNCHANGED store
  <2> DEFINE k == [calls[c] EXCEPT !.step = "asked", !.req = r]
  <2>1. /\ calls' = [calls EXCEPT ![c] = k]
        /\ calls[c].step = "asking"
        /\ remote[r].state = "none"
        /\ remote' = [remote EXCEPT ![r] =
             [state |-> "open", asked |-> calls[c].quality, given |-> "QES"]]
        /\ UNCHANGED store
    BY <1>1, <1>4 DEF RequestCreated, CallRecord
  <2>2. RemoteOnward
    BY <1>1, <2>1 DEF RemoteOnward
  <2>3. k \in CallRecord
    BY <1>1 DEF CallRecord
  <2>4. calls[c].quality \in Asked
    BY <1>1, <2>1 DEF CallOK
  <2>5. remote' \in [Request ->
           [state : {"none", "open", "signed", "declined"},
            asked : Asked \cup {"QES"}, given : Delivered \cup {"QES"}]]
    BY <1>1, <2>1, <2>4
  <2>6. calls[c].work \in Store
    BY <1>1 DEF CallRecord
  <2>7. ASSUME NEW p, p = calls[c] PROVE CallOK(p)'
    BY <1>1, <2>2, <2>6, <2>7, CallOnward
  <2>8. /\ k.work = calls[c].work /\ k.base = calls[c].base /\ k.doc = calls[c].doc
        /\ k.quality = calls[c].quality /\ k.role = calls[c].role
        /\ k.step = "asked" /\ k.req = r
    BY <1>1 DEF CallRecord
  <2>9. remote'[r].state = "open" /\ remote'[r].asked = calls[c].quality
    BY <1>1, <2>1
  <2> HIDE DEF k
  <2>10. ASSUME NEW p, p = k PROVE CallOK(p)'
    <3>1. PICK o : o = calls[c]
      OBVIOUS
    <3>2. CallOK(o)'
      BY <2>7, <3>1
    <3>3. /\ p.work = o.work /\ p.base = o.base /\ p.doc = o.doc
          /\ p.quality = o.quality /\ p.role = o.role
          /\ p.step = "asked" /\ p.req = r /\ o.step = "asking"
          /\ remote'[r].state = "open" /\ remote'[r].asked = o.quality
      BY <2>1, <2>8, <2>9, <2>10, <3>1
    <3> QED
      BY <3>2, <3>3 DEF CallOK
  <2>11. Backed(store)'
    <3>1. PICK s : s = store
      OBVIOUS
    <3>2. Backed(s)'
      BY <1>1, <2>2, <3>1, BackedOnward
    <3> QED
      BY <2>1, <3>1, <3>2 DEF Backed, Honoured
  <2>12. PICK p \in CallRecord : p = k
    BY <2>3
  <2> QED
    BY <1>1, <2>1, <2>2, <2>5, <2>10, <2>11, <2>12, CallInv
<1>5. ASSUME NEW d \in Document, StartSync(c, d)
      PROVE  IInv' /\ UNCHANGED store
  <2> DEFINE k == [Idle EXCEPT !.step = "syncing", !.doc = d, !.base = store, !.work = store,
                     !.queue = {row \in store.sigs[d] : row.status = "PENDING"}]
  <2>1. /\ calls' = [calls EXCEPT ![c] = k]
        /\ UNCHANGED <<store, remote>>
        /\ Exists(store, d)
    BY <1>5 DEF StartSync
  <2>2. {row \in store.sigs[d] : row.status = "PENDING"} \in SUBSET Row
    BY <1>1 DEF Store
  <2>3. k \in CallRecord
    BY <1>1, <2>2, IdleType DEF CallRecord
  <2>4. CallOK(k)
    BY <1>1, <1>2, <2>1 DEF CallOK, Idle
  <2>5. k.work \in Store
    BY <1>1 DEF Idle
  <2> QED
    BY <1>1, <2>1, <2>3, <2>4, <2>5, CallStarts
<1>6. ASSUME CallFails(c)
      PROVE  IInv' /\ UNCHANGED store
  <2>1. /\ calls' = [calls EXCEPT ![c] = Idle]
        /\ UNCHANGED <<store, remote>>
    BY <1>6 DEF CallFails
  <2>2. CallOK(Idle) /\ Idle.work \in Store
    BY EmptyType DEF CallOK, Idle
  <2> QED
    BY <1>1, <2>1, <2>2, IdleType, CallStarts
<1> QED
  BY <1>3, <1>4, <1>5, <1>6

(* The answer of Skribble is written as a PENDING row, or not at all.      *)
LEMMA RowAddedInv ==
  ASSUME IInv, NEW c \in Call, RowAdded(c)
  PROVE  /\ IInv'
         /\ Grows(store, store')
PROOF
<1> DEFINE k == calls[c]
           row == [role |-> k.role, status |-> "PENDING", quality |-> k.quality, req |-> k.req]
           next == [k.work EXCEPT !.sigs[k.doc] = @ \cup {row}]
<1>1. /\ k \in CallRecord /\ CallOK(k) /\ k.step = "asked"
      /\ Replaced(k.base, next)
      /\ calls' = [calls EXCEPT ![c] = Idle]
      /\ UNCHANGED remote
      /\ store \in Store
  BY DEF IInv, TypeOK, RowAdded
<1>2. /\ k.work \in Store /\ k.doc \in Document /\ k.role \in RolesOf(k.doc)
      /\ k.req \in Request /\ k.req # None /\ k.quality \in {"AES", "QES"}
      /\ Exists(k.work, k.doc) /\ Sound(k.work) /\ Backed(k.work) /\ Grows(k.base, k.work)
      /\ k.doc \in Draft /\ k.role # "DRAWER" => hasSignature(k.work, k.doc, "DRAWER")
      /\ remote[k.req].state # "none" /\ remote[k.req].asked = k.quality
  BY <1>1, SigningAssumption DEF CallOK, CallRecord
<1>3. /\ row \in Row
      /\ row.role = k.role /\ row.status = "PENDING" /\ row.req = k.req
      /\ row.quality = k.quality
  BY <1>2 DEF Row, RolesOf
<1>4. PICK s \in Store : s = k.work
  BY <1>2
<1>5. PICK d \in Document : d = k.doc
  BY <1>2
<1> HIDE DEF row
<1>6. next = [s EXCEPT !.sigs[d] = @ \cup {row}]
  BY <1>4, <1>5
<1> HIDE DEF next
<1>6a. [s.sigs EXCEPT ![d] = @ \cup {row}] \in [Document -> SUBSET Row]
  BY <1>3 DEF Store
<1>6b. next.sigs = [s.sigs EXCEPT ![d] = @ \cup {row}]
  BY <1>6 DEF Store
<1>7. /\ next \in Store
      /\ next.sigs[d] = s.sigs[d] \cup {row}
      /\ \A e \in Document : e # d => next.sigs[e] = s.sigs[e]
      /\ next.status = s.status /\ next.of = s.of /\ next.accepted = s.accepted
  <2>1. next \in Store
    BY <1>6, <1>6a DEF Store
  <2>2. DOMAIN s.sigs = Document
    BY DEF Store
  <2>3. next.status = s.status /\ next.of = s.of /\ next.accepted = s.accepted
    BY <1>6 DEF Store
  <2> QED
    BY <1>6b, <2>1, <2>2, <2>3
<1>8. \A e \in Document : Signed(next, e) = Signed(s, e)
  BY <1>3, <1>7 DEF Signed
<1>9. \A r : \A e \in Document : hasSignature(next, e, r) <=> hasSignature(s, e, r)
  BY <1>8 DEF hasSignature
<1>10. Sound(next)
  <2>1. DrawerFirstIn(next)
    BY <1>2, <1>3, <1>4, <1>5, <1>7, <1>9 DEF Sound, DrawerFirstIn, Document
  <2>2. AcceptanceSignedIn(next)
    BY <1>2, <1>4, <1>7, <1>9 DEF Sound, AcceptanceSignedIn, Document
  <2>3. RowsFit(next)
    BY <1>2, <1>3, <1>4, <1>5, <1>7 DEF Sound, RowsFit, Exists
  <2> QED
    BY <2>1, <2>2, <2>3 DEF Sound
<1>11. Backed(next)
  BY <1>2, <1>3, <1>4, <1>5, <1>7 DEF Backed
<1>12. Grows(k.base, next)
  BY <1>2, <1>4, <1>7, <1>8 DEF Grows
<1>13. Grows(store, store')
  BY <1>1, <1>12 DEF Replaced, Grows, Store, StatusRank
<1> QED
  BY <1>1, <1>7, <1>10, <1>11, <1>13, ReplacedInv

(* One answer within a sync.                                               *)
LEMMA SyncAnsweredInv ==
  ASSUME IInv, NEW c \in Call, NEW row \in calls[c].queue, SyncAnswered(c, row)
  PROVE  IInv' /\ UNCHANGED store
PROOF
<1> DEFINE k == calls[c]
           answer == remote[row.req]
           done == [row EXCEPT !.status = "SIGNED", !.quality = Recorded(answer.given)]
           rest == [k EXCEPT !.queue = @ \ {row}]
           next == IF answer.state # "signed" THEN rest
                   ELSE IF Honoured(row.quality, answer.given)
                   THEN [rest EXCEPT !.work = Completed(@, k.doc, row, done)]
                   ELSE Idle
<1>1. /\ k \in CallRecord /\ CallOK(k) /\ k.step = "syncing"
      /\ calls' = [calls EXCEPT ![c] = next]
      /\ UNCHANGED <<store, remote>>
  BY DEF IInv, TypeOK, SyncAnswered
<1>2. /\ k.work \in Store /\ k.doc \in Document
      /\ Exists(k.work, k.doc) /\ Sound(k.work) /\ Backed(k.work) /\ Grows(k.base, k.work)
      /\ k.queue \subseteq {x \in k.work.sigs[k.doc] : x.status = "PENDING"}
      /\ k.queue \in SUBSET Row
  BY <1>1 DEF CallOK, CallRecord
<1>3. /\ row \in Row /\ row.status = "PENDING" /\ row \in k.work.sigs[k.doc]
      /\ row.role \in RolesOf(k.doc) /\ row.req # None
  BY <1>2 DEF Sound, RowsFit
<1>4. rest \in CallRecord /\ CallOK(rest) /\ rest.work \in Store
  <2>1. rest \in CallRecord
    BY <1>1 DEF CallRecord
  <2>2. /\ rest.work = k.work /\ rest.base = k.base /\ rest.doc = k.doc
        /\ rest.step = "syncing" /\ rest.queue = k.queue \ {row}
    BY <1>1 DEF CallRecord
  <2> HIDE DEF rest
  <2> QED
    BY <1>2, <2>1, <2>2 DEF CallOK
<1>5. CASE answer.state # "signed"
  BY <1>1, <1>4, <1>5, CallStarts
<1>6. CASE answer.state = "signed" /\ ~Honoured(row.quality, answer.given)
  <2>1. CallOK(Idle) /\ Idle.work \in Store
    BY EmptyType DEF CallOK, Idle
  <2> QED
    BY <1>1, <1>6, <2>1, IdleType, CallStarts
<1>7. CASE answer.state = "signed" /\ Honoured(row.quality, answer.given)
  <2> DEFINE t == Completed(k.work, k.doc, row, done)
             new == [rest EXCEPT !.work = t]
  <2>1. answer.asked = row.quality
    BY <1>2, <1>3 DEF Backed
  <2>2. /\ done \in Row /\ done.status = "SIGNED" /\ done.role = row.role
        /\ done.req = row.req
    BY <1>3 DEF Row, Recorded
  <2>3. k.doc \in Draft /\ row.role # "DRAWER" => hasSignature(k.work, k.doc, "DRAWER")
    BY <1>2, <1>3 DEF Sound, DrawerFirstIn
  <2> HIDE DEF done
  <2>4. t \in Store
    BY <1>2, <1>3, <2>2, CompletedType
  <2>5. Sound(t)
    BY <1>2, <1>3, <2>2, <2>3, CompletedSound
  <2>6. Backed(t)
    BY <1>2, <1>3, <1>7, <2>1, <2>2, CompletedBacked
  <2>7. Grows(k.work, t)
    BY <1>2, <1>3, <2>2, CompletedGrows
  <2>8. Exists(t, k.doc)
    BY <1>2, <1>3, <2>2, CompletedExists
  <2>9. t.sigs[k.doc] = (k.work.sigs[k.doc] \ {row}) \cup {done} \cup OwnDrawee(k.work, k.doc, done)
    BY <1>2, <1>3, <2>2, CompletedParts
  <2> HIDE DEF t
  <2>10. /\ new \in CallRecord
         /\ new.work = t /\ new.base = k.base /\ new.doc = k.doc
         /\ new.step = "syncing" /\ new.queue = k.queue \ {row}
    BY <1>1, <2>4 DEF CallRecord
  <2>11. calls' = [calls EXCEPT ![c] = new]
    BY <1>1, <1>4, <1>7 DEF t
  <2> HIDE DEF new
  <2>12. Grows(k.base, t)
    BY <1>1, <1>2, <2>4, <2>7 DEF Grows, CallRecord, Store, StatusRank
  <2>13. CallOK(new)
    BY <1>2, <2>5, <2>6, <2>8, <2>9, <2>10, <2>12 DEF CallOK
  <2> QED
    BY <1>1, <2>4, <2>10, <2>11, <2>13, CallStarts
<1> QED
  BY <1>5, <1>6, <1>7

(* A sync is written as a whole, or not at all.                            *)
LEMMA SyncWrittenInv ==
  ASSUME IInv, NEW c \in Call, SyncWritten(c)
  PROVE  /\ IInv'
         /\ Grows(store, store')
PROOF
<1>1. /\ calls[c] \in CallRecord /\ CallOK(calls[c])
      /\ calls[c].step = "syncing"
      /\ Replaced(calls[c].base, calls[c].work)
      /\ calls' = [calls EXCEPT ![c] = Idle]
      /\ UNCHANGED remote
      /\ store \in Store
  BY DEF IInv, TypeOK, SyncWritten
<1>2. /\ calls[c].work \in Store /\ Sound(calls[c].work) /\ Backed(calls[c].work)
      /\ Grows(calls[c].base, calls[c].work)
  BY <1>1 DEF CallOK, CallRecord
<1>3. Grows(store, store')
  BY <1>1, <1>2 DEF Replaced, Grows, Store, StatusRank
<1> QED
  BY <1>1, <1>2, <1>3, ReplacedInv

-----------------------------------------------------------------------------
(* Theorems.                                                               *)

(* Every step keeps the invariant and takes nothing back.                  *)
LEMMA NextInv ==
  ASSUME IInv, [Next]_vars
  PROVE  /\ IInv'
         /\ Grows(store, store')
PROOF
<1>0. Grows(store, store)
  BY DEF Grows, StatusRank
<1>1. CASE UNCHANGED vars
  <2>1. UNCHANGED <<store, remote, calls>>
    BY <1>1 DEF vars
  <2>2. Sound(store') /\ Backed(store') /\ store' \in Store
    BY <2>1 DEF IInv, TypeOK
  <2> QED
    BY <1>0, <2>1, <2>2, WriteInv
<1>2. CASE \/ \E d \in Draft : createWechselDraft(d) \/ addWechselGuarantee(d)
           \/ \E d \in Draft, z \in Zession : assignWechsel(d, z) \/ AssignCut(d, z)
           \/ WriteElsewhere
  BY <1>2, PlainWrites
<1>3. CASE \E d \in Document : \E role \in RolesOf(d) : SignNow(d, role)
  BY <1>3, SimpleSignature
<1>4. CASE \E c \in Call : RowAdded(c)
  BY <1>4, RowAddedInv
<1>5. CASE \E c \in Call : SyncWritten(c)
  BY <1>5, SyncWrittenInv
<1>6. CASE \E c \in Call : \E row \in calls[c].queue : SyncAnswered(c, row)
  BY <1>0, <1>6, SyncAnsweredInv
<1>7. ASSUME NEW c \in Call,
             \/ \E d \in Document : \E role \in RolesOf(d), q \in Asked :
                  StartSigning(c, d, role, q)
             \/ \E r \in Request : RequestCreated(c, r)
             \/ \E d \in Document : StartSync(c, d)
             \/ CallFails(c)
      PROVE  IInv' /\ Grows(store, store')
  BY <1>0, <1>7, Waiting
<1>8. ASSUME NEW r \in Request, SignerActs(r)
      PROVE  IInv' /\ Grows(store, store')
  <2>1. /\ UNCHANGED <<store, calls>>
        /\ remote[r].state = "open"
        /\ remote \in [Request ->
             [state : {"none", "open", "signed", "declined"},
              asked : Asked \cup {"QES"}, given : Delivered \cup {"QES"}]]
    BY <1>8 DEF SignerActs, IInv, TypeOK
  <2>2. \/ \E q \in Delivered :
             remote' = [remote EXCEPT ![r].state = "signed", ![r].given = q]
        \/ remote' = [remote EXCEPT ![r].state = "declined"]
    BY <1>8 DEF SignerActs
  <2>3. RemoteOnward
    BY <2>1, <2>2 DEF RemoteOnward
  <2>4. remote' \in [Request ->
             [state : {"none", "open", "signed", "declined"},
              asked : Asked \cup {"QES"}, given : Delivered \cup {"QES"}]]
    BY <2>1, <2>2
  <2>5. TypeOK'
    BY <2>1, <2>4 DEF IInv, TypeOK
  <2>6. Sound(store)'
    BY <2>1 DEF IInv, Sound, DrawerFirstIn, AcceptanceSignedIn, RowsFit, Exists,
       hasSignature, Signed, RolesOf
  <2>7. Backed(store)'
    <3>1. PICK s \in Store : s = store
      BY DEF IInv, TypeOK
    <3>2. Backed(s)'
      BY <2>3, <3>1, BackedOnward DEF IInv
    <3> QED
      BY <2>1, <3>1, <3>2 DEF Backed, Honoured
  <2>8. ASSUME NEW c \in Call PROVE CallOK(calls[c])'
    <3>1. CallOK(calls[c]) /\ calls[c].work \in Store
      BY DEF IInv, TypeOK, CallRecord
    <3>2. ASSUME NEW q, q = calls[c] PROVE CallOK(q)'
      BY <2>3, <3>1, <3>2, CallOnward
    <3> QED
      BY <2>1, <3>2 DEF CallOK, Backed, Honoured, Sound, DrawerFirstIn,
         AcceptanceSignedIn, RowsFit, Exists, Grows, Signed, hasSignature, RolesOf, StatusRank
  <2> QED
    BY <1>0, <2>1, <2>5, <2>6, <2>7, <2>8 DEF IInv
<1> QED
  BY <1>1, <1>2, <1>3, <1>4, <1>5, <1>6, <1>7, <1>8 DEF Next

(* The invariant holds throughout.                                         *)
THEOREM Invariance == Spec => []IInv
PROOF
<1>1. Init => IInv
  BY InitInv
<1>2. IInv /\ [Next]_vars => IInv'
  BY NextInv
<1> QED
  BY <1>1, <1>2, PTL DEF Spec

(* The variables keep their shape.                                         *)
THEOREM Typing == Spec => []TypeOK
PROOF
<1>1. IInv => TypeOK
  BY DEF IInv
<1> QED
  BY <1>1, Invariance, PTL

(* Nothing happens to a draft before its drawer has signed it, for any     *)
(* number of drafts, contracts, requests and waiting calls.                *)
THEOREM DrawerAlwaysFirst == Spec => []DrawerFirst
PROOF
<1>1. IInv => DrawerFirst
  BY DEF IInv, Sound, DrawerFirst
<1> QED
  BY <1>1, Invariance, PTL

(* A draft is accepted exactly if its drawee has signed it.                *)
THEOREM AcceptedIfSigned == Spec => []AcceptanceSigned
PROOF
<1>1. IInv => AcceptanceSigned
  BY DEF IInv, Sound, AcceptanceSigned
<1> QED
  BY <1>1, Invariance, PTL

(* What is recorded as signed was signed at Skribble, and well enough.     *)
THEOREM QualityAlwaysHonoured == Spec => []QualityHonoured
PROOF
<1>1. ASSUME IInv PROVE QualityHonoured
  <2> SUFFICES ASSUME NEW d \in Document, NEW row \in Signed(store, d), row.req # None
               PROVE  /\ remote[row.req].state = "signed"
                      /\ Honoured(remote[row.req].asked, remote[row.req].given)
    BY DEF QualityHonoured, Honoured
  <2> QED
    BY <1>1 DEF IInv, Backed, Signed
<1> QED
  BY <1>1, Invariance, PTL

(* No write of a call that had to wait loses a signature.                  *)
THEOREM SignaturesStay == Spec => SignedForGood
PROOF
<1>1. IInv /\ [Next]_vars =>
        [\A d \in Document : Signed(store, d) \subseteq Signed(store', d)]_vars
  BY NextInv DEF Grows
<1> QED
  BY <1>1, Invariance, PTL DEF Spec, SignedForGood

(* Nor does it set a draft back.                                           *)
THEOREM StatusOnlyForward == Spec => StatusForward
PROOF
<1>1. IInv /\ [Next]_vars =>
        [\A d \in Draft : StatusRank(store.status[d]) <= StatusRank(store'.status[d])]_vars
  BY NextInv DEF Grows
<1> QED
  BY <1>1, Invariance, PTL DEF Spec, StatusForward
=============================================================================
