------------------------ MODULE ProtocolEvents_proofs ------------------------
(***************************************************************************)
(* The chain of events and Lombard credit, for any set of users, tenants,  *)
(* receivables, requests and calls, and a chain of any length: no event is *)
(* lost or rewritten, the chain forks only where its writer cannot see the *)
(* other branch, and a Lombard need and its application stand together.    *)
(***************************************************************************)
EXTENDS ProtocolEvents, SequenceTheorems, WellFoundedInduction, TLAPS

-----------------------------------------------------------------------------
(* Invariants. *)

Event == [about : Root, by : User, prev : Nat]

Document == [owner : [Root -> User \cup {None}], withdrawn : SUBSET Request,
             events : Seq(Event)]

CallRow ==
  {Idle}
    \cup [op : {"sync"}, who : User, about : Receivable, base : Document]
    \cup [op : {"lombard"}, who : User, about : Request, base : {None}]

TypeOK ==
  /\ document \in Document
  /\ calls \in [Call -> CallRow]
  /\ applications \in [Request -> {"none", "sent", "open"}]
  /\ lost \subseteq Request

(* An event is about something that was recorded, and chained to an event  *)
(* before it.                                                              *)
Backwards ==
  \A i \in DOMAIN document.events :
    /\ document.owner[document.events[i].about] # None
    /\ document.events[i].prev < i

(* A sync was shown its receivable; the request that a call is about has   *)
(* no need yet, and no other call.                                         *)
RunningCalls ==
  \A c \in Call :
    /\ calls[c].op = "sync" => document.owner[calls[c].about] # None
    /\ calls[c].op = "lombard" =>
         /\ document.owner[calls[c].about] = None
         /\ \A x \in Call : calls[x].about = calls[c].about => x = c

IInv ==
  /\ TypeOK
  /\ Backwards
  /\ RunningCalls
  /\ ForksOnlyBehindTheView
  /\ LombardTogether

-----------------------------------------------------------------------------
(* Appending. *)

(* A set of positions has a last one.                                      *)
LEMMA MaxOfPositions ==
  ASSUME NEW n \in Nat, NEW S \in SUBSET (0..n), S # {}
  PROVE  /\ Max(S) \in S
         /\ \A y \in S : y <= Max(S)
<1>. DEFINE T == {k \in 0..n : n - k \in S}
<1>1. IsWellFoundedOn({p \in Nat \X Nat : p[1] < p[2]}, Nat)
  BY NatLessThanWellFounded DEF OpToRel
<1>2. T # {} /\ T \subseteq Nat
  <2>1. PICK s \in S : TRUE
    OBVIOUS
  <2>2. n - (n - s) = s /\ n - s \in 0..n
    BY s \in 0..n
  <2>. QED
    BY <2>2
<1>3. PICK t \in T : \A y \in T : <<y, t>> \notin {p \in Nat \X Nat : p[1] < p[2]}
  BY <1>1, <1>2, WFMin
<1>4. ASSUME NEW y \in T  PROVE t <= y
  <2>1. t \in Nat /\ y \in Nat
    BY <1>2
  <2>2. <<y, t>> \in Nat \X Nat /\ <<y, t>>[1] = y /\ <<y, t>>[2] = t
    BY <2>1
  <2>3. ~(y < t)
    BY <1>3, <2>2
  <2>. QED
    BY <2>1, <2>3
<1>5. PICK x \in S : x = n - t
  OBVIOUS
<1>6. ASSUME NEW y \in S  PROVE x >= y
  <2>1. y \in 0..n /\ n - y \in 0..n /\ n - (n - y) = y
    OBVIOUS
  <2>2. t <= n - y
    BY <1>4, <2>1
  <2>. QED
    BY <1>5, <2>1, <2>2
<1>. QED
  BY <1>6 DEF Max

(* What u is shown last: at or after every event it is shown.              *)
LEMMA LastSeenIsLast ==
  ASSUME document \in Document, NEW u \in User, NEW x \in Root
  PROVE  /\ LastSeen(u, x) \in 0..Len(document.events)
         /\ \A i \in DOMAIN document.events :
              Sees(u, document.events[i].about) => i <= LastSeen(u, x)
<1>1. document.events \in Seq(Event)
  BY DEF Document
<1>2. /\ Len(document.events) \in Nat
      /\ DOMAIN document.events = 1..Len(document.events)
  BY <1>1
<1>. DEFINE S == {0} \cup {i \in DOMAIN document.events : Sees(u, document.events[i].about)}
<1>3. S \in SUBSET (0..Len(document.events)) /\ S # {}
  BY <1>2
<1>4. LastSeen(u, x) = Max(S)
  BY DEF LastSeen
<1>. HIDE DEF S
<1>5. Max(S) \in S /\ \A y \in S : y <= Max(S)
  BY <1>2, <1>3, MaxOfPositions
<1>. QED
  BY <1>3, <1>4, <1>5 DEF S

(* The chain after an append: what was there, then n events about x by u,  *)
(* the first chained to what u is shown last, the second to the first.     *)
LEMMA Appended ==
  ASSUME document \in Document, NEW u \in User, NEW x \in Root, NEW n \in 1..2,
         NEW E, E = appendEvent(u, x, n), NEW k, k = Len(document.events)
  PROVE  /\ k \in Nat /\ DOMAIN document.events = 1..k
         /\ E \in Seq(Event) /\ DOMAIN E = 1..(k + n)
         /\ \A i \in 1..k : E[i] = document.events[i]
         /\ \A i \in 1..(k + n) : i > k =>
              /\ E[i].about = x /\ E[i].by = u
              /\ E[i].prev = IF i = k + 1 THEN LastSeen(u, x) ELSE i - 1
         /\ IsPrefix(document.events, E)
<1>1. document.events \in Seq(Event)
  BY DEF Document
<1>2. k \in Nat /\ DOMAIN document.events = 1..k
  BY <1>1
<1>3. LastSeen(u, x) \in Nat
  BY LastSeenIsLast, <1>2
<1>. DEFINE t == [i \in 1..n |-> [about |-> x, by |-> u,
                     prev |-> IF i = 1 THEN LastSeen(u, x) ELSE k + i - 1]]
<1>4. E = document.events \o t
  BY DEF appendEvent
<1>5. t \in Seq(Event) /\ Len(t) = n
  <2>1. \A i \in 1..n : t[i] \in Event
    BY <1>2, <1>3 DEF Event
  <2>. HIDE DEF t
  <2>2. t \in [1..n -> Event]
    BY <2>1 DEF t
  <2>. QED
    BY <2>2
<1>6. \A i \in 1..n : /\ t[i].about = x /\ t[i].by = u
                      /\ t[i].prev = IF i = 1 THEN LastSeen(u, x) ELSE k + i - 1
  OBVIOUS
<1>. HIDE DEF t
<1>7. /\ E \in Seq(Event) /\ Len(E) = k + n
      /\ \A i \in 1..(k + n) : E[i] = IF i <= k THEN document.events[i] ELSE t[i - k]
  BY <1>1, <1>4, <1>5, ConcatProperties
<1>8. ASSUME NEW i \in 1..(k + n), i > k
      PROVE  /\ E[i].about = x /\ E[i].by = u
             /\ E[i].prev = IF i = k + 1 THEN LastSeen(u, x) ELSE i - 1
  <2>1. i - k \in 1..n /\ E[i] = t[i - k]
    BY <1>2, <1>7, <1>8
  <2>. QED
    BY <1>2, <1>6, <1>8, <2>1
<1>9. IsPrefix(document.events, E)
  <2>1. CASE k = 0
    BY <1>1, <1>2, <1>7, <2>1 DEF IsPrefix
  <2>2. CASE k > 0
    BY <1>1, <1>2, <1>4, <1>5, <1>7, <2>2, SubSeqOfConcat1 DEF IsPrefix
  <2>. QED
    BY <1>2, <2>1, <2>2
<1>. QED
  BY <1>2, <1>7, <1>8, <1>9

(* Appending keeps the chain as it should be: a later event chains to the  *)
(* last one its writer is shown, and what is chained to that comes after.  *)
LEMMA ChainAfterAppend ==
  ASSUME TypeOK, Backwards, ForksOnlyBehindTheView,
         NEW u \in User, NEW x \in Root, NEW n \in 1..2,
         document'.events = appendEvent(u, x, n),
         document'.owner \in [Root -> User \cup {None}],
         document'.owner[x] # None,
         \A y \in Root : document.owner[y] # None
                           => document'.owner[y] = document.owner[y]
  PROVE  Backwards' /\ ForksOnlyBehindTheView'
<1>. PICK E : E = appendEvent(u, x, n)
  OBVIOUS
<1>. PICK k : k = Len(document.events)
  OBVIOUS
<1>1. document \in Document /\ document.events \in Seq(Event)
  BY DEF TypeOK, Document
<1>2. /\ k \in Nat /\ DOMAIN document.events = 1..k
      /\ E \in Seq(Event) /\ DOMAIN E = 1..(k + n)
      /\ \A i \in 1..k : E[i] = document.events[i]
      /\ \A i \in 1..(k + n) : i > k =>
           /\ E[i].about = x /\ E[i].by = u
           /\ E[i].prev = IF i = k + 1 THEN LastSeen(u, x) ELSE i - 1
  BY <1>1, Appended
<1>3. /\ LastSeen(u, x) \in 0..k
      /\ \A i \in 1..k : Sees(u, document.events[i].about) => i <= LastSeen(u, x)
  BY <1>1, <1>2, LastSeenIsLast
<1>4. \A i \in 1..k : /\ document.events[i].about \in Root
                      /\ document.events[i].by \in User
                      /\ document.events[i].prev \in Nat
  <2>1. \A i \in 1..k : document.events[i] \in Event
    BY <1>1, <1>2
  <2>. QED
    BY <2>1 DEF Event
<1>5. Backwards'
  BY <1>2, <1>3, <1>4 DEF Backwards
<1>6. \A v \in User, a \in Root :
        document.owner[a] # None => (Sees(v, a)' <=> Sees(v, a))
  BY DEF Sees
<1>7. ASSUME NEW i \in 1..(k + n), NEW j \in 1..(k + n), i < j, E[i].prev = E[j].prev
      PROVE  ~Sees(E[j].by, E[i].about)'
  <2>1. CASE j <= k
    <3>1. i \in 1..k /\ j \in 1..k /\ E[i] = document.events[i] /\ E[j] = document.events[j]
      BY <1>2, <1>7, <2>1
    <3>2. ~Sees(document.events[j].by, document.events[i].about)
      BY <1>2, <1>7, <3>1 DEF ForksOnlyBehindTheView
    <3>3. document.owner[document.events[i].about] # None
      BY <1>2, <3>1 DEF Backwards
    <3>. QED
      BY <1>4, <1>6, <3>1, <3>2, <3>3
  <2>2. CASE i <= k /\ j = k + 1
    <3>1. i \in 1..k /\ E[i] = document.events[i] /\ E[j].by = u
          /\ E[j].prev = LastSeen(u, x)
      BY <1>2, <1>7, <2>2
    <3>2. document.events[i].prev < i /\ document.owner[document.events[i].about] # None
      BY <1>2, <3>1 DEF Backwards
    <3>3. ~Sees(u, document.events[i].about)
      BY <1>2, <1>3, <1>4, <1>7, <3>1, <3>2
    <3>. QED
      BY <1>4, <1>6, <3>1, <3>2, <3>3
  <2>3. CASE i <= k /\ j > k + 1
    <3>1. i \in 1..k /\ E[i] = document.events[i] /\ E[j].prev = j - 1
      BY <1>2, <1>7, <2>3
    <3>2. document.events[i].prev < i
      BY <1>2, <3>1 DEF Backwards
    <3>. QED
      BY <1>2, <1>4, <1>7, <2>3, <3>1, <3>2
  <2>4. CASE i > k
    <3>1. i = k + 1 /\ j = k + 2 /\ E[i].prev = LastSeen(u, x) /\ E[j].prev = k + 1
      BY <1>2, <1>7, <2>4
    <3>. QED
      BY <1>2, <1>3, <1>7, <3>1
  <2>5. j <= k \/ (i <= k /\ j = k + 1) \/ (i <= k /\ j > k + 1) \/ i > k
    BY <1>2
  <2>. QED
    BY <2>1, <2>2, <2>3, <2>4, <2>5
<1>8. document'.events = E
  OBVIOUS
<1>9. ForksOnlyBehindTheView'
  BY <1>2, <1>7, <1>8 DEF ForksOnlyBehindTheView
<1>. QED
  BY <1>5, <1>9

-----------------------------------------------------------------------------
(* Steps. *)

LEMMA InitHolds == Init => IInv
  BY EventsAssumption
  DEF Init, IInv, TypeOK, Document, CallRow, Idle, Backwards, RunningCalls,
      ForksOnlyBehindTheView, LombardTogether, Root

(* A running call that is neither idle nor asked of Lending is a sync.     *)
LEMMA Rows ==
  ASSUME TypeOK, NEW c \in Call
  PROVE  /\ calls[c].op = "none" <=> calls[c] = Idle
         /\ calls[c].op = "sync" =>
              calls[c].who \in User /\ calls[c].about \in Receivable
         /\ calls[c].op = "lombard" =>
              calls[c].who \in User /\ calls[c].about \in Request
         /\ calls[c].op \in {"none", "sync", "lombard"}
         /\ Idle.op = "none" /\ Idle.about = None
  BY DEF TypeOK, CallRow, Idle

(* What the document may become: an event or two more, about something     *)
(* that somebody owns; nobody loses what is theirs.                        *)
Grows(u, x, n) ==
  /\ document'.events = appendEvent(u, x, n)
  /\ document'.owner[x] # None
  /\ \A y \in Root : document.owner[y] # None => document'.owner[y] = document.owner[y]
  /\ \A y \in Request \ {x} : document'.owner[y] = document.owner[y]
  /\ document' \in Document

LEMMA GrowsChain ==
  ASSUME TypeOK, Backwards, ForksOnlyBehindTheView,
         NEW u \in User, NEW x \in Root, NEW n \in 1..2, Grows(u, x, n)
  PROVE  Backwards' /\ ForksOnlyBehindTheView'
BY ChainAfterAppend DEF Grows, Document

LEMMA KeepsChain ==
  ASSUME TypeOK, Backwards, ForksOnlyBehindTheView,
         document'.events = document.events, document'.owner = document.owner
  PROVE  Backwards' /\ ForksOnlyBehindTheView'
BY DEF Backwards, ForksOnlyBehindTheView, Sees

LEMMA AppendsGrow ==
  ASSUME IInv, NEW u \in User, NEW x \in Root, NEW n \in 1..2,
         document.owner[x] # None,
         document' = [document EXCEPT !.events = appendEvent(u, x, n)]
  PROVE  Grows(u, x, n) /\ document'.owner = document.owner
<1>1. document \in Document
  BY DEF IInv, TypeOK
<1>2. appendEvent(u, x, n) \in Seq(Event)
  BY <1>1, Appended
<1>. QED
  BY <1>1, <1>2 DEF Grows, Document

LEMMA RecordingGrows ==
  ASSUME IInv, NEW u \in User, NEW x \in Root, document.owner[x] = None,
         document' = [document EXCEPT !.owner[x] = u, !.events = appendEvent(u, x, 2)]
  PROVE  Grows(u, x, 2) /\ document'.owner = [document.owner EXCEPT ![x] = u]
<1>1. document \in Document
  BY DEF IInv, TypeOK
<1>. PICK E : E = appendEvent(u, x, 2)
  OBVIOUS
<1>2. E \in Seq(Event)
  <2>1. 2 \in 1..2
    OBVIOUS
  <2>. QED
    BY <1>1, <2>1, Appended
<1>3. u # None
  BY EventsAssumption
<1>4. /\ document' = [document EXCEPT !.owner = [document.owner EXCEPT ![x] = u],
                                      !.events = E]
      /\ document.owner \in [Root -> User \cup {None}]
  BY <1>1 DEF Document
<1>5. document'.owner = [document.owner EXCEPT ![x] = u] /\ document'.events = E
  BY <1>1, <1>4 DEF Document
<1>6. document' \in Document
  BY <1>1, <1>2, <1>4 DEF Document
<1>. QED
  BY <1>3, <1>4, <1>5, <1>6 DEF Grows, Root

LEMMA CreateHolds ==
  ASSUME IInv, NEW u \in User, NEW r \in Receivable, createReceivable(u, r)
  PROVE  IInv' /\ Grows(u, r, 2)
<1>1. r \in Root /\ r \notin Request
  BY EventsAssumption DEF Root
<1>2. Grows(u, r, 2) /\ document'.owner = [document.owner EXCEPT ![r] = u]
  BY <1>1, RecordingGrows DEF createReceivable
<1>3. Backwards' /\ ForksOnlyBehindTheView'
  BY <1>1, <1>2, GrowsChain DEF IInv
<1>4. TypeOK'
  BY <1>2 DEF Grows, IInv, TypeOK, createReceivable
<1>5. RunningCalls'
  BY <1>1, <1>2, Rows DEF IInv, TypeOK, Document, RunningCalls, createReceivable, Root
<1>6. LombardTogether'
  BY <1>1, <1>2 DEF IInv, TypeOK, Document, LombardTogether, createReceivable, Root
<1>. QED
  BY <1>1, <1>2, <1>3, <1>4, <1>5, <1>6 DEF IInv

LEMMA AppendsHolds ==
  ASSUME IInv, NEW u \in User, NEW x \in Root, NEW n \in 1..2, Appends(u, x, n)
  PROVE  IInv' /\ Grows(u, x, n)
<1>1. Grows(u, x, n) /\ document'.owner = document.owner
  BY AppendsGrow DEF Appends, Sees
<1>2. Backwards' /\ ForksOnlyBehindTheView'
  BY <1>1, GrowsChain DEF IInv
<1>. QED
  BY <1>1, <1>2 DEF Grows, IInv, TypeOK, RunningCalls, LombardTogether, Appends

LEMMA SyncHolds ==
  ASSUME IInv, NEW u \in User, NEW r \in Receivable, NEW c \in Call,
         syncAssignmentSignatures(c, u, r)
  PROVE  IInv' /\ document' = document
<1>1. /\ document' = document /\ applications' = applications /\ lost' = lost
      /\ calls[c] = Idle /\ document.owner[r] # None /\ document \in Document
      /\ r \notin Request
  BY EventsAssumption DEF syncAssignmentSignatures, Sees, IInv, TypeOK
<1>. PICK row : row = [op |-> "sync", who |-> u, about |-> r, base |-> document]
  OBVIOUS
<1>2. /\ row \in CallRow /\ row.op = "sync" /\ row.about = r
      /\ calls' = [calls EXCEPT ![c] = row]
  BY <1>1 DEF syncAssignmentSignatures, CallRow
<1>3. /\ calls \in [Call -> CallRow]
      /\ calls[c].op = "none" /\ calls[c].about = None
  BY <1>1, Rows DEF IInv, TypeOK
<1>4. TypeOK'
  BY <1>1, <1>2, <1>3 DEF IInv, TypeOK
<1>5. Backwards' /\ ForksOnlyBehindTheView'
  BY <1>1, KeepsChain DEF IInv
<1>6. RunningCalls'
  BY <1>1, <1>2, <1>3, Rows DEF IInv, RunningCalls
<1>7. LombardTogether'
  BY <1>1, <1>2, <1>3, EventsAssumption DEF IInv, LombardTogether, Root
<1>. QED
  BY <1>1, <1>4, <1>5, <1>6, <1>7 DEF IInv

LEMMA SyncEndHolds ==
  ASSUME IInv, NEW c \in Call, SyncEnds(c)
  PROVE  /\ IInv'
         /\ document' = document \/ \E u \in User, x \in Root, n \in 1..2 : Grows(u, x, n)
<1>. DEFINE u == calls[c].who
            r == calls[c].about
<1>1. /\ u \in User /\ r \in Receivable /\ r \in Root /\ r \notin Request
      /\ calls[c].op = "sync" /\ document.owner[r] # None
  BY Rows, EventsAssumption DEF SyncEnds, IInv, RunningCalls, Root
<1>2. /\ calls \in [Call -> CallRow] /\ Idle \in CallRow
      /\ Idle.op = "none" /\ Idle.about = None
      /\ calls' = [calls EXCEPT ![c] = Idle]
      /\ applications' = applications /\ lost' = lost
  BY DEF SyncEnds, IInv, TypeOK, CallRow, Idle
<1>. HIDE DEF u, r
<1>3. ASSUME document'.owner = document.owner, document' \in Document
      PROVE  TypeOK' /\ RunningCalls' /\ LombardTogether'
  <2>1. TypeOK'
    BY <1>2, <1>3 DEF IInv, TypeOK
  <2>2. RunningCalls'
    <3>1. \A x \in Call : calls'[x] = IF x = c THEN Idle ELSE calls[x]
      BY <1>2
    <3>. QED
      BY <1>2, <1>3, <3>1, Rows, EventsAssumption DEF IInv, RunningCalls, Root
  <2>3. LombardTogether'
    <3>1. \A q \in Request, x \in Call : calls[x].about = q => calls'[x].about = q
      BY <1>1, <1>2 DEF r
    <3>. QED
      BY <1>2, <1>3, <3>1 DEF IInv, LombardTogether
  <2>. QED
    BY <2>1, <2>2, <2>3
<1>4. CASE UNCHANGED document
  BY <1>3, <1>4, KeepsChain DEF IInv, TypeOK
<1>5. CASE SyncWrites(c)
  <2>1. 1 \in 1..2 /\ document' = [document EXCEPT !.events = appendEvent(u, r, 1)]
    BY <1>5 DEF SyncWrites, u, r
  <2>2. Grows(u, r, 1) /\ document'.owner = document.owner
    BY <1>1, <2>1, AppendsGrow
  <2>3. Backwards' /\ ForksOnlyBehindTheView'
    BY <1>1, <2>1, <2>2, GrowsChain DEF IInv
  <2>. QED
    BY <1>1, <1>3, <2>1, <2>2, <2>3 DEF IInv, Grows
<1>. QED
  BY <1>4, <1>5 DEF SyncEnds

LEMMA RequestHolds ==
  ASSUME IInv, NEW u \in User, NEW q \in Request, NEW c \in Call,
         requestLombard(c, u, q)
  PROVE  IInv' /\ document' = document
<1>1. /\ document' = document /\ applications' = applications /\ lost' = lost
      /\ calls[c] = Idle /\ document.owner[q] = None /\ applications[q] = "none"
      /\ \A x \in Call : calls[x].about # q
  BY DEF requestLombard
<1>. PICK row : row = [op |-> "lombard", who |-> u, about |-> q, base |-> None]
  OBVIOUS
<1>2. /\ row \in CallRow /\ row.op = "lombard" /\ row.about = q
      /\ calls' = [calls EXCEPT ![c] = row]
  BY DEF requestLombard, CallRow
<1>3. /\ calls \in [Call -> CallRow]
      /\ calls[c].op = "none" /\ calls[c].about = None
  BY <1>1, Rows DEF IInv, TypeOK
<1>4. TypeOK'
  BY <1>1, <1>2, <1>3 DEF IInv, TypeOK
<1>5. Backwards' /\ ForksOnlyBehindTheView'
  BY <1>1, KeepsChain DEF IInv
<1>6. \A x \in Call : calls'[x] = IF x = c THEN row ELSE calls[x]
  BY <1>2, <1>3
<1>7. RunningCalls'
  BY <1>1, <1>2, <1>6 DEF IInv, RunningCalls
<1>8. LombardTogether'
  <2>1. \A p \in Request, x \in Call : calls[x].about = p => calls'[x].about = p
    BY <1>3, <1>6, EventsAssumption DEF Root
  <2>. QED
    BY <1>1, <2>1 DEF IInv, LombardTogether
<1>. QED
  BY <1>1, <1>4, <1>5, <1>7, <1>8 DEF IInv

(* A call that Lending refuses, or that is only sent: the request has no   *)
(* need, so that its application may come and go.                          *)
LEMMA RefusedHolds ==
  ASSUME IInv, NEW c \in Call, LombardRefused(c)
  PROVE  IInv' /\ document' = document
<1>. PICK q : q = calls[c].about
  OBVIOUS
<1>1. /\ q \in Request /\ document.owner[q] = None
      /\ \A x \in Call : calls[x].about = q => x = c
      /\ applications' = [applications EXCEPT ![q] = "none"]
      /\ document' = document /\ lost' = lost
      /\ calls' = [calls EXCEPT ![c] = Idle]
  BY Rows DEF LombardRefused, IInv, RunningCalls
<1>2. /\ calls \in [Call -> CallRow] /\ Idle \in CallRow
      /\ Idle.op = "none" /\ Idle.about = None
      /\ \A x \in Call : calls'[x] = IF x = c THEN Idle ELSE calls[x]
  BY <1>1 DEF IInv, TypeOK, CallRow, Idle
<1>3. TypeOK'
  BY <1>1, <1>2 DEF IInv, TypeOK
<1>4. Backwards' /\ ForksOnlyBehindTheView'
  BY <1>1, KeepsChain DEF IInv
<1>5. RunningCalls'
  BY <1>1, <1>2, Rows, EventsAssumption DEF IInv, RunningCalls, Root
<1>6. LombardTogether'
  <2>. SUFFICES ASSUME NEW p \in Request
                PROVE  /\ document'.owner[p] # None => applications'[p] = "open"
                       /\ applications'[p] # "none" =>
                            \/ document'.owner[p] # None
                            \/ p \in lost'
                            \/ \E x \in Call : calls'[x].about = p
    BY DEF LombardTogether
  <2>1. applications \in [Request -> {"none", "sent", "open"}]
    BY DEF IInv, TypeOK
  <2>2. CASE p = q
    BY <1>1, <2>1, <2>2
  <2>3. CASE p # q
    BY <1>1, <1>2, <2>1, <2>3 DEF IInv, LombardTogether
  <2>. QED
    BY <2>2, <2>3
<1>. QED
  BY <1>1, <1>3, <1>4, <1>5, <1>6 DEF IInv

LEMMA SentHolds ==
  ASSUME IInv, NEW c \in Call, LombardSent(c)
  PROVE  IInv' /\ document' = document
<1>. PICK q : q = calls[c].about
  OBVIOUS
<1>1. /\ q \in Request /\ document.owner[q] = None /\ calls[c].about = q
      /\ applications' = [applications EXCEPT ![q] = "sent"]
      /\ document' = document /\ lost' = lost /\ calls' = calls
      /\ applications \in [Request -> {"none", "sent", "open"}]
  BY Rows DEF LombardSent, IInv, TypeOK, RunningCalls
<1>2. TypeOK' /\ RunningCalls'
  BY <1>1 DEF IInv, TypeOK, RunningCalls
<1>3. Backwards' /\ ForksOnlyBehindTheView'
  BY <1>1, KeepsChain DEF IInv
<1>4. LombardTogether'
  BY <1>1 DEF IInv, LombardTogether
<1>. QED
  BY <1>1, <1>2, <1>3, <1>4 DEF IInv

LEMMA InsertsHolds ==
  ASSUME IInv, NEW q \in Request, Inserts(q)
  PROVE  IInv' /\ document' = document
<1>1. /\ applications' = [applications EXCEPT ![q] = "open"]
      /\ document' = document /\ lost' = lost /\ calls' = calls
      /\ applications \in [Request -> {"none", "sent", "open"}]
      /\ applications[q] = "sent"
  BY DEF Inserts, IInv, TypeOK
<1>2. TypeOK' /\ RunningCalls'
  BY <1>1 DEF IInv, TypeOK, RunningCalls
<1>3. Backwards' /\ ForksOnlyBehindTheView'
  BY <1>1, KeepsChain DEF IInv
<1>4. LombardTogether'
  BY <1>1 DEF IInv, LombardTogether
<1>. QED
  BY <1>1, <1>2, <1>3, <1>4 DEF IInv

LEMMA AnsweredHolds ==
  ASSUME IInv, NEW c \in Call, LombardAnswered(c)
  PROVE  IInv' /\ \E u \in User, x \in Root, n \in 1..2 : Grows(u, x, n)
<1>. PICK q : q = calls[c].about
  OBVIOUS
<1>. PICK u : u = calls[c].who
  OBVIOUS
<1>1. /\ u \in User /\ q \in Request /\ q \in Root /\ document.owner[q] = None
      /\ applications[q] = "open"
      /\ \A x \in Call : calls[x].about = q => x = c
      /\ applications' = applications /\ lost' = lost
      /\ calls' = [calls EXCEPT ![c] = Idle]
      /\ 2 \in 1..2
  BY Rows DEF LombardAnswered, IInv, RunningCalls, Root
<1>2. /\ calls \in [Call -> CallRow] /\ Idle \in CallRow
      /\ Idle.op = "none" /\ Idle.about = None
      /\ \A x \in Call : calls'[x] = IF x = c THEN Idle ELSE calls[x]
  BY <1>1 DEF IInv, TypeOK, CallRow, Idle
<1>3. document' = [document EXCEPT !.owner[q] = u, !.events = appendEvent(u, q, 2)]
  BY DEF LombardAnswered, Recorded
<1>4. Grows(u, q, 2) /\ document'.owner = [document.owner EXCEPT ![q] = u]
  BY <1>1, <1>3, RecordingGrows
<1>5. Backwards' /\ ForksOnlyBehindTheView'
  BY <1>1, <1>4, GrowsChain DEF IInv
<1>6. TypeOK'
  BY <1>1, <1>2, <1>4 DEF Grows, IInv, TypeOK
<1>7. \A y \in Root : y # q => document'.owner[y] = document.owner[y]
  BY <1>4 DEF IInv, TypeOK, Document
<1>8. RunningCalls'
  BY <1>1, <1>2, <1>7, Rows, EventsAssumption DEF IInv, RunningCalls, Root
<1>9. LombardTogether'
  BY <1>1, <1>2, <1>4, <1>7 DEF Grows, IInv, LombardTogether, Root
<1>. QED
  BY <1>1, <1>4, <1>5, <1>6, <1>8, <1>9 DEF IInv

LEMMA WithdrawHolds ==
  ASSUME IInv, NEW u \in User, NEW q \in Request, withdrawCapitalNeed(u, q)
  PROVE  IInv' /\ document'.events = document.events
<1>1. /\ document'.events = document.events /\ document'.owner = document.owner
      /\ document' \in Document
  BY DEF IInv, TypeOK, Document, withdrawCapitalNeed
<1>2. Backwards' /\ ForksOnlyBehindTheView'
  BY <1>1, KeepsChain DEF IInv
<1>. QED
  BY <1>1, <1>2 DEF IInv, TypeOK, RunningCalls, LombardTogether, withdrawCapitalNeed

(* Whatever ends the calls of a set: what Lending may hold for them is     *)
(* then lost.                                                              *)
LEMMA CallsEnd ==
  ASSUME IInv, NEW cs \in SUBSET Call, document' = document,
         applications' = applications, Unanswered(cs),
         calls' = [x \in Call |-> IF x \in cs THEN Idle ELSE calls[x]]
  PROVE  IInv'
<1>1. /\ calls \in [Call -> CallRow] /\ Idle \in CallRow
      /\ Idle.op = "none" /\ Idle.about = None
  BY DEF IInv, TypeOK, CallRow, Idle
<1>2. TypeOK'
  BY <1>1 DEF IInv, TypeOK, Unanswered
<1>3. Backwards' /\ ForksOnlyBehindTheView'
  BY KeepsChain DEF IInv
<1>4. RunningCalls'
  BY <1>1, Rows, EventsAssumption DEF IInv, RunningCalls, Root
<1>5. LombardTogether'
  BY <1>1 DEF IInv, LombardTogether, Unanswered
<1>. QED
  BY <1>2, <1>3, <1>4, <1>5 DEF IInv

(* What a step does to the chain.                                          *)
ChainStep ==
  \/ document'.events = document.events
  \/ \E u \in User, x \in Root, n \in 1..2 : Grows(u, x, n)

LEMMA NextHolds ==
  ASSUME IInv, [Next]_vars
  PROVE  IInv' /\ ChainStep
<1>1. ASSUME NEW u \in User, NEW r \in Receivable,
             createReceivable(u, r) \/ anchorWechsel(u, r) \/ requestDisclosure(u, r)
      PROVE  IInv' /\ ChainStep
  <2>1. r \in Root /\ 1 \in 1..2 /\ 2 \in 1..2
    BY DEF Root
  <2>2. CASE createReceivable(u, r)
    BY <2>1, <2>2, CreateHolds DEF ChainStep
  <2>3. CASE anchorWechsel(u, r)
    BY <2>1, <2>3, AppendsHolds DEF ChainStep, anchorWechsel
  <2>4. CASE requestDisclosure(u, r)
    BY <2>1, <2>4, AppendsHolds DEF ChainStep, requestDisclosure
  <2>. QED
    BY <1>1, <2>2, <2>3, <2>4
<1>2. ASSUME NEW u \in User, NEW r \in Receivable, NEW c \in Call,
             syncAssignmentSignatures(c, u, r)
      PROVE  IInv' /\ ChainStep
  BY <1>2, SyncHolds DEF ChainStep
<1>3. ASSUME NEW u \in User, NEW q \in Request, withdrawCapitalNeed(u, q)
      PROVE  IInv' /\ ChainStep
  BY <1>3, WithdrawHolds DEF ChainStep
<1>4. ASSUME NEW u \in User, NEW q \in Request, NEW c \in Call, requestLombard(c, u, q)
      PROVE  IInv' /\ ChainStep
  BY <1>4, RequestHolds DEF ChainStep
<1>5. ASSUME NEW c \in Call, SyncEnds(c)
      PROVE  IInv' /\ ChainStep
  BY <1>5, SyncEndHolds DEF ChainStep
<1>6. ASSUME NEW c \in Call, LombardRefused(c) \/ LombardSent(c)
      PROVE  IInv' /\ ChainStep
  BY <1>6, RefusedHolds, SentHolds DEF ChainStep
<1>7. ASSUME NEW c \in Call, LombardAnswered(c)
      PROVE  IInv' /\ ChainStep
  BY <1>7, AnsweredHolds DEF ChainStep
<1>8. ASSUME NEW c \in Call, CallLost(c)
      PROVE  IInv' /\ ChainStep
  <2>1. calls' = [x \in Call |-> IF x \in {c} THEN Idle ELSE calls[x]]
    BY <1>8 DEF CallLost, IInv, TypeOK
  <2>. QED
    BY <1>8, <2>1, CallsEnd DEF ChainStep, CallLost
<1>9. ASSUME NEW q \in Request, Inserts(q)
      PROVE  IInv' /\ ChainStep
  BY <1>9, InsertsHolds DEF ChainStep
<1>10. ASSUME Restart
       PROVE  IInv' /\ ChainStep
  <2>1. calls' = [x \in Call |-> IF x \in Call THEN Idle ELSE calls[x]]
    BY <1>10 DEF Restart
  <2>. QED
    BY <1>10, <2>1, CallsEnd DEF ChainStep, Restart
<1>11. ASSUME UNCHANGED vars
       PROVE  IInv' /\ ChainStep
  <2>1. Backwards' /\ ForksOnlyBehindTheView'
    BY <1>11, KeepsChain DEF IInv, vars
  <2>. QED
    BY <1>11, <2>1 DEF IInv, TypeOK, RunningCalls, LombardTogether, ChainStep, vars
<1>. QED
  BY <1>1, <1>2, <1>3, <1>4, <1>5, <1>6, <1>7, <1>8, <1>9, <1>10, <1>11 DEF Next

LEMMA IInvHolds == Spec => []IInv
BY InitHolds, NextHolds, PTL DEF Spec

-----------------------------------------------------------------------------
(* The theorems. *)

(* Two events name the same predecessor only if the writer of the later    *)
(* one was not shown the earlier: appendEvent chains to the last event of  *)
(* the scoped state, also when the caller has awaited Skribble.            *)
THEOREM ForkedOutOfSight == Spec => []ForksOnlyBehindTheView
BY IInvHolds, PTL DEF IInv

(* requestLombard records a need exactly for the applications that Lending *)
(* accepted, but for those whose answer got lost.                          *)
THEOREM LombardStandsTogether == Spec => []LombardTogether
BY IInvHolds, PTL DEF IInv

(* No write loses or rewrites an event: those of rows the writer is not    *)
(* shown, and those written while a sync awaited Skribble, stay.           *)
THEOREM NoEventIsLost == Spec => EventsStay
<1>1. ASSUME IInv, [Next]_vars
      PROVE  IsPrefix(document.events, document'.events)
  <2>1. document \in Document
    BY <1>1 DEF IInv, TypeOK
  <2>2. CASE document'.events = document.events
    BY <2>1, <2>2 DEF IsPrefix, Document
  <2>3. CASE \E u \in User, x \in Root, n \in 1..2 : Grows(u, x, n)
    <3>1. PICK u \in User, x \in Root, n \in 1..2 : Grows(u, x, n)
      BY <2>3
    <3>2. PICK E, k : /\ E = appendEvent(u, x, n) /\ k = Len(document.events)
                      /\ document'.events = E
      BY <3>1 DEF Grows
    <3>3. IsPrefix(document.events, E)
      BY <2>1, <3>2, Appended
    <3>. QED
      BY <3>2, <3>3
  <2>. QED
    BY <1>1, <2>2, <2>3, NextHolds DEF ChainStep
<1>2. ASSUME IInv, [Next]_vars
      PROVE  [IsPrefix(document.events, document'.events)]_vars
  BY <1>1, <1>2
<1>. QED
  BY <1>2, IInvHolds, PTL DEF Spec, EventsStay

=============================================================================
