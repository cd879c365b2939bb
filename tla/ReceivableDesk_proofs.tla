------------------------- MODULE ReceivableDesk_proofs -------------------------
(***************************************************************************)
(* The desk's invariants, for every set of receivables, offers, bids,      *)
(* trades, parties and users.  They are proved one after the other, each   *)
(* from those before it: types and complete rows, then the locks, then     *)
(* money and ownership.  What every move of the desk keeps gives the       *)
(* theorems on disputes, statuses, reports, contracts and terms, and the   *)
(* refinement of the abstract sale (ReceivableSale).                       *)
(***************************************************************************)
EXTENDS ReceivableDesk, TLAPS

-----------------------------------------------------------------------------
(* Types, complete rows, and papers that agree. *)

Rows == TypeOK /\ RowsComplete /\ Papers

(* The initial tables are well formed. *)
LEMMA RowsInit == Init => Rows
  BY DeskAssumption
  DEF Init, Rows, TypeOK, RowsComplete, Papers, Amount, LockState, Lifecycle,
      ReceivableStatus, AssetRow, LockRow, RegistryRow, OfferRow, BidRow,
      TradeRow, InstructionRow, NoOffer, NoBid, NoTrade, NoInstruction,
      OfferStatus, TradeStatus, SettlementStatus

(* The row types, one by one: unfolding TypeOK whole swamps the provers. *)
LEMMA Types ==
  ASSUME TypeOK
  PROVE  /\ assets \in [Receivable -> AssetRow]
         /\ locks \in [Receivable -> LockRow]
         /\ registry \in [Receivable -> RegistryRow]
         /\ offers \in [Offer -> OfferRow]
         /\ bids \in [Bid -> BidRow]
         /\ trades \in [Trade -> TradeRow]
         /\ instructions \in [Trade -> InstructionRow]
  BY DEF TypeOK

(* Handlers that touch neither offers, bids, trades nor instructions. *)
LEMMA PapersUntouched ==
  ASSUME RowsComplete, Papers, UNCHANGED <<offers, bids, trades, instructions>>
  PROVE  RowsComplete' /\ Papers'
  BY DEF RowsComplete, Papers

(* Recording and verifying a receivable write well-formed rows. *)
LEMMA RowsRecording ==
  ASSUME Rows, NEW r \in Receivable, Recording(r)
  PROVE  Rows'
<1>0. TypeOK /\ RowsComplete /\ Papers BY DEF Rows
<1>1. ASSUME NEW band \in Band, NEW hasDispute \in BOOLEAN,
             NEW disputed \in Amount, NEW u \in User,
             createReceivable(r, band, hasDispute, disputed, u)
      PROVE  Rows'
  <2>1. assets' \in [Receivable -> AssetRow]
    <3>1. InitialStatus(band, hasDispute, disputed) \in ReceivableStatus
      BY <1>1 DEF InitialStatus, Band, Amount, ReceivableStatus
    <3>2. assets \in [Receivable -> AssetRow] BY <1>0, Types
    <3> QED BY <1>1, <3>1, <3>2 DEF createReceivable, AssetRow
  <2>2. verifications' \subseteq Receivable /\ kyc' \subseteq Party
    <3>1. verifications \subseteq Receivable /\ kyc \subseteq Party
      BY <1>0 DEF TypeOK
    <3>2. creditorOf[r] \in Party BY DeskAssumption
    <3> QED BY <1>1, <3>1, <3>2 DEF createReceivable
  <2>3. TypeOK' BY <1>0, <1>1, <2>1, <2>2 DEF TypeOK, createReceivable
  <2> QED BY <1>0, <1>1, <2>3, PapersUntouched DEF Rows, createReceivable
<1>2. ASSUME NEW band \in Band, NEW hasDispute \in BOOLEAN, NEW unpaid \in BOOLEAN,
             verify(r, band, hasDispute, unpaid)
      PROVE  Rows'
  <2>1. assets' \in [Receivable -> AssetRow]
    <3>1. assets \in [Receivable -> AssetRow] BY <1>0, Types
    <3>2. VerifiedStatus(assets[r], band, hasDispute, unpaid) \in ReceivableStatus
      BY <1>2, <3>1 DEF verify, Recorded, VerifiedStatus, AssetRow, ReceivableStatus
    <3> QED BY <1>2, <3>1, <3>2 DEF verify, AssetRow
  <2>2. verifications' \subseteq Receivable BY <1>0, <1>2 DEF TypeOK, verify
  <2>3. TypeOK' BY <1>0, <1>2, <2>1, <2>2 DEF TypeOK, verify
  <2> QED BY <1>0, <1>2, <2>3, PapersUntouched DEF Rows, verify
<1>3. ASSUME MaturityPasses(r) PROVE Rows'
  <2>1. TypeOK' BY <1>0, <1>3 DEF TypeOK, MaturityPasses
  <2> QED BY <1>0, <1>3, <2>1, PapersUntouched DEF Rows, MaturityPasses
<1> QED BY <1>1, <1>2, <1>3 DEF Recording

(* Opening a dispute withdraws offers but keeps every row complete. *)
LEMMA RowsOpenDispute ==
  ASSUME Rows, NEW r \in Receivable, NEW amount \in Amount, openDispute(r, amount)
  PROVE  Rows'
<1>0. TypeOK /\ RowsComplete /\ Papers BY DEF Rows
<1>1. assets' \in [Receivable -> AssetRow]
  <2>1. assets \in [Receivable -> AssetRow] BY <1>0, Types
  <2>2. DisputeStatus(amount) \in ReceivableStatus
    BY DEF DisputeStatus, ReceivableStatus
  <2> QED BY <2>1, <2>2 DEF openDispute, LocksAfterDispute, AssetRow
<1>2. locks' \in [Receivable -> LockRow]
  <2>1. locks \in [Receivable -> LockRow] BY <1>0, Types
  <2> QED BY <2>1 DEF openDispute, LocksAfterDispute, LockRow, LockState
<1>3. offers' \in [Offer -> OfferRow]
  <2>1. offers \in [Offer -> OfferRow] BY <1>0, Types
  <2> QED BY <2>1 DEF openDispute, LocksAfterDispute, OfferRow, OfferStatus
<1>4. dispute_workbenches' \in [Receivable -> Lifecycle \cup {"ABSENT"}]
  BY <1>0 DEF TypeOK, openDispute, LocksAfterDispute, Lifecycle
<1>5. TypeOK' BY <1>0, <1>1, <1>2, <1>3, <1>4 DEF TypeOK, openDispute, LocksAfterDispute
<1>6. RowsComplete'
  <2>1. offers \in [Offer -> OfferRow] BY <1>0, Types
  <2>2. \A o \in Offer : /\ offers'[o].receivable = offers[o].receivable
                         /\ offers'[o].seller = offers[o].seller
                         /\ offers'[o].status = "ABSENT" <=> offers[o].status = "ABSENT"
    BY <2>1 DEF openDispute, LocksAfterDispute, LiveOffers, OfferRow
  <2> QED BY <1>0, <2>2 DEF RowsComplete, openDispute, LocksAfterDispute
<1>7. Papers' BY <1>0 DEF Papers, openDispute, LocksAfterDispute
<1> QED BY <1>5, <1>6, <1>7 DEF Rows

(* The dispute handlers write well-formed rows. *)
LEMMA RowsDisputing ==
  ASSUME Rows, NEW r \in Receivable, Disputing(r)
  PROVE  Rows'
<1>0. TypeOK /\ RowsComplete /\ Papers BY DEF Rows
<1>1. ASSUME NEW amount \in Amount,
             \/ openDispute(r, amount)
             \/ createDispute(r, amount)
             \/ reopenDispute(r, amount)
      PROVE  Rows'
  BY <1>1, RowsOpenDispute DEF createDispute, reopenDispute
<1>2. ASSUME NEW action \in {"keep", "restore", "close_asset"},
             closeDispute(r, action)
      PROVE  Rows'
  <2>1. assets' \in [Receivable -> AssetRow]
    <3>1. assets \in [Receivable -> AssetRow] BY <1>0, Types
    <3>2. 0 \in Amount BY DeskAssumption DEF Amount
    <3>3. CASE action = "keep"
      BY <1>2, <3>1, <3>3 DEF closeDispute, AssetAfter
    <3>4. CASE action = "restore"
      <4>1. AssetAfter(assets[r], action) \in AssetRow
        BY <3>1, <3>2, <3>4 DEF AssetAfter, AssetRow, ReceivableStatus
      <4> QED BY <1>2, <3>1, <4>1 DEF closeDispute
    <3>5. CASE action = "close_asset"
      <4>1. AssetAfter(assets[r], action) \in AssetRow
        BY <3>1, <3>5 DEF AssetAfter, AssetRow, ReceivableStatus
      <4> QED BY <1>2, <3>1, <4>1 DEF closeDispute
    <3> QED BY <3>3, <3>4, <3>5
  <2>2. dispute_workbenches' \in [Receivable -> Lifecycle \cup {"ABSENT"}]
    BY <1>0, <1>2 DEF TypeOK, closeDispute, Lifecycle
  <2>3. TypeOK' BY <1>0, <1>2, <2>1, <2>2 DEF TypeOK, closeDispute
  <2> QED BY <1>0, <1>2, <2>3, PapersUntouched DEF Rows, closeDispute
<1>3. ASSUME archiveDispute(r) PROVE Rows'
  <2>1. dispute_workbenches' \in [Receivable -> Lifecycle \cup {"ABSENT"}]
    BY <1>0, <1>3 DEF TypeOK, archiveDispute, Lifecycle
  <2>2. TypeOK' BY <1>0, <1>3, <2>1 DEF TypeOK, archiveDispute
  <2> QED BY <1>0, <1>3, <2>2, PapersUntouched DEF Rows, archiveDispute
<1>4. ASSUME updateDisputeTrack(r) PROVE Rows'
  <2>1. dispute_workbenches' \in [Receivable -> Lifecycle \cup {"ABSENT"}]
    BY <1>0, <1>4 DEF TypeOK, updateDisputeTrack, benchLifecycle, Lifecycle
  <2>2. TypeOK' BY <1>0, <1>4, <2>1 DEF TypeOK, updateDisputeTrack
  <2> QED BY <1>0, <1>4, <2>2, PapersUntouched DEF Rows, updateDisputeTrack
<1> QED BY <1>1, <1>2, <1>3, <1>4 DEF Disputing

(* Reserving for financing and releasing it write well-formed rows. *)
LEMMA RowsFinancing ==
  ASSUME Rows, NEW r \in Receivable, Financing(r)
  PROVE  Rows'
<1>0. TypeOK /\ RowsComplete /\ Papers BY DEF Rows
<1>1. TypeOK' BY <1>0 DEF TypeOK, Financing, confirmCapitalNeed, releaseCapitalNeed, checkedInvoice
<1>2. UNCHANGED <<offers, bids, trades, instructions>>
  BY DEF Financing, confirmCapitalNeed, releaseCapitalNeed
<1> QED BY <1>0, <1>1, <1>2, PapersUntouched DEF Rows

(* A new offer is a complete row. *)
LEMMA RowsOfferMade ==
  ASSUME Rows, NEW r \in Receivable, NEW o \in Offer, NEW p \in Party,
         NEW min \in Amount, OfferMade(r, o, p, min), kyc' \subseteq Party
  PROVE  Rows'
<1>0. TypeOK /\ RowsComplete /\ Papers BY DEF Rows
<1>1. assets' \in [Receivable -> AssetRow]
  <2>1. assets \in [Receivable -> AssetRow] BY <1>0, Types
  <2> QED BY <2>1 DEF OfferMade, AssetRow, ReceivableStatus
<1>2. locks' \in [Receivable -> LockRow]
  <2>1. locks \in [Receivable -> LockRow] BY <1>0, Types
  <2> QED BY <2>1 DEF OfferMade, LockRow, LockState
<1>3. registry' \in [Receivable -> RegistryRow]
  <2>1. registry \in [Receivable -> RegistryRow] BY <1>0, Types
  <2> QED BY <2>1 DEF OfferMade, RegistryRow
<1>4. offers' \in [Offer -> OfferRow]
  <2>1. offers \in [Offer -> OfferRow] BY <1>0, Types
  <2> QED BY <2>1 DEF OfferMade, OfferRow, OfferStatus
<1>5. late' \subseteq Receivable BY <1>0 DEF TypeOK, OfferMade, checkedInvoice
<1>6. TypeOK' BY <1>0, <1>1, <1>2, <1>3, <1>4, <1>5 DEF TypeOK, OfferMade
<1>7. RowsComplete'
  <2>1. offers \in [Offer -> OfferRow] BY <1>0, Types
  <2> QED BY <1>0, <2>1, DeskAssumption DEF RowsComplete, OfferMade
<1>8. Papers' BY <1>0 DEF Papers, OfferMade
<1> QED BY <1>6, <1>7, <1>8 DEF Rows

(* createOffer and requestLiquidity. *)
LEMMA RowsOffering ==
  ASSUME Rows, NEW r \in Receivable, Offering(r)
  PROVE  Rows'
<1>0. kyc \subseteq Party BY DEF Rows, TypeOK
<1>1. Price \subseteq Amount /\ 0 \in Amount BY DeskAssumption DEF Amount
<1>2. ASSUME NEW o \in Offer, NEW p \in Party, NEW min \in Price,
             createOffer(r, o, p, min)
      PROVE  Rows'
  <2>1. min \in Amount BY <1>1
  <2>2. OfferMade(r, o, p, min) /\ kyc' \subseteq Party
    BY <1>0, <1>2 DEF createOffer
  <2> QED BY <2>1, <2>2, RowsOfferMade
<1>3. ASSUME NEW o \in Offer, NEW p \in Party, requestLiquidity(r, o, p)
      PROVE  Rows'
  <2>1. OfferMade(r, o, p, 0) /\ kyc' \subseteq Party
    BY <1>0, <1>3, DeskAssumption DEF requestLiquidity
  <2> QED BY <1>1, <2>1, RowsOfferMade
<1> QED BY <1>2, <1>3 DEF Offering

(* Bids and counter-offers. *)
LEMMA RowsBidding ==
  ASSUME Rows, NEW b \in Bid, Bidding(b)
  PROVE  Rows'
<1>0. TypeOK /\ RowsComplete /\ Papers BY DEF Rows
<1>1. Price \subseteq Amount BY DeskAssumption DEF Amount
<1>2. bids \in [Bid -> BidRow] BY <1>0, Types
<1>3. PICK amount \in Price :
        \/ \E o \in Offer, p \in Party : createBid(b, o, p, amount)
        \/ counterOffer(b, amount)
  BY DEF Bidding
<1>4. ASSUME NEW o \in Offer, NEW p \in Party, createBid(b, o, p, amount)
      PROVE  Rows'
  <2>1. bids' \in [Bid -> BidRow]
    BY <1>1, <1>2, <1>4 DEF createBid, NewBid, BidRow
  <2>2. TypeOK' BY <1>0, <1>4, <2>1 DEF TypeOK, createBid
  <2>3. RowsComplete'
    BY <1>0, <1>2, <1>4 DEF RowsComplete, createBid, NewBid, MayBid
  <2>4. Papers' BY <1>0, <1>4 DEF Papers, createBid
  <2> QED BY <2>2, <2>3, <2>4 DEF Rows
<1>5. ASSUME counterOffer(b, amount) PROVE Rows'
  <2>1. bids' \in [Bid -> BidRow]
    BY <1>1, <1>2, <1>5 DEF counterOffer, BidRow
  <2>2. TypeOK' BY <1>0, <1>5, <2>1 DEF TypeOK, counterOffer
  <2>3. RowsComplete'
    BY <1>0, <1>2, <1>5 DEF RowsComplete, counterOffer, BidRow
  <2>4. Papers' BY <1>0, <1>5 DEF Papers, counterOffer
  <2> QED BY <2>2, <2>3, <2>4 DEF Rows
<1> QED BY <1>3, <1>4, <1>5

(* A struck trade, its instruction and its bid are complete rows.          *)
LEMMA RowsBidAccepted ==
  ASSUME Rows, NEW b \in Bid, NEW t \in Trade, NEW u \in User, NEW bid \in BidRow,
         bid.offer \in Offer, bid.buyer \in Party,
         BidAccepted(b, bid, t, u), kyc' \subseteq Party
  PROVE  Rows'
<1> DEFINE r == offers[bid.offer].receivable
<1>0. TypeOK /\ RowsComplete /\ Papers BY DEF Rows
<1>1. r \in Receivable /\ offers[bid.offer].status # "ABSENT"
  BY <1>0 DEF RowsComplete, BidAccepted, MayAccept
<1>2. bid.amount \in Amount BY DEF BidRow
<1>3. assets' \in [Receivable -> AssetRow]
  <2>1. assets \in [Receivable -> AssetRow] BY <1>0, Types
  <2> QED BY <2>1 DEF BidAccepted, TradeStruck, AssetRow, ReceivableStatus
<1>4. locks' \in [Receivable -> LockRow]
  <2>1. locks \in [Receivable -> LockRow] BY <1>0, Types
  <2> QED BY <2>1 DEF BidAccepted, LockRow, LockState
<1>5. offers' \in [Offer -> OfferRow]
  <2>1. offers \in [Offer -> OfferRow] BY <1>0, Types
  <2> QED BY <2>1 DEF BidAccepted, OfferRow, OfferStatus
<1>6. bids' \in [Bid -> BidRow]
  <2>1. bids \in [Bid -> BidRow] BY <1>0, Types
  <2> QED BY <2>1 DEF BidAccepted, BidsAfter, BidRow
<1>7. trades' \in [Trade -> TradeRow]
  <2>1. trades \in [Trade -> TradeRow] BY <1>0, Types
  <2> QED BY <1>1, <1>2, <2>1 DEF BidAccepted, TradeStruck, TradeRow, TradeStatus
<1>8. instructions' \in [Trade -> InstructionRow]
  <2>1. instructions \in [Trade -> InstructionRow] BY <1>0, Types
  <2> QED BY <1>2, <2>1 DEF BidAccepted, TradeStruck, InstructionRow, SettlementStatus
<1>9. late' \subseteq Receivable
  BY <1>0, <1>1 DEF TypeOK, BidAccepted, checkedInvoice
<1>10. TypeOK'
  BY <1>0, <1>3, <1>4, <1>5, <1>6, <1>7, <1>8, <1>9 DEF TypeOK, BidAccepted
<1>11. RowsComplete'
  <2>1. offers \in [Offer -> OfferRow] /\ bids \in [Bid -> BidRow]
        /\ trades \in [Trade -> TradeRow]
    BY <1>0, Types
  <2> QED
    BY <1>0, <1>1, <2>1
    DEF RowsComplete, BidAccepted, TradeStruck, BidsAfter, OfferRow, BidRow, TradeRow
<1>12. Papers'
  <2>1. trades \in [Trade -> TradeRow] /\ instructions \in [Trade -> InstructionRow]
    BY <1>0, Types
  <2> QED BY <1>0, <2>1 DEF Papers, BidAccepted, TradeStruck
<1> QED BY <1>10, <1>11, <1>12 DEF Rows

(* The assignment contract's trade, offer and bid are complete rows.       *)
LEMMA RowsAssignment ==
  ASSUME Rows, NEW r \in Receivable, NEW o \in Offer, NEW b \in Bid, NEW t \in Trade,
         NEW s \in Party, NEW p \in Party, NEW amount \in Amount, NEW u \in User,
         createAssignment(r, o, b, t, s, p, amount, u)
  PROVE  Rows'
<1>0. TypeOK /\ RowsComplete /\ Papers BY DEF Rows
<1>1. assets' \in [Receivable -> AssetRow]
  <2>1. assets \in [Receivable -> AssetRow] BY <1>0, Types
  <2> QED BY <2>1 DEF createAssignment, TradeStruck, AssetRow, ReceivableStatus
<1>2. locks' \in [Receivable -> LockRow]
  <2>1. locks \in [Receivable -> LockRow] BY <1>0, Types
  <2> QED BY <2>1 DEF createAssignment, LockRow, LockState
<1>3. registry' \in [Receivable -> RegistryRow]
  <2>1. registry \in [Receivable -> RegistryRow] BY <1>0, Types
  <2> QED BY <2>1 DEF createAssignment, RegistryRow
<1>4. offers' \in [Offer -> OfferRow]
  <2>1. offers \in [Offer -> OfferRow] BY <1>0, Types
  <2> QED BY <2>1 DEF createAssignment, OfferRow, OfferStatus
<1>5. bids' \in [Bid -> BidRow]
  <2>1. bids \in [Bid -> BidRow] BY <1>0, Types
  <2> QED BY <2>1 DEF createAssignment, NewBid, BidRow
<1>6. trades' \in [Trade -> TradeRow]
  <2>1. trades \in [Trade -> TradeRow] BY <1>0, Types
  <2> QED BY <2>1 DEF createAssignment, NewBid, TradeStruck, TradeRow, TradeStatus
<1>7. instructions' \in [Trade -> InstructionRow]
  <2>1. instructions \in [Trade -> InstructionRow] BY <1>0, Types
  <2> QED BY <2>1
      DEF createAssignment, NewBid, TradeStruck, InstructionRow, SettlementStatus
<1>8. assignments' \in [Trade -> {"ABSENT", "INSTRUCTION_ISSUED", "EFFECTIVE"}]
  <2>1. assignments \in [Trade -> {"ABSENT", "INSTRUCTION_ISSUED", "EFFECTIVE"}]
    BY <1>0 DEF TypeOK
  <2> QED BY <2>1 DEF createAssignment
<1>9. late' \subseteq Receivable /\ kyc' \subseteq Party
  BY <1>0 DEF TypeOK, createAssignment, checkedInvoice
<1>10. TypeOK'
  BY <1>0, <1>1, <1>2, <1>3, <1>4, <1>5, <1>6, <1>7, <1>8, <1>9
  DEF TypeOK, createAssignment
<1>11. RowsComplete'
  <2>1. offers \in [Offer -> OfferRow] /\ bids \in [Bid -> BidRow]
        /\ trades \in [Trade -> TradeRow]
    BY <1>0, Types
  <2> QED
    BY <1>0, <2>1, DeskAssumption
    DEF RowsComplete, createAssignment, TradeStruck, NewBid, OfferRow, BidRow, TradeRow
<1>12. Papers'
  <2>1. trades \in [Trade -> TradeRow] /\ instructions \in [Trade -> InstructionRow]
    BY <1>0, Types
  <2> QED BY <1>0, <2>1 DEF Papers, createAssignment, TradeStruck
<1> QED BY <1>10, <1>11, <1>12 DEF Rows

(* acceptBid, acceptLiquidityQuote and createAssignment. *)
LEMMA RowsTrading ==
  ASSUME Rows, NEW b \in Bid, NEW t \in Trade, Trading(b, t)
  PROVE  Rows'
<1>0. TypeOK /\ RowsComplete /\ kyc \subseteq Party BY DEF Rows, TypeOK
<1>1. Price \subseteq Amount /\ Admin \subseteq User BY DeskAssumption DEF Amount
<1>2. bids \in [Bid -> BidRow] BY <1>0, Types
<1>3. ASSUME NEW u \in User, acceptBid(b, t, u) PROVE Rows'
  <2>1. bids[b].offer \in Offer /\ bids[b].buyer \in Party
    BY <1>0, <1>3 DEF acceptBid, RowsComplete
  <2>2. BidAccepted(b, bids[b], t, u) /\ kyc' \subseteq Party
    BY <1>0, <1>3 DEF acceptBid
  <2> QED BY <1>2, <2>1, <2>2, RowsBidAccepted
<1>4. ASSUME NEW o \in Offer, NEW p \in Party, NEW amount \in Price, NEW u \in Admin,
             acceptLiquidityQuote(o, b, t, p, amount, u)
      PROVE  Rows'
  <2>1. NewBid(o, p, amount) \in BidRow /\ NewBid(o, p, amount).offer \in Offer
        /\ NewBid(o, p, amount).buyer \in Party
    BY <1>1 DEF NewBid, BidRow
  <2>2. BidAccepted(b, NewBid(o, p, amount), t, u) /\ kyc' \subseteq Party
    BY <1>0, <1>4 DEF acceptLiquidityQuote
  <2> QED BY <1>1, <2>1, <2>2, RowsBidAccepted
<1>5. ASSUME NEW r \in Receivable, NEW o \in Offer, NEW s \in Party, NEW p \in Party,
             NEW amount \in Price, NEW u \in Admin,
             createAssignment(r, o, b, t, s, p, amount, u)
      PROVE  Rows'
  BY <1>1, <1>5, RowsAssignment
<1> QED BY <1>3, <1>4, <1>5 DEF Trading

(* A payment report decides a trade on complete rows.                      *)
LEMMA RowsReported ==
  ASSUME Rows, NEW obs \in Observation, SettlementReported(obs),
         assignments' \in [Trade -> {"ABSENT", "INSTRUCTION_ISSUED", "EFFECTIVE"}]
  PROVE  Rows'
<1> DEFINE t == obs.instruction
           r == trades[t].receivable
<1>0. TypeOK /\ RowsComplete /\ Papers BY DEF Rows
<1>1. t \in Trade BY DEF Observation
<1>2. trades[t].status # "ABSENT" BY <1>0, <1>1 DEF Papers, SettlementReported
<1>3. r \in Receivable /\ trades[t].buyer \in Party
  BY <1>0, <1>1, <1>2 DEF RowsComplete
<1>4. trades \in [Trade -> TradeRow] /\ instructions \in [Trade -> InstructionRow]
  BY <1>0, Types
<1>5. observations' \subseteq Observation
  BY <1>0 DEF TypeOK, SettlementReported
<1>6. CASE PaymentDiffers(t)
  <2>1. /\ instructions' \in [Trade -> InstructionRow]
        /\ trades' \in [Trade -> TradeRow]
    <3>1. instructions' \in [Trade -> InstructionRow]
      BY <1>4, <1>6 DEF PaymentDiffers, InstructionRow, SettlementStatus
    <3>2. trades' \in [Trade -> TradeRow]
      BY <1>4, <1>6 DEF PaymentDiffers, TradeRow, TradeStatus
    <3> QED BY <3>1, <3>2
  <2>2. TypeOK' BY <1>0, <1>5, <1>6, <2>1 DEF TypeOK, SettlementReported, PaymentDiffers
  <2>3. RowsComplete'
    BY <1>0, <1>1, <1>2, <1>4, <1>6
    DEF RowsComplete, SettlementReported, PaymentDiffers, TradeRow
  <2>4. Papers' BY <1>0, <1>1, <1>4, <1>6 DEF Papers, PaymentDiffers, InstructionRow, TradeRow
  <2> QED BY <2>2, <2>3, <2>4 DEF Rows
<1>7. CASE PaymentMatches(t)
  <2>1. /\ instructions' \in [Trade -> InstructionRow]
        /\ trades' \in [Trade -> TradeRow]
    <3>1. instructions' \in [Trade -> InstructionRow]
      BY <1>4, <1>7 DEF PaymentMatches, RegistryAfter, InstrumentAfter, InstructionRow, SettlementStatus
    <3>2. trades' \in [Trade -> TradeRow]
      BY <1>4, <1>7 DEF PaymentMatches, RegistryAfter, InstrumentAfter, TradeRow, TradeStatus
    <3> QED BY <3>1, <3>2
  <2>2. assets' \in [Receivable -> AssetRow]
    <3>1. assets \in [Receivable -> AssetRow] BY <1>0, Types
    <3> DEFINE instrument == IF assignments[t] # "ABSENT"
                             THEN "ASSIGNED_RECEIVABLE" ELSE "PURCHASED_RECEIVABLE"
    <3>2. assets' = [assets EXCEPT
            ![r].status = "TRANSFERRED", ![r].holder = trades[t].buyer,
            ![r].instrument = instrument]
      BY <1>7 DEF PaymentMatches, RegistryAfter, InstrumentAfter
    <3>3. instrument \in {"ASSIGNED_RECEIVABLE", "PURCHASED_RECEIVABLE"} OBVIOUS
    <3> HIDE DEF instrument
    <3> QED BY <1>3, <3>1, <3>2, <3>3 DEF AssetRow, ReceivableStatus
  <2>3. locks' \in [Receivable -> LockRow]
    <3>1. locks \in [Receivable -> LockRow] BY <1>0, Types
    <3> QED BY <1>7, <3>1 DEF PaymentMatches, RegistryAfter, InstrumentAfter, LockRow, LockState
  <2>4. registry' \in [Receivable -> RegistryRow]
    <3>1. registry \in [Receivable -> RegistryRow] BY <1>0, Types
    <3>2. CASE registry[r].reserved = 0
      BY <1>7, <3>1, <3>2 DEF PaymentMatches, RegistryAfter, InstrumentAfter
    <3>3. CASE registry[r].reserved # 0
      <4>1. registry' = [registry EXCEPT ![r].reserved = @ - 1,
              ![r].active = @ + 1, ![r].transferee = trades[t].buyer]
        BY <1>7, <3>3 DEF PaymentMatches, RegistryAfter, InstrumentAfter
      <4>2. registry[r].reserved - 1 \in Nat /\ registry[r].active + 1 \in Nat
        BY <1>3, <3>1, <3>3 DEF RegistryRow
      <4> QED BY <1>3, <3>1, <4>1, <4>2 DEF RegistryRow
    <3> QED BY <3>2, <3>3
  <2>5. TypeOK'
    BY <1>0, <1>5, <1>7, <2>1, <2>2, <2>3, <2>4 DEF TypeOK, SettlementReported
  <2>6. RowsComplete'
    BY <1>0, <1>1, <1>2, <1>4, <1>7
    DEF RowsComplete, SettlementReported, PaymentMatches, RegistryAfter, InstrumentAfter, TradeRow
  <2>7. Papers' BY <1>0, <1>1, <1>4, <1>7 DEF Papers, PaymentMatches, RegistryAfter, InstrumentAfter, InstructionRow, TradeRow
  <2> QED BY <2>5, <2>6, <2>7 DEF Rows
<1> QED BY <1>6, <1>7 DEF SettlementReported

(* The provider's webhook and the manual confirmation both store a report. *)
LEMMA PaymentIsReport ==
  ASSUME Rows, NEW t \in Trade, Paying(t)
  PROVE  /\ \E obs \in Observation : obs.instruction = t /\ SettlementReported(obs)
         /\ assignments' \in [Trade -> {"ABSENT", "INSTRUCTION_ISSUED", "EFFECTIVE"}]
<1>0. TypeOK BY DEF Rows
<1>1. assignments \in [Trade -> {"ABSENT", "INSTRUCTION_ISSUED", "EFFECTIVE"}]
  BY <1>0 DEF TypeOK
<1>2. ASSUME NEW e \in Event, NEW amount \in Price, NEW sameCurrency \in BOOLEAN,
             applySettlementWebhook(e, t, amount, sameCurrency)
      PROVE  /\ \E obs \in Observation : obs.instruction = t /\ SettlementReported(obs)
             /\ assignments' = assignments
  <2> DEFINE obs == [report |-> [source |-> "psp", id |-> e], instruction |-> t,
                     amount |-> amount, sameCurrency |-> sameCurrency]
  <2>1. obs \in Observation BY DeskAssumption DEF Observation, ReportId, Amount
  <2>2. SettlementReported(obs) /\ assignments' = assignments
    BY <1>2 DEF applySettlementWebhook
  <2> QED BY <2>1, <2>2
<1>3. ASSUME NEW u \in User, NEW effective \in BOOLEAN, confirmByProvider(t, u, effective)
      PROVE  /\ \E obs \in Observation : obs.instruction = t /\ SettlementReported(obs)
             /\ assignments' \in [Trade -> {"ABSENT", "INSTRUCTION_ISSUED", "EFFECTIVE"}]
  <2> DEFINE obs == [report |-> [source |-> "manual", id |-> t], instruction |-> t,
                     amount |-> instructions[t].amount, sameCurrency |-> TRUE]
  <2>1. instructions[t].amount \in Amount BY <1>0, Types DEF InstructionRow
  <2>2. obs \in Observation BY <2>1 DEF Observation, ReportId
  <2>3. assignments' \in [Trade -> {"ABSENT", "INSTRUCTION_ISSUED", "EFFECTIVE"}]
    BY <1>1, <1>3 DEF confirmByProvider
  <2>4. SettlementReported(obs) BY <1>3 DEF confirmByProvider
  <2> QED BY <2>2, <2>3, <2>4
<1> QED BY <1>1, <1>2, <1>3 DEF Paying

(* Every step keeps the tables well formed. *)
LEMMA RowsNext == Rows /\ [Next]_vars => Rows'
<1> SUFFICES ASSUME Rows, [Next]_vars PROVE Rows' OBVIOUS
<1>0. TypeOK /\ RowsComplete /\ Papers BY DEF Rows
<1>1. ASSUME NEW r \in Receivable,
             Recording(r) \/ Disputing(r) \/ Financing(r) \/ Offering(r)
      PROVE  Rows'
  BY <1>1, RowsRecording, RowsDisputing, RowsFinancing, RowsOffering
<1>2. ASSUME NEW p \in Party, NEW passed \in BOOLEAN, setKyc(p, passed) PROVE Rows'
  <2>1. TypeOK' BY <1>0, <1>2 DEF TypeOK, setKyc
  <2> QED BY <1>0, <1>2, <2>1, PapersUntouched DEF Rows, setKyc
<1>3. ASSUME NEW b \in Bid, Bidding(b) PROVE Rows'
  BY <1>3, RowsBidding
<1>4. ASSUME NEW b \in Bid, NEW t \in Trade, Trading(b, t) PROVE Rows'
  BY <1>4, RowsTrading
<1>5. ASSUME NEW t \in Trade, Paying(t) PROVE Rows'
  BY <1>5, PaymentIsReport, RowsReported
<1>6. CASE UNCHANGED vars
  BY <1>0, <1>6 DEF vars, Rows, TypeOK, RowsComplete, Papers
<1> QED BY <1>1, <1>2, <1>3, <1>4, <1>5, <1>6 DEF Next

(* Tables are well typed and rows complete in every reachable state.       *)
LEMMA RowsInvariant == Spec => []Rows
  BY RowsInit, RowsNext, PTL DEF Spec

(* Type correctness: every collection keeps the shape of its rows.         *)
THEOREM TypeCorrect == Spec => []TypeOK
<1>1. Rows => TypeOK BY DEF Rows
<1> QED BY RowsInvariant, <1>1, PTL

-----------------------------------------------------------------------------
(* Offers and trades against locks. *)

Locks == OfferLockAgreement /\ SoldOnce

(* No offer, no trade and no lock at first. *)
LEMMA LocksInit == Init => Locks
  BY DeskAssumption
  DEF Init, Locks, OfferLockAgreement, SoldOnce, LiveOffers, TradesOf, NoOffer, NoTrade

(* Handlers that touch neither locks, offers nor trades keep their agreement. *)
LEMMA LocksUntouched ==
  ASSUME Locks, UNCHANGED <<offers, trades, locks>>
  PROVE  Locks'
  BY DEF Locks, OfferLockAgreement, SoldOnce, LiveOffers, TradesOf

(* A dispute takes the LIVE offers and their lock away together.           *)
LEMMA LocksOpenDispute ==
  ASSUME Rows, Locks, NEW r \in Receivable, NEW amount \in Amount,
         openDispute(r, amount)
  PROVE  Locks'
<1>1. offers \in [Offer -> OfferRow] /\ locks \in [Receivable -> LockRow]
  BY Types DEF Rows
<1>2. LiveOffers(r)' = {}
  BY <1>1 DEF openDispute, LocksAfterDispute, LiveOffers, OfferRow
<1>3. \A x \in Receivable \ {r} : LiveOffers(x)' = LiveOffers(x)
  BY <1>1 DEF openDispute, LocksAfterDispute, LiveOffers, OfferRow
<1>4. locks'[r].state # "OFFER_LOCK"
  BY <1>1 DEF openDispute, LocksAfterDispute, LockRow
<1>5. \A x \in Receivable \ {r} : locks'[x] = locks[x]
  BY <1>1 DEF openDispute, LocksAfterDispute
<1>6. OfferLockAgreement'
  BY <1>2, <1>3, <1>4, <1>5 DEF Locks, OfferLockAgreement
<1>7. \A x \in Receivable :
        /\ TradesOf(x)' = TradesOf(x)
        /\ locks'[x].trade = locks[x].trade
        /\ locks'[x].state \in {"TRADE_LOCK", "ASSIGNED"}
             <=> locks[x].state \in {"TRADE_LOCK", "ASSIGNED"}
  BY <1>1 DEF openDispute, LocksAfterDispute, TradesOf, LockRow
<1>8. SoldOnce' BY <1>7 DEF Locks, SoldOnce
<1> QED BY <1>6, <1>8 DEF Locks

(* A new offer is the only LIVE one, and its lock names it.                *)
LEMMA LocksOfferMade ==
  ASSUME Rows, Locks, NEW r \in Receivable, NEW o \in Offer, NEW p \in Party,
         NEW min \in Amount, OfferMade(r, o, p, min)
  PROVE  Locks'
<1>1. offers \in [Offer -> OfferRow] /\ locks \in [Receivable -> LockRow]
  BY Types DEF Rows
<1>2. /\ LiveOffers(r) = {}
      /\ locks[r].state = "UNLOCKED"
      /\ offers[o].status = "ABSENT"
      /\ offers[o].receivable = None
  BY <1>1 DEF OfferMade, MayOffer, canCreateSecondLiveOffer, LockRow, LockState,
              Rows, RowsComplete
<1>3. /\ locks'[r].state = "OFFER_LOCK"
      /\ locks'[r].offer = o
      /\ \A x \in Receivable \ {r} : locks'[x] = locks[x]
  BY <1>1 DEF OfferMade, LockRow
<1>4. LiveOffers(r)' = {o}
  BY <1>1, <1>2 DEF OfferMade, LiveOffers
<1>5. \A x \in Receivable \ {r} : LiveOffers(x)' = LiveOffers(x)
  BY <1>1, <1>2 DEF OfferMade, LiveOffers
<1>6. OfferLockAgreement' BY <1>3, <1>4, <1>5 DEF Locks, OfferLockAgreement
<1>7. \A x \in Receivable : TradesOf(x)' = TradesOf(x) BY DEF OfferMade, TradesOf
<1>8. SoldOnce' BY <1>2, <1>3, <1>7 DEF Locks, SoldOnce
<1> QED BY <1>6, <1>8 DEF Locks

(* An accepted bid turns the offer's lock into its trade's.                *)
LEMMA LocksBidAccepted ==
  ASSUME Rows, Locks, NEW b \in Bid, NEW t \in Trade, NEW u \in User,
         NEW bid \in BidRow, bid.offer \in Offer, BidAccepted(b, bid, t, u)
  PROVE  Locks'
<1>1. /\ offers \in [Offer -> OfferRow]
      /\ locks \in [Receivable -> LockRow]
      /\ trades \in [Trade -> TradeRow]
  BY Types DEF Rows
<1>2. PICK r \in Receivable : r = offers[bid.offer].receivable
  BY DEF Rows, RowsComplete, BidAccepted, MayAccept
<1>3. bid.offer \in LiveOffers(r) BY <1>2 DEF BidAccepted, MayAccept, LiveOffers
<1>4. locks[r].state = "OFFER_LOCK" /\ LiveOffers(r) = {bid.offer}
  BY <1>2, <1>3 DEF Locks, OfferLockAgreement
<1>5. /\ locks'[r].state = "TRADE_LOCK"
      /\ locks'[r].trade = t
      /\ \A x \in Receivable \ {r} : locks'[x] = locks[x]
  BY <1>1, <1>2 DEF BidAccepted, LockRow
<1>6. LiveOffers(r)' = {}
  BY <1>1, <1>2, <1>4 DEF BidAccepted, LiveOffers, OfferRow
<1>7. \A x \in Receivable \ {r} : LiveOffers(x)' = LiveOffers(x)
  BY <1>1, <1>2 DEF BidAccepted, LiveOffers, OfferRow
<1>8. OfferLockAgreement' BY <1>5, <1>6, <1>7 DEF Locks, OfferLockAgreement
<1>9. trades[t].status = "ABSENT" /\ trades[t].receivable = None
  BY DEF BidAccepted, TradeStruck, Rows, RowsComplete
<1>10. TradesOf(r) = {} BY <1>2, <1>4 DEF Locks, SoldOnce
<1>11. TradesOf(r)' = {t}
  BY <1>1, <1>2, <1>10 DEF BidAccepted, TradeStruck, TradesOf
<1>12. \A x \in Receivable \ {r} : TradesOf(x)' = TradesOf(x)
  BY <1>1, <1>2, <1>9, DeskAssumption DEF BidAccepted, TradeStruck, TradesOf
<1>13. SoldOnce' BY <1>5, <1>11, <1>12 DEF Locks, SoldOnce
<1> QED BY <1>8, <1>13 DEF Locks

(* An assignment contract goes from free to its trade's lock.              *)
LEMMA LocksAssignment ==
  ASSUME Rows, Locks, NEW r \in Receivable, NEW o \in Offer, NEW b \in Bid,
         NEW t \in Trade, NEW s \in Party, NEW p \in Party, NEW amount \in Amount,
         NEW u \in User, createAssignment(r, o, b, t, s, p, amount, u)
  PROVE  Locks'
<1>1. /\ offers \in [Offer -> OfferRow]
      /\ locks \in [Receivable -> LockRow]
      /\ trades \in [Trade -> TradeRow]
  BY Types DEF Rows
<1>2. /\ LiveOffers(r) = {}
      /\ locks[r].state = "UNLOCKED"
      /\ offers[o].receivable = None
  BY <1>1 DEF createAssignment, MayOffer, canCreateSecondLiveOffer, LockRow,
              LockState, Rows, RowsComplete
<1>3. /\ locks'[r].state = "TRADE_LOCK"
      /\ locks'[r].trade = t
      /\ \A x \in Receivable \ {r} : locks'[x] = locks[x]
  BY <1>1 DEF createAssignment, LockRow
<1>4. LiveOffers(r)' = {}
  BY <1>1, <1>2 DEF createAssignment, LiveOffers
<1>5. \A x \in Receivable \ {r} : LiveOffers(x)' = LiveOffers(x)
  BY <1>1, <1>2, DeskAssumption DEF createAssignment, LiveOffers
<1>6. OfferLockAgreement' BY <1>3, <1>4, <1>5 DEF Locks, OfferLockAgreement
<1>7. trades[t].receivable = None
  BY DEF createAssignment, TradeStruck, Rows, RowsComplete
<1>8. TradesOf(r) = {} BY <1>2 DEF Locks, SoldOnce
<1>9. TradesOf(r)' = {t} BY <1>1, <1>8 DEF createAssignment, TradeStruck, TradesOf
<1>10. \A x \in Receivable \ {r} : TradesOf(x)' = TradesOf(x)
  BY <1>1, <1>7, DeskAssumption DEF createAssignment, TradeStruck, TradesOf
<1>11. SoldOnce' BY <1>3, <1>9, <1>10 DEF Locks, SoldOnce
<1> QED BY <1>6, <1>11 DEF Locks

(* A stored report is about a trade whose receivable and lock are known.   *)
LEMMA ReportedTrade ==
  ASSUME Rows, Locks, NEW obs \in Observation, SettlementReported(obs)
  PROVE  LET t == obs.instruction
             r == trades[t].receivable
         IN  /\ t \in Trade
             /\ trades[t].status # "ABSENT"
             /\ r \in Receivable
             /\ TradesOf(r) = {t}
             /\ locks[r].trade = t
             /\ locks[r].state \in {"TRADE_LOCK", "ASSIGNED"}
             /\ LiveOffers(r) = {}
<1> DEFINE t == obs.instruction
           r == trades[t].receivable
<1>1. t \in Trade BY DEF Observation
<1>2. trades[t].status # "ABSENT" BY <1>1 DEF Rows, Papers, SettlementReported
<1>3. r \in Receivable BY <1>1, <1>2 DEF Rows, RowsComplete
<1>4. t \in TradesOf(r) BY <1>1 DEF TradesOf
<1>5. /\ TradesOf(r) = {t}
      /\ locks[r].trade = t
      /\ locks[r].state \in {"TRADE_LOCK", "ASSIGNED"}
  BY <1>3, <1>4 DEF Locks, SoldOnce
<1>6. LiveOffers(r) = {} BY <1>3, <1>5 DEF Locks, OfferLockAgreement
<1> QED BY <1>1, <1>2, <1>3, <1>5, <1>6

(* A payment report moves a trade lock to ASSIGNED or leaves it.           *)
LEMMA LocksReported ==
  ASSUME Rows, Locks, NEW obs \in Observation, SettlementReported(obs)
  PROVE  Locks'
<1> DEFINE t == obs.instruction
           r == trades[t].receivable
<1>1. /\ locks \in [Receivable -> LockRow]
      /\ trades \in [Trade -> TradeRow]
  BY Types DEF Rows
<1>2. /\ t \in Trade
      /\ r \in Receivable
      /\ locks[r].trade = t
      /\ locks[r].state \in {"TRADE_LOCK", "ASSIGNED"}
  BY ReportedTrade
<1>3. \A x \in Receivable : LiveOffers(x)' = LiveOffers(x)
  BY DEF SettlementReported, LiveOffers
<1>4. \A x \in Receivable : TradesOf(x)' = TradesOf(x)
  <2>1. CASE PaymentMatches(t) BY <1>1, <2>1 DEF PaymentMatches, TradesOf, TradeRow
  <2>2. CASE PaymentDiffers(t) BY <1>1, <2>2 DEF PaymentDiffers, TradesOf, TradeRow
  <2> QED BY <2>1, <2>2 DEF SettlementReported
<1>5. \A x \in Receivable :
        /\ locks'[x].trade = locks[x].trade
        /\ locks'[x].offer = locks[x].offer
        /\ locks'[x].state = "OFFER_LOCK" <=> locks[x].state = "OFFER_LOCK"
        /\ locks'[x].state \in {"TRADE_LOCK", "ASSIGNED"}
             <=> locks[x].state \in {"TRADE_LOCK", "ASSIGNED"}
  <2>1. CASE PaymentMatches(t)
    <3>1. locks' = [locks EXCEPT ![r].state = "ASSIGNED"]
      BY <2>1 DEF PaymentMatches, RegistryAfter, InstrumentAfter
    <3> HIDE DEF r
    <3> QED BY <1>1, <1>2, <3>1 DEF LockRow
  <2>2. CASE PaymentDiffers(t) BY <2>2 DEF PaymentDiffers
  <2> QED BY <2>1, <2>2 DEF SettlementReported
<1> QED BY <1>3, <1>4, <1>5 DEF Locks, OfferLockAgreement, SoldOnce

(* Every step keeps offers, trades and locks in agreement. *)
LEMMA LocksNext == Rows /\ Locks /\ [Next]_vars => Locks'
<1> SUFFICES ASSUME Rows, Locks, [Next]_vars PROVE Locks' OBVIOUS
<1>0. /\ bids \in [Bid -> BidRow]
      /\ kyc \subseteq Party
      /\ \A b \in Bid : bids[b].status # "ABSENT" => bids[b].offer \in Offer
  BY Types DEF Rows, TypeOK, RowsComplete
<1>1. Price \subseteq Amount /\ 0 \in Amount /\ Admin \subseteq User
  BY DeskAssumption DEF Amount
<1>2. ASSUME NEW r \in Receivable, Recording(r) \/ Financing(r) PROVE Locks'
  BY <1>2, LocksUntouched
  DEF Recording, createReceivable, verify, MaturityPasses, Financing,
      confirmCapitalNeed, releaseCapitalNeed
<1>3. ASSUME NEW r \in Receivable, Disputing(r) PROVE Locks'
  <2>1. ASSUME NEW amount \in Amount, openDispute(r, amount) PROVE Locks'
    BY <2>1, LocksOpenDispute
  <2>2. CASE UNCHANGED <<offers, trades, locks>> BY <2>2, LocksUntouched
  <2> QED
    BY <1>3, <2>1, <2>2
    DEF Disputing, createDispute, reopenDispute, closeDispute, archiveDispute,
        updateDisputeTrack
<1>4. ASSUME NEW r \in Receivable, Offering(r) PROVE Locks'
  BY <1>1, <1>4, LocksOfferMade DEF Offering, createOffer, requestLiquidity
<1>5. ASSUME NEW p \in Party, NEW passed \in BOOLEAN, setKyc(p, passed) PROVE Locks'
  BY <1>5, LocksUntouched DEF setKyc
<1>6. ASSUME NEW b \in Bid, Bidding(b) PROVE Locks'
  BY <1>6, LocksUntouched DEF Bidding, createBid, counterOffer
<1>7. ASSUME NEW b \in Bid, NEW t \in Trade, Trading(b, t) PROVE Locks'
  <2>1. ASSUME NEW u \in User, acceptBid(b, t, u) PROVE Locks'
    BY <1>0, <2>1, LocksBidAccepted DEF acceptBid
  <2>2. ASSUME NEW o \in Offer, NEW p \in Party, NEW amount \in Price, NEW u \in Admin,
               acceptLiquidityQuote(o, b, t, p, amount, u)
        PROVE  Locks'
    <3>1. NewBid(o, p, amount) \in BidRow /\ NewBid(o, p, amount).offer \in Offer
      BY <1>1 DEF NewBid, BidRow
    <3> QED BY <1>1, <2>2, <3>1, LocksBidAccepted DEF acceptLiquidityQuote
  <2>3. ASSUME NEW r \in Receivable, NEW o \in Offer, NEW s \in Party, NEW p \in Party,
               NEW amount \in Price, NEW u \in Admin,
               createAssignment(r, o, b, t, s, p, amount, u)
        PROVE  Locks'
    BY <1>1, <2>3, LocksAssignment
  <2> QED BY <1>7, <2>1, <2>2, <2>3 DEF Trading
<1>8. ASSUME NEW t \in Trade, Paying(t) PROVE Locks'
  <2>1. PICK obs \in Observation : SettlementReported(obs)
    BY <1>8, PaymentIsReport
  <2> QED BY <2>1, LocksReported
<1>9. CASE UNCHANGED vars BY <1>9, LocksUntouched DEF vars
<1> QED BY <1>2, <1>3, <1>4, <1>5, <1>6, <1>7, <1>8, <1>9 DEF Next

(* No receivable is on offer twice, and none is sold twice. *)
LEMMA LocksInvariant == Spec => [](Rows /\ Locks)
<1>1. Init => Rows /\ Locks BY RowsInit, LocksInit
<1>2. Rows /\ Locks /\ [Next]_vars => (Rows /\ Locks)' BY RowsNext, LocksNext
<1> QED BY <1>1, <1>2, PTL DEF Spec

(* The LIVE offers of a receivable are what its lock says: none or one.    *)
THEOREM OffersAgree == Spec => []OfferLockAgreement
<1>1. Locks => OfferLockAgreement BY DEF Locks
<1> QED BY LocksInvariant, <1>1, PTL

(* A receivable is never sold twice.                                       *)
THEOREM NeverSoldTwice == Spec => []SoldOnce
<1>1. Locks => SoldOnce BY DEF Locks
<1> QED BY LocksInvariant, <1>1, PTL

-----------------------------------------------------------------------------
(* What a step does to locks, registry, trades, holders and reservations:  *)
(* nothing, or one of seven moves of one receivable.  The invariants on    *)
(* money and ownership and the refinement follow from the moves alone.     *)

HoldersKept ==
  \A x \in Receivable :
    /\ assets'[x].holder = assets[x].holder
    /\ assets'[x].instrument = assets[x].instrument
    /\ Recorded(x) => Recorded(x)'

SalesKept == UNCHANGED <<registry, trades, instructions>>

LockMoves(r, state, trade) ==
  /\ locks'[r].state = state
  /\ locks'[r].trade = trade
  /\ \A x \in Receivable \ {r} : locks'[x] = locks[x]

Quiet == HoldersKept /\ SalesKept /\ UNCHANGED <<locks, capital_needs>>

Pledged(r) ==
  /\ HoldersKept /\ SalesKept /\ UNCHANGED locks
  /\ assertNotForSale(r)
  /\ ~Disputed(r)
  /\ capital_needs' = capital_needs \cup {r}

Released(r) ==
  /\ HoldersKept /\ SalesKept /\ UNCHANGED locks
  /\ capital_needs' = capital_needs \ {r}

Withdrawn(r) ==
  /\ HoldersKept /\ SalesKept /\ UNCHANGED capital_needs
  /\ locks[r].state = "OFFER_LOCK"
  /\ LockMoves(r, "UNLOCKED", locks[r].trade)

Offered(r) ==
  /\ HoldersKept /\ UNCHANGED <<trades, instructions, capital_needs>>
  /\ Recorded(r)
  /\ ~Disputed(r)
  /\ locks[r].state = "UNLOCKED"
  /\ r \notin capital_needs
  /\ LockMoves(r, "OFFER_LOCK", locks[r].trade)
  /\ registry' = [registry EXCEPT ![r].reserved = @ + 1]

Struck(r, t, p) ==
  /\ HoldersKept /\ UNCHANGED capital_needs
  /\ Recorded(r)
  /\ ~Disputed(r)
  /\ r \notin capital_needs
  /\ trades[t].status = "ABSENT"
  /\ \E o \in Offer, b \in Bid, price \in Amount : trades' = [trades EXCEPT ![t] =
       [status |-> "SETTLEMENT_PENDING", receivable |-> r, offer |-> o, bid |-> b,
        buyer |-> p, price |-> price]]
  /\ instructions'[t].status = "ISSUED"
  /\ \A x \in Trade \ {t} : instructions'[x] = instructions[x]
  /\ LockMoves(r, "TRADE_LOCK", t)
  /\ \/ locks[r].state = "OFFER_LOCK" /\ registry' = registry
     \/ locks[r].state = "UNLOCKED"
        /\ registry' = [registry EXCEPT ![r].reserved = @ + 1]

Failed(r, t) ==
  /\ HoldersKept /\ UNCHANGED <<registry, locks, capital_needs>>
  /\ trades[t].receivable = r /\ trades[t].status = "SETTLEMENT_PENDING"
  /\ locks[r].trade = t /\ locks[r].state = "TRADE_LOCK"
  /\ trades' = [trades EXCEPT ![t].status = "DISPUTED_SETTLEMENT"]
  /\ instructions' = [instructions EXCEPT ![t].status = "MISMATCH"]

Settled(r, t) ==
  /\ UNCHANGED capital_needs
  /\ ~Disputed(r)
  /\ trades[t].receivable = r /\ trades[t].status = "SETTLEMENT_PENDING"
  /\ locks[r].trade = t /\ locks[r].state = "TRADE_LOCK"
  /\ trades' = [trades EXCEPT ![t].status = "COMPLETED"]
  /\ instructions' = [instructions EXCEPT ![t].status = "CONFIRMED"]
  /\ LockMoves(r, "ASSIGNED", t)
  /\ assets'[r].holder = trades[t].buyer
  /\ assets'[r].instrument = InstrumentAfter(t)
  /\ \A x \in Receivable \ {r} :
       /\ assets'[x].holder = assets[x].holder
       /\ assets'[x].instrument = assets[x].instrument
  /\ \A x \in Receivable : Recorded(x) => Recorded(x)'
  /\ registry' = IF registry[r].reserved = 0 THEN registry
                 ELSE [registry EXCEPT ![r].reserved = @ - 1, ![r].active = @ + 1,
                                       ![r].transferee = trades[t].buyer]

Move(r) ==
  \/ Pledged(r) \/ Released(r) \/ Withdrawn(r) \/ Offered(r)
  \/ \E t \in Trade, p \in Party : Struck(r, t, p)
  \/ \E t \in Trade : Failed(r, t) \/ Settled(r, t)

(* A dispute withdraws an offer, or moves nothing. *)
LEMMA MoveOpenDispute ==
  ASSUME Rows, NEW r \in Receivable, NEW amount \in Amount, openDispute(r, amount)
  PROVE  Quiet \/ Withdrawn(r)
<1>1. assets \in [Receivable -> AssetRow] /\ locks \in [Receivable -> LockRow]
  BY Types DEF Rows
<1>2. HoldersKept
  BY <1>1 DEF openDispute, LocksAfterDispute, HoldersKept, Recorded, AssetRow, DisputeStatus
<1>3. CASE locks[r].state = "OFFER_LOCK"
  <2>1. LockMoves(r, "UNLOCKED", locks[r].trade)
    BY <1>1, <1>3 DEF openDispute, LocksAfterDispute, LockMoves, LockRow
  <2> QED BY <1>2, <1>3, <2>1 DEF openDispute, LocksAfterDispute, Withdrawn, SalesKept
<1>4. CASE locks[r].state # "OFFER_LOCK"
  BY <1>2, <1>4 DEF openDispute, LocksAfterDispute, Quiet, SalesKept
<1> QED BY <1>3, <1>4

(* Recording, verification and the other dispute handlers move nothing.    *)
LEMMA MoveQuiet ==
  ASSUME Rows, NEW r \in Receivable, Recording(r) \/ Disputing(r)
  PROVE  Quiet \/ Withdrawn(r)
<1>1. assets \in [Receivable -> AssetRow] BY Types DEF Rows
<1>2. ASSUME NEW band \in Band, NEW hasDispute \in BOOLEAN,
             NEW disputed \in Amount, NEW u \in User,
             createReceivable(r, band, hasDispute, disputed, u)
      PROVE  Quiet
  <2>1. HoldersKept BY <1>1, <1>2 DEF createReceivable, HoldersKept, Recorded, AssetRow
  <2> QED BY <1>2, <2>1 DEF createReceivable, Quiet, SalesKept
<1>3. ASSUME NEW band \in Band, NEW hasDispute \in BOOLEAN, NEW unpaid \in BOOLEAN,
             verify(r, band, hasDispute, unpaid)
      PROVE  Quiet
  <2>1. VerifiedStatus(assets[r], band, hasDispute, unpaid) # "ABSENT"
    BY <1>3 DEF verify, Recorded, VerifiedStatus
  <2>2. HoldersKept BY <1>1, <1>3, <2>1 DEF verify, HoldersKept, Recorded, AssetRow
  <2> QED BY <1>3, <2>2 DEF verify, Quiet, SalesKept
<1>4. ASSUME NEW action \in {"keep", "restore", "close_asset"},
             closeDispute(r, action)
      PROVE  Quiet
  <2>1. /\ AssetAfter(assets[r], action).holder = assets[r].holder
        /\ AssetAfter(assets[r], action).instrument = assets[r].instrument
        /\ AssetAfter(assets[r], action).status # "ABSENT"
    <3>1. assets[r] \in AssetRow /\ assets[r].status # "ABSENT"
      BY <1>1, <1>4 DEF closeDispute, Recorded
    <3>2. CASE action = "keep" BY <3>1, <3>2 DEF AssetAfter
    <3>3. CASE action = "restore" BY <3>1, <3>3 DEF AssetAfter, AssetRow
    <3>4. CASE action = "close_asset" BY <3>1, <3>4 DEF AssetAfter, AssetRow
    <3> QED BY <3>2, <3>3, <3>4
  <2>2. HoldersKept BY <1>1, <1>4, <2>1 DEF closeDispute, HoldersKept, Recorded
  <2> QED BY <1>4, <2>2 DEF closeDispute, Quiet, SalesKept
<1>5. CASE UNCHANGED <<assets, locks, registry, trades, instructions, capital_needs>>
  BY <1>5 DEF Quiet, HoldersKept, SalesKept, Recorded
<1> QED
  BY <1>2, <1>3, <1>4, <1>5, MoveOpenDispute
  DEF Recording, Disputing, MaturityPasses, createDispute, reopenDispute,
      archiveDispute, updateDisputeTrack

(* Reserving and releasing are the moves of the same name. *)
LEMMA MoveFinancing ==
  ASSUME NEW r \in Receivable, Financing(r)
  PROVE  Move(r)
  BY DEF Financing, confirmCapitalNeed, releaseCapitalNeed, Move, Pledged, Released,
         HoldersKept, SalesKept, Recorded, Disputed

(* An offer locks a free receivable. *)
LEMMA MoveOfferMade ==
  ASSUME Rows, NEW r \in Receivable, NEW o \in Offer, NEW p \in Party, NEW min,
         OfferMade(r, o, p, min)
  PROVE  Offered(r)
<1>1. assets \in [Receivable -> AssetRow] /\ locks \in [Receivable -> LockRow]
  BY Types DEF Rows
<1>2. HoldersKept BY <1>1 DEF OfferMade, HoldersKept, Recorded, AssetRow
<1>3. /\ Recorded(r) /\ ~Disputed(r)
      /\ locks[r].state = "UNLOCKED" /\ r \notin capital_needs
  BY <1>1 DEF OfferMade, MayOffer, assertNotFinanced, canCreateSecondLiveOffer,
              LockRow, LockState
<1>4. LockMoves(r, "OFFER_LOCK", locks[r].trade)
  BY <1>1 DEF OfferMade, LockMoves, LockRow
<1> QED BY <1>2, <1>3, <1>4 DEF OfferMade, Offered

(* An accepted bid strikes the sale with its buyer. *)
LEMMA MoveBidAccepted ==
  ASSUME Rows, Locks, NEW b \in Bid, NEW t \in Trade, NEW u \in User,
         NEW bid \in BidRow, bid.offer \in Offer, bid.buyer \in Party,
         BidAccepted(b, bid, t, u), Papers'
  PROVE  \E r \in Receivable : Struck(r, t, bid.buyer)
<1>1. /\ assets \in [Receivable -> AssetRow]
      /\ locks \in [Receivable -> LockRow]
      /\ trades \in [Trade -> TradeRow]
      /\ instructions \in [Trade -> InstructionRow]
  BY Types DEF Rows
<1>2. PICK r \in Receivable : r = offers[bid.offer].receivable
  BY DEF Rows, RowsComplete, BidAccepted, MayAccept
<1>3. locks[r].state = "OFFER_LOCK"
  <2>1. bid.offer \in LiveOffers(r) BY <1>2 DEF BidAccepted, MayAccept, LiveOffers
  <2> QED BY <2>1 DEF Locks, OfferLockAgreement
<1>4. HoldersKept
  BY <1>1, <1>2 DEF BidAccepted, TradeStruck, HoldersKept, Recorded, AssetRow
<1>5. Recorded(r) /\ ~Disputed(r)
  <2>1. "TRADE_LOCKED" \in ReceivableNext(assets[r].status)
    BY <1>2 DEF BidAccepted, MayAccept
  <2> QED BY <2>1 DEF Recorded, Disputed, ReceivableNext
<1>6. r \notin capital_needs /\ capital_needs' = capital_needs /\ registry' = registry
  BY <1>2 DEF BidAccepted, MayAccept, assertNotFinanced
<1>7. LockMoves(r, "TRADE_LOCK", t)
  BY <1>1, <1>2 DEF BidAccepted, LockMoves, LockRow
<1>8. /\ trades[t].status = "ABSENT"
      /\ \E o \in Offer, x \in Bid, price \in Amount : trades' = [trades EXCEPT ![t] =
           [status |-> "SETTLEMENT_PENDING", receivable |-> r, offer |-> o, bid |-> x,
            buyer |-> bid.buyer, price |-> price]]
  <2>1. bid.amount \in Amount BY DEF BidRow
  <2> QED BY <1>2, <2>1 DEF BidAccepted, TradeStruck
<1>9. /\ instructions'[t].status = "ISSUED"
      /\ \A x \in Trade \ {t} : instructions'[x] = instructions[x]
  BY <1>1 DEF BidAccepted, TradeStruck
<1> QED BY <1>3, <1>4, <1>5, <1>6, <1>7, <1>8, <1>9 DEF Struck

(* So does an assignment contract, from free. *)
LEMMA MoveAssignment ==
  ASSUME Rows, NEW r \in Receivable, NEW o \in Offer, NEW b \in Bid, NEW t \in Trade,
         NEW s \in Party, NEW p \in Party, NEW amount \in Amount, NEW u \in User,
         createAssignment(r, o, b, t, s, p, amount, u)
  PROVE  Struck(r, t, p)
<1>1. /\ assets \in [Receivable -> AssetRow]
      /\ locks \in [Receivable -> LockRow]
      /\ instructions \in [Trade -> InstructionRow]
  BY Types DEF Rows
<1>2. HoldersKept
  BY <1>1 DEF createAssignment, TradeStruck, HoldersKept, Recorded, AssetRow
<1>3. /\ Recorded(r) /\ ~Disputed(r)
      /\ locks[r].state = "UNLOCKED" /\ r \notin capital_needs
  BY <1>1 DEF createAssignment, MayOffer, assertNotFinanced,
              canCreateSecondLiveOffer, LockRow, LockState
<1>4. LockMoves(r, "TRADE_LOCK", t) BY <1>1 DEF createAssignment, LockMoves
<1>5. /\ trades[t].status = "ABSENT"
      /\ trades' = [trades EXCEPT ![t] =
           [status |-> "SETTLEMENT_PENDING", receivable |-> r, offer |-> o, bid |-> b,
            buyer |-> p, price |-> amount]]
  BY DEF createAssignment, TradeStruck, NewBid
<1>6. /\ instructions'[t].status = "ISSUED"
      /\ \A x \in Trade \ {t} : instructions'[x] = instructions[x]
  BY <1>1 DEF createAssignment, TradeStruck
<1>7. /\ capital_needs' = capital_needs
      /\ registry' = [registry EXCEPT ![r].reserved = @ + 1]
  BY DEF createAssignment
<1> QED BY <1>2, <1>3, <1>4, <1>5, <1>6, <1>7 DEF Struck

(* A report settles a pending sale or fails it, whichever payment differs. *)
LEMMA MoveReported ==
  ASSUME Rows, Locks, SettlementAgreement, NEW obs \in Observation,
         SettlementReported(obs)
  PROVE  \E r \in Receivable, t \in Trade : Failed(r, t) \/ Settled(r, t)
<1>1. /\ assets \in [Receivable -> AssetRow]
      /\ locks \in [Receivable -> LockRow]
      /\ instructions \in [Trade -> InstructionRow]
  BY Types DEF Rows
<1>2. PICK t \in Trade, r \in Receivable :
        /\ t = obs.instruction
        /\ trades[t].receivable = r
        /\ trades[t].status # "ABSENT"
        /\ locks[r].trade = t
        /\ locks[r].state \in {"TRADE_LOCK", "ASSIGNED"}
  BY ReportedTrade
<1>3. trades[t].status = "SETTLEMENT_PENDING"
  <2>1. CASE PaymentMatches(t)
    <3>1. "CONFIRMED" \in SettlementNext(instructions[t].status)
      BY <2>1 DEF PaymentMatches, RegistryAfter, InstrumentAfter
    <3>2. instructions[t].status \in {"ISSUED", "SEEN", "PARTIAL"}
      BY <3>1 DEF SettlementNext
    <3> QED BY <3>2 DEF Rows, Papers
  <2>2. CASE PaymentDiffers(t)
    <3>1. "MISMATCH" \in SettlementNext(instructions[t].status)
      BY <2>2 DEF PaymentDiffers
    <3>2. instructions[t].status \in {"ISSUED", "SEEN"}
      BY <3>1 DEF SettlementNext
    <3> QED BY <3>2 DEF Rows, Papers
  <2> QED BY <1>2, <2>1, <2>2 DEF SettlementReported
<1>4. locks[r].state = "TRADE_LOCK"
  BY <1>2, <1>3 DEF SettlementAgreement
<1>5. CASE PaymentDiffers(t)
  <2>1. HoldersKept BY <1>5 DEF PaymentDiffers, HoldersKept, Recorded
  <2>2. Failed(r, t)
    BY <1>2, <1>3, <1>4, <1>5, <2>1 DEF PaymentDiffers, Failed, SettlementReported
  <2> QED BY <2>2
<1>6. CASE PaymentMatches(t)
  <2>1. LockMoves(r, "ASSIGNED", t)
    BY <1>1, <1>2, <1>6 DEF PaymentMatches, RegistryAfter, InstrumentAfter, LockMoves, LockRow
  <2>2. /\ assets'[r].holder = trades[t].buyer
        /\ assets'[r].status = "TRANSFERRED"
        /\ assets'[r].instrument = InstrumentAfter(t)
        /\ \A x \in Receivable \ {r} : assets'[x] = assets[x]
    BY <1>1, <1>2, <1>6 DEF PaymentMatches, AssetRow
  <2>3. \A x \in Receivable : Recorded(x) => Recorded(x)'
    BY <2>2 DEF Recorded
  <2>4. ~Disputed(r)
    <3>1. "TRANSFERRED" \in ReceivableNext(assets[r].status)
      BY <1>2, <1>6 DEF PaymentMatches, RegistryAfter, InstrumentAfter
    <3> QED BY <3>1 DEF Disputed, ReceivableNext
  <2>5. Settled(r, t)
    BY <1>2, <1>3, <1>4, <1>6, <2>1, <2>2, <2>3, <2>4
    DEF PaymentMatches, RegistryAfter, Settled, SettlementReported
  <2> QED BY <2>5
<1> QED BY <1>2, <1>5, <1>6 DEF SettlementReported

(* Every step is a move of one receivable, or quiet. *)
LEMMA EveryStepMoves ==
  ASSUME Rows, Locks, SettlementAgreement, [Next]_vars
  PROVE  Quiet \/ \E r \in Receivable : Move(r)
<1>0. /\ bids \in [Bid -> BidRow]
      /\ \A b \in Bid : bids[b].status # "ABSENT" =>
           bids[b].offer \in Offer /\ bids[b].buyer \in Party
  BY Types DEF Rows, RowsComplete
<1>1. Price \subseteq Amount /\ Admin \subseteq User BY DeskAssumption DEF Amount
<1>p. Papers' BY RowsNext DEF Rows
<1>2. ASSUME NEW r \in Receivable, Recording(r) \/ Disputing(r)
      PROVE  Quiet \/ Withdrawn(r)
  BY <1>2, MoveQuiet
<1>3. ASSUME NEW r \in Receivable, Financing(r) PROVE Move(r)
  BY <1>3, MoveFinancing
<1>4. ASSUME NEW r \in Receivable, Offering(r) PROVE Offered(r)
  BY <1>4, MoveOfferMade DEF Offering, createOffer, requestLiquidity
<1>5. ASSUME UNCHANGED <<assets, locks, registry, trades, instructions, capital_needs>>
      PROVE  Quiet
  BY <1>5 DEF Quiet, HoldersKept, SalesKept, Recorded
<1>6. ASSUME NEW b \in Bid, NEW t \in Trade, Trading(b, t)
      PROVE  \E r \in Receivable, p \in Party : Struck(r, t, p)
  <2>1. ASSUME NEW u \in User, acceptBid(b, t, u)
        PROVE  \E r \in Receivable, p \in Party : Struck(r, t, p)
    BY <1>0, <1>p, <2>1, MoveBidAccepted DEF acceptBid
  <2>2. ASSUME NEW o \in Offer, NEW p \in Party, NEW amount \in Price, NEW u \in Admin,
               acceptLiquidityQuote(o, b, t, p, amount, u)
        PROVE  \E r \in Receivable : Struck(r, t, p)
    <3>1. NewBid(o, p, amount) \in BidRow /\ NewBid(o, p, amount).offer \in Offer
          /\ NewBid(o, p, amount).buyer = p
      BY <1>1 DEF NewBid, BidRow
    <3> QED BY <1>1, <1>p, <2>2, <3>1, MoveBidAccepted DEF acceptLiquidityQuote
  <2>3. ASSUME NEW r \in Receivable, NEW o \in Offer, NEW s \in Party, NEW p \in Party,
               NEW amount \in Price, NEW u \in Admin,
               createAssignment(r, o, b, t, s, p, amount, u)
        PROVE  Struck(r, t, p)
    BY <1>1, <2>3, MoveAssignment
  <2> QED BY <1>6, <2>1, <2>2, <2>3 DEF Trading
<1>7. ASSUME NEW t \in Trade, Paying(t)
      PROVE  \E r \in Receivable, x \in Trade : Failed(r, x) \/ Settled(r, x)
  BY <1>7, PaymentIsReport, MoveReported
<1> QED
  BY <1>2, <1>3, <1>4, <1>5, <1>6, <1>7
  DEF Next, Move, Bidding, createBid, counterOffer, setKyc, vars

-----------------------------------------------------------------------------
(* Money and ownership. *)

PledgedFree == \A r \in capital_needs : locks[r].state = "UNLOCKED"

Money ==
  SettlementAgreement /\ ReservedBacksLock /\ OwnershipFollowsPayment /\ PledgedFree

(* At first nothing is paid, assigned or reserved. *)
LEMMA MoneyInit == Init => Money
  BY DeskAssumption
  DEF Init, Money, SettlementAgreement, Papers, ReservedBacksLock,
      OwnershipFollowsPayment, PledgedFree, NoTrade, NoInstruction

(* A lock that names a trade names a struck one of its own receivable.     *)
LEMMA LockedTrade ==
  ASSUME Rows, Locks, NEW r \in Receivable, locks[r].state \in {"TRADE_LOCK", "ASSIGNED"}
  PROVE  /\ locks[r].trade \in Trade
         /\ trades[locks[r].trade].receivable = r
         /\ trades[locks[r].trade].status # "ABSENT"
<1>1. locks[r].trade \in TradesOf(r) BY DEF Locks, SoldOnce
<1>2. locks[r].trade \in Trade /\ trades[locks[r].trade].receivable = r
  BY <1>1 DEF TradesOf
<1> QED BY <1>2, DeskAssumption DEF Rows, RowsComplete

(* Moves that leave trades and holders alone and take no ASSIGNED lock.    *)
LEMMA MoneyLockOnly ==
  ASSUME Rows, Rows', Locks, Money, HoldersKept, UNCHANGED trades, PledgedFree',
         NEW r \in Receivable,
         \A x \in Receivable \ {r} : locks'[x] = locks[x] /\ registry'[x] = registry[x],
         locks[r].state # "ASSIGNED", locks'[r].state \in {"UNLOCKED", "OFFER_LOCK"},
         \/ locks'[r] = locks[r]
         \/ locks[r].state \in {"UNLOCKED", "OFFER_LOCK"}
            /\ locks'[r].trade = locks[r].trade,
         registry'[r].active = registry[r].active,
         registry'[r].transferee = registry[r].transferee,
         locks'[r].state = "OFFER_LOCK" => registry'[r].reserved > 0 /\ Recorded(r)
  PROVE  Money'
<1>1. ReservedBacksLock' BY DEF Money, ReservedBacksLock, HoldersKept
<1>2. OwnershipFollowsPayment' BY DEF Money, OwnershipFollowsPayment, HoldersKept
<1>3. SettlementAgreement'
  <2>1. \A t \in Trade : trades[t].status # "ABSENT" => trades[t].receivable \in Receivable
    BY DEF Rows, RowsComplete
  <2>2. \A x \in Receivable : locks'[x].state = "ASSIGNED" <=> locks[x].state = "ASSIGNED"
    OBVIOUS
  <2> QED BY <2>1, <2>2 DEF Money, SettlementAgreement, Rows
<1> QED BY <1>1, <1>2, <1>3 DEF Money

(* No move breaks the agreement of payment, ownership, registry and lock.  *)
LEMMA MoneyNext == Rows /\ Locks /\ Money /\ [Next]_vars => Money'
<1> SUFFICES ASSUME Rows, Locks, Money, [Next]_vars PROVE Money' OBVIOUS
<1>0. Rows' /\ Papers' BY RowsNext DEF Rows
<1>1. /\ locks \in [Receivable -> LockRow]
      /\ registry \in [Receivable -> RegistryRow]
      /\ trades \in [Trade -> TradeRow]
  BY Types DEF Rows
<1>2. \A t \in Trade : trades[t].status # "ABSENT" => trades[t].receivable \in Receivable
  BY DEF Rows, RowsComplete
<1>3. CASE Quiet
  <2>1. SettlementAgreement' BY <1>0, <1>2, <1>3 DEF Money, SettlementAgreement, Quiet, SalesKept
  <2>2. ReservedBacksLock'
    BY <1>3 DEF Money, ReservedBacksLock, Quiet, SalesKept, HoldersKept
  <2>3. OwnershipFollowsPayment'
    BY <1>3 DEF Money, OwnershipFollowsPayment, Quiet, SalesKept, HoldersKept
  <2>4. PledgedFree' BY <1>3 DEF Money, PledgedFree, Quiet
  <2> QED BY <2>1, <2>2, <2>3, <2>4 DEF Money
<1>4. ASSUME NEW r \in Receivable, Pledged(r) \/ Released(r) PROVE Money'
  <2>1. SettlementAgreement'
    BY <1>0, <1>2, <1>4 DEF Money, SettlementAgreement, Pledged, Released, SalesKept
  <2>2. ReservedBacksLock'
    BY <1>4 DEF Money, ReservedBacksLock, Pledged, Released, SalesKept, HoldersKept
  <2>3. OwnershipFollowsPayment'
    BY <1>4 DEF Money, OwnershipFollowsPayment, Pledged, Released, SalesKept, HoldersKept
  <2>4. PledgedFree'
    BY <1>4 DEF Money, PledgedFree, Pledged, Released, assertNotForSale
  <2> QED BY <2>1, <2>2, <2>3, <2>4 DEF Money
<1>5. ASSUME NEW r \in Receivable, Withdrawn(r) PROVE Money'
  <2>1. PledgedFree'
    BY <1>5 DEF Money, PledgedFree, Withdrawn, LockMoves, Rows, TypeOK
  <2> QED
    BY <1>0, <1>5, <2>1, MoneyLockOnly DEF Withdrawn, LockMoves, SalesKept
<1>6. ASSUME NEW r \in Receivable, Offered(r) PROVE Money'
  <2>1. PledgedFree'
    BY <1>6 DEF Money, PledgedFree, Offered, LockMoves, Rows, TypeOK
  <2>2. /\ registry'[r].reserved > 0
        /\ registry'[r].active = registry[r].active
        /\ registry'[r].transferee = registry[r].transferee
        /\ \A x \in Receivable \ {r} : registry'[x] = registry[x]
    BY <1>1, <1>6 DEF Offered, RegistryRow
  <2> QED BY <1>0, <1>6, <2>1, <2>2, MoneyLockOnly DEF Offered, LockMoves
<1>7. ASSUME NEW r \in Receivable, NEW t \in Trade, NEW p \in Party, Struck(r, t, p)
      PROVE  Money'
  <2>1. /\ trades'[t].receivable = r
        /\ trades'[t].status = "SETTLEMENT_PENDING"
        /\ \A x \in Trade \ {t} : trades'[x] = trades[x]
    BY <1>1, <1>7 DEF Struck, TradeRow
  <2>2. /\ registry'[r].reserved > 0
        /\ registry'[r].active = registry[r].active
        /\ registry'[r].transferee = registry[r].transferee
        /\ \A x \in Receivable \ {r} : registry'[x] = registry[x]
    <3>1. CASE locks[r].state = "OFFER_LOCK" /\ registry' = registry
      BY <3>1 DEF Money, ReservedBacksLock
    <3>2. CASE registry' = [registry EXCEPT ![r].reserved = @ + 1]
      BY <1>1, <3>2 DEF RegistryRow
    <3> QED BY <1>7, <3>1, <3>2 DEF Struck
  <2>3. /\ locks[r].state \in {"UNLOCKED", "OFFER_LOCK"}
        /\ LockMoves(r, "TRADE_LOCK", t)
    BY <1>7 DEF Struck
  <2>4. ReservedBacksLock'
    BY <1>7, <2>2, <2>3 DEF Money, ReservedBacksLock, Struck, LockMoves, HoldersKept
  <2>5. \A x \in Receivable \ {r} : locks[x].state = "ASSIGNED" =>
          trades'[locks[x].trade] = trades[locks[x].trade]
    <3>1. trades[t].status = "ABSENT" BY <1>7 DEF Struck
    <3> QED BY <2>1, <3>1, LockedTrade
  <2>6. OwnershipFollowsPayment'
    BY <1>7, <2>2, <2>3, <2>5
    DEF Money, OwnershipFollowsPayment, Struck, LockMoves, HoldersKept
  <2>7. SettlementAgreement'
    BY <1>0, <1>2, <2>1, <2>3 DEF Money, SettlementAgreement, LockMoves
  <2>8. PledgedFree'
    BY <1>7, <2>3 DEF Money, PledgedFree, Struck, LockMoves, Rows, TypeOK
  <2> QED BY <2>4, <2>6, <2>7, <2>8 DEF Money
<1>8. ASSUME NEW r \in Receivable, NEW t \in Trade, Failed(r, t) PROVE Money'
  <2>1. /\ \A x \in Trade : trades'[x].receivable = trades[x].receivable
        /\ \A x \in Trade : trades'[x].buyer = trades[x].buyer
        /\ trades'[t].status = "DISPUTED_SETTLEMENT"
        /\ \A x \in Trade \ {t} : trades'[x] = trades[x]
    BY <1>1, <1>8 DEF Failed, TradeRow
  <2>2. SettlementAgreement'
    BY <1>0, <1>2, <1>8, <2>1 DEF Money, SettlementAgreement, Failed
  <2>3. ReservedBacksLock'
    BY <1>8 DEF Money, ReservedBacksLock, Failed, HoldersKept
  <2>4. OwnershipFollowsPayment'
    BY <1>8, <2>1, LockedTrade DEF Money, OwnershipFollowsPayment, Failed, HoldersKept
  <2>5. PledgedFree' BY <1>8 DEF Money, PledgedFree, Failed
  <2> QED BY <2>2, <2>3, <2>4, <2>5 DEF Money
<1>9. ASSUME NEW r \in Receivable, NEW t \in Trade, Settled(r, t) PROVE Money'
  <2>1. /\ \A x \in Trade : trades'[x].receivable = trades[x].receivable
        /\ \A x \in Trade : trades'[x].buyer = trades[x].buyer
        /\ trades'[t].status = "COMPLETED"
        /\ \A x \in Trade \ {t} : trades'[x] = trades[x]
    BY <1>1, <1>9 DEF Settled, TradeRow
  <2>2. LockMoves(r, "ASSIGNED", t) /\ locks[r].state = "TRADE_LOCK"
    BY <1>9 DEF Settled
  <2>3. registry[r].reserved > 0 BY <2>2 DEF Money, ReservedBacksLock
  <2>4. registry[r].active = 0
    BY <2>2 DEF Money, OwnershipFollowsPayment
  <2>5. /\ registry'[r].active = 1
        /\ registry'[r].transferee = trades[t].buyer
        /\ \A x \in Receivable \ {r} : registry'[x] = registry[x]
    BY <1>1, <1>9, <2>3, <2>4 DEF Settled, RegistryRow
  <2>6. ReservedBacksLock'
    BY <1>9, <2>2, <2>5 DEF Money, ReservedBacksLock, Settled, LockMoves
  <2>7. OwnershipFollowsPayment'
    <3>1. assets'[r].holder = trades'[t].buyer BY <1>9, <2>1 DEF Settled
    <3>2. \A x \in Receivable \ {r} : locks[x].state = "ASSIGNED" =>
            trades'[locks[x].trade].buyer = trades[locks[x].trade].buyer
      BY <2>1, LockedTrade
    <3>3. \A x \in Receivable \ {r} :
            /\ assets'[x].holder = assets[x].holder
            /\ locks'[x] = locks[x]
            /\ registry'[x] = registry[x]
      BY <1>9, <2>2, <2>5 DEF Settled, LockMoves
    <3>4. /\ locks'[r].state = "ASSIGNED"
          /\ locks'[r].trade = t
          /\ registry'[r].active = 1
          /\ registry'[r].transferee = trades'[t].buyer
      BY <1>9, <2>1, <2>2, <2>5 DEF LockMoves
    <3> QED BY <3>1, <3>2, <3>3, <3>4 DEF Money, OwnershipFollowsPayment
  <2>8. \A x \in Trade \ {t} : trades[x].receivable # r
    <3>1. TradesOf(r) = {t}
      BY <1>9, <2>2 DEF Locks, SoldOnce, Settled
    <3> QED BY <3>1 DEF TradesOf
  <2>9. SettlementAgreement'
    BY <1>0, <1>2, <1>9, <2>1, <2>2, <2>8
    DEF Money, SettlementAgreement, Settled, LockMoves
  <2>10. PledgedFree'
    BY <1>9, <2>2 DEF Money, PledgedFree, Settled, LockMoves, Rows, TypeOK
  <2> QED BY <2>6, <2>7, <2>9, <2>10 DEF Money
<1>10. Quiet \/ \E r \in Receivable : Move(r)
  BY EveryStepMoves DEF Money
<1> QED BY <1>3, <1>4, <1>5, <1>6, <1>7, <1>8, <1>9, <1>10 DEF Move

(* Payment, ownership, registry, lock and reservation agree for ever.      *)
LEMMA MoneyInvariant == Spec => [](Rows /\ Locks /\ Money)
<1>1. Init => Rows /\ Locks /\ Money BY RowsInit, LocksInit, MoneyInit
<1>2. Rows /\ Locks /\ Money /\ [Next]_vars => (Rows /\ Locks /\ Money)'
  BY RowsNext, LocksNext, MoneyNext
<1> QED BY <1>1, <1>2, PTL DEF Spec

(* Trade, instruction and lock tell the same story about the payment.      *)
THEOREM SettlementsAgree == Spec => []SettlementAgreement
<1>1. Money => SettlementAgreement BY DEF Money
<1> QED BY MoneyInvariant, <1>1, PTL

(* The creditor holds the receivable until its trade has settled, then the *)
(* buyer of that trade, with exactly one ACTIVE registry row.              *)
THEOREM OwnershipIsPaidFor == Spec => []OwnershipFollowsPayment
<1>1. Money => OwnershipFollowsPayment BY DEF Money
<1> QED BY MoneyInvariant, <1>1, PTL

(* A receivable is for sale or reserved for financing, never both.         *)
THEOREM NeverSoldAndFinanced == Spec => []SaleXorFinancing
<1>1. Rows /\ Locks /\ Money => SaleXorFinancing
  <2> SUFFICES ASSUME Rows, Locks, Money, NEW r \in capital_needs
               PROVE  /\ locks[r].state = "UNLOCKED"
                      /\ LiveOffers(r) = {}
                      /\ TradesOf(r) = {}
                      /\ assets[r].holder = creditorOf[r]
    BY DEF SaleXorFinancing
  <2>1. r \in Receivable BY DEF Rows, TypeOK
  <2>2. locks[r].state = "UNLOCKED" BY DEF Money, PledgedFree
  <2> QED
    BY <2>1, <2>2
    DEF Locks, OfferLockAgreement, SoldOnce, Money, OwnershipFollowsPayment
<1> QED BY MoneyInvariant, <1>1, PTL

-----------------------------------------------------------------------------
(* What is settled stays settled. *)

ReceivableKept(x) ==
  /\ locks'[x] = locks[x]
  /\ assets'[x].holder = assets[x].holder
  /\ assets'[x].instrument = assets[x].instrument
  /\ registry'[x].active = registry[x].active

TradeKept(y) == trades'[y] = trades[y] /\ instructions'[y] = instructions[y]

(* A move touches no receivable that is ASSIGNED and no decided trade.     *)
LEMMA SettledStep ==
  ASSUME Rows, Locks, Money, [Next]_vars
  PROVE  /\ \A x \in Receivable : locks[x].state = "ASSIGNED" => ReceivableKept(x)
         /\ \A y \in Trade :
              trades[y].status \in {"COMPLETED", "DISPUTED_SETTLEMENT"} => TradeKept(y)
<1>1. /\ registry \in [Receivable -> RegistryRow]
      /\ trades \in [Trade -> TradeRow]
      /\ instructions \in [Trade -> InstructionRow]
  BY Types DEF Rows
<1>2. CASE Quiet \/ \E r \in Receivable : Pledged(r) \/ Released(r)
  BY <1>2 DEF Quiet, Pledged, Released, SalesKept, HoldersKept, ReceivableKept, TradeKept
<1>3. CASE \E r \in Receivable : Withdrawn(r)
  BY <1>3 DEF Withdrawn, LockMoves, SalesKept, HoldersKept, ReceivableKept, TradeKept
<1>4. ASSUME NEW r \in Receivable, Offered(r)
      PROVE  /\ \A x \in Receivable : locks[x].state = "ASSIGNED" => ReceivableKept(x)
             /\ \A y \in Trade : TradeKept(y)
  BY <1>1, <1>4 DEF Offered, LockMoves, HoldersKept, ReceivableKept, TradeKept
<1>5. ASSUME NEW r \in Receivable, NEW t \in Trade, NEW p \in Party, Struck(r, t, p)
      PROVE  /\ \A x \in Receivable : locks[x].state = "ASSIGNED" => ReceivableKept(x)
             /\ \A y \in Trade \ {t} : TradeKept(y)
             /\ trades[t].status = "ABSENT"
  <2>1. \A x \in Receivable \ {r} : registry'[x] = registry[x]
    BY <1>1, <1>5 DEF Struck
  <2>2. \A y \in Trade \ {t} : TradeKept(y)
    BY <1>1, <1>5 DEF Struck, TradeKept
  <2> QED BY <1>5, <2>1, <2>2 DEF Struck, LockMoves, HoldersKept, ReceivableKept
<1>6. ASSUME NEW r \in Receivable, NEW t \in Trade, Failed(r, t)
      PROVE  /\ \A x \in Receivable : ReceivableKept(x)
             /\ \A y \in Trade \ {t} : TradeKept(y)
             /\ trades[t].status = "SETTLEMENT_PENDING"
  BY <1>1, <1>6 DEF Failed, HoldersKept, ReceivableKept, TradeKept
<1>7. ASSUME NEW r \in Receivable, NEW t \in Trade, Settled(r, t)
      PROVE  /\ \A x \in Receivable : locks[x].state = "ASSIGNED" => ReceivableKept(x)
             /\ \A y \in Trade \ {t} : TradeKept(y)
             /\ trades[t].status = "SETTLEMENT_PENDING"
  <2>1. \A x \in Receivable \ {r} : registry'[x] = registry[x]
    BY <1>1, <1>7 DEF Settled
  <2>2. \A y \in Trade \ {t} : TradeKept(y)
    BY <1>1, <1>7 DEF Settled, TradeKept
  <2> QED BY <1>7, <2>1, <2>2 DEF Settled, LockMoves, ReceivableKept
<1>8. Quiet \/ \E r \in Receivable : Move(r)
  BY EveryStepMoves DEF Money
<1> QED BY <1>2, <1>3, <1>4, <1>5, <1>6, <1>7, <1>8 DEF Move

(* After the transfer nothing moves lock, holder, instrument or active     *)
(* registry row of the receivable again, and a decided trade is final.     *)
THEOREM SettlementIsFinal == Spec => SettledForGood
<1>1. Rows /\ Locks /\ Money /\ [Next]_vars =>
        [/\ \A r \in Receivable : locks[r].state = "ASSIGNED" =>
              /\ locks'[r] = locks[r]
              /\ assets'[r].holder = assets[r].holder
              /\ assets'[r].instrument = assets[r].instrument
              /\ registry'[r].active = registry[r].active
         /\ \A t \in Trade :
              trades[t].status \in {"COMPLETED", "DISPUTED_SETTLEMENT"} =>
                trades'[t] = trades[t] /\ instructions'[t] = instructions[t]]_vars
  BY SettledStep DEF ReceivableKept, TradeKept
<1> QED BY MoneyInvariant, <1>1, PTL DEF Spec, SettledForGood

-----------------------------------------------------------------------------
(* A dispute blocks new deals. *)

(* Offers and trades of a receivable change with its lock only.            *)
LEMMA LockTells ==
  ASSUME Locks, Locks', NEW x \in Receivable, locks'[x] = locks[x]
  PROVE  LiveOffers(x)' = LiveOffers(x) /\ TradesOf(x)' = TradesOf(x)
  BY DEF Locks, OfferLockAgreement, SoldOnce

(* Every move but the withdrawal of an offer, a release and a failed       *)
(* payment is of an undisputed receivable.                                 *)
LEMMA DisputedStep ==
  ASSUME Rows, Locks, Locks', Money, [Next]_vars, NEW x \in Receivable, Disputed(x)
  PROVE  /\ LiveOffers(x)' \subseteq LiveOffers(x)
         /\ TradesOf(x)' = TradesOf(x)
         /\ assets'[x].holder = assets[x].holder
         /\ x \in capital_needs' => x \in capital_needs
<1>1. CASE Quiet
  BY <1>1, LockTells DEF Quiet, HoldersKept
<1>2. ASSUME NEW r \in Receivable, Pledged(r) \/ Released(r)
      PROVE  /\ UNCHANGED locks /\ HoldersKept
             /\ x \in capital_needs' => x \in capital_needs
  BY <1>2 DEF Pledged, Released
<1>3. ASSUME NEW r \in Receivable, Withdrawn(r)
      PROVE  /\ LiveOffers(x)' \subseteq LiveOffers(x)
             /\ TradesOf(x)' = TradesOf(x)
             /\ HoldersKept /\ UNCHANGED capital_needs
  <2>1. x # r => locks'[x] = locks[x] BY <1>3 DEF Withdrawn, LockMoves
  <2>2. x = r => LiveOffers(x)' = {} /\ TradesOf(x)' = {} /\ TradesOf(x) = {}
    BY <1>3 DEF Withdrawn, LockMoves, Locks, OfferLockAgreement, SoldOnce
  <2> QED BY <1>3, <2>1, <2>2, LockTells DEF Withdrawn
<1>4. ASSUME NEW r \in Receivable,
             Offered(r) \/ \E t \in Trade : Settled(r, t) \/ \E p \in Party : Struck(r, t, p)
      PROVE  /\ x # r /\ locks'[x] = locks[x]
             /\ assets'[x].holder = assets[x].holder
             /\ UNCHANGED capital_needs
  <2>1. x # r BY <1>4 DEF Offered, Settled, Struck
  <2> QED BY <1>4, <2>1 DEF Offered, Settled, Struck, LockMoves, HoldersKept
<1>5. ASSUME NEW r \in Receivable, NEW t \in Trade, Failed(r, t)
      PROVE  UNCHANGED <<locks, capital_needs>> /\ HoldersKept
  BY <1>5 DEF Failed
<1>6. Quiet \/ \E r \in Receivable : Move(r)
  BY EveryStepMoves DEF Money
<1>7. CASE \E r \in Receivable : Withdrawn(r) BY <1>3, <1>7 DEF HoldersKept
<1>8. CASE /\ locks'[x] = locks[x]
           /\ assets'[x].holder = assets[x].holder
           /\ x \in capital_needs' => x \in capital_needs
  BY <1>8, LockTells
<1> QED BY <1>1, <1>2, <1>4, <1>5, <1>6, <1>7, <1>8 DEF Move, HoldersKept

(* A disputed receivable enters no new commitment, wherever its dispute    *)
(* came from.                                                              *)
THEOREM DisputesBlockDeals == Spec => DisputeBlocksDeals
<1>1. (Rows /\ Locks /\ Money) /\ (Rows /\ Locks /\ Money)' /\ [Next]_vars =>
        [\A r \in Receivable : Disputed(r) =>
           /\ LiveOffers(r)' \subseteq LiveOffers(r)
           /\ TradesOf(r)' = TradesOf(r)
           /\ assets'[r].holder = assets[r].holder
           /\ r \in capital_needs' => r \in capital_needs]_vars
  BY DisputedStep
<1> QED BY MoneyInvariant, <1>1, PTL DEF Spec, DisputeBlocksDeals

-----------------------------------------------------------------------------
(* Status and lock. *)

LEMMA StatusStep ==
  ASSUME Rows, StatusBacked, [Next]_vars
  PROVE  StatusBacked'
<1>0. assets \in [Receivable -> AssetRow] /\ locks \in [Receivable -> LockRow]
  BY Types DEF Rows
<1>1. ASSUME NEW r \in Receivable,
             \A x \in Receivable \ {r} : assets'[x].status = assets[x].status
                                         /\ locks'[x].state = locks[x].state,
             \/ assets'[r].status = "OFFERED" /\ locks'[r].state = "OFFER_LOCK"
             \/ assets'[r].status = "TRADE_LOCKED" /\ locks'[r].state = "TRADE_LOCK"
             \/ assets'[r].status = "TRANSFERRED" /\ locks'[r].state = "ASSIGNED"
             \/ assets'[r].status \notin {"OFFERED", "TRADE_LOCKED", "TRANSFERRED",
                                          "ABSENT", "UNVERIFIED", "VERIFIED"}
             \/ assets'[r].status = assets[r].status /\ locks'[r].state = locks[r].state
             \/ /\ assets'[r].status \in {"UNVERIFIED", "VERIFIED"}
                /\ assets[r].status \in {"ABSENT", "UNVERIFIED"}
                /\ locks'[r].state = locks[r].state
      PROVE  StatusBacked'
  BY <1>1 DEF StatusBacked
<1>2. ASSUME UNCHANGED <<assets, locks>> PROVE StatusBacked'
  BY <1>2 DEF StatusBacked
<1>3. ASSUME NEW r \in Receivable, NEW band \in Band, NEW hasDispute \in BOOLEAN,
             NEW disputed \in Amount, NEW u \in User,
             createReceivable(r, band, hasDispute, disputed, u)
      PROVE  StatusBacked'
  <2>1. /\ assets'[r].status = InitialStatus(band, hasDispute, disputed)
        /\ \A x \in Receivable \ {r} : assets'[x].status = assets[x].status
        /\ UNCHANGED locks /\ assets[r].status = "ABSENT"
    BY <1>0, <1>3 DEF createReceivable, AssetRow, Recorded
  <2>2. InitialStatus(band, hasDispute, disputed) \in
          {"PARTIALLY_DISPUTED", "DISPUTED", "UNVERIFIED", "VERIFIED", "ACCEPTED"}
    BY DeskAssumption DEF InitialStatus, Band, Amount
  <2> QED BY <1>1, <2>1, <2>2
<1>4. ASSUME NEW r \in Receivable, NEW band \in Band, NEW hasDispute \in BOOLEAN,
             NEW unpaid \in BOOLEAN, verify(r, band, hasDispute, unpaid)
      PROVE  StatusBacked'
  <2>1. /\ assets'[r].status = VerifiedStatus(assets[r], band, hasDispute, unpaid)
        /\ \A x \in Receivable \ {r} : assets'[x].status = assets[x].status
        /\ UNCHANGED locks
    BY <1>0, <1>4 DEF verify, AssetRow
  <2>2. LET s == VerifiedStatus(assets[r], band, hasDispute, unpaid) IN
          \/ s \in {"PARTIALLY_DISPUTED", "DISPUTED", "ACCEPTED"}
          \/ s = assets[r].status
          \/ s = "VERIFIED" /\ assets[r].status = "UNVERIFIED"
    BY DEF VerifiedStatus
  <2> QED BY <1>1, <2>1, <2>2
<1>5. ASSUME NEW r \in Receivable, NEW amount \in Amount, openDispute(r, amount)
      PROVE  StatusBacked'
  <2>1. /\ assets'[r].status \in {"PARTIALLY_DISPUTED", "DISPUTED"}
        /\ \A x \in Receivable \ {r} : assets'[x].status = assets[x].status
    BY <1>0, <1>5 DEF openDispute, DisputeStatus, AssetRow
  <2>2. \A x \in Receivable \ {r} : locks'[x].state = locks[x].state
    BY <1>0, <1>5 DEF openDispute, LocksAfterDispute, LockRow
  <2> QED BY <1>1, <2>1, <2>2
<1>6. ASSUME NEW r \in Receivable, NEW action \in {"keep", "restore", "close_asset"},
             closeDispute(r, action)
      PROVE  StatusBacked'
  <2>1. /\ assets'[r] = AssetAfter(assets[r], action)
        /\ \A x \in Receivable \ {r} : assets'[x] = assets[x]
        /\ UNCHANGED locks /\ assets[r] \in AssetRow
    BY <1>0, <1>6 DEF closeDispute
  <2>2. \/ AssetAfter(assets[r], action) = assets[r]
        \/ AssetAfter(assets[r], action).status \in {"CLOSED", "PAID", "ACCEPTED"}
    <3>1. CASE action = "keep" BY <3>1 DEF AssetAfter
    <3>2. CASE action = "restore" BY <2>1, <3>2 DEF AssetAfter, AssetRow
    <3>3. CASE action = "close_asset" BY <2>1, <3>3 DEF AssetAfter, AssetRow
    <3> QED BY <3>1, <3>2, <3>3
  <2> QED BY <1>1, <2>1, <2>2
<1>7. ASSUME NEW r \in Receivable, Offering(r) PROVE StatusBacked'
  <2>1. PICK o \in Offer, p \in Party, min \in Amount : OfferMade(r, o, p, min)
    BY <1>7, DeskAssumption DEF Offering, createOffer, requestLiquidity, Amount
  <2>2. /\ assets'[r].status = "OFFERED" /\ locks'[r].state = "OFFER_LOCK"
        /\ \A x \in Receivable \ {r} : assets'[x] = assets[x] /\ locks'[x] = locks[x]
    BY <1>0, <2>1 DEF OfferMade, AssetRow, LockRow
  <2> QED BY <1>1, <2>2
<1>8. ASSUME NEW b \in Bid, NEW t \in Trade, Trading(b, t) PROVE StatusBacked'
  <2>1. ASSUME NEW r \in Receivable,
               assets' = [assets EXCEPT ![r].status = "TRADE_LOCKED"],
               \A x \in Receivable \ {r} : locks'[x] = locks[x],
               locks'[r].state = "TRADE_LOCK"
        PROVE  StatusBacked'
    BY <1>0, <1>1, <2>1 DEF AssetRow
  <2>2. ASSUME NEW bid, NEW u, bid.offer \in Offer, BidAccepted(b, bid, t, u)
        PROVE  StatusBacked'
    <3>1. PICK r \in Receivable : r = offers[bid.offer].receivable
      BY <2>2 DEF BidAccepted, MayAccept, Rows, RowsComplete
    <3>2. /\ assets' = [assets EXCEPT ![r].status = "TRADE_LOCKED"]
          /\ \A x \in Receivable \ {r} : locks'[x] = locks[x]
          /\ locks'[r].state = "TRADE_LOCK"
      BY <1>0, <2>2, <3>1 DEF BidAccepted, TradeStruck, LockRow
    <3> QED BY <2>1, <3>2
  <2>3. ASSUME NEW u \in User, acceptBid(b, t, u) PROVE StatusBacked'
    <3>1. bids[b].offer \in Offer BY <2>3 DEF acceptBid, Rows, RowsComplete
    <3> QED BY <2>2, <2>3, <3>1 DEF acceptBid
  <2>4. ASSUME NEW o \in Offer, NEW p \in Party, NEW amount \in Price, NEW u \in Admin,
               acceptLiquidityQuote(o, b, t, p, amount, u)
        PROVE  StatusBacked'
    <3>1. NewBid(o, p, amount).offer \in Offer BY DEF NewBid
    <3> QED BY <2>2, <2>4, <3>1 DEF acceptLiquidityQuote
  <2>5. ASSUME NEW r \in Receivable, NEW o \in Offer, NEW s \in Party, NEW p \in Party,
               NEW amount \in Price, NEW u \in Admin,
               createAssignment(r, o, b, t, s, p, amount, u)
        PROVE  StatusBacked'
    BY <1>0, <2>1, <2>5 DEF createAssignment, TradeStruck
  <2> QED BY <1>8, <2>3, <2>4, <2>5 DEF Trading
<1>9. ASSUME NEW t \in Trade, Paying(t) PROVE StatusBacked'
  <2>1. PICK obs \in Observation : obs.instruction = t /\ SettlementReported(obs)
    BY <1>9, PaymentIsReport
  <2>2. CASE PaymentDiffers(t) BY <1>2, <2>2 DEF PaymentDiffers
  <2>3. CASE PaymentMatches(t)
    <3>1. PICK r \in Receivable : r = trades[t].receivable
      BY <2>1 DEF Rows, RowsComplete, Papers, SettlementReported
    <3>2. /\ assets'[r].status = "TRANSFERRED"
          /\ \A x \in Receivable \ {r} : assets'[x] = assets[x]
      BY <1>0, <2>3, <3>1 DEF PaymentMatches, AssetRow
    <3>3. /\ locks'[r].state = "ASSIGNED"
          /\ \A x \in Receivable \ {r} : locks'[x] = locks[x]
      BY <1>0, <2>3, <3>1 DEF PaymentMatches, LockRow
    <3> QED BY <1>1, <3>2, <3>3
  <2> QED BY <2>1, <2>2, <2>3 DEF SettlementReported
<1>10. ASSUME NEW r \in Receivable, Recording(r) \/ Disputing(r) \/ Financing(r)
       PROVE  StatusBacked'
  BY <1>2, <1>3, <1>4, <1>5, <1>6, <1>10
  DEF Recording, MaturityPasses, Disputing, createDispute, reopenDispute,
      archiveDispute, updateDisputeTrack, Financing, confirmCapitalNeed,
      releaseCapitalNeed
<1>11. ASSUME NEW b \in Bid, Bidding(b) PROVE StatusBacked'
  BY <1>2, <1>11 DEF Bidding, createBid, counterOffer
<1>12. ASSUME NEW p \in Party, NEW passed \in BOOLEAN, setKyc(p, passed)
       PROVE  StatusBacked'
  BY <1>2, <1>12 DEF setKyc
<1>13. CASE UNCHANGED vars BY <1>2, <1>13 DEF vars
<1> QED BY <1>7, <1>8, <1>9, <1>10, <1>11, <1>12, <1>13 DEF Next

(* The status never claims more than lock and trade back, whatever is      *)
(* verified, disputed, closed, offered or paid in between.                 *)
THEOREM StatusIsBacked == Spec => []StatusBacked
<1>1. Init => StatusBacked BY DEF Init, StatusBacked
<1>2. Rows /\ StatusBacked /\ [Next]_vars => StatusBacked' BY StatusStep
<1> QED BY <1>1, <1>2, RowsInvariant, PTL DEF Spec

-----------------------------------------------------------------------------
(* Reports, instructions and contracts. *)

PapersStay == UNCHANGED <<instructions, observations, assignments>>

(* A new trade's instruction, with or without a contract.                  *)
PapersStruck(t) ==
  /\ instructions[t].status = "ABSENT" /\ trades[t].status = "ABSENT"
  /\ instructions'[t].status = "ISSUED"
  /\ \A y \in Trade \ {t} : instructions'[y] = instructions[y]
  /\ observations' = observations
  /\ \A y \in Trade \ {t} : assignments'[y] = assignments[y]
  /\ assignments'[t] \in {assignments[t], "INSTRUCTION_ISSUED"}

(* A report decides an ISSUED instruction; only a manual one that is exact *)
(* makes the contract effective, if there is one.                          *)
PapersReported(t, obs) ==
  /\ obs.instruction = t
  /\ instructions[t].status = "ISSUED"
  /\ instructions' = [instructions EXCEPT
       ![t].status = IF Exact(obs) THEN "CONFIRMED" ELSE "MISMATCH"]
  /\ observations' = observations \cup {obs}
  /\ \/ assignments' = assignments
     \/ /\ obs.report.source = "manual" /\ Exact(obs)
        /\ assignments[t] # "ABSENT"
        /\ assignments' = [assignments EXCEPT ![t] = "EFFECTIVE"]

LEMMA PapersMove ==
  ASSUME Rows, [Next]_vars
  PROVE  \/ PapersStay
         \/ \E t \in Trade : PapersStruck(t)
         \/ \E t \in Trade, obs \in Observation : PapersReported(t, obs)
<1>0. /\ instructions \in [Trade -> InstructionRow]
      /\ assignments \in [Trade -> {"ABSENT", "INSTRUCTION_ISSUED", "EFFECTIVE"}]
      /\ Papers
  BY Types DEF Rows, TypeOK
<1>1. ASSUME NEW b \in Bid, NEW t \in Trade, Trading(b, t) PROVE PapersStruck(t)
  <2>1. ASSUME NEW r, NEW o, NEW bid, NEW u, TradeStruck(t, r, o, b, bid, u)
        PROVE  /\ instructions[t].status = "ABSENT" /\ trades[t].status = "ABSENT"
               /\ instructions'[t].status = "ISSUED"
               /\ \A y \in Trade \ {t} : instructions'[y] = instructions[y]
    BY <1>0, <2>1 DEF TradeStruck, Papers
  <2>2. ASSUME NEW bid, NEW u, BidAccepted(b, bid, t, u) PROVE PapersStruck(t)
    BY <2>1, <2>2 DEF BidAccepted, PapersStruck
  <2>3. ASSUME NEW r \in Receivable, NEW o \in Offer, NEW s \in Party, NEW p \in Party,
               NEW amount \in Price, NEW u \in Admin,
               createAssignment(r, o, b, t, s, p, amount, u)
        PROVE  PapersStruck(t)
    <3>1. TradeStruck(t, r, o, b, NewBid(o, p, amount), u)
          /\ observations' = observations
          /\ assignments' = [assignments EXCEPT ![t] = "INSTRUCTION_ISSUED"]
      BY <2>3 DEF createAssignment
    <3> QED BY <1>0, <2>1, <3>1 DEF PapersStruck
  <2> QED BY <1>1, <2>2, <2>3 DEF Trading, acceptBid, acceptLiquidityQuote
<1>2. ASSUME NEW obs \in Observation, SettlementReported(obs)
      PROVE  LET t == obs.instruction IN
             /\ t \in Trade
             /\ instructions[t].status = "ISSUED"
             /\ instructions' = [instructions EXCEPT
                  ![t].status = IF Exact(obs) THEN "CONFIRMED" ELSE "MISMATCH"]
             /\ observations' = observations \cup {obs}
  <2>1. PICK t \in Trade : t = obs.instruction BY DEF Observation
  <2>2. CASE Exact(obs)
    <3>1. "CONFIRMED" \in SettlementNext(instructions[t].status)
          /\ instructions' = [instructions EXCEPT ![t].status = "CONFIRMED"]
      BY <1>2, <2>1, <2>2 DEF SettlementReported, PaymentMatches
    <3>2. instructions[t].status \in {"ISSUED", "SEEN", "PARTIAL"}
      BY <3>1 DEF SettlementNext
    <3> QED BY <1>0, <1>2, <2>1, <2>2, <3>1, <3>2 DEF SettlementReported, Papers
  <2>3. CASE ~Exact(obs)
    <3>1. "MISMATCH" \in SettlementNext(instructions[t].status)
          /\ instructions' = [instructions EXCEPT ![t].status = "MISMATCH"]
      BY <1>2, <2>1, <2>3 DEF SettlementReported, PaymentDiffers
    <3>2. instructions[t].status \in {"ISSUED", "SEEN"}
      BY <3>1 DEF SettlementNext
    <3> QED BY <1>0, <1>2, <2>1, <2>3, <3>1, <3>2 DEF SettlementReported, Papers
  <2> QED BY <2>2, <2>3
<1>3. ASSUME NEW t \in Trade, Paying(t)
      PROVE  \E obs \in Observation : PapersReported(t, obs)
  <2>1. ASSUME NEW e \in Event, NEW amount \in Price, NEW sameCurrency \in BOOLEAN,
               applySettlementWebhook(e, t, amount, sameCurrency)
        PROVE  \E obs \in Observation : PapersReported(t, obs)
    <3> DEFINE obs == [report |-> [source |-> "psp", id |-> e], instruction |-> t,
                       amount |-> amount, sameCurrency |-> sameCurrency]
    <3>1. obs \in Observation BY DeskAssumption DEF Observation, ReportId, Amount
    <3>2. SettlementReported(obs) /\ assignments' = assignments
      BY <2>1 DEF applySettlementWebhook
    <3>3. obs.instruction = t OBVIOUS
    <3> HIDE DEF obs
    <3> QED BY <1>2, <3>1, <3>2, <3>3 DEF PapersReported
  <2>2. ASSUME NEW u \in User, NEW effective \in BOOLEAN, confirmByProvider(t, u, effective)
        PROVE  \E obs \in Observation : PapersReported(t, obs)
    <3> DEFINE obs == [report |-> [source |-> "manual", id |-> t], instruction |-> t,
                       amount |-> instructions[t].amount, sameCurrency |-> TRUE]
    <3>1. instructions[t].amount \in Amount BY <1>0 DEF InstructionRow
    <3>2. obs \in Observation BY <3>1 DEF Observation, ReportId
    <3>3. SettlementReported(obs) BY <2>2 DEF confirmByProvider
    <3>4. obs.instruction = t /\ obs.report.source = "manual" /\ Exact(obs)
      BY DEF Exact
    <3>5. \/ assignments' = assignments
          \/ /\ assignments[t] # "ABSENT"
             /\ assignments' = [assignments EXCEPT ![t] = "EFFECTIVE"]
      BY <2>2 DEF confirmByProvider
    <3> HIDE DEF obs
    <3> QED BY <1>2, <3>2, <3>3, <3>4, <3>5 DEF PapersReported
  <2> QED BY <1>3, <2>1, <2>2 DEF Paying
<1>4. ASSUME NEW r \in Receivable,
             Recording(r) \/ Disputing(r) \/ Financing(r) \/ Offering(r)
      PROVE  PapersStay
  BY <1>4
  DEF PapersStay, Recording, createReceivable, verify, MaturityPasses, Disputing,
      openDispute, createDispute, reopenDispute, closeDispute, archiveDispute,
      updateDisputeTrack, Financing, confirmCapitalNeed, releaseCapitalNeed,
      Offering, createOffer, requestLiquidity, OfferMade
<1>5. ASSUME NEW b \in Bid, Bidding(b) PROVE PapersStay
  BY <1>5 DEF PapersStay, Bidding, createBid, counterOffer
<1>6. ASSUME NEW p \in Party, NEW passed \in BOOLEAN, setKyc(p, passed)
      PROVE  PapersStay
  BY <1>6 DEF PapersStay, setKyc
<1>7. CASE UNCHANGED vars BY <1>7 DEF PapersStay, vars
<1> QED BY <1>1, <1>3, <1>4, <1>5, <1>6, <1>7 DEF Next

(* What an exact report says stays exact: the amount of an instruction     *)
(* does not change once it is there.                                       *)
LEMMA ExactStays ==
  ASSUME Rows, [Next]_vars, NEW obs, obs.instruction \in Trade,
         instructions[obs.instruction].status # "ABSENT"
  PROVE  Exact(obs)' <=> Exact(obs)
<1>1. instructions \in [Trade -> InstructionRow] BY Types DEF Rows
<1>2. instructions'[obs.instruction].amount = instructions[obs.instruction].amount
  <2>1. CASE PapersStay BY <2>1 DEF PapersStay
  <2>2. ASSUME NEW t \in Trade, PapersStruck(t)
        PROVE  instructions'[obs.instruction] = instructions[obs.instruction]
    BY <2>2 DEF PapersStruck
  <2>3. ASSUME NEW t \in Trade, NEW o \in Observation, PapersReported(t, o)
        PROVE  instructions'[obs.instruction].amount = instructions[obs.instruction].amount
    BY <1>1, <2>3 DEF PapersReported, InstructionRow
  <2> QED BY <2>1, <2>2, <2>3, PapersMove
<1> QED BY <1>2 DEF Exact

LEMMA ReportsInit == Init => OneReportDecides
  BY DEF Init, OneReportDecides, ReportsOn, NoInstruction

LEMMA ReportsStep ==
  ASSUME Rows, OneReportDecides, [Next]_vars
  PROVE  OneReportDecides'
<1> DEFINE Decided(t) ==
             \E obs \in ReportsOn(t) :
               /\ ReportsOn(t) = {obs}
               /\ Exact(obs) <=> instructions[t].status = "CONFIRMED"
           Open(t) == instructions[t].status \in {"ABSENT", "ISSUED"}
<1>0. \A t \in Trade : IF Open(t) THEN ReportsOn(t) = {} ELSE Decided(t)
  BY DEF OneReportDecides
<1>1. instructions \in [Trade -> InstructionRow] BY Types DEF Rows
<1>2. ASSUME NEW t \in Trade, instructions'[t].status = instructions[t].status,
             ReportsOn(t)' = ReportsOn(t)
      PROVE  IF Open(t)' THEN ReportsOn(t)' = {} ELSE Decided(t)'
  <2>1. CASE Open(t) BY <1>0, <1>2, <2>1
  <2>2. CASE ~Open(t)
    <3>1. PICK obs \in ReportsOn(t) :
            /\ ReportsOn(t) = {obs}
            /\ Exact(obs) <=> instructions[t].status = "CONFIRMED"
      BY <1>0, <2>2
    <3>2. obs.instruction = t BY DEF ReportsOn
    <3>3. Exact(obs)' <=> Exact(obs) BY <2>2, <3>2, ExactStays
    <3> QED BY <1>2, <2>2, <3>1, <3>3
  <2> QED BY <2>1, <2>2
<1>3. SUFFICES ASSUME NEW t \in Trade
               PROVE  IF Open(t)' THEN ReportsOn(t)' = {} ELSE Decided(t)'
  BY DEF OneReportDecides
<1>4. CASE PapersStay BY <1>0, <1>2, <1>4 DEF PapersStay, ReportsOn
<1>5. ASSUME NEW s \in Trade, PapersStruck(s)
      PROVE  IF Open(t)' THEN ReportsOn(t)' = {} ELSE Decided(t)'
  <2>1. ReportsOn(t)' = ReportsOn(t) BY <1>5 DEF PapersStruck, ReportsOn
  <2>2. CASE s = t BY <1>0, <1>5, <2>1, <2>2 DEF PapersStruck
  <2>3. CASE s # t BY <1>0, <1>2, <1>5, <2>1, <2>3 DEF PapersStruck
  <2> QED BY <2>2, <2>3
<1>6. ASSUME NEW s \in Trade, NEW o \in Observation, PapersReported(s, o)
      PROVE  IF Open(t)' THEN ReportsOn(t)' = {} ELSE Decided(t)'
  <2>1. CASE s = t
    <3>1. ReportsOn(t) = {} BY <1>0, <1>6, <2>1 DEF PapersReported
    <3>2. ReportsOn(t)' = {o} BY <1>6, <2>1, <3>1 DEF PapersReported, ReportsOn
    <3>3. instructions'[t].status = IF Exact(o) THEN "CONFIRMED" ELSE "MISMATCH"
      BY <1>1, <1>6, <2>1 DEF PapersReported
    <3>4. Exact(o)' <=> Exact(o)
      BY <1>6, <2>1, ExactStays DEF PapersReported
    <3> QED BY <3>2, <3>3, <3>4
  <2>2. CASE s # t
    <3>1. ReportsOn(t)' = ReportsOn(t) BY <1>6, <2>2 DEF PapersReported, ReportsOn
    <3>2. instructions'[t] = instructions[t] BY <1>1, <1>6, <2>2 DEF PapersReported
    <3> QED BY <1>0, <1>2, <3>1, <3>2
  <2> QED BY <2>1, <2>2
<1> QED BY <1>4, <1>5, <1>6, PapersMove

(* The first stored report decides a trade for good, whoever reports,      *)
(* however often, and whatever the amounts.                                *)
THEOREM FirstReportDecides == Spec => []OneReportDecides
<1>1. Rows /\ OneReportDecides /\ [Next]_vars => OneReportDecides' BY ReportsStep
<1> QED BY <1>1, ReportsInit, RowsInvariant, PTL DEF Spec

(* Whether a struck trade has a contract does not change.                  *)
LEMMA ContractKept ==
  ASSUME Rows, [Next]_vars, NEW t \in Trade, trades[t].status # "ABSENT"
  PROVE  assignments'[t] = "ABSENT" <=> assignments[t] = "ABSENT"
<1>1. assignments \in [Trade -> {"ABSENT", "INSTRUCTION_ISSUED", "EFFECTIVE"}]
  BY DEF Rows, TypeOK
<1>2. CASE PapersStay BY <1>2 DEF PapersStay
<1>3. ASSUME NEW s \in Trade, PapersStruck(s) PROVE assignments'[t] = assignments[t]
  BY <1>3 DEF PapersStruck
<1>4. ASSUME NEW s \in Trade, NEW o \in Observation, PapersReported(s, o)
      PROVE  assignments'[t] = "ABSENT" <=> assignments[t] = "ABSENT"
  BY <1>1, <1>4 DEF PapersReported
<1> QED BY <1>2, <1>3, <1>4, PapersMove

(* The instrument of a receivable under its lock.                          *)
Instrument(x) ==
  IF locks[x].state # "ASSIGNED" THEN "ORDINARY"
  ELSE IF assignments[locks[x].trade] # "ABSENT" THEN "ASSIGNED_RECEIVABLE"
  ELSE "PURCHASED_RECEIVABLE"

LEMMA InstrumentStep ==
  ASSUME Rows, Locks, Money, [Next]_vars, NEW x \in Receivable,
         assets[x].instrument = Instrument(x)
  PROVE  assets'[x].instrument = Instrument(x)'
<1>1. CASE locks'[x] = locks[x] /\ assets'[x].instrument = assets[x].instrument
  <2>1. CASE locks[x].state = "ASSIGNED"
    <3>1. locks[x].trade \in Trade /\ trades[locks[x].trade].status # "ABSENT"
      BY <2>1, LockedTrade
    <3>2. assignments'[locks[x].trade] = "ABSENT" <=> assignments[locks[x].trade] = "ABSENT"
      BY <3>1, ContractKept
    <3> QED BY <1>1, <2>1, <3>2 DEF Instrument
  <2>2. CASE locks[x].state # "ASSIGNED" BY <1>1, <2>2 DEF Instrument
  <2> QED BY <2>1, <2>2
<1>2. CASE /\ locks[x].state # "ASSIGNED" /\ locks'[x].state # "ASSIGNED"
           /\ assets'[x].instrument = assets[x].instrument
  BY <1>2 DEF Instrument
<1>3. CASE Quiet \/ \E r \in Receivable : Pledged(r) \/ Released(r)
  BY <1>1, <1>3 DEF Quiet, Pledged, Released, HoldersKept
<1>4. ASSUME NEW r \in Receivable, Withdrawn(r) \/ Offered(r)
      PROVE  assets'[x].instrument = Instrument(x)'
  BY <1>1, <1>2, <1>4 DEF Withdrawn, Offered, LockMoves, HoldersKept
<1>5. ASSUME NEW r \in Receivable, NEW t \in Trade, NEW p \in Party, Struck(r, t, p)
      PROVE  assets'[x].instrument = Instrument(x)'
  BY <1>1, <1>2, <1>5 DEF Struck, LockMoves, HoldersKept
<1>6. ASSUME NEW r \in Receivable, NEW t \in Trade, Failed(r, t)
      PROVE  assets'[x].instrument = Instrument(x)'
  BY <1>1, <1>6 DEF Failed, HoldersKept
<1>7. ASSUME NEW r \in Receivable, NEW t \in Trade, Settled(r, t)
      PROVE  assets'[x].instrument = Instrument(x)'
  <2>1. CASE x = r
    <3>1. trades[t].status # "ABSENT" BY <1>7 DEF Settled
    <3>2. assignments'[t] = "ABSENT" <=> assignments[t] = "ABSENT"
      BY <3>1, ContractKept
    <3>3. /\ assets'[x].instrument = InstrumentAfter(t)
          /\ locks'[x].state = "ASSIGNED" /\ locks'[x].trade = t
      BY <1>7, <2>1 DEF Settled, LockMoves
    <3> QED BY <3>2, <3>3 DEF InstrumentAfter, Instrument
  <2>2. CASE x # r BY <1>1, <1>7, <2>2 DEF Settled, LockMoves
  <2> QED BY <2>1, <2>2
<1>8. Quiet \/ \E r \in Receivable : Move(r)
  BY EveryStepMoves DEF Money
<1> QED BY <1>3, <1>4, <1>5, <1>6, <1>7, <1>8 DEF Move

EffectiveConfirmed ==
  \A t \in Trade : assignments[t] = "EFFECTIVE" =>
    \E obs \in ReportsOn(t) : obs.report.source = "manual" /\ Exact(obs)

LEMMA EffectiveStep ==
  ASSUME Rows, OneReportDecides, EffectiveConfirmed, [Next]_vars
  PROVE  EffectiveConfirmed'
<1> SUFFICES ASSUME NEW t \in Trade, assignments'[t] = "EFFECTIVE"
             PROVE  \E obs \in ReportsOn(t)' : obs.report.source = "manual" /\ Exact(obs)'
  BY DEF EffectiveConfirmed
<1>1. /\ instructions \in [Trade -> InstructionRow]
      /\ assignments \in [Trade -> {"ABSENT", "INSTRUCTION_ISSUED", "EFFECTIVE"}]
  BY Types DEF Rows, TypeOK
<1>2. ASSUME assignments[t] = "EFFECTIVE"
      PROVE  \E obs \in ReportsOn(t) : obs.report.source = "manual" /\ Exact(obs)'
  <2>1. PICK obs \in ReportsOn(t) : obs.report.source = "manual" /\ Exact(obs)
    BY <1>2 DEF EffectiveConfirmed
  <2>2. obs.instruction = t BY DEF ReportsOn
  <2>3. instructions[t].status \notin {"ABSENT", "ISSUED"}
    BY <2>1 DEF OneReportDecides
  <2>4. Exact(obs)' BY <2>1, <2>2, <2>3, ExactStays
  <2> QED BY <2>1, <2>4
<1>3. observations \subseteq observations'
  BY PapersMove DEF PapersStay, PapersStruck, PapersReported
<1>4. CASE assignments[t] = "EFFECTIVE"
  <2>1. ReportsOn(t) \subseteq ReportsOn(t)' BY <1>3 DEF ReportsOn
  <2> QED BY <1>2, <1>4, <2>1
<1>5. CASE assignments[t] # "EFFECTIVE"
  <2>1. ~PapersStay BY <1>5 DEF PapersStay
  <2>2. ASSUME NEW s \in Trade, PapersStruck(s) PROVE FALSE
    BY <1>5, <2>2 DEF PapersStruck
  <2>3. PICK s \in Trade, o \in Observation : PapersReported(s, o)
    BY <2>1, <2>2, PapersMove
  <2>4. s = t /\ o.report.source = "manual" /\ Exact(o)
    BY <1>1, <1>5, <2>3 DEF PapersReported
  <2>5. Exact(o)' BY <2>3, <2>4, ExactStays DEF PapersReported
  <2>6. o \in ReportsOn(t)' BY <2>3, <2>4 DEF PapersReported, ReportsOn
  <2> QED BY <2>4, <2>5, <2>6
<1> QED BY <1>4, <1>5

(* A receivable counts as assigned exactly when the trade that transferred *)
(* it has a written contract, and a contract becomes effective by a manual *)
(* confirmation of the exact amount only.                                  *)
THEOREM AssignedByContract == Spec => []ContractBacksAssignment
<1> DEFINE Instruments == \A x \in Receivable : assets[x].instrument = Instrument(x)
<1>1. Init => Instruments /\ EffectiveConfirmed
  BY DEF Init, Instrument, EffectiveConfirmed
<1>2. Instruments /\ Rows /\ Locks /\ Money /\ [Next]_vars => Instruments'
  BY InstrumentStep
<1>3. Instruments /\ EffectiveConfirmed => ContractBacksAssignment
  BY DEF Instrument, EffectiveConfirmed, ContractBacksAssignment
<1>4. EffectiveConfirmed /\ Rows /\ OneReportDecides /\ [Next]_vars => EffectiveConfirmed'
  BY EffectiveStep
<1> HIDE DEF Instruments
<1> QED BY <1>1, <1>2, <1>3, <1>4, MoneyInvariant, FirstReportDecides, PTL DEF Spec

-----------------------------------------------------------------------------
(* The terms of a trade. *)

(* TradeTerms for one trade.                                               *)
TermsOf(t) ==
  LET o == trades[t].offer
      b == trades[t].bid
  IN
  /\ offers[o].status = "TRADED"
  /\ offers[o].receivable = trades[t].receivable
  /\ {x \in Bid : bids[x].offer = o /\ bids[x].status = "ACCEPTED"} = {b}
  /\ bids[b].buyer = trades[t].buyer
  /\ bids[b].amount = trades[t].price
  /\ instructions[t].amount = trades[t].price
  /\ \A x \in Bid : bids[x].offer = o => bids[x].status # "OPEN"
  /\ \A x \in Trade : trades[x].offer = o => x = t

(* A bid is ACCEPTED together with its offer.                              *)
AcceptedTraded ==
  \A x \in Bid : bids[x].status = "ACCEPTED" => offers[bids[x].offer].status = "TRADED"

(* Terms stay while nobody touches the trade's offer and its bids.         *)
LEMMA TermsStay ==
  ASSUME NEW t \in Trade, TermsOf(t), trades[t].bid \in Bid,
         \A f \in {"receivable", "offer", "bid", "buyer", "price"} :
           trades'[t][f] = trades[t][f],
         instructions'[t].amount = instructions[t].amount,
         offers'[trades[t].offer] = offers[trades[t].offer],
         \A x \in Bid : \/ bids'[x] = bids[x]
                        \/ /\ bids[x].offer # trades[t].offer
                           /\ bids'[x].offer # trades[t].offer,
         \A x \in Trade : trades'[x].offer = trades[t].offer =>
           trades[x].offer = trades[t].offer
  PROVE  TermsOf(t)'
<1> DEFINE o == trades[t].offer
           b == trades[t].bid
<1>1. trades'[t].offer = o /\ trades'[t].bid = b
  OBVIOUS
<1>2. /\ trades'[t].buyer = trades[t].buyer /\ trades'[t].price = trades[t].price
      /\ trades'[t].receivable = trades[t].receivable
  OBVIOUS
<1>3. b \in Bid /\ bids[b].offer = o BY DEF TermsOf
<1>4. bids'[b] = bids[b] BY <1>3
<1>5. \A x \in Bid : bids'[x].offer = o <=> bids[x].offer = o OBVIOUS
<1>6. \A x \in Bid : bids[x].offer = o => bids'[x] = bids[x] OBVIOUS
<1> HIDE DEF o, b
<1> SUFFICES /\ offers'[o].status = "TRADED"
             /\ offers'[o].receivable = trades'[t].receivable
             /\ {x \in Bid : bids'[x].offer = o /\ bids'[x].status = "ACCEPTED"} = {b}
             /\ bids'[b].buyer = trades'[t].buyer
             /\ bids'[b].amount = trades'[t].price
             /\ instructions'[t].amount = trades'[t].price
             /\ \A x \in Bid : bids'[x].offer = o => bids'[x].status # "OPEN"
             /\ \A x \in Trade : trades'[x].offer = o => x = t
  BY <1>1 DEF TermsOf
<1>7. {x \in Bid : bids'[x].offer = o /\ bids'[x].status = "ACCEPTED"} = {b}
  BY <1>5, <1>6 DEF TermsOf, o, b
<1>8. \A x \in Bid : bids'[x].offer = o => bids'[x].status # "OPEN"
  BY <1>5, <1>6 DEF TermsOf, o
<1> QED BY <1>2, <1>4, <1>7, <1>8 DEF TermsOf, o, b

Terms ==
  /\ \A t \in Trade : trades[t].status # "ABSENT" => TermsOf(t)
  /\ AcceptedTraded

(* The offer and bid of a struck trade are there.                          *)
LEMMA StruckRow ==
  ASSUME Rows, NEW t \in Trade, trades[t].status # "ABSENT"
  PROVE  trades[t].offer \in Offer /\ trades[t].bid \in Bid
  BY DEF Rows, RowsComplete

(* Handlers that leave trades and instructions alone.                      *)
LEMMA TermsUntraded ==
  ASSUME Rows, Terms, UNCHANGED <<trades, instructions>>,
         \A o \in Offer : offers[o].status = "TRADED" => offers'[o] = offers[o],
         \A x \in Bid :
           \/ bids'[x] = bids[x]
           \/ /\ bids[x].status \in {"ABSENT", "OPEN"}
              /\ bids'[x].status # "ACCEPTED"
              /\ \/ bids'[x].offer = bids[x].offer /\ bids[x].status = "OPEN"
                 \/ bids[x].status = "ABSENT" /\ offers[bids'[x].offer].status = "LIVE"
  PROVE  Terms'
<1>1. ASSUME NEW t \in Trade, trades[t].status # "ABSENT" PROVE TermsOf(t)'
  <2>1. trades[t].offer \in Offer /\ trades[t].bid \in Bid BY <1>1, StruckRow
  <2>2. TermsOf(t) BY <1>1 DEF Terms
  <2>3. offers[trades[t].offer].status = "TRADED" BY <2>2 DEF TermsOf
  <2>4. \A x \in Bid : bids[x].status \in {"ABSENT", "OPEN"} =>
          bids[x].offer # trades[t].offer
    BY <2>1, <2>2, DeskAssumption DEF TermsOf, Rows, RowsComplete
  <2>5. \A x \in Bid : \/ bids'[x] = bids[x]
                       \/ /\ bids[x].offer # trades[t].offer
                          /\ bids'[x].offer # trades[t].offer
    BY <2>3, <2>4
  <2> QED BY <2>1, <2>2, <2>3, <2>5, TermsStay
<1>2. AcceptedTraded'
  <2> SUFFICES ASSUME NEW x \in Bid, bids'[x].status = "ACCEPTED"
               PROVE  offers'[bids'[x].offer].status = "TRADED"
    BY DEF AcceptedTraded
  <2>1. bids'[x] = bids[x] OBVIOUS
  <2>2. bids[x].offer \in Offer BY <2>1 DEF Rows, RowsComplete
  <2> QED BY <2>1, <2>2 DEF Terms, AcceptedTraded
<1> QED BY <1>1, <1>2 DEF Terms

(* A new trade for bid b on offer o, which was LIVE or not there before.   *)
LEMMA TermsStruck ==
  ASSUME Rows, Rows', Terms, NEW t \in Trade, NEW o \in Offer, NEW b \in Bid,
         trades[t].status = "ABSENT", offers[o].status \in {"ABSENT", "LIVE"},
         \A y \in Trade \ {t} : trades'[y] = trades[y] /\ instructions'[y] = instructions[y],
         trades'[t].offer = o, trades'[t].bid = b,
         instructions'[t].amount = trades'[t].price,
         offers'[o].status = "TRADED",
         offers'[o].receivable = trades'[t].receivable,
         \A y \in Offer \ {o} : offers'[y] = offers[y],
         bids[b].status = "ABSENT" \/ bids[b].offer = o,
         bids'[b].offer = o, bids'[b].status = "ACCEPTED",
         bids'[b].buyer = trades'[t].buyer, bids'[b].amount = trades'[t].price,
         \A x \in Bid \ {b} :
           \/ bids'[x] = bids[x] /\ ~(bids[x].offer = o /\ bids[x].status = "OPEN")
           \/ /\ bids[x].offer = o /\ bids'[x].offer = o
              /\ bids'[x].status = "LAPSED"
  PROVE  Terms'
<1>1. \A x \in Bid : bids[x].offer = o => bids[x].status # "ACCEPTED"
  BY DEF Terms, AcceptedTraded
<1>2. ASSUME NEW y \in Trade \ {t}, trades[y].status # "ABSENT"
      PROVE  TermsOf(y)' /\ trades[y].offer # o
  <2>1. trades[y].offer \in Offer /\ trades[y].bid \in Bid BY <1>2, StruckRow
  <2>2. TermsOf(y) BY <1>2 DEF Terms
  <2>3. trades[y].offer # o BY <2>2 DEF TermsOf
  <2>4. bids[b].offer # trades[y].offer
    BY <2>1, <2>3, DeskAssumption DEF Rows, RowsComplete
  <2>5. \A x \in Bid : \/ bids'[x] = bids[x]
                       \/ /\ bids[x].offer # trades[y].offer
                          /\ bids'[x].offer # trades[y].offer
    BY <2>3, <2>4
  <2> QED BY <2>1, <2>2, <2>3, <2>5, TermsStay
<1>3. TermsOf(t)'
  <2>1. \A x \in Bid : bids'[x].offer = o =>
          bids'[x].status # "OPEN" /\ (bids'[x].status = "ACCEPTED" => x = b)
    BY <1>1
  <2>2. {x \in Bid : bids'[x].offer = o /\ bids'[x].status = "ACCEPTED"} = {b}
    BY <2>1
  <2>3. \A x \in Trade : trades'[x].offer = o => x = t
    <3> SUFFICES ASSUME NEW x \in Trade \ {t}, trades'[x].offer = o PROVE FALSE
      OBVIOUS
    <3>1. trades[x].status # "ABSENT" BY DeskAssumption DEF Rows, RowsComplete
    <3> QED BY <1>2, <3>1
  <2> QED BY <2>1, <2>2, <2>3 DEF TermsOf
<1>4. AcceptedTraded'
  <2> SUFFICES ASSUME NEW x \in Bid, bids'[x].status = "ACCEPTED"
               PROVE  offers'[bids'[x].offer].status = "TRADED"
    BY DEF AcceptedTraded
  <2>1. CASE x = b BY <2>1
  <2>2. CASE x # b
    <3>1. bids'[x] = bids[x] BY <2>2
    <3>2. bids[x].offer \in Offer \ {o} BY <1>1, <3>1 DEF Rows, RowsComplete
    <3> QED BY <3>1, <3>2 DEF Terms, AcceptedTraded
  <2> QED BY <2>1, <2>2
<1> QED BY <1>2, <1>3, <1>4 DEF Terms

(* A payment report changes the status of a trade and its instruction.     *)
LEMMA TermsReported ==
  ASSUME Rows, Terms, NEW obs \in Observation, SettlementReported(obs)
  PROVE  Terms'
<1>1. /\ trades \in [Trade -> TradeRow] /\ instructions \in [Trade -> InstructionRow]
      /\ obs.instruction \in Trade
  BY Types DEF Rows, Observation
<1>2. \A y \in Trade :
        /\ \A f \in {"receivable", "offer", "bid", "buyer", "price"} :
             trades'[y][f] = trades[y][f]
        /\ instructions'[y].amount = instructions[y].amount
        /\ trades'[y].status # "ABSENT" => trades[y].status # "ABSENT"
  <2>0. trades[obs.instruction].status # "ABSENT"
    BY <1>1 DEF SettlementReported, Rows, Papers
  <2>1. CASE PaymentMatches(obs.instruction)
    BY <1>1, <2>0, <2>1 DEF PaymentMatches, TradeRow, InstructionRow
  <2>2. CASE PaymentDiffers(obs.instruction)
    BY <1>1, <2>0, <2>2 DEF PaymentDiffers, TradeRow, InstructionRow
  <2> QED BY <2>1, <2>2 DEF SettlementReported
<1>3. UNCHANGED <<offers, bids>> BY DEF SettlementReported
<1>4. ASSUME NEW t \in Trade, trades'[t].status # "ABSENT" PROVE TermsOf(t)'
  <2>1. trades[t].status # "ABSENT" BY <1>2, <1>4
  <2>2. trades[t].bid \in Bid BY <2>1, StruckRow
  <2>3. TermsOf(t) BY <2>1 DEF Terms
  <2> QED BY <1>2, <1>3, <2>2, <2>3, TermsStay
<1> QED BY <1>3, <1>4 DEF Terms, AcceptedTraded

LEMMA TermsOpenDispute ==
  ASSUME Rows, Terms, NEW r \in Receivable, NEW amount \in Amount, openDispute(r, amount)
  PROVE  Terms'
<1>1. UNCHANGED <<trades, instructions, bids>> BY DEF openDispute
<1>2. \A o \in Offer : offers[o].status = "TRADED" => offers'[o] = offers[o]
  BY DEF openDispute, LiveOffers
<1> QED BY <1>1, <1>2, TermsUntraded

LEMMA TermsBidAccepted ==
  ASSUME Rows, Rows', Terms, NEW b \in Bid, NEW t \in Trade, NEW u, NEW bid \in BidRow,
         bid.offer \in Offer, BidAccepted(b, bid, t, u),
         bids[b].status = "ABSENT" \/ bids[b] = bid
  PROVE  Terms'
<1> DEFINE o == bid.offer
<1>0. /\ offers \in [Offer -> OfferRow] /\ trades \in [Trade -> TradeRow]
      /\ instructions \in [Trade -> InstructionRow] /\ bids \in [Bid -> BidRow]
  BY Types DEF Rows
<1>1. offers[o].status = "LIVE" BY DEF BidAccepted, MayAccept
<1>2. /\ trades[t].status = "ABSENT"
      /\ \A y \in Trade \ {t} : trades'[y] = trades[y] /\ instructions'[y] = instructions[y]
      /\ trades'[t].offer = o /\ trades'[t].bid = b
      /\ trades'[t].buyer = bid.buyer /\ trades'[t].price = bid.amount
      /\ trades'[t].receivable = offers[o].receivable
      /\ instructions'[t].amount = bid.amount
  BY <1>0 DEF BidAccepted, TradeStruck
<1>3. /\ offers'[o].status = "TRADED" /\ offers'[o].receivable = offers[o].receivable
      /\ \A y \in Offer \ {o} : offers'[y] = offers[y]
  BY <1>0 DEF BidAccepted, OfferRow
<1>4. bids'[b] = [bid EXCEPT !.status = "ACCEPTED"]
  BY <1>0 DEF BidAccepted, BidsAfter
<1>5. /\ bids'[b].offer = o /\ bids'[b].status = "ACCEPTED"
      /\ bids'[b].buyer = bid.buyer /\ bids'[b].amount = bid.amount
  BY <1>4 DEF BidRow
<1>6. ASSUME NEW x \in Bid \ {b}
      PROVE  \/ bids'[x] = bids[x] /\ ~(bids[x].offer = o /\ bids[x].status = "OPEN")
             \/ /\ bids[x].offer = o /\ bids'[x].offer = o
                /\ bids'[x].status = "LAPSED"
  BY <1>0 DEF BidAccepted, BidsAfter, BidRow
<1> HIDE DEF o
<1>7. o \in Offer BY DEF o
<1>8. bids[b].status = "ABSENT" \/ bids[b].offer = o BY DEF o
<1> QED BY <1>1, <1>2, <1>3, <1>5, <1>6, <1>7, <1>8, TermsStruck

LEMMA TermsAssignment ==
  ASSUME Rows, Rows', Terms, NEW r \in Receivable, NEW o \in Offer, NEW b \in Bid,
         NEW t \in Trade, NEW s \in Party, NEW p \in Party, NEW amount \in Price, NEW u,
         createAssignment(r, o, b, t, s, p, amount, u)
  PROVE  Terms'
<1>0. /\ offers \in [Offer -> OfferRow] /\ trades \in [Trade -> TradeRow]
      /\ instructions \in [Trade -> InstructionRow] /\ bids \in [Bid -> BidRow]
  BY Types DEF Rows
<1>1. offers[o].status = "ABSENT" /\ bids[b].status = "ABSENT"
  BY DEF createAssignment
<1>2. /\ trades[t].status = "ABSENT"
      /\ \A y \in Trade \ {t} : trades'[y] = trades[y] /\ instructions'[y] = instructions[y]
      /\ trades'[t].offer = o /\ trades'[t].bid = b
      /\ trades'[t].buyer = p /\ trades'[t].price = amount
      /\ trades'[t].receivable = r /\ instructions'[t].amount = amount
  BY <1>0 DEF createAssignment, TradeStruck, NewBid
<1>3. /\ offers'[o].status = "TRADED" /\ offers'[o].receivable = r
      /\ \A y \in Offer \ {o} : offers'[y] = offers[y]
  BY <1>0 DEF createAssignment
<1>4. bids' = [bids EXCEPT ![b] = [NewBid(o, p, amount) EXCEPT !.status = "ACCEPTED"]]
  BY DEF createAssignment
<1>5. /\ bids'[b].offer = o /\ bids'[b].status = "ACCEPTED"
      /\ bids'[b].buyer = p /\ bids'[b].amount = amount
  BY <1>0, <1>4 DEF NewBid
<1>6. \A x \in Bid \ {b} : bids'[x] = bids[x] /\ bids[x].offer # o
  BY <1>0, <1>1, <1>4, DeskAssumption DEF Rows, RowsComplete
<1> QED BY <1>1, <1>2, <1>3, <1>5, <1>6, TermsStruck

LEMMA TermsStep == ASSUME Rows, Terms, [Next]_vars PROVE Terms'
<1>0. /\ Rows' /\ bids \in [Bid -> BidRow] /\ offers \in [Offer -> OfferRow]
      /\ Price \subseteq Amount
  BY Types, RowsNext, DeskAssumption DEF Rows, Amount
<1>1. ASSUME NEW r \in Receivable, Recording(r) \/ Financing(r) PROVE Terms'
  <2>1. UNCHANGED <<trades, instructions, offers, bids>>
    BY <1>1
    DEF Recording, createReceivable, verify, MaturityPasses, Financing,
        confirmCapitalNeed, releaseCapitalNeed
  <2> QED BY <2>1, TermsUntraded
<1>2. ASSUME NEW r \in Receivable, Disputing(r) PROVE Terms'
  <2>1. CASE UNCHANGED <<trades, instructions, offers, bids>> BY <2>1, TermsUntraded
  <2> QED
    BY <1>2, <2>1, TermsOpenDispute
    DEF Disputing, createDispute, reopenDispute, closeDispute, archiveDispute,
        updateDisputeTrack
<1>3. ASSUME NEW r \in Receivable, Offering(r) PROVE Terms'
  <2>1. PICK o \in Offer, p \in Party, min \in Amount : OfferMade(r, o, p, min)
    BY <1>3, DeskAssumption DEF Offering, createOffer, requestLiquidity, Amount
  <2>2. UNCHANGED <<trades, instructions, bids>> BY <2>1 DEF OfferMade
  <2>3. \A y \in Offer : offers[y].status = "TRADED" => offers'[y] = offers[y]
    BY <1>0, <2>1 DEF OfferMade
  <2> QED BY <2>2, <2>3, TermsUntraded
<1>4. ASSUME NEW b \in Bid, Bidding(b) PROVE Terms'
  <2>1. UNCHANGED <<trades, instructions, offers>>
    BY <1>4 DEF Bidding, createBid, counterOffer
  <2>2. ASSUME NEW o \in Offer, NEW p \in Party, NEW amount \in Price,
               createBid(b, o, p, amount)
        PROVE  Terms'
    <3>1. /\ bids[b].status = "ABSENT" /\ offers[o].status = "LIVE"
          /\ \A x \in Bid \ {b} : bids'[x] = bids[x]
          /\ bids'[b].offer = o /\ bids'[b].status = "OPEN"
      BY <1>0, <2>2 DEF createBid, MayBid, NewBid
    <3> QED BY <2>1, <3>1, TermsUntraded
  <2>3. ASSUME NEW amount \in Price, counterOffer(b, amount) PROVE Terms'
    <3>1. /\ bids[b].status = "OPEN"
          /\ \A x \in Bid \ {b} : bids'[x] = bids[x]
          /\ bids'[b].offer = bids[b].offer /\ bids'[b].status = "COUNTERED"
      BY <1>0, <2>3 DEF counterOffer, BidRow
    <3> QED BY <2>1, <3>1, TermsUntraded
  <2> QED BY <1>4, <2>2, <2>3 DEF Bidding
<1>5. ASSUME NEW b \in Bid, NEW t \in Trade, Trading(b, t) PROVE Terms'
  <2>1. ASSUME NEW u \in User, acceptBid(b, t, u) PROVE Terms'
    <3>1. bids[b] \in BidRow /\ bids[b].offer \in Offer
      BY <1>0, <2>1 DEF acceptBid, Rows, RowsComplete
    <3> QED BY <1>0, <2>1, <3>1, TermsBidAccepted DEF acceptBid
  <2>2. ASSUME NEW o \in Offer, NEW p \in Party, NEW amount \in Price, NEW u \in Admin,
               acceptLiquidityQuote(o, b, t, p, amount, u)
        PROVE  Terms'
    <3>1. NewBid(o, p, amount) \in BidRow /\ NewBid(o, p, amount).offer \in Offer
      BY <1>0 DEF NewBid, BidRow
    <3> QED BY <1>0, <2>2, <3>1, TermsBidAccepted DEF acceptLiquidityQuote
  <2>3. ASSUME NEW r \in Receivable, NEW o \in Offer, NEW s \in Party, NEW p \in Party,
               NEW amount \in Price, NEW u \in Admin,
               createAssignment(r, o, b, t, s, p, amount, u)
        PROVE  Terms'
    BY <1>0, <2>3, TermsAssignment
  <2> QED BY <1>5, <2>1, <2>2, <2>3 DEF Trading
<1>6. ASSUME NEW t \in Trade, Paying(t) PROVE Terms'
  BY <1>6, PaymentIsReport, TermsReported
<1>7. CASE UNCHANGED <<trades, instructions, offers, bids>> BY <1>7, TermsUntraded
<1> QED
  BY <1>1, <1>2, <1>3, <1>4, <1>5, <1>6, <1>7 DEF Next, setKyc, vars

(* A trade is struck on the terms of the one accepted bid of its offer,    *)
(* and neither counter-offers, later bids, disputes nor payments change    *)
(* them.                                                                   *)
THEOREM TradedAsBid == Spec => []TradeTerms
<1>1. Init => Terms
  BY DEF Init, Terms, AcceptedTraded, NoTrade, NoBid
<1>2. Rows /\ Terms /\ [Next]_vars => Terms' BY TermsStep
<1>3. Terms => TradeTerms BY DEF Terms, TermsOf, TradeTerms
<1> QED BY <1>1, <1>2, <1>3, RowsInvariant, PTL DEF Spec

-----------------------------------------------------------------------------
(* The desk implements the abstract sale: under saleStage, saleOwner and    *)
(* saleBuyer every move of the desk is one step of ReceivableSale, and      *)
(* whatever else happens is a stutter.                                     *)

Inv == Rows /\ Locks /\ Money

(* The stage of one receivable, read off its rows.                         *)
LEMMA StageCases ==
  ASSUME Inv, NEW x \in Receivable
  PROVE  /\ locks[x].state = "ASSIGNED" => saleStage[x] = "sold"
         /\ locks[x].state = "OFFER_LOCK" => saleStage[x] = "offered"
         /\ locks[x].state = "TRADE_LOCK"
              /\ instructions[locks[x].trade].status = "MISMATCH" =>
                saleStage[x] = "failed"
         /\ locks[x].state = "TRADE_LOCK"
              /\ instructions[locks[x].trade].status # "MISMATCH" =>
                saleStage[x] = "pending"
         /\ locks[x].state = "UNLOCKED" =>
              saleStage[x] = IF x \in capital_needs THEN "pledged" ELSE "free"
  BY DEF saleStage

(* A receivable whose lock, trade and reservation a step leaves alone      *)
(* stays in its stage with its buyer.                                      *)
LEMMA Untouched ==
  ASSUME Inv, NEW x \in Receivable,
         locks'[x] = locks[x],
         x \in capital_needs <=> x \in capital_needs',
         \A t \in Trade : t = locks[x].trade =>
           /\ trades'[t].buyer = trades[t].buyer
           /\ instructions'[t].status = instructions[t].status
  PROVE  saleStage'[x] = saleStage[x] /\ saleBuyer'[x] = saleBuyer[x]
<1>1. locks[x].trade \in Trade \cup {None} BY Types DEF Inv, Rows, LockRow
<1>2. saleBuyer'[x] = saleBuyer[x]
  BY <1>1 DEF saleBuyer
<1>3. locks[x].state \in {"TRADE_LOCK", "ASSIGNED"} => locks[x].trade \in Trade
  BY LockedTrade DEF Inv
<1>4. saleStage'[x] = saleStage[x]
  BY <1>3 DEF saleStage
<1> QED BY <1>2, <1>4

(* Two functions on Receivable that agree but at r are one EXCEPT away.    *)
LEMMA OneChanged ==
  ASSUME NEW f, NEW g, NEW r \in Receivable, NEW v,
         f = [x \in Receivable |-> f[x]], g = [x \in Receivable |-> g[x]],
         g[r] = v, \A x \in Receivable \ {r} : g[x] = f[x]
  PROVE  g = [f EXCEPT ![r] = v]
  OBVIOUS

(* Nothing is for sale, pledged or sold at the start.                      *)
LEMMA SaleInit == Init => Sale!Init
<1> SUFFICES ASSUME Init PROVE Sale!Init OBVIOUS
<1>1. saleStage = [r \in Receivable |-> "free"] BY DEF Init, saleStage
<1>2. saleOwner = creditorOf BY DeskAssumption DEF Init, saleOwner
<1>3. saleBuyer = [r \in Receivable |-> None] BY DEF Init, saleBuyer
<1> QED BY <1>1, <1>2, <1>3 DEF Sale!Init

(* Holders kept means owners kept.                                         *)
LEMMA OwnersKept == ASSUME HoldersKept PROVE saleOwner' = saleOwner
  BY DEF HoldersKept, saleOwner

(* A move of the lock alone is a move of the stage alone.                  *)
LEMMA StageMove ==
  ASSUME Inv, NEW r \in Receivable, NEW to, saleStage'[r] = to,
         \A x \in Receivable \ {r} : saleStage'[x] = saleStage[x]
  PROVE  saleStage' = [saleStage EXCEPT ![r] = to]
<1>1. saleStage = [x \in Receivable |-> saleStage[x]] BY Zenon DEF saleStage
<1>2. saleStage' = [x \in Receivable |-> saleStage'[x]] BY Zenon DEF saleStage
<1> QED BY <1>1, <1>2, OneChanged

(* The buyers agree if they agree everywhere.                              *)
LEMMA BuyersKept ==
  ASSUME \A x \in Receivable : saleBuyer'[x] = saleBuyer[x]
  PROVE  saleBuyer' = saleBuyer
  BY DEF saleBuyer

(* Pledging, releasing, offering and withdrawing.                          *)
LEMMA LockStep ==
  ASSUME Inv, Inv', NEW r \in Receivable,
         Pledged(r) \/ Released(r) \/ Withdrawn(r) \/ Offered(r)
  PROVE  [Sale!Next]_(Sale!sale)
<1>1. HoldersKept /\ UNCHANGED <<trades, instructions>>
  BY DEF Pledged, Released, Withdrawn, Offered, SalesKept
<1>2. \A x \in Receivable \ {r} :
        locks'[x] = locks[x] /\ (x \in capital_needs <=> x \in capital_needs')
  BY DEF Pledged, Released, Withdrawn, Offered, LockMoves
<1>3. locks'[r].trade = locks[r].trade
  BY DEF Pledged, Released, Withdrawn, Offered, LockMoves
<1>4. \A x \in Receivable \ {r} :
        saleStage'[x] = saleStage[x] /\ saleBuyer'[x] = saleBuyer[x]
  BY <1>1, <1>2, Untouched
<1>5. saleBuyer'[r] = saleBuyer[r] BY <1>1, <1>3 DEF saleBuyer
<1>6. UNCHANGED <<saleOwner, saleBuyer>>
  BY <1>1, <1>4, <1>5, OwnersKept, BuyersKept
<1>7. r \in capital_needs => locks[r].state = "UNLOCKED"
  BY DEF Inv, Money, PledgedFree
<1>7p. r \in capital_needs' => locks'[r].state = "UNLOCKED"
  BY DEF Inv, Money, PledgedFree
<1>8. CASE Pledged(r)
  <2>1. locks[r].state = "UNLOCKED" /\ r \notin capital_needs
        /\ r \in capital_needs' /\ locks'[r].state = "UNLOCKED"
    BY <1>8 DEF Pledged, assertNotForSale
  <2>2. saleStage[r] = "free" /\ saleStage'[r] = "pledged"
    BY <2>1 DEF saleStage
  <2> QED BY <1>4, <1>6, <2>2, StageMove DEF Sale!Next, Sale!Pledge, Sale!Moves
<1>9. CASE Released(r) /\ r \in capital_needs
  <2>1. locks[r].state = "UNLOCKED" /\ r \notin capital_needs'
        /\ locks'[r].state = "UNLOCKED"
    BY <1>7, <1>9 DEF Released
  <2>2. saleStage[r] = "pledged" /\ saleStage'[r] = "free"
    BY <1>9, <2>1 DEF saleStage
  <2> QED BY <1>4, <1>6, <2>2, StageMove DEF Sale!Next, Sale!Release, Sale!Moves
<1>10. CASE Released(r) /\ r \notin capital_needs
  <2>1. locks'[r] = locks[r] /\ r \notin capital_needs'
    BY <1>10 DEF Released
  <2>2. saleStage'[r] = saleStage[r] BY <1>1, <1>10, <2>1, Untouched
  <2>3. saleStage' = saleStage BY <1>4, <2>2 DEF saleStage
  <2> QED BY <1>6, <2>3 DEF Sale!sale
<1>11. CASE Withdrawn(r)
  <2>1. locks[r].state = "OFFER_LOCK" /\ locks'[r].state = "UNLOCKED"
        /\ r \notin capital_needs'
    BY <1>7, <1>11 DEF Withdrawn, LockMoves
  <2>2. saleStage[r] = "offered" /\ saleStage'[r] = "free"
    BY <2>1 DEF saleStage
  <2> QED BY <1>4, <1>6, <2>2, StageMove DEF Sale!Next, Sale!Withdraw, Sale!Moves
<1>12. CASE Offered(r)
  <2>1. locks[r].state = "UNLOCKED" /\ locks'[r].state = "OFFER_LOCK"
        /\ r \notin capital_needs
    BY <1>12 DEF Offered, LockMoves
  <2>2. saleStage[r] = "free" /\ saleStage'[r] = "offered"
    BY <2>1 DEF saleStage
  <2> QED BY <1>4, <1>6, <2>2, StageMove DEF Sale!Next, Sale!PutUp, Sale!Moves
<1> QED BY <1>8, <1>9, <1>10, <1>11, <1>12

(* Striking a sale, from an offer or as a private assignment.              *)
LEMMA StrikeStep ==
  ASSUME Inv, Inv', NEW r \in Receivable, NEW t \in Trade, NEW p \in Party,
         Struck(r, t, p)
  PROVE  Sale!Next
<1>1. /\ trades'[t].buyer = p
      /\ \A x \in Trade \ {t} : trades'[x] = trades[x] /\ instructions'[x] = instructions[x]
  BY Types DEF Struck, Inv, Rows, TradeRow
<1>2. /\ LockMoves(r, "TRADE_LOCK", t)
      /\ HoldersKept
      /\ UNCHANGED capital_needs
      /\ r \notin capital_needs
      /\ locks[r].state \in {"UNLOCKED", "OFFER_LOCK"}
      /\ instructions'[t].status = "ISSUED"
      /\ trades[t].status = "ABSENT"
  BY DEF Struck
<1>3. \A x \in Receivable \ {r} : locks[x].trade # t
  <2> SUFFICES ASSUME NEW x \in Receivable \ {r}, locks[x].trade = t PROVE FALSE
    OBVIOUS
  <2>1. t # None BY DeskAssumption
  <2>2. locks[x] \in LockRow BY Types DEF Inv, Rows
  <2>3. locks[x].state \in {"TRADE_LOCK", "ASSIGNED"}
    BY <2>1, <2>2 DEF Inv, Money, ReservedBacksLock, LockRow, LockState
  <2> QED BY <1>2, <2>3, LockedTrade DEF Inv
<1>4. \A x \in Receivable \ {r} :
        saleStage'[x] = saleStage[x] /\ saleBuyer'[x] = saleBuyer[x]
  BY <1>1, <1>2, <1>3, Untouched DEF LockMoves
<1>5. saleStage[r] \in {"free", "offered"} /\ saleStage'[r] = "pending"
  BY <1>2 DEF saleStage, LockMoves
<1>6. saleBuyer'[r] = p
  BY <1>1, <1>2, DeskAssumption DEF saleBuyer, LockMoves
<1>7. saleBuyer' = [saleBuyer EXCEPT ![r] = p]
  BY <1>4, <1>6 DEF saleBuyer
<1>8. saleStage' = [saleStage EXCEPT ![r] = "pending"]
  BY <1>4, <1>5, StageMove
<1>9. Sale!Strike(r, p)
  BY <1>2, <1>5, <1>7, <1>8, OwnersKept DEF Sale!Strike, Sale!Moves
<1> QED BY <1>9 DEF Sale!Next

(* Deciding a struck sale: it fails, or the owner changes to its buyer.    *)
LEMMA DecideStep ==
  ASSUME Inv, Inv', NEW r \in Receivable, NEW t \in Trade,
         Failed(r, t) \/ Settled(r, t)
  PROVE  Sale!Next
<1>1. /\ \A x \in Trade : trades'[x].buyer = trades[x].buyer
      /\ \A x \in Trade \ {t} : instructions'[x] = instructions[x]
  <2>0. trades \in [Trade -> TradeRow] /\ instructions \in [Trade -> InstructionRow]
    BY Types DEF Inv, Rows
  <2>1. CASE Failed(r, t) BY <2>0, <2>1 DEF Failed, TradeRow
  <2>2. CASE Settled(r, t) BY <2>0, <2>2 DEF Settled, TradeRow
  <2> QED BY <2>1, <2>2
<1>2. /\ locks[r].trade = t /\ locks[r].state = "TRADE_LOCK"
      /\ trades[t].receivable = r /\ trades[t].status = "SETTLEMENT_PENDING"
      /\ locks'[r].trade = t
      /\ UNCHANGED capital_needs
      /\ \A x \in Receivable \ {r} : locks'[x] = locks[x]
  BY DEF Failed, Settled, LockMoves
<1>3. \A x \in Receivable \ {r} : locks[x].trade # t
  <2> SUFFICES ASSUME NEW x \in Receivable \ {r}, locks[x].trade = t PROVE FALSE
    OBVIOUS
  <2>1. t # None BY DeskAssumption
  <2>2. locks[x] \in LockRow BY Types DEF Inv, Rows
  <2>3. locks[x].state \in {"TRADE_LOCK", "ASSIGNED"}
    BY <2>1, <2>2 DEF Inv, Money, ReservedBacksLock, LockRow, LockState
  <2> QED BY <1>2, <2>3, LockedTrade DEF Inv
<1>4. \A x \in Receivable \ {r} :
        saleStage'[x] = saleStage[x] /\ saleBuyer'[x] = saleBuyer[x]
  BY <1>1, <1>2, <1>3, Untouched
<1>5. instructions[t].status # "MISMATCH"
  BY <1>2 DEF Inv, Rows, Papers
<1>6. saleStage[r] = "pending" BY <1>2, <1>5 DEF saleStage
<1>7. saleBuyer[r] = trades[t].buyer /\ saleBuyer'[r] = trades[t].buyer
  BY <1>1, <1>2, DeskAssumption DEF saleBuyer
<1>8. saleBuyer' = saleBuyer BY <1>4, <1>7, BuyersKept
<1>9. CASE Failed(r, t)
  <2>1. instructions'[t].status = "MISMATCH" /\ locks' = locks /\ HoldersKept
    BY <1>9, Types DEF Failed, Inv, Rows, InstructionRow
  <2>2. saleStage'[r] = "failed" BY <1>2, <2>1 DEF saleStage
  <2>3. Sale!Fail(r)
    BY <1>4, <1>6, <1>8, <2>1, <2>2, StageMove, OwnersKept DEF Sale!Fail, Sale!Moves
  <2> QED BY <2>3 DEF Sale!Next
<1>10. CASE Settled(r, t)
  <2>1. /\ locks'[r].state = "ASSIGNED"
        /\ assets'[r].holder = trades[t].buyer
        /\ \A x \in Receivable \ {r} : assets'[x].holder = assets[x].holder
    BY <1>10 DEF Settled, LockMoves
  <2>2. saleStage'[r] = "sold" BY <2>1 DEF saleStage
  <2>3. saleOwner' = [saleOwner EXCEPT ![r] = saleBuyer[r]]
    BY <1>7, <2>1 DEF saleOwner
  <2>4. Sale!Settle(r)
    BY <1>4, <1>6, <1>8, <2>2, <2>3, StageMove DEF Sale!Settle, Sale!Moves
  <2> QED BY <2>4 DEF Sale!Next
<1> QED BY <1>9, <1>10

(* Every step of the desk is a step of the abstract sale or a stutter.     *)
LEMMA SaleNext ==
  Inv /\ Inv' /\ [Next]_vars => [Sale!Next]_(Sale!sale)
<1> SUFFICES ASSUME Inv, Inv', [Next]_vars PROVE [Sale!Next]_(Sale!sale)
  OBVIOUS
<1>1. CASE Quiet
  <2>1. saleStage' = saleStage
    BY <1>1 DEF Quiet, SalesKept, saleStage
  <2>2. saleBuyer' = saleBuyer
    BY <1>1 DEF Quiet, SalesKept, saleBuyer
  <2> QED BY <1>1, <2>1, <2>2, OwnersKept DEF Quiet, Sale!sale
<1>2. CASE \E r \in Receivable : Move(r)
  BY <1>2, LockStep, StrikeStep, DecideStep DEF Move
<1> QED BY <1>1, <1>2, EveryStepMoves DEF Inv, Money

(* The desk implements the abstract sale.                                  *)
THEOREM DeskImplementsSale == Spec => ImplementsSale
<1>1. Inv /\ Inv' /\ [Next]_vars => [Sale!Next]_(Sale!sale) BY SaleNext
<1>2. Spec => []Inv BY MoneyInvariant DEF Inv
<1> QED BY <1>1, <1>2, SaleInit, PTL DEF Spec, ImplementsSale, Sale!Spec
=============================================================================
