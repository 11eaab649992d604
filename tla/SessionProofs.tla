---------------------------- MODULE SessionProofs ----------------------------
(***************************************************************************)
(* What the sessions of Trade promise beyond the ledger.  Which documents  *)
(* a step is about (Kept), one fact per module of actions; then the annual *)
(* leaves, for any number of sessions; then what one session on its own    *)
(* promises, whose reads nobody overtakes.                                 *)
(***************************************************************************)
EXTENDS TradeProofs

-----------------------------------------------------------------------------
(* A step that is about documents of the kinds K alone: other rows stay,   *)
(* and whoever takes up a document takes up one of them.                   *)
Kept(K) ==
  /\ \A x \in Docs : row[x].kind \notin K => row'[x] = row[x]
  /\ \A v \in Users : hand'[v] = hand[v] \/ hand'[v].op \in {"idle", "next"} \/ hand'[v].seen.kind \in K

LEMMA KeptReads ==
  ASSUME TypeIInv, NEW K, NEW u \in Users, NEW d \in Docs, NEW op, NEW want, NEW take, NEW w,
         row[d].kind \in K, Reads(u, op, d, want, take, w)
  PROVE  Kept(K)
BY DEF Kept, Reads, papers, TypeIInv, HandsOK

LEMMA KeptTurn ==
  ASSUME TypeIInv, NEW K, NEW u \in Users, NEW d \in Docs, NEW cols, row[d].kind \in K, Changes(d, cols),
         NEW h, hand' = [hand EXCEPT ![u] = h], h.op \in {"idle", "next"} \/ h.seen.kind \in K
  PROVE  Kept(K)
<1>1. \A x \in Docs \ {d} : row'[x] = row[x]
  BY ChangesType DEF TypeIInv, PapersOK
<1>2. \A v \in Users : hand'[v] = hand[v] \/ hand'[v] = h
  BY DEF TypeIInv, HandsOK
<1>. QED  BY <1>1, <1>2 DEF Kept

LEMMA KeptCommit ==
  ASSUME TypeIInv, NEW K, NEW u \in Users, NEW d \in Docs, NEW cols, row[d].kind \in K, Changes(d, cols),
         hand' = [hand EXCEPT ![u] = Idle]
  PROVE  Kept(K)
BY KeptTurn DEF Idle

LEMMA KeptEnds ==
  ASSUME TypeIInv, NEW K, NEW u \in Users, NEW d \in Docs, NEW cols, row[d].kind \in K, Changes(d, cols),
         Ends(u)
  PROVE  Kept(K)
BY KeptCommit DEF Ends, EndsWith

LEMMA KeptGoesOn ==
  ASSUME TypeIInv, NEW K, NEW u \in Users, NEW d \in Docs, NEW cols, row[d].kind \in K, Changes(d, cols),
         hand[u].seen.kind \in K, NEW op, hand' = [hand EXCEPT ![u].op = op]
  PROVE  Kept(K)
<1>. PICK h : h = [hand[u] EXCEPT !.op = op]
  OBVIOUS
<1>1. PlanOf(hand[u])
  BY DEF TypeIInv, HandsOK
<1>2. h.seen = hand[u].seen
  BY <1>1 DEF PlanOf
<1>3. hand' = [hand EXCEPT ![u] = h]
  BY DEF TypeIInv, HandsOK
<1>. QED  BY <1>2, <1>3, KeptTurn

LEMMA KeptQuietly ==
  ASSUME TypeIInv, NEW K, NEW d \in Docs, NEW cols, row[d].kind \in K, Changes(d, cols), hand' = hand
  PROVE  Kept(K)
<1>1. \A x \in Docs \ {d} : row'[x] = row[x]
  BY ChangesType DEF TypeIInv, PapersOK
<1>. QED  BY <1>1 DEF Kept

LEMMA KeptCreates ==
  ASSUME TypeIInv, NEW K, NEW d \in Docs, NEW kinds, NEW new, kinds \subseteq K, Creates(d, kinds, new)
  PROVE  Kept(K)
BY DEF Creates, work, Kept, TypeIInv, PapersOK

LEMMA KeptEdits ==
  ASSUME TypeIInv, NEW K, NEW u \in Users, NEW d \in Docs, NEW want, row[d].kind \in K, Edits(u, d, want)
  PROVE  Kept(K)
BY KeptReads DEF Edits

LEMMA KeptDeletes ==
  ASSUME TypeIInv, NEW K, NEW u \in Users, NEW d \in Docs, row[d].kind \in K, Deletes(u, d)
  PROVE  Kept(K)
BY KeptEdits DEF Deletes

LEMMA KeptPosts ==
  ASSUME TypeIInv, NEW K, NEW u \in Users, NEW d \in Docs, NEW take, row[d].kind \in K, Posts(u, d, take)
  PROVE  Kept(K)
BY KeptReads DEF Posts

LEMMA KeptKeeps ==
  ASSUME TypeIInv, NEW K, NEW u \in Users, NEW d \in Docs, NEW op, row[d].kind \in K, Keeps(u, op, d)
  PROVE  Kept(K)
BY KeptReads DEF Keeps

AboutSales == Invoices \cup {"saleReturn", "ticket"}
AboutPurchases == Bills \cup {"purchaseReturn"}
AboutVouchers == Slips \cup Deals \cup {"ticket"}
AboutInventory == {"transfer", "adjustment"}
AboutOrders == {"workOrder"}
AboutAssets == {"asset"}
AboutTill == {"shift", "ticket"}
AboutConversion == Offers \cup Deals
AboutPeriods == {"half", "year", "taxPeriod"}
AboutJournals == {"journal", "payroll", "provision"}
AboutPayroll == {"payroll", "endOfService"}
AboutLeaves == {"leave", "provision"}

LEMMA SalesKept == ASSUME TypeIInv, SalesStep  PROVE Kept(AboutSales)
<1>. \A d \in Docs : row[d].kind \in Invoices \cup {"saleReturn", "ticket"} => row[d].kind \in AboutSales
  BY DEF AboutSales
<1>1. ASSUME NEW d \in Docs, CreateInvoice(d) \/ CreateReturn(d)  PROVE Kept(AboutSales)
  BY <1>1, KeptCreates DEF CreateInvoice, CreateReturn, AboutSales
<1>2. ASSUME NEW u \in Users, NEW d \in Docs,
             \/ UpdateInvoice(u, d) \/ DeleteInvoice(u, d) \/ PostInvoice(u, d)
             \/ UpdateReturn(u, d) \/ DeleteReturn(u, d) \/ PostReturn(u, d)
             \/ ReverseInvoice(u, d)
      PROVE  Kept(AboutSales)
  BY <1>2, KeptReads
     DEF UpdateInvoice, DeleteInvoice, PostInvoice, UpdateReturn, DeleteReturn, PostReturn, ReverseInvoice,
         Edits, Deletes, Posts
<1>3. ASSUME NEW u \in Users, CommitInvoice(u)  PROVE Kept(AboutSales)
  <2>1. At(u, "post", Invoices) /\ Ends(u)
    BY <1>3 DEF CommitInvoice
  <2>2. hand[u].doc \in Docs /\ row[hand[u].doc].kind \in AboutSales
    BY <2>1, AtIs DEF AboutSales
  <2>. QED  BY <1>3, <2>1, <2>2, CommitInvoiceDoes, KeptEnds
<1>4. ASSUME NEW u \in Users, CommitReturn(u)  PROVE Kept(AboutSales)
  <2>1. At(u, "post", {"saleReturn"}) /\ Ends(u)
    BY <1>4 DEF CommitReturn
  <2>2. hand[u].doc \in Docs /\ row[hand[u].doc].kind \in AboutSales
    BY <2>1, AtIs DEF AboutSales
  <2>. QED  BY <1>4, <2>1, <2>2, CommitReturnDoes, KeptEnds
<1>5. ASSUME NEW u \in Users, CreateReversal(u)  PROVE Kept(AboutSales)
  <2>1. PICK d \in Docs : /\ row[d].kind = "saleReturn" /\ Returns(u, d) /\ hand[u].op = "return"
    BY <1>5, CreateReversalDoes
  <2>2. Changes(d, StatusLinkQty)
    BY <2>1, ReturnsDoes
  <2>3. PICK h : h.op = "next" /\ hand' = [hand EXCEPT ![u] = h]
    BY <2>1 DEF Returns, Idle
  <2>. QED  BY <2>1, <2>2, <2>3, KeptTurn DEF AboutSales
<1>. QED  BY <1>1, <1>2, <1>3, <1>4, <1>5 DEF SalesStep
LEMMA PurchasesKept == ASSUME TypeIInv, PurchasesStep  PROVE Kept(AboutPurchases)
<1>1. ASSUME NEW d \in Docs, CreateBill(d) \/ CreateBillReturn(d)  PROVE Kept(AboutPurchases)
  BY <1>1, KeptCreates DEF CreateBill, CreateBillReturn, AboutPurchases
<1>2. ASSUME NEW u \in Users, NEW d \in Docs,
             UpdateBill(u, d) \/ DeleteBill(u, d) \/ PostBill(u, d) \/ UpdateBillReturn(u, d) \/ DeleteBillReturn(u, d) \/ PostBillReturn(u, d) \/ ReverseBill(u, d)
      PROVE  Kept(AboutPurchases)
  <2>. row[d].kind \in AboutPurchases
    BY <1>2 DEF UpdateBill, DeleteBill, PostBill, UpdateBillReturn, DeleteBillReturn, PostBillReturn, ReverseBill, AboutPurchases
  <2>1. CASE UpdateBill(u, d)
    BY <2>1, KeptReads, KeptEdits, KeptDeletes, KeptPosts, KeptKeeps DEF UpdateBill
  <2>2. CASE DeleteBill(u, d)
    BY <2>2, KeptReads, KeptEdits, KeptDeletes, KeptPosts, KeptKeeps DEF DeleteBill
  <2>3. CASE PostBill(u, d)
    BY <2>3, KeptReads, KeptEdits, KeptDeletes, KeptPosts, KeptKeeps DEF PostBill
  <2>4. CASE UpdateBillReturn(u, d)
    BY <2>4, KeptReads, KeptEdits, KeptDeletes, KeptPosts, KeptKeeps DEF UpdateBillReturn
  <2>5. CASE DeleteBillReturn(u, d)
    BY <2>5, KeptReads, KeptEdits, KeptDeletes, KeptPosts, KeptKeeps DEF DeleteBillReturn
  <2>6. CASE PostBillReturn(u, d)
    BY <2>6, KeptReads, KeptEdits, KeptDeletes, KeptPosts, KeptKeeps DEF PostBillReturn
  <2>7. CASE ReverseBill(u, d)
    BY <2>7, KeptReads, KeptEdits, KeptDeletes, KeptPosts, KeptKeeps DEF ReverseBill
  <2>. QED  BY <1>2, <2>1, <2>2, <2>3, <2>4, <2>5, <2>6, <2>7
<1>3. ASSUME NEW u \in Users, CommitBill(u)  PROVE Kept(AboutPurchases)
  <2>1. At(u, "post", Bills) /\ Ends(u)
    BY <1>3 DEF CommitBill
  <2>2. hand[u].doc \in Docs /\ row[hand[u].doc].kind \in AboutPurchases
    BY <2>1, AtIs DEF AboutPurchases
  <2>. QED  BY <1>3, <2>1, <2>2, CommitBillDoes, KeptEnds
<1>4. ASSUME NEW u \in Users, CommitBillReturn(u)  PROVE Kept(AboutPurchases)
  <2>1. At(u, "post", {"purchaseReturn"}) /\ Ends(u)
    BY <1>4 DEF CommitBillReturn
  <2>2. hand[u].doc \in Docs /\ row[hand[u].doc].kind \in AboutPurchases
    BY <2>1, AtIs DEF AboutPurchases
  <2>. QED  BY <1>4, <2>1, <2>2, CommitBillReturnDoes, KeptEnds
<1>5. ASSUME NEW u \in Users, CreateBillReversal(u)  PROVE Kept(AboutPurchases)
  <2>1. PICK d \in Docs : /\ row[d].kind = "purchaseReturn" /\ Returns(u, d) /\ hand[u].op = "return"
    BY <1>5, CreateBillReversalDoes
  <2>2. Changes(d, StatusLinkQty)
    BY <2>1, ReturnsDoes
  <2>3. PICK h : h.op = "next" /\ hand' = [hand EXCEPT ![u] = h]
    BY <2>1 DEF Returns, Idle
  <2>. QED  BY <2>1, <2>2, <2>3, KeptTurn DEF AboutPurchases
<1>. QED  BY <1>1, <1>2, <1>3, <1>4, <1>5 DEF PurchasesStep

LEMMA InventoryKept == ASSUME TypeIInv, InventoryStep  PROVE Kept(AboutInventory)
<1>1. ASSUME NEW d \in Docs, CreateAdjustment(d)  PROVE Kept(AboutInventory)
  BY <1>1, KeptCreates DEF CreateAdjustment, AboutInventory
<1>2. ASSUME NEW u \in Users, NEW d \in Docs,
             CompleteTransfer(u, d) \/ UpdateAdjustment(u, d) \/ DeleteAdjustment(u, d) \/ PostAdjustment(u, d)
      PROVE  Kept(AboutInventory)
  <2>. row[d].kind \in AboutInventory
    BY <1>2 DEF CompleteTransfer, UpdateAdjustment, DeleteAdjustment, PostAdjustment, AboutInventory
  <2>1. CASE CompleteTransfer(u, d)
    BY <2>1, KeptReads, KeptEdits, KeptDeletes, KeptPosts, KeptKeeps DEF CompleteTransfer
  <2>2. CASE UpdateAdjustment(u, d)
    BY <2>2, KeptReads, KeptEdits, KeptDeletes, KeptPosts, KeptKeeps DEF UpdateAdjustment
  <2>3. CASE DeleteAdjustment(u, d)
    BY <2>3, KeptReads, KeptEdits, KeptDeletes, KeptPosts, KeptKeeps DEF DeleteAdjustment
  <2>4. CASE PostAdjustment(u, d)
    BY <2>4, KeptReads, KeptEdits, KeptDeletes, KeptPosts, KeptKeeps DEF PostAdjustment
  <2>. QED  BY <1>2, <2>1, <2>2, <2>3, <2>4
<1>3. ASSUME NEW u \in Users, CommitTransfer(u)  PROVE Kept(AboutInventory)
  <2>1. At(u, "post", {"transfer"}) /\ Ends(u)
    BY <1>3 DEF CommitTransfer
  <2>2. hand[u].doc \in Docs /\ row[hand[u].doc].kind \in AboutInventory
    BY <2>1, AtIs DEF AboutInventory
  <2>. QED  BY <1>3, <2>1, <2>2, CommitTransferDoes, KeptEnds
<1>4. ASSUME NEW u \in Users, CommitAdjustment(u)  PROVE Kept(AboutInventory)
  <2>1. At(u, "post", {"adjustment"}) /\ hand' = [hand EXCEPT ![u] = Idle]
    BY <1>4 DEF CommitAdjustment, EndsWith
  <2>2. hand[u].doc \in Docs /\ row[hand[u].doc].kind \in AboutInventory
    BY <2>1, AtIs DEF AboutInventory
  <2>. QED  BY <1>4, <2>1, <2>2, CommitAdjustmentDoes, KeptCommit
<1>5. ASSUME NEW d \in Docs, ApproveAdjustment(d)  PROVE Kept(AboutInventory)
  <2>1. row[d].kind \in AboutInventory /\ hand' = hand
    BY <1>5 DEF ApproveAdjustment, AboutInventory
  <2>. QED  BY <1>5, <2>1, ApproveAdjustmentDoes, KeptQuietly
<1>6. ASSUME NEW u \in Users, NEW d \in Docs, CreateTransfer(u, d)  PROVE Kept(AboutInventory)
  <2>1. row'[d].kind = row[d].kind /\ row[d].kind \in AboutInventory /\ Changes(d, JustStatus)
    BY <1>6, CreateTransferDoes DEF CreateTransfer, AboutInventory, Changes, Like
  <2>2. PICK q, h : h = TransferPlan(d, row'[d], [qty |-> q]) /\ hand' = [hand EXCEPT ![u] = h]
    BY <1>6 DEF CreateTransfer, TransferPlan
  <2>3. h.seen = row'[d]
    BY <2>2, TransferPlanIs
  <2>. QED  BY <2>1, <2>2, <2>3, KeptTurn
<1>7. ASSUME NEW u \in Users, NEW d \in Docs, DeleteTransfer(u, d)  PROVE Kept(AboutInventory)
  <2>1. row'[d].kind = row[d].kind /\ row[d].kind \in AboutInventory /\ Changes(d, JustQty)
    BY <1>7, DeleteTransferDoes DEF DeleteTransfer, AboutInventory, Changes, Like
  <2>2. PICK h : h = TransferPlan(d, row'[d], [status |-> "gone"]) /\ hand' = [hand EXCEPT ![u] = h]
    BY <1>7 DEF DeleteTransfer, TransferPlan
  <2>3. h.seen = row'[d]
    BY <2>2, TransferPlanIs
  <2>. QED  BY <2>1, <2>2, <2>3, KeptTurn
<1>8. ASSUME NEW u \in Users, CheckFloor(u)  PROVE Kept(AboutInventory)
  <2>1. At(u, "floor", {"transfer"}) /\ hand' = [hand EXCEPT ![u].op = "post"] /\ row' = row
    BY <1>8 DEF CheckFloor, papers
  <2>2. hand[u].doc \in Docs /\ row[hand[u].doc].kind \in AboutInventory /\ hand[u].seen.kind \in AboutInventory
    BY <2>1, AtIs DEF AboutInventory
  <2>3. Changes(hand[u].doc, JustStatus)
    BY <2>1, <2>2, StaysDoes DEF TypeIInv, PapersOK
  <2>. QED  BY <2>1, <2>2, <2>3, KeptGoesOn
<1>. QED  BY <1>1, <1>2, <1>3, <1>4, <1>5, <1>6, <1>7, <1>8 DEF InventoryStep

LEMMA ManufacturingKept == ASSUME TypeIInv, ManufacturingStep  PROVE Kept(AboutOrders)
<1>1. ASSUME NEW d \in Docs, CreateWorkOrder(d)  PROVE Kept(AboutOrders)
  BY <1>1, KeptCreates DEF CreateWorkOrder, AboutOrders
<1>2. ASSUME NEW u \in Users, NEW d \in Docs,
             UpdateWorkOrder(u, d) \/ DeleteWorkOrder(u, d) \/ UpdateConsumption(u, d) \/ StartWorkOrder(u, d) \/ CompleteWorkOrder(u, d) \/ CancelWorkOrder(u, d)
      PROVE  Kept(AboutOrders)
  <2>. row[d].kind \in AboutOrders
    BY <1>2 DEF UpdateWorkOrder, DeleteWorkOrder, UpdateConsumption, StartWorkOrder, CompleteWorkOrder, CancelWorkOrder, AboutOrders
  <2>1. CASE UpdateWorkOrder(u, d)
    BY <2>1, KeptReads, KeptEdits, KeptDeletes, KeptPosts, KeptKeeps DEF UpdateWorkOrder
  <2>2. CASE DeleteWorkOrder(u, d)
    BY <2>2, KeptReads, KeptEdits, KeptDeletes, KeptPosts, KeptKeeps DEF DeleteWorkOrder
  <2>3. CASE UpdateConsumption(u, d)
    BY <2>3, KeptReads, KeptEdits, KeptDeletes, KeptPosts, KeptKeeps DEF UpdateConsumption
  <2>4. CASE StartWorkOrder(u, d)
    BY <2>4, KeptReads, KeptEdits, KeptDeletes, KeptPosts, KeptKeeps DEF StartWorkOrder
  <2>5. CASE CompleteWorkOrder(u, d)
    BY <2>5, KeptReads, KeptEdits, KeptDeletes, KeptPosts, KeptKeeps DEF CompleteWorkOrder
  <2>6. CASE CancelWorkOrder(u, d)
    BY <2>6, KeptReads, KeptEdits, KeptDeletes, KeptPosts, KeptKeeps DEF CancelWorkOrder
  <2>. QED  BY <1>2, <2>1, <2>2, <2>3, <2>4, <2>5, <2>6
<1>3. ASSUME NEW u \in Users, CommitStart(u)  PROVE Kept(AboutOrders)
  <2>1. At(u, "post", {"workOrder"}) /\ Ends(u)
    BY <1>3 DEF CommitStart
  <2>2. hand[u].doc \in Docs /\ row[hand[u].doc].kind \in AboutOrders
    BY <2>1, AtIs DEF AboutOrders
  <2>. QED  BY <1>3, <2>1, <2>2, CommitStartDoes, KeptEnds
<1>4. ASSUME NEW u \in Users, CommitComplete(u)  PROVE Kept(AboutOrders)
  <2>1. At(u, "complete", {"workOrder"}) /\ Ends(u)
    BY <1>4 DEF CommitComplete
  <2>2. hand[u].doc \in Docs /\ row[hand[u].doc].kind \in AboutOrders
    BY <2>1, AtIs DEF AboutOrders
  <2>. QED  BY <1>4, <2>1, <2>2, CommitCompleteDoes, KeptEnds
<1>5. ASSUME NEW u \in Users, CommitCancel(u)  PROVE Kept(AboutOrders)
  <2>1. At(u, "cancel", {"workOrder"}) /\ Ends(u)
    BY <1>5 DEF CommitCancel
  <2>2. hand[u].doc \in Docs /\ row[hand[u].doc].kind \in AboutOrders
    BY <2>1, AtIs DEF AboutOrders
  <2>. QED  BY <1>5, <2>1, <2>2, CommitCancelDoes, KeptEnds
<1>6. ASSUME NEW d \in Docs, ReopenWorkOrder(d)  PROVE Kept(AboutOrders)
  <2>1. row[d].kind \in AboutOrders /\ hand' = hand
    BY <1>6 DEF ReopenWorkOrder, AboutOrders
  <2>. QED  BY <1>6, <2>1, ReopenWorkOrderDoes, KeptQuietly
<1>. QED  BY <1>1, <1>2, <1>3, <1>4, <1>5, <1>6 DEF ManufacturingStep

LEMMA TillKept == ASSUME TypeIInv, TillStep  PROVE Kept(AboutTill)
<1>1. ASSUME NEW d \in Docs, OpenShift(d)  PROVE Kept(AboutTill)
  BY <1>1, KeptCreates DEF OpenShift, AboutTill
<1>2. ASSUME NEW u \in Users, NEW d \in Docs,
             Checkout(u, d) \/ CloseShift(u, d) \/ HealShift(u, d)
      PROVE  Kept(AboutTill)
  <2>. row[d].kind \in AboutTill
    BY <1>2 DEF Checkout, CloseShift, HealShift, AboutTill
  <2>1. CASE Checkout(u, d)
    BY <2>1, KeptReads, KeptEdits, KeptDeletes, KeptPosts, KeptKeeps DEF Checkout
  <2>2. CASE CloseShift(u, d)
    BY <2>2, KeptReads, KeptEdits, KeptDeletes, KeptPosts, KeptKeeps DEF CloseShift
  <2>3. CASE HealShift(u, d)
    BY <2>3, KeptReads, KeptEdits, KeptDeletes, KeptPosts, KeptKeeps DEF HealShift
  <2>. QED  BY <1>2, <2>1, <2>2, <2>3
<1>3. ASSUME NEW u \in Users, CommitCheckout(u)  PROVE Kept(AboutTill)
  <2>1. At(u, "new", {"ticket"}) /\ Ends(u)
    BY <1>3 DEF CommitCheckout
  <2>2. hand[u].doc \in Docs /\ row[hand[u].doc].kind \in AboutTill
    BY <2>1, AtIs DEF AboutTill
  <2>. QED  BY <1>3, <2>1, <2>2, CommitCheckoutDoes, KeptEnds
<1>4. ASSUME NEW u \in Users, CommitClose(u)  PROVE Kept(AboutTill)
  <2>1. At(u, "close", {"shift"}) /\ hand' = [hand EXCEPT ![u].op = "lookup"]
    BY <1>4 DEF CommitClose
  <2>2. /\ hand[u].doc \in Docs /\ row[hand[u].doc].kind \in AboutTill /\ hand[u].seen.kind \in AboutTill
    BY <2>1, AtIs DEF AboutTill
  <2>. QED  BY <1>4, <2>1, <2>2, CommitCloseDoes, KeptGoesOn
<1>5. ASSUME NEW u \in Users, LookUpDifference(u)  PROVE Kept(AboutTill)
  <2>1. At(u, "lookup", {"shift"}) /\ row' = row
    BY <1>5 DEF LookUpDifference, papers
  <2>2. /\ hand[u].doc \in Docs /\ row[hand[u].doc].kind \in AboutTill /\ hand[u].seen.kind \in AboutTill
        /\ Changes(hand[u].doc, JustStatus)
    BY <2>1, AtIs, StaysDoes DEF AboutTill, TypeIInv, PapersOK
  <2>3. hand' = [hand EXCEPT ![u].op = "entry"] \/ hand' = [hand EXCEPT ![u] = Idle]
    BY <1>5 DEF LookUpDifference
  <2>. QED  BY <2>2, <2>3, KeptGoesOn, KeptCommit
<1>6. ASSUME NEW u \in Users, BookDifference(u)  PROVE Kept(AboutTill)
  BY <1>6 DEF BookDifference, Kept, Idle, TypeIInv, HandsOK
<1>. QED  BY <1>1, <1>2, <1>3, <1>4, <1>5, <1>6 DEF TillStep

LEMMA ConversionKept == ASSUME TypeIInv, ConversionStep  PROVE Kept(AboutConversion)
<1>1. ASSUME NEW d \in Docs, CreateOffer(d)  PROVE Kept(AboutConversion)
  BY <1>1, KeptCreates DEF CreateOffer, AboutConversion, Deals
<1>2. ASSUME NEW u \in Users, NEW d \in Docs,
             UpdateOffer(u, d) \/ DeleteOffer(u, d) \/ ConvertOffer(u, d)
      PROVE  Kept(AboutConversion)
  <2>. row[d].kind \in AboutConversion
    BY <1>2 DEF UpdateOffer, DeleteOffer, ConvertOffer, AboutConversion, Deals
  <2>1. CASE UpdateOffer(u, d)
    BY <2>1, KeptReads, KeptEdits, KeptDeletes, KeptPosts, KeptKeeps DEF UpdateOffer
  <2>2. CASE DeleteOffer(u, d)
    BY <2>2, KeptReads, KeptEdits, KeptDeletes, KeptPosts, KeptKeeps DEF DeleteOffer
  <2>3. CASE ConvertOffer(u, d)
    BY <2>3, KeptReads, KeptEdits, KeptDeletes, KeptPosts, KeptKeeps DEF ConvertOffer
  <2>. QED  BY <1>2, <2>1, <2>2, <2>3
<1>3. ASSUME NEW u \in Users, ClaimOffer(u)  PROVE Kept(AboutConversion)
  <2>1. At(u, "claim", Offers) /\ hand' = [hand EXCEPT ![u].op = "claimed"]
    BY <1>3 DEF ClaimOffer
  <2>2. /\ hand[u].doc \in Docs /\ row[hand[u].doc].kind \in AboutConversion /\ hand[u].seen.kind \in AboutConversion
    BY <2>1, AtIs DEF AboutConversion
  <2>. QED  BY <1>3, <2>1, <2>2, ClaimOfferDoes, KeptGoesOn
<1>4. ASSUME NEW u \in Users, NumberFails(u) \/ ReleaseFails(u)  PROVE Kept(AboutConversion)
  BY <1>4 DEF NumberFails, ReleaseFails, Kept, Idle, TypeIInv, HandsOK, papers
<1>5. ASSUME NEW u \in Users, CreateFails(u)  PROVE Kept(AboutConversion)
  <2>1. At(u, "claimed", Offers) /\ hand' = [hand EXCEPT ![u].op = "release"] /\ row' = row
    BY <1>5 DEF CreateFails, papers
  <2>2. /\ hand[u].doc \in Docs /\ row[hand[u].doc].kind \in AboutConversion /\ hand[u].seen.kind \in AboutConversion
        /\ Changes(hand[u].doc, JustStatus)
    BY <2>1, AtIs, StaysDoes DEF AboutConversion, TypeIInv, PapersOK
  <2>. QED  BY <1>5, <2>1, <2>2,  KeptGoesOn
<1>6. ASSUME NEW u \in Users, CreateConverted(u)  PROVE Kept(AboutConversion)
  <2>1. At(u, "claimed", Offers)
    BY <1>6 DEF CreateConverted
  <2>2. hand[u].seen.kind \in AboutConversion
    BY <2>1, AtIs DEF AboutConversion
  <2>3. PICK i \in Docs, lost \in BOOLEAN : Creation(u, i, lost)
    BY <1>6, CreateConvertedIs
  <2>4. Changes(i, StatusLinkQty)
    BY <2>3, CreationType
  <2>5. row[i].kind \in AboutConversion
    BY <2>3 DEF Creation, AboutConversion, Becomes, Deals, Invoices, Bills
  <2>6. hand' = [hand EXCEPT ![u].op = "release"] \/ hand' = [hand EXCEPT ![u] = Idle]
    BY <2>3 DEF Creation
  <2>. QED  BY <2>2, <2>4, <2>5, <2>6, KeptGoesOn, KeptCommit
<1>7. ASSUME NEW u \in Users, ReleaseOffer(u)  PROVE Kept(AboutConversion)
  <2>1. At(u, "release", Offers) /\ hand' = [hand EXCEPT ![u] = Idle]
    BY <1>7 DEF ReleaseOffer
  <2>2. /\ hand[u].doc \in Docs /\ row[hand[u].doc].kind \in AboutConversion /\ hand[u].seen.kind \in AboutConversion
    BY <2>1, AtIs DEF AboutConversion
  <2>. QED  BY <1>7, <2>1, <2>2, ReleaseOfferDoes, KeptCommit
<1>. QED  BY <1>1, <1>2, <1>3, <1>4, <1>5, <1>6, <1>7 DEF ConversionStep

LEMMA PeriodsKept == ASSUME TypeIInv, PeriodsStep  PROVE Kept(AboutPeriods)
<1>1. ASSUME NEW d \in Docs, OpenAccountingPeriod(d) \/ GenerateSubPeriods(d) \/ OpenTaxPeriod(d)  PROVE Kept(AboutPeriods)
  BY <1>1, KeptCreates DEF OpenAccountingPeriod, GenerateSubPeriods, OpenTaxPeriod, AboutPeriods
<1>2. ASSUME NEW u \in Users, NEW d \in Docs,
             CloseAccountingPeriod(u, d) \/ CloseFiscalYear(u, d) \/ ReopenAccountingPeriodById(u, d) \/ SetTaxPeriodStatus(u, d)
      PROVE  Kept(AboutPeriods)
  <2>. row[d].kind \in AboutPeriods
    BY <1>2 DEF CloseAccountingPeriod, CloseFiscalYear, ReopenAccountingPeriodById, SetTaxPeriodStatus, AboutPeriods
  <2>1. CASE CloseAccountingPeriod(u, d)
    BY <2>1, KeptReads, KeptEdits, KeptDeletes, KeptPosts, KeptKeeps DEF CloseAccountingPeriod
  <2>2. CASE CloseFiscalYear(u, d)
    BY <2>2, KeptReads, KeptEdits, KeptDeletes, KeptPosts, KeptKeeps DEF CloseFiscalYear
  <2>3. CASE ReopenAccountingPeriodById(u, d)
    BY <2>3, KeptReads, KeptEdits, KeptDeletes, KeptPosts, KeptKeeps DEF ReopenAccountingPeriodById
  <2>4. CASE SetTaxPeriodStatus(u, d)
    BY <2>4, KeptReads, KeptEdits, KeptDeletes, KeptPosts, KeptKeeps DEF SetTaxPeriodStatus
  <2>. QED  BY <1>2, <2>1, <2>2, <2>3, <2>4
<1>3. ASSUME NEW u \in Users, CommitsPeriod(u)  PROVE Kept(AboutPeriods)
  BY <1>3, CommitsPeriodDoes, KeptCommit DEF Closes, AboutPeriods
<1>. QED  BY <1>1, <1>2, <1>3 DEF PeriodsStep, CommitsPeriod

LEMMA JournalsKept == ASSUME TypeIInv, JournalsStep  PROVE Kept(AboutJournals)
<1>1. ASSUME NEW d \in Docs, CreateTransaction(d)  PROVE Kept(AboutJournals)
  BY <1>1, KeptCreates DEF CreateTransaction, AboutJournals
<1>2. ASSUME NEW u \in Users, NEW d \in Docs,
             UpdateTransaction(u, d) \/ PostTransaction(u, d) \/ DeleteTransaction(u, d) \/ ReverseTransaction(u, d)
      PROVE  Kept(AboutJournals)
  <2>. row[d].kind \in AboutJournals
    BY <1>2 DEF UpdateTransaction, PostTransaction, DeleteTransaction, ReverseTransaction, AboutJournals
  <2>1. CASE UpdateTransaction(u, d)
    BY <2>1, KeptReads, KeptEdits, KeptDeletes, KeptPosts, KeptKeeps DEF UpdateTransaction
  <2>2. CASE PostTransaction(u, d)
    BY <2>2, KeptReads, KeptEdits, KeptDeletes, KeptPosts, KeptKeeps DEF PostTransaction
  <2>3. CASE DeleteTransaction(u, d)
    BY <2>3, KeptReads, KeptEdits, KeptDeletes, KeptPosts, KeptKeeps DEF DeleteTransaction
  <2>4. CASE ReverseTransaction(u, d)
    BY <2>4, KeptReads, KeptEdits, KeptDeletes, KeptPosts, KeptKeeps DEF ReverseTransaction
  <2>. QED  BY <1>2, <2>1, <2>2, <2>3, <2>4
<1>3. ASSUME NEW u \in Users, CommitTransaction(u)  PROVE Kept(AboutJournals)
  <2>1. At(u, "post", {"journal"}) /\ Ends(u)
    BY <1>3 DEF CommitTransaction
  <2>2. hand[u].doc \in Docs /\ row[hand[u].doc].kind \in AboutJournals
    BY <2>1, AtIs DEF AboutJournals
  <2>. QED  BY <1>3, <2>1, <2>2, CommitTransactionDoes, KeptEnds
<1>4. ASSUME NEW u \in Users, CommitDelete(u)  PROVE Kept(AboutJournals)
  <2>1. At(u, "cancel", {"journal"}) /\ Ends(u)
    BY <1>4 DEF CommitDelete
  <2>2. hand[u].doc \in Docs /\ row[hand[u].doc].kind \in AboutJournals
    BY <2>1, AtIs DEF AboutJournals
  <2>. QED  BY <1>4, <2>1, <2>2, CommitDeleteDoes, KeptEnds
<1>5. ASSUME NEW u \in Users, CommitMirror(u)  PROVE Kept(AboutJournals)
  BY <1>5 DEF CommitMirror, Ends, EndsWith, Kept, Idle, TypeIInv, HandsOK
<1>6. ASSUME NEW u \in Users, DeleteLines(u)  PROVE Kept(AboutJournals)
  <2>1. At(u, "lines", {"journal"}) /\ hand' = [hand EXCEPT ![u].op = "insert"]
    BY <1>6 DEF DeleteLines
  <2>2. /\ hand[u].doc \in Docs /\ row[hand[u].doc].kind \in AboutJournals /\ hand[u].seen.kind \in AboutJournals
    BY <2>1, AtIs DEF AboutJournals
  <2>. QED  BY <1>6, <2>1, <2>2, DeleteLinesDoes, KeptGoesOn
<1>7. ASSUME NEW u \in Users, InsertLines(u)  PROVE Kept(AboutJournals)
  <2>1. At(u, "insert", {"journal"}) /\ hand' = [hand EXCEPT ![u] = Idle]
    BY <1>7 DEF InsertLines
  <2>2. /\ hand[u].doc \in Docs /\ row[hand[u].doc].kind \in AboutJournals /\ hand[u].seen.kind \in AboutJournals
    BY <2>1, AtIs DEF AboutJournals
  <2>. QED  BY <1>7, <2>1, <2>2, InsertLinesDoes, KeptCommit
<1>8. ASSUME NEW u \in Users, UpdateHeader(u)  PROVE Kept(AboutJournals)
  <2>1. At(u, "header", {"journal"})
    BY <1>8 DEF UpdateHeader
  <2>2. /\ hand[u].doc \in Docs /\ row[hand[u].doc].kind \in AboutJournals /\ hand[u].seen.kind \in AboutJournals
        /\ Changes(hand[u].doc, JustStatus)
    BY <1>8, <2>1, AtIs, UpdateHeaderDoes DEF AboutJournals
  <2>3. hand' = [hand EXCEPT ![u].op = "lines"] \/ hand' = [hand EXCEPT ![u] = Idle]
    BY <1>8 DEF UpdateHeader
  <2>. QED  BY <2>2, <2>3, KeptGoesOn, KeptCommit
<1>. QED  BY <1>1, <1>2, <1>3, <1>4, <1>5, <1>6, <1>7, <1>8 DEF JournalsStep

LEMMA PayrollKept == ASSUME TypeIInv, PayrollStep  PROVE Kept(AboutPayroll)
<1>1. ASSUME NEW d \in Docs, CreatePayrollRun(d) \/ CreateEndOfService(d)  PROVE Kept(AboutPayroll)
  BY <1>1, KeptCreates DEF CreatePayrollRun, CreateEndOfService, AboutPayroll
<1>2. ASSUME NEW u \in Users, NEW d \in Docs,
             DeletePayrollRun(u, d) \/ PostPayrollRun(u, d) \/ ApproveEndOfService(u, d) \/ CancelEndOfService(u, d) \/ PayEndOfService(u, d) \/ DeleteEndOfService(u, d)
      PROVE  Kept(AboutPayroll)
  <2>. row[d].kind \in AboutPayroll
    BY <1>2 DEF DeletePayrollRun, PostPayrollRun, ApproveEndOfService, CancelEndOfService, PayEndOfService, DeleteEndOfService, AboutPayroll
  <2>1. CASE DeletePayrollRun(u, d)
    BY <2>1, KeptReads, KeptEdits, KeptDeletes, KeptPosts, KeptKeeps DEF DeletePayrollRun
  <2>2. CASE PostPayrollRun(u, d)
    BY <2>2, KeptReads, KeptEdits, KeptDeletes, KeptPosts, KeptKeeps DEF PostPayrollRun
  <2>3. CASE ApproveEndOfService(u, d)
    BY <2>3, KeptReads, KeptEdits, KeptDeletes, KeptPosts, KeptKeeps DEF ApproveEndOfService
  <2>4. CASE CancelEndOfService(u, d)
    BY <2>4, KeptReads, KeptEdits, KeptDeletes, KeptPosts, KeptKeeps DEF CancelEndOfService
  <2>5. CASE PayEndOfService(u, d)
    BY <2>5, KeptReads, KeptEdits, KeptDeletes, KeptPosts, KeptKeeps DEF PayEndOfService
  <2>6. CASE DeleteEndOfService(u, d)
    BY <2>6, KeptReads, KeptEdits, KeptDeletes, KeptPosts, KeptKeeps DEF DeleteEndOfService
  <2>. QED  BY <1>2, <2>1, <2>2, <2>3, <2>4, <2>5, <2>6
<1>3. ASSUME NEW u \in Users, CommitPayrollRun(u)  PROVE Kept(AboutPayroll)
  <2>1. At(u, "post", {"payroll"}) /\ Ends(u)
    BY <1>3 DEF CommitPayrollRun
  <2>2. hand[u].doc \in Docs /\ row[hand[u].doc].kind \in AboutPayroll
    BY <2>1, AtIs DEF AboutPayroll
  <2>. QED  BY <1>3, <2>1, <2>2, CommitPayrollRunDoes, KeptEnds
<1>4. ASSUME NEW u \in Users, CommitApproval(u)  PROVE Kept(AboutPayroll)
  <2>1. At(u, "post", {"endOfService"}) /\ Ends(u)
    BY <1>4 DEF CommitApproval
  <2>2. hand[u].doc \in Docs /\ row[hand[u].doc].kind \in AboutPayroll
    BY <2>1, AtIs DEF AboutPayroll
  <2>. QED  BY <1>4, <2>1, <2>2, CommitApprovalDoes, KeptEnds
<1>5. ASSUME NEW u \in Users, CommitSettlement(u)  PROVE Kept(AboutPayroll)
  <2>1. At(u, "complete", {"endOfService"}) /\ Ends(u)
    BY <1>5 DEF CommitSettlement
  <2>2. hand[u].doc \in Docs /\ row[hand[u].doc].kind \in AboutPayroll
    BY <2>1, AtIs DEF AboutPayroll
  <2>. QED  BY <1>5, <2>1, <2>2, CommitSettlementDoes, KeptEnds
<1>. QED  BY <1>1, <1>2, <1>3, <1>4, <1>5 DEF PayrollStep

LEMMA LeavesKept == ASSUME TypeIInv, LeavesStep  PROVE Kept(AboutLeaves)
<1>1. ASSUME NEW u \in Users, NEW d \in Docs,
             CreateLeave(u, d) \/ UpdateLeaveStatus(u, d) \/ DeleteLeave(u, d) \/ PostLeaveProvision(u, d)
      PROVE  Kept(AboutLeaves)
  <2>. row[d].kind \in AboutLeaves
    BY <1>1 DEF CreateLeave, UpdateLeaveStatus, DeleteLeave, PostLeaveProvision, AboutLeaves
  <2>1. CASE CreateLeave(u, d)
    BY <2>1, KeptReads, KeptEdits, KeptDeletes, KeptPosts, KeptKeeps DEF CreateLeave
  <2>2. CASE UpdateLeaveStatus(u, d)
    BY <2>2, KeptReads, KeptEdits, KeptDeletes, KeptPosts, KeptKeeps DEF UpdateLeaveStatus
  <2>3. CASE DeleteLeave(u, d)
    BY <2>3, KeptReads, KeptEdits, KeptDeletes, KeptPosts, KeptKeeps DEF DeleteLeave
  <2>4. CASE PostLeaveProvision(u, d)
    BY <2>4, KeptReads, KeptEdits, KeptDeletes, KeptPosts, KeptKeeps DEF PostLeaveProvision
  <2>. QED  BY <1>1, <2>1, <2>2, <2>3, <2>4
<1>2. ASSUME NEW u \in Users, InsertLeave(u)  PROVE Kept(AboutLeaves)
  <2>1. At(u, "new", {"leave"}) /\ Ends(u)
    BY <1>2 DEF InsertLeave
  <2>2. hand[u].doc \in Docs /\ row[hand[u].doc].kind \in AboutLeaves
    BY <2>1, AtIs DEF AboutLeaves
  <2>. QED  BY <1>2, <2>1, <2>2, InsertLeaveDoes, KeptEnds
<1>3. ASSUME NEW u \in Users, CommitProvision(u)  PROVE Kept(AboutLeaves)
  <2>1. At(u, "new", {"provision"}) /\ Ends(u)
    BY <1>3 DEF CommitProvision
  <2>2. hand[u].doc \in Docs /\ row[hand[u].doc].kind \in AboutLeaves
    BY <2>1, AtIs DEF AboutLeaves
  <2>. QED  BY <1>3, <2>1, <2>2, CommitProvisionDoes, KeptEnds
<1>. QED  BY <1>1, <1>2, <1>3 DEF LeavesStep

LEMMA AssetsKept == ASSUME TypeIInv, AssetsStep  PROVE Kept(AboutAssets)
<1>1. ASSUME NEW u \in Users, NEW d \in Docs,
             CreateFixedAsset(u, d) \/ UpdateFixedAsset(u, d) \/ DeleteFixedAsset(u, d) \/ RunDepreciation(u, d) \/ DisposeFixedAsset(u, d)
      PROVE  Kept(AboutAssets)
  <2>. row[d].kind \in AboutAssets
    BY <1>1 DEF CreateFixedAsset, UpdateFixedAsset, DeleteFixedAsset, RunDepreciation, DisposeFixedAsset, AboutAssets
  <2>1. CASE CreateFixedAsset(u, d)
    BY <2>1, KeptReads, KeptEdits, KeptDeletes, KeptPosts, KeptKeeps DEF CreateFixedAsset
  <2>2. CASE UpdateFixedAsset(u, d)
    BY <2>2, KeptReads, KeptEdits, KeptDeletes, KeptPosts, KeptKeeps DEF UpdateFixedAsset
  <2>3. CASE DeleteFixedAsset(u, d)
    BY <2>3, KeptReads, KeptEdits, KeptDeletes, KeptPosts, KeptKeeps DEF DeleteFixedAsset
  <2>4. CASE RunDepreciation(u, d)
    BY <2>4, KeptReads, KeptEdits, KeptDeletes, KeptPosts, KeptKeeps DEF RunDepreciation
  <2>5. CASE DisposeFixedAsset(u, d)
    BY <2>5, KeptReads, KeptEdits, KeptDeletes, KeptPosts, KeptKeeps DEF DisposeFixedAsset
  <2>. QED  BY <1>1, <2>1, <2>2, <2>3, <2>4, <2>5
<1>2. ASSUME NEW u \in Users, CommitAsset(u)  PROVE Kept(AboutAssets)
  <2>1. At(u, "new", {"asset"}) /\ Ends(u)
    BY <1>2 DEF CommitAsset
  <2>2. hand[u].doc \in Docs /\ row[hand[u].doc].kind \in AboutAssets
    BY <2>1, AtIs DEF AboutAssets
  <2>. QED  BY <1>2, <2>1, <2>2, CommitAssetDoes, KeptEnds
<1>3. ASSUME NEW u \in Users, CommitDepreciation(u)  PROVE Kept(AboutAssets)
  <2>1. At(u, "charge", {"asset"}) /\ Ends(u)
    BY <1>3 DEF CommitDepreciation
  <2>2. hand[u].doc \in Docs /\ row[hand[u].doc].kind \in AboutAssets
    BY <2>1, AtIs DEF AboutAssets
  <2>. QED  BY <1>3, <2>1, <2>2, CommitDepreciationDoes, KeptEnds
<1>4. ASSUME NEW u \in Users, CommitDisposal(u)  PROVE Kept(AboutAssets)
  <2>1. At(u, "dispose", {"asset"}) /\ Ends(u)
    BY <1>4 DEF CommitDisposal
  <2>2. hand[u].doc \in Docs /\ row[hand[u].doc].kind \in AboutAssets
    BY <2>1, AtIs DEF AboutAssets
  <2>. QED  BY <1>4, <2>1, <2>2, CommitDisposalDoes, KeptEnds
<1>. QED  BY <1>1, <1>2, <1>3, <1>4 DEF AssetsStep

LEMMA VouchersKept == ASSUME TypeIInv, Facts, VouchersStep  PROVE Kept(AboutVouchers)
<1>1. ASSUME NEW d \in Docs, CreateVoucher(d)  PROVE Kept(AboutVouchers)
  <2>1. PICK new : Creates(d, Slips, new)
    BY <1>1 DEF CreateVoucher
  <2>. QED  BY <2>1, KeptCreates DEF AboutVouchers
<1>2. ASSUME NEW u \in Users, NEW d \in Docs,
             CreatePosted(u, d) \/ PostVoucher(u, d) \/ UpdateVoucher(u, d) \/ DeleteVoucher(u, d) \/ ReverseVoucher(u, d)
      PROVE  Kept(AboutVouchers)
  <2>. row[d].kind \in AboutVouchers
    BY <1>2 DEF CreatePosted, PostVoucher, UpdateVoucher, DeleteVoucher, ReverseVoucher, AboutVouchers
  <2>1. CASE CreatePosted(u, d)
    BY <2>1, KeptReads DEF CreatePosted
  <2>2. CASE PostVoucher(u, d)
    BY <2>2, KeptReads DEF PostVoucher
  <2>3. CASE UpdateVoucher(u, d)
    BY <2>3, KeptEdits DEF UpdateVoucher
  <2>4. CASE DeleteVoucher(u, d)
    BY <2>4, KeptDeletes DEF DeleteVoucher
  <2>5. CASE ReverseVoucher(u, d)
    BY <2>5, KeptReads DEF ReverseVoucher
  <2>. QED  BY <1>2, <2>1, <2>2, <2>3, <2>4, <2>5
<1>3. ASSUME NEW u \in Users, CommitReverse(u)  PROVE Kept(AboutVouchers)
  <2>1. At(u, "reverse", Slips) /\ Ends(u)
    BY <1>3 DEF CommitReverse
  <2>2. hand[u].doc \in Docs /\ row[hand[u].doc].kind \in AboutVouchers
    BY <2>1, AtIs DEF AboutVouchers
  <2>. QED  BY <1>3, <2>1, <2>2, CommitReverseDoes, KeptEnds
<1>4. ASSUME NEW u \in Users, CommitVoucher(u) \/ CommitCreated(u)  PROVE Kept(AboutVouchers)
  <2>. PICK d, i, n, h : d = hand[u].doc /\ i = hand[u].want.link /\ n = hand[u].want.applied /\ h = hand[u]
    OBVIOUS
  <2>1. PICK op \in {"post", "new"} : At(u, op, Slips)
    BY <1>4 DEF CommitVoucher, CommitCreated
  <2>2. /\ row[d].kind \in Slips /\ h.seen.kind \in Slips /\ d \in Docs /\ PlanOK(h) /\ h.op = op
        /\ Equipped(op, h.seen.kind, h.want)
    BY <2>1, PlanIs
  <2>3. "link" \in DOMAIN h.want
    BY <2>2 DEF Equipped
  <2>4. i # NoDoc => row[i].kind \in AboutVouchers
    BY <2>2, <2>3, SettlesDeals DEF PlanOK, Named, AboutVouchers
  <2>5. Applies(d, i, n)
    BY <1>4, CommitVoucherDoes, CommitCreatedDoes
  <2>6. hand' = [hand EXCEPT ![u] = Idle]
    BY <1>4 DEF CommitVoucher, CommitCreated, Booking, EndsWith
  <2>7. \A x \in Docs : row[x].kind \notin AboutVouchers => row'[x] = row[x]
    BY <2>2, <2>4, <2>5, BooksAssumption DEF Applies, AboutVouchers, BooksAssumption
  <2>. QED  BY <2>6, <2>7 DEF Kept, Idle, TypeIInv, HandsOK
<1>. QED  BY <1>1, <1>2, <1>3, <1>4 DEF VouchersStep

-----------------------------------------------------------------------------
(* Sums over a part of the documents.                                      *)

LEMMA OneLess ==
  ASSUME NEW S, IsFiniteSet(S), NEW t \in SUBSET S, NEW x \in t
  PROVE  /\ t \ {x} \in SUBSET S /\ Cardinality(t \ {x}) = Cardinality(t) - 1
         /\ Cardinality(t) \in Nat /\ Cardinality(t) - 1 \in Nat
<1>1. IsFiniteSet(t) /\ Cardinality(t) \in Nat
  BY FS_Subset, FS_CardinalityType
<1>2. Cardinality(t \ {x}) = Cardinality(t) - 1 /\ IsFiniteSet(t \ {x})
  BY <1>1, FS_RemoveElement
<1>3. Cardinality(t \ {x}) \in Nat
  BY <1>2, FS_CardinalityType
<1>. QED  BY <1>1, <1>2, <1>3

(* A running sum takes its members in any order.                           *)
LEMMA RunsPeel ==
  ASSUME NEW S, IsFiniteSet(S), NEW f \in [S -> Int], NEW i, Runs(f, S, i), NEW s \in SUBSET S, NEW x \in s
  PROVE  i[s] = f[x] + i[s \ {x}] /\ i[s] \in Int
<1> DEFINE B == {n \in Nat : \E t \in SUBSET S : Cardinality(t) = n /\ ~(i[t] \in Int /\ \A y \in t : i[t] = f[y] + i[t \ {y}])}
<1>0. \A t \in SUBSET S : IsFiniteSet(t) /\ Cardinality(t) \in Nat
  BY FS_Subset, FS_CardinalityType
<1>1. SUFFICES ASSUME B # {} PROVE FALSE
  <2>1. Cardinality(s) \in Nat /\ Cardinality(s) \notin B
    BY <1>0
  <2>. QED  BY <2>1
<1>2. PICK m \in B : \A k \in B : m <= k
  BY <1>1, LeastNat
<1>3. PICK t \in SUBSET S : Cardinality(t) = m /\ ~(i[t] \in Int /\ \A y \in t : i[t] = f[y] + i[t \ {y}])
  BY <1>2
<1>4. \A r \in SUBSET S : Cardinality(r) < m => i[r] \in Int /\ \A y \in r : i[r] = f[y] + i[r \ {y}]
  <2>1. \A r \in SUBSET S : Cardinality(r) < m => Cardinality(r) \in Nat /\ Cardinality(r) \notin B
    BY <1>0, <1>2
  <2>. QED  BY <2>1
<1>5. m \in Nat /\ \A y \in t : Cardinality(t \ {y}) = m - 1 /\ t \ {y} \in SUBSET S
  BY <1>3, OneLess
<1>6. CASE t = {}
  BY <1>3, <1>6 DEF Runs
<1>7. CASE t # {}
  <2>. PICK p : p = Pick(t)
    OBVIOUS
  <2>1. p \in t /\ i[t] = f[p] + i[t \ {p}]
    BY <1>7, PickIn DEF Runs
  <2>2. \A y \in t : i[t \ {y}] \in Int /\ f[y] \in Int
    BY <1>4, <1>5
  <2>3. ASSUME NEW y \in t, y # p  PROVE i[t] = f[y] + i[t \ {y}]
    <3>1. i[t \ {p}] = f[y] + i[(t \ {p}) \ {y}]
      BY <1>4, <1>5, <2>1, <2>3
    <3>2. i[t \ {y}] = f[p] + i[(t \ {y}) \ {p}]
      BY <1>4, <1>5, <2>1, <2>3
    <3>3. (t \ {p}) \ {y} = (t \ {y}) \ {p}
      OBVIOUS
    <3>4. i[(t \ {p}) \ {y}] \in Int
      <4>1. Cardinality((t \ {p}) \ {y}) = m - 2 /\ (t \ {p}) \ {y} \in SUBSET S
        <5>1. t \ {p} \in SUBSET S /\ Cardinality(t \ {p}) = m - 1 /\ y \in t \ {p}
          BY <1>5, <2>1, <2>3
        <5>2. (t \ {p}) \ {y} \in SUBSET S /\ Cardinality((t \ {p}) \ {y}) = Cardinality(t \ {p}) - 1
          <6>. PICK r : r = t \ {p}
            OBVIOUS
          <6>1. r \in SUBSET S /\ y \in r
            BY <5>1
          <6>2. r \ {y} \in SUBSET S /\ Cardinality(r \ {y}) = Cardinality(r) - 1
            BY <6>1, OneLess
          <6>. QED  BY <6>2
        <5>. QED  BY <1>5, <5>1, <5>2
      <4>. QED  BY <1>4, <1>5, <4>1
    <3>5. f[y] \in Int /\ f[p] \in Int
      BY <2>1, <2>2
    <3>. QED
      <4>. PICK r : r = i[(t \ {p}) \ {y}]
        OBVIOUS
      <4>1. i[t \ {p}] = f[y] + r /\ i[t \ {y}] = f[p] + r /\ r \in Int
        BY <3>1, <3>2, <3>3, <3>4
      <4>. QED  BY <2>1, <3>5, <4>1
  <2>4. i[t] \in Int
    <3>1. i[t \ {p}] \in Int /\ f[p] \in Int
      BY <2>1, <2>2
    <3>. QED  BY <2>1, <3>1
  <2>5. \A y \in t : i[t] = f[y] + i[t \ {y}]
    BY <2>1, <2>3
  <2>. QED  BY <1>3, <2>4, <2>5
<1>. QED  BY <1>6, <1>7

(* The members outside of T count nothing.                                 *)
LEMMA RunsPart ==
  ASSUME NEW S, IsFiniteSet(S), NEW f \in [S -> Int], NEW T \in SUBSET S, \A x \in S \ T : f[x] = 0,
         NEW i, Runs(f, S, i)
  PROVE  i[S] = i[T]
<1> DEFINE B == {n \in Nat : \E t \in SUBSET S : T \subseteq t /\ Cardinality(t) = n /\ i[t] # i[T]}
<1>0. \A t \in SUBSET S : IsFiniteSet(t) /\ Cardinality(t) \in Nat
  BY FS_Subset, FS_CardinalityType
<1>1. SUFFICES ASSUME B # {} PROVE FALSE
  BY <1>0
<1>2. PICK m \in B : \A k \in B : m <= k
  BY <1>1, LeastNat
<1>3. PICK t \in SUBSET S : T \subseteq t /\ Cardinality(t) = m /\ i[t] # i[T]
  BY <1>2
<1>4. PICK x \in t : x \notin T
  BY <1>3
<1>5. i[t] = f[x] + i[t \ {x}] /\ f[x] = 0
  BY <1>4, RunsPeel
<1>6. t \ {x} \in SUBSET S /\ T \subseteq t \ {x} /\ Cardinality(t \ {x}) = m - 1 /\ m - 1 \in Nat
  BY <1>3, <1>4, OneLess
<1>7. i[t \ {x}] = i[T]
  BY <1>2, <1>6
<1>8. i[T] \in Int
  <2>1. CASE T = {}
    BY <2>1 DEF Runs
  <2>2. ASSUME NEW y \in T  PROVE i[T] \in Int
    BY RunsPeel
  <2>. QED  BY <2>1, <2>2
<1>. QED  BY <1>3, <1>5, <1>7, <1>8

(* The sums of f over T, one way or the other.                             *)
LEMMA TotalPart ==
  ASSUME NEW S, IsFiniteSet(S), NEW T \in SUBSET S, NEW f \in [T -> Int], NEW g \in [S -> Int],
         \A x \in S : g[x] = IF x \in T THEN f[x] ELSE 0
  PROVE  Total(f) = Total(g)
<1>1. DOMAIN f = T /\ DOMAIN g = S /\ IsFiniteSet(T) /\ S \in SUBSET S /\ T \in SUBSET T
  BY FS_Subset
<1>2. PICK i : Runs(f, T, i) /\ Total(f) = i[T]
  BY <1>1, TotalRuns, RunsExists
<1>3. PICK j : Runs(g, S, j) /\ Total(g) = j[S]
  BY <1>1, TotalRuns, RunsExists
<1>4. j[S] = j[T]
  BY <1>3, RunsPart
<1> DEFINE B == {n \in Nat : \E t \in SUBSET T : Cardinality(t) = n /\ i[t] # j[t]}
<1>5. \A t \in SUBSET T : IsFiniteSet(t) /\ Cardinality(t) \in Nat
  BY <1>1, FS_Subset, FS_CardinalityType
<1>6. B = {}
  <2>. SUFFICES ASSUME B # {}  PROVE FALSE
    OBVIOUS
  <2>1. PICK m \in B : \A k \in B : m <= k
    BY LeastNat
  <2>2. PICK t \in SUBSET T : Cardinality(t) = m /\ i[t] # j[t]
    BY <2>1
  <2>3. t # {}
    BY <1>2, <1>3, <2>2 DEF Runs
  <2>. PICK x : x = Pick(t)
    OBVIOUS
  <2>4. x \in t
    BY <2>3, PickIn
  <2>5. i[t] = f[x] + i[t \ {x}] /\ j[t] = g[x] + j[t \ {x}]
    BY <1>2, <1>3, <2>3 DEF Runs
  <2>6. Cardinality(t \ {x}) = m - 1 /\ t \ {x} \in SUBSET T /\ m - 1 \in Nat
    <3>1. t \in SUBSET T /\ IsFiniteSet(T)
      BY <1>1, <2>2
    <3>. QED  BY <2>2, <2>4, <3>1, OneLess
  <2>7. i[t \ {x}] = j[t \ {x}]
    BY <2>1, <2>6
  <2>. QED  BY <2>2, <2>4, <2>5, <2>7
<1>7. i[T] = j[T]
  BY <1>1, <1>5, <1>6
<1>. QED  BY <1>2, <1>3, <1>4, <1>7

LEMMA TotalGrows ==
  ASSUME NEW S, IsFiniteSet(S), NEW f \in [S -> Int], NEW g \in [S -> Int], \A x \in S : f[x] <= g[x]
  PROVE  Total(f) <= Total(g)
<1>1. DOMAIN f = S /\ DOMAIN g = S /\ S \in SUBSET S
  OBVIOUS
<1>2. PICK i : Runs(f, S, i) /\ Total(f) = i[S]
  BY <1>1, TotalRuns, RunsExists
<1>3. PICK j : Runs(g, S, j) /\ Total(g) = j[S]
  BY <1>1, TotalRuns, RunsExists
<1> DEFINE B == {n \in Nat : \E t \in SUBSET S : Cardinality(t) = n /\ ~(i[t] <= j[t])}
<1>4. \A t \in SUBSET S : IsFiniteSet(t) /\ Cardinality(t) \in Nat
  BY FS_Subset, FS_CardinalityType
<1>5. SUFFICES ASSUME B # {} PROVE FALSE
  BY <1>1, <1>2, <1>3, <1>4
<1>6. PICK m \in B : \A k \in B : m <= k
  BY <1>5, LeastNat
<1>7. PICK t \in SUBSET S : Cardinality(t) = m /\ ~(i[t] <= j[t])
  BY <1>6
<1>8. t # {}
  BY <1>2, <1>3, <1>7 DEF Runs
<1>. PICK x : x = Pick(t)
  OBVIOUS
<1>9. x \in t /\ f[x] <= g[x] /\ f[x] \in Int /\ g[x] \in Int
  BY <1>8, PickIn
<1>10. i[t] = f[x] + i[t \ {x}] /\ j[t] = g[x] + j[t \ {x}]
  BY <1>2, <1>3, <1>8 DEF Runs
<1>11. Cardinality(t \ {x}) = m - 1 /\ t \ {x} \in SUBSET S /\ m - 1 \in Nat
  BY <1>7, <1>9, OneLess
<1>12. i[t \ {x}] <= j[t \ {x}]
  BY <1>6, <1>11
<1>13. i[t \ {x}] \in Int /\ j[t \ {x}] \in Int
  <2>1. CASE t \ {x} = {}
    BY <1>2, <1>3, <1>11, <2>1 DEF Runs
  <2>2. ASSUME NEW y \in t \ {x}  PROVE i[t \ {x}] \in Int /\ j[t \ {x}] \in Int
    BY <1>2, <1>3, <1>11, RunsPeel
  <2>. QED  BY <2>1, <2>2
<1>. QED  BY <1>7, <1>9, <1>10, <1>12, <1>13

-----------------------------------------------------------------------------
(* The leaves.                                                             *)

(* What holds of every step.                                               *)
LEMMA StepGoesOn ==
  ASSUME TypeIInv, Facts, [Next]_books
  PROVE  KindsStay /\ disturbed \subseteq disturbed'
<1>1. ASSUME NEW u \in Users, Claims(u)  PROVE KindsStay /\ disturbed' = disturbed
  <2>1. disturbed' = disturbed
    BY <1>1 DEF Claims, ClaimOffer, NumberFails, CreateConverted, CreateFails, ReleaseOffer, ReleaseFails
  <2>2. CASE ClaimOffer(u)
    <3>. PICK d : d = hand[u].doc
      OBVIOUS
    <3>1. At(u, "claim", Offers)
      BY <2>2 DEF ClaimOffer
    <3>2. d \in Docs
      BY <3>1, AtIs
    <3>3. Changes(d, JustStatus)
      BY <2>2, ClaimOfferDoes
    <3>. QED  BY <2>1, <3>2, <3>3, ChangesType DEF TypeIInv, PapersOK
  <2>3. CASE NumberFails(u) \/ CreateFails(u) \/ ReleaseFails(u)
    BY <2>1, <2>3, ClaimEndsDoes, QuietKinds
  <2>4. CASE CreateConverted(u)
    BY <2>1, <2>4, CreateConvertedIs, CreationType, ChangesType DEF TypeIInv, PapersOK
  <2>5. CASE ReleaseOffer(u)
    <3>. PICK d : d = hand[u].doc
      OBVIOUS
    <3>1. At(u, "release", Offers)
      BY <2>5 DEF ReleaseOffer
    <3>2. d \in Docs
      BY <3>1, AtIs
    <3>3. Changes(d, JustStatus)
      BY <2>5, ReleaseOfferDoes
    <3>. QED  BY <2>1, <3>2, <3>3, ChangesType DEF TypeIInv, PapersOK
  <2>. QED  BY <1>1, <2>1, <2>2, <2>3, <2>4, <2>5 DEF Claims
<1>. QED  BY <1>1, FactsStep DEF Tame

(* A leave that is approved, or is about to be.                            *)
Approving(u, d) ==
  /\ hand[u].op = "write" /\ hand[u].doc = d /\ hand[u].seen.kind = "leave"
  /\ "status" \in DOMAIN hand[u].want /\ hand[u].want.status = "approved"
Granted(d) ==
  /\ row[d].kind = "leave"
  /\ row[d].status = "approved" \/ (row[d].status = "pending" /\ \E u \in Users : Approving(u, d))
GrantedDays(d) == IF Granted(d) THEN row[d].qty ELSE 0

LeavePlan(h) ==
  /\ h.op = "new" /\ h.seen.kind = "leave" =>
       DOMAIN h.want = {"status", "qty", "mark"} /\ h.want.status = "pending" /\ h.want.qty >= 0
  /\ h.op = "write" /\ h.seen.kind = "leave" =>
       /\ DOMAIN h.want = {"status"} /\ h.want.status # "pending"
       /\ h.want.status = "approved" => h.seen.status = "pending"
SomeLeave == \E d \in disturbed : row[d].kind = "leave"
LeavesIInv ==
  /\ \A d \in Docs : row[d].kind = "leave" => row[d].qty >= 0
  /\ \A u \in Users : \A h \in {hand[u]} : LeavePlan(h)
  /\ SomeLeave \/ Total([d \in Docs |-> GrantedDays(d)]) <= LeaveDays

LEMMA GrantedIsInt == ASSUME TypeIInv  PROVE [d \in Docs |-> GrantedDays(d)] \in [Docs -> Int]
<1>1. \A d \in Docs : row[d].qty \in Int
  BY RowColumns DEF TypeIInv, PapersOK
<1>. QED  BY <1>1 DEF GrantedDays

(* Fewer days are granted, or the same.                                    *)
LEMMA LeavesKeep ==
  ASSUME TypeIInv, TypeIInv', LeavesIInv, KindsStay, disturbed \subseteq disturbed',
         \A d \in Docs : row[d].kind = "leave" =>
           /\ row'[d].qty >= 0
           /\ Granted(d)' => SomeLeave' \/ (Granted(d) /\ row'[d].qty = row[d].qty),
         \A u \in Users : hand'[u] = hand[u] \/ \A h \in {hand'[u]} : LeavePlan(h)
  PROVE  LeavesIInv'
<1>1. \A d \in Docs : row'[d].kind = "leave" => row'[d].qty >= 0
  BY DEF KindsStay
<1>2. \A u \in Users : \A h \in {hand'[u]} : LeavePlan(h)
  BY DEF LeavesIInv
<1>3. ASSUME ~SomeLeave'  PROVE Total([d \in Docs |-> GrantedDays(d)]') <= LeaveDays
  <2> DEFINE f == [d \in Docs |-> GrantedDays(d)']
             g == [d \in Docs |-> GrantedDays(d)]
  <2>1. f \in [Docs -> Int] /\ g \in [Docs -> Int]
    <3>1. \A d \in Docs : row[d].qty \in Int /\ row'[d].qty \in Int
      BY RowColumns DEF TypeIInv, PapersOK
    <3>. QED  BY <3>1 DEF GrantedDays
  <2>2. ASSUME NEW d \in Docs  PROVE f[d] <= g[d]
    <3>1. row[d].qty \in Int /\ row'[d].qty \in Int /\ row'[d].kind = row[d].kind
      BY RowColumns DEF TypeIInv, PapersOK, KindsStay
    <3>2. Granted(d)' => row[d].kind = "leave"
      BY <3>1 DEF Granted
    <3>3. Granted(d)' => Granted(d) /\ row'[d].qty = row[d].qty
      BY <1>3, <3>2
    <3>4. Granted(d) => row[d].qty >= 0
      BY DEF Granted, LeavesIInv
    <3>. QED  BY <3>1, <3>3, <3>4 DEF GrantedDays
  <2>3. ~SomeLeave
    BY <1>3 DEF SomeLeave, KindsStay, TypeIInv, CountsOK
  <2> HIDE DEF f, g
  <2>4. Total(f) <= Total(g) /\ Total(f) \in Int /\ Total(g) \in Int
    BY <2>1, <2>2, TotalGrows, TotalIsInt, BooksAssumption DEF BooksAssumption
  <2>5. Total(g) <= LeaveDays
    BY <2>3 DEF LeavesIInv, g
  <2>6. LeaveDays \in Int
    BY BooksAssumption DEF BooksAssumption
  <2>. QED  BY <2>4, <2>5, <2>6 DEF f
<1>. QED  BY <1>1, <1>2, <1>3 DEF LeavesIInv, LeavePlan

LEMMA OthersLeaves ==
  ASSUME TypeIInv, TypeIInv', LeavesIInv, KindsStay, disturbed \subseteq disturbed', NEW K, "leave" \notin K, Kept(K)
  PROVE  LeavesIInv'
<1>1. ASSUME NEW u \in Users, hand'[u] # hand[u]
      PROVE  /\ LeavePlan(hand'[u]) /\ \A d \in Docs : ~Approving(u, d)'
  <2>1. hand'[u].op \in {"idle", "next"} \/ hand'[u].seen.kind # "leave"
    BY <1>1 DEF Kept
  <2>. QED  BY <2>1 DEF LeavePlan, Approving
<1>2. ASSUME NEW d \in Docs, row[d].kind = "leave"
      PROVE  row'[d] = row[d] /\ row[d].qty >= 0 /\ (Granted(d)' => Granted(d))
  <2>1. row'[d] = row[d]
    BY <1>2 DEF Kept
  <2>2. \A u \in Users : Approving(u, d)' => Approving(u, d)
    BY <1>1 DEF Approving
  <2>. QED  BY <1>2, <2>1, <2>2 DEF Granted, LeavesIInv
<1>3. \A u \in Users : hand'[u] = hand[u] \/ \A h \in {hand'[u]} : LeavePlan(h)
  BY <1>1
<1>. QED  BY <1>2, <1>3, LeavesKeep

(* The days that Entitled counts, those of the document itself among them. *)
LEMMA DaysAre ==
  ASSUME PapersOK, NEW of
  PROVE  Days(of) = Total([x \in Docs |-> IF x \in Rows("leave") /\ row[x].status \in of THEN row[x].qty ELSE 0])
<1> DEFINE S == {x \in Rows("leave") : row[x].status \in of}
           f == [x \in S |-> row[x].qty]
           g == [x \in Docs |-> IF x \in Rows("leave") /\ row[x].status \in of THEN row[x].qty ELSE 0]
<1>1. \A x \in Docs : row[x].qty \in Int
  BY RowColumns DEF PapersOK
<1>2. S \in SUBSET Docs /\ \A x \in Docs : x \in S <=> (x \in Rows("leave") /\ row[x].status \in of)
  BY DEF Rows
<1>3. f \in [S -> Int] /\ g \in [Docs -> Int]
  BY <1>1, <1>2
<1>4. \A x \in Docs : g[x] = IF x \in S THEN f[x] ELSE 0
  BY <1>2
<1>5. Days(of) = Total(f)
  BY DEF Days
<1> HIDE DEF S, f, g
<1>6. Total(f) = Total(g)
  BY <1>2, <1>3, <1>4, TotalPart, BooksAssumption DEF BooksAssumption
<1>. QED  BY <1>5, <1>6 DEF g

(* A leave is approved when all that are pending or approved fit.          *)
LEMMA EntitledFits ==
  ASSUME TypeIInv, NEW d \in Docs, Entitled(d)
  PROVE  Days(Claiming) <= LeaveDays
<1>1. Days(Claiming) \in Int /\ LeaveDays \in Int /\ row[d].qty \in Int
  BY DaysType, RowColumns, BooksAssumption DEF TypeIInv, PapersOK, BooksAssumption
<1>. QED  BY <1>1 DEF Entitled

(* What counts no more than the pending and the approved fits with them.   *)
LEMMA ClaimedFits ==
  ASSUME TypeIInv, NEW f \in [Docs -> Int],
         \A x \in Docs : f[x] <= IF x \in Rows("leave") /\ row[x].status \in Claiming THEN row[x].qty ELSE 0
  PROVE  Total(f) <= Days(Claiming)
<1> DEFINE g == [x \in Docs |-> IF x \in Rows("leave") /\ row[x].status \in Claiming THEN row[x].qty ELSE 0]
<1>1. \A x \in Docs : row[x].qty \in Int
  BY RowColumns DEF TypeIInv, PapersOK
<1>2. g \in [Docs -> Int] /\ \A x \in Docs : f[x] <= g[x]
  BY <1>1
<1>3. Days(Claiming) = Total(g)
  BY DaysAre DEF TypeIInv
<1> HIDE DEF g
<1>. QED  BY <1>2, <1>3, TotalGrows, BooksAssumption DEF BooksAssumption

LEMMA LeavesSay == ASSUME TypeIInv, LeavesIInv  PROVE LeavesWithinEntitlement
<1>. SUFFICES ASSUME ~SomeLeave  PROVE ~(Days({"approved"}) > LeaveDays)
  BY DEF LeavesWithinEntitlement, SomeLeave
<1> DEFINE f == [d \in Docs |-> GrantedDays(d)]
           g == [x \in Docs |-> IF x \in Rows("leave") /\ row[x].status \in {"approved"} THEN row[x].qty ELSE 0]
<1>1. \A x \in Docs : row[x].qty \in Int
  BY RowColumns DEF TypeIInv, PapersOK
<1>2. f \in [Docs -> Int] /\ g \in [Docs -> Int]
  BY <1>1, GrantedIsInt
<1>3. ASSUME NEW x \in Docs  PROVE g[x] <= f[x]
  <2>1. x \in Rows("leave") /\ row[x].status \in {"approved"} => Granted(x)
    BY DEF Granted, Rows
  <2>2. Granted(x) => row[x].qty >= 0
    BY DEF Granted, LeavesIInv
  <2>. QED  BY <1>1, <2>1, <2>2 DEF GrantedDays
<1>4. Days({"approved"}) = Total(g) /\ Days({"approved"}) \in Int
  BY DaysAre, DaysType DEF TypeIInv
<1>5. Total(f) <= LeaveDays
  BY DEF LeavesIInv
<1> HIDE DEF f, g
<1>6. Total(g) <= Total(f) /\ Total(f) \in Int
  BY <1>2, <1>3, TotalGrows, TotalIsInt, BooksAssumption DEF BooksAssumption
<1>7. LeaveDays \in Int
  BY BooksAssumption DEF BooksAssumption
<1>. QED  BY <1>4, <1>5, <1>6, <1>7

(* A step that only reads, and takes up no approval.                       *)
LEMMA LeavesQuietly ==
  ASSUME TypeIInv, TypeIInv', LeavesIInv, Quiet,
         \A u \in Users : hand'[u] = hand[u] \/ (LeavePlan(hand'[u]) /\ \A d \in Docs : ~Approving(u, d)')
  PROVE  LeavesIInv'
<1>1. row' = row /\ disturbed' = disturbed /\ KindsStay
  BY QuietKinds DEF Quiet, papers
<1>2. ASSUME NEW d \in Docs, row[d].kind = "leave"
      PROVE  row'[d].qty >= 0 /\ (Granted(d)' => Granted(d) /\ row'[d].qty = row[d].qty)
  <2>1. \A u \in Users : Approving(u, d)' => Approving(u, d)
    BY DEF Approving
  <2>. QED  BY <1>1, <1>2, <2>1 DEF Granted, LeavesIInv
<1>3. \A u \in Users : hand'[u] = hand[u] \/ \A h \in {hand'[u]} : LeavePlan(h)
  OBVIOUS
<1>. QED  BY <1>1, <1>2, <1>3, LeavesKeep

(* An approval is taken up when all that are pending or approved fit.      *)
LEMMA LeavesApproved ==
  ASSUME TypeIInv, TypeIInv', LeavesIInv, Quiet, Days(Claiming) <= LeaveDays,
         \A u \in Users : hand'[u] = hand[u] \/ LeavePlan(hand'[u])
  PROVE  LeavesIInv'
<1> DEFINE f == [d \in Docs |-> GrantedDays(d)']
<1>1. row' = row
  BY DEF Quiet, papers
<1>2. \A x \in Docs : row[x].qty \in Int
  BY RowColumns DEF TypeIInv, PapersOK
<1>3. f \in [Docs -> Int]
  BY <1>1, <1>2 DEF GrantedDays
<1>4. ASSUME NEW x \in Docs
      PROVE  f[x] <= IF x \in Rows("leave") /\ row[x].status \in Claiming THEN row[x].qty ELSE 0
  <2>1. Granted(x)' => x \in Rows("leave") /\ row[x].status \in Claiming
    BY <1>1 DEF Granted, Rows, Exists, Claiming
  <2>2. x \in Rows("leave") => row[x].qty >= 0
    BY DEF Rows, LeavesIInv
  <2>. QED  BY <1>1, <1>2, <2>1, <2>2 DEF GrantedDays
<1>5. f = [d \in Docs |-> GrantedDays(d)]'
  OBVIOUS
<1> HIDE DEF f
<1>6. Total(f) <= Days(Claiming) /\ Total(f) \in Int
  BY <1>3, <1>4, ClaimedFits, TotalIsInt, BooksAssumption DEF BooksAssumption
<1>7. Days(Claiming) \in Int /\ LeaveDays \in Int
  BY DaysType, BooksAssumption DEF TypeIInv, BooksAssumption
<1>8. Total([d \in Docs |-> GrantedDays(d)]') <= LeaveDays
  BY <1>5, <1>6, <1>7
<1>. QED  BY <1>1, <1>8 DEF LeavesIInv, LeavePlan

LEMMA ReadsAre ==
  ASSUME TypeIInv, NEW u \in Users, NEW d \in Docs, NEW op, op \notin {"idle"}, NEW want, NEW take, NEW w,
         Reads(u, op, d, want, take, w)
  PROVE  /\ Quiet /\ hand'[u].op = op /\ hand'[u].doc = d /\ hand'[u].seen = row[d] /\ hand'[u].want = want
         /\ \A v \in Users \ {u} : hand'[v] = hand[v]
<1>1. hand = [v \in Users |-> hand[v]]
  BY DEF TypeIInv, HandsOK
<1>2. PICK g : /\ g = [op |-> op, doc |-> d, seen |-> row[d], want |-> want, take |-> take, at |-> w]
               /\ hand' = [hand EXCEPT ![u] = g]
  BY DEF Reads
<1>3. hand'[u] = g /\ \A v \in Users \ {u} : hand'[v] = hand[v]
  BY <1>1, <1>2
<1>4. g.op = op /\ g.doc = d /\ g.seen = row[d] /\ g.want = want
  BY <1>2
<1>. QED  BY <1>3, <1>4 DEF Reads, Quiet

LEMMA LeavesReadsKeep ==
  ASSUME TypeIInv, TypeIInv', LeavesIInv, NEW u \in Users, NEW d \in Docs,
         CreateLeave(u, d) \/ UpdateLeaveStatus(u, d) \/ DeleteLeave(u, d) \/ PostLeaveProvision(u, d)
  PROVE  LeavesIInv'
<1>1. CASE CreateLeave(u, d)
  <2>. PICK first, days \in 1..MaxQty :
         Reads(u, "new", d, [status |-> "pending", qty |-> days, mark |-> first], <<>>, Main)
    BY <1>1 DEF CreateLeave
  <2>. PICK want : want = [status |-> "pending", qty |-> days, mark |-> first]
    OBVIOUS
  <2>1. DOMAIN want = {"status", "qty", "mark"} /\ want.status = "pending" /\ want.qty >= 0
    OBVIOUS
  <2>2. /\ Quiet /\ hand'[u].op = "new" /\ hand'[u].want = want
        /\ \A v \in Users \ {u} : hand'[v] = hand[v]
    BY ReadsAre
  <2>3. LeavePlan(hand'[u]) /\ \A x \in Docs : ~Approving(u, x)'
    BY <2>1, <2>2 DEF LeavePlan, Approving
  <2>. QED  BY <2>2, <2>3, LeavesQuietly
<1>2. CASE UpdateLeaveStatus(u, d)
  <2>. PICK s \in {"approved", "rejected", "cancelled"} :
         /\ <<row[d].status, s>> \in LeaveMoves
         /\ s = "approved" => Entitled(d)
         /\ Edits(u, d, [status |-> s])
    BY <1>2 DEF UpdateLeaveStatus
  <2>. PICK want : want = [status |-> s]
    OBVIOUS
  <2>1. DOMAIN want = {"status"} /\ want.status = s
    OBVIOUS
  <2>2. /\ Quiet /\ hand'[u].op = "write" /\ hand'[u].want = want /\ hand'[u].seen = row[d]
        /\ \A v \in Users \ {u} : hand'[v] = hand[v]
    BY ReadsAre DEF Edits
  <2>3. LeavePlan(hand'[u])
    BY <2>1, <2>2 DEF LeavePlan, LeaveMoves
  <2>4. CASE s = "approved"
    <3>1. Days(Claiming) <= LeaveDays
      BY <2>4, EntitledFits
    <3>. QED  BY <2>2, <2>3, <3>1, LeavesApproved
  <2>5. CASE s # "approved"
    <3>1. \A x \in Docs : ~Approving(u, x)'
      BY <2>1, <2>2, <2>5 DEF Approving
    <3>. QED  BY <2>2, <2>3, <3>1, LeavesQuietly
  <2>. QED  BY <2>4, <2>5
<1>3. CASE DeleteLeave(u, d)
  <2>. PICK want : want = [status |-> "gone"]
    OBVIOUS
  <2>1. DOMAIN want = {"status"} /\ want.status = "gone"
    OBVIOUS
  <2>2. /\ Quiet /\ hand'[u].op = "write" /\ hand'[u].want = want
        /\ \A v \in Users \ {u} : hand'[v] = hand[v]
    BY <1>3, ReadsAre DEF DeleteLeave, Deletes, Edits
  <2>3. LeavePlan(hand'[u]) /\ \A x \in Docs : ~Approving(u, x)'
    BY <2>1, <2>2 DEF LeavePlan, Approving
  <2>. QED  BY <2>2, <2>3, LeavesQuietly
<1>4. CASE PostLeaveProvision(u, d)
  <2>1. /\ Quiet /\ hand'[u].op = "new" /\ hand'[u].seen = row[d]
        /\ \A v \in Users \ {u} : hand'[v] = hand[v]
    BY <1>4, ReadsAre DEF PostLeaveProvision
  <2>2. LeavePlan(hand'[u]) /\ \A x \in Docs : ~Approving(u, x)'
    BY <1>4, <2>1 DEF LeavePlan, Approving, PostLeaveProvision
  <2>. QED  BY <2>1, <2>2, LeavesQuietly
<1>. QED  BY <1>1, <1>2, <1>3, <1>4

LEMMA InsertLeaveKeeps ==
  ASSUME TypeIInv, TypeIInv', Facts, LeavesIInv, KindsStay, disturbed \subseteq disturbed',
         NEW u \in Users, InsertLeave(u)
  PROVE  LeavesIInv'
<1>. PICK d : d = hand[u].doc
  OBVIOUS
<1>. PICK h : h = hand[u]
  OBVIOUS
<1>1. At(u, "new", {"leave"}) /\ Ends(u) /\ Updates(d, h.want) /\ row[d].status = "none"
  BY DEF InsertLeave, Updates
<1>2. d \in Docs /\ h.seen.kind = "leave" /\ h.op = "new" /\ Columned(h.want) /\ row \in [Docs -> Row]
  BY <1>1, PlanIs DEF TypeIInv, PapersOK
<1>3. h.want.status = "pending" /\ h.want.qty >= 0 /\ DOMAIN h.want = {"status", "qty", "mark"}
  BY <1>2 DEF LeavesIInv, LeavePlan
<1>4. row'[d].qty >= 0 /\ row'[d].status = "pending" /\ \A x \in Docs \ {d} : row'[x] = row[x]
  <2>1. Changes(d, Columns) /\ Wrote(row'[d], row[d], h.want) /\ row'[d].status = "pending"
    BY <1>1, <1>2, <1>3, UpdatesDoes
  <2>. QED  BY <1>2, <1>3, <2>1, ChangesType DEF Wrote
<1>5. \A v \in Users : hand'[v] = hand[v] \/ hand'[v] = Idle
  BY <1>1, EndsQuietly DEF TypeIInv, HandsOK
<1>6. \A x \in Docs, v \in Users : Approving(v, x)' => Approving(v, x) /\ row[x].status # "none"
  <2>1. \A v \in Users : PlanOK(hand[v])
    BY DEF Facts, PlansOK
  <2>. QED  BY <1>5, <2>1 DEF Approving, Idle, PlanOK, Begun
<1>7. ASSUME NEW x \in Docs, row[x].kind = "leave"
      PROVE  row'[x].qty >= 0 /\ (Granted(x)' => Granted(x) /\ row'[x].qty = row[x].qty)
  <2>1. CASE x = d
    BY <1>1, <1>4, <1>6, <2>1 DEF Granted
  <2>2. CASE x # d
    BY <1>4, <1>6, <1>7, <2>2 DEF Granted, LeavesIInv
  <2>. QED  BY <2>1, <2>2
<1>8. \A v \in Users : hand'[v] = hand[v] \/ \A g \in {hand'[v]} : LeavePlan(g)
  BY <1>5 DEF LeavePlan, Idle
<1>. QED  BY <1>7, <1>8, LeavesKeep

LEMMA WriteKeepsLeaves ==
  ASSUME TypeIInv, TypeIInv', Facts, LeavesIInv, KindsStay, disturbed \subseteq disturbed',
         NEW u \in Users, Write(u)
  PROVE  LeavesIInv'
<1>. PICK d : d = hand[u].doc
  OBVIOUS
<1>. PICK h : h = hand[u]
  OBVIOUS
<1>1. At(u, "write", Kinds)
  BY DEF Write, At, TypeIInv, HandsOK, PlanOf, Row
<1>2. d \in Docs /\ row[d].kind = h.seen.kind /\ h.op = "write" /\ h.doc = d /\ Columned(h.want) /\ row \in [Docs -> Row]
  BY <1>1, PlanIs DEF TypeIInv, PapersOK
<1>3. hand' = [hand EXCEPT ![u] = Idle] /\ (row[d] # h.seen => d \in disturbed')
  BY EndsMarks DEF Write
<1>4. \A v \in Users : hand'[v] = hand[v] \/ hand'[v] = Idle
  BY <1>3 DEF TypeIInv, HandsOK
<1>5. \A x \in Docs, v \in Users : Approving(v, x)' => Approving(v, x)
  BY <1>4 DEF Approving, Idle
<1>6. \A x \in Docs \ {d} : row'[x] = row[x]
  BY <1>2 DEF Write
<1>7. row[d].kind = "leave" =>
        /\ row'[d].qty = row[d].qty
        /\ row'[d] = row[d] \/ (row'[d].status # "pending" /\ (row'[d].status = "approved" => SomeLeave' \/ Granted(d)))
  <2>. SUFFICES ASSUME row[d].kind = "leave", Exists(d)
       PROVE  /\ row'[d].qty = row[d].qty /\ row'[d].status # "pending"
              /\ row'[d].status = "approved" => SomeLeave' \/ Granted(d)
    BY DEF Write
  <2>1. Updates(d, h.want)
    BY DEF Write, Updates
  <2>2. /\ DOMAIN h.want = {"status"} /\ h.want.status # "pending"
        /\ h.want.status = "approved" => h.seen.status = "pending"
    BY <1>2 DEF LeavesIInv, LeavePlan
  <2>3. row'[d].qty = row[d].qty /\ row'[d].status = h.want.status
    BY <1>2, <2>1, <2>2, UpdatesDoes DEF Wrote
  <2>4. d \in disturbed' => SomeLeave'
    BY <1>2 DEF SomeLeave, KindsStay
  <2>5. row[d] = h.seen /\ h.want.status = "approved" => Granted(d)
    BY <1>2, <2>2 DEF Granted, Approving
  <2>. QED  BY <1>3, <2>2, <2>3, <2>4, <2>5
<1>8. ASSUME NEW x \in Docs, row[x].kind = "leave"
      PROVE  row'[x].qty >= 0 /\ (Granted(x)' => SomeLeave' \/ (Granted(x) /\ row'[x].qty = row[x].qty))
  <2>1. row[x].qty >= 0
    BY <1>8 DEF LeavesIInv
  <2>2. CASE row'[x] = row[x]
    BY <1>5, <2>1, <2>2 DEF Granted
  <2>3. CASE row'[x] # row[x]
    BY <1>6, <1>7, <1>8, <2>1, <2>3 DEF Granted
  <2>. QED  BY <2>2, <2>3
<1>9. \A v \in Users : hand'[v] = hand[v] \/ \A g \in {hand'[v]} : LeavePlan(g)
  BY <1>4 DEF LeavePlan, Idle
<1>. QED  BY <1>8, <1>9, LeavesKeep

LEMMA LeavesStepKeeps ==
  ASSUME TypeIInv, TypeIInv', Facts, LeavesIInv, KindsStay, disturbed \subseteq disturbed', LeavesStep
  PROVE  LeavesIInv'
<1>1. ASSUME NEW u \in Users, CommitProvision(u)  PROVE LeavesIInv'
  <2>. PICK d : d = hand[u].doc
    OBVIOUS
  <2>1. At(u, "new", {"provision"}) /\ Ends(u)
    BY <1>1 DEF CommitProvision
  <2>2. d \in Docs /\ row[d].kind \in {"provision"}
    BY <2>1, AtIs
  <2>3. Changes(d, StatusQty)
    BY <1>1, CommitProvisionDoes
  <2>4. Kept({"provision"})
    BY <2>1, <2>2, <2>3, KeptEnds
  <2>. QED  BY <2>4, OthersLeaves
<1>. QED  BY <1>1, LeavesReadsKeep, InsertLeaveKeeps DEF LeavesStep

LEMMA LeavesGoOn ==
  ASSUME TypeIInv, TypeIInv', Facts, LeavesIInv, [Next]_books
  PROVE  LeavesIInv'
<1>. KindsStay /\ disturbed \subseteq disturbed'
  BY StepGoesOn
<1>. DEFINE Elsewhere == {AboutSales, AboutPurchases, AboutVouchers, AboutInventory, AboutOrders, AboutAssets,
                          AboutTill, AboutConversion, AboutPeriods, AboutJournals, AboutPayroll}
<1>1. ASSUME NEW K \in Elsewhere, Kept(K)  PROVE LeavesIInv'
  <2>1. "leave" \notin K
    BY DEF AboutSales, AboutPurchases, AboutVouchers, AboutInventory, AboutOrders, AboutAssets, AboutTill,
           AboutConversion, AboutPeriods, AboutJournals, AboutPayroll, Invoices, Bills, Slips, Deals, Offers
  <2>. QED  BY <1>1, <2>1, OthersLeaves
<1>2. CASE SalesStep \/ PurchasesStep \/ VouchersStep \/ InventoryStep
  BY <1>1, <1>2, SalesKept, PurchasesKept, VouchersKept, InventoryKept
<1>3. CASE ManufacturingStep \/ TillStep \/ ConversionStep \/ PeriodsStep
  BY <1>1, <1>3, ManufacturingKept, TillKept, ConversionKept, PeriodsKept
<1>4. CASE JournalsStep \/ PayrollStep \/ AssetsStep
  BY <1>1, <1>4, JournalsKept, PayrollKept, AssetsKept
<1>5. CASE LeavesStep
  BY <1>5, LeavesStepKeeps
<1>6. CASE BooksStep
  <2>1. ASSUME NEW u \in Users, Fails(u)  PROVE LeavesIInv'
    <3>1. Quiet /\ hand' = [hand EXCEPT ![u] = Idle]
      BY <2>1, FailsType DEF Fails
    <3>2. \A v \in Users : hand'[v] = hand[v] \/ hand'[v] = Idle
      BY <3>1 DEF TypeIInv, HandsOK
    <3>3. LeavePlan(Idle) /\ Idle.op = "idle"
      BY DEF LeavePlan, Idle
    <3>. QED  BY <3>1, <3>2, <3>3, LeavesQuietly DEF Approving
  <2>. QED  BY <1>6, <2>1, WriteKeepsLeaves DEF BooksStep
<1>7. CASE UNCHANGED books
  BY <1>7, LeavesQuietly DEF Quiet, books, papers, work
<1>. QED  BY <1>2, <1>3, <1>4, <1>5, <1>6, <1>7 DEF Next

LEMMA TotalNothing ==
  ASSUME NEW S, IsFiniteSet(S), NEW g \in [S -> Int], \A x \in S : g[x] = 0
  PROVE  Total(g) = 0
<1>1. DOMAIN g = S /\ {} \in SUBSET S /\ S \in SUBSET S
  OBVIOUS
<1>2. PICK i : Runs(g, S, i) /\ Total(g) = i[S]
  BY <1>1, TotalRuns, RunsExists
<1>3. i[S] = i[{}]
  BY <1>1, <1>2, RunsPart
<1>. QED  BY <1>1, <1>2, <1>3 DEF Runs

LEMMA NothingGranted ==
  ASSUME \A d \in Docs : row[d].status \notin Claiming /\ row[d].qty = 0, \A u \in Users : hand[u] = Idle
  PROVE  LeavesIInv
<1>1. \A d \in Docs : row[d].kind = "leave" => row[d].qty >= 0
  OBVIOUS
<1>2. LeavePlan(Idle)
  BY DEF LeavePlan, Idle
<1>3. \A d \in Docs : GrantedDays(d) = 0
  BY DEF GrantedDays, Granted, Claiming
<1>4. Total([d \in Docs |-> GrantedDays(d)]) = 0
  BY <1>3, TotalNothing, BooksAssumption DEF BooksAssumption
<1>5. 0 <= LeaveDays
  BY BooksAssumption DEF BooksAssumption
<1>. QED  BY <1>1, <1>2, <1>4, <1>5 DEF LeavesIInv

LEMMA InitLeaves == Init => LeavesIInv
<1>. SUFFICES ASSUME Init  PROVE LeavesIInv
  OBVIOUS
<1>1. PICK mix \in Mixes, before \in {"none", "closed"} :
       row = [d \in Docs |-> [Blank(mix[d]) EXCEPT !.status = IF mix[d] = "year" THEN before ELSE @]]
  BY DEF Init, BooksInit
<1>2. \A d \in Docs : row[d].status \notin Claiming /\ row[d].qty = 0
  BY <1>1 DEF Blank, Claiming
<1>3. \A u \in Users : hand[u] = Idle
  BY DEF Init, BooksInit
<1>. QED  BY <1>2, <1>3, NothingGranted

(* No approval takes an employee's leaves over the entitlement, however    *)
(* many sessions request, decide and delete leaves at once, unless a leave *)
(* was decided on by somebody else after the balance was read: the balance *)
(* that updateLeaveRequestStatus (hr/api.ts) asks counts the pending       *)
(* leaves too, so two approvals of different leaves cannot both succeed on *)
(* the same days.                                                          *)
THEOREM LeavesStayWithinEntitlement == Spec => []LeavesWithinEntitlement
<1>1. Init => TypeIInv /\ Facts /\ LeavesIInv
  BY InitType, InitFacts, InitLeaves
<1>2. TypeIInv /\ Facts /\ LeavesIInv /\ [Next]_books => (TypeIInv /\ Facts /\ LeavesIInv)'
  <2>. SUFFICES ASSUME TypeIInv, Facts, LeavesIInv, [Next]_books  PROVE TypeIInv' /\ Facts' /\ LeavesIInv'
    OBVIOUS
  <2>1. TypeIInv' /\ Facts'
    BY TypeStep, FactsStep
  <2>. QED  BY <2>1, LeavesGoOn
<1>3. TypeIInv /\ LeavesIInv => LeavesWithinEntitlement
  BY LeavesSay
<1>. QED  BY <1>1, <1>2, <1>3, PTL DEF Spec

-----------------------------------------------------------------------------
(* One session at a time.  A plan is about the rows as they are, so what   *)
(* its reads asked still holds when it is carried out.                     *)

(* There is one session, or none.                                          *)
Alone == \A u, v \in Users : u = v

(* Which plans end in an entry under the document's number, and which in   *)
(* a reversal or a disposal.                                               *)
Entering(h) ==
  \/ h.op = "post" /\ h.seen.kind \notin {"transfer", "leave", "half", "year", "shift", "provision"}
  \/ h.op = "new" /\ h.seen.kind \in Slips \cup {"ticket", "provision", "asset"}
  \/ h.op = "complete" /\ h.seen.kind \in {"workOrder", "endOfService"}
  \/ h.op = "cancel" /\ h.seen.kind = "workOrder"
  \/ h.op = "charge" /\ h.seen.kind = "asset"
  \/ h.op = "entry" /\ h.seen.kind = "shift"
Undoing(h) == h.op \in {"reverse", "dispose"}

(* An entry, or a reversal, is the end of somebody's plan, one at a time.  *)
Tally ==
  \A d \in Docs :
    /\ entries'[d] = entries[d]
       \/ (entries'[d] = entries[d] + 1
           /\ \E u \in Users : hand[u].doc = d /\ Entering(hand[u]) /\ hand'[u].op = "idle")
    /\ reversed'[d] = reversed[d]
       \/ (reversed'[d] = reversed[d] + 1
           /\ \E u \in Users : hand[u].doc = d /\ Undoing(hand[u]) /\ hand'[u].op = "idle")

LEMMA TallyStays == ASSUME entries' = entries, reversed' = reversed  PROVE Tally
BY DEF Tally

LEMMA TallyEnters ==
  ASSUME TypeIInv, NEW u \in Users, hand[u].doc \in Docs, Entering(hand[u]), hand' = [hand EXCEPT ![u] = Idle],
         entries' = entries \/ entries' = [entries EXCEPT ![hand[u].doc] = @ + 1], reversed' = reversed
  PROVE  Tally
<1>1. hand'[u].op = "idle"
  BY DEF TypeIInv, HandsOK, Idle
<1>2. \A d \in Docs : entries'[d] = entries[d] \/ (d = hand[u].doc /\ entries'[d] = entries[d] + 1)
  BY DEF TypeIInv, PapersOK
<1>. QED  BY <1>1, <1>2 DEF Tally

LEMMA TallyUndoes ==
  ASSUME TypeIInv, NEW u \in Users, hand[u].doc \in Docs, Undoing(hand[u]), hand' = [hand EXCEPT ![u] = Idle],
         reversed' = [reversed EXCEPT ![hand[u].doc] = @ + 1], entries' = entries
  PROVE  Tally
<1>1. hand'[u].op = "idle"
  BY DEF TypeIInv, HandsOK, Idle
<1>2. \A d \in Docs : reversed'[d] = reversed[d] \/ (d = hand[u].doc /\ reversed'[d] = reversed[d] + 1)
  BY DEF TypeIInv, PapersOK
<1>. QED  BY <1>1, <1>2 DEF Tally

LEMMA SalesTally == ASSUME TypeIInv, SalesStep  PROVE Tally
<1>1. ASSUME NEW d \in Docs, CreateInvoice(d) \/ CreateReturn(d)  PROVE Tally
  BY <1>1, TallyStays DEF Creates, CreateInvoice, CreateReturn
<1>2. ASSUME NEW u \in Users, NEW d \in Docs,
       UpdateInvoice(u, d) \/ DeleteInvoice(u, d) \/ PostInvoice(u, d) \/ UpdateReturn(u, d) \/ DeleteReturn(u, d) \/ PostReturn(u, d) \/ ReverseInvoice(u, d)
      PROVE  Tally
  BY <1>2, SalesReads, TallyStays DEF Quiet, papers
<1>3. ASSUME NEW u \in Users, CreateReversal(u)  PROVE Tally
  BY <1>3, TallyStays DEF CreateReversal, papers
<1>4. ASSUME NEW u \in Users, CommitInvoice(u)  PROVE Tally
  <2>1. At(u, "post", Invoices)
    BY <1>4 DEF CommitInvoice
  <2>2. hand[u].doc \in Docs /\ hand' = [hand EXCEPT ![u] = Idle] /\ reversed' = reversed
    BY <1>4, <2>1, AtIs DEF CommitInvoice, Ends, EndsWith, Journal
  <2>3. entries' = entries \/ entries' = [entries EXCEPT ![hand[u].doc] = @ + 1]
    BY <1>4 DEF CommitInvoice, Journal
  <2>4. Entering(hand[u])
    BY <2>1 DEF At, Entering, Invoices, Bills, Slips
  <2>. QED  BY <2>2, <2>3, <2>4, TallyEnters
<1>5. ASSUME NEW u \in Users, CommitReturn(u)  PROVE Tally
  <2>1. At(u, "post", {"saleReturn"})
    BY <1>5 DEF CommitReturn
  <2>2. hand[u].doc \in Docs /\ hand' = [hand EXCEPT ![u] = Idle] /\ reversed' = reversed
    BY <1>5, <2>1, AtIs DEF CommitReturn, Ends, EndsWith, Journal
  <2>3. entries' = entries \/ entries' = [entries EXCEPT ![hand[u].doc] = @ + 1]
    BY <1>5 DEF CommitReturn, Journal
  <2>4. Entering(hand[u])
    BY <2>1 DEF At, Entering, Invoices, Bills, Slips
  <2>. QED  BY <2>2, <2>3, <2>4, TallyEnters
<1>. QED  BY <1>1, <1>2, <1>3, <1>4, <1>5 DEF SalesStep

LEMMA PurchasesTally == ASSUME TypeIInv, PurchasesStep  PROVE Tally
<1>1. ASSUME NEW d \in Docs, CreateBill(d) \/ CreateBillReturn(d)  PROVE Tally
  BY <1>1, TallyStays DEF Creates, CreateBill, CreateBillReturn
<1>2. ASSUME NEW u \in Users, NEW d \in Docs,
       UpdateBill(u, d) \/ DeleteBill(u, d) \/ PostBill(u, d) \/ UpdateBillReturn(u, d) \/ DeleteBillReturn(u, d) \/ PostBillReturn(u, d) \/ ReverseBill(u, d)
      PROVE  Tally
  BY <1>2, PurchasesReads, TallyStays DEF Quiet, papers
<1>3. ASSUME NEW u \in Users, CreateBillReversal(u)  PROVE Tally
  BY <1>3, TallyStays DEF CreateBillReversal, papers
<1>4. ASSUME NEW u \in Users, CommitBill(u)  PROVE Tally
  <2>1. At(u, "post", Bills)
    BY <1>4 DEF CommitBill
  <2>2. hand[u].doc \in Docs /\ hand' = [hand EXCEPT ![u] = Idle] /\ reversed' = reversed
    BY <1>4, <2>1, AtIs DEF CommitBill, Ends, EndsWith, Journal
  <2>3. entries' = entries \/ entries' = [entries EXCEPT ![hand[u].doc] = @ + 1]
    BY <1>4 DEF CommitBill, Journal
  <2>4. Entering(hand[u])
    BY <2>1 DEF At, Entering, Invoices, Bills, Slips
  <2>. QED  BY <2>2, <2>3, <2>4, TallyEnters
<1>5. ASSUME NEW u \in Users, CommitBillReturn(u)  PROVE Tally
  <2>1. At(u, "post", {"purchaseReturn"})
    BY <1>5 DEF CommitBillReturn
  <2>2. hand[u].doc \in Docs /\ hand' = [hand EXCEPT ![u] = Idle] /\ reversed' = reversed
    BY <1>5, <2>1, AtIs DEF CommitBillReturn, Ends, EndsWith, Journal
  <2>3. entries' = entries \/ entries' = [entries EXCEPT ![hand[u].doc] = @ + 1]
    BY <1>5 DEF CommitBillReturn, Journal
  <2>4. Entering(hand[u])
    BY <2>1 DEF At, Entering, Invoices, Bills, Slips
  <2>. QED  BY <2>2, <2>3, <2>4, TallyEnters
<1>. QED  BY <1>1, <1>2, <1>3, <1>4, <1>5 DEF PurchasesStep

LEMMA InventoryTally == ASSUME TypeIInv, InventoryStep  PROVE Tally
<1>1. ASSUME NEW d \in Docs, CreateAdjustment(d)  PROVE Tally
  BY <1>1, TallyStays DEF Creates, CreateAdjustment
<1>2. ASSUME NEW u \in Users, NEW d \in Docs,
       CompleteTransfer(u, d) \/ UpdateAdjustment(u, d) \/ DeleteAdjustment(u, d) \/ PostAdjustment(u, d)
      PROVE  Tally
  BY <1>2, InventoryReads, TallyStays DEF Quiet, papers
<1>3. ASSUME NEW d \in Docs, ApproveAdjustment(d)  PROVE Tally
  BY <1>3, TallyStays DEF ApproveAdjustment
<1>4. ASSUME NEW u \in Users, NEW d \in Docs, CreateTransfer(u, d)  PROVE Tally
  BY <1>4, TallyStays DEF CreateTransfer
<1>5. ASSUME NEW u \in Users, NEW d \in Docs, DeleteTransfer(u, d)  PROVE Tally
  BY <1>5, TallyStays DEF DeleteTransfer
<1>6. ASSUME NEW u \in Users, CheckFloor(u)  PROVE Tally
  BY <1>6, TallyStays DEF CheckFloor, papers
<1>7. ASSUME NEW u \in Users, CommitTransfer(u)  PROVE Tally
  BY <1>7, TallyStays DEF CommitTransfer, papers
<1>8. ASSUME NEW u \in Users, CommitAdjustment(u)  PROVE Tally
  <2>1. At(u, "post", {"adjustment"})
    BY <1>8 DEF CommitAdjustment
  <2>2. hand[u].doc \in Docs /\ hand' = [hand EXCEPT ![u] = Idle] /\ reversed' = reversed
    BY <1>8, <2>1, AtIs DEF CommitAdjustment, Ends, EndsWith, Journal
  <2>3. entries' = entries \/ entries' = [entries EXCEPT ![hand[u].doc] = @ + 1]
    BY <1>8 DEF CommitAdjustment, Journal
  <2>4. Entering(hand[u])
    BY <2>1 DEF At, Entering, Invoices, Bills, Slips
  <2>. QED  BY <2>2, <2>3, <2>4, TallyEnters
<1>. QED  BY <1>1, <1>2, <1>3, <1>4, <1>5, <1>6, <1>7, <1>8 DEF InventoryStep

LEMMA ManufacturingTally == ASSUME TypeIInv, ManufacturingStep  PROVE Tally
<1>1. ASSUME NEW d \in Docs, CreateWorkOrder(d)  PROVE Tally
  BY <1>1, TallyStays DEF Creates, CreateWorkOrder
<1>2. ASSUME NEW u \in Users, NEW d \in Docs,
       UpdateWorkOrder(u, d) \/ DeleteWorkOrder(u, d) \/ UpdateConsumption(u, d) \/ StartWorkOrder(u, d) \/ CompleteWorkOrder(u, d) \/ CancelWorkOrder(u, d)
      PROVE  Tally
  BY <1>2, ManufacturingReads, TallyStays DEF Quiet, papers
<1>3. ASSUME NEW d \in Docs, ReopenWorkOrder(d)  PROVE Tally
  BY <1>3, TallyStays DEF ReopenWorkOrder
<1>4. ASSUME NEW u \in Users, CommitStart(u)  PROVE Tally
  <2>1. At(u, "post", {"workOrder"})
    BY <1>4 DEF CommitStart
  <2>2. hand[u].doc \in Docs /\ hand' = [hand EXCEPT ![u] = Idle] /\ reversed' = reversed
    BY <1>4, <2>1, AtIs DEF CommitStart, Ends, EndsWith, Journal
  <2>3. entries' = entries \/ entries' = [entries EXCEPT ![hand[u].doc] = @ + 1]
    BY <1>4 DEF CommitStart, Journal
  <2>4. Entering(hand[u])
    BY <2>1 DEF At, Entering, Invoices, Bills, Slips
  <2>. QED  BY <2>2, <2>3, <2>4, TallyEnters
<1>5. ASSUME NEW u \in Users, CommitComplete(u)  PROVE Tally
  <2>1. At(u, "complete", {"workOrder"})
    BY <1>5 DEF CommitComplete
  <2>0. hand[u].doc \in Docs
    BY <2>1, AtIs
  <2>2. hand[u].doc \in Docs /\ hand' = [hand EXCEPT ![u] = Idle] /\ reversed' = reversed
    BY <1>5, <2>0 DEF CommitComplete, Ends, EndsWith, Journal
  <2>3. entries' = entries \/ entries' = [entries EXCEPT ![hand[u].doc] = @ + 1]
    BY <1>5 DEF CommitComplete, Journal
  <2>4. Entering(hand[u])
    BY <2>1 DEF At, Entering, Invoices, Bills, Slips
  <2>. QED  BY <2>2, <2>3, <2>4, TallyEnters
<1>6. ASSUME NEW u \in Users, CommitCancel(u)  PROVE Tally
  <2>1. At(u, "cancel", {"workOrder"})
    BY <1>6 DEF CommitCancel
  <2>2. hand[u].doc \in Docs /\ hand' = [hand EXCEPT ![u] = Idle] /\ reversed' = reversed
    BY <1>6, <2>1, AtIs DEF CommitCancel, Ends, EndsWith, Journal
  <2>3. entries' = entries \/ entries' = [entries EXCEPT ![hand[u].doc] = @ + 1]
    BY <1>6 DEF CommitCancel, Journal
  <2>4. Entering(hand[u])
    BY <2>1 DEF At, Entering, Invoices, Bills, Slips
  <2>. QED  BY <2>2, <2>3, <2>4, TallyEnters
<1>. QED  BY <1>1, <1>2, <1>3, <1>4, <1>5, <1>6 DEF ManufacturingStep

LEMMA TillTally == ASSUME TypeIInv, TillStep  PROVE Tally
<1>1. ASSUME NEW d \in Docs, OpenShift(d)  PROVE Tally
  BY <1>1, TallyStays DEF Creates, OpenShift
<1>2. ASSUME NEW u \in Users, NEW d \in Docs,
       Checkout(u, d) \/ CloseShift(u, d) \/ HealShift(u, d)
      PROVE  Tally
  BY <1>2, TillReads, TallyStays DEF Quiet, papers
<1>3. ASSUME NEW u \in Users, CommitClose(u)  PROVE Tally
  BY <1>3, TallyStays DEF CommitClose, papers
<1>4. ASSUME NEW u \in Users, LookUpDifference(u)  PROVE Tally
  BY <1>4, TallyStays DEF LookUpDifference, papers
<1>5. ASSUME NEW u \in Users, CommitCheckout(u)  PROVE Tally
  <2>1. At(u, "new", {"ticket"})
    BY <1>5 DEF CommitCheckout
  <2>2. hand[u].doc \in Docs /\ hand' = [hand EXCEPT ![u] = Idle] /\ reversed' = reversed
    BY <1>5, <2>1, AtIs DEF CommitCheckout, Ends, EndsWith, Journal
  <2>3. entries' = entries \/ entries' = [entries EXCEPT ![hand[u].doc] = @ + 1]
    BY <1>5 DEF CommitCheckout, Journal
  <2>4. Entering(hand[u])
    BY <2>1 DEF At, Entering, Invoices, Bills, Slips
  <2>. QED  BY <2>2, <2>3, <2>4, TallyEnters
<1>6. ASSUME NEW u \in Users, BookDifference(u)  PROVE Tally
  <2>1. At(u, "entry", {"shift"})
    BY <1>6 DEF BookDifference
  <2>2. hand[u].doc \in Docs /\ hand' = [hand EXCEPT ![u] = Idle] /\ reversed' = reversed
    BY <1>6, <2>1, AtIs DEF BookDifference, Ends, EndsWith, Journal
  <2>3. entries' = entries \/ entries' = [entries EXCEPT ![hand[u].doc] = @ + 1]
    BY <1>6 DEF BookDifference, Journal
  <2>4. Entering(hand[u])
    BY <2>1 DEF At, Entering, Invoices, Bills, Slips
  <2>. QED  BY <2>2, <2>3, <2>4, TallyEnters
<1>. QED  BY <1>1, <1>2, <1>3, <1>4, <1>5, <1>6 DEF TillStep

LEMMA PayrollTally == ASSUME TypeIInv, PayrollStep  PROVE Tally
<1>1. ASSUME NEW d \in Docs, CreatePayrollRun(d) \/ CreateEndOfService(d)  PROVE Tally
  BY <1>1, TallyStays DEF Creates, CreatePayrollRun, CreateEndOfService
<1>2. ASSUME NEW u \in Users, NEW d \in Docs,
       DeletePayrollRun(u, d) \/ PostPayrollRun(u, d) \/ ApproveEndOfService(u, d) \/ CancelEndOfService(u, d) \/ PayEndOfService(u, d) \/ DeleteEndOfService(u, d)
      PROVE  Tally
  BY <1>2, PayrollReads, TallyStays DEF Quiet, papers
<1>3. ASSUME NEW u \in Users, CommitPayrollRun(u)  PROVE Tally
  <2>1. At(u, "post", {"payroll"})
    BY <1>3 DEF CommitPayrollRun
  <2>2. hand[u].doc \in Docs /\ hand' = [hand EXCEPT ![u] = Idle] /\ reversed' = reversed
    BY <1>3, <2>1, AtIs DEF CommitPayrollRun, Ends, EndsWith, Journal
  <2>3. entries' = entries \/ entries' = [entries EXCEPT ![hand[u].doc] = @ + 1]
    BY <1>3 DEF CommitPayrollRun, Journal
  <2>4. Entering(hand[u])
    BY <2>1 DEF At, Entering, Invoices, Bills, Slips
  <2>. QED  BY <2>2, <2>3, <2>4, TallyEnters
<1>4. ASSUME NEW u \in Users, CommitApproval(u)  PROVE Tally
  <2>1. At(u, "post", {"endOfService"})
    BY <1>4 DEF CommitApproval
  <2>2. hand[u].doc \in Docs /\ hand' = [hand EXCEPT ![u] = Idle] /\ reversed' = reversed
    BY <1>4, <2>1, AtIs DEF CommitApproval, Ends, EndsWith, Journal
  <2>3. entries' = entries \/ entries' = [entries EXCEPT ![hand[u].doc] = @ + 1]
    BY <1>4 DEF CommitApproval, Journal
  <2>4. Entering(hand[u])
    BY <2>1 DEF At, Entering, Invoices, Bills, Slips
  <2>. QED  BY <2>2, <2>3, <2>4, TallyEnters
<1>5. ASSUME NEW u \in Users, CommitSettlement(u)  PROVE Tally
  <2>1. At(u, "complete", {"endOfService"})
    BY <1>5 DEF CommitSettlement
  <2>2. hand[u].doc \in Docs /\ hand' = [hand EXCEPT ![u] = Idle] /\ reversed' = reversed
    BY <1>5, <2>1, AtIs DEF CommitSettlement, Ends, EndsWith, Journal
  <2>3. entries' = entries \/ entries' = [entries EXCEPT ![hand[u].doc] = @ + 1]
    BY <1>5 DEF CommitSettlement, Journal
  <2>4. Entering(hand[u])
    BY <2>1 DEF At, Entering, Invoices, Bills, Slips
  <2>. QED  BY <2>2, <2>3, <2>4, TallyEnters
<1>. QED  BY <1>1, <1>2, <1>3, <1>4, <1>5 DEF PayrollStep

LEMMA LeavesTally == ASSUME TypeIInv, LeavesStep  PROVE Tally
<1>1. ASSUME NEW u \in Users, NEW d \in Docs,
       CreateLeave(u, d) \/ UpdateLeaveStatus(u, d) \/ DeleteLeave(u, d) \/ PostLeaveProvision(u, d)
      PROVE  Tally
  BY <1>1, LeavesReads, TallyStays DEF Quiet, papers
<1>2. ASSUME NEW u \in Users, InsertLeave(u)  PROVE Tally
  BY <1>2, TallyStays DEF InsertLeave, papers
<1>3. ASSUME NEW u \in Users, CommitProvision(u)  PROVE Tally
  <2>1. At(u, "new", {"provision"})
    BY <1>3 DEF CommitProvision
  <2>2. hand[u].doc \in Docs /\ hand' = [hand EXCEPT ![u] = Idle] /\ reversed' = reversed
    BY <1>3, <2>1, AtIs DEF CommitProvision, Ends, EndsWith, Journal
  <2>3. entries' = entries \/ entries' = [entries EXCEPT ![hand[u].doc] = @ + 1]
    BY <1>3 DEF CommitProvision, Journal
  <2>4. Entering(hand[u])
    BY <2>1 DEF At, Entering, Invoices, Bills, Slips
  <2>. QED  BY <2>2, <2>3, <2>4, TallyEnters
<1>. QED  BY <1>1, <1>2, <1>3 DEF LeavesStep

LEMMA VouchersTally == ASSUME TypeIInv, VouchersStep  PROVE Tally
<1>1. ASSUME NEW d \in Docs, CreateVoucher(d)  PROVE Tally
  BY <1>1, TallyStays DEF Creates, CreateVoucher
<1>2. ASSUME NEW u \in Users, NEW d \in Docs,
       \/ CreatePosted(u, d) \/ PostVoucher(u, d) \/ UpdateVoucher(u, d) \/ DeleteVoucher(u, d) \/ ReverseVoucher(u, d)
      PROVE  Tally
  BY <1>2, VouchersReads, TallyStays DEF Quiet, papers
<1>3. ASSUME NEW u \in Users, CommitVoucher(u) \/ CommitCreated(u)  PROVE Tally
  <2>1. At(u, "post", Slips) \/ At(u, "new", Slips)
    BY <1>3 DEF CommitVoucher, CommitCreated
  <2>2. hand[u].doc \in Docs
    BY <2>1, AtIs
  <2>3. Entering(hand[u])
    BY <2>1 DEF At, Entering, Slips
  <2>4. Booking(u)
    BY <1>3 DEF CommitVoucher, CommitCreated
  <2>5. hand' = [hand EXCEPT ![u] = Idle] /\ reversed' = reversed /\ entries' = [entries EXCEPT ![hand[u].doc] = @ + 1]
    BY <2>4 DEF Booking, EndsWith, Journal
  <2>. QED  BY <2>2, <2>3, <2>5, TallyEnters
<1>4. ASSUME NEW u \in Users, CommitReverse(u)  PROVE Tally
  <2>1. At(u, "reverse", Slips)
    BY <1>4 DEF CommitReverse
  <2>2. hand[u].doc \in Docs /\ Undoing(hand[u])
    BY <2>1, AtIs DEF Undoing
  <2>. QED  BY <1>4, <2>2, TallyUndoes DEF CommitReverse, Ends, EndsWith
<1>. QED  BY <1>1, <1>2, <1>3, <1>4 DEF VouchersStep

LEMMA ConversionTally == ASSUME TypeIInv, ConversionStep  PROVE Tally
<1>1. ASSUME NEW d \in Docs, CreateOffer(d)  PROVE Tally
  BY <1>1, TallyStays DEF Creates, CreateOffer
<1>2. ASSUME NEW u \in Users, NEW d \in Docs, UpdateOffer(u, d) \/ DeleteOffer(u, d) \/ ConvertOffer(u, d)  PROVE Tally
  BY <1>2, ConversionReads, TallyStays DEF Quiet, papers
<1>3. ASSUME NEW u \in Users,
       ClaimOffer(u) \/ NumberFails(u) \/ CreateConverted(u) \/ CreateFails(u) \/ ReleaseOffer(u) \/ ReleaseFails(u)
      PROVE  Tally
  BY <1>3, TallyStays DEF ClaimOffer, NumberFails, CreateConverted, CreateFails, ReleaseOffer, ReleaseFails, papers
<1>. QED  BY <1>1, <1>2, <1>3 DEF ConversionStep

LEMMA PeriodsTally == ASSUME TypeIInv, PeriodsStep  PROVE Tally
<1>1. ASSUME NEW d \in Docs, OpenAccountingPeriod(d) \/ GenerateSubPeriods(d) \/ OpenTaxPeriod(d)  PROVE Tally
  BY <1>1, TallyStays DEF Creates, OpenAccountingPeriod, GenerateSubPeriods, OpenTaxPeriod
<1>2. ASSUME NEW u \in Users, NEW d \in Docs,
       \/ CloseAccountingPeriod(u, d) \/ CloseFiscalYear(u, d) \/ ReopenAccountingPeriodById(u, d)
       \/ SetTaxPeriodStatus(u, d)
      PROVE  Tally
  BY <1>2, PeriodsReads, TallyStays DEF Quiet, papers
<1>3. ASSUME NEW u \in Users, CommitPeriod(u) \/ CommitFiscalYear(u) \/ CommitReopen(u)  PROVE Tally
  BY <1>3, TallyStays DEF CommitPeriod, CommitFiscalYear, CommitReopen
<1>. QED  BY <1>1, <1>2, <1>3 DEF PeriodsStep

LEMMA JournalsTally == ASSUME TypeIInv, JournalsStep  PROVE Tally
<1>1. ASSUME NEW d \in Docs, CreateTransaction(d)  PROVE Tally
  BY <1>1, TallyStays DEF Creates, CreateTransaction
<1>2. ASSUME NEW u \in Users, NEW d \in Docs,
       UpdateTransaction(u, d) \/ PostTransaction(u, d) \/ DeleteTransaction(u, d) \/ ReverseTransaction(u, d)
      PROVE  Tally
  BY <1>2, JournalsReads, TallyStays DEF Quiet, papers
<1>3. ASSUME NEW u \in Users, UpdateHeader(u) \/ DeleteLines(u) \/ InsertLines(u) \/ CommitDelete(u)  PROVE Tally
  BY <1>3, TallyStays DEF UpdateHeader, DeleteLines, InsertLines, CommitDelete, Lays
<1>4. ASSUME NEW u \in Users, CommitTransaction(u)  PROVE Tally
  <2>1. At(u, "post", {"journal"})
    BY <1>4 DEF CommitTransaction
  <2>2. hand[u].doc \in Docs /\ hand' = [hand EXCEPT ![u] = Idle] /\ reversed' = reversed
    BY <1>4, <2>1, AtIs DEF CommitTransaction, Ends, EndsWith, Journal
  <2>3. entries' = entries \/ entries' = [entries EXCEPT ![hand[u].doc] = @ + 1]
    BY <1>4 DEF CommitTransaction, Journal
  <2>4. Entering(hand[u])
    BY <2>1 DEF At, Entering
  <2>. QED  BY <2>2, <2>3, <2>4, TallyEnters
<1>5. ASSUME NEW u \in Users, CommitMirror(u)  PROVE Tally
  <2>1. At(u, "reverse", {"journal", "payroll", "provision"})
    BY <1>5 DEF CommitMirror
  <2>2. hand[u].doc \in Docs /\ Undoing(hand[u])
    BY <2>1, AtIs DEF Undoing
  <2>. QED  BY <1>5, <2>2, TallyUndoes DEF CommitMirror, Ends, EndsWith
<1>. QED  BY <1>1, <1>2, <1>3, <1>4, <1>5 DEF JournalsStep

LEMMA AssetsTally == ASSUME TypeIInv, AssetsStep  PROVE Tally
<1>1. ASSUME NEW u \in Users, NEW d \in Docs,
       \/ CreateFixedAsset(u, d) \/ UpdateFixedAsset(u, d) \/ DeleteFixedAsset(u, d)
       \/ RunDepreciation(u, d) \/ DisposeFixedAsset(u, d)
      PROVE  Tally
  BY <1>1, AssetsReads, TallyStays DEF Quiet, papers
<1>2. ASSUME NEW u \in Users, CommitAsset(u) \/ CommitDepreciation(u)  PROVE Tally
  <2>1. At(u, "new", {"asset"}) \/ At(u, "charge", {"asset"})
    BY <1>2 DEF CommitAsset, CommitDepreciation
  <2>2. hand[u].doc \in Docs
    BY <2>1, AtIs
  <2>3. Entering(hand[u])
    BY <2>1 DEF At, Entering
  <2>4. hand' = [hand EXCEPT ![u] = Idle] /\ reversed' = reversed /\ entries' = [entries EXCEPT ![hand[u].doc] = @ + 1]
    BY <1>2 DEF CommitAsset, CommitDepreciation, Ends, EndsWith
  <2>. QED  BY <2>2, <2>3, <2>4, TallyEnters
<1>3. ASSUME NEW u \in Users, CommitDisposal(u)  PROVE Tally
  <2>1. At(u, "dispose", {"asset"})
    BY <1>3 DEF CommitDisposal
  <2>2. hand[u].doc \in Docs /\ Undoing(hand[u])
    BY <2>1, AtIs DEF Undoing
  <2>. QED  BY <1>3, <2>2, TallyUndoes DEF CommitDisposal, Ends, EndsWith
<1>. QED  BY <1>1, <1>2, <1>3 DEF AssetsStep

LEMMA StepTally == ASSUME TypeIInv, [Next]_books  PROVE Tally
<1>1. ASSUME NEW u \in Users, Write(u) \/ Fails(u)  PROVE Tally
  BY <1>1, TallyStays DEF Write, Fails, papers
<1>2. CASE UNCHANGED books
  BY <1>2, TallyStays DEF books, papers
<1>3. CASE SalesStep \/ PurchasesStep \/ VouchersStep \/ InventoryStep \/ ManufacturingStep \/ TillStep
  BY <1>3, SalesTally, PurchasesTally, VouchersTally, InventoryTally, ManufacturingTally, TillTally
<1>4. CASE ConversionStep \/ PeriodsStep \/ JournalsStep \/ PayrollStep \/ LeavesStep \/ AssetsStep
  BY <1>4, ConversionTally, PeriodsTally, JournalsTally, PayrollTally, LeavesTally, AssetsTally
<1>. QED  BY <1>1, <1>2, <1>3, <1>4 DEF Next, BooksStep
-----------------------------------------------------------------------------
(* What a plan has asked: that it was not done before, that the periods    *)
(* are open, that the entry it edits is a draft.                           *)
Unasked == {"endOfService", "transfer", "leave", "half", "year"}
Asking(op, k) ==
  /\ op \in {"post", "new", "complete", "cancel", "charge", "close", "lookup", "entry"}
  /\ k \notin Unasked /\ (op = "cancel" => k = "workOrder")
AskingTax(op, k) == (op = "post" /\ k \in Taxed) \/ (op = "new" /\ k = "ticket")
Asked(op, k, d) ==
  /\ op \in {"reverse", "dispose"} => reversed[d] = 0
  /\ op = "entry" \/ (op = "new" /\ k = "provision") => entries[d] = 0
  /\ Asking(op, k) => FiscalOpen
  /\ AskingTax(op, k) => TaxOpen
  /\ k = "journal" /\ op \in {"header", "lines", "insert", "cancel"} => row[d].status = "draft"
Heeds == \A u \in Users : Asked(hand[u].op, hand[u].seen.kind, hand[u].doc)

LEMMA HeedsTurn ==
  ASSUME Alone, TypeIInv, NEW u \in Users, NEW h, Asked(h.op, h.seen.kind, h.doc)', hand' = [hand EXCEPT ![u] = h]
  PROVE  Heeds'
<1>1. hand'[u] = h /\ \A v \in Users : v = u
  BY DEF Alone, TypeIInv, HandsOK
<1>. QED  BY <1>1 DEF Heeds

LEMMA HeedsEnds ==
  ASSUME Alone, TypeIInv, NEW u \in Users, NEW h, h.op = "idle" \/ h.op = "next" \/ h.op = "write", hand' = [hand EXCEPT ![u] = h]
  PROVE  Heeds'
<1>1. Asked(h.op, h.seen.kind, h.doc)'
  BY DEF Asked, Asking, AskingTax
<1>. QED  BY <1>1, HeedsTurn

LEMMA HeedsIdle ==
  ASSUME Alone, TypeIInv, NEW u \in Users, hand' = [hand EXCEPT ![u] = Idle]
  PROVE  Heeds'
<1>. PICK h : h = Idle
  OBVIOUS
<1>1. h.op = "idle" /\ hand' = [hand EXCEPT ![u] = h]
  BY DEF Idle
<1>. QED  BY <1>1, HeedsEnds

LEMMA HeedsReads ==
  ASSUME Alone, TypeIInv, NEW u \in Users, NEW d \in Docs, NEW op, op # "idle", NEW want, NEW take, NEW w,
         Asked(op, row[d].kind, d), Reads(u, op, d, want, take, w)
  PROVE  Heeds'
<1>1. /\ Quiet /\ hand'[u].op = op /\ hand'[u].doc = d /\ hand'[u].seen = row[d]
  BY ReadsAre
<1>2. \A v \in Users : v = u
  BY DEF Alone
<1>3. UNCHANGED <<row, entries, reversed>>
  BY <1>1 DEF Quiet, papers
<1>. QED  BY <1>1, <1>2, <1>3 DEF Heeds, Asked, FiscalOpen, TaxOpen, Rows, Exists

LEMMA HeedsEdits ==
  ASSUME Alone, TypeIInv, NEW u \in Users, NEW d \in Docs, NEW want, Edits(u, d, want)
  PROVE  Heeds'
<1>1. Asked("write", row[d].kind, d)
  BY DEF Asked, Asking, AskingTax
<1>. QED  BY <1>1, HeedsReads DEF Edits

LEMMA HeedsDeletes ==
  ASSUME Alone, TypeIInv, NEW u \in Users, NEW d \in Docs, Deletes(u, d)
  PROVE  Heeds'
BY HeedsEdits DEF Deletes

LEMMA HeedsPosts ==
  ASSUME Alone, TypeIInv, NEW u \in Users, NEW d \in Docs, NEW take, Posts(u, d, take)
  PROVE  Heeds'
<1>1. Asked("post", row[d].kind, d)
  BY DEF Asked, Posts, PeriodOpen
<1>. QED  BY <1>1, HeedsReads DEF Posts

LEMMA HeedsKeeps ==
  ASSUME Alone, TypeIInv, NEW u \in Users, NEW d \in Docs, NEW op, op # "idle", Asked(op, row[d].kind, d), Keeps(u, op, d)
  PROVE  Heeds'
BY HeedsReads DEF Keeps

(* The periods are what they were.                                         *)
LEMMA OpenStays ==
  ASSUME KindsStay, \A x \in Docs : row[x].kind \in AboutPeriods => row'[x] = row[x]
  PROVE  FiscalOpen' = FiscalOpen /\ TaxOpen' = TaxOpen
<1>1. \A k \in AboutPeriods : Rows(k)' = Rows(k)
  BY DEF Rows, Exists, KindsStay
<1>2. Rows("half")' = Rows("half") /\ Rows("year")' = Rows("year") /\ Rows("taxPeriod")' = Rows("taxPeriod")
  BY <1>1 DEF AboutPeriods
<1>3. \A k \in AboutPeriods : \A x \in Rows(k) : row'[x] = row[x]
  BY DEF Rows
<1>4. \A x \in Rows("half") \cup Rows("year") \cup Rows("taxPeriod") : row'[x] = row[x]
  BY <1>3 DEF AboutPeriods
<1>. QED  BY <1>2, <1>4 DEF FiscalOpen, TaxOpen

(* A step of no session.                                                   *)
LEMMA HeedsRests ==
  ASSUME TypeIInv, Heeds, hand' = hand, entries' = entries, reversed' = reversed,
         FiscalOpen => FiscalOpen', TaxOpen => TaxOpen',
         \A x \in Docs : row[x].kind = "journal" /\ row[x].status = "draft" => row'[x].status = "draft"
  PROVE  Heeds'
<1>. SUFFICES ASSUME NEW u \in Users  PROVE Asked(hand[u].op, hand[u].seen.kind, hand[u].doc)'
  BY DEF Heeds
<1>1. Asked(hand[u].op, hand[u].seen.kind, hand[u].doc)
  BY DEF Heeds
<1>2. hand[u].seen.kind = "journal" /\ hand[u].op \in {"header", "lines", "insert", "cancel"} =>
        hand[u].doc \in Docs /\ row[hand[u].doc].kind = "journal"
  BY DEF TypeIInv, HandsOK, Placed
<1>. QED  BY <1>1, <1>2 DEF Asked

LEMMA HeedsSame ==
  ASSUME TypeIInv, Heeds, KindsStay, NEW K, K \cap (AboutPeriods \cup {"journal"}) = {}, Kept(K),
         hand' = hand, entries' = entries, reversed' = reversed
  PROVE  Heeds'
<1>1. \A x \in Docs : row[x].kind \in AboutPeriods \cup {"journal"} => row'[x] = row[x]
  BY DEF Kept
<1>2. FiscalOpen' = FiscalOpen /\ TaxOpen' = TaxOpen
  BY <1>1, OpenStays
<1>. QED  BY <1>1, <1>2, HeedsRests

LEMMA HeedsCreates ==
  ASSUME TypeIInv, Heeds, KindsStay, NEW d \in Docs, NEW kinds, kinds \cap AboutPeriods = {}, NEW new, Creates(d, kinds, new)
  PROVE  Heeds'
<1>1. Kept(kinds)
  BY KeptCreates
<1>2. FiscalOpen' = FiscalOpen /\ TaxOpen' = TaxOpen
  BY <1>1, OpenStays DEF Kept
<1>3. \A x \in Docs : row[x].status # "none" => row'[x] = row[x]
  BY DEF Creates, TypeIInv, PapersOK
<1>. QED  BY <1>2, <1>3, HeedsRests DEF Creates, work

LEMMA SalesHeeds == ASSUME Alone, TypeIInv, Heeds, KindsStay, SalesStep  PROVE Heeds'
<1>1. ASSUME NEW d \in Docs, CreateInvoice(d) \/ CreateReturn(d)  PROVE Heeds'
  BY <1>1, HeedsCreates DEF CreateInvoice, CreateReturn, AboutPeriods, Invoices
<1>2. ASSUME NEW u \in Users, NEW d \in Docs,
             UpdateInvoice(u, d) \/ DeleteInvoice(u, d) \/ PostInvoice(u, d) \/ UpdateReturn(u, d) \/ DeleteReturn(u, d) \/ PostReturn(u, d) \/ ReverseInvoice(u, d)
      PROVE  Heeds'
  <2>1. CASE UpdateInvoice(u, d)
    BY <2>1, HeedsEdits DEF UpdateInvoice
  <2>2. CASE DeleteInvoice(u, d)
    BY <2>2, HeedsDeletes DEF DeleteInvoice
  <2>3. CASE PostInvoice(u, d)
    BY <2>3, HeedsPosts DEF PostInvoice
  <2>4. CASE UpdateReturn(u, d)
    BY <2>4, HeedsEdits DEF UpdateReturn
  <2>5. CASE DeleteReturn(u, d)
    BY <2>5, HeedsDeletes DEF DeleteReturn
  <2>6. CASE PostReturn(u, d)
    BY <2>6, HeedsPosts DEF PostReturn
  <2>7. CASE ReverseInvoice(u, d)
    BY <2>7, HeedsReads DEF ReverseInvoice, Asked, Asking, AskingTax, PeriodOpen, Taxed, Unasked, Invoices, Bills, Slips
  <2>. QED  BY <1>2, <2>1, <2>2, <2>3, <2>4, <2>5, <2>6, <2>7
<1>3. ASSUME NEW u \in Users, CommitInvoice(u)  PROVE Heeds'
  BY <1>3, HeedsIdle DEF CommitInvoice, Ends, EndsWith
<1>4. ASSUME NEW u \in Users, CommitReturn(u)  PROVE Heeds'
  BY <1>4, HeedsIdle DEF CommitReturn, Ends, EndsWith
<1>5. ASSUME NEW u \in Users, CreateReversal(u)  PROVE Heeds'
  <2>1. PICK h : h.op = "next" /\ hand' = [hand EXCEPT ![u] = h]
    BY <1>5 DEF CreateReversal, Idle
  <2>. QED  BY <2>1, HeedsEnds
<1>. QED  BY <1>1, <1>2, <1>3, <1>4, <1>5 DEF SalesStep

LEMMA PurchasesHeeds == ASSUME Alone, TypeIInv, Heeds, KindsStay, PurchasesStep  PROVE Heeds'
<1>1. ASSUME NEW d \in Docs, CreateBill(d) \/ CreateBillReturn(d)  PROVE Heeds'
  BY <1>1, HeedsCreates DEF CreateBill, CreateBillReturn, AboutPeriods, Bills
<1>2. ASSUME NEW u \in Users, NEW d \in Docs,
             UpdateBill(u, d) \/ DeleteBill(u, d) \/ PostBill(u, d) \/ UpdateBillReturn(u, d) \/ DeleteBillReturn(u, d) \/ PostBillReturn(u, d) \/ ReverseBill(u, d)
      PROVE  Heeds'
  <2>1. CASE UpdateBill(u, d)
    BY <2>1, HeedsEdits DEF UpdateBill
  <2>2. CASE DeleteBill(u, d)
    BY <2>2, HeedsDeletes DEF DeleteBill
  <2>3. CASE PostBill(u, d)
    BY <2>3, HeedsPosts DEF PostBill
  <2>4. CASE UpdateBillReturn(u, d)
    BY <2>4, HeedsEdits DEF UpdateBillReturn
  <2>5. CASE DeleteBillReturn(u, d)
    BY <2>5, HeedsDeletes DEF DeleteBillReturn
  <2>6. CASE PostBillReturn(u, d)
    BY <2>6, HeedsPosts DEF PostBillReturn
  <2>7. CASE ReverseBill(u, d)
    BY <2>7, HeedsReads DEF ReverseBill, Asked, Asking, AskingTax, PeriodOpen, Taxed, Unasked, Invoices, Bills, Slips
  <2>. QED  BY <1>2, <2>1, <2>2, <2>3, <2>4, <2>5, <2>6, <2>7
<1>3. ASSUME NEW u \in Users, CommitBill(u)  PROVE Heeds'
  BY <1>3, HeedsIdle DEF CommitBill, Ends, EndsWith
<1>4. ASSUME NEW u \in Users, CommitBillReturn(u)  PROVE Heeds'
  BY <1>4, HeedsIdle DEF CommitBillReturn, Ends, EndsWith
<1>5. ASSUME NEW u \in Users, CreateBillReversal(u)  PROVE Heeds'
  <2>1. PICK h : h.op = "next" /\ hand' = [hand EXCEPT ![u] = h]
    BY <1>5 DEF CreateBillReversal, Idle
  <2>. QED  BY <2>1, HeedsEnds
<1>. QED  BY <1>1, <1>2, <1>3, <1>4, <1>5 DEF PurchasesStep

LEMMA VouchersHeeds == ASSUME Alone, TypeIInv, Heeds, KindsStay, VouchersStep  PROVE Heeds'
<1>1. ASSUME NEW d \in Docs, CreateVoucher(d)  PROVE Heeds'
  BY <1>1, HeedsCreates DEF CreateVoucher, AboutPeriods, Slips
<1>2. ASSUME NEW u \in Users, NEW d \in Docs,
             CreatePosted(u, d) \/ PostVoucher(u, d) \/ UpdateVoucher(u, d) \/ DeleteVoucher(u, d) \/ ReverseVoucher(u, d)
      PROVE  Heeds'
  <2>1. CASE CreatePosted(u, d)
    BY <2>1, HeedsReads DEF CreatePosted, Asked, Asking, AskingTax, PeriodOpen, Taxed, Unasked, Invoices, Bills, Slips
  <2>2. CASE PostVoucher(u, d)
    BY <2>2, HeedsReads DEF PostVoucher, Asked, Asking, AskingTax, PeriodOpen, Taxed, Unasked, Invoices, Bills, Slips
  <2>3. CASE UpdateVoucher(u, d)
    BY <2>3, HeedsEdits DEF UpdateVoucher
  <2>4. CASE DeleteVoucher(u, d)
    BY <2>4, HeedsDeletes DEF DeleteVoucher
  <2>5. CASE ReverseVoucher(u, d)
    BY <2>5, HeedsReads DEF ReverseVoucher, Asked, Asking, AskingTax, PeriodOpen, Taxed, Unasked, Invoices, Bills, Slips
  <2>. QED  BY <1>2, <2>1, <2>2, <2>3, <2>4, <2>5
<1>3. ASSUME NEW u \in Users, CommitReverse(u)  PROVE Heeds'
  BY <1>3, HeedsIdle DEF CommitReverse, Ends, EndsWith
<1>4. ASSUME NEW u \in Users, CommitVoucher(u) \/ CommitCreated(u)  PROVE Heeds'
  <2>1. Booking(u)
    BY <1>4 DEF CommitVoucher, CommitCreated
  <2>. QED  BY <2>1, HeedsIdle DEF Booking, EndsWith
<1>. QED  BY <1>1, <1>2, <1>3, <1>4 DEF VouchersStep

LEMMA InventoryHeeds == ASSUME Alone, TypeIInv, Heeds, KindsStay, InventoryStep  PROVE Heeds'
<1>1. ASSUME NEW d \in Docs, CreateAdjustment(d)  PROVE Heeds'
  BY <1>1, HeedsCreates DEF CreateAdjustment, AboutPeriods
<1>2. ASSUME NEW u \in Users, NEW d \in Docs,
             CompleteTransfer(u, d) \/ UpdateAdjustment(u, d) \/ DeleteAdjustment(u, d) \/ PostAdjustment(u, d)
      PROVE  Heeds'
  <2>1. CASE CompleteTransfer(u, d)
    BY <2>1, HeedsKeeps DEF CompleteTransfer, Asked, Asking, AskingTax, PeriodOpen, Taxed, Unasked, Invoices, Bills
  <2>2. CASE UpdateAdjustment(u, d)
    BY <2>2, HeedsEdits DEF UpdateAdjustment
  <2>3. CASE DeleteAdjustment(u, d)
    BY <2>3, HeedsDeletes DEF DeleteAdjustment
  <2>4. CASE PostAdjustment(u, d)
    BY <2>4, HeedsPosts DEF PostAdjustment
  <2>. QED  BY <1>2, <2>1, <2>2, <2>3, <2>4
<1>3. ASSUME NEW u \in Users, CommitTransfer(u)  PROVE Heeds'
  BY <1>3, HeedsIdle DEF CommitTransfer, Ends, EndsWith
<1>4. ASSUME NEW u \in Users, CommitAdjustment(u)  PROVE Heeds'
  BY <1>4, HeedsIdle DEF CommitAdjustment, Ends, EndsWith
<1>5. ASSUME NEW d \in Docs, ApproveAdjustment(d)  PROVE Heeds'
  <2>1. row[d].kind \in AboutInventory /\ UNCHANGED <<hand, entries, reversed>>
    BY <1>5 DEF ApproveAdjustment, AboutInventory, work
  <2>2. Kept(AboutInventory)
    BY <1>5, <2>1, ApproveAdjustmentDoes, KeptQuietly
  <2>3. AboutInventory \cap (AboutPeriods \cup {"journal"}) = {}
    BY DEF AboutInventory, AboutPeriods
  <2>. QED  BY <2>1, <2>2, <2>3, HeedsSame
<1>6. ASSUME NEW u \in Users, NEW d \in Docs, CreateTransfer(u, d)  PROVE Heeds'
  <2>1. PICK want, h : h = TransferPlan(d, row'[d], want) /\ hand' = [hand EXCEPT ![u] = h]
    BY <1>6 DEF CreateTransfer, TransferPlan
  <2>2. h.op = "write"
    BY <2>1, TransferPlanIs
  <2>. QED  BY <2>1, <2>2, HeedsEnds
<1>7. ASSUME NEW u \in Users, NEW d \in Docs, DeleteTransfer(u, d)  PROVE Heeds'
  <2>1. PICK want, h : h = TransferPlan(d, row'[d], want) /\ hand' = [hand EXCEPT ![u] = h]
    BY <1>7 DEF DeleteTransfer, TransferPlan
  <2>2. h.op = "write"
    BY <2>1, TransferPlanIs
  <2>. QED  BY <2>1, <2>2, HeedsEnds
<1>8. ASSUME NEW u \in Users, CheckFloor(u)  PROVE Heeds'
  <2>. PICK h : h = [hand[u] EXCEPT !.op = "post"]
    OBVIOUS
  <2>1. PlanOf(hand[u]) /\ hand[u].seen.kind = "transfer"
    BY <1>8 DEF TypeIInv, HandsOK, CheckFloor, At
  <2>2. h.op = "post" /\ h.seen.kind = "transfer" /\ hand' = [hand EXCEPT ![u] = h]
    BY <1>8, <2>1 DEF CheckFloor, PlanOf, TypeIInv, HandsOK
  <2>3. Asked(h.op, h.seen.kind, h.doc)'
    BY <2>2 DEF Asked, Asking, AskingTax, Unasked, Taxed, Invoices, Bills
  <2>. QED  BY <2>2, <2>3, HeedsTurn
<1>. QED  BY <1>1, <1>2, <1>3, <1>4, <1>5, <1>6, <1>7, <1>8 DEF InventoryStep

LEMMA ManufacturingHeeds == ASSUME Alone, TypeIInv, Heeds, KindsStay, ManufacturingStep  PROVE Heeds'
<1>1. ASSUME NEW d \in Docs, CreateWorkOrder(d)  PROVE Heeds'
  BY <1>1, HeedsCreates DEF CreateWorkOrder, AboutPeriods
<1>2. ASSUME NEW u \in Users, NEW d \in Docs,
             UpdateWorkOrder(u, d) \/ DeleteWorkOrder(u, d) \/ UpdateConsumption(u, d) \/ StartWorkOrder(u, d) \/ CompleteWorkOrder(u, d) \/ CancelWorkOrder(u, d)
      PROVE  Heeds'
  <2>1. CASE UpdateWorkOrder(u, d)
    BY <2>1, HeedsEdits DEF UpdateWorkOrder
  <2>2. CASE DeleteWorkOrder(u, d)
    BY <2>2, HeedsDeletes DEF DeleteWorkOrder
  <2>3. CASE UpdateConsumption(u, d)
    BY <2>3, HeedsEdits DEF UpdateConsumption
  <2>4. CASE StartWorkOrder(u, d)
    BY <2>4, HeedsReads DEF StartWorkOrder, Asked, Asking, AskingTax, PeriodOpen, Taxed, Unasked, Invoices, Bills, Slips
  <2>5. CASE CompleteWorkOrder(u, d)
    BY <2>5, HeedsReads DEF CompleteWorkOrder, Asked, Asking, AskingTax, PeriodOpen, Taxed, Unasked, Invoices, Bills, Slips
  <2>6. CASE CancelWorkOrder(u, d)
    BY <2>6, HeedsReads DEF CancelWorkOrder, Asked, Asking, AskingTax, PeriodOpen, Taxed, Unasked, Invoices, Bills, Slips
  <2>. QED  BY <1>2, <2>1, <2>2, <2>3, <2>4, <2>5, <2>6
<1>3. ASSUME NEW u \in Users, CommitStart(u)  PROVE Heeds'
  BY <1>3, HeedsIdle DEF CommitStart, Ends, EndsWith
<1>4. ASSUME NEW u \in Users, CommitComplete(u)  PROVE Heeds'
  BY <1>4, HeedsIdle DEF CommitComplete, Ends, EndsWith
<1>5. ASSUME NEW u \in Users, CommitCancel(u)  PROVE Heeds'
  BY <1>5, HeedsIdle DEF CommitCancel, Ends, EndsWith
<1>6. ASSUME NEW d \in Docs, ReopenWorkOrder(d)  PROVE Heeds'
  <2>1. row[d].kind \in AboutOrders /\ UNCHANGED <<hand, entries, reversed>>
    BY <1>6 DEF ReopenWorkOrder, AboutOrders, work
  <2>2. Kept(AboutOrders)
    BY <1>6, <2>1, ReopenWorkOrderDoes, KeptQuietly
  <2>3. AboutOrders \cap (AboutPeriods \cup {"journal"}) = {}
    BY DEF AboutOrders, AboutPeriods
  <2>. QED  BY <2>1, <2>2, <2>3, HeedsSame
<1>. QED  BY <1>1, <1>2, <1>3, <1>4, <1>5, <1>6 DEF ManufacturingStep

LEMMA TillHeeds == ASSUME Alone, TypeIInv, Heeds, KindsStay, TillStep  PROVE Heeds'
<1>1. ASSUME NEW d \in Docs, OpenShift(d)  PROVE Heeds'
  BY <1>1, HeedsCreates DEF OpenShift, AboutPeriods
<1>2. ASSUME NEW u \in Users, NEW d \in Docs,
             Checkout(u, d) \/ CloseShift(u, d) \/ HealShift(u, d)
      PROVE  Heeds'
  <2>1. CASE Checkout(u, d)
    BY <2>1, HeedsReads DEF Checkout, Asked, Asking, AskingTax, PeriodOpen, Taxed, Unasked, Invoices, Bills, Slips
  <2>2. CASE CloseShift(u, d)
    BY <2>2, HeedsReads DEF CloseShift, Asked, Asking, AskingTax, PeriodOpen, Taxed, Unasked, Invoices, Bills, Slips
  <2>3. CASE HealShift(u, d)
    BY <2>3, HeedsReads DEF HealShift, Asked, Asking, AskingTax, PeriodOpen, Taxed, Unasked, Invoices, Bills, Slips
  <2>. QED  BY <1>2, <2>1, <2>2, <2>3
<1>3. ASSUME NEW u \in Users, CommitCheckout(u)  PROVE Heeds'
  BY <1>3, HeedsIdle DEF CommitCheckout, Ends, EndsWith
<1>4. ASSUME NEW u \in Users, BookDifference(u)  PROVE Heeds'
  BY <1>4, HeedsIdle DEF BookDifference, Ends, EndsWith
<1>5. ASSUME NEW u \in Users, CommitClose(u)  PROVE Heeds'
  <2>. PICK h : h = [hand[u] EXCEPT !.op = "lookup"]
    OBVIOUS
  <2>1. PlanOf(hand[u]) /\ At(u, "close", {"shift"}) /\ hand[u].op = "close" /\ hand[u].seen.kind = "shift"
    BY <1>5 DEF TypeIInv, HandsOK, CommitClose, At
  <2>2. h.op = "lookup" /\ h.seen.kind = "shift" /\ hand' = [hand EXCEPT ![u] = h]
    BY <1>5, <2>1 DEF CommitClose, PlanOf, TypeIInv, HandsOK
  <2>3. FiscalOpen
    BY <2>1 DEF Heeds, Asked, Asking, Unasked
  <2>4. FiscalOpen'
    <3>1. \A x \in Docs : row[x].kind \in AboutPeriods => row'[x] = row[x]
      BY <1>5, TillKept DEF TillStep, Kept, AboutTill, AboutPeriods
    <3>. QED  BY <2>3, <3>1, OpenStays
  <2>5. Asked(h.op, h.seen.kind, h.doc)'
    BY <2>2, <2>4 DEF Asked, Asking, AskingTax
  <2>. QED  BY <2>2, <2>5, HeedsTurn
<1>6. ASSUME NEW u \in Users, LookUpDifference(u)  PROVE Heeds'
  <2>. PICK h : h = [hand[u] EXCEPT !.op = "entry"]
    OBVIOUS
  <2>1. PlanOf(hand[u]) /\ hand[u].op = "lookup" /\ hand[u].seen.kind = "shift"
    BY <1>6 DEF TypeIInv, HandsOK, LookUpDifference, At
  <2>2. CASE Unbooked(u)
    <3>1. h.op = "entry" /\ h.seen.kind = "shift" /\ h.doc = hand[u].doc /\ hand' = [hand EXCEPT ![u] = h]
      BY <1>6, <2>1, <2>2 DEF LookUpDifference, PlanOf, TypeIInv, HandsOK
    <3>2. FiscalOpen /\ entries[h.doc] = 0
      BY <2>1, <2>2, <3>1 DEF Heeds, Asked, Asking, Unasked, Unbooked
    <3>3. UNCHANGED <<row, entries>>
      BY <1>6 DEF LookUpDifference, papers
    <3>4. Asked(h.op, h.seen.kind, h.doc)'
      BY <3>1, <3>2, <3>3 DEF Asked, Asking, AskingTax, FiscalOpen, Rows, Exists
    <3>. QED  BY <3>1, <3>4, HeedsTurn
  <2>3. CASE ~Unbooked(u)
    BY <1>6, <2>3, HeedsIdle DEF LookUpDifference
  <2>. QED  BY <2>2, <2>3
<1>. QED  BY <1>1, <1>2, <1>3, <1>4, <1>5, <1>6 DEF TillStep

LEMMA ConversionHeeds == ASSUME Alone, TypeIInv, Heeds, KindsStay, ConversionStep  PROVE Heeds'
<1>1. ASSUME NEW d \in Docs, CreateOffer(d)  PROVE Heeds'
  BY <1>1, HeedsCreates DEF CreateOffer, AboutPeriods, Offers
<1>2. ASSUME NEW u \in Users, NEW d \in Docs,
             UpdateOffer(u, d) \/ DeleteOffer(u, d) \/ ConvertOffer(u, d)
      PROVE  Heeds'
  <2>1. CASE UpdateOffer(u, d)
    BY <2>1, HeedsEdits DEF UpdateOffer
  <2>2. CASE DeleteOffer(u, d)
    BY <2>2, HeedsDeletes DEF DeleteOffer
  <2>3. CASE ConvertOffer(u, d)
    BY <2>3, HeedsKeeps DEF ConvertOffer, Asked, Asking, AskingTax, PeriodOpen, Taxed, Unasked, Invoices, Bills
  <2>. QED  BY <1>2, <2>1, <2>2, <2>3
<1>3. ASSUME NEW u \in Users, NumberFails(u)  PROVE Heeds'
  BY <1>3, HeedsIdle DEF NumberFails, Ends, EndsWith
<1>4. ASSUME NEW u \in Users, ReleaseOffer(u)  PROVE Heeds'
  BY <1>4, HeedsIdle DEF ReleaseOffer, Ends, EndsWith
<1>5. ASSUME NEW u \in Users, ReleaseFails(u)  PROVE Heeds'
  BY <1>5, HeedsIdle DEF ReleaseFails, Ends, EndsWith
<1>6. ASSUME NEW u \in Users, ClaimOffer(u)  PROVE Heeds'
  <2>. PICK h : h = [hand[u] EXCEPT !.op = "claimed"]
    OBVIOUS
  <2>1. PlanOf(hand[u])
    BY DEF TypeIInv, HandsOK
  <2>2. h.op = "claimed" /\ hand' = [hand EXCEPT ![u] = h]
    BY <1>6, <2>1 DEF ClaimOffer, PlanOf, TypeIInv, HandsOK
  <2>3. Asked(h.op, h.seen.kind, h.doc)'
    BY <2>2 DEF Asked, Asking, AskingTax
  <2>. QED  BY <2>2, <2>3, HeedsTurn
<1>7. ASSUME NEW u \in Users, CreateFails(u)  PROVE Heeds'
  <2>. PICK h : h = [hand[u] EXCEPT !.op = "release"]
    OBVIOUS
  <2>1. PlanOf(hand[u])
    BY DEF TypeIInv, HandsOK
  <2>2. h.op = "release" /\ hand' = [hand EXCEPT ![u] = h]
    BY <1>7, <2>1 DEF CreateFails, PlanOf, TypeIInv, HandsOK
  <2>3. Asked(h.op, h.seen.kind, h.doc)'
    BY <2>2 DEF Asked, Asking, AskingTax
  <2>. QED  BY <2>2, <2>3, HeedsTurn
<1>8. ASSUME NEW u \in Users, CreateConverted(u)  PROVE Heeds'
  <2>. PICK i \in Docs, lost \in BOOLEAN : Creation(u, i, lost)
    BY <1>8, CreateConvertedIs
  <2>. PICK h : h = [hand[u] EXCEPT !.op = "release"]
    OBVIOUS
  <2>1. PlanOf(hand[u])
    BY DEF TypeIInv, HandsOK
  <2>2. h.op = "release" /\ (lost => hand' = [hand EXCEPT ![u] = h])
    BY <2>1 DEF Creation, PlanOf, TypeIInv, HandsOK
  <2>3. Asked(h.op, h.seen.kind, h.doc)'
    BY <2>2 DEF Asked, Asking, AskingTax
  <2>. QED  BY <2>2, <2>3, HeedsTurn, HeedsIdle DEF Creation
<1>. QED  BY <1>1, <1>2, <1>3, <1>4, <1>5, <1>6, <1>7, <1>8 DEF ConversionStep

LEMMA PeriodsHeeds == ASSUME Alone, TypeIInv, Heeds, KindsStay, PeriodsStep  PROVE Heeds'
<1>1. ASSUME NEW u \in Users, NEW d \in Docs,
             CloseAccountingPeriod(u, d) \/ CloseFiscalYear(u, d) \/ ReopenAccountingPeriodById(u, d) \/ SetTaxPeriodStatus(u, d)
      PROVE  Heeds'
  <2>1. CASE CloseAccountingPeriod(u, d)
    BY <2>1, HeedsReads DEF CloseAccountingPeriod, Asked, Asking, AskingTax, PeriodOpen, Taxed, Unasked, Invoices, Bills, Slips
  <2>2. CASE CloseFiscalYear(u, d)
    BY <2>2, HeedsReads DEF CloseFiscalYear, Asked, Asking, AskingTax, PeriodOpen, Taxed, Unasked, Invoices, Bills, Slips
  <2>3. CASE ReopenAccountingPeriodById(u, d)
    BY <2>3, HeedsKeeps DEF ReopenAccountingPeriodById, Asked, Asking, AskingTax, PeriodOpen, Taxed, Unasked, Invoices, Bills
  <2>4. CASE SetTaxPeriodStatus(u, d)
    BY <2>4, HeedsEdits DEF SetTaxPeriodStatus
  <2>. QED  BY <1>1, <2>1, <2>2, <2>3, <2>4
<1>2. ASSUME NEW u \in Users, CommitPeriod(u)  PROVE Heeds'
  BY <1>2, HeedsIdle DEF CommitPeriod, Ends, EndsWith
<1>3. ASSUME NEW u \in Users, CommitFiscalYear(u)  PROVE Heeds'
  BY <1>3, HeedsIdle DEF CommitFiscalYear, Ends, EndsWith
<1>4. ASSUME NEW u \in Users, CommitReopen(u)  PROVE Heeds'
  BY <1>4, HeedsIdle DEF CommitReopen, Ends, EndsWith
<1>5. ASSUME NEW d \in Docs, OpenAccountingPeriod(d) \/ GenerateSubPeriods(d) \/ OpenTaxPeriod(d)  PROVE Heeds'
  <2>1. /\ row[d].status = "none" /\ row[d].kind \in AboutPeriods /\ row[d] \in Row
        /\ row' = [row EXCEPT ![d] = Updated(@, [status |-> "open"])]
        /\ UNCHANGED <<entries, reversed, hand>>
    BY <1>5 DEF OpenAccountingPeriod, GenerateSubPeriods, OpenTaxPeriod, Creates, work, AboutPeriods, TypeIInv, PapersOK
  <2>2. row'[d].status = "open" /\ \A x \in Docs \ {d} : row'[x] = row[x]
    BY <2>1 DEF Updated, Row, TypeIInv, PapersOK
  <2>3. FiscalOpen => FiscalOpen'
    BY <2>1, <2>2 DEF FiscalOpen, Rows, Exists, KindsStay
  <2>4. TaxOpen => TaxOpen'
    BY <2>1, <2>2 DEF TaxOpen, Rows, Exists, KindsStay
  <2>. QED  BY <2>1, <2>2, <2>3, <2>4, HeedsRests
<1>. QED  BY <1>1, <1>2, <1>3, <1>4, <1>5 DEF PeriodsStep

LEMMA JournalsHeeds == ASSUME Alone, TypeIInv, Heeds, KindsStay, JournalsStep  PROVE Heeds'
<1>1. ASSUME NEW d \in Docs, CreateTransaction(d)  PROVE Heeds'
  BY <1>1, HeedsCreates DEF CreateTransaction, AboutPeriods
<1>2. ASSUME NEW u \in Users, NEW d \in Docs,
             UpdateTransaction(u, d) \/ PostTransaction(u, d) \/ DeleteTransaction(u, d) \/ ReverseTransaction(u, d)
      PROVE  Heeds'
  <2>1. CASE UpdateTransaction(u, d)
    <3>1. PICK want : Reads(u, "header", d, want, <<>>, Main)
      BY <2>1 DEF UpdateTransaction
    <3>2. Asked("header", row[d].kind, d)
      BY <2>1 DEF UpdateTransaction, Editable, Asked, Asking, AskingTax
    <3>. QED  BY <3>1, <3>2, HeedsReads
  <2>2. CASE PostTransaction(u, d)
    BY <2>2, HeedsPosts DEF PostTransaction
  <2>3. CASE DeleteTransaction(u, d)
    BY <2>3, HeedsKeeps DEF DeleteTransaction, Asked, Asking, AskingTax, PeriodOpen, Taxed, Unasked, Invoices, Bills
  <2>4. CASE ReverseTransaction(u, d)
    BY <2>4, HeedsKeeps DEF ReverseTransaction, Asked, Asking, AskingTax, PeriodOpen, Taxed, Unasked, Invoices, Bills
  <2>. QED  BY <1>2, <2>1, <2>2, <2>3, <2>4
<1>3. ASSUME NEW u \in Users, InsertLines(u)  PROVE Heeds'
  BY <1>3, HeedsIdle DEF InsertLines, Ends, EndsWith
<1>4. ASSUME NEW u \in Users, CommitTransaction(u)  PROVE Heeds'
  BY <1>4, HeedsIdle DEF CommitTransaction, Ends, EndsWith
<1>5. ASSUME NEW u \in Users, CommitDelete(u)  PROVE Heeds'
  BY <1>5, HeedsIdle DEF CommitDelete, Ends, EndsWith
<1>6. ASSUME NEW u \in Users, CommitMirror(u)  PROVE Heeds'
  BY <1>6, HeedsIdle DEF CommitMirror, Ends, EndsWith
<1>7. ASSUME NEW u \in Users, UpdateHeader(u)  PROVE Heeds'
  <2>. PICK h : h = [hand[u] EXCEPT !.op = "lines"]
    OBVIOUS
  <2>1. PlanOf(hand[u]) /\ hand[u].op = "header" /\ hand[u].seen.kind = "journal"
    BY <1>7 DEF TypeIInv, HandsOK, UpdateHeader, At
  <2>2. CASE "qty" \in DOMAIN hand[u].want
    <3>1. h.op = "lines" /\ h.doc = hand[u].doc /\ hand' = [hand EXCEPT ![u] = h] /\ row' = row
      BY <1>7, <2>1, <2>2 DEF UpdateHeader, PlanOf, TypeIInv, HandsOK
    <3>2. row[h.doc].status = "draft"
      BY <2>1, <3>1 DEF Heeds, Asked
    <3>3. Asked(h.op, h.seen.kind, h.doc)'
      BY <3>1, <3>2 DEF Asked, Asking, AskingTax
    <3>. QED  BY <3>1, <3>3, HeedsTurn
  <2>3. CASE "qty" \notin DOMAIN hand[u].want
    BY <1>7, <2>3, HeedsIdle DEF UpdateHeader
  <2>. QED  BY <2>2, <2>3
<1>8. ASSUME NEW u \in Users, DeleteLines(u)  PROVE Heeds'
  <2>. PICK h : h = [hand[u] EXCEPT !.op = "insert"]
    OBVIOUS
  <2>1. PlanOf(hand[u]) /\ At(u, "lines", {"journal"}) /\ hand[u].op = "lines" /\ hand[u].seen.kind = "journal"
    BY <1>8 DEF TypeIInv, HandsOK, DeleteLines, At
  <2>2. h.op = "insert" /\ h.doc = hand[u].doc /\ hand' = [hand EXCEPT ![u] = h]
    BY <1>8, <2>1 DEF DeleteLines, PlanOf, TypeIInv, HandsOK
  <2>3. h.doc \in Docs /\ row[h.doc] \in Row
    BY <2>1, <2>2, AtIs
  <2>4. row[h.doc].status = "draft"
    BY <2>1, <2>2 DEF Heeds, Asked
  <2>5. row'[h.doc].status = "draft"
    BY <1>8, <2>2, <2>3, <2>4 DEF DeleteLines, Lays, TypeIInv, PapersOK, Row
  <2>6. Asked(h.op, h.seen.kind, h.doc)'
    BY <2>2, <2>5 DEF Asked, Asking, AskingTax
  <2>. QED  BY <2>2, <2>6, HeedsTurn
<1>. QED  BY <1>1, <1>2, <1>3, <1>4, <1>5, <1>6, <1>7, <1>8 DEF JournalsStep

LEMMA PayrollHeeds == ASSUME Alone, TypeIInv, Heeds, KindsStay, PayrollStep  PROVE Heeds'
<1>1. ASSUME NEW d \in Docs, CreatePayrollRun(d) \/ CreateEndOfService(d)  PROVE Heeds'
  BY <1>1, HeedsCreates DEF CreatePayrollRun, CreateEndOfService, AboutPeriods
<1>2. ASSUME NEW u \in Users, NEW d \in Docs,
             DeletePayrollRun(u, d) \/ PostPayrollRun(u, d) \/ ApproveEndOfService(u, d) \/ CancelEndOfService(u, d) \/ PayEndOfService(u, d) \/ DeleteEndOfService(u, d)
      PROVE  Heeds'
  <2>1. CASE DeletePayrollRun(u, d)
    BY <2>1, HeedsDeletes DEF DeletePayrollRun
  <2>2. CASE PostPayrollRun(u, d)
    BY <2>2, HeedsPosts DEF PostPayrollRun
  <2>3. CASE ApproveEndOfService(u, d)
    BY <2>3, HeedsKeeps DEF ApproveEndOfService, Asked, Asking, AskingTax, PeriodOpen, Taxed, Unasked, Invoices, Bills
  <2>4. CASE CancelEndOfService(u, d)
    BY <2>4, HeedsEdits DEF CancelEndOfService
  <2>5. CASE PayEndOfService(u, d)
    BY <2>5, HeedsKeeps DEF PayEndOfService, Asked, Asking, AskingTax, PeriodOpen, Taxed, Unasked, Invoices, Bills
  <2>6. CASE DeleteEndOfService(u, d)
    BY <2>6, HeedsDeletes DEF DeleteEndOfService
  <2>. QED  BY <1>2, <2>1, <2>2, <2>3, <2>4, <2>5, <2>6
<1>3. ASSUME NEW u \in Users, CommitPayrollRun(u)  PROVE Heeds'
  BY <1>3, HeedsIdle DEF CommitPayrollRun, Ends, EndsWith
<1>4. ASSUME NEW u \in Users, CommitApproval(u)  PROVE Heeds'
  BY <1>4, HeedsIdle DEF CommitApproval, Ends, EndsWith
<1>5. ASSUME NEW u \in Users, CommitSettlement(u)  PROVE Heeds'
  BY <1>5, HeedsIdle DEF CommitSettlement, Ends, EndsWith
<1>. QED  BY <1>1, <1>2, <1>3, <1>4, <1>5 DEF PayrollStep

LEMMA LeavesHeeds == ASSUME Alone, TypeIInv, Heeds, KindsStay, LeavesStep  PROVE Heeds'
<1>1. ASSUME NEW u \in Users, NEW d \in Docs,
             CreateLeave(u, d) \/ UpdateLeaveStatus(u, d) \/ DeleteLeave(u, d) \/ PostLeaveProvision(u, d)
      PROVE  Heeds'
  <2>1. CASE CreateLeave(u, d)
    BY <2>1, HeedsReads DEF CreateLeave, Asked, Asking, AskingTax, PeriodOpen, Taxed, Unasked, Invoices, Bills, Slips
  <2>2. CASE UpdateLeaveStatus(u, d)
    BY <2>2, HeedsEdits DEF UpdateLeaveStatus
  <2>3. CASE DeleteLeave(u, d)
    BY <2>3, HeedsDeletes DEF DeleteLeave
  <2>4. CASE PostLeaveProvision(u, d)
    BY <2>4, HeedsReads DEF PostLeaveProvision, Asked, Asking, AskingTax, PeriodOpen, Taxed, Unasked, Invoices, Bills, Slips
  <2>. QED  BY <1>1, <2>1, <2>2, <2>3, <2>4
<1>2. ASSUME NEW u \in Users, InsertLeave(u)  PROVE Heeds'
  BY <1>2, HeedsIdle DEF InsertLeave, Ends, EndsWith
<1>3. ASSUME NEW u \in Users, CommitProvision(u)  PROVE Heeds'
  BY <1>3, HeedsIdle DEF CommitProvision, Ends, EndsWith
<1>. QED  BY <1>1, <1>2, <1>3 DEF LeavesStep

LEMMA AssetsHeeds == ASSUME Alone, TypeIInv, Heeds, KindsStay, AssetsStep  PROVE Heeds'
<1>1. ASSUME NEW u \in Users, NEW d \in Docs,
             CreateFixedAsset(u, d) \/ UpdateFixedAsset(u, d) \/ DeleteFixedAsset(u, d) \/ RunDepreciation(u, d) \/ DisposeFixedAsset(u, d)
      PROVE  Heeds'
  <2>1. CASE CreateFixedAsset(u, d)
    BY <2>1, HeedsReads DEF CreateFixedAsset, Asked, Asking, AskingTax, PeriodOpen, Taxed, Unasked, Invoices, Bills, Slips
  <2>2. CASE UpdateFixedAsset(u, d)
    BY <2>2, HeedsEdits DEF UpdateFixedAsset
  <2>3. CASE DeleteFixedAsset(u, d)
    BY <2>3, HeedsDeletes DEF DeleteFixedAsset
  <2>4. CASE RunDepreciation(u, d)
    BY <2>4, HeedsReads DEF RunDepreciation, Asked, Asking, AskingTax, PeriodOpen, Taxed, Unasked, Invoices, Bills, Slips
  <2>5. CASE DisposeFixedAsset(u, d)
    BY <2>5, HeedsReads DEF DisposeFixedAsset, Asked, Asking, AskingTax, PeriodOpen, Taxed, Unasked, Invoices, Bills, Slips
  <2>. QED  BY <1>1, <2>1, <2>2, <2>3, <2>4, <2>5
<1>2. ASSUME NEW u \in Users, CommitAsset(u)  PROVE Heeds'
  BY <1>2, HeedsIdle DEF CommitAsset, Ends, EndsWith
<1>3. ASSUME NEW u \in Users, CommitDepreciation(u)  PROVE Heeds'
  BY <1>3, HeedsIdle DEF CommitDepreciation, Ends, EndsWith
<1>4. ASSUME NEW u \in Users, CommitDisposal(u)  PROVE Heeds'
  BY <1>4, HeedsIdle DEF CommitDisposal, Ends, EndsWith
<1>. QED  BY <1>1, <1>2, <1>3, <1>4 DEF AssetsStep

LEMMA StepHeeds == ASSUME Alone, TypeIInv, Facts, Heeds, [Next]_books  PROVE Heeds'
<1>. KindsStay
  BY StepGoesOn
<1>1. ASSUME NEW u \in Users, Write(u) \/ Fails(u)  PROVE Heeds'
  BY <1>1, HeedsIdle DEF Write, Fails, EndsWith
<1>2. CASE UNCHANGED books
  BY <1>2 DEF books, papers, work, Heeds, Asked, FiscalOpen, TaxOpen, Rows, Exists
<1>3. CASE SalesStep \/ PurchasesStep \/ VouchersStep \/ InventoryStep \/ ManufacturingStep \/ TillStep
  BY <1>3, SalesHeeds, PurchasesHeeds, VouchersHeeds, InventoryHeeds, ManufacturingHeeds, TillHeeds
<1>4. CASE ConversionStep \/ PeriodsStep \/ JournalsStep \/ PayrollStep \/ LeavesStep \/ AssetsStep
  BY <1>4, ConversionHeeds, PeriodsHeeds, JournalsHeeds, PayrollHeeds, LeavesHeeds, AssetsHeeds
<1>. QED  BY <1>1, <1>2, <1>3, <1>4 DEF Next, BooksStep

LEMMA InitHeeds == Init => Heeds /\ OncePerDocument
<1>. SUFFICES ASSUME Init  PROVE Heeds /\ OncePerDocument
  OBVIOUS
<1>1. /\ \A u \in Users : hand[u] = Idle
      /\ \A d \in Docs : entries[d] = 0 /\ reversed[d] = 0
  BY DEF Init, BooksInit
<1>2. Heeds
  BY <1>1, IdleIsPlan DEF Heeds, Asked, Asking, AskingTax
<1>. QED  BY <1>1, <1>2 DEF OncePerDocument

LEMMA EnteredInTime ==
  ASSUME TypeIInv, Heeds, Tally, NEW d \in Docs, Enters(d)
  PROVE  (row[d].kind # "endOfService" => FiscalOpen) /\ (row[d].kind \in Taxed => TaxOpen)
<1>1. entries \in [Docs -> Nat]
  BY DEF TypeIInv, PapersOK
<1>2. PICK u \in Users : hand[u].doc = d /\ Entering(hand[u])
  BY <1>1 DEF Enters, Tally
<1>3. hand[u].op \notin {"idle", "next"}
  BY <1>2 DEF Entering
<1>4. row[d].kind = hand[u].seen.kind
  BY <1>2, <1>3 DEF TypeIInv, HandsOK, Placed
<1>5. Asked(hand[u].op, hand[u].seen.kind, d)
  BY <1>2 DEF Heeds
<1>6. row[d].kind # "endOfService" => Asking(hand[u].op, hand[u].seen.kind)
  BY <1>2, <1>4 DEF Entering, Asking, Unasked, Slips
<1>7. row[d].kind \in Taxed => AskingTax(hand[u].op, hand[u].seen.kind)
  BY <1>2, <1>4 DEF Entering, AskingTax, Taxed, Slips, Invoices, Bills
<1>. QED  BY <1>5, <1>6, <1>7 DEF Asked

LEMMA OnceStays ==
  ASSUME TypeIInv, Heeds, Tally, KindsStay, OncePerDocument
  PROVE  OncePerDocument'
<1>. SUFFICES ASSUME NEW d \in Docs
              PROVE  reversed'[d] <= 1 /\ (row'[d].kind \in {"shift", "provision"} => entries'[d] <= 1)
  BY DEF OncePerDocument
<1>1. reversed \in [Docs -> Nat] /\ entries \in [Docs -> Nat]
  BY DEF TypeIInv, PapersOK
<1>2. reversed[d] <= 1 /\ (row[d].kind \in {"shift", "provision"} => entries[d] <= 1) /\ row'[d].kind = row[d].kind
  BY DEF OncePerDocument, KindsStay
<1>3. reversed'[d] <= 1
  <2>1. ASSUME NEW u \in Users, hand[u].doc = d, Undoing(hand[u])  PROVE reversed[d] = 0
    BY <2>1 DEF Heeds, Asked, Undoing
  <2>. QED  BY <1>1, <1>2, <2>1 DEF Tally
<1>4. row[d].kind \in {"shift", "provision"} => entries'[d] <= 1
  <2>1. ASSUME NEW u \in Users, hand[u].doc = d, Entering(hand[u]), row[d].kind \in {"shift", "provision"}
        PROVE  entries[d] = 0
    <3>1. hand[u].op \notin {"idle", "next"}
      BY <2>1 DEF Entering
    <3>2. row[d].kind = hand[u].seen.kind
      BY <2>1, <3>1 DEF TypeIInv, HandsOK, Placed
    <3>3. Asked(hand[u].op, hand[u].seen.kind, d)
      BY <2>1 DEF Heeds
    <3>4. hand[u].op = "entry" \/ (hand[u].op = "new" /\ hand[u].seen.kind = "provision")
      BY <2>1, <3>2 DEF Entering, Slips
    <3>. QED  BY <3>3, <3>4 DEF Asked
  <2>. QED  BY <1>1, <1>2, <2>1 DEF Tally
<1>. QED  BY <1>2, <1>3, <1>4

(* A posted manual entry is as it was.                                     *)
Stands == \A d \in Docs : row[d].kind = "journal" /\ row[d].status = "posted" => row'[d] = row[d]

LEMMA StandsKept ==
  ASSUME NEW K, "journal" \notin K, Kept(K)
  PROVE  Stands
BY DEF Stands, Kept

LEMMA StandsElse ==
  ASSUME TypeIInv, NEW d \in Docs, NEW cols, Changes(d, cols), row[d].kind = "journal" => row[d].status # "posted"
  PROVE  Stands
BY ChangesType DEF Stands, TypeIInv, PapersOK

LEMMA JournalsStands ==
  ASSUME Alone, TypeIInv, Heeds, JournalsStep
  PROVE  Stands
<1>1. ASSUME NEW d \in Docs, CreateTransaction(d)  PROVE Stands
  BY <1>1 DEF CreateTransaction, Creates, Stands, TypeIInv, PapersOK
<1>2. ASSUME NEW u \in Users, NEW d \in Docs,
             UpdateTransaction(u, d) \/ PostTransaction(u, d) \/ DeleteTransaction(u, d) \/ ReverseTransaction(u, d)
      PROVE  Stands
  <2>1. row' = row
    BY <1>2 DEF UpdateTransaction, PostTransaction, DeleteTransaction, ReverseTransaction, Posts, Keeps, Reads, papers
  <2>. QED  BY <2>1 DEF Stands
<1>3. ASSUME NEW u \in Users, CommitTransaction(u)  PROVE Stands
  BY <1>3 DEF CommitTransaction, Flipped, Stands, TypeIInv, PapersOK, Row
<1>4. ASSUME NEW u \in Users, CommitMirror(u)  PROVE Stands
  BY <1>4 DEF CommitMirror, Stands
<1>5. ASSUME NEW u \in Users, UpdateHeader(u) \/ DeleteLines(u) \/ InsertLines(u) \/ CommitDelete(u)  PROVE Stands
  <2>1. hand[u].seen.kind = "journal" /\ hand[u].op \in {"header", "lines", "insert", "cancel"}
    BY <1>5 DEF UpdateHeader, DeleteLines, InsertLines, CommitDelete, At
  <2>2. row[hand[u].doc].status = "draft"
    BY <2>1 DEF Heeds, Asked
  <2>3. hand[u].doc \in Docs
    BY <2>1 DEF TypeIInv, HandsOK, Placed
  <2>4. \E cols : Changes(hand[u].doc, cols)
    BY <1>5, <2>1, UpdateHeaderDoes, DeleteLinesDoes, InsertLinesDoes, CommitDeleteDoes
  <2>. QED  BY <2>2, <2>3, <2>4, StandsElse
<1>. QED  BY <1>1, <1>2, <1>3, <1>4, <1>5 DEF JournalsStep

LEMMA StepStands ==
  ASSUME Alone, TypeIInv, Facts, Heeds, [Next]_books
  PROVE  Stands
<1>1. ASSUME NEW u \in Users, Write(u)  PROVE Stands
  <2>1. hand[u].op = "write" /\ hand[u].seen.kind # "journal"
    BY <1>1 DEF Write, Facts, PlansOK, PlanOK, Meant
  <2>2. hand[u].doc \in Docs /\ row[hand[u].doc].kind # "journal"
    BY <2>1 DEF TypeIInv, HandsOK, Placed
  <2>. QED  BY <1>1, <2>2 DEF Write, Stands, TypeIInv, PapersOK
<1>2. ASSUME NEW u \in Users, Fails(u)  PROVE Stands
  BY <1>2 DEF Fails, papers, Stands
<1>3. CASE UNCHANGED books
  BY <1>3 DEF books, papers, Stands
<1>4. CASE JournalsStep
  BY <1>4, JournalsStands
<1>5. CASE SalesStep \/ PurchasesStep \/ VouchersStep \/ InventoryStep \/ ManufacturingStep \/ TillStep
  <2>1. CASE SalesStep
    <3>1. "journal" \notin AboutSales
      BY DEF AboutSales, Slips, Deals, Invoices, Bills, Offers
    <3>. QED  BY <2>1, <3>1, SalesKept, StandsKept
  <2>2. CASE PurchasesStep
    <3>1. "journal" \notin AboutPurchases
      BY DEF AboutPurchases, Slips, Deals, Invoices, Bills, Offers
    <3>. QED  BY <2>2, <3>1, PurchasesKept, StandsKept
  <2>3. CASE VouchersStep
    <3>1. "journal" \notin AboutVouchers
      BY DEF AboutVouchers, Slips, Deals, Invoices, Bills, Offers
    <3>. QED  BY <2>3, <3>1, VouchersKept, StandsKept
  <2>4. CASE InventoryStep
    <3>1. "journal" \notin AboutInventory
      BY DEF AboutInventory, Slips, Deals, Invoices, Bills, Offers
    <3>. QED  BY <2>4, <3>1, InventoryKept, StandsKept
  <2>5. CASE ManufacturingStep
    <3>1. "journal" \notin AboutOrders
      BY DEF AboutOrders, Slips, Deals, Invoices, Bills, Offers
    <3>. QED  BY <2>5, <3>1, ManufacturingKept, StandsKept
  <2>6. CASE TillStep
    <3>1. "journal" \notin AboutTill
      BY DEF AboutTill, Slips, Deals, Invoices, Bills, Offers
    <3>. QED  BY <2>6, <3>1, TillKept, StandsKept
  <2>. QED  BY <1>5, <2>1, <2>2, <2>3, <2>4, <2>5, <2>6
<1>6. CASE ConversionStep \/ PeriodsStep \/ PayrollStep \/ LeavesStep \/ AssetsStep
  <2>1. CASE ConversionStep
    <3>1. "journal" \notin AboutConversion
      BY DEF AboutConversion, Slips, Deals, Invoices, Bills, Offers
    <3>. QED  BY <2>1, <3>1, ConversionKept, StandsKept
  <2>2. CASE PeriodsStep
    <3>1. "journal" \notin AboutPeriods
      BY DEF AboutPeriods, Slips, Deals, Invoices, Bills, Offers
    <3>. QED  BY <2>2, <3>1, PeriodsKept, StandsKept
  <2>3. CASE PayrollStep
    <3>1. "journal" \notin AboutPayroll
      BY DEF AboutPayroll, Slips, Deals, Invoices, Bills, Offers
    <3>. QED  BY <2>3, <3>1, PayrollKept, StandsKept
  <2>4. CASE LeavesStep
    <3>1. "journal" \notin AboutLeaves
      BY DEF AboutLeaves, Slips, Deals, Invoices, Bills, Offers
    <3>. QED  BY <2>4, <3>1, LeavesKept, StandsKept
  <2>5. CASE AssetsStep
    <3>1. "journal" \notin AboutAssets
      BY DEF AboutAssets, Slips, Deals, Invoices, Bills, Offers
    <3>. QED  BY <2>5, <3>1, AssetsKept, StandsKept
  <2>. QED  BY <1>6, <2>1, <2>2, <2>3, <2>4, <2>5
<1>. QED  BY <1>1, <1>2, <1>3, <1>4, <1>5, <1>6 DEF Next, BooksStep

(* Whatever a session on its own posts, it posts in an open period: nobody *)
(* closes one between the check (periodGuard.ts) and the transaction.      *)
THEOREM NoEntryInClosedPeriod == ASSUME Alone  PROVE Spec => ClosedPeriodIsLocked
<1>1. Init => TypeIInv /\ Facts /\ Heeds
  BY InitType, InitFacts, InitHeeds
<1>2. TypeIInv /\ Facts /\ Heeds /\ [Next]_books => (TypeIInv /\ Facts /\ Heeds)'
  BY TypeStep, FactsStep, StepHeeds
<1>3. TypeIInv /\ Facts /\ Heeds /\ [Next]_books =>
        [\A d \in Docs : Enters(d) => /\ row[d].kind # "endOfService" => FiscalOpen
                                      /\ row[d].kind \in Taxed => TaxOpen]_books
  BY StepTally, EnteredInTime
<1>. QED  BY <1>1, <1>2, <1>3, PTL DEF Spec, ClosedPeriodIsLocked

(* Nor does it undo anything twice, dispose of an asset twice, or book the *)
(* difference of a shift or the provision of a year twice: the references  *)
(* that reversal.ts, pos/api.ts and hr/api.ts look up are enough for one.  *)
THEOREM NothingIsDoneTwice == ASSUME Alone  PROVE Spec => []OncePerDocument
<1>1. Init => TypeIInv /\ Facts /\ Heeds /\ OncePerDocument
  BY InitType, InitFacts, InitHeeds
<1>2. TypeIInv /\ Facts /\ Heeds /\ OncePerDocument /\ [Next]_books =>
        (TypeIInv /\ Facts /\ Heeds /\ OncePerDocument)'
  BY TypeStep, FactsStep, StepHeeds, StepTally, StepGoesOn, OnceStays
<1>. QED  BY <1>1, <1>2, PTL DEF Spec

(* And an entry it has posted stands as posted: the draft that             *)
(* updateTransaction and deleteTransaction (accounting/api.ts) look at is  *)
(* still a draft when their statements, by id alone, arrive.               *)
THEOREM PostedEntriesStand == ASSUME Alone  PROVE Spec => PostedEntryStands
<1>1. Init => TypeIInv /\ Facts /\ Heeds
  BY InitType, InitFacts, InitHeeds
<1>2. TypeIInv /\ Facts /\ Heeds /\ [Next]_books => (TypeIInv /\ Facts /\ Heeds)'
  BY TypeStep, FactsStep, StepHeeds
<1>3. TypeIInv /\ Facts /\ Heeds /\ [Next]_books =>
        [\A d \in Docs : row[d].kind = "journal" /\ row[d].status = "posted" => row'[d] = row[d]]_books
  BY StepStands DEF Stands
<1>. QED  BY <1>1, <1>2, <1>3, PTL DEF Spec, PostedEntryStands
-----------------------------------------------------------------------------
(* What is settled of an invoice, a ticket or an asset, and what a plan    *)
(* that settles more of one leaves of it.                                  *)
Credits == Deals \cup {"ticket", "asset"}
Solvent(d) ==
  /\ row[d].kind \in Credits => row[d].paid <= row[d].qty
  /\ row[d].kind \in Deals /\ row[d].status = "draft" => row[d].paid = 0
  /\ row[d].kind \in Offers \cup {"asset"} => 0 <= row[d].qty
Pays(op, s, d, w) ==
  /\ op \in {"post", "new"} /\ s.kind \in Slips /\ w.link # NoDoc =>
       Exists(w.link) /\ w.applied <= Outstanding(row[w.link])
  /\ op = "new" /\ s.kind = "ticket" => w.paid <= w.qty
  /\ op = "new" /\ s.kind = "asset" => 0 <= w.qty
  /\ op = "charge" /\ s.kind = "asset" => row[d].paid + w.paid <= row[d].qty
  /\ op = "write" /\ "qty" \in DOMAIN w =>
       s.kind \notin Offers \cup {"asset"} /\ (s.kind \in Deals => row[d].paid <= w.qty)
  /\ op \in {"claim", "claimed"} /\ s.kind \in Offers => 0 <= s.qty
AllSolvent == \A d \in Docs : Solvent(d)
Paying == \A u \in Users : Pays(hand[u].op, hand[u].seen, hand[u].doc, hand[u].want)
Settling == AllSolvent /\ Paying

(* The plans that settle nothing.                                          *)
Payless == Ops \ {"post", "new", "charge", "write", "claim", "claimed"}

LEMMA SettlesTurn ==
  ASSUME Alone, TypeIInv, AllSolvent', NEW u \in Users, NEW op, hand'[u].op = op, op \in Payless
  PROVE  Settling'
<1>1. \A v \in Users : v = u
  BY DEF Alone
<1>2. op \notin {"post", "new", "charge", "write", "claim", "claimed"}
  BY DEF Payless
<1>. QED  BY <1>1, <1>2 DEF Settling, Paying, Pays

LEMMA SettlesIdle ==
  ASSUME Alone, TypeIInv, AllSolvent', NEW u \in Users, hand' = [hand EXCEPT ![u] = Idle]
  PROVE  Settling'
<1>1. hand'[u] = Idle
  BY DEF TypeIInv, HandsOK
<1>2. hand'[u].op = "idle" /\ "idle" \in Payless
  BY <1>1 DEF Idle, Payless, Ops
<1>. QED  BY <1>2, SettlesTurn

LEMMA SettlesQuietly ==
  ASSUME Alone, TypeIInv, Settling, row' = row, NEW u \in Users, NEW op, hand'[u].op = op, op \in Payless
  PROVE  Settling'
BY SettlesTurn DEF Settling, AllSolvent, Solvent

LEMMA SettlesReads ==
  ASSUME Alone, TypeIInv, Settling, NEW u \in Users, NEW d \in Docs, NEW op, op # "idle", NEW want, NEW take, NEW w,
         Pays(op, row[d], d, want), Reads(u, op, d, want, take, w)
  PROVE  Settling'
<1>1. /\ Quiet /\ hand'[u].op = op /\ hand'[u].doc = d /\ hand'[u].seen = row[d] /\ hand'[u].want = want
  BY ReadsAre
<1>2. \A v \in Users : v = u
  BY DEF Alone
<1>3. row' = row
  BY <1>1 DEF Quiet, papers
<1>4. AllSolvent'
  BY <1>3 DEF Settling, AllSolvent, Solvent
<1>5. Paying'
  BY <1>1, <1>2, <1>3 DEF Paying, Pays, Exists, Outstanding
<1>. QED  BY <1>4, <1>5 DEF Settling

LEMMA SettlesEdits ==
  ASSUME Alone, TypeIInv, Settling, NEW u \in Users, NEW d \in Docs, NEW want,
         "qty" \in DOMAIN want =>
           row[d].kind \notin Offers \cup {"asset"} /\ (row[d].kind \in Deals => row[d].paid <= want.qty),
         Edits(u, d, want)
  PROVE  Settling'
<1>1. Pays("write", row[d], d, want)
  BY DEF Pays
<1>. QED  BY <1>1, SettlesReads DEF Edits

LEMMA SettlesDeletes ==
  ASSUME Alone, TypeIInv, Settling, NEW u \in Users, NEW d \in Docs, Deletes(u, d)
  PROVE  Settling'
BY SettlesEdits DEF Deletes

LEMMA SettlesPosts ==
  ASSUME Alone, TypeIInv, Settling, NEW u \in Users, NEW d \in Docs, NEW take, row[d].kind \notin Slips, Posts(u, d, take)
  PROVE  Settling'
<1>1. Pays("post", row[d], d, Idle.want)
  BY DEF Pays
<1>. QED  BY <1>1, SettlesReads DEF Posts

(* Another document is as solvent as it was.                               *)
LEMMA SolventElse ==
  ASSUME TypeIInv, AllSolvent, NEW d \in Docs, NEW cols, Changes(d, cols), Solvent(d)'
  PROVE  AllSolvent'
<1>1. \A x \in Docs \ {d} : row'[x] = row[x]
  BY ChangesType DEF TypeIInv, PapersOK
<1>. QED  BY <1>1 DEF AllSolvent, Solvent

LEMMA SolventStatus ==
  ASSUME TypeIInv, AllSolvent, NEW d \in Docs, Changes(d, JustStatus),
         row[d].kind \in Deals /\ row'[d].status = "draft" => row[d].status = "draft"
  PROVE  AllSolvent'
<1>1. Solvent(d)
  BY DEF AllSolvent
<1>2. Like(row'[d], row[d], JustStatus)
  BY DEF Changes
<1>3. Solvent(d)'
  BY <1>1, <1>2 DEF Solvent, Like, JustStatus
<1>. QED  BY <1>3, SolventElse

LEMMA SolventOther ==
  ASSUME TypeIInv, AllSolvent, NEW d \in Docs, NEW cols, Changes(d, cols), row[d].kind \notin Credits \cup Offers
  PROVE  AllSolvent'
<1>1. row'[d].kind = row[d].kind
  BY DEF Changes, Like
<1>2. Solvent(d)'
  BY <1>1 DEF Solvent, Credits
<1>. QED  BY <1>2, SolventElse

LEMMA SettlesCreates ==
  ASSUME TypeIInv, Facts, Settling, NEW d \in Docs, NEW kinds, NEW new, Columned(new), Creates(d, kinds, new),
         row[d].kind \in Offers \cup Deals =>
           "qty" \in DOMAIN new /\ 0 <= new.qty /\ "paid" \notin DOMAIN new,
         row[d].kind \notin {"ticket", "asset"}
  PROVE  Settling'
<1>1. /\ row[d].status = "none" /\ Updates(d, new) /\ hand' = hand /\ row \in [Docs -> Row]
  BY DEF Creates, Updates, work, TypeIInv, PapersOK
<1>2. Changes(d, Columns) /\ Wrote(row'[d], row[d], new)
  BY <1>1, UpdatesDoes
<1>3. row[d].paid = 0 /\ row'[d].kind = row[d].kind
  BY <1>1, <1>2 DEF Facts, RowsOK, RowOK, FreshRow, Blank, Changes, Like
<1>4. Solvent(d)'
  BY <1>2, <1>3 DEF Solvent, Wrote, Credits
<1>5. AllSolvent'
  BY <1>2, <1>4, SolventElse DEF Settling
<1>6. \A x \in Docs \ {d} : row'[x] = row[x]
  BY <1>1, <1>2, ChangesType
<1>7. ASSUME NEW u \in Users  PROVE Pays(hand[u].op, hand[u].seen, hand[u].doc, hand[u].want)'
  <2>1. Pays(hand[u].op, hand[u].seen, hand[u].doc, hand[u].want)
    BY <1>7 DEF Settling, Paying
  <2>2. hand[u].op \in {"charge", "write"} => hand[u].doc \in Docs \ {d}
    BY <1>1, <1>7 DEF Facts, PlansOK, PlanOK, Begun, TypeIInv, HandsOK, Placed
  <2>3. hand[u].op \in {"post", "new"} /\ hand[u].seen.kind \in Slips => hand[u].want.link \in Docs \cup {NoDoc}
    BY <1>7 DEF TypeIInv, HandsOK, PlanOf, Equipped, Columned
  <2>4. ~Exists(d)
    BY <1>1 DEF Exists
  <2>. QED  BY <1>1, <1>6, <2>1, <2>2, <2>3, <2>4 DEF Pays, Exists, Outstanding
<1>. QED  BY <1>5, <1>7 DEF Settling, Paying

LEMMA SettlesKept ==
  ASSUME TypeIInv, Facts, Settling, KindsStay, NEW K, K \cap (Credits \cup Offers \cup Slips) = {}, Kept(K)
  PROVE  Settling'
<1>1. \A x \in Docs : row[x].kind \in Credits \cup Offers \cup Slips => row'[x] = row[x]
  BY DEF Kept
<1>2. AllSolvent'
  BY <1>1 DEF Settling, AllSolvent, Solvent, KindsStay, Credits
<1>3. ASSUME NEW u \in Users  PROVE Pays(hand[u].op, hand[u].seen, hand[u].doc, hand[u].want)'
  <2>1. CASE hand'[u] = hand[u]
    <3>1. Pays(hand[u].op, hand[u].seen, hand[u].doc, hand[u].want)
      BY <1>3 DEF Settling, Paying
    <3>2. hand[u].op \in {"charge", "write"} => hand[u].doc \in Docs /\ row[hand[u].doc].kind = hand[u].seen.kind
      BY <1>3 DEF TypeIInv, HandsOK, Placed
    <3>3. hand[u].op \in {"post", "new"} /\ hand[u].seen.kind \in Slips /\ hand[u].want.link # NoDoc =>
            hand[u].want.link \in Docs /\ row[hand[u].want.link].kind \in Credits
      <4>1. hand[u].op \in {"post", "new"} /\ hand[u].seen.kind \in Slips =>
              "link" \in DOMAIN hand[u].want /\ hand[u].want.link \in Docs \cup {NoDoc}
        BY <1>3 DEF TypeIInv, HandsOK, PlanOf, Equipped, Columned
      <4>2. Named(hand[u])
        BY <1>3 DEF Facts, PlansOK, PlanOK
      <4>. QED  BY <4>1, <4>2 DEF Named, Settles, Credits, Deals, Invoices, Bills
    <3>. QED  BY <1>1, <2>1, <3>1, <3>2, <3>3 DEF Pays, Exists, Outstanding, Credits
  <2>2. CASE hand'[u].op \in {"idle", "next"}
    BY <2>2 DEF Pays
  <2>3. CASE hand'[u].seen.kind \in K
    BY <2>3 DEF Pays, Credits
  <2>. QED  BY <1>3, <2>1, <2>2, <2>3 DEF Kept
<1>. QED  BY <1>2, <1>3 DEF Settling, Paying

LEMMA SalesSettling == ASSUME Alone, TypeIInv, Facts, Settling, KindsStay, SalesStep  PROVE Settling'
<1>1. ASSUME NEW d \in Docs, CreateInvoice(d)  PROVE Settling'
  <2>1. PICK q \in 1..MaxQty : Creates(d, Invoices, [status |-> "draft", qty |-> q])
    BY <1>1 DEF CreateInvoice
  <2>2. PICK new : new = [status |-> "draft", qty |-> q]
    OBVIOUS
  <2>3. /\ Columned(new) /\ Creates(d, Invoices, new)
        /\ "qty" \in DOMAIN new /\ 0 <= new.qty /\ "paid" \notin DOMAIN new
    BY <2>1, <2>2 DEF Columned, Columns, Status
  <2>4. row[d].kind \notin {"ticket", "asset"}
    BY <2>1 DEF Creates, Invoices, Bills, Slips, Offers
  <2>. QED  BY <2>3, <2>4, SettlesCreates
<1>2. ASSUME NEW d \in Docs, CreateReturn(d)  PROVE Settling'
  <2>1. PICK q \in 1..MaxQty, i \in Docs \cup {NoDoc} : Creates(d, {"saleReturn"}, [status |-> "draft", qty |-> q, link |-> i])
    BY <1>2 DEF CreateReturn
  <2>2. PICK new : new = [status |-> "draft", qty |-> q, link |-> i]
    OBVIOUS
  <2>3. /\ Columned(new) /\ Creates(d, {"saleReturn"}, new)
        /\ "qty" \in DOMAIN new /\ 0 <= new.qty /\ "paid" \notin DOMAIN new
    BY <2>1, <2>2 DEF Columned, Columns, Status
  <2>4. row[d].kind \notin {"ticket", "asset"}
    BY <2>1 DEF Creates, Invoices, Bills, Slips, Offers
  <2>. QED  BY <2>3, <2>4, SettlesCreates
<1>3. ASSUME NEW u \in Users, NEW d \in Docs,
             UpdateInvoice(u, d) \/ DeleteInvoice(u, d) \/ PostInvoice(u, d) \/ UpdateReturn(u, d) \/ DeleteReturn(u, d) \/ PostReturn(u, d) \/ ReverseInvoice(u, d)
      PROVE  Settling'
  <2>1. CASE UpdateInvoice(u, d)
    <3>1. Solvent(d) /\ row[d].kind \in Deals /\ row[d].status = "draft"
      BY <2>1 DEF UpdateInvoice, Settling, AllSolvent, Deals
    <3>2. PICK q \in 1..MaxQty : Edits(u, d, [qty |-> q])
      BY <2>1 DEF UpdateInvoice
    <3>3. row[d].kind \notin Offers \cup {"asset"} /\ row[d].paid <= q
      BY <3>1 DEF Solvent, Deals, Invoices, Bills, Offers
    <3>. QED  BY <3>2, <3>3, SettlesEdits
  <2>2. CASE DeleteInvoice(u, d)
    BY <2>2, SettlesDeletes DEF DeleteInvoice
  <2>3. CASE PostInvoice(u, d)
    BY <2>3, SettlesPosts DEF PostInvoice, Slips, Invoices, Bills
  <2>4. CASE UpdateReturn(u, d)
    BY <2>4, SettlesEdits DEF UpdateReturn, Offers, Deals, Invoices, Bills, Slips
  <2>5. CASE DeleteReturn(u, d)
    BY <2>5, SettlesDeletes DEF DeleteReturn
  <2>6. CASE PostReturn(u, d)
    BY <2>6, SettlesPosts DEF PostReturn, Slips, Invoices, Bills
  <2>7. CASE ReverseInvoice(u, d)
    <3>1. PICK want, take : Reads(u, "return", d, want, take, Main)
      BY <2>7 DEF ReverseInvoice, Keeps
    <3>2. Pays("return", row[d], d, want)
      BY <2>7 DEF ReverseInvoice, Pays
    <3>. QED  BY <3>1, <3>2, SettlesReads
  <2>. QED  BY <1>3, <2>1, <2>2, <2>3, <2>4, <2>5, <2>6, <2>7
<1>4. ASSUME NEW u \in Users, CommitInvoice(u)  PROVE Settling'
  <2>. PICK d : d = hand[u].doc
    OBVIOUS
  <2>1. /\ At(u, "post", Invoices) /\ hand' = [hand EXCEPT ![u] = Idle]
    BY <1>4 DEF CommitInvoice, Ends, EndsWith
  <2>2. d \in Docs /\ row[d] \in Row
    BY <2>1, AtIs
  <2>3. /\ Changes(d, StatusPaid)
        /\ row'[d].paid = row[d].paid \/ row'[d].paid = row[d].qty
        /\ row'[d].status # "draft"
    BY <1>4, CommitInvoiceDoes
  <2>4. Solvent(d)
    BY <2>2 DEF Settling, AllSolvent
  <2>5. Solvent(d)'
    <3>1. row'[d].kind = row[d].kind /\ row'[d].qty = row[d].qty
      BY <2>3 DEF Changes, Like, StatusPaid
    <3>. QED  BY <2>2, <2>3, <2>4, <3>1 DEF Solvent, Row
  <2>. QED  BY <2>1, <2>2, <2>3, <2>5, SolventElse, SettlesIdle DEF Settling
<1>5. ASSUME NEW u \in Users, CommitReturn(u)  PROVE Settling'
  <2>. PICK d : d = hand[u].doc
    OBVIOUS
  <2>1. At(u, "post", {"saleReturn"}) /\ hand' = [hand EXCEPT ![u] = Idle]
    BY <1>5 DEF CommitReturn, Ends, EndsWith
  <2>2. d \in Docs /\ row[d].kind \notin Deals
    BY <2>1, AtIs DEF Deals, Invoices, Bills, Slips
  <2>3. Changes(d, JustStatus)
    BY <1>5, CommitReturnDoes
  <2>. QED  BY <2>1, <2>2, <2>3, SolventStatus, SettlesIdle DEF Settling
<1>6. ASSUME NEW u \in Users, CreateReversal(u)  PROVE Settling'
  <2>1. PICK d \in Docs : row[d].kind = "saleReturn" /\ Returns(u, d) /\ hand[u].op = "return"
    BY <1>6, CreateReversalDoes
  <2>2. Changes(d, StatusLinkQty)
    BY <2>1, ReturnsDoes
  <2>3. AllSolvent'
    BY <2>1, <2>2, SolventOther DEF Settling, Credits, Deals, Invoices, Bills, Offers
  <2>4. hand'[u].op = "next" /\ "next" \in Payless
    BY <2>1 DEF Returns, TypeIInv, HandsOK, Idle, Payless, Ops
  <2>. QED  BY <2>3, <2>4, SettlesTurn
<1>. QED  BY <1>1, <1>2, <1>3, <1>4, <1>5, <1>6 DEF SalesStep

LEMMA PurchasesSettling == ASSUME Alone, TypeIInv, Facts, Settling, KindsStay, PurchasesStep  PROVE Settling'
<1>1. ASSUME NEW d \in Docs, CreateBill(d)  PROVE Settling'
  <2>1. PICK q \in 1..MaxQty : Creates(d, Bills, [status |-> "draft", qty |-> q])
    BY <1>1 DEF CreateBill
  <2>2. PICK new : new = [status |-> "draft", qty |-> q]
    OBVIOUS
  <2>3. /\ Columned(new) /\ Creates(d, Bills, new)
        /\ "qty" \in DOMAIN new /\ 0 <= new.qty /\ "paid" \notin DOMAIN new
    BY <2>1, <2>2 DEF Columned, Columns, Status
  <2>4. row[d].kind \notin {"ticket", "asset"}
    BY <2>1 DEF Creates, Invoices, Bills, Slips, Offers
  <2>. QED  BY <2>3, <2>4, SettlesCreates
<1>2. ASSUME NEW d \in Docs, CreateBillReturn(d)  PROVE Settling'
  <2>1. PICK q \in 1..MaxQty, i \in Docs \cup {NoDoc} : Creates(d, {"purchaseReturn"}, [status |-> "draft", qty |-> q, link |-> i])
    BY <1>2 DEF CreateBillReturn
  <2>2. PICK new : new = [status |-> "draft", qty |-> q, link |-> i]
    OBVIOUS
  <2>3. /\ Columned(new) /\ Creates(d, {"purchaseReturn"}, new)
        /\ "qty" \in DOMAIN new /\ 0 <= new.qty /\ "paid" \notin DOMAIN new
    BY <2>1, <2>2 DEF Columned, Columns, Status
  <2>4. row[d].kind \notin {"ticket", "asset"}
    BY <2>1 DEF Creates, Invoices, Bills, Slips, Offers
  <2>. QED  BY <2>3, <2>4, SettlesCreates
<1>3. ASSUME NEW u \in Users, NEW d \in Docs,
             UpdateBill(u, d) \/ DeleteBill(u, d) \/ PostBill(u, d) \/ UpdateBillReturn(u, d) \/ DeleteBillReturn(u, d) \/ PostBillReturn(u, d) \/ ReverseBill(u, d)
      PROVE  Settling'
  <2>1. CASE UpdateBill(u, d)
    <3>1. Solvent(d) /\ row[d].kind \in Deals /\ row[d].status = "draft"
      BY <2>1 DEF UpdateBill, Settling, AllSolvent, Deals
    <3>2. PICK q \in 1..MaxQty : Edits(u, d, [qty |-> q])
      BY <2>1 DEF UpdateBill
    <3>3. row[d].kind \notin Offers \cup {"asset"} /\ row[d].paid <= q
      BY <3>1 DEF Solvent, Deals, Invoices, Bills, Offers
    <3>. QED  BY <3>2, <3>3, SettlesEdits
  <2>2. CASE DeleteBill(u, d)
    BY <2>2, SettlesDeletes DEF DeleteBill
  <2>3. CASE PostBill(u, d)
    BY <2>3, SettlesPosts DEF PostBill, Slips, Invoices, Bills
  <2>4. CASE UpdateBillReturn(u, d)
    BY <2>4, SettlesEdits DEF UpdateBillReturn, Offers, Deals, Invoices, Bills, Slips
  <2>5. CASE DeleteBillReturn(u, d)
    BY <2>5, SettlesDeletes DEF DeleteBillReturn
  <2>6. CASE PostBillReturn(u, d)
    BY <2>6, SettlesPosts DEF PostBillReturn, Slips, Invoices, Bills
  <2>7. CASE ReverseBill(u, d)
    <3>1. PICK want, take : Reads(u, "return", d, want, take, Main)
      BY <2>7 DEF ReverseBill, Keeps
    <3>2. Pays("return", row[d], d, want)
      BY <2>7 DEF ReverseBill, Pays
    <3>. QED  BY <3>1, <3>2, SettlesReads
  <2>. QED  BY <1>3, <2>1, <2>2, <2>3, <2>4, <2>5, <2>6, <2>7
<1>4. ASSUME NEW u \in Users, CommitBill(u)  PROVE Settling'
  <2>. PICK d : d = hand[u].doc
    OBVIOUS
  <2>1. /\ At(u, "post", Bills) /\ hand' = [hand EXCEPT ![u] = Idle]
    BY <1>4 DEF CommitBill, Ends, EndsWith
  <2>2. d \in Docs /\ row[d] \in Row
    BY <2>1, AtIs
  <2>3. /\ Changes(d, StatusPaid)
        /\ row'[d].paid = row[d].paid \/ row'[d].paid = row[d].qty
        /\ row'[d].status # "draft"
    BY <1>4, CommitBillDoes
  <2>4. Solvent(d)
    BY <2>2 DEF Settling, AllSolvent
  <2>5. Solvent(d)'
    <3>1. row'[d].kind = row[d].kind /\ row'[d].qty = row[d].qty
      BY <2>3 DEF Changes, Like, StatusPaid
    <3>. QED  BY <2>2, <2>3, <2>4, <3>1 DEF Solvent, Row
  <2>. QED  BY <2>1, <2>2, <2>3, <2>5, SolventElse, SettlesIdle DEF Settling
<1>5. ASSUME NEW u \in Users, CommitBillReturn(u)  PROVE Settling'
  <2>. PICK d : d = hand[u].doc
    OBVIOUS
  <2>1. At(u, "post", {"purchaseReturn"}) /\ hand' = [hand EXCEPT ![u] = Idle]
    BY <1>5 DEF CommitBillReturn, Ends, EndsWith
  <2>2. d \in Docs /\ row[d].kind \notin Deals
    BY <2>1, AtIs DEF Deals, Invoices, Bills, Slips
  <2>3. Changes(d, JustStatus)
    BY <1>5, CommitBillReturnDoes
  <2>. QED  BY <2>1, <2>2, <2>3, SolventStatus, SettlesIdle DEF Settling
<1>6. ASSUME NEW u \in Users, CreateBillReversal(u)  PROVE Settling'
  <2>1. PICK d \in Docs : row[d].kind = "purchaseReturn" /\ Returns(u, d) /\ hand[u].op = "return"
    BY <1>6, CreateBillReversalDoes
  <2>2. Changes(d, StatusLinkQty)
    BY <2>1, ReturnsDoes
  <2>3. AllSolvent'
    BY <2>1, <2>2, SolventOther DEF Settling, Credits, Deals, Invoices, Bills, Offers
  <2>4. hand'[u].op = "next" /\ "next" \in Payless
    BY <2>1 DEF Returns, TypeIInv, HandsOK, Idle, Payless, Ops
  <2>. QED  BY <2>3, <2>4, SettlesTurn
<1>. QED  BY <1>1, <1>2, <1>3, <1>4, <1>5, <1>6 DEF PurchasesStep

LEMMA VouchersSettling == ASSUME Alone, TypeIInv, Facts, Settling, KindsStay, VouchersStep  PROVE Settling'
<1>1. ASSUME NEW d \in Docs, CreateVoucher(d)  PROVE Settling'
  <2>1. PICK t \in Terms(row[d].kind) : Creates(d, Slips, Voucher(t, "draft"))
    BY <1>1 DEF CreateVoucher
  <2>2. PICK new : new = Voucher(t, "draft")
    OBVIOUS
  <2>3. Columned(new)
    BY <2>2 DEF Voucher, Terms, Columned, Columns, Status
  <2>4. row[d].kind \in Slips
    BY <2>1 DEF Creates
  <2>5. row[d].kind \notin Offers \cup Deals \cup {"ticket", "asset"}
    BY <2>4 DEF Slips, Offers, Deals, Invoices, Bills
  <2>. QED  BY <2>1, <2>2, <2>3, <2>5, SettlesCreates
<1>2. ASSUME NEW u \in Users, NEW d \in Docs,
             CreatePosted(u, d) \/ PostVoucher(u, d) \/ UpdateVoucher(u, d) \/ DeleteVoucher(u, d) \/ ReverseVoucher(u, d)
      PROVE  Settling'
  <2>1. CASE CreatePosted(u, d)
    <3>1. PICK t \in Terms(row[d].kind) : Acceptable(row[d].kind, t) /\ Reads(u, "new", d, Voucher(t, "posted"), <<>>, Main)
      BY <2>1 DEF CreatePosted
    <3>2. PICK want : want = Voucher(t, "posted")
      OBVIOUS
    <3>3. want.link = t.link /\ want.applied = t.applied
      BY <3>2 DEF Voucher
    <3>4. Pays("new", row[d], d, want)
      BY <2>1, <3>1, <3>3 DEF CreatePosted, Pays, Acceptable, Slips
    <3>. QED  BY <3>1, <3>2, <3>4, SettlesReads
  <2>2. CASE PostVoucher(u, d)
    <3>1. PICK t : /\ t = [qty |-> row[d].qty, link |-> row[d].link, applied |-> row[d].applied]
                   /\ Acceptable(row[d].kind, t) /\ Reads(u, "post", d, t, <<>>, Main)
      BY <2>2 DEF PostVoucher
    <3>2. Pays("post", row[d], d, t)
      BY <2>2, <3>1 DEF PostVoucher, Pays, Acceptable, Slips
    <3>. QED  BY <3>1, <3>2, SettlesReads
  <2>3. CASE UpdateVoucher(u, d)
    <3>1. PICK want : Edits(u, d, want)
      BY <2>3 DEF UpdateVoucher
    <3>2. row[d].kind \notin Offers \cup Deals \cup {"asset"}
      BY <2>3 DEF UpdateVoucher, Slips, Offers, Deals, Invoices, Bills
    <3>. QED  BY <3>1, <3>2, SettlesEdits
  <2>4. CASE DeleteVoucher(u, d)
    BY <2>4, SettlesDeletes DEF DeleteVoucher
  <2>5. CASE ReverseVoucher(u, d)
    <3>1. PICK want, take : Reads(u, "reverse", d, want, take, Main)
      BY <2>5 DEF ReverseVoucher, Keeps
    <3>2. Pays("reverse", row[d], d, want)
      BY <2>5 DEF ReverseVoucher, Pays
    <3>. QED  BY <3>1, <3>2, SettlesReads
  <2>. QED  BY <1>2, <2>1, <2>2, <2>3, <2>4, <2>5
<1>3. ASSUME NEW u \in Users, CommitVoucher(u) \/ CommitCreated(u)  PROVE Settling'
  <2>. PICK d, i, n : d = hand[u].doc /\ i = hand[u].want.link /\ n = hand[u].want.applied
    OBVIOUS
  <2>1. PICK op \in {"post", "new"} : At(u, op, Slips)
    BY <1>3 DEF CommitVoucher, CommitCreated
  <2>2. d \in Docs /\ row[d].kind \in Slips /\ n \in Int
    BY <2>1, SlipPlan
  <2>3. Applies(d, i, n)
    BY <1>3, CommitVoucherDoes, CommitCreatedDoes
  <2>4. hand' = [hand EXCEPT ![u] = Idle]
    BY <1>3 DEF CommitVoucher, CommitCreated, Booking, EndsWith
  <2>5. i # NoDoc => Exists(i) /\ n <= Outstanding(row[i])
    BY <2>1 DEF Settling, Paying, Pays, At
  <2>6. ASSUME NEW x \in Docs  PROVE Solvent(x)'
    <3>1. Solvent(x) /\ row[x] \in Row /\ row'[x].kind = row[x].kind
      BY <2>3 DEF Settling, AllSolvent, TypeIInv, PapersOK, Applies, KindsStay
    <3>2. CASE x = d
      BY <2>2, <3>1, <3>2 DEF Solvent, Credits, Deals, Invoices, Bills, Offers, Slips
    <3>3. CASE x = i /\ x # d
      <4>1. /\ Like(row'[x], row[x], StatusPaid) /\ row'[x].paid = row[x].paid + n
            /\ row'[x].status # "draft"
        BY <2>3, <2>5, <3>3, BooksAssumption DEF Applies, BooksAssumption
      <4>2. row'[x].qty = row[x].qty
        BY <4>1 DEF Like, StatusPaid
      <4>3. row[x].paid + n <= row[x].qty
        <5>1. n <= row[x].qty - row[x].paid
          BY <2>5, <3>3, BooksAssumption DEF BooksAssumption, Outstanding
        <5>2. row[x].qty \in Int /\ row[x].paid \in Int
          BY <3>1, RowColumns
        <5>. QED  BY <2>2, <5>1, <5>2
      <4>. QED  BY <3>1, <4>1, <4>2, <4>3 DEF Solvent
    <3>4. CASE x \notin {d, i}
      BY <2>3, <3>1, <3>4 DEF Applies, Solvent
    <3>. QED  BY <3>2, <3>3, <3>4
  <2>. QED  BY <2>4, <2>6, SettlesIdle DEF AllSolvent
<1>4. ASSUME NEW u \in Users, CommitReverse(u)  PROVE Settling'
  <2>. PICK d : d = hand[u].doc
    OBVIOUS
  <2>1. At(u, "reverse", Slips) /\ hand' = [hand EXCEPT ![u] = Idle]
    BY <1>4 DEF CommitReverse, Ends, EndsWith
  <2>2. d \in Docs /\ row[d].kind \notin Deals
    BY <2>1, AtIs DEF Deals, Invoices, Bills, Slips
  <2>3. Changes(d, JustStatus)
    BY <1>4, CommitReverseDoes
  <2>. QED  BY <2>1, <2>2, <2>3, SolventStatus, SettlesIdle DEF Settling
<1>. QED  BY <1>1, <1>2, <1>3, <1>4 DEF VouchersStep

LEMMA TillSettling == ASSUME Alone, TypeIInv, Facts, Settling, KindsStay, TillStep  PROVE Settling'
<1>1. ASSUME NEW d \in Docs, OpenShift(d)  PROVE Settling'
  <2>1. PICK n \in {0, 1} : Creates(d, {"shift"}, [status |-> "open", qty |-> n])
    BY <1>1 DEF OpenShift
  <2>2. PICK new : new = [status |-> "open", qty |-> n]
    OBVIOUS
  <2>3. Columned(new)
    BY <2>2 DEF Columned, Columns, Status
  <2>4. row[d].kind = "shift"
    BY <2>1 DEF Creates
  <2>. QED  BY <2>1, <2>2, <2>3, <2>4, SettlesCreates DEF Offers, Deals, Invoices, Bills
<1>2. ASSUME NEW u \in Users, NEW d \in Docs,
             Checkout(u, d) \/ CloseShift(u, d) \/ HealShift(u, d)
      PROVE  Settling'
  <2>1. CASE Checkout(u, d)
    <3>1. PICK t \in Carts(d) : t.paid <= t.qty /\ Reads(u, "new", d, t, Fifo(t.qty), Main)
      BY <2>1 DEF Checkout
    <3>2. row[d].kind \notin Slips \cup {"asset"}
      BY <2>1 DEF Checkout, Slips
    <3>3. Pays("new", row[d], d, t)
      BY <3>1, <3>2 DEF Pays
    <3>. QED  BY <3>1, <3>3, SettlesReads
  <2>2. CASE CloseShift(u, d)
    <3>1. PICK want, take : Reads(u, "close", d, want, take, Main)
      BY <2>2 DEF CloseShift, Keeps
    <3>2. Pays("close", row[d], d, want)
      BY <2>2 DEF CloseShift, Pays
    <3>. QED  BY <3>1, <3>2, SettlesReads
  <2>3. CASE HealShift(u, d)
    <3>1. PICK want, take : Reads(u, "lookup", d, want, take, Main)
      BY <2>3 DEF HealShift, Keeps
    <3>2. Pays("lookup", row[d], d, want)
      BY <2>3 DEF HealShift, Pays
    <3>. QED  BY <3>1, <3>2, SettlesReads
  <2>. QED  BY <1>2, <2>1, <2>2, <2>3
<1>3. ASSUME NEW u \in Users, CommitCheckout(u)  PROVE Settling'
  <2>. PICK d : d = hand[u].doc
    OBVIOUS
  <2>1. At(u, "new", {"ticket"}) /\ hand' = [hand EXCEPT ![u] = Idle]
    BY <1>3 DEF CommitCheckout, Ends, EndsWith
  <2>2. d \in Docs /\ {"qty", "paid"} \subseteq DOMAIN hand[u].want /\ hand[u].seen.kind = "ticket" /\ hand[u].op = "new"
    BY <2>1, AtIs DEF Equipped
  <2>3. Changes(d, Columns) /\ row[d].kind = "ticket" /\ Wrote(row'[d], row[d], hand[u].want)
    BY <1>3, CommitCheckoutDoes
  <2>4. hand[u].want.paid <= hand[u].want.qty
    BY <2>2 DEF Settling, Paying, Pays
  <2>5. Solvent(d)'
    <3>1. row'[d].kind = "ticket" /\ row'[d].qty = hand[u].want.qty /\ row'[d].paid = hand[u].want.paid
      BY <2>2, <2>3 DEF Changes, Like, Wrote
    <3>. QED  BY <2>4, <3>1 DEF Solvent, Deals, Invoices, Bills, Offers
  <2>. QED  BY <2>1, <2>2, <2>3, <2>5, SolventElse, SettlesIdle DEF Settling
<1>4. ASSUME NEW u \in Users, CommitClose(u)  PROVE Settling'
  <2>. PICK d : d = hand[u].doc
    OBVIOUS
  <2>1. At(u, "close", {"shift"}) /\ hand' = [hand EXCEPT ![u].op = "lookup"]
    BY <1>4 DEF CommitClose
  <2>2. d \in Docs /\ Changes(d, Columns) /\ row[d].kind = "shift"
    BY <1>4, <2>1, AtIs, CommitCloseDoes
  <2>3. AllSolvent'
    BY <2>2, SolventOther DEF Settling, Credits, Deals, Invoices, Bills, Offers
  <2>4. hand'[u].op = "lookup" /\ "lookup" \in Payless
    BY <2>1 DEF TypeIInv, HandsOK, PlanOf, Payless, Ops
  <2>. QED  BY <2>3, <2>4, SettlesTurn
<1>5. ASSUME NEW u \in Users, LookUpDifference(u) \/ BookDifference(u)  PROVE Settling'
  <2>1. PICK op : (op = "entry" \/ op = "idle") /\ hand'[u].op = op /\ row' = row
    BY <1>5 DEF LookUpDifference, BookDifference, TypeIInv, HandsOK, PlanOf, Idle, papers
  <2>2. op \in Payless
    BY <2>1 DEF Payless, Ops
  <2>. QED  BY <2>1, <2>2, SettlesQuietly
<1>. QED  BY <1>1, <1>2, <1>3, <1>4, <1>5 DEF TillStep

LEMMA ConversionSettling == ASSUME Alone, TypeIInv, Facts, Settling, KindsStay, ConversionStep  PROVE Settling'
<1>1. ASSUME NEW d \in Docs, CreateOffer(d)  PROVE Settling'
  <2>1. PICK q \in 1..MaxQty : Creates(d, Offers, [status |-> "draft", qty |-> q])
    BY <1>1 DEF CreateOffer
  <2>2. PICK new : new = [status |-> "draft", qty |-> q]
    OBVIOUS
  <2>3. /\ Columned(new) /\ Creates(d, Offers, new)
        /\ "qty" \in DOMAIN new /\ 0 <= new.qty /\ "paid" \notin DOMAIN new
    BY <2>1, <2>2 DEF Columned, Columns, Status
  <2>4. row[d].kind \notin {"ticket", "asset"}
    BY <2>1 DEF Creates, Invoices, Bills, Slips, Offers
  <2>. QED  BY <2>3, <2>4, SettlesCreates
<1>2. ASSUME NEW u \in Users, NEW d \in Docs,
             UpdateOffer(u, d) \/ DeleteOffer(u, d) \/ ConvertOffer(u, d)
      PROVE  Settling'
  <2>1. CASE UpdateOffer(u, d)
    BY <2>1, SettlesEdits DEF UpdateOffer, Offers, Deals, Invoices, Bills, Slips
  <2>2. CASE DeleteOffer(u, d)
    BY <2>2, SettlesDeletes DEF DeleteOffer
  <2>3. CASE ConvertOffer(u, d)
    <3>1. 0 <= row[d].qty
      BY <2>3 DEF ConvertOffer, Settling, AllSolvent, Solvent
    <3>2. Pays("claim", row[d], d, Idle.want)
      BY <3>1 DEF Pays
    <3>. QED  BY <2>3, <3>2, SettlesReads DEF ConvertOffer, Keeps
  <2>. QED  BY <1>2, <2>1, <2>2, <2>3
<1>3. ASSUME NEW u \in Users, ClaimOffer(u)  PROVE Settling'
  <2>. PICK d : d = hand[u].doc
    OBVIOUS
  <2>. PICK h : h = hand'[u]
    OBVIOUS
  <2>1. At(u, "claim", Offers) /\ hand' = [hand EXCEPT ![u].op = "claimed"]
    BY <1>3 DEF ClaimOffer
  <2>2. d \in Docs /\ row[d].kind \notin Deals /\ Changes(d, JustStatus)
    BY <1>3, <2>1, AtIs, ClaimOfferDoes DEF Offers, Deals, Invoices, Bills
  <2>3. AllSolvent'
    BY <2>2, SolventStatus DEF Settling
  <2>4. h.op = "claimed" /\ h.seen = hand[u].seen
    BY <2>1 DEF TypeIInv, HandsOK, PlanOf
  <2>5. 0 <= hand[u].seen.qty
    BY <2>1 DEF At, Settling, Paying, Pays
  <2>6. Pays(h.op, h.seen, h.doc, h.want)'
    BY <2>4, <2>5 DEF Pays
  <2>7. \A v \in Users : v = u
    BY DEF Alone
  <2>. QED  BY <2>3, <2>6, <2>7 DEF Settling, Paying
<1>4. ASSUME NEW u \in Users, CreateConverted(u)  PROVE Settling'
  <2>. PICK i \in Docs, lost \in BOOLEAN : Creation(u, i, lost)
    BY <1>4, CreateConvertedIs
  <2>1. At(u, "claimed", Offers) /\ row[i].status = "none" /\ Converts(i, hand[u].doc, hand[u].seen.qty)
    BY DEF Creation
  <2>2. hand[u].doc \in Docs /\ row[i] \in Row /\ hand[u].seen.qty \in Int /\ row \in [Docs -> Row]
    BY <2>1, AtIs, RowColumns DEF TypeIInv, PapersOK
  <2>3. Changes(i, StatusLinkQty) /\ row'[i].qty = hand[u].seen.qty
    BY <2>1, <2>2, ConvertsDoes
  <2>4. 0 <= hand[u].seen.qty
    BY <2>1 DEF At, Settling, Paying, Pays
  <2>5. row[i].paid = 0 /\ row'[i].paid = row[i].paid
    <3>1. FreshRow(i)
      BY DEF Facts, RowsOK, RowOK
    <3>2. row[i].paid = 0
      BY <2>1, <3>1 DEF FreshRow, Blank
    <3>3. row'[i].paid = row[i].paid
      BY <2>3 DEF Changes, Like, StatusLinkQty
    <3>. QED  BY <3>2, <3>3
  <2>6. Solvent(i)'
    BY <2>3, <2>4, <2>5 DEF Solvent
  <2>7. AllSolvent'
    BY <2>3, <2>6, SolventElse DEF Settling
  <2>8. PICK op : (op = "release" \/ op = "idle") /\ hand'[u].op = op
    BY DEF Creation, TypeIInv, HandsOK, PlanOf, Idle
  <2>9. op \in Payless
    BY <2>8 DEF Payless, Ops
  <2>. QED  BY <2>7, <2>8, <2>9, SettlesTurn
<1>5. ASSUME NEW u \in Users, NumberFails(u) \/ CreateFails(u) \/ ReleaseFails(u)  PROVE Settling'
  <2>1. PICK op : (op = "release" \/ op = "idle") /\ hand'[u].op = op /\ row' = row
    BY <1>5 DEF NumberFails, CreateFails, ReleaseFails, TypeIInv, HandsOK, PlanOf, Idle, papers
  <2>2. op \in Payless
    BY <2>1 DEF Payless, Ops
  <2>. QED  BY <2>1, <2>2, SettlesQuietly
<1>6. ASSUME NEW u \in Users, ReleaseOffer(u)  PROVE Settling'
  <2>. PICK d : d = hand[u].doc
    OBVIOUS
  <2>1. At(u, "release", Offers) /\ hand' = [hand EXCEPT ![u] = Idle]
    BY <1>6 DEF ReleaseOffer, Ends, EndsWith
  <2>2. d \in Docs /\ row[d].kind \notin Deals
    BY <2>1, AtIs DEF Deals, Invoices, Bills, Offers
  <2>3. Changes(d, JustStatus)
    BY <1>6, ReleaseOfferDoes
  <2>. QED  BY <2>1, <2>2, <2>3, SolventStatus, SettlesIdle DEF Settling
<1>. QED  BY <1>1, <1>2, <1>3, <1>4, <1>5, <1>6 DEF ConversionStep

(* A month never charges more than what is left of the cost.               *)
LEMMA ChargeFits ==
  ASSUME NEW r \in Row, NEW m \in Months, 0 <= r.qty, Charge(r, m) > 0
  PROVE  r.paid + Charge(r, m) <= r.qty
<1>1. r.qty \in Nat /\ r.paid \in Int /\ r.actual \in Int /\ m \in 1..2
  BY RowColumns DEF Months
<1>2. Target(r, m) <= r.qty /\ Target(r, m) \in Int
  <2>1. CASE m > r.actual
    BY <1>1, <2>1 DEF Target
  <2>2. CASE m <= r.actual
    <3>1. PICK k \in Int : k = (m * r.qty) \div r.actual
      BY <1>1, <2>2
    <3>2. r.actual * k <= m * r.qty
      BY <1>1, <2>2, <3>1
    <3>3. m * r.qty <= r.actual * r.qty
      <4>1. PICK e \in Nat : r.actual = m + e
        BY <1>1, <2>2
      <4>. PICK q \in Nat : q = r.qty
        BY <1>1
      <4>2. r.actual * q = m * q + e * q /\ e * q >= 0
        <5>1. (m + e) * q = m * q + e * q
          BY <1>1
        <5>2. e * q >= 0
          OBVIOUS
        <5>. QED  BY <4>1, <5>1, <5>2
      <4>. QED  BY <1>1, <4>1, <4>2
    <3>4. k <= r.qty
      <4>1. SUFFICES ASSUME k >= r.qty + 1  PROVE FALSE
        BY <1>1
      <4>2. PICK e \in Nat : k = r.qty + 1 + e
        <5>1. k - r.qty - 1 \in Nat /\ k = r.qty + 1 + (k - r.qty - 1)
          BY <1>1, <4>1
        <5>. QED  BY <5>1
      <4>3. r.actual * k = r.actual * r.qty + r.actual + r.actual * e /\ r.actual * e >= 0 /\ r.actual > 0
        BY <1>1, <2>2, <4>2
      <4>. QED  BY <1>1, <3>2, <3>3, <4>3
    <3>. QED  BY <1>1, <2>2, <3>1, <3>4 DEF Target
  <2>. QED  BY <1>1, <2>1, <2>2
<1>. QED  BY <1>1, <1>2 DEF Charge

LEMMA AssetsSettling == ASSUME Alone, TypeIInv, Facts, Settling, KindsStay, AssetsStep  PROVE Settling'
<1>1. ASSUME NEW u \in Users, NEW d \in Docs,
             CreateFixedAsset(u, d) \/ UpdateFixedAsset(u, d) \/ DeleteFixedAsset(u, d) \/ RunDepreciation(u, d) \/ DisposeFixedAsset(u, d)
      PROVE  Settling'
  <2>1. CASE CreateFixedAsset(u, d)
    <3>1. PICK q, life, f, want :
            /\ q \in 1..MaxQty /\ life \in 1..2
            /\ want = [status |-> "active", qty |-> q, actual |-> life, applied |-> f.applied, mark |-> f.mark]
            /\ Reads(u, "new", d, want, <<>>, Main)
      BY <2>1 DEF CreateFixedAsset
    <3>2. row[d].kind \notin Slips \cup {"ticket"} /\ 0 <= want.qty
      BY <2>1, <3>1 DEF CreateFixedAsset, Slips
    <3>3. Pays("new", row[d], d, want)
      BY <3>2 DEF Pays
    <3>. QED  BY <3>1, <3>3, SettlesReads
  <2>2. CASE UpdateFixedAsset(u, d)
    BY <2>2, SettlesEdits DEF UpdateFixedAsset, Offers, Deals, Invoices, Bills, Slips
  <2>3. CASE DeleteFixedAsset(u, d)
    BY <2>3, SettlesDeletes DEF DeleteFixedAsset
  <2>4. CASE RunDepreciation(u, d)
    <3>1. PICK m, want :
            /\ m \in Months /\ want = [paid |-> Charge(row[d], m), mark |-> m]
            /\ Charge(row[d], m) > 0 /\ Reads(u, "charge", d, want, <<>>, Main)
      BY <2>4 DEF RunDepreciation
    <3>2. row[d].paid + want.paid <= row[d].qty
      <4>1. row[d] \in Row /\ 0 <= row[d].qty
        BY <2>4 DEF RunDepreciation, Settling, AllSolvent, Solvent, TypeIInv, PapersOK
      <4>2. row[d].paid + Charge(row[d], m) <= row[d].qty
        BY <3>1, <4>1, ChargeFits
      <4>. QED  BY <3>1, <4>2
    <3>3. Pays("charge", row[d], d, want)
      BY <3>2 DEF Pays
    <3>. QED  BY <3>1, <3>3, SettlesReads
  <2>5. CASE DisposeFixedAsset(u, d)
    <3>1. PICK want, take : Reads(u, "dispose", d, want, take, Main)
      BY <2>5 DEF DisposeFixedAsset, Keeps
    <3>2. Pays("dispose", row[d], d, want)
      BY <2>5 DEF DisposeFixedAsset, Pays
    <3>. QED  BY <3>1, <3>2, SettlesReads
  <2>. QED  BY <1>1, <2>1, <2>2, <2>3, <2>4, <2>5
<1>2. ASSUME NEW u \in Users, CommitAsset(u) \/ CommitDepreciation(u) \/ CommitDisposal(u)  PROVE Settling'
  <2>. PICK d : d = hand[u].doc
    OBVIOUS
  <2>. PICK h : h = hand[u]
    OBVIOUS
  <2>1. PICK op \in {"new", "charge", "dispose"} : At(u, op, {"asset"}) /\ hand' = [hand EXCEPT ![u] = Idle]
    BY <1>2 DEF CommitAsset, CommitDepreciation, CommitDisposal, Ends, EndsWith
  <2>2. /\ d \in Docs /\ row[d] \in Row /\ row[d].kind = "asset" /\ h.op = op /\ h.doc = d /\ h.seen.kind = "asset"
        /\ PlanOK(h) /\ Columned(h.want) /\ Equipped(op, h.seen.kind, h.want)
    BY <2>1, PlanIs
  <2>3. Solvent(d) /\ Pays(h.op, h.seen, h.doc, h.want)
    BY <2>2 DEF Settling, AllSolvent, Paying
  <2>4. \E cols : Changes(d, cols)
    BY <1>2, CommitAssetDoes, CommitDepreciationDoes, CommitDisposalDoes
  <2>5. row'[d].kind = "asset"
    BY <2>2, <2>4 DEF Changes, Like
  <2>6. row'[d].paid <= row'[d].qty /\ 0 <= row'[d].qty
    <3>1. CASE CommitAsset(u)
      <4>1. Wrote(row'[d], row[d], h.want) /\ row[d].status = "none" /\ h.op = "new"
        BY <3>1, CommitAssetDoes DEF CommitAsset, At
      <4>2. row[d].paid = 0 /\ 0 <= h.want.qty /\ "qty" \in DOMAIN h.want /\ "paid" \notin DOMAIN h.want
        <5>1. FreshRow(d)
          BY <2>2 DEF Facts, RowsOK, RowOK
        <5>2. row[d].paid = 0
          BY <4>1, <5>1 DEF FreshRow, Blank
        <5>3. DOMAIN h.want = {"status", "qty", "actual", "applied", "mark"}
          BY <2>2, <4>1 DEF PlanOK, Renewed
        <5>4. 0 <= h.want.qty
          BY <2>2, <2>3, <4>1 DEF Pays
        <5>. QED  BY <5>2, <5>3, <5>4
      <4>. QED  BY <4>1, <4>2 DEF Wrote
    <3>2. CASE CommitDepreciation(u)
      <4>1. /\ Changes(d, JustPaid) /\ h.want.paid \in Int /\ h.op = "charge"
            /\ row'[d].paid = row[d].paid \/ row'[d].paid = row[d].paid + h.want.paid
        BY <3>2, CommitDepreciationDoes DEF CommitDepreciation, At
      <4>2. row'[d].qty = row[d].qty
        BY <4>1 DEF Changes, Like, JustPaid
      <4>3. row[d].paid <= row[d].qty /\ row[d].paid + h.want.paid <= row[d].qty /\ 0 <= row[d].qty
        BY <2>2, <2>3, <4>1 DEF Solvent, Pays, Credits
      <4>. QED  BY <4>1, <4>2, <4>3
    <3>3. CASE CommitDisposal(u)
      <4>1. /\ Wrote(row'[d], row[d], h.want) \/ row' = row
            /\ h.op = "dispose"
        BY <3>3, CommitDisposalDoes DEF CommitDisposal, At
      <4>2. DOMAIN h.want = {"status", "applied"}
        BY <2>2, <4>1 DEF PlanOK, Finished
      <4>3. row'[d].paid = row[d].paid /\ row'[d].qty = row[d].qty
        BY <4>1, <4>2 DEF Wrote
      <4>. QED  BY <2>2, <2>3, <4>3 DEF Solvent, Credits
    <3>. QED  BY <1>2, <3>1, <3>2, <3>3
  <2>7. Solvent(d)'
    BY <2>5, <2>6 DEF Solvent, Deals, Invoices, Bills
  <2>. QED  BY <2>1, <2>2, <2>4, <2>7, SolventElse, SettlesIdle DEF Settling
<1>. QED  BY <1>1, <1>2 DEF AssetsStep

LEMMA WriteSettling ==
  ASSUME Alone, TypeIInv, Facts, Settling, NEW u \in Users, Write(u)
  PROVE  Settling'
<1>. PICK d : d = hand[u].doc
  OBVIOUS
<1>. PICK h : h = hand[u]
  OBVIOUS
<1>1. h.op = "write" /\ hand' = [hand EXCEPT ![u] = Idle] /\ row \in [Docs -> Row]
  BY DEF Write, EndsWith, TypeIInv, PapersOK
<1>2. /\ d \in Docs /\ row[d] \in Row /\ row[d].kind = h.seen.kind /\ Columned(h.want) /\ Meant(h) /\ h.doc = d
  BY <1>1 DEF TypeIInv, PapersOK, HandsOK, Placed, PlanOf, Facts, PlansOK, PlanOK
<1>3. Solvent(d) /\ Pays("write", h.seen, d, h.want)
  BY <1>1, <1>2 DEF Settling, AllSolvent, Paying
<1>4. CASE Exists(d)
  <2>1. Updates(d, h.want)
    BY <1>4 DEF Write, Updates
  <2>2. /\ Changes(d, Columns) /\ Wrote(row'[d], row[d], h.want)
        /\ row'[d].status = IF "status" \in DOMAIN h.want THEN h.want.status ELSE row[d].status
    BY <1>1, <1>2, <2>1, UpdatesDoes
  <2>3. row'[d].kind = row[d].kind
    BY <2>2 DEF Changes, Like
  <2>4. row'[d].paid = row[d].paid /\ row[d].kind # "ticket"
    BY <1>1, <1>2, <2>2 DEF Meant, Wrote
  <2>5. row[d].kind \in Deals /\ row'[d].status = "draft" => row[d].status = "draft"
    BY <1>1, <1>2, <2>2 DEF Meant
  <2>6. row[d].kind \in Offers \cup {"asset"} => row'[d].qty = row[d].qty
    BY <1>2, <1>3, <2>2 DEF Pays, Wrote
  <2>7. row[d].kind \in Deals => row'[d].qty = row[d].qty \/ row[d].paid <= row'[d].qty
    BY <1>2, <1>3, <2>2 DEF Pays, Wrote
  <2>8. Solvent(d)'
    BY <1>3, <2>3, <2>4, <2>5, <2>6, <2>7 DEF Solvent, Credits
  <2>. QED  BY <1>1, <1>2, <2>2, <2>8, SolventElse, SettlesIdle DEF Settling
<1>5. CASE ~Exists(d)
  <2>1. row' = row
    BY <1>5 DEF Write
  <2>. QED  BY <1>1, <2>1, SettlesIdle DEF Settling, AllSolvent, Solvent
<1>. QED  BY <1>4, <1>5

LEMMA StepSettling == ASSUME Alone, TypeIInv, Facts, Settling, [Next]_books  PROVE Settling'
<1>. KindsStay
  BY StepGoesOn
<1>1. ASSUME NEW u \in Users, Write(u)  PROVE Settling'
  BY <1>1, WriteSettling
<1>2. ASSUME NEW u \in Users, Fails(u)  PROVE Settling'
  BY <1>2, SettlesIdle DEF Fails, papers, Settling, AllSolvent, Solvent
<1>3. CASE UNCHANGED books
  BY <1>3 DEF books, papers, work, Settling, AllSolvent, Solvent, Paying, Pays, Exists, Outstanding
<1>4. CASE SalesStep \/ PurchasesStep \/ VouchersStep \/ TillStep \/ ConversionStep \/ AssetsStep
  BY <1>4, SalesSettling, PurchasesSettling, VouchersSettling, TillSettling, ConversionSettling, AssetsSettling
<1>5. CASE InventoryStep \/ ManufacturingStep \/ PeriodsStep \/ JournalsStep \/ PayrollStep \/ LeavesStep
  <2>1. CASE InventoryStep
    <3>1. AboutInventory \cap (Credits \cup Offers \cup Slips) = {}
      BY DEF AboutInventory, Credits, Deals, Invoices, Bills, Offers, Slips
    <3>. QED  BY <2>1, <3>1, InventoryKept, SettlesKept
  <2>2. CASE ManufacturingStep
    <3>1. AboutOrders \cap (Credits \cup Offers \cup Slips) = {}
      BY DEF AboutOrders, Credits, Deals, Invoices, Bills, Offers, Slips
    <3>. QED  BY <2>2, <3>1, ManufacturingKept, SettlesKept
  <2>3. CASE PeriodsStep
    <3>1. AboutPeriods \cap (Credits \cup Offers \cup Slips) = {}
      BY DEF AboutPeriods, Credits, Deals, Invoices, Bills, Offers, Slips
    <3>. QED  BY <2>3, <3>1, PeriodsKept, SettlesKept
  <2>4. CASE JournalsStep
    <3>1. AboutJournals \cap (Credits \cup Offers \cup Slips) = {}
      BY DEF AboutJournals, Credits, Deals, Invoices, Bills, Offers, Slips
    <3>. QED  BY <2>4, <3>1, JournalsKept, SettlesKept
  <2>5. CASE PayrollStep
    <3>1. AboutPayroll \cap (Credits \cup Offers \cup Slips) = {}
      BY DEF AboutPayroll, Credits, Deals, Invoices, Bills, Offers, Slips
    <3>. QED  BY <2>5, <3>1, PayrollKept, SettlesKept
  <2>6. CASE LeavesStep
    <3>1. AboutLeaves \cap (Credits \cup Offers \cup Slips) = {}
      BY DEF AboutLeaves, Credits, Deals, Invoices, Bills, Offers, Slips
    <3>. QED  BY <2>6, <3>1, LeavesKept, SettlesKept
  <2>. QED  BY <1>5, <2>1, <2>2, <2>3, <2>4, <2>5, <2>6
<1>. QED  BY <1>1, <1>2, <1>3, <1>4, <1>5 DEF Next, BooksStep

LEMMA InitSettling == Init => Settling
<1>. SUFFICES ASSUME Init  PROVE Settling
  OBVIOUS
<1>1. PICK mix \in Mixes, before \in {"none", "closed"} :
       row = [d \in Docs |-> [Blank(mix[d]) EXCEPT !.status = IF mix[d] = "year" THEN before ELSE @]]
  BY DEF Init, BooksInit
<1>2. \A d \in Docs : row[d].paid = 0 /\ row[d].qty = 0
  BY <1>1 DEF Blank
<1>3. \A u \in Users : hand[u] = Idle
  BY DEF Init, BooksInit
<1>. QED  BY <1>2, <1>3, IdleIsPlan DEF Settling, AllSolvent, Solvent, Paying, Pays

(* A session on its own never settles more of an invoice, of a ticket or   *)
(* of the cost of an asset than there is: what a voucher applies was held  *)
(* against what was outstanding (accounting/api.ts), and a month charges   *)
(* what is missing of the target (assets.ts), which never passes the cost, *)
(* whatever the order of the months.                                       *)
THEOREM NothingIsOversettled == ASSUME Alone  PROVE Spec => []SettledWithinTotal
<1>1. Init => TypeIInv /\ Facts /\ Settling
  BY InitType, InitFacts, InitSettling
<1>2. TypeIInv /\ Facts /\ Settling /\ [Next]_books => (TypeIInv /\ Facts /\ Settling)'
  BY TypeStep, FactsStep, StepSettling
<1>3. Settling => SettledWithinTotal
  BY DEF Settling, AllSolvent, Solvent, SettledWithinTotal, Credits, Deals
<1>. QED  BY <1>1, <1>2, <1>3, PTL DEF Spec
-----------------------------------------------------------------------------
(* What a plan relies on with the policies on: the cash, the credit and    *)
(* the goods it has asked for.                                             *)
Strict == Allow = {} /\ CreditLimit # 0
Carried == Bills \cup {"saleReturn", "transfer"}
Moving == Carried \cup Invoices \cup {"purchaseReturn", "adjustment", "ticket", "payment"}
Sensible(d) ==
  /\ row[d].kind \in Carried => row[d].qty >= 0
  /\ row[d].kind = "adjustment" => row[d].actual >= 0
Held(n) == \E w \in Warehouses : stock["raw"][w] >= n
Granting(n) == n = 0 \/ owed + n <= CreditLimit
Covers(op, s, d, w) ==
  /\ op = "write" =>
       /\ s.kind \in Carried /\ "qty" \in DOMAIN w => w.qty >= 0
       /\ s.kind = "adjustment" /\ "actual" \in DOMAIN w => w.actual >= 0
  /\ op = "return" /\ s.kind \in Invoices \cup {"ticket"} => w.qty >= 0
  /\ op = "post" /\ s.kind = "adjustment" => s.actual >= 0
  /\ op = "post" /\ s.kind = "transfer" => stock["raw"][Main] >= Lines(d)
  /\ op = "post" /\ s.kind \in Invoices \cup {"purchaseReturn"} => Held(Lines(d))
  /\ op = "post" /\ s.kind = "sale" => Granting(Outstanding(s))
  /\ op = "post" /\ s.kind = "cashPurchase" => gl["cash"] >= s.qty
  /\ op \in {"post", "new"} /\ s.kind = "payment" => gl["cash"] >= w.qty
  /\ op = "new" /\ s.kind = "ticket" => Held(w.qty) /\ Granting(w.qty - w.paid)
AllSensible == \A d \in Docs : Sensible(d)
Covered == \A u \in Users : Covers(hand[u].op, hand[u].seen, hand[u].doc, hand[u].want)
Careful == AllSensible /\ Covered

(* One step of NothingIsOverdrawn.                                         *)
Dry == \A w \in Warehouses : stock'["raw"][w] < 0 => stock'["raw"][w] >= stock["raw"][w]
Thrifty ==
  /\ \A d \in Docs : Enters(d) =>
       /\ row[d].kind \in {"payment", "cashPurchase"} => gl'["cash"] >= 0
       /\ row[d].kind \in {"sale", "ticket"} /\ owed' > owed => owed' <= CreditLimit
  /\ Dry \/ \E d \in Docs : row[d].kind = "workOrder" /\ Enters(d)

LEMMA EntersIs ==
  ASSUME TypeIInv, NEW d \in Docs, entries' = entries \/ entries' = [entries EXCEPT ![d] = @ + 1]
  PROVE  \A x \in Docs : Enters(x) => x = d
BY DEF Enters, TypeIInv, PapersOK

LEMMA DryStays == ASSUME TypeIInv, stock' = stock  PROVE Dry
BY DEF Dry, TypeIInv, GoodsOK, Products

LEMMA ThriftyStays == ASSUME TypeIInv, stock' = stock, entries' = entries  PROVE Thrifty
<1>1. \A x \in Docs : ~Enters(x)
  BY DEF Enters, TypeIInv, PapersOK
<1>. QED  BY <1>1, DryStays DEF Thrifty

LEMMA ThriftyEnters ==
  ASSUME TypeIInv, Dry, NEW d \in Docs, entries' = entries \/ entries' = [entries EXCEPT ![d] = @ + 1],
         row[d].kind \in {"payment", "cashPurchase"} => gl'["cash"] >= 0,
         row[d].kind \in {"sale", "ticket"} /\ owed' > owed => owed' <= CreditLimit
  PROVE  Thrifty
BY EntersIs DEF Thrifty

LEMMA ThriftyOrder ==
  ASSUME TypeIInv, NEW d \in Docs, entries' = [entries EXCEPT ![d] = @ + 1], row[d].kind = "workOrder"
  PROVE  Thrifty
<1>1. Enters(d)
  BY DEF Enters, TypeIInv, PapersOK
<1>. QED  BY <1>1, EntersIs DEF Thrifty

(* Goods that come, and goods that are taken from where enough is held.    *)
LEMMA GoodsCome ==
  ASSUME TypeIInv, NEW w \in Warehouses, NEW n \in Int, n >= 0, Moves("raw", w, n)
  PROVE  Dry
<1>1. \A x \in Warehouses : stock["raw"][x] \in Int /\ stock'["raw"][x] = IF x = w THEN stock["raw"][x] + n ELSE stock["raw"][x]
  BY DEF Moves, TypeIInv, GoodsOK, Products
<1>. QED  BY <1>1 DEF Dry

LEMMA GoodsGo ==
  ASSUME TypeIInv, NEW n \in Int, Held(n), NEW w \in Sources("raw", n) \cup Richest("raw"), Moves("raw", w, -n)
  PROVE  Dry
<1>1. w \in Warehouses
  BY SourcesType
<1>2. \A x \in Warehouses : stock["raw"][x] \in Int /\ stock'["raw"][x] = IF x = w THEN stock["raw"][x] - n ELSE stock["raw"][x]
  BY <1>1 DEF Moves, TypeIInv, GoodsOK, Products
<1>3. stock["raw"][w] >= n
  <2>1. CASE w \in Richest("raw")
    BY <1>1, <1>2, <2>1 DEF Richest, Held
  <2>2. CASE w \notin Richest("raw")
    BY <2>2 DEF Sources
  <2>. QED  BY <2>1, <2>2
<1>. QED  BY <1>2, <1>3 DEF Dry

LEMMA CoversTurn ==
  ASSUME Alone, TypeIInv, AllSensible', NEW u \in Users, NEW op, hand'[u].op = op,
         op \notin {"write", "return", "post", "new"}
  PROVE  Careful'
<1>1. \A v \in Users : v = u
  BY DEF Alone
<1>. QED  BY <1>1 DEF Careful, Covered, Covers

LEMMA CoversIdle ==
  ASSUME Alone, TypeIInv, AllSensible', NEW u \in Users, hand' = [hand EXCEPT ![u] = Idle]
  PROVE  Careful'
<1>1. hand'[u].op = "idle"
  BY DEF TypeIInv, HandsOK, Idle
<1>. QED  BY <1>1, CoversTurn

LEMMA CoversReads ==
  ASSUME Alone, TypeIInv, Careful, NEW u \in Users, NEW d \in Docs, NEW op, op # "idle", NEW want, NEW take, NEW w,
         Covers(op, row[d], d, want), Reads(u, op, d, want, take, w)
  PROVE  Careful' /\ Thrifty
<1>1. /\ Quiet /\ hand'[u].op = op /\ hand'[u].doc = d /\ hand'[u].seen = row[d] /\ hand'[u].want = want
  BY ReadsAre
<1>2. \A v \in Users : v = u
  BY DEF Alone
<1>3. /\ row' = row /\ entries' = entries /\ gl' = gl /\ owed' = owed /\ stock' = stock
  BY <1>1 DEF Quiet, papers, money, goods
<1>4. AllSensible'
  BY <1>3 DEF Careful, AllSensible, Sensible
<1>5. Covered'
  BY <1>1, <1>2, <1>3 DEF Covered, Covers, Held, Granting, Outstanding, Lines, Exists
<1>. QED  BY <1>3, <1>4, <1>5, ThriftyStays DEF Careful

LEMMA CoversEdits ==
  ASSUME Alone, TypeIInv, Careful, NEW u \in Users, NEW d \in Docs, NEW want,
         row[d].kind \in Carried /\ "qty" \in DOMAIN want => want.qty >= 0,
         row[d].kind = "adjustment" /\ "actual" \in DOMAIN want => want.actual >= 0,
         Edits(u, d, want)
  PROVE  Careful' /\ Thrifty
<1>1. Covers("write", row[d], d, want)
  BY DEF Covers
<1>. QED  BY <1>1, CoversReads DEF Edits

LEMMA CoversDeletes ==
  ASSUME Alone, TypeIInv, Careful, NEW u \in Users, NEW d \in Docs, Deletes(u, d)
  PROVE  Careful' /\ Thrifty
BY CoversEdits DEF Deletes

LEMMA CoversPosts ==
  ASSUME Alone, TypeIInv, Careful, NEW u \in Users, NEW d \in Docs, NEW take,
         Covers("post", row[d], d, Idle.want), Posts(u, d, take)
  PROVE  Careful' /\ Thrifty
BY CoversReads DEF Posts

(* The other documents are as sensible as they were.                       *)
LEMMA SensibleElse ==
  ASSUME TypeIInv, AllSensible, NEW d \in Docs, NEW cols, Changes(d, cols), Sensible(d)'
  PROVE  AllSensible'
<1>1. \A x \in Docs \ {d} : row'[x] = row[x]
  BY ChangesType DEF TypeIInv, PapersOK
<1>. QED  BY <1>1 DEF AllSensible, Sensible

LEMMA SensibleSame ==
  ASSUME TypeIInv, AllSensible, NEW d \in Docs, NEW cols, Changes(d, cols), {"qty", "actual"} \cap cols = {}
  PROVE  AllSensible'
<1>1. row'[d].kind = row[d].kind /\ row'[d].qty = row[d].qty /\ row'[d].actual = row[d].actual
  BY DEF Changes, Like
<1>2. Sensible(d)'
  BY <1>1 DEF AllSensible, Sensible
<1>. QED  BY <1>2, SensibleElse

LEMMA SensibleOther ==
  ASSUME TypeIInv, AllSensible, NEW d \in Docs, NEW cols, Changes(d, cols), row[d].kind \notin Carried \cup {"adjustment"}
  PROVE  AllSensible'
<1>1. row'[d].kind = row[d].kind
  BY DEF Changes, Like
<1>2. Sensible(d)'
  BY <1>1 DEF Sensible
<1>. QED  BY <1>2, SensibleElse

LEMMA CoversCreates ==
  ASSUME TypeIInv, Facts, Careful, NEW d \in Docs, NEW kinds, NEW new, Columned(new), Creates(d, kinds, new),
         row[d].kind \in Carried => "qty" \in DOMAIN new /\ new.qty >= 0,
         row[d].kind = "adjustment" => "actual" \in DOMAIN new /\ new.actual >= 0
  PROVE  Careful' /\ Thrifty
<1>1. /\ row[d].status = "none" /\ Updates(d, new) /\ row \in [Docs -> Row] /\ hand' = hand
      /\ entries' = entries /\ gl' = gl /\ owed' = owed /\ stock' = stock
  BY DEF Creates, Updates, work, money, goods, TypeIInv, PapersOK
<1>2. Changes(d, Columns) /\ Wrote(row'[d], row[d], new)
  BY <1>1, UpdatesDoes
<1>3. row'[d].kind = row[d].kind
  BY <1>2 DEF Changes, Like
<1>4. Sensible(d)'
  BY <1>2, <1>3 DEF Sensible, Wrote
<1>5. AllSensible'
  BY <1>2, <1>4, SensibleElse DEF Careful
<1>6. \A x \in Docs \ {d} : row'[x] = row[x]
  BY <1>1, <1>2, ChangesType
<1>7. ASSUME NEW u \in Users  PROVE Covers(hand[u].op, hand[u].seen, hand[u].doc, hand[u].want)'
  <2>1. Covers(hand[u].op, hand[u].seen, hand[u].doc, hand[u].want)
    BY <1>7 DEF Careful, Covered
  <2>2. hand[u].op = "post" => hand[u].doc \in Docs \ {d}
    BY <1>1, <1>7 DEF Facts, PlansOK, PlanOK, Begun, TypeIInv, HandsOK, Placed
  <2>. QED  BY <1>1, <1>6, <2>1, <2>2 DEF Covers, Held, Granting, Outstanding, Lines, Exists
<1>. QED  BY <1>1, <1>5, <1>7, ThriftyStays DEF Careful, Covered

(* A step about documents of other kinds.                                  *)
Aside(K) ==
  /\ stock' = stock
  /\ \A d \in Docs : Enters(d) => row[d].kind \in K
  /\ UNCHANGED <<gl, owed>> \/ \E u \in Users : hand'[u].op = "idle" \/ hand'[u].seen.kind \in K

LEMMA AsideQuietly == ASSUME TypeIInv, NEW K, stock' = stock, entries' = entries, gl' = gl, owed' = owed  PROVE Aside(K)
BY DEF Aside, Enters, TypeIInv, PapersOK

LEMMA AsideCommits ==
  ASSUME TypeIInv, NEW K, NEW u \in Users, NEW d \in Docs, row[d].kind \in K,
         hand'[u].op = "idle" \/ hand'[u].seen.kind \in K, stock' = stock,
         entries' = entries \/ entries' = [entries EXCEPT ![d] = @ + 1]
  PROVE  Aside(K)
BY EntersIs DEF Aside

LEMMA CoversAside ==
  ASSUME Alone, TypeIInv, Careful, KindsStay, NEW K, K \cap Moving = {}, Kept(K), Aside(K)
  PROVE  Careful' /\ Thrifty
<1>1. \A x \in Docs : row[x].kind \in Moving => row'[x] = row[x]
  BY DEF Kept
<1>2. AllSensible'
  BY <1>1 DEF Careful, AllSensible, Sensible, KindsStay, Moving
<1>3. ASSUME NEW u \in Users  PROVE Covers(hand[u].op, hand[u].seen, hand[u].doc, hand[u].want)'
  <2>1. CASE hand'[u].op \in {"idle", "next"}
    BY <2>1 DEF Covers
  <2>2. CASE hand'[u].seen.kind \in K
    <3>1. hand'[u].seen.kind \notin Moving
      BY <2>2
    <3>. QED  BY <3>1 DEF Covers, Moving, Carried, Bills, Invoices
  <2>3. CASE hand'[u] = hand[u] /\ UNCHANGED <<gl, owed>>
    <3>1. Covers(hand[u].op, hand[u].seen, hand[u].doc, hand[u].want)
      BY <1>3 DEF Careful, Covered
    <3>2. hand[u].op = "post" /\ hand[u].seen.kind \in Moving => row'[hand[u].doc] = row[hand[u].doc]
      BY <1>1, <1>3 DEF TypeIInv, HandsOK, Placed
    <3>3. hand[u].op = "post" /\ hand[u].seen.kind \in Moving => Lines(hand[u].doc)' = Lines(hand[u].doc)
      BY <2>3, <3>2 DEF Lines, Exists
    <3>. QED  BY <2>3, <3>1, <3>3 DEF Covers, Held, Granting, Outstanding, Aside, Moving, Carried, Bills
  <2>4. \A v \in Users : v = u
    BY <1>3 DEF Alone
  <2>. QED  BY <1>3, <2>1, <2>2, <2>3, <2>4 DEF Kept, Aside
<1>4. \A d \in Docs : Enters(d) => row[d].kind \notin Moving
  BY DEF Aside
<1>5. Thrifty
  BY <1>4, DryStays DEF Thrifty, Aside, Moving, Carried, Bills, Invoices
<1>. QED  BY <1>2, <1>3, <1>5 DEF Careful, Covered

LEMMA SalesCovers == ASSUME Alone, Strict, TypeIInv, Facts, Settling, Careful, KindsStay, SalesStep  PROVE Careful' /\ Thrifty
<1>1. ASSUME NEW d \in Docs, CreateInvoice(d)  PROVE Careful' /\ Thrifty
  <2>1. PICK q \in 1..MaxQty : Creates(d, Invoices, [status |-> "draft", qty |-> q])
    BY <1>1 DEF CreateInvoice
  <2>2. PICK new : new = [status |-> "draft", qty |-> q]
    OBVIOUS
  <2>3. Columned(new) /\ Creates(d, Invoices, new) /\ row[d].kind \in Invoices
    BY <2>1, <2>2 DEF Columned, Columns, Status, Creates
  <2>4. row[d].kind \in Carried => "qty" \in DOMAIN new /\ new.qty >= 0
    BY <2>2, <2>3 DEF Carried, Invoices
  <2>5. row[d].kind = "adjustment" => "actual" \in DOMAIN new /\ new.actual >= 0
    BY <2>2, <2>3 DEF Invoices
  <2>. QED  BY <2>3, <2>4, <2>5, CoversCreates
<1>2. ASSUME NEW d \in Docs, CreateReturn(d)  PROVE Careful' /\ Thrifty
  <2>1. PICK q \in 1..MaxQty, i \in Docs \cup {NoDoc} : Creates(d, {"saleReturn"}, [status |-> "draft", qty |-> q, link |-> i])
    BY <1>2 DEF CreateReturn
  <2>2. PICK new : new = [status |-> "draft", qty |-> q, link |-> i]
    OBVIOUS
  <2>3. Columned(new) /\ Creates(d, {"saleReturn"}, new) /\ row[d].kind \in {"saleReturn"}
    BY <2>1, <2>2 DEF Columned, Columns, Status, Creates
  <2>4. row[d].kind \in Carried => "qty" \in DOMAIN new /\ new.qty >= 0
    BY <2>2, <2>3 DEF Carried
  <2>5. row[d].kind = "adjustment" => "actual" \in DOMAIN new /\ new.actual >= 0
    BY <2>2, <2>3
  <2>. QED  BY <2>3, <2>4, <2>5, CoversCreates
<1>3. ASSUME NEW u \in Users, NEW d \in Docs,
             UpdateInvoice(u, d) \/ DeleteInvoice(u, d) \/ PostInvoice(u, d) \/ UpdateReturn(u, d) \/ DeleteReturn(u, d) \/ PostReturn(u, d) \/ ReverseInvoice(u, d)
      PROVE  Careful' /\ Thrifty
  <2>1. CASE UpdateInvoice(u, d)
    BY <2>1, CoversEdits DEF UpdateInvoice, Carried, Invoices, Bills
  <2>2. CASE DeleteInvoice(u, d)
    BY <2>2, CoversDeletes DEF DeleteInvoice
  <2>3. CASE PostInvoice(u, d)
    <3>1. /\ row[d].status = "draft" /\ row[d].kind \in Invoices
          /\ Sufficient("sale", row[d].qty) /\ (row[d].kind = "sale" => WithinLimit(Outstanding(row[d])))
      BY <2>3 DEF PostInvoice
    <3>2. Lines(d) = row[d].qty
      BY <3>1 DEF Lines, Exists
    <3>3. Held(Lines(d)) /\ (row[d].kind = "sale" => Granting(Outstanding(row[d])))
      BY <3>1, <3>2 DEF Strict, Sufficient, WithinLimit, Held, Granting
    <3>4. Covers("post", row[d], d, Idle.want)
      BY <3>1, <3>3 DEF Covers, Invoices
    <3>. QED  BY <2>3, <3>4, CoversPosts DEF PostInvoice
  <2>4. CASE UpdateReturn(u, d)
    BY <2>4, CoversEdits DEF UpdateReturn
  <2>5. CASE DeleteReturn(u, d)
    BY <2>5, CoversDeletes DEF DeleteReturn
  <2>6. CASE PostReturn(u, d)
    <3>1. Covers("post", row[d], d, Idle.want)
      BY <2>6 DEF PostReturn, Covers, Invoices
    <3>. QED  BY <2>6, <3>1, CoversPosts DEF PostReturn
  <2>7. CASE ReverseInvoice(u, d)
    <3>1. PICK n : n = Returned(d)
      OBVIOUS
    <3>2. n \in Int
      <4>1. PICK S \in SUBSET Docs : Returned(d) = Total([r \in S |-> row[r].qty])
        BY DEF Returned
      <4>. QED  BY <3>1, <4>1, ReturnedType DEF TypeIInv
    <3>3. row[d].qty \in Int /\ row[d].qty > n /\ Reads(u, "return", d, [qty |-> row[d].qty - n], <<>>, Main)
      BY <2>7, <3>1, RowColumns DEF ReverseInvoice, TypeIInv, PapersOK
    <3>4. Covers("return", row[d], d, [qty |-> row[d].qty - n])
      BY <3>2, <3>3 DEF Covers
    <3>. QED  BY <3>3, <3>4, CoversReads
  <2>. QED  BY <1>3, <2>1, <2>2, <2>3, <2>4, <2>5, <2>6, <2>7
<1>4. ASSUME NEW u \in Users, CommitInvoice(u)  PROVE Careful' /\ Thrifty
  <2>. PICK d : d = hand[u].doc
    OBVIOUS
  <2>. PICK h : h = hand[u]
    OBVIOUS
  <2>1. At(u, "post", Invoices) /\ hand' = [hand EXCEPT ![u] = Idle]
    BY <1>4 DEF CommitInvoice, Ends, EndsWith
  <2>2. /\ d \in Docs /\ row[d] \in Row /\ row[d].kind = h.seen.kind /\ h.seen.kind \in Invoices /\ h.op = "post"
        /\ h.seen \in Row
    BY <2>1, AtIs
  <2>3. Covers(h.op, h.seen, d, h.want) /\ Sensible(d)
    BY <2>2 DEF Careful, Covered, AllSensible
  <2>4. AllSensible'
    BY <1>4, <2>2, CommitInvoiceDoes, SensibleSame DEF Careful, StatusPaid, JustStatus
  <2>5. Lines(d) \in Int
    BY <2>2, LinesType DEF TypeIInv, PapersOK
  <2>6. entries' = [entries EXCEPT ![d] = @ + 1]
    BY <1>4 DEF CommitInvoice, Journal
  <2>7. Dry
    <3>1. PICK w \in Sources("raw", Lines(d)) : Moves("raw", w, -Lines(d))
      BY <1>4 DEF CommitInvoice
    <3>2. Held(Lines(d))
      BY <2>2, <2>3 DEF Covers
    <3>. QED  BY <2>5, <3>1, <3>2, GoodsGo
  <2>8. row[d].kind \in {"sale", "ticket"} /\ owed' > owed => owed' <= CreditLimit
    <3>1. ASSUME row[d].kind \in {"sale", "ticket"}, owed' > owed  PROVE owed' <= CreditLimit
      <4>1. owed' = owed + Outstanding(h.seen) /\ h.seen.kind = "sale"
        BY <1>4, <2>2, <3>1 DEF CommitInvoice, Invoices
      <4>2. Granting(Outstanding(h.seen)) /\ Outstanding(h.seen) \in Int /\ owed \in Int
        BY <2>2, <2>3, <4>1, RowColumns DEF Covers, Outstanding, TypeIInv, MoneyOK
      <4>. QED  BY <3>1, <4>1, <4>2 DEF Granting
    <3>. QED  BY <3>1
  <2>9. Thrifty
    BY <2>2, <2>6, <2>7, <2>8, ThriftyEnters DEF Invoices
  <2>. QED  BY <2>1, <2>4, <2>9, CoversIdle
<1>5. ASSUME NEW u \in Users, CommitReturn(u)  PROVE Careful' /\ Thrifty
  <2>. PICK d : d = hand[u].doc
    OBVIOUS
  <2>. PICK h : h = hand[u]
    OBVIOUS
  <2>1. At(u, "post", {"saleReturn"}) /\ hand' = [hand EXCEPT ![u] = Idle]
    BY <1>5 DEF CommitReturn, Ends, EndsWith
  <2>2. /\ d \in Docs /\ row[d] \in Row /\ row[d].kind = h.seen.kind /\ h.seen.kind \in {"saleReturn"} /\ h.op = "post"
        /\ h.seen \in Row
    BY <2>1, AtIs
  <2>3. Covers(h.op, h.seen, d, h.want) /\ Sensible(d)
    BY <2>2 DEF Careful, Covered, AllSensible
  <2>4. AllSensible'
    BY <1>5, <2>2, CommitReturnDoes, SensibleSame DEF Careful, StatusPaid, JustStatus
  <2>5. Lines(d) \in Int
    BY <2>2, LinesType DEF TypeIInv, PapersOK
  <2>6. entries' = [entries EXCEPT ![d] = @ + 1]
    BY <1>5 DEF CommitReturn, Journal
  <2>7. Dry
    <3>1. PICK w \in Sources("raw", Lines(d)) : Moves("raw", w, Lines(d))
      BY <1>5 DEF CommitReturn
    <3>2. Lines(d) >= 0 /\ w \in Warehouses
      BY <2>2, <2>3, <3>1, SourcesType DEF Sensible, Carried, Lines
    <3>. QED  BY <2>5, <3>1, <3>2, GoodsCome
  <2>9. Thrifty
    BY <2>2, <2>6, <2>7, ThriftyEnters
  <2>. QED  BY <2>1, <2>4, <2>9, CoversIdle
<1>6. ASSUME NEW u \in Users, CreateReversal(u)  PROVE Careful' /\ Thrifty
  <2>1. PICK d \in Docs : row[d].kind = "saleReturn" /\ Returns(u, d) /\ hand[u].op = "return" /\ hand[u].seen.kind \in Invoices \cup {"ticket"}
    BY <1>6, CreateReversalDoes DEF CreateReversal, At, Returns
  <2>2. Changes(d, StatusLinkQty) /\ row'[d].qty = hand[u].want.qty
    BY <2>1, ReturnsDoes
  <2>3. hand[u].want.qty >= 0
    BY <2>1 DEF Careful, Covered, Covers
  <2>4. row'[d].kind = row[d].kind
    BY <2>2 DEF Changes, Like
  <2>5. Sensible(d)'
    BY <2>1, <2>2, <2>3, <2>4 DEF Sensible
  <2>6. AllSensible'
    BY <2>2, <2>5, SensibleElse DEF Careful
  <2>7. hand'[u].op = "next" /\ stock' = stock /\ entries' = entries
    BY <2>1 DEF Returns, TypeIInv, HandsOK, Idle, goods
  <2>. QED  BY <2>6, <2>7, CoversTurn, ThriftyStays
<1>. QED  BY <1>1, <1>2, <1>3, <1>4, <1>5, <1>6 DEF SalesStep

LEMMA PurchasesCovers == ASSUME Alone, Strict, TypeIInv, Facts, Settling, Careful, KindsStay, PurchasesStep  PROVE Careful' /\ Thrifty
<1>1. ASSUME NEW d \in Docs, CreateBill(d)  PROVE Careful' /\ Thrifty
  <2>1. PICK q \in 1..MaxQty : Creates(d, Bills, [status |-> "draft", qty |-> q])
    BY <1>1 DEF CreateBill
  <2>2. PICK new : new = [status |-> "draft", qty |-> q]
    OBVIOUS
  <2>3. Columned(new) /\ Creates(d, Bills, new) /\ row[d].kind \in Bills
    BY <2>1, <2>2 DEF Columned, Columns, Status, Creates
  <2>4. row[d].kind \in Carried => "qty" \in DOMAIN new /\ new.qty >= 0
    BY <2>2, <2>3 DEF Carried, Bills
  <2>5. row[d].kind = "adjustment" => "actual" \in DOMAIN new /\ new.actual >= 0
    BY <2>2, <2>3 DEF Bills
  <2>. QED  BY <2>3, <2>4, <2>5, CoversCreates
<1>2. ASSUME NEW d \in Docs, CreateBillReturn(d)  PROVE Careful' /\ Thrifty
  <2>1. PICK q \in 1..MaxQty, i \in Docs \cup {NoDoc} : Creates(d, {"purchaseReturn"}, [status |-> "draft", qty |-> q, link |-> i])
    BY <1>2 DEF CreateBillReturn
  <2>2. PICK new : new = [status |-> "draft", qty |-> q, link |-> i]
    OBVIOUS
  <2>3. Columned(new) /\ Creates(d, {"purchaseReturn"}, new) /\ row[d].kind \in {"purchaseReturn"}
    BY <2>1, <2>2 DEF Columned, Columns, Status, Creates
  <2>4. row[d].kind \in Carried => "qty" \in DOMAIN new /\ new.qty >= 0
    BY <2>2, <2>3 DEF Carried, Bills
  <2>5. row[d].kind = "adjustment" => "actual" \in DOMAIN new /\ new.actual >= 0
    BY <2>2, <2>3
  <2>. QED  BY <2>3, <2>4, <2>5, CoversCreates
<1>3. ASSUME NEW u \in Users, NEW d \in Docs,
             UpdateBill(u, d) \/ DeleteBill(u, d) \/ PostBill(u, d) \/ UpdateBillReturn(u, d) \/ DeleteBillReturn(u, d) \/ PostBillReturn(u, d) \/ ReverseBill(u, d)
      PROVE  Careful' /\ Thrifty
  <2>1. CASE UpdateBill(u, d)
    BY <2>1, CoversEdits DEF UpdateBill, Carried, Bills
  <2>2. CASE DeleteBill(u, d)
    BY <2>2, CoversDeletes DEF DeleteBill
  <2>3. CASE PostBill(u, d)
    <3>1. row[d].kind \in Bills /\ (row[d].kind = "cashPurchase" => gl["cash"] >= row[d].qty)
      BY <2>3 DEF PostBill, Affordable, Strict
    <3>2. Covers("post", row[d], d, Idle.want)
      BY <3>1 DEF Covers, Invoices, Bills
    <3>. QED  BY <2>3, <3>2, CoversPosts DEF PostBill
  <2>4. CASE UpdateBillReturn(u, d)
    BY <2>4, CoversEdits DEF UpdateBillReturn, Carried, Bills
  <2>5. CASE DeleteBillReturn(u, d)
    BY <2>5, CoversDeletes DEF DeleteBillReturn
  <2>6. CASE PostBillReturn(u, d)
    <3>1. row[d].status = "draft" /\ row[d].kind = "purchaseReturn" /\ Sufficient("purchaseReturn", row[d].qty)
      BY <2>6 DEF PostBillReturn
    <3>2. Held(Lines(d))
      BY <3>1 DEF Strict, Sufficient, Held, Lines, Exists
    <3>3. Covers("post", row[d], d, Idle.want)
      BY <3>1, <3>2 DEF Covers
    <3>. QED  BY <2>6, <3>3, CoversPosts DEF PostBillReturn
  <2>7. CASE ReverseBill(u, d)
    <3>1. PICK want, take, w : Reads(u, "return", d, want, take, w)
      BY <2>7 DEF ReverseBill, Keeps
    <3>2. Covers("return", row[d], d, want)
      BY <2>7 DEF ReverseBill, Covers, Bills, Invoices
    <3>. QED  BY <3>1, <3>2, CoversReads
  <2>. QED  BY <1>3, <2>1, <2>2, <2>3, <2>4, <2>5, <2>6, <2>7
<1>4. ASSUME NEW u \in Users, CommitBill(u)  PROVE Careful' /\ Thrifty
  <2>. PICK d : d = hand[u].doc
    OBVIOUS
  <2>. PICK h : h = hand[u]
    OBVIOUS
  <2>1. At(u, "post", Bills) /\ hand' = [hand EXCEPT ![u] = Idle]
    BY <1>4 DEF CommitBill, Ends, EndsWith
  <2>2. /\ d \in Docs /\ row[d] \in Row /\ row[d].kind = h.seen.kind /\ h.seen.kind \in Bills /\ h.op = "post"
        /\ h.seen \in Row
    BY <2>1, AtIs
  <2>3. Covers(h.op, h.seen, d, h.want) /\ Sensible(d)
    BY <2>2 DEF Careful, Covered, AllSensible
  <2>4. AllSensible'
    BY <1>4, <2>2, CommitBillDoes, SensibleSame DEF Careful, StatusPaid, JustStatus
  <2>5. Lines(d) \in Int
    BY <2>2, LinesType DEF TypeIInv, PapersOK
  <2>6. entries' = [entries EXCEPT ![d] = @ + 1]
    BY <1>4 DEF CommitBill, Journal
  <2>7. Dry
    <3>1. Moves("raw", Main, Lines(d)) /\ Main \in Warehouses
      BY <1>4 DEF CommitBill, Warehouses
    <3>2. Lines(d) >= 0
      BY <2>2, <2>3, <3>1 DEF Sensible, Carried, Lines
    <3>. QED  BY <2>5, <3>1, <3>2, GoodsCome
  <2>8. row[d].kind \in {"payment", "cashPurchase"} => gl'["cash"] >= 0
    <3>1. ASSUME row[d].kind = "cashPurchase"  PROVE gl'["cash"] >= 0
      <4>1. Ledger([cash |-> -h.seen.qty, inventory |-> h.seen.qty])
        BY <1>4, <2>2, <3>1 DEF CommitBill, Journal
      <4>2. "cash" \in Accounts /\ gl["cash"] \in Int /\ h.seen.qty \in Int
        BY <2>2, RowColumns DEF Accounts, TypeIInv, MoneyOK
      <4>3. gl'["cash"] = gl["cash"] - h.seen.qty
        BY <4>1, <4>2 DEF Ledger
      <4>4. gl["cash"] >= h.seen.qty
        BY <2>2, <2>3, <3>1 DEF Covers
      <4>. QED  BY <4>2, <4>3, <4>4
    <3>. QED  BY <2>2, <3>1 DEF Bills
  <2>9. Thrifty
    BY <2>2, <2>6, <2>7, <2>8, ThriftyEnters DEF Bills
  <2>. QED  BY <2>1, <2>4, <2>9, CoversIdle
<1>5. ASSUME NEW u \in Users, CommitBillReturn(u)  PROVE Careful' /\ Thrifty
  <2>. PICK d : d = hand[u].doc
    OBVIOUS
  <2>. PICK h : h = hand[u]
    OBVIOUS
  <2>1. At(u, "post", {"purchaseReturn"}) /\ hand' = [hand EXCEPT ![u] = Idle]
    BY <1>5 DEF CommitBillReturn, Ends, EndsWith
  <2>2. /\ d \in Docs /\ row[d] \in Row /\ row[d].kind = h.seen.kind /\ h.seen.kind \in {"purchaseReturn"} /\ h.op = "post"
        /\ h.seen \in Row
    BY <2>1, AtIs
  <2>3. Covers(h.op, h.seen, d, h.want) /\ Sensible(d)
    BY <2>2 DEF Careful, Covered, AllSensible
  <2>4. AllSensible'
    BY <1>5, <2>2, CommitBillReturnDoes, SensibleSame DEF Careful, StatusPaid, JustStatus
  <2>5. Lines(d) \in Int
    BY <2>2, LinesType DEF TypeIInv, PapersOK
  <2>6. entries' = [entries EXCEPT ![d] = @ + 1]
    BY <1>5 DEF CommitBillReturn, Journal
  <2>7. Dry
    <3>1. PICK w \in Richest("raw") : Moves("raw", w, -Lines(d))
      BY <1>5 DEF CommitBillReturn
    <3>2. Held(Lines(d))
      BY <2>2, <2>3 DEF Covers
    <3>. QED  BY <2>5, <3>1, <3>2, GoodsGo
  <2>9. Thrifty
    BY <2>2, <2>6, <2>7, ThriftyEnters
  <2>. QED  BY <2>1, <2>4, <2>9, CoversIdle
<1>6. ASSUME NEW u \in Users, CreateBillReversal(u)  PROVE Careful' /\ Thrifty
  <2>1. PICK d \in Docs : row[d].kind = "purchaseReturn" /\ Returns(u, d) /\ hand[u].op = "return"
    BY <1>6, CreateBillReversalDoes
  <2>2. AllSensible'
    BY <2>1, ReturnsDoes, SensibleOther DEF Careful, Carried, Bills
  <2>3. hand'[u].op = "next" /\ stock' = stock /\ entries' = entries
    BY <2>1 DEF Returns, TypeIInv, HandsOK, Idle, goods
  <2>. QED  BY <2>2, <2>3, CoversTurn, ThriftyStays
<1>. QED  BY <1>1, <1>2, <1>3, <1>4, <1>5, <1>6 DEF PurchasesStep

LEMMA VouchersCovers == ASSUME Alone, Strict, TypeIInv, Facts, Settling, Careful, KindsStay, VouchersStep  PROVE Careful' /\ Thrifty
<1>1. ASSUME NEW d \in Docs, CreateVoucher(d)  PROVE Careful' /\ Thrifty
  <2>1. PICK t \in Terms(row[d].kind) : Creates(d, Slips, Voucher(t, "draft"))
    BY <1>1 DEF CreateVoucher
  <2>2. PICK new : new = Voucher(t, "draft")
    OBVIOUS
  <2>3. Columned(new)
    BY <2>2 DEF Voucher, Terms, Columned, Columns, Status
  <2>4. row[d].kind \in Slips
    BY <2>1 DEF Creates
  <2>5. row[d].kind \notin Carried \cup {"adjustment"}
    BY <2>4 DEF Slips, Carried, Bills
  <2>. QED  BY <2>1, <2>2, <2>3, <2>5, CoversCreates
<1>2. ASSUME NEW u \in Users, NEW d \in Docs,
             CreatePosted(u, d) \/ PostVoucher(u, d) \/ UpdateVoucher(u, d) \/ DeleteVoucher(u, d) \/ ReverseVoucher(u, d)
      PROVE  Careful' /\ Thrifty
  <2>1. CASE CreatePosted(u, d)
    <3>1. PICK t \in Terms(row[d].kind) : /\ Reads(u, "new", d, Voucher(t, "posted"), <<>>, Main)
                                          /\ row[d].kind = "payment" => gl["cash"] >= t.qty
      BY <2>1 DEF CreatePosted, Affordable, Strict
    <3>. PICK want : want = Voucher(t, "posted")
      OBVIOUS
    <3>2. want.qty = t.qty
      BY DEF Voucher
    <3>3. Covers("new", row[d], d, want)
      BY <2>1, <3>1, <3>2 DEF CreatePosted, Covers, Slips
    <3>. QED  BY <3>1, <3>2, <3>3, CoversReads
  <2>2. CASE PostVoucher(u, d)
    <3>1. PICK t : /\ t = [qty |-> row[d].qty, link |-> row[d].link, applied |-> row[d].applied]
                   /\ Reads(u, "post", d, t, <<>>, Main) /\ (row[d].kind = "payment" => gl["cash"] >= t.qty)
      BY <2>2 DEF PostVoucher, Affordable, Strict
    <3>2. Covers("post", row[d], d, t)
      BY <2>2, <3>1 DEF PostVoucher, Covers, Slips, Invoices
    <3>. QED  BY <3>1, <3>2, CoversReads
  <2>3. CASE UpdateVoucher(u, d)
    <3>1. PICK want : Edits(u, d, want)
      BY <2>3 DEF UpdateVoucher
    <3>2. row[d].kind \notin Carried \cup {"adjustment"}
      BY <2>3 DEF UpdateVoucher, Slips, Carried, Bills
    <3>. QED  BY <3>1, <3>2, CoversEdits
  <2>4. CASE DeleteVoucher(u, d)
    BY <2>4, CoversDeletes DEF DeleteVoucher
  <2>5. CASE ReverseVoucher(u, d)
    <3>1. PICK want, take, w : Reads(u, "reverse", d, want, take, w)
      BY <2>5 DEF ReverseVoucher, Keeps
    <3>2. Covers("reverse", row[d], d, want)
      BY DEF Covers
    <3>. QED  BY <3>1, <3>2, CoversReads
  <2>. QED  BY <1>2, <2>1, <2>2, <2>3, <2>4, <2>5
<1>3. ASSUME NEW u \in Users, CommitVoucher(u) \/ CommitCreated(u)  PROVE Careful' /\ Thrifty
  <2>. PICK d, i, n : d = hand[u].doc /\ i = hand[u].want.link /\ n = hand[u].want.applied
    OBVIOUS
  <2>. PICK h : h = hand[u]
    OBVIOUS
  <2>1. PICK op \in {"post", "new"} : At(u, op, Slips)
    BY <1>3 DEF CommitVoucher, CommitCreated
  <2>2. /\ d \in Docs /\ row[d].kind \in Slips /\ row[d].kind = h.seen.kind /\ h.op = op
        /\ h.want.qty \in Int
    BY <2>1, SlipPlan, AtIs
  <2>3. Applies(d, i, n)
    BY <1>3, CommitVoucherDoes, CommitCreatedDoes
  <2>4. hand' = [hand EXCEPT ![u] = Idle] /\ stock' = stock /\ Booking(u)
    BY <1>3 DEF CommitVoucher, CommitCreated, Booking, EndsWith, goods
  <2>5. ASSUME NEW x \in Docs  PROVE Sensible(x)'
    <3>1. Sensible(x) /\ row'[x].kind = row[x].kind
      BY <2>3 DEF Careful, AllSensible, Applies, KindsStay
    <3>2. CASE x = d
      BY <2>2, <3>1, <3>2 DEF Sensible, Carried, Bills, Slips
    <3>3. CASE x = i /\ x # d
      BY <2>3, <3>1, <3>3 DEF Applies, Sensible, Like, StatusPaid
    <3>4. CASE x \notin {d, i}
      BY <2>3, <3>1, <3>4 DEF Applies, Sensible
    <3>. QED  BY <3>2, <3>3, <3>4
  <2>6. entries' = [entries EXCEPT ![d] = @ + 1]
    BY <2>4 DEF Booking, Journal
  <2>7. row[d].kind \in {"payment", "cashPurchase"} => gl'["cash"] >= 0
    <3>1. ASSUME row[d].kind = "payment"  PROVE gl'["cash"] >= 0
      <4>1. Ledger([cash |-> -h.want.qty, creditors |-> -h.want.qty])
        BY <2>2, <2>4, <3>1 DEF Booking, Journal
      <4>2. "cash" \in Accounts /\ gl["cash"] \in Int
        BY DEF Accounts, TypeIInv, MoneyOK
      <4>3. gl'["cash"] = gl["cash"] - h.want.qty
        BY <2>2, <4>1, <4>2 DEF Ledger
      <4>4. gl["cash"] >= h.want.qty
        BY <2>2, <3>1 DEF Careful, Covered, Covers
      <4>. QED  BY <2>2, <4>2, <4>3, <4>4
    <3>. QED  BY <2>2, <3>1 DEF Slips
  <2>8. Thrifty
    BY <2>2, <2>4, <2>6, <2>7, DryStays, ThriftyEnters DEF Slips
  <2>. QED  BY <2>4, <2>5, <2>8, CoversIdle DEF AllSensible
<1>4. ASSUME NEW u \in Users, CommitReverse(u)  PROVE Careful' /\ Thrifty
  <2>. PICK d : d = hand[u].doc
    OBVIOUS
  <2>. PICK h : h = hand[u]
    OBVIOUS
  <2>1. At(u, "reverse", Slips) /\ hand' = [hand EXCEPT ![u] = Idle]
    BY <1>4 DEF CommitReverse, Ends, EndsWith
  <2>2. /\ d \in Docs /\ row[d] \in Row /\ row[d].kind = h.seen.kind /\ h.seen.kind \in Slips /\ h.op = "reverse"
        /\ h.seen \in Row
    BY <2>1, AtIs
  <2>3. Covers(h.op, h.seen, d, h.want) /\ Sensible(d)
    BY <2>2 DEF Careful, Covered, AllSensible
  <2>4. AllSensible'
    BY <1>4, <2>2, CommitReverseDoes, SensibleSame DEF Careful, StatusPaid, JustStatus
  <2>5. Lines(d) \in Int
    BY <2>2, LinesType DEF TypeIInv, PapersOK
  <2>9. Thrifty
    BY <1>4, ThriftyStays DEF CommitReverse, goods
  <2>. QED  BY <2>1, <2>4, <2>9, CoversIdle
<1>. QED  BY <1>1, <1>2, <1>3, <1>4 DEF VouchersStep

LEMMA CoversPlan ==
  ASSUME Alone, TypeIInv, AllSensible', NEW u \in Users, NEW d, NEW want, NEW h, h = TransferPlan(d, row'[d], want),
         hand' = [hand EXCEPT ![u] = h], row'[d].kind = "transfer", "qty" \in DOMAIN want => want.qty >= 0
  PROVE  Careful'
<1>. PICK r : r = row'[d]
  OBVIOUS
<1>1. h.op = "write" /\ h.seen = r /\ h.want = want
  BY TransferPlanIs
<1>2. hand'[u] = h
  BY DEF TypeIInv, HandsOK
<1>3. hand'[u].op = "write" /\ hand'[u].seen = row'[d] /\ hand'[u].want = want
  BY <1>1, <1>2
<1>4. \A v \in Users : v = u
  BY DEF Alone
<1>5. Covered'
  BY <1>3, <1>4 DEF Covered, Covers, Invoices, Carried
<1>. QED  BY <1>5 DEF Careful

LEMMA InventoryCovers == ASSUME Alone, Strict, TypeIInv, Facts, Settling, Careful, KindsStay, InventoryStep  PROVE Careful' /\ Thrifty
<1>1. ASSUME NEW d \in Docs, CreateAdjustment(d)  PROVE Careful' /\ Thrifty
  <2>1. PICK n \in 0..(MaxQty + 1) : Creates(d, {"adjustment"}, [status |-> "draft", mark |-> stock["raw"][Main], actual |-> n])
    BY <1>1 DEF CreateAdjustment
  <2>2. PICK new : new = [status |-> "draft", mark |-> stock["raw"][Main], actual |-> n]
    OBVIOUS
  <2>3. Columned(new) /\ Creates(d, {"adjustment"}, new) /\ row[d].kind \in {"adjustment"}
    BY <2>1, <2>2 DEF Columned, Columns, Status, Creates, TypeIInv, GoodsOK, Products, Warehouses
  <2>4. row[d].kind \in Carried => "qty" \in DOMAIN new /\ new.qty >= 0
    BY <2>2, <2>3 DEF Carried, Bills
  <2>5. row[d].kind = "adjustment" => "actual" \in DOMAIN new /\ new.actual >= 0
    BY <2>2, <2>3
  <2>. QED  BY <2>3, <2>4, <2>5, CoversCreates
<1>2. ASSUME NEW u \in Users, NEW d \in Docs,
             CompleteTransfer(u, d) \/ UpdateAdjustment(u, d) \/ DeleteAdjustment(u, d) \/ PostAdjustment(u, d)
      PROVE  Careful' /\ Thrifty
  <2>1. CASE CompleteTransfer(u, d)
    <3>1. PICK want, take, w : Reads(u, "floor", d, want, take, w)
      BY <2>1 DEF CompleteTransfer, Keeps
    <3>2. Covers("floor", row[d], d, want)
      BY DEF Covers
    <3>. QED  BY <3>1, <3>2, CoversReads
  <2>2. CASE UpdateAdjustment(u, d)
    BY <2>2, CoversEdits DEF UpdateAdjustment, Carried, Bills
  <2>3. CASE DeleteAdjustment(u, d)
    BY <2>3, CoversDeletes DEF DeleteAdjustment
  <2>4. CASE PostAdjustment(u, d)
    <3>1. row[d].kind = "adjustment" /\ row[d].actual >= 0
      BY <2>4 DEF PostAdjustment, Careful, AllSensible, Sensible
    <3>2. Covers("post", row[d], d, Idle.want)
      BY <3>1 DEF Covers, Invoices
    <3>. QED  BY <2>4, <3>2, CoversPosts DEF PostAdjustment
  <2>. QED  BY <1>2, <2>1, <2>2, <2>3, <2>4
<1>3. ASSUME NEW u \in Users, NEW d \in Docs, CreateTransfer(u, d) \/ DeleteTransfer(u, d)  PROVE Careful' /\ Thrifty
  <2>1. AllSensible' /\ stock' = stock /\ entries' = entries
    <3>1. CASE CreateTransfer(u, d)
      BY <3>1, CreateTransferDoes, SensibleSame DEF CreateTransfer, goods, Careful, JustStatus
    <3>2. CASE DeleteTransfer(u, d)
      <4>1. Changes(d, JustQty) /\ row'[d].qty = 0 /\ row[d].kind = "transfer"
        BY <3>2, DeleteTransferDoes DEF DeleteTransfer
      <4>2. row'[d].kind = row[d].kind
        BY <4>1 DEF Changes, Like
      <4>3. Sensible(d)'
        BY <4>1, <4>2 DEF Sensible
      <4>. QED  BY <3>2, <4>1, <4>3, SensibleElse DEF DeleteTransfer, goods, Careful
    <3>. QED  BY <1>3, <3>1, <3>2
  <2>2. row'[d].kind = "transfer"
    BY <1>3, CreateTransferDoes, DeleteTransferDoes DEF CreateTransfer, DeleteTransfer, Changes, Like
  <2>3. Careful'
    <3>. PICK r : r = row'[d]
      OBVIOUS
    <3>1. CASE CreateTransfer(u, d)
      <4>. PICK q \in 1..MaxQty : hand' = [hand EXCEPT ![u] = TransferPlan(d, r, [qty |-> q])]
        BY <3>1 DEF CreateTransfer, TransferPlan
      <4>. PICK want : want = [qty |-> q]
        OBVIOUS
      <4>. PICK h : h = TransferPlan(d, r, want)
        OBVIOUS
      <4>1. want.qty >= 0 /\ hand' = [hand EXCEPT ![u] = h]
        OBVIOUS
      <4>. QED  BY <2>1, <2>2, <4>1, CoversPlan
    <3>2. CASE DeleteTransfer(u, d)
      <4>. PICK want : want = [status |-> "gone"]
        OBVIOUS
      <4>. PICK h : h = TransferPlan(d, r, want)
        OBVIOUS
      <4>1. hand' = [hand EXCEPT ![u] = TransferPlan(d, r, [status |-> "gone"])]
        BY <3>2 DEF DeleteTransfer, TransferPlan
      <4>2. "qty" \notin DOMAIN want /\ hand' = [hand EXCEPT ![u] = h]
        BY <4>1
      <4>. QED  BY <2>1, <2>2, <4>2, CoversPlan
    <3>. QED  BY <1>3, <3>1, <3>2
  <2>. QED  BY <2>1, <2>3, ThriftyStays
<1>4. ASSUME NEW u \in Users, CheckFloor(u)  PROVE Careful' /\ Thrifty
  <2>. PICK d : d = hand[u].doc
    OBVIOUS
  <2>1. /\ hand' = [hand EXCEPT ![u].op = "post"] /\ hand[u].seen.kind = "transfer" /\ stock["raw"][Main] >= Lines(d)
        /\ row' = row /\ stock' = stock /\ entries' = entries
    BY <1>4 DEF CheckFloor, At, papers, goods, Strict
  <2>2. hand'[u].op = "post" /\ hand'[u].seen = hand[u].seen /\ hand'[u].doc = d /\ hand'[u].want = hand[u].want
    BY <2>1 DEF TypeIInv, HandsOK, PlanOf
  <2>3. \A v \in Users : v = u
    BY DEF Alone
  <2>4. Lines(d)' = Lines(d)
    BY <2>1 DEF Lines, Exists
  <2>5. Covered'
    BY <2>1, <2>2, <2>3, <2>4 DEF Covered, Covers, Invoices
  <2>6. AllSensible'
    BY <2>1 DEF Careful, AllSensible, Sensible
  <2>. QED  BY <2>1, <2>5, <2>6, ThriftyStays DEF Careful
<1>5. ASSUME NEW d \in Docs, ApproveAdjustment(d)  PROVE Careful' /\ Thrifty
  <2>1. /\ row[d].kind = "adjustment" /\ Changes(d, JustStatus)
        /\ hand' = hand /\ gl' = gl /\ owed' = owed /\ stock' = stock /\ entries' = entries
    BY <1>5, ApproveAdjustmentDoes DEF ApproveAdjustment, money, goods
  <2>2. AllSensible' /\ \A x \in Docs \ {d} : row'[x] = row[x]
    BY <2>1, SensibleSame, ChangesType DEF Careful, JustStatus, TypeIInv, PapersOK
  <2>3. ASSUME NEW u \in Users  PROVE Covers(hand[u].op, hand[u].seen, hand[u].doc, hand[u].want)'
    <3>1. Covers(hand[u].op, hand[u].seen, hand[u].doc, hand[u].want)
      BY <2>3 DEF Careful, Covered
    <3>2. hand[u].op = "post" /\ hand[u].seen.kind # "adjustment" => hand[u].doc \in Docs \ {d}
      BY <2>1, <2>3 DEF TypeIInv, HandsOK, Placed
    <3>. QED  BY <2>1, <2>2, <3>1, <3>2 DEF Covers, Held, Granting, Outstanding, Lines, Exists, Invoices
  <2>. QED  BY <2>1, <2>2, <2>3, ThriftyStays DEF Careful, Covered
<1>6. ASSUME NEW u \in Users, CommitTransfer(u)  PROVE Careful' /\ Thrifty
  <2>. PICK d : d = hand[u].doc
    OBVIOUS
  <2>. PICK h : h = hand[u]
    OBVIOUS
  <2>1. At(u, "post", {"transfer"}) /\ hand' = [hand EXCEPT ![u] = Idle]
    BY <1>6 DEF CommitTransfer, Ends, EndsWith
  <2>2. /\ d \in Docs /\ row[d] \in Row /\ row[d].kind = h.seen.kind /\ h.seen.kind \in {"transfer"} /\ h.op = "post"
        /\ h.seen \in Row
    BY <2>1, AtIs
  <2>3. Covers(h.op, h.seen, d, h.want) /\ Sensible(d)
    BY <2>2 DEF Careful, Covered, AllSensible
  <2>4. AllSensible'
    BY <1>6, <2>2, CommitTransferDoes, SensibleSame DEF Careful, StatusPaid, JustStatus
  <2>5. Lines(d) \in Int
    BY <2>2, LinesType DEF TypeIInv, PapersOK
  <2>6. stock["raw"][Main] >= Lines(d) /\ Lines(d) >= 0
    BY <2>2, <2>3 DEF Covers, Sensible, Carried, Lines
  <2>7. /\ stock'["raw"][Main] = stock["raw"][Main] - Lines(d) /\ stock'["raw"][Branch] = stock["raw"][Branch] + Lines(d)
        /\ stock["raw"][Main] \in Int /\ stock["raw"][Branch] \in Int
    BY <1>6, BooksAssumption DEF CommitTransfer, TypeIInv, GoodsOK, Products, Warehouses, BooksAssumption
  <2>8. Dry
    BY <2>5, <2>6, <2>7 DEF Dry, Warehouses
  <2>9. Thrifty
    BY <1>6, <2>2, <2>8, ThriftyEnters DEF CommitTransfer
  <2>. QED  BY <2>1, <2>4, <2>9, CoversIdle
<1>7. ASSUME NEW u \in Users, CommitAdjustment(u)  PROVE Careful' /\ Thrifty
  <2>. PICK d : d = hand[u].doc
    OBVIOUS
  <2>. PICK h : h = hand[u]
    OBVIOUS
  <2>1. At(u, "post", {"adjustment"}) /\ hand' = [hand EXCEPT ![u] = Idle]
    BY <1>7 DEF CommitAdjustment, Ends, EndsWith
  <2>2. /\ d \in Docs /\ row[d] \in Row /\ row[d].kind = h.seen.kind /\ h.seen.kind \in {"adjustment"} /\ h.op = "post"
        /\ h.seen \in Row
    BY <2>1, AtIs
  <2>3. Covers(h.op, h.seen, d, h.want) /\ Sensible(d)
    BY <2>2 DEF Careful, Covered, AllSensible
  <2>4. AllSensible'
    BY <1>7, <2>2, CommitAdjustmentDoes, SensibleSame DEF Careful, StatusPaid, JustStatus
  <2>5. Lines(d) \in Int
    BY <2>2, LinesType DEF TypeIInv, PapersOK
  <2>6. h.seen.actual >= 0 /\ h.seen.actual \in Int
    BY <2>2, <2>3, RowColumns DEF Covers
  <2>7. Dry
    <3>1. \A w \in Warehouses : /\ stock["raw"][w] \in Int
                                /\ stock'["raw"][w] = IF w = Main THEN h.seen.actual ELSE stock["raw"][w]
      BY <1>7 DEF CommitAdjustment, TypeIInv, GoodsOK, Products
    <3>. QED  BY <2>6, <3>1 DEF Dry
  <2>8. entries' = entries \/ entries' = [entries EXCEPT ![d] = @ + 1]
    BY <1>7 DEF CommitAdjustment, Journal
  <2>9. Thrifty
    BY <2>2, <2>7, <2>8, ThriftyEnters
  <2>. QED  BY <2>1, <2>4, <2>9, CoversIdle
<1>. QED  BY <1>1, <1>2, <1>3, <1>4, <1>5, <1>6, <1>7 DEF InventoryStep

LEMMA ManufacturingCovers ==
  ASSUME Alone, TypeIInv, Facts, Careful, KindsStay, ManufacturingStep
  PROVE  Careful' /\ Thrifty
<1>0. Kept(AboutOrders) /\ AboutOrders \cap Moving = {}
  BY ManufacturingKept DEF AboutOrders, Moving, Carried, Bills, Invoices
<1>1. ASSUME Aside(AboutOrders)  PROVE Careful' /\ Thrifty
  BY <1>0, <1>1, CoversAside
<1>2. AllSensible'
  BY <1>0 DEF Kept, KindsStay, Careful, AllSensible, Sensible, Moving
<1>3. ASSUME NEW d \in Docs, CreateWorkOrder(d) \/ ReopenWorkOrder(d)  PROVE Careful' /\ Thrifty
  BY <1>1, <1>3, AsideQuietly DEF Creates, CreateWorkOrder, ReopenWorkOrder, money, goods
<1>4. ASSUME NEW u \in Users, NEW d \in Docs,
             UpdateWorkOrder(u, d) \/ DeleteWorkOrder(u, d) \/ UpdateConsumption(u, d)
             \/ StartWorkOrder(u, d) \/ CompleteWorkOrder(u, d) \/ CancelWorkOrder(u, d)
      PROVE  Careful' /\ Thrifty
  BY <1>1, <1>4, ManufacturingReads, AsideQuietly DEF Quiet, papers, money, goods
<1>5. ASSUME NEW u \in Users, CommitStart(u) \/ CommitComplete(u)  PROVE Careful' /\ Thrifty
  <2>1. PICK op \in {"post", "complete"} : At(u, op, {"workOrder"}) /\ hand' = [hand EXCEPT ![u] = Idle]
    BY <1>5 DEF CommitStart, CommitComplete, Ends, EndsWith
  <2>2. hand[u].doc \in Docs /\ row[hand[u].doc].kind = "workOrder"
    BY <2>1, AtIs
  <2>3. entries' = [entries EXCEPT ![hand[u].doc] = @ + 1]
    BY <1>5 DEF CommitStart, CommitComplete, Journal
  <2>. QED  BY <1>2, <2>1, <2>2, <2>3, CoversIdle, ThriftyOrder
<1>6. ASSUME NEW u \in Users, CommitCancel(u)  PROVE Careful' /\ Thrifty
  <2>. PICK h, d : h = hand[u] /\ d = hand[u].doc
    OBVIOUS
  <2>1. At(u, "cancel", {"workOrder"}) /\ hand' = [hand EXCEPT ![u] = Idle]
    BY <1>6 DEF CommitCancel, Ends, EndsWith
  <2>2. /\ d \in Docs /\ row[d].kind = "workOrder" /\ PlanOK(h) /\ h.op = "cancel" /\ h.seen.kind = "workOrder"
        /\ h.seen \in Row
    BY <2>1, PlanIs
  <2>3. h.want.actual \in Int /\ h.want.actual >= 0
    <3>1. h.seen.qty \in Int
      BY <2>2, RowColumns
    <3>. QED  BY <2>2, <3>1 DEF PlanOK, Undone
  <2>4. Dry
    <3>1. Moves("raw", h.at, h.want.actual) /\ h.at \in Warehouses
      BY <1>6, <2>1, AtIs DEF CommitCancel
    <3>. QED  BY <2>3, <3>1, GoodsCome
  <2>5. entries' = entries \/ entries' = [entries EXCEPT ![d] = @ + 1]
    BY <1>6 DEF CommitCancel, Journal
  <2>6. Thrifty
    BY <2>2, <2>4, <2>5, ThriftyEnters
  <2>. QED  BY <1>2, <2>1, <2>6, CoversIdle
<1>. QED  BY <1>3, <1>4, <1>5, <1>6 DEF ManufacturingStep

LEMMA TillCovers == ASSUME Alone, Strict, TypeIInv, Facts, Settling, Careful, KindsStay, TillStep  PROVE Careful' /\ Thrifty
<1>1. ASSUME NEW d \in Docs, OpenShift(d)  PROVE Careful' /\ Thrifty
  <2>1. PICK n \in {0, 1} : Creates(d, {"shift"}, [status |-> "open", qty |-> n])
    BY <1>1 DEF OpenShift
  <2>2. PICK new : new = [status |-> "open", qty |-> n]
    OBVIOUS
  <2>3. Columned(new) /\ Creates(d, {"shift"}, new) /\ row[d].kind \in {"shift"}
    BY <2>1, <2>2 DEF Columned, Columns, Status, Creates
  <2>4. row[d].kind \in Carried => "qty" \in DOMAIN new /\ new.qty >= 0
    BY <2>2, <2>3 DEF Carried, Bills
  <2>5. row[d].kind = "adjustment" => "actual" \in DOMAIN new /\ new.actual >= 0
    BY <2>2, <2>3
  <2>. QED  BY <2>3, <2>4, <2>5, CoversCreates
<1>2. ASSUME NEW u \in Users, NEW d \in Docs,
             Checkout(u, d) \/ CloseShift(u, d) \/ HealShift(u, d)
      PROVE  Careful' /\ Thrifty
  <2>1. CASE Checkout(u, d)
    <3>1. PICK t \in Carts(d) :
            /\ Sufficient("sale", t.qty) /\ Reads(u, "new", d, t, Fifo(t.qty), Main)
            /\ CreditLimit = 0 \/ t.paid = t.qty \/ owed + t.qty - t.paid <= CreditLimit \/ "overlimit" \in Allow
      BY <2>1 DEF Checkout
    <3>2. t.qty \in Int /\ t.paid \in Int /\ owed \in Int
      BY BooksAssumption DEF Carts, TypeIInv, MoneyOK, BooksAssumption
    <3>3. Held(t.qty) /\ Granting(t.qty - t.paid)
      BY <3>1, <3>2 DEF Strict, Sufficient, Held, Granting
    <3>4. Covers("new", row[d], d, t)
      BY <2>1, <3>3 DEF Covers, Checkout
    <3>. QED  BY <3>1, <3>4, CoversReads
  <2>2. CASE CloseShift(u, d)
    <3>1. PICK want, take, w : Reads(u, "close", d, want, take, w)
      BY <2>2 DEF CloseShift, Keeps
    <3>2. Covers("close", row[d], d, want)
      BY DEF Covers
    <3>. QED  BY <3>1, <3>2, CoversReads
  <2>3. CASE HealShift(u, d)
    <3>1. PICK want, take, w : Reads(u, "lookup", d, want, take, w)
      BY <2>3 DEF HealShift, Keeps
    <3>2. Covers("lookup", row[d], d, want)
      BY DEF Covers
    <3>. QED  BY <3>1, <3>2, CoversReads
  <2>. QED  BY <1>2, <2>1, <2>2, <2>3
<1>3. ASSUME NEW u \in Users, CommitCheckout(u)  PROVE Careful' /\ Thrifty
  <2>. PICK d : d = hand[u].doc
    OBVIOUS
  <2>. PICK h : h = hand[u]
    OBVIOUS
  <2>1. At(u, "new", {"ticket"}) /\ hand' = [hand EXCEPT ![u] = Idle]
    BY <1>3 DEF CommitCheckout, Ends, EndsWith
  <2>2. /\ d \in Docs /\ row[d] \in Row /\ row[d].kind = h.seen.kind /\ h.seen.kind \in {"ticket"} /\ h.op = "new"
        /\ h.seen \in Row
    BY <2>1, AtIs
  <2>3. Covers(h.op, h.seen, d, h.want) /\ Sensible(d)
    BY <2>2 DEF Careful, Covered, AllSensible
  <2>4. AllSensible'
    BY <1>3, <2>2, CommitCheckoutDoes, SensibleOther DEF Careful, Carried, Bills
  <2>5. Lines(d) \in Int
    BY <2>2, LinesType DEF TypeIInv, PapersOK
  <2>6. entries' = [entries EXCEPT ![d] = @ + 1]
    BY <1>3 DEF CommitCheckout, Journal
  <2>. PICK q, p : q = h.want.qty /\ p = h.want.paid
    OBVIOUS
  <2>7. q \in Int /\ p \in Int /\ Held(q) /\ Granting(q - p) /\ owed \in Int
    <3>1. Columned(h.want) /\ Equipped("new", "ticket", h.want)
      BY <2>1, AtIs
    <3>. QED  BY <2>2, <2>3, <3>1 DEF Columned, Equipped, Covers, TypeIInv, MoneyOK
  <2>8. Dry
    <3>1. PICK w \in Sources("raw", q) : Moves("raw", w, -q)
      BY <1>3 DEF CommitCheckout
    <3>. QED  BY <2>7, <3>1, GoodsGo
  <2>9. Thrifty
    <3>1. owed' = owed + q - p
      BY <1>3 DEF CommitCheckout
    <3>2. owed' > owed => owed' <= CreditLimit
      BY <2>7, <3>1 DEF Granting
    <3>. QED  BY <2>2, <2>6, <2>8, <3>2, ThriftyEnters
  <2>. QED  BY <2>1, <2>4, <2>9, CoversIdle
<1>4. ASSUME NEW u \in Users, CommitClose(u)  PROVE Careful' /\ Thrifty
  <2>. PICK d : d = hand[u].doc
    OBVIOUS
  <2>1. At(u, "close", {"shift"}) /\ hand' = [hand EXCEPT ![u].op = "lookup"] /\ stock' = stock /\ entries' = entries
    BY <1>4 DEF CommitClose, goods
  <2>2. d \in Docs /\ Changes(d, Columns) /\ row[d].kind = "shift"
    BY <1>4, <2>1, AtIs, CommitCloseDoes
  <2>3. AllSensible'
    BY <2>2, SensibleOther DEF Careful, Carried, Bills
  <2>4. hand'[u].op = "lookup"
    BY <2>1 DEF TypeIInv, HandsOK, PlanOf
  <2>. QED  BY <2>1, <2>3, <2>4, CoversTurn, ThriftyStays
<1>5. ASSUME NEW u \in Users, LookUpDifference(u) \/ BookDifference(u)  PROVE Careful' /\ Thrifty
  <2>1. PICK op : (op = "entry" \/ op = "idle") /\ hand'[u].op = op /\ row' = row /\ stock' = stock
    BY <1>5 DEF LookUpDifference, BookDifference, TypeIInv, HandsOK, PlanOf, Idle, papers, goods
  <2>2. AllSensible'
    BY <2>1 DEF Careful, AllSensible, Sensible
  <2>3. Thrifty
    <3>1. CASE LookUpDifference(u)
      BY <2>1, <3>1, ThriftyStays DEF LookUpDifference, papers
    <3>2. CASE BookDifference(u)
      <4>1. At(u, "entry", {"shift"}) /\ entries' = [entries EXCEPT ![hand[u].doc] = @ + 1]
        BY <3>2 DEF BookDifference, Journal
      <4>2. hand[u].doc \in Docs /\ row[hand[u].doc].kind = "shift"
        BY <4>1, AtIs
      <4>. QED  BY <2>1, <4>1, <4>2, DryStays, ThriftyEnters
    <3>. QED  BY <1>5, <3>1, <3>2
  <2>. QED  BY <2>1, <2>2, <2>3, CoversTurn
<1>. QED  BY <1>1, <1>2, <1>3, <1>4, <1>5 DEF TillStep

LEMMA ConversionCovers == ASSUME Alone, Strict, TypeIInv, Facts, Settling, Careful, KindsStay, ConversionStep  PROVE Careful' /\ Thrifty
<1>1. ASSUME NEW d \in Docs, CreateOffer(d)  PROVE Careful' /\ Thrifty
  <2>1. PICK q \in 1..MaxQty : Creates(d, Offers, [status |-> "draft", qty |-> q])
    BY <1>1 DEF CreateOffer
  <2>2. PICK new : new = [status |-> "draft", qty |-> q]
    OBVIOUS
  <2>3. Columned(new) /\ Creates(d, Offers, new) /\ row[d].kind \in Offers
    BY <2>1, <2>2 DEF Columned, Columns, Status, Creates
  <2>4. row[d].kind \in Carried => "qty" \in DOMAIN new /\ new.qty >= 0
    BY <2>2, <2>3 DEF Carried, Offers, Bills
  <2>5. row[d].kind = "adjustment" => "actual" \in DOMAIN new /\ new.actual >= 0
    BY <2>2, <2>3 DEF Offers
  <2>. QED  BY <2>3, <2>4, <2>5, CoversCreates
<1>2. ASSUME NEW u \in Users, NEW d \in Docs,
             UpdateOffer(u, d) \/ DeleteOffer(u, d) \/ ConvertOffer(u, d)
      PROVE  Careful' /\ Thrifty
  <2>1. CASE UpdateOffer(u, d)
    BY <2>1, CoversEdits DEF UpdateOffer
  <2>2. CASE DeleteOffer(u, d)
    BY <2>2, CoversDeletes DEF DeleteOffer
  <2>3. CASE ConvertOffer(u, d)
    <3>1. PICK want, take, w : Reads(u, "claim", d, want, take, w)
      BY <2>3 DEF ConvertOffer, Keeps
    <3>2. Covers("claim", row[d], d, want)
      BY DEF Covers
    <3>. QED  BY <3>1, <3>2, CoversReads
  <2>. QED  BY <1>2, <2>1, <2>2, <2>3
<1>3. ASSUME NEW u \in Users, ClaimOffer(u)  PROVE Careful' /\ Thrifty
  <2>. PICK d : d = hand[u].doc
    OBVIOUS
  <2>1. At(u, "claim", Offers) /\ hand' = [hand EXCEPT ![u].op = "claimed"] /\ stock' = stock /\ entries' = entries
    BY <1>3 DEF ClaimOffer, goods
  <2>2. AllSensible'
    BY <1>3, <2>1, AtIs, ClaimOfferDoes, SensibleSame DEF Careful, JustStatus
  <2>3. hand'[u].op = "claimed"
    BY <2>1 DEF TypeIInv, HandsOK, PlanOf
  <2>. QED  BY <2>1, <2>2, <2>3, CoversTurn, ThriftyStays
<1>4. ASSUME NEW u \in Users, CreateConverted(u)  PROVE Careful' /\ Thrifty
  <2>. PICK i \in Docs, lost \in BOOLEAN : Creation(u, i, lost)
    BY <1>4, CreateConvertedIs
  <2>1. At(u, "claimed", Offers) /\ Converts(i, hand[u].doc, hand[u].seen.qty) /\ stock' = stock /\ entries' = entries
        /\ row[i].kind \in Becomes(row[hand[u].doc].kind)
    BY <1>4 DEF Creation, CreateConverted, goods
  <2>2. hand[u].doc \in Docs /\ hand[u].seen.qty \in Int /\ row \in [Docs -> Row]
    BY <2>1, AtIs, RowColumns DEF TypeIInv, PapersOK
  <2>3. Changes(i, StatusLinkQty) /\ row'[i].qty = hand[u].seen.qty
    BY <2>1, <2>2, ConvertsDoes
  <2>4. 0 <= hand[u].seen.qty
    BY <2>1 DEF At, Settling, Paying, Pays
  <2>5. row'[i].kind = row[i].kind /\ row[i].kind # "adjustment"
    BY <2>1, <2>3 DEF Changes, Like, Becomes
  <2>6. Sensible(i)'
    BY <2>3, <2>4, <2>5 DEF Sensible
  <2>7. AllSensible'
    BY <2>3, <2>6, SensibleElse DEF Careful
  <2>8. PICK op : (op = "release" \/ op = "idle") /\ hand'[u].op = op
    BY DEF Creation, TypeIInv, HandsOK, PlanOf, Idle
  <2>. QED  BY <2>1, <2>7, <2>8, CoversTurn, ThriftyStays
<1>5. ASSUME NEW u \in Users, NumberFails(u) \/ CreateFails(u) \/ ReleaseFails(u)  PROVE Careful' /\ Thrifty
  <2>1. PICK op : /\ op = "release" \/ op = "idle"
                  /\ hand'[u].op = op /\ row' = row /\ stock' = stock /\ entries' = entries
    BY <1>5 DEF NumberFails, CreateFails, ReleaseFails, TypeIInv, HandsOK, PlanOf, Idle, papers, goods
  <2>2. AllSensible'
    BY <2>1 DEF Careful, AllSensible, Sensible
  <2>. QED  BY <2>1, <2>2, CoversTurn, ThriftyStays
<1>6. ASSUME NEW u \in Users, ReleaseOffer(u)  PROVE Careful' /\ Thrifty
  <2>. PICK d : d = hand[u].doc
    OBVIOUS
  <2>. PICK h : h = hand[u]
    OBVIOUS
  <2>1. At(u, "release", Offers) /\ hand' = [hand EXCEPT ![u] = Idle]
    BY <1>6 DEF ReleaseOffer, Ends, EndsWith
  <2>2. /\ d \in Docs /\ row[d] \in Row /\ row[d].kind = h.seen.kind /\ h.seen.kind \in Offers /\ h.op = "release"
        /\ h.seen \in Row
    BY <2>1, AtIs
  <2>3. Covers(h.op, h.seen, d, h.want) /\ Sensible(d)
    BY <2>2 DEF Careful, Covered, AllSensible
  <2>4. AllSensible'
    BY <1>6, <2>2, ReleaseOfferDoes, SensibleSame DEF Careful, StatusPaid, JustStatus
  <2>5. Lines(d) \in Int
    BY <2>2, LinesType DEF TypeIInv, PapersOK
  <2>9. Thrifty
    BY <1>6, ThriftyStays DEF ReleaseOffer, goods
  <2>. QED  BY <2>1, <2>4, <2>9, CoversIdle
<1>. QED  BY <1>1, <1>2, <1>3, <1>4, <1>5, <1>6 DEF ConversionStep

LEMMA PeriodsCovers ==
  ASSUME Alone, TypeIInv, Careful, KindsStay, PeriodsStep
  PROVE  Careful' /\ Thrifty
<1>0. Kept(AboutPeriods) /\ AboutPeriods \cap Moving = {}
  BY PeriodsKept DEF AboutPeriods, Moving, Carried, Bills, Invoices
<1>1. ASSUME NEW d \in Docs, OpenAccountingPeriod(d) \/ GenerateSubPeriods(d) \/ OpenTaxPeriod(d)  PROVE Aside(AboutPeriods)
  BY <1>1, AsideQuietly DEF Creates, OpenAccountingPeriod, GenerateSubPeriods, OpenTaxPeriod, money, goods
<1>2. ASSUME NEW u \in Users, NEW d \in Docs,
             CloseAccountingPeriod(u, d) \/ CloseFiscalYear(u, d) \/ ReopenAccountingPeriodById(u, d) \/ SetTaxPeriodStatus(u, d)
      PROVE  Aside(AboutPeriods)
  BY <1>2, PeriodsReads, AsideQuietly DEF Quiet, papers, money, goods
<1>3. ASSUME NEW u \in Users, CommitPeriod(u) \/ CommitFiscalYear(u) \/ CommitReopen(u)  PROVE Aside(AboutPeriods)
  BY <1>3, AsideQuietly DEF CommitPeriod, CommitFiscalYear, CommitReopen, money, goods, papers
<1>. QED  BY <1>0, <1>1, <1>2, <1>3, CoversAside DEF PeriodsStep

LEMMA JournalsCovers ==
  ASSUME Alone, TypeIInv, Careful, KindsStay, JournalsStep
  PROVE  Careful' /\ Thrifty
<1>0. Kept(AboutJournals) /\ AboutJournals \cap Moving = {}
  BY JournalsKept DEF AboutJournals, Moving, Carried, Bills, Invoices
<1>1. ASSUME NEW d \in Docs, CreateTransaction(d)  PROVE Aside(AboutJournals)
  BY <1>1, AsideQuietly DEF Creates, CreateTransaction, money, goods
<1>2. ASSUME NEW u \in Users, NEW d \in Docs,
             UpdateTransaction(u, d) \/ PostTransaction(u, d) \/ DeleteTransaction(u, d) \/ ReverseTransaction(u, d)
      PROVE  Aside(AboutJournals)
  BY <1>2, JournalsReads, AsideQuietly DEF Quiet, papers, money, goods
<1>3. ASSUME NEW u \in Users, UpdateHeader(u)  PROVE Aside(AboutJournals)
  BY <1>3, AsideQuietly DEF UpdateHeader, money, goods, papers
<1>4. ASSUME NEW u \in Users, DeleteLines(u) \/ InsertLines(u)  PROVE Aside(AboutJournals)
  <2>1. PICK op \in {"lines", "insert"} : At(u, op, {"journal"})
    BY <1>4 DEF DeleteLines, InsertLines
  <2>2. hand[u].doc \in Docs /\ row[hand[u].doc].kind \in AboutJournals /\ hand[u].seen.kind \in AboutJournals
    BY <2>1, AtIs DEF AboutJournals
  <2>3. hand'[u].op = "idle" \/ hand'[u].seen.kind \in AboutJournals
    BY <1>4, <2>2 DEF DeleteLines, InsertLines, Ends, EndsWith, TypeIInv, HandsOK, PlanOf, Idle
  <2>4. stock' = stock /\ (entries' = entries \/ entries' = [entries EXCEPT ![hand[u].doc] = @ + 1])
    BY <1>4 DEF DeleteLines, InsertLines, goods, Lays
  <2>. QED  BY <2>2, <2>3, <2>4, AsideCommits
<1>5. ASSUME NEW u \in Users, CommitTransaction(u) \/ CommitDelete(u)  PROVE Aside(AboutJournals)
  <2>1. PICK op \in {"post", "cancel"} : At(u, op, {"journal"})
    BY <1>5 DEF CommitTransaction, CommitDelete
  <2>2. hand[u].doc \in Docs /\ row[hand[u].doc].kind \in AboutJournals /\ hand[u].seen.kind \in AboutJournals
    BY <2>1, AtIs DEF AboutJournals
  <2>3. hand'[u].op = "idle" \/ hand'[u].seen.kind \in AboutJournals
    BY <1>5, <2>2 DEF CommitTransaction, CommitDelete, Ends, EndsWith, TypeIInv, HandsOK, PlanOf, Idle
  <2>4. stock' = stock /\ (entries' = entries \/ entries' = [entries EXCEPT ![hand[u].doc] = @ + 1])
    BY <1>5 DEF CommitTransaction, CommitDelete, goods, Journal
  <2>. QED  BY <2>2, <2>3, <2>4, AsideCommits
<1>6. ASSUME NEW u \in Users, CommitMirror(u)  PROVE Aside(AboutJournals)
  <2>1. PICK op \in {"reverse"} : At(u, op, {"journal", "payroll", "provision"})
    BY <1>6 DEF CommitMirror
  <2>2. hand[u].doc \in Docs /\ row[hand[u].doc].kind \in AboutJournals /\ hand[u].seen.kind \in AboutJournals
    BY <2>1, AtIs DEF AboutJournals
  <2>3. hand'[u].op = "idle" \/ hand'[u].seen.kind \in AboutJournals
    BY <1>6, <2>2 DEF CommitMirror, Ends, EndsWith, TypeIInv, HandsOK, PlanOf, Idle
  <2>4. stock' = stock /\ (entries' = entries \/ entries' = [entries EXCEPT ![hand[u].doc] = @ + 1])
    BY <1>6 DEF CommitMirror, goods
  <2>. QED  BY <2>2, <2>3, <2>4, AsideCommits
<1>. QED  BY <1>0, <1>1, <1>2, <1>3, <1>4, <1>5, <1>6, CoversAside DEF JournalsStep

LEMMA PayrollCovers ==
  ASSUME Alone, TypeIInv, Careful, KindsStay, PayrollStep
  PROVE  Careful' /\ Thrifty
<1>0. Kept(AboutPayroll) /\ AboutPayroll \cap Moving = {}
  BY PayrollKept DEF AboutPayroll, Moving, Carried, Bills, Invoices
<1>1. ASSUME NEW d \in Docs, CreatePayrollRun(d) \/ CreateEndOfService(d)  PROVE Aside(AboutPayroll)
  BY <1>1, AsideQuietly DEF Creates, CreatePayrollRun, CreateEndOfService, money, goods
<1>2. ASSUME NEW u \in Users, NEW d \in Docs,
             DeletePayrollRun(u, d) \/ PostPayrollRun(u, d) \/ ApproveEndOfService(u, d) \/ CancelEndOfService(u, d) \/ PayEndOfService(u, d) \/ DeleteEndOfService(u, d)
      PROVE  Aside(AboutPayroll)
  BY <1>2, PayrollReads, AsideQuietly DEF Quiet, papers, money, goods
<1>3. ASSUME NEW u \in Users, CommitPayrollRun(u)  PROVE Aside(AboutPayroll)
  <2>1. PICK op \in {"post"} : At(u, op, {"payroll"})
    BY <1>3 DEF CommitPayrollRun
  <2>2. hand[u].doc \in Docs /\ row[hand[u].doc].kind \in AboutPayroll /\ hand[u].seen.kind \in AboutPayroll
    BY <2>1, AtIs DEF AboutPayroll
  <2>3. hand'[u].op = "idle" \/ hand'[u].seen.kind \in AboutPayroll
    BY <1>3, <2>2 DEF CommitPayrollRun, Ends, EndsWith, TypeIInv, HandsOK, PlanOf, Idle
  <2>4. stock' = stock /\ (entries' = entries \/ entries' = [entries EXCEPT ![hand[u].doc] = @ + 1])
    BY <1>3 DEF CommitPayrollRun, goods, Journal
  <2>. QED  BY <2>2, <2>3, <2>4, AsideCommits
<1>4. ASSUME NEW u \in Users, CommitApproval(u) \/ CommitSettlement(u)  PROVE Aside(AboutPayroll)
  <2>1. PICK op \in {"post", "complete"} : At(u, op, {"endOfService"})
    BY <1>4 DEF CommitApproval, CommitSettlement
  <2>2. hand[u].doc \in Docs /\ row[hand[u].doc].kind \in AboutPayroll /\ hand[u].seen.kind \in AboutPayroll
    BY <2>1, AtIs DEF AboutPayroll
  <2>3. hand'[u].op = "idle" \/ hand'[u].seen.kind \in AboutPayroll
    BY <1>4, <2>2 DEF CommitApproval, CommitSettlement, Ends, EndsWith, TypeIInv, HandsOK, PlanOf, Idle
  <2>4. stock' = stock /\ (entries' = entries \/ entries' = [entries EXCEPT ![hand[u].doc] = @ + 1])
    BY <1>4 DEF CommitApproval, CommitSettlement, goods, Journal
  <2>. QED  BY <2>2, <2>3, <2>4, AsideCommits
<1>. QED  BY <1>0, <1>1, <1>2, <1>3, <1>4, CoversAside DEF PayrollStep

LEMMA LeavesCovers ==
  ASSUME Alone, TypeIInv, Careful, KindsStay, LeavesStep
  PROVE  Careful' /\ Thrifty
<1>0. Kept(AboutLeaves) /\ AboutLeaves \cap Moving = {}
  BY LeavesKept DEF AboutLeaves, Moving, Carried, Bills, Invoices
<1>1. ASSUME NEW u \in Users, NEW d \in Docs,
             CreateLeave(u, d) \/ UpdateLeaveStatus(u, d) \/ DeleteLeave(u, d) \/ PostLeaveProvision(u, d)
      PROVE  Aside(AboutLeaves)
  BY <1>1, LeavesReads, AsideQuietly DEF Quiet, papers, money, goods
<1>2. ASSUME NEW u \in Users, InsertLeave(u)  PROVE Aside(AboutLeaves)
  BY <1>2, AsideQuietly DEF InsertLeave, money, goods, papers
<1>3. ASSUME NEW u \in Users, CommitProvision(u)  PROVE Aside(AboutLeaves)
  <2>1. PICK op \in {"new"} : At(u, op, {"provision"})
    BY <1>3 DEF CommitProvision
  <2>2. hand[u].doc \in Docs /\ row[hand[u].doc].kind \in AboutLeaves /\ hand[u].seen.kind \in AboutLeaves
    BY <2>1, AtIs DEF AboutLeaves
  <2>3. hand'[u].op = "idle" \/ hand'[u].seen.kind \in AboutLeaves
    BY <1>3, <2>2 DEF CommitProvision, Ends, EndsWith, TypeIInv, HandsOK, PlanOf, Idle
  <2>4. stock' = stock /\ (entries' = entries \/ entries' = [entries EXCEPT ![hand[u].doc] = @ + 1])
    BY <1>3 DEF CommitProvision, goods, Journal
  <2>. QED  BY <2>2, <2>3, <2>4, AsideCommits
<1>. QED  BY <1>0, <1>1, <1>2, <1>3, CoversAside DEF LeavesStep

LEMMA AssetsCovers ==
  ASSUME Alone, TypeIInv, Careful, KindsStay, AssetsStep
  PROVE  Careful' /\ Thrifty
<1>0. Kept(AboutAssets) /\ AboutAssets \cap Moving = {}
  BY AssetsKept DEF AboutAssets, Moving, Carried, Bills, Invoices
<1>1. ASSUME NEW u \in Users, NEW d \in Docs,
             CreateFixedAsset(u, d) \/ UpdateFixedAsset(u, d) \/ DeleteFixedAsset(u, d) \/ RunDepreciation(u, d) \/ DisposeFixedAsset(u, d)
      PROVE  Aside(AboutAssets)
  BY <1>1, AssetsReads, AsideQuietly DEF Quiet, papers, money, goods
<1>2. ASSUME NEW u \in Users, CommitAsset(u) \/ CommitDepreciation(u) \/ CommitDisposal(u)  PROVE Aside(AboutAssets)
  <2>1. PICK op \in {"new", "charge", "dispose"} : At(u, op, {"asset"})
    BY <1>2 DEF CommitAsset, CommitDepreciation, CommitDisposal
  <2>2. hand[u].doc \in Docs /\ row[hand[u].doc].kind \in AboutAssets /\ hand[u].seen.kind \in AboutAssets
    BY <2>1, AtIs DEF AboutAssets
  <2>3. hand'[u].op = "idle" \/ hand'[u].seen.kind \in AboutAssets
    <3>1. hand' = [hand EXCEPT ![u] = Idle]
      BY <1>2 DEF CommitAsset, CommitDepreciation, CommitDisposal, Ends, EndsWith
    <3>. QED  BY <3>1 DEF TypeIInv, HandsOK, Idle
  <2>4. stock' = stock /\ (entries' = entries \/ entries' = [entries EXCEPT ![hand[u].doc] = @ + 1])
    BY <1>2 DEF CommitAsset, CommitDepreciation, CommitDisposal, goods
  <2>. QED  BY <2>2, <2>3, <2>4, AsideCommits
<1>. QED  BY <1>0, <1>1, <1>2, CoversAside DEF AssetsStep

LEMMA WriteCovers ==
  ASSUME Alone, TypeIInv, Careful, NEW u \in Users, Write(u)
  PROVE  Careful' /\ Thrifty
<1>. PICK d : d = hand[u].doc
  OBVIOUS
<1>. PICK h : h = hand[u]
  OBVIOUS
<1>1. /\ h.op = "write" /\ hand' = [hand EXCEPT ![u] = Idle] /\ row \in [Docs -> Row]
      /\ stock' = stock /\ entries' = entries
  BY DEF Write, EndsWith, TypeIInv, PapersOK, goods
<1>2. d \in Docs /\ row[d].kind = h.seen.kind /\ Columned(h.want)
  BY <1>1 DEF TypeIInv, HandsOK, Placed, PlanOf
<1>3. Sensible(d) /\ Covers("write", h.seen, d, h.want)
  BY <1>1, <1>2 DEF Careful, AllSensible, Covered
<1>4. AllSensible'
  <2>1. CASE Exists(d)
    <3>1. Updates(d, h.want)
      BY <2>1 DEF Write, Updates
    <3>2. Changes(d, Columns) /\ Wrote(row'[d], row[d], h.want)
      BY <1>1, <1>2, <3>1, UpdatesDoes
    <3>3. row'[d].kind = row[d].kind
      BY <3>2 DEF Changes, Like
    <3>4. Sensible(d)'
      BY <1>2, <1>3, <3>2, <3>3 DEF Sensible, Covers, Wrote
    <3>. QED  BY <1>2, <3>2, <3>4, SensibleElse DEF Careful
  <2>2. CASE ~Exists(d)
    BY <2>2 DEF Write, Careful, AllSensible, Sensible
  <2>. QED  BY <2>1, <2>2
<1>. QED  BY <1>1, <1>4, CoversIdle, ThriftyStays

LEMMA StepCovers ==
  ASSUME Alone, Strict, TypeIInv, Facts, Settling, Careful, [Next]_books
  PROVE  Careful' /\ Thrifty
<1>. KindsStay
  BY StepGoesOn
<1>1. ASSUME NEW u \in Users, Write(u)  PROVE Careful' /\ Thrifty
  BY <1>1, WriteCovers
<1>2. ASSUME NEW u \in Users, Fails(u)  PROVE Careful' /\ Thrifty
  <2>1. hand' = [hand EXCEPT ![u] = Idle] /\ row' = row /\ stock' = stock /\ entries' = entries
    BY <1>2 DEF Fails, papers, goods
  <2>2. AllSensible'
    BY <2>1 DEF Careful, AllSensible, Sensible
  <2>. QED  BY <2>1, <2>2, CoversIdle, ThriftyStays
<1>3. CASE UNCHANGED books
  <2>1. hand' = hand /\ row' = row /\ stock' = stock /\ entries' = entries /\ gl' = gl /\ owed' = owed
    BY <1>3 DEF books, papers, work, goods, money
  <2>2. AllSensible'
    BY <2>1 DEF Careful, AllSensible, Sensible
  <2>3. ASSUME NEW u \in Users  PROVE Covers(hand[u].op, hand[u].seen, hand[u].doc, hand[u].want)'
    <3>1. Covers(hand[u].op, hand[u].seen, hand[u].doc, hand[u].want)
      BY <2>3 DEF Careful, Covered
    <3>2. Lines(hand[u].doc)' = Lines(hand[u].doc)
      BY <2>1 DEF Lines, Exists
    <3>. QED  BY <2>1, <3>1, <3>2 DEF Covers, Held, Granting, Outstanding
  <2>4. Careful'
    BY <2>2, <2>3 DEF Careful, Covered
  <2>. QED  BY <2>1, <2>4, ThriftyStays
<1>. QED  BY <1>1, <1>2, <1>3, SalesCovers, PurchasesCovers, VouchersCovers, InventoryCovers, ManufacturingCovers,
            TillCovers, ConversionCovers, PeriodsCovers, JournalsCovers, PayrollCovers, LeavesCovers, AssetsCovers
          DEF Next, BooksStep

LEMMA InitCovers == Init => Careful
<1>. SUFFICES ASSUME Init  PROVE Careful
  OBVIOUS
<1>1. PICK mix \in Mixes, before \in {"none", "closed"} :
       row = [d \in Docs |-> [Blank(mix[d]) EXCEPT !.status = IF mix[d] = "year" THEN before ELSE @]]
  BY DEF Init, BooksInit
<1>2. \A d \in Docs : row[d].qty = 0 /\ row[d].actual = 0
  BY <1>1 DEF Blank
<1>3. \A u \in Users : hand[u].op = "idle"
  BY IdleIsPlan DEF Init, BooksInit
<1>. QED  BY <1>2, <1>3 DEF Careful, AllSensible, Sensible, Covered, Covers

(* With the policies on and a limit set, a session on its own never pays   *)
(* more cash than there is (getCashBoxGlBalance), never grants more credit *)
(* than the customer has, and takes goods from a warehouse that holds too  *)
(* few for a work order alone: what its reads found is still there when it *)
(* posts, and the warehouse the goods leave holds as much as the one that  *)
(* was found.                                                              *)
THEOREM NothingOverdrawnAlone == ASSUME Alone, Allow = {}, CreditLimit # 0  PROVE Spec => NothingIsOverdrawn
<1>0. Strict
  BY DEF Strict
<1>1. Init => TypeIInv /\ Facts /\ Settling /\ Careful
  BY InitType, InitFacts, InitSettling, InitCovers
<1>2. TypeIInv /\ Facts /\ Settling /\ Careful /\ [Next]_books => (TypeIInv /\ Facts /\ Settling /\ Careful)'
  BY <1>0, TypeStep, FactsStep, StepSettling, StepCovers
<1>3. TypeIInv /\ Facts /\ Settling /\ Careful /\ [Next]_books
      => [/\ \A d \in Docs : Enters(d) =>
               /\ row[d].kind \in {"payment", "cashPurchase"} => gl'["cash"] >= 0
               /\ row[d].kind \in {"sale", "ticket"} /\ owed' > owed => owed' <= CreditLimit
          /\ \A w \in Warehouses :
               stock'["raw"][w] < 0 /\ stock'["raw"][w] < stock["raw"][w]
               => \E d \in Docs : row[d].kind = "workOrder" /\ Enters(d)]_books
  <2>. SUFFICES ASSUME TypeIInv, Facts, Settling, Careful, [Next]_books, ~UNCHANGED books
       PROVE  /\ \A d \in Docs : Enters(d) =>
                   /\ row[d].kind \in {"payment", "cashPurchase"} => gl'["cash"] >= 0
                   /\ row[d].kind \in {"sale", "ticket"} /\ owed' > owed => owed' <= CreditLimit
              /\ \A w \in Warehouses :
                   stock'["raw"][w] < 0 /\ stock'["raw"][w] < stock["raw"][w]
                   => \E d \in Docs : row[d].kind = "workOrder" /\ Enters(d)
    OBVIOUS
  <2>1. Thrifty
    BY <1>0, StepCovers
  <2>2. \A w \in Warehouses : stock["raw"][w] \in Int /\ stock'["raw"][w] \in Int
    BY TypeStep DEF TypeIInv, GoodsOK, Products
  <2>. QED  BY <2>1, <2>2 DEF Thrifty, Dry
<1>. QED  BY <1>1, <1>2, <1>3, PTL DEF Spec, NothingIsOverdrawn
=============================================================================
