-------------------------------- MODULE Trade --------------------------------
(***************************************************************************)
(* The posting paths together, on one database: what any number of         *)
(* sessions do to the same documents, ledger, balances and stock.          *)
(***************************************************************************)
EXTENDS Sales, Purchases, Vouchers, Inventory, Manufacturing, Till, Conversion,
        Periods, Journals, Payroll, Leaves, Assets

Init == BooksInit
Next ==
  \/ BooksStep \/ SalesStep \/ PurchasesStep \/ VouchersStep
  \/ InventoryStep \/ ManufacturingStep \/ TillStep \/ ConversionStep
  \/ PeriodsStep \/ JournalsStep \/ PayrollStep \/ LeavesStep \/ AssetsStep
Spec == Init /\ [][Next]_books

-----------------------------------------------------------------------------
(* Whatever the sessions do to each other. *)

TypeOK == BooksTypeOK

Posted == {"posted"}
Registered == {"active", "disposed"}

(* What document d has in an account, by the status it has.  A reversal    *)
(* takes it out again and leaves the document as it is.                    *)
In(d, kinds, of, n) == IF row[d].kind \in kinds /\ row[d].status \in of THEN n ELSE 0
Unreversed(d, kind) == In(d, {kind}, Posted, (1 - reversed[d]) * row[d].qty)
Owes(d) == In(d, {"asset"}, Registered, row[d].mark)
Share(a, d) ==
  LET r == row[d] IN
  CASE a = "debtors" ->
         In(d, {"sale"}, Billed, r.qty) + In(d, {"ticket"}, Billed, r.qty - r.mark)
         - In(d, {"saleReturn", "receipt"}, Posted, r.qty)
    [] a = "creditors" ->
         In(d, {"purchase"}, Entered, r.qty) - In(d, {"purchaseReturn", "payment"}, Posted, r.qty) + Owes(d)
    [] a = "cash" ->
         In(d, {"cashSale"}, Billed, r.qty) + In(d, {"ticket"}, Billed, r.mark)
         + In(d, {"receipt"}, Posted, r.qty) - In(d, {"cashPurchase"}, Entered, r.qty)
         - In(d, {"payment"}, Posted, r.qty) + In(d, {"shift"}, Status, entries[d] * (r.actual - r.mark))
         - Unreversed(d, "journal") - In(d, {"endOfService"}, {"paid"}, r.qty)
         - In(d, {"asset"}, Registered, r.applied)
    [] a = "wip" -> In(d, {"workOrder"}, {"in_progress"}, r.qty)
    [] a = "finished" -> In(d, {"workOrder"}, {"completed"}, r.actual)
    [] a = "other" -> Unreversed(d, "journal")
    [] a = "wages" -> Unreversed(d, "payroll")
    [] a = "leaves" -> Unreversed(d, "provision")
    [] a = "severance" -> In(d, {"endOfService"}, {"approved"}, r.qty)
    [] a = "assets" -> In(d, {"asset"}, {"active"}, r.qty)
    [] a = "accumulated" -> In(d, {"asset"}, {"active"}, r.paid)

(* The ledger is what the documents say it is: each account holds the      *)
(* opening balance and the effect of every document in the status it has,  *)
(* as long as no document was changed between the reads of its posting and *)
(* the transaction.  Sessions that work on different documents, failures   *)
(* and reversals never break it.                                           *)
LedgerMatchesDocuments ==
  disturbed = {} =>
    \A a \in Accounts \ {"inventory", "difference"} :
      gl[a] = Opening(a) + Total([d \in Docs |-> Share(a, d)])

(* The inventory account is the stock at cost, unless a document was       *)
(* changed under its posting or a count was older than the last movement.  *)
InventoryControl == disturbed = {} => gl["inventory"] = Total(stock["raw"])

(* customers.balance is the debtors account, in every race (a sale posted  *)
(* twice moves both twice), unless a receipt was applied to a draft or a   *)
(* receipt was written over; suppliers.balance is the creditors account    *)
(* without the assets that were bought on account, but for the same and    *)
(* for reversed payments.                                                  *)
PartiesAgree ==
  /\ gl["debtors"] # owed =>
       \E d \in disturbed : row[d].kind \in {"receipt"} \cup Invoices
  /\ gl["creditors"] # due + Total([d \in Docs |-> Owes(d)]) =>
       \/ \E d \in disturbed : row[d].kind \in {"payment", "asset"} \cup Bills
       \/ \E d \in Docs : row[d].kind = "payment" /\ reversed[d] > 0

(* No order or quotation stands behind two invoices, though creating one   *)
(* may be reported as failed when it succeeded, unless the form wrote its  *)
(* status over meanwhile.                                                  *)
OneInvoicePerOffer ==
  \A d \in Docs \ disturbed :
    row[d].kind \in Offers =>
      Cardinality({i \in Docs : row[i].kind \notin Offers /\ row[i].link = d /\ Exists(i)}) <= 1

(* No sale enters a shift that is closed. *)
NoSaleJoinsClosedShift ==
  [][\A d \in Docs : row[d].kind = "ticket" /\ row'[d] # row[d] /\ row[d].status = "none"
                     => row[row'[d].link].status = "open"]_books

-----------------------------------------------------------------------------
(* What holds as long as one session works at a time. *)

Enters(d) == entries'[d] > entries[d]

(* With the policies on, no payment and no cash purchase takes the cash    *)
(* box below zero, no credit sale, invoice or ticket, the customer over    *)
(* the limit, and nothing but a work order a warehouse below zero.         *)
NothingIsOverdrawn ==
  [][/\ \A d \in Docs : Enters(d) =>
          /\ row[d].kind \in {"payment", "cashPurchase"} => gl'["cash"] >= 0
          /\ row[d].kind \in {"sale", "ticket"} /\ owed' > owed => owed' <= CreditLimit
     /\ \A w \in Warehouses :
          stock'["raw"][w] < 0 /\ stock'["raw"][w] < stock["raw"][w]
          => \E d \in Docs : row[d].kind = "workOrder" /\ Enters(d)]_books

(* Receipts, payments and posting never settle more than the invoice, and  *)
(* an asset is never depreciated by more than it cost, whatever the order  *)
(* of the months and however often its life is estimated anew.             *)
SettledWithinTotal ==
  \A d \in Docs :
    row[d].kind \in Invoices \cup Bills \cup {"ticket", "asset"} => row[d].paid <= row[d].qty

(* Nothing is reversed or disposed of twice, and the difference of a shift *)
(* and the provision of a year are booked once.                            *)
OncePerDocument ==
  \A d \in Docs : reversed[d] <= 1 /\ (row[d].kind \in {"shift", "provision"} => entries[d] <= 1)

(* What an entry stands for is still there: an invoice, a return, a        *)
(* voucher or a payroll run that was booked is neither deleted nor a draft *)
(* again.                                                                  *)
NoOrphanEntry ==
  \A d \in Docs \ disturbed :
    row[d].kind \in Invoices \cup Bills \cup Slips \cup {"saleReturn", "purchaseReturn", "payroll"} /\ entries[d] > 0
    => row[d].status \notin {"none", "gone", "draft"}

(* A posted manual entry stands as it was posted: it is corrected by a     *)
(* mirror entry, its lines are never written again and it is not deleted.  *)
PostedEntryStands ==
  [][\A d \in Docs : row[d].kind = "journal" /\ row[d].status = "posted" => row'[d] = row[d]]_books

(* No approval takes an employee's leaves over the entitlement, unless a   *)
(* leave was decided on by somebody else after the balance was read.       *)
LeavesWithinEntitlement ==
  Days({"approved"}) > LeaveDays => \E d \in disturbed : row[d].kind = "leave"

(* Whatever is posted is posted in an open period: all of it but the dues  *)
(* of an employee who leaves asks the fiscal period, and the documents     *)
(* that carry tax, the entries and the wages ask the tax period too.       *)
Taxed == Invoices \cup Bills \cup {"saleReturn", "purchaseReturn", "ticket", "adjustment", "journal", "payroll"}
ClosedPeriodIsLocked ==
  [][\A d \in Docs : Enters(d) => /\ row[d].kind # "endOfService" => FiscalOpen
                                  /\ row[d].kind \in Taxed => TaxOpen]_books

-----------------------------------------------------------------------------
(* What the repository says, and the code does otherwise. *)

(* reversal.ts:446: the reversal of a payment undoes what the posting did  *)
(* to the supplier's balance.                                              *)
ReversalUndoesPayment ==
  gl["creditors"] # due => \E d \in disturbed : row[d].kind \in {"payment"} \cup Bills

(* manufacturing/api.ts: starting an order fails with a shortage report    *)
(* instead of silently going negative.                                     *)
StartIsCovered ==
  [][\A d \in Docs : row[d].kind = "workOrder" /\ row[d].status = "planned"
                     /\ row'[d].status = "in_progress"
                     => \A w \in Warehouses : stock'["raw"][w] >= 0]_books

(* sales/api.ts: a failed conversion releases the claim so that the        *)
(* operator can retry; a converted quotation has an invoice behind it once *)
(* nobody is converting it.                                                *)
ConvertedHasInvoice ==
  \A d \in Docs \ disturbed :
    row[d].kind = "quotation" /\ row[d].status = "converted"
    /\ (\A u \in Users : hand[u].doc # d)
    => \E i \in Docs : row[i].link = d

(* yearEnd.ts: closing a fiscal year flips the period to closed.           *)
FinalCloseCloses ==
  [][\A u \in Users : hand[u].op = "year" /\ hand'[u].op # "year"
                      => row'[hand[u].doc].status = "closed"]_books
=============================================================================
