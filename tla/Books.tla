-------------------------------- MODULE Books --------------------------------
(***************************************************************************)
(* What the posting paths of the accounting program share: the documents,  *)
(* the general ledger, the party balances, the stock and its cost layers,  *)
(* and the way a session works on them.                                    *)
(*                                                                         *)
(* Every posting function reads its document and checks its gates with     *)
(* plain queries, plans the statements, and only then opens ONE            *)
(* transaction that applies the plan.  The reads are one step here and the *)
(* transaction is another, so anything another session commits may fall in *)
(* between; the plan waits in hand[u] meanwhile.                           *)
(*                                                                         *)
(* One stocked product "raw" and one manufactured product "made", unit     *)
(* price and unit cost 1, no tax, discount or foreign currency: a          *)
(* document's quantity is also its total and its cost.  Valuation is FIFO. *)
(***************************************************************************)
EXTENDS Integers, Sequences, FiniteSets, FiniteSetsExt

CONSTANTS
  Docs, NoDoc,
  Mixes,         \* the assignments of kinds to documents that are considered
  Users,         \* sessions: browser tabs, desktop windows, the assistant
  Main, Branch,  \* warehouses; Main is the first one created
  HasDefault,    \* inventory.default_warehouse_id is set (to Main)
  Allow,         \* policies that are on: "sale", "purchaseReturn", "issue",
                 \* "cashbox", "overlimit"
  CreditLimit,   \* customers.credit_limit; 0 is unlimited
  LeaveDays,     \* hr policy: days of leave an employee is entitled to
  MaxQty, MaxOps, \* bounds: quantity of a document, operations begun
  OpeningCash

Kinds == {"sale", "cashSale", "saleReturn", "purchase", "cashPurchase", "purchaseReturn",
          "receipt", "payment", "transfer", "adjustment", "workOrder",
          "quotation", "order", "shift", "ticket", "journal", "asset",
          "payroll", "endOfService", "leave", "provision",
          "year", "half", "taxPeriod", "none"}

ASSUME BooksAssumption ==
  /\ IsFiniteSet(Docs) /\ NoDoc \notin Docs
  /\ Mixes \subseteq [Docs -> Kinds]
  /\ Main # Branch
  /\ HasDefault \in BOOLEAN
  /\ CreditLimit \in Nat /\ LeaveDays \in Nat
  /\ MaxQty \in Nat \ {0} /\ MaxOps \in Nat /\ OpeningCash \in Nat

VARIABLES
  row,        \* the document tables, one row per document
  entries,    \* journal entries that carry a document's number
  booked,     \* what those of a voucher add up to; of an asset, the months
              \* charged, 1 for the first and 2 for the second
  reversed,   \* journal entries that carry REV-, or DSP-, and its number
  gl,         \* general ledger balances
  owed,       \* customers.balance of the customer
  due,        \* suppliers.balance of the supplier
  stock,      \* stock.quantity of a product in a warehouse
  layers,     \* inventory_layers.qty_remaining of a product, oldest first
  hand,       \* what a session has read and is about to write
  ops,        \* operations begun so far
  disturbed   \* history: documents that were not what they had been read as
              \* when they were written, or that left the usual sequence

money == <<gl, owed, due>>
goods == <<stock, layers>>
papers == <<row, entries, booked, reversed>>
work == <<hand, ops, disturbed>>
books == <<papers, money, goods, work>>

Warehouses == {Main, Branch}
Products == {"raw", "made"}
Accounts == {"cash", "debtors", "creditors", "inventory", "wip", "finished", "difference",
             "other", "assets", "accumulated", "wages", "severance", "leaves"}
Status == {"none", "gone", "draft", "posted", "partially_paid", "paid", "cancelled",
           "reversed", "completed", "approved", "planned", "in_progress",
           "sent", "received", "converted", "open", "closed", "soft_closed", "filed",
           "pending", "rejected", "active", "disposed"}
Ops == {"idle", "write", "post", "floor", "reverse", "complete", "cancel",
        "new", "next", "claim", "claimed", "release", "close", "lookup", "entry",
        "header", "lines", "insert", "charge", "dispose", "year", "reopen", "return"}

(* qty: the lines' base quantity and the total; the opening balance of a   *)
(* shift.  paid: paid_amount; what a till ticket took in cash.  link,      *)
(* applied: invoice_id and amount_applied of a voucher, invoice_id of a    *)
(* return, purchase_order_id of an invoice, the shift of a ticket.  mark:  *)
(* system_qty of an adjustment, wip_materials_cost of a work order, the    *)
(* expected balance of a closed shift, the first day of a leave, what an   *)
(* asset owes its supplier.  actual: the counted quantity of an adjustment, *)
(* actual_quantity of a consumption, the closing balance, the useful life  *)
(* of an asset.  An asset: qty is the cost, paid the accumulated           *)
(* depreciation, applied what the cash box has spent on it.                *)
Row == [kind : Kinds, status : Status, qty : Int, paid : Int,
        link : Docs \cup {NoDoc}, applied : Int, mark : Int, actual : Int]

Blank(k) == [kind |-> k, status |-> "none", qty |-> 0, paid |-> 0,
             link |-> NoDoc, applied |-> 0, mark |-> 0, actual |-> 0]

(* The row r after SET of the columns of w. *)
Updated(r, w) == [c \in DOMAIN r |-> IF c \in DOMAIN w THEN w[c] ELSE r[c]]
Writable(w) == /\ DOMAIN w \subseteq DOMAIN Blank("none") \ {"kind"}
               /\ Updated(Blank("none"), w) \in Row

(* doc and seen: the row as it was read; want: the columns a statement     *)
(* will write; take: the quantity to consume of each layer; at: the        *)
(* warehouse.                                                              *)
Idle == [op |-> "idle", doc |-> NoDoc, seen |-> Blank("none"), want |-> [qty |-> 0],
         take |-> <<>>, at |-> Main]

(* Every variable stays in its range.                                      *)
BooksTypeOK ==
  /\ row \in [Docs -> Row]
  /\ entries \in [Docs -> Nat] /\ booked \in [Docs -> Int] /\ reversed \in [Docs -> Nat]
  /\ gl \in [Accounts -> Int] /\ owed \in Int /\ due \in Int
  /\ stock \in [Products -> [Warehouses -> Int]]
  /\ layers \in [Products -> Seq(Nat)]
  /\ \A u \in Users : /\ hand[u].op \in Ops /\ hand[u].doc \in Docs \cup {NoDoc}
                      /\ hand[u].seen \in Row /\ Writable(hand[u].want)
                      /\ hand[u].take \in Seq(Nat) /\ hand[u].at \in Warehouses
  /\ ops \in 0..MaxOps /\ disturbed \subseteq Docs

-----------------------------------------------------------------------------
(* Stock and layers. *)

Total(f) == MapThenSumSet(LAMBDA x : f[x], DOMAIN f)

(* ORDER BY quantity DESC LIMIT 1; either one on a tie. *)
Richest(p) == {w \in Warehouses : \A v \in Warehouses : stock[p][v] <= stock[p][w]}

(* The default warehouse when it holds the quantity, else the richest. *)
Sources(p, n) ==
  IF HasDefault /\ stock[p][Main] >= n THEN {Main} ELSE Richest(p)

(* Faulty: the warehouses are added up. *)
FaultySufficient(policy, n) == policy \in Allow \/ Total(stock["raw"]) >= n

(* checkStockSufficiency: the richest warehouse alone must hold it. *)
Sufficient(policy, n) ==
  policy \in Allow \/ \E w \in Warehouses : stock["raw"][w] >= n

(* allocateFifoOutflow: oldest layers first, the excess over what the      *)
(* older layers hold, at most what is left of the layer.                   *)
Older(ls, i) == Total([j \in 1..(i - 1) |-> ls[j]])
Clamp(n, hi) == IF n < 0 THEN 0 ELSE IF n > hi THEN hi ELSE n
Fifo(n) == LET ls == layers["raw"] IN
           [i \in 1..Len(ls) |-> Clamp(n - Older(ls, i), ls[i])]
Allocated(n) == Total(layers["raw"]) >= n

(* Faulty: the guard on what is left of the layer is dropped. *)
FaultyConsume(ls, take) ==
  [i \in 1..Len(ls) |-> IF i \in 1..Len(take) THEN ls[i] - take[i] ELSE ls[i]]

(* buildFifoConsumeStatements: one UPDATE per layer, WHERE qty_remaining   *)
(* >= the quantity, and nothing happens to a layer that has less by now.   *)
Consume(ls, take) ==
  [i \in 1..Len(ls) |->
     IF i \in 1..Len(take) /\ take[i] <= ls[i] THEN ls[i] - take[i] ELSE ls[i]]

(* buildFifoRestoreStatement: an inflow opens a layer, unless it is empty. *)
Opened(ls, n) == IF n > 0 THEN Append(ls, n) ELSE ls

Consumes(take) == layers' = [layers EXCEPT !["raw"] = Consume(@, take)]
Opens(p, n) == layers' = [layers EXCEPT ![p] = Opened(@, n)]
Moves(p, w, n) == stock' = [stock EXCEPT ![p][w] = @ + n]

-----------------------------------------------------------------------------
(* Documents, the journal, and a session at work. *)

Exists(d) == row[d].status \notin {"none", "gone"}
(* A statement that joins the lines finds none once the document is gone. *)
Lines(d) == IF Exists(d) THEN row[d].qty ELSE 0
Outstanding(r) == r.qty - r.paid

(* All dates fall in the first half of one fiscal year and in one tax      *)
(* period.                                                                 *)
Rows(k) == {d \in Docs : row[d].kind = k /\ Exists(d)}

(* assertAccountingPeriodOpen: the narrowest period that covers the date   *)
(* is open, or there is none.                                              *)
FiscalOpen ==
  \A d \in IF Rows("half") # {} THEN Rows("half") ELSE Rows("year") : row[d].status = "open"

(* assertPeriodOpen, for the tax period. *)
TaxOpen == \A d \in Rows("taxPeriod") : row[d].status = "open"
PeriodOpen == FiscalOpen /\ TaxOpen

(* getCashBoxGlBalance: the cash box must not go below zero. *)
Affordable(n) == gl["cash"] >= n \/ "cashbox" \in Allow

(* A document is inserted, header and lines in one statement. *)
Creates(d, kinds, new) ==
  /\ row[d].kind \in kinds /\ row[d].status = "none"
  /\ row' = [row EXCEPT ![d] = Updated(@, new)]
  /\ UNCHANGED <<entries, booked, reversed, money, goods, work>>

(* The reads of an operation on d; the conditions it refuses by stand      *)
(* beside it.  A function that creates a document and posts it at once     *)
(* goes on with the posting ("next").                                      *)
Reads(u, op, d, want, take, w) ==
  /\ \/ hand[u] = Idle /\ ops < MaxOps /\ ops' = ops + 1
     \/ hand[u].op = "next" /\ hand[u].doc = d /\ op = "post" /\ UNCHANGED ops
  /\ hand' = [hand EXCEPT ![u] = [op |-> op, doc |-> d, seen |-> row[d],
                                  want |-> want, take |-> take, at |-> w]]
  /\ UNCHANGED <<papers, money, goods, disturbed>>

Keeps(u, op, d) == Reads(u, op, d, Idle.want, <<>>, Main)
Edits(u, d, want) == Reads(u, "write", d, want, <<>>, Main)
Deletes(u, d) == Edits(u, d, [status |-> "gone"])

(* Faulty: no period is asked. *)
FaultyPosts(u, d, take) == Reads(u, "post", d, Idle.want, take, Main)

(* The posting of a document asks both periods. *)
Posts(u, d, take) == PeriodOpen /\ Reads(u, "post", d, Idle.want, take, Main)

At(u, op, kinds) == hand[u].op = op /\ hand[u].seen.kind \in kinds

(* buildJournalEntryStatement: an entry under d's number; balances move by *)
(* the legs, debits positive ("creditors" counts credits).                 *)
Ledger(legs) ==
  gl' = [a \in Accounts |-> gl[a] + IF a \in DOMAIN legs THEN legs[a] ELSE 0]
Journal(d, legs) ==
  /\ Ledger(legs)
  /\ entries' = [entries EXCEPT ![d] = @ + 1]
  /\ booked' = [booked EXCEPT ![d] = @ + IF "cash" \in DOMAIN legs THEN legs["cash"] ELSE 0]
  /\ UNCHANGED reversed

(* UPDATE ... SET status = s WHERE id = d AND status IN from: the guarded  *)
(* flip a posting ends with.  It changes no row when another session was   *)
(* faster, and the transaction commits all the same.                       *)
Flipped(d, from, s) == [row EXCEPT ![d].status = IF @ \in from THEN s ELSE @]

(* The session is free again.  The history keeps the document if its row   *)
(* was no longer the one that was read, and those in odd.                  *)
EndsWith(u, odd) ==
  LET d == hand[u].doc IN
  /\ hand' = [hand EXCEPT ![u] = Idle]
  /\ disturbed' = disturbed \cup odd \cup {x \in {d} : row[x] # hand[u].seen}
  /\ UNCHANGED ops
Ends(u) == EndsWith(u, {})

(* The write of an operation that looked before: an UPDATE or DELETE by id *)
(* alone.  The history keeps a document whose effect on the books stands   *)
(* when it is written over by one of the functions that take any status;   *)
(* consumptions are recorded during production.                            *)
Standing == {"posted", "partially_paid", "paid", "in_progress", "completed", "converted",
             "active", "approved"}
Unguarded(k, want) ==
  \/ k \in {"workOrder", "adjustment", "transfer", "quotation", "order"}
  \/ k \in {"receipt", "payment"} /\ "status" \in DOMAIN want /\ want.status # "gone"
  \/ k \in {"asset", "endOfService"} /\ "status" \in DOMAIN want
Write(u) ==
  LET d == hand[u].doc
      r == hand[u].seen
      odd == {x \in {d} : /\ r.status \in Standing /\ Unguarded(r.kind, hand[u].want)
                          /\ ~(r.status = "in_progress" /\ DOMAIN hand[u].want = {"actual"})} IN
  /\ hand[u].op = "write"
  /\ row' = IF Exists(d) THEN [row EXCEPT ![d] = Updated(@, hand[u].want)] ELSE row
  /\ EndsWith(u, odd)
  /\ UNCHANGED <<entries, booked, reversed, money, goods>>

(* The transaction is refused or the connection is lost: nothing of it     *)
(* remains, and the caller reports the failure.                            *)
Fails(u) ==
  /\ hand[u].op \notin {"idle", "claimed", "release", "year"}
  /\ hand' = [hand EXCEPT ![u] = Idle]
  /\ UNCHANGED <<papers, money, goods, ops, disturbed>>

-----------------------------------------------------------------------------
Opening(a) == CASE a = "cash" -> OpeningCash [] a = "inventory" -> 3 [] OTHER -> 0

BooksInit ==
  /\ \E mix \in Mixes, before \in {"none", "closed"} :
       row = [d \in Docs |-> [Blank(mix[d]) EXCEPT !.status = IF mix[d] = "year" THEN before ELSE @]]
  /\ entries = [d \in Docs |-> 0]
  /\ booked = [d \in Docs |-> 0]
  /\ reversed = [d \in Docs |-> 0]
  /\ gl = [a \in Accounts |-> Opening(a)]
  /\ owed = 0 /\ due = 0
  /\ stock = [p \in Products |-> [w \in Warehouses |->
                IF p = "made" THEN 0 ELSE IF w = Main THEN 2 ELSE 1]]
  /\ layers = [p \in Products |-> IF p = "raw" THEN <<1, 2>> ELSE <<>>]
  /\ hand = [u \in Users |-> Idle]
  /\ ops = 0
  /\ disturbed = {}

BooksStep == \E u \in Users : Write(u) \/ Fails(u)
=============================================================================
