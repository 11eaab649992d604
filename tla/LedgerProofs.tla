----------------------------- MODULE LedgerProofs -----------------------------
(***************************************************************************)
(* The ledger, the stock and the balances of the parties as sums over all  *)
(* documents, for any number of documents and sessions: every step moves   *)
(* them by what it changes in the share of one document.                   *)
(***************************************************************************)
EXTENDS TradeProofs

-----------------------------------------------------------------------------
(* The share of a document in an account, as a function of its row and of  *)
(* how many entries it has and how many reverse it.                        *)
Told == Accounts \ {"inventory", "difference"}

Held(r, kinds, of, n) == IF r.kind \in kinds /\ r.status \in of THEN n ELSE 0
Part(a, r, e, v) ==
  CASE a = "debtors" ->
         Held(r, {"sale"}, Billed, r.qty) + Held(r, {"ticket"}, Billed, r.qty - r.mark)
         - Held(r, {"saleReturn", "receipt"}, Posted, r.qty)
    [] a = "creditors" ->
         Held(r, {"purchase"}, Entered, r.qty) - Held(r, {"purchaseReturn", "payment"}, Posted, r.qty)
         + Held(r, {"asset"}, Registered, r.mark)
    [] a = "cash" ->
         Held(r, {"cashSale"}, Billed, r.qty) + Held(r, {"ticket"}, Billed, r.mark)
         + Held(r, {"receipt"}, Posted, r.qty) - Held(r, {"cashPurchase"}, Entered, r.qty)
         - Held(r, {"payment"}, Posted, r.qty) + Held(r, {"shift"}, Status, e * (r.actual - r.mark))
         - Held(r, {"journal"}, Posted, (1 - v) * r.qty) - Held(r, {"endOfService"}, {"paid"}, r.qty)
         - Held(r, {"asset"}, Registered, r.applied)
    [] a = "wip" -> Held(r, {"workOrder"}, {"in_progress"}, r.qty)
    [] a = "finished" -> Held(r, {"workOrder"}, {"completed"}, r.actual)
    [] a = "other" -> Held(r, {"journal"}, Posted, (1 - v) * r.qty)
    [] a = "wages" -> Held(r, {"payroll"}, Posted, (1 - v) * r.qty)
    [] a = "leaves" -> Held(r, {"provision"}, Posted, (1 - v) * r.qty)
    [] a = "severance" -> Held(r, {"endOfService"}, {"approved"}, r.qty)
    [] a = "assets" -> Held(r, {"asset"}, {"active"}, r.qty)
    [] a = "accumulated" -> Held(r, {"asset"}, {"active"}, r.paid)

LEMMA ShareIs ==
  ASSUME NEW a \in Told, NEW d \in Docs
  PROVE  /\ Share(a, d) = Part(a, row[d], entries[d], reversed[d])
         /\ Share(a, d)' = Part(a, row'[d], entries'[d], reversed'[d])
<1>1. Share(a, d) = Part(a, row[d], entries[d], reversed[d])
  BY DEF Share, Part, In, Held, Unreversed, Owes
<1>2. Share(a, d)' = Part(a, row'[d], entries'[d], reversed'[d])
  BY DEF Share, Part, In, Held, Unreversed, Owes
<1>. QED  BY <1>1, <1>2

ToldList == {"cash", "debtors", "creditors", "wip", "finished", "other", "assets", "accumulated",
             "wages", "severance", "leaves"}
LEMMA ToldIs == Told = ToldList
BY DEF Told, Accounts, ToldList

(* Kind by kind: where a document has its share, and what it is.           *)
On(r, of, n) == IF r.status \in of THEN n ELSE 0

LEMMA SalePart ==
  ASSUME NEW r \in Row, NEW e \in Int, NEW v \in Int, NEW a \in Told
  PROVE  /\ r.kind = "sale" => Part(a, r, e, v) = IF a = "debtors" THEN On(r, Billed, r.qty) ELSE 0
         /\ r.kind = "cashSale" => Part(a, r, e, v) = IF a = "cash" THEN On(r, Billed, r.qty) ELSE 0
         /\ r.kind = "saleReturn" => Part(a, r, e, v) = IF a = "debtors" THEN On(r, Posted, -r.qty) ELSE 0
BY ToldIs, RowColumns DEF Part, Held, On, ToldList


LEMMA TicketPart ==
  ASSUME NEW r \in Row, NEW e \in Int, NEW v \in Int, NEW a \in Told
  PROVE  /\ r.kind = "ticket" => Part(a, r, e, v) = CASE a = "debtors" -> On(r, Billed, r.qty - r.mark)
                                                      [] a = "cash" -> On(r, Billed, r.mark)
                                                      [] OTHER -> 0
         /\ r.kind = "receipt" => Part(a, r, e, v) = CASE a = "debtors" -> On(r, Posted, -r.qty)
                                                       [] a = "cash" -> On(r, Posted, r.qty)
                                                       [] OTHER -> 0
         /\ r.kind = "payment" => Part(a, r, e, v) = CASE a = "creditors" -> On(r, Posted, -r.qty)
                                                       [] a = "cash" -> On(r, Posted, -r.qty)
                                                       [] OTHER -> 0
BY ToldIs, RowColumns DEF Part, Held, On, ToldList

LEMMA PurchasePart ==
  ASSUME NEW r \in Row, NEW e \in Int, NEW v \in Int, NEW a \in Told
  PROVE  /\ r.kind = "purchase" => Part(a, r, e, v) = IF a = "creditors" THEN On(r, Entered, r.qty) ELSE 0
         /\ r.kind = "cashPurchase" => Part(a, r, e, v) = IF a = "cash" THEN On(r, Entered, -r.qty) ELSE 0
         /\ r.kind = "purchaseReturn" => Part(a, r, e, v) = IF a = "creditors" THEN On(r, Posted, -r.qty) ELSE 0
BY ToldIs, RowColumns DEF Part, Held, On, ToldList

LEMMA EntryPart ==
  ASSUME NEW r \in Row, NEW e \in Int, NEW v \in Int, NEW a \in Told, NEW n \in Int, n = (1 - v) * r.qty
  PROVE  /\ r.kind = "journal" => Part(a, r, e, v) = CASE a = "other" -> On(r, Posted, n)
                                                       [] a = "cash" -> On(r, Posted, -n)
                                                       [] OTHER -> 0
         /\ r.kind = "payroll" => Part(a, r, e, v) = IF a = "wages" THEN On(r, Posted, n) ELSE 0
         /\ r.kind = "provision" => Part(a, r, e, v) = IF a = "leaves" THEN On(r, Posted, n) ELSE 0
BY ToldIs, RowColumns DEF Part, Held, On, ToldList

LEMMA ShiftPart ==
  ASSUME NEW r \in Row, NEW e \in Int, NEW v \in Int, NEW a \in Told, NEW n \in Int, n = e * (r.actual - r.mark)
  PROVE  r.kind = "shift" => Part(a, r, e, v) = IF a = "cash" THEN n ELSE 0
BY ToldIs, RowColumns DEF Part, Held, On, ToldList

LEMMA DuesPart ==
  ASSUME NEW r \in Row, NEW e \in Int, NEW v \in Int, NEW a \in Told
  PROVE  /\ r.kind = "endOfService" => Part(a, r, e, v) = CASE a = "cash" -> On(r, {"paid"}, -r.qty)
                                                            [] a = "severance" -> On(r, {"approved"}, r.qty)
                                                            [] OTHER -> 0
         /\ r.kind = "workOrder" => Part(a, r, e, v) = CASE a = "wip" -> On(r, {"in_progress"}, r.qty)
                                                         [] a = "finished" -> On(r, {"completed"}, r.actual)
                                                         [] OTHER -> 0
BY ToldIs, RowColumns DEF Part, Held, On, ToldList

LEMMA AssetPart ==
  ASSUME NEW r \in Row, NEW e \in Int, NEW v \in Int, NEW a \in Told
  PROVE  r.kind = "asset" => Part(a, r, e, v) = CASE a = "cash" -> On(r, Registered, -r.applied)
                                                  [] a = "creditors" -> On(r, Registered, r.mark)
                                                  [] a = "assets" -> On(r, {"active"}, r.qty)
                                                  [] a = "accumulated" -> On(r, {"active"}, r.paid)
                                                  [] OTHER -> 0
BY ToldIs, RowColumns DEF Part, Held, On, ToldList

(* Documents that book nothing of their own, and those that have not yet,  *)
(* or no longer, booked anything.                                          *)
Mute == {"transfer", "adjustment", "quotation", "order", "leave", "year", "half", "taxPeriod", "none"}

LEMMA NoPart ==
  ASSUME NEW r \in Row, NEW e \in Int, NEW v \in Int, NEW a \in Told, r.kind # "shift",
         r.kind \in Mute \/ (r.status \notin Standing /\ (r.kind = "asset" => r.status # "disposed"))
  PROVE  Part(a, r, e, v) = 0
<1>. /\ r.qty \in Int /\ r.mark \in Int /\ r.actual \in Int /\ r.applied \in Int /\ r.paid \in Int
     /\ r.qty - r.mark \in Int /\ (1 - v) * r.qty \in Int
  BY RowColumns
<1>1. CASE r.kind \in Mute
  BY <1>1, ToldIs DEF Part, Held, Mute, ToldList
<1>2. CASE r.status \notin Standing /\ (r.kind = "asset" => r.status # "disposed")
  BY <1>2, ToldIs DEF Part, Held, ToldList, Standing, Billed, Entered, Posted, Registered
<1>. QED  BY <1>1, <1>2

LEMMA ActualAside ==
  ASSUME NEW r \in Row, NEW q \in Row, NEW e \in Int, NEW v \in Int, NEW a \in Told, r.kind # "shift",
         r.status # "completed" \/ r.kind = "asset", Like(r, q, {"actual"})
  PROVE  Part(a, r, e, v) = Part(a, q, e, v)
<1>. /\ r.kind = q.kind /\ r.status = q.status /\ r.qty = q.qty /\ r.paid = q.paid /\ r.applied = q.applied
     /\ r.mark = q.mark
  BY DEF Like
<1>. QED  BY ToldIs DEF Part, Held, ToldList

LEMMA PartIsInt ==
  ASSUME NEW r \in Row, NEW e \in Int, NEW v \in Int, NEW a \in Told
  PROVE  Part(a, r, e, v) \in Int
<1>1. /\ r.qty \in Int /\ r.mark \in Int /\ r.actual \in Int /\ r.applied \in Int /\ r.paid \in Int
      /\ r.qty - r.mark \in Int /\ (1 - v) * r.qty \in Int /\ e * (r.actual - r.mark) \in Int
  BY RowColumns
<1>2. \A kinds, of : \A n \in Int : Held(r, kinds, of, n) \in Int
  BY DEF Held
<1>. PICK m : m = (1 - v) * r.qty
  OBVIOUS
<1>. PICK l : l = e * (r.actual - r.mark)
  OBVIOUS
<1>3. l \in Int /\ m \in Int
  BY <1>1
<1>. QED  BY <1>1, <1>2, <1>3, ToldIs DEF Part, ToldList


-----------------------------------------------------------------------------
(* What a step that works on document d does to the sums.                  *)

Firm == Invoices \cup Bills \cup Slips \cup {"saleReturn", "purchaseReturn", "payroll"}
Stands == {"posted", "partially_paid", "paid"}
Upright(r) == r.status \in Stands \/ (r.kind \in Slips /\ r.status = "reversed")
Stocked == stock["raw"][Main] + stock["raw"][Branch]

(* What was booked of x still has its document.                            *)
Rooted(x) == row[x].kind \in Firm /\ x \notin disturbed /\ entries[x] > 0 => Upright(row[x])

(* The documents the step does not work on keep their shares.              *)
Spared(x) ==
  /\ x \notin disturbed' => \A a \in Told : Share(a, x)' = Share(a, x)
  /\ Owes(x)' = Owes(x)
  /\ Rooted(x) => Rooted(x)'
Aside(d) ==
  /\ disturbed \subseteq disturbed' /\ KindsStay
  /\ \A x \in Docs : reversed[x] <= reversed'[x]
  /\ \A x \in Docs \ {d} : Spared(x)

ToldMoves(d) == \A a \in Told : gl'[a] = gl[a] + Share(a, d)' - Share(a, d)
BooksMove(d) == d \notin disturbed' => ToldMoves(d)
StockMoves(d) == d \notin disturbed' => gl'["inventory"] = gl["inventory"] + Stocked' - Stocked
DebtMoves(d) ==
  \/ d \in disturbed' /\ row[d].kind \in {"receipt"} \cup Invoices
  \/ gl'["debtors"] - owed' = gl["debtors"] - owed
CreditMoves(d) ==
  \/ d \in disturbed' /\ row[d].kind \in {"payment", "asset"} \cup Bills
  \/ row[d].kind = "payment" /\ reversed'[d] > 0
  \/ gl'["creditors"] - due' = gl["creditors"] - due + Owes(d)' - Owes(d)
Square(d) ==
  /\ Aside(d) /\ BooksMove(d) /\ StockMoves(d) /\ DebtMoves(d) /\ CreditMoves(d)
  /\ Rooted(d) => Rooted(d)'

LEMMA SparedIs ==
  ASSUME NEW x \in Docs, row'[x] = row[x], entries'[x] = entries[x], reversed'[x] = reversed[x],
         disturbed \subseteq disturbed'
  PROVE  Spared(x)
<1>1. \A a \in Told : Share(a, x)' = Share(a, x)
  BY ShareIs
<1>2. Owes(x)' = Owes(x)
  BY DEF Owes, In
<1>. QED  BY <1>1, <1>2 DEF Spared, Rooted, Upright

LEMMA AsideIs ==
  ASSUME TypeIInv, NEW d \in Docs, NEW cols, Changes(d, cols), SameElse(d), disturbed \subseteq disturbed',
         reversed[d] <= reversed'[d]
  PROVE  Aside(d)
<1>1. KindsStay /\ \A x \in Docs \ {d} : row'[x] = row[x]
  BY ChangesType DEF TypeIInv, PapersOK
<1>2. \A x \in Docs \ {d} : Spared(x)
  BY <1>1, SparedIs DEF SameElse
<1>3. \A x \in Docs : reversed[x] <= reversed'[x]
  BY DEF SameElse, TypeIInv, PapersOK
<1>. QED  BY <1>1, <1>2, <1>3 DEF Aside

LEMMA OwesIs ==
  ASSUME NEW d \in Docs
  PROVE  /\ Owes(d) = IF row[d].kind = "asset" /\ row[d].status \in Registered THEN row[d].mark ELSE 0
         /\ Owes(d)' = IF row'[d].kind = "asset" /\ row'[d].status \in Registered THEN row'[d].mark ELSE 0
BY DEF Owes, In, Registered

LEMMA MovesStocked ==
  ASSUME GoodsOK, NEW w \in Warehouses, NEW n \in Int, Moves("raw", w, n)
  PROVE  Stocked' = Stocked + n
<1>1. stock["raw"] \in [Warehouses -> Int] /\ "raw" \in DOMAIN stock
  BY DEF GoodsOK, Products
<1>2. stock'["raw"] = [stock["raw"] EXCEPT ![w] = @ + n]
  BY <1>1 DEF Moves
<1>. QED  BY <1>1, <1>2, BooksAssumption DEF Stocked, Warehouses, BooksAssumption

(* Steps that book nothing: no document in its new state has a share that  *)
(* it had not before, unless the history keeps it.                         *)
Unbooks == gl' = gl /\ owed' = owed /\ due' = due /\ Stocked' = Stocked

LEMMA StillSquare ==
  ASSUME TypeIInv, NEW d \in Docs, Aside(d), Unbooks,
         d \notin disturbed' => \A a \in Told : Share(a, d)' = Share(a, d),
         Owes(d)' = Owes(d) \/ (d \in disturbed' /\ row[d].kind = "asset"),
         Rooted(d) => Rooted(d)'
  PROVE  Square(d)
<1>1. gl \in [Accounts -> Int] /\ owed \in Int /\ due \in Int
  BY DEF TypeIInv, MoneyOK
<1>2. row[d] \in Row /\ Owes(d) \in Int
  BY RowColumns DEF TypeIInv, PapersOK, Owes, In
<1>3. \A a \in Told : Share(a, d) \in Int
  <2>1. row[d] \in Row /\ entries[d] \in Int /\ reversed[d] \in Int
    BY DEF TypeIInv, PapersOK
  <2>. QED  BY <2>1, ShareIs, PartIsInt
<1>4. BooksMove(d)
  BY <1>1, <1>3 DEF BooksMove, ToldMoves, Unbooks, Told
<1>5. StockMoves(d)
  <2>1. Stocked \in Int
    BY DEF Stocked, TypeIInv, GoodsOK, Products, Warehouses
  <2>. QED  BY <1>1, <2>1 DEF StockMoves, Unbooks, Accounts
<1>6. DebtMoves(d)
  BY DEF DebtMoves, Unbooks
<1>7. CreditMoves(d)
  BY <1>1, <1>2 DEF CreditMoves, Unbooks, Accounts
<1>. QED  BY <1>4, <1>5, <1>6, <1>7 DEF Square


-----------------------------------------------------------------------------
(* Sums that start at nothing, and the sum over both warehouses.           *)

LEMMA TotalZero ==
  ASSUME NEW S, IsFiniteSet(S), NEW f \in [S -> Int], \A x \in S : f[x] = 0
  PROVE  Total(f) = 0
<1>1. DOMAIN f = S /\ S \in SUBSET S
  OBVIOUS
<1>2. PICK i : Runs(f, S, i) /\ Total(f) = i[S]
  BY <1>1, TotalRuns, RunsExists
<1> DEFINE B == {n \in Nat : \E t \in SUBSET S : Cardinality(t) = n /\ i[t] # 0}
<1>3. \A t \in SUBSET S : IsFiniteSet(t) /\ Cardinality(t) \in Nat
  BY FS_Subset, FS_CardinalityType
<1>4. SUFFICES ASSUME B # {} PROVE FALSE
  BY <1>1, <1>2, <1>3
<1>5. PICK m \in B : \A k \in B : m <= k
  BY <1>4, LeastNat
<1>6. PICK t \in SUBSET S : Cardinality(t) = m /\ i[t] # 0
  BY <1>5
<1>7. t # {}
  BY <1>2, <1>6 DEF Runs
<1> DEFINE x == Pick(t)
           r == t \ {x}
<1>8. x \in t
  BY <1>7, PickIn
<1>9. i[t] = f[x] + i[r]
  BY <1>2, <1>7 DEF Runs
<1>10. Cardinality(r) = m - 1 /\ r \in SUBSET S
  BY <1>3, <1>6, <1>8, FS_RemoveElement
<1> HIDE DEF x
<1>11. m \in Nat /\ Cardinality(r) \in Nat
  BY <1>3, <1>5, <1>10
<1>12. i[r] = 0
  BY <1>5, <1>10, <1>11
<1>. QED  BY <1>6, <1>8, <1>9, <1>12

LEMMA WarehousesFinite == IsFiniteSet(Warehouses)
<1>1. IsFiniteSet({}) /\ Warehouses = ({} \cup {Main}) \cup {Branch}
  BY FS_EmptySet DEF Warehouses
<1>. QED  BY <1>1, FS_AddElement

LEMMA TotalOfBoth ==
  ASSUME NEW f \in [Warehouses -> Int]
  PROVE  Total(f) = f[Main] + f[Branch]
<1>. Main # Branch
  BY BooksAssumption DEF BooksAssumption
<1> DEFINE z == [w \in Warehouses |-> 0]
           g == [w \in Warehouses |-> IF w = Main THEN f[Main] ELSE 0]
<1>. /\ z \in [Warehouses -> Int] /\ g \in [Warehouses -> Int]
     /\ \A w \in Warehouses : z[w] = 0 /\ g[w] = IF w = Main THEN f[Main] ELSE 0
  BY DEF Warehouses
<1> HIDE DEF z, g
<1>1. Total(z) = 0
  BY TotalZero, WarehousesFinite
<1>2. Total(g) = Total(z) + g[Main] - z[Main]
  <2>1. \A x \in Warehouses \ {Main} : g[x] = z[x]
    OBVIOUS
  <2>. QED  BY <2>1, TotalDiffers, WarehousesFinite DEF Warehouses
<1>3. Total(f) = Total(g) + f[Branch] - g[Branch]
  <2>1. \A x \in Warehouses \ {Branch} : f[x] = g[x]
    BY DEF Warehouses
  <2>. QED  BY <2>1, TotalDiffers, WarehousesFinite DEF Warehouses
<1>. QED  BY <1>1, <1>2, <1>3 DEF Warehouses

LEMMA ShareIsInt ==
  ASSUME TypeIInv, NEW a \in Told, NEW d \in Docs
  PROVE  Share(a, d) \in Int
<1>1. row[d] \in Row /\ entries[d] \in Int /\ reversed[d] \in Int
  BY DEF TypeIInv, PapersOK
<1>. QED  BY <1>1, ShareIs, PartIsInt

LEMMA ShareIsIntNext ==
  ASSUME TypeIInv', NEW a \in Told, NEW d \in Docs
  PROVE  Share(a, d)' \in Int
<1>1. row'[d] \in Row /\ entries'[d] \in Int /\ reversed'[d] \in Int
  BY DEF TypeIInv, PapersOK
<1>. QED  BY <1>1, ShareIs, PartIsInt

-----------------------------------------------------------------------------
(* The sums over all documents follow from what a step does to one.        *)

LEMMA SquareKeepsLedger ==
  ASSUME TypeIInv, TypeIInv', LedgerMatchesDocuments, NEW d \in Docs, Square(d)
  PROVE  LedgerMatchesDocuments'
<1>. SUFFICES ASSUME disturbed' = {}, NEW a \in Told
              PROVE  gl'[a] = Opening(a) + Total([x \in Docs |-> Share(a, x)'])
  BY DEF LedgerMatchesDocuments, Told
<1>1. disturbed = {} /\ \A x \in Docs \ {d} : Share(a, x)' = Share(a, x)
  BY DEF Square, Aside, Spared
<1>2. gl[a] = Opening(a) + Total([x \in Docs |-> Share(a, x)])
  BY <1>1 DEF LedgerMatchesDocuments, Told
<1>3. gl'[a] = gl[a] + Share(a, d)' - Share(a, d)
  BY DEF Square, BooksMove, ToldMoves
<1>. PICK f : f = [x \in Docs |-> Share(a, x)]
  OBVIOUS
<1>. PICK g : g = [x \in Docs |-> Share(a, x)']
  OBVIOUS
<1>4. f \in [Docs -> Int] /\ g \in [Docs -> Int] /\ \A x \in Docs \ {d} : g[x] = f[x]
  BY <1>1, ShareIsInt, ShareIsIntNext
<1>5. Total(f) \in Int /\ Total(g) = Total(f) + g[d] - f[d]
  BY <1>4, TotalDiffers, BooksAssumption DEF BooksAssumption
<1>6. f[d] = Share(a, d) /\ g[d] = Share(a, d)' /\ f[d] \in Int /\ g[d] \in Int
  BY <1>4
<1>7. Opening(a) \in Int
  BY BooksAssumption DEF Opening, BooksAssumption
<1>. QED  BY <1>2, <1>3, <1>5, <1>6, <1>7

LEMMA StockedIs ==
  /\ TypeIInv => Total(stock["raw"]) = Stocked /\ Stocked \in Int
  /\ TypeIInv' => Total(stock'["raw"]) = Stocked' /\ Stocked' \in Int
<1>1. ASSUME TypeIInv  PROVE Total(stock["raw"]) = Stocked /\ Stocked \in Int
  <2>. PICK f : f = stock["raw"]
    OBVIOUS
  <2>1. f \in [Warehouses -> Int]
    BY <1>1 DEF TypeIInv, GoodsOK, Products
  <2>2. Total(f) = f[Main] + f[Branch] /\ f[Main] \in Int /\ f[Branch] \in Int
    BY <2>1, TotalOfBoth DEF Warehouses
  <2>. QED  BY <2>2 DEF Stocked
<1>2. ASSUME TypeIInv'  PROVE Total(stock'["raw"]) = Stocked' /\ Stocked' \in Int
  <2>. PICK f : f = stock'["raw"]
    OBVIOUS
  <2>1. f \in [Warehouses -> Int]
    BY <1>2 DEF TypeIInv, GoodsOK, Products
  <2>2. Total(f) = f[Main] + f[Branch] /\ f[Main] \in Int /\ f[Branch] \in Int
    BY <2>1, TotalOfBoth DEF Warehouses
  <2>. QED  BY <2>2 DEF Stocked
<1>. QED  BY <1>1, <1>2

LEMMA SquareKeepsStock ==
  ASSUME TypeIInv, TypeIInv', InventoryControl, NEW d \in Docs, Square(d)
  PROVE  InventoryControl'
<1>. SUFFICES ASSUME disturbed' = {}  PROVE gl'["inventory"] = Total(stock'["raw"])
  BY DEF InventoryControl
<1>1. gl["inventory"] = Total(stock["raw"])
  BY DEF Square, Aside, InventoryControl
<1>2. gl'["inventory"] = gl["inventory"] + Stocked' - Stocked
  BY DEF Square, StockMoves
<1>. QED  BY <1>1, <1>2, StockedIs

LEMMA SquareKeepsParties ==
  ASSUME TypeIInv, TypeIInv', PartiesAgree, NEW d \in Docs, Square(d)
  PROVE  PartiesAgree'
<1>0. /\ disturbed \subseteq disturbed' /\ disturbed' \subseteq Docs /\ KindsStay
      /\ \A x \in Docs : reversed[x] \in Nat /\ reversed'[x] \in Nat /\ reversed[x] <= reversed'[x]
  BY DEF Square, Aside, TypeIInv, CountsOK, PapersOK
<1>. /\ gl["debtors"] \in Int /\ gl["creditors"] \in Int /\ owed \in Int /\ due \in Int
     /\ gl'["debtors"] \in Int /\ gl'["creditors"] \in Int /\ owed' \in Int /\ due' \in Int
  BY DEF TypeIInv, MoneyOK, Accounts
<1>1. ASSUME gl'["debtors"] # owed'
      PROVE  \E x \in disturbed' : row'[x].kind \in {"receipt"} \cup Invoices
  <2>1. CASE d \in disturbed' /\ row[d].kind \in {"receipt"} \cup Invoices
    BY <2>1, <1>0 DEF KindsStay
  <2>2. CASE gl'["debtors"] - owed' = gl["debtors"] - owed
    <3>0. gl["debtors"] # owed
      BY <1>1, <2>2
    <3>1. PICK x \in disturbed : row[x].kind \in {"receipt"} \cup Invoices
      BY <3>0 DEF PartiesAgree
    <3>. QED  BY <3>1, <1>0 DEF KindsStay
  <2>. QED  BY <2>1, <2>2 DEF Square, DebtMoves
<1>. PICK f : f = [x \in Docs |-> Owes(x)]
  OBVIOUS
<1>. PICK g : g = [x \in Docs |-> Owes(x)']
  OBVIOUS
<1>2. /\ f \in [Docs -> Int] /\ g \in [Docs -> Int] /\ \A x \in Docs \ {d} : g[x] = f[x]
  <2>1. \A x \in Docs : Owes(x) \in Int /\ Owes(x)' \in Int
    BY RowColumns, OwesIs DEF TypeIInv, PapersOK
  <2>. QED  BY <2>1 DEF Square, Aside, Spared
<1>3. Total(f) \in Int /\ Total(g) = Total(f) + g[d] - f[d]
  BY <1>2, TotalDiffers, BooksAssumption DEF BooksAssumption
<1>4. f[d] = Owes(d) /\ g[d] = Owes(d)' /\ f[d] \in Int /\ g[d] \in Int
  BY <1>2
<1>5. ASSUME gl'["creditors"] # due' + Total(g)
      PROVE  \/ \E x \in disturbed' : row'[x].kind \in {"payment", "asset"} \cup Bills
             \/ \E x \in Docs : row'[x].kind = "payment" /\ reversed'[x] > 0
  <2>1. CASE d \in disturbed' /\ row[d].kind \in {"payment", "asset"} \cup Bills
    BY <2>1, <1>0 DEF KindsStay
  <2>2. CASE row[d].kind = "payment" /\ reversed'[d] > 0
    BY <2>2, <1>0 DEF KindsStay
  <2>3. CASE gl'["creditors"] - due' = gl["creditors"] - due + Owes(d)' - Owes(d)
    <3>1. gl["creditors"] # due + Total(f)
      BY <1>3, <1>4, <1>5, <2>3
    <3>2. \/ \E x \in disturbed : row[x].kind \in {"payment", "asset"} \cup Bills
          \/ \E x \in Docs : row[x].kind = "payment" /\ reversed[x] > 0
      BY <3>1 DEF PartiesAgree
    <3>. QED  BY <3>2, <1>0 DEF KindsStay
  <2>. QED  BY <2>1, <2>2, <2>3 DEF Square, CreditMoves
<1>. QED  BY <1>1, <1>5 DEF PartiesAgree

AllRooted == \A x \in Docs : Rooted(x)

LEMMA SquareKeepsRoots ==
  ASSUME AllRooted, NEW d \in Docs, Square(d)
  PROVE  AllRooted'
<1>. SUFFICES ASSUME NEW x \in Docs  PROVE Rooted(x)'
  BY DEF AllRooted
<1>. QED  BY DEF AllRooted, Square, Aside, Spared


-----------------------------------------------------------------------------
(* Steps that book nothing.                                                *)

LEMMA MuteStill ==
  ASSUME TypeIInv, NEW d \in Docs, NEW cols, Changes(d, cols), SameElse(d), disturbed \subseteq disturbed',
         reversed'[d] = reversed[d], Unbooks, row[d].kind \in Mute
  PROVE  Square(d)
<1>1. row[d] \in Row /\ row'[d] \in Row /\ row'[d].kind = row[d].kind
  BY DEF Changes, Like, TypeIInv, PapersOK
<1>2. Aside(d)
  BY AsideIs DEF TypeIInv, PapersOK
<1>3. \A a \in Told : Share(a, d)' = Share(a, d)
  <2>. SUFFICES ASSUME NEW a \in Told  PROVE Share(a, d)' = Share(a, d)
    OBVIOUS
  <2>0. Aside(d) /\ entries[d] \in Int /\ reversed[d] \in Int
    BY <1>2 DEF TypeIInv, PapersOK
  <2>1. row[d].kind # "shift" /\ row'[d].kind # "shift" /\ row'[d].kind \in Mute
    BY <1>1 DEF Mute
  <2>2. Share(a, d) = 0
    BY <1>1, <2>0, <2>1, ShareIs, NoPart
  <2>3. Part(a, row'[d], entries'[d], reversed'[d]) = 0
    BY <2>1, ToldIs DEF Part, Held, Mute, ToldList
  <2>. QED  BY <2>2, <2>3, ShareIs
<1>4. Owes(d)' = Owes(d) /\ Rooted(d)'
  BY <1>1, OwesIs DEF Mute, Rooted, Firm, Invoices, Bills, Slips
<1>. QED  BY <1>2, <1>3, <1>4, StillSquare

LEMMA SameStill ==
  ASSUME TypeIInv, NEW d \in Docs, NEW cols, Changes(d, cols), SameElse(d), disturbed \subseteq disturbed',
         Unbooks, row'[d] = row[d], entries'[d] = entries[d], reversed'[d] = reversed[d]
  PROVE  Square(d)
<1>1. Aside(d)
  BY AsideIs DEF TypeIInv, PapersOK
<1>2. Spared(d)
  BY SparedIs
<1>. QED  BY <1>1, <1>2, StillSquare DEF Spared

(* Neither before nor after the step has the document booked anything.     *)
Light(r) == r.status \notin Standing \cup {"disposed"}
LEMMA LightStill ==
  ASSUME TypeIInv, NEW d \in Docs, NEW cols, Changes(d, cols), SameElse(d), disturbed \subseteq disturbed',
         Unbooks, row[d].kind # "shift", entries'[d] = entries[d], reversed'[d] = reversed[d],
         Light(row'[d]), d \notin disturbed' => Light(row[d]),
         Light(row[d]) \/ row[d].kind = "asset" \/ Owes(d) = 0,
         row[d].kind \in Firm /\ d \notin disturbed' => row[d].status # "reversed"
  PROVE  Square(d)
<1>0. /\ row[d] \in Row /\ row'[d] \in Row /\ row'[d].kind = row[d].kind
      /\ entries[d] \in Int /\ reversed[d] \in Int
  BY DEF Changes, Like, TypeIInv, PapersOK
<1>1. Aside(d)
  BY AsideIs DEF TypeIInv, PapersOK
<1>2. ASSUME d \notin disturbed', NEW a \in Told  PROVE Share(a, d)' = Share(a, d)
  <2>1. Part(a, row[d], entries[d], reversed[d]) = 0
    BY <1>0, <1>2, NoPart DEF Light
  <2>2. Part(a, row'[d], entries'[d], reversed'[d]) = 0
    BY <1>0, <1>2, NoPart DEF Light
  <2>. QED  BY <2>1, <2>2, ShareIs
<1>3. Owes(d)' = 0
  BY <1>0, OwesIs DEF Light, Registered, Standing
<1>4. Owes(d)' = Owes(d) \/ (d \in disturbed' /\ row[d].kind = "asset")
  <2>1. Light(row[d]) => Owes(d) = 0
    BY <1>0, OwesIs DEF Light, Registered, Standing
  <2>. QED  BY <1>3, <2>1
<1>5. Rooted(d) => Rooted(d)'
  BY <1>0 DEF Rooted, Light, Standing, Stands, Upright
<1>. QED  BY <1>1, <1>2, <1>4, <1>5, StillSquare

(* What is inserted, and what a session creates on its way.                *)
LEMMA FreshStill ==
  ASSUME TypeIInv, Facts, NEW d \in Docs, NEW cols, Changes(d, cols), row[d].status = "none",
         row[d].kind \notin {"shift"}, row'[d].status \in {"draft", "planned"},
         UNCHANGED <<entries, booked, reversed, money, goods, disturbed>>
  PROVE  Square(d)
<1>1. SameElse(d) /\ Unbooks
  BY PapersRest DEF Unbooks, money, goods, Stocked
<1>2. Light(row[d]) /\ Light(row'[d])
  BY DEF Light, Standing
<1>. QED  BY <1>1, <1>2, LightStill

LEMMA CreatesSquare ==
  ASSUME TypeIInv, Facts, NEW d \in Docs, NEW kinds, NEW new, Columned(new), Creates(d, kinds, new),
         "status" \in DOMAIN new, kinds \subseteq Mute \/ new.status \in {"draft", "planned"}, "shift" \notin kinds
  PROVE  Square(d)
<1>1. /\ row[d].status = "none" /\ row[d].kind \in kinds /\ Updates(d, new)
      /\ UNCHANGED <<entries, booked, reversed, money, goods, disturbed>>
  BY DEF Creates, Updates, work
<1>2. Changes(d, Columns) /\ row'[d].status = new.status
  BY <1>1, UpdatesDoes DEF TypeIInv, PapersOK
<1>3. CASE new.status \in {"draft", "planned"}
  BY <1>1, <1>2, <1>3, FreshStill
<1>4. CASE kinds \subseteq Mute
  <2>1. SameElse(d) /\ Unbooks
    BY <1>1, PapersRest DEF Unbooks, money, goods, Stocked
  <2>. QED  BY <1>1, <1>2, <1>4, <2>1, MuteStill
<1>. QED  BY <1>3, <1>4


-----------------------------------------------------------------------------
(* Invoices, bills and their returns.                                      *)

(* The legs of an entry, account by account.                               *)
LedgerTwo(a1, n1, a2, n2) ==
  \A a \in Accounts : gl'[a] = gl[a] + (IF a = a1 THEN n1 ELSE IF a = a2 THEN n2 ELSE 0)

LEMMA PostSquare ==
  ASSUME TypeIInv, NEW d \in Docs, NEW cols, Changes(d, cols), SameElse(d), disturbed \subseteq disturbed',
         reversed[d] <= reversed'[d], BooksMove(d), StockMoves(d), DebtMoves(d), CreditMoves(d),
         row[d].kind \in Firm /\ d \notin disturbed' =>
           row'[d].status \in Stands \/ (row[d].kind \in Slips /\ row'[d].status = "reversed")
  PROVE  Square(d)
<1>1. Aside(d) /\ row'[d].kind = row[d].kind
  BY AsideIs DEF Changes, Like
<1>. QED  BY <1>1 DEF Square, Rooted, Upright

(* Stock, for a document whose lines are what was read.                    *)
LEMMA LinesAre ==
  ASSUME NEW d \in Docs, row[d].status \notin {"none", "gone"}
  PROVE  Lines(d) = row[d].qty
BY DEF Lines, Exists

LEMMA CommitInvoiceSquare ==
  ASSUME TypeIInv, Facts, NEW u \in Users, CommitInvoice(u)
  PROVE  \E d \in Docs : Square(d)
<1>. PICK d : d = hand[u].doc
  OBVIOUS
<1>. PICK h : h = hand[u]
  OBVIOUS
<1>. PICK q : q = h.seen.qty
  OBVIOUS
<1>1. At(u, "post", Invoices)
  BY DEF CommitInvoice
<1>2. /\ d \in Docs /\ PlanOK(h) /\ h.op = "post" /\ h.doc = d /\ row[d].kind = h.seen.kind /\ h.seen.kind \in Invoices
      /\ h.seen \in Row /\ row[d] \in Row
  BY <1>1, PlanIs
<1>3. q \in Int /\ h.seen.paid \in Int
  BY <1>2, RowColumns
<1>4. /\ h.seen.status = "draft"
      /\ d \in disturbed \/ h.seen.paid = 0
  BY <1>2 DEF PlanOK, Drafted, Deals, Invoices
<1>5. hand' = [hand EXCEPT ![u] = Idle] /\ disturbed \subseteq disturbed' /\ (row[d] # h.seen => d \in disturbed')
  BY EndsQuietly DEF CommitInvoice
<1>6. /\ Changes(d, StatusPaid)
      /\ hand[u].seen.kind # "cashSale" \/ ~Exists(d) =>
              /\ row'[d].status = IF row[d].status = "draft" THEN "posted" ELSE row[d].status
              /\ row'[d].paid = row[d].paid
      /\ hand[u].seen.kind = "cashSale" /\ Exists(d) => row'[d].status = "paid" /\ row'[d].paid = row[d].qty
  BY CommitInvoiceDoes
<1>. PICK legs : legs = IF h.seen.kind = "cashSale" THEN [cash |-> q, inventory |-> -q] ELSE [debtors |-> q, inventory |-> -q]
  OBVIOUS
<1>7. Journal(d, legs)
  BY DEF CommitInvoice
<1>8. SameElse(d) /\ reversed' = reversed /\ Ledger(legs)
  BY <1>2, <1>7, JournalSame DEF TypeIInv, Journal
<1>9. LedgerTwo(IF h.seen.kind = "cashSale" THEN "cash" ELSE "debtors", q, "inventory", -q)
  <2>1. CASE h.seen.kind = "cashSale"
    <3>1. Ledger([cash |-> q, inventory |-> -q])
      BY <1>8, <2>1
    <3>. QED  BY <1>3, <2>1, <3>1 DEF Ledger, LedgerTwo
  <2>2. CASE h.seen.kind # "cashSale"
    <3>1. Ledger([debtors |-> q, inventory |-> -q])
      BY <1>8, <2>2
    <3>. QED  BY <1>3, <2>2, <3>1 DEF Ledger, LedgerTwo
  <2>. QED  BY <2>1, <2>2
<1>10. ASSUME d \notin disturbed'
       PROVE  row[d].status = "draft" /\ row[d].qty = q /\ row'[d].status \in Billed /\ row'[d].qty = q
              /\ row'[d] \in Row /\ row'[d].kind = row[d].kind
  BY <1>4, <1>5, <1>6, <1>10 DEF Billed, Changes, Like, StatusPaid, Exists
<1>11. BooksMove(d)
  <2>. SUFFICES ASSUME d \notin disturbed', NEW a \in Told  PROVE gl'[a] = gl[a] + Share(a, d)' - Share(a, d)
    BY DEF BooksMove, ToldMoves
  <2>1. entries[d] \in Int /\ reversed[d] \in Int /\ a \in Accounts /\ gl[a] \in Int /\ a # "inventory"
    BY <1>2 DEF TypeIInv, PapersOK, MoneyOK, Told
  <2>2. entries'[d] \in Int /\ reversed'[d] \in Int
    BY <1>2, <1>7, <1>8, <2>1, JournalSame DEF TypeIInv
  <2>3. CASE row[d].kind = "sale"
    <3>1. /\ Part(a, row[d], entries[d], reversed[d]) = 0
          /\ Part(a, row'[d], entries'[d], reversed'[d]) = IF a = "debtors" THEN q ELSE 0
      BY <1>2, <1>10, <2>1, <2>2, <2>3, SalePart DEF On, Billed
    <3>. QED  BY <1>2, <1>3, <1>9, <2>1, <2>3, <3>1, ShareIs DEF LedgerTwo
  <2>4. CASE row[d].kind = "cashSale"
    <3>1. /\ Part(a, row[d], entries[d], reversed[d]) = 0
          /\ Part(a, row'[d], entries'[d], reversed'[d]) = IF a = "cash" THEN q ELSE 0
      BY <1>2, <1>10, <2>1, <2>2, <2>4, SalePart DEF On, Billed
    <3>. QED  BY <1>2, <1>3, <1>9, <2>1, <2>4, <3>1, ShareIs DEF LedgerTwo
  <2>. QED  BY <1>2, <2>3, <2>4 DEF Invoices
<1>12. StockMoves(d)
  <2>. SUFFICES ASSUME d \notin disturbed'  PROVE gl'["inventory"] = gl["inventory"] + Stocked' - Stocked
    BY DEF StockMoves
  <2>1. Lines(d) = q
    BY <1>2, <1>10, LinesAre
  <2>2. PICK w \in Sources("raw", Lines(d)) : Moves("raw", w, -Lines(d))
    BY DEF CommitInvoice
  <2>3. Stocked' = Stocked - q
    BY <1>3, <2>1, <2>2, MovesStocked, SourcesType, StockedIs DEF TypeIInv
  <2>4. Stocked \in Int /\ gl["inventory"] \in Int /\ "inventory" \in Accounts
    BY StockedIs DEF TypeIInv, MoneyOK, Accounts
  <2>5. gl'["inventory"] = gl["inventory"] - q
    BY <1>3, <1>9, <2>4 DEF LedgerTwo
  <2>. QED  BY <1>3, <2>3, <2>4, <2>5
<1>13. DebtMoves(d)
  <2>1. CASE d \in disturbed'
    BY <1>2, <2>1 DEF DebtMoves
  <2>2. CASE d \notin disturbed'
    <3>0. Outstanding(h.seen) = q /\ owed \in Int
      BY <1>3, <1>4, <1>5, <2>2 DEF Outstanding, TypeIInv, MoneyOK
    <3>1. owed' = owed + (IF h.seen.kind = "cashSale" THEN 0 ELSE q)
      <4>1. owed' = IF h.seen.kind = "cashSale" THEN owed ELSE owed + Outstanding(h.seen)
        BY DEF CommitInvoice
      <4>. QED  BY <1>3, <3>0, <4>1
    <3>2. "debtors" \in Accounts /\ gl["debtors"] \in Int /\ owed \in Int
      BY DEF Accounts, TypeIInv, MoneyOK
    <3>3. gl'["debtors"] = gl["debtors"] + (IF h.seen.kind = "cashSale" THEN 0 ELSE q)
      BY <1>9, <3>2 DEF LedgerTwo
    <3>. QED  BY <1>3, <3>1, <3>2, <3>3 DEF DebtMoves
  <2>. QED  BY <2>1, <2>2
<1>14. CreditMoves(d)
  <2>1. "creditors" \in Accounts /\ gl["creditors"] \in Int /\ due' = due /\ due \in Int
    BY DEF Accounts, TypeIInv, MoneyOK, CommitInvoice
  <2>2. gl'["creditors"] = gl["creditors"]
    BY <1>3, <1>9, <2>1 DEF LedgerTwo
  <2>3. Owes(d) = 0 /\ Owes(d)' = 0
    BY <1>2, <1>6, OwesIs DEF Invoices, Changes, Like
  <2>. QED  BY <2>1, <2>2, <2>3 DEF CreditMoves
<1>15. row[d].kind \in Firm /\ d \notin disturbed' => row'[d].status \in Stands
  BY <1>10 DEF Billed, Stands
<1>16. reversed[d] <= reversed'[d]
  BY <1>2, <1>8 DEF TypeIInv, PapersOK
<1>17. Square(d)
  BY <1>2, <1>5, <1>6, <1>8, <1>11, <1>12, <1>13, <1>14, <1>15, <1>16, PostSquare
<1>. QED  BY <1>2, <1>17


LEMMA CommitBillSquare ==
  ASSUME TypeIInv, Facts, NEW u \in Users, CommitBill(u)
  PROVE  \E d \in Docs : Square(d)
<1>. PICK d : d = hand[u].doc
  OBVIOUS
<1>. PICK h : h = hand[u]
  OBVIOUS
<1>. PICK q : q = h.seen.qty
  OBVIOUS
<1>1. At(u, "post", Bills)
  BY DEF CommitBill
<1>2. /\ d \in Docs /\ PlanOK(h) /\ h.op = "post" /\ h.doc = d /\ row[d].kind = h.seen.kind /\ h.seen.kind \in Bills
      /\ h.seen \in Row /\ row[d] \in Row
  BY <1>1, PlanIs
<1>3. q \in Int /\ h.seen.paid \in Int
  BY <1>2, RowColumns
<1>4. /\ h.seen.status = "draft"
      /\ d \in disturbed \/ h.seen.paid = 0
  BY <1>2 DEF PlanOK, Drafted, Deals, Bills
<1>5. hand' = [hand EXCEPT ![u] = Idle] /\ disturbed \subseteq disturbed' /\ (row[d] # h.seen => d \in disturbed')
  BY EndsQuietly DEF CommitBill
<1>6. /\ Changes(d, StatusPaid)
      /\ hand[u].seen.kind # "cashPurchase" \/ ~Exists(d) =>
              /\ row'[d].status = IF row[d].status = "draft" THEN "posted" ELSE row[d].status
              /\ row'[d].paid = row[d].paid
      /\ hand[u].seen.kind = "cashPurchase" /\ Exists(d) => row'[d].status = "paid" /\ row'[d].paid = row[d].qty
  BY CommitBillDoes
<1>. PICK legs : legs = IF h.seen.kind = "cashPurchase" THEN [cash |-> -q, inventory |-> q] ELSE [creditors |-> q, inventory |-> q]
  OBVIOUS
<1>7. Journal(d, legs)
  BY DEF CommitBill
<1>8. SameElse(d) /\ reversed' = reversed /\ Ledger(legs)
  BY <1>2, <1>7, JournalSame DEF TypeIInv, Journal
<1>9. LedgerTwo(IF h.seen.kind = "cashPurchase" THEN "cash" ELSE "creditors",
               IF h.seen.kind = "cashPurchase" THEN -q ELSE q, "inventory", q)
  <2>1. CASE h.seen.kind = "cashPurchase"
    <3>1. Ledger([cash |-> -q, inventory |-> q])
      BY <1>8, <2>1
    <3>. QED  BY <1>3, <2>1, <3>1 DEF Ledger, LedgerTwo
  <2>2. CASE h.seen.kind # "cashPurchase"
    <3>1. Ledger([creditors |-> q, inventory |-> q])
      BY <1>8, <2>2
    <3>. QED  BY <1>3, <2>2, <3>1 DEF Ledger, LedgerTwo
  <2>. QED  BY <2>1, <2>2
<1>10. ASSUME d \notin disturbed'
       PROVE  row[d].status = "draft" /\ row[d].qty = q /\ row'[d].status \in Entered /\ row'[d].qty = q
              /\ row'[d] \in Row /\ row'[d].kind = row[d].kind
  BY <1>4, <1>5, <1>6, <1>10 DEF Entered, Changes, Like, StatusPaid, Exists
<1>11. BooksMove(d)
  <2>. SUFFICES ASSUME d \notin disturbed', NEW a \in Told  PROVE gl'[a] = gl[a] + Share(a, d)' - Share(a, d)
    BY DEF BooksMove, ToldMoves
  <2>1. entries[d] \in Int /\ reversed[d] \in Int /\ a \in Accounts /\ gl[a] \in Int /\ a # "inventory"
    BY <1>2 DEF TypeIInv, PapersOK, MoneyOK, Told
  <2>2. entries'[d] \in Int /\ reversed'[d] \in Int
    BY <1>2, <1>7, <1>8, <2>1, JournalSame DEF TypeIInv
  <2>3. CASE row[d].kind = "purchase"
    <3>1. /\ Part(a, row[d], entries[d], reversed[d]) = 0
          /\ Part(a, row'[d], entries'[d], reversed'[d]) = IF a = "creditors" THEN q ELSE 0
      BY <1>2, <1>10, <2>1, <2>2, <2>3, PurchasePart DEF On, Entered
    <3>. QED  BY <1>2, <1>3, <1>9, <2>1, <2>3, <3>1, ShareIs DEF LedgerTwo
  <2>4. CASE row[d].kind = "cashPurchase"
    <3>1. /\ Part(a, row[d], entries[d], reversed[d]) = 0
          /\ Part(a, row'[d], entries'[d], reversed'[d]) = IF a = "cash" THEN -q ELSE 0
      BY <1>2, <1>10, <2>1, <2>2, <2>4, PurchasePart DEF On, Entered
    <3>. QED  BY <1>2, <1>3, <1>9, <2>1, <2>4, <3>1, ShareIs DEF LedgerTwo
  <2>. QED  BY <1>2, <2>3, <2>4 DEF Bills
<1>12. StockMoves(d)
  <2>. SUFFICES ASSUME d \notin disturbed'  PROVE gl'["inventory"] = gl["inventory"] + Stocked' - Stocked
    BY DEF StockMoves
  <2>1. Lines(d) = q
    BY <1>2, <1>10, LinesAre
  <2>2. Moves("raw", Main, Lines(d)) /\ Main \in Warehouses
    BY DEF CommitBill, Warehouses
  <2>3. Stocked' = Stocked + q
    BY <1>3, <2>1, <2>2, MovesStocked, StockedIs DEF TypeIInv
  <2>4. Stocked \in Int /\ gl["inventory"] \in Int /\ "inventory" \in Accounts
    BY StockedIs DEF TypeIInv, MoneyOK, Accounts
  <2>5. gl'["inventory"] = gl["inventory"] + q
    BY <1>3, <1>9, <2>4 DEF LedgerTwo
  <2>. QED  BY <1>3, <2>3, <2>4, <2>5
<1>13. DebtMoves(d)
  <2>1. "debtors" \in Accounts /\ gl["debtors"] \in Int /\ owed' = owed
    BY DEF Accounts, TypeIInv, MoneyOK, CommitBill
  <2>2. gl'["debtors"] = gl["debtors"]
    BY <1>3, <1>9, <2>1 DEF LedgerTwo
  <2>. QED  BY <2>1, <2>2 DEF DebtMoves
<1>14. CreditMoves(d)
  <2>1. CASE d \in disturbed'
    BY <1>2, <2>1 DEF CreditMoves
  <2>2. CASE d \notin disturbed'
    <3>0. Outstanding(h.seen) = q /\ due \in Int
      BY <1>3, <1>4, <1>5, <2>2 DEF Outstanding, TypeIInv, MoneyOK
    <3>1. due' = due + (IF h.seen.kind = "cashPurchase" THEN 0 ELSE q)
      <4>1. due' = IF h.seen.kind = "cashPurchase" THEN due ELSE due + Outstanding(h.seen)
        BY DEF CommitBill
      <4>. QED  BY <1>3, <3>0, <4>1
    <3>2. "creditors" \in Accounts /\ gl["creditors"] \in Int /\ due \in Int
      BY DEF Accounts, TypeIInv, MoneyOK
    <3>3. gl'["creditors"] = gl["creditors"] + (IF h.seen.kind = "cashPurchase" THEN 0 ELSE q)
      BY <1>9, <3>2 DEF LedgerTwo
    <3>4. Owes(d) = 0 /\ Owes(d)' = 0
      BY <1>2, <1>6, OwesIs DEF Bills, Changes, Like
    <3>. QED  BY <1>3, <3>1, <3>2, <3>3, <3>4 DEF CreditMoves
  <2>. QED  BY <2>1, <2>2
<1>15. row[d].kind \in Firm /\ d \notin disturbed' => row'[d].status \in Stands
  BY <1>10 DEF Entered, Stands
<1>16. reversed[d] <= reversed'[d]
  BY <1>2, <1>8 DEF TypeIInv, PapersOK
<1>17. Square(d)
  BY <1>2, <1>5, <1>6, <1>8, <1>11, <1>12, <1>13, <1>14, <1>15, <1>16, PostSquare
<1>. QED  BY <1>2, <1>17


LEMMA CommitReturnSquare ==
  ASSUME TypeIInv, Facts, NEW u \in Users, CommitReturn(u)
  PROVE  \E d \in Docs : Square(d)
<1>. PICK d : d = hand[u].doc
  OBVIOUS
<1>. PICK h : h = hand[u]
  OBVIOUS
<1>. PICK q : q = h.seen.qty
  OBVIOUS
<1>1. At(u, "post", {"saleReturn"})
  BY DEF CommitReturn
<1>2. /\ d \in Docs /\ PlanOK(h) /\ h.op = "post" /\ h.doc = d /\ row[d].kind = h.seen.kind /\ h.seen.kind = "saleReturn"
      /\ h.seen \in Row /\ row[d] \in Row
  BY <1>1, PlanIs
<1>3. q \in Int
  BY <1>2, RowColumns
<1>4. h.seen.status = "draft"
  BY <1>2 DEF PlanOK, Drafted
<1>5. hand' = [hand EXCEPT ![u] = Idle] /\ disturbed \subseteq disturbed' /\ (row[d] # h.seen => d \in disturbed')
  BY EndsQuietly DEF CommitReturn
<1>6. /\ Changes(d, JustStatus)
      /\ row'[d].status = IF row[d].status = "draft" THEN "posted" ELSE row[d].status
  BY CommitReturnDoes
<1>7. Journal(d, [debtors |-> -q, inventory |-> q])
  BY DEF CommitReturn
<1>8. SameElse(d) /\ reversed' = reversed
  BY <1>2, <1>7, JournalSame DEF TypeIInv
<1>9. LedgerTwo("debtors", -q, "inventory", q)
  BY <1>3, <1>7 DEF Journal, Ledger, LedgerTwo
<1>10. ASSUME d \notin disturbed'
       PROVE  row[d].status = "draft" /\ row[d].qty = q /\ row'[d].status = "posted" /\ row'[d].qty = q
              /\ row'[d] \in Row /\ row'[d].kind = row[d].kind
  BY <1>4, <1>5, <1>6, <1>10 DEF Changes, Like, JustStatus
<1>11. BooksMove(d)
  <2>. SUFFICES ASSUME d \notin disturbed', NEW a \in Told  PROVE gl'[a] = gl[a] + Share(a, d)' - Share(a, d)
    BY DEF BooksMove, ToldMoves
  <2>1. entries[d] \in Int /\ reversed[d] \in Int /\ a \in Accounts /\ gl[a] \in Int /\ a # "inventory"
    BY <1>2 DEF TypeIInv, PapersOK, MoneyOK, Told
  <2>2. entries'[d] \in Int /\ reversed'[d] \in Int
    BY <1>2, <1>7, <1>8, <2>1, JournalSame DEF TypeIInv
  <2>3. /\ Part(a, row[d], entries[d], reversed[d]) = 0
        /\ Part(a, row'[d], entries'[d], reversed'[d]) = IF a = "debtors" THEN -q ELSE 0
    BY <1>2, <1>10, <2>1, <2>2, SalePart DEF On, Posted
  <2>. QED  BY <1>2, <1>3, <1>9, <2>1, <2>3, ShareIs DEF LedgerTwo
<1>12. StockMoves(d)
  <2>. SUFFICES ASSUME d \notin disturbed'  PROVE gl'["inventory"] = gl["inventory"] + Stocked' - Stocked
    BY DEF StockMoves
  <2>1. Lines(d) = q
    BY <1>2, <1>10, LinesAre
  <2>2. PICK w \in Sources("raw", Lines(d)) : Moves("raw", w, Lines(d))
    BY DEF CommitReturn
  <2>3. Stocked' = Stocked + q
    BY <1>3, <2>1, <2>2, MovesStocked, SourcesType, StockedIs DEF TypeIInv
  <2>4. Stocked \in Int /\ gl["inventory"] \in Int /\ "inventory" \in Accounts
    BY StockedIs DEF TypeIInv, MoneyOK, Accounts
  <2>5. gl'["inventory"] = gl["inventory"] + q
    BY <1>3, <1>9, <2>4 DEF LedgerTwo
  <2>. QED  BY <1>3, <2>3, <2>4, <2>5
<1>13. DebtMoves(d)
  <2>1. owed' = owed - q /\ owed \in Int /\ "debtors" \in Accounts /\ gl["debtors"] \in Int
    BY DEF CommitReturn, Accounts, TypeIInv, MoneyOK
  <2>2. gl'["debtors"] = gl["debtors"] - q
    BY <1>3, <1>9, <2>1 DEF LedgerTwo
  <2>. QED  BY <1>3, <2>1, <2>2 DEF DebtMoves
<1>14. CreditMoves(d)
  <2>1. "creditors" \in Accounts /\ gl["creditors"] \in Int /\ due' = due /\ due \in Int
    BY DEF Accounts, TypeIInv, MoneyOK, CommitReturn
  <2>2. gl'["creditors"] = gl["creditors"]
    BY <1>3, <1>9, <2>1 DEF LedgerTwo
  <2>3. Owes(d) = 0 /\ Owes(d)' = 0
    BY <1>2, <1>6, OwesIs DEF Changes, Like
  <2>. QED  BY <2>1, <2>2, <2>3 DEF CreditMoves
<1>15. row[d].kind \in Firm /\ d \notin disturbed' => row'[d].status \in Stands
  BY <1>10 DEF Stands
<1>16. reversed[d] <= reversed'[d]
  BY <1>2, <1>8 DEF TypeIInv, PapersOK
<1>17. Square(d)
  BY <1>2, <1>5, <1>6, <1>8, <1>11, <1>12, <1>13, <1>14, <1>15, <1>16, PostSquare
<1>. QED  BY <1>2, <1>17

LEMMA CommitBillReturnSquare ==
  ASSUME TypeIInv, Facts, NEW u \in Users, CommitBillReturn(u)
  PROVE  \E d \in Docs : Square(d)
<1>. PICK d : d = hand[u].doc
  OBVIOUS
<1>. PICK h : h = hand[u]
  OBVIOUS
<1>. PICK q : q = h.seen.qty
  OBVIOUS
<1>1. At(u, "post", {"purchaseReturn"})
  BY DEF CommitBillReturn
<1>2. /\ d \in Docs /\ PlanOK(h) /\ h.op = "post" /\ h.doc = d /\ row[d].kind = h.seen.kind /\ h.seen.kind = "purchaseReturn"
      /\ h.seen \in Row /\ row[d] \in Row
  BY <1>1, PlanIs
<1>3. q \in Int
  BY <1>2, RowColumns
<1>4. h.seen.status = "draft"
  BY <1>2 DEF PlanOK, Drafted
<1>5. hand' = [hand EXCEPT ![u] = Idle] /\ disturbed \subseteq disturbed' /\ (row[d] # h.seen => d \in disturbed')
  BY EndsQuietly DEF CommitBillReturn
<1>6. /\ Changes(d, JustStatus)
      /\ row'[d].status = IF row[d].status = "draft" THEN "posted" ELSE row[d].status
  BY CommitBillReturnDoes
<1>7. Journal(d, [creditors |-> -q, inventory |-> -q])
  BY DEF CommitBillReturn
<1>8. SameElse(d) /\ reversed' = reversed
  BY <1>2, <1>7, JournalSame DEF TypeIInv
<1>9. LedgerTwo("creditors", -q, "inventory", -q)
  BY <1>3, <1>7 DEF Journal, Ledger, LedgerTwo
<1>10. ASSUME d \notin disturbed'
       PROVE  row[d].status = "draft" /\ row[d].qty = q /\ row'[d].status = "posted" /\ row'[d].qty = q
              /\ row'[d] \in Row /\ row'[d].kind = row[d].kind
  BY <1>4, <1>5, <1>6, <1>10 DEF Changes, Like, JustStatus
<1>11. BooksMove(d)
  <2>. SUFFICES ASSUME d \notin disturbed', NEW a \in Told  PROVE gl'[a] = gl[a] + Share(a, d)' - Share(a, d)
    BY DEF BooksMove, ToldMoves
  <2>1. entries[d] \in Int /\ reversed[d] \in Int /\ a \in Accounts /\ gl[a] \in Int /\ a # "inventory"
    BY <1>2 DEF TypeIInv, PapersOK, MoneyOK, Told
  <2>2. entries'[d] \in Int /\ reversed'[d] \in Int
    BY <1>2, <1>7, <1>8, <2>1, JournalSame DEF TypeIInv
  <2>3. /\ Part(a, row[d], entries[d], reversed[d]) = 0
        /\ Part(a, row'[d], entries'[d], reversed'[d]) = IF a = "creditors" THEN -q ELSE 0
    BY <1>2, <1>10, <2>1, <2>2, PurchasePart DEF On, Posted
  <2>. QED  BY <1>2, <1>3, <1>9, <2>1, <2>3, ShareIs DEF LedgerTwo
<1>12. StockMoves(d)
  <2>. SUFFICES ASSUME d \notin disturbed'  PROVE gl'["inventory"] = gl["inventory"] + Stocked' - Stocked
    BY DEF StockMoves
  <2>1. Lines(d) = q
    BY <1>2, <1>10, LinesAre
  <2>2. PICK w \in Richest("raw") : Moves("raw", w, -Lines(d))
    BY DEF CommitBillReturn
  <2>3. w \in Warehouses
    BY DEF Richest
  <2>4. Stocked' = Stocked - q
    BY <1>3, <2>1, <2>2, <2>3, MovesStocked, StockedIs DEF TypeIInv
  <2>5. Stocked \in Int /\ gl["inventory"] \in Int /\ "inventory" \in Accounts
    BY StockedIs DEF TypeIInv, MoneyOK, Accounts
  <2>6. gl'["inventory"] = gl["inventory"] - q
    BY <1>3, <1>9, <2>5 DEF LedgerTwo
  <2>. QED  BY <1>3, <2>4, <2>5, <2>6
<1>13. DebtMoves(d)
  <2>1. "debtors" \in Accounts /\ gl["debtors"] \in Int /\ owed' = owed
    BY DEF Accounts, TypeIInv, MoneyOK, CommitBillReturn
  <2>2. gl'["debtors"] = gl["debtors"]
    BY <1>3, <1>9, <2>1 DEF LedgerTwo
  <2>. QED  BY <2>1, <2>2 DEF DebtMoves
<1>14. CreditMoves(d)
  <2>1. due' = due - q /\ due \in Int /\ "creditors" \in Accounts /\ gl["creditors"] \in Int
    BY DEF CommitBillReturn, Accounts, TypeIInv, MoneyOK
  <2>2. gl'["creditors"] = gl["creditors"] - q
    BY <1>3, <1>9, <2>1 DEF LedgerTwo
  <2>3. Owes(d) = 0 /\ Owes(d)' = 0
    BY <1>2, <1>6, OwesIs DEF Changes, Like
  <2>. QED  BY <1>3, <2>1, <2>2, <2>3 DEF CreditMoves
<1>15. row[d].kind \in Firm /\ d \notin disturbed' => row'[d].status \in Stands
  BY <1>10 DEF Stands
<1>16. reversed[d] <= reversed'[d]
  BY <1>2, <1>8 DEF TypeIInv, PapersOK
<1>17. Square(d)
  BY <1>2, <1>5, <1>6, <1>8, <1>11, <1>12, <1>13, <1>14, <1>15, <1>16, PostSquare
<1>. QED  BY <1>2, <1>17

(* A draft is inserted, or the return that a reversal is going to post.    *)
LEMMA DraftsSquare ==
  ASSUME TypeIInv, Facts, NEW d \in Docs, NEW kinds, "shift" \notin kinds,
         NEW q \in 1..MaxQty, Creates(d, kinds, [status |-> "draft", qty |-> q])
  PROVE  Square(d)
<1>. PICK new : new = [status |-> "draft", qty |-> q]
  OBVIOUS
<1>1. Columned(new) /\ "status" \in DOMAIN new /\ new.status = "draft"
  BY DraftColumned
<1>. QED  BY <1>1, CreatesSquare

LEMMA ReturnsSquare ==
  ASSUME TypeIInv, Facts, NEW d \in Docs, row[d].kind \in {"saleReturn", "purchaseReturn"}, row[d].status = "none",
         NEW i \in {NoDoc} \cup Docs, NEW q \in 1..MaxQty, NEW kinds, "shift" \notin kinds,
         Creates(d, kinds, [status |-> "draft", qty |-> q, link |-> i])
  PROVE  Square(d)
<1>. PICK new : new = [status |-> "draft", qty |-> q, link |-> i]
  OBVIOUS
<1>1. DOMAIN new = {"status", "qty", "link"} /\ new.status = "draft" /\ new.link = i /\ new.qty = q
  OBVIOUS
<1>2. Columned(new)
  BY <1>1 DEF Columned, Columns, Status
<1>. QED  BY <1>1, <1>2, CreatesSquare

LEMMA ReversalSquare ==
  ASSUME TypeIInv, Facts, NEW u \in Users, CreateReversal(u) \/ CreateBillReversal(u)
  PROVE  \E d \in Docs : Square(d)
<1>. PICK d \in Docs : /\ row[d].kind \in {"saleReturn", "purchaseReturn"} /\ row[d].status = "none"
                       /\ Returns(u, d) /\ hand[u].op = "return"
  BY CreateReversalDoes, CreateBillReversalDoes
<1>1. Changes(d, StatusLinkQty) /\ row'[d].status = "draft"
  BY ReturnsDoes
<1>2. UNCHANGED <<entries, booked, reversed, money, goods, disturbed>>
  BY DEF Returns
<1>. QED  BY <1>1, <1>2, FreshStill

Squared == Quiet \/ \E d \in Docs : Square(d)

LEMMA SalesSquare ==
  ASSUME TypeIInv, Facts, SalesStep
  PROVE  Squared
<1>1. ASSUME NEW d \in Docs, CreateInvoice(d)  PROVE Square(d)
  BY <1>1, DraftsSquare DEF CreateInvoice, Invoices
<1>2. ASSUME NEW d \in Docs, CreateReturn(d)  PROVE Square(d)
  <2>1. PICK q \in 1..MaxQty, i \in {NoDoc} \cup {x \in Docs : row[x].kind \in Invoices} :
         Creates(d, {"saleReturn"}, [status |-> "draft", qty |-> q, link |-> i])
    BY <1>2 DEF CreateReturn
  <2>2. row[d].kind = "saleReturn" /\ row[d].status = "none" /\ i \in {NoDoc} \cup Docs
    BY <2>1 DEF Creates
  <2>. QED  BY <2>1, <2>2, ReturnsSquare
<1>3. ASSUME NEW u \in Users, CommitInvoice(u) \/ CommitReturn(u) \/ CreateReversal(u)  PROVE Squared
  BY <1>3, CommitInvoiceSquare, CommitReturnSquare, ReversalSquare DEF Squared
<1>. QED  BY <1>1, <1>2, <1>3, SalesReads DEF SalesStep, Squared

LEMMA PurchasesSquare ==
  ASSUME TypeIInv, Facts, PurchasesStep
  PROVE  Squared
<1>1. ASSUME NEW d \in Docs, CreateBill(d)  PROVE Square(d)
  BY <1>1, DraftsSquare DEF CreateBill, Bills
<1>2. ASSUME NEW d \in Docs, CreateBillReturn(d)  PROVE Square(d)
  <2>1. PICK q \in 1..MaxQty, i \in {NoDoc} \cup {x \in Docs : row[x].kind \in Bills} :
         Creates(d, {"purchaseReturn"}, [status |-> "draft", qty |-> q, link |-> i])
    BY <1>2 DEF CreateBillReturn
  <2>2. row[d].kind = "purchaseReturn" /\ row[d].status = "none" /\ i \in {NoDoc} \cup Docs
    BY <2>1 DEF Creates
  <2>. QED  BY <2>1, <2>2, ReturnsSquare
<1>3. ASSUME NEW u \in Users, CommitBill(u) \/ CommitBillReturn(u) \/ CreateBillReversal(u)  PROVE Squared
  BY <1>3, CommitBillSquare, CommitBillReturnSquare, ReversalSquare DEF Squared
<1>. QED  BY <1>1, <1>2, <1>3, PurchasesReads DEF PurchasesStep, Squared


-----------------------------------------------------------------------------
(* Vouchers: the row of the voucher, and the invoice it is applied to.     *)

LEMMA AppliedSpared ==
  ASSUME TypeIInv, NEW d \in Docs, NEW i \in Docs \ {d}, NEW n, Applies(d, i, n), SameElse(d), RowOK(i),
         row[i].kind \in Deals \cup {"ticket"},
         disturbed \subseteq disturbed', row[i].status = "draft" => i \in disturbed'
  PROVE  Spared(i)
<1>0. KindsStay /\ entries'[i] = entries[i] /\ reversed'[i] = reversed[i] /\ row'[i] \in Row /\ row[i] \in Row
      /\ entries[i] \in Int /\ reversed[i] \in Int
  BY DEF Applies, SameElse, TypeIInv, PapersOK
<1>1. CASE ~Exists(i)
  BY <1>0, <1>1, SparedIs DEF Applies
<1>2. CASE Exists(i)
  <2>1. /\ row'[i].kind = row[i].kind /\ row'[i].qty = row[i].qty /\ row'[i].mark = row[i].mark
        /\ row[i].status \in {"cancelled", "paid"} => row'[i].status = row[i].status
        /\ row[i].status \notin {"cancelled", "paid"} => row'[i].status \in {"paid", "partially_paid"}
    BY <1>2 DEF Applies, Like, StatusPaid
  <2>2. row[i].status \in {"draft", "cancelled", "posted", "partially_paid", "paid"}
    BY <1>2 DEF RowOK, DealRow, Exists
  <2>3. ASSUME i \notin disturbed', NEW a \in Told  PROVE Share(a, i)' = Share(a, i)
    <3>0. \A m : On(row'[i], Billed, m) = On(row[i], Billed, m) /\ On(row'[i], Entered, m) = On(row[i], Entered, m)
      BY <2>1, <2>2, <2>3 DEF On, Billed, Entered
    <3>1. CASE row[i].kind \in Invoices
      <4>1. Part(a, row'[i], entries'[i], reversed'[i]) = Part(a, row[i], entries[i], reversed[i])
        BY <1>0, <2>1, <3>0, <3>1, SalePart DEF Invoices
      <4>. QED  BY <4>1, ShareIs
    <3>2. CASE row[i].kind \in Bills
      <4>1. Part(a, row'[i], entries'[i], reversed'[i]) = Part(a, row[i], entries[i], reversed[i])
        BY <1>0, <2>1, <3>0, <3>2, PurchasePart DEF Bills
      <4>. QED  BY <4>1, ShareIs
    <3>3. CASE row[i].kind = "ticket"
      <4>1. Part(a, row'[i], entries'[i], reversed'[i]) = Part(a, row[i], entries[i], reversed[i])
        BY <1>0, <2>1, <3>0, <3>3, TicketPart
      <4>. QED  BY <4>1, ShareIs
    <3>. QED  BY <3>1, <3>2, <3>3 DEF Deals
  <2>4. Owes(i)' = Owes(i)
    BY <2>1, OwesIs DEF Deals, Invoices, Bills
  <2>5. Rooted(i) => Rooted(i)'
    BY <1>0, <2>1, <2>2 DEF Rooted, Stands, Upright
  <2>. QED  BY <2>3, <2>4, <2>5 DEF Spared
<1>. QED  BY <1>1, <1>2

LEMMA NoneIsUndone == ASSUME TypeIInv, reversed' = reversed  PROVE \A x \in Docs : reversed[x] <= reversed'[x]
BY DEF TypeIInv, PapersOK

Slipped(u, h, d, q, i, n) ==
  /\ Booking(u) /\ h = hand[u] /\ d \in Docs /\ d = h.doc /\ h.seen.kind \in Slips /\ row[d].kind = h.seen.kind
  /\ q \in Int /\ q = h.want.qty /\ i \in Docs \cup {NoDoc} /\ i = h.want.link /\ Applies(d, i, n) /\ d # i
  /\ i # NoDoc => row[i].kind \in Settles(h.seen.kind)
  /\ d \notin disturbed' => row[d].status \in {"none", "draft"} /\ row'[d].status = "posted" /\ row'[d].qty = q

LEMMA SlipSquare ==
  ASSUME TypeIInv, Facts, NEW u \in Users, NEW h, NEW d, NEW q, NEW i, NEW n, Slipped(u, h, d, q, i, n)
  PROVE  Square(d)
<1>. /\ Booking(u) /\ h = hand[u] /\ d \in Docs /\ d = h.doc /\ h.seen.kind \in Slips /\ row[d].kind = h.seen.kind
     /\ q \in Int /\ q = h.want.qty /\ i \in Docs \cup {NoDoc} /\ i = h.want.link /\ Applies(d, i, n) /\ d # i
     /\ i # NoDoc => row[i].kind \in Settles(h.seen.kind)
     /\ d \notin disturbed' => row[d].status \in {"none", "draft"} /\ row'[d].status = "posted" /\ row'[d].qty = q
  BY DEF Slipped
<1>. PICK k : k = h.seen.kind
  OBVIOUS
<1>0. IF k = "receipt" THEN owed' = owed - q /\ due' = due ELSE due' = due - q /\ owed' = owed
  BY DEF Booking, SettlesBalance
<1>1. /\ SameElse(d) /\ disturbed \subseteq disturbed'
      /\ \A x \in Docs : x = i /\ row[x].status = "draft" => x \in disturbed'
  BY BookingDoes
<1>2. row'[d] \in Row /\ row[d] \in Row /\ row'[d].kind = row[d].kind
  BY DEF Applies, KindsStay, TypeIInv, PapersOK
<1>. PICK legs : legs = IF k = "receipt" THEN [cash |-> q, debtors |-> -q] ELSE [cash |-> -q, creditors |-> -q]
  OBVIOUS
<1>3. Journal(d, legs) /\ Ledger(legs) /\ reversed' = reversed
  BY DEF Booking, Journal
<1>4. k = "receipt" => LedgerTwo("cash", q, "debtors", -q)
  <2>. SUFFICES ASSUME k = "receipt"  PROVE LedgerTwo("cash", q, "debtors", -q)
    OBVIOUS
  <2>1. Ledger([cash |-> q, debtors |-> -q])
    BY <1>3
  <2>. QED  BY <2>1 DEF Ledger, LedgerTwo
<1>5. k # "receipt" => LedgerTwo("cash", -q, "creditors", -q)
  <2>. SUFFICES ASSUME k # "receipt"  PROVE LedgerTwo("cash", -q, "creditors", -q)
    OBVIOUS
  <2>1. Ledger([cash |-> -q, creditors |-> -q])
    BY <1>3
  <2>. QED  BY <2>1 DEF Ledger, LedgerTwo
<1>6. Aside(d)
  <2>1. \A x \in Docs : reversed[x] <= reversed'[x]
    BY <1>3, NoneIsUndone
  <2>2. ASSUME NEW x \in Docs \ {d}  PROVE Spared(x)
    <3>1. CASE x = i
      <4>1. RowOK(i) /\ row[i].kind \in Deals \cup {"ticket"} /\ i \in Docs \ {d} /\ i # NoDoc
        BY <3>1, SettlesDeals, BooksAssumption DEF Facts, RowsOK, BooksAssumption
      <4>2. Spared(i)
        BY <1>1, <4>1, AppliedSpared
      <4>. QED  BY <3>1, <4>2
    <3>2. CASE x # i
      BY <1>1, <1>3, <3>2, SparedIs DEF Applies, SameElse
    <3>. QED  BY <3>1, <3>2
  <2>. QED  BY <1>1, <2>1, <2>2 DEF Aside, Applies
<1>. /\ "debtors" \in Accounts /\ "creditors" \in Accounts /\ "inventory" \in Accounts
     /\ gl["debtors"] \in Int /\ gl["creditors"] \in Int /\ gl["inventory"] \in Int /\ owed \in Int /\ due \in Int
  BY DEF Accounts, TypeIInv, MoneyOK
<1>7. BooksMove(d)
  <2>. SUFFICES ASSUME d \notin disturbed', NEW a \in Told  PROVE gl'[a] = gl[a] + Share(a, d)' - Share(a, d)
    BY DEF BooksMove, ToldMoves
  <2>1. entries[d] \in Int /\ reversed[d] \in Int /\ a \in Accounts /\ gl[a] \in Int
    BY DEF TypeIInv, PapersOK, MoneyOK, Told
  <2>2. entries'[d] \in Int /\ reversed'[d] \in Int
    BY <1>3, <2>1, JournalSame DEF TypeIInv
  <2>3. CASE k = "receipt"
    <3>1. /\ Part(a, row[d], entries[d], reversed[d]) = 0
          /\ Part(a, row'[d], entries'[d], reversed'[d]) = CASE a = "debtors" -> -q [] a = "cash" -> q [] OTHER -> 0
      BY <1>2, <2>1, <2>2, <2>3, TicketPart DEF On, Posted
    <3>. QED  BY <1>4, <2>1, <2>3, <3>1, ShareIs DEF LedgerTwo
  <2>4. CASE k = "payment"
    <3>1. /\ Part(a, row[d], entries[d], reversed[d]) = 0
          /\ Part(a, row'[d], entries'[d], reversed'[d]) = CASE a = "creditors" -> -q [] a = "cash" -> -q [] OTHER -> 0
      BY <1>2, <2>1, <2>2, <2>4, TicketPart DEF On, Posted
    <3>. QED  BY <1>5, <2>1, <2>4, <3>1, ShareIs DEF LedgerTwo
  <2>. QED  BY <2>3, <2>4 DEF Slips
<1>8. StockMoves(d)
  <2>1. gl'["inventory"] = gl["inventory"]
    BY <1>4, <1>5 DEF LedgerTwo
  <2>2. Stocked' = Stocked /\ Stocked \in Int
    BY StockedIs DEF Booking, goods, Stocked
  <2>. QED  BY <2>1, <2>2 DEF StockMoves
<1>9. DebtMoves(d)
  <2>1. CASE k = "receipt"
    <3>1. gl'["debtors"] = gl["debtors"] - q /\ owed' = owed - q
      BY <1>0, <1>4, <2>1 DEF LedgerTwo
    <3>. QED  BY <3>1 DEF DebtMoves
  <2>2. CASE k # "receipt"
    <3>1. gl'["debtors"] = gl["debtors"] /\ owed' = owed
      BY <1>0, <1>5, <2>2 DEF LedgerTwo
    <3>. QED  BY <3>1 DEF DebtMoves
  <2>. QED  BY <2>1, <2>2
<1>10. CreditMoves(d)
  <2>0. Owes(d) = 0 /\ Owes(d)' = 0
    BY <1>2, OwesIs DEF Slips
  <2>1. CASE k = "receipt"
    <3>1. gl'["creditors"] = gl["creditors"] /\ due' = due
      BY <1>0, <1>4, <2>1 DEF LedgerTwo
    <3>. QED  BY <2>0, <3>1 DEF CreditMoves
  <2>2. CASE k # "receipt"
    <3>1. gl'["creditors"] = gl["creditors"] - q /\ due' = due - q
      BY <1>0, <1>5, <2>2 DEF LedgerTwo
    <3>. QED  BY <2>0, <3>1 DEF CreditMoves
  <2>. QED  BY <2>1, <2>2
<1>11. Rooted(d)'
  BY DEF Rooted, Stands, Upright
<1>. QED  BY <1>6, <1>7, <1>8, <1>9, <1>10, <1>11 DEF Square

LEMMA CommitVoucherSquare ==
  ASSUME TypeIInv, Facts, NEW u \in Users, CommitVoucher(u)
  PROVE  \E d \in Docs : Square(d)
<1>. PICK d : d = hand[u].doc
  OBVIOUS
<1>. PICK h : h = hand[u]
  OBVIOUS
<1>. PICK i : i = h.want.link
  OBVIOUS
<1>. PICK n : n = h.want.applied
  OBVIOUS
<1>. PICK q : q = h.want.qty
  OBVIOUS
<1>1. At(u, "post", Slips) /\ Booking(u)
  BY DEF CommitVoucher
<1>2. /\ d \in Docs /\ row[d] \in Row /\ row[d].kind = h.seen.kind /\ h.seen.kind \in Slips
      /\ PlanOK(h) /\ Columned(h.want) /\ h.op = "post" /\ h.doc = d /\ h.seen \in Row
  BY <1>1, PlanIs
<1>3. /\ h.seen.status = "draft" /\ DOMAIN h.want = {"qty", "link", "applied"} /\ q = h.seen.qty
  BY <1>2 DEF PlanOK, Drafted, Slips
<1>4. i \in Docs \cup {NoDoc} /\ q \in Int /\ (i # NoDoc => row[i].kind \in Settles(h.seen.kind))
  BY <1>2, <1>3 DEF PlanOK, Named, Columned
<1>5. d # i
  BY <1>2, <1>4, SettlesDeals, BooksAssumption DEF BooksAssumption
<1>6. /\ Applies(d, i, n) /\ Like(row'[d], row[d], JustStatus)
      /\ row'[d].status = IF row[d].status = "draft" THEN "posted" ELSE row[d].status
  BY <1>5, CommitVoucherDoes
<1>7. row[d] # h.seen => d \in disturbed'
  BY <1>1, <1>2, BookingDoes
<1>8. d \notin disturbed' => row[d].status \in {"none", "draft"} /\ row'[d].status = "posted" /\ row'[d].qty = q
  BY <1>3, <1>6, <1>7 DEF Like, JustStatus
<1>9. Slipped(u, h, d, q, i, n)
  BY <1>1, <1>2, <1>4, <1>5, <1>6, <1>8 DEF Slipped
<1>10. Square(d)
  BY <1>9, SlipSquare
<1>. QED  BY <1>2, <1>10

LEMMA CommitCreatedSquare ==
  ASSUME TypeIInv, Facts, NEW u \in Users, CommitCreated(u)
  PROVE  \E d \in Docs : Square(d)
<1>. PICK d : d = hand[u].doc
  OBVIOUS
<1>. PICK h : h = hand[u]
  OBVIOUS
<1>. PICK i : i = h.want.link
  OBVIOUS
<1>. PICK n : n = h.want.applied
  OBVIOUS
<1>. PICK q : q = h.want.qty
  OBVIOUS
<1>1. At(u, "new", Slips) /\ Booking(u)
  BY DEF CommitCreated
<1>2. /\ d \in Docs /\ row[d] \in Row /\ row[d].kind = h.seen.kind /\ h.seen.kind \in Slips
      /\ PlanOK(h) /\ Columned(h.want) /\ h.op = "new" /\ h.doc = d
  BY <1>1, PlanIs
<1>3. /\ h.want.status = "posted" /\ DOMAIN h.want = {"status", "qty", "link", "applied"}
      /\ i \in Docs \cup {NoDoc} /\ q \in Int /\ (i # NoDoc => row[i].kind \in Settles(h.seen.kind))
  BY <1>2 DEF PlanOK, Renewed, Named, Columned
<1>4. d # i
  BY <1>2, <1>3, SettlesDeals, BooksAssumption DEF BooksAssumption
<1>5. /\ Applies(d, i, n) /\ row[d].status = "none" /\ row'[d] = Updated(row[d], h.want)
  BY <1>4, CommitCreatedDoes
<1>6. row'[d].qty = q /\ row'[d].status = "posted"
  BY <1>2, <1>3, <1>5, UpdatedRow
<1>7. Slipped(u, h, d, q, i, n)
  BY <1>1, <1>2, <1>3, <1>4, <1>5, <1>6 DEF Slipped
<1>8. Square(d)
  BY <1>7, SlipSquare
<1>. QED  BY <1>2, <1>8

LEMMA CommitReverseSquare ==
  ASSUME TypeIInv, Facts, NEW u \in Users, CommitReverse(u)
  PROVE  \E d \in Docs : Square(d)
<1>. PICK d : d = hand[u].doc
  OBVIOUS
<1>. PICK h : h = hand[u]
  OBVIOUS
<1>. PICK k : k = h.seen.kind
  OBVIOUS
<1>. PICK q : q = h.seen.qty
  OBVIOUS
<1>. PICK c : c = h.want.mark
  OBVIOUS
<1>1. At(u, "reverse", Slips)
  BY DEF CommitReverse
<1>2. /\ d \in Docs /\ row[d] \in Row /\ row[d].kind = k /\ k \in Slips /\ h.op = "reverse" /\ h.doc = d
      /\ h.seen \in Row /\ PlanOK(h) /\ Columned(h.want) /\ Equipped("reverse", k, h.want)
  BY <1>1, PlanIs
<1>3. q \in Int /\ c \in Int
  BY <1>2, RowColumns DEF Columned, Equipped
<1>4. /\ h.seen.status = "posted"
      /\ d \in disturbed \/ c = Amount(h.seen)
  BY <1>2 DEF PlanOK, Undone
<1>5. disturbed \subseteq disturbed' /\ (row[d] # h.seen => d \in disturbed')
  BY EndsQuietly DEF CommitReverse
<1>6. /\ Changes(d, JustStatus)
      /\ row'[d].status = IF row[d].status = "posted" THEN "reversed" ELSE row[d].status
  BY CommitReverseDoes
<1>7. entries' = entries /\ booked' = booked /\ reversed' = [reversed EXCEPT ![d] = @ + 1]
  BY DEF CommitReverse
<1>8. SameElse(d) /\ reversed'[d] = reversed[d] + 1 /\ reversed[d] \in Nat
  BY <1>2, <1>7 DEF SameElse, TypeIInv, PapersOK
<1>9. k = "receipt" => LedgerTwo("cash", -c, "debtors", c)
  <2>. SUFFICES ASSUME k = "receipt"  PROVE LedgerTwo("cash", -c, "debtors", c)
    OBVIOUS
  <2>1. Ledger([cash |-> -c, debtors |-> c])
    BY DEF CommitReverse
  <2>. QED  BY <2>1 DEF Ledger, LedgerTwo
<1>10. k # "receipt" => LedgerTwo("cash", -c, "creditors", -c)
  <2>. SUFFICES ASSUME k # "receipt"  PROVE LedgerTwo("cash", -c, "creditors", -c)
    OBVIOUS
  <2>1. Ledger([cash |-> -c, creditors |-> -c])
    BY DEF CommitReverse
  <2>. QED  BY <2>1 DEF Ledger, LedgerTwo
<1>11. ASSUME d \notin disturbed'
       PROVE  row[d].status = "posted" /\ row[d].qty = q /\ row'[d].status = "reversed" /\ row'[d] \in Row
              /\ row'[d].kind = row[d].kind /\ c = IF k = "receipt" THEN q ELSE -q
  BY <1>4, <1>5, <1>6, <1>11 DEF Changes, Like, JustStatus, Amount
<1>. /\ "debtors" \in Accounts /\ "creditors" \in Accounts /\ "inventory" \in Accounts
     /\ gl["debtors"] \in Int /\ gl["creditors"] \in Int /\ gl["inventory"] \in Int /\ owed \in Int /\ due \in Int
  BY DEF Accounts, TypeIInv, MoneyOK
<1>12. BooksMove(d)
  <2>. SUFFICES ASSUME d \notin disturbed', NEW a \in Told  PROVE gl'[a] = gl[a] + Share(a, d)' - Share(a, d)
    BY DEF BooksMove, ToldMoves
  <2>1. entries[d] \in Int /\ reversed[d] \in Int /\ a \in Accounts /\ gl[a] \in Int
    BY <1>2 DEF TypeIInv, PapersOK, MoneyOK, Told
  <2>2. entries'[d] \in Int /\ reversed'[d] \in Int
    BY <1>7, <1>8, <2>1
  <2>3. CASE k = "receipt"
    <3>1. /\ Part(a, row[d], entries[d], reversed[d]) = CASE a = "debtors" -> -q [] a = "cash" -> q [] OTHER -> 0
          /\ Part(a, row'[d], entries'[d], reversed'[d]) = 0
      BY <1>2, <1>11, <2>1, <2>2, <2>3, TicketPart DEF On, Posted
    <3>2. c = q
      BY <1>11, <2>3
    <3>3. gl'[a] = gl[a] + (IF a = "cash" THEN -q ELSE IF a = "debtors" THEN q ELSE 0)
      BY <1>9, <2>1, <2>3, <3>2 DEF LedgerTwo
    <3>4. Share(a, d) = (CASE a = "debtors" -> -q [] a = "cash" -> q [] OTHER -> 0) /\ Share(a, d)' = 0
      BY <1>2, <3>1, ShareIs
    <3>. QED  BY <1>3, <2>1, <3>3, <3>4
  <2>4. CASE k = "payment"
    <3>1. /\ Part(a, row[d], entries[d], reversed[d]) = CASE a = "creditors" -> -q [] a = "cash" -> -q [] OTHER -> 0
          /\ Part(a, row'[d], entries'[d], reversed'[d]) = 0
      BY <1>2, <1>11, <2>1, <2>2, <2>4, TicketPart DEF On, Posted
    <3>2. c = -q
      BY <1>11, <2>4
    <3>3. gl'[a] = gl[a] + (IF a = "cash" THEN q ELSE IF a = "creditors" THEN q ELSE 0)
      BY <1>3, <1>10, <2>1, <2>4, <3>2 DEF LedgerTwo
    <3>4. Share(a, d) = (CASE a = "creditors" -> -q [] a = "cash" -> -q [] OTHER -> 0) /\ Share(a, d)' = 0
      BY <1>2, <3>1, ShareIs
    <3>. QED  BY <1>3, <2>1, <3>3, <3>4
  <2>. QED  BY <1>2, <2>3, <2>4 DEF Slips
<1>13. StockMoves(d)
  <2>1. gl'["inventory"] = gl["inventory"]
    BY <1>9, <1>10 DEF LedgerTwo
  <2>2. Stocked' = Stocked /\ Stocked \in Int
    BY StockedIs DEF CommitReverse, goods, Stocked
  <2>. QED  BY <2>1, <2>2 DEF StockMoves
<1>14. DebtMoves(d)
  <2>0. CASE d \in disturbed' /\ k = "receipt"
    BY <1>2, <2>0 DEF DebtMoves
  <2>1. CASE d \notin disturbed' /\ k = "receipt"
    <3>1. gl'["debtors"] = gl["debtors"] + q /\ owed' = owed + q
      BY <1>3, <1>9, <1>11, <2>1 DEF LedgerTwo, CommitReverse, RestoresBalance
    <3>. QED  BY <1>3, <3>1 DEF DebtMoves
  <2>2. CASE k # "receipt"
    <3>1. gl'["debtors"] = gl["debtors"] /\ owed' = owed
      BY <1>10, <2>2 DEF LedgerTwo, CommitReverse, RestoresBalance
    <3>. QED  BY <3>1 DEF DebtMoves
  <2>. QED  BY <2>0, <2>1, <2>2
<1>15. CreditMoves(d)
  <2>1. CASE k = "receipt"
    <3>1. gl'["creditors"] = gl["creditors"] /\ due' = due
      BY <1>9, <2>1 DEF LedgerTwo, CommitReverse, RestoresBalance
    <3>2. Owes(d) = 0 /\ Owes(d)' = 0
      BY <1>2, <1>6, <2>1, OwesIs DEF Changes, Like
    <3>. QED  BY <3>1, <3>2 DEF CreditMoves
  <2>2. CASE k # "receipt"
    BY <1>2, <1>8, <2>2 DEF CreditMoves, Slips
  <2>. QED  BY <2>1, <2>2
<1>16. d \notin disturbed' => row[d].kind \in Slips /\ row'[d].status = "reversed"
  BY <1>2, <1>11
<1>17. reversed[d] <= reversed'[d]
  BY <1>8
<1>18. Square(d)
  BY <1>2, <1>5, <1>6, <1>8, <1>12, <1>13, <1>14, <1>15, <1>16, <1>17, PostSquare
<1>. QED  BY <1>2, <1>18

LEMMA VouchersSquare ==
  ASSUME TypeIInv, Facts, VouchersStep
  PROVE  Squared
<1>1. ASSUME NEW d \in Docs, CreateVoucher(d)  PROVE Square(d)
  <2>1. PICK t \in Terms(row[d].kind) : Creates(d, Slips, Voucher(t, "draft"))
    BY <1>1 DEF CreateVoucher
  <2>. PICK new : new = Voucher(t, "draft")
    OBVIOUS
  <2>2. Columned(new) /\ "status" \in DOMAIN new /\ new.status = "draft"
    <3>1. "draft" \in Status
      BY DEF Status
    <3>2. new.status = "draft"
      BY DEF Voucher
    <3>. QED  BY <3>1, <3>2, TermsType
  <2>3. "shift" \notin Slips /\ Creates(d, Slips, new)
    BY <2>1 DEF Slips
  <2>. QED  BY <2>2, <2>3, CreatesSquare
<1>2. ASSUME NEW u \in Users, CommitVoucher(u) \/ CommitCreated(u) \/ CommitReverse(u)  PROVE Squared
  BY <1>2, CommitVoucherSquare, CommitCreatedSquare, CommitReverseSquare DEF Squared
<1>. QED  BY <1>1, <1>2, VouchersReads DEF VouchersStep, Squared


-----------------------------------------------------------------------------
(* Transfers and counts. *)

LEMMA TransferSquare ==
  ASSUME TypeIInv, Facts, NEW u \in Users, CommitTransfer(u)
  PROVE  \E d \in Docs : Square(d)
<1>. PICK d : d = hand[u].doc
  OBVIOUS
<1>1. At(u, "post", {"transfer"}) /\ Ends(u) /\ UNCHANGED <<entries, booked, reversed, money>>
  BY DEF CommitTransfer
<1>2. d \in Docs /\ row[d].kind = "transfer"
  BY <1>1, PlanIs
<1>3. SameElse(d) /\ disturbed \subseteq disturbed'
  BY <1>1, PapersRest, EndsQuietly
<1>4. Changes(d, JustStatus)
  BY CommitTransferDoes
<1>. PICK n : n = Lines(d)
  OBVIOUS
<1>5. n \in Int
  BY <1>2, LinesType DEF TypeIInv, PapersOK
<1>6. Stocked' = Stocked
  <2>. PICK f : f = stock["raw"]
    OBVIOUS
  <2>1. f \in [Warehouses -> Int] /\ "raw" \in DOMAIN stock
    BY DEF TypeIInv, GoodsOK, Products
  <2>2. stock' = [stock EXCEPT !["raw"][Main] = @ - n, !["raw"][Branch] = @ + n]
    BY DEF CommitTransfer
  <2>3. stock'["raw"] = [f EXCEPT ![Main] = @ - n, ![Branch] = @ + n]
    BY <2>1, <2>2
  <2>4. Main \in Warehouses /\ Branch \in Warehouses /\ Main # Branch
    BY BooksAssumption DEF Warehouses, BooksAssumption
  <2>5. stock'["raw"][Main] = f[Main] - n /\ stock'["raw"][Branch] = f[Branch] + n
    BY <2>1, <2>3, <2>4
  <2>6. f[Main] \in Int /\ f[Branch] \in Int
    BY <2>1, <2>4
  <2>. QED  BY <1>5, <2>5, <2>6 DEF Stocked
<1>7. Unbooks /\ reversed'[d] = reversed[d] /\ row[d].kind \in Mute
  BY <1>1, <1>2, <1>6 DEF Unbooks, money, Mute
<1>. QED  BY <1>2, <1>3, <1>4, <1>7, MuteStill

LEMMA AdjustmentSquare ==
  ASSUME TypeIInv, Facts, NEW u \in Users, CommitAdjustment(u)
  PROVE  \E d \in Docs : Square(d)
<1>. PICK d : d = hand[u].doc
  OBVIOUS
<1>. PICK h : h = hand[u]
  OBVIOUS
<1>. PICK difference : difference = h.seen.actual - h.seen.mark
  OBVIOUS
<1>. PICK odd : odd = {x \in {d} : stock["raw"][Main] # h.seen.mark}
  OBVIOUS
<1>1. At(u, "post", {"adjustment"}) /\ EndsWith(u, odd)
  BY DEF CommitAdjustment
<1>2. d \in Docs /\ row[d] \in Row /\ row[d].kind = "adjustment" /\ h.seen \in Row
  BY <1>1, PlanIs
<1>3. disturbed \subseteq disturbed' /\ (stock["raw"][Main] # h.seen.mark => d \in disturbed')
  BY <1>1, EndsMarks
<1>4. Changes(d, JustStatus) /\ row'[d].kind = row[d].kind /\ row'[d] \in Row
  BY CommitAdjustmentDoes DEF Changes, Like
<1>5. difference \in Int /\ h.seen.actual \in Int /\ h.seen.mark \in Int
  BY <1>2, RowColumns
<1>6. /\ SameElse(d) /\ reversed' = reversed
      /\ \A a \in Accounts : gl'[a] = gl[a] + IF a = "inventory" THEN difference ELSE 0
  <2>1. CASE difference = 0
    <3>1. UNCHANGED <<gl, entries, booked, reversed>>
      BY <2>1 DEF CommitAdjustment
    <3>2. \A a \in Accounts : gl[a] \in Int
      BY DEF TypeIInv, MoneyOK
    <3>. QED  BY <2>1, <3>1, <3>2, PapersRest
  <2>2. CASE difference # 0
    <3>. PICK legs : legs = [inventory |-> difference]
      OBVIOUS
    <3>1. Journal(d, legs)
      BY <2>2 DEF CommitAdjustment
    <3>2. SameElse(d) /\ reversed' = reversed
      BY <1>2, <3>1, JournalSame DEF TypeIInv
    <3>3. Ledger([inventory |-> difference])
      BY <3>1 DEF Journal
    <3>. QED  BY <3>2, <3>3 DEF Ledger
  <2>. QED  BY <2>1, <2>2
<1>7. Aside(d)
  BY <1>2, <1>3, <1>4, <1>6, AsideIs DEF TypeIInv, PapersOK
<1>. /\ "debtors" \in Accounts /\ "creditors" \in Accounts /\ "inventory" \in Accounts
     /\ gl["debtors"] \in Int /\ gl["creditors"] \in Int /\ gl["inventory"] \in Int /\ owed \in Int /\ due \in Int
  BY DEF Accounts, TypeIInv, MoneyOK
<1>8. BooksMove(d)
  <2>. SUFFICES ASSUME NEW a \in Told  PROVE gl'[a] = gl[a] + Share(a, d)' - Share(a, d)
    BY DEF BooksMove, ToldMoves
  <2>1. Share(a, d) = 0 /\ Share(a, d)' = 0
    BY <1>2, <1>4, ShareIs, ToldIs DEF Part, Held, ToldList
  <2>2. gl'[a] = gl[a] /\ gl[a] \in Int
    <3>1. a \in Accounts /\ a # "inventory" /\ gl[a] \in Int
      BY DEF Told, TypeIInv, MoneyOK
    <3>. QED  BY <1>6, <3>1
  <2>. QED  BY <2>1, <2>2
<1>9. StockMoves(d)
  <2>. SUFFICES ASSUME d \notin disturbed'  PROVE gl'["inventory"] = gl["inventory"] + Stocked' - Stocked
    BY DEF StockMoves
  <2>. PICK f : f = stock["raw"]
    OBVIOUS
  <2>1. f \in [Warehouses -> Int] /\ "raw" \in DOMAIN stock
    BY DEF TypeIInv, GoodsOK, Products
  <2>2. stock'["raw"] = [f EXCEPT ![Main] = h.seen.actual]
    BY <2>1 DEF CommitAdjustment
  <2>3. Main \in Warehouses /\ Branch \in Warehouses /\ Main # Branch
    BY BooksAssumption DEF Warehouses, BooksAssumption
  <2>4. stock'["raw"][Main] = h.seen.actual /\ stock'["raw"][Branch] = f[Branch] /\ f[Main] = h.seen.mark
    BY <1>3, <2>1, <2>2, <2>3
  <2>5. f[Branch] \in Int
    BY <2>1, <2>3
  <2>6. gl'["inventory"] = gl["inventory"] + difference
    BY <1>6
  <2>. QED  BY <1>5, <2>4, <2>5, <2>6 DEF Stocked
<1>10. DebtMoves(d) /\ CreditMoves(d)
  <2>1. gl'["debtors"] = gl["debtors"] /\ gl'["creditors"] = gl["creditors"]
    BY <1>6
  <2>2. owed' = owed /\ due' = due
    BY DEF CommitAdjustment
  <2>3. Owes(d) = 0 /\ Owes(d)' = 0
    BY <1>2, <1>4, OwesIs
  <2>. QED  BY <2>1, <2>2, <2>3 DEF DebtMoves, CreditMoves
<1>11. Rooted(d)'
  BY <1>2, <1>4 DEF Rooted, Firm, Invoices, Bills, Slips
<1>. QED  BY <1>2, <1>7, <1>8, <1>9, <1>10, <1>11 DEF Square

LEMMA InventorySquare ==
  ASSUME TypeIInv, Facts, InventoryStep
  PROVE  Squared
<1>1. ASSUME NEW d \in Docs, CreateAdjustment(d)  PROVE Square(d)
  <2>. PICK n \in 0..(MaxQty + 1) :
         Creates(d, {"adjustment"}, [status |-> "draft", mark |-> stock["raw"][Main], actual |-> n])
    BY <1>1 DEF CreateAdjustment
  <2>. PICK m : m = stock["raw"][Main]
    OBVIOUS
  <2>. PICK new : new = [status |-> "draft", mark |-> m, actual |-> n]
    OBVIOUS
  <2>1. /\ DOMAIN new = {"status", "mark", "actual"} /\ new.status = "draft" /\ new.mark = m /\ new.actual = n
        /\ Creates(d, {"adjustment"}, new)
    OBVIOUS
  <2>2. m \in Int /\ n \in Int
    BY BooksAssumption DEF TypeIInv, GoodsOK, Warehouses, Products, BooksAssumption
  <2>3. Columned(new)
    BY <2>1, <2>2 DEF Columned, Columns, Status
  <2>. QED  BY <2>1, <2>3, CreatesSquare
<1>2. ASSUME NEW d \in Docs, ApproveAdjustment(d)  PROVE Square(d)
  <2>1. row[d].kind = "adjustment" /\ UNCHANGED <<entries, booked, reversed, money, goods>> /\ disturbed \subseteq disturbed'
    BY <1>2 DEF ApproveAdjustment
  <2>2. Changes(d, JustStatus) /\ SameElse(d)
    BY <1>2, <2>1, ApproveAdjustmentDoes, PapersRest
  <2>3. Unbooks /\ row[d].kind \in Mute
    BY <2>1 DEF Unbooks, money, goods, Stocked, Mute
  <2>. QED  BY <2>1, <2>2, <2>3, MuteStill
<1>3. ASSUME NEW u \in Users, NEW d \in Docs, CreateTransfer(u, d) \/ DeleteTransfer(u, d)
      PROVE  Square(d)
  <2>1. row[d].kind = "transfer" /\ UNCHANGED <<entries, booked, reversed, money, goods, disturbed>>
    BY <1>3 DEF CreateTransfer, DeleteTransfer
  <2>2. SameElse(d) /\ Unbooks /\ row[d].kind \in Mute
    BY <2>1, PapersRest DEF Unbooks, money, goods, Stocked, Mute
  <2>3. \E cols : Changes(d, cols)
    BY <1>3, CreateTransferDoes, DeleteTransferDoes
  <2>. QED  BY <2>1, <2>2, <2>3, MuteStill
<1>4. ASSUME NEW u \in Users, CommitTransfer(u) \/ CommitAdjustment(u)  PROVE Squared
  BY <1>4, TransferSquare, AdjustmentSquare DEF Squared
<1>5. ASSUME NEW u \in Users, CheckFloor(u)  PROVE Squared
  BY <1>5, CheckFloorDoes DEF Squared
<1>. QED  BY <1>1, <1>2, <1>3, <1>4, <1>5, InventoryReads DEF InventoryStep, Squared


-----------------------------------------------------------------------------
(* Work orders. *)

InWork(r) == On(r, {"in_progress"}, r.qty)
Made(r) == On(r, {"completed"}, r.actual)
LedgerWork(w, f, n, x) ==
  \A a \in Accounts : gl'[a] = gl[a] + (CASE a = "wip" -> w [] a = "finished" -> f [] a = "inventory" -> n
                                          [] a = "difference" -> x [] OTHER -> 0)

LEMMA OrderSquare ==
  ASSUME TypeIInv, NEW d \in Docs, NEW cols, Changes(d, cols), SameElse(d), disturbed \subseteq disturbed',
         reversed' = reversed, entries'[d] \in Int, row[d].kind = "workOrder", UNCHANGED <<owed, due>>,
         NEW w \in Int, NEW f \in Int, NEW n \in Int, NEW x \in Int, LedgerWork(w, f, n, x),
         d \notin disturbed' => /\ InWork(row'[d]) = InWork(row[d]) + w /\ Made(row'[d]) = Made(row[d]) + f
                                /\ Stocked' = Stocked + n
  PROVE  Square(d)
<1>1. row[d] \in Row /\ row'[d] \in Row /\ row'[d].kind = row[d].kind /\ entries[d] \in Int /\ reversed[d] \in Int
  BY DEF Changes, Like, TypeIInv, PapersOK
<1>2. Aside(d)
  BY <1>1, AsideIs
<1>. /\ "debtors" \in Accounts /\ "creditors" \in Accounts /\ "inventory" \in Accounts
     /\ gl["debtors"] \in Int /\ gl["creditors"] \in Int /\ gl["inventory"] \in Int /\ owed \in Int /\ due \in Int
  BY DEF Accounts, TypeIInv, MoneyOK
<1>3. BooksMove(d)
  <2>. SUFFICES ASSUME d \notin disturbed', NEW a \in Told  PROVE gl'[a] = gl[a] + Share(a, d)' - Share(a, d)
    BY DEF BooksMove, ToldMoves
  <2>1. a \in Accounts /\ gl[a] \in Int /\ a # "inventory" /\ a # "difference"
    BY DEF Told, TypeIInv, MoneyOK
  <2>2. gl'[a] = gl[a] + (CASE a = "wip" -> w [] a = "finished" -> f [] OTHER -> 0)
    BY <2>1 DEF LedgerWork
  <2>3. /\ Share(a, d) = CASE a = "wip" -> InWork(row[d]) [] a = "finished" -> Made(row[d]) [] OTHER -> 0
        /\ Share(a, d)' = CASE a = "wip" -> InWork(row'[d]) [] a = "finished" -> Made(row'[d]) [] OTHER -> 0
    BY <1>1, ShareIs, DuesPart DEF InWork, Made
  <2>4. InWork(row[d]) \in Int /\ Made(row[d]) \in Int
    BY <1>1, RowColumns DEF InWork, Made, On
  <2>. QED  BY <2>1, <2>2, <2>3, <2>4
<1>4. StockMoves(d)
  <2>1. gl'["inventory"] = gl["inventory"] + n
    BY DEF LedgerWork
  <2>. QED  BY <2>1, StockedIs DEF StockMoves
<1>5. DebtMoves(d) /\ CreditMoves(d)
  <2>1. gl'["debtors"] = gl["debtors"] /\ gl'["creditors"] = gl["creditors"]
    BY DEF LedgerWork
  <2>2. Owes(d) = 0 /\ Owes(d)' = 0
    BY <1>1, OwesIs
  <2>. QED  BY <2>1, <2>2 DEF DebtMoves, CreditMoves
<1>6. Rooted(d)'
  BY <1>1 DEF Rooted, Firm, Invoices, Bills, Slips
<1>. QED  BY <1>2, <1>3, <1>4, <1>5, <1>6 DEF Square

LEMMA CommitStartSquare ==
  ASSUME TypeIInv, Facts, NEW u \in Users, CommitStart(u)
  PROVE  \E d \in Docs : Square(d)
<1>. PICK d : d = hand[u].doc
  OBVIOUS
<1>. PICK h : h = hand[u]
  OBVIOUS
<1>. PICK n : n = h.seen.qty
  OBVIOUS
<1>1. At(u, "post", {"workOrder"})
  BY DEF CommitStart
<1>2. /\ d \in Docs /\ row[d] \in Row /\ row[d].kind = "workOrder" /\ h.seen \in Row /\ PlanOK(h) /\ h.op = "post"
      /\ h.seen.kind = "workOrder" /\ h.doc = d
  BY <1>1, PlanIs
<1>3. n \in Int /\ h.at \in Warehouses
  BY <1>1, <1>2, AtIs, RowColumns
<1>4. h.seen.status = "planned"
  BY <1>2 DEF PlanOK, Drafted
<1>5. disturbed \subseteq disturbed' /\ (row[d] # h.seen => d \in disturbed')
  BY EndsQuietly DEF CommitStart
<1>6. /\ Changes(d, StatusMark)
      /\ Exists(d) => row'[d].status = "in_progress" /\ row'[d].mark = n
  BY CommitStartDoes
<1>. PICK legs : legs = [wip |-> n, inventory |-> -n]
  OBVIOUS
<1>7. Journal(d, legs)
  BY DEF CommitStart
<1>8. SameElse(d) /\ reversed' = reversed /\ entries'[d] \in Int
  BY <1>2, <1>7, JournalSame DEF TypeIInv, PapersOK
<1>9. LedgerWork(n, 0, -n, 0)
  <2>1. Ledger([wip |-> n, inventory |-> -n])
    BY <1>7 DEF Journal
  <2>. QED  BY <2>1 DEF Ledger, LedgerWork
<1>10. ASSUME d \notin disturbed'
       PROVE  /\ InWork(row'[d]) = InWork(row[d]) + n /\ Made(row'[d]) = Made(row[d]) + 0
  <2>1. row[d].status = "planned" /\ row[d].qty = n /\ row'[d].status = "in_progress" /\ row'[d].qty = n
    BY <1>4, <1>5, <1>6, <1>10 DEF Changes, Like, StatusMark, Exists
  <2>. QED  BY <1>3, <2>1 DEF InWork, Made, On
<1>11. Stocked' = Stocked + (-n)
  <2>1. Moves("raw", h.at, -n)
    BY DEF CommitStart
  <2>. QED  BY <1>3, <2>1, MovesStocked DEF TypeIInv
<1>12. UNCHANGED <<owed, due>>
  BY DEF CommitStart
<1>13. -n \in Int /\ 0 \in Int
  BY <1>3
<1>14. Square(d)
  BY <1>2, <1>3, <1>5, <1>6, <1>8, <1>9, <1>10, <1>11, <1>12, <1>13, OrderSquare
<1>. QED  BY <1>2, <1>14

LEMMA CommitCompleteSquare ==
  ASSUME TypeIInv, Facts, NEW u \in Users, CommitComplete(u)
  PROVE  \E d \in Docs : Square(d)
<1>. PICK d : d = hand[u].doc
  OBVIOUS
<1>. PICK h : h = hand[u]
  OBVIOUS
<1>. PICK q : q = h.seen.qty
  OBVIOUS
<1>. PICK m : m = h.seen.mark
  OBVIOUS
<1>. PICK used : used = Used(h.seen)
  OBVIOUS
<1>. PICK n : n = m - used
  OBVIOUS
<1>1. At(u, "complete", {"workOrder"})
  BY DEF CommitComplete
<1>2. /\ d \in Docs /\ row[d] \in Row /\ row[d].kind = "workOrder" /\ h.seen \in Row /\ PlanOK(h) /\ h.op = "complete"
      /\ h.seen.kind = "workOrder" /\ h.doc = d
  BY <1>1, PlanIs
<1>3. q \in Int /\ m \in Int /\ used \in Int /\ n \in Int /\ -m \in Int /\ h.at \in Warehouses
  BY <1>1, <1>2, AtIs, RowColumns, UsedType
<1>4. h.seen.status = "in_progress" /\ (d \in disturbed \/ m = q)
  BY <1>2 DEF PlanOK, Finished
<1>5. disturbed \subseteq disturbed' /\ (row[d] # h.seen => d \in disturbed')
  BY EndsQuietly DEF CommitComplete
<1>6. /\ Changes(d, StatusMarkActual)
      /\ Exists(d) => row'[d].status = "completed" /\ row'[d].actual = used
  BY CommitCompleteDoes
<1>. PICK legs : legs = [finished |-> used, wip |-> -m, inventory |-> n]
  OBVIOUS
<1>7. Journal(d, legs)
  BY DEF CommitComplete
<1>8. SameElse(d) /\ reversed' = reversed /\ entries'[d] \in Int
  BY <1>2, <1>7, JournalSame DEF TypeIInv, PapersOK
<1>9. LedgerWork(-m, used, n, 0)
  <2>1. Ledger([finished |-> used, wip |-> -m, inventory |-> n])
    BY <1>7 DEF Journal
  <2>. QED  BY <2>1 DEF Ledger, LedgerWork
<1>10. ASSUME d \notin disturbed'
       PROVE  InWork(row'[d]) = InWork(row[d]) + (-m) /\ Made(row'[d]) = Made(row[d]) + used
  <2>1. row[d].status = "in_progress" /\ row[d].qty = q /\ m = q /\ row'[d].status = "completed" /\ row'[d].actual = used
    BY <1>4, <1>5, <1>6, <1>10 DEF Exists
  <2>. QED  BY <1>3, <2>1 DEF InWork, Made, On
<1>11. ASSUME d \notin disturbed'
       PROVE  Stocked' = Stocked + n
  <2>. PICK f : f = stock["raw"]
    OBVIOUS
  <2>. PICK extra : extra = used - q
    OBVIOUS
  <2>1. f \in [Warehouses -> Int] /\ "raw" \in DOMAIN stock /\ "made" \in DOMAIN stock
    BY DEF TypeIInv, GoodsOK, Products
  <2>2. stock' = [stock EXCEPT !["raw"][h.at] = @ - extra, !["made"][Main] = @ + q]
    BY DEF CommitComplete
  <2>3. stock'["raw"] = [f EXCEPT ![h.at] = @ - extra]
    BY <2>1, <2>2
  <2>4. Main # Branch /\ h.at \in {Main, Branch} /\ Warehouses = {Main, Branch}
    BY <1>3, BooksAssumption DEF Warehouses, BooksAssumption
  <2>5. f[Main] \in Int /\ f[Branch] \in Int
    BY <2>1, <2>4
  <2>6. m = q
    BY <1>4, <1>5, <1>11
  <2>7. CASE h.at = Main
    BY <1>3, <2>1, <2>3, <2>4, <2>5, <2>6, <2>7 DEF Stocked
  <2>8. CASE h.at = Branch
    BY <1>3, <2>1, <2>3, <2>4, <2>5, <2>6, <2>8 DEF Stocked
  <2>. QED  BY <2>4, <2>7, <2>8
<1>12. UNCHANGED <<owed, due>>
  BY DEF CommitComplete
<1>13. 0 \in Int
  OBVIOUS
<1>14. Square(d)
  BY <1>2, <1>3, <1>5, <1>6, <1>8, <1>9, <1>10, <1>11, <1>12, <1>13, OrderSquare
<1>. QED  BY <1>2, <1>14

LEMMA CommitCancelSquare ==
  ASSUME TypeIInv, Facts, NEW u \in Users, CommitCancel(u)
  PROVE  \E d \in Docs : Square(d)
<1>. PICK d : d = hand[u].doc
  OBVIOUS
<1>. PICK h : h = hand[u]
  OBVIOUS
<1>. PICK wip : wip = h.seen.mark
  OBVIOUS
<1>. PICK back : back = h.want.actual
  OBVIOUS
<1>1. At(u, "cancel", {"workOrder"})
  BY DEF CommitCancel
<1>2. /\ d \in Docs /\ row[d] \in Row /\ row[d].kind = "workOrder" /\ h.seen \in Row /\ PlanOK(h) /\ h.op = "cancel"
      /\ h.seen.kind = "workOrder" /\ h.doc = d /\ Columned(h.want) /\ Equipped("cancel", "workOrder", h.want)
  BY <1>1, PlanIs
<1>3. wip \in Int /\ back \in Int /\ h.seen.qty \in Int /\ h.at \in Warehouses
  BY <1>1, <1>2, AtIs, RowColumns DEF Columned, Equipped
<1>4. /\ h.seen.status = "planned" => wip = 0 /\ back = 0
      /\ h.seen.status # "planned" =>
           /\ h.seen.status = "in_progress" /\ h.seen.qty > 0 /\ back \in {0, h.seen.qty}
           /\ d \in disturbed \/ wip = h.seen.qty
  BY <1>2 DEF PlanOK, Undone
<1>5. disturbed \subseteq disturbed' /\ (row[d] # h.seen => d \in disturbed')
  BY EndsQuietly DEF CommitCancel
<1>6. /\ Changes(d, StatusMark)
      /\ Exists(d) => row'[d].status = "cancelled"
  BY CommitCancelDoes
<1>7. UNCHANGED <<owed, due>>
  BY DEF CommitCancel
<1>8. Stocked' = Stocked + back
  <2>1. Moves("raw", h.at, back)
    BY DEF CommitCancel
  <2>. QED  BY <1>3, <2>1, MovesStocked DEF TypeIInv
<1>9. ASSUME d \notin disturbed'
      PROVE  /\ row[d] = h.seen /\ row'[d].status = "cancelled"
             /\ InWork(row'[d]) = InWork(row[d]) + (-wip) /\ Made(row'[d]) = Made(row[d]) + 0
             /\ wip > 0 => back \in {0, wip}
             /\ wip <= 0 => wip = 0 /\ back = 0
  <2>1. row[d] = h.seen /\ row'[d].status = "cancelled"
    BY <1>4, <1>5, <1>6, <1>9 DEF Exists
  <2>2. CASE h.seen.status = "planned"
    BY <1>3, <1>4, <2>1, <2>2 DEF InWork, Made, On
  <2>3. CASE h.seen.status # "planned"
    <3>1. h.seen.status = "in_progress" /\ wip = h.seen.qty /\ h.seen.qty > 0 /\ back \in {0, h.seen.qty}
      BY <1>4, <1>5, <1>9, <2>3
    <3>. QED  BY <1>3, <2>1, <3>1 DEF InWork, Made, On
  <2>. QED  BY <2>2, <2>3
<1>10. CASE wip <= 0
  <2>1. UNCHANGED <<gl, entries, booked, reversed>>
    BY <1>3, <1>10 DEF CommitCancel
  <2>2. LedgerWork(0, 0, 0, 0)
    BY <2>1 DEF LedgerWork, TypeIInv, MoneyOK
  <2>3. SameElse(d) /\ entries'[d] \in Int
    BY <1>2, <2>1, PapersRest DEF TypeIInv, PapersOK
  <2>4. ASSUME d \notin disturbed'
        PROVE  InWork(row'[d]) = InWork(row[d]) + 0 /\ Made(row'[d]) = Made(row[d]) + 0 /\ Stocked' = Stocked + 0
    BY <1>3, <1>8, <1>9, <1>10, <2>4, StockedIs
  <2>. QED  BY <1>2, <1>5, <1>6, <1>7, <2>1, <2>2, <2>3, <2>4, OrderSquare
<1>11. CASE wip > 0 /\ back > 0
  <2>. PICK legs : legs = [wip |-> -wip, inventory |-> wip]
    OBVIOUS
  <2>1. Journal(d, legs)
    BY <1>3, <1>11 DEF CommitCancel
  <2>2. SameElse(d) /\ reversed' = reversed /\ entries'[d] \in Int
    BY <1>2, <2>1, JournalSame DEF TypeIInv, PapersOK
  <2>3. LedgerWork(-wip, 0, wip, 0)
    <3>1. Ledger([wip |-> -wip, inventory |-> wip])
      BY <2>1 DEF Journal
    <3>. QED  BY <3>1 DEF Ledger, LedgerWork
  <2>4. d \notin disturbed' => Stocked' = Stocked + wip
    BY <1>8, <1>9, <1>11
  <2>5. -wip \in Int /\ 0 \in Int
    BY <1>3
  <2>6. Square(d)
    BY <1>2, <1>3, <1>5, <1>6, <1>7, <1>9, <2>2, <2>3, <2>4, <2>5, OrderSquare
  <2>. QED  BY <1>2, <2>6
<1>12. CASE wip > 0 /\ ~(back > 0)
  <2>. PICK legs : legs = [wip |-> -wip, difference |-> wip]
    OBVIOUS
  <2>1. Journal(d, legs)
    BY <1>3, <1>12 DEF CommitCancel
  <2>2. SameElse(d) /\ reversed' = reversed /\ entries'[d] \in Int
    BY <1>2, <2>1, JournalSame DEF TypeIInv, PapersOK
  <2>3. LedgerWork(-wip, 0, 0, wip)
    <3>1. Ledger([wip |-> -wip, difference |-> wip])
      BY <2>1 DEF Journal
    <3>. QED  BY <3>1 DEF Ledger, LedgerWork
  <2>4. d \notin disturbed' => Stocked' = Stocked + 0
    BY <1>8, <1>9, <1>12
  <2>5. -wip \in Int /\ 0 \in Int
    BY <1>3
  <2>6. Square(d)
    BY <1>2, <1>3, <1>5, <1>6, <1>7, <1>9, <2>2, <2>3, <2>4, <2>5, OrderSquare
  <2>. QED  BY <1>2, <2>6
<1>. QED  BY <1>3, <1>10, <1>11, <1>12

LEMMA ManufacturingSquare ==
  ASSUME TypeIInv, Facts, ManufacturingStep
  PROVE  Squared
<1>1. ASSUME NEW d \in Docs, CreateWorkOrder(d)  PROVE Square(d)
  <2>. PICK q \in 1..MaxQty : Creates(d, {"workOrder"}, [status |-> "planned", qty |-> q])
    BY <1>1 DEF CreateWorkOrder
  <2>. PICK new : new = [status |-> "planned", qty |-> q]
    OBVIOUS
  <2>1. DOMAIN new = {"status", "qty"} /\ new.status = "planned" /\ new.qty = q /\ Creates(d, {"workOrder"}, new)
    OBVIOUS
  <2>2. Columned(new)
    BY <2>1 DEF Columned, Columns, Status
  <2>. QED  BY <2>1, <2>2, CreatesSquare
<1>2. ASSUME NEW d \in Docs, ReopenWorkOrder(d)  PROVE Square(d)
  <2>1. /\ row[d].kind = "workOrder" /\ UNCHANGED <<entries, booked, reversed, money, goods>>
        /\ disturbed' = disturbed \cup {x \in {d} : row[x].status # "cancelled"}
    BY <1>2 DEF ReopenWorkOrder
  <2>2. Changes(d, StatusMarkActual) /\ row'[d].status = "planned" /\ SameElse(d)
    BY <1>2, <2>1, ReopenWorkOrderDoes, PapersRest
  <2>3. Unbooks
    BY <2>1 DEF Unbooks, money, goods, Stocked
  <2>4. disturbed \subseteq disturbed' /\ (d \notin disturbed' => row[d].status = "cancelled")
    BY <2>1
  <2>5. Light(row'[d]) /\ (d \notin disturbed' => Light(row[d])) /\ Owes(d) = 0
    BY <2>1, <2>2, <2>4, OwesIs DEF Light, Standing
  <2>6. row[d].kind \notin Firm
    BY <2>1 DEF Firm, Invoices, Bills, Slips
  <2>. QED  BY <2>1, <2>2, <2>3, <2>4, <2>5, <2>6, LightStill
<1>3. ASSUME NEW u \in Users, CommitStart(u) \/ CommitComplete(u) \/ CommitCancel(u)  PROVE Squared
  BY <1>3, CommitStartSquare, CommitCompleteSquare, CommitCancelSquare DEF Squared
<1>. QED  BY <1>1, <1>2, <1>3, ManufacturingReads DEF ManufacturingStep, Squared


-----------------------------------------------------------------------------
(* The till. *)

(* A shift whose difference is not booked. *)
LEMMA ShiftStill ==
  ASSUME TypeIInv, NEW d \in Docs, NEW cols, Changes(d, cols), SameElse(d), disturbed \subseteq disturbed',
         Unbooks, row[d].kind = "shift", entries[d] = 0, entries'[d] = 0, reversed'[d] = reversed[d]
  PROVE  Square(d)
<1>1. row[d] \in Row /\ row'[d] \in Row /\ row'[d].kind = "shift" /\ reversed[d] \in Int
  BY DEF Changes, Like, TypeIInv, PapersOK
<1>2. Aside(d)
  BY AsideIs DEF TypeIInv, PapersOK
<1>3. ASSUME NEW a \in Told  PROVE Share(a, d)' = Share(a, d)
  <2>1. 0 = 0 * (row[d].actual - row[d].mark) /\ 0 = 0 * (row'[d].actual - row'[d].mark)
    BY <1>1, RowColumns
  <2>2. Part(a, row[d], 0, reversed[d]) = 0 /\ Part(a, row'[d], 0, reversed'[d]) = 0
    BY <1>1, <2>1, ShiftPart
  <2>. QED  BY <2>2, ShareIs
<1>4. Owes(d)' = Owes(d) /\ Rooted(d)'
  BY <1>1, OwesIs DEF Rooted, Firm, Invoices, Bills, Slips
<1>. QED  BY <1>2, <1>3, <1>4, StillSquare

LEMMA OpenShiftSquare ==
  ASSUME TypeIInv, Facts, NEW d \in Docs, OpenShift(d)
  PROVE  Square(d)
<1>1. PICK n \in {0, 1} : Creates(d, {"shift"}, [status |-> "open", qty |-> n])
  BY DEF OpenShift
<1>. PICK new : new = [status |-> "open", qty |-> n]
  OBVIOUS
<1>2. DOMAIN new = {"status", "qty"} /\ new.status = "open" /\ new.qty = n /\ Creates(d, {"shift"}, new)
  BY <1>1
<1>3. Columned(new)
  BY <1>2 DEF Columned, Columns, Status
<1>4. /\ row[d].status = "none" /\ row[d].kind = "shift" /\ Updates(d, new)
      /\ UNCHANGED <<entries, booked, reversed, money, goods, disturbed>>
  BY <1>2 DEF Creates, Updates, work
<1>5. Changes(d, Columns)
  BY <1>3, <1>4, UpdatesDoes DEF TypeIInv, PapersOK
<1>6. entries[d] = 0
  BY <1>4, UnsettledIs DEF Facts, RowsOK
<1>7. SameElse(d) /\ Unbooks
  BY <1>4, PapersRest DEF Unbooks, money, goods, Stocked
<1>. QED  BY <1>4, <1>5, <1>6, <1>7, ShiftStill

LEMMA CommitCloseSquare ==
  ASSUME TypeIInv, Facts, NEW u \in Users, CommitClose(u)
  PROVE  \E d \in Docs : Square(d)
<1>. PICK d : d = hand[u].doc
  OBVIOUS
<1>1. At(u, "close", {"shift"}) /\ UNCHANGED <<entries, booked, reversed, money, goods, disturbed>>
  BY DEF CommitClose
<1>2. d \in Docs /\ RowOK(d)
  BY <1>1, PlanIs
<1>3. Changes(d, Columns) /\ row[d].kind = "shift" /\ row[d].status = "open"
  BY CommitCloseDoes
<1>4. entries[d] = 0
  BY <1>2, <1>3 DEF RowOK, ShiftRow
<1>5. SameElse(d) /\ Unbooks
  BY <1>1, PapersRest DEF Unbooks, money, goods, Stocked
<1>. QED  BY <1>1, <1>2, <1>3, <1>4, <1>5, ShiftStill

LedgerSale(c, b, n) ==
  \A a \in Accounts : gl'[a] = gl[a] + (CASE a = "cash" -> c [] a = "debtors" -> b [] a = "inventory" -> n [] OTHER -> 0)

LEMMA CommitCheckoutSquare ==
  ASSUME TypeIInv, Facts, NEW u \in Users, CommitCheckout(u)
  PROVE  \E d \in Docs : Square(d)
<1>. PICK d : d = hand[u].doc
  OBVIOUS
<1>. PICK h : h = hand[u]
  OBVIOUS
<1>. PICK q : q = h.want.qty
  OBVIOUS
<1>. PICK c : c = h.want.paid
  OBVIOUS
<1>1. At(u, "new", {"ticket"})
  BY DEF CommitCheckout
<1>2. /\ d \in Docs /\ row[d] \in Row /\ h.seen \in Row /\ PlanOK(h) /\ h.op = "new" /\ RowOK(d)
      /\ h.seen.kind = "ticket" /\ h.doc = d /\ Columned(h.want) /\ Equipped("new", "ticket", h.want)
  BY <1>1, PlanIs
<1>3. /\ {"qty", "paid", "mark", "link"} \subseteq DOMAIN h.want /\ q \in Int /\ c \in Int /\ h.want.mark = c
  BY <1>2 DEF Columned, Equipped, PlanOK, Renewed
<1>4. disturbed \subseteq disturbed'
  BY EndsQuietly DEF CommitCheckout
<1>5. /\ Changes(d, Columns) /\ row[d].kind = "ticket" /\ row[d].status = "none"
      /\ Wrote(row'[d], row[d], h.want) /\ row'[d].status \in {"paid", "posted"}
  BY CommitCheckoutDoes
<1>6. row'[d].qty = q /\ row'[d].mark = c /\ row'[d] \in Row /\ row'[d].kind = "ticket"
  BY <1>3, <1>5 DEF Wrote, Changes, Like
<1>. PICK b : b = q - c
  OBVIOUS
<1>. PICK legs : legs = [cash |-> c, debtors |-> b, inventory |-> -q]
  OBVIOUS
<1>7. Journal(d, legs)
  BY DEF CommitCheckout
<1>8. SameElse(d) /\ reversed' = reversed /\ entries'[d] \in Int /\ reversed[d] \in Int /\ entries[d] \in Int
  BY <1>2, <1>7, JournalSame DEF TypeIInv, PapersOK
<1>9. LedgerSale(c, b, -q)
  <2>1. Ledger([cash |-> c, debtors |-> b, inventory |-> -q])
    BY <1>7 DEF Journal
  <2>. QED  BY <2>1 DEF Ledger, LedgerSale
<1>. /\ "debtors" \in Accounts /\ "creditors" \in Accounts /\ "inventory" \in Accounts
     /\ gl["debtors"] \in Int /\ gl["creditors"] \in Int /\ gl["inventory"] \in Int /\ owed \in Int /\ due \in Int
  BY DEF Accounts, TypeIInv, MoneyOK
<1>10. BooksMove(d)
  <2>. SUFFICES ASSUME NEW a \in Told  PROVE gl'[a] = gl[a] + Share(a, d)' - Share(a, d)
    BY DEF BooksMove, ToldMoves
  <2>1. a \in Accounts /\ gl[a] \in Int /\ a # "inventory"
    BY DEF Told, TypeIInv, MoneyOK
  <2>2. gl'[a] = gl[a] + (CASE a = "cash" -> c [] a = "debtors" -> b [] OTHER -> 0)
    BY <1>9, <2>1 DEF LedgerSale
  <2>3. Share(a, d) = 0
    BY <1>2, <1>5, <1>8, ShareIs, TicketPart DEF On, Billed
  <2>4. Share(a, d)' = (CASE a = "cash" -> c [] a = "debtors" -> b [] OTHER -> 0)
    <3>1. Part(a, row'[d], entries'[d], reversed'[d]) = CASE a = "debtors" -> q - c [] a = "cash" -> c [] OTHER -> 0
      BY <1>5, <1>6, <1>8, TicketPart DEF On, Billed
    <3>2. Share(a, d)' = Part(a, row'[d], entries'[d], reversed'[d])
      BY <1>2, ShareIs
    <3>. QED  BY <3>1, <3>2
  <2>. QED  BY <1>3, <2>1, <2>2, <2>3, <2>4
<1>11. StockMoves(d)
  <2>1. PICK w \in Sources("raw", q) : Moves("raw", w, -q)
    BY DEF CommitCheckout
  <2>2. Stocked' = Stocked - q /\ Stocked \in Int
    BY <1>3, <2>1, MovesStocked, SourcesType, StockedIs DEF TypeIInv
  <2>3. gl'["inventory"] = gl["inventory"] - q
    BY <1>3, <1>9 DEF LedgerSale
  <2>. QED  BY <1>3, <2>2, <2>3 DEF StockMoves
<1>12. DebtMoves(d) /\ CreditMoves(d)
  <2>1. gl'["debtors"] = gl["debtors"] + b /\ gl'["creditors"] = gl["creditors"]
    BY <1>9 DEF LedgerSale
  <2>2. owed' = owed + q - c /\ due' = due
    BY DEF CommitCheckout
  <2>3. Owes(d) = 0 /\ Owes(d)' = 0
    BY <1>2, <1>5, <1>6, OwesIs
  <2>. QED  BY <1>3, <2>1, <2>2, <2>3 DEF DebtMoves, CreditMoves
<1>13. row[d].kind \notin Firm
  BY <1>5 DEF Firm, Invoices, Bills, Slips
<1>14. Square(d)
  BY <1>2, <1>4, <1>5, <1>8, <1>10, <1>11, <1>12, <1>13, PostSquare
<1>. QED  BY <1>2, <1>14

LEMMA OneMore ==
  ASSUME NEW e \in Int, NEW x \in Int
  PROVE  (e + 1) * x = e * x + x /\ e * x \in Int
OBVIOUS

LEMMA ShiftGrows ==
  ASSUME NEW r \in Row, r.kind = "shift", NEW e \in Int, NEW v \in Int, NEW a \in Told, NEW x \in Int, x = r.actual - r.mark
  PROVE  Part(a, r, e, v) \in Int /\ Part(a, r, e + 1, v) = Part(a, r, e, v) + (IF a = "cash" THEN x ELSE 0)
<1>. PICK f \in Int : f = e + 1
  OBVIOUS
<1>. PICK m : m = e * x
  OBVIOUS
<1>. PICK n : n = f * x
  OBVIOUS
<1>1. m \in Int /\ n = m + x
  BY OneMore
<1>2. n \in Int
  BY <1>1
<1>3. Part(a, r, e, v) = IF a = "cash" THEN m ELSE 0
  BY <1>1, ShiftPart
<1>4. Part(a, r, f, v) = IF a = "cash" THEN n ELSE 0
  BY <1>2, ShiftPart
<1>. QED  BY <1>1, <1>3, <1>4

LEMMA ShiftMoves ==
  ASSUME NEW d \in Docs, NEW a \in Told, NEW x \in Int, row' = row, row[d] \in Row, row[d].kind = "shift",
         x = row[d].actual - row[d].mark, entries[d] \in Int, entries'[d] = entries[d] + 1,
         reversed[d] \in Int, reversed' = reversed
  PROVE  Share(a, d) \in Int /\ Share(a, d)' = Share(a, d) + (IF a = "cash" THEN x ELSE 0)
<1>1. Part(a, row[d], entries[d], reversed[d]) \in Int
  BY ShiftGrows
<1>2. Part(a, row[d], entries[d] + 1, reversed[d]) = Part(a, row[d], entries[d], reversed[d]) + (IF a = "cash" THEN x ELSE 0)
  BY ShiftGrows
<1>3. Share(a, d) = Part(a, row[d], entries[d], reversed[d])
  BY ShareIs
<1>4. Share(a, d)' = Part(a, row[d], entries[d] + 1, reversed[d])
  <2>1. Share(a, d)' = Part(a, row'[d], entries'[d], reversed'[d])
    BY ShareIs
  <2>. QED  BY <2>1
<1>. QED  BY <1>1, <1>2, <1>3, <1>4

LEMMA BookDifferenceSquare ==
  ASSUME TypeIInv, Facts, NEW u \in Users, BookDifference(u)
  PROVE  \E d \in Docs : Square(d)
<1>. PICK d : d = hand[u].doc
  OBVIOUS
<1>. PICK h : h = hand[u]
  OBVIOUS
<1>. PICK x : x = h.want.actual - h.want.mark
  OBVIOUS
<1>1. At(u, "entry", {"shift"}) /\ row' = row /\ UNCHANGED <<owed, due, goods, disturbed>>
  BY DEF BookDifference
<1>2. /\ d \in Docs /\ row[d] \in Row /\ PlanOK(h) /\ h.op = "entry" /\ RowOK(d) /\ row[d].kind = "shift" /\ h.doc = d
  BY <1>1, PlanIs
<1>3. h.want.mark = row[d].mark /\ h.want.actual = row[d].actual
  BY <1>2 DEF PlanOK, Counted
<1>4. x = row[d].actual - row[d].mark /\ x \in Int
  BY <1>2, <1>3, RowColumns
<1>. PICK legs : legs = [cash |-> x, difference |-> -x]
  OBVIOUS
<1>5. Journal(d, legs)
  BY DEF BookDifference
<1>6. SameElse(d) /\ reversed' = reversed /\ entries'[d] = entries[d] + 1 /\ reversed[d] \in Int /\ entries[d] \in Int
  BY <1>2, <1>5, JournalSame DEF TypeIInv, PapersOK
<1>7. LedgerTwo("cash", x, "difference", -x)
  <2>1. Ledger([cash |-> x, difference |-> -x])
    BY <1>5 DEF Journal
  <2>. QED  BY <2>1 DEF Ledger, LedgerTwo
<1>8. Changes(d, JustStatus)
  BY <1>1, <1>2, StaysDoes DEF TypeIInv, PapersOK
<1>. /\ "debtors" \in Accounts /\ "creditors" \in Accounts /\ "inventory" \in Accounts
     /\ gl["debtors"] \in Int /\ gl["creditors"] \in Int /\ gl["inventory"] \in Int /\ owed \in Int /\ due \in Int
  BY DEF Accounts, TypeIInv, MoneyOK
<1>9. BooksMove(d)
  <2>. SUFFICES ASSUME NEW a \in Told  PROVE gl'[a] = gl[a] + Share(a, d)' - Share(a, d)
    BY DEF BooksMove, ToldMoves
  <2>1. a \in Accounts /\ gl[a] \in Int /\ a # "difference"
    BY DEF Told, TypeIInv, MoneyOK
  <2>2. gl'[a] = gl[a] + (IF a = "cash" THEN x ELSE 0)
    BY <1>7, <2>1 DEF LedgerTwo
  <2>3. Share(a, d) \in Int /\ Share(a, d)' = Share(a, d) + (IF a = "cash" THEN x ELSE 0)
    BY <1>1, <1>2, <1>4, <1>6, ShiftMoves
  <2>. QED  BY <1>4, <2>1, <2>2, <2>3
<1>10. StockMoves(d)
  <2>1. gl'["inventory"] = gl["inventory"]
    BY <1>7 DEF LedgerTwo
  <2>2. Stocked' = Stocked /\ Stocked \in Int
    BY <1>1, StockedIs DEF goods, Stocked
  <2>. QED  BY <2>1, <2>2 DEF StockMoves
<1>11. DebtMoves(d) /\ CreditMoves(d)
  <2>1. gl'["debtors"] = gl["debtors"] /\ gl'["creditors"] = gl["creditors"]
    BY <1>7 DEF LedgerTwo
  <2>2. Owes(d) = 0 /\ Owes(d)' = 0
    BY <1>1, <1>2, OwesIs
  <2>. QED  BY <1>1, <2>1, <2>2 DEF DebtMoves, CreditMoves
<1>12. row[d].kind \notin Firm
  BY <1>2 DEF Firm, Invoices, Bills, Slips
<1>13. Square(d)
  BY <1>1, <1>2, <1>6, <1>8, <1>9, <1>10, <1>11, <1>12, PostSquare
<1>. QED  BY <1>2, <1>13

LEMMA TillSquare ==
  ASSUME TypeIInv, Facts, TillStep
  PROVE  Squared
<1>1. ASSUME NEW u \in Users, CommitCheckout(u) \/ CommitClose(u) \/ BookDifference(u)  PROVE Squared
  BY <1>1, CommitCheckoutSquare, CommitCloseSquare, BookDifferenceSquare DEF Squared
<1>2. ASSUME NEW u \in Users, LookUpDifference(u)  PROVE Squared
  BY <1>2, LookUpDoes DEF Squared
<1>. QED  BY <1>1, <1>2, OpenShiftSquare, TillReads DEF TillStep, Squared


-----------------------------------------------------------------------------
(* Offers and periods. *)

LEMMA OffersMute == Offers \subseteq Mute /\ {"half", "year"} \subseteq Mute /\ "shift" \notin Offers
BY DEF Offers, Mute

LEMMA ConversionSquare ==
  ASSUME TypeIInv, Facts, ConversionStep
  PROVE  Squared
<1>1. ASSUME NEW d \in Docs, CreateOffer(d)  PROVE Square(d)
  BY <1>1, DraftsSquare, OffersMute DEF CreateOffer
<1>2. ASSUME NEW u \in Users, ClaimOffer(u) \/ ReleaseOffer(u)  PROVE Squared
  <2>. PICK d : d = hand[u].doc
    OBVIOUS
  <2>1. At(u, "claim", Offers) \/ At(u, "release", Offers)
    BY <1>2 DEF ClaimOffer, ReleaseOffer
  <2>2. d \in Docs
    BY <2>1, PlanIs
  <2>3. UNCHANGED <<entries, booked, reversed, money, goods, disturbed>>
    BY <1>2 DEF ClaimOffer, ReleaseOffer
  <2>4. Changes(d, JustStatus) /\ row[d].kind \in Mute
    BY <1>2, ClaimOfferDoes, ReleaseOfferDoes, OffersMute
  <2>5. SameElse(d) /\ Unbooks
    BY <2>3, PapersRest DEF Unbooks, money, goods, Stocked
  <2>6. Square(d)
    BY <2>2, <2>3, <2>4, <2>5, MuteStill
  <2>. QED  BY <2>2, <2>6 DEF Squared
<1>3. ASSUME NEW u \in Users, CreateConverted(u)  PROVE Squared
  <2>. PICK i \in Docs, lost \in BOOLEAN : Creation(u, i, lost)
    BY <1>3, CreateConvertedIs
  <2>1. Changes(i, StatusLinkQty) /\ row'[i].status = "draft"
    BY CreationType
  <2>2. /\ row[i].status = "none" /\ row[i].kind # "shift"
        /\ UNCHANGED <<entries, booked, reversed, money, goods, disturbed>>
    BY DEF Creation, Becomes
  <2>3. Square(i)
    BY <2>1, <2>2, FreshStill
  <2>. QED  BY <2>3 DEF Squared
<1>4. ASSUME NEW u \in Users, NumberFails(u) \/ CreateFails(u) \/ ReleaseFails(u)  PROVE Squared
  BY <1>4, ClaimEndsDoes DEF Squared
<1>. QED  BY <1>1, <1>2, <1>3, <1>4, ConversionReads DEF ConversionStep, Squared

LEMMA PeriodsSquare ==
  ASSUME TypeIInv, Facts, PeriodsStep
  PROVE  Squared
<1>1. ASSUME NEW d \in Docs, OpenAccountingPeriod(d) \/ GenerateSubPeriods(d) \/ OpenTaxPeriod(d)  PROVE Square(d)
  <2>. PICK new : new = [status |-> "open"]
    OBVIOUS
  <2>1. DOMAIN new = {"status"} /\ new.status = "open"
    OBVIOUS
  <2>2. Columned(new)
    BY <2>1 DEF Columned, Columns, Status
  <2>3. PICK k \in {"year", "half", "taxPeriod"} : Creates(d, {k}, new)
    BY <1>1 DEF OpenAccountingPeriod, GenerateSubPeriods, OpenTaxPeriod
  <2>4. {k} \subseteq Mute /\ "shift" \notin {k}
    BY DEF Mute
  <2>. QED  BY <2>1, <2>2, <2>3, <2>4, CreatesSquare
<1>2. ASSUME NEW u \in Users, CommitsPeriod(u)  PROVE Squared
  <2>. PICK d : d = hand[u].doc
    OBVIOUS
  <2>1. d \in Docs /\ row[d].kind \in Mute /\ Changes(d, JustStatus)
    BY <1>2, CommitsPeriodDoes, OffersMute
  <2>2. UNCHANGED <<entries, booked, reversed, money, goods>> /\ Ends(u)
    BY <1>2 DEF CommitsPeriod, CommitPeriod, CommitFiscalYear, CommitReopen
  <2>3. SameElse(d) /\ Unbooks
    BY <2>2, PapersRest DEF Unbooks, money, goods, Stocked
  <2>4. disturbed \subseteq disturbed'
    BY <2>2, EndsQuietly
  <2>5. Square(d)
    BY <2>1, <2>2, <2>3, <2>4, MuteStill
  <2>. QED  BY <2>1, <2>5 DEF Squared
<1>. QED  BY <1>1, <1>2, PeriodsReads DEF PeriodsStep, CommitsPeriod, Squared

-----------------------------------------------------------------------------
(* Manual entries. *)

LEMMA Linear ==
  ASSUME NEW v \in Int, NEW q \in Int
  PROVE  /\ (1 - v) * q \in Int
         /\ (1 - (v + 1)) * q = (1 - v) * q - q
         /\ v = 0 => (1 - v) * q = q
         /\ q = 0 => (1 - v) * q = 0
OBVIOUS

(* The shares of an entry: its own lines, unless it is reversed.           *)
Laid(r, v) == On(r, Posted, (1 - v) * r.qty)

LEMMA LaidIs ==
  ASSUME TypeIInv, NEW d \in Docs, row[d].kind \in {"journal", "payroll", "provision"}, NEW a \in Told,
         row'[d] \in Row, row'[d].kind = row[d].kind, entries'[d] \in Int, reversed'[d] \in Int
  PROVE  /\ Laid(row[d], reversed[d]) \in Int /\ Laid(row'[d], reversed'[d]) \in Int
         /\ row[d].kind = "journal" =>
              /\ Share(a, d) = CASE a = "other" -> Laid(row[d], reversed[d]) [] a = "cash" -> -Laid(row[d], reversed[d]) [] OTHER -> 0
              /\ Share(a, d)' = CASE a = "other" -> Laid(row'[d], reversed'[d]) [] a = "cash" -> -Laid(row'[d], reversed'[d]) [] OTHER -> 0
         /\ row[d].kind = "payroll" =>
              /\ Share(a, d) = IF a = "wages" THEN Laid(row[d], reversed[d]) ELSE 0
              /\ Share(a, d)' = IF a = "wages" THEN Laid(row'[d], reversed'[d]) ELSE 0
         /\ row[d].kind = "provision" =>
              /\ Share(a, d) = IF a = "leaves" THEN Laid(row[d], reversed[d]) ELSE 0
              /\ Share(a, d)' = IF a = "leaves" THEN Laid(row'[d], reversed'[d]) ELSE 0
<1>1. /\ row[d] \in Row /\ row'[d] \in Row /\ entries[d] \in Int /\ reversed[d] \in Int
      /\ row[d].qty \in Int /\ row'[d].qty \in Int
  BY RowColumns DEF TypeIInv, PapersOK
<1>. PICK n : n = (1 - reversed[d]) * row[d].qty
  OBVIOUS
<1>. PICK m : m = (1 - reversed'[d]) * row'[d].qty
  OBVIOUS
<1>2. n \in Int /\ m \in Int
  BY <1>1, Linear
<1>3. Laid(row[d], reversed[d]) = On(row[d], Posted, n) /\ Laid(row'[d], reversed'[d]) = On(row'[d], Posted, m)
  BY DEF Laid
<1>4. Laid(row[d], reversed[d]) \in Int /\ Laid(row'[d], reversed'[d]) \in Int
  BY <1>2, <1>3 DEF On
<1>5. /\ On(row[d], Posted, -n) = -Laid(row[d], reversed[d])
      /\ On(row'[d], Posted, -m) = -Laid(row'[d], reversed'[d])
  BY <1>2, <1>3 DEF On
<1>6. /\ row[d].kind = "journal" => Share(a, d) = CASE a = "other" -> On(row[d], Posted, n) [] a = "cash" -> On(row[d], Posted, -n) [] OTHER -> 0
      /\ row[d].kind = "payroll" => Share(a, d) = IF a = "wages" THEN On(row[d], Posted, n) ELSE 0
      /\ row[d].kind = "provision" => Share(a, d) = IF a = "leaves" THEN On(row[d], Posted, n) ELSE 0
  BY <1>1, <1>2, ShareIs, EntryPart
<1>7. /\ row[d].kind = "journal" => Share(a, d)' = CASE a = "other" -> On(row'[d], Posted, m) [] a = "cash" -> On(row'[d], Posted, -m) [] OTHER -> 0
      /\ row[d].kind = "payroll" => Share(a, d)' = IF a = "wages" THEN On(row'[d], Posted, m) ELSE 0
      /\ row[d].kind = "provision" => Share(a, d)' = IF a = "leaves" THEN On(row'[d], Posted, m) ELSE 0
  BY <1>1, <1>2, ShareIs, EntryPart
<1>. QED  BY <1>3, <1>4, <1>5, <1>6, <1>7


(* n is what the step books for the lines of entry d. *)
Entries == {"journal", "payroll", "provision"}
LedgerEntry(k, n) ==
  \A a \in Accounts : gl'[a] = gl[a] + (CASE k = "journal" /\ a = "other" -> n [] k = "journal" /\ a = "cash" -> -n
                                          [] k = "payroll" /\ a = "wages" -> n [] k = "provision" /\ a = "leaves" -> n
                                          [] OTHER -> 0)

LEMMA EntrySquare ==
  ASSUME TypeIInv, NEW d \in Docs, NEW cols, Changes(d, cols), SameElse(d), disturbed \subseteq disturbed',
         row[d].kind \in Entries, entries'[d] \in Int, reversed'[d] \in Int, reversed[d] <= reversed'[d],
         UNCHANGED <<owed, due, stock>>, NEW n \in Int, LedgerEntry(row[d].kind, n),
         d \notin disturbed' => Laid(row'[d], reversed'[d]) = Laid(row[d], reversed[d]) + n,
         Rooted(d) => Rooted(d)'
  PROVE  Square(d)
<1>1. row[d] \in Row /\ row'[d] \in Row /\ row'[d].kind = row[d].kind
  BY DEF Changes, Like, TypeIInv, PapersOK
<1>2. Aside(d)
  BY AsideIs
<1>. PICK k : k = row[d].kind
  OBVIOUS
<1>. PICK l : l = Laid(row[d], reversed[d])
  OBVIOUS
<1>. PICK m : m = Laid(row'[d], reversed'[d])
  OBVIOUS
<1>. /\ "debtors" \in Accounts /\ "creditors" \in Accounts /\ "inventory" \in Accounts
     /\ gl["debtors"] \in Int /\ gl["creditors"] \in Int /\ gl["inventory"] \in Int /\ owed \in Int /\ due \in Int
  BY DEF Accounts, TypeIInv, MoneyOK
<1>3. BooksMove(d)
  <2>. SUFFICES ASSUME d \notin disturbed', NEW a \in Told  PROVE gl'[a] = gl[a] + Share(a, d)' - Share(a, d)
    BY DEF BooksMove, ToldMoves
  <2>1. a \in Accounts /\ gl[a] \in Int
    BY DEF Told, TypeIInv, MoneyOK
  <2>2. l \in Int /\ m \in Int /\ m = l + n
    BY <1>1, LaidIs DEF Entries
  <2>3. gl'[a] = gl[a] + (CASE k = "journal" /\ a = "other" -> n [] k = "journal" /\ a = "cash" -> -n
                            [] k = "payroll" /\ a = "wages" -> n [] k = "provision" /\ a = "leaves" -> n
                            [] OTHER -> 0)
    BY <2>1 DEF LedgerEntry
  <2>4. CASE k = "journal"
    <3>1. /\ Share(a, d) = CASE a = "other" -> l [] a = "cash" -> -l [] OTHER -> 0
          /\ Share(a, d)' = CASE a = "other" -> m [] a = "cash" -> -m [] OTHER -> 0
      BY <1>1, <2>4, LaidIs DEF Entries
    <3>. QED  BY <2>1, <2>2, <2>3, <2>4, <3>1
  <2>5. CASE k = "payroll"
    <3>1. /\ Share(a, d) = IF a = "wages" THEN l ELSE 0
          /\ Share(a, d)' = IF a = "wages" THEN m ELSE 0
      BY <1>1, <2>5, LaidIs DEF Entries
    <3>. QED  BY <2>1, <2>2, <2>3, <2>5, <3>1
  <2>6. CASE k = "provision"
    <3>1. /\ Share(a, d) = IF a = "leaves" THEN l ELSE 0
          /\ Share(a, d)' = IF a = "leaves" THEN m ELSE 0
      BY <1>1, <2>6, LaidIs DEF Entries
    <3>. QED  BY <2>1, <2>2, <2>3, <2>6, <3>1
  <2>. QED  BY <2>4, <2>5, <2>6 DEF Entries
<1>4. StockMoves(d)
  <2>1. gl'["inventory"] = gl["inventory"]
    BY DEF LedgerEntry
  <2>2. Stocked' = Stocked /\ Stocked \in Int
    BY StockedIs DEF Stocked
  <2>. QED  BY <2>1, <2>2 DEF StockMoves
<1>5. DebtMoves(d) /\ CreditMoves(d)
  <2>1. gl'["debtors"] = gl["debtors"] /\ gl'["creditors"] = gl["creditors"]
    BY DEF LedgerEntry
  <2>2. Owes(d) = 0 /\ Owes(d)' = 0
    BY <1>1, OwesIs DEF Entries
  <2>. QED  BY <2>1, <2>2 DEF DebtMoves, CreditMoves
<1>. QED  BY <1>2, <1>3, <1>4, <1>5 DEF Square

LEMMA JournalsFree == ASSUME NEW d, row[d].kind \in {"journal", "provision"}, row'[d].kind = row[d].kind
                      PROVE  Rooted(d)'
BY DEF Rooted, Firm, Invoices, Bills, Slips

(* What the lines of a draft, and of nothing, are worth. *)
LEMMA LaidNothing == ASSUME NEW r \in Row, NEW v, r.status # "posted"  PROVE Laid(r, v) = 0
BY DEF Laid, On, Posted
LEMMA LaidWhole ==
  ASSUME NEW r \in Row, r.status = "posted"
  PROVE  /\ Laid(r, 0) = r.qty
         /\ \A v \in Int : Laid(r, v + 1) = Laid(r, v) - r.qty
<1>1. r.qty \in Int
  BY RowColumns
<1>2. ASSUME NEW v \in Int  PROVE Laid(r, v) = (1 - v) * r.qty
  BY DEF Laid, On, Posted
<1>3. ASSUME NEW v \in Int  PROVE Laid(r, v + 1) = Laid(r, v) - r.qty
  <2>1. v + 1 \in Int
    OBVIOUS
  <2>2. Laid(r, v + 1) = (1 - (v + 1)) * r.qty /\ Laid(r, v) = (1 - v) * r.qty
    BY <1>2, <2>1
  <2>. QED  BY <1>1, <2>2, Linear
<1>4. 0 \in Int
  OBVIOUS
<1>5. Laid(r, 0) = (1 - 0) * r.qty
  BY <1>2, <1>4
<1>. QED  BY <1>1, <1>3, <1>5

LEMMA SameColumns ==
  ASSUME NEW r \in Row, NEW q \in Row, Like(r, q, JustStatus), r.status = q.status
  PROVE  r = q
BY DEF Row, Like, JustStatus

LEMMA UpdateHeaderSquare ==
  ASSUME TypeIInv, Facts, NEW u \in Users, UpdateHeader(u)
  PROVE  \E d \in Docs : Square(d)
<1>. PICK d : d = hand[u].doc
  OBVIOUS
<1>. PICK h : h = hand[u]
  OBVIOUS
<1>1. At(u, "header", {"journal"}) /\ UNCHANGED <<entries, booked, reversed, money, goods, disturbed>>
  BY DEF UpdateHeader
<1>2. d \in Docs /\ row[d] \in Row /\ PlanOK(h) /\ h.op = "header" /\ Equipped("header", "journal", h.want)
  BY <1>1, PlanIs
<1>3. Changes(d, JustStatus) /\ row[d].kind = "journal"
  BY UpdateHeaderDoes
<1>4. SameElse(d) /\ Unbooks
  BY <1>1, PapersRest DEF Unbooks, money, goods, Stocked
<1>5. CASE row' = row
  BY <1>1, <1>2, <1>3, <1>4, <1>5, SameStill
<1>6. CASE row' # row
  <2>1. row' = Flipped(d, {"draft"}, "cancelled")
    BY <1>2, <1>6 DEF UpdateHeader, Equipped, PlanOK, Undone
  <2>2. row'[d].status = IF row[d].status = "draft" THEN "cancelled" ELSE row[d].status
    <3>1. "cancelled" \in Status /\ row \in [Docs -> Row]
      BY DEF Status, TypeIInv, PapersOK
    <3>. QED  BY <1>2, <2>1, <3>1, FlipDoes
  <2>3. row[d].status = "draft"
    <3>. SUFFICES ASSUME row[d].status # "draft"  PROVE row' = row
      BY <1>6
    <3>1. row'[d] = row[d]
      BY <1>2, <1>3, <2>2, SameColumns DEF Changes
    <3>. QED  BY <1>2, <1>3, <3>1 DEF Changes, TypeIInv, PapersOK
  <2>4. Light(row[d]) /\ Light(row'[d])
    BY <2>2, <2>3 DEF Light, Standing
  <2>5. Square(d)
    BY <1>1, <1>2, <1>3, <1>4, <2>3, <2>4, LightStill
  <2>. QED  BY <1>2, <2>5
<1>. QED  BY <1>5, <1>6

LEMMA LaysSquare ==
  ASSUME TypeIInv, Facts, NEW d \in Docs, row[d].kind = "journal", NEW n \in Int, Lays(d, n),
         disturbed \subseteq disturbed', row[d].status = "posted" => d \in disturbed'
  PROVE  Square(d)
<1>1. /\ Changes(d, JustQty) /\ UNCHANGED <<entries, booked, reversed, owed, due, stock>>
  BY LaysDoes
<1>2. /\ SameElse(d) /\ entries'[d] \in Int /\ reversed'[d] \in Int /\ reversed[d] <= reversed'[d]
      /\ row'[d].status = row[d].status /\ row'[d].kind = row[d].kind /\ row[d] \in Row /\ row'[d] \in Row
  BY <1>1, PapersRest DEF TypeIInv, PapersOK, Changes, Like, JustQty
<1>3. Rooted(d)'
  BY <1>2, JournalsFree
<1>4. CASE row[d].status = "posted"
  <2>1. Ledger([other |-> n, cash |-> -n])
    BY <1>4 DEF Lays
  <2>2. LedgerEntry("journal", n)
    BY <2>1 DEF Ledger, LedgerEntry
  <2>. QED  BY <1>1, <1>2, <1>3, <1>4, <2>2, EntrySquare DEF Entries
<1>5. CASE row[d].status # "posted"
  <2>1. gl' = gl
    BY <1>5 DEF Lays
  <2>2. LedgerEntry("journal", 0)
    BY <2>1 DEF LedgerEntry, TypeIInv, MoneyOK
  <2>3. Laid(row'[d], reversed'[d]) = Laid(row[d], reversed[d]) + 0
    BY <1>2, <1>5, LaidNothing
  <2>. QED  BY <1>1, <1>2, <1>3, <2>2, <2>3, EntrySquare DEF Entries
<1>. QED  BY <1>4, <1>5

LEMMA LinesSquare ==
  ASSUME TypeIInv, Facts, NEW u \in Users, DeleteLines(u) \/ InsertLines(u)
  PROVE  \E d \in Docs : Square(d)
<1>. PICK d : d = hand[u].doc
  OBVIOUS
<1>1. At(u, "lines", {"journal"}) \/ At(u, "insert", {"journal"})
  BY DEF DeleteLines, InsertLines
<1>2. d \in Docs /\ row[d] \in Row /\ row[d].kind = "journal"
  BY <1>1, PlanIs
<1>3. /\ disturbed \subseteq disturbed' /\ (row[d].status = "posted" => d \in disturbed')
  BY DEF DeleteLines, InsertLines
<1>4. PICK n \in Int : Lays(d, n)
  <2>1. CASE DeleteLines(u)
    <3>1. -row[d].qty \in Int
      BY <1>2, RowColumns
    <3>. QED  BY <2>1, <3>1 DEF DeleteLines
  <2>2. CASE InsertLines(u)
    BY <2>2, InsertLinesDoes DEF InsertLines
  <2>. QED  BY <2>1, <2>2
<1>. QED  BY <1>2, <1>3, <1>4, LaysSquare


LEMMA CommitTransactionSquare ==
  ASSUME TypeIInv, Facts, NEW u \in Users, CommitTransaction(u)
  PROVE  \E d \in Docs : Square(d)
<1>. PICK d : d = hand[u].doc
  OBVIOUS
<1>1. At(u, "post", {"journal"}) /\ UNCHANGED <<owed, due, goods>>
  BY DEF CommitTransaction
<1>2. d \in Docs /\ row[d] \in Row /\ RowOK(d) /\ entries[d] \in Nat /\ reversed[d] \in Nat
  BY <1>1, PlanIs DEF TypeIInv, PapersOK
<1>3. /\ Changes(d, JustStatus) /\ row[d].kind = "journal"
      /\ row'[d].status = IF row[d].status = "draft" THEN "posted" ELSE row[d].status
  BY CommitTransactionDoes
<1>4. disturbed \subseteq disturbed'
  BY EndsQuietly DEF CommitTransaction
<1>. PICK n : n = row[d].qty
  OBVIOUS
<1>5. n \in Int /\ row'[d] \in Row /\ row'[d].kind = row[d].kind /\ row'[d].qty = n
  BY <1>2, <1>3, RowColumns DEF Changes, Like, JustStatus
<1>6. CASE row[d].status = "draft"
  <2>. PICK legs : legs = [other |-> n, cash |-> -n]
    OBVIOUS
  <2>1. Journal(d, legs)
    BY <1>6 DEF CommitTransaction
  <2>2. SameElse(d) /\ reversed'[d] = reversed[d] /\ entries'[d] \in Int
    BY <1>2, <2>1, JournalSame DEF TypeIInv
  <2>3. LedgerEntry("journal", n)
    <3>1. Ledger([other |-> n, cash |-> -n])
      BY <2>1 DEF Journal
    <3>. QED  BY <3>1 DEF Ledger, LedgerEntry
  <2>4. ASSUME d \notin disturbed'  PROVE Laid(row'[d], reversed'[d]) = Laid(row[d], reversed[d]) + n
    <3>1. reversed[d] = 0
      BY <1>2, <1>3, <1>4, <1>6, <2>4 DEF RowOK, LedgerRow
    <3>2. Laid(row[d], reversed[d]) = 0
      BY <1>2, <1>6, LaidNothing
    <3>3. Laid(row'[d], 0) = n
      BY <1>3, <1>5, <1>6, LaidWhole
    <3>. QED  BY <1>5, <2>2, <3>1, <3>2, <3>3
  <2>5. Rooted(d)'
    BY <1>3, <1>5, JournalsFree
  <2>6. Square(d)
    BY <1>1, <1>2, <1>3, <1>4, <1>5, <2>2, <2>3, <2>4, <2>5, EntrySquare DEF Entries, goods
  <2>. QED  BY <1>2, <2>6
<1>7. CASE row[d].status # "draft"
  <2>1. UNCHANGED <<gl, entries, booked, reversed>>
    BY <1>7 DEF CommitTransaction
  <2>2. row'[d] = row[d]
    BY <1>2, <1>3, <1>5, <1>7, SameColumns DEF Changes
  <2>3. SameElse(d) /\ Unbooks
    BY <1>1, <2>1, PapersRest DEF Unbooks, goods, Stocked
  <2>4. Square(d)
    BY <1>2, <1>3, <1>4, <2>1, <2>2, <2>3, SameStill
  <2>. QED  BY <1>2, <2>4
<1>. QED  BY <1>6, <1>7

LEMMA EntryLegs ==
  ASSUME NEW m \in Int, NEW n \in Int, -n = m, Ledger([other |-> -m, cash |-> m])
  PROVE  LedgerEntry("journal", n)
BY DEF Ledger, LedgerEntry

LEMMA CommitDeleteSquare ==
  ASSUME TypeIInv, Facts, NEW u \in Users, CommitDelete(u)
  PROVE  \E d \in Docs : Square(d)
<1>. PICK d : d = hand[u].doc
  OBVIOUS
<1>. PICK h : h = hand[u]
  OBVIOUS
<1>1. At(u, "cancel", {"journal"}) /\ UNCHANGED <<entries, booked, reversed, owed, due, goods>>
  BY DEF CommitDelete
<1>2. /\ d \in Docs /\ row[d] \in Row /\ PlanOK(h) /\ h.op = "cancel" /\ h.seen.kind = "journal"
      /\ entries[d] \in Nat /\ reversed[d] \in Nat
  BY <1>1, PlanIs DEF TypeIInv, PapersOK
<1>3. Changes(d, StatusQty) /\ row[d].kind = "journal" /\ row'[d].status = "gone"
  BY CommitDeleteDoes
<1>4. disturbed \subseteq disturbed' /\ (row[d] # h.seen => d \in disturbed') /\ h.seen.status = "draft"
  BY <1>2, EndsQuietly DEF CommitDelete, PlanOK, Undone
<1>. PICK m : m = IF row[d].status = "posted" THEN row[d].qty ELSE 0
  OBVIOUS
<1>. PICK n : n = -m
  OBVIOUS
<1>5. m \in Int /\ n \in Int /\ -n = m /\ row'[d] \in Row /\ row'[d].kind = row[d].kind
  BY <1>2, <1>3, RowColumns DEF Changes, Like
<1>6. LedgerEntry("journal", n)
  <2>1. Ledger([other |-> -m, cash |-> m])
    BY DEF CommitDelete
  <2>. QED  BY <1>5, <2>1, EntryLegs
<1>7. ASSUME d \notin disturbed'  PROVE Laid(row'[d], reversed'[d]) = Laid(row[d], reversed[d]) + n
  <2>0. row[d].status = "draft"
    BY <1>4, <1>7
  <2>1. m = 0
    BY <2>0
  <2>2. n = 0
    <3>1. ASSUME NEW x \in Int, NEW y \in Int, -x = y, y = 0  PROVE x = 0
      BY <3>1
    <3>. QED  BY <1>5, <2>1, <3>1
  <2>3. Laid(row[d], reversed[d]) = 0 /\ Laid(row'[d], reversed'[d]) = 0
    BY <1>2, <1>3, <1>5, <2>0, LaidNothing
  <2>. QED  BY <2>2, <2>3
<1>8. Rooted(d)'
  BY <1>3, <1>5, JournalsFree
<1>9. SameElse(d) /\ reversed'[d] = reversed[d] /\ entries'[d] = entries[d]
  BY <1>1, PapersRest
<1>10. Square(d)
  BY <1>1, <1>2, <1>3, <1>4, <1>5, <1>6, <1>7, <1>8, <1>9, EntrySquare DEF Entries, goods
<1>. QED  BY <1>2, <1>10

LEMMA CommitMirrorSquare ==
  ASSUME TypeIInv, Facts, NEW u \in Users, CommitMirror(u)
  PROVE  \E d \in Docs : Square(d)
<1>. PICK d : d = hand[u].doc
  OBVIOUS
<1>. PICK h : h = hand[u]
  OBVIOUS
<1>. PICK k : k = h.seen.kind
  OBVIOUS
<1>. PICK m : m = h.seen.qty
  OBVIOUS
<1>. PICK n : n = -m
  OBVIOUS
<1>1. At(u, "reverse", Entries) /\ UNCHANGED <<row, entries, booked, owed, due, goods>>
  BY DEF CommitMirror, Entries
<1>2. /\ d \in Docs /\ row[d] \in Row /\ PlanOK(h) /\ h.op = "reverse" /\ k \in Entries /\ row[d].kind = k
      /\ h.seen \in Row /\ entries[d] \in Nat /\ reversed[d] \in Nat /\ row \in [Docs -> Row]
  BY <1>1, PlanIs DEF TypeIInv, PapersOK
<1>3. disturbed \subseteq disturbed' /\ (row[d] # h.seen => d \in disturbed') /\ h.seen.status = "posted"
  BY <1>2, EndsQuietly DEF CommitMirror, PlanOK, Undone
<1>4. m \in Int /\ n \in Int /\ -n = m
  BY <1>2, RowColumns
<1>5. LedgerEntry(k, n)
  <2>1. Ledger(Mirror(k, m))
    BY DEF CommitMirror
  <2>2. CASE k = "journal"
    <3>1. Ledger([other |-> -m, cash |-> m])
      BY <2>1, <2>2 DEF Mirror
    <3>. QED  BY <1>4, <2>2, <3>1 DEF Ledger, LedgerEntry
  <2>3. CASE k = "payroll"
    <3>1. Ledger([wages |-> -m])
      BY <2>1, <2>3 DEF Mirror
    <3>. QED  BY <1>4, <2>3, <3>1 DEF Ledger, LedgerEntry
  <2>4. CASE k = "provision"
    <3>1. Ledger([leaves |-> -m])
      BY <2>1, <2>4 DEF Mirror
    <3>. QED  BY <1>4, <2>4, <3>1 DEF Ledger, LedgerEntry
  <2>. QED  BY <1>2, <2>2, <2>3, <2>4 DEF Entries
<1>6. reversed'[d] = reversed[d] + 1 /\ SameElse(d)
  BY <1>1, <1>2 DEF CommitMirror, SameElse, TypeIInv, PapersOK
<1>7. ASSUME d \notin disturbed'  PROVE Laid(row'[d], reversed'[d]) = Laid(row[d], reversed[d]) + n
  <2>1. row[d].status = "posted" /\ row[d].qty = m
    BY <1>3, <1>7
  <2>2. reversed[d] \in Int
    BY <1>2
  <2>3. Laid(row[d], reversed[d] + 1) = Laid(row[d], reversed[d]) - m
    BY <1>2, <2>1, <2>2, LaidWhole
  <2>4. Laid(row[d], reversed[d]) \in Int
    <3>1. "cash" \in Told /\ entries'[d] \in Int /\ reversed'[d] \in Int /\ row'[d] \in Row /\ row'[d].kind = row[d].kind
      BY <1>1, <1>2, <1>6 DEF Told, Accounts
    <3>. QED  BY <1>2, <3>1, LaidIs DEF Entries
  <2>. QED  BY <1>1, <1>4, <1>6, <2>3, <2>4
<1>8. Changes(d, JustStatus)
  BY <1>1, <1>2, StaysDoes
<1>9. Rooted(d) => Rooted(d)'
  BY <1>1, <1>3 DEF Rooted, Upright
<1>10. entries'[d] \in Int /\ reversed'[d] \in Int /\ reversed[d] <= reversed'[d]
  BY <1>1, <1>2, <1>6
<1>11. Square(d)
  BY <1>1, <1>2, <1>3, <1>4, <1>5, <1>6, <1>7, <1>8, <1>9, <1>10, EntrySquare DEF goods
<1>. QED  BY <1>2, <1>11

LEMMA JournalsSquare ==
  ASSUME TypeIInv, Facts, JournalsStep
  PROVE  Squared
<1>1. ASSUME NEW d \in Docs, CreateTransaction(d)  PROVE Square(d)
  BY <1>1, DraftsSquare DEF CreateTransaction
<1>2. ASSUME NEW u \in Users, UpdateHeader(u) \/ DeleteLines(u) \/ InsertLines(u)  PROVE Squared
  BY <1>2, UpdateHeaderSquare, LinesSquare DEF Squared
<1>3. ASSUME NEW u \in Users, CommitTransaction(u) \/ CommitDelete(u) \/ CommitMirror(u)  PROVE Squared
  BY <1>3, CommitTransactionSquare, CommitDeleteSquare, CommitMirrorSquare DEF Squared
<1>. QED  BY <1>1, <1>2, <1>3, JournalsReads DEF JournalsStep, Squared


-----------------------------------------------------------------------------
(* Payroll runs, dues, leaves and the provision. *)

LEMMA CommitPayrollRunSquare ==
  ASSUME TypeIInv, Facts, NEW u \in Users, CommitPayrollRun(u)
  PROVE  \E d \in Docs : Square(d)
<1>. PICK d : d = hand[u].doc
  OBVIOUS
<1>. PICK h : h = hand[u]
  OBVIOUS
<1>. PICK n : n = h.seen.qty
  OBVIOUS
<1>1. At(u, "post", {"payroll"}) /\ UNCHANGED <<owed, due, goods>>
  BY DEF CommitPayrollRun
<1>2. /\ d \in Docs /\ row[d] \in Row /\ RowOK(d) /\ PlanOK(h) /\ h.op = "post" /\ h.seen.kind = "payroll"
      /\ h.seen \in Row /\ entries[d] \in Nat /\ reversed[d] \in Nat
  BY <1>1, PlanIs DEF TypeIInv, PapersOK
<1>3. /\ Changes(d, JustStatus) /\ row[d].kind = "payroll"
      /\ row'[d].status = IF row[d].status = "draft" THEN "posted" ELSE row[d].status
  BY CommitPayrollRunDoes
<1>4. /\ disturbed \subseteq disturbed' /\ (row[d] # h.seen => d \in disturbed') /\ h.seen.status = "draft"
  BY <1>2, EndsQuietly DEF CommitPayrollRun, PlanOK, Drafted
<1>5. /\ n \in Int /\ row'[d] \in Row /\ row'[d].kind = row[d].kind /\ row'[d].qty = row[d].qty
  BY <1>2, <1>3, RowColumns DEF Changes, Like, JustStatus
<1>. PICK legs : legs = [wages |-> n]
  OBVIOUS
<1>6. Journal(d, legs)
  BY DEF CommitPayrollRun
<1>7. SameElse(d) /\ reversed'[d] = reversed[d] /\ entries'[d] \in Int
  BY <1>2, <1>6, JournalSame DEF TypeIInv
<1>8. LedgerEntry("payroll", n)
  <2>1. Ledger([wages |-> n])
    BY <1>6 DEF Journal
  <2>. QED  BY <2>1 DEF Ledger, LedgerEntry
<1>9. ASSUME d \notin disturbed'
      PROVE  row'[d].status = "posted" /\ Laid(row'[d], reversed'[d]) = Laid(row[d], reversed[d]) + n
  <2>1. row[d].status = "draft" /\ row[d].qty = n /\ row'[d].status = "posted"
    BY <1>3, <1>4, <1>9
  <2>2. reversed[d] = 0
    BY <1>2, <1>3, <1>4, <1>9, <2>1 DEF RowOK, LedgerRow
  <2>3. Laid(row[d], reversed[d]) = 0
    BY <1>2, <2>1, LaidNothing
  <2>4. Laid(row'[d], 0) = n
    BY <1>5, <2>1, LaidWhole
  <2>. QED  BY <1>5, <1>7, <2>1, <2>2, <2>3, <2>4
<1>10. Rooted(d) => Rooted(d)'
  BY <1>9 DEF Rooted, Stands, Upright
<1>11. Square(d)
  BY <1>1, <1>2, <1>3, <1>4, <1>5, <1>7, <1>8, <1>9, <1>10, EntrySquare DEF Entries, goods
<1>. QED  BY <1>2, <1>11

(* What is owed to an employee who leaves, and what was paid.              *)
Due(r) == On(r, {"approved"}, r.qty)
Paid(r) == On(r, {"paid"}, -r.qty)
LedgerDues(s, c) ==
  \A a \in Accounts : gl'[a] = gl[a] + (CASE a = "severance" -> s [] a = "cash" -> c [] OTHER -> 0)

LEMMA DuesSquare ==
  ASSUME TypeIInv, NEW d \in Docs, NEW cols, Changes(d, cols), SameElse(d), disturbed \subseteq disturbed',
         reversed'[d] = reversed[d], entries'[d] \in Int, row[d].kind = "endOfService", UNCHANGED <<owed, due, stock>>,
         NEW s \in Int, NEW c \in Int, LedgerDues(s, c),
         d \notin disturbed' => Due(row'[d]) = Due(row[d]) + s /\ Paid(row'[d]) = Paid(row[d]) + c
  PROVE  Square(d)
<1>1. row[d] \in Row /\ row'[d] \in Row /\ row'[d].kind = row[d].kind /\ entries[d] \in Int /\ reversed[d] \in Int
  BY DEF Changes, Like, TypeIInv, PapersOK
<1>2. Aside(d)
  BY <1>1, AsideIs
<1>. /\ "debtors" \in Accounts /\ "creditors" \in Accounts /\ "inventory" \in Accounts
     /\ gl["debtors"] \in Int /\ gl["creditors"] \in Int /\ gl["inventory"] \in Int /\ owed \in Int /\ due \in Int
  BY DEF Accounts, TypeIInv, MoneyOK
<1>3. BooksMove(d)
  <2>. SUFFICES ASSUME d \notin disturbed', NEW a \in Told  PROVE gl'[a] = gl[a] + Share(a, d)' - Share(a, d)
    BY DEF BooksMove, ToldMoves
  <2>1. a \in Accounts /\ gl[a] \in Int
    BY DEF Told, TypeIInv, MoneyOK
  <2>2. gl'[a] = gl[a] + (CASE a = "severance" -> s [] a = "cash" -> c [] OTHER -> 0)
    BY <2>1 DEF LedgerDues
  <2>3. /\ Share(a, d) = CASE a = "severance" -> Due(row[d]) [] a = "cash" -> Paid(row[d]) [] OTHER -> 0
        /\ Share(a, d)' = CASE a = "severance" -> Due(row'[d]) [] a = "cash" -> Paid(row'[d]) [] OTHER -> 0
    BY <1>1, ShareIs, DuesPart DEF Due, Paid
  <2>4. Due(row[d]) \in Int /\ Paid(row[d]) \in Int
    BY <1>1, RowColumns DEF Due, Paid, On
  <2>. QED  BY <2>1, <2>2, <2>3, <2>4
<1>4. StockMoves(d)
  <2>1. gl'["inventory"] = gl["inventory"]
    BY DEF LedgerDues
  <2>2. Stocked' = Stocked /\ Stocked \in Int
    BY StockedIs DEF Stocked
  <2>. QED  BY <2>1, <2>2 DEF StockMoves
<1>5. DebtMoves(d) /\ CreditMoves(d)
  <2>1. gl'["debtors"] = gl["debtors"] /\ gl'["creditors"] = gl["creditors"]
    BY DEF LedgerDues
  <2>2. Owes(d) = 0 /\ Owes(d)' = 0
    BY <1>1, OwesIs
  <2>. QED  BY <2>1, <2>2 DEF DebtMoves, CreditMoves
<1>6. Rooted(d)'
  BY <1>1 DEF Rooted, Firm, Invoices, Bills, Slips
<1>. QED  BY <1>2, <1>3, <1>4, <1>5, <1>6 DEF Square

LEMMA DuesCommitsSquare ==
  ASSUME TypeIInv, Facts, NEW u \in Users, CommitApproval(u) \/ CommitSettlement(u)
  PROVE  \E d \in Docs : Square(d)
<1>. PICK d : d = hand[u].doc
  OBVIOUS
<1>. PICK h : h = hand[u]
  OBVIOUS
<1>. PICK n : n = h.seen.qty
  OBVIOUS
<1>1. (At(u, "post", {"endOfService"}) \/ At(u, "complete", {"endOfService"})) /\ UNCHANGED <<owed, due, goods>>
  BY DEF CommitApproval, CommitSettlement
<1>2. /\ d \in Docs /\ row[d] \in Row /\ PlanOK(h) /\ h.seen \in Row /\ row[d].kind = "endOfService"
      /\ h.seen.kind = "endOfService" /\ entries[d] \in Nat /\ reversed[d] \in Nat
  BY <1>1, PlanIs DEF TypeIInv, PapersOK
<1>3. /\ disturbed \subseteq disturbed' /\ (row[d] # h.seen => d \in disturbed')
  BY EndsQuietly DEF CommitApproval, CommitSettlement
<1>4. n \in Int /\ -n \in Int
  BY <1>2, RowColumns
<1>5. CASE CommitApproval(u)
  <2>1. h.op = "post" /\ h.seen.status = "draft"
    BY <1>2, <1>5 DEF CommitApproval, At, PlanOK, Drafted
  <2>2. /\ Changes(d, JustStatus)
        /\ row'[d].status = IF row[d].status = "draft" THEN "approved" ELSE row[d].status
    BY <1>5, CommitApprovalDoes
  <2>. PICK legs : legs = [severance |-> n]
    OBVIOUS
  <2>3. Journal(d, legs)
    BY <1>5 DEF CommitApproval
  <2>4. SameElse(d) /\ reversed'[d] = reversed[d] /\ entries'[d] \in Int
    BY <1>2, <2>3, JournalSame DEF TypeIInv
  <2>5. LedgerDues(n, 0)
    <3>1. Ledger([severance |-> n])
      BY <2>3 DEF Journal
    <3>. QED  BY <3>1 DEF Ledger, LedgerDues
  <2>6. ASSUME d \notin disturbed'  PROVE Due(row'[d]) = Due(row[d]) + n /\ Paid(row'[d]) = Paid(row[d]) + 0
    <3>1. row[d].status = "draft" /\ row[d].qty = n /\ row'[d].status = "approved" /\ row'[d].qty = n
      BY <1>3, <2>1, <2>2, <2>6 DEF Changes, Like, JustStatus
    <3>. QED  BY <1>4, <3>1 DEF Due, Paid, On
  <2>7. 0 \in Int
    OBVIOUS
  <2>8. Square(d)
    BY <1>1, <1>2, <1>3, <1>4, <2>2, <2>4, <2>5, <2>6, <2>7, DuesSquare DEF goods
  <2>. QED  BY <1>2, <2>8
<1>6. CASE CommitSettlement(u)
  <2>1. h.op = "complete" /\ h.seen.status = "approved"
    BY <1>2, <1>6 DEF CommitSettlement, At, PlanOK, Finished
  <2>2. /\ Changes(d, JustStatus)
        /\ row'[d].status = IF row[d].status = "approved" THEN "paid" ELSE row[d].status
    BY <1>6, CommitSettlementDoes
  <2>. PICK legs : legs = [severance |-> -n, cash |-> -n]
    OBVIOUS
  <2>3. Journal(d, legs)
    BY <1>6 DEF CommitSettlement
  <2>4. SameElse(d) /\ reversed'[d] = reversed[d] /\ entries'[d] \in Int
    BY <1>2, <2>3, JournalSame DEF TypeIInv
  <2>5. LedgerDues(-n, -n)
    <3>1. Ledger([severance |-> -n, cash |-> -n])
      BY <2>3 DEF Journal
    <3>. QED  BY <3>1 DEF Ledger, LedgerDues
  <2>6. ASSUME d \notin disturbed'  PROVE Due(row'[d]) = Due(row[d]) + (-n) /\ Paid(row'[d]) = Paid(row[d]) + (-n)
    <3>1. row[d].status = "approved" /\ row[d].qty = n /\ row'[d].status = "paid" /\ row'[d].qty = n
      BY <1>3, <2>1, <2>2, <2>6 DEF Changes, Like, JustStatus
    <3>. QED  BY <1>4, <3>1 DEF Due, Paid, On
  <2>7. Square(d)
    BY <1>1, <1>2, <1>3, <1>4, <2>2, <2>4, <2>5, <2>6, DuesSquare DEF goods
  <2>. QED  BY <1>2, <2>7
<1>. QED  BY <1>5, <1>6

LEMMA PayrollSquare ==
  ASSUME TypeIInv, Facts, PayrollStep
  PROVE  Squared
<1>1. ASSUME NEW d \in Docs, CreatePayrollRun(d) \/ CreateEndOfService(d)  PROVE Square(d)
  BY <1>1, DraftsSquare DEF CreatePayrollRun, CreateEndOfService
<1>2. ASSUME NEW u \in Users, CommitPayrollRun(u) \/ CommitApproval(u) \/ CommitSettlement(u)  PROVE Squared
  BY <1>2, CommitPayrollRunSquare, DuesCommitsSquare DEF Squared
<1>. QED  BY <1>1, <1>2, PayrollReads DEF PayrollStep, Squared

LEMMA InsertLeaveSquare ==
  ASSUME TypeIInv, Facts, NEW u \in Users, InsertLeave(u)
  PROVE  \E d \in Docs : Square(d)
<1>. PICK d : d = hand[u].doc
  OBVIOUS
<1>1. At(u, "new", {"leave"}) /\ UNCHANGED <<entries, booked, reversed, money, goods>>
  BY DEF InsertLeave
<1>2. d \in Docs
  BY <1>1, PlanIs
<1>3. Changes(d, Columns) /\ row[d].kind \in Mute
  BY InsertLeaveDoes DEF Mute
<1>4. disturbed \subseteq disturbed'
  BY EndsQuietly DEF InsertLeave
<1>5. SameElse(d) /\ Unbooks
  BY <1>1, PapersRest DEF Unbooks, money, goods, Stocked
<1>6. Square(d)
  BY <1>1, <1>2, <1>3, <1>4, <1>5, MuteStill
<1>. QED  BY <1>2, <1>6

LEMMA CommitProvisionSquare ==
  ASSUME TypeIInv, Facts, NEW u \in Users, CommitProvision(u)
  PROVE  \E d \in Docs : Square(d)
<1>. PICK d : d = hand[u].doc
  OBVIOUS
<1>. PICK h : h = hand[u]
  OBVIOUS
<1>. PICK n : n = h.want.qty
  OBVIOUS
<1>1. At(u, "new", {"provision"}) /\ UNCHANGED <<owed, due, goods>>
  BY DEF CommitProvision
<1>2. /\ d \in Docs /\ row[d] \in Row /\ RowOK(d) /\ PlanOK(h) /\ h.op = "new" /\ h.seen.kind = "provision"
      /\ entries[d] \in Nat /\ reversed[d] \in Nat /\ Columned(h.want) /\ Equipped("new", "provision", h.want)
  BY <1>1, PlanIs DEF TypeIInv, PapersOK
<1>3. Changes(d, StatusQty) /\ row[d].kind = "provision"
  BY CommitProvisionDoes
<1>4. /\ disturbed \subseteq disturbed' /\ (row[d] # h.seen => d \in disturbed') /\ h.seen.status = "none"
  BY <1>2, EndsQuietly DEF CommitProvision, PlanOK, Renewed
<1>5. n \in Int /\ row'[d] \in Row /\ row'[d].kind = row[d].kind
  BY <1>2, <1>3 DEF Changes, Like, Columned, Equipped
<1>. PICK legs : legs = [leaves |-> n]
  OBVIOUS
<1>6. Journal(d, legs)
  BY DEF CommitProvision
<1>7. SameElse(d) /\ reversed'[d] = reversed[d] /\ entries'[d] \in Int
  BY <1>2, <1>6, JournalSame DEF TypeIInv
<1>8. LedgerEntry("provision", n)
  <2>1. Ledger([leaves |-> n])
    BY <1>6 DEF Journal
  <2>. QED  BY <2>1 DEF Ledger, LedgerEntry
<1>9. ASSUME d \notin disturbed'  PROVE Laid(row'[d], reversed'[d]) = Laid(row[d], reversed[d]) + n
  <2>1. row[d].status = "none"
    BY <1>4, <1>9
  <2>2. row[d].qty = 0 /\ reversed[d] = 0
    BY <1>2, <2>1, UnsettledIs
  <2>3. Laid(row[d], reversed[d]) = 0
    BY <1>2, <2>1, LaidNothing
  <2>4. row'[d].status = "posted" /\ row'[d].qty = n
    <3>. PICK r : r = row[d]
      OBVIOUS
    <3>0. r \in Row /\ row \in [Docs -> Row] /\ DOMAIN r = Columns \cup {"kind"}
      BY <1>2, RowColumns DEF TypeIInv, PapersOK
    <3>1. row' = [row EXCEPT ![d].status = "posted", ![d].qty = @ + n]
      BY DEF CommitProvision
    <3>2. row'[d] = [r EXCEPT !.status = "posted", !.qty = @ + n]
      BY <1>2, <3>0, <3>1
    <3>3. r.qty = 0
      BY <2>2
    <3>. QED  BY <1>5, <3>0, <3>2, <3>3 DEF Columns
  <2>5. Laid(row'[d], 0) = n
    BY <1>5, <2>4, LaidWhole
  <2>. QED  BY <1>5, <1>7, <2>2, <2>3, <2>5
<1>10. Rooted(d)'
  BY <1>3, <1>5, JournalsFree
<1>11. Square(d)
  BY <1>1, <1>2, <1>3, <1>4, <1>5, <1>7, <1>8, <1>9, <1>10, EntrySquare DEF Entries, goods
<1>. QED  BY <1>2, <1>11

LEMMA LeavesSquare ==
  ASSUME TypeIInv, Facts, LeavesStep
  PROVE  Squared
<1>1. ASSUME NEW u \in Users, InsertLeave(u) \/ CommitProvision(u)  PROVE Squared
  BY <1>1, InsertLeaveSquare, CommitProvisionSquare DEF Squared
<1>. QED  BY <1>1, LeavesReads DEF LeavesStep, Squared


-----------------------------------------------------------------------------
(* Fixed assets. *)

Cost(r) == On(r, {"active"}, r.qty)
Worn(r) == On(r, {"active"}, r.paid)
Spent(r) == On(r, Registered, -r.applied)
LedgerAsset(s, w, c, n) ==
  \A a \in Accounts : gl'[a] = gl[a] + (CASE a = "assets" -> s [] a = "accumulated" -> w [] a = "cash" -> c
                                          [] a = "creditors" -> n [] OTHER -> 0)

LEMMA AssetSquare ==
  ASSUME TypeIInv, NEW d \in Docs, NEW cols, Changes(d, cols), SameElse(d), disturbed \subseteq disturbed',
         reversed'[d] \in Int, reversed[d] <= reversed'[d], entries'[d] \in Int, row[d].kind = "asset",
         UNCHANGED <<owed, due, stock>>,
         NEW s \in Int, NEW w \in Int, NEW c \in Int, NEW n \in Int, LedgerAsset(s, w, c, n), Owes(d)' = Owes(d) + n,
         d \notin disturbed' => /\ Cost(row'[d]) = Cost(row[d]) + s /\ Worn(row'[d]) = Worn(row[d]) + w
                                /\ Spent(row'[d]) = Spent(row[d]) + c
  PROVE  Square(d)
<1>1. row[d] \in Row /\ row'[d] \in Row /\ row'[d].kind = row[d].kind /\ entries[d] \in Int /\ reversed[d] \in Int
  BY DEF Changes, Like, TypeIInv, PapersOK
<1>2. Aside(d)
  BY <1>1, AsideIs
<1>. /\ "debtors" \in Accounts /\ "creditors" \in Accounts /\ "inventory" \in Accounts
     /\ gl["debtors"] \in Int /\ gl["creditors"] \in Int /\ gl["inventory"] \in Int /\ owed \in Int /\ due \in Int
  BY DEF Accounts, TypeIInv, MoneyOK
<1>3. BooksMove(d)
  <2>. SUFFICES ASSUME d \notin disturbed', NEW a \in Told  PROVE gl'[a] = gl[a] + Share(a, d)' - Share(a, d)
    BY DEF BooksMove, ToldMoves
  <2>1. a \in Accounts /\ gl[a] \in Int
    BY DEF Told, TypeIInv, MoneyOK
  <2>2. gl'[a] = gl[a] + (CASE a = "assets" -> s [] a = "accumulated" -> w [] a = "cash" -> c
                            [] a = "creditors" -> n [] OTHER -> 0)
    BY <2>1 DEF LedgerAsset
  <2>3. /\ Share(a, d) = CASE a = "assets" -> Cost(row[d]) [] a = "accumulated" -> Worn(row[d])
                           [] a = "cash" -> Spent(row[d]) [] a = "creditors" -> Owes(d) [] OTHER -> 0
        /\ Share(a, d)' = CASE a = "assets" -> Cost(row'[d]) [] a = "accumulated" -> Worn(row'[d])
                            [] a = "cash" -> Spent(row'[d]) [] a = "creditors" -> Owes(d)' [] OTHER -> 0
    <3>1. Owes(d) = On(row[d], Registered, row[d].mark) /\ Owes(d)' = On(row'[d], Registered, row'[d].mark)
      BY <1>1, OwesIs DEF On
    <3>2. /\ Share(a, d) = Part(a, row[d], entries[d], reversed[d])
          /\ Share(a, d)' = Part(a, row'[d], entries'[d], reversed'[d])
      BY ShareIs
    <3>. QED  BY <1>1, <3>1, <3>2, AssetPart DEF Cost, Worn, Spent
  <2>4. Cost(row[d]) \in Int /\ Worn(row[d]) \in Int /\ Spent(row[d]) \in Int /\ Owes(d) \in Int
    BY <1>1, RowColumns, OwesIs DEF Cost, Worn, Spent, On
  <2>. QED  BY <2>1, <2>2, <2>3, <2>4
<1>4. StockMoves(d)
  <2>1. gl'["inventory"] = gl["inventory"]
    BY DEF LedgerAsset
  <2>2. Stocked' = Stocked /\ Stocked \in Int
    BY StockedIs DEF Stocked
  <2>. QED  BY <2>1, <2>2 DEF StockMoves
<1>5. DebtMoves(d) /\ CreditMoves(d)
  <2>1. gl'["debtors"] = gl["debtors"] /\ gl'["creditors"] = gl["creditors"] + n
    BY DEF LedgerAsset
  <2>2. Owes(d) \in Int
    BY <1>1, OwesIs, RowColumns
  <2>. QED  BY <2>1, <2>2 DEF DebtMoves, CreditMoves
<1>6. Rooted(d)'
  BY <1>1 DEF Rooted, Firm, Invoices, Bills, Slips
<1>. QED  BY <1>2, <1>3, <1>4, <1>5, <1>6 DEF Square


LEMMA CommitAssetSquare ==
  ASSUME TypeIInv, Facts, NEW u \in Users, CommitAsset(u)
  PROVE  \E d \in Docs : Square(d)
<1>. PICK d : d = hand[u].doc
  OBVIOUS
<1>. PICK h : h = hand[u]
  OBVIOUS
<1>. PICK t : t = h.want
  OBVIOUS
<1>1. /\ At(u, "new", {"asset"}) /\ UNCHANGED <<booked, reversed, owed, due, goods>>
      /\ entries' = [entries EXCEPT ![d] = @ + 1]
  BY DEF CommitAsset
<1>2. /\ d \in Docs /\ row[d] \in Row /\ RowOK(d) /\ PlanOK(h) /\ h.op = "new" /\ h.seen.kind = "asset"
      /\ entries \in [Docs -> Nat] /\ reversed \in [Docs -> Nat] /\ Columned(t)
  BY <1>1, PlanIs DEF TypeIInv, PapersOK
<1>3. /\ Changes(d, Columns) /\ row[d].kind = "asset" /\ row[d].status = "none" /\ Wrote(row'[d], row[d], t)
  BY CommitAssetDoes
<1>4. /\ DOMAIN t = {"status", "qty", "actual", "applied", "mark"} /\ t.status = "active"
  BY <1>2 DEF PlanOK, Renewed
<1>5. t.qty \in Int /\ t.applied \in Int /\ t.mark \in Int /\ -t.applied \in Int /\ 0 \in Int
  BY <1>2, <1>4 DEF Columned
<1>6. disturbed \subseteq disturbed'
  BY EndsQuietly DEF CommitAsset
<1>7. row[d].paid = 0
  BY <1>2, <1>3, UnsettledIs
<1>8. /\ row'[d] \in Row /\ row'[d].kind = "asset" /\ row'[d].status = "active" /\ row'[d].qty = t.qty
      /\ row'[d].applied = t.applied /\ row'[d].mark = t.mark /\ row'[d].paid = 0
  <2>1. row'[d] \in Row /\ row'[d].kind = "asset"
    BY <1>3 DEF Changes, Like
  <2>2. row'[d].status = t.status
    <3>1. Updates(d, t)
      BY DEF CommitAsset, Updates
    <3>. QED  BY <1>2, <1>4, <3>1, UpdatesDoes DEF TypeIInv, PapersOK
  <2>. QED  BY <1>3, <1>4, <1>7, <2>1, <2>2 DEF Wrote
<1>9. LedgerAsset(t.qty, 0, -t.applied, t.mark)
  <2>1. Ledger([assets |-> t.qty, cash |-> -t.applied, creditors |-> t.mark])
    BY DEF CommitAsset
  <2>. QED  BY <2>1 DEF Ledger, LedgerAsset
<1>10. Owes(d) = 0 /\ Owes(d)' = t.mark
  BY <1>2, <1>3, <1>8, OwesIs DEF Registered
<1>11. /\ Cost(row'[d]) = Cost(row[d]) + t.qty /\ Worn(row'[d]) = Worn(row[d]) + 0
       /\ Spent(row'[d]) = Spent(row[d]) + (-t.applied)
  BY <1>3, <1>5, <1>8 DEF Cost, Worn, Spent, On, Registered
<1>12. SameElse(d) /\ entries'[d] \in Int /\ reversed'[d] \in Int /\ reversed[d] <= reversed'[d]
  BY <1>1, <1>2 DEF SameElse
<1>13. Owes(d)' = Owes(d) + t.mark
  BY <1>5, <1>10
<1>14. Square(d)
  BY <1>1, <1>2, <1>3, <1>5, <1>6, <1>9, <1>11, <1>12, <1>13, AssetSquare DEF goods
<1>. QED  BY <1>2, <1>14

LEMMA CommitDepreciationSquare ==
  ASSUME TypeIInv, Facts, NEW u \in Users, CommitDepreciation(u)
  PROVE  \E d \in Docs : Square(d)
<1>. PICK d : d = hand[u].doc
  OBVIOUS
<1>. PICK h : h = hand[u]
  OBVIOUS
<1>. PICK n : n = h.want.paid
  OBVIOUS
<1>1. /\ At(u, "charge", {"asset"}) /\ UNCHANGED <<reversed, owed, due, goods>>
      /\ entries' = [entries EXCEPT ![d] = @ + 1]
  BY DEF CommitDepreciation
<1>2. /\ d \in Docs /\ row[d] \in Row /\ PlanOK(h) /\ h.op = "charge" /\ h.seen.status = "active"
      /\ entries \in [Docs -> Nat] /\ reversed \in [Docs -> Nat] /\ booked \in [Docs -> Int]
  BY <1>1, PlanIs DEF TypeIInv, PapersOK, PlanOK, Finished
<1>3. /\ Changes(d, JustPaid) /\ row[d].kind = "asset" /\ n \in Int
      /\ row'[d].paid = IF row[d].status = "active" THEN row[d].paid + n ELSE row[d].paid
  BY CommitDepreciationDoes
<1>4. disturbed \subseteq disturbed' /\ (row[d] # h.seen => d \in disturbed')
  BY EndsQuietly DEF CommitDepreciation
<1>5. /\ row'[d] \in Row /\ row'[d].kind = "asset" /\ row'[d].status = row[d].status /\ row'[d].qty = row[d].qty
      /\ row'[d].applied = row[d].applied /\ row'[d].mark = row[d].mark
  BY <1>3 DEF Changes, Like, JustPaid
<1>6. LedgerAsset(0, n, 0, 0)
  <2>1. Ledger([accumulated |-> n])
    BY DEF CommitDepreciation
  <2>. QED  BY <2>1 DEF Ledger, LedgerAsset
<1>7. Owes(d)' = Owes(d) + 0
  BY <1>2, <1>3, <1>5, OwesIs, RowColumns
<1>8. ASSUME d \notin disturbed'
      PROVE  /\ Cost(row'[d]) = Cost(row[d]) + 0 /\ Worn(row'[d]) = Worn(row[d]) + n
             /\ Spent(row'[d]) = Spent(row[d]) + 0
  <2>1. row[d].status = "active"
    BY <1>2, <1>4, <1>8
  <2>2. row[d].qty \in Int /\ row[d].applied \in Int /\ row[d].paid \in Int
    BY <1>2, RowColumns
  <2>. QED  BY <1>3, <1>5, <2>1, <2>2 DEF Cost, Worn, Spent, On, Registered
<1>9. SameElse(d) /\ entries'[d] \in Int /\ reversed'[d] \in Int /\ reversed[d] <= reversed'[d]
  BY <1>1, <1>2 DEF SameElse, CommitDepreciation
<1>10. 0 \in Int
  OBVIOUS
<1>11. Square(d)
  BY <1>1, <1>2, <1>3, <1>4, <1>6, <1>7, <1>8, <1>9, <1>10, AssetSquare DEF goods
<1>. QED  BY <1>2, <1>11

LEMMA CommitDisposalSquare ==
  ASSUME TypeIInv, Facts, NEW u \in Users, CommitDisposal(u)
  PROVE  \E d \in Docs : Square(d)
<1>. PICK d : d = hand[u].doc
  OBVIOUS
<1>. PICK h : h = hand[u]
  OBVIOUS
<1>. PICK t : t = h.want
  OBVIOUS
<1>. PICK q : q = h.seen.qty
  OBVIOUS
<1>. PICK p : p = h.seen.paid
  OBVIOUS
<1>. PICK c : c = h.seen.applied - t.applied
  OBVIOUS
<1>1. /\ At(u, "dispose", {"asset"}) /\ UNCHANGED <<entries, booked, owed, due, goods>>
      /\ reversed' = [reversed EXCEPT ![d] = @ + 1]
  BY DEF CommitDisposal
<1>2. /\ d \in Docs /\ row[d] \in Row /\ PlanOK(h) /\ h.op = "dispose" /\ h.seen \in Row /\ Columned(t)
      /\ entries \in [Docs -> Nat] /\ reversed \in [Docs -> Nat] /\ row \in [Docs -> Row]
  BY <1>1, PlanIs DEF TypeIInv, PapersOK
<1>3. h.seen.status = "active" /\ t.status = "disposed" /\ DOMAIN t = {"status", "applied"}
  BY <1>2 DEF PlanOK, Finished
<1>4. q \in Int /\ p \in Int /\ c \in Int /\ -q \in Int /\ -p \in Int /\ t.applied \in Int /\ h.seen.applied \in Int
  BY <1>2, <1>3, RowColumns DEF Columned
<1>5. /\ Changes(d, Columns) /\ row[d].kind = "asset"
      /\ row[d].status = "active" => Wrote(row'[d], row[d], t)
      /\ row[d].status # "active" => row' = row
  BY CommitDisposalDoes
<1>6. disturbed \subseteq disturbed' /\ (row[d] # h.seen => d \in disturbed')
  BY EndsQuietly DEF CommitDisposal
<1>7. row'[d] \in Row /\ row'[d].kind = "asset"
  BY <1>5 DEF Changes, Like
<1>8. ASSUME row[d].status = "active"
      PROVE  row'[d].status = "disposed" /\ row'[d].mark = row[d].mark /\ row'[d].applied = t.applied
  <2>1. Updates(d, t)
    BY <1>8 DEF CommitDisposal, Updates
  <2>2. row'[d].status = t.status
    BY <1>2, <1>3, <2>1, UpdatesDoes
  <2>. QED  BY <1>3, <1>5, <1>8, <2>2 DEF Wrote
<1>9. LedgerAsset(-q, -p, c, 0)
  <2>1. Ledger([assets |-> -q, accumulated |-> -p, cash |-> c])
    BY DEF CommitDisposal
  <2>. QED  BY <2>1 DEF Ledger, LedgerAsset
<1>10. Owes(d)' = Owes(d) + 0
  <2>1. CASE row[d].status = "active"
    BY <1>2, <1>5, <1>7, <1>8, <2>1, OwesIs, RowColumns DEF Registered
  <2>2. CASE row[d].status # "active"
    BY <1>2, <1>5, <2>2, OwesIs, RowColumns
  <2>. QED  BY <2>1, <2>2
<1>11. ASSUME d \notin disturbed'
       PROVE  /\ Cost(row'[d]) = Cost(row[d]) + (-q) /\ Worn(row'[d]) = Worn(row[d]) + (-p)
              /\ Spent(row'[d]) = Spent(row[d]) + c
  <2>1. row[d].status = "active" /\ row[d].qty = q /\ row[d].paid = p /\ row[d].applied = h.seen.applied
    BY <1>3, <1>6, <1>11
  <2>2. row'[d].status = "disposed" /\ row'[d].applied = t.applied
    BY <1>8, <2>1
  <2>3. Cost(row[d]) = q /\ Worn(row[d]) = p /\ Spent(row[d]) = -h.seen.applied
    BY <2>1 DEF Cost, Worn, Spent, On, Registered
  <2>4. Cost(row'[d]) = 0 /\ Worn(row'[d]) = 0 /\ Spent(row'[d]) = -t.applied
    BY <2>2 DEF Cost, Worn, Spent, On, Registered
  <2>. QED  BY <1>4, <2>3, <2>4
<1>12. SameElse(d) /\ entries'[d] \in Int /\ reversed'[d] \in Int /\ reversed[d] <= reversed'[d]
  BY <1>1, <1>2 DEF SameElse
<1>13. 0 \in Int
  OBVIOUS
<1>14. Square(d)
  BY <1>1, <1>2, <1>4, <1>5, <1>6, <1>9, <1>10, <1>11, <1>12, <1>13, AssetSquare DEF goods
<1>. QED  BY <1>2, <1>14

LEMMA AssetsSquare ==
  ASSUME TypeIInv, Facts, AssetsStep
  PROVE  Squared
<1>1. ASSUME NEW u \in Users, CommitAsset(u) \/ CommitDepreciation(u) \/ CommitDisposal(u)  PROVE Squared
  BY <1>1, CommitAssetSquare, CommitDepreciationSquare, CommitDisposalSquare DEF Squared
<1>. QED  BY <1>1, AssetsReads DEF AssetsStep, Squared


-----------------------------------------------------------------------------
(* The plain write. *)

(* A write that the history does not mark leaves alone what has an effect  *)
(* on the books, but for the consumptions of an order and the life of an   *)
(* asset.                                                                  *)
LEMMA WriteIsLight ==
  ASSUME NEW h, NEW w, h.want = w, Meant(h), h.op = "write", NEW d \in Docs, RowOK(d), h.seen = row[d], row[d] \in Row,
         Columned(w), Odd(d, h.seen, w) = {}, row[d].kind \notin Mute
  PROVE  \/ /\ DOMAIN w = {"actual"}
            /\ row[d].kind = "asset" \/ (row[d].status = "in_progress" /\ row[d].kind = "workOrder")
         \/ /\ row[d].status \notin Standing /\ (row[d].kind = "asset" => row[d].status # "disposed")
            /\ "status" \in DOMAIN w => w.status \notin Standing \cup {"disposed"}
            /\ ~Upright(row[d])
<1>. PICK r : r = row[d]
  OBVIOUS
<1>1. r.kind # "leave"
  BY DEF Mute
<1>2. CASE r.status \in Standing
  <2>1. Unguarded(r.kind, w) \/ (r.kind = "asset" /\ DOMAIN w = {"actual"})
    BY <1>1, <1>2 DEF Meant
  <2>2. Unguarded(r.kind, w) => r.status = "in_progress" /\ DOMAIN w = {"actual"}
    <3>1. d \in {d} /\ d \notin Odd(d, r, w)
      OBVIOUS
    <3>. QED  BY <1>2, <3>1 DEF Odd
  <2>3. Unguarded(r.kind, w) /\ DOMAIN w = {"actual"} => r.kind = "workOrder"
    BY DEF Unguarded, Mute
  <2>. QED  BY <2>1, <2>2, <2>3
<1>3. CASE r.status \notin Standing
  <2>1. r.kind = "asset" => r.status # "disposed"
    BY DEF Meant
  <2>2. "status" \in DOMAIN w => w.status \notin Standing \cup {"disposed"}
    BY <1>1 DEF Meant
  <2>3. ~Upright(r)
    BY <1>3 DEF Upright, Stands, Standing, Meant
  <2>. QED  BY <1>3, <2>1, <2>2, <2>3
<1>. QED  BY <1>2, <1>3

LEMMA WriteSquare ==
  ASSUME TypeIInv, Facts, NEW u \in Users, Write(u)
  PROVE  \E d \in Docs : Square(d)
<1>. PICK d : d = hand[u].doc
  OBVIOUS
<1>. PICK h : h = hand[u]
  OBVIOUS
<1>. PICK w : w = h.want
  OBVIOUS
<1>1. At(u, "write", Kinds) /\ UNCHANGED <<entries, booked, reversed, money, goods>>
  BY DEF Write, At, TypeIInv, HandsOK, PlanOf, Row
<1>2. /\ d \in Docs /\ RowOK(d) /\ row[d] \in Row /\ row[d].kind = h.seen.kind /\ h.seen \in Row
      /\ Columned(w) /\ Meant(h) /\ h.op = "write" /\ row \in [Docs -> Row]
      /\ entries[d] \in Int /\ reversed[d] \in Int
  BY <1>1, PlanIs DEF PlanOK, TypeIInv, PapersOK
<1>3. EndsWith(u, Odd(d, h.seen, w))
  BY DEF Write, Odd
<1>4. /\ disturbed \subseteq disturbed'
      /\ Odd(d, h.seen, w) \subseteq disturbed' /\ (row[d] # h.seen => d \in disturbed')
  BY <1>3, EndsMarks
<1>5. SameElse(d) /\ Unbooks
  BY <1>1, PapersRest DEF Unbooks, money, goods, Stocked
<1>6. CASE ~Exists(d)
  <2>1. row' = row
    BY <1>6 DEF Write
  <2>2. Changes(d, Columns)
    BY <1>2, <2>1, StaysDoes
  <2>3. Square(d)
    BY <1>1, <1>2, <1>4, <1>5, <2>1, <2>2, SameStill
  <2>. QED  BY <1>2, <2>3
<1>7. CASE Exists(d)
  <2>1. Updates(d, w)
    BY <1>7 DEF Write, Updates
  <2>2. /\ Changes(d, Columns) /\ Wrote(row'[d], row[d], w)
        /\ row'[d].status = IF "status" \in DOMAIN w THEN w.status ELSE row[d].status
    BY <1>2, <2>1, UpdatesDoes
  <2>3. /\ row'[d] \in Row /\ row'[d].kind = row[d].kind /\ row[d].kind \notin {"shift", "ticket", "journal", "provision"}
        /\ row'[d].mark = row[d].mark /\ row'[d].paid = row[d].paid
    BY <1>2, <2>2 DEF Changes, Like, Meant, Wrote
  <2>4. CASE row[d].kind \in Mute
    <3>1. Square(d)
      BY <1>1, <1>2, <1>4, <1>5, <2>2, <2>4, MuteStill
    <3>. QED  BY <1>2, <3>1
  <2>5. CASE row[d].kind \notin Mute
    <3>1. Aside(d)
      BY <1>1, <1>2, <1>4, <1>5, <2>2, AsideIs
    <3>2. ASSUME d \notin disturbed'
          PROVE  /\ \A a \in Told : Share(a, d)' = Share(a, d)
                 /\ Upright(row[d]) => row[d].kind \notin Firm
      <4>1. row[d] = h.seen /\ Odd(d, h.seen, w) = {}
        BY <1>4, <3>2 DEF Odd
      <4>2. CASE /\ DOMAIN w = {"actual"}
                 /\ row[d].kind = "asset" \/ (row[d].status = "in_progress" /\ row[d].kind = "workOrder")
        <5>1. Like(row'[d], row[d], {"actual"})
          BY <2>2, <2>3, <4>2 DEF Like, Wrote
        <5>2. ASSUME NEW a \in Told  PROVE Share(a, d)' = Share(a, d)
          <6>1. Part(a, row'[d], entries[d], reversed[d]) = Part(a, row[d], entries[d], reversed[d])
            BY <1>2, <2>3, <4>2, <5>1, ActualAside DEF Like
          <6>. QED  BY <1>1, <1>2, <6>1, ShareIs
        <5>3. row[d].kind \notin Firm
          BY <4>2 DEF Firm, Invoices, Bills, Slips
        <5>. QED  BY <5>2, <5>3
      <4>3. CASE /\ row[d].status \notin Standing /\ (row[d].kind = "asset" => row[d].status # "disposed")
                 /\ "status" \in DOMAIN w => w.status \notin Standing \cup {"disposed"}
                 /\ ~Upright(row[d])
        <5>1. row'[d].status \notin Standing /\ (row[d].kind = "asset" => row'[d].status # "disposed")
          BY <2>2, <4>3
        <5>2. ASSUME NEW a \in Told  PROVE Share(a, d)' = Share(a, d)
          <6>1. Part(a, row[d], entries[d], reversed[d]) = 0
            BY <1>2, <2>3, <4>3, NoPart
          <6>2. Part(a, row'[d], entries[d], reversed[d]) = 0
            BY <1>2, <2>3, <5>1, NoPart
          <6>. QED  BY <1>1, <1>2, <6>1, <6>2, ShareIs
        <5>. QED  BY <4>3, <5>2
      <4>. QED  BY <1>2, <2>5, <4>1, <4>2, <4>3, WriteIsLight
    <3>3. Owes(d)' = Owes(d) \/ (d \in disturbed' /\ row[d].kind = "asset")
      <4>1. CASE row[d].kind # "asset"
        BY <1>2, <2>3, <4>1, OwesIs
      <4>2. CASE row[d].kind = "asset" /\ d \notin disturbed'
        <5>1. "creditors" \in Told
          BY DEF Told, Accounts
        <5>2. Share("creditors", d)' = Share("creditors", d)
          BY <3>2, <4>2, <5>1
        <5>3. /\ Share("creditors", d) = On(row[d], Registered, row[d].mark)
              /\ Share("creditors", d)' = On(row'[d], Registered, row'[d].mark)
          BY <1>1, <1>2, <2>3, <4>2, <5>1, ShareIs, AssetPart
        <5>. QED  BY <1>2, <2>3, <4>2, <5>2, <5>3, OwesIs DEF On
      <4>. QED  BY <4>1, <4>2
    <3>4. Rooted(d) => Rooted(d)'
      BY <1>1, <1>4, <2>3, <3>2 DEF Rooted
    <3>5. Square(d)
      BY <1>2, <1>5, <3>1, <3>2, <3>3, <3>4, StillSquare
    <3>. QED  BY <1>2, <3>5
  <2>. QED  BY <2>4, <2>5
<1>. QED  BY <1>6, <1>7


-----------------------------------------------------------------------------
(* The books as a whole: true at the beginning, kept by a step that squares *)
(* its document and by one that writes no book.                            *)
BooksIInv == LedgerMatchesDocuments /\ InventoryControl /\ PartiesAgree /\ AllRooted

LEMMA SquaredStep ==
  ASSUME TypeIInv, Facts, [Next]_books
  PROVE  Squared
<1>1. CASE UNCHANGED books
  BY <1>1 DEF Squared, Quiet, books, work
<1>2. CASE BooksStep
  BY <1>2, WriteSquare, FailsType DEF BooksStep, Squared
<1>3. CASE SalesStep \/ PurchasesStep \/ VouchersStep
  BY <1>3, SalesSquare, PurchasesSquare, VouchersSquare
<1>4. CASE InventoryStep \/ ManufacturingStep \/ TillStep
  BY <1>4, InventorySquare, ManufacturingSquare, TillSquare
<1>5. CASE ConversionStep \/ PeriodsStep \/ JournalsStep
  BY <1>5, ConversionSquare, PeriodsSquare, JournalsSquare
<1>6. CASE PayrollStep \/ LeavesStep \/ AssetsStep
  BY <1>6, PayrollSquare, LeavesSquare, AssetsSquare
<1>. QED  BY <1>1, <1>2, <1>3, <1>4, <1>5, <1>6 DEF Next


LEMMA QuietKeeps ==
  ASSUME Quiet, \A a \in Told, d \in Docs : Share(a, d)' = Share(a, d), \A d \in Docs : Owes(d)' = Owes(d), BooksIInv
  PROVE  BooksIInv'
<1>1. UNCHANGED <<row, entries, booked, reversed, gl, owed, due, stock, disturbed>>
  BY DEF Quiet, papers, money, goods
<1>2. LedgerMatchesDocuments'
  <2>. SUFFICES ASSUME disturbed' = {}, NEW a \in Told
                PROVE  gl'[a] = Opening(a) + Total([x \in Docs |-> Share(a, x)'])
    BY DEF LedgerMatchesDocuments, Told
  <2>1. gl[a] = Opening(a) + Total([x \in Docs |-> Share(a, x)])
    BY <1>1 DEF BooksIInv, LedgerMatchesDocuments, Told
  <2>2. [x \in Docs |-> Share(a, x)'] = [x \in Docs |-> Share(a, x)]
    OBVIOUS
  <2>. QED  BY <1>1, <2>1, <2>2
<1>3. InventoryControl'
  BY <1>1 DEF BooksIInv, InventoryControl
<1>4. PartiesAgree'
  <2>1. [x \in Docs |-> Owes(x)'] = [x \in Docs |-> Owes(x)]
    OBVIOUS
  <2>. QED  BY <1>1, <2>1 DEF BooksIInv, PartiesAgree
<1>5. AllRooted'
  BY <1>1 DEF BooksIInv, AllRooted, Rooted, Upright
<1>. QED  BY <1>2, <1>3, <1>4, <1>5 DEF BooksIInv

LEMMA BooksKept ==
  ASSUME TypeIInv, Facts, BooksIInv, [Next]_books
  PROVE  BooksIInv'
<1>1. TypeIInv'
  BY TypeStep
<1>2. CASE \E d \in Docs : Square(d)
  BY <1>1, <1>2, SquareKeepsLedger, SquareKeepsStock, SquareKeepsParties, SquareKeepsRoots DEF BooksIInv
<1>3. CASE Quiet
  <2>1. \A d \in Docs : Spared(d)
    <3>. SUFFICES ASSUME NEW d \in Docs  PROVE Spared(d)
      OBVIOUS
    <3>. QED  BY <1>3, SparedIs DEF Quiet, papers
  <2>2. \A d \in Docs : Owes(d)' = Owes(d)
    BY <2>1 DEF Spared
  <2>3. \A a \in Told, d \in Docs : Share(a, d)' = Share(a, d)
    BY <1>3, ShareIs DEF Quiet, papers
  <2>. QED  BY <1>3, <2>2, <2>3, QuietKeeps
<1>. QED  BY <1>2, <1>3, SquaredStep DEF Squared

(* At the beginning no document has booked anything.                       *)
LEMMA InitBooks == Init => BooksIInv
<1>. SUFFICES ASSUME Init  PROVE BooksIInv
  OBVIOUS
<1>1. TypeIInv /\ Facts
  BY InitType, InitFacts
<1>2. /\ entries = [d \in Docs |-> 0] /\ reversed = [d \in Docs |-> 0]
      /\ gl = [a \in Accounts |-> Opening(a)] /\ owed = 0 /\ due = 0 /\ disturbed = {}
      /\ stock = [p \in Products |-> [w \in Warehouses |-> IF p = "made" THEN 0 ELSE IF w = Main THEN 2 ELSE 1]]
  BY DEF Init, BooksInit
<1>3. \A d \in Docs : row[d].status = "none" \/ row[d].kind = "year"
  BY DEF Init, BooksInit, Blank
<1>4. ASSUME NEW a \in Told, NEW d \in Docs  PROVE Share(a, d) = 0
  <2>1. row[d] \in Row /\ entries[d] = 0 /\ reversed[d] = 0
    BY <1>1, <1>2 DEF TypeIInv, PapersOK
  <2>2. CASE row[d].kind = "shift"
    <3>1. 0 = 0 * (row[d].actual - row[d].mark)
      BY <2>1, RowColumns
    <3>. QED  BY <2>1, <2>2, <3>1, ShareIs, ShiftPart
  <2>3. CASE row[d].kind # "shift"
    <3>1. row[d].kind \in Mute \/ (row[d].status \notin Standing /\ (row[d].kind = "asset" => row[d].status # "disposed"))
      BY <1>3 DEF Mute, Standing
    <3>2. Part(a, row[d], 0, 0) = 0
      BY <2>1, <2>3, <3>1, NoPart
    <3>. QED  BY <2>1, <3>2, ShareIs
  <2>. QED  BY <2>2, <2>3
<1>. IsFiniteSet(Docs) /\ OpeningCash \in Int
  BY BooksAssumption DEF BooksAssumption
<1>5. LedgerMatchesDocuments
  <2>. SUFFICES ASSUME NEW a \in Told  PROVE gl[a] = Opening(a) + Total([x \in Docs |-> Share(a, x)])
    BY DEF LedgerMatchesDocuments, Told
  <2>. PICK f : f = [x \in Docs |-> Share(a, x)]
    OBVIOUS
  <2>1. f \in [Docs -> Int] /\ \A x \in Docs : f[x] = 0
    BY <1>4
  <2>2. Total(f) = 0
    BY <2>1, TotalZero
  <2>3. gl[a] = Opening(a) /\ Opening(a) \in Int
    BY <1>2 DEF Told, Opening
  <2>. QED  BY <2>2, <2>3
<1>6. InventoryControl
  <2>1. Total(stock["raw"]) = Stocked
    BY <1>1, StockedIs
  <2>2. Stocked = 3
    BY <1>2, BooksAssumption DEF Stocked, Products, Warehouses, BooksAssumption
  <2>3. gl["inventory"] = 3
    BY <1>2 DEF Accounts, Opening
  <2>. QED  BY <2>1, <2>2, <2>3 DEF InventoryControl
<1>7. PartiesAgree
  <2>. PICK f : f = [x \in Docs |-> Owes(x)]
    OBVIOUS
  <2>1. f \in [Docs -> Int] /\ \A x \in Docs : f[x] = 0
    BY <1>3, OwesIs DEF Registered
  <2>2. Total(f) = 0
    BY <2>1, TotalZero
  <2>3. gl["debtors"] = 0 /\ gl["creditors"] = 0
    BY <1>2 DEF Accounts, Opening
  <2>. QED  BY <1>2, <2>2, <2>3 DEF PartiesAgree
<1>8. AllRooted
  BY <1>2 DEF AllRooted, Rooted
<1>. QED  BY <1>5, <1>6, <1>7, <1>8 DEF BooksIInv

LEMMA RootsHold == AllRooted => NoOrphanEntry
BY DEF AllRooted, Rooted, Upright, Stands, Firm, NoOrphanEntry

LEMMA BooksInvariant == Spec => []BooksIInv
<1>. DEFINE Inv == TypeIInv /\ Facts /\ BooksIInv
<1>1. Init => Inv
  BY InitType, InitFacts, InitBooks
<1>2. Inv /\ [Next]_books => Inv'
  BY TypeStep, FactsStep, BooksKept
<1>3. Inv => BooksIInv
  OBVIOUS
<1>. QED  BY <1>1, <1>2, <1>3, PTL DEF Spec

(* Whatever any number of sessions do to each other, in whatever order     *)
(* their reads and their transactions fall and whatever fails: as long as  *)
(* no document was changed between the reads of its posting and the        *)
(* transaction, every account holds its opening balance and what the       *)
(* documents, in the status they have, say it holds (reversal.ts and the   *)
(* posting functions of the modules' api.ts).                              *)
THEOREM LedgerIsTheDocuments == Spec => []LedgerMatchesDocuments
<1>1. BooksIInv => LedgerMatchesDocuments
  BY DEF BooksIInv
<1>. QED  BY <1>1, BooksInvariant, PTL

(* Under the same condition the inventory account is the stock of both     *)
(* warehouses at cost, though a sale takes it from the one and a return or *)
(* a production puts it into the other.                                    *)
THEOREM InventoryIsControlled == Spec => []InventoryControl
<1>1. BooksIInv => InventoryControl
  BY DEF BooksIInv
<1>. QED  BY <1>1, BooksInvariant, PTL

(* The balance on the customer is the debtors account and the one on the   *)
(* supplier the creditors account less the assets bought on account, in    *)
(* every race: what may set them apart is a document of that party in the  *)
(* history, or a payment that was reversed.                                *)
THEOREM PartyBalancesAgree == Spec => []PartiesAgree
<1>1. BooksIInv => PartiesAgree
  BY DEF BooksIInv
<1>. QED  BY <1>1, BooksInvariant, PTL

(* An invoice, a return, a voucher or a payroll run that has an entry in   *)
(* the journal is neither deleted nor a draft again, unless it was changed *)
(* under its posting.                                                      *)
THEOREM EntriesKeepTheirDocuments == Spec => []NoOrphanEntry
<1>1. BooksIInv => NoOrphanEntry
  BY RootsHold DEF BooksIInv
<1>. QED  BY <1>1, BooksInvariant, PTL
=============================================================================
