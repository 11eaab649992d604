------------------------------ MODULE TradeProofs ------------------------------
(***************************************************************************)
(* For any number of documents and sessions: sums over documents, types,   *)
(* what rows and plans say, shifts and offers.                             *)
(***************************************************************************)
EXTENDS Trade, TLAPS, FiniteSetTheorems, WellFoundedInduction


-----------------------------------------------------------------------------
(* Sums. *)

Pick(s) == CHOOSE x \in s : TRUE

(* it is the running sum of f over the subsets of S. *)
Runs(f, S, it) ==
  it = [s \in SUBSET S |-> IF s = {} THEN 0 ELSE f[Pick(s)] + it[s \ {Pick(s)}]]

LEMMA TotalRuns == ASSUME NEW f, \E it : Runs(f, DOMAIN f, it)
  PROVE \E it : Runs(f, DOMAIN f, it) /\ Total(f) = it[DOMAIN f]
<1> DEFINE It == CHOOSE it : it = [s \in SUBSET DOMAIN f |-> IF s = {} THEN 0 ELSE f[Pick(s)] + it[s \ {Pick(s)}]]
<1>1. Total(f) = It[DOMAIN f]
  BY Zenon DEF Total, MapThenSumSet, MapThenFoldSet, Pick
<1>2. Runs(f, DOMAIN f, It)
  BY Zenon DEF Runs
<1> QED
  BY <1>1, <1>2

LEMMA LeastNat ==
  ASSUME NEW S \in SUBSET Nat, S # {}
  PROVE  \E n \in S : \A m \in S : n <= m
<1>1. PICK n \in S : \A m \in S : <<m, n>> \notin OpToRel(<, Nat)
  BY NatLessThanWellFounded, WFMin
<1>2. \A m \in S : m \in Nat /\ ~(m < n)
  BY <1>1 DEF OpToRel
<1>3. \A m \in S : n <= m
  BY <1>2
<1> QED
  BY <1>3

LEMMA PickIn == ASSUME NEW s, s # {} PROVE Pick(s) \in s
  BY Zenon DEF Pick

(* On the subsets with at most n members there is a running sum. *)
Partly(f, S, n, h) ==
  h = [s \in {t \in SUBSET S : Cardinality(t) <= n} |->
         IF s = {} THEN 0 ELSE f[Pick(s)] + h[s \ {Pick(s)}]]

LEMMA PartlyExists ==
  ASSUME NEW S, IsFiniteSet(S), NEW f, NEW n \in Nat
  PROVE  \E h : Partly(f, S, n, h)
<1> DEFINE B == {m \in Nat : ~ \E h : Partly(f, S, m, h)}
           Small(m) == {t \in SUBSET S : Cardinality(t) <= m}
<1>1. SUFFICES ASSUME B # {} PROVE FALSE
  OBVIOUS
<1>2. PICK m \in B : \A k \in B : m <= k
  BY <1>1, LeastNat
<1>3. \A t \in SUBSET S : IsFiniteSet(t) /\ Cardinality(t) \in Nat
  BY FS_Subset, FS_CardinalityType
<1>4. \A t \in SUBSET S : t # {} => /\ Pick(t) \in t
                                    /\ Cardinality(t \ {Pick(t)}) = Cardinality(t) - 1
  BY <1>3, PickIn, FS_RemoveElement
<1>5. CASE m = 0
  <2>1. \A t \in Small(0) : t = {}
    BY <1>3, FS_EmptySet
  <2> DEFINE h == [s \in Small(0) |-> 0]
  <2>2. Partly(f, S, 0, h)
    BY <2>1 DEF Partly
  <2> QED
    BY <2>2, <1>5
<1>6. CASE m # 0
  <2>1. m \in Nat /\ m - 1 \in Nat /\ m - 1 \notin B
    BY <1>2, <1>6
  <2>2. PICK g : Partly(f, S, m - 1, g)
    BY <2>1
  <2> DEFINE h == [s \in Small(m) |-> IF s = {} THEN 0 ELSE f[Pick(s)] + g[s \ {Pick(s)}]]
  <2>3. ASSUME NEW s \in Small(m), s # {}
        PROVE  h[s \ {Pick(s)}] = g[s \ {Pick(s)}]
    <3> DEFINE r == s \ {Pick(s)}
    <3>1. r \in Small(m - 1) /\ r \in Small(m)
      BY <1>3, <1>4, <2>1, <2>3
    <3> HIDE DEF r
    <3>2. g[r] = IF r = {} THEN 0 ELSE f[Pick(r)] + g[r \ {Pick(r)}]
      BY <2>2, <3>1 DEF Partly
    <3>3. h[r] = g[r]
      BY <3>1, <3>2
    <3> QED
      BY <3>3 DEF r
  <2> DEFINE h2 == [s \in Small(m) |-> IF s = {} THEN 0 ELSE f[Pick(s)] + h[s \ {Pick(s)}]]
  <2>4. \A s \in Small(m) : h[s] = h2[s]
    BY <2>3
  <2>5. h = h2
    BY <2>4
  <2>6. Partly(f, S, m, h)
    BY <2>5 DEF Partly
  <2> QED
    BY <2>6, <1>2
<1> QED
  BY <1>5, <1>6

LEMMA RunsExists ==
  ASSUME NEW S, IsFiniteSet(S), NEW f
  PROVE  \E it : Runs(f, S, it)
<1>1. Cardinality(S) \in Nat /\ \A t \in SUBSET S : Cardinality(t) <= Cardinality(S)
  BY FS_Subset, FS_CardinalityType
<1>2. {t \in SUBSET S : Cardinality(t) <= Cardinality(S)} = SUBSET S
  BY <1>1
<1>3. PICK h : Partly(f, S, Cardinality(S), h)
  BY <1>1, PartlyExists
<1>4. Runs(f, S, h)
  BY <1>2, <1>3 DEF Partly, Runs
<1> QED
  BY <1>4

(* Two functions that differ by c at d, as running sums. *)
LEMMA RunsDiffer ==
  ASSUME NEW S, IsFiniteSet(S), NEW f \in [S -> Int], NEW g \in [S -> Int], NEW d \in S,
         \A x \in S \ {d} : g[x] = f[x],
         NEW i, Runs(f, S, i), NEW j, Runs(g, S, j),
         NEW s \in SUBSET S
  PROVE  /\ i[s] \in Int
         /\ j[s] = i[s] + (IF d \in s THEN g[d] - f[d] ELSE 0)
<1> DEFINE Ok(t) == /\ i[t] \in Int /\ j[t] \in Int
                    /\ j[t] = i[t] + (IF d \in t THEN g[d] - f[d] ELSE 0)
           B == {n \in Nat : \E t \in SUBSET S : Cardinality(t) = n /\ ~Ok(t)}
<1>0. \A t \in SUBSET S : IsFiniteSet(t) /\ Cardinality(t) \in Nat
  BY FS_Subset, FS_CardinalityType
<1>1. SUFFICES ASSUME B # {} PROVE FALSE
  BY <1>0
<1>2. PICK m \in B : \A k \in B : m <= k
  BY <1>1, LeastNat
<1>3. PICK t \in SUBSET S : Cardinality(t) = m /\ ~Ok(t)
  BY <1>2
<1>4. CASE t = {}
  BY <1>3, <1>4 DEF Runs
<1>5. CASE t # {}
  <2> DEFINE x == Pick(t)
             r == t \ {x}
  <2>1. x \in t
    BY <1>5, PickIn
  <2>2. i[t] = f[x] + i[r] /\ j[t] = g[x] + j[r]
    BY <1>5 DEF Runs
  <2>3. Cardinality(r) = m - 1 /\ r \in SUBSET S
    BY <1>0, <1>3, <2>1, FS_RemoveElement
  <2> HIDE DEF x
  <2>4. m \in Nat /\ Cardinality(r) \in Nat
    BY <1>0, <1>2, <2>3
  <2>5. Ok(r)
    BY <1>2, <2>3, <2>4
  <2>6. f[x] \in Int /\ g[x] \in Int
    BY <2>1
  <2>7. Ok(t)
    BY <2>1, <2>2, <2>5, <2>6
  <2> QED
    BY <2>7, <1>3
<1> QED
  BY <1>4, <1>5

LEMMA TotalDiffers ==
  ASSUME NEW S, IsFiniteSet(S), NEW f \in [S -> Int], NEW g \in [S -> Int], NEW d \in S,
         \A x \in S \ {d} : g[x] = f[x]
  PROVE  Total(f) \in Int /\ Total(g) = Total(f) + g[d] - f[d]
<1>1. DOMAIN f = S /\ DOMAIN g = S /\ S \in SUBSET S
  OBVIOUS
<1>2. PICK i : Runs(f, S, i) /\ Total(f) = i[S]
  BY <1>1, TotalRuns, RunsExists
<1>3. PICK j : Runs(g, S, j) /\ Total(g) = j[S]
  BY <1>1, TotalRuns, RunsExists
<1>4. i[S] \in Int /\ j[S] = i[S] + (IF d \in S THEN g[d] - f[d] ELSE 0)
  BY <1>1, <1>2, <1>3, RunsDiffer
<1> QED
  BY <1>2, <1>3, <1>4

LEMMA TotalIsInt ==
  ASSUME NEW S, IsFiniteSet(S), NEW f \in [S -> Int]
  PROVE  Total(f) \in Int
<1>1. CASE S = {}
  <2>1. DOMAIN f = {} /\ {} \in SUBSET DOMAIN f
    BY <1>1
  <2>2. PICK i : Runs(f, {}, i) /\ Total(f) = i[{}]
    BY <2>1, TotalRuns, RunsExists, FS_EmptySet
  <2> QED
    BY <2>1, <2>2 DEF Runs
<1>2. ASSUME NEW d \in S PROVE Total(f) \in Int
  BY <1>2, TotalDiffers
<1> QED
  BY <1>1, <1>2

-----------------------------------------------------------------------------
(* Rows. *)

Columns == {"status", "qty", "paid", "link", "applied", "mark", "actual"}

LEMMA RowColumns ==
  ASSUME NEW r \in Row
  PROVE  /\ DOMAIN r = Columns \cup {"kind"}
         /\ r.kind \in Kinds /\ r.status \in Status /\ r.qty \in Int /\ r.paid \in Int
         /\ r.link \in Docs \cup {NoDoc} /\ r.applied \in Int /\ r.mark \in Int /\ r.actual \in Int
  BY DEF Row, Columns

LEMMA BlankIsRow ==
  ASSUME NEW k \in Kinds
  PROVE  Blank(k) \in Row /\ DOMAIN Blank(k) = Columns \cup {"kind"} /\ Blank(k).kind = k
         /\ Blank(k).status = "none" /\ Blank(k).link = NoDoc
<1>1. "none" \in Status
  BY DEF Status
<1> QED
  BY <1>1 DEF Blank, Row, Columns

(* What a plan writes. *)
Columned(w) ==
  /\ DOMAIN w \subseteq Columns
  /\ "status" \in DOMAIN w => w.status \in Status
  /\ "qty" \in DOMAIN w => w.qty \in Int
  /\ "paid" \in DOMAIN w => w.paid \in Int
  /\ "link" \in DOMAIN w => w.link \in Docs \cup {NoDoc}
  /\ "applied" \in DOMAIN w => w.applied \in Int
  /\ "mark" \in DOMAIN w => w.mark \in Int
  /\ "actual" \in DOMAIN w => w.actual \in Int

LEMMA UpdatedRow ==
  ASSUME NEW r \in Row, NEW w, Columned(w)
  PROVE  /\ Updated(r, w) \in Row
         /\ Updated(r, w).kind = r.kind
         /\ Updated(r, w).status = IF "status" \in DOMAIN w THEN w.status ELSE r.status
         /\ Updated(r, w).qty = IF "qty" \in DOMAIN w THEN w.qty ELSE r.qty
         /\ Updated(r, w).paid = IF "paid" \in DOMAIN w THEN w.paid ELSE r.paid
         /\ Updated(r, w).link = IF "link" \in DOMAIN w THEN w.link ELSE r.link
         /\ Updated(r, w).applied = IF "applied" \in DOMAIN w THEN w.applied ELSE r.applied
         /\ Updated(r, w).mark = IF "mark" \in DOMAIN w THEN w.mark ELSE r.mark
         /\ Updated(r, w).actual = IF "actual" \in DOMAIN w THEN w.actual ELSE r.actual
  BY DEF Updated, Columned, Columns, Row

LEMMA WritableIs ==
  ASSUME NEW w
  PROVE  Writable(w) <=> Columned(w)
<1>0. "none" \in Kinds
  BY DEF Kinds
<1> DEFINE b == Blank("none")
<1>1. b \in Row /\ DOMAIN b \ {"kind"} = Columns
  BY <1>0, BlankIsRow DEF Columns
<1> HIDE DEF b
<1>2. Columned(w) => Writable(w)
  BY <1>1, UpdatedRow DEF Writable, Columned, b
<1>3. ASSUME Writable(w) PROVE Columned(w)
  <2>1. DOMAIN w \subseteq Columns /\ Updated(b, w) \in Row
    BY <1>1, <1>3 DEF Writable, b
  <2>2. \A c \in DOMAIN w : Updated(b, w)[c] = w[c]
    BY <2>1, <1>1 DEF Updated, Columns
  <2> QED
    BY <2>1, <2>2, RowColumns DEF Columned
<1> QED
  BY <1>2, <1>3

-----------------------------------------------------------------------------
(* Goods. *)

LEMMA OlderIsInt ==
  ASSUME NEW ls \in Seq(Nat), NEW i \in 1..Len(ls)
  PROVE  Older(ls, i) \in Int
<1> DEFINE f == [j \in 1..(i - 1) |-> ls[j]]
<1>1. IsFiniteSet(1..(i - 1))
  BY FS_Interval
<1>2. f \in [1..(i - 1) -> Int]
  OBVIOUS
<1> QED
  BY <1>1, <1>2, TotalIsInt DEF Older

LEMMA FifoIsTake ==
  ASSUME layers["raw"] \in Seq(Nat), NEW n \in Int
  PROVE  Fifo(n) \in Seq(Nat)
<1> DEFINE ls == layers["raw"]
<1>1. \A i \in 1..Len(ls) : Clamp(n - Older(ls, i), ls[i]) \in Nat
  <2> SUFFICES ASSUME NEW i \in 1..Len(ls) PROVE Clamp(n - Older(ls, i), ls[i]) \in Nat
    OBVIOUS
  <2>1. Older(ls, i) \in Int /\ ls[i] \in Nat
    BY OlderIsInt
  <2> QED
    BY <2>1 DEF Clamp
<1>2. Fifo(n) = [i \in 1..Len(ls) |-> Clamp(n - Older(ls, i), ls[i])]
  BY DEF Fifo
<1> QED
  BY <1>1, <1>2

LEMMA ConsumeType ==
  ASSUME NEW ls \in Seq(Nat), NEW take \in Seq(Nat)
  PROVE  Consume(ls, take) \in Seq(Nat)
<1>1. \A i \in 1..Len(ls) :
        (IF i \in 1..Len(take) /\ take[i] <= ls[i] THEN ls[i] - take[i] ELSE ls[i]) \in Nat
  <2> SUFFICES ASSUME NEW i \in 1..Len(ls)
               PROVE  (IF i \in 1..Len(take) /\ take[i] <= ls[i] THEN ls[i] - take[i] ELSE ls[i]) \in Nat
    OBVIOUS
  <2>1. ls[i] \in Nat /\ (i \in 1..Len(take) => take[i] \in Nat)
    OBVIOUS
  <2> QED
    BY <2>1
<1> QED
  BY <1>1 DEF Consume

LEMMA OpenedType ==
  ASSUME NEW ls \in Seq(Nat), NEW n \in Int
  PROVE  Opened(ls, n) \in Seq(Nat)
  BY DEF Opened

-----------------------------------------------------------------------------
(* Types. *)

PapersOK ==
  /\ row \in [Docs -> Row]
  /\ entries \in [Docs -> Nat] /\ booked \in [Docs -> Int] /\ reversed \in [Docs -> Nat]
MoneyOK == gl \in [Accounts -> Int] /\ owed \in Int /\ due \in Int
GoodsOK == stock \in [Products -> [Warehouses -> Int]] /\ layers \in [Products -> Seq(Nat)]
CountsOK == ops \in 0..MaxOps /\ disturbed \subseteq Docs

(* The columns a commit takes from its plan.                               *)
Equipped(op, k, w) ==
  /\ op = "return" => "qty" \in DOMAIN w
  /\ op \in {"post", "new"} /\ k \in Slips => {"qty", "link", "applied"} \subseteq DOMAIN w
  /\ op = "new" /\ k = "ticket" => {"qty", "paid", "mark", "link"} \subseteq DOMAIN w
  /\ op = "new" /\ k = "provision" => "qty" \in DOMAIN w
  /\ op = "new" /\ k = "asset" => {"qty", "applied", "mark"} \subseteq DOMAIN w
  /\ op = "reverse" /\ k \in Slips => "mark" \in DOMAIN w
  /\ op = "cancel" /\ k = "workOrder" => "actual" \in DOMAIN w
  /\ op \in {"close", "lookup", "entry"} /\ k = "shift" => {"mark", "actual"} \subseteq DOMAIN w
  /\ op = "close" /\ k \in {"half", "year"} => "status" \in DOMAIN w
  /\ op = "header" => "qty" \in DOMAIN w \/ "status" \in DOMAIN w
  /\ op \in {"lines", "insert"} => "qty" \in DOMAIN w
  /\ op = "charge" => {"paid", "mark"} \subseteq DOMAIN w
  /\ op = "dispose" => {"status", "applied"} \subseteq DOMAIN w

PlanOf(h) ==
  /\ h = [op |-> h.op, doc |-> h.doc, seen |-> h.seen, want |-> h.want, take |-> h.take, at |-> h.at]
  /\ h.op \in Ops /\ h.doc \in Docs \cup {NoDoc} /\ h.seen \in Row /\ Columned(h.want)
  /\ h.take \in Seq(Nat) /\ h.at \in Warehouses
  /\ Equipped(h.op, h.seen.kind, h.want)
Placed(h, rows) ==
  /\ h.op # "idle" => h.doc \in Docs
  /\ h.op \notin {"idle", "next"} => h.seen.kind = rows[h.doc].kind
HandsOK ==
  /\ hand = [u \in Users |-> hand[u]]
  /\ \A u \in Users : PlanOf(hand[u]) /\ Placed(hand[u], row)

TypeIInv == PapersOK /\ MoneyOK /\ GoodsOK /\ CountsOK /\ HandsOK

(* A document stays of its kind.                                           *)
KindsStay == \A d \in Docs : row'[d].kind = row[d].kind

LEMMA TypeIInvIs == TypeIInv => TypeOK
  BY WritableIs DEF TypeIInv, TypeOK, BooksTypeOK, PapersOK, MoneyOK, GoodsOK, CountsOK, HandsOK, PlanOf

LEMMA IdleIsPlan == PlanOf(Idle) /\ (\A rows : Placed(Idle, rows)) /\ Idle.op = "idle" /\ Idle.seen.kind = "none"
<1>1. "none" \in Kinds /\ "idle" \in Ops
  BY DEF Kinds, Ops
<1>2. Blank("none") \in Row /\ Blank("none").kind = "none"
  BY <1>1, BlankIsRow
<1>3. Columned(Idle.want)
  BY DEF Columned, Columns, Idle
<1> QED
  BY <1>1, <1>2, <1>3 DEF PlanOf, Placed, Idle, Equipped, Slips, Warehouses

LEMMA HandTurn ==
  ASSUME HandsOK, KindsStay, NEW u \in Users, NEW h, PlanOf(h), Placed(h, row'), hand' = [hand EXCEPT ![u] = h]
  PROVE  HandsOK'
<1>1. hand' = [x \in Users |-> hand'[x]] /\ hand'[u] = h
  BY DEF HandsOK
<1>2. ASSUME NEW x \in Users, x # u PROVE PlanOf(hand'[x]) /\ Placed(hand[x], row') /\ hand'[x] = hand[x]
  <2>1. hand'[x] = hand[x]
    BY <1>2 DEF HandsOK
  <2>2. PlanOf(hand[x]) /\ Placed(hand[x], row)
    BY DEF HandsOK
  <2>3. hand[x].op # "idle" => row'[hand[x].doc].kind = row[hand[x].doc].kind
    BY <2>2 DEF KindsStay, Placed
  <2> QED
    BY <2>1, <2>2, <2>3 DEF Placed
<1> QED
  BY <1>1, <1>2 DEF HandsOK, Placed

LEMMA HandRests ==
  ASSUME HandsOK, KindsStay, hand' = hand
  PROVE  HandsOK'
<1>1. ASSUME NEW x \in Users PROVE Placed(hand[x], row')
  <2>1. Placed(hand[x], row)
    BY DEF HandsOK
  <2>2. hand[x].op # "idle" => row'[hand[x].doc].kind = row[hand[x].doc].kind
    BY <2>1 DEF KindsStay, Placed
  <2> QED
    BY <2>1, <2>2 DEF Placed
<1> QED
  BY <1>1 DEF HandsOK, PlanOf, Placed

LEMMA HandIdles ==
  ASSUME HandsOK, KindsStay, NEW u \in Users, hand' = [hand EXCEPT ![u] = Idle]
  PROVE  HandsOK'
  BY HandTurn, IdleIsPlan

(* A session goes on with its plan to the next statement.                  *)
LEMMA HandGoesOn ==
  ASSUME HandsOK, KindsStay, NEW u \in Users, NEW op \in Ops, hand[u].op \notin {"idle", "next"},
         Equipped(op, hand[u].seen.kind, hand[u].want),
         hand' = [hand EXCEPT ![u].op = op]
  PROVE  HandsOK'
<1>0. PICK h : h = [hand[u] EXCEPT !.op = op]
  OBVIOUS
<1>1. PlanOf(hand[u]) /\ Placed(hand[u], row)
  BY DEF HandsOK
<1>2. h = [op |-> op, doc |-> hand[u].doc, seen |-> hand[u].seen, want |-> hand[u].want,
           take |-> hand[u].take, at |-> hand[u].at]
  BY <1>0, <1>1 DEF PlanOf
<1>3. hand' = [hand EXCEPT ![u] = h]
  BY <1>0 DEF HandsOK
<1>4. PlanOf(h)
  BY <1>1, <1>2 DEF PlanOf
<1>5. Placed(h, row')
  BY <1>1, <1>2 DEF Placed, KindsStay
<1> QED
  BY <1>3, <1>4, <1>5, HandTurn

-----------------------------------------------------------------------------
(* The shapes of the steps. *)

(* r is the row q but for some columns.                                    *)
Like(r, q, cols) ==
  /\ r.kind = q.kind
  /\ "status" \in cols \/ r.status = q.status
  /\ "qty" \in cols \/ r.qty = q.qty
  /\ "paid" \in cols \/ r.paid = q.paid
  /\ "link" \in cols \/ r.link = q.link
  /\ "applied" \in cols \/ r.applied = q.applied
  /\ "mark" \in cols \/ r.mark = q.mark
  /\ "actual" \in cols \/ r.actual = q.actual

JustStatus == {"status"}
StatusPaid == {"status", "paid"}
StatusLinkQty == {"status", "link", "qty"}
StatusMark == {"status", "mark"}
StatusMarkActual == {"status", "mark", "actual"}
StatusQty == {"status", "qty"}
JustQty == {"qty"}
JustPaid == {"paid"}

(* The step writes the row of d, and in these columns alone.               *)
Changes(d, cols) ==
  row'[d] \in Row /\ row' = [row EXCEPT ![d] = row'[d]] /\ Like(row'[d], row[d], cols)

LEMMA ChangesType ==
  ASSUME row \in [Docs -> Row], NEW d \in Docs, NEW cols, Changes(d, cols)
  PROVE  /\ row' \in [Docs -> Row] /\ KindsStay
         /\ \A x \in Docs \ {d} : row'[x] = row[x]
<1>1. PICK r : r = row'[d]
  OBVIOUS
<1>2. r \in Row /\ row' = [row EXCEPT ![d] = r] /\ r.kind = row[d].kind
  BY <1>1 DEF Changes, Like, JustStatus, StatusPaid, StatusLinkQty
<1> QED
  BY <1>2 DEF KindsStay

LEMMA RowChanges ==
  ASSUME row \in [Docs -> Row], NEW d \in Docs, NEW r \in Row, NEW cols, Like(r, row[d], cols),
         row' = [row EXCEPT ![d] = r]
  PROVE  Changes(d, cols) /\ row'[d] = r
<1>1. row'[d] = r
  OBVIOUS
<1> QED
  BY <1>1 DEF Changes

LEMMA FlipIs ==
  ASSUME row \in [Docs -> Row], NEW d \in Docs, NEW from, NEW s \in Status
  PROVE  \E r \in Row : /\ Flipped(d, from, s) = [row EXCEPT ![d] = r]
                        /\ Like(r, row[d], JustStatus)
                        /\ r.status = IF row[d].status \in from THEN s ELSE row[d].status
<1>1. PICK r : r = [row[d] EXCEPT !.status = IF @ \in from THEN s ELSE @]
  OBVIOUS
<1>2. r \in Row /\ Like(r, row[d], JustStatus) /\ r.status = IF row[d].status \in from THEN s ELSE row[d].status
  BY <1>1 DEF Like, JustStatus, StatusPaid, StatusLinkQty, Row
<1>3. Flipped(d, from, s) = [row EXCEPT ![d] = r]
  BY <1>1 DEF Flipped
<1> QED
  BY <1>2, <1>3

IsFlip(f, d, old, s) == f = Flipped(d, {old}, s)

FlipsOnly(f, d, old, s) ==
  /\ f \in [Docs -> Row] /\ f = [row EXCEPT ![d] = f[d]] /\ Like(f[d], row[d], JustStatus)
  /\ f[d].status = IF row[d].status = old THEN s ELSE row[d].status

LEMMA FlipOne ==
  ASSUME row \in [Docs -> Row], NEW d \in Docs, NEW old, NEW s \in Status, NEW f, IsFlip(f, d, old, s)
  PROVE  FlipsOnly(f, d, old, s)
<1>1. PICK from : from = {old}
  OBVIOUS
<1>2. f = Flipped(d, from, s)
  BY <1>1 DEF IsFlip
<1>3. PICK r \in Row : /\ f = [row EXCEPT ![d] = r] /\ Like(r, row[d], JustStatus)
                       /\ r.status = IF row[d].status \in from THEN s ELSE row[d].status
  BY <1>2, FlipIs
<1>4. f[d] = r
  BY <1>3
<1> QED
  BY <1>1, <1>3, <1>4 DEF FlipsOnly

LEMMA FlipDoes ==
  ASSUME row \in [Docs -> Row], NEW d \in Docs, NEW old, NEW s \in Status, row' = Flipped(d, {old}, s)
  PROVE  /\ Changes(d, JustStatus)
         /\ row'[d].status = IF row[d].status = old THEN s ELSE row[d].status
<1>1. PICK f : f = row'
  OBVIOUS
<1>2. IsFlip(f, d, old, s)
  BY <1>1 DEF IsFlip
<1>3. FlipsOnly(f, d, old, s)
  BY <1>2, FlipOne
<1> QED
  BY <1>1, <1>3 DEF Changes, FlipsOnly

FlipPays(d, from, s, n, t) == row' = [Flipped(d, from, s) EXCEPT ![d].paid = @ + n, ![d].status = t]

LEMMA FlipPaysDoes ==
  ASSUME row \in [Docs -> Row], NEW d \in Docs, NEW from, NEW s \in Status, NEW n \in Int, NEW t \in Status,
         FlipPays(d, from, s, n, t)
  PROVE  Changes(d, StatusPaid) /\ row'[d].status = t /\ row'[d].paid = row[d].paid + n
<1>1. PICK m \in Int : m = row[d].paid + n
  BY DEF Row
<1>2. PICK r : r = [row[d] EXCEPT !.status = t, !.paid = m]
  OBVIOUS
<1>3. r \in Row /\ Like(r, row[d], StatusPaid) /\ r.status = t /\ r.paid = row[d].paid + n
  BY <1>1, <1>2 DEF Like, JustStatus, StatusPaid, StatusLinkQty, Row
<1>4. PICK q \in Row : /\ Flipped(d, from, s) = [row EXCEPT ![d] = q] /\ Like(q, row[d], JustStatus)
  BY FlipIs
<1>5. [Flipped(d, from, s) EXCEPT ![d].paid = @ + n, ![d].status = t] = [row EXCEPT ![d] = [q EXCEPT !.paid = m, !.status = t]]
  BY <1>1, <1>4 DEF Like, JustStatus, StatusPaid, StatusLinkQty
<1>6. [q EXCEPT !.paid = m, !.status = t] = r
  BY <1>2, <1>4 DEF Like, JustStatus, StatusPaid, StatusLinkQty, Row
<1>7. row' = [row EXCEPT ![d] = r]
  BY <1>5, <1>6 DEF FlipPays
<1> QED
  BY <1>3, <1>7, RowChanges

LEMMA SetRow ==
  ASSUME row \in [Docs -> Row], NEW d \in Docs, NEW r \in Row, r.kind = row[d].kind,
         row' = [row EXCEPT ![d] = r]
  PROVE  row' \in [Docs -> Row] /\ KindsStay
  BY DEF KindsStay

LEMMA FlippedType ==
  ASSUME row \in [Docs -> Row], NEW d \in Docs, NEW from, NEW s \in Status
  PROVE  /\ Flipped(d, from, s) \in [Docs -> Row]
         /\ \A x \in Docs : Flipped(d, from, s)[x].kind = row[x].kind
  BY DEF Flipped, Row

LEMMA LedgerType ==
  ASSUME gl \in [Accounts -> Int], NEW legs, \A a \in DOMAIN legs : legs[a] \in Int, Ledger(legs)
  PROVE  gl' \in [Accounts -> Int]
  BY DEF Ledger

LEMMA JournalType ==
  ASSUME PapersOK, MoneyOK, NEW d \in Docs, NEW legs, \A a \in DOMAIN legs : legs[a] \in Int, Journal(d, legs)
  PROVE  /\ gl' \in [Accounts -> Int] /\ entries' \in [Docs -> Nat] /\ booked' \in [Docs -> Int]
         /\ reversed' \in [Docs -> Nat]
<1>1. gl' \in [Accounts -> Int]
  BY LedgerType DEF Journal, MoneyOK
<1>2. (IF "cash" \in DOMAIN legs THEN legs["cash"] ELSE 0) \in Int
  OBVIOUS
<1> QED
  BY <1>1, <1>2 DEF Journal, PapersOK

LEMMA ConsumesType ==
  ASSUME GoodsOK, NEW take \in Seq(Nat), Consumes(take)
  PROVE  layers' \in [Products -> Seq(Nat)]
<1>1. layers["raw"] \in Seq(Nat)
  BY DEF GoodsOK, Products
<1> QED
  BY <1>1, ConsumeType DEF Consumes, GoodsOK, Products

LEMMA OpensType ==
  ASSUME GoodsOK, NEW p \in Products, NEW n \in Int, Opens(p, n)
  PROVE  layers' \in [Products -> Seq(Nat)]
<1>1. layers[p] \in Seq(Nat)
  BY DEF GoodsOK
<1> QED
  BY <1>1, OpenedType DEF Opens, GoodsOK

LEMMA MovesType ==
  ASSUME GoodsOK, NEW p \in Products, NEW w \in Warehouses, NEW n \in Int, Moves(p, w, n)
  PROVE  stock' \in [Products -> [Warehouses -> Int]]
  BY DEF Moves, GoodsOK

LEMMA LinesType ==
  ASSUME row \in [Docs -> Row], NEW d \in Docs
  PROVE  Lines(d) \in Int
  BY DEF Lines, Row

Closes(u) == hand' = [hand EXCEPT ![u] = Idle] /\ ops' = ops /\ disturbed' \subseteq Docs

LEMMA EndsType ==
  ASSUME TypeIInv, NEW u \in Users, hand[u].op # "idle", NEW odd \in SUBSET Docs, EndsWith(u, odd)
  PROVE  Closes(u)
<1>1. hand[u].doc \in Docs /\ disturbed \subseteq Docs
  BY DEF TypeIInv, HandsOK, Placed, CountsOK
<1> QED
  BY <1>1 DEF EndsWith, Closes

LEMMA EndsAlone ==
  ASSUME TypeIInv, NEW u \in Users, hand[u].op # "idle", Ends(u)
  PROVE  Closes(u)
  BY EndsType DEF Ends

LEMMA CommitType ==
  ASSUME TypeIInv, NEW u \in Users, Closes(u),
         row' \in [Docs -> Row], KindsStay,
         entries' \in [Docs -> Nat], booked' \in [Docs -> Int], reversed' \in [Docs -> Nat],
         gl' \in [Accounts -> Int], owed' \in Int, due' \in Int,
         stock' \in [Products -> [Warehouses -> Int]], layers' \in [Products -> Seq(Nat)]
  PROVE  TypeIInv'
<1>1. HandsOK'
  BY HandIdles DEF TypeIInv, Closes
<1> QED
  BY <1>1 DEF TypeIInv, PapersOK, MoneyOK, GoodsOK, CountsOK, Closes

LEMMA CreatesType ==
  ASSUME TypeIInv, NEW d \in Docs, NEW kinds, NEW new, Columned(new), Creates(d, kinds, new)
  PROVE  TypeIInv'
<1>1. row \in [Docs -> Row] /\ row[d] \in Row
  BY DEF TypeIInv, PapersOK
<1>2. PICK r : r = Updated(row[d], new)
  OBVIOUS
<1>3. row' = [row EXCEPT ![d] = r]
  BY <1>2 DEF Creates
<1>4. r \in Row /\ r.kind = row[d].kind
  BY <1>1, <1>2, UpdatedRow
<1>5. row' \in [Docs -> Row] /\ KindsStay
  BY <1>1, <1>3, <1>4, SetRow
<1>6. UNCHANGED <<entries, booked, reversed, gl, owed, due, stock, layers, hand, ops, disturbed>>
  BY DEF Creates, money, goods, work
<1>7. HandsOK'
  BY <1>5, <1>6, HandRests DEF TypeIInv
<1> QED
  BY <1>5, <1>6, <1>7 DEF TypeIInv, PapersOK, MoneyOK, GoodsOK, CountsOK

(* A step that writes nothing but the session's plan.                      *)
Quiet == UNCHANGED <<papers, money, goods, disturbed>>

LEMMA QuietType ==
  ASSUME TypeIInv, Quiet, ops' \in 0..MaxOps, HandsOK'
  PROVE  TypeIInv'
  BY DEF TypeIInv, Quiet, papers, money, goods, PapersOK, MoneyOK, GoodsOK, CountsOK

LEMMA QuietKinds == Quiet => KindsStay
  BY DEF Quiet, papers, KindsStay

LEMMA ReadsType ==
  ASSUME TypeIInv, NEW u \in Users, NEW d \in Docs, NEW op \in Ops \ {"idle", "next"}, NEW want, NEW take, NEW w,
         Columned(want), Equipped(op, row[d].kind, want), take \in Seq(Nat), w \in Warehouses,
         Reads(u, op, d, want, take, w)
  PROVE  TypeIInv' /\ Quiet
<1>1. PICK h : h = [op |-> op, doc |-> d, seen |-> row[d], want |-> want, take |-> take, at |-> w]
  OBVIOUS
<1>2. hand' = [hand EXCEPT ![u] = h] /\ Quiet
  BY <1>1 DEF Reads, Quiet
<1>3. row[d] \in Row /\ row' = row
  BY <1>2 DEF Quiet, papers, TypeIInv, PapersOK
<1>4. PlanOf(h) /\ Placed(h, row')
  BY <1>1, <1>3 DEF PlanOf, Placed
<1>5. HandsOK'
  BY <1>2, <1>4, QuietKinds, HandTurn DEF TypeIInv
<1>6. ops' \in 0..MaxOps
  BY BooksAssumption DEF BooksAssumption, Reads, TypeIInv, CountsOK
<1> QED
  BY <1>2, <1>5, <1>6, QuietType

LEMMA KeepsType ==
  ASSUME TypeIInv, NEW u \in Users, NEW d \in Docs, NEW op \in Ops \ {"idle", "next"},
         Equipped(op, row[d].kind, Idle.want), Keeps(u, op, d)
  PROVE  TypeIInv' /\ Quiet
<1>1. Columned(Idle.want) /\ Main \in Warehouses /\ <<>> \in Seq(Nat)
  BY IdleIsPlan DEF PlanOf, Warehouses
<1> QED
  BY <1>1, ReadsType DEF Keeps

LEMMA EditsType ==
  ASSUME TypeIInv, NEW u \in Users, NEW d \in Docs, NEW want, Columned(want), Edits(u, d, want)
  PROVE  TypeIInv' /\ Quiet
<1>1. Main \in Warehouses /\ <<>> \in Seq(Nat) /\ "write" \in Ops \ {"idle", "next"}
  BY DEF Warehouses, Ops
<1>2. Equipped("write", row[d].kind, want)
  BY DEF Equipped
<1> QED
  BY <1>1, <1>2, ReadsType DEF Edits

LEMMA DeletesType ==
  ASSUME TypeIInv, NEW u \in Users, NEW d \in Docs, Deletes(u, d)
  PROVE  TypeIInv' /\ Quiet
<1>1. Columned([status |-> "gone"])
  BY DEF Columned, Columns, Status
<1> QED
  BY <1>1, EditsType DEF Deletes

LEMMA PostsType ==
  ASSUME TypeIInv, NEW u \in Users, NEW d \in Docs, NEW take \in Seq(Nat), row[d].kind \notin Slips, Posts(u, d, take)
  PROVE  TypeIInv' /\ Quiet
<1>1. Columned(Idle.want) /\ Main \in Warehouses /\ "post" \in Ops \ {"idle", "next"}
  BY IdleIsPlan DEF PlanOf, Warehouses, Ops
<1>2. Equipped("post", row[d].kind, Idle.want)
  BY DEF Equipped
<1> QED
  BY <1>1, <1>2, ReadsType DEF Posts

-----------------------------------------------------------------------------
(* The types, module by module, and which steps write more than a plan.    *)

(* The order of the conjuncts is that of Reads.                            *)
LEMMA AtIs ==
  ASSUME TypeIInv, NEW u \in Users, NEW op, NEW kinds, At(u, op, kinds), op \notin {"idle", "next"}
  PROVE  /\ hand[u].op = op /\ hand[u].doc \in Docs /\ row[hand[u].doc] \in Row
         /\ hand[u].seen \in Row /\ row[hand[u].doc].kind = hand[u].seen.kind /\ hand[u].seen.kind \in kinds
         /\ Columned(hand[u].want) /\ hand[u].take \in Seq(Nat) /\ hand[u].at \in Warehouses
         /\ Equipped(op, hand[u].seen.kind, hand[u].want)
  BY DEF TypeIInv, PapersOK, HandsOK, PlanOf, Placed, At

LEMMA SourcesType ==
  ASSUME NEW p, NEW n
  PROVE  Sources(p, n) \subseteq Warehouses /\ Richest(p) \subseteq Warehouses
  BY DEF Sources, Richest, Warehouses

LEMMA WriteType ==
  ASSUME TypeIInv, NEW u \in Users, Write(u)
  PROVE  TypeIInv'
<1> DEFINE d == hand[u].doc
<1>1. d \in Docs /\ Columned(hand[u].want) /\ row \in [Docs -> Row] /\ row[d] \in Row
  BY DEF Write, TypeIInv, HandsOK, PlanOf, Placed, PapersOK
<1>2. row' \in [Docs -> Row] /\ KindsStay
  <2>1. PICK r : r = Updated(row[d], hand[u].want)
    OBVIOUS
  <2>2. r \in Row /\ r.kind = row[d].kind
    BY <1>1, <2>1, UpdatedRow
  <2>3. CASE Exists(d)
    BY <1>1, <2>1, <2>2, <2>3, SetRow DEF Write
  <2>4. CASE ~Exists(d)
    BY <1>1, <2>4 DEF Write, KindsStay
  <2> QED
    BY <2>3, <2>4
<1>3. Closes(u)
  <2>1. PICK odd \in SUBSET Docs : EndsWith(u, odd)
    BY <1>1 DEF Write
  <2> QED
    BY <2>1, EndsType DEF Write
<1> QED
  BY <1>2, <1>3, CommitType DEF Write, TypeIInv, PapersOK, MoneyOK, GoodsOK, money, goods

LEMMA FailsType ==
  ASSUME TypeIInv, NEW u \in Users, Fails(u)
  PROVE  TypeIInv' /\ Quiet
<1>1. Quiet /\ KindsStay
  BY QuietKinds DEF Fails, Quiet
<1> QED
  BY <1>1, HandIdles, QuietType DEF Fails, TypeIInv, CountsOK

-----------------------------------------------------------------------------
LEMMA ReturnedType ==
  ASSUME PapersOK, NEW S \in SUBSET Docs
  PROVE  Total([r \in S |-> row[r].qty]) \in Int /\ Total([r \in S |-> row[r].mark]) \in Int
<1>1. IsFiniteSet(S)
  BY FS_Subset, BooksAssumption DEF BooksAssumption
<1>2. \A r \in S : row[r].qty \in Int /\ row[r].mark \in Int
  BY DEF PapersOK, Row
<1>3. [r \in S |-> row[r].qty] \in [S -> Int] /\ [r \in S |-> row[r].mark] \in [S -> Int]
  BY <1>2
<1> QED
  BY <1>1, <1>3, TotalIsInt

SalesWrites ==
  \/ \E d \in Docs : CreateInvoice(d) \/ CreateReturn(d)
  \/ \E u \in Users : CommitInvoice(u) \/ CommitReturn(u) \/ CreateReversal(u)

LEMMA SalesReads ==
  ASSUME TypeIInv, NEW u \in Users, NEW d \in Docs,
         \/ UpdateInvoice(u, d) \/ DeleteInvoice(u, d) \/ PostInvoice(u, d)
         \/ UpdateReturn(u, d) \/ DeleteReturn(u, d) \/ PostReturn(u, d)
         \/ ReverseInvoice(u, d)
  PROVE  TypeIInv' /\ Quiet
<1>0. row[d] \in Row /\ layers["raw"] \in Seq(Nat)
  BY DEF TypeIInv, PapersOK, GoodsOK, Products
<1>1. ASSUME NEW q \in 1..MaxQty PROVE Columned([qty |-> q])
  BY DEF Columned, Columns
<1>2. CASE UpdateInvoice(u, d) \/ UpdateReturn(u, d)
  BY <1>1, <1>2, EditsType DEF UpdateInvoice, UpdateReturn
<1>3. CASE DeleteInvoice(u, d) \/ DeleteReturn(u, d)
  BY <1>3, DeletesType DEF DeleteInvoice, DeleteReturn
<1>4. CASE PostInvoice(u, d)
  <2>1. Fifo(row[d].qty) \in Seq(Nat)
    BY <1>0, FifoIsTake, RowColumns
  <2>2. row[d].kind \notin Slips
    BY <1>4 DEF PostInvoice, Invoices, Slips
  <2> QED
    BY <1>4, <2>1, <2>2, PostsType DEF PostInvoice
<1>5. CASE PostReturn(u, d)
  <2>1. <<>> \in Seq(Nat) /\ row[d].kind \notin Slips
    BY <1>5 DEF PostReturn, Slips
  <2> QED
    BY <1>5, <2>1, PostsType DEF PostReturn
<1>6. CASE ReverseInvoice(u, d)
  <2>1. Returned(d) \in Int
    BY ReturnedType DEF Returned, TypeIInv
  <2>2. PICK want : want = [qty |-> row[d].qty - Returned(d)]
    OBVIOUS
  <2>3. Columned(want) /\ Equipped("return", row[d].kind, want)
    BY <1>0, <2>1, <2>2, RowColumns DEF Columned, Columns, Equipped
  <2>4. "return" \in Ops \ {"idle", "next"} /\ <<>> \in Seq(Nat) /\ Main \in Warehouses
    BY DEF Ops, Warehouses
  <2> QED
    BY <1>6, <2>2, <2>3, <2>4, ReadsType DEF ReverseInvoice
<1> QED
  BY <1>2, <1>3, <1>4, <1>5, <1>6

LEMMA CommitInvoiceDoes ==
  ASSUME TypeIInv, NEW u \in Users, CommitInvoice(u), NEW d, d = hand[u].doc
  PROVE  /\ Changes(d, StatusPaid)
         /\ hand[u].seen.kind # "cashSale" \/ ~Exists(d) =>
              /\ row'[d].status = IF row[d].status = "draft" THEN "posted" ELSE row[d].status
              /\ row'[d].paid = row[d].paid
         /\ hand[u].seen.kind = "cashSale" /\ Exists(d) => row'[d].status = "paid" /\ row'[d].paid = row[d].qty
<1>1. d \in Docs /\ row[d] \in Row /\ row \in [Docs -> Row]
  BY AtIs DEF CommitInvoice, TypeIInv, PapersOK
<1>2. "posted" \in Status /\ "paid" \in Status
  BY DEF Status
<1>3. CASE hand[u].seen.kind = "cashSale" /\ Exists(d)
  <2>1. PICK n \in Int : n = Outstanding(row[d]) /\ row[d].paid + n = row[d].qty
    BY <1>1, RowColumns DEF Outstanding
  <2>2. FlipPays(d, {"draft"}, "posted", n, "paid")
    BY <1>3, <2>1 DEF CommitInvoice, FlipPays
  <2>3. Changes(d, StatusPaid) /\ row'[d].status = "paid" /\ row'[d].paid = row[d].paid + n
    BY <1>1, <1>2, <2>2, FlipPaysDoes
  <2> QED
    BY <1>3, <2>1, <2>3
<1>4. CASE ~(hand[u].seen.kind = "cashSale" /\ Exists(d))
  <2>1. row' = Flipped(d, {"draft"}, "posted")
    BY <1>4 DEF CommitInvoice
  <2>2. Changes(d, JustStatus) /\ row'[d].status = IF row[d].status = "draft" THEN "posted" ELSE row[d].status
    BY <1>1, <1>2, <2>1, FlipDoes
  <2> QED
    BY <1>4, <2>2 DEF Changes, Like, JustStatus, StatusPaid, StatusLinkQty
<1> QED
  BY <1>3, <1>4

LEMMA CommitInvoiceType ==
  ASSUME TypeIInv, NEW u \in Users, CommitInvoice(u)
  PROVE  TypeIInv'
<1> DEFINE d == hand[u].doc
           r == hand[u].seen
<1>1. At(u, "post", Invoices) /\ row \in [Docs -> Row]
  BY DEF CommitInvoice, TypeIInv, PapersOK
<1>2. d \in Docs /\ row[d] \in Row /\ r \in Row /\ hand[u].take \in Seq(Nat)
      /\ hand[u].op # "idle" /\ r.qty \in Int /\ r.paid \in Int
  BY <1>1, AtIs, RowColumns
<1>3. Closes(u)
  BY <1>2, EndsAlone DEF CommitInvoice
<1>4. row' \in [Docs -> Row] /\ KindsStay
  BY <1>1, <1>2, CommitInvoiceDoes, ChangesType
<1>5. gl' \in [Accounts -> Int] /\ entries' \in [Docs -> Nat] /\ booked' \in [Docs -> Int] /\ reversed' \in [Docs -> Nat]
  <2> DEFINE legs == IF r.kind = "cashSale" THEN [cash |-> r.qty, inventory |-> -r.qty]
                     ELSE [debtors |-> r.qty, inventory |-> -r.qty]
  <2>1. \A a \in DOMAIN legs : legs[a] \in Int
    BY <1>2
  <2>2. Journal(d, legs)
    BY DEF CommitInvoice
  <2> HIDE DEF legs
  <2> QED
    BY <1>2, <2>1, <2>2, JournalType DEF TypeIInv
<1>6. stock' \in [Products -> [Warehouses -> Int]] /\ layers' \in [Products -> Seq(Nat)]
  <2>1. "raw" \in Products /\ Lines(d) \in Int /\ -Lines(d) \in Int
    BY <1>2, LinesType DEF Products, TypeIInv, PapersOK
  <2>2. PICK w \in Warehouses : Moves("raw", w, -Lines(d))
    BY SourcesType DEF CommitInvoice
  <2> QED
    BY <1>2, <2>1, <2>2, MovesType, ConsumesType DEF CommitInvoice, TypeIInv
<1>7. owed' \in Int /\ due' \in Int
  BY <1>2 DEF CommitInvoice, Outstanding, TypeIInv, MoneyOK
<1> QED
  BY <1>3, <1>4, <1>5, <1>6, <1>7, CommitType

LEMMA CommitReturnDoes ==
  ASSUME TypeIInv, NEW u \in Users, CommitReturn(u), NEW d, d = hand[u].doc
  PROVE  /\ Changes(d, JustStatus)
         /\ row'[d].status = IF row[d].status = "draft" THEN "posted" ELSE row[d].status
<1>1. At(u, "post", {"saleReturn"}) /\ row' = Flipped(d, {"draft"}, "posted") /\ row \in [Docs -> Row]
  BY DEF CommitReturn, TypeIInv, PapersOK
<1>2. d \in Docs /\ "posted" \in Status
  BY <1>1, AtIs DEF Status
<1> QED
  BY <1>1, <1>2, FlipDoes

LEMMA CommitReturnType ==
  ASSUME TypeIInv, NEW u \in Users, CommitReturn(u)
  PROVE  TypeIInv'
<1> DEFINE d == hand[u].doc
           n == hand[u].seen.qty
<1>1. At(u, "post", {"saleReturn"}) /\ row \in [Docs -> Row]
  BY DEF CommitReturn, TypeIInv, PapersOK
<1>2. d \in Docs /\ hand[u].op # "idle" /\ n \in Int
  BY <1>1, AtIs, RowColumns
<1>3. Closes(u)
  BY <1>2, EndsAlone DEF CommitReturn
<1>4. row' \in [Docs -> Row] /\ KindsStay
  BY <1>1, <1>2, CommitReturnDoes, ChangesType
<1>5. gl' \in [Accounts -> Int] /\ entries' \in [Docs -> Nat] /\ booked' \in [Docs -> Int] /\ reversed' \in [Docs -> Nat]
  <2> DEFINE legs == [debtors |-> -n, inventory |-> n]
  <2>1. \A a \in DOMAIN legs : legs[a] \in Int
    BY <1>2
  <2>2. Journal(d, legs)
    BY DEF CommitReturn
  <2> HIDE DEF legs
  <2> QED
    BY <1>2, <2>1, <2>2, JournalType DEF TypeIInv
<1>6. stock' \in [Products -> [Warehouses -> Int]] /\ layers' \in [Products -> Seq(Nat)]
  <2>1. "raw" \in Products /\ Lines(d) \in Int
    BY <1>1, <1>2, LinesType DEF Products
  <2>2. PICK w \in Warehouses : Moves("raw", w, Lines(d))
    BY SourcesType DEF CommitReturn
  <2> QED
    BY <1>2, <2>1, <2>2, MovesType, OpensType DEF CommitReturn, TypeIInv
<1>7. owed' \in Int /\ due' \in Int
  BY <1>2 DEF CommitReturn, TypeIInv, MoneyOK
<1> QED
  BY <1>3, <1>4, <1>5, <1>6, <1>7, CommitType

(* A reversal writes the return it will post next.                         *)
Returns(u, d) ==
  /\ row' = [row EXCEPT ![d].status = "draft", ![d].link = hand[u].doc, ![d].qty = hand[u].want.qty]
  /\ hand' = [hand EXCEPT ![u] = [Idle EXCEPT !.op = "next", !.doc = d]]
  /\ UNCHANGED <<entries, booked, reversed, money, goods, ops, disturbed>>

LEMMA ReturnsDoes ==
  ASSUME TypeIInv, NEW u \in Users, hand[u].op = "return", NEW d \in Docs, Returns(u, d)
  PROVE  /\ Changes(d, StatusLinkQty) /\ TypeIInv'
         /\ row'[d].status = "draft" /\ row'[d].link = hand[u].doc /\ row'[d].qty = hand[u].want.qty
<1>0. row \in [Docs -> Row] /\ row[d] \in Row /\ hand[u].doc \in Docs /\ "draft" \in Status
  BY DEF TypeIInv, PapersOK, HandsOK, Placed, Status
<1>1. hand[u].want.qty \in Int
  BY DEF TypeIInv, HandsOK, PlanOf, Equipped, Columned
<1>2. PICK n \in Int, i \in Docs : n = hand[u].want.qty /\ i = hand[u].doc
  BY <1>0, <1>1
<1>3. PICK r : r = [row[d] EXCEPT !.status = "draft", !.link = i, !.qty = n]
  OBVIOUS
<1>4. r \in Row /\ Like(r, row[d], StatusLinkQty) /\ r.status = "draft" /\ r.link = i /\ r.qty = n
  BY <1>0, <1>3 DEF Like, JustStatus, StatusPaid, StatusLinkQty, Row
<1>5. row' = [row EXCEPT ![d] = r]
  BY <1>2, <1>3 DEF Returns
<1>6. Changes(d, StatusLinkQty) /\ row'[d] = r
  BY <1>0, <1>4, <1>5, RowChanges
<1>7. row' \in [Docs -> Row] /\ KindsStay
  BY <1>0, <1>6, ChangesType
<1>8. HandsOK'
  <2>1. PICK h : h = [Idle EXCEPT !.op = "next", !.doc = d]
    OBVIOUS
  <2>2. "next" \in Ops /\ PlanOf(Idle)
    BY IdleIsPlan DEF Ops
  <2>3. h = [op |-> "next", doc |-> d, seen |-> Idle.seen, want |-> Idle.want, take |-> Idle.take, at |-> Idle.at]
    BY <2>1 DEF Idle
  <2>4. PlanOf(h) /\ Placed(h, row')
    BY <2>2, <2>3 DEF PlanOf, Placed, Equipped
  <2>5. hand' = [hand EXCEPT ![u] = h]
    BY <2>1 DEF Returns
  <2> QED
    BY <1>7, <2>4, <2>5, HandTurn DEF TypeIInv
<1>9. TypeIInv'
  BY <1>7, <1>8 DEF Returns, money, goods, TypeIInv, PapersOK, MoneyOK, GoodsOK, CountsOK
<1> QED
  BY <1>2, <1>4, <1>6, <1>9

LEMMA CreateReversalDoes ==
  ASSUME TypeIInv, NEW u \in Users, CreateReversal(u)
  PROVE  /\ TypeIInv'
         /\ \E d \in Docs : /\ row[d].kind = "saleReturn" /\ row[d].status = "none" /\ Returns(u, d)
                            /\ hand[u].op = "return"
<1>1. PICK d \in Docs : /\ row[d].kind = "saleReturn" /\ row[d].status = "none" /\ Returns(u, d)
                        /\ hand[u].op = "return"
  BY DEF CreateReversal, At, Returns
<1> QED
  BY <1>1, ReturnsDoes

LEMMA DraftColumned == "draft" \in Status /\ \A q \in 1..MaxQty : Columned([status |-> "draft", qty |-> q])
  BY DEF Columned, Columns, Status

LEMMA SalesType ==
  ASSUME TypeIInv, SalesStep
  PROVE  TypeIInv'
<1>1. ASSUME NEW d \in Docs, CreateInvoice(d) PROVE TypeIInv'
  BY <1>1, DraftColumned, CreatesType DEF CreateInvoice
<1>2. ASSUME NEW d \in Docs, CreateReturn(d) PROVE TypeIInv'
  <2>1. PICK q \in 1..MaxQty, i \in Docs \cup {NoDoc} :
          Creates(d, {"saleReturn"}, [status |-> "draft", qty |-> q, link |-> i])
    BY <1>2 DEF CreateReturn
  <2>2. Columned([status |-> "draft", qty |-> q, link |-> i])
    BY DraftColumned DEF Columned, Columns
  <2> QED
    BY <2>1, <2>2, CreatesType
<1> QED
  BY <1>1, <1>2, SalesReads, CommitInvoiceType, CommitReturnType, CreateReversalDoes DEF SalesStep

-----------------------------------------------------------------------------
LEMMA PurchasesReads ==
  ASSUME TypeIInv, NEW u \in Users, NEW d \in Docs,
         \/ UpdateBill(u, d) \/ DeleteBill(u, d) \/ PostBill(u, d)
         \/ UpdateBillReturn(u, d) \/ DeleteBillReturn(u, d) \/ PostBillReturn(u, d)
         \/ ReverseBill(u, d)
  PROVE  TypeIInv' /\ Quiet
<1>0. row[d] \in Row /\ layers["raw"] \in Seq(Nat)
  BY DEF TypeIInv, PapersOK, GoodsOK, Products
<1>1. ASSUME NEW q \in 1..MaxQty PROVE Columned([qty |-> q])
  BY DEF Columned, Columns
<1>2. CASE UpdateBill(u, d) \/ UpdateBillReturn(u, d)
  BY <1>1, <1>2, EditsType DEF UpdateBill, UpdateBillReturn
<1>3. CASE DeleteBill(u, d) \/ DeleteBillReturn(u, d)
  BY <1>3, DeletesType DEF DeleteBill, DeleteBillReturn
<1>4. CASE PostBillReturn(u, d)
  <2>1. Fifo(row[d].qty) \in Seq(Nat)
    BY <1>0, FifoIsTake, RowColumns
  <2>2. row[d].kind \notin Slips
    BY <1>4 DEF PostBillReturn, Slips
  <2> QED
    BY <1>4, <2>1, <2>2, PostsType DEF PostBillReturn
<1>5. CASE PostBill(u, d)
  <2>1. <<>> \in Seq(Nat) /\ row[d].kind \notin Slips
    BY <1>5 DEF PostBill, Bills, Slips
  <2> QED
    BY <1>5, <2>1, PostsType DEF PostBill
<1>6. CASE ReverseBill(u, d)
  <2>1. BillReturned(d) \in Int
    BY ReturnedType DEF BillReturned, TypeIInv
  <2>2. PICK want : want = [qty |-> row[d].qty - BillReturned(d)]
    OBVIOUS
  <2>3. Columned(want) /\ Equipped("return", row[d].kind, want)
    BY <1>0, <2>1, <2>2, RowColumns DEF Columned, Columns, Equipped
  <2>4. "return" \in Ops \ {"idle", "next"} /\ <<>> \in Seq(Nat) /\ Main \in Warehouses
    BY DEF Ops, Warehouses
  <2> QED
    BY <1>6, <2>2, <2>3, <2>4, ReadsType DEF ReverseBill
<1> QED
  BY <1>2, <1>3, <1>4, <1>5, <1>6

LEMMA CommitBillDoes ==
  ASSUME TypeIInv, NEW u \in Users, CommitBill(u), NEW d, d = hand[u].doc
  PROVE  /\ Changes(d, StatusPaid)
         /\ hand[u].seen.kind # "cashPurchase" \/ ~Exists(d) =>
              /\ row'[d].status = IF row[d].status = "draft" THEN "posted" ELSE row[d].status
              /\ row'[d].paid = row[d].paid
         /\ hand[u].seen.kind = "cashPurchase" /\ Exists(d) => row'[d].status = "paid" /\ row'[d].paid = row[d].qty
<1>1. d \in Docs /\ row[d] \in Row /\ row \in [Docs -> Row]
  BY AtIs DEF CommitBill, TypeIInv, PapersOK
<1>2. "posted" \in Status /\ "paid" \in Status
  BY DEF Status
<1>3. CASE hand[u].seen.kind = "cashPurchase" /\ Exists(d)
  <2>1. PICK n \in Int : n = Outstanding(row[d]) /\ row[d].paid + n = row[d].qty
    BY <1>1, RowColumns DEF Outstanding
  <2>2. FlipPays(d, {"draft"}, "posted", n, "paid")
    BY <1>3, <2>1 DEF CommitBill, FlipPays
  <2>3. Changes(d, StatusPaid) /\ row'[d].status = "paid" /\ row'[d].paid = row[d].paid + n
    BY <1>1, <1>2, <2>2, FlipPaysDoes
  <2> QED
    BY <1>3, <2>1, <2>3
<1>4. CASE ~(hand[u].seen.kind = "cashPurchase" /\ Exists(d))
  <2>1. row' = Flipped(d, {"draft"}, "posted")
    BY <1>4 DEF CommitBill
  <2>2. Changes(d, JustStatus) /\ row'[d].status = IF row[d].status = "draft" THEN "posted" ELSE row[d].status
    BY <1>1, <1>2, <2>1, FlipDoes
  <2> QED
    BY <1>4, <2>2 DEF Changes, Like, JustStatus, StatusPaid, StatusLinkQty
<1> QED
  BY <1>3, <1>4

LEMMA CommitBillType ==
  ASSUME TypeIInv, NEW u \in Users, CommitBill(u)
  PROVE  TypeIInv'
<1> DEFINE d == hand[u].doc
           r == hand[u].seen
<1>1. At(u, "post", Bills) /\ row \in [Docs -> Row]
  BY DEF CommitBill, TypeIInv, PapersOK
<1>2. d \in Docs /\ hand[u].op # "idle" /\ r.qty \in Int /\ r.paid \in Int
  BY <1>1, AtIs, RowColumns
<1>3. Closes(u)
  BY <1>2, EndsAlone DEF CommitBill
<1>4. row' \in [Docs -> Row] /\ KindsStay
  BY <1>1, <1>2, CommitBillDoes, ChangesType
<1>5. gl' \in [Accounts -> Int] /\ entries' \in [Docs -> Nat] /\ booked' \in [Docs -> Int] /\ reversed' \in [Docs -> Nat]
  <2> DEFINE legs == IF r.kind = "cashPurchase" THEN [cash |-> -r.qty, inventory |-> r.qty]
                     ELSE [creditors |-> r.qty, inventory |-> r.qty]
  <2>1. \A a \in DOMAIN legs : legs[a] \in Int
    BY <1>2
  <2>2. Journal(d, legs)
    BY DEF CommitBill
  <2> HIDE DEF legs
  <2> QED
    BY <1>2, <2>1, <2>2, JournalType DEF TypeIInv
<1>6. stock' \in [Products -> [Warehouses -> Int]] /\ layers' \in [Products -> Seq(Nat)]
  <2>1. "raw" \in Products /\ Lines(d) \in Int /\ Main \in Warehouses
    BY <1>1, <1>2, LinesType DEF Products, Warehouses
  <2> QED
    BY <1>2, <2>1, MovesType, OpensType DEF CommitBill, TypeIInv
<1>7. owed' \in Int /\ due' \in Int
  BY <1>2 DEF CommitBill, Outstanding, TypeIInv, MoneyOK
<1> QED
  BY <1>3, <1>4, <1>5, <1>6, <1>7, CommitType

LEMMA CommitBillReturnDoes ==
  ASSUME TypeIInv, NEW u \in Users, CommitBillReturn(u), NEW d, d = hand[u].doc
  PROVE  /\ Changes(d, JustStatus)
         /\ row'[d].status = IF row[d].status = "draft" THEN "posted" ELSE row[d].status
<1>1. At(u, "post", {"purchaseReturn"}) /\ row' = Flipped(d, {"draft"}, "posted") /\ row \in [Docs -> Row]
  BY DEF CommitBillReturn, TypeIInv, PapersOK
<1>2. d \in Docs /\ "posted" \in Status
  BY <1>1, AtIs DEF Status
<1> QED
  BY <1>1, <1>2, FlipDoes

LEMMA CommitBillReturnType ==
  ASSUME TypeIInv, NEW u \in Users, CommitBillReturn(u)
  PROVE  TypeIInv'
<1> DEFINE d == hand[u].doc
           n == hand[u].seen.qty
<1>1. At(u, "post", {"purchaseReturn"}) /\ row \in [Docs -> Row]
  BY DEF CommitBillReturn, TypeIInv, PapersOK
<1>2. d \in Docs /\ hand[u].op # "idle" /\ n \in Int /\ hand[u].take \in Seq(Nat)
  BY <1>1, AtIs, RowColumns
<1>3. Closes(u)
  BY <1>2, EndsAlone DEF CommitBillReturn
<1>4. row' \in [Docs -> Row] /\ KindsStay
  BY <1>1, <1>2, CommitBillReturnDoes, ChangesType
<1>5. gl' \in [Accounts -> Int] /\ entries' \in [Docs -> Nat] /\ booked' \in [Docs -> Int] /\ reversed' \in [Docs -> Nat]
  <2> DEFINE legs == [creditors |-> -n, inventory |-> -n]
  <2>1. \A a \in DOMAIN legs : legs[a] \in Int
    BY <1>2
  <2>2. Journal(d, legs)
    BY DEF CommitBillReturn
  <2> HIDE DEF legs
  <2> QED
    BY <1>2, <2>1, <2>2, JournalType DEF TypeIInv
<1>6. stock' \in [Products -> [Warehouses -> Int]] /\ layers' \in [Products -> Seq(Nat)]
  <2>1. "raw" \in Products /\ -Lines(d) \in Int
    BY <1>1, <1>2, LinesType DEF Products
  <2>2. PICK w \in Warehouses : Moves("raw", w, -Lines(d))
    BY SourcesType DEF CommitBillReturn
  <2> QED
    BY <1>2, <2>1, <2>2, MovesType, ConsumesType DEF CommitBillReturn, TypeIInv
<1>7. owed' \in Int /\ due' \in Int
  BY <1>2 DEF CommitBillReturn, TypeIInv, MoneyOK
<1> QED
  BY <1>3, <1>4, <1>5, <1>6, <1>7, CommitType

LEMMA CreateBillReversalDoes ==
  ASSUME TypeIInv, NEW u \in Users, CreateBillReversal(u)
  PROVE  /\ TypeIInv'
         /\ \E d \in Docs : /\ row[d].kind = "purchaseReturn" /\ row[d].status = "none" /\ Returns(u, d)
                            /\ hand[u].op = "return"
<1>1. PICK d \in Docs : /\ row[d].kind = "purchaseReturn" /\ row[d].status = "none" /\ Returns(u, d)
                        /\ hand[u].op = "return"
  BY DEF CreateBillReversal, At, Returns
<1> QED
  BY <1>1, ReturnsDoes

LEMMA PurchasesType ==
  ASSUME TypeIInv, PurchasesStep
  PROVE  TypeIInv'
<1>1. ASSUME NEW d \in Docs, CreateBill(d) PROVE TypeIInv'
  BY <1>1, DraftColumned, CreatesType DEF CreateBill
<1>2. ASSUME NEW d \in Docs, CreateBillReturn(d) PROVE TypeIInv'
  <2>1. PICK q \in 1..MaxQty, i \in Docs \cup {NoDoc} :
          Creates(d, {"purchaseReturn"}, [status |-> "draft", qty |-> q, link |-> i])
    BY <1>2 DEF CreateBillReturn
  <2>2. Columned([status |-> "draft", qty |-> q, link |-> i])
    BY DraftColumned DEF Columned, Columns
  <2> QED
    BY <2>1, <2>2, CreatesType
<1> QED
  BY <1>1, <1>2, PurchasesReads, CommitBillType, CommitBillReturnType, CreateBillReversalDoes DEF PurchasesStep

-----------------------------------------------------------------------------
LEMMA TermsType ==
  ASSUME NEW k, NEW t \in Terms(k), NEW s \in Status
  PROVE  /\ Columned(t) /\ DOMAIN t = {"qty", "link", "applied"}
         /\ Columned(Voucher(t, s)) /\ DOMAIN Voucher(t, s) = {"status", "qty", "link", "applied"}
<1>1. t = [qty |-> t.qty, link |-> t.link, applied |-> t.applied]
      /\ t.qty \in Int /\ t.link \in Docs \cup {NoDoc} /\ t.applied \in Int
  BY DEF Terms
<1> QED
  BY <1>1 DEF Columned, Columns, Voucher

LEMMA VouchersReads ==
  ASSUME TypeIInv, NEW u \in Users, NEW d \in Docs,
         \/ CreatePosted(u, d) \/ PostVoucher(u, d) \/ UpdateVoucher(u, d)
         \/ DeleteVoucher(u, d) \/ ReverseVoucher(u, d)
  PROVE  TypeIInv' /\ Quiet
<1>0. /\ row[d] \in Row /\ <<>> \in Seq(Nat) /\ Main \in Warehouses /\ "posted" \in Status
      /\ {"new", "post", "reverse"} \subseteq Ops \ {"idle", "next"} /\ booked[d] \in Int
      /\ {"draft", "cancelled"} \subseteq Status
  BY DEF TypeIInv, PapersOK, Ops, Warehouses, Status
<1>1. CASE CreatePosted(u, d)
  <2>1. PICK t \in Terms(row[d].kind) : Reads(u, "new", d, Voucher(t, "posted"), <<>>, Main)
    BY <1>1 DEF CreatePosted
  <2>2. row[d].kind \in Slips
    BY <1>1 DEF CreatePosted
  <2>3. PICK w : w = Voucher(t, "posted")
    OBVIOUS
  <2>4. Columned(w) /\ Equipped("new", row[d].kind, w)
    BY <1>0, <2>2, <2>3, TermsType DEF Equipped, Slips
  <2> QED
    BY <1>0, <2>1, <2>3, <2>4, ReadsType
<1>2. CASE PostVoucher(u, d)
  <2>1. PICK w : w = [qty |-> row[d].qty, link |-> row[d].link, applied |-> row[d].applied]
    OBVIOUS
  <2>2. Columned(w)
    BY <1>0, <2>1, RowColumns DEF Columned, Columns
  <2>3. Equipped("post", row[d].kind, w)
    BY <2>1 DEF Equipped
  <2>4. Reads(u, "post", d, w, <<>>, Main)
    BY <1>2, <2>1 DEF PostVoucher
  <2> QED
    BY <1>0, <2>2, <2>3, <2>4, ReadsType
<1>3. CASE UpdateVoucher(u, d)
  <2>1. CASE \E s \in {"draft", "cancelled"} : Edits(u, d, [status |-> s])
    <3>1. PICK s \in Status : Edits(u, d, [status |-> s])
      BY <1>0, <2>1
    <3>2. Columned([status |-> s])
      BY DEF Columned, Columns
    <3> QED
      BY <3>1, <3>2, EditsType
  <2>2. CASE \E t \in Terms(row[d].kind) : Edits(u, d, t)
    BY <1>0, <2>2, TermsType, EditsType
  <2> QED
    BY <1>3, <2>1, <2>2 DEF UpdateVoucher
<1>4. CASE DeleteVoucher(u, d)
  BY <1>4, DeletesType DEF DeleteVoucher
<1>5. CASE ReverseVoucher(u, d)
  <2>1. PICK w : w = [mark |-> booked[d]]
    OBVIOUS
  <2>2. Columned(w) /\ Equipped("reverse", row[d].kind, w)
    BY <1>0, <2>1 DEF Columned, Columns, Equipped
  <2>3. Reads(u, "reverse", d, w, <<>>, Main)
    BY <1>5, <2>1 DEF ReverseVoucher
  <2> QED
    BY <1>0, <2>2, <2>3, ReadsType
<1> QED
  BY <1>1, <1>2, <1>3, <1>4, <1>5

IsSettled(g, rows, i, n) == g = Settled(rows, i, n)

Settlement(g, rows, i, n) ==
  /\ g \in [Docs -> Row]
  /\ \A x \in Docs : g[x].kind = rows[x].kind
  /\ \A x \in Docs \ {i} : g[x] = rows[x]
  /\ i \in Docs /\ ~Exists(i) => g[i] = rows[i]
  /\ i \in Docs /\ Exists(i) =>
       /\ Like(g[i], rows[i], StatusPaid) /\ g[i].paid = rows[i].paid + n
       /\ g[i].status = IF rows[i].status \in {"cancelled", "paid"} THEN rows[i].status
                        ELSE IF rows[i].paid + n >= rows[i].qty THEN "paid" ELSE "partially_paid"

LEMMA SettledIs ==
  ASSUME NEW rows \in [Docs -> Row], NEW i \in Docs \cup {NoDoc}, NEW n \in Int, NEW g, IsSettled(g, rows, i, n)
  PROVE  Settlement(g, rows, i, n)
<1>1. CASE i = NoDoc \/ ~Exists(i)
  BY <1>1, BooksAssumption DEF Settlement, IsSettled, Settled, BooksAssumption
<1>2. CASE ~(i = NoDoc \/ ~Exists(i))
  <2>1. i \in Docs /\ Exists(i) /\ rows[i] \in Row
    BY <1>2
  <2>2. PICK m \in Int : m = rows[i].paid + n
    BY <2>1 DEF Row
  <2>3. PICK s : s = IF rows[i].status \in {"cancelled", "paid"} THEN rows[i].status
                     ELSE IF m >= rows[i].qty THEN "paid" ELSE "partially_paid"
    OBVIOUS
  <2>4. s \in Status
    <3>1. "paid" \in Status /\ "partially_paid" \in Status
      BY DEF Status
    <3> QED
      BY <2>1, <2>3, <3>1, RowColumns
  <2>5. PICK r : r = [rows[i] EXCEPT !.paid = m, !.status = s]
    OBVIOUS
  <2>6. r \in Row /\ Like(r, rows[i], StatusPaid) /\ r.paid = m /\ r.status = s
    BY <2>1, <2>4, <2>5 DEF Like, JustStatus, StatusPaid, StatusLinkQty, Row
  <2>7. g = [rows EXCEPT ![i] = r]
    BY <1>2, <2>2, <2>3, <2>5 DEF IsSettled, Settled
  <2> QED
    BY <1>2, <2>1, <2>2, <2>3, <2>6, <2>7, BooksAssumption DEF Settlement, Like, JustStatus, StatusPaid, StatusLinkQty, BooksAssumption
<1> QED
  BY <1>1, <1>2

LEMMA BookingType ==
  ASSUME TypeIInv, NEW u \in Users, NEW op \in {"post", "new"}, At(u, op, Slips), Booking(u),
         row' \in [Docs -> Row], KindsStay
  PROVE  TypeIInv'
<1> DEFINE d == hand[u].doc
           t == hand[u].want
           k == hand[u].seen.kind
<1>1. d \in Docs /\ hand[u].op # "idle" /\ t.qty \in Int /\ k \in Slips
  <2>1. d \in Docs /\ hand[u].op # "idle" /\ Columned(t) /\ Equipped(op, k, t) /\ k \in Slips
    BY AtIs
  <2> QED
    BY <2>1 DEF Columned, Equipped
<1>2. Closes(u)
  BY <1>1, EndsType DEF Booking
<1>3. gl' \in [Accounts -> Int] /\ entries' \in [Docs -> Nat] /\ booked' \in [Docs -> Int] /\ reversed' \in [Docs -> Nat]
  <2>1. CASE k = "receipt"
    <3> DEFINE legs == [cash |-> t.qty, debtors |-> -t.qty]
    <3>1. \A a \in DOMAIN legs : legs[a] \in Int
      BY <1>1
    <3>2. Journal(d, legs)
      BY <2>1 DEF Booking
    <3> HIDE DEF legs
    <3> QED
      BY <1>1, <3>1, <3>2, JournalType DEF TypeIInv
  <2>2. CASE k # "receipt"
    <3> DEFINE legs == [cash |-> -t.qty, creditors |-> -t.qty]
    <3>1. \A a \in DOMAIN legs : legs[a] \in Int
      BY <1>1
    <3>2. Journal(d, legs)
      BY <2>2 DEF Booking
    <3> HIDE DEF legs
    <3> QED
      BY <1>1, <3>1, <3>2, JournalType DEF TypeIInv
  <2> QED
    BY <2>1, <2>2
<1>4. owed' \in Int /\ due' \in Int
  BY <1>1 DEF Booking, SettlesBalance, TypeIInv, MoneyOK
<1>5. stock' \in [Products -> [Warehouses -> Int]] /\ layers' \in [Products -> Seq(Nat)]
  BY DEF Booking, goods, TypeIInv, GoodsOK
<1> QED
  BY <1>2, <1>3, <1>4, <1>5, CommitType

(* What the plan of a voucher names. *)
LEMMA SlipPlan ==
  ASSUME TypeIInv, NEW u \in Users, NEW op \in {"post", "new"}, At(u, op, Slips)
  PROVE  /\ hand[u].doc \in Docs /\ row[hand[u].doc].kind \in Slips /\ Columned(hand[u].want)
         /\ hand[u].want.qty \in Int /\ hand[u].want.applied \in Int /\ hand[u].want.link \in Docs \cup {NoDoc}
<1>1. /\ hand[u].doc \in Docs /\ row[hand[u].doc].kind = hand[u].seen.kind /\ hand[u].seen.kind \in Slips
      /\ Columned(hand[u].want) /\ Equipped(op, hand[u].seen.kind, hand[u].want)
  BY AtIs
<1> QED
  BY <1>1 DEF Columned, Equipped

(* An application of n to the invoice i, in a step that also writes d.     *)
Applies(d, i, n) ==
  /\ row' \in [Docs -> Row] /\ KindsStay
  /\ \A x \in Docs \ {d, i} : row'[x] = row[x]
  /\ i \in Docs \ {d} /\ ~Exists(i) => row'[i] = row[i]
  /\ i \in Docs \ {d} /\ Exists(i) =>
       /\ Like(row'[i], row[i], StatusPaid) /\ row'[i].paid = row[i].paid + n
       /\ row'[i].status = IF row[i].status \in {"cancelled", "paid"} THEN row[i].status
                           ELSE IF row[i].paid + n >= row[i].qty THEN "paid" ELSE "partially_paid"

LEMMA CommitVoucherDoes ==
  ASSUME TypeIInv, NEW u \in Users, CommitVoucher(u), NEW d, d = hand[u].doc,
         NEW i, i = hand[u].want.link, NEW n, n = hand[u].want.applied
  PROVE  /\ Applies(d, i, n)
         /\ d # i => /\ Like(row'[d], row[d], JustStatus)
                     /\ row'[d].status = IF row[d].status = "draft" THEN "posted" ELSE row[d].status
<1>1. At(u, "post", Slips) /\ row \in [Docs -> Row] /\ "posted" \in Status
  BY DEF CommitVoucher, TypeIInv, PapersOK, Status
<1>2. d \in Docs /\ i \in Docs \cup {NoDoc} /\ n \in Int
  BY <1>1, SlipPlan
<1>3. PICK f : IsFlip(f, d, "draft", "posted")
  BY DEF IsFlip
<1>4. FlipsOnly(f, d, "draft", "posted")
  BY <1>1, <1>2, <1>3, FlipOne
<1>5. /\ f \in [Docs -> Row] /\ (\A x \in Docs \ {d} : f[x] = row[x]) /\ Like(f[d], row[d], JustStatus)
      /\ f[d].status = IF row[d].status = "draft" THEN "posted" ELSE row[d].status
  BY <1>1, <1>2, <1>4 DEF FlipsOnly
<1>6. PICK g : g = row' /\ IsSettled(g, f, i, n)
  BY <1>3 DEF CommitVoucher, IsSettled, IsFlip
<1>7. Settlement(g, f, i, n)
  BY <1>2, <1>5, <1>6, SettledIs
<1>8. KindsStay
  <2>1. \A x \in Docs : f[x].kind = row[x].kind
    BY <1>5 DEF Like
  <2>2. \A x \in Docs : g[x].kind = f[x].kind
    BY <1>7 DEF Settlement
  <2>. QED  BY <1>6, <2>1, <2>2 DEF KindsStay
<1>9. d # i => row'[d] = f[d]
  BY <1>2, <1>6, <1>7 DEF Settlement
<1>10. Applies(d, i, n)
  <2>1. i \in Docs \ {d} => f[i] = row[i]
    BY <1>5
  <2>2. \A x \in Docs \ {d, i} : row'[x] = row[x]
    BY <1>5, <1>6, <1>7 DEF Settlement
  <2>. QED  BY <1>6, <1>7, <1>8, <2>1, <2>2 DEF Applies, Settlement
<1> QED
  BY <1>5, <1>9, <1>10

LEMMA CommitCreatedDoes ==
  ASSUME TypeIInv, NEW u \in Users, CommitCreated(u), NEW d, d = hand[u].doc,
         NEW i, i = hand[u].want.link, NEW n, n = hand[u].want.applied
  PROVE  /\ Applies(d, i, n) /\ row[d].status = "none"
         /\ d # i => row'[d] = Updated(row[d], hand[u].want)
<1>1. At(u, "new", Slips) /\ row \in [Docs -> Row] /\ row[d].status = "none"
  BY DEF CommitCreated, TypeIInv, PapersOK
<1>2. d \in Docs /\ i \in Docs \cup {NoDoc} /\ n \in Int
  BY <1>1, SlipPlan
<1>3. PICK r \in Row : r = Updated(row[d], hand[u].want) /\ r.kind = row[d].kind
  <2>1. Columned(hand[u].want)
    BY <1>1, SlipPlan
  <2> QED
    BY <1>1, <1>2, <2>1, UpdatedRow
<1>4. PICK f : f = [row EXCEPT ![d] = r]
  OBVIOUS
<1>5. f \in [Docs -> Row] /\ f[d] = r /\ (\A x \in Docs \ {d} : f[x] = row[x])
  BY <1>1, <1>2, <1>4
<1>6. PICK g : g = row' /\ IsSettled(g, f, i, n)
  BY <1>3, <1>4 DEF CommitCreated, IsSettled
<1>7. Settlement(g, f, i, n)
  BY <1>2, <1>5, <1>6, SettledIs
<1>8. KindsStay
  <2>1. \A x \in Docs : f[x].kind = row[x].kind
    BY <1>3, <1>5
  <2>2. \A x \in Docs : g[x].kind = f[x].kind
    BY <1>7 DEF Settlement
  <2>. QED  BY <1>6, <2>1, <2>2 DEF KindsStay
<1>9. d # i => row'[d] = r
  BY <1>2, <1>5, <1>6, <1>7 DEF Settlement
<1>10. Applies(d, i, n)
  <2>1. i \in Docs \ {d} => f[i] = row[i]
    BY <1>5
  <2>2. \A x \in Docs \ {d, i} : row'[x] = row[x]
    BY <1>5, <1>6, <1>7 DEF Settlement
  <2>. QED  BY <1>6, <1>7, <1>8, <2>1, <2>2 DEF Applies, Settlement
<1> QED
  BY <1>1, <1>3, <1>9, <1>10

LEMMA CommitReverseDoes ==
  ASSUME TypeIInv, NEW u \in Users, CommitReverse(u), NEW d, d = hand[u].doc
  PROVE  /\ Changes(d, JustStatus)
         /\ row'[d].status = IF row[d].status = "posted" THEN "reversed" ELSE row[d].status
<1>1. At(u, "reverse", Slips) /\ row' = Flipped(d, {"posted"}, "reversed") /\ row \in [Docs -> Row]
  BY DEF CommitReverse, TypeIInv, PapersOK
<1>2. d \in Docs /\ "reversed" \in Status
  BY <1>1, AtIs DEF Status
<1> QED
  BY <1>1, <1>2, FlipDoes

LEMMA CommitReverseType ==
  ASSUME TypeIInv, NEW u \in Users, CommitReverse(u)
  PROVE  TypeIInv'
<1> DEFINE d == hand[u].doc
           k == hand[u].seen.kind
           c == hand[u].want.mark
<1>1. At(u, "reverse", Slips) /\ row \in [Docs -> Row]
  BY DEF CommitReverse, TypeIInv, PapersOK
<1>2. d \in Docs /\ hand[u].op # "idle" /\ c \in Int /\ hand[u].seen.qty \in Int
  <2>1. /\ d \in Docs /\ hand[u].op # "idle" /\ hand[u].seen \in Row /\ k \in Slips
        /\ Columned(hand[u].want) /\ Equipped("reverse", k, hand[u].want)
    BY <1>1, AtIs
  <2> QED
    BY <2>1, RowColumns DEF Columned, Equipped
<1>3. Closes(u)
  BY <1>2, EndsAlone DEF CommitReverse
<1>4. row' \in [Docs -> Row] /\ KindsStay
  BY <1>1, <1>2, CommitReverseDoes, ChangesType
<1>5. gl' \in [Accounts -> Int]
  <2> DEFINE legs == IF k = "receipt" THEN [cash |-> -c, debtors |-> c] ELSE [cash |-> -c, creditors |-> -c]
  <2>1. \A a \in DOMAIN legs : legs[a] \in Int
    BY <1>2
  <2>2. Ledger(legs)
    BY DEF CommitReverse
  <2> HIDE DEF legs
  <2> QED
    BY <2>1, <2>2, LedgerType DEF TypeIInv, MoneyOK
<1>6. entries' \in [Docs -> Nat] /\ booked' \in [Docs -> Int] /\ reversed' \in [Docs -> Nat]
  <2>1. UNCHANGED <<entries, booked>> /\ reversed' = [reversed EXCEPT ![d] = @ + 1]
    BY DEF CommitReverse
  <2> QED
    BY <1>2, <2>1 DEF TypeIInv, PapersOK
<1>7. /\ owed' \in Int /\ due' \in Int
      /\ stock' \in [Products -> [Warehouses -> Int]] /\ layers' \in [Products -> Seq(Nat)]
  BY <1>2 DEF CommitReverse, RestoresBalance, goods, TypeIInv, MoneyOK, GoodsOK
<1> QED
  BY <1>3, <1>4, <1>5, <1>6, <1>7, CommitType

LEMMA VouchersType ==
  ASSUME TypeIInv, VouchersStep
  PROVE  TypeIInv'
<1>1. ASSUME NEW d \in Docs, CreateVoucher(d) PROVE TypeIInv'
  <2>1. PICK t \in Terms(row[d].kind) : Creates(d, Slips, Voucher(t, "draft"))
    BY <1>1 DEF CreateVoucher
  <2>2. PICK w : w = Voucher(t, "draft")
    OBVIOUS
  <2>3. Columned(w)
    BY <2>2, DraftColumned, TermsType
  <2> QED
    BY <2>1, <2>2, <2>3, CreatesType
<1>2. ASSUME NEW u \in Users, CommitVoucher(u) PROVE TypeIInv'
  <2>1. At(u, "post", Slips) /\ Booking(u)
    BY <1>2 DEF CommitVoucher
  <2>2. row' \in [Docs -> Row] /\ KindsStay
    BY <1>2, CommitVoucherDoes DEF Applies
  <2> QED
    BY <2>1, <2>2, BookingType
<1>3. ASSUME NEW u \in Users, CommitCreated(u) PROVE TypeIInv'
  <2>1. At(u, "new", Slips) /\ Booking(u)
    BY <1>3 DEF CommitCreated
  <2>2. row' \in [Docs -> Row] /\ KindsStay
    BY <1>3, CommitCreatedDoes DEF Applies
  <2> QED
    BY <2>1, <2>2, BookingType
<1> QED
  BY <1>1, <1>2, <1>3, VouchersReads, CommitReverseType DEF VouchersStep

-----------------------------------------------------------------------------
LEMMA StaysDoes ==
  ASSUME row \in [Docs -> Row], NEW d \in Docs, NEW cols, row' = row
  PROVE  Changes(d, cols)
  BY DEF Changes, Like

LEMMA StatusDoes ==
  ASSUME row \in [Docs -> Row], NEW d \in Docs, NEW s \in Status, row' = [row EXCEPT ![d].status = s]
  PROVE  Changes(d, JustStatus) /\ row'[d].status = s
<1>1. PICK r : r = [row[d] EXCEPT !.status = s]
  OBVIOUS
<1>2. r \in Row /\ Like(r, row[d], JustStatus) /\ r.status = s
  BY <1>1 DEF Like, JustStatus, Row
<1>3. row' = [row EXCEPT ![d] = r]
  BY <1>1
<1> QED
  BY <1>2, <1>3, RowChanges

(* An UPDATE by id: nothing when the document is gone.                     *)
LEMMA StatusIfDoes ==
  ASSUME row \in [Docs -> Row], NEW d \in Docs, NEW s \in Status,
         row' = IF Exists(d) THEN [row EXCEPT ![d].status = s] ELSE row
  PROVE  /\ Changes(d, JustStatus)
         /\ row'[d].status = IF Exists(d) THEN s ELSE row[d].status
<1>1. CASE Exists(d)
  BY <1>1, StatusDoes
<1>2. CASE ~Exists(d)
  BY <1>2, StaysDoes
<1> QED
  BY <1>1, <1>2

(* A session takes up a plan for the row it has just written.              *)
LEMMA TakesUp ==
  ASSUME TypeIInv, NEW u \in Users, NEW d \in Docs, NEW op \in Ops, NEW want, Columned(want), NEW r \in Row,
         Equipped(op, row[d].kind, want), r.kind = row[d].kind, row' \in [Docs -> Row], KindsStay,
         hand' = [hand EXCEPT ![u] = [Idle EXCEPT !.op = op, !.doc = d, !.seen = r, !.want = want]]
  PROVE  HandsOK'
<1>1. PICK h : h = [Idle EXCEPT !.op = op, !.doc = d, !.seen = r, !.want = want]
  OBVIOUS
<1>2. h = [op |-> op, doc |-> d, seen |-> r, want |-> want, take |-> Idle.take, at |-> Idle.at]
  BY <1>1 DEF Idle
<1>3. PlanOf(Idle)
  BY IdleIsPlan
<1>4. PlanOf(h)
  BY <1>2, <1>3 DEF PlanOf
<1>5. Placed(h, row')
  BY <1>2 DEF Placed, KindsStay
<1>6. hand' = [hand EXCEPT ![u] = h]
  BY <1>1
<1> QED
  BY <1>4, <1>5, <1>6, HandTurn DEF TypeIInv

LEMMA CreateTransferDoes ==
  ASSUME TypeIInv, NEW u \in Users, NEW d \in Docs, CreateTransfer(u, d)
  PROVE  TypeIInv' /\ Changes(d, JustStatus) /\ row'[d].status = "draft"
<1>1. row \in [Docs -> Row] /\ "draft" \in Status /\ "write" \in Ops
  BY DEF TypeIInv, PapersOK, Status, Ops
<1>2. Changes(d, JustStatus) /\ row'[d].status = "draft"
  BY <1>1, StatusDoes DEF CreateTransfer
<1>3. row' \in [Docs -> Row] /\ KindsStay
  BY <1>1, <1>2, ChangesType
<1>4. HandsOK'
  <2>1. PICK q \in 1..MaxQty : hand' = [hand EXCEPT ![u] = [Idle EXCEPT !.op = "write", !.doc = d,
                                                !.seen = row'[d], !.want = [qty |-> q]]]
    BY DEF CreateTransfer
  <2>2. PICK w, r : w = [qty |-> q] /\ r = row'[d]
    OBVIOUS
  <2>3. Columned(w) /\ Equipped("write", row[d].kind, w)
    BY <2>2 DEF Columned, Columns, Equipped
  <2>4. r \in Row /\ r.kind = row[d].kind
    BY <1>3, <2>2 DEF KindsStay
  <2>5. hand' = [hand EXCEPT ![u] = [Idle EXCEPT !.op = "write", !.doc = d, !.seen = r, !.want = w]]
    BY <2>1, <2>2
  <2> QED
    BY <1>1, <1>3, <2>3, <2>4, <2>5, TakesUp
<1>5. ops' \in 0..MaxOps
  BY BooksAssumption DEF BooksAssumption, CreateTransfer, TypeIInv, CountsOK
<1>6. TypeIInv'
  BY <1>3, <1>4, <1>5 DEF CreateTransfer, money, goods, TypeIInv, PapersOK, MoneyOK, GoodsOK, CountsOK
<1> QED
  BY <1>2, <1>6

LEMMA DeleteTransferDoes ==
  ASSUME TypeIInv, NEW u \in Users, NEW d \in Docs, DeleteTransfer(u, d)
  PROVE  TypeIInv' /\ Changes(d, JustQty) /\ row'[d].qty = 0
<1>1. row \in [Docs -> Row] /\ row[d] \in Row /\ "gone" \in Status /\ "write" \in Ops
  BY DEF TypeIInv, PapersOK, Status, Ops
<1>2. Changes(d, JustQty) /\ row'[d].qty = 0
  <2>1. PICK r : r = [row[d] EXCEPT !.qty = 0]
    OBVIOUS
  <2>2. r \in Row /\ Like(r, row[d], JustQty) /\ r.qty = 0
    BY <1>1, <2>1 DEF Row, Like, JustQty
  <2>3. row' = [row EXCEPT ![d] = r]
    BY <2>1 DEF DeleteTransfer
  <2> QED
    BY <1>1, <2>2, <2>3, RowChanges
<1>3. row' \in [Docs -> Row] /\ KindsStay
  BY <1>1, <1>2, ChangesType
<1>4. HandsOK'
  <2>2. PICK w, r : w = [status |-> "gone"] /\ r = row'[d]
    OBVIOUS
  <2>3. Columned(w) /\ Equipped("write", row[d].kind, w)
    BY <1>1, <2>2 DEF Columned, Columns, Equipped
  <2>4. r \in Row /\ r.kind = row[d].kind
    BY <1>3, <2>2 DEF KindsStay
  <2>5. hand' = [hand EXCEPT ![u] = [Idle EXCEPT !.op = "write", !.doc = d, !.seen = r, !.want = w]]
    BY <2>2 DEF DeleteTransfer
  <2> QED
    BY <1>1, <1>3, <2>3, <2>4, <2>5, TakesUp
<1>5. ops' \in 0..MaxOps
  BY BooksAssumption DEF BooksAssumption, DeleteTransfer, TypeIInv, CountsOK
<1>6. TypeIInv'
  BY <1>3, <1>4, <1>5 DEF DeleteTransfer, money, goods, TypeIInv, PapersOK, MoneyOK, GoodsOK, CountsOK
<1> QED
  BY <1>2, <1>6

LEMMA CheckFloorDoes ==
  ASSUME TypeIInv, NEW u \in Users, CheckFloor(u)
  PROVE  TypeIInv' /\ Quiet
<1>1. Quiet /\ KindsStay
  BY QuietKinds DEF CheckFloor, Quiet
<1>2. At(u, "floor", {"transfer"}) /\ "post" \in Ops /\ hand' = [hand EXCEPT ![u].op = "post"] /\ HandsOK
  BY DEF CheckFloor, Ops, TypeIInv
<1>3. hand[u].op \notin {"idle", "next"} /\ hand[u].seen.kind = "transfer"
  BY <1>2 DEF At
<1>4. Equipped("post", hand[u].seen.kind, hand[u].want)
  BY <1>3 DEF Equipped, Slips
<1>5. HandsOK'
  BY <1>1, <1>2, <1>3, <1>4, HandGoesOn
<1> QED
  BY <1>1, <1>5, QuietType DEF CheckFloor, TypeIInv, CountsOK

LEMMA CommitTransferDoes ==
  ASSUME TypeIInv, NEW u \in Users, CommitTransfer(u), NEW d, d = hand[u].doc
  PROVE  /\ Changes(d, JustStatus)
         /\ row'[d].status = IF Exists(d) THEN "completed" ELSE row[d].status
<1>1. At(u, "post", {"transfer"}) /\ row \in [Docs -> Row] /\ "completed" \in Status
      /\ row' = IF Exists(d) THEN [row EXCEPT ![d].status = "completed"] ELSE row
  BY DEF CommitTransfer, TypeIInv, PapersOK, Status
<1>2. d \in Docs
  BY <1>1, AtIs
<1> QED
  BY <1>1, <1>2, StatusIfDoes

LEMMA CommitTransferType ==
  ASSUME TypeIInv, NEW u \in Users, CommitTransfer(u)
  PROVE  TypeIInv'
<1> DEFINE d == hand[u].doc
<1>1. At(u, "post", {"transfer"}) /\ row \in [Docs -> Row]
  BY DEF CommitTransfer, TypeIInv, PapersOK
<1>2. d \in Docs /\ hand[u].op # "idle"
  BY <1>1, AtIs
<1>3. Closes(u)
  BY <1>2, EndsAlone DEF CommitTransfer
<1>4. row' \in [Docs -> Row] /\ KindsStay
  BY <1>1, <1>2, CommitTransferDoes, ChangesType
<1>5. stock' \in [Products -> [Warehouses -> Int]]
  <2>1. PICK n \in Int : n = Lines(d)
    BY <1>1, <1>2, LinesType
  <2>2. stock' = [stock EXCEPT !["raw"][Main] = @ - n, !["raw"][Branch] = @ + n]
    BY <2>1 DEF CommitTransfer
  <2>3. stock \in [Products -> [Warehouses -> Int]] /\ "raw" \in Products /\ Main \in Warehouses /\ Branch \in Warehouses
    BY DEF TypeIInv, GoodsOK, Products, Warehouses
  <2>4. PICK s \in [Warehouses -> Int] : s = stock["raw"]
    BY <2>3
  <2>5. PICK a, b : a = s[Main] - n /\ b = [s EXCEPT ![Main] = a][Branch] + n
    OBVIOUS
  <2>6. a \in Int /\ [s EXCEPT ![Main] = a][Branch] \in Int /\ b \in Int
    BY <2>1, <2>3, <2>4, <2>5
  <2>7. PICK t : t = [s EXCEPT ![Main] = a, ![Branch] = b]
    OBVIOUS
  <2>8. t \in [Warehouses -> Int]
    BY <2>3, <2>4, <2>6, <2>7
  <2>9. stock' = [stock EXCEPT !["raw"] = t]
    BY <2>2, <2>3, <2>4, <2>5, <2>7, BooksAssumption DEF BooksAssumption
  <2> QED
    BY <2>3, <2>8, <2>9
<1>6. UNCHANGED <<entries, booked, reversed, gl, owed, due, layers>>
  BY DEF CommitTransfer, money
<1> QED
  BY <1>3, <1>4, <1>5, <1>6, CommitType DEF TypeIInv, PapersOK, MoneyOK, GoodsOK

LEMMA ApproveAdjustmentDoes ==
  ASSUME TypeIInv, NEW d \in Docs, ApproveAdjustment(d)
  PROVE  TypeIInv' /\ Changes(d, JustStatus) /\ row'[d].status = "approved"
<1>1. row \in [Docs -> Row] /\ "approved" \in Status /\ row' = [row EXCEPT ![d].status = "approved"]
  BY DEF TypeIInv, PapersOK, Status, ApproveAdjustment
<1>2. Changes(d, JustStatus) /\ row'[d].status = "approved"
  BY <1>1, StatusDoes
<1>3. row' \in [Docs -> Row] /\ KindsStay
  BY <1>1, <1>2, ChangesType
<1>4. UNCHANGED <<entries, booked, reversed, gl, owed, due, stock, layers, hand, ops>> /\ disturbed' \subseteq disturbed \cup {d}
  BY DEF ApproveAdjustment, money, goods
<1>5. HandsOK'
  BY <1>3, <1>4, HandRests DEF TypeIInv
<1>6. TypeIInv'
  BY <1>3, <1>4, <1>5 DEF TypeIInv, PapersOK, MoneyOK, GoodsOK, CountsOK
<1> QED
  BY <1>2, <1>6

LEMMA InventoryReads ==
  ASSUME TypeIInv, NEW u \in Users, NEW d \in Docs,
         \/ CompleteTransfer(u, d) \/ UpdateAdjustment(u, d) \/ DeleteAdjustment(u, d) \/ PostAdjustment(u, d)
  PROVE  TypeIInv' /\ Quiet
<1>0. row[d] \in Row /\ layers["raw"] \in Seq(Nat)
  BY DEF TypeIInv, PapersOK, GoodsOK, Products
<1>1. CASE CompleteTransfer(u, d)
  <2>1. "floor" \in Ops \ {"idle", "next"} /\ Equipped("floor", row[d].kind, Idle.want)
    BY DEF Ops, Equipped
  <2> QED
    BY <1>1, <2>1, KeepsType DEF CompleteTransfer
<1>2. CASE UpdateAdjustment(u, d)
  <2>1. ASSUME NEW n \in 0..(MaxQty + 1) PROVE Columned([actual |-> n])
    BY DEF Columned, Columns
  <2> QED
    BY <1>2, <2>1, EditsType DEF UpdateAdjustment
<1>3. CASE DeleteAdjustment(u, d)
  BY <1>3, DeletesType DEF DeleteAdjustment
<1>4. CASE PostAdjustment(u, d)
  <2>1. row[d].mark - row[d].actual \in Int
    BY <1>0, RowColumns
  <2>2. Fifo(row[d].mark - row[d].actual) \in Seq(Nat)
    BY <1>0, <2>1, FifoIsTake
  <2>3. row[d].kind \notin Slips
    BY <1>4 DEF PostAdjustment, Slips
  <2> QED
    BY <1>4, <2>2, <2>3, PostsType DEF PostAdjustment
<1> QED
  BY <1>1, <1>2, <1>3, <1>4

LEMMA CommitAdjustmentDoes ==
  ASSUME TypeIInv, NEW u \in Users, CommitAdjustment(u), NEW d, d = hand[u].doc
  PROVE  /\ Changes(d, JustStatus)
         /\ row'[d].status = IF Exists(d) THEN "posted" ELSE row[d].status
<1>1. At(u, "post", {"adjustment"}) /\ row \in [Docs -> Row] /\ "posted" \in Status
      /\ row' = IF Exists(d) THEN [row EXCEPT ![d].status = "posted"] ELSE row
  BY DEF CommitAdjustment, TypeIInv, PapersOK, Status
<1>2. d \in Docs
  BY <1>1, AtIs
<1> QED
  BY <1>1, <1>2, StatusIfDoes

LEMMA CommitAdjustmentType ==
  ASSUME TypeIInv, NEW u \in Users, CommitAdjustment(u)
  PROVE  TypeIInv'
<1> DEFINE d == hand[u].doc
           r == hand[u].seen
<1>0. PICK n : n = r.actual - r.mark
  OBVIOUS
<1>1. At(u, "post", {"adjustment"}) /\ row \in [Docs -> Row]
  BY DEF CommitAdjustment, TypeIInv, PapersOK
<1>2. d \in Docs /\ hand[u].op # "idle" /\ r.actual \in Int /\ n \in Int /\ hand[u].take \in Seq(Nat)
  BY <1>0, <1>1, AtIs, RowColumns
<1>3. Closes(u)
  <2>1. PICK odd \in SUBSET Docs : EndsWith(u, odd)
    BY <1>2 DEF CommitAdjustment
  <2> QED
    BY <1>2, <2>1, EndsType
<1>4. row' \in [Docs -> Row] /\ KindsStay
  BY <1>1, <1>2, CommitAdjustmentDoes, ChangesType
<1>5. stock' \in [Products -> [Warehouses -> Int]]
  <2>1. stock' = [stock EXCEPT !["raw"][Main] = r.actual]
    BY DEF CommitAdjustment
  <2> QED
    BY <1>2, <2>1 DEF TypeIInv, GoodsOK, Products, Warehouses
<1>6. layers' \in [Products -> Seq(Nat)]
  <2>1. Opens("raw", n) \/ Consumes(hand[u].take)
    BY <1>0 DEF CommitAdjustment
  <2>2. "raw" \in Products
    BY DEF Products
  <2> QED
    BY <1>2, <2>1, <2>2, OpensType, ConsumesType DEF TypeIInv
<1>7. gl' \in [Accounts -> Int] /\ entries' \in [Docs -> Nat] /\ booked' \in [Docs -> Int] /\ reversed' \in [Docs -> Nat]
  <2> DEFINE legs == [inventory |-> n]
  <2>1. \A a \in DOMAIN legs : legs[a] \in Int
    BY <1>2
  <2>2. Journal(d, legs) \/ UNCHANGED <<gl, entries, booked, reversed>>
    BY <1>0 DEF CommitAdjustment
  <2> HIDE DEF legs
  <2>3. CASE Journal(d, legs)
    BY <1>2, <2>1, <2>3, JournalType DEF TypeIInv
  <2>4. CASE UNCHANGED <<gl, entries, booked, reversed>>
    BY <2>4 DEF TypeIInv, PapersOK, MoneyOK
  <2> QED
    BY <2>2, <2>3, <2>4
<1>8. owed' \in Int /\ due' \in Int
  BY DEF CommitAdjustment, TypeIInv, MoneyOK
<1> QED
  BY <1>3, <1>4, <1>5, <1>6, <1>7, <1>8, CommitType

LEMMA InventoryType ==
  ASSUME TypeIInv, InventoryStep
  PROVE  TypeIInv'
<1>1. ASSUME NEW d \in Docs, CreateAdjustment(d) PROVE TypeIInv'
  <2>1. PICK w : (\E n \in 0..(MaxQty + 1) : w = [status |-> "draft", mark |-> stock["raw"][Main], actual |-> n])
                 /\ Creates(d, {"adjustment"}, w)
    BY <1>1 DEF CreateAdjustment
  <2>2. stock["raw"][Main] \in Int
    BY DEF TypeIInv, GoodsOK, Products, Warehouses
  <2>3. Columned(w)
    BY <2>1, <2>2, DraftColumned DEF Columned, Columns
  <2> QED
    BY <2>1, <2>3, CreatesType
<1> QED
  BY <1>1, InventoryReads, CreateTransferDoes, DeleteTransferDoes, ApproveAdjustmentDoes, CheckFloorDoes,
     CommitTransferType, CommitAdjustmentType DEF InventoryStep

-----------------------------------------------------------------------------
Marks(d, s, m) == row' = [row EXCEPT ![d].status = s, ![d].mark = m]
MarksActual(d, s, m, a) == row' = [row EXCEPT ![d].status = s, ![d].mark = m, ![d].actual = a]

LEMMA MarkDoes ==
  ASSUME row \in [Docs -> Row], NEW d \in Docs, NEW s \in Status, NEW m \in Int,
         Marks(d, s, m)
  PROVE  Changes(d, StatusMark) /\ row'[d].status = s /\ row'[d].mark = m
<1>1. PICK r : r = [row[d] EXCEPT !.status = s, !.mark = m]
  OBVIOUS
<1>2. r \in Row /\ Like(r, row[d], StatusMark) /\ r.status = s /\ r.mark = m
  BY <1>1 DEF Like, StatusMark, Row
<1>3. row' = [row EXCEPT ![d] = r]
  BY <1>1 DEF Marks
<1> QED
  BY <1>2, <1>3, RowChanges

LEMMA MarkActualDoes ==
  ASSUME row \in [Docs -> Row], NEW d \in Docs, NEW s \in Status, NEW m \in Int, NEW a \in Int,
         MarksActual(d, s, m, a)
  PROVE  Changes(d, StatusMarkActual) /\ row'[d].status = s /\ row'[d].mark = m /\ row'[d].actual = a
<1>1. PICK r : r = [row[d] EXCEPT !.status = s, !.mark = m, !.actual = a]
  OBVIOUS
<1>2. r \in Row /\ Like(r, row[d], StatusMarkActual) /\ r.status = s /\ r.mark = m /\ r.actual = a
  BY <1>1 DEF Like, StatusMarkActual, Row
<1>3. row' = [row EXCEPT ![d] = r]
  BY <1>1 DEF MarksActual
<1> QED
  BY <1>2, <1>3, RowChanges

LEMMA UsedType == ASSUME NEW r \in Row PROVE Used(r) \in Int
  BY RowColumns DEF Used

LEMMA ManufacturingReads ==
  ASSUME TypeIInv, NEW u \in Users, NEW d \in Docs,
         \/ UpdateWorkOrder(u, d) \/ DeleteWorkOrder(u, d) \/ UpdateConsumption(u, d)
         \/ StartWorkOrder(u, d) \/ CompleteWorkOrder(u, d) \/ CancelWorkOrder(u, d)
  PROVE  TypeIInv' /\ Quiet
<1>0. row[d] \in Row /\ layers["raw"] \in Seq(Nat) /\ {"post", "complete", "cancel"} \subseteq Ops \ {"idle", "next"}
      /\ Columned(Idle.want)
  BY IdleIsPlan DEF TypeIInv, PapersOK, GoodsOK, Products, Ops, PlanOf
<1>1. CASE UpdateWorkOrder(u, d)
  <2>1. ASSUME NEW q \in 1..MaxQty PROVE Columned([qty |-> q])
    BY DEF Columned, Columns
  <2> QED
    BY <1>1, <2>1, EditsType DEF UpdateWorkOrder
<1>2. CASE DeleteWorkOrder(u, d)
  BY <1>2, DeletesType DEF DeleteWorkOrder
<1>3. CASE UpdateConsumption(u, d)
  <2>1. ASSUME NEW n \in 0..MaxQty PROVE Columned([actual |-> n])
    BY DEF Columned, Columns
  <2> QED
    BY <1>3, <2>1, EditsType DEF UpdateConsumption
<1>4. CASE StartWorkOrder(u, d)
  <2>1. PICK n : n = row[d].qty
    OBVIOUS
  <2>2. n \in Int /\ Fifo(n) \in Seq(Nat)
    BY <1>0, <2>1, RowColumns, FifoIsTake
  <2>3. Equipped("post", row[d].kind, Idle.want)
    BY <1>4 DEF StartWorkOrder, Equipped, Slips
  <2>4. PICK w \in Warehouses : Reads(u, "post", d, Idle.want, Fifo(n), w)
    BY <1>4, <2>1, SourcesType DEF StartWorkOrder
  <2> QED
    BY <1>0, <2>2, <2>3, <2>4, ReadsType
<1>5. CASE CompleteWorkOrder(u, d)
  <2>1. PICK n : n = Used(row[d]) - row[d].qty
    OBVIOUS
  <2>2. n \in Int /\ Fifo(n) \in Seq(Nat) /\ <<>> \in Seq(Nat)
    BY <1>0, <2>1, RowColumns, UsedType, FifoIsTake
  <2>3. Equipped("complete", row[d].kind, Idle.want)
    BY DEF Equipped
  <2>4. PICK w \in Warehouses, take \in Seq(Nat) : Reads(u, "complete", d, Idle.want, take, w)
    BY <1>5, <2>1, <2>2, SourcesType DEF CompleteWorkOrder
  <2> QED
    BY <1>0, <2>3, <2>4, ReadsType
<1>6. CASE CancelWorkOrder(u, d)
  <2>8. PICK backs : backs = IF row[d].status = "in_progress" THEN BOOLEAN ELSE {FALSE}
    OBVIOUS
  <2>0. PICK back \in backs, w \in Warehouses :
          Reads(u, "cancel", d, [actual |-> IF back THEN row[d].qty ELSE 0], <<>>, w)
    BY <1>6, <2>8, SourcesType DEF CancelWorkOrder
  <2>9. PICK want : want = [actual |-> IF back THEN row[d].qty ELSE 0]
    OBVIOUS
  <2>1. (want = [actual |-> row[d].qty] \/ want = [actual |-> 0]) /\ Reads(u, "cancel", d, want, <<>>, w)
    <3>1. Reads(u, "cancel", d, want, <<>>, w)
      BY <2>0, <2>9
    <3>2. want = [actual |-> row[d].qty] \/ want = [actual |-> 0]
      BY <2>9
    <3> QED
      BY <3>1, <3>2
  <2>2. PICK n : n = row[d].qty
    OBVIOUS
  <2>3. n \in Int /\ (want = [actual |-> n] \/ want = [actual |-> 0])
    BY <1>0, <2>1, <2>2, RowColumns
  <2>4. Columned(want)
    BY <2>3 DEF Columned, Columns
  <2>5. "actual" \in DOMAIN want
    BY <2>3
  <2>6. Equipped("cancel", row[d].kind, want) /\ <<>> \in Seq(Nat)
    BY <2>5 DEF Equipped
  <2> QED
    BY <1>0, <2>1, <2>4, <2>6, ReadsType
<1> QED
  BY <1>1, <1>2, <1>3, <1>4, <1>5, <1>6

LEMMA CommitStartDoes ==
  ASSUME TypeIInv, NEW u \in Users, CommitStart(u), NEW d, d = hand[u].doc
  PROVE  /\ Changes(d, StatusMark)
         /\ Exists(d) => row'[d].status = "in_progress" /\ row'[d].mark = hand[u].seen.qty
         /\ ~Exists(d) => row' = row
<1>1. At(u, "post", {"workOrder"}) /\ row \in [Docs -> Row] /\ "in_progress" \in Status
  BY DEF CommitStart, TypeIInv, PapersOK, Status
<1>2. d \in Docs /\ hand[u].seen.qty \in Int
  BY <1>1, AtIs, RowColumns
<1>3. CASE Exists(d)
  <2>1. Marks(d, "in_progress", hand[u].seen.qty)
    BY <1>3 DEF CommitStart, Marks
  <2> QED
    BY <1>1, <1>2, <1>3, <2>1, MarkDoes
<1>4. CASE ~Exists(d)
  BY <1>1, <1>2, <1>4, StaysDoes DEF CommitStart
<1> QED
  BY <1>3, <1>4

LEMMA CommitStartType ==
  ASSUME TypeIInv, NEW u \in Users, CommitStart(u)
  PROVE  TypeIInv'
<1> DEFINE d == hand[u].doc
<1>0. PICK n : n = hand[u].seen.qty
  OBVIOUS
<1>1. At(u, "post", {"workOrder"}) /\ row \in [Docs -> Row]
  BY DEF CommitStart, TypeIInv, PapersOK
<1>2. d \in Docs /\ hand[u].op # "idle" /\ n \in Int /\ -n \in Int /\ hand[u].take \in Seq(Nat) /\ hand[u].at \in Warehouses
  BY <1>0, <1>1, AtIs, RowColumns
<1>3. Closes(u)
  BY <1>2, EndsAlone DEF CommitStart
<1>4. row' \in [Docs -> Row] /\ KindsStay
  BY <1>1, <1>2, CommitStartDoes, ChangesType
<1>5. gl' \in [Accounts -> Int] /\ entries' \in [Docs -> Nat] /\ booked' \in [Docs -> Int] /\ reversed' \in [Docs -> Nat]
  <2> DEFINE legs == [wip |-> n, inventory |-> -n]
  <2>1. \A a \in DOMAIN legs : legs[a] \in Int
    BY <1>2
  <2>2. Journal(d, legs)
    BY <1>0 DEF CommitStart
  <2> HIDE DEF legs
  <2> QED
    BY <1>2, <2>1, <2>2, JournalType DEF TypeIInv
<1>6. stock' \in [Products -> [Warehouses -> Int]] /\ layers' \in [Products -> Seq(Nat)]
  <2>1. "raw" \in Products /\ Moves("raw", hand[u].at, -n)
    BY <1>0 DEF Products, CommitStart
  <2> QED
    BY <1>2, <2>1, MovesType, ConsumesType DEF CommitStart, TypeIInv
<1>7. owed' \in Int /\ due' \in Int
  BY DEF CommitStart, TypeIInv, MoneyOK
<1> QED
  BY <1>3, <1>4, <1>5, <1>6, <1>7, CommitType

LEMMA CommitCompleteDoes ==
  ASSUME TypeIInv, NEW u \in Users, CommitComplete(u), NEW d, d = hand[u].doc
  PROVE  /\ Changes(d, StatusMarkActual)
         /\ Exists(d) => row'[d].status = "completed" /\ row'[d].mark = 0 /\ row'[d].actual = Used(hand[u].seen)
         /\ ~Exists(d) => row' = row
<1>1. At(u, "complete", {"workOrder"}) /\ row \in [Docs -> Row] /\ "completed" \in Status
  BY DEF CommitComplete, TypeIInv, PapersOK, Status
<1>2. d \in Docs /\ Used(hand[u].seen) \in Int
  BY <1>1, AtIs, UsedType
<1>3. CASE Exists(d)
  <2>1. PICK a \in Int : a = Used(hand[u].seen)
    BY <1>2
  <2>2. MarksActual(d, "completed", 0, a)
    BY <1>3, <2>1 DEF CommitComplete, MarksActual
  <2> QED
    BY <1>1, <1>2, <1>3, <2>1, <2>2, MarkActualDoes
<1>4. CASE ~Exists(d)
  BY <1>1, <1>2, <1>4, StaysDoes DEF CommitComplete
<1> QED
  BY <1>3, <1>4

LEMMA CommitCompleteType ==
  ASSUME TypeIInv, NEW u \in Users, CommitComplete(u)
  PROVE  TypeIInv'
<1> DEFINE d == hand[u].doc
           r == hand[u].seen
<1>0. PICK n, m, q : n = Used(r) /\ m = r.mark /\ q = r.qty
  OBVIOUS
<1>1. At(u, "complete", {"workOrder"}) /\ row \in [Docs -> Row]
  BY DEF CommitComplete, TypeIInv, PapersOK
<1>2. d \in Docs /\ hand[u].op # "idle" /\ n \in Int /\ m \in Int /\ q \in Int /\ hand[u].take \in Seq(Nat) /\ hand[u].at \in Warehouses
  BY <1>0, <1>1, AtIs, RowColumns, UsedType
<1>3. Closes(u)
  BY <1>2, EndsAlone DEF CommitComplete
<1>4. row' \in [Docs -> Row] /\ KindsStay
  BY <1>1, <1>2, CommitCompleteDoes, ChangesType
<1>5. gl' \in [Accounts -> Int] /\ entries' \in [Docs -> Nat] /\ booked' \in [Docs -> Int] /\ reversed' \in [Docs -> Nat]
  <2> DEFINE legs == [finished |-> n, wip |-> -m, inventory |-> m - n]
  <2>1. \A a \in DOMAIN legs : legs[a] \in Int
    BY <1>2
  <2>2. Journal(d, legs)
    BY <1>0 DEF CommitComplete
  <2> HIDE DEF legs
  <2> QED
    BY <1>2, <2>1, <2>2, JournalType DEF TypeIInv
<1>6. stock' \in [Products -> [Warehouses -> Int]]
  <2>1. PICK e \in Int, w \in Warehouses : e = n - q /\ w = hand[u].at
    BY <1>2
  <2>2. stock' = [stock EXCEPT !["raw"][w] = @ - e, !["made"][Main] = @ + q]
    BY <1>0, <2>1 DEF CommitComplete
  <2>3. /\ stock \in [Products -> [Warehouses -> Int]] /\ "raw" \in Products /\ "made" \in Products
        /\ Main \in Warehouses
    BY DEF TypeIInv, GoodsOK, Products, Warehouses
  <2>4a. PICK a : a = [stock["raw"] EXCEPT ![w] = @ - e]
    OBVIOUS
  <2>4b. PICK b : b = [stock["made"] EXCEPT ![Main] = @ + q]
    OBVIOUS
  <2>4. a \in [Warehouses -> Int] /\ b \in [Warehouses -> Int]
    BY <1>2, <2>1, <2>3, <2>4a, <2>4b
  <2>5. PICK s : s = [stock EXCEPT !["raw"] = a]
    OBVIOUS
  <2>6. s = [stock EXCEPT !["raw"][w] = @ - e]
    BY <2>3, <2>4a, <2>5
  <2>7. stock' = [s EXCEPT !["made"][Main] = @ + q]
    BY <2>2, <2>6
  <2>8. s["made"] = stock["made"] /\ s \in [Products -> [Warehouses -> Int]]
    BY <2>3, <2>4, <2>5
  <2>9. stock' = [s EXCEPT !["made"] = b]
    BY <2>3, <2>4b, <2>7, <2>8
  <2> QED
    BY <2>3, <2>4, <2>8, <2>9
<1>7. layers' \in [Products -> Seq(Nat)]
  <2>1. PICK e \in Int : e = -(n - q)
    BY <1>2
  <2>2. PICK a, b : a = Opened(Consume(layers["raw"], hand[u].take), e) /\ b = Opened(layers["made"], q)
    OBVIOUS
  <2>3. layers["raw"] \in Seq(Nat) /\ layers["made"] \in Seq(Nat)
    BY DEF TypeIInv, GoodsOK, Products
  <2>4. a \in Seq(Nat) /\ b \in Seq(Nat)
    BY <1>2, <2>1, <2>2, <2>3, ConsumeType, OpenedType
  <2>5. layers' = [raw |-> a, made |-> b]
    BY <1>0, <2>1, <2>2 DEF CommitComplete
  <2> QED
    BY <2>4, <2>5 DEF Products
<1>8. owed' \in Int /\ due' \in Int
  BY DEF CommitComplete, TypeIInv, MoneyOK
<1> QED
  BY <1>3, <1>4, <1>5, <1>6, <1>7, <1>8, CommitType

LEMMA CommitCancelDoes ==
  ASSUME TypeIInv, NEW u \in Users, CommitCancel(u), NEW d, d = hand[u].doc
  PROVE  /\ Changes(d, StatusMark)
         /\ Exists(d) => row'[d].status = "cancelled" /\ row'[d].mark = 0
         /\ ~Exists(d) => row' = row
<1>1. At(u, "cancel", {"workOrder"}) /\ row \in [Docs -> Row] /\ "cancelled" \in Status
  BY DEF CommitCancel, TypeIInv, PapersOK, Status
<1>2. d \in Docs
  BY <1>1, AtIs
<1>3. CASE Exists(d)
  <2>1. Marks(d, "cancelled", 0)
    BY <1>3 DEF CommitCancel, Marks
  <2> QED
    BY <1>1, <1>2, <1>3, <2>1, MarkDoes
<1>4. CASE ~Exists(d)
  BY <1>1, <1>2, <1>4, StaysDoes DEF CommitCancel
<1> QED
  BY <1>3, <1>4

LEMMA CommitCancelType ==
  ASSUME TypeIInv, NEW u \in Users, CommitCancel(u)
  PROVE  TypeIInv'
<1> DEFINE d == hand[u].doc
<1>0. PICK back, wip : back = hand[u].want.actual /\ wip = hand[u].seen.mark
  OBVIOUS
<1>1. At(u, "cancel", {"workOrder"}) /\ row \in [Docs -> Row]
  BY DEF CommitCancel, TypeIInv, PapersOK
<1>2. d \in Docs /\ hand[u].op # "idle" /\ back \in Int /\ wip \in Int /\ hand[u].at \in Warehouses
  <2>1. /\ d \in Docs /\ hand[u].op # "idle" /\ hand[u].seen \in Row /\ hand[u].seen.kind = "workOrder"
        /\ Columned(hand[u].want) /\ Equipped("cancel", hand[u].seen.kind, hand[u].want) /\ hand[u].at \in Warehouses
    BY <1>1, AtIs
  <2> QED
    BY <1>0, <2>1, RowColumns DEF Columned, Equipped
<1>3. Closes(u)
  BY <1>2, EndsAlone DEF CommitCancel
<1>4. row' \in [Docs -> Row] /\ KindsStay
  BY <1>1, <1>2, CommitCancelDoes, ChangesType
<1>5. gl' \in [Accounts -> Int] /\ entries' \in [Docs -> Nat] /\ booked' \in [Docs -> Int] /\ reversed' \in [Docs -> Nat]
  <2> DEFINE legs == IF back > 0 THEN [wip |-> -wip, inventory |-> wip] ELSE [wip |-> -wip, difference |-> wip]
  <2>1. \A a \in DOMAIN legs : legs[a] \in Int
    BY <1>2
  <2>2. Journal(d, legs) \/ UNCHANGED <<gl, entries, booked, reversed>>
    BY <1>0 DEF CommitCancel
  <2> HIDE DEF legs
  <2>3. CASE Journal(d, legs)
    BY <1>2, <2>1, <2>3, JournalType DEF TypeIInv
  <2>4. CASE UNCHANGED <<gl, entries, booked, reversed>>
    BY <2>4 DEF TypeIInv, PapersOK, MoneyOK
  <2> QED
    BY <2>2, <2>3, <2>4
<1>6. stock' \in [Products -> [Warehouses -> Int]] /\ layers' \in [Products -> Seq(Nat)]
  <2>1. "raw" \in Products /\ Moves("raw", hand[u].at, back) /\ layers' = layers
    BY <1>0 DEF Products, CommitCancel
  <2> QED
    BY <1>2, <2>1, MovesType DEF TypeIInv, GoodsOK
<1>7. owed' \in Int /\ due' \in Int
  BY DEF CommitCancel, TypeIInv, MoneyOK
<1> QED
  BY <1>3, <1>4, <1>5, <1>6, <1>7, CommitType

LEMMA ReopenWorkOrderDoes ==
  ASSUME TypeIInv, NEW d \in Docs, ReopenWorkOrder(d)
  PROVE  /\ TypeIInv' /\ Changes(d, StatusMarkActual)
         /\ row'[d].status = "planned" /\ row'[d].mark = 0 /\ row'[d].actual = 0
<1>1. row \in [Docs -> Row] /\ "planned" \in Status
      /\ MarksActual(d, "planned", 0, 0)
  BY DEF TypeIInv, PapersOK, Status, ReopenWorkOrder, MarksActual
<1>2. Changes(d, StatusMarkActual) /\ row'[d].status = "planned" /\ row'[d].mark = 0 /\ row'[d].actual = 0
  BY <1>1, MarkActualDoes
<1>3. row' \in [Docs -> Row] /\ KindsStay
  BY <1>1, <1>2, ChangesType
<1>4. UNCHANGED <<entries, booked, reversed, gl, owed, due, stock, layers, hand, ops>> /\ disturbed' \subseteq disturbed \cup {d}
  BY DEF ReopenWorkOrder, money, goods
<1>5. HandsOK'
  BY <1>3, <1>4, HandRests DEF TypeIInv
<1>6. TypeIInv'
  BY <1>3, <1>4, <1>5 DEF TypeIInv, PapersOK, MoneyOK, GoodsOK, CountsOK
<1> QED
  BY <1>2, <1>6

LEMMA ManufacturingType ==
  ASSUME TypeIInv, ManufacturingStep
  PROVE  TypeIInv'
<1>1. ASSUME NEW d \in Docs, CreateWorkOrder(d) PROVE TypeIInv'
  <2>1. ASSUME NEW q \in 1..MaxQty PROVE Columned([status |-> "planned", qty |-> q])
    BY DEF Columned, Columns, Status
  <2> QED
    BY <1>1, <2>1, CreatesType DEF CreateWorkOrder
<1> QED
  BY <1>1, ManufacturingReads, CommitStartType, CommitCompleteType, CommitCancelType, ReopenWorkOrderDoes
     DEF ManufacturingStep

-----------------------------------------------------------------------------
(* A row is written over with the columns of w; Stamps sets its status too. *)
Updates(d, w) == row' = [row EXCEPT ![d] = Updated(@, w)]
Stamps(d, w, s) == row' = [row EXCEPT ![d] = [Updated(@, w) EXCEPT !.status = s]]
Wrote(r, q, w) ==
  /\ r.qty = IF "qty" \in DOMAIN w THEN w.qty ELSE q.qty
  /\ r.paid = IF "paid" \in DOMAIN w THEN w.paid ELSE q.paid
  /\ r.link = IF "link" \in DOMAIN w THEN w.link ELSE q.link
  /\ r.applied = IF "applied" \in DOMAIN w THEN w.applied ELSE q.applied
  /\ r.mark = IF "mark" \in DOMAIN w THEN w.mark ELSE q.mark
  /\ r.actual = IF "actual" \in DOMAIN w THEN w.actual ELSE q.actual

LEMMA UpdatesDoes ==
  ASSUME row \in [Docs -> Row], NEW d \in Docs, NEW w, Columned(w), Updates(d, w)
  PROVE  /\ Changes(d, Columns) /\ Wrote(row'[d], row[d], w)
         /\ row'[d].status = IF "status" \in DOMAIN w THEN w.status ELSE row[d].status
<1>1. PICK r : r = Updated(row[d], w)
  OBVIOUS
<1>2. r \in Row /\ r.kind = row[d].kind /\ Wrote(r, row[d], w)
      /\ r.status = IF "status" \in DOMAIN w THEN w.status ELSE row[d].status
  BY <1>1, UpdatedRow DEF Wrote
<1>3. Like(r, row[d], Columns)
  BY <1>2 DEF Like, Columns
<1>4. row' = [row EXCEPT ![d] = r]
  BY <1>1 DEF Updates
<1> QED
  BY <1>2, <1>3, <1>4, RowChanges

LEMMA StampsDoes ==
  ASSUME row \in [Docs -> Row], NEW d \in Docs, NEW w, Columned(w), NEW s \in Status, Stamps(d, w, s)
  PROVE  Changes(d, Columns) /\ Wrote(row'[d], row[d], w) /\ row'[d].status = s
<1>0. PICK q : q = Updated(row[d], w)
  OBVIOUS
<1>1. PICK r : r = [q EXCEPT !.status = s]
  OBVIOUS
<1>2. q \in Row /\ q.kind = row[d].kind /\ Wrote(q, row[d], w)
  BY <1>0, UpdatedRow DEF Wrote
<1>3. r \in Row /\ r.kind = q.kind /\ r.status = s /\ r.qty = q.qty /\ r.paid = q.paid /\ r.link = q.link
      /\ r.applied = q.applied /\ r.mark = q.mark /\ r.actual = q.actual
  BY <1>1, <1>2 DEF Row
<1>4. Wrote(r, row[d], w) /\ Like(r, row[d], Columns)
  BY <1>2, <1>3 DEF Wrote, Like, Columns
<1>5. row' = [row EXCEPT ![d] = r]
  BY <1>0, <1>1 DEF Stamps
<1> QED
  BY <1>3, <1>4, <1>5, RowChanges

LEMMA CartType ==
  ASSUME row \in [Docs -> Row], NEW d, NEW t \in Carts(d)
  PROVE  /\ Columned(t) /\ DOMAIN t = {"qty", "paid", "mark", "link"} /\ t.qty \in Int
         /\ t.link \in Docs /\ row[t.link].kind = "shift"
<1>1. PICK q \in 1..MaxQty, c \in 0..MaxQty, s \in {x \in Docs : row[x].kind = "shift" /\ row[x].status = "open"} :
        t = [qty |-> q, paid |-> c, mark |-> c, link |-> s]
  BY DEF Carts
<1> QED
  BY <1>1 DEF Columned, Columns

LEMMA ExpectedType ==
  ASSUME PapersOK, NEW d \in Docs
  PROVE  Expected(d) \in Int
<1>1. Total([t \in {x \in Docs : row[x].kind = "ticket" /\ row[x].link = d} |-> row[t].mark]) \in Int
  BY ReturnedType
<1>2. row[d].qty \in Int
  BY DEF PapersOK, Row
<1> QED
  BY <1>1, <1>2 DEF Expected

LEMMA TillReads ==
  ASSUME TypeIInv, NEW u \in Users, NEW d \in Docs,
         Checkout(u, d) \/ CloseShift(u, d) \/ HealShift(u, d)
  PROVE  TypeIInv' /\ Quiet
<1>0. /\ row[d] \in Row /\ row \in [Docs -> Row] /\ layers["raw"] \in Seq(Nat) /\ <<>> \in Seq(Nat) /\ Main \in Warehouses
      /\ {"new", "close", "lookup"} \subseteq Ops \ {"idle", "next"}
  BY DEF TypeIInv, PapersOK, GoodsOK, Products, Ops, Warehouses
<1>1. CASE Checkout(u, d)
  <2>1. PICK t \in Carts(d) : Reads(u, "new", d, t, Fifo(t.qty), Main)
    BY <1>1 DEF Checkout
  <2>2. Columned(t) /\ DOMAIN t = {"qty", "paid", "mark", "link"} /\ t.qty \in Int
    BY <1>0, CartType
  <2>3. Fifo(t.qty) \in Seq(Nat)
    BY <1>0, <2>2, FifoIsTake
  <2>4. row[d].kind = "ticket"
    BY <1>1 DEF Checkout
  <2>5. Equipped("new", row[d].kind, t)
    BY <2>2, <2>4 DEF Equipped, Slips
  <2> QED
    BY <1>0, <2>1, <2>2, <2>3, <2>5, ReadsType
<1>2. CASE CloseShift(u, d)
  <2>1. PICK e : e = Expected(d)
    OBVIOUS
  <2>2. e \in Int
    BY <2>1, ExpectedType DEF TypeIInv
  <2>3. PICK n \in {e, e - 1} : Reads(u, "close", d, [mark |-> e, actual |-> n], <<>>, Main)
    BY <1>2, <2>1 DEF CloseShift
  <2>4. PICK w : w = [mark |-> e, actual |-> n]
    OBVIOUS
  <2>5. Columned(w)
    BY <2>2, <2>3, <2>4 DEF Columned, Columns
  <2>6. row[d].kind = "shift"
    BY <1>2 DEF CloseShift
  <2>7. Equipped("close", row[d].kind, w)
    BY <2>4, <2>6 DEF Equipped
  <2>8. Reads(u, "close", d, w, <<>>, Main)
    BY <2>3, <2>4
  <2> QED
    BY <1>0, <2>5, <2>7, <2>8, ReadsType
<1>3. CASE HealShift(u, d)
  <2>1. PICK w : w = [mark |-> row[d].mark, actual |-> row[d].actual]
    OBVIOUS
  <2>2. Columned(w)
    BY <1>0, <2>1, RowColumns DEF Columned, Columns
  <2>3. Equipped("lookup", row[d].kind, w)
    BY <2>1 DEF Equipped
  <2>4. Reads(u, "lookup", d, w, <<>>, Main)
    BY <1>3, <2>1 DEF HealShift
  <2> QED
    BY <1>0, <2>2, <2>3, <2>4, ReadsType
<1> QED
  BY <1>1, <1>2, <1>3

LEMMA CommitCheckoutDoes ==
  ASSUME TypeIInv, NEW u \in Users, CommitCheckout(u), NEW d, d = hand[u].doc
  PROVE  /\ Changes(d, Columns) /\ row[d].kind = "ticket" /\ row[d].status = "none"
         /\ Wrote(row'[d], row[d], hand[u].want)
         /\ row'[d].status = IF hand[u].want.paid = hand[u].want.qty THEN "paid" ELSE "posted"
<1>1. At(u, "new", {"ticket"}) /\ row \in [Docs -> Row] /\ row[d].status = "none"
      /\ "paid" \in Status /\ "posted" \in Status
  BY DEF CommitCheckout, TypeIInv, PapersOK, Status
<1>2. d \in Docs /\ row[d].kind = "ticket" /\ Columned(hand[u].want)
  BY <1>1, AtIs
<1>3. PICK s \in Status : s = IF hand[u].want.paid = hand[u].want.qty THEN "paid" ELSE "posted"
  BY <1>1
<1>4. Stamps(d, hand[u].want, s)
  BY <1>3 DEF CommitCheckout, Stamps
<1> QED
  BY <1>1, <1>2, <1>3, <1>4, StampsDoes

LEMMA CommitCheckoutType ==
  ASSUME TypeIInv, NEW u \in Users, CommitCheckout(u)
  PROVE  TypeIInv'
<1> DEFINE d == hand[u].doc
           t == hand[u].want
<1>0. PICK q, p : q = t.qty /\ p = t.paid
  OBVIOUS
<1>1. At(u, "new", {"ticket"}) /\ row \in [Docs -> Row]
  BY DEF CommitCheckout, TypeIInv, PapersOK
<1>2. d \in Docs /\ hand[u].op # "idle" /\ hand[u].take \in Seq(Nat) /\ q \in Int /\ p \in Int
  <2>1. /\ d \in Docs /\ hand[u].op # "idle" /\ hand[u].take \in Seq(Nat) /\ hand[u].seen.kind = "ticket"
        /\ Columned(t) /\ Equipped("new", hand[u].seen.kind, t)
    BY <1>1, AtIs
  <2> QED
    BY <1>0, <2>1 DEF Columned, Equipped
<1>3. Closes(u)
  BY <1>2, EndsAlone DEF CommitCheckout
<1>4. row' \in [Docs -> Row] /\ KindsStay
  BY <1>1, <1>2, CommitCheckoutDoes, ChangesType
<1>5. gl' \in [Accounts -> Int] /\ entries' \in [Docs -> Nat] /\ booked' \in [Docs -> Int] /\ reversed' \in [Docs -> Nat]
  <2> DEFINE legs == [cash |-> p, debtors |-> q - p, inventory |-> -q]
  <2>1. \A a \in DOMAIN legs : legs[a] \in Int
    BY <1>2
  <2>2. Journal(d, legs)
    BY <1>0 DEF CommitCheckout
  <2> HIDE DEF legs
  <2> QED
    BY <1>2, <2>1, <2>2, JournalType DEF TypeIInv
<1>6. stock' \in [Products -> [Warehouses -> Int]] /\ layers' \in [Products -> Seq(Nat)]
  <2>1. "raw" \in Products /\ -q \in Int
    BY <1>2 DEF Products
  <2>2. PICK w \in Warehouses : Moves("raw", w, -q)
    BY <1>0, SourcesType DEF CommitCheckout
  <2> QED
    BY <1>2, <2>1, <2>2, MovesType, ConsumesType DEF CommitCheckout, TypeIInv
<1>7. owed' \in Int /\ due' \in Int
  BY <1>0, <1>2 DEF CommitCheckout, TypeIInv, MoneyOK
<1> QED
  BY <1>3, <1>4, <1>5, <1>6, <1>7, CommitType

LEMMA CommitCloseDoes ==
  ASSUME TypeIInv, NEW u \in Users, CommitClose(u), NEW d, d = hand[u].doc
  PROVE  /\ TypeIInv' /\ Changes(d, Columns) /\ row[d].kind = "shift" /\ row[d].status = "open"
         /\ row'[d].status = "closed" /\ Wrote(row'[d], row[d], hand[u].want)
<1>1. At(u, "close", {"shift"}) /\ row \in [Docs -> Row] /\ "closed" \in Status /\ "lookup" \in Ops
      /\ Stamps(d, hand[u].want, "closed") /\ row[d].status = "open" /\ HandsOK
      /\ hand' = [hand EXCEPT ![u].op = "lookup"]
  BY DEF CommitClose, TypeIInv, PapersOK, Status, Ops, Stamps
<1>2. /\ d \in Docs /\ row[d].kind = "shift" /\ hand[u].seen.kind = "shift" /\ Columned(hand[u].want)
      /\ hand[u].op = "close" /\ Equipped("close", hand[u].seen.kind, hand[u].want)
  BY <1>1, AtIs
<1>3. Changes(d, Columns) /\ row'[d].status = "closed" /\ Wrote(row'[d], row[d], hand[u].want)
  BY <1>1, <1>2, StampsDoes
<1>4. row' \in [Docs -> Row] /\ KindsStay
  BY <1>1, <1>2, <1>3, ChangesType
<1>5. Equipped("lookup", hand[u].seen.kind, hand[u].want)
  BY <1>2 DEF Equipped
<1>6. HandsOK'
  BY <1>1, <1>2, <1>4, <1>5, HandGoesOn
<1>7. TypeIInv'
  BY <1>4, <1>6 DEF CommitClose, money, goods, TypeIInv, PapersOK, MoneyOK, GoodsOK, CountsOK
<1> QED
  BY <1>1, <1>2, <1>3, <1>7

LEMMA LookUpDoes ==
  ASSUME TypeIInv, NEW u \in Users, LookUpDifference(u)
  PROVE  TypeIInv' /\ Quiet
<1>1. Quiet /\ KindsStay
  BY QuietKinds DEF LookUpDifference, Quiet
<1>2. At(u, "lookup", {"shift"}) /\ "entry" \in Ops /\ HandsOK
  BY DEF LookUpDifference, Ops, TypeIInv
<1>3. hand[u].op = "lookup" /\ hand[u].seen.kind = "shift" /\ Equipped("lookup", hand[u].seen.kind, hand[u].want)
  BY <1>2, AtIs
<1>4. Equipped("entry", hand[u].seen.kind, hand[u].want)
  BY <1>3 DEF Equipped
<1>5. ASSUME hand' = [hand EXCEPT ![u].op = "entry"] PROVE HandsOK'
  BY <1>1, <1>2, <1>3, <1>4, <1>5, HandGoesOn
<1>6. ASSUME hand' = [hand EXCEPT ![u] = Idle] PROVE HandsOK'
  BY <1>1, <1>2, <1>6, HandIdles
<1>7. HandsOK'
  BY <1>5, <1>6 DEF LookUpDifference
<1> QED
  BY <1>1, <1>7, QuietType DEF LookUpDifference, TypeIInv, CountsOK

LEMMA BookDifferenceType ==
  ASSUME TypeIInv, NEW u \in Users, BookDifference(u)
  PROVE  TypeIInv' /\ row' = row
<1> DEFINE d == hand[u].doc
<1>0. PICK n : n = hand[u].want.actual - hand[u].want.mark
  OBVIOUS
<1>1. At(u, "entry", {"shift"}) /\ row' = row
  BY DEF BookDifference
<1>2. d \in Docs /\ n \in Int
  <2>1. /\ d \in Docs /\ hand[u].seen.kind = "shift" /\ Columned(hand[u].want)
        /\ Equipped("entry", hand[u].seen.kind, hand[u].want)
    BY <1>1, AtIs
  <2> QED
    BY <1>0, <2>1 DEF Columned, Equipped
<1>3. KindsStay
  BY <1>1 DEF KindsStay
<1>4. HandsOK'
  BY <1>3, HandIdles DEF BookDifference, TypeIInv
<1>5. gl' \in [Accounts -> Int] /\ entries' \in [Docs -> Nat] /\ booked' \in [Docs -> Int] /\ reversed' \in [Docs -> Nat]
  <2> DEFINE legs == [cash |-> n, difference |-> -n]
  <2>1. \A a \in DOMAIN legs : legs[a] \in Int
    BY <1>2
  <2>2. Journal(d, legs)
    BY <1>0 DEF BookDifference
  <2> HIDE DEF legs
  <2> QED
    BY <1>2, <2>1, <2>2, JournalType DEF TypeIInv
<1> QED
  BY <1>1, <1>4, <1>5 DEF BookDifference, goods, TypeIInv, PapersOK, MoneyOK, GoodsOK, CountsOK

LEMMA TillType ==
  ASSUME TypeIInv, TillStep
  PROVE  TypeIInv'
<1>1. ASSUME NEW d \in Docs, OpenShift(d) PROVE TypeIInv'
  <2>1. PICK n \in {0, 1} : Creates(d, {"shift"}, [status |-> "open", qty |-> n])
    BY <1>1 DEF OpenShift
  <2>2. Columned([status |-> "open", qty |-> n])
    BY DEF Columned, Columns, Status
  <2> QED
    BY <2>1, <2>2, CreatesType
<1> QED
  BY <1>1, TillReads, CommitCheckoutType, CommitCloseDoes, LookUpDoes, BookDifferenceType DEF TillStep

-----------------------------------------------------------------------------
LEMMA ConversionReads ==
  ASSUME TypeIInv, NEW u \in Users, NEW d \in Docs,
         UpdateOffer(u, d) \/ DeleteOffer(u, d) \/ ConvertOffer(u, d)
  PROVE  TypeIInv' /\ Quiet
<1>1. CASE UpdateOffer(u, d)
  <2>1. {"sent", "received", "cancelled"} \subseteq Status
    BY DEF Status
  <2>2. PICK s \in Status : Edits(u, d, [status |-> s])
    BY <1>1, <2>1 DEF UpdateOffer
  <2>3. Columned([status |-> s])
    BY DEF Columned, Columns
  <2> QED
    BY <2>2, <2>3, EditsType
<1>2. CASE DeleteOffer(u, d)
  BY <1>2, DeletesType DEF DeleteOffer
<1>3. CASE ConvertOffer(u, d)
  <2>1. "claim" \in Ops \ {"idle", "next"} /\ Equipped("claim", row[d].kind, Idle.want)
    BY DEF Ops, Equipped
  <2> QED
    BY <1>3, <2>1, KeepsType DEF ConvertOffer
<1> QED
  BY <1>1, <1>2, <1>3

(* The claim and what follows it have no plan of their own.                *)
LEMMA BareEquipped == ASSUME NEW k, NEW w PROVE Equipped("claimed", k, w) /\ Equipped("release", k, w)
  BY DEF Equipped

LEMMA ClaimOfferDoes ==
  ASSUME TypeIInv, NEW u \in Users, ClaimOffer(u), NEW d, d = hand[u].doc
  PROVE  /\ TypeIInv' /\ Changes(d, JustStatus)
         /\ row[d].kind \in Offers /\ row[d].status \in Convertible /\ row'[d].status = "converted"
<1>1. At(u, "claim", Offers) /\ row \in [Docs -> Row] /\ "converted" \in Status /\ "claimed" \in Ops
      /\ row' = [row EXCEPT ![d].status = "converted"] /\ row[d].status \in Convertible /\ HandsOK
      /\ hand' = [hand EXCEPT ![u].op = "claimed"]
  BY DEF ClaimOffer, Claimable, TypeIInv, PapersOK, Status, Ops
<1>2. d \in Docs /\ row[d].kind \in Offers /\ hand[u].op = "claim"
  BY <1>1, AtIs
<1>3. Changes(d, JustStatus) /\ row'[d].status = "converted"
  BY <1>1, <1>2, StatusDoes
<1>4. row' \in [Docs -> Row] /\ KindsStay
  BY <1>1, <1>2, <1>3, ChangesType
<1>5. HandsOK'
  BY <1>1, <1>2, <1>4, BareEquipped, HandGoesOn
<1>6. TypeIInv'
  BY <1>4, <1>5 DEF ClaimOffer, money, goods, TypeIInv, PapersOK, MoneyOK, GoodsOK, CountsOK
<1> QED
  BY <1>1, <1>2, <1>3, <1>6

LEMMA ClaimEndsDoes ==
  ASSUME TypeIInv, NEW u \in Users, NumberFails(u) \/ CreateFails(u) \/ ReleaseFails(u)
  PROVE  TypeIInv' /\ Quiet
<1>1. Quiet /\ KindsStay
  BY QuietKinds DEF NumberFails, CreateFails, ReleaseFails, Quiet
<1>2. HandsOK /\ "release" \in Ops
  BY DEF TypeIInv, Ops
<1>3. HandsOK'
  <2>1. CASE CreateFails(u)
    <3>1. At(u, "claimed", Offers) /\ hand' = [hand EXCEPT ![u].op = "release"]
      BY <2>1 DEF CreateFails
    <3>2. hand[u].op \notin {"idle", "next"}
      BY <3>1 DEF At
    <3> QED
      BY <1>1, <1>2, <3>1, <3>2, BareEquipped, HandGoesOn
  <2>2. CASE NumberFails(u) \/ ReleaseFails(u)
    BY <1>1, <1>2, <2>2, HandIdles DEF NumberFails, ReleaseFails
  <2> QED
    BY <2>1, <2>2
<1> QED
  BY <1>1, <1>3, QuietType DEF NumberFails, CreateFails, ReleaseFails, TypeIInv, CountsOK

(* The invoice i is created from the claimed offer d.                      *)
Converts(i, d, n) == row' = [row EXCEPT ![i].status = "draft", ![i].qty = n, ![i].link = d]

LEMMA ConvertsDoes ==
  ASSUME row \in [Docs -> Row], NEW i \in Docs, NEW d \in Docs, NEW n \in Int, Converts(i, d, n)
  PROVE  Changes(i, StatusLinkQty) /\ row'[i].status = "draft" /\ row'[i].link = d /\ row'[i].qty = n
<1>0. "draft" \in Status
  BY DraftColumned
<1>1. PICK r : r = [row[i] EXCEPT !.status = "draft", !.qty = n, !.link = d]
  OBVIOUS
<1>2. r \in Row /\ Like(r, row[i], StatusLinkQty) /\ r.status = "draft" /\ r.link = d /\ r.qty = n
  BY <1>0, <1>1 DEF Like, StatusLinkQty, Row
<1>3. row' = [row EXCEPT ![i] = r]
  BY <1>1 DEF Converts
<1> QED
  BY <1>2, <1>3, RowChanges

(* Which invoice it is, and what becomes of the session.                   *)
Creation(u, i, lost) ==
  /\ At(u, "claimed", Offers)
  /\ row[i].kind \in Becomes(row[hand[u].doc].kind) /\ row[i].status = "none"
  /\ Converts(i, hand[u].doc, hand[u].seen.qty)
  /\ lost => hand' = [hand EXCEPT ![u].op = "release"]
  /\ ~lost => hand' = [hand EXCEPT ![u] = Idle]
  /\ UNCHANGED <<entries, booked, reversed, money, goods, ops, disturbed>>

LEMMA CreationType ==
  ASSUME TypeIInv, NEW u \in Users, NEW i \in Docs, NEW lost \in BOOLEAN, Creation(u, i, lost)
  PROVE  TypeIInv' /\ Changes(i, StatusLinkQty) /\ row'[i].status = "draft" /\ row'[i].link = hand[u].doc
<1>1. At(u, "claimed", Offers) /\ row \in [Docs -> Row] /\ HandsOK /\ "release" \in Ops
  BY DEF Creation, TypeIInv, PapersOK, Ops
<1>2. hand[u].doc \in Docs /\ hand[u].seen.qty \in Int /\ hand[u].op = "claimed"
  BY <1>1, AtIs, RowColumns
<1>3. Changes(i, StatusLinkQty) /\ row'[i].status = "draft" /\ row'[i].link = hand[u].doc
  BY <1>1, <1>2, ConvertsDoes DEF Creation
<1>4. row' \in [Docs -> Row] /\ KindsStay
  BY <1>1, <1>3, ChangesType
<1>5. HandsOK'
  <2>1. CASE lost
    <3>1. hand' = [hand EXCEPT ![u].op = "release"]
      BY <2>1 DEF Creation
    <3> QED
      BY <1>1, <1>2, <1>4, <3>1, BareEquipped, HandGoesOn
  <2>2. CASE ~lost
    BY <1>1, <1>4, <2>2, HandIdles DEF Creation
  <2> QED
    BY <2>1, <2>2
<1>6. TypeIInv'
  BY <1>4, <1>5 DEF Creation, money, goods, TypeIInv, PapersOK, MoneyOK, GoodsOK, CountsOK
<1> QED
  BY <1>3, <1>6

LEMMA CreateConvertedIs ==
  ASSUME NEW u \in Users, CreateConverted(u)
  PROVE  \E i \in Docs, lost \in BOOLEAN : Creation(u, i, lost)
<1>1. PICK i \in Docs, lost \in BOOLEAN :
        /\ At(u, "claimed", Offers)
        /\ row[i].kind \in Becomes(row[hand[u].doc].kind) /\ row[i].status = "none"
        /\ Converts(i, hand[u].doc, hand[u].seen.qty)
        /\ hand' = [hand EXCEPT ![u] = IF lost THEN [@ EXCEPT !.op = "release"] ELSE Idle]
        /\ UNCHANGED <<entries, booked, reversed, money, goods, ops, disturbed>>
  BY DEF CreateConverted, Converts
<1> QED
  BY <1>1 DEF Creation

LEMMA ReleaseOfferDoes ==
  ASSUME TypeIInv, NEW u \in Users, ReleaseOffer(u), NEW d, d = hand[u].doc
  PROVE  /\ TypeIInv' /\ Changes(d, JustStatus) /\ row[d].kind \in Offers
         /\ row'[d].status = IF Unclaimed(d) THEN hand[u].seen.status ELSE row[d].status
<1>1. At(u, "release", Offers) /\ row \in [Docs -> Row] /\ HandsOK
      /\ hand' = [hand EXCEPT ![u] = Idle]
  BY DEF ReleaseOffer, TypeIInv, PapersOK
<1>2. PICK s : s = hand[u].seen.status
  OBVIOUS
<1>3. d \in Docs /\ row[d].kind \in Offers /\ s \in Status
  BY <1>1, <1>2, AtIs, RowColumns
<1>4. Changes(d, JustStatus) /\ row'[d].status = IF Unclaimed(d) THEN s ELSE row[d].status
  <2>1. CASE Unclaimed(d)
    <3>1. row' = [row EXCEPT ![d].status = s]
      BY <1>2, <2>1 DEF ReleaseOffer
    <3> QED
      BY <1>1, <1>3, <2>1, <3>1, StatusDoes
  <2>2. CASE ~Unclaimed(d)
    BY <1>1, <1>3, <2>2, StaysDoes DEF ReleaseOffer
  <2> QED
    BY <2>1, <2>2
<1>5. row' \in [Docs -> Row] /\ KindsStay
  BY <1>1, <1>3, <1>4, ChangesType
<1>6. HandsOK'
  BY <1>1, <1>5, HandIdles
<1>7. TypeIInv'
  BY <1>5, <1>6 DEF ReleaseOffer, money, goods, TypeIInv, PapersOK, MoneyOK, GoodsOK, CountsOK
<1> QED
  BY <1>2, <1>3, <1>4, <1>7

LEMMA ConversionType ==
  ASSUME TypeIInv, ConversionStep
  PROVE  TypeIInv'
<1>1. ASSUME NEW d \in Docs, CreateOffer(d) PROVE TypeIInv'
  BY <1>1, DraftColumned, CreatesType DEF CreateOffer
<1>2. ASSUME NEW u \in Users, CreateConverted(u) PROVE TypeIInv'
  BY <1>2, CreateConvertedIs, CreationType
<1> QED
  BY <1>1, <1>2, ConversionReads, ClaimOfferDoes, ClaimEndsDoes, ReleaseOfferDoes DEF ConversionStep

-----------------------------------------------------------------------------
LEMMA PeriodsReads ==
  ASSUME TypeIInv, NEW u \in Users, NEW d \in Docs,
         \/ CloseAccountingPeriod(u, d) \/ CloseFiscalYear(u, d)
         \/ ReopenAccountingPeriodById(u, d) \/ SetTaxPeriodStatus(u, d)
  PROVE  TypeIInv' /\ Quiet
<1>0. /\ <<>> \in Seq(Nat) /\ Main \in Warehouses /\ {"close", "year", "reopen"} \subseteq Ops \ {"idle", "next"}
      /\ {"soft_closed", "closed", "open", "filed"} \subseteq Status
  BY DEF Ops, Warehouses, Status
<1>1. ASSUME NEW s \in Status PROVE Columned([status |-> s]) /\ DOMAIN [status |-> s] = {"status"}
  BY DEF Columned, Columns
<1>2. CASE CloseAccountingPeriod(u, d)
  <2>1. PICK s \in Status : Reads(u, "close", d, [status |-> s], <<>>, Main)
    BY <1>0, <1>2 DEF CloseAccountingPeriod
  <2>2. row[d].kind \in {"half", "year"}
    BY <1>2 DEF CloseAccountingPeriod
  <2>3. PICK w : w = [status |-> s]
    OBVIOUS
  <2>4. Columned(w) /\ Equipped("close", row[d].kind, w)
    BY <1>1, <2>2, <2>3 DEF Equipped
  <2> QED
    BY <1>0, <2>1, <2>3, <2>4, ReadsType
<1>3. CASE CloseFiscalYear(u, d)
  <2>1. PICK w : w = [status |-> "closed"]
    OBVIOUS
  <2>2. Columned(w) /\ Equipped("year", row[d].kind, w)
    BY <1>0, <1>1, <2>1 DEF Equipped
  <2>3. Reads(u, "year", d, w, <<>>, Main)
    BY <1>3, <2>1 DEF CloseFiscalYear
  <2> QED
    BY <1>0, <2>2, <2>3, ReadsType
<1>4. CASE ReopenAccountingPeriodById(u, d)
  <2>1. Equipped("reopen", row[d].kind, Idle.want)
    BY DEF Equipped
  <2> QED
    BY <1>0, <1>4, <2>1, KeepsType DEF ReopenAccountingPeriodById
<1>5. CASE SetTaxPeriodStatus(u, d)
  <2>1. PICK s \in Status : Edits(u, d, [status |-> s])
    BY <1>0, <1>5 DEF SetTaxPeriodStatus
  <2> QED
    BY <1>1, <2>1, EditsType
<1> QED
  BY <1>2, <1>3, <1>4, <1>5

CommitsPeriod(u) == CommitPeriod(u) \/ CommitFiscalYear(u) \/ CommitReopen(u)

LEMMA CommitsPeriodDoes ==
  ASSUME TypeIInv, NEW u \in Users, CommitsPeriod(u), NEW d, d = hand[u].doc
  PROVE  d \in Docs /\ row[d].kind \in {"half", "year"} /\ Changes(d, JustStatus) /\ Closes(u) /\ TypeIInv'
<1>0. row \in [Docs -> Row] /\ "closed" \in Status /\ "open" \in Status
  BY DEF TypeIInv, PapersOK, Status
<1>1. /\ d \in Docs /\ row[d].kind \in {"half", "year"} /\ hand[u].op # "idle"
      /\ CommitPeriod(u) => hand[u].want.status \in Status
  <2>1. CASE CommitPeriod(u)
    <3>1. At(u, "close", {"half", "year"})
      BY <2>1 DEF CommitPeriod
    <3>2. /\ d \in Docs /\ row[d].kind = hand[u].seen.kind /\ hand[u].seen.kind \in {"half", "year"}
          /\ hand[u].op = "close" /\ Columned(hand[u].want) /\ Equipped("close", hand[u].seen.kind, hand[u].want)
      BY <3>1, AtIs
    <3> QED
      BY <3>2 DEF Equipped, Columned
  <2>2. CASE CommitFiscalYear(u)
    <3>1. At(u, "year", {"year"})
      BY <2>2 DEF CommitFiscalYear
    <3> QED
      BY <2>2, <3>1, AtIs DEF CommitPeriod, At
  <2>3. CASE CommitReopen(u)
    <3>1. At(u, "reopen", {"half", "year"})
      BY <2>3 DEF CommitReopen
    <3> QED
      BY <2>3, <3>1, AtIs DEF CommitPeriod, At
  <2> QED
    BY <2>1, <2>2, <2>3 DEF CommitsPeriod
<1>2. Changes(d, JustStatus)
  <2>1. CASE CommitPeriod(u)
    <3>1. PICK s \in Status : row' = Flipped(d, {"open"}, s)
      BY <1>1, <2>1 DEF CommitPeriod
    <3> QED
      BY <1>0, <1>1, <3>1, FlipDoes
  <2>2. CASE CommitFiscalYear(u)
    BY <1>0, <1>1, <2>2, StatusDoes, StaysDoes DEF CommitFiscalYear
  <2>3. CASE CommitReopen(u)
    BY <1>0, <1>1, <2>3, StatusDoes DEF CommitReopen
  <2> QED
    BY <2>1, <2>2, <2>3 DEF CommitsPeriod
<1>3. row' \in [Docs -> Row] /\ KindsStay
  BY <1>0, <1>1, <1>2, ChangesType
<1>4. Closes(u)
  BY <1>1, EndsAlone DEF CommitsPeriod, CommitPeriod, CommitFiscalYear, CommitReopen
<1>5. UNCHANGED <<entries, booked, reversed, gl, owed, due, stock, layers>>
  BY DEF CommitsPeriod, CommitPeriod, CommitFiscalYear, CommitReopen, money, goods
<1>6. TypeIInv'
  BY <1>3, <1>4, <1>5, CommitType DEF TypeIInv, PapersOK, MoneyOK, GoodsOK
<1> QED
  BY <1>1, <1>2, <1>4, <1>6

LEMMA PeriodsType ==
  ASSUME TypeIInv, PeriodsStep
  PROVE  TypeIInv'
<1>1. ASSUME NEW d \in Docs, OpenAccountingPeriod(d) \/ GenerateSubPeriods(d) \/ OpenTaxPeriod(d)
      PROVE TypeIInv'
  <2>1. Columned([status |-> "open"])
    BY DEF Columned, Columns, Status
  <2> QED
    BY <1>1, <2>1, CreatesType DEF OpenAccountingPeriod, GenerateSubPeriods, OpenTaxPeriod
<1>2. ASSUME NEW u \in Users, CommitsPeriod(u) PROVE TypeIInv'
  BY <1>2, CommitsPeriodDoes
<1> QED
  BY <1>1, <1>2, PeriodsReads DEF PeriodsStep, CommitsPeriod

-----------------------------------------------------------------------------
LEMMA JournalsReads ==
  ASSUME TypeIInv, NEW u \in Users, NEW d \in Docs,
         \/ UpdateTransaction(u, d) \/ PostTransaction(u, d) \/ DeleteTransaction(u, d)
         \/ ReverseTransaction(u, d)
  PROVE  TypeIInv' /\ Quiet
<1>0. /\ <<>> \in Seq(Nat) /\ Main \in Warehouses /\ {"header", "cancel", "reverse"} \subseteq Ops \ {"idle", "next"}
      /\ "cancelled" \in Status
  BY DEF Ops, Warehouses, Status
<1>1. CASE UpdateTransaction(u, d)
  <2>1. PICK want \in {[qty |-> q] : q \in 1..MaxQty} \cup {[status |-> "cancelled"]} :
          Reads(u, "header", d, want, <<>>, Main)
    BY <1>1 DEF UpdateTransaction
  <2>2. Columned(want)
    BY <1>0, <2>1 DEF Columned, Columns
  <2>3. "qty" \in DOMAIN want \/ "status" \in DOMAIN want
    BY <2>1
  <2>4. Equipped("header", row[d].kind, want)
    BY <2>3 DEF Equipped
  <2> QED
    BY <1>0, <2>1, <2>2, <2>4, ReadsType
<1>2. CASE PostTransaction(u, d)
  <2>1. row[d].kind \notin Slips
    BY <1>2 DEF PostTransaction, Slips
  <2> QED
    BY <1>0, <1>2, <2>1, PostsType DEF PostTransaction
<1>3. CASE DeleteTransaction(u, d)
  <2>1. Equipped("cancel", row[d].kind, Idle.want)
    BY <1>3 DEF DeleteTransaction, Equipped
  <2> QED
    BY <1>0, <1>3, <2>1, KeepsType DEF DeleteTransaction
<1>4. CASE ReverseTransaction(u, d)
  <2>1. Equipped("reverse", row[d].kind, Idle.want)
    BY <1>4 DEF ReverseTransaction, Equipped, Slips
  <2> QED
    BY <1>0, <1>4, <2>1, KeepsType DEF ReverseTransaction
<1> QED
  BY <1>1, <1>2, <1>3, <1>4

LEMMA UpdateHeaderDoes ==
  ASSUME TypeIInv, NEW u \in Users, UpdateHeader(u), NEW d, d = hand[u].doc
  PROVE  TypeIInv' /\ Changes(d, JustStatus) /\ row[d].kind = "journal"
<1>1. At(u, "header", {"journal"}) /\ row \in [Docs -> Row] /\ HandsOK /\ "lines" \in Ops
  BY DEF UpdateHeader, TypeIInv, PapersOK, Ops
<1>2. /\ d \in Docs /\ row[d].kind = "journal" /\ hand[u].op = "header" /\ hand[u].seen.kind = "journal"
      /\ Columned(hand[u].want) /\ Equipped("header", hand[u].seen.kind, hand[u].want)
  BY <1>1, AtIs
<1>3. Changes(d, JustStatus)
  <2>1. CASE "qty" \in DOMAIN hand[u].want
    BY <1>1, <1>2, <2>1, StaysDoes DEF UpdateHeader
  <2>2. CASE "qty" \notin DOMAIN hand[u].want
    <3>1. PICK s \in Status : row' = Flipped(d, {"draft"}, s)
      BY <1>2, <2>2 DEF UpdateHeader, Equipped, Columned
    <3> QED
      BY <1>1, <1>2, <3>1, FlipDoes
  <2> QED
    BY <2>1, <2>2
<1>4. row' \in [Docs -> Row] /\ KindsStay
  BY <1>1, <1>2, <1>3, ChangesType
<1>5. HandsOK'
  <2>1. CASE "qty" \in DOMAIN hand[u].want
    <3>1. hand' = [hand EXCEPT ![u].op = "lines"]
      BY <2>1 DEF UpdateHeader
    <3>2. Equipped("lines", hand[u].seen.kind, hand[u].want)
      BY <2>1 DEF Equipped
    <3> QED
      BY <1>1, <1>2, <1>4, <3>1, <3>2, HandGoesOn
  <2>2. CASE "qty" \notin DOMAIN hand[u].want
    BY <1>1, <1>4, <2>2, HandIdles DEF UpdateHeader
  <2> QED
    BY <2>1, <2>2
<1>6. TypeIInv'
  BY <1>4, <1>5 DEF UpdateHeader, money, goods, TypeIInv, PapersOK, MoneyOK, GoodsOK, CountsOK
<1> QED
  BY <1>2, <1>3, <1>6

LEMMA LaysDoes ==
  ASSUME TypeIInv, NEW d \in Docs, NEW n \in Int, Lays(d, n)
  PROVE  /\ Changes(d, JustQty) /\ row'[d].qty = row[d].qty + n /\ gl' \in [Accounts -> Int]
         /\ UNCHANGED <<entries, booked, reversed, owed, due, stock, layers, ops>>
<1>1. row \in [Docs -> Row] /\ row[d] \in Row /\ gl \in [Accounts -> Int]
  BY DEF TypeIInv, PapersOK, MoneyOK
<1>2. PICK m \in Int : m = row[d].qty + n
  BY <1>1, RowColumns
<1>3. PICK r : r = [row[d] EXCEPT !.qty = m]
  OBVIOUS
<1>4. r \in Row /\ Like(r, row[d], JustQty) /\ r.qty = m
  BY <1>1, <1>3 DEF Row, Like, JustQty
<1>5. row' = [row EXCEPT ![d] = r]
  BY <1>2, <1>3 DEF Lays
<1>6. gl' \in [Accounts -> Int]
  <2> DEFINE legs == [other |-> n, cash |-> -n]
  <2>1. \A a \in DOMAIN legs : legs[a] \in Int
    OBVIOUS
  <2>2. Ledger(legs) \/ gl' = gl
    BY DEF Lays
  <2> HIDE DEF legs
  <2> QED
    BY <1>1, <2>1, <2>2, LedgerType
<1>7. UNCHANGED <<entries, booked, reversed, owed, due, stock, layers, ops>>
  BY DEF Lays, goods
<1> QED
  BY <1>1, <1>2, <1>4, <1>5, <1>6, <1>7, RowChanges

LEMMA DeleteLinesDoes ==
  ASSUME TypeIInv, NEW u \in Users, DeleteLines(u), NEW d, d = hand[u].doc
  PROVE  TypeIInv' /\ Changes(d, JustQty) /\ row'[d].qty = 0 /\ row[d].kind = "journal"
<1>1. At(u, "lines", {"journal"}) /\ row \in [Docs -> Row] /\ HandsOK /\ "insert" \in Ops
      /\ hand' = [hand EXCEPT ![u].op = "insert"]
  BY DEF DeleteLines, TypeIInv, PapersOK, Ops
<1>2. /\ d \in Docs /\ row[d] \in Row /\ row[d].kind = "journal" /\ hand[u].op = "lines"
      /\ Equipped("lines", hand[u].seen.kind, hand[u].want)
  BY <1>1, AtIs
<1>3. PICK n : n = -row[d].qty
  OBVIOUS
<1>4. n \in Int /\ row[d].qty + n = 0
  BY <1>2, <1>3, RowColumns
<1>5. Lays(d, n)
  BY <1>3 DEF DeleteLines
<1>6. /\ Changes(d, JustQty) /\ row'[d].qty = 0 /\ gl' \in [Accounts -> Int]
      /\ UNCHANGED <<entries, booked, reversed, owed, due, stock, layers, ops>>
  BY <1>2, <1>4, <1>5, LaysDoes
<1>7. row' \in [Docs -> Row] /\ KindsStay
  BY <1>1, <1>2, <1>6, ChangesType
<1>8. HandsOK'
  <2>1. Equipped("insert", hand[u].seen.kind, hand[u].want)
    BY <1>2 DEF Equipped
  <2> QED
    BY <1>1, <1>2, <1>7, <2>1, HandGoesOn
<1>9. disturbed' \subseteq disturbed \cup {d}
  BY DEF DeleteLines
<1>10. TypeIInv'
  BY <1>2, <1>6, <1>7, <1>8, <1>9 DEF TypeIInv, PapersOK, MoneyOK, GoodsOK, CountsOK
<1> QED
  BY <1>2, <1>6, <1>10

LEMMA InsertLinesDoes ==
  ASSUME TypeIInv, NEW u \in Users, InsertLines(u), NEW d, d = hand[u].doc
  PROVE  /\ TypeIInv' /\ Changes(d, JustQty) /\ row'[d].qty = row[d].qty + hand[u].want.qty
         /\ row[d].kind = "journal" /\ hand[u].want.qty \in Int
<1>1. At(u, "insert", {"journal"}) /\ row \in [Docs -> Row] /\ HandsOK
      /\ hand' = [hand EXCEPT ![u] = Idle]
  BY DEF InsertLines, TypeIInv, PapersOK
<1>2. /\ d \in Docs /\ row[d] \in Row /\ row[d].kind = "journal" /\ Columned(hand[u].want)
      /\ Equipped("insert", hand[u].seen.kind, hand[u].want)
  BY <1>1, AtIs
<1>3. PICK n : n = hand[u].want.qty
  OBVIOUS
<1>4. n \in Int
  BY <1>2, <1>3 DEF Columned, Equipped
<1>5. Lays(d, n)
  BY <1>3 DEF InsertLines
<1>6. /\ Changes(d, JustQty) /\ row'[d].qty = row[d].qty + n /\ gl' \in [Accounts -> Int]
      /\ UNCHANGED <<entries, booked, reversed, owed, due, stock, layers, ops>>
  BY <1>2, <1>4, <1>5, LaysDoes
<1>7. row' \in [Docs -> Row] /\ KindsStay
  BY <1>1, <1>2, <1>6, ChangesType
<1>8. HandsOK'
  BY <1>1, <1>7, HandIdles
<1>9. disturbed' \subseteq disturbed \cup {d}
  BY DEF InsertLines
<1>10. TypeIInv'
  BY <1>2, <1>6, <1>7, <1>8, <1>9 DEF TypeIInv, PapersOK, MoneyOK, GoodsOK, CountsOK
<1> QED
  BY <1>2, <1>3, <1>4, <1>6, <1>10

LEMMA CommitTransactionDoes ==
  ASSUME TypeIInv, NEW u \in Users, CommitTransaction(u), NEW d, d = hand[u].doc
  PROVE  /\ TypeIInv' /\ Changes(d, JustStatus) /\ row[d].kind = "journal"
         /\ row'[d].status = IF row[d].status = "draft" THEN "posted" ELSE row[d].status
<1>1. At(u, "post", {"journal"}) /\ row \in [Docs -> Row] /\ "posted" \in Status
      /\ row' = Flipped(d, {"draft"}, "posted")
  BY DEF CommitTransaction, TypeIInv, PapersOK, Status
<1>2. d \in Docs /\ row[d] \in Row /\ row[d].kind = "journal" /\ hand[u].op # "idle"
  BY <1>1, AtIs
<1>3. Changes(d, JustStatus) /\ row'[d].status = IF row[d].status = "draft" THEN "posted" ELSE row[d].status
  BY <1>1, <1>2, FlipDoes
<1>4. row' \in [Docs -> Row] /\ KindsStay
  BY <1>1, <1>2, <1>3, ChangesType
<1>5. Closes(u)
  BY <1>2, EndsAlone DEF CommitTransaction
<1>6. gl' \in [Accounts -> Int] /\ entries' \in [Docs -> Nat] /\ booked' \in [Docs -> Int] /\ reversed' \in [Docs -> Nat]
  <2>0. PICK n \in Int : n = row[d].qty
    BY <1>2, RowColumns
  <2> DEFINE legs == [other |-> n, cash |-> -n]
  <2>1. \A a \in DOMAIN legs : legs[a] \in Int
    OBVIOUS
  <2>2. Journal(d, legs) \/ UNCHANGED <<gl, entries, booked, reversed>>
    BY <2>0 DEF CommitTransaction
  <2> HIDE DEF legs
  <2>3. CASE Journal(d, legs)
    BY <1>2, <2>1, <2>3, JournalType DEF TypeIInv
  <2>4. CASE UNCHANGED <<gl, entries, booked, reversed>>
    BY <2>4 DEF TypeIInv, PapersOK, MoneyOK
  <2> QED
    BY <2>2, <2>3, <2>4
<1>7. UNCHANGED <<owed, due, stock, layers>>
  BY DEF CommitTransaction, goods
<1>8. TypeIInv'
  BY <1>4, <1>5, <1>6, <1>7, CommitType DEF TypeIInv, MoneyOK, GoodsOK
<1> QED
  BY <1>2, <1>3, <1>8

Clears(d) == row' = [row EXCEPT ![d].status = "gone", ![d].qty = 0]

LEMMA ClearsDoes ==
  ASSUME row \in [Docs -> Row], NEW d \in Docs, Clears(d)
  PROVE  Changes(d, StatusQty) /\ row'[d].status = "gone" /\ row'[d].qty = 0
<1>0. PICK m \in Int, s \in Status : m = 0 /\ s = "gone"
  BY DEF Status
<1>1. PICK r : r = [row[d] EXCEPT !.status = s, !.qty = m]
  OBVIOUS
<1>2. row[d] \in Row
  OBVIOUS
<1>3. r \in Row /\ Like(r, row[d], StatusQty) /\ r.status = s /\ r.qty = m
  BY <1>1, <1>2 DEF Row, Like, StatusQty
<1>4. row' = [row EXCEPT ![d] = r]
  BY <1>0, <1>1 DEF Clears
<1> QED
  BY <1>0, <1>3, <1>4, RowChanges

LEMMA CommitDeleteDoes ==
  ASSUME TypeIInv, NEW u \in Users, CommitDelete(u), NEW d, d = hand[u].doc
  PROVE  /\ TypeIInv' /\ Changes(d, StatusQty) /\ row[d].kind = "journal"
         /\ row'[d].status = "gone" /\ row'[d].qty = 0
<1>1. At(u, "cancel", {"journal"}) /\ row \in [Docs -> Row] /\ Clears(d)
  BY DEF CommitDelete, TypeIInv, PapersOK, Clears
<1>2. d \in Docs /\ row[d] \in Row /\ row[d].kind = "journal" /\ hand[u].op # "idle"
  BY <1>1, AtIs
<1>3. Changes(d, StatusQty) /\ row'[d].status = "gone" /\ row'[d].qty = 0
  BY <1>1, <1>2, ClearsDoes
<1>4. row' \in [Docs -> Row] /\ KindsStay
  BY <1>1, <1>2, <1>3, ChangesType
<1>5. Closes(u)
  BY <1>2, EndsAlone DEF CommitDelete
<1>6. gl' \in [Accounts -> Int]
  <2>0. PICK n \in Int : n = IF row[d].status = "posted" THEN row[d].qty ELSE 0
    BY <1>2, RowColumns
  <2> DEFINE legs == [other |-> -n, cash |-> n]
  <2>1. \A a \in DOMAIN legs : legs[a] \in Int
    OBVIOUS
  <2>2. Ledger(legs)
    BY <2>0 DEF CommitDelete
  <2> HIDE DEF legs
  <2> QED
    BY <2>1, <2>2, LedgerType DEF TypeIInv, MoneyOK
<1>7. UNCHANGED <<entries, booked, reversed, owed, due, stock, layers>>
  BY DEF CommitDelete, goods
<1>8. TypeIInv'
  BY <1>4, <1>5, <1>6, <1>7, CommitType DEF TypeIInv, PapersOK, MoneyOK, GoodsOK
<1> QED
  BY <1>2, <1>3, <1>8

LEMMA CommitMirrorType ==
  ASSUME TypeIInv, NEW u \in Users, CommitMirror(u)
  PROVE  TypeIInv' /\ row' = row
<1> DEFINE d == hand[u].doc
           k == hand[u].seen.kind
<1>1. At(u, "reverse", {"journal", "payroll", "provision"}) /\ row' = row /\ row \in [Docs -> Row]
  BY DEF CommitMirror, TypeIInv, PapersOK
<1>2. d \in Docs /\ hand[u].seen \in Row /\ hand[u].op # "idle"
  BY <1>1, AtIs
<1>3. Closes(u)
  BY <1>2, EndsAlone DEF CommitMirror
<1>4. row' \in [Docs -> Row] /\ KindsStay
  BY <1>1 DEF KindsStay
<1>5. gl' \in [Accounts -> Int]
  <2>0. PICK n \in Int : n = hand[u].seen.qty
    BY <1>2, RowColumns
  <2>1. PICK legs : legs = Mirror(k, n)
    OBVIOUS
  <2>2. \A a \in DOMAIN legs : legs[a] \in Int
    <3>1. legs = [wages |-> -n] \/ legs = [leaves |-> -n] \/ legs = [other |-> -n, cash |-> n]
      BY <2>1 DEF Mirror
    <3> QED
      BY <3>1
  <2>3. Ledger(legs)
    BY <2>0, <2>1 DEF CommitMirror
  <2> QED
    BY <2>2, <2>3, LedgerType DEF TypeIInv, MoneyOK
<1>6. reversed' \in [Docs -> Nat]
  BY <1>2 DEF CommitMirror, TypeIInv, PapersOK
<1>7. UNCHANGED <<entries, booked, owed, due, stock, layers>>
  BY DEF CommitMirror, goods
<1>8. TypeIInv'
  BY <1>3, <1>4, <1>5, <1>6, <1>7, CommitType DEF TypeIInv, PapersOK, MoneyOK, GoodsOK
<1> QED
  BY <1>1, <1>8

LEMMA JournalsType ==
  ASSUME TypeIInv, JournalsStep
  PROVE  TypeIInv'
<1>1. ASSUME NEW d \in Docs, CreateTransaction(d) PROVE TypeIInv'
  BY <1>1, DraftColumned, CreatesType DEF CreateTransaction
<1> QED
  BY <1>1, JournalsReads, UpdateHeaderDoes, DeleteLinesDoes, InsertLinesDoes, CommitTransactionDoes,
     CommitDeleteDoes, CommitMirrorType DEF JournalsStep

-----------------------------------------------------------------------------
LEMMA PayrollReads ==
  ASSUME TypeIInv, NEW u \in Users, NEW d \in Docs,
         \/ DeletePayrollRun(u, d) \/ PostPayrollRun(u, d)
         \/ ApproveEndOfService(u, d) \/ CancelEndOfService(u, d)
         \/ PayEndOfService(u, d) \/ DeleteEndOfService(u, d)
  PROVE  TypeIInv' /\ Quiet
<1>0. <<>> \in Seq(Nat) /\ {"post", "complete"} \subseteq Ops \ {"idle", "next"} /\ "cancelled" \in Status
  BY DEF Ops, Status
<1>1. CASE DeletePayrollRun(u, d) \/ DeleteEndOfService(u, d)
  BY <1>1, DeletesType DEF DeletePayrollRun, DeleteEndOfService
<1>2. CASE PostPayrollRun(u, d)
  <2>1. row[d].kind \notin Slips
    BY <1>2 DEF PostPayrollRun, Slips
  <2> QED
    BY <1>0, <1>2, <2>1, PostsType DEF PostPayrollRun
<1>3. CASE ApproveEndOfService(u, d)
  <2>1. Equipped("post", row[d].kind, Idle.want)
    BY <1>3 DEF ApproveEndOfService, Equipped, Slips
  <2> QED
    BY <1>0, <1>3, <2>1, KeepsType DEF ApproveEndOfService
<1>4. CASE CancelEndOfService(u, d)
  <2>1. Columned([status |-> "cancelled"])
    BY <1>0 DEF Columned, Columns
  <2> QED
    BY <1>4, <2>1, EditsType DEF CancelEndOfService
<1>5. CASE PayEndOfService(u, d)
  <2>1. Equipped("complete", row[d].kind, Idle.want)
    BY DEF Equipped
  <2> QED
    BY <1>0, <1>5, <2>1, KeepsType DEF PayEndOfService
<1> QED
  BY <1>1, <1>2, <1>3, <1>4, <1>5

(* A commit that books one entry and flips the status.                     *)
LEMMA EntryType ==
  ASSUME TypeIInv, NEW u \in Users, hand[u].op # "idle", NEW d \in Docs, Ends(u),
         Changes(d, JustStatus), NEW legs, \A a \in DOMAIN legs : legs[a] \in Int, Journal(d, legs),
         UNCHANGED <<owed, due, stock, layers>>
  PROVE  TypeIInv'
<1>1. row' \in [Docs -> Row] /\ KindsStay
  BY ChangesType DEF TypeIInv, PapersOK
<1>2. Closes(u)
  BY EndsAlone
<1>3. gl' \in [Accounts -> Int] /\ entries' \in [Docs -> Nat] /\ booked' \in [Docs -> Int] /\ reversed' \in [Docs -> Nat]
  BY JournalType DEF TypeIInv
<1> QED
  BY <1>1, <1>2, <1>3, CommitType DEF TypeIInv, MoneyOK, GoodsOK

LEMMA CommitPayrollRunDoes ==
  ASSUME TypeIInv, NEW u \in Users, CommitPayrollRun(u), NEW d, d = hand[u].doc
  PROVE  /\ TypeIInv' /\ Changes(d, JustStatus) /\ row[d].kind = "payroll"
         /\ row'[d].status = IF row[d].status = "draft" THEN "posted" ELSE row[d].status
<1>1. At(u, "post", {"payroll"}) /\ row \in [Docs -> Row] /\ "posted" \in Status
      /\ row' = Flipped(d, {"draft"}, "posted") /\ Ends(u) /\ UNCHANGED <<owed, due, stock, layers>>
  BY DEF CommitPayrollRun, TypeIInv, PapersOK, Status, goods
<1>2. d \in Docs /\ row[d].kind = "payroll" /\ hand[u].op # "idle" /\ hand[u].seen.qty \in Int
  BY <1>1, AtIs, RowColumns
<1>3. Changes(d, JustStatus) /\ row'[d].status = IF row[d].status = "draft" THEN "posted" ELSE row[d].status
  BY <1>1, <1>2, FlipDoes
<1>4. PICK legs : legs = [wages |-> hand[u].seen.qty]
  OBVIOUS
<1>5. (\A a \in DOMAIN legs : legs[a] \in Int) /\ Journal(d, legs)
  BY <1>2, <1>4 DEF CommitPayrollRun
<1> QED
  BY <1>1, <1>2, <1>3, <1>5, EntryType

LEMMA CommitApprovalDoes ==
  ASSUME TypeIInv, NEW u \in Users, CommitApproval(u), NEW d, d = hand[u].doc
  PROVE  /\ TypeIInv' /\ Changes(d, JustStatus) /\ row[d].kind = "endOfService"
         /\ row'[d].status = IF row[d].status = "draft" THEN "approved" ELSE row[d].status
<1>1. At(u, "post", {"endOfService"}) /\ row \in [Docs -> Row] /\ "approved" \in Status
      /\ row' = Flipped(d, {"draft"}, "approved") /\ Ends(u) /\ UNCHANGED <<owed, due, stock, layers>>
  BY DEF CommitApproval, TypeIInv, PapersOK, Status, goods
<1>2. d \in Docs /\ row[d].kind = "endOfService" /\ hand[u].op # "idle" /\ hand[u].seen.qty \in Int
  BY <1>1, AtIs, RowColumns
<1>3. Changes(d, JustStatus) /\ row'[d].status = IF row[d].status = "draft" THEN "approved" ELSE row[d].status
  BY <1>1, <1>2, FlipDoes
<1>4. PICK legs : legs = [severance |-> hand[u].seen.qty]
  OBVIOUS
<1>5. (\A a \in DOMAIN legs : legs[a] \in Int) /\ Journal(d, legs)
  BY <1>2, <1>4 DEF CommitApproval
<1> QED
  BY <1>1, <1>2, <1>3, <1>5, EntryType

LEMMA CommitSettlementDoes ==
  ASSUME TypeIInv, NEW u \in Users, CommitSettlement(u), NEW d, d = hand[u].doc
  PROVE  /\ TypeIInv' /\ Changes(d, JustStatus) /\ row[d].kind = "endOfService"
         /\ row'[d].status = IF row[d].status = "approved" THEN "paid" ELSE row[d].status
<1>1. At(u, "complete", {"endOfService"}) /\ row \in [Docs -> Row] /\ "paid" \in Status
      /\ row' = Flipped(d, {"approved"}, "paid") /\ Ends(u) /\ UNCHANGED <<owed, due, stock, layers>>
  BY DEF CommitSettlement, TypeIInv, PapersOK, Status, goods
<1>2. d \in Docs /\ row[d].kind = "endOfService" /\ hand[u].op # "idle" /\ hand[u].seen.qty \in Int
  BY <1>1, AtIs, RowColumns
<1>3. Changes(d, JustStatus) /\ row'[d].status = IF row[d].status = "approved" THEN "paid" ELSE row[d].status
  BY <1>1, <1>2, FlipDoes
<1>4. PICK n, legs : n = hand[u].seen.qty /\ legs = [severance |-> -n, cash |-> -n]
  OBVIOUS
<1>5. (\A a \in DOMAIN legs : legs[a] \in Int) /\ Journal(d, legs)
  BY <1>2, <1>4 DEF CommitSettlement
<1> QED
  BY <1>1, <1>2, <1>3, <1>5, EntryType

LEMMA PayrollType ==
  ASSUME TypeIInv, PayrollStep
  PROVE  TypeIInv'
<1>1. ASSUME NEW d \in Docs, CreatePayrollRun(d) \/ CreateEndOfService(d) PROVE TypeIInv'
  BY <1>1, DraftColumned, CreatesType DEF CreatePayrollRun, CreateEndOfService
<1> QED
  BY <1>1, PayrollReads, CommitPayrollRunDoes, CommitApprovalDoes, CommitSettlementDoes DEF PayrollStep

-----------------------------------------------------------------------------
LEMMA DaysType ==
  ASSUME PapersOK, NEW of
  PROVE  Days(of) \in Int
<1> DEFINE S == {x \in Rows("leave") : row[x].status \in of}
<1>1. S \in SUBSET Docs
  BY DEF Rows
<1> HIDE DEF S
<1>2. Total([r \in S |-> row[r].qty]) \in Int
  BY <1>1, ReturnedType
<1> QED
  BY <1>2 DEF Days, S

LEMMA RemainingType == ASSUME PapersOK PROVE Remaining \in Int
<1>1. Days(Claiming) \in Int /\ LeaveDays \in Int
  BY DaysType, BooksAssumption DEF BooksAssumption
<1> QED
  BY <1>1 DEF Remaining

LEMMA LeavesReads ==
  ASSUME TypeIInv, NEW u \in Users, NEW d \in Docs,
         \/ CreateLeave(u, d) \/ UpdateLeaveStatus(u, d) \/ DeleteLeave(u, d)
         \/ PostLeaveProvision(u, d)
  PROVE  TypeIInv' /\ Quiet
<1>0. <<>> \in Seq(Nat) /\ Main \in Warehouses /\ "new" \in Ops \ {"idle", "next"}
      /\ {"pending", "approved", "rejected", "cancelled"} \subseteq Status
  BY DEF Ops, Warehouses, Status
<1>1. CASE CreateLeave(u, d)
  <2>1. PICK first, days \in 1..MaxQty :
          Reads(u, "new", d, [status |-> "pending", qty |-> days, mark |-> first], <<>>, Main)
    BY <1>1 DEF CreateLeave
  <2>2. PICK w : w = [status |-> "pending", qty |-> days, mark |-> first]
    OBVIOUS
  <2>3. Columned(w)
    BY <1>0, <2>2 DEF Columned, Columns
  <2>4. row[d].kind = "leave"
    BY <1>1 DEF CreateLeave
  <2>5. Equipped("new", row[d].kind, w)
    BY <2>4 DEF Equipped, Slips
  <2> QED
    BY <1>0, <2>1, <2>2, <2>3, <2>5, ReadsType
<1>2. CASE UpdateLeaveStatus(u, d)
  <2>1. PICK s \in Status : Edits(u, d, [status |-> s])
    BY <1>0, <1>2 DEF UpdateLeaveStatus
  <2>2. Columned([status |-> s])
    BY DEF Columned, Columns
  <2> QED
    BY <2>1, <2>2, EditsType
<1>3. CASE DeleteLeave(u, d)
  BY <1>3, DeletesType DEF DeleteLeave
<1>4. CASE PostLeaveProvision(u, d)
  <2>1. PICK n : n = Remaining - gl["leaves"]
    OBVIOUS
  <2>2. n \in Int
    <3>1. Remaining \in Int /\ gl["leaves"] \in Int
      BY RemainingType DEF TypeIInv, MoneyOK, Accounts
    <3> QED
      BY <2>1, <3>1
  <2>3. PICK w : w = [qty |-> n]
    OBVIOUS
  <2>4. Columned(w)
    BY <2>2, <2>3 DEF Columned, Columns
  <2>5. row[d].kind = "provision"
    BY <1>4 DEF PostLeaveProvision
  <2>6. Equipped("new", row[d].kind, w)
    BY <2>3, <2>5 DEF Equipped, Slips
  <2>7. Reads(u, "new", d, w, <<>>, Main)
    BY <1>4, <2>1, <2>3 DEF PostLeaveProvision
  <2> QED
    BY <1>0, <2>4, <2>6, <2>7, ReadsType
<1> QED
  BY <1>1, <1>2, <1>3, <1>4

LEMMA InsertLeaveDoes ==
  ASSUME TypeIInv, NEW u \in Users, InsertLeave(u), NEW d, d = hand[u].doc
  PROVE  TypeIInv' /\ Changes(d, Columns) /\ row[d].kind = "leave"
<1>1. At(u, "new", {"leave"}) /\ row \in [Docs -> Row] /\ Updates(d, hand[u].want)
  BY DEF InsertLeave, TypeIInv, PapersOK, Updates
<1>2. d \in Docs /\ row[d].kind = "leave" /\ hand[u].op # "idle" /\ Columned(hand[u].want)
  BY <1>1, AtIs
<1>3. Changes(d, Columns)
  BY <1>1, <1>2, UpdatesDoes
<1>4. row' \in [Docs -> Row] /\ KindsStay
  BY <1>1, <1>2, <1>3, ChangesType
<1>5. Closes(u)
  BY <1>2, EndsAlone DEF InsertLeave
<1>6. UNCHANGED <<entries, booked, reversed, gl, owed, due, stock, layers>>
  BY DEF InsertLeave, money, goods
<1>7. TypeIInv'
  BY <1>4, <1>5, <1>6, CommitType DEF TypeIInv, PapersOK, MoneyOK, GoodsOK
<1> QED
  BY <1>2, <1>3, <1>7

LEMMA CommitProvisionDoes ==
  ASSUME TypeIInv, NEW u \in Users, CommitProvision(u), NEW d, d = hand[u].doc
  PROVE  TypeIInv' /\ Changes(d, StatusQty) /\ row[d].kind = "provision"
<1>1. At(u, "new", {"provision"}) /\ row \in [Docs -> Row] /\ "posted" \in Status
  BY DEF CommitProvision, TypeIInv, PapersOK, Status
<1>2. /\ d \in Docs /\ row[d].kind = "provision" /\ hand[u].op # "idle" /\ row[d] \in Row
      /\ hand[u].seen.kind = "provision" /\ Columned(hand[u].want) /\ Equipped("new", hand[u].seen.kind, hand[u].want)
  BY <1>1, AtIs
<1>3. PICK n \in Int : n = hand[u].want.qty
  BY <1>2 DEF Columned, Equipped
<1>4. PICK m \in Int : m = row[d].qty + n
  BY <1>2, RowColumns
<1>5. PICK r : r = [row[d] EXCEPT !.status = "posted", !.qty = m]
  OBVIOUS
<1>6. r \in Row /\ Like(r, row[d], StatusQty)
  BY <1>1, <1>2, <1>5 DEF Row, Like, StatusQty
<1>7. row' = [row EXCEPT ![d] = r]
  BY <1>3, <1>4, <1>5 DEF CommitProvision
<1>8. Changes(d, StatusQty)
  BY <1>1, <1>2, <1>6, <1>7, RowChanges
<1>9. row' \in [Docs -> Row] /\ KindsStay
  BY <1>1, <1>2, <1>8, ChangesType
<1>10. Closes(u)
  BY <1>2, EndsAlone DEF CommitProvision
<1>11. gl' \in [Accounts -> Int] /\ entries' \in [Docs -> Nat] /\ booked' \in [Docs -> Int] /\ reversed' \in [Docs -> Nat]
  <2>1. PICK legs : legs = [leaves |-> n]
    OBVIOUS
  <2>2. (\A a \in DOMAIN legs : legs[a] \in Int) /\ Journal(d, legs)
    BY <1>3, <2>1 DEF CommitProvision
  <2> QED
    BY <1>2, <2>2, JournalType DEF TypeIInv
<1>12. UNCHANGED <<owed, due, stock, layers>>
  BY DEF CommitProvision, goods
<1>13. TypeIInv'
  BY <1>9, <1>10, <1>11, <1>12, CommitType DEF TypeIInv, MoneyOK, GoodsOK
<1> QED
  BY <1>2, <1>8, <1>13

LEMMA LeavesType ==
  ASSUME TypeIInv, LeavesStep
  PROVE  TypeIInv'
  BY LeavesReads, InsertLeaveDoes, CommitProvisionDoes DEF LeavesStep

-----------------------------------------------------------------------------
LEMMA FundingType ==
  ASSUME NEW q \in Int, NEW f \in Funding(q)
  PROVE  f.applied \in Int /\ f.mark \in Int
  BY DEF Funding

(* A life shorter than the months that passed is never divided by.         *)
LEMMA ChargeType ==
  ASSUME NEW r \in Row, NEW m \in Months
  PROVE  Charge(r, m) \in Int
<1>1. PICK a \in Int, q \in Int, p \in Int : a = r.actual /\ q = r.qty /\ p = r.paid
  BY RowColumns
<1>2. PICK k \in Int : k = m * q /\ (m = 1 \/ m = 2)
  BY DEF Months
<1>3. ~(m > a) => k \div a \in Int
  BY <1>2
<1>4. PICK t : t = Target(r, m)
  OBVIOUS
<1>5. t \in Int
  BY <1>1, <1>2, <1>3, <1>4 DEF Target
<1> QED
  BY <1>1, <1>4, <1>5 DEF Charge

LEMMA AssetsReads ==
  ASSUME TypeIInv, NEW u \in Users, NEW d \in Docs,
         \/ CreateFixedAsset(u, d) \/ UpdateFixedAsset(u, d) \/ DeleteFixedAsset(u, d)
         \/ RunDepreciation(u, d) \/ DisposeFixedAsset(u, d)
  PROVE  TypeIInv' /\ Quiet
<1>0. /\ <<>> \in Seq(Nat) /\ Main \in Warehouses /\ {"new", "charge", "dispose"} \subseteq Ops \ {"idle", "next"}
      /\ {"active", "disposed"} \subseteq Status /\ row[d] \in Row
  BY DEF Ops, Warehouses, Status, TypeIInv, PapersOK
<1>1. CASE CreateFixedAsset(u, d)
  <2>1. PICK q \in 1..MaxQty, life \in 1..2 : \E f \in Funding(q) :
          Reads(u, "new", d, [status |-> "active", qty |-> q, actual |-> life,
                              applied |-> f.applied, mark |-> f.mark], <<>>, Main)
    BY <1>1 DEF CreateFixedAsset
  <2>2. PICK f \in Funding(q) :
          Reads(u, "new", d, [status |-> "active", qty |-> q, actual |-> life,
                              applied |-> f.applied, mark |-> f.mark], <<>>, Main)
    BY <2>1
  <2>3. PICK w : w = [status |-> "active", qty |-> q, actual |-> life, applied |-> f.applied, mark |-> f.mark]
    OBVIOUS
  <2>4. Columned(w)
    BY <1>0, <2>3, FundingType DEF Columned, Columns
  <2>5. row[d].kind = "asset"
    BY <1>1 DEF CreateFixedAsset
  <2>6. Equipped("new", row[d].kind, w)
    BY <2>3, <2>5 DEF Equipped, Slips
  <2> QED
    BY <1>0, <2>2, <2>3, <2>4, <2>6, ReadsType
<1>2. CASE UpdateFixedAsset(u, d)
  <2>1. PICK life \in 1..2 : Edits(u, d, [actual |-> life])
    BY <1>2 DEF UpdateFixedAsset
  <2>2. Columned([actual |-> life])
    BY DEF Columned, Columns
  <2> QED
    BY <2>1, <2>2, EditsType
<1>3. CASE DeleteFixedAsset(u, d)
  BY <1>3, DeletesType DEF DeleteFixedAsset
<1>4. CASE RunDepreciation(u, d)
  <2>1. PICK m \in Months : /\ Charge(row[d], m) > 0
                            /\ Reads(u, "charge", d, [paid |-> Charge(row[d], m), mark |-> m], <<>>, Main)
    BY <1>4 DEF RunDepreciation
  <2>2. PICK n : n = Charge(row[d], m)
    OBVIOUS
  <2>3. PICK w : w = [paid |-> n, mark |-> m]
    OBVIOUS
  <2>4. n \in Int /\ m \in Int
    BY <1>0, <2>1, <2>2, ChargeType DEF Months
  <2>5. Columned(w)
    BY <2>3, <2>4 DEF Columned, Columns
  <2>6. Equipped("charge", row[d].kind, w)
    BY <2>3 DEF Equipped
  <2>7. Reads(u, "charge", d, w, <<>>, Main)
    BY <2>1, <2>2, <2>3
  <2> QED
    BY <1>0, <2>5, <2>6, <2>7, ReadsType
<1>5. CASE DisposeFixedAsset(u, d)
  <2>1. PICK proceeds \in 0..MaxQty :
          Reads(u, "dispose", d, [status |-> "disposed", applied |-> row[d].applied - proceeds], <<>>, Main)
    BY <1>5 DEF DisposeFixedAsset
  <2>2. PICK w, n : n = row[d].applied - proceeds /\ w = [status |-> "disposed", applied |-> n]
    OBVIOUS
  <2>3. n \in Int
    BY <1>0, <2>1, <2>2, RowColumns
  <2>4. Columned(w)
    BY <1>0, <2>2, <2>3 DEF Columned, Columns
  <2>5. Equipped("dispose", row[d].kind, w)
    BY <2>2 DEF Equipped
  <2>6. Reads(u, "dispose", d, w, <<>>, Main)
    BY <2>1, <2>2
  <2> QED
    BY <1>0, <2>4, <2>5, <2>6, ReadsType
<1> QED
  BY <1>1, <1>2, <1>3, <1>4, <1>5

LEMMA CommitAssetDoes ==
  ASSUME TypeIInv, NEW u \in Users, CommitAsset(u), NEW d, d = hand[u].doc
  PROVE  /\ TypeIInv' /\ Changes(d, Columns) /\ row[d].kind = "asset" /\ row[d].status = "none"
         /\ Wrote(row'[d], row[d], hand[u].want)
<1>1. At(u, "new", {"asset"}) /\ row \in [Docs -> Row] /\ Updates(d, hand[u].want) /\ row[d].status = "none"
  BY DEF CommitAsset, TypeIInv, PapersOK, Updates
<1>2. /\ d \in Docs /\ row[d].kind = "asset" /\ hand[u].op # "idle" /\ Columned(hand[u].want)
      /\ hand[u].seen.kind = "asset" /\ Equipped("new", hand[u].seen.kind, hand[u].want)
  BY <1>1, AtIs
<1>3. Changes(d, Columns) /\ Wrote(row'[d], row[d], hand[u].want)
  BY <1>1, <1>2, UpdatesDoes
<1>4. row' \in [Docs -> Row] /\ KindsStay
  BY <1>1, <1>2, <1>3, ChangesType
<1>5. Closes(u)
  BY <1>2, EndsAlone DEF CommitAsset
<1>6. gl' \in [Accounts -> Int] /\ entries' \in [Docs -> Nat]
  <2>0. PICK q \in Int, a \in Int, m \in Int : q = hand[u].want.qty /\ a = hand[u].want.applied /\ m = hand[u].want.mark
    BY <1>2 DEF Columned, Equipped
  <2> DEFINE legs == [assets |-> q, cash |-> -a, creditors |-> m]
  <2>1. \A x \in DOMAIN legs : legs[x] \in Int
    BY <2>0
  <2>2. Ledger(legs)
    BY <2>0 DEF CommitAsset
  <2> HIDE DEF legs
  <2>3. gl' \in [Accounts -> Int]
    BY <2>1, <2>2, LedgerType DEF TypeIInv, MoneyOK
  <2>4. entries' \in [Docs -> Nat]
    BY <1>2 DEF CommitAsset, TypeIInv, PapersOK
  <2> QED
    BY <2>3, <2>4
<1>7. UNCHANGED <<booked, reversed, owed, due, stock, layers>>
  BY DEF CommitAsset, goods
<1>8. TypeIInv'
  BY <1>4, <1>5, <1>6, <1>7, CommitType DEF TypeIInv, PapersOK, MoneyOK, GoodsOK
<1> QED
  BY <1>1, <1>2, <1>3, <1>8

LEMMA CommitDepreciationDoes ==
  ASSUME TypeIInv, NEW u \in Users, CommitDepreciation(u), NEW d, d = hand[u].doc
  PROVE  /\ TypeIInv' /\ Changes(d, JustPaid) /\ row[d].kind = "asset"
         /\ hand[u].want.paid \in Int
         /\ row'[d].paid = IF row[d].status = "active" THEN row[d].paid + hand[u].want.paid ELSE row[d].paid
<1>0. PICK n, m : n = hand[u].want.paid /\ m = hand[u].want.mark
  OBVIOUS
<1>1. At(u, "charge", {"asset"}) /\ row \in [Docs -> Row]
  BY DEF CommitDepreciation, TypeIInv, PapersOK
<1>2. d \in Docs /\ row[d].kind = "asset" /\ row[d] \in Row /\ hand[u].op # "idle" /\ n \in Int /\ m \in Int
  <2>1. /\ d \in Docs /\ row[d].kind = "asset" /\ row[d] \in Row /\ hand[u].op # "idle"
        /\ Columned(hand[u].want) /\ Equipped("charge", hand[u].seen.kind, hand[u].want)
    BY <1>1, AtIs
  <2> QED
    BY <1>0, <2>1 DEF Columned, Equipped
<1>3. Changes(d, JustPaid) /\ row'[d].paid = IF row[d].status = "active" THEN row[d].paid + n ELSE row[d].paid
  <2>1. CASE row[d].status = "active"
    <3>1. PICK k \in Int : k = row[d].paid + n
      BY <1>2, RowColumns
    <3>2. PICK r : r = [row[d] EXCEPT !.paid = k]
      OBVIOUS
    <3>3. r \in Row /\ Like(r, row[d], JustPaid) /\ r.paid = k
      BY <1>2, <3>2 DEF Row, Like, JustPaid
    <3>4. row' = [row EXCEPT ![d] = r]
      BY <1>0, <2>1, <3>1, <3>2 DEF CommitDepreciation
    <3> QED
      BY <1>1, <1>2, <2>1, <3>1, <3>3, <3>4, RowChanges
  <2>2. CASE row[d].status # "active"
    BY <1>1, <1>2, <2>2, StaysDoes DEF CommitDepreciation
  <2> QED
    BY <2>1, <2>2
<1>4. row' \in [Docs -> Row] /\ KindsStay
  BY <1>1, <1>2, <1>3, ChangesType
<1>5. Closes(u)
  BY <1>2, EndsAlone DEF CommitDepreciation
<1>6. gl' \in [Accounts -> Int]
  <2>1. PICK legs : legs = [accumulated |-> n]
    OBVIOUS
  <2>2. (\A a \in DOMAIN legs : legs[a] \in Int) /\ Ledger(legs)
    BY <1>0, <1>2, <2>1 DEF CommitDepreciation
  <2> QED
    BY <2>2, LedgerType DEF TypeIInv, MoneyOK
<1>7. entries' \in [Docs -> Nat] /\ booked' \in [Docs -> Int]
  <2>1. PICK c : c = IF Charged(d, m) THEN booked[d] ELSE booked[d] + m
    OBVIOUS
  <2>2. c \in Int /\ entries \in [Docs -> Nat] /\ booked \in [Docs -> Int]
    BY <1>2, <2>1 DEF TypeIInv, PapersOK
  <2>3. booked' = [booked EXCEPT ![d] = c] /\ entries' = [entries EXCEPT ![d] = @ + 1]
    BY <1>0, <2>1 DEF CommitDepreciation
  <2> QED
    BY <1>2, <2>2, <2>3
<1>8. UNCHANGED <<reversed, owed, due, stock, layers>>
  BY DEF CommitDepreciation, goods
<1>9. TypeIInv'
  BY <1>4, <1>5, <1>6, <1>7, <1>8, CommitType DEF TypeIInv, PapersOK, MoneyOK, GoodsOK
<1> QED
  BY <1>0, <1>2, <1>3, <1>9

LEMMA CommitDisposalDoes ==
  ASSUME TypeIInv, NEW u \in Users, CommitDisposal(u), NEW d, d = hand[u].doc
  PROVE  /\ TypeIInv' /\ Changes(d, Columns) /\ row[d].kind = "asset"
         /\ row[d].status = "active" => Wrote(row'[d], row[d], hand[u].want)
         /\ row[d].status # "active" => row' = row
<1>1. At(u, "dispose", {"asset"}) /\ row \in [Docs -> Row]
  BY DEF CommitDisposal, TypeIInv, PapersOK
<1>2. /\ d \in Docs /\ row[d].kind = "asset" /\ row[d] \in Row /\ hand[u].op # "idle" /\ hand[u].seen \in Row
      /\ Columned(hand[u].want) /\ Equipped("dispose", hand[u].seen.kind, hand[u].want)
  BY <1>1, AtIs
<1>3. /\ Changes(d, Columns)
      /\ row[d].status = "active" => Wrote(row'[d], row[d], hand[u].want)
      /\ row[d].status # "active" => row' = row
  <2>1. CASE row[d].status = "active"
    <3>1. Updates(d, hand[u].want)
      BY <2>1 DEF CommitDisposal, Updates
    <3> QED
      BY <1>1, <1>2, <2>1, <3>1, UpdatesDoes
  <2>2. CASE row[d].status # "active"
    BY <1>1, <1>2, <2>2, StaysDoes DEF CommitDisposal
  <2> QED
    BY <2>1, <2>2
<1>4. row' \in [Docs -> Row] /\ KindsStay
  BY <1>1, <1>2, <1>3, ChangesType
<1>5. Closes(u)
  BY <1>2, EndsAlone DEF CommitDisposal
<1>6. gl' \in [Accounts -> Int]
  <2>0. PICK q \in Int, p \in Int, c \in Int :
          q = hand[u].seen.qty /\ p = hand[u].seen.paid /\ c = hand[u].seen.applied - hand[u].want.applied
    BY <1>2, RowColumns DEF Columned, Equipped
  <2> DEFINE legs == [assets |-> -q, accumulated |-> -p, cash |-> c]
  <2>1. \A x \in DOMAIN legs : legs[x] \in Int
    BY <2>0
  <2>2. Ledger(legs)
    BY <2>0 DEF CommitDisposal
  <2> HIDE DEF legs
  <2> QED
    BY <2>1, <2>2, LedgerType DEF TypeIInv, MoneyOK
<1>7. reversed' \in [Docs -> Nat]
  BY <1>2 DEF CommitDisposal, TypeIInv, PapersOK
<1>8. UNCHANGED <<entries, booked, owed, due, stock, layers>>
  BY DEF CommitDisposal, goods
<1>9. TypeIInv'
  BY <1>4, <1>5, <1>6, <1>7, <1>8, CommitType DEF TypeIInv, PapersOK, MoneyOK, GoodsOK
<1> QED
  BY <1>2, <1>3, <1>9

LEMMA AssetsType ==
  ASSUME TypeIInv, AssetsStep
  PROVE  TypeIInv'
  BY AssetsReads, CommitAssetDoes, CommitDepreciationDoes, CommitDisposalDoes DEF AssetsStep

-----------------------------------------------------------------------------
LEMMA InitType == Init => TypeIInv
<1> SUFFICES ASSUME Init PROVE TypeIInv
  OBVIOUS
<1>1. PICK mix \in Mixes, before \in {"none", "closed"} :
        row = [d \in Docs |-> [Blank(mix[d]) EXCEPT !.status = IF mix[d] = "year" THEN before ELSE @]]
  BY DEF Init, BooksInit
<1>2. row \in [Docs -> Row]
  <2>1. ASSUME NEW d \in Docs
        PROVE  [Blank(mix[d]) EXCEPT !.status = IF mix[d] = "year" THEN before ELSE @] \in Row
    <3>1. mix[d] \in Kinds
      BY <1>1, BooksAssumption DEF BooksAssumption
    <3>2. PICK b : b = Blank(mix[d])
      OBVIOUS
    <3>3. b \in Row
      BY <3>1, <3>2, BlankIsRow
    <3>4. "none" \in Status /\ "closed" \in Status
      BY DEF Status
    <3>5. [b EXCEPT !.status = IF mix[d] = "year" THEN before ELSE @] \in Row
      BY <1>1, <3>3, <3>4 DEF Row
    <3> QED
      BY <3>2, <3>5
  <2> QED
    BY <1>1, <2>1
<1>3. PapersOK
  BY <1>2 DEF Init, BooksInit, PapersOK
<1>4. MoneyOK
  BY BooksAssumption DEF Init, BooksInit, MoneyOK, Opening, BooksAssumption
<1>5. GoodsOK
  BY DEF Init, BooksInit, GoodsOK, Products
<1>6. HandsOK
  BY IdleIsPlan DEF Init, BooksInit, HandsOK
<1>7. CountsOK
  BY BooksAssumption DEF Init, BooksInit, CountsOK, BooksAssumption
<1> QED
  BY <1>3, <1>4, <1>5, <1>6, <1>7 DEF TypeIInv

LEMMA TypeStep ==
  ASSUME TypeIInv, [Next]_books
  PROVE  TypeIInv'
<1>1. CASE BooksStep
  BY <1>1, WriteType, FailsType DEF BooksStep
<1>2. CASE UNCHANGED books
  <2>1. Quiet /\ KindsStay /\ hand' = hand /\ ops' = ops
    BY <1>2, QuietKinds DEF books, work, Quiet
  <2>2. HandsOK'
    BY <2>1, HandRests DEF TypeIInv
  <2>3. ops' \in 0..MaxOps
    BY <2>1 DEF TypeIInv, CountsOK
  <2> QED
    BY <2>1, <2>2, <2>3, QuietType
<1> QED
  BY <1>1, <1>2, SalesType, PurchasesType, VouchersType, InventoryType, ManufacturingType, TillType,
     ConversionType, PeriodsType, JournalsType, PayrollType, LeavesType, AssetsType DEF Next

(* Every variable stays in its range, whatever the sessions do: rows,      *)
(* balances and cost layers keep their types, and a plan holds every       *)
(* column its transaction will take from it.                               *)
THEOREM TradeTypeCorrect == Spec => []TypeOK
<1>1. Init => TypeIInv
  BY InitType
<1>2. TypeIInv /\ [Next]_books => TypeIInv'
  BY TypeStep
<1>3. TypeIInv => TypeOK
  BY TypeIInvIs
<1> QED
  BY <1>1, <1>2, <1>3, PTL DEF Spec

-----------------------------------------------------------------------------
(* What is known of a document by its kind and its status, and of a plan   *)
(* by the row it was made from.                                            *)

Deals == Invoices \cup Bills

FreshRow(d) ==
  row[d].status = "none" =>
    row[d] = Blank(row[d].kind) /\ entries[d] = 0 /\ booked[d] = 0 /\ reversed[d] = 0
DealRow(d) ==
  row[d].kind \in Deals \cup {"ticket"} =>
    row[d].status \in {"none", "gone", "draft", "cancelled", "posted", "partially_paid", "paid"}
UnpaidRow(d) == row[d].kind \in Deals /\ row[d].status = "draft" /\ d \notin disturbed => row[d].paid = 0

(* What a voucher pays into the cash box. *)
Amount(r) == IF r.kind = "receipt" THEN r.qty ELSE -r.qty
SlipRow(d) ==
  row[d].kind \in Slips =>
    /\ row[d].status \in {"none", "gone", "draft", "cancelled", "posted", "reversed"}
    /\ d \notin disturbed =>
         booked[d] = IF row[d].status \in {"posted", "reversed"} THEN Amount(row[d]) ELSE 0
OrderRow(d) ==
  row[d].kind = "workOrder" =>
    /\ row[d].status = "planned" => row[d].mark = 0
    /\ row[d].status = "in_progress" /\ d \notin disturbed => row[d].mark = row[d].qty
    /\ Exists(d) => row[d].qty > 0
ShiftRow(d) == row[d].kind = "shift" /\ row[d].status = "open" => entries[d] = 0
LedgerRow(d) ==
  row[d].kind \in {"journal", "payroll"} /\ row[d].status = "draft" /\ d \notin disturbed => reversed[d] = 0
ProvisionRow(d) ==
  row[d].kind = "provision" =>
    row[d].status \in {"none", "posted"} /\ (entries[d] = 0 => row[d].status = "none")
LinkRow(d) ==
  row[d].link # NoDoc =>
    /\ row[d].kind \in Slips => row[row[d].link].kind \in Settles(row[d].kind)
    /\ row[d].kind \notin Deals => row[row[d].link].kind \notin Offers

RowOK(d) ==
  /\ FreshRow(d) /\ DealRow(d) /\ UnpaidRow(d) /\ SlipRow(d) /\ OrderRow(d)
  /\ ShiftRow(d) /\ LedgerRow(d) /\ ProvisionRow(d) /\ LinkRow(d)

(* What is known of a plan and of the row it was made from.                *)
Begun(h) == h.op \notin {"idle", "new"} => row[h.doc].status # "none"
Named(h) ==
  /\ "status" \in DOMAIN h.want => h.want.status # "none"
  /\ "link" \in DOMAIN h.want =>
       /\ h.seen.kind \in Slips \cup {"ticket"}
       /\ h.want.link # NoDoc =>
            /\ h.seen.kind \in Slips => row[h.want.link].kind \in Settles(h.seen.kind)
            /\ h.seen.kind = "ticket" => row[h.want.link].kind = "shift"
Offered(h) == h.op \in {"claim", "claimed", "release"} => h.seen.kind \in Offers /\ h.seen.status \in Convertible
Drafted(h) ==
  h.op \in {"post", "floor"} =>
    /\ h.seen.kind = "workOrder" => h.seen.status = "planned"
    /\ h.seen.kind \notin {"workOrder", "adjustment"} => h.seen.status = "draft"
    /\ h.seen.kind \in Slips =>
         /\ DOMAIN h.want = {"qty", "link", "applied"}
         /\ h.want.qty = h.seen.qty /\ h.want.link = h.seen.link /\ h.want.applied = h.seen.applied
    /\ h.seen.kind \in Deals => h.doc \in disturbed \/ h.seen.paid = 0
Renewed(h) ==
  h.op = "new" =>
    /\ h.seen.status = "none"
    /\ h.seen.kind \in Slips \cup {"asset", "leave"} => "status" \in DOMAIN h.want
    /\ h.seen.kind \in Slips => h.want.status = "posted" /\ DOMAIN h.want = {"status", "qty", "link", "applied"}
    /\ h.seen.kind = "asset" => h.want.status = "active" /\ DOMAIN h.want = {"status", "qty", "actual", "applied", "mark"}
    /\ h.seen.kind = "ticket" => h.want.paid = h.want.mark
Undone(h) ==
  /\ h.op = "reverse" =>
       /\ h.seen.status = "posted"
       /\ h.seen.kind \in Slips => h.doc \in disturbed \/ h.want.mark = Amount(h.seen)
  /\ h.op = "cancel" /\ h.seen.kind = "journal" => h.seen.status = "draft"
  /\ h.op = "header" /\ "status" \in DOMAIN h.want => h.want.status = "cancelled"
  /\ h.op = "cancel" /\ h.seen.kind = "workOrder" =>
       /\ h.seen.status = "planned" => h.seen.mark = 0 /\ h.want.actual = 0
       /\ h.seen.status # "planned" =>
            /\ h.seen.status = "in_progress" /\ h.seen.qty > 0 /\ h.want.actual \in {0, h.seen.qty}
            /\ h.doc \in disturbed \/ h.seen.mark = h.seen.qty
Finished(h) ==
  /\ h.op = "complete" /\ h.seen.kind = "endOfService" => h.seen.status = "approved"
  /\ h.op = "complete" /\ h.seen.kind = "workOrder" =>
       /\ h.seen.status = "in_progress"
       /\ h.doc \in disturbed \/ h.seen.mark = h.seen.qty
  /\ h.op = "charge" => h.seen.status = "active"
  /\ h.op = "dispose" =>
       h.seen.status = "active" /\ h.want.status = "disposed" /\ DOMAIN h.want = {"status", "applied"}
Counted(h) ==
  h.op \in {"lookup", "entry"} =>
    /\ h.seen.kind = "shift" /\ row[h.doc].status = "closed"
    /\ h.want.mark = row[h.doc].mark /\ h.want.actual = row[h.doc].actual
Meant(h) ==
  h.op = "write" =>
    /\ h.seen.kind \notin {"shift", "ticket", "journal", "provision"}
    /\ h.seen.kind = "asset" => h.seen.status # "disposed"
    /\ {"paid", "mark"} \cap DOMAIN h.want = {}
    /\ h.seen.status \in Standing =>
         Unguarded(h.seen.kind, h.want) \/ h.seen.kind = "leave" \/ (h.seen.kind = "asset" /\ DOMAIN h.want = {"actual"})
    /\ "status" \in DOMAIN h.want =>
         /\ h.want.status \in Standing \cup {"disposed", "reversed", "planned"} => h.seen.kind = "leave"
         /\ h.seen.kind \in Deals \cup {"workOrder", "payroll"} => h.want.status = "gone"
         /\ h.seen.kind \in Slips => h.want.status \in {"gone", "draft", "cancelled"}
    /\ h.seen.kind \in Slips => h.seen.status # "reversed"
    /\ h.seen.kind = "workOrder" /\ "qty" \in DOMAIN h.want => h.want.qty > 0 /\ h.seen.status = "planned"

PlanOK(h) ==
  /\ Begun(h) /\ Named(h) /\ Offered(h) /\ Drafted(h) /\ Renewed(h)
  /\ Undone(h) /\ Finished(h) /\ Counted(h) /\ Meant(h)

RowsOK == \A d \in Docs : RowOK(d)
PlansOK == \A u \in Users : \A h \in {hand[u]} : PlanOK(h)
Facts == RowsOK /\ PlansOK

(* What no step does to a document.                                        *)
SteadyRow(x) ==
  /\ row[x].status # "none" => row'[x].status # "none"
  /\ row[x].kind = "shift" /\ row[x].status = "closed" =>
       row'[x].status = "closed" /\ row'[x].mark = row[x].mark /\ row'[x].actual = row[x].actual
  /\ row[x].kind = "ticket" /\ row[x].status = "none" /\ row'[x] # row[x] => row[row'[x].link].status = "open"
(* What only the conversion of an offer does.                              *)
TameRow(x) ==
  /\ row[x].kind \in Deals =>
       row'[x].link = row[x].link /\ (row[x].status = "gone" => row'[x].status = "gone")
  /\ row[x].kind \in Offers /\ row[x].status = "converted" /\ x \notin disturbed' => row'[x].status = "converted"

Steady == \A x \in Docs : SteadyRow(x)
Tame ==
  /\ KindsStay /\ disturbed \subseteq disturbed'
  /\ \A x \in Docs : TameRow(x)
  /\ \A u \in Users : hand'[u].op \in {"claimed", "release"} => hand'[u] = hand[u]

(* The papers of the other documents stay.                                 *)
SameElse(d) ==
  \A x \in Docs \ {d} : entries'[x] = entries[x] /\ booked'[x] = booked[x] /\ reversed'[x] = reversed[x]
Fine(d) == RowOK(d)' /\ SteadyRow(d) /\ TameRow(d)

LEMMA RowStays ==
  ASSUME TypeIInv, NEW x \in Docs, RowOK(x), row'[x] = row[x], KindsStay, disturbed \subseteq disturbed',
         entries'[x] = entries[x], booked'[x] = booked[x], reversed'[x] = reversed[x]
  PROVE  Fine(x)
<1>. /\ row[x] \in Row /\ row[x].link \in Docs \cup {NoDoc}
  BY RowColumns DEF TypeIInv, PapersOK
<1>1. (FreshRow(x) /\ DealRow(x) /\ UnpaidRow(x))'
  BY DEF RowOK, FreshRow, DealRow, UnpaidRow
<1>2. (SlipRow(x) /\ OrderRow(x))'
  BY DEF RowOK, SlipRow, OrderRow, Exists
<1>3. (ShiftRow(x) /\ LedgerRow(x) /\ ProvisionRow(x))'
  BY DEF RowOK, ShiftRow, LedgerRow, ProvisionRow
<1>4. LinkRow(x)'
  BY BooksAssumption DEF RowOK, LinkRow, KindsStay, BooksAssumption
<1>5. SteadyRow(x) /\ TameRow(x)
  BY DEF SteadyRow, TameRow
<1>. QED  BY <1>1, <1>2, <1>3, <1>4, <1>5 DEF Fine, RowOK

LEMMA PlanStays ==
  ASSUME NEW h, PlanOf(h), Placed(h, row), PlanOK(h), KindsStay, Steady, disturbed \subseteq disturbed'
  PROVE  PlanOK(h)'
<1>. /\ h.seen \in Row /\ Columned(h.want) /\ h.op \in Ops
     /\ h.op \notin {"idle"} => h.doc \in Docs
     /\ h.op \notin {"idle", "next"} => h.seen.kind = row[h.doc].kind
     /\ "link" \in DOMAIN h.want => h.want.link \in Docs \cup {NoDoc}
  BY DEF PlanOf, Placed, Columned
<1>1. Begun(h)'
  BY DEF PlanOK, Begun, Steady, SteadyRow
<1>2. Named(h)'
  BY BooksAssumption DEF PlanOK, Named, KindsStay, BooksAssumption
<1>3. (Offered(h) /\ Drafted(h) /\ Renewed(h))'
  BY DEF PlanOK, Offered, Drafted, Renewed
<1>4. (Undone(h) /\ Finished(h) /\ Meant(h))'
  BY DEF PlanOK, Undone, Finished, Meant
<1>5. Counted(h)'
  <2>1. ASSUME h.op \in {"lookup", "entry"}  PROVE row[h.doc].kind = "shift"
    BY <2>1 DEF PlanOK, Counted
  <2>. QED  BY <2>1 DEF PlanOK, Counted, Steady, SteadyRow
<1>. QED  BY <1>1, <1>2, <1>3, <1>4, <1>5 DEF PlanOK

LEMMA PlansTurn ==
  ASSUME TypeIInv, Facts, KindsStay, Steady, disturbed \subseteq disturbed',
         NEW u \in Users, NEW h, PlanOK(h)', hand' = [hand EXCEPT ![u] = h]
  PROVE  PlansOK'
<1>. SUFFICES ASSUME NEW v \in Users, NEW g, g = hand'[v]  PROVE PlanOK(g)'
  BY DEF PlansOK
<1>1. CASE v = u
  BY <1>1 DEF TypeIInv, HandsOK
<1>2. CASE v # u
  <2>1. g = hand[v] /\ PlanOK(g) /\ PlanOf(g) /\ Placed(g, row)
    BY <1>2 DEF TypeIInv, HandsOK, Facts, PlansOK
  <2>. QED  BY <2>1, PlanStays
<1>. QED  BY <1>1, <1>2

LEMMA PlansRest ==
  ASSUME TypeIInv, Facts, KindsStay, Steady, disturbed \subseteq disturbed', hand' = hand
  PROVE  PlansOK'
<1>. SUFFICES ASSUME NEW v \in Users, NEW g, g = hand'[v]  PROVE PlanOK(g)'
  BY DEF PlansOK
<1>1. g = hand[v] /\ PlanOK(g) /\ PlanOf(g) /\ Placed(g, row)
  BY DEF TypeIInv, HandsOK, Facts, PlansOK
<1>. QED  BY <1>1, PlanStays

LEMMA IdlePlanOK == PlanOK(Idle) /\ PlanOK(Idle)'
<1>. Idle.op = "idle" /\ DOMAIN Idle.want = {"qty"}
  BY DEF Idle
<1>1. Begun(Idle) /\ Named(Idle) /\ Begun(Idle)' /\ Named(Idle)'
  BY DEF Begun, Named
<1>2. Offered(Idle) /\ Drafted(Idle) /\ Renewed(Idle) /\ Undone(Idle) /\ Finished(Idle) /\ Counted(Idle) /\ Meant(Idle)
  BY DEF Offered, Drafted, Renewed, Undone, Finished, Counted, Meant
<1>3. (Offered(Idle) /\ Drafted(Idle) /\ Renewed(Idle) /\ Undone(Idle) /\ Finished(Idle) /\ Counted(Idle) /\ Meant(Idle))'
  BY DEF Offered, Drafted, Renewed, Undone, Finished, Counted, Meant
<1>. QED  BY <1>1, <1>2, <1>3 DEF PlanOK

(* The step writes the papers of d alone. *)
LEMMA OneRow ==
  ASSUME TypeIInv, Facts, NEW d \in Docs, NEW cols, Changes(d, cols), SameElse(d),
         disturbed \subseteq disturbed', Fine(d)
  PROVE  RowsOK' /\ Steady /\ KindsStay /\ \A x \in Docs : TameRow(x)
<1>. row \in [Docs -> Row]
  BY DEF TypeIInv, PapersOK
<1>1. KindsStay /\ \A x \in Docs \ {d} : row'[x] = row[x]
  BY ChangesType
<1>2. ASSUME NEW x \in Docs  PROVE Fine(x)
  <2>1. CASE x = d
    BY <2>1
  <2>2. CASE x # d
    BY <2>2, <1>1, RowStays DEF Facts, RowsOK, SameElse
  <2>. QED  BY <2>1, <2>2
<1>. QED  BY <1>1, <1>2 DEF Fine, RowsOK, Steady

(* A commit writes the papers of d and ends.                               *)
LEMMA OneCommit ==
  ASSUME TypeIInv, Facts, NEW d \in Docs, NEW cols, Changes(d, cols), SameElse(d),
         disturbed \subseteq disturbed', Fine(d), NEW u \in Users, hand' = [hand EXCEPT ![u] = Idle]
  PROVE  Facts' /\ Steady /\ Tame
<1>1. RowsOK' /\ Steady /\ KindsStay /\ \A x \in Docs : TameRow(x)
  BY OneRow
<1>2. PlansOK'
  BY <1>1, PlansTurn, IdlePlanOK
<1>3. \A v \in Users : hand'[v] = hand[v] \/ hand'[v].op = "idle"
  BY DEF TypeIInv, HandsOK, Idle
<1>. QED  BY <1>1, <1>2, <1>3 DEF Facts, Tame

LEMMA QuietRows ==
  ASSUME TypeIInv, Facts, Quiet
  PROVE  RowsOK' /\ Steady /\ KindsStay /\ \A x \in Docs : TameRow(x)
<1>1. KindsStay
  BY QuietKinds
<1>2. ASSUME NEW x \in Docs  PROVE Fine(x)
  BY <1>1, RowStays DEF Facts, RowsOK, Quiet, papers
<1>. QED  BY <1>1, <1>2 DEF Fine, RowsOK, Steady

LEMMA QuietTurn ==
  ASSUME TypeIInv, Facts, Quiet, NEW u \in Users, NEW h, PlanOK(h), hand' = [hand EXCEPT ![u] = h]
  PROVE  Facts' /\ Steady /\ (h.op \notin {"claimed", "release"} => Tame)
<1>1. RowsOK' /\ Steady /\ KindsStay /\ \A x \in Docs : TameRow(x)
  BY QuietRows
<1>. row' = row /\ disturbed' = disturbed
  BY DEF Quiet, papers
<1>2. PlanOK(h)'
  BY DEF PlanOK, Begun, Named, Offered, Drafted, Renewed, Undone, Finished, Counted, Meant
<1>3. PlansOK'
  BY <1>1, <1>2, PlansTurn
<1>4. \A v \in Users : hand'[v] = hand[v] \/ hand'[v] = h
  BY DEF TypeIInv, HandsOK
<1>. QED  BY <1>1, <1>3, <1>4 DEF Facts, Tame

-----------------------------------------------------------------------------
(* The plans, module by module. *)

(* What is read of d makes a plan with these columns.                      *)
Plans(op, d, want) ==
  \A h : h.op = op /\ h.doc = d /\ h.seen = row[d] /\ h.want = want => PlanOK(h)

LEMMA ReadsFacts ==
  ASSUME TypeIInv, Facts, NEW u \in Users, NEW d \in Docs, NEW op, op \notin {"claimed", "release"},
         NEW want, NEW take, NEW w, Plans(op, d, want), Reads(u, op, d, want, take, w)
  PROVE  Facts' /\ Steady /\ Tame
<1>. PICK h : h = [op |-> op, doc |-> d, seen |-> row[d], want |-> want, take |-> take, at |-> w]
  OBVIOUS
<1>1. PlanOK(h) /\ h.op = op
  BY DEF Plans
<1>2. Quiet /\ hand' = [hand EXCEPT ![u] = h]
  BY DEF Reads, Quiet
<1>. QED  BY <1>1, <1>2, QuietTurn

(* A write of the columns of want over a row as it was read.               *)
MayWrite(r, want) ==
  /\ r.status # "none" /\ (r.kind = "asset" => r.status # "disposed")
  /\ r.kind \notin {"shift", "ticket", "journal", "provision"}
  /\ r.kind \in Slips => r.status # "reversed"
  /\ r.status \in Standing =>
       Unguarded(r.kind, want) \/ r.kind = "leave" \/ (r.kind = "asset" /\ DOMAIN want = {"actual"})

LEMMA PlansColumn ==
  ASSUME NEW d \in Docs, NEW want, DOMAIN want \in {{"qty"}, {"actual"}}, MayWrite(row[d], want),
         row[d].kind = "workOrder" /\ DOMAIN want = {"qty"} => want.qty > 0 /\ row[d].status = "planned"
  PROVE  Plans("write", d, want)
<1>. SUFFICES ASSUME NEW h, h.op = "write", h.doc = d, h.seen = row[d], h.want = want  PROVE PlanOK(h)
  BY DEF Plans
<1>1. Begun(h) /\ Named(h)
  BY DEF MayWrite, Begun, Named
<1>2. Meant(h)
  BY DEF MayWrite, Meant
<1>. QED  BY <1>1, <1>2 DEF PlanOK, Offered, Drafted, Renewed, Undone, Finished, Counted

LEMMA PlansStatus ==
  ASSUME NEW d \in Docs, NEW want, DOMAIN want = {"status"}, MayWrite(row[d], want), want.status # "none",
         want.status \in Standing \cup {"disposed", "reversed", "planned"} => row[d].kind = "leave",
         row[d].kind \in Deals \cup {"workOrder", "payroll"} => want.status = "gone",
         row[d].kind \in Slips => want.status \in {"gone", "draft", "cancelled"}
  PROVE  Plans("write", d, want)
<1>. SUFFICES ASSUME NEW h, h.op = "write", h.doc = d, h.seen = row[d], h.want = want  PROVE PlanOK(h)
  BY DEF Plans
<1>1. Begun(h) /\ Named(h)
  BY DEF MayWrite, Begun, Named
<1>2. Meant(h)
  BY DEF MayWrite, Meant
<1>. QED  BY <1>1, <1>2 DEF PlanOK, Offered, Drafted, Renewed, Undone, Finished, Counted

LEMMA PlansGone ==
  ASSUME TypeIInv, Facts, NEW u \in Users, NEW d \in Docs, MayWrite(row[d], [status |-> "gone"]), Deletes(u, d)
  PROVE  Facts' /\ Steady /\ Tame
<1>. PICK want : want = [status |-> "gone"]
  OBVIOUS
<1>1. DOMAIN want = {"status"} /\ want.status = "gone" /\ MayWrite(row[d], want)
  OBVIOUS
<1>2. Plans("write", d, want)
  BY <1>1, PlansStatus DEF Standing
<1>3. Reads(u, "write", d, want, <<>>, Main)
  BY DEF Deletes, Edits
<1>. QED  BY <1>2, <1>3, ReadsFacts

(* A draft is edited, or goes.                                             *)
Common == Deals \cup {"saleReturn", "purchaseReturn", "payroll", "endOfService"}

LEMMA DraftGoes ==
  ASSUME TypeIInv, Facts, NEW u \in Users, NEW d \in Docs, row[d].kind \in Common, row[d].status = "draft", Deletes(u, d)
  PROVE  Facts' /\ Steady /\ Tame
<1>1. MayWrite(row[d], [status |-> "gone"])
  BY DEF MayWrite, Common, Deals, Invoices, Bills, Slips, Standing
<1>. QED  BY <1>1, PlansGone

LEMMA DraftChanges ==
  ASSUME TypeIInv, Facts, NEW u \in Users, NEW d \in Docs, row[d].kind \in Common, row[d].status = "draft",
         NEW q, Edits(u, d, [qty |-> q])
  PROVE  Facts' /\ Steady /\ Tame
<1>. PICK want : want = [qty |-> q]
  OBVIOUS
<1>1. DOMAIN want = {"qty"} /\ MayWrite(row[d], want) /\ row[d].kind # "workOrder"
  BY DEF MayWrite, Common, Deals, Invoices, Bills, Slips, Standing
<1>2. Plans("write", d, want)
  BY <1>1, PlansColumn
<1>3. Reads(u, "write", d, want, <<>>, Main)
  BY DEF Edits
<1>. QED  BY <1>2, <1>3, ReadsFacts

(* A draft is posted. *)
Postable == Common \cup {"transfer", "journal"}

LEMMA PlansPost ==
  ASSUME Facts, NEW d \in Docs, row[d].kind \in Postable, row[d].status = "draft",
         NEW op \in {"post", "floor"}
  PROVE  Plans(op, d, Idle.want)
<1>. SUFFICES ASSUME NEW h, h.op = op, h.doc = d, h.seen = row[d], h.want = Idle.want  PROVE PlanOK(h)
  BY DEF Plans
<1>1. Begun(h) /\ Named(h)
  BY DEF Begun, Named, Idle
<1>2. Drafted(h)
  BY DEF Drafted, Postable, Common, Deals, Invoices, Bills, Slips, Facts, RowsOK, RowOK, UnpaidRow
<1>. QED  BY <1>1, <1>2 DEF PlanOK, Offered, Meant, Renewed, Undone, Finished, Counted

LEMMA DraftPosts ==
  ASSUME TypeIInv, Facts, NEW u \in Users, NEW d \in Docs, row[d].kind \in Postable, row[d].status = "draft",
         NEW take, Posts(u, d, take)
  PROVE  Facts' /\ Steady /\ Tame
<1>1. Plans("post", d, Idle.want)
  BY PlansPost
<1>2. Reads(u, "post", d, Idle.want, take, Main)
  BY DEF Posts
<1>. QED  BY <1>1, <1>2, ReadsFacts

(* Other plans than writes, posts and claims have nothing to fear.         *)
LEMMA PlansPlain ==
  ASSUME NEW d \in Docs, row[d].status # "none", NEW want, "link" \notin DOMAIN want,
         NEW op \in {"return", "close", "year", "reopen", "header"},
         "status" \in DOMAIN want => want.status # "none" /\ (op = "header" => want.status = "cancelled")
  PROVE  Plans(op, d, want)
<1>. SUFFICES ASSUME NEW h, h.op = op, h.doc = d, h.seen = row[d], h.want = want  PROVE PlanOK(h)
  BY DEF Plans
<1>1. Begun(h) /\ Named(h)
  BY DEF Begun, Named
<1>. QED  BY <1>1 DEF PlanOK, Offered, Drafted, Renewed, Undone, Finished, Counted, Meant

LEMMA SalesPlans ==
  ASSUME TypeIInv, Facts, NEW u \in Users, NEW d \in Docs,
         \/ UpdateInvoice(u, d) \/ DeleteInvoice(u, d) \/ PostInvoice(u, d)
         \/ UpdateReturn(u, d) \/ DeleteReturn(u, d) \/ PostReturn(u, d)
         \/ ReverseInvoice(u, d)
  PROVE  Facts' /\ Steady /\ Tame
<1>. Invoices \cup {"saleReturn"} \subseteq Common /\ Common \subseteq Postable
  BY DEF Common, Deals, Postable
<1>1. CASE UpdateInvoice(u, d)
  BY <1>1, DraftChanges DEF UpdateInvoice
<1>2. CASE UpdateReturn(u, d)
  BY <1>2, DraftChanges DEF UpdateReturn
<1>3. CASE DeleteInvoice(u, d) \/ DeleteReturn(u, d)
  BY <1>3, DraftGoes DEF DeleteInvoice, DeleteReturn
<1>4. CASE PostInvoice(u, d)
  <2>1. row[d].kind \in Postable /\ row[d].status = "draft" /\ Posts(u, d, Fifo(row[d].qty))
    BY <1>4 DEF PostInvoice
  <2>. QED  BY <2>1, DraftPosts
<1>5. CASE PostReturn(u, d)
  BY <1>5, DraftPosts DEF PostReturn
<1>6. CASE ReverseInvoice(u, d)
  <2>. DEFINE want == [qty |-> row[d].qty - Returned(d)]
  <2>1. Reads(u, "return", d, want, <<>>, Main) /\ row[d].status # "none"
    BY <1>6 DEF ReverseInvoice, Billed
  <2>2. DOMAIN want = {"qty"}
    OBVIOUS
  <2>. HIDE DEF want
  <2>3. Plans("return", d, want)
    BY <2>1, <2>2, PlansPlain
  <2>. QED  BY <2>1, <2>3, ReadsFacts
<1>. QED  BY <1>1, <1>2, <1>3, <1>4, <1>5, <1>6

LEMMA PurchasesPlans ==
  ASSUME TypeIInv, Facts, NEW u \in Users, NEW d \in Docs,
         \/ UpdateBill(u, d) \/ DeleteBill(u, d) \/ PostBill(u, d)
         \/ UpdateBillReturn(u, d) \/ DeleteBillReturn(u, d) \/ PostBillReturn(u, d)
         \/ ReverseBill(u, d)
  PROVE  Facts' /\ Steady /\ Tame
<1>. Bills \cup {"purchaseReturn"} \subseteq Common /\ Common \subseteq Postable
  BY DEF Common, Deals, Postable
<1>1. CASE UpdateBill(u, d)
  BY <1>1, DraftChanges DEF UpdateBill
<1>2. CASE UpdateBillReturn(u, d)
  BY <1>2, DraftChanges DEF UpdateBillReturn
<1>3. CASE DeleteBill(u, d) \/ DeleteBillReturn(u, d)
  BY <1>3, DraftGoes DEF DeleteBill, DeleteBillReturn
<1>4. CASE PostBillReturn(u, d)
  <2>1. row[d].kind \in Postable /\ row[d].status = "draft" /\ Posts(u, d, Fifo(row[d].qty))
    BY <1>4 DEF PostBillReturn
  <2>. QED  BY <2>1, DraftPosts
<1>5. CASE PostBill(u, d)
  BY <1>5, DraftPosts DEF PostBill
<1>6. CASE ReverseBill(u, d)
  <2>. DEFINE want == [qty |-> row[d].qty - BillReturned(d)]
  <2>1. Reads(u, "return", d, want, <<>>, Main) /\ row[d].status # "none"
    BY <1>6 DEF ReverseBill, Entered
  <2>2. DOMAIN want = {"qty"}
    OBVIOUS
  <2>. HIDE DEF want
  <2>3. Plans("return", d, want)
    BY <2>1, <2>2, PlansPlain
  <2>. QED  BY <2>1, <2>3, ReadsFacts
<1>. QED  BY <1>1, <1>2, <1>3, <1>4, <1>5, <1>6

-----------------------------------------------------------------------------
(* The terms of a voucher name an invoice it may settle. *)
LEMMA TermsLink ==
  ASSUME NEW k, NEW t \in Terms(k)
  PROVE  /\ DOMAIN t = {"qty", "link", "applied"}
         /\ t.link # NoDoc => row[t.link].kind \in Settles(k)
         /\ DOMAIN Voucher(t, "posted") = {"status", "qty", "link", "applied"}
         /\ Voucher(t, "posted").status = "posted" /\ Voucher(t, "posted").link = t.link
BY DEF Terms, Voucher

LEMMA VouchersPlans ==
  ASSUME TypeIInv, Facts, NEW u \in Users, NEW d \in Docs,
         \/ CreatePosted(u, d) \/ PostVoucher(u, d) \/ UpdateVoucher(u, d)
         \/ DeleteVoucher(u, d) \/ ReverseVoucher(u, d)
  PROVE  Facts' /\ Steady /\ Tame
<1>1. CASE CreatePosted(u, d)
  <2>. PICK t \in Terms(row[d].kind) : Reads(u, "new", d, Voucher(t, "posted"), <<>>, Main)
    BY <1>1 DEF CreatePosted
  <2>. PICK want : want = Voucher(t, "posted")
    OBVIOUS
  <2>1. row[d].kind \in Slips /\ row[d].status = "none"
    BY <1>1 DEF CreatePosted
  <2>2. /\ DOMAIN want = {"status", "qty", "link", "applied"} /\ want.status = "posted"
        /\ want.link # NoDoc => row[want.link].kind \in Settles(row[d].kind)
    BY TermsLink
  <2>3. ASSUME NEW h, h.op = "new", h.doc = d, h.seen = row[d], h.want = want  PROVE PlanOK(h)
    <3>1. Begun(h) /\ Named(h) /\ Renewed(h)
      BY <2>1, <2>2, <2>3 DEF Begun, Named, Renewed, Slips
    <3>. QED  BY <2>3, <3>1 DEF PlanOK, Offered, Drafted, Undone, Finished, Counted, Meant
  <2>4. Plans("new", d, want)
    BY <2>3 DEF Plans
  <2>. QED  BY <2>4, ReadsFacts
<1>2. CASE PostVoucher(u, d)
  <2>. DEFINE want == [qty |-> row[d].qty, link |-> row[d].link, applied |-> row[d].applied]
  <2>1. row[d].kind \in Slips /\ row[d].status = "draft" /\ Reads(u, "post", d, want, <<>>, Main)
    BY <1>2 DEF PostVoucher
  <2>2. /\ DOMAIN want = {"qty", "link", "applied"}
        /\ want.qty = row[d].qty /\ want.link = row[d].link /\ want.applied = row[d].applied
    OBVIOUS
  <2>. HIDE DEF want
  <2>3. ASSUME NEW h, h.op = "post", h.doc = d, h.seen = row[d], h.want = want  PROVE PlanOK(h)
    <3>1. Begun(h)
      BY <2>1, <2>3 DEF Begun
    <3>2. Named(h)
      BY <2>1, <2>2, <2>3 DEF Named, Slips, Facts, RowsOK, RowOK, LinkRow
    <3>3. Drafted(h)
      BY <2>1, <2>2, <2>3 DEF Drafted, Slips, Deals, Invoices, Bills
    <3>. QED  BY <2>3, <3>1, <3>2, <3>3 DEF PlanOK, Offered, Renewed, Undone, Finished, Counted, Meant
  <2>4. Plans("post", d, want)
    BY <2>3 DEF Plans
  <2>. QED  BY <2>1, <2>4, ReadsFacts
<1>3. CASE UpdateVoucher(u, d)
  <2>1. row[d].kind \in Slips /\ row[d].status \in {"draft", "cancelled", "posted"}
    BY <1>3 DEF UpdateVoucher, Exists, Facts, RowsOK, RowOK, SlipRow
  <2>2. ASSUME NEW s \in {"draft", "cancelled"}, Edits(u, d, [status |-> s])
        PROVE Facts' /\ Steady /\ Tame
    <3>. PICK want : want = [status |-> s]
      OBVIOUS
    <3>1. /\ DOMAIN want = {"status"} /\ want.status = s
          /\ want.status \notin Standing \cup {"disposed", "reversed", "planned", "none"}
      BY DEF Standing
    <3>2. MayWrite(row[d], want) /\ row[d].kind \notin Deals \cup {"workOrder", "payroll"}
      BY <2>1, <3>1 DEF MayWrite, Slips, Unguarded, Deals, Invoices, Bills
    <3>3. Plans("write", d, want)
      BY <3>1, <3>2, PlansStatus
    <3>. QED  BY <2>2, <3>3, ReadsFacts DEF Edits
  <2>3. ASSUME NEW t \in Terms(row[d].kind), row[d].status # "posted", Edits(u, d, t)
        PROVE Facts' /\ Steady /\ Tame
    <3>1. /\ DOMAIN t = {"qty", "link", "applied"}
          /\ t.link # NoDoc => row[t.link].kind \in Settles(row[d].kind)
      BY TermsLink
    <3>2. ASSUME NEW h, h.op = "write", h.doc = d, h.seen = row[d], h.want = t  PROVE PlanOK(h)
      <4>1. Begun(h) /\ Named(h)
        BY <2>1, <3>1, <3>2 DEF Begun, Named, Slips
      <4>2. Meant(h)
        BY <2>1, <2>3, <3>1, <3>2 DEF Meant, Slips, Standing
      <4>. QED  BY <3>2, <4>1, <4>2 DEF PlanOK, Offered, Drafted, Renewed, Undone, Finished, Counted
    <3>3. Plans("write", d, t)
      BY <3>2 DEF Plans
    <3>. QED  BY <2>3, <3>3, ReadsFacts DEF Edits
  <2>. QED  BY <1>3, <2>2, <2>3 DEF UpdateVoucher
<1>4. CASE DeleteVoucher(u, d)
  <2>1. row[d].kind \in Slips /\ row[d].status \in {"draft", "cancelled"}
    BY <1>4 DEF DeleteVoucher, Exists, Facts, RowsOK, RowOK, SlipRow
  <2>2. MayWrite(row[d], [status |-> "gone"])
    BY <2>1 DEF MayWrite, Slips, Standing
  <2>. QED  BY <1>4, <2>2, PlansGone DEF DeleteVoucher
<1>5. CASE ReverseVoucher(u, d)
  <2>. PICK want : want = [mark |-> booked[d]]
    OBVIOUS
  <2>1. row[d].kind \in Slips /\ row[d].status = "posted" /\ Reads(u, "reverse", d, want, <<>>, Main)
    BY <1>5 DEF ReverseVoucher
  <2>2. DOMAIN want = {"mark"} /\ (d \in disturbed \/ want.mark = Amount(row[d]))
    BY <2>1 DEF Facts, RowsOK, RowOK, SlipRow
  <2>3. ASSUME NEW h, h.op = "reverse", h.doc = d, h.seen = row[d], h.want = want  PROVE PlanOK(h)
    <3>1. Begun(h) /\ Named(h) /\ Undone(h)
      BY <2>1, <2>2, <2>3 DEF Begun, Named, Undone
    <3>. QED  BY <2>3, <3>1 DEF PlanOK, Offered, Drafted, Renewed, Finished, Counted, Meant
  <2>4. Plans("reverse", d, want)
    BY <2>3 DEF Plans
  <2>. QED  BY <2>1, <2>4, ReadsFacts
<1>. QED  BY <1>1, <1>2, <1>3, <1>4, <1>5

LEMMA InventoryPlans ==
  ASSUME TypeIInv, Facts, NEW u \in Users, NEW d \in Docs,
         \/ CompleteTransfer(u, d) \/ UpdateAdjustment(u, d) \/ DeleteAdjustment(u, d) \/ PostAdjustment(u, d)
  PROVE  Facts' /\ Steady /\ Tame
<1>1. CASE CompleteTransfer(u, d)
  <2>1. row[d].kind \in Postable /\ row[d].status = "draft" /\ Reads(u, "floor", d, Idle.want, <<>>, Main)
    BY <1>1 DEF CompleteTransfer, Keeps, Postable
  <2>2. Plans("floor", d, Idle.want)
    BY <2>1, PlansPost
  <2>. QED  BY <2>1, <2>2, ReadsFacts
<1>2. CASE UpdateAdjustment(u, d)
  <2>. PICK n : row[d].kind = "adjustment" /\ Exists(d) /\ Edits(u, d, [actual |-> n])
    BY <1>2 DEF UpdateAdjustment
  <2>. PICK want : want = [actual |-> n]
    OBVIOUS
  <2>1. DOMAIN want = {"actual"} /\ MayWrite(row[d], want)
    BY DEF MayWrite, Slips, Exists, Unguarded, Standing
  <2>2. Plans("write", d, want)
    BY <2>1, PlansColumn
  <2>. QED  BY <2>2, ReadsFacts DEF Edits
<1>3. CASE DeleteAdjustment(u, d)
  <2>1. MayWrite(row[d], [status |-> "gone"])
    BY <1>3 DEF DeleteAdjustment, MayWrite, Slips, Exists, Unguarded, Standing
  <2>. QED  BY <1>3, <2>1, PlansGone DEF DeleteAdjustment
<1>4. CASE PostAdjustment(u, d)
  <2>. PICK take : row[d].kind = "adjustment" /\ row[d].status \in {"draft", "approved"} /\ Posts(u, d, take)
    BY <1>4 DEF PostAdjustment
  <2>1. ASSUME NEW h, h.op = "post", h.doc = d, h.seen = row[d], h.want = Idle.want  PROVE PlanOK(h)
    <3>1. Begun(h) /\ Named(h) /\ Drafted(h)
      BY <2>1 DEF Begun, Named, Idle, Drafted, Slips, Deals, Invoices, Bills
    <3>. QED  BY <2>1, <3>1 DEF PlanOK, Offered, Renewed, Undone, Finished, Counted, Meant
  <2>2. Plans("post", d, Idle.want)
    BY <2>1 DEF Plans
  <2>. QED  BY <2>2, ReadsFacts DEF Posts
<1>. QED  BY <1>1, <1>2, <1>3, <1>4

LEMMA ManufacturingPlans ==
  ASSUME TypeIInv, Facts, NEW u \in Users, NEW d \in Docs,
         \/ UpdateWorkOrder(u, d) \/ DeleteWorkOrder(u, d) \/ UpdateConsumption(u, d)
         \/ StartWorkOrder(u, d) \/ CompleteWorkOrder(u, d) \/ CancelWorkOrder(u, d)
  PROVE  Facts' /\ Steady /\ Tame
<1>1. CASE UpdateWorkOrder(u, d)
  <2>. PICK q \in 1..MaxQty : row[d].kind = "workOrder" /\ row[d].status = "planned" /\ Edits(u, d, [qty |-> q])
    BY <1>1 DEF UpdateWorkOrder
  <2>. PICK want : want = [qty |-> q]
    OBVIOUS
  <2>0. q > 0
    BY BooksAssumption DEF BooksAssumption
  <2>1. DOMAIN want = {"qty"} /\ want.qty > 0 /\ MayWrite(row[d], want)
    BY <2>0 DEF MayWrite, Slips, Standing
  <2>2. Plans("write", d, want)
    BY <2>1, PlansColumn
  <2>. QED  BY <2>2, ReadsFacts DEF Edits
<1>2. CASE DeleteWorkOrder(u, d)
  <2>1. MayWrite(row[d], [status |-> "gone"])
    BY <1>2 DEF DeleteWorkOrder, MayWrite, Slips, Exists, Unguarded, Standing
  <2>. QED  BY <1>2, <2>1, PlansGone DEF DeleteWorkOrder
<1>3. CASE UpdateConsumption(u, d)
  <2>. PICK n : row[d].kind = "workOrder" /\ Exists(d) /\ Edits(u, d, [actual |-> n])
    BY <1>3 DEF UpdateConsumption
  <2>. PICK want : want = [actual |-> n]
    OBVIOUS
  <2>1. DOMAIN want = {"actual"} /\ MayWrite(row[d], want)
    BY DEF MayWrite, Slips, Exists, Unguarded, Standing
  <2>2. Plans("write", d, want)
    BY <2>1, PlansColumn
  <2>. QED  BY <2>2, ReadsFacts DEF Edits
<1>4. CASE StartWorkOrder(u, d)
  <2>. PICK take, w : /\ row[d].kind = "workOrder" /\ row[d].status = "planned"
                      /\ Reads(u, "post", d, Idle.want, take, w)
    BY <1>4 DEF StartWorkOrder
  <2>1. ASSUME NEW h, h.op = "post", h.doc = d, h.seen = row[d], h.want = Idle.want  PROVE PlanOK(h)
    <3>1. Begun(h) /\ Named(h) /\ Drafted(h)
      BY <2>1 DEF Begun, Named, Idle, Drafted, Slips, Deals, Invoices, Bills
    <3>. QED  BY <2>1, <3>1 DEF PlanOK, Offered, Renewed, Undone, Finished, Counted, Meant
  <2>2. Plans("post", d, Idle.want)
    BY <2>1 DEF Plans
  <2>. QED  BY <2>2, ReadsFacts
<1>5. CASE CompleteWorkOrder(u, d)
  <2>. PICK take, w : /\ row[d].kind = "workOrder" /\ row[d].status = "in_progress"
                      /\ Reads(u, "complete", d, Idle.want, take, w)
    BY <1>5 DEF CompleteWorkOrder, Keeps
  <2>1. ASSUME NEW h, h.op = "complete", h.doc = d, h.seen = row[d], h.want = Idle.want  PROVE PlanOK(h)
    <3>1. Begun(h) /\ Named(h)
      BY <2>1 DEF Begun, Named, Idle
    <3>2. Finished(h)
      BY <2>1 DEF Finished, Facts, RowsOK, RowOK, OrderRow
    <3>. QED  BY <2>1, <3>1, <3>2 DEF PlanOK, Offered, Drafted, Renewed, Undone, Counted, Meant
  <2>2. Plans("complete", d, Idle.want)
    BY <2>1 DEF Plans
  <2>. QED  BY <2>2, ReadsFacts
<1>6. CASE CancelWorkOrder(u, d)
  <2>. PICK back \in IF row[d].status = "in_progress" THEN BOOLEAN ELSE {FALSE}, w \in Richest("raw") :
         /\ row[d].kind = "workOrder" /\ row[d].status \in {"planned", "in_progress"}
         /\ Reads(u, "cancel", d, [actual |-> IF back THEN row[d].qty ELSE 0], <<>>, w)
    BY <1>6 DEF CancelWorkOrder
  <2>. PICK want : want = [actual |-> IF back THEN row[d].qty ELSE 0]
    OBVIOUS
  <2>0. /\ DOMAIN want = {"actual"} /\ want.actual \in {0, row[d].qty}
        /\ row[d].status = "planned" => want.actual = 0
    OBVIOUS
  <2>1. ASSUME NEW h, h.op = "cancel", h.doc = d, h.seen = row[d], h.want = want  PROVE PlanOK(h)
    <3>1. Begun(h) /\ Named(h)
      BY <2>0, <2>1 DEF Begun, Named
    <3>2. Undone(h)
      BY <2>0, <2>1 DEF Undone, Facts, RowsOK, RowOK, OrderRow, Exists
    <3>. QED  BY <2>1, <3>1, <3>2 DEF PlanOK, Offered, Drafted, Renewed, Finished, Counted, Meant
  <2>2. Plans("cancel", d, want)
    BY <2>1 DEF Plans
  <2>. QED  BY <2>2, ReadsFacts
<1>. QED  BY <1>1, <1>2, <1>3, <1>4, <1>5, <1>6

-----------------------------------------------------------------------------
LEMMA TillPlans ==
  ASSUME TypeIInv, Facts, NEW u \in Users, NEW d \in Docs,
         Checkout(u, d) \/ CloseShift(u, d) \/ HealShift(u, d)
  PROVE  Facts' /\ Steady /\ Tame
<1>1. CASE Checkout(u, d)
  <2>. PICK t \in Carts(d) : Reads(u, "new", d, t, Fifo(t.qty), Main)
    BY <1>1 DEF Checkout
  <2>0. row[d].kind = "ticket" /\ row[d].status = "none"
    BY <1>1 DEF Checkout
  <2>1. /\ DOMAIN t = {"qty", "paid", "mark", "link"} /\ row[t.link].kind = "shift"
        /\ t.paid = t.mark
    BY CartType DEF Carts, TypeIInv, PapersOK
  <2>2. ASSUME NEW h, h.op = "new", h.doc = d, h.seen = row[d], h.want = t  PROVE PlanOK(h)
    <3>1. Begun(h) /\ Named(h) /\ Renewed(h)
      BY <2>0, <2>1, <2>2 DEF Begun, Named, Renewed, Slips
    <3>. QED  BY <2>2, <3>1 DEF PlanOK, Offered, Drafted, Undone, Finished, Counted, Meant
  <2>3. Plans("new", d, t)
    BY <2>2 DEF Plans
  <2>. QED  BY <2>3, ReadsFacts
<1>2. CASE CloseShift(u, d)
  <2>. PICK n : row[d].status = "open" /\ Reads(u, "close", d, [mark |-> Expected(d), actual |-> n], <<>>, Main)
    BY <1>2 DEF CloseShift
  <2>. PICK want : want = [mark |-> Expected(d), actual |-> n]
    OBVIOUS
  <2>1. DOMAIN want = {"mark", "actual"} /\ row[d].status # "none"
    OBVIOUS
  <2>2. Plans("close", d, want)
    BY <2>1, PlansPlain
  <2>. QED  BY <2>2, ReadsFacts
<1>3. CASE HealShift(u, d)
  <2>. PICK want : want = [mark |-> row[d].mark, actual |-> row[d].actual]
    OBVIOUS
  <2>1. /\ DOMAIN want = {"mark", "actual"} /\ want.mark = row[d].mark /\ want.actual = row[d].actual
        /\ row[d].kind = "shift" /\ row[d].status = "closed" /\ Reads(u, "lookup", d, want, <<>>, Main)
    BY <1>3 DEF HealShift
  <2>2. ASSUME NEW h, h.op = "lookup", h.doc = d, h.seen = row[d], h.want = want  PROVE PlanOK(h)
    <3>1. Begun(h) /\ Named(h) /\ Counted(h)
      BY <2>1, <2>2 DEF Begun, Named, Counted
    <3>. QED  BY <2>2, <3>1 DEF PlanOK, Offered, Drafted, Renewed, Undone, Finished, Meant
  <2>3. Plans("lookup", d, want)
    BY <2>2 DEF Plans
  <2>. QED  BY <2>1, <2>3, ReadsFacts
<1>. QED  BY <1>1, <1>2, <1>3

LEMMA ConversionPlans ==
  ASSUME TypeIInv, Facts, NEW u \in Users, NEW d \in Docs,
         UpdateOffer(u, d) \/ DeleteOffer(u, d) \/ ConvertOffer(u, d)
  PROVE  Facts' /\ Steady /\ Tame
<1>1. CASE UpdateOffer(u, d)
  <2>. PICK s \in {"sent", "received", "cancelled"} : row[d].kind \in Offers /\ Exists(d) /\ Edits(u, d, [status |-> s])
    BY <1>1 DEF UpdateOffer
  <2>. PICK want : want = [status |-> s]
    OBVIOUS
  <2>1. /\ DOMAIN want = {"status"} /\ want.status = s
        /\ want.status \notin Standing \cup {"disposed", "reversed", "planned", "none"}
    BY DEF Standing
  <2>2. MayWrite(row[d], want) /\ row[d].kind \notin Deals \cup Slips \cup {"workOrder", "payroll"}
    BY DEF MayWrite, Slips, Exists, Unguarded, Offers, Deals, Invoices, Bills
  <2>3. Plans("write", d, want)
    BY <2>1, <2>2, PlansStatus
  <2>. QED  BY <2>3, ReadsFacts DEF Edits
<1>2. CASE DeleteOffer(u, d)
  <2>1. MayWrite(row[d], [status |-> "gone"])
    BY <1>2 DEF DeleteOffer, MayWrite, Slips, Exists, Unguarded, Offers
  <2>. QED  BY <1>2, <2>1, PlansGone DEF DeleteOffer
<1>3. CASE ConvertOffer(u, d)
  <2>1. row[d].kind \in Offers /\ row[d].status \in Convertible /\ Reads(u, "claim", d, Idle.want, <<>>, Main)
    BY <1>3 DEF ConvertOffer, Keeps
  <2>2. ASSUME NEW h, h.op = "claim", h.doc = d, h.seen = row[d], h.want = Idle.want  PROVE PlanOK(h)
    <3>1. Begun(h) /\ Named(h) /\ Offered(h)
      BY <2>1, <2>2 DEF Begun, Named, Offered, Idle, Convertible
    <3>. QED  BY <2>2, <3>1 DEF PlanOK, Drafted, Renewed, Undone, Finished, Counted, Meant
  <2>3. Plans("claim", d, Idle.want)
    BY <2>2 DEF Plans
  <2>. QED  BY <2>1, <2>3, ReadsFacts
<1>. QED  BY <1>1, <1>2, <1>3

LEMMA PeriodsPlans ==
  ASSUME TypeIInv, Facts, NEW u \in Users, NEW d \in Docs,
         \/ CloseAccountingPeriod(u, d) \/ CloseFiscalYear(u, d)
         \/ ReopenAccountingPeriodById(u, d) \/ SetTaxPeriodStatus(u, d)
  PROVE  Facts' /\ Steady /\ Tame
<1>1. CASE CloseAccountingPeriod(u, d)
  <2>. PICK s \in {"soft_closed", "closed"} : Exists(d) /\ Reads(u, "close", d, [status |-> s], <<>>, Main)
    BY <1>1 DEF CloseAccountingPeriod
  <2>. PICK want : want = [status |-> s]
    OBVIOUS
  <2>1. DOMAIN want = {"status"} /\ want.status # "none" /\ row[d].status # "none"
    BY DEF Exists
  <2>2. Plans("close", d, want)
    BY <2>1, PlansPlain
  <2>. QED  BY <2>2, ReadsFacts
<1>2. CASE CloseFiscalYear(u, d)
  <2>. PICK want : want = [status |-> "closed"]
    OBVIOUS
  <2>1. /\ DOMAIN want = {"status"} /\ want.status # "none" /\ row[d].status # "none"
        /\ Reads(u, "year", d, want, <<>>, Main)
    BY <1>2 DEF CloseFiscalYear, Exists
  <2>2. Plans("year", d, want)
    BY <2>1, PlansPlain
  <2>. QED  BY <2>1, <2>2, ReadsFacts
<1>3. CASE ReopenAccountingPeriodById(u, d)
  <2>1. row[d].status # "none" /\ Reads(u, "reopen", d, Idle.want, <<>>, Main) /\ DOMAIN Idle.want = {"qty"}
    BY <1>3 DEF ReopenAccountingPeriodById, Exists, Keeps, Idle
  <2>2. Plans("reopen", d, Idle.want)
    BY <2>1, PlansPlain
  <2>. QED  BY <2>1, <2>2, ReadsFacts
<1>4. CASE SetTaxPeriodStatus(u, d)
  <2>. PICK s \in {"open", "closed", "filed"} : /\ row[d].kind = "taxPeriod" /\ <<row[d].status, s>> \in TaxMoves
                                                /\ Edits(u, d, [status |-> s])
    BY <1>4 DEF SetTaxPeriodStatus
  <2>. PICK want : want = [status |-> s]
    OBVIOUS
  <2>1. /\ DOMAIN want = {"status"} /\ want.status = s
        /\ want.status \notin Standing \cup {"disposed", "reversed", "planned", "none"}
    BY DEF Standing
  <2>2. row[d].status \in {"open", "closed"}
    BY DEF TaxMoves
  <2>3. MayWrite(row[d], want) /\ row[d].kind \notin Deals \cup Slips \cup {"workOrder", "payroll"}
    BY <2>2 DEF MayWrite, Slips, Standing, Deals, Invoices, Bills
  <2>4. Plans("write", d, want)
    BY <2>1, <2>3, PlansStatus
  <2>. QED  BY <2>4, ReadsFacts DEF Edits
<1>. QED  BY <1>1, <1>2, <1>3, <1>4

LEMMA JournalsPlans ==
  ASSUME TypeIInv, Facts, NEW u \in Users, NEW d \in Docs,
         \/ UpdateTransaction(u, d) \/ PostTransaction(u, d) \/ DeleteTransaction(u, d)
         \/ ReverseTransaction(u, d)
  PROVE  Facts' /\ Steady /\ Tame
<1>1. CASE UpdateTransaction(u, d)
  <2>. PICK want \in {[qty |-> q] : q \in 1..MaxQty} \cup {[status |-> "cancelled"]} :
         row[d].status = "draft" /\ Reads(u, "header", d, want, <<>>, Main)
    BY <1>1 DEF UpdateTransaction, Editable
  <2>1. \/ DOMAIN want = {"qty"}
        \/ DOMAIN want = {"status"} /\ want.status = "cancelled"
    OBVIOUS
  <2>2. Plans("header", d, want)
    BY <2>1, PlansPlain
  <2>. QED  BY <2>2, ReadsFacts
<1>2. CASE PostTransaction(u, d)
  <2>1. row[d].kind \in Postable /\ row[d].status = "draft" /\ Posts(u, d, <<>>)
    BY <1>2 DEF PostTransaction, Postable
  <2>. QED  BY <2>1, DraftPosts
<1>3. CASE DeleteTransaction(u, d)
  <2>1. row[d].kind = "journal" /\ row[d].status = "draft" /\ Reads(u, "cancel", d, Idle.want, <<>>, Main)
    BY <1>3 DEF DeleteTransaction, Keeps
  <2>2. ASSUME NEW h, h.op = "cancel", h.doc = d, h.seen = row[d], h.want = Idle.want  PROVE PlanOK(h)
    <3>1. Begun(h) /\ Named(h) /\ Undone(h)
      BY <2>1, <2>2 DEF Begun, Named, Undone, Idle
    <3>. QED  BY <2>2, <3>1 DEF PlanOK, Offered, Drafted, Renewed, Finished, Counted, Meant
  <2>3. Plans("cancel", d, Idle.want)
    BY <2>2 DEF Plans
  <2>. QED  BY <2>1, <2>3, ReadsFacts
<1>4. CASE ReverseTransaction(u, d)
  <2>1. /\ row[d].kind \in {"journal", "payroll", "provision"} /\ row[d].status = "posted"
        /\ Reads(u, "reverse", d, Idle.want, <<>>, Main)
    BY <1>4 DEF ReverseTransaction, Keeps
  <2>2. ASSUME NEW h, h.op = "reverse", h.doc = d, h.seen = row[d], h.want = Idle.want  PROVE PlanOK(h)
    <3>1. Begun(h) /\ Named(h) /\ Undone(h)
      BY <2>1, <2>2 DEF Begun, Named, Undone, Idle, Slips
    <3>. QED  BY <2>2, <3>1 DEF PlanOK, Offered, Drafted, Renewed, Finished, Counted, Meant
  <2>3. Plans("reverse", d, Idle.want)
    BY <2>2 DEF Plans
  <2>. QED  BY <2>1, <2>3, ReadsFacts
<1>. QED  BY <1>1, <1>2, <1>3, <1>4

LEMMA PayrollPlans ==
  ASSUME TypeIInv, Facts, NEW u \in Users, NEW d \in Docs,
         \/ DeletePayrollRun(u, d) \/ PostPayrollRun(u, d)
         \/ ApproveEndOfService(u, d) \/ CancelEndOfService(u, d)
         \/ PayEndOfService(u, d) \/ DeleteEndOfService(u, d)
  PROVE  Facts' /\ Steady /\ Tame
<1>. {"payroll", "endOfService"} \subseteq Common /\ Common \subseteq Postable
  BY DEF Common, Postable
<1>1. CASE DeletePayrollRun(u, d)
  BY <1>1, DraftGoes DEF DeletePayrollRun
<1>2. CASE PostPayrollRun(u, d)
  BY <1>2, DraftPosts DEF PostPayrollRun
<1>3. CASE ApproveEndOfService(u, d)
  <2>1. row[d].kind \in Postable /\ row[d].status = "draft" /\ Reads(u, "post", d, Idle.want, <<>>, Main)
    BY <1>3 DEF ApproveEndOfService, Keeps
  <2>2. Plans("post", d, Idle.want)
    BY <2>1, PlansPost
  <2>. QED  BY <2>1, <2>2, ReadsFacts
<1>4. CASE CancelEndOfService(u, d)
  <2>. PICK want : want = [status |-> "cancelled"]
    OBVIOUS
  <2>1. /\ DOMAIN want = {"status"} /\ want.status = "cancelled"
        /\ want.status \notin Standing \cup {"disposed", "reversed", "planned", "none"}
    BY DEF Standing
  <2>2. /\ row[d].kind = "endOfService" /\ row[d].status \in {"draft", "approved"}
        /\ Reads(u, "write", d, want, <<>>, Main)
    BY <1>4 DEF CancelEndOfService, Edits
  <2>3. MayWrite(row[d], want) /\ row[d].kind \notin Deals \cup Slips \cup {"workOrder", "payroll"}
    BY <2>1, <2>2 DEF MayWrite, Slips, Unguarded, Deals, Invoices, Bills
  <2>4. Plans("write", d, want)
    BY <2>1, <2>3, PlansStatus
  <2>. QED  BY <2>2, <2>4, ReadsFacts
<1>5. CASE PayEndOfService(u, d)
  <2>1. /\ row[d].kind = "endOfService" /\ row[d].status = "approved"
        /\ Reads(u, "complete", d, Idle.want, <<>>, Main)
    BY <1>5 DEF PayEndOfService, Keeps
  <2>2. ASSUME NEW h, h.op = "complete", h.doc = d, h.seen = row[d], h.want = Idle.want  PROVE PlanOK(h)
    <3>1. Begun(h) /\ Named(h) /\ Finished(h)
      BY <2>1, <2>2 DEF Begun, Named, Finished, Idle
    <3>. QED  BY <2>2, <3>1 DEF PlanOK, Offered, Drafted, Renewed, Undone, Counted, Meant
  <2>3. Plans("complete", d, Idle.want)
    BY <2>2 DEF Plans
  <2>. QED  BY <2>1, <2>3, ReadsFacts
<1>6. CASE DeleteEndOfService(u, d)
  <2>1. MayWrite(row[d], [status |-> "gone"])
    BY <1>6 DEF DeleteEndOfService, MayWrite, Slips, Standing
  <2>. QED  BY <1>6, <2>1, PlansGone DEF DeleteEndOfService
<1>. QED  BY <1>1, <1>2, <1>3, <1>4, <1>5, <1>6

LEMMA LeavesPlans ==
  ASSUME TypeIInv, Facts, NEW u \in Users, NEW d \in Docs,
         \/ CreateLeave(u, d) \/ UpdateLeaveStatus(u, d) \/ DeleteLeave(u, d)
         \/ PostLeaveProvision(u, d)
  PROVE  Facts' /\ Steady /\ Tame
<1>1. CASE CreateLeave(u, d)
  <2>. PICK first, days : /\ row[d].kind = "leave" /\ row[d].status = "none"
                          /\ Reads(u, "new", d, [status |-> "pending", qty |-> days, mark |-> first], <<>>, Main)
    BY <1>1 DEF CreateLeave
  <2>. PICK want : want = [status |-> "pending", qty |-> days, mark |-> first]
    OBVIOUS
  <2>1. DOMAIN want = {"status", "qty", "mark"} /\ want.status = "pending"
    OBVIOUS
  <2>2. ASSUME NEW h, h.op = "new", h.doc = d, h.seen = row[d], h.want = want  PROVE PlanOK(h)
    <3>1. Begun(h) /\ Named(h) /\ Renewed(h)
      BY <2>1, <2>2 DEF Begun, Named, Renewed, Slips
    <3>. QED  BY <2>2, <3>1 DEF PlanOK, Offered, Drafted, Undone, Finished, Counted, Meant
  <2>3. Plans("new", d, want)
    BY <2>2 DEF Plans
  <2>. QED  BY <2>3, ReadsFacts
<1>2. CASE UpdateLeaveStatus(u, d)
  <2>. PICK s \in {"approved", "rejected", "cancelled"} :
         row[d].kind = "leave" /\ <<row[d].status, s>> \in LeaveMoves /\ Edits(u, d, [status |-> s])
    BY <1>2 DEF UpdateLeaveStatus
  <2>. PICK want : want = [status |-> s]
    OBVIOUS
  <2>1. DOMAIN want = {"status"} /\ want.status # "none"
    OBVIOUS
  <2>2. row[d].status \in {"pending", "approved"}
    BY DEF LeaveMoves
  <2>3. MayWrite(row[d], want) /\ row[d].kind \notin Deals \cup Slips \cup {"workOrder", "payroll"}
    BY <2>2 DEF MayWrite, Slips, Deals, Invoices, Bills
  <2>4. Plans("write", d, want)
    BY <2>1, <2>3, PlansStatus
  <2>. QED  BY <2>4, ReadsFacts DEF Edits
<1>3. CASE DeleteLeave(u, d)
  <2>1. MayWrite(row[d], [status |-> "gone"])
    BY <1>3 DEF DeleteLeave, MayWrite, Slips, Exists
  <2>. QED  BY <1>3, <2>1, PlansGone DEF DeleteLeave
<1>4. CASE PostLeaveProvision(u, d)
  <2>. PICK want : want = [qty |-> Remaining - gl["leaves"]]
    OBVIOUS
  <2>1. /\ row[d].kind = "provision" /\ entries[d] = 0 /\ DOMAIN want = {"qty"}
        /\ Reads(u, "new", d, want, <<>>, Main)
    BY <1>4 DEF PostLeaveProvision
  <2>2. row[d].status = "none"
    BY <2>1 DEF Facts, RowsOK, RowOK, ProvisionRow
  <2>3. ASSUME NEW h, h.op = "new", h.doc = d, h.seen = row[d], h.want = want  PROVE PlanOK(h)
    <3>1. Begun(h) /\ Named(h) /\ Renewed(h)
      BY <2>1, <2>2, <2>3 DEF Begun, Named, Renewed, Slips
    <3>. QED  BY <2>3, <3>1 DEF PlanOK, Offered, Drafted, Undone, Finished, Counted, Meant
  <2>4. Plans("new", d, want)
    BY <2>3 DEF Plans
  <2>. QED  BY <2>1, <2>4, ReadsFacts
<1>. QED  BY <1>1, <1>2, <1>3, <1>4

LEMMA AssetsPlans ==
  ASSUME TypeIInv, Facts, NEW u \in Users, NEW d \in Docs,
         \/ CreateFixedAsset(u, d) \/ UpdateFixedAsset(u, d) \/ DeleteFixedAsset(u, d)
         \/ RunDepreciation(u, d) \/ DisposeFixedAsset(u, d)
  PROVE  Facts' /\ Steady /\ Tame
<1>1. CASE CreateFixedAsset(u, d)
  <2>. PICK q, life, f : /\ row[d].kind = "asset" /\ row[d].status = "none"
                         /\ Reads(u, "new", d, [status |-> "active", qty |-> q, actual |-> life,
                                                applied |-> f.applied, mark |-> f.mark], <<>>, Main)
    BY <1>1 DEF CreateFixedAsset
  <2>. PICK want : want = [status |-> "active", qty |-> q, actual |-> life,
                           applied |-> f.applied, mark |-> f.mark]
    OBVIOUS
  <2>1. DOMAIN want = {"status", "qty", "actual", "applied", "mark"} /\ want.status = "active"
    OBVIOUS
  <2>2. ASSUME NEW h, h.op = "new", h.doc = d, h.seen = row[d], h.want = want  PROVE PlanOK(h)
    <3>1. Begun(h) /\ Named(h) /\ Renewed(h)
      BY <2>1, <2>2 DEF Begun, Named, Renewed, Slips
    <3>. QED  BY <2>2, <3>1 DEF PlanOK, Offered, Drafted, Undone, Finished, Counted, Meant
  <2>3. Plans("new", d, want)
    BY <2>2 DEF Plans
  <2>. QED  BY <2>3, ReadsFacts
<1>2. CASE UpdateFixedAsset(u, d)
  <2>. PICK life : row[d].kind = "asset" /\ row[d].status = "active" /\ Edits(u, d, [actual |-> life])
    BY <1>2 DEF UpdateFixedAsset
  <2>. PICK want : want = [actual |-> life]
    OBVIOUS
  <2>1. DOMAIN want = {"actual"} /\ MayWrite(row[d], want)
    BY DEF MayWrite, Slips
  <2>2. Plans("write", d, want)
    BY <2>1, PlansColumn
  <2>. QED  BY <2>2, ReadsFacts DEF Edits
<1>3. CASE DeleteFixedAsset(u, d)
  <2>1. MayWrite(row[d], [status |-> "gone"])
    BY <1>3 DEF DeleteFixedAsset, MayWrite, Slips, Unguarded
  <2>. QED  BY <1>3, <2>1, PlansGone DEF DeleteFixedAsset
<1>4. CASE RunDepreciation(u, d)
  <2>. PICK m : /\ row[d].kind = "asset" /\ row[d].status = "active"
                /\ Reads(u, "charge", d, [paid |-> Charge(row[d], m), mark |-> m], <<>>, Main)
    BY <1>4 DEF RunDepreciation
  <2>. PICK want : want = [paid |-> Charge(row[d], m), mark |-> m]
    OBVIOUS
  <2>1. DOMAIN want = {"paid", "mark"}
    OBVIOUS
  <2>2. ASSUME NEW h, h.op = "charge", h.doc = d, h.seen = row[d], h.want = want  PROVE PlanOK(h)
    <3>1. Begun(h) /\ Named(h) /\ Finished(h)
      BY <2>1, <2>2 DEF Begun, Named, Finished
    <3>. QED  BY <2>2, <3>1 DEF PlanOK, Offered, Drafted, Renewed, Undone, Counted, Meant
  <2>3. Plans("charge", d, want)
    BY <2>2 DEF Plans
  <2>. QED  BY <2>3, ReadsFacts
<1>5. CASE DisposeFixedAsset(u, d)
  <2>. PICK n : /\ row[d].kind = "asset" /\ row[d].status = "active"
                /\ Reads(u, "dispose", d, [status |-> "disposed", applied |-> row[d].applied - n], <<>>, Main)
    BY <1>5 DEF DisposeFixedAsset
  <2>. PICK want : want = [status |-> "disposed", applied |-> row[d].applied - n]
    OBVIOUS
  <2>1. DOMAIN want = {"status", "applied"} /\ want.status = "disposed"
    OBVIOUS
  <2>2. ASSUME NEW h, h.op = "dispose", h.doc = d, h.seen = row[d], h.want = want  PROVE PlanOK(h)
    <3>1. Begun(h) /\ Named(h) /\ Finished(h)
      BY <2>1, <2>2 DEF Begun, Named, Finished
    <3>. QED  BY <2>2, <3>1 DEF PlanOK, Offered, Drafted, Renewed, Undone, Counted, Meant
  <2>3. Plans("dispose", d, want)
    BY <2>2 DEF Plans
  <2>. QED  BY <2>3, ReadsFacts
<1>. QED  BY <1>1, <1>2, <1>3, <1>4, <1>5

-----------------------------------------------------------------------------
(* The statements that write rows, module by module. *)

LEMMA JournalSame ==
  ASSUME PapersOK, NEW d \in Docs, NEW legs, Journal(d, legs)
  PROVE  /\ SameElse(d) /\ entries'[d] = entries[d] + 1 /\ reversed' = reversed
         /\ booked'[d] = booked[d] + IF "cash" \in DOMAIN legs THEN legs["cash"] ELSE 0
BY DEF PapersOK, Journal, SameElse

LEMMA PapersRest ==
  ASSUME NEW d, entries' = entries, booked' = booked, reversed' = reversed
  PROVE  SameElse(d)
BY DEF SameElse

LEMMA EndsMarks ==
  ASSUME NEW u \in Users, NEW odd, EndsWith(u, odd), NEW d, d = hand[u].doc
  PROVE  /\ hand' = [hand EXCEPT ![u] = Idle] /\ disturbed \subseteq disturbed' /\ odd \subseteq disturbed'
         /\ row[d] # hand[u].seen => d \in disturbed'
BY DEF EndsWith

LEMMA EndsQuietly ==
  ASSUME NEW u \in Users, Ends(u), NEW d, d = hand[u].doc
  PROVE  /\ hand' = [hand EXCEPT ![u] = Idle] /\ disturbed \subseteq disturbed'
         /\ row[d] # hand[u].seen => d \in disturbed'
BY EndsMarks DEF Ends

(* The plan of a session that goes on with it.                             *)
LEMMA PlanIs ==
  ASSUME TypeIInv, Facts, NEW u \in Users, NEW op, NEW kinds, At(u, op, kinds), op \notin {"idle", "next"},
         NEW h, h = hand[u], NEW d, d = hand[u].doc
  PROVE  /\ PlanOK(h) /\ h.op = op /\ h.doc = d /\ d \in Docs /\ row[d] \in Row /\ RowOK(d)
         /\ row[d].kind = h.seen.kind /\ h.seen.kind \in kinds /\ h.seen \in Row
         /\ Columned(h.want) /\ Equipped(op, h.seen.kind, h.want)
         /\ op # "new" => row[d].status # "none"
<1>1. /\ hand[u].op = op /\ hand[u].doc \in Docs /\ row[hand[u].doc] \in Row
      /\ hand[u].seen \in Row /\ row[hand[u].doc].kind = hand[u].seen.kind /\ hand[u].seen.kind \in kinds
      /\ Columned(hand[u].want) /\ Equipped(op, hand[u].seen.kind, hand[u].want)
  BY AtIs
<1>2. PlanOK(h)
  BY DEF Facts, PlansOK
<1>. QED  BY <1>1, <1>2 DEF PlanOK, Begun, Facts, RowsOK

LEMMA UnsettledIs ==
  ASSUME NEW d \in Docs, RowOK(d), row[d].status = "none"
  PROVE  /\ row[d].qty = 0 /\ row[d].paid = 0 /\ row[d].link = NoDoc /\ row[d].applied = 0 /\ row[d].mark = 0
         /\ row[d].actual = 0 /\ entries[d] = 0 /\ booked[d] = 0 /\ reversed[d] = 0
BY DEF RowOK, FreshRow, Blank

(* A document as it is inserted.                                           *)
Fits(k, new) ==
  /\ "status" \in DOMAIN new /\ new.status # "none"
  /\ k \notin {"ticket", "provision"}
  /\ k \in Deals => DOMAIN new = {"status", "qty"} /\ new.status = "draft"
  /\ k \in Slips => new.status = "draft"
  /\ k = "workOrder" => DOMAIN new = {"status", "qty"} /\ new.status = "planned" /\ new.qty > 0
  /\ "link" \in DOMAIN new /\ new.link # NoDoc =>
       /\ k \in Slips => row[new.link].kind \in Settles(k)
       /\ row[new.link].kind \notin Offers

LEMMA CreatesFacts ==
  ASSUME TypeIInv, Facts, NEW d \in Docs, NEW kinds, NEW new, Columned(new), Fits(row[d].kind, new),
         Creates(d, kinds, new)
  PROVE  Facts' /\ Steady /\ Tame
<1>. row \in [Docs -> Row] /\ row[d] \in Row
  BY DEF TypeIInv, PapersOK
<1>0. /\ row[d].status = "none" /\ Updates(d, new) /\ UNCHANGED <<entries, booked, reversed, hand, disturbed>>
  BY DEF Creates, Updates, work
<1>1. /\ Changes(d, Columns) /\ Wrote(row'[d], row[d], new)
      /\ row'[d].status = IF "status" \in DOMAIN new THEN new.status ELSE row[d].status
  BY <1>0, UpdatesDoes
<1>2. RowOK(d)
  BY DEF Facts, RowsOK
<1>3. /\ row[d].qty = 0 /\ row[d].paid = 0 /\ row[d].link = NoDoc /\ row[d].applied = 0 /\ row[d].mark = 0
      /\ row[d].actual = 0 /\ entries[d] = 0 /\ booked[d] = 0 /\ reversed[d] = 0
  BY <1>0, <1>2, UnsettledIs
<1>4. /\ row'[d].status = new.status /\ new.status # "none" /\ row'[d].kind = row[d].kind
      /\ row[d].kind \notin {"ticket", "provision"} /\ row'[d].link \in Docs \cup {NoDoc}
  BY <1>1, RowColumns DEF Fits, Changes, Like
<1>5. (FreshRow(d) /\ DealRow(d) /\ UnpaidRow(d))'
  BY <1>0, <1>1, <1>3, <1>4 DEF FreshRow, DealRow, UnpaidRow, Fits, Wrote
<1>6. (SlipRow(d) /\ OrderRow(d))'
  BY <1>0, <1>1, <1>3, <1>4 DEF SlipRow, OrderRow, Fits, Wrote
<1>7. (ShiftRow(d) /\ LedgerRow(d) /\ ProvisionRow(d))'
  BY <1>0, <1>3, <1>4 DEF ShiftRow, LedgerRow, ProvisionRow
<1>8. LinkRow(d)'
  <2>1. KindsStay
    BY <1>1, ChangesType
  <2>2. row'[d].link # NoDoc => "link" \in DOMAIN new /\ row'[d].link = new.link /\ new.link \in Docs
    BY <1>1, <1>3, <1>4 DEF Wrote
  <2>. QED  BY <1>4, <2>1, <2>2, BooksAssumption DEF LinkRow, Fits, KindsStay, BooksAssumption
<1>9. SteadyRow(d) /\ TameRow(d)
  BY <1>0, <1>1, <1>3, <1>4 DEF SteadyRow, TameRow, Fits, Wrote
<1>10. Fine(d) /\ SameElse(d) /\ disturbed \subseteq disturbed'
  BY <1>0, <1>5, <1>6, <1>7, <1>8, <1>9, PapersRest DEF Fine, RowOK
<1>11. RowsOK' /\ Steady /\ KindsStay /\ \A x \in Docs : TameRow(x)
  BY <1>1, <1>10, OneRow
<1>12. PlansOK'
  BY <1>0, <1>10, <1>11, PlansRest
<1>. QED  BY <1>0, <1>11, <1>12 DEF Facts, Tame

(* A draft of a quantity, as most documents begin.                         *)
LEMMA DraftFits ==
  ASSUME NEW k, k \notin {"ticket", "provision", "workOrder"}, NEW q \in 1..MaxQty
  PROVE  Fits(k, [status |-> "draft", qty |-> q]) /\ Columned([status |-> "draft", qty |-> q])
<1>. PICK new : new = [status |-> "draft", qty |-> q]
  OBVIOUS
<1>1. DOMAIN new = {"status", "qty"} /\ new.status = "draft"
  OBVIOUS
<1>2. Fits(k, new)
  BY <1>1 DEF Fits
<1>. QED  BY <1>2, DraftColumned

LEMMA DraftsFacts ==
  ASSUME TypeIInv, Facts, NEW d \in Docs, NEW kinds, kinds \cap {"ticket", "provision", "workOrder"} = {},
         NEW q \in 1..MaxQty, Creates(d, kinds, [status |-> "draft", qty |-> q])
  PROVE  Facts' /\ Steady /\ Tame
<1>1. row[d].kind \notin {"ticket", "provision", "workOrder"}
  BY DEF Creates
<1>. QED  BY <1>1, DraftFits, CreatesFacts

(* A reversal and the next plan of its session.                            *)
LEMMA ReturnsFacts ==
  ASSUME TypeIInv, Facts, NEW u \in Users, hand[u].op = "return", NEW d \in Docs,
         row[d].kind \in {"saleReturn", "purchaseReturn"}, row[d].status = "none", Returns(u, d),
         row[hand[u].doc].kind \notin Offers, hand[u].doc \in Docs
  PROVE  Facts' /\ Steady /\ Tame
<1>. row \in [Docs -> Row] /\ row[d] \in Row
  BY DEF TypeIInv, PapersOK
<1>1. Changes(d, StatusLinkQty) /\ row'[d].status = "draft" /\ row'[d].link = hand[u].doc
  BY ReturnsDoes
<1>2. /\ row'[d].kind = row[d].kind /\ KindsStay
      /\ UNCHANGED <<entries, booked, reversed, disturbed>>
      /\ hand' = [hand EXCEPT ![u] = [Idle EXCEPT !.op = "next", !.doc = d]]
  BY <1>1, ChangesType DEF Returns, Changes, Like
<1>3. RowOK(d)'
  BY <1>1, <1>2, BooksAssumption
     DEF RowOK, FreshRow, DealRow, UnpaidRow, SlipRow, OrderRow, ShiftRow, LedgerRow, ProvisionRow, LinkRow,
         Deals, Invoices, Bills, Slips, KindsStay, BooksAssumption
<1>4. SteadyRow(d) /\ TameRow(d)
  BY <1>1, <1>2 DEF SteadyRow, TameRow, Deals, Invoices, Bills, Offers
<1>5. Fine(d) /\ SameElse(d) /\ disturbed \subseteq disturbed'
  BY <1>2, <1>3, <1>4, PapersRest DEF Fine
<1>6. RowsOK' /\ Steady /\ KindsStay /\ \A x \in Docs : TameRow(x)
  BY <1>1, <1>5, OneRow
<1>. PICK h : h = [Idle EXCEPT !.op = "next", !.doc = d]
  OBVIOUS
<1>7. h.op = "next" /\ h.doc = d /\ DOMAIN h.want = {"qty"}
  BY DEF Idle
<1>8. PlanOK(h)'
  BY <1>1, <1>7 DEF PlanOK, Begun, Named, Offered, Drafted, Renewed, Undone, Finished, Counted, Meant
<1>9. PlansOK'
  BY <1>2, <1>5, <1>6, <1>8, PlansTurn
<1>10. \A v \in Users : hand'[v] = hand[v] \/ hand'[v] = h
  BY <1>2 DEF TypeIInv, HandsOK
<1>. QED  BY <1>5, <1>6, <1>7, <1>9, <1>10 DEF Facts, Tame

-----------------------------------------------------------------------------
(* An invoice is posted, or paid as well.                                  *)
LEMMA DealFine ==
  ASSUME TypeIInv, NEW d \in Docs, RowOK(d), row[d].kind \in Deals, row[d].status # "none",
         Changes(d, StatusPaid), SameElse(d),
         row'[d].status \in {"posted", "partially_paid", "paid", "cancelled"}
         \/ (row'[d].status = row[d].status /\ row[d].status # "draft"),
         row[d].status = "gone" => row'[d].status = "gone"
  PROVE  Fine(d)
<1>. row[d] \in Row /\ row'[d] \in Row
  BY DEF TypeIInv, PapersOK, Changes
<1>1. row'[d].kind = row[d].kind /\ row'[d].link = row[d].link
  BY DEF Changes, Like, StatusPaid
<1>2. (FreshRow(d) /\ DealRow(d) /\ UnpaidRow(d))'
  BY <1>1 DEF RowOK, FreshRow, DealRow, UnpaidRow
<1>3. (SlipRow(d) /\ OrderRow(d) /\ ShiftRow(d) /\ LedgerRow(d) /\ ProvisionRow(d) /\ LinkRow(d))'
  BY <1>1 DEF SlipRow, OrderRow, ShiftRow, LedgerRow, ProvisionRow, LinkRow, Deals, Invoices, Bills, Slips
<1>4. SteadyRow(d) /\ TameRow(d)
  BY <1>1 DEF SteadyRow, TameRow, Deals, Invoices, Bills, Offers
<1>. QED  BY <1>2, <1>3, <1>4 DEF Fine, RowOK

LEMMA CommitInvoiceFacts ==
  ASSUME TypeIInv, Facts, NEW u \in Users, CommitInvoice(u)
  PROVE  Facts' /\ Steady /\ Tame
<1>. PICK d : d = hand[u].doc
  OBVIOUS
<1>. PICK h : h = hand[u]
  OBVIOUS
<1>1. At(u, "post", Invoices)
  BY DEF CommitInvoice
<1>2. /\ d \in Docs /\ RowOK(d) /\ row[d].kind = h.seen.kind /\ h.seen.kind \in Invoices /\ row[d].status # "none"
  BY <1>1, PlanIs
<1>3. SameElse(d)
  <2>1. Journal(d, IF h.seen.kind = "cashSale" THEN [cash |-> h.seen.qty, inventory |-> -h.seen.qty]
                   ELSE [debtors |-> h.seen.qty, inventory |-> -h.seen.qty])
    BY DEF CommitInvoice
  <2>. QED  BY <1>2, <2>1, JournalSame DEF TypeIInv
<1>4. hand' = [hand EXCEPT ![u] = Idle] /\ disturbed \subseteq disturbed'
  BY EndsQuietly DEF CommitInvoice
<1>5. /\ Changes(d, StatusPaid)
      /\ hand[u].seen.kind # "cashSale" \/ ~Exists(d) =>
              /\ row'[d].status = IF row[d].status = "draft" THEN "posted" ELSE row[d].status
              /\ row'[d].paid = row[d].paid
      /\ hand[u].seen.kind = "cashSale" /\ Exists(d) => row'[d].status = "paid" /\ row'[d].paid = row[d].qty
  BY CommitInvoiceDoes
<1>6. Fine(d)
  <2>1. row[d].status = "gone" => row'[d].status = "gone"
    BY <1>5 DEF Exists
  <2>2. \/ row'[d].status \in {"posted", "partially_paid", "paid", "cancelled"}
        \/ row'[d].status = row[d].status /\ row[d].status # "draft"
    BY <1>5 DEF Exists
  <2>. QED  BY <1>2, <1>3, <1>5, <2>1, <2>2, DealFine DEF Deals
<1>. QED  BY <1>2, <1>3, <1>4, <1>5, <1>6, OneCommit

LEMMA CommitBillFacts ==
  ASSUME TypeIInv, Facts, NEW u \in Users, CommitBill(u)
  PROVE  Facts' /\ Steady /\ Tame
<1>. PICK d : d = hand[u].doc
  OBVIOUS
<1>. PICK h : h = hand[u]
  OBVIOUS
<1>1. At(u, "post", Bills)
  BY DEF CommitBill
<1>2. /\ d \in Docs /\ RowOK(d) /\ row[d].kind = h.seen.kind /\ h.seen.kind \in Bills /\ row[d].status # "none"
  BY <1>1, PlanIs
<1>3. SameElse(d)
  <2>1. Journal(d, IF h.seen.kind = "cashPurchase" THEN [cash |-> -h.seen.qty, inventory |-> h.seen.qty]
                   ELSE [creditors |-> h.seen.qty, inventory |-> h.seen.qty])
    BY DEF CommitBill
  <2>. QED  BY <1>2, <2>1, JournalSame DEF TypeIInv
<1>4. hand' = [hand EXCEPT ![u] = Idle] /\ disturbed \subseteq disturbed'
  BY EndsQuietly DEF CommitBill
<1>5. /\ Changes(d, StatusPaid)
      /\ hand[u].seen.kind # "cashPurchase" \/ ~Exists(d) =>
              /\ row'[d].status = IF row[d].status = "draft" THEN "posted" ELSE row[d].status
              /\ row'[d].paid = row[d].paid
      /\ hand[u].seen.kind = "cashPurchase" /\ Exists(d) => row'[d].status = "paid" /\ row'[d].paid = row[d].qty
  BY CommitBillDoes
<1>6. Fine(d)
  <2>1. row[d].status = "gone" => row'[d].status = "gone"
    BY <1>5 DEF Exists
  <2>2. \/ row'[d].status \in {"posted", "partially_paid", "paid", "cancelled"}
        \/ row'[d].status = row[d].status /\ row[d].status # "draft"
    BY <1>5 DEF Exists
  <2>. QED  BY <1>2, <1>3, <1>5, <2>1, <2>2, DealFine DEF Deals
<1>. QED  BY <1>2, <1>3, <1>4, <1>5, <1>6, OneCommit

(* A status that moves on, of a document with no columns that depend on it. *)
Simple == {"saleReturn", "purchaseReturn", "transfer", "adjustment", "payroll", "endOfService", "half", "year", "journal", "asset",
           "leave"}

LEMMA SimpleFine ==
  ASSUME TypeIInv, NEW d \in Docs, RowOK(d), row[d].kind \in Simple, NEW cols, Changes(d, cols), "link" \notin cols,
         SameElse(d), row'[d].status # "none", disturbed \subseteq disturbed',
         row[d].kind \in {"journal", "payroll"} =>
           row'[d].status # "draft" \/ (row[d].status = "draft" /\ reversed'[d] = reversed[d])
  PROVE  Fine(d)
<1>. row[d] \in Row /\ row'[d] \in Row
  BY DEF TypeIInv, PapersOK, Changes
<1>1. row'[d].kind = row[d].kind /\ row'[d].link = row[d].link
  BY DEF Changes, Like
<1>2. (FreshRow(d) /\ DealRow(d) /\ UnpaidRow(d) /\ LedgerRow(d))'
  BY <1>1 DEF RowOK, FreshRow, DealRow, UnpaidRow, LedgerRow, Simple, Deals, Invoices, Bills
<1>3. (SlipRow(d) /\ OrderRow(d) /\ ShiftRow(d) /\ ProvisionRow(d))'
  BY <1>1 DEF SlipRow, OrderRow, ShiftRow, ProvisionRow, Simple, Slips
<1>4. LinkRow(d)'
  <2>1. CASE row[d].link = NoDoc
    BY <1>1, <2>1 DEF LinkRow
  <2>2. CASE row[d].link # NoDoc
    <3>1. row[d].link \in Docs /\ KindsStay
      BY <2>2, RowColumns, ChangesType DEF TypeIInv, PapersOK
    <3>. QED  BY <1>1, <2>2, <3>1 DEF RowOK, LinkRow, KindsStay
  <2>. QED  BY <2>1, <2>2
<1>5. SteadyRow(d) /\ TameRow(d)
  BY <1>1 DEF SteadyRow, TameRow, Simple, Deals, Invoices, Bills, Offers
<1>. QED  BY <1>2, <1>3, <1>4, <1>5 DEF Fine, RowOK

(* Such a commit, whether it books an entry or not.                        *)
LEMMA SimpleCommit ==
  ASSUME TypeIInv, Facts, NEW u \in Users, NEW d \in Docs, RowOK(d), row[d].kind \in Simple,
         NEW cols, Changes(d, cols), "link" \notin cols, SameElse(d),
         row'[d].status # "none", disturbed \subseteq disturbed',
         row[d].kind \in {"journal", "payroll"} =>
           row'[d].status # "draft" \/ (row[d].status = "draft" /\ reversed'[d] = reversed[d]),
         hand' = [hand EXCEPT ![u] = Idle]
  PROVE  Facts' /\ Steady /\ Tame
BY SimpleFine, OneCommit

LEMMA CommitReturnFacts ==
  ASSUME TypeIInv, Facts, NEW u \in Users, CommitReturn(u) \/ CommitBillReturn(u)
  PROVE  Facts' /\ Steady /\ Tame
<1>. PICK d : d = hand[u].doc
  OBVIOUS
<1>. PICK h : h = hand[u]
  OBVIOUS
<1>1. At(u, "post", {"saleReturn", "purchaseReturn"})
  BY DEF CommitReturn, CommitBillReturn, At
<1>2. d \in Docs /\ RowOK(d) /\ row[d].kind \in Simple /\ row[d].status # "none"
      /\ row[d].kind \notin {"journal", "payroll"}
  BY <1>1, PlanIs DEF Simple
<1>3. SameElse(d)
  <2>1. PICK legs : Journal(d, legs)
    BY DEF CommitReturn, CommitBillReturn
  <2>. QED  BY <1>2, <2>1, JournalSame DEF TypeIInv
<1>4. hand' = [hand EXCEPT ![u] = Idle] /\ disturbed \subseteq disturbed'
  BY EndsQuietly DEF CommitReturn, CommitBillReturn
<1>5. /\ Changes(d, JustStatus)
      /\ row'[d].status = IF row[d].status = "draft" THEN "posted" ELSE row[d].status
  BY CommitReturnDoes, CommitBillReturnDoes
<1>6. row'[d].status # "none" /\ "link" \notin JustStatus
  BY <1>2, <1>5 DEF JustStatus
<1>. QED  BY <1>2, <1>3, <1>4, <1>5, <1>6, SimpleCommit

LEMMA ReversalFacts ==
  ASSUME TypeIInv, Facts, NEW u \in Users, CreateReversal(u) \/ CreateBillReversal(u)
  PROVE  Facts' /\ Steady /\ Tame
<1>1. At(u, "return", Deals \cup {"ticket"})
  BY DEF CreateReversal, CreateBillReversal, At, Deals
<1>2. hand[u].doc \in Docs /\ row[hand[u].doc].kind \notin Offers
  BY <1>1, AtIs DEF Offers, Deals, Invoices, Bills
<1>. PICK d \in Docs : /\ row[d].kind \in {"saleReturn", "purchaseReturn"} /\ row[d].status = "none"
                       /\ Returns(u, d) /\ hand[u].op = "return"
  BY CreateReversalDoes, CreateBillReversalDoes
<1>. QED  BY <1>2, ReturnsFacts

LEMMA SalesFacts ==
  ASSUME TypeIInv, Facts, SalesStep
  PROVE  Facts' /\ Steady /\ Tame
<1>1. ASSUME NEW d \in Docs, CreateInvoice(d)  PROVE Facts' /\ Steady /\ Tame
  BY <1>1, DraftsFacts DEF CreateInvoice, Invoices
<1>2. ASSUME NEW d \in Docs, CreateReturn(d)  PROVE Facts' /\ Steady /\ Tame
  <2>. PICK q \in 1..MaxQty, i \in {NoDoc} \cup {x \in Docs : row[x].kind \in Invoices} :
         Creates(d, {"saleReturn"}, [status |-> "draft", qty |-> q, link |-> i])
    BY <1>2 DEF CreateReturn
  <2>. PICK new : new = [status |-> "draft", qty |-> q, link |-> i]
    OBVIOUS
  <2>1. DOMAIN new = {"status", "qty", "link"} /\ new.status = "draft" /\ new.link = i /\ new.qty = q
    OBVIOUS
  <2>2. row[d].kind = "saleReturn" /\ Columned(new)
    BY <2>1 DEF Creates, Columned, Columns, Status
  <2>3. Fits(row[d].kind, new)
    BY <2>1, <2>2 DEF Fits, Invoices, Bills, Deals, Slips, Offers
  <2>. QED  BY <2>2, <2>3, CreatesFacts
<1>3. ASSUME NEW u \in Users, CommitInvoice(u) \/ CommitReturn(u) \/ CreateReversal(u)  PROVE Facts' /\ Steady /\ Tame
  BY <1>3, CommitInvoiceFacts, CommitReturnFacts, ReversalFacts
<1>. QED  BY <1>1, <1>2, <1>3, SalesPlans DEF SalesStep

LEMMA PurchasesFacts ==
  ASSUME TypeIInv, Facts, PurchasesStep
  PROVE  Facts' /\ Steady /\ Tame
<1>1. ASSUME NEW d \in Docs, CreateBill(d)  PROVE Facts' /\ Steady /\ Tame
  BY <1>1, DraftsFacts DEF CreateBill, Bills
<1>2. ASSUME NEW d \in Docs, CreateBillReturn(d)  PROVE Facts' /\ Steady /\ Tame
  <2>. PICK q \in 1..MaxQty, i \in {NoDoc} \cup {x \in Docs : row[x].kind \in Bills} :
         Creates(d, {"purchaseReturn"}, [status |-> "draft", qty |-> q, link |-> i])
    BY <1>2 DEF CreateBillReturn
  <2>. PICK new : new = [status |-> "draft", qty |-> q, link |-> i]
    OBVIOUS
  <2>1. DOMAIN new = {"status", "qty", "link"} /\ new.status = "draft" /\ new.link = i /\ new.qty = q
    OBVIOUS
  <2>2. row[d].kind = "purchaseReturn" /\ Columned(new)
    BY <2>1 DEF Creates, Columned, Columns, Status
  <2>3. Fits(row[d].kind, new)
    BY <2>1, <2>2 DEF Fits, Invoices, Bills, Deals, Slips, Offers
  <2>. QED  BY <2>2, <2>3, CreatesFacts
<1>3. ASSUME NEW u \in Users, CommitBill(u) \/ CommitBillReturn(u) \/ CreateBillReversal(u)  PROVE Facts' /\ Steady /\ Tame
  BY <1>3, CommitBillFacts, CommitReturnFacts, ReversalFacts
<1>. QED  BY <1>1, <1>2, <1>3, PurchasesPlans DEF PurchasesStep

-----------------------------------------------------------------------------
(* A voucher writes its own row and the invoice it settles.                *)
LEMMA VoucherCommit ==
  ASSUME TypeIInv, Facts, NEW d \in Docs, NEW i \in Docs \cup {NoDoc}, NEW n, Applies(d, i, n), SameElse(d),
         disturbed \subseteq disturbed', Fine(d), i \in Docs \ {d} => Fine(i),
         NEW u \in Users, hand' = [hand EXCEPT ![u] = Idle]
  PROVE  Facts' /\ Steady /\ Tame
<1>0. KindsStay /\ \A x \in Docs \ {d, i} : row'[x] = row[x]
  BY DEF Applies
<1>1. ASSUME NEW x \in Docs  PROVE Fine(x)
  <2>1. CASE x \in {d, i}
    BY <2>1
  <2>2. CASE x \notin {d, i}
    BY <2>2, <1>0, RowStays DEF Facts, RowsOK, SameElse
  <2>. QED  BY <2>1, <2>2
<1>2. RowsOK' /\ Steady /\ \A x \in Docs : TameRow(x)
  BY <1>1 DEF Fine, RowsOK, Steady
<1>3. PlansOK'
  BY <1>0, <1>2, PlansTurn, IdlePlanOK
<1>4. \A v \in Users : hand'[v] = hand[v] \/ hand'[v].op = "idle"
  BY DEF TypeIInv, HandsOK, Idle
<1>. QED  BY <1>0, <1>2, <1>3, <1>4 DEF Facts, Tame

(* The invoice: a draft among them goes into the history.                  *)
LEMMA SettledFine ==
  ASSUME TypeIInv, NEW d \in Docs, NEW i \in Docs \ {d}, NEW n, Applies(d, i, n), SameElse(d), RowOK(i),
         row[i].kind \in Deals \cup {"ticket"},
         disturbed \subseteq disturbed', row[i].status = "draft" => i \in disturbed'
  PROVE  Fine(i)
<1>0. KindsStay /\ entries'[i] = entries[i] /\ booked'[i] = booked[i] /\ reversed'[i] = reversed[i]
  BY DEF Applies, SameElse
<1>1. CASE ~Exists(i)
  BY <1>0, <1>1, RowStays DEF Applies
<1>2. CASE Exists(i)
  <2>1. /\ row'[i].kind = row[i].kind /\ row'[i].link = row[i].link
        /\ row'[i].status \in {"cancelled", "paid", "partially_paid"}
    BY <1>2 DEF Applies, Like, StatusPaid
  <2>2. row[i].status \notin {"none", "gone"}
    BY <1>2 DEF Exists
  <2>3. (FreshRow(i) /\ DealRow(i) /\ UnpaidRow(i))'
    BY <2>1 DEF FreshRow, DealRow, UnpaidRow
  <2>4. (SlipRow(i) /\ OrderRow(i) /\ ShiftRow(i) /\ LedgerRow(i) /\ ProvisionRow(i))'
    BY <2>1 DEF SlipRow, OrderRow, ShiftRow, LedgerRow, ProvisionRow, Deals, Invoices, Bills, Slips
  <2>5. LinkRow(i)'
    <3>1. row[i].link \in Docs \cup {NoDoc}
      BY RowColumns DEF TypeIInv, PapersOK
    <3>2. row[i].kind \notin Slips
      BY DEF Deals, Invoices, Bills, Slips
    <3>. QED  BY <1>0, <2>1, <3>1, <3>2 DEF RowOK, LinkRow, KindsStay
  <2>6. SteadyRow(i) /\ TameRow(i)
    BY <2>1, <2>2 DEF SteadyRow, TameRow, Deals, Invoices, Bills, Offers
  <2>. QED  BY <2>3, <2>4, <2>5, <2>6 DEF Fine, RowOK
<1>. QED  BY <1>1, <1>2

LEMMA BookingDoes ==
  ASSUME TypeIInv, NEW u \in Users, Booking(u), NEW d, d = hand[u].doc, d \in Docs,
         NEW t, t = hand[u].want, NEW k, k = hand[u].seen.kind
  PROVE  /\ SameElse(d) /\ booked'[d] = booked[d] + (IF k = "receipt" THEN t.qty ELSE -t.qty)
         /\ hand' = [hand EXCEPT ![u] = Idle] /\ disturbed \subseteq disturbed'
         /\ row[d] # hand[u].seen => d \in disturbed'
         /\ \A i \in Docs : i = t.link /\ row[i].status = "draft" => i \in disturbed'
<1>1. EndsWith(u, {i \in {t.link} \cap Docs : row[i].status = "draft"})
  BY DEF Booking
<1>2. CASE k = "receipt"
  <2>. PICK legs : legs = [cash |-> t.qty, debtors |-> -t.qty]
    OBVIOUS
  <2>1. Journal(d, legs) /\ "cash" \in DOMAIN legs /\ legs["cash"] = t.qty
    BY <1>2 DEF Booking
  <2>. QED  BY <1>1, <1>2, <2>1, JournalSame, EndsMarks DEF TypeIInv
<1>3. CASE k # "receipt"
  <2>. PICK legs : legs = [cash |-> -t.qty, creditors |-> -t.qty]
    OBVIOUS
  <2>1. Journal(d, legs) /\ "cash" \in DOMAIN legs /\ legs["cash"] = -t.qty
    BY <1>3 DEF Booking
  <2>. QED  BY <1>1, <1>3, <2>1, JournalSame, EndsMarks DEF TypeIInv
<1>. QED  BY <1>2, <1>3

(* The voucher itself. *)
LEMMA SlipFine ==
  ASSUME TypeIInv, NEW d \in Docs, row'[d] \in Row, KindsStay, row[d].kind \in Slips,
         row'[d].status \in {"gone", "cancelled", "posted", "reversed"}, row[d].status # "none" \/ row'[d].status = "posted",
         d \notin disturbed' =>
           booked'[d] = IF row'[d].status \in {"posted", "reversed"} THEN Amount(row'[d]) ELSE 0,
         row'[d].link # NoDoc => row[row'[d].link].kind \in Settles(row[d].kind)
  PROVE  Fine(d)
<1>1. row'[d].kind = row[d].kind /\ row'[d].link \in Docs \cup {NoDoc}
  BY RowColumns DEF KindsStay
<1>2. (FreshRow(d) /\ DealRow(d) /\ UnpaidRow(d) /\ OrderRow(d) /\ ShiftRow(d) /\ LedgerRow(d) /\ ProvisionRow(d))'
  BY <1>1 DEF FreshRow, DealRow, UnpaidRow, OrderRow, ShiftRow, LedgerRow, ProvisionRow, Deals, Invoices, Bills, Slips
<1>3. SlipRow(d)'
  BY <1>1 DEF SlipRow
<1>4. LinkRow(d)'
  BY <1>1 DEF LinkRow, KindsStay, Settles, Offers
<1>5. SteadyRow(d) /\ TameRow(d)
  BY <1>1 DEF SteadyRow, TameRow, Slips, Deals, Invoices, Bills, Offers
<1>. QED  BY <1>2, <1>3, <1>4, <1>5 DEF Fine, RowOK

LEMMA SettlesDeals ==
  ASSUME NEW k PROVE Settles(k) \subseteq Deals \cup {"ticket"} /\ Settles(k) \cap Slips = {}
BY DEF Settles, Deals, Invoices, Bills, Slips

LEMMA CommitVoucherFacts ==
  ASSUME TypeIInv, Facts, NEW u \in Users, CommitVoucher(u)
  PROVE  Facts' /\ Steady /\ Tame
<1>. PICK d : d = hand[u].doc
  OBVIOUS
<1>. PICK h : h = hand[u]
  OBVIOUS
<1>. PICK i : i = h.want.link
  OBVIOUS
<1>. PICK n : n = h.want.applied
  OBVIOUS
<1>1. At(u, "post", Slips) /\ Booking(u)
  BY DEF CommitVoucher
<1>2. /\ d \in Docs /\ RowOK(d) /\ row[d] \in Row /\ row[d].kind = h.seen.kind /\ h.seen.kind \in Slips
      /\ row[d].status # "none" /\ PlanOK(h) /\ Columned(h.want) /\ h.op = "post" /\ h.doc = d /\ h.seen \in Row
  BY <1>1, PlanIs
<1>3. /\ h.seen.status = "draft" /\ DOMAIN h.want = {"qty", "link", "applied"} /\ h.want.qty = h.seen.qty
      /\ h.want.link = h.seen.link
      /\ i \in Docs \cup {NoDoc} /\ (i # NoDoc => row[i].kind \in Settles(h.seen.kind))
  <2>1. /\ h.seen.status = "draft" /\ DOMAIN h.want = {"qty", "link", "applied"} /\ h.want.qty = h.seen.qty
        /\ h.want.link = h.seen.link
    BY <1>2 DEF PlanOK, Drafted, Slips
  <2>2. i \in Docs \cup {NoDoc}
    BY <1>2, <2>1 DEF Columned
  <2>3. i # NoDoc => row[i].kind \in Settles(h.seen.kind)
    BY <1>2, <2>1 DEF PlanOK, Named
  <2>. QED  BY <2>1, <2>2, <2>3
<1>4. d # i
  BY <1>2, <1>3, SettlesDeals, BooksAssumption DEF BooksAssumption
<1>5. /\ Applies(d, i, n) /\ Like(row'[d], row[d], JustStatus)
      /\ row'[d].status = IF row[d].status = "draft" THEN "posted" ELSE row[d].status
  BY <1>4, CommitVoucherDoes
<1>6. /\ SameElse(d) /\ booked'[d] = booked[d] + (IF h.seen.kind = "receipt" THEN h.want.qty ELSE -h.want.qty)
      /\ hand' = [hand EXCEPT ![u] = Idle] /\ disturbed \subseteq disturbed'
      /\ row[d] # h.seen => d \in disturbed'
      /\ \A x \in Docs : x = i /\ row[x].status = "draft" => x \in disturbed'
  BY <1>1, <1>2, BookingDoes
<1>7. row' \in [Docs -> Row] /\ KindsStay
  BY <1>5 DEF Applies
<1>8. row'[d].kind = row[d].kind /\ row'[d].qty = row[d].qty /\ row'[d].link = row[d].link
  BY <1>5 DEF Like, JustStatus
<1>9. Fine(d)
  <2>1. ASSUME d \notin disturbed'
        PROVE  row'[d].status = "posted" /\ booked'[d] = Amount(row'[d])
    <3>1. row[d] = h.seen /\ d \notin disturbed
      BY <2>1, <1>6
    <3>2. booked[d] = 0
      BY <1>2, <1>3, <3>1 DEF RowOK, SlipRow
    <3>3. h.want.qty \in Int
      BY <1>2, <1>3 DEF Columned
    <3>. QED  BY <1>2, <1>3, <1>5, <1>6, <1>8, <3>1, <3>2, <3>3 DEF Amount
  <2>2. row'[d].status \in {"gone", "cancelled", "posted", "reversed"}
    BY <1>2, <1>5 DEF RowOK, SlipRow
  <2>3. row'[d].link # NoDoc => row[row'[d].link].kind \in Settles(row[d].kind)
    BY <1>2, <1>8 DEF RowOK, LinkRow
  <2>. QED  BY <1>2, <1>7, <2>1, <2>2, <2>3, SlipFine
<1>10. i \in Docs \ {d} => Fine(i)
  <2>. SUFFICES ASSUME i \in Docs \ {d}  PROVE Fine(i)
    OBVIOUS
  <2>1. RowOK(i) /\ row[i].kind \in Deals \cup {"ticket"}
    BY <1>3, SettlesDeals, BooksAssumption DEF Facts, RowsOK, BooksAssumption
  <2>. QED  BY <1>2, <1>5, <1>6, <2>1, SettledFine
<1>. QED  BY <1>2, <1>3, <1>5, <1>6, <1>9, <1>10, VoucherCommit

LEMMA CommitCreatedFacts ==
  ASSUME TypeIInv, Facts, NEW u \in Users, CommitCreated(u)
  PROVE  Facts' /\ Steady /\ Tame
<1>. PICK d : d = hand[u].doc
  OBVIOUS
<1>. PICK h : h = hand[u]
  OBVIOUS
<1>. PICK i : i = h.want.link
  OBVIOUS
<1>. PICK n : n = h.want.applied
  OBVIOUS
<1>1. At(u, "new", Slips) /\ Booking(u)
  BY DEF CommitCreated
<1>2. /\ d \in Docs /\ RowOK(d) /\ row[d] \in Row /\ row[d].kind = h.seen.kind /\ h.seen.kind \in Slips
      /\ PlanOK(h) /\ Columned(h.want) /\ h.op = "new" /\ h.doc = d
  BY <1>1, PlanIs
<1>3. /\ h.want.status = "posted" /\ DOMAIN h.want = {"status", "qty", "link", "applied"}
      /\ i \in Docs \cup {NoDoc} /\ (i # NoDoc => row[i].kind \in Settles(h.seen.kind))
  BY <1>2 DEF PlanOK, Renewed, Named, Columned
<1>4. d # i
  BY <1>2, <1>3, SettlesDeals, BooksAssumption DEF BooksAssumption
<1>5. /\ Applies(d, i, n) /\ row[d].status = "none" /\ row'[d] = Updated(row[d], h.want)
  BY <1>4, CommitCreatedDoes
<1>6. /\ SameElse(d) /\ booked'[d] = booked[d] + (IF h.seen.kind = "receipt" THEN h.want.qty ELSE -h.want.qty)
      /\ hand' = [hand EXCEPT ![u] = Idle] /\ disturbed \subseteq disturbed'
      /\ \A x \in Docs : x = i /\ row[x].status = "draft" => x \in disturbed'
  BY <1>1, <1>2, BookingDoes
<1>7. row' \in [Docs -> Row] /\ KindsStay
  BY <1>5 DEF Applies
<1>8. row'[d].kind = row[d].kind /\ row'[d].qty = h.want.qty /\ row'[d].link = i /\ row'[d].status = "posted"
  BY <1>2, <1>3, <1>5, UpdatedRow
<1>9. Fine(d)
  <2>1. booked'[d] = Amount(row'[d])
    <3>1. booked[d] = 0
      BY <1>2, <1>5, UnsettledIs
    <3>2. h.want.qty \in Int
      BY <1>2, <1>3 DEF Columned
    <3>. QED  BY <1>2, <1>6, <1>8, <3>1, <3>2 DEF Amount
  <2>. QED  BY <1>2, <1>3, <1>7, <1>8, <2>1, SlipFine
<1>10. i \in Docs \ {d} => Fine(i)
  <2>. SUFFICES ASSUME i \in Docs \ {d}  PROVE Fine(i)
    OBVIOUS
  <2>1. RowOK(i) /\ row[i].kind \in Deals \cup {"ticket"}
    BY <1>3, SettlesDeals, BooksAssumption DEF Facts, RowsOK, BooksAssumption
  <2>. QED  BY <1>2, <1>5, <1>6, <2>1, SettledFine
<1>. QED  BY <1>2, <1>3, <1>5, <1>6, <1>9, <1>10, VoucherCommit

LEMMA CommitReverseFacts ==
  ASSUME TypeIInv, Facts, NEW u \in Users, CommitReverse(u)
  PROVE  Facts' /\ Steady /\ Tame
<1>. PICK d : d = hand[u].doc
  OBVIOUS
<1>. PICK h : h = hand[u]
  OBVIOUS
<1>1. At(u, "reverse", Slips) /\ Ends(u)
  BY DEF CommitReverse
<1>2. /\ d \in Docs /\ RowOK(d) /\ row[d] \in Row /\ row[d].kind = h.seen.kind /\ h.seen.kind \in Slips
      /\ row[d].status # "none"
  BY <1>1, PlanIs
<1>3. entries' = entries /\ booked' = booked /\ reversed' = [reversed EXCEPT ![d] = @ + 1]
  BY DEF CommitReverse
<1>4. SameElse(d)
  BY <1>3 DEF SameElse, TypeIInv, PapersOK
<1>5. hand' = [hand EXCEPT ![u] = Idle] /\ disturbed \subseteq disturbed'
  BY <1>1, EndsQuietly
<1>6. /\ Changes(d, JustStatus)
      /\ row'[d].status = IF row[d].status = "posted" THEN "reversed" ELSE row[d].status
  BY CommitReverseDoes
<1>7. row'[d] \in Row /\ KindsStay /\ Amount(row'[d]) = Amount(row[d]) /\ row'[d].link = row[d].link
  BY <1>2, <1>6, ChangesType DEF Changes, Like, JustStatus, Amount, TypeIInv, PapersOK
<1>8. Fine(d)
  <2>1. d \notin disturbed' => booked'[d] = IF row'[d].status \in {"posted", "reversed"} THEN Amount(row'[d]) ELSE 0
    BY <1>2, <1>3, <1>5, <1>6, <1>7 DEF RowOK, SlipRow
  <2>2. row'[d].link # NoDoc => row[row'[d].link].kind \in Settles(row[d].kind)
    BY <1>2, <1>7 DEF RowOK, LinkRow
  <2>3. CASE row'[d].status \in {"gone", "cancelled", "posted", "reversed"}
    BY <1>2, <1>7, <2>1, <2>2, <2>3, SlipFine
  <2>4. CASE row'[d].status \notin {"gone", "cancelled", "posted", "reversed"}
    <3>1. row'[d] = row[d]
      <4>1. row'[d].status = row[d].status
        BY <1>2, <1>6, <2>4
      <4>. QED  BY <1>2, <1>6, <1>7, <4>1 DEF Changes, Like, JustStatus, Row
    <3>2. row[d].status = "draft"
      BY <1>2, <1>6, <2>4 DEF RowOK, SlipRow
    <3>3. row'[d].kind = row[d].kind /\ row'[d].link \in Docs \cup {NoDoc}
      BY <1>2, <1>7, RowColumns DEF KindsStay
    <3>4. (FreshRow(d) /\ DealRow(d) /\ UnpaidRow(d) /\ OrderRow(d) /\ ShiftRow(d) /\ LedgerRow(d) /\ ProvisionRow(d))'
      BY <1>2, <3>1, <3>2 DEF FreshRow, DealRow, UnpaidRow, OrderRow, ShiftRow, LedgerRow, ProvisionRow, Deals, Invoices, Bills, Slips
    <3>5. SlipRow(d)'
      BY <1>2, <2>1, <3>1, <3>2 DEF SlipRow
    <3>6. LinkRow(d)'
      BY <1>2, <1>7, <2>2, <3>3 DEF LinkRow, KindsStay, Settles, Offers
    <3>7. SteadyRow(d) /\ TameRow(d)
      BY <3>1 DEF SteadyRow, TameRow
    <3>. QED  BY <3>4, <3>5, <3>6, <3>7 DEF Fine, RowOK
  <2>. QED  BY <2>3, <2>4
<1>. QED  BY <1>2, <1>4, <1>5, <1>6, <1>8, OneCommit

LEMMA VouchersFacts ==
  ASSUME TypeIInv, Facts, VouchersStep
  PROVE  Facts' /\ Steady /\ Tame
<1>1. ASSUME NEW d \in Docs, CreateVoucher(d)  PROVE Facts' /\ Steady /\ Tame
  <2>. PICK t \in Terms(row[d].kind) : Creates(d, Slips, Voucher(t, "draft"))
    BY <1>1 DEF CreateVoucher
  <2>. PICK new : new = Voucher(t, "draft")
    OBVIOUS
  <2>1. DOMAIN new = {"status", "qty", "link", "applied"} /\ new.status = "draft" /\ new.link = t.link
    BY DEF Voucher
  <2>2. Columned(new)
    BY TermsType DEF Status
  <2>3. row[d].kind \in Slips /\ (t.link # NoDoc => row[t.link].kind \in Settles(row[d].kind))
    BY TermsLink DEF Creates
  <2>4. Fits(row[d].kind, new)
    BY <2>1, <2>3 DEF Fits, Deals, Invoices, Bills, Slips, Settles, Offers
  <2>. QED  BY <2>2, <2>4, CreatesFacts
<1>2. ASSUME NEW u \in Users, CommitVoucher(u) \/ CommitCreated(u) \/ CommitReverse(u)  PROVE Facts' /\ Steady /\ Tame
  BY <1>2, CommitVoucherFacts, CommitCreatedFacts, CommitReverseFacts
<1>. QED  BY <1>1, <1>2, VouchersPlans DEF VouchersStep

-----------------------------------------------------------------------------
(* One statement on a row, beside the sessions' plans.                     *)
LEMMA OneStatement ==
  ASSUME TypeIInv, Facts, NEW d \in Docs, NEW cols, Changes(d, cols), SameElse(d),
         disturbed \subseteq disturbed', Fine(d), hand' = hand
  PROVE  Facts' /\ Steady /\ Tame
<1>1. RowsOK' /\ Steady /\ KindsStay /\ \A x \in Docs : TameRow(x)
  BY OneRow
<1>2. PlansOK'
  BY <1>1, PlansRest
<1>. QED  BY <1>1, <1>2 DEF Facts, Tame

(* A session goes on with its plan, or another one, as it writes the row.  *)
LEMMA OneTurn ==
  ASSUME TypeIInv, Facts, NEW d \in Docs, NEW cols, Changes(d, cols), SameElse(d),
         disturbed \subseteq disturbed', Fine(d),
         NEW u \in Users, NEW h, PlanOK(h)', hand' = [hand EXCEPT ![u] = h]
  PROVE  Facts' /\ Steady /\ (h.op \notin {"claimed", "release"} => Tame)
<1>1. RowsOK' /\ Steady /\ KindsStay /\ \A x \in Docs : TameRow(x)
  BY OneRow
<1>2. PlansOK'
  BY <1>1, PlansTurn
<1>3. \A v \in Users : hand'[v] = hand[v] \/ hand'[v] = h
  BY DEF TypeIInv, HandsOK
<1>. QED  BY <1>1, <1>2, <1>3 DEF Facts, Tame

(* A plan to write what has just been written again.                       *)
LEMMA WritesOn ==
  ASSUME NEW h, h.op = "write", h.seen.kind = "transfer", row'[h.doc].status # "none",
         \/ DOMAIN h.want = {"qty"}
         \/ DOMAIN h.want = {"status"} /\ h.want.status = "gone"
  PROVE  PlanOK(h)'
<1>1. Begun(h)' /\ Named(h)'
  BY DEF Begun, Named
<1>2. Meant(h)'
  BY DEF Meant, Deals, Invoices, Bills, Slips, Unguarded, Standing
<1>. QED  BY <1>1, <1>2 DEF PlanOK, Offered, Drafted, Renewed, Undone, Finished, Counted

TransferPlan(d, r, want) == [Idle EXCEPT !.op = "write", !.doc = d, !.seen = r, !.want = want]

LEMMA TransferPlanIs ==
  ASSUME NEW d, NEW r, NEW want, NEW h, h = TransferPlan(d, r, want)
  PROVE  h.op = "write" /\ h.doc = d /\ h.seen = r /\ h.want = want
BY DEF TransferPlan, Idle

LEMMA CreateTransferFacts ==
  ASSUME TypeIInv, Facts, NEW u \in Users, NEW d \in Docs, CreateTransfer(u, d)
  PROVE  Facts' /\ Steady /\ Tame
<1>1. /\ row[d].kind = "transfer" /\ RowOK(d)
      /\ UNCHANGED <<entries, booked, reversed, disturbed>>
  BY DEF CreateTransfer, Facts, RowsOK
<1>2. Changes(d, JustStatus) /\ row'[d].status = "draft"
  BY CreateTransferDoes
<1>3. Fine(d) /\ SameElse(d)
  <2>1. SameElse(d) /\ "link" \notin JustStatus /\ row[d].kind \in Simple
    BY <1>1, PapersRest DEF JustStatus, Simple
  <2>. QED  BY <1>1, <1>2, <2>1, SimpleFine
<1>. PICK r : r = row'[d]
  OBVIOUS
<1>. PICK q \in 1..MaxQty : hand' = [hand EXCEPT ![u] = TransferPlan(d, r, [qty |-> q])]
  BY DEF CreateTransfer, TransferPlan
<1>. PICK want : want = [qty |-> q]
  OBVIOUS
<1>. PICK h : h = TransferPlan(d, r, want)
  OBVIOUS
<1>4. h.op = "write" /\ h.doc = d /\ h.seen = r /\ h.want = want
  BY TransferPlanIs
<1>5. DOMAIN want = {"qty"} /\ r.kind = "transfer"
  BY <1>1, <1>2 DEF Changes, Like
<1>6. PlanOK(h)'
  BY <1>2, <1>4, <1>5, WritesOn
<1>. QED  BY <1>1, <1>2, <1>3, <1>4, <1>6, OneTurn

LEMMA DeleteTransferFacts ==
  ASSUME TypeIInv, Facts, NEW u \in Users, NEW d \in Docs, DeleteTransfer(u, d)
  PROVE  Facts' /\ Steady /\ Tame
<1>1. /\ row[d].kind = "transfer" /\ RowOK(d) /\ row[d].status # "none"
      /\ UNCHANGED <<entries, booked, reversed, disturbed>>
  BY DEF DeleteTransfer, Facts, RowsOK, Exists
<1>2. Changes(d, JustQty) /\ row'[d].status = row[d].status
  BY DeleteTransferDoes DEF Changes, Like, JustQty
<1>3. Fine(d) /\ SameElse(d)
  <2>1. SameElse(d) /\ "link" \notin JustQty /\ row[d].kind \in Simple
    BY <1>1, PapersRest DEF JustQty, Simple
  <2>. QED  BY <1>1, <1>2, <2>1, SimpleFine
<1>. PICK r : r = row'[d]
  OBVIOUS
<1>. PICK want : want = [status |-> "gone"]
  OBVIOUS
<1>. PICK h : h = TransferPlan(d, r, want)
  OBVIOUS
<1>0. hand' = [hand EXCEPT ![u] = TransferPlan(d, r, [status |-> "gone"])]
  BY DEF DeleteTransfer, TransferPlan
<1>4. h.op = "write" /\ h.doc = d /\ h.seen = r /\ h.want = want /\ hand' = [hand EXCEPT ![u] = h]
  BY <1>0, TransferPlanIs
<1>5. DOMAIN want = {"status"} /\ want.status = "gone" /\ r.kind = "transfer"
  BY <1>1, <1>2 DEF Changes, Like
<1>6. PlanOK(h)'
  BY <1>1, <1>2, <1>4, <1>5, WritesOn
<1>. QED  BY <1>1, <1>2, <1>3, <1>4, <1>6, OneTurn

LEMMA CheckFloorFacts ==
  ASSUME TypeIInv, Facts, NEW u \in Users, CheckFloor(u)
  PROVE  Facts' /\ Steady /\ Tame
<1>. PICK g : g = hand[u]
  OBVIOUS
<1>. PICK h : h = [g EXCEPT !.op = "post"]
  OBVIOUS
<1>1. At(u, "floor", {"transfer"})
  BY DEF CheckFloor
<1>2. PlanOK(g) /\ g.op = "floor" /\ g.seen.kind = "transfer"
  BY <1>1, PlanIs
<1>3. h.op = "post" /\ h.doc = g.doc /\ h.seen = g.seen /\ h.want = g.want
  BY DEF TypeIInv, HandsOK, PlanOf
<1>4. PlanOK(h)
  <2>1. Begun(h) /\ Named(h)
    BY <1>2, <1>3 DEF PlanOK, Begun, Named
  <2>2. Drafted(h)
    BY <1>2, <1>3 DEF PlanOK, Drafted, Deals, Invoices, Bills, Slips
  <2>. QED  BY <1>3, <2>1, <2>2 DEF PlanOK, Offered, Renewed, Undone, Finished, Counted, Meant
<1>5. Quiet /\ hand' = [hand EXCEPT ![u] = h]
  BY CheckFloorDoes DEF CheckFloor
<1>. QED  BY <1>3, <1>4, <1>5, QuietTurn

LEMMA CommitTransferFacts ==
  ASSUME TypeIInv, Facts, NEW u \in Users, CommitTransfer(u)
  PROVE  Facts' /\ Steady /\ Tame
<1>. PICK d : d = hand[u].doc
  OBVIOUS
<1>. PICK h : h = hand[u]
  OBVIOUS
<1>1. At(u, "post", {"transfer"}) /\ Ends(u) /\ UNCHANGED <<entries, booked, reversed>>
  BY DEF CommitTransfer
<1>2. d \in Docs /\ RowOK(d) /\ row[d].kind = "transfer" /\ row[d].status # "none"
  BY <1>1, PlanIs
<1>3. SameElse(d) /\ "link" \notin JustStatus /\ row[d].kind \in Simple
  BY <1>1, <1>2, PapersRest DEF JustStatus, Simple
<1>4. hand' = [hand EXCEPT ![u] = Idle] /\ disturbed \subseteq disturbed'
  BY <1>1, EndsQuietly
<1>5. Changes(d, JustStatus) /\ row'[d].status # "none"
  BY <1>2, CommitTransferDoes
<1>. QED  BY <1>2, <1>3, <1>4, <1>5, SimpleCommit

LEMMA ApproveAdjustmentFacts ==
  ASSUME TypeIInv, Facts, NEW d \in Docs, ApproveAdjustment(d)
  PROVE  Facts' /\ Steady /\ Tame
<1>1. row[d].kind = "adjustment" /\ UNCHANGED <<entries, booked, reversed, hand>> /\ RowOK(d)
      /\ disturbed \subseteq disturbed'
  BY DEF ApproveAdjustment, Facts, RowsOK
<1>2. Changes(d, JustStatus) /\ row'[d].status = "approved"
  BY ApproveAdjustmentDoes
<1>3. SameElse(d) /\ "link" \notin JustStatus /\ row[d].kind \in Simple
  BY <1>1, PapersRest DEF JustStatus, Simple
<1>4. Fine(d)
  BY <1>1, <1>2, <1>3, SimpleFine
<1>. QED  BY <1>1, <1>2, <1>3, <1>4, OneStatement

LEMMA CommitAdjustmentFacts ==
  ASSUME TypeIInv, Facts, NEW u \in Users, CommitAdjustment(u)
  PROVE  Facts' /\ Steady /\ Tame
<1>. PICK d : d = hand[u].doc
  OBVIOUS
<1>. PICK h : h = hand[u]
  OBVIOUS
<1>. PICK odd : EndsWith(u, odd)
  BY DEF CommitAdjustment
<1>1. At(u, "post", {"adjustment"})
  BY DEF CommitAdjustment
<1>2. d \in Docs /\ RowOK(d) /\ row[d].kind = "adjustment" /\ row[d].status # "none"
  BY <1>1, PlanIs
<1>3. SameElse(d) /\ "link" \notin JustStatus /\ row[d].kind \in Simple
  <2>1. (\E legs : Journal(d, legs)) \/ UNCHANGED <<entries, booked, reversed>>
    BY DEF CommitAdjustment
  <2>. QED  BY <1>2, <2>1, JournalSame, PapersRest DEF JustStatus, Simple, TypeIInv
<1>4. hand' = [hand EXCEPT ![u] = Idle] /\ disturbed \subseteq disturbed'
  BY EndsMarks
<1>5. Changes(d, JustStatus) /\ row'[d].status # "none"
  BY <1>2, CommitAdjustmentDoes
<1>. QED  BY <1>2, <1>3, <1>4, <1>5, SimpleCommit

LEMMA InventoryFacts ==
  ASSUME TypeIInv, Facts, InventoryStep
  PROVE  Facts' /\ Steady /\ Tame
<1>1. ASSUME NEW d \in Docs, CreateAdjustment(d)  PROVE Facts' /\ Steady /\ Tame
  <2>. PICK n \in 0..(MaxQty + 1) :
         Creates(d, {"adjustment"}, [status |-> "draft", mark |-> stock["raw"][Main], actual |-> n])
    BY <1>1 DEF CreateAdjustment
  <2>. PICK m : m = stock["raw"][Main]
    OBVIOUS
  <2>. PICK new : new = [status |-> "draft", mark |-> m, actual |-> n]
    OBVIOUS
  <2>1. /\ DOMAIN new = {"status", "mark", "actual"} /\ new.status = "draft" /\ new.mark = m /\ new.actual = n
        /\ row[d].kind = "adjustment" /\ Creates(d, {"adjustment"}, new)
    BY DEF Creates
  <2>2. m \in Int /\ n \in Int
    BY BooksAssumption DEF TypeIInv, GoodsOK, Warehouses, Products, BooksAssumption
  <2>3. Columned(new)
    BY <2>1, <2>2 DEF Columned, Columns, Status
  <2>4. Fits("adjustment", new)
    BY <2>1 DEF Fits, Deals, Invoices, Bills, Slips
  <2>. QED  BY <2>1, <2>3, <2>4, CreatesFacts
<1>2. ASSUME NEW d \in Docs, ApproveAdjustment(d)  PROVE Facts' /\ Steady /\ Tame
  BY <1>2, ApproveAdjustmentFacts
<1>3. ASSUME NEW u \in Users, NEW d \in Docs, CreateTransfer(u, d) \/ DeleteTransfer(u, d)
      PROVE  Facts' /\ Steady /\ Tame
  BY <1>3, CreateTransferFacts, DeleteTransferFacts
<1>4. ASSUME NEW u \in Users, CheckFloor(u) \/ CommitTransfer(u) \/ CommitAdjustment(u)
      PROVE  Facts' /\ Steady /\ Tame
  BY <1>4, CheckFloorFacts, CommitTransferFacts, CommitAdjustmentFacts
<1>. QED  BY <1>1, <1>2, <1>3, <1>4, InventoryPlans DEF InventoryStep

-----------------------------------------------------------------------------
LEMMA OrderFine ==
  ASSUME TypeIInv, NEW d \in Docs, RowOK(d), row[d].kind = "workOrder", row[d].status # "none",
         Changes(d, StatusMarkActual), SameElse(d), row'[d].status # "none", Exists(d)' => Exists(d),
         row'[d].status = "planned" => row'[d].mark = 0,
         row'[d].status = "in_progress" /\ d \notin disturbed' => row'[d].mark = row[d].qty
  PROVE  Fine(d)
<1>. row[d] \in Row /\ row'[d] \in Row
  BY DEF TypeIInv, PapersOK, Changes
<1>1. row'[d].kind = row[d].kind /\ row'[d].link = row[d].link /\ row'[d].qty = row[d].qty
  BY DEF Changes, Like, StatusMarkActual
<1>2. (FreshRow(d) /\ DealRow(d) /\ UnpaidRow(d) /\ LedgerRow(d) /\ SlipRow(d) /\ ShiftRow(d) /\ ProvisionRow(d))'
  BY <1>1 DEF FreshRow, DealRow, UnpaidRow, LedgerRow, SlipRow, ShiftRow, ProvisionRow, Deals, Invoices, Bills, Slips
<1>3. OrderRow(d)'
  BY <1>1 DEF OrderRow, RowOK
<1>4. LinkRow(d)'
  <2>1. CASE row[d].link = NoDoc
    BY <1>1, <2>1 DEF LinkRow
  <2>2. CASE row[d].link # NoDoc
    <3>1. row[d].link \in Docs /\ KindsStay
      BY <2>2, RowColumns, ChangesType DEF TypeIInv, PapersOK
    <3>. QED  BY <1>1, <2>2, <3>1 DEF RowOK, LinkRow, KindsStay, Slips, Deals, Invoices, Bills
  <2>. QED  BY <2>1, <2>2
<1>5. SteadyRow(d) /\ TameRow(d)
  BY <1>1 DEF SteadyRow, TameRow, Deals, Invoices, Bills, Offers
<1>. QED  BY <1>2, <1>3, <1>4, <1>5 DEF Fine, RowOK

LEMMA MarkWidens ==
  ASSUME NEW d, Changes(d, StatusMark)
  PROVE  Changes(d, StatusMarkActual)
BY DEF Changes, Like, StatusMark, StatusMarkActual

LEMMA CommitStartFacts ==
  ASSUME TypeIInv, Facts, NEW u \in Users, CommitStart(u)
  PROVE  Facts' /\ Steady /\ Tame
<1>. PICK d : d = hand[u].doc
  OBVIOUS
<1>. PICK h : h = hand[u]
  OBVIOUS
<1>1. At(u, "post", {"workOrder"}) /\ Ends(u)
  BY DEF CommitStart
<1>2. d \in Docs /\ RowOK(d) /\ row[d].kind = "workOrder" /\ row[d].status # "none" /\ row[d] \in Row
  BY <1>1, PlanIs
<1>3. SameElse(d)
  <2>1. \E legs : Journal(d, legs)
    BY DEF CommitStart
  <2>. QED  BY <1>2, <2>1, JournalSame DEF TypeIInv
<1>4. hand' = [hand EXCEPT ![u] = Idle] /\ disturbed \subseteq disturbed' /\ (row[d] # h.seen => d \in disturbed')
  BY <1>1, EndsQuietly
<1>5. /\ Changes(d, StatusMarkActual)
      /\ Exists(d) => row'[d].status = "in_progress" /\ row'[d].mark = h.seen.qty
      /\ ~Exists(d) => row' = row
  BY CommitStartDoes, MarkWidens
<1>6. CASE Exists(d)
  <2>1. row'[d].status # "none" /\ row'[d].status # "planned"
        /\ (d \notin disturbed' => row'[d].mark = row[d].qty)
    BY <1>4, <1>5, <1>6
  <2>2. Fine(d)
    BY <1>2, <1>3, <1>5, <1>6, <2>1, OrderFine
  <2>. QED  BY <1>2, <1>3, <1>4, <1>5, <2>2, OneCommit
<1>7. CASE ~Exists(d)
  <2>1. row'[d] = row[d] /\ row[d].status = "gone" /\ ~Exists(d)'
    BY <1>2, <1>5, <1>7 DEF Exists
  <2>2. Fine(d)
    BY <1>2, <1>3, <1>5, <2>1, OrderFine
  <2>. QED  BY <1>2, <1>3, <1>4, <1>5, <2>2, OneCommit
<1>. QED  BY <1>6, <1>7

LEMMA CommitCompleteFacts ==
  ASSUME TypeIInv, Facts, NEW u \in Users, CommitComplete(u) \/ CommitCancel(u)
  PROVE  Facts' /\ Steady /\ Tame
<1>. PICK d : d = hand[u].doc
  OBVIOUS
<1>. PICK h : h = hand[u]
  OBVIOUS
<1>. PICK op \in {"complete", "cancel"} : At(u, op, {"workOrder"})
  BY DEF CommitComplete, CommitCancel
<1>1. Ends(u)
  BY DEF CommitComplete, CommitCancel
<1>2. d \in Docs /\ RowOK(d) /\ row[d].kind = "workOrder" /\ row[d].status # "none" /\ row[d] \in Row
  BY PlanIs
<1>3. SameElse(d)
  <2>1. (\E legs : Journal(d, legs)) \/ UNCHANGED <<entries, booked, reversed>>
    BY DEF CommitComplete, CommitCancel
  <2>. QED  BY <1>2, <2>1, JournalSame, PapersRest DEF TypeIInv
<1>4. hand' = [hand EXCEPT ![u] = Idle] /\ disturbed \subseteq disturbed'
  BY <1>1, EndsQuietly
<1>5. /\ Changes(d, StatusMarkActual)
      /\ Exists(d) => row'[d].status \in {"completed", "cancelled"}
      /\ ~Exists(d) => row' = row
  BY CommitCompleteDoes, CommitCancelDoes, MarkWidens
<1>6. CASE Exists(d)
  <2>1. row'[d].status \notin {"none", "planned", "in_progress"}
    BY <1>5, <1>6
  <2>2. Fine(d)
    BY <1>2, <1>3, <1>5, <1>6, <2>1, OrderFine
  <2>. QED  BY <1>2, <1>3, <1>4, <1>5, <2>2, OneCommit
<1>7. CASE ~Exists(d)
  <2>1. row'[d] = row[d] /\ row[d].status = "gone" /\ ~Exists(d)'
    BY <1>2, <1>5, <1>7 DEF Exists
  <2>2. Fine(d)
    BY <1>2, <1>3, <1>5, <2>1, OrderFine
  <2>. QED  BY <1>2, <1>3, <1>4, <1>5, <2>2, OneCommit
<1>. QED  BY <1>6, <1>7

LEMMA ManufacturingFacts ==
  ASSUME TypeIInv, Facts, ManufacturingStep
  PROVE  Facts' /\ Steady /\ Tame
<1>1. ASSUME NEW d \in Docs, CreateWorkOrder(d)  PROVE Facts' /\ Steady /\ Tame
  <2>. PICK q \in 1..MaxQty : Creates(d, {"workOrder"}, [status |-> "planned", qty |-> q])
    BY <1>1 DEF CreateWorkOrder
  <2>. PICK new : new = [status |-> "planned", qty |-> q]
    OBVIOUS
  <2>1. /\ DOMAIN new = {"status", "qty"} /\ new.status = "planned" /\ new.qty = q
        /\ row[d].kind = "workOrder" /\ Creates(d, {"workOrder"}, new)
    BY DEF Creates
  <2>2. Columned(new)
    BY <2>1 DEF Columned, Columns, Status
  <2>3. Fits("workOrder", new)
    BY <2>1 DEF Fits, Deals, Invoices, Bills, Slips
  <2>. QED  BY <2>1, <2>2, <2>3, CreatesFacts
<1>2. ASSUME NEW d \in Docs, ReopenWorkOrder(d)  PROVE Facts' /\ Steady /\ Tame
  <2>1. /\ row[d].kind = "workOrder" /\ Exists(d) /\ RowOK(d)
        /\ UNCHANGED <<entries, booked, reversed, hand>> /\ disturbed \subseteq disturbed'
    BY <1>2 DEF ReopenWorkOrder, Facts, RowsOK
  <2>2. Changes(d, StatusMarkActual) /\ row'[d].status = "planned" /\ row'[d].mark = 0
    BY <1>2, ReopenWorkOrderDoes
  <2>3. row[d].status # "none" /\ SameElse(d)
    BY <2>1, PapersRest DEF Exists
  <2>4. Fine(d)
    BY <2>1, <2>2, <2>3, OrderFine
  <2>. QED  BY <2>1, <2>2, <2>3, <2>4, OneStatement
<1>3. ASSUME NEW u \in Users, CommitStart(u) \/ CommitComplete(u) \/ CommitCancel(u)
      PROVE  Facts' /\ Steady /\ Tame
  BY <1>3, CommitStartFacts, CommitCompleteFacts
<1>. QED  BY <1>1, <1>2, <1>3, ManufacturingPlans DEF ManufacturingStep

-----------------------------------------------------------------------------
LEMMA CommitCheckoutFacts ==
  ASSUME TypeIInv, Facts, NEW u \in Users, CommitCheckout(u)
  PROVE  Facts' /\ Steady /\ Tame
<1>. PICK d : d = hand[u].doc
  OBVIOUS
<1>. PICK h : h = hand[u]
  OBVIOUS
<1>1. At(u, "new", {"ticket"}) /\ Ends(u) /\ row[h.want.link].status = "open"
  BY DEF CommitCheckout, Drawer
<1>2. /\ d \in Docs /\ RowOK(d) /\ row[d].kind = "ticket" /\ h.seen.kind = "ticket" /\ PlanOK(h)
      /\ Equipped("new", h.seen.kind, h.want) /\ Columned(h.want)
  BY <1>1, PlanIs
<1>3. SameElse(d)
  <2>1. \E legs : Journal(d, legs)
    BY DEF CommitCheckout
  <2>. QED  BY <1>2, <2>1, JournalSame DEF TypeIInv
<1>4. hand' = [hand EXCEPT ![u] = Idle] /\ disturbed \subseteq disturbed'
  BY <1>1, EndsQuietly
<1>5. /\ Changes(d, Columns) /\ Wrote(row'[d], row[d], h.want) /\ row'[d].status \in {"paid", "posted"}
  BY CommitCheckoutDoes
<1>6. /\ "link" \in DOMAIN h.want /\ row'[d].link = h.want.link /\ row'[d].kind = "ticket"
      /\ row'[d].link \in Docs \cup {NoDoc} /\ (h.want.link # NoDoc => row[h.want.link].kind = "shift")
  BY <1>2, <1>5, RowColumns DEF Equipped, Wrote, Changes, Like, PlanOK, Named
<1>7. KindsStay
  BY <1>2, <1>5, ChangesType DEF TypeIInv, PapersOK
<1>8. RowOK(d)'
  <2>1. (FreshRow(d) /\ DealRow(d) /\ UnpaidRow(d))'
    BY <1>5, <1>6 DEF FreshRow, DealRow, UnpaidRow, Deals, Invoices, Bills
  <2>2. (SlipRow(d) /\ OrderRow(d) /\ ShiftRow(d) /\ LedgerRow(d) /\ ProvisionRow(d))'
    BY <1>6 DEF SlipRow, OrderRow, ShiftRow, LedgerRow, ProvisionRow, Slips
  <2>3. LinkRow(d)'
    BY <1>6, <1>7 DEF LinkRow, KindsStay, Slips, Offers
  <2>. QED  BY <2>1, <2>2, <2>3 DEF RowOK
<1>9. SteadyRow(d) /\ TameRow(d)
  BY <1>1, <1>2, <1>5, <1>6 DEF SteadyRow, TameRow, Deals, Invoices, Bills, Offers
<1>10. Fine(d)
  BY <1>8, <1>9 DEF Fine
<1>. QED  BY <1>2, <1>3, <1>4, <1>5, <1>10, OneCommit

(* The session goes on to look up the difference of the shift it closed.   *)
LEMMA CommitCloseFacts ==
  ASSUME TypeIInv, Facts, NEW u \in Users, CommitClose(u)
  PROVE  Facts' /\ Steady /\ Tame
<1>. PICK d : d = hand[u].doc
  OBVIOUS
<1>. PICK g : g = hand[u]
  OBVIOUS
<1>. PICK h : h = [g EXCEPT !.op = "lookup"]
  OBVIOUS
<1>1. At(u, "close", {"shift"}) /\ UNCHANGED <<entries, booked, reversed, disturbed>>
      /\ hand' = [hand EXCEPT ![u] = h]
  BY DEF CommitClose
<1>2. /\ d \in Docs /\ RowOK(d) /\ row[d] \in Row /\ row[d].kind = "shift" /\ g.seen.kind = "shift" /\ PlanOK(g)
      /\ Equipped("close", g.seen.kind, g.want) /\ g.doc = d
  BY <1>1, PlanIs
<1>3. h.op = "lookup" /\ h.doc = g.doc /\ h.seen = g.seen /\ h.want = g.want
  BY DEF TypeIInv, HandsOK, PlanOf
<1>4. SameElse(d) /\ disturbed \subseteq disturbed'
  BY <1>1, PapersRest
<1>5. /\ Changes(d, Columns) /\ row[d].status = "open" /\ row'[d].status = "closed" /\ Wrote(row'[d], row[d], g.want)
  BY CommitCloseDoes
<1>6. /\ "link" \notin DOMAIN g.want /\ {"mark", "actual"} \subseteq DOMAIN g.want
      /\ ("status" \in DOMAIN g.want => g.want.status # "none")
  BY <1>2 DEF PlanOK, Named, Slips, Equipped
<1>7. /\ row'[d].link = row[d].link /\ row'[d].kind = "shift" /\ row[d].link \in Docs \cup {NoDoc}
      /\ row'[d].mark = g.want.mark /\ row'[d].actual = g.want.actual
  BY <1>2, <1>5, <1>6, RowColumns DEF Wrote, Changes, Like
<1>8. KindsStay
  BY <1>2, <1>5, ChangesType DEF TypeIInv, PapersOK
<1>9. RowOK(d)'
  <2>1. (FreshRow(d) /\ DealRow(d) /\ UnpaidRow(d))'
    BY <1>5, <1>7 DEF FreshRow, DealRow, UnpaidRow, Deals, Invoices, Bills
  <2>2. (SlipRow(d) /\ OrderRow(d) /\ ShiftRow(d) /\ LedgerRow(d) /\ ProvisionRow(d))'
    BY <1>5, <1>7 DEF SlipRow, OrderRow, ShiftRow, LedgerRow, ProvisionRow, Slips
  <2>3. LinkRow(d)'
    BY <1>2, <1>7, <1>8 DEF RowOK, LinkRow, KindsStay, Slips, Offers, Deals, Invoices, Bills
  <2>. QED  BY <2>1, <2>2, <2>3 DEF RowOK
<1>10. SteadyRow(d) /\ TameRow(d)
  BY <1>2, <1>5, <1>7 DEF SteadyRow, TameRow, Deals, Invoices, Bills, Offers
<1>11. Fine(d)
  BY <1>9, <1>10 DEF Fine
<1>12. PlanOK(h)'
  <2>1. Begun(h)' /\ Named(h)' /\ Counted(h)'
    BY <1>2, <1>3, <1>5, <1>6, <1>7 DEF Begun, Named, Counted
  <2>. QED  BY <1>3, <2>1 DEF PlanOK, Offered, Drafted, Renewed, Undone, Finished, Meant
<1>. QED  BY <1>1, <1>2, <1>3, <1>4, <1>5, <1>11, <1>12, OneTurn

LEMMA LookUpFacts ==
  ASSUME TypeIInv, Facts, NEW u \in Users, LookUpDifference(u)
  PROVE  Facts' /\ Steady /\ Tame
<1>. PICK g : g = hand[u]
  OBVIOUS
<1>. PICK h : h = [g EXCEPT !.op = "entry"]
  OBVIOUS
<1>1. At(u, "lookup", {"shift"}) /\ Quiet
  BY LookUpDoes DEF LookUpDifference
<1>2. PlanOK(g) /\ g.op = "lookup"
  BY <1>1, PlanIs
<1>3. h.op = "entry" /\ h.doc = g.doc /\ h.seen = g.seen /\ h.want = g.want
  BY DEF TypeIInv, HandsOK, PlanOf
<1>4. PlanOK(h)
  <2>1. Begun(h) /\ Named(h) /\ Counted(h)
    BY <1>2, <1>3 DEF PlanOK, Begun, Named, Counted
  <2>. QED  BY <1>3, <2>1 DEF PlanOK, Offered, Drafted, Renewed, Undone, Finished, Meant
<1>5. CASE hand' = [hand EXCEPT ![u] = h]
  BY <1>1, <1>3, <1>4, <1>5, QuietTurn
<1>6. CASE hand' = [hand EXCEPT ![u] = Idle]
  <2>1. PlanOK(Idle) /\ Idle.op = "idle"
    BY IdlePlanOK DEF Idle
  <2>. QED  BY <1>1, <1>6, <2>1, QuietTurn
<1>. QED  BY <1>5, <1>6 DEF LookUpDifference

LEMMA BookDifferenceFacts ==
  ASSUME TypeIInv, Facts, NEW u \in Users, BookDifference(u)
  PROVE  Facts' /\ Steady /\ Tame
<1>. PICK d : d = hand[u].doc
  OBVIOUS
<1>. PICK h : h = hand[u]
  OBVIOUS
<1>1. At(u, "entry", {"shift"}) /\ hand' = [hand EXCEPT ![u] = Idle] /\ row' = row /\ disturbed' = disturbed
      /\ \E legs : Journal(d, legs)
  BY DEF BookDifference
<1>2. d \in Docs /\ RowOK(d) /\ row[d].kind = "shift" /\ PlanOK(h) /\ h.op = "entry" /\ h.doc = d
  BY <1>1, PlanIs
<1>3. row[d].status = "closed"
  BY <1>2 DEF PlanOK, Counted
<1>4. SameElse(d) /\ Changes(d, JustStatus)
  BY <1>1, <1>2, JournalSame, StaysDoes DEF TypeIInv, PapersOK
<1>5. Fine(d)
  <2>1. (FreshRow(d) /\ DealRow(d) /\ UnpaidRow(d) /\ SlipRow(d) /\ OrderRow(d))'
    BY <1>1, <1>2, <1>3 DEF FreshRow, DealRow, UnpaidRow, SlipRow, OrderRow, Slips, Deals, Invoices, Bills
  <2>2. (ShiftRow(d) /\ LedgerRow(d) /\ ProvisionRow(d) /\ LinkRow(d))'
    BY <1>1, <1>2, <1>3 DEF RowOK, ShiftRow, LedgerRow, ProvisionRow, LinkRow
  <2>3. SteadyRow(d) /\ TameRow(d)
    BY <1>1, <1>2 DEF SteadyRow, TameRow, Offers, Deals, Invoices, Bills
  <2>. QED  BY <2>1, <2>2, <2>3 DEF Fine, RowOK
<1>. QED  BY <1>1, <1>2, <1>4, <1>5, OneCommit

LEMMA TillFacts ==
  ASSUME TypeIInv, Facts, TillStep
  PROVE  Facts' /\ Steady /\ Tame
<1>1. ASSUME NEW d \in Docs, OpenShift(d)  PROVE Facts' /\ Steady /\ Tame
  <2>. PICK n \in {0, 1} : Creates(d, {"shift"}, [status |-> "open", qty |-> n])
    BY <1>1 DEF OpenShift
  <2>. PICK new : new = [status |-> "open", qty |-> n]
    OBVIOUS
  <2>1. /\ DOMAIN new = {"status", "qty"} /\ new.status = "open" /\ new.qty = n
        /\ row[d].kind = "shift" /\ Creates(d, {"shift"}, new)
    BY DEF Creates
  <2>2. Columned(new)
    BY <2>1 DEF Columned, Columns, Status
  <2>3. Fits("shift", new)
    BY <2>1 DEF Fits, Deals, Invoices, Bills, Slips
  <2>. QED  BY <2>1, <2>2, <2>3, CreatesFacts
<1>2. ASSUME NEW u \in Users, CommitCheckout(u) \/ CommitClose(u) \/ LookUpDifference(u) \/ BookDifference(u)
      PROVE  Facts' /\ Steady /\ Tame
  BY <1>2, CommitCheckoutFacts, CommitCloseFacts, LookUpFacts, BookDifferenceFacts
<1>. QED  BY <1>1, <1>2, TillPlans DEF TillStep

-----------------------------------------------------------------------------
(* Conversions: a claim, an invoice, a release. *)
LEMMA OneClaim ==
  ASSUME TypeIInv, Facts, NEW d \in Docs, NEW cols, Changes(d, cols),
         UNCHANGED <<entries, booked, reversed, disturbed>>, RowOK(d)', SteadyRow(d)
  PROVE  RowsOK' /\ Steady /\ KindsStay
<1>. row \in [Docs -> Row]
  BY DEF TypeIInv, PapersOK
<1>1. KindsStay /\ \A x \in Docs \ {d} : row'[x] = row[x]
  BY ChangesType
<1>2. ASSUME NEW x \in Docs  PROVE RowOK(x)' /\ SteadyRow(x)
  <2>1. CASE x = d
    BY <2>1
  <2>2. CASE x # d
    <3>1. row'[x] = row[x] /\ RowOK(x)
      BY <1>1, <2>2 DEF Facts, RowsOK
    <3>2. Fine(x)
      BY <1>1, <3>1, RowStays
    <3>. QED  BY <3>2 DEF Fine
  <2>. QED  BY <2>1, <2>2
<1>. QED  BY <1>1, <1>2 DEF RowsOK, Steady

LEMMA OfferRow ==
  ASSUME TypeIInv, NEW d \in Docs, RowOK(d), row[d].kind \in Offers, Changes(d, JustStatus), row'[d].status # "none"
  PROVE  RowOK(d)' /\ SteadyRow(d)
<1>. row[d] \in Row /\ row[d].link \in Docs \cup {NoDoc}
  BY RowColumns DEF TypeIInv, PapersOK
<1>1. row'[d].kind = row[d].kind /\ row'[d].link = row[d].link /\ KindsStay
  BY ChangesType DEF Changes, Like, JustStatus, TypeIInv, PapersOK
<1>2. (FreshRow(d) /\ DealRow(d) /\ UnpaidRow(d) /\ SlipRow(d) /\ OrderRow(d))'
  BY <1>1 DEF FreshRow, DealRow, UnpaidRow, SlipRow, OrderRow, Offers, Slips, Deals, Invoices, Bills
<1>3. (ShiftRow(d) /\ LedgerRow(d) /\ ProvisionRow(d))'
  BY <1>1 DEF ShiftRow, LedgerRow, ProvisionRow, Offers
<1>4. LinkRow(d)'
  BY <1>1 DEF RowOK, LinkRow, KindsStay, Offers, Slips, Deals, Invoices, Bills
<1>5. SteadyRow(d)
  BY <1>1 DEF SteadyRow, Offers
<1>. QED  BY <1>2, <1>3, <1>4, <1>5 DEF RowOK

(* The plan of a claim is carried along. *)
LEMMA ClaimGoesOn ==
  ASSUME NEW g, NEW h, PlanOK(g), g.op \in {"claim", "claimed", "release"}, h.op \in {"claimed", "release"},
         h.doc = g.doc, h.seen = g.seen, h.want = g.want
  PROVE  PlanOK(h)
<1>1. Begun(h) /\ Named(h) /\ Offered(h)
  BY DEF PlanOK, Begun, Named, Offered
<1>. QED  BY <1>1 DEF PlanOK, Drafted, Renewed, Undone, Finished, Counted, Meant

LEMMA ClaimGoesOnNext ==
  ASSUME NEW g, NEW h, PlanOK(g)', g.op \in {"claim", "claimed", "release"}, h.op \in {"claimed", "release"},
         h.doc = g.doc, h.seen = g.seen, h.want = g.want
  PROVE  PlanOK(h)'
<1>1. Begun(h)' /\ Named(h)' /\ Offered(h)'
  BY DEF PlanOK, Begun, Named, Offered
<1>. QED  BY <1>1 DEF PlanOK, Drafted, Renewed, Undone, Finished, Counted, Meant

LEMMA ClaimOfferFacts ==
  ASSUME TypeIInv, Facts, NEW u \in Users, ClaimOffer(u)
  PROVE  Facts' /\ Steady
<1>. PICK d : d = hand[u].doc
  OBVIOUS
<1>. PICK g : g = hand[u]
  OBVIOUS
<1>. PICK h : h = [g EXCEPT !.op = "claimed"]
  OBVIOUS
<1>1. At(u, "claim", Offers) /\ UNCHANGED <<entries, booked, reversed, disturbed>>
      /\ hand' = [hand EXCEPT ![u] = h]
  BY DEF ClaimOffer
<1>2. d \in Docs /\ RowOK(d) /\ row[d].kind \in Offers /\ PlanOK(g) /\ g.op = "claim"
  BY <1>1, PlanIs
<1>3. PlanOf(g) /\ Placed(g, row) /\ h.op = "claimed" /\ h.doc = g.doc /\ h.seen = g.seen /\ h.want = g.want
  BY DEF TypeIInv, HandsOK, PlanOf
<1>4. Changes(d, JustStatus) /\ row'[d].status = "converted"
  BY ClaimOfferDoes
<1>5. RowOK(d)' /\ SteadyRow(d)
  BY <1>2, <1>4, OfferRow
<1>6. RowsOK' /\ Steady /\ KindsStay
  BY <1>1, <1>2, <1>4, <1>5, OneClaim
<1>7. PlanOK(g)'
  BY <1>1, <1>2, <1>3, <1>6, PlanStays
<1>8. PlanOK(h)'
  BY <1>2, <1>3, <1>7, ClaimGoesOnNext
<1>9. PlansOK'
  BY <1>1, <1>6, <1>8, PlansTurn
<1>. QED  BY <1>6, <1>9 DEF Facts

LEMMA ClaimEndsFacts ==
  ASSUME TypeIInv, Facts, NEW u \in Users, NumberFails(u) \/ CreateFails(u) \/ ReleaseFails(u)
  PROVE  Facts' /\ Steady
<1>1. Quiet
  BY ClaimEndsDoes
<1>2. CASE CreateFails(u)
  <2>. PICK g : g = hand[u]
    OBVIOUS
  <2>. PICK h : h = [g EXCEPT !.op = "release"]
    OBVIOUS
  <2>1. At(u, "claimed", Offers) /\ hand' = [hand EXCEPT ![u] = h]
    BY <1>2 DEF CreateFails
  <2>2. PlanOK(g) /\ g.op = "claimed"
    BY <2>1, PlanIs
  <2>3. h.op = "release" /\ h.doc = g.doc /\ h.seen = g.seen /\ h.want = g.want
    BY DEF TypeIInv, HandsOK, PlanOf
  <2>4. PlanOK(h)
    BY <2>2, <2>3, ClaimGoesOn
  <2>. QED  BY <1>1, <2>1, <2>4, QuietTurn
<1>3. CASE NumberFails(u) \/ ReleaseFails(u)
  <2>1. hand' = [hand EXCEPT ![u] = Idle]
    BY <1>3 DEF NumberFails, ReleaseFails
  <2>. QED  BY <1>1, <2>1, IdlePlanOK, QuietTurn
<1>. QED  BY <1>2, <1>3

LEMMA CreationFacts ==
  ASSUME TypeIInv, Facts, NEW u \in Users, NEW i \in Docs, NEW lost \in BOOLEAN, Creation(u, i, lost)
  PROVE  Facts' /\ Steady
<1>. PICK d : d = hand[u].doc
  OBVIOUS
<1>. PICK g : g = hand[u]
  OBVIOUS
<1>. PICK h : h = [g EXCEPT !.op = "release"]
  OBVIOUS
<1>1. /\ At(u, "claimed", Offers) /\ UNCHANGED <<entries, booked, reversed, disturbed>>
      /\ row[i].kind \in Becomes(row[d].kind) /\ row[i].status = "none"
      /\ hand' = [hand EXCEPT ![u] = h] \/ hand' = [hand EXCEPT ![u] = Idle]
  BY DEF Creation
<1>2. d \in Docs /\ row[d].kind \in Offers /\ PlanOK(g) /\ g.op = "claimed" /\ RowOK(i)
  BY <1>1, PlanIs DEF Facts, RowsOK
<1>3. PlanOf(g) /\ Placed(g, row) /\ h.op = "release" /\ h.doc = g.doc /\ h.seen = g.seen /\ h.want = g.want
  BY DEF TypeIInv, HandsOK, PlanOf
<1>4. Changes(i, StatusLinkQty) /\ row'[i].status = "draft"
  BY CreationType
<1>5. row'[i].kind = row[i].kind /\ row[i].kind \in Deals /\ row'[i].paid = row[i].paid /\ row[i].paid = 0
  BY <1>1, <1>2, <1>4, UnsettledIs DEF Becomes, Deals, Invoices, Bills, Changes, Like, StatusLinkQty
<1>6. RowOK(i)' /\ SteadyRow(i)
  <2>1. (FreshRow(i) /\ DealRow(i) /\ UnpaidRow(i))'
    BY <1>4, <1>5 DEF FreshRow, DealRow, UnpaidRow
  <2>2. (SlipRow(i) /\ OrderRow(i) /\ ShiftRow(i) /\ LedgerRow(i) /\ ProvisionRow(i) /\ LinkRow(i))'
    BY <1>5 DEF SlipRow, OrderRow, ShiftRow, LedgerRow, ProvisionRow, LinkRow, Slips, Deals, Invoices, Bills
  <2>3. SteadyRow(i)
    BY <1>4, <1>5 DEF SteadyRow, Deals, Invoices, Bills
  <2>. QED  BY <2>1, <2>2, <2>3 DEF RowOK
<1>7. RowsOK' /\ Steady /\ KindsStay
  BY <1>1, <1>4, <1>6, OneClaim
<1>8. PlanOK(h)'
  <2>1. PlanOK(g)'
    BY <1>1, <1>2, <1>3, <1>7, PlanStays
  <2>. QED  BY <1>2, <1>3, <2>1, ClaimGoesOnNext
<1>9. PlansOK'
  BY <1>1, <1>7, <1>8, IdlePlanOK, PlansTurn
<1>. QED  BY <1>7, <1>9 DEF Facts

LEMMA ReleaseOfferFacts ==
  ASSUME TypeIInv, Facts, NEW u \in Users, ReleaseOffer(u)
  PROVE  Facts' /\ Steady
<1>. PICK d : d = hand[u].doc
  OBVIOUS
<1>. PICK g : g = hand[u]
  OBVIOUS
<1>1. At(u, "release", Offers) /\ UNCHANGED <<entries, booked, reversed, disturbed>>
      /\ hand' = [hand EXCEPT ![u] = Idle]
  BY DEF ReleaseOffer
<1>2. d \in Docs /\ RowOK(d) /\ row[d].kind \in Offers /\ PlanOK(g) /\ g.op = "release" /\ row[d].status # "none"
  BY <1>1, PlanIs
<1>3. g.seen.status # "none"
  BY <1>2 DEF PlanOK, Offered, Convertible
<1>4. Changes(d, JustStatus) /\ row'[d].status # "none"
  BY <1>2, <1>3, ReleaseOfferDoes
<1>5. RowOK(d)' /\ SteadyRow(d)
  BY <1>2, <1>4, OfferRow
<1>6. RowsOK' /\ Steady /\ KindsStay
  BY <1>1, <1>2, <1>4, <1>5, OneClaim
<1>7. PlansOK'
  BY <1>1, <1>6, IdlePlanOK, PlansTurn
<1>. QED  BY <1>6, <1>7 DEF Facts

(* What turns an offer into an invoice. *)
Claims(u) ==
  \/ ClaimOffer(u) \/ NumberFails(u) \/ CreateConverted(u) \/ CreateFails(u)
  \/ ReleaseOffer(u) \/ ReleaseFails(u)

LEMMA ConversionFacts ==
  ASSUME TypeIInv, Facts, ConversionStep
  PROVE  Facts' /\ Steady /\ (Tame \/ \E u \in Users : Claims(u))
<1>1. ASSUME NEW d \in Docs, CreateOffer(d)  PROVE Facts' /\ Steady /\ Tame
  BY <1>1, DraftsFacts DEF CreateOffer, Offers
<1>2. ASSUME NEW u \in Users, Claims(u)  PROVE Facts' /\ Steady
  BY <1>2, ClaimOfferFacts, ClaimEndsFacts, CreateConvertedIs, CreationFacts, ReleaseOfferFacts DEF Claims
<1>. QED  BY <1>1, <1>2, ConversionPlans DEF ConversionStep, Claims

-----------------------------------------------------------------------------
LEMMA CommitsPeriodFacts ==
  ASSUME TypeIInv, Facts, NEW u \in Users, CommitsPeriod(u)
  PROVE  Facts' /\ Steady /\ Tame
<1>. PICK d : d = hand[u].doc
  OBVIOUS
<1>. PICK h : h = hand[u]
  OBVIOUS
<1>. PICK op \in {"close", "year", "reopen"} : At(u, op, {"half", "year"})
  BY DEF CommitsPeriod, CommitPeriod, CommitFiscalYear, CommitReopen, At
<1>1. Ends(u) /\ UNCHANGED <<entries, booked, reversed>>
  BY DEF CommitsPeriod, CommitPeriod, CommitFiscalYear, CommitReopen
<1>2. /\ d \in Docs /\ RowOK(d) /\ row[d].kind \in {"half", "year"} /\ row[d].status # "none"
      /\ Columned(h.want) /\ Equipped(op, h.seen.kind, h.want) /\ PlanOK(h) /\ row \in [Docs -> Row]
      /\ h.seen.kind \in {"half", "year"}
  BY PlanIs DEF TypeIInv, PapersOK
<1>3. SameElse(d) /\ "link" \notin JustStatus /\ row[d].kind \in Simple
  BY <1>1, <1>2, PapersRest DEF JustStatus, Simple
<1>4. hand' = [hand EXCEPT ![u] = Idle] /\ disturbed \subseteq disturbed'
  BY <1>1, EndsQuietly
<1>5. Changes(d, JustStatus) /\ row'[d].status # "none"
  <2>1. Changes(d, JustStatus)
    BY CommitsPeriodDoes
  <2>2. CASE CommitPeriod(u)
    <3>1. op = "close" /\ row' = Flipped(d, {"open"}, h.want.status)
      BY <2>2 DEF CommitPeriod, At
    <3>2. "status" \in DOMAIN h.want /\ h.want.status \in Status /\ h.want.status # "none"
      BY <1>2, <3>1 DEF Equipped, Columned, PlanOK, Named
    <3>. QED  BY <1>2, <2>1, <3>1, <3>2, FlipDoes
  <2>3. CASE CommitFiscalYear(u)
    BY <1>2, <2>1, <2>3 DEF CommitFiscalYear, Uniques
  <2>4. CASE CommitReopen(u)
    BY <1>2, <2>1, <2>4, StatusDoes DEF CommitReopen, Status
  <2>. QED  BY <2>1, <2>2, <2>3, <2>4 DEF CommitsPeriod
<1>. QED  BY <1>2, <1>3, <1>4, <1>5, SimpleCommit

LEMMA OpensFacts ==
  ASSUME TypeIInv, Facts, NEW d \in Docs, NEW k \in {"year", "half", "taxPeriod"},
         Creates(d, {k}, [status |-> "open"])
  PROVE  Facts' /\ Steady /\ Tame
<1>. PICK new : new = [status |-> "open"]
  OBVIOUS
<1>1. DOMAIN new = {"status"} /\ new.status = "open" /\ row[d].kind = k /\ Creates(d, {k}, new)
  BY DEF Creates
<1>2. Columned(new)
  BY <1>1 DEF Columned, Columns, Status
<1>3. Fits(k, new)
  BY <1>1 DEF Fits, Deals, Invoices, Bills, Slips
<1>. QED  BY <1>1, <1>2, <1>3, CreatesFacts

LEMMA PeriodsFacts ==
  ASSUME TypeIInv, Facts, PeriodsStep
  PROVE  Facts' /\ Steady /\ Tame
<1>1. ASSUME NEW d \in Docs, OpenAccountingPeriod(d) \/ GenerateSubPeriods(d) \/ OpenTaxPeriod(d)
      PROVE  Facts' /\ Steady /\ Tame
  BY <1>1, OpensFacts DEF OpenAccountingPeriod, GenerateSubPeriods, OpenTaxPeriod
<1>2. ASSUME NEW u \in Users, CommitsPeriod(u)  PROVE Facts' /\ Steady /\ Tame
  BY <1>2, CommitsPeriodFacts
<1>. QED  BY <1>1, <1>2, PeriodsPlans DEF PeriodsStep, CommitsPeriod

-----------------------------------------------------------------------------

LEMMA UpdateHeaderFacts ==
  ASSUME TypeIInv, Facts, NEW u \in Users, UpdateHeader(u)
  PROVE  Facts' /\ Steady /\ Tame
<1>. PICK d : d = hand[u].doc
  OBVIOUS
<1>. PICK g : g = hand[u]
  OBVIOUS
<1>. PICK h : h = [g EXCEPT !.op = "lines"]
  OBVIOUS
<1>1. At(u, "header", {"journal"}) /\ UNCHANGED <<entries, booked, reversed, disturbed>>
  BY DEF UpdateHeader
<1>2. /\ d \in Docs /\ RowOK(d) /\ row[d].kind = "journal" /\ row[d].status # "none" /\ PlanOK(g) /\ g.doc = d
      /\ Columned(g.want) /\ Equipped("header", g.seen.kind, g.want) /\ row \in [Docs -> Row]
  BY <1>1, PlanIs DEF TypeIInv, PapersOK
<1>3. h.op = "lines" /\ h.doc = g.doc /\ h.seen = g.seen /\ h.want = g.want
  BY DEF TypeIInv, HandsOK, PlanOf
<1>4. /\ Changes(d, JustStatus) /\ row'[d].status # "none"
      /\ row'[d].status = "draft" => row[d].status = "draft"
  <2>1. CASE "qty" \in DOMAIN g.want
    BY <1>2, <2>1, StaysDoes DEF UpdateHeader
  <2>2. CASE "qty" \notin DOMAIN g.want
    <3>1. "status" \in DOMAIN g.want /\ g.want.status \in Status /\ g.want.status # "none"
      BY <1>2, <2>2 DEF Equipped, Columned, PlanOK, Named
    <3>2. row' = Flipped(d, {"draft"}, g.want.status)
      BY <2>2 DEF UpdateHeader
    <3>. QED  BY <1>2, <3>1, <3>2, FlipDoes
  <2>. QED  BY <2>1, <2>2
<1>5. SameElse(d) /\ "link" \notin JustStatus /\ row[d].kind \in Simple
  BY <1>1, <1>2, PapersRest DEF JustStatus, Simple
<1>6. Fine(d)
  BY <1>1, <1>2, <1>4, <1>5, SimpleFine
<1>7. hand' = [hand EXCEPT ![u] = h] \/ hand' = [hand EXCEPT ![u] = Idle]
  BY DEF UpdateHeader
<1>8. CASE hand' = [hand EXCEPT ![u] = Idle]
  BY <1>1, <1>2, <1>4, <1>5, <1>6, <1>8, OneCommit
<1>9. CASE hand' = [hand EXCEPT ![u] = h]
  <2>1. KindsStay
    BY <1>2, <1>4, ChangesType
  <2>2. Begun(h)' /\ Named(h)'
    <3>1. "link" \in DOMAIN g.want => g.seen.kind \in Slips \cup {"ticket"}
      BY <1>2 DEF PlanOK, Named
    <3>2. g.seen.kind = "journal"
      BY <1>1 DEF At
    <3>3. "link" \notin DOMAIN g.want
      BY <3>1, <3>2 DEF Slips
    <3>. QED  BY <1>2, <1>3, <1>4, <3>3 DEF PlanOK, Begun, Named
  <2>3. PlanOK(h)'
    BY <1>3, <2>2 DEF PlanOK, Offered, Drafted, Renewed, Undone, Finished, Counted, Meant
  <2>. QED  BY <1>1, <1>2, <1>3, <1>4, <1>5, <1>6, <1>9, <2>3, OneTurn
<1>. QED  BY <1>7, <1>8, <1>9

LEMMA LinesFacts ==
  ASSUME TypeIInv, Facts, NEW u \in Users, DeleteLines(u) \/ InsertLines(u)
  PROVE  Facts' /\ Steady /\ Tame
<1>. PICK d : d = hand[u].doc
  OBVIOUS
<1>. PICK g : g = hand[u]
  OBVIOUS
<1>. PICK h : h = [g EXCEPT !.op = "insert"]
  OBVIOUS
<1>. PICK op \in {"lines", "insert"} : At(u, op, {"journal"})
  BY DEF DeleteLines, InsertLines
<1>1. UNCHANGED <<entries, booked, reversed>> /\ disturbed \subseteq disturbed'
  BY DEF DeleteLines, InsertLines, Lays
<1>2. d \in Docs /\ RowOK(d) /\ row[d].kind = "journal" /\ row[d].status # "none" /\ PlanOK(g) /\ g.doc = d
  BY PlanIs
<1>3. h.op = "insert" /\ h.doc = g.doc /\ h.seen = g.seen /\ h.want = g.want
  BY DEF TypeIInv, HandsOK, PlanOf
<1>4. Changes(d, JustQty) /\ row'[d].status = row[d].status
  <2>1. Changes(d, JustQty)
    BY DeleteLinesDoes, InsertLinesDoes
  <2>. QED  BY <2>1 DEF Changes, Like, JustQty
<1>5. SameElse(d) /\ "link" \notin JustQty /\ row[d].kind \in Simple
  BY <1>1, <1>2, PapersRest DEF JustQty, Simple
<1>6. Fine(d)
  BY <1>1, <1>2, <1>4, <1>5, SimpleFine
<1>7. hand' = [hand EXCEPT ![u] = h] \/ hand' = [hand EXCEPT ![u] = Idle]
  BY DEF DeleteLines, InsertLines
<1>8. CASE hand' = [hand EXCEPT ![u] = Idle]
  BY <1>1, <1>2, <1>4, <1>5, <1>6, <1>8, OneCommit
<1>9. CASE hand' = [hand EXCEPT ![u] = h]
  <2>2. Begun(h)' /\ Named(h)'
    <3>1. "link" \in DOMAIN g.want => g.seen.kind \in Slips \cup {"ticket"}
      BY <1>2 DEF PlanOK, Named
    <3>2. g.seen.kind = "journal"
      BY DEF At
    <3>3. "link" \notin DOMAIN g.want
      BY <3>1, <3>2 DEF Slips
    <3>. QED  BY <1>2, <1>3, <1>4, <3>3 DEF PlanOK, Begun, Named
  <2>3. PlanOK(h)'
    BY <1>3, <2>2 DEF PlanOK, Offered, Drafted, Renewed, Undone, Finished, Counted, Meant
  <2>. QED  BY <1>1, <1>2, <1>3, <1>4, <1>5, <1>6, <1>9, <2>3, OneTurn
<1>. QED  BY <1>7, <1>8, <1>9

LEMMA CommitTransactionFacts ==
  ASSUME TypeIInv, Facts, NEW u \in Users, CommitTransaction(u) \/ CommitDelete(u)
  PROVE  Facts' /\ Steady /\ Tame
<1>. PICK d : d = hand[u].doc
  OBVIOUS
<1>. PICK op \in {"post", "cancel"} : At(u, op, {"journal"})
  BY DEF CommitTransaction, CommitDelete
<1>1. Ends(u)
  BY DEF CommitTransaction, CommitDelete
<1>2. d \in Docs /\ RowOK(d) /\ row[d].kind = "journal" /\ row[d].status # "none"
  BY PlanIs
<1>3. SameElse(d) /\ "link" \notin StatusQty /\ row[d].kind \in Simple
  <2>1. (\E legs : Journal(d, legs)) \/ UNCHANGED <<entries, booked, reversed>>
    BY DEF CommitTransaction, CommitDelete
  <2>. QED  BY <1>2, <2>1, JournalSame, PapersRest DEF StatusQty, Simple, TypeIInv
<1>4. hand' = [hand EXCEPT ![u] = Idle] /\ disturbed \subseteq disturbed'
  BY <1>1, EndsQuietly
<1>5. Changes(d, StatusQty) /\ row'[d].status # "none" /\ row'[d].status # "draft"
  <2>1. CASE CommitTransaction(u)
    <3>1. /\ Changes(d, JustStatus) /\ row'[d].status = IF row[d].status = "draft" THEN "posted" ELSE row[d].status
      BY <2>1, CommitTransactionDoes
    <3>. QED  BY <1>2, <3>1 DEF Changes, Like, JustStatus, StatusQty
  <2>2. CASE CommitDelete(u)
    BY <2>2, CommitDeleteDoes
  <2>. QED  BY <2>1, <2>2
<1>6. Fine(d)
  <2>1. row[d].kind \in {"journal", "payroll"} =>
          row'[d].status # "draft" \/ (row[d].status = "draft" /\ reversed'[d] = reversed[d])
    BY <1>5
  <2>. QED  BY <1>2, <1>3, <1>4, <1>5, <2>1, SimpleFine
<1>. QED  BY <1>2, <1>3, <1>4, <1>5, <1>6, OneCommit

(* A mirror entry leaves the document as it is; it was posted as read.     *)
LEMMA CommitMirrorFacts ==
  ASSUME TypeIInv, Facts, NEW u \in Users, CommitMirror(u)
  PROVE  Facts' /\ Steady /\ Tame
<1>. PICK d : d = hand[u].doc
  OBVIOUS
<1>. PICK h : h = hand[u]
  OBVIOUS
<1>1. /\ At(u, "reverse", {"journal", "payroll", "provision"}) /\ Ends(u) /\ row' = row
      /\ entries' = entries /\ booked' = booked /\ reversed' = [reversed EXCEPT ![d] = @ + 1]
  BY DEF CommitMirror
<1>2. /\ d \in Docs /\ RowOK(d) /\ row[d].kind \in {"journal", "payroll", "provision"} /\ row[d].status # "none"
      /\ PlanOK(h) /\ h.op = "reverse"
  BY <1>1, PlanIs
<1>3. h.seen.status = "posted"
  BY <1>2 DEF PlanOK, Undone
<1>4. hand' = [hand EXCEPT ![u] = Idle] /\ disturbed \subseteq disturbed' /\ (row[d] # h.seen => d \in disturbed')
  BY <1>1, EndsQuietly
<1>5. SameElse(d) /\ Changes(d, JustStatus)
  BY <1>1, <1>2, StaysDoes DEF SameElse, TypeIInv, PapersOK
<1>6. Fine(d)
  <2>1. (FreshRow(d) /\ DealRow(d) /\ UnpaidRow(d) /\ SlipRow(d) /\ OrderRow(d) /\ ShiftRow(d))'
    BY <1>1, <1>2 DEF FreshRow, DealRow, UnpaidRow, SlipRow, OrderRow, ShiftRow, Slips, Deals, Invoices, Bills
  <2>2. (LedgerRow(d) /\ ProvisionRow(d) /\ LinkRow(d))'
    BY <1>1, <1>2, <1>3, <1>4 DEF RowOK, LedgerRow, ProvisionRow, LinkRow
  <2>3. SteadyRow(d) /\ TameRow(d)
    BY <1>1, <1>2 DEF SteadyRow, TameRow, Offers, Deals, Invoices, Bills
  <2>. QED  BY <2>1, <2>2, <2>3 DEF Fine, RowOK
<1>. QED  BY <1>2, <1>4, <1>5, <1>6, OneCommit

LEMMA JournalsFacts ==
  ASSUME TypeIInv, Facts, JournalsStep
  PROVE  Facts' /\ Steady /\ Tame
<1>1. ASSUME NEW d \in Docs, CreateTransaction(d)  PROVE Facts' /\ Steady /\ Tame
  BY <1>1, DraftsFacts DEF CreateTransaction
<1>2. ASSUME NEW u \in Users, UpdateHeader(u) \/ DeleteLines(u) \/ InsertLines(u)  PROVE Facts' /\ Steady /\ Tame
  BY <1>2, UpdateHeaderFacts, LinesFacts
<1>3. ASSUME NEW u \in Users, CommitTransaction(u) \/ CommitDelete(u) \/ CommitMirror(u)  PROVE Facts' /\ Steady /\ Tame
  BY <1>3, CommitTransactionFacts, CommitMirrorFacts
<1>. QED  BY <1>1, <1>2, <1>3, JournalsPlans DEF JournalsStep

-----------------------------------------------------------------------------
LEMMA PayrollCommits ==
  ASSUME TypeIInv, Facts, NEW u \in Users, CommitPayrollRun(u) \/ CommitApproval(u) \/ CommitSettlement(u)
  PROVE  Facts' /\ Steady /\ Tame
<1>. PICK d : d = hand[u].doc
  OBVIOUS
<1>. PICK op \in {"post", "complete"} : At(u, op, {"payroll", "endOfService"})
  BY DEF CommitPayrollRun, CommitApproval, CommitSettlement, At
<1>1. Ends(u)
  BY DEF CommitPayrollRun, CommitApproval, CommitSettlement
<1>2. d \in Docs /\ RowOK(d) /\ row[d].kind \in {"payroll", "endOfService"} /\ row[d].status # "none"
  BY PlanIs
<1>3. SameElse(d) /\ "link" \notin JustStatus /\ row[d].kind \in Simple
  <2>1. \E legs : Journal(d, legs)
    BY DEF CommitPayrollRun, CommitApproval, CommitSettlement
  <2>. QED  BY <1>2, <2>1, JournalSame DEF JustStatus, Simple, TypeIInv
<1>4. hand' = [hand EXCEPT ![u] = Idle] /\ disturbed \subseteq disturbed'
  BY <1>1, EndsQuietly
<1>5. Changes(d, JustStatus) /\ row'[d].status # "none" /\ (row[d].kind = "payroll" => row'[d].status # "draft")
  BY <1>2, CommitPayrollRunDoes, CommitApprovalDoes, CommitSettlementDoes
<1>6. Fine(d)
  <2>1. row[d].kind \in {"journal", "payroll"} =>
          row'[d].status # "draft" \/ (row[d].status = "draft" /\ reversed'[d] = reversed[d])
    BY <1>2, <1>5
  <2>. QED  BY <1>2, <1>3, <1>4, <1>5, <2>1, SimpleFine
<1>. QED  BY <1>2, <1>3, <1>4, <1>5, <1>6, OneCommit

LEMMA PayrollFacts ==
  ASSUME TypeIInv, Facts, PayrollStep
  PROVE  Facts' /\ Steady /\ Tame
<1>1. ASSUME NEW d \in Docs, CreatePayrollRun(d) \/ CreateEndOfService(d)  PROVE Facts' /\ Steady /\ Tame
  BY <1>1, DraftsFacts DEF CreatePayrollRun, CreateEndOfService
<1>2. ASSUME NEW u \in Users, CommitPayrollRun(u) \/ CommitApproval(u) \/ CommitSettlement(u)
      PROVE  Facts' /\ Steady /\ Tame
  BY <1>2, PayrollCommits
<1>. QED  BY <1>1, <1>2, PayrollPlans DEF PayrollStep

-----------------------------------------------------------------------------
(* A row that is written over, but for its link. *)
NoLink == Columns \ {"link"}

LEMMA KeepsLink ==
  ASSUME NEW d, Changes(d, Columns), row'[d].link = row[d].link
  PROVE  Changes(d, NoLink) /\ "link" \notin NoLink
BY DEF Changes, Like, NoLink, Columns

LEMMA InsertLeaveFacts ==
  ASSUME TypeIInv, Facts, NEW u \in Users, InsertLeave(u)
  PROVE  Facts' /\ Steady /\ Tame
<1>. PICK d : d = hand[u].doc
  OBVIOUS
<1>. PICK h : h = hand[u]
  OBVIOUS
<1>1. /\ At(u, "new", {"leave"}) /\ Ends(u) /\ UNCHANGED <<entries, booked, reversed>> /\ Updates(d, h.want)
  BY DEF InsertLeave, Updates
<1>2. /\ d \in Docs /\ RowOK(d) /\ row[d].kind = "leave" /\ h.seen.kind = "leave" /\ PlanOK(h) /\ h.op = "new"
      /\ Columned(h.want) /\ row \in [Docs -> Row]
  BY <1>1, PlanIs DEF TypeIInv, PapersOK
<1>3. "link" \notin DOMAIN h.want /\ "status" \in DOMAIN h.want /\ h.want.status # "none"
  BY <1>2 DEF PlanOK, Named, Renewed, Slips
<1>4. Changes(d, Columns) /\ row'[d].link = row[d].link /\ row'[d].status # "none"
  BY <1>1, <1>2, <1>3, UpdatesDoes DEF Wrote
<1>5. SameElse(d) /\ row[d].kind \in Simple
  BY <1>1, <1>2, PapersRest DEF Simple
<1>6. hand' = [hand EXCEPT ![u] = Idle] /\ disturbed \subseteq disturbed'
  BY <1>1, EndsQuietly
<1>7. Changes(d, NoLink) /\ "link" \notin NoLink
  BY <1>4, KeepsLink
<1>. QED  BY <1>2, <1>4, <1>5, <1>6, <1>7, SimpleCommit

LEMMA CommitProvisionFacts ==
  ASSUME TypeIInv, Facts, NEW u \in Users, CommitProvision(u)
  PROVE  Facts' /\ Steady /\ Tame
<1>. PICK d : d = hand[u].doc
  OBVIOUS
<1>. PICK h : h = hand[u]
  OBVIOUS
<1>. PICK legs : Journal(d, legs)
  BY DEF CommitProvision
<1>1. At(u, "new", {"provision"}) /\ Ends(u)
  BY DEF CommitProvision
<1>2. d \in Docs /\ RowOK(d) /\ row[d].kind = "provision" /\ row[d] \in Row
  BY <1>1, PlanIs
<1>3. SameElse(d) /\ entries'[d] = entries[d] + 1 /\ entries[d] \in Nat
  BY <1>2, JournalSame DEF TypeIInv, PapersOK
<1>4. hand' = [hand EXCEPT ![u] = Idle] /\ disturbed \subseteq disturbed'
  BY <1>1, EndsQuietly
<1>5. Changes(d, StatusQty) /\ row'[d].status = "posted"
  <2>1. Changes(d, StatusQty)
    BY CommitProvisionDoes
  <2>. QED  BY <1>2, <2>1 DEF CommitProvision, TypeIInv, PapersOK
<1>6. row'[d].kind = "provision" /\ row'[d].link = row[d].link /\ KindsStay /\ row[d].link \in Docs \cup {NoDoc}
  BY <1>2, <1>5, ChangesType, RowColumns DEF Changes, Like, StatusQty, TypeIInv, PapersOK
<1>7. Fine(d)
  <2>1. (FreshRow(d) /\ DealRow(d) /\ UnpaidRow(d) /\ SlipRow(d) /\ OrderRow(d) /\ ShiftRow(d) /\ LedgerRow(d))'
    BY <1>5, <1>6 DEF FreshRow, DealRow, UnpaidRow, SlipRow, OrderRow, ShiftRow, LedgerRow, Slips, Deals, Invoices, Bills
  <2>2. ProvisionRow(d)'
    BY <1>3, <1>5, <1>6 DEF ProvisionRow
  <2>3. LinkRow(d)'
    BY <1>2, <1>6 DEF RowOK, LinkRow, KindsStay, Slips, Deals, Invoices, Bills
  <2>4. SteadyRow(d) /\ TameRow(d)
    BY <1>2, <1>5 DEF SteadyRow, TameRow, Offers, Deals, Invoices, Bills
  <2>. QED  BY <2>1, <2>2, <2>3, <2>4 DEF Fine, RowOK
<1>. QED  BY <1>2, <1>3, <1>4, <1>5, <1>7, OneCommit

LEMMA LeavesFacts ==
  ASSUME TypeIInv, Facts, LeavesStep
  PROVE  Facts' /\ Steady /\ Tame
BY LeavesPlans, InsertLeaveFacts, CommitProvisionFacts DEF LeavesStep

-----------------------------------------------------------------------------
LEMMA AssetsCommits ==
  ASSUME TypeIInv, Facts, NEW u \in Users, CommitAsset(u) \/ CommitDepreciation(u) \/ CommitDisposal(u)
  PROVE  Facts' /\ Steady /\ Tame
<1>. PICK d : d = hand[u].doc
  OBVIOUS
<1>. PICK h : h = hand[u]
  OBVIOUS
<1>. PICK op \in {"new", "charge", "dispose"} : At(u, op, {"asset"})
  BY DEF CommitAsset, CommitDepreciation, CommitDisposal
<1>1. Ends(u)
  BY DEF CommitAsset, CommitDepreciation, CommitDisposal
<1>2. /\ d \in Docs /\ RowOK(d) /\ row[d].kind = "asset" /\ (op # "new" => row[d].status # "none")
      /\ PlanOK(h) /\ h.op = op /\ h.seen.kind = "asset" /\ Columned(h.want) /\ row \in [Docs -> Row]
  BY PlanIs DEF TypeIInv, PapersOK
<1>3. SameElse(d) /\ row[d].kind \in Simple
  BY <1>2 DEF Simple, SameElse, CommitAsset, CommitDepreciation, CommitDisposal, TypeIInv, PapersOK
<1>4. hand' = [hand EXCEPT ![u] = Idle] /\ disturbed \subseteq disturbed'
  BY <1>1, EndsQuietly
<1>5. "link" \notin DOMAIN h.want /\ ("status" \in DOMAIN h.want => h.want.status # "none")
  BY <1>2 DEF PlanOK, Named, Slips
<1>6. Changes(d, Columns) /\ row'[d].link = row[d].link /\ row'[d].status # "none"
  <2>1. CASE CommitAsset(u)
    <3>1. op = "new" /\ Updates(d, h.want)
      BY <2>1 DEF CommitAsset, Updates, At
    <3>2. "status" \in DOMAIN h.want
      BY <1>2, <3>1 DEF PlanOK, Renewed
    <3>. QED  BY <1>2, <1>5, <3>1, <3>2, UpdatesDoes DEF Wrote
  <2>2. CASE CommitDepreciation(u)
    <3>1. Changes(d, JustPaid) /\ op = "charge"
      BY <2>2, CommitDepreciationDoes DEF CommitDepreciation, At
    <3>. QED  BY <1>2, <3>1 DEF Changes, Like, JustPaid, Columns
  <2>3. CASE CommitDisposal(u)
    <3>1. op = "dispose" /\ Changes(d, Columns)
      BY <2>3, CommitDisposalDoes DEF CommitDisposal, At
    <3>2. CASE row[d].status = "active"
      <4>1. Updates(d, h.want)
        BY <2>3, <3>2 DEF CommitDisposal, Updates
      <4>. QED  BY <1>2, <1>5, <3>1, <3>2, <4>1, UpdatesDoes DEF Wrote
    <3>3. CASE row[d].status # "active"
      BY <1>2, <2>3, <3>1, <3>3, CommitDisposalDoes
    <3>. QED  BY <3>2, <3>3
  <2>. QED  BY <2>1, <2>2, <2>3
<1>7. Changes(d, NoLink) /\ "link" \notin NoLink
  BY <1>6, KeepsLink
<1>. QED  BY <1>2, <1>3, <1>4, <1>6, <1>7, SimpleCommit

LEMMA AssetsFacts ==
  ASSUME TypeIInv, Facts, AssetsStep
  PROVE  Facts' /\ Steady /\ Tame
BY AssetsPlans, AssetsCommits DEF AssetsStep

-----------------------------------------------------------------------------
(* The plain write: what it may break is in the history. *)
Odd(d, r, want) ==
  {x \in {d} : /\ r.status \in Standing /\ Unguarded(r.kind, want)
               /\ ~(r.status = "in_progress" /\ DOMAIN want = {"actual"})}

LEMMA WriteFine ==
  ASSUME TypeIInv, NEW d \in Docs, RowOK(d), NEW h, Meant(h), Named(h), h.op = "write", h.doc = d,
         h.seen.kind = row[d].kind, Columned(h.want), Exists(d), Updates(d, h.want),
         UNCHANGED <<entries, booked, reversed>>, disturbed \subseteq disturbed',
         Odd(d, h.seen, h.want) \subseteq disturbed', row[d] # h.seen => d \in disturbed'
  PROVE  Fine(d) /\ Changes(d, Columns)
<1>. row \in [Docs -> Row] /\ row[d] \in Row
  BY DEF TypeIInv, PapersOK
<1>. PICK w : w = h.want
  OBVIOUS
<1>1. /\ Changes(d, Columns) /\ Wrote(row'[d], row[d], w)
      /\ row'[d].status = IF "status" \in DOMAIN w THEN w.status ELSE row[d].status
  BY UpdatesDoes
<1>2. row'[d].kind = row[d].kind /\ row[d].status \notin {"none", "gone"} /\ KindsStay /\ row'[d].link \in Docs \cup {NoDoc}
  BY <1>1, ChangesType, RowColumns DEF Changes, Like, Exists
<1>3. /\ row[d].kind \notin {"shift", "ticket", "journal", "provision"}
      /\ row'[d].status # "none"
      /\ row'[d].paid = row[d].paid /\ row'[d].mark = row[d].mark
      /\ row'[d].link # row[d].link => "link" \in DOMAIN w /\ row[d].kind \in Slips /\ row'[d].link = w.link
  BY <1>1, <1>2 DEF Meant, Named, Wrote
<1>4. (FreshRow(d) /\ DealRow(d) /\ UnpaidRow(d))'
  <2>1. row[d].kind \in Deals => row'[d].status = row[d].status \/ row'[d].status = "gone"
    BY <1>1 DEF Meant
  <2>. QED  BY <1>2, <1>3, <2>1 DEF RowOK, FreshRow, DealRow, UnpaidRow
<1>5. (ShiftRow(d) /\ ProvisionRow(d))'
  BY <1>2, <1>3 DEF ShiftRow, ProvisionRow
<1>6. LedgerRow(d)'
  <2>1. row[d].kind = "payroll" => row'[d].status = row[d].status \/ row'[d].status = "gone"
    BY <1>1 DEF Meant
  <2>. QED  BY <1>2, <1>3, <2>1 DEF RowOK, LedgerRow
<1>7. SlipRow(d)'
  <2>. SUFFICES ASSUME row[d].kind \in Slips  PROVE SlipRow(d)'
    BY <1>2 DEF SlipRow
  <2>1. row'[d].status = row[d].status \/ row'[d].status \in {"gone", "draft", "cancelled"}
    BY <1>1 DEF Meant
  <2>2. ASSUME d \notin disturbed'  PROVE row[d].status \in {"draft", "cancelled"} /\ booked[d] = 0
    <3>1. row[d] = h.seen /\ d \notin disturbed /\ d \notin Odd(d, h.seen, w)
      BY <2>2
    <3>2. h.seen.status \notin {"posted", "reversed"}
      <4>1. CASE h.seen.status = "posted"
        BY <3>1, <4>1 DEF Meant, Odd, Standing, Unguarded, Slips
      <4>. QED  BY <4>1 DEF Meant
    <3>. QED  BY <1>2, <3>1, <3>2 DEF RowOK, SlipRow
  <2>3. row[d].status \in {"draft", "cancelled", "posted", "reversed"}
    BY <1>2 DEF RowOK, SlipRow
  <2>. QED  BY <1>2, <2>1, <2>2, <2>3 DEF SlipRow
<1>8. OrderRow(d)'
  <2>. SUFFICES ASSUME row[d].kind = "workOrder"  PROVE OrderRow(d)'
    BY <1>2 DEF OrderRow
  <2>1. row'[d].status = row[d].status \/ row'[d].status = "gone"
    BY <1>1 DEF Meant
  <2>2. row[d].qty > 0 /\ row[d].qty \in Int /\ row'[d].qty > 0
    BY <1>1, <1>2, RowColumns DEF RowOK, OrderRow, Meant, Wrote
  <2>3. ASSUME row[d].status = "in_progress", d \notin disturbed'  PROVE row'[d].qty = row[d].qty
    <3>1. row[d] = h.seen
      BY <2>3
    <3>. QED  BY <1>1, <2>3, <3>1 DEF Meant, Wrote
  <2>. QED  BY <1>2, <1>3, <2>1, <2>2, <2>3 DEF RowOK, OrderRow, Exists
<1>9. LinkRow(d)'
  <2>1. CASE row'[d].link = row[d].link
    BY <1>2, <2>1 DEF RowOK, LinkRow, KindsStay
  <2>2. CASE row'[d].link # row[d].link
    <3>1. /\ row[d].kind \in Slips
          /\ row'[d].link # NoDoc => row'[d].link \in Docs /\ row[row'[d].link].kind \in Settles(row[d].kind)
      BY <1>2, <1>3, <2>2 DEF Named
    <3>. QED  BY <1>2, <3>1 DEF LinkRow, KindsStay, Settles, Offers
  <2>. QED  BY <2>1, <2>2
<1>10. SteadyRow(d)
  BY <1>2, <1>3 DEF SteadyRow
<1>11. TameRow(d)
  <2>1. row[d].kind \in Deals => row'[d].link = row[d].link /\ row[d].status # "gone"
    BY <1>2, <1>3 DEF Deals, Invoices, Bills, Slips
  <2>2. ASSUME row[d].kind \in Offers, row[d].status = "converted", d \notin disturbed'  PROVE FALSE
    <3>1. row[d] = h.seen /\ d \notin Odd(d, h.seen, w)
      BY <2>2
    <3>. QED  BY <2>2, <3>1 DEF Odd, Standing, Unguarded, Offers
  <2>. QED  BY <2>1, <2>2 DEF TameRow
<1>. QED  BY <1>1, <1>4, <1>5, <1>6, <1>7, <1>8, <1>9, <1>10, <1>11 DEF Fine, RowOK

LEMMA WriteFacts ==
  ASSUME TypeIInv, Facts, NEW u \in Users, Write(u)
  PROVE  Facts' /\ Steady /\ Tame
<1>. PICK d : d = hand[u].doc
  OBVIOUS
<1>. PICK h : h = hand[u]
  OBVIOUS
<1>1. At(u, "write", Kinds) /\ UNCHANGED <<entries, booked, reversed>>
  BY DEF Write, At, TypeIInv, HandsOK, PlanOf, Row
<1>2. /\ d \in Docs /\ RowOK(d) /\ row[d] \in Row /\ row[d].kind = h.seen.kind /\ h.op = "write" /\ h.doc = d
      /\ Columned(h.want) /\ Meant(h) /\ Named(h) /\ row[d].status # "none"
  BY <1>1, PlanIs DEF PlanOK
<1>3. EndsWith(u, Odd(d, h.seen, h.want))
  BY DEF Write, Odd
<1>4. /\ hand' = [hand EXCEPT ![u] = Idle] /\ disturbed \subseteq disturbed'
      /\ Odd(d, h.seen, h.want) \subseteq disturbed' /\ (row[d] # h.seen => d \in disturbed')
  BY <1>3, EndsMarks
<1>5. SameElse(d)
  BY <1>1, PapersRest
<1>6. CASE Exists(d)
  <2>1. Updates(d, h.want)
    BY <1>6 DEF Write, Updates
  <2>2. Fine(d) /\ Changes(d, Columns)
    BY <1>1, <1>2, <1>4, <1>6, <2>1, WriteFine
  <2>. QED  BY <1>2, <1>4, <1>5, <2>2, OneCommit
<1>7. CASE ~Exists(d)
  <2>1. row' = row
    BY <1>7 DEF Write
  <2>2. KindsStay /\ Changes(d, Columns)
    BY <1>2, <2>1, StaysDoes DEF KindsStay, TypeIInv, PapersOK
  <2>3. Fine(d)
    BY <1>1, <1>2, <1>4, <2>1, <2>2, RowStays
  <2>. QED  BY <1>2, <1>4, <1>5, <2>2, <2>3, OneCommit
<1>. QED  BY <1>6, <1>7

LEMMA FailsFacts ==
  ASSUME TypeIInv, Facts, NEW u \in Users, Fails(u)
  PROVE  Facts' /\ Steady /\ Tame
<1>1. Quiet /\ hand' = [hand EXCEPT ![u] = Idle]
  BY FailsType DEF Fails
<1>2. PlanOK(Idle) /\ Idle.op = "idle"
  BY IdlePlanOK DEF Idle
<1>. QED  BY <1>1, <1>2, QuietTurn

LEMMA RestFacts ==
  ASSUME TypeIInv, Facts, UNCHANGED books
  PROVE  Facts' /\ Steady /\ Tame
<1>1. Quiet /\ hand' = hand
  BY DEF books, papers, work, Quiet
<1>2. RowsOK' /\ Steady /\ KindsStay /\ \A x \in Docs : TameRow(x)
  BY <1>1, QuietRows
<1>3. PlansOK'
  BY <1>1, <1>2, PlansRest DEF Quiet
<1>. QED  BY <1>1, <1>2, <1>3 DEF Facts, Tame, Quiet

LEMMA InitFacts == Init => Facts
<1>. SUFFICES ASSUME Init  PROVE Facts
  OBVIOUS
<1>. PICK mix \in Mixes, before \in {"none", "closed"} :
       row = [d \in Docs |-> [Blank(mix[d]) EXCEPT !.status = IF mix[d] = "year" THEN before ELSE @]]
  BY DEF Init, BooksInit
<1>1. entries = [d \in Docs |-> 0] /\ booked = [d \in Docs |-> 0] /\ reversed = [d \in Docs |-> 0]
      /\ hand = [u \in Users |-> Idle]
  BY DEF Init, BooksInit
<1>2. ASSUME NEW d \in Docs  PROVE RowOK(d)
  <2>1. /\ row[d].kind = mix[d] /\ row[d].link = NoDoc
        /\ row[d].status = "none" \/ (mix[d] = "year" /\ row[d].status = "closed")
        /\ row[d].status # "none" => mix[d] = "year"
        /\ row[d].status = "none" => row[d] = Blank(mix[d])
    BY DEF Blank
  <2>2. Blank(mix[d]).status = "none"
    BY DEF Blank
  <2>3. FreshRow(d) /\ DealRow(d) /\ UnpaidRow(d) /\ SlipRow(d)
    BY <1>1, <2>1, <2>2 DEF FreshRow, DealRow, UnpaidRow, SlipRow, Deals, Invoices, Bills, Slips
  <2>4. OrderRow(d) /\ ShiftRow(d) /\ LedgerRow(d) /\ ProvisionRow(d) /\ LinkRow(d)
    BY <1>1, <2>1, <2>2 DEF OrderRow, ShiftRow, LedgerRow, ProvisionRow, LinkRow, Exists
  <2>. QED  BY <2>3, <2>4 DEF RowOK
<1>3. PlansOK
  BY <1>1, IdlePlanOK DEF PlansOK
<1>. QED  BY <1>2, <1>3 DEF Facts, RowsOK

LEMMA FactsStep ==
  ASSUME TypeIInv, Facts, [Next]_books
  PROVE  Facts' /\ Steady /\ (Tame \/ \E u \in Users : Claims(u))
<1>1. CASE UNCHANGED books
  BY <1>1, RestFacts
<1>2. CASE BooksStep
  BY <1>2, WriteFacts, FailsFacts DEF BooksStep
<1>3. CASE SalesStep \/ PurchasesStep \/ VouchersStep
  BY <1>3, SalesFacts, PurchasesFacts, VouchersFacts
<1>4. CASE InventoryStep \/ ManufacturingStep \/ TillStep
  BY <1>4, InventoryFacts, ManufacturingFacts, TillFacts
<1>5. CASE ConversionStep
  BY <1>5, ConversionFacts
<1>6. CASE PeriodsStep \/ JournalsStep \/ PayrollStep
  BY <1>6, PeriodsFacts, JournalsFacts, PayrollFacts
<1>7. CASE LeavesStep \/ AssetsStep
  BY <1>7, LeavesFacts, AssetsFacts
<1>. QED  BY <1>1, <1>2, <1>3, <1>4, <1>5, <1>6, <1>7 DEF Next

(* A sale enters a shift only while it is open: the counting of the drawer *)
(* that a checkout begins with (pos/api.ts) is no formality, whatever the  *)
(* tabs do between the cart and the transaction.                           *)
THEOREM SalesJoinOpenShifts == Spec => NoSaleJoinsClosedShift
<1>1. Init => TypeIInv /\ Facts
  BY InitType, InitFacts
<1>2. TypeIInv /\ Facts /\ [Next]_books => (TypeIInv /\ Facts)'
  BY TypeStep, FactsStep
<1>3. TypeIInv /\ Facts /\ [Next]_books =>
        [\A d \in Docs : row[d].kind = "ticket" /\ row'[d] # row[d] /\ row[d].status = "none"
                         => row[row'[d].link].status = "open"]_books
  BY FactsStep DEF Steady, SteadyRow
<1>. QED  BY <1>1, <1>2, <1>3, PTL DEF Spec, NoSaleJoinsClosedShift

-----------------------------------------------------------------------------
(* What a claim protects: at most one session holds an offer and at most   *)
(* one invoice stands behind it, the offer is converted as soon as there   *)
(* is either, and there is no invoice while one is still to be created.    *)
Behind(i, d) == row[i].kind \in Deals /\ row[i].link = d /\ Exists(i)
Holds(u, d) == hand[u].op \in {"claimed", "release"} /\ hand[u].doc = d
Creating(u, d) == hand[u].op = "claimed" /\ hand[u].doc = d

OfferOK(d) ==
  /\ \A i, j \in Docs : Behind(i, d) /\ Behind(j, d) => i = j
  /\ \A u, v \in Users : Holds(u, d) /\ Holds(v, d) => u = v
  /\ \A u \in Users : Holds(u, d) => row[d].status = "converted"
  /\ \A i \in Docs : Behind(i, d) => row[d].status = "converted"
  /\ \A u \in Users, i \in Docs : ~(Creating(u, d) /\ Behind(i, d))
Unsaid(d) == row[d].kind \in Offers /\ d \notin disturbed
OffersOK == \A d \in Docs : Unsaid(d) => OfferOK(d)

(* Nothing new is held or stands behind the offer, and it stays converted  *)
(* as long as anything does.                                               *)
NothingNew(d) ==
  /\ \A i \in Docs : Behind(i, d)' => Behind(i, d)
  /\ \A u \in Users : (Holds(u, d)' => Holds(u, d)) /\ (Creating(u, d)' => Creating(u, d))
  /\ \A u \in Users : Holds(u, d)' /\ row[d].status = "converted" => row'[d].status = "converted"
  /\ \A i \in Docs : Behind(i, d)' /\ row[d].status = "converted" => row'[d].status = "converted"

LEMMA NothingNewOK ==
  ASSUME NEW d \in Docs, OfferOK(d), NothingNew(d)
  PROVE  OfferOK(d)'
BY DEF OfferOK, NothingNew

LEMMA TameOffers ==
  ASSUME TypeIInv, Facts, OffersOK, Tame
  PROVE  OffersOK'
<1>. SUFFICES ASSUME NEW d \in Docs, Unsaid(d)'  PROVE OfferOK(d)'
  BY DEF OffersOK
<1>1. Unsaid(d) /\ OfferOK(d)
  BY DEF Unsaid, OffersOK, Tame, KindsStay
<1>2. ASSUME NEW i \in Docs, Behind(i, d)'  PROVE Behind(i, d)
  <2>1. row'[i].kind = row[i].kind /\ row[i].kind \in Deals /\ row[i].link = d /\ row[i].status # "gone"
    BY <1>2 DEF Tame, KindsStay, TameRow, Behind, Exists
  <2>2. row[i].status # "none"
    <3>1. ASSUME row[i].status = "none"  PROVE row[i].link = NoDoc
      <4>1. row[i] = Blank(row[i].kind)
        BY <3>1 DEF Facts, RowsOK, RowOK, FreshRow
      <4>2. \A k : Blank(k).link = NoDoc
        BY DEF Blank
      <4>. QED  BY <4>1, <4>2
    <3>. QED  BY <2>1, <3>1, BooksAssumption DEF BooksAssumption
  <2>. QED  BY <2>1, <2>2 DEF Behind, Exists
<1>3. ASSUME NEW u \in Users
      PROVE  (Holds(u, d)' => Holds(u, d)) /\ (Creating(u, d)' => Creating(u, d))
  BY DEF Tame, Holds, Creating
<1>4. row[d].status = "converted" => row'[d].status = "converted"
  BY <1>1 DEF Tame, TameRow, Unsaid
<1>5. NothingNew(d)
  BY <1>2, <1>3, <1>4 DEF NothingNew
<1>. QED  BY <1>1, <1>5, NothingNewOK

LEMMA ClaimOfferKeeps ==
  ASSUME TypeIInv, Facts, OffersOK, NEW u \in Users, ClaimOffer(u)
  PROVE  OffersOK'
<1>. PICK c : c = hand[u].doc
  OBVIOUS
<1>1. At(u, "claim", Offers) /\ disturbed' = disturbed /\ hand' = [hand EXCEPT ![u].op = "claimed"]
  BY DEF ClaimOffer
<1>2. c \in Docs /\ row[c].kind \in Offers
  BY <1>1, PlanIs
<1>3. Changes(c, JustStatus) /\ row[c].status \in Convertible /\ row'[c].status = "converted"
  BY ClaimOfferDoes
<1>4. KindsStay /\ (\A x \in Docs \ {c} : row'[x] = row[x]) /\ row[c].status # "converted"
  BY <1>2, <1>3, ChangesType DEF TypeIInv, PapersOK, Convertible
<1>5. ASSUME NEW i \in Docs, NEW d \in Docs, Behind(i, d)'  PROVE Behind(i, d)
  <2>1. i # c
    BY <1>2, <1>4, <1>5 DEF Behind, KindsStay, Offers, Deals, Invoices, Bills
  <2>. QED  BY <1>4, <1>5, <2>1 DEF Behind, Exists
<1>6. /\ hand'[u].op = "claimed" /\ hand'[u].doc = c /\ \A v \in Users \ {u} : hand'[v] = hand[v]
  BY DEF ClaimOffer, TypeIInv, HandsOK, PlanOf
<1>. SUFFICES ASSUME NEW d \in Docs, Unsaid(d)'  PROVE OfferOK(d)'
  BY DEF OffersOK
<1>7. OfferOK(d)
  BY <1>1, <1>4 DEF Unsaid, OffersOK, KindsStay
<1>8. CASE d = c
  <2>1. \A v \in Users : ~Holds(v, d)
    BY <1>4, <1>7, <1>8 DEF OfferOK
  <2>2. \A i \in Docs : ~Behind(i, d)'
    BY <1>4, <1>5, <1>7, <1>8 DEF OfferOK
  <2>3. \A v \in Users : Holds(v, d)' => v = u
    BY <1>6, <2>1 DEF Holds
  <2>. QED  BY <1>3, <1>8, <2>2, <2>3 DEF OfferOK
<1>9. CASE d # c
  <2>1. NothingNew(d)
    BY <1>4, <1>5, <1>6, <1>9 DEF NothingNew, Holds, Creating
  <2>. QED  BY <1>7, <2>1, NothingNewOK
<1>. QED  BY <1>8, <1>9

LEMMA ClaimEndsKeeps ==
  ASSUME TypeIInv, Facts, OffersOK, NEW u \in Users, NumberFails(u) \/ CreateFails(u) \/ ReleaseFails(u)
  PROVE  OffersOK'
<1>1. row' = row /\ disturbed' = disturbed
  BY ClaimEndsDoes DEF Quiet, papers
<1>2. ASSUME NEW v \in Users, NEW d \in Docs
      PROVE  (Holds(v, d)' => Holds(v, d)) /\ (Creating(v, d)' => Creating(v, d))
  <2>1. CASE v # u
    BY <2>1 DEF NumberFails, CreateFails, ReleaseFails, Holds, Creating, TypeIInv, HandsOK
  <2>2. CASE v = u
    <3>1. CASE CreateFails(u)
      <4>1. hand[u].op = "claimed" /\ hand'[u].op = "release" /\ hand'[u].doc = hand[u].doc
        BY <3>1 DEF CreateFails, At, TypeIInv, HandsOK, PlanOf
      <4>. QED  BY <2>2, <4>1 DEF Holds, Creating
    <3>2. CASE NumberFails(u) \/ ReleaseFails(u)
      <4>1. hand'[u].op = "idle"
        BY <3>2 DEF NumberFails, ReleaseFails, Idle, TypeIInv, HandsOK
      <4>. QED  BY <2>2, <4>1 DEF Holds, Creating
    <3>. QED  BY <3>1, <3>2
  <2>. QED  BY <2>1, <2>2
<1>. SUFFICES ASSUME NEW d \in Docs, Unsaid(d)'  PROVE OfferOK(d)'
  BY DEF OffersOK
<1>3. OfferOK(d)
  BY <1>1 DEF Unsaid, OffersOK
<1>4. NothingNew(d)
  BY <1>1, <1>2 DEF NothingNew, Behind, Exists
<1>. QED  BY <1>3, <1>4, NothingNewOK

LEMMA CreationKeeps ==
  ASSUME TypeIInv, Facts, OffersOK, NEW u \in Users, NEW n \in Docs, NEW lost \in BOOLEAN, Creation(u, n, lost)
  PROVE  OffersOK'
<1>. PICK c : c = hand[u].doc
  OBVIOUS
<1>1. /\ At(u, "claimed", Offers) /\ disturbed' = disturbed /\ row[n].kind \in Becomes(row[c].kind)
  BY DEF Creation
<1>2. c \in Docs /\ row[c].kind \in Offers /\ hand[u].op = "claimed"
  BY <1>1, PlanIs
<1>3. Changes(n, StatusLinkQty) /\ row'[n].link = c
  BY CreationType
<1>4. /\ KindsStay /\ (\A x \in Docs \ {n} : row'[x] = row[x]) /\ row[n].kind \in Deals
      /\ \A x \in Docs : row[x].kind \in Offers => row'[x] = row[x]
  BY <1>1, <1>2, <1>3, ChangesType DEF TypeIInv, PapersOK, Becomes, Offers, Deals, Invoices, Bills
<1>5. ASSUME NEW i \in Docs, NEW d \in Docs, Behind(i, d)', i # n \/ d # c  PROVE Behind(i, d)
  BY <1>3, <1>4, <1>5 DEF Behind, Exists
<1>6. /\ hand'[u].op # "claimed"
      /\ hand'[u].op = "release" => hand'[u].doc = c
      /\ \A v \in Users \ {u} : hand'[v] = hand[v]
  BY DEF Creation, TypeIInv, HandsOK, PlanOf, Idle
<1>7. ASSUME NEW v \in Users, NEW d \in Docs
      PROVE  (Holds(v, d)' => Holds(v, d)) /\ (Creating(v, d)' => Creating(v, d) /\ v # u)
  BY <1>2, <1>6 DEF Holds, Creating
<1>. SUFFICES ASSUME NEW d \in Docs, Unsaid(d)'  PROVE OfferOK(d)'
  BY DEF OffersOK
<1>8. OfferOK(d) /\ row'[d] = row[d]
  BY <1>1, <1>4 DEF Unsaid, OffersOK, KindsStay
<1>9. CASE d = c
  <2>1. Creating(u, d) /\ Holds(u, d)
    BY <1>2, <1>9 DEF Creating, Holds
  <2>2. (\A i \in Docs : ~Behind(i, d)) /\ row[d].status = "converted"
    BY <1>8, <2>1 DEF OfferOK
  <2>3. \A i \in Docs : Behind(i, d)' => i = n
    BY <1>5, <2>2
  <2>4. \A v \in Users : ~Creating(v, d)'
    <3>1. \A v \in Users : Creating(v, d) => Holds(v, d)
      BY DEF Creating, Holds
    <3>. QED  BY <1>7, <1>8, <2>1, <3>1 DEF OfferOK
  <2>. QED  BY <1>7, <1>8, <2>2, <2>3, <2>4 DEF OfferOK
<1>10. CASE d # c
  <2>1. NothingNew(d)
    BY <1>5, <1>7, <1>8, <1>10 DEF NothingNew
  <2>. QED  BY <1>8, <2>1, NothingNewOK
<1>. QED  BY <1>9, <1>10

LEMMA ReleaseOfferKeeps ==
  ASSUME TypeIInv, Facts, OffersOK, NEW u \in Users, ReleaseOffer(u)
  PROVE  OffersOK'
<1>. PICK c : c = hand[u].doc
  OBVIOUS
<1>1. At(u, "release", Offers) /\ disturbed' = disturbed /\ hand' = [hand EXCEPT ![u] = Idle]
      /\ (Unclaimed(c) \/ row' = row)
  BY DEF ReleaseOffer
<1>2. c \in Docs /\ row[c].kind \in Offers /\ hand[u].op = "release"
  BY <1>1, PlanIs
<1>3. Changes(c, JustStatus)
  BY ReleaseOfferDoes
<1>4. KindsStay /\ \A x \in Docs \ {c} : row'[x] = row[x]
  BY <1>2, <1>3, ChangesType DEF TypeIInv, PapersOK
<1>5. ASSUME NEW i \in Docs, NEW d \in Docs, Behind(i, d)'  PROVE Behind(i, d)
  <2>1. i # c
    BY <1>2, <1>4, <1>5 DEF Behind, KindsStay, Offers, Deals, Invoices, Bills
  <2>. QED  BY <1>4, <1>5, <2>1 DEF Behind, Exists
<1>6. hand'[u].op = "idle" /\ \A v \in Users \ {u} : hand'[v] = hand[v]
  BY <1>1 DEF TypeIInv, HandsOK, Idle
<1>. SUFFICES ASSUME NEW d \in Docs, Unsaid(d)'  PROVE OfferOK(d)'
  BY DEF OffersOK
<1>7. OfferOK(d)
  BY <1>1, <1>4 DEF Unsaid, OffersOK, KindsStay
<1>8. \A v \in Users : (Holds(v, d)' => Holds(v, d) /\ v # u) /\ (Creating(v, d)' => Creating(v, d))
  BY <1>6 DEF Holds, Creating
<1>9. CASE d = c
  <2>1. \A v \in Users : ~Holds(v, d)'
    BY <1>2, <1>7, <1>8, <1>9 DEF OfferOK, Holds
  <2>2. ASSUME NEW i \in Docs, Behind(i, d)'  PROVE row' = row
    <3>1. Behind(i, c)
      BY <1>5, <1>9, <2>2
    <3>. QED  BY <1>1, <3>1 DEF Behind, Unclaimed
  <2>3. NothingNew(d)
    BY <1>5, <1>8, <2>1, <2>2 DEF NothingNew
  <2>. QED  BY <1>7, <2>3, NothingNewOK
<1>10. CASE d # c
  <2>1. NothingNew(d)
    BY <1>4, <1>5, <1>8, <1>10 DEF NothingNew
  <2>. QED  BY <1>7, <2>1, NothingNewOK
<1>. QED  BY <1>9, <1>10

LEMMA OffersStep ==
  ASSUME TypeIInv, Facts, OffersOK, [Next]_books
  PROVE  OffersOK'
<1>1. CASE Tame
  BY <1>1, TameOffers
<1>2. ASSUME NEW u \in Users, Claims(u)  PROVE OffersOK'
  BY <1>2, ClaimOfferKeeps, ClaimEndsKeeps, CreateConvertedIs, CreationKeeps, ReleaseOfferKeeps DEF Claims
<1>. QED  BY <1>1, <1>2, FactsStep

(* Only an invoice has an offer behind it. *)
LEMMA OffersSay ==
  ASSUME TypeIInv, Facts, OffersOK
  PROVE  OneInvoicePerOffer
<1>. SUFFICES ASSUME NEW d \in Docs \ disturbed, row[d].kind \in Offers,
                     NEW S, S = {i \in Docs : row[i].kind \notin Offers /\ row[i].link = d /\ Exists(i)}
              PROVE  Cardinality(S) <= 1
  BY DEF OneInvoicePerOffer
<1>1. \A i \in S : i \in Docs /\ Behind(i, d)
  <2>. SUFFICES ASSUME NEW i \in S  PROVE row[i].kind \in Deals
    BY DEF Behind
  <2>1. row[i].link # NoDoc
    BY BooksAssumption DEF BooksAssumption
  <2>. QED  BY <2>1 DEF Facts, RowsOK, RowOK, LinkRow
<1>2. \A i, j \in S : i = j
  BY <1>1 DEF OffersOK, Unsaid, OfferOK
<1>3. S = {} \/ \E i \in S : S = {i}
  BY <1>2
<1>4. CASE S = {}
  BY <1>4, FS_EmptySet
<1>5. ASSUME NEW i \in S, S = {i}  PROVE Cardinality(S) <= 1
  <2>1. Cardinality({i}) = 1
    BY FS_Singleton
  <2>. QED  BY <1>5, <2>1
<1>. QED  BY <1>3, <1>4, <1>5

(* No order or quotation stands behind two invoices, however many sessions *)
(* convert it at once and whatever becomes of the replies: the conditional *)
(* UPDATE that claims it (claimQuotationForConversion) excludes the        *)
(* others, and a release asks for an invoice first.                        *)
THEOREM OffersInvoicedOnce == Spec => []OneInvoicePerOffer
<1>1. Init => TypeIInv /\ Facts /\ OffersOK
  <2>. SUFFICES ASSUME Init  PROVE OffersOK
    BY InitType, InitFacts
  <2>1. \A u \in Users : hand[u].op = "idle"
    BY DEF Init, BooksInit, Idle
  <2>2. \A i \in Docs : row[i].link = NoDoc
    <3>. PICK mix \in Mixes, before \in {"none", "closed"} :
           row = [d \in Docs |-> [Blank(mix[d]) EXCEPT !.status = IF mix[d] = "year" THEN before ELSE @]]
      BY DEF Init, BooksInit
    <3>. QED  BY DEF Blank
  <2>. QED  BY <2>1, <2>2, BooksAssumption DEF OffersOK, OfferOK, Behind, Holds, Creating, BooksAssumption
<1>2. TypeIInv /\ Facts /\ OffersOK /\ [Next]_books => (TypeIInv /\ Facts /\ OffersOK)'
  BY TypeStep, FactsStep, OffersStep
<1>. QED  BY <1>1, <1>2, OffersSay, PTL DEF Spec
=============================================================================
