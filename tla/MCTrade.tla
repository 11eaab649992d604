------------------------------- MODULE MCTrade -------------------------------
(* Instances of Trade: which documents exist, and who works on them. *)
EXTENDS Trade, TLC

CONSTANTS d1, d2, d3

Mix(a, b, c) == d1 :> a @@ d2 :> b @@ d3 :> c
Pair(a, b) == Mix(a, b, "none")

(* Documents that meet in an account, in the stock or in each other. *)
Desk == {Pair("sale", "receipt"), Pair("sale", "saleReturn"), Pair("cashSale", "saleReturn"),
         Pair("purchase", "payment"), Pair("cashPurchase", "purchaseReturn"),
         Pair("purchase", "purchaseReturn")}
Store == {Pair("sale", "transfer"), Pair("purchase", "adjustment"), Pair("workOrder", "sale"),
          Pair("workOrder", "adjustment")}
Counter == {Pair("shift", "ticket"), Mix("shift", "ticket", "ticket"), Mix("shift", "ticket", "saleReturn"),
            Mix("shift", "ticket", "receipt")}
Offices == {Pair("order", "purchase"), Mix("order", "purchase", "purchase"),
            Mix("quotation", "sale", "half")}
Ledgers == {Pair("journal", "none"), Pair("asset", "purchase"), Pair("payroll", "endOfService"),
            Pair("leave", "provision"), Pair("year", "half"), Pair("taxPeriod", "sale")}
AllPairs == Desk \cup Store \cup Counter \cup Offices \cup Ledgers

(* Longer stories, for one session. *)
Triples ==
  {Mix("sale", "sale", "receipt"), Mix("sale", "saleReturn", "receipt"), Mix("cashSale", "receipt", "cashPurchase"),
   Mix("purchase", "purchaseReturn", "payment"), Mix("payment", "payment", "cashPurchase"),
   Mix("sale", "transfer", "purchaseReturn"), Mix("workOrder", "sale", "transfer"),
   Mix("shift", "ticket", "sale"), Mix("adjustment", "sale", "transfer"),
   Mix("leave", "leave", "provision"), Mix("asset", "year", "half"), Mix("journal", "endOfService", "taxPeriod"),
   Mix("half", "taxPeriod", "sale"), Mix("half", "payroll", "receipt")}

(* One thing at a time, for the runs that show a disagreement. *)
WorkOrderAlone == {Pair("workOrder", "none")}
PaymentAlone == {Pair("payment", "none")}
QuotationAlone == {Pair("quotation", "sale")}
YearAlone == {Pair("year", "half")}

(* Sessions do the same things. *)
Sessions == Permutations(Users)
=============================================================================
