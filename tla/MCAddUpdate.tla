----------------------------- MODULE MCAddUpdate -----------------------------
(***************************************************************************)
(* Instances of AddUpdate for TLC: sales of items, of which accounts and   *)
(* stocks keep totals; the accounts belong to groups.  A parameter file    *)
(* counts the turnover.                                                    *)
(***************************************************************************)
EXTENDS AddUpdate

SomeFiles == {"sale", "account", "stock", "group", "param"}
WithIndex == {"sale", "account"}

Add0(to, role) == [to |-> to, role |-> role, create |-> 0, chk |-> Int, assign |-> FALSE]
Made(a, how)   == [a EXCEPT !.create = how]
Checked(a, to) == [a EXCEPT !.chk = 0 .. to]
Set(a)         == [a EXCEPT !.assign = TRUE]

Nothing == [f \in SomeFiles |-> <<>>]
Member(from, role, same) == [from |-> from, role |-> role, to |-> "account", same |-> same]

Design(adds, members, edited) == [adds |-> adds @@ Nothing, members |-> members, edited |-> edited]

Sales(same) == <<Member("sale", "of", same)>>

(* A limit two levels up; a limit on the second branch after one without,  *)
(* and the last sale noted; two ways to the same total, and the parameter  *)
(* file; an assignment that may fail on either level, behind a sum and     *)
(* before one with a limit; accounts below accounts.                       *)
Chain  == Design("sale" :> <<Made(Add0("account", "of"), 2)>>
                 @@ "account" :> <<Checked(Made(Add0("group", "in"), 1), 3)>>,
                 Sales("none"), {"sale", "account"})
Branch == Design("sale" :> <<Add0("account", "of"), Checked(Made(Add0("stock", "in"), 1), 2),
                             Set(Made(Add0("stock", "in"), 2))>>
                 @@ "account" :> <<Made(Add0("group", "in"), 2)>>, Sales("none"), {"sale"})
Joint  == Design("sale" :> <<Made(Add0("account", "of"), 2), Made(Add0("group", "in"), 2)>>
                 @@ "account" :> <<Made(Add0("group", "in"), 2), Add0("param", NoRole)>>,
                 Sales("none"), {"sale"})
Noted  == Design("sale" :> <<Add0("account", "of"), Set(Made(Add0("stock", "in"), 1)),
                             Checked(Add0("group", "in"), 3)>>
                 @@ "account" :> <<Set(Add0("stock", "of"))>>, <<>>, {"sale"})
Family == Design("account" :> <<Checked(Made(Add0("group", "of"), 2), 3)>>,
                 <<Member("account", "in", "key")>>, {"account"})

SomeTasks == {"chain", "branch", "joint", "noted", "family"}
SomeDesigns == "chain" :> Chain @@ "branch" :> Branch @@ "joint" :> Joint
                 @@ "noted" :> Noted @@ "family" :> Family

(* What a transaction does not survive: limits on both branches, so that   *)
(* an update whose second branch is refused goes back through the limit of *)
(* the first; an assignment that fails behind a sum; members whose link,   *)
(* or whose own key, has the name of the key that they are linked to.      *)
Limits == Design("sale" :> <<Add0("account", "of"), Checked(Made(Add0("stock", "in"), 1), 2)>>
                 @@ "account" :> <<Checked(Made(Add0("group", "in"), 2), 3)>>, Sales("none"), {"sale"})
Behind == Design("sale" :> <<Add0("account", "of"), Set(Add0("stock", "in"))>>, Sales("none"), {"sale"})
Named(same) == Design("sale" :> <<Add0("account", "of")>> @@ "account" :> <<Add0("group", "in")>>,
                      Sales(same), {"account"})

Broken == "limits" :> Limits @@ "behind" :> Behind @@ "link" :> Named("link") @@ "key" :> Named("key")

Account(k, in) == [Blank(k) EXCEPT !.up["in"] = in]
Child(k, in)   == [Blank(k) EXCEPT !.up["in"] = in, !.up["of"] = 1, !.n = 1]
Stored(k, of)  == [Blank(k) EXCEPT !.up["in"] = 1, !.up["of"] = of]

Empty == [f \in SomeFiles |-> <<>>]
Sale(k, a, n) == [Blank(k) EXCEPT !.up["of"] = a, !.up["in"] = a, !.n = n]

(* Two accounts of one group or of two, some totals still missing; a sale  *)
(* or two, and a deleted one.                                              *)
OneGroup  == [Empty EXCEPT !["account"] = <<Account(1, 1), Account(2, 1)>>, !["group"] = <<Blank(1)>>,
                           !["stock"] = <<Blank(1), Blank(2)>>]
TwoGroups == [Empty EXCEPT !["account"] = <<Account(2, 1), Account(1, 2)>>, !["group"] = <<Blank(2)>>,
                           !["param"] = <<Blank(1)>>,
                           !["sale"] = <<[Sale(1, 2, 1) EXCEPT !.live = FALSE]>>]
(* A sale of one account that has the key of the other one.                *)
Crossed == [base |-> OneGroup, file |-> "sale", recs |-> <<Sale(2, 1, 2), Sale(3, 2, 1)>>]

(* Three accounts below each other.                                        *)
OneFamily == <<Child(3, 2), Child(1, 0), Child(2, 1)>>

TwoSales == [base |-> OneGroup, file |-> "sale", recs |-> <<Sale(1, 1, 2), Sale(2, 2, 1)>>]
OneSale  == [base |-> TwoGroups, file |-> "sale", recs |-> <<Sale(2, 1, 2)>>]
FamilyLoad == [base |-> Empty, file |-> "account", recs |-> OneFamily]

(* Two accounts, one without a stock.                                      *)
OneStock == [Empty EXCEPT !["account"] = <<Stored(1, 1), Stored(2, 2)>>,
                          !["stock"] = <<Blank(1)>>, !["group"] = <<Blank(1)>>]
NotedLoad == [base |-> OneStock, file |-> "sale", recs |-> <<Sale(1, 1, 1)>>]

SomeLoads == "chain" :> {TwoSales, OneSale} @@ "branch" :> {TwoSales} @@ "joint" :> {OneSale}
               @@ "noted" :> {NotedLoad} @@ "family" :> {FamilyLoad}
BrokenLoads == [t \in DOMAIN Broken |-> IF t = "key" THEN {Crossed} ELSE {TwoSales, OneSale}]

(* Inside a with shared of some of the files.                              *)
FromRd == {[f \in SomeFiles |-> IF f \in {"sale", "account"} THEN LM!RdMode ELSE LM!NullMode]}

SomeValues == {0, 1, 2}
=============================================================================
