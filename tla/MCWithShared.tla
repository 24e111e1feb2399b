----------------------------- MODULE MCWithShared -----------------------------
(* Instances of WithShared for TLC: procedures with a few statements.      *)
EXTENDS WithShared, TLC

CONSTANTS u1, u2, F, G, s1, s2, s3, s4, s5

TwoUsers == {u1, u2}
TwoFiles == {F, G}
OneRecord == {1}

E(f, m) == [file |-> f, md |-> m, n |-> 1]
S(op, list, else, in) == [op |-> op, list |-> list, else |-> else, in |-> in]

(* Statements of both kinds that take the same files in opposite orders,   *)
(* and one inside the first that raises a mode.                            *)
MixedStmts == {s1, s2, s3, s4, s5}
MixedCode ==
  s1 :> S("shared", <<E(F, RdMode), E(G, CrMode)>>, FALSE, NoStmt) @@
  s2 :> S("shared", <<E(G, RdMode), E(F, WrMode)>>, TRUE, NoStmt) @@
  s3 :> S("shared", <<E(F, WrMode)>>, TRUE, s1) @@
  s4 :> S("locked", <<E(F, RdMode), E(G, RdMode)>>, FALSE, NoStmt) @@
  s5 :> S("locked", <<E(G, RdMode), E(F, RdMode)>>, TRUE, NoStmt)

=============================================================================
