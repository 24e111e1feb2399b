------------------------------ MODULE MCXIndex ------------------------------
(***************************************************************************)
(* Instances of XIndex for TLC.  A content is a number; the keys are made  *)
(* of its digits.                                                          *)
(***************************************************************************)
EXTENDS XIndex

Digits == 4

Contents == 0 .. 39

(* A key that orders and tells apart all contents, and one that four       *)
(* neighbours share.                                                       *)
Single == [v \in Contents |-> <<v \div Digits, v % Digits>>]
Shared == [v \in Contents |-> <<v \div 16, (v \div Digits) % Digits>>]

(* A key with one step: what is stored of the key behind it grows when the *)
(* key before it goes.  And a key that all contents share.                 *)
Stepped == [v \in Contents |-> <<IF v < 3 THEN 1 ELSE 2, v>>]
Same == [v \in Contents |-> <<0, 0, 0, 0, 0, 0>>]

XK(root, duplic, keys) ==
  [root |-> root, duplic |-> duplic, inwork |-> FALSE, keys |-> keys]

Both  == <<XK(1, TRUE, Shared), XK(2, FALSE, Single)>>
Steps == <<XK(1, TRUE, Stepped)>>
Sames == <<XK(1, TRUE, Same)>>

(* Records 1 .. n hold the contents 0 .. n - 1, but not in this order; the *)
(* last slots are free.  In the last load some contents are there twice.   *)
Load(n, more) == [r \in 1 .. n + more |-> IF r <= n THEN (13 * (r - 1)) % n ELSE Deleted]

Holding(n, contents) == {r \in 1 .. n : Load(n, 0)[r] \in contents}

LoadTwice(n) == [r \in 1 .. n |-> LET v == Load(n, 0)[r] IN IF v % 5 = 4 THEN v - 1 ELSE v]

(* What happens to a file of n records with more free slots.               *)
Setup(keys, load, slots, vals, ops, times) ==
  [keys |-> keys, load |-> load, slots |-> slots, vals |-> vals,
   ops |-> ops, work |-> "none", places |-> {}, left |-> times]

WorkSetup(n, kind, slots, places, times) ==
  [keys |-> Both, load |-> Load(n, 0), slots |-> slots, vals |-> {},
   ops |-> {"work"}, work |-> kind, places |-> places, left |-> times]

(* A tree that shrinks from three levels to one leaf.                      *)
Shrinking == {Setup(Both, Load(n, 0), Holding(n, i .. i + 7), {}, {"delete"}, 9) :
                n \in {16, 40}, i \in {0, 8}}

(* Inserts among records with and without the same keys.                   *)
Growing == {Setup(Both, Load(24, 4), 25 .. 28, {4, 5, 30, 31, 32}, {"insert"}, 9)}

(* All operations on a few records.                                        *)
Changing == {Setup(Both, Load(28, 1), Holding(28, {8}) \cup {29}, {3, 30, 31},
                   {"insert", "delete", "recall", "update", "edit"}, 3)}

(* Keys that are stored longer after a delete, in a root and below it;     *)
(* equal keys below two inner pages; keys that the build refuses.          *)
Stepping == {Setup(Steps, Load(n, 2), Holding(n, {2, 3, 8}) \cup n + 1 .. n + 2,
                   {23, 25}, {"insert", "delete"}, 4) : n \in {27, 32}}
Equal    == {Setup(Sames, Load(34, 1), {1, 20, 34, 35}, {5}, {"insert", "delete"}, 2)}
Refusing == {Setup(Both, LoadTwice(24), {1, 2, 20}, {}, {"delete"}, 3)}

(* Work indexes in the order of their user and of their keys.              *)
Working == {WorkSetup(n, "places", {1, 6}, {1, 6, 12}, 4) : n \in {12, 33}}
           \cup {WorkSetup(16, "keys", {1, 5, 6, 16}, {1, 5, 12}, 6)}

AllSetups == Shrinking \cup Growing \cup Changing \cup Stepping \cup Equal
             \cup Refusing \cup Working

(* Records deleted in the data editor; the last content is the one of an   *)
(* empty record, which no record of the file has.                          *)
Editing == {Setup(Both, Load(16, 0), 1 .. 16, {}, {"delete"}, 2)}

Empty == 39

EditorDeletes == \E r \in setup.slots : Does("delete") /\ DelIndRec(r, Empty)

EditorSpec == Init /\ [][Next \/ EditorDeletes]_vars
=============================================================================
