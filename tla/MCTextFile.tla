------------------------------ MODULE MCTextFile ------------------------------
(***************************************************************************)
(* Instances of TextFile for TLC.  A page of 19 bytes holds up to four     *)
(* fragments of 4 bytes and one of 3; a segment is two pages.              *)
(***************************************************************************)
EXTENDS TextFile

Text(len, tag) == [len |-> len, tag |-> tag]

(* Two short texts that are told apart; one behind which two bytes of the  *)
(* page are left, one that fills a page, one on two pages, one of two      *)
(* segments.                                                               *)
Fitting == {NoText, Text(2, 1), Text(2, 2), Text(11, 1), Text(17, 1), Text(20, 1), Text(30, 1)}

(* Nothing yet; a full page; fragments with the place for the next one at  *)
(* the start of a page behind a page with two bytes left; long texts       *)
(* between short ones.                                                     *)
SomeLoads ==
  {<<>>, [i \in 1 .. 4 |-> Text(2, 1 + (i % 2))],
   <<Text(2, 1), Text(11, 1), Text(2, 2)>>, <<Text(30, 1), Text(2, 1), Text(20, 1), Text(2, 2)>>}
=============================================================================
