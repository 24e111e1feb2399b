------------------------------ MODULE LockModes ------------------------------
(***************************************************************************)
(* The lock modes of a shared data file and the byte ranges that stand for *)
(* them: enum LockMode (fandio/FileEnums.h) and ModeLockBnds               *)
(* (fandio/locks.cpp).                                                     *)
(*                                                                         *)
(* A station that works in one of the four weak modes locks the single     *)
(* byte of its own number in the group of that mode; a strong mode locks a *)
(* range that starts with the group of the weak modes it refuses.  Group k *)
(* starts at k * Width (0x100 in the code), positions are relative to the  *)
(* base ModeLock = 0x40000000.                                             *)
(***************************************************************************)
EXTENDS Integers

CONSTANT Width          \* distance of two groups of mode bytes (0x100)

ASSUME WidthAssumption == Width \in Nat /\ Width >= 2

NullMode   == 0         \* no lock
NoExclMode == 1         \* weak: refuses Excl
NoDelMode  == 2         \* weak: refuses Del and above
NoCrMode   == 3         \* weak: refuses Cr and above
RdMode     == 4         \* weak: reading, refuses Wr and above
WrMode     == 5         \* strong: rewriting records
CrMode     == 6         \* strong: adding records
DelMode    == 7         \* strong: deleting records
ExclMode   == 8         \* strong: reorganisation

LockMode == NullMode .. ExclMode

(* Mutants of ModeLockBnds: the group of a weak mode numbered one too low; *)
(* strong ranges one group long, as if the group refused were the only one.*)
GroupOneTooLow(mode, node) ==
  IF mode = NullMode THEN {}
  ELSE IF mode <= RdMode
       THEN {(mode - NoDelMode) * Width + node}
       ELSE ((ExclMode - mode) * Width) .. (4 * Width - 2)
OneGroupOnly(mode, node) ==
  IF mode = NullMode THEN {}
  ELSE IF mode <= RdMode
       THEN {(mode - NoExclMode) * Width + node}
       ELSE ((ExclMode - mode) * Width) .. ((ExclMode - mode + 1) * Width - 2)

(* The bytes a station with number node locks for a mode.  The strong     *)
(* ranges all end at 0x3FE: 0x300+0xFF = 0x200+0x1FF = 0x100+0x2FF =      *)
(* 0x000+0x3FF.                                                           *)
ModeLockBnds(mode, node) ==
  IF mode = NullMode THEN {}
  ELSE IF mode <= RdMode
       THEN {(mode - NoExclMode) * Width + node}
       ELSE ((ExclMode - mode) * Width) .. (4 * Width - 2)

=============================================================================
