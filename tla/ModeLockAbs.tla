----------------------------- MODULE ModeLockAbs -----------------------------
(***************************************************************************)
(* What the mode locks of one shared file promise to its users: the table  *)
(* of lock modes of the manual (html_help/rejstrik/t.html, "Tabulka modu   *)
(* blokovani", and m.html, "Mody blokovani souboru").  Each user has one   *)
(* mode, a mode is granted only when no other user's mode refuses it, and  *)
(* giving a mode up is always possible.                                    *)
(***************************************************************************)
EXTENDS LockModes

CONSTANT Users

VARIABLE mode           \* mode[u]: the lock mode user u works in

(* "ostatni nemohou ...": the modes that a user in mode m forbids to the   *)
(* other users, line by line from m.html.                                  *)
Refused(m) ==
  CASE m = NullMode   -> {}
    [] m = NoExclMode -> {ExclMode}
    [] m = NoDelMode  -> {DelMode, ExclMode}
    [] m = NoCrMode   -> {CrMode, DelMode, ExclMode}
    [] m = RdMode     -> {WrMode, CrMode, DelMode, ExclMode}
    [] m = WrMode     -> {RdMode, WrMode, CrMode, DelMode, ExclMode}
    [] m = CrMode     -> {NoCrMode, RdMode, WrMode, CrMode, DelMode, ExclMode}
    [] m = DelMode    -> {NoDelMode, NoCrMode, RdMode, WrMode, CrMode, DelMode,
                          ExclMode}
    [] m = ExclMode   -> LockMode \ {NullMode}

Compatible(m1, m2) == m2 \notin Refused(m1)

Init == mode = [u \in Users |-> NullMode]

(* User u goes over to mode m, which no other user refuses.                *)
Grant(u, m) ==
  /\ \A v \in Users \ {u} : Compatible(mode[v], m)
  /\ mode' = [mode EXCEPT ![u] = m]

Next == \E u \in Users, m \in LockMode : Grant(u, m)

Spec == Init /\ [][Next]_mode

(* No two users ever work in modes of which one refuses the other.         *)
ModesCompatible ==
  \A u, v \in Users : u # v => Compatible(mode[u], mode[v])

=============================================================================
