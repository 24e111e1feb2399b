------------------------------ MODULE AddUpdate ------------------------------
(***************************************************************************)
(* Additive updates, the chapter #A of a file (Core/rdrun.cpp): when a     *)
(* record is added, changed or deleted, numbers of records that it is      *)
(* linked to change by the difference, and through their own additives     *)
(* those of the next level.  The data editor and the statements writerec,  *)
(* deleterec and recallrec use it; both lock the linked files first.       *)
(*                                                                         *)
(* A record has a key, keys of the records it is linked to by each role,   *)
(* one number n that formulas and additives are about, and one that        *)
(* assignments set.  The position of a record is its record number: a file *)
(* without an index is in the order of its keys and new records shift the  *)
(* others, in one with an index deleted records keep their place.          *)
(*                                                                         *)
(* An additive [to, role, create, chk, assign] goes to file to along role  *)
(* (NoRole: the last record of a parameter file), creates a missing record *)
(* for create = 2, for 1 when the user says yes, refuses numbers outside   *)
(* chk, and for assign sets the second number instead of adding.           *)
(*                                                                         *)
(* A member link has the field same too: which field of a member has the   *)
(* name of the key of the superior file, its link, its own key or none.    *)
(* Fields are looked up by name in whatever record is at hand.             *)
(***************************************************************************)
EXTENDS AddLock, TLC

CONSTANTS
  Indexed,              \* files with an index
  Roles, NoRole,        \* links to superior files
  Keys, Values,         \* what key, links and number are set to
  Loads,                \* Loads[t] has [base, file, recs]: what the files hold at first,
                        \* and the records that were added to one of them
  MaxRecs, MaxSteps,    \* bounds: records of an edited file, operations
  MaxCalls              \* bound: calls of UpdMemberRef in each other until the stack is full

ASSUME AddUpdateAssumption ==
  /\ Indexed \subseteq Files /\ NoRole \notin Roles /\ 0 \in Values
  /\ \A t \in Tasks :
       /\ DOMAIN Designs[t].adds = Files
       /\ \A i \in DOMAIN Designs[t].members :
            /\ Designs[t].members[i].from \in Indexed
            /\ Designs[t].members[i].same \in {"link", "key", "none"}

VARIABLES
  db,                   \* db[f]: the records of file f
  change,               \* what the operation in progress does: place, record, answer
  ended,                \* how the last operation ended: "done"; "refused", and with it
                        \* LastExitCode set; "kept", refused by an assignment behind a sum;
                        \* "died", with the program
  spoilt,               \* an operation has kept a sum, written a record although its update
                        \* failed, or died
  steps                 \* bound: operations so far

vars == <<lockVars, db, change, ended, spoilt, steps>>

Blank(k) == [key |-> k, up |-> [r \in Roles |-> 0], n |-> 0, last |-> 0, live |-> TRUE]
-----------------------------------------------------------------------------
(* Records.  SearchKey: the records of a file without an index are in the  *)
(* order of the key; an index has the live records only.                   *)
At(d, f, k) == {i \in DOMAIN d[f] : d[f][i].live /\ d[f][i].key = k}
Place(d, f, k) ==
  IF f \in Indexed THEN Len(d[f]) + 1
  ELSE 1 + Cardinality({i \in DOMAIN d[f] : d[f][i].key < k})

CreateRec(d, f, i, r) == [d EXCEPT ![f] = InsertAt(@, i, r)]

(* Link: the record that r is linked to, a copy of it, how it was found.   *)
Link(d, a, r, yes) ==
  LET k == r.up[a.role]
      at(e, i, kind) == [d |-> e, n |-> i, rec |-> e[a.to][i], kind |-> kind, ok |-> TRUE]
      create == a.create = 2 \/ (a.create = 1 /\ yes)
      made(i, key, kind) == at(CreateRec(d, a.to, i, Blank(key)), i, kind)
  IN  CASE a.role = NoRole /\ d[a.to] # <<>> -> at(d, Len(d[a.to]), "d")
        [] a.role = NoRole /\ d[a.to] = <<>> -> made(1, 0, "d")
        [] a.role # NoRole /\ At(d, a.to, k) # {} -> at(d, Min(At(d, a.to, k)), "d")
        [] a.role # NoRole /\ At(d, a.to, k) = {} /\ create -> made(Place(d, a.to, k), k, "+")
        [] OTHER -> [d |-> d, n |-> 0, rec |-> Blank(k), kind |-> "+", ok |-> FALSE]

NoLink(d) == [d |-> d, n |-> 0, rec |-> Blank(0), kind |-> "d", ok |-> TRUE]

UpdateRec(d, f, i, r) == IF i = 0 THEN d ELSE [d EXCEPT ![f][i] = r]

(* Assign: the linked record gets the number, when the condition holds.    *)
Assign(d, a, r, yes) ==
  LET set(l) == [d |-> UpdateRec(l.d, a.to, l.n, [l.rec EXCEPT !.last = r.n]), ok |-> l.ok]
  IN  IF r.n = 0 THEN [d |-> d, ok |-> TRUE] ELSE set(Link(d, a, r, yes))

(* Add: back takes the value away again, unchecked.                        *)
Add(r, value, back) == [r EXCEPT !.n = @ + IF back THEN -value ELSE value]

(* What one additive adds and where, for an update u: to the record linked *)
(* before (nOld) and to the one linked now (n), or the difference to the   *)
(* one record that is both.                                                *)
Shares(d, a, u) ==
  LET r     == IF u.kind = "-" THEN -u.new.n ELSE u.new.n
      rOld  == IF u.kind = "d" THEN u.old.n ELSE 0
      share(l, o) ==
        LET same == rOld # 0 /\ o.n = l.n
            by   == IF same THEN r - rOld ELSE r
        IN  [d |-> o.d, ok |-> l.ok /\ o.ok,
             n |-> IF by = 0 /\ same THEN 0 ELSE l.n, nOld |-> IF same THEN 0 ELSE o.n,
             kind |-> l.kind, kindOld |-> o.kind,
             rec |-> Add(l.rec, by, u.back), recOld |-> Add(o.rec, -rOld, u.back)]
      after(l) == share(l, IF rOld # 0 /\ l.ok THEN Link(l.d, a, u.old, u.yes) ELSE NoLink(l.d))
  IN  after(IF r # 0 THEN Link(d, a, u.new, u.yes) ELSE NoLink(d))

(* A number added to is refused outside chk, except when it is undone.     *)
Allowed(s, a, u) ==
  \/ u.back
  \/ (s.nOld # 0 => s.recOld.n \in a.chk) /\ (s.n # 0 => s.rec.n \in a.chk)

(* Mutant: an update that fails is not undone.                             *)
NotUndone(d, u, at) == [u EXCEPT !.back = TRUE, !.stop = 1]

(* Backtracking: the additives before the one that failed, with the sign   *)
(* changed.                                                                *)
Undoing(d, u, at) == [u EXCEPT !.back = TRUE, !.stop = at]

RECURSIVE RunAddUpdate(_, _, _)

(* TransAdd: the update of the superior file's own superiors, from what    *)
(* the file has at n to rec.                                               *)
TransAdd(d, f, kind, n, rec, back, yes) ==
  IF n = 0 THEN [d |-> d, ok |-> TRUE, kept |-> FALSE]
  ELSE RunAddUpdate(d, f, [kind |-> kind, old |-> d[f][n], new |-> rec, back |-> back,
                           stop |-> 0, skip |-> NoRole, yes |-> yes])

(* Mutant: when the new record fails, what the old one has done stays.     *)
HalfTransfer(s, a, u) ==
  LET new(t) == TransAdd(t.d, a.to, s.kind, s.n, s.rec, FALSE, u.yes)
      both(d) == UpdateRec(UpdateRec(d, a.to, s.nOld, s.recOld), a.to, s.n, s.rec)
      end(t) == IF t.ok THEN [t EXCEPT !.d = both(@)] ELSE t
      on(t)  == IF t.ok THEN end(new(t)) ELSE t
  IN  IF s.ok /\ Allowed(s, a, u) THEN on(TransAdd(s.d, a.to, s.kindOld, s.nOld, s.recOld, FALSE, u.yes))
      ELSE [d |-> s.d, ok |-> FALSE, kept |-> FALSE]

(* The next level first: the old record, then the new one, which undoes    *)
(* the old one when it fails; then both are written.                       *)
Transfer(s, a, u) ==
  LET old    == TransAdd(s.d, a.to, s.kindOld, s.nOld, s.recOld, FALSE, u.yes)
      new(t) == TransAdd(t.d, a.to, s.kind, s.n, s.rec, FALSE, u.yes)
      undone(t) == TransAdd(t.d, a.to, s.kindOld, s.nOld, s.recOld, TRUE, u.yes).d
      both(d)   == UpdateRec(UpdateRec(d, a.to, s.nOld, s.recOld), a.to, s.n, s.rec)
      end(t) == IF t.ok THEN [t EXCEPT !.d = both(@)] ELSE [t EXCEPT !.d = undone(t)]
      on(t)  == IF t.ok THEN end(new(t)) ELSE t
  IN  IF s.ok /\ Allowed(s, a, u) THEN on(old) ELSE [d |-> s.d, ok |-> FALSE, kept |-> FALSE]

(* RunAddUpdate: the additives of f in their order up to u.stop, those     *)
(* along the role u.skip left out.  at is add_d_back, which only a sum     *)
(* sets: when an assignment fails, the last sum before it is taken for the *)
(* one that has failed and stays (kept).                                   *)
RunAddUpdate(d, f, u) ==
  LET upto == IF u.stop = 0 THEN Len(Adds(f)) ELSE u.stop - 1
      one(s, i, a) ==
        IF ~ s.ok \/ (u.skip # NoRole /\ a.role = u.skip) THEN s
        ELSE IF a.assign THEN [at |-> s.at, kept |-> s.at # 0] @@ Assign(s.d, a, u.new, u.yes)
        ELSE [at |-> i] @@ Transfer(Shares(s.d, a, u), a, u)
      all == FoldLeft(LAMBDA s, i : one(s, i, Adds(f)[i]),
                      [d |-> d, ok |-> TRUE, kept |-> FALSE, at |-> 0], [i \in 1 .. upto |-> i])
      end(s) == [ok |-> s.ok, kept |-> ~ s.ok /\ s.kept,
                 d  |-> IF s.ok \/ s.at = 0 THEN s.d
                        ELSE RunAddUpdate(s.d, f, Undoing(s.d, u, s.at)).d]
  IN  end(all)
-----------------------------------------------------------------------------
(* What the operations do once they have their locks: the files, whether   *)
(* and how they were refused, whether a record was missed, and whether the *)
(* program has died.                                                       *)
Update(o, kind, old, new, skip) ==
  [kind |-> kind, old |-> old, new |-> new, back |-> FALSE, stop |-> 0, skip |-> skip, yes |-> o.yes]

Outcome(s, missed) == [missed |-> missed, died |-> FALSE] @@ s

DeleteRec(d, f, i) ==
  IF f \in Indexed THEN [d EXCEPT ![f][i].live = FALSE] ELSE [d EXCEPT ![f] = RemoveAt(@, i)]

(* UpdMemberRef: the records linked to the old key follow the new one, or  *)
(* are deleted with it, whether or not their own additives succeed.  Its   *)
(* call for the members of a member looks again for links to the file of   *)
(* the editor, with the key that it finds in the member by the name of the *)
(* key of that file: right for a file linked to itself; the same members   *)
(* again when their link has that name; those with an empty link when no   *)
(* field has it.                                                           *)
KeyIn(o, m, r) ==
  CASE m.from = o.f \/ m.same = "key" -> r.key
    [] m.from # o.f /\ m.same = "link" -> r.up[m.role]
    [] m.from # o.f /\ m.same = "none" -> 0

MembersOf(d, m, k) ==
  SelectSeq([j \in DOMAIN d[m.from] |-> j],
            LAMBDA j : d[m.from][j].live /\ d[m.from][j].up[m.role] = k)

RECURSIVE UpdMemberRef(_, _, _, _, _)

Follow(s, o, m, j, to, calls) ==
  LET old == s.d[m.from][j]
      new == IF o.kind = "-" THEN old ELSE [old EXCEPT !.up[m.role] = to]
      ran == RunAddUpdate(s.d, m.from, Update(o, o.kind, old, new, m.role))
      below == UpdMemberRef([s EXCEPT !.d = ran.d, !.missed = @ \/ ~ ran.ok], o,
                            KeyIn(o, m, old), KeyIn(o, m, new), calls - 1)
      put(d) == IF o.kind = "-" THEN DeleteRec(d, m.from, j) ELSE UpdateRec(d, m.from, j, new)
  IN  IF s.died THEN s
      ELSE IF below.died THEN below
      ELSE [below EXCEPT !.d = put(@)]

(* Mutant: a call for the members of a member finds none.                  *)
FirstLevel(s, o, from, to, calls) ==
  LET along(t, m) ==
        IF calls < MaxCalls \/ m.to # o.f \/ (o.kind = "d" /\ from = to) THEN t
        ELSE FoldLeft(LAMBDA v, j : Follow(v, o, m, j, to, calls), t, MembersOf(t.d, m, from))
  IN  FoldLeft(along, s, design.members)

UpdMemberRef(s, o, from, to, calls) ==
  LET along(t, m) ==
        IF m.to # o.f \/ (o.kind = "d" /\ from = to) THEN t
        ELSE FoldLeft(LAMBDA v, j : Follow(v, o, m, j, to, calls), t, MembersOf(t.d, m, from))
  IN  IF calls = 0 THEN [s EXCEPT !.died = TRUE] ELSE FoldLeft(along, s, design.members)

(* The data editor changes nothing when the additives are refused.         *)
WriteCRec(o) ==
  LET old == db[o.f][o.i]
      write(t) == IF t.died THEN t ELSE [t EXCEPT !.d = UpdateRec(@, o.f, o.i, o.new)]
      put(s) ==
        CASE ~ s.ok -> s
          [] s.ok /\ o.kind = "+" -> [s EXCEPT !.d = CreateRec(@, o.f, Place(@, o.f, o.new.key), o.new)]
          [] s.ok /\ o.kind = "d" -> write(UpdMemberRef(s, o, old.key, o.new.key, MaxCalls))
      run == RunAddUpdate(db, o.f, Update(o, o.kind, IF o.kind = "d" THEN old ELSE o.new, o.new, NoRole))
  IN  put(Outcome(run, FALSE))

(* CleanUp, which empties the record, and the deletion, which writes it.   *)
CleanUp(o) ==
  LET old == db[o.f][o.i]
      empty(t) ==
        IF t.died THEN t
        ELSE [t EXCEPT !.d = DeleteRec(UpdateRec(@, o.f, o.i, Blank(0)), o.f, o.i)]
      put(s) == IF s.ok THEN empty(UpdMemberRef(s, o, old.key, 0, MaxCalls)) ELSE s
  IN  put(Outcome(RunAddUpdate(db, o.f, Update(o, "-", old, old, NoRole)), FALSE))

(* writerec: a new record is written before its additives are run, another *)
(* one after; the exit code alone tells that they were refused.            *)
WriteRec(o) ==
  LET old    == db[o.f][o.i]
      kind   == IF o.kind = "d" /\ old.live THEN "d" ELSE "+"
      before == IF o.kind = "+" THEN CreateRec(db, o.f, Len(db[o.f]) + 1, o.new) ELSE db
      write(d) == IF o.kind = "+" THEN d ELSE UpdateRec(d, o.f, o.i, o.new)
      put(s) == Outcome([s EXCEPT !.d = write(@)], ~ s.ok)
  IN  put(RunAddUpdate(before, o.f, Update(o, kind, IF kind = "d" THEN old ELSE o.new, o.new, NoRole)))

DeleteRecProc(o) ==
  LET old == db[o.f][o.i]
      put(s) == Outcome([s EXCEPT !.d = DeleteRec(@, o.f, o.i)], ~ s.ok)
  IN  put(RunAddUpdate(db, o.f, Update(o, "-", old, old, NoRole)))

(* recallrec: the record is there again before its additives are run.      *)
RecallRecProc(o) ==
  LET put(s) == Outcome(s, ~ s.ok)
  IN  put(RunAddUpdate([db EXCEPT ![o.f][o.i].live = TRUE], o.f,
                       Update(o, "+", o.new, o.new, NoRole)))

Done(o) ==
  CASE o.by = "editor" /\ o.kind # "-" -> WriteCRec(o)
    [] o.by = "editor" /\ o.kind = "-" -> CleanUp(o)
    [] o.by = "proc" /\ o.kind \in {"+", "d"} -> WriteRec(o)
    [] o.by = "proc" /\ o.kind = "recall" -> RecallRecProc(o)
    [] o.by = "proc" /\ o.kind = "-" -> DeleteRecProc(o)
-----------------------------------------------------------------------------
IsTotal(f) == \E g \in Files : \E i \in DOMAIN Adds(g) : Adds(g)[i].to = f

(* What a user enters in a record that is old so far: its key, the links   *)
(* that additives use, the number unless it is a total.                    *)
RolesOf(f) == {Adds(f)[i].role : i \in DOMAIN Adds(f)} \ {NoRole}

Entered(f, old) ==
  {[old EXCEPT !.key = k, !.up = [r \in Roles |-> IF r \in RolesOf(f) THEN u[r] ELSE @[r]],
               !.n = v, !.live = TRUE] :
     k \in Keys, u \in [RolesOf(f) -> Keys], v \in IF IsTotal(f) THEN {old.n} ELSE Values}

(* No two records with the same key; a file without an index stays in the  *)
(* order of its keys (TestDuplKey).                                        *)
KeyFree(f, k, except) == At(db, f, k) \subseteq except
AtEnd(f, k) == \A i \in DOMAIN db[f] : db[f][i].key < k

(* A load: the files as they were, and the records added to one of them.   *)
Loaded(load) ==
  LET add(d, new) ==
        LET u == Update([yes |-> TRUE], "+", new, new, NoRole)
        IN  CreateRec(RunAddUpdate(d, load.file, u).d, load.file, Len(d[load.file]) + 1, new)
  IN  FoldLeft(add, load.base, load.recs)

Init ==
  /\ LockInit
  /\ \E load \in Loads[task] : db = Loaded(load)
  /\ change = <<>> /\ ended = "done" /\ spoilt = FALSE /\ steps = 0

Begin(by, kind, f, i, new, yes) ==
  /\ BeginLocks(Operation(by, kind, f)) /\ change' = [i |-> i, new |-> new, yes |-> yes]
  /\ steps' = steps + 1
  /\ UNCHANGED <<db, ended, spoilt>>

NewRec(by, f, yes) ==
  /\ Cardinality({i \in DOMAIN db[f] : db[f][i].live}) < MaxRecs
  /\ \E new \in Entered(f, Blank(0)) :
       /\ KeyFree(f, new.key, {}) /\ (by = "proc" /\ f \notin Indexed => AtEnd(f, new.key))
       /\ Begin(by, "+", f, 1, new, yes)

(* A statement leaves the key as it is, and may write a deleted record.    *)
EditRec(by, f, yes) ==
  \E i \in DOMAIN db[f] : \E new \in Entered(f, db[f][i]) :
    /\ new # db[f][i] /\ KeyFree(f, new.key, {i})
    /\ (by = "proc" /\ db[f][i].live) \/ f \notin Indexed => new.key = db[f][i].key
    /\ by = "editor" => db[f][i].live
    /\ Begin(by, "d", f, i, new, yes)

DelRec(by, f, yes) ==
  \E i \in DOMAIN db[f] :
    /\ db[f][i].live
    /\ by = "proc" => ~ IsTotal(f)
    /\ Begin(by, "-", f, i, db[f][i], yes)

RecallRec(f, yes) ==
  \E i \in DOMAIN db[f] :
    /\ f \in Indexed /\ ~ db[f][i].live
    /\ db[f][i].key \in Keys /\ KeyFree(f, db[f][i].key, {})
    /\ Begin("proc", "recall", f, i, [db[f][i] EXCEPT !.live = TRUE], yes)

Lock == (LockNext \/ Refused \/ GiveUp) /\ UNCHANGED <<db, change, ended, spoilt, steps>>

EndOf(s) ==
  CASE s.died -> "died" [] ~ s.died /\ s.ok -> "done"
    [] ~ s.died /\ s.kept -> "kept" [] OTHER -> "refused"

Run ==
  /\ EndLocks
  /\ \E o \in {change @@ op} : \E s \in {Done(o)} :
       /\ db' = s.d /\ ended' = EndOf(s)
       /\ spoilt' = (spoilt \/ s.missed \/ EndOf(s) \in {"kept", "died"})
  /\ change' = <<>> /\ UNCHANGED steps

(* Whether the user may be asked.                                          *)
MayAsk(f) == \E g \in {f} \cup Reached({f}) : \E i \in DOMAIN Adds(g) : Adds(g)[i].create = 1

Answers(f) == IF MayAsk(f) THEN BOOLEAN ELSE {FALSE}

Next ==
  \/ /\ op = NoOp /\ steps < MaxSteps /\ ended # "died"
     /\ \E f \in design.edited, by \in {"editor", "proc"} : \E yes \in Answers(f) :
          \/ NewRec(by, f, yes)
          \/ EditRec(by, f, yes)
          \/ DelRec(by, f, yes)
          \/ RecallRec(f, yes)
  \/ Lock \/ Run

Spec == Init /\ [][Next]_vars
-----------------------------------------------------------------------------
(* The sum that record i of file f should have: over the additives that go *)
(* to it, the numbers of the records linked to it.                         *)
LinkedTo(g, a, i) ==
  {j \in DOMAIN db[g] : db[g][j].live /\ IF a.role = NoRole THEN i = Len(db[a.to])
                                          ELSE db[g][j].up[a.role] = db[a.to][i].key}

Sum(g, js) == FoldSet(LAMBDA j, n : n + db[g][j].n, 0, js)

Due(f, i) ==
  FoldSet(LAMBDA g, n : n + FoldLeft(LAMBDA m, a : m + IF a.to = f /\ ~ a.assign
                                        THEN Sum(g, LinkedTo(g, a, i)) ELSE 0, 0, Adds(g)),
          0, Files)

(* Every total is the sum of the records linked to its record, through all *)
(* levels: whatever was added, moved from one superior record to another,  *)
(* deleted together with its members or refused in the middle of a chain   *)
(* and undone; unless a record was written although its update had failed, *)
(* an assignment has failed behind a sum, which stays, or the calls for    *)
(* members had no end (RunAddUpdate, TransAdd, UpdMemberRef).              *)
SumsMatch ==
  ~ spoilt => \A f \in Files : \A i \in DOMAIN db[f] :
    IsTotal(f) /\ db[f][i].live => db[f][i].n = Due(f, i)

(* The records of a file that say something, without what assignments set, *)
(* which nothing takes back.                                               *)
Summed(r)    == [r EXCEPT !.last = 0]
Filled(d, f) == {Summed(r) : r \in Range(d[f])} \ {Blank(r.key) : r \in Range(d[f])}

(* Nobody has been touched but the record that a statement writes, which   *)
(* is one of file f.                                                       *)
OneWritten(f) ==
  LET others == DOMAIN db[f] \ IF op.kind = "+" THEN {} ELSE {change.i}
  IN  /\ \A j \in others : Summed(db[f][j]) \in {Summed(r) : r \in Range(db'[f])}
      /\ Cardinality(Filled(db', f) \ Filled(db, f)) <= 1

NoTrace ==
  \A f \in Files : IF op.by = "proc" /\ f = op.f THEN OneWritten(f) ELSE Filled(db', f) = Filled(db, f)

(* The keys that are gone from file f: of records deleted, or with another *)
(* key now.  Whoever was a member of those has been deleted or follows the *)
(* new key, and nobody else.                                               *)
Gone(f) ==
  {db[f][i].key : i \in {i \in DOMAIN db[f] : db[f][i].live}}
    \ {db'[f][i].key : i \in {i \in DOMAIN db'[f] : db'[f][i].live}}

Superiors(f, r) == {m \in Range(design.members) : m.from = f /\ r.up[m.role] \in Gone(m.to)}

MembersWent ==
  \A f \in {m.from : m \in Range(design.members)} :
    /\ \A j \in DOMAIN db'[f] : db'[f][j].live => Superiors(f, db'[f][j]) = {}
    /\ \A j \in DOMAIN db[f] \ IF f = op.f THEN {change.i} ELSE {} :
         Superiors(f, db[f][j]) = {} =>
           db'[f][j].live = db[f][j].live /\ db'[f][j].up = db[f][j].up

Ends == op # NoOp /\ todo = <<>> /\ op' = NoOp

(* An operation is done as a whole or not at all: one that is refused      *)
(* leaves the sums and records of all files as they were, apart from empty *)
(* records that it has created and, for a statement, from the one record   *)
(* that it writes all the same; a change of a key or a deletion in the     *)
(* data editor that is done has taken all members with it, those of        *)
(* members in the same file included, and no others (RunAddUpdate,         *)
(* UpdMemberRef).                                                          *)
WholeOrNotAtAll ==
  [][Ends => /\ ended' = "refused" => NoTrace
             /\ ended' = "done" /\ Follows(op) => MembersWent]_vars

(* The manual of the confirmation of a record with additives and members   *)
(* in the data editor: the whole of it is a kind of transaction that is    *)
(* carried out entirely or not at all (DataEditor::WriteCRec, CleanUp).    *)
OneTransaction ==
  [][Ends /\ op.by = "editor" =>
       IF ended' = "done" THEN Follows(op) => MembersWent ELSE NoTrace]_vars
=============================================================================
