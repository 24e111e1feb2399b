---------------------------- MODULE AddLockProofs ----------------------------
(***************************************************************************)
(* Proofs about AddLock: an update runs with every lock that its additives *)
(* need, for any files, additives and links between them, however far they *)
(* reach, whoever refuses a lock in between; and the modes are the old     *)
(* ones afterwards.                                                        *)
(*                                                                         *)
(* The files reached are the least set that is closed under the links; it  *)
(* is not known before how long the list todo gets.  The invariant Covered *)
(* says that of every file come to so far each link is still listed or     *)
(* locked, and leads to a file come to: with an empty list this set is     *)
(* closed.  Saved says that all files but those that are given back have   *)
(* their old mode, and that the saved modes are the old ones.              *)
(***************************************************************************)
EXTENDS AddLock, SequenceTheorems, TLAPS

Looks == [kind : {"own", "add", "memb"}, at : Files, from : Files, to : Files, md : Int]
Ops   == [by : {"editor", "proc"}, kind : Kinds, f : Files]

TypeInv ==
  /\ task \in Tasks
  /\ mode \in [Files -> Int] /\ ex \in [Files -> Int] /\ outer \in [Files -> Int]
  /\ op # NoOp => op \in Ops
  /\ todo \in Seq(Looks)

Listed(e, list) == \E i \in 1 .. Len(list) : list[i] = e

(* The files whose members and whose additives an operation comes to.      *)
MembAt(o) == {o.f} \cup IF o.by = "proc" THEN {} ELSE Followers(o.f)
AddAt(o)  == MembAt(o) \cup Reached(MembAt(o))

(* What is left to look at are links of those files.                       *)
OnTheWay(o, e) ==
  /\ e.kind = "own" => o.by = "editor" /\ e.to = o.f
  /\ e.kind = "add" => e.at \in AddAt(o) /\ Listed(e, AddLocks(e.at))
  /\ e.kind = "memb" =>
       o.by = "editor" /\ e.at \in MembAt(o) /\ Listed(e, MembLocks(e.at, ModeFor(o)))

(* The modes of the linked files are saved, the other ones are as before.  *)
SavedBy(o) ==
  /\ oldMd = outer[o.f]
  /\ \A f \in LinkedBy(o) : ex[f] = outer[f]
  /\ \A f \in Files \ LinkedBy(o) : f # o.f => mode[f] = outer[f]
  /\ \A e \in Looks : Listed(e, todo) => OnTheWay(o, e)

Saved == \A o \in Ops : op # NoOp /\ op = o => SavedBy(o)

(* A look that is done: the lock that it needs is held, and the links of   *)
(* the file locked are in turn seen.                                       *)
Locked(e, seen, m) == Needed(e) => m[e.to] >= e.md /\ e.to \in seen

Covers(o, adds, membs, list, m) ==
  /\ o.f \in adds /\ membs \subseteq adds
  /\ Follows(o) => o.f \in membs
  /\ \A f \in adds : \A i \in 1 .. Len(Adds(f)) :
       Listed(AddLocks(f)[i], list) \/ Locked(AddLocks(f)[i], adds, m)
  /\ \A f \in membs : \A i \in 1 .. Len(design.members) :
       \/ Listed(MembLocks(f, ModeFor(o))[i], list)
       \/ Locked(MembLocks(f, ModeFor(o))[i], membs, m)

Covered ==
  \A o \in Ops : op # NoOp /\ op = o =>
    \E adds, membs \in SUBSET Files : Covers(o, adds, membs, todo, mode)

Back == op = NoOp => mode = outer

IInv == TypeInv /\ Saved /\ Covered /\ Back
-----------------------------------------------------------------------------
(* Lists.                                                                  *)
LEMMA ListedConcat ==
  ASSUME NEW S, NEW s \in Seq(S), NEW t \in Seq(S), NEW e
  PROVE  Listed(e, s \o t) <=> Listed(e, s) \/ Listed(e, t)
<1>1. /\ Len(s) \in Nat /\ Len(t) \in Nat /\ Len(s \o t) = Len(s) + Len(t)
      /\ \A i \in 1 .. Len(s) + Len(t) : (s \o t)[i] = IF i <= Len(s) THEN s[i] ELSE t[i - Len(s)]
  BY ConcatProperties, LenProperties
<1>2. Listed(e, s \o t) => Listed(e, s) \/ Listed(e, t)
  BY <1>1 DEF Listed
<1>3. Listed(e, s) => Listed(e, s \o t)
  BY <1>1 DEF Listed
<1>4. ASSUME Listed(e, t) PROVE Listed(e, s \o t)
  <2>1. PICK i \in 1 .. Len(t) : t[i] = e
    BY <1>4 DEF Listed
  <2>2. i + Len(s) \in 1 .. Len(s) + Len(t) /\ (s \o t)[i + Len(s)] = t[i]
    BY <1>1
  <2>3. QED
    BY <1>1, <2>1, <2>2 DEF Listed
<1>5. QED
  BY <1>2, <1>3, <1>4

LEMMA ListedTail ==
  ASSUME NEW S, NEW s \in Seq(S), s # <<>>, NEW e
  PROVE  Listed(e, s) <=> e = Head(s) \/ Listed(e, Tail(s))
<1>1. /\ Len(s) \in Nat \ {0} /\ Len(Tail(s)) = Len(s) - 1 /\ Head(s) = s[1]
      /\ \A i \in 1 .. Len(Tail(s)) : Tail(s)[i] = s[i + 1]
  BY HeadTailProperties, EmptySeq, LenProperties
<1>2. ASSUME Listed(e, s) PROVE e = Head(s) \/ Listed(e, Tail(s))
  <2>1. PICK i \in 1 .. Len(s) : s[i] = e
    BY <1>2 DEF Listed
  <2>2. CASE i = 1
    BY <1>1, <2>1, <2>2
  <2>3. CASE i # 1
    <3>1. i - 1 \in 1 .. Len(Tail(s)) /\ Tail(s)[i - 1] = s[i]
      BY <1>1, <2>1, <2>3
    <3>2. QED
      BY <2>1, <3>1 DEF Listed
  <2>4. QED
    BY <2>2, <2>3
<1>3. ASSUME Listed(e, Tail(s)) PROVE Listed(e, s)
  <2>1. PICK i \in 1 .. Len(Tail(s)) : Tail(s)[i] = e
    BY <1>3 DEF Listed
  <2>2. i + 1 \in 1 .. Len(s) /\ s[i + 1] = e
    BY <1>1, <2>1
  <2>3. QED
    BY <2>2 DEF Listed
<1>4. e = Head(s) => Listed(e, s)
  BY <1>1 DEF Listed
<1>5. QED
  BY <1>2, <1>3, <1>4

LEMMA NothingListed == ASSUME NEW e PROVE ~ Listed(e, <<>>)
<1>1. Len(<<>>) = 0
  BY EmptySeq
<1>2. QED
  BY <1>1 DEF Listed
-----------------------------------------------------------------------------
(* The least set closed under links.                                       *)
LEMMA ClosureFacts ==
  ASSUME NEW start \in SUBSET Files, NEW links \in SUBSET (Files \X Files)
  PROVE  /\ Closure(start, links) \subseteq Files /\ start \subseteq Closure(start, links)
         /\ \A l \in links : l[1] \in Closure(start, links) => l[2] \in Closure(start, links)
<1>1. \A l \in links : l[2] \in Files
  OBVIOUS
<1>2. QED
  BY <1>1 DEF Closure, Closed

LEMMA ClosureLeast ==
  ASSUME NEW start, NEW links, NEW s \in SUBSET Files, start \subseteq s,
         \A l \in links : l[1] \in s => l[2] \in s
  PROVE  Closure(start, links) \subseteq s
BY DEF Closure, Closed

LEMMA AddTypes ==
  ASSUME task \in Tasks, NEW f \in Files
  PROVE  /\ Len(Adds(f)) \in Nat /\ Len(design.members) \in Nat
         /\ \A i \in 1 .. Len(Adds(f)) : Adds(f)[i].to \in Files
         /\ \A i \in 1 .. Len(design.members) :
              design.members[i].from \in Files /\ design.members[i].to \in Files
BY AddLockAssumption DEF Adds, design

LEMMA LinkTypes ==
  AddLinks \in SUBSET (Files \X Files) /\ MembLinks \in SUBSET (Files \X Files)
BY DEF AddLinks, MembLinks

LEMMA BesideTypes ==
  ASSUME NEW fs, NEW links PROVE Beside(fs, links) \in SUBSET Files
BY DEF Beside

(* What is beside the files or beside what is reached from them is         *)
(* reached.                                                                *)
LEMMA ReachedStep ==
  ASSUME task \in Tasks, NEW fs \in SUBSET Files, NEW f \in fs \cup Reached(fs),
         NEW i \in 1 .. Len(Adds(f)), Adds(f)[i].to # f
  PROVE  Adds(f)[i].to \in Reached(fs)
<1>1. /\ Reached(fs) = Closure(Beside(fs, AddLinks), AddLinks)
      /\ Reached(fs) \subseteq Files /\ Beside(fs, AddLinks) \subseteq Reached(fs)
      /\ \A l \in AddLinks : l[1] \in Reached(fs) => l[2] \in Reached(fs)
  BY ClosureFacts, LinkTypes, BesideTypes DEF Reached, FromTo
<1>2. f \in Files /\ Adds(f)[i].to \in Files
  BY <1>1, AddTypes
<1>3. <<f, Adds(f)[i].to>> \in AddLinks
  BY <1>2 DEF AddLinks
<1>4. CASE f \in fs
  BY <1>1, <1>2, <1>3, <1>4 DEF Beside
<1>5. CASE f \in Reached(fs)
  BY <1>1, <1>3, <1>5
<1>6. QED
  BY <1>4, <1>5

LEMMA FollowersStep ==
  ASSUME task \in Tasks, NEW f \in Files, NEW g \in {f} \cup Followers(f),
         NEW i \in 1 .. Len(design.members),
         design.members[i].to = g, design.members[i].from # g
  PROVE  design.members[i].from \in Followers(f)
<1>1. /\ Followers(f) = Closure(Beside({f}, MembLinks), MembLinks)
      /\ Followers(f) \subseteq Files /\ Beside({f}, MembLinks) \subseteq Followers(f)
      /\ \A l \in MembLinks : l[1] \in Followers(f) => l[2] \in Followers(f)
  BY ClosureFacts, LinkTypes, BesideTypes DEF Followers, FromTo
<1>2. g \in Files /\ design.members[i].from \in Files
  BY <1>1, AddTypes
<1>3. <<g, design.members[i].from>> \in MembLinks
  BY <1>2 DEF MembLinks
<1>4. CASE g = f
  BY <1>1, <1>2, <1>3, <1>4 DEF Beside
<1>5. CASE g \in Followers(f)
  BY <1>1, <1>3, <1>5
<1>6. QED
  BY <1>4, <1>5
-----------------------------------------------------------------------------
(* Modes and the entries of the lists.                                     *)
LEMMA ModeTypes ==
  /\ \A o \in Ops : ModeFor(o) \in Int
  /\ \A a : AddMode(a) \in Int
  /\ LM!NullMode \in Int
BY DEF Ops, Kinds, ModeFor, AddMode, LM!NullMode, LM!CrMode, LM!WrMode, LM!DelMode

LEMMA AddLocksTypes ==
  ASSUME task \in Tasks, NEW f \in Files
  PROVE  /\ AddLocks(f) \in Seq(Looks) /\ Len(AddLocks(f)) = Len(Adds(f))
         /\ \A i \in 1 .. Len(Adds(f)) :
              AddLocks(f)[i] = Look("add", f, f, Adds(f)[i].to, AddMode(Adds(f)[i]))
<1>1. Len(Adds(f)) \in Nat /\ \A i \in 1 .. Len(Adds(f)) : Adds(f)[i].to \in Files
  BY AddTypes
<1>2. \A i \in 1 .. Len(Adds(f)) : Look("add", f, f, Adds(f)[i].to, AddMode(Adds(f)[i])) \in Looks
  BY <1>1, ModeTypes DEF Look, Looks
<1>3. AddLocks(f) \in [1 .. Len(Adds(f)) -> Looks]
  BY <1>2 DEF AddLocks
<1>4. AddLocks(f) \in Seq(Looks)
  BY <1>1, <1>3, SeqDef
<1>5. Len(AddLocks(f)) = Len(Adds(f))
  BY <1>1, <1>3, <1>4, LenProperties
<1>6. QED
  BY <1>4, <1>5 DEF AddLocks

LEMMA MembLocksTypes ==
  ASSUME task \in Tasks, NEW f \in Files, NEW md \in Int
  PROVE  /\ MembLocks(f, md) \in Seq(Looks) /\ Len(MembLocks(f, md)) = Len(design.members)
         /\ \A i \in 1 .. Len(design.members) :
              MembLocks(f, md)[i] = Look("memb", f, design.members[i].to, design.members[i].from, md)
<1>1. /\ Len(design.members) \in Nat
      /\ \A i \in 1 .. Len(design.members) :
           design.members[i].from \in Files /\ design.members[i].to \in Files
  BY AddTypes
<1>2. \A i \in 1 .. Len(design.members) :
        Look("memb", f, design.members[i].to, design.members[i].from, md) \in Looks
  BY <1>1 DEF Look, Looks
<1>3. MembLocks(f, md) \in [1 .. Len(design.members) -> Looks]
  BY <1>2 DEF MembLocks
<1>4. MembLocks(f, md) \in Seq(Looks)
  BY <1>1, <1>3, SeqDef
<1>5. Len(MembLocks(f, md)) = Len(design.members)
  BY <1>1, <1>3, <1>4, LenProperties
<1>6. QED
  BY <1>4, <1>5 DEF MembLocks

(* The first list: the file itself, its additives, what follows it.        *)
LEMMA LocksOfFacts ==
  ASSUME task \in Tasks, NEW o \in Ops
  PROVE  /\ LocksOf(o) \in Seq(Looks)
         /\ \A e : Listed(e, AddLocks(o.f)) => Listed(e, LocksOf(o))
         /\ \A e : Follows(o) /\ Listed(e, MembLocks(o.f, ModeFor(o))) => Listed(e, LocksOf(o))
         /\ \A e : Listed(e, LocksOf(o)) =>
              \/ o.by = "editor" /\ e = Look("own", o.f, o.f, o.f, ModeFor(o))
              \/ Listed(e, AddLocks(o.f))
              \/ Follows(o) /\ Listed(e, MembLocks(o.f, ModeFor(o)))
<1> DEFINE Own  == <<Look("own", o.f, o.f, o.f, ModeFor(o))>>
           Memb == IF Follows(o) THEN MembLocks(o.f, ModeFor(o)) ELSE <<>>
<1>1. o.f \in Files /\ o.by \in {"editor", "proc"} /\ ModeFor(o) \in Int
  BY ModeTypes DEF Ops
<1>2. AddLocks(o.f) \in Seq(Looks)
  BY <1>1, AddLocksTypes
<1>3. Memb \in Seq(Looks) /\ \A e : Listed(e, Memb) <=> Follows(o) /\ Listed(e, MembLocks(o.f, ModeFor(o)))
  BY <1>1, MembLocksTypes, NothingListed, EmptySeq
<1>4. /\ Own \in Seq(Looks)
      /\ \A e : Listed(e, Own) <=> e = Look("own", o.f, o.f, o.f, ModeFor(o))
  <2>1. Look("own", o.f, o.f, o.f, ModeFor(o)) \in Looks
    BY <1>1 DEF Look, Looks
  <2>2. QED
    BY <2>1 DEF Listed
<1> HIDE DEF Own, Memb
<1>5. CASE o.by = "proc"
  <2>1. LocksOf(o) = AddLocks(o.f) /\ ~ Follows(o)
    BY <1>5 DEF LocksOf, Follows
  <2>2. QED
    BY <1>2, <2>1
<1>6. CASE o.by = "editor"
  <2>1. LocksOf(o) = (Own \o AddLocks(o.f)) \o Memb
    BY <1>6 DEF LocksOf, Own, Memb
  <2>2. Own \o AddLocks(o.f) \in Seq(Looks)
    BY <1>2, <1>4, ConcatProperties
  <2>3. LocksOf(o) \in Seq(Looks)
    BY <2>1, <2>2, <1>3, ConcatProperties
  <2>4. \A e : Listed(e, LocksOf(o)) <=> Listed(e, Own) \/ Listed(e, AddLocks(o.f)) \/ Listed(e, Memb)
    <3>1. TAKE e
    <3>2. Listed(e, Own \o AddLocks(o.f)) <=> Listed(e, Own) \/ Listed(e, AddLocks(o.f))
      BY <1>2, <1>4, ListedConcat
    <3>3. Memb \in Seq(Looks)
      BY <1>3
    <3>4. Listed(e, (Own \o AddLocks(o.f)) \o Memb) <=> Listed(e, Own \o AddLocks(o.f)) \/ Listed(e, Memb)
      BY <2>2, <3>3, ListedConcat
    <3>5. QED
      BY <2>1, <3>2, <3>4
  <2>5. QED
    BY <1>3, <1>4, <1>6, <2>3, <2>4
<1>7. QED
  BY <1>1, <1>5, <1>6

LEMMA BelowFacts ==
  ASSUME task \in Tasks, NEW e \in Looks
  PROVE  /\ Below(e) \in Seq(Looks)
         /\ e.kind = "own" => Below(e) = <<>>
         /\ e.kind = "add" => Below(e) = AddLocks(e.to)
         /\ e.kind = "memb" => \A x : Listed(x, Below(e)) <=>
              Listed(x, AddLocks(e.to)) \/ Listed(x, MembLocks(e.to, e.md))
<1>1. e.to \in Files /\ e.md \in Int /\ e.kind \in {"own", "add", "memb"}
  BY DEF Looks
<1>2. AddLocks(e.to) \in Seq(Looks) /\ MembLocks(e.to, e.md) \in Seq(Looks)
  BY <1>1, AddLocksTypes, MembLocksTypes
<1>3. CASE e.kind = "own"
  BY <1>3, EmptySeq DEF Below
<1>4. CASE e.kind = "add"
  BY <1>2, <1>4 DEF Below
<1>5. CASE e.kind = "memb"
  <2>1. Below(e) = AddLocks(e.to) \o MembLocks(e.to, e.md)
    BY <1>5 DEF Below
  <2>2. QED
    BY <1>2, <1>5, <2>1, ConcatProperties, ListedConcat
<1>6. QED
  BY <1>1, <1>3, <1>4, <1>5
-----------------------------------------------------------------------------
(* The task does not change, and with it no link.                          *)
LEMMA Static ==
  ASSUME task' = task
  PROVE  /\ design' = design
         /\ \A o : LinkedBy(o)' = LinkedBy(o) /\ MembAt(o)' = MembAt(o) /\ AddAt(o)' = AddAt(o)
         /\ \A f : AddLocks(f)' = AddLocks(f) /\ Len(Adds(f))' = Len(Adds(f))
         /\ \A f, md : MembLocks(f, md)' = MembLocks(f, md)
<1>1. design' = design
  BY DEF design
<1>2. /\ \A f : Adds(f)' = Adds(f)
      /\ \A f : Len(Adds(f))' = Len(Adds(f))
  BY <1>1 DEF Adds
<1>3. AddLinks' = AddLinks /\ MembLinks' = MembLinks
  BY <1>1 DEF AddLinks, MembLinks, Adds
<1>4. /\ \A fs : Reached(fs)' = Reached(fs)
      /\ \A f : Followers(f)' = Followers(f)
  BY <1>3 DEF Reached, Followers
<1>5. \A o : LinkedBy(o)' = LinkedBy(o) /\ MembAt(o)' = MembAt(o)
  BY <1>4 DEF LinkedBy, MembAt
<1>6. \A o : AddAt(o)' = AddAt(o)
  BY <1>4 DEF AddAt, MembAt
<1>7. /\ \A f : AddLocks(f)' = AddLocks(f)
      /\ \A f, md : MembLocks(f, md)' = MembLocks(f, md)
  BY <1>1 DEF AddLocks, MembLocks, Adds
<1>8. QED
  BY <1>1, <1>2, <1>5, <1>6, <1>7

LEMMA RaisedFacts ==
  ASSUME NEW m \in [Files -> Int], NEW f \in Files, NEW md \in Int
  PROVE  /\ Raised(m, f, md) \in [Files -> Int]
         /\ \A g \in Files : g # f => Raised(m, f, md)[g] = m[g]
         /\ \A g \in Files : Raised(m, f, md)[g] >= m[g]
         /\ Raised(m, f, md)[f] >= md
BY DEF Raised

LEMMA LinkedFacts ==
  ASSUME task \in Tasks, NEW o \in Ops
  PROVE  /\ Followers(o.f) \subseteq Files /\ MembAt(o) \in SUBSET Files
         /\ LinkedBy(o) \subseteq Files /\ Reached(MembAt(o)) \subseteq LinkedBy(o)
         /\ o.by = "editor" => Followers(o.f) \subseteq LinkedBy(o)
<1>1. o.f \in Files /\ o.by \in {"editor", "proc"}
  BY DEF Ops
<1>2. \A fs : Reached(fs) \subseteq Files
  BY ClosureFacts, LinkTypes, BesideTypes DEF Reached, FromTo
<1>3. Followers(o.f) \subseteq Files
  <2>1. Followers(o.f) = Closure(Beside({o.f}, MembLinks), MembLinks)
    BY DEF Followers, FromTo
  <2>2. Beside({o.f}, MembLinks) \in SUBSET Files /\ MembLinks \in SUBSET (Files \X Files)
    BY BesideTypes, LinkTypes
  <2>3. Closure(Beside({o.f}, MembLinks), MembLinks) \subseteq Files
    BY <2>2, ClosureFacts
  <2>4. QED
    BY <2>1, <2>3
<1>4. MembAt(o) \in SUBSET Files
  BY <1>1, <1>3 DEF MembAt
<1>5. CASE o.by = "proc"
  BY <1>2, <1>3, <1>4, <1>5 DEF LinkedBy, MembAt
<1>6. CASE o.by = "editor"
  BY <1>2, <1>3, <1>4, <1>6 DEF LinkedBy, MembAt
<1>7. QED
  BY <1>1, <1>5, <1>6

(* A lock that is taken is one that is given back.                         *)
LEMMA TakenLinked ==
  ASSUME task \in Tasks, NEW o \in Ops, NEW e \in Looks, OnTheWay(o, e), Needed(e)
  PROVE  /\ e.kind = "own" => o.by = "editor" /\ e.to = o.f
         /\ e.kind = "add" => e.to \in Reached(MembAt(o))
         /\ e.kind = "memb" => o.by = "editor" /\ e.to \in Followers(o.f) /\ e.md = ModeFor(o)
         /\ e.to \in LinkedBy(o) \cup {o.f}
<1>1. o.f \in Files /\ ModeFor(o) \in Int /\ e.kind \in {"own", "add", "memb"} /\ e.at \in Files
  BY ModeTypes DEF Ops, Looks
<1>2. e.kind = "own" => o.by = "editor" /\ e.to = o.f
  BY DEF OnTheWay
<1>3. ASSUME e.kind = "add" PROVE e.to \in Reached(MembAt(o))
  <2>1. e.at \in MembAt(o) \cup Reached(MembAt(o)) /\ Listed(e, AddLocks(e.at)) /\ e.to # e.at
    BY <1>3 DEF OnTheWay, AddAt, Needed
  <2>2. PICK i \in 1 .. Len(Adds(e.at)) : e = AddLocks(e.at)[i]
    BY <1>1, <2>1, AddLocksTypes DEF Listed
  <2>3. e = Look("add", e.at, e.at, Adds(e.at)[i].to, AddMode(Adds(e.at)[i]))
    BY <1>1, <2>2, AddLocksTypes
  <2>4. e.to = Adds(e.at)[i].to
    BY <2>3 DEF Look
  <2>5. MembAt(o) \in SUBSET Files
    BY LinkedFacts
  <2>6. QED
    BY <2>1, <2>2, <2>4, <2>5, ReachedStep
<1>4. ASSUME e.kind = "memb"
      PROVE  o.by = "editor" /\ e.to \in Followers(o.f) /\ e.md = ModeFor(o)
  <2>1. /\ o.by = "editor" /\ e.at \in MembAt(o) /\ Listed(e, MembLocks(e.at, ModeFor(o)))
        /\ e.from = e.at /\ e.to # e.at
    BY <1>4 DEF OnTheWay, Needed
  <2>2. PICK i \in 1 .. Len(design.members) : e = MembLocks(e.at, ModeFor(o))[i]
    BY <1>1, <2>1, MembLocksTypes DEF Listed
  <2>3. e = Look("memb", e.at, design.members[i].to, design.members[i].from, ModeFor(o))
    BY <1>1, <2>2, MembLocksTypes
  <2>4. e.from = design.members[i].to /\ e.to = design.members[i].from /\ e.md = ModeFor(o)
    BY <2>3 DEF Look
  <2>5. e.at \in {o.f} \cup Followers(o.f)
    BY <2>1 DEF MembAt
  <2>6. design.members[i].to = e.at /\ design.members[i].from # e.at
    BY <2>1, <2>4
  <2>7. design.members[i].from \in Followers(o.f)
    BY <1>1, <2>5, <2>6, FollowersStep
  <2>8. QED
    BY <2>1, <2>4, <2>7
<1>5. QED
  BY <1>1, <1>2, <1>3, <1>4, LinkedFacts

LEMMA BelowOnTheWay ==
  ASSUME task \in Tasks, NEW o \in Ops, NEW e \in Looks, OnTheWay(o, e), Needed(e),
         NEW x \in Looks, Listed(x, Below(e))
  PROVE  OnTheWay(o, x)
<1>1. /\ ModeFor(o) \in Int /\ e.kind \in {"own", "add", "memb"} /\ e.to \in Files /\ e.md \in Int
  BY ModeTypes DEF Ops, Looks
<1>2. ASSUME Listed(x, AddLocks(e.to)), e.to \in AddAt(o) PROVE OnTheWay(o, x)
  <2>1. PICK i \in 1 .. Len(Adds(e.to)) : x = Look("add", e.to, e.to, Adds(e.to)[i].to, AddMode(Adds(e.to)[i]))
    BY <1>1, <1>2, AddLocksTypes DEF Listed
  <2>2. x.kind = "add" /\ x.at = e.to
    BY <2>1 DEF Look
  <2>3. QED
    BY <1>2, <2>2 DEF OnTheWay
<1>3. ASSUME Listed(x, MembLocks(e.to, ModeFor(o))), e.to \in MembAt(o), o.by = "editor"
      PROVE  OnTheWay(o, x)
  <2>1. PICK i \in 1 .. Len(design.members) :
          x = Look("memb", e.to, design.members[i].to, design.members[i].from, ModeFor(o))
    BY <1>1, <1>3, MembLocksTypes DEF Listed
  <2>2. x.kind = "memb" /\ x.at = e.to
    BY <2>1 DEF Look
  <2>3. QED
    BY <1>3, <2>2 DEF OnTheWay
<1>4. CASE e.kind = "own"
  BY <1>4, BelowFacts, NothingListed
<1>5. CASE e.kind = "add"
  BY <1>2, <1>5, BelowFacts, TakenLinked DEF AddAt
<1>6. CASE e.kind = "memb"
  <2>1. o.by = "editor" /\ e.to \in Followers(o.f) /\ e.md = ModeFor(o)
    BY <1>6, TakenLinked
  <2>2. e.to \in MembAt(o) /\ e.to \in AddAt(o)
    BY <2>1 DEF MembAt, AddAt
  <2>3. Listed(x, AddLocks(e.to)) \/ Listed(x, MembLocks(e.to, ModeFor(o)))
    BY <1>6, <2>1, BelowFacts
  <2>4. QED
    BY <1>2, <1>3, <2>1, <2>2, <2>3
<1>7. QED
  BY <1>1, <1>4, <1>5, <1>6

(* The first list is on the way.                                           *)
LEMMA FirstOnTheWay ==
  ASSUME task \in Tasks, NEW o \in Ops, NEW x \in Looks, Listed(x, LocksOf(o))
  PROVE  OnTheWay(o, x)
<1>1. o.f \in Files /\ ModeFor(o) \in Int /\ o.f \in MembAt(o) /\ o.f \in AddAt(o)
  BY ModeTypes DEF Ops, MembAt, AddAt
<1>2. CASE o.by = "editor" /\ x = Look("own", o.f, o.f, o.f, ModeFor(o))
  BY <1>2 DEF Look, OnTheWay
<1>3. CASE Listed(x, AddLocks(o.f))
  <2>1. PICK i \in 1 .. Len(Adds(o.f)) : x = Look("add", o.f, o.f, Adds(o.f)[i].to, AddMode(Adds(o.f)[i]))
    BY <1>1, <1>3, AddLocksTypes DEF Listed
  <2>2. x.kind = "add" /\ x.at = o.f
    BY <2>1 DEF Look
  <2>3. QED
    BY <1>1, <1>3, <2>2 DEF OnTheWay
<1>4. CASE Follows(o) /\ Listed(x, MembLocks(o.f, ModeFor(o)))
  <2>1. PICK i \in 1 .. Len(design.members) :
          x = Look("memb", o.f, design.members[i].to, design.members[i].from, ModeFor(o))
    BY <1>1, <1>4, MembLocksTypes DEF Listed
  <2>2. x.kind = "memb" /\ x.at = o.f /\ o.by = "editor"
    BY <1>4, <2>1 DEF Look, Follows
  <2>3. QED
    BY <1>1, <1>4, <2>2 DEF OnTheWay
<1>5. QED
  BY <1>2, <1>3, <1>4, LocksOfFacts
-----------------------------------------------------------------------------
(* The steps.                                                              *)
LEMMA StaticLists ==
  ASSUME task' = task, NEW o
  PROVE  /\ LocksOf(o)' = LocksOf(o)
         /\ \A e : OnTheWay(o, e)' <=> OnTheWay(o, e)
         /\ \A e : Listed(e, todo)' <=> Listed(e, todo')
         /\ \A adds, membs :
              Covers(o, adds, membs, todo, mode)' <=> Covers(o, adds, membs, todo', mode')
<1>1. /\ \A f : AddLocks(f)' = AddLocks(f) /\ Len(Adds(f))' = Len(Adds(f))
      /\ \A f, md : MembLocks(f, md)' = MembLocks(f, md)
      /\ design' = design /\ AddAt(o)' = AddAt(o) /\ MembAt(o)' = MembAt(o)
  BY Static
<1>2. LocksOf(o)' = LocksOf(o)
  BY <1>1 DEF LocksOf
<1>3. ASSUME NEW e PROVE OnTheWay(o, e)' <=> OnTheWay(o, e)
  BY <1>1 DEF OnTheWay, Listed
<1>4. \A e : Listed(e, todo)' <=> Listed(e, todo')
  BY DEF Listed
<1>5. ASSUME NEW adds, NEW membs
      PROVE  Covers(o, adds, membs, todo, mode)' <=> Covers(o, adds, membs, todo', mode')
  BY <1>1 DEF Covers, Listed, Locked
<1>6. QED
  BY <1>2, <1>3, <1>4, <1>5

LEMMA FirstCovers ==
  ASSUME task \in Tasks, NEW o \in Ops, NEW m
  PROVE  \E adds, membs \in SUBSET Files : Covers(o, adds, membs, LocksOf(o), m)
<1>1. o.f \in Files /\ ModeFor(o) \in Int
  BY ModeTypes DEF Ops
<1>2. \A i \in 1 .. Len(Adds(o.f)) : Listed(AddLocks(o.f)[i], LocksOf(o))
  BY <1>1, AddLocksTypes, LocksOfFacts DEF Listed
<1>3. Follows(o) => \A i \in 1 .. Len(design.members) :
        Listed(MembLocks(o.f, ModeFor(o))[i], LocksOf(o))
  BY <1>1, MembLocksTypes, LocksOfFacts DEF Listed
<1>4. Covers(o, {o.f}, IF Follows(o) THEN {o.f} ELSE {}, LocksOf(o), m)
  BY <1>2, <1>3 DEF Covers
<1>5. QED
  BY <1>1, <1>4

LEMMA InitInv == LockInit => IInv
<1> SUFFICES ASSUME LockInit PROVE IInv
  OBVIOUS
<1>1. TypeInv
  BY AddLockAssumption, EmptySeq, ModeTypes DEF LockInit, TypeInv
<1>2. QED
  BY <1>1 DEF LockInit, IInv, Saved, Covered, Back

LEMMA BeginInv ==
  ASSUME IInv, NEW o \in Ops, BeginLocks(o)
  PROVE  IInv'
<1>1. /\ task \in Tasks /\ task' = task /\ outer' = outer /\ op' = o /\ todo' = LocksOf(o)
      /\ mode \in [Files -> Int] /\ ex \in [Files -> Int] /\ mode = outer
      /\ o.f \in Files /\ ModeFor(o) \in Int /\ oldMd' = mode[o.f]
  BY ModeTypes DEF IInv, TypeInv, Back, BeginLocks, Ops
<1>2. /\ mode' \in [Files -> Int]
      /\ \A f \in Files : f # o.f => mode'[f] = mode[f]
  BY <1>1, RaisedFacts DEF BeginLocks
<1>3. /\ ex' \in [Files -> Int]
      /\ \A f \in LinkedBy(o) : ex'[f] = outer[f]
  BY <1>1, LinkedFacts DEF BeginLocks
<1>4. TypeInv'
  BY <1>1, <1>2, <1>3, LocksOfFacts DEF IInv, TypeInv
<1>5. SavedBy(o)'
  <2>1. \A e \in Looks : Listed(e, todo)' => OnTheWay(o, e)'
    BY <1>1, StaticLists, FirstOnTheWay
  <2>2. LinkedBy(o)' = LinkedBy(o)
    BY <1>1, Static
  <2>3. QED
    BY <1>1, <1>2, <1>3, <2>1, <2>2 DEF SavedBy
<1>6. Saved'
  BY <1>1, <1>5 DEF Saved
<1>7. \E adds, membs \in SUBSET Files : Covers(o, adds, membs, todo, mode)'
  BY <1>1, FirstCovers, StaticLists
<1>8. Covered'
  BY <1>1, <1>7 DEF Covered
<1>9. Back'
  <2>1. op' # NoOp
    BY <1>1 DEF Ops, NoOp
  <2>2. QED
    BY <2>1 DEF Back
<1>10. QED
  BY <1>4, <1>6, <1>8, <1>9 DEF IInv
(* One look: what is still listed, what is now locked.                     *)
LEMMA CoversTail ==
  ASSUME task \in Tasks, NEW o \in Ops, NEW list \in Seq(Looks), list # <<>>,
         ~ Needed(Head(list)), NEW m, NEW adds \in SUBSET Files, NEW membs \in SUBSET Files,
         Covers(o, adds, membs, list, m)
  PROVE  Covers(o, adds, membs, Tail(list), m)
<1>1. \A x : Listed(x, list) => x = Head(list) \/ Listed(x, Tail(list))
  BY ListedTail
<1>2. \A x, seen : Listed(x, list) \/ Locked(x, seen, m) =>
                     Listed(x, Tail(list)) \/ Locked(x, seen, m)
  BY <1>1 DEF Locked
<1>3. QED
  BY <1>2 DEF Covers

LEMMA CoversBelow ==
  ASSUME task \in Tasks, NEW o \in Ops, NEW list \in Seq(Looks), list # <<>>,
         Needed(Head(list)), OnTheWay(o, Head(list)), NEW m \in [Files -> Int],
         NEW a \in SUBSET Files, NEW b \in SUBSET Files, Covers(o, a, b, list, m)
  PROVE  \E adds, membs \in SUBSET Files :
           Covers(o, adds, membs, Below(Head(list)) \o Tail(list),
                  Raised(m, Head(list).to, Head(list).md))
<1> DEFINE e    == Head(list)
           rest == Below(e) \o Tail(list)
           n    == Raised(m, e.to, e.md)
           A    == IF e.kind = "own" THEN a ELSE a \cup {e.to}
           B    == IF e.kind = "memb" THEN b \cup {e.to} ELSE b
<1>1. /\ e \in Looks /\ Tail(list) \in Seq(Looks) /\ Below(e) \in Seq(Looks)
      /\ e.to \in Files /\ e.md \in Int /\ e.kind \in {"own", "add", "memb"} /\ ModeFor(o) \in Int
  <2>1. e \in Looks /\ Tail(list) \in Seq(Looks)
    BY HeadTailProperties
  <2>2. QED
    BY <2>1, BelowFacts, ModeTypes DEF Looks
<1>2. \A x : Listed(x, list) => x = e \/ Listed(x, rest)
  BY <1>1, ListedTail, ListedConcat
<1>3. \A x : Listed(x, Below(e)) => Listed(x, rest)
  BY <1>1, ListedConcat
<1>4. /\ n \in [Files -> Int] /\ n[e.to] >= e.md
      /\ \A g \in Files : n[g] >= m[g]
  BY <1>1, RaisedFacts
<1>5. ASSUME NEW x \in Looks, NEW s, NEW t, Listed(x, list) \/ Locked(x, s, m),
             s \subseteq t, x = e => e.to \in t
      PROVE  Listed(x, rest) \/ Locked(x, t, n)
  <2>1. CASE x = e
    BY <1>4, <1>5, <2>1 DEF Locked
  <2>2. CASE Listed(x, list) /\ x # e
    BY <1>2, <2>2
  <2>3. CASE Locked(x, s, m)
    <3>1. x.to \in Files /\ x.md \in Int /\ m[x.to] \in Int /\ n[x.to] \in Int /\ n[x.to] >= m[x.to]
      BY <1>4 DEF Looks
    <3>2. QED
      BY <1>5, <2>3, <3>1 DEF Locked
  <2>4. QED
    BY <1>5, <2>1, <2>2, <2>3
<1> HIDE DEF rest, n
<1>6. ASSUME NEW f \in A, NEW i \in 1 .. Len(Adds(f))
      PROVE  Listed(AddLocks(f)[i], rest) \/ Locked(AddLocks(f)[i], A, n)
  <2>1. f \in Files
    BY <1>1
  <2>2. /\ AddLocks(f)[i] \in Looks /\ AddLocks(f)[i].kind = "add"
        /\ Listed(AddLocks(f)[i], AddLocks(f))
    <3>1. /\ AddLocks(f) \in Seq(Looks) /\ i \in 1 .. Len(AddLocks(f))
          /\ AddLocks(f)[i] = Look("add", f, f, Adds(f)[i].to, AddMode(Adds(f)[i]))
      BY <2>1, AddLocksTypes
    <3>2. AddLocks(f)[i] \in Looks
      BY <3>1, ElementOfSeq
    <3>3. QED
      BY <3>1, <3>2 DEF Look, Listed
  <2>3. CASE f \in a
    <3>1. Listed(AddLocks(f)[i], list) \/ Locked(AddLocks(f)[i], a, m)
      BY <2>3 DEF Covers
    <3>2. AddLocks(f)[i] = e => e.to \in A
      BY <2>2
    <3>3. QED
      BY <1>5, <2>2, <3>1, <3>2
  <2>4. CASE f = e.to /\ e.kind = "add"
    BY <1>1, <1>3, <2>2, <2>4, BelowFacts
  <2>5. CASE f = e.to /\ e.kind = "memb"
    BY <1>1, <1>3, <2>2, <2>5, BelowFacts
  <2>6. QED
    BY <1>1, <2>3, <2>4, <2>5
<1>7. ASSUME NEW f \in B, NEW i \in 1 .. Len(design.members)
      PROVE  \/ Listed(MembLocks(f, ModeFor(o))[i], rest)
             \/ Locked(MembLocks(f, ModeFor(o))[i], B, n)
  <2> DEFINE x == MembLocks(f, ModeFor(o))[i]
  <2>1. f \in Files
    BY <1>1
  <2>2. x \in Looks /\ x.kind = "memb" /\ Listed(x, MembLocks(f, ModeFor(o)))
    <3>1. /\ MembLocks(f, ModeFor(o)) \in Seq(Looks) /\ i \in 1 .. Len(MembLocks(f, ModeFor(o)))
          /\ x = Look("memb", f, design.members[i].to, design.members[i].from, ModeFor(o))
      BY <1>1, <2>1, MembLocksTypes
    <3>2. x \in Looks
      BY <3>1, ElementOfSeq
    <3>3. QED
      BY <3>1, <3>2 DEF Look, Listed
  <2>3. CASE f \in b
    <3>1. Listed(x, list) \/ Locked(x, b, m)
      BY <2>3 DEF Covers
    <3>2. x = e => e.to \in B
      BY <2>2
    <3>3. QED
      BY <1>5, <2>2, <3>1, <3>2
  <2>4. CASE f = e.to /\ e.kind = "memb"
    <3>1. e.md = ModeFor(o)
      BY <1>1, <2>4, TakenLinked
    <3>2. Listed(x, Below(e))
      BY <1>1, <2>2, <2>4, <3>1, BelowFacts
    <3>3. QED
      BY <1>3, <3>2
  <2>5. QED
    BY <2>3, <2>4
<1>8. o.f \in A /\ B \subseteq A /\ (Follows(o) => o.f \in B)
  BY DEF Covers
<1>9. Covers(o, A, B, rest, n)
  BY <1>6, <1>7, <1>8 DEF Covers
<1>10. A \in SUBSET Files /\ B \in SUBSET Files
  BY <1>1
<1>11. QED
  BY <1>9, <1>10 DEF rest, n

LEMMA NextInv ==
  ASSUME IInv, LockNext
  PROVE  IInv'
<1> DEFINE e == Head(todo)
<1>1. PICK o \in Ops : op = o
  BY DEF LockNext, IInv, TypeInv
<1>2. /\ task \in Tasks /\ task' = task /\ outer' = outer /\ ex' = ex /\ oldMd' = oldMd
      /\ op # NoOp /\ op' = o /\ todo \in Seq(Looks) /\ todo # <<>>
      /\ mode \in [Files -> Int] /\ SavedBy(o)
      /\ mode' = IF Needed(e) THEN Raised(mode, e.to, e.md) ELSE mode
      /\ todo' = IF Needed(e) THEN Below(e) \o Tail(todo) ELSE Tail(todo)
  BY <1>1 DEF LockNext, IInv, TypeInv, Saved
<1>3. e \in Looks /\ e.to \in Files /\ e.md \in Int /\ Tail(todo) \in Seq(Looks) /\ Below(e) \in Seq(Looks)
  <2>1. e \in Looks /\ Tail(todo) \in Seq(Looks)
    BY <1>2, HeadTailProperties
  <2>2. QED
    BY <1>2, <2>1, BelowFacts DEF Looks
<1>4. OnTheWay(o, e)
  <2>1. Listed(e, todo)
    BY <1>2, ListedTail
  <2>2. QED
    BY <1>2, <1>3, <2>1 DEF SavedBy
<1> HIDE DEF e
<1>5. mode' \in [Files -> Int] /\ todo' \in Seq(Looks)
  BY <1>2, <1>3, RaisedFacts, ConcatProperties
<1>6. \A f \in Files \ LinkedBy(o) : f # o.f => mode'[f] = mode[f]
  <2>1. CASE Needed(e)
    <3>1. e.to \in LinkedBy(o) \cup {o.f}
      BY <1>2, <1>3, <1>4, <2>1, TakenLinked
    <3>2. mode' = Raised(mode, e.to, e.md)
      BY <1>2, <2>1
    <3>3. \A f \in Files : f # e.to => Raised(mode, e.to, e.md)[f] = mode[f]
      BY <1>2, <1>3, RaisedFacts
    <3>4. QED
      BY <3>1, <3>2, <3>3
  <2>2. CASE ~ Needed(e)
    BY <1>2, <2>2
  <2>3. QED
    BY <2>1, <2>2
<1>7. \A x \in Looks : Listed(x, todo') => OnTheWay(o, x)
  <2>1. SUFFICES ASSUME NEW x \in Looks, Listed(x, todo') PROVE OnTheWay(o, x)
    OBVIOUS
  <2>2. CASE Listed(x, Tail(todo))
    <3>1. Listed(x, todo)
      BY <1>2, <2>2, ListedTail
    <3>2. QED
      BY <1>2, <3>1 DEF SavedBy
  <2>3. CASE Needed(e) /\ Listed(x, Below(e))
    BY <1>2, <1>3, <1>4, <2>3, BelowOnTheWay
  <2>4. QED
    BY <1>2, <1>3, <2>1, <2>2, <2>3, ListedConcat
<1>8. TypeInv'
  BY <1>1, <1>2, <1>5 DEF IInv, TypeInv
<1>9. SavedBy(o)'
  <2>1. \A x \in Looks : Listed(x, todo)' => OnTheWay(o, x)'
    BY <1>2, <1>7, StaticLists
  <2>2. LinkedBy(o)' = LinkedBy(o)
    BY <1>2, Static
  <2>3. QED
    BY <1>2, <1>6, <2>1, <2>2 DEF SavedBy
<1>10. Saved'
  BY <1>2, <1>9 DEF Saved
<1>11. \E adds, membs \in SUBSET Files : Covers(o, adds, membs, todo', mode')
  <2>1. PICK a, b \in SUBSET Files : Covers(o, a, b, todo, mode)
    BY <1>1, <1>2 DEF IInv, Covered
  <2>2. CASE Needed(e)
    BY <1>2, <1>4, <2>1, <2>2, CoversBelow DEF e
  <2>3. CASE ~ Needed(e)
    BY <1>2, <2>1, <2>3, CoversTail DEF e
  <2>4. QED
    BY <2>2, <2>3
<1>12. Covered'
  BY <1>2, <1>11, StaticLists DEF Covered
<1>13. Back'
  BY <1>1, <1>2 DEF Back
<1>14. QED
  BY <1>8, <1>10, <1>12, <1>13 DEF IInv

(* What is given back is as it was.                                        *)
LEMMA GivenBackFacts ==
  ASSUME IInv, op # NoOp, NEW o \in Ops, op = o
  PROVE  /\ Unlocked(o) = outer
         /\ GivenBack(mode, o) \in [Files -> Int]
         /\ \A f \in Files \ LinkedBy(o) : f # o.f => GivenBack(mode, o)[f] = outer[f]
<1>1. /\ mode \in [Files -> Int] /\ ex \in [Files -> Int] /\ outer \in [Files -> Int]
      /\ SavedBy(o) /\ o.f \in Files
  BY DEF IInv, TypeInv, Saved, Ops
<1>2. Unlocked(o) = outer
  <2>1. Unlocked(o) \in [Files -> Int]
    BY <1>1 DEF Unlocked, GivenBack, SavedBy
  <2>2. \A f \in Files : Unlocked(o)[f] = outer[f]
    BY <1>1 DEF Unlocked, GivenBack, SavedBy
  <2>3. QED
    BY <1>1, <2>1, <2>2
<1>3. QED
  BY <1>1, <1>2 DEF GivenBack, SavedBy

LEMMA RefusedInv ==
  ASSUME IInv, Refused
  PROVE  IInv'
<1>1. PICK o \in Ops : op = o
  BY DEF Refused, IInv, TypeInv
<1>2. /\ task \in Tasks /\ task' = task /\ outer' = outer /\ ex' = ex /\ oldMd' = oldMd
      /\ op # NoOp /\ op' = o /\ todo' = LocksOf(o) /\ outer \in [Files -> Int] /\ SavedBy(o)
      /\ mode' = IF o.by = "editor" THEN Unlocked(o) ELSE GivenBack(mode, o)
  BY <1>1 DEF Refused, IInv, TypeInv, Saved
<1>3. mode' \in [Files -> Int] /\ \A f \in Files \ LinkedBy(o) : f # o.f => mode'[f] = outer[f]
  BY <1>1, <1>2, GivenBackFacts
<1>4. todo' \in Seq(Looks)
  BY <1>2, LocksOfFacts
<1>5. TypeInv'
  BY <1>1, <1>2, <1>3, <1>4 DEF IInv, TypeInv
<1>6. SavedBy(o)'
  <2>1. \A x \in Looks : Listed(x, todo)' => OnTheWay(o, x)'
    BY <1>2, FirstOnTheWay, StaticLists
  <2>2. LinkedBy(o)' = LinkedBy(o)
    BY <1>2, Static
  <2>3. QED
    BY <1>2, <1>3, <2>1, <2>2 DEF SavedBy
<1>7. Saved'
  BY <1>2, <1>6 DEF Saved
<1>8. \E adds, membs \in SUBSET Files : Covers(o, adds, membs, todo', mode')
  BY <1>2, FirstCovers
<1>9. Covered'
  BY <1>2, <1>8, StaticLists DEF Covered
<1>10. Back'
  BY <1>1, <1>2 DEF Back
<1>11. QED
  BY <1>5, <1>7, <1>9, <1>10 DEF IInv

(* The operation is over.                                                  *)
LEMMA OverInv ==
  ASSUME IInv, op # NoOp, mode' = Unlocked(op), op' = NoOp, todo' = <<>>,
         UNCHANGED <<task, ex, outer>>
  PROVE  IInv'
<1>1. PICK o \in Ops : op = o
  BY DEF IInv, TypeInv
<1>2. mode' = outer
  BY <1>1, GivenBackFacts
<1>3. TypeInv'
  BY <1>2, EmptySeq DEF IInv, TypeInv
<1>4. QED
  BY <1>2, <1>3 DEF IInv, Saved, Covered, Back

LEMMA StutterInv ==
  ASSUME IInv, UNCHANGED lockVars
  PROVE  IInv'
<1>1. /\ task' = task /\ mode' = mode /\ ex' = ex /\ outer' = outer /\ op' = op
      /\ oldMd' = oldMd /\ todo' = todo
  BY DEF lockVars
<1>2. TypeInv' /\ Back'
  BY <1>1 DEF IInv, TypeInv, Back
<1>3. ASSUME NEW o \in Ops, op # NoOp, op = o
      PROVE  /\ SavedBy(o)'
             /\ \E adds, membs \in SUBSET Files : Covers(o, adds, membs, todo, mode)'
  <2>1. /\ LinkedBy(o)' = LinkedBy(o)
        /\ \A x : Listed(x, todo)' <=> Listed(x, todo)
        /\ \A x : OnTheWay(o, x)' <=> OnTheWay(o, x)
    BY <1>1, Static, StaticLists
  <2>2. SavedBy(o)
    BY <1>3 DEF IInv, Saved
  <2>3. SavedBy(o)'
    BY <1>1, <2>1, <2>2 DEF SavedBy
  <2>4. \E adds, membs \in SUBSET Files : Covers(o, adds, membs, todo, mode)
    BY <1>3 DEF IInv, Covered
  <2>5. QED
    BY <1>1, <2>3, <2>4, StaticLists
<1>4. QED
  BY <1>1, <1>2, <1>3 DEF IInv, Saved, Covered

LEMMA StepInv ==
  ASSUME IInv, [Locks]_lockVars
  PROVE  IInv'
<1>1. ASSUME NEW by \in {"editor", "proc"}, NEW kind \in Kinds, NEW f \in design.edited,
             BeginLocks(Operation(by, kind, f))
      PROVE  IInv'
  <2>1. f \in Files
    BY AddLockAssumption DEF IInv, TypeInv, design
  <2>2. Operation(by, kind, f) \in Ops
    BY <2>1 DEF Operation, Ops
  <2>3. QED
    BY <1>1, <2>2, BeginInv
<1>2. ASSUME GiveUp PROVE IInv'
  BY <1>2, OverInv DEF GiveUp
<1>3. ASSUME EndLocks PROVE IInv'
  BY <1>3, OverInv DEF EndLocks
<1>4. QED
  BY <1>1, <1>2, <1>3, NextInv, RefusedInv, StutterInv DEF Locks

(* With nothing left to look at, all that is reached is locked.            *)
LEMMA InvHeld == IInv => LocksHeld
<1> SUFFICES ASSUME IInv PROVE LocksHeld
  OBVIOUS
<1>1. ASSUME op # NoOp, todo = <<>>
      PROVE  /\ \A f \in Changed(op) \cup Reached(Changed(op)) : \A i \in 1 .. Len(Adds(f)) :
                  Adds(f)[i].to # f => mode[Adds(f)[i].to] >= AddMode(Adds(f)[i])
             /\ Follows(op) => \A f \in Followers(op.f) : mode[f] >= ModeFor(op)
  <2>1. PICK o \in Ops : op = o
    BY <1>1 DEF IInv, TypeInv
  <2>2. task \in Tasks /\ o.f \in Files /\ ModeFor(o) \in Int
    BY ModeTypes DEF IInv, TypeInv, Ops
  <2>3. PICK a, b \in SUBSET Files : Covers(o, a, b, <<>>, mode)
    BY <1>1, <2>1 DEF IInv, Covered
  <2>4. ASSUME NEW f \in a, NEW i \in 1 .. Len(Adds(f)), Adds(f)[i].to # f
        PROVE  Adds(f)[i].to \in a /\ mode[Adds(f)[i].to] >= AddMode(Adds(f)[i])
    <3>1. Locked(AddLocks(f)[i], a, mode)
      BY <2>3, NothingListed DEF Covers
    <3>2. AddLocks(f)[i] = Look("add", f, f, Adds(f)[i].to, AddMode(Adds(f)[i]))
      BY <2>2, AddLocksTypes
    <3>3. QED
      BY <2>4, <3>1, <3>2 DEF Locked, Needed, Look
  <2>5. ASSUME NEW f \in b, NEW i \in 1 .. Len(design.members),
               design.members[i].to = f, design.members[i].from # f
        PROVE  design.members[i].from \in b /\ mode[design.members[i].from] >= ModeFor(o)
    <3>1. Locked(MembLocks(f, ModeFor(o))[i], b, mode)
      BY <2>3, NothingListed DEF Covers
    <3>2. MembLocks(f, ModeFor(o))[i] =
            Look("memb", f, design.members[i].to, design.members[i].from, ModeFor(o))
      BY <2>2, MembLocksTypes
    <3>3. QED
      BY <2>5, <3>1, <3>2 DEF Locked, Needed, Look
  <2>6. ASSUME Follows(o) PROVE Followers(o.f) \subseteq {f \in b : mode[f] >= ModeFor(o)}
    <3> DEFINE s == {f \in b : mode[f] >= ModeFor(o)}
    <3>1. o.f \in b
      BY <2>3, <2>6 DEF Covers
    <3>2. Beside({o.f}, MembLinks) \subseteq s
      BY <2>5, <3>1 DEF Beside, MembLinks
    <3>3. \A l \in MembLinks : l[1] \in s => l[2] \in s
      BY <2>5 DEF MembLinks
    <3>4. s \in SUBSET Files
      OBVIOUS
    <3> HIDE DEF s
    <3>5. Closure(Beside({o.f}, MembLinks), MembLinks) \subseteq s
      BY <3>2, <3>3, <3>4, ClosureLeast
    <3>6. QED
      BY <3>5 DEF s, Followers, FromTo
  <2>7. Changed(o) \subseteq a
    BY <2>3, <2>6 DEF Changed, Covers
  <2>8. Reached(Changed(o)) \subseteq a
    <3>1. Beside(Changed(o), AddLinks) \subseteq a
      BY <2>4, <2>7 DEF Beside, AddLinks
    <3>2. \A l \in AddLinks : l[1] \in a => l[2] \in a
      BY <2>4 DEF AddLinks
    <3>3. Closure(Beside(Changed(o), AddLinks), AddLinks) \subseteq a
      BY <3>1, <3>2, ClosureLeast
    <3>4. QED
      BY <3>3 DEF Reached, FromTo
  <2>9. QED
    BY <2>1, <2>4, <2>6, <2>7, <2>8
<1>2. QED
  BY <1>1 DEF LocksHeld, IInv, Back

(* When the additives run, every file that they change is locked under the *)
(* mode that they need, through all levels, and every file whose records   *)
(* follow; when an operation is over, also one that was given up, all      *)
(* modes are the old ones: for any files, additives and links, whichever   *)
(* locks are refused (LockForAdd, LockForMemb, LockWithDep).               *)
THEOREM AllLocksHeld == LockSpec => []LocksHeld
<1>1. IInv /\ [Locks]_lockVars => IInv'
  BY StepInv
<1>2. QED
  BY <1>1, InitInv, InvHeld, PTL DEF LockSpec
=============================================================================
