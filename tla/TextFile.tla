------------------------------- MODULE TextFile -------------------------------
(***************************************************************************)
(* The text file beside a data file: FandTFile, and the record operations  *)
(* of Fand0File and the data editor that store and free texts (fandio).    *)
(*                                                                         *)
(* A record holds the position of its text: page and offset, in the code   *)
(* one number.  Page 0 is the header.  Short texts share a page in         *)
(* fragments: two bytes of length, negative when the fragment is free,     *)
(* then the text.  FreePart is where the next short text goes; on the page *)
(* it lies on nothing behind it is used.  A longer text is a chain of      *)
(* pages linked by their last four bytes, and one that is longer than      *)
(* MaxLStrLen is cut into segments, each with a length of its own:         *)
(* MaxLStrLen + 1 says that a segment is full and another one follows.     *)
(* Free pages are a list from FreeRoot on.                                 *)
(*                                                                         *)
(* A text is [len, tag]; a piece of it is known by its text, where it      *)
(* begins and how many bytes it has.  An operation is under way in op, one *)
(* step for each page or fragment that it reads, writes or frees; job says *)
(* what it does at the moment.                                             *)
(***************************************************************************)
EXTENDS Integers, Sequences, SequencesExt, FiniteSets

CONSTANTS
  MPageSize,            \* bytes of a page: 512
  MaxLStrLen,           \* bytes of a segment: 65000
  DataWord,             \* two bytes of a text read as a length
  Texts,                \* what a text field is set to; NoText among them
  Loads,                \* texts of the records that are created first
  MaxRecs, MaxSteps     \* bounds: records, operations behind the load

NoText == [len |-> 0, tag |-> 0]

Linked == MPageSize - 4     \* bytes of a page in front of its link

(* The last page of a full segment has a link too, so it does not reach    *)
(* into the last four bytes: 65 002 is 127 times 508 and 486.  A text has  *)
(* two segments at most (WriteLongBuffer gives the second one the rest).   *)
ASSUME TextFileAssumption ==
  /\ MPageSize \in Nat /\ MPageSize > 10
  /\ MaxLStrLen \in Nat /\ MaxLStrLen > MPageSize
  /\ \A k \in 0 .. MaxLStrLen : MaxLStrLen + 2 - k * Linked \notin Linked + 1 .. MPageSize
  /\ DataWord \in Int
  /\ NoText \in Texts
  /\ \A t \in Texts : t.len \in Nat /\ t.len <= 2 * MaxLStrLen /\ (t.len = 0 => t = NoText)
  /\ Loads \subseteq Seq(Texts)
  /\ MaxRecs \in Nat /\ MaxSteps \in Nat

VARIABLES
  file,                 \* pages, first free page, highest page, free part
  cached,               \* the file is not shared, or locked by Excl
  rec,                  \* rec[r]: position and text of record r
  orphans,              \* positions of texts that no record has any more
  op,                   \* the record operation under way
  job,                  \* what it does with the text file
  load,                 \* texts still to be loaded
  steps                 \* bound: operations so far

vars == <<file, cached, rec, orphans, op, job, load, steps>>

Piece(t, from, n) == [t |-> t, from |-> from, n |-> n]
Empty == [word |-> <<>>, data |-> <<>>, next |-> 0]
NoPos == <<0, 0>>

(* SetEmpty: page 1 is one free fragment and the current page.             *)
EmptyFile ==
  [page |-> [n \in {1} |-> [Empty EXCEPT !.word = [o \in {0} |-> 2 - MPageSize]]],
   free |-> 0, max |-> 1, part |-> <<1, 0>>]
-----------------------------------------------------------------------------
(* Bytes of the file.                                                      *)
With(fn, o, x) == [k \in DOMAIN fn \cup {o} |-> IF k = o THEN x ELSE fn[k]]

PageAt(f, n) == IF n \in DOMAIN f.page THEN f.page[n] ELSE Empty

Word(f, pos) ==
  LET p == PageAt(f, pos[1])
  IN  IF pos[2] \in DOMAIN p.word THEN p.word[pos[2]]
      ELSE IF DOMAIN p.data = {} THEN 0 ELSE DataWord

Data(f, n, o, bytes) ==
  LET p == PageAt(f, n)
      x == p.data[o]
  IN  IF o \in DOMAIN p.data /\ x.n >= bytes THEN Piece(x.t, x.from, bytes)
      ELSE Piece(NoText, 0, bytes)

NewPage(f) ==
  IF f.free # 0
  THEN [n |-> f.free,
        f |-> [f EXCEPT !.page[f.free] = Empty, !.free = f.page[f.free].next]]
  ELSE [n |-> f.max + 1,
        f |-> [f EXCEPT !.page = With(@, f.max + 1, Empty), !.max = @ + 1]]

ReleasePage(f, n) == [f EXCEPT !.page[n] = [Empty EXCEPT !.next = f.free], !.free = n]

(* What the word of a segment says: its bytes, and that another follows.   *)
Full(word)  == word = MaxLStrLen + 1
Bytes(word) == IF Full(word) THEN MaxLStrLen ELSE word
Head4(len)  == IF len > MaxLStrLen THEN MaxLStrLen + 1 ELSE len
-----------------------------------------------------------------------------
(* Storing a short text.  Mutant: what is left of the page gets no length. *)
WithTextBare(p, o, t) ==
  [p EXCEPT !.word = With([k \in {k \in DOMAIN @ : k < o} |-> @[k]], o, t.len),
            !.data = With(@, o + 2, Piece(t, 0, t.len))]

(* A page with a text at o; what is left behind it is a free fragment      *)
(* unless the page is full.                                                *)
WithText(p, o, t) ==
  LET end  == o + t.len + 2
      rest == IF end + 2 < MPageSize THEN {end} ELSE {}
  IN  [p EXCEPT !.word = [k \in {k \in DOMAIN @ : k < o} \cup {o} \cup rest |->
                            IF k < o THEN @[k]
                            ELSE IF k = o THEN t.len ELSE end + 2 - MPageSize],
                !.data = With(@, o + 2, Piece(t, 0, t.len))]

(* PreparePositionForShortText gives the place at FreePart, or on a new    *)
(* page; FreePart moves behind the text, or to a page of its own.          *)
PutShort(f, n, o, t) ==
  LET new == NewPage(f)
      g   == IF t.len + 4 >= MPageSize - o THEN [new.f EXCEPT !.part = <<new.n, 0>>]
             ELSE [f EXCEPT !.part = <<n, o + t.len + 2>>]
  IN  [g EXCEPT !.page[n] = WithText(@, o, t)]

Fits(f, t) == t.len + 2 <= MPageSize - f.part[2]

(* A page of a long text: its first bytes, a piece, the link to the next.  *)
PutHead(f, n, len) == [f EXCEPT !.page[n].word = With(@, 0, Head4(len))]
PutPiece(f, n, o, x) == [f EXCEPT !.page[n].data = With(@, o, x)]
Link(f, n, to) == [f EXCEPT !.page[n].next = to]
-----------------------------------------------------------------------------
(* Reading: the pages a reader visits, with the offset of the text on the  *)
(* page, the bytes left of the segment and the bytes read so far.          *)
Segment(f, n, o, at) ==
  [n |-> n, o |-> o + 2, left |-> Bytes(Word(f, <<n, o>>)), at |-> at,
   full |-> Full(Word(f, <<n, o>>))]

Here(s) == IF s.left > MPageSize - s.o THEN Linked - s.o ELSE s.left

ReadNext(f, s) ==
  LET next == PageAt(f, s.n).next
  IN  IF s.n # 0 /\ s.left > MPageSize - s.o
      THEN [n |-> next, o |-> 0, left |-> s.left - Here(s), at |-> s.at + Here(s), full |-> s.full]
      ELSE IF s.n # 0 /\ s.full THEN Segment(f, next, 0, s.at + s.left)
      ELSE [n |-> 0, o |-> 0, left |-> 0, at |-> s.at + s.left, full |-> FALSE]

Read(f, pos) ==
  LET visit[k \in Nat] ==
        IF k = 0 THEN Segment(f, pos[1], pos[2], 0) ELSE ReadNext(f, visit[k - 1])
  IN  visit

(* The pieces are the text t; no text has more pages than the file.        *)
ReadsAs(f, pos, t) ==
  LET visit == Read(f, pos)
      piece(s) == s.n # 0 => Data(f, s.n, s.o, Here(s)) = Piece(t, s.at, Here(s))
  IN  /\ \A k \in 0 .. f.max : piece(visit[k])
      /\ visit[f.max].n = 0 /\ visit[f.max].at = t.len

(* GetLength follows the links alone, counting the bytes of a segment.     *)
Counted(f, pos, sum) ==
  LET w == Word(f, pos)
  IN  [n |-> pos[1], todo |-> IF Full(w) THEN MaxLStrLen + 2 ELSE 0, sum |-> sum + Bytes(w)]

CountNext(f, s) ==
  LET next == PageAt(f, s.n).next
  IN  IF s.todo = 0 THEN s
      ELSE IF s.todo > Linked THEN [s EXCEPT !.n = next, !.todo = @ - Linked]
      ELSE Counted(f, <<next, 0>>, s.sum)

GetLength(f, pos) ==
  LET count[k \in Nat] == IF k = 0 THEN Counted(f, pos, 0) ELSE CountNext(f, count[k - 1])
  IN  count[f.max].sum
-----------------------------------------------------------------------------
Rec(pos, t) == [pos |-> pos, t |-> t]
Positions == {rec[r].pos : r \in DOMAIN rec} \ {NoPos}

Op(kind, at, t, old) ==
  [kind |-> kind, at |-> at, t |-> t, old |-> old, from |-> 0, group |-> {}]
NoOp == Op("none", 0, NoText, NoPos)

NoJob    == [do |-> "none"]
StoreJob == [do |-> "store"]
MoveJob  == [do |-> "move"]
SetJob(pos)     == [do |-> "set", pos |-> pos]
WalkJob(n, p)   == [do |-> "walk", n |-> n, p |-> p]
ReleaseJob(f, n) ==
  [do |-> "release", n |-> n, bytes |-> 2 + Bytes(Word(f, <<n, 0>>)), full |-> Full(Word(f, <<n, 0>>))]
WriteJob(first, n, o, from, left, full) ==
  [do |-> "write", first |-> first, n |-> n, o |-> o, from |-> from, left |-> left, full |-> full]

(* What an operation does with a text once the old one is deleted.         *)
Then(kind) == IF kind = "delete" THEN SetJob(NoPos) ELSE StoreJob

Init ==
  /\ file = EmptyFile /\ cached = TRUE
  /\ rec = <<>> /\ orphans = {}
  /\ op = NoOp /\ job = NoJob
  /\ load \in Loads /\ steps = 0
-----------------------------------------------------------------------------
(* A page where the text at o is free; what a free fragment holds is not   *)
(* kept.                                                                   *)
FreeText(p, o) ==
  [word |-> [p.word EXCEPT ![o] = - @],
   data |-> [k \in DOMAIN p.data \ {o + 2} |-> p.data[k]], next |-> p.next]

(* Delete: nothing is freed in a shared file.  A short text becomes a free *)
(* fragment, and a walk over the page follows.                             *)
Deleting(pos, kind) ==
  LET n == pos[1]
      o == pos[2]
  IN  IF pos = NoPos \/ ~ cached THEN job' = Then(kind) /\ UNCHANGED file
      ELSE IF Word(file, pos) < MPageSize - 2
      THEN job' = WalkJob(n, 0) /\ file' = [file EXCEPT !.page[n] = FreeText(@, o)]
      ELSE job' = ReleaseJob(file, n) /\ UNCHANGED file

(* Delete when the walk is done, with f for the file: a page that is one   *)
(* free fragment and not the current one is released.                      *)
Walked(f) ==
  /\ file' = IF f.page[job.n].word[0] <= 2 - MPageSize /\ f.part # <<job.n, 0>>
             THEN ReleasePage(f, job.n) ELSE f
  /\ job' = Then(op.kind)

(* The walk at offset p, which is not FreePart: over an occupied fragment, *)
(* from a free one to the next occupied one, joining free ones.            *)
SkipText(w, n, p) ==
  /\ w[p] > 0
  /\ job' = WalkJob(n, p + w[p] + 2) /\ UNCHANGED file

SkipFree(w, n, p, next) ==
  /\ next \in DOMAIN w /\ <<n, next>> # file.part /\ w[p] <= 0 /\ w[next] > 0
  /\ job' = WalkJob(n, next) /\ UNCHANGED file

JoinFree(w, n, p, next) ==
  /\ next \in DOMAIN w /\ <<n, next>> # file.part /\ w[p] <= 0 /\ w[next] <= 0
  /\ file' = [file EXCEPT !.page[n].word =
                [o \in DOMAIN w \ {next} |-> IF o = p THEN w[p] + w[next] - 2 ELSE w[o]]]
  /\ UNCHANGED job

(* A free fragment that ends at FreePart, be it at the start of the next   *)
(* page, becomes part of it.                                               *)
DrawBack(w, n, p, next) ==
  /\ w[p] <= 0
  /\ file.part \in {<<n, next>>} \cup IF next = MPageSize THEN {<<n + 1, 0>>} ELSE {}
  /\ Walked([file EXCEPT !.part = <<n, p>>])

LastFree(w, n, p, next) ==
  /\ w[p] <= 0 /\ next \notin DOMAIN w /\ <<n, next>> # file.part
  /\ ~ (next = MPageSize /\ file.part = <<n + 1, 0>>)
  /\ Walked(file)

Walk ==
  LET n == job.n
      p == job.p
      w == file.page[n].word
      next == p - w[p] + 2
  IN  /\ job.do = "walk" /\ p \in DOMAIN w /\ <<n, p>> # file.part
      /\ \/ SkipText(w, n, p)
         \/ SkipFree(w, n, p, next)
         \/ JoinFree(w, n, p, next)
         \/ DrawBack(w, n, p, next)
         \/ LastFree(w, n, p, next)
      /\ UNCHANGED op

(* The walk ends at FreePart, or behind the last text of a full page.      *)
(* There the code goes on reading lengths behind the page that it has in   *)
(* memory; that none of them ends in FreePart is taken for granted.        *)
WalkEnds ==
  /\ job.do = "walk"
  /\ job.p \notin DOMAIN file.page[job.n].word \/ <<job.n, job.p>> = file.part
  /\ Walked(file) /\ UNCHANGED op

(* When it is one or two bytes that are left behind the last text, they    *)
(* too are read as a length, and what they hold may make FreePart look     *)
(* like the end of a fragment that begins with them.                       *)
TailDrawsBack ==
  /\ job.do = "walk" /\ job.p \in MPageSize - 2 .. MPageSize - 1
  /\ job.p \notin DOMAIN file.page[job.n].word /\ file.part[1] > job.n
  /\ Walked([file EXCEPT !.part = <<job.n, job.p>>]) /\ UNCHANGED op

(* Mutant: the segments behind the first one are forgotten.                *)
ReleaseFirst ==
  LET next == file.page[job.n].next
  IN  /\ job.do = "release"
      /\ file' = ReleasePage(file, job.n)
      /\ job' = IF job.bytes > MPageSize THEN [job EXCEPT !.n = next, !.bytes = @ - Linked]
                ELSE Then(op.kind)
      /\ UNCHANGED op

(* The pages of a segment: all of them have a link.  The next segment      *)
(* hangs on the last one.                                                  *)
ReleaseOne ==
  LET next == file.page[job.n].next
      f == ReleasePage(file, job.n)
  IN  /\ job.do = "release"
      /\ file' = f
      /\ job' = IF job.bytes > MPageSize THEN [job EXCEPT !.n = next, !.bytes = @ - Linked]
                ELSE IF job.full THEN ReleaseJob(f, next) ELSE Then(op.kind)
      /\ UNCHANGED op
-----------------------------------------------------------------------------
(* Store.                                                                  *)
StoreNothing ==
  /\ job.do = "store" /\ op.t.len = 0
  /\ job' = SetJob(NoPos) /\ UNCHANGED <<file, op>>

StoreShort ==
  LET new == NewPage(file)
  IN  /\ job.do = "store" /\ op.t.len \in 1 .. MPageSize - 2
      /\ IF Fits(file, op.t)
         THEN /\ file' = PutShort(file, file.part[1], file.part[2], op.t)
              /\ job' = SetJob(file.part)
         ELSE /\ file' = PutShort(new.f, new.n, 0, op.t)
              /\ job' = SetJob(<<new.n, 0>>)
      /\ UNCHANGED op

StoreLong ==
  LET new == NewPage(file)
  IN  /\ job.do = "store" /\ op.t.len > MPageSize - 2
      /\ file' = PutHead(new.f, new.n, op.t.len)
      /\ job' = WriteJob(new.n, new.n, 2, 0, Bytes(Head4(op.t.len)), Full(Head4(op.t.len)))
      /\ UNCHANGED op

(* WriteBuffer: a page that is full is linked to a new one.                *)
WriteMore ==
  LET n == job.n
      x == Piece(op.t, job.from, Linked - job.o)
      new == NewPage(file)
  IN  /\ job.do = "write" /\ job.left > MPageSize - job.o
      /\ file' = Link(PutPiece(new.f, n, job.o, x), n, new.n)
      /\ job' = WriteJob(job.first, new.n, 0, job.from + x.n, job.left - x.n, job.full)
      /\ UNCHANGED op

(* WriteLongBuffer: the second segment gets all that remains.              *)
WriteSegment ==
  LET n == job.n
      x == Piece(op.t, job.from, job.left)
      remains == op.t.len - MaxLStrLen
      new == NewPage(file)
  IN  /\ job.do = "write" /\ job.left <= MPageSize - job.o /\ job.full
      /\ file' = PutHead(Link(PutPiece(new.f, n, job.o, x), n, new.n), new.n, remains)
      /\ job' = WriteJob(job.first, new.n, 2, MaxLStrLen, remains, FALSE)
      /\ UNCHANGED op

WriteLast ==
  /\ job.do = "write" /\ job.left <= MPageSize - job.o /\ ~ job.full
  /\ file' = PutPiece(file, job.n, job.o, Piece(op.t, job.from, job.left))
  /\ job' = SetJob(<<job.first, 0>>)
  /\ UNCHANGED op
-----------------------------------------------------------------------------
(* Records.  saveS stores the text of a record that is written.            *)
(* CreateRec: the records from n on move up as they are, the new one is    *)
(* written without a look at what was in its place.                        *)
CreateRec(n, t) ==
  /\ Len(rec) < MaxRecs /\ n <= Len(rec) + 1
  /\ op' = Op("create", n, t, NoPos) /\ job' = StoreJob
  /\ UNCHANGED <<file, cached, rec, orphans>>

(* WriteRec: a text that is the same stays where it is; another one is     *)
(* deleted, then the new one stored.                                       *)
WriteRec(r, t) ==
  /\ r \in DOMAIN rec /\ rec[r].t # t
  /\ op' = Op("write", r, t, rec[r].pos) /\ Deleting(rec[r].pos, "write")
  /\ UNCHANGED <<cached, rec, orphans>>

(* Mutant: the text of the record behind it is deleted, too late.          *)
DeleteNext(r) ==
  /\ r + 1 \in DOMAIN rec
  /\ op' = Op("delete", r, NoText, rec[r].pos) /\ Deleting(rec[r + 1].pos, "delete")
  /\ UNCHANGED <<cached, rec, orphans>>

(* DeleteRec of a file without an index.                                   *)
DeleteRec(r) ==
  /\ r \in DOMAIN rec
  /\ op' = Op("delete", r, NoText, rec[r].pos) /\ Deleting(rec[r].pos, "delete")
  /\ UNCHANGED <<cached, rec, orphans>>

(* The record is written, or removed, with the position of its new text.   *)
Kept(pos) == IF pos = NoPos \/ cached THEN {} ELSE {pos}

SetRec ==
  LET new == Rec(job.pos, op.t)
  IN  /\ job.do = "set"
      /\ rec' = CASE op.kind = "create" -> InsertAt(rec, op.at, new)
                  [] op.kind \in {"write", "group"} -> [rec EXCEPT ![op.at] = new]
                  [] op.kind = "delete" -> RemoveAt(rec, op.at)
      /\ orphans' = orphans \cup Kept(op.old)
      /\ IF op.kind = "group"
         THEN op' = [op EXCEPT !.at = @ + 1, !.from = @ + 1, !.old = NoPos] /\ job' = MoveJob
         ELSE op' = NoOp /\ job' = NoJob
      /\ UNCHANGED file

(* The data editor deletes a group: each record that stays is written in   *)
(* the place of the first one that is free; the texts of the last places   *)
(* remain.  The loop reads record from and has written all before at.      *)
DeleteGroup(group) ==
  /\ group # {} /\ group \subseteq DOMAIN rec
  /\ op' = [Op("group", 1, NoText, NoPos) EXCEPT !.from = 1, !.group = group]
  /\ job' = MoveJob
  /\ UNCHANGED <<file, cached, rec, orphans>>

Moving == job.do = "move" /\ op.from \in DOMAIN rec

DropRec ==
  /\ Moving /\ op.from \in op.group
  /\ op' = [op EXCEPT !.from = @ + 1]
  /\ UNCHANGED <<file, rec, orphans, job>>

KeepRec ==
  /\ Moving /\ op.from \notin op.group /\ rec[op.from].t = rec[op.at].t
  /\ op' = [op EXCEPT !.at = @ + 1, !.from = @ + 1]
  /\ UNCHANGED <<file, rec, orphans, job>>

MoveRec ==
  /\ Moving /\ op.from \notin op.group /\ rec[op.from].t # rec[op.at].t
  /\ op' = [op EXCEPT !.t = rec[op.from].t, !.old = rec[op.at].pos]
  /\ Deleting(rec[op.at].pos, "group")
  /\ UNCHANGED <<rec, orphans>>

EndGroup ==
  /\ job.do = "move" /\ op.from \notin DOMAIN rec
  /\ rec' = SubSeq(rec, 1, op.at - 1)
  /\ orphans' = orphans \cup ({rec[r].pos : r \in op.at .. Len(rec)} \ {NoPos})
  /\ op' = NoOp /\ job' = NoJob
  /\ UNCHANGED file

(* AssignNRecs: to none, the text file is emptied; to fewer, their texts   *)
(* remain.                                                                 *)
AssignNRecs(n) ==
  /\ n < Len(rec) /\ rec' = SubSeq(rec, 1, n)
  /\ IF n = 0 THEN file' = EmptyFile /\ orphans' = {}
     ELSE /\ orphans' = orphans \cup ({rec[r].pos : r \in n + 1 .. Len(rec)} \ {NoPos})
          /\ UNCHANGED file
  /\ UNCHANGED <<cached, op, job>>

(* The user goes from shared use to Excl or back.                          *)
SetLockMode ==
  /\ cached' = ~ cached
  /\ UNCHANGED <<file, rec, orphans, op, job>>

Change ==
  \/ \E t \in Texts :
       \/ \E n \in 1 .. MaxRecs : CreateRec(n, t)
       \/ \E r \in 1 .. MaxRecs : WriteRec(r, t)
  \/ \E r \in 1 .. MaxRecs : DeleteRec(r)
  \/ \E group \in SUBSET (1 .. MaxRecs) : DeleteGroup(group)
  \/ \E n \in 0 .. MaxRecs : AssignNRecs(n)
  \/ SetLockMode

TextStep ==
  \/ Walk \/ WalkEnds \/ TailDrawsBack \/ ReleaseOne
  \/ StoreNothing \/ StoreShort \/ StoreLong
  \/ WriteMore \/ WriteSegment \/ WriteLast

RecStep == SetRec \/ DropRec \/ KeepRec \/ MoveRec \/ EndGroup

Next ==
  \/ /\ op = NoOp /\ load # <<>>
     /\ CreateRec(Len(rec) + 1, Head(load)) /\ load' = Tail(load) /\ UNCHANGED steps
  \/ /\ op = NoOp /\ load = <<>> /\ steps < MaxSteps
     /\ Change /\ steps' = steps + 1 /\ UNCHANGED load
  \/ TextStep /\ UNCHANGED <<cached, rec, orphans, load, steps>>
  \/ RecStep /\ UNCHANGED <<cached, load, steps>>

Spec == Init /\ [][Next]_vars
-----------------------------------------------------------------------------
(* The pages of the free list, and those of the text at a position.        *)
FreePages ==
  LET along[k \in Nat] == IF k = 0 THEN file.free ELSE PageAt(file, along[k - 1]).next
  IN  {along[k] : k \in 0 .. file.max} \ {0}

PagesOf(pos) == {Read(file, pos)[k].n : k \in 0 .. file.max} \ {0}

Stored == Positions \cup orphans
IsShort(pos) == Word(file, pos) <= MPageSize - 2

SharedPages == {pos[1] : pos \in {p \in Stored : IsShort(p)}} \cup {file.part[1]}
LongPages == UNION {PagesOf(pos) : pos \in {p \in Stored : ~ IsShort(p)}}

(* Between two operations the text of each record reads back as it was     *)
(* stored, and its length is told right without reading it, whatever has   *)
(* happened to the other records and to their texts: no text is ever       *)
(* written over, also by a record that is shifted or moved together with   *)
(* the position of its text (Read, GetLength, Store, Delete, CreateRec,    *)
(* DeleteRec).                                                             *)
TextsReadBack ==
  op = NoOp =>
    \A r \in DOMAIN rec :
      IF rec[r].pos = NoPos THEN rec[r].t.len = 0
      ELSE ReadsAs(file, rec[r].pos, rec[r].t) /\ GetLength(file, rec[r].pos) = rec[r].t.len

(* A page with neither a text nor a piece of one.                          *)
NothingOn(n) ==
  /\ \A o \in DOMAIN file.page[n].word : file.page[n].word[o] <= 0
  /\ DOMAIN file.page[n].data = {}

(* Between two operations no page is used twice and none of a long text is *)
(* lost: every page is free, or belongs to one long text, or has short     *)
(* texts or the place for the next one, or has free fragments only; and no *)
(* two records have the same text (NewPage, ReleasePage, and Delete, which *)
(* frees every page of every segment).                                     *)
PagesUsedOnce ==
  op = NoOp =>
    /\ FreePages \cap (SharedPages \cup LongPages) = {}
    /\ SharedPages \cap LongPages = {}
    /\ FreePages \cup SharedPages \cup LongPages \subseteq 1 .. file.max
    /\ \A n \in (1 .. file.max) \ (FreePages \cup SharedPages \cup LongPages) : NothingOn(n)
    /\ \A p, q \in Stored :
         p # q /\ ~ IsShort(p) /\ ~ IsShort(q) => PagesOf(p) \cap PagesOf(q) = {}
    /\ \A r, q \in DOMAIN rec : r # q => rec[r].pos # rec[q].pos \/ rec[r].pos = NoPos
    /\ Positions \cap orphans = {}

(* Where a fragment ends.                                                  *)
End(w, o) == o + 2 + IF w[o] < 0 THEN - w[o] ELSE w[o]

(* The fragments with the lengths w follow each other from the beginning   *)
(* of the page to its end, where less than a fragment may be left.         *)
Tiled(w) ==
  /\ DOMAIN w # {} => 0 \in DOMAIN w
  /\ \A o \in DOMAIN w :
       /\ End(w, o) \in DOMAIN w \cup (MPageSize - 2 .. MPageSize)
       /\ \A k \in DOMAIN w : k <= o \/ k >= End(w, o)

(* A place between two fragments of a page, or on a page without any.      *)
Between(w, o) ==
  \/ o \in DOMAIN w
  \/ o = 0 /\ DOMAIN w = {}
  \/ o \in MPageSize - 2 .. MPageSize - 1 /\ \E k \in DOMAIN w : End(w, k) = o

(* Between two operations the fragments of a shared page tile it, the      *)
(* occupied ones are the texts, and FreePart lies between two fragments    *)
(* with free ones behind it.  Delete relies on it: its walk over the page  *)
(* follows the lengths, and Store writes over what is behind FreePart      *)
(* (FandTFile.cpp, Delete and PreparePositionForShortText).                *)
FragmentsTilePage ==
  op = NoOp =>
    /\ \A n \in SharedPages :
         LET w == file.page[n].word
         IN  /\ Tiled(w)
             /\ {o \in DOMAIN w : w[o] > 0} = {pos[2] : pos \in {p \in Stored : p[1] = n}}
    /\ LET w == file.page[file.part[1]].word
       IN  /\ Between(w, file.part[2])
           /\ \A o \in DOMAIN w : o >= file.part[2] => w[o] <= 0
=============================================================================
