---------------------------- MODULE TextFileProofs ----------------------------
(***************************************************************************)
(* Proofs about TextFile: every text of a record reads back, no page of    *)
(* the text file is used twice, and the fragments of a shared page tile    *)
(* it, for every page size, segment size and set of texts.                 *)
(*                                                                         *)
(* The inductive invariant says what each page is.  It has four things     *)
(* that the file does not say by itself: own[n], whether page n is shared, *)
(* free, or which piece of which long text it has; nf, how many pages are  *)
(* free; hold, the texts in the file by their positions; and w, the text   *)
(* that is being written or released.  A page is described by itself and   *)
(* the page it links to, so each step has to be looked at on the one or    *)
(* two pages that it changes.                                              *)
(*                                                                         *)
(* Reading and counting are recursive functions over the links.  A reader  *)
(* gets from a page to the one that follows, where the text is further on, *)
(* so it is on no page twice, and has come to the end before it has taken  *)
(* more steps than there are pages.                                        *)
(***************************************************************************)
EXTENDS TextFile, FiniteSetTheorems, WellFoundedInduction, TLAPS

(* What a page is.  A shared one has short texts and free fragments.       *)
SharedPage == [kind |-> "shared"]
(* A free page: i of them are on the free list from it on.                 *)
FreeSlot(i) == [kind |-> "free", i |-> i]
(* A page of a long text t that begins on page of: the piece on it begins  *)
(* at byte from of the text and at o on the page, left bytes of the        *)
(* segment are still to come there, and full says that another segment     *)
(* follows.                                                                *)
Slot(of, t, o, from, left, full) ==
  [kind |-> "long", of |-> of, t |-> t, o |-> o, from |-> from, left |-> left, full |-> full]

IsFree(x) == x.kind = "free" /\ x.i \in Nat \ {0} /\ x = FreeSlot(x.i)

SlotOK(s) ==
  /\ s.kind = "long" /\ s = Slot(s.of, s.t, s.o, s.from, s.left, s.full)
  /\ s.of \in Nat \ {0} /\ s.t \in Texts /\ s.t.len >= MPageSize - 2
  /\ s.o \in {0, 2} /\ s.from \in Nat /\ s.left \in Nat \ {0} /\ s.full \in BOOLEAN
  /\ s.o = 2 => s.left <= MaxLStrLen
  /\ s.full => /\ s.t.len > MaxLStrLen /\ s.from + s.left = MaxLStrLen
               /\ \E k \in 0 .. MaxLStrLen : s.left + s.o = MaxLStrLen + 2 - k * Linked
  /\ ~ s.full => s.from + s.left = s.t.len

(* The first page of a text, and whether another page follows, which is    *)
(* then the page of the slot Following.                                    *)
First(n, t) == Slot(n, t, 2, 0, Bytes(Head4(t.len)), Full(Head4(t.len)))

HasNext(s) == s.left > MPageSize - s.o \/ s.full

Following(s) ==
  IF s.left > MPageSize - s.o
  THEN Slot(s.of, s.t, 0, s.from + (Linked - s.o), s.left - (Linked - s.o), s.full)
  ELSE Slot(s.of, s.t, 2, MaxLStrLen, s.t.len - MaxLStrLen, FALSE)

(* The length that a segment beginning on this page has.                   *)
SlotWord(s) == IF s.full THEN MaxLStrLen + 1 ELSE s.left

(* The text that is under way: it is written, on page n at the moment, or  *)
(* released, from page n on.                                               *)
Work(do, of, n, t) == [do |-> do, of |-> of, n |-> n, t |-> t]
NoWork == Work("none", 0, 0, NoText)
(* The first page of a text, or what is left of it.                        *)
Root(w, of) == IF w.do = "release" /\ of = w.of THEN w.n ELSE of

(* A page as a record.                                                     *)
Paged(word, data, next) == [word |-> word, data |-> data, next |-> next]

IsPage(p) ==
  /\ p = [word |-> p.word, data |-> p.data, next |-> p.next]
  /\ \A o \in DOMAIN p.word : p.word[o] \in Int
  /\ p.next \in Nat

(* A page of fragments: they tile it, and texts are in the occupied ones   *)
(* only.                                                                   *)
FragmentsOK(p) ==
  /\ DOMAIN p.word \subseteq 0 .. MPageSize - 3
  /\ Tiled(p.word)
  /\ \A k \in DOMAIN p.data : k \in Int /\ k - 2 \in DOMAIN p.word /\ p.word[k - 2] > 0

(* A shared page: each occupied fragment is a text that the file holds.    *)
SharedOK(f, own, hold, n) ==
  /\ own[n] = SharedPage
  /\ FragmentsOK(f.page[n])
  /\ \A o \in DOMAIN f.page[n].word : f.page[n].word[o] > 0 => <<n, o>> \in DOMAIN hold

(* A free page is linked to the next one of the list.                      *)
FreeOK(f, own, nf, n) ==
  /\ IsFree(own[n]) /\ own[n].i <= nf
  /\ own[n].i = 1 => f.page[n].next = 0
  /\ own[n].i > 1 => /\ f.page[n].next \in 1 .. f.max
                     /\ own[f.page[n].next] = FreeSlot(own[n].i - 1)

(* A page of a long text that begins a segment has its length; it has its  *)
(* piece of the text, and the link to the following page.                  *)
HeadOK(f, own, n) ==
  own[n].o = 2 => 0 \in DOMAIN f.page[n].word /\ f.page[n].word[0] = SlotWord(own[n])

PieceOK(f, own, n) ==
  /\ own[n].o \in DOMAIN f.page[n].data
  /\ f.page[n].data[own[n].o] = Piece(own[n].t, own[n].from, Here(own[n]))
  /\ HasNext(own[n]) => /\ f.page[n].next \in 1 .. f.max
                        /\ own[f.page[n].next] = Following(own[n])

(* The text a page belongs to is held by the file, or under way.           *)
TextOK(own, hold, w, n) ==
  IF own[n].of = w.of THEN own[n].t = w.t
  ELSE /\ <<own[n].of, 0>> \in DOMAIN hold /\ hold[<<own[n].of, 0>>] = own[n].t
       /\ own[n].t.len > MPageSize - 2

(* A page of a long text that is not the first one follows another one.    *)
PredOK(f, own, w, n) ==
  n # Root(w, own[n].of) =>
    \E m \in 1 .. f.max : SlotOK(own[m]) /\ HasNext(own[m]) /\ Following(own[m]) = own[n]

(* A page of a long text, but for what the page that is just being written *)
(* does not have yet.                                                      *)
LongOK(f, own, hold, w, n) ==
  /\ SlotOK(own[n]) /\ HeadOK(f, own, n)
  /\ ~ (w.do = "write" /\ n = w.n) => PieceOK(f, own, n)
  /\ TextOK(own, hold, w, n)
  /\ PredOK(f, own, w, n)
  /\ w.do = "write" /\ own[n].of = w.of => own[n].from <= own[w.n].from

PageOK(f, own, nf, hold, w, n) ==
  /\ IsPage(f.page[n])
  /\ \/ SharedOK(f, own, hold, n)
     \/ FreeOK(f, own, nf, n)
     \/ LongOK(f, own, hold, w, n)

(* A short text at its place.                                              *)
ShortOK(f, own, n, o, t) ==
  /\ own[n] = SharedPage
  /\ o \in DOMAIN f.page[n].word /\ f.page[n].word[o] = t.len
  /\ o + 2 \in DOMAIN f.page[n].data /\ f.page[n].data[o + 2] = Piece(t, 0, t.len)

(* A text that the file holds: a short one on a shared page, a long one    *)
(* from the beginning of its first page on.                                *)
HoldOK(f, own, hold, pos) ==
  /\ pos = <<pos[1], pos[2]>> /\ pos[1] \in 1 .. f.max /\ pos[2] \in Nat
  /\ hold[pos] \in Texts /\ hold[pos].len > 0
  /\ hold[pos].len <= MPageSize - 2 => ShortOK(f, own, pos[1], pos[2], hold[pos])
  /\ hold[pos].len > MPageSize - 2 => pos[2] = 0 /\ own[pos[1]] = First(pos[1], hold[pos])

(* Nothing is occupied from o on.                                          *)
Behind(p, o) == \A k \in DOMAIN p.word : k >= o => p.word[k] <= 0

(* A place for the next short text.                                        *)
PartOK(f, own, pos) ==
  /\ pos = <<pos[1], pos[2]>> /\ pos[1] \in 1 .. f.max /\ pos[2] \in Nat
  /\ own[pos[1]] = SharedPage
  /\ Between(f.page[pos[1]].word, pos[2])
  /\ Behind(f.page[pos[1]], pos[2])

(* The text under way is not held yet, or no longer.                       *)
WorkOK(f, own, hold, w) ==
  \/ w = NoWork
  \/ /\ w.do \in {"write", "release"} /\ w = Work(w.do, w.of, w.n, w.t)
     /\ w.of \in Nat \ {0} /\ <<w.of, 0>> \notin DOMAIN hold
     /\ w.n \in 1 .. f.max /\ SlotOK(own[w.n]) /\ own[w.n].of = w.of
     /\ w.do = "write" => w.of \in 1 .. f.max /\ own[w.of] = First(w.of, w.t)

(* The free list has nf pages.                                             *)
FreeRootOK(f, own, nf) ==
  /\ nf \in Nat /\ f.free \in Nat
  /\ nf = 0 => f.free = 0
  /\ nf > 0 => f.free \in 1 .. f.max /\ own[f.free] = FreeSlot(nf)

(* No two pages are the same piece of a text, or at the same place of the  *)
(* free list.                                                              *)
Distinct(own) == \A n, m \in DOMAIN own : own[n] = own[m] /\ own[n] # SharedPage => n = m

(* A file: pages 1 to max.                                                 *)
IsFile(f) ==
  /\ f = [page |-> f.page, free |-> f.free, max |-> f.max, part |-> f.part]
  /\ f.max \in Nat \ {0} /\ DOMAIN f.page = 1 .. f.max /\ f.page = [n \in 1 .. f.max |-> f.page[n]]

(* The file f, with what its pages are, the number of free ones, the texts *)
(* hold by position and the text w under way.                              *)
FileOK(f, own, nf, hold, w) ==
  /\ IsFile(f)
  /\ DOMAIN own = 1 .. f.max
  /\ \A n \in 1 .. f.max : PageOK(f, own, nf, hold, w, n)
  /\ Distinct(own)
  /\ FreeRootOK(f, own, nf)
  /\ \A pos \in DOMAIN hold : HoldOK(f, own, hold, pos)
  /\ PartOK(f, own, f.part)
  /\ WorkOK(f, own, hold, w)
-----------------------------------------------------------------------------
(* The constants: a segment is longer than a page, no text is longer than  *)
(* two segments, and the text without bytes is NoText.                     *)
LEMMA Sizes ==
  /\ MPageSize \in Nat /\ MPageSize > 10
  /\ MaxLStrLen \in Nat /\ MaxLStrLen > MPageSize
  /\ Linked \in Nat /\ Linked = MPageSize - 4
  /\ DataWord \in Int /\ NoText \in Texts /\ NoText.len = 0
  /\ \A t \in Texts : t.len \in Nat /\ t.len <= 2 * MaxLStrLen /\ (t.len = 0 => t = NoText)
BY TextFileAssumption DEF Linked, NoText

(* The kinds of pages are told apart.                                      *)
LEMMA Kinds ==
  ASSUME NEW s
  PROVE  /\ SlotOK(s) => s # SharedPage /\ ~ IsFree(s)
         /\ IsFree(s) => s # SharedPage
         /\ \A i : FreeSlot(i).kind = "free" /\ FreeSlot(i).i = i
         /\ \A i \in Nat \ {0} : IsFree(FreeSlot(i))
         /\ SharedPage.kind = "shared"
BY DEF SlotOK, SharedPage, IsFree, FreeSlot

(* The parts of a slot.                                                    *)
LEMMA SlotFields ==
  ASSUME NEW of, NEW t, NEW o, NEW from, NEW left, NEW full
  PROVE  LET s == Slot(of, t, o, from, left, full)
         IN  /\ s.kind = "long" /\ s.of = of /\ s.t = t /\ s.o = o
             /\ s.from = from /\ s.left = left /\ s.full = full
BY DEF Slot

(* In a full segment the bytes that are left on a page, with the length,   *)
(* do not reach into the link unless another page follows.                 *)
LEMMA LinkFree ==
  ASSUME NEW s, SlotOK(s), s.full
  PROVE  s.left + s.o > MPageSize \/ s.left + s.o <= Linked
<1>1. PICK k \in 0 .. MaxLStrLen : s.left + s.o = MaxLStrLen + 2 - k * Linked
  BY DEF SlotOK
<1>2. MaxLStrLen + 2 - k * Linked \notin Linked + 1 .. MPageSize
  BY TextFileAssumption
<1>3. s.left + s.o \in Int
  BY DEF SlotOK
<1>. QED  BY <1>1, <1>2, <1>3, Sizes

(* The slot that follows is one of the same text, which begins where the   *)
(* piece on this page ends.                                                *)
LEMMA FollowingOK ==
  ASSUME NEW s, SlotOK(s), HasNext(s)
  PROVE  /\ SlotOK(Following(s))
         /\ Following(s).of = s.of /\ Following(s).t = s.t
         /\ Following(s).from > s.from
         /\ Following(s).from = s.from + Here(s)
<1>. DEFINE u == Following(s)
<1>0. /\ s.of \in Nat \ {0} /\ s.t \in Texts /\ s.t.len >= MPageSize - 2
      /\ s.o \in {0, 2} /\ s.from \in Nat /\ s.left \in Nat \ {0} /\ s.full \in BOOLEAN
      /\ s.full => s.t.len > MaxLStrLen /\ s.from + s.left = MaxLStrLen
      /\ ~ s.full => s.from + s.left = s.t.len
      /\ s.t.len \in Nat /\ s.t.len <= 2 * MaxLStrLen
  BY Sizes DEF SlotOK
<1>1. CASE s.left > MPageSize - s.o
  <2>1. u = Slot(s.of, s.t, 0, s.from + (Linked - s.o), s.left - (Linked - s.o), s.full)
    BY <1>1 DEF Following
  <2>2. /\ u.kind = "long" /\ u.of = s.of /\ u.t = s.t /\ u.o = 0
        /\ u.from = s.from + (Linked - s.o) /\ u.left = s.left - (Linked - s.o) /\ u.full = s.full
    BY <2>1, SlotFields
  <2>3. u.from \in Nat /\ u.left \in Nat \ {0} /\ u.from + u.left = s.from + s.left /\ u.from > s.from
    BY <1>0, <1>1, <2>2, Sizes
  <2>4. ASSUME s.full PROVE \E k \in 0 .. MaxLStrLen : u.left + u.o = MaxLStrLen + 2 - k * Linked
    <3>1. PICK k \in 0 .. MaxLStrLen : s.left + s.o = MaxLStrLen + 2 - k * Linked
      BY <2>4 DEF SlotOK
    <3>2. (k + 1) * Linked = k * Linked + Linked /\ k * Linked >= k
      BY Sizes
    <3>3. k * Linked < MaxLStrLen + 2 - MPageSize
      BY <3>1, <3>2, <1>0, <1>1, Sizes
    <3>4. k + 1 \in 0 .. MaxLStrLen
      BY <3>2, <3>3, Sizes
    <3>5. u.left + u.o = MaxLStrLen + 2 - (k + 1) * Linked
      <4>1. u.left + u.o = s.left - (Linked - s.o)
        BY <2>2, <2>3
      <4>2. s.left - (Linked - s.o) = s.left + s.o - Linked
        BY <1>0, Sizes
      <4>3. ASSUME NEW a \in Int, NEW b \in Int, b = a + Linked, s.left + s.o = MaxLStrLen + 2 - a
            PROVE  u.left + u.o = MaxLStrLen + 2 - b
        BY <1>0, <4>1, <4>2, <4>3, Sizes
      <4>4. k * Linked \in Int /\ (k + 1) * Linked \in Int
        BY Sizes
      <4>. QED  BY <3>1, <3>2, <4>3, <4>4
    <3>. QED  BY <3>4, <3>5
  <2>5. u = Slot(u.of, u.t, u.o, u.from, u.left, u.full)
    BY <2>1, <2>2
  <2>6. SlotOK(u)
    BY <1>0, <2>2, <2>3, <2>4, <2>5 DEF SlotOK
  <2>7. Here(s) = Linked - s.o
    BY <1>1 DEF Here
  <2>. QED  BY <2>2, <2>3, <2>6, <2>7
<1>2. CASE ~ (s.left > MPageSize - s.o)
  <2>0. s.full
    BY <1>2 DEF HasNext
  <2>1. u = Slot(s.of, s.t, 2, MaxLStrLen, s.t.len - MaxLStrLen, FALSE)
    BY <1>2 DEF Following
  <2>2. /\ u.kind = "long" /\ u.of = s.of /\ u.t = s.t /\ u.o = 2
        /\ u.from = MaxLStrLen /\ u.left = s.t.len - MaxLStrLen /\ ~ u.full /\ u.full \in BOOLEAN
    BY <2>1 DEF Slot
  <2>3. u.from \in Nat /\ u.left \in Nat \ {0} /\ u.left <= MaxLStrLen
        /\ u.from + u.left = s.t.len /\ u.from > s.from
    BY <1>0, <2>0, <2>2, Sizes
  <2>4. u = Slot(u.of, u.t, u.o, u.from, u.left, u.full)
    BY <2>1 DEF Slot
  <2>5. SlotOK(u)
    BY <1>0, <2>2, <2>3, <2>4 DEF SlotOK
  <2>6. Here(s) = s.left
    BY <1>2 DEF Here
  <2>. QED  BY <1>0, <2>0, <2>2, <2>3, <2>5, <2>6
<1>. QED  BY <1>1, <1>2

(* The first slot of a text; what its page says is the length of the first *)
(* segment.                                                                *)
LEMMA FirstOK ==
  ASSUME NEW n \in Nat \ {0}, NEW t \in Texts, t.len >= MPageSize - 2
  PROVE  /\ SlotOK(First(n, t)) /\ First(n, t).of = n /\ First(n, t).t = t
         /\ First(n, t).o = 2 /\ First(n, t).from = 0
         /\ First(n, t).left = Bytes(Head4(t.len)) /\ First(n, t).full = Full(Head4(t.len))
         /\ SlotWord(First(n, t)) = Head4(t.len)
<1>. DEFINE s == First(n, t)
<1>1. /\ s.kind = "long" /\ s.of = n /\ s.t = t /\ s.o = 2 /\ s.from = 0
      /\ s.left = Bytes(Head4(t.len)) /\ s.full = Full(Head4(t.len))
  BY SlotFields DEF First
<1>2. t.len \in Nat /\ t.len <= 2 * MaxLStrLen
  BY Sizes
<1>3. /\ s.full => t.len > MaxLStrLen /\ s.left = MaxLStrLen
      /\ ~ s.full => t.len <= MaxLStrLen /\ s.left = t.len
      /\ s.full \in BOOLEAN
  <2>. DEFINE h == Head4(t.len)
  <2>1. /\ t.len > MaxLStrLen => h = MaxLStrLen + 1
        /\ t.len <= MaxLStrLen => h = t.len /\ h # MaxLStrLen + 1
    BY <1>2, Sizes DEF Head4
  <2>2. Full(h) \in BOOLEAN /\ (Full(h) <=> h = MaxLStrLen + 1)
    BY DEF Full
  <2>3. Bytes(h) = IF h = MaxLStrLen + 1 THEN MaxLStrLen ELSE h
    BY DEF Bytes, Full
  <2>4. s.full <=> h = MaxLStrLen + 1
    BY <1>1, <2>2
  <2>5. s.full \in BOOLEAN
    BY <1>1, <2>2
  <2>6. s.left = IF h = MaxLStrLen + 1 THEN MaxLStrLen ELSE h
    BY <1>1, <2>3
  <2>. HIDE DEF s, h
  <2>. QED  BY <1>2, <2>1, <2>4, <2>5, <2>6, Sizes
<1>4. s.left \in Nat \ {0} /\ s.left <= MaxLStrLen /\ s.full \in BOOLEAN
  <2>. HIDE DEF s
  <2>. QED  BY <1>2, <1>3, Sizes
<1>5. s = Slot(s.of, s.t, s.o, s.from, s.left, s.full)
  BY <1>1 DEF First
<1>6. s.full => \E k \in 0 .. MaxLStrLen : s.left + s.o = MaxLStrLen + 2 - k * Linked
  <2>0. 0 * Linked = 0
    BY Sizes
  <2>1. s.full => s.left + s.o = MaxLStrLen + 2 - 0 * Linked
    <3>. HIDE DEF s
    <3>. QED  BY <1>1, <1>3, <2>0, Sizes
  <2>2. 0 \in 0 .. MaxLStrLen
    BY Sizes
  <2>. QED  BY <2>1, <2>2
<1>7. SlotOK(s)
  <2>1. s.full => s.t.len > MaxLStrLen /\ s.from + s.left = MaxLStrLen
    <3>. HIDE DEF s
    <3>. QED  BY <1>1, <1>3, Sizes
  <2>2. ~ s.full => s.from + s.left = s.t.len
    <3>. HIDE DEF s
    <3>. QED  BY <1>1, <1>2, <1>3
  <2>. HIDE DEF s
  <2>. QED  BY <1>1, <1>4, <1>5, <1>6, <2>1, <2>2 DEF SlotOK
<1>8. SlotWord(s) = Head4(t.len)
  BY <1>1, <1>2, <1>3, Sizes DEF SlotWord, Head4
<1>. QED  BY <1>1, <1>7, <1>8
-----------------------------------------------------------------------------
(* A page the file gets new or from the free list is a page without        *)
(* fragments; all other pages are what they were.                          *)
Fresh(f, own, g, n, own2) ==
  /\ n \in 1 .. g.max /\ f.max <= g.max /\ 1 .. g.max = 1 .. f.max \cup {n}
  /\ g.page[n] = Empty /\ own2[n] = SharedPage
  /\ g.part = f.part /\ f.part[1] # n
  /\ \A k \in 1 .. f.max : k # n => g.page[k] = f.page[k] /\ own2[k] = own[k]
  /\ n \in 1 .. f.max => IsFree(own[n])

(* The page without anything has room for a text at its beginning.         *)
LEMMA EmptyPage ==
  /\ IsPage(Empty) /\ DOMAIN Empty.word = {} /\ DOMAIN Empty.data = {} /\ Empty.next = 0
  /\ FragmentsOK(Empty) /\ Between(Empty.word, 0)
BY DEF Empty, IsPage, FragmentsOK, Tiled, Between

(* What NewPage does to the file: the page is new or the first one of the  *)
(* free list, the others are what they were.                               *)
LEMMA NewPageShape ==
  ASSUME NEW f, NEW own, NEW nf, NEW hold, NEW w, FileOK(f, own, nf, hold, w)
  PROVE  LET n == NewPage(f).n
             g == NewPage(f).f
         IN  /\ IsFile(g) /\ n \in 1 .. g.max /\ f.max <= g.max /\ 1 .. g.max = 1 .. f.max \cup {n}
             /\ g.page = [k \in 1 .. g.max |-> IF k = n THEN Empty ELSE f.page[k]]
             /\ g.part = f.part
             /\ IF f.free = 0 THEN n = f.max + 1 /\ g.free = 0
                ELSE n = f.free /\ n \in 1 .. f.max /\ g.max = f.max /\ g.free = f.page[n].next
<1>. DEFINE n == NewPage(f).n
            g == NewPage(f).f
<1>1. /\ f = [page |-> f.page, free |-> f.free, max |-> f.max, part |-> f.part]
      /\ f.max \in Nat \ {0} /\ DOMAIN f.page = 1 .. f.max
      /\ f.page = [k \in 1 .. f.max |-> f.page[k]]
  BY DEF FileOK, IsFile
<1>2. CASE f.free = 0
  <2>1. n = f.max + 1 /\ g = [f EXCEPT !.page = With(@, f.max + 1, Empty), !.max = @ + 1]
    BY <1>2 DEF NewPage
  <2>2. g = [page |-> With(f.page, f.max + 1, Empty), free |-> f.free, max |-> f.max + 1, part |-> f.part]
    BY <1>1, <2>1
  <2>3. 1 .. f.max + 1 = 1 .. f.max \cup {f.max + 1}
    BY <1>1
  <2>4. With(f.page, f.max + 1, Empty)
          = [k \in 1 .. f.max + 1 |-> IF k = f.max + 1 THEN Empty ELSE f.page[k]]
    BY <1>1, <2>3 DEF With
  <2>5. /\ g.page = [k \in 1 .. f.max + 1 |-> IF k = f.max + 1 THEN Empty ELSE f.page[k]]
        /\ g.free = f.free /\ g.max = f.max + 1 /\ g.part = f.part
    BY <2>2, <2>4
  <2>6. IsFile(g)
    <3>1. g = [page |-> g.page, free |-> g.free, max |-> g.max, part |-> g.part]
      BY <2>2, <2>4, <2>5
    <3>2. DOMAIN g.page = 1 .. g.max /\ g.page = [k \in 1 .. g.max |-> g.page[k]]
      BY <2>5
    <3>3. g.max \in Nat \ {0}
      BY <1>1, <2>5
    <3>. QED  BY <3>1, <3>2, <3>3 DEF IsFile
  <2>7. n \in 1 .. g.max /\ f.max <= g.max /\ 1 .. g.max = 1 .. f.max \cup {n}
    BY <1>1, <2>1, <2>3, <2>5
  <2>. QED  BY <1>2, <2>1, <2>5, <2>6, <2>7
<1>3. CASE f.free # 0
  <2>0. f.free \in 1 .. f.max
    BY <1>3 DEF FileOK, FreeRootOK
  <2>1. n = f.free /\ g = [f EXCEPT !.page[f.free] = Empty, !.free = f.page[f.free].next]
    BY <1>3 DEF NewPage
  <2>2. g = [page |-> [f.page EXCEPT ![f.free] = Empty], free |-> f.page[f.free].next,
             max |-> f.max, part |-> f.part]
    BY <1>1, <2>1
  <2>3. [f.page EXCEPT ![f.free] = Empty] = [k \in 1 .. f.max |-> IF k = f.free THEN Empty ELSE f.page[k]]
    BY <1>1, <2>0
  <2>4. /\ g.page = [k \in 1 .. f.max |-> IF k = f.free THEN Empty ELSE f.page[k]]
        /\ g.free = f.page[f.free].next /\ g.max = f.max /\ g.part = f.part
    BY <2>2, <2>3
  <2>5. IsFile(g)
    BY <1>1, <2>2, <2>4 DEF IsFile
  <2>7. n \in 1 .. g.max /\ f.max <= g.max /\ 1 .. g.max = 1 .. f.max \cup {n}
    BY <1>1, <2>0, <2>1, <2>4
  <2>. QED  BY <1>3, <2>0, <2>1, <2>4, <2>5, <2>7
<1>. QED  BY <1>2, <1>3

(* A page of a long text depends on who owns pages that are not free only. *)
LEMMA LongFrame ==
  ASSUME NEW f, NEW own, NEW nf, NEW hold, NEW w, FileOK(f, own, nf, hold, w),
         NEW g, NEW own2, f.max \in Nat, g.max \in Nat, f.max <= g.max,
         \A k \in 1 .. f.max : SlotOK(own[k]) => g.page[k] = f.page[k] /\ own2[k] = own[k],
         NEW n \in 1 .. f.max, LongOK(f, own, hold, w, n)
  PROVE  LongOK(g, own2, hold, w, n)
<1>1. SlotOK(own[n]) /\ g.page[n] = f.page[n] /\ own2[n] = own[n]
  BY DEF LongOK
<1>2. HeadOK(g, own2, n)
  BY <1>1 DEF LongOK, HeadOK
<1>3. ASSUME PieceOK(f, own, n) PROVE PieceOK(g, own2, n)
  <2>1. ASSUME HasNext(own[n])
        PROVE  g.page[n].next \in 1 .. g.max /\ own2[g.page[n].next] = Following(own[n])
    <3>1. f.page[n].next \in 1 .. f.max /\ own[f.page[n].next] = Following(own[n])
      BY <1>3, <2>1 DEF PieceOK
    <3>2. SlotOK(own[f.page[n].next])
      BY <1>1, <2>1, <3>1, FollowingOK
    <3>. QED  BY <1>1, <3>1, <3>2
  <2>. QED  BY <1>1, <1>3, <2>1 DEF PieceOK
<1>4. TextOK(own2, hold, w, n)
  BY <1>1 DEF LongOK, TextOK
<1>5. PredOK(g, own2, w, n)
  <2>1. ASSUME n # Root(w, own[n].of)
        PROVE  \E m \in 1 .. g.max : SlotOK(own2[m]) /\ HasNext(own2[m]) /\ Following(own2[m]) = own2[n]
    <3>1. PICK m \in 1 .. f.max : SlotOK(own[m]) /\ HasNext(own[m]) /\ Following(own[m]) = own[n]
      BY <2>1 DEF LongOK, PredOK
    <3>2. own2[m] = own[m] /\ m \in 1 .. g.max
      BY <3>1
    <3>. QED  BY <1>1, <3>1, <3>2
  <2>. QED  BY <1>1, <2>1 DEF PredOK
<1>6. w.do = "write" => own2[w.n] = own[w.n]
  <2>1. w.do = "write" => w.n \in 1 .. f.max /\ SlotOK(own[w.n])
    BY DEF FileOK, WorkOK, NoWork, Work
  <2>. QED  BY <2>1
<1>. QED  BY <1>1, <1>2, <1>3, <1>4, <1>5, <1>6 DEF LongOK

(* NewPage gives a fresh page and leaves a file with the same texts        *)
(* (FandTFile::NewPage).                                                   *)
LEMMA NewPageOK ==
  ASSUME NEW f, NEW own, NEW nf, NEW hold, NEW w, FileOK(f, own, nf, hold, w)
  PROVE  \E own2, nf2 :
           /\ FileOK(NewPage(f).f, own2, nf2, hold, w)
           /\ Fresh(f, own, NewPage(f).f, NewPage(f).n, own2)
<1>. DEFINE n == NewPage(f).n
            g == NewPage(f).f
            nfx == IF f.free = 0 THEN nf ELSE nf - 1
<1>1. PICK own2 : own2 = [k \in 1 .. g.max |-> IF k = n THEN SharedPage ELSE own[k]]
  OBVIOUS
<1>2. PICK nf2 : nf2 = nfx
  OBVIOUS
<1>3. /\ IsFile(g) /\ n \in 1 .. g.max /\ f.max <= g.max /\ 1 .. g.max = 1 .. f.max \cup {n}
      /\ g.page = [k \in 1 .. g.max |-> IF k = n THEN Empty ELSE f.page[k]]
      /\ g.part = f.part
      /\ IF f.free = 0 THEN n = f.max + 1 /\ g.free = 0
         ELSE n = f.free /\ n \in 1 .. f.max /\ g.max = f.max /\ g.free = f.page[n].next
  BY NewPageShape
<1>. HIDE DEF n, g
<1>4. f.max \in Nat \ {0} /\ g.max \in Nat \ {0} /\ DOMAIN own = 1 .. f.max
  BY <1>3 DEF FileOK, IsFile
<1>5. nf \in Nat /\ (f.free = 0 => nf = 0)
  <2>1. nf \in Nat /\ (nf > 0 => f.free \in 1 .. f.max)
    BY DEF FileOK, FreeRootOK
  <2>. QED  BY <2>1, <1>4
<1>6. f.free # 0 => /\ nf > 0 /\ nf2 = nf - 1 /\ n \in 1 .. f.max /\ own[n] = FreeSlot(nf)
                    /\ FreeOK(f, own, nf, n) /\ g.free = f.page[n].next
  <2>1. f.free # 0 => nf > 0 /\ own[f.free] = FreeSlot(nf)
    BY <1>5 DEF FileOK, FreeRootOK
  <2>2. f.free # 0 => IsFree(own[n])
    BY <2>1, <1>3, <1>5, Kinds
  <2>3. f.free # 0 => FreeOK(f, own, nf, n)
    BY <2>2, <1>3, Kinds DEF FileOK, PageOK, SharedOK, LongOK
  <2>. QED  BY <2>1, <2>3, <1>2, <1>3
<1>7. f.free = 0 => nf = 0 /\ nf2 = 0 /\ n \notin 1 .. f.max /\ g.free = 0
  BY <1>2, <1>3, <1>4, <1>5
<1>8. n \in 1 .. f.max => f.free # 0 /\ IsFree(own[n])
  BY <1>6, <1>7, <1>5, Kinds
<1>9. \A k \in 1 .. f.max : k # n => g.page[k] = f.page[k] /\ own2[k] = own[k]
  BY <1>1, <1>3, <1>4
<1>10. g.page[n] = Empty /\ own2[n] = SharedPage /\ DOMAIN own2 = 1 .. g.max
  BY <1>1, <1>3
<1>11. f.part[1] # n
  <2>1. f.part[1] \in 1 .. f.max /\ own[f.part[1]] = SharedPage
    BY DEF FileOK, PartOK
  <2>. QED  BY <2>1, <1>8, Kinds
<1>12. Fresh(f, own, g, n, own2)
  BY <1>3, <1>8, <1>9, <1>10, <1>11 DEF Fresh
<1>13. ASSUME NEW k \in 1 .. g.max PROVE PageOK(g, own2, nf2, hold, w, k)
  <2>1. CASE k = n
    <3>1. SharedOK(g, own2, hold, k)
      BY <2>1, <1>10, EmptyPage DEF SharedOK
    <3>. QED  BY <3>1, <2>1, <1>10, EmptyPage DEF PageOK
  <2>2. CASE k # n
    <3>0. k \in 1 .. f.max /\ g.page[k] = f.page[k] /\ own2[k] = own[k]
      BY <2>2, <1>3, <1>9
    <3>1. PageOK(f, own, nf, hold, w, k)
      BY <3>0 DEF FileOK
    <3>2. CASE SharedOK(f, own, hold, k)
      BY <3>0, <3>1, <3>2 DEF PageOK, SharedOK
    <3>3. CASE FreeOK(f, own, nf, k)
      <4>1. own[k].i \in Nat \ {0} /\ own[k] = FreeSlot(own[k].i) /\ own[k].i <= nf
        BY <3>3 DEF FreeOK, IsFree
      <4>2. f.free # 0
        BY <4>1, <1>7
      <4>3. own[k] # own[n]
        BY <4>2, <3>0, <2>2, <1>4, <1>6, Kinds DEF FileOK, Distinct, FreeOK
      <4>4. own[k].i <= nf2
        BY <4>1, <4>2, <4>3, <1>5, <1>6
      <4>5. ASSUME own[k].i > 1
            PROVE  g.page[k].next \in 1 .. g.max /\ own2[g.page[k].next] = FreeSlot(own[k].i - 1)
        <5>1. f.page[k].next \in 1 .. f.max /\ own[f.page[k].next] = FreeSlot(own[k].i - 1)
          BY <4>5, <3>3 DEF FreeOK
        <5>2. own[k].i - 1 # nf
          BY <4>1, <1>5
        <5>3. f.page[k].next # n
          BY <5>1, <5>2, <4>2, <1>6, Kinds
        <5>. QED  BY <5>1, <5>3, <3>0, <1>9, <1>3
      <4>6. FreeOK(g, own2, nf2, k)
        BY <4>4, <4>5, <3>0, <3>3 DEF FreeOK
      <4>. QED  BY <4>6, <3>0, <3>1 DEF PageOK
    <3>4. CASE LongOK(f, own, hold, w, k)
      <4>1. \A m \in 1 .. f.max : SlotOK(own[m]) => g.page[m] = f.page[m] /\ own2[m] = own[m]
        BY <1>8, <1>9, Kinds
      <4>2. LongOK(g, own2, hold, w, k)
        BY <4>1, <3>0, <3>4, <1>3, <1>4, LongFrame
      <4>. QED  BY <4>2, <3>0, <3>1 DEF PageOK
    <3>. QED  BY <3>1, <3>2, <3>3, <3>4 DEF PageOK
  <2>. QED  BY <2>1, <2>2
<1>14. Distinct(own2)
  <2>1. ASSUME NEW k \in 1 .. g.max, NEW m \in 1 .. g.max, own2[k] = own2[m], own2[k] # SharedPage
        PROVE  k = m
    <3>1. k # n /\ m # n
      BY <2>1, <1>10
    <3>2. k \in 1 .. f.max /\ m \in 1 .. f.max /\ own[k] = own[m] /\ own[k] # SharedPage
      BY <2>1, <3>1, <1>3, <1>9
    <3>. QED  BY <3>2, <1>4 DEF FileOK, Distinct
  <2>. QED  BY <2>1, <1>10 DEF Distinct
<1>15. FreeRootOK(g, own2, nf2)
  <2>1. CASE f.free = 0
    BY <2>1, <1>7 DEF FreeRootOK
  <2>2. CASE f.free # 0
    <3>1. nf2 \in Nat /\ nf2 = nf - 1
      BY <2>2, <1>5, <1>6
    <3>2. own[n].i = nf /\ IsFree(own[n])
      BY <2>2, <1>5, <1>6, Kinds
    <3>3. CASE nf = 1
      BY <2>2, <3>1, <3>2, <3>3, <1>6 DEF FreeRootOK, FreeOK
    <3>4. CASE nf # 1
      <4>1. f.page[n].next \in 1 .. f.max /\ own[f.page[n].next] = FreeSlot(nf - 1)
        BY <2>2, <3>2, <3>4, <1>5, <1>6 DEF FreeOK
      <4>2. f.page[n].next # n
        BY <4>1, <3>2, <1>5, <1>6, <2>2, Kinds
      <4>3. g.free = f.page[n].next
        BY <1>6, <2>2
      <4>4. g.free \in 1 .. f.max /\ g.free \in Nat /\ g.free # 0 /\ g.free # n
        BY ONLY <4>1, <4>2, <4>3, <1>4
      <4>5. own2[g.free] = own[g.free]
        BY <4>4, <1>9
      <4>6. own2[g.free] = FreeSlot(nf2)
        BY ONLY <4>1, <4>3, <4>5, <3>1
      <4>7. g.free \in 1 .. g.max
        BY <4>4, <1>3, <1>4
      <4>. QED  BY <4>4, <4>6, <4>7, <3>1, <3>4, <1>5 DEF FreeRootOK
    <3>. QED  BY <3>3, <3>4
  <2>. QED  BY <2>1, <2>2
<1>16. ASSUME NEW pos \in DOMAIN hold PROVE HoldOK(g, own2, hold, pos)
  <2>1. HoldOK(f, own, hold, pos)
    BY DEF FileOK
  <2>2. own[pos[1]] = SharedPage \/ SlotOK(own[pos[1]])
    <3>1. hold[pos].len \in Nat /\ pos[1] \in Nat \ {0}
      BY <2>1, <1>4, Sizes DEF HoldOK
    <3>2. CASE hold[pos].len <= MPageSize - 2
      BY <2>1, <3>2 DEF HoldOK, ShortOK
    <3>3. CASE hold[pos].len > MPageSize - 2
      <4>1. hold[pos] \in Texts /\ hold[pos].len >= MPageSize - 2 /\ own[pos[1]] = First(pos[1], hold[pos])
        BY <2>1, <3>1, <3>3, Sizes DEF HoldOK
      <4>. QED  BY <3>1, <4>1, FirstOK
    <3>. QED  BY <3>1, <3>2, <3>3, Sizes
  <2>3. pos[1] \in 1 .. f.max /\ pos[1] # n
    BY <2>1, <2>2, <1>8, Kinds DEF HoldOK
  <2>4. own2[pos[1]] = own[pos[1]] /\ g.page[pos[1]] = f.page[pos[1]] /\ pos[1] \in 1 .. g.max
    BY <2>3, <1>3, <1>9
  <2>. QED  BY <2>1, <2>4 DEF HoldOK, ShortOK
<1>17. PartOK(g, own2, g.part)
  <2>1. PartOK(f, own, f.part)
    BY DEF FileOK
  <2>2. own2[f.part[1]] = own[f.part[1]] /\ g.page[f.part[1]] = f.page[f.part[1]] /\ f.part[1] \in 1 .. g.max
    BY <2>1, <1>3, <1>9, <1>11 DEF PartOK
  <2>. QED  BY <2>1, <2>2, <1>3 DEF PartOK
<1>18. WorkOK(g, own2, hold, w)
  <2>1. WorkOK(f, own, hold, w)
    BY DEF FileOK
  <2>2. CASE w = NoWork
    BY <2>2 DEF WorkOK
  <2>3. CASE w # NoWork
    <3>1. w.n \in 1 .. f.max /\ SlotOK(own[w.n])
      BY <2>1, <2>3 DEF WorkOK
    <3>2. own2[w.n] = own[w.n] /\ w.n \in 1 .. g.max
      BY <3>1, <1>3, <1>8, <1>9, Kinds
    <3>3. ASSUME w.do = "write" PROVE w.of \in 1 .. g.max /\ own2[w.of] = First(w.of, w.t)
      <4>1. w.of \in 1 .. f.max /\ own[w.of] = First(w.of, w.t)
        BY <2>1, <2>3, <3>3 DEF WorkOK
      <4>2. ~ IsFree(own[w.of])
        BY <4>1 DEF First, Slot, IsFree
      <4>. QED  BY <4>1, <4>2, <1>3, <1>8, <1>9
    <3>. QED  BY <2>1, <2>3, <3>2, <3>3 DEF WorkOK
  <2>. QED  BY <2>2, <2>3
<1>19. FileOK(g, own2, nf2, hold, w)
  BY <1>3, <1>10, <1>13, <1>14, <1>15, <1>16, <1>17, <1>18 DEF FileOK
<1>. QED  BY <1>12, <1>19 DEF n, g

(* Nothing is on a page that has just been got.                            *)
LEMMA FreshUnused ==
  ASSUME NEW f, NEW own, NEW nf, NEW hold, NEW w, FileOK(f, own, nf, hold, w), w.do # "release",
         NEW g, NEW n, NEW own2, Fresh(f, own, g, n, own2)
  PROVE  /\ \A pos \in DOMAIN hold : pos[1] # n
         /\ \A m \in 1 .. g.max : SlotOK(own2[m]) => own2[m].of # n
<1>0. f.max \in Nat \ {0} /\ g.max >= f.max /\ 1 .. g.max = 1 .. f.max \cup {n}
  BY DEF FileOK, IsFile, Fresh
<1>1. \A k \in 1 .. f.max : own[k].kind # "free" => k # n
  BY DEF Fresh, IsFree
<1>2. ASSUME NEW pos \in DOMAIN hold PROVE pos[1] # n
  <2>1. HoldOK(f, own, hold, pos)
    BY DEF FileOK
  <2>2. own[pos[1]].kind # "free"
    BY <2>1, Sizes DEF HoldOK, ShortOK, First, Slot, SharedPage
  <2>. QED  BY <1>1, <2>1, <2>2 DEF HoldOK
<1>3. ASSUME NEW m \in 1 .. g.max, SlotOK(own2[m]) PROVE own2[m].of # n
  <2>1. m # n
    BY <1>3, Kinds DEF Fresh
  <2>2. m \in 1 .. f.max /\ own2[m] = own[m]
    BY <1>0, <2>1 DEF Fresh
  <2>3. LongOK(f, own, hold, w, m)
    BY <1>3, <2>2, Kinds DEF FileOK, PageOK, SharedOK, FreeOK
  <2>4. TextOK(own, hold, w, m)
    BY <2>3 DEF LongOK
  <2>5. CASE own[m].of = w.of
    <3>1. own[m].of \in Nat \ {0}
      BY <1>3, <2>2 DEF SlotOK
    <3>2. w # NoWork
      BY <2>5, <3>1 DEF NoWork, Work
    <3>3. w.of \in 1 .. f.max /\ own[w.of] = First(w.of, w.t)
      BY <3>2 DEF FileOK, WorkOK
    <3>. QED  BY <1>1, <2>2, <2>5, <3>3 DEF First, Slot
  <2>6. CASE own[m].of # w.of
    <3>1. <<own[m].of, 0>> \in DOMAIN hold
      BY <2>4, <2>6 DEF TextOK
    <3>. QED  BY <1>2, <2>2, <3>1
  <2>. QED  BY <2>5, <2>6
<1>. QED  BY <1>2, <1>3

(* A text put where there is room leaves the page tiled.                   *)
LEMMA WithTextOK ==
  ASSUME NEW p, IsPage(p), FragmentsOK(p), NEW o \in Nat, Between(p.word, o), Behind(p, o),
         NEW t \in Texts, t.len > 0, o + t.len + 2 <= MPageSize
  PROVE  LET q == WithText(p, o, t)
         IN  /\ IsPage(q) /\ FragmentsOK(q)
             /\ o \in DOMAIN q.word /\ q.word[o] = t.len
             /\ o + 2 \in DOMAIN q.data /\ q.data[o + 2] = Piece(t, 0, t.len)
             /\ \A k \in DOMAIN q.word : q.word[k] > 0 => k = o \/ (k < o /\ k \in DOMAIN p.word /\ p.word[k] > 0)
             /\ \A k \in DOMAIN p.word : k < o => k \in DOMAIN q.word /\ q.word[k] = p.word[k]
             /\ \A k \in DOMAIN p.data : k # o + 2 => k \in DOMAIN q.data /\ q.data[k] = p.data[k]
             /\ o + t.len + 4 < MPageSize => o + t.len + 2 \in DOMAIN q.word
             /\ \A k \in DOMAIN q.word : k >= o + t.len + 2 => q.word[k] <= 0
<1>. DEFINE q == WithText(p, o, t)
            w == p.word
            end == o + t.len + 2
            rest == IF end + 2 < MPageSize THEN {end} ELSE {}
            v == [k \in {k \in DOMAIN w : k < o} \cup {o} \cup rest |->
                    IF k < o THEN w[k] ELSE IF k = o THEN t.len ELSE end + 2 - MPageSize]
            d == With(p.data, o + 2, Piece(t, 0, t.len))
<1>0. t.len \in Nat /\ end \in Nat /\ end > o + 2 /\ end <= MPageSize /\ MPageSize \in Nat /\ MPageSize > 10
  BY Sizes
<1>1. DOMAIN w \subseteq 0 .. MPageSize - 3 /\ \A k \in DOMAIN w : w[k] \in Int
  BY DEF FragmentsOK, IsPage
<1>2. q = [word |-> v, data |-> d, next |-> p.next]
  <2>1. p = [word |-> p.word, data |-> p.data, next |-> p.next]
    BY DEF IsPage
  <2>2. q = [p EXCEPT !.word = v, !.data = d]
    BY DEF WithText
  <2>. HIDE DEF q, v, d
  <2>. QED  BY <2>1, <2>2
<1>3. q.word = v /\ q.data = d /\ q.next = p.next
  BY <1>2
<1>. HIDE DEF q
<1>4. DOMAIN v = {k \in DOMAIN w : k < o} \cup {o} \cup rest
  OBVIOUS
<1>5. \A k \in DOMAIN v : \/ k < o /\ k \in DOMAIN w /\ v[k] = w[k]
                          \/ k = o /\ v[k] = t.len
                          \/ k = end /\ end + 2 < MPageSize /\ v[k] = end + 2 - MPageSize
  BY <1>0, <1>1
<1>6. /\ o \in DOMAIN v /\ v[o] = t.len
      /\ end + 2 < MPageSize => end \in DOMAIN v /\ v[end] = end + 2 - MPageSize
      /\ \A k \in DOMAIN w : k < o => k \in DOMAIN v /\ v[k] = w[k]
  BY <1>0, <1>1
<1>. HIDE DEF v
<1>7. DOMAIN v \subseteq 0 .. MPageSize - 3 /\ \A k \in DOMAIN v : v[k] \in Int
  BY <1>0, <1>1, <1>5
<1>8. o # 0 => o \in DOMAIN w
  BY <1>0 DEF Between
<1>9. Tiled(w)
  BY DEF FragmentsOK
<1>10. ASSUME NEW k \in DOMAIN w, k < o
       PROVE  End(w, k) \in DOMAIN v /\ End(w, k) <= o
  <2>1. End(w, k) \in DOMAIN w \cup (MPageSize - 2 .. MPageSize) /\ (o <= k \/ o >= End(w, k))
    BY <1>1, <1>8, <1>9, <1>10 DEF Tiled
  <2>2. End(w, k) \in Int
    BY <1>1 DEF End
  <2>. QED  BY <2>1, <2>2, <1>0, <1>1, <1>6, <1>10
<1>11. Tiled(v)
  <2>1. 0 \in DOMAIN v
    BY <1>0, <1>1, <1>6, <1>8, <1>9 DEF Tiled
  <2>2. ASSUME NEW k \in DOMAIN v
        PROVE  /\ End(v, k) \in DOMAIN v \cup (MPageSize - 2 .. MPageSize)
               /\ \A j \in DOMAIN v : j <= k \/ j >= End(v, k)
    <3>1. CASE k < o
      <4>1. k \in DOMAIN w /\ v[k] = w[k]
        BY <1>5, <1>0, <3>1
      <4>2. End(v, k) = End(w, k)
        BY <4>1 DEF End
      <4>3. End(w, k) \in Int
        BY <4>1, <1>1 DEF End
      <4>4. \A j \in DOMAIN w : j <= k \/ j >= End(w, k)
        BY <4>1, <1>9 DEF Tiled
      <4>5. \A j \in DOMAIN v : j \in DOMAIN w \/ j >= o
        BY <1>5, <1>0
      <4>6. End(w, k) \in DOMAIN v /\ End(w, k) <= o
        BY <4>1, <3>1, <1>10
      <4>. QED  BY <4>2, <4>3, <4>4, <4>5, <4>6, <1>7
    <3>2. CASE k = o
      <4>1. End(v, k) = end
        BY <3>2, <1>0, <1>6 DEF End
      <4>. QED  BY <4>1, <3>2, <1>0, <1>5, <1>6, <1>7
    <3>3. CASE k > o
      <4>1. k = end /\ end + 2 < MPageSize /\ v[k] = end + 2 - MPageSize
        BY <3>3, <1>0, <1>5, <1>7
      <4>2. End(v, k) = MPageSize
        BY <4>1, <1>0 DEF End
      <4>3. \A j \in DOMAIN v : j <= k
        <5>. TAKE j \in DOMAIN v
        <5>1. j \in Int /\ (j < o \/ j = o \/ j = end)
          BY <1>5, <1>7
        <5>. QED  BY <4>1, <5>1, <1>0
      <4>. QED  BY <4>2, <4>3, <1>0
    <3>. QED  BY <3>1, <3>2, <3>3, <1>7
  <2>. QED  BY <2>1, <2>2 DEF Tiled
<1>12. ASSUME NEW k \in DOMAIN d PROVE k \in Int /\ k - 2 \in DOMAIN v /\ v[k - 2] > 0
  <2>1. k = o + 2 \/ k \in DOMAIN p.data
    BY DEF With
  <2>2. CASE k = o + 2
    BY <2>2, <1>0, <1>6
  <2>3. CASE k \in DOMAIN p.data
    <3>1. k \in Int /\ k - 2 \in DOMAIN w /\ w[k - 2] > 0
      BY <2>3 DEF FragmentsOK
    <3>2. k - 2 < o
      BY <3>1, <1>1 DEF Behind
    <3>. QED  BY <3>1, <3>2, <1>6
  <2>. QED  BY <2>1, <2>2, <2>3
<1>13. IsPage(q) /\ FragmentsOK(q)
  <2>1. p.next \in Nat
    BY DEF IsPage
  <2>2. IsPage(q)
    BY <1>2, <1>3, <1>7, <2>1 DEF IsPage
  <2>. QED  BY <1>3, <1>7, <1>11, <1>12, <2>2 DEF FragmentsOK
<1>14. o + 2 \in DOMAIN d /\ d[o + 2] = Piece(t, 0, t.len) /\ \A k \in DOMAIN p.data : k # o + 2 => k \in DOMAIN d /\ d[k] = p.data[k]
  BY DEF With
<1>15. \A k \in DOMAIN v : v[k] > 0 => k = o \/ (k < o /\ k \in DOMAIN w /\ w[k] > 0)
  <2>. TAKE k \in DOMAIN v
  <2>1. CASE k < o /\ k \in DOMAIN w /\ v[k] = w[k]
    BY <2>1
  <2>2. CASE k = end /\ end + 2 < MPageSize /\ v[k] = end + 2 - MPageSize
    BY <2>2, <1>0
  <2>. QED  BY <1>5, <2>1, <2>2
<1>16. \A k \in DOMAIN v : k >= end => v[k] <= 0
  BY <1>0, <1>5, <1>7
<1>. QED  BY <1>0, <1>3, <1>6, <1>13, <1>14, <1>15, <1>16 DEF q

(* A page of short texts is changed, and with it FreePart: nothing but     *)
(* that page matters.                                                      *)
LEMMA SharedChange ==
  ASSUME NEW f, NEW own, NEW nf, NEW hold, NEW w, FileOK(f, own, nf, hold, w),
         w.do # "release", NEW n \in 1 .. f.max, own[n] = SharedPage,
         NEW p, IsPage(p), FragmentsOK(p), NEW g, NEW part, NEW hold2,
         g = [page |-> [f.page EXCEPT ![n] = p], free |-> f.free, max |-> f.max, part |-> part],
         \A o \in DOMAIN p.word : p.word[o] > 0 => <<n, o>> \in DOMAIN hold2,
         \A pos \in DOMAIN hold : pos[1] # n => pos \in DOMAIN hold2 /\ hold2[pos] = hold[pos],
         \A pos \in DOMAIN hold2 : pos[1] # n => pos \in DOMAIN hold /\ hold2[pos] = hold[pos],
         \A pos \in DOMAIN hold2 : pos[1] = n => HoldOK(g, own, hold2, pos),
         PartOK(g, own, part)
  PROVE  FileOK(g, own, nf, hold2, w)
<1>1. /\ f.max \in Nat \ {0} /\ DOMAIN f.page = 1 .. f.max /\ DOMAIN own = 1 .. f.max
      /\ g.max = f.max /\ g.free = f.free /\ g.part = part
      /\ g.page = [k \in 1 .. f.max |-> IF k = n THEN p ELSE f.page[k]]
  BY DEF FileOK, IsFile
<1>2. g.page[n] = p /\ \A k \in 1 .. f.max : k # n => g.page[k] = f.page[k]
  BY <1>1
<1>3. IsFile(g)
  <2>1. g = [page |-> g.page, free |-> g.free, max |-> g.max, part |-> g.part]
    BY <1>1
  <2>2. DOMAIN g.page = 1 .. g.max /\ g.page = [k \in 1 .. g.max |-> g.page[k]]
    BY <1>1
  <2>. QED  BY <2>1, <2>2, <1>1 DEF IsFile
<1>4. ASSUME NEW k \in 1 .. f.max PROVE PageOK(g, own, nf, hold2, w, k)
  <2>0. PageOK(f, own, nf, hold, w, k)
    BY DEF FileOK
  <2>1. CASE k = n
    <3>1. SharedOK(g, own, hold2, k)
      BY <2>1, <1>2 DEF SharedOK
    <3>. QED  BY <3>1, <2>1, <1>2 DEF PageOK
  <2>2. CASE k # n /\ SharedOK(f, own, hold, k)
    <3>1. ASSUME NEW o \in DOMAIN f.page[k].word, f.page[k].word[o] > 0 PROVE <<k, o>> \in DOMAIN hold2
      <4>1. <<k, o>> \in DOMAIN hold /\ <<k, o>>[1] = k
        BY <2>2, <3>1 DEF SharedOK
      <4>. QED  BY <4>1, <2>2
    <3>2. SharedOK(g, own, hold2, k)
      BY <2>2, <3>1, <1>2 DEF SharedOK
    <3>. QED  BY <2>0, <2>2, <3>2, <1>2 DEF PageOK
  <2>3. CASE FreeOK(f, own, nf, k)
    <3>1. k # n
      BY <2>3, Kinds DEF FreeOK
    <3>2. FreeOK(g, own, nf, k)
      BY <2>3, <3>1, <1>1, <1>2 DEF FreeOK
    <3>. QED  BY <2>0, <3>1, <3>2, <1>2 DEF PageOK
  <2>4. CASE LongOK(f, own, hold, w, k)
    <3>0. SlotOK(own[k]) /\ k # n
      BY <2>4, Kinds DEF LongOK
    <3>1. \A m \in 1 .. f.max : SlotOK(own[m]) => g.page[m] = f.page[m] /\ own[m] = own[m]
      BY <1>2, Kinds
    <3>2. LongOK(g, own, hold, w, k)
      <4>1. f.max \in Nat /\ g.max \in Nat /\ f.max <= g.max
        BY <1>1
      <4>2. k \in 1 .. f.max
        OBVIOUS
      <4>. QED  BY ONLY FileOK(f, own, nf, hold, w), <2>4, <3>1, <4>1, <4>2, LongFrame
    <3>3. TextOK(own, hold2, w, k)
      <4>1. CASE own[k].of = w.of
        BY <4>1, <2>4 DEF LongOK, TextOK
      <4>2. CASE own[k].of # w.of
        <5>1. /\ <<own[k].of, 0>> \in DOMAIN hold /\ hold[<<own[k].of, 0>>] = own[k].t
              /\ own[k].t.len > MPageSize - 2 /\ <<own[k].of, 0>>[1] = own[k].of
          BY <4>2, <2>4 DEF LongOK, TextOK
        <5>2. HoldOK(f, own, hold, <<own[k].of, 0>>)
          BY <5>1 DEF FileOK
        <5>3. own[own[k].of] = First(own[k].of, own[k].t)
          BY <5>1, <5>2 DEF HoldOK
        <5>4. own[k].of # n
          BY <5>3 DEF First, Slot, SharedPage
        <5>. QED  BY <4>2, <5>1, <5>4 DEF TextOK
      <4>. QED  BY <4>1, <4>2
    <3>4. LongOK(g, own, hold2, w, k)
      BY <3>2, <3>3 DEF LongOK
    <3>. QED  BY <2>0, <3>0, <3>4, <1>2 DEF PageOK
  <2>. QED  BY <2>0, <2>1, <2>2, <2>3, <2>4 DEF PageOK
<1>5. ASSUME NEW pos \in DOMAIN hold2 PROVE HoldOK(g, own, hold2, pos)
  <2>1. CASE pos[1] # n
    <3>1. pos \in DOMAIN hold /\ hold2[pos] = hold[pos] /\ HoldOK(f, own, hold, pos)
      BY <2>1 DEF FileOK
    <3>2. pos[1] \in 1 .. f.max /\ g.page[pos[1]] = f.page[pos[1]]
      BY <2>1, <3>1, <1>2 DEF HoldOK
    <3>. QED  BY <3>1, <3>2, <1>1 DEF HoldOK, ShortOK
  <2>. QED  BY <2>1
<1>6. WorkOK(g, own, hold2, w)
  <2>0. WorkOK(f, own, hold, w)
    BY DEF FileOK
  <2>1. ASSUME w # NoWork, <<w.of, 0>> \in DOMAIN hold2 PROVE FALSE
    <3>1. <<w.of, 0>> \notin DOMAIN hold /\ <<w.of, 0>>[1] = w.of
      BY <2>0, <2>1 DEF WorkOK
    <3>2. w.of = n
      BY <2>1, <3>1
    <3>3. HoldOK(g, own, hold2, <<w.of, 0>>)
      BY <1>5, <2>1
    <3>4. w.do # "write"
      BY <2>0, <2>1, <3>2 DEF WorkOK, First, Slot, SharedPage
    <3>. QED  BY <2>0, <2>1, <3>4 DEF WorkOK
  <2>. QED  BY <2>0, <2>1, <1>1 DEF WorkOK
<1>7. FreeRootOK(g, own, nf)
  BY <1>1 DEF FileOK, FreeRootOK
<1>. QED  BY <1>1, <1>3, <1>4, <1>5, <1>6, <1>7 DEF FileOK

(* A short text is put on a page with short texts; FreePart is the place   *)
(* behind it or one on another page.                                       *)
LEMMA PutTextOK ==
  ASSUME NEW f, NEW own, NEW nf, NEW hold, NEW w, FileOK(f, own, nf, hold, w), w.do # "release",
         NEW n \in 1 .. f.max, own[n] = SharedPage,
         NEW o \in Nat, Between(f.page[n].word, o), Behind(f.page[n], o),
         NEW t \in Texts, t.len > 0, o + t.len + 2 <= MPageSize,
         NEW g, NEW part,
         g = [page |-> [f.page EXCEPT ![n] = WithText(@, o, t)], free |-> f.free,
              max |-> f.max, part |-> part],
         \/ part = <<n, o + t.len + 2>> /\ o + t.len + 4 < MPageSize
         \/ PartOK(f, own, part) /\ part[1] # n
  PROVE  FileOK(g, own, nf, With(hold, <<n, o>>, t), w) /\ <<n, o>> \notin DOMAIN hold
<1>. DEFINE p == WithText(f.page[n], o, t)
            h == With(hold, <<n, o>>, t)
<1>0. f.max \in Nat \ {0} /\ DOMAIN f.page = 1 .. f.max
  BY DEF FileOK, IsFile
<1>1. /\ IsPage(f.page[n]) /\ FragmentsOK(f.page[n])
      /\ \A k \in DOMAIN f.page[n].word : f.page[n].word[k] > 0 => <<n, k>> \in DOMAIN hold
  <2>1. PageOK(f, own, nf, hold, w, n)
    BY DEF FileOK
  <2>2. SharedOK(f, own, hold, n)
    BY <2>1, Kinds DEF PageOK, FreeOK, LongOK
  <2>. QED  BY <2>1, <2>2 DEF PageOK, SharedOK
<1>2. /\ IsPage(p) /\ FragmentsOK(p)
      /\ o \in DOMAIN p.word /\ p.word[o] = t.len
      /\ o + 2 \in DOMAIN p.data /\ p.data[o + 2] = Piece(t, 0, t.len)
      /\ \A k \in DOMAIN p.word : p.word[k] > 0 =>
           k = o \/ (k < o /\ k \in DOMAIN f.page[n].word /\ f.page[n].word[k] > 0)
      /\ \A k \in DOMAIN f.page[n].word : k < o => k \in DOMAIN p.word /\ p.word[k] = f.page[n].word[k]
      /\ \A k \in DOMAIN f.page[n].data : k # o + 2 => k \in DOMAIN p.data /\ p.data[k] = f.page[n].data[k]
      /\ o + t.len + 4 < MPageSize => o + t.len + 2 \in DOMAIN p.word
      /\ \A k \in DOMAIN p.word : k >= o + t.len + 2 => p.word[k] <= 0
  BY <1>1, WithTextOK
<1>. HIDE DEF p
<1>3. g = [page |-> [f.page EXCEPT ![n] = p], free |-> f.free, max |-> f.max, part |-> part]
  BY <1>0 DEF p
<1>4. g.page[n] = p /\ g.max = f.max /\ \A k \in 1 .. f.max : k # n => g.page[k] = f.page[k]
  BY <1>0, <1>3
<1>5. \A pos \in DOMAIN hold : pos[1] = n => /\ pos = <<n, pos[2]>> /\ pos[2] \in Nat /\ pos[2] < o
                                             /\ hold[pos] \in Texts /\ hold[pos].len > 0
                                             /\ hold[pos].len <= MPageSize - 2
                                             /\ ShortOK(f, own, n, pos[2], hold[pos])
  <2>. SUFFICES ASSUME NEW pos \in DOMAIN hold, pos[1] = n
                PROVE  /\ pos = <<n, pos[2]>> /\ pos[2] \in Nat /\ pos[2] < o
                       /\ hold[pos] \in Texts /\ hold[pos].len > 0
                       /\ hold[pos].len <= MPageSize - 2
                       /\ ShortOK(f, own, n, pos[2], hold[pos])
    OBVIOUS
  <2>1. HoldOK(f, own, hold, pos)
    BY DEF FileOK
  <2>2. hold[pos].len <= MPageSize - 2
    BY <2>1, Sizes DEF HoldOK, First, Slot, SharedPage
  <2>3. ShortOK(f, own, n, pos[2], hold[pos])
    BY <2>1, <2>2 DEF HoldOK
  <2>4. pos[2] < o
    BY <2>1, <2>3, Sizes DEF HoldOK, ShortOK, Behind
  <2>. QED  BY <2>1, <2>2, <2>3, <2>4 DEF HoldOK
<1>6. <<n, o>> \notin DOMAIN hold
  <2>1. <<n, o>>[1] = n /\ <<n, o>>[2] = o
    OBVIOUS
  <2>. QED  BY <1>5, <2>1
<1>7. /\ DOMAIN h = DOMAIN hold \cup {<<n, o>>} /\ h[<<n, o>>] = t
      /\ \A pos \in DOMAIN hold : h[pos] = hold[pos]
  BY <1>6 DEF With
<1>. HIDE DEF h
<1>8. \A k \in DOMAIN p.word : p.word[k] > 0 => <<n, k>> \in DOMAIN h
  BY <1>1, <1>2, <1>7
<1>9. \A pos \in DOMAIN h : pos[1] # n => pos \in DOMAIN hold /\ h[pos] = hold[pos]
  <2>1. <<n, o>>[1] = n
    OBVIOUS
  <2>. QED  BY <1>7, <2>1
<1>10. ASSUME NEW pos \in DOMAIN h, pos[1] = n PROVE HoldOK(g, own, h, pos)
  <2>0. t.len <= MPageSize - 2 /\ t.len \in Nat
    BY Sizes
  <2>1. CASE pos = <<n, o>>
    <3>1. pos[1] = n /\ pos[2] = o /\ h[pos] = t
      BY <2>1, <1>7
    <3>2. ShortOK(g, own, n, o, t)
      BY <1>2, <1>4 DEF ShortOK
    <3>3. pos = <<pos[1], pos[2]>> /\ ~ (t.len > MPageSize - 2)
      BY <2>0, <2>1, <3>1, Sizes
    <3>4. pos[1] \in 1 .. g.max /\ pos[2] \in Nat
      BY <3>1, <1>4
    <3>. HIDE <2>1
    <3>5. ShortOK(g, own, pos[1], pos[2], h[pos])
      BY <3>1, <3>2
    <3>6. h[pos] \in Texts /\ h[pos].len > 0 /\ ~ (h[pos].len > MPageSize - 2)
      BY <3>1, <3>3
    <3>. QED  BY ONLY <3>3, <3>4, <3>5, <3>6 DEF HoldOK
  <2>2. CASE pos # <<n, o>>
    <3>1. pos \in DOMAIN hold /\ h[pos] = hold[pos]
      BY <2>2, <1>7
    <3>2. /\ pos = <<n, pos[2]>> /\ pos[2] \in Nat /\ pos[2] < o
          /\ hold[pos] \in Texts /\ hold[pos].len > 0 /\ hold[pos].len <= MPageSize - 2
          /\ ShortOK(f, own, n, pos[2], hold[pos])
      BY <3>1, <1>5, <1>10
    <3>3. ShortOK(g, own, n, pos[2], hold[pos])
      BY <3>2, <1>2, <1>4 DEF ShortOK
    <3>4. hold[pos].len \in Nat
      BY <3>2, Sizes
    <3>. QED  BY <1>4, <1>10, <3>1, <3>2, <3>3, <3>4, Sizes DEF HoldOK
  <2>. QED  BY <2>1, <2>2
<1>11. PartOK(g, own, part)
  <2>1. CASE part = <<n, o + t.len + 2>> /\ o + t.len + 4 < MPageSize
    <3>1. part[1] = n /\ part[2] = o + t.len + 2 /\ part[2] \in Nat /\ part = <<part[1], part[2]>>
      BY <2>1, Sizes
    <3>2. Between(p.word, part[2]) /\ Behind(p, part[2])
      BY <1>2, <2>1, <3>1 DEF Between, Behind
    <3>. QED  BY <3>1, <3>2, <1>4 DEF PartOK
  <2>2. CASE PartOK(f, own, part) /\ part[1] # n
    BY <2>2, <1>4 DEF PartOK
  <2>. QED  BY <2>1, <2>2
<1>12. FileOK(g, own, nf, h, w)
  BY <1>2, <1>3, <1>7, <1>8, <1>9, <1>10, <1>11, SharedChange
<1>. QED  BY <1>6, <1>12 DEF h

(* A short text is stored at FreePart or on a page of its own, and nothing *)
(* was there before (PreparePositionForShortText, WriteBuffer).            *)
LEMMA PutShortOK ==
  ASSUME NEW f, NEW own, NEW nf, NEW hold, FileOK(f, own, nf, hold, NoWork),
         NEW n \in 1 .. f.max, own[n] = SharedPage,
         NEW o \in Nat, Between(f.page[n].word, o), Behind(f.page[n], o),
         NEW t \in Texts, t.len > 0, o + t.len + 2 <= MPageSize
  PROVE  /\ \E own2, nf2 : FileOK(PutShort(f, n, o, t), own2, nf2, With(hold, <<n, o>>, t), NoWork)
         /\ <<n, o>> \notin DOMAIN hold
<1>0. /\ f = [page |-> f.page, free |-> f.free, max |-> f.max, part |-> f.part]
      /\ f.max \in Nat \ {0} /\ DOMAIN f.page = 1 .. f.max
      /\ NoWork.do # "release" /\ t.len \in Nat
  BY Sizes DEF FileOK, IsFile, NoWork, Work
<1>1. CASE t.len + 4 >= MPageSize - o
  <2>. DEFINE g == NewPage(f).f
              m == NewPage(f).n
  <2>1. PICK own2, nf2 : FileOK(g, own2, nf2, hold, NoWork) /\ Fresh(f, own, g, m, own2)
    BY NewPageOK
  <2>. HIDE DEF g, m
  <2>2. /\ g = [page |-> g.page, free |-> g.free, max |-> g.max, part |-> g.part]
        /\ g.max \in Nat \ {0} /\ DOMAIN g.page = 1 .. g.max
    BY <2>1 DEF FileOK, IsFile
  <2>3. m # n
    BY <2>1, Kinds DEF Fresh
  <2>4. n \in 1 .. g.max /\ own2[n] = SharedPage /\ g.page[n] = f.page[n]
    BY <2>1, <2>3, <1>0, <2>2 DEF Fresh
  <2>5. PartOK(g, own2, <<m, 0>>)
    <3>1. m \in 1 .. g.max /\ g.page[m] = Empty /\ own2[m] = SharedPage
      BY <2>1 DEF Fresh
    <3>2. Between(Empty.word, 0) /\ Behind(Empty, 0)
      BY EmptyPage DEF Behind
    <3>3. <<m, 0>>[1] = m /\ <<m, 0>>[2] = 0
      OBVIOUS
    <3>. QED  BY <3>1, <3>2, <3>3 DEF PartOK
  <2>6. PutShort(f, n, o, t) = [[g EXCEPT !.part = <<m, 0>>] EXCEPT !.page[n] = WithText(@, o, t)]
    BY <1>1 DEF PutShort, g, m
  <2>7. PutShort(f, n, o, t) = [page |-> [g.page EXCEPT ![n] = WithText(@, o, t)], free |-> g.free,
                                max |-> g.max, part |-> <<m, 0>>]
    BY <2>2, <2>6
  <2>8. <<m, 0>>[1] # n
    BY <2>3
  <2>. QED  BY <1>0, <2>1, <2>4, <2>5, <2>7, <2>8, PutTextOK
<1>2. CASE ~ (t.len + 4 >= MPageSize - o)
  <2>1. PutShort(f, n, o, t) = [[f EXCEPT !.part = <<n, o + t.len + 2>>] EXCEPT !.page[n] = WithText(@, o, t)]
    BY <1>2 DEF PutShort
  <2>2. PutShort(f, n, o, t) = [page |-> [f.page EXCEPT ![n] = WithText(@, o, t)], free |-> f.free,
                                max |-> f.max, part |-> <<n, o + t.len + 2>>]
    BY <1>0, <2>1
  <2>3. o + t.len + 4 < MPageSize
    BY <1>0, <1>2, Sizes
  <2>. QED  BY <1>0, <2>2, <2>3, PutTextOK
<1>. QED  BY <1>1, <1>2

(* A page without anything becomes a page of the text that is written; of  *)
(* the other pages at most the one written last has changed.               *)
Taken(f, own, hold, w, m, s, x, g, own2, v) ==
  /\ w.do # "release" /\ m \in 1 .. f.max /\ own[m] = SharedPage /\ f.part[1] # m
  /\ \A pos \in DOMAIN hold : pos[1] # m
  /\ SlotOK(s) /\ (\A k \in 1 .. f.max : own[k] # s) /\ own2 = [own EXCEPT ![m] = s]
  /\ x \in 1 .. f.max /\ (x = m \/ SlotOK(own[x])) /\ (w.do = "write" => x = w.n)
  /\ IsFile(g) /\ g.max = f.max /\ g.free = f.free /\ g.part = f.part
  /\ \A k \in 1 .. f.max : k # m /\ k # x => g.page[k] = f.page[k]
  /\ v.do = "write" /\ WorkOK(g, own2, hold, v)
  /\ \A k \in 1 .. f.max : SlotOK(own[k]) =>
       /\ own[k].of = v.of => own[k].t = v.t /\ own[k].from <= own2[v.n].from
       /\ own[k].of # v.of => own[k].of # w.of
  /\ IsPage(g.page[m]) /\ LongOK(g, own2, hold, v, m)
  /\ IsPage(g.page[x]) /\ LongOK(g, own2, hold, v, x)

(* Then the file is one with that page of the text.                        *)
LEMMA TakePage ==
  ASSUME NEW f, NEW own, NEW nf, NEW hold, NEW w, FileOK(f, own, nf, hold, w),
         NEW m, NEW s, NEW x, NEW g, NEW own2, NEW v,
         Taken(f, own, hold, w, m, s, x, g, own2, v)
  PROVE  FileOK(g, own2, nf, hold, v)
<1>. USE DEF Taken
<1>0. f.max \in Nat \ {0} /\ DOMAIN own = 1 .. f.max /\ DOMAIN own2 = 1 .. f.max
  BY DEF FileOK, IsFile
<1>1. own2[m] = s /\ \A k \in 1 .. f.max : k # m => own2[k] = own[k]
  BY <1>0
<1>2. \A k \in 1 .. f.max : SlotOK(own[k]) \/ IsFree(own[k]) => own2[k] = own[k] /\ k # m
  BY <1>1, Kinds
<1>3. ASSUME NEW k \in 1 .. f.max PROVE PageOK(g, own2, nf, hold, v, k)
  <2>0. PageOK(f, own, nf, hold, w, k)
    BY DEF FileOK
  <2>1. CASE k = m \/ k = x
    BY <2>1 DEF PageOK
  <2>2. CASE k # m /\ k # x /\ SharedOK(f, own, hold, k)
    <3>1. SharedOK(g, own2, hold, k)
      BY <2>2, <1>1 DEF SharedOK
    <3>. QED  BY <2>0, <2>2, <3>1 DEF PageOK
  <2>3. CASE k # m /\ k # x /\ FreeOK(f, own, nf, k)
    <3>1. ASSUME own[k].i > 1
          PROVE  g.page[k].next \in 1 .. g.max /\ own2[g.page[k].next] = FreeSlot(own[k].i - 1)
      <4>1. f.page[k].next \in 1 .. f.max /\ own[f.page[k].next] = FreeSlot(own[k].i - 1)
        BY <2>3, <3>1 DEF FreeOK
      <4>2. f.page[k].next # m
        BY <4>1, Kinds
      <4>. QED  BY <4>1, <4>2, <2>3, <1>1
    <3>2. FreeOK(g, own2, nf, k)
      BY <2>3, <3>1, <1>1 DEF FreeOK
    <3>. QED  BY <2>0, <2>3, <3>2 DEF PageOK
  <2>4. CASE k # m /\ k # x /\ LongOK(f, own, hold, w, k)
    <3>0. SlotOK(own[k]) /\ own2[k] = own[k] /\ g.page[k] = f.page[k]
      BY <2>4, <1>1 DEF LongOK
    <3>1. HeadOK(g, own2, k)
      BY <2>4, <3>0 DEF LongOK, HeadOK
    <3>2. PieceOK(f, own, k)
      BY <2>4 DEF LongOK
    <3>3. PieceOK(g, own2, k)
      <4>1. ASSUME HasNext(own[k])
            PROVE  g.page[k].next \in 1 .. g.max /\ own2[g.page[k].next] = Following(own[k])
        <5>1. f.page[k].next \in 1 .. f.max /\ own[f.page[k].next] = Following(own[k])
          BY <3>2, <4>1 DEF PieceOK
        <5>2. SlotOK(own[f.page[k].next])
          BY <3>0, <4>1, <5>1, FollowingOK
        <5>. QED  BY <3>0, <5>1, <5>2, <1>2
      <4>. QED  BY <3>0, <3>2, <4>1 DEF PieceOK
    <3>4. TextOK(own2, hold, v, k)
      <4>1. TextOK(own, hold, w, k)
        BY <2>4 DEF LongOK
      <4>. QED  BY <4>1, <3>0 DEF TextOK
    <3>5. PredOK(g, own2, v, k)
      <4>1. ASSUME k # Root(v, own[k].of)
            PROVE  \E j \in 1 .. g.max : SlotOK(own2[j]) /\ HasNext(own2[j]) /\ Following(own2[j]) = own2[k]
        <5>1. k # Root(w, own[k].of)
          BY <4>1 DEF Root
        <5>2. PICK j \in 1 .. f.max : SlotOK(own[j]) /\ HasNext(own[j]) /\ Following(own[j]) = own[k]
          BY <5>1, <2>4 DEF LongOK, PredOK
        <5>3. own2[j] = own[j]
          BY <5>2, <1>2
        <5>. QED  BY <3>0, <5>2, <5>3
      <4>. QED  BY <3>0, <4>1 DEF PredOK
    <3>6. LongOK(g, own2, hold, v, k)
      BY <3>0, <3>1, <3>3, <3>4, <3>5 DEF LongOK
    <3>. QED  BY <2>0, <3>0, <3>6 DEF PageOK
  <2>. QED  BY <2>0, <2>1, <2>2, <2>3, <2>4 DEF PageOK
<1>4. Distinct(own2)
  <2>1. ASSUME NEW k \in 1 .. f.max, NEW j \in 1 .. f.max, own2[k] = own2[j], own2[k] # SharedPage
        PROVE  k = j
    <3>1. CASE k # m /\ j # m
      BY <2>1, <3>1, <1>0, <1>1 DEF FileOK, Distinct
    <3>2. CASE k = m
      BY <2>1, <3>2, <1>1
    <3>3. CASE j = m
      BY <2>1, <3>3, <1>1
    <3>. QED  BY <3>1, <3>2, <3>3
  <2>. QED  BY <2>1, <1>0 DEF Distinct
<1>5. FreeRootOK(g, own2, nf)
  <2>1. FreeRootOK(f, own, nf)
    BY DEF FileOK
  <2>2. nf > 0 => f.free # m
    BY <2>1, Kinds DEF FreeRootOK
  <2>. QED  BY <2>1, <2>2, <1>1 DEF FreeRootOK
<1>6. ASSUME NEW pos \in DOMAIN hold PROVE HoldOK(g, own2, hold, pos)
  <2>1. HoldOK(f, own, hold, pos) /\ pos[1] # m
    BY DEF FileOK
  <2>2. own2[pos[1]] = own[pos[1]]
    BY <2>1, <1>1 DEF HoldOK
  <2>3. hold[pos].len <= MPageSize - 2 => g.page[pos[1]] = f.page[pos[1]]
    BY <2>1, Kinds DEF HoldOK, ShortOK
  <2>. QED  BY <2>1, <2>2, <2>3 DEF HoldOK, ShortOK
<1>7. PartOK(g, own2, g.part)
  <2>1. PartOK(f, own, f.part)
    BY DEF FileOK
  <2>2. f.part[1] # x
    BY <2>1, Kinds DEF PartOK
  <2>. QED  BY <2>1, <2>2, <1>1 DEF PartOK
<1>. QED  BY <1>0, <1>3, <1>4, <1>5, <1>6, <1>7 DEF FileOK

(* One page of a file is changed.                                          *)
Edited(f, n, p) ==
  [page |-> [f.page EXCEPT ![n] = p], free |-> f.free, max |-> f.max, part |-> f.part]

(* The file with one page changed.                                         *)
LEMMA EditedShape ==
  ASSUME NEW f, IsFile(f), NEW n \in 1 .. f.max, NEW p
  PROVE  LET g == Edited(f, n, p)
         IN  /\ IsFile(g) /\ g.max = f.max /\ g.free = f.free /\ g.part = f.part
             /\ g.page[n] = p /\ \A k \in 1 .. f.max : k # n => g.page[k] = f.page[k]
<1>. DEFINE g == Edited(f, n, p)
<1>1. f.max \in Nat \ {0} /\ DOMAIN f.page = 1 .. f.max
  BY DEF IsFile
<1>2. /\ g.page = [f.page EXCEPT ![n] = p] /\ g.free = f.free /\ g.max = f.max /\ g.part = f.part
      /\ g = [page |-> g.page, free |-> g.free, max |-> g.max, part |-> g.part]
  BY DEF Edited
<1>. HIDE DEF g
<1>3. DOMAIN g.page = 1 .. g.max /\ g.page = [k \in 1 .. g.max |-> g.page[k]]
  BY <1>1, <1>2
<1>4. g.page[n] = p /\ \A k \in 1 .. f.max : k # n => g.page[k] = f.page[k]
  BY <1>1, <1>2
<1>5. IsFile(g)
  BY <1>1, <1>2, <1>3 DEF IsFile
<1>. QED  BY <1>2, <1>4, <1>5 DEF g

(* The ways the model changes a page, as operators.                        *)
SetWord(f, n, x) == [f EXCEPT !.page[n].word = x]
SetData(f, n, x) == [f EXCEPT !.page[n].data = x]
SetNext(f, n, x) == [f EXCEPT !.page[n].next = x]
SetPage(f, n, p) == [f EXCEPT !.page[n] = p]

(* A page is replaced.                                                     *)
LEMMA EditPage ==
  ASSUME NEW f, IsFile(f), NEW n \in 1 .. f.max, NEW p
  PROVE  SetPage(f, n, p) = Edited(f, n, p)
<1>1. f = [page |-> f.page, free |-> f.free, max |-> f.max, part |-> f.part]
  BY DEF IsFile
<1>. QED  BY <1>1 DEF Edited, SetPage

(* The lengths of a page are replaced.                                     *)
LEMMA EditWord ==
  ASSUME NEW f, IsFile(f), NEW n \in 1 .. f.max, NEW p, p = f.page[n], IsPage(p), NEW x,
         NEW q, q = [word |-> x, data |-> p.data, next |-> p.next]
  PROVE  SetWord(f, n, x) = Edited(f, n, q)
<1>1. p = [word |-> p.word, data |-> p.data, next |-> p.next]
  BY DEF IsPage
<1>2. [p EXCEPT !.word = x] = q
  BY <1>1
<1>3. SetWord(f, n, x) = SetPage(f, n, [f.page[n] EXCEPT !.word = x])
  BY DEF SetWord, SetPage
<1>. QED  BY <1>2, <1>3, EditPage

(* What is on a page is replaced.                                          *)
LEMMA EditData ==
  ASSUME NEW f, IsFile(f), NEW n \in 1 .. f.max, NEW p, p = f.page[n], IsPage(p), NEW x,
         NEW q, q = [word |-> p.word, data |-> x, next |-> p.next]
  PROVE  SetData(f, n, x) = Edited(f, n, q)
<1>1. p = [word |-> p.word, data |-> p.data, next |-> p.next]
  BY DEF IsPage
<1>2. [p EXCEPT !.data = x] = q
  BY <1>1
<1>3. SetData(f, n, x) = SetPage(f, n, [f.page[n] EXCEPT !.data = x])
  BY DEF SetData, SetPage
<1>. QED  BY <1>2, <1>3, EditPage

(* The link of a page is replaced.                                         *)
LEMMA EditNext ==
  ASSUME NEW f, IsFile(f), NEW n \in 1 .. f.max, NEW p, p = f.page[n], IsPage(p), NEW x,
         NEW q, q = [word |-> p.word, data |-> p.data, next |-> x]
  PROVE  SetNext(f, n, x) = Edited(f, n, q)
<1>1. p = [word |-> p.word, data |-> p.data, next |-> p.next]
  BY DEF IsPage
<1>2. [p EXCEPT !.next = x] = q
  BY <1>1
<1>3. SetNext(f, n, x) = SetPage(f, n, [f.page[n] EXCEPT !.next = x])
  BY DEF SetNext, SetPage
<1>. QED  BY <1>2, <1>3, EditPage

(* What writing a piece, a link and the head of a text does to the file.   *)
LEMMA PieceShape ==
  ASSUME NEW g, IsFile(g), NEW n \in 1 .. g.max, IsPage(g.page[n]), NEW o, NEW x,
         NEW q, q = [word |-> g.page[n].word, data |-> With(g.page[n].data, o, x), next |-> g.page[n].next]
  PROVE  PutPiece(g, n, o, x) = Edited(g, n, q)
<1>1. PICK d : d = With(g.page[n].data, o, x)
  OBVIOUS
<1>2. PutPiece(g, n, o, x) = SetData(g, n, With(g.page[n].data, o, x))
  BY DEF PutPiece, SetData
<1>3. PICK p : p = g.page[n]
  OBVIOUS
<1>4. q = [word |-> p.word, data |-> d, next |-> p.next] /\ IsPage(p)
  BY <1>1, <1>3
<1>5. SetData(g, n, d) = Edited(g, n, q)
  BY <1>3, <1>4, EditData
<1>. QED  BY <1>1, <1>2, <1>5

(* A page that is written and linked to another one.                       *)
LEMMA LinkShape ==
  ASSUME NEW g, IsFile(g), NEW n \in 1 .. g.max, IsPage(g.page[n]), NEW o, NEW x, NEW m
  PROVE  LET h == Link(PutPiece(g, n, o, x), n, m)
         IN  /\ IsFile(h) /\ h.max = g.max /\ h.free = g.free /\ h.part = g.part
             /\ h.page[n] = Paged(g.page[n].word, With(g.page[n].data, o, x), m)
             /\ \A k \in 1 .. g.max : k # n => h.page[k] = g.page[k]
<1>1. PICK d : d = With(g.page[n].data, o, x)
  OBVIOUS
<1>2. PICK p : p = [word |-> g.page[n].word, data |-> d, next |-> g.page[n].next]
  OBVIOUS
<1>3. PICK f : f = PutPiece(g, n, o, x)
  OBVIOUS
<1>4. f = Edited(g, n, p)
  BY <1>1, <1>2, <1>3, PieceShape
<1>5. /\ IsFile(f) /\ f.max = g.max /\ f.free = g.free /\ f.part = g.part
      /\ f.page[n] = p /\ \A k \in 1 .. g.max : k # n => f.page[k] = g.page[k]
  BY <1>4, EditedShape
<1>6. p.word = g.page[n].word /\ p.data = d /\ p.next = g.page[n].next
  BY <1>2
<1>7. IsPage(p)
  BY <1>2, <1>6 DEF IsPage
<1>8. n \in 1 .. f.max
  BY <1>5
<1>9. PICK q : q = [word |-> p.word, data |-> p.data, next |-> m]
  OBVIOUS
<1>10. SetNext(f, n, m) = Edited(f, n, q)
  BY <1>5, <1>7, <1>8, <1>9, EditNext
<1>11. PICK h : h = Edited(f, n, q)
  OBVIOUS
<1>12. Link(PutPiece(g, n, o, x), n, m) = h
  <2>1. Link(f, n, m) = SetNext(f, n, m)
    BY DEF Link, SetNext
  <2>. QED  BY <2>1, <1>3, <1>10, <1>11
<1>13. /\ IsFile(h) /\ h.max = f.max /\ h.free = f.free /\ h.part = f.part
       /\ h.page[n] = q /\ \A k \in 1 .. f.max : k # n => h.page[k] = f.page[k]
  BY <1>5, <1>8, <1>11, EditedShape
<1>14. q = Paged(g.page[n].word, With(g.page[n].data, o, x), m)
  BY <1>1, <1>6, <1>9 DEF Paged
<1>. QED  BY <1>5, <1>12, <1>13, <1>14

(* A fresh page that gets the length of a segment.                         *)
LEMMA HeadShape ==
  ASSUME NEW g, IsFile(g), NEW n \in 1 .. g.max, g.page[n] = Empty, NEW len
  PROVE  LET h == PutHead(g, n, len)
         IN  /\ IsFile(h) /\ h.max = g.max /\ h.free = g.free /\ h.part = g.part
             /\ h.page[n] = Paged(With(<<>>, 0, Head4(len)), <<>>, 0)
             /\ \A k \in 1 .. g.max : k # n => h.page[k] = g.page[k]
<1>1. IsPage(g.page[n]) /\ g.page[n].word = <<>> /\ g.page[n].data = <<>> /\ g.page[n].next = 0
  <2>1. Empty.word = <<>> /\ Empty.data = <<>> /\ Empty.next = 0
    BY DEF Empty
  <2>. QED  BY <2>1, EmptyPage
<1>2. PICK y : y = With(<<>>, 0, Head4(len))
  OBVIOUS
<1>3. PICK q : q = [word |-> y, data |-> <<>>, next |-> 0]
  OBVIOUS
<1>4. PutHead(g, n, len) = SetWord(g, n, y)
  BY <1>1, <1>2 DEF PutHead, SetWord
<1>5. PICK p : p = g.page[n]
  OBVIOUS
<1>6. PICK h : h = Edited(g, n, q)
  OBVIOUS
<1>7. PutHead(g, n, len) = h
  <2>1. q = [word |-> y, data |-> p.data, next |-> p.next] /\ IsPage(p)
    BY <1>1, <1>3, <1>5
  <2>2. SetWord(g, n, y) = Edited(g, n, q)
    BY <2>1, <1>5, EditWord
  <2>. QED  BY <2>2, <1>4, <1>6
<1>8. /\ IsFile(h) /\ h.max = g.max /\ h.free = g.free /\ h.part = g.part
      /\ h.page[n] = q /\ \A k \in 1 .. g.max : k # n => h.page[k] = g.page[k]
  BY <1>6, EditedShape
<1>. QED  BY <1>2, <1>3, <1>7, <1>8 DEF Paged

(* A long text begins on a new page.                                       *)
LEMMA StartLongOK ==
  ASSUME NEW f, NEW own, NEW nf, NEW hold, FileOK(f, own, nf, hold, NoWork),
         NEW t \in Texts, t.len > MPageSize - 2
  PROVE  LET n == NewPage(f).n
         IN  /\ \E own2, nf2 : /\ FileOK(PutHead(NewPage(f).f, n, t.len), own2, nf2, hold, Work("write", n, n, t))
                               /\ own2[n] = First(n, t)
             /\ n \in Nat \ {0}
<1>. DEFINE g == NewPage(f).f
            n == NewPage(f).n
            s == First(n, t)
            v == Work("write", n, n, t)
            h == PutHead(g, n, t.len)
<1>1. PICK own2, nf2 : FileOK(g, own2, nf2, hold, NoWork) /\ Fresh(f, own, g, n, own2)
  BY NewPageOK
<1>. HIDE DEF g, n
<1>2. /\ g = [page |-> g.page, free |-> g.free, max |-> g.max, part |-> g.part]
      /\ g.max \in Nat \ {0} /\ DOMAIN g.page = 1 .. g.max /\ DOMAIN own2 = 1 .. g.max
      /\ g.page = [k \in 1 .. g.max |-> g.page[k]]
  BY <1>1 DEF FileOK, IsFile
<1>3. n \in 1 .. g.max /\ g.page[n] = Empty /\ own2[n] = SharedPage /\ n \in Nat \ {0} /\ g.part[1] # n
  BY <1>1, <1>2 DEF Fresh
<1>4. NoWork.do = "none" /\ NoWork.do # "release" /\ NoWork.of = 0
  BY DEF NoWork, Work
<1>5. /\ \A pos \in DOMAIN hold : pos[1] # n
      /\ \A m \in 1 .. g.max : SlotOK(own2[m]) => own2[m].of # n
  BY <1>1, <1>4, FreshUnused
<1>6. /\ SlotOK(s) /\ s.of = n /\ s.t = t /\ s.o = 2 /\ s.from = 0 /\ SlotWord(s) = Head4(t.len)
  BY <1>3, FirstOK, Sizes
<1>7. \A k \in 1 .. g.max : own2[k] # s
  BY <1>5, <1>6
<1>. HIDE DEF s
<1>8. PICK own3 : own3 = [own2 EXCEPT ![n] = s]
  OBVIOUS
<1>9. own3[n] = s
  BY <1>2, <1>3, <1>8
<1>11. /\ IsFile(h) /\ h.max = g.max /\ h.free = g.free /\ h.part = g.part
       /\ \A k \in 1 .. g.max : k # n => h.page[k] = g.page[k]
       /\ h.page[n] = [word |-> With(<<>>, 0, Head4(t.len)), data |-> <<>>, next |-> 0]
  BY <1>1, <1>3, HeadShape DEF FileOK, Paged
<1>. HIDE DEF h
<1>12. /\ DOMAIN h.page[n].word = {0} /\ h.page[n].word[0] = Head4(t.len) /\ h.page[n].next = 0
       /\ Head4(t.len) \in Nat
  <2>1. DOMAIN With(<<>>, 0, Head4(t.len)) = {0} /\ With(<<>>, 0, Head4(t.len))[0] = Head4(t.len)
    BY DEF With
  <2>2. Head4(t.len) \in Nat
    BY Sizes DEF Head4
  <2>. QED  BY <1>11, <2>1, <2>2
<1>13. IsPage(h.page[n])
  BY <1>11, <1>12 DEF IsPage
<1>14. v.do = "write" /\ v.of = n /\ v.n = n /\ v.t = t /\ v = Work(v.do, v.of, v.n, v.t)
  BY DEF Work
<1>. HIDE DEF v
<1>15. WorkOK(h, own3, hold, v)
  <2>1. <<n, 0>> \notin DOMAIN hold
    BY <1>5
  <2>. QED  BY <2>1, <1>3, <1>6, <1>9, <1>11, <1>14 DEF WorkOK, s
<1>16. LongOK(h, own3, hold, v, n)
  <2>1. HeadOK(h, own3, n)
    BY <1>6, <1>9, <1>12 DEF HeadOK
  <2>2. TextOK(own3, hold, v, n) /\ PredOK(h, own3, v, n)
    BY <1>6, <1>9, <1>14 DEF TextOK, PredOK, Root
  <2>. QED  BY <2>1, <2>2, <1>6, <1>9, <1>14 DEF LongOK
<1>17. FileOK(h, own3, nf2, hold, v)
  <2>1. \A k \in 1 .. g.max : SlotOK(own2[k]) =>
            /\ own2[k].of = v.of => own2[k].t = v.t /\ own2[k].from <= own3[v.n].from
            /\ own2[k].of # v.of => own2[k].of # NoWork.of
    BY <1>4, <1>5, <1>14 DEF SlotOK
  <2>2. Taken(g, own2, hold, NoWork, n, s, n, h, own3, v)
    BY <1>3, <1>4, <1>5, <1>6, <1>7, <1>8, <1>11, <1>13, <1>14, <1>15, <1>16, <2>1 DEF Taken
  <2>. QED  BY <1>1, <2>2, TakePage
<1>. QED  BY <1>3, <1>9, <1>17 DEF h, v, s, g, n

(* The page that is written is linked to a new one, in the same segment or *)
(* with the next one.                                                      *)
LEMMA ExtendOK ==
  ASSUME NEW f, NEW own, NEW nf, NEW hold, NEW w, FileOK(f, own, nf, hold, w), w.do = "write",
         HasNext(own[w.n]), NEW h, IsFile(h),
         h.max = NewPage(f).f.max, h.free = NewPage(f).f.free, h.part = NewPage(f).f.part,
         \A k \in 1 .. h.max : k # w.n /\ k # NewPage(f).n => h.page[k] = NewPage(f).f.page[k],
         h.page[w.n] = Paged(f.page[w.n].word,
                             With(f.page[w.n].data, own[w.n].o,
                                  Piece(own[w.n].t, own[w.n].from, Here(own[w.n]))),
                             NewPage(f).n),
         IsPage(h.page[NewPage(f).n]),
         Following(own[w.n]).o = 2 =>
           /\ 0 \in DOMAIN h.page[NewPage(f).n].word
           /\ h.page[NewPage(f).n].word[0] = SlotWord(Following(own[w.n]))
  PROVE  \E own2, nf2 : /\ FileOK(h, own2, nf2, hold, Work("write", w.of, NewPage(f).n, w.t))
                        /\ own2[NewPage(f).n] = Following(own[w.n])
<1>. DEFINE g == NewPage(f).f
            m == NewPage(f).n
            n == w.n
            s == own[n]
            u == Following(s)
            v == Work("write", w.of, m, w.t)
<1>1. PICK own2, nf2 : FileOK(g, own2, nf2, hold, w) /\ Fresh(f, own, g, m, own2)
  BY NewPageOK
<1>. HIDE DEF g, m
<1>2. /\ f.max \in Nat \ {0} /\ g.max \in Nat \ {0} /\ DOMAIN own2 = 1 .. g.max
      /\ h.max = g.max /\ h.free = g.free /\ h.part = g.part
      /\ \A k \in 1 .. g.max : k # n /\ k # m => h.page[k] = g.page[k]
  BY <1>1 DEF FileOK, IsFile, g, m
<1>3. m \in 1 .. g.max /\ g.page[m] = Empty /\ own2[m] = SharedPage /\ m \in Nat \ {0} /\ g.part[1] # m
  BY <1>1, <1>2 DEF Fresh
<1>4. w.do # "release" /\ w # NoWork
  BY DEF NoWork, Work
<1>5. /\ \A pos \in DOMAIN hold : pos[1] # m
      /\ \A k \in 1 .. g.max : SlotOK(own2[k]) => own2[k].of # m
  BY <1>1, <1>4, FreshUnused
<1>6. /\ w = Work(w.do, w.of, n, w.t) /\ w.of \in Nat \ {0} /\ <<w.of, 0>> \notin DOMAIN hold
      /\ n \in 1 .. f.max /\ SlotOK(s) /\ s.of = w.of /\ w.of \in 1 .. f.max /\ own[w.of] = First(w.of, w.t)
  BY <1>4 DEF FileOK, WorkOK
<1>7. n # m /\ n \in 1 .. g.max /\ own2[n] = s /\ g.page[n] = f.page[n]
  BY <1>1, <1>2, <1>6, Kinds DEF Fresh
<1>8. w.of # m /\ w.of \in 1 .. g.max /\ own2[w.of] = First(w.of, w.t)
  <2>1. own[w.of].kind # "free"
    BY <1>6 DEF First, Slot
  <2>2. w.of # m
    BY <2>1, <1>1, <1>6 DEF Fresh, IsFree
  <2>. QED  BY <2>2, <1>1, <1>2, <1>6 DEF Fresh
<1>9. \A k \in 1 .. g.max : SlotOK(own2[k]) => LongOK(g, own2, hold, w, k)
  BY <1>1, Kinds DEF FileOK, PageOK, SharedOK, FreeOK
<1>10. SlotOK(u) /\ u.of = w.of /\ u.t = s.t /\ u.from > s.from /\ u.from \in Nat /\ s.from \in Nat
  BY <1>6, FollowingOK DEF SlotOK
<1>11. s.t = w.t
  BY <1>6, <1>7, <1>9 DEF LongOK, TextOK
<1>12. \A k \in 1 .. g.max : SlotOK(own2[k]) /\ own2[k].of = w.of =>
          own2[k].t = w.t /\ own2[k].from <= s.from /\ own2[k].from \in Nat
  BY <1>7, <1>9 DEF LongOK, TextOK, SlotOK
<1>. HIDE DEF u
<1>13. \A k \in 1 .. g.max : own2[k] # u
  BY <1>10, <1>12
<1>14. PICK own3 : own3 = [own2 EXCEPT ![m] = u]
  OBVIOUS
<1>15. own3[m] = u /\ \A k \in 1 .. g.max : k # m => own3[k] = own2[k]
  BY <1>2, <1>3, <1>14
<1>16. v.do = "write" /\ v.of = w.of /\ v.n = m /\ v.t = w.t /\ v = Work(v.do, v.of, v.n, v.t)
  BY DEF Work
<1>. HIDE DEF v
<1>17. WorkOK(h, own3, hold, v)
  BY <1>2, <1>3, <1>6, <1>8, <1>10, <1>15, <1>16 DEF WorkOK
<1>18. IsPage(h.page[m]) /\ (u.o = 2 => 0 \in DOMAIN h.page[m].word /\ h.page[m].word[0] = SlotWord(u))
  BY DEF m, u
<1>19. h.page[n] = [word |-> f.page[n].word, data |-> With(f.page[n].data, s.o, Piece(s.t, s.from, Here(s))), next |-> m]
  BY DEF m, Paged
<1>20. IsPage(h.page[n]) /\ h.page[n].next = m /\ h.page[n].word = f.page[n].word
       /\ s.o \in DOMAIN h.page[n].data /\ h.page[n].data[s.o] = Piece(s.t, s.from, Here(s))
  <2>1. IsPage(f.page[n])
    BY <1>6 DEF FileOK, PageOK
  <2>2. PICK d : d = With(f.page[n].data, s.o, Piece(s.t, s.from, Here(s)))
    OBVIOUS
  <2>3. s.o \in DOMAIN d /\ d[s.o] = Piece(s.t, s.from, Here(s))
    BY <2>2 DEF With
  <2>4. h.page[n] = [word |-> f.page[n].word, data |-> d, next |-> m]
    BY <1>19, <2>2
  <2>. QED  BY <2>1, <2>3, <2>4, <1>3 DEF IsPage
<1>21. LongOK(h, own3, hold, v, m)
  <2>1. HeadOK(h, own3, m)
    BY <1>15, <1>18 DEF HeadOK
  <2>2. TextOK(own3, hold, v, m)
    BY <1>10, <1>11, <1>15, <1>16 DEF TextOK
  <2>3. PredOK(h, own3, v, m)
    <3>1. SlotOK(own3[n]) /\ HasNext(own3[n]) /\ Following(own3[n]) = own3[m] /\ n \in 1 .. h.max
      BY <1>2, <1>6, <1>7, <1>15 DEF u
    <3>. QED  BY <3>1 DEF PredOK
  <2>4. own3[m].from <= own3[v.n].from
    BY <1>10, <1>15, <1>16
  <2>. QED  BY <2>1, <2>2, <2>3, <2>4, <1>10, <1>15, <1>16 DEF LongOK
<1>22. LongOK(h, own3, hold, v, n)
  <2>0. own3[n] = s /\ LongOK(g, own2, hold, w, n)
    BY <1>6, <1>7, <1>9, <1>15
  <2>1. HeadOK(h, own3, n)
    BY <2>0, <1>7, <1>20 DEF LongOK, HeadOK
  <2>2. PieceOK(h, own3, n)
    BY <2>0, <1>2, <1>3, <1>15, <1>20 DEF PieceOK, u
  <2>3. TextOK(own3, hold, v, n)
    BY <2>0, <1>6, <1>11, <1>16 DEF TextOK
  <2>4. PredOK(h, own3, v, n)
    <3>1. ASSUME n # Root(v, own3[n].of)
          PROVE  \E j \in 1 .. h.max : SlotOK(own3[j]) /\ HasNext(own3[j]) /\ Following(own3[j]) = own3[n]
      <4>1. n # Root(w, own2[n].of)
        BY <3>1, <2>0, <1>7, <1>16 DEF Root
      <4>2. PICK j \in 1 .. g.max : SlotOK(own2[j]) /\ HasNext(own2[j]) /\ Following(own2[j]) = own2[n]
        BY <2>0, <4>1 DEF LongOK, PredOK
      <4>3. own3[j] = own2[j]
        BY <4>2, <1>3, <1>15, Kinds
      <4>. QED  BY <4>2, <4>3, <2>0, <1>2, <1>7
    <3>. QED  BY <3>1 DEF PredOK
  <2>5. own3[n].from <= own3[v.n].from
    BY <2>0, <1>10, <1>15, <1>16
  <2>. QED  BY <2>0, <2>1, <2>2, <2>3, <2>4, <2>5, <1>6 DEF LongOK
<1>23. FileOK(h, own3, nf2, hold, v)
  <2>1. ASSUME NEW k \in 1 .. g.max, SlotOK(own2[k])
        PROVE  /\ own2[k].of = v.of => own2[k].t = v.t /\ own2[k].from <= own3[v.n].from
               /\ own2[k].of # v.of => own2[k].of # w.of
    BY <2>1, <1>10, <1>12, <1>15, <1>16
  <2>2. Taken(g, own2, hold, w, m, u, n, h, own3, v)
    BY <1>2, <1>3, <1>4, <1>5, <1>6, <1>7, <1>10, <1>13, <1>14, <1>16, <1>17, <1>18,
       <1>20, <1>21, <1>22, <2>1 DEF Taken
  <2>. QED  BY <1>1, <2>2, TakePage
<1>. QED  BY <1>15, <1>23 DEF v, u, g, m

(* The last page of a text is written: the text is complete.               *)
LEMMA WriteLastOK ==
  ASSUME NEW f, NEW own, NEW nf, NEW hold, NEW w, FileOK(f, own, nf, hold, w), w.do = "write",
         ~ HasNext(own[w.n]), w.t.len > MPageSize - 2, w.t \in Texts,
         NEW h,
         h = Edited(f, w.n, Paged(f.page[w.n].word,
                                  With(f.page[w.n].data, own[w.n].o,
                                       Piece(own[w.n].t, own[w.n].from, Here(own[w.n]))),
                                  f.page[w.n].next))
  PROVE  FileOK(h, own, nf, With(hold, <<w.of, 0>>, w.t), NoWork)
<1>. DEFINE n == w.n
            s == own[n]
            pos0 == <<w.of, 0>>
            hold2 == With(hold, pos0, w.t)
<1>1. /\ IsFile(f) /\ f.max \in Nat \ {0} /\ DOMAIN own = 1 .. f.max
      /\ w.of \in Nat \ {0} /\ pos0 \notin DOMAIN hold
      /\ n \in 1 .. f.max /\ SlotOK(s) /\ s.of = w.of /\ w.of \in 1 .. f.max /\ own[w.of] = First(w.of, w.t)
  BY DEF FileOK, WorkOK, NoWork, Work, IsFile
<1>2. PICK p : p = [word |-> f.page[n].word, data |-> With(f.page[n].data, s.o, Piece(s.t, s.from, Here(s))),
                    next |-> f.page[n].next]
  OBVIOUS
<1>3. /\ IsFile(h) /\ h.max = f.max /\ h.free = f.free /\ h.part = f.part
      /\ h.page[n] = p /\ \A k \in 1 .. f.max : k # n => h.page[k] = f.page[k]
  <2>1. h = Edited(f, n, p)
    BY <1>2 DEF Paged
  <2>. QED  BY <1>1, <2>1, EditedShape
<1>4. IsPage(p) /\ p.word = f.page[n].word /\ s.o \in DOMAIN p.data /\ p.data[s.o] = Piece(s.t, s.from, Here(s))
  <2>1. IsPage(f.page[n])
    BY <1>1 DEF FileOK, PageOK
  <2>2. PICK d : d = With(f.page[n].data, s.o, Piece(s.t, s.from, Here(s)))
    OBVIOUS
  <2>3. s.o \in DOMAIN d /\ d[s.o] = Piece(s.t, s.from, Here(s))
    BY <2>2 DEF With
  <2>4. p = [word |-> f.page[n].word, data |-> d, next |-> f.page[n].next]
    BY <1>2, <2>2
  <2>. QED  BY <2>1, <2>3, <2>4 DEF IsPage
<1>5. /\ DOMAIN hold2 = DOMAIN hold \cup {pos0} /\ hold2[pos0] = w.t
      /\ \A q \in DOMAIN hold : hold2[q] = hold[q]
  BY <1>1 DEF With
<1>. HIDE DEF hold2
<1>6. NoWork.do = "none" /\ NoWork.of = 0
  BY DEF NoWork, Work
<1>7. ASSUME NEW k \in 1 .. f.max, LongOK(f, own, hold, w, k) PROVE LongOK(h, own, hold2, NoWork, k)
  <2>1. SlotOK(own[k]) /\ own[k].of \in Nat \ {0}
    BY <1>7 DEF LongOK, SlotOK
  <2>2. HeadOK(h, own, k)
    BY <1>3, <1>4, <1>7 DEF LongOK, HeadOK
  <2>3. PieceOK(h, own, k)
    <3>1. CASE k = n
      BY <3>1, <1>3, <1>4 DEF PieceOK
    <3>2. CASE k # n
      BY <3>2, <1>3, <1>7 DEF PieceOK, LongOK
    <3>. QED  BY <3>1, <3>2
  <2>4. TextOK(own, hold2, NoWork, k)
    <3>1. CASE own[k].of = w.of
      BY <3>1, <2>1, <1>5, <1>6, <1>7 DEF LongOK, TextOK
    <3>2. CASE own[k].of # w.of
      <4>1. <<own[k].of, 0>> \in DOMAIN hold /\ hold[<<own[k].of, 0>>] = own[k].t /\ own[k].t.len > MPageSize - 2
        BY <3>2, <1>7 DEF LongOK, TextOK
      <4>2. <<own[k].of, 0>> \in DOMAIN hold2 /\ hold2[<<own[k].of, 0>>] = own[k].t
        BY <4>1, <1>5
      <4>. QED  BY <4>1, <4>2, <2>1, <1>6 DEF TextOK
    <3>. QED  BY <3>1, <3>2
  <2>5. PredOK(h, own, NoWork, k)
    BY <1>3, <1>6, <1>7 DEF LongOK, PredOK, Root
  <2>. QED  BY <2>1, <2>2, <2>3, <2>4, <2>5, <1>6 DEF LongOK
<1>8. ASSUME NEW k \in 1 .. f.max PROVE PageOK(h, own, nf, hold2, NoWork, k)
  <2>0. PageOK(f, own, nf, hold, w, k)
    BY DEF FileOK
  <2>1. IsPage(h.page[k])
    BY <2>0, <1>3, <1>4 DEF PageOK
  <2>2. CASE SharedOK(f, own, hold, k)
    <3>1. k # n
      BY <2>2, <1>1, Kinds DEF SharedOK
    <3>2. SharedOK(h, own, hold2, k)
      BY <2>2, <3>1, <1>3, <1>5 DEF SharedOK
    <3>. QED  BY <2>1, <3>2 DEF PageOK
  <2>3. CASE FreeOK(f, own, nf, k)
    <3>1. k # n
      BY <2>3, <1>1, Kinds DEF FreeOK
    <3>2. FreeOK(h, own, nf, k)
      BY <2>3, <3>1, <1>3 DEF FreeOK
    <3>. QED  BY <2>1, <3>2 DEF PageOK
  <2>4. CASE LongOK(f, own, hold, w, k)
    BY <2>4, <2>1, <1>7 DEF PageOK
  <2>. QED  BY <2>0, <2>2, <2>3, <2>4 DEF PageOK
<1>9. ASSUME NEW q \in DOMAIN hold2 PROVE HoldOK(h, own, hold2, q)
  <2>1. CASE q = pos0
    <3>1. q[1] = w.of /\ q[2] = 0 /\ hold2[q] = w.t /\ q = <<q[1], q[2]>>
      BY <2>1, <1>5
    <3>2. w.t.len \in Nat /\ w.t.len > 0 /\ ~ (w.t.len <= MPageSize - 2)
      BY Sizes
    <3>. HIDE <2>1
    <3>0. w.of \in 1 .. h.max /\ own[w.of] = First(w.of, w.t)
      BY <1>1, <1>3
    <3>3. own[q[1]] = First(q[1], hold2[q]) /\ q[1] \in 1 .. h.max /\ q[2] \in Nat
      BY ONLY <3>0, <3>1
    <3>4. hold2[q] \in Texts /\ hold2[q].len > 0 /\ ~ (hold2[q].len <= MPageSize - 2)
      BY <3>1, <3>2
    <3>. QED  BY ONLY <3>1, <3>3, <3>4 DEF HoldOK
  <2>2. CASE q # pos0
    <3>1. q \in DOMAIN hold /\ hold2[q] = hold[q] /\ HoldOK(f, own, hold, q)
      BY <2>2, <1>5 DEF FileOK
    <3>2. hold[q].len <= MPageSize - 2 => h.page[q[1]] = f.page[q[1]]
      BY <3>1, <1>1, <1>3, Kinds DEF HoldOK, ShortOK
    <3>. QED  BY <3>1, <3>2, <1>3 DEF HoldOK, ShortOK
  <2>. QED  BY <2>1, <2>2
<1>10. PartOK(h, own, h.part)
  <2>1. PartOK(f, own, f.part)
    BY DEF FileOK
  <2>2. f.part[1] # n
    BY <2>1, <1>1, Kinds DEF PartOK
  <2>. QED  BY <2>1, <2>2, <1>3 DEF PartOK
<1>11. FreeRootOK(h, own, nf) /\ WorkOK(h, own, hold2, NoWork)
  BY <1>3 DEF FileOK, FreeRootOK, WorkOK
<1>12. Distinct(own)
  BY DEF FileOK
<1>. QED  BY <1>1, <1>3, <1>8, <1>9, <1>10, <1>11, <1>12 DEF FileOK, hold2
-----------------------------------------------------------------------------
(* A set of numbers that is not empty has a smallest one.                  *)
LEMMA SmallestNat ==
  ASSUME NEW T, T \subseteq Nat, T # {}
  PROVE  \E x \in T : \A y \in T : x <= y
<1>. DEFINE R == OpToRel(<, Nat)
<1>1. PICK x \in T : \A y \in T : ~ (<<y, x>> \in R)
  <2>1. IsWellFoundedOn(R, Nat)
    BY NatLessThanWellFounded
  <2>. HIDE DEF R
  <2>. QED  BY <2>1, WFMin
<1>2. \A y \in T : ~(y < x)
  BY <1>1 DEF OpToRel
<1>. HIDE DEF R
<1>. QED  BY <1>2

(* A set of numbers with 0 and with every successor has all of them.       *)
LEMMA NatSet ==
  ASSUME NEW S, 0 \in S, \A n \in Nat : n \in S => n + 1 \in S
  PROVE  \A n \in Nat : n \in S
<1>. DEFINE T == {n \in Nat : n \notin S}
<1>. SUFFICES ASSUME T # {} PROVE FALSE
  OBVIOUS
<1>1. PICK x \in T : \A y \in T : x <= y
  <2>1. T \subseteq Nat
    OBVIOUS
  <2>. HIDE DEF T
  <2>. QED  BY <2>1, SmallestNat
<1>2. x \in Nat /\ x # 0 /\ x - 1 \in Nat /\ x - 1 \notin T
  BY <1>1
<1>3. x - 1 \in S
  BY <1>2
<1>. QED  BY <1>1, <1>2, <1>3

-----------------------------------------------------------------------------
(* Freeing.  The pages of the text that is released all follow the one     *)
(* that is next.                                                           *)
LEMMA RootFirst ==
  ASSUME NEW f, NEW own, NEW nf, NEW hold, NEW w, FileOK(f, own, nf, hold, w),
         NEW k \in 1 .. f.max, SlotOK(own[k])
  PROVE  \E j \in 1 .. f.max : /\ SlotOK(own[j]) /\ own[j].of = own[k].of
                               /\ own[j].from <= own[k].from /\ j = Root(w, own[k].of)
<1>. DEFINE J == {j \in 1 .. f.max : SlotOK(own[j]) /\ own[j].of = own[k].of}
            F == {own[j].from : j \in J}
<1>1. F \subseteq Nat /\ F # {} /\ own[k].from \in F
  BY DEF SlotOK
<1>2. PICK a \in F : \A b \in F : a <= b
  <2>. HIDE DEF F
  <2>. QED  BY <1>1, SmallestNat
<1>3. PICK j \in J : a = own[j].from
  OBVIOUS
<1>4. \A i \in J : own[j].from <= own[i].from
  BY <1>2, <1>3
<1>5. ASSUME j # Root(w, own[j].of) PROVE FALSE
  <2>1. LongOK(f, own, hold, w, j)
    BY <1>3, Kinds DEF FileOK, PageOK, SharedOK, FreeOK
  <2>2. PICK i \in 1 .. f.max : SlotOK(own[i]) /\ HasNext(own[i]) /\ Following(own[i]) = own[j]
    BY <1>5, <2>1 DEF LongOK, PredOK
  <2>3. own[j].of = own[i].of /\ own[j].from > own[i].from
    BY <2>2, FollowingOK
  <2>4. i \in J /\ own[i].from \in Nat /\ own[j].from \in Nat
    BY <1>3, <2>2, <2>3 DEF SlotOK
  <2>. QED  BY <1>4, <2>3, <2>4
<1>. QED  BY <1>1, <1>2, <1>3, <1>5

(* A page is put in front of the free list.                                *)
LEMMA FreedPage ==
  ASSUME NEW f, NEW own, NEW nf, NEW hold, NEW w, FileOK(f, own, nf, hold, w),
         NEW n \in 1 .. f.max, ~ IsFree(own[n]), f.part[1] # n,
         \A pos \in DOMAIN hold : pos[1] # n,
         NEW g, g = ReleasePage(f, n),
         NEW own2, own2 = [own EXCEPT ![n] = FreeSlot(nf + 1)], NEW v,
         \A k \in 1 .. f.max : k # n /\ LongOK(f, own, hold, w, k) => LongOK(g, own2, hold, v, k),
         WorkOK(g, own2, hold, v)
  PROVE  FileOK(g, own2, nf + 1, hold, v)
<1>1. /\ f = [page |-> f.page, free |-> f.free, max |-> f.max, part |-> f.part]
      /\ f.max \in Nat \ {0} /\ DOMAIN f.page = 1 .. f.max /\ DOMAIN own = 1 .. f.max /\ DOMAIN own2 = 1 .. f.max
      /\ nf \in Nat /\ f.free \in Nat
  BY DEF FileOK, IsFile, FreeRootOK
<1>2. PICK q : q = [word |-> <<>>, data |-> <<>>, next |-> f.free]
  OBVIOUS
<1>3. q = [Empty EXCEPT !.next = f.free]
  BY <1>2 DEF Empty
<1>4. g = [page |-> [f.page EXCEPT ![n] = q], free |-> n, max |-> f.max, part |-> f.part]
  BY <1>1, <1>3 DEF ReleasePage
<1>5. /\ IsFile(g) /\ g.max = f.max /\ g.free = n /\ g.part = f.part /\ g.page[n] = q
      /\ \A k \in 1 .. f.max : k # n => g.page[k] = f.page[k]
  <2>1. /\ g.page = [f.page EXCEPT ![n] = q] /\ g.free = n /\ g.max = f.max /\ g.part = f.part
        /\ g = [page |-> g.page, free |-> g.free, max |-> g.max, part |-> g.part]
    BY <1>4
  <2>2. DOMAIN g.page = 1 .. g.max /\ g.page = [k \in 1 .. g.max |-> g.page[k]]
    BY <1>1, <2>1
  <2>3. g.page[n] = q /\ \A k \in 1 .. f.max : k # n => g.page[k] = f.page[k]
    BY <1>1, <2>1
  <2>. QED  BY <1>1, <2>1, <2>2, <2>3 DEF IsFile
<1>6. own2[n] = FreeSlot(nf + 1) /\ \A k \in 1 .. f.max : k # n => own2[k] = own[k]
  BY <1>1
<1>7. IsPage(q) /\ q.next = f.free
  BY <1>1, <1>2 DEF IsPage
<1>8. ASSUME NEW k \in 1 .. f.max, FreeOK(f, own, nf, k) PROVE FreeOK(g, own2, nf + 1, k) /\ k # n
  <2>1. k # n /\ own[k].i \in Nat /\ own[k].i <= nf
    BY <1>8 DEF FreeOK, IsFree
  <2>2. ASSUME own[k].i > 1
        PROVE  g.page[k].next \in 1 .. g.max /\ own2[g.page[k].next] = FreeSlot(own[k].i - 1)
    <3>1. f.page[k].next \in 1 .. f.max /\ own[f.page[k].next] = FreeSlot(own[k].i - 1)
      BY <1>8, <2>2 DEF FreeOK
    <3>2. f.page[k].next # n
      BY <3>1, <2>1, <2>2, Kinds
    <3>. QED  BY <3>1, <3>2, <2>1, <1>5, <1>6
  <2>. QED  BY <1>1, <1>5, <1>6, <1>8, <2>1, <2>2 DEF FreeOK
<1>9. FreeOK(g, own2, nf + 1, n)
  <2>0. IsFree(own2[n]) /\ own2[n].i = nf + 1
    BY <1>1, <1>6, Kinds
  <2>1. CASE nf = 0
    BY <2>0, <2>1, <1>5, <1>7 DEF FileOK, FreeRootOK, FreeOK
  <2>2. CASE nf # 0
    <3>1. f.free \in 1 .. f.max /\ own[f.free] = FreeSlot(nf)
      BY <2>2, <1>1 DEF FileOK, FreeRootOK
    <3>2. f.free # n
      BY <2>2, <3>1, <1>1, Kinds
    <3>. QED  BY <2>0, <2>2, <3>1, <3>2, <1>1, <1>5, <1>6, <1>7 DEF FreeOK
  <2>. QED  BY <2>1, <2>2
<1>10. ASSUME NEW k \in 1 .. f.max PROVE PageOK(g, own2, nf + 1, hold, v, k)
  <2>0. PageOK(f, own, nf, hold, w, k)
    BY DEF FileOK
  <2>1. CASE k = n
    BY <2>1, <1>5, <1>7, <1>9 DEF PageOK
  <2>2. CASE k # n /\ SharedOK(f, own, hold, k)
    <3>1. SharedOK(g, own2, hold, k)
      BY <2>2, <1>5, <1>6 DEF SharedOK
    <3>. QED  BY <2>0, <2>2, <3>1, <1>5 DEF PageOK
  <2>3. CASE FreeOK(f, own, nf, k)
    BY <2>0, <2>3, <1>5, <1>8 DEF PageOK
  <2>4. CASE k # n /\ LongOK(f, own, hold, w, k)
    BY <2>0, <2>4, <1>5 DEF PageOK
  <2>. QED  BY <2>0, <2>1, <2>2, <2>3, <2>4 DEF PageOK
<1>11. Distinct(own2)
  <2>1. ASSUME NEW k \in 1 .. f.max, k # n PROVE own2[k] # own2[n]
    <3>1. ASSUME IsFree(own[k]) PROVE own[k].i <= nf
      BY <3>1, Kinds DEF FileOK, PageOK, SharedOK, FreeOK, LongOK
    <3>2. ~ IsFree(own[k]) \/ own[k].i # nf + 1
      BY <1>1, <3>1 DEF IsFree
    <3>3. IsFree(own2[n]) /\ own2[n].i = nf + 1
      BY <1>1, <1>6, Kinds
    <3>. QED  BY <3>2, <3>3, <2>1, <1>6
  <2>2. ASSUME NEW k \in 1 .. f.max, NEW j \in 1 .. f.max, own2[k] = own2[j], own2[k] # SharedPage
        PROVE  k = j
    <3>1. CASE k # n /\ j # n
      BY <2>2, <3>1, <1>1, <1>6 DEF FileOK, Distinct
    <3>2. CASE k = n \/ j = n
      BY <2>1, <2>2, <3>2
    <3>. QED  BY <3>1, <3>2
  <2>. QED  BY <1>1, <2>2 DEF Distinct
<1>12. FreeRootOK(g, own2, nf + 1)
  BY <1>1, <1>5, <1>6 DEF FreeRootOK
<1>13. ASSUME NEW pos \in DOMAIN hold PROVE HoldOK(g, own2, hold, pos)
  <2>1. HoldOK(f, own, hold, pos) /\ pos[1] # n
    BY DEF FileOK
  <2>2. pos[1] \in 1 .. f.max /\ own2[pos[1]] = own[pos[1]] /\ g.page[pos[1]] = f.page[pos[1]]
    BY <2>1, <1>5, <1>6 DEF HoldOK
  <2>. QED  BY <2>1, <2>2, <1>5 DEF HoldOK, ShortOK
<1>14. PartOK(g, own2, g.part)
  <2>1. PartOK(f, own, f.part)
    BY DEF FileOK
  <2>2. f.part[1] \in 1 .. f.max /\ own2[f.part[1]] = own[f.part[1]] /\ g.page[f.part[1]] = f.page[f.part[1]]
    BY <2>1, <1>5, <1>6 DEF PartOK
  <2>. QED  BY <2>1, <2>2, <1>5 DEF PartOK
<1>. QED  BY <1>1, <1>5, <1>10, <1>11, <1>12, <1>13, <1>14 DEF FileOK

(* A page of the text that is deleted is released.                         *)
Released(f, own, w) ==
  IF HasNext(own[w.n]) THEN Work("release", w.of, f.page[w.n].next, w.t) ELSE NoWork

(* The page that is next to be released goes to the free list, and the     *)
(* rest of the text is released from the following one (ReleasePage).      *)
LEMMA ReleaseOneOK ==
  ASSUME NEW f, NEW own, NEW nf, NEW hold, NEW w, FileOK(f, own, nf, hold, w), w.do = "release"
  PROVE  \E own2 : /\ FileOK(ReleasePage(f, w.n), own2, nf + 1, hold, Released(f, own, w))
                   /\ DOMAIN own2 = DOMAIN own
                   /\ HasNext(own[w.n]) => /\ f.page[w.n].next \in 1 .. f.max /\ f.page[w.n].next # w.n
                                           /\ own2[f.page[w.n].next] = Following(own[w.n])
                                           /\ own[f.page[w.n].next] = Following(own[w.n])
<1>. DEFINE n == w.n
            s == own[n]
            next == f.page[n].next
            v == Released(f, own, w)
            g == ReleasePage(f, n)
<1>1. /\ w = Work(w.do, w.of, n, w.t) /\ w.of \in Nat \ {0} /\ <<w.of, 0>> \notin DOMAIN hold
      /\ n \in 1 .. f.max /\ SlotOK(s) /\ s.of = w.of
  BY DEF FileOK, WorkOK, NoWork, Work
<1>2. f.max \in Nat \ {0} /\ DOMAIN own = 1 .. f.max
  BY DEF FileOK, IsFile
<1>3. \A k \in 1 .. f.max : SlotOK(own[k]) => LongOK(f, own, hold, w, k)
  BY Kinds DEF FileOK, PageOK, SharedOK, FreeOK
<1>4. HasNext(s) => next \in 1 .. f.max /\ own[next] = Following(s) /\ next # n
  <2>. SUFFICES ASSUME HasNext(s) PROVE next \in 1 .. f.max /\ own[next] = Following(s) /\ next # n
    OBVIOUS
  <2>1. next \in 1 .. f.max /\ own[next] = Following(s)
    BY <1>1, <1>3 DEF LongOK, PieceOK
  <2>2. Following(s).from > s.from /\ s.from \in Nat
    BY <1>1, FollowingOK DEF SlotOK
  <2>. QED  BY <2>1, <2>2
<1>5. PICK own2 : own2 = [own EXCEPT ![n] = FreeSlot(nf + 1)]
  OBVIOUS
<1>6. own2[n] = FreeSlot(nf + 1) /\ \A k \in 1 .. f.max : k # n => own2[k] = own[k]
  BY <1>1, <1>2, <1>5
<1>7. f.part[1] # n
  BY <1>1, Kinds DEF FileOK, PartOK
<1>8. ASSUME NEW pos \in DOMAIN hold PROVE pos[1] # n
  <2>1. HoldOK(f, own, hold, pos)
    BY DEF FileOK
  <2>2. ASSUME pos[1] = n PROVE FALSE
    <3>1. hold[pos].len > MPageSize - 2
      BY <2>1, <2>2, <1>1, Kinds, Sizes DEF HoldOK, ShortOK
    <3>2. pos[2] = 0 /\ s = First(n, hold[pos]) /\ pos = <<n, 0>>
      BY <2>1, <2>2, <3>1 DEF HoldOK
    <3>3. s.of = n
      BY <3>2, SlotFields DEF First
    <3>. QED  BY <3>2, <3>3, <1>1
  <2>. QED  BY <2>2
<1>9. \A k \in 1 .. f.max : SlotOK(own[k]) /\ own[k].of = w.of => own[k].from >= s.from
  <2>. SUFFICES ASSUME NEW k \in 1 .. f.max, SlotOK(own[k]), own[k].of = w.of PROVE own[k].from >= s.from
    OBVIOUS
  <2>1. PICK j \in 1 .. f.max : own[j].from <= own[k].from /\ j = Root(w, own[k].of)
    BY RootFirst
  <2>2. j = n
    BY <2>1 DEF Root
  <2>. QED  BY <2>1, <2>2, <1>1 DEF SlotOK
<1>10. ~ HasNext(s) => \A k \in 1 .. f.max : k # n /\ SlotOK(own[k]) => own[k].of # w.of
  <2>. SUFFICES ASSUME ~ HasNext(s), NEW k \in 1 .. f.max, k # n, SlotOK(own[k]), own[k].of = w.of
                PROVE  FALSE
    OBVIOUS
  <2>. DEFINE J == {j \in 1 .. f.max : j # n /\ SlotOK(own[j]) /\ own[j].of = w.of}
              F == {own[j].from : j \in J}
  <2>1. F \subseteq Nat /\ F # {}
    BY DEF SlotOK
  <2>2. PICK a \in F : \A b \in F : a <= b
    <3>. HIDE DEF F
    <3>. QED  BY <2>1, SmallestNat
  <2>3. PICK j \in J : a = own[j].from
    OBVIOUS
  <2>4. \A i \in J : own[j].from <= own[i].from
    BY <2>2, <2>3
  <2>5. LongOK(f, own, hold, w, j) /\ j # Root(w, own[j].of)
    BY <2>3, <1>3 DEF Root
  <2>6. PICK i \in 1 .. f.max : SlotOK(own[i]) /\ HasNext(own[i]) /\ Following(own[i]) = own[j]
    BY <2>5 DEF LongOK, PredOK
  <2>7. own[j].of = own[i].of /\ own[j].from > own[i].from
    BY <2>6, FollowingOK
  <2>8. i \in J /\ own[i].from \in Nat /\ own[j].from \in Nat
    BY <2>3, <2>6, <2>7 DEF SlotOK
  <2>. QED  BY <2>4, <2>7, <2>8
<1>11. HasNext(s) => v.do = "release" /\ v.of = w.of /\ v.n = next /\ v.t = w.t /\ v = Work(v.do, v.of, v.n, v.t)
  BY DEF Released, Work
<1>12. ~ HasNext(s) => v = NoWork /\ v.do = "none" /\ v.of = 0
  BY DEF Released, NoWork, Work
<1>. HIDE DEF v
<1>13. g.max = f.max /\ \A k \in 1 .. f.max : k # n => g.page[k] = f.page[k]
  <2>1. /\ f = [page |-> f.page, free |-> f.free, max |-> f.max, part |-> f.part]
        /\ DOMAIN f.page = 1 .. f.max
    BY DEF FileOK, IsFile
  <2>2. g.page = [f.page EXCEPT ![n] = [Empty EXCEPT !.next = f.free]] /\ g.max = f.max
    BY <2>1 DEF ReleasePage
  <2>. QED  BY <2>1, <2>2
<1>. HIDE DEF g
<1>14. WorkOK(g, own2, hold, v)
  <2>1. CASE HasNext(s)
    <3>1. SlotOK(own2[next]) /\ own2[next].of = w.of
      BY <2>1, <1>1, <1>4, <1>6, FollowingOK
    <3>. QED  BY <2>1, <3>1, <1>1, <1>4, <1>11, <1>13 DEF WorkOK
  <2>2. CASE ~ HasNext(s)
    BY <2>2, <1>12 DEF WorkOK
  <2>. QED  BY <2>1, <2>2
<1>15. ASSUME NEW k \in 1 .. f.max, k # n, LongOK(f, own, hold, w, k) PROVE LongOK(g, own2, hold, v, k)
  <2>0. own2[k] = own[k] /\ g.page[k] = f.page[k] /\ SlotOK(own[k]) /\ own[k].of \in Nat \ {0}
    BY <1>6, <1>13, <1>15 DEF LongOK, SlotOK
  <2>1. HeadOK(g, own2, k)
    BY <2>0, <1>15 DEF LongOK, HeadOK
  <2>2. PieceOK(f, own, k)
    BY <1>15 DEF LongOK
  <2>3. ASSUME HasNext(own[k])
        PROVE  g.page[k].next \in 1 .. g.max /\ own2[g.page[k].next] = Following(own[k])
    <3>1. f.page[k].next \in 1 .. f.max /\ own[f.page[k].next] = Following(own[k])
      BY <2>2, <2>3 DEF PieceOK
    <3>2. f.page[k].next # n
      <4>1. ASSUME f.page[k].next = n PROVE FALSE
        <5>1. s.of = own[k].of /\ s.from > own[k].from
          BY <2>0, <2>3, <3>1, <4>1, FollowingOK
        <5>2. own[k].from >= s.from
          BY <5>1, <2>0, <1>1, <1>9
        <5>. QED  BY <5>1, <5>2, <2>0, <1>1 DEF SlotOK
      <4>. QED  BY <4>1
    <3>. QED  BY <3>1, <3>2, <2>0, <1>6, <1>13
  <2>4. PieceOK(g, own2, k)
    BY <2>0, <2>2, <2>3 DEF PieceOK
  <2>5. TextOK(own2, hold, v, k)
    <3>1. TextOK(own, hold, w, k)
      BY <1>15 DEF LongOK
    <3>2. CASE HasNext(s)
      BY <3>1, <3>2, <2>0, <1>11 DEF TextOK
    <3>3. CASE ~ HasNext(s)
      BY <3>1, <3>3, <2>0, <1>10, <1>12, <1>15 DEF TextOK
    <3>. QED  BY <3>2, <3>3
  <2>6. PredOK(g, own2, v, k)
    <3>1. ASSUME k # Root(v, own[k].of)
          PROVE  \E j \in 1 .. g.max : SlotOK(own2[j]) /\ HasNext(own2[j]) /\ Following(own2[j]) = own2[k]
      <4>1. k # Root(w, own[k].of)
        <5>1. CASE HasNext(s)
          BY <5>1, <3>1, <1>11, <1>15 DEF Root
        <5>2. CASE ~ HasNext(s)
          BY <5>2, <3>1, <2>0, <1>10, <1>12, <1>15 DEF Root
        <5>. QED  BY <5>1, <5>2
      <4>2. PICK j \in 1 .. f.max : SlotOK(own[j]) /\ HasNext(own[j]) /\ Following(own[j]) = own[k]
        BY <4>1, <1>15 DEF LongOK, PredOK
      <4>3. j # n
        <5>1. ASSUME j = n PROVE FALSE
          <6>1. own[k] = own[next] /\ own[k] # SharedPage /\ own[k].of = w.of
            BY <5>1, <4>2, <1>1, <1>4, <2>0, Kinds, FollowingOK
          <6>2. k = next
            BY <6>1, <5>1, <4>2, <1>2, <1>4 DEF FileOK, Distinct
          <6>3. k = Root(v, own[k].of)
            BY <6>1, <6>2, <5>1, <4>2, <1>11 DEF Root
          <6>. QED  BY <6>3, <3>1
        <5>. QED  BY <5>1
      <4>. QED  BY <4>2, <4>3, <2>0, <1>6, <1>13
    <3>. QED  BY <3>1, <2>0 DEF PredOK
  <2>7. v.do # "write"
    BY <1>11, <1>12
  <2>. QED  BY <2>0, <2>1, <2>4, <2>5, <2>6, <2>7 DEF LongOK
<1>16. FileOK(g, own2, nf + 1, hold, v)
  <2>1. ~ IsFree(own[n])
    BY <1>1, Kinds
  <2>2. g = ReleasePage(f, n)
    BY DEF g
  <2>. QED  BY <2>1, <2>2, <1>1, <1>5, <1>7, <1>8, <1>14, <1>15, FreedPage
<1>17. HasNext(s) => next \in 1 .. f.max /\ next # n /\ own2[next] = Following(s) /\ own[next] = Following(s)
  BY <1>4, <1>6
<1>18. DOMAIN own2 = DOMAIN own
  BY <1>5
<1>. QED  BY <1>16, <1>17, <1>18 DEF v, g

(* The texts without the one that is deleted.                              *)
Without(hold, pos) == [q \in DOMAIN hold \ {pos} |-> hold[q]]

(* The other texts are the same.                                           *)
LEMMA WithoutShape ==
  ASSUME NEW hold, NEW pos
  PROVE  /\ DOMAIN Without(hold, pos) = DOMAIN hold \ {pos}
         /\ \A q \in DOMAIN hold : q # pos => Without(hold, pos)[q] = hold[q]
BY DEF Without

(* What the length of a text says.                                         *)
LEMMA HeldWord ==
  ASSUME NEW f, NEW own, NEW nf, NEW hold, NEW w, FileOK(f, own, nf, hold, w), w.do # "write",
         NEW pos \in DOMAIN hold
  PROVE  LET t == hold[pos]
             n == pos[1]
             o == pos[2]
         IN  /\ pos = <<n, o>> /\ n \in 1 .. f.max /\ o \in Nat
             /\ t \in Texts /\ t.len \in Nat \ {0}
             /\ o \in DOMAIN f.page[n].word /\ f.page[n].word[o] = Head4(t.len) /\ Word(f, pos) = Head4(t.len)
             /\ t.len <= MPageSize - 2 => ShortOK(f, own, n, o, t) /\ Head4(t.len) = t.len
             /\ t.len > MPageSize - 2 => o = 0 /\ own[n] = First(n, t) /\ Head4(t.len) > MPageSize - 2
<1>. DEFINE t == hold[pos]
            n == pos[1]
            o == pos[2]
<1>1. HoldOK(f, own, hold, pos)
  BY DEF FileOK
<1>2. /\ pos = <<n, o>> /\ n \in 1 .. f.max /\ o \in Nat /\ t \in Texts /\ t.len \in Nat \ {0}
  BY <1>1, Sizes DEF HoldOK
<1>3. /\ t.len <= MPageSize - 2 => ShortOK(f, own, n, o, t)
      /\ t.len > MPageSize - 2 => o = 0 /\ own[n] = First(n, t)
  BY <1>1 DEF HoldOK
<1>4. /\ t.len <= MPageSize - 2 => Head4(t.len) = t.len
      /\ t.len > MPageSize - 2 => Head4(t.len) > MPageSize - 2
  BY <1>2, Sizes DEF Head4
<1>5. o \in DOMAIN f.page[n].word /\ f.page[n].word[o] = Head4(t.len)
  <2>1. CASE t.len <= MPageSize - 2
    BY <2>1, <1>3, <1>4 DEF ShortOK
  <2>2. CASE t.len > MPageSize - 2
    <3>1. /\ SlotOK(own[n]) /\ own[n].o = 2 /\ SlotWord(own[n]) = Head4(t.len)
      <4>1. n \in Nat \ {0} /\ t.len >= MPageSize - 2
        BY <2>2, <1>2, Sizes DEF FileOK, IsFile
      <4>. QED  BY <4>1, <2>2, <1>2, <1>3, FirstOK
    <3>2. LongOK(f, own, hold, w, n)
      BY <3>1, <1>2, Kinds DEF FileOK, PageOK, SharedOK, FreeOK
    <3>. QED  BY <2>2, <3>1, <3>2, <1>3 DEF LongOK, HeadOK
  <2>. QED  BY <2>1, <2>2, <1>2, Sizes
<1>6. Word(f, pos) = Head4(t.len)
  <2>1. n \in DOMAIN f.page
    BY <1>2 DEF FileOK, IsFile
  <2>. QED  BY <2>1, <1>5 DEF Word, PageAt
<1>. QED  BY <1>2, <1>3, <1>4, <1>5, <1>6

(* A text of a page or more begins to be released.  One of just a page was *)
(* stored as a short one.                                                  *)
LEMMA StartReleaseOK ==
  ASSUME NEW f, NEW own, NEW nf, NEW hold, FileOK(f, own, nf, hold, NoWork),
         NEW pos \in DOMAIN hold, hold[pos].len >= MPageSize - 2
  PROVE  LET n == pos[1]
         IN  /\ \E own2 : /\ FileOK(f, own2, nf, Without(hold, pos), Work("release", n, n, hold[pos]))
                          /\ own2[n] = First(n, hold[pos])
             /\ n \in 1 .. f.max /\ pos[2] = 0
<1>. DEFINE n == pos[1]
            t == hold[pos]
            h == Without(hold, pos)
            v == Work("release", n, n, t)
<1>0. /\ f.max \in Nat \ {0} /\ DOMAIN own = 1 .. f.max /\ IsFile(f)
      /\ NoWork.do = "none" /\ NoWork.of = 0 /\ NoWork.n = 0
      /\ FreeRootOK(f, own, nf) /\ PartOK(f, own, f.part) /\ Distinct(own)
      /\ \A q \in DOMAIN hold : HoldOK(f, own, hold, q)
      /\ \A k \in 1 .. f.max : PageOK(f, own, nf, hold, NoWork, k)
  BY DEF FileOK, IsFile, NoWork, Work
<1>1. /\ pos = <<n, pos[2]>> /\ n \in 1 .. f.max /\ pos[2] \in Nat /\ n \in Nat \ {0}
      /\ t \in Texts /\ t.len \in Nat \ {0}
      /\ t.len <= MPageSize - 2 => ShortOK(f, own, n, pos[2], t) /\ Head4(t.len) = t.len
      /\ t.len > MPageSize - 2 => pos[2] = 0 /\ own[n] = First(n, t)
  BY <1>0, HeldWord
<1>2. /\ SlotOK(First(n, t)) /\ First(n, t).of = n /\ First(n, t).t = t
      /\ First(n, t).o = 2 /\ First(n, t).from = 0 /\ SlotWord(First(n, t)) = Head4(t.len)
      /\ First(n, t).left = Bytes(Head4(t.len)) /\ First(n, t).full = Full(Head4(t.len))
  BY <1>1, FirstOK
<1>3. v.do = "release" /\ v.of = n /\ v.n = n /\ v.t = t /\ v = Work(v.do, v.of, v.n, v.t)
  BY DEF Work
<1>4. /\ DOMAIN h = DOMAIN hold \ {pos} /\ \A q \in DOMAIN h : h[q] = hold[q]
  BY WithoutShape
<1>. HIDE DEF v, h
<1>5. CASE t.len > MPageSize - 2
  <2>1. pos = <<n, 0>> /\ own[n] = First(n, t)
    BY <1>1, <1>5
  <2>2. ASSUME NEW k \in 1 .. f.max, LongOK(f, own, hold, NoWork, k) PROVE LongOK(f, own, h, v, k)
    <3>0. SlotOK(own[k]) /\ own[k].of \in Nat \ {0}
      BY <2>2 DEF LongOK, SlotOK
    <3>1. /\ <<own[k].of, 0>> \in DOMAIN hold /\ hold[<<own[k].of, 0>>] = own[k].t
          /\ own[k].t.len > MPageSize - 2
      BY <2>2, <3>0, <1>0 DEF LongOK, TextOK
    <3>2. TextOK(own, h, v, k)
      <4>1. CASE own[k].of = n
        <5>1. own[k].t = t
          BY <4>1, <3>1, <2>1
        <5>. QED  BY <4>1, <5>1, <1>3 DEF TextOK
      <4>2. CASE own[k].of # n
        <5>1. <<own[k].of, 0>> # pos
          BY <4>2, <2>1
        <5>2. <<own[k].of, 0>> \in DOMAIN h /\ h[<<own[k].of, 0>>] = own[k].t
          BY <5>1, <3>1, <1>4
        <5>. QED  BY <4>2, <5>2, <3>1, <1>3 DEF TextOK
      <4>. QED  BY <4>1, <4>2
    <3>3. PredOK(f, own, v, k)
      BY <2>2, <1>0, <1>3 DEF LongOK, PredOK, Root
    <3>. QED  BY <2>2, <3>2, <3>3, <1>0, <1>3 DEF LongOK
  <2>3. ASSUME NEW k \in 1 .. f.max PROVE PageOK(f, own, nf, h, v, k)
    <3>1. ASSUME SharedOK(f, own, hold, k) PROVE SharedOK(f, own, h, k)
      <4>1. k # n
        BY <3>1, <2>1, <1>2, Kinds DEF SharedOK
      <4>2. \A o : <<k, o>> # pos
        BY <4>1, <2>1
      <4>. QED  BY <3>1, <4>2, <1>4 DEF SharedOK
    <3>. QED  BY <3>1, <2>2, <1>0 DEF PageOK
  <2>4. \A q \in DOMAIN h : HoldOK(f, own, h, q)
    BY <1>0, <1>4 DEF HoldOK
  <2>5. WorkOK(f, own, h, v)
    <3>1. <<n, 0>> \notin DOMAIN h
      BY <2>1, <1>4
    <3>. QED  BY <3>1, <2>1, <1>1, <1>2, <1>3 DEF WorkOK
  <2>6. FileOK(f, own, nf, h, v)
    BY <2>3, <2>4, <2>5, <1>0 DEF FileOK
  <2>. QED  BY <2>1, <2>6, <1>1 DEF h, v
<1>6. CASE ~ (t.len > MPageSize - 2)
  <2>. DEFINE o == pos[2]
              p == f.page[n]
  <2>0. t.len = MPageSize - 2 /\ ShortOK(f, own, n, o, t) /\ Head4(t.len) = t.len
    BY <1>1, <1>6, Sizes
  <2>1. /\ own[n] = SharedPage /\ o \in DOMAIN p.word /\ p.word[o] = t.len
        /\ o + 2 \in DOMAIN p.data /\ p.data[o + 2] = Piece(t, 0, t.len)
    BY <2>0 DEF ShortOK
  <2>2. IsPage(p) /\ FragmentsOK(p)
    <3>1. PageOK(f, own, nf, hold, NoWork, n)
      BY <1>0, <1>1
    <3>. QED  BY <3>1, <2>1, Kinds DEF PageOK, SharedOK, FreeOK, LongOK
  <2>3. o = 0 /\ DOMAIN p.word = {0}
    <3>1. DOMAIN p.word \subseteq 0 .. MPageSize - 3 /\ Tiled(p.word)
      BY <2>2 DEF FragmentsOK
    <3>2. End(p.word, o) = o + MPageSize
      BY <2>0, <2>1, <1>1, Sizes DEF End
    <3>3. o + MPageSize \in DOMAIN p.word \cup (MPageSize - 2 .. MPageSize)
          /\ \A k \in DOMAIN p.word : k <= o \/ k >= o + MPageSize
      BY <3>1, <3>2, <2>1 DEF Tiled
    <3>4. o = 0
      BY <3>1, <3>3, <1>1, Sizes
    <3>. QED  BY <3>1, <3>3, <3>4, <2>1, Sizes
  <2>4. f.part[1] # n
    <3>1. ASSUME f.part[1] = n PROVE FALSE
      <4>1. Between(p.word, f.part[2]) /\ Behind(p, f.part[2]) /\ f.part[2] \in Nat
        BY <3>1, <1>0 DEF PartOK
      <4>2. End(p.word, 0) = MPageSize
        BY <2>0, <2>1, <2>3, Sizes DEF End
      <4>3. f.part[2] = 0
        BY <4>1, <4>2, <2>3, Sizes DEF Between
      <4>. QED  BY <4>1, <4>3, <2>0, <2>1, <2>3, Sizes DEF Behind
    <3>. QED  BY <3>1
  <2>5. PICK own2 : own2 = [own EXCEPT ![n] = First(n, t)]
    OBVIOUS
  <2>6. DOMAIN own2 = 1 .. f.max /\ own2[n] = First(n, t) /\ \A k \in 1 .. f.max : k # n => own2[k] = own[k]
    BY <2>5, <1>0, <1>1
  <2>7. pos = <<n, 0>> /\ <<n, 0>> \notin DOMAIN h
    BY <2>3, <1>1, <1>4
  <2>8. ASSUME NEW q \in DOMAIN h PROVE q[1] # n /\ HoldOK(f, own, hold, q) /\ h[q] = hold[q]
    <3>1. HoldOK(f, own, hold, q) /\ h[q] = hold[q] /\ q # pos /\ q \in DOMAIN hold
      BY <1>0, <1>4
    <3>2. ASSUME q[1] = n PROVE FALSE
      <4>1. hold[q].len <= MPageSize - 2
        BY <3>1, <3>2, <2>1, Sizes DEF HoldOK, First, Slot, SharedPage
      <4>2. ShortOK(f, own, n, q[2], hold[q]) /\ q = <<n, q[2]>>
        BY <3>1, <3>2, <4>1 DEF HoldOK
      <4>3. q = <<n, 0>>
        BY <4>2, <2>3 DEF ShortOK
      <4>. QED  BY <4>3, <3>1, <2>7
    <3>. QED  BY <3>1, <3>2
  <2>9. ASSUME NEW k \in 1 .. f.max, SlotOK(own[k])
        PROVE  /\ LongOK(f, own, hold, NoWork, k) /\ own[k].of # n /\ k # n
               /\ <<own[k].of, 0>> \in DOMAIN h /\ h[<<own[k].of, 0>>] = own[k].t
               /\ own[k].t.len > MPageSize - 2
    <3>1. LongOK(f, own, hold, NoWork, k) /\ k # n
      BY <2>9, <2>1, <1>0, Kinds DEF PageOK, SharedOK, FreeOK
    <3>2. own[k].of \in Nat \ {0}
      BY <2>9 DEF SlotOK
    <3>3. /\ <<own[k].of, 0>> \in DOMAIN hold /\ hold[<<own[k].of, 0>>] = own[k].t
          /\ own[k].t.len > MPageSize - 2
      BY <3>1, <3>2, <1>0 DEF LongOK, TextOK
    <3>4. own[k].of # n
      BY <3>3, <2>0, <2>7, Sizes
    <3>5. <<own[k].of, 0>> # pos
      BY <3>4, <2>7
    <3>. QED  BY <3>1, <3>3, <3>4, <3>5, <1>4
  <2>10. ASSUME NEW k \in 1 .. f.max PROVE PageOK(f, own2, nf, h, v, k)
    <3>1. CASE k = n
      <4>. DEFINE s == First(n, t)
      <4>0. /\ s.left = t.len /\ ~ s.full
        <5>1. ~ Full(Head4(t.len))
          BY <2>0, Sizes DEF Full
        <5>2. Bytes(Head4(t.len)) = t.len
          BY <2>0, <5>1 DEF Bytes
        <5>. HIDE DEF s
        <5>3. s.left = Bytes(Head4(t.len)) /\ s.full = Full(Head4(t.len))
          BY <1>2 DEF s
        <5>. QED  BY <5>1, <5>2, <5>3
      <4>1. HeadOK(f, own2, k)
        BY <3>1, <2>0, <2>1, <2>3, <2>6, <1>2 DEF HeadOK
      <4>2. Here(s) = t.len /\ ~ HasNext(s)
        <5>1. ~ (s.left > MPageSize - s.o)
          BY <4>0, <2>0, <1>2, Sizes
        <5>. QED  BY <4>0, <5>1 DEF Here, HasNext
      <4>3. PieceOK(f, own2, k)
        BY <3>1, <4>2, <2>1, <2>3, <2>6, <1>2 DEF PieceOK
      <4>4. TextOK(own2, h, v, k) /\ PredOK(f, own2, v, k)
        BY <3>1, <2>6, <1>2, <1>3 DEF TextOK, PredOK, Root
      <4>5. LongOK(f, own2, h, v, k)
        BY <3>1, <4>1, <4>3, <4>4, <2>6, <1>2, <1>3 DEF LongOK
      <4>. QED  BY <3>1, <4>5, <2>2 DEF PageOK
    <3>2. CASE k # n /\ SharedOK(f, own, hold, k)
      <4>1. \A o2 : <<k, o2>> # pos
        BY <3>2, <2>7
      <4>2. SharedOK(f, own2, h, k)
        BY <3>2, <4>1, <2>6, <1>4 DEF SharedOK
      <4>. QED  BY <4>2, <1>0 DEF PageOK
    <3>3. CASE FreeOK(f, own, nf, k)
      <4>0. k # n
        BY <3>3, <2>1, Kinds DEF FreeOK
      <4>1. ASSUME own[k].i > 1 PROVE own2[f.page[k].next] = FreeSlot(own[k].i - 1)
        <5>1. f.page[k].next \in 1 .. f.max /\ own[f.page[k].next] = FreeSlot(own[k].i - 1)
          BY <3>3, <4>1 DEF FreeOK
        <5>. QED  BY <5>1, <2>1, <2>6, Kinds
      <4>2. FreeOK(f, own2, nf, k)
        BY <3>3, <4>0, <4>1, <2>6 DEF FreeOK
      <4>. QED  BY <4>2, <1>0 DEF PageOK
    <3>4. CASE LongOK(f, own, hold, NoWork, k)
      <4>0. SlotOK(own[k]) /\ own2[k] = own[k]
        BY <3>4, <2>6, <2>9 DEF LongOK
      <4>1. HeadOK(f, own2, k)
        BY <3>4, <4>0 DEF LongOK, HeadOK
      <4>2. PieceOK(f, own2, k)
        <5>0. PieceOK(f, own, k)
          BY <3>4, <1>0 DEF LongOK
        <5>1. ASSUME HasNext(own[k]) PROVE own2[f.page[k].next] = Following(own[k])
          <6>1. f.page[k].next \in 1 .. f.max /\ own[f.page[k].next] = Following(own[k])
            BY <5>0, <5>1 DEF PieceOK
          <6>2. SlotOK(own[f.page[k].next])
            BY <6>1, <4>0, <5>1, FollowingOK
          <6>. QED  BY <6>1, <6>2, <2>6, <2>9
        <5>. QED  BY <4>0, <5>0, <5>1 DEF PieceOK
      <4>3. TextOK(own2, h, v, k)
        BY <4>0, <2>9, <1>3 DEF TextOK
      <4>4. PredOK(f, own2, v, k)
        <5>1. ASSUME k # Root(v, own[k].of)
              PROVE  \E j \in 1 .. f.max : SlotOK(own2[j]) /\ HasNext(own2[j]) /\ Following(own2[j]) = own2[k]
          <6>1. k # Root(NoWork, own[k].of)
            BY <5>1, <4>0, <2>9, <1>0, <1>3 DEF Root
          <6>2. PICK j \in 1 .. f.max : SlotOK(own[j]) /\ HasNext(own[j]) /\ Following(own[j]) = own[k]
            BY <3>4, <6>1 DEF LongOK, PredOK
          <6>3. own2[j] = own[j]
            BY <6>2, <2>6, <2>9
          <6>. QED  BY <4>0, <6>2, <6>3
        <5>. QED  BY <4>0, <5>1 DEF PredOK
      <4>5. LongOK(f, own2, h, v, k)
        BY <4>0, <4>1, <4>2, <4>3, <4>4, <1>3 DEF LongOK
      <4>. QED  BY <4>5, <1>0 DEF PageOK
    <3>. QED  BY <3>1, <3>2, <3>3, <3>4, <1>0 DEF PageOK
  <2>11. Distinct(own2)
    <3>1. ASSUME NEW k \in 1 .. f.max, k # n, own2[k] = own2[n] PROVE FALSE
      <4>1. own[k] = First(n, t)
        BY <3>1, <2>6
      <4>2. SlotOK(own[k]) /\ own[k].of = n
        BY ONLY <4>1, <1>2
      <4>. QED  BY <4>2, <2>9
    <3>2. ASSUME NEW k \in 1 .. f.max, NEW j \in 1 .. f.max, own2[k] = own2[j], own2[k] # SharedPage
          PROVE  k = j
      <4>1. CASE k # n /\ j # n
        BY <3>2, <4>1, <2>6, <1>0 DEF Distinct
      <4>2. CASE k = n \/ j = n
        BY <3>1, <3>2, <4>2
      <4>. QED  BY <4>1, <4>2
    <3>. QED  BY <3>2, <2>6 DEF Distinct
  <2>12. FreeRootOK(f, own2, nf)
    <3>1. nf > 0 => f.free # n
      BY <2>1, <1>0, Kinds DEF FreeRootOK
    <3>. QED  BY <3>1, <2>6, <1>0 DEF FreeRootOK
  <2>13. ASSUME NEW q \in DOMAIN h PROVE HoldOK(f, own2, h, q)
    <3>1. own2[q[1]] = own[q[1]]
      BY <2>6, <2>8 DEF HoldOK
    <3>. QED  BY <3>1, <2>8 DEF HoldOK, ShortOK
  <2>14. PartOK(f, own2, f.part)
    BY <2>4, <2>6, <1>0 DEF PartOK
  <2>15. WorkOK(f, own2, h, v)
    BY <2>6, <2>7, <1>1, <1>2, <1>3 DEF WorkOK
  <2>16. FileOK(f, own2, nf, h, v)
    BY <2>6, <2>10, <2>11, <2>12, <2>13, <2>14, <2>15, <1>0 DEF FileOK
  <2>. QED  BY <2>3, <2>6, <2>16, <1>1 DEF h, v
<1>. QED  BY <1>5, <1>6

(* A short text becomes a free fragment.                                   *)
LEMMA FreeTextOK ==
  ASSUME NEW f, NEW own, NEW nf, NEW hold, FileOK(f, own, nf, hold, NoWork),
         NEW pos \in DOMAIN hold, hold[pos].len < MPageSize - 2
  PROVE  LET n == pos[1]
             g == Edited(f, n, FreeText(f.page[n], pos[2]))
         IN  /\ FileOK(g, own, nf, Without(hold, pos), NoWork)
             /\ n \in 1 .. f.max /\ own[n] = SharedPage /\ 0 \in DOMAIN g.page[n].word
<1>. DEFINE n == pos[1]
            o == pos[2]
            t == hold[pos]
            p == f.page[n]
            w == p.word
            h == Without(hold, pos)
<1>1. /\ pos = <<n, o>> /\ n \in 1 .. f.max /\ o \in Nat /\ t.len \in Nat \ {0} /\ ShortOK(f, own, n, o, t)
  <2>1. NoWork.do # "write"
    BY DEF NoWork, Work
  <2>. QED  BY <2>1, HeldWord, Sizes
<1>2. own[n] = SharedPage /\ o \in DOMAIN w /\ w[o] = t.len
  BY <1>1 DEF ShortOK
<1>3. SharedOK(f, own, hold, n) /\ IsPage(p) /\ PartOK(f, own, f.part) /\ IsFile(f)
  <2>1. PageOK(f, own, nf, hold, NoWork, n)
    BY <1>1 DEF FileOK
  <2>. QED  BY <2>1, <1>2, Kinds DEF FileOK, PageOK, FreeOK, LongOK
<1>4. /\ DOMAIN w \subseteq 0 .. MPageSize - 3 /\ Tiled(w) /\ p.next \in Nat
      /\ \A k \in DOMAIN w : w[k] \in Int
      /\ \A k \in DOMAIN p.data : k \in Int /\ k - 2 \in DOMAIN w /\ w[k - 2] > 0
  BY <1>3 DEF SharedOK, FragmentsOK, IsPage
<1>5. PICK x : x = [w EXCEPT ![o] = - @]
  OBVIOUS
<1>6. PICK d : d = [k \in DOMAIN p.data \ {o + 2} |-> p.data[k]]
  OBVIOUS
<1>7. PICK q : q = [word |-> x, data |-> d, next |-> p.next]
  OBVIOUS
<1>8. q = FreeText(p, o) /\ q.word = x /\ q.data = d /\ q.next = p.next
  BY <1>5, <1>6, <1>7 DEF FreeText
<1>9. DOMAIN x = DOMAIN w /\ x[o] = - t.len /\ \A k \in DOMAIN w : k # o => x[k] = w[k]
  BY <1>2, <1>5
<1>10. \A k \in DOMAIN w : x[k] \in Int /\ End(x, k) = End(w, k) /\ (x[k] > 0 => k # o /\ w[k] > 0)
  <2>. TAKE k \in DOMAIN w
  <2>1. CASE k = o
    BY <2>1, <1>1, <1>2, <1>9 DEF End
  <2>2. CASE k # o
    BY <2>2, <1>4, <1>9 DEF End
  <2>. QED  BY <2>1, <2>2
<1>11. IsPage(q) /\ FragmentsOK(q)
  <2>1. IsPage(q)
    BY <1>4, <1>7, <1>8, <1>9, <1>10 DEF IsPage
  <2>2. Tiled(x)
    BY <1>4, <1>9, <1>10 DEF Tiled
  <2>3. ASSUME NEW k \in DOMAIN d PROVE k \in Int /\ k - 2 \in DOMAIN x /\ x[k - 2] > 0
    <3>1. k \in DOMAIN p.data /\ k # o + 2
      BY <1>6
    <3>. QED  BY <3>1, <1>1, <1>4, <1>9
  <2>. QED  BY <2>1, <2>2, <2>3, <1>4, <1>8, <1>9 DEF FragmentsOK
<1>12. PICK g : g = Edited(f, n, q)
  OBVIOUS
<1>13. g.page[n] = q /\ g.max = f.max
  BY <1>1, <1>3, <1>12, EditedShape
<1>14. DOMAIN h = DOMAIN hold \ {pos} /\ \A r \in DOMAIN h : h[r] = hold[r]
  BY WithoutShape
<1>. HIDE DEF h
<1>15. \A k \in DOMAIN x : x[k] > 0 => <<n, k>> \in DOMAIN h
  <2>. SUFFICES ASSUME NEW k \in DOMAIN x, x[k] > 0 PROVE <<n, k>> \in DOMAIN h
    OBVIOUS
  <2>1. k # o /\ w[k] > 0 /\ k \in DOMAIN w
    BY <1>9, <1>10
  <2>2. <<n, k>> # pos /\ <<n, k>> \in DOMAIN hold
    BY <2>1, <1>1, <1>3 DEF SharedOK
  <2>. QED  BY <2>2, <1>14
<1>16. ASSUME NEW r \in DOMAIN h, r[1] = n PROVE HoldOK(g, own, h, r)
  <2>1. r \in DOMAIN hold /\ r # pos /\ h[r] = hold[r] /\ HoldOK(f, own, hold, r)
    BY <1>14 DEF FileOK
  <2>2. r = <<n, r[2]>> /\ r[2] # o /\ r[2] \in Nat
    BY <2>1, <1>1, <1>16 DEF HoldOK
  <2>3. hold[r].len <= MPageSize - 2
    BY <2>1, <1>2, <1>16, Sizes DEF HoldOK, First, Slot, SharedPage
  <2>4. ShortOK(f, own, n, r[2], hold[r])
    BY <2>1, <2>3, <1>16 DEF HoldOK
  <2>5. ShortOK(g, own, n, r[2], hold[r])
    <3>1. r[2] + 2 \in DOMAIN d /\ d[r[2] + 2] = p.data[r[2] + 2]
      BY <2>2, <2>4, <1>1, <1>6 DEF ShortOK
    <3>. QED  BY <3>1, <2>2, <2>4, <1>8, <1>9, <1>13 DEF ShortOK
  <2>. QED  BY <2>1, <2>3, <2>5, <1>13, <1>16, Sizes DEF HoldOK
<1>17. PartOK(g, own, f.part)
  <2>1. CASE f.part[1] = n
    <3>1. Between(w, f.part[2]) /\ Behind(p, f.part[2]) /\ f.part[2] \in Nat
      BY <2>1, <1>3 DEF PartOK
    <3>2. Between(x, f.part[2])
      BY <3>1, <1>9, <1>10 DEF Between
    <3>3. Behind(q, f.part[2])
      BY <3>1, <1>8, <1>9, <1>10 DEF Behind
    <3>. QED  BY <2>1, <3>2, <3>3, <1>3, <1>8, <1>13 DEF PartOK
  <2>2. CASE f.part[1] # n
    <3>1. f.part[1] \in 1 .. f.max
      BY <1>3 DEF PartOK
    <3>2. g.page[f.part[1]] = f.page[f.part[1]]
      BY <2>2, <3>1, <1>1, <1>3, <1>12, EditedShape
    <3>. QED  BY <3>2, <1>3, <1>13 DEF PartOK
  <2>. QED  BY <2>1, <2>2
<1>18. FileOK(g, own, nf, h, NoWork)
  <2>1. g = [page |-> [f.page EXCEPT ![n] = q], free |-> f.free, max |-> f.max, part |-> f.part]
    BY <1>12 DEF Edited
  <2>2. NoWork.do # "release"
    BY DEF NoWork, Work
  <2>3. \A r \in DOMAIN hold : r[1] # n => r \in DOMAIN h /\ h[r] = hold[r]
    BY <1>14
  <2>4. \A r \in DOMAIN h : r \in DOMAIN hold /\ h[r] = hold[r]
    BY <1>14
  <2>. QED  BY <2>1, <2>2, <2>3, <2>4, <1>1, <1>2, <1>8, <1>11, <1>15, <1>16, <1>17, SharedChange
<1>19. 0 \in DOMAIN x
  BY <1>2, <1>4, <1>9 DEF Tiled
<1>. QED  BY <1>1, <1>2, <1>8, <1>12, <1>13, <1>18, <1>19 DEF h

(* The walk over a page of short texts stands at a fragment, or where the  *)
(* last one ends.                                                          *)
Walking(w, p) == 0 \in DOMAIN w /\ (p \in DOMAIN w \/ \E k \in DOMAIN w : End(w, k) = p)

(* The lengths of a page when the free fragment at next becomes part of    *)
(* the one at p.                                                           *)
Joined(w, p, next) == [o \in DOMAIN w \ {next} |-> IF o = p THEN w[p] + w[next] - 2 ELSE w[o]]

(* Two free fragments become one.                                          *)
LEMMA JoinOK ==
  ASSUME NEW f, NEW own, NEW nf, NEW hold, FileOK(f, own, nf, hold, NoWork),
         NEW n \in 1 .. f.max, own[n] = SharedPage,
         NEW p \in DOMAIN f.page[n].word, f.page[n].word[p] <= 0,
         NEW next \in DOMAIN f.page[n].word, next = p - f.page[n].word[p] + 2,
         f.page[n].word[next] <= 0, <<n, next>> # f.part, NEW x, x = Joined(f.page[n].word, p, next)
  PROVE  LET g == Edited(f, n, Paged(x, f.page[n].data, f.page[n].next))
         IN  FileOK(g, own, nf, hold, NoWork) /\ p \in DOMAIN x /\ (0 \in DOMAIN f.page[n].word => 0 \in DOMAIN x)
<1>. DEFINE r == f.page[n]
            w == r.word
<1>1. SharedOK(f, own, hold, n) /\ IsPage(r) /\ PartOK(f, own, f.part) /\ IsFile(f)
  <2>1. PageOK(f, own, nf, hold, NoWork, n)
    BY DEF FileOK
  <2>. QED  BY <2>1, Kinds DEF FileOK, PageOK, FreeOK, LongOK
<1>2. /\ DOMAIN w \subseteq 0 .. MPageSize - 3 /\ Tiled(w) /\ r.next \in Nat
      /\ \A k \in DOMAIN w : w[k] \in Int
      /\ \A k \in DOMAIN r.data : k \in Int /\ k - 2 \in DOMAIN w /\ w[k - 2] > 0
  BY <1>1 DEF SharedOK, FragmentsOK, IsPage
<1>3. p \in Nat /\ next \in Nat /\ next > p /\ End(w, p) = next
  BY <1>2, Sizes DEF End
<1>4. /\ DOMAIN x = DOMAIN w \ {next} /\ x[p] = w[p] + w[next] - 2
      /\ \A k \in DOMAIN x : k # p => x[k] = w[k]
  <2>1. x = [o \in DOMAIN w \ {next} |-> IF o = p THEN w[p] + w[next] - 2 ELSE w[o]]
    BY DEF Joined
  <2>2. p \in DOMAIN w \ {next}
    BY <1>3
  <2>. HIDE DEF w
  <2>. QED  BY ONLY <2>1, <2>2
<1>5. End(x, p) = End(w, next) /\ x[p] < 0 /\ x[p] \in Int
  BY <1>2, <1>3, <1>4 DEF End
<1>6. \A k \in DOMAIN w : k # p /\ k # next => x[k] = w[k] /\ End(x, k) = End(w, k) /\ k \in DOMAIN x
  BY <1>4 DEF End
<1>7. \A k \in DOMAIN w : End(w, k) \in Int /\ End(w, k) > k
  BY <1>2 DEF End
<1>8. \A k \in DOMAIN w : k # p => End(w, k) # next
  <2>. SUFFICES ASSUME NEW k \in DOMAIN w, k # p, End(w, k) = next PROVE FALSE
    OBVIOUS
  <2>1. (p <= k \/ p >= End(w, k)) /\ (k <= p \/ k >= End(w, p))
    BY <1>2 DEF Tiled
  <2>. QED  BY <2>1, <1>2, <1>3, <1>7
<1>9. Tiled(x)
  <2>1. DOMAIN x # {} => 0 \in DOMAIN x
    BY <1>2, <1>3, <1>4 DEF Tiled
  <2>2. ASSUME NEW k \in DOMAIN x
        PROVE  /\ End(x, k) \in DOMAIN x \cup (MPageSize - 2 .. MPageSize)
               /\ \A j \in DOMAIN x : j <= k \/ j >= End(x, k)
    <3>1. CASE k = p
      <4>1. /\ End(w, next) \in DOMAIN w \cup (MPageSize - 2 .. MPageSize)
            /\ \A j \in DOMAIN w : j <= next \/ j >= End(w, next)
            /\ \A j \in DOMAIN w : j <= p \/ j >= next
        BY <1>2, <1>3 DEF Tiled
      <4>2. End(w, next) # next
        BY <1>3, <1>7
      <4>3. End(x, p) \in DOMAIN x \cup (MPageSize - 2 .. MPageSize)
        BY <4>1, <4>2, <1>4, <1>5
      <4>4. ASSUME NEW j \in DOMAIN x PROVE j <= p \/ j >= End(x, p)
        <5>1. j \in DOMAIN w /\ j # next /\ j \in Int
          BY <1>2, <1>4
        <5>2. j <= p \/ j >= next
          BY <4>1, <5>1
        <5>3. j <= next \/ j >= End(x, p)
          BY <4>1, <5>1, <1>5
        <5>. QED  BY ONLY <5>1, <5>2, <5>3, <1>3
      <4>. QED  BY <3>1, <4>3, <4>4
    <3>2. CASE k # p
      <4>1. k \in DOMAIN w /\ k # next /\ End(x, k) = End(w, k) /\ End(w, k) # next
        BY <3>2, <1>4, <1>6, <1>8
      <4>2. /\ End(w, k) \in DOMAIN w \cup (MPageSize - 2 .. MPageSize)
            /\ \A j \in DOMAIN w : j <= k \/ j >= End(w, k)
        BY <4>1, <1>2 DEF Tiled
      <4>. QED  BY <4>1, <4>2, <1>4
    <3>. QED  BY <3>1, <3>2
  <2>. QED  BY <2>1, <2>2 DEF Tiled
<1>10. PICK q : q = [word |-> x, data |-> r.data, next |-> r.next]
  OBVIOUS
<1>11. q.word = x /\ q.data = r.data /\ q.next = r.next
  BY <1>10
<1>12. \A k \in DOMAIN x : x[k] \in Int
  BY <1>2, <1>4, <1>5
<1>13. IsPage(q) /\ FragmentsOK(q)
  <2>1. IsPage(q)
    BY <1>2, <1>10, <1>11, <1>12 DEF IsPage
  <2>2. ASSUME NEW k \in DOMAIN r.data PROVE k \in Int /\ k - 2 \in DOMAIN x /\ x[k - 2] > 0
    <3>1. k \in Int /\ k - 2 \in DOMAIN w /\ w[k - 2] > 0
      BY <1>2
    <3>2. k - 2 # p /\ k - 2 # next
      BY <3>1, <1>2
    <3>. QED  BY <3>1, <3>2, <1>6
  <2>. QED  BY <2>1, <2>2, <1>2, <1>4, <1>9, <1>11 DEF FragmentsOK
<1>14. PICK g : g = Edited(f, n, q)
  OBVIOUS
<1>15. g.page[n] = q /\ g.max = f.max
  BY <1>1, <1>14, EditedShape
<1>16. \A k \in DOMAIN x : x[k] > 0 => <<n, k>> \in DOMAIN hold
  BY <1>1, <1>4, <1>5 DEF SharedOK
<1>17. ASSUME NEW pos \in DOMAIN hold, pos[1] = n PROVE HoldOK(g, own, hold, pos)
  <2>1. HoldOK(f, own, hold, pos)
    BY DEF FileOK
  <2>2. hold[pos].len <= MPageSize - 2 /\ hold[pos].len > 0
    BY <2>1, <1>17, Sizes DEF HoldOK, First, Slot, SharedPage
  <2>3. ShortOK(f, own, n, pos[2], hold[pos])
    BY <2>1, <2>2, <1>17 DEF HoldOK
  <2>4. pos[2] # p /\ pos[2] # next
    BY <2>1, <2>2, <2>3, <1>2, Sizes DEF ShortOK, HoldOK
  <2>5. ShortOK(g, own, n, pos[2], hold[pos])
    BY <2>3, <2>4, <1>6, <1>11, <1>15 DEF ShortOK
  <2>. QED  BY <2>1, <2>2, <2>5, <1>15, <1>17, Sizes DEF HoldOK
<1>18. PartOK(g, own, f.part)
  <2>1. CASE f.part[1] = n
    <3>. DEFINE o == f.part[2]
    <3>1. f.part = <<n, o>> /\ Between(w, o) /\ Behind(r, o) /\ o \in Nat /\ o # next
      BY <2>1, <1>1 DEF PartOK
    <3>2. Between(x, o)
      <4>1. CASE o \in DOMAIN w
        BY <3>1, <4>1, <1>4 DEF Between
      <4>2. CASE o \in MPageSize - 2 .. MPageSize - 1 /\ \E k \in DOMAIN w : End(w, k) = o
        <5>1. PICK k \in DOMAIN w : End(w, k) = o
          BY <4>2
        <5>2. k # p
          BY <3>1, <5>1, <1>3
        <5>3. CASE k = next
          BY <4>2, <5>1, <5>3, <1>3, <1>4, <1>5 DEF Between
        <5>4. CASE k # next
          BY <4>2, <5>1, <5>2, <5>4, <1>6 DEF Between
        <5>. QED  BY <5>3, <5>4
      <4>. QED  BY <3>1, <4>1, <4>2 DEF Between
    <3>3. Behind(q, o)
      BY <3>1, <1>4, <1>5, <1>11 DEF Behind
    <3>. QED  BY <2>1, <3>2, <3>3, <1>1, <1>11, <1>15 DEF PartOK
  <2>2. CASE f.part[1] # n
    <3>1. f.part[1] \in 1 .. f.max
      BY <1>1 DEF PartOK
    <3>2. g.page[f.part[1]] = f.page[f.part[1]]
      BY <2>2, <3>1, <1>1, <1>14, EditedShape
    <3>. QED  BY <3>2, <1>1, <1>15 DEF PartOK
  <2>. QED  BY <2>1, <2>2
<1>19. FileOK(g, own, nf, hold, NoWork)
  <2>1. g = [page |-> [f.page EXCEPT ![n] = q], free |-> f.free, max |-> f.max, part |-> f.part]
    BY <1>14 DEF Edited
  <2>2. NoWork.do # "release"
    BY DEF NoWork, Work
  <2>. QED  BY <2>1, <2>2, <1>11, <1>13, <1>16, <1>17, <1>18, SharedChange
<1>20. p \in DOMAIN x /\ (0 \in DOMAIN w => 0 \in DOMAIN x)
  BY <1>3, <1>4
<1>. QED  BY <1>10, <1>14, <1>19, <1>20 DEF Paged

(* FreePart moves to another place of a page of short texts.               *)
LEMMA PartChangeOK ==
  ASSUME NEW f, NEW own, NEW nf, NEW hold, FileOK(f, own, nf, hold, NoWork),
         NEW part, PartOK(f, own, part)
  PROVE  FileOK([f EXCEPT !.part = part], own, nf, hold, NoWork)
<1>. DEFINE g == [f EXCEPT !.part = part]
            n == part[1]
<1>1. /\ IsFile(f) /\ n \in 1 .. f.max /\ own[n] = SharedPage
      /\ f = [page |-> f.page, free |-> f.free, max |-> f.max, part |-> f.part]
      /\ f.page = [k \in 1 .. f.max |-> f.page[k]] /\ DOMAIN f.page = 1 .. f.max
  BY DEF FileOK, PartOK, IsFile
<1>2. g = [page |-> f.page, free |-> f.free, max |-> f.max, part |-> part]
  <2>1. f = [page |-> f.page, free |-> f.free, max |-> f.max, part |-> f.part]
    BY <1>1
  <2>. QED  BY ONLY <2>1
<1>3. [f.page EXCEPT ![n] = f.page[n]] = f.page
  BY <1>1
<1>4. g = [page |-> [f.page EXCEPT ![n] = f.page[n]], free |-> f.free, max |-> f.max, part |-> part]
  BY <1>2, <1>3
<1>5. g.page = f.page /\ g.max = f.max
  BY <1>2
<1>. HIDE DEF g
<1>6. SharedOK(f, own, hold, n) /\ IsPage(f.page[n])
  <2>1. PageOK(f, own, nf, hold, NoWork, n)
    BY <1>1 DEF FileOK
  <2>. QED  BY <2>1, <1>1, Kinds DEF PageOK, FreeOK, LongOK
<1>7. \A pos \in DOMAIN hold : HoldOK(g, own, hold, pos)
  BY <1>5 DEF FileOK, HoldOK, ShortOK
<1>8. PartOK(g, own, part)
  BY <1>5 DEF PartOK
<1>9. NoWork.do # "release"
  BY DEF NoWork, Work
<1>10. FileOK(g, own, nf, hold, NoWork)
  BY <1>1, <1>4, <1>6, <1>7, <1>8, <1>9, SharedChange DEF SharedOK
<1>. QED  BY <1>10 DEF g

(* A page that is one free fragment is released.                           *)
AfterWalk(f, n) ==
  IF f.page[n].word[0] <= 2 - MPageSize /\ f.part # <<n, 0>> THEN ReleasePage(f, n) ELSE f

(* No text is on a page that is one free fragment.                         *)
LEMMA AfterWalkOK ==
  ASSUME NEW f, NEW own, NEW nf, NEW hold, FileOK(f, own, nf, hold, NoWork),
         NEW n \in 1 .. f.max, own[n] = SharedPage, 0 \in DOMAIN f.page[n].word
  PROVE  \E own2, nf2 : FileOK(AfterWalk(f, n), own2, nf2, hold, NoWork)
<1>1. CASE ~ (f.page[n].word[0] <= 2 - MPageSize /\ f.part # <<n, 0>>)
  <2>1. AfterWalk(f, n) = f
    BY <1>1 DEF AfterWalk
  <2>. QED  BY <2>1
<1>2. CASE f.page[n].word[0] <= 2 - MPageSize /\ f.part # <<n, 0>>
  <2>. DEFINE w == f.page[n].word
  <2>1. SharedOK(f, own, hold, n) /\ IsPage(f.page[n]) /\ PartOK(f, own, f.part)
    <3>1. PageOK(f, own, nf, hold, NoWork, n)
      BY DEF FileOK
    <3>. QED  BY <3>1, Kinds DEF FileOK, PageOK, FreeOK, LongOK
  <2>2. DOMAIN w \subseteq 0 .. MPageSize - 3 /\ Tiled(w) /\ w[0] \in Int
    BY <2>1 DEF SharedOK, FragmentsOK, IsPage
  <2>3. End(w, 0) = MPageSize /\ DOMAIN w = {0}
    <3>1. End(w, 0) = 2 - w[0]
      BY <1>2, <2>2, Sizes DEF End
    <3>2. End(w, 0) \in DOMAIN w \cup (MPageSize - 2 .. MPageSize) /\ \A k \in DOMAIN w : k <= 0 \/ k >= End(w, 0)
      BY <2>2 DEF Tiled
    <3>3. End(w, 0) = MPageSize
      BY <3>1, <3>2, <2>2, <1>2, Sizes
    <3>. QED  BY <3>2, <3>3, <2>2, Sizes
  <2>4. f.part[1] # n
    <3>1. ASSUME f.part[1] = n PROVE FALSE
      <4>1. f.part = <<n, f.part[2]>> /\ Between(w, f.part[2])
        BY <3>1, <2>1 DEF PartOK
      <4>2. f.part[2] = 0
        BY <4>1, <2>3, Sizes DEF Between
      <4>. QED  BY <4>1, <4>2, <1>2
    <3>. QED  BY <3>1
  <2>5. ASSUME NEW pos \in DOMAIN hold PROVE pos[1] # n
    <3>1. HoldOK(f, own, hold, pos)
      BY DEF FileOK
    <3>2. ASSUME pos[1] = n PROVE FALSE
      <4>1. hold[pos].len <= MPageSize - 2 /\ hold[pos].len \in Nat \ {0}
        BY <3>1, <3>2, Sizes DEF HoldOK, First, Slot, SharedPage
      <4>2. ShortOK(f, own, n, pos[2], hold[pos])
        BY <3>1, <3>2, <4>1 DEF HoldOK
      <4>3. w[0] = hold[pos].len
        BY <4>2, <2>3 DEF ShortOK
      <4>. QED  BY <4>1, <4>3, <1>2, Sizes
    <3>. QED  BY <3>2
  <2>6. PICK own2 : own2 = [own EXCEPT ![n] = FreeSlot(nf + 1)]
    OBVIOUS
  <2>7. PICK g : g = ReleasePage(f, n)
    OBVIOUS
  <2>8. g.max = f.max /\ \A k \in 1 .. f.max : k # n => g.page[k] = f.page[k] /\ own2[k] = own[k]
    <3>1. /\ f = [page |-> f.page, free |-> f.free, max |-> f.max, part |-> f.part]
          /\ DOMAIN f.page = 1 .. f.max /\ DOMAIN own = 1 .. f.max
      BY DEF FileOK, IsFile
    <3>2. g.page = [f.page EXCEPT ![n] = [Empty EXCEPT !.next = f.free]] /\ g.max = f.max
      BY <2>7, <3>1 DEF ReleasePage
    <3>. QED  BY <2>6, <3>1, <3>2
  <2>9. ASSUME NEW k \in 1 .. f.max, LongOK(f, own, hold, NoWork, k) PROVE LongOK(g, own2, hold, NoWork, k)
    <3>1. \A m \in 1 .. f.max : SlotOK(own[m]) => g.page[m] = f.page[m] /\ own2[m] = own[m]
      BY <2>8, Kinds
    <3>2. f.max \in Nat /\ g.max \in Nat /\ f.max <= g.max
      BY <2>8 DEF FileOK, IsFile
    <3>. QED  BY <2>9, <3>1, <3>2, LongFrame
  <2>10. WorkOK(g, own2, hold, NoWork) /\ ~ IsFree(own[n])
    BY Kinds DEF WorkOK
  <2>11. FileOK(g, own2, nf + 1, hold, NoWork)
    BY <2>4, <2>5, <2>6, <2>7, <2>9, <2>10, FreedPage
  <2>12. AfterWalk(f, n) = g
    BY <1>2, <2>7 DEF AfterWalk
  <2>. QED  BY <2>11, <2>12
<1>. QED  BY <1>1, <1>2
-----------------------------------------------------------------------------
(* The inductive invariant: the file holds the texts of the records and of *)
(* the orphans, but for a text that is being deleted, and the one that has *)
(* just been stored; and the job is at a page of what it stores or frees.  *)
RecSet == [pos : Nat \X Nat, t : Texts]
(* The positions in the records; the one that the operation in progress    *)
(* frees; those of texts that stay; those of texts in the file.            *)
PosOf(rc) == {rc[r].pos : r \in DOMAIN rc} \ {NoPos}
Gone(c, o) == IF c THEN {o.old} ELSE {}
Live(rc, orp, c, o) == ((PosOf(rc) \ Gone(c, o)) \cup orp) \ {NoPos}
HeldOf(rc, orp, c, o, j) == Live(rc, orp, c, o) \cup ((IF j.do = "set" THEN {j.pos} ELSE {}) \ {NoPos})

(* Records without a text have no position, and no two share one; an       *)
(* orphan has no record.                                                   *)
RecsOK(rc, orp) ==
  /\ rc \in Seq(RecSet)
  /\ \A r \in DOMAIN rc : rc[r].pos = NoPos <=> rc[r].t.len = 0
  /\ \A r, q \in DOMAIN rc : r # q => rc[r].pos # rc[q].pos \/ rc[r].pos = NoPos
  /\ PosOf(rc) \cap orp = {} /\ NoPos \notin orp

(* The jobs of an operation that replaces a text.                          *)
Storing == {"walk", "release", "store", "write", "set"}

(* The operation fits the records and the job.                             *)
OpOK(rc, o, j) ==
  /\ o = [kind |-> o.kind, at |-> o.at, t |-> o.t, old |-> o.old, from |-> o.from, group |-> o.group]
  /\ o.t \in Texts
  /\ \/ o = NoOp /\ j.do = "none"
     \/ o.kind = "create" /\ o.at \in 1 .. Len(rc) + 1 /\ o.old = NoPos /\ j.do \in {"store", "write", "set"}
     \/ o.kind = "write" /\ o.at \in 1 .. Len(rc) /\ o.old = rc[o.at].pos /\ j.do \in Storing
     \/ /\ o.kind = "delete" /\ o.at \in 1 .. Len(rc) /\ o.old = rc[o.at].pos
        /\ j.do \in {"walk", "release", "set"} /\ o.t = NoText
     \/ /\ o.kind = "group" /\ o.at \in 1 .. Len(rc) + 1 /\ o.from \in o.at .. Len(rc) + 1
        /\ j.do = "move" /\ o.old = NoPos
     \/ /\ o.kind = "group" /\ o.at \in 1 .. Len(rc) /\ o.from \in o.at .. Len(rc)
        /\ o.old = rc[o.at].pos /\ j.do \in Storing

(* The job fits the file: a text to be set is in it, a walk stands on a    *)
(* page of short texts, a release and a write are at a page of their text. *)
JobOK(f, rc, orp, c, o, j, own, hold, w) ==
  \/ /\ j \in {NoJob, MoveJob, StoreJob} /\ w = NoWork
  \/ /\ j.do = "set" /\ j = SetJob(j.pos) /\ w = NoWork
     /\ j.pos = NoPos => o.t.len = 0
     /\ j.pos # NoPos => hold[j.pos] = o.t /\ j.pos \notin Live(rc, orp, c, o)
  \/ /\ j.do = "walk" /\ j = WalkJob(j.n, j.p) /\ w = NoWork
     /\ j.n \in 1 .. f.max /\ own[j.n] = SharedPage /\ Walking(f.page[j.n].word, j.p)
  \/ /\ j.do = "release" /\ w.do = "release" /\ w.n = j.n
     /\ j = [do |-> "release", n |-> j.n, bytes |-> j.bytes, full |-> j.full]
     /\ j.bytes = own[j.n].left + own[j.n].o /\ j.full = own[j.n].full
  \/ /\ j.do = "write" /\ w = Work("write", j.first, j.n, o.t) /\ o.t.len > MPageSize - 2
     /\ j = WriteJob(j.first, j.n, j.o, j.from, j.left, j.full)
     /\ own[j.n] = Slot(j.first, o.t, j.o, j.from, j.left, j.full)

(* The texts in the file are those of the records.                         *)
TextsHeld(rc, orp, c, o, hold) ==
  \A r \in DOMAIN rc : rc[r].pos \in PosOf(rc) \ Gone(c, o) => hold[rc[r].pos] = rc[r].t

(* The state, with what the pages are, the free pages, the texts in the    *)
(* file and the one under way.                                             *)
StateOK(f, c, rc, orp, o, j, own, nf, hold, w) ==
  /\ FileOK(f, own, nf, hold, w)
  /\ RecsOK(rc, orp)
  /\ OpOK(rc, o, j)
  /\ DOMAIN hold = HeldOf(rc, orp, c, o, j)
  /\ TextsHeld(rc, orp, c, o, hold)
  /\ JobOK(f, rc, orp, c, o, j, own, hold, w)

(* The inductive invariant: there is an account of the pages and the texts *)
(* that the state fits.                                                    *)
IInv ==
  /\ cached \in BOOLEAN /\ load \in Seq(Texts)
  /\ \E own, nf, hold, w : StateOK(file, cached, rec, orphans, op, job, own, nf, hold, w)
-----------------------------------------------------------------------------
(* The jobs and what they say.                                             *)
LEMMA Jobs ==
  /\ NoJob.do = "none" /\ StoreJob.do = "store" /\ MoveJob.do = "move"
  /\ \A pos : SetJob(pos).do = "set" /\ SetJob(pos).pos = pos
  /\ \A n, p : WalkJob(n, p).do = "walk" /\ WalkJob(n, p).n = n /\ WalkJob(n, p).p = p
  /\ NoWork.do = "none" /\ NoWork.of = 0 /\ NoWork.n = 0
  /\ NoOp.kind = "none" /\ NoOp.old = NoPos /\ NoOp.t = NoText
BY DEF NoJob, StoreJob, MoveJob, SetJob, WalkJob, NoWork, Work, NoOp, Op

(* The empty file.                                                         *)
LEMMA EmptyFileOK ==
  ASSUME NEW hold, DOMAIN hold = {}
  PROVE  \E own, nf : FileOK(EmptyFile, own, nf, hold, NoWork)
<1>. DEFINE f == EmptyFile
<1>1. PICK own : own = [n \in 1 .. 1 |-> SharedPage]
  OBVIOUS
<1>2. PICK p : p = [word |-> [o \in {0} |-> 2 - MPageSize], data |-> <<>>, next |-> 0]
  OBVIOUS
<1>3. [Empty EXCEPT !.word = [o \in {0} |-> 2 - MPageSize]] = p
  BY <1>2 DEF Empty
<1>4. f = [page |-> [n \in {1} |-> p], free |-> 0, max |-> 1, part |-> <<1, 0>>]
  BY <1>3 DEF EmptyFile
<1>5. f.page = [n \in {1} |-> p] /\ f.free = 0 /\ f.max = 1 /\ f.part = <<1, 0>> /\ f.part[1] = 1 /\ f.part[2] = 0
  BY <1>4
<1>. HIDE DEF f
<1>6. 1 .. 1 = {1}
  OBVIOUS
<1>7. IsFile(f)
  BY <1>4, <1>5, <1>6 DEF IsFile
<1>8. p.word = [o \in {0} |-> 2 - MPageSize] /\ p.data = <<>> /\ p.next = 0 /\ DOMAIN p.data = {}
  BY <1>2
<1>9. IsPage(p) /\ FragmentsOK(p) /\ Between(p.word, 0) /\ Behind(p, 0) /\ p.word[0] <= 0 /\ DOMAIN p.word = {0}
  <2>1. DOMAIN p.word = {0} /\ p.word[0] = 2 - MPageSize
    BY <1>8
  <2>2. IsPage(p)
    BY <1>2, <1>8, <2>1, Sizes DEF IsPage
  <2>3. End(p.word, 0) = MPageSize
    BY <2>1, Sizes DEF End
  <2>4. Tiled(p.word)
    BY <2>1, <2>3, Sizes DEF Tiled
  <2>. QED  BY <1>8, <2>1, <2>2, <2>4, Sizes DEF FragmentsOK, Between, Behind
<1>10. PageOK(f, own, 0, hold, NoWork, 1)
  <2>0. f.page[1] = p /\ own[1] = SharedPage /\ \A o \in DOMAIN p.word : p.word[o] <= 0 /\ p.word[o] \in Int
    BY <1>1, <1>5, <1>9 DEF IsPage
  <2>1. SharedOK(f, own, hold, 1)
    BY <2>0, <1>9 DEF SharedOK
  <2>. QED  BY <2>1, <1>5, <1>9 DEF PageOK
<1>11. FreeRootOK(f, own, 0) /\ PartOK(f, own, f.part) /\ WorkOK(f, own, hold, NoWork) /\ Distinct(own)
  BY <1>1, <1>5, <1>9 DEF FreeRootOK, PartOK, WorkOK, Distinct
<1>12. FileOK(f, own, 0, hold, NoWork)
  BY <1>1, <1>5, <1>6, <1>7, <1>10, <1>11 DEF FileOK
<1>. QED  BY <1>12 DEF f

(* The invariant holds at first.                                           *)
LEMMA InitInv == Init => IInv
<1>. SUFFICES ASSUME Init PROVE IInv
  OBVIOUS
<1>1. cached \in BOOLEAN /\ load \in Seq(Texts)
  BY TextFileAssumption DEF Init
<1>2. PICK hold : hold = [pos \in {} |-> NoText]
  OBVIOUS
<1>3. DOMAIN hold = {}
  BY <1>2
<1>4. PICK own, nf : FileOK(file, own, nf, hold, NoWork)
  BY <1>3, EmptyFileOK DEF Init
<1>5. rec = <<>> /\ orphans = {} /\ op = NoOp /\ job = NoJob /\ cached = TRUE
  BY DEF Init
<1>6. RecsOK(rec, orphans)
  BY <1>5 DEF RecsOK, PosOf
<1>7. OpOK(rec, op, job)
  BY <1>5, Jobs, Sizes DEF OpOK, NoOp, Op
<1>8. DOMAIN hold = HeldOf(rec, orphans, cached, op, job)
  BY <1>3, <1>5, Jobs DEF HeldOf, Live, PosOf
<1>9. TextsHeld(rec, orphans, cached, op, hold)
  BY <1>5 DEF TextsHeld
<1>10. JobOK(file, rec, orphans, cached, op, job, own, hold, NoWork)
  BY <1>5 DEF JobOK
<1>. QED  BY <1>1, <1>4, <1>6, <1>7, <1>8, <1>9, <1>10 DEF IInv, StateOK

(* The job goes on with other bytes in the file.                           *)
LEMMA JobStep ==
  ASSUME NEW f, NEW c, NEW rc, NEW orp, NEW o, NEW j, NEW own, NEW nf, NEW hold, NEW w,
         StateOK(f, c, rc, orp, o, j, own, nf, hold, w), j.do # "set",
         NEW g, NEW j2, NEW own2, NEW nf2, NEW w2, FileOK(g, own2, nf2, hold, w2),
         j2.do # "set" \/ j2.pos = NoPos,
         OpOK(rc, o, j2), JobOK(g, rc, orp, c, o, j2, own2, hold, w2)
  PROVE  StateOK(g, c, rc, orp, o, j2, own2, nf2, hold, w2)
<1>1. HeldOf(rc, orp, c, o, j2) = HeldOf(rc, orp, c, o, j)
  BY DEF HeldOf
<1>. QED  BY <1>1 DEF StateOK

(* The page of a job that writes.                                          *)
LEMMA Writing ==
  ASSUME NEW f, NEW c, NEW rc, NEW orp, NEW o, NEW j, NEW own, NEW nf, NEW hold, NEW w,
         StateOK(f, c, rc, orp, o, j, own, nf, hold, w), j.do = "write"
  PROVE  /\ w = Work("write", j.first, j.n, o.t) /\ w.do = "write" /\ w.of = j.first /\ w.n = j.n /\ w.t = o.t
         /\ o.t \in Texts /\ o.t.len > MPageSize - 2 /\ o.t.len \in Nat
         /\ j.n \in 1 .. f.max /\ SlotOK(own[j.n])
         /\ own[j.n] = Slot(j.first, o.t, j.o, j.from, j.left, j.full)
         /\ own[j.n].of = j.first /\ own[j.n].t = o.t /\ own[j.n].o = j.o
         /\ own[j.n].from = j.from /\ own[j.n].left = j.left /\ own[j.n].full = j.full
         /\ IsPage(f.page[j.n]) /\ IsFile(f)
<1>1. JobOK(f, rc, orp, c, o, j, own, hold, w) /\ FileOK(f, own, nf, hold, w) /\ o.t \in Texts
  BY DEF StateOK, OpOK
<1>2. /\ w = Work("write", j.first, j.n, o.t) /\ o.t.len > MPageSize - 2
      /\ own[j.n] = Slot(j.first, o.t, j.o, j.from, j.left, j.full)
  BY <1>1, Jobs DEF JobOK
<1>3. w.do = "write" /\ w.of = j.first /\ w.n = j.n /\ w.t = o.t
  BY <1>2 DEF Work
<1>4. j.n \in 1 .. f.max /\ SlotOK(own[j.n])
  BY <1>1, <1>3, Jobs DEF FileOK, WorkOK
<1>5. IsPage(f.page[j.n]) /\ IsFile(f)
  BY <1>1, <1>4 DEF FileOK, PageOK
<1>. QED  BY <1>1, <1>2, <1>3, <1>4, <1>5, SlotFields, Sizes

(* An operation that writes or frees pages is none of those that only      *)
(* move records.                                                           *)
LEMMA SameOp ==
  ASSUME NEW rc, NEW o, NEW j, OpOK(rc, o, j), NEW j2,
         \/ j.do \in {"store", "write"} /\ j2.do \in {"store", "write", "set"}
         \/ j.do \in {"walk", "release"} /\ j2.do \in {"walk", "release"}
         \/ j.do \in {"walk", "release"} /\ j2 = Then(o.kind)
  PROVE  OpOK(rc, o, j2)
BY Jobs DEF OpOK, Then, Storing

(* WriteMore: the text goes on on a new page.                              *)
LEMMA WriteMoreOK ==
  ASSUME NEW f, NEW c, NEW rc, NEW orp, NEW o, NEW j, NEW own, NEW nf, NEW hold, NEW w,
         StateOK(f, c, rc, orp, o, j, own, nf, hold, w),
         j.do = "write", j.left > MPageSize - j.o, NEW h, NEW j2,
         h = Link(PutPiece(NewPage(f).f, j.n, j.o, Piece(o.t, j.from, Linked - j.o)), j.n, NewPage(f).n),
         j2 = WriteJob(j.first, NewPage(f).n, 0, j.from + (Linked - j.o), j.left - (Linked - j.o), j.full)
  PROVE  \E own2, nf2, w2 : StateOK(h, c, rc, orp, o, j2, own2, nf2, hold, w2)
<1>. DEFINE n == j.n
            s == own[n]
            u == Following(s)
            g == NewPage(f).f
            m == NewPage(f).n
            x == Piece(o.t, j.from, Linked - j.o)
<1>0. /\ j.do = "write" /\ j.left > MPageSize - j.o
      /\ h = Link(PutPiece(g, n, j.o, x), n, m)
      /\ j2 = WriteJob(j.first, m, 0, j.from + x.n, j.left - x.n, j.full)
  BY DEF Piece
<1>1. /\ w = Work("write", j.first, n, o.t) /\ w.do = "write" /\ w.of = j.first /\ w.n = n /\ w.t = o.t
      /\ o.t.len > MPageSize - 2
      /\ n \in 1 .. f.max /\ SlotOK(s) /\ s.of = j.first /\ s.t = o.t /\ s.o = j.o
      /\ s.from = j.from /\ s.left = j.left /\ s.full = j.full
      /\ IsPage(f.page[n]) /\ IsFile(f) /\ FileOK(f, own, nf, hold, w)
  BY <1>0, Writing DEF StateOK
<1>2. HasNext(s) /\ Here(s) = Linked - s.o /\ x.n = Linked - s.o
  BY <1>0, <1>1 DEF HasNext, Here, Piece
<1>3. u = Slot(j.first, o.t, 0, j.from + x.n, j.left - x.n, j.full) /\ u.o = 0
  <2>1. u = Slot(s.of, s.t, 0, s.from + (Linked - s.o), s.left - (Linked - s.o), s.full)
    BY <1>0, <1>1 DEF Following
  <2>. QED  BY <2>1, <1>1, <1>2, SlotFields
<1>4. /\ IsFile(g) /\ m \in 1 .. g.max /\ f.max <= g.max /\ 1 .. g.max = 1 .. f.max \cup {m}
      /\ g.page = [k \in 1 .. g.max |-> IF k = m THEN Empty ELSE f.page[k]] /\ g.part = f.part
      /\ f.free # 0 => m = f.free
      /\ f.free = 0 => m = f.max + 1
  BY <1>1, NewPageShape
<1>5. m # n
  <2>1. f.free # 0 => own[f.free] = FreeSlot(nf) /\ nf # 0 /\ nf \in Nat
    BY <1>1 DEF FileOK, FreeRootOK
  <2>2. f.max \in Nat
    BY <1>1 DEF IsFile
  <2>. QED  BY <2>1, <2>2, <1>1, <1>4, Kinds
<1>6. g.page[n] = f.page[n] /\ n \in 1 .. g.max /\ g.page[m] = Empty
  BY <1>1, <1>4, <1>5
<1>. HIDE DEF x, u, g, m
<1>9. PICK p2 : p2 = Paged(f.page[n].word, With(f.page[n].data, j.o, x), m)
  OBVIOUS
<1>16. /\ IsFile(h) /\ h.max = g.max /\ h.free = g.free /\ h.part = g.part
       /\ h.page[n] = p2 /\ \A k \in 1 .. g.max : k # n => h.page[k] = g.page[k]
  <2>1. PICK h2 : h2 = Link(PutPiece(g, n, j.o, x), n, m)
    OBVIOUS
  <2>2. IsPage(g.page[n]) /\ IsFile(g) /\ n \in 1 .. g.max
    BY <1>1, <1>4, <1>6
  <2>. HIDE DEF n
  <2>3. /\ IsFile(h2) /\ h2.max = g.max /\ h2.free = g.free /\ h2.part = g.part
        /\ h2.page[n] = Paged(g.page[n].word, With(g.page[n].data, j.o, x), m)
        /\ \A k \in 1 .. g.max : k # n => h2.page[k] = g.page[k]
    BY ONLY <2>1, <2>2, LinkShape
  <2>. QED  BY <2>1, <2>3, <1>0, <1>6, <1>9
<1>17. \E own2, nf2 : FileOK(h, own2, nf2, hold, Work("write", j.first, m, o.t)) /\ own2[m] = u
  <2>1. x = Piece(s.t, s.from, Here(s))
    BY <1>1, <1>2 DEF x
  <2>2. h.page[w.n] = Paged(f.page[w.n].word,
                           With(f.page[w.n].data, own[w.n].o,
                                Piece(own[w.n].t, own[w.n].from, Here(own[w.n]))),
                           NewPage(f).n)
    BY <2>1, <1>1, <1>9, <1>16 DEF m
  <2>3. IsPage(h.page[m]) /\ u.o # 2
    BY <1>3, <1>4, <1>5, <1>6, <1>16, EmptyPage
  <2>4. \A k \in 1 .. h.max : k # w.n /\ k # m => h.page[k] = g.page[k]
    BY <1>1, <1>16
  <2>5. /\ FileOK(f, own, nf, hold, w) /\ w.do = "write" /\ HasNext(own[w.n]) /\ IsFile(h)
        /\ h.max = NewPage(f).f.max /\ h.free = NewPage(f).f.free /\ h.part = NewPage(f).f.part
    BY <1>1, <1>2, <1>16 DEF g
  <2>6. /\ \A k \in 1 .. h.max : k # w.n /\ k # NewPage(f).n => h.page[k] = NewPage(f).f.page[k]
        /\ IsPage(h.page[NewPage(f).n]) /\ Following(own[w.n]).o # 2
    BY <2>3, <2>4, <1>1 DEF u, m, g
  <2>7. \E own2, nf2 : /\ FileOK(h, own2, nf2, hold, Work("write", w.of, NewPage(f).n, w.t))
                       /\ own2[NewPage(f).n] = Following(own[w.n])
    BY ONLY <2>2, <2>5, <2>6, ExtendOK
  <2>. QED  BY <2>7, <1>1 DEF u, m
<1>18. PICK own2, nf2 : FileOK(h, own2, nf2, hold, Work("write", j.first, m, o.t)) /\ own2[m] = u
  BY <1>17
<1>19. PICK w2 : w2 = Work("write", j.first, m, o.t)
  OBVIOUS
<1>21. /\ j2.do = "write" /\ j2.first = j.first /\ j2.n = m /\ j2.o = 0 /\ j2.from = j.from + x.n
       /\ j2.left = j.left - x.n /\ j2.full = j.full
       /\ j2 = WriteJob(j2.first, j2.n, j2.o, j2.from, j2.left, j2.full)
  BY <1>0 DEF WriteJob
<1>22. JobOK(h, rc, orp, c, o, j2, own2, hold, w2)
  BY <1>1, <1>3, <1>18, <1>19, <1>21 DEF JobOK
<1>23. OpOK(rc, o, j2)
  BY <1>0, <1>21, SameOp DEF StateOK
<1>24. StateOK(h, c, rc, orp, o, j2, own2, nf2, hold, w2)
  BY <1>0, <1>18, <1>19, <1>21, <1>22, <1>23, JobStep
<1>. QED  BY <1>24

(* The job that writes the second segment.                                 *)
SecondJob(j, n, bytes) == WriteJob(j.first, n, 2, MaxLStrLen, bytes, FALSE)

(* WriteSegment: the second segment begins on a new page.                  *)
LEMMA WriteSegmentOK ==
  ASSUME NEW f, NEW c, NEW rc, NEW orp, NEW o, NEW j, NEW own, NEW nf, NEW hold, NEW w,
         StateOK(f, c, rc, orp, o, j, own, nf, hold, w),
         j.do = "write", j.left <= MPageSize - j.o, j.full, NEW h, NEW j2,
         h = PutHead(Link(PutPiece(NewPage(f).f, j.n, j.o, Piece(o.t, j.from, j.left)), j.n, NewPage(f).n),
                     NewPage(f).n, o.t.len - MaxLStrLen),
         j2 = SecondJob(j, NewPage(f).n, o.t.len - MaxLStrLen)
  PROVE  \E own2, nf2, w2 : StateOK(h, c, rc, orp, o, j2, own2, nf2, hold, w2)
<1>. DEFINE n == j.n
            s == own[n]
            u == Following(s)
            g == NewPage(f).f
            m == NewPage(f).n
            x == Piece(o.t, j.from, j.left)
            remains == o.t.len - MaxLStrLen
<1>0. /\ j.do = "write" /\ j.left <= MPageSize - j.o /\ j.full
      /\ h = PutHead(Link(PutPiece(g, n, j.o, x), n, m), m, remains)
      /\ j2 = WriteJob(j.first, m, 2, MaxLStrLen, remains, FALSE)
  BY DEF SecondJob
<1>1. /\ w = Work("write", j.first, n, o.t) /\ w.do = "write" /\ w.of = j.first /\ w.n = n /\ w.t = o.t
      /\ o.t.len > MPageSize - 2 /\ o.t \in Texts /\ o.t.len \in Nat
      /\ n \in 1 .. f.max /\ SlotOK(s) /\ s.of = j.first /\ s.t = o.t /\ s.o = j.o
      /\ s.from = j.from /\ s.left = j.left /\ s.full = j.full
      /\ IsPage(f.page[n]) /\ IsFile(f) /\ FileOK(f, own, nf, hold, w)
  <2>1. FileOK(f, own, nf, hold, w)
    BY DEF StateOK
  <2>2. /\ w = Work("write", j.first, n, o.t) /\ w.do = "write" /\ w.of = j.first /\ w.n = n /\ w.t = o.t
        /\ o.t \in Texts /\ o.t.len > MPageSize - 2 /\ o.t.len \in Nat
    BY <1>0, Writing
  <2>3. /\ n \in 1 .. f.max /\ SlotOK(s) /\ s.of = j.first /\ s.t = o.t /\ s.o = j.o
        /\ s.from = j.from /\ s.left = j.left /\ s.full = j.full
        /\ IsPage(f.page[n]) /\ IsFile(f)
    <3>1. StateOK(f, c, rc, orp, o, j, own, nf, hold, w) /\ j.do = "write"
      BY <1>0
    <3>. QED  BY ONLY <3>1, Writing
  <2>. QED  BY <2>1, <2>2, <2>3
<1>2. HasNext(s) /\ Here(s) = s.left
  <2>1. s.left \in Nat /\ s.o \in {0, 2} /\ ~ (s.left > MPageSize - s.o)
    BY <1>0, <1>1, Sizes DEF SlotOK
  <2>. QED  BY <2>1, <1>0, <1>1 DEF HasNext, Here
<1>3. u = Slot(j.first, o.t, 2, MaxLStrLen, remains, FALSE) /\ u.o = 2 /\ SlotWord(u) = remains
      /\ remains \in Nat /\ Head4(remains) = remains
  <2>0. s.left \in Nat /\ s.o \in {0, 2} /\ ~ (s.left > MPageSize - s.o)
    BY <1>0, <1>1, Sizes DEF SlotOK
  <2>1. u = Slot(s.of, s.t, 2, MaxLStrLen, s.t.len - MaxLStrLen, FALSE)
    BY <2>0 DEF Following
  <2>2. u = Slot(j.first, o.t, 2, MaxLStrLen, remains, FALSE)
    BY <2>1, <1>1
  <2>3. u.o = 2 /\ u.left = remains /\ u.full = FALSE
    BY <2>2 DEF Slot
  <2>4. remains \in Nat /\ remains <= MaxLStrLen
    <3>1. o.t.len > MaxLStrLen
      BY <1>0, <1>1 DEF SlotOK
    <3>. QED  BY <3>1, <1>1, Sizes
  <2>5. SlotWord(u) = remains
    BY <2>3 DEF SlotWord
  <2>6. Head4(remains) = remains
    BY <2>4, Sizes DEF Head4
  <2>. QED  BY <2>2, <2>3, <2>4, <2>5, <2>6
<1>4. /\ IsFile(g) /\ m \in 1 .. g.max /\ f.max <= g.max /\ 1 .. g.max = 1 .. f.max \cup {m}
      /\ g.page = [k \in 1 .. g.max |-> IF k = m THEN Empty ELSE f.page[k]] /\ g.part = f.part
      /\ f.free # 0 => m = f.free
      /\ f.free = 0 => m = f.max + 1
  BY <1>1, NewPageShape
<1>5. m # n
  <2>1. f.free # 0 => own[f.free] = FreeSlot(nf) /\ nf # 0 /\ nf \in Nat
    BY <1>1 DEF FileOK, FreeRootOK
  <2>2. f.max \in Nat
    BY <1>1 DEF IsFile
  <2>. QED  BY <2>1, <2>2, <1>1, <1>4, Kinds
<1>6. g.page[n] = f.page[n] /\ n \in 1 .. g.max /\ g.page[m] = Empty
  BY <1>1, <1>4, <1>5
<1>. HIDE DEF x, u, g, m, remains
<1>9. PICK p2 : p2 = Paged(f.page[n].word, With(f.page[n].data, j.o, x), m)
  OBVIOUS
<1>17. PICK q : q = Paged(With(<<>>, 0, remains), <<>>, 0)
  OBVIOUS
<1>20. /\ IsFile(h) /\ h.max = g.max /\ h.free = g.free /\ h.part = g.part
       /\ h.page[n] = p2 /\ h.page[m] = q /\ \A k \in 1 .. g.max : k # n /\ k # m => h.page[k] = g.page[k]
  <2>1. PICK h2 : h2 = Link(PutPiece(g, n, j.o, x), n, m)
    OBVIOUS
  <2>2. IsPage(g.page[n]) /\ IsFile(g) /\ n \in 1 .. g.max
    BY <1>1, <1>4, <1>6
  <2>. HIDE DEF n
  <2>3. /\ IsFile(h2) /\ h2.max = g.max /\ h2.free = g.free /\ h2.part = g.part
        /\ h2.page[n] = Paged(g.page[n].word, With(g.page[n].data, j.o, x), m)
        /\ \A k \in 1 .. g.max : k # n => h2.page[k] = g.page[k]
    BY ONLY <2>1, <2>2, LinkShape
  <2>4. m \in 1 .. h2.max /\ h2.page[m] = Empty
    BY <2>3, <1>4, <1>5, <1>6
  <2>5. PICK h3 : h3 = PutHead(h2, m, remains)
    OBVIOUS
  <2>6. /\ IsFile(h3) /\ h3.max = h2.max /\ h3.free = h2.free /\ h3.part = h2.part
        /\ h3.page[m] = Paged(With(<<>>, 0, Head4(remains)), <<>>, 0)
        /\ \A k \in 1 .. h2.max : k # m => h3.page[k] = h2.page[k]
    BY <2>3, <2>4, <2>5, HeadShape
  <2>7. h = h3
    BY <2>1, <2>5, <1>0
  <2>8. h3.page[m] = q /\ h3.page[n] = p2
    BY <2>2, <2>3, <2>6, <1>3, <1>5, <1>6, <1>9, <1>17
  <2>9. \A k \in 1 .. g.max : k # n /\ k # m => h3.page[k] = g.page[k]
    BY <2>3, <2>6
  <2>. QED  BY <2>3, <2>6, <2>7, <2>8, <2>9
<1>21. IsPage(q) /\ 0 \in DOMAIN q.word /\ q.word[0] = remains
  <2>1. PICK y : y = With(<<>>, 0, remains)
    OBVIOUS
  <2>2. DOMAIN y = {0} /\ y[0] = remains
    BY <2>1 DEF With
  <2>3. q = [word |-> y, data |-> <<>>, next |-> 0]
    BY <2>1, <1>17 DEF Paged
  <2>. QED  BY <2>2, <2>3, <1>3 DEF IsPage
<1>22. \E own2, nf2 : FileOK(h, own2, nf2, hold, Work("write", j.first, m, o.t)) /\ own2[m] = u
  <2>1. x = Piece(s.t, s.from, Here(s))
    BY <1>1, <1>2 DEF x
  <2>2. h.page[w.n] = Paged(f.page[w.n].word,
                           With(f.page[w.n].data, own[w.n].o,
                                Piece(own[w.n].t, own[w.n].from, Here(own[w.n]))),
                           NewPage(f).n)
    BY <2>1, <1>1, <1>9, <1>20 DEF m
  <2>3. IsPage(h.page[m]) /\ 0 \in DOMAIN h.page[m].word /\ h.page[m].word[0] = SlotWord(u)
    BY <1>3, <1>20, <1>21
  <2>4. \A k \in 1 .. h.max : k # w.n /\ k # m => h.page[k] = g.page[k]
    BY <1>1, <1>20
  <2>5. FileOK(f, own, nf, hold, w) /\ w.do = "write" /\ HasNext(own[w.n]) /\ w.of = j.first /\ w.t = o.t /\ own[w.n] = s
    BY <1>1, <1>2
  <2>6. \E own2, nf2 : /\ FileOK(h, own2, nf2, hold, Work("write", w.of, NewPage(f).n, w.t))
                      /\ own2[NewPage(f).n] = Following(own[w.n])
    BY ONLY <2>2, <2>3, <2>4, <2>5, <1>20, ExtendOK DEF u, m, g
  <2>. QED  BY <2>5, <2>6 DEF u, m
<1>23. PICK own2, nf2 : FileOK(h, own2, nf2, hold, Work("write", j.first, m, o.t)) /\ own2[m] = u
  BY <1>22
<1>24. PICK w2 : w2 = Work("write", j.first, m, o.t)
  OBVIOUS
<1>26. /\ j2.do = "write" /\ j2.first = j.first /\ j2.n = m /\ j2.o = 2 /\ j2.from = MaxLStrLen
       /\ j2.left = remains /\ j2.full = FALSE
       /\ j2 = WriteJob(j2.first, j2.n, j2.o, j2.from, j2.left, j2.full)
  BY <1>0 DEF WriteJob
<1>27. JobOK(h, rc, orp, c, o, j2, own2, hold, w2)
  BY <1>1, <1>3, <1>23, <1>24, <1>26 DEF JobOK
<1>28. OpOK(rc, o, j2)
  BY <1>0, <1>26, SameOp DEF StateOK
<1>29. StateOK(h, c, rc, orp, o, j2, own2, nf2, hold, w2)
  <2>1. j.do # "set" /\ j2.do # "set" /\ FileOK(h, own2, nf2, hold, w2)
    BY <1>0, <1>23, <1>24, <1>26
  <2>2. StateOK(f, c, rc, orp, o, j, own, nf, hold, w)
    OBVIOUS
  <2>. QED  BY ONLY <2>1, <2>2, <1>27, <1>28, JobStep
<1>. QED  BY <1>29
-----------------------------------------------------------------------------
(* A function with one more value, or another one.                         *)
LEMMA WithShape ==
  ASSUME NEW hold, NEW pos, NEW t
  PROVE  /\ DOMAIN With(hold, pos, t) = DOMAIN hold \cup {pos}
         /\ With(hold, pos, t)[pos] = t
         /\ \A q \in DOMAIN hold : q # pos => With(hold, pos, t)[q] = hold[q]
BY DEF With

(* A text is stored: the record is written next.                           *)
LEMMA StoredOK ==
  ASSUME NEW f, NEW c, NEW rc, NEW orp, NEW o, NEW j, NEW own, NEW nf, NEW hold, NEW w,
         StateOK(f, c, rc, orp, o, j, own, nf, hold, w), j.do \in {"store", "write"},
         NEW pos, pos # NoPos, pos \notin DOMAIN hold,
         NEW h, NEW own2, NEW nf2, FileOK(h, own2, nf2, With(hold, pos, o.t), NoWork)
  PROVE  StateOK(h, c, rc, orp, o, SetJob(pos), own2, nf2, With(hold, pos, o.t), NoWork)
<1>1. PICK j2 : j2 = SetJob(pos)
  OBVIOUS
<1>2. PICK hold2 : hold2 = With(hold, pos, o.t)
  OBVIOUS
<1>3. j2.do = "set" /\ j2.pos = pos /\ j2 = SetJob(j2.pos)
  BY <1>1, Jobs
<1>4. /\ DOMAIN hold2 = DOMAIN hold \cup {pos} /\ hold2[pos] = o.t
      /\ \A q \in DOMAIN hold : hold2[q] = hold[q]
  BY <1>2 DEF With
<1>5. DOMAIN hold = Live(rc, orp, c, o)
  BY DEF StateOK, HeldOf
<1>6. DOMAIN hold2 = HeldOf(rc, orp, c, o, j2)
  BY <1>3, <1>4, <1>5 DEF HeldOf
<1>7. TextsHeld(rc, orp, c, o, hold2)
  <2>1. \A r \in DOMAIN rc : rc[r].pos \in PosOf(rc) \ Gone(c, o) => rc[r].pos \in DOMAIN hold
    BY <1>5 DEF Live, PosOf
  <2>2. TextsHeld(rc, orp, c, o, hold)
    BY DEF StateOK
  <2>. QED  BY <2>1, <2>2, <1>4 DEF TextsHeld
<1>8. OpOK(rc, o, j2)
  BY <1>3, SameOp DEF StateOK
<1>9. JobOK(h, rc, orp, c, o, j2, own2, hold2, NoWork)
  BY <1>3, <1>4, <1>5 DEF JobOK
<1>. QED  BY <1>1, <1>2, <1>6, <1>7, <1>8, <1>9 DEF StateOK

(* A text without bytes is not stored.                                     *)
LEMMA StoreNothingOK ==
  ASSUME NEW f, NEW c, NEW rc, NEW orp, NEW o, NEW j, NEW own, NEW nf, NEW hold, NEW w,
         StateOK(f, c, rc, orp, o, j, own, nf, hold, w), j.do = "store", o.t.len = 0
  PROVE  StateOK(f, c, rc, orp, o, SetJob(NoPos), own, nf, hold, NoWork)
<1>1. w = NoWork
  BY Jobs DEF StateOK, JobOK
<1>2. PICK j2 : j2 = SetJob(NoPos)
  OBVIOUS
<1>3. j2.do = "set" /\ j2.pos = NoPos /\ j2 = SetJob(j2.pos)
  BY <1>2, Jobs
<1>4. OpOK(rc, o, j2)
  BY <1>3, SameOp DEF StateOK
<1>5. JobOK(f, rc, orp, c, o, j2, own, hold, NoWork)
  BY <1>3 DEF JobOK
<1>6. FileOK(f, own, nf, hold, NoWork) /\ j.do # "set"
  BY <1>1 DEF StateOK
<1>7. StateOK(f, c, rc, orp, o, j2, own, nf, hold, NoWork)
  BY <1>3, <1>4, <1>5, <1>6, JobStep
<1>. QED  BY <1>2, <1>7

(* A short text at FreePart, or on a page of its own.                      *)
LEMMA StoreShortOK ==
  ASSUME NEW f, NEW c, NEW rc, NEW orp, NEW o, NEW j, NEW own, NEW nf, NEW hold, NEW w,
         StateOK(f, c, rc, orp, o, j, own, nf, hold, w), j.do = "store", o.t.len \in 1 .. MPageSize - 2
  PROVE  /\ Fits(f, o.t) =>
              \E own2, nf2, hold2 : StateOK(PutShort(f, f.part[1], f.part[2], o.t), c, rc, orp, o,
                                            SetJob(f.part), own2, nf2, hold2, NoWork)
         /\ ~ Fits(f, o.t) =>
              \E own2, nf2, hold2 : StateOK(PutShort(NewPage(f).f, NewPage(f).n, 0, o.t), c, rc, orp, o,
                                            SetJob(<<NewPage(f).n, 0>>), own2, nf2, hold2, NoWork)
<1>0. FileOK(f, own, nf, hold, NoWork) /\ o.t \in Texts /\ o.t.len \in Nat /\ o.t.len > 0 /\ o.t.len <= MPageSize - 2
  <2>1. w = NoWork /\ o.t \in Texts
    BY Jobs DEF StateOK, JobOK, OpOK
  <2>. QED  BY <2>1, Sizes DEF StateOK
<1>1. ASSUME Fits(f, o.t)
      PROVE  \E own2, nf2, hold2 : StateOK(PutShort(f, f.part[1], f.part[2], o.t), c, rc, orp, o,
                                           SetJob(f.part), own2, nf2, hold2, NoWork)
  <2>1. PICK n, a : n = f.part[1] /\ a = f.part[2]
    OBVIOUS
  <2>2. /\ f.part = <<n, a>> /\ n \in 1 .. f.max /\ a \in Nat /\ own[n] = SharedPage
        /\ Between(f.page[n].word, a) /\ Behind(f.page[n], a)
    BY <1>0, <2>1 DEF FileOK, PartOK
  <2>3. a + o.t.len + 2 <= MPageSize
    BY <1>0, <1>1, <2>1, <2>2, Sizes DEF Fits
  <2>4. /\ \E own2, nf2 : FileOK(PutShort(f, n, a, o.t), own2, nf2, With(hold, <<n, a>>, o.t), NoWork)
        /\ <<n, a>> \notin DOMAIN hold
    BY <1>0, <2>2, <2>3, PutShortOK
  <2>5. PICK own2, nf2 : FileOK(PutShort(f, n, a, o.t), own2, nf2, With(hold, <<n, a>>, o.t), NoWork)
    BY <2>4
  <2>6. <<n, a>> # NoPos
    BY <2>2 DEF NoPos
  <2>7. StateOK(PutShort(f, n, a, o.t), c, rc, orp, o, SetJob(<<n, a>>), own2, nf2, With(hold, <<n, a>>, o.t), NoWork)
    BY <2>4, <2>5, <2>6, StoredOK
  <2>. QED  BY <2>1, <2>2, <2>7
<1>2. ASSUME ~ Fits(f, o.t)
      PROVE  \E own2, nf2, hold2 : StateOK(PutShort(NewPage(f).f, NewPage(f).n, 0, o.t), c, rc, orp, o,
                                           SetJob(<<NewPage(f).n, 0>>), own2, nf2, hold2, NoWork)
  <2>1. PICK g, n : g = NewPage(f).f /\ n = NewPage(f).n
    OBVIOUS
  <2>2. PICK own2, nf2 : FileOK(g, own2, nf2, hold, NoWork) /\ Fresh(f, own, g, n, own2)
    BY <1>0, <2>1, NewPageOK
  <2>3. /\ n \in 1 .. g.max /\ own2[n] = SharedPage /\ 0 \in Nat
        /\ Between(g.page[n].word, 0) /\ Behind(g.page[n], 0)
    BY <2>2, EmptyPage DEF Fresh, Behind
  <2>4. 0 + o.t.len + 2 <= MPageSize
    BY <1>0, Sizes
  <2>5. /\ \E own3, nf3 : FileOK(PutShort(g, n, 0, o.t), own3, nf3, With(hold, <<n, 0>>, o.t), NoWork)
        /\ <<n, 0>> \notin DOMAIN hold
    BY <1>0, <2>2, <2>3, <2>4, PutShortOK
  <2>6. PICK own3, nf3 : FileOK(PutShort(g, n, 0, o.t), own3, nf3, With(hold, <<n, 0>>, o.t), NoWork)
    BY <2>5
  <2>7. <<n, 0>> # NoPos
    <3>1. n # 0
      BY <2>2, <2>3 DEF FileOK, IsFile
    <3>. QED  BY <3>1 DEF NoPos
  <2>8. StateOK(PutShort(g, n, 0, o.t), c, rc, orp, o, SetJob(<<n, 0>>), own3, nf3, With(hold, <<n, 0>>, o.t), NoWork)
    BY <2>5, <2>6, <2>7, StoredOK
  <2>. QED  BY <2>1, <2>8
<1>. QED  BY <1>1, <1>2

(* A long text begins.                                                     *)
LEMMA StoreLongStepOK ==
  ASSUME NEW f, NEW c, NEW rc, NEW orp, NEW o, NEW j, NEW own, NEW nf, NEW hold, NEW w,
         StateOK(f, c, rc, orp, o, j, own, nf, hold, w), j.do = "store", o.t.len > MPageSize - 2,
         NEW n, n = NewPage(f).n
  PROVE  \E own2, nf2, w2 :
           StateOK(PutHead(NewPage(f).f, n, o.t.len), c, rc, orp, o,
                   WriteJob(n, n, 2, 0, Bytes(Head4(o.t.len)), Full(Head4(o.t.len))), own2, nf2, hold, w2)
<1>0. FileOK(f, own, nf, hold, NoWork) /\ o.t \in Texts
  BY Jobs DEF StateOK, JobOK, OpOK
<1>1. PICK h : h = PutHead(NewPage(f).f, n, o.t.len)
  OBVIOUS
<1>2. PICK w2 : w2 = Work("write", n, n, o.t)
  OBVIOUS
<1>3. PICK own2, nf2 : FileOK(h, own2, nf2, hold, w2) /\ own2[n] = First(n, o.t)
  BY <1>0, <1>1, <1>2, StartLongOK
<1>4. PICK j2 : j2 = WriteJob(n, n, 2, 0, Bytes(Head4(o.t.len)), Full(Head4(o.t.len)))
  OBVIOUS
<1>5. /\ j2.do = "write" /\ j2.first = n /\ j2.n = n /\ j2.o = 2 /\ j2.from = 0
      /\ j2.left = Bytes(Head4(o.t.len)) /\ j2.full = Full(Head4(o.t.len))
      /\ j2 = WriteJob(j2.first, j2.n, j2.o, j2.from, j2.left, j2.full)
  BY <1>4 DEF WriteJob
<1>6. own2[j2.n] = Slot(j2.first, o.t, j2.o, j2.from, j2.left, j2.full)
  BY <1>3, <1>5 DEF First
<1>7. JobOK(h, rc, orp, c, o, j2, own2, hold, w2)
  BY <1>2, <1>5, <1>6 DEF JobOK
<1>8. OpOK(rc, o, j2)
  BY <1>5, SameOp DEF StateOK
<1>9. StateOK(h, c, rc, orp, o, j2, own2, nf2, hold, w2)
  <2>1. j.do # "set" /\ j2.do # "set"
    BY <1>5
  <2>. QED  BY <2>1, <1>3, <1>7, <1>8, JobStep
<1>. QED  BY <1>1, <1>4, <1>9

(* The last page of a long text.                                           *)
LEMMA WriteLastStepOK ==
  ASSUME NEW f, NEW c, NEW rc, NEW orp, NEW o, NEW j, NEW own, NEW nf, NEW hold, NEW w,
         StateOK(f, c, rc, orp, o, j, own, nf, hold, w), j.do = "write",
         j.left <= MPageSize - j.o, ~ j.full
  PROVE  \E hold2 : StateOK(PutPiece(f, j.n, j.o, Piece(o.t, j.from, j.left)), c, rc, orp, o,
                            SetJob(<<j.first, 0>>), own, nf, hold2, NoWork)
<1>1. PICK n, s : n = j.n /\ s = own[n]
  OBVIOUS
<1>2. /\ w.do = "write" /\ w.of = j.first /\ w.n = n /\ w.t = o.t
      /\ o.t \in Texts /\ o.t.len > MPageSize - 2
  BY <1>1, Writing
<1>3. /\ n \in 1 .. f.max /\ SlotOK(s) /\ s.t = o.t /\ s.o = j.o
      /\ s.from = j.from /\ s.left = j.left /\ s.full = j.full
      /\ IsPage(f.page[n]) /\ IsFile(f)
  <2>1. StateOK(f, c, rc, orp, o, j, own, nf, hold, w) /\ j.do = "write"
    OBVIOUS
  <2>. QED  BY ONLY <2>1, <1>1, Writing
<1>4. ~ HasNext(s) /\ Here(s) = s.left
  <2>1. s.left \in Nat /\ s.o \in {0, 2} /\ ~ (s.left > MPageSize - s.o)
    BY <1>3, Sizes DEF SlotOK
  <2>. QED  BY <2>1, <1>3 DEF HasNext, Here
<1>5. PICK x : x = Piece(o.t, j.from, j.left)
  OBVIOUS
<1>6. x = Piece(s.t, s.from, Here(s))
  BY <1>3, <1>4, <1>5
<1>7. PICK h : h = PutPiece(f, j.n, j.o, x)
  OBVIOUS
<1>8. PICK q : q = Paged(f.page[n].word, With(f.page[n].data, s.o, x), f.page[n].next)
  OBVIOUS
<1>9. h = Edited(f, n, q)
  <2>1. q = [word |-> f.page[n].word, data |-> With(f.page[n].data, s.o, x), next |-> f.page[n].next]
    BY <1>8 DEF Paged
  <2>. QED  BY <2>1, <1>1, <1>3, <1>7, PieceShape
<1>10. h = Edited(f, w.n, Paged(f.page[w.n].word,
                                With(f.page[w.n].data, own[w.n].o,
                                     Piece(own[w.n].t, own[w.n].from, Here(own[w.n]))),
                                f.page[w.n].next))
  BY <1>1, <1>2, <1>6, <1>8, <1>9
<1>11. FileOK(h, own, nf, With(hold, <<w.of, 0>>, w.t), NoWork)
  <2>1. FileOK(f, own, nf, hold, w) /\ ~ HasNext(own[w.n]) /\ w.t.len > MPageSize - 2 /\ w.t \in Texts
    BY <1>1, <1>2, <1>4 DEF StateOK
  <2>. QED  BY <2>1, <1>2, <1>10, WriteLastOK
<1>12. <<w.of, 0>> \notin DOMAIN hold /\ <<w.of, 0>> # NoPos
  <2>1. w.of \in Nat \ {0} /\ <<w.of, 0>> \notin DOMAIN hold
    BY <1>2, Jobs DEF StateOK, FileOK, WorkOK
  <2>. QED  BY <2>1 DEF NoPos
<1>13. StateOK(h, c, rc, orp, o, SetJob(<<w.of, 0>>), own, nf, With(hold, <<w.of, 0>>, o.t), NoWork)
  BY <1>2, <1>11, <1>12, StoredOK
<1>. QED  BY <1>2, <1>5, <1>7, <1>13

-----------------------------------------------------------------------------
(* What follows when a text is deleted.                                    *)
LEMMA ThenOK ==
  ASSUME NEW f, NEW c, NEW rc, NEW orp, NEW o, NEW j, OpOK(rc, o, j), j.do \in {"walk", "release"},
         NEW own, NEW hold, NEW g
  PROVE  /\ OpOK(rc, o, Then(o.kind))
         /\ Then(o.kind).do # "set" \/ Then(o.kind).pos = NoPos
         /\ JobOK(g, rc, orp, c, o, Then(o.kind), own, hold, NoWork)
<1>1. OpOK(rc, o, Then(o.kind))
  BY SameOp
<1>2. Then(o.kind) = StoreJob \/ (Then(o.kind) = SetJob(NoPos) /\ o.kind = "delete")
  BY DEF Then
<1>3. o.kind = "delete" => o.t.len = 0
  BY Jobs, Sizes DEF OpOK
<1>4. JobOK(g, rc, orp, c, o, SetJob(NoPos), own, hold, NoWork) \/ o.kind # "delete"
  BY <1>3, Jobs DEF JobOK
<1>5. JobOK(g, rc, orp, c, o, StoreJob, own, hold, NoWork)
  BY DEF JobOK
<1>. QED  BY <1>1, <1>2, <1>4, <1>5, Jobs

(* The length on the first page of the last segment says how many bytes it *)
(* has.                                                                    *)
LEMMA SegmentWord ==
  ASSUME NEW s, SlotOK(s), s.o = 2, ~ s.full
  PROVE  Bytes(SlotWord(s)) = s.left /\ Full(SlotWord(s)) = s.full
<1>1. s.left \in Nat /\ s.left <= MaxLStrLen /\ s.full = FALSE
  BY DEF SlotOK
<1>2. SlotWord(s) = s.left
  BY DEF SlotWord
<1>3. ~ Full(s.left) /\ Full(s.left) \in BOOLEAN
  BY <1>1, Sizes DEF Full
<1>. QED  BY <1>1, <1>2, <1>3 DEF Bytes

(* A page of a long text is released.                                      *)
LEMMA ReleaseStepOK ==
  ASSUME NEW f, NEW c, NEW rc, NEW orp, NEW o, NEW j, NEW own, NEW nf, NEW hold, NEW w,
         StateOK(f, c, rc, orp, o, j, own, nf, hold, w), j.do = "release", NEW j2,
         j2 = IF j.bytes > MPageSize THEN [j EXCEPT !.n = f.page[j.n].next, !.bytes = @ - Linked]
              ELSE IF j.full THEN ReleaseJob(ReleasePage(f, j.n), f.page[j.n].next) ELSE Then(o.kind)
  PROVE  \E own2, nf2, w2 : StateOK(ReleasePage(f, j.n), c, rc, orp, o, j2, own2, nf2, hold, w2)
<1>1. PICK n, s, next, g : n = j.n /\ s = own[n] /\ next = f.page[n].next /\ g = ReleasePage(f, n)
  OBVIOUS
<1>2. /\ w.do = "release" /\ w.n = n /\ j.bytes = s.left + s.o /\ j.full = s.full
      /\ j = [do |-> "release", n |-> j.n, bytes |-> j.bytes, full |-> j.full]
  BY <1>1, Jobs DEF StateOK, JobOK
<1>3. FileOK(f, own, nf, hold, w) /\ OpOK(rc, o, j)
  BY DEF StateOK
<1>4. n \in 1 .. f.max /\ SlotOK(s) /\ DOMAIN own = 1 .. f.max
  BY <1>1, <1>2, <1>3, Jobs DEF FileOK, WorkOK
<1>5. s.left \in Nat /\ s.o \in {0, 2} /\ s.full \in BOOLEAN
  BY <1>4 DEF SlotOK
<1>7. PICK v : v = Released(f, own, w)
  OBVIOUS
<1>8. PICK own2 :
      /\ FileOK(g, own2, nf + 1, hold, v) /\ DOMAIN own2 = DOMAIN own
      /\ HasNext(s) => next \in 1 .. f.max /\ own2[next] = Following(s) /\ own[next] = Following(s)
  BY <1>1, <1>2, <1>3, <1>7, ReleaseOneOK
<1>9. HasNext(s) => v = Work("release", w.of, next, w.t) /\ v.do = "release" /\ v.n = next
  BY <1>1, <1>2, <1>7 DEF Released, Work
<1>10. SlotOK(Following(s)) \/ ~ HasNext(s)
  BY <1>4, FollowingOK
<1>11. CASE j.bytes > MPageSize
  <2>1. s.left > MPageSize - s.o /\ HasNext(s)
    BY <1>2, <1>5, <1>11, Sizes DEF HasNext
  <2>2. Following(s) = Slot(s.of, s.t, 0, s.from + (Linked - s.o), s.left - (Linked - s.o), s.full)
    BY <2>1 DEF Following
  <2>3. own2[next].o = 0 /\ own2[next].left = s.left - (Linked - s.o) /\ own2[next].full = s.full
    BY <2>1, <2>2, <1>8, SlotFields
  <2>. PICK a, b, k : a = j.bytes - Linked /\ b = j.full /\ k = j.bytes
    OBVIOUS
  <2>4. j2 = [do |-> "release", n |-> next, bytes |-> a, full |-> b]
    <3>1. j = [do |-> "release", n |-> n, bytes |-> k, full |-> b]
      BY <1>1, <1>2
    <3>2. j2 = [j EXCEPT !.n = next, !.bytes = a]
      BY <1>1, <1>11
    <3>. QED  BY ONLY <3>1, <3>2
  <2>5. /\ j2.do = "release" /\ j2.n = next /\ j2.bytes = j.bytes - Linked /\ j2.full = j.full
        /\ j2 = [do |-> "release", n |-> j2.n, bytes |-> j2.bytes, full |-> j2.full]
    <3>1. j2.do = "release" /\ j2.n = next /\ j2.bytes = a /\ j2.full = b
      BY ONLY <2>4
    <3>. QED  BY <2>4, <3>1
  <2>6. j2.bytes = own2[j2.n].left + own2[j2.n].o /\ j2.full = own2[j2.n].full
    BY <2>3, <2>5, <1>2, <1>5, Sizes
  <2>7. JobOK(g, rc, orp, c, o, j2, own2, hold, v)
    BY <2>1, <2>5, <2>6, <1>9 DEF JobOK
  <2>8. OpOK(rc, o, j2)
    BY <2>5, <1>3, SameOp
  <2>9. StateOK(g, c, rc, orp, o, j2, own2, nf + 1, hold, v)
    <3>1. j.do # "set" /\ j2.do # "set"
      BY <2>5
    <3>2. StateOK(f, c, rc, orp, o, j, own, nf, hold, w)
      OBVIOUS
    <3>. QED  BY ONLY <3>1, <3>2, <2>7, <2>8, <1>8, JobStep
  <2>. QED  BY <2>9, <1>1
<1>12. CASE ~ (j.bytes > MPageSize) /\ j.full
  <2>1. ~ (s.left > MPageSize - s.o) /\ s.full /\ HasNext(s)
    BY <1>2, <1>5, <1>12, Sizes DEF HasNext
  <2>2. PICK u : u = Following(s)
    OBVIOUS
  <2>3. u = Slot(s.of, s.t, 2, MaxLStrLen, s.t.len - MaxLStrLen, FALSE) /\ u.o = 2 /\ u.full = FALSE
    <3>1. u = Slot(s.of, s.t, 2, MaxLStrLen, s.t.len - MaxLStrLen, FALSE)
      BY <2>1, <2>2 DEF Following
    <3>. QED  BY <3>1 DEF Slot
  <2>4. SlotOK(u) /\ own2[next] = u /\ next \in 1 .. f.max
    BY <2>1, <2>2, <1>8, <1>10
  <2>5. Bytes(SlotWord(u)) = u.left /\ Full(SlotWord(u)) = u.full
    BY <2>3, <2>4, SegmentWord
  <2>6. Word(g, <<next, 0>>) = SlotWord(u)
    <3>1. IsFile(g) /\ DOMAIN own2 = 1 .. g.max /\ next \in 1 .. g.max
      BY <2>4, <1>4, <1>8 DEF FileOK
    <3>2. LongOK(g, own2, hold, v, next)
      BY <3>1, <2>4, <1>8, Kinds DEF FileOK, PageOK, SharedOK, FreeOK
    <3>3. 0 \in DOMAIN g.page[next].word /\ g.page[next].word[0] = SlotWord(u)
      BY <3>2, <2>3, <2>4 DEF LongOK, HeadOK
    <3>4. PageAt(g, next) = g.page[next]
      BY <3>1 DEF PageAt, IsFile
    <3>. QED  BY <3>3, <3>4 DEF Word
  <2>7. j2 = ReleaseJob(g, next)
    BY <1>1, <1>12
  <2>8. /\ j2.do = "release" /\ j2.n = next /\ j2.bytes = 2 + u.left /\ j2.full = u.full
        /\ j2 = [do |-> "release", n |-> j2.n, bytes |-> j2.bytes, full |-> j2.full]
    <3>1. PICK a, b : a = 2 + u.left /\ b = u.full
      OBVIOUS
    <3>2. j2 = [do |-> "release", n |-> next, bytes |-> a, full |-> b]
      BY <2>5, <2>6, <2>7, <3>1 DEF ReleaseJob
    <3>3. j2.do = "release" /\ j2.n = next /\ j2.bytes = a /\ j2.full = b
      BY ONLY <3>2
    <3>. QED  BY <3>1, <3>2, <3>3
  <2>9. j2.bytes = own2[j2.n].left + own2[j2.n].o /\ j2.full = own2[j2.n].full
    <3>1. u.left \in Nat /\ own2[j2.n] = u
      BY <2>4, <2>8 DEF SlotOK
    <3>2. j2.bytes = 2 + u.left /\ j2.full = u.full /\ u.o = 2
      BY <2>3, <2>8
    <3>3. own2[j2.n].left + own2[j2.n].o = u.left + 2 /\ own2[j2.n].full = u.full
      BY <3>1, <3>2
    <3>. QED  BY <3>1, <3>2, <3>3
  <2>10. JobOK(g, rc, orp, c, o, j2, own2, hold, v)
    BY <2>1, <2>8, <2>9, <1>9 DEF JobOK
  <2>11. OpOK(rc, o, j2)
    BY <2>8, <1>3, SameOp
  <2>12. StateOK(g, c, rc, orp, o, j2, own2, nf + 1, hold, v)
    <3>1. j.do # "set" /\ j2.do # "set"
      BY <2>8
    <3>2. StateOK(f, c, rc, orp, o, j, own, nf, hold, w)
      OBVIOUS
    <3>. QED  BY ONLY <3>1, <3>2, <2>10, <2>11, <1>8, JobStep
  <2>. QED  BY <2>12, <1>1
<1>13. CASE ~ (j.bytes > MPageSize) /\ ~ j.full
  <2>1. ~ HasNext(s)
    BY <1>2, <1>5, <1>13, Sizes DEF HasNext
  <2>2. v = NoWork
    BY <2>1, <1>1, <1>2, <1>7 DEF Released
  <2>3. j2 = Then(o.kind)
    BY <1>13
  <2>4. OpOK(rc, o, j2) /\ (j2.do # "set" \/ j2.pos = NoPos) /\ JobOK(g, rc, orp, c, o, j2, own2, hold, v)
    BY <2>2, <2>3, <1>3, ThenOK
  <2>5. StateOK(g, c, rc, orp, o, j2, own2, nf + 1, hold, v)
    <3>1. j.do # "set"
      OBVIOUS
    <3>2. StateOK(f, c, rc, orp, o, j, own, nf, hold, w)
      OBVIOUS
    <3>. QED  BY ONLY <3>1, <3>2, <2>4, <1>8, JobStep
  <2>. QED  BY <2>5, <1>1
<1>. QED  BY <1>11, <1>12, <1>13

(* The walk.                                                               *)
LEMMA WalkingOK ==
  ASSUME NEW f, NEW c, NEW rc, NEW orp, NEW o, NEW j, NEW own, NEW nf, NEW hold, NEW w,
         StateOK(f, c, rc, orp, o, j, own, nf, hold, w), j.do = "walk"
  PROVE  /\ FileOK(f, own, nf, hold, NoWork) /\ OpOK(rc, o, j) /\ w = NoWork
         /\ j.n \in 1 .. f.max /\ own[j.n] = SharedPage /\ Walking(f.page[j.n].word, j.p) /\ j = WalkJob(j.n, j.p)
         /\ IsPage(f.page[j.n]) /\ FragmentsOK(f.page[j.n]) /\ IsFile(f) /\ PartOK(f, own, f.part)
<1>1. /\ w = NoWork /\ j.n \in 1 .. f.max /\ own[j.n] = SharedPage /\ Walking(f.page[j.n].word, j.p)
      /\ j = WalkJob(j.n, j.p)
  BY Jobs DEF StateOK, JobOK
<1>2. FileOK(f, own, nf, hold, NoWork) /\ OpOK(rc, o, j)
  BY <1>1 DEF StateOK
<1>3. PageOK(f, own, nf, hold, NoWork, j.n) /\ IsFile(f) /\ PartOK(f, own, f.part)
  BY <1>1, <1>2 DEF FileOK
<1>4. SharedOK(f, own, hold, j.n) /\ IsPage(f.page[j.n])
  BY <1>1, <1>3, Kinds DEF PageOK, FreeOK, LongOK
<1>. QED  BY <1>1, <1>2, <1>3, <1>4 DEF SharedOK

(* The walk goes on behind a fragment or at it, with the same texts in the *)
(* file.                                                                   *)
LEMMA WalkOn ==
  ASSUME NEW f, NEW c, NEW rc, NEW orp, NEW o, NEW j, NEW own, NEW nf, NEW hold, NEW w,
         StateOK(f, c, rc, orp, o, j, own, nf, hold, w), j.do = "walk",
         NEW g, FileOK(g, own, nf, hold, NoWork), g.max = f.max, NEW p, Walking(g.page[j.n].word, p)
  PROVE  StateOK(g, c, rc, orp, o, WalkJob(j.n, p), own, nf, hold, NoWork)
<1>1. PICK j2 : j2 = WalkJob(j.n, p)
  OBVIOUS
<1>2. j2.do = "walk" /\ j2.n = j.n /\ j2.p = p /\ j2 = WalkJob(j2.n, j2.p)
  BY <1>1, Jobs
<1>3. JobOK(g, rc, orp, c, o, j2, own, hold, NoWork)
  BY <1>2, WalkingOK DEF JobOK
<1>4. OpOK(rc, o, j2)
  BY <1>2, WalkingOK, SameOp
<1>5. StateOK(g, c, rc, orp, o, j2, own, nf, hold, NoWork)
  <2>1. j.do # "set" /\ j2.do # "set"
    BY <1>2
  <2>. QED  BY <2>1, <1>3, <1>4, JobStep
<1>. QED  BY <1>1, <1>5

(* The walk is done.                                                       *)
LEMMA WalkedOK ==
  ASSUME NEW f, NEW c, NEW rc, NEW orp, NEW o, NEW j, NEW own, NEW nf, NEW hold, NEW w,
         StateOK(f, c, rc, orp, o, j, own, nf, hold, w), j.do = "walk",
         NEW g, FileOK(g, own, nf, hold, NoWork), g.max = f.max, g.page = f.page
  PROVE  \E own2, nf2 : StateOK(AfterWalk(g, j.n), c, rc, orp, o, Then(o.kind), own2, nf2, hold, NoWork)
<1>1. j.n \in 1 .. g.max /\ own[j.n] = SharedPage /\ 0 \in DOMAIN g.page[j.n].word /\ OpOK(rc, o, j)
  BY WalkingOK DEF Walking
<1>2. PICK h : h = AfterWalk(g, j.n)
  OBVIOUS
<1>3. PICK own2, nf2 : FileOK(h, own2, nf2, hold, NoWork)
  BY <1>1, <1>2, AfterWalkOK
<1>4. PICK j2 : j2 = Then(o.kind)
  OBVIOUS
<1>5. OpOK(rc, o, j2) /\ (j2.do # "set" \/ j2.pos = NoPos) /\ JobOK(h, rc, orp, c, o, j2, own2, hold, NoWork)
  BY <1>1, <1>4, ThenOK
<1>6. StateOK(h, c, rc, orp, o, j2, own2, nf2, hold, NoWork)
  <2>1. j.do # "set" /\ StateOK(f, c, rc, orp, o, j, own, nf, hold, w)
    OBVIOUS
  <2>. QED  BY ONLY <2>1, <1>3, <1>5, JobStep
<1>. QED  BY <1>2, <1>4, <1>6

(* FreePart is drawn back.                                                 *)
LEMMA DrawnBackOK ==
  ASSUME NEW f, NEW c, NEW rc, NEW orp, NEW o, NEW j, NEW own, NEW nf, NEW hold, NEW w,
         StateOK(f, c, rc, orp, o, j, own, nf, hold, w), j.do = "walk",
         NEW p \in Nat, Between(f.page[j.n].word, p), Behind(f.page[j.n], p),
         NEW g, g = [f EXCEPT !.part = <<j.n, p>>]
  PROVE  \E own2, nf2 : StateOK(AfterWalk(g, j.n), c, rc, orp, o, Then(o.kind), own2, nf2, hold, NoWork)
<1>1. PICK part : part = <<j.n, p>>
  OBVIOUS
<1>2. part = <<part[1], part[2]>> /\ part[1] = j.n /\ part[2] = p
  BY <1>1
<1>3. PartOK(f, own, part)
  BY <1>2, WalkingOK DEF PartOK
<1>4. FileOK(g, own, nf, hold, NoWork)
  BY <1>1, <1>3, WalkingOK, PartChangeOK
<1>5. g.max = f.max /\ g.page = f.page
  <2>1. f = [page |-> f.page, free |-> f.free, max |-> f.max, part |-> f.part]
    BY WalkingOK DEF IsFile
  <2>2. g = [f EXCEPT !.part = part]
    BY <1>1
  <2>. QED  BY ONLY <2>1, <2>2
<1>. QED  BY <1>4, <1>5, WalkedOK

-----------------------------------------------------------------------------
(* Each step of the text file keeps the invariant.                         *)
LEMMA WalkStep ==
  ASSUME NEW own, NEW nf, NEW hold, NEW w,
         StateOK(file, cached, rec, orphans, op, job, own, nf, hold, w), Walk
  PROVE  \E own2, nf2, hold2, w2 : StateOK(file', cached, rec, orphans, op, job', own2, nf2, hold2, w2)
<1>1. PICK n, p, v : n = job.n /\ p = job.p /\ v = file.page[n].word
  OBVIOUS
<1>2. PICK next : next = p - v[p] + 2
  OBVIOUS
<1>3. /\ job.do = "walk" /\ p \in DOMAIN v /\ <<n, p>> # file.part
      /\ \/ SkipText(v, n, p) \/ SkipFree(v, n, p, next) \/ JoinFree(v, n, p, next)
         \/ DrawBack(v, n, p, next) \/ LastFree(v, n, p, next)
  BY <1>1, <1>2 DEF Walk
<1>4. /\ FileOK(file, own, nf, hold, NoWork) /\ w = NoWork
      /\ n \in 1 .. file.max /\ own[n] = SharedPage /\ Walking(v, p) /\ job = WalkJob(n, p)
      /\ IsPage(file.page[n]) /\ FragmentsOK(file.page[n]) /\ IsFile(file) /\ PartOK(file, own, file.part)
  BY <1>1, <1>3, WalkingOK
<1>5. DOMAIN v \subseteq 0 .. MPageSize - 3 /\ Tiled(v) /\ p \in Nat /\ v[p] \in Int
  <2>1. p \in DOMAIN v /\ FragmentsOK(file.page[n]) /\ IsPage(file.page[n]) /\ v = file.page[n].word
    BY <1>1, <1>3, <1>4
  <2>. QED  BY ONLY <2>1, Sizes DEF FragmentsOK, IsPage
<1>6. StateOK(file, cached, rec, orphans, op, job, own, nf, hold, w)
  OBVIOUS
<1>7. CASE SkipText(v, n, p)
  <2>1. PICK q : q = p + v[p] + 2
    OBVIOUS
  <2>2. job' = WalkJob(n, q) /\ file' = file /\ v[p] > 0
    BY <1>7, <2>1 DEF SkipText
  <2>3. End(v, p) = q
    BY <1>5, <2>1, <2>2 DEF End
  <2>4. Walking(file.page[job.n].word, q)
    BY <1>1, <1>3, <1>4, <2>3 DEF Walking
  <2>5. StateOK(file, cached, rec, orphans, op, WalkJob(job.n, q), own, nf, hold, NoWork)
    BY ONLY <1>3, <1>4, <1>6, <2>4, WalkOn
  <2>. QED  BY <2>2, <2>5, <1>1
<1>8. CASE SkipFree(v, n, p, next)
  <2>1. job' = WalkJob(n, next) /\ file' = file /\ next \in DOMAIN v
    BY <1>8 DEF SkipFree
  <2>2. Walking(file.page[job.n].word, next)
    BY <1>1, <1>4, <2>1 DEF Walking
  <2>3. StateOK(file, cached, rec, orphans, op, WalkJob(job.n, next), own, nf, hold, NoWork)
    BY ONLY <1>3, <1>4, <1>6, <2>2, WalkOn
  <2>. QED  BY <2>1, <2>3, <1>1
<1>9. CASE JoinFree(v, n, p, next)
  <2>1. PICK x : x = Joined(v, p, next)
    OBVIOUS
  <2>2. /\ next \in DOMAIN v /\ <<n, next>> # file.part /\ v[p] <= 0 /\ v[next] <= 0 /\ job' = job
        /\ file' = SetWord(file, n, x)
    BY <1>9, <2>1 DEF JoinFree, Joined, SetWord
  <2>3. PICK g : g = Edited(file, n, Paged(x, file.page[n].data, file.page[n].next))
    OBVIOUS
  <2>4. file' = g
    <3>1. PICK q : q = [word |-> x, data |-> file.page[n].data, next |-> file.page[n].next]
      OBVIOUS
    <3>2. PICK d : d = file.page[n]
      OBVIOUS
    <3>3. SetWord(file, n, x) = Edited(file, n, q)
      BY <1>4, <3>1, <3>2, EditWord
    <3>. QED  BY <2>2, <2>3, <3>1, <3>3 DEF Paged
  <2>5. FileOK(g, own, nf, hold, NoWork) /\ p \in DOMAIN x /\ 0 \in DOMAIN x
    <3>1. /\ p \in DOMAIN file.page[n].word /\ file.page[n].word[p] <= 0
          /\ next \in DOMAIN file.page[n].word /\ next = p - file.page[n].word[p] + 2
          /\ file.page[n].word[next] <= 0 /\ <<n, next>> # file.part /\ x = Joined(file.page[n].word, p, next)
          /\ 0 \in DOMAIN file.page[n].word
      BY <1>1, <1>2, <1>3, <1>4, <2>1, <2>2 DEF Walking
    <3>. QED  BY ONLY <3>1, <1>4, <2>3, JoinOK
  <2>6. g.max = file.max /\ g.page[n].word = x
    BY <1>4, <2>3, EditedShape DEF Paged
  <2>7. Walking(g.page[job.n].word, p)
    BY <1>1, <2>5, <2>6 DEF Walking
  <2>8. StateOK(g, cached, rec, orphans, op, WalkJob(job.n, p), own, nf, hold, NoWork)
    BY ONLY <1>3, <1>6, <2>5, <2>6, <2>7, WalkOn
  <2>. QED  BY <2>2, <2>4, <2>8, <1>1, <1>4
<1>10. CASE DrawBack(v, n, p, next)
  <2>1. PICK g : g = [file EXCEPT !.part = <<n, p>>]
    OBVIOUS
  <2>2. /\ v[p] <= 0 /\ (file.part = <<n, next>> \/ next = MPageSize)
        /\ file' = AfterWalk(g, n) /\ job' = Then(op.kind)
    BY <1>1, <1>10, <2>1 DEF DrawBack, Walked, AfterWalk
  <2>3. End(v, p) = next /\ next \in Nat
    BY <1>2, <1>5, <2>2 DEF End
  <2>4. \A k \in DOMAIN v : k <= p \/ k >= next
    BY <1>3, <1>5, <2>3 DEF Tiled
  <2>5. ASSUME NEW k \in DOMAIN v, k >= next PROVE v[k] <= 0
    <3>1. CASE file.part = <<n, next>>
      <4>1. file.part[1] = n /\ file.part[2] = next
        BY <3>1
      <4>2. Behind(file.page[n], next)
        BY <4>1, <1>4 DEF PartOK
      <4>. QED  BY <4>2, <2>5, <1>1 DEF Behind
    <3>2. CASE next = MPageSize
      BY <3>2, <2>5, <1>5, Sizes
    <3>. QED  BY <3>1, <3>2, <2>2
  <2>6. Behind(file.page[job.n], p)
    <3>1. ASSUME NEW k \in DOMAIN v, k >= p PROVE v[k] <= 0
      <4>1. k = p \/ k >= next
        BY <3>1, <2>4, <1>5
      <4>. QED  BY <4>1, <2>2, <2>5
    <3>. QED  BY <3>1, <1>1 DEF Behind
  <2>7. Between(file.page[job.n].word, p)
    BY <1>1, <1>3 DEF Between
  <2>8. g = [file EXCEPT !.part = <<job.n, p>>]
    BY <1>1, <2>1
  <2>9. PICK own2, nf2 : StateOK(AfterWalk(g, job.n), cached, rec, orphans, op, Then(op.kind), own2, nf2, hold, NoWork)
    BY ONLY <1>3, <1>5, <1>6, <2>6, <2>7, <2>8, DrawnBackOK
  <2>. QED  BY <2>2, <2>9, <1>1
<1>11. CASE LastFree(v, n, p, next)
  <2>1. file' = AfterWalk(file, n) /\ job' = Then(op.kind)
    BY <1>1, <1>11 DEF LastFree, Walked, AfterWalk
  <2>2. PICK own2, nf2 : StateOK(AfterWalk(file, job.n), cached, rec, orphans, op, Then(op.kind), own2, nf2, hold, NoWork)
    BY ONLY <1>3, <1>4, <1>6, WalkedOK
  <2>. QED  BY <2>1, <2>2, <1>1
<1>. QED  BY <1>3, <1>7, <1>8, <1>9, <1>10, <1>11

(* The walk ends at FreePart or at the end of the page.                    *)
LEMMA WalkEndsStep ==
  ASSUME NEW own, NEW nf, NEW hold, NEW w,
         StateOK(file, cached, rec, orphans, op, job, own, nf, hold, w), WalkEnds
  PROVE  \E own2, nf2, hold2, w2 : StateOK(file', cached, rec, orphans, op, job', own2, nf2, hold2, w2)
<1>1. job.do = "walk" /\ file' = AfterWalk(file, job.n) /\ job' = Then(op.kind)
  BY DEF WalkEnds, Walked, AfterWalk
<1>2. FileOK(file, own, nf, hold, NoWork)
  BY <1>1, WalkingOK
<1>3. PICK own2, nf2 : StateOK(AfterWalk(file, job.n), cached, rec, orphans, op, Then(op.kind), own2, nf2, hold, NoWork)
  BY <1>1, <1>2, WalkedOK
<1>. QED  BY <1>1, <1>3

(* FreePart is drawn back to the one or two last bytes of a page.          *)
LEMMA TailDrawsBackStep ==
  ASSUME NEW own, NEW nf, NEW hold, NEW w,
         StateOK(file, cached, rec, orphans, op, job, own, nf, hold, w), TailDrawsBack
  PROVE  \E own2, nf2, hold2, w2 : StateOK(file', cached, rec, orphans, op, job', own2, nf2, hold2, w2)
<1>1. PICK n, p, v, g : n = job.n /\ p = job.p /\ v = file.page[n].word /\ g = [file EXCEPT !.part = <<n, p>>]
  OBVIOUS
<1>2. /\ job.do = "walk" /\ p \in MPageSize - 2 .. MPageSize - 1 /\ p \notin DOMAIN v
      /\ file' = AfterWalk(g, n) /\ job' = Then(op.kind)
  BY <1>1 DEF TailDrawsBack, Walked, AfterWalk
<1>3. Walking(v, p) /\ FragmentsOK(file.page[n])
  BY <1>1, <1>2, WalkingOK
<1>4. p \in Nat
  BY <1>2, Sizes
<1>5. Between(file.page[job.n].word, p)
  BY <1>1, <1>2, <1>3 DEF Walking, Between
<1>6. Behind(file.page[job.n], p)
  BY <1>1, <1>2, <1>3, Sizes DEF FragmentsOK, Behind
<1>7. g = [file EXCEPT !.part = <<job.n, p>>]
  BY <1>1
<1>8. PICK own2, nf2 : StateOK(AfterWalk(g, job.n), cached, rec, orphans, op, Then(op.kind), own2, nf2, hold, NoWork)
  BY <1>2, <1>4, <1>5, <1>6, <1>7, DrawnBackOK
<1>. QED  BY <1>1, <1>2, <1>8

(* A text is stored: none, a short one, the beginning of a long one.       *)
LEMMA StoreSteps ==
  ASSUME NEW own, NEW nf, NEW hold, NEW w,
         StateOK(file, cached, rec, orphans, op, job, own, nf, hold, w),
         StoreNothing \/ StoreShort \/ StoreLong
  PROVE  \E own2, nf2, hold2, w2 : StateOK(file', cached, rec, orphans, op, job', own2, nf2, hold2, w2)
<1>1. CASE StoreNothing
  BY <1>1, StoreNothingOK DEF StoreNothing
<1>2. CASE StoreShort
  <2>1. /\ job.do = "store" /\ op.t.len \in 1 .. MPageSize - 2
        /\ Fits(file, op.t) => /\ file' = PutShort(file, file.part[1], file.part[2], op.t)
                               /\ job' = SetJob(file.part)
        /\ ~ Fits(file, op.t) => /\ file' = PutShort(NewPage(file).f, NewPage(file).n, 0, op.t)
                                 /\ job' = SetJob(<<NewPage(file).n, 0>>)
    BY <1>2 DEF StoreShort
  <2>. QED  BY <2>1, StoreShortOK
<1>3. CASE StoreLong
  <2>1. PICK n : n = NewPage(file).n
    OBVIOUS
  <2>2. /\ job.do = "store" /\ op.t.len > MPageSize - 2
        /\ file' = PutHead(NewPage(file).f, n, op.t.len)
        /\ job' = WriteJob(n, n, 2, 0, Bytes(Head4(op.t.len)), Full(Head4(op.t.len)))
    BY <1>3, <2>1 DEF StoreLong
  <2>. QED  BY <2>1, <2>2, StoreLongStepOK
<1>. QED  BY <1>1, <1>2, <1>3

(* The pages of a long text are written, or released.                      *)
LEMMA WriteSteps ==
  ASSUME NEW own, NEW nf, NEW hold, NEW w,
         StateOK(file, cached, rec, orphans, op, job, own, nf, hold, w),
         WriteMore \/ WriteSegment \/ WriteLast \/ ReleaseOne
  PROVE  \E own2, nf2, hold2, w2 : StateOK(file', cached, rec, orphans, op, job', own2, nf2, hold2, w2)
<1>1. CASE WriteMore
  <2>1. /\ job.do = "write" /\ job.left > MPageSize - job.o
        /\ file' = Link(PutPiece(NewPage(file).f, job.n, job.o, Piece(op.t, job.from, Linked - job.o)),
                        job.n, NewPage(file).n)
        /\ job' = WriteJob(job.first, NewPage(file).n, 0, job.from + (Linked - job.o),
                           job.left - (Linked - job.o), job.full)
    BY <1>1 DEF WriteMore, Piece
  <2>. QED  BY <2>1, WriteMoreOK
<1>2. CASE WriteSegment
  <2>1. /\ job.do = "write" /\ job.left <= MPageSize - job.o /\ job.full
        /\ file' = PutHead(Link(PutPiece(NewPage(file).f, job.n, job.o, Piece(op.t, job.from, job.left)),
                                job.n, NewPage(file).n), NewPage(file).n, op.t.len - MaxLStrLen)
        /\ job' = WriteJob(job.first, NewPage(file).n, 2, MaxLStrLen, op.t.len - MaxLStrLen, FALSE)
    BY <1>2 DEF WriteSegment
  <2>2. PICK g, j2 : g = file' /\ j2 = job'
    OBVIOUS
  <2>3. PICK j : j = job
    OBVIOUS
  <2>4. StateOK(file, cached, rec, orphans, op, j, own, nf, hold, w) /\ j.do = "write" /\ j.left <= MPageSize - j.o /\ j.full
    BY <2>1, <2>3
  <2>5. /\ g = PutHead(Link(PutPiece(NewPage(file).f, j.n, j.o, Piece(op.t, j.from, j.left)),
                           j.n, NewPage(file).n), NewPage(file).n, op.t.len - MaxLStrLen)
        /\ j2 = SecondJob(j, NewPage(file).n, op.t.len - MaxLStrLen)
    BY <2>1, <2>2, <2>3 DEF SecondJob
  <2>6. \E own2, nf2, w2 : StateOK(g, cached, rec, orphans, op, j2, own2, nf2, hold, w2)
    BY ONLY <2>4, <2>5, WriteSegmentOK
  <2>. QED  BY <2>2, <2>6
<1>3. CASE WriteLast
  BY <1>3, WriteLastStepOK DEF WriteLast
<1>4. CASE ReleaseOne
  <2>1. PICK j2 : j2 = job'
    OBVIOUS
  <2>2. /\ job.do = "release" /\ file' = ReleasePage(file, job.n)
        /\ j2 = IF job.bytes > MPageSize THEN [job EXCEPT !.n = file.page[job.n].next, !.bytes = @ - Linked]
                ELSE IF job.full THEN ReleaseJob(ReleasePage(file, job.n), file.page[job.n].next)
                ELSE Then(op.kind)
    BY <1>4, <2>1 DEF ReleaseOne
  <2>3. \E own2, nf2, w2 : StateOK(ReleasePage(file, job.n), cached, rec, orphans, op, j2, own2, nf2, hold, w2)
    BY <2>2, ReleaseStepOK
  <2>. QED  BY <2>1, <2>2, <2>3
<1>. QED  BY <1>1, <1>2, <1>3, <1>4

-----------------------------------------------------------------------------
(* When the text of a record is deleted it is no longer held; in a shared  *)
(* file it stays.                                                          *)
LEMMA GoneOK ==
  ASSUME NEW f, NEW c, NEW rc, NEW orp, NEW o, NEW j, NEW own, NEW nf, NEW hold, NEW w,
         StateOK(f, c, rc, orp, o, j, own, nf, hold, w), j.do \in {"none", "move"},
         NEW r \in DOMAIN rc, NEW pos, pos = rc[r].pos, NEW o2, o2.old = pos,
         NEW j2, j2.do # "set" \/ j2.pos = NoPos
  PROVE  /\ w = NoWork /\ FileOK(f, own, nf, hold, NoWork) /\ RecsOK(rc, orp)
         /\ pos = NoPos \/ ~ c => DOMAIN hold = HeldOf(rc, orp, c, o2, j2) /\ TextsHeld(rc, orp, c, o2, hold)
         /\ pos # NoPos /\ c => /\ pos \in DOMAIN hold /\ hold[pos] = rc[r].t
                                /\ DOMAIN Without(hold, pos) = HeldOf(rc, orp, c, o2, j2)
                                /\ TextsHeld(rc, orp, c, o2, Without(hold, pos))
<1>1. /\ FileOK(f, own, nf, hold, w) /\ RecsOK(rc, orp) /\ OpOK(rc, o, j)
      /\ DOMAIN hold = HeldOf(rc, orp, c, o, j) /\ TextsHeld(rc, orp, c, o, hold)
      /\ JobOK(f, rc, orp, c, o, j, own, hold, w)
  BY DEF StateOK
<1>2. w = NoWork
  BY <1>1 DEF JobOK
<1>3. o.old = NoPos
  BY <1>1, Jobs DEF OpOK, Storing
<1>4. /\ PosOf(rc) \cap orp = {} /\ NoPos \notin orp /\ NoPos \notin PosOf(rc)
      /\ \A q \in DOMAIN rc : rc[q].pos \in PosOf(rc) \/ rc[q].pos = NoPos
  BY <1>1 DEF RecsOK, PosOf
<1>5. DOMAIN hold = PosOf(rc) \cup orp
  BY <1>1, <1>3, <1>4 DEF HeldOf, Live, Gone
<1>6. \A q \in DOMAIN rc : rc[q].pos # NoPos => hold[rc[q].pos] = rc[q].t
  BY <1>1, <1>3, <1>4 DEF TextsHeld, Gone
<1>7. HeldOf(rc, orp, c, o2, j2) = Live(rc, orp, c, o2)
  BY DEF HeldOf, Live
<1>8. CASE pos = NoPos \/ ~ c
  <2>1. Live(rc, orp, c, o2) = PosOf(rc) \cup orp
    BY <1>4, <1>8 DEF Live, Gone
  <2>2. TextsHeld(rc, orp, c, o2, hold)
    BY <1>4, <1>6 DEF TextsHeld
  <2>. QED  BY <2>1, <2>2, <1>1, <1>2, <1>5, <1>7, <1>8
<1>9. CASE pos # NoPos /\ c
  <2>1. pos \in PosOf(rc) /\ pos \notin orp
    BY <1>4, <1>9
  <2>2. Live(rc, orp, c, o2) = (PosOf(rc) \cup orp) \ {pos}
    BY <1>4, <1>9, <2>1 DEF Live, Gone
  <2>3. DOMAIN Without(hold, pos) = HeldOf(rc, orp, c, o2, j2)
    <3>1. DOMAIN Without(hold, pos) = DOMAIN hold \ {pos}
      BY DEF Without
    <3>. QED  BY <2>2, <3>1, <1>5, <1>7
  <2>4. TextsHeld(rc, orp, c, o2, Without(hold, pos))
    <3>1. ASSUME NEW q \in DOMAIN rc, rc[q].pos \in PosOf(rc) \ Gone(c, o2)
          PROVE  Without(hold, pos)[rc[q].pos] = rc[q].t
      <4>1. rc[q].pos # pos /\ rc[q].pos # NoPos /\ rc[q].pos \in DOMAIN hold
        BY <3>1, <1>4, <1>5, <1>9 DEF Gone
      <4>2. Without(hold, pos)[rc[q].pos] = hold[rc[q].pos]
        BY <4>1 DEF Without
      <4>. QED  BY <4>1, <4>2, <1>6
    <3>. QED  BY <3>1 DEF TextsHeld
  <2>. QED  BY <2>1, <2>3, <2>4, <1>1, <1>2, <1>5, <1>6, <1>9
<1>. QED  BY <1>8, <1>9

(* Delete: the text of the record of the operation.                        *)
LEMMA DeletingOK ==
  ASSUME NEW own, NEW nf, NEW hold, NEW w,
         StateOK(file, cached, rec, orphans, op, job, own, nf, hold, w), job.do \in {"none", "move"},
         NEW o2, o2.at \in DOMAIN rec, o2.old = rec[o2.at].pos, Deleting(o2.old, o2.kind),
         o2.kind = "delete" => o2.t.len = 0,
         \A j2 : j2.do \in {"walk", "release"} \/ j2 = Then(o2.kind) => OpOK(rec, o2, j2)
  PROVE  \E own2, nf2, hold2, w2 : StateOK(file', cached, rec, orphans, o2, job', own2, nf2, hold2, w2)
<1>1. PICK pos, n, a : pos = o2.old /\ n = pos[1] /\ a = pos[2]
  OBVIOUS
<1>2. PICK j2 : j2 = job'
  OBVIOUS
<1>3. w = NoWork /\ FileOK(file, own, nf, hold, NoWork) /\ RecsOK(rec, orphans)
  BY Jobs, GoneOK
<1>4. CASE pos = NoPos \/ ~ cached
  <2>1. j2 = Then(o2.kind) /\ file' = file
    BY <1>1, <1>2, <1>4 DEF Deleting
  <2>2. OpOK(rec, o2, j2)
    BY <2>1
  <2>3. j2 = StoreJob \/ (j2 = SetJob(NoPos) /\ o2.t.len = 0)
    BY <2>1 DEF Then
  <2>4. j2.do # "set" \/ j2.pos = NoPos
    BY <2>3, Jobs
  <2>5. DOMAIN hold = HeldOf(rec, orphans, cached, o2, j2) /\ TextsHeld(rec, orphans, cached, o2, hold)
    BY <1>1, <1>4, <2>4, GoneOK
  <2>6. JobOK(file, rec, orphans, cached, o2, j2, own, hold, NoWork)
    BY <2>3, Jobs DEF JobOK
  <2>7. StateOK(file, cached, rec, orphans, o2, j2, own, nf, hold, NoWork)
    BY <2>2, <2>5, <2>6, <1>3 DEF StateOK
  <2>. QED  BY <2>1, <2>7, <1>2
<1>5. CASE ~ (pos = NoPos \/ ~ cached) /\ Word(file, pos) < MPageSize - 2
  <2>1. PICK q : q = FreeText(file.page[n], a)
    OBVIOUS
  <2>2. /\ j2 = WalkJob(n, 0)
        /\ file' = SetPage(file, n, FreeText(file.page[n], a))
    BY <1>1, <1>2, <1>5 DEF Deleting, SetPage
  <2>3. j2.do = "walk" /\ j2.n = n /\ j2.p = 0 /\ j2 = WalkJob(j2.n, j2.p)
    BY <2>2, Jobs
  <2>4. /\ pos \in DOMAIN hold
        /\ DOMAIN Without(hold, pos) = HeldOf(rec, orphans, cached, o2, j2)
        /\ TextsHeld(rec, orphans, cached, o2, Without(hold, pos))
    BY <1>1, <1>5, <2>3, GoneOK
  <2>5. hold[pos].len < MPageSize - 2 /\ n \in 1 .. file.max
    <3>1. /\ n \in 1 .. file.max /\ Word(file, pos) = Head4(hold[pos].len) /\ hold[pos].len \in Nat
          /\ hold[pos].len <= MPageSize - 2 => Head4(hold[pos].len) = hold[pos].len
          /\ hold[pos].len > MPageSize - 2 => Head4(hold[pos].len) > MPageSize - 2
      BY <1>1, <1>3, <2>4, Jobs, HeldWord
    <3>2. Head4(hold[pos].len) \in Int
      BY <3>1, Sizes DEF Head4
    <3>. QED  BY <3>1, <3>2, <1>5, Sizes
  <2>6. PICK g : g = Edited(file, n, q)
    OBVIOUS
  <2>7. FileOK(g, own, nf, Without(hold, pos), NoWork) /\ own[n] = SharedPage /\ 0 \in DOMAIN g.page[n].word
    <3>1. FileOK(file, own, nf, hold, NoWork) /\ pos[1] = n /\ pos[2] = a
      BY <1>1, <1>3
    <3>2. g = Edited(file, pos[1], FreeText(file.page[pos[1]], pos[2]))
      BY <2>1, <2>6, <3>1
    <3>3. /\ FileOK(g, own, nf, Without(hold, pos), NoWork)
          /\ own[pos[1]] = SharedPage /\ 0 \in DOMAIN g.page[pos[1]].word
      BY ONLY <2>4, <2>5, <3>1, <3>2, FreeTextOK
    <3>. QED  BY <3>1, <3>3
  <2>8. IsFile(file) /\ IsPage(file.page[n])
    BY <1>3, <2>5 DEF FileOK, PageOK
  <2>9. file' = g
    BY <2>1, <2>2, <2>5, <2>6, <2>8, EditPage
  <2>10. g.max = file.max
    BY <2>5, <2>6, <2>8, EditedShape
  <2>11. JobOK(g, rec, orphans, cached, o2, j2, own, Without(hold, pos), NoWork)
    BY <2>3, <2>5, <2>7, <2>10 DEF JobOK, Walking
  <2>12. OpOK(rec, o2, j2)
    BY <2>3
  <2>13. StateOK(g, cached, rec, orphans, o2, j2, own, nf, Without(hold, pos), NoWork)
    BY <2>4, <2>7, <2>11, <2>12, <1>3 DEF StateOK
  <2>. QED  BY <2>9, <2>13, <1>2
<1>6. CASE ~ (pos = NoPos \/ ~ cached) /\ ~ (Word(file, pos) < MPageSize - 2)
  <2>1. j2 = ReleaseJob(file, n) /\ file' = file
    BY <1>1, <1>2, <1>6 DEF Deleting
  <2>2. PICK b, full : b = 2 + Bytes(Word(file, <<n, 0>>)) /\ full = Full(Word(file, <<n, 0>>))
    OBVIOUS
  <2>3. j2 = [do |-> "release", n |-> n, bytes |-> b, full |-> full]
    BY <2>1, <2>2 DEF ReleaseJob
  <2>4. j2.do = "release" /\ j2.n = n /\ j2.bytes = b /\ j2.full = full
    BY ONLY <2>3
  <2>5. /\ pos \in DOMAIN hold
        /\ DOMAIN Without(hold, pos) = HeldOf(rec, orphans, cached, o2, j2)
        /\ TextsHeld(rec, orphans, cached, o2, Without(hold, pos))
    BY <1>1, <1>6, <2>4, GoneOK
  <2>6. PICK t : t = hold[pos]
    OBVIOUS
  <2>7. /\ t.len >= MPageSize - 2 /\ n \in 1 .. file.max /\ t \in Texts /\ pos = <<n, a>>
        /\ Word(file, pos) = Head4(t.len)
    <3>1. /\ n \in 1 .. file.max /\ Word(file, pos) = Head4(t.len) /\ t.len \in Nat /\ t \in Texts /\ pos = <<n, a>>
          /\ t.len <= MPageSize - 2 => Head4(t.len) = t.len
      BY <1>1, <1>3, <2>5, <2>6, Jobs, HeldWord
    <3>. QED  BY <3>1, <1>6, Sizes
  <2>8. PICK w2 : w2 = Work("release", n, n, t)
    OBVIOUS
  <2>9. a = 0 /\ \E own2 : FileOK(file, own2, nf, Without(hold, pos), w2) /\ own2[n] = First(n, t)
    <3>1. FileOK(file, own, nf, hold, NoWork) /\ pos \in DOMAIN hold /\ hold[pos].len >= MPageSize - 2
      BY <1>3, <2>5, <2>6, <2>7
    <3>2. /\ \E own2 : /\ FileOK(file, own2, nf, Without(hold, pos), Work("release", pos[1], pos[1], hold[pos]))
                      /\ own2[pos[1]] = First(pos[1], hold[pos])
          /\ pos[2] = 0
      BY ONLY <3>1, StartReleaseOK
    <3>. QED  BY <1>1, <2>6, <2>8, <3>2
  <2>10. PICK own2 : FileOK(file, own2, nf, Without(hold, pos), w2) /\ own2[n] = First(n, t)
    BY <2>9
  <2>11. j2.bytes = own2[n].left + own2[n].o /\ j2.full = own2[n].full
    <3>1. n \in Nat \ {0}
      BY <2>7
    <3>2. /\ SlotOK(First(n, t)) /\ First(n, t).o = 2
          /\ First(n, t).left = Bytes(Head4(t.len)) /\ First(n, t).full = Full(Head4(t.len))
      BY <3>1, <2>7, FirstOK
    <3>3. Bytes(Head4(t.len)) \in Nat
      BY <3>2 DEF SlotOK
    <3>4. b = 2 + Bytes(Head4(t.len)) /\ full = Full(Head4(t.len))
      BY <2>2, <2>7, <2>9
    <3>. QED  BY <2>4, <2>10, <3>2, <3>3, <3>4
  <2>12. JobOK(file, rec, orphans, cached, o2, j2, own2, Without(hold, pos), w2)
    <3>1. w2.do = "release" /\ w2.n = n
      BY <2>8 DEF Work
    <3>2. j2 = [do |-> "release", n |-> j2.n, bytes |-> j2.bytes, full |-> j2.full]
      BY ONLY <2>3, <2>4
    <3>. QED  BY <2>4, <2>11, <3>1, <3>2 DEF JobOK
  <2>13. OpOK(rec, o2, j2)
    BY <2>4
  <2>14. StateOK(file, cached, rec, orphans, o2, j2, own2, nf, Without(hold, pos), w2)
    BY <2>5, <2>10, <2>12, <2>13, <1>3 DEF StateOK
  <2>. QED  BY <2>1, <2>14, <1>2
<1>. QED  BY <1>4, <1>5, <1>6

-----------------------------------------------------------------------------
(* Between two texts: the file holds the texts of the records and of the   *)
(* orphans.                                                                *)
Settled(f, rc, orp, own, nf, hold) ==
  /\ FileOK(f, own, nf, hold, NoWork) /\ RecsOK(rc, orp)
  /\ DOMAIN hold = PosOf(rc) \cup orp
  /\ \A r \in DOMAIN rc : rc[r].pos # NoPos => hold[rc[r].pos] = rc[r].t

(* The file is settled when no text is written or deleted.                 *)
LEMMA SettledIs ==
  ASSUME NEW f, NEW c, NEW rc, NEW orp, NEW o, NEW j, NEW own, NEW nf, NEW hold, NEW w,
         StateOK(f, c, rc, orp, o, j, own, nf, hold, w), j.do \in {"none", "move"}
  PROVE  /\ Settled(f, rc, orp, own, nf, hold) /\ w = NoWork /\ o.old = NoPos /\ OpOK(rc, o, j)
         /\ j.do = "none" => o = NoOp
         /\ j.do = "move" => o.kind = "group"
<1>1. /\ FileOK(f, own, nf, hold, w) /\ RecsOK(rc, orp) /\ OpOK(rc, o, j)
      /\ DOMAIN hold = HeldOf(rc, orp, c, o, j) /\ TextsHeld(rc, orp, c, o, hold)
      /\ JobOK(f, rc, orp, c, o, j, own, hold, w)
  BY DEF StateOK
<1>2. w = NoWork
  BY <1>1 DEF JobOK
<1>3. o.old = NoPos /\ (j.do = "none" => o = NoOp) /\ (j.do = "move" => o.kind = "group")
  BY <1>1, Jobs DEF OpOK, Storing
<1>4. /\ NoPos \notin orp /\ NoPos \notin PosOf(rc)
      /\ \A q \in DOMAIN rc : rc[q].pos \in PosOf(rc) \/ rc[q].pos = NoPos
  BY <1>1 DEF RecsOK, PosOf
<1>5. DOMAIN hold = PosOf(rc) \cup orp
  BY <1>1, <1>3, <1>4 DEF HeldOf, Live, Gone
<1>6. \A q \in DOMAIN rc : rc[q].pos # NoPos => hold[rc[q].pos] = rc[q].t
  BY <1>1, <1>3, <1>4 DEF TextsHeld, Gone
<1>. QED  BY <1>1, <1>2, <1>3, <1>5, <1>6 DEF Settled

(* A settled file with the beginning of a job.                             *)
LEMMA SettledOK ==
  ASSUME NEW f, NEW c, NEW rc, NEW orp, NEW o, NEW j, NEW own, NEW nf, NEW hold,
         Settled(f, rc, orp, own, nf, hold), j \in {NoJob, MoveJob, StoreJob}, o.old = NoPos, OpOK(rc, o, j)
  PROVE  StateOK(f, c, rc, orp, o, j, own, nf, hold, NoWork)
<1>1. /\ NoPos \notin orp /\ NoPos \notin PosOf(rc)
  BY DEF Settled, RecsOK, PosOf
<1>2. j.do # "set"
  BY Jobs
<1>3. DOMAIN hold = HeldOf(rc, orp, c, o, j)
  BY <1>1, <1>2 DEF Settled, HeldOf, Live, Gone
<1>4. TextsHeld(rc, orp, c, o, hold)
  BY <1>1 DEF Settled, TextsHeld
<1>5. JobOK(f, rc, orp, c, o, j, own, hold, NoWork)
  BY DEF JobOK
<1>. QED  BY <1>3, <1>4, <1>5 DEF StateOK, Settled

(* A record is written.  Record m[k] of the old ones is now record k; 0 is *)
(* the new one, and x the one whose place it takes.                        *)
Renumbers(rc, rc2, m, x, new) ==
  /\ \A k \in DOMAIN rc2 : \/ m[k] \in DOMAIN rc \ {x} /\ rc2[k] = rc[m[k]]
                           \/ m[k] = 0 /\ rc2[k] = new
  /\ \A k, l \in DOMAIN rc2 : m[k] = m[l] => k = l
  /\ \A i \in DOMAIN rc \ {x} : \E k \in DOMAIN rc2 : m[k] = i

(* The texts without a record when an operation is done.                   *)
NewOrphans(orp, c, o) == orp \cup IF o.old = NoPos \/ c THEN {} ELSE {o.old}

(* The operation replaces record x, or none.                               *)
Replaced(rc, o, x) ==
  \/ x = 0 /\ o.old = NoPos
  \/ x \in DOMAIN rc /\ o.old = rc[x].pos

(* The file is settled when the record has its new position, whichever way *)
(* the records are numbered then.                                          *)
LEMMA SetOK ==
  ASSUME NEW f, NEW c, NEW rc, NEW orp, NEW o, NEW j, NEW own, NEW nf, NEW hold, NEW w,
         StateOK(f, c, rc, orp, o, j, own, nf, hold, w), j.do = "set",
         NEW new, new = Rec(j.pos, o.t),
         NEW x, Replaced(rc, o, x),
         NEW rc2 \in Seq(RecSet), NEW m, Renumbers(rc, rc2, m, x, new),
         j.pos # NoPos => \E k \in DOMAIN rc2 : m[k] = 0,
         NEW orp2, orp2 = NewOrphans(orp, c, o)
  PROVE  Settled(f, rc2, orp2, own, nf, hold)
<1>. USE DEF Renumbers, NewOrphans, Replaced
<1>1. /\ FileOK(f, own, nf, hold, w) /\ RecsOK(rc, orp)
      /\ DOMAIN hold = HeldOf(rc, orp, c, o, j) /\ TextsHeld(rc, orp, c, o, hold)
      /\ JobOK(f, rc, orp, c, o, j, own, hold, w) /\ o.t \in Texts
  BY DEF StateOK, OpOK
<1>2. /\ w = NoWork
      /\ j.pos = NoPos => o.t.len = 0
      /\ j.pos # NoPos => hold[j.pos] = o.t /\ j.pos \notin Live(rc, orp, c, o)
  BY <1>1, Jobs DEF JobOK
<1>3. new.pos = j.pos /\ new.t = o.t
  BY DEF Rec
<1>4. /\ PosOf(rc) \cap orp = {} /\ NoPos \notin orp /\ NoPos \notin PosOf(rc) /\ 0 \notin DOMAIN rc
      /\ \A i \in DOMAIN rc : rc[i].pos \in PosOf(rc) \/ rc[i].pos = NoPos
      /\ \A i \in DOMAIN rc : rc[i].pos = NoPos <=> rc[i].t.len = 0
      /\ \A i, l \in DOMAIN rc : i # l => rc[i].pos # rc[l].pos \/ rc[i].pos = NoPos
  <2>1. rc \in Seq(RecSet)
    BY <1>1 DEF RecsOK
  <2>. QED  BY <2>1, <1>1 DEF RecsOK, PosOf
<1>5. \A i \in DOMAIN rc \ {x} : rc[i].pos # NoPos => rc[i].pos # o.old /\ rc[i].pos \in PosOf(rc)
  BY <1>4
<1>6. \A p \in PosOf(rc) : p # o.old => \E i \in DOMAIN rc \ {x} : rc[i].pos = p
  BY <1>4 DEF PosOf
<1>7. o.old = NoPos \/ o.old \in PosOf(rc)
  BY <1>4
<1>8. DOMAIN hold = Live(rc, orp, c, o) \cup ({j.pos} \ {NoPos})
  BY <1>1 DEF HeldOf
<1>9. /\ c => Live(rc, orp, c, o) = (PosOf(rc) \ {o.old}) \cup orp
      /\ ~ c => Live(rc, orp, c, o) = PosOf(rc) \cup orp
  BY <1>4 DEF Live, Gone
<1>10. PosOf(rc2) = (PosOf(rc) \ {o.old}) \cup ({j.pos} \ {NoPos})
  <2>1. ASSUME NEW p \in PosOf(rc2) PROVE p \in (PosOf(rc) \ {o.old}) \cup ({j.pos} \ {NoPos})
    <3>1. PICK k \in DOMAIN rc2 : rc2[k].pos = p /\ p # NoPos
      BY DEF PosOf
    <3>. QED  BY <3>1, <1>3, <1>5
  <2>2. ASSUME NEW p \in PosOf(rc), p # o.old PROVE p \in PosOf(rc2)
    <3>1. PICK i \in DOMAIN rc \ {x} : rc[i].pos = p
      BY <2>2, <1>6
    <3>2. PICK k \in DOMAIN rc2 : m[k] = i
      OBVIOUS
    <3>3. rc2[k] = rc[i] /\ p # NoPos
      BY <3>2, <1>4
    <3>. QED  BY <3>1, <3>3 DEF PosOf
  <2>3. ASSUME j.pos # NoPos PROVE j.pos \in PosOf(rc2)
    <3>1. PICK k \in DOMAIN rc2 : m[k] = 0
      BY <2>3
    <3>2. rc2[k].pos = j.pos
      BY <3>1, <1>3, <1>4
    <3>. QED  BY <3>2, <2>3 DEF PosOf
  <2>. QED  BY <2>1, <2>2, <2>3
<1>11. DOMAIN hold = PosOf(rc2) \cup orp2 /\ PosOf(rc2) \cap orp2 = {} /\ NoPos \notin orp2
  <2>1. CASE c
    <3>1. orp2 = orp /\ Live(rc, orp, c, o) = (PosOf(rc) \ {o.old}) \cup orp
      BY <2>1, <1>9
    <3>2. j.pos # NoPos => j.pos \notin orp
      BY <3>1, <1>2
    <3>. QED  BY <3>1, <3>2, <1>4, <1>8, <1>10
  <2>2. CASE ~ c
    BY <2>2, <1>2, <1>4, <1>7, <1>8, <1>9, <1>10
  <2>. QED  BY <2>1, <2>2
<1>12. ASSUME NEW k \in DOMAIN rc2, m[k] # 0, rc2[k].pos # NoPos
       PROVE  rc2[k].pos \in Live(rc, orp, c, o) /\ hold[rc2[k].pos] = rc2[k].t
  <2>1. m[k] \in DOMAIN rc \ {x} /\ rc2[k] = rc[m[k]]
    BY <1>12
  <2>2. rc2[k].pos \in PosOf(rc) \ Gone(c, o)
    BY <2>1, <1>5, <1>12 DEF Gone
  <2>. QED  BY <2>1, <2>2, <1>1, <1>4 DEF TextsHeld, Live
<1>13. \A k \in DOMAIN rc2 : rc2[k].pos # NoPos => hold[rc2[k].pos] = rc2[k].t
  <2>1. ASSUME NEW k \in DOMAIN rc2, m[k] = 0, rc2[k].pos # NoPos PROVE hold[rc2[k].pos] = rc2[k].t
    <3>1. rc2[k] = new
      BY <2>1, <1>4
    <3>. QED  BY <2>1, <3>1, <1>2, <1>3
  <2>. QED  BY <2>1, <1>12
<1>14. new.pos = NoPos <=> new.t.len = 0
  <2>1. j.pos # NoPos => HoldOK(f, own, hold, j.pos)
    BY <1>1, <1>8 DEF FileOK
  <2>. QED  BY <2>1, <1>2, <1>3 DEF HoldOK
<1>15. RecsOK(rc2, orp2)
  <2>1. \A k \in DOMAIN rc2 : rc2[k].pos = NoPos <=> rc2[k].t.len = 0
    BY <1>4, <1>14
  <2>2. ASSUME NEW k \in DOMAIN rc2, NEW l \in DOMAIN rc2, k # l
        PROVE  rc2[k].pos # rc2[l].pos \/ rc2[k].pos = NoPos
    <3>1. CASE m[k] # 0 /\ m[l] # 0
      <4>1. /\ m[k] \in DOMAIN rc /\ m[l] \in DOMAIN rc /\ m[k] # m[l]
            /\ rc2[k] = rc[m[k]] /\ rc2[l] = rc[m[l]]
        BY <2>2, <3>1
      <4>. QED  BY <4>1, <1>4
    <3>2. CASE m[k] # 0 /\ m[l] = 0
      BY <3>2, <1>2, <1>3, <1>4, <1>12
    <3>3. CASE m[k] = 0 /\ m[l] # 0
      BY <3>3, <1>2, <1>3, <1>4, <1>12
    <3>4. CASE m[k] = 0 /\ m[l] = 0
      BY <3>4, <2>2
    <3>. QED  BY <3>1, <3>2, <3>3, <3>4
  <2>. QED  BY <2>1, <2>2, <1>11 DEF RecsOK
<1>. QED  BY <1>1, <1>2, <1>11, <1>13, <1>15 DEF Settled

(* The new record is a record.                                             *)
LEMMA NewRec ==
  ASSUME NEW f, NEW c, NEW rc, NEW orp, NEW o, NEW j, NEW own, NEW nf, NEW hold, NEW w,
         StateOK(f, c, rc, orp, o, j, own, nf, hold, w), j.do = "set"
  PROVE  Rec(j.pos, o.t) \in RecSet
<1>1. FileOK(f, own, nf, hold, w) /\ DOMAIN hold = HeldOf(rc, orp, c, o, j) /\ o.t \in Texts
  BY DEF StateOK, OpOK
<1>2. j.pos \in Nat \X Nat
  <2>1. CASE j.pos = NoPos
    BY <2>1 DEF NoPos
  <2>2. CASE j.pos # NoPos
    <3>1. HoldOK(f, own, hold, j.pos) /\ f.max \in Nat
      BY <1>1, <2>2 DEF FileOK, IsFile, HeldOf
    <3>2. j.pos = <<j.pos[1], j.pos[2]>> /\ j.pos[1] \in Nat /\ j.pos[2] \in Nat
      BY <3>1 DEF HoldOK
    <3>. QED  BY <3>2
  <2>. QED  BY <2>1, <2>2
<1>. QED  BY <1>1, <1>2 DEF Rec, RecSet

(* InsertAt, by position (SequencesExt).                                   *)
LEMMA InsertShape ==
  ASSUME NEW S, NEW s \in Seq(S), NEW i \in 1 .. Len(s) + 1, NEW e \in S
  PROVE  /\ InsertAt(s, i, e) \in Seq(S) /\ Len(InsertAt(s, i, e)) = Len(s) + 1
         /\ InsertAt(s, i, e)[i] = e
         /\ \A k \in 1 .. i - 1 : InsertAt(s, i, e)[k] = s[k]
         /\ \A k \in i + 1 .. Len(s) + 1 : InsertAt(s, i, e)[k] = s[k - 1]
<1>. DEFINE a == SubSeq(s, 1, i - 1)
            b == SubSeq(s, i, Len(s))
<1>1. a \in Seq(S) /\ Len(a) = i - 1 /\ \A k \in 1 .. i - 1 : a[k] = s[k]
  OBVIOUS
<1>2. b \in Seq(S) /\ Len(b) = Len(s) - i + 1 /\ \A k \in 1 .. Len(s) - i + 1 : b[k] = s[i + k - 1]
  OBVIOUS
<1>3. InsertAt(s, i, e) = a \o <<e>> \o b
  BY DEF InsertAt
<1>. HIDE DEF a, b
<1>4. PICK d : d = a \o <<e>>
  OBVIOUS
<1>5. d \in Seq(S) /\ Len(d) = i /\ d[i] = e /\ \A k \in 1 .. i - 1 : d[k] = s[k]
  BY <1>1, <1>4
<1>6. PICK r : r = d \o b
  OBVIOUS
<1>7. /\ r \in Seq(S) /\ Len(r) = Len(s) + 1
      /\ \A k \in 1 .. i : r[k] = d[k]
      /\ \A k \in i + 1 .. Len(s) + 1 : r[k] = b[k - i]
  <2>1. r \in Seq(S) /\ Len(r) = i + Len(b)
    BY <1>2, <1>5, <1>6
  <2>2. \A k \in 1 .. i : r[k] = d[k]
    BY <1>2, <1>5, <1>6
  <2>3. i + Len(b) = Len(s) + 1
    BY <1>2
  <2>4. \A k \in i + 1 .. i + Len(b) : r[k] = b[k - i]
    BY <1>2, <1>5, <1>6
  <2>. QED  BY <2>1, <2>2, <2>3, <2>4
<1>8. r[i] = e /\ \A k \in 1 .. i - 1 : r[k] = s[k]
  BY <1>5, <1>7
<1>9. ASSUME NEW k \in i + 1 .. Len(s) + 1 PROVE r[k] = s[k - 1]
  <2>1. k - i \in 1 .. Len(s) - i + 1 /\ i + (k - i) - 1 = k - 1
    OBVIOUS
  <2>2. r[k] = b[k - i]
    BY <1>7
  <2>. QED  BY <2>1, <2>2, <1>2
<1>. QED  BY <1>3, <1>4, <1>6, <1>7, <1>8, <1>9

(* RemoveAt, by position (SequencesExt).                                   *)
LEMMA RemoveShape ==
  ASSUME NEW S, NEW s \in Seq(S), NEW i \in 1 .. Len(s)
  PROVE  /\ RemoveAt(s, i) \in Seq(S) /\ Len(RemoveAt(s, i)) = Len(s) - 1
         /\ \A k \in 1 .. Len(s) - 1 : RemoveAt(s, i)[k] = IF k < i THEN s[k] ELSE s[k + 1]
<1>. DEFINE a == SubSeq(s, 1, i - 1)
            b == SubSeq(s, i + 1, Len(s))
<1>1. a \in Seq(S) /\ Len(a) = i - 1 /\ \A k \in 1 .. i - 1 : a[k] = s[k]
  OBVIOUS
<1>2. b \in Seq(S) /\ Len(b) = Len(s) - i /\ \A k \in 1 .. Len(s) - i : b[k] = s[i + k]
  OBVIOUS
<1>3. RemoveAt(s, i) = a \o b
  BY DEF RemoveAt
<1>. HIDE DEF a, b
<1>4. PICK r : r = a \o b
  OBVIOUS
<1>5. /\ r \in Seq(S) /\ Len(r) = Len(s) - 1
      /\ \A k \in 1 .. i - 1 : r[k] = a[k]
      /\ \A k \in i .. Len(s) - 1 : r[k] = b[k - i + 1]
  <2>1. a \in Seq(S) /\ b \in Seq(S)
    BY <1>1, <1>2
  <2>2. r \in Seq(S) /\ Len(r) = Len(a) + Len(b)
    BY ONLY <2>1, <1>4
  <2>3. \A k \in 1 .. Len(a) : r[k] = a[k]
    BY ONLY <2>1, <1>4
  <2>4. \A k \in Len(a) + 1 .. Len(a) + Len(b) : r[k] = b[k - Len(a)]
    BY ONLY <2>1, <1>4
  <2>5. Len(a) + Len(b) = Len(s) - 1 /\ Len(a) + 1 = i
    BY <1>1, <1>2
  <2>6. ASSUME NEW k \in i .. Len(s) - 1 PROVE r[k] = b[k - i + 1]
    <3>1. k - Len(a) = k - i + 1
      BY <1>1
    <3>. QED  BY <3>1, <2>4, <2>5
  <2>. QED  BY <2>2, <2>3, <2>5, <2>6, <1>1
<1>6. \A k \in 1 .. Len(s) - 1 : r[k] = IF k < i THEN s[k] ELSE s[k + 1]
  <2>1. ASSUME NEW k \in 1 .. Len(s) - 1, k < i PROVE r[k] = s[k]
    BY <2>1, <1>1, <1>5
  <2>2. ASSUME NEW k \in 1 .. Len(s) - 1, k >= i PROVE r[k] = s[k + 1]
    <3>1. k - i + 1 \in 1 .. Len(s) - i /\ k \in i .. Len(s) - 1
      BY <2>2
    <3>2. r[k] = b[k - i + 1]
      BY <3>1, <1>5
    <3>3. b[k - i + 1] = s[i + (k - i + 1)]
      BY <3>1, <1>2
    <3>4. i + (k - i + 1) = k + 1
      BY <3>1
    <3>. QED  BY <3>2, <3>3, <3>4
  <2>. QED  BY <2>1, <2>2
<1>. QED  BY <1>3, <1>4, <1>5, <1>6

-----------------------------------------------------------------------------
(* The sequences of records that SetRec writes.                            *)
Edits(rc, o, new) ==
  CASE o.kind = "create" -> InsertAt(rc, o.at, new)
    [] o.kind \in {"write", "group"} -> [rc EXCEPT ![o.at] = new]
    [] o.kind = "delete" -> RemoveAt(rc, o.at)

(* SetRec of an operation that creates a record.                           *)
LEMMA SetCreate ==
  ASSUME NEW f, NEW c, NEW rc, NEW orp, NEW o, NEW j, NEW own, NEW nf, NEW hold, NEW w,
         StateOK(f, c, rc, orp, o, j, own, nf, hold, w), j.do = "set", o.kind = "create",
         NEW orp2, orp2 = NewOrphans(orp, c, o)
  PROVE  Settled(f, InsertAt(rc, o.at, Rec(j.pos, o.t)), orp2, own, nf, hold)
<1>1. rc \in Seq(RecSet) /\ Rec(j.pos, o.t) \in RecSet
  BY NewRec DEF StateOK, RecsOK
<1>2. o.at \in 1 .. Len(rc) + 1 /\ o.old = NoPos
  BY Jobs DEF StateOK, OpOK
<1>3. PICK rc2 : rc2 = InsertAt(rc, o.at, Rec(j.pos, o.t))
  OBVIOUS
<1>4. PICK new : new = Rec(j.pos, o.t)
  OBVIOUS
<1>5. PICK i : i = o.at
  OBVIOUS
<1>6. /\ rc2 \in Seq(RecSet) /\ Len(rc2) = Len(rc) + 1 /\ Len(rc) \in Nat
      /\ rc2[i] = new
      /\ \A k \in 1 .. i - 1 : rc2[k] = rc[k]
      /\ \A k \in i + 1 .. Len(rc) + 1 : rc2[k] = rc[k - 1]
  BY <1>1, <1>2, <1>3, <1>4, <1>5, InsertShape
<1>7. DOMAIN rc = 1 .. Len(rc) /\ DOMAIN rc2 = 1 .. Len(rc) + 1
  BY <1>1, <1>6
<1>8. PICK m : m = [k \in 1 .. Len(rc) + 1 |-> IF k < i THEN k ELSE IF k = i THEN 0 ELSE k - 1]
  OBVIOUS
<1>9. i \in 1 .. Len(rc) + 1
  BY <1>2, <1>5
<1>10. \A k \in DOMAIN rc2 : \/ m[k] \in DOMAIN rc \ {0} /\ rc2[k] = rc[m[k]]
                             \/ m[k] = 0 /\ rc2[k] = new
  BY <1>6, <1>7, <1>8, <1>9
<1>11. \A k, l \in DOMAIN rc2 : m[k] = m[l] => k = l
  BY <1>6, <1>7, <1>8, <1>9
<1>12. ASSUME NEW l \in DOMAIN rc \ {0} PROVE \E k \in DOMAIN rc2 : m[k] = l
  <2>1. CASE l < i
    <3>1. l \in DOMAIN rc2 /\ m[l] = l
      BY <2>1, <1>6, <1>7, <1>8, <1>9
    <3>. QED  BY <3>1
  <2>2. CASE l >= i
    <3>1. l + 1 \in DOMAIN rc2 /\ m[l + 1] = l
      BY <2>2, <1>6, <1>7, <1>8, <1>9
    <3>. QED  BY <3>1
  <2>. QED  BY <2>1, <2>2, <1>6, <1>7, <1>9
<1>13. \E k \in DOMAIN rc2 : m[k] = 0
  BY <1>6, <1>7, <1>8, <1>9
<1>14. PICK x : x = 0
  OBVIOUS
<1>15. Renumbers(rc, rc2, m, x, new)
  BY <1>10, <1>11, <1>12, <1>14 DEF Renumbers
<1>16. rc2 \in Seq(RecSet) /\ o.old = NoPos
  BY <1>2, <1>6
<1>18. Replaced(rc, o, x)
  BY <1>14, <1>16 DEF Replaced
<1>17. Settled(f, rc2, orp2, own, nf, hold)
  BY <1>4, <1>13, <1>15, <1>16, <1>18, SetOK
<1>. QED  BY <1>3, <1>17

(* SetRec of an operation that writes a record, or moves one in a group.   *)
LEMMA SetWrite ==
  ASSUME NEW f, NEW c, NEW rc, NEW orp, NEW o, NEW j, NEW own, NEW nf, NEW hold, NEW w,
         StateOK(f, c, rc, orp, o, j, own, nf, hold, w), j.do = "set", o.kind \in {"write", "group"},
         NEW orp2, orp2 = NewOrphans(orp, c, o)
  PROVE  /\ Settled(f, [rc EXCEPT ![o.at] = Rec(j.pos, o.t)], orp2, own, nf, hold)
         /\ Len([rc EXCEPT ![o.at] = Rec(j.pos, o.t)]) = Len(rc)
<1>1. rc \in Seq(RecSet) /\ Rec(j.pos, o.t) \in RecSet
  BY NewRec DEF StateOK, RecsOK
<1>2. o.at \in 1 .. Len(rc) /\ o.old = rc[o.at].pos
  BY Jobs DEF StateOK, OpOK
<1>3. PICK new : new = Rec(j.pos, o.t)
  OBVIOUS
<1>4. PICK i : i = o.at
  OBVIOUS
<1>5. PICK rc2 : rc2 = [rc EXCEPT ![i] = new]
  OBVIOUS
<1>6. rc2 \in Seq(RecSet) /\ Len(rc2) = Len(rc) /\ DOMAIN rc = 1 .. Len(rc) /\ DOMAIN rc2 = DOMAIN rc /\ Len(rc) \in Nat
  BY <1>1, <1>2, <1>3, <1>4, <1>5
<1>7. i \in DOMAIN rc /\ o.old = rc[i].pos /\ i # 0
  BY <1>2, <1>4, <1>6
<1>8. rc2[i] = new /\ \A k \in DOMAIN rc : k # i => rc2[k] = rc[k]
  BY <1>5, <1>7
<1>9. PICK m : m = [k \in DOMAIN rc |-> IF k = i THEN 0 ELSE k]
  OBVIOUS
<1>10. m[i] = 0 /\ \A k \in DOMAIN rc : k # i => m[k] = k
  BY <1>7, <1>9
<1>11. 0 \notin DOMAIN rc
  BY <1>6
<1>12. \A k \in DOMAIN rc2 : \/ m[k] \in DOMAIN rc \ {i} /\ rc2[k] = rc[m[k]]
                             \/ m[k] = 0 /\ rc2[k] = new
  BY <1>6, <1>8, <1>10
<1>13. \A k, l \in DOMAIN rc2 : m[k] = m[l] => k = l
  BY <1>6, <1>10, <1>11
<1>14. \A l \in DOMAIN rc \ {i} : \E k \in DOMAIN rc2 : m[k] = l
  BY <1>6, <1>10
<1>15. \E k \in DOMAIN rc2 : m[k] = 0
  BY <1>6, <1>7, <1>10
<1>16. Renumbers(rc, rc2, m, i, new)
  BY <1>12, <1>13, <1>14 DEF Renumbers
<1>17. Replaced(rc, o, i)
  BY <1>7 DEF Replaced
<1>18. Settled(f, rc2, orp2, own, nf, hold)
  BY <1>3, <1>6, <1>17, <1>16, <1>15, SetOK
<1>. QED  BY <1>3, <1>4, <1>5, <1>6, <1>18

(* SetRec of an operation that deletes a record.                           *)
LEMMA SetDelete ==
  ASSUME NEW f, NEW c, NEW rc, NEW orp, NEW o, NEW j, NEW own, NEW nf, NEW hold, NEW w,
         StateOK(f, c, rc, orp, o, j, own, nf, hold, w), j.do = "set", o.kind = "delete",
         NEW orp2, orp2 = NewOrphans(orp, c, o)
  PROVE  Settled(f, RemoveAt(rc, o.at), orp2, own, nf, hold)
<1>1. rc \in Seq(RecSet)
  BY DEF StateOK, RecsOK
<1>2. o.at \in 1 .. Len(rc) /\ o.old = rc[o.at].pos /\ o.t = NoText
  BY Jobs DEF StateOK, OpOK
<1>3. PICK rc2 : rc2 = RemoveAt(rc, o.at)
  OBVIOUS
<1>4. PICK i : i = o.at
  OBVIOUS
<1>5. /\ rc2 \in Seq(RecSet) /\ Len(rc2) = Len(rc) - 1 /\ Len(rc) \in Nat
      /\ \A k \in 1 .. Len(rc) - 1 : rc2[k] = IF k < i THEN rc[k] ELSE rc[k + 1]
  BY <1>1, <1>2, <1>3, <1>4, RemoveShape
<1>6. DOMAIN rc = 1 .. Len(rc) /\ DOMAIN rc2 = 1 .. Len(rc) - 1
  BY <1>1, <1>5
<1>7. i \in 1 .. Len(rc) /\ o.old = rc[i].pos
  BY <1>2, <1>4
<1>8. j.pos = NoPos
  <2>1. j.pos # NoPos => hold[j.pos] = o.t /\ j.pos \in DOMAIN hold /\ FileOK(f, own, nf, hold, w)
    BY Jobs DEF StateOK, JobOK, HeldOf
  <2>2. j.pos # NoPos => HoldOK(f, own, hold, j.pos)
    BY <2>1 DEF FileOK
  <2>. QED  BY <2>1, <2>2, <1>2 DEF HoldOK, NoText
<1>9. PICK m : m = [k \in 1 .. Len(rc) - 1 |-> IF k < i THEN k ELSE k + 1]
  OBVIOUS
<1>10. PICK new : new = Rec(j.pos, o.t)
  OBVIOUS
<1>11. \A k \in DOMAIN rc2 : m[k] \in DOMAIN rc \ {i} /\ rc2[k] = rc[m[k]]
  BY <1>5, <1>6, <1>7, <1>9
<1>12. \A k, l \in DOMAIN rc2 : m[k] = m[l] => k = l
  BY <1>5, <1>6, <1>7, <1>9
<1>13. ASSUME NEW l \in DOMAIN rc \ {i} PROVE \E k \in DOMAIN rc2 : m[k] = l
  <2>1. CASE l < i
    <3>1. l \in DOMAIN rc2 /\ m[l] = l
      BY <2>1, <1>5, <1>6, <1>7, <1>9
    <3>. QED  BY <3>1
  <2>2. CASE l > i
    <3>1. l - 1 \in DOMAIN rc2 /\ m[l - 1] = l
      BY <2>2, <1>5, <1>6, <1>7, <1>9
    <3>. QED  BY <3>1
  <2>. QED  BY <2>1, <2>2, <1>5, <1>6, <1>7
<1>14. Replaced(rc, o, i)
  BY <1>6, <1>7 DEF Replaced
<1>15. Renumbers(rc, rc2, m, i, new)
  BY <1>11, <1>12, <1>13 DEF Renumbers
<1>16. Settled(f, rc2, orp2, own, nf, hold)
  BY <1>5, <1>7, <1>8, <1>10, <1>14, <1>15, SetOK
<1>. QED  BY <1>3, <1>16

(* The record is written.                                                  *)
LEMMA SetStep ==
  ASSUME NEW own, NEW nf, NEW hold, NEW w,
         StateOK(file, cached, rec, orphans, op, job, own, nf, hold, w), SetRec
  PROVE  StateOK(file', cached, rec', orphans', op', job', own, nf, hold, NoWork)
<1>1. job.do = "set" /\ file' = file /\ orphans' = NewOrphans(orphans, cached, op)
  BY DEF SetRec, Kept, NewOrphans
<1>2. PICK new : new = Rec(job.pos, op.t)
  OBVIOUS
<1>3. rec' = Edits(rec, op, new)
  BY <1>2 DEF SetRec, Edits
<1>4. /\ op = [kind |-> op.kind, at |-> op.at, t |-> op.t, old |-> op.old, from |-> op.from, group |-> op.group]
      /\ op.t \in Texts /\ rec \in Seq(RecSet)
      /\ op.kind \in {"create", "write", "delete", "group"}
      /\ op.kind = "group" => op.at \in 1 .. Len(rec) /\ op.from \in op.at .. Len(rec)
  BY <1>1, Jobs DEF StateOK, OpOK, RecsOK
<1>5. Settled(file, rec', orphans', own, nf, hold)
  <2>1. CASE op.kind = "create"
    BY <1>1, <1>2, <1>3, <2>1, SetCreate DEF Edits
  <2>2. CASE op.kind \in {"write", "group"}
    BY <1>1, <1>2, <1>3, <2>2, SetWrite DEF Edits
  <2>3. CASE op.kind = "delete"
    BY <1>1, <1>2, <1>3, <2>3, SetDelete DEF Edits
  <2>. QED  BY <1>4, <2>1, <2>2, <2>3
<1>6. CASE op.kind # "group"
  <2>1. op' = NoOp /\ job' = NoJob
    BY <1>6 DEF SetRec
  <2>2. OpOK(rec', NoOp, NoJob)
    BY Jobs, TextFileAssumption DEF OpOK, NoOp, Op
  <2>3. StateOK(file, cached, rec', orphans', NoOp, NoJob, own, nf, hold, NoWork)
    BY <1>5, <2>2, Jobs, SettledOK
  <2>. QED  BY <1>1, <2>1, <2>3
<1>7. CASE op.kind = "group"
  <2>1. op' = [op EXCEPT !.at = @ + 1, !.from = @ + 1, !.old = NoPos] /\ job' = MoveJob
    BY <1>7 DEF SetRec
  <2>2. Len(rec') = Len(rec)
    BY <1>1, <1>2, <1>3, <1>7, SetWrite DEF Edits
  <2>3. PICK at, from, t, group, old :
          at = op.at /\ from = op.from /\ t = op.t /\ group = op.group /\ old = op.old
    OBVIOUS
  <2>4. op = [kind |-> "group", at |-> at, t |-> t, old |-> old, from |-> from, group |-> group]
    BY <1>4, <1>7, <2>3
  <2>5. op' = [kind |-> "group", at |-> at + 1, t |-> t, old |-> NoPos, from |-> from + 1, group |-> group]
    BY <2>1, <2>4
  <2>6. /\ Len(rec) \in Nat /\ at \in 1 .. Len(rec) /\ from \in at .. Len(rec) /\ t \in Texts
    BY <1>4, <1>7, <2>3
  <2>7. PICK o : o = [kind |-> "group", at |-> at + 1, t |-> t, old |-> NoPos, from |-> from + 1, group |-> group]
    OBVIOUS
  <2>8. o.kind = "group" /\ o.at = at + 1 /\ o.t = t /\ o.old = NoPos /\ o.from = from + 1 /\ o.group = group
    BY ONLY <2>7
  <2>9. OpOK(rec', o, MoveJob)
    <3>1. o.at \in 1 .. Len(rec') + 1 /\ o.from \in o.at .. Len(rec') + 1
      BY <2>2, <2>6, <2>8
    <3>2. o = [kind |-> o.kind, at |-> o.at, t |-> o.t, old |-> o.old, from |-> o.from, group |-> o.group]
      BY <2>7, <2>8
    <3>. QED  BY <3>1, <3>2, <2>6, <2>8, Jobs DEF OpOK
  <2>10. StateOK(file, cached, rec', orphans', o, MoveJob, own, nf, hold, NoWork)
    BY <1>5, <2>8, <2>9, Jobs, SettledOK
  <2>. QED  BY <1>1, <2>1, <2>5, <2>7, <2>10
<1>. QED  BY <1>6, <1>7

-----------------------------------------------------------------------------
(* Between two operations no job is under way.                             *)
LEMMA Idle ==
  ASSUME NEW f, NEW c, NEW rc, NEW orp, NEW o, NEW j, NEW own, NEW nf, NEW hold, NEW w,
         StateOK(f, c, rc, orp, o, j, own, nf, hold, w), o = NoOp
  PROVE  /\ j.do = "none" /\ j = NoJob /\ w = NoWork
         /\ Settled(f, rc, orp, own, nf, hold) /\ rc \in Seq(RecSet)
<1>1. j.do = "none"
  BY Jobs DEF StateOK, OpOK
<1>2. j = NoJob
  BY <1>1, Jobs DEF StateOK, JobOK
<1>3. rc \in Seq(RecSet)
  BY DEF StateOK, RecsOK
<1>. QED  BY <1>1, <1>2, <1>3, SettledIs

(* The record of an operation.                                             *)
IsOp(o) == o = [kind |-> o.kind, at |-> o.at, t |-> o.t, old |-> o.old, from |-> o.from, group |-> o.group]

(* Its parts.                                                              *)
LEMMA OpFields ==
  ASSUME NEW kind, NEW at, NEW t, NEW old, NEW from, NEW group, NEW o,
         o = [kind |-> kind, at |-> at, t |-> t, old |-> old, from |-> from, group |-> group]
  PROVE  IsOp(o) /\ o.kind = kind /\ o.at = at /\ o.t = t /\ o.old = old /\ o.from = from /\ o.group = group
BY DEF IsOp

(* The parts of an operation at its beginning.                             *)
LEMMA OpOf ==
  ASSUME NEW kind, NEW at, NEW t, NEW old, NEW o, o = Op(kind, at, t, old)
  PROVE  IsOp(o) /\ o.kind = kind /\ o.at = at /\ o.t = t /\ o.old = old
BY DEF Op, IsOp

(* CreateRec begins (Fand0File::CreateRec).                                *)
LEMMA CreateStep ==
  ASSUME NEW own, NEW nf, NEW hold, NEW w,
         StateOK(file, cached, rec, orphans, op, job, own, nf, hold, w), op = NoOp,
         NEW n \in Nat \ {0}, NEW t \in Texts, CreateRec(n, t)
  PROVE  StateOK(file', cached', rec', orphans', op', job', own, nf, hold, NoWork)
<1>1. Settled(file, rec, orphans, own, nf, hold)
  BY Idle
<1>2. PICK o : o = Op("create", n, t, NoPos)
  OBVIOUS
<1>3. IsOp(o) /\ o.kind = "create" /\ o.at = n /\ o.t = t /\ o.old = NoPos
  BY <1>2, OpOf
<1>4. n \in 1 .. Len(rec) + 1
  <2>1. rec \in Seq(RecSet)
    BY <1>1 DEF Settled, RecsOK
  <2>. QED  BY <2>1 DEF CreateRec
<1>5. OpOK(rec, o, StoreJob)
  BY <1>3, <1>4, Jobs DEF OpOK, IsOp
<1>6. StateOK(file, cached, rec, orphans, o, StoreJob, own, nf, hold, NoWork)
  BY <1>1, <1>3, <1>5, SettledOK
<1>7. /\ file' = file /\ cached' = cached /\ rec' = rec /\ orphans' = orphans
      /\ op' = o /\ job' = StoreJob
  BY <1>2 DEF CreateRec
<1>. QED  BY <1>6, <1>7

(* WriteRec begins (Fand0File::WriteRec, DelChangedTFields).               *)
LEMMA WriteStep ==
  ASSUME NEW own, NEW nf, NEW hold, NEW w,
         StateOK(file, cached, rec, orphans, op, job, own, nf, hold, w), op = NoOp,
         NEW r, NEW t \in Texts, WriteRec(r, t)
  PROVE  \E own2, nf2, hold2, w2 : StateOK(file', cached', rec', orphans', op', job', own2, nf2, hold2, w2)
<1>1. job.do = "none" /\ rec \in Seq(RecSet)
  BY Idle
<1>2. PICK o : o = Op("write", r, t, rec[r].pos)
  OBVIOUS
<1>3. IsOp(o) /\ o.kind = "write" /\ o.at = r /\ o.t = t /\ o.old = rec[r].pos
  BY <1>2, OpOf
<1>4. r \in DOMAIN rec /\ r \in 1 .. Len(rec)
  BY <1>1 DEF WriteRec
<1>5. \A j2 : j2.do \in {"walk", "release"} \/ j2 = Then(o.kind) => OpOK(rec, o, j2)
  <2>1. Then(o.kind).do = "store"
    BY <1>3, Jobs DEF Then
  <2>. QED  BY <2>1, <1>3, <1>4 DEF OpOK, IsOp, Storing
<1>6. Deleting(o.old, o.kind)
  BY <1>3 DEF WriteRec
<1>7. \E own2, nf2, hold2, w2 : StateOK(file', cached, rec, orphans, o, job', own2, nf2, hold2, w2)
  BY <1>1, <1>3, <1>4, <1>5, <1>6, DeletingOK
<1>8. cached' = cached /\ rec' = rec /\ orphans' = orphans /\ op' = o
  BY <1>2 DEF WriteRec
<1>. QED  BY <1>7, <1>8

(* DeleteRec begins (Fand0File::DeleteRec, DelTFld).                       *)
LEMMA DeleteStep ==
  ASSUME NEW own, NEW nf, NEW hold, NEW w,
         StateOK(file, cached, rec, orphans, op, job, own, nf, hold, w), op = NoOp,
         NEW r, DeleteRec(r)
  PROVE  \E own2, nf2, hold2, w2 : StateOK(file', cached', rec', orphans', op', job', own2, nf2, hold2, w2)
<1>1. job.do = "none" /\ rec \in Seq(RecSet)
  BY Idle
<1>2. PICK o : o = Op("delete", r, NoText, rec[r].pos)
  OBVIOUS
<1>3. IsOp(o) /\ o.kind = "delete" /\ o.at = r /\ o.t = NoText /\ o.old = rec[r].pos /\ o.t \in Texts /\ o.t.len = 0
  BY <1>2, OpOf, TextFileAssumption DEF NoText
<1>4. r \in DOMAIN rec /\ r \in 1 .. Len(rec)
  BY <1>1 DEF DeleteRec
<1>5. \A j2 : j2.do \in {"walk", "release"} \/ j2 = Then(o.kind) => OpOK(rec, o, j2)
  <2>1. Then(o.kind).do = "set"
    BY <1>3, Jobs DEF Then
  <2>. QED  BY <2>1, <1>3, <1>4 DEF OpOK, IsOp
<1>6. Deleting(o.old, o.kind)
  BY <1>3 DEF DeleteRec
<1>7. \E own2, nf2, hold2, w2 : StateOK(file', cached, rec, orphans, o, job', own2, nf2, hold2, w2)
  BY <1>1, <1>3, <1>4, <1>5, <1>6, DeletingOK
<1>8. cached' = cached /\ rec' = rec /\ orphans' = orphans /\ op' = o
  BY <1>2 DEF DeleteRec
<1>. QED  BY <1>7, <1>8

(* A group begins to be deleted (DataEditor::DeleteRecProc).               *)
LEMMA GroupStep ==
  ASSUME NEW own, NEW nf, NEW hold, NEW w,
         StateOK(file, cached, rec, orphans, op, job, own, nf, hold, w), op = NoOp,
         NEW group, DeleteGroup(group)
  PROVE  StateOK(file', cached', rec', orphans', op', job', own, nf, hold, NoWork)
<1>1. Settled(file, rec, orphans, own, nf, hold) /\ rec \in Seq(RecSet)
  BY Idle
<1>2. PICK o : o = [Op("group", 1, NoText, NoPos) EXCEPT !.from = 1, !.group = group]
  OBVIOUS
<1>3. o = [kind |-> "group", at |-> 1, t |-> NoText, old |-> NoPos, from |-> 1, group |-> group]
  BY <1>2 DEF Op
<1>4. IsOp(o) /\ o.kind = "group" /\ o.at = 1 /\ o.t = NoText /\ o.old = NoPos /\ o.from = 1
  BY <1>3, OpFields
<1>5. 1 \in 1 .. Len(rec) + 1
  BY <1>1
<1>6. OpOK(rec, o, MoveJob)
  BY <1>4, <1>5, Jobs, TextFileAssumption DEF OpOK, IsOp
<1>7. StateOK(file, cached, rec, orphans, o, MoveJob, own, nf, hold, NoWork)
  BY <1>1, <1>4, <1>6, SettledOK
<1>8. /\ file' = file /\ cached' = cached /\ rec' = rec /\ orphans' = orphans
      /\ op' = o /\ job' = MoveJob
  BY <1>2 DEF DeleteGroup
<1>. QED  BY <1>7, <1>8

(* The end of a sequence of records is cut off, and its texts are orphans. *)
LEMMA CutOK ==
  ASSUME NEW f, NEW rc, NEW orp, NEW own, NEW nf, NEW hold,
         Settled(f, rc, orp, own, nf, hold), NEW n \in 0 .. Len(rc), NEW orp2,
         orp2 = orp \cup ({rc[r].pos : r \in n + 1 .. Len(rc)} \ {NoPos})
  PROVE  Settled(f, SubSeq(rc, 1, n), orp2, own, nf, hold)
<1>1. /\ rc \in Seq(RecSet) /\ RecsOK(rc, orp) /\ FileOK(f, own, nf, hold, NoWork)
      /\ DOMAIN hold = PosOf(rc) \cup orp
      /\ \A r \in DOMAIN rc : rc[r].pos # NoPos => hold[rc[r].pos] = rc[r].t
  BY DEF Settled, RecsOK
<1>2. PICK rc2 : rc2 = SubSeq(rc, 1, n)
  OBVIOUS
<1>3. rc2 \in Seq(RecSet) /\ DOMAIN rc2 = 1 .. n /\ \A r \in 1 .. n : rc2[r] = rc[r]
  BY <1>1, <1>2
<1>4. DOMAIN rc = 1 .. Len(rc) /\ Len(rc) \in Nat
  BY <1>1
<1>5. \A r \in DOMAIN rc : (r \in 1 .. n \/ r \in n + 1 .. Len(rc)) /\ ~ (r \in 1 .. n /\ r \in n + 1 .. Len(rc))
  BY <1>4
<1>6. 1 .. n \subseteq DOMAIN rc /\ n + 1 .. Len(rc) \subseteq DOMAIN rc
  BY <1>4
<1>7. /\ \A r \in DOMAIN rc : rc[r].pos = NoPos <=> rc[r].t.len = 0
      /\ \A r, q \in DOMAIN rc : r # q => rc[r].pos # rc[q].pos \/ rc[r].pos = NoPos
      /\ PosOf(rc) \cap orp = {} /\ NoPos \notin orp
  BY <1>1 DEF RecsOK
<1>8. PICK cut : cut = {rc[r].pos : r \in n + 1 .. Len(rc)} \ {NoPos}
  OBVIOUS
<1>9. PosOf(rc) = PosOf(rc2) \cup cut
  BY <1>3, <1>5, <1>6, <1>8 DEF PosOf
<1>10. PosOf(rc2) \cap cut = {} /\ NoPos \notin cut
  BY <1>3, <1>5, <1>6, <1>7, <1>8 DEF PosOf
<1>11. RecsOK(rc2, orp2)
  <2>1. PosOf(rc2) \cap orp2 = {} /\ NoPos \notin orp2
    BY <1>7, <1>8, <1>9, <1>10
  <2>2. \A r \in DOMAIN rc2 : rc2[r].pos = NoPos <=> rc2[r].t.len = 0
    BY <1>3, <1>6, <1>7
  <2>3. \A r, q \in DOMAIN rc2 : r # q => rc2[r].pos # rc2[q].pos \/ rc2[r].pos = NoPos
    BY <1>3, <1>6, <1>7
  <2>. QED  BY <2>1, <2>2, <2>3, <1>3 DEF RecsOK
<1>12. DOMAIN hold = PosOf(rc2) \cup orp2
  BY <1>1, <1>8, <1>9
<1>13. \A r \in DOMAIN rc2 : rc2[r].pos # NoPos => hold[rc2[r].pos] = rc2[r].t
  BY <1>1, <1>3, <1>6
<1>. QED  BY <1>1, <1>2, <1>11, <1>12, <1>13 DEF Settled

(* A settled file without an operation.                                    *)
LEMMA NoOpOK ==
  ASSUME NEW f, NEW c, NEW rc, NEW orp, NEW own, NEW nf, NEW hold, Settled(f, rc, orp, own, nf, hold)
  PROVE  StateOK(f, c, rc, orp, NoOp, NoJob, own, nf, hold, NoWork)
<1>1. OpOK(rc, NoOp, NoJob)
  BY Jobs, TextFileAssumption DEF OpOK, NoOp, Op
<1>. QED  BY <1>1, Jobs, SettledOK

(* Records are cut off, or the file is emptied (FileD::AssignNRecs).       *)
LEMMA AssignStep ==
  ASSUME NEW own, NEW nf, NEW hold, NEW w,
         StateOK(file, cached, rec, orphans, op, job, own, nf, hold, w), op = NoOp,
         NEW n \in Nat, AssignNRecs(n)
  PROVE  \E own2, nf2, hold2 : StateOK(file', cached', rec', orphans', op', job', own2, nf2, hold2, NoWork)
<1>1. /\ job = NoJob /\ rec \in Seq(RecSet) /\ Settled(file, rec, orphans, own, nf, hold)
  BY Idle
<1>2. n \in 0 .. Len(rec) /\ Len(rec) \in Nat
  BY <1>1 DEF AssignNRecs
<1>3. rec' = SubSeq(rec, 1, n) /\ cached' = cached /\ op' = NoOp /\ job' = NoJob
  BY <1>1 DEF AssignNRecs
<1>4. CASE n # 0
  <2>1. file' = file /\ orphans' = orphans \cup ({rec[r].pos : r \in n + 1 .. Len(rec)} \ {NoPos})
    BY <1>4 DEF AssignNRecs
  <2>2. Settled(file, rec', orphans', own, nf, hold)
    BY <1>1, <1>2, <1>3, <2>1, CutOK
  <2>. QED  BY <2>1, <2>2, <1>3, NoOpOK
<1>5. CASE n = 0
  <2>1. file' = EmptyFile /\ orphans' = {}
    BY <1>5 DEF AssignNRecs
  <2>2. PICK h : h = [x \in {} |-> NoText]
    OBVIOUS
  <2>3. DOMAIN h = {}
    BY <2>2
  <2>4. PICK own2, nf2 : FileOK(EmptyFile, own2, nf2, h, NoWork)
    BY <2>3, EmptyFileOK
  <2>5. rec' \in Seq(RecSet) /\ DOMAIN rec' = {}
    BY <1>1, <1>2, <1>3, <1>5
  <2>6. PosOf(rec') = {}
    BY <2>5 DEF PosOf
  <2>7. RecsOK(rec', orphans')
    BY <2>1, <2>5, <2>6 DEF RecsOK
  <2>8. Settled(file', rec', orphans', own2, nf2, h)
    BY <2>1, <2>3, <2>4, <2>5, <2>6, <2>7 DEF Settled
  <2>. QED  BY <2>8, <1>3, NoOpOK
<1>. QED  BY <1>4, <1>5

(* The lock mode changes.                                                  *)
LEMMA LockStep ==
  ASSUME NEW own, NEW nf, NEW hold, NEW w,
         StateOK(file, cached, rec, orphans, op, job, own, nf, hold, w), op = NoOp, SetLockMode
  PROVE  StateOK(file', cached', rec', orphans', op', job', own, nf, hold, NoWork)
<1>1. Settled(file, rec, orphans, own, nf, hold) /\ job = NoJob
  BY Idle
<1>2. file' = file /\ rec' = rec /\ orphans' = orphans /\ op' = NoOp /\ job' = NoJob
  BY <1>1 DEF SetLockMode
<1>. QED  BY <1>1, <1>2, NoOpOK

(* A group: the record that is looked at is in the file.                   *)
LEMMA MovingIs ==
  ASSUME NEW own, NEW nf, NEW hold, NEW w,
         StateOK(file, cached, rec, orphans, op, job, own, nf, hold, w), job.do = "move"
  PROVE  /\ Settled(file, rec, orphans, own, nf, hold) /\ rec \in Seq(RecSet) /\ Len(rec) \in Nat
         /\ DOMAIN rec = 1 .. Len(rec)
         /\ job = MoveJob /\ op.old = NoPos /\ op.t \in Texts /\ IsOp(op)
         /\ op.kind = "group" /\ op.at \in 1 .. Len(rec) + 1 /\ op.from \in op.at .. Len(rec) + 1
<1>1. Settled(file, rec, orphans, own, nf, hold) /\ op.old = NoPos
  BY SettledIs
<1>2. job = MoveJob
  BY Jobs DEF StateOK, JobOK
<1>3. IsOp(op) /\ op.kind = "group" /\ op.at \in 1 .. Len(rec) + 1 /\ op.from \in op.at .. Len(rec) + 1 /\ op.t \in Texts
  BY Jobs DEF StateOK, OpOK, IsOp, Storing
<1>4. rec \in Seq(RecSet)
  BY <1>1 DEF Settled, RecsOK
<1>. QED  BY <1>1, <1>2, <1>3, <1>4

(* A settled file with a group that is being deleted.                      *)
LEMMA GroupOK ==
  ASSUME NEW f, NEW c, NEW rc, NEW orp, NEW own, NEW nf, NEW hold, Settled(f, rc, orp, own, nf, hold),
         NEW at, NEW from, NEW t \in Texts, NEW group,
         at \in 1 .. Len(rc) + 1, from \in at .. Len(rc) + 1, NEW o,
         o = [kind |-> "group", at |-> at, t |-> t, old |-> NoPos, from |-> from, group |-> group]
  PROVE  StateOK(f, c, rc, orp, o, MoveJob, own, nf, hold, NoWork)
<1>1. IsOp(o) /\ o.kind = "group" /\ o.at = at /\ o.t = t /\ o.old = NoPos /\ o.from = from
  BY OpFields
<1>2. OpOK(rc, o, MoveJob)
  BY <1>1, Jobs DEF OpOK, IsOp
<1>. QED  BY <1>1, <1>2, SettledOK

(* A record of the group is passed over, or one with the same text kept.   *)
LEMMA DropStep ==
  ASSUME NEW own, NEW nf, NEW hold, NEW w,
         StateOK(file, cached, rec, orphans, op, job, own, nf, hold, w), DropRec \/ KeepRec
  PROVE  StateOK(file', cached, rec', orphans', op', job', own, nf, hold, NoWork)
<1>1. job.do = "move" /\ op.from \in DOMAIN rec
  BY DEF DropRec, KeepRec, Moving
<1>2. /\ Settled(file, rec, orphans, own, nf, hold) /\ rec \in Seq(RecSet) /\ Len(rec) \in Nat
      /\ DOMAIN rec = 1 .. Len(rec)
      /\ job = MoveJob /\ op.old = NoPos /\ op.t \in Texts /\ IsOp(op)
      /\ op.kind = "group" /\ op.at \in 1 .. Len(rec) + 1 /\ op.from \in op.at .. Len(rec) + 1
  BY <1>1, MovingIs
<1>3. PICK at, from, t, group : at = op.at /\ from = op.from /\ t = op.t /\ group = op.group
  OBVIOUS
<1>4. op = [kind |-> "group", at |-> at, t |-> t, old |-> NoPos, from |-> from, group |-> group]
  BY <1>2, <1>3 DEF IsOp
<1>5. /\ at \in 1 .. Len(rec) + 1 /\ from \in at .. Len(rec) + 1 /\ from \in 1 .. Len(rec) /\ t \in Texts
  BY <1>1, <1>2, <1>3
<1>6. file' = file /\ rec' = rec /\ orphans' = orphans /\ job' = MoveJob
  BY <1>2 DEF DropRec, KeepRec
<1>7. CASE DropRec
  <2>1. op' = [op EXCEPT !.from = @ + 1]
    BY <1>7 DEF DropRec
  <2>2. op' = [kind |-> "group", at |-> at, t |-> t, old |-> NoPos, from |-> from + 1, group |-> group]
    BY <2>1, <1>4
  <2>3. from + 1 \in at .. Len(rec) + 1
    BY <1>2, <1>5
  <2>. QED  BY <2>2, <2>3, <1>2, <1>5, <1>6, GroupOK
<1>8. CASE KeepRec
  <2>1. op' = [op EXCEPT !.at = @ + 1, !.from = @ + 1]
    BY <1>8 DEF KeepRec
  <2>2. op' = [kind |-> "group", at |-> at + 1, t |-> t, old |-> NoPos, from |-> from + 1, group |-> group]
    BY <2>1, <1>4
  <2>3. at + 1 \in 1 .. Len(rec) + 1 /\ from + 1 \in at + 1 .. Len(rec) + 1
    BY <1>2, <1>5
  <2>. QED  BY <2>2, <2>3, <1>2, <1>5, <1>6, GroupOK
<1>. QED  BY <1>7, <1>8

(* The operation with the text that is moved.                              *)
LEMMA MovedOp ==
  ASSUME NEW kind, NEW at, NEW t, NEW old, NEW from, NEW group, NEW t0, NEW old0, NEW o, NEW o2,
         o = [kind |-> kind, at |-> at, t |-> t0, old |-> old0, from |-> from, group |-> group],
         o2 = [o EXCEPT !.t = t, !.old = old]
  PROVE  o2 = [kind |-> kind, at |-> at, t |-> t, old |-> old, from |-> from, group |-> group]
OBVIOUS

(* A record moves down: the text in its new place is deleted first.        *)
LEMMA MoveStep ==
  ASSUME NEW own, NEW nf, NEW hold, NEW w,
         StateOK(file, cached, rec, orphans, op, job, own, nf, hold, w), MoveRec, cached' = cached
  PROVE  \E own2, nf2, hold2, w2 : StateOK(file', cached', rec', orphans', op', job', own2, nf2, hold2, w2)
<1>1. job.do = "move" /\ op.from \in DOMAIN rec
  BY DEF MoveRec, Moving
<1>2. /\ rec \in Seq(RecSet) /\ Len(rec) \in Nat /\ DOMAIN rec = 1 .. Len(rec) /\ IsOp(op)
      /\ op.kind = "group" /\ op.at \in 1 .. Len(rec) + 1 /\ op.from \in op.at .. Len(rec) + 1
  BY <1>1, MovingIs
<1>3. PICK at, from, t, old, group :
        at = op.at /\ from = op.from /\ t = rec[op.from].t /\ old = rec[op.at].pos /\ group = op.group
  OBVIOUS
<1>4. PICK t0, old0 : t0 = op.t /\ old0 = op.old
  OBVIOUS
<1>5. op = [kind |-> "group", at |-> at, t |-> t0, old |-> old0, from |-> from, group |-> group]
  BY <1>2, <1>3, <1>4 DEF IsOp
<1>6. PICK o : o = [kind |-> "group", at |-> at, t |-> t, old |-> old, from |-> from, group |-> group]
  OBVIOUS
<1>7. IsOp(o) /\ o.kind = "group" /\ o.at = at /\ o.t = t /\ o.old = old /\ o.from = from
  BY <1>6, OpFields
<1>8. op' = o
  <2>1. op' = [op EXCEPT !.t = t, !.old = old]
    BY <1>3 DEF MoveRec
  <2>2. op' = [kind |-> "group", at |-> at, t |-> t, old |-> old, from |-> from, group |-> group]
    BY <1>5, <2>1, MovedOp
  <2>. QED  BY <2>1, <2>2, <1>6
<1>9. at \in 1 .. Len(rec) /\ from \in at .. Len(rec) /\ t \in Texts /\ old = rec[at].pos
  <2>1. rec[from] \in RecSet
    BY <1>1, <1>2, <1>3
  <2>. QED  BY <2>1, <1>1, <1>2, <1>3 DEF RecSet
<1>10. \A j2 : j2.do \in {"walk", "release"} \/ j2 = Then(o.kind) => OpOK(rec, o, j2)
  <2>1. Then(o.kind).do = "store"
    BY <1>7, Jobs DEF Then
  <2>. QED  BY <2>1, <1>7, <1>9 DEF OpOK, IsOp, Storing
<1>11. Deleting(o.old, o.kind)
  BY <1>3, <1>7 DEF MoveRec
<1>12. o.at \in DOMAIN rec /\ o.old = rec[o.at].pos
  BY <1>2, <1>7, <1>9
<1>13. \E own2, nf2, hold2, w2 : StateOK(file', cached, rec, orphans, o, job', own2, nf2, hold2, w2)
  BY <1>1, <1>7, <1>10, <1>11, <1>12, DeletingOK
<1>14. rec' = rec /\ orphans' = orphans
  BY DEF MoveRec
<1>. QED  BY <1>8, <1>13, <1>14

(* The group is deleted: the last places are cut off.                      *)
LEMMA EndStep ==
  ASSUME NEW own, NEW nf, NEW hold, NEW w,
         StateOK(file, cached, rec, orphans, op, job, own, nf, hold, w), EndGroup
  PROVE  StateOK(file', cached, rec', orphans', op', job', own, nf, hold, NoWork)
<1>1. /\ Settled(file, rec, orphans, own, nf, hold) /\ Len(rec) \in Nat /\ op.at \in 1 .. Len(rec) + 1
  BY MovingIs DEF EndGroup
<1>2. PICK n : n = op.at - 1
  OBVIOUS
<1>3. n \in 0 .. Len(rec) /\ op.at = n + 1
  BY <1>1, <1>2
<1>4. /\ rec' = SubSeq(rec, 1, n) /\ orphans' = orphans \cup ({rec[r].pos : r \in n + 1 .. Len(rec)} \ {NoPos})
      /\ op' = NoOp /\ job' = NoJob /\ file' = file
  BY <1>2, <1>3 DEF EndGroup
<1>5. Settled(file, rec', orphans', own, nf, hold)
  BY <1>1, <1>3, <1>4, CutOK
<1>. QED  BY <1>4, <1>5, NoOpOK

-----------------------------------------------------------------------------
(* Each operation keeps the invariant when it begins.                      *)
LEMMA ChangeStep ==
  ASSUME NEW own, NEW nf, NEW hold, NEW w,
         StateOK(file, cached, rec, orphans, op, job, own, nf, hold, w), op = NoOp, Change
  PROVE  \E own2, nf2, hold2, w2 : StateOK(file', cached', rec', orphans', op', job', own2, nf2, hold2, w2)
<1>1. CASE \E t \in Texts : \E n \in 1 .. MaxRecs : CreateRec(n, t)
  <2>1. PICK t \in Texts, n \in 1 .. MaxRecs : CreateRec(n, t)
    BY <1>1
  <2>2. n \in Nat \ {0}
    BY TextFileAssumption
  <2>. QED  BY <2>1, <2>2, CreateStep
<1>2. CASE \E t \in Texts : \E r \in 1 .. MaxRecs : WriteRec(r, t)
  BY <1>2, WriteStep
<1>3. CASE \E r \in 1 .. MaxRecs : DeleteRec(r)
  BY <1>3, DeleteStep
<1>4. CASE \E group \in SUBSET (1 .. MaxRecs) : DeleteGroup(group)
  BY <1>4, GroupStep
<1>5. CASE \E n \in 0 .. MaxRecs : AssignNRecs(n)
  <2>1. PICK n \in 0 .. MaxRecs : AssignNRecs(n)
    BY <1>5
  <2>2. n \in Nat
    BY TextFileAssumption
  <2>3. \E own2, nf2, hold2 : StateOK(file', cached', rec', orphans', op', job', own2, nf2, hold2, NoWork)
    BY <2>1, <2>2, AssignStep
  <2>. QED  BY <2>3
<1>6. CASE SetLockMode
  BY <1>6, LockStep
<1>. QED  BY <1>1, <1>2, <1>3, <1>4, <1>5, <1>6 DEF Change

(* Each step of storing and deleting a text keeps it.                      *)
LEMMA TextSteps ==
  ASSUME NEW own, NEW nf, NEW hold, NEW w,
         StateOK(file, cached, rec, orphans, op, job, own, nf, hold, w), TextStep,
         UNCHANGED <<cached, rec, orphans>>
  PROVE  \E own2, nf2, hold2, w2 : StateOK(file', cached', rec', orphans', op', job', own2, nf2, hold2, w2)
<1>1. /\ cached' = cached /\ rec' = rec /\ orphans' = orphans
  OBVIOUS
<1>2. op' = op
  BY DEF TextStep, Walk, WalkEnds, TailDrawsBack, ReleaseOne, StoreNothing, StoreShort, StoreLong,
         WriteMore, WriteSegment, WriteLast
<1>3. CASE Walk
  BY <1>1, <1>2, <1>3, WalkStep
<1>4. CASE WalkEnds
  BY <1>1, <1>2, <1>4, WalkEndsStep
<1>5. CASE TailDrawsBack
  BY <1>1, <1>2, <1>5, TailDrawsBackStep
<1>6. CASE StoreNothing \/ StoreShort \/ StoreLong
  BY <1>1, <1>2, <1>6, StoreSteps
<1>7. CASE WriteMore \/ WriteSegment \/ WriteLast \/ ReleaseOne
  BY <1>1, <1>2, <1>7, WriteSteps
<1>. QED  BY <1>3, <1>4, <1>5, <1>6, <1>7 DEF TextStep

(* Each step of a record operation keeps it.                               *)
LEMMA RecSteps ==
  ASSUME NEW own, NEW nf, NEW hold, NEW w,
         StateOK(file, cached, rec, orphans, op, job, own, nf, hold, w), RecStep, cached' = cached
  PROVE  \E own2, nf2, hold2, w2 : StateOK(file', cached', rec', orphans', op', job', own2, nf2, hold2, w2)
<1>1. CASE SetRec
  BY <1>1, SetStep
<1>2. CASE DropRec \/ KeepRec
  BY <1>2, DropStep
<1>3. CASE MoveRec
  BY <1>3, MoveStep
<1>4. CASE EndGroup
  BY <1>4, EndStep
<1>. QED  BY <1>1, <1>2, <1>3, <1>4 DEF RecStep

(* Every step keeps the invariant.                                         *)
LEMMA NextInv == IInv /\ [Next]_vars => IInv'
<1>. SUFFICES ASSUME IInv, [Next]_vars PROVE IInv'
  OBVIOUS
<1>1. PICK own, nf, hold, w : StateOK(file, cached, rec, orphans, op, job, own, nf, hold, w)
  BY DEF IInv
<1>2. cached \in BOOLEAN /\ load \in Seq(Texts)
  BY DEF IInv
<1>3. SUFFICES /\ cached' \in BOOLEAN /\ load' \in Seq(Texts)
               /\ \E own2, nf2, hold2, w2 : StateOK(file', cached', rec', orphans', op', job', own2, nf2, hold2, w2)
  BY DEF IInv
<1>4. CASE /\ op = NoOp /\ load # <<>>
           /\ CreateRec(Len(rec) + 1, Head(load)) /\ load' = Tail(load) /\ UNCHANGED steps
  <2>1. Head(load) \in Texts /\ Tail(load) \in Seq(Texts)
    BY <1>2, <1>4
  <2>2. Len(rec) + 1 \in Nat \ {0}
    BY <1>1 DEF StateOK, RecsOK
  <2>3. StateOK(file', cached', rec', orphans', op', job', own, nf, hold, NoWork)
    BY <1>1, <1>4, <2>1, <2>2, CreateStep
  <2>4. cached' = cached
    BY <1>4 DEF CreateRec
  <2>. QED  BY <1>2, <1>4, <2>1, <2>3, <2>4
<1>5. CASE op = NoOp /\ load = <<>> /\ steps < MaxSteps /\ Change /\ steps' = steps + 1 /\ UNCHANGED load
  <2>1. cached' \in BOOLEAN
    BY <1>2, <1>5 DEF Change, CreateRec, WriteRec, DeleteRec, DeleteGroup, AssignNRecs, SetLockMode
  <2>. QED  BY <1>1, <1>2, <1>5, <2>1, ChangeStep
<1>6. CASE TextStep /\ UNCHANGED <<cached, rec, orphans, load, steps>>
  <2>1. cached' = cached /\ load' = load /\ UNCHANGED <<cached, rec, orphans>>
    BY <1>6
  <2>. QED  BY <1>1, <1>2, <1>6, <2>1, TextSteps
<1>7. CASE RecStep /\ UNCHANGED <<cached, load, steps>>
  <2>1. cached' = cached /\ load' = load
    BY <1>7
  <2>. QED  BY <1>1, <1>2, <1>7, <2>1, RecSteps
<1>8. CASE UNCHANGED vars
  BY <1>1, <1>2, <1>8 DEF vars
<1>. QED  BY <1>4, <1>5, <1>6, <1>7, <1>8 DEF Next

(* The file is kept: at every moment, also inside an operation, each page  *)
(* of the text file is a page of short texts that tile it, a free page of  *)
(* the list, or the page of one long text that its length and links say;   *)
(* the records and the orphans have the positions of the texts in it, each *)
(* its own (FandTFile and the record operations of Fand0File).             *)
THEOREM FileIsKept == Spec => []IInv
<1>1. Init => IInv
  BY InitInv
<1>2. IInv /\ [Next]_vars => IInv'
  BY NextInv
<1>. QED  BY <1>1, <1>2, PTL DEF Spec

-----------------------------------------------------------------------------
(* What Read, GetLength and the free list do again and again.              *)
Step(way, f, x) ==
  CASE way = "read"  -> ReadNext(f, x)
    [] way = "count" -> CountNext(f, x)
    [] way = "free"  -> PageAt(f, x).next

(* t is such a function, beginning with a.                                 *)
Iterates(way, f, a, t) == t = [k \in Nat |-> IF k = 0 THEN a ELSE Step(way, f, t[k - 1])]

(* A recursive function over the steps exists.                             *)
LEMMA StepsExist ==
  ASSUME NEW way, NEW f, NEW a
  PROVE  \E t : Iterates(way, f, a, t)
<1>. DEFINE Upto(n, h) == /\ DOMAIN h = 0 .. n /\ h[0] = a
                          /\ \A q \in 1 .. n : h[q] = Step(way, f, h[q - 1])
            S == {n \in Nat : \E h : Upto(n, h)}
<1>1. 0 \in S
  <2>1. Upto(0, [q \in 0 .. 0 |-> a])
    OBVIOUS
  <2>. QED  BY <2>1
<1>2. \A n \in Nat : n \in S => n + 1 \in S
  <2>1. ASSUME NEW n \in Nat, NEW h, Upto(n, h) PROVE \E g : Upto(n + 1, g)
    <3>. DEFINE g == [q \in 0 .. n + 1 |-> IF q = n + 1 THEN Step(way, f, h[n]) ELSE h[q]]
    <3>1. DOMAIN g = 0 .. n + 1 /\ g[0] = a
      BY <2>1
    <3>2. ASSUME NEW q \in 1 .. n + 1 PROVE g[q] = Step(way, f, g[q - 1])
      <4>1. CASE q = n + 1
        BY <4>1
      <4>2. CASE q # n + 1
        <5>1. q \in 1 .. n /\ g[q] = h[q] /\ g[q - 1] = h[q - 1]
          BY <4>2
        <5>. QED  BY <2>1, <5>1
      <4>. QED  BY <4>1, <4>2
    <3>. QED  BY <3>1, <3>2
  <2>. HIDE DEF Upto
  <2>. QED  BY <2>1
<1>3. \A n \in Nat : \E h : Upto(n, h)
  <2>. HIDE DEF Upto
  <2>1. \A n \in Nat : n \in S
    <3>. HIDE DEF S
    <3>. QED  BY <1>1, <1>2, NatSet
  <2>. QED  BY <2>1
<1>. DEFINE H(n) == CHOOSE h : Upto(n, h)
            t == [q \in Nat |-> H(q)[q]]
<1>4. \A n \in Nat : Upto(n, H(n))
  <2>. HIDE DEF Upto
  <2>. QED  BY <1>3
<1>. HIDE DEF H
<1>5. \A n, q \in Nat : q <= n => H(n)[q] = H(q)[q]
  <2>. SUFFICES ASSUME NEW n \in Nat PROVE \A q \in Nat : q <= n => H(n)[q] = H(q)[q]
    OBVIOUS
  <2>. DEFINE E == {q \in Nat : \A m \in Nat : q <= m => H(m)[q] = H(q)[q]}
  <2>1. 0 \in E
    BY <1>4
  <2>2. \A q \in Nat : q \in E => q + 1 \in E
    <3>. SUFFICES ASSUME NEW q \in Nat, q \in E, NEW m \in Nat, q + 1 <= m
                  PROVE  H(m)[q + 1] = H(q + 1)[q + 1]
      OBVIOUS
    <3>1. H(m)[q] = H(q)[q] /\ H(q + 1)[q] = H(q)[q]
      BY q <= m, q <= q + 1, q + 1 \in Nat
    <3>2. H(m)[q + 1] = Step(way, f, H(m)[q])
      <4>1. Upto(m, H(m)) /\ q + 1 \in 1 .. m /\ (q + 1) - 1 = q
        BY <1>4
      <4>. QED  BY <4>1
    <3>3. H(q + 1)[q + 1] = Step(way, f, H(q + 1)[q])
      <4>1. Upto(q + 1, H(q + 1)) /\ q + 1 \in 1 .. q + 1 /\ (q + 1) - 1 = q
        BY <1>4
      <4>. QED  BY <4>1
    <3>. QED  BY <3>1, <3>2, <3>3
  <2>3. \A q \in Nat : q \in E
    <3>. HIDE DEF E
    <3>. QED  BY <2>1, <2>2, NatSet
  <2>. QED  BY <2>3
<1>6. DOMAIN t = Nat /\ t = [q \in Nat |-> t[q]] /\ t[0] = a
  BY <1>4
<1>7. \A q \in Nat : q # 0 => t[q] = Step(way, f, t[q - 1])
  <2>. SUFFICES ASSUME NEW q \in Nat, q # 0 PROVE t[q] = Step(way, f, t[q - 1])
    OBVIOUS
  <2>1. H(q)[q] = Step(way, f, H(q)[q - 1])
    BY <1>4
  <2>2. H(q)[q - 1] = H(q - 1)[q - 1]
    BY <1>5
  <2>. QED  BY <2>1, <2>2
<1>. HIDE DEF t
<1>8. t = [q \in Nat |-> IF q = 0 THEN a ELSE Step(way, f, t[q - 1])]
  BY <1>6, <1>7
<1>. QED  BY <1>8 DEF Iterates

(* Its values.                                                             *)
LEMMA StepsTaken ==
  ASSUME NEW way, NEW f, NEW a, NEW t,
         t = [k \in Nat |-> IF k = 0 THEN a ELSE Step(way, f, t[k - 1])]
  PROVE  t[0] = a /\ \A k \in Nat : t[k + 1] = Step(way, f, t[k])
<1>1. t[0] = a
  OBVIOUS
<1>2. ASSUME NEW k \in Nat PROVE t[k + 1] = Step(way, f, t[k])
  <2>1. k + 1 \in Nat /\ k + 1 # 0 /\ (k + 1) - 1 = k
    OBVIOUS
  <2>. QED  BY <2>1
<1>. QED  BY <1>1, <1>2

(* Read, step by step.                                                     *)
LEMMA ReadSteps ==
  ASSUME NEW f, NEW pos
  PROVE  /\ Read(f, pos)[0] = Segment(f, pos[1], pos[2], 0)
         /\ \A k \in Nat : Read(f, pos)[k + 1] = ReadNext(f, Read(f, pos)[k])
<1>. DEFINE a == Segment(f, pos[1], pos[2], 0)
            v == CHOOSE t : t = [k \in Nat |-> IF k = 0 THEN a ELSE ReadNext(f, t[k - 1])]
<1>1. Read(f, pos) = v
  BY DEF Read
<1>2. \A x : Step("read", f, x) = ReadNext(f, x)
  BY DEF Step
<1>3. PICK s : Iterates("read", f, a, s)
  BY StepsExist
<1>4. s = [k \in Nat |-> IF k = 0 THEN a ELSE ReadNext(f, s[k - 1])]
  BY <1>2, <1>3 DEF Iterates
<1>5. v = [k \in Nat |-> IF k = 0 THEN a ELSE ReadNext(f, v[k - 1])]
  BY <1>4
<1>. HIDE DEF v, a
<1>6. v = [k \in Nat |-> IF k = 0 THEN a ELSE Step("read", f, v[k - 1])]
  BY <1>2, <1>5
<1>7. v[0] = a /\ \A k \in Nat : v[k + 1] = Step("read", f, v[k])
  BY <1>6, StepsTaken
<1>. QED  BY <1>1, <1>2, <1>7 DEF a

(* GetLength, step by step.                                                *)
LEMMA CountSteps ==
  ASSUME NEW f, NEW pos
  PROVE  \E c : /\ c[0] = Counted(f, pos, 0) /\ \A k \in Nat : c[k + 1] = CountNext(f, c[k])
                /\ GetLength(f, pos) = c[f.max].sum
<1>. DEFINE a == Counted(f, pos, 0)
            v == CHOOSE t : t = [k \in Nat |-> IF k = 0 THEN a ELSE CountNext(f, t[k - 1])]
<1>1. GetLength(f, pos) = v[f.max].sum
  BY DEF GetLength
<1>2. \A x : Step("count", f, x) = CountNext(f, x)
  BY DEF Step
<1>3. PICK s : Iterates("count", f, a, s)
  BY StepsExist
<1>4. s = [k \in Nat |-> IF k = 0 THEN a ELSE CountNext(f, s[k - 1])]
  BY <1>2, <1>3 DEF Iterates
<1>5. v = [k \in Nat |-> IF k = 0 THEN a ELSE CountNext(f, v[k - 1])]
  BY <1>4
<1>. HIDE DEF v, a
<1>6. v = [k \in Nat |-> IF k = 0 THEN a ELSE Step("count", f, v[k - 1])]
  BY <1>2, <1>5
<1>7. v[0] = a /\ \A k \in Nat : v[k + 1] = Step("count", f, v[k])
  BY <1>6, StepsTaken
<1>. QED  BY <1>1, <1>2, <1>7 DEF a

(* The free list, page by page.                                            *)
LEMMA FreeSteps ==
  \E c : /\ c[0] = file.free /\ \A k \in Nat : c[k + 1] = PageAt(file, c[k]).next
         /\ FreePages = {c[k] : k \in 0 .. file.max} \ {0}
<1>. DEFINE v == CHOOSE t : t = [k \in Nat |-> IF k = 0 THEN file.free ELSE PageAt(file, t[k - 1]).next]
<1>1. FreePages = {v[k] : k \in 0 .. file.max} \ {0}
  BY DEF FreePages
<1>2. \A x : Step("free", file, x) = PageAt(file, x).next
  BY DEF Step
<1>3. PICK s : Iterates("free", file, file.free, s)
  BY StepsExist
<1>4. s = [k \in Nat |-> IF k = 0 THEN file.free ELSE PageAt(file, s[k - 1]).next]
  BY <1>2, <1>3 DEF Iterates
<1>5. v = [k \in Nat |-> IF k = 0 THEN file.free ELSE PageAt(file, v[k - 1]).next]
  BY <1>4
<1>. HIDE DEF v
<1>6. v = [k \in Nat |-> IF k = 0 THEN file.free ELSE Step("free", file, v[k - 1])]
  BY <1>2, <1>5
<1>7. v[0] = file.free /\ \A k \in Nat : v[k + 1] = Step("free", file, v[k])
  BY <1>6, StepsTaken
<1>. QED  BY <1>1, <1>2, <1>7

-----------------------------------------------------------------------------
(* The state of a reader on a page of a long text, and at the end.         *)
At(own, m) ==
  [n |-> m, o |-> own[m].o, left |-> own[m].left, at |-> own[m].from, full |-> own[m].full]
(* A reader at the end of a text of so many bytes.                         *)
EndAt(len) == [n |-> 0, o |-> 0, left |-> 0, at |-> len, full |-> FALSE]

(* The parts of a reader on a page.                                        *)
LEMMA AtFields ==
  ASSUME NEW own, NEW m
  PROVE  /\ At(own, m).n = m /\ At(own, m).o = own[m].o /\ At(own, m).left = own[m].left
         /\ At(own, m).at = own[m].from /\ At(own, m).full = own[m].full
         /\ Here(At(own, m)) = Here(own[m])
BY DEF At, Here

(* The parts of a reader at the end.                                       *)
LEMMA EndFields ==
  ASSUME NEW len
  PROVE  EndAt(len).n = 0 /\ EndAt(len).left = 0 /\ EndAt(len).at = len
BY DEF EndAt

(* A page of a long text when no other text is under way.                  *)
LEMMA SlotPage ==
  ASSUME NEW f, NEW own, NEW nf, NEW hold, FileOK(f, own, nf, hold, NoWork),
         NEW m \in 1 .. f.max, SlotOK(own[m])
  PROVE  /\ LongOK(f, own, hold, NoWork, m) /\ HeadOK(f, own, m) /\ PieceOK(f, own, m)
         /\ PredOK(f, own, NoWork, m) /\ TextOK(own, hold, NoWork, m)
         /\ m \in DOMAIN f.page /\ PageAt(f, m) = f.page[m] /\ m # 0
<1>1. LongOK(f, own, hold, NoWork, m)
  BY Kinds DEF FileOK, PageOK, SharedOK, FreeOK
<1>2. m \in DOMAIN f.page /\ m # 0
  BY DEF FileOK, IsFile
<1>. QED  BY <1>1, <1>2, Jobs DEF LongOK, PageAt

(* From a page that is not the last one the reader comes to the following  *)
(* slot.                                                                   *)
LEMMA NextPage ==
  ASSUME NEW f, NEW own, NEW nf, NEW hold, FileOK(f, own, nf, hold, NoWork),
         NEW m \in 1 .. f.max, SlotOK(own[m]), HasNext(own[m]), NEW k, k = f.page[m].next
  PROVE  /\ k \in 1 .. f.max /\ own[k] = Following(own[m]) /\ SlotOK(own[k])
         /\ own[k].of = own[m].of /\ own[k].t = own[m].t /\ own[k].from > own[m].from
         /\ ReadNext(f, At(own, m)) = At(own, k)
<1>1. /\ k \in 1 .. f.max /\ own[k] = Following(own[m])
  BY SlotPage DEF PieceOK
<1>2. /\ SlotOK(own[k]) /\ own[k].of = own[m].of /\ own[k].t = own[m].t /\ own[k].from > own[m].from
      /\ own[k].from = own[m].from + Here(own[m])
  BY <1>1, FollowingOK
<1>3. /\ PageAt(f, m).next = k /\ m # 0
  BY SlotPage
<1>4. PICK s : s = own[m]
  OBVIOUS
<1>5. PICK u : u = own[k]
  OBVIOUS
<1>6. /\ s.o \in {0, 2} /\ s.from \in Nat /\ s.left \in Nat \ {0} /\ s.full \in BOOLEAN
      /\ s.full => s.from + s.left = MaxLStrLen
  BY <1>4 DEF SlotOK
<1>7. PICK x : x = At(own, m)
  OBVIOUS
<1>8. x.n = m /\ x.o = s.o /\ x.left = s.left /\ x.at = s.from /\ x.full = s.full /\ Here(x) = Here(s)
  BY <1>4, <1>7, AtFields
<1>9. CASE s.left > MPageSize - s.o
  <2>1. u = Slot(s.of, s.t, 0, s.from + (Linked - s.o), s.left - (Linked - s.o), s.full)
    BY <1>1, <1>4, <1>5, <1>9 DEF Following
  <2>2. u.o = 0 /\ u.from = s.from + (Linked - s.o) /\ u.left = s.left - (Linked - s.o) /\ u.full = s.full
    BY <2>1, SlotFields
  <2>3. Here(s) = Linked - s.o
    BY <1>9 DEF Here
  <2>4. ReadNext(f, x) = [n |-> k, o |-> 0, left |-> s.left - Here(s), at |-> s.from + Here(s), full |-> s.full]
    BY <1>3, <1>8, <1>9 DEF ReadNext
  <2>. QED  BY <2>2, <2>3, <2>4, <1>1, <1>2, <1>5, <1>7 DEF At
<1>10. CASE ~ (s.left > MPageSize - s.o)
  <2>1. s.full /\ u = Slot(s.of, s.t, 2, MaxLStrLen, s.t.len - MaxLStrLen, FALSE)
    BY <1>1, <1>4, <1>5, <1>10 DEF Following, HasNext
  <2>2. u.o = 2 /\ u.from = MaxLStrLen /\ u.left = s.t.len - MaxLStrLen /\ u.full = FALSE
    BY <2>1 DEF Slot
  <2>3. u.left \in Nat /\ u.left <= MaxLStrLen
    BY <1>2, <1>5, <2>2 DEF SlotOK
  <2>4. Word(f, <<k, 0>>) = u.left
    <3>1. 0 \in DOMAIN f.page[k].word /\ f.page[k].word[0] = SlotWord(u) /\ PageAt(f, k) = f.page[k]
      BY <1>1, <1>2, <1>5, <2>2, SlotPage DEF HeadOK
    <3>2. SlotWord(u) = u.left
      BY <2>2 DEF SlotWord
    <3>. QED  BY <3>1, <3>2 DEF Word
  <2>5. ~ Full(u.left) /\ Bytes(u.left) = u.left
    BY <2>3, Sizes DEF Full, Bytes
  <2>6. s.from + s.left = MaxLStrLen
    BY <1>6, <2>1
  <2>7. ReadNext(f, x) = Segment(f, k, 0, MaxLStrLen)
    BY <1>3, <1>8, <1>10, <2>1, <2>6 DEF ReadNext
  <2>8. Segment(f, k, 0, MaxLStrLen) = [n |-> k, o |-> 2, left |-> u.left, at |-> MaxLStrLen, full |-> u.full]
    <3>1. PICK fl, b : fl = Full(Word(f, <<k, 0>>)) /\ b = Bytes(Word(f, <<k, 0>>))
      OBVIOUS
    <3>2. fl = u.full
      <4>1. fl = FALSE
        BY <2>4, <2>5, <3>1
      <4>. QED  BY <4>1, <2>2
    <3>3. b = u.left
      BY <2>4, <2>5, <3>1
    <3>4. Segment(f, k, 0, MaxLStrLen) = [n |-> k, o |-> 0 + 2, left |-> b, at |-> MaxLStrLen, full |-> fl]
      BY <3>1 DEF Segment
    <3>. QED  BY <3>2, <3>3, <3>4
  <2>. QED  BY <2>2, <2>7, <2>8, <1>1, <1>2, <1>5, <1>7 DEF At
<1>. QED  BY <1>9, <1>10

(* From the last page of a text it comes to the end, all bytes read.       *)
LEMMA LastPage ==
  ASSUME NEW f, NEW own, NEW nf, NEW hold, FileOK(f, own, nf, hold, NoWork),
         NEW m \in 1 .. f.max, SlotOK(own[m]), ~ HasNext(own[m])
  PROVE  ReadNext(f, At(own, m)) = EndAt(own[m].t.len)
<1>1. m # 0
  BY SlotPage
<1>2. PICK s : s = own[m]
  OBVIOUS
<1>3. /\ s.from \in Nat /\ s.left \in Nat \ {0} /\ s.full \in BOOLEAN
      /\ ~ s.full => s.from + s.left = s.t.len
  BY <1>2 DEF SlotOK
<1>4. PICK x : x = At(own, m)
  OBVIOUS
<1>5. x.n = m /\ x.o = s.o /\ x.left = s.left /\ x.at = s.from /\ x.full = s.full
  BY <1>2, <1>4, AtFields
<1>6. ~ s.full /\ ~ (s.left > MPageSize - s.o)
  BY <1>2 DEF HasNext
<1>7. ReadNext(f, x) = [n |-> 0, o |-> 0, left |-> 0, at |-> s.from + s.left, full |-> FALSE]
  BY <1>5, <1>6 DEF ReadNext
<1>. QED  BY <1>2, <1>3, <1>4, <1>6, <1>7 DEF EndAt

(* What is read on a page is the piece of the text that belongs there.     *)
LEMMA PagePiece ==
  ASSUME NEW f, NEW own, NEW nf, NEW hold, FileOK(f, own, nf, hold, NoWork),
         NEW m \in 1 .. f.max, SlotOK(own[m])
  PROVE  Data(f, m, own[m].o, Here(own[m])) = Piece(own[m].t, own[m].from, Here(own[m]))
<1>1. PICK s : s = own[m]
  OBVIOUS
<1>2. s.o \in DOMAIN f.page[m].data /\ f.page[m].data[s.o] = Piece(s.t, s.from, Here(s)) /\ PageAt(f, m) = f.page[m]
  BY <1>1, SlotPage DEF PieceOK
<1>3. Here(s) \in Int
  BY <1>1, Sizes DEF SlotOK, Here
<1>4. PICK b : b = Here(s)
  OBVIOUS
<1>5. PICK y : y = Piece(s.t, s.from, b)
  OBVIOUS
<1>6. y.t = s.t /\ y.from = s.from /\ y.n = b
  BY <1>5 DEF Piece
<1>7. y.n >= b
  BY <1>3, <1>4, <1>6
<1>8. f.page[m].data[s.o] = y
  BY <1>2, <1>4, <1>5
<1>9. Data(f, m, s.o, b) = Piece(y.t, y.from, b)
  BY <1>2, <1>7, <1>8 DEF Data
<1>. QED  BY <1>1, <1>4, <1>6, <1>9

(* At the end it stays.                                                    *)
LEMMA AfterEnd ==
  ASSUME NEW f, NEW len \in Nat
  PROVE  ReadNext(f, EndAt(len)) = EndAt(len)
<1>1. PICK x : x = EndAt(len)
  OBVIOUS
<1>2. x.n = 0 /\ x.left = 0 /\ x.at = len
  BY <1>1, EndFields
<1>3. ReadNext(f, x) = [n |-> 0, o |-> 0, left |-> 0, at |-> x.at + x.left, full |-> FALSE]
  BY <1>2 DEF ReadNext
<1>. QED  BY <1>1, <1>2, <1>3 DEF EndAt

-----------------------------------------------------------------------------
(* The reader is on a page of the text t that begins on page first.        *)
Reading(f, own, t, first, s) ==
  \E m \in 1 .. f.max : SlotOK(own[m]) /\ own[m].of = first /\ own[m].t = t /\ s = At(own, m)

(* A reader goes on to a later page of its text or comes to the end.       *)
LEMMA ReadOn ==
  ASSUME NEW f, NEW own, NEW nf, NEW hold, FileOK(f, own, nf, hold, NoWork),
         NEW t, NEW first, NEW s, Reading(f, own, t, first, s)
  PROVE  \/ /\ Reading(f, own, t, first, ReadNext(f, s))
            /\ ReadNext(f, s).at > s.at /\ HasNext(own[s.n]) /\ ReadNext(f, s).n = f.page[s.n].next
         \/ ReadNext(f, s) = EndAt(t.len) /\ ~ HasNext(own[s.n])
<1>1. PICK m \in 1 .. f.max : SlotOK(own[m]) /\ own[m].of = first /\ own[m].t = t /\ s = At(own, m)
  BY DEF Reading
<1>2. s.at = own[m].from /\ s.n = m
  BY <1>1, AtFields
<1>3. CASE HasNext(own[m])
  <2>1. PICK k : k = f.page[m].next
    OBVIOUS
  <2>2. /\ k \in 1 .. f.max /\ SlotOK(own[k])
        /\ own[k].of = own[m].of /\ own[k].t = own[m].t /\ own[k].from > own[m].from
        /\ ReadNext(f, At(own, m)) = At(own, k)
    BY <1>1, <1>3, <2>1, NextPage
  <2>3. ReadNext(f, s).at = own[k].from /\ ReadNext(f, s).n = k
    BY <1>1, <2>2, AtFields
  <2>4. Reading(f, own, t, first, ReadNext(f, s))
    BY <1>1, <2>2 DEF Reading
  <2>. QED  BY <1>2, <1>3, <2>1, <2>2, <2>3, <2>4
<1>4. CASE ~ HasNext(own[m])
  BY <1>1, <1>2, <1>4, LastPage
<1>. QED  BY <1>3, <1>4

(* A reader of a long text begins on its first page.                       *)
LEMMA ReadStart ==
  ASSUME NEW f, NEW own, NEW nf, NEW hold, FileOK(f, own, nf, hold, NoWork),
         NEW pos \in DOMAIN hold, hold[pos].len > MPageSize - 2
  PROVE  /\ Read(f, pos)[0] = At(own, pos[1]) /\ pos[1] \in 1 .. f.max
         /\ Reading(f, own, hold[pos], pos[1], Read(f, pos)[0])
         /\ pos[1] # 0 /\ own[pos[1]] = First(pos[1], hold[pos])
<1>1. PICK n, t, u : n = pos[1] /\ t = hold[pos] /\ u = own[n]
  OBVIOUS
<1>2. /\ pos = <<n, pos[2]>> /\ n \in 1 .. f.max /\ t \in Texts /\ pos[2] = 0 /\ u = First(n, t)
      /\ Word(f, pos) = Head4(t.len)
  BY <1>1, Jobs, HeldWord
<1>3. n \in Nat \ {0} /\ t.len >= MPageSize - 2
  BY <1>1, <1>2, Sizes DEF FileOK, IsFile
<1>4. /\ SlotOK(u) /\ u.of = n /\ u.t = t /\ u.o = 2 /\ u.from = 0
      /\ u.left = Bytes(Head4(t.len)) /\ u.full = Full(Head4(t.len))
  BY <1>2, <1>3, FirstOK
<1>5. Word(f, <<n, 0>>) = Head4(t.len)
  BY <1>2
<1>6. Segment(f, n, 0, 0) = [n |-> n, o |-> 2, left |-> u.left, at |-> 0, full |-> u.full]
  <2>1. PICK fl, b : fl = Full(Word(f, <<n, 0>>)) /\ b = Bytes(Word(f, <<n, 0>>))
    OBVIOUS
  <2>2. fl = u.full
    BY <1>4, <1>5, <2>1
  <2>3. b = u.left
    BY <1>4, <1>5, <2>1
  <2>4. Segment(f, n, 0, 0) = [n |-> n, o |-> 0 + 2, left |-> b, at |-> 0, full |-> fl]
    BY <2>1 DEF Segment
  <2>. QED  BY <2>2, <2>3, <2>4
<1>7. Read(f, pos)[0] = At(own, n)
  <2>1. Read(f, pos)[0] = Segment(f, n, 0, 0)
    BY <1>1, <1>2, ReadSteps
  <2>2. At(own, n) = [n |-> n, o |-> 2, left |-> u.left, at |-> 0, full |-> u.full]
    BY <1>1, <1>4 DEF At
  <2>. QED  BY <2>1, <2>2, <1>6
<1>. QED  BY <1>1, <1>2, <1>3, <1>4, <1>7 DEF Reading

(* A reader is on a page of the text, further on with each step, or at its *)
(* end.                                                                    *)
LEMMA LongSteps ==
  ASSUME NEW f, NEW own, NEW nf, NEW hold, FileOK(f, own, nf, hold, NoWork),
         NEW pos \in DOMAIN hold, hold[pos].len > MPageSize - 2,
         NEW t, t = hold[pos], NEW v, v = Read(f, pos)
  PROVE  /\ \A k \in Nat : Reading(f, own, t, pos[1], v[k]) \/ v[k] = EndAt(t.len)
         /\ \A k \in Nat : v[k] = EndAt(t.len) => v[k + 1] = EndAt(t.len)
         /\ \A k \in Nat : v[k + 1].n # 0 => /\ v[k].n # 0 /\ v[k + 1].at > v[k].at
                                            /\ v[k].n \in 1 .. f.max /\ HasNext(own[v[k].n])
                                            /\ v[k + 1].n = f.page[v[k].n].next
<1>0. v[0] = Read(f, pos)[0] /\ \A k \in Nat : v[k + 1] = ReadNext(f, v[k])
  BY ReadSteps
<1>1. t.len \in Nat
  BY Jobs, HeldWord
<1>. DEFINE S == {k \in Nat : Reading(f, own, t, pos[1], v[k]) \/ v[k] = EndAt(t.len)}
<1>2. 0 \in S
  BY <1>0, ReadStart
<1>3. ASSUME NEW k \in Nat, k \in S PROVE k + 1 \in S
  <2>1. CASE Reading(f, own, t, pos[1], v[k])
    BY <2>1, <1>0, ReadOn
  <2>2. CASE v[k] = EndAt(t.len)
    BY <2>2, <1>0, <1>1, AfterEnd
  <2>. QED  BY <2>1, <2>2, <1>3
<1>4. \A k \in Nat : k \in S
  <2>. HIDE DEF S
  <2>. QED  BY <1>2, <1>3, NatSet
<1>5. \A k \in Nat : v[k] = EndAt(t.len) => v[k + 1] = EndAt(t.len)
  BY <1>0, <1>1, AfterEnd
<1>6. ASSUME NEW k \in Nat, v[k + 1].n # 0
      PROVE  /\ v[k].n # 0 /\ v[k + 1].at > v[k].at /\ v[k].n \in 1 .. f.max /\ HasNext(own[v[k].n])
             /\ v[k + 1].n = f.page[v[k].n].next
  <2>1. v[k + 1] # EndAt(t.len)
    BY <1>6, EndFields
  <2>2. Reading(f, own, t, pos[1], v[k])
    BY <2>1, <1>4, <1>5
  <2>3. v[k].n \in 1 .. f.max /\ v[k].n # 0
    BY <2>2, SlotPage, AtFields DEF Reading
  <2>4. v[k + 1] = ReadNext(f, v[k])
    BY <1>0
  <2>5. \/ /\ ReadNext(f, v[k]).at > v[k].at /\ HasNext(own[v[k].n]) /\ ReadNext(f, v[k]).n = f.page[v[k].n].next
        \/ ReadNext(f, v[k]) = EndAt(t.len)
    BY <2>2, ReadOn
  <2>. QED  BY <2>1, <2>3, <2>4, <2>5
<1>. QED  BY <1>4, <1>5, <1>6

(* It comes to the end before it has visited more pages than there are.    *)
LEMMA LongEnds ==
  ASSUME NEW f, NEW own, NEW nf, NEW hold, FileOK(f, own, nf, hold, NoWork),
         NEW pos \in DOMAIN hold, hold[pos].len > MPageSize - 2,
         NEW t, t = hold[pos], NEW v, v = Read(f, pos)
  PROVE  v[f.max] = EndAt(t.len)
<1>1. /\ \A k \in Nat : Reading(f, own, t, pos[1], v[k]) \/ v[k] = EndAt(t.len)
      /\ \A k \in Nat : v[k] = EndAt(t.len) => v[k + 1] = EndAt(t.len)
      /\ \A k \in Nat : v[k + 1].n # 0 => /\ v[k].n # 0 /\ v[k + 1].at > v[k].at
  BY LongSteps
<1>2. f.max \in Nat
  BY DEF FileOK, IsFile
<1>. SUFFICES ASSUME v[f.max] # EndAt(t.len) PROVE FALSE
  OBVIOUS
<1>3. ASSUME NEW k \in Nat, v[k] # EndAt(t.len)
      PROVE  v[k].n \in 1 .. f.max /\ v[k].at = own[v[k].n].from /\ v[k].at \in Nat /\ v[k].n # 0
  <2>1. PICK m \in 1 .. f.max : SlotOK(own[m]) /\ v[k] = At(own, m)
    BY <1>1, <1>3 DEF Reading
  <2>. QED  BY <2>1, AtFields, SlotPage DEF SlotOK
<1>. DEFINE D == {d \in Nat : d > f.max \/ v[f.max - d] # EndAt(t.len)}
<1>4. \A d \in Nat : d \in D => d + 1 \in D
  <2>1. ASSUME NEW d \in Nat, d \in D, d + 1 <= f.max PROVE v[f.max - (d + 1)] # EndAt(t.len)
    <3>1. f.max - (d + 1) \in Nat /\ (f.max - (d + 1)) + 1 = f.max - d /\ ~ (d > f.max)
      BY <2>1, <1>2
    <3>. QED  BY <3>1, <2>1, <1>1
  <2>. QED  BY <2>1, <1>2
<1>5. 0 \in D
  <2>1. f.max - 0 = f.max
    BY <1>2
  <2>. QED  BY <2>1
<1>6. \A d \in Nat : d \in D
  <2>. HIDE DEF D
  <2>. QED  BY <1>4, <1>5, NatSet
<1>7. \A k \in 0 .. f.max : v[k] # EndAt(t.len)
  <2>1. ASSUME NEW k \in 0 .. f.max PROVE v[k] # EndAt(t.len)
    <3>1. f.max - k \in Nat /\ f.max - (f.max - k) = k /\ ~ (f.max - k > f.max)
      BY <1>2
    <3>. QED  BY <3>1, <1>6
  <2>. QED  BY <2>1
<1>. HIDE DEF D
<1>8. \A k \in 0 .. f.max : /\ v[k].n \in 1 .. f.max /\ v[k].at = own[v[k].n].from
                           /\ v[k].at \in Nat /\ v[k].n # 0
  BY <1>2, <1>3, <1>7
<1>. DEFINE A(k) == v[k].at
            M == {k \in Nat : k <= f.max => \A j \in 0 .. k : j < k => A(j) < A(k)}
<1>9. \A k \in Nat : k \in M => k + 1 \in M
  <2>. SUFFICES ASSUME NEW k \in Nat, k \in M, k + 1 <= f.max, NEW j \in 0 .. k + 1, j < k + 1
                PROVE  A(j) < A(k + 1)
    OBVIOUS
  <2>1. A(k) < A(k + 1)
    <3>1. k + 1 \in 0 .. f.max /\ k \in 0 .. f.max
      BY <1>2
    <3>. QED  BY <3>1, <1>1, <1>8
  <2>2. A(k) \in Nat /\ A(k + 1) \in Nat /\ A(j) \in Nat
    <3>1. k + 1 \in 0 .. f.max /\ k \in 0 .. f.max /\ j \in 0 .. f.max
      BY <1>2
    <3>. QED  BY <3>1, <1>8
  <2>3. j # k => A(j) < A(k)
    <3>1. j # k => j \in 0 .. k /\ j < k
      OBVIOUS
    <3>2. k <= f.max
      BY <1>2
    <3>. QED  BY <3>1, <3>2
  <2>. HIDE DEF A
  <2>. QED  BY <2>1, <2>2, <2>3
<1>10. 0 \in M
  OBVIOUS
<1>11. \A k \in Nat : k \in M
  <2>. HIDE DEF M
  <2>. QED  BY <1>9, <1>10, NatSet
<1>12. ASSUME NEW j \in 0 .. f.max, NEW k \in 0 .. f.max, j < k PROVE v[j].n # v[k].n
  <2>1. A(j) < A(k)
    <3>1. k \in Nat /\ k <= f.max /\ j \in 0 .. k
      BY <1>2, <1>12
    <3>. QED  BY <3>1, <1>11, <1>12
  <2>2. A(j) \in Nat /\ A(k) \in Nat /\ v[j].at = own[v[j].n].from /\ v[k].at = own[v[k].n].from
    BY <1>8
  <2>3. v[j].at # v[k].at
    BY <2>1, <2>2
  <2>. QED  BY <2>2, <2>3
<1>13. PICK h : h = [k \in 0 .. f.max |-> v[k].n]
  OBVIOUS
<1>14. h \in [0 .. f.max -> 1 .. f.max]
  BY <1>8, <1>13
<1>15. /\ IsFiniteSet(0 .. f.max) /\ Cardinality(0 .. f.max) = f.max + 1
       /\ IsFiniteSet(1 .. f.max) /\ Cardinality(1 .. f.max) = f.max
  <2>1. f.max \in Int /\ 0 \in Int /\ 1 \in Int /\ ~ (0 > f.max)
    BY <1>2
  <2>2. IsFiniteSet(0 .. f.max) /\ Cardinality(0 .. f.max) = IF 0 > f.max THEN 0 ELSE f.max - 0 + 1
    BY <2>1, FS_Interval
  <2>3. IsFiniteSet(1 .. f.max) /\ Cardinality(1 .. f.max) = IF 1 > f.max THEN 0 ELSE f.max - 1 + 1
    BY <2>1, FS_Interval
  <2>. QED  BY <2>1, <2>2, <2>3
<1>16. PICK j, k \in 0 .. f.max : j # k /\ h[j] = h[k]
  <2>1. Cardinality(1 .. f.max) < Cardinality(0 .. f.max)
    BY <1>2, <1>15
  <2>2. \E x, y \in 0 .. f.max : x # y /\ h[x] = h[y]
    <3>1. PICK S, T : S = 0 .. f.max /\ T = 1 .. f.max
      OBVIOUS
    <3>2. IsFiniteSet(S) /\ IsFiniteSet(T) /\ Cardinality(T) < Cardinality(S) /\ h \in [S -> T]
      BY <2>1, <3>1, <1>14, <1>15
    <3>3. \E x, y \in S : x # y /\ h[x] = h[y]
      BY ONLY <3>2, FS_PigeonHole
    <3>. QED  BY <3>1, <3>3
  <2>. QED  BY <2>2
<1>17. v[j].n = v[k].n
  BY <1>13, <1>16
<1>18. j < k \/ k < j
  BY <1>2, <1>16
<1>. QED  BY <1>12, <1>17, <1>18

-----------------------------------------------------------------------------
(* GetLength keeps pace with the reader while the segment is full.         *)
Counting(f, own, t, s, x) ==
  \/ x.todo = 0 /\ x.sum = t.len
  \/ \E m \in 1 .. f.max : /\ SlotOK(own[m]) /\ own[m].full /\ own[m].t = t /\ s = At(own, m)
                           /\ x = [n |-> m, todo |-> own[m].left + own[m].o, sum |-> MaxLStrLen]

(* The state of GetLength.                                                 *)
Tally(n, todo, sum) == [n |-> n, todo |-> todo, sum |-> sum]

(* What the length of a segment adds.                                      *)
LEMMA CountedIs ==
  ASSUME NEW f, NEW n, NEW o, NEW sum \in Int, NEW w \in Int, Word(f, <<n, o>>) = w
  PROVE  /\ Full(w) => Counted(f, <<n, o>>, sum) = Tally(n, MaxLStrLen + 2, sum + MaxLStrLen)
         /\ ~ Full(w) => Counted(f, <<n, o>>, sum) = Tally(n, 0, sum + w)
<1>. USE DEF Tally
<1>1. CASE Full(w)
  <2>1. Bytes(w) = MaxLStrLen
    BY <1>1 DEF Bytes
  <2>. QED  BY <1>1, <2>1 DEF Counted
<1>2. CASE ~ Full(w)
  <2>1. Bytes(w) = w
    BY <1>2 DEF Bytes
  <2>. QED  BY <1>2, <2>1 DEF Counted
<1>. QED  BY <1>1, <1>2

(* It keeps pace with each step.                                           *)
LEMMA CountOn ==
  ASSUME NEW f, NEW own, NEW nf, NEW hold, FileOK(f, own, nf, hold, NoWork),
         NEW t, NEW s, NEW x, Counting(f, own, t, s, x)
  PROVE  Counting(f, own, t, ReadNext(f, s), CountNext(f, x))
<1>1. CASE x.todo = 0 /\ x.sum = t.len
  <2>1. CountNext(f, x) = x
    BY <1>1 DEF CountNext
  <2>. QED  BY <1>1, <2>1 DEF Counting
<1>2. CASE \E m \in 1 .. f.max : /\ SlotOK(own[m]) /\ own[m].full /\ own[m].t = t /\ s = At(own, m)
                                 /\ x = [n |-> m, todo |-> own[m].left + own[m].o, sum |-> MaxLStrLen]
  <2>1. PICK m \in 1 .. f.max : /\ SlotOK(own[m]) /\ own[m].full /\ own[m].t = t /\ s = At(own, m)
                                /\ x = [n |-> m, todo |-> own[m].left + own[m].o, sum |-> MaxLStrLen]
    BY <1>2
  <2>2. PICK a : a = own[m]
    OBVIOUS
  <2>3. /\ a.o \in {0, 2} /\ a.from \in Nat /\ a.left \in Nat \ {0} /\ a.full
        /\ a.t.len > MaxLStrLen /\ a.t.len \in Nat /\ a.t.len <= 2 * MaxLStrLen
        /\ a.left + a.o > MPageSize \/ a.left + a.o <= Linked
    <3>1. SlotOK(a) /\ a.full
      BY <2>1, <2>2
    <3>. QED  BY <3>1, LinkFree, Sizes DEF SlotOK
  <2>4. HasNext(a)
    BY <2>3 DEF HasNext
  <2>5. PICK k : k = f.page[m].next
    OBVIOUS
  <2>6. /\ k \in 1 .. f.max /\ own[k] = Following(a) /\ SlotOK(own[k]) /\ own[k].t = t
        /\ ReadNext(f, s) = At(own, k)
    BY <2>1, <2>2, <2>4, <2>5, NextPage
  <2>7. PageAt(f, m).next = k
    BY <2>1, <2>5, SlotPage
  <2>8. x.n = m /\ x.todo = a.left + a.o /\ x.sum = MaxLStrLen
    BY <2>1, <2>2
  <2>9. PICK b : b = own[k]
    OBVIOUS
  <2>10. CASE a.left + a.o > MPageSize
    <3>1. a.left > MPageSize - a.o /\ x.todo # 0 /\ x.todo > Linked
      BY <2>3, <2>8, <2>10, Sizes
    <3>2. b = Slot(a.of, a.t, 0, a.from + (Linked - a.o), a.left - (Linked - a.o), a.full)
      BY <2>6, <2>9, <3>1 DEF Following
    <3>3. b.o = 0 /\ b.left = a.left - (Linked - a.o) /\ b.full = a.full
      BY <3>2, SlotFields
    <3>4. CountNext(f, x) = [x EXCEPT !.n = k, !.todo = @ - Linked]
      BY <2>7, <2>8, <3>1 DEF CountNext
    <3>5. PICK d : d = a.left + a.o
      OBVIOUS
    <3>6. x = [n |-> m, todo |-> d, sum |-> MaxLStrLen]
      BY <2>1, <2>2, <3>5
    <3>7. CountNext(f, x) = [n |-> k, todo |-> d - Linked, sum |-> MaxLStrLen]
      BY <3>4, <3>6
    <3>8. d - Linked = b.left + b.o
      BY <3>3, <3>5, <2>3, Sizes
    <3>9. CountNext(f, x) = [n |-> k, todo |-> own[k].left + own[k].o, sum |-> MaxLStrLen]
      BY <3>7, <3>8, <2>9
    <3>. QED  BY <3>3, <3>9, <2>3, <2>6, <2>9 DEF Counting
  <2>11. CASE a.left + a.o <= Linked
    <3>1. ~ (a.left > MPageSize - a.o) /\ x.todo # 0 /\ ~ (x.todo > Linked)
      BY <2>3, <2>8, <2>11, Sizes
    <3>2. b = Slot(a.of, a.t, 2, MaxLStrLen, a.t.len - MaxLStrLen, FALSE)
      BY <2>6, <2>9, <3>1 DEF Following
    <3>3. b.o = 2 /\ b.left = a.t.len - MaxLStrLen /\ b.full = FALSE
      BY <3>2 DEF Slot
    <3>4. PICK y : y = b.left
      OBVIOUS
    <3>5. y \in Int /\ ~ Full(y)
      BY <3>3, <3>4, <2>3, Sizes DEF Full
    <3>6. Word(f, <<k, 0>>) = y
      <4>1. 0 \in DOMAIN f.page[k].word /\ f.page[k].word[0] = SlotWord(b) /\ PageAt(f, k) = f.page[k]
        BY <2>6, <2>9, <3>3, SlotPage DEF HeadOK
      <4>2. SlotWord(b) = y
        BY <3>3, <3>4 DEF SlotWord
      <4>. QED  BY <4>1, <4>2 DEF Word
    <3>7. Counted(f, <<k, 0>>, MaxLStrLen) = Tally(k, 0, MaxLStrLen + y)
      BY <3>5, <3>6, CountedIs, Sizes
    <3>8. CountNext(f, x) = Counted(f, <<k, 0>>, MaxLStrLen)
      BY <2>7, <2>8, <3>1 DEF CountNext
    <3>9. CountNext(f, x).todo = 0 /\ CountNext(f, x).sum = MaxLStrLen + y
      BY <3>7, <3>8 DEF Tally
    <3>10. MaxLStrLen + y = t.len
      BY <3>3, <3>4, <2>1, <2>2, <2>3, Sizes
    <3>. QED  BY <3>9, <3>10 DEF Counting
  <2>. QED  BY <2>3, <2>10, <2>11
<1>. QED  BY <1>1, <1>2 DEF Counting

(* It does so from the beginning.                                          *)
LEMMA CountStart ==
  ASSUME NEW f, NEW own, NEW nf, NEW hold, FileOK(f, own, nf, hold, NoWork), NEW pos \in DOMAIN hold
  PROVE  Counting(f, own, hold[pos], Read(f, pos)[0], Counted(f, pos, 0))
<1>1. PICK n, o, t : n = pos[1] /\ o = pos[2] /\ t = hold[pos]
  OBVIOUS
<1>2. /\ pos = <<n, o>> /\ n \in 1 .. f.max /\ t \in Texts /\ t.len \in Nat
      /\ Word(f, pos) = Head4(t.len)
  BY <1>1, Jobs, HeldWord
<1>3. PICK w : w = Head4(t.len)
  OBVIOUS
<1>4. CASE t.len <= MaxLStrLen
  <2>1. w = t.len /\ ~ Full(w)
    BY <1>2, <1>3, <1>4, Sizes DEF Head4, Full
  <2>2. Counted(f, <<n, o>>, 0) = Tally(n, 0, 0 + w)
    <3>1. w \in Int /\ 0 \in Int /\ Word(f, <<n, o>>) = w
      BY <1>2, <1>3, <2>1
    <3>. QED  BY <3>1, <2>1, CountedIs
  <2>3. Counted(f, pos, 0).todo = 0 /\ Counted(f, pos, 0).sum = t.len
    BY <1>2, <2>1, <2>2 DEF Tally
  <2>. QED  BY <1>1, <2>3 DEF Counting
<1>5. CASE t.len > MaxLStrLen
  <2>1. w = MaxLStrLen + 1 /\ Full(w) /\ w \in Int /\ Bytes(w) = MaxLStrLen
    BY <1>2, <1>3, <1>5, Sizes DEF Head4, Full, Bytes
  <2>2. Counted(f, <<n, o>>, 0) = Tally(n, MaxLStrLen + 2, 0 + MaxLStrLen)
    <3>1. w \in Int /\ 0 \in Int /\ Word(f, <<n, o>>) = w
      BY <1>2, <1>3, <2>1
    <3>. QED  BY <3>1, <2>1, CountedIs
  <2>3. hold[pos].len > MPageSize - 2 /\ t.len >= MPageSize - 2 /\ n \in Nat \ {0}
    BY <1>1, <1>2, <1>5, Sizes DEF FileOK, IsFile
  <2>4. Read(f, pos)[0] = At(own, n) /\ own[n] = First(n, t)
    BY <1>1, <2>3, ReadStart
  <2>5. /\ SlotOK(own[n]) /\ own[n].t = t /\ own[n].o = 2 /\ own[n].left = MaxLStrLen /\ own[n].full
    <3>1. /\ SlotOK(First(n, t)) /\ First(n, t).t = t /\ First(n, t).o = 2
          /\ First(n, t).left = Bytes(w) /\ First(n, t).full = Full(w)
      BY <1>2, <1>3, <2>3, FirstOK
    <3>. QED  BY <3>1, <2>1, <2>4
  <2>6. MaxLStrLen + 2 = own[n].left + own[n].o /\ 0 + MaxLStrLen = MaxLStrLen
    BY <2>5, Sizes
  <2>7. Counted(f, pos, 0) = [n |-> n, todo |-> own[n].left + own[n].o, sum |-> MaxLStrLen]
    BY <1>2, <2>2, <2>6 DEF Tally
  <2>. QED  BY <1>1, <1>2, <2>4, <2>5, <2>7 DEF Counting
<1>. QED  BY <1>2, <1>4, <1>5, Sizes

(* A short text is read in one piece.                                      *)
LEMMA ShortRead ==
  ASSUME NEW f, NEW own, NEW nf, NEW hold, FileOK(f, own, nf, hold, NoWork),
         NEW pos \in DOMAIN hold, NEW t, t = hold[pos], t.len <= MPageSize - 2, NEW v, v = Read(f, pos)
  PROVE  /\ v[0].n = pos[1] /\ \A k \in Nat : v[k + 1] = EndAt(t.len)
         /\ Data(f, v[0].n, v[0].o, Here(v[0])) = Piece(t, v[0].at, Here(v[0]))
<1>1. PICK n, o, p : n = pos[1] /\ o = pos[2] /\ p = f.page[n]
  OBVIOUS
<1>2. /\ pos = <<n, o>> /\ n \in 1 .. f.max /\ t \in Texts /\ t.len \in Nat /\ o \in Nat
      /\ Word(f, pos) = t.len /\ ShortOK(f, own, n, o, t)
  BY <1>1, Jobs, HeldWord
<1>3. ~ Full(t.len) /\ Bytes(t.len) = t.len
  BY <1>2, Sizes DEF Full, Bytes
<1>4. PICK s : s = v[0]
  OBVIOUS
<1>5. s.n = n /\ s.o = o + 2 /\ s.left = t.len /\ s.at = 0 /\ ~ s.full
  <2>1. s = Segment(f, n, o, 0)
    BY <1>1, <1>4, ReadSteps
  <2>2. PICK fl, b : fl = Full(Word(f, <<n, o>>)) /\ b = Bytes(Word(f, <<n, o>>))
    OBVIOUS
  <2>3. s = [n |-> n, o |-> o + 2, left |-> b, at |-> 0, full |-> fl]
    BY <2>1, <2>2 DEF Segment
  <2>4. s.n = n /\ s.o = o + 2 /\ s.left = b /\ s.at = 0 /\ s.full = fl
    BY ONLY <2>3
  <2>5. b = t.len
    BY <2>2, <1>2, <1>3
  <2>6. ~ fl
    BY <2>2, <1>2, <1>3
  <2>. QED  BY <2>4, <2>5, <2>6
<1>6. o + 2 + t.len <= MPageSize
  <2>1. FragmentsOK(p) /\ o \in DOMAIN p.word /\ p.word[o] = t.len
    <3>1. own[n] = SharedPage /\ o \in DOMAIN p.word /\ p.word[o] = t.len
      BY <1>1, <1>2 DEF ShortOK
    <3>2. SharedOK(f, own, hold, n)
      BY <1>2, <3>1, Kinds DEF FileOK, PageOK, FreeOK, LongOK
    <3>. QED  BY <1>1, <3>1, <3>2 DEF SharedOK
  <2>2. End(p.word, o) = o + 2 + t.len
    BY <2>1, <1>2 DEF End
  <2>3. End(p.word, o) \in DOMAIN p.word \cup (MPageSize - 2 .. MPageSize)
    BY <2>1 DEF FragmentsOK, Tiled
  <2>4. \A k \in DOMAIN p.word : k \in Nat /\ k <= MPageSize - 3
    BY <2>1, Sizes DEF FragmentsOK
  <2>. QED  BY <2>2, <2>3, <2>4, <1>2, Sizes
<1>7. ~ (s.left > MPageSize - s.o) /\ Here(s) = t.len
  BY <1>2, <1>5, <1>6, Sizes DEF Here
<1>8. ReadNext(f, s) = EndAt(t.len)
  <2>1. n # 0
    BY <1>2 DEF FileOK, IsFile
  <2>2. ReadNext(f, s) = [n |-> 0, o |-> 0, left |-> 0, at |-> s.at + s.left, full |-> FALSE]
    BY <1>5, <1>7 DEF ReadNext
  <2>3. s.at + s.left = t.len
    BY <1>2, <1>5
  <2>. QED  BY <2>2, <2>3 DEF EndAt
<1>9. \A k \in Nat : v[k + 1] = EndAt(t.len)
  <2>0. \A k \in Nat : v[k + 1] = ReadNext(f, v[k])
    BY ReadSteps
  <2>. DEFINE S == {k \in Nat : v[k + 1] = EndAt(t.len)}
  <2>1. 0 \in S
    BY <2>0, <1>4, <1>8
  <2>2. \A k \in Nat : k \in S => k + 1 \in S
    BY <2>0, <1>2, AfterEnd
  <2>3. \A k \in Nat : k \in S
    <3>. HIDE DEF S
    <3>. QED  BY <2>1, <2>2, NatSet
  <2>. QED  BY <2>3
<1>10. Data(f, n, o + 2, t.len) = Piece(t, 0, t.len)
  <2>1. PageAt(f, n) = p
    BY <1>1, <1>2 DEF PageAt, FileOK, IsFile
  <2>2. o + 2 \in DOMAIN p.data /\ p.data[o + 2] = Piece(t, 0, t.len)
    BY <1>1, <1>2 DEF ShortOK
  <2>3. PICK x, b : x = p.data[o + 2] /\ b = t.len
    OBVIOUS
  <2>4. x.t = t /\ x.from = 0 /\ x.n = b
    BY <2>2, <2>3 DEF Piece
  <2>5. x.n >= b
    BY <2>3, <2>4, <1>2
  <2>6. Data(f, n, o + 2, b) = Piece(x.t, x.from, b)
    BY <2>1, <2>2, <2>3, <2>5 DEF Data
  <2>. QED  BY <2>3, <2>4, <2>6
<1>. QED  BY <1>1, <1>4, <1>5, <1>7, <1>9, <1>10

-----------------------------------------------------------------------------
(* Whatever a reader of a stored text reads is the right piece of it, and  *)
(* it ends with all of it.                                                 *)
LEMMA PiecesRight ==
  ASSUME NEW f, NEW own, NEW nf, NEW hold, FileOK(f, own, nf, hold, NoWork),
         NEW pos \in DOMAIN hold, NEW t, t = hold[pos], NEW v, v = Read(f, pos)
  PROVE  /\ \A k \in Nat : v[k].n # 0 => Data(f, v[k].n, v[k].o, Here(v[k])) = Piece(t, v[k].at, Here(v[k]))
         /\ v[f.max] = EndAt(t.len)
<1>1. f.max \in Nat \ {0} /\ t.len \in Nat
  BY Jobs, HeldWord DEF FileOK, IsFile
<1>2. CASE t.len <= MPageSize - 2
  <2>1. /\ \A k \in Nat : v[k + 1] = EndAt(t.len)
        /\ Data(f, v[0].n, v[0].o, Here(v[0])) = Piece(t, v[0].at, Here(v[0]))
    BY <1>2, ShortRead
  <2>2. \A k \in Nat \ {0} : v[k] = EndAt(t.len)
    <3>1. ASSUME NEW k \in Nat \ {0} PROVE v[k] = EndAt(t.len)
      <4>1. k - 1 \in Nat /\ (k - 1) + 1 = k
        OBVIOUS
      <4>. QED  BY <4>1, <2>1
    <3>. QED  BY <3>1
  <2>. QED  BY <2>1, <2>2, <1>1, EndFields
<1>3. CASE t.len > MPageSize - 2
  <2>1. \A k \in Nat : Reading(f, own, t, pos[1], v[k]) \/ v[k] = EndAt(t.len)
    BY <1>3, LongSteps
  <2>2. ASSUME NEW k \in Nat, v[k].n # 0
        PROVE  Data(f, v[k].n, v[k].o, Here(v[k])) = Piece(t, v[k].at, Here(v[k]))
    <3>1. PICK m \in 1 .. f.max : SlotOK(own[m]) /\ own[m].t = t /\ v[k] = At(own, m)
      BY <2>1, <2>2, EndFields DEF Reading
    <3>2. /\ v[k].n = m /\ v[k].o = own[m].o /\ v[k].at = own[m].from /\ Here(v[k]) = Here(own[m])
      BY <3>1, AtFields
    <3>3. Data(f, m, own[m].o, Here(own[m])) = Piece(t, own[m].from, Here(own[m]))
      BY <3>1, PagePiece
    <3>. QED  BY <3>2, <3>3
  <2>. QED  BY <2>2, <1>3, LongEnds
<1>. QED  BY <1>1, <1>2, <1>3, Sizes

(* GetLength gives the length of a stored text.                            *)
LEMMA LengthRight ==
  ASSUME NEW f, NEW own, NEW nf, NEW hold, FileOK(f, own, nf, hold, NoWork), NEW pos \in DOMAIN hold
  PROVE  GetLength(f, pos) = hold[pos].len
<1>1. PICK v, t : v = Read(f, pos) /\ t = hold[pos]
  OBVIOUS
<1>2. PICK c : /\ c[0] = Counted(f, pos, 0) /\ \A k \in Nat : c[k + 1] = CountNext(f, c[k])
               /\ GetLength(f, pos) = c[f.max].sum
  BY CountSteps
<1>3. \A k \in Nat : v[k + 1] = ReadNext(f, v[k])
  BY <1>1, ReadSteps
<1>. DEFINE S == {k \in Nat : Counting(f, own, t, v[k], c[k])}
<1>4. 0 \in S
  BY <1>1, <1>2, CountStart
<1>5. ASSUME NEW k \in Nat, k \in S PROVE k + 1 \in S
  <2>1. Counting(f, own, t, ReadNext(f, v[k]), CountNext(f, c[k]))
    BY <1>5, CountOn
  <2>. QED  BY <2>1, <1>2, <1>3
<1>6. \A k \in Nat : k \in S
  <2>. HIDE DEF S
  <2>. QED  BY <1>4, <1>5, NatSet
<1>7. v[f.max] = EndAt(t.len) /\ f.max \in Nat
  BY <1>1, PiecesRight DEF FileOK, IsFile
<1>8. Counting(f, own, t, v[f.max], c[f.max])
  BY <1>6, <1>7
<1>9. \A m \in 1 .. f.max : v[f.max] # At(own, m)
  BY <1>7, EndFields, AtFields DEF FileOK, IsFile
<1>. QED  BY <1>1, <1>2, <1>8, <1>9 DEF Counting

(* A stored text reads back.                                               *)
LEMMA ReadsBack ==
  ASSUME NEW f, NEW own, NEW nf, NEW hold, FileOK(f, own, nf, hold, NoWork), NEW pos \in DOMAIN hold
  PROVE  ReadsAs(f, pos, hold[pos])
<1>1. PICK v, t : v = Read(f, pos) /\ t = hold[pos]
  OBVIOUS
<1>2. /\ \A k \in Nat : v[k].n # 0 => Data(f, v[k].n, v[k].o, Here(v[k])) = Piece(t, v[k].at, Here(v[k]))
      /\ v[f.max] = EndAt(t.len)
  BY <1>1, PiecesRight
<1>3. v[f.max].n = 0 /\ v[f.max].at = t.len /\ f.max \in Nat
  BY <1>2, EndFields DEF FileOK, IsFile
<1>4. \A k \in 0 .. f.max : v[k].n # 0 => Data(f, v[k].n, v[k].o, Here(v[k])) = Piece(t, v[k].at, Here(v[k]))
  BY <1>2, <1>3
<1>. QED  BY <1>1, <1>3, <1>4 DEF ReadsAs

(* Between two operations the file is settled.                             *)
LEMMA SettledBetween ==
  ASSUME IInv, op = NoOp
  PROVE  \E own, nf, hold : Settled(file, rec, orphans, own, nf, hold)
BY Idle DEF IInv

(* The invariant says that the texts of the records read back.             *)
LEMMA ReadBackInv == IInv => TextsReadBack
<1>. SUFFICES ASSUME IInv, op = NoOp, NEW r \in DOMAIN rec
              PROVE  IF rec[r].pos = NoPos THEN rec[r].t.len = 0
                     ELSE ReadsAs(file, rec[r].pos, rec[r].t) /\ GetLength(file, rec[r].pos) = rec[r].t.len
  BY DEF TextsReadBack
<1>1. PICK own, nf, hold : Settled(file, rec, orphans, own, nf, hold)
  BY SettledBetween
<1>2. CASE rec[r].pos = NoPos
  BY <1>1, <1>2 DEF Settled, RecsOK
<1>3. CASE rec[r].pos # NoPos
  <2>1. rec[r].pos \in DOMAIN hold /\ hold[rec[r].pos] = rec[r].t /\ FileOK(file, own, nf, hold, NoWork)
    BY <1>1, <1>3 DEF Settled, PosOf
  <2>2. PICK pos : pos = rec[r].pos
    OBVIOUS
  <2>3. ReadsAs(file, pos, hold[pos]) /\ GetLength(file, pos) = hold[pos].len
    BY <2>1, <2>2, ReadsBack, LengthRight
  <2>. QED  BY <1>3, <2>1, <2>2, <2>3
<1>. QED  BY <1>2, <1>3

(* Whatever is created, written, deleted, moved and cut off, between two   *)
(* operations the text of each record reads back as it was stored and      *)
(* GetLength tells its length, for every size of a page and a segment and  *)
(* every text of up to two segments (FandTFile::Read, GetLength, Store,    *)
(* Delete).                                                                *)
THEOREM TextsAreKept == Spec => []TextsReadBack
BY FileIsKept, ReadBackInv, PTL

-----------------------------------------------------------------------------
(* The stored texts are those the file holds; a short one is an occupied   *)
(* fragment of a shared page.                                              *)
LEMMA StoredIs ==
  ASSUME NEW own, NEW nf, NEW hold, Settled(file, rec, orphans, own, nf, hold)
  PROVE  /\ Stored = DOMAIN hold /\ Positions = PosOf(rec) /\ FileOK(file, own, nf, hold, NoWork)
         /\ file.max \in Nat \ {0}
         /\ \A pos \in Stored :
              /\ pos = <<pos[1], pos[2]>> /\ pos[1] \in 1 .. file.max
              /\ IsShort(pos) => /\ own[pos[1]] = SharedPage /\ hold[pos].len <= MPageSize - 2
                                 /\ pos[2] \in DOMAIN file.page[pos[1]].word
                                 /\ file.page[pos[1]].word[pos[2]] > 0
              /\ ~ IsShort(pos) => /\ SlotOK(own[pos[1]]) /\ hold[pos].len > MPageSize - 2 /\ pos[2] = 0
<1>1. /\ DOMAIN hold = PosOf(rec) \cup orphans /\ FileOK(file, own, nf, hold, NoWork) /\ file.max \in Nat \ {0}
  BY DEF Settled, FileOK, IsFile
<1>2. Positions = PosOf(rec) /\ Stored = DOMAIN hold
  BY <1>1 DEF Positions, PosOf, Stored
<1>3. ASSUME NEW pos \in Stored
      PROVE  /\ pos = <<pos[1], pos[2]>> /\ pos[1] \in 1 .. file.max
             /\ IsShort(pos) => /\ own[pos[1]] = SharedPage /\ hold[pos].len <= MPageSize - 2
                                /\ pos[2] \in DOMAIN file.page[pos[1]].word
                                /\ file.page[pos[1]].word[pos[2]] > 0
             /\ ~ IsShort(pos) => /\ SlotOK(own[pos[1]]) /\ hold[pos].len > MPageSize - 2 /\ pos[2] = 0
  <2>1. PICK n, o, t : n = pos[1] /\ o = pos[2] /\ t = hold[pos]
    OBVIOUS
  <2>2. /\ pos = <<n, o>> /\ n \in 1 .. file.max /\ t \in Texts /\ t.len \in Nat \ {0}
        /\ o \in DOMAIN file.page[n].word /\ Word(file, pos) = Head4(t.len)
        /\ t.len <= MPageSize - 2 => ShortOK(file, own, n, o, t) /\ Head4(t.len) = t.len
        /\ t.len > MPageSize - 2 => o = 0 /\ own[n] = First(n, t) /\ Head4(t.len) > MPageSize - 2
    BY <1>1, <1>2, <2>1, Jobs, HeldWord
  <2>3. CASE t.len <= MPageSize - 2
    <3>1. IsShort(pos)
      BY <2>2, <2>3 DEF IsShort
    <3>2. own[n] = SharedPage /\ file.page[n].word[o] = t.len
      BY <2>2, <2>3 DEF ShortOK
    <3>. QED  BY <2>1, <2>2, <2>3, <3>1, <3>2
  <2>4. CASE t.len > MPageSize - 2
    <3>1. ~ IsShort(pos)
      <4>1. Head4(t.len) \in Int
        BY <2>2, Sizes DEF Head4
      <4>. QED  BY <2>2, <2>4, <4>1, Sizes DEF IsShort
    <3>2. SlotOK(own[n])
      <4>1. n \in Nat \ {0} /\ t.len >= MPageSize - 2
        BY <1>1, <2>2, <2>4, Sizes
      <4>. QED  BY <2>2, <2>4, <4>1, FirstOK
    <3>. QED  BY <2>1, <2>2, <2>4, <3>1, <3>2
  <2>. QED  BY <2>2, <2>3, <2>4, Sizes
<1>. QED  BY <1>1, <1>2, <1>3

(* The shared pages have fragments that are free or texts of the file.     *)
LEMMA SharedIs ==
  ASSUME NEW own, NEW nf, NEW hold, Settled(file, rec, orphans, own, nf, hold),
         NEW n \in 1 .. file.max, own[n] = SharedPage
  PROVE  /\ FragmentsOK(file.page[n])
         /\ \A o \in DOMAIN file.page[n].word : file.page[n].word[o] > 0 => <<n, o>> \in Stored
         /\ \A pos \in Stored : pos[1] = n => IsShort(pos)
<1>1. SharedOK(file, own, hold, n)
  BY StoredIs, Kinds DEF FileOK, PageOK, FreeOK, LongOK
<1>2. \A pos \in Stored : ~ IsShort(pos) => SlotOK(own[pos[1]])
  BY StoredIs
<1>3. \A pos \in Stored : pos[1] = n => IsShort(pos)
  BY <1>2, Kinds
<1>. QED  BY <1>1, <1>3, StoredIs DEF SharedOK

(* A page that the model takes for a shared one is shared.                 *)
LEMMA SharedPagesIs ==
  ASSUME NEW own, NEW nf, NEW hold, Settled(file, rec, orphans, own, nf, hold), NEW n \in SharedPages
  PROVE  n \in 1 .. file.max /\ own[n] = SharedPage
<1>1. PartOK(file, own, file.part)
  BY StoredIs DEF FileOK
<1>. QED  BY <1>1, StoredIs DEF SharedPages, PartOK

(* The invariant says that the fragments tile the shared pages.            *)
LEMMA TilesInv == IInv => FragmentsTilePage
<1>. SUFFICES ASSUME IInv, op = NoOp
              PROVE  /\ \A n \in SharedPages :
                          LET w == file.page[n].word
                          IN  /\ Tiled(w)
                              /\ {o \in DOMAIN w : w[o] > 0} = {pos[2] : pos \in {p \in Stored : p[1] = n}}
                     /\ LET w == file.page[file.part[1]].word
                        IN  /\ Between(w, file.part[2])
                            /\ \A o \in DOMAIN w : o >= file.part[2] => w[o] <= 0
  BY DEF FragmentsTilePage
<1>1. PICK own, nf, hold : Settled(file, rec, orphans, own, nf, hold)
  BY SettledBetween
<1>2. ASSUME NEW n \in SharedPages
      PROVE  /\ Tiled(file.page[n].word)
             /\ {o \in DOMAIN file.page[n].word : file.page[n].word[o] > 0}
                  = {pos[2] : pos \in {p \in Stored : p[1] = n}}
  <2>1. n \in 1 .. file.max /\ own[n] = SharedPage
    BY <1>1, SharedPagesIs
  <2>2. /\ FragmentsOK(file.page[n])
        /\ \A o \in DOMAIN file.page[n].word : file.page[n].word[o] > 0 => <<n, o>> \in Stored
        /\ \A pos \in Stored : pos[1] = n => IsShort(pos)
    BY <1>1, <2>1, SharedIs
  <2>3. PICK w : w = file.page[n].word
    OBVIOUS
  <2>4. ASSUME NEW o \in DOMAIN w, w[o] > 0 PROVE \E pos \in Stored : pos[1] = n /\ pos[2] = o
    <3>1. <<n, o>> \in Stored /\ <<n, o>>[1] = n /\ <<n, o>>[2] = o
      BY <2>2, <2>3, <2>4
    <3>. QED  BY <3>1
  <2>5. ASSUME NEW pos \in Stored, pos[1] = n PROVE pos[2] \in DOMAIN w /\ w[pos[2]] > 0
    BY <1>1, <2>2, <2>3, <2>5, StoredIs
  <2>6. {o \in DOMAIN w : w[o] > 0} = {pos[2] : pos \in {p \in Stored : p[1] = n}}
    BY <2>4, <2>5
  <2>. QED  BY <2>2, <2>3, <2>6 DEF FragmentsOK
<1>3. PartOK(file, own, file.part)
  BY <1>1, StoredIs DEF FileOK
<1>. QED  BY <1>2, <1>3 DEF PartOK, Behind

(* Between two operations the fragments of a shared page tile it, the      *)
(* occupied ones are the texts of records and orphans, and behind FreePart *)
(* nothing is occupied: what the walk of Delete and                        *)
(* PreparePositionForShortText rely on.                                    *)
THEOREM PagesAreTiled == Spec => []FragmentsTilePage
BY FileIsKept, TilesInv, PTL

(* The free list goes over the free pages, the last one that was freed     *)
(* first.                                                                  *)
LEMMA FreeIs ==
  ASSUME NEW own, NEW nf, NEW hold, FileOK(file, own, nf, hold, NoWork)
  PROVE  FreePages = {n \in 1 .. file.max : IsFree(own[n])}
<1>1. PICK c : /\ c[0] = file.free /\ \A k \in Nat : c[k + 1] = PageAt(file, c[k]).next
               /\ FreePages = {c[k] : k \in 0 .. file.max} \ {0}
  BY FreeSteps
<1>2. /\ file.max \in Nat \ {0} /\ nf \in Nat /\ FreeRootOK(file, own, nf) /\ DOMAIN file.page = 1 .. file.max
      /\ \A n, m \in 1 .. file.max : own[n] = own[m] /\ own[n] # SharedPage => n = m
  BY DEF FileOK, IsFile, FreeRootOK, Distinct
<1>3. ASSUME NEW n \in 1 .. file.max, NEW i \in Nat \ {0}, own[n] = FreeSlot(i)
      PROVE  /\ i <= nf /\ PageAt(file, n).next = file.page[n].next
             /\ i = 1 => file.page[n].next = 0
             /\ i > 1 => file.page[n].next \in 1 .. file.max /\ own[file.page[n].next] = FreeSlot(i - 1)
  <2>1. IsFree(own[n]) /\ own[n].i = i
    BY <1>3, Kinds
  <2>2. FreeOK(file, own, nf, n)
    BY <2>1, Kinds DEF FileOK, PageOK, SharedOK, LongOK
  <2>. QED  BY <2>1, <2>2, <1>2 DEF FreeOK, PageAt
<1>. DEFINE S == {k \in Nat : /\ k < nf => c[k] \in 1 .. file.max /\ own[c[k]] = FreeSlot(nf - k)
                              /\ k >= nf => c[k] = 0}
<1>4. 0 \in S
  <2>1. nf - 0 = nf /\ (nf = 0 \/ nf > 0) /\ c[0] = file.free
    BY <1>1, <1>2
  <2>2. /\ nf = 0 => file.free = 0
        /\ nf > 0 => file.free \in 1 .. file.max /\ own[file.free] = FreeSlot(nf)
    BY <1>2 DEF FreeRootOK
  <2>3. 0 < nf => c[0] \in 1 .. file.max /\ own[c[0]] = FreeSlot(nf - 0)
    BY <2>1, <2>2, <1>2
  <2>4. 0 >= nf => c[0] = 0
    BY <2>1, <2>2, <1>2
  <2>. QED  BY <2>3, <2>4
<1>5. ASSUME NEW k \in Nat, k \in S PROVE k + 1 \in S
  <2>1. CASE k < nf
    <3>1. c[k] \in 1 .. file.max /\ own[c[k]] = FreeSlot(nf - k) /\ nf - k \in Nat \ {0}
      BY <1>2, <1>5, <2>1
    <3>2. /\ c[k + 1] = file.page[c[k]].next
          /\ nf - k = 1 => file.page[c[k]].next = 0
          /\ nf - k > 1 => /\ file.page[c[k]].next \in 1 .. file.max
                           /\ own[file.page[c[k]].next] = FreeSlot((nf - k) - 1)
      BY <3>1, <1>1, <1>3
    <3>3. (nf - k) - 1 = nf - (k + 1)
      BY <1>2
    <3>4. k + 1 < nf => c[k + 1] \in 1 .. file.max /\ own[c[k + 1]] = FreeSlot(nf - (k + 1))
      BY <3>2, <3>3, <1>2
    <3>5. k + 1 >= nf => c[k + 1] = 0
      BY <3>2, <2>1, <1>2
    <3>. QED  BY <3>4, <3>5
  <2>2. CASE k >= nf
    <3>1. c[k] = 0 /\ 0 \notin DOMAIN file.page
      BY <1>2, <1>5, <2>2
    <3>2. c[k + 1] = 0
      BY <3>1, <1>1, EmptyPage DEF PageAt
    <3>. QED  BY <3>2, <1>2, <2>2
  <2>. QED  BY <2>1, <2>2, <1>2
<1>6. \A k \in Nat : k \in S
  <2>. HIDE DEF S
  <2>. QED  BY <1>4, <1>5, NatSet
<1>7. ASSUME NEW n \in FreePages PROVE n \in 1 .. file.max /\ IsFree(own[n])
  <2>1. PICK k \in 0 .. file.max : n = c[k] /\ c[k] # 0
    BY <1>1
  <2>2. k \in Nat /\ k < nf
    BY <2>1, <1>2, <1>6
  <2>3. c[k] \in 1 .. file.max /\ own[c[k]] = FreeSlot(nf - k) /\ nf - k \in Nat \ {0}
    BY <2>2, <1>2, <1>6
  <2>. QED  BY <2>1, <2>3, Kinds
<1>8. nf <= file.max
  <2>1. SUFFICES ASSUME nf > file.max PROVE FALSE
    BY <1>2
  <2>2. \A k \in 0 .. file.max : c[k] \in 1 .. file.max /\ own[c[k]] = FreeSlot(nf - k) /\ k < nf /\ k \in Nat
    BY <2>1, <1>2, <1>6
  <2>3. ASSUME NEW j \in 0 .. file.max, NEW k \in 0 .. file.max, c[j] = c[k] PROVE j = k
    <3>1. FreeSlot(nf - j) = FreeSlot(nf - k)
      BY <2>2, <2>3
    <3>2. nf - j = nf - k
      BY <3>1, Kinds
    <3>. QED  BY <3>2, <1>2
  <2>4. PICK h : h = [k \in 0 .. file.max |-> c[k]]
    OBVIOUS
  <2>5. PICK A, B : A = 0 .. file.max /\ B = 1 .. file.max
    OBVIOUS
  <2>6. /\ IsFiniteSet(A) /\ Cardinality(A) = file.max + 1
        /\ IsFiniteSet(B) /\ Cardinality(B) = file.max
    <3>1. file.max \in Int /\ 0 \in Int /\ 1 \in Int /\ ~ (0 > file.max)
      BY <1>2
    <3>2. IsFiniteSet(0 .. file.max) /\ Cardinality(0 .. file.max) = IF 0 > file.max THEN 0 ELSE file.max - 0 + 1
      BY <3>1, FS_Interval
    <3>3. IsFiniteSet(1 .. file.max) /\ Cardinality(1 .. file.max) = IF 1 > file.max THEN 0 ELSE file.max - 1 + 1
      BY <3>1, FS_Interval
    <3>. QED  BY <3>1, <3>2, <3>3, <2>5
  <2>7. h \in [A -> B] /\ Cardinality(B) < Cardinality(A)
    BY <2>2, <2>4, <2>5, <2>6, <1>2
  <2>8. \E x, y \in A : x # y /\ h[x] = h[y]
    BY ONLY <2>6, <2>7, FS_PigeonHole
  <2>. QED  BY <2>3, <2>4, <2>5, <2>8
<1>9. ASSUME NEW n \in 1 .. file.max, IsFree(own[n]) PROVE n \in FreePages
  <2>1. PICK i \in Nat \ {0} : own[n] = FreeSlot(i)
    BY <1>9 DEF IsFree
  <2>2. i <= nf
    BY <2>1, <1>3
  <2>3. PICK k : k = nf - i
    OBVIOUS
  <2>4. k \in Nat /\ k < nf /\ nf - k = i /\ k \in 0 .. file.max
    BY <2>2, <2>3, <1>2, <1>8
  <2>5. c[k] \in 1 .. file.max /\ own[c[k]] = FreeSlot(i)
    BY <2>4, <1>6
  <2>6. c[k] = n
    <3>1. own[n] # SharedPage
      BY <1>9, Kinds
    <3>. QED  BY <3>1, <2>1, <2>5, <1>2
  <2>7. n # 0
    OBVIOUS
  <2>. QED  BY <2>4, <2>6, <2>7, <1>1
<1>. QED  BY <1>7, <1>9

-----------------------------------------------------------------------------
(* A reader of a long text visits all of its pages, and no others.         *)
LEMMA LongPagesIs ==
  ASSUME NEW own, NEW nf, NEW hold, FileOK(file, own, nf, hold, NoWork),
         NEW pos \in DOMAIN hold, hold[pos].len > MPageSize - 2
  PROVE  PagesOf(pos) = {m \in 1 .. file.max : SlotOK(own[m]) /\ own[m].of = pos[1]}
<1>1. PICK v, t, first : v = Read(file, pos) /\ t = hold[pos] /\ first = pos[1]
  OBVIOUS
<1>2. /\ \A k \in Nat : Reading(file, own, t, first, v[k]) \/ v[k] = EndAt(t.len)
      /\ \A k \in Nat : v[k] = EndAt(t.len) => v[k + 1] = EndAt(t.len)
      /\ \A k \in Nat : v[k + 1].n # 0 => /\ v[k].n # 0 /\ HasNext(own[v[k].n])
                                         /\ v[k + 1].n = file.page[v[k].n].next
      /\ v[file.max] = EndAt(t.len)
  BY <1>1, LongSteps, LongEnds
<1>2a. \A k \in Nat : v[k + 1] = ReadNext(file, v[k])
  BY <1>1, ReadSteps
<1>3. /\ v[0] = At(own, first) /\ first \in 1 .. file.max /\ v[0].n = first /\ own[first] = First(first, t)
  BY <1>1, ReadStart, AtFields
<1>4. file.max \in Nat /\ PagesOf(pos) = {v[k].n : k \in 0 .. file.max} \ {0}
  BY <1>1 DEF FileOK, IsFile, PagesOf
<1>5. ASSUME NEW k \in Nat, v[k].n # 0
      PROVE  v[k].n \in 1 .. file.max /\ SlotOK(own[v[k].n]) /\ own[v[k].n].of = first /\ v[k] = At(own, v[k].n)
  <2>1. PICK m \in 1 .. file.max : SlotOK(own[m]) /\ own[m].of = first /\ v[k] = At(own, m)
    BY <1>2, <1>5, EndFields DEF Reading
  <2>. QED  BY <2>1, AtFields
<1>6. ASSUME NEW k \in Nat, v[k].n # 0 PROVE k \in 0 .. file.max
  <2>. DEFINE D == {d \in Nat : v[file.max + d] = EndAt(t.len)}
  <2>1. 0 \in D
    BY <1>2, <1>4
  <2>2. \A d \in Nat : d \in D => d + 1 \in D
    <3>1. ASSUME NEW d \in Nat, d \in D PROVE d + 1 \in D
      <4>1. file.max + d \in Nat /\ (file.max + d) + 1 = file.max + (d + 1)
        BY <1>4
      <4>. QED  BY <4>1, <3>1, <1>2
    <3>. QED  BY <3>1
  <2>3. \A d \in Nat : d \in D
    <3>. HIDE DEF D
    <3>. QED  BY <2>1, <2>2, NatSet
  <2>4. CASE k > file.max
    <3>1. k - file.max \in Nat /\ file.max + (k - file.max) = k
      BY <1>4, <2>4
    <3>. QED  BY <3>1, <2>3, <1>6, EndFields
  <2>. QED  BY <2>4, <1>4
<1>7. ASSUME NEW n \in PagesOf(pos) PROVE n \in 1 .. file.max /\ SlotOK(own[n]) /\ own[n].of = first
  <2>1. PICK k \in 0 .. file.max : n = v[k].n /\ n # 0
    BY <1>4
  <2>. QED  BY <2>1, <1>4, <1>5
<1>. DEFINE U == {m \in 1 .. file.max : SlotOK(own[m]) /\ own[m].of = first /\ \A k \in Nat : v[k].n # m}
            F == {own[m].from : m \in U}
<1>8. U = {}
  <2>. SUFFICES ASSUME U # {} PROVE FALSE
    OBVIOUS
  <2>1. F \subseteq Nat /\ F # {}
    BY DEF SlotOK
  <2>2. PICK x \in F : \A y \in F : x <= y
    <3>. HIDE DEF F
    <3>. QED  BY <2>1, SmallestNat
  <2>3. PICK m \in U : own[m].from = x
    OBVIOUS
  <2>4. m # first
    BY <1>3
  <2>5. Root(NoWork, own[m].of) = first
    BY Jobs DEF Root
  <2>6. PICK l \in 1 .. file.max : SlotOK(own[l]) /\ HasNext(own[l]) /\ Following(own[l]) = own[m]
    BY <2>4, <2>5, SlotPage DEF PredOK
  <2>7. own[l].of = first /\ own[l].from < own[m].from /\ own[l].from \in Nat /\ own[m].from \in Nat
    <3>1. Following(own[l]).of = own[l].of /\ Following(own[l]).from > own[l].from
      BY <2>6, FollowingOK
    <3>2. own[l].from \in Nat /\ own[m].from \in Nat
      BY <2>6 DEF SlotOK
    <3>. QED  BY <3>1, <3>2, <2>6
  <2>8. l \notin U
    <3>1. l \in U => own[l].from \in F
      OBVIOUS
    <3>. HIDE DEF F, U
    <3>2. l \in U => own[m].from <= own[l].from
      BY <3>1, <2>2, <2>3
    <3>. QED  BY <3>2, <2>7
  <2>9. PICK k \in Nat : v[k].n = l
    BY <2>6, <2>7, <2>8
  <2>10. l # 0
    OBVIOUS
  <2>11. v[k] = At(own, l)
    BY <2>9, <2>10, <1>5
  <2>12. PICK nx : nx = file.page[l].next
    OBVIOUS
  <2>13. nx \in 1 .. file.max /\ own[nx] = Following(own[l]) /\ ReadNext(file, At(own, l)) = At(own, nx)
    BY <2>6, <2>12, NextPage
  <2>14. v[k + 1] = At(own, nx)
    BY <2>11, <2>13, <1>2a
  <2>15. v[k + 1].n = nx
    BY <2>14, AtFields
  <2>16. nx = m
    <3>1. own[nx] = own[m] /\ own[m] # SharedPage
      BY <2>6, <2>13, Kinds
    <3>2. Distinct(own) /\ DOMAIN own = 1 .. file.max
      BY DEF FileOK
    <3>. QED  BY <3>1, <3>2, <2>13 DEF Distinct
  <2>. QED  BY <2>15, <2>16
<1>9. ASSUME NEW m \in 1 .. file.max, SlotOK(own[m]), own[m].of = first PROVE m \in PagesOf(pos)
  <2>1. PICK k \in Nat : v[k].n = m
    BY <1>8, <1>9
  <2>2. m # 0
    OBVIOUS
  <2>3. k \in 0 .. file.max
    BY <2>1, <2>2, <1>6
  <2>. QED  BY <2>1, <2>2, <2>3, <1>4
<1>. HIDE DEF U
<1>. QED  BY <1>1, <1>7, <1>9

(* The text of a page of a long text is stored.                            *)
LEMMA LongStored ==
  ASSUME NEW own, NEW nf, NEW hold, Settled(file, rec, orphans, own, nf, hold),
         NEW n \in 1 .. file.max, SlotOK(own[n])
  PROVE  \E pos \in Stored : ~ IsShort(pos) /\ n \in PagesOf(pos)
<1>1. FileOK(file, own, nf, hold, NoWork) /\ Stored = DOMAIN hold
  BY StoredIs
<1>2. PICK pos : pos = <<own[n].of, 0>>
  OBVIOUS
<1>3. pos \in DOMAIN hold /\ hold[pos].len > MPageSize - 2 /\ pos[1] = own[n].of
  <2>1. own[n].of # NoWork.of
    BY Jobs DEF SlotOK
  <2>2. TextOK(own, hold, NoWork, n)
    BY <1>1, SlotPage
  <2>. QED  BY <2>1, <2>2, <1>2 DEF TextOK
<1>4. n \in PagesOf(pos)
  BY <1>1, <1>3, LongPagesIs
<1>5. ~ IsShort(pos)
  <2>1. IsShort(pos) => hold[pos].len <= MPageSize - 2
    BY <1>1, <1>3, StoredIs
  <2>2. hold[pos].len \in Nat
    BY <1>1, <1>3, Jobs, HeldWord
  <2>. QED  BY <2>1, <2>2, <1>3, Sizes
<1>. QED  BY <1>1, <1>3, <1>4, <1>5

(* The invariant says that no page is used twice.                          *)
LEMMA UsedOnceInv == IInv => PagesUsedOnce
<1>. SUFFICES ASSUME IInv, op = NoOp
              PROVE  /\ FreePages \cap (SharedPages \cup LongPages) = {}
                     /\ SharedPages \cap LongPages = {}
                     /\ FreePages \cup SharedPages \cup LongPages \subseteq 1 .. file.max
                     /\ \A n \in (1 .. file.max) \ (FreePages \cup SharedPages \cup LongPages) : NothingOn(n)
                     /\ \A p, q \in Stored :
                          p # q /\ ~ IsShort(p) /\ ~ IsShort(q) => PagesOf(p) \cap PagesOf(q) = {}
                     /\ \A r, q \in DOMAIN rec : r # q => rec[r].pos # rec[q].pos \/ rec[r].pos = NoPos
                     /\ Positions \cap orphans = {}
  BY DEF PagesUsedOnce
<1>1. PICK own, nf, hold : Settled(file, rec, orphans, own, nf, hold)
  BY SettledBetween
<1>2. FileOK(file, own, nf, hold, NoWork) /\ Stored = DOMAIN hold /\ Positions = PosOf(rec)
  BY <1>1, StoredIs
<1>3. FreePages = {n \in 1 .. file.max : IsFree(own[n])}
  BY <1>2, FreeIs
<1>4. \A n \in SharedPages : n \in 1 .. file.max /\ own[n] = SharedPage
  BY <1>1, SharedPagesIs
<1>5. ASSUME NEW pos \in Stored, ~ IsShort(pos)
      PROVE  /\ PagesOf(pos) = {m \in 1 .. file.max : SlotOK(own[m]) /\ own[m].of = pos[1]}
             /\ pos = <<pos[1], 0>>
  <2>1. hold[pos].len > MPageSize - 2 /\ pos = <<pos[1], pos[2]>> /\ pos[2] = 0
    BY <1>1, <1>5, StoredIs
  <2>. QED  BY <2>1, <1>2, LongPagesIs
<1>6. ASSUME NEW n \in LongPages PROVE n \in 1 .. file.max /\ SlotOK(own[n])
  <2>1. PICK pos \in Stored : ~ IsShort(pos) /\ n \in PagesOf(pos)
    BY DEF LongPages
  <2>. QED  BY <2>1, <1>5
<1>7. ASSUME NEW n \in 1 .. file.max, SlotOK(own[n]) PROVE n \in LongPages
  <2>1. PICK pos \in Stored : ~ IsShort(pos) /\ n \in PagesOf(pos)
    BY <1>1, <1>7, LongStored
  <2>. QED  BY <2>1 DEF LongPages
<1>8. ASSUME NEW n \in (1 .. file.max) \ (FreePages \cup SharedPages \cup LongPages) PROVE NothingOn(n)
  <2>1. own[n] = SharedPage
    <3>1. ~ IsFree(own[n]) /\ ~ SlotOK(own[n])
      BY <1>3, <1>7
    <3>. QED  BY <3>1, <1>2 DEF FileOK, PageOK, SharedOK, FreeOK, LongOK
  <2>2. /\ FragmentsOK(file.page[n])
        /\ \A o \in DOMAIN file.page[n].word : file.page[n].word[o] > 0 => <<n, o>> \in Stored
        /\ \A pos \in Stored : pos[1] = n => IsShort(pos)
    BY <1>1, <2>1, SharedIs
  <2>3. \A o \in DOMAIN file.page[n].word : ~ (file.page[n].word[o] > 0)
    <3>1. ASSUME NEW o, <<n, o>> \in Stored PROVE n \in SharedPages
      <4>1. PICK pos : pos = <<n, o>>
        OBVIOUS
      <4>2. pos \in Stored /\ pos[1] = n /\ IsShort(pos)
        BY <3>1, <4>1, <2>2
      <4>. QED  BY <4>2 DEF SharedPages
    <3>. QED  BY <3>1, <2>2
  <2>4. \A o \in DOMAIN file.page[n].word : file.page[n].word[o] \in Int
    BY <1>2 DEF FileOK, PageOK, IsPage
  <2>5. DOMAIN file.page[n].data = {}
    BY <2>2, <2>3 DEF FragmentsOK
  <2>. QED  BY <2>3, <2>4, <2>5 DEF NothingOn
<1>9. ASSUME NEW p \in Stored, NEW q \in Stored, p # q, ~ IsShort(p), ~ IsShort(q)
      PROVE  PagesOf(p) \cap PagesOf(q) = {}
  <2>1. p[1] # q[1]
    <3>1. p = <<p[1], 0>> /\ q = <<q[1], 0>>
      BY <1>5, <1>9
    <3>. QED  BY <3>1, <1>9
  <2>2. /\ PagesOf(p) = {m \in 1 .. file.max : SlotOK(own[m]) /\ own[m].of = p[1]}
        /\ PagesOf(q) = {m \in 1 .. file.max : SlotOK(own[m]) /\ own[m].of = q[1]}
    BY <1>5, <1>9
  <2>. QED  BY <2>1, <2>2
<1>10. /\ \A r, q \in DOMAIN rec : r # q => rec[r].pos # rec[q].pos \/ rec[r].pos = NoPos
       /\ Positions \cap orphans = {}
  BY <1>1, <1>2 DEF Settled, RecsOK
<1>11. FreePages \cap (SharedPages \cup LongPages) = {}
  BY <1>3, <1>4, <1>6, Kinds
<1>12. SharedPages \cap LongPages = {}
  BY <1>4, <1>6, Kinds
<1>13. FreePages \cup SharedPages \cup LongPages \subseteq 1 .. file.max
  BY <1>3, <1>4, <1>6
<1>. QED  BY <1>8, <1>9, <1>10, <1>11, <1>12, <1>13

(* Between two operations the free list, the long texts and the shared     *)
(* pages have no page in common, no two records have the same text, and    *)
(* what is on no list has nothing on it: Delete has freed every page of    *)
(* every segment (FandTFile::NewPage, ReleasePage, Delete).                *)
THEOREM NoPageTwice == Spec => []PagesUsedOnce
BY FileIsKept, UsedOnceInv, PTL
=============================================================================
