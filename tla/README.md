# Formal models of C++ FAND

TLA+ models, TLC runs and TLAPS proofs for C++ FAND, the C++ port of the
database system PC FAND. The models cover what several users and threads do to
each other: the locks of a shared file, the statements that take them, the
shared data file with its index, and the hand-over between the interpreter and
the window it runs in; and the structures on disk that long sequences of
operations must keep right: the B-tree with its build by external sort, the
text file, and the totals kept by additive updates; and the merges and reports that
read several inputs side by side.

## 1. The system

### Parts, their state and how they interact

| Part (directory) | State it keeps | Operations | Talks to |
|---|---|---|---|
| Lock modes (`fandio/locks.cpp`) | lock mode per open file (`FileD::LMode`), byte ranges locked at `0x40000000` | `ChangeLMode`, `TryLMode`, `NewLMode`, `OldLMode` | operating system (`LockFileEx`), other users through it |
| Record locks (`FileD::Lock`) | one locked byte per record | `Lock`, `Unlock` | as above |
| Shared file (`fandio/FileD.cpp`, `Fand0File.cpp`) | file prefix (`NRecs`), copy of it in memory, update flags | open, close, save, create, update, delete, recall, reset | lock modes, index, text file |
| Index (`FandXFile.cpp`, `XKey.cpp`, `XPage.cpp`) | pages of a B-tree, prefix (`NotValid`, `NRecs`, `MaxPage`, `FreeRoot`), signature | insert, delete, search, `CheckX`, `SetNotValid` | shared file |
| Index build (`XWorkFile.cpp`, `XXPage.cpp`, `WorkFiles.cpp`) | sorted chains in a work file | `Main`, `SortMerge`, `AddToLeaf` | index, scan (`XScan.cpp`) |
| Work index (`XWKey.cpp`) | one more tree, in the work file | `InsertAtNr`, `InsertGetNr`, `DeleteAtNr`, `AddToRecNr` | index, data editor |
| Text file (`FandTFile.cpp`) | pages, free list, free part of the current page | `Store`, `Read`, `Delete` | shared file |
| Procedure language (`Core/runproc.cpp`) | statements with their saved modes (`LockD::OldMd`) | `with shared`, `with locked`, `readrec`, `writerec`, `deleterec`, ... | all of the above |
| Additive updates (`Core/rdrun.cpp`) | none of their own | `LockForAdd`, `RunAddUpdate` with backtracking | lock modes, linked files |
| Data editor (`DataEditor/`) | record being edited, its lock, modes of dependent files | `LockWithDep`, `EditTxt`, ... | lock modes, additive updates, keyboard, hand-over |
| Keyboard (`Drivers/keyboard.cpp`) | returned keys, read events, queue of the window | `Get`, `PushEvent` | interpreter thread, window thread |
| Hand-over (`Drivers/host.cpp`, `DynamicLibrary/dllmain.cpp`) | `g_stop`; pending, taken, ready, request and result of three channels | `Run*`, `Poll*`, `Complete*`, `RequestStop`, `FandStart`, `FandWait` | interpreter thread, window thread |
| Window (`WpfHost/`) | form being shown | timer, keys, dialogs, closing | hand-over, keyboard |
| Merges and reports (`MergeReport/`) | per input a record read ahead, one that formulas see, sums, the group | `Merge::Run`, `MergeProc`, `JoinProc`, `Report::Run` | scans of files under Rd, output files |
| Compiler, interpreter core, export, help, dBase files, base library, tools | program text and values | sequential | through the parts above |

A user is a process. Users share nothing but files: everything they know of each
other goes through byte-range locks and through what they read from disk. Inside
one process there are two threads when the interpreter runs in a window.

### Where it is hard

* A mode change is several system calls and gives the old lock up first.
* Each user works on a memory copy of the file prefix. It is right only because
  it is read after one change of mode and written before another.
* A statement takes a list of locks, all or none, and statements nest.
* An index is built by readers, on demand, under the lock of record 0.
* A user may die at any point; the next opener has to notice.
* The interpreter sleeps until the window answers, and may be stopped meanwhile.
* The trees, texts and totals on disk are changed by long sequences of small steps
  that have to undo each other: a refused insert into the second index, a text
  released through links that the release overwrites, an additive update that fails
  two files away.
* A report or merge decides by one record read ahead of each input which group, level,
  heading and sum a record belongs to.

What should hold for each part is stated in section 4. The complete list of the
places where a test would hardly reach is `hazards` in `PROJECT.json`, each with the
properties that are about it.

## 2. Modules

| Module | Models | Checked or proved |
|---|---|---|
| `LockModes` | `enum LockMode`, `ModeLockBnds` | used by all lock modules |
| `ModeLockAbs` | the documented table of lock modes: one mode per user, granted when nobody refuses it | abstract specification |
| `ModeLock` | `ChangeLMode` and its callers, one step per system call | `MCModeLock`, `ModeLockProofs` |
| `WithShared` | `WithLockedProc`, `UnLck` | `MCWithShared`, `WithSharedProofs` |
| `SharedFile` | `Fand0File`, `FandXFile`, `FileD`, the record statements of `runproc.cpp` | `MCSharedFile`, `SharedFileProofs`, `SharedIndexProofs` |
| `XPage` | a page of an index: `XPage`, `XItemLeaf`, `XItemNonLeaf` | in `MCXIndex` |
| `XKey` | the tree: `XKey`, page allocation of `FandXFile` | in `MCXIndex` |
| `XWork` | `XWorkFile`: sort of a scan into chains, merge | in `MCXIndex` |
| `XBuild` | `XXPage`, `XWorkFile::Main`: the tree filled from the left | in `MCXIndex` |
| `XIndex` | the index operations of `Fand0File` and of the editor, `XWKey`, `XScan` | `MCXIndex` |
| `TextFile` | `FandTFile` and the record operations above it | `MCTextFile`, `TextFileProofs` |
| `AddLock` | the lock rounds of additive updates: `LockForAdd`, `LockForMemb`, `LockWithDep` | `MCAddUpdate`, `AddLockProofs` |
| `AddUpdate` | `RunAddUpdate` (`Core/rdrun.cpp`), its callers, `UpdMemberRef` of the data editor | `MCAddUpdate` |
| `InpD` | the inputs of merges and reports: `InpD`, `XScan::GetRec` | in `MCMergeReport` |
| `Merge` | `Merge::Run`, `MergeProc`, `JoinProc` | in `MCMergeReport` |
| `Report` | `Report::Run`, `MergeProc`, the levels with their sums | in `MCMergeReport` |
| `MergeReport` | both, with what a merge must write as definitions over the inputs | `MCMergeReport`, `MergeReportProofs` |
| `ReportTree` | what a report must print, the tree of its groups | in `MCMergeReport` |
| `HostEdit` | `host.cpp`, the keyboard queue, the window | `MCHostEdit`, `HostEditProofs` |

How they hang together:

* `ModeLock` implements `ModeLockAbs` (`ImplementsModeLockAbs`, checked and proved).
  `WithShared` and `SharedFile` then take a change of mode in one step from the table
  of `ModeLockAbs`; `AddLock` takes it to be granted or refused.
* `AddUpdate` extends `AddLock`: each of its actions is one of `AddLock` together with
  what happens to the records. `LockSpec` is the lock round alone.
* `SharedFile` has the index as the set of its entries. `XIndex` shows, for the
  operations that one user does under his locks, that the pages are that set
  (`EntriesMatchRecords`), with several keys and the rollback between them.
* `XPage`, `XKey`, `XWork`, `XBuild` and `XIndex` extend each other, as the classes do.
* `TextFile` and `AddUpdate` are the other two things a record operation changes. They
  are modelled apart: an additive update reads no texts, and neither looks at the pages
  of an index.
* `Merge` and `Report` extend `InpD` and are put together in `MergeReport`. Their
  inputs stand still: each is under Rd until the end (`ReadersSeeNoChange`), and is in
  order by an index or a sort (`XIndex`) or is refused.

### ModeLock

`lmode[u]` is `FileD::LMode`, `held[u]` the bytes locked through the handle,
`trans` the owner of the transition byte, `pc`, `want` and `kind` the position
and the parameters inside `ChangeLMode` (locks.cpp:84-148). The actions are its
system calls in order: `LockTrans`, `UnlockOldRange`, `LockNewRange` or
`NewRangeBusy`, `RelockOldRange`, `UnlockTransFailed`, `UnlockTransLocked`,
`SetLockMode`; `TryAgain` and `GiveUp` are the ends of the wait (kind 0 waits,
1 until Esc, 2 not at all). `Disconnect` is the end of a process or the closing
of its file at any point, when the system drops all its locks.

`EffectiveMode(u)` is what the user may rely on in the middle of a change: the old
mode until the new range is locked. It is the refinement mapping to
`ModeLockAbs`.

### WithShared

Every user has a stack of activations of the statements given by the constant
`Code`; `oldMd` is `LockD::OldMd`, which belongs to the statement, not to the
activation. The loop of `WithLockedProc` takes the entries one after the other
(`TakeMode`, `LockRecord`, opening a file that is not open), gives all up after a
refusal (`UnLckEntry`), runs the else branch or waits and starts again. After the
do branch `UnLckEnd` does the same for all entries. `RunError` leaves the
statement without it, which closes the files.

### SharedFile

On disk: `dN` (records in the data prefix), `rec`, and the index: its size
(empty, a prefix, pages), its prefix `xpfx` and its entries `idx`. Per user: the
mode, the mode it returns to (`held`), the memory copy of both prefixes (`mem`),
the update flags `df` and `xf`, and the position of its operation. The operations
are open (with `OpenF1`, `OpenF2`, `CheckX` and the repair), find, update,
append, recall, delete by number or by key, reset, save, close and crash; the end
of an operation writes the two prefixes in two steps before the mode goes down
(`Leave`, `LeaveIndex`).

Abstractions: a change of mode is one step; the B-tree is the set of its entries;
page numbers, texts, further keys and further files are left out; the question
whether to delete the records with duplicate keys is answered yes.

Kept on purpose: reading a prefix past the end of the file leaves the memory as it
was; a page written into an emptied index file makes its prefix read as zeros;
`OpenF1` marks a short index file as not valid without any lock.

### XPage, XKey, XWork, XBuild, XIndex

A file is its pages, the highest page number, the root of the list of free pages and
the fixed roots of its indexes. A page has its items in the order of their keys and
its greater page. The code stores of each key only what differs from the key before
it; here an item holds its whole key and the common part is computed, because every
operation of the code ends with that part right. How many bytes a page takes is
computed with it, so pages overflow, split and join where those of the code do.

`XKey` follows a path (`XPath`) down to a leaf and back up: `InsertOnPath` with
splits, `DeleteOnPath` with the joining and balancing of neighbours, the growing and
shrinking root, the leaf chain (`ChainPrevLeaf`), searches by key, by number and by
record. `XWork` is `SortMerge` with its chains, passes and the table of freed
pages (`FreeNr`); `XBuild` fills leaves and inner pages from the left and throws
records with a duplicate key out of all indexes. `XIndex` is the file with its
operations: build, insert, delete, recall, update and edit over several keys with
the rollback of a refused insert, the work index ordered by its user or by a key,
the scan of an interval. One user with his locks does all of it: who may do it beside
whom is the subject of `SharedFile`.

### TextFile

The pages are kept as what was written on them: length words, pieces of texts, and the
link in the last four bytes. `FreePart` is where the next short text goes, `FreeRoot`
the list of free pages (`file.part`, `file.free`). A record operation (`op`) deletes and
stores its texts one page, or one step of a loop, at a time; `job` says where it stands:

* `Deleting` frees nothing in a shared file (`cached`), makes a short text a free
  fragment and sends the `Walk` over its page, which joins free fragments, draws
  `FreePart` back and releases a page that is empty; a long text is released page by page
  (`ReleaseOne`), from one segment to the next;
* a text is stored at `FreePart` (`StoreShort`), or begins on a new page (`StoreLong`)
  and goes on from page to page (`WriteMore`, `WriteSegment`, `WriteLast`);
* `SetRec` then writes the record, or removes it from a file without an index.

The record operations are create, write, delete, the group delete of the data editor (a
loop of its own), truncation, and the change of lock mode. `Read` and `GetLength` follow
lengths and links as the code does, whatever they find there; they are recursive functions.

The walk assumes that the last fragment of a page is free ("posledni je vzdy volny!",
FandTFile.cpp:426), but a text may fill its page. Behind it the walk reads a length
from the one or two bytes that are left, which may lead it to draw `FreePart` back to
them (`TailDrawsBack`), or, when none are left, from behind its copy of the page. The
model has it stop there (`WalkEnds`): what lies in memory behind the copy could look like
a fragment that ends at `FreePart` just as well, and nothing in the code excludes it.

### AddLock and AddUpdate

`LockForAdd` and `LockForMemb` call themselves for every file they come to and lock
the files on the way down. In `AddLock` what is left of their loops is the list `todo`:
`LockNext` takes its first link, locks the file it leads to and puts the links of that
file before the rest. `Refused` (the round starts again), `GiveUp` (Esc in the editor) and
`EndLocks` give back what `LinkedBy` names, the files for which the first round has
saved modes in `ex` (`ExLMode`, `TaLMode`). Saving and giving back cannot be refused, so
they take one step; which files they reach is a closure (`Closure`).

`db[f]` has the records of each file in their order. `RunAddUpdate` is one recursive
operator on it: for a change from `old` to `new` it goes through the additives
(`#A`) of the file, moves a number from one superior record to another (`Transfer`),
makes missing records, looks at logical checks, goes on to the next level
(`TransAdd`) and, when one is refused, goes back over what it has done with the
opposite sign. `at` is `add_d_back`, which only sums set: when an assignment fails, the
last sum before it is taken for the one that has failed and is not undone. Around it are
the callers: `WriteCRec` and `CleanUp` of the data editor, `writerec`, `deleterec` and
`recallrec` of the language. `Begin`, `Lock` and `Run` are the actions of `AddLock` with
the records beside them.

`UpdMemberRef` deletes the members of a record, or gives them its new key, and calls
itself for each of them first (`Follow`). The call takes the member for a record of the
editor's own file: it looks for links to that file and packs their key from the member,
whose fields it finds by name (`KeyIn`). So it matters which field of a member has the
name of the key (`same`): for a file linked to itself it is the key, and the call finds the
members of the member; for another file it is none, and the call looks for members
of an empty key; or the link, and it finds the same members again; or the member's own
key, and it finds the members of somebody else. `MaxCalls` stands for the size of the
stack: with that many calls in each other the program dies.

`ended` says how the last operation ended: done, refused, refused with a sum left
behind (kept), or with the program (died). `spoilt` says that an operation has kept a sum,
written a record although its update had failed, or died.

### InpD, Merge, Report, MergeReport

`scan[i]` is where the scan of input `i` stands, on a record read ahead
(`ForwRecPtr`); `rec[i]` is the record that formulas see (`RecPtr`), `exist` the inputs
with records in the group `key`. `out` is what was written, in order: for a merge the
output, its group and the records and counts its formulas see; for a report the
block, its level, the fields it can show and its sums.

`NextGroup` is the head of the loop of `Merge::Run`. `MergeRec` and `MergeNone` are one
round of `MergeProc`. `JoinProc` calls itself for the next input: `pc` is "down" in a call
for input `at` and "up" when the one below has returned; the stack needs no more, since
all a call keeps is the position of its own input. In `Report`, `InputBegins`,
`PrintLine`, `SameSort`, `SortChanges`, `SortBegins` and `InputEnds` are the stretches
between the labels of `MergeProc`, `GroupEnds` is `GetMinKey` and `GetDifLevel` with the
footings between them. Level 0 is the whole report, then the match fields, then the
sort fields of each input.

`MergeReport` says what a merge and a join must write, from the inputs as a whole: each
record, or combination of records, that the output must have, the place of its group among
the sorted match fields, its counts, and that they stand in order. `ReportTree` says it
for a report: a tree of frames (`GroupTree`, `SortTree`) whose footings sum up what lies
inside them. It needs recursion and has a module of its own, so that theorems
can be stated about the rest.

### HostEdit

`chan[c]` holds the flags `pending`, `taken`, `ready`, the request and the result
of a channel; the three copies of this code in host.cpp are one. The thread of the
interpreter looks for a stop (`CheckStop`), makes a request (`Request`), sleeps on
the condition variable and takes the result. The thread of the window polls, shows
a form, completes it, pushes keys typed elsewhere into the queue, and on closing
stops the interpreter: `RequestStop` sets `g_stop` and then answers the channels
one after the other with the mutexes of the earlier ones still held (`Held`).
Every step between two points where a mutex is taken is one action. A key is its
number in the order of typing. A request starts with result code 0, no key of anybody
(`NoKey`); an answer must have set it.

## 3. Runs

| Run | Question | States |
|---|---|---|
| `modelock` | do the byte ranges keep the promise of the mode table, in every interleaving? | 410 000 |
| `withshared_mixed` | do lists of locks, refused, nested and in opposite orders, give all or nothing? | 18 000 |
| `sharedfile_ops` | do the record statements keep records, count and index together, and appends apart? | 358 000 |
| `sharedfile_all` | whatever happens, does only one user write the index pages? | 748 000 |
| `sharedfile_lost` | is the number of records safe from `SaveFiles`? | violated |
| `xindex` | do trees of pages stay the sorted lists they stand for? | 12 000 |
| `xindex_editor` | also when the data editor deletes a record? | violated |
| `textfile` | does every text read back, and is no place used twice? | 1 386 000 |
| `addupdate` | do totals stay the sums of their records, and is an update done as a whole or not at all? | 97 000 |
| `addupdate_broken` | also with limits two levels up, assignments that fail behind a sum, and members with fields of the same name? | violated |
| `mergereport` | do merges, joins and reports write what the inputs as a whole call for? | 145 000 |
| `hostedit_window` | does every request get its answer, and every key its place? | 75 000 |

### Bounds and why they are enough

* `modelock`: two users, all nine modes, all three kinds. Conflicts between
  ranges are between pairs; a third user adds only more contention for the
  transition byte. `Width` is 3 in place of 256: the smallest distance at which the
  stations 0 and `Width` - 2 both have a byte of their own and the ends of the
  strong ranges can be told apart. The theorems hold for every width, every number
  of users and every station number up to `Width` - 2.
* `withshared_mixed`: two users, two files, one record each, five statements: both
  kinds, opposite orders, with and without else, one nested that raises a mode.
* `sharedfile_ops`: two users, two key values, two record slots: enough for an
  append beside a find, a change of key onto a used one, a delete in the middle and
  a reset. A statement may stand inside a `with shared` of Rd (`HoldModes`). The
  theorems of `SharedIndexProofs` hold for all numbers of them.
* `sharedfile_all`: one slot; with crashes, saves and closes the entries may drift
  from the count by `MaxDrift`, beyond which no further step is taken.
* `xindex`: pages of 16 bytes in place of 1017, with item heads of 2 bytes, hold two to
  five items, so 40 records make trees of three levels, and splits, joins and balancing
  happen between leaves below one parent, below two, and at the root. A set-up
  (`Setups`) fixes the keys, the records that are there at first and the kinds of
  steps: a tree that shrinks to one leaf, inserts among equal keys, all operations on a
  few records, keys that get longer when a neighbour goes, equal keys below two inner
  pages, a build that refuses, work indexes by place and by key. `left` bounds the steps
  (2 to 9). The heads differ from the code's 5 and 9 in scale only; the bias
  with which a page is halved (`SplitBias`) is scaled with them. `SortMergeRight` asks for
  the sort of every prefix of the scan, so for up to 40 records with 4 on a page of the
  work file.
* `textfile`: a page of 19 bytes in place of 512 holds four fragments, a segment of 26
  bytes in place of 65 000 two pages. The last page of a full segment must have room for
  a link (an assumption of the module: 65 002 bytes take 127 pages of 508 and 486 bytes of
  one more). Among `Texts` are one that fills a page, one behind which two bytes are
  left, one of two pages and one of two segments. Every sequence of three operations
  after four different loads. The theorems of `TextFileProofs` hold for all sizes of pages and
  segments and any number of records and operations.
* `addupdate`: two levels above the edited file, two keys, numbers 0 to 2; five designs:
  a limit two levels up (`Chain`); a limit on the second branch after one without, and an
  assignment behind both (`Branch`); two ways to one total and a parameter file (`Joint`); an assignment before a limit, behind a sum, that asks
  before it creates and so may fail, another one on the next level that must find its
  record (`Noted`); accounts below accounts, three levels of them, under a limit
  (`Family`). Each starts with one to three records, some beside a deleted one or with
  superiors that are missing; every sequence of two operations, each with a refusal at every
  lock: the second one meets what a refused one has left. `MaxCalls` is 5, more than
  the three levels of members there are, so no operation of this run dies. `SumsMatch` says
  nothing more once an assignment has failed behind a sum (`spoilt`). That all
  locks are held is proved for any design.
* `addupdate_broken`: four designs, each of which refutes the property with `Tasks` set to it
  alone. The calls of `link` have no end: any `MaxCalls` is reached.
* `mergereport`: every content of one to three inputs of up to two or three records, sorted
  and unsorted, with up to two match fields and up to two sort fields, and deleted or
  unwanted records among them. Three records let a group have one before, one inside
  and one behind; each record adds a bit of its own, so a sum tells which records
  it is made of. Every job runs to its end. For merges and joins the theorems hold for any
  number of records and fields and up to nine inputs.
* `hostedit_window`: three keys (one in the form, one that ends it, one on its way
  through the queue), two requests (the second meets what the first left behind),
  all three channels.

`CHECK_DEADLOCK FALSE` stands where the system may really stop: a closed window, users
who have met the bounds of `sharedfile_all`, and the runs with a number of steps
(`xindex`, `textfile`, `addupdate`).

### Fairness

* `ModeLock`: weak fairness of every user's next system call. `ChangeLMode` does not
  stop between two calls, and a waiting call polls again. Nobody is forced to start
  a call or to leave a mode.
* `WithShared`: weak fairness of the interpreter inside a statement; the branches
  end.
* `SharedFile`: weak fairness of an operation in progress and of an index build. A
  statement that is refused its mode is not forced to get it.
* `HostEdit`: weak fairness of both threads, of the timer that polls, and of the
  user, who ends every form. The interpreter reads its keyboard again and again
  (strong fairness): that is the condition under which `FandStop` promises to end it.

The other modules are about safety: one user at work, whose operations end by
themselves.

## 4. What is shown

**The mode table is implemented** (`ModeLock`). No two users ever rely on modes of
which one refuses the other, also while a change has given its old range up. A
refused change always has its old range back although the code does not look at
the result (`HeldMatchesMode`). Lowering a mode is never refused
(`LoweringNotRefused`, proved), so callers may ignore the result. The transition byte is
always freed, and a call that does not wait returns.

**Lists of locks** (`WithShared`). In the do branch every lock of the list is held
(`LocksHeldInDo`); a statement that waits or takes its else branch holds nothing
(`AllOrNothing`), so statements cannot wait for each other in a circle; a refused
statement does not wait for itself.

**The shared file** (`SharedFile`). With the record statements and nobody dying:
whoever works under Rd or more has the current number of records in memory
(`RecordCountCurrent`); whenever nobody writes, an index that claims to be valid
lists exactly the live records under their keys and counts them (`IndexComplete`); no
opener finds it damaged (`IndexNeverDamaged`); readers see no change
(`ReadersSeeNoChange`); every operation that has its mode ends, also one that waits
for another user's index build (`OperationEnds`); an appended record never lands on a
counted one (`AppendsBehindTheEnd`), and that is proved with crashes and closes at any
point (`AppendsSafe`), as long as nobody calls `SaveFiles`. Whatever happens, only one user writes index pages
(`OneIndexWriter`).

**The trees** (`XIndex`). Whatever splits, joins and rollbacks happen: a valid
index has each live record once, in order (`EntriesMatchRecords`); each is found by
key, number and record, so the counts and keys of all inner pages are right
(`RecordsFound`); scans along the leaf chain give what the tree gives (`ScansComplete`);
every page is in one index or free (`NoPageLost`); no page is longer than a page
(`TypeOK`); the external sort gives every record once, and its table of five freed
pages never overflows (`SortMergeRight`); a work index has the order of its user
(`WorkOrderKept`).

**The texts** (`TextFile`). Every text reads back with its length (`TextsReadBack`), no
page is in two texts or in a text and free (`PagesUsedOnce`), and the fragments of
a shared page lie end to end up to the free part (`FragmentsTilePage`). This holds for
texts that fill their page too, although the walk of `Delete` is not made for them: at
worst `FreePart` is drawn back from a page without texts, which is then lost.

**The totals** (`AddUpdate`). Every total is the sum of the records that are linked to it
(`SumsMatch`), and an update runs with every lock it needs while the modes go back to what
they were (`LocksHeld`). An update that is refused leaves the sums and records of all files as
they were, and a deletion or change of a key in the editor takes all members with it,
those of members in the same file included, and nobody else (`WholeOrNotAtAll`). The
exceptions: empty records that were created stay; what an assignment has set is never
taken back; a statement writes its own record although its update has failed; and
the cases of `addupdate_broken` below.

**Merges and reports** (`MergeReport`). A merge that ends has written every record once,
in the group of its match fields and beside the right records of the other inputs; a
join every combination of the groups that no input lacks (`MergeFollowsInputs`). In a
report each record stands once inside the headings and footings of all its levels, and
a footing sums up what lies between its heading and itself (`ReportFollowsInputs`). An
input out of order is always refused, unless it is the only one of a report, whose
groups are then the runs of equal fields; a sorted one never is (`UnsortedRefused`).

**The window** (`HostEdit`). Every result the interpreter takes is for its own
request or the Esc of a stop; a request that is waited for is in exactly one
place; no key is lost or doubled before a stop; requests are answered; a stop ends
the interpreter, unless that is just between its look at `g_stop` and the mutex.

### Where the code does not keep it

Each is a run that TLC refutes.

1. `sharedfile_lost`: the update flag of the data file stays set after an index
   build that met a duplicate; a later `SaveFile` writes the old number of records
   without a lock, over that of a user who has appended (Fand0File.cpp:810).
2. `xindex_editor`: the data editor empties the record before it has its entries
   deleted, so they stay in every index (DataEditor.cpp:2229).
3. `addupdate_broken`: what the editor does to a record is not always done as a whole or
   not at all, as the manual says (`s.html:63`). TLC shows the shortest way; the others with
   `Tasks` set to one design:
   * `limits`: the undo of an additive update passes `Back` = false to the second level, so
     checks apply to it; one that refuses leaves the totals wrong (rdrun.cpp:361);
   * `behind`: an assignment that fails behind a sum leaves that sum written, since
     only sums set the place where the undo stops (rdrun.cpp:321);
   * `link`: when the link of the members has the name of the key it goes to,
     `UpdMemberRef` finds the same members again and does not come back, after the
     additives of the superior record have been written (DataEditor.cpp:1978);
   * `key`: when the members' own key has that name, it deletes the members of the
     superior record with the key of the member.

Seen while modelling, with other constants or by reading, without a run of their own
(`hazards` has most of them with their lines):

* the manual allows station number 255, whose Rd byte (0x3FF) lies outside every strong
  range (locks.cpp:74): reader and writer at once;
* `UnLck` gives back modes for the entries of a nested `with locked`, for which none
  were saved (runproc.cpp:1183), unlocks records of the statement around it, and
  sets entries a refused nested list never reached;
* two openers of a damaged file both keep Rd and wait for Excl (FileD.cpp:540);
* a close during an index build cuts the index file (Fand0File.cpp:763); a crash between
  an index page and its prefix can go unnoticed by `CheckX` (FileD.cpp:533); deleting a
  deleted record by number counts it twice (Fand0File.cpp:150);
* `NrToStr` gives a wrong key from the second leaf on (XKey.cpp:374);
* a text of more than two segments does not read back (FandTFile.cpp:681);
* behind a text that fills its page, `Delete` reads a length from outside its copy of the
  page (FandTFile.cpp:434);
* with members of members in a third file, `UpdMemberRef` still looks for links to the
  file of the editor: those of the third file stay without their superior
  (DataEditor.cpp:1978);
* with two records, a `SaveFiles` that writes an old number of records also lets an append
  land on a counted record (`AppendsBehindTheEnd` in `sharedfile_all` with `MaxRecs` = 2);
* a request made just after `RequestStop` has passed its channel sleeps for ever
  (host.cpp:153; `StopEndsUnlessMissed` shows that this is the only way to miss a stop);
* a key typed between the look at the empty keyboard and the request is overtaken
  (DataEditor.cpp:198; `EveryKeyOnce` does not look at the order of keys).

## 5. Proofs

### ModeLockProofs

For every width, every set of users and every assignment of distinct station
numbers up to `Width` - 2 (`UniqueNodes`, `NodesInRange`, the hypotheses of the
theorems):

| Theorem | Says |
|---|---|
| `Invariance` | `Spec => []IInv` |
| `TypeCorrect` | `Spec => []TypeOK` |
| `MutualExclusion` | `Spec => []ModesCompatible` |
| `RangesKept` | `Spec => []HeldMatchesMode` |
| `LoweringSucceeds` | `Spec => []LoweringNotRefused` |
| `Implementation` | `Spec => ImplementsModeLockAbs` |

The argument. `ModesCompatible` is not inductive: in the middle of a change a user
holds no bytes at all, and only the transition byte keeps the others from taking the
range it may have to take back. `IInv` adds that the owner of the byte is exactly the user
in transition (`TransOwned`), which bytes are held at which label (`HeldByLabel`), and
that the *effective* modes are compatible even for the user who holds nothing
(`Exclusion`). Two lemmas carry it: `RangesDisjoint` (two stations' ranges are
disjoint exactly when their modes go together, from the arithmetic of
`ModeLockBnds`) and `FreeIffCompatible` (for the user in transition, a free range
is one whose mode goes with all others). Taking the old range back then cannot
fail: nobody else can have passed the transition byte. `Implementation` follows
because only three steps change an effective mode, each to one that was found free.

### WithSharedProofs

For every number of users, files and records:

| Theorem | Says | For |
|---|---|---|
| `TypeCorrect` | `Spec => []TypeOK` | any code |
| `RecordsApart` | `Spec => []RecordsExclusive`: two users never have one record | any code |
| `LocksInDo` | `Spec => []LocksHeldInDo` | `FlatCode` |
| `NothingWhileWaiting` | `Spec => []AllOrNothing` | `FlatCode` |

`FlatCode` says that no statement stands inside another one and that a `with shared`
names no file twice. It is needed: `UnLck` sets every file of its list to the saved mode,
the entries that were never reached included, so a nested list that is refused takes modes
from the statement around it. The argument: without nesting the saved modes are all Null
(`NothingSaved`), so giving up gives up all; while the list is taken, what a user has is
within what the entries so far ask for (`May`) and covers it (`Must`), and the lists of
two users who have all they ask for cannot meet in a record.

### SharedFileProofs and SharedIndexProofs

For every set of users and keys and any number of records:

| Theorem | Says | As long as |
|---|---|---|
| `TypeCorrect` | `Spec => []TypeOK` | |
| `IndexExclusive` | `Spec => []OneIndexWriter` | |
| `CountCurrent` | `Spec => []RecordCountCurrent` | nobody calls `SaveFiles` |
| `AppendsSafe` | `Spec => []AppendsBehindTheEnd` | also no `with shared` around the operations asks for a mode that writes |
| `IndexRight` | `Spec => []IndexComplete` | also nobody dies, closes the file or deletes by number (`GoodDays`) |
| `NeverDamaged` | `Spec => []IndexNeverDamaged` | `GoodDays` |
| `ReadersUndisturbed` | `Spec => ReadersSeeNoChange` | `GoodDays` |

The modes carry it. `CompatibleSum` puts their table into one inequality (two modes go
together exactly when the sum of their ranks is at most 8), `ModeInv` says that the modes
of two users always satisfy it and which mode goes with which place in an operation. Types
need that the build counts at most the records it has passed (`ArgsOf`). `CountOf` and
`EndOf` say where the memory copy of the number of records is that of the file; a step of
somebody else keeps them because only users above Rd write the prefix (`OthersCount`).

`IndexInv` is the invariant of the index. A user with Rd or more whose memory says
that the index is valid knows its number of records and, when nobody builds, its entries
(`KnowsOf`); an operation between its first and its last write has all but its own record
in the index (`ChangeOf`); a builder has the records up to his place (`BuildOf`); flags
and places go with modes (`OpenOf`); and when nobody has anything left to write, prefix
and entries on disk are right (`DiskInv`). A step of somebody else keeps what a user
relies on either because a writer has no reader beside him (`BesideWriterStep`), or
because a reader writes nothing but an index that nobody relies on
(`BesideReaderStep`): with all live keys distinct, a build meets no duplicate and deletes
nothing (`NoDoubles`). Each assumption of `GoodDays` is needed: without it TLC shows the
damage (section 4).

### HostEditProofs

For every set of channels and any numbers of keys and requests, without further
hypotheses:

| Theorem | Says |
|---|---|
| `Invariance` | `Spec => []IInv` (the `IInv` of `HostEditProofs`) |
| `TypeCorrect` | `Spec => []TypeOK` |
| `AnswerCorrect` | `Spec => []AnswersItsRequest` |
| `OnePlace` | `Spec => []RequestInOnePlace` |
| `KeysKept` | `Spec => []EveryKeyOnce` |

The argument. That an answer belongs to its request has to be known before it is
taken: while it is ready (`Answered`), and before that while the form is shown,
whose number is the one of the request (`Placed`). A channel nobody waits for is
empty (`Idle`). The stop is the hard step, because it answers requests a form may
still be shown for: it is reached only with all forms closed
(`NoFormsWhenClosing`, from the order of the handlers in `MainWindow.OnClosing`)
and after `g_stop` (`StopSet`). Each action either leaves the channels alone
(`SameChannels`) or moves one request one place on (`CompleteKeeps` for the form).

For the keys: `EveryKeyOnce` puts all places a key can be in (what was processed, the
buffers, the queue of the window, the form and its result) behind each other. `KeysOnce`
counts instead how often a key is in each of them (`Times`) and says that the counts add
up to one for a key that was typed. The two say the same (`OnceIsOnce`), because the count of a
concatenation is the sum of the counts (`TimesConcat`, by a bijection between the
positions), and only the channel the interpreter waits for can hold keys (`InChannelType`).
Each action then moves a key from one summand to another (`KeysStep`).

### AddLockProofs

| Theorem | Says |
|---|---|
| `AllLocksHeld` | `LockSpec => []LocksHeld` |

For any files, additives and links, circles among them included, and any modes from
outside (`AddLockAssumption` says no more than that additives and links lead to files).
Nobody knows beforehand how long the walk is, and a link that was looked at may lead to
files whose links are still to come. `Covered` says: there is a set of files come
to so far, with the file of the operation in it, such that each link of each of them is
still in `todo`, or locked far enough and leads into the set. When `todo` is empty, the set
is closed under the links, so it contains the least closed set, which is what the update
can change (`Reached`, `Followers`). It is kept because the file that `LockNext`
comes to joins the set just when its links join the list (`CoversBelow`). The second half,
that all modes are the old ones afterwards, needs `Saved`: every file but those given
back still has its old mode, and the saved modes are the old ones; a file is raised only
if the round that saved has reached it (`OnTheWay`). `LockSpec` is the part of
`AddUpdate` without the records; `AddUpdate` has a recursive operator, and the run
checks `LocksHeld` there.

### MergeReportProofs

| Theorem | Says |
|---|---|
| `UnsortedInputsRefused` | `Spec => []UnsortedRefused` |
| `MergesFollowInputs` | `Spec => []MergeFollowsInputs` |

For any number of records, match fields and sort fields, and one to nine inputs
(`JobsAssumption`; a merge or report names its inputs I1 to I9).

`OrderInv` says where the code stands in its inputs. Each scan is on a record that counts or
behind the last one (`ScanOK`), what was read was in order (`SeenInOrder`), the inputs of
a group stand in it until the loop has passed them (`Standing`), and a join remembers
the first record of the group (`Started`). An input is refused only with two records
out of order in hand, and an end is reached only with everything read (`Ends`): that is
`UnsortedInputsRefused`.

For what is written, `MergedInv` and `JoinedInv` say that `out` is right (`Right`) for the
records dealt with so far: all groups before the present one, in it the inputs before
`at`, of input `at` the records before the scan; for a join the combinations that come
before the one at hand. `Right` asks for each entry with its counts, its sums and its
order, and each step either adds the one entry that its record calls for (`MergedRec`,
`JoinedWrite`) or changes only how the same set is told (`MergedNone`, `JoinedNext`,
the ends of groups). At the end all records are dealt with. Sums are a recursive
function on sequences; that it exists (`SumExists`) is shown from the smallest number for
which it would not (`SmallestNat`).

### TextFileProofs

For every size of a page and a segment that leaves room for its links, any texts of up to
two segments, and any number of records and operations (`TextFileAssumption`):

| Theorem | Says |
|---|---|
| `FileIsKept` | `Spec => []IInv` (the `IInv` of `TextFileProofs`) |
| `TextsAreKept` | `Spec => []TextsReadBack` |
| `NoPageTwice` | `Spec => []PagesUsedOnce` |
| `PagesAreTiled` | `Spec => []FragmentsTilePage` |

None of the three properties is inductive. They speak of the time between two operations,
and they find the pages of a text by following links, which an operation changes one at a
time. `IInv` says instead that there is an account of the file that it fits (`StateOK`):

* `own[n]` is what page n is: shared, free with so many pages behind it on the list,
  or a *slot*, the piece of a long text that begins at a given byte, with what is left of
  its segment. From a slot it follows whether another page must be linked to it and which
  slot that page is (`Following`). No two pages have one slot (`Distinct`), and every
  slot but the first of its text follows another one (`PredOK`);
* `hold` are the texts in the file by their positions, `w` the text that is being written
  or released, of which the account may lack the end, or the beginning;
* a shared page is tiled by its fragments, whose occupied ones are in `hold`; behind
  `FreePart` nothing is occupied.

`hold` has exactly the positions of the records and orphans, without the text that the
operation deletes and with the one it has just stored (`HeldOf`); so no text is freed
that a record still has, however records are shifted. Each step changes one or two pages,
and every clause of `FileOK` is about a page and the one it links to: `SharedChange` for a
step on a shared page, `TakePage` for a page that a long text gets, `FreedPage` for one
that goes to the free list, and nothing has to be followed.

At the end the links are followed. A reader goes from a slot to the one that follows
it, where the text is further on; so it is on no page twice, and after as many steps as
there are pages it has come to the end (`LongEnds`, with the pigeonhole principle), each piece
right (`PiecesRight`). It meets every slot of the text, because each but the first has a
predecessor, further to the front (`LongPagesIs`). `GetLength` counts links only, and
keeps in step with the reader while a segment is full (`CountOn`). The free list is
followed by the numbers its pages have on it (`FreeIs`).

### Only model-checked

* Liveness (`TransitionEnds`, `OperationEnds`, `RequestAnswered`, ...): outside the prover.
* The trees (all of `XIndex`): `XKey`, `XWork` and `XBuild` are built from recursive
  operators, as the code is recursive, and the prover can unfold none of them.
* The totals (`SumsMatch`, `WholeOrNotAtAll`): `RunAddUpdate` calls itself through
  `TransAdd`, and `UpdMemberRef` itself.
* What a report prints (`ReportFollowsInputs`): a tree, built recursively. That a report
  on several inputs refuses them when they are unsorted is proved.

Induction over the naturals is at hand: that a set of numbers has a smallest element
follows from a theorem of the library (`WFMin`) and is stated as `SmallestNat`, and from
it that recursive functions exist (`SumExists`, `StepsExist`). What is out of reach are
RECURSIVE operators and those theorems of the library that take an operator.

## 6. Not modelled, and why

Most of the source files are a sequential program around the parts above: compiler,
expressions, menus, screen, export, help, conversions, command line tools, and
vendored libraries (logging, formatting). They keep no shared state and have no protocol
to get wrong; what is hard in them is the meaning of one function at a time, which unit tests
reach. dBase files have no lock modes or indexes of their own. Drawing, mouse geometry and
printing have no property beyond layout. The Prolog sources are not part of the build.
Starting the interpreter twice in one process is not modelled: no program of the
repository does it after a stop.

Inside the modelled parts:

* `SharedFile`: one file with one key; volumes, the catalog, work files, the refusal to
  repair a damaged file.
* `XIndex`: descending and floating key parts (a key is a string of bytes), a page number
  outside the file (Err 831), the scan of a file through an owner.
* `TextFile`: compression, encryption, the prefix of the file on disk, other users'
  text files; texts of more than two segments; lengths read from behind the copy of a page
  (section 2).
* `AddLock`: links with `MemberRef` 2. `UnLockWithDep` passes `LockForMemb` a mode that was
  never set (DataEditor.cpp:2170), and whether a link of that kind is given back depends
  on it; links with `MemberRef` 1 are given back for every value. An additive of a file to
  itself takes no lock of its own, in the code and here.
* `AddUpdate`: additives under a condition, additives of a file to itself, members of
  members in a third file, `AddSwitch` off; totals are not typed by users, and a file without an index is entered
  in the order of its keys.
* `Merge`, `Report`: what formulas make of the records, their checks, the output files and
  the replacing of an input in place, pages, columns, headings of details, several copies.
* Data editor: display, navigation, selection, journal, and the record lock of the edited
  record.

`components` in `PROJECT.json` has the complete list.

## 7. Plan

What would come next, in this order:

1. `EditRecord`: the record lock of the data editor (`FileD::Lock` from the first change of
   a field to `WriteCRec`) between two users, above `ModeLockAbs`, composed with the lock
   rounds of `AddUpdate`.
2. The scan of `XScan` record by record beside a writer, with the mode it takes of kind 0.
3. The output files of a merge: appending under Cr beside other users, an input replaced in
   place (`SubstDuplF`), a merge cut off in the middle.
4. Several files in `SharedFile`: a statement that changes two of them, a crash between.
5. Proofs about `XPage`, the part of the trees without recursion: an insert, a delete
   and a split keep the items of a page sorted and within its size.
