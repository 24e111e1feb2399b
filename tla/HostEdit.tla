------------------------------- MODULE HostEdit -------------------------------
(***************************************************************************)
(* The interpreter inside a window of another program: the thread of the   *)
(* interpreter hands the editing of a field or of a text and the printing  *)
(* over to the thread of the window and sleeps until it gets the result    *)
(* (Drivers/host.cpp), the window sends it the keys typed elsewhere        *)
(* (Drivers/keyboard.cpp) and may stop it (DynamicLibrary/dllmain.cpp).    *)
(* The window is WpfHost/MainWindow.xaml.cs, whose handlers all run on one *)
(* thread.                                                                 *)
(*                                                                         *)
(* What is edited or printed, the mouse and the screen are left out.  A    *)
(* key typed by the user is its number; 0 is an Esc nobody typed; NoKey is *)
(* the code that no key has, which a result has until it is answered.  The *)
(* three copies of the hand-over in host.cpp are one, indexed by channel.  *)
(***************************************************************************)
EXTENDS Naturals, Sequences, FiniteSets, SequencesExt

CONSTANTS
  Channels,             \* those of "edit", "text", "print" the program uses
  MaxKeys,              \* bound: keys the user types
  MaxRequests           \* bound: requests of the interpreter

ASSUME HostEditAssumption ==
  /\ Channels \subseteq {"edit", "text", "print"}
  /\ MaxKeys \in Nat /\ MaxRequests \in Nat \ {0}

VARIABLES
  stop,                 \* g_stop
  chan,                 \* chan[c]: the flags, request and result of channel c
  ipc,                  \* where the thread of the interpreter is
  ich,                  \* the channel it uses there
  nreq,                 \* requests made so far
  got,                  \* the last answer taken, and the request it was for
  prior,                \* Keyboard::_priorBuffer
  buf,                  \* Keyboard::_kbdBuf from _actualIndex on
  queue,                \* Keyboard::_hostQueue
  processed,            \* the keys the interpreter has dealt with, in order
  hpc,                  \* where the thread of the window is
  form,                 \* form[c]: what the window shows for channel c
  nkeys                 \* keys typed so far

interpreter == <<ipc, ich, nreq, got, processed>>
keyboard    == <<prior, buf, queue>>
window      == <<hpc, form, nkeys>>
vars == <<stop, chan, interpreter, keyboard, window>>

Key    == 0..MaxKeys
NoKey  == MaxKeys + 1
Result == [for : 0..MaxRequests, text : Seq(Key), key : Key \cup {NoKey}]

NoResult == [for |-> 0, text |-> <<>>, key |-> NoKey]

(* Mutant: the stop answers without setting the key of the result.         *)
EscUnset == [for |-> 0, text |-> <<>>, key |-> NoKey]

Esc    == [for |-> 0, text |-> <<>>, key |-> 0]

NoForm == [for |-> 0, typed |-> <<>>]

Init ==
  /\ stop = FALSE
  /\ chan = [c \in Channels |-> [pending |-> FALSE, taken |-> FALSE,
                                 ready |-> FALSE, request |-> 0, result |-> NoResult]]
  /\ ipc = "work" /\ ich \in Channels /\ nreq = 0
  /\ got = [request |-> 0, for |-> 0]
  /\ prior = <<>> /\ buf = <<>> /\ queue = <<>> /\ processed = <<>>
  /\ hpc = "loop" /\ form = [c \in Channels |-> NoForm] /\ nkeys = 0

running == ipc # "halted"

(* RequestStop takes the three mutexes in this order and releases them all *)
(* when it returns.                                                        *)
StopPhases == <<"edit", "text", "print">>
Held(c) == \/ c = "edit" /\ hpc \in {"text", "print"}
           \/ c = "text" /\ hpc = "print"

(* notify_all of the condition variable of channel c.                      *)
Notify(c) == ipc' = IF ipc = "asleep" /\ ich = c THEN "awake" ELSE ipc

(* What key k adds to the keys dealt with: nothing if nobody typed it.     *)
Dealt(k) == IF k = 0 THEN <<>> ELSE <<k>>
-----------------------------------------------------------------------------
(* The thread of the interpreter.                                          *)

(* Get finds a key, in the buffer of returned keys first.                  *)
GetKey ==
  /\ ipc = "work" /\ prior \o buf # <<>>
  /\ processed' = processed \o Dealt(Head(prior \o buf))
  /\ IF prior # <<>> THEN prior' = Tail(prior) /\ UNCHANGED buf
                     ELSE buf' = Tail(buf) /\ UNCHANGED prior
  /\ UNCHANGED <<stop, chan, ipc, ich, nreq, got, queue, window>>

(* Get finds both buffers empty and reads the queue of the window, which   *)
(* throws HaltException when a stop was asked for.                         *)
ReadQueue ==
  /\ ipc = "work" /\ prior \o buf = <<>>
  /\ IF stop THEN ipc' = "halted" /\ UNCHANGED <<buf, queue>>
             ELSE buf' = queue /\ queue' = <<>> /\ UNCHANGED ipc
  /\ UNCHANGED <<stop, chan, ich, nreq, got, prior, processed, window>>

(* EditTxt has found the keyboard empty (its last action is to read the    *)
(* queue) and will ask for a field; the other requests are made without a  *)
(* look at the keyboard.                                                   *)
Want(c) ==
  /\ ipc = "work" /\ nreq < MaxRequests
  /\ c = "edit" => ~stop /\ prior \o buf \o queue = <<>>
  /\ ipc' = "wants" /\ ich' = c
  /\ UNCHANGED <<stop, chan, nreq, got, processed, keyboard, window>>

(* Run*: a stop is looked for before the mutex is taken.                   *)
CheckStop ==
  /\ ipc = "wants"
  /\ ipc' = IF stop THEN "work" ELSE "goes"
  /\ UNCHANGED <<stop, chan, ich, nreq, got, processed, keyboard, window>>

Request ==
  /\ ipc = "goes" /\ ~Held(ich)
  /\ nreq' = nreq + 1
  /\ chan' = [chan EXCEPT ![ich] = [pending |-> TRUE, taken |-> FALSE,
                ready |-> FALSE, request |-> nreq + 1, result |-> NoResult]]
  /\ ipc' = "asleep"
  /\ UNCHANGED <<stop, ich, got, processed, keyboard, window>>

SpuriousWake ==
  /\ ipc = "asleep"
  /\ ipc' = "awake"
  /\ UNCHANGED <<stop, chan, ich, nreq, got, processed, keyboard, window>>

SleepAgain ==
  /\ ipc = "awake" /\ ~Held(ich) /\ ~chan[ich].ready
  /\ ipc' = "asleep"
  /\ UNCHANGED <<stop, chan, ich, nreq, got, processed, keyboard, window>>

(* What the caller of Run* does with the result: EditTxt puts the key that *)
(* ended the edit in front of the returned keys, the text editor deals     *)
(* with it itself.                                                         *)
UseResult(r) ==
  IF ich = "edit"
  THEN /\ processed' = processed \o r.text
       /\ prior' = <<r.key>> \o prior
  ELSE /\ processed' = processed \o r.text \o Dealt(r.key)
       /\ UNCHANGED prior

(* Mutant: the wait has no predicate.                                      *)
TakeAnyway ==
  /\ ipc = "awake" /\ ~Held(ich)
  /\ chan' = [chan EXCEPT ![ich].ready = FALSE]
  /\ got' = [request |-> chan[ich].request, for |-> chan[ich].result.for]
  /\ UseResult(chan[ich].result)
  /\ ipc' = "work"
  /\ UNCHANGED <<stop, ich, nreq, buf, queue, window>>

TakeResult ==
  /\ ipc = "awake" /\ ~Held(ich) /\ chan[ich].ready
  /\ chan' = [chan EXCEPT ![ich].ready = FALSE]
  /\ got' = [request |-> chan[ich].request, for |-> chan[ich].result.for]
  /\ UseResult(chan[ich].result)
  /\ ipc' = "work"
  /\ UNCHANGED <<stop, ich, nreq, buf, queue, window>>

(* The program ends by itself.                                             *)
ProgramEnds ==
  /\ ipc = "work"
  /\ ipc' = "halted"
  /\ UNCHANGED <<stop, chan, ich, nreq, got, processed, keyboard, window>>

Keyboard    == GetKey \/ ReadQueue
Answering   == SleepAgain \/ TakeResult
Interpreter ==
  Keyboard \/ Answering \/ (\E c \in Channels : Want(c))
    \/ CheckStop \/ Request \/ SpuriousWake \/ ProgramEnds
-----------------------------------------------------------------------------
(* The thread of the window.  While a dialog for a text or a print is      *)
(* open, keys go there and the window cannot be closed.                    *)
Shown(c)  == form[c] # NoForm
NoDialog  == \A c \in Channels \ {"edit"} : ~Shown(c)

(* Mutant: the request stays pending and the form is not remembered.       *)
PollAgain(c) ==
  /\ hpc = "loop" /\ chan[c].pending
  /\ chan' = [chan EXCEPT ![c].taken = TRUE]
  /\ form' = [form EXCEPT ![c] = [for |-> chan[c].request, typed |-> <<>>]]
  /\ UNCHANGED <<stop, interpreter, keyboard, hpc, nkeys>>

(* The timer, or a key, finds a request and shows the form for it.         *)
Poll(c) ==
  /\ hpc = "loop" /\ ~Shown(c) /\ chan[c].pending
  /\ chan' = [chan EXCEPT ![c].pending = FALSE, ![c].taken = TRUE]
  /\ form' = [form EXCEPT ![c] = [for |-> chan[c].request, typed |-> <<>>]]
  /\ UNCHANGED <<stop, interpreter, keyboard, hpc, nkeys>>

(* Mutant: the sleeper is not notified.                                    *)
CompleteQuietly(c, k) ==
  /\ chan' = IF chan[c].taken
             THEN [chan EXCEPT ![c].taken = FALSE, ![c].ready = TRUE,
                     ![c].result = [for |-> form[c].for, text |-> form[c].typed, key |-> k]]
             ELSE chan
  /\ UNCHANGED ipc
  /\ form' = [form EXCEPT ![c] = NoForm]

(* The form is closed with key k and its result handed over, if somebody   *)
(* still waits for it.                                                     *)
Complete(c, k) ==
  /\ IF chan[c].taken
     THEN /\ chan' = [chan EXCEPT ![c].taken = FALSE, ![c].ready = TRUE,
                        ![c].result = [for |-> form[c].for, text |-> form[c].typed, key |-> k]]
          /\ Notify(c)
     ELSE UNCHANGED <<chan, ipc>>
  /\ form' = [form EXCEPT ![c] = NoForm]

(* A key typed into the form: text, or one that ends the edit.             *)
TypeText(c) ==
  /\ hpc = "loop" /\ Shown(c) /\ (c = "edit" => NoDialog) /\ c # "print"
  /\ nkeys < MaxKeys
  /\ nkeys' = nkeys + 1
  /\ form' = [form EXCEPT ![c].typed = Append(@, nkeys + 1)]
  /\ UNCHANGED <<stop, chan, interpreter, keyboard, hpc>>

EndWithKey(c) ==
  /\ hpc = "loop" /\ Shown(c) /\ (c = "edit" => NoDialog) /\ c # "print"
  /\ nkeys < MaxKeys
  /\ nkeys' = nkeys + 1
  /\ Complete(c, nkeys + 1)
  /\ UNCHANGED <<stop, ich, nreq, got, processed, keyboard, hpc>>

(* The edit runs into its time limit, a dialog is closed with the mouse.   *)
EndWithoutKey(c) ==
  /\ hpc = "loop" /\ Shown(c)
  /\ Complete(c, 0)
  /\ UNCHANGED <<stop, ich, nreq, got, processed, keyboard, hpc, nkeys>>

(* A key typed when nothing is shown: no request is found pending, so the  *)
(* key will be pushed into the queue.                                      *)
TypeElsewhere ==
  /\ hpc = "loop" /\ NoDialog /\ nkeys < MaxKeys
  /\ "edit" \in Channels => ~Shown("edit") /\ ~chan["edit"].pending
  /\ nkeys' = nkeys + 1 /\ hpc' = "push"
  /\ UNCHANGED <<stop, chan, interpreter, keyboard, form>>

(* Mutant: a full queue drops the key as it drops mouse moves.             *)
PushOrDrop ==
  /\ hpc = "push"
  /\ queue' = IF Len(queue) < 2 THEN Append(queue, nkeys) ELSE queue
  /\ hpc' = "loop"
  /\ UNCHANGED <<stop, chan, interpreter, prior, buf, form, nkeys>>

PushKey ==
  /\ hpc = "push"
  /\ queue' = Append(queue, nkeys)
  /\ hpc' = "loop"
  /\ UNCHANGED <<stop, chan, interpreter, prior, buf, form, nkeys>>

(* The user closes the window: an edit under way ends with Esc, ...        *)
Close ==
  /\ hpc = "loop" /\ NoDialog
  /\ IF "edit" \in Channels /\ Shown("edit")
     THEN Complete("edit", 0) ELSE UNCHANGED <<chan, ipc, form>>
  /\ hpc' = "closing"
  /\ UNCHANGED <<stop, ich, nreq, got, processed, keyboard, nkeys>>

(* ... the interpreter is asked to stop if it runs, ...                    *)
RequestStop ==
  /\ hpc = "closing"
  /\ IF running THEN stop' = TRUE /\ hpc' = "edit" ELSE hpc' = "closed" /\ UNCHANGED stop
  /\ UNCHANGED <<chan, interpreter, keyboard, form, nkeys>>

(* Mutant: only a request that the window has seen is answered.            *)
StopTakenOnly(c) ==
  IF chan[c].taken
  THEN /\ chan' = [chan EXCEPT ![c] = [pending |-> FALSE, taken |-> FALSE,
                     ready |-> TRUE, request |-> @.request, result |-> Esc]]
       /\ Notify(c)
  ELSE UNCHANGED <<chan, ipc>>

(* The request of channel c is answered with Esc.                          *)
StopChannel(c) ==
  IF chan[c].pending \/ chan[c].taken
  THEN /\ chan' = [chan EXCEPT ![c] = [pending |-> FALSE, taken |-> FALSE,
                     ready |-> TRUE, request |-> @.request, result |-> Esc]]
       /\ Notify(c)
  ELSE UNCHANGED <<chan, ipc>>

(* The stages of RequestStop after g_stop is set.                          *)
StopStage(i) ==
  /\ hpc = StopPhases[i]
  /\ IF hpc \in Channels THEN StopChannel(hpc) ELSE UNCHANGED <<chan, ipc>>
  /\ hpc' = IF i < Len(StopPhases) THEN StopPhases[i + 1] ELSE "wake"
  /\ UNCHANGED <<stop, ich, nreq, got, processed, keyboard, form, nkeys>>

(* ... it is sent an Esc, ...                                              *)
PushEsc ==
  /\ hpc = "wake"
  /\ queue' = Append(queue, 0)
  /\ hpc' = "wait"
  /\ UNCHANGED <<stop, chan, interpreter, prior, buf, form, nkeys>>

(* ... and waited for, for a limited time.                                 *)
Wait ==
  /\ hpc = "wait"
  /\ hpc' = "closed"
  /\ UNCHANGED <<stop, chan, interpreter, keyboard, form, nkeys>>

(* The timer sees that the interpreter has ended.                          *)
SeeEnd ==
  /\ hpc = "loop" /\ ~running
  /\ form' = [c \in Channels |-> IF c = "edit" THEN NoForm ELSE form[c]]
  /\ hpc' = "closed"
  /\ UNCHANGED <<stop, chan, interpreter, keyboard, nkeys>>

Closing == RequestStop \/ (\E i \in DOMAIN StopPhases : StopStage(i)) \/ PushEsc \/ Wait
EndForm(c) == EndWithKey(c) \/ EndWithoutKey(c)
Window ==
  (\E c \in Channels : Poll(c) \/ TypeText(c) \/ EndForm(c))
    \/ TypeElsewhere \/ PushKey \/ Close \/ Closing \/ SeeEnd
-----------------------------------------------------------------------------
Next == Interpreter \/ Window

Spec == Init /\ [][Next]_vars

(* Both threads go on; the timer of the window keeps polling; the user     *)
(* ends every form, and an interpreter that runs reads its keyboard again  *)
(* and again.                                                              *)
FairSpec ==
  /\ Spec
  /\ WF_vars(Answering) /\ WF_vars(CheckStop) /\ WF_vars(Request)
  /\ SF_vars(Keyboard)
  /\ \A c \in Channels : WF_vars(Poll(c)) /\ WF_vars(EndForm(c))
  /\ WF_vars(PushKey) /\ WF_vars(Closing)
-----------------------------------------------------------------------------
(* Every variable has its type; an answer that is ready ends with a key,   *)
(* and only keys come to the keyboard and the interpreter: never the code  *)
(* 0 that a result starts with (host.cpp:56, 66, 157).                     *)
Chan == {r \in [pending : BOOLEAN, taken : BOOLEAN, ready : BOOLEAN,
                request : 0..MaxRequests, result : Result] :
           r.ready => r.result.key \in Key}

TypeOK ==
  /\ stop \in BOOLEAN
  /\ chan \in [Channels -> Chan]
  /\ ipc \in {"work", "wants", "goes", "asleep", "awake", "halted"}
  /\ ich \in Channels /\ nreq \in 0..MaxRequests
  /\ got \in [request : 0..MaxRequests, for : 0..MaxRequests]
  /\ {prior, buf, queue, processed} \subseteq Seq(Key)
  /\ hpc \in {"loop", "push", "closing", "wake", "wait", "closed"} \cup ToSet(StopPhases)
  /\ form \in [Channels -> [for : 0..MaxRequests, typed : Seq(Key)]]
  /\ nkeys \in 0..MaxKeys

(* The answer the interpreter takes was given to the request it made, or   *)
(* is the Esc of a stop; never an answer to an older request, never the    *)
(* empty result a wait without an answer would leave (host.cpp:161).       *)
AnswersItsRequest ==
  got.for = got.request \/ (got.for = 0 /\ stop)

(* A request that is waited for is in exactly one place: with the          *)
(* interpreter's flags, with the form the window shows, or answered.       *)
RequestInOnePlace ==
  \A c \in Channels :
    IF ipc \in {"asleep", "awake"} /\ ich = c
    THEN /\ Cardinality({p \in {"pending", "taken", "ready"} : chan[c][p]}) = 1
         /\ Shown(c) <=> chan[c].taken
         /\ Shown(c) => form[c].for = chan[c].request
    ELSE ~chan[c].pending /\ ~chan[c].taken /\ ~chan[c].ready /\ ~Shown(c)

(* Until a stop, every key typed is in exactly one place, dealt with or on *)
(* its way: none is lost and none comes twice (keyboard.cpp:324).          *)
InChannel(c) ==
  IF c \notin Channels THEN <<>>
  ELSE form[c].typed
         \o IF chan[c].ready THEN Append(chan[c].result.text, chan[c].result.key) ELSE <<>>
Pushed   == IF hpc = "push" THEN <<nkeys>> ELSE <<>>
OnTheWay ==
  prior \o buf \o queue \o Pushed \o InChannel("edit") \o InChannel("text") \o InChannel("print")
Times(s, k) == Cardinality({n \in DOMAIN s : s[n] = k})
EveryKeyOnce ==
  ~stop => \A k \in Key \ {0} :
             Times(processed \o OnTheWay, k) = IF k <= nkeys THEN 1 ELSE 0

(* A request is answered while the window is open.                         *)
Waiting == ipc \in {"asleep", "awake"}
RequestAnswered == Waiting ~> ~Waiting \/ hpc \notin {"loop", "push"}

(* A stop ends the interpreter, if it is not just between its look at      *)
(* g_stop and the mutex when the stop is asked for; one that sleeps        *)
(* already is woken up (dllmain.cpp:316).                                  *)
StopEndsUnlessMissed == hpc = "edit" /\ ipc # "goes" ~> ~running

=============================================================================
