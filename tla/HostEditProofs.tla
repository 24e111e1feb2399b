---------------------------- MODULE HostEditProofs ----------------------------
(***************************************************************************)
(* Proofs about HostEdit for every set of channels and any numbers of keys *)
(* and requests: the type invariant, that a request is in exactly one      *)
(* place while it is waited for, that an answer belongs to the request it  *)
(* is taken for, and that no key is lost or doubled on its way.            *)
(***************************************************************************)
EXTENDS HostEdit, FiniteSetTheorems, SequenceTheorems, TLAPS

(***************************************************************************)
(* The inductive invariant.                                                *)
(***************************************************************************)

WaitedFor(c) == ipc \in {"asleep", "awake"} /\ ich = c

(* Exactly one flag of channel c is set.                                   *)
OneFlag(c) ==
  /\ chan[c].pending \/ chan[c].taken \/ chan[c].ready
  /\ ~(chan[c].pending /\ chan[c].taken)
  /\ ~(chan[c].pending /\ chan[c].ready)
  /\ ~(chan[c].taken /\ chan[c].ready)

(* A request that is waited for has a number of its own, is in one place,  *)
(* and the form shown for it carries its number: without the number above  *)
(* 0 a form could not be told from no form.                                *)
Placed ==
  \A c \in Channels : WaitedFor(c) =>
    /\ chan[c].request # 0
    /\ OneFlag(c)
    /\ form[c] # NoForm <=> chan[c].taken
    /\ chan[c].taken => form[c].for = chan[c].request

(* A channel nobody waits for is empty.                                    *)
Idle ==
  \A c \in Channels : ~WaitedFor(c) =>
    ~chan[c].pending /\ ~chan[c].taken /\ ~chan[c].ready /\ form[c] = NoForm

(* An answer that is ready is for the request, or it is the Esc of a stop. *)
Answered ==
  \A c \in Channels : chan[c].ready =>
    \/ chan[c].result.for = chan[c].request
    \/ chan[c].result.for = 0 /\ stop

(* A window that closes shows no form: otherwise the answer of a stop      *)
(* would leave a form behind for a request that is answered already.       *)
NoFormsWhenClosing ==
  hpc \notin {"loop", "push", "closed"} => \A c \in Channels : form[c] = NoForm

(* The channels are answered with Esc only after g_stop is set.            *)
StopSet == hpc \in {"edit", "text", "print", "wake", "wait"} => stop

(* A request is begun only while there is one left of the bound.           *)
RequestLeft == ipc \in {"wants", "goes"} => nreq < MaxRequests

IInv ==
  /\ TypeOK
  /\ RequestLeft
  /\ Placed
  /\ Idle
  /\ Answered
  /\ NoFormsWhenClosing
  /\ StopSet
  /\ AnswersItsRequest

(***************************************************************************)
(* Types.                                                                  *)
(***************************************************************************)

Form == [for : 0..MaxRequests, typed : Seq(Key)]

(* The type invariant in four parts.                                       *)
ChanOK == chan \in [Channels -> Chan]
KeysOK == /\ prior \in Seq(Key) /\ buf \in Seq(Key)
          /\ queue \in Seq(Key) /\ processed \in Seq(Key)
FormOK == form \in [Channels -> Form]
RestOK ==
  /\ stop \in BOOLEAN
  /\ ipc \in {"work", "wants", "goes", "asleep", "awake", "halted"}
  /\ ich \in Channels /\ nreq \in 0..MaxRequests
  /\ got \in [request : 0..MaxRequests, for : 0..MaxRequests]
  /\ hpc \in {"loop", "push", "closing", "edit", "text", "print", "wake", "wait", "closed"}
  /\ nkeys \in 0..MaxKeys

(* The three stages of a stop, by number.                                  *)
LEMMA Phases ==
  /\ DOMAIN StopPhases = {1, 2, 3} /\ Len(StopPhases) = 3
  /\ StopPhases[1] = "edit" /\ StopPhases[2] = "text" /\ StopPhases[3] = "print"
  /\ ToSet(StopPhases) = {"edit", "text", "print"}
<1>1. /\ DOMAIN StopPhases = {1, 2, 3} /\ Len(StopPhases) = 3
      /\ StopPhases[1] = "edit" /\ StopPhases[2] = "text" /\ StopPhases[3] = "print"
  BY DEF StopPhases
<1>. QED  BY <1>1 DEF ToSet

(* The parts together are the type invariant.                              *)
LEMMA TypeParts == TypeOK <=> ChanOK /\ KeysOK /\ FormOK /\ RestOK
BY Phases DEF TypeOK, ChanOK, KeysOK, FormOK, RestOK, Chan, Form

(* Sequences of keys.                                                      *)
LEMMA KeySeqs ==
  /\ <<>> \in Seq(Key)
  /\ \A k \in Key : <<k>> \in Seq(Key)
  /\ \A s, t \in Seq(Key) : s \o t \in Seq(Key)
  /\ \A s \in Seq(Key) : s # <<>> => Head(s) \in Key /\ Tail(s) \in Seq(Key)
  /\ \A s \in Seq(Key), k \in Key : Append(s, k) \in Seq(Key)
<1>1. <<>> \in Seq(Key)
  BY EmptySeq
<1>2. \A k \in Key : <<k>> \in Seq(Key)
  OBVIOUS
<1>3. \A s, t \in Seq(Key) : s \o t \in Seq(Key)
  OBVIOUS
<1>4. \A s \in Seq(Key) : s # <<>> => Head(s) \in Key /\ Tail(s) \in Seq(Key)
  BY HeadTailProperties
<1>5. \A s \in Seq(Key), k \in Key : Append(s, k) \in Seq(Key)
  OBVIOUS
<1>. QED  BY <1>1, <1>2, <1>3, <1>4, <1>5

(* The Esc nobody typed and the number of the next key are keys.           *)
LEMMA KeyTypes ==
  /\ 0 \in Key
  /\ \A k \in Key : Dealt(k) \in Seq(Key)
  /\ nkeys \in 0..MaxKeys => nkeys \in Key
  /\ nkeys \in 0..MaxKeys /\ nkeys < MaxKeys => nkeys + 1 \in Key
<1>1. \A k \in Key : Dealt(k) \in Seq(Key)
  BY KeySeqs DEF Dealt
<1>. QED  BY <1>1, HostEditAssumption DEF Key

(* A key behind a sequence of keys.                                        *)
LEMMA KeyBehind ==
  \A s \in Seq(Key), x \in Key :
    Append(s, x) = s \o <<x>> /\ <<>> \o Append(s, x) = s \o <<x>>
OBVIOUS

(* Results and forms.                                                      *)
LEMMA RecordTypes ==
  /\ Esc \in Result /\ NoResult \in Result /\ NoForm \in Form
  /\ \A n \in 0..MaxRequests, s \in Seq(Key), k \in Key :
       [for |-> n, text |-> s, key |-> k] \in Result
  /\ \A r \in Result : r.for \in 0..MaxRequests /\ r.text \in Seq(Key)
BY KeyTypes, HostEditAssumption DEF Esc, NoResult, Result, NoForm, Form

(* The invariant holds when the window opens.                              *)
LEMMA InitInv == Init => IInv
<1>. SUFFICES ASSUME Init PROVE IInv
  OBVIOUS
<1>1. TypeOK
  <2>1. ChanOK /\ FormOK
    BY RecordTypes, HostEditAssumption DEF Init, ChanOK, Chan, FormOK
  <2>2. KeysOK
    BY KeySeqs DEF Init, KeysOK
  <2>3. RestOK
    <3>1. 0 \in 0..MaxRequests /\ 0 \in 0..MaxKeys
      BY HostEditAssumption
    <3>. QED  BY <3>1 DEF Init, RestOK
  <2>. QED  BY <2>1, <2>2, <2>3, TypeParts
<1>2. Placed /\ Idle /\ Answered
  BY DEF Init, Placed, Idle, Answered, WaitedFor
<1>3. RequestLeft /\ NoFormsWhenClosing /\ StopSet /\ AnswersItsRequest
  BY DEF Init, RequestLeft, NoFormsWhenClosing, StopSet, AnswersItsRequest
<1>. QED  BY <1>1, <1>2, <1>3 DEF IInv

(* Closing a form keeps the types.                                         *)
LEMMA CompleteTypes ==
  ASSUME ChanOK, FormOK, RestOK, NEW c \in Channels, NEW k \in Key, Complete(c, k)
  PROVE  /\ ChanOK' /\ FormOK'
         /\ ipc' \in {"work", "wants", "goes", "asleep", "awake", "halted"}
<1>1. form[c].for \in 0..MaxRequests /\ form[c].typed \in Seq(Key)
  BY DEF FormOK, Form
<1>2. [for |-> form[c].for, text |-> form[c].typed, key |-> k] \in Result
  BY <1>1, RecordTypes
<1>3. ChanOK'
  <2>. DEFINE r == [for |-> form[c].for, text |-> form[c].typed, key |-> k]
  <2>1. \/ chan' = chan
        \/ chan' = [chan EXCEPT ![c].taken = FALSE, ![c].ready = TRUE, ![c].result = r]
    BY DEF Complete
  <2>2. r \in Result /\ r.key \in Key /\ chan[c] \in Chan
    BY <1>2 DEF ChanOK
  <2>. HIDE DEF r
  <2>3. [chan[c] EXCEPT !.taken = FALSE, !.ready = TRUE, !.result = r] \in Chan
    BY <2>2 DEF Chan
  <2>. QED  BY <2>1, <2>3 DEF ChanOK
<1>4. FormOK'
  BY RecordTypes DEF Complete, FormOK
<1>. QED  BY <1>3, <1>4 DEF Complete, Notify, RestOK

(* No step of either thread breaks the types.                              *)
LEMMA TypeStep ==
  ASSUME TypeOK, RequestLeft, [Next]_vars
  PROVE  TypeOK'
<1>. SUFFICES ChanOK' /\ KeysOK' /\ FormOK' /\ RestOK'
  BY TypeParts, PTL
<1>0. ChanOK /\ KeysOK /\ FormOK /\ RestOK
  BY TypeParts
<1>. USE <1>0 DEF interpreter, keyboard, window
<1>1. CASE GetKey
  <2>1. Head(prior \o buf) \in Key /\ Dealt(Head(prior \o buf)) \in Seq(Key)
    <3>1. prior \o buf \in Seq(Key) /\ prior \o buf # <<>>
      BY <1>1 DEF GetKey, KeysOK
    <3>. QED  BY <3>1, KeyTypes
  <2>2. prior' \in Seq(Key) /\ buf' \in Seq(Key)
    <3>1. CASE prior # <<>>
      BY <1>1, <3>1, KeySeqs DEF GetKey, KeysOK
    <3>2. CASE prior = <<>>
      <4>1. buf # <<>>
        BY <1>1, <3>2 DEF GetKey, KeysOK
      <4>. QED  BY <1>1, <3>2, <4>1, KeySeqs DEF GetKey, KeysOK
    <3>. QED  BY <3>1, <3>2
  <2>. QED  BY <1>1, <2>1, <2>2 DEF GetKey, KeysOK, ChanOK, FormOK, RestOK
<1>2. CASE ReadQueue
  BY <1>2, KeySeqs DEF ReadQueue, KeysOK, ChanOK, FormOK, RestOK
<1>3. ASSUME NEW c \in Channels, Want(c)
      PROVE  ChanOK' /\ KeysOK' /\ FormOK' /\ RestOK'
  BY <1>3 DEF Want, KeysOK, ChanOK, FormOK, RestOK
<1>4. CASE CheckStop \/ SpuriousWake \/ SleepAgain \/ ProgramEnds
  BY <1>4 DEF CheckStop, SpuriousWake, SleepAgain, ProgramEnds, KeysOK, ChanOK, FormOK, RestOK
<1>5. CASE Request
  <2>1. nreq + 1 \in 0..MaxRequests
    BY <1>5, HostEditAssumption DEF Request, RequestLeft, RestOK
  <2>2. ChanOK'
    BY <1>5, <2>1, RecordTypes DEF Request, ChanOK, Chan
  <2>. QED  BY <1>5, <2>1, <2>2 DEF Request, KeysOK, FormOK, RestOK
<1>6. CASE TakeResult
  <2>1. chan[ich] \in Chan
    BY DEF ChanOK, RestOK
  <2>2. /\ chan[ich].request \in 0..MaxRequests
        /\ chan[ich].result \in Result /\ chan[ich].result.key \in Key
    BY <1>6, <2>1 DEF TakeResult, Chan
  <2>3. ChanOK'
    BY <1>6, <2>1 DEF TakeResult, ChanOK, Chan
  <2>4. prior' \in Seq(Key) /\ processed' \in Seq(Key)
    <3>. DEFINE r == chan[ich].result
    <3>1. r.text \in Seq(Key) /\ r.key \in Key /\ Dealt(r.key) \in Seq(Key)
      BY <2>2, RecordTypes, KeyTypes
    <3>2. UseResult(r)
      BY <1>6 DEF TakeResult
    <3>. HIDE DEF r
    <3>3. CASE ich = "edit"
      <4>1. prior' = <<r.key>> \o prior /\ processed' = processed \o r.text
        BY <3>2, <3>3 DEF UseResult
      <4>2. <<r.key>> \in Seq(Key)
        BY <3>1, KeySeqs
      <4>. QED  BY <3>1, <4>1, <4>2, KeySeqs DEF KeysOK
    <3>4. CASE ich # "edit"
      <4>1. prior' = prior /\ processed' = processed \o r.text \o Dealt(r.key)
        BY <3>2, <3>4 DEF UseResult
      <4>. QED  BY <3>1, <4>1, KeySeqs DEF KeysOK
    <3>. QED  BY <3>3, <3>4
  <2>5. got' \in [request : 0..MaxRequests, for : 0..MaxRequests]
    BY <1>6, <2>2, RecordTypes DEF TakeResult
  <2>. QED  BY <1>6, <2>3, <2>4, <2>5 DEF TakeResult, KeysOK, FormOK, RestOK
<1>7. ASSUME NEW c \in Channels, Poll(c)
      PROVE  ChanOK' /\ KeysOK' /\ FormOK' /\ RestOK'
  <2>1. chan[c] \in Chan /\ chan[c].request \in 0..MaxRequests
    BY DEF ChanOK, Chan
  <2>2. ChanOK'
    BY <1>7, <2>1 DEF Poll, ChanOK, Chan
  <2>3. FormOK'
    BY <1>7, <2>1 DEF Poll, FormOK, Form
  <2>. QED  BY <1>7, <2>2, <2>3 DEF Poll, KeysOK, RestOK
<1>8. ASSUME NEW c \in Channels, TypeText(c)
      PROVE  ChanOK' /\ KeysOK' /\ FormOK' /\ RestOK'
  <2>1. nkeys + 1 \in Key /\ nkeys + 1 \in 0..MaxKeys
    BY <1>8, KeyTypes DEF TypeText, RestOK, Key
  <2>2. form[c] \in Form /\ Append(form[c].typed, nkeys + 1) \in Seq(Key)
    BY <2>1 DEF FormOK, Form
  <2>3. FormOK'
    BY <1>8, <2>2 DEF TypeText, FormOK, Form
  <2>. QED  BY <1>8, <2>1, <2>3 DEF TypeText, ChanOK, KeysOK, RestOK
<1>9. ASSUME NEW c \in Channels, EndWithKey(c)
      PROVE  ChanOK' /\ KeysOK' /\ FormOK' /\ RestOK'
  <2>1. nkeys + 1 \in Key /\ nkeys + 1 \in 0..MaxKeys
    BY <1>9, KeyTypes DEF EndWithKey, RestOK, Key
  <2>2. Complete(c, nkeys + 1)
    BY <1>9 DEF EndWithKey
  <2>. QED  BY <1>9, <2>1, <2>2, CompleteTypes DEF EndWithKey, KeysOK, RestOK
<1>10. ASSUME NEW c \in Channels, EndWithoutKey(c)
       PROVE  ChanOK' /\ KeysOK' /\ FormOK' /\ RestOK'
  <2>1. Complete(c, 0)
    BY <1>10 DEF EndWithoutKey
  <2>. QED  BY <1>10, <2>1, KeyTypes, CompleteTypes DEF EndWithoutKey, KeysOK, RestOK
<1>11. CASE TypeElsewhere
  <2>1. nkeys + 1 \in 0..MaxKeys
    BY <1>11, KeyTypes DEF TypeElsewhere, RestOK, Key
  <2>. QED  BY <1>11, <2>1 DEF TypeElsewhere, ChanOK, FormOK, KeysOK, RestOK
<1>12. CASE PushKey \/ PushEsc
  BY <1>12, KeyTypes, KeySeqs DEF PushKey, PushEsc, ChanOK, FormOK, KeysOK, RestOK
<1>13. CASE Close
  <2>1. CASE "edit" \in Channels /\ Shown("edit")
    <3>1. Complete("edit", 0)
      BY <1>13, <2>1 DEF Close
    <3>. QED  BY <1>13, <2>1, <3>1, KeyTypes, CompleteTypes DEF Close, KeysOK, RestOK
  <2>2. CASE ~("edit" \in Channels /\ Shown("edit"))
    BY <1>13, <2>2 DEF Close, ChanOK, FormOK, KeysOK, RestOK
  <2>. QED  BY <2>1, <2>2
<1>14. CASE RequestStop
  BY <1>14 DEF RequestStop, ChanOK, FormOK, KeysOK, RestOK
<1>15. ASSUME NEW i \in DOMAIN StopPhases, StopStage(i)
       PROVE  ChanOK' /\ KeysOK' /\ FormOK' /\ RestOK'
  <2>1. hpc' \in {"text", "print", "wake"}
    BY <1>15, Phases DEF StopStage
  <2>2. ChanOK'
    <3>1. CASE chan' = chan
      BY <3>1 DEF ChanOK
    <3>2. CASE chan' # chan
      <4>. DEFINE r == [pending |-> FALSE, taken |-> FALSE, ready |-> TRUE,
                        request |-> chan[hpc].request, result |-> Esc]
      <4>1. hpc \in Channels /\ chan' = [chan EXCEPT ![hpc] = r]
        BY <1>15, <3>2 DEF StopStage, StopChannel
      <4>2. chan[hpc].request \in 0..MaxRequests
        BY <4>1 DEF ChanOK, Chan
      <4>3. r \in Chan
        BY <4>2, RecordTypes, KeyTypes DEF Chan, Esc
      <4>. HIDE DEF r
      <4>. QED  BY <4>1, <4>3 DEF ChanOK
    <3>. QED  BY <3>1, <3>2
  <2>3. ipc' \in {"work", "wants", "goes", "asleep", "awake", "halted"}
    BY <1>15 DEF StopStage, StopChannel, Notify, RestOK
  <2>. QED  BY <1>15, <2>1, <2>2, <2>3 DEF StopStage, FormOK, KeysOK, RestOK
<1>16. CASE Wait \/ SeeEnd
  BY <1>16, RecordTypes DEF Wait, SeeEnd, ChanOK, FormOK, KeysOK, RestOK
<1>17. CASE UNCHANGED vars
  BY <1>17 DEF vars, ChanOK, FormOK, KeysOK, RestOK
<1>. QED
  BY <1>1, <1>2, <1>3, <1>4, <1>5, <1>6, <1>7, <1>8, <1>9, <1>10, <1>11, <1>12,
     <1>13, <1>14, <1>15, <1>16, <1>17
  DEF Next, Interpreter, Keyboard, Answering, Window, EndForm, Closing

(***************************************************************************)
(* The channels: where a request is and what its answer is.                *)
(***************************************************************************)

Channel == Placed /\ Idle /\ Answered

(* A step that touches neither flags nor forms and does not change which   *)
(* channel is waited for keeps a request where it is.                      *)
LEMMA SameChannels ==
  ASSUME Channel, UNCHANGED <<chan, form>>, stop => stop',
         \A c \in Channels : WaitedFor(c)' <=> WaitedFor(c)
  PROVE  Channel'
BY DEF Channel, Placed, Idle, Answered, OneFlag

(* Closing a form moves the request it was shown for, if there is one,     *)
(* from the form to the answers.                                           *)
LEMMA CompleteKeeps ==
  ASSUME Channel, ChanOK, FormOK, RestOK, NEW c \in Channels, NEW k,
         Complete(c, k), UNCHANGED <<stop, ich>>
  PROVE  Channel'
<1>. USE DEF Channel, Complete, ChanOK, FormOK
<1>1. CASE chan[c].taken
  <2>1. WaitedFor(c) /\ form[c].for = chan[c].request /\ chan[c].request # 0
    BY <1>1 DEF Placed, Idle
  <2>2. \A d \in Channels : WaitedFor(d)' <=> WaitedFor(d)
    BY <1>1 DEF WaitedFor, Notify
  <2>3. \A d \in Channels \ {c} : chan'[d] = chan[d] /\ form'[d] = form[d]
    OBVIOUS
  <2>4. /\ ~chan'[c].pending /\ ~chan'[c].taken /\ chan'[c].ready
        /\ chan'[c].request = chan[c].request
        /\ chan'[c].result.for = chan[c].request
        /\ form'[c] = NoForm
    BY <1>1, <2>1 DEF Placed, OneFlag, Chan
  <2>5. Placed' /\ Idle'
    BY <2>1, <2>2, <2>3, <2>4 DEF Placed, Idle, OneFlag
  <2>6. Answered'
    BY <2>3, <2>4 DEF Answered
  <2>. QED  BY <2>5, <2>6
<1>2. CASE ~chan[c].taken
  <2>1. form[c] = NoForm
    BY <1>2 DEF Placed, Idle
  <2>2. form' = form
    BY <2>1
  <2>. QED  BY <1>2, <2>2, SameChannels DEF WaitedFor
<1>. QED  BY <1>1, <1>2

(* No step of either thread breaks the invariants of the channels.         *)
LEMMA ChannelStep ==
  ASSUME IInv, [Next]_vars
  PROVE  Channel'
<1>1. ChanOK /\ KeysOK /\ FormOK /\ RestOK
  BY TypeParts DEF IInv
<1>2. Channel /\ NoFormsWhenClosing /\ StopSet
  BY DEF IInv, Channel
<1>. USE <1>1, <1>2 DEF interpreter, keyboard, window
<1>3. CASE Keyboard \/ CheckStop \/ SpuriousWake \/ SleepAgain \/ ProgramEnds
  BY <1>3, SameChannels
  DEF Keyboard, GetKey, ReadQueue, CheckStop, SpuriousWake, SleepAgain, ProgramEnds, WaitedFor
<1>4. ASSUME NEW c \in Channels, Want(c) PROVE Channel'
  BY <1>4, SameChannels DEF Want, WaitedFor
<1>5. CASE TypeElsewhere \/ PushKey \/ RequestStop \/ PushEsc \/ Wait
  BY <1>5, SameChannels DEF TypeElsewhere, PushKey, RequestStop, PushEsc, Wait, WaitedFor
<1>6. CASE Request
  <2>1. /\ WaitedFor(ich)' /\ \A d \in Channels \ {ich} : ~WaitedFor(d) /\ ~WaitedFor(d)'
        /\ ~WaitedFor(ich)
    BY <1>6 DEF Request, WaitedFor
  <2>2. \A d \in Channels \ {ich} : chan'[d] = chan[d] /\ form'[d] = form[d]
    BY <1>6 DEF Request, ChanOK
  <2>3. /\ chan'[ich].pending /\ ~chan'[ich].taken /\ ~chan'[ich].ready
        /\ chan'[ich].request = nreq + 1 /\ nreq + 1 # 0
    BY <1>6 DEF Request, ChanOK, RestOK
  <2>4. form'[ich] = NoForm
    BY <1>6, <2>1 DEF Request, Channel, Idle, RestOK
  <2>. QED
    BY <1>6, <2>1, <2>2, <2>3, <2>4 DEF Request, Channel, Placed, Idle, Answered, OneFlag
<1>7. CASE TakeResult
  BY <1>7 DEF TakeResult, Channel, Placed, Idle, Answered, WaitedFor, OneFlag, ChanOK, Chan,
              RestOK
<1>8. ASSUME NEW c \in Channels, Poll(c) PROVE Channel'
  BY <1>8 DEF Poll, Shown, Channel, Placed, Idle, Answered, WaitedFor, OneFlag, ChanOK, Chan,
              FormOK, NoForm
<1>9. ASSUME NEW c \in Channels, TypeText(c) PROVE Channel'
  BY <1>9 DEF TypeText, Shown, Channel, Placed, Idle, Answered, WaitedFor, OneFlag, FormOK,
              Form, NoForm
<1>10. ASSUME NEW c \in Channels, EndForm(c) PROVE Channel'
  BY <1>10, CompleteKeeps DEF EndForm, EndWithKey, EndWithoutKey
<1>11. CASE Close
  BY <1>11, CompleteKeeps, SameChannels DEF Close, WaitedFor
<1>12. ASSUME NEW i \in DOMAIN StopPhases, StopStage(i) PROVE Channel'
  <2>1. stop /\ \A c \in Channels : form[c] = NoForm
    BY <1>12, Phases DEF StopStage, StopSet, NoFormsWhenClosing
  <2>2. CASE UNCHANGED <<chan, ipc>>
    BY <1>12, <2>2, SameChannels DEF StopStage, WaitedFor
  <2>3. CASE ~UNCHANGED <<chan, ipc>>
    <3>1. PICK c \in Channels :
            /\ chan[c].pending \/ chan[c].taken
            /\ chan' = [chan EXCEPT ![c] = [pending |-> FALSE, taken |-> FALSE,
                          ready |-> TRUE, request |-> chan[c].request, result |-> Esc]]
            /\ Notify(c)
            /\ UNCHANGED <<stop, ich, form>>
      BY <1>12, <2>3 DEF StopStage, StopChannel
    <3>2. WaitedFor(c) /\ chan[c].request # 0
      BY <3>1 DEF Channel, Placed, Idle
    <3>3. \A d \in Channels : WaitedFor(d)' <=> WaitedFor(d)
      BY <3>1 DEF WaitedFor, Notify
    <3>4. \A d \in Channels \ {c} : chan'[d] = chan[d]
      BY <3>1 DEF ChanOK
    <3>5. /\ ~chan'[c].pending /\ ~chan'[c].taken /\ chan'[c].ready
          /\ chan'[c].request = chan[c].request
          /\ chan'[c].result.for = 0
      BY <3>1 DEF ChanOK, Esc
    <3>6. Placed' /\ Idle'
      BY <2>1, <3>1, <3>2, <3>3, <3>4, <3>5 DEF Channel, Placed, Idle, OneFlag
    <3>7. Answered'
      BY <2>1, <3>1, <3>4, <3>5 DEF Channel, Answered
    <3>. QED  BY <3>6, <3>7 DEF Channel
  <2>. QED  BY <2>2, <2>3
<1>13. CASE SeeEnd
  <2>1. form' = form
    BY <1>13 DEF SeeEnd, running, Channel, Idle, WaitedFor, FormOK
  <2>. QED  BY <1>13, <2>1, SameChannels DEF SeeEnd, WaitedFor
<1>14. CASE UNCHANGED vars
  BY <1>14, SameChannels DEF vars, WaitedFor
<1>. QED
  BY <1>3, <1>4, <1>5, <1>6, <1>7, <1>8, <1>9, <1>10, <1>11, <1>12, <1>13, <1>14
  DEF Next, Interpreter, Answering, Window, Closing

(***************************************************************************)
(* The stop, and the answer taken.                                         *)
(***************************************************************************)

(* What the steps do to the phases of the window.                          *)
LEMMA WindowStep ==
  ASSUME IInv, [Next]_vars
  PROVE  NoFormsWhenClosing' /\ StopSet'
<1>1. Channel /\ NoFormsWhenClosing /\ StopSet /\ FormOK
  BY TypeParts DEF IInv, Channel
<1>. USE <1>1 DEF interpreter, keyboard, window, NoFormsWhenClosing, StopSet
<1>2. CASE Interpreter \/ UNCHANGED vars
  BY <1>2 DEF Interpreter, Keyboard, Answering, GetKey, ReadQueue, Want, CheckStop, Request,
              SpuriousWake, SleepAgain, TakeResult, ProgramEnds, vars
<1>3. ASSUME NEW c \in Channels, Poll(c) \/ TypeText(c) \/ EndForm(c)
      PROVE  NoFormsWhenClosing' /\ StopSet'
  BY <1>3 DEF Poll, TypeText, EndForm, EndWithKey, EndWithoutKey
<1>4. CASE TypeElsewhere \/ PushKey \/ RequestStop \/ PushEsc \/ Wait \/ SeeEnd
  BY <1>4 DEF TypeElsewhere, PushKey, RequestStop, PushEsc, Wait, SeeEnd
<1>5. CASE Close
  BY <1>5 DEF Close, NoDialog, Shown, Complete, FormOK
<1>6. ASSUME NEW i \in DOMAIN StopPhases, StopStage(i)
      PROVE  NoFormsWhenClosing' /\ StopSet'
  BY <1>6, Phases DEF StopStage
<1>. QED
  BY <1>2, <1>3, <1>4, <1>5, <1>6 DEF Next, Window, Closing

(* The answer taken is the one that was ready, and a request is begun only *)
(* within the bound.                                                       *)
LEMMA AnswerStep ==
  ASSUME IInv, [Next]_vars
  PROVE  AnswersItsRequest' /\ RequestLeft'
<1>1. Channel /\ AnswersItsRequest /\ RequestLeft /\ RestOK
  BY TypeParts DEF IInv, Channel
<1>. USE <1>1 DEF interpreter, keyboard, window, AnswersItsRequest, RequestLeft
<1>2. CASE TakeResult
  BY <1>2 DEF TakeResult, Channel, Answered, RestOK
<1>3. CASE Keyboard \/ SleepAgain \/ CheckStop \/ Request \/ SpuriousWake \/ ProgramEnds
  BY <1>3 DEF Keyboard, GetKey, ReadQueue, SleepAgain, CheckStop, Request, SpuriousWake,
              ProgramEnds
<1>4. ASSUME NEW c \in Channels, Want(c)
      PROVE  AnswersItsRequest' /\ RequestLeft'
  BY <1>4 DEF Want
<1>5. CASE Window
  BY <1>5 DEF Window, Poll, TypeText, EndForm, EndWithKey, EndWithoutKey, Complete, Notify,
              TypeElsewhere, PushKey, Close, Closing, RequestStop, StopStage, StopChannel,
              PushEsc, Wait, SeeEnd
<1>6. CASE UNCHANGED vars
  BY <1>6 DEF vars
<1>. QED
  BY <1>2, <1>3, <1>4, <1>5, <1>6 DEF Next, Interpreter, Answering

(* The invariant is inductive.                                             *)
LEMMA NextInv == IInv /\ [Next]_vars => IInv'
BY TypeStep, ChannelStep, WindowStep, AnswerStep DEF IInv, Channel

(***************************************************************************)
(* The keys: how often one is in a sequence.                               *)
(***************************************************************************)

(* The places of a key in a sequence are finite in number.                 *)
LEMMA TimesType ==
  ASSUME NEW s \in Seq(Key), NEW k
  PROVE  /\ IsFiniteSet({n \in DOMAIN s : s[n] = k})
         /\ Times(s, k) \in Nat
<1>1. DOMAIN s = 1 .. Len(s) /\ Len(s) \in Nat
  OBVIOUS
<1>2. IsFiniteSet(1 .. Len(s))
  BY <1>1, FS_Interval
<1>3. IsFiniteSet({n \in DOMAIN s : s[n] = k})
  BY <1>1, <1>2, FS_Subset
<1>. QED  BY <1>3, FS_CardinalityType DEF Times

(* A key is in a concatenation as often as in both parts.                  *)
LEMMA TimesConcat ==
  ASSUME NEW s \in Seq(Key), NEW t \in Seq(Key), NEW k
  PROVE  Times(s \o t, k) = Times(s, k) + Times(t, k)
<1>. DEFINE A == {n \in DOMAIN s : s[n] = k}
            B == {n \in DOMAIN t : t[n] = k}
            C == {n \in DOMAIN (s \o t) : (s \o t)[n] = k}
            D == C \ A
            f == [n \in B |-> Len(s) + n]
<1>1. /\ DOMAIN s = 1 .. Len(s) /\ Len(s) \in Nat /\ DOMAIN t = 1 .. Len(t) /\ Len(t) \in Nat
      /\ DOMAIN (s \o t) = 1 .. Len(s) + Len(t)
      /\ \A n \in 1 .. Len(s) + Len(t) : (s \o t)[n] = IF n <= Len(s) THEN s[n] ELSE t[n - Len(s)]
  OBVIOUS
<1>2. IsFiniteSet(A) /\ IsFiniteSet(B) /\ IsFiniteSet(C)
  <2>1. s \o t \in Seq(Key)
    OBVIOUS
  <2>. QED  BY <2>1, TimesType
<1>3. A \subseteq C
  BY <1>1
<1>4. D = {n \in Len(s) + 1 .. Len(s) + Len(t) : t[n - Len(s)] = k}
  BY <1>1
<1>5. f \in Bijection(B, D)
  <2>1. f \in [B -> D]
    BY <1>1, <1>4
  <2>2. \A a, b \in B : f[a] = f[b] => a = b
    BY <1>1
  <2>3. \A d \in D : \E b \in B : f[b] = d
    <3>. SUFFICES ASSUME NEW d \in D PROVE d - Len(s) \in B /\ f[d - Len(s)] = d
      OBVIOUS
    <3>. QED  BY <1>1, <1>4
  <2>. HIDE DEF f, B, D
  <2>. QED  BY <2>1, <2>2, <2>3 DEF Bijection, Injection, Surjection, IsInjective
<1>6. Cardinality(D) = Cardinality(B)
  <2>. HIDE DEF f, B, D
  <2>. QED  BY <1>2, <1>5, FS_Bijection DEF ExistsBijection
<1>7. Cardinality(D) = Cardinality(C) - Cardinality(A)
  <2>1. C \cap A = A
    BY <1>3
  <2>. HIDE DEF A, C
  <2>. QED  BY <1>2, <2>1, FS_Difference
<1>8. Cardinality(A) \in Nat /\ Cardinality(B) \in Nat /\ Cardinality(C) \in Nat
  BY <1>2, FS_CardinalityType
<1>. HIDE DEF A, B, C, D
<1>9. Cardinality(C) = Cardinality(A) + Cardinality(B)
  BY <1>6, <1>7, <1>8
<1>. QED  BY <1>9 DEF Times, A, B, C

(* A key is not in the empty sequence and once in a sequence of its own.   *)
LEMMA TimesOne ==
  /\ \A k : Times(<<>>, k) = 0
  /\ \A x, k : Times(<<x>>, k) = IF x = k THEN 1 ELSE 0
  /\ \A x, k : k # 0 => Times(Dealt(x), k) = IF x = k THEN 1 ELSE 0
<1>1. \A k : {n \in DOMAIN <<>> : <<>>[n] = k} = {}
  OBVIOUS
<1>2. \A k : Times(<<>>, k) = 0
  BY <1>1, FS_EmptySet DEF Times
<1>3. \A x, k : Times(<<x>>, k) = IF x = k THEN 1 ELSE 0
  <2>. TAKE x, k
  <2>1. {n \in DOMAIN <<x>> : <<x>>[n] = k} = IF x = k THEN {1} ELSE {}
    OBVIOUS
  <2>. QED  BY <2>1, FS_EmptySet, FS_Singleton DEF Times
<1>. QED  BY <1>2, <1>3 DEF Dealt

(* A key put behind a sequence or in front of it.                          *)
LEMMA TimesKey ==
  ASSUME NEW s \in Seq(Key), NEW x \in Key, NEW k
  PROVE  /\ Times(s \o <<x>>, k) = Times(s, k) + Times(<<x>>, k)
         /\ Times(<<x>> \o s, k) = Times(<<x>>, k) + Times(s, k)
<1>. DEFINE u == <<x>>
<1>1. u \in Seq(Key)
  BY KeySeqs
<1>. HIDE DEF u
<1>2. Times(s \o u, k) = Times(s, k) + Times(u, k) /\ Times(u \o s, k) = Times(u, k) + Times(s, k)
  BY <1>1, TimesConcat
<1>. QED  BY <1>2 DEF u

(* The first key of a sequence and those behind it.                        *)
LEMMA TimesHead ==
  ASSUME NEW s \in Seq(Key), s # <<>>, NEW k
  PROVE  Times(s, k) = Times(<<Head(s)>>, k) + Times(Tail(s), k)
<1>1. s = <<Head(s)>> \o Tail(s)
  OBVIOUS
<1>2. Head(s) \in Key /\ Tail(s) \in Seq(Key)
  BY KeySeqs
<1>3. <<Head(s)>> \in Seq(Key)
  BY <1>2, KeySeqs
<1>. QED  BY <1>1, <1>2, <1>3, TimesConcat

(* How often a key is dealt with or on its way: only the channel that the  *)
(* interpreter uses can hold keys.                                         *)
Sum(k) ==
  Times(processed, k) + Times(prior, k) + Times(buf, k) + Times(queue, k) + Times(Pushed, k)
    + Times(InChannel(ich), k)

KeysOnce == ~stop => \A k \in Key \ {0} : Sum(k) = IF k <= nkeys THEN 1 ELSE 0

(* The keys in a channel are a sequence of keys, empty but for the channel *)
(* of a request that is waited for.                                        *)
LEMMA InChannelType ==
  IInv => \A c :
    /\ InChannel(c) \in Seq(Key)
    /\ c \in Channels /\ ~WaitedFor(c) => InChannel(c) = <<>>
    /\ c # ich => InChannel(c) = <<>>
    /\ c \in Channels /\ form[c].typed = <<>> /\ ~chan[c].ready => InChannel(c) = <<>>
<1>. SUFFICES ASSUME IInv, NEW c
              PROVE  /\ InChannel(c) \in Seq(Key)
                     /\ c \in Channels /\ ~WaitedFor(c) => InChannel(c) = <<>>
                     /\ c # ich => InChannel(c) = <<>>
                     /\ c \in Channels /\ form[c].typed = <<>> /\ ~chan[c].ready => InChannel(c) = <<>>
  OBVIOUS
<1>0. ChanOK /\ FormOK /\ RestOK /\ Idle
  BY TypeParts DEF IInv
<1>1. CASE c \notin Channels
  BY <1>0, <1>1, KeySeqs DEF InChannel, RestOK
<1>2. CASE c \in Channels
  <2>1. /\ form[c].typed \in Seq(Key) /\ chan[c].result.text \in Seq(Key)
        /\ chan[c].ready => chan[c].result.key \in Key
    BY <1>0, <1>2, RecordTypes DEF ChanOK, FormOK, Chan, Form
  <2>2. InChannel(c) \in Seq(Key)
    BY <1>2, <2>1, KeySeqs DEF InChannel
  <2>3. form[c].typed = <<>> /\ ~chan[c].ready => InChannel(c) = <<>>
    BY <1>2 DEF InChannel
  <2>. QED  BY <1>0, <1>2, <2>2, <2>3 DEF Idle, WaitedFor, NoForm
<1>. QED  BY <1>1, <1>2

(* Counting them place by place is counting them in all places together.   *)
LEMMA OnceIsOnce ==
  ASSUME IInv
  PROVE  KeysOnce <=> EveryKeyOnce
<1>0. KeysOK /\ RestOK
  BY TypeParts DEF IInv
<1>1. Pushed \in Seq(Key)
  BY <1>0, KeyTypes, KeySeqs DEF Pushed, RestOK
<1>2. \A c : InChannel(c) \in Seq(Key) /\ (c # ich => InChannel(c) = <<>>)
  BY InChannelType
<1>. SUFFICES ASSUME NEW k \in Key \ {0}
              PROVE  Times(processed \o OnTheWay, k) = Sum(k)
  BY DEF KeysOnce, EveryKeyOnce
<1>. DEFINE e == InChannel("edit")
            t == InChannel("text")
            p == InChannel("print")
<1>3. e \in Seq(Key) /\ t \in Seq(Key) /\ p \in Seq(Key)
  BY <1>2
<1>4. Times(e, k) + Times(t, k) + Times(p, k) = Times(InChannel(ich), k)
  <2>1. ich \in {"edit", "text", "print"}
    BY <1>0, HostEditAssumption DEF RestOK
  <2>2. /\ Times(e, k) \in Nat /\ Times(t, k) \in Nat /\ Times(p, k) \in Nat
        /\ ich # "edit" => Times(e, k) = 0
        /\ ich # "text" => Times(t, k) = 0
        /\ ich # "print" => Times(p, k) = 0
    BY <1>2, <1>3, TimesType, TimesOne
  <2>. QED  BY <2>1, <2>2
<1>. HIDE DEF e, t, p
<1>5. /\ prior \in Seq(Key) /\ buf \in Seq(Key) /\ queue \in Seq(Key) /\ processed \in Seq(Key)
  BY <1>0 DEF KeysOK
<1>. DEFINE s1 == prior \o buf
            s2 == s1 \o queue
            s3 == s2 \o Pushed
            s4 == s3 \o e
            s5 == s4 \o t
            s6 == s5 \o p
<1>6. Times(s1, k) = Times(prior, k) + Times(buf, k) /\ s1 \in Seq(Key)
  BY <1>5, TimesConcat, KeySeqs
<1>7. Times(s2, k) = Times(s1, k) + Times(queue, k) /\ s2 \in Seq(Key)
  <2>. HIDE DEF s1
  <2>. QED  BY <1>5, <1>6, TimesConcat, KeySeqs
<1>8. Times(s3, k) = Times(s2, k) + Times(Pushed, k) /\ s3 \in Seq(Key)
  <2>. HIDE DEF s2
  <2>. QED  BY <1>1, <1>7, TimesConcat, KeySeqs
<1>9. Times(s4, k) = Times(s3, k) + Times(e, k) /\ s4 \in Seq(Key)
  <2>. HIDE DEF s3
  <2>. QED  BY <1>3, <1>8, TimesConcat, KeySeqs
<1>10. Times(s5, k) = Times(s4, k) + Times(t, k) /\ s5 \in Seq(Key)
  <2>. HIDE DEF s4
  <2>. QED  BY <1>3, <1>9, TimesConcat, KeySeqs
<1>11. Times(s6, k) = Times(s5, k) + Times(p, k) /\ s6 \in Seq(Key)
  <2>. HIDE DEF s5
  <2>. QED  BY <1>3, <1>10, TimesConcat, KeySeqs
<1>12. Times(processed \o OnTheWay, k) = Times(processed, k) + Times(s6, k)
  <2>1. OnTheWay = s6
    BY DEF OnTheWay, e, t, p
  <2>. HIDE DEF s6
  <2>. QED  BY <1>5, <1>11, <2>1, TimesConcat
<1>. HIDE DEF s1, s2, s3, s4, s5, s6
<1>13. /\ Times(prior, k) \in Nat /\ Times(buf, k) \in Nat /\ Times(queue, k) \in Nat
       /\ Times(processed, k) \in Nat /\ Times(Pushed, k) \in Nat
       /\ Times(e, k) \in Nat /\ Times(t, k) \in Nat /\ Times(p, k) \in Nat
  BY <1>1, <1>3, <1>5, TimesType
<1>14. Times(s6, k) = Times(prior, k) + Times(buf, k) + Times(queue, k) + Times(Pushed, k)
                        + (Times(e, k) + Times(t, k) + Times(p, k))
  BY <1>6, <1>7, <1>8, <1>9, <1>10, <1>11, <1>13
<1>. QED
  BY <1>4, <1>12, <1>13, <1>14 DEF Sum

(* The places a key can be in are sequences of keys.                       *)
LEMMA PlaceTypes ==
  IInv => /\ processed \in Seq(Key) /\ prior \in Seq(Key) /\ buf \in Seq(Key)
          /\ queue \in Seq(Key) /\ Pushed \in Seq(Key) /\ InChannel(ich) \in Seq(Key)
<1>. SUFFICES ASSUME IInv
              PROVE  /\ processed \in Seq(Key) /\ prior \in Seq(Key) /\ buf \in Seq(Key)
                     /\ queue \in Seq(Key) /\ Pushed \in Seq(Key) /\ InChannel(ich) \in Seq(Key)
  OBVIOUS
<1>1. KeysOK /\ RestOK
  BY TypeParts DEF IInv
<1>2. Pushed \in Seq(Key)
  BY <1>1, KeyTypes, KeySeqs DEF Pushed, RestOK
<1>. QED  BY <1>1, <1>2, InChannelType DEF KeysOK

(* How often a key is in each of the places is a number.                   *)
CountsOK ==
  \A k : /\ Times(processed, k) \in Nat /\ Times(prior, k) \in Nat /\ Times(buf, k) \in Nat
        /\ Times(queue, k) \in Nat /\ Times(Pushed, k) \in Nat /\ Times(InChannel(ich), k) \in Nat

LEMMA SumType == IInv => CountsOK
BY PlaceTypes, TimesType DEF CountsOK

(* A form that is closed leaves what was typed into it, and the key that   *)
(* closed it, in the answer.                                               *)
LEMMA CompleteTimes ==
  ASSUME IInv, NEW c \in Channels, NEW x \in Key, Complete(c, x), Shown(c), UNCHANGED ich, NEW k
  PROVE  Times(InChannel(ich)', k) = Times(InChannel(ich), k) + Times(<<x>>, k)
<1>1. ChanOK /\ FormOK /\ RestOK /\ Placed /\ Idle
  BY TypeParts DEF IInv
<1>2. c = ich /\ chan[c].taken /\ ~chan[c].ready
  BY <1>1 DEF Shown, Placed, Idle, WaitedFor, OneFlag
<1>3. form[c].typed \in Seq(Key) /\ <<x>> \in Seq(Key)
  BY <1>1, KeySeqs DEF FormOK, Form
<1>4. InChannel(ich) = form[c].typed
  BY <1>2, <1>3 DEF InChannel
<1>5. InChannel(ich)' = form[c].typed \o <<x>>
  <2>1. chan'[c].ready /\ chan'[c].result.text = form[c].typed /\ chan'[c].result.key = x
    BY <1>1, <1>2 DEF Complete, ChanOK, Chan
  <2>2. form'[c].typed = <<>>
    BY <1>1 DEF Complete, NoForm, FormOK
  <2>3. InChannel(ich)' = <<>> \o Append(form[c].typed, x)
    BY <1>2, <2>1, <2>2 DEF InChannel
  <2>. QED  BY <1>3, <2>3
<1>. QED  BY <1>3, <1>4, <1>5, TimesConcat

(* A step that leaves the channel and the key to be pushed alone and loses *)
(* no key in between.                                                      *)
LEMMA SameKeys ==
  ASSUME UNCHANGED <<processed, prior, buf, queue, nkeys, ich, chan, form>>, Pushed' = Pushed
  PROVE  /\ \A k : Sum(k)' = Sum(k)
         /\ nkeys' = nkeys
<1>1. InChannel(ich)' = InChannel(ich)
  BY DEF InChannel
<1>. QED  BY <1>1 DEF Sum

(* No step of either thread loses or doubles a key.                        *)
LEMMA KeysStep ==
  ASSUME IInv, IInv', KeysOnce, [Next]_vars
  PROVE  KeysOnce'
<1>1. ChanOK /\ KeysOK /\ FormOK /\ RestOK /\ Placed /\ Idle
  BY TypeParts DEF IInv
<1>2. (ChanOK /\ FormOK /\ RestOK /\ Placed /\ Idle)'
  BY TypeParts, PTL DEF IInv
<1>. SUFFICES ASSUME ~stop', NEW k \in Key \ {0}
              PROVE  Sum(k)' = IF k <= nkeys' THEN 1 ELSE 0
  BY DEF KeysOnce
<1>3. ~stop
  BY DEF Next, Interpreter, Keyboard, Answering, Window, EndForm, Closing, vars, GetKey, ReadQueue,
         Want, CheckStop, Request, SpuriousWake, SleepAgain, TakeResult, ProgramEnds, Poll, TypeText,
         EndWithKey, EndWithoutKey, TypeElsewhere, PushKey, Close, RequestStop, StopStage, PushEsc,
         Wait, SeeEnd
<1>4. Sum(k) = IF k <= nkeys THEN 1 ELSE 0
  BY <1>3 DEF KeysOnce
<1>5. /\ Times(processed, k) \in Nat /\ Times(prior, k) \in Nat /\ Times(buf, k) \in Nat
      /\ Times(queue, k) \in Nat /\ Times(Pushed, k) \in Nat /\ Times(InChannel(ich), k) \in Nat
  BY SumType DEF CountsOK
<1>6. /\ Times(processed', k) \in Nat /\ Times(prior', k) \in Nat /\ Times(buf', k) \in Nat
      /\ Times(queue', k) \in Nat /\ Times(Pushed', k) \in Nat /\ Times(InChannel(ich)', k) \in Nat
  <2>1. CountsOK'
    BY SumType, PTL
  <2>. QED  BY <2>1 DEF CountsOK
<1>. USE DEF interpreter, keyboard, window
<1>7. CASE CheckStop \/ SpuriousWake \/ SleepAgain \/ ProgramEnds \/ RequestStop
  BY <1>4, <1>7, SameKeys
  DEF CheckStop, SpuriousWake, SleepAgain, ProgramEnds, RequestStop, Pushed
<1>8. CASE GetKey
  <2>1. UNCHANGED <<queue, nkeys, ich, chan, form>> /\ Pushed' = Pushed /\ InChannel(ich)' = InChannel(ich)
    BY <1>8 DEF GetKey, Pushed, InChannel
  <2>2. CASE prior # <<>>
    <3>1. Head(prior \o buf) = Head(prior)
      BY <1>1, <2>2 DEF KeysOK
    <3>2. Head(prior) \in Key /\ Dealt(Head(prior)) \in Seq(Key)
      BY <1>1, <2>2, KeySeqs, KeyTypes DEF KeysOK
    <3>3. Times(prior, k) = Times(<<Head(prior)>>, k) + Times(prior', k)
      BY <1>1, <1>8, <2>2, TimesHead DEF GetKey, KeysOK
    <3>4. Times(processed', k) = Times(processed, k) + Times(Dealt(Head(prior)), k)
      BY <1>1, <1>8, <3>1, <3>2, TimesConcat DEF GetKey, KeysOK
    <3>5. Times(Dealt(Head(prior)), k) = Times(<<Head(prior)>>, k) /\ Times(<<Head(prior)>>, k) \in Nat
      BY TimesOne
    <3>6. buf' = buf
      BY <1>8, <2>2 DEF GetKey
    <3>. QED  BY <1>4, <1>5, <1>6, <2>1, <3>3, <3>4, <3>5, <3>6 DEF Sum
  <2>3. CASE prior = <<>>
    <3>1. prior \o buf = buf /\ buf # <<>>
      BY <1>1, <1>8, <2>3 DEF KeysOK, GetKey
    <3>2. Head(buf) \in Key /\ Dealt(Head(buf)) \in Seq(Key)
      BY <1>1, <3>1, KeySeqs, KeyTypes DEF KeysOK
    <3>3. Times(buf, k) = Times(<<Head(buf)>>, k) + Times(buf', k)
      BY <1>1, <1>8, <2>3, <3>1, TimesHead DEF GetKey, KeysOK
    <3>4. Times(processed', k) = Times(processed, k) + Times(Dealt(Head(buf)), k)
      BY <1>1, <1>8, <3>1, <3>2, TimesConcat DEF GetKey, KeysOK
    <3>5. Times(Dealt(Head(buf)), k) = Times(<<Head(buf)>>, k) /\ Times(<<Head(buf)>>, k) \in Nat
      BY TimesOne
    <3>6. prior' = prior
      BY <1>8, <2>3 DEF GetKey
    <3>. QED  BY <1>4, <1>5, <1>6, <2>1, <3>3, <3>4, <3>5, <3>6 DEF Sum
  <2>. QED  BY <2>2, <2>3
<1>9. CASE ReadQueue
  <2>1. UNCHANGED <<processed, prior, nkeys, ich, chan, form>> /\ Pushed' = Pushed
        /\ InChannel(ich)' = InChannel(ich)
    BY <1>9 DEF ReadQueue, Pushed, InChannel
  <2>2. buf = <<>> /\ buf' = queue /\ queue' = <<>>
    BY <1>1, <1>3, <1>9 DEF ReadQueue, KeysOK
  <2>. QED  BY <1>4, <1>5, <1>6, <2>1, <2>2, TimesOne DEF Sum
<1>10. ASSUME NEW c \in Channels, Want(c)
       PROVE  Sum(k)' = IF k <= nkeys' THEN 1 ELSE 0
  <2>1. UNCHANGED <<processed, prior, buf, queue, nkeys, chan, form>> /\ Pushed' = Pushed /\ ich' = c
    BY <1>10 DEF Want, Pushed
  <2>2. ~WaitedFor(ich) /\ ~WaitedFor(c) /\ ich \in Channels
    BY <1>1, <1>10 DEF Want, WaitedFor, RestOK
  <2>3. InChannel(ich) = <<>> /\ InChannel(c) = <<>>
    BY <2>2, InChannelType
  <2>4. InChannel(ich)' = InChannel(c)
    BY <2>1 DEF InChannel
  <2>. QED  BY <1>4, <2>1, <2>3, <2>4 DEF Sum
<1>11. CASE Request
  <2>1. UNCHANGED <<processed, prior, buf, queue, nkeys, ich, form>> /\ Pushed' = Pushed
    BY <1>11 DEF Request, Pushed
  <2>2. ~WaitedFor(ich) /\ ich \in Channels
    BY <1>1, <1>11 DEF Request, WaitedFor, RestOK
  <2>3. InChannel(ich) = <<>>
    BY <2>2, InChannelType
  <2>4. form'[ich].typed = <<>> /\ ~chan'[ich].ready
    BY <1>1, <1>11, <2>1, <2>2 DEF Request, Idle, NoForm, ChanOK
  <2>5. InChannel(ich)' = <<>>
    BY <2>1, <2>2, <2>4 DEF InChannel
  <2>. QED  BY <1>4, <2>1, <2>3, <2>5 DEF Sum
<1>12. CASE TakeResult
  <2>. DEFINE t == chan[ich].result.text
              x == chan[ich].result.key
  <2>1. UNCHANGED <<buf, queue, nkeys, ich, form>> /\ Pushed' = Pushed /\ UseResult(chan[ich].result)
    BY <1>12 DEF TakeResult, Pushed
  <2>2. ich \in Channels /\ WaitedFor(ich) /\ chan[ich].ready
    BY <1>1, <1>12 DEF TakeResult, WaitedFor, RestOK
  <2>3. form[ich].typed = <<>>
    BY <1>1, <2>2 DEF Placed, OneFlag, NoForm
  <2>4. t \in Seq(Key) /\ x \in Key /\ <<x>> \in Seq(Key) /\ Dealt(x) \in Seq(Key)
    <3>1. t \in Seq(Key) /\ x \in Key
      BY <1>1, <2>2, RecordTypes DEF ChanOK, Chan
    <3>. HIDE DEF t, x
    <3>. QED  BY <3>1, KeySeqs, KeyTypes
  <2>5. InChannel(ich) = t \o <<x>>
    <3>1. InChannel(ich) = <<>> \o Append(t, x)
      BY <2>2, <2>3 DEF InChannel
    <3>. HIDE DEF t, x
    <3>. QED  BY <2>4, <3>1, KeyBehind
  <2>6. InChannel(ich)' = <<>>
    <3>1. ~chan'[ich].ready
      BY <1>1, <1>12, <2>2 DEF TakeResult, ChanOK, Chan
    <3>. QED  BY <2>1, <2>2, <2>3, <3>1 DEF InChannel
  <2>. HIDE DEF t, x
  <2>7. Times(InChannel(ich), k) = Times(t, k) + Times(<<x>>, k)
    BY <2>4, <2>5, TimesKey
  <2>8. /\ Times(t, k) \in Nat /\ Times(<<x>>, k) \in Nat
        /\ Times(Dealt(x), k) = Times(<<x>>, k)
    BY <2>4, TimesType, TimesOne
  <2>9. CASE ich = "edit"
    <3>1. processed' = processed \o t /\ prior' = <<x>> \o prior
      BY <2>1, <2>9 DEF UseResult, t, x
    <3>2. /\ Times(processed', k) = Times(processed, k) + Times(t, k)
          /\ Times(prior', k) = Times(<<x>>, k) + Times(prior, k)
      BY <1>1, <2>4, <3>1, TimesConcat, TimesKey DEF KeysOK
    <3>3. Times(InChannel(ich)', k) = 0
      BY <2>6, TimesOne
    <3>. QED  BY <1>4, <1>5, <1>6, <2>1, <2>7, <2>8, <3>2, <3>3 DEF Sum
  <2>10. CASE ich # "edit"
    <3>1. processed' = processed \o t \o Dealt(x) /\ prior' = prior
      BY <2>1, <2>10 DEF UseResult, t, x
    <3>2. processed \o t \in Seq(Key)
      BY <1>1, <2>4, KeySeqs DEF KeysOK
    <3>3. Times(processed \o t, k) = Times(processed, k) + Times(t, k)
      BY <1>1, <2>4, TimesConcat DEF KeysOK
    <3>4. Times(processed', k) = Times(processed \o t, k) + Times(Dealt(x), k)
      BY <2>4, <3>1, <3>2, TimesConcat
    <3>5. Times(processed', k) = Times(processed, k) + Times(InChannel(ich), k)
      BY <1>5, <2>7, <2>8, <3>3, <3>4
    <3>6. Times(InChannel(ich)', k) = 0
      BY <2>6, TimesOne
    <3>. QED  BY <1>4, <1>5, <1>6, <2>1, <3>1, <3>5, <3>6 DEF Sum
  <2>. QED  BY <2>9, <2>10
<1>13. ASSUME NEW c \in Channels, Poll(c)
       PROVE  Sum(k)' = IF k <= nkeys' THEN 1 ELSE 0
  <2>1. UNCHANGED <<processed, prior, buf, queue, nkeys, ich>> /\ Pushed' = Pushed
    BY <1>13 DEF Poll, Pushed
  <2>2. c = ich /\ form[c].typed = <<>> /\ ~chan[c].ready
    BY <1>1, <1>13 DEF Poll, Shown, Placed, Idle, WaitedFor, OneFlag, NoForm
  <2>3. form'[c].typed = <<>> /\ ~chan'[c].ready
    BY <1>1, <1>13, <2>2 DEF Poll, ChanOK, Chan, FormOK
  <2>4. InChannel(ich) = <<>> /\ InChannel(ich)' = <<>>
    BY <2>1, <2>2, <2>3 DEF InChannel
  <2>. QED  BY <1>4, <2>1, <2>4 DEF Sum
<1>14. ASSUME NEW c \in Channels, TypeText(c)
       PROVE  Sum(k)' = IF k <= nkeys' THEN 1 ELSE 0
  <2>1. UNCHANGED <<processed, prior, buf, queue, ich, chan>> /\ Pushed' = Pushed /\ nkeys' = nkeys + 1
    BY <1>14 DEF TypeText, Pushed
  <2>2. c = ich /\ chan[c].taken /\ ~chan[c].ready
    BY <1>1, <1>14 DEF TypeText, Shown, Placed, Idle, WaitedFor, OneFlag
  <2>3. form[c].typed \in Seq(Key) /\ nkeys + 1 \in Key /\ <<nkeys + 1>> \in Seq(Key)
    <3>1. nkeys + 1 \in Key
      BY <1>1, <1>14, KeyTypes DEF TypeText, RestOK
    <3>. QED  BY <1>1, <3>1, KeySeqs DEF FormOK, Form
  <2>4. InChannel(ich) = form[c].typed /\ InChannel(ich)' = form[c].typed \o <<nkeys + 1>>
    <3>1. form'[c].typed = Append(form[c].typed, nkeys + 1)
      BY <1>1, <1>14 DEF TypeText, FormOK, Form
    <3>2. InChannel(ich) = form[c].typed \o <<>> /\ InChannel(ich)' = form'[c].typed \o <<>>
      BY <2>1, <2>2 DEF InChannel
    <3>. QED  BY <2>3, <3>1, <3>2
  <2>5. Times(InChannel(ich)', k) = Times(InChannel(ich), k) + Times(<<nkeys + 1>>, k)
    BY <2>3, <2>4, TimesKey
  <2>6. Times(<<nkeys + 1>>, k) = IF nkeys + 1 = k THEN 1 ELSE 0
    BY TimesOne
  <2>. QED  BY <1>1, <1>4, <1>5, <2>1, <2>5, <2>6 DEF Sum, RestOK, Key
<1>15. ASSUME NEW c \in Channels, EndWithKey(c)
       PROVE  Sum(k)' = IF k <= nkeys' THEN 1 ELSE 0
  <2>1. UNCHANGED <<processed, prior, buf, queue, ich>> /\ Pushed' = Pushed /\ nkeys' = nkeys + 1
    BY <1>15 DEF EndWithKey, Pushed
  <2>2. nkeys + 1 \in Key /\ Complete(c, nkeys + 1) /\ Shown(c)
    BY <1>1, <1>15, KeyTypes DEF EndWithKey, RestOK
  <2>3. Times(InChannel(ich)', k) = Times(InChannel(ich), k) + Times(<<nkeys + 1>>, k)
    BY <2>1, <2>2, CompleteTimes
  <2>4. Times(<<nkeys + 1>>, k) = IF nkeys + 1 = k THEN 1 ELSE 0
    BY TimesOne
  <2>. QED  BY <1>1, <1>4, <1>5, <2>1, <2>3, <2>4 DEF Sum, RestOK, Key
<1>16. ASSUME NEW c \in Channels, EndWithoutKey(c)
       PROVE  Sum(k)' = IF k <= nkeys' THEN 1 ELSE 0
  <2>1. UNCHANGED <<processed, prior, buf, queue, ich>> /\ Pushed' = Pushed /\ nkeys' = nkeys
    BY <1>16 DEF EndWithoutKey, Pushed
  <2>2. 0 \in Key /\ Complete(c, 0) /\ Shown(c)
    BY <1>1, <1>16, KeyTypes DEF EndWithoutKey, RestOK
  <2>3. Times(InChannel(ich)', k) = Times(InChannel(ich), k) + Times(<<0>>, k)
    BY <2>1, <2>2, CompleteTimes
  <2>4. Times(<<0>>, k) = IF 0 = k THEN 1 ELSE 0
    BY TimesOne
  <2>. QED  BY <1>1, <1>4, <1>5, <2>1, <2>3, <2>4 DEF Sum, RestOK, Key
<1>17. CASE TypeElsewhere
  <2>1. UNCHANGED <<processed, prior, buf, queue, ich, chan, form>> /\ nkeys' = nkeys + 1
    BY <1>17 DEF TypeElsewhere
  <2>2. InChannel(ich)' = InChannel(ich)
    BY <2>1 DEF InChannel
  <2>3. Pushed = <<>> /\ Pushed' = <<nkeys + 1>>
    BY <1>17 DEF TypeElsewhere, Pushed
  <2>4. Times(Pushed, k) = 0 /\ Times(Pushed', k) = IF nkeys + 1 = k THEN 1 ELSE 0
    BY <2>3, TimesOne
  <2>. QED  BY <1>1, <1>4, <1>5, <2>1, <2>2, <2>4 DEF Sum, RestOK, Key
<1>18. CASE PushKey
  <2>1. UNCHANGED <<processed, prior, buf, nkeys, ich, chan, form>> /\ queue' = Append(queue, nkeys)
    BY <1>18 DEF PushKey
  <2>2. InChannel(ich)' = InChannel(ich)
    BY <2>1 DEF InChannel
  <2>3. Pushed = <<nkeys>> /\ Pushed' = <<>>
    BY <1>18 DEF PushKey, Pushed
  <2>4. nkeys \in Key /\ <<nkeys>> \in Seq(Key) /\ queue' = queue \o <<nkeys>>
    <3>1. nkeys \in Key
      BY <1>1, KeyTypes DEF RestOK
    <3>. QED  BY <1>1, <2>1, <3>1, KeySeqs, KeyBehind DEF KeysOK
  <2>5. Times(queue', k) = Times(queue, k) + Times(Pushed, k)
    BY <1>1, <2>3, <2>4, TimesConcat DEF KeysOK
  <2>6. Times(Pushed', k) = 0
    BY <2>3, TimesOne
  <2>. QED  BY <1>4, <1>5, <2>1, <2>2, <2>5, <2>6 DEF Sum
<1>19. CASE Close
  <2>1. UNCHANGED <<processed, prior, buf, queue, nkeys, ich>> /\ Pushed' = Pushed
    BY <1>19 DEF Close, Pushed
  <2>2. CASE "edit" \in Channels /\ Shown("edit")
    <3>1. 0 \in Key /\ Complete("edit", 0)
      BY <1>19, <2>2, KeyTypes DEF Close
    <3>2. Times(InChannel(ich)', k) = Times(InChannel(ich), k) + Times(<<0>>, k)
      BY <2>1, <2>2, <3>1, CompleteTimes
    <3>3. Times(<<0>>, k) = 0
      BY TimesOne
    <3>. QED  BY <1>4, <1>5, <2>1, <3>2, <3>3 DEF Sum
  <2>3. CASE ~("edit" \in Channels /\ Shown("edit"))
    BY <1>4, <1>19, <2>1, <2>3, SameKeys DEF Close
  <2>. QED  BY <2>2, <2>3
<1>20. CASE (\E i \in DOMAIN StopPhases : StopStage(i)) \/ PushEsc \/ Wait
  <2>1. hpc \in {"edit", "text", "print", "wake", "wait"}
    BY <1>20, Phases DEF StopStage, PushEsc, Wait
  <2>. QED  BY <1>3, <2>1 DEF IInv, StopSet
<1>21. CASE SeeEnd
  <2>1. form' = form
    BY <1>1, <1>21 DEF SeeEnd, running, Idle, WaitedFor, FormOK
  <2>. QED  BY <1>4, <1>21, <2>1, SameKeys DEF SeeEnd, Pushed
<1>22. CASE UNCHANGED vars
  BY <1>4, <1>22, SameKeys DEF vars, Pushed
<1>. QED
  BY <1>7, <1>8, <1>9, <1>10, <1>11, <1>12, <1>13, <1>14, <1>15, <1>16, <1>17, <1>18, <1>19, <1>20,
     <1>21, <1>22
  DEF Next, Interpreter, Keyboard, Answering, Window, EndForm, Closing

(* Nothing was typed when the window opens.                                *)
LEMMA KeysInit == Init => KeysOnce
<1>. SUFFICES ASSUME Init, NEW k \in Key \ {0} PROVE Sum(k) = 0 /\ ~(k <= nkeys)
  BY DEF KeysOnce
<1>1. Pushed = <<>> /\ processed = <<>> /\ prior = <<>> /\ buf = <<>> /\ queue = <<>>
  BY DEF Init, Pushed
<1>2. InChannel(ich) = <<>>
  BY DEF Init, InChannel, NoForm
<1>3. ~(k <= nkeys)
  BY HostEditAssumption DEF Init, Key
<1>. QED  BY <1>1, <1>2, <1>3, TimesOne DEF Sum

(***************************************************************************)
(* The theorems.                                                           *)
(***************************************************************************)

(* In every reachable state the inductive invariant holds, for any set of  *)
(* channels and any numbers of keys and requests.                          *)
THEOREM Invariance == Spec => []IInv
BY InitInv, NextInv, PTL DEF Spec

(* The variables of both threads keep their types.                         *)
THEOREM TypeCorrect == Spec => []TypeOK
<1>1. IInv => TypeOK
  BY DEF IInv
<1>. QED  BY <1>1, Invariance, PTL

(* Every answer the interpreter takes is the one for the request it made,  *)
(* or the Esc of a stop, however the steps of the two threads, the         *)
(* wake-ups and the stop interleave.                                       *)
THEOREM AnswerCorrect == Spec => []AnswersItsRequest
<1>1. IInv => AnswersItsRequest
  BY DEF IInv
<1>. QED  BY <1>1, Invariance, PTL

(* The flags of a record that are set are one in number exactly when one   *)
(* is set and no other.                                                    *)
LEMMA CountFlags ==
  ASSUME NEW c \in Channels, OneFlag(c)
  PROVE  Cardinality({p \in {"pending", "taken", "ready"} : chan[c][p]}) = 1
<1>1. \/ {p \in {"pending", "taken", "ready"} : chan[c][p]} = {"pending"}
      \/ {p \in {"pending", "taken", "ready"} : chan[c][p]} = {"taken"}
      \/ {p \in {"pending", "taken", "ready"} : chan[c][p]} = {"ready"}
  BY DEF OneFlag
<1>. QED  BY <1>1, FS_Singleton

(* A request that is waited for is in exactly one place, and nothing of it *)
(* is left, neither a flag nor a form, when it is not: a request is never  *)
(* polled twice and never answered for nobody.                             *)
THEOREM OnePlace == Spec => []RequestInOnePlace
<1>1. IInv => RequestInOnePlace
  BY CountFlags DEF IInv, RequestInOnePlace, Placed, Idle, WaitedFor, Shown
<1>. QED  BY <1>1, Invariance, PTL

(* Until a stop every key the user has typed is in exactly one place: with *)
(* the interpreter, in its buffers, in the queue of the window, in a form  *)
(* or in an answer; none is lost, none comes twice and none comes from     *)
(* nowhere, however the two threads interleave.                            *)
THEOREM KeysKept == Spec => []EveryKeyOnce
<1>1. Init => IInv /\ KeysOnce
  BY InitInv, KeysInit
<1>2. (IInv /\ KeysOnce) /\ [Next]_vars => (IInv /\ KeysOnce)'
  <2>. SUFFICES ASSUME IInv, KeysOnce, [Next]_vars PROVE IInv' /\ KeysOnce'
    OBVIOUS
  <2>1. IInv'
    BY NextInv
  <2>. QED  BY <2>1, KeysStep
<1>3. IInv /\ KeysOnce => EveryKeyOnce
  BY OnceIsOnce
<1>. QED  BY <1>1, <1>2, <1>3, PTL DEF Spec

=============================================================================
