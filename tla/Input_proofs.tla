---------------------------- MODULE Input_proofs ----------------------------
(***************************************************************************)
(* What Input promises, for every number of keys, every size of the buffer *)
(* and every depth of nested frames.                                       *)
(***************************************************************************)
EXTENDS Input, SequenceTheorems, WellFoundedInduction, TLAPS

(* The innermost frame.                                                    *)
LEMMA TopType ==
  ASSUME frame \in Seq(Activations), frame # <<>>
  PROVE  Top \in Activations /\ Len(frame) \in Nat \ {0}
  <1>1. Len(frame) \in Nat \ {0} BY EmptySeq
  <1>2. frame[Len(frame)] \in Activations BY <1>1, ElementOfSeq
  <1> QED BY <1>1, <1>2 DEF Top

(* What is left of a sequence without its last element.                   *)
LEMMA FrontType ==
  ASSUME NEW S, NEW s \in Seq(S), Len(s) \in Nat \ {0}
  PROVE  SubSeq(s, 1, Len(s) - 1) \in Seq(S) /\ Len(SubSeq(s, 1, Len(s) - 1)) = Len(s) - 1
  <1> DEFINE m == Len(s) - 1
  <1>1. m \in Nat /\ \A j \in 1 .. m : s[j] \in S
    OBVIOUS
  <1> HIDE DEF m
  <1>2. /\ SubSeq(s, 1, m) \in Seq(S)
        /\ Len(SubSeq(s, 1, m)) = IF 1 <= m THEN m - 1 + 1 ELSE 0
    BY <1>1, SubSeqProperties
  <1>3. Len(SubSeq(s, 1, m)) = m
    BY <1>1, <1>2
  <1> QED BY <1>2, <1>3 DEF m

LEMMA SetTopType ==
  ASSUME frame \in Seq(Activations), frame # <<>>, NEW a \in Activations
  PROVE  SetTop(a) \in Seq(Activations) /\ Len(SetTop(a)) = Len(frame)
  BY DEF SetTop

LEMMA CappedType ==
  ASSUME NEW n \in BufferSizes
  PROVE  Capped(n) \in 0 .. MaxSize
  BY InputAssumption DEF Capped

LEMMA AddEventType ==
  ASSUME TypeOK, NEW e \in Events, AddEvent(e)
  PROVE  /\ size' = size /\ startOffset' = startOffset
         /\ used' \in 0 .. size /\ data' \in [0 .. size - 1 -> Events]
         /\ overflowed' \in BOOLEAN /\ event' \in {"none", "unset", "set"}
  <1>1. CASE IsFull BY <1>1 DEF TypeOK, AddEvent, Signalled
  <1>2. CASE ~IsFull
    <2>1. used \in 0 .. size - 1 /\ used + 1 \in 0 .. size
      BY <1>2, InputAssumption DEF TypeOK, IsFull
    <2>2. used' = used + 1 /\ data' = [data EXCEPT ![SlotOf(used)] = e]
      BY <1>2 DEF AddEvent
    <2>3. data' \in [0 .. size - 1 -> Events] BY <2>2 DEF TypeOK
    <2> QED BY <1>2, <2>1, <2>2, <2>3 DEF TypeOK, AddEvent, Signalled
  <1> QED BY <1>1, <1>2

LEMMA GetDataType ==
  ASSUME TypeOK, NEW count \in 0 .. used, GetData(count)
  PROVE  /\ size' = size /\ data' = data
         /\ used' \in 0 .. size /\ startOffset' \in Nat
         /\ overflowed' \in BOOLEAN /\ event' \in {"none", "unset", "set"}
  BY DEF TypeOK, GetData, Remaining, SignalledAgain

LEMMA ResizeType ==
  ASSUME TypeOK, NEW n \in 0 .. MaxSize, NEW junk \in Events, Resize(n, junk)
  PROVE  /\ size' = n /\ used' \in 0 .. n /\ startOffset' \in Nat
         /\ data' \in [0 .. n - 1 -> Events]
         /\ overflowed' \in BOOLEAN /\ event' \in {"none", "unset", "set"}
  BY InputAssumption DEF TypeOK, Resize

LEMMA AsyncType ==
  ASSUME TypeOK, NEW k \in Keys, NEW isPrimary \in BOOLEAN, GetAsyncKeyState(k, isPrimary)
  PROVE  /\ asynckeybit' \in [Keys -> 0 .. ToggleCalls]
         /\ requests' \in 0 .. Limit + Window
         /\ game' \in Games
  <1>1. NextBit(k) \in 0 .. ToggleCalls BY InputAssumption DEF TypeOK, NextBit
  <1>2. requests' \in 0 .. Limit + Window 
    <2>1. Limit + Window \in Nat BY InputAssumption
    <2> QED BY <2>1 DEF TypeOK, GetAsyncKeyState
  <1>3. asynckeybit' \in [Keys -> 0 .. ToggleCalls] BY <1>1 DEF TypeOK, GetAsyncKeyState
  <1>4. game' \in Games
    BY DEF TypeOK, GetAsyncKeyState, Games
  <1> QED BY <1>2, <1>3, <1>4

LEMMA InitType == Init => TypeOK
  <1> SUFFICES ASSUME Init PROVE TypeOK
    OBVIOUS
  <1>1. NoInput \in Inputs BY DEF NoInput, Inputs
  <1>2. game \in Games BY DEF Init, Games
  <1>3. frame \in Seq(Activations) /\ Len(frame) <= MaxDepth BY InputAssumption, EmptySeq DEF Init
  <1>4. data \in [0 .. size - 1 -> Events] BY DEF Init
  <1>5. asynckeybit \in [Keys -> 0 .. ToggleCalls] /\ requests \in 0 .. Limit + Window
    BY InputAssumption DEF Init
  <1>6. size \in 0 .. MaxSize /\ used \in 0 .. size /\ startOffset \in Nat
    BY InputAssumption DEF Init
  <1>7. frames \in 0 .. MaxFrames /\ polls \in 0 .. MaxPolls BY InputAssumption DEF Init
  <1> QED BY <1>1, <1>2, <1>3, <1>4, <1>5, <1>6, <1>7 DEF Init, TypeOK

LEMMA HeldType == ASSUME NEW count PROVE HeldAfter(count) \subseteq Keys
  BY DEF HeldAfter

LEMMA NextType == TypeOK /\ [Next]_vars => TypeOK'
  <1> SUFFICES ASSUME TypeOK, [Next]_vars PROVE TypeOK'
    OBVIOUS
  <1> USE InputAssumption
  <1>1. ASSUME NEW i \in Inputs, FrameBoundary(i) PROVE TypeOK'
    <2>1. [at |-> "ProcessFrameInput", key |-> 1, inHandler |-> FALSE] \in Activations
      BY DEF Activations
    <2>2. frame' \in Seq(Activations) /\ Len(frame') <= MaxDepth
      BY <1>1, <2>1 DEF FrameBoundary, TypeOK
    <2>3. game' \in Games BY <1>1 DEF FrameBoundary, TypeOK, Games
    <2>4. frames' \in 0 .. MaxFrames /\ previnput' \in Inputs /\ curinput' \in Inputs
      <3>1. frames \in 0 .. MaxFrames /\ frames < MaxFrames /\ frames' = frames + 1 /\ MaxFrames \in Nat
        BY <1>1 DEF FrameBoundary, TypeOK
      <3>2. frames' \in 0 .. MaxFrames BY <3>1
      <3>3. previnput' \in Inputs /\ curinput' \in Inputs BY <1>1 DEF FrameBoundary, TypeOK
      <3> QED BY <3>2, <3>3
    <2> QED BY <1>1, <2>2, <2>3, <2>4 DEF FrameBoundary, TypeOK, buffer, loop
  <1>2. CASE ProcessKey
    <2>1. Top \in Activations /\ frame # <<>> BY <1>2, TopType DEF ProcessKey, InFrame, TypeOK
    <2>k. Top.key + 1 \in 1 .. LastKey + 1 BY <1>2, InputAssumption DEF ProcessKey, Keys
    <2>2. [Top EXCEPT !.key = @ + 1] \in Activations BY <2>1, <2>k DEF Activations
    <2>3. frame' \in Seq(Activations) /\ Len(frame') <= MaxDepth
      BY <1>2, <2>1, <2>2, SetTopType DEF ProcessKey, TypeOK
    <2>4. CASE Changed(Top.key)
      <3>1. KeyEvent(Top.key) \in Events /\ AddEvent(KeyEvent(Top.key)) /\ Top.key \in Keys
        BY <1>2, <2>4 DEF ProcessKey, KeyEvent, Events
      <3>2. KeyBit(Top.key) \in 0 .. ToggleCalls BY DEF KeyBit
      <3>3. asynckeybit' \in [Keys -> 0 .. ToggleCalls]
        BY <1>2, <2>4, <3>1, <3>2 DEF ProcessKey, TypeOK
      <3>4. game' \in Games
        <4>1. game.fresh \cup {Top.key} \in SUBSET Keys /\ game.fresh \in SUBSET Keys
          BY <3>1 DEF TypeOK, Games
        <4> DEFINE new == IF KeyEvent(Top.key).pressed THEN game.fresh \cup {Top.key} ELSE game.fresh
        <4>2. new \in SUBSET Keys BY <4>1
        <4>3. game' = [game EXCEPT !.fresh = new] BY <1>2, <2>4 DEF ProcessKey
        <4> HIDE DEF new
        <4> QED BY <4>2, <4>3 DEF TypeOK, Games
      <3> QED BY <1>2, <2>3, <3>1, <3>3, <3>4, AddEventType DEF ProcessKey, TypeOK, loop
    <2>5. CASE ~Changed(Top.key)
      BY <1>2, <2>3, <2>5 DEF ProcessKey, TypeOK, buffer, loop
    <2> QED BY <2>4, <2>5
  <1>3. CASE ProcessMouse
    <2> DEFINE first == [at |-> "messages", key |-> 1, inHandler |-> FALSE]
    <2>4. first \in Activations BY DEF Activations
    <2>5. frame \in Seq(Activations) /\ frame # <<>> /\ frame' = SetTop(first)
      BY <1>3 DEF ProcessMouse, InFrame, TypeOK
    <2>1. frame' \in Seq(Activations) /\ Len(frame') <= MaxDepth
      <3> HIDE DEF first
      <3> QED BY <2>4, <2>5, SetTopType DEF TypeOK
    <2>2. CASE curinput.moved
      <3>1. [ofs |-> Mouse, pressed |-> TRUE] \in Events /\ AddEvent([ofs |-> Mouse, pressed |-> TRUE])
        BY <1>3, <2>2 DEF ProcessMouse, Events
      <3> QED BY <1>3, <2>1, <3>1, AddEventType DEF ProcessMouse, TypeOK, loop, input
    <2>3. CASE ~curinput.moved
      BY <1>3, <2>1, <2>3 DEF ProcessMouse, TypeOK, buffer, loop, input
    <2> QED BY <2>2, <2>3
  <1>4. CASE SendMessages
    <2>1. Top \in Activations /\ frame # <<>> BY <1>4, TopType DEF SendMessages, InFrame, TypeOK
    <2> DEFINE sends == Changed(Top.key)
    <2>2. sends \in BOOLEAN BY DEF Changed
    <2>6. Top.key + 1 \in 1 .. LastKey + 1 BY <1>4 DEF SendMessages, Keys
    <2>3. [Top EXCEPT !.key = @ + 1, !.inHandler = sends] \in Activations
      <3> HIDE DEF sends
      <3> QED BY <2>1, <2>2, <2>6 DEF Activations
    <2>4. frame' \in Seq(Activations) /\ Len(frame') <= MaxDepth
      BY <1>4, <2>1, <2>3, SetTopType DEF SendMessages, TypeOK
    <2>5. game' \in Games BY <1>4, <2>1 DEF SendMessages, TypeOK, Games
    <2> QED BY <1>4, <2>4, <2>5 DEF SendMessages, TypeOK, buffer, loop, input
  <1>5. CASE HandlerReturns
    <2>1. Top \in Activations /\ frame # <<>> BY <1>5, TopType DEF HandlerReturns, TypeOK
    <2>2. [Top EXCEPT !.inHandler = FALSE] \in Activations BY <2>1 DEF Activations
    <2>3. frame' \in Seq(Activations) /\ Len(frame') <= MaxDepth
      BY <1>5, <2>1, <2>2, SetTopType DEF HandlerReturns, TypeOK
    <2> QED BY <1>5, <2>3 DEF HandlerReturns, TypeOK, buffer, loop, input
  <1>6. CASE ExitFrameBoundary
    <2>1. Len(frame) \in Nat \ {0} BY <1>6, EmptySeq DEF ExitFrameBoundary, InFrame, TypeOK
    <2>2. frame' \in Seq(Activations) /\ Len(frame') <= MaxDepth
      <3>2. frame' = SubSeq(frame, 1, Len(frame) - 1) BY <1>6 DEF ExitFrameBoundary
      <3>3. frame \in Seq(Activations) /\ Len(frame) <= MaxDepth /\ MaxDepth \in Nat
        BY InputAssumption DEF TypeOK
      <3>4. frame' \in Seq(Activations) /\ Len(frame') = Len(frame) - 1
        BY <2>1, <3>2, <3>3, FrontType
      <3> QED BY <2>1, <3>3, <3>4
    <2> QED BY <1>6, <2>2 DEF ExitFrameBoundary, TypeOK, buffer, input
  <1>7. ASSUME NEW k \in Keys, NEW isPrimary \in BOOLEAN, Poll(k, isPrimary) PROVE TypeOK'
    <2>1. GetAsyncKeyState(k, isPrimary) /\ spin' = spin /\ polls' \in 0 .. MaxPolls
      BY <1>7 DEF Poll, TypeOK
    <2> QED BY <2>1, AsyncType DEF GetAsyncKeyState, TypeOK, buffer
  <1>8. ASSUME NEW k \in Keys, StartSpin(k) PROVE TypeOK'
    BY <1>8 DEF StartSpin, TypeOK, buffer, input
  <1>9. CASE Spin
    <2>1. spin \in Keys /\ GetAsyncKeyState(spin, TRUE) BY <1>9 DEF Spin, TypeOK
    <2> QED BY <1>9, <2>1, AsyncType DEF Spin, GetAsyncKeyState, TypeOK, buffer
  <1>10. ASSUME NEW n \in BufferSizes, NEW junk \in JunkEvents, SetBufferSize(n, junk) PROVE TypeOK'
    <2>1. CASE Capped(n) = size BY <1>10, <2>1 DEF SetBufferSize, TypeOK, buffer, input, loop
    <2>2. CASE Capped(n) # size
      <3>1. junk \in Events /\ Resize(Capped(n), junk)
        BY <1>10, <2>2 DEF SetBufferSize, Events, Mouse
      <3>2. game' \in Games BY <1>10, <2>2 DEF SetBufferSize, TypeOK, Games
      <3> QED BY <1>10, <2>2, <3>1, <3>2, CappedType, ResizeType DEF SetBufferSize, TypeOK, input, loop
    <2> QED BY <2>1, <2>2
  <1>11. ASSUME NEW value \in BOOLEAN, SetAcquired(value) PROVE TypeOK'
    BY <1>11 DEF SetAcquired, TypeOK, buffer, input, loop
  <1>12. CASE SetEventNotification
    <2>1. game' \in Games BY <1>12 DEF SetEventNotification, TypeOK, Games
    <2> QED BY <1>12, <2>1 DEF SetEventNotification, TypeOK, input, loop
  <1>13. CASE WaitForEvent
    <2>1. game' \in Games BY <1>13 DEF WaitForEvent, TypeOK, Games
    <2> QED BY <1>13, <2>1 DEF WaitForEvent, TypeOK, input, loop
  <1>14. ASSUME NEW n \in 0 .. MaxSize, GetDeviceData(n) PROVE TypeOK'
    <2>1. Retrieved(n) \in 0 .. used BY DEF Retrieved, TypeOK
    <2>2. game' \in Games BY <1>14, <2>1, HeldType DEF GetDeviceData, TypeOK, Games
    <2> QED BY <1>14, <2>1, <2>2, GetDataType DEF GetDeviceData, TypeOK, input, loop
  <1>15. CASE Recover
    <2>1. used \in 0 .. used BY DEF TypeOK
    <2>3. curinput.keys \in SUBSET Keys BY DEF TypeOK, Inputs
    <2>2. game' \in Games BY <1>15, <2>3 DEF Recover, TypeOK, Games
    <2> QED BY <1>15, <2>1, <2>2, GetDataType DEF Recover, TypeOK, input, loop
  <1>16. CASE UNCHANGED vars
    BY <1>16 DEF vars, TypeOK
  <1> QED BY <1>1, <1>2, <1>3, <1>4, <1>5, <1>6, <1>7, <1>8, <1>9, <1>10, <1>11, <1>12, <1>13,
             <1>14, <1>15, <1>16 DEF Next

(* Every state is well typed.                                              *)
THEOREM TypeCorrect == Spec => []TypeOK
  <1>1. Init => TypeOK BY InitType
  <1>2. TypeOK /\ [Next]_vars => TypeOK' BY NextType
  <1> QED BY <1>1, <1>2, PTL DEF Spec

-----------------------------------------------------------------------------
(* Steps by what they leave alone, for invariants about a part.            *)
SlotSteps ==
  \/ \E i \in Inputs : FrameBoundary(i)
  \/ SendMessages \/ HandlerReturns \/ ExitFrameBoundary
  \/ \E k \in Keys, isPrimary \in BOOLEAN : Poll(k, isPrimary)
  \/ \E k \in Keys : StartSpin(k)
  \/ Spin
  \/ \E value \in BOOLEAN : SetAcquired(value)
  \/ UNCHANGED vars
LEMMA SlotStepsKeep ==
  ASSUME TypeOK, SlotSteps
  PROVE  /\ UNCHANGED buffer
         /\ game'.armed = game.armed /\ game'.woken = game.woken /\ game'.known = game.known
         /\ game'.told = game.told /\ game'.garbled = game.garbled
  <1>1. ASSUME NEW i \in Inputs, FrameBoundary(i)
        PROVE UNCHANGED <<buffer, game>>
    BY <1>1 DEF FrameBoundary, buffer
  <1>2. CASE SendMessages BY <1>2 DEF SendMessages
  <1>3. ASSUME NEW k, NEW isPrimary, GetAsyncKeyState(k, isPrimary)
        PROVE  /\ UNCHANGED buffer
               /\ game' = game \/ game' = [game EXCEPT !.fresh = @ \ {k}]
    BY <1>3 DEF GetAsyncKeyState
  <1>4. CASE HandlerReturns \/ ExitFrameBoundary \/ UNCHANGED vars
    BY <1>4 DEF HandlerReturns, ExitFrameBoundary, vars, buffer
  <1>5. CASE \E k \in Keys : StartSpin(k) BY <1>5 DEF StartSpin
  <1>6. CASE \E value \in BOOLEAN : SetAcquired(value) BY <1>6 DEF SetAcquired
  <1>7. CASE Spin BY <1>7, <1>3 DEF Spin, TypeOK, Games
  <1>8. CASE \E k \in Keys, isPrimary \in BOOLEAN : Poll(k, isPrimary)
    BY <1>8, <1>3 DEF Poll, TypeOK, Games
  <1>9. CASE \E i \in Inputs : FrameBoundary(i) BY <1>9, <1>1 DEF TypeOK, Games
  <1> QED BY <1>2, <1>4, <1>5, <1>6, <1>7, <1>8, <1>9 DEF SlotSteps

LEMMA ProcessSteps ==
  ASSUME TypeOK, ProcessKey \/ ProcessMouse
  PROVE  /\ UNCHANGED buffer \/ \E e \in Events : AddEvent(e)
         /\ game'.armed = game.armed /\ game'.woken = game.woken /\ game'.known = game.known
         /\ game'.told = game.told /\ game'.garbled = game.garbled
  <1>1. CASE ProcessMouse BY <1>1 DEF ProcessMouse, Events
  <1>2. CASE ProcessKey
    <2>1. UNCHANGED buffer \/ \E e \in Events : AddEvent(e)
      BY <1>2 DEF ProcessKey, KeyEvent, Events
    <2> DEFINE new == IF KeyEvent(Top.key).pressed THEN game.fresh \cup {Top.key} ELSE game.fresh
    <2>2. game' = game \/ game' = [game EXCEPT !.fresh = new] BY <1>2 DEF ProcessKey
    <2> HIDE DEF new
    <2> QED BY <2>1, <2>2 DEF TypeOK, Games
  <1> QED BY <1>1, <1>2

DeviceSteps ==
  \/ \E n \in BufferSizes, junk \in JunkEvents : SetBufferSize(n, junk)
  \/ SetEventNotification \/ WaitForEvent
  \/ \E n \in 0 .. MaxSize : GetDeviceData(n)
  \/ Recover
LEMMA NextSplit ==
  [Next]_vars => SlotSteps \/ ProcessKey \/ ProcessMouse \/ DeviceSteps
  BY DEF Next, SlotSteps, DeviceSteps

-----------------------------------------------------------------------------
(* A signal is never missed: an event is only left unset by the game that  *)
(* is about to read.                                                       *)
EventInv == (game.armed => event # "none") /\ EventMeansData

LEMMA EventStep == TypeOK /\ EventInv /\ [Next]_vars => EventInv'
  <1> SUFFICES ASSUME TypeOK, EventInv, [Next]_vars PROVE EventInv'
    OBVIOUS
  <1> USE DEF EventInv, EventMeansData
  <1>1. CASE SlotSteps BY <1>1, SlotStepsKeep DEF buffer
  <1>2. CASE ProcessKey \/ ProcessMouse
    <2>1. CASE UNCHANGED buffer BY <1>2, <2>1, ProcessSteps DEF buffer
    <2>2. CASE \E e \in Events : AddEvent(e)
      BY <1>2, <2>2, ProcessSteps DEF AddEvent, Signalled
    <2> QED BY <1>2, <2>1, <2>2, ProcessSteps
  <1>3. ASSUME NEW n \in BufferSizes, NEW junk \in JunkEvents, SetBufferSize(n, junk)
        PROVE  EventInv'
    <2>1. used' > 0 => used > 0
      <3>1. used' = used \/ (used > Capped(n) /\ used' = Capped(n))
        BY <1>3 DEF SetBufferSize, Resize, buffer
      <3>2. used \in Nat /\ Capped(n) \in Nat BY CappedType, InputAssumption DEF TypeOK
      <3> QED BY <3>1, <3>2
    <2>2. event' = event BY <1>3 DEF SetBufferSize, Resize, buffer
    <2>3. game'.armed = game.armed /\ game'.woken = game.woken
      BY <1>3 DEF SetBufferSize, TypeOK, Games
    <2> QED BY <2>1, <2>2, <2>3
  <1>4. CASE SetEventNotification
    BY <1>4 DEF SetEventNotification, TypeOK, Games
  <1>5. CASE WaitForEvent
    BY <1>5 DEF WaitForEvent, TypeOK, Games
  <1>6. ASSUME NEW n \in 0 .. MaxSize, GetDeviceData(n) PROVE EventInv'
    <2>1. /\ used' = used - Retrieved(n)
          /\ event' = SignalledAgain(Retrieved(n))
          /\ game'.armed = game.armed /\ game'.woken = (game.woken /\ n = 0)
      BY <1>6 DEF GetDeviceData, GetData, Remaining, TypeOK, Games
    <2>2. n > 0 /\ used' > 0 => Retrieved(n) > 0 BY <2>1, InputAssumption DEF Retrieved, TypeOK
    <2>3. n = 0 => used' = used BY <2>1, InputAssumption DEF Retrieved, TypeOK
    <2>4. n \in Nat BY InputAssumption
    <2>5. CASE n = 0 BY <2>1, <2>3, <2>5 DEF SignalledAgain
    <2>6. CASE n > 0 BY <2>1, <2>2, <2>6 DEF SignalledAgain, Remaining
    <2> QED BY <2>4, <2>5, <2>6
  <1>7. CASE Recover
    <2>1. used' = 0 BY <1>7 DEF Recover, GetData, Remaining, TypeOK
    <2>2. game'.armed = game.armed /\ (event # "none" => event' # "none")
      BY <1>7 DEF Recover, GetData, SignalledAgain, TypeOK, Games
    <2> QED BY <2>1, <2>2
  <1> QED BY <1>1, <1>2, <1>3, <1>4, <1>5, <1>6, <1>7, NextSplit DEF DeviceSteps

(* A game that reads each time the event is signalled is never left with   *)
(* events it does not know of.                                             *)
THEOREM NoSignalMissed == Spec => []EventMeansData
  <1>1. Init => EventInv BY DEF Init, EventInv, EventMeansData
  <1>2. EventInv => EventMeansData BY DEF EventInv
  <1> QED BY <1>1, <1>2, EventStep, TypeCorrect, PTL DEF Spec

-----------------------------------------------------------------------------
(* The bit of a key is 1 only between its press and the answer.            *)
FreshInv ==
  /\ \A k \in Keys : asynckeybit[k] = 1 => k \in game.fresh
  /\ \A k \in Keys \ ToggleKeys : asynckeybit[k] \in {0, 1}

LEMMA AsyncFresh ==
  ASSUME TypeOK, FreshInv, NEW k \in Keys, NEW isPrimary \in BOOLEAN, GetAsyncKeyState(k, isPrimary)
  PROVE  FreshInv'
  <1>1. CASE asynckeybit' = asynckeybit /\ game' = game BY <1>1 DEF FreshInv
  <1>2. CASE /\ asynckeybit' = [asynckeybit EXCEPT ![k] = NextBit(k)]
             /\ game' = [game EXCEPT !.fresh = @ \ {k}]
    <2>1. asynckeybit[k] \in Nat BY InputAssumption DEF TypeOK
    <2>2. NextBit(k) # 1 /\ (k \notin ToggleKeys => NextBit(k) = 0) BY <2>1 DEF NextBit
    <2>3. game'.fresh = game.fresh \ {k} BY <1>2 DEF TypeOK, Games
    <2> QED BY <1>2, <2>2, <2>3 DEF FreshInv, TypeOK
  <1> QED BY <1>1, <1>2 DEF GetAsyncKeyState

LEMMA FreshStep == TypeOK /\ FreshInv /\ [Next]_vars => FreshInv'
  <1> SUFFICES ASSUME TypeOK, FreshInv, [Next]_vars PROVE FreshInv'
    OBVIOUS
  <1>1. ASSUME asynckeybit' = asynckeybit, game'.fresh = game.fresh PROVE FreshInv'
    BY <1>1 DEF FreshInv
  <1>2. CASE \E i \in Inputs : FrameBoundary(i)
    BY <1>2, <1>1 DEF FrameBoundary, TypeOK, Games
  <1>3. CASE ProcessKey
    <2>1. CASE Changed(Top.key)
      <3>1. /\ asynckeybit' = [asynckeybit EXCEPT ![Top.key] = KeyBit(Top.key)]
            /\ Top.key \in Keys
        BY <1>3, <2>1 DEF ProcessKey
      <3>2. CASE KeyEvent(Top.key).pressed
        <4>1. game'.fresh = game.fresh \cup {Top.key}
          BY <1>3, <2>1, <3>2 DEF ProcessKey, TypeOK, Games
        <4>2. KeyBit(Top.key) \in {0, 1} BY DEF KeyBit
        <4> QED BY <3>1, <4>1, <4>2 DEF FreshInv, TypeOK
      <3>3. CASE ~KeyEvent(Top.key).pressed
        <4>1. game'.fresh = game.fresh
          BY <1>3, <2>1, <3>3 DEF ProcessKey, TypeOK, Games
        <4>2. KeyBit(Top.key) = 0 BY <3>3 DEF KeyBit, KeyEvent
        <4> QED BY <3>1, <4>1, <4>2 DEF FreshInv, TypeOK
      <3> QED BY <3>2, <3>3
    <2>2. CASE ~Changed(Top.key) BY <1>3, <2>2, <1>1 DEF ProcessKey
    <2> QED BY <2>1, <2>2
  <1>4. CASE ProcessMouse BY <1>4, <1>1 DEF ProcessMouse, input
  <1>5. CASE SendMessages BY <1>5, <1>1 DEF SendMessages, input
  <1>6. CASE HandlerReturns BY <1>6, <1>1 DEF HandlerReturns, input
  <1>7. CASE ExitFrameBoundary BY <1>7, <1>1 DEF ExitFrameBoundary, input
  <1>8. CASE \E k \in Keys, isPrimary \in BOOLEAN : Poll(k, isPrimary)
    BY <1>8, AsyncFresh DEF Poll
  <1>9. CASE \E k \in Keys : StartSpin(k) BY <1>9, <1>1 DEF StartSpin, input
  <1>10. CASE Spin
    <2>1. spin \in Keys /\ GetAsyncKeyState(spin, TRUE) BY <1>10 DEF Spin, TypeOK
    <2> QED BY <2>1, AsyncFresh
  <1>11. CASE \E value \in BOOLEAN : SetAcquired(value) BY <1>11, <1>1 DEF SetAcquired, input
  <1>12. CASE DeviceSteps
    <2>1. CASE \E n \in BufferSizes, junk \in JunkEvents : SetBufferSize(n, junk)
      BY <1>1, <2>1 DEF SetBufferSize, input, TypeOK, Games
    <2>2. CASE SetEventNotification BY <1>1, <2>2 DEF SetEventNotification, input, TypeOK, Games
    <2>3. CASE WaitForEvent BY <1>1, <2>3 DEF WaitForEvent, input, TypeOK, Games
    <2>4. CASE \E n \in 0 .. MaxSize : GetDeviceData(n)
      BY <1>1, <2>4 DEF GetDeviceData, input, TypeOK, Games
    <2>5. CASE Recover BY <1>1, <2>5 DEF Recover, input, TypeOK, Games
    <2> QED BY <1>12, <2>1, <2>2, <2>3, <2>4, <2>5 DEF DeviceSteps
  <1>13. CASE UNCHANGED vars BY <1>13, <1>1 DEF vars
  <1> QED BY <1>2, <1>3, <1>4, <1>5, <1>6, <1>7, <1>8, <1>9, <1>10, <1>11, <1>12, <1>13
          DEF Next, DeviceSteps

LEMMA JustPressedIsFresh ==
  ASSUME TypeOK, FreshInv, NEW k \in Keys, AsyncValue(k) = "just pressed"
  PROVE  k \in game.fresh
  BY DEF FreshInv, AsyncValue, TypeOK

(* A key is reported as just pressed at most once for each press.          *)
THEOREM PressReportedOnce == Spec => JustPressedOnce
  <1>1. Init => FreshInv BY DEF Init, FreshInv
  <1>2. TypeOK /\ FreshInv =>
          [\A k \in Keys : /\ Poll(k, TRUE) \/ (spin = k /\ Spin)
                           /\ AsyncValue(k) = "just pressed"
                           => k \in game.fresh]_vars
    BY JustPressedIsFresh
  <1> QED BY <1>1, <1>2, FreshStep, TypeCorrect, PTL DEF Spec, JustPressedOnce

-----------------------------------------------------------------------------
(* The ring buffer is a queue.                                             *)

(* Two positions less than a turn apart are different slots.               *)
LEMMA SlotsDiffer ==
  ASSUME NEW n \in Nat \ {0}, NEW a \in Nat, NEW b \in Nat, a < b, b - a < n
  PROVE  a % n # b % n
  <1> SUFFICES ASSUME a % n = b % n PROVE FALSE
    OBVIOUS
  <1> DEFINE p == a \div n
             q == b \div n
             r == a % n
  <1>1. p \in Nat /\ q \in Nat /\ r \in 0 .. n - 1 /\ a = (p * n) + r /\ b = (q * n) + r
    OBVIOUS
  <1> HIDE DEF p, q, r
  <1>2. PICK k \in Int : k = q - p
    BY <1>1
  <1>3. b - a = k * n
    <2>1. q * n = (p * n) + (k * n)
      BY <1>1, <1>2
    <2>2. p * n \in Int /\ k * n \in Int
      BY <1>1, <1>2
    <2> QED BY <1>1, <2>1, <2>2
  <1>4. ASSUME k >= 1 PROVE FALSE
    <2>1. k * n = n + ((k - 1) * n) /\ (k - 1) * n \in Nat
      BY <1>2, <1>4
    <2> QED BY <1>3, <2>1
  <1>5. ASSUME k <= 0 PROVE FALSE
    <2>1. k * n = -((-k) * n) /\ (-k) * n \in Nat
      BY <1>2, <1>5
    <2> QED BY <1>3, <2>1
  <1> QED BY <1>2, <1>4, <1>5

(* The first n events from slot `start' on.                                *)
RingSlot(capacity, start, n) == (start + n) % capacity
Ring(slots, capacity, start, n) == [i \in 1 .. n |-> slots[RingSlot(capacity, start, i - 1)]]

LEMMA RingIsSeq ==
  ASSUME NEW capacity \in Nat, NEW n \in 0 .. capacity, NEW start \in Nat,
         NEW slots \in [0 .. capacity - 1 -> Events]
  PROVE  /\ Ring(slots, capacity, start, n) \in Seq(Events)
         /\ Len(Ring(slots, capacity, start, n)) = n
         /\ Ring(slots, capacity, start, n) \in [1 .. n -> Events]
         /\ \A i \in 1 .. n :
              /\ Ring(slots, capacity, start, n)[i] = slots[RingSlot(capacity, start, i - 1)]
              /\ RingSlot(capacity, start, i - 1) \in 0 .. capacity - 1
  <1> DEFINE ring == Ring(slots, capacity, start, n)
  <1>1. \A i \in 1 .. n : RingSlot(capacity, start, i - 1) \in 0 .. capacity - 1
    <2> SUFFICES ASSUME NEW i \in 1 .. n
                 PROVE  RingSlot(capacity, start, i - 1) \in 0 .. capacity - 1
      OBVIOUS
    <2>1. start + (i - 1) \in Nat /\ capacity \in Nat \ {0}
      OBVIOUS
    <2> QED BY <2>1 DEF RingSlot
  <1>2. \A i \in 1 .. n : slots[RingSlot(capacity, start, i - 1)] \in Events
    BY <1>1
  <1>3. ring \in [1 .. n -> Events] /\ \A i \in 1 .. n : ring[i] = slots[RingSlot(capacity, start, i - 1)]
    BY <1>2 DEF Ring
  <1> HIDE DEF ring
  <1>4. n \in Nat
    OBVIOUS
  <1>5. ring \in Seq(Events)
    BY <1>3, <1>4, SeqDef
  <1>6. Len(ring) = n
    BY <1>3, <1>4, <1>5, LenProperties
  <1> QED BY <1>1, <1>3, <1>5, <1>6 DEF ring

(* AddEvent, when there is room: the event is the last one.                *)
LEMMA RingPut ==
  ASSUME NEW capacity \in Nat, NEW n \in Nat, n < capacity, NEW start \in Nat,
         NEW slots \in [0 .. capacity - 1 -> Events], NEW e \in Events
  PROVE  Ring([slots EXCEPT ![RingSlot(capacity, start, n)] = e], capacity, start, n + 1)
           = Append(Ring(slots, capacity, start, n), e)
  <1> DEFINE at == RingSlot(capacity, start, n)
             after == [slots EXCEPT ![at] = e]
             old == Ring(slots, capacity, start, n)
             new == Ring(after, capacity, start, n + 1)
  <1>1. at \in 0 .. capacity - 1
    <2>1. start + n \in Nat /\ capacity \in Nat \ {0}
      OBVIOUS
    <2> QED BY <2>1 DEF RingSlot
  <1>2. after \in [0 .. capacity - 1 -> Events]
    OBVIOUS
  <1>3. /\ old \in Seq(Events) /\ Len(old) = n
        /\ \A i \in 1 .. n : /\ old[i] = slots[RingSlot(capacity, start, i - 1)]
                             /\ RingSlot(capacity, start, i - 1) \in 0 .. capacity - 1
    <2>1. n \in 0 .. capacity
      OBVIOUS
    <2> QED BY <2>1, RingIsSeq
  <1>4. after[at] = e /\ \A j \in 0 .. capacity - 1 : j # at => after[j] = slots[j]
    BY <1>1
  <1> HIDE DEF after
  <1>5. /\ new \in Seq(Events) /\ Len(new) = n + 1
        /\ \A i \in 1 .. n + 1 : new[i] = after[RingSlot(capacity, start, i - 1)]
    <2> DEFINE grown == n + 1
    <2>1. grown \in 0 .. capacity
      OBVIOUS
    <2> HIDE DEF grown
    <2>2. /\ Ring(after, capacity, start, grown) \in Seq(Events)
          /\ Len(Ring(after, capacity, start, grown)) = grown
          /\ \A i \in 1 .. grown :
               Ring(after, capacity, start, grown)[i] = after[RingSlot(capacity, start, i - 1)]
      BY <1>2, <2>1, RingIsSeq
    <2> QED BY <2>2 DEF grown
  <1>6. \A i \in 1 .. n : RingSlot(capacity, start, i - 1) # at
    <2> SUFFICES ASSUME NEW i \in 1 .. n
                 PROVE  RingSlot(capacity, start, i - 1) # RingSlot(capacity, start, n)
      OBVIOUS
    <2>1. /\ start + (i - 1) \in Nat /\ start + n \in Nat /\ capacity \in Nat \ {0}
          /\ start + (i - 1) < start + n /\ (start + n) - (start + (i - 1)) < capacity
      OBVIOUS
    <2> QED BY <2>1, SlotsDiffer DEF RingSlot
  <1>7. new[n + 1] = e
    <2>1. n + 1 \in 1 .. n + 1 /\ (n + 1) - 1 = n
      OBVIOUS
    <2> QED BY <1>4, <1>5, <2>1
  <1> HIDE DEF old, new, at
  <1>8. \A i \in 1 .. n : new[i] = old[i]
    <2> SUFFICES ASSUME NEW i \in 1 .. n
                 PROVE  new[i] = old[i]
      OBVIOUS
    <2>1. i \in 1 .. n + 1
      OBVIOUS
    <2> QED BY <1>3, <1>4, <1>5, <1>6, <2>1
  <1>9. /\ Append(old, e) \in Seq(Events) /\ Len(Append(old, e)) = n + 1
        /\ \A i \in 1 .. n : Append(old, e)[i] = old[i]
        /\ Append(old, e)[n + 1] = e
    BY <1>3, AppendProperties
  <1>10. \A i \in 1 .. n + 1 : new[i] = Append(old, e)[i]
    <2> SUFFICES ASSUME NEW i \in 1 .. n + 1
                 PROVE  new[i] = Append(old, e)[i]
      OBVIOUS
    <2>1. i \in 1 .. n \/ i = n + 1
      OBVIOUS
    <2> QED BY <1>7, <1>8, <1>9, <2>1
  <1>11. new = Append(old, e)
    BY <1>5, <1>9, <1>10, SeqEqual
  <1> QED BY <1>11 DEF new, old, after, at

(* GetData: the oldest events are gone.                                    *)
LEMMA RingGet ==
  ASSUME NEW capacity \in Nat, NEW n \in 0 .. capacity, NEW start \in Nat,
         NEW slots \in [0 .. capacity - 1 -> Events], NEW count \in 0 .. n
  PROVE  Ring(slots, capacity, start + count, n - count)
           = SubSeq(Ring(slots, capacity, start, n), count + 1, n)
  <1> DEFINE old == Ring(slots, capacity, start, n)
             new == Ring(slots, capacity, start + count, n - count)
             rest == SubSeq(old, count + 1, n)
  <1>1. /\ old \in Seq(Events) /\ Len(old) = n
        /\ \A i \in 1 .. n : old[i] = slots[RingSlot(capacity, start, i - 1)]
    BY RingIsSeq
  <1>2. /\ new \in Seq(Events) /\ Len(new) = n - count
        /\ \A i \in 1 .. n - count : new[i] = slots[RingSlot(capacity, start + count, i - 1)]
    <2> DEFINE left == n - count
               first == start + count
    <2>1. left \in 0 .. capacity /\ first \in Nat
      OBVIOUS
    <2> HIDE DEF left, first
    <2>2. /\ Ring(slots, capacity, first, left) \in Seq(Events)
          /\ Len(Ring(slots, capacity, first, left)) = left
          /\ \A i \in 1 .. left :
               Ring(slots, capacity, first, left)[i] = slots[RingSlot(capacity, first, i - 1)]
      BY <2>1, RingIsSeq
    <2> QED BY <2>2 DEF left, first
  <1> HIDE DEF old, new
  <1>3. \A i \in count + 1 .. n : old[i] \in Events
    <2> SUFFICES ASSUME NEW i \in count + 1 .. n
                 PROVE  old[i] \in Events
      OBVIOUS
    <2>1. i \in 1 .. n
      OBVIOUS
    <2> QED BY <1>1, <2>1, ElementOfSeq
  <1>4. /\ rest \in Seq(Events)
        /\ Len(rest) = IF count + 1 <= n THEN n - (count + 1) + 1 ELSE 0
        /\ \A i \in 1 .. n - (count + 1) + 1 : rest[i] = old[(count + 1) + i - 1]
    <2>1. count + 1 \in Int /\ n \in Int
      OBVIOUS
    <2> QED BY <1>3, <2>1, SubSeqProperties
  <1> HIDE DEF rest
  <1>5. Len(rest) = n - count
    BY <1>4
  <1>6. \A i \in 1 .. n - count : rest[i] = new[i]
    <2> SUFFICES ASSUME NEW i \in 1 .. n - count
                 PROVE  rest[i] = new[i]
      OBVIOUS
    <2>1. /\ i \in 1 .. n - (count + 1) + 1 /\ (count + 1) + i - 1 = count + i
          /\ count + i \in 1 .. n
      OBVIOUS
    <2>4. RingSlot(capacity, start, (count + i) - 1) = RingSlot(capacity, start + count, i - 1)
      <3>1. start + ((count + i) - 1) = (start + count) + (i - 1)
        OBVIOUS
      <3> QED BY <3>1 DEF RingSlot
    <2>2. rest[i] = old[count + i]
      BY <1>4, <2>1
    <2>3. old[count + i] = slots[RingSlot(capacity, start, (count + i) - 1)]
      BY <1>1, <2>1
    <2> QED BY <1>2, <2>2, <2>3, <2>4
  <1>7. new = rest
    BY <1>2, <1>4, <1>5, <1>6, SeqEqual
  <1> QED BY <1>7 DEF new, rest, old

LEMMA ContentsIsRing == Contents = Ring(data, size, startOffset, used)
  BY DEF Contents, At, SlotOf, Ring, RingSlot

LEMMA UsedType ==
  ASSUME TypeOK
  PROVE  used \in Nat /\ used \in 0 .. used
  BY InputAssumption DEF TypeOK

LEMMA RetrievedType ==
  ASSUME TypeOK, NEW n \in 0 .. MaxSize
  PROVE  Retrieved(n) \in 0 .. used
  BY InputAssumption DEF Retrieved, TypeOK

(* A step of the device is a step of the queue.                            *)
LEMMA PutSimulates ==
  ASSUME TypeOK, NEW e \in Events, AddEvent(e)
  PROVE  Queue!Put(e)
  <1>1. /\ size \in Nat /\ used \in 0 .. size /\ startOffset \in Nat
        /\ data \in [0 .. size - 1 -> Events]
    BY InputAssumption DEF TypeOK
  <1>2. Len(Contents) = used
    BY <1>1, RingIsSeq, ContentsIsRing
  <1>3. CASE IsFull
    <2>1. UNCHANGED Contents
      BY <1>3 DEF AddEvent, Contents, At, SlotOf
    <2> QED BY <1>1, <1>2, <1>3, <2>1 DEF Queue!Put, AddEvent, IsFull
  <1>4. CASE ~IsFull
    <2>1. used \in Nat /\ used < size
      BY <1>1, <1>4 DEF IsFull
    <2>2. /\ data' = [data EXCEPT ![RingSlot(size, startOffset, used)] = e]
          /\ used' = used + 1 /\ size' = size /\ startOffset' = startOffset
          /\ overflowed' = overflowed
      BY <1>4 DEF AddEvent, SlotOf, RingSlot
    <2>3. Contents' = Ring(data', size', startOffset', used')
      BY DEF Contents, At, SlotOf, Ring, RingSlot
    <2>4. Contents' = Append(Contents, e)
      BY <1>1, <2>1, <2>2, <2>3, ContentsIsRing, RingPut
    <2> QED BY <1>2, <2>1, <2>2, <2>4 DEF Queue!Put
  <1> QED BY <1>3, <1>4

LEMMA GetSimulates ==
  ASSUME TypeOK, NEW count \in 0 .. used, GetData(count)
  PROVE  \E n \in 0 .. Len(Contents) : Queue!Get(n)
  <1>1. /\ size \in Nat /\ used \in 0 .. size /\ startOffset \in Nat
        /\ data \in [0 .. size - 1 -> Events]
    BY InputAssumption DEF TypeOK
  <1>2. Len(Contents) = used
    BY <1>1, RingIsSeq, ContentsIsRing
  <1>3. /\ data' = data /\ used' = used - count /\ size' = size
        /\ startOffset' = startOffset + count
        /\ overflowed' = (overflowed /\ count = 0)
    BY DEF GetData, Remaining
  <1>4. Contents' = Ring(data', size', startOffset', used')
    BY DEF Contents, At, SlotOf, Ring, RingSlot
  <1>5. Contents' = SubSeq(Contents, count + 1, used)
    BY <1>1, <1>3, <1>4, ContentsIsRing, RingGet
  <1>6. Queue!Get(count)
    BY <1>2, <1>3, <1>5 DEF Queue!Get
  <1> QED BY <1>2, <1>6

LEMMA ResizeSimulates ==
  ASSUME TypeOK, TypeOK', NEW n \in BufferSizes, NEW junk, Resize(Capped(n), junk)
  PROVE  \E newSize \in {Capped(m) : m \in BufferSizes} : Queue!Resize(newSize)
  <1>1. /\ size \in Nat /\ used \in 0 .. size /\ startOffset \in Nat
        /\ data \in [0 .. size - 1 -> Events]
    BY InputAssumption DEF TypeOK
  <1>2. /\ size' \in Nat /\ used' \in 0 .. size' /\ startOffset' \in Nat
        /\ data' \in [0 .. size' - 1 -> Events]
    <2>1. /\ size' \in 0 .. MaxSize /\ used' \in 0 .. size' /\ startOffset' \in Nat
          /\ data' \in [0 .. size' - 1 -> Events]
      BY DEF TypeOK
    <2>2. size' \in Nat
      BY <2>1, InputAssumption
    <2> QED BY <2>1, <2>2
  <1>3. Len(Contents) = used
    BY <1>1, RingIsSeq, ContentsIsRing
  <1>4. Contents' = Ring(data', size', startOffset', used')
    BY DEF Contents, At, SlotOf, Ring, RingSlot
  <1>5. Contents' \in [1 .. used' -> Events]
    BY <1>2, <1>4, RingIsSeq
  <1>6. /\ size' = Capped(n) /\ used' = IF used > Capped(n) THEN Capped(n) ELSE used
        /\ overflowed' = (overflowed \/ used > Capped(n))
    BY DEF Resize
  <1>7. Queue!Resize(Capped(n))
    BY <1>3, <1>5, <1>6 DEF Queue!Resize
  <1> QED BY <1>7

(* Every step of Input is a step of the queue or leaves the queue alone.   *)
LEMMA QueueStep ==
  ASSUME TypeOK, TypeOK', [Next]_vars
  PROVE  [Queue!QueueNext]_(Queue!qvars)
  <1>1. ASSUME UNCHANGED <<data, size, used, startOffset, overflowed>>
        PROVE  UNCHANGED Queue!qvars
    BY <1>1 DEF Queue!qvars, Contents, At, SlotOf
  <1>2. CASE SlotSteps
    BY <1>1, <1>2, SlotStepsKeep DEF buffer
  <1>3. CASE ProcessKey \/ ProcessMouse
    <2>1. CASE UNCHANGED buffer BY <1>1, <2>1 DEF buffer
    <2>2. CASE \E e \in Events : AddEvent(e)
      BY <2>2, PutSimulates DEF Queue!QueueNext
    <2> QED BY <1>3, <2>1, <2>2, ProcessSteps
  <1>4. ASSUME NEW n \in BufferSizes, NEW junk \in JunkEvents, SetBufferSize(n, junk)
        PROVE  [Queue!QueueNext]_(Queue!qvars)
    <2>1. CASE UNCHANGED buffer BY <1>1, <2>1 DEF buffer
    <2>2. CASE Resize(Capped(n), junk)
      BY <2>2, ResizeSimulates DEF Queue!QueueNext
    <2> QED BY <1>4, <2>1, <2>2 DEF SetBufferSize
  <1>5. CASE SetEventNotification \/ WaitForEvent
    BY <1>1, <1>5 DEF SetEventNotification, WaitForEvent
  <1>6. ASSUME NEW count \in 0 .. used, GetData(count)
        PROVE  [Queue!QueueNext]_(Queue!qvars)
    BY <1>6, GetSimulates DEF Queue!QueueNext
  <1>7. ASSUME NEW n \in 0 .. MaxSize, GetDeviceData(n)
        PROVE  [Queue!QueueNext]_(Queue!qvars)
    <2>1. Retrieved(n) \in 0 .. used
      BY RetrievedType
    <2> QED BY <1>6, <1>7, <2>1 DEF GetDeviceData
  <1>8. CASE Recover
    <2>1. used \in 0 .. used
      BY UsedType
    <2>2. GetData(used)
      BY <1>8 DEF Recover
    <2>3. \E n \in 0 .. Len(Contents) : Queue!Get(n)
      BY <2>1, <2>2, GetSimulates
    <2> QED BY <2>3 DEF Queue!QueueNext
  <1> QED BY <1>2, <1>3, <1>4, <1>5, <1>7, <1>8, NextSplit DEF DeviceSteps

(* For every size of the buffer, the ring buffer of a device implements the*)
(* bounded queue that InputQueue promises the game.                        *)
THEOREM ImplementsQueueCorrect == Spec => ImplementsQueue
  <1>1. Init => Queue!QueueInit
    <2> SUFFICES ASSUME Init PROVE Contents = <<>> /\ size = 0 /\ overflowed = FALSE
      BY DEF Queue!QueueInit
    <2>1. used = 0 BY DEF Init
    <2>2. Contents \in [1 .. 0 -> Events] BY <2>1 DEF Contents
    <2>3. 0 \in Nat OBVIOUS
    <2>4. Contents \in Seq(Events) BY <2>2, <2>3, SeqDef
    <2>5. Len(Contents) = 0 BY <2>2, <2>4, LenProperties
    <2> QED BY <2>4, <2>5, EmptySeq DEF Init
  <1>2. TypeOK /\ TypeOK' /\ [Next]_vars => [Queue!QueueNext]_(Queue!qvars)
    BY QueueStep
  <1> QED BY <1>1, <1>2, TypeCorrect, PTL DEF Spec, ImplementsQueue, Queue!QueueSpec
-----------------------------------------------------------------------------
(* What the events say of a key: its last one decides.                     *)

(* The largest number of a bounded set.                                    *)
Below == {ss \in Nat \X Nat : ss[1] < ss[2]}
LEMMA BelowWellFounded == IsWellFoundedOn(Below, Nat)
  BY NatLessThanWellFounded, Zenon DEF OpToRel, Below

LEMMA LargestNumber ==
  ASSUME NEW n \in Nat, NEW T \in SUBSET (1 .. n), T # {}
  PROVE  \E m \in T : \A j \in T : j <= m
  <1> DEFINE D == {n - i : i \in T}
  <1>1. D \subseteq Nat /\ D # {}
    <2>1. \A i \in T : n - i \in Nat
      OBVIOUS
    <2>2. PICK i \in T : TRUE
      OBVIOUS
    <2>3. n - i \in D
      OBVIOUS
    <2> QED BY <2>1, <2>3
  <1> HIDE DEF D
  <1>2. PICK x \in D : \A y \in D : ~(<<y, x>> \in Below)
    BY <1>1, BelowWellFounded, WFMin
  <1>3. \A y \in D : ~(y < x)
    BY <1>1, <1>2 DEF Below
  <1>4. PICK m \in T : x = n - m
    BY DEF D
  <1>5. \A j \in T : n - j \in D
    BY DEF D
  <1>6. \A j \in T : ~(n - j < n - m)
    BY <1>3, <1>4, <1>5
  <1>7. \A j \in T : j \in Int /\ m \in Int
    OBVIOUS
  <1> QED BY <1>6, <1>7

(* The last of the first n events that is about key k.                     *)
LastIn(events, k, n) ==
  {i \in 1 .. n : events[i].ofs = k /\ \A j \in i + 1 .. n : events[j].ofs # k}
HoldsAfter(events, known, k, n) ==
  IF LastIn(events, k, n) = {} THEN k \in known
  ELSE \E i \in LastIn(events, k, n) : events[i].pressed

LEMMA LastInIs ==
  ASSUME NEW events, NEW k, NEW n \in Nat, NEW m \in 1 .. n,
         events[m].ofs = k, \A j \in m + 1 .. n : events[j].ofs # k
  PROVE  LastIn(events, k, n) = {m}
  <1>1. m \in LastIn(events, k, n)
    BY DEF LastIn
  <1>2. ASSUME NEW i \in LastIn(events, k, n)
        PROVE  i = m
    <2>1. /\ i \in 1 .. n /\ events[i].ofs = k
          /\ \A j \in i + 1 .. n : events[j].ofs # k
      BY DEF LastIn
    <2>2. ~(i < m)
      BY <2>1
    <2>3. ~(m < i)
      BY <2>1
    <2> QED BY <2>1, <2>2, <2>3
  <1> QED BY <1>1, <1>2

LEMMA NoneInIs ==
  ASSUME NEW events, NEW k, NEW n \in Nat, \A i \in 1 .. n : events[i].ofs # k
  PROVE  LastIn(events, k, n) = {}
  BY DEF LastIn

LEMMA LastOrNone ==
  ASSUME NEW events, NEW k, NEW n \in Nat
  PROVE  \/ \A i \in 1 .. n : events[i].ofs # k
         \/ \E m \in 1 .. n : events[m].ofs = k /\ \A j \in m + 1 .. n : events[j].ofs # k
  <1> DEFINE T == {i \in 1 .. n : events[i].ofs = k}
  <1>1. CASE T = {}
    BY <1>1
  <1>2. CASE T # {}
    <2>1. T \in SUBSET (1 .. n)
      OBVIOUS
    <2> HIDE DEF T
    <2>2. PICK m \in T : \A j \in T : j <= m
      BY <1>2, <2>1, LargestNumber
    <2>3. m \in 1 .. n /\ events[m].ofs = k
      BY <2>2 DEF T
    <2>4. ASSUME NEW j \in m + 1 .. n
          PROVE  events[j].ofs # k
      <3>1. j \in 1 .. n /\ ~(j <= m)
        BY <2>3
      <3>2. j \notin T
        BY <2>2, <3>1
      <3> QED BY <3>1, <3>2 DEF T
    <2> QED BY <2>3, <2>4
  <1> QED BY <1>1, <1>2

(* A new event decides for its key, and for no other.                      *)
LEMMA HoldsAfterPut ==
  ASSUME NEW n \in Nat, NEW old, NEW new, NEW e, NEW k, NEW known,
         \A i \in 1 .. n : new[i] = old[i], new[n + 1] = e
  PROVE  HoldsAfter(new, known, k, n + 1)
           <=> IF e.ofs = k THEN e.pressed ELSE HoldsAfter(old, known, k, n)
  <1>1. CASE e.ofs = k
    <2>1. /\ n + 1 \in Nat /\ n + 1 \in 1 .. n + 1
          /\ \A j \in (n + 1) + 1 .. n + 1 : new[j].ofs # k
      OBVIOUS
    <2>2. LastIn(new, k, n + 1) = {n + 1}
      BY <1>1, <2>1, LastInIs
    <2> QED BY <1>1, <2>2 DEF HoldsAfter
  <1>2. CASE e.ofs # k
    <2>1. LastIn(new, k, n + 1) = LastIn(old, k, n)
      <3>1. ASSUME NEW i \in 1 .. n
            PROVE  (\A j \in i + 1 .. n + 1 : new[j].ofs # k) <=> \A j \in i + 1 .. n : old[j].ofs # k
        <4>1. \A j \in i + 1 .. n : j \in i + 1 .. n + 1 /\ j \in 1 .. n
          OBVIOUS
        <4>2. \A j \in i + 1 .. n + 1 : j = n + 1 \/ (j \in i + 1 .. n /\ j \in 1 .. n)
          OBVIOUS
        <4> QED BY <1>2, <4>1, <4>2
      <3>2. \A i \in 1 .. n + 1 : i = n + 1 \/ i \in 1 .. n
        OBVIOUS
      <3>3. \A i \in 1 .. n : i \in 1 .. n + 1
        OBVIOUS
      <3> QED BY <1>2, <3>1, <3>2, <3>3 DEF LastIn
    <2>2. \A i \in LastIn(old, k, n) : new[i] = old[i]
      BY DEF LastIn
    <2> QED BY <1>2, <2>1, <2>2 DEF HoldsAfter
  <1> QED BY <1>1, <1>2

(* Reading the oldest events changes nothing of what all of them say.      *)
LEMMA HoldsAfterGet ==
  ASSUME NEW n \in Nat, NEW count \in 0 .. n, NEW old, NEW new, NEW k, NEW known, NEW read,
         \A i \in 1 .. n - count : new[i] = old[count + i],
         k \in read <=> HoldsAfter(old, known, k, count)
  PROVE  HoldsAfter(new, read, k, n - count) <=> HoldsAfter(old, known, k, n)
  <1> DEFINE left == n - count
  <1>1. left \in Nat /\ count \in Nat /\ n = count + left
    OBVIOUS
  <1>2. \A i \in 1 .. left : count + i \in 1 .. n
    BY <1>1
  <1>3. \A i \in 1 .. left : new[i] = old[count + i]
    OBVIOUS
  <1>4. \A j \in 1 .. n : j \in 1 .. count \/ j - count \in 1 .. left
    BY <1>1
  <1>5. \A j \in Int : count + (j - count) = j
    BY <1>1
  <1> HIDE DEF left
  <1>6. HoldsAfter(new, read, k, left) <=> HoldsAfter(old, known, k, n)
    <2>1. CASE \A i \in 1 .. left : new[i].ofs # k
      <3>1. LastIn(new, k, left) = {}
        BY <1>1, <2>1, NoneInIs
      <3>2. \A j \in 1 .. n : old[j].ofs = k => j \in 1 .. count
        <4> SUFFICES ASSUME NEW j \in 1 .. n, j - count \in 1 .. left
                     PROVE  old[j].ofs # k
          BY <1>4
        <4>1. old[count + (j - count)] = new[j - count]
          BY <1>3
        <4> QED BY <1>5, <2>1, <4>1
      <3>3. LastIn(old, k, n) = LastIn(old, k, count)
        <4>1. ASSUME NEW i \in LastIn(old, k, n)
              PROVE  i \in LastIn(old, k, count)
          <5>1. /\ i \in 1 .. n /\ old[i].ofs = k
                /\ \A j \in i + 1 .. n : old[j].ofs # k
            BY DEF LastIn
          <5>2. \A j \in i + 1 .. count : j \in i + 1 .. n
            BY <1>1, <5>1
          <5> QED BY <3>2, <5>1, <5>2 DEF LastIn
        <4>2. ASSUME NEW i \in LastIn(old, k, count)
              PROVE  i \in LastIn(old, k, n)
          <5>1. /\ i \in 1 .. count /\ old[i].ofs = k
                /\ \A j \in i + 1 .. count : old[j].ofs # k
            BY DEF LastIn
          <5>2. \A j \in i + 1 .. n : j \in 1 .. n /\ (j \in 1 .. count => j \in i + 1 .. count)
            BY <1>1, <5>1
          <5>3. i \in 1 .. n
            BY <1>1, <5>1
          <5> QED BY <3>2, <5>1, <5>2, <5>3 DEF LastIn
        <4> QED BY <4>1, <4>2
      <3> QED BY <3>1, <3>3 DEF HoldsAfter
    <2>2. ASSUME NEW m \in 1 .. left, new[m].ofs = k, \A j \in m + 1 .. left : new[j].ofs # k
          PROVE  HoldsAfter(new, read, k, left) <=> HoldsAfter(old, known, k, n)
      <3>1. LastIn(new, k, left) = {m}
        BY <1>1, <2>2, LastInIs
      <3>2. count + m \in 1 .. n /\ old[count + m] = new[m]
        BY <1>2, <1>3
      <3>3. ASSUME NEW j \in (count + m) + 1 .. n
            PROVE  old[j].ofs # k
        <4>1. j - count \in m + 1 .. left /\ j - count \in 1 .. left /\ j \in Int
          <5>1. m \in Nat /\ m >= 1
            BY <1>1
          <5> QED BY <1>1, <5>1
        <4>2. old[count + (j - count)] = new[j - count]
          BY <1>3, <4>1
        <4> QED BY <1>5, <2>2, <4>1, <4>2
      <3>4. LastIn(old, k, n) = {count + m}
        BY <2>2, <3>2, <3>3, LastInIs
      <3> QED BY <3>1, <3>2, <3>4 DEF HoldsAfter
    <2> QED BY <1>1, <2>1, <2>2, LastOrNone
  <1> QED BY <1>6 DEF left
-----------------------------------------------------------------------------
(* No input is lost without a word.  The keys that ProcessFrameInput has   *)
(* not come to are known as the previous frame had them; wherever the game *)
(* runs, or an outer frame waits, all keys have been processed.            *)
FrameInv ==
  \A i \in 1 .. Len(frame) : frame[i].inHandler \/ i < Len(frame) => frame[i].at = "messages"
Expected(k) == IF Processed(k) THEN curinput.keys ELSE previnput.keys
KnownInv ==
  ~game.told /\ ~overflowed /\ ~game.garbled =>
    \A k \in Keys \ ToggleKeys :
      HoldsAfter(Contents, game.known, k, used) <=> k \in Expected(k)

LEMMA NewTop ==
  ASSUME TypeOK, frame # <<>>, NEW a, frame' = SetTop(a)
  PROVE  /\ Len(frame') = Len(frame) /\ Len(frame) \in Nat \ {0} /\ frame' # <<>> /\ Top' = a
         /\ \A i \in 1 .. Len(frame) : i < Len(frame) => frame'[i] = frame[i]
  <1>1. Len(frame) \in Nat \ {0} /\ frame \in Seq(Activations)
    BY TopType DEF TypeOK
  <1>2. frame' = [frame EXCEPT ![Len(frame)] = a]
    BY DEF SetTop
  <1>3. Len(frame') = Len(frame)
    BY <1>1, <1>2
  <1>4. /\ frame'[Len(frame)] = a
        /\ \A i \in 1 .. Len(frame) : i < Len(frame) => frame'[i] = frame[i]
    BY <1>1, <1>2
  <1>5. frame' # <<>>
    BY <1>1, <1>3
  <1> QED BY <1>1, <1>3, <1>4, <1>5 DEF Top

LEMMA TopIsLast ==
  ASSUME TypeOK, frame # <<>>
  PROVE  Top = frame[Len(frame)] /\ Len(frame) \in 1 .. Len(frame)
  <1>1. Len(frame) \in Nat \ {0}
    BY TopType DEF TypeOK
  <1> QED BY <1>1 DEF Top

(* A top activation that is in the window procedure sends messages.        *)
LEMMA NewTopKeepsFrameInv ==
  ASSUME TypeOK, FrameInv, frame # <<>>, NEW a, frame' = SetTop(a),
         a.inHandler => a.at = "messages"
  PROVE  FrameInv'
  <1>1. /\ Len(frame') = Len(frame) /\ Len(frame) \in Nat \ {0} /\ frame' # <<>>
        /\ Top' = a /\ Top' = frame'[Len(frame')]
        /\ \A i \in 1 .. Len(frame) : i < Len(frame) => frame'[i] = frame[i]
    BY NewTop DEF Top
  <1>2. SUFFICES ASSUME NEW i \in 1 .. Len(frame'), frame'[i].inHandler \/ i < Len(frame')
                 PROVE  frame'[i].at = "messages"
    BY DEF FrameInv
  <1>3. CASE i < Len(frame)
    BY <1>1, <1>3 DEF FrameInv
  <1>4. CASE i = Len(frame)
    BY <1>1, <1>2, <1>4
  <1> QED BY <1>1, <1>3, <1>4

LEMMA FrontElements ==
  ASSUME NEW S, NEW s \in Seq(S), Len(s) \in Nat \ {0}
  PROVE  /\ Len(SubSeq(s, 1, Len(s) - 1)) = Len(s) - 1
         /\ \A j \in 1 .. Len(s) - 1 : SubSeq(s, 1, Len(s) - 1)[j] = s[j]
  <1> DEFINE m == Len(s) - 1
  <1>1. m \in Nat /\ \A j \in 1 .. m : s[j] \in S
    OBVIOUS
  <1> HIDE DEF m
  <1>2. \A j \in 1 .. m - 1 + 1 : SubSeq(s, 1, m)[j] = s[1 + j - 1]
    BY <1>1, SubSeqProperties
  <1>3. \A j \in 1 .. m : j \in 1 .. m - 1 + 1 /\ 1 + j - 1 = j
    BY <1>1
  <1>4. Len(SubSeq(s, 1, m)) = m
    BY FrontType DEF m
  <1> QED BY <1>2, <1>3, <1>4 DEF m

LEMMA FrameStep == TypeOK /\ FrameInv /\ [Next]_vars => FrameInv'
  <1> SUFFICES ASSUME TypeOK, FrameInv, [Next]_vars PROVE FrameInv'
    OBVIOUS
  <1>1. ASSUME NEW i \in Inputs, FrameBoundary(i)
        PROVE  FrameInv'
    <2> DEFINE a == [at |-> "ProcessFrameInput", key |-> 1, inHandler |-> FALSE]
    <2>1. frame \in Seq(Activations) /\ frame' = Append(frame, a) /\ a.inHandler = FALSE
      BY <1>1 DEF FrameBoundary, TypeOK
    <2> HIDE DEF a
    <2>2. /\ Len(frame) \in Nat /\ Len(frame') = Len(frame) + 1 /\ frame'[Len(frame) + 1] = a
          /\ \A j \in 1 .. Len(frame) : frame'[j] = frame[j]
      BY <2>1, AppendProperties
    <2>3. \A j \in 1 .. Len(frame) : frame[j].at = "messages"
      <3>1. CASE frame = <<>>
        BY <3>1
      <3>2. CASE frame # <<>>
        <4>1. frame[Len(frame)].inHandler
          BY <1>1, <3>2 DEF FrameBoundary, GameRuns, Top
        <4>2. \A j \in 1 .. Len(frame) : j = Len(frame) \/ j < Len(frame)
          BY <2>2
        <4> QED BY <4>1, <4>2 DEF FrameInv
      <3> QED BY <3>1, <3>2
    <2>4. \A j \in 1 .. Len(frame) + 1 : j = Len(frame) + 1 \/ j \in 1 .. Len(frame)
      BY <2>2
    <2>5. ~(Len(frame) + 1 < Len(frame) + 1)
      BY <2>2
    <2> QED BY <2>1, <2>2, <2>3, <2>4, <2>5 DEF FrameInv
  <1>2. CASE ProcessKey
    <2> DEFINE a == [Top EXCEPT !.key = @ + 1]
    <2>1. frame # <<>> /\ frame' = SetTop(a) /\ ~Top.inHandler
      BY <1>2 DEF ProcessKey, InFrame
    <2>2. a.inHandler = FALSE
      BY <2>1, TopType DEF TypeOK, Activations
    <2> HIDE DEF a
    <2> QED BY <2>1, <2>2, NewTopKeepsFrameInv
  <1>3. CASE ProcessMouse
    <2> DEFINE a == [at |-> "messages", key |-> 1, inHandler |-> FALSE]
    <2>1. frame # <<>> /\ frame' = SetTop(a) /\ a.at = "messages"
      BY <1>3 DEF ProcessMouse, InFrame
    <2> HIDE DEF a
    <2> QED BY <2>1, NewTopKeepsFrameInv
  <1>4. CASE SendMessages
    <2> DEFINE a == [Top EXCEPT !.key = @ + 1, !.inHandler = Changed(Top.key)]
    <2>1. frame # <<>> /\ frame' = SetTop(a) /\ Top.at = "messages"
      BY <1>4 DEF SendMessages, InFrame
    <2>2. a.at = "messages"
      BY <2>1, TopType DEF TypeOK, Activations
    <2> HIDE DEF a
    <2> QED BY <2>1, <2>2, NewTopKeepsFrameInv
  <1>5. CASE HandlerReturns
    <2> DEFINE a == [Top EXCEPT !.inHandler = FALSE]
    <2>1. frame # <<>> /\ frame' = SetTop(a)
      BY <1>5 DEF HandlerReturns
    <2>2. a.inHandler = FALSE
      BY <2>1, TopType DEF TypeOK, Activations
    <2> HIDE DEF a
    <2> QED BY <2>1, <2>2, NewTopKeepsFrameInv
  <1>6. CASE ExitFrameBoundary
    <2>1. frame \in Seq(Activations) /\ frame # <<>> /\ frame' = SubSeq(frame, 1, Len(frame) - 1)
      BY <1>6 DEF ExitFrameBoundary, InFrame, TypeOK
    <2>2. /\ Len(frame) \in Nat \ {0} /\ Len(frame') = Len(frame) - 1
          /\ \A j \in 1 .. Len(frame) - 1 : frame'[j] = frame[j]
      BY <2>1, TopType, FrontElements
    <2>3. \A j \in 1 .. Len(frame) - 1 : j \in 1 .. Len(frame) /\ j < Len(frame)
      BY <2>2
    <2> QED BY <2>2, <2>3 DEF FrameInv
  <1>7. CASE UNCHANGED frame
    BY <1>7 DEF FrameInv
  <1>8. ASSUME NEW k \in Keys, NEW isPrimary \in BOOLEAN, Poll(k, isPrimary)
        PROVE  UNCHANGED frame
    BY <1>8 DEF Poll, GetAsyncKeyState
  <1>9. (\E k \in Keys : StartSpin(k)) \/ Spin => UNCHANGED frame
    BY DEF StartSpin, Spin, GetAsyncKeyState
  <1>10. ASSUME NEW n \in BufferSizes, NEW junk \in JunkEvents, SetBufferSize(n, junk)
         PROVE  UNCHANGED frame
    BY <1>10 DEF SetBufferSize
  <1>11. /\ (\E value \in BOOLEAN : SetAcquired(value)) => UNCHANGED frame
         /\ SetEventNotification \/ WaitForEvent \/ Recover \/ UNCHANGED vars => UNCHANGED frame
         /\ (\E n \in 0 .. MaxSize : GetDeviceData(n)) => UNCHANGED frame
    BY DEF SetAcquired, SetEventNotification, WaitForEvent, Recover, GetDeviceData, vars
  <1> QED BY <1>1, <1>2, <1>3, <1>4, <1>5, <1>6, <1>7, <1>8, <1>9, <1>10, <1>11 DEF Next
LEMMA HoldsNone ==
  ASSUME NEW events, NEW known, NEW k
  PROVE  HoldsAfter(events, known, k, 0) <=> k \in known
  <1>1. LastIn(events, k, 0) = {}
    BY DEF LastIn
  <1> QED BY <1>1 DEF HoldsAfter

LEMMA ContentsElements ==
  ASSUME TypeOK
  PROVE  /\ used \in Nat /\ Contents \in Seq(Events) /\ Len(Contents) = used
         /\ \A i \in 1 .. used : Contents[i] = At(i)
  <1>1. /\ size \in Nat /\ used \in 0 .. size /\ startOffset \in Nat
        /\ data \in [0 .. size - 1 -> Events]
    BY InputAssumption DEF TypeOK
  <1>2. Contents \in Seq(Events) /\ Len(Contents) = used
    BY <1>1, RingIsSeq, ContentsIsRing
  <1> QED BY <1>1, <1>2 DEF Contents

LEMMA HeldIs ==
  ASSUME TypeOK, NEW count \in 0 .. used, NEW k \in Keys
  PROVE  k \in HeldAfter(count) <=> HoldsAfter(Contents, game.known, k, count)
  <1>1. \A i \in 1 .. count : i \in 1 .. used /\ \A j \in i + 1 .. count : j \in 1 .. used
    BY UsedType
  <1>2. \A i \in 1 .. used : Contents[i] = At(i)
    BY ContentsElements
  <1>3. LastOf(k, count) = LastIn(Contents, k, count)
    <2>1. ASSUME NEW i \in 1 .. count
          PROVE  /\ At(i).ofs = k <=> Contents[i].ofs = k
                 /\ (\A j \in i + 1 .. count : At(j).ofs # k)
                      <=> \A j \in i + 1 .. count : Contents[j].ofs # k
      BY <1>1, <1>2
    <2> QED BY <2>1 DEF LastOf, LastIn
  <1>4. \A i \in LastIn(Contents, k, count) : Contents[i] = At(i)
    BY <1>1, <1>2 DEF LastIn
  <1> QED BY <1>3, <1>4 DEF HeldAfter, HoldsAfter

LEMMA PutAppends ==
  ASSUME TypeOK, NEW e \in Events, AddEvent(e), ~overflowed'
  PROVE  /\ ~overflowed /\ used' = used + 1 /\ used \in Nat
         /\ \A i \in 1 .. used : Contents'[i] = Contents[i]
         /\ Contents'[used + 1] = e
  <1>1. ~overflowed /\ used' = used + 1 /\ ~IsFull
    BY DEF AddEvent, TypeOK
  <1>2. used \in Nat /\ Contents \in Seq(Events) /\ Len(Contents) = used
    BY ContentsElements
  <1>3. Contents' = Append(Contents, e)
    <2>1. size \in Nat /\ ~(used >= size)
      BY <1>1, InputAssumption DEF TypeOK, IsFull
    <2>2. used < size
      BY <1>2, <2>1
    <2> QED BY <1>2, <2>2, PutSimulates DEF Queue!Put
  <1>4. /\ \A i \in 1 .. Len(Contents) : Append(Contents, e)[i] = Contents[i]
        /\ Append(Contents, e)[Len(Contents) + 1] = e
    BY <1>2, AppendProperties
  <1> QED BY <1>1, <1>2, <1>3, <1>4

(* Wherever the game runs, and wherever messages are sent, all keys of the *)
(* frame have been processed.                                              *)
LEMMA AllProcessed ==
  ASSUME TypeOK, FrameInv, NEW k \in Keys, GameRuns \/ InFrame("messages")
  PROVE  Processed(k) /\ Expected(k) = curinput.keys
  <1>1. ~InFrame("ProcessFrameInput")
    BY DEF GameRuns, InFrame
  <1> QED BY <1>1 DEF Processed, Expected

LEMMA ExpectedKept ==
  ASSUME TypeOK, FrameInv, SlotSteps, NEW k \in Keys
  PROVE  k \in Expected(k)' <=> k \in Expected(k)
  <1>1. ASSUME NEW i \in Inputs, FrameBoundary(i)
        PROVE  k \in Expected(k)' <=> k \in Expected(k)
    <2> DEFINE a == [at |-> "ProcessFrameInput", key |-> 1, inHandler |-> FALSE]
    <2>1. /\ frame \in Seq(Activations) /\ frame' = Append(frame, a) /\ GameRuns
          /\ previnput' = curinput
          /\ a.at = "ProcessFrameInput" /\ a.key = 1 /\ a.inHandler = FALSE
      BY <1>1 DEF FrameBoundary, TypeOK
    <2> HIDE DEF a
    <2>2. Len(frame) \in Nat /\ Len(frame') = Len(frame) + 1 /\ frame'[Len(frame) + 1] = a
      BY <2>1, AppendProperties
    <2>3. Top' = a /\ frame' # <<>>
      BY <2>2 DEF Top
    <2>4. ~(k < 1)
      BY InputAssumption DEF Keys
    <2>5. Expected(k)' = previnput'.keys
      BY <2>1, <2>3, <2>4 DEF Expected, Processed, InFrame
    <2>6. Expected(k) = curinput.keys
      BY <2>1, AllProcessed
    <2> QED BY <2>1, <2>5, <2>6
  <1>2. ASSUME InFrame("messages") \/ (frame # <<>> /\ Top.inHandler),
               UNCHANGED curinput, ~InFrame("ProcessFrameInput")'
        PROVE  k \in Expected(k)' <=> k \in Expected(k)
    BY <1>2 DEF Expected, Processed, InFrame
  <1>3. CASE SendMessages
    <2> DEFINE a == [Top EXCEPT !.key = @ + 1, !.inHandler = Changed(Top.key)]
    <2>1. frame # <<>> /\ frame' = SetTop(a) /\ Top.at = "messages" /\ InFrame("messages")
      BY <1>3 DEF SendMessages, InFrame
    <2>2. a.at = "messages"
      BY <2>1, TopType DEF TypeOK, Activations
    <2> HIDE DEF a
    <2>3. ~InFrame("ProcessFrameInput")'
      BY <2>1, <2>2, NewTop DEF InFrame
    <2> QED BY <1>2, <1>3, <2>1, <2>3 DEF SendMessages, input
  <1>4. CASE HandlerReturns
    <2> DEFINE a == [Top EXCEPT !.inHandler = FALSE]
    <2>1. frame # <<>> /\ frame' = SetTop(a) /\ Top.inHandler
      BY <1>4 DEF HandlerReturns
    <2>2. Top.at = "messages"
      BY <2>1, TopIsLast DEF FrameInv
    <2>3. a.at = "messages"
      BY <2>1, <2>2, TopType DEF TypeOK, Activations
    <2> HIDE DEF a
    <2>4. ~InFrame("ProcessFrameInput")'
      BY <2>1, <2>3, NewTop DEF InFrame
    <2> QED BY <1>2, <1>4, <2>1, <2>4 DEF HandlerReturns, input
  <1>5. CASE ExitFrameBoundary
    <2>1. /\ InFrame("messages") /\ frame \in Seq(Activations) /\ frame # <<>>
          /\ frame' = SubSeq(frame, 1, Len(frame) - 1)
      BY <1>5 DEF ExitFrameBoundary, InFrame, TypeOK
    <2>2. /\ Len(frame) \in Nat \ {0} /\ Len(frame') = Len(frame) - 1
          /\ \A j \in 1 .. Len(frame) - 1 : frame'[j] = frame[j]
      BY <2>1, TopType, FrontElements
    <2>3. frame' # <<>> => Top'.at = "messages"
      <3> SUFFICES ASSUME frame' # <<>>
                   PROVE  Top'.at = "messages"
        OBVIOUS
      <3>1. frame' \in Seq(Activations)
        BY <2>1, <2>2, FrontType
      <3>2. Len(frame') # 0
        BY <3>1, EmptySeq
      <3>3. /\ Len(frame) - 1 \in 1 .. Len(frame) - 1 /\ Len(frame) - 1 \in 1 .. Len(frame)
            /\ Len(frame) - 1 < Len(frame)
        BY <2>2, <3>2
      <3>4. Top' = frame[Len(frame) - 1]
        BY <2>2, <3>3 DEF Top
      <3> QED BY <3>3, <3>4 DEF FrameInv
    <2>4. ~InFrame("ProcessFrameInput")'
      BY <2>3 DEF InFrame
    <2> QED BY <1>2, <1>5, <2>1, <2>4 DEF ExitFrameBoundary, input
  <1>6. CASE UNCHANGED <<frame, curinput, previnput>>
    BY <1>6 DEF Expected, Processed, InFrame, Top
  <1>7. ASSUME NEW key \in Keys, NEW isPrimary \in BOOLEAN, Poll(key, isPrimary)
        PROVE  UNCHANGED <<frame, curinput, previnput>>
    BY <1>7 DEF Poll, GetAsyncKeyState
  <1>8. (\E key \in Keys : StartSpin(key)) \/ Spin => UNCHANGED <<frame, curinput, previnput>>
    BY DEF StartSpin, Spin, GetAsyncKeyState, input
  <1>9. (\E value \in BOOLEAN : SetAcquired(value)) \/ UNCHANGED vars
           => UNCHANGED <<frame, curinput, previnput>>
    BY DEF SetAcquired, vars, input
  <1> QED BY <1>1, <1>3, <1>4, <1>5, <1>6, <1>7, <1>8, <1>9 DEF SlotSteps
LEMMA KnownStep == TypeOK /\ TypeOK' /\ FrameInv /\ KnownInv /\ [Next]_vars => KnownInv'
  <1> SUFFICES ASSUME TypeOK, TypeOK', FrameInv, KnownInv, [Next]_vars,
                      ~game'.told, ~overflowed', ~game'.garbled,
                      NEW k \in Keys \ ToggleKeys
               PROVE  HoldsAfter(Contents', game'.known, k, used') <=> k \in Expected(k)'
    BY DEF KnownInv
  <1>1. game \in Games /\ used \in Nat
    BY UsedType DEF TypeOK
  <1>2. ~game.told /\ ~overflowed /\ ~game.garbled =>
          (HoldsAfter(Contents, game.known, k, used) <=> k \in Expected(k))
    BY DEF KnownInv
  <1>3. CASE SlotSteps
    <2>1. UNCHANGED <<Contents, used, overflowed>> /\ game'.known = game.known
          /\ game'.told = game.told /\ game'.garbled = game.garbled
      BY <1>3, SlotStepsKeep DEF buffer, Contents, At, SlotOf
    <2>2. k \in Expected(k)' <=> k \in Expected(k)
      BY <1>3, ExpectedKept
    <2> QED BY <1>2, <2>1, <2>2
  <1>4. CASE ProcessKey
    <2> DEFINE key == Top.key
               a == [Top EXCEPT !.key = @ + 1]
    <2>1. /\ key \in Keys /\ frame # <<>> /\ frame' = SetTop(a) /\ InFrame("ProcessFrameInput")
          /\ UNCHANGED <<curinput, previnput>>
      BY <1>4 DEF ProcessKey, InFrame
    <2>2. a.at = "ProcessFrameInput" /\ a.inHandler = FALSE /\ a.key = key + 1
      BY <2>1, TopType DEF TypeOK, Activations, InFrame
    <2>3. Top' = a /\ frame' # <<>>
      <3> HIDE DEF a
      <3> QED BY <2>1, NewTop
    <2> HIDE DEF a
    <2>4. InFrame("ProcessFrameInput")' /\ Top'.key = key + 1
      BY <2>2, <2>3 DEF InFrame
    <2>5. k \in Int /\ key \in Int
      BY <2>1, InputAssumption DEF Keys
    <2> HIDE DEF key
    <2>6. Expected(k)' = IF k < key + 1 THEN curinput.keys ELSE previnput.keys
      BY <2>1, <2>4 DEF Expected, Processed
    <2>7. Expected(k) = IF k < key THEN curinput.keys ELSE previnput.keys
      BY <2>1 DEF Expected, Processed, key
    <2>8. /\ k # key => Expected(k)' = Expected(k)
          /\ k = key => Expected(k)' = curinput.keys /\ Expected(k) = previnput.keys
      BY <2>5, <2>6, <2>7
    <2>9. game'.told = game.told /\ game'.garbled = game.garbled /\ game'.known = game.known
      BY <1>4, ProcessSteps
    <2>10. CASE ~Changed(key)
      <3>1. UNCHANGED buffer
        BY <1>4, <2>10 DEF ProcessKey, key
      <3>2. UNCHANGED <<Contents, used, overflowed>>
        BY <3>1 DEF buffer, Contents, At, SlotOf
      <3> QED BY <1>2, <2>8, <2>9, <2>10, <3>2 DEF Changed
    <2>11. CASE Changed(key)
      <3> DEFINE e == KeyEvent(key)
      <3>1. AddEvent(e)
        BY <1>4, <2>11 DEF ProcessKey, key
      <3>2. e \in Events /\ e.ofs = key /\ (key \notin ToggleKeys => (e.pressed <=> key \in curinput.keys))
        BY <2>1 DEF KeyEvent, Events
      <3> HIDE DEF e
      <3>3. /\ ~overflowed /\ used' = used + 1 /\ used \in Nat
            /\ \A i \in 1 .. used : Contents'[i] = Contents[i]
            /\ Contents'[used + 1] = e
        BY <3>1, <3>2, PutAppends
      <3>4. HoldsAfter(Contents', game.known, k, used + 1)
              <=> IF e.ofs = k THEN e.pressed ELSE HoldsAfter(Contents, game.known, k, used)
        BY <3>3, HoldsAfterPut
      <3> QED BY <1>2, <2>8, <2>9, <3>2, <3>3, <3>4
    <2> QED BY <2>10, <2>11
  <1>5. CASE ProcessMouse
    <2> DEFINE a == [at |-> "messages", key |-> 1, inHandler |-> FALSE]
               e == [ofs |-> Mouse, pressed |-> TRUE]
    <2>1. /\ frame # <<>> /\ frame' = SetTop(a) /\ InFrame("ProcessFrameInput") /\ Top.key \notin Keys
          /\ UNCHANGED <<curinput, previnput>> /\ a.at = "messages"
      BY <1>5 DEF ProcessMouse, InFrame, input
    <2> HIDE DEF a
    <2>2. Top' = a
      BY <2>1, NewTop
    <2>3. ~InFrame("ProcessFrameInput")'
      BY <2>1, <2>2 DEF InFrame
    <2>4. k < Top.key
      <3>1. Top.key \in 1 .. LastKey + 1 /\ LastKey \in Nat
        BY <2>1, TopType, InputAssumption DEF TypeOK, Activations
      <3> QED BY <2>1, <3>1 DEF Keys
    <2>5. Expected(k)' = Expected(k)
      BY <2>1, <2>3, <2>4 DEF Expected, Processed
    <2>6. game'.told = game.told /\ game'.garbled = game.garbled /\ game'.known = game.known
      BY <1>5, ProcessSteps
    <2>7. CASE UNCHANGED buffer
      <3>1. UNCHANGED <<Contents, used, overflowed>>
        BY <2>7 DEF buffer, Contents, At, SlotOf
      <3> QED BY <1>2, <2>5, <2>6, <3>1
    <2>8. CASE AddEvent(e)
      <3>1. e \in Events /\ e.ofs # k
        BY InputAssumption DEF Events, Mouse, Keys
      <3> HIDE DEF e
      <3>2. /\ ~overflowed /\ used' = used + 1 /\ used \in Nat
            /\ \A i \in 1 .. used : Contents'[i] = Contents[i]
            /\ Contents'[used + 1] = e
        BY <2>8, <3>1, PutAppends
      <3>3. HoldsAfter(Contents', game'.known, k, used')
              <=> HoldsAfter(Contents, game.known, k, used)
        BY <2>6, <3>1, <3>2, HoldsAfterPut
      <3> QED BY <1>2, <2>5, <2>6, <3>2, <3>3
    <2> QED BY <1>5, <2>7, <2>8 DEF ProcessMouse
  <1>6. ASSUME NEW n \in BufferSizes, NEW junk \in JunkEvents, SetBufferSize(n, junk)
        PROVE  HoldsAfter(Contents', game'.known, k, used') <=> k \in Expected(k)'
    <2>1. Expected(k)' = Expected(k)
      BY <1>6 DEF SetBufferSize, input, Expected, Processed, InFrame, Top
    <2>2. CASE UNCHANGED <<buffer, game>>
      <3>1. UNCHANGED <<Contents, used, overflowed, game>>
        BY <2>2 DEF buffer, Contents, At, SlotOf
      <3> QED BY <1>2, <2>1, <3>1
    <2>3. CASE Resize(Capped(n), junk) /\ game' = [game EXCEPT !.garbled = @ \/ used > 0]
      <3>1. /\ game'.told = game.told /\ game'.known = game.known
            /\ game'.garbled <=> game.garbled \/ used > 0
        BY <1>1, <2>3 DEF Games
      <3>2. ~game.garbled /\ ~(used > 0)
        BY <3>1
      <3>4. used = 0
        BY <1>1, <3>2
      <3>3. used' = 0 /\ ~overflowed
        <4>1. Capped(n) \in Nat
          BY CappedType, InputAssumption
        <4> QED BY <2>3, <3>4, <4>1 DEF Resize, TypeOK
      <3> QED BY <1>2, <2>1, <3>1, <3>2, <3>3, <3>4, HoldsNone
    <2> QED BY <1>6, <2>2, <2>3 DEF SetBufferSize
  <1>7. CASE SetEventNotification \/ WaitForEvent
    <2>1. UNCHANGED <<data, size, used, startOffset, overflowed, frame, curinput, previnput>>
      BY <1>7 DEF SetEventNotification, WaitForEvent, input
    <2>2. game'.told = game.told /\ game'.garbled = game.garbled /\ game'.known = game.known
      BY <1>1, <1>7 DEF SetEventNotification, WaitForEvent, Games
    <2>3. UNCHANGED Contents
      BY <2>1 DEF Contents, At, SlotOf
    <2>4. Expected(k)' = Expected(k)
      BY <2>1 DEF Expected, Processed, InFrame, Top
    <2> QED BY <1>2, <2>1, <2>2, <2>3, <2>4
  <1>8. ASSUME NEW n \in 0 .. MaxSize, GetDeviceData(n)
        PROVE  HoldsAfter(Contents', game'.known, k, used') <=> k \in Expected(k)'
    <2> DEFINE count == Retrieved(n)
    <2>1. count \in 0 .. used
      BY RetrievedType
    <2>2. /\ GetData(count) /\ game'.known = HeldAfter(count)
          /\ game'.told = (game.told \/ overflowed) /\ game'.garbled = game.garbled
      BY <1>1, <1>8 DEF GetDeviceData, Games
    <2>3. Expected(k)' = Expected(k)
      BY <1>8 DEF GetDeviceData, input, Expected, Processed, InFrame, Top
    <2> HIDE DEF count
    <2>4. used' = used - count
      BY <2>2 DEF GetData, Remaining
    <2>5. \A i \in 1 .. used - count : Contents'[i] = Contents[count + i]
      <3>1. /\ data' = data /\ size' = size /\ startOffset' = startOffset + count
            /\ startOffset \in Int
        BY <2>2 DEF GetData, TypeOK
      <3>2. ASSUME NEW i \in 1 .. used - count
            PROVE  Contents'[i] = Contents[count + i]
        <4>1. i \in 1 .. used' /\ count + i \in 1 .. used
          BY <1>1, <2>1, <2>4
        <4>2. (startOffset + count) + (i - 1) = startOffset + ((count + i) - 1)
          BY <2>1, <3>1
        <4>3. Contents'[i] = data[((startOffset + count) + (i - 1)) % size]
          BY <3>1, <4>1 DEF Contents, At, SlotOf
        <4>4. Contents[count + i] = data[(startOffset + ((count + i) - 1)) % size]
          BY <4>1 DEF Contents, At, SlotOf
        <4> QED BY <4>2, <4>3, <4>4
      <3> QED BY <3>2
    <2>6. k \in game'.known <=> HoldsAfter(Contents, game.known, k, count)
      BY <2>1, <2>2, HeldIs
    <2>7. HoldsAfter(Contents', game'.known, k, used - count)
            <=> HoldsAfter(Contents, game.known, k, used)
      BY <1>1, <2>1, <2>5, <2>6, HoldsAfterGet
    <2> QED BY <1>2, <2>2, <2>3, <2>4, <2>7
  <1>9. CASE Recover
    <2>1. /\ GetData(used) /\ game'.known = curinput.keys /\ GameRuns
          /\ UNCHANGED <<curinput, previnput, frame>>
      BY <1>1, <1>9 DEF Recover, Games, UsesDevice, input
    <2>2. used' = 0
      BY <1>1, <2>1 DEF GetData, Remaining
    <2>3. Expected(k)' = Expected(k)
      BY <2>1 DEF Expected, Processed, InFrame, Top
    <2>4. Expected(k) = curinput.keys
      BY <2>1, AllProcessed
    <2> QED BY <2>1, <2>2, <2>3, <2>4, HoldsNone
  <1> QED BY <1>3, <1>4, <1>5, <1>6, <1>7, <1>8, <1>9, NextSplit DEF DeviceSteps

(* No input is lost without a word: a game that has not been told of an    *)
(* overflow, and will not be with its next read, knows of every key from   *)
(* the events it has read and those in the buffer, for every size of the   *)
(* buffer and however frames nest.                                         *)
THEOREM NothingLostSilently == Spec => []NoSilentLoss
  <1>1. Init => FrameInv /\ KnownInv
    <2> SUFFICES ASSUME Init
                 PROVE  FrameInv /\ KnownInv
      OBVIOUS
    <2>1. frame = <<>> /\ used = 0 /\ game.known = {} /\ curinput.keys = {}
      BY DEF Init, NoInput
    <2>2. \A k : Expected(k) = {}
      BY <2>1 DEF Expected, Processed, InFrame
    <2>3. FrameInv
      BY <2>1 DEF FrameInv
    <2> QED BY <2>1, <2>2, <2>3, HoldsNone DEF KnownInv
  <1>2. TypeOK /\ KnownInv => NoSilentLoss
    <2> SUFFICES ASSUME TypeOK, KnownInv, ~game.told /\ ~overflowed /\ ~game.garbled,
                        NEW k \in Keys \ ToggleKeys, Processed(k)
                 PROVE  k \in HeldAfter(used) <=> k \in curinput.keys
      BY DEF NoSilentLoss
    <2>1. HoldsAfter(Contents, game.known, k, used) <=> k \in Expected(k)
      BY DEF KnownInv
    <2>2. Expected(k) = curinput.keys
      BY DEF Expected
    <2>3. k \in HeldAfter(used) <=> HoldsAfter(Contents, game.known, k, used)
      BY UsedType, HeldIs
    <2> QED BY <2>1, <2>2, <2>3
  <1> QED BY <1>1, <1>2, TypeCorrect, FrameStep, KnownStep, PTL DEF Spec
=============================================================================
