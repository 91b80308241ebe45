------------------------------- MODULE Input -------------------------------
(***************************************************************************)
(* How the game sees the input of a frame (hooks/hooks/inputhooks.cpp and  *)
(* the end of FrameBoundary, hooks/wintasee.cpp): GetAsyncKeyState with    *)
(* its "pressed since the last call" bit, the ring buffer of a DirectInput *)
(* device, and the key messages sent to the window.  The window procedure  *)
(* is game code and may enter FrameBoundary again.                         *)
(*                                                                         *)
(* The debugger puts the input into curinput while the frame is reported.  *)
(* One device and one window stand for all of them: every event goes to    *)
(* every device.  Time stamps and sequence numbers of events are left out. *)
(***************************************************************************)
EXTENDS Integers, Sequences, FiniteSets

CONSTANTS
  LastKey,      \* virtual keys are 1 .. LastKey
  ToggleKeys,   \* VK_CAPITAL, VK_NUMLOCK, VK_SCROLL: curinput has their toggle status
  ToggleCalls,  \* 16: calls of GetAsyncKeyState that report a toggled key
  Limit,        \* 4096: calls of GetAsyncKeyState in a frame until keys seem released
  Window,       \* 512: calls for which they do
  BufferSizes,  \* sizes of the buffer the game asks for
  MaxSize,      \* 1024: largest size of the buffer
  JunkEvents,   \* what memory that realloc adds may hold
  Programs,     \* games: each a set of interfaces, "DirectInput" and "GetAsyncKeyState"
  MaxDepth,     \* bound: nesting of FrameBoundary
  MaxFrames,    \* bound
  MaxPolls,     \* bound: calls of GetAsyncKeyState in a frame, except in a loop
  NoKey

Keys == 1 .. LastKey
Mouse == 0      \* the offset of an event of the mouse, for all of its axes and buttons

ASSUME InputAssumption ==
  /\ LastKey \in Nat \ {0} /\ ToggleKeys \subseteq Keys /\ NoKey \notin Keys
  /\ ToggleCalls \in Nat \ {0} /\ Limit \in Nat \ {0} /\ Window \in Nat
  /\ BufferSizes \subseteq Nat /\ MaxSize \in Nat
  /\ MaxDepth \in Nat \ {0} /\ MaxFrames \in Nat /\ MaxPolls \in Nat /\ MaxPolls < Window
  /\ JunkEvents \subseteq [ofs : Keys \cup {0}, pressed : BOOLEAN]

VARIABLES
  curinput,     \* keys held (or toggled on), and whether the mouse moved
  previnput,
  asynckeybit,
  requests,     \* g_midFrameAsyncKeyRequests
  frame,        \* activations of FrameBoundary, innermost last
  data,         \* BufferedInput of the device
  size,
  used,
  startOffset,
  overflowed,
  event,        \* the event of the device: "none", "unset" or "set"
  acquired,     \* m_acquired
  uses,         \* the interfaces the game uses
  frames,       \* frames so far
  spin,         \* the key whose release the primary thread of the game waits for, in a loop
  polls,        \* other calls of GetAsyncKeyState in this frame
  game          \* what the game has been told, see Init

vars == <<curinput, previnput, asynckeybit, requests, frame, data, size, used, startOffset,
          overflowed, event, acquired, uses, frames, spin, polls, game>>
input  == <<curinput, previnput, asynckeybit>>
buffer == <<data, size, used, startOffset, overflowed, event>>
loop   == <<requests, spin, polls>>

Inputs == [keys : SUBSET Keys, moved : BOOLEAN]
Events == [ofs : Keys \cup {Mouse}, pressed : BOOLEAN]
Activations ==
  [at : {"ProcessFrameInput", "messages"}, key : 1 .. LastKey + 1, inHandler : BOOLEAN]
Games ==
  [known : SUBSET Keys, told : BOOLEAN, garbled : BOOLEAN, woken : BOOLEAN, armed : BOOLEAN,
   fresh : SUBSET Keys]
NoInput == [keys |-> {}, moved |-> FALSE]

Changed(k) == (k \in curinput.keys) # (k \in previnput.keys)
Top == frame[Len(frame)]
SetTop(activation) == [frame EXCEPT ![Len(frame)] = activation]

(* The primary thread runs game code: not in FrameBoundary, or in the      *)
(* window procedure.                                                       *)
GameRuns == (frame # <<>> => Top.inHandler) /\ spin = NoKey
UsesDevice == GameRuns /\ "DirectInput" \in uses
UsesKeys == "GetAsyncKeyState" \in uses

Init ==
  /\ curinput = NoInput /\ previnput = NoInput
  /\ asynckeybit = [k \in Keys |-> 0]
  /\ requests = 0
  /\ frame = <<>>
  /\ data = <<>> /\ size = 0 /\ used = 0 /\ startOffset = 0 /\ overflowed = FALSE
  /\ event = "none"
  /\ acquired = FALSE
  /\ uses \in Programs
  /\ frames = 0
  /\ spin = NoKey /\ polls = 0
  /\ game = [known   |-> {},     \* keys held according to the events it has read
             told    |-> FALSE,  \* it has been told of an overflow it has not recovered from
             garbled |-> FALSE,  \* the buffer was resized with events in it
             woken   |-> FALSE,  \* it has seen the event, and has not read the buffer since
             armed   |-> FALSE,  \* it gave the event when there were no events to read
             fresh   |-> {}]     \* keys pressed since it last asked for them

-----------------------------------------------------------------------------
(* BufferedInput.  The events in the buffer, oldest first.                 *)
SlotFromStart(n) == n % size
SlotOf(n) == (startOffset + n) % size
At(i) == data[SlotOf(i - 1)]
Contents == [i \in 1 .. used |-> At(i)]

(* AddEvent, AddMouseEvent.                                                *)
IsFull == used >= size
Signalled == IF event = "none" THEN "none" ELSE "set"
AddEventSilently(e) ==
  /\ event' = Signalled
  /\ IF IsFull THEN UNCHANGED <<data, used>>
     ELSE data' = [data EXCEPT ![SlotOf(used)] = e] /\ used' = used + 1
  /\ UNCHANGED <<size, startOffset, overflowed>>
AddEvent(e) ==
  /\ event' = Signalled
  /\ IF IsFull THEN overflowed' = TRUE /\ UNCHANGED <<data, used>>
     ELSE /\ data' = [data EXCEPT ![SlotOf(used)] = e]
          /\ used' = used + 1
          /\ UNCHANGED overflowed
  /\ UNCHANGED <<size, startOffset>>

(* GetData of count events, none if it only peeks.                         *)
Remaining(count) == used - count
SignalledOnce(count) == event
SignalledAgain(count) ==
  IF count > 0 /\ Remaining(count) > 0 /\ event # "none" THEN "set" ELSE event
GetData(count) ==
  /\ used' = Remaining(count)
  /\ startOffset' = startOffset + count
  /\ overflowed' = (overflowed /\ count = 0)
  /\ event' = SignalledAgain(count)
  /\ UNCHANGED <<data, size>>

(* Resize: realloc keeps the slots where they are.                         *)
Resize(newSize, junk) ==
  /\ size' = newSize
  /\ data' = [j \in 0 .. newSize - 1 |-> IF j < size THEN data[j] ELSE junk]
  /\ used' = IF used > newSize THEN newSize ELSE used
  /\ overflowed' = (overflowed \/ used > newSize)
  /\ UNCHANGED <<startOffset, event>>

-----------------------------------------------------------------------------
(* The keys held after reading the first count events: the last event of a *)
(* key decides.  The events of a toggle key never say that it is released. *)
LastOf(k, count) ==
  {i \in 1 .. count : At(i).ofs = k /\ \A j \in i + 1 .. count : At(j).ofs # k}
HeldAfter(count) ==
  {k \in Keys : IF LastOf(k, count) = {} THEN k \in game.known
                ELSE \E i \in LastOf(k, count) : At(i).pressed}

(* SetProperty(DIPROP_BUFFERSIZE), Acquire and Unacquire,                  *)
(* SetEventNotification.                                                   *)
Uncapped(newSize) == newSize
Capped(newSize) == IF newSize > MaxSize THEN MaxSize ELSE newSize
SetBufferSize(newSize, junk) ==
  /\ UsesDevice
  /\ IF Capped(newSize) = size THEN UNCHANGED <<buffer, game>>
     ELSE Resize(Capped(newSize), junk) /\ game' = [game EXCEPT !.garbled = @ \/ used > 0]
  /\ UNCHANGED <<input, loop, frame, acquired, uses, frames>>

SetAcquired(value) ==
  /\ UsesDevice
  /\ acquired' = value
  /\ UNCHANGED <<input, loop, buffer, frame, uses, frames, game>>

SetEventNotification ==
  /\ UsesDevice /\ ~acquired
  /\ event' = "unset"
  /\ game' = [game EXCEPT !.armed = (used = 0), !.woken = FALSE]
  /\ UNCHANGED <<input, loop, data, size, used, startOffset, overflowed, frame, acquired, uses, frames>>

(* The game waits for the event, which resets it.                          *)
WaitForEvent ==
  /\ UsesDevice /\ event = "set"
  /\ event' = "unset"
  /\ game' = [game EXCEPT !.woken = TRUE]
  /\ UNCHANGED <<input, loop, data, size, used, startOffset, overflowed, frame, acquired, uses, frames>>

(* GetDeviceData.                                                          *)
Retrieved(requested) == IF requested < used THEN requested ELSE used
GetDeviceData(requested) ==
  /\ UsesDevice /\ acquired /\ size > 0
  /\ GetData(Retrieved(requested))
  /\ game' = [game EXCEPT !.known = HeldAfter(Retrieved(requested)), !.told = @ \/ overflowed,
                          !.woken = @ /\ requested = 0]
  /\ UNCHANGED <<input, loop, frame, acquired, uses, frames>>

(* A game that is told of an overflow, or has resized the buffer, reads    *)
(* what is left and asks for the state of the device, GetDeviceState.      *)
Recover ==
  /\ UsesDevice /\ acquired /\ size > 0 /\ (game.told \/ game.garbled)
  /\ GetData(used)
  /\ game' = [game EXCEPT !.known = curinput.keys, !.told = FALSE, !.garbled = FALSE,
                          !.woken = FALSE]
  /\ UNCHANGED <<input, loop, frame, acquired, uses, frames>>

-----------------------------------------------------------------------------
(* GetAsyncKeyState: its value, and what it changes.                       *)
NeverSuppressed == FALSE
Suppressed == requests + 1 >= Limit /\ requests + 1 < Limit + Window
AsyncValue(k) ==
  IF Suppressed THEN "released"
  ELSE IF k \in ToggleKeys
  THEN IF asynckeybit[k] = 0 THEN "released"
       ELSE IF asynckeybit[k] = 1 THEN "just pressed" ELSE "held"
  ELSE IF k \in curinput.keys
  THEN IF asynckeybit[k] = 0 THEN "held" ELSE "just pressed"
  ELSE IF asynckeybit[k] = 0 THEN "released" ELSE "pressed earlier"

KeptBit(k) == asynckeybit[k]
NextBit(k) ==
  IF k \in ToggleKeys /\ asynckeybit[k] # 0 /\ asynckeybit[k] < ToggleCalls
  THEN asynckeybit[k] + 1 ELSE 0

(* Beyond the window all numbers of requests are alike.                    *)
GetAsyncKeyState(k, isPrimary) ==
  /\ requests' = IF requests < Limit + Window THEN requests + 1 ELSE requests
  /\ asynckeybit' = IF ~Suppressed /\ isPrimary THEN [asynckeybit EXCEPT ![k] = NextBit(k)]
                    ELSE asynckeybit
  /\ game' = IF ~Suppressed /\ isPrimary THEN [game EXCEPT !.fresh = @ \ {k}] ELSE game
  /\ UNCHANGED <<curinput, previnput, buffer, frame, acquired, uses, frames>>

Poll(k, isPrimary) ==
  /\ UsesKeys /\ (isPrimary => GameRuns)
  /\ polls < MaxPolls /\ polls' = polls + 1
  /\ GetAsyncKeyState(k, isPrimary)
  /\ UNCHANGED spin

(* "games that pause until a key is released" (inputhooks.cpp:1122).       *)
StartSpin(k) ==
  /\ UsesKeys /\ GameRuns
  /\ polls < MaxPolls /\ polls' = polls + 1
  /\ spin' = k
  /\ UNCHANGED <<input, buffer, requests, frame, acquired, uses, frames, game>>
Spin ==
  /\ spin # NoKey
  /\ GetAsyncKeyState(spin, TRUE)
  /\ spin' = IF AsyncValue(spin) \in {"just pressed", "held"} THEN spin ELSE NoKey
  /\ UNCHANGED polls

-----------------------------------------------------------------------------
(* FrameBoundary, from where the debugger has put in the input.            *)
FrameBoundary(newInput) ==
  /\ GameRuns /\ frames < MaxFrames /\ Len(frame) < MaxDepth
  /\ frames' = frames + 1
  /\ previnput' = curinput /\ curinput' = newInput
  /\ frame' = Append(frame, [at |-> "ProcessFrameInput", key |-> 1, inHandler |-> FALSE])
  /\ UNCHANGED <<asynckeybit, buffer, loop, acquired, uses, game>>

(* ProcessFrameInput, for one key.                                         *)
KeyBit(k) == IF k \in ToggleKeys \/ k \in curinput.keys THEN 1 ELSE 0
KeyEvent(k) == [ofs |-> k, pressed |-> k \in ToggleKeys \/ k \in curinput.keys]
InFrame(at) == frame # <<>> /\ Top.at = at /\ ~Top.inHandler
ProcessKey ==
  /\ InFrame("ProcessFrameInput") /\ Top.key \in Keys
  /\ frame' = SetTop([Top EXCEPT !.key = @ + 1])
  /\ IF Changed(Top.key)
     THEN /\ asynckeybit' = [asynckeybit EXCEPT ![Top.key] = KeyBit(Top.key)]
          /\ AddEvent(KeyEvent(Top.key))
          /\ game' = [game EXCEPT !.fresh = IF KeyEvent(Top.key).pressed THEN @ \cup {Top.key} ELSE @]
     ELSE UNCHANGED <<asynckeybit, buffer, game>>
  /\ UNCHANGED <<curinput, previnput, loop, acquired, uses, frames>>

ProcessMouse ==
  /\ InFrame("ProcessFrameInput") /\ Top.key \notin Keys
  /\ frame' = SetTop([at |-> "messages", key |-> 1, inHandler |-> FALSE])
  /\ IF curinput.moved THEN AddEvent([ofs |-> Mouse, pressed |-> TRUE]) ELSE UNCHANGED buffer
  /\ UNCHANGED <<input, loop, acquired, uses, frames, game>>

(* The messages of one key to the window procedure.                        *)
SendMessages ==
  /\ InFrame("messages") /\ Top.key \in Keys
  /\ frame' = SetTop([Top EXCEPT !.key = @ + 1, !.inHandler = Changed(Top.key)])
  /\ UNCHANGED <<input, buffer, loop, acquired, uses, frames, game>>
HandlerReturns ==
  /\ frame # <<>> /\ Top.inHandler /\ spin = NoKey
  /\ frame' = SetTop([Top EXCEPT !.inHandler = FALSE])
  /\ UNCHANGED <<input, buffer, loop, acquired, uses, frames, game>>

ExitFrameBoundary ==
  /\ InFrame("messages") /\ Top.key \notin Keys
  /\ frame' = SubSeq(frame, 1, Len(frame) - 1)
  /\ requests' = 0 /\ polls' = 0
  /\ UNCHANGED <<input, buffer, spin, acquired, uses, frames, game>>

Next ==
  \/ \E i \in Inputs : FrameBoundary(i)
  \/ ProcessKey \/ ProcessMouse \/ SendMessages \/ HandlerReturns \/ ExitFrameBoundary
  \/ \E k \in Keys, isPrimary \in BOOLEAN : Poll(k, isPrimary)
  \/ \E k \in Keys : StartSpin(k)
  \/ Spin
  \/ \E n \in BufferSizes, junk \in JunkEvents : SetBufferSize(n, junk)
  \/ \E value \in BOOLEAN : SetAcquired(value)
  \/ SetEventNotification \/ WaitForEvent
  \/ \E n \in 0 .. MaxSize : GetDeviceData(n)
  \/ Recover

Spec == Init /\ [][Next]_vars

(* A game that waits in a loop keeps looking.                              *)
FairSpec == Spec /\ WF_vars(Spin)

-----------------------------------------------------------------------------
TypeOK ==
  /\ curinput \in Inputs /\ previnput \in Inputs
  /\ asynckeybit \in [Keys -> 0 .. ToggleCalls]
  /\ requests \in 0 .. Limit + Window
  /\ frame \in Seq(Activations)
  /\ Len(frame) <= MaxDepth
  /\ size \in 0 .. MaxSize /\ used \in 0 .. size /\ startOffset \in Nat
  /\ data \in [0 .. size - 1 -> Events]
  /\ overflowed \in BOOLEAN
  /\ event \in {"none", "unset", "set"}
  /\ acquired \in BOOLEAN
  /\ uses \in Programs
  /\ frames \in 0 .. MaxFrames
  /\ spin \in Keys \cup {NoKey}
  /\ polls \in 0 .. MaxPolls
  /\ game \in Games

(* The ring buffer is the queue the game is promised.                      *)
Queue == INSTANCE InputQueue
           WITH queue <- Contents, Sizes <- {Capped(n) : n \in BufferSizes}
ImplementsQueue == Queue!QueueSpec

(* No input is lost without a word: while the game has not been told of an *)
(* overflow and will not be with its next read, the events it has read and *)
(* those in the buffer give the keys that are held.                        *)
Processed(k) == InFrame("ProcessFrameInput") => k < Top.key
NoSilentLoss ==
  ~game.told /\ ~overflowed /\ ~game.garbled =>
    \A k \in Keys \ ToggleKeys : Processed(k) =>
      (k \in HeldAfter(used) <=> k \in curinput.keys)

(* A game that reads some of the events each time the event is signalled   *)
(* is never left with events it does not know of.                          *)
EventMeansData ==
  game.armed /\ used > 0 /\ ~game.woken => event = "set"

(* A key is reported as just pressed at most once for each press.          *)
JustPressedOnce ==
  [][\A k \in Keys :
       /\ Poll(k, TRUE) \/ (spin = k /\ Spin)
       /\ AsyncValue(k) = "just pressed"
       => k \in game.fresh]_vars

(* A loop that waits for the release of a key ends, although curinput does *)
(* not change before the next frame.                                       *)
SpinEnds == \A k \in Keys : spin = k ~> spin # k

(* "if the key has been pressed since the last call to this function"      *)
(* (inputhooks.cpp:1145).                                                  *)
PressIsReported ==
  [][\A k \in game.fresh : Poll(k, TRUE) /\ ~Suppressed => AsyncValue(k) # "released"]_vars
=============================================================================
