------------------------------ MODULE DetTimer ------------------------------
(***************************************************************************)
(* The deterministic timer of the hooks DLL (hooks/dettime.cpp) together   *)
(* with the control flow that drives it: FrameBoundary (hooks/wintasee.cpp)*)
(* and the Sleep / wait hooks that call AddDelay (hooks/hooks/waithooks).  *)
(*                                                                         *)
(* Everything here runs on one thread, the primary thread of the game, but *)
(* not in one piece: FrameBoundary calls back into the game before it      *)
(* enters the timer (posted messages, SetTimer callbacks) and again when it*)
(* dispatches the input of the frame, and AddDelay calls FrameBoundary in  *)
(* a loop.  The activations in progress are kept on an explicit stack.     *)
(*                                                                         *)
(* The real clock is read only inside EnterFrameBoundary; it is an input   *)
(* chosen freely there, as the number of milliseconds since the last entry.*)
(***************************************************************************)
EXTENDS Integers, Sequences

CONSTANTS
  Framerates,       \* values the user may give tasflags.framerate (0 = use the system timer)
  Delays,           \* arguments (ms) of the Sleep and timed wait calls of the game
  Elapsed,          \* real time (ms) that may have passed since the previous frame entry
  Timescale,        \* tasflags.timescale
  TimescaleDivisor, \* tasflags.timescaleDivisor (slow motion when larger than Timescale)
  FFSleepSkip,      \* tasflags.fastForwardFlags & FFMODE_SLEEPSKIP
  FFWaitSkip,       \* tasflags.fastForwardFlags & FFMODE_WAITSKIP
  StartTicks,       \* tasflags.initialTime
  DWord,            \* 2^32 in the program: the values of a DWORD are 0..DWord-1
  LongestFrame,     \* no frame lasts longer than this many ticks (derived from Framerates)
  MaxFrames,        \* bound: the game makes no call once this many frames are timed
  MaxDepth          \* bound: activations on the stack

(* Length of a frame at rate r when the fraction a is left over from the   *)
(* frames before it.                                                       *)
FrameTicksDropFraction(r, a) == 1000 \div r
FrameTicks(r, a) == 1000 \div r + (a + (1000 % r)) \div r

DeterministicRates == Framerates \ {0}

ASSUME RatesAssumption ==
  /\ Framerates \subseteq Nat
  /\ Delays \subseteq Nat \ {0}
  /\ Elapsed \subseteq Nat

ASSUME ScaleAssumption ==
  /\ Timescale \in Nat \ {0}
  /\ TimescaleDivisor \in Nat \ {0}
  /\ FFSleepSkip \in BOOLEAN /\ FFWaitSkip \in BOOLEAN

ASSUME WidthAssumption ==
  /\ DWord \in Nat \ {0}
  /\ StartTicks \in 0 .. DWord - 1
  /\ \A d \in Delays : d < DWord   \* dwMilliseconds is a DWORD
  /\ MaxFrames \in Nat /\ MaxDepth \in Nat

ASSUME LongestFrameAssumption ==
  /\ LongestFrame \in Nat
  /\ \A r, q \in DeterministicRates : \A a \in 0 .. q - 1 : FrameTicks(r, a) <= LongestFrame

VARIABLES
  framerate,            \* tasflags.framerate, written by the debugger
  fastForward,          \* tasflags.fastForward, written by the debugger
  ticks,                \* the time the game sees
  ticksMinorAccum,      \* fraction of a tick carried over, in units of 1/framesPerSecond
  lastEnterTicks,
  lastNewTicks,
  addedDelay,           \* delay already given to the game and not yet paid in frames
  forceAdvancedTicks,
  lastOvershot,         \* real ms the last frame ended too late
  lastEnterValid,
  isSleepEnterFB,       \* s_isSleepEnterFB
  isWaitEnterFB,        \* s_isWaitEnterFB
  dllInitializationDone,
  inFrameBoundary,
  stack,                \* activations of AddDelay and FrameBoundary, innermost last
  crashed,              \* the process died of an integer division by zero
  desiredDeltaTime,     \* history: real ms the last frame was supposed to last
  soundTicks,           \* history: ticks handed to AdvanceTimeAndMixAll
  timedFrames           \* history: frames the deterministic timer entered

flags    == <<framerate, fastForward>>
clockVars == <<ticks, ticksMinorAccum, lastEnterTicks, lastNewTicks, forceAdvancedTicks,
              lastOvershot, lastEnterValid, isSleepEnterFB, isWaitEnterFB,
              desiredDeltaTime, soundTicks, timedFrames>>
control  == <<dllInitializationDone, inFrameBoundary, stack, crashed>>
vars     == <<flags, clockVars, addedDelay, control>>

-----------------------------------------------------------------------------
Add(a, b) == (a + b) % DWord
Sub(a, b) == (a - b) % DWord

(* C's integer division, which rounds towards zero.                        *)
Quotient(a, b) == IF a >= 0 THEN a \div b ELSE -((-a) \div b)

Larger(a, b) == IF a > b THEN a ELSE b
ClampAbove(x, hi) == IF x > hi THEN hi ELSE x
Clamp(x, hi) == IF x < 0 THEN 0 ELSE IF x > hi THEN hi ELSE x

AddDelayCalls      == [fn : {"AddDelay"}, max : Nat, isSleep : BOOLEAN]
FrameBoundaryCalls == [fn : {"FrameBoundary"}, framerate : Framerates,
                       pc : {"callbacks", "command", "dispatch"}]
Activations        == AddDelayCalls \cup FrameBoundaryCalls

Running(fn) == /\ ~crashed
               /\ stack # <<>>
               /\ stack[Len(stack)].fn = fn
At(pc)      == Running("FrameBoundary") /\ stack[Len(stack)].pc = pc
Current     == stack[Len(stack)]
Push(call)  == stack' = Append(stack, call)
Return      == stack' = SubSeq(stack, 1, Len(stack) - 1)
Goto(pc)    == stack' = [stack EXCEPT ![Len(stack)].pc = pc]

(* Code of the game runs at the bottom of the stack, in the callbacks that *)
(* FrameBoundary makes before it enters the timer, and in the window       *)
(* procedures the input of the frame is dispatched to.                     *)
GameRuns ==
  /\ ~crashed
  /\ stack = <<>> \/ At("callbacks") \/ At("dispatch")

GameMayCall ==
  /\ GameRuns
  /\ timedFrames < MaxFrames
  /\ Len(stack) < MaxDepth
-----------------------------------------------------------------------------
Init ==
  /\ framerate \in Framerates
  /\ fastForward = FALSE
  /\ ticks = StartTicks /\ lastEnterTicks = StartTicks
  /\ ticksMinorAccum = 0
  /\ lastNewTicks = 0
  /\ addedDelay = 0 /\ forceAdvancedTicks = 0
  /\ lastOvershot = 0
  /\ lastEnterValid = FALSE
  /\ isSleepEnterFB = FALSE /\ isWaitEnterFB = FALSE
  /\ dllInitializationDone = FALSE
  /\ inFrameBoundary = FALSE
  /\ stack = <<>>
  /\ crashed = FALSE
  /\ desiredDeltaTime = 0 /\ soundTicks = 0 /\ timedFrames = 0

(* PostDllMain, on its own thread: frames count from now on, and the first *)
(* one is not throttled (OnSystemTimerRecalibrated).                       *)
PostDllMainOnPrimaryThread ==
  /\ ~dllInitializationDone /\ stack = <<>>
  /\ dllInitializationDone' = TRUE
  /\ lastEnterValid' = FALSE
  /\ UNCHANGED <<flags, ticks, ticksMinorAccum, lastEnterTicks, lastNewTicks, addedDelay,
                 forceAdvancedTicks, lastOvershot, isSleepEnterFB, isWaitEnterFB,
                 inFrameBoundary, stack, crashed, desiredDeltaTime, soundTicks, timedFrames>>
PostDllMain ==
  /\ ~dllInitializationDone
  /\ dllInitializationDone' = TRUE
  /\ lastEnterValid' = FALSE
  /\ UNCHANGED <<flags, ticks, ticksMinorAccum, lastEnterTicks, lastNewTicks, addedDelay,
                 forceAdvancedTicks, lastOvershot, isSleepEnterFB, isWaitEnterFB,
                 inFrameBoundary, stack, crashed, desiredDeltaTime, soundTicks, timedFrames>>

(* The debugger toggles fast-forward while the game runs.                  *)
SetFastForward ==
  /\ fastForward' = ~fastForward
  /\ UNCHANGED <<framerate, clockVars, addedDelay, control>>

-----------------------------------------------------------------------------
(* Delay that may stay unpaid when AddDelay returns.                       *)
UnlimitedDelay == DWord
MaxDeferredDelay == lastNewTicks * 6

(* Sleep and timed waits of the primary thread: the delay is added to the  *)
(* game's time at once, and paid in frames by the loop below.  With the    *)
(* system timer selected the call really sleeps and changes nothing here.  *)
AddDelay(delayTicks, isSleep) ==
  /\ GameMayCall
  /\ framerate > 0
  /\ addedDelay' = Add(addedDelay, delayTicks)
  /\ ticks' = Add(ticks, delayTicks)
  /\ forceAdvancedTicks' = Add(forceAdvancedTicks, delayTicks)
  /\ Push([fn |-> "AddDelay", max |-> MaxDeferredDelay, isSleep |-> isSleep])
  /\ UNCHANGED <<flags, ticksMinorAccum, lastEnterTicks, lastNewTicks, lastOvershot,
                 lastEnterValid, isSleepEnterFB, isWaitEnterFB, dllInitializationDone,
                 inFrameBoundary, crashed, desiredDeltaTime, soundTicks, timedFrames>>

(* MySleep, and MySleepEx of a call that is not alertable.                 *)
Sleep(dwMilliseconds) == AddDelay(dwMilliseconds, TRUE)

(* Only short waits are taken to last their full time-out.                 *)
TransferWait(dwMilliseconds) == dwMilliseconds < 100 /\ AddDelay(dwMilliseconds, FALSE)

(* while(addedDelay > maxDeferredDelay): the limit was computed before the *)
(* loop.  FrameBoundary returns at once while the DLL is not initialized.  *)
AddDelayFrame ==
  /\ Running("AddDelay")
  /\ addedDelay > Current.max
  /\ isSleepEnterFB' = Current.isSleep
  /\ isWaitEnterFB' = ~Current.isSleep
  /\ IF dllInitializationDone
       THEN Push([fn |-> "FrameBoundary", framerate |-> framerate, pc |-> "callbacks"])
       ELSE UNCHANGED stack
  /\ UNCHANGED <<flags, ticks, ticksMinorAccum, lastEnterTicks, lastNewTicks, addedDelay,
                 forceAdvancedTicks, lastOvershot, lastEnterValid, dllInitializationDone,
                 inFrameBoundary, crashed, desiredDeltaTime, soundTicks, timedFrames>>

AddDelayReturn ==
  /\ Running("AddDelay")
  /\ addedDelay <= Current.max
  /\ Return
  /\ UNCHANGED <<flags, clockVars, addedDelay, dllInitializationDone, inFrameBoundary, crashed>>

-----------------------------------------------------------------------------
(* The game draws: FrameBoundary takes a copy of the frame rate and lets   *)
(* posted messages and due timers run.                                     *)
FrameBoundary ==
  /\ GameMayCall
  /\ dllInitializationDone
  /\ Push([fn |-> "FrameBoundary", framerate |-> framerate, pc |-> "callbacks"])
  /\ UNCHANGED <<flags, clockVars, addedDelay, dllInitializationDone, inFrameBoundary, crashed>>

(* ExitFrameBoundary: the frame pays its length of the added delay.        *)
NothingPaid == addedDelay
PaidDelay == IF addedDelay > lastNewTicks THEN addedDelay - lastNewTicks ELSE 0

ExitFrameBoundary ==
  addedDelay' = IF framerate > 0 THEN PaidDelay ELSE addedDelay

(* The game's time on entry to a frame of newTicks of which takenTicks have*)
(* been given to the game already.                                         *)
UnguardedTime(newTicks, takenTicks) == Add(ticks, newTicks - takenTicks)
CompensatedTime(newTicks, takenTicks) ==
  IF newTicks > takenTicks THEN Add(ticks, newTicks - takenTicks + lastOvershot) ELSE ticks
TimeOnEntry(newTicks, takenTicks) ==
  IF newTicks > takenTicks THEN Add(ticks, newTicks - takenTicks) ELSE ticks

(* Real ms, before scaling, that the frame should still last: signed, since*)
(* the overshoot of the last frame may exceed the length of this one.      *)
UnsignedRest(newTicks) == Sub(newTicks, lastOvershot)
Rest(newTicks) == newTicks - lastOvershot

(* EnterFrameBoundary(framesPerSecond) when the real clock is elapsed ms   *)
(* past the previous entry.                                                *)
EnterFrameBoundary(framesPerSecond, elapsed) ==
  LET newTicks   == FrameTicks(framesPerSecond, ticksMinorAccum)
      accum      == ticksMinorAccum + (1000 % framesPerSecond)
      takenTicks == Add(Sub(ticks, lastEnterTicks), forceAdvancedTicks)
      sleeping   == isSleepEnterFB \/ isWaitEnterFB
      entered    == TimeOnEntry(newTicks, takenTicks)
      scaled     == Rest(newTicks) * TimescaleDivisor
      desired    == IF Timescale > 1 THEN Quotient(scaled, Timescale) ELSE scaled
      skip       == /\ fastForward
                    /\ isSleepEnterFB => FFSleepSkip
                    /\ isWaitEnterFB => FFWaitSkip
      throttled  == IF ~skip /\ lastEnterValid THEN Larger(elapsed, desired) ELSE elapsed
  IN  /\ ticksMinorAccum' = accum % framesPerSecond
      /\ lastNewTicks' = newTicks
      /\ forceAdvancedTicks' = IF sleeping THEN forceAdvancedTicks ELSE 0
      /\ ticks' = entered
      /\ lastEnterTicks' = entered
      /\ desiredDeltaTime' = desired
      /\ lastOvershot' = Clamp(throttled - desired, newTicks)
      /\ isSleepEnterFB' = FALSE
      /\ isWaitEnterFB' = FALSE
      /\ lastEnterValid' = TRUE
      /\ soundTicks' = soundTicks + newTicks
      /\ timedFrames' = timedFrames + 1

(* The callbacks have returned and FrameBoundary enters the timer.  If a   *)
(* frame boundary is still in progress further out, that one is ended      *)
(* first.  With frame rate 0 the system timer takes over.                  *)
BeginFrame(elapsed) ==
  /\ At("callbacks")
  /\ framerate > 0 => Current.framerate > 0
  /\ IF framerate > 0
       THEN EnterFrameBoundary(Current.framerate, elapsed)
       ELSE UNCHANGED clockVars
  /\ IF inFrameBoundary THEN ExitFrameBoundary ELSE UNCHANGED addedDelay
  /\ inFrameBoundary' = TRUE
  /\ Goto("command")
  /\ UNCHANGED <<flags, dllInitializationDone, crashed>>

(* The copy of the frame rate is 0 but the debugger has selected a frame   *)
(* rate meanwhile: 1000/framesPerSecond divides by zero.                   *)
BeginFrameDividesByZero ==
  /\ At("callbacks")
  /\ framerate > 0
  /\ Current.framerate = 0
  /\ IF inFrameBoundary THEN ExitFrameBoundary ELSE UNCHANGED addedDelay
  /\ crashed' = TRUE
  /\ UNCHANGED <<flags, clockVars, dllInitializationDone, inFrameBoundary, stack>>

(* The debugger holds the game at CMD_FRAME_BOUNDARY; while it is paused   *)
(* the user may edit the frame rate, which CheckDialogChanges sends.       *)
Command(newFramerate) ==
  /\ At("command")
  /\ framerate' = newFramerate
  /\ Goto("dispatch")
  /\ UNCHANGED <<fastForward, clockVars, addedDelay, dllInitializationDone, inFrameBoundary,
                 crashed>>

(* The input of the frame has been dispatched: leave the timer and return. *)
EndFrame ==
  /\ At("dispatch")
  /\ ExitFrameBoundary
  /\ inFrameBoundary' = FALSE
  /\ Return
  /\ UNCHANGED <<flags, clockVars, dllInitializationDone, crashed>>

-----------------------------------------------------------------------------
Step ==
  \/ AddDelayFrame
  \/ AddDelayReturn
  \/ \E elapsed \in Elapsed : BeginFrame(elapsed)
  \/ BeginFrameDividesByZero
  \/ \E r \in Framerates : Command(r)
  \/ EndFrame

Next ==
  \/ PostDllMain
  \/ SetFastForward
  \/ \E d \in Delays : Sleep(d) \/ TransferWait(d)
  \/ FrameBoundary
  \/ Step

(* The primary thread keeps running, and the thread PostDllMain was        *)
(* started on gets to run.  The game is free to stop calling.              *)
Spec     == Init /\ [][Next]_vars
FairSpec == Spec /\ WF_vars(Step) /\ WF_vars(PostDllMain)
-----------------------------------------------------------------------------
(* Every variable has its type; the carried fraction stays below the       *)
(* highest selectable frame rate (EnterFrameBoundary, dettime.cpp:406-420).*)
TypeOK ==
  /\ framerate \in Framerates
  /\ fastForward \in BOOLEAN
  /\ ticks \in 0 .. DWord - 1 /\ lastEnterTicks \in 0 .. DWord - 1
  /\ addedDelay \in 0 .. DWord - 1 /\ forceAdvancedTicks \in 0 .. DWord - 1
  /\ \/ ticksMinorAccum = 0
     \/ \E r \in DeterministicRates : ticksMinorAccum \in 0 .. r - 1
  /\ lastNewTicks \in 0 .. LongestFrame
  /\ lastOvershot \in 0 .. LongestFrame
  /\ lastEnterValid \in BOOLEAN
  /\ isSleepEnterFB \in BOOLEAN /\ isWaitEnterFB \in BOOLEAN
  /\ dllInitializationDone \in BOOLEAN /\ inFrameBoundary \in BOOLEAN
  /\ crashed \in BOOLEAN
  /\ stack \in Seq(Activations)
  /\ desiredDeltaTime \in Int
  /\ soundTicks \in Nat /\ timedFrames \in Nat

(* With one deterministic frame rate r, the ticks handed to the sound mixer*)
(* over any number of frames are exactly 1000/r per frame, up to the       *)
(* fraction carried over: audio and video of a movie never drift apart, in *)
(* whatever way frame boundaries nest (dettime.cpp:406-420, 497).          *)
NoDrift ==
  \A r \in DeterministicRates :
    DeterministicRates = {r} => soundTicks * r + ticksMinorAccum = timedFrames * 1000

(* Whenever the game is outside every Sleep and frame boundary, the delay  *)
(* it still owes is at most six frames: "there must be a limit, otherwise  *)
(* it could easily build up and make us freeze" (dettime.cpp:645-650), also*)
(* after callbacks that slept inside the frames of a sleep.                *)
DeferredDelayBounded == stack = <<>> => addedDelay <= 6 * LongestFrame

(* The throttle never asks for more real time than this frame lasts at the *)
(* selected speed (its length times divisor over scale), and an overshoot  *)
(* of the previous, longer frame never takes it below zero by more than the*)
(* longest frame at that speed: a difference that wraps around would be an *)
(* endless wait (dettime.cpp:454-461, 545-549).                            *)
PacingBounded ==
  /\ desiredDeltaTime * Timescale <= lastNewTicks * TimescaleDivisor
  /\ desiredDeltaTime * Timescale >= -(LongestFrame * TimescaleDivisor)

(* The time the game sees moves forward only, by a requested delay or by at*)
(* most the length of a frame, also across the wrap-around of the 32-bit   *)
(* counter (dettime.cpp:428-449, 676-680).                                 *)
TimeGoesForward ==
  [][\/ Sub(ticks', ticks) \in Delays
     \/ Sub(ticks', ticks) <= lastNewTicks' /\ lastNewTicks' <= LongestFrame]_ticks

(* Every Sleep or wait that was transferred to the timer returns to the    *)
(* game (the loop at dettime.cpp:689-702), unless the user switches the    *)
(* deterministic timer off meanwhile: no frame pays any delay at rate 0.   *)
AddDelayReturns == (stack # <<>>) ~> (stack = <<>> \/ framerate = 0 \/ crashed)

(* "we define a frame rate beforehand and always tell the game it is       *)
(* running that fast from frame to frame" (dettime.h:83-85): between two   *)
(* frame entries the game's time advances by the length of the frame.      *)
FrameRateHonoured ==
  [][timedFrames' # timedFrames => Sub(ticks', lastEnterTicks) >= lastNewTicks']_vars

(* "0 framerate means disable deterministic timer" (dettime.cpp:397): the  *)
(* deterministic timer is never entered with frame rate 0.                 *)
ZeroFramerateDisables == ~crashed
=============================================================================
