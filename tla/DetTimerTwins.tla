--------------------------- MODULE DetTimerTwins ---------------------------
(***************************************************************************)
(* Two executions of the same game under DetTimer.  Both make the same     *)
(* calls in the same order and get the same frame rates from the user, but *)
(* each has a real clock and a fast-forward switch of its own.  This is the*)
(* promise of hooks/dettime.h:74-76 and 86: "calling FrameBoundary() and   *)
(* querying this timer in the same order will produce the same stream of   *)
(* results, independently of anything else like the system clock or CPU    *)
(* speed", and fast-forward does not change "the values the game sees".    *)
(***************************************************************************)
EXTENDS DetTimer

VARIABLES
  framerate2, fastForward2, ticks2, ticksMinorAccum2, lastEnterTicks2, lastNewTicks2,
  addedDelay2, forceAdvancedTicks2, lastOvershot2, lastEnterValid2, isSleepEnterFB2,
  isWaitEnterFB2, dllInitializationDone2, inFrameBoundary2, stack2, crashed2,
  desiredDeltaTime2, soundTicks2, timedFrames2

Twin == INSTANCE DetTimer WITH
  framerate <- framerate2, fastForward <- fastForward2, ticks <- ticks2,
  ticksMinorAccum <- ticksMinorAccum2, lastEnterTicks <- lastEnterTicks2,
  lastNewTicks <- lastNewTicks2, addedDelay <- addedDelay2,
  forceAdvancedTicks <- forceAdvancedTicks2, lastOvershot <- lastOvershot2,
  lastEnterValid <- lastEnterValid2, isSleepEnterFB <- isSleepEnterFB2,
  isWaitEnterFB <- isWaitEnterFB2, dllInitializationDone <- dllInitializationDone2,
  inFrameBoundary <- inFrameBoundary2, stack <- stack2, crashed <- crashed2,
  desiredDeltaTime <- desiredDeltaTime2, soundTicks <- soundTicks2,
  timedFrames <- timedFrames2

vars2 == <<framerate2, fastForward2, ticks2, ticksMinorAccum2, lastEnterTicks2, lastNewTicks2,
           addedDelay2, forceAdvancedTicks2, lastOvershot2, lastEnterValid2, isSleepEnterFB2,
           isWaitEnterFB2, dllInitializationDone2, inFrameBoundary2, stack2, crashed2,
           desiredDeltaTime2, soundTicks2, timedFrames2>>
twinVars == <<vars, vars2>>

TwinInit == Init /\ Twin!Init /\ framerate2 = framerate

(* The real world differs: the user fast-forwards one execution only.      *)
FastForwardOne ==
  \/ SetFastForward /\ UNCHANGED vars2
  \/ Twin!SetFastForward /\ UNCHANGED vars

(* The game and the user do the same in both.                              *)
SameCall ==
  \/ PostDllMain /\ Twin!PostDllMain
  \/ \E d \in Delays : Sleep(d) /\ Twin!Sleep(d)
  \/ \E d \in Delays : TransferWait(d) /\ Twin!TransferWait(d)
  \/ FrameBoundary /\ Twin!FrameBoundary
  \/ AddDelayFrame /\ Twin!AddDelayFrame
  \/ AddDelayReturn /\ Twin!AddDelayReturn
  \/ \E e, f \in Elapsed : BeginFrame(e) /\ Twin!BeginFrame(f)
  \/ BeginFrameDividesByZero /\ Twin!BeginFrameDividesByZero
  \/ \E r \in Framerates : Command(r) /\ Twin!Command(r)
  \/ EndFrame /\ Twin!EndFrame

TwinNext == FastForwardOne \/ SameCall
TwinSpec == TwinInit /\ [][TwinNext]_twinVars

-----------------------------------------------------------------------------
(* Both executions see the same time after the same calls, have run the    *)
(* same frames and are in the same place of the code, whatever their clocks*)
(* did (dettime.h:74-76).  Only lastOvershot, lastEnterValid and the       *)
(* throttle, which never reach the game, may differ.                       *)
Deterministic ==
  /\ framerate2 = framerate
  /\ ticks2 = ticks
  /\ ticksMinorAccum2 = ticksMinorAccum
  /\ lastEnterTicks2 = lastEnterTicks
  /\ lastNewTicks2 = lastNewTicks
  /\ addedDelay2 = addedDelay
  /\ forceAdvancedTicks2 = forceAdvancedTicks
  /\ isSleepEnterFB2 = isSleepEnterFB
  /\ isWaitEnterFB2 = isWaitEnterFB
  /\ dllInitializationDone2 = dllInitializationDone
  /\ inFrameBoundary2 = inFrameBoundary
  /\ stack2 = stack
  /\ crashed2 = crashed
  /\ soundTicks2 = soundTicks
  /\ timedFrames2 = timedFrames
=============================================================================
