--------------------------- MODULE DetTimer_proofs ---------------------------
(***************************************************************************)
(* Proofs about DetTimer, and about the two executions of DetTimerTwins,   *)
(* for every choice of the constants.                                      *)
(***************************************************************************)
EXTENDS DetTimerTwins, SequenceTheorems, TLAPS

-----------------------------------------------------------------------------
(* Arithmetic.                                                             *)

(* Unsigned arithmetic stays within a DWORD.                               *)
LEMMA DWordArithmetic ==
  ASSUME NEW a \in Int, NEW b \in Int
  PROVE  /\ Add(a, b) \in 0 .. DWord - 1
         /\ Sub(a, b) \in 0 .. DWord - 1
  BY WidthAssumption DEF Add, Sub

(* Division with remainder.                                                *)
LEMMA Division ==
  ASSUME NEW n \in Nat, NEW d \in Nat \ {0}
  PROVE  /\ n \div d \in Nat
         /\ n % d \in 0 .. d - 1
         /\ n = ((n \div d) * d) + (n % d)
  OBVIOUS

(* C++'s division of int.                                                  *)
LEMMA QuotientInt ==
  ASSUME NEW a \in Int, NEW b \in Nat \ {0}
  PROVE  Quotient(a, b) \in Int
  BY DEF Quotient

(* A clamped value is within its limits.                                   *)
LEMMA ClampRange ==
  ASSUME NEW x \in Int, NEW hi \in Nat
  PROVE  Clamp(x, hi) \in 0 .. hi
  BY DEF Clamp

(* A frame at rate r after any frame before it.                            *)
LEMMA FrameLength ==
  ASSUME NEW r \in DeterministicRates, NEW a,
         \/ a = 0
         \/ \E q \in DeterministicRates : a \in 0 .. q - 1
  PROVE  /\ FrameTicks(r, a) \in 0 .. LongestFrame
         /\ (a + (1000 % r)) % r \in 0 .. r - 1
         /\ a \in Nat
<1>1. r \in Nat \ {0}
  BY RatesAssumption DEF DeterministicRates
<1>2. PICK q \in DeterministicRates : a \in 0 .. q - 1
  BY <1>1
<1>3. q \in Nat \ {0}
  BY RatesAssumption DEF DeterministicRates
<1>4. FrameTicks(r, a) <= LongestFrame
  BY <1>2, LongestFrameAssumption
<1>5. a \in Nat /\ 1000 \div r \in Nat /\ 1000 % r \in 0 .. r - 1
  <2>1. a \in Nat
    BY <1>2, <1>3
  <2>2. 1000 \in Nat
    OBVIOUS
  <2>3. 1000 \div r \in Nat /\ 1000 % r \in 0 .. r - 1
    BY <1>1
  <2> QED
    BY <2>1, <2>3
<1>6. a + (1000 % r) \in Nat
  BY <1>1, <1>5
<1>7. (a + (1000 % r)) \div r \in Nat /\ (a + (1000 % r)) % r \in 0 .. r - 1
  BY <1>1, <1>6, Division
<1>8. FrameTicks(r, a) \in Nat
  BY <1>5, <1>7 DEF FrameTicks
<1> QED
  BY <1>4, <1>5, <1>7, <1>8, LongestFrameAssumption

-----------------------------------------------------------------------------
(* The stack of activations.                                               *)

(* A call puts an activation on the stack.                                 *)
LEMMA PushTyped ==
  ASSUME stack \in Seq(Activations), NEW call \in Activations, Push(call)
  PROVE  stack' \in Seq(Activations)
  BY DEF Push

(* A return leaves a stack of activations.                                 *)
LEMMA ReturnTyped ==
  ASSUME stack \in Seq(Activations), stack # <<>>, Return
  PROVE  stack' \in Seq(Activations)
<1>1. Len(stack) \in Nat \ {0}
  BY EmptySeq
<1>2. \A i \in 1 .. Len(stack) - 1 : stack[i] \in Activations
  BY <1>1, ElementOfSeq
<1> QED
  BY <1>1, <1>2, SubSeqProperties DEF Return

(* The code that runs is the activation on top of the stack.               *)
LEMMA CurrentTyped ==
  ASSUME stack \in Seq(Activations), NEW fn, Running(fn)
  PROVE  /\ Len(stack) \in Nat \ {0}
         /\ Current \in Activations
         /\ fn = "FrameBoundary" => Current \in FrameBoundaryCalls
         /\ fn = "AddDelay" => Current \in AddDelayCalls
<1>1. Len(stack) \in Nat \ {0}
  BY EmptySeq DEF Running
<1>2. Current \in Activations
  BY <1>1, ElementOfSeq DEF Current
<1> QED
  BY <1>1, <1>2 DEF Running, Current, Activations, AddDelayCalls, FrameBoundaryCalls

(* A step within FrameBoundary leaves a stack of activations.              *)
LEMMA GotoTyped ==
  ASSUME stack \in Seq(Activations), Running("FrameBoundary"),
         NEW pc \in {"callbacks", "command", "dispatch"}, Goto(pc)
  PROVE  stack' \in Seq(Activations)
<1>1. Len(stack) \in Nat \ {0} /\ stack[Len(stack)] \in FrameBoundaryCalls
  BY CurrentTyped DEF Current
<1>2. DEFINE call == [stack[Len(stack)] EXCEPT !.pc = pc]
<1>3. call \in Activations
  BY <1>1 DEF Activations, FrameBoundaryCalls
<1>4. stack' = [stack EXCEPT ![Len(stack)] = call]
  BY DEF Goto
<1> QED
  BY <1>1, <1>3, <1>4, ExceptSeq

-----------------------------------------------------------------------------
(* Type correctness.                                                       *)

(* ExitFrameBoundary pays a part of the delay, never more than all of it.  *)
LEMMA ExitTyped ==
  ASSUME TypeOK, ExitFrameBoundary
  PROVE  addedDelay' \in 0 .. DWord - 1
  BY RatesAssumption, WidthAssumption, LongestFrameAssumption
  DEF TypeOK, ExitFrameBoundary, PaidDelay

(* EnterFrameBoundary leaves the remainder below the rate of its frame,    *)
(* and overshoot and frame no longer than the longest frame.               *)
LEMMA EnterTyped ==
  ASSUME TypeOK, NEW r \in DeterministicRates, NEW elapsed \in Elapsed,
         EnterFrameBoundary(r, elapsed)
  PROVE  /\ ticks' \in 0 .. DWord - 1 /\ lastEnterTicks' \in 0 .. DWord - 1
         /\ forceAdvancedTicks' \in 0 .. DWord - 1
         /\ ticksMinorAccum' \in 0 .. r - 1
         /\ lastNewTicks' \in 0 .. LongestFrame
         /\ lastOvershot' \in 0 .. LongestFrame
         /\ lastEnterValid' \in BOOLEAN
         /\ isSleepEnterFB' \in BOOLEAN /\ isWaitEnterFB' \in BOOLEAN
         /\ desiredDeltaTime' \in Int
         /\ soundTicks' \in Nat /\ timedFrames' \in Nat
<1> DEFINE newTicks == FrameTicks(r, ticksMinorAccum)
           takenTicks == Add(Sub(ticks, lastEnterTicks), forceAdvancedTicks)
           scaled == Rest(newTicks) * TimescaleDivisor
           desired == IF Timescale > 1 THEN Quotient(scaled, Timescale) ELSE scaled
           skip == /\ fastForward
                   /\ isSleepEnterFB => FFSleepSkip
                   /\ isWaitEnterFB => FFWaitSkip
           throttled == IF ~skip /\ lastEnterValid THEN Larger(elapsed, desired) ELSE elapsed
<1>1. newTicks \in 0 .. LongestFrame /\ ticksMinorAccum \in Nat
      /\ (ticksMinorAccum + (1000 % r)) % r \in 0 .. r - 1
  BY FrameLength DEF TypeOK
<1>2. newTicks \in Nat
  BY <1>1, LongestFrameAssumption
<1>3. takenTicks \in 0 .. DWord - 1
  <2>1. ticks \in Int /\ lastEnterTicks \in Int /\ forceAdvancedTicks \in Int
    BY WidthAssumption DEF TypeOK
  <2>2. Sub(ticks, lastEnterTicks) \in Int
    BY <2>1, DWordArithmetic, WidthAssumption
  <2> QED
    BY <2>1, <2>2, DWordArithmetic
<1>4. TimeOnEntry(newTicks, takenTicks) \in 0 .. DWord - 1
  <2>1. takenTicks \in Int /\ ticks \in Int /\ newTicks - takenTicks \in Int
    BY <1>2, <1>3, WidthAssumption DEF TypeOK
  <2> HIDE DEF newTicks, takenTicks
  <2> QED
    BY <2>1, DWordArithmetic DEF TypeOK, TimeOnEntry
<1>5. scaled \in Int
  <2>1. Rest(newTicks) \in Int
    BY <1>2, LongestFrameAssumption DEF Rest, TypeOK
  <2> QED
    BY <2>1, ScaleAssumption
<1>6. desired \in Int
  BY <1>5, QuotientInt, ScaleAssumption
<1>7. throttled \in Int
  BY <1>6, RatesAssumption DEF Larger
<1>8. Clamp(throttled - desired, newTicks) \in 0 .. newTicks
  <2> HIDE DEF newTicks, desired, throttled
  <2> QED
    BY <1>2, <1>6, <1>7, ClampRange
<1>9. /\ ticksMinorAccum' = (ticksMinorAccum + (1000 % r)) % r
      /\ lastNewTicks' = newTicks
      /\ forceAdvancedTicks' \in {forceAdvancedTicks, 0}
      /\ ticks' = TimeOnEntry(newTicks, takenTicks)
      /\ lastEnterTicks' = TimeOnEntry(newTicks, takenTicks)
      /\ desiredDeltaTime' = desired
      /\ lastOvershot' = Clamp(throttled - desired, newTicks)
      /\ isSleepEnterFB' = FALSE /\ isWaitEnterFB' = FALSE
      /\ lastEnterValid' = TRUE
      /\ soundTicks' = soundTicks + newTicks
      /\ timedFrames' = timedFrames + 1
  BY DEF EnterFrameBoundary
<1> HIDE DEF newTicks, takenTicks, desired, throttled
<1>10. lastOvershot' \in 0 .. LongestFrame /\ lastNewTicks' \in 0 .. LongestFrame
  BY <1>1, <1>8, <1>9, LongestFrameAssumption
<1>11. soundTicks' \in Nat /\ timedFrames' \in Nat
  BY <1>2, <1>9 DEF TypeOK
<1>12. forceAdvancedTicks' \in 0 .. DWord - 1
  BY <1>9, WidthAssumption DEF TypeOK
<1> QED
  BY <1>1, <1>4, <1>6, <1>9, <1>10, <1>11, <1>12

(* The timer starts with its types.                                        *)
LEMMA TypeInit == Init => TypeOK
<1> SUFFICES ASSUME Init PROVE TypeOK
  OBVIOUS
<1>1. stack \in Seq(Activations)
  BY EmptySeq DEF Init
<1>2. StartTicks \in 0 .. DWord - 1 /\ 0 \in 0 .. DWord - 1 /\ 0 \in 0 .. LongestFrame
  BY WidthAssumption, LongestFrameAssumption
<1>3. /\ framerate \in Framerates
      /\ ticks \in 0 .. DWord - 1 /\ lastEnterTicks \in 0 .. DWord - 1
      /\ addedDelay \in 0 .. DWord - 1 /\ forceAdvancedTicks \in 0 .. DWord - 1
      /\ lastNewTicks \in 0 .. LongestFrame /\ lastOvershot \in 0 .. LongestFrame
  BY <1>2 DEF Init
<1>4. desiredDeltaTime \in Int /\ soundTicks \in Nat /\ timedFrames \in Nat
  BY DEF Init
<1>5. /\ fastForward \in BOOLEAN /\ lastEnterValid \in BOOLEAN /\ isSleepEnterFB \in BOOLEAN
      /\ isWaitEnterFB \in BOOLEAN /\ dllInitializationDone \in BOOLEAN
      /\ inFrameBoundary \in BOOLEAN /\ crashed \in BOOLEAN /\ ticksMinorAccum = 0
  BY DEF Init
<1> QED
  BY <1>1, <1>3, <1>4, <1>5 DEF TypeOK

(* TypeOK is inductive as it stands: one case for each action.             *)
LEMMA TypeStep ==
  ASSUME TypeOK, [Next]_vars
  PROVE  TypeOK'
<1> USE DEF flags, clockVars, control
<1>1. CASE PostDllMain
  BY <1>1 DEF PostDllMain, TypeOK
<1>2. CASE SetFastForward
  BY <1>2 DEF SetFastForward, TypeOK
<1>3. ASSUME NEW d \in Delays, NEW isSleep \in BOOLEAN, AddDelay(d, isSleep)
      PROVE  TypeOK'
  <2>1. d \in Int /\ addedDelay \in Int /\ ticks \in Int /\ forceAdvancedTicks \in Int
    BY RatesAssumption, WidthAssumption DEF TypeOK
  <2>2. /\ Add(addedDelay, d) \in 0 .. DWord - 1
        /\ Add(ticks, d) \in 0 .. DWord - 1
        /\ Add(forceAdvancedTicks, d) \in 0 .. DWord - 1
    BY <2>1, DWordArithmetic
  <2>3. [fn |-> "AddDelay", max |-> MaxDeferredDelay, isSleep |-> isSleep] \in Activations
    BY LongestFrameAssumption DEF TypeOK, MaxDeferredDelay, Activations, AddDelayCalls
  <2>4. stack' \in Seq(Activations)
    BY <1>3, <2>3, PushTyped DEF AddDelay, TypeOK
  <2> QED
    BY <1>3, <2>2, <2>4 DEF AddDelay, TypeOK
<1>4. CASE AddDelayFrame
  <2>1. Current \in AddDelayCalls
    BY <1>4, CurrentTyped DEF AddDelayFrame, TypeOK
  <2>2. [fn |-> "FrameBoundary", framerate |-> framerate, pc |-> "callbacks"] \in Activations
    BY DEF TypeOK, Activations, FrameBoundaryCalls
  <2>3. stack' \in Seq(Activations)
    BY <1>4, <2>2, PushTyped DEF AddDelayFrame, TypeOK
  <2> QED
    BY <1>4, <2>1, <2>3 DEF AddDelayFrame, TypeOK, AddDelayCalls
<1>5. CASE AddDelayReturn
  <2>1. stack' \in Seq(Activations)
    BY <1>5, ReturnTyped DEF AddDelayReturn, Running, TypeOK
  <2> QED
    BY <1>5, <2>1 DEF AddDelayReturn, TypeOK
<1>6. CASE FrameBoundary
  <2>1. [fn |-> "FrameBoundary", framerate |-> framerate, pc |-> "callbacks"] \in Activations
    BY DEF TypeOK, Activations, FrameBoundaryCalls
  <2>2. stack' \in Seq(Activations)
    BY <1>6, <2>1, PushTyped DEF FrameBoundary, TypeOK
  <2> QED
    BY <1>6, <2>2 DEF FrameBoundary, TypeOK
<1>7. ASSUME NEW elapsed \in Elapsed, BeginFrame(elapsed)
      PROVE  TypeOK'
  <2>1. Current \in FrameBoundaryCalls
    BY <1>7, CurrentTyped DEF BeginFrame, At, TypeOK
  <2>2. stack' \in Seq(Activations)
    BY <1>7, GotoTyped DEF BeginFrame, At, TypeOK
  <2>3. addedDelay' \in 0 .. DWord - 1
    BY <1>7, ExitTyped DEF BeginFrame, TypeOK
  <2>4. CASE framerate > 0
    <3>1. Current.framerate \in DeterministicRates
      BY <1>7, <2>1, <2>4, RatesAssumption
      DEF BeginFrame, FrameBoundaryCalls, DeterministicRates
    <3>2. EnterFrameBoundary(Current.framerate, elapsed)
      BY <1>7, <2>4 DEF BeginFrame
    <3> QED
      BY <1>7, <2>2, <2>3, <3>1, <3>2, EnterTyped DEF BeginFrame, TypeOK
  <2>5. CASE ~(framerate > 0)
    BY <1>7, <2>2, <2>3, <2>5 DEF BeginFrame, TypeOK
  <2> QED
    BY <2>4, <2>5
<1>8. CASE BeginFrameDividesByZero
  <2>1. addedDelay' \in 0 .. DWord - 1
    BY <1>8, ExitTyped DEF BeginFrameDividesByZero, TypeOK
  <2> QED
    BY <1>8, <2>1 DEF BeginFrameDividesByZero, TypeOK
<1>9. ASSUME NEW r \in Framerates, Command(r)
      PROVE  TypeOK'
  <2>1. stack' \in Seq(Activations)
    BY <1>9, GotoTyped DEF Command, At, TypeOK
  <2> QED
    BY <1>9, <2>1 DEF Command, TypeOK
<1>10. CASE EndFrame
  <2>1. stack' \in Seq(Activations)
    BY <1>10, ReturnTyped DEF EndFrame, At, Running, TypeOK
  <2>2. addedDelay' \in 0 .. DWord - 1
    BY <1>10, ExitTyped DEF EndFrame
  <2> QED
    BY <1>10, <2>1, <2>2 DEF EndFrame, TypeOK
<1>11. CASE UNCHANGED vars
  BY <1>11 DEF vars, TypeOK
<1> QED
  BY <1>1, <1>2, <1>3, <1>4, <1>5, <1>6, <1>7, <1>8, <1>9, <1>10, <1>11 DEF Next, Step, Sleep, TransferWait

(* Every variable of the deterministic timer keeps its type, for every set *)
(* of frame rates and delays, every timescale and every width of a DWORD.  *)
THEOREM TypeCorrect == Spec => []TypeOK
<1>1. Init => TypeOK
  BY TypeInit
<1>2. TypeOK /\ [Next]_vars => TypeOK'
  BY TypeStep
<1> QED
  BY <1>1, <1>2, PTL DEF Spec

-----------------------------------------------------------------------------
(* No drift between sound and frames.                                      *)

(* The ticks of a frame and the fraction it leaves are 1000/r ticks more   *)
(* than the fraction it started with.                                      *)
LEMMA FrameAccount ==
  ASSUME NEW r \in Nat \ {0}, NEW a \in Nat
  PROVE  /\ FrameTicks(r, a) \in Int
         /\ (a + (1000 % r)) % r \in Int
         /\ (FrameTicks(r, a) * r) + ((a + (1000 % r)) % r) = 1000 + a
<1> DEFINE q == 1000 \div r
           m == 1000 % r
           p == (a + m) \div r
           f == (a + m) % r
<1>1. q \in Int /\ m \in Nat /\ 1000 = (q * r) + m
  OBVIOUS
<1>2. a + m \in Nat
  BY <1>1
<1>3. p \in Int /\ f \in Int /\ a + m = (p * r) + f
  <2>1. \A n \in Nat : n \div r \in Int /\ n % r \in Int /\ n = ((n \div r) * r) + (n % r)
    OBVIOUS
  <2> HIDE DEF m
  <2> QED
    BY <1>2, <2>1, Zenon
<1>4. FrameTicks(r, a) = q + p
  BY DEF FrameTicks
<1> HIDE DEF q, m, p, f
<1>5. (q + p) * r = (q * r) + (p * r)
  BY <1>1, <1>3
<1>6. q * r \in Int /\ p * r \in Int
  BY <1>1, <1>3
<1>7. ((q + p) * r) + f = 1000 + a
  BY <1>1, <1>3, <1>5, <1>6
<1> QED
  BY <1>1, <1>3, <1>4, <1>7 DEF f, m

(* NoDrift is kept by a frame because the remainder is what the division   *)
(* leaves, and by every other step because none touches its counters.      *)
LEMMA NoDriftStep ==
  ASSUME TypeOK, NoDrift, [Next]_vars
  PROVE  NoDrift'
<1> SUFFICES ASSUME NEW r \in DeterministicRates, DeterministicRates = {r}
             PROVE  (soundTicks' * r) + ticksMinorAccum' = timedFrames' * 1000
  BY DEF NoDrift
<1>1. (soundTicks * r) + ticksMinorAccum = timedFrames * 1000
  BY DEF NoDrift
<1>2. CASE UNCHANGED <<soundTicks, ticksMinorAccum, timedFrames>>
  BY <1>1, <1>2
<1>3. ASSUME NEW elapsed \in Elapsed, BeginFrame(elapsed), framerate > 0
      PROVE  (soundTicks' * r) + ticksMinorAccum' = timedFrames' * 1000
  <2>1. Current \in FrameBoundaryCalls
    BY <1>3, CurrentTyped DEF BeginFrame, At, TypeOK
  <2>2. Current.framerate = r
    BY <1>3, <2>1, RatesAssumption DEF BeginFrame, FrameBoundaryCalls, DeterministicRates
  <2>3. r \in Nat \ {0}
    BY RatesAssumption DEF DeterministicRates
  <2>4. ticksMinorAccum \in Nat /\ soundTicks \in Nat /\ timedFrames \in Nat
    BY FrameLength DEF TypeOK
  <2> DEFINE n == FrameTicks(r, ticksMinorAccum)
             f == (ticksMinorAccum + (1000 % r)) % r
  <2>5. n \in Int /\ f \in Int /\ (n * r) + f = 1000 + ticksMinorAccum
    BY <2>3, <2>4, FrameAccount
  <2>6. soundTicks' = soundTicks + n /\ ticksMinorAccum' = f /\ timedFrames' = timedFrames + 1
    BY <1>3, <2>2 DEF BeginFrame, EnterFrameBoundary
  <2> HIDE DEF n, f
  <2>7. (soundTicks + n) * r = (soundTicks * r) + (n * r)
    BY <2>3, <2>4, <2>5
  <2>8. soundTicks * r \in Int /\ n * r \in Int
    BY <2>3, <2>4, <2>5
  <2>9. (soundTicks' * r) + ticksMinorAccum' = ((soundTicks * r) + (n * r)) + f
    BY <2>6, <2>7
  <2>10. ((soundTicks * r) + (n * r)) + f = (timedFrames * 1000) + 1000
    BY <1>1, <2>4, <2>5, <2>8
  <2>11. timedFrames' * 1000 = (timedFrames * 1000) + 1000
    BY <2>4, <2>6
  <2> QED
    BY <2>9, <2>10, <2>11
<1>4. ASSUME NEW elapsed \in Elapsed, BeginFrame(elapsed), ~(framerate > 0)
      PROVE  UNCHANGED <<soundTicks, ticksMinorAccum, timedFrames>>
  BY <1>4 DEF BeginFrame, clockVars
<1>5. CASE ~(\E elapsed \in Elapsed : BeginFrame(elapsed))
  BY <1>2, <1>5
  DEF Next, Step, Sleep, TransferWait, vars, flags, clockVars, control, PostDllMain,
      SetFastForward, AddDelay, AddDelayFrame, AddDelayReturn, FrameBoundary,
      BeginFrameDividesByZero, Command, EndFrame
<1> QED
  BY <1>2, <1>3, <1>4, <1>5

(* The sound of any number of frames at one deterministic frame rate is    *)
(* exactly as long as the frames, for every frame rate.                    *)
THEOREM NoDriftCorrect == Spec => []NoDrift
<1>1. Init => NoDrift
  BY RatesAssumption DEF Init, NoDrift, DeterministicRates
<1>2. TypeOK /\ NoDrift /\ [Next]_vars => NoDrift'
  BY NoDriftStep
<1> QED
  BY <1>1, <1>2, TypeCorrect, PTL DEF Spec

-----------------------------------------------------------------------------
(* The limit on deferred delay.                                            *)

Sleeping == \E i \in 1 .. Len(stack) : stack[i].fn = "AddDelay"

(* Every AddDelay in progress has a limit of at most six of the longest    *)
(* frames, and what is owed beyond that is owed by one of them.            *)
DelayInv ==
  /\ \A i \in 1 .. Len(stack) : stack[i].fn = "AddDelay" => stack[i].max <= 6 * LongestFrame
  /\ ~Sleeping => addedDelay <= 6 * LongestFrame

(* A call leaves the activations below it alone.                           *)
LEMMA PushStack ==
  ASSUME stack \in Seq(Activations), NEW call \in Activations, Push(call)
  PROVE  /\ Len(stack') = Len(stack) + 1
         /\ \A i \in 1 .. Len(stack) : stack'[i] = stack[i]
         /\ stack'[Len(stack) + 1] = call
         /\ Len(stack) \in Nat
  BY AppendProperties, LenProperties DEF Push

(* A return leaves the activations below it alone.                         *)
LEMMA ReturnStack ==
  ASSUME stack \in Seq(Activations), stack # <<>>, Return
  PROVE  /\ Len(stack) \in Nat \ {0}
         /\ Len(stack') = Len(stack) - 1
         /\ \A i \in 1 .. Len(stack) - 1 : stack'[i] = stack[i]
<1>1. Len(stack) \in Nat \ {0}
  BY EmptySeq
<1>2. \A i \in 1 .. Len(stack) - 1 : stack[i] \in Activations
  BY <1>1, ElementOfSeq
<1>3. /\ Len(stack') = IF 1 <= Len(stack) - 1 THEN (Len(stack) - 1) - 1 + 1 ELSE 0
      /\ \A i \in 1 .. (Len(stack) - 1) - 1 + 1 : stack'[i] = stack[1 + i - 1]
  BY <1>1, <1>2, SubSeqProperties DEF Return
<1>4. ASSUME NEW i \in 1 .. Len(stack) - 1
      PROVE  stack'[i] = stack[i]
  <2>1. i \in 1 .. (Len(stack) - 1) - 1 + 1 /\ 1 + i - 1 = i
    BY <1>1
  <2> QED
    BY <1>3, <2>1
<1>5. \A n \in Nat \ {0} : \A m :
        m = (IF 1 <= n - 1 THEN (n - 1) - 1 + 1 ELSE 0) => m = n - 1
  OBVIOUS
<1>6. Len(stack') = (IF 1 <= Len(stack) - 1 THEN (Len(stack) - 1) - 1 + 1 ELSE 0)
  BY <1>3
<1>7. Len(stack') = Len(stack) - 1
  BY <1>1, <1>5, <1>6, Zenon
<1> QED
  BY <1>1, <1>4, <1>7

(* A step within FrameBoundary leaves the sleeps on the stack alone.       *)
LEMMA GotoStack ==
  ASSUME stack \in Seq(Activations), Running("FrameBoundary"),
         NEW pc \in {"callbacks", "command", "dispatch"}, Goto(pc)
  PROVE  /\ Len(stack') = Len(stack)
         /\ \A i \in 1 .. Len(stack) :
              (stack'[i].fn = "AddDelay" \/ stack[i].fn = "AddDelay") => stack'[i] = stack[i]
<1>1. Len(stack) \in Nat \ {0} /\ stack[Len(stack)] \in FrameBoundaryCalls
  BY CurrentTyped DEF Current
<1> DEFINE call == [stack[Len(stack)] EXCEPT !.pc = pc]
<1>2. call \in Activations /\ call.fn = "FrameBoundary"
  BY <1>1 DEF Activations, FrameBoundaryCalls
<1>3. stack' = [stack EXCEPT ![Len(stack)] = call]
  BY DEF Goto
<1>4. stack[Len(stack)].fn = "FrameBoundary"
  BY <1>1 DEF FrameBoundaryCalls
<1> HIDE DEF call
<1>5. /\ Len(stack') = Len(stack)
      /\ \A j \in 1 .. Len(stack) : stack'[j] = IF j = Len(stack) THEN call ELSE stack[j]
  BY <1>1, <1>2, <1>3, ExceptSeq
<1> QED
  BY <1>2, <1>4, <1>5

(* Calls of FrameBoundary come and go without touching the invariant, as   *)
(* long as they only pay delay.                                            *)
LEMMA FramesKeepDelayInv ==
  ASSUME DelayInv, addedDelay \in Int, addedDelay' \in Int, addedDelay' <= addedDelay,
         \A i \in 1 .. Len(stack') : stack'[i].fn = "AddDelay" =>
            i \in 1 .. Len(stack) /\ stack'[i] = stack[i],
         \A i \in 1 .. Len(stack) : stack[i].fn = "AddDelay" =>
            i \in 1 .. Len(stack') /\ stack'[i] = stack[i]
  PROVE  DelayInv'
<1>1. Sleeping' <=> Sleeping
  BY DEF Sleeping
<1>2. \A i \in 1 .. Len(stack') : stack'[i].fn = "AddDelay" => stack'[i].max <= 6 * LongestFrame
  BY DEF DelayInv
<1>3. ~Sleeping => addedDelay' <= 6 * LongestFrame
  BY LongestFrameAssumption DEF DelayInv
<1> QED
  BY <1>1, <1>2, <1>3 DEF DelayInv

(* A frame never adds to the delay.                                        *)
LEMMA PayDelay ==
  ASSUME TypeOK, ExitFrameBoundary
  PROVE  addedDelay \in Int /\ addedDelay' \in Int /\ addedDelay' <= addedDelay
BY WidthAssumption, LongestFrameAssumption DEF TypeOK, ExitFrameBoundary, PaidDelay

(* DelayInv is inductive: one case for each action.                        *)
LEMMA DelayInvStep ==
  ASSUME TypeOK, DelayInv, [Next]_vars
  PROVE  DelayInv'
<1>t. stack \in Seq(Activations) /\ addedDelay \in Int
  BY WidthAssumption DEF TypeOK
<1>1. ASSUME UNCHANGED <<stack, addedDelay>>
      PROVE  DelayInv'
  BY <1>1 DEF DelayInv, Sleeping
<1>2. ASSUME NEW d \in Delays, NEW isSleep \in BOOLEAN, AddDelay(d, isSleep)
      PROVE  DelayInv'
  <2> DEFINE call == [fn |-> "AddDelay", max |-> MaxDeferredDelay, isSleep |-> isSleep]
  <2>1. call \in Activations
    BY LongestFrameAssumption DEF TypeOK, MaxDeferredDelay, Activations, AddDelayCalls
  <2>2. call.fn = "AddDelay" /\ call.max <= 6 * LongestFrame
    BY LongestFrameAssumption DEF TypeOK, MaxDeferredDelay
  <2>3. Push(call)
    BY <1>2 DEF AddDelay
  <2> HIDE DEF call
  <2>4. /\ Len(stack') = Len(stack) + 1
        /\ \A i \in 1 .. Len(stack) : stack'[i] = stack[i]
        /\ stack'[Len(stack) + 1] = call
        /\ Len(stack) \in Nat
    BY <1>t, <2>1, <2>3, PushStack
  <2>5. Sleeping'
    <3>1. Len(stack) + 1 \in 1 .. Len(stack')
      BY <2>4
    <3> QED
      BY <2>2, <2>4, <3>1 DEF Sleeping
  <2>6. \A i \in 1 .. Len(stack') : stack'[i].fn = "AddDelay" => stack'[i].max <= 6 * LongestFrame
    <3> SUFFICES ASSUME NEW i \in 1 .. Len(stack'), stack'[i].fn = "AddDelay"
                 PROVE  stack'[i].max <= 6 * LongestFrame
      OBVIOUS
    <3>1. i \in 1 .. Len(stack) \/ i = Len(stack) + 1
      BY <2>4
    <3> QED
      BY <2>2, <2>4, <3>1 DEF DelayInv
  <2> QED
    BY <2>5, <2>6 DEF DelayInv
<1>3. ASSUME NEW call \in FrameBoundaryCalls, Push(call), addedDelay' = addedDelay
      PROVE  DelayInv'
  <2>1. /\ Len(stack') = Len(stack) + 1
        /\ \A i \in 1 .. Len(stack) : stack'[i] = stack[i]
        /\ stack'[Len(stack) + 1] = call
        /\ Len(stack) \in Nat
    BY <1>t, <1>3, PushStack DEF Activations
  <2>2. call.fn # "AddDelay"
    BY DEF FrameBoundaryCalls
  <2>3. \A i \in 1 .. Len(stack') : i \in 1 .. Len(stack) \/ i = Len(stack) + 1
    BY <2>1
  <2>4. \A i \in 1 .. Len(stack) : i \in 1 .. Len(stack')
    BY <2>1
  <2> QED
    BY <1>t, <1>3, <2>1, <2>2, <2>3, <2>4, FramesKeepDelayInv
<1>4. CASE AddDelayFrame
  <2>1. [fn |-> "FrameBoundary", framerate |-> framerate, pc |-> "callbacks"]
          \in FrameBoundaryCalls
    BY DEF TypeOK, FrameBoundaryCalls
  <2> QED
    BY <1>1, <1>3, <1>4, <2>1 DEF AddDelayFrame
<1>5. CASE AddDelayReturn
  <2>1. stack # <<>> /\ Return /\ addedDelay' = addedDelay
    BY <1>5 DEF AddDelayReturn, Running
  <2>2. /\ Len(stack) \in Nat \ {0}
        /\ Len(stack') = Len(stack) - 1
        /\ \A i \in 1 .. Len(stack) - 1 : stack'[i] = stack[i]
    BY <1>t, <2>1, ReturnStack
  <2>3. Current.fn = "AddDelay" /\ Current.max \in Nat /\ addedDelay <= Current.max
    BY <1>5, <1>t, CurrentTyped DEF AddDelayReturn, AddDelayCalls
  <2>4. Current.max <= 6 * LongestFrame
    BY <2>2, <2>3 DEF DelayInv, Current
  <2>5. addedDelay' <= 6 * LongestFrame
    BY <1>t, <2>1, <2>3, <2>4, LongestFrameAssumption
  <2>6. \A i \in 1 .. Len(stack') : i \in 1 .. Len(stack) /\ stack'[i] = stack[i]
    BY <2>2
  <2> QED
    BY <2>5, <2>6 DEF DelayInv
<1>6. CASE FrameBoundary
  <2>1. [fn |-> "FrameBoundary", framerate |-> framerate, pc |-> "callbacks"]
          \in FrameBoundaryCalls
    BY DEF TypeOK, FrameBoundaryCalls
  <2> QED
    BY <1>3, <1>6, <2>1 DEF FrameBoundary
<1>7. ASSUME NEW pc \in {"callbacks", "command", "dispatch"}, Running("FrameBoundary"), Goto(pc),
             addedDelay' \in Int, addedDelay' <= addedDelay
      PROVE  DelayInv'
  <2>1. /\ Len(stack') = Len(stack)
        /\ \A i \in 1 .. Len(stack) :
             (stack'[i].fn = "AddDelay" \/ stack[i].fn = "AddDelay") => stack'[i] = stack[i]
    BY <1>t, <1>7, GotoStack
  <2> QED
    BY <1>t, <1>7, <2>1, FramesKeepDelayInv
<1>8. ASSUME NEW elapsed \in Elapsed, BeginFrame(elapsed)
      PROVE  DelayInv'
  <2>1. addedDelay' \in Int /\ addedDelay' <= addedDelay
    BY <1>t, <1>8, PayDelay DEF BeginFrame
  <2> QED
    BY <1>7, <1>8, <2>1 DEF BeginFrame, At
<1>9. CASE BeginFrameDividesByZero
  <2>1. addedDelay' \in Int /\ addedDelay' <= addedDelay /\ stack' = stack
    BY <1>t, <1>9, PayDelay DEF BeginFrameDividesByZero
  <2> QED
    BY <1>t, <2>1, FramesKeepDelayInv
<1>10. ASSUME NEW r \in Framerates, Command(r)
       PROVE  DelayInv'
  BY <1>t, <1>7, <1>10 DEF Command, At
<1>11. CASE EndFrame
  <2>1. stack # <<>> /\ Return /\ Running("FrameBoundary")
    BY <1>11 DEF EndFrame, At, Running
  <2>2. addedDelay' \in Int /\ addedDelay' <= addedDelay
    BY <1>11, PayDelay DEF EndFrame
  <2>3. /\ Len(stack) \in Nat \ {0}
        /\ Len(stack') = Len(stack) - 1
        /\ \A i \in 1 .. Len(stack) - 1 : stack'[i] = stack[i]
    BY <1>t, <2>1, ReturnStack
  <2>4. stack[Len(stack)].fn # "AddDelay"
    BY <2>1 DEF Running
  <2>5. \A i \in 1 .. Len(stack') : i \in 1 .. Len(stack) /\ stack'[i] = stack[i]
    BY <2>3
  <2>6. \A i \in 1 .. Len(stack) : i = Len(stack) \/ (i \in 1 .. Len(stack') /\ stack'[i] = stack[i])
    BY <2>3
  <2> QED
    BY <1>t, <2>2, <2>4, <2>5, <2>6, FramesKeepDelayInv
<1>12. CASE PostDllMain \/ SetFastForward \/ UNCHANGED vars
  BY <1>1, <1>12 DEF PostDllMain, SetFastForward, vars, control
<1> QED
  BY <1>2, <1>4, <1>5, <1>6, <1>8, <1>9, <1>10, <1>11, <1>12 DEF Next, Step, Sleep, TransferWait

(* Outside every Sleep and frame boundary the game never owes more than six*)
(* frames of delay, whatever delays it asks for, at whatever frame rates,  *)
(* and however deep its calls nest.                                        *)
THEOREM DeferredDelayCorrect == Spec => []DeferredDelayBounded
<1>1. Init => DelayInv
  <2> SUFFICES ASSUME Init PROVE DelayInv
    OBVIOUS
  <2>1. Len(stack) = 0 /\ addedDelay = 0
    BY EmptySeq DEF Init
  <2> QED
    BY <2>1, LongestFrameAssumption DEF DelayInv
<1>2. TypeOK /\ DelayInv /\ [Next]_vars => DelayInv'
  BY DelayInvStep
<1>3. DelayInv => DeferredDelayBounded
  <2> SUFFICES ASSUME DelayInv, stack = <<>> PROVE addedDelay <= 6 * LongestFrame
    BY DEF DeferredDelayBounded
  <2>1. Len(stack) = 0
    BY EmptySeq
  <2> QED
    BY <2>1 DEF DelayInv, Sleeping
<1> QED
  BY <1>1, <1>2, <1>3, TypeCorrect, PTL DEF Spec
-----------------------------------------------------------------------------
(* The time the game sees.                                                 *)

(* The remainder is the only one that fits.                                *)
LEMMA RemainderUnique ==
  ASSUME NEW n \in Int, NEW d \in Nat \ {0}, NEW q \in Int, NEW r \in 0 .. d - 1,
         n = (q * d) + r
  PROVE  n % d = r
<1> DEFINE p == n \div d
           s == n % d
<1>1. p \in Int /\ s \in 0 .. d - 1 /\ n = (p * d) + s
  OBVIOUS
<1> HIDE DEF p, s
<1>2. PICK k \in Int : k = q - p
  BY <1>1
<1>3. s = (k * d) + r
  <2>1. q * d = (p * d) + (k * d)
    BY <1>1, <1>2
  <2>2. p * d \in Int /\ k * d \in Int
    BY <1>1, <1>2
  <2> QED
    BY <1>1, <2>1, <2>2
<1>4. k = 0
  <2>1. ASSUME k >= 1 PROVE FALSE
    <3>1. k * d = d + ((k - 1) * d) /\ (k - 1) * d \in Nat
      BY <1>2, <2>1
    <3> QED
      BY <1>1, <1>3, <3>1
  <2>2. ASSUME k <= -1 PROVE FALSE
    <3>1. k * d = (-d) - ((-1 - k) * d) /\ (-1 - k) * d \in Nat
      BY <1>2, <2>2
    <3> QED
      BY <1>1, <1>3, <3>1
  <2> QED
    BY <1>2, <2>1, <2>2
<1>5. s = r
  BY <1>3, <1>4
<1> QED
  BY <1>5 DEF s

(* Unsigned subtraction finds out what was added, up to whole turns of the *)
(* counter.                                                                *)
LEMMA SubOfAdd ==
  ASSUME NEW a \in 0 .. DWord - 1, NEW n \in Nat
  PROVE  Sub(Add(a, n), a) = n % DWord
<1>d. DWord \in Nat \ {0} /\ a \in Nat
  BY WidthAssumption
<1> DEFINE q == (a + n) \div DWord
           m == (a + n) % DWord
           p == n \div DWord
           s == n % DWord
<1>1. q \in Int /\ m \in Int /\ a + n = (q * DWord) + m
  <2>1. a + n \in Nat
    BY <1>d
  <2> QED
    BY <1>d, <2>1, Division
<1>2. p \in Int /\ s \in 0 .. DWord - 1 /\ n = (p * DWord) + s
  BY <1>d, Division
<1>3. Add(a, n) = m /\ Sub(m, a) = (m - a) % DWord
  BY DEF Add, Sub
<1> HIDE DEF q, m, p, s
<1>4. (p - q) * DWord = (p * DWord) - (q * DWord)
  BY <1>d, <1>1, <1>2
<1>5. p * DWord \in Int /\ q * DWord \in Int
  BY <1>d, <1>1, <1>2
<1>6. m - a = ((p - q) * DWord) + s
  BY <1>d, <1>1, <1>2, <1>4, <1>5
<1>7. (m - a) % DWord = s
  <2>1. m - a \in Int /\ p - q \in Int
    BY <1>d, <1>1, <1>2
  <2> QED
    BY <1>d, <1>2, <1>6, <2>1, RemainderUnique
<1> QED
  BY <1>3, <1>7 DEF s

(* A remainder is at most the number, and the number itself when it fits.  *)
LEMMA RemainderAtMost ==
  ASSUME NEW n \in Nat
  PROVE  /\ n % DWord <= n
         /\ n < DWord => n % DWord = n
         /\ n % DWord \in Nat
<1>d. DWord \in Nat \ {0}
  BY WidthAssumption
<1> DEFINE p == n \div DWord
           s == n % DWord
<1>1. p \in Nat /\ s \in 0 .. DWord - 1 /\ n = (p * DWord) + s
  BY <1>d, Division
<1>2. n < DWord => s = n
  <2> SUFFICES ASSUME n < DWord PROVE n % DWord = n
    OBVIOUS
  <2>1. n = (0 * DWord) + n /\ n \in 0 .. DWord - 1 /\ n \in Int /\ 0 \in Int
    BY <1>d
  <2> QED
    BY <1>d, <2>1, RemainderUnique
<1> HIDE DEF p, s
<1>3. p * DWord \in Nat
  BY <1>d, <1>1
<1>4. s <= n /\ s \in Nat
  BY <1>d, <1>1, <1>3
<1> QED
  BY <1>2, <1>4 DEF s

(* Entering a frame gives the game at most the length of the frame.        *)
LEMMA EnterForward ==
  ASSUME TypeOK, NEW r \in DeterministicRates, NEW elapsed \in Elapsed,
         EnterFrameBoundary(r, elapsed), ticks' # ticks
  PROVE  Sub(ticks', ticks) <= lastNewTicks' /\ lastNewTicks' <= LongestFrame
<1> DEFINE newTicks == FrameTicks(r, ticksMinorAccum)
           takenTicks == Add(Sub(ticks, lastEnterTicks), forceAdvancedTicks)
<1>1. newTicks \in 0 .. LongestFrame
  BY FrameLength DEF TypeOK
<1>2. takenTicks \in Nat
  <2>1. ticks \in Int /\ lastEnterTicks \in Int /\ forceAdvancedTicks \in Int
    BY WidthAssumption DEF TypeOK
  <2>2. Sub(ticks, lastEnterTicks) \in Int
    BY <2>1, DWordArithmetic, WidthAssumption
  <2>3. takenTicks \in 0 .. DWord - 1
    BY <2>1, <2>2, DWordArithmetic
  <2> QED
    BY <2>3, WidthAssumption
<1>3. lastNewTicks' = newTicks /\ ticks' = TimeOnEntry(newTicks, takenTicks)
  BY DEF EnterFrameBoundary
<1>4. ticks \in 0 .. DWord - 1
  BY DEF TypeOK
<1> HIDE DEF newTicks, takenTicks
<1> DEFINE given == newTicks - takenTicks
<1>5. newTicks > takenTicks /\ ticks' = Add(ticks, given)
  BY <1>3 DEF TimeOnEntry
<1>6. given \in Nat /\ given <= newTicks /\ newTicks \in Nat /\ newTicks <= LongestFrame
  BY <1>1, <1>2, <1>5, LongestFrameAssumption
<1> HIDE DEF given
<1>7. Sub(ticks', ticks) = given % DWord
  BY <1>4, <1>5, <1>6, SubOfAdd
<1>8. given % DWord <= given /\ given % DWord \in Nat
  BY <1>6, RemainderAtMost
<1> QED
  BY <1>3, <1>6, <1>7, <1>8

(* The game's time changes in two places only: AddDelay gives the game the *)
(* delay it asked for, EnterFrameBoundary the rest of a frame.             *)
LEMMA ForwardStep ==
  ASSUME TypeOK, [Next]_vars, ticks' # ticks
  PROVE  \/ Sub(ticks', ticks) \in Delays
         \/ Sub(ticks', ticks) <= lastNewTicks' /\ lastNewTicks' <= LongestFrame
<1>1. ASSUME NEW d \in Delays, NEW isSleep \in BOOLEAN, AddDelay(d, isSleep)
      PROVE  Sub(ticks', ticks) \in Delays
  <2>1. d \in Nat /\ d < DWord /\ ticks \in 0 .. DWord - 1 /\ ticks' = Add(ticks, d)
    BY <1>1, RatesAssumption, WidthAssumption DEF TypeOK, AddDelay
  <2>2. Sub(ticks', ticks) = d % DWord
    BY <2>1, SubOfAdd
  <2> QED
    BY <2>1, <2>2, RemainderAtMost
<1>2. ASSUME NEW elapsed \in Elapsed, BeginFrame(elapsed)
      PROVE  Sub(ticks', ticks) <= lastNewTicks' /\ lastNewTicks' <= LongestFrame
  <2>1. framerate > 0 /\ EnterFrameBoundary(Current.framerate, elapsed)
    BY <1>2 DEF BeginFrame, clockVars
  <2>2. Current \in FrameBoundaryCalls
    BY <1>2, CurrentTyped DEF BeginFrame, At, TypeOK
  <2>3. Current.framerate \in DeterministicRates
    BY <1>2, <2>1, <2>2, RatesAssumption DEF BeginFrame, FrameBoundaryCalls, DeterministicRates
  <2> QED
    BY <2>1, <2>3, EnterForward
<1>3. CASE ~(\E elapsed \in Elapsed : BeginFrame(elapsed))
  <2>1. \E d \in Delays, isSleep \in BOOLEAN : AddDelay(d, isSleep)
    BY <1>3
    DEF Next, Step, Sleep, TransferWait, vars, flags, clockVars, control, PostDllMain,
        SetFastForward, AddDelayFrame, AddDelayReturn, FrameBoundary,
        BeginFrameDividesByZero, Command, EndFrame
  <2> QED
    BY <1>1, <2>1
<1> QED
  BY <1>2, <1>3

(* The time the game sees only moves forward, by a delay it asked for or by*)
(* at most one frame, for every width of the counter, across wrap-arounds, *)
(* at every frame rate and however calls nest.                             *)
THEOREM TimeGoesForwardCorrect == Spec => TimeGoesForward
<1>1. TypeOK /\ [Next]_vars =>
        [\/ Sub(ticks', ticks) \in Delays
         \/ Sub(ticks', ticks) <= lastNewTicks' /\ lastNewTicks' <= LongestFrame]_ticks
  BY ForwardStep
<1> QED
  BY <1>1, TypeCorrect, PTL DEF Spec, TimeGoesForward

-----------------------------------------------------------------------------
(* The throttle.                                                           *)

(* Dividing by a positive number and multiplying by it again does not move *)
(* a number away from zero.                                                *)
LEMMA QuotientBound ==
  ASSUME NEW x \in Int, NEW d \in Nat \ {0}, NEW low \in Nat, NEW high \in Nat,
         x <= high, x >= -low
  PROVE  /\ Quotient(x, d) \in Int
         /\ Quotient(x, d) * d <= high /\ Quotient(x, d) * d >= -low
<1>1. ASSUME NEW n \in Nat
      PROVE  n \div d \in Nat /\ (n \div d) * d \in Nat /\ (n \div d) * d <= n
  <2> DEFINE p == n \div d
             s == n % d
  <2>1. p \in Nat /\ s \in Nat /\ n = (p * d) + s
    BY Division
  <2> HIDE DEF p, s
  <2>2. p * d \in Nat
    BY <2>1
  <2>3. p \in Nat /\ p * d <= n
    BY <2>1, <2>2
  <2> QED
    BY <2>2, <2>3 DEF p
<1>2. CASE x >= 0
  BY <1>1, <1>2 DEF Quotient
<1>3. CASE ~(x >= 0)
  <2>1. -x \in Nat
    BY <1>3
  <2> DEFINE q == (-x) \div d
  <2>2. q \in Nat /\ q * d \in Nat /\ q * d <= -x
    BY <1>1, <2>1
  <2>3. Quotient(x, d) = -q
    BY <1>3 DEF Quotient
  <2> HIDE DEF q
  <2>4. (-q) * d = -(q * d)
    BY <2>2
  <2> QED
    BY <2>1, <2>2, <2>3, <2>4
<1> QED
  BY <1>2, <1>3

(* What is left of a frame after the overshoot of the one before it is at  *)
(* most the frame and at least a negative longest frame; so is its scaled  *)
(* length, at that scale.                                                  *)
LEMMA PacingStep ==
  ASSUME TypeOK, PacingBounded, [Next]_vars
  PROVE  PacingBounded'
<1>1. CASE UNCHANGED <<desiredDeltaTime, lastNewTicks>>
  BY <1>1 DEF PacingBounded
<1>2. ASSUME NEW elapsed \in Elapsed, BeginFrame(elapsed), framerate > 0
      PROVE  PacingBounded'
  <2>1. Current \in FrameBoundaryCalls
    BY <1>2, CurrentTyped DEF BeginFrame, At, TypeOK
  <2> DEFINE r == Current.framerate
             newTicks == FrameTicks(r, ticksMinorAccum)
             rest == Rest(newTicks)
             scaled == rest * TimescaleDivisor
             low == LongestFrame * TimescaleDivisor
             high == newTicks * TimescaleDivisor
  <2>2. r \in DeterministicRates
    BY <1>2, <2>1, RatesAssumption DEF BeginFrame, FrameBoundaryCalls, DeterministicRates
  <2>3. newTicks \in 0 .. LongestFrame
    BY <2>2, FrameLength DEF TypeOK
  <2>4. /\ desiredDeltaTime' = IF Timescale > 1 THEN Quotient(scaled, Timescale) ELSE scaled
        /\ lastNewTicks' = newTicks
    BY <1>2 DEF BeginFrame, EnterFrameBoundary
  <2>5. /\ rest \in Int /\ newTicks \in Nat
        /\ newTicks - rest \in Nat /\ rest + LongestFrame \in Nat
    BY <2>3, LongestFrameAssumption DEF TypeOK, Rest
  <2> HIDE DEF r, newTicks, rest
  <2>6. PICK a \in Nat, b \in Nat : rest = newTicks - a /\ rest = b - LongestFrame
    <3>1. newTicks - (newTicks - rest) = rest /\ (rest + LongestFrame) - LongestFrame = rest
      BY <2>5, LongestFrameAssumption
    <3> QED
      BY <2>5, <3>1
  <2>7. /\ a * TimescaleDivisor \in Nat /\ b * TimescaleDivisor \in Nat
        /\ low \in Nat /\ high \in Nat /\ scaled \in Int
    BY <2>5, <2>6, ScaleAssumption, LongestFrameAssumption
  <2>8. scaled = high - (a * TimescaleDivisor) /\ scaled = (b * TimescaleDivisor) - low
    BY <2>5, <2>6, ScaleAssumption, LongestFrameAssumption
  <2>9. scaled <= high /\ scaled >= -low
    BY <2>7, <2>8
  <2> HIDE DEF scaled, low, high
  <2>10. desiredDeltaTime' * Timescale <= high /\ desiredDeltaTime' * Timescale >= -low
    <3>1. CASE Timescale > 1
      BY <2>4, <2>7, <2>9, <3>1, ScaleAssumption, QuotientBound
    <3>2. CASE ~(Timescale > 1)
      <4>1. Timescale = 1 /\ desiredDeltaTime' = scaled
        BY <2>4, <3>2, ScaleAssumption
      <4> QED
        BY <2>7, <2>9, <4>1
    <3> QED
      BY <3>1, <3>2
  <2> QED
    BY <2>4, <2>10 DEF PacingBounded, low, high
<1>3. ASSUME NEW elapsed \in Elapsed, BeginFrame(elapsed), ~(framerate > 0)
      PROVE  UNCHANGED <<desiredDeltaTime, lastNewTicks>>
  BY <1>3 DEF BeginFrame, clockVars
<1>4. CASE ~(\E elapsed \in Elapsed : BeginFrame(elapsed))
  BY <1>1, <1>4
  DEF Next, Step, Sleep, TransferWait, vars, flags, clockVars, control, PostDllMain,
      SetFastForward, AddDelay, AddDelayFrame, AddDelayReturn, FrameBoundary,
      BeginFrameDividesByZero, Command, EndFrame
<1> QED
  BY <1>1, <1>2, <1>3, <1>4

(* The throttle never asks for more real time than this frame lasts at the *)
(* selected speed, nor for less than minus the longest frame at that speed,*)
(* for every timescale and every sequence of real times the frames took.   *)
THEOREM PacingCorrect == Spec => []PacingBounded
<1>1. Init => PacingBounded
  <2>1. LongestFrame * TimescaleDivisor \in Nat /\ 0 * Timescale = 0 /\ 0 * TimescaleDivisor = 0
    BY ScaleAssumption, LongestFrameAssumption
  <2> QED
    BY <2>1 DEF Init, PacingBounded
<1>2. TypeOK /\ PacingBounded /\ [Next]_vars => PacingBounded'
  BY PacingStep
<1> QED
  BY <1>1, <1>2, TypeCorrect, PTL DEF Spec

-----------------------------------------------------------------------------
(* Two executions.                                                         *)

(* A frame takes its length and the game's time from what the executions   *)
(* share; their clocks and their throttles only reach lastOvershot,        *)
(* lastEnterValid and desiredDeltaTime.                                    *)
LEMMA TwinsEnter ==
  ASSUME Deterministic, NEW r, NEW e, NEW f,
         EnterFrameBoundary(r, e), Twin!EnterFrameBoundary(r, f)
  PROVE  /\ ticks2' = ticks' /\ lastEnterTicks2' = lastEnterTicks'
         /\ ticksMinorAccum2' = ticksMinorAccum'
         /\ lastNewTicks2' = lastNewTicks'
         /\ forceAdvancedTicks2' = forceAdvancedTicks'
         /\ isSleepEnterFB2' = isSleepEnterFB' /\ isWaitEnterFB2' = isWaitEnterFB'
         /\ soundTicks2' = soundTicks' /\ timedFrames2' = timedFrames'
<1> DEFINE newTicks == FrameTicks(r, ticksMinorAccum)
           takenTicks == Add(Sub(ticks, lastEnterTicks), forceAdvancedTicks)
<1>1. /\ ticks' = TimeOnEntry(newTicks, takenTicks)
      /\ lastEnterTicks' = TimeOnEntry(newTicks, takenTicks)
      /\ ticksMinorAccum' = (ticksMinorAccum + (1000 % r)) % r
      /\ lastNewTicks' = newTicks
      /\ forceAdvancedTicks' = IF isSleepEnterFB \/ isWaitEnterFB THEN forceAdvancedTicks ELSE 0
      /\ isSleepEnterFB' = FALSE /\ isWaitEnterFB' = FALSE
      /\ soundTicks' = soundTicks + newTicks /\ timedFrames' = timedFrames + 1
  BY DEF EnterFrameBoundary
<1>2. /\ Twin!FrameTicks(r, ticksMinorAccum) = newTicks
      /\ Twin!Add(Twin!Sub(ticks, lastEnterTicks), forceAdvancedTicks) = takenTicks
  BY DEF Twin!FrameTicks, FrameTicks, Twin!Add, Twin!Sub, Add, Sub
<1>3. Twin!TimeOnEntry(newTicks, takenTicks) = TimeOnEntry(newTicks, takenTicks)
  BY DEF Twin!TimeOnEntry, TimeOnEntry, Twin!Add, Add, Deterministic
<1> HIDE DEF newTicks, takenTicks
<1>4. /\ ticks2' = TimeOnEntry(newTicks, takenTicks)
      /\ lastEnterTicks2' = TimeOnEntry(newTicks, takenTicks)
      /\ ticksMinorAccum2' = (ticksMinorAccum + (1000 % r)) % r
      /\ lastNewTicks2' = newTicks
      /\ forceAdvancedTicks2' = IF isSleepEnterFB \/ isWaitEnterFB THEN forceAdvancedTicks ELSE 0
      /\ isSleepEnterFB2' = FALSE /\ isWaitEnterFB2' = FALSE
      /\ soundTicks2' = soundTicks + newTicks /\ timedFrames2' = timedFrames + 1
  BY <1>2, <1>3 DEF Twin!EnterFrameBoundary, Deterministic
<1> QED
  BY <1>1, <1>4

(* Every call keeps the two executions together: one case for each.        *)
LEMMA TwinsStep ==
  ASSUME Deterministic, [TwinNext]_twinVars
  PROVE  Deterministic'
<1> USE DEF flags, clockVars, control, Twin!flags, Twin!clockVars, Twin!control
<1>1. CASE FastForwardOne
  BY <1>1 DEF FastForwardOne, SetFastForward, Twin!SetFastForward, vars, vars2, Deterministic
<1>2. CASE PostDllMain /\ Twin!PostDllMain
  BY <1>2 DEF PostDllMain, Twin!PostDllMain, Deterministic
<1>3. ASSUME NEW d, NEW isSleep, AddDelay(d, isSleep), Twin!AddDelay(d, isSleep)
      PROVE  Deterministic'
  BY <1>3 DEF AddDelay, Twin!AddDelay, Add, Twin!Add, Push, Twin!Push, MaxDeferredDelay,
              Twin!MaxDeferredDelay, Deterministic
<1>4. CASE FrameBoundary /\ Twin!FrameBoundary
  BY <1>4 DEF FrameBoundary, Twin!FrameBoundary, Push, Twin!Push, Deterministic
<1>5. CASE AddDelayFrame /\ Twin!AddDelayFrame
  BY <1>5 DEF AddDelayFrame, Twin!AddDelayFrame, Push, Twin!Push, Current, Twin!Current,
              Deterministic
<1>6. CASE AddDelayReturn /\ Twin!AddDelayReturn
  BY <1>6 DEF AddDelayReturn, Twin!AddDelayReturn, Return, Twin!Return, Deterministic
<1>7. ASSUME ExitFrameBoundary, Twin!ExitFrameBoundary
      PROVE  addedDelay2' = addedDelay'
  BY <1>7 DEF ExitFrameBoundary, Twin!ExitFrameBoundary, PaidDelay, Twin!PaidDelay, Deterministic
<1>8. ASSUME NEW e, NEW f, BeginFrame(e), Twin!BeginFrame(f)
      PROVE  Deterministic'
  <2>1. addedDelay2' = addedDelay'
    BY <1>7, <1>8 DEF BeginFrame, Twin!BeginFrame, Deterministic
  <2>2. /\ framerate2' = framerate' /\ inFrameBoundary2' = inFrameBoundary'
        /\ dllInitializationDone2' = dllInitializationDone' /\ crashed2' = crashed'
        /\ stack2' = stack'
    BY <1>8 DEF BeginFrame, Twin!BeginFrame, Goto, Twin!Goto, Deterministic
  <2>3. CASE framerate > 0
    <3>1. EnterFrameBoundary(Current.framerate, e) /\ Twin!EnterFrameBoundary(Current.framerate, f)
      BY <1>8, <2>3 DEF BeginFrame, Twin!BeginFrame, Current, Twin!Current, Deterministic
    <3> QED
      BY <2>1, <2>2, <3>1, TwinsEnter DEF Deterministic
  <2>4. CASE ~(framerate > 0)
    BY <1>8, <2>1, <2>2, <2>4 DEF BeginFrame, Twin!BeginFrame, Deterministic
  <2> QED
    BY <2>3, <2>4
<1>9. CASE BeginFrameDividesByZero /\ Twin!BeginFrameDividesByZero
  BY <1>7, <1>9 DEF BeginFrameDividesByZero, Twin!BeginFrameDividesByZero, Deterministic
<1>10. ASSUME NEW r, Command(r), Twin!Command(r)
       PROVE  Deterministic'
  BY <1>10 DEF Command, Twin!Command, Goto, Twin!Goto, Deterministic
<1>11. CASE EndFrame /\ Twin!EndFrame
  BY <1>7, <1>11 DEF EndFrame, Twin!EndFrame, Return, Twin!Return, Deterministic
<1>12. CASE UNCHANGED twinVars
  BY <1>12 DEF twinVars, vars, vars2, Deterministic
<1> QED
  BY <1>1, <1>2, <1>3, <1>4, <1>5, <1>6, <1>8, <1>9, <1>10, <1>11, <1>12
  DEF TwinNext, SameCall, Sleep, TransferWait, Twin!Sleep, Twin!TransferWait

(* Two executions that make the same calls in the same order, with the same*)
(* frame rates, see the same times and run the same frames, whatever their *)
(* clocks do and whichever of them fast-forwards.                          *)
THEOREM DeterministicCorrect == TwinSpec => []Deterministic
<1>1. TwinInit => Deterministic
  BY DEF TwinInit, Init, Twin!Init, Deterministic
<1>2. Deterministic /\ [TwinNext]_twinVars => Deterministic'
  BY TwinsStep
<1> QED
  BY <1>1, <1>2, PTL DEF TwinSpec
=============================================================================
