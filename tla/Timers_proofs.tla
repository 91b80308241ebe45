---------------------------- MODULE Timers_proofs ----------------------------
(***************************************************************************)
(* Proofs about Timers for any number of timers and depth of recursion.    *)
(***************************************************************************)
EXTENDS Timers, SequenceTheorems, TLAPS

Calls == ProcessCalls \cup TickCalls

-----------------------------------------------------------------------------
(* The activations of ProcessTimers.                                       *)

(* A new activation.                                                       *)
LEMMA Called ==
  ASSUME NEW s \in Seq(Calls), NEW call \in Calls
  PROVE  /\ Append(s, call) \in Seq(Calls)
         /\ Len(Append(s, call)) = Len(s) + 1
         /\ \A i \in 1 .. Len(s) : Append(s, call)[i] = s[i]
         /\ Append(s, call)[Len(s) + 1] = call
  BY AppendProperties

(* The innermost activation goes on.                                       *)
LEMMA Replaced ==
  ASSUME NEW s \in Seq(Calls), s # <<>>, NEW call \in Calls
  PROVE  /\ Len(s) \in Nat \ {0} /\ s[Len(s)] \in Calls
         /\ [s EXCEPT ![Len(s)] = call] \in Seq(Calls)
         /\ Len([s EXCEPT ![Len(s)] = call]) = Len(s)
         /\ \A i \in 1 .. Len(s) :
              [s EXCEPT ![Len(s)] = call][i] = IF i = Len(s) THEN call ELSE s[i]
<1>1. Len(s) \in Nat \ {0} /\ Len(s) \in 1 .. Len(s)
  BY EmptySeq, LenProperties
<1> QED
  BY <1>1, ExceptSeq

(* The innermost activation returns.                                       *)
LEMMA Returned ==
  ASSUME NEW s \in Seq(Calls), s # <<>>
  PROVE  /\ SubSeq(s, 1, Len(s) - 1) \in Seq(Calls)
         /\ Len(SubSeq(s, 1, Len(s) - 1)) = Len(s) - 1
         /\ \A i \in 1 .. Len(s) - 1 : SubSeq(s, 1, Len(s) - 1)[i] = s[i]
<1> DEFINE n == Len(s) - 1
<1>1. n \in Nat /\ n + 1 = Len(s) /\ \A i \in 1 .. n : s[i] \in Calls
  BY EmptySeq, LenProperties, ElementOfSeq
<1> HIDE DEF n
<1>2. /\ SubSeq(s, 1, n) \in Seq(Calls)
      /\ Len(SubSeq(s, 1, n)) = IF 1 <= n THEN n - 1 + 1 ELSE 0
      /\ \A i \in 1 .. n - 1 + 1 : SubSeq(s, 1, n)[i] = s[1 + i - 1]
  BY <1>1, SubSeqProperties
<1>3. Len(SubSeq(s, 1, n)) = n /\ \A i \in 1 .. n : SubSeq(s, 1, n)[i] = s[i]
  BY <1>1, <1>2
<1> QED
  BY <1>2, <1>3 DEF n

(* The fields of activations.                                              *)
LEMMA CallFields ==
  ASSUME NEW call \in Calls
  PROVE  /\ call.time \in Nat /\ call.inCallback \in BOOLEAN
         /\ call.fn = "ProcessTimers" => call \in ProcessCalls /\ call.triggered \in SUBSET Timer
         /\ call.fn = "Tick" => call \in TickCalls /\ call.info \in Nat
         /\ Triggered(call) \in SUBSET Timer
<1>1. CASE call \in ProcessCalls
  BY <1>1 DEF ProcessCalls, Triggered
<1>2. CASE call \in TickCalls
  BY <1>2 DEF TickCalls, Triggered
<1> QED
  BY <1>1, <1>2 DEF Calls

-----------------------------------------------------------------------------
(* The numbers of timers.  A number not given yet has not been called.     *)
Numbered ==
  /\ \A t \in pending : t.serial <= serial
  /\ \A i \in 1 .. Len(stack) : \A t \in TriggeredAt(i) : t.serial <= serial
  /\ \A u \in DOMAIN list : u <= serial
  /\ \A s \in Serials : s > serial => fired[s] = 0
  /\ \A t \in pending : \A u \in pending : t.serial = u.serial => t = u

(* No activation looks ahead.                                              *)
Past == \A i \in 1 .. Len(stack) : stack[i].time <= now

IInv == TypeOK /\ TempoKept /\ Past /\ Numbered /\ OneLife

(* There are no timers at first.                                           *)
LEMMA InitInv == Init => IInv
<1> SUFFICES ASSUME Init
             PROVE  IInv
  OBVIOUS
<1>1. Len(stack) = 0 /\ stack \in Seq(Calls)
  BY EmptySeq DEF Init
<1>2. 1 .. Len(stack) = {} /\ pending = {} /\ DOMAIN list = {} /\ \A s \in Serials : fired[s] = 0
  BY <1>1 DEF Init
<1>3. TypeOK
  <2>1. DOMAIN list \subseteq Serials /\ (\A u \in DOMAIN list : list[u] \in Node)
    BY <1>2
  <2>2. stack \in Seq(ProcessCalls \cup TickCalls) /\ Len(stack) <= MaxDepth
    BY <1>1, TimersAssumption DEF Calls
  <2>3. now \in Nat /\ pending \in SUBSET Timer /\ serial \in 0 .. MaxSet
    BY <1>2, TimersAssumption DEF Init
  <2>4. crashed \in BOOLEAN /\ fired \in [Serials -> Nat]
    BY DEF Init
  <2> QED
    BY <2>1, <2>2, <2>3, <2>4 DEF TypeOK
<1>4. TempoKept
  BY <1>2 DEF TempoKept
<1>5. Past /\ Numbered /\ OneLife
  BY <1>2 DEF Past, Numbered, OneLife
<1> QED
  BY <1>3, <1>4, <1>5 DEF IInv

-----------------------------------------------------------------------------
(* Types.                                                                  *)

(* The innermost activation and the node it is at.                         *)
LEMMA CurrentOK ==
  ASSUME TypeOK, stack # <<>>
  PROVE  /\ Len(stack) \in Nat \ {0} /\ Current \in Calls
         /\ stack \in Seq(Calls)
  BY EmptySeq, LenProperties, ElementOfSeq DEF TypeOK, Current, Calls

LEMMA NodeFields ==
  ASSUME NEW node \in Node
  PROVE  /\ node.delay \in Nat \ {0} /\ node.overshot \in Int /\ node.prevTime \in Nat
         /\ node.ideal \in Nat /\ node.calls \in Nat
         /\ node.periodic \in BOOLEAN /\ node.killRequest \in BOOLEAN
         /\ node.delay \in Periods
  BY TimersAssumption DEF Node

LEMMA NextNodeOK ==
  ASSUME TypeOK, NEW uid
  PROVE  NextNode(uid) \in Nat
  BY DEF NextNode, End, TypeOK, Serials

(* The parts of TypeOK that change together.                               *)
ListOK  == DOMAIN list \subseteq Serials /\ \A u \in DOMAIN list : list[u] \in Node
StackOK == stack \in Seq(Calls) /\ Len(stack) <= MaxDepth
RestOK  == /\ now \in Nat /\ pending \in SUBSET Timer /\ serial \in 0 .. MaxSet
           /\ fired \in [Serials -> Nat]
FlagOK  == crashed \in BOOLEAN

LEMMA TypeParts == /\ TypeOK <=> ListOK /\ StackOK /\ RestOK /\ FlagOK
                   /\ TypeOK' <=> ListOK' /\ StackOK' /\ RestOK' /\ FlagOK'
  BY DEF TypeOK, ListOK, StackOK, RestOK, FlagOK, Calls

(* What the innermost activation does leaves the stack well-formed.        *)
LEMMA ReplaceOK ==
  ASSUME TypeOK, stack # <<>>, NEW call \in Calls, Replace(call)
  PROVE  StackOK'
  BY CurrentOK, Replaced, TypeParts DEF StackOK, Replace

(* Serving timers keeps the types.                                         *)
LEMMA TypeStep ==
  ASSUME TypeOK, [Next]_vars
  PROVE  TypeOK'
<1> USE TypeParts
<1>1. ASSUME NEW hWnd \in Windows \cup {NoWindow}, NEW id \in Ids \cup {0},
             NEW elapse \in Elapses, SetTimer(hWnd, id, elapse)
      PROVE  TypeOK'
  <2>1. CASE id \in PendingIds
    BY <1>1, <2>1 DEF SetTimer, ListOK, StackOK, RestOK, FlagOK
  <2>2. CASE id \notin PendingIds
    <3>1. PICK newId \in CreateNewTimerID :
            NewTimer(IF hWnd = NoWindow THEN GameWindow ELSE hWnd,
                     IF id = 0 \/ hWnd = NoWindow THEN newId ELSE id, elapse)
      BY <1>1, <2>2 DEF SetTimer
    <3> DEFINE h == IF hWnd = NoWindow THEN GameWindow ELSE hWnd
               i == IF id = 0 \/ hWnd = NoWindow THEN newId ELSE id
    <3>2. h \in Windows /\ i \in Nat \ {0}
      BY TimersAssumption DEF CreateNewTimerID
    <3>3. now + elapse \in Nat /\ serial + 1 \in Serials
      BY <1>1, TimersAssumption DEF SetTimer, RestOK, Serials
    <3>4. RestOK'
      BY <1>1, <3>1, <3>2, <3>3 DEF NewTimer, RestOK, Timer, SetTimer, Serials
    <3> QED
      BY <1>1, <3>4 DEF SetTimer, ListOK, StackOK, FlagOK
  <2> QED
    BY <2>1, <2>2
<1>2. ASSUME NEW t \in pending, KillTimer(t.hWnd, t.nIDEvent)
      PROVE  TypeOK'
  BY <1>2 DEF KillTimer, ListOK, StackOK, RestOK, FlagOK
<1>3. ASSUME NEW delay \in Periods, NEW periodic \in BOOLEAN, TimeSetEvent(delay, periodic)
      PROVE  TypeOK'
  <2>1. serial + 1 \in Serials /\ serial' = serial + 1
    BY <1>3, TimersAssumption DEF TimeSetEvent, RestOK, Serials
  <2>2. [delay |-> delay, periodic |-> periodic, killRequest |-> FALSE, overshot |-> 0,
         prevTime |-> now, ideal |-> now, calls |-> 0] \in Node
    BY <1>3 DEF Node, RestOK
  <2>3. ListOK'
    BY <1>3, <2>1, <2>2 DEF TimeSetEvent, ListOK
  <2>4. RestOK'
    BY <1>3, <2>1 DEF TimeSetEvent, RestOK, Serials
  <2> QED
    BY <1>3, <2>3, <2>4 DEF TimeSetEvent, StackOK, FlagOK
<1>4. ASSUME NEW uid \in DOMAIN list, TimeKillEvent(uid)
      PROVE  TypeOK'
  <2>1. ListOK'
    BY <1>4 DEF TimeKillEvent, ListOK, Node
  <2> QED
    BY <1>4, <2>1 DEF TimeKillEvent, StackOK, RestOK, FlagOK
<1>5. ASSUME NEW d \in 1 .. MaxTime, Advance(d)
      PROVE  TypeOK'
  BY <1>5, TimersAssumption DEF Advance, ListOK, StackOK, RestOK, FlagOK
<1>6. CASE ProcessTimers
  <2> DEFINE due  == {t \in pending : Due(t)}
             call == [fn |-> "ProcessTimers", inCallback |-> FALSE, time |-> now,
                      triggered |-> due]
  <2>1. call \in Calls
    BY DEF Calls, ProcessCalls, RestOK
  <2>2. Len(stack) + 1 <= MaxDepth
    <3>1. CASE stack = <<>>
      BY <3>1, EmptySeq, TimersAssumption
    <3>2. CASE stack # <<>>
      BY <1>6, <3>2, CurrentOK, TimersAssumption DEF ProcessTimers, MayRecurse
    <3> QED
      BY <3>1, <3>2
  <2>3. StackOK'
    BY <1>6, <2>1, <2>2, Called DEF ProcessTimers, StackOK
  <2>4. RestOK'
    BY <1>6 DEF ProcessTimers, RestOK, RestPending
  <2> QED
    BY <1>6, <2>3, <2>4 DEF ProcessTimers, ListOK, FlagOK
<1>7. CASE CallTimer
  <2>1. stack # <<>> /\ Current \in Calls /\ Current.fn = "ProcessTimers"
    BY <1>7, CurrentOK DEF CallTimer, Working
  <2>2. PICK t \in Current.triggered :
          /\ fired' = [fired EXCEPT ![t.serial] = @ + 1]
          /\ Replace([Current EXCEPT !.inCallback = TRUE, !.triggered = @ \ {t}])
    BY <1>7 DEF CallTimer
  <2>3. [Current EXCEPT !.inCallback = TRUE, !.triggered = @ \ {t}] \in Calls
    BY <2>1, CallFields DEF Calls, ProcessCalls
  <2>4. StackOK'
    BY <2>1, <2>2, <2>3, ReplaceOK
  <2>5. t.serial \in Serials
    BY <2>1, <2>2, CallFields DEF Timer
  <2>6. RestOK'
    BY <1>7, <2>2, <2>5 DEF CallTimer, RestOK
  <2> QED
    BY <1>7, <2>4, <2>6 DEF CallTimer, ListOK, FlagOK
<1>8. CASE ReturnFromTimer
  <2>1. stack # <<>> /\ Current \in ProcessCalls
    BY <1>8, CurrentOK, CallFields DEF ReturnFromTimer
  <2>2. [Current EXCEPT !.inCallback = FALSE] \in Calls
    BY <2>1 DEF Calls, ProcessCalls
  <2>3. StackOK'
    BY <1>8, <2>1, <2>2, ReplaceOK DEF ReturnFromTimer
  <2> QED
    BY <1>8, <2>3 DEF ReturnFromTimer, ListOK, RestOK, FlagOK
<1>9. CASE BeginTick
  <2>1. stack # <<>>
    BY <1>9 DEF BeginTick, Working
  <2>2. [fn |-> "Tick", inCallback |-> FALSE, time |-> now, info |-> NextNode(0)] \in Calls
    BY NextNodeOK DEF Calls, TickCalls, RestOK
  <2>3. StackOK'
    BY <1>9, <2>1, <2>2, ReplaceOK DEF BeginTick
  <2> QED
    BY <1>9, <2>3 DEF BeginTick, ListOK, RestOK, FlagOK
<1>10. ASSUME stack # <<>>, Current.fn = "Tick"
       PROVE  /\ [Current EXCEPT !.inCallback = TRUE] \in Calls
              /\ [Current EXCEPT !.info = NextNode(@)] \in Calls
              /\ [Current EXCEPT !.inCallback = FALSE, !.info = NextNode(@)] \in Calls
              /\ Current.time \in Nat
  <2>1. Current \in TickCalls
    BY <1>10, CurrentOK, CallFields
  <2>2. NextNode(Current.info) \in Nat
    BY NextNodeOK
  <2> QED
    BY <2>1, <2>2 DEF Calls, TickCalls
<1>11. CASE DeleteNode
  <2>1. StackOK'
    BY <1>10, <1>11, ReplaceOK DEF DeleteNode, Working
  <2> QED
    BY <1>11, <2>1 DEF DeleteNode, ListOK, RestOK, FlagOK
<1>12. CASE SkipNode
  <2>1. StackOK'
    BY <1>10, <1>12, ReplaceOK DEF SkipNode, Working
  <2> QED
    BY <1>12, <2>1 DEF SkipNode, ListOK, RestOK, FlagOK
<1>13. CASE CallNode
  <2>1. StackOK'
    BY <1>10, <1>13, ReplaceOK DEF CallNode, Working
  <2>2. ListOK'
    BY <1>13 DEF CallNode, ListOK, Node
  <2> QED
    BY <1>13, <2>1, <2>2 DEF CallNode, RestOK, FlagOK
<1>14. CASE ReturnFromNode
  <2>1. CASE Current.info \in DOMAIN list
    <3>1. StackOK'
      BY <1>10, <1>14, <2>1, ReplaceOK DEF ReturnFromNode
    <3>2. Current.time \in Nat
      BY <1>10, <1>14 DEF ReturnFromNode
    <3>3. Info \in Node
      BY <2>1 DEF ListOK, Info
    <3>4. Overshot(Info, Current.time) \in Int /\ Info.ideal + Info.delay \in Nat
      BY <3>2, <3>3, NodeFields DEF Overshot
    <3>5. (Info.killRequest \/ ~Info.periodic) \in BOOLEAN
      OBVIOUS
    <3>6. Corrected(Info, Current.time) \in Node
      BY <3>2, <3>3, <3>4, <3>5 DEF Node, Corrected
    <3>7. list' = [list EXCEPT ![Current.info] = Corrected(Info, Current.time)]
      BY <1>14, <2>1 DEF ReturnFromNode, Info
    <3>8. ListOK'
      BY <2>1, <3>6, <3>7 DEF ListOK
    <3> QED
      BY <1>14, <2>1, <3>1, <3>8 DEF ReturnFromNode, RestOK, FlagOK
  <2>2. CASE Current.info \notin DOMAIN list
    BY <1>14, <2>2 DEF ReturnFromNode, ListOK, StackOK, RestOK, FlagOK
  <2> QED
    BY <2>1, <2>2
<1>15. CASE EndTick
  <2>1. stack # <<>> /\ stack' = SubSeq(stack, 1, Len(stack) - 1)
    BY <1>15 DEF EndTick, Working, Return
  <2>2. Len(stack') = Len(stack) - 1 /\ stack' \in Seq(Calls)
    BY <2>1, CurrentOK, Returned
  <2>3. StackOK'
    BY <2>1, <2>2, CurrentOK, TimersAssumption DEF StackOK
  <2> QED
    BY <1>15, <2>3 DEF EndTick, ListOK, RestOK, FlagOK
<1>16. CASE UNCHANGED vars
  BY <1>16 DEF vars, ListOK, StackOK, RestOK, FlagOK
<1> QED
  BY <1>1, <1>2, <1>3, <1>4, <1>5, <1>6, <1>7, <1>8, <1>9, <1>11, <1>12, <1>13, <1>14, <1>15,
     <1>16 DEF Next, Serve, CallbackReturns, Game

-----------------------------------------------------------------------------
(* Tempo: only the return of a callback moves a node's times.              *)
LEMMA TempoStep ==
  ASSUME TypeOK, TempoKept, [Next]_vars
  PROVE  TempoKept'
<1>1. ASSUME NEW delay \in Periods, NEW periodic \in BOOLEAN, TimeSetEvent(delay, periodic)
      PROVE  TempoKept'
  BY <1>1 DEF TimeSetEvent, TempoKept, TypeOK
<1>2. ASSUME NEW uid \in DOMAIN list, TimeKillEvent(uid)
      PROVE  TempoKept'
  BY <1>2 DEF TimeKillEvent, TempoKept, TypeOK, Node
<1>3. CASE DeleteNode
  BY <1>3 DEF DeleteNode, TempoKept
<1>4. CASE CallNode
  BY <1>4 DEF CallNode, TempoKept, TypeOK, Node
<1>5. CASE ReturnFromNode
  <2>1. CASE Current.info \in DOMAIN list
    <3>1. stack # <<>> /\ Current.time \in Nat
      BY <1>5, CurrentOK, CallFields DEF ReturnFromNode
    <3>2. Info \in Node /\ Info.prevTime - Info.overshot = Info.ideal
      BY <2>1 DEF Info, TypeOK, TempoKept
    <3> DEFINE new == Corrected(Info, Current.time)
    <3>3. /\ new.prevTime = Current.time /\ new.ideal = Info.ideal + Info.delay
          /\ new.overshot = Info.overshot + Current.time - (Info.prevTime + Info.delay)
      BY <3>2 DEF Corrected, Overshot, Node
    <3>4. new.prevTime - new.overshot = new.ideal
      BY <3>1, <3>2, <3>3, NodeFields
    <3>5. list' = [list EXCEPT ![Current.info] = new]
      BY <1>5, <2>1 DEF ReturnFromNode, Info
    <3> QED
      BY <2>1, <3>4, <3>5 DEF TempoKept
  <2>2. CASE Current.info \notin DOMAIN list
    BY <1>5, <2>2 DEF ReturnFromNode, TempoKept
  <2> QED
    BY <2>1, <2>2
<1>6. CASE UNCHANGED list
  BY <1>6 DEF TempoKept
<1> QED
  BY <1>1, <1>2, <1>3, <1>4, <1>5, <1>6
  DEF Next, Serve, CallbackReturns, Game, ProcessTimers, CallTimer, BeginTick, SkipNode, EndTick,
      ReturnFromTimer, SetTimer, KillTimer, Advance, vars

-----------------------------------------------------------------------------
(* How the stack moves: a new activation, the innermost one goes on at the *)
(* same or the present time, or returns.                                   *)
Kept == /\ Len(stack') <= Len(stack)
        /\ \A i \in 1 .. Len(stack') :
             /\ stack'[i].time = stack[i].time \/ stack'[i].time = now
             /\ Triggered(stack'[i]) \subseteq Triggered(stack[i])

(* Only ProcessTimers adds an activation.                                  *)
LEMMA StackKept ==
  ASSUME TypeOK, [Next]_vars, ~ProcessTimers
  PROVE  Kept
<1>1. ASSUME stack # <<>>, NEW call \in Calls, Replace(call),
             call.time = Current.time \/ call.time = now,
             Triggered(call) \subseteq Triggered(Current)
      PROVE  Kept
  <2>1. stack' = [stack EXCEPT ![Len(stack)] = call] /\ stack \in Seq(Calls)
    BY <1>1, CurrentOK DEF Replace
  <2>2. Len(stack') = Len(stack) /\ Len(stack) \in Nat
    BY <1>1, <2>1, Replaced
  <2>3. \A i \in 1 .. Len(stack) : stack'[i] = IF i = Len(stack) THEN call ELSE stack[i]
    BY <1>1, <2>1, Replaced
  <2> QED
    BY <1>1, <2>2, <2>3 DEF Kept, Current
<1>2. ASSUME UNCHANGED stack
      PROVE  Kept
  BY <1>2, LenProperties DEF Kept, TypeOK
<1>3. CASE CallTimer
  <2>1. stack # <<>> /\ Current \in ProcessCalls
    BY <1>3, CurrentOK, CallFields DEF CallTimer, Working
  <2>2. PICK t \in Current.triggered :
          Replace([Current EXCEPT !.inCallback = TRUE, !.triggered = @ \ {t}])
    BY <1>3 DEF CallTimer
  <2> DEFINE call == [Current EXCEPT !.inCallback = TRUE, !.triggered = @ \ {t}]
  <2>3. call \in Calls /\ call.time = Current.time /\ Triggered(call) \subseteq Triggered(Current)
    BY <2>1 DEF Calls, ProcessCalls, Triggered
  <2> QED
    BY <1>1, <2>1, <2>2, <2>3
<1>4. CASE ReturnFromTimer
  <2>1. stack # <<>> /\ Current \in ProcessCalls
    BY <1>4, CurrentOK, CallFields DEF ReturnFromTimer
  <2> DEFINE call == [Current EXCEPT !.inCallback = FALSE]
  <2>2. call \in Calls /\ call.time = Current.time /\ Triggered(call) \subseteq Triggered(Current)
    BY <2>1 DEF Calls, ProcessCalls, Triggered
  <2> QED
    BY <1>1, <1>4, <2>1, <2>2 DEF ReturnFromTimer
<1>5. CASE BeginTick
  <2> DEFINE call == [fn |-> "Tick", inCallback |-> FALSE, time |-> now, info |-> NextNode(0)]
  <2>1. call \in Calls /\ call.time = now /\ Triggered(call) \subseteq Triggered(Current)
    BY NextNodeOK DEF Calls, TickCalls, Triggered, TypeOK
  <2> QED
    BY <1>1, <1>5, <2>1 DEF BeginTick, Working
<1>6. ASSUME stack # <<>>, Current.fn = "Tick", NEW call,
             call = [Current EXCEPT !.inCallback = TRUE]
               \/ call = [Current EXCEPT !.info = NextNode(@)]
               \/ call = [Current EXCEPT !.inCallback = FALSE, !.info = NextNode(@)],
             Replace(call)
      PROVE  Kept
  <2>1. Current \in TickCalls
    BY <1>6, CurrentOK, CallFields
  <2>2. NextNode(Current.info) \in Nat
    BY NextNodeOK
  <2>3. call \in Calls /\ call.time = Current.time /\ Triggered(call) \subseteq Triggered(Current)
    BY <1>6, <2>1, <2>2 DEF Calls, TickCalls, Triggered
  <2> QED
    BY <1>1, <1>6, <2>3
<1>7. CASE DeleteNode \/ SkipNode \/ CallNode
  BY <1>6, <1>7 DEF DeleteNode, SkipNode, CallNode, Working
<1>8. CASE ReturnFromNode
  BY <1>2, <1>6, <1>8 DEF ReturnFromNode
<1>9. CASE EndTick
  <2>1. stack # <<>> /\ stack' = SubSeq(stack, 1, Len(stack) - 1)
    BY <1>9 DEF EndTick, Working, Return
  <2>2. /\ Len(stack) \in Nat \ {0} /\ Len(stack') = Len(stack) - 1
        /\ \A i \in 1 .. Len(stack) - 1 : stack'[i] = stack[i]
    BY <2>1, CurrentOK, Returned
  <2> QED
    BY <2>2 DEF Kept
<1> QED
  BY <1>2, <1>3, <1>4, <1>5, <1>7, <1>8, <1>9
  DEF Next, Serve, CallbackReturns, Game, SetTimer, KillTimer, TimeSetEvent, TimeKillEvent,
      Advance, vars

LEMMA PastStep ==
  ASSUME TypeOK, Past, [Next]_vars
  PROVE  Past'
<1>1. now' \in Nat /\ now \in Nat /\ now' >= now
  <2>1. CASE \E d \in 1 .. MaxTime : Advance(d)
    BY <2>1, TimersAssumption DEF Advance, TypeOK
  <2>2. CASE ~ \E d \in 1 .. MaxTime : Advance(d)
    <3>1. now' = now
      BY <2>2
      DEF Next, Serve, CallbackReturns, Game, ProcessTimers, CallTimer, BeginTick, DeleteNode,
          SkipNode, CallNode, ReturnFromNode, EndTick, ReturnFromTimer, SetTimer, KillTimer,
          TimeSetEvent, TimeKillEvent, vars
    <3> QED
      BY <3>1 DEF TypeOK
  <2> QED
    BY <2>1, <2>2
<1>2. stack \in Seq(Calls) /\ \A i \in 1 .. Len(stack) : stack[i].time \in Nat
  <2>1. stack \in Seq(Calls)
    BY DEF TypeOK, Calls
  <2> QED
    BY <2>1, ElementOfSeq, CallFields
<1>3. CASE ProcessTimers
  <2> DEFINE due  == {t \in pending : Due(t)}
             call == [fn |-> "ProcessTimers", inCallback |-> FALSE, time |-> now,
                      triggered |-> due]
  <2>1. call \in Calls /\ call.time = now
    BY DEF Calls, ProcessCalls, TypeOK
  <2>2. stack' = Append(stack, call)
    BY <1>3 DEF ProcessTimers
  <2>3. \A i \in 1 .. Len(stack') : stack'[i] = call \/ (i \in 1 .. Len(stack) /\ stack'[i] = stack[i])
    BY <1>2, <2>1, <2>2, Called, LenProperties
  <2> QED
    BY <1>1, <1>2, <2>1, <2>3 DEF Past
<1>4. CASE ~ProcessTimers
  <2>1. Kept
    BY <1>4, StackKept
  <2>2. Len(stack) \in Nat /\ Len(stack') \in Nat
    BY <1>2, TypeStep, LenProperties DEF TypeOK
  <2> QED
    BY <1>1, <1>2, <2>1, <2>2 DEF Kept, Past
<1> QED
  BY <1>3, <1>4

-----------------------------------------------------------------------------
(* One life.  Timers leave `pending' for one activation of ProcessTimers   *)
(* and leave that to be called.                                            *)

(* What is the same whenever no timer is set, collected or called.         *)
LEMMA LifeKept ==
  ASSUME TypeOK, TypeOK', Numbered, OneLife, Kept, pending' \subseteq pending, fired' = fired,
         serial' >= serial, \A u \in DOMAIN list' : u <= serial'
  PROVE  Numbered' /\ OneLife'
<1>1. Len(stack) \in Nat /\ Len(stack') \in Nat /\ Len(stack') <= Len(stack)
  BY LenProperties DEF TypeOK, Kept
<1>2. \A i \in 1 .. Len(stack') : i \in 1 .. Len(stack) /\ TriggeredAt(i)' \subseteq TriggeredAt(i)
  BY <1>1 DEF Kept, TriggeredAt
<1>3. /\ \A t \in pending : t.serial \in Nat
      /\ \A i \in 1 .. Len(stack) : \A t \in TriggeredAt(i) : t.serial \in Nat
      /\ serial \in Nat /\ serial' \in Nat
  <2>1. \A i \in 1 .. Len(stack) : stack[i] \in Calls
    BY ElementOfSeq DEF TypeOK, Calls
  <2>2. \A i \in 1 .. Len(stack) : TriggeredAt(i) \in SUBSET Timer
    BY <2>1, CallFields DEF TriggeredAt
  <2> QED
    BY <2>2 DEF TypeOK, Timer, Serials
<1>4. Numbered'
  <2>1. \A t \in pending' : t.serial <= serial'
    BY <1>3 DEF Numbered
  <2>2. \A i \in 1 .. Len(stack') : \A t \in TriggeredAt(i)' : t.serial <= serial'
    BY <1>2, <1>3 DEF Numbered
  <2>3. \A s \in Serials : s > serial' => fired'[s] = 0
    BY <1>3 DEF Numbered, Serials
  <2> QED
    BY <2>1, <2>2, <2>3 DEF Numbered
<1>5. OneLife'
  <2>1. \A t \in pending' : fired'[t.serial] = 0
    BY DEF OneLife
  <2>2. ASSUME NEW i \in 1 .. Len(stack'), NEW t \in TriggeredAt(i)'
        PROVE  /\ fired'[t.serial] = 0
               /\ \A u \in pending' : u.serial # t.serial
               /\ \A j \in 1 .. Len(stack') : \A u \in TriggeredAt(j)' :
                    u.serial = t.serial => i = j /\ u = t
    BY <1>2, <2>2 DEF OneLife
  <2> QED
    BY <2>1, <2>2 DEF OneLife
<1> QED
  BY <1>4, <1>5

(* The timers of an activation.                                            *)
LEMMA TriggeredOK ==
  ASSUME TypeOK
  PROVE  \A i \in 1 .. Len(stack) : TriggeredAt(i) \in SUBSET Timer
<1>1. \A i \in 1 .. Len(stack) : stack[i] \in Calls
  BY ElementOfSeq DEF TypeOK, Calls
<1> QED
  BY <1>1, CallFields DEF TriggeredAt

(* A new timer has a number of its own.                                    *)
LEMMA LifeSet ==
  ASSUME TypeOK, Numbered, OneLife,
         NEW hWnd \in Windows \cup {NoWindow}, NEW id \in Ids \cup {0}, NEW elapse \in Elapses,
         SetTimer(hWnd, id, elapse)
  PROVE  Numbered' /\ OneLife'
<1>1. CASE id \in PendingIds
  <2>1. UNCHANGED <<pending, list, stack, serial, fired>>
    BY <1>1 DEF SetTimer
  <2> QED
    BY <2>1 DEF Numbered, OneLife, TriggeredAt
<1>2. CASE id \notin PendingIds
  <2>1. PICK new : /\ pending' = pending \cup {new} /\ new.serial = serial + 1
                   /\ serial' = serial + 1 /\ serial < MaxSet
                   /\ UNCHANGED <<list, stack, fired>>
    BY <1>2 DEF SetTimer, NewTimer
  <2>2. /\ serial \in Nat /\ MaxSet \in Nat /\ serial + 1 \in Serials
        /\ \A t \in pending : t.serial \in Nat /\ t.serial <= serial
        /\ DOMAIN list \subseteq Serials
    BY <2>1, TimersAssumption DEF TypeOK, Timer, Serials, Numbered
  <2>3. \A i \in 1 .. Len(stack) : \A t \in TriggeredAt(i) : t.serial \in Nat /\ t.serial <= serial
    BY TriggeredOK DEF Numbered, Timer, Serials
  <2>4. \A i : TriggeredAt(i)' = TriggeredAt(i)
    BY <2>1 DEF TriggeredAt
  <2>5. fired[serial + 1] = 0
    BY <2>2 DEF Numbered
  <2>6. Numbered'
    <3>1. \A t \in pending' : t.serial <= serial'
      BY <2>1, <2>2
    <3>2. \A i \in 1 .. Len(stack') : \A t \in TriggeredAt(i)' : t.serial <= serial'
      BY <2>1, <2>2, <2>3, <2>4
    <3>3. \A u \in DOMAIN list' : u <= serial'
      BY <2>1, <2>2 DEF Numbered, Serials
    <3>4. \A s \in Serials : s > serial' => fired'[s] = 0
      BY <2>1, <2>2 DEF Numbered, Serials
    <3>5. \A t \in pending' : \A u \in pending' : t.serial = u.serial => t = u
      <4>1. \A t \in pending : t.serial # serial + 1
        BY <2>2
      <4> QED
        BY <2>1, <4>1 DEF Numbered
    <3> QED
      BY <3>1, <3>2, <3>3, <3>4, <3>5 DEF Numbered
  <2>7. OneLife'
    <3>1. \A t \in pending' : fired'[t.serial] = 0
      BY <2>1, <2>5 DEF OneLife
    <3>2. \A i \in 1 .. Len(stack) : \A t \in TriggeredAt(i) : t.serial # serial + 1
      BY <2>2, <2>3
    <3>3. \A s \in Serials : fired'[s] <= 1
      BY <2>1 DEF OneLife
    <3> QED
      BY <2>1, <2>4, <3>1, <3>2, <3>3 DEF OneLife
  <2> QED
    BY <2>6, <2>7
<1> QED
  BY <1>1, <1>2

(* ProcessTimers takes the timers it collects out of the set.              *)
LEMMA LifeProcess ==
  ASSUME TypeOK, Numbered, OneLife, ProcessTimers
  PROVE  Numbered' /\ OneLife'
<1> DEFINE due  == {t \in pending : Due(t)}
           call == [fn |-> "ProcessTimers", inCallback |-> FALSE, time |-> now,
                    triggered |-> due]
<1>1. /\ pending' = pending \ due /\ stack' = Append(stack, call)
      /\ UNCHANGED <<list, serial, fired>>
  BY DEF ProcessTimers, RestPending
<1>2. call \in Calls /\ Triggered(call) = due
  BY DEF Calls, ProcessCalls, TypeOK, Triggered
<1>3. /\ Len(stack) \in Nat /\ Len(stack') = Len(stack) + 1
      /\ stack'[Len(stack) + 1] = call /\ \A i \in 1 .. Len(stack) : stack'[i] = stack[i]
  BY <1>1, <1>2, Called, LenProperties DEF TypeOK, Calls
<1>4. PICK n \in Nat : n = Len(stack)
  BY <1>3
<1>5. /\ \A i \in 1 .. n : TriggeredAt(i)' = TriggeredAt(i)
      /\ TriggeredAt(n + 1)' = due
      /\ \A i \in 1 .. Len(stack') : i \in 1 .. n \/ i = n + 1
  BY <1>2, <1>3, <1>4 DEF TriggeredAt
<1> HIDE DEF due, call
<1>6. due \subseteq pending
  BY DEF due
<1>7. Numbered'
  <2>1. \A i \in 1 .. Len(stack') : \A t \in TriggeredAt(i)' : t.serial <= serial'
    BY <1>1, <1>4, <1>5, <1>6 DEF Numbered
  <2> QED
    BY <1>1, <2>1 DEF Numbered
<1>8. OneLife'
  <2>1. \A t \in pending' : fired'[t.serial] = 0
    BY <1>1 DEF OneLife
  <2>2. ASSUME NEW i \in 1 .. Len(stack'), NEW t \in TriggeredAt(i)'
        PROVE  /\ fired'[t.serial] = 0
               /\ \A u \in pending' : u.serial # t.serial
               /\ \A j \in 1 .. Len(stack') : \A u \in TriggeredAt(j)' :
                    u.serial = t.serial => i = j /\ u = t
    <3>1. CASE i \in 1 .. n
      <4>1. t \in TriggeredAt(i)
        BY <1>5, <2>2, <3>1
      <4>2. \A u \in pending : u.serial # t.serial
        BY <1>4, <3>1, <4>1 DEF OneLife
      <4>3. \A j \in 1 .. n : \A u \in TriggeredAt(j) :
              u.serial = t.serial => i = j /\ u = t
        BY <1>4, <3>1, <4>1 DEF OneLife
      <4> QED
        BY <1>1, <1>4, <1>5, <1>6, <3>1, <4>1, <4>2, <4>3 DEF OneLife
    <3>2. CASE i = n + 1
      <4>1. t \in due
        BY <1>5, <2>2, <3>2
      <4>2. \A j \in 1 .. n : \A u \in TriggeredAt(j) : u.serial # t.serial
        BY <1>4, <1>6, <4>1 DEF OneLife
      <4>3. \A u \in pending : u.serial = t.serial => u = t
        BY <1>6, <4>1 DEF Numbered
      <4> QED
        BY <1>1, <1>4, <1>5, <1>6, <3>2, <4>1, <4>2, <4>3 DEF OneLife
    <3> QED
      BY <1>5, <3>1, <3>2
  <2> QED
    BY <1>1, <2>1, <2>2 DEF OneLife
<1> QED
  BY <1>7, <1>8

(* The timer called is let go of before its callback runs.                 *)
LEMMA LifeCall ==
  ASSUME TypeOK, Numbered, OneLife, CallTimer
  PROVE  Numbered' /\ OneLife'
<1>1. stack # <<>> /\ Current \in ProcessCalls
  BY CurrentOK, CallFields DEF CallTimer, Working
<1>2. PICK t \in Current.triggered :
        /\ fired' = [fired EXCEPT ![t.serial] = @ + 1]
        /\ Replace([Current EXCEPT !.inCallback = TRUE, !.triggered = @ \ {t}])
  BY DEF CallTimer
<1> DEFINE call == [Current EXCEPT !.inCallback = TRUE, !.triggered = @ \ {t}]
<1>0. PICK top : top = Len(stack)
  OBVIOUS
<1>3. UNCHANGED <<pending, list, serial>>
  BY DEF CallTimer
<1>4. call \in Calls /\ Triggered(call) = Triggered(Current) \ {t} /\ t \in Triggered(Current)
  BY <1>1, <1>2 DEF Calls, ProcessCalls, Triggered
<1>5. /\ Len(stack') = Len(stack) /\ top \in 1 .. Len(stack)
      /\ \A i \in 1 .. Len(stack) : stack'[i] = IF i = top THEN call ELSE stack[i]
  BY <1>0, <1>1, <1>2, <1>4, CurrentOK, Replaced DEF Replace
<1> HIDE DEF call
<1>6. /\ t \in TriggeredAt(top)
      /\ TriggeredAt(top)' = TriggeredAt(top) \ {t}
      /\ \A i \in 1 .. Len(stack) : i # top => TriggeredAt(i)' = TriggeredAt(i)
  BY <1>0, <1>4, <1>5 DEF TriggeredAt, Current
<1>7. t.serial \in Serials /\ t.serial <= serial
  BY <1>5, <1>6, TriggeredOK DEF Timer, Numbered
<1>8. /\ fired[t.serial] = 0 /\ \A u \in pending : u.serial # t.serial
      /\ \A j \in 1 .. Len(stack) : \A u \in TriggeredAt(j) :
           u.serial = t.serial => top = j /\ u = t
  BY <1>5, <1>6 DEF OneLife
<1>9. \A s \in Serials : fired'[s] = IF s = t.serial THEN 1 ELSE fired[s]
  BY <1>2, <1>7, <1>8 DEF TypeOK
<1>10. \A i \in 1 .. Len(stack) : /\ TriggeredAt(i)' \subseteq TriggeredAt(i)
                                  /\ \A u \in TriggeredAt(i)' : u.serial # t.serial
  BY <1>5, <1>6, <1>8
<1>11. Numbered'
  <2>1. \A s \in Serials : s > serial' => fired'[s] = 0
    BY <1>3, <1>7, <1>9 DEF Numbered, Serials, TypeOK
  <2> QED
    BY <1>3, <1>5, <1>10, <2>1 DEF Numbered
<1>12. OneLife'
  <2>1. \A u \in pending : u.serial \in Serials
    BY DEF TypeOK, Timer
  <2>2. \A u \in pending' : fired'[u.serial] = 0
    BY <1>3, <1>8, <1>9, <2>1 DEF OneLife
  <2>3. \A s \in Serials : fired'[s] <= 1
    BY <1>9 DEF OneLife
  <2>4. ASSUME NEW i \in 1 .. Len(stack'), NEW u \in TriggeredAt(i)'
        PROVE  /\ fired'[u.serial] = 0
               /\ \A v \in pending' : v.serial # u.serial
               /\ \A j \in 1 .. Len(stack') : \A v \in TriggeredAt(j)' :
                    v.serial = u.serial => i = j /\ v = u
    <3>1. i \in 1 .. Len(stack) /\ u \in TriggeredAt(i) /\ u.serial # t.serial
      BY <1>5, <1>10, <2>4
    <3>2. u.serial \in Serials
      BY <3>1, TriggeredOK DEF Timer
    <3> QED
      BY <1>3, <1>5, <1>9, <1>10, <3>1, <3>2 DEF OneLife
  <2> QED
    BY <2>2, <2>3, <2>4 DEF OneLife
<1> QED
  BY <1>11, <1>12

LEMMA LifeStep ==
  ASSUME TypeOK, Numbered, OneLife, [Next]_vars
  PROVE  Numbered' /\ OneLife'
<1>1. CASE \E hWnd \in Windows \cup {NoWindow}, id \in Ids \cup {0}, elapse \in Elapses :
             SetTimer(hWnd, id, elapse)
  BY <1>1, LifeSet
<1>2. CASE ProcessTimers
  BY <1>2, LifeProcess
<1>3. CASE CallTimer
  BY <1>3, LifeCall
<1>4. CASE ~ProcessTimers /\ ~CallTimer
        /\ ~(\E hWnd \in Windows \cup {NoWindow}, id \in Ids \cup {0}, elapse \in Elapses :
               SetTimer(hWnd, id, elapse))
  <2>1. TypeOK' /\ Kept
    BY <1>4, TypeStep, StackKept
  <2>2. pending' \subseteq pending /\ fired' = fired
    BY <1>4 DEF Next, Serve, CallbackReturns, Game, BeginTick, DeleteNode, SkipNode, CallNode,
      ReturnFromNode, EndTick, ReturnFromTimer, KillTimer, TimeSetEvent, TimeKillEvent, Advance,
      vars
  <2>3. serial' >= serial /\ \A u \in DOMAIN list' : u <= serial'
    <3>1. CASE \E delay \in Periods, periodic \in BOOLEAN : TimeSetEvent(delay, periodic)
      BY <3>1 DEF TimeSetEvent, TypeOK, Numbered, Serials
    <3>2. CASE ~(\E delay \in Periods, periodic \in BOOLEAN : TimeSetEvent(delay, periodic))
      <4>1. serial' = serial /\ DOMAIN list' \subseteq DOMAIN list
        BY <1>4, <3>2 DEF Next, Serve, CallbackReturns, Game, BeginTick, DeleteNode, SkipNode,
          CallNode, ReturnFromNode, EndTick, ReturnFromTimer, KillTimer, TimeKillEvent, Advance,
          vars
      <4> QED
        BY <4>1 DEF Numbered, TypeOK
    <3> QED
      BY <3>1, <3>2
  <2> QED
    BY <2>1, <2>2, <2>3, LifeKept
<1> QED
  BY <1>1, <1>2, <1>3, <1>4

-----------------------------------------------------------------------------
(* The invariant, and what follows from it.                                *)
LEMMA StepInv == IInv /\ [Next]_vars => IInv'
  BY TypeStep, TempoStep, PastStep, LifeStep DEF IInv

LEMMA Invariance == Spec => []IInv
<1>1. Init => IInv
  BY InitInv
<1>2. IInv /\ [Next]_vars => IInv'
  BY StepInv
<1> QED
  BY <1>1, <1>2, PTL DEF Spec

(* The state of the timers is well-formed.                                 *)
THEOREM TypeCorrect == Spec => []TypeOK
<1>1. IInv => TypeOK
  BY DEF IInv
<1> QED
  BY <1>1, Invariance, PTL

(* Every SetTimer timer is in one place and calls back once at most,       *)
(* however deep ProcessTimers recurses.                                    *)
THEOREM TimersLiveOnce == Spec => []OneLife
<1>1. IInv => OneLife
  BY DEF IInv
<1> QED
  BY <1>1, Invariance, PTL

(* Late callbacks do not move the tempo of a periodic timer.               *)
THEOREM TempoIsKept == Spec => []TempoKept
<1>1. IInv => TempoKept
  BY DEF IInv
<1> QED
  BY <1>1, Invariance, PTL

(* No multimedia timer calls back before its period is over.               *)
THEOREM NotBeforeItsTime == Spec => NeverEarly
<1>1. ASSUME IInv, [Next]_vars
      PROVE  \A u \in DOMAIN list \cap DOMAIN list' :
               list'[u].calls # list[u].calls => now >= list[u].ideal + list[u].delay
  <2> SUFFICES ASSUME NEW u \in DOMAIN list \cap DOMAIN list', list'[u].calls # list[u].calls
               PROVE  now >= list[u].ideal + list[u].delay
    OBVIOUS
  <2>1. TypeOK /\ list[u] \in Node
    BY <1>1 DEF IInv, TypeOK
  <2>2. CASE CallNode
    <3>1. u = Current.info /\ NodeIsDue(Info, Current.time) /\ stack # <<>>
      BY <2>1, <2>2 DEF CallNode, Node, Working
    <3>2. Current.time \in Nat /\ Current.time <= now
      BY <1>1, <2>1, <3>1, CurrentOK, CallFields DEF IInv, Past, Current
    <3>3. list[u].prevTime - list[u].overshot = list[u].ideal
      BY <1>1 DEF IInv, TempoKept
    <3>4. Current.time - list[u].prevTime >= list[u].delay - list[u].overshot
      BY <3>1 DEF NodeIsDue, Info
    <3>5. now \in Nat
      BY <2>1 DEF TypeOK
    <3> QED
      BY <2>1, <3>2, <3>3, <3>4, <3>5, NodeFields
  <2>3. CASE ReturnFromNode
    <3>1. list' = list \/ (Current.info \in DOMAIN list
                           /\ list' = [list EXCEPT ![Current.info] = Corrected(Info, Current.time)])
      BY <2>3 DEF ReturnFromNode, Info
    <3>2. ASSUME Current.info \in DOMAIN list
          PROVE  Corrected(Info, Current.time).calls = Info.calls
      BY <2>1, <3>2 DEF Corrected, Info, Node, TypeOK
    <3>3. CASE u = Current.info
      BY <3>1, <3>2, <3>3 DEF Info
    <3>4. CASE u # Current.info
      BY <3>1, <3>4
    <3> QED
      BY <3>3, <3>4
  <2>4. CASE \E d \in Periods, p \in BOOLEAN : TimeSetEvent(d, p)
    <3>1. serial + 1 # u
      BY <1>1, <2>1 DEF IInv, Numbered, TypeOK, Serials
    <3> QED
      BY <2>4, <3>1 DEF TimeSetEvent
  <2>5. CASE \E uid \in DOMAIN list : TimeKillEvent(uid)
    BY <2>1, <2>5 DEF TimeKillEvent, Node
  <2>6. CASE DeleteNode
    BY <2>6 DEF DeleteNode
  <2>7. CASE UNCHANGED list
    BY <2>7
  <2> QED
    BY <1>1, <2>2, <2>3, <2>4, <2>5, <2>6, <2>7
    DEF Next, Serve, CallbackReturns, Game, ProcessTimers, CallTimer, BeginTick, SkipNode,
        EndTick, ReturnFromTimer, SetTimer, KillTimer, Advance, vars
<1>2. IInv /\ [Next]_vars =>
        [\A u \in DOMAIN list \cap DOMAIN list' :
           list'[u].calls # list[u].calls => now >= list[u].ideal + list[u].delay]_vars
  BY <1>1
<1> QED
  BY <1>2, Invariance, PTL DEF Spec, NeverEarly
=============================================================================
