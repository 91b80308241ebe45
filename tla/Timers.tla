------------------------------- MODULE Timers -------------------------------
(***************************************************************************)
(* The timers of the game (hooks/hooks/timerhooks.cpp): SetTimer timers,   *)
(* kept in a set ordered by their id, and multimedia timers, kept in a     *)
(* linked list.  Both are served by ProcessTimers, which FrameBoundary     *)
(* calls on the primary thread.  Their callbacks are game code: they set   *)
(* and kill timers, and may sleep or draw, which enters ProcessTimers again*)
(* ("disabled, some games need to recurse", :70).                          *)
(*                                                                         *)
(* The list grows at its tail with increasing uids, so it is a function    *)
(* from the uids of its nodes, and the next node has the next larger uid.  *)
(* Time does not wrap here; DetTimer is about the counter itself.          *)
(***************************************************************************)
EXTENDS Integers, Sequences, FiniteSets

CONSTANTS
  Windows,    \* window handles; the first window of the game is GameWindow
  GameWindow, \* gamehwnd
  NoWindow,   \* NULL
  Ids,        \* ids the game chooses for its timers
  Elapses,    \* arguments of SetTimer, within USER_TIMER_MINIMUM and MAXIMUM
  Periods,    \* delays of multimedia timers
  TimersMode, \* tasflags.timersMode, 0 (suppressed) or 1 (emulated)
  Recursive,  \* kinds of callbacks, "SetTimer" and "multimedia", that sleep or draw
  MaxTime,    \* bound: the game stops when this much time has passed
  MaxSet,     \* bound: timers the game sets
  MaxDepth    \* bound: nesting of ProcessTimers

ASSUME TimersAssumption ==
  /\ GameWindow \in Windows /\ NoWindow \notin Windows
  /\ Ids \subseteq Nat \ {0} /\ Elapses \subseteq Nat \ {0} /\ Periods \subseteq Nat \ {0}
  /\ TimersMode \in {0, 1}
  /\ Recursive \subseteq {"SetTimer", "multimedia"}
  /\ MaxTime \in Nat /\ MaxSet \in Nat /\ MaxDepth \in Nat \ {0}

VARIABLES
  now,     \* detTimer.GetTicks()
  pending, \* s_pendingSetTimers
  list,    \* nodes of the multimedia timers by uid
  stack,   \* activations of ProcessTimers and TickMultiMediaTimers, innermost last
  crashed, \* a node was used after it had been deleted
  serial,  \* timers set so far; the number of a timer is its uid as well
  fired    \* history: how often each SetTimer timer has called back

vars == <<now, pending, list, stack, crashed, serial, fired>>

Serials == 1 .. MaxSet
End     == 0    \* the NULL at the end of the list

Timer == [hWnd : Windows, nIDEvent : Nat \ {0}, targetTime : Nat, serial : Serials]
Node  == [delay : Periods, periodic : BOOLEAN, killRequest : BOOLEAN, overshot : Int,
          prevTime : Nat, ideal : Nat, calls : Nat]
ProcessCalls == [fn : {"ProcessTimers"}, inCallback : BOOLEAN, time : Nat, triggered : SUBSET Timer]
TickCalls    == [fn : {"Tick"}, inCallback : BOOLEAN, time : Nat, info : Nat]

Init ==
  /\ now = 0
  /\ pending = {}
  /\ list = <<>>
  /\ stack = <<>>
  /\ crashed = FALSE
  /\ serial = 0
  /\ fired = [s \in Serials |-> 0]

Current == stack[Len(stack)]
Replace(call) == stack' = [stack EXCEPT ![Len(stack)] = call]
Return == stack' = SubSeq(stack, 1, Len(stack) - 1)

GameRuns == ~crashed /\ (stack # <<>> => Current.inCallback)
Working(fn) == ~crashed /\ stack # <<>> /\ Current.fn = fn /\ ~Current.inCallback
MayRecurse ==
  stack # <<>> => /\ Len(stack) < MaxDepth
                  /\ (IF Current.fn = "Tick" THEN "multimedia" ELSE "SetTimer") \in Recursive

-----------------------------------------------------------------------------
(* Any thread of the game sets and kills timers, under the lock.           *)
PendingIds == {t.nIDEvent : t \in pending}

(* CreateNewTimerID: the lowest id that is free.                           *)
AnyFreeID == {id \in 0 .. MaxSet : id \notin PendingIds}
CreateNewTimerID == {id \in 1 .. MaxSet + 1 : /\ id \notin PendingIds
                                             /\ 1 .. id - 1 \subseteq PendingIds}

NewTimer(hWnd, id, elapse) ==
  /\ pending' = pending \cup {[hWnd |-> hWnd, nIDEvent |-> id, targetTime |-> now + elapse,
                               serial |-> serial + 1]}
  /\ serial' = serial + 1

(* AddSetTimerTimer.  When the id is pending nothing happens at all: the   *)
(* assignment to the found element goes to a temporary, and inserting an   *)
(* equal key of another window fails.                                      *)
SetTimer(hWnd, id, elapse) ==
  /\ ~crashed /\ serial < MaxSet
  /\ \/ /\ id \in PendingIds /\ UNCHANGED <<pending, serial>>
     \/ /\ id \notin PendingIds
        /\ \E newId \in CreateNewTimerID :
             NewTimer(IF hWnd = NoWindow THEN GameWindow ELSE hWnd,
                      IF id = 0 \/ hWnd = NoWindow THEN newId ELSE id, elapse)
  /\ UNCHANGED <<now, list, stack, crashed, fired>>

KillTimer(hWnd, id) ==
  /\ ~crashed
  /\ pending' = {t \in pending : ~(t.hWnd = hWnd /\ t.nIDEvent = id)}
  /\ UNCHANGED <<now, list, stack, crashed, serial, fired>>

(* MytimeSetEvent and MytimeKillEvent.  The list has no lock, and the code *)
(* lets any thread of the game call them; here only the primary thread     *)
(* does, so that the list never changes under a step of the walk, and a    *)
(* walk is disturbed by its own callbacks alone.                           *)
TimeSetEvent(delay, periodic) ==
  /\ GameRuns /\ serial < MaxSet /\ TimersMode # 0
  /\ serial' = serial + 1
  /\ list' = [u \in DOMAIN list \cup {serial + 1} |->
                IF u = serial + 1
                THEN [delay |-> delay, periodic |-> periodic, killRequest |-> FALSE,
                      overshot |-> 0, prevTime |-> now, ideal |-> now, calls |-> 0]
                ELSE list[u]]
  /\ UNCHANGED <<now, pending, stack, crashed, fired>>

TimeKillEvent(uid) ==
  /\ GameRuns
  /\ list' = [list EXCEPT ![uid].killRequest = TRUE]
  /\ UNCHANGED <<now, pending, stack, crashed, serial, fired>>

(* The game sleeps, draws or polls the clock.                              *)
Advance(d) ==
  /\ GameRuns /\ now + d <= MaxTime
  /\ now' = now + d
  /\ UNCHANGED <<pending, list, stack, crashed, serial, fired>>

-----------------------------------------------------------------------------
(* ProcessTimers takes the timers that are due out of the set, lets go of  *)
(* the lock and calls them back one by one.                                *)
DueUpToFirstIdle(t) == /\ now >= t.targetTime
                       /\ \A u \in pending : u.nIDEvent < t.nIDEvent => now >= u.targetTime
Due(t) == now >= t.targetTime
KeptPending(due) == pending
RestPending(due) == pending \ due

ProcessTimers ==
  /\ GameRuns /\ MayRecurse
  /\ LET due == {t \in pending : Due(t)}
     IN  /\ pending' = RestPending(due)
         /\ stack' = Append(stack, [fn |-> "ProcessTimers", inCallback |-> FALSE,
                                    time |-> now, triggered |-> due])
  /\ UNCHANGED <<now, list, crashed, serial, fired>>

(* The set is ordered, and the timers collected from it keep its order.    *)
CallTimer ==
  /\ Working("ProcessTimers") /\ TimersMode # 0
  /\ \E t \in Current.triggered :
       /\ \A u \in Current.triggered : t.nIDEvent <= u.nIDEvent
       /\ fired' = [fired EXCEPT ![t.serial] = @ + 1]
       /\ Replace([Current EXCEPT !.inCallback = TRUE, !.triggered = @ \ {t}])
  /\ UNCHANGED <<now, pending, list, crashed, serial>>

(* The callback returns, perhaps after it has set and killed timers.       *)
ReturnFromTimer ==
  /\ ~crashed /\ stack # <<>> /\ Current.fn = "ProcessTimers" /\ Current.inCallback
  /\ Replace([Current EXCEPT !.inCallback = FALSE])
  /\ UNCHANGED <<now, pending, list, crashed, serial, fired>>

NextNode(uid) == LET later == {u \in DOMAIN list : u > uid}
                     next  == {u \in later : \A v \in later : u <= v}
                 IN  IF next = {} THEN End ELSE CHOOSE u \in next : TRUE

BeginTick ==
  /\ Working("ProcessTimers") /\ (Current.triggered = {} \/ TimersMode = 0)
  /\ Replace([fn |-> "Tick", inCallback |-> FALSE, time |-> now, info |-> NextNode(0)])
  /\ UNCHANGED <<now, pending, list, crashed, serial, fired>>

-----------------------------------------------------------------------------
Info == list[Current.info]
NodeIsDueAdding(node, time) == time - node.prevTime >= node.delay + node.overshot
NodeIsDue(node, time) == time - node.prevTime >= node.delay - node.overshot

DeleteNode ==
  /\ Working("Tick") /\ Current.info # End /\ Info.killRequest
  /\ list' = [u \in DOMAIN list \ {Current.info} |-> list[u]]
  /\ Replace([Current EXCEPT !.info = NextNode(@)])
  /\ UNCHANGED <<now, pending, crashed, serial, fired>>

SkipNode ==
  /\ Working("Tick") /\ Current.info # End
  /\ ~Info.killRequest /\ ~NodeIsDue(Info, Current.time)
  /\ Replace([Current EXCEPT !.info = NextNode(@)])
  /\ UNCHANGED <<now, pending, list, crashed, serial, fired>>

CallNode ==
  /\ Working("Tick") /\ Current.info # End
  /\ ~Info.killRequest /\ NodeIsDue(Info, Current.time)
  /\ list' = [list EXCEPT ![Current.info].calls = @ + 1]
  /\ Replace([Current EXCEPT !.inCallback = TRUE])
  /\ UNCHANGED <<now, pending, crashed, serial, fired>>

(* The callback returns.  The node is corrected for the time it came too   *)
(* late ("otherwise music will tend to play too slowly") and the walk goes *)
(* on.  A walk started by the callback may have deleted the node.          *)
OvershotForgotten(node, time) == time - (node.prevTime + node.delay)
Overshot(node, time) == node.overshot + time - (node.prevTime + node.delay)

Corrected(node, time) ==
  [node EXCEPT !.overshot = Overshot(node, time), !.killRequest = @ \/ ~node.periodic,
               !.prevTime = time, !.ideal = @ + node.delay]

ReturnFromNode ==
  /\ ~crashed /\ stack # <<>> /\ Current.fn = "Tick" /\ Current.inCallback
  /\ \/ /\ Current.info \in DOMAIN list
        /\ list' = [list EXCEPT ![Current.info] = Corrected(@, Current.time)]
        /\ Replace([Current EXCEPT !.inCallback = FALSE, !.info = NextNode(@)])
        /\ UNCHANGED crashed
     \/ /\ Current.info \notin DOMAIN list
        /\ crashed' = TRUE
        /\ UNCHANGED <<list, stack>>
  /\ UNCHANGED <<now, pending, serial, fired>>

EndTick ==
  /\ Working("Tick") /\ Current.info = End
  /\ Return
  /\ UNCHANGED <<now, pending, list, crashed, serial, fired>>

CallbackReturns == ReturnFromTimer \/ ReturnFromNode
Serve == CallTimer \/ BeginTick \/ DeleteNode \/ SkipNode \/ CallNode \/ EndTick
Game    == \/ \E hWnd \in Windows \cup {NoWindow}, id \in Ids \cup {0}, elapse \in Elapses :
                SetTimer(hWnd, id, elapse)
           \/ \E t \in pending : KillTimer(t.hWnd, t.nIDEvent)
           \/ \E delay \in Periods, periodic \in BOOLEAN : TimeSetEvent(delay, periodic)
           \/ \E uid \in DOMAIN list : TimeKillEvent(uid)
           \/ \E d \in 1 .. MaxTime : Advance(d)
Next    == ProcessTimers \/ Serve \/ CallbackReturns \/ Game
Spec    == Init /\ [][Next]_vars

(* The game keeps drawing, ProcessTimers runs on, and a callback returns   *)
(* although it may draw any number of times before.                        *)
FairSpec == /\ Spec
            /\ WF_vars(ProcessTimers) /\ WF_vars(Serve)
            /\ \A depth \in 1 .. MaxDepth : SF_vars(Len(stack) = depth /\ CallbackReturns)

-----------------------------------------------------------------------------
TypeOK ==
  /\ now \in Nat
  /\ pending \in SUBSET Timer
  /\ DOMAIN list \subseteq Serials /\ \A u \in DOMAIN list : list[u] \in Node
  /\ stack \in Seq(ProcessCalls \cup TickCalls) /\ Len(stack) <= MaxDepth
  /\ crashed \in BOOLEAN
  /\ serial \in 0 .. MaxSet
  /\ fired \in [Serials -> Nat]

(* Timers that wait for their callback in some activation of ProcessTimers.*)
Triggered(call) == IF call.fn = "ProcessTimers" THEN call.triggered ELSE {}
TriggeredAt(i) == Triggered(stack[i])

(* A SetTimer timer has one life: it is pending, or collected by exactly   *)
(* one activation of ProcessTimers, or has called back, once.  Callbacks   *)
(* that draw collect timers again while the outer activation still holds   *)
(* some of its own (:70, :79-93).                                          *)
OneLife ==
  /\ \A t \in pending : fired[t.serial] = 0
  /\ \A i \in 1 .. Len(stack) : \A t \in TriggeredAt(i) :
       /\ fired[t.serial] = 0
       /\ \A u \in pending : u.serial # t.serial
       /\ \A j \in 1 .. Len(stack) : \A u \in TriggeredAt(j) :
            u.serial = t.serial => i = j /\ u = t
  /\ \A s \in Serials : fired[s] <= 1

(* The correction for late callbacks makes a periodic timer keep its tempo:*)
(* however late and however nested its callbacks come, the next one is due *)
(* at a whole number of periods after the timer was set (:480-486).        *)
TempoKept == \A u \in DOMAIN list : list[u].prevTime - list[u].overshot = list[u].ideal

(* No multimedia timer calls back before its whole number of periods is    *)
(* over, in spite of the correction, which may be as large as the period.  *)
NeverEarly ==
  [][\A u \in DOMAIN list \cap DOMAIN list' :
       list'[u].calls # list[u].calls => now >= list[u].ideal + list[u].delay]_vars

(* A timer that is due is served unless it is killed before: no activation *)
(* is left holding it, and ids that are not due do not hide it.            *)
Waits(s) == \/ \E t \in pending : t.serial = s /\ now >= t.targetTime
            \/ \E i \in 1 .. Len(stack) : \E t \in TriggeredAt(i) : t.serial = s
TimersServed == \A s \in Serials : Waits(s) ~> (crashed \/ ~Waits(s))

(* "one-shot finished, killrequest=true" (:497): a one-shot timer calls    *)
(* back once.  It does not when its callback draws.                        *)
OneShotOnce == \A u \in DOMAIN list : list[u].periodic \/ list[u].calls <= 1
=============================================================================
