------------------------------- MODULE Threads -------------------------------
(***************************************************************************)
(* Wrapped threads (hooks/hooks/threadhooks.cpp, threadMode 1).  The game  *)
(* creates and ends threads all the time; savestates want few of them.  So *)
(* a thread whose function has returned idles, and the next CreateThread   *)
(* of the game hands it another function.  Waits for a thread become waits *)
(* for an exit event (hooks/hooks/waithooks.cpp).  Nothing here is locked: *)
(* the flags and the event are all the two sides have.                     *)
(*                                                                         *)
(* A job is one call of CreateThread by the game: its start address, and   *)
(* the public handle the game gets for it.  The game's primary thread      *)
(* creates, resumes, terminates and waits; jobs return or call ExitThread. *)
(***************************************************************************)
EXTENDS Naturals, FiniteSets

CONSTANTS
  Wrappers,     \* threads of the system, by id
  NoThread,     \* NULL as a thread id
  MaxJobs,      \* bound: calls of CreateThread
  Stacks,       \* stack sizes and attributes of threads
  WaitSyncMode  \* tasflags.waitSyncMode: 0 waits forever, 1 for a second at most

ASSUME ThreadsAssumption ==
  /\ NoThread \notin Wrappers
  /\ MaxJobs \in Nat /\ Stacks # {}
  /\ WaitSyncMode \in {0, 1}

VARIABLES
  twi,       \* ThreadWrapperInfo, and where the thread is in MyThreadWrapperThread
  idOf,      \* threadWrappersOriginalHandleToId, by the job of the handle
  nullEntry, \* threadWrappers has an entry for NULL (operator[] made it)
  primary,   \* what the primary thread of the game is doing
  created,   \* jobs created
  crashed,   \* a null ThreadWrapperInfo was used
  thread,    \* history: the thread that got the job
  started,   \* history: how often the job's function was called
  ended      \* history: how the job ended

vars == <<twi, idOf, nullEntry, primary, created, crashed, thread, started, ended>>

Jobs == 1 .. MaxJobs
StillActive == 0     \* STILL_ACTIVE; the exit code of a job is its number
Terminated  == MaxJobs + 1

Absent == [pc |-> "none", idling |-> FALSE, comatose |-> FALSE, exitcode |-> StillActive,
           event |-> "none", suspends |-> 0, stack |-> CHOOSE s \in Stacks : TRUE, job |-> 0]

Init ==
  /\ twi = [w \in Wrappers |-> Absent]
  /\ idOf = [j \in Jobs |-> NoThread]
  /\ nullEntry = FALSE
  /\ primary = [at |-> "game", job |-> 0, w |-> NoThread]
  /\ created = 0
  /\ crashed = FALSE
  /\ thread = [j \in Jobs |-> NoThread]
  /\ started = [j \in Jobs |-> 0]
  /\ ended = [j \in Jobs |-> "no"]

InGame == ~crashed /\ primary.at = "game"
At(step) == ~crashed /\ primary.at = step
Primary(step, j, w) == primary' = [at |-> step, job |-> j, w |-> w]
BackToGame == Primary("game", 0, NoThread)

PulseEvent(info) == info
SetEvent(info) == IF info.event = "none" THEN info ELSE [info EXCEPT !.event = "set"]

-----------------------------------------------------------------------------
(* MyCreateThread.                                                         *)
MayReuseBusy(info, stack) == ~info.comatose /\ info.stack = stack
MayReuseComatose(info, stack) == info.idling /\ info.stack = stack
MayReuse(info, stack) == info.idling /\ ~info.comatose /\ info.stack = stack
Suspends(suspended) == IF suspended THEN 1 ELSE 0

AlsoKnown(old, j, w) == [idOf EXCEPT ![j] = w]
KnownInstead(old, j, w) == [idOf EXCEPT ![old] = NoThread, ![j] = w]

(* An idle thread gets the new job.  It is resumed until it runs, and the  *)
(* handle the game had for its last job is forgotten.  Resuming goes by    *)
(* privateHandle, a duplicate that the game never sees and nothing closes, *)
(* of a thread that is still there to idle: it does not fail, and the      *)
(* branch that gives the thread up as comatose (:258-264) is left out.     *)
ReuseThread(stack, suspended) ==
  /\ InGame /\ created < MaxJobs
  /\ \E w \in Wrappers :
       /\ MayReuse(twi[w], stack)
       /\ twi' = [twi EXCEPT ![w].job = created + 1, ![w].suspends = Suspends(suspended)]
       /\ idOf' = KnownInstead(twi[w].job, created + 1, w)
       /\ thread' = [thread EXCEPT ![created + 1] = w]
       /\ Primary("reset", created + 1, w)
  /\ created' = created + 1
  /\ UNCHANGED <<nullEntry, crashed, started, ended>>

(* ResetEvent, then the naming of the thread (an IPC call and a sleep),    *)
(* and only then is the thread let go.                                     *)
ResetExitEvent ==
  /\ At("reset")
  /\ twi' = [twi EXCEPT ![primary.w].event = "reset"]
  /\ Primary("letGo", primary.job, primary.w)
  /\ UNCHANGED <<idOf, nullEntry, created, crashed, thread, started, ended>>

LetGo ==
  /\ At("letGo")
  /\ twi' = [twi EXCEPT ![primary.w].idling = FALSE]
  /\ BackToGame
  /\ UNCHANGED <<idOf, nullEntry, created, crashed, thread, started, ended>>

(* There is none to reuse: a new thread starts, and runs while its handle, *)
(* id and exit event are still to be recorded.                             *)
StartThread(stack, suspended) ==
  /\ InGame /\ created < MaxJobs
  /\ \A w \in Wrappers : ~MayReuse(twi[w], stack)
  /\ \E w \in Wrappers :
       /\ twi[w].pc = "none"
       /\ twi' = [twi EXCEPT ![w] = [Absent EXCEPT !.pc = "start", !.stack = stack,
                                     !.job = created + 1, !.suspends = Suspends(suspended)]]
       /\ thread' = [thread EXCEPT ![created + 1] = w]
       /\ Primary("record", created + 1, w)
  /\ created' = created + 1
  /\ UNCHANGED <<idOf, nullEntry, crashed, started, ended>>

RecordThread ==
  /\ At("record")
  /\ idOf' = [idOf EXCEPT ![primary.job] = primary.w]
  /\ twi' = [twi EXCEPT ![primary.w].event = "reset"]
  /\ BackToGame
  /\ UNCHANGED <<nullEntry, created, crashed, thread, started, ended>>

-----------------------------------------------------------------------------
(* MyThreadWrapperThread and MyExitThread.                                 *)
Runs(w, pc) == ~crashed /\ twi[w].pc = pc /\ twi[w].suspends = 0
InTable(w) == \E j \in Jobs : idOf[j] = w
OnlyTwi == UNCHANGED <<idOf, nullEntry, primary, created, crashed, thread>>

NotMarked(info) == [info EXCEPT !.pc = "check"]
Marked(info) == [info EXCEPT !.exitcode = StillActive, !.pc = "check"]
MarkActive(w) ==
  /\ Runs(w, "start")
  /\ twi' = [twi EXCEPT ![w] = Marked(@)]
  /\ OnlyTwi /\ UNCHANGED <<started, ended>>

CallStartAddress(w) ==
  /\ Runs(w, "check")
  /\ \/ /\ twi[w].exitcode = StillActive
        /\ twi' = [twi EXCEPT ![w].pc = "running"]
        /\ started' = [started EXCEPT ![twi[w].job] = @ + 1]
     \/ /\ twi[w].exitcode # StillActive
        /\ twi' = [twi EXCEPT ![w].pc = "returned"]
        /\ UNCHANGED started
  /\ OnlyTwi /\ UNCHANGED ended

(* A terminated job stays one, though it may still end before it is        *)
(* suspended.                                                              *)
EndedAs(j, how) == ended' = [ended EXCEPT ![j] = IF @ = "no" THEN how ELSE @]

FunctionReturns(w) ==
  /\ Runs(w, "running")
  /\ twi' = [twi EXCEPT ![w].exitcode = twi[w].job, ![w].pc = "returned"]
  /\ EndedAs(twi[w].job, "returned")
  /\ OnlyTwi /\ UNCHANGED started

(* "Pretended to exit": the thread may be reused from here on.             *)
BecomeIdle(w) ==
  /\ Runs(w, "returned")
  /\ twi' = [twi EXCEPT ![w].idling = TRUE, ![w].pc = "signal"]
  /\ OnlyTwi /\ UNCHANGED <<started, ended>>

SignalExit(w) ==
  /\ Runs(w, "signal")
  /\ twi' = [twi EXCEPT ![w] = [SetEvent(@) EXCEPT !.pc = "idle"]]
  /\ OnlyTwi /\ UNCHANGED <<started, ended>>

Reawaken(w) ==
  /\ Runs(w, "idle") /\ ~twi[w].idling
  /\ twi' = [twi EXCEPT ![w].pc = "start"]
  /\ OnlyTwi /\ UNCHANGED <<started, ended>>

(* ExitThread suspends the thread for good; one that is not in the table   *)
(* yet really exits.                                                       *)
CallExitThread(w) ==
  /\ Runs(w, "running")
  /\ \/ /\ InTable(w)
        /\ twi' = [twi EXCEPT ![w].exitcode = twi[w].job, ![w].comatose = TRUE,
                              ![w].pc = "exiting"]
     \/ /\ ~InTable(w)
        /\ twi' = [twi EXCEPT ![w].pc = "dead"]
  /\ EndedAs(twi[w].job, "exited")
  /\ OnlyTwi /\ UNCHANGED started

SuspendForever(w) ==
  /\ Runs(w, "exiting")
  /\ twi' = [twi EXCEPT ![w] = [SetEvent(@) EXCEPT !.idling = TRUE, !.pc = "exited"]]
  /\ OnlyTwi /\ UNCHANGED <<started, ended>>

-----------------------------------------------------------------------------
(* The primary thread uses the handles it got.                             *)
HasHandle(j) == j <= created /\ primary.job # j

(* ResumeThread, not hooked, once for each job created suspended.          *)
ResumeThread(j) ==
  /\ InGame /\ HasHandle(j) /\ idOf[j] # NoThread
  /\ twi[idOf[j]].suspends = 1
  /\ twi' = [twi EXCEPT ![idOf[j]].suspends = 0]
  /\ UNCHANGED <<idOf, nullEntry, primary, created, crashed, thread, started, ended>>

(* MyTerminateThread.  A stale handle would reach the system's own         *)
(* TerminateThread, which is left out.                                     *)
TerminateThread(j) ==
  /\ InGame /\ HasHandle(j) /\ idOf[j] # NoThread
  /\ LET info == twi[idOf[j]]
     IN  ~info.idling /\ ~info.comatose
  /\ twi' = [twi EXCEPT ![idOf[j]] = SetEvent(@)]
  /\ Primary("terminate", j, idOf[j])
  /\ ended' = [ended EXCEPT ![j] = "terminated"]
  /\ UNCHANGED <<idOf, nullEntry, created, crashed, thread, started>>

MarkTerminated ==
  /\ At("terminate")
  /\ twi' = [twi EXCEPT ![primary.w].exitcode = Terminated, ![primary.w].comatose = TRUE]
  /\ Primary("suspend", primary.job, primary.w)
  /\ UNCHANGED <<idOf, nullEntry, created, crashed, thread, started, ended>>

SuspendTerminated ==
  /\ At("suspend")
  /\ twi' = [twi EXCEPT ![primary.w].suspends = @ + 10]
  /\ BackToGame
  /\ UNCHANGED <<idOf, nullEntry, created, crashed, thread, started, ended>>

(* MyGetExitCodeThread: a handle that is not known is looked up all the    *)
(* same, and leaves an entry for NULL.                                     *)
GetExitCodeThread(j) ==
  /\ InGame /\ HasHandle(j)
  /\ nullEntry' = (nullEntry \/ idOf[j] = NoThread)
  /\ UNCHANGED <<twi, idOf, primary, created, crashed, thread, started, ended>>

(* MyWaitForSingleObject on the primary thread.  ThreadHandleToExitHandle  *)
(* finds the exit event, or leaves the handle of the thread, which never   *)
(* exits, or follows the entry for NULL.                                   *)
WaitForSingleObject(j) ==
  /\ InGame /\ HasHandle(j)
  /\ \/ /\ idOf[j] # NoThread
        /\ Primary("waitEvent", j, idOf[j])
        /\ UNCHANGED crashed
     \/ /\ idOf[j] = NoThread /\ ~nullEntry
        /\ Primary("waitThread", j, thread[j])
        /\ UNCHANGED crashed
     \/ /\ idOf[j] = NoThread /\ nullEntry
        /\ crashed' = TRUE
        /\ UNCHANGED primary
  /\ UNCHANGED <<twi, idOf, nullEntry, created, thread, started, ended>>

ObjectSignalled == \/ primary.at = "waitEvent" /\ twi[primary.w].event = "set"
                   \/ primary.at = "waitThread" /\ twi[primary.w].pc = "dead"
Waiting == ~crashed /\ primary.at \in {"waitEvent", "waitThread"}

WaitReturns ==
  /\ Waiting
  /\ ObjectSignalled \/ WaitSyncMode = 1
  /\ BackToGame
  /\ UNCHANGED <<twi, idOf, nullEntry, created, crashed, thread, started, ended>>

-----------------------------------------------------------------------------
WrapperStep(w) == \/ MarkActive(w) \/ CallStartAddress(w) \/ BecomeIdle(w) \/ SignalExit(w)
                  \/ Reawaken(w) \/ SuspendForever(w)
JobStep(w)  == FunctionReturns(w) \/ CallExitThread(w)
HookStep    == \/ ResetExitEvent \/ LetGo \/ RecordThread \/ MarkTerminated \/ SuspendTerminated
               \/ WaitReturns
GameCalls   == \/ \E stack \in Stacks, suspended \in BOOLEAN :
                    ReuseThread(stack, suspended) \/ StartThread(stack, suspended)
               \/ \E j \in Jobs : \/ ResumeThread(j) \/ TerminateThread(j)
                                  \/ GetExitCodeThread(j) \/ WaitForSingleObject(j)
Next == (\E w \in Wrappers : WrapperStep(w) \/ JobStep(w)) \/ HookStep \/ GameCalls
Spec == Init /\ [][Next]_vars

(* The system schedules every thread; what the game's functions do is      *)
(* their own affair.                                                       *)
FairSpec == Spec /\ (\A w \in Wrappers : WF_vars(WrapperStep(w))) /\ WF_vars(HookStep)

-----------------------------------------------------------------------------
Info == [pc : {"none", "start", "check", "running", "returned", "signal", "idle", "exiting",
               "exited", "dead"},
         idling : BOOLEAN, comatose : BOOLEAN, exitcode : 0 .. MaxJobs + 1,
         event : {"none", "reset", "set"}, suspends : Nat, stack : Stacks, job : 0 .. MaxJobs]
Steps == {"game", "reset", "letGo", "record", "terminate", "suspend", "waitEvent", "waitThread"}

(* The types; and a handle in the table is that of the present job.        *)
TypeOK ==
  /\ twi \in [Wrappers -> Info]
  /\ idOf \in [Jobs -> Wrappers \cup {NoThread}]
  /\ nullEntry \in BOOLEAN
  /\ primary \in [at : Steps, job : 0 .. MaxJobs, w : Wrappers \cup {NoThread}]
  /\ created \in 0 .. MaxJobs
  /\ crashed \in BOOLEAN
  /\ thread \in [Jobs -> Wrappers \cup {NoThread}]
  /\ started \in [Jobs -> Nat]
  /\ ended \in [Jobs -> {"no", "returned", "exited", "terminated"}]
  /\ \A j \in Jobs : idOf[j] # NoThread => idOf[j] = thread[j] /\ twi[idOf[j]].job = j

(* A job is neither lost nor run twice: until its function has been called *)
(* it is the job of its thread, and a thread is given another only when    *)
(* the job it had has ended (:110, :242-248, :295).                        *)
JobKept ==
  \A j \in Jobs :
    /\ started[j] <= 1
    /\ thread[j] # NoThread /\ ended[j] = "no" => twi[thread[j]].job = j

(* A handle the game may use tells the exit code of its own job, once its  *)
(* thread is idle or comatose, and never that of the job before.           *)
Reported(j) == twi[idOf[j]].idling \/ twi[idOf[j]].comatose
ExitCodeIsOwn ==
  \A j \in Jobs :
    HasHandle(j) /\ idOf[j] # NoThread /\ Reported(j) /\ ended[j] # "terminated" =>
      ended[j] # "no" /\ twi[idOf[j]].exitcode = j

(* What the exit event says is wrong in two ways only: a thread that has   *)
(* been reused may seem to have ended too early, and one that has not been *)
(* may end without a signal.  A reused thread that idles has signalled, and*)
(* a thread signals its first job only when that has ended.                *)
Reused(w) == \E j \in Jobs : thread[j] = w /\ twi[w].job # j
BeingReused(w) == primary.at \in {"reset", "letGo"} /\ primary.w = w
ExitEventSound ==
  \A w \in Wrappers :
    /\ Reused(w) /\ ~BeingReused(w) /\ twi[w].pc = "idle" /\ twi[w].idling =>
         twi[w].event = "set"
    /\ ~Reused(w) /\ twi[w].event = "set" => ended[twi[w].job] # "no"

(* Every function handed to CreateThread is called, unless its thread is   *)
(* suspended or terminated: no job goes to a thread that will not run.     *)
Startable(j) == thread[j] # NoThread /\ started[j] = 0 /\ twi[thread[j]].suspends = 0
JobStarts == \A j \in Jobs : Startable(j) ~> (~Startable(j) \/ ended[j] # "no" \/ crashed)

(* Waiting for the exit event "avoids deadlock when a thread waits for a   *)
(* wrapped thread to exit" (waithooks.cpp:359).  It does not for a thread  *)
(* whose job ends before CreateThread has made the event, nor for a handle *)
(* whose thread has been reused.                                           *)
WaitsForEnded(j) == Waiting /\ primary.job = j /\ ended[j] # "no"
WaitEnds == \A j \in Jobs : WaitsForEnded(j) ~> ~WaitsForEnded(j)
=============================================================================
