---------------------------- MODULE Threads_proofs ----------------------------
(***************************************************************************)
(* Proofs about the two components in which threads hand work to each      *)
(* other: Threads, for any number of threads and jobs, and CommandSlot, for*)
(* any number of savestate slots, frames and commands, as long as the menus*)
(* send none.  They share no state.                                        *)
(***************************************************************************)
EXTENDS Threads, CommandSlot, TLAPS

(* A thread has a job whose function it has still to call.                 *)
Fresh(w) == \/ twi[w].pc \in {"start", "check"}
            \/ BeingReused(w)
            \/ twi[w].pc \in {"signal", "idle"} /\ ~twi[w].idling

(* Jobs are given out in order, and their threads know them.               *)
JobsOK ==
  /\ \A j \in Jobs : (thread[j] # NoThread) <=> (j <= created)
  /\ \A j \in Jobs : j > created => started[j] = 0 /\ ended[j] = "no"
  /\ \A w \in Wrappers :
       /\ twi[w].pc = "none" => /\ ~twi[w].idling /\ ~twi[w].comatose /\ twi[w].event = "none"
                                /\ \A j \in Jobs : thread[j] # w
       /\ twi[w].pc # "none" => twi[w].job \in Jobs /\ thread[twi[w].job] = w

(* What the primary thread is at.                                          *)
PrimaryOK ==
  /\ primary.at \in {"reset", "letGo"} =>
       /\ primary.w \in Wrappers /\ primary.job \in Jobs
       /\ twi[primary.w].job = primary.job /\ thread[primary.job] = primary.w
       /\ ended[primary.job] = "no" /\ twi[primary.w].idling /\ ~twi[primary.w].comatose
       /\ Reused(primary.w)
  /\ primary.at = "record" =>
       /\ primary.w \in Wrappers /\ primary.job \in Jobs
       /\ twi[primary.w].job = primary.job /\ thread[primary.job] = primary.w
       /\ ~Reused(primary.w)
  /\ primary.at \in {"terminate", "suspend"} =>
       /\ primary.w \in Wrappers /\ primary.job \in Jobs
       /\ twi[primary.w].job = primary.job /\ thread[primary.job] = primary.w
       /\ ended[primary.job] = "terminated"

(* The flags, and where the thread is.                                     *)
PlaceOK(w) ==
  /\ twi[w].idling => twi[w].pc \in {"signal", "idle", "exited"}
  /\ twi[w].pc \in {"exiting", "exited"} => twi[w].comatose
  /\ twi[w].pc = "exited" => twi[w].idling
  /\ twi[w].pc \in {"signal", "idle"} /\ ~twi[w].idling => Reused(w)
  /\ Fresh(w) => started[twi[w].job] = 0

(* A thread that is done with its job.                                     *)
OverOK(w) ==
  /\ twi[w].pc \notin {"none", "running"} /\ ~Fresh(w) => ended[twi[w].job] # "no"
  /\ twi[w].comatose => ended[twi[w].job] # "no"
  /\ twi[w].comatose /\ twi[w].pc \notin {"exiting", "exited"} =>
       ended[twi[w].job] = "terminated"

(* Its exit code.                                                          *)
CodeOK(w) ==
  twi[w].pc # "none" /\ ended[twi[w].job] # "terminated" =>
    /\ twi[w].pc \in {"returned", "signal", "idle", "exiting", "exited"} /\ ~Fresh(w) =>
         twi[w].exitcode = twi[w].job
    /\ twi[w].pc = "check" => twi[w].exitcode = StillActive

(* Its exit event.                                                         *)
EventOK(w) ==
  /\ twi[w].pc # "none" /\ ~(primary.at = "record" /\ primary.w = w) => twi[w].event # "none"
  /\ Reused(w) /\ ~BeingReused(w) /\ twi[w].pc = "idle" /\ twi[w].idling => twi[w].event = "set"
  /\ ~Reused(w) /\ twi[w].event = "set" => ended[twi[w].job] # "no"

WrapperOK(w) == PlaceOK(w) /\ OverOK(w) /\ CodeOK(w) /\ EventOK(w)

IInv == /\ TypeOK /\ JobsOK /\ PrimaryOK /\ JobKept
        /\ \A w \in Wrappers : WrapperOK(w)

-----------------------------------------------------------------------------
(* The exit codes.                                                         *)
LEMMA Codes == /\ 0 \in 0 .. MaxJobs /\ StillActive \in 0 .. MaxJobs + 1
               /\ Terminated \in 0 .. MaxJobs + 1
               /\ \A j \in 0 .. MaxJobs : j \in 0 .. MaxJobs + 1
               /\ \A j \in Jobs : j \in 0 .. MaxJobs /\ j # 0
  BY ThreadsAssumption DEF StillActive, Terminated, Jobs

(* The initial state.                                                      *)
LEMMA InitInv == Init => IInv
<1> SUFFICES ASSUME Init
             PROVE  IInv
  OBVIOUS
<1>1. Absent \in Info /\ Absent.pc = "none" /\ Absent.event = "none" /\ ~Absent.idling
      /\ ~Absent.comatose /\ Absent.job = 0
  <2> DEFINE s == CHOOSE s \in Stacks : TRUE
  <2>1. s \in Stacks
    BY ThreadsAssumption
  <2>3. Absent = [pc |-> "none", idling |-> FALSE, comatose |-> FALSE, exitcode |-> 0,
                  event |-> "none", suspends |-> 0, stack |-> s, job |-> 0]
    BY DEF Absent, StillActive
  <2> HIDE DEF s
  <2>2. 0 \in 0 .. MaxJobs + 1 /\ 0 \in 0 .. MaxJobs
    BY ThreadsAssumption
  <2> QED
    BY <2>1, <2>2, <2>3 DEF Info
<1>2. \A w \in Wrappers : twi[w] = Absent
  BY DEF Init
<1>3. TypeOK
  <2>1. 0 \in Nat /\ 0 \in 0 .. MaxJobs
    BY Codes
  <2>2. \A j \in Jobs : idOf[j] = NoThread
    BY DEF Init
  <2> QED
    BY <1>1, <2>1, <2>2 DEF Init, TypeOK, Steps
<1>4. JobsOK
  BY <1>1, <1>2, ThreadsAssumption DEF Init, JobsOK, Jobs
<1>5. PrimaryOK /\ JobKept
  BY DEF Init, PrimaryOK, JobKept
<1>6. \A w \in Wrappers : ~Fresh(w) /\ ~BeingReused(w)
  BY <1>1, <1>2 DEF Init, Fresh, BeingReused
<1>7. \A w \in Wrappers : ~Reused(w)
  BY ThreadsAssumption DEF Init, Reused
<1>8. \A w \in Wrappers : WrapperOK(w)
  BY <1>1, <1>2, <1>6, <1>7 DEF WrapperOK, PlaceOK, OverOK, CodeOK, EventOK
<1> QED
  BY <1>3, <1>4, <1>5, <1>8 DEF IInv

(* One thread's entry changes.                                             *)
LEMMA Changed ==
  ASSUME TypeOK, NEW w \in Wrappers, NEW new \in Info, twi' = [twi EXCEPT ![w] = new]
  PROVE  /\ twi' \in [Wrappers -> Info]
         /\ twi'[w] = new
         /\ \A x \in Wrappers : x # w => twi'[x] = twi[x]
  BY DEF TypeOK

(* The fields of an entry.                                                 *)
LEMMA InfoFields ==
  ASSUME TypeOK, NEW w \in Wrappers
  PROVE  /\ twi[w] \in Info /\ twi[w].idling \in BOOLEAN /\ twi[w].comatose \in BOOLEAN
         /\ twi[w].exitcode \in 0 .. MaxJobs + 1 /\ twi[w].event \in {"none", "reset", "set"}
         /\ twi[w].suspends \in Nat /\ twi[w].stack \in Stacks /\ twi[w].job \in 0 .. MaxJobs
  BY DEF TypeOK, Info

(* A step that touches one thread and its job leaves the other threads     *)
(* alone: it is enough to look at that entry.                              *)
LEMMA StepAt ==
  ASSUME IInv, NEW w \in Wrappers, NEW new \in Info, NEW n \in 0 .. 1,
         NEW e \in {"no", "returned", "exited", "terminated"},
         twi[w].pc # "none", new.pc # "none", new.job = twi[w].job,
         twi' = [twi EXCEPT ![w] = new],
         started' = [started EXCEPT ![new.job] = n], ended' = [ended EXCEPT ![new.job] = e],
         ended[new.job] # "no" => e # "no",
         UNCHANGED <<created, thread>>,
         \A x \in Wrappers : x # w =>
           /\ BeingReused(x)' <=> BeingReused(x)
           /\ (primary.at = "record" /\ primary.w = x)' <=> (primary.at = "record" /\ primary.w = x),
         TypeOK', PrimaryOK', WrapperOK(w)'
  PROVE  IInv'
<1> USE ThreadsAssumption
<1>1. /\ twi'[w] = new
      /\ \A x \in Wrappers : x # w => twi'[x] = twi[x]
      /\ \A x \in Wrappers : twi'[x].job = twi[x].job
  BY Changed DEF IInv
<1>2. new.job \in Jobs /\ thread[new.job] = w
  BY DEF IInv, JobsOK
<1>3. /\ \A j \in Jobs : j # new.job => started'[j] = started[j]
      /\ started'[new.job] = n
  BY <1>2 DEF IInv, TypeOK
<1>4. /\ \A j \in Jobs : j # new.job => ended'[j] = ended[j]
      /\ ended'[new.job] = e
  BY <1>2 DEF IInv, TypeOK
<1>5. \A x \in Wrappers : Reused(x)' <=> Reused(x)
  BY <1>1 DEF Reused
<1>6. JobsOK'
  BY <1>1, <1>2, <1>3, <1>4 DEF IInv, JobsOK, TypeOK, Jobs
<1>7. JobKept'
  BY <1>1, <1>2, <1>3, <1>4 DEF IInv, JobKept, TypeOK
<1>8. ASSUME NEW x \in Wrappers
       PROVE  WrapperOK(x)'
  <2>1. CASE x # w
    <3>1. twi'[x] = twi[x] /\ (Reused(x)' <=> Reused(x))
      BY <1>1, <1>5, <2>1
    <3>2. CASE twi[x].pc = "none"
      <4>1. ~Reused(x) /\ ~BeingReused(x) /\ ~twi[x].idling /\ ~twi[x].comatose /\ twi[x].event = "none"
        BY <3>2 DEF IInv, JobsOK, PrimaryOK, BeingReused, Reused
      <4> QED
        BY <2>1, <3>1, <3>2, <4>1 DEF WrapperOK, PlaceOK, OverOK, CodeOK, EventOK, Fresh
    <3>3. CASE twi[x].pc # "none"
      <4>1. twi[x].job \in Jobs /\ twi[x].job # new.job
        BY <1>2, <2>1, <3>3 DEF IInv, JobsOK
      <4>2. started'[twi[x].job] = started[twi[x].job] /\ ended'[twi[x].job] = ended[twi[x].job]
        BY <1>3, <1>4, <4>1
      <4> QED
        BY <2>1, <3>1, <4>2 DEF IInv, WrapperOK, PlaceOK, OverOK, CodeOK, EventOK, Fresh
    <3> QED
      BY <3>2, <3>3
  <2> QED
    BY <2>1
<1> QED
  BY <1>6, <1>7, <1>8 DEF IInv

(* A thread's own step.                                                    *)
LEMMA OwnStep ==
  ASSUME IInv, NEW w \in Wrappers, NEW new \in Info, NEW n \in 0 .. 1,
         NEW e \in {"no", "returned", "exited", "terminated"},
         twi[w].pc # "none", new.pc # "none", new.job = twi[w].job,
         twi' = [twi EXCEPT ![w] = new],
         started' = [started EXCEPT ![new.job] = n], ended' = [ended EXCEPT ![new.job] = e],
         OnlyTwi,
         ended[new.job] # "no" => e # "no",
         ended[new.job] = "terminated" => e = "terminated",
         BeingReused(w) => e = "no" /\ new.idling /\ ~new.comatose,
         WrapperOK(w)'
  PROVE  IInv'
<1> USE DEF OnlyTwi
<1>1. /\ twi' \in [Wrappers -> Info] /\ twi'[w] = new
      /\ \A x \in Wrappers : x # w => twi'[x] = twi[x]
      /\ \A x \in Wrappers : twi'[x].job = twi[x].job
  BY Changed DEF IInv
<1>2. new.job \in Jobs /\ thread[new.job] = w
  BY DEF IInv, JobsOK
<1>3. started' \in [Jobs -> Nat] /\ ended' \in [Jobs -> {"no", "returned", "exited", "terminated"}]
  BY <1>2 DEF IInv, TypeOK
<1>4. TypeOK'
  BY <1>1, <1>3 DEF IInv, TypeOK
<1>5. /\ \A j \in Jobs : j # new.job => ended'[j] = ended[j]
      /\ ended'[new.job] = e
  BY <1>2 DEF IInv, TypeOK
<1>6. \A x \in Wrappers : Reused(x)' <=> Reused(x)
  BY <1>1 DEF Reused
<1>7. PrimaryOK'
  BY <1>1, <1>2, <1>5, <1>6 DEF IInv, PrimaryOK, BeingReused
<1>8. \A x \in Wrappers :
        /\ BeingReused(x)' <=> BeingReused(x)
        /\ (primary.at = "record" /\ primary.w = x)' <=> (primary.at = "record" /\ primary.w = x)
  BY DEF BeingReused
<1> QED
  BY <1>4, <1>7, <1>8, StepAt

-----------------------------------------------------------------------------
(* The steps of a thread.                                                  *)

(* A thread runs with a job of its own.                                    *)
LEMMA RunsOK ==
  ASSUME IInv, NEW w \in Wrappers, twi[w].pc # "none"
  PROVE  /\ twi[w].job \in Jobs /\ thread[twi[w].job] = w
         /\ started[twi[w].job] \in 0 .. 1
         /\ ended[twi[w].job] \in {"no", "returned", "exited", "terminated"}
         /\ started = [started EXCEPT ![twi[w].job] = @]
         /\ ended = [ended EXCEPT ![twi[w].job] = @]
         /\ WrapperOK(w)
<1>1. twi[w].job \in Jobs /\ thread[twi[w].job] = w
  BY DEF IInv, JobsOK
<1>2. /\ started \in [Jobs -> Nat] /\ \A j \in Jobs : started[j] <= 1
      /\ ended \in [Jobs -> {"no", "returned", "exited", "terminated"}]
  BY DEF IInv, TypeOK, JobKept
<1>3. started[twi[w].job] \in 0 .. 1
  BY <1>1, <1>2
<1> QED
  BY <1>1, <1>2, <1>3 DEF IInv

(* When it neither calls nor ends a job.                                   *)
LEMMA QuietStep ==
  ASSUME IInv, NEW w \in Wrappers, NEW new \in Info,
         twi[w].pc # "none", new.pc # "none", new.job = twi[w].job,
         twi' = [twi EXCEPT ![w] = new], UNCHANGED <<started, ended>>, OnlyTwi,
         BeingReused(w) => new.idling /\ ~new.comatose,
         WrapperOK(w)'
  PROVE  IInv'
<1>1. BeingReused(w) => ended[new.job] = "no"
  BY DEF IInv, PrimaryOK, BeingReused
<1>2. PICK n \in 0 .. 1 : n = started[new.job]
  BY RunsOK
<1>3. PICK e \in {"no", "returned", "exited", "terminated"} : e = ended[new.job]
  BY RunsOK
<1>4. started' = [started EXCEPT ![new.job] = n] /\ ended' = [ended EXCEPT ![new.job] = e]
  BY <1>2, <1>3, RunsOK
<1> QED
  BY <1>1, <1>3, <1>4, OwnStep

(* It is about to call the function.                                       *)
LEMMA MarkActiveInv ==
  ASSUME IInv, NEW w \in Wrappers, MarkActive(w)
  PROVE  IInv'
<1> DEFINE new == Marked(twi[w])
<1>1. /\ twi[w].pc = "start" /\ OnlyTwi /\ UNCHANGED <<started, ended>>
      /\ twi' = [twi EXCEPT ![w] = new]
  BY DEF MarkActive, Runs
<1>2. /\ new \in Info /\ new.job = twi[w].job /\ new.pc = "check" /\ new.exitcode = StillActive
      /\ new.idling = twi[w].idling /\ new.comatose = twi[w].comatose /\ new.event = twi[w].event
  BY Codes, InfoFields DEF IInv, Info, Marked
<1>3. twi'[w] = new /\ (Reused(w)' <=> Reused(w)) /\ (BeingReused(w)' <=> BeingReused(w))
  BY <1>1, <1>2, Changed DEF IInv, Reused, BeingReused, OnlyTwi
<1> HIDE DEF new
<1>4. ~BeingReused(w)
  BY <1>1 DEF IInv, WrapperOK, PlaceOK, PrimaryOK, BeingReused
<1>5. WrapperOK(w)'
  BY <1>1, <1>2, <1>3, <1>4, RunsOK DEF WrapperOK, PlaceOK, OverOK, CodeOK, EventOK, Fresh, OnlyTwi
<1> QED
  BY <1>1, <1>2, <1>3, <1>4, <1>5, QuietStep

(* It idles.                                                               *)
LEMMA BecomeIdleInv ==
  ASSUME IInv, NEW w \in Wrappers, BecomeIdle(w)
  PROVE  IInv'
<1> DEFINE new == [twi[w] EXCEPT !.idling = TRUE, !.pc = "signal"]
<1>1. /\ twi[w].pc = "returned" /\ OnlyTwi /\ UNCHANGED <<started, ended>>
      /\ twi' = [twi EXCEPT ![w] = new]
  BY DEF BecomeIdle, Runs
<1>2. /\ new \in Info /\ new.job = twi[w].job /\ new.pc = "signal" /\ new.idling
      /\ new.exitcode = twi[w].exitcode /\ new.comatose = twi[w].comatose /\ new.event = twi[w].event
  BY Codes, InfoFields DEF IInv, Info
<1>3. twi'[w] = new /\ (Reused(w)' <=> Reused(w)) /\ (BeingReused(w)' <=> BeingReused(w))
  BY <1>1, <1>2, Changed DEF IInv, Reused, BeingReused, OnlyTwi
<1> HIDE DEF new
<1>4. ~BeingReused(w)
  BY <1>1 DEF IInv, WrapperOK, PlaceOK, PrimaryOK, BeingReused
<1>5. WrapperOK(w)'
  BY <1>1, <1>2, <1>3, <1>4, RunsOK DEF WrapperOK, PlaceOK, OverOK, CodeOK, EventOK, Fresh, OnlyTwi
<1> QED
  BY <1>1, <1>2, <1>3, <1>4, <1>5, QuietStep

(* It signals the exit.                                                    *)
LEMMA SignalExitInv ==
  ASSUME IInv, NEW w \in Wrappers, SignalExit(w)
  PROVE  IInv'
<1> DEFINE new == [SetEvent(twi[w]) EXCEPT !.pc = "idle"]
<1>1. /\ twi[w].pc = "signal" /\ OnlyTwi /\ UNCHANGED <<started, ended>>
      /\ twi' = [twi EXCEPT ![w] = new]
  BY DEF SignalExit, Runs
<1>2. /\ new \in Info /\ new.job = twi[w].job /\ new.pc = "idle"
      /\ new.event = (IF twi[w].event = "none" THEN "none" ELSE "set")
      /\ new.exitcode = twi[w].exitcode /\ new.comatose = twi[w].comatose /\ new.idling = twi[w].idling
  BY Codes, InfoFields DEF IInv, Info, SetEvent
<1>3. twi'[w] = new /\ (Reused(w)' <=> Reused(w)) /\ (BeingReused(w)' <=> BeingReused(w))
  BY <1>1, <1>2, Changed DEF IInv, Reused, BeingReused, OnlyTwi
<1> HIDE DEF new
<1>4. /\ BeingReused(w) => new.idling /\ ~new.comatose /\ Reused(w)
      /\ Reused(w) => ~(primary.at = "record" /\ primary.w = w)
  <2>1. PrimaryOK
    BY DEF IInv
  <2> QED
    BY <1>2, <2>1 DEF PrimaryOK, BeingReused
<1>5. WrapperOK(w)'
  BY <1>1, <1>2, <1>3, <1>4, RunsOK DEF WrapperOK, PlaceOK, OverOK, CodeOK, EventOK, Fresh, OnlyTwi
<1> QED
  BY <1>1, <1>2, <1>3, <1>4, <1>5, QuietStep

(* It is let go.                                                           *)
LEMMA ReawakenInv ==
  ASSUME IInv, NEW w \in Wrappers, Reawaken(w)
  PROVE  IInv'
<1> DEFINE new == [twi[w] EXCEPT !.pc = "start"]
<1>1. /\ twi[w].pc = "idle" /\ ~twi[w].idling /\ OnlyTwi /\ UNCHANGED <<started, ended>>
      /\ twi' = [twi EXCEPT ![w] = new]
  BY DEF Reawaken, Runs
<1>2. /\ new \in Info /\ new.job = twi[w].job /\ new.pc = "start"
      /\ new.exitcode = twi[w].exitcode /\ new.comatose = twi[w].comatose /\ new.idling = twi[w].idling /\ new.event = twi[w].event
  BY Codes, InfoFields DEF IInv, Info
<1>3. twi'[w] = new /\ (Reused(w)' <=> Reused(w)) /\ (BeingReused(w)' <=> BeingReused(w))
  BY <1>1, <1>2, Changed DEF IInv, Reused, BeingReused, OnlyTwi
<1> HIDE DEF new
<1>4. ~BeingReused(w)
  BY <1>1 DEF IInv, PrimaryOK, BeingReused
<1>5. WrapperOK(w)'
  BY <1>1, <1>2, <1>3, <1>4, RunsOK DEF WrapperOK, PlaceOK, OverOK, CodeOK, EventOK, Fresh, OnlyTwi
<1> QED
  BY <1>1, <1>2, <1>3, <1>4, <1>5, QuietStep

(* It is suspended for good.                                               *)
LEMMA SuspendForeverInv ==
  ASSUME IInv, NEW w \in Wrappers, SuspendForever(w)
  PROVE  IInv'
<1> DEFINE new == [SetEvent(twi[w]) EXCEPT !.idling = TRUE, !.pc = "exited"]
<1>1. /\ twi[w].pc = "exiting" /\ OnlyTwi /\ UNCHANGED <<started, ended>>
      /\ twi' = [twi EXCEPT ![w] = new]
  BY DEF SuspendForever, Runs
<1>2. /\ new \in Info /\ new.job = twi[w].job /\ new.pc = "exited" /\ new.idling
      /\ new.event = (IF twi[w].event = "none" THEN "none" ELSE "set")
      /\ new.exitcode = twi[w].exitcode /\ new.comatose = twi[w].comatose
  BY Codes, InfoFields DEF IInv, Info, SetEvent
<1>3. twi'[w] = new /\ (Reused(w)' <=> Reused(w)) /\ (BeingReused(w)' <=> BeingReused(w))
  BY <1>1, <1>2, Changed DEF IInv, Reused, BeingReused, OnlyTwi
<1> HIDE DEF new
<1>4. ~BeingReused(w)
  BY <1>1 DEF IInv, WrapperOK, PlaceOK, PrimaryOK, BeingReused
<1>5. WrapperOK(w)'
  BY <1>1, <1>2, <1>3, <1>4, RunsOK DEF WrapperOK, PlaceOK, OverOK, CodeOK, EventOK, Fresh, OnlyTwi
<1> QED
  BY <1>1, <1>2, <1>3, <1>4, <1>5, QuietStep

(* Its function returns.                                                   *)
LEMMA FunctionReturnsInv ==
  ASSUME IInv, NEW w \in Wrappers, FunctionReturns(w)
  PROVE  IInv'
<1> DEFINE new == [twi[w] EXCEPT !.exitcode = twi[w].job, !.pc = "returned"]
<1>1. /\ twi[w].pc = "running" /\ OnlyTwi /\ UNCHANGED started /\ EndedAs(twi[w].job, "returned")
      /\ twi' = [twi EXCEPT ![w] = new]
  BY DEF FunctionReturns, Runs
<1>2. /\ new \in Info /\ new.job = twi[w].job /\ new.pc = "returned" /\ new.exitcode = new.job
      /\ new.event = twi[w].event /\ new.comatose = twi[w].comatose /\ new.idling = twi[w].idling
  BY Codes, InfoFields DEF IInv, Info
<1>3. twi'[w] = new /\ (Reused(w)' <=> Reused(w)) /\ (BeingReused(w)' <=> BeingReused(w))
  BY <1>1, <1>2, Changed DEF IInv, Reused, BeingReused, OnlyTwi
<1> HIDE DEF new
<1>4. ~BeingReused(w)
  BY <1>1 DEF IInv, WrapperOK, PlaceOK, PrimaryOK, BeingReused
<1>5. PICK n \in 0 .. 1 : n = started[new.job] /\ started' = [started EXCEPT ![new.job] = n]
  BY <1>1, <1>2, RunsOK
<1>6. PICK e \in {"no", "returned", "exited", "terminated"} :
        /\ e = (IF ended[new.job] = "no" THEN "returned" ELSE ended[new.job])
        /\ ended' = [ended EXCEPT ![new.job] = e]
  BY <1>1, <1>2, RunsOK DEF EndedAs
<1>7. ended'[new.job] = e
  BY <1>1, <1>2, <1>6, RunsOK DEF IInv, TypeOK
<1>8. WrapperOK(w)'
  BY <1>1, <1>2, <1>3, <1>4, <1>6, <1>7, RunsOK
  DEF WrapperOK, PlaceOK, OverOK, CodeOK, EventOK, Fresh, OnlyTwi
<1> QED
  BY <1>1, <1>2, <1>4, <1>5, <1>6, <1>8, OwnStep

(* It calls ExitThread.                                                    *)
LEMMA CallExitThreadInv ==
  ASSUME IInv, NEW w \in Wrappers, CallExitThread(w)
  PROVE  IInv'
<1>1. /\ twi[w].pc = "running" /\ OnlyTwi /\ UNCHANGED started /\ EndedAs(twi[w].job, "exited")
  BY DEF CallExitThread, Runs
<1>2. PICK new : /\ twi' = [twi EXCEPT ![w] = new]
                 /\ \/ new = [twi[w] EXCEPT !.exitcode = twi[w].job, !.comatose = TRUE,
                                            !.pc = "exiting"]
                    \/ new = [twi[w] EXCEPT !.pc = "dead"]
  BY DEF CallExitThread
<1>3. /\ new \in Info /\ new.job = twi[w].job /\ new.event = twi[w].event
      /\ new.idling = twi[w].idling
      /\ \/ new.pc = "exiting" /\ new.comatose /\ new.exitcode = new.job
         \/ new.pc = "dead" /\ new.comatose = twi[w].comatose
  <2>1. CASE new = [twi[w] EXCEPT !.exitcode = twi[w].job, !.comatose = TRUE, !.pc = "exiting"]
    BY <2>1, Codes, InfoFields DEF IInv, Info
  <2>2. CASE new = [twi[w] EXCEPT !.pc = "dead"]
    BY <2>2, InfoFields DEF IInv, Info
  <2> QED
    BY <1>2, <2>1, <2>2
<1>4. twi'[w] = new /\ (Reused(w)' <=> Reused(w)) /\ (BeingReused(w)' <=> BeingReused(w))
  BY <1>1, <1>2, <1>3, Changed DEF IInv, Reused, BeingReused, OnlyTwi
<1>5. ~BeingReused(w)
  BY <1>1 DEF IInv, WrapperOK, PlaceOK, PrimaryOK, BeingReused
<1>6. PICK n \in 0 .. 1 : n = started[new.job] /\ started' = [started EXCEPT ![new.job] = n]
  BY <1>1, <1>3, RunsOK
<1>7. PICK e \in {"no", "returned", "exited", "terminated"} :
        /\ e = (IF ended[new.job] = "no" THEN "exited" ELSE ended[new.job])
        /\ ended' = [ended EXCEPT ![new.job] = e]
  BY <1>1, <1>3, RunsOK DEF EndedAs
<1>8. ended'[new.job] = e
  BY <1>1, <1>3, <1>7, RunsOK DEF IInv, TypeOK
<1>9. WrapperOK(w)'
  BY <1>1, <1>3, <1>4, <1>5, <1>7, <1>8, RunsOK
  DEF WrapperOK, PlaceOK, OverOK, CodeOK, EventOK, Fresh, OnlyTwi
<1> QED
  BY <1>1, <1>2, <1>3, <1>5, <1>6, <1>7, <1>9, OwnStep

(* It calls its function, or finds that it has been terminated.            *)
LEMMA CallStartAddressInv ==
  ASSUME IInv, NEW w \in Wrappers, CallStartAddress(w)
  PROVE  IInv'
<1>1. twi[w].pc = "check" /\ OnlyTwi /\ UNCHANGED ended
  BY DEF CallStartAddress, Runs
<1>2. ~BeingReused(w) /\ Fresh(w) /\ started[twi[w].job] = 0
  BY <1>1 DEF IInv, WrapperOK, PlaceOK, PrimaryOK, BeingReused, Fresh
<1>3. CASE twi[w].exitcode = StillActive
  <2> DEFINE new == [twi[w] EXCEPT !.pc = "running"]
  <2>1. twi' = [twi EXCEPT ![w] = new] /\ started' = [started EXCEPT ![twi[w].job] = @ + 1]
    <3>1. \/ twi' = [twi EXCEPT ![w] = new] /\ started' = [started EXCEPT ![twi[w].job] = @ + 1]
          \/ twi[w].exitcode # StillActive
      BY DEF CallStartAddress
    <3> QED
      BY <1>3, <3>1
  <2>2. /\ new \in Info /\ new.job = twi[w].job /\ new.pc = "running"
        /\ new.event = twi[w].event /\ new.comatose = twi[w].comatose /\ new.idling = twi[w].idling
    BY InfoFields DEF IInv, Info
  <2>3. twi'[w] = new /\ (Reused(w)' <=> Reused(w)) /\ (BeingReused(w)' <=> BeingReused(w))
    BY <1>1, <2>1, <2>2, Changed DEF IInv, Reused, BeingReused, OnlyTwi
  <2> HIDE DEF new
  <2>4. PICK n \in 0 .. 1 : n = 1 /\ started' = [started EXCEPT ![new.job] = n]
    BY <1>2, <2>1, <2>2
  <2>5. PICK e \in {"no", "returned", "exited", "terminated"} :
          e = ended[new.job] /\ ended' = [ended EXCEPT ![new.job] = e]
    BY <1>1, <2>2, RunsOK
  <2>6. WrapperOK(w)'
    BY <1>1, <1>2, <2>2, <2>3, RunsOK
    DEF WrapperOK, PlaceOK, OverOK, CodeOK, EventOK, Fresh, OnlyTwi
  <2> QED
    BY <1>1, <1>2, <2>1, <2>2, <2>4, <2>5, <2>6, OwnStep
<1>4. CASE twi[w].exitcode # StillActive
  <2> DEFINE new == [twi[w] EXCEPT !.pc = "returned"]
  <2>1. twi' = [twi EXCEPT ![w] = new] /\ UNCHANGED started
    <3>1. \/ twi' = [twi EXCEPT ![w] = new] /\ UNCHANGED started
          \/ twi[w].exitcode = StillActive
      BY DEF CallStartAddress
    <3> QED
      BY <1>4, <3>1
  <2>2. /\ new \in Info /\ new.job = twi[w].job /\ new.pc = "returned"
        /\ new.event = twi[w].event /\ new.comatose = twi[w].comatose /\ new.idling = twi[w].idling
    BY InfoFields DEF IInv, Info
  <2>3. twi'[w] = new /\ (Reused(w)' <=> Reused(w)) /\ (BeingReused(w)' <=> BeingReused(w))
    BY <1>1, <2>1, <2>2, Changed DEF IInv, Reused, BeingReused, OnlyTwi
  <2> HIDE DEF new
  <2>4. ended[twi[w].job] = "terminated"
    BY <1>1, <1>4 DEF IInv, WrapperOK, CodeOK
  <2>5. WrapperOK(w)'
    BY <1>1, <1>2, <2>1, <2>2, <2>3, <2>4, RunsOK
    DEF WrapperOK, PlaceOK, OverOK, CodeOK, EventOK, Fresh, OnlyTwi
  <2> QED
    BY <1>1, <1>2, <2>1, <2>2, <2>5, QuietStep
<1> QED
  BY <1>3, <1>4

-----------------------------------------------------------------------------
(* The steps of the primary thread.                                        *)

(* A thread the table knows, or the primary thread is at.                  *)
LEMMA KnownOK ==
  ASSUME IInv, NEW w \in Wrappers, NEW j \in Jobs, thread[j] = w
  PROVE  twi[w].pc # "none"
  BY DEF IInv, JobsOK

(* The primary thread touches the thread it is at, or one whose handle the *)
(* game has.                                                               *)
LEMMA PrimaryStep ==
  ASSUME IInv, NEW w \in Wrappers, NEW new \in Info, NEW at \in Steps, NEW j \in 0 .. MaxJobs,
         NEW v \in Wrappers \cup {NoThread}, NEW e \in {"no", "returned", "exited", "terminated"},
         twi[w].pc # "none", new.pc # "none", new.job = twi[w].job,
         twi' = [twi EXCEPT ![w] = new], primary' = [at |-> at, job |-> j, w |-> v],
         ended' = [ended EXCEPT ![new.job] = e], ended[new.job] # "no" => e # "no",
         primary.at = "game" \/ primary.w = w,
         at = "game" \/ v = w,
         UNCHANGED <<nullEntry, created, crashed, thread, started>>,
         idOf' = idOf \/ idOf' = [idOf EXCEPT ![new.job] = w],
         PrimaryOK', WrapperOK(w)'
  PROVE  IInv'
<1>1. /\ twi' \in [Wrappers -> Info] /\ twi'[w] = new
      /\ \A x \in Wrappers : twi'[x].job = twi[x].job
  BY Changed DEF IInv
<1>2. new.job \in Jobs /\ thread[new.job] = w
  BY DEF IInv, JobsOK
<1>3. ended' \in [Jobs -> {"no", "returned", "exited", "terminated"}]
  BY <1>2 DEF IInv, TypeOK
<1>4. /\ idOf' \in [Jobs -> Wrappers \cup {NoThread}]
      /\ \A k \in Jobs : idOf'[k] # NoThread => idOf'[k] = thread[k] /\ twi'[idOf'[k]].job = k
  BY <1>1, <1>2 DEF IInv, TypeOK
<1>5. TypeOK'
  BY <1>1, <1>3, <1>4 DEF IInv, TypeOK
<1>6. PICK n \in 0 .. 1 : started' = [started EXCEPT ![new.job] = n]
  BY RunsOK
<1>7. \A x \in Wrappers : x # w =>
        /\ BeingReused(x)' <=> BeingReused(x)
        /\ (primary.at = "record" /\ primary.w = x)' <=> (primary.at = "record" /\ primary.w = x)
  BY ThreadsAssumption DEF BeingReused
<1> QED
  BY <1>5, <1>6, <1>7, StepAt

(* The exit event is reset.                                                *)
LEMMA ResetExitEventInv ==
  ASSUME IInv, ResetExitEvent
  PROVE  IInv'
<1>1. PICK w \in Wrappers : /\ w = primary.w /\ primary.at = "reset"
                            /\ primary.job \in Jobs /\ thread[primary.job] = w
                            /\ twi[w].pc # "none" /\ twi[w].job = primary.job
                            /\ ended[primary.job] = "no"
                            /\ twi[w].idling /\ ~twi[w].comatose /\ Reused(w)
  BY KnownOK DEF IInv, PrimaryOK, ResetExitEvent, At
<1> DEFINE new == [twi[w] EXCEPT !.event = "reset"]
<1>2. /\ twi' = [twi EXCEPT ![w] = new]
      /\ primary' = [at |-> "letGo", job |-> primary.job, w |-> w]
      /\ UNCHANGED <<idOf, nullEntry, created, crashed, thread, started, ended>>
  BY <1>1 DEF ResetExitEvent, Primary
<1>3. /\ new \in Info /\ new.job = twi[w].job /\ new.event = "reset" /\ new.pc = twi[w].pc
      /\ new.comatose = twi[w].comatose /\ new.idling = twi[w].idling
      /\ new.exitcode = twi[w].exitcode
  BY InfoFields DEF IInv, Info
<1>4. twi'[w] = new /\ (Reused(w)' <=> Reused(w)) /\ BeingReused(w) /\ BeingReused(w)'
  BY <1>1, <1>2, <1>3, Changed DEF IInv, Reused, BeingReused
<1> HIDE DEF new
<1>5. PrimaryOK'
  BY <1>1, <1>2, <1>3, <1>4 DEF PrimaryOK
<1>6. WrapperOK(w)'
  BY <1>1, <1>2, <1>3, <1>4 DEF IInv, WrapperOK, PlaceOK, OverOK, CodeOK, EventOK, Fresh
<1>7. PICK e \in {"no", "returned", "exited", "terminated"} :
        e = ended[new.job] /\ ended' = [ended EXCEPT ![new.job] = e]
  BY <1>1, <1>2, <1>3, RunsOK
<1>8. "letGo" \in Steps /\ primary.job \in 0 .. MaxJobs
  BY <1>1, Codes DEF Steps
<1> QED
  BY <1>1, <1>2, <1>3, <1>5, <1>6, <1>7, <1>8, PrimaryStep

(* The thread is let go with its new job.                                  *)
LEMMA LetGoInv ==
  ASSUME IInv, LetGo
  PROVE  IInv'
<1>1. PICK w \in Wrappers : /\ w = primary.w /\ primary.at = "letGo"
                            /\ primary.job \in Jobs /\ thread[primary.job] = w
                            /\ twi[w].pc # "none" /\ twi[w].job = primary.job
                            /\ ended[primary.job] = "no"
                            /\ twi[w].idling /\ ~twi[w].comatose /\ Reused(w)
  BY KnownOK DEF IInv, PrimaryOK, LetGo, At
<1> DEFINE new == [twi[w] EXCEPT !.idling = FALSE]
<1>2. /\ twi' = [twi EXCEPT ![w] = new]
      /\ primary' = [at |-> "game", job |-> 0, w |-> NoThread]
      /\ UNCHANGED <<idOf, nullEntry, created, crashed, thread, started, ended>>
  BY <1>1 DEF LetGo, Primary, BackToGame
<1>3. /\ new \in Info /\ new.job = twi[w].job /\ ~new.idling /\ new.pc = twi[w].pc
      /\ new.comatose = twi[w].comatose /\ new.event = twi[w].event
      /\ new.exitcode = twi[w].exitcode
  BY InfoFields DEF IInv, Info
<1>4. twi'[w] = new /\ (Reused(w)' <=> Reused(w)) /\ BeingReused(w) /\ ~BeingReused(w)'
  BY <1>1, <1>2, <1>3, Changed DEF IInv, Reused, BeingReused
<1> HIDE DEF new
<1>5. PrimaryOK'
  BY <1>2 DEF PrimaryOK
<1>6. WrapperOK(w)'
  BY <1>1, <1>2, <1>3, <1>4 DEF IInv, WrapperOK, PlaceOK, OverOK, CodeOK, EventOK, Fresh
<1>7. PICK e \in {"no", "returned", "exited", "terminated"} :
        e = ended[new.job] /\ ended' = [ended EXCEPT ![new.job] = e]
  BY <1>1, <1>2, <1>3, RunsOK
<1>8. "game" \in Steps /\ 0 \in 0 .. MaxJobs
  BY Codes DEF Steps
<1> QED
  BY <1>1, <1>2, <1>3, <1>5, <1>6, <1>7, <1>8, PrimaryStep

(* The new thread is recorded.                                             *)
LEMMA RecordThreadInv ==
  ASSUME IInv, RecordThread
  PROVE  IInv'
<1>1. PICK w \in Wrappers : /\ w = primary.w /\ primary.at = "record"
                            /\ primary.job \in Jobs /\ thread[primary.job] = w
                            /\ twi[w].pc # "none" /\ twi[w].job = primary.job /\ ~Reused(w)
  BY KnownOK DEF IInv, PrimaryOK, RecordThread, At
<1> DEFINE new == [twi[w] EXCEPT !.event = "reset"]
<1>2. /\ twi' = [twi EXCEPT ![w] = new]
      /\ primary' = [at |-> "game", job |-> 0, w |-> NoThread]
      /\ idOf' = [idOf EXCEPT ![primary.job] = w]
      /\ UNCHANGED <<nullEntry, created, crashed, thread, started, ended>>
  BY <1>1 DEF RecordThread, Primary, BackToGame
<1>3. /\ new \in Info /\ new.job = twi[w].job /\ new.event = "reset" /\ new.pc = twi[w].pc
      /\ new.comatose = twi[w].comatose /\ new.idling = twi[w].idling
      /\ new.exitcode = twi[w].exitcode
  BY InfoFields DEF IInv, Info
<1>4. twi'[w] = new /\ (Reused(w)' <=> Reused(w)) /\ ~BeingReused(w) /\ ~BeingReused(w)'
  BY <1>1, <1>2, <1>3, Changed DEF IInv, Reused, BeingReused
<1> HIDE DEF new
<1>5. PrimaryOK'
  BY <1>2 DEF PrimaryOK
<1>6. WrapperOK(w)'
  BY <1>1, <1>2, <1>3, <1>4 DEF IInv, WrapperOK, PlaceOK, OverOK, CodeOK, EventOK, Fresh
<1>7. PICK e \in {"no", "returned", "exited", "terminated"} :
        e = ended[new.job] /\ ended' = [ended EXCEPT ![new.job] = e]
  BY <1>1, <1>2, <1>3, RunsOK
<1>8. "game" \in Steps /\ 0 \in 0 .. MaxJobs
  BY Codes DEF Steps
<1> QED
  BY <1>1, <1>2, <1>3, <1>5, <1>6, <1>7, <1>8, PrimaryStep

(* TerminateThread signals the exit of the thread.                         *)
LEMMA TerminateThreadInv ==
  ASSUME IInv, NEW j \in Jobs, TerminateThread(j)
  PROVE  IInv'
<1>1. PICK w \in Wrappers : /\ w = idOf[j] /\ primary.at = "game"
                            /\ thread[j] = w /\ twi[w].pc # "none" /\ twi[w].job = j
                            /\ ~twi[w].idling /\ ~twi[w].comatose
  BY KnownOK DEF IInv, TypeOK, TerminateThread, InGame
<1> DEFINE new == SetEvent(twi[w])
<1>2. /\ twi' = [twi EXCEPT ![w] = new]
      /\ primary' = [at |-> "terminate", job |-> j, w |-> w]
      /\ ended' = [ended EXCEPT ![j] = "terminated"]
      /\ UNCHANGED <<idOf, nullEntry, created, crashed, thread, started>>
  BY <1>1 DEF TerminateThread, Primary
<1>3. /\ new \in Info /\ new.job = twi[w].job /\ new.pc = twi[w].pc
      /\ new.comatose = twi[w].comatose /\ new.idling = twi[w].idling
      /\ new.exitcode = twi[w].exitcode
      /\ new.event = (IF twi[w].event = "none" THEN "none" ELSE "set")
  BY InfoFields DEF IInv, Info, SetEvent
<1>4. twi'[w] = new /\ (Reused(w)' <=> Reused(w)) /\ ~BeingReused(w) /\ ~BeingReused(w)'
  BY <1>1, <1>2, <1>3, Changed DEF IInv, Reused, BeingReused
<1> HIDE DEF new
<1>5. ended'[j] = "terminated"
  BY <1>2 DEF IInv, TypeOK
<1>6. PrimaryOK'
  BY <1>1, <1>2, <1>3, <1>4, <1>5 DEF PrimaryOK
<1>7. WrapperOK(w)'
  BY <1>1, <1>2, <1>3, <1>4, <1>5 DEF IInv, WrapperOK, PlaceOK, OverOK, CodeOK, EventOK, Fresh
<1>8. "terminate" \in Steps /\ j \in 0 .. MaxJobs
  BY Codes DEF Steps
<1> QED
  BY <1>1, <1>2, <1>3, <1>6, <1>7, <1>8, PrimaryStep

(* It is marked as comatose.                                               *)
LEMMA MarkTerminatedInv ==
  ASSUME IInv, MarkTerminated
  PROVE  IInv'
<1>1. PICK w \in Wrappers : /\ w = primary.w /\ primary.at = "terminate"
                            /\ primary.job \in Jobs /\ thread[primary.job] = w
                            /\ twi[w].pc # "none" /\ twi[w].job = primary.job
                            /\ ended[primary.job] = "terminated"
  BY KnownOK DEF IInv, PrimaryOK, MarkTerminated, At
<1> DEFINE new == [twi[w] EXCEPT !.exitcode = Terminated, !.comatose = TRUE]
<1>2. /\ twi' = [twi EXCEPT ![w] = new]
      /\ primary' = [at |-> "suspend", job |-> primary.job, w |-> w]
      /\ UNCHANGED <<idOf, nullEntry, created, crashed, thread, started, ended>>
  BY <1>1 DEF MarkTerminated, Primary
<1>3. /\ new \in Info /\ new.job = twi[w].job /\ new.event = twi[w].event /\ new.pc = twi[w].pc
      /\ new.comatose /\ new.idling = twi[w].idling
  BY InfoFields, Codes DEF IInv, Info
<1>4. twi'[w] = new /\ (Reused(w)' <=> Reused(w)) /\ ~BeingReused(w) /\ ~BeingReused(w)'
  BY <1>1, <1>2, <1>3, Changed DEF IInv, Reused, BeingReused
<1> HIDE DEF new
<1>5. PrimaryOK'
  BY <1>1, <1>2, <1>3, <1>4 DEF PrimaryOK
<1>6. WrapperOK(w)'
  BY <1>1, <1>2, <1>3, <1>4 DEF IInv, WrapperOK, PlaceOK, OverOK, CodeOK, EventOK, Fresh
<1>7. PICK e \in {"no", "returned", "exited", "terminated"} :
        e = ended[new.job] /\ ended' = [ended EXCEPT ![new.job] = e]
  BY <1>1, <1>2, <1>3, RunsOK
<1>8. "suspend" \in Steps /\ primary.job \in 0 .. MaxJobs
  BY <1>1, Codes DEF Steps
<1> QED
  BY <1>1, <1>2, <1>3, <1>5, <1>6, <1>7, <1>8, PrimaryStep

(* And is suspended.                                                       *)
LEMMA SuspendTerminatedInv ==
  ASSUME IInv, SuspendTerminated
  PROVE  IInv'
<1>1. PICK w \in Wrappers : /\ w = primary.w /\ primary.at = "suspend"
                            /\ primary.job \in Jobs /\ thread[primary.job] = w
                            /\ twi[w].pc # "none" /\ twi[w].job = primary.job
  BY KnownOK DEF IInv, PrimaryOK, SuspendTerminated, At
<1> DEFINE new == [twi[w] EXCEPT !.suspends = twi[w].suspends + 10]
<1>2. /\ twi' = [twi EXCEPT ![w] = new]
      /\ primary' = [at |-> "game", job |-> 0, w |-> NoThread]
      /\ UNCHANGED <<idOf, nullEntry, created, crashed, thread, started, ended>>
  BY <1>1 DEF SuspendTerminated, Primary, BackToGame
<1>3. twi[w].suspends + 10 \in Nat
  BY InfoFields DEF IInv
<1>4. /\ new \in Info /\ new.job = twi[w].job /\ new.event = twi[w].event /\ new.pc = twi[w].pc
      /\ new.comatose = twi[w].comatose /\ new.idling = twi[w].idling
      /\ new.exitcode = twi[w].exitcode
  BY <1>3, InfoFields DEF IInv, Info
<1>5. twi'[w] = new /\ (Reused(w)' <=> Reused(w)) /\ ~BeingReused(w) /\ ~BeingReused(w)'
  BY <1>1, <1>2, <1>4, Changed DEF IInv, Reused, BeingReused
<1> HIDE DEF new
<1>6. PrimaryOK'
  BY <1>2 DEF PrimaryOK
<1>7. WrapperOK(w)'
  BY <1>1, <1>2, <1>4, <1>5 DEF IInv, WrapperOK, PlaceOK, OverOK, CodeOK, EventOK, Fresh
<1>8. PICK e \in {"no", "returned", "exited", "terminated"} :
        e = ended[new.job] /\ ended' = [ended EXCEPT ![new.job] = e]
  BY <1>1, <1>2, <1>4, RunsOK
<1>9. "game" \in Steps /\ 0 \in 0 .. MaxJobs
  BY Codes DEF Steps
<1> QED
  BY <1>1, <1>2, <1>4, <1>6, <1>7, <1>8, <1>9, PrimaryStep

(* A suspended thread is resumed.                                          *)
LEMMA ResumeThreadInv ==
  ASSUME IInv, NEW j \in Jobs, ResumeThread(j)
  PROVE  IInv'
<1>1. PICK w \in Wrappers : /\ w = idOf[j] /\ primary.at = "game"
                            /\ thread[j] = w /\ twi[w].pc # "none" /\ twi[w].job = j
  BY KnownOK DEF IInv, TypeOK, ResumeThread, InGame
<1> DEFINE new == [twi[w] EXCEPT !.suspends = 0]
<1>2. /\ twi' = [twi EXCEPT ![w] = new]
      /\ UNCHANGED <<idOf, nullEntry, primary, created, crashed, thread, started, ended>>
  BY <1>1 DEF ResumeThread
<1>3. /\ new \in Info /\ new.job = twi[w].job /\ new.event = twi[w].event /\ new.pc = twi[w].pc
      /\ new.comatose = twi[w].comatose /\ new.idling = twi[w].idling
      /\ new.exitcode = twi[w].exitcode
  BY InfoFields DEF IInv, Info
<1>4. twi'[w] = new /\ (Reused(w)' <=> Reused(w)) /\ ~BeingReused(w) /\ ~BeingReused(w)'
  BY <1>1, <1>2, <1>3, Changed DEF IInv, Reused, BeingReused
<1> HIDE DEF new
<1>5. WrapperOK(w)'
  BY <1>1, <1>2, <1>3, <1>4 DEF IInv, WrapperOK, PlaceOK, OverOK, CodeOK, EventOK, Fresh
<1> QED
  BY <1>1, <1>2, <1>3, <1>4, <1>5, QuietStep DEF OnlyTwi

(* The primary thread waits, and asks for exit codes.                      *)
LEMMA IdleStep ==
  ASSUME IInv, TypeOK', UNCHANGED <<twi, idOf, created, thread, started, ended>>,
         primary.at \in {"game", "waitEvent", "waitThread"},
         primary'.at \in {"game", "waitEvent", "waitThread"}
  PROVE  IInv'
<1>1. PrimaryOK'
  BY DEF PrimaryOK
<1>2. JobsOK' /\ JobKept'
  BY DEF IInv, JobsOK, JobKept
<1>3. \A w \in Wrappers : (Reused(w)' <=> Reused(w)) /\ ~BeingReused(w) /\ ~BeingReused(w)'
  BY DEF Reused, BeingReused
<1>4. \A w \in Wrappers : WrapperOK(w)'
  BY <1>3 DEF IInv, WrapperOK, PlaceOK, OverOK, CodeOK, EventOK, Fresh
<1> QED
  BY <1>1, <1>2, <1>4 DEF IInv

LEMMA WaitInv ==
  ASSUME IInv,
         WaitReturns \/ \E j \in Jobs : WaitForSingleObject(j) \/ GetExitCodeThread(j)
  PROVE  IInv'
<1>1. CASE WaitReturns
  <2>1. primary' = [at |-> "game", job |-> 0, w |-> NoThread] /\ "game" \in Steps
    BY <1>1 DEF WaitReturns, BackToGame, Primary, Steps
  <2>2. TypeOK'
    BY <1>1, <2>1, Codes DEF IInv, TypeOK, WaitReturns
  <2> QED
    BY <1>1, <2>1, <2>2, IdleStep DEF WaitReturns, Waiting
<1>2. ASSUME NEW j \in Jobs, WaitForSingleObject(j)
      PROVE  IInv'
  <2>1. /\ "waitEvent" \in Steps /\ "waitThread" \in Steps /\ j \in 0 .. MaxJobs
        /\ idOf[j] \in Wrappers \cup {NoThread} /\ thread[j] \in Wrappers \cup {NoThread}
    BY Codes DEF Steps, IInv, TypeOK
  <2>2. /\ primary.at = "game" /\ crashed' \in BOOLEAN
        /\ UNCHANGED <<twi, idOf, nullEntry, created, thread, started, ended>>
        /\ \/ primary' = [at |-> "waitEvent", job |-> j, w |-> idOf[j]]
           \/ primary' = [at |-> "waitThread", job |-> j, w |-> thread[j]]
           \/ primary' = primary
    BY <1>2 DEF WaitForSingleObject, Primary, InGame, IInv, TypeOK
  <2>3. TypeOK'
    BY <2>1, <2>2 DEF IInv, TypeOK
  <2> QED
    BY <2>2, <2>3, IdleStep
<1>3. ASSUME NEW j \in Jobs, GetExitCodeThread(j)
      PROVE  IInv'
  <2>1. TypeOK'
    BY <1>3 DEF IInv, TypeOK, GetExitCodeThread
  <2> QED
    BY <1>3, <2>1, IdleStep DEF GetExitCodeThread, InGame
<1> QED
  BY <1>1, <1>2, <1>3

(* A new job.                                                              *)
LEMMA NewJob ==
  ASSUME IInv, created < MaxJobs
  PROVE  /\ created + 1 \in Jobs /\ created + 1 \in 0 .. MaxJobs /\ created \in Nat
         /\ thread[created + 1] = NoThread
         /\ started[created + 1] = 0 /\ ended[created + 1] = "no"
  BY ThreadsAssumption DEF IInv, JobsOK, TypeOK, Jobs

(* A thread gets the new job, an idle one or a new one.                    *)
LEMMA GivenJob ==
  ASSUME IInv, created < MaxJobs, primary.at = "game",
         NEW w \in Wrappers, NEW new \in Info, NEW at \in {"reset", "record"},
         new.job = created + 1, new.pc # "none",
         twi' = [twi EXCEPT ![w] = new], thread' = [thread EXCEPT ![created + 1] = w],
         primary' = [at |-> at, job |-> created + 1, w |-> w], created' = created + 1,
         UNCHANGED <<nullEntry, crashed, started, ended>>,
         idOf' \in [Jobs -> Wrappers \cup {NoThread}],
         \A j \in Jobs : idOf'[j] # NoThread =>
           \/ j = created + 1 /\ idOf'[j] = w
           \/ j # created + 1 /\ idOf'[j] = idOf[j] /\ idOf[j] # w,
         \A j \in Jobs : thread[j] = w => ended[j] # "no" \/ twi[w].job # j,
         PrimaryOK', WrapperOK(w)'
  PROVE  IInv'
<1> DEFINE c == created + 1
<1>1. /\ c \in Jobs /\ c \in 0 .. MaxJobs /\ created \in Nat /\ thread[c] = NoThread
      /\ started[c] = 0 /\ ended[c] = "no" /\ c = created + 1
  BY NewJob
<1> HIDE DEF c
<1>2. /\ twi' \in [Wrappers -> Info] /\ twi'[w] = new
      /\ \A x \in Wrappers : x # w => twi'[x] = twi[x]
  BY Changed DEF IInv
<1>3. /\ thread' \in [Jobs -> Wrappers \cup {NoThread}] /\ thread'[c] = w
      /\ \A j \in Jobs : j # c => thread'[j] = thread[j]
  BY <1>1 DEF IInv, TypeOK
<1>4. TypeOK'
  <2>1. \A j \in Jobs : idOf'[j] # NoThread => idOf'[j] = thread'[j] /\ twi'[idOf'[j]].job = j
    BY <1>1, <1>2, <1>3 DEF IInv, TypeOK
  <2>2. primary' \in [at : Steps, job : 0 .. MaxJobs, w : Wrappers \cup {NoThread}]
    BY <1>1 DEF Steps
  <2> QED
    BY <1>1, <1>2, <1>3, <2>1, <2>2 DEF IInv, TypeOK
<1>5. JobsOK'
  <2>1. \A j \in Jobs : (thread'[j] # NoThread) <=> (j <= created')
    BY <1>1, <1>3, ThreadsAssumption DEF IInv, JobsOK, Jobs
  <2>2. \A j \in Jobs : j > created' => started'[j] = 0 /\ ended'[j] = "no"
    BY <1>1 DEF IInv, JobsOK, Jobs
  <2>3. ASSUME NEW x \in Wrappers, x # w
        PROVE  /\ twi'[x].pc = "none" => /\ ~twi'[x].idling /\ ~twi'[x].comatose
                                         /\ twi'[x].event = "none"
                                         /\ \A j \in Jobs : thread'[j] # x
               /\ twi'[x].pc # "none" => twi'[x].job \in Jobs /\ thread'[twi'[x].job] = x
    BY <1>1, <1>2, <1>3, <2>3, ThreadsAssumption DEF IInv, JobsOK
  <2> QED
    BY <1>1, <1>2, <1>3, <2>1, <2>2, <2>3 DEF JobsOK
<1>6. JobKept'
  <2>1. ASSUME NEW j \in Jobs, thread'[j] # NoThread, ended'[j] = "no"
        PROVE  twi'[thread'[j]].job = j
    <3>1. CASE j = c
      BY <1>1, <1>2, <1>3, <3>1
    <3>2. CASE j # c
      BY <1>2, <1>3, <2>1, <3>2 DEF IInv, JobKept, TypeOK
    <3> QED
      BY <3>1, <3>2
  <2> QED
    BY <2>1 DEF IInv, JobKept
<1>7. ASSUME NEW x \in Wrappers
      PROVE  WrapperOK(x)'
  <2>1. CASE x # w
    <3>1. twi'[x] = twi[x] /\ (Reused(x)' <=> Reused(x)) /\ ~BeingReused(x) /\ ~BeingReused(x)'
      BY <1>1, <1>2, <1>3, <2>1, ThreadsAssumption DEF Reused, BeingReused
    <3>2. ~(primary.at = "record" /\ primary.w = x)' /\ ~(primary.at = "record" /\ primary.w = x)
      BY <2>1
    <3> QED
      BY <3>1, <3>2 DEF IInv, WrapperOK, PlaceOK, OverOK, CodeOK, EventOK, Fresh
  <2> QED
    BY <2>1
<1> QED
  BY <1>4, <1>5, <1>6, <1>7 DEF IInv

LEMMA ReuseThreadInv ==
  ASSUME IInv, NEW stack \in Stacks, NEW isSuspended \in BOOLEAN, ReuseThread(stack, isSuspended)
  PROVE  IInv'
<1>1. PICK w \in Wrappers :
        /\ MayReuse(twi[w], stack)
        /\ twi' = [twi EXCEPT ![w].job = created + 1, ![w].suspends = Suspends(isSuspended)]
        /\ idOf' = KnownInstead(twi[w].job, created + 1, w)
        /\ thread' = [thread EXCEPT ![created + 1] = w]
        /\ primary' = [at |-> "reset", job |-> created + 1, w |-> w]
  BY DEF ReuseThread, Primary
<1> DEFINE new == [twi[w] EXCEPT !.job = created + 1, !.suspends = Suspends(isSuspended)]
           old == twi[w].job
<1>2. /\ primary.at = "game" /\ created < MaxJobs /\ created' = created + 1
      /\ UNCHANGED <<nullEntry, crashed, started, ended>>
  BY DEF ReuseThread, InGame
<1>3. /\ created + 1 \in Jobs /\ created + 1 \in 0 .. MaxJobs /\ thread[created + 1] = NoThread
      /\ started[created + 1] = 0 /\ ended[created + 1] = "no"
  BY <1>2, NewJob
<1>4. /\ twi[w].idling /\ ~twi[w].comatose /\ twi[w].pc \in {"signal", "idle"}
      /\ old \in Jobs /\ thread[old] = w /\ ended[old] # "no" /\ old # created + 1
  <2>1. twi[w].idling /\ ~twi[w].comatose
    BY <1>1 DEF MayReuse
  <2>2. twi[w].pc \in {"signal", "idle"}
    BY <2>1 DEF IInv, WrapperOK, PlaceOK
  <2>3. old \in Jobs /\ thread[old] = w /\ old # created + 1
    BY <1>3, <2>2, ThreadsAssumption DEF IInv, JobsOK
  <2>4. ~Fresh(w)
    BY <1>2, <2>1, <2>2 DEF Fresh, BeingReused
  <2> QED
    BY <2>1, <2>2, <2>3, <2>4 DEF IInv, WrapperOK, OverOK
<1>5. /\ new \in Info /\ new.job = created + 1 /\ new.pc = twi[w].pc /\ new.event = twi[w].event
      /\ new.idling = twi[w].idling /\ new.comatose = twi[w].comatose
  <2>1. Suspends(isSuspended) \in Nat
    BY DEF Suspends
  <2> QED
    BY <1>3, <2>1, InfoFields DEF IInv, Info
<1>6. twi' = [twi EXCEPT ![w] = new]
  BY <1>1
<1> HIDE DEF new
<1>7. twi'[w] = new /\ BeingReused(w)'
  BY <1>1, <1>5, <1>6, Changed DEF IInv, BeingReused
<1>8. thread'[old] = w /\ thread'[created + 1] = w
  BY <1>1, <1>3, <1>4 DEF IInv, TypeOK
<1>9. Reused(w)'
  BY <1>4, <1>5, <1>7, <1>8 DEF Reused
<1>10. PrimaryOK'
  BY <1>1, <1>2, <1>3, <1>4, <1>5, <1>7, <1>8, <1>9 DEF PrimaryOK
<1>11. WrapperOK(w)'
  <2>1. twi[w].event # "none"
    BY <1>2, <1>4 DEF IInv, WrapperOK, EventOK
  <2> QED
    BY <1>2, <1>3, <1>4, <1>5, <1>7, <1>9, <2>1
    DEF WrapperOK, PlaceOK, OverOK, CodeOK, EventOK, Fresh
<1>12. /\ idOf' \in [Jobs -> Wrappers \cup {NoThread}]
       /\ \A j \in Jobs : idOf'[j] # NoThread =>
            \/ j = created + 1 /\ idOf'[j] = w
            \/ j # created + 1 /\ idOf'[j] = idOf[j] /\ idOf[j] # w
  <2>1. idOf' = [idOf EXCEPT ![old] = NoThread, ![created + 1] = w]
    BY <1>1 DEF KnownInstead
  <2>2. \A j \in Jobs : idOf[j] = w => j = old
    BY ThreadsAssumption DEF IInv, TypeOK
  <2> HIDE DEF old
  <2> QED
    BY <1>3, <1>4, <2>1, <2>2 DEF IInv, TypeOK
<1>13. \A j \in Jobs : thread[j] = w => ended[j] # "no" \/ twi[w].job # j
  BY <1>4
<1> QED
  BY <1>1, <1>2, <1>5, <1>6, <1>10, <1>11, <1>12, <1>13, GivenJob, <1>4

LEMMA StartThreadInv ==
  ASSUME IInv, NEW stack \in Stacks, NEW isSuspended \in BOOLEAN, StartThread(stack, isSuspended)
  PROVE  IInv'
<1>1. PICK w \in Wrappers :
        /\ twi[w].pc = "none"
        /\ twi' = [twi EXCEPT ![w] = [Absent EXCEPT !.pc = "start", !.stack = stack,
                                      !.job = created + 1, !.suspends = Suspends(isSuspended)]]
        /\ thread' = [thread EXCEPT ![created + 1] = w]
        /\ primary' = [at |-> "record", job |-> created + 1, w |-> w]
  BY DEF StartThread, Primary
<1> DEFINE new == [Absent EXCEPT !.pc = "start", !.stack = stack, !.job = created + 1,
                                 !.suspends = Suspends(isSuspended)]
<1>2. /\ primary.at = "game" /\ created < MaxJobs /\ created' = created + 1
      /\ UNCHANGED <<idOf, nullEntry, crashed, started, ended>>
  BY DEF StartThread, InGame
<1>3. /\ created + 1 \in Jobs /\ created + 1 \in 0 .. MaxJobs /\ thread[created + 1] = NoThread
      /\ started[created + 1] = 0 /\ ended[created + 1] = "no"
  BY <1>2, NewJob
<1>4. \A j \in Jobs : thread[j] # w
  BY <1>1 DEF IInv, JobsOK
<1>5. /\ new \in Info /\ new.job = created + 1 /\ new.pc = "start" /\ new.event = "none"
      /\ ~new.idling /\ ~new.comatose
  <2>1. Suspends(isSuspended) \in Nat
    BY DEF Suspends
  <2>2. new = [pc |-> "start", idling |-> FALSE, comatose |-> FALSE, exitcode |-> StillActive,
               event |-> "none", suspends |-> Suspends(isSuspended), stack |-> stack,
               job |-> created + 1]
    <3> DEFINE anyStack == CHOOSE s0 \in Stacks : TRUE
    <3>1. Absent = [pc |-> "none", idling |-> FALSE, comatose |-> FALSE,
                    exitcode |-> StillActive, event |-> "none", suspends |-> 0,
                    stack |-> anyStack, job |-> 0]
      BY DEF Absent
    <3>2. new = [[pc |-> "none", idling |-> FALSE, comatose |-> FALSE,
                  exitcode |-> StillActive, event |-> "none", suspends |-> 0,
                  stack |-> anyStack, job |-> 0]
                 EXCEPT !.pc = "start", !.stack = stack, !.job = created + 1,
                        !.suspends = Suspends(isSuspended)]
      BY <3>1
    <3> HIDE DEF anyStack, new
    <3> QED
      BY <3>2
  <2> QED
    BY <1>3, <2>1, <2>2, Codes DEF Info
<1>6. twi' = [twi EXCEPT ![w] = new]
  BY <1>1
<1> HIDE DEF new
<1>7. twi'[w] = new /\ ~BeingReused(w)'
  BY <1>1, <1>5, <1>6, Changed DEF IInv, BeingReused
<1>8. thread'[created + 1] = w /\ \A j \in Jobs : j # created + 1 => thread'[j] # w
  BY <1>1, <1>3, <1>4 DEF IInv, TypeOK
<1>9. ~Reused(w)'
  BY <1>5, <1>7, <1>8 DEF Reused
<1>10. PrimaryOK'
  BY <1>1, <1>3, <1>5, <1>7, <1>8, <1>9 DEF PrimaryOK
<1>11. WrapperOK(w)'
  BY <1>1, <1>2, <1>3, <1>5, <1>7, <1>9
  DEF WrapperOK, PlaceOK, OverOK, CodeOK, EventOK, Fresh
<1>12. /\ idOf' \in [Jobs -> Wrappers \cup {NoThread}]
       /\ \A j \in Jobs : idOf'[j] # NoThread =>
            j # created + 1 /\ idOf'[j] = idOf[j] /\ idOf[j] # w
  BY <1>2, <1>3, <1>4 DEF IInv, TypeOK
<1> QED
  BY <1>1, <1>2, <1>4, <1>5, <1>6, <1>10, <1>11, <1>12, GivenJob

-----------------------------------------------------------------------------
(* The invariant, and what follows from it.                                *)
LEMMA StepInv == IInv /\ [Next]_vars => IInv'
<1> SUFFICES ASSUME IInv, [Next]_vars
             PROVE  IInv'
  OBVIOUS
<1>1. ASSUME NEW w \in Wrappers, WrapperStep(w) \/ JobStep(w)
      PROVE  IInv'
  BY <1>1, MarkActiveInv, CallStartAddressInv, BecomeIdleInv, SignalExitInv, ReawakenInv,
     SuspendForeverInv, FunctionReturnsInv, CallExitThreadInv DEF WrapperStep, JobStep
<1>2. CASE HookStep
  BY <1>2, ResetExitEventInv, LetGoInv, RecordThreadInv, MarkTerminatedInv, SuspendTerminatedInv,
     WaitInv DEF HookStep
<1>3. CASE GameCalls
  BY <1>3, ReuseThreadInv, StartThreadInv, ResumeThreadInv, TerminateThreadInv, WaitInv
  DEF GameCalls
<1>4. CASE UNCHANGED vars
  <2>1. TypeOK' /\ JobsOK' /\ PrimaryOK' /\ JobKept'
    BY <1>4 DEF vars, IInv, TypeOK, JobsOK, PrimaryOK, JobKept, Reused
  <2>2. \A w \in Wrappers : WrapperOK(w)'
    BY <1>4 DEF vars, IInv, WrapperOK, PlaceOK, OverOK, CodeOK, EventOK, Fresh, Reused, BeingReused
  <2> QED
    BY <2>1, <2>2 DEF IInv
<1> QED
  BY <1>1, <1>2, <1>3, <1>4 DEF Next

LEMMA Invariance == Spec => []IInv
<1>1. Init => IInv
  BY InitInv
<1>2. IInv /\ [Next]_vars => IInv'
  BY StepInv
<1> QED
  BY <1>1, <1>2, PTL DEF Spec

(* The tables are well-formed, and a handle in them is of the present job. *)
THEOREM TypeCorrect == Spec => []TypeOK
<1>1. IInv => TypeOK
  BY DEF IInv
<1> QED
  BY <1>1, Invariance, PTL

(* No job of the game is lost or run twice when threads are reused.        *)
THEOREM JobsAreKept == Spec => []JobKept
<1>1. IInv => JobKept
  BY DEF IInv
<1> QED
  BY <1>1, Invariance, PTL

(* A handle never tells the exit code of another job.                      *)
THEOREM ExitCodesAreOwn == Spec => []ExitCodeIsOwn
<1>1. IInv => ExitCodeIsOwn
  <2> SUFFICES ASSUME IInv, NEW j \in Jobs, HasHandle(j), idOf[j] # NoThread, Reported(j),
                      ended[j] # "terminated"
               PROVE  ended[j] # "no" /\ twi[idOf[j]].exitcode = j
    BY DEF ExitCodeIsOwn
  <2>1. PICK w \in Wrappers : w = idOf[j] /\ twi[w].job = j /\ thread[j] = w /\ twi[w].pc # "none"
    BY KnownOK DEF IInv, TypeOK
  <2>2. ~BeingReused(w)
    BY <2>1 DEF IInv, PrimaryOK, BeingReused, HasHandle
  <2>3. CASE twi[w].idling
    BY <2>1, <2>2, <2>3 DEF IInv, WrapperOK, PlaceOK, OverOK, CodeOK, Fresh
  <2>4. CASE twi[w].comatose
    BY <2>1, <2>2, <2>4 DEF IInv, WrapperOK, PlaceOK, OverOK, CodeOK, Fresh
  <2> QED
    BY <2>1, <2>3, <2>4 DEF Reported
<1> QED
  BY <1>1, Invariance, PTL

(* The exit event misleads in the two known ways only.                     *)
THEOREM ExitEventsAreSound == Spec => []ExitEventSound
<1>1. IInv => ExitEventSound
  BY DEF IInv, WrapperOK, EventOK, ExitEventSound
<1> QED
  BY <1>1, Invariance, PTL

-----------------------------------------------------------------------------
(* CommandSlot: the frame thread of the game and the debugger thread.      *)

(* The inductive invariant.  Types first, without the facts about counters *)
(* that the phases below imply.                                            *)
SlotTypes ==
  /\ gpc \in {"run", "report", "reported", "check", "execute", "clear"}
  /\ dpc \in {"idle", "enter", "resume", "poll", "keys", "loop", "suspend", "inject"}
  /\ ui = "idle"
  /\ command \in Commands \cup {None, HandleEvents}
  /\ commandSlot \in Commands \cup {None, HandleEvents}
  /\ localCommandSlot \in Commands \cup {None, HandleEvents}
  /\ frame \in Nat /\ currentFrame \in Nat /\ keys \in Nat
  /\ requestedCommandReenter \in BOOLEAN /\ cannotSuspendForCommand \in BOOLEAN
  /\ paused \in BOOLEAN /\ temporaryUnpause \in BOOLEAN /\ truePause \in BOOLEAN

(* The two threads take turns.                                             *)
Turns == dpc = "idle" <=> gpc # "reported"

(* What the flags mean while a command is on its way.                      *)
EventsAsked == requestedCommandReenter /\ ~cannotSuspendForCommand
SlotMatches ==
  IF ~requestedCommandReenter THEN commandSlot = None /\ ~cannotSuspendForCommand
  ELSE IF cannotSuspendForCommand THEN commandSlot \in Commands
  ELSE commandSlot = HandleEvents

(* A boundary that has been taken for a new frame and is not injected yet. *)
Seen       == handled = 1 /\ frame = currentFrame + 1
Held       == suspended = IF EventsAsked THEN 1 ELSE 0

Running    == gpc = "run" => /\ ~requestedCommandReenter /\ commandSlot = None
                             /\ handled = 1 /\ frame = currentFrame /\ suspended = 0
Reporting  == gpc = "report" \/ dpc = "enter" =>
                /\ frame = currentFrame + 1 /\ commandSlot = None /\ Held
                /\ handled = IF requestedCommandReenter THEN 1 ELSE 0
Resuming   == dpc = "resume" => Seen /\ commandSlot = None /\ Held
Polling    == dpc = "poll" => Seen /\ commandSlot = None /\ suspended = 0
Looping    == dpc \in {"keys", "loop", "suspend"} => Seen /\ SlotMatches /\ suspended = 0
KeysFirst  == dpc = "keys" => ~EventsAsked
Injecting  == dpc = "inject" => Seen /\ SlotMatches /\ Held
Checking   == gpc = "check" => /\ SlotMatches /\ Held /\ handled = 1
                               /\ frame = IF requestedCommandReenter THEN currentFrame + 1
                                                                     ELSE currentFrame
Executing  == gpc = "execute" => /\ requestedCommandReenter /\ Seen /\ Held
                                 /\ command = commandSlot /\ SlotMatches
Clearing   == gpc = "clear" => requestedCommandReenter /\ Seen /\ Held
Stored     == \A s \in Slots : \/ savestates[s] = Invalid
                               \/ /\ savestates[s] \in State
                                  /\ savestates[s].frame = savestates[s].currentFrame + 1
                                  /\ savestates[s].suspended = 0
                                  /\ savestates[s].handled = 1

SlotInv ==
  /\ SlotTypes /\ Turns /\ savestates \in [Slots -> State \cup {Invalid}]
  /\ Running /\ Reporting /\ Resuming /\ Polling /\ Looping /\ KeysFirst /\ Injecting
  /\ Checking /\ Executing /\ Clearing /\ Stored

(* Commands are told apart by their first field.                           *)
LEMMA CommandsDiffer ==
  /\ None # HandleEvents
  /\ \A c \in Commands : c # None /\ c # HandleEvents /\ c.op \in {"SAVE", "LOAD"}
                         /\ c.slot \in Slots
  /\ None.op = "NONE" /\ HandleEvents.op = "HANDLEEVENTS"
<1>1. None.op = "NONE" /\ HandleEvents.op = "HANDLEEVENTS"
  BY DEF None, HandleEvents
<1>2. \A c \in Commands : c.op \in {"SAVE", "LOAD"} /\ c.slot \in Slots
  BY DEF Commands
<1> QED
  BY <1>1, <1>2

(* No state is saved and nothing is reported at first.                     *)
LEMMA SlotBegins == SlotInit => SlotInv
<1> SUFFICES ASSUME SlotInit
             PROVE  SlotInv
  OBVIOUS
<1>1. SlotTypes /\ Turns
  BY DEF SlotInit, SlotTypes, Turns
<1>2. savestates \in [Slots -> State \cup {Invalid}] /\ Stored
  BY DEF SlotInit, Stored
<1>3. /\ Running /\ Reporting /\ Resuming /\ Polling /\ Looping /\ KeysFirst /\ Injecting
      /\ Checking /\ Executing /\ Clearing
  BY DEF SlotInit, Running, Reporting, Resuming, Polling, Looping, KeysFirst, Injecting, Checking,
         Executing, Clearing
<1> QED
  BY <1>1, <1>2, <1>3 DEF SlotInv

(* Every step of the two threads and of the UI thread keeps the phases.    *)
LEMMA SlotStep == SlotInv /\ [SlotNext]_slotVars => SlotInv'
<1> SUFFICES ASSUME SlotInv, [SlotNext]_slotVars
             PROVE  SlotInv'
  OBVIOUS
<1> USE CommandsDiffer
<1> USE DEF SlotInv, SlotTypes, Turns, SlotMatches, Seen, Held, EventsAsked, Running, Reporting,
            Resuming, Polling, Looping, KeysFirst, Injecting, Checking, Executing, Clearing,
            flags, pauses, uiVars
<1>1. CASE NewFrame
  BY <1>1 DEF NewFrame, Stored
<1>2. CASE Report
  BY <1>2 DEF Report, Stored
<1>3. CASE CheckSlot
  BY <1>3 DEF CheckSlot, Stored
<1>4. CASE ExecuteSave
  <2>1. command \in Commands /\ cannotSuspendForCommand
    BY <1>4 DEF ExecuteSave
  <2>2. suspended = 0 /\ handled = 1 /\ frame = currentFrame + 1
    BY <1>4, <2>1 DEF ExecuteSave
  <2>3. savestates' \in [Slots -> State \cup {Invalid}] /\ Stored'
    BY <1>4, <2>1, <2>2 DEF ExecuteSave, Stored, State
  <2> QED
    BY <1>4, <2>1, <2>2, <2>3 DEF ExecuteSave
<1>5. CASE ExecuteLoad
  <2>1. command \in Commands /\ cannotSuspendForCommand
    BY <1>5 DEF ExecuteLoad
  <2> DEFINE state == savestates[command.slot]
  <2>2. CASE state = Invalid
    BY <1>5, <2>1, <2>2 DEF ExecuteLoad, Stored
  <2>3. CASE state # Invalid
    <3>1. /\ state \in State /\ state.frame = state.currentFrame + 1
          /\ state.suspended = 0 /\ state.handled = 1
      BY <2>1, <2>3 DEF Stored
    <3>2. state.frame \in Nat /\ state.currentFrame \in Nat
      BY <3>1 DEF State
    <3> QED
      BY <1>5, <2>1, <2>3, <3>1, <3>2 DEF ExecuteLoad, Stored
  <2> QED
    BY <2>2, <2>3
<1>6. CASE ExecuteEvents
  BY <1>6 DEF ExecuteEvents, Stored
<1>7. CASE ClearSlot
  BY <1>7 DEF ClearSlot, Stored
<1>8. CASE Enter
  <2>1. temporaryUnpause' \in BOOLEAN
    BY <1>8, Zenon DEF Enter
  <2>2. CASE requestedCommandReenter
    BY <1>8, <2>1, <2>2 DEF Enter, IsNewFrame, Stored
  <2>3. CASE ~requestedCommandReenter
    BY <1>8, <2>1, <2>3 DEF Enter, IsNewFrame, Stored
  <2> QED
    BY <2>2, <2>3
<1>9. CASE ResumeAllExcept
  BY <1>9 DEF ResumeAllExcept, ResumesOthers, Stored
<1>10. CASE Poll
  BY <1>10 DEF Poll, Stored
<1>11. CASE AfterKeys
  <2>1. CASE AsksForEvents
    BY <1>11, <2>1 DEF AfterKeys, AsksForEvents, Stored
  <2>2. CASE ~AsksForEvents
    BY <1>11, <2>2 DEF AfterKeys, Stored
  <2> QED
    BY <2>1, <2>2
<1>12. CASE Loop
  BY <1>12 DEF Loop, StaysPaused, Stored
<1>13. CASE SuspendAllExcept
  BY <1>13 DEF SuspendAllExcept, SuspendsOthers, Stored
<1>14. CASE Inject
  BY <1>14 DEF Inject, Injects, Stored
<1>15. CASE \E c \in Commands : Hotkey(c)
  BY <1>15 DEF Hotkey, Stored
<1>16. CASE TogglePause
  <2>1. paused' \in BOOLEAN /\ temporaryUnpause' \in BOOLEAN
    BY <1>16, Zenon DEF TogglePause
  <2> QED
    BY <1>16, <2>1 DEF TogglePause, Stored
<1>17. CASE FrameAdvance
  <2>1. paused' \in BOOLEAN /\ temporaryUnpause' \in BOOLEAN
    BY <1>17, Zenon DEF FrameAdvance
  <2> QED
    BY <1>17, <2>1 DEF FrameAdvance, Stored
<1>18. CASE ToggleTruePause
  BY <1>18 DEF ToggleTruePause, Stored
<1>19. CASE UNCHANGED slotVars
  BY <1>19 DEF slotVars, Stored
<1> QED
  BY <1>1, <1>2, <1>3, <1>4, <1>5, <1>6, <1>7, <1>8, <1>9, <1>10, <1>11, <1>12, <1>13,
     <1>14, <1>15, <1>16, <1>17, <1>18, <1>19 DEF SlotNext, Game, Debugger

LEMMA SlotInvariance == SlotSpec => []SlotInv
  BY SlotBegins, SlotStep, PTL DEF SlotSpec

-----------------------------------------------------------------------------
(* However often a boundary is reported, the game gets one input per frame.*)
THEOREM InputPerFrame == SlotSpec => []OneInputPerFrame
<1>1. SlotInv => OneInputPerFrame
  BY DEF SlotInv, Running, OneInputPerFrame
<1> QED
  BY <1>1, SlotInvariance, PTL

(* Exactly one report of every frame is taken for a new frame.             *)
THEOREM NewFrameOnce == SlotSpec => []HandledOnce
<1>1. SlotInv => HandledOnce
  BY DEF SlotInv, SlotTypes, Turns, Running, Reporting, Resuming, Polling, Looping, Injecting,
         Checking, Executing, Clearing, Seen, HandledOnce
<1> QED
  BY <1>1, SlotInvariance, PTL

(* Suspending and resuming the other threads balance.                      *)
THEOREM OthersRun == SlotSpec => []ThreadsRun
<1>1. SlotInv => ThreadsRun
  BY DEF SlotInv, Running, Stored, ThreadsRun
<1> QED
  BY <1>1, SlotInvariance, PTL

(* Types; in particular no thread is ever suspended twice.                 *)
THEOREM SlotTypeCorrect == SlotSpec => []SlotTypeOK
<1>1. SlotInv => suspended \in {0, 1} /\ handled \in Nat
  BY DEF SlotInv, SlotTypes, Turns, Running, Reporting, Resuming, Polling, Looping, Injecting,
         Checking, Executing, Clearing, Seen, Held
<1>2. SlotInv => SlotTypeOK
  BY <1>1 DEF SlotInv, SlotTypes, SlotTypeOK
<1> QED
  BY <1>2, SlotInvariance, PTL
=============================================================================
