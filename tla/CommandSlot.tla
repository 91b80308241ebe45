---------------------------- MODULE CommandSlot ----------------------------
(***************************************************************************)
(* The command loop at a frame boundary.  The game's frame thread reports  *)
(* CMD_FRAME_BOUNDARY (hooks/wintasee.cpp, FrameBoundary) and is stopped at*)
(* a breakpoint while the debugger thread (application/wintaser.cpp,       *)
(* FrameBoundary) polls the hotkeys, pauses, and may write one command into*)
(* the game's memory.  The game executes it, clears the slot and reports   *)
(* again; the debugger recognises the second report by its own flag        *)
(* requestedCommandReenter.  While the game handles window messages in a   *)
(* pause its other threads are suspended.                                  *)
(*                                                                         *)
(* The menus and hotkeys run on the UI thread: pauses change at any time,  *)
(* hotkeys only while the debugger thread waits for them.  SlotSpec leaves *)
(* the menu's own "save state" and "load state" to MenuSpec.  One run of   *)
(* the game is modelled, in read+write mode, so no savestate is stale      *)
(* (Rerecording is about those).                                           *)
(***************************************************************************)
EXTENDS Integers

CONSTANTS
  Slots,     \* savestate slots
  MaxFrames, \* bound: frames of the game
  MaxKeys    \* bound: commands of the user

ASSUME CommandSlotAssumption == MaxFrames \in Nat /\ MaxKeys \in Nat

VARIABLES
  \* in the game
  gpc,         \* place of the frame thread in FrameBoundary
  command,     \* the command it executes
  commandSlot, \* its buffer, written by the debugger process
  frame,       \* framecount
  suspended,   \* suspend count of the other threads of the game
  \* in the debugger process
  dpc,         \* place of the debugger thread in FrameBoundary
  requestedCommandReenter, cannotSuspendForCommand,
  paused, temporaryUnpause, truePause,
  currentFrame, \* movie.currentFrame: inputs given to the game
  savestates,   \* by slot
  localCommandSlot, ui, \* the UI thread inside SendCommand
  keys,         \* commands given so far
  handled       \* history: reports of this frame taken for a new frame

flags    == <<requestedCommandReenter, cannotSuspendForCommand>>
pauses   == <<paused, temporaryUnpause, truePause>>
uiVars   == <<localCommandSlot, ui>>
slotVars == <<gpc, command, commandSlot, frame, suspended, dpc, flags, pauses, currentFrame,
              savestates, uiVars, keys, handled>>

None         == [op |-> "NONE"]
HandleEvents == [op |-> "HANDLEEVENTS"]
Commands     == [op : {"SAVE", "LOAD"}, slot : Slots]
State        == [frame : Nat, currentFrame : Nat, suspended : Nat, handled : Nat]
Invalid      == [frame |-> -1]

SlotInit ==
  /\ gpc = "run" /\ dpc = "idle" /\ ui = "idle"
  /\ command = None /\ commandSlot = None /\ localCommandSlot = None
  /\ frame = 0 /\ currentFrame = 0 /\ suspended = 0 /\ keys = 0 /\ handled = 1
  /\ requestedCommandReenter = FALSE /\ cannotSuspendForCommand = FALSE
  /\ paused = FALSE /\ temporaryUnpause = FALSE /\ truePause = FALSE
  /\ savestates = [s \in Slots |-> Invalid]

-----------------------------------------------------------------------------
(* The frame thread of the game.                                           *)
NewFrame ==
  /\ gpc = "run" /\ frame < MaxFrames
  /\ gpc' = "report"
  /\ frame' = frame + 1
  /\ handled' = 0
  /\ UNCHANGED <<command, commandSlot, suspended, dpc, flags, pauses, currentFrame,
                 savestates, uiVars, keys>>

Report ==
  /\ gpc = "report" /\ dpc = "idle"
  /\ gpc' = "reported"
  /\ dpc' = "enter"
  /\ UNCHANGED <<command, commandSlot, frame, suspended, flags, pauses, currentFrame,
                 savestates, uiVars, keys, handled>>

CheckSlot ==
  /\ gpc = "check"
  /\ \/ /\ commandSlot = None
        /\ gpc' = "run" /\ UNCHANGED command
     \/ /\ commandSlot # None
        /\ gpc' = "execute" /\ command' = commandSlot
  /\ UNCHANGED <<commandSlot, frame, suspended, dpc, flags, pauses, currentFrame,
                 savestates, uiVars, keys, handled>>

(* SaveGameStatePhase2 stores the movie, the memory and the suspend counts.*)
ExecuteSave ==
  /\ gpc = "execute" /\ command.op = "SAVE"
  /\ savestates' = [savestates EXCEPT ![command.slot] =
       [frame |-> frame, currentFrame |-> currentFrame, suspended |-> suspended,
        handled |-> handled]]
  /\ gpc' = "clear"
  /\ UNCHANGED <<command, commandSlot, frame, suspended, dpc, flags, pauses, currentFrame,
                 uiVars, keys, handled>>

(* LoadGameStatePhase2: the game goes on where the state was saved, behind *)
(* the message of ExecuteSave.  The slot it brings back is cleared at once.*)
ExecuteLoad ==
  /\ gpc = "execute" /\ command.op = "LOAD"
  /\ LET state == savestates[command.slot]
     IN  \/ /\ state # Invalid
            /\ frame' = state.frame /\ currentFrame' = state.currentFrame
            /\ suspended' = state.suspended /\ handled' = state.handled
            /\ localCommandSlot' = None /\ commandSlot' = None
         \/ /\ state = Invalid
            /\ UNCHANGED <<frame, currentFrame, suspended, handled, localCommandSlot, commandSlot>>
  /\ gpc' = "clear"
  /\ UNCHANGED <<command, dpc, flags, pauses, savestates, ui, keys>>

ExecuteEvents ==
  /\ gpc = "execute" /\ command = HandleEvents
  /\ gpc' = "clear"
  /\ UNCHANGED <<command, commandSlot, frame, suspended, dpc, flags, pauses, currentFrame,
                 savestates, uiVars, keys, handled>>

ClearSlot ==
  /\ gpc = "clear"
  /\ commandSlot' = None
  /\ gpc' = "report"
  /\ UNCHANGED <<command, frame, suspended, dpc, flags, pauses, currentFrame, savestates,
                 uiVars, keys, handled>>

-----------------------------------------------------------------------------
(* The debugger thread.  A report that was not asked for by a command is a *)
(* new frame: it is counted, captured, and may run on through a pause if it*)
(* shows no picture.                                                       *)
IsAlwaysNew == TRUE
IsNewFrame == ~requestedCommandReenter

Enter ==
  /\ dpc = "enter"
  /\ dpc' = "resume"
  /\ \/ /\ IsNewFrame
        /\ handled' = handled + 1
        /\ temporaryUnpause' \in BOOLEAN
     \/ /\ ~IsNewFrame
        /\ temporaryUnpause' = FALSE
        /\ UNCHANGED handled
  /\ UNCHANGED <<gpc, command, commandSlot, frame, suspended, flags, paused, truePause,
                 currentFrame, savestates, uiVars, keys>>

NeverResumes == FALSE
ResumesOthers == requestedCommandReenter /\ ~cannotSuspendForCommand

ResumeAllExcept ==
  /\ dpc = "resume"
  /\ dpc' = "poll"
  /\ suspended' = IF ResumesOthers /\ suspended > 0 THEN suspended - 1 ELSE suspended
  /\ UNCHANGED <<gpc, command, commandSlot, frame, flags, pauses, currentFrame, savestates,
                 uiVars, keys, handled>>

Poll ==
  /\ dpc = "poll"
  /\ dpc' = "keys"
  /\ requestedCommandReenter' = FALSE
  /\ cannotSuspendForCommand' = FALSE
  /\ UNCHANGED <<gpc, command, commandSlot, frame, suspended, pauses, currentFrame,
                 savestates, uiVars, keys, handled>>

(* SaveGameStatePhase1 and LoadGameStatePhase1 from a hotkey.              *)
Hotkey(c) ==
  /\ dpc = "keys" /\ keys < MaxKeys
  /\ keys' = keys + 1
  /\ localCommandSlot' = c /\ commandSlot' = c
  /\ requestedCommandReenter' = TRUE
  /\ cannotSuspendForCommand' = TRUE
  /\ UNCHANGED <<gpc, command, frame, suspended, dpc, pauses, currentFrame, savestates, ui,
                 handled>>

(* The keys are polled; in a pause HandleRemotePauseEvents lets the game   *)
(* look at its window messages.                                            *)
AsksWithoutPause == ~temporaryUnpause /\ ~requestedCommandReenter /\ ~truePause
AsksForEvents == paused /\ ~temporaryUnpause /\ ~requestedCommandReenter /\ ~truePause

AfterKeys ==
  /\ dpc = "keys"
  /\ dpc' = "loop"
  /\ \/ /\ AsksForEvents
        /\ localCommandSlot' = HandleEvents /\ commandSlot' = HandleEvents
        /\ requestedCommandReenter' = TRUE
     \/ /\ ~AsksForEvents
        /\ UNCHANGED <<localCommandSlot, commandSlot, requestedCommandReenter>>
  /\ UNCHANGED <<gpc, command, frame, suspended, cannotSuspendForCommand, pauses,
                 currentFrame, savestates, ui, keys, handled>>

StaysPaused == paused /\ ~temporaryUnpause /\ ~requestedCommandReenter

Loop ==
  /\ dpc = "loop"
  /\ dpc' = IF StaysPaused THEN "poll" ELSE "suspend"
  /\ UNCHANGED <<gpc, command, commandSlot, frame, suspended, flags, pauses, currentFrame,
                 savestates, uiVars, keys, handled>>

SuspendsForAny == requestedCommandReenter
SuspendsOthers == requestedCommandReenter /\ ~cannotSuspendForCommand

SuspendAllExcept ==
  /\ dpc = "suspend"
  /\ dpc' = "inject"
  /\ suspended' = IF SuspendsOthers THEN suspended + 1 ELSE suspended
  /\ UNCHANGED <<gpc, command, commandSlot, frame, flags, pauses, currentFrame, savestates,
                 uiVars, keys, handled>>

(* RecordLocalInputs and InjectCurrentMovieFrame; the game goes on.        *)
AlwaysInjects == TRUE
Injects == ~requestedCommandReenter

Inject ==
  /\ dpc = "inject"
  /\ dpc' = "idle"
  /\ gpc' = "check"
  /\ currentFrame' = IF Injects THEN currentFrame + 1 ELSE currentFrame
  /\ UNCHANGED <<command, commandSlot, frame, suspended, flags, pauses, savestates, uiVars,
                 keys, handled>>

-----------------------------------------------------------------------------
(* The UI thread, at any time.                                             *)
TogglePause ==
  /\ paused' = ~paused
  /\ temporaryUnpause' \in IF paused' THEN {temporaryUnpause, TRUE} ELSE {temporaryUnpause}
  /\ UNCHANGED <<gpc, command, commandSlot, frame, suspended, dpc, flags, truePause,
                 currentFrame, savestates, uiVars, keys, handled>>

FrameAdvance ==
  /\ paused' = TRUE
  /\ temporaryUnpause' \in IF paused THEN {TRUE} ELSE {temporaryUnpause, TRUE}
  /\ UNCHANGED <<gpc, command, commandSlot, frame, suspended, dpc, flags, truePause,
                 currentFrame, savestates, uiVars, keys, handled>>

ToggleTruePause ==
  /\ truePause' = ~truePause
  /\ UNCHANGED <<gpc, command, commandSlot, frame, suspended, dpc, flags, paused,
                 temporaryUnpause, currentFrame, savestates, uiVars, keys, handled>>

(* "Save state" and "load state" of the menu: sprintf, WriteProcessMemory  *)
(* and the two flags, one after the other.                                 *)
MenuCommand(c) ==
  /\ ui = "idle" /\ keys < MaxKeys
  /\ ui' = "write" /\ keys' = keys + 1
  /\ localCommandSlot' = c
  /\ UNCHANGED <<gpc, command, commandSlot, frame, suspended, dpc, flags, pauses,
                 currentFrame, savestates, handled>>

MenuWrite ==
  /\ ui = "write"
  /\ ui' = "flag"
  /\ commandSlot' = localCommandSlot
  /\ requestedCommandReenter' = TRUE
  /\ UNCHANGED <<gpc, command, frame, suspended, dpc, cannotSuspendForCommand, pauses,
                 currentFrame, savestates, localCommandSlot, keys, handled>>

MenuFlag ==
  /\ ui = "flag"
  /\ ui' = "idle"
  /\ cannotSuspendForCommand' = TRUE
  /\ UNCHANGED <<gpc, command, commandSlot, frame, suspended, dpc, requestedCommandReenter,
                 pauses, currentFrame, savestates, localCommandSlot, keys, handled>>

Game     == NewFrame \/ Report \/ CheckSlot \/ ExecuteSave \/ ExecuteLoad \/ ExecuteEvents
            \/ ClearSlot
Debugger == Enter \/ ResumeAllExcept \/ Poll \/ AfterKeys \/ Loop \/ SuspendAllExcept \/ Inject
SlotNext == \/ Game \/ Debugger
            \/ \E c \in Commands : Hotkey(c)
            \/ TogglePause \/ FrameAdvance \/ ToggleTruePause
SlotSpec == SlotInit /\ [][SlotNext]_slotVars
FairSlotSpec == SlotSpec /\ WF_slotVars(Game) /\ WF_slotVars(Debugger)

MenuNext == SlotNext \/ (\E c \in Commands : MenuCommand(c)) \/ MenuWrite \/ MenuFlag
MenuSpec == SlotInit /\ [][MenuNext]_slotVars

-----------------------------------------------------------------------------
SlotTypeOK ==
  /\ gpc \in {"run", "report", "reported", "check", "execute", "clear"}
  /\ dpc \in {"idle", "enter", "resume", "poll", "keys", "loop", "suspend", "inject"}
  /\ ui \in {"idle", "write", "flag"}
  /\ {command, commandSlot, localCommandSlot} \subseteq Commands \cup {None, HandleEvents}
  /\ frame \in Nat /\ currentFrame \in Nat /\ suspended \in {0, 1} /\ handled \in Nat
  /\ keys \in Nat
  /\ {requestedCommandReenter, cannotSuspendForCommand, paused, temporaryUnpause, truePause}
       \subseteq BOOLEAN
  /\ savestates \in [Slots -> State \cup {Invalid}]

(* Whenever the game runs it has been given as many inputs as it has begun *)
(* frames, however often its boundary was reported for pauses, saves and   *)
(* loads in between; otherwise the movie and the game drift apart.         *)
OneInputPerFrame == gpc = "run" => currentFrame = frame

(* "if it's actually a new frame instead of just paused" (wintaser.cpp:    *)
(* 2511): of the reports of one frame exactly one is taken for a new frame *)
(* and captured.                                                           *)
HandledOnce == handled <= 1 /\ (gpc = "run" => handled = 1)

(* The other threads of the game run whenever it computes a frame, and no  *)
(* savestate keeps them suspended.                                         *)
ThreadsRun ==
  /\ gpc = "run" => suspended = 0
  /\ \A s \in Slots : savestates[s] = Invalid \/ savestates[s].suspended = 0

(* A game that is not paused is not held at its boundary.                  *)
GameGoesOn == []<>(paused \/ gpc = "run")
=============================================================================
