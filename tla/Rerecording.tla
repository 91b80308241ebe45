---------------------------- MODULE Rerecording ----------------------------
(***************************************************************************)
(* Movie recording, playback and savestates (application/wintaser.cpp):    *)
(* the movie in memory and in its file, the savestate slots, and the       *)
(* recovery of stale savestates by replaying a movie.                      *)
(*                                                                         *)
(* The debugger thread holds the game at every frame boundary and runs the *)
(* command loop of FrameBoundary: it refreshes stale savestates, looks at  *)
(* the hotkeys and, unless it is paused, lets the game run one frame with  *)
(* the next input of the movie.  A SAVE or LOAD command is carried out by  *)
(* the game asking for it, after which the same boundary is entered again. *)
(*                                                                         *)
(* The memory of a deterministic game is determined by the inputs it has   *)
(* consumed, so `game' is that sequence.  At frame boundary N the game has *)
(* consumed N - 1 inputs.  A sequence of inputs stands for movie.frames,   *)
(* and everything else in a movie (author, rerecord count, timer values)   *)
(* is left out.                                                            *)
(***************************************************************************)
EXTENDS Integers, Sequences

CONSTANTS
  Inputs,       \* what the player may do in a frame
  NoInput,      \* the cleared CurrentInput
  NumSlots,     \* number of savestate slots
  UserActions,  \* what the user of this instance does, besides recording and playing
  MaxFrames     \* bound: inputs the game consumes

AllUserActions == {"Save", "Load", "Recover", "LoadWhileRecovering", "ToggleReadOnly", "Pause",
                   "ResumeRecording", "Deallocate", "Delete", "Restart"}

ASSUME InputAssumption == NoInput \notin Inputs
ASSUME SlotAssumption == NumSlots \in Nat
ASSUME UserAssumption == UserActions \subseteq AllUserActions
ASSUME BoundAssumption == MaxFrames \in Nat

VARIABLES
  running,          \* the debugger thread and the game exist
  pc,               \* place in the command loop of FrameBoundary
  game,             \* inputs the game has consumed
  movie,            \* frames and currentFrame
  file,             \* frames in the movie file
  unsavedMovieData,
  playback,         \* localTASflags.playback
  finished,
  nextLoadRecords,  \* read+write instead of read-only
  paused,
  savestates,
  recoveringStale,
  recoveringStaleSlot,
  recoveringStaleFrame,
  restarting,       \* IDC_BUTTON_STOP with lParam 42 is posted to the UI thread
  parted            \* history: the user was told that movie and game differ

movieVars   == <<movie, file, unsavedMovieData, playback, finished, nextLoadRecords>>
recoverVars == <<recoveringStale, recoveringStaleSlot, recoveringStaleFrame>>
vars == <<running, pc, game, movieVars, paused, savestates, recoverVars, restarting, parted>>

Slots      == 1 .. NumSlots
FrameSeqs  == Seq(Inputs \cup {NoInput})
Movies     == [frames : FrameSeqs, currentFrame : Nat]
Savestates == [valid : BOOLEAN, stale : BOOLEAN, movie : Movies, parted : BOOLEAN,
               allocated : BOOLEAN, game : FrameSeqs]

NewMovie   == [frames |-> <<>>, currentFrame |-> 0]
FrameCount == Len(game) + 1

(* The input in the game's memory: the last one that was injected.         *)
HeldInput == IF game = <<>> THEN NoInput ELSE game[Len(game)]

(* memcmp of the first n frames, of movies that have as many (where they   *)
(* may be shorter, see MayMatch).                                          *)
SameInput(s, t, n) == n <= Len(s) /\ n <= Len(t) /\ \A i \in 1 .. n : s[i] = t[i]

(* Playing the movie up to its current frame leads to the state `memory'.  *)
LeadsTo(aMovie, memory) ==
  Len(memory) = aMovie.currentFrame /\ SameInput(memory, aMovie.frames, Len(memory))

At(place) == running /\ pc = place
-----------------------------------------------------------------------------
Init ==
  /\ running = FALSE /\ pc = "refresh" /\ game = <<>>
  /\ movie = NewMovie /\ file = <<>> /\ unsavedMovieData = FALSE
  /\ playback = FALSE /\ finished = FALSE /\ nextLoadRecords = TRUE
  /\ paused = FALSE
  /\ savestates = [s \in Slots |-> [valid |-> FALSE, stale |-> FALSE, movie |-> NewMovie,
                                    parted |-> FALSE, allocated |-> FALSE, game |-> <<>>]]
  /\ recoveringStale = FALSE /\ recoveringStaleSlot = 0 /\ recoveringStaleFrame = 0
  /\ restarting = FALSE
  /\ parted = FALSE

-----------------------------------------------------------------------------
(* Sessions.                                                               *)

ReleasedOnly(state) == [state EXCEPT !.allocated = FALSE, !.game = <<>>]
Deallocated(state) == [state EXCEPT !.stale = TRUE, !.allocated = FALSE, !.game = <<>>]
Cleared(state) ==
  [Deallocated(state) EXCEPT !.movie.frames = <<>>, !.valid = FALSE, !.stale = FALSE]

(* DebuggerThreadFunc: start the game with the movie `frames'.  States of  *)
(* an earlier process are of no use to this one.                           *)
Started(frames) ==
  /\ running' = TRUE /\ pc' = "refresh"
  /\ game' = <<>>
  /\ movie' = [frames |-> frames, currentFrame |-> 0]
  /\ finished' = FALSE
  /\ parted' = FALSE
  /\ savestates' = [s \in Slots |->
                      [savestates[s] EXCEPT !.stale = savestates[s].valid]]

RecordMovie ==
  /\ ~running
  /\ Started(<<>>)
  /\ file' = <<>> /\ unsavedMovieData' = FALSE
  /\ playback' = FALSE /\ nextLoadRecords' = TRUE
  /\ UNCHANGED <<paused, recoverVars, restarting>>

(* A movie file without frames cannot be played back.                      *)
Play(frames) ==
  /\ playback' = TRUE /\ nextLoadRecords' = FALSE
  /\ IF frames = <<>>
       THEN /\ running' = FALSE
            /\ movie' = NewMovie
            /\ savestates' = [s \in Slots |-> Deallocated(savestates[s])]
            /\ UNCHANGED <<pc, game, finished, parted>>
       ELSE Started(frames)

PlayMovie ==
  /\ ~running
  /\ Play(file)
  /\ UNCHANGED <<file, unsavedMovieData, paused, recoverVars, restarting>>

SavedFile(frames) ==
  /\ file' = IF unsavedMovieData THEN frames ELSE file
  /\ unsavedMovieData' = FALSE

(* The user stops the game, or the game ends by itself: both save the movie*)
(* (6233-6245, 4169-4172 and 4384-4387), both go through                   *)
(* DebuggerThreadFuncCleanup, and the savestates lose their memory.  Only  *)
(* the former ends a recovery.                                             *)
StopMovie ==
  /\ running
  /\ SavedFile(movie.frames)
  /\ running' = FALSE /\ paused' = FALSE
  /\ savestates' = [s \in Slots |-> Deallocated(savestates[s])]
  /\ recoveringStale' \in {FALSE, recoveringStale}
  /\ UNCHANGED <<pc, game, movie, playback, finished, nextLoadRecords, recoveringStaleSlot,
                 recoveringStaleFrame, restarting, parted>>

(* IDC_BUTTON_STOP with lParam 42: stop, and play the movie file from the  *)
(* beginning.  Ignored when the game has ended meanwhile.                  *)
RestartMovie ==
  /\ restarting
  /\ restarting' = FALSE
  /\ IF running
       THEN /\ SavedFile(movie.frames)
            /\ Play(IF unsavedMovieData THEN movie.frames ELSE file)
            /\ paused' = FALSE
       ELSE UNCHANGED <<running, pc, game, movieVars, paused, savestates, parted>>
  /\ UNCHANGED recoverVars
-----------------------------------------------------------------------------
(* Savestates.                                                             *)

FiledMovie  == [movie EXCEPT !.frames = file]
MovieToSave == movie

(* SaveGameStatePhase2.  In a finished movie the user is asked first, and  *)
(* may refuse.                                                             *)
SaveGameState(s) ==
  \/ /\ savestates' = [savestates EXCEPT ![s] =
                         [valid |-> TRUE, stale |-> FALSE, movie |-> MovieToSave, parted |-> parted,
                          allocated |-> TRUE, game |-> game]]
     /\ SavedFile(movie.frames)
  \/ /\ finished /\ ~recoveringStale
     /\ UNCHANGED <<savestates, file, unsavedMovieData>>

(* LoadGameStatePhase2 of a state that is not stale: what it changes.  The *)
(* memory of the game is not touched during a recovery.                    *)
UntouchedMemory(state) == game
RestoredMemory(state) == IF recoveringStale THEN game ELSE state.game

(* A read+write load takes over the movie of the state, a read-only load   *)
(* only its position, if the current movie is long enough.                 *)
TakesMovie(records) == records \/ recoveringStale

NeverBeyondEnd(state) == FALSE
BeyondEnd(state) == state.movie.currentFrame > Len(movie.frames)

PositionBefore(state) == state.movie.currentFrame - 1
PositionOf(state) == state.movie.currentFrame

AfterLoad(state, records) ==
  LET memory == RestoredMemory(state)
      kept == [game |-> memory, movie |-> movie, playback |-> playback, finished |-> TRUE,
               paused |-> paused, parted |-> TRUE]
  IN  IF TakesMovie(records)
        THEN [kept EXCEPT !.movie = state.movie,
                          !.finished = state.movie.currentFrame > Len(state.movie.frames),
                          !.playback = recoveringStale /\ ~records,
                          !.paused = paused \/ recoveringStale,
                          !.parted = state.parted]
      ELSE IF BeyondEnd(state)
        THEN kept
      ELSE [kept EXCEPT !.movie.currentFrame = PositionOf(state),
                        !.playback = TRUE,
                        !.finished = FALSE,
                        !.parted = \/ state.parted
                                   \/ ~SameInput(movie.frames, state.movie.frames,
                                                 state.movie.currentFrame)]

(* Whether replaying `longer' passes through the state `shorter' is in.    *)
MovieStatePreceeds(shorter, longer) ==
  /\ shorter.currentFrame <= longer.currentFrame
  /\ SameInput(shorter.frames, longer.frames, shorter.currentFrame)

(* The state a recovery of `target' starts from: the current one, that of  *)
(* a slot, or a fresh start of the game.                                   *)
ContinueLength(target) == IF MovieStatePreceeds(movie, target) THEN movie.currentFrame ELSE 0
UsableSlots(target) ==
  {s \in Slots : /\ savestates[s].valid /\ ~savestates[s].stale
                 /\ savestates[s].movie.currentFrame > ContinueLength(target)
                 /\ MovieStatePreceeds(savestates[s].movie, target)}
BestSlots(target) ==
  {s \in UsableSlots(target) :
     \A t \in UsableSlots(target) :
       \/ savestates[t].movie.currentFrame < savestates[s].movie.currentFrame
       \/ savestates[t].movie.currentFrame = savestates[s].movie.currentFrame /\ s <= t}

RecoverFromSlot(target) ==
  \E best \in BestSlots(target) :
    LET after == AfterLoad(savestates[best], FALSE)
    IN  /\ game' = after.game
        /\ movie' = [after.movie EXCEPT !.frames = target.frames]
        /\ SavedFile(after.movie.frames)
        /\ playback' = TRUE
        /\ finished' = after.finished
        /\ parted' = (savestates[best].parted \/ after.finished)
        /\ UNCHANGED restarting

RecoverByContinuing(target) ==
  /\ UsableSlots(target) = {} /\ ContinueLength(target) > 0
  /\ movie' = [movie EXCEPT !.frames = target.frames]
  /\ playback' = TRUE
  /\ UNCHANGED <<game, file, unsavedMovieData, finished, restarting, parted>>

RecoverByRestarting(target) ==
  /\ UsableSlots(target) = {} /\ ContinueLength(target) = 0
  /\ restarting' = TRUE
  /\ UNCHANGED <<game, movie, file, unsavedMovieData, playback, finished, parted>>

(* RecoverStaleState, when the user agrees to it.                          *)
RecoverStaleState(s) ==
  LET target == savestates[s].movie
  IN  /\ savestates[s].stale
      /\ \/ RecoverFromSlot(target)
         \/ RecoverByContinuing(target)
         \/ RecoverByRestarting(target)
      /\ recoveringStale' = TRUE
      /\ recoveringStaleSlot' = s
      /\ recoveringStaleFrame' = target.currentFrame
      /\ paused' = FALSE

LoadGameState(s) ==
  LET after == AfterLoad(savestates[s], nextLoadRecords)
  IN  /\ ~savestates[s].stale
      /\ recoveringStale' = FALSE
      /\ game' = after.game /\ movie' = after.movie
      /\ playback' = after.playback /\ finished' = after.finished
      /\ paused' = after.paused /\ parted' = after.parted
      /\ SavedFile(after.movie.frames)
      /\ UNCHANGED <<recoveringStaleSlot, recoveringStaleFrame, restarting>>
-----------------------------------------------------------------------------
(* The command loop of FrameBoundary.                                      *)

(* A stale slot was saved (its currentFrame says) at this frame, and the   *)
(* input before this frame is the same.  The comparison reads beyond the   *)
(* end of a movie that is too short: then it may have either outcome.      *)
StaleHere(s) == savestates[s].stale /\ savestates[s].movie.currentFrame = FrameCount
Comparable(s) == Len(game) <= Len(movie.frames) /\ Len(game) <= Len(savestates[s].movie.frames)
MayMatch(s) ==
  StaleHere(s) /\ (Comparable(s) => SameInput(savestates[s].movie.frames, movie.frames, Len(game)))
MustMatch(s) == MayMatch(s) /\ Comparable(s)

RefreshSavestates ==
  /\ At("refresh")
  /\ \E s \in Slots :
       /\ MayMatch(s)
       /\ \A t \in 1 .. s - 1 : ~MustMatch(t)
       /\ SaveGameState(s)
  /\ UNCHANGED <<running, pc, game, movie, playback, finished, nextLoadRecords, paused,
                 recoverVars, restarting, parted>>

(* No slot to refresh: look whether a recovery has reached its frame.      *)
CheckHotkeys ==
  /\ At("refresh")
  /\ \A s \in Slots : ~MustMatch(s)
  /\ pc' = "hotkeys"
  /\ IF recoveringStale /\ FrameCount = recoveringStaleFrame
       THEN /\ recoveringStale' = FALSE
            /\ paused' = TRUE
            /\ playback' = ~nextLoadRecords
       ELSE UNCHANGED <<recoveringStale, paused, playback>>
  /\ UNCHANGED <<running, game, movie, file, unsavedMovieData, finished, nextLoadRecords,
                 savestates, recoveringStaleSlot, recoveringStaleFrame, restarting, parted>>

(* While paused the loop goes round.                                       *)
StayPaused ==
  /\ At("hotkeys") /\ paused
  /\ pc' = "refresh"
  /\ UNCHANGED <<running, game, movieVars, paused, savestates, recoverVars, restarting, parted>>

(* RecordLocalInputs: the frames from currentFrame on are replaced.        *)
KeptFrames(input) == Append(movie.frames, input)
Recorded(input) ==
  IF movie.currentFrame <= Len(movie.frames)
    THEN Append(SubSeq(movie.frames, 1, movie.currentFrame), input)
    ELSE movie.frames

(* The game runs one frame: record the input unless playing back, then     *)
(* inject the movie frame (InjectCurrentMovieFrame).  When the movie ends  *)
(* the input is cleared, unless it has been `finished' before.             *)
RunFrame(frames) ==
  /\ pc' = "refresh"
  /\ IF movie.currentFrame >= Len(frames)
       THEN /\ finished' = TRUE /\ parted' = TRUE
            /\ game' = Append(game, IF finished \/ ~playback THEN HeldInput ELSE NoInput)
            /\ movie' = [movie EXCEPT !.frames = frames]
       ELSE /\ game' = Append(game, frames[movie.currentFrame + 1])
            /\ movie' = [frames |-> frames, currentFrame |-> movie.currentFrame + 1]
            /\ UNCHANGED <<finished, parted>>
  /\ UNCHANGED <<running, file, playback, nextLoadRecords, paused, savestates, recoverVars,
                 restarting>>

Runs == At("hotkeys") /\ ~paused /\ Len(game) < MaxFrames

PlayFrame ==
  /\ Runs /\ playback
  /\ RunFrame(movie.frames)
  /\ UNCHANGED unsavedMovieData

RecordFrame ==
  /\ Runs /\ ~playback
  /\ \E input \in Inputs : RunFrame(Recorded(input))
  /\ unsavedMovieData' = (unsavedMovieData \/ movie.currentFrame <= Len(movie.frames))
-----------------------------------------------------------------------------
(* The user.                                                               *)
Does(action) == action \in UserActions /\ At("hotkeys")

Save(s) ==
  /\ Does("Save")
  /\ SaveGameState(s)
  /\ pc' = "refresh"
  /\ UNCHANGED <<running, game, movie, playback, finished, nextLoadRecords, paused, recoverVars,
                 restarting, parted>>

(* A slot that is not valid, or a recovery the user declines, changes      *)
(* nothing.                                                                *)
Load(s) ==
  /\ recoveringStale => Does("LoadWhileRecovering")
  /\ savestates[s].valid
  /\ \/ Does("Load") /\ LoadGameState(s)
     \/ Does("Recover") /\ RecoverStaleState(s)
  /\ pc' = "refresh"
  /\ UNCHANGED <<running, nextLoadRecords, savestates>>

ToggleReadOnly ==
  /\ Does("ToggleReadOnly")
  /\ nextLoadRecords' = ~nextLoadRecords
  /\ UNCHANGED <<running, pc, game, movie, file, unsavedMovieData, playback, finished, paused,
                 savestates, recoverVars, restarting, parted>>

TogglePause ==
  /\ Does("Pause")
  /\ paused' = ~paused
  /\ UNCHANGED <<running, pc, game, movieVars, savestates, recoverVars, restarting, parted>>

ResumeRecording ==
  /\ Does("ResumeRecording")
  /\ playback /\ ~finished
  /\ nextLoadRecords' = TRUE
  /\ playback' = FALSE
  /\ UNCHANGED <<running, pc, game, movie, file, unsavedMovieData, finished, paused, savestates,
                 recoverVars, restarting, parted>>

DropSavestates ==
  /\ \/ Does("Deallocate") /\ savestates' = [s \in Slots |-> Deallocated(savestates[s])]
     \/ Does("Delete") /\ savestates' = [s \in Slots |-> Cleared(savestates[s])]
  /\ UNCHANGED <<running, pc, game, movieVars, paused, recoverVars, restarting, parted>>

WatchMovie ==
  /\ Does("Restart")
  /\ restarting' = TRUE
  /\ UNCHANGED <<running, pc, game, movieVars, paused, savestates, recoverVars, parted>>
-----------------------------------------------------------------------------
Loop == RefreshSavestates \/ CheckHotkeys \/ StayPaused \/ PlayFrame \/ RecordFrame

User ==
  \/ \E s \in Slots : Save(s) \/ Load(s)
  \/ ToggleReadOnly \/ TogglePause \/ ResumeRecording \/ DropSavestates \/ WatchMovie

Session == RecordMovie \/ PlayMovie \/ RestartMovie \/ ("Restart" \in UserActions /\ StopMovie)

Next == Loop \/ User \/ Session

Spec == Init /\ [][Next]_vars
-----------------------------------------------------------------------------
(* Every variable has its type (wintaser.cpp:729-766, 488-595).            *)
TypeOK ==
  /\ running \in BOOLEAN /\ pc \in {"refresh", "hotkeys"}
  /\ game \in FrameSeqs /\ file \in FrameSeqs
  /\ movie \in Movies
  /\ unsavedMovieData \in BOOLEAN /\ playback \in BOOLEAN /\ finished \in BOOLEAN
  /\ nextLoadRecords \in BOOLEAN /\ paused \in BOOLEAN
  /\ savestates \in [Slots -> Savestates]
  /\ recoveringStale \in BOOLEAN
  /\ recoveringStaleSlot \in 0 .. NumSlots /\ recoveringStaleFrame \in Nat
  /\ restarting \in BOOLEAN /\ parted \in BOOLEAN

(* The position in the movie, and that of every savestate, lies within its *)
(* frames, so that no comparison of two movies up to a position and no     *)
(* injected frame reads beyond the end (wintaser.cpp:1379, 1741, 1998), in *)
(* whatever order movies are recorded, cut, reloaded and recovered.        *)
MovieInBounds ==
  /\ movie.currentFrame <= Len(movie.frames)
  /\ \A s \in Slots : savestates[s].valid =>
       savestates[s].movie.currentFrame <= Len(savestates[s].movie.frames)

(* The game has consumed exactly the input of the movie up to the current  *)
(* frame, so that playing the movie from the beginning leads to this very  *)
(* state; unless the movie has finished, or a message box has told the user*)
(* that the two differ (wintaser.cpp:1699-1756, 1963-2008).                *)
MovieReproducesGame ==
  (running /\ ~parted) => LeadsTo(movie, game)

(* The same for the savestates: the movie in a slot leads to the memory in *)
(* it, also after the movie has been rerecorded and after the slot has been*)
(* saved again by RefreshSavestates (wintaser.cpp:1333, 2015-2033).        *)
SavestatesReproduce ==
  \A s \in Slots :
    LET state == savestates[s] IN
    (state.valid /\ ~state.stale /\ ~state.parted) => LeadsTo(state.movie, state.game)

(* A state that would be loaded without replaying a movie has its memory:  *)
(* what was released, or saved from an earlier process, is never written   *)
(* into the game (wintaser.cpp:757-765, 1517-1521, 3487-3488, 4521-4523).  *)
LoadableHasMemory ==
  \A s \in Slots : (savestates[s].valid /\ ~savestates[s].stale) => savestates[s].allocated

(* "Loads game's threads and (writable) memory from the savestate of the   *)
(* given slot" (wintaser.cpp:1493-1494): after a load the game is in the   *)
(* state of the slot.                                                      *)
LoadRestoresMemory ==
  [][\A s \in Slots : (Load(s) /\ ~savestates[s].stale) => game' = savestates[s].game]_vars

(* "convert stale savestates to non-stale savestates when the current input*)
(* matches exactly" (wintaser.cpp:2013): the slot holds the state reached  *)
(* by its movie again, as it did before it became stale.                   *)
RefreshMatchesExactly ==
  [][RefreshSavestates =>
       \A s \in Slots : (savestates'[s] # savestates[s] /\ savestates[s].valid) =>
         LeadsTo(savestates[s].movie, savestates'[s].game)]_vars

(* "The only way to recover it is by playing the movie file within it"     *)
(* (wintaser.cpp:1431): the game that a recovery has started again plays   *)
(* the movie of the slot, at least up to the frame of the slot.            *)
RecoveryPlaysMovieWithin ==
  [][(RestartMovie /\ recoveringStale /\ running') =>
       SameInput(movie'.frames, savestates[recoveringStaleSlot].movie.frames,
                 recoveringStaleFrame)]_vars
=============================================================================
