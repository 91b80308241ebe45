-------------------------- MODULE Rerecording_proofs --------------------------
(***************************************************************************)
(* Proofs about Rerecording for every number of slots, set of inputs and   *)
(* choice of user actions.                                                 *)
(***************************************************************************)
EXTENDS Rerecording, SequenceTheorems, TLAPS

-----------------------------------------------------------------------------
(* Sequences of inputs.                                                    *)

(* A movie agrees with itself up to any of its frames.                     *)
LEMMA SameFrames ==
  ASSUME NEW s \in FrameSeqs, NEW n \in 0 .. Len(s)
  PROVE  SameInput(s, s, n)
  BY DEF SameInput, FrameSeqs

(* A memory that one movie leads to is led to by every movie that agrees   *)
(* with it up to the same frame.                                           *)
LEMMA LeadsToTransfers ==
  ASSUME NEW m, NEW n, NEW memory,
         LeadsTo(m, memory),
         n.currentFrame = m.currentFrame,
         SameInput(m.frames, n.frames, m.currentFrame)
  PROVE  LeadsTo(n, memory)
  BY DEF LeadsTo, SameInput

(* Playing one more frame of it.                                           *)
LEMMA LeadsToNext ==
  ASSUME NEW m, NEW memory \in FrameSeqs, NEW frames \in FrameSeqs,
         LeadsTo(m, memory),
         SameInput(m.frames, frames, Len(memory)),
         Len(memory) < Len(frames)
  PROVE  LeadsTo([frames |-> frames, currentFrame |-> Len(memory) + 1],
                 Append(memory, frames[Len(memory) + 1]))
<1> DEFINE longer == Append(memory, frames[Len(memory) + 1])
<1>1. Len(memory) \in Nat /\ Len(frames) \in Nat
  BY DEF FrameSeqs
<1>2. frames[Len(memory) + 1] \in Inputs \cup {NoInput}
  BY <1>1 DEF FrameSeqs
<1>3. /\ Len(longer) = Len(memory) + 1
      /\ \A i \in 1 .. Len(memory) : longer[i] = memory[i]
      /\ longer[Len(memory) + 1] = frames[Len(memory) + 1]
  BY <1>2, AppendProperties DEF FrameSeqs
<1>4. \A i \in 1 .. Len(memory) : memory[i] = frames[i]
  BY <1>1 DEF LeadsTo, SameInput
<1> HIDE DEF longer
<1>5. \A i \in 1 .. Len(longer) : longer[i] = frames[i]
  <2>1. ASSUME NEW i \in 1 .. Len(longer)
        PROVE  longer[i] = frames[i]
    <3>1. i \in 1 .. Len(memory) \/ i = Len(memory) + 1
      BY <1>1, <1>3
    <3> QED
      BY <1>3, <1>4, <3>1
  <2> QED
    BY <2>1
<1>6. LeadsTo([frames |-> frames, currentFrame |-> Len(memory) + 1], longer)
  BY <1>1, <1>3, <1>5 DEF LeadsTo, SameInput
<1> QED
  BY <1>6 DEF longer

(* RecordLocalInputs replaces the frames from the current one on.          *)
LEMMA RecordedFrames ==
  ASSUME movie \in Movies, NEW input \in Inputs
  PROVE  /\ Recorded(input) \in FrameSeqs
         /\ movie.currentFrame <= Len(movie.frames) =>
              /\ Len(Recorded(input)) = movie.currentFrame + 1
              /\ SameInput(movie.frames, Recorded(input), movie.currentFrame)
         /\ movie.currentFrame > Len(movie.frames) => Recorded(input) = movie.frames
<1> DEFINE cf == movie.currentFrame
           kept == SubSeq(movie.frames, 1, cf)
<1>1. movie.frames \in FrameSeqs /\ cf \in Nat /\ Len(movie.frames) \in Nat
  BY DEF Movies, FrameSeqs
<1>2. CASE cf <= Len(movie.frames)
  <2>1. \A i \in 1 .. cf : movie.frames[i] \in Inputs \cup {NoInput}
    BY <1>1, <1>2, ElementOfSeq DEF FrameSeqs
  <2>2. kept \in FrameSeqs /\ Len(kept) = cf /\ \A i \in 1 .. cf : kept[i] = movie.frames[i]
    BY <1>1, <1>2, <2>1, SubSeqProperties DEF FrameSeqs
  <2>3. Recorded(input) = Append(kept, input)
    BY <1>2 DEF Recorded
  <2> HIDE DEF kept
  <2>4. /\ Recorded(input) \in FrameSeqs /\ Len(Recorded(input)) = cf + 1
        /\ \A i \in 1 .. cf : Recorded(input)[i] = kept[i]
    BY <2>2, <2>3, AppendProperties DEF FrameSeqs
  <2> QED
    BY <1>1, <1>2, <2>2, <2>4 DEF SameInput
<1>3. CASE cf > Len(movie.frames)
  BY <1>1, <1>3 DEF Recorded
<1> QED
  BY <1>1, <1>2, <1>3

-----------------------------------------------------------------------------
(* Type correctness.                                                       *)

(* The parts of a slot have their types.                                   *)
LEMMA SlotTypes ==
  ASSUME savestates \in [Slots -> Savestates], NEW s \in Slots
  PROVE  /\ savestates[s] \in Savestates
         /\ savestates[s].movie \in Movies
         /\ savestates[s].movie.frames \in FrameSeqs
         /\ savestates[s].movie.currentFrame \in Nat
         /\ savestates[s].game \in FrameSeqs
         /\ savestates[s].parted \in BOOLEAN
  BY DEF Savestates, Movies

(* A game that has just started has consumed no input.                     *)
LEMMA EmptyFrames == <<>> \in FrameSeqs
  BY EmptySeq DEF FrameSeqs

(* The three ways of dropping all slots leave slots.                       *)
LEMMA DroppedTypes ==
  ASSUME savestates \in [Slots -> Savestates]
  PROVE  /\ [s \in Slots |-> Deallocated(savestates[s])] \in [Slots -> Savestates]
         /\ [s \in Slots |-> Cleared(savestates[s])] \in [Slots -> Savestates]
         /\ [s \in Slots |-> [savestates[s] EXCEPT !.stale = savestates[s].valid]]
              \in [Slots -> Savestates]
<1> SUFFICES ASSUME NEW s \in Slots
             PROVE  /\ Deallocated(savestates[s]) \in Savestates
                    /\ Cleared(savestates[s]) \in Savestates
                    /\ [savestates[s] EXCEPT !.stale = savestates[s].valid] \in Savestates
  OBVIOUS
<1>1. savestates[s] \in Savestates
  OBVIOUS
<1>2. Deallocated(savestates[s]) \in Savestates
  BY <1>1, EmptyFrames DEF Deallocated, Savestates
<1>3. Cleared(savestates[s]) \in Savestates
  <2>1. Deallocated(savestates[s]).movie \in Movies
    BY <1>2 DEF Savestates
  <2>2. [Deallocated(savestates[s]).movie EXCEPT !.frames = <<>>] \in Movies
    BY <2>1, EmptyFrames DEF Movies
  <2> QED
    BY <1>2, <2>2 DEF Cleared, Savestates
<1>4. [savestates[s] EXCEPT !.stale = savestates[s].valid] \in Savestates
  BY <1>1 DEF Savestates
<1> QED
  BY <1>2, <1>3, <1>4

(* What a load leaves behind, whichever branch it takes.                   *)
LEMMA AfterLoadTypes ==
  ASSUME TypeOK, NEW state \in Savestates, NEW records \in BOOLEAN
  PROVE  /\ AfterLoad(state, records).game = RestoredMemory(state)
         /\ RestoredMemory(state) \in FrameSeqs
         /\ AfterLoad(state, records).movie \in Movies
         /\ AfterLoad(state, records).playback \in BOOLEAN
         /\ AfterLoad(state, records).finished \in BOOLEAN
         /\ AfterLoad(state, records).paused \in BOOLEAN
         /\ AfterLoad(state, records).parted \in BOOLEAN
<1>1. /\ state.movie \in Movies /\ state.movie.currentFrame \in Nat
      /\ state.game \in FrameSeqs /\ state.parted \in BOOLEAN
  BY DEF Savestates, Movies
<1>2. /\ game \in FrameSeqs /\ movie \in Movies /\ playback \in BOOLEAN /\ finished \in BOOLEAN
      /\ paused \in BOOLEAN /\ parted \in BOOLEAN /\ recoveringStale \in BOOLEAN
  BY DEF TypeOK
<1>3. RestoredMemory(state) \in FrameSeqs
  BY <1>1, <1>2 DEF RestoredMemory
<1>4. [movie EXCEPT !.currentFrame = PositionOf(state)] \in Movies
  BY <1>1, <1>2 DEF Movies, PositionOf
<1>5. CASE TakesMovie(records)
  BY <1>1, <1>2, <1>3, <1>5 DEF AfterLoad
<1>6. CASE ~TakesMovie(records) /\ BeyondEnd(state)
  BY <1>1, <1>2, <1>3, <1>6 DEF AfterLoad
<1>7. CASE ~TakesMovie(records) /\ ~BeyondEnd(state)
  BY <1>1, <1>2, <1>3, <1>4, <1>7 DEF AfterLoad
<1> QED
  BY <1>5, <1>6, <1>7

(* SaveGameState writes a slot, and a file if it files the movie.          *)
LEMMA SaveTypes ==
  ASSUME TypeOK, NEW s \in Slots, SaveGameState(s)
  PROVE  /\ savestates' \in [Slots -> Savestates]
         /\ file' \in FrameSeqs
         /\ unsavedMovieData' \in BOOLEAN
<1>1. movie \in Movies /\ movie.frames \in FrameSeqs /\ game \in FrameSeqs /\ parted \in BOOLEAN
      /\ file \in FrameSeqs /\ unsavedMovieData \in BOOLEAN
      /\ savestates \in [Slots -> Savestates]
  BY DEF TypeOK, Movies
<1>2. [valid |-> TRUE, stale |-> FALSE, movie |-> MovieToSave, parted |-> parted,
       allocated |-> TRUE, game |-> game] \in Savestates
  BY <1>1 DEF Savestates, MovieToSave
<1> QED
  BY <1>1, <1>2 DEF SaveGameState, SavedFile

(* Running a frame makes the game and the movie one frame older.           *)
LEMMA RunFrameTypes ==
  ASSUME TypeOK, NEW frames \in FrameSeqs, RunFrame(frames)
  PROVE  game' \in FrameSeqs /\ movie' \in Movies /\ finished' \in BOOLEAN /\ parted' \in BOOLEAN
<1>1. /\ game \in FrameSeqs /\ movie \in Movies /\ movie.currentFrame \in Nat
      /\ finished \in BOOLEAN /\ parted \in BOOLEAN /\ Len(frames) \in Nat
  BY DEF TypeOK, Movies, FrameSeqs
<1>2. HeldInput \in Inputs \cup {NoInput}
  BY <1>1, EmptySeq, ElementOfSeq DEF HeldInput, FrameSeqs
<1>3. \A input \in Inputs \cup {NoInput} : Append(game, input) \in FrameSeqs
  BY <1>1, AppendProperties DEF FrameSeqs
<1>4. CASE movie.currentFrame >= Len(frames)
  <2>1. [movie EXCEPT !.frames = frames] \in Movies
    BY <1>1 DEF Movies
  <2> QED
    BY <1>2, <1>3, <1>4, <2>1 DEF RunFrame
<1>5. CASE ~(movie.currentFrame >= Len(frames))
  <2>1. frames[movie.currentFrame + 1] \in Inputs \cup {NoInput}
    BY <1>1, <1>5 DEF FrameSeqs
  <2>2. [frames |-> frames, currentFrame |-> movie.currentFrame + 1] \in Movies
    BY <1>1 DEF Movies
  <2> QED
    BY <1>1, <1>3, <1>5, <2>1, <2>2 DEF RunFrame
<1> QED
  BY <1>4, <1>5

(* Starting the game, or failing to.                                       *)
LEMMA StartedTypes ==
  ASSUME TypeOK, NEW frames \in FrameSeqs, Started(frames)
  PROVE  /\ running' \in BOOLEAN /\ pc' \in {"refresh", "hotkeys"}
         /\ game' \in FrameSeqs /\ movie' \in Movies
         /\ finished' \in BOOLEAN /\ parted' \in BOOLEAN
         /\ savestates' \in [Slots -> Savestates]
<1>1. [frames |-> frames, currentFrame |-> 0] \in Movies
  BY DEF Movies
<1> QED
  BY <1>1, DroppedTypes, EmptyFrames DEF Started, TypeOK

(* Playing a movie from the file, whether the file exists or not.          *)
LEMMA PlayTypes ==
  ASSUME TypeOK, NEW frames \in FrameSeqs, Play(frames)
  PROVE  /\ running' \in BOOLEAN /\ pc' \in {"refresh", "hotkeys"}
         /\ game' \in FrameSeqs /\ movie' \in Movies
         /\ finished' \in BOOLEAN /\ parted' \in BOOLEAN
         /\ savestates' \in [Slots -> Savestates]
         /\ playback' \in BOOLEAN /\ nextLoadRecords' \in BOOLEAN
<1>1. NewMovie \in Movies
  BY EmptyFrames DEF NewMovie, Movies
<1>2. CASE frames = <<>>
  BY <1>1, <1>2, DroppedTypes DEF Play, TypeOK
<1>3. CASE frames # <<>>
  BY <1>3, StartedTypes DEF Play
<1> QED
  BY <1>2, <1>3

(* A recovery, from another slot or by restarting the game.                *)
LEMMA RecoverTypes ==
  ASSUME TypeOK, NEW s \in Slots, RecoverStaleState(s)
  PROVE  /\ game' \in FrameSeqs /\ movie' \in Movies /\ file' \in FrameSeqs
         /\ unsavedMovieData' \in BOOLEAN /\ playback' \in BOOLEAN
         /\ finished' \in BOOLEAN /\ parted' \in BOOLEAN /\ paused' \in BOOLEAN
         /\ recoveringStale' \in BOOLEAN /\ recoveringStaleSlot' \in 0 .. NumSlots
         /\ recoveringStaleFrame' \in Nat /\ restarting' \in BOOLEAN
<1> DEFINE target == savestates[s].movie
<1>1. target \in Movies /\ target.frames \in FrameSeqs /\ target.currentFrame \in Nat
  BY SlotTypes DEF TypeOK
<1>2. /\ paused' \in BOOLEAN /\ recoveringStale' \in BOOLEAN
      /\ recoveringStaleSlot' \in 0 .. NumSlots /\ recoveringStaleFrame' \in Nat
  <2>1. /\ recoveringStale' = TRUE /\ recoveringStaleSlot' = s
        /\ recoveringStaleFrame' = target.currentFrame /\ paused' = FALSE
    BY Zenon DEF RecoverStaleState
  <2>2. s \in 0 .. NumSlots
    BY SlotAssumption DEF Slots
  <2> QED
    BY <1>1, <2>1, <2>2, Zenon
<1> HIDE DEF target
<1>3. CASE RecoverFromSlot(target)
  <2>1. PICK best \in BestSlots(target) :
          LET after == AfterLoad(savestates[best], FALSE)
          IN  /\ game' = after.game
              /\ movie' = [after.movie EXCEPT !.frames = target.frames]
              /\ SavedFile(after.movie.frames)
              /\ playback' = TRUE
              /\ finished' = after.finished
              /\ parted' = (savestates[best].parted \/ after.finished)
              /\ UNCHANGED restarting
    BY <1>3 DEF RecoverFromSlot
  <2> DEFINE after == AfterLoad(savestates[best], FALSE)
  <2>2. best \in Slots
    BY DEF BestSlots, UsableSlots
  <2>3. savestates[best] \in Savestates
    BY <2>2 DEF TypeOK
  <2>4. /\ after.game \in FrameSeqs /\ after.movie \in Movies /\ after.finished \in BOOLEAN
    BY <2>3, AfterLoadTypes
  <2> HIDE DEF after
  <2>5. after.movie.frames \in FrameSeqs /\ [after.movie EXCEPT !.frames = target.frames] \in Movies
    BY <1>1, <2>4 DEF Movies
  <2> QED
    BY <1>2, <2>1, <2>4, <2>5 DEF SavedFile, TypeOK, after
<1>4. CASE RecoverByContinuing(target)
  <2>1. [movie EXCEPT !.frames = target.frames] \in Movies
    BY <1>1 DEF TypeOK, Movies
  <2> QED
    BY <1>2, <1>4, <2>1 DEF RecoverByContinuing, TypeOK
<1>5. CASE RecoverByRestarting(target)
  BY <1>2, <1>5 DEF RecoverByRestarting, TypeOK
<1> QED
  BY <1>3, <1>4, <1>5 DEF RecoverStaleState, target

(* A load, of a slot of any state.                                         *)
LEMMA LoadTypes ==
  ASSUME TypeOK, NEW s \in Slots, LoadGameState(s)
  PROVE  /\ game' \in FrameSeqs /\ movie' \in Movies /\ file' \in FrameSeqs
         /\ unsavedMovieData' \in BOOLEAN /\ playback' \in BOOLEAN
         /\ finished' \in BOOLEAN /\ parted' \in BOOLEAN /\ paused' \in BOOLEAN
         /\ recoveringStale' \in BOOLEAN /\ recoveringStaleSlot' \in 0 .. NumSlots
         /\ recoveringStaleFrame' \in Nat /\ restarting' \in BOOLEAN
<1> DEFINE after == AfterLoad(savestates[s], nextLoadRecords)
<1>1. savestates[s] \in Savestates /\ nextLoadRecords \in BOOLEAN
  BY DEF TypeOK
<1>2. /\ after.game \in FrameSeqs /\ after.movie \in Movies /\ after.playback \in BOOLEAN
      /\ after.finished \in BOOLEAN /\ after.paused \in BOOLEAN /\ after.parted \in BOOLEAN
  BY <1>1, AfterLoadTypes
<1>3. after.movie.frames \in FrameSeqs
  BY <1>2 DEF Movies
<1>4. /\ game' = after.game /\ movie' = after.movie /\ playback' = after.playback
      /\ finished' = after.finished /\ paused' = after.paused /\ parted' = after.parted
      /\ SavedFile(after.movie.frames)
      /\ recoveringStale' = FALSE
      /\ UNCHANGED <<recoveringStaleSlot, recoveringStaleFrame, restarting>>
  BY DEF LoadGameState
<1> HIDE DEF after
<1> QED
  BY <1>2, <1>3, <1>4 DEF SavedFile, TypeOK

(* TypeOK is inductive as it stands: one case for each action.             *)
LEMMA TypeStep ==
  ASSUME TypeOK, [Next]_vars
  PROVE  TypeOK'
<1>1. CASE UNCHANGED vars
  BY <1>1 DEF vars, movieVars, recoverVars, TypeOK
<1>2. CASE RefreshSavestates
  BY <1>2, SaveTypes DEF RefreshSavestates, TypeOK, recoverVars
<1>3. CASE CheckHotkeys
  BY <1>3 DEF CheckHotkeys, TypeOK
<1>4. CASE StayPaused
  BY <1>4 DEF StayPaused, TypeOK, movieVars, recoverVars
<1>5. CASE PlayFrame
  <2>1. movie.frames \in FrameSeqs
    BY DEF TypeOK, Movies
  <2>2. RunFrame(movie.frames) /\ UNCHANGED unsavedMovieData
    BY <1>5 DEF PlayFrame
  <2>3. game' \in FrameSeqs /\ movie' \in Movies /\ finished' \in BOOLEAN /\ parted' \in BOOLEAN
    BY <2>1, <2>2, RunFrameTypes
  <2> QED
    BY <2>2, <2>3 DEF RunFrame, TypeOK, recoverVars
<1>6. CASE RecordFrame
  <2>1. PICK input \in Inputs : RunFrame(Recorded(input))
    BY <1>6 DEF RecordFrame
  <2>2. Recorded(input) \in FrameSeqs
    BY RecordedFrames DEF TypeOK
  <2>3. game' \in FrameSeqs /\ movie' \in Movies /\ finished' \in BOOLEAN /\ parted' \in BOOLEAN
    BY <2>1, <2>2, RunFrameTypes
  <2>4. unsavedMovieData' \in BOOLEAN
    BY <1>6 DEF RecordFrame, TypeOK
  <2> QED
    BY <2>1, <2>3, <2>4 DEF RunFrame, TypeOK, recoverVars
<1>7. ASSUME NEW s \in Slots, Save(s)
      PROVE  TypeOK'
  BY <1>7, SaveTypes DEF Save, TypeOK, recoverVars
<1>8. ASSUME NEW s \in Slots, Load(s)
      PROVE  TypeOK'
  <2>1. /\ game' \in FrameSeqs /\ movie' \in Movies /\ file' \in FrameSeqs
        /\ unsavedMovieData' \in BOOLEAN /\ playback' \in BOOLEAN
        /\ finished' \in BOOLEAN /\ parted' \in BOOLEAN /\ paused' \in BOOLEAN
        /\ recoveringStale' \in BOOLEAN /\ recoveringStaleSlot' \in 0 .. NumSlots
        /\ recoveringStaleFrame' \in Nat /\ restarting' \in BOOLEAN
    BY <1>8, LoadTypes, RecoverTypes, Zenon DEF Load
  <2> QED
    BY <1>8, <2>1 DEF Load, TypeOK
<1>9. CASE ToggleReadOnly
  BY <1>9 DEF ToggleReadOnly, TypeOK, recoverVars
<1>10. CASE TogglePause
  BY <1>10 DEF TogglePause, TypeOK, movieVars, recoverVars
<1>11. CASE ResumeRecording
  BY <1>11 DEF ResumeRecording, TypeOK, recoverVars
<1>12. CASE DropSavestates
  BY <1>12, DroppedTypes DEF DropSavestates, TypeOK, movieVars, recoverVars
<1>13. CASE WatchMovie
  BY <1>13 DEF WatchMovie, TypeOK, movieVars, recoverVars
<1>14. CASE RecordMovie
  BY <1>14, StartedTypes, EmptyFrames DEF RecordMovie, TypeOK, recoverVars
<1>15. CASE PlayMovie
  <2>1. file \in FrameSeqs
    BY DEF TypeOK
  <2> QED
    BY <1>15, <2>1, PlayTypes DEF PlayMovie, TypeOK, recoverVars
<1>16. CASE RestartMovie
  <2>1. movie.frames \in FrameSeqs /\ file \in FrameSeqs
    BY DEF TypeOK, Movies
  <2>2. CASE running
    <3> DEFINE frames == IF unsavedMovieData THEN movie.frames ELSE file
    <3>1. frames \in FrameSeqs
      BY <2>1
    <3>2. Play(frames) /\ SavedFile(movie.frames)
      BY <1>16, <2>2 DEF RestartMovie
    <3> HIDE DEF frames
    <3> QED
      BY <1>16, <2>1, <3>1, <3>2, PlayTypes DEF RestartMovie, SavedFile, TypeOK, recoverVars
  <2>3. CASE ~running
    BY <1>16, <2>3 DEF RestartMovie, TypeOK, movieVars, recoverVars
  <2> QED
    BY <2>2, <2>3
<1>17. CASE StopMovie
  <2>1. movie.frames \in FrameSeqs
    BY DEF TypeOK, Movies
  <2>2. file' \in FrameSeqs /\ unsavedMovieData' \in BOOLEAN
    BY <1>17, <2>1 DEF StopMovie, SavedFile, TypeOK
  <2> QED
    BY <1>17, <2>2, DroppedTypes DEF StopMovie, TypeOK
<1> QED
  BY <1>1, <1>2, <1>3, <1>4, <1>5, <1>6, <1>7, <1>8, <1>9, <1>10, <1>11, <1>12, <1>13, <1>14,
     <1>15, <1>16, <1>17 DEF Next, Loop, User, Session

(* Every reachable state has its types: among others, no position and no   *)
(* frame of a recovery is ever negative, and every slot that is refreshed, *)
(* loaded or recovered is a slot (wintaser.cpp:729-766).                   *)
THEOREM TypeCorrect == Spec => []TypeOK
<1>1. Init => TypeOK
  <2>1. NewMovie \in Movies
    BY EmptyFrames DEF NewMovie, Movies
  <2>2. [valid |-> FALSE, stale |-> FALSE, movie |-> NewMovie, parted |-> FALSE,
         allocated |-> FALSE, game |-> <<>>] \in Savestates
    BY <2>1, EmptyFrames DEF Savestates
  <2>3. 0 \in 0 .. NumSlots /\ 0 \in Nat
    BY SlotAssumption
  <2> QED
    BY <2>1, <2>2, <2>3, EmptyFrames DEF Init, TypeOK
<1> QED
  BY <1>1, TypeStep, PTL DEF Spec

-----------------------------------------------------------------------------
(* Savestates.                                                             *)

Snapshot == [valid |-> TRUE, stale |-> FALSE, movie |-> MovieToSave, parted |-> parted,
             allocated |-> TRUE, game |-> game]
AllDeallocated == [s \in Slots |-> Deallocated(savestates[s])]
AllCleared     == [s \in Slots |-> Cleared(savestates[s])]
AllStale       == [s \in Slots |-> [savestates[s] EXCEPT !.stale = savestates[s].valid]]

(* All that a step does to the slots.                                      *)
LEMMA SlotsChange ==
  ASSUME [Next]_vars
  PROVE  \/ savestates' = savestates
         \/ running /\ \E s \in Slots : savestates' = [savestates EXCEPT ![s] = Snapshot]
         \/ savestates' \in {AllDeallocated, AllCleared, AllStale}
<1>1. CASE RefreshSavestates
  BY <1>1 DEF RefreshSavestates, SaveGameState, Snapshot, At
<1>2. ASSUME NEW s \in Slots, Save(s)
      PROVE  \/ savestates' = savestates
             \/ running /\ savestates' = [savestates EXCEPT ![s] = Snapshot]
  BY <1>2 DEF Save, SaveGameState, Snapshot, Does, At
<1>3. CASE DropSavestates
  BY <1>3 DEF DropSavestates, AllDeallocated, AllCleared
<1>4. ASSUME NEW frames, Play(frames)
      PROVE  savestates' \in {AllDeallocated, AllStale}
  BY <1>4 DEF Play, Started, AllDeallocated, AllStale
<1>5. CASE RecordMovie \/ StopMovie
  BY <1>5 DEF RecordMovie, Started, StopMovie, AllDeallocated, AllStale
<1>6. CASE PlayMovie
  BY <1>4, <1>6 DEF PlayMovie
<1>7. CASE RestartMovie
  BY <1>4, <1>7 DEF RestartMovie
<1>8. CASE UNCHANGED vars
  BY <1>8 DEF vars
<1>9. CASE CheckHotkeys \/ StayPaused \/ PlayFrame \/ RecordFrame
  BY <1>9 DEF CheckHotkeys, StayPaused, PlayFrame, RecordFrame, RunFrame
<1>10. CASE (\E s \in Slots : Load(s)) \/ ToggleReadOnly \/ TogglePause \/ ResumeRecording \/ WatchMovie
  BY <1>10 DEF Load, ToggleReadOnly, TogglePause, ResumeRecording, WatchMovie
<1> QED
  BY <1>1, <1>2, <1>3, <1>5, <1>6, <1>7, <1>8, <1>9, <1>10 DEF Next, Loop, User, Session

(* No way of dropping all slots makes one loadable that was not.           *)
LEMMA DroppedSlots ==
  ASSUME TypeOK, NEW s \in Slots
  PROVE  /\ AllDeallocated[s].stale
         /\ ~AllCleared[s].valid
         /\ AllStale[s].valid => AllStale[s].stale
<1>1. savestates[s] \in Savestates
  BY DEF TypeOK
<1>2. Deallocated(savestates[s]) \in Savestates /\ Deallocated(savestates[s]).stale
  BY <1>1, EmptyFrames DEF Deallocated, Savestates
<1>3. ~Cleared(savestates[s]).valid
  BY <1>2 DEF Cleared, Savestates
<1>4. [savestates[s] EXCEPT !.stale = savestates[s].valid].valid =>
        [savestates[s] EXCEPT !.stale = savestates[s].valid].stale
  BY <1>1 DEF Savestates
<1> QED
  BY <1>2, <1>3, <1>4 DEF AllDeallocated, AllCleared, AllStale

(* LoadableHasMemory is inductive, since a step changes slots only as in   *)
(* SlotsChange.                                                            *)
LEMMA LoadableStep ==
  ASSUME TypeOK, LoadableHasMemory, [Next]_vars
  PROVE  LoadableHasMemory'
<1> SUFFICES ASSUME NEW s \in Slots, savestates'[s].valid, ~savestates'[s].stale
             PROVE  savestates'[s].allocated
  BY DEF LoadableHasMemory
<1>1. CASE savestates' = savestates
  BY <1>1 DEF LoadableHasMemory
<1>2. ASSUME NEW t \in Slots, savestates' = [savestates EXCEPT ![t] = Snapshot]
      PROVE  savestates'[s].allocated
  <2>1. savestates'[s] = IF s = t THEN Snapshot ELSE savestates[s]
    BY <1>2 DEF TypeOK
  <2>2. CASE s = t
    BY <2>1, <2>2 DEF Snapshot
  <2>3. CASE s # t
    BY <2>1, <2>3 DEF LoadableHasMemory
  <2> QED
    BY <2>2, <2>3
<1>3. CASE savestates' \in {AllDeallocated, AllCleared, AllStale}
  BY <1>3, DroppedSlots
<1> QED
  BY <1>1, <1>2, <1>3, SlotsChange

(* Whatever the user does with any number of slots, in whatever order, a   *)
(* state that is loaded without a recovery has the memory it was saved     *)
(* with (wintaser.cpp:757-765, 1515-1521, 3487-3488).                      *)
THEOREM LoadableHasMemoryCorrect == Spec => []LoadableHasMemory
<1>1. Init => LoadableHasMemory
  BY DEF Init, LoadableHasMemory
<1>2. TypeOK /\ LoadableHasMemory /\ [Next]_vars => LoadableHasMemory'
  BY LoadableStep
<1> QED
  BY <1>1, <1>2, TypeCorrect, PTL DEF Spec

-----------------------------------------------------------------------------
(* The movie reproduces the game.  Neither of the two properties is        *)
(* inductive alone: a slot takes over what the game and its movie are, and *)
(* a load gives it back.                                                   *)

Reproduces == MovieReproducesGame /\ SavestatesReproduce

(* A step keeps every slot reproducible: only a save writes its memory.    *)
LEMMA SavestatesStep ==
  ASSUME TypeOK, Reproduces, [Next]_vars
  PROVE  SavestatesReproduce'
<1> SUFFICES ASSUME NEW s \in Slots,
                    savestates'[s].valid, ~savestates'[s].stale, ~savestates'[s].parted
             PROVE  LeadsTo(savestates'[s].movie, savestates'[s].game)
  BY DEF SavestatesReproduce
<1>1. CASE savestates' = savestates
  BY <1>1 DEF Reproduces, SavestatesReproduce
<1>2. ASSUME running, NEW t \in Slots, savestates' = [savestates EXCEPT ![t] = Snapshot]
      PROVE  LeadsTo(savestates'[s].movie, savestates'[s].game)
  <2>1. savestates'[s] = IF s = t THEN Snapshot ELSE savestates[s]
    BY <1>2 DEF TypeOK
  <2>2. CASE s = t
    <3>1. savestates'[s] = Snapshot
      BY <2>1, <2>2
    <3>2. Snapshot.movie = movie /\ Snapshot.game = game /\ Snapshot.parted = parted
      BY DEF Snapshot, MovieToSave
    <3> QED
      BY <1>2, <3>1, <3>2 DEF Reproduces, MovieReproducesGame
  <2>3. CASE s # t
    BY <2>1, <2>3 DEF Reproduces, SavestatesReproduce
  <2> QED
    BY <2>2, <2>3
<1>3. CASE savestates' \in {AllDeallocated, AllCleared, AllStale}
  BY <1>3, DroppedSlots
<1> QED
  BY <1>1, <1>2, <1>3, SlotsChange

(* A frame is run: recorded, or played back.                               *)
LEMMA RunFrameReproduces ==
  ASSUME TypeOK, MovieReproducesGame, running, NEW frames \in FrameSeqs, RunFrame(frames),
         movie.currentFrame <= Len(movie.frames) =>
           SameInput(movie.frames, frames, movie.currentFrame)
  PROVE  ~parted' => LeadsTo(movie', game')
<1> SUFFICES ASSUME ~parted'
             PROVE  LeadsTo(movie', game')
  OBVIOUS
<1>1. movie.currentFrame < Len(frames)
  <2>1. movie.currentFrame \in Nat /\ Len(frames) \in Nat
    BY DEF TypeOK, Movies, FrameSeqs
  <2>2. ~(movie.currentFrame >= Len(frames))
    BY DEF RunFrame
  <2> QED
    BY <2>1, <2>2
<1>2. ~(movie.currentFrame >= Len(frames))
  BY DEF RunFrame
<1>3. /\ game' = Append(game, frames[movie.currentFrame + 1])
      /\ movie' = [frames |-> frames, currentFrame |-> movie.currentFrame + 1]
      /\ parted' = parted
  BY <1>2 DEF RunFrame
<1>4. LeadsTo(movie, game) /\ game \in FrameSeqs
  BY <1>3 DEF MovieReproducesGame, TypeOK
<1>5. Len(game) = movie.currentFrame /\ movie.currentFrame <= Len(movie.frames)
  BY <1>4 DEF LeadsTo, SameInput
<1>6. LeadsTo([frames |-> frames, currentFrame |-> Len(game) + 1],
              Append(game, frames[Len(game) + 1]))
  BY <1>1, <1>4, <1>5, LeadsToNext
<1> QED
  BY <1>3, <1>5, <1>6

(* A state is loaded while none is being recovered.                        *)
LEMMA LoadReproduces ==
  ASSUME TypeOK, SavestatesReproduce, ~recoveringStale,
         NEW s \in Slots, savestates[s].valid, ~savestates[s].stale, NEW records \in BOOLEAN,
         ~AfterLoad(savestates[s], records).parted
  PROVE  LeadsTo(AfterLoad(savestates[s], records).movie, AfterLoad(savestates[s], records).game)
<1> DEFINE state == savestates[s]
           after == AfterLoad(state, records)
<1>1. state.movie \in Movies /\ state.parted \in BOOLEAN /\ movie \in Movies
  BY SlotTypes DEF TypeOK
<1>2. after.game = state.game
  BY DEF AfterLoad, RestoredMemory
<1>3. ~state.parted => LeadsTo(state.movie, state.game)
  BY DEF SavestatesReproduce
<1> HIDE DEF state
<1>4. CASE TakesMovie(records)
  <2>1. after.movie = state.movie /\ after.parted = state.parted
    BY <1>4 DEF AfterLoad
  <2> QED
    BY <1>2, <1>3, <2>1 DEF state
<1>5. CASE ~TakesMovie(records) /\ BeyondEnd(state)
  <2>1. after.parted = TRUE
    BY <1>5 DEF AfterLoad
  <2> QED
    BY <2>1 DEF state
<1>6. CASE ~TakesMovie(records) /\ ~BeyondEnd(state)
  <2>1. /\ after.movie = [movie EXCEPT !.currentFrame = PositionOf(state)]
        /\ after.parted = (\/ state.parted
                           \/ ~SameInput(movie.frames, state.movie.frames,
                                         state.movie.currentFrame))
    BY <1>6 DEF AfterLoad
  <2>2. /\ after.movie.frames = movie.frames
        /\ after.movie.currentFrame = state.movie.currentFrame
    BY <1>1, <2>1 DEF Movies, PositionOf
  <2> HIDE DEF after
  <2>3. ~after.parted
    BY DEF after, state
  <2>4. ~state.parted /\ SameInput(movie.frames, state.movie.frames, state.movie.currentFrame)
    BY <2>1, <2>3
  <2>5. SameInput(state.movie.frames, after.movie.frames, state.movie.currentFrame)
    BY <2>2, <2>4 DEF SameInput
  <2>6. LeadsTo(after.movie, state.game)
    BY <1>3, <2>2, <2>4, <2>5, LeadsToTransfers
  <2> QED
    BY <1>2, <2>6 DEF after, state
<1> QED
  BY <1>4, <1>5, <1>6

(* A recovery begins: the state it starts from agrees with the movie of the*)
(* target up to its frame.                                                 *)
LEMMA RecoverReproduces ==
  ASSUME TypeOK, Reproduces, running, ~recoveringStale,
         NEW target \in Movies,
         RecoverFromSlot(target) \/ RecoverByContinuing(target) \/ RecoverByRestarting(target)
  PROVE  ~parted' => LeadsTo(movie', game')
<1> SUFFICES ASSUME ~parted'
             PROVE  LeadsTo(movie', game')
  OBVIOUS
<1>1. CASE RecoverFromSlot(target)
  <2>1. PICK best \in BestSlots(target) :
          LET after == AfterLoad(savestates[best], FALSE)
          IN  /\ game' = after.game
              /\ movie' = [after.movie EXCEPT !.frames = target.frames]
              /\ SavedFile(after.movie.frames)
              /\ playback' = TRUE
              /\ finished' = after.finished
              /\ parted' = (savestates[best].parted \/ after.finished)
              /\ UNCHANGED restarting
    BY <1>1 DEF RecoverFromSlot
  <2> DEFINE state == savestates[best]
             after == AfterLoad(state, FALSE)
  <2>2. /\ best \in Slots /\ state.valid /\ ~state.stale
        /\ SameInput(state.movie.frames, target.frames, state.movie.currentFrame)
    BY DEF BestSlots, UsableSlots, MovieStatePreceeds
  <2>3. state \in Savestates /\ movie \in Movies
    BY <2>2 DEF TypeOK
  <2>4. after.game = state.game /\ after.movie \in Movies
    <3>1. after.game = RestoredMemory(state) /\ after.movie \in Movies
      BY <2>3, AfterLoadTypes
    <3> QED
      BY <3>1 DEF RestoredMemory
  <2>5. ~state.parted /\ ~after.finished
    BY <2>1
  <2>6. LeadsTo(state.movie, state.game)
    BY <2>2, <2>5 DEF Reproduces, SavestatesReproduce
  <2> HIDE DEF state
  <2>7. ~TakesMovie(FALSE)
    BY DEF TakesMovie
  <2>8. ~BeyondEnd(state)
    BY <2>5, <2>7 DEF AfterLoad
  <2>9. after.movie = [movie EXCEPT !.currentFrame = PositionOf(state)]
    BY <2>7, <2>8 DEF AfterLoad
  <2>10. after.movie.currentFrame = state.movie.currentFrame
    BY <2>3, <2>9 DEF Movies, PositionOf
  <2>11. game' = after.game /\ movie' = [after.movie EXCEPT !.frames = target.frames]
    BY <2>1 DEF state
  <2> HIDE DEF after
  <2>12. movie'.frames = target.frames /\ movie'.currentFrame = state.movie.currentFrame
    BY <2>4, <2>10, <2>11 DEF Movies
  <2>13. SameInput(state.movie.frames, movie'.frames, state.movie.currentFrame)
    BY <2>2, <2>12 DEF state
  <2>14. LeadsTo(movie', state.game)
    BY <2>6, <2>12, <2>13, LeadsToTransfers
  <2> QED
    BY <2>4, <2>11, <2>14
<1>2. CASE RecoverByContinuing(target)
  <2>1. /\ movie' = [movie EXCEPT !.frames = target.frames]
        /\ ContinueLength(target) > 0
        /\ UNCHANGED <<game, parted>>
    BY <1>2 DEF RecoverByContinuing
  <2>2. MovieStatePreceeds(movie, target)
    BY <2>1 DEF ContinueLength
  <2>3. movie'.frames = target.frames /\ movie'.currentFrame = movie.currentFrame
    BY <2>1 DEF TypeOK, Movies
  <2>4. LeadsTo(movie, game)
    BY <2>1 DEF Reproduces, MovieReproducesGame
  <2>5. SameInput(movie.frames, movie'.frames, movie.currentFrame)
    BY <2>2, <2>3 DEF MovieStatePreceeds
  <2>6. LeadsTo(movie', game)
    BY <2>3, <2>4, <2>5, LeadsToTransfers
  <2> QED
    BY <2>1, <2>6
<1>3. CASE RecoverByRestarting(target)
  BY <1>3 DEF RecoverByRestarting, Reproduces, MovieReproducesGame
<1> QED
  BY <1>1, <1>2, <1>3

(* At its start the game has consumed nothing and the movie is at 0.       *)
LEMMA StartReproduces ==
  ASSUME NEW frames \in FrameSeqs, Started(frames)
  PROVE  LeadsTo(movie', game')
<1>1. Len(<<>>) = 0 /\ 0 <= Len(frames)
  BY EmptySeq DEF FrameSeqs
<1> QED
  BY <1>1 DEF Started, LeadsTo, SameInput

(* A step keeps movie and game together: one case for each action.         *)
LEMMA MovieStep ==
  ASSUME "LoadWhileRecovering" \notin UserActions, TypeOK, Reproduces, [Next]_vars
  PROVE  MovieReproducesGame'
<1> SUFFICES ASSUME running', ~parted'
             PROVE  LeadsTo(movie', game')
  BY DEF MovieReproducesGame
<1>1. CASE UNCHANGED <<running, game, movie, parted>>
  BY <1>1 DEF Reproduces, MovieReproducesGame
<1>2. CASE PlayFrame
  <2>1. running /\ RunFrame(movie.frames) /\ movie.frames \in FrameSeqs
    BY <1>2 DEF PlayFrame, Runs, At, TypeOK, Movies
  <2>2. movie.currentFrame <= Len(movie.frames) =>
          SameInput(movie.frames, movie.frames, movie.currentFrame)
    BY <2>1, SameFrames DEF TypeOK, Movies, FrameSeqs
  <2> QED
    BY <2>1, <2>2, RunFrameReproduces DEF Reproduces
<1>3. CASE RecordFrame
  <2>1. PICK input \in Inputs : RunFrame(Recorded(input))
    BY <1>3 DEF RecordFrame
  <2>2. running
    BY <1>3 DEF RecordFrame, Runs, At
  <2>3. /\ Recorded(input) \in FrameSeqs
        /\ movie.currentFrame <= Len(movie.frames) =>
             SameInput(movie.frames, Recorded(input), movie.currentFrame)
    BY RecordedFrames DEF TypeOK
  <2> QED
    BY <2>1, <2>2, <2>3, RunFrameReproduces DEF Reproduces
<1>4. ASSUME NEW s \in Slots, Load(s)
      PROVE  LeadsTo(movie', game')
  <2>1. ~recoveringStale /\ savestates[s].valid /\ running
    BY <1>4 DEF Load, Does, At
  <2>2. CASE LoadGameState(s)
    <3>1. /\ ~savestates[s].stale
          /\ game' = AfterLoad(savestates[s], nextLoadRecords).game
          /\ movie' = AfterLoad(savestates[s], nextLoadRecords).movie
          /\ parted' = AfterLoad(savestates[s], nextLoadRecords).parted
      BY <2>2 DEF LoadGameState
    <3>2. nextLoadRecords \in BOOLEAN
      BY DEF TypeOK
    <3> QED
      BY <2>1, <3>1, <3>2, LoadReproduces DEF Reproduces
  <2>3. CASE RecoverStaleState(s)
    <3>1. savestates[s].movie \in Movies
      BY SlotTypes DEF TypeOK
    <3> QED
      BY <2>1, <2>3, <3>1, RecoverReproduces DEF RecoverStaleState
  <2> QED
    BY <1>4, <2>2, <2>3 DEF Load
<1>5. ASSUME NEW frames \in FrameSeqs, Play(frames)
      PROVE  LeadsTo(movie', game')
  <2>1. frames # <<>>
    BY <1>5 DEF Play
  <2> QED
    BY <1>5, <2>1, StartReproduces DEF Play
<1>6. CASE RecordMovie
  BY <1>6, EmptyFrames, StartReproduces DEF RecordMovie
<1>7. CASE PlayMovie
  BY <1>5, <1>7 DEF PlayMovie, TypeOK
<1>8. CASE RestartMovie
  <2>1. movie.frames \in FrameSeqs /\ file \in FrameSeqs
    BY DEF TypeOK, Movies
  <2>2. CASE running
    BY <1>5, <1>8, <2>1, <2>2 DEF RestartMovie
  <2>3. CASE ~running
    BY <1>8, <2>3 DEF RestartMovie
  <2> QED
    BY <2>2, <2>3
<1>9. CASE StopMovie
  BY <1>9 DEF StopMovie
<1>10. CASE RefreshSavestates \/ CheckHotkeys \/ StayPaused \/ (\E s \in Slots : Save(s))
  BY <1>1, <1>10 DEF RefreshSavestates, CheckHotkeys, StayPaused, Save, movieVars, recoverVars
<1>11. CASE ToggleReadOnly \/ TogglePause \/ ResumeRecording \/ DropSavestates \/ WatchMovie
  BY <1>1, <1>11 DEF ToggleReadOnly, TogglePause, ResumeRecording, DropSavestates, WatchMovie,
     movieVars
<1>12. CASE UNCHANGED vars
  BY <1>1, <1>12 DEF vars, movieVars
<1> QED
  BY <1>2, <1>3, <1>4, <1>6, <1>7, <1>8, <1>9, <1>10, <1>11, <1>12
  DEF Next, Loop, User, Session

(* The promise of a movie: as long as no message has told the user that    *)
(* movie and game have parted, playing the movie from the beginning leads  *)
(* to the state the game is in, for any number of slots and any order of   *)
(* recording, saving, loading, refreshing and recovering.  The one thing   *)
(* the user must not do is load a state during a recovery                  *)
(* (wintaser.cpp:1385-1491, 1697-1757, 1924-2009).                         *)
THEOREM MovieReproducesGameCorrect ==
  "LoadWhileRecovering" \notin UserActions => (Spec => []MovieReproducesGame)
<1> SUFFICES ASSUME "LoadWhileRecovering" \notin UserActions
             PROVE  Spec => []MovieReproducesGame
  OBVIOUS
<1>1. Init => Reproduces
  BY DEF Init, Reproduces, MovieReproducesGame, SavestatesReproduce
<1>2. TypeOK /\ Reproduces /\ [Next]_vars => Reproduces'
  BY MovieStep, SavestatesStep DEF Reproduces
<1>3. Reproduces => MovieReproducesGame
  BY DEF Reproduces
<1> QED
  BY <1>1, <1>2, <1>3, TypeCorrect, PTL DEF Spec

(* The same promise of every savestate: the movie in it leads to the memory*)
(* in it (wintaser.cpp:1333-1344, 2015-2033).                              *)
THEOREM SavestatesReproduceCorrect ==
  "LoadWhileRecovering" \notin UserActions => (Spec => []SavestatesReproduce)
<1> SUFFICES ASSUME "LoadWhileRecovering" \notin UserActions
             PROVE  Spec => []SavestatesReproduce
  OBVIOUS
<1>1. Init => Reproduces
  BY DEF Init, Reproduces, MovieReproducesGame, SavestatesReproduce
<1>2. TypeOK /\ Reproduces /\ [Next]_vars => Reproduces'
  BY MovieStep, SavestatesStep DEF Reproduces
<1>3. Reproduces => SavestatesReproduce
  BY DEF Reproduces
<1> QED
  BY <1>1, <1>2, <1>3, TypeCorrect, PTL DEF Spec

-----------------------------------------------------------------------------
(* The position in the movie.                                              *)

InBounds(aMovie) == aMovie.currentFrame <= Len(aMovie.frames)

(* Dropping all slots keeps the movie of every slot that stays valid.      *)
LEMMA DroppedMovies ==
  ASSUME TypeOK, NEW s \in Slots
  PROVE  /\ AllDeallocated[s].valid = savestates[s].valid
         /\ AllDeallocated[s].movie = savestates[s].movie
         /\ ~AllCleared[s].valid
         /\ AllStale[s].valid = savestates[s].valid
         /\ AllStale[s].movie = savestates[s].movie
<1>1. savestates[s] \in Savestates
  BY DEF TypeOK
<1>2. /\ Deallocated(savestates[s]).valid = savestates[s].valid
      /\ Deallocated(savestates[s]).movie = savestates[s].movie
  BY <1>1 DEF Deallocated, Savestates
<1>3. /\ AllStale[s].valid = savestates[s].valid
      /\ AllStale[s].movie = savestates[s].movie
  BY <1>1 DEF AllStale, Savestates
<1> QED
  BY <1>2, <1>3, DroppedSlots DEF AllDeallocated

(* No step leaves a slot with a position beyond the end of its movie.      *)
LEMMA SlotsInBounds ==
  ASSUME TypeOK, MovieInBounds, [Next]_vars, NEW s \in Slots, savestates'[s].valid
  PROVE  InBounds(savestates'[s].movie)
<1>1. CASE savestates' = savestates
  BY <1>1 DEF MovieInBounds, InBounds
<1>2. ASSUME NEW t \in Slots, savestates' = [savestates EXCEPT ![t] = Snapshot]
      PROVE  InBounds(savestates'[s].movie)
  <2>1. savestates'[s] = IF s = t THEN Snapshot ELSE savestates[s]
    BY <1>2 DEF TypeOK
  <2>2. Snapshot.movie = movie
    BY DEF Snapshot, MovieToSave
  <2>3. CASE s = t
    BY <2>1, <2>2, <2>3 DEF MovieInBounds, InBounds
  <2>4. CASE s # t
    BY <2>1, <2>4 DEF MovieInBounds, InBounds
  <2> QED
    BY <2>3, <2>4
<1>3. CASE savestates' \in {AllDeallocated, AllCleared, AllStale}
  BY <1>3, DroppedMovies DEF MovieInBounds, InBounds
<1> QED
  BY <1>1, <1>2, <1>3, SlotsChange

(* A frame moves the position by one, to at most the end of the movie.     *)
LEMMA RunFrameInBounds ==
  ASSUME TypeOK, NEW frames \in FrameSeqs, RunFrame(frames),
         movie.currentFrame <= Len(frames)
  PROVE  InBounds(movie')
<1>1. movie \in Movies /\ movie.currentFrame \in Nat /\ Len(frames) \in Nat
  BY DEF TypeOK, Movies, FrameSeqs
<1>2. CASE movie.currentFrame >= Len(frames)
  <2>1. movie' = [movie EXCEPT !.frames = frames]
    BY <1>2 DEF RunFrame
  <2> QED
    BY <1>1, <2>1 DEF InBounds, Movies
<1>3. CASE ~(movie.currentFrame >= Len(frames))
  <2>1. movie' = [frames |-> frames, currentFrame |-> movie.currentFrame + 1]
    BY <1>3 DEF RunFrame
  <2> QED
    BY <1>1, <1>3, <2>1 DEF InBounds
<1> QED
  BY <1>2, <1>3

(* A load keeps the current movie, or takes the movie of the slot, or      *)
(* moves to a position it has compared with the end.                       *)
LEMMA AfterLoadInBounds ==
  ASSUME TypeOK, InBounds(movie), NEW state \in Savestates, InBounds(state.movie),
         NEW records \in BOOLEAN
  PROVE  InBounds(AfterLoad(state, records).movie)
<1>1. movie \in Movies /\ state.movie \in Movies
  BY DEF TypeOK, Savestates
<1>2. CASE TakesMovie(records)
  BY <1>2 DEF AfterLoad
<1>3. CASE ~TakesMovie(records) /\ BeyondEnd(state)
  BY <1>3 DEF AfterLoad
<1>4. CASE ~TakesMovie(records) /\ ~BeyondEnd(state)
  <2>1. AfterLoad(state, records).movie = [movie EXCEPT !.currentFrame = PositionOf(state)]
    BY <1>4 DEF AfterLoad
  <2>2. ~(state.movie.currentFrame > Len(movie.frames))
    BY <1>4 DEF BeyondEnd
  <2>3. state.movie.currentFrame \in Nat /\ Len(movie.frames) \in Nat
    BY <1>1 DEF Movies, FrameSeqs
  <2> QED
    BY <1>1, <2>1, <2>2, <2>3 DEF InBounds, Movies, PositionOf
<1> QED
  BY <1>2, <1>3, <1>4

(* A recovery exchanges the frames of the movie below the position.  The   *)
(* state it starts from precedes the target; when a slot lies beyond the   *)
(* end of the current movie the position stays before that slot.           *)
LEMMA RecoverInBounds ==
  ASSUME TypeOK, MovieInBounds, NEW target \in Movies, InBounds(target),
         RecoverFromSlot(target) \/ RecoverByContinuing(target) \/ RecoverByRestarting(target)
  PROVE  InBounds(movie')
<1>1. movie \in Movies /\ InBounds(movie) /\ target.frames \in FrameSeqs
  BY DEF TypeOK, MovieInBounds, InBounds, Movies
<1>n. movie.currentFrame \in Nat /\ Len(movie.frames) \in Nat /\ Len(target.frames) \in Nat
  BY <1>1 DEF Movies, FrameSeqs
<1>2. CASE RecoverFromSlot(target)
  <2>1. PICK best \in BestSlots(target) :
          movie' = [AfterLoad(savestates[best], FALSE).movie EXCEPT !.frames = target.frames]
    BY <1>2 DEF RecoverFromSlot
  <2> DEFINE state == savestates[best]
             after == AfterLoad(state, FALSE)
  <2>2. /\ best \in Slots /\ state.valid
        /\ SameInput(state.movie.frames, target.frames, state.movie.currentFrame)
    BY DEF BestSlots, UsableSlots, MovieStatePreceeds
  <2>3. state \in Savestates /\ state.movie \in Movies /\ state.movie.currentFrame \in Nat
    BY <2>2, SlotTypes DEF TypeOK
  <2>4. state.movie.currentFrame <= Len(target.frames)
    BY <2>2 DEF SameInput
  <2> HIDE DEF state
  <2>5. after.movie \in Movies
    BY <2>3, AfterLoadTypes
  <2>6. after.movie.currentFrame <= Len(target.frames)
    <3>1. CASE TakesMovie(FALSE)
      BY <2>4, <3>1 DEF AfterLoad
    <3>2. CASE ~TakesMovie(FALSE) /\ BeyondEnd(state)
      <4>1. after.movie = movie
        BY <3>2 DEF AfterLoad
      <4>2. state.movie.currentFrame > Len(movie.frames)
        BY <3>2 DEF BeyondEnd
      <4>3. movie.currentFrame <= Len(movie.frames)
        BY <1>1 DEF InBounds
      <4>4. movie.currentFrame <= Len(target.frames)
        BY <1>n, <2>3, <2>4, <4>2, <4>3
      <4> QED
        BY <4>1, <4>4
    <3>3. CASE ~TakesMovie(FALSE) /\ ~BeyondEnd(state)
      <4>1. after.movie = [movie EXCEPT !.currentFrame = PositionOf(state)]
        BY <3>3 DEF AfterLoad
      <4> QED
        BY <1>1, <2>4, <4>1 DEF Movies, PositionOf
    <3> QED
      BY <3>1, <3>2, <3>3
  <2>7. movie' = [after.movie EXCEPT !.frames = target.frames]
    BY <2>1 DEF state
  <2> HIDE DEF after
  <2> QED
    BY <2>5, <2>6, <2>7 DEF InBounds, Movies
<1>3. CASE RecoverByContinuing(target)
  <2>1. movie' = [movie EXCEPT !.frames = target.frames] /\ ContinueLength(target) > 0
    BY <1>3 DEF RecoverByContinuing
  <2>2. MovieStatePreceeds(movie, target)
    BY <2>1 DEF ContinueLength
  <2>3. movie.currentFrame <= Len(target.frames)
    BY <2>2 DEF MovieStatePreceeds, SameInput
  <2> QED
    BY <1>1, <2>1, <2>3 DEF InBounds, Movies
<1>4. CASE RecoverByRestarting(target)
  BY <1>1, <1>4 DEF RecoverByRestarting
<1> QED
  BY <1>2, <1>3, <1>4

(* MovieInBounds is inductive: one case for each action that moves the     *)
(* position or changes the movie, and SlotsInBounds for the slots.         *)
LEMMA InBoundsStep ==
  ASSUME TypeOK, MovieInBounds, [Next]_vars
  PROVE  MovieInBounds'
<1> SUFFICES InBounds(movie')
  BY SlotsInBounds DEF MovieInBounds, InBounds
<1>0. InBounds(movie) /\ movie \in Movies
  BY DEF MovieInBounds, InBounds, TypeOK
<1>1. CASE UNCHANGED movie
  BY <1>0, <1>1 DEF InBounds
<1>2. CASE PlayFrame
  <2>1. RunFrame(movie.frames) /\ movie.frames \in FrameSeqs
    BY <1>2 DEF PlayFrame, TypeOK, Movies
  <2> QED
    BY <1>0, <2>1, RunFrameInBounds DEF InBounds
<1>3. CASE RecordFrame
  <2>1. PICK input \in Inputs : RunFrame(Recorded(input))
    BY <1>3 DEF RecordFrame
  <2>2. Recorded(input) \in FrameSeqs /\ Len(Recorded(input)) = movie.currentFrame + 1
    BY <1>0, RecordedFrames DEF InBounds
  <2>3. movie.currentFrame <= Len(Recorded(input))
    BY <1>0, <2>2 DEF Movies
  <2> QED
    BY <2>1, <2>2, <2>3, RunFrameInBounds
<1>4. ASSUME NEW s \in Slots, Load(s)
      PROVE  InBounds(movie')
  <2>1. savestates[s] \in Savestates /\ savestates[s].movie \in Movies
    BY SlotTypes DEF TypeOK
  <2>2. InBounds(savestates[s].movie)
    BY <1>4 DEF Load, MovieInBounds, InBounds
  <2>3. CASE LoadGameState(s)
    <3>1. movie' = AfterLoad(savestates[s], nextLoadRecords).movie
      BY <2>3 DEF LoadGameState
    <3>2. nextLoadRecords \in BOOLEAN
      BY DEF TypeOK
    <3> QED
      BY <1>0, <2>1, <2>2, <3>1, <3>2, AfterLoadInBounds
  <2>4. CASE RecoverStaleState(s)
    BY <2>1, <2>2, <2>4, RecoverInBounds DEF RecoverStaleState
  <2> QED
    BY <1>4, <2>3, <2>4 DEF Load
<1>5. ASSUME NEW frames \in FrameSeqs, movie' = [frames |-> frames, currentFrame |-> 0]
      PROVE  InBounds(movie')
  BY <1>5 DEF InBounds, FrameSeqs
<1>6. ASSUME NEW frames \in FrameSeqs, Play(frames)
      PROVE  InBounds(movie')
  BY <1>5, <1>6, EmptyFrames DEF Play, Started, NewMovie
<1>7. CASE RecordMovie
  BY <1>5, <1>7, EmptyFrames DEF RecordMovie, Started
<1>8. CASE PlayMovie
  BY <1>6, <1>8 DEF PlayMovie, TypeOK
<1>9. CASE RestartMovie
  <2>1. movie.frames \in FrameSeqs /\ file \in FrameSeqs
    BY DEF TypeOK, Movies
  <2>2. CASE running
    BY <1>6, <1>9, <2>1, <2>2 DEF RestartMovie
  <2>3. CASE ~running
    BY <1>1, <1>9, <2>3 DEF RestartMovie, movieVars
  <2> QED
    BY <2>2, <2>3
<1>10. CASE RefreshSavestates \/ CheckHotkeys \/ StayPaused \/ StopMovie \/ (\E s \in Slots : Save(s))
  BY <1>1, <1>10 DEF RefreshSavestates, CheckHotkeys, StayPaused, StopMovie, Save, movieVars
<1>11. CASE ToggleReadOnly \/ TogglePause \/ ResumeRecording \/ DropSavestates \/ WatchMovie
  BY <1>1, <1>11 DEF ToggleReadOnly, TogglePause, ResumeRecording, DropSavestates, WatchMovie,
     movieVars
<1>12. CASE UNCHANGED vars
  BY <1>1, <1>12 DEF vars, movieVars
<1> QED
  BY <1>2, <1>3, <1>4, <1>7, <1>8, <1>9, <1>10, <1>11, <1>12 DEF Next, Loop, User, Session

(* No comparison of two movies up to a position and no injected frame reads*)
(* beyond the end of a movie, for any number of slots and in any order of  *)
(* recording, cutting, loading, refreshing and recovering, loads during a  *)
(* recovery included (wintaser.cpp:1379, 1741, 1998).                      *)
THEOREM MovieInBoundsCorrect == Spec => []MovieInBounds
<1>1. Init => MovieInBounds
  <2>1. Len(<<>>) = 0
    BY EmptySeq
  <2> QED
    BY <2>1 DEF Init, MovieInBounds, NewMovie
<1>2. TypeOK /\ MovieInBounds /\ [Next]_vars => MovieInBounds'
  BY InBoundsStep
<1> QED
  BY <1>1, <1>2, TypeCorrect, PTL DEF Spec
=============================================================================
