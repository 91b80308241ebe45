------------------------------ MODULE AviDumper ------------------------------
(***************************************************************************)
(* AVI capture (application/AVIDumping/AVIDumper.cpp).  The debugger       *)
(* thread hands the picture and the sound of each frame to a ring of slots;*)
(* two threads of their own, one for video and one for audio, encode the   *)
(* slots into the current file.  The debugger also opens, splits and closes*)
(* files, for which the queue is flushed, destroyed and built again.       *)
(*                                                                         *)
(* The video half and the audio half of the queue work alike: "video" and  *)
(* "audio" name the half, the encoder thread and its stream.  The sections *)
(* s_fqvCS and s_fqaCS serialize callers of the queue; here only the       *)
(* debugger thread calls it, so they are left out.  s_aviCS is kept.       *)
(***************************************************************************)
EXTENDS Integers, Sequences, SequencesExt

CONSTANTS
  NumSlots,           \* slots of the ring (4)
  Sizes,              \* pairs of picture size and frame rate the game may show
  BasicallyEmptyVideo,\* a file with fewer pictures (5) and ...
  BasicallyEmptyAudio,\* ... fewer sounds (15) is discarded by the next segment
  CatchUpFirst,       \* sounds (30) during which silence is always filled in
  CatchUpLag,         \* later, pictures (8) that the sound may lag behind
  MaxFileSize,        \* frames after which a file is split (2 GB)
  MaxFrames,          \* bound: frame boundaries of the game
  MaxSplits           \* bound: splits the user asks for

ASSUME AviAssumption ==
  /\ NumSlots \in Nat \ {0}
  /\ {BasicallyEmptyVideo, BasicallyEmptyAudio, CatchUpFirst, CatchUpLag} \subseteq Nat
  /\ MaxFileSize \in Nat /\ MaxFrames \in Nat /\ MaxSplits \in Nat

VARIABLES
  hasProcessed,  \* hasProcessed[c][i]: the WaitableBool of slot i (true = filled)
  contents,      \* contents[c][i]: what slot i holds
  nextWrite, nextRead, threadDone,
  stream,        \* stream[c]: aviCompressedStream, aviSoundStream is open
  count,         \* aviFrameCount, aviSoundFrameCount
  avi,           \* the other variables of the dumper, see AviType
  aviCS,         \* the debugger thread is inside s_aviCS
  pc, encoder,   \* place of the debugger thread; of encoder thread c
  frame,         \* the frame whose boundary the debugger is in
  saved, after,  \* locals around CloseAVI: flags to restore, where to return
  captured,      \* history: captured[c], all that was handed over since the start
  files,         \* history: the files written since the start, newest last
  frames, splits \* the counts that MaxFrames and MaxSplits bound

queueVars == <<hasProcessed, contents, nextWrite, nextRead, threadDone>>
aviVars   == <<stream, count, avi, aviCS>>
callVars  == <<frame, saved, after>>
history   == <<captured, files, frames, splits>>
vars      == <<queueVars, aviVars, pc, encoder, callVars, history>>

Halves  == {"video", "audio"}
Slots   == 0 .. NumSlots - 1
Silence == [picture |-> 0, size |-> "none"]
Nothing == [picture |-> 0, size |-> "unset"]   \* a slot that was never filled
NoSize  == "none"
Items   == [picture : 0 .. MaxFrames, size : Sizes \cup {"none", "unset"}]
UnwrappedSlot(i) == i + 1
NextSlot(i) == (i + 1) % NumSlots

-----------------------------------------------------------------------------
NewQueue ==
  /\ hasProcessed' = [c \in Halves |-> [i \in Slots |-> FALSE]]
  /\ contents' = [c \in Halves |-> [i \in Slots |-> Nothing]]
  /\ nextWrite' = [c \in Halves |-> 0]
  /\ nextRead' = [c \in Halves |-> 0]
  /\ threadDone' = FALSE
  /\ encoder' = [c \in Halves |-> "wait"]

Init ==
  /\ hasProcessed = [c \in Halves |-> [i \in Slots |-> FALSE]]
  /\ contents = [c \in Halves |-> [i \in Slots |-> Nothing]]
  /\ nextWrite = [c \in Halves |-> 0]
  /\ nextRead = [c \in Halves |-> 0]
  /\ threadDone = FALSE
  /\ encoder = [c \in Halves |-> "wait"]
  /\ stream = [c \in Halves |-> FALSE]
  /\ count = [c \in Halves |-> 0]
  /\ avi = [mode |-> {}, open |-> FALSE, size |-> NoSize, fileSize |-> 0, splitCount |-> 0,
            discardCount |-> 0, requestedSplitCount |-> 0, oldIsBasicallyEmpty |-> FALSE]
  /\ aviCS = FALSE
  /\ pc = "game"
  /\ frame = [size |-> NoSize, hasSound |-> FALSE, opening |-> NoSize]
  /\ saved = [mode |-> {}, splitCount |-> 0, discardCount |-> 0, requested |-> 0]
  /\ after = "game"
  /\ captured = [c \in Halves |-> <<>>]
  /\ files = <<>>
  /\ frames = 0 /\ splits = 0

Goto(l) == pc' = l
At(l)   == pc = l

-----------------------------------------------------------------------------
(* The encoder threads, OutputVideo and OutputAudio.                       *)
EncoderAt(c, l) == encoder[c] = l
EncoderGoto(c, l) == encoder' = [encoder EXCEPT ![c] = l]

WaitUntilTrue(c) ==
  /\ EncoderAt(c, "wait")
  /\ hasProcessed[c][nextRead[c]]
  /\ EncoderGoto(c, IF threadDone THEN "clear" ELSE "output")
  /\ UNCHANGED <<queueVars, aviVars, pc, callVars, history>>

(* A frame is written under s_aviCS, if its half is still being captured.  *)
OutputFrame(c) ==
  /\ EncoderAt(c, "output")
  /\ c \in avi.mode => ~aviCS
  /\ IF c \in avi.mode /\ stream[c]
     THEN /\ files' = [files EXCEPT ![Len(files)][c] = Append(@, contents[c][nextRead[c]])]
          /\ EncoderGoto(c, "count")
     ELSE /\ EncoderGoto(c, "clear")
          /\ UNCHANGED files
  /\ UNCHANGED <<queueVars, aviVars, pc, callVars, captured, frames, splits>>

(* After leaving s_aviCS: the counts, and the wish for a new file.  With   *)
(* video on, the code counts sound by its time, (int)(aviSoundSecondsCount *)
(* * curAviFps) (:645-649).  Here each sound lasts one frame and is counted *)
(* as one: sounds of other lengths, and the fraction of a frame that the   *)
(* conversion to int drops, are left out.                                  *)
CountFrame(c) ==
  /\ EncoderAt(c, "count")
  /\ count' = [count EXCEPT ![c] = @ + 1]
  /\ avi' = [avi EXCEPT !.fileSize = @ + 1,
                        !.requestedSplitCount =
                          IF avi.fileSize + 1 > MaxFileSize THEN avi.splitCount + 1 ELSE @]
  /\ EncoderGoto(c, "clear")
  /\ UNCHANGED <<queueVars, stream, aviCS, pc, callVars, history>>

Stops == threadDone

NextFrame(c) ==
  /\ EncoderAt(c, "clear")
  /\ hasProcessed' = [hasProcessed EXCEPT ![c][nextRead[c]] = FALSE]
  /\ nextRead' = [nextRead EXCEPT ![c] = NextSlot(@)]
  /\ EncoderGoto(c, IF Stops THEN "exited" ELSE "wait")
  /\ UNCHANGED <<contents, nextWrite, threadDone, aviVars, pc, callVars, history>>

Encode(c) == WaitUntilTrue(c) \/ OutputFrame(c) \/ CountFrame(c) \/ NextFrame(c)

-----------------------------------------------------------------------------
(* CloseAVI, called by the debugger thread; it returns to `after`.         *)
CallCloseAVI(ret, flags) ==
  /\ avi' = [flags EXCEPT !.oldIsBasicallyEmpty =
               @ \/ /\ stream["video"]
                    /\ count["video"] < BasicallyEmptyVideo
                    /\ count["audio"] < BasicallyEmptyAudio]
  /\ after' = ret
  /\ Goto("flush")

NotFlushed == TRUE
Flushed == \A c \in Halves : \A i \in Slots : ~hasProcessed[c][i]

Flush ==
  /\ At("flush") /\ Flushed
  /\ Goto("delete")
  /\ UNCHANGED <<queueVars, aviVars, encoder, callVars, history>>

(* ~AviFrameQueue raises every flag so that the threads see threadDone.    *)
DeleteQueue ==
  /\ At("delete")
  /\ threadDone' = TRUE
  /\ hasProcessed' = [c \in Halves |-> [i \in Slots |-> TRUE]]
  /\ Goto("join")
  /\ UNCHANGED <<contents, nextWrite, nextRead, aviVars, encoder, callVars, history>>

CloseAVI ==
  /\ At("join") /\ \A c \in Halves : EncoderAt(c, "exited")
  /\ NewQueue
  /\ stream' = [c \in Halves |-> FALSE]
  /\ count' = [c \in Halves |-> 0]
  /\ avi' = [avi EXCEPT !.mode = {}, !.splitCount = 0, !.discardCount = 0,
                        !.fileSize = 0, !.open = FALSE]
  /\ Goto(after)
  /\ UNCHANGED <<aviCS, callVars, history>>

-----------------------------------------------------------------------------
(* The flags OpenAVIFile and HandleAviSplitRequests keep over CloseAVI.    *)
Saved(a) == [mode |-> a.mode, splitCount |-> a.splitCount, discardCount |-> a.discardCount,
             requested |-> a.requestedSplitCount]

OpenAVIFile(flags, size) ==
  /\ saved' = Saved(flags)
  /\ frame' = [frame EXCEPT !.opening = size]
  /\ CallCloseAVI("opened", flags)

(* HandleAviSplitRequests, at the start of a frame boundary of the game.   *)
FrameBoundary(size, hasSound) ==
  /\ At("game") /\ frames < MaxFrames
  /\ avi.mode # {} \/ avi.requestedSplitCount > avi.splitCount
  /\ frame.hasSound => hasSound
  /\ frames' = frames + 1
  /\ frame' = [size |-> size, hasSound |-> hasSound, opening |-> NoSize]
  /\ IF avi.requestedSplitCount > avi.splitCount
     THEN saved' = Saved(avi) /\ CallCloseAVI("split", avi)
     ELSE Goto("video") /\ UNCHANGED <<avi, saved, after>>
  /\ UNCHANGED <<queueVars, stream, count, aviCS, encoder, captured, files, splits>>

HandleAviSplitRequests ==
  /\ At("split")
  /\ avi' = [avi EXCEPT !.mode = saved.mode, !.discardCount = saved.discardCount,
                        !.splitCount = saved.requested, !.requestedSplitCount = 0]
  /\ Goto("video")
  /\ UNCHANGED <<queueVars, stream, count, aviCS, encoder, callVars, history>>

(* WriteAVIFrame and RewriteAVIFrame: a picture, or the last one again.    *)
AnyOpenFile(size) == avi.open /\ stream["video"]
SameFile(size) == avi.open /\ stream["video"] /\ avi.size = size
WriteAVIFrame ==
  /\ At("video") /\ "video" \in avi.mode /\ frame.size # NoSize
  /\ IF SameFile(frame.size)
     THEN Goto("fill") /\ UNCHANGED <<avi, callVars>>
     ELSE OpenAVIFile([avi EXCEPT !.splitCount = IF avi.open THEN @ + 1 ELSE @], frame.size)
  /\ UNCHANGED <<queueVars, stream, count, aviCS, encoder, history>>

RewriteAVIFrame ==
  /\ At("video")
  /\ "video" \in avi.mode => frame.size = NoSize
  /\ Goto(IF "video" \in avi.mode /\ stream["video"] THEN "fill" ELSE "audio")
  /\ UNCHANGED <<queueVars, aviVars, encoder, callVars, history>>

(* The rest of OpenAVIFile.                                                *)
Segment(split, discard) == IF split > 0 THEN split + 1 - discard ELSE 1
DiscardsAny == saved.splitCount > 0
Discards == saved.splitCount > 0 /\ avi.oldIsBasicallyEmpty

OpenedAVIFile ==
  /\ At("opened")
  /\ LET discard == saved.discardCount + (IF Discards THEN 1 ELSE 0)
     IN  /\ avi' = [avi EXCEPT !.mode = saved.mode, !.splitCount = saved.splitCount,
                               !.discardCount = discard, !.oldIsBasicallyEmpty = FALSE,
                               !.open = TRUE, !.size = frame.opening]
         /\ files' = Append(files, [segment |-> Segment(saved.splitCount, discard),
                                    size |-> frame.opening, video |-> <<>>, audio |-> <<>>])
  /\ stream' = [stream EXCEPT !["video"] = (frame.opening # NoSize)]
  /\ Goto(IF aviCS THEN "audioStream" ELSE "fill")
  /\ UNCHANGED <<queueVars, count, aviCS, encoder, callVars, captured, frames, splits>>

(* The user cancels the choice of a codec: CloseAVI once more, on a queue  *)
(* that is empty, and the capture ends.                                    *)
CancelVideoCodec ==
  /\ At("opened") /\ saved.splitCount = 0 /\ frame.opening # NoSize
  /\ avi' = [avi EXCEPT !.oldIsBasicallyEmpty = TRUE]
  /\ aviCS' = FALSE
  /\ Goto("game")
  /\ UNCHANGED <<queueVars, stream, count, encoder, callVars, history>>

-----------------------------------------------------------------------------
(* FillFrame, RefillFrame, FillAudioFrame and FillEmptyAudioFrame.         *)
LastSlot(c) == (NumSlots + nextWrite[c] - 1) % NumSlots
MayFill(c)  == ~hasProcessed[c][nextWrite[c]]

Fill(c, item) ==
  /\ MayFill(c)
  /\ contents' = [contents EXCEPT ![c][nextWrite[c]] = item]
  /\ hasProcessed' = [hasProcessed EXCEPT ![c][nextWrite[c]] = TRUE]
  /\ nextWrite' = [nextWrite EXCEPT ![c] = NextSlot(@)]
  /\ captured' = [captured EXCEPT ![c] = Append(@, item)]
  /\ UNCHANGED <<nextRead, threadDone, aviVars, encoder, callVars, files, frames, splits>>

FillFrame ==
  /\ At("fill") /\ Goto("audio")
  /\ Fill("video", IF frame.size = NoSize THEN contents["video"][LastSlot("video")]
                   ELSE [picture |-> frames, size |-> frame.size])

FillAudioFrame ==
  /\ At("sound") /\ Goto("game")
  /\ Fill("audio", [picture |-> frames, size |-> NoSize])

NeedsMoreSilence == count["audio"] <= count["video"]
NeedsSilence == count["audio"] < count["video"]

FillEmptyAudioFrame ==
  /\ At("silence") /\ NeedsSilence
  /\ Goto("silence")
  /\ Fill("audio", Silence)

(* WriteAVIAudio and OpenAVIAudioStream.  s_aviCS is held from here until  *)
(* the stream is open, also while OpenAVIFile closes the file before.      *)
NothingToHear == \/ "audio" \notin avi.mode
                 \/ ~stream["audio"] /\ ~frame.hasSound
                 \/ /\ ~stream["audio"] /\ ~avi.open
                    /\ "video" \in avi.mode /\ avi.size = NoSize

SkipAudio ==
  /\ At("audio") /\ NothingToHear
  /\ Goto("game")
  /\ UNCHANGED <<queueVars, aviVars, encoder, callVars, history>>

HasNoFile == FALSE
HasFile == avi.open

OpenAVIAudioStream ==
  /\ At("audio") /\ ~NothingToHear /\ ~stream["audio"]
  /\ aviCS' = TRUE
  /\ IF HasFile
     THEN Goto("audioStream") /\ UNCHANGED <<avi, callVars>>
     ELSE LET size == IF "video" \in avi.mode THEN avi.size ELSE NoSize
          IN  OpenAVIFile([avi EXCEPT !.size = size], size)
  /\ UNCHANGED <<queueVars, stream, count, encoder, history>>

OpenedAVIAudioStream ==
  /\ At("audioStream")
  /\ stream' = [stream EXCEPT !["audio"] = TRUE]
  /\ count' = [count EXCEPT !["audio"] = 0]
  /\ aviCS' = FALSE
  /\ Goto("write")
  /\ UNCHANGED <<queueVars, avi, encoder, callVars, history>>

CancelAudioCodec ==
  /\ At("audioStream") /\ avi.splitCount = 0
  /\ avi' = [avi EXCEPT !.mode = @ \ {"audio"}]
  /\ aviCS' = FALSE
  /\ Goto("game")
  /\ UNCHANGED <<queueVars, stream, count, encoder, callVars, history>>

(* Silence is filled in "in case video started before audio".              *)
Behind == /\ stream["video"] /\ avi.splitCount = 0
          /\ \/ count["audio"] < CatchUpFirst
             \/ count["audio"] + CatchUpLag < count["video"]

WriteAVIAudio ==
  /\ \/ At("audio") /\ ~NothingToHear /\ stream["audio"]
     \/ At("write")
  /\ Goto(IF Behind THEN "silence" ELSE "sound")
  /\ UNCHANGED <<queueVars, aviVars, encoder, callVars, history>>

CaughtUp ==
  /\ At("silence") /\ ~NeedsSilence
  /\ Goto("sound")
  /\ UNCHANGED <<queueVars, aviVars, encoder, callVars, history>>

-----------------------------------------------------------------------------
(* The user, taken to start and stop a capture between frame boundaries    *)
(* only, and to ask for splits at any time.                                *)
StartCapture(mode) ==
  /\ At("game") /\ avi.mode = {} /\ frames < MaxFrames
  /\ avi' = [avi EXCEPT !.mode = mode]
  /\ captured' = [c \in Halves |-> <<>>]
  /\ files' = IF avi.open THEN <<Last(files)>> ELSE <<>>
  /\ UNCHANGED <<queueVars, stream, count, aviCS, pc, encoder, callVars, frames, splits>>

StopCapture ==
  /\ At("game") /\ avi.mode # {}
  /\ CallCloseAVI("game", [avi EXCEPT !.mode = {}])
  /\ UNCHANGED <<queueVars, stream, count, aviCS, encoder, frame, saved, history>>

SplitAVINow ==
  /\ splits < MaxSplits
  /\ avi.mode # {} /\ \E c \in Halves : count[c] > 0
  /\ avi' = [avi EXCEPT !.requestedSplitCount = avi.splitCount + 1]
  /\ splits' = splits + 1
  /\ UNCHANGED <<queueVars, stream, count, aviCS, pc, encoder, callVars, captured, files, frames>>

Dumper == \/ HandleAviSplitRequests \/ WriteAVIFrame \/ RewriteAVIFrame
          \/ Flush \/ DeleteQueue \/ CloseAVI \/ OpenedAVIFile \/ CancelVideoCodec
          \/ FillFrame \/ SkipAudio \/ OpenAVIAudioStream \/ OpenedAVIAudioStream
          \/ CancelAudioCodec \/ WriteAVIAudio \/ FillEmptyAudioFrame \/ CaughtUp
          \/ FillAudioFrame
User   == \/ \E mode \in SUBSET Halves \ {{}} : StartCapture(mode)
          \/ StopCapture \/ SplitAVINow
Next   == \/ Dumper \/ User
          \/ \E c \in Halves : Encode(c)
          \/ \E size \in Sizes \cup {NoSize}, hasSound \in BOOLEAN : FrameBoundary(size, hasSound)
Spec   == Init /\ [][Next]_vars

(* Each thread of the debugger runs when it can; the game need not.        *)
FairSpec == Spec /\ WF_vars(Dumper) /\ \A c \in Halves : WF_vars(Encode(c))

-----------------------------------------------------------------------------
AviType == [mode : SUBSET Halves, open : BOOLEAN, size : Sizes \cup {NoSize}, fileSize : Nat,
            splitCount : Nat, discardCount : Nat, requestedSplitCount : Nat,
            oldIsBasicallyEmpty : BOOLEAN]
FileType == [segment : Nat \ {0}, size : Sizes \cup {NoSize}, video : Seq(Items), audio : Seq(Items)]

(* Types; a stream is open only in an open file, a segment number is       *)
(* positive, and the debugger is inside s_aviCS only to open the sound.    *)
TypeOK ==
  /\ hasProcessed \in [Halves -> [Slots -> BOOLEAN]]
  /\ contents \in [Halves -> [Slots -> Items]]
  /\ nextWrite \in [Halves -> Slots] /\ nextRead \in [Halves -> Slots]
  /\ threadDone \in BOOLEAN /\ aviCS \in BOOLEAN
  /\ stream \in [Halves -> BOOLEAN] /\ count \in [Halves -> Nat]
  /\ avi \in AviType /\ saved \in [mode : SUBSET Halves, splitCount : Nat, discardCount : Nat,
                                   requested : Nat]
  /\ encoder \in [Halves -> {"wait", "output", "count", "clear", "exited"}]
  /\ frame \in [size : Sizes \cup {NoSize}, hasSound : BOOLEAN, opening : Sizes \cup {NoSize}]
  /\ captured \in [Halves -> Seq(Items)]
  /\ files \in Seq(FileType)
  /\ \A c \in Halves : stream[c] => avi.open
  /\ aviCS => pc \in {"flush", "delete", "join", "opened", "audioStream"}

(* What the files hold, one after the other.                               *)
Written(c) == FlattenSeq([i \in 1 .. Len(files) |-> files[i][c]])

(* The files hold the pictures and the sounds that were captured, in their *)
(* order, each once and none left out, across every split and every change *)
(* of the picture's size: the ring, the flush before a file is closed and  *)
(* the two threads lose, repeat and exchange nothing ("the proper waits are*)
(* in place", AVIDumper.cpp:1247).                                         *)
CapturedInOrder == \A c \in Halves : IsPrefix(Written(c), captured[c])

(* A picture is never encoded into a file of another size: the encoder uses*)
(* the current width and height for whatever slot it finds, so all slots   *)
(* have to be empty when they change.                                      *)
OneSizePerFile == \A f \in ToSet(files) : \A item \in ToSet(f.video) :
                    item.size \in {f.size, Nothing.size}

(* A segment whose name is used again is deleted (:910).  That may only    *)
(* happen to an almost empty one ("discard empty or almost-empty AVI       *)
(* segments", :874): no more than the limit and what was in the queue when *)
(* the limit was looked at.                                                *)
DiscardsAlmostEmpty ==
  \A i, j \in DOMAIN files :
    i < j /\ files[i].segment = files[j].segment =>
      /\ Len(files[i].video) < BasicallyEmptyVideo + NumSlots
      /\ Len(files[i].audio) < BasicallyEmptyAudio + NumSlots

(* The three together: the files are what the dumper takes them for.       *)
FilesSound == TypeOK /\ OneSizePerFile /\ DiscardsAlmostEmpty

(* The debugger, and with it the game, gets out of every frame boundary and*)
(* every CloseAVI: the flush, the wait for the threads, the loop that fills*)
(* in silence and s_aviCS never wait for one another.                      *)
DumperReturns == ~At("game") ~> At("game")

(* Sound and picture stay together: the loop that fills in silence counts  *)
(* only what is already written, so it overshoots by what the ring holds,  *)
(* and never by more; the sound stays within a ring ahead of the pictures, *)
(* in sounds of one frame each (see CountFrame),                           *)
(* once the file has pictures: a file that is left open when the choice of *)
(* a codec for sound was cancelled takes any sound of the next capture     *)
(* before its first picture, which starts another segment.                 *)
SoundLeadBounded ==
  avi.mode = Halves /\ stream["video"] /\ avi.splitCount = 0 =>
    Len(captured["audio"]) <= Len(captured["video"]) + NumSlots

(* Silence stands in for sound that did not exist yet when the pictures    *)
(* were taken ("in case video started before audio", AVIDumper.cpp:1225):  *)
(* with it there are still fewer sounds than pictures, the sound of the    *)
(* present picture being handed over next.                                 *)
SilenceIsForLateAudio ==
  At("silence") => \/ Len(captured["audio"]) < Len(captured["video"])
                   \/ captured["audio"] = <<>>
                   \/ Last(captured["audio"]) # Silence
==============================================================================
