------------------------------- MODULE Sound -------------------------------
(***************************************************************************)
(* One emulated sound buffer (EmulatedDirectSoundBuffer in                 *)
(* hooks/hooks/soundhooks.cpp): the frame thread moves its play cursor by  *)
(* the bytes of each frame, signals the notification positions it passes   *)
(* and mixes what was played into the output of the frame                  *)
(* (hooks/soundmixing.cpp); the game's threads lock, fill, play, stop and  *)
(* rewind it meanwhile.  Two critical sections guard the data: m_bufferCS  *)
(* the buffer, m_lockBufferCS the copy a locker writes into.  The mixing,  *)
(* the cursors and the status are read and written without either.         *)
(***************************************************************************)
EXTENDS Integers, Sequences

CONSTANTS
  Size,        \* bufferSize, in bytes
  Block,       \* waveformat->nBlockAlign
  OutBlock,    \* nBlockAlign of the output
  Positions,   \* notifies: the offsets of the notification positions, in order
  OffsetStop,  \* DSBPN_OFFSETSTOP, an offset no cursor reaches
  FrameBytes,  \* bytes a frame may last at the buffer's frequency
  OutBytes,    \* bytes of output a frame may have; 0: the frame is not mixed
  Seeks,       \* arguments of SetCurrentPosition
  Offsets,     \* where the game locks; the write cursor is one more place
  Lengths,     \* how many bytes it locks
  Residence,   \* unlocks before lockBuf stays allocated (8 in the program)
  Users,       \* threads of the game that use the buffer
  Primary,     \* the thread that runs the frames; it may be a user in between
  Nobody,      \* owner of a critical section that is free
  MaxUnlocks,  \* bound: locks the game takes
  MaxFrames    \* bound: frames in which the buffer plays

(* DSBSIZE_MIN is a sample of the largest format; the game may ask for any *)
(* number of bytes above it, and seek to any.                              *)
ASSUME SizesAssumption ==
  /\ Block \in Nat \ {0} /\ OutBlock \in Nat \ {0}
  /\ Size \in Nat /\ Size >= Block
  /\ Residence \in Nat /\ MaxUnlocks \in Nat /\ MaxFrames \in Nat
ASSUME BytesAssumption ==
  /\ FrameBytes \subseteq Nat /\ \A n \in FrameBytes : n % Block = 0
  /\ Seeks \subseteq Nat /\ OutBytes \subseteq Nat
  /\ Offsets \subseteq 0 .. Size - 1 /\ Lengths \subseteq 0 .. Size
ASSUME PositionsAssumption ==
  /\ Positions \in Seq(Nat)
  /\ OffsetStop \in Nat /\ OffsetStop >= Size
ASSUME NobodyAssumption == Nobody \notin Users

VARIABLES
  buffer,        \* the first Size bytes of the sound, and copies of them
  allocated,     \* bytes of buffer
  lockBuf,       \* what a locker reads and writes; <<>> when it is not allocated
  locked,        \* lockPtr1, lockBytes1, lockPtr2, lockBytes2: offset and number of bytes
  numRemaining,  \* numRemainingUnlocksBeforeLeavingLockBufResident
  bufferCS,      \* owner of m_bufferCS
  lockBufferCS,  \* owner of m_lockBufferCS
  playing,       \* status & DSBSTATUS_PLAYING
  looping,       \* status & DSBSTATUS_LOOPING
  playCursor,
  writeCursor,
  frame,         \* AdvanceTimeAndMix: where it is, and its locals
  mix,           \* the locals of the mixing loop
  user,          \* where each user is in its call
  written,       \* history: bytes the locker has written since Lock
  sound,         \* history: the sound the game has put into the buffer
  signalled,     \* history: signals to each position in this round of signals, up to 2
  version,       \* history: locks taken
  frames         \* history: frames in which the buffer played

dataVars   == <<buffer, allocated, lockBuf, locked, numRemaining, bufferCS, lockBufferCS,
                written, sound, version>>
cursorVars == <<playing, looping, playCursor, writeCursor, signalled>>
frameVars  == <<frame, mix, frames>>
vars       == <<dataVars, cursorVars, frameVars, user>>

-----------------------------------------------------------------------------
Idle == [pc |-> "idle", way |-> "within", base |-> 0, bytes |-> 0, out |-> 0,
         round |-> 1, notify |-> 1, prev |-> 0]
NoMix == [pos |-> 0, size |-> 0, outSize |-> 0, last |-> FALSE,
          i |-> 0, inOffset |-> 0, offsetRemainder |-> 0, frac |-> 0, fracError |-> 0]

(* Initialize: silence, nothing allocated beyond the buffer itself.        *)
Init ==
  /\ buffer = [q \in 0 .. Size - 1 |-> 0]
  /\ sound = [q \in 0 .. Size - 1 |-> 0]
  /\ allocated = Size
  /\ lockBuf = <<>> /\ locked = [offset |-> 0, bytes |-> 0] /\ written = {}
  /\ numRemaining = Residence
  /\ bufferCS = Nobody /\ lockBufferCS = Nobody
  /\ playing = FALSE /\ looping = FALSE
  /\ playCursor = 0 /\ writeCursor = 0
  /\ frame = Idle /\ mix = NoMix
  /\ user = [u \in Users |-> "game"]
  /\ signalled = [n \in DOMAIN Positions |-> 0]
  /\ version = 0 /\ frames = 0

(* ReplicateBufferIntoExtraAllocated.                                      *)
NotReplicated(data, length) ==
  [q \in 0 .. length - 1 |-> IF q \in DOMAIN data THEN data[q] ELSE data[q % Size]]
Replicated(data, length) == [q \in 0 .. length - 1 |-> data[q % Size]]

Signal(n) == signalled' = [signalled EXCEPT ![n] = IF @ < 2 THEN @ + 1 ELSE 2]
NotifyOfStop ==
  signalled' = [n \in DOMAIN Positions |->
                  IF Positions[n] = OffsetStop /\ signalled[n] < 2
                  THEN signalled[n] + 1 ELSE signalled[n]]

-----------------------------------------------------------------------------
(* The game's calls.  The primary thread makes its own between frames.     *)
InCall(u)    == user[u] \in {"lock", "unlock", "play"}
CanRun(u)    == u = Primary => frame.pc = "idle"
MayCall(u)   == CanRun(u) /\ user[u] \in {"game", "locked", "written"}
Goes(u, pc)  == user' = [user EXCEPT ![u] = pc]

(* Lock waits for m_bufferCS and then, holding it, for m_lockBufferCS.     *)
Lock(u) ==
  /\ CanRun(u) /\ user[u] = "game"
  /\ version < MaxUnlocks
  /\ bufferCS = Nobody
  /\ bufferCS' = u
  /\ Goes(u, "lock")
  /\ UNCHANGED <<buffer, allocated, lockBuf, locked, numRemaining, lockBufferCS, written,
                 sound, version, cursorVars, frameVars>>

Copied == [q \in 0 .. Size - 1 |-> buffer[q]]
KeepsBuffer  == UNCHANGED bufferCS
LeavesBuffer == bufferCS' = Nobody

(* The locker gets a copy of the buffer and keeps m_lockBufferCS only; its *)
(* bytes begin where it asks or at the write cursor, and may wrap around.  *)
LockReturns(u, offset, bytes) ==
  /\ user[u] = "lock"
  /\ lockBufferCS = Nobody
  /\ lockBufferCS' = u
  /\ LeavesBuffer
  /\ lockBuf' = Copied
  /\ locked' = [offset |-> offset, bytes |-> bytes]
  /\ written' = {}
  /\ version' = version + 1
  /\ Goes(u, "locked")
  /\ UNCHANGED <<buffer, allocated, numRemaining, sound, cursorVars, frameVars>>

(* The first n bytes of the lock, across the end of the buffer.            *)
LockedBytes(n) == {(locked.offset + k) % Size : k \in 0 .. n - 1}

(* The locker fills its bytes, or the first of them.                       *)
Write(u, bytes) ==
  /\ CanRun(u) /\ user[u] = "locked"
  /\ written' = bytes
  /\ lockBuf' = [q \in 0 .. Size - 1 |-> IF q \in bytes THEN version ELSE lockBuf[q]]
  /\ Goes(u, "written")
  /\ UNCHANGED <<buffer, allocated, locked, numRemaining, bufferCS, lockBufferCS, sound,
                 version, cursorVars, frameVars>>

(* Unlock copies back what it is told of the two parts of the lock ...     *)
Unlock(u, bytes) ==
  /\ CanRun(u) /\ user[u] = "written"
  /\ bufferCS = Nobody
  /\ bufferCS' = u
  /\ buffer' = [q \in 0 .. allocated - 1 |-> IF q \in bytes THEN lockBuf[q] ELSE buffer[q]]
  /\ sound' = [q \in 0 .. Size - 1 |-> IF q \in bytes \cap written THEN version ELSE sound[q]]
  /\ Goes(u, "unlock")
  /\ UNCHANGED <<allocated, lockBuf, locked, numRemaining, lockBufferCS, written, version,
                 cursorVars, frameVars>>

(* ... and to the copies, frees lockBuf the first few times, and leaves    *)
(* both critical sections.  A game unlocks once for each lock, so what was *)
(* locked is not looked at again.                                          *)
UnlockReturns(u) ==
  /\ user[u] = "unlock"
  /\ buffer' = Replicated(buffer, allocated)
  /\ IF numRemaining > 0
       THEN lockBuf' = <<>> /\ numRemaining' = numRemaining - 1
       ELSE UNCHANGED <<lockBuf, numRemaining>>
  /\ bufferCS' = Nobody /\ lockBufferCS' = Nobody
  /\ written' = {} /\ locked' = [offset |-> 0, bytes |-> 0]
  /\ Goes(u, "game")
  /\ UNCHANGED <<allocated, sound, version, cursorVars, frameVars>>

(* Play sets one bit of the status and then the other.                     *)
Play(u) ==
  /\ CanRun(u) /\ user[u] = "game"
  /\ playing' = TRUE
  /\ Goes(u, "play")
  /\ UNCHANGED <<looping, playCursor, writeCursor, signalled, dataVars, frameVars>>
PlayReturns(u, loop) ==
  /\ user[u] = "play"
  /\ looping' = loop
  /\ Goes(u, "game")
  /\ UNCHANGED <<playing, playCursor, writeCursor, signalled, dataVars, frameVars>>

SetCurrentPosition(u, position) ==
  /\ MayCall(u)
  /\ playCursor' = position % Size
  /\ UNCHANGED <<playing, looping, writeCursor, signalled, dataVars, frameVars, user>>

Stop(u) ==
  /\ MayCall(u)
  /\ playing' = FALSE /\ looping' = FALSE
  /\ NotifyOfStop
  /\ UNCHANGED <<playCursor, writeCursor, dataVars, frameVars, user>>

-----------------------------------------------------------------------------
(* AdvanceTimeAndMixAll, on the frame thread, inside EnterFrameBoundary.   *)
At(pc)     == frame.pc = pc
Unwrapped  == frame.base + frame.bytes
Wrapped    == Unwrapped % Size
FrameGoes(pc) == frame' = [frame EXCEPT !.pc = pc]

(* What a playing buffer does next depends on whether the frame reaches its*)
(* end.  The code names playCursor twice here and twice in the call of     *)
(* MixFromTo (792-793, 802), with nothing in between: the model is of a    *)
(* build that loads it once in each place.                                 *)
AdvanceTimeAndMix(bytes, out) ==
  /\ At("idle")
  /\ Primary \in Users => ~InCall(Primary)
  /\ playing
  /\ frames < MaxFrames
  /\ frame' = [Idle EXCEPT !.pc = IF playCursor + bytes < Size THEN "notify" ELSE "end",
                           !.base = playCursor, !.bytes = bytes, !.out = out]
  /\ writeCursor' = IF playCursor + bytes < Size THEN playCursor + bytes ELSE writeCursor
  /\ signalled' = [n \in DOMAIN Positions |-> 0]
  /\ frames' = frames + 1
  /\ UNCHANGED <<playing, looping, playCursor, mix, dataVars, user>>

(* At the end a sound goes on from its beginning or stops.                 *)
ReachEnd ==
  /\ At("end")
  /\ frame' = [frame EXCEPT !.pc = "notify", !.way = IF looping THEN "wrap" ELSE "stop"]
  /\ writeCursor' = IF looping THEN Wrapped ELSE 0
  /\ UNCHANGED <<playing, looping, playCursor, signalled, mix, frames, dataVars, user>>

(* The ranges whose positions are signalled: up to the end, and, in a      *)
(* second round, from the beginning.                                       *)
Rounds == IF frame.way = "wrap" THEN 2 ELSE 1
SecondEndWrapped == Wrapped
SecondEnd == IF frame.bytes >= Size THEN frame.base ELSE Wrapped
NotifyRange ==
  IF frame.round = 2 THEN 0 .. SecondEnd - 1
  ELSE frame.base .. (IF frame.way = "within" THEN Unwrapped ELSE Size) - 1

(* NotifyInRange: while the event is set the cursor is at the position.    *)
Notify ==
  /\ At("notify")
  /\ frame.notify <= Len(Positions)
  /\ IF Positions[frame.notify] \in NotifyRange
       THEN /\ frame' = [frame EXCEPT !.pc = "restore", !.prev = playCursor]
            /\ playCursor' = Positions[frame.notify]
            /\ Signal(frame.notify)
       ELSE /\ frame' = [frame EXCEPT !.notify = @ + 1]
            /\ UNCHANGED <<playCursor, signalled>>
  /\ UNCHANGED <<playing, looping, writeCursor, mix, frames, dataVars, user>>

Restore ==
  /\ At("restore")
  /\ frame' = [frame EXCEPT !.pc = "notify", !.notify = @ + 1, !.prev = 0]
  /\ playCursor' = frame.prev
  /\ UNCHANGED <<playing, looping, writeCursor, signalled, mix, frames, dataVars, user>>

NextRound ==
  /\ At("notify")
  /\ frame.notify > Len(Positions)
  /\ frame' = IF frame.round < Rounds
                THEN [frame EXCEPT !.round = 2, !.notify = 1]
                ELSE [frame EXCEPT !.pc = "move"]
  /\ UNCHANGED <<cursorVars, mix, frames, dataVars, user>>

(* What is left to do when the frame has been mixed.                       *)
Mixed == frame' = IF frame.way = "stop" THEN [frame EXCEPT !.pc = "stop"] ELSE Idle

NeedsMoreLate == frame.way = "wrap" /\ Unwrapped > allocated
NeedsMore == frame.way = "wrap" /\ Unwrapped + Block > allocated

MovePlayCursor ==
  /\ At("move")
  /\ playCursor' = CASE frame.way = "within" -> Unwrapped
                     [] frame.way = "wrap"   -> Wrapped
                     [] frame.way = "stop"   -> 0
  /\ IF frame.out = 0 THEN Mixed ELSE FrameGoes(IF NeedsMore THEN "grow" ELSE "mix")
  /\ signalled' = [n \in DOMAIN Positions |-> 0]
  /\ UNCHANGED <<playing, looping, writeCursor, mix, frames, dataVars, user>>

(* A short sound is repeated in memory until one pass reaches far enough.  *)
Grow ==
  /\ At("grow")
  /\ bufferCS = Nobody
  /\ allocated' = Unwrapped + Block
  /\ buffer' = Replicated(buffer, Unwrapped + Block)
  /\ FrameGoes("mix")
  /\ UNCHANGED <<lockBuf, locked, numRemaining, bufferCS, lockBufferCS, written, sound,
                 version, cursorVars, mix, frames, user>>

-----------------------------------------------------------------------------
(* MixFromTo: the play cursor is read once more, and says also whether the *)
(* last sample has a successor to interpolate with.                        *)
MixEnd == CASE frame.way = "within" -> playCursor
            [] frame.way = "wrap"   -> Unwrapped
            [] frame.way = "stop"   -> Size
LastSample ==
  \/ frame.way = "stop"
  \/ frame.way = "within" /\ playCursor >= (IF looping THEN allocated ELSE Size) - Block
OutEnd == IF frame.way = "stop" THEN (frame.out * (Size - frame.base)) \div frame.bytes
          ELSE frame.out

MixFromTo ==
  /\ At("mix")
  /\ IF MixEnd > frame.base /\ OutEnd > 0
       THEN /\ mix' = [NoMix EXCEPT !.pos = frame.base, !.size = MixEnd - frame.base,
                                    !.outSize = OutEnd, !.last = LastSample]
            /\ FrameGoes("sample")
       ELSE Mixed /\ UNCHANGED mix
  /\ UNCHANGED <<frames, cursorVars, dataVars, user>>

(* One turn of the loop in Mix, which divides only once, before the loop:  *)
(* the input moves on by size*OutBlock/outSize bytes, whole bytes in       *)
(* inOffset and 1024ths in frac, with the rests carried along.             *)
Step       == mix.size * OutBlock
FracNumer  == Step * 1024
Remainder  == mix.offsetRemainder + Step
FracError  == mix.fracError + (FracNumer % mix.outSize)
FracCarryLost == 0
FracCarry == IF FracError >= mix.outSize THEN 1 ELSE 0

(* Where the turn reads: a sample, and the next one to interpolate with,   *)
(* which is the last one at the end of the sound.  The unsigned difference *)
(* of a range shorter than a sample is huge and leaves the next one alone. *)
FirstSample == mix.inOffset - (mix.inOffset % Block)
NextSample ==
  IF mix.last /\ mix.size >= Block /\ FirstSample + Block > mix.size - Block
  THEN mix.size - Block ELSE FirstSample + Block

Sample ==
  /\ At("sample")
  /\ mix.i < mix.outSize
  /\ mix' = [mix EXCEPT
       !.i = @ + OutBlock,
       !.inOffset = @ + Remainder \div mix.outSize,
       !.offsetRemainder = Remainder % mix.outSize,
       !.fracError = FracError - FracCarry * mix.outSize,
       !.frac = (@ + FracCarry + FracNumer \div mix.outSize) % 1024]
  /\ UNCHANGED <<frame, frames, cursorVars, dataVars, user>>

MixReturns ==
  /\ At("sample")
  /\ mix.i >= mix.outSize
  /\ mix' = NoMix
  /\ Mixed
  /\ UNCHANGED <<frames, cursorVars, dataVars, user>>

StopAtEnd ==
  /\ At("stop")
  /\ playing' = FALSE
  /\ NotifyOfStop
  /\ frame' = Idle
  /\ UNCHANGED <<looping, playCursor, writeCursor, mix, frames, dataVars, user>>

-----------------------------------------------------------------------------
FrameStep ==
  \/ ReachEnd
  \/ Notify
  \/ Restore
  \/ NextRound
  \/ MovePlayCursor
  \/ Grow
  \/ MixFromTo
  \/ Sample
  \/ MixReturns
  \/ StopAtEnd

UserStep(u) ==
  \/ \E offset \in Offsets \cup {writeCursor}, bytes \in Lengths : LockReturns(u, offset, bytes)
  \/ UnlockReturns(u)
  \/ \E loop \in BOOLEAN : PlayReturns(u, loop)

UserCall(u) ==
  \/ Lock(u)
  \/ \E n \in 1 .. locked.bytes : Write(u, LockedBytes(n))
  \/ \E bytes \in {written, LockedBytes(locked.bytes)} : Unlock(u, bytes)
  \/ Play(u)
  \/ \E position \in Seeks : SetCurrentPosition(u, position)
  \/ Stop(u)

Next ==
  \/ FrameStep
  \/ \E bytes \in FrameBytes, out \in OutBytes : AdvanceTimeAndMix(bytes, out)
  \/ \E u \in Users : UserStep(u) \/ UserCall(u)

(* The frame thread runs, and so does a thread inside a call.  The game    *)
(* need never unlock what it has locked.                                   *)
Spec == Init /\ [][Next]_vars
FairSpec == Spec /\ WF_vars(FrameStep) /\ \A u \in Users : WF_vars(UserStep(u))
-----------------------------------------------------------------------------
(* Every variable has its type, and the cursors lie in the buffer.         *)
Positive == {n \in Nat : n > 0}
Places == {"idle", "end", "notify", "restore", "move", "grow", "mix", "sample", "stop"}
DataTyped ==
  /\ allocated \in Nat /\ allocated >= Size
  /\ buffer \in [0 .. allocated - 1 -> Nat]
  /\ sound \in [0 .. Size - 1 -> Nat]
  /\ lockBuf = <<>> \/ lockBuf \in [0 .. Size - 1 -> Nat]
  /\ locked \in [offset : Nat, bytes : Nat]
  /\ numRemaining \in Nat /\ version \in Nat
  /\ bufferCS \in Users \cup {Nobody} /\ lockBufferCS \in Users \cup {Nobody}
  /\ user \in [Users -> {"game", "lock", "locked", "written", "unlock", "play"}]
  /\ written \subseteq 0 .. Size - 1
FrameTyped ==
  frame \in [pc : Places, way : {"within", "wrap", "stop"}, base : 0 .. Size - 1,
             bytes : Nat, out : Nat, round : {1, 2}, notify : Positive, prev : 0 .. Size - 1]
MixTyped ==
  /\ mix \in [pos : Nat, size : Nat, outSize : Nat, last : BOOLEAN, i : Nat, inOffset : Nat,
              offsetRemainder : Nat, frac : Nat, fracError : Nat]
  /\ mix.frac < 1024
StatusTyped ==
  /\ playing \in BOOLEAN /\ looping \in BOOLEAN
  /\ playCursor \in 0 .. Size - 1 /\ writeCursor \in 0 .. Size - 1
  /\ signalled \in [DOMAIN Positions -> 0 .. 2]
  /\ frames \in Nat
CursorsTyped == StatusTyped /\ FrameTyped /\ MixTyped
TypeOK == DataTyped /\ CursorsTyped

(* A frame signals each position that the cursor passes, and signals it    *)
(* once, also when the sound is so short that a frame plays it many times  *)
(* (soundhooks.cpp:836-840); the order of things matters there (784-787).  *)
Passed ==
  {q \in 0 .. Size - 1 : \E k \in 0 .. frame.bytes - 1 :
     q = IF frame.way = "wrap" THEN (frame.base + k) % Size ELSE frame.base + k}
NotifiedOnce ==
  At("move") =>
    \A n \in DOMAIN Positions :
      Positions[n] # OffsetStop =>
        signalled[n] = IF Positions[n] \in Passed THEN 1 ELSE 0

(* Whenever nobody changes the buffer it holds, in the original and in each*)
(* of the copies made for looping, the sound the game has put there and no *)
(* bytes of an older one: locking, growing and copying do not interfere    *)
(* (soundhooks.cpp:368-372, 494-517, 848-857, 893-898).                    *)
SoundKept ==
  bufferCS = Nobody => \A q \in 0 .. allocated - 1 : buffer[q] = sound[q % Size]

(* The mixing loop, which holds no lock, is given a range of the buffer    *)
(* (soundhooks.cpp:802, 816, 857).  If the range is of whole samples it    *)
(* reads inside the buffer, the sample it interpolates with included, and  *)
(* not past the end of a sound that stops there (soundmixing.cpp:66-71),   *)
(* whatever the size of the buffer and wherever the game seeks.  A range   *)
(* that ends in a part of a sample, which a size or a seek that is no      *)
(* whole number of samples leaves at a stop, and a seek during the frame   *)
(* as well, takes it over its end: its first sample begins inside what is  *)
(* allocated, the next one less than a sample behind.                      *)
ReadsInside ==
  /\ mix.pos + FirstSample + Block <= allocated
  /\ mix.pos + NextSample + Block <= allocated
  /\ mix.last => NextSample + Block <= mix.size
ReadsNear ==
  /\ mix.pos + FirstSample < allocated
  /\ mix.pos + NextSample < allocated + Block
MixInBounds ==
  At("sample") /\ mix.i < mix.outSize =>
    IF mix.size % Block = 0 THEN ReadsInside ELSE ReadsNear

(* "so mix only until the end of this sound buffer" (soundhooks.cpp:810):  *)
(* it holds if the game sizes the buffer and seeks by whole samples, and   *)
(* not otherwise.                                                          *)
WholeSamples == Size % Block = 0 /\ \A n \in Seeks : n % Block = 0
MixAlwaysInBounds == At("sample") /\ mix.i < mix.outSize => ReadsInside

(* "needs to be very exact (can't drift even by 1 or clicking becomes      *)
(* audible)" (soundmixing.cpp:56): without dividing, the loop is at the    *)
(* exact place of the input for each byte of output.                       *)
ResampledExactly ==
  At("sample") =>
    /\ mix.inOffset = (mix.i * mix.size) \div mix.outSize
    /\ mix.frac = ((mix.i * mix.size * 1024) \div mix.outSize) % 1024

(* "amount of next sample to use, out of 1024 (for linear interpolation)"  *)
(* (soundmixing.cpp:54), of which the code keeps 1024ths of a byte: the two*)
(* agree for samples of one byte only.                                     *)
Interpolates ==
  At("sample") =>
    mix.frac = ((mix.i * mix.size * 1024) \div (mix.outSize * Block)) % 1024

(* The frame always ends, although the game may hold a lock for ever: that *)
(* is what lockBuf is for.  It does not end if two threads lock the buffer *)
(* at once: the second waits for the first while it holds what the first   *)
(* needs to unlock (soundhooks.cpp:368-369, 494).                          *)
LockedTwice ==
  \E u, v \in Users : u # v /\ user[u] = "lock" /\ lockBufferCS = v
FrameReturns == ~At("idle") ~> At("idle") \/ LockedTwice
=============================================================================
