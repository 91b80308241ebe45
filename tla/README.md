# Hourglass-Resurrection in TLA+

Hourglass is a tool for tool-assisted runs of Windows games. It makes a game
deterministic, so that a *movie*, the input of every frame, always reproduces
the same run, and it lets the user save and load the state of the game and
rerecord from there. The program is a debugger (`source/application`) and a DLL
that it injects into the game (`source/hooks`). Two promises carry everything
else: the time the game sees is a function of what the game does, and the movie
leads to the state the game is in. The modules here state and check these two,
and what the parts around them promise: the command slot between the two
processes, timers, reused threads, emulated input, emulated sound buffers, the
capture of AVI files and the search in the game's memory.

## 1. The system

### Components, their state and their operations

| Component (source) | State | Operations | Hard behaviour | What makes it correct |
|---|---|---|---|---|
| Deterministic timer (`hooks/dettime.cpp`) | `ticks`, carried fraction, delay given but not paid, overshoot of the last frame | `EnterFrameBoundary`, `ExitFrameBoundary`, `AddDelay`, `GetTicks` | re-entrance, 32-bit wrap, rate changes, real clock | time independent of the real clock, forward only, no drift, bounded debts |
| Frame boundary (`hooks/wintasee.cpp`) | `inFrameBoundary`, `dllInitializationDone`, input of the frame | `FrameBoundary`, `PostDllMain`, `SaveOrLoad`, `HandlePausedEvents` | callbacks into the game before and after the timer; recursion | every frame entered is left, one input per frame |
| Waits (`hooks/hooks/waithooks.cpp`) | none of its own | `MySleep`, `MyWaitForSingleObject`, ... | polling with frames in between, time-out against signal | a wait returns, and by its time-out |
| Movies, savestates, recovery (`application/wintaser.cpp`, `Movie.cpp`) | `movie`, the file, `playback`, `finished`, `nextLoadRecords`, 21 slots, `recoveringStale...` | record, play, stop, save, load, recover, refresh, hotkeys, menu commands | long sequences of commands, stale slots, UI thread against debugger thread | the movie reproduces the game, a slot holds what its movie leads to |
| Command slot (`wintasee.cpp:608-643`, `wintaser.cpp:1803-1864`, `2507-2597`) | one string, `requestedCommandReenter`, `cannotSuspendForCommand`, suspend counts | `SendCommand`, `ClearCommand`, the loops of both sides | three writers, no handshake | one input per frame, a frame handled once, threads resumed, neither side stuck |
| Timers (`hooks/hooks/timerhooks.cpp`) | pending `SetTimer` set, list of multimedia timers | `ProcessTimers`, `TickMultiMediaTimers`, set, kill | callbacks outside the lock, recursion | a timer fires once for each set, on time, without drift |
| Thread wrappers (`hooks/hooks/threadhooks.cpp`) | wrapper per thread: `idling`, `comatose`, exit event, exit code | create, exit, reuse, terminate, `GetExitCodeThread` | reuse against the signalling of the previous exit | no job lost or run twice, exit codes and events of the right thread |
| Input (`hooks/hooks/inputhooks.cpp`) | buffered device data, key states | acquire, read, resize, advance per frame | readers against the frame, nested frames | no event lost silently or repeated, a loop that polls a key ends |
| AVI dumping (`application/AVIDumping`) | two halves of a ring of slots, two encoder threads, file and streams | frame boundary, encode, split, close, codec dialogs | hand-over between threads, change of files in the middle | frames in order, each in one file, nobody waits for ever |
| RAM search (`application/ramsearch.cpp`) | list of regions, three arrays of values, counts, undo copy | search, eliminate, undo, change of size, automatic search, update per frame | UI thread against debugger thread; three descriptions of one set | the list holds exactly what matched |
| IPC (`hooks/ipc.cpp`) | command frame, spin lock | `SendIPCMessage`; handling in the debugger | many threads, one channel | each message handled once |
| Sound (`hooks/hooks/soundhooks.cpp`) | emulated buffers, cursors, locks, notifications | lock, unlock, play, stop, mix per frame | the game's sound thread against the frame | sound kept in every copy, mixing inside the buffer and without drift, each position signalled once |
| RAM watch, input setup, GUI, symbols, injection, registry, module, window and graphics hooks | tables and wrappers | | platform calls | not modelled, see section 6 |

### Interaction

The game presents a picture or sleeps; a hook calls `FrameBoundary` in the DLL.
It lets posted messages and due timers run (they may call `FrameBoundary`
again), enters the timer, and sends `CMD_FRAME_BOUNDARY` to the debugger through
a breakpoint. The debugger thread runs its own `FrameBoundary`: it hands picture
and sound to the AVI dumper, updates the RAM search, refreshes stale savestates,
looks at hotkeys, stays there while paused, and then records or plays one movie
frame into the game's memory. A SAVE or LOAD is a command left in the command
slot; the DLL finds it, asks the debugger to carry it out, and goes to the same
boundary again. Back in the game the DLL spreads the frame's input to key
states, device buffers and messages. The UI thread of the debugger issues menu
commands, captures, searches, and starts and stops the debugger thread.

## 2. The plan

Done, in this order: `DetTimer` and `DetTimerTwins`, `Rerecording`,
`CommandSlot`, `Timers`, `Threads`, `InputQueue` and `Input`, `AviDumper`,
`RamRegions` and `RamSearch`, `Sound`; proofs of all the safety properties that
the runs check.

Each component is a module of its own. They meet at the frame boundary, and each
module has the boundary as an action that stands for the rest: `DetTimer`
supplies the time that `Timers` takes as an input, `CommandSlot` the "one input
per frame" that `Rerecording` takes for granted, `Input` starts from the input
that `Rerecording` plays, `Sound` from the bytes of a frame, which `DetTimer`
counts.

What could come next: waits on several objects, the self-ticking of `GetTicks`,
`CommandSlot` with stale states, several sound buffers.

## 3. The modules

### DetTimer

One thread of the game, the primary one, as a stack of activations of
`AddDelay` and `FrameBoundary`. The game's own code may run, and call, at the
bottom of the stack, in the callbacks at the start of a `FrameBoundary` and in
the dispatch of input at its end. `FrameBoundary` is cut into the steps between
which other code runs:

| Action | Code |
|---|---|
| `FrameBoundary` | entry: copy of the frame rate, then callbacks (`wintasee.cpp:478-507`) |
| `BeginFrame`, `BeginFrameDividesByZero` | close an outer frame, `EnterFrameBoundary` (512-518; `dettime.cpp:393-557`) |
| `Command` | the debugger holds the game; the frame rate may be edited |
| `EndFrame` | end of dispatch, `ExitFrameBoundary` (853-854; `dettime.cpp:365-391`) |
| `AddDelay`, `AddDelayFrame`, `AddDelayReturn` | `dettime.cpp:598-728`, one loop iteration per `AddDelayFrame` |
| `PostDllMain` | end of the DLL's initialization, on a thread of its own |
| `SetFastForward` | written by the debugger at any time |

The real clock is an input of `BeginFrame`: the milliseconds since the last
entry. `DWord` stands for 2^32, all of the timer's counters are taken modulo it
as in the code, and the differences the code casts to `int` are signed.
`desiredDeltaTime`, `soundTicks` and `timedFrames` are histories: what the
throttle asked for, what the sound mixer was given, and how many frames there
were. Left out: `GetTicks` and its self-advancing of games that poll the time,
the non-deterministic timer behind rate 0 (it has no state that this one reads),
and the trade of time between both when the user switches.

`DetTimerTwins` extends it with a second instance of it. Both get the same calls
and frame rates; real clock and fast-forward are chosen for each.

### Rerecording

The debugger thread and the user. A deterministic game's memory is the sequence
of inputs it has consumed, so `game` is that sequence; that this holds is what
`DetTimer` is about. `pc` is the place in the command loop: `RefreshSavestates`
and `CheckHotkeys` at "refresh", a decision at "hotkeys": a command, another
round while paused, or `PlayFrame` / `RecordFrame`. SAVE and LOAD are atomic and
return to "refresh", as re-entering the same boundary does (`CommandSlot` is
about that return). `Session` holds the start and the end of the debugger
thread, including the restart that a recovery posts to the UI thread
(`restarting`). A slot has the flags `valid` and `stale` of the code, its movie,
and its memory (`allocated`, `game`). The comparison that `RefreshSavestates`
makes may read beyond a short movie; its outcome is then either. `parted` is a
history: the movie has finished or a message box has said that movie and state
differ. `UserActions` selects what the user of an instance does, so that each
run explores one kind of use in depth.

Left out: rerecord counts, fast-forward, skipping of frames without a picture,
the binary file format, thread contexts and page protection.

### CommandSlot

Two loops around one boundary. `gpc` is the place of the game's frame thread in
`FrameBoundary` of the DLL (`NewFrame`, `Report`, `CheckSlot`, `ExecuteSave`,
`ExecuteLoad`, `ExecuteEvents`, `ClearSlot`), `dpc` that of the debugger thread
in its own (`Enter`, `ResumeAllExcept`, `Poll`, `AfterKeys`, `Loop`,
`SuspendAllExcept`, `Inject`). The debugger runs while the game is stopped at
its breakpoint. Hotkeys reach the debugger thread at `Poll`; pause, frame
advance and true pause are menu entries that change flags at any moment. A load
brings back the frame number, the suspend count and the number of inputs that
were saved. `MenuSpec` adds the menu's own "save state" and "load state",
which the UI thread sends while the game may be running.

### Timers

The primary thread as a stack of activations of `ProcessTimers` and
`TickMultiMediaTimers`. `pending` is the set of `SetTimer` timers with the order
and the equality of the code's `std::set` (id only: two windows with the same id
collide); `ProcessTimers` collects the due ones, and `CallTimer` calls them one
by one. The list of multimedia timers grows at its tail with increasing ids, so
it is a function of ids. A callback is the game: it sets and kills timers, lets
time pass, and may reach a boundary, which serves timers again. A node that is
deleted under an outer walk sets `crashed`. `overshot`, `prevTime` are the
code's; `ideal`, the whole number of periods since the timer was set, and
`fired` are histories.

### Threads

A job is one call of `CreateThread`. `twi` holds a wrapper's
`ThreadWrapperInfo` and its place in `MyThreadWrapperThread`; `primary` the
place of the game's primary thread in `MyCreateThread`, `MyTerminateThread` or
`MyWaitForSingleObject`, each cut where the other side can see the difference:
`ReuseThread`, `ResetExitEvent`, `LetGo` against `BecomeIdle`, `SignalExit`,
`Reawaken`. Handles are jobs; `idOf` is the table of handles, in which a reused
wrapper forgets its old handle. `thread`, `started` and `ended` are histories.

### InputQueue and Input

`InputQueue` is the promise of a buffered device: a bounded queue that keeps the
oldest events and says when it has lost some. `Input` is the code: a ring with
`size`, `used` and `startOffset` in `data`, `AddEvent`, `GetDeviceData`,
`SetBufferSize`, acquiring, the event handle; `ProcessFrameInput` key by key
(`ProcessKey`, `ProcessMouse`), the messages sent to the window (`SendMessages`,
whose handler may enter `FrameBoundary` again), `GetAsyncKeyState` with its
"pressed since" bit and its suppression of loops that wait for a key
(`StartSpin`, `Spin`). `ImplementsQueue` states that `Input` implements
`InputQueue` under the mapping from the ring to its contents. `game` is a
history of what the game has been told.

### AviDumper

The debugger thread (`pc`), the two encoder threads (`encoder`) and the user.
Video and audio are two halves of one queue with the same protocol: a slot is
claimed, waited for, filled, marked; the encoder waits for the mark, writes,
clears. A capture is a sequence of files: `CloseAVI` flushes, stops both
encoders, deletes the queue and closes; `OpenAVIFile` chooses the segment and
may discard a file that is almost empty; a change of size, a full file and the
user's "split" go through both. The codec dialogs may be cancelled. `captured`
and `files` are histories: what was handed over and what was written.

### RamRegions and RamSearch

`RamRegions` has `DeactivateRegion`, the erasure of an address range from a
region in its five cases. `RamSearch` has the list of regions, the arrays of
current and previous values and numbers of changes over it, and the operations
of the dialog; the update at each frame by the debugger thread. Both threads
search, so a search is a step that cuts the list (under the lock, as in the
code) and a step that resets the flags afterwards. The loops of the code that walk
the list while they cut it are functions of the number of turns: `SearchTurn` looks
at one item or goes on to the next region, `EliminateTurn` applies one range to one
region, and `Search` and `EliminateRanges` are as many turns as the loops can take.
Item and byte addresses, sizes of one to eight bytes, aligned or not, regions that
do not begin at a multiple of the size, and areas that adjoin each other, which
`VirtualQueryEx` lists one by one, are kept; contents are sequences of bytes
compared for equality.

Each region is updated on its own: the update reads it and, with a second call that
may fail as a whole, the bytes after it that its last items need; it copies up to
the first item of the next region and counts a change for every item that a changed
byte belongs to, once, with the help of `nextValid`. What the properties compare the
arrays with is the history variable `past`: memory at the last update, the items it
could read, and the values when `s_prevValues` became due. An item is `Readable` if
it lies in one area and the bytes after its region could be read, and those after
every other region that begins inside it: such a region writes what is left in
the buffer over the last bytes of the item (`ramsearch.cpp:526`). That is how the
code behaves, and no comment promises otherwise. `Copied` has, for each item, the
bytes whose previous value is copied: the copy ends with the region (511, without
the `endSkipSize` of 549), so the bytes of an aligned item beyond the end of its
region, which was cut at another size, are not among them.

Two steps are coarser than the code. `Eliminate` cuts the list in one step, while
its walk (2112-2132) holds no lock against the update of the other thread.
`FinishPrune` counts the results and stores the number in one step, while the code
counts under the lock and stores after it (1155): two searches that end at once can
store their numbers in the wrong order, and the older one stays until the next
search.

### Sound

One emulated buffer. The game's threads (`Users`) call it; the frame thread
(`Primary`) plays it, and may be one of the users between its frames.

| Action | Code |
|---|---|
| `Lock`, `LockReturns` | `m_bufferCS`, then `m_lockBufferCS`; the locker gets a copy and keeps the second only (`soundhooks.cpp:362-417`) |
| `Write` | the game fills the bytes it locked, or the first of them |
| `Unlock`, `UnlockReturns` | copy back, into the copies made for looping too; free `lockBuf`; leave both (`490-520`) |
| `Play`, `PlayReturns`, `Stop`, `SetCurrentPosition` | status bits and cursors, with no critical section; a seek goes to any byte, modulo the size |
| `AdvanceTimeAndMix`, `ReachEnd` | the cursor is read; the frame ends within the sound, wraps around, or stops at its end |
| `Notify`, `Restore`, `NextRound` | the positions of each range; the cursor stands at the position while its event is set |
| `MovePlayCursor`, `Grow`, `MixFromTo`, `StopAtEnd` | the rest of the frame, which repeats a short sound in memory until one pass is long enough |
| `Sample`, `MixReturns` | one turn of the loop of `soundmixing.cpp`, which carries remainders and never divides by a variable rate twice |

The contents of the sound are numbers of locks: each locker writes its own
number, so that an old byte is told from a new one. `sound` is what the game has
put into the buffer, `written` what the locker has filled since its lock,
`signalled` the signals in the current round of notifications, `version` and
`frames` count: all five are histories. Each read and write of a status word is
one step, and products are taken to fit in 32 bits. The frame reads the play
cursor once where the code names it twice with nothing in between
(`soundhooks.cpp:792`-793, 802), which a compiler may load once or twice. Neither
the size of the buffer nor a seek need be whole samples, as in the code (336,
432); the bytes of a frame are (775).

### MC modules

`MCDetTimer`, `MCDetTimerTwins`, `MCRerecording`, `MCCommandSlot`, `MCTimers`,
`MCThreads`, `MCInput`, `MCAviDumper`, `MCRamSearch` and `MCSound` hold what only
TLC needs. `*_proofs` hold the theorems (section 5); those about `CommandSlot` are
in `Threads_proofs`, which extends both modules: they are the two components in
which threads hand work to each other, and they share no state. (That is why the
specification of `CommandSlot` is called `SlotSpec`.)

## 4. The runs

| Run (cfg) | Question | Bounds and why they are enough |
|---|---|---|
| `DetTimerTwins` | Is the game's time independent of clock and fast-forward, does it only move forward, does the sound keep step? `Deterministic`, `TimeGoesForward`, `NoDrift` | rate 70 (14 and 15 ticks in turn, remainder) or the system timer; a sleep of 99 ticks, longer than the six frames that may be deferred; nesting of three; the counter starts 124 before its end and wraps; elapsed real time shorter and longer than a frame |
| `DetTimerRates` | Are debts bounded and does every sleep return under changing rates? `DeferredDelayBounded`, `PacingBounded`, `AddDelayReturns` | rates 50 and 70, so that a frame may be shorter than the overshoot of the one before, and 0, the system timer, under which a sleep does not return |
| `Rerecording` | Does the position stay in the movie, is released memory ever loaded? `MovieInBounds`, `LoadableHasMemory` | two slots give the movies of different length that a read-only load needs; everything a user can do to them, loading during a recovery too; one input, since only lengths and memory matter here |
| `RerecordingRecovery` | Does the movie reproduce the game and the slot? `MovieReproducesGame`, `SavestatesReproduce` | one slot, two inputs, three frames: enough to branch, to cut a branch back and to go stale on it; every recovery, no loading during one |
| `CommandSlot` | Does each frame get one input, is it handled once, are threads resumed, does either side hang? `OneInputPerFrame`, `HandledOnce`, `ThreadsRun`, `GameGoesOn`; deadlock is checked | two slots, three frames, three commands: a load of another frame between two pauses |
| `Timers` | Does a timer fire once, on time, in tempo, and at last? `OneLife`, `TempoKept`, `NeverEarly`, `TimersServed` | three timers, two windows that share ids, periods of two so that a callback may be a whole period late, nesting of two |
| `Threads` | Are jobs, exit codes and exit events those of the right thread? `JobKept`, `ExitCodeIsOwn`, `ExitEventSound`, `JobStarts` | three jobs on two wrappers: one is reused while the other is fresh |
| `AviDumper` | Do the files hold what was captured and does nobody wait for ever? `CapturedInOrder`, `FilesSound`, `SoundLeadBounded`, `DumperReturns` | two slots (the ring is full after two pictures), three frames, two sizes, files of at most three frames, one split; the thresholds of the code scaled to 1, so that both sides of each are reached |
| `RamSearch` | Do list, indices and arrays agree, and does a search keep what matches? `ResultsSound`, `ArraysSound`, `SearchExact`, `EliminatesNothingElse` | three areas, of four, two and two bytes, the second next to the first and the third apart from it in memory, all next to each other in the arrays; items of one and two bytes; a game that writes to some bytes of an item, to all of them and to an item that lies across two areas; two operations and two frames; one search by value and one by address, up to an odd one, which cuts an aligned item of two bytes; an undo copy of at most three regions, the number there is at first |
| `Input` | Is the ring a queue, is the game told of data and, once, of presses, does a polling loop end? `NoSilentLoss`, `EventMeansData`, `ImplementsQueue`, `JustPressedOnce`, `SpinEnds` | two keys, one of them a toggle; buffers of one and two events, and a request for three that is capped; nesting of two; the limit of polls scaled from 4096 to 2 |
| `Sound` | Does the buffer keep the game's sound, does mixing stay inside it and in tempo, is each position signalled once, does the frame end? `SoundKept`, `MixInBounds`, `ResampledExactly`, `NotifiedOnce`, `FrameReturns` | a buffer of two samples of two bytes, output samples of one; seeks to the odd byte 5 % 4, which leave a stopped sound one or three bytes, less than a sample and more; frames of one sample and of three, within the sound and more than once around it; no output or three bytes, which divide nothing evenly; a position at the start and one in the last sample; two users, one of them the frame thread; two locks that wrap around, so that the second finds what the first left; `lockBuf` stays allocated after one unlock instead of eight |

One run ends in a counterexample, because a comment of the program says
otherwise:

| Run | What it shows |
|---|---|
| `RamSearchEliminate` | Two selected results in one region, the first at its start: the walk leaves the region after the first and never finds the second (`ramsearch.cpp:2120`). |

The models also have these behaviours, which a property in the module states and
TLC refutes, without a run of their own:

* `FrameRateHonoured`: a sleep shorter than a frame is subtracted twice from it
  (`dettime.cpp:428`). `ZeroFramerateDisables`: a frame rate of 0 read before the
  callbacks is used after them, a division by zero (`wintasee.cpp:484`).
  While the rate is 0 `AddDelay` does not return, which `AddDelayReturns` has to
  except.
* `LoadRestoresMemory`: a good state loaded during a recovery brings its movie
  and not its memory (`wintaser.cpp:1539`). `RefreshMatchesExactly`: a stale slot
  is overwritten one frame early (2021). `RecoveryPlaysMovieWithin`: a recovery
  that restarts the game plays the movie file, not the slot's movie (1485).
  A recovery that continues from the target's own frame never pauses (2095); a
  recovery from a slot longer than the current movie keeps the old position
  (1720); after a read-only load beyond the end a finished movie still records
  (1963).
* `HandledOnce` under `MenuSpec`: a save from the menu sets
  `requestedCommandReenter` outside the boundary, and the next frame is taken for
  a repeated one.
* `OneShotOnce`: a one-shot multimedia timer whose callback reaches a boundary is
  called again (`timerhooks.cpp:497`), and its node is deleted under the outer
  walk.
* `WaitEnds`: a wait for a thread that has ended does not return when its wrapper
  was reused in between (`waithooks.cpp:359`).
* `PressIsReported`: a release clears the mark of the press
  (`inputhooks.cpp:1260`), so a key pressed and released between two calls of
  `GetAsyncKeyState` was never pressed, though 1145 says that it is reported.
* `MixAlwaysInBounds`: the game may seek to any byte (`soundhooks.cpp:432`) and ask
  for any size (336). From such a place to the end of the buffer it need not
  be whole samples, and a sound that stops there is read over its end
  (`soundmixing.cpp:66`-71), by up to two samples less a byte, though the frame mixes "only until the end of this sound buffer" (`soundhooks.cpp:810`);
  so is a range that a seek during the frame ends in the middle of a sample.
  `MixInBounds` therefore asks for all reads inside the buffer for ranges of whole
  samples, and bounds them for the others.
* `PreviousOfEveryByte`: a search for items of one byte cuts a region in the middle
  of an aligned item of two, the size is set to two before the next frame, and the
  copy to `s_prevValues` leaves the item's second byte as it was
  (`ramsearch.cpp:511`), though the array is said to hold the "values at last search
  or reset" (133). `PreviousIsOfLastSearch` leaves out those bytes and no others.
* `Interpolates`: the loop keeps the fraction of a byte, not of a sample
  (`soundmixing.cpp:54`), so sounds whose samples are longer than a byte are
  interpolated wrongly.
* `FrameReturns` has to except `LockedTwice`: a second thread that locks a buffer
  waits for the first while it holds what the first needs to unlock
  (`soundhooks.cpp:369`, 495), and the frame waits for both.
* `SilenceIsForLateAudio`: silence is inserted although sound and picture started
  together, when the audio encoder is slow (`AVIDumper.cpp:1216`).

**Deadlock** is checked for `CommandSlot` only: elsewhere the game may stop
calling, and the number of frames and operations is bounded (`MaxFrames`,
`MaxOps`, `MaxKeys`, `MaxJobs`, `MaxSet`, `MaxTime`, `MaxSplits`, `MaxPolls`,
`MaxUnlocks`;
`MaxDepth` bounds nesting). **Symmetry**: the inputs of `RerecordingRecovery`
are interchangeable, and only safety is checked there.

**Fairness.** Windows' scheduler runs a runnable thread, so a thread inside
modelled code goes on: `WF(Step)` of `DetTimer`, and `PostDllMain`, a started
thread; `WF(Game)` and `WF(Debugger)` of `CommandSlot`; `WF(Dumper)` and
`WF(Encode)` of each half; `WF(WrapperStep)` of each wrapper and `WF(HookStep)`;
`WF(ProcessTimers)` and `WF(Serve)` of `Timers`; `WF(Spin)` of a game that is in
its polling loop; `WF(FrameStep)` of `Sound` and `WF(UserStep)` of each user,
which is inside a call (the game need never unlock what it has locked).
`DetTimer` assumes that the user does not leave the game
paused for ever. `Timers` asks strong fairness of the return of callbacks at
each depth: a callback is game code that ends, however many timers it serves in
between. Nothing is assumed of the game's calls or of the user.

**Mutants.** Each property is violated when one operator of the model is
replaced by a plausible mistake that is defined right before it: a fraction
dropped, an unsigned comparison, a release that keeps the state loadable, a
frame taken for new each time, a timer that stays pending, a wrapper reused while
busy, a queue that is not flushed, a range that crosses a gap, an event that is
set once only, a copy that is not replicated, a carry that is lost.

## 5. The proofs

The theorems hold for every value of the constants that meets the named
assumptions of the modules, which the runs evaluate.

`DetTimer_proofs`, for every set of rates, delays and clock readings, every time
scale, every width of the counter and every bound:

* `TypeCorrect`: `Spec => []TypeOK`. `TypeOK` is inductive as it stands, because
  it says that the carried fraction is below *some* selectable rate (the rate it
  was left by, which need not be the current one) and that frame length and
  overshoot are at most `LongestFrame`. The lemmas about the frame's length need
  `LongestFrameAssumption`: no rate and left-over fraction give a longer frame.
* `NoDriftCorrect`: `Spec => []NoDrift`, inductive together with `TypeOK`; its
  one interesting step is `BeginFrame`, where the division with remainder of
  accumulated fraction and rate balances.
* `DeferredDelayCorrect`: `Spec => []DeferredDelayBounded`. Not inductive: the
  delay may exceed six frames while a sleep is in progress. `DelayInv` adds that
  every sleep on the stack has a limit of at most six of the longest frames and
  that, when no sleep is on the stack, the delay is within six frames. A sleep
  returns only within its limit, a frame never adds to the delay, and a sleep
  that ends inside the callbacks of another leaves the outer one on the stack.
* `TimeGoesForwardCorrect`: an action property, from the types alone. It needs
  `WidthAssumption` to say that a delay is a DWORD: it is what the game passes.
* `PacingCorrect`: what is left of a frame after the overshoot of the one before
  lies within one longest frame of zero (`Rest`), and multiplying by the divisor
  of the time scale and dividing by the scale rounds towards zero, so that the
  result times the scale is at most what was left times the divisor: the throttle
  asks for no more real time than the frame's length at the selected speed, and
  is behind by no more than the longest frame at that speed.
* `DeterministicCorrect`, about `TwinSpec`: `Deterministic` is inductive as it
  stands; every shared action makes the same choice in both twins because its
  guard and its assignments to the compared variables read none that differ.

`Rerecording_proofs`, for every number of slots, every set of inputs, every
selection of user actions and every bound:

* `TypeCorrect`: inductive as it stands. What needs an argument is that a frame
  that is played, compared or copied exists.
* `LoadableHasMemoryCorrect`: the lemma `SlotsChange` reduces every action to
  what it does to the slots: nothing, one save, one slot gone stale or refreshed,
  or one of three ways to drop all of them; none of these leaves a slot loadable
  without memory.
* `MovieReproducesGameCorrect` and `SavestatesReproduceCorrect`, for users that
  do not load a state during a recovery
  (`"LoadWhileRecovering" \notin UserActions`); such a load does bring a movie
  without its memory. Neither invariant is inductive alone: a save takes over
  game and movie, and a load gives them back, so both are proved together as
  `Reproduces`. The interesting cases are recording over the middle of a movie,
  the load under a movie that is longer or shorter, read-only or not, and the
  start of a recovery from a state that agrees with the movie of its target up to
  its own frame.
* `MovieInBoundsCorrect`: inductive with the types, for all users; a load takes
  over movie and position together, and cutting a movie cuts it at the position.

`Threads_proofs`, about `CommandSlot`: `SlotTypeCorrect`;
`InputPerFrame`, `NewFrameOnce` and `OthersRun` come from
one invariant, `SlotInv`, that says, for each place of the two threads, what the flags, the
slot, the suspend count and the two counters are (`Running`, `Reporting`, ...,
`Clearing`) and that a savestate was taken at such a place (`Stored`), so that a
load returns to one. It holds while the menu sends no command.

`Timers_proofs`: `TempoIsKept` and `NotBeforeItsTime` from `TempoKept`, the types
and `Past` (no activation carries a time that lies ahead); `TimersLiveOnce` from
`Numbered`: numbers above `serial` are unused, and two pending timers never share
one.

`Threads_proofs`: `JobsAreKept`, `ExitCodesAreOwn` and `ExitEventsAreSound` from
an invariant per wrapper: its place against its flags (`PlaceOK`), which jobs of
it are over (`OverOK`), whose exit code it holds (`CodeOK`), its event
(`EventOK`); `PrimaryOK` says what a half-finished `CreateThread` has claimed.

`Input_proofs`: `TypeCorrect` (reads and writes stay within the buffer through
every resize), `NoSignalMissed`, `PressReportedOnce`; each needs only one short
conjunct besides the types. `ImplementsQueueCorrect` is the refinement of
`InputQueue`, action by action: the lemmas about the ring say what reading the
head, adding behind the tail and copying to a resized buffer do to the sequence
`Contents`, in particular where the indices wrap. `NothingLostSilently` needs two
more conjuncts: `FrameInv`, that under a handler and under a nested frame every
frame stands at its messages, with its input processed, and `KnownInv`, that the
keys the game knows, after the events in the buffer, are held as in the new input
for the keys that are processed and as in the previous one for the others.

`AviDumper_proofs`, for every number of slots, set of sizes, limit and bound:

* `CapturedInOrderCorrect`, from `DumperInv`. `ControlInv` says where the debugger
  is and what it knows there: which halves are captured while `CloseAVI` runs and
  until the flags are restored, that a stream is open only for a captured half,
  that the queue is told to end only while its threads are joined. `HalfInv` says of
  each half that what is written is a prefix of what was captured, that the ring
  holds exactly the rest, from the read index on and in order (`Ring`), except for
  the slot in the encoder's hands, that a queue at rest is empty, and that after
  the flush everything is written. So an encoder that takes the slot at its read
  index writes the next captured item. `Written` is a concatenation over the files;
  its definition in the library is recursive, and `FlattenAppend` and the lemmas
  before it derive the one equation that is needed, by taking the least index at
  which two functions could differ.
* `FilesSoundCorrect`, from `DumperInv`, `SizeInv`, `SegmentInv` and `FilesInv`.
  `SizeInv`: while there is a video stream, its file and all slots have the size of
  the dumper. `SegmentInv` follows the segment number and the flag
  `oldIsBasicallyEmpty` from the call of `CloseAVI`, where the limit is looked at,
  to the file that is opened after it: the last file, with what its queue still
  held then (`Total`), is below the limit and a ring more (`AlmostEmptyAt`).
  `SegmentOrder` keeps segment numbers positive and growing.
* `SoundLeadCorrect`, for sounds of one frame each, from `FirstAlone`, that the first segment of a capture is
  alone, so that the encoders' counts are the lengths of what is written, and
  `LeadInv`, which gives the sound one more while a picture is handed over and its
  sound is not. The one interesting step fills in silence (`SilenceOvershoot`): the
  slot to be filled is free, so the ring is not full, and what the ring does not
  hold is counted. The search for this invariant showed that the bound does not
  hold without a video stream: a capture of sound only, whose choice of a codec is
  cancelled, leaves its file open, and the next capture may put any sound into it
  before its first picture. The property says so since.

`Sound_proofs`, for every size, sample width, set of positions, frame lengths and
users: all three invariants from `IInv`, in three parts. `DataInv` says, for each
place of each user, who owns which critical section, what `lockBuf` holds, and
that `buffer` is the sound and its copies whenever nobody owns `m_bufferCS`, which
gives `SoundKeptCorrect`. `FrameInv` says what each way of ending a frame needs of the memory allocated, and that
the counters of the loop are the quotient and the remainder of the exact place,
which gives `ResampledExactlyCorrect`, and with it `MixInBoundsCorrect`: the
quotient stays below the size of the mix, rounding down to a whole sample keeps
it and its successor inside if the range is of whole samples, and moves either by
less than a sample if it is not. For a game that sizes and seeks by whole samples,
which the theorem assumes openly (`WholeSamples`), `FrameInv` also says that
cursors, frames and ranges are whole, hence `WholeSamplesInBounds`: the loop never
reads outside. `WrittenInside` keeps a locker inside its
bytes. `SMT` does not multiply two variables well, so what is needed of division
is proved first, as the lemmas `Division`, `Monotone` and `DivisionUnique`.
`NotifiedOnceCorrect` adds `NotifyInv`: in each round, of the positions that are
behind the one in turn, those that this round or an earlier one was to hit are
signalled once and the others never, and a second round is made only by a frame
that wraps around; the ranges of the two rounds do not meet.

`RamSearch_proofs`, for every memory of areas in order whose bounds are multiples of
the sizes of items, all sizes of one, two, four and eight bytes, every selection and
every bound:

* `DeactivateExact`: the five cases of the erasure of `RamRegions` at once.
* `EliminatesNothingElseCorrect`. `ListsInv` says that the list and its undo copy
  are good lists (`GoodList`: every region non-empty, inside one area and at the
  place of its values, the regions in order and apart); the lemma `ReplacedGood`
  carries that over one erasure in the middle of a list, and the ranges that are
  made of a selection (`RangesSelected`) hold only bytes of selected items, so that
  no turn of the walk takes others.
* `SearchExactCorrect`, from `ListsInv` and an invariant of the loop,
  `SearchStates`: the cursor is in step with its region (`Cursor`), every item that
  matches is still there (`Kept`), and an item that is there matches or is still
  ahead of the cursor (`Ahead`), whichever of the five erasures the turn makes. That
  the loop ends within the turns it is given is `Passed`: an address takes two
  turns at most, one as an item and one as the end of a region.
* `ResultsSoundCorrect`, from `ListsInv`, `CountInv` and `ArraysInv`. `CountInv` says
  that the number shown is that of the items unless a search has just cut the list;
  `CountItems` is the lemma that `CountRegionItems` adds up the multiples of the
  size in each region, for a region that begins or ends between two items as well.
  `ArraysInv` types the three arrays: `UpdateRegionsType` carries it through the
  update byte by byte, with the sets of counted items that the carried `nextValid`
  allows. `RegionsSound` is `GoodList` of both lists.
* `ArraysSoundCorrect`, from `ListsInv`, `ArraysInv` and `HistoryInv`, in three
  steps. *One region*: `ByteAt` says what the loop over its bytes has done up to an
  index; its part `ValidAt` is what makes the counts right: the entry of `nextValid`
  for an item that has counted lies behind the item, that of one that has not lies
  before the current byte, and the entry of the item that ends at a byte is the one
  that the item after the next byte takes over (`ValidShift`). So an item counts if
  and only if one of its bytes up to there differs (`NumAt`). *All regions*:
  `ListAt` says that each index is copied by one region and counted by one, though
  each region reads into those after it, since it copies only up to the first item
  of the next (`CopyEndFacts`) and the places of the regions in the arrays are in
  the order of memory (`PlacedOrder`, from `AreasInOrder`). *An item*: the region
  that copies a byte of it is its own or one that begins inside it, and both read
  that byte (`OwnRegion`, `LaterRegion`), hence `ItemShown`, `ItemCounted` and
  `ItemCopied`. `HistoryInv` then says what the three properties say of the items
  listed for all items read, and that while a copy is due the reference values are
  the current ones; without that a copy at the next frame could not be related to
  the search before. For previous values it speaks of bytes and not of items
  (`Remembers`): a copy of the values of a region is as long as the region, so of an
  item that begins in it and ends behind it the last bytes stay what they were
  (`ramsearch.cpp:511`), and only the bytes copied are known. Counts wrap around
  (`NextCount`). The search for the proof
  showed that `Readable` had to look at every region that begins inside an item and
  not only at its own. The instance of `RamSearch.cfg` does not reach that case: it
  takes items of four bytes, with regions of one byte left between gaps.

The loops of this module are recursive functions over a number of turns. The
library's theorems about such definitions take operators as parameters, which the
provers cannot instantiate; the lemmas `IterateExists` and `Induction` state for
functions and sets, by way of the least number, that the function of a loop exists
and that what every turn keeps holds after all of them.

**Only model-checked:** the liveness properties `AddDelayReturns`, `GameGoesOn`,
`TimersServed`, `JobStarts`, `DumperReturns`, `SpinEnds` and `FrameReturns`, which
are out of the prover's reach.

## 6. What is not modelled

Within the modelled components:

* Timer: `GetTicks`, the non-deterministic timer. Waits: several objects,
  messages, other threads than the primary one.
* Command slot: declined saves, read-only loads and stale states (`Rerecording`
  has them), shutting down. A deallocation by the UI thread in the middle of a
  save.
* Timers: the modes that run timers on other threads, 32-bit wrap, timers that
  signal events, `timeSetEvent` and `timeKillEvent` of other threads than the
  primary one (the code lets any thread change the list, which has no lock).
  Threads: the modes without wrappers, two creators at once, handles of other
  objects (`synchooks.cpp`), a `ResumeThread` that fails for the private handle
  of an idle wrapper (`threadhooks.cpp:258-264` gives the wrapper up): the game
  cannot close that handle, and only the system's own `TerminateThread`, left out
  as well, could end such a thread.
* Input: joysticks, XInput, mouse messages, time stamps, the synchronous key
  state; unlocked access of other threads to the buffer; mouse and keyboard that
  share a table of slots.
* AVI: sounds that do not last exactly one frame (with video on, the code counts
  sound by its time and drops the fraction of a frame, `AVIDumper.cpp:645-649`; the
  model counts one per slot, so `SoundLeadBounded` speaks of sounds of one frame
  each and not of the rounding), the encoder's own failures while a file is open, the forced end of a
  thread after five seconds, conversion of pictures and sound, a UI thread that
  closes the file during a frame. An assignment to a `WaitableBool` is one step.
* Sound: several buffers, formats, frequencies and volumes; a change of format or of
  notification positions (`SetNotificationPositions` frees the list that a frame
  may be walking) during a frame; one thread that locks twice; capture, DirectMusic and the wrappers of DirectSound; the
  alignment of the output; overflow of products. Not stated as a property: a
  `Play` or a seek of another thread during a frame is overwritten by it, and a
  looping buffer that is stopped in the middle of a frame is rewound.
* RAM search: a memory layout that changes during a search, the list view, the
  watch window, comparison by order.

Components left out:

* IPC: one spin lock.
* Graphics, registry, module and window hooks: wrappers of platform calls that
  reach the modelled parts through `FrameBoundary` and the timer.
* Input setup, menus and dialogs, symbols, injection, checksums, logging: user
  interface and sequential platform code.
