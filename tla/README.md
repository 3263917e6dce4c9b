# Verification project for 2EZConfig

2EZConfig lets arcade rhythm games (EZ2DJ, EZ2Dancer, Sabin Sound Star) run on
an ordinary PC. A DLL loaded into the game's process replaces the cabinet's
I/O ports, its copy protection, its DirectSound and parts of DirectDraw; a
launcher edits bindings, patches and settings and starts the game. The DLL adds
up to nine threads to a program that was written for none of them, and the
launcher hands its user's choices to another process through files: that is
where its correctness is hard. This project models those threads, what they
share, those files, and what must hold of them.

Paths below are relative to the repository's root; `hypersonik/` stands for
`src/libs/hypersonik/src/`.

## 1. The system

| Part | State it keeps | Operations | Interacts with |
|---|---|---|---|
| Command channel (`hypersonik/queue.c`, `snd-service.c`) | two shared lock-free stacks (intake, exhaust), a stash per client, the render thread's chamber and magazine | open, close, allocate, submit; intake, execute, exhaust | DirectSound buffers and the reaper post commands, the render thread executes them |
| Sound lifetime (`ds-api.c`, `ds-buffer.c`, `reaper.c`, `wasapi.c`, `snd-mixer.c`) | reference counts, streams, sample memory, the mixer's list, the reaper's lists, its fence and stop flag | create, duplicate, AddRef, Release, methods; mix; reap | the channel, for every command |
| Playback (`ds-buffer.c`, `snd-stream.c`) | playing, looping, position | Play, Stop, GetStatus, Set/GetCurrentPosition; render | the channel; shared atomics |
| Samples (`ds-buffer.c`, `snd-buffer.c`, `converter.c`) | shared samples, a converter and its own bytes per interface | Lock, Unlock, duplicate | the render thread reads the samples |
| Audio equaliser (`src/2ez-dll/audio-eq`) | fader values, coefficients, filters | the pretended mixer's controls; a period of audio | the game; the render thread |
| Input manager (`src/libs/input/input_manager.cpp`) | per device: button and axis states, output values, enabled and pending flags; capture; mouse bindings; callback | report handler, snapshot, capture, setLight, disableOutput; pump, output and flush threads | all I/O below, the launcher |
| EZ2DJ and EZ2Dancer input (`ez2dj_io_input.cpp`, `ez2dancer_io_input.cpp`) | the port cache, the coin's edge and pending flags | updatePortCache on two threads; the game's port reads | input manager, bindings |
| Sabin I/O (`src/2ez-dll/sabin-io`) | a ring in the game's memory, what was sent, a serial parser | input thread, serial write, output thread | input manager, the game |
| Lights (`ez2dj_io_output.cpp`, `ez2dancer_io_output.cpp`) | lamp values, dirty flag | port writes; light thread | input manager's outputs |
| Bindings (`src/libs/bindings/bindings.cpp`) | bindings, virtual turntables | load, save, held, positions, VTT thread | input manager, settings |
| Patch store, settings (`src/libs/patches`, `src/libs/settings`) | patch definitions and state; two JSON files | load, merge, save, apply in three phases | DLL start-up, launcher |
| DLL start-up (`src/2ez-dll/dll.cpp`) | what has been initialised | DllMain, init thread | all of the above |
| Launcher (`src/2ezconfig-exe/main.cpp`), injector | tabs, what is listened for, the light under test, the processes watched | edit, save, test, play, watch | input manager, settings, the game's process |
| Hardlock emulator, DirectDraw fixes, hooks, logger | seeds; surfaces | | the game |

What is hard in it: interleavings without locks (the channel, the coin, the
dirty flag, capture), resources freed while another thread may use them (the
reaper), wake-ups (reaper, output thread, Sabin's message), partial failure
(buffer construction, HID reports, patch groups), values copied and used later
(snapshots, looping and playing flags, the mouse bindings), numbers that wrap or
round (turntables, ring positions, play cursors), and files rewritten in place.
`PROJECT.json` lists each hazard at its line with the properties that would
catch it, or says why none does.

What makes each part correct:
- channel: commands come out once, in the order in which they went in, and
  never while a client still holds them; the render thread is never starved;
- lifetime: nothing is used after it is freed, everything released is freed;
- playback and samples: a sound that was started is heard, stops when told and
  only then; what is heard is what was written;
- input: ports end up agreeing with the controls; one coin per press; every
  change of a button reaches Sabin's game, in order;
- lights: the last value set is shown; a whole serial command is obeyed;
- bindings: what is saved is what is shown; only what is pressed is bound;
- settings and patches: two settings files that can be read are of one save; no
  patch in the game's code that was not ticked, and every ticked one there that
  could be written; the DLL, where it gets in, before the game runs; no process
  injected at every poll.

## 2. Modules and how they correspond to the code

### Sound

`CommandChannel` (the promise). Queues of commands are sequences. Per client a
stash (`pool`), the shared `intake` and `exhaust`, the render thread's
`chamber` (`snd_service.cmds_chamber`); `held[c]` are the commands the client
has allocated and not submitted. `AllocRecycled`, `SpillExhaust` and `AllocNew`
are the three cases of `snd_client_cmd_alloc`. `leaked` are the commands freed
together with the stash of a client that closes.

`LockFreeQueue` (the implementation). The same operations over `next` pointers
and head/tail words: every load, store and compare-and-swap that another thread
can observe is a step; list surgery on private items (the reversal) is one
step, since no other thread reaches these items. Items are names that are
recycled, so ABA can happen. `Channel == INSTANCE CommandChannel` maps the
stacks to sequences (a stack, reversed), with the commit point at the
successful compare-and-swap. That it implements the channel is checked and
proved, and carries over what is proved of the channel: no command twice, none
lost, no chain with a cycle. The channel's own invariants (`OwnedOnce`,
`ChamberEmptyBetweenBatches`) are stated of the links, through `Channel`; the
abstract module has no run of its own.

`SoundLifecycle`. The DirectSound object's start and failed start, the game's
thread (create, duplicate, AddRef, Release, methods), the render thread (intake,
each command, mix, callbacks, exhaust), the reaper (check, sleep, take, submit,
wait, reset, destroy). `Release` is split into the steps of `ds_buffer_unref`:
the count, the hand-over to the reaper, the notification of the source buffer of
a duplicate, which may cascade. The channel is used through its promise, a FIFO
`intake`: `LockFreeQueue` is what justifies that.

`Playback` looks at one sound more closely than `SoundLifecycle`, whose methods may
post a command or not: the game's flags `playing` and `looping`, its calls, the
render thread's insertion (`inserted`), the stream's looping flag (`loops`) and
position (`pos`), atomics that both threads share. The two loads of
`snd_stream_is_finished`, the two stores of a PLAY, and the load and the store of
`snd_stream_render` are steps of their own. `Rendered` is the loop of
`snd_stream_render`, as a recursive function.

`SampleBuffers` is how the samples get there. A buffer in the system's format
hands out pointers into the samples; any other hands out `conv_bytes`, allocated
by its first Lock, and Unlock converts all of them. Duplicates share the samples
and not the bytes; they exist from the start or are made later. `Spans` are the one
or two pointers of a Lock as the code computes them: the first is cut at the end of
the buffer, the second is not (`ds-buffer.c:637`). The game writes through pointers
that stay in the buffer; of others the model does not say what they hit. `DestFrames` the quotient of `converter_calculate_dest_nbytes`,
`Converted` what Windows' codec makes of the data. `meant` and `heard` remember
what the game wrote, and through which interface last.

`AudioEq` are the tone controls: the stores of `EqProcessor_updateBass` and
`-Treble` one by one on the game's thread, the copies of `syncCoefficients` one
by one on the audio thread, with a filter's coefficients in two parts so that a
copy can be torn. `enabled` is read once a period, at its start.

`Sound` composes the three: the game's one thread makes one call at a time, of
any of them, and filters run between mixing and the next intake. `Cursor` is
`GetCurrentPosition`. Samples and tone controls share nothing but that thread, so
`topic` chooses what the game does: it plays, it plays and fills the sound as
well, or it turns controls.

### Input and lights

`PortInput`. The two threads that run `updatePortCache` of EZ2DJ and EZ2Dancer
(`poll`, and `pump` as the input manager's callback) with one step per access to
shared data; the report handler; `setInputCallback` as the two stores it is; the
game's read of the coin port. A port stands for one control bound to it, since
all bits of a port are computed and stored together; `wasHeld` is the plain
`bool s_coinWasHeld`. `Setups` are the devices connected and the bindings.

`Turntable`. One turntable port, from a mouse, an axis or two keys: positions in
eighths of a step that run past both ends, `vttThreadFunc` key by key, both
threads that compute and store the port, and the axis whose declared range is
widened by what is reported.

`SabinInput`. The input thread button by button and byte by byte (a name stands
for its characters), the ring's two positions, the message, and the game reading
as much as it is told of.

`GameInput` composes them: a behaviour exercises one (`part`), while the others
rest; `quiet` says that nobody touches the controls any more.

`LightOutput` is the output half of the input manager: `setLight` and
`disableOutput`, the auto-reset event, the output thread's pass and recheck, the
flush thread, and reports that may fail. `GameLights` extends it with the port
writes of EZ2DJ and EZ2Dancer, the serial parser of Sabin, the dirty flag and the
light thread; `LightTest` with the launcher's Test button. `GameOutput` composes
them: one manager, and one `user` of it.

### Launcher and start-up

`BindingEditor`. The Buttons, Analogs and Lights tabs frame by frame: which tab is
shown, the rows drawn, the click of the frame, listening with its one-frame
delay (`wasListening`), the pop-ups; the pump thread's capture in steps between
them; bindings to and from the settings' JSON (`ToJson`, `FromJson` with their
defaults); the input manager's own copy of the mouse binding.

`PatchStore` has only operators: parsing that stops at a bad patch, shared and
user patches merged by id, saved state by id through nested patches, scan groups
over an image, and a phase as the order in which it applies patches and, depth
first, those enabled in them. `Settings` is the launcher as a writer: the
extraction of `patches.json`, loading, detection, the window, and a save, which
truncates both files and closes them in the other order. The game's file may be
complete before the second is truncated: what does not fit the stream's buffer is
handed to the system at once (`SaveWritesGame`, `settings.cpp:57`). A kill at any
moment leaves what was handed over; a power loss is not modelled. `asked` remembers
which contents of the pair a reader may meet.

`StartUp` is what comes of it. The launcher creates the game suspended, runs
`LoadLibraryA` in it and resumes it; the load may fail without anyone noticing
(`LoadLibrary`: the DLL stays out), other failures end the process. `InitThread`
goes on to I/O, the early and the normal patches, while a game that was packed
decrypts itself at a moment of its own, over whatever has been written. The watch's
poll is a step per look, one per injection, which looks the name up again, and one
for the decision to go on; processes come and go in between, under numbers that the
system may give again. `wanted` remembers what was chosen when `DllMain` ran,
`settled` which phases found decrypted code, `attempts` and `strays` how often a
process was injected after the watch had found it, or another.

`MCLauncher` composes `StartUp` and `BindingEditor`: they share the settings file,
in parts that neither looks at of the other's, so a behaviour is of either
(`editing`).

### Proofs and instances

Eight modules hold theorems: `CommandChannelProofs`, `QueueProofs` (of
`LockFreeQueue`), `LifecycleProofs`, `PlaybackProofs`, `SampleProofs` (of `Sound`),
`InputProofs`, `OutputProofs` and `LauncherProofs`; section 4 says what they prove.
The `MC*` modules give the constants their values. A definition whose
comment starts with "Mutant:" is a plausible mistake in the definition that
follows it; no specification uses it. Substituting it must break a property,
which shows that the property can fail at all.

### Abstractions

- The game calls DirectSound from one thread. `reaper->cli` is used by the game's
  thread to allocate and by the reaper to submit, two ends that do not meet.
- Target is 32-bit x86: an aligned word is read and written whole, the weak
  compare-and-swap does not fail spuriously, stores are seen in program order
  as far as the code's atomics ask for it. A release build: `assert` is off.
- A sample is who wrote it; volumes, names and logging are left out; a light is
  on or off; a HID report is all of a device's outputs, accepted or not; a patch
  writes its id at named sites, and its saved state goes by its id, so within a game
  an id is one patch (the launcher's file would mix two); a serial or ring name stands for its characters.
- The bindings of lights are injective, and devices do not come and go.
- A site of the game's code is one place; a release of a game may lack the code that
  a scan group looks for at some of them (`Lacking`). What two patches write to one
  site depends on their order, which the model has and no property speaks of.
- Compositions by `part`, `user`, `topic` and `editing` rest on the parts' sharing
  no variable: what a part that rests would do changes nothing the other reads.

## 3. Runs

| Run | Instance | What it shows |
|---|---|---|
| `queues` | 2 clients, 3 commands | types; every command in one place; the chamber empty between batches; the queues implement `CommandChannel`; a held command is not linked; the render thread is not starved |
| `lifecycle` | 2 handles, 2 references, 1 command waiting | nothing used after free, tasks submitted once and only when dead, the fence never stale; released buffers are freed; `reaper_free` gets its thread back |
| `failed_alloc` | allocations may fail | finding: an incomplete buffer is handed to the reaper |
| `sound` | 6 samples, periods of 4, 5 calls of a game that only plays, 4 of one that fills as well, a buffer in 3 formats, with its duplicate from the start or later; 3 turns of the controls over 3 values | every PLAY posted is heard from the start, the mixer ends as the last command says; what is heard is what was written; the cursor is off by one frame at most, and inside where nothing is converted; filters settle; the render loop's positions for every length to 5 and period to 12 |
| `cursor_past_end` | as `sound` | finding: the cursor of a sound that plays can be one past the buffer |
| `playback_status` | a buffer of 3, periods of 2 | finding: `playing` is not up to date after GetStatus |
| `game_input` | EZ2DJ by keyboard, by pad, a dance platform; a mouse, an axis, an unbound turntable, with keys; a plain and a service button, a ring of 6 | ports settle on the controls; with the poll thread alone the coin counts exactly the presses; the table is where it was turned; the ring tells everything, in order |
| `dj_coin_twice` | a pad with a coin button | finding: one press read as two coins |
| `game_output` | 2 devices of 2 outputs, 3 lights, one unbound, 1 failed report; symbols for 4 of the parse buffer; 2 tests | the lamp's last value reaches the device for good; no update forgotten; whole serial commands are obeyed |
| `light_test_stuck` | 1 device, 1 click | finding: `disableOutput` overtakes the report that darkens the light |
| `launcher` | 3 games, patches of every shape, 2 versions of `patches.json`, 1 kill, 1 process, packed or not, of 2 releases; 3 button rows, a button and a hat, 2 clicks | readable files are of one save; what is in the image was chosen, what was chosen is in it; the DLL not late; bindings saved, mouse in step, only pressed controls bound |
| `watch` | 3 processes of two names and two numbers, no patches | none injected twice in one role; every game is tried, except where the number was the one noted last |

Bounds and why they are enough. Two clients and the render thread are all the
parties a compare-and-swap of the channel can meet in pairs, and three commands
let one be pushed, executed, recycled and pushed again between the load and the
swap of another thread, and give a reversal a middle. Two handles form a reaper
batch of two, a duplicate with its source, or a dead buffer beside one that plays;
a second reference makes a release that is not the last. More handles are left to
the theorems, which are for any number. `MaxIntake` limits only what the game posts ahead of the render
thread: reaper commands always enter. `MaxPresses` = 2 is a press that is noted,
released and pressed again. A buffer of 6 under periods of 4 has its end within a
period, at a period's end and, looping, at every even offset; 5 calls are a play
to the end, a rewind, a status and a play with its stop; 4 (`MaxFills`) are a lock
and unlock of each interface, in any order: the duplicate may exist from the start. Three turns set a band, flatten it and set it again
while the other is on. A ring of 6 holds one command and part of a second, at
every offset. A turntable's reports sweep below zero at once and past 255 with
the keys. Two edits are a choice and its nested patch, or a choice and another game;
one kill falls at any point of any save. Three processes under two numbers are one
found, one that takes its name before the injection and one that gets a number
again; the watch injects whatever the patches are, so `watch` has none. Two clicks are the start of a capture and its
end by another row, tab or pop-up. `MaxFailures`, `MaxRefs` bound histories of
events that repeat alike.

Deadlock is checked except where the system really stops, and the configuration
says why: a NULL callback argument kills the process or a full ring ends the
claims (`game_input`, `dj_coin_twice`), a light test is over (`game_output`), a
game is through (`launcher`, `watch`), the audio device fails for good or a failed
allocation ends the program (`lifecycle`).

### Fairness

- Render thread: the audio device asks for buffers as long as it works. The
  thread may exit between two batches at any time in `CommandChannel`,
  `LockFreeQueue` and `SoundLifecycle`, and liveness there says "unless it has
  gone"; in `Sound` it runs.
- Reaper: runs whenever it is not asleep in its condition variable. It may wake
  spuriously; nobody owes it that, so liveness rests on `WakeConditionVariable`.
- Poll, pump, virtual turntable, light, output, flush and input threads and the
  launcher's watch: loops with a sleep or a wait that the scheduler runs again.
  No report, click, press or port access is owed.
- Sabin's game reads its ring when it has been sent a message.
- A call the game or the user interface has begun goes on to its end.

## 4. Proofs

Every theorem is for all values of the constants the modules' assumptions allow;
TLC evaluates the assumptions on the instances of section 3. An invariant was
checked by TLC on its run before it was proved. Recursive functions are
reasoned about as follows: a witness with the recursion's equation is given, so
the `CHOOSE` of the definition has that equation, and two functions with it cannot
differ at a smallest number (`Smallest`, from the well-foundedness of `<`).

**Channel** (`CommandChannelProofs`): the types, `OwnershipSafe` (no command in two
places or twice in one queue) and `ChamberEmpty`. None is inductive alone: that a
submitted command comes once into the intake needs that it was held, that held
commands are in no queue, and that no queue repeats one. `ChannelInv` says that
every queue is injective and that the places are pairwise disjoint, the stashes of
different clients included. The module is about the abstract channel; `QueueProofs`
brings its theorems to the links.

**Queues** (`QueueProofs`): `LinksImplementChannel`, the refinement, `HeldUnqueued`, and
of the links themselves `QueueTypes`, `CommandsOwnedOnce` and `ChamberIsEmpty`.
`Leads(links, h, s, end)` says that the links lead from `h` through the distinct
commands of `s` to `end`; lemma `Walk` shows that the model's recursive walk then
meets exactly `s`. Lemmas say what a push, a pop, a reversal, a relinking of the
last item and the joining of two chains do to `Leads`. `QueueInv` is `LinkInv` (each
head or tail starts such a chain; the chamber, while the exhaust is pushed, hangs
reversed between `revHead` and the tail that was read; an item being pushed is
linked to the tail that was read) with the channel's `ChannelInv` read through the
refinement mapping, which keeps chains apart: a step that writes the links of one
place cannot touch another. Each step is then a step of `CommandChannel` or leaves
its variables as they were. The proof shows why ABA is harmless here: a swap that
finds the tail it read takes, or is linked to, whatever that tail leads to now.

**Sound lifetime** (`LifecycleProofs`): `CountsStayNatural`, `NothingIsUsedAfterFree`,
`BuriedOnce`, `FenceIsWaitedFor`, from `LifecycleInv`. Its conjuncts: a count is the
game's references plus the duplicates that name the buffer as their source
(`Counted`); sources do not go round (`Acyclic`), so that samples have a
reference as long as anything that plays them (`Shared`); a buffer is alive, dying,
pending, in the batch or free, exclusively (`Buried`); samples go with the batch of
their owner or outlive it (`Backed`); for a task whose commands were sent, STOP is
the last word on its stream in the channel, or the stream is silent (`Silenced`);
the fence is in at most one command, the batch's last, so once it is up nothing
refers to the batch (`Fenced`, `Gone`).

**Playback** (`PlaybackProofs`): `OnlyAskedPlays`, and `FollowsCommands`. `PlaybackInv`
says what the render thread holds at each point of a batch, and that a GetStatus
under way remembers that the buffer was playing. `RenderedAdvances` solves
the recursion of the render loop for any length and period: modulo the length if
it loops, cut at the end if not. With it the types are inductive once a stream in
the mixer's list is before its end (`PlaybackTypes`).

**Samples and tone controls** (`SampleProofs`): the same for the composition, where
every step is a step of `Playback`, of the samples or of the controls
(`SoundTypes`, `RendersWell`, `SoundFollowsCommands`), and
- `WritesAreHeard`: pointers of a Lock that stay in the buffer reach what was asked
  for (`SpansAreCircle`: the two spans are the circular interval), bytes in use hold what was meant through
  them, an interface that needs bytes and has none has written nothing;
- `CursorIsBounded`: both conversions of a position round up (`QuotientUp`); at equal
  rates neither does anything, otherwise the cursor is at most one frame past the last,
  and finding 5 shows that it gets there; `SourceFrames` bounds the converter's input.

**Input** (`InputProofs`):
- `RingIsFaithful`: what Sabin's game has heard, continued with what is unread in the
  ring and in the thread's hands, always comes to what was sent. `Telling` is this
  continuation as a function on prefixes (unique, by `Smallest`); lemmas say how it
  absorbs a symbol written, read, or split at the ring's wrap;
- `CoinOncePerPress`: with the poll thread alone, what `updatePortCache` takes the coin
  for (`TakenFor`: what it has just looked at, then what it noted) decides whether
  a press is still owed a coin (`Owing`);
- `InputTypes`: the scripts of both threads stay well formed (`InPlace`, `Due`), a
  turntable's position stays a byte, and a service button is owed at most what
  ring and one command hold.

**Lights** (`OutputProofs`): `UpdatesAreSeen` goes by the output thread's program
points: whoever sets a light owes a signal or has given it, the event is reset
before a pass begins, a device the pass has gone by is found by the recheck.
`CommandsArrive`: the parser's buffer is what the line ends in, as long as that may
still become a command. `OutputTypes`.

**Launcher** (`LauncherProofs`). `LauncherInv` is inductive; its conjuncts are those of
the theorems on files, processes and patches:
- `FilesInv`, for `FilesAreOfOneSave`: between saves the files hold what is in memory;
  while one lasts the game's file is torn or new, the other old, torn or new, and
  whichever of old and new it is, it makes one save with the game's, since an
  operation changes only one of the two (`EditChangesOne`);
- `ProcessInv`, for `DllIsInTime`: what the launcher started runs no code before it is
  resumed, and no DLL gets into it afterwards (the watch looks for other names);
- `WatchInv`, for `NoneInjectedTwice`: between look and injection the process found has
  not been tried, nor any younger one at all (`FoundInv`); a running process that was
  tried as the one found is noted, under the number it has (`NotedInv`);
- `SettingsInv`: the launcher's memory holds a state for its store,
  and a settings file that can be read holds settings, not half of them (`IsSettings`);
- `ChoiceInv`: from loading on `patches.json` is not outdated, so it stays the one
  the settings were saved with, and loading what was saved gives back the state
  (`SavedIsLoaded`). A readable file therefore records what is chosen (`Records`),
  and while the window is open the memory does too (`Remembers`), whichever step
  of a save a kill cuts short;
- `DllInv`: `wanted` is the choice in the settings that `DllMain` has read;
- `ImageInv`, for `ChoiceIsInImage`: every byte of the image is the game's or a chosen
  patch's; and once the code is decrypted, each chosen patch is either there, or has
  its places untouched and its phase to come (`Kept`). A phase applies what is chosen
  for its timing (`ChosenByPhase`, from `OrderIsRows`: the order of application and
  the rows of the window are two recursions over nested patches), a patch that fits
  and is alone is installed by it (`PatchInstalls`) and undone by no other
  (`PatchKeeps`, `PhaseKeeps`). Nesting is well-founded by assumption;
  `NestedInduction` and `NestedRecursion` state what that gives for sets and for
  recursive functions.

`ImageIsChosen` says no more than the code keeps. It excepts a patch whose phase found
the code packed, one without a place for one of its groups in this release, two that
write one site, and a Remember 1st where super-early patches are in play
(`Overtaken`): `DllMain` applies those of the game that is selected and only then
resolves which of the two runs (`dll.cpp:167`, `177`).

`BindingsAreSaved` comes from a round trip of the JSON conversions (`BindingsComeBack`),
`MouseIsTheBound` from `BindingInv` per tab and frame; `NoStalePressIsBound` is an
action property: since a capture begins with no control known to be up, one must be
heard up and then down (`HeardStep`).

`LauncherTypes` adds the image, the watch and the window's rows.

Assumptions on constants, beyond types, and why the code has them: lights are
bound one to one (`GameLightsAssumption`) and the parse buffer has room for a
command; a ring has at least two slots and a button is not a bracket or sign
(`SabinInputAssumption`); a device is not named like the keyboard or a step
(`PortInputAssumption`); a nested patch is a patch and nesting ends, as in
any parsed file (`PatchStoreAssumption`); every version of `patches.json` loads into
lists of patches, one for each game (`LoadsAssumption`), and whoever has 6th Trax
has Remember 1st (`SettingsAssumption`, as in `game_defs.h`); bindings
found in the settings are within what the tabs allow (`EditorAssumption`); all sounds
come to one length in the system's format (`SoundAssumption`).

Every invariant a passing run checks has its theorem. Model-checked only: all
liveness and what rests on fairness, since tlapm knows no `ENABLED`; and the
findings of section 5, where the theorem would be false.

## 5. Findings

1. `failed_alloc`: the error path of `ds_buffer_alloc` (`ds-buffer.c:164-165`)
   runs the destructor of a complete buffer, which passes NULL to
   `reaper_submit_task` against its assertions (`reaper.c:254-255`).
2. `dj_coin_twice`: `s_coinWasHeld` is read and written by two
   threads; the comment at `ez2dj_io_input.cpp:120` promises an edge. The poll
   thread alone keeps the promise (`game_input`).
3. `light_test_stuck`: the launcher's test does not always end with the light
   off, against the comment at `main.cpp:1222`.
4. `playback_status`: `GetStatus` promises to bring `playing` up to date
   (`ds-buffer.c:502`) from the position and the looping flag. A sound that has
   ended and is then rewound counts as playing for good, and `Play` does nothing;
   a sound just asked to play again counts as silent until the render thread has
   executed the PLAY.
5. `cursor_past_end`: `GetCurrentPosition` converts the position with the function
   made for "calculating a buffer size" (`converter.c:66`), which rounds up. At unequal
   rates a sound that still plays can be told to be one frame past its buffer, a
   position that `Lock` refuses (`ds-buffer.c:626-630`).

Also seen, without a run of their own:
- `setInputCallback` stores the function before its argument, so a report in
  between calls it with NULL (the model then stops: `alive`). The race over
  `s_coinWasHeld` can also lose a press for as long as the button stays down.
- A second light test within the half second forgets the first, whose light stays
  on. `Play` on a playing buffer changes `looping` without telling the stream.
- `InjectDll` does not look at the exit code of `LoadLibraryA` (`injector.cpp:99-101`):
  if `2EZ.dll` does not load the game is resumed and runs without it, against the
  comment at line 149 ("DllMain runs before any game code").
- `applyTogglePatch` stops at the first scan group without a match
  (`patch_store.cpp:350-353`); `documentation/patches/README.md:112` says that groups
  are matched and patched independently.
- A Lock longer than the buffer gets a second pointer whose length is not cut
  (`ds-buffer.c:637`).
- A kill during a save may leave the new game file beside the old global file. As every
  operation of the window changes one of the two, that pair is what the settings were
  before the save or after it. After a power loss the system keeps no order between
  the files, and the pair may be of different saves.
- A `patches.json` that does not parse is never replaced (`main.cpp:234`), and a
  torn settings file keeps the launcher from opening (`main.cpp:249`).
- Super-early patches are looked up before Remember 1st is told from 6th Trax
  (`dll.cpp:167`, `177`): one chosen for Remember 1st is not applied, although
  `documentation/patches/README.md:211` says of them that they "must be in place before
  any game code runs". A failed injection is noted as done (`main.cpp:1376`).
- The watch's injection looks the name up again (`injector.cpp:171-177`): a process that
  has taken it since is injected without being noted, and tried again at the next
  poll. A game that starts between the last look and the end of the watch
  (`main.cpp:1390`) is missed, and so is one that is given the number noted last for
  its name, since nothing clears the note.
- When a converter cannot be opened `conv_bytes` is freed, and freed again with
  the buffer (`ds-buffer.c:315`).
- Bind clicked in the frame in which a listening ends leaves the tab listening
  with no capture started (`main.cpp:712`).

## 6. Not modelled, and what is next

Not modelled: the Hardlock emulator (a sequential cipher whose tables are data),
the DirectDraw translation and the thin wrappers over MinHook and files, which have
no state machine of their own; floating-point filters; volume, pan and saturation;
`SetFormat`; window layout; HID descriptor parsing; hot-plug of devices and the
input manager's destructor; the discovery of Sabin's buffer; which bit of which
port a button is, with EZ2Dancer's TEST and SERVICE masks.

Next, in order of worth:
- hot-plug: `devicesReload` against the output thread and the report handler;
- a Lock in `SoundLifecycle`, so that the double free of `conv_bytes` is seen.
