# backd: models, checks and proofs

backd is a daemon that watches files. It takes file names on its command line,
makes a *snapshot* of each (a tree of *targets* for a directory), and then, once
per second, compares every file with what it recorded last and logs what
changed. This directory holds TLA+ models of that program, the TLC runs that
check them and the TLAPS proofs about them. Paths below are relative to
`src/daemon/`; a line such as `loop.c:58` is in `srcs/` or one of its
subdirectories, a header is in `incs/`.

Contents: [the system](#1-the-system), [modules](#2-modules),
[runs](#3-runs), [proofs](#4-proofs), [deviations](#5-deviations-of-the-code-from-its-documentation),
[what is not modelled](#6-what-is-not-modelled), [plan](#7-plan).

## 1. The system

| Part | Source | State | Operations |
|---|---|---|---|
| Command line | `main.c`, `lib/args.c`, `lib/atoi.c` | `__stack`, `__top`, `getopts_t`, `__backd_args__` | `getopts_next`, `filename_stack_push/pop`, `stack_reverse_in_place` |
| Service loop | `loop.c`, `lib/time.c` | `fp`, `paths`, `fp_index`, `__terminate` | `service_init`, `handle_signals`, `spin`, the loop of `service`, `service_deinit` |
| Snapshot | `fs/fs_target.c`, `fs/events/fs_target_event.c` | the heap of `fs_target_t` | `fs_target_create` (recursive), `fs_target_event_init`, `fs_target_dealloc` |
| Rounds | `fs/routine.c`, `fs/events/fs_target_event_track.c` | `__cur_path`, the `events` array of each target | `fs_target_observe` (recursive), `fs_target_event_track`, `cmp_stat` |
| Dynamic array | `lib/array.c` | `array_t` | `array_push`, `array_insert`, ... |
| Cron strings | `lib/cron-parse.c` | five tables of flags | `cron_check` and the functions below it |
| Formatting | `lib/stringf.c` | `t_iobuf`, two static buffers | `cpyf`, `scpyf`, `slcpyf`, `ssavef`, `fputstr` |
| Other libraries | `lib/dynstr.c`, `lib/fs.c`, `lib/cmp.c` | their own | see section 6 |

How they interact. `main` fills the stack of names, parses the arguments of `-c`
(by `cron_check`, on the spot) and `-s`, turns the stack over and calls
`service` (through `backd_init`). `service_init` pops each name and calls
`fs_target_create`, which makes system calls (`lstat` twice per file, `opendir`,
`readdir`) and calls itself for each entry. The targets end in `fp`. After the
handlers for SIGINT and SIGTERM are installed, `service` alternates between
`spin(1000)`, where the flag set by the handler is looked at, and a round:
`fs_target_observe` on each target, which walks down the tree with the path in
one global buffer and makes one `lstat` per target. The daemon has one thread.
What runs concurrently are the other processes, which change the files between
any two of its system calls, the signal handler, and the clock.

What is hard, and what each part has to guarantee:

* *Snapshot.* The tree changes between the two `lstat`s of one file, between
  `lstat` and `opendir`, and during `readdir`; each call can fail. No target may
  be lost, belong to two directories or be used after it was freed; a target
  whose event array does not exist must not reach the rounds; an undisturbed
  tree must be recorded completely.
* *Rounds.* The path in the buffer must be that of the target at every depth;
  the log of a target must read as a consistent history; nothing recorded is
  rewritten; a change that stays must be recorded.
* *Service loop.* `fp` and `paths` must stay in step when files are skipped; the
  wait must be right although `get_timestamp` is the wall clock, in unsigned
  milliseconds; a signal must end the program, also one that comes in a round or
  in the last sleep of a wait.
* *Array.* No sequence of calls may pass the reserved memory, misplace an
  element, reallocate a settled buffer or free a borrowed one.
* *The daemon as a whole.* The snapshots of all files share one heap and one path
  buffer. A snapshot that failed may leave a pointer to memory that the next
  file's snapshot gets; a round must be at each target of each file once; at a
  signal everything must be freed once, wherever the thread is.
* *Command line.* Files must reach the service in their order, whatever options
  stand between them; the last `-s` and the last `-c` count.
* *Cron strings.* What is read must mean what the syntax says, with numbers in
  eight bits, and the parser must come to an end and stay within its tables.
* *Formatting.* Text is cut at the limit of the buffer and counted beyond it; the
  final NUL, the extreme integers and what a static buffer still holds from the
  previous call are where this goes wrong.

`PROJECT.json` lists the hazards one by one under `hazards`, each at its line.

## 2. Modules

| Module | Models | Kind |
|---|---|---|
| `FileSystem` | `lstat`, `opendir`, `readdir` and the other processes | external environment |
| `FsTarget` (extends `FileSystem`) | the snapshot | component |
| `Routine` (extends `FsTarget`) | the rounds on the targets of a snapshot | component, composed with the snapshot |
| `Watch` | what snapshot and rounds promise | abstract specification |
| `Service` | the service loop | component |
| `Backd` (extends `Routine`, uses `Service`) | the daemon: service loop, snapshots, rounds and release for all files | composition |
| `Array` | the dynamic array | component |
| `List` | what `array.h` promises | abstract specification |
| `CronParse` | the parser of cron strings | component, with a reference definition of the syntax |
| `ArgStack` (extends `CronParse`) | the command line | component, composed with the parser |
| `Format` | formatting into a buffer | component, with a reference definition of the text |
| `MCFsTarget`, `MCRoutine`, `MCService`, `MCBackd`, `MCArray`, `MCArgStack`, `MCFormat` | small instances | for TLC |
| `RoutineProofs`, `TreeProofs`, `WatchProofs` | theorems about the snapshot and the rounds: types and logs, the tree, `Watch` and the snapshot alone | for TLAPS |
| `ServiceProofs` | theorems about the service loop | for TLAPS |
| `ArgStackProofs` | theorems about the command line and the cron parser | for TLAPS |
| `BackdProofs` | theorems about the daemon: its parts together, the owners of targets and the rounds | for TLAPS |
| `ArrayProofs` | theorems about the array | for TLAPS |
| `FormatProofs` | theorems about formatting | for TLAPS |

Definitions called "faulty variant" in a comment, or named after what they get
wrong (`FitsInElements`, `PushPast`), are used by no specification: each is a
plausible bug in the definition below it, and shows that a property notices.

**FileSystem.** `fs` maps each path (a sequence of names) to a stat record, the
six attributes that `cmp_stat` compares, or to `ZeroStat`. `Lstat` gives the
errors the code tells apart (ENOENT, ENOTDIR, EACCES). `FsChange` is the other
processes: they create, remove and modify files at `Volatile` paths, at most
`MaxChanges` times. Times are whole seconds, so a write may leave the record as
it was.

**FsTarget.** One action per system call of `fs_target_create`: `CreateLstat`
(`fs_target_alloc` and the first `lstat`, whose failure is ignored), `EventInit`
and `EventInitFail` (the second `lstat`), `OpenDir` and `OpenDirFail`,
`ReadDir` (an entry, and the recursive call for it), `EndDir`. `frames` is the C
call stack, `heap`, `live` and `brk` are the targets in memory with their
addresses: a freed address may be given out again, and pointers to it stay in
the children arrays, as in the code. `unopened` remembers the directories that
could not be opened, for the properties only.

**Routine.** `stack` holds the activations of `fs_target_observe`, `cur` is
`__cur_path`. `StartRound` and `ObserveChild` go down (`set_current_wd`), `Track`
and `LeaveUnknown` finish a target and go up (`unset_current_wd`); `Track` is
`fs_target_event_track` with its `lstat`, comparison, push and print. Between two
actions the other processes may run. A freed target that is observed is undefined
behaviour: the process dies or finds nothing there. In `Routine` there is one
file and nothing is released; that is `Backd`.

**Watch.** For each path a log: it starts with the file's record and each look
appends what differs from the last event. The comparison is stated on whole
records (`Same`), not as the search through a table that `cmp_stat` makes.

**Service.** One action per step of the thread between two points where a signal
or a tick can matter: popping a name, the result of `fs_target_create`, installing
each handler, the tests, the sleep and the end of `spin`, the rounds, and
`service_deinit` slot by slot. `Signal` delivers SIGINT or SIGTERM at any time,
with the default action until the handler is there; `Tick` advances the clock,
`SetClock` sets it.

**Backd.** Each action is a step of `Service` together with what it does to the
targets: `PopFile` starts the snapshot of that file (`frames`), `CreateStep` is any
action of `FsTarget`, `Created` and `Skipped` follow from the address it returned,
which `at` keeps; `ObserveTarget` enters a slot's target with `Observe`, and
`Visit` and `Look` are the steps of `Routine` until the walk is back;
`DeinitTarget` frees what `fs_target_dealloc` reaches, children first (`FreedBy`),
and to free what is free may end the process (`crashed`). The steps of `Service`
that touch no target are in `LoopStep`. `Signal` and the other processes may come
between any two. `Tick` is restricted to the wait: elsewhere the clock is not
read, and `start` is taken when the wait begins. `looked` counts the visits of a
round, for the properties only.

**Array.** An array is its buffer as slots, its size, its capacity in bytes and
the flags; each action is one call, and what `notify_bug_on` would crash on is
its guard (the hardened runtime is on by default). `Move` is `memmove` on slots,
so an insert that moves one slot too few is visible; slots beyond the size are
`Junk`. `Adjust` gives every outcome of `array_adjust`: enough room, settled, at
the limit, reallocated, or failed. `call` records the last call, its arguments
and results and what the destructor got. `other` is a second array, made by
`array_pull`, `array_filter` or `array_dup`; two arrays share no buffer, so calls
on one are made when it is alone, and `concat`, `swap` and `kill` when there are
two. `array_push` is `AppendAll` with one element, `array_pushf` is `InjectAll` at
0. Where `array_slimcheck` frees the buffer the array is not used further, since
every call would be undefined behaviour. `ListOf` is the list an array stands for;
`Departs` says what the three calls do that do not do what the header says.

**List.** One disjunct per documented call, on a plain sequence: what the list
becomes, what is returned and what is destroyed. It is the header's text also
where the code does something else (section 5). It leaves open what a failed
`array_filter` destroys, of which the header says nothing.

**CronParse.** The text is a sequence of characters in which a numeral counts as
one; `Value` says what number it is written for, and `NumberAt` reduces it to
eight bits (`Byte`). `Star`, `Single` and `RangeElement` are `cron_parse_element`, `Mark`
and `LoopEnds` its loops turn by turn with the `uint8_t` counter, `ListDefault`,
`ListBegins`, `NextElement` and `ListEnds` are `cron_parse_list`, `EntryEnds`
`cron_parse_entry`, `StartCron` and `Finish` `cron_check`. `Meaning` states what a
regular string says without reading it from left to right: the string is cut at
`;`, then at spaces, then at commas, and each piece is a set of numbers.

**ArgStack.** `argv` and what its names stand for as cron strings come from
`Inputs`. The actions are the usage that `main` prints without an argument
(`NoArguments`), one turn of `main`'s loop each (`File`, `Flag`, `CronArg`,
`SecondsArg`, `Stops`), the parser while `main` is inside of it (`ParseCron`), what
follows `--` (`Rest`), `stack_reverse_in_place` (`Reverse`) and the pops of
`service_init`. `SecondsArg` has the limits of `atoi32` and the reading of its
`int32_t` as a `uint32_t`. The empty argument is one of the names: `-s` accepts it
and keeps the number it had (`Accepted`, `SecondsAfter`), `-c` an empty string.

**Format.** One action per literal character and per field; `Write` is
`iob_write`, `Text` what a field becomes, and one action for the end of each of
the five functions. The digits of integers are made as `__int` makes them, from
the right (`Numeral`); the reference (`Digits`) takes them from the value. The
cell after the last one a function may use is there, so that a write past the end
is seen. Only the static buffers outlive a call.

## 3. Runs

Every run is a module and a `.cfg` of this directory: `tlc -config X.cfg M`.

| Run | Properties | Shows |
|---|---|---|
| `snapshot` | `FsTargetTypeOK`, `EventsFollowInit`, `SnapshotIsTree`, `SnapshotComplete`, `SnapshotEnds` | every tree over four paths, three of which change up to twice during the call |
| `watch` | `RoutineTypeOK`, `EventChain`, `LogsGrow`, `EveryChangeRecorded`, `WatchesTree` | snapshot and rounds, two entries changing up to three times; refinement of `Watch` |
| `service` | `ServiceTypeOK`, `SlotsAgree`, `FreedOnce`, `PromptStop`, `RoundSpacing`, `SignalStops`, `RoundsGoOn` | two names, each created or skipped, the wait and the signals with a clock that wraps and is set twice, to the end of the program |
| `backd` | `BackdTypeOK`, `EventChain`, `ObservesItsFile`, `OneOwner`, `AllReleased`, `RoundLooksOnce`, `SignalReleases` | three names, one of them twice, one change, directories that cannot be read or searched, signals at any step, to the end of the program |
| `array` | `ArrayTypeOK`, `SizeWithinCapacity`, `BorrowedBufferKept`, `KeepsPromise`, `SettledStaysPut` | all sequences of calls; refinement of `List` but for three named calls |
| `args` | `ArgStackTypeOK`, `FilesInOrder`, `OptionsAsGiven`, `MeansWhatItSays`, `MainGoesOn` | command lines of none to four options and files, empty arguments among them, and some 6000 cron strings |
| `format` | `FormatTypeOK`, `WritesWhatFits`, `EndsWithNUL` | two calls of the five functions, every kind of field, buffers of every size |
| `snapshot_pointers` | `PointersAreTargets` | refuted, section 5 |
| `full_path` | `PrintsFullPath` | refuted, section 5 |
| `service_deinit` | `AssertionsHold` | refuted, section 5 |
| `cron_sunday` | `SundayIsSeven` | refuted, section 5 |
| `array_header` | `DoesAsHeaderSays` | refuted, section 5 |

What the properties say:

* `EventsFollowInit`: a live target has no event exactly while
  `fs_target_event_init` runs on it. `fs_target_latest_event` never reads an
  array that is not there.
* `SnapshotIsTree`: every live target is held by someone; as long as every
  directory could be opened, by exactly one holder, under the directory its path
  names, and no pointer dangles. `SnapshotComplete`: undisturbed, the snapshot
  has one target for each file it can reach.
* `EventChain`: the log of a target starts with the ACK of the snapshot; MODIFY
  and OPEN carry a record and say how it differs from the previous event; DELETE
  and FAIL carry none. `LogsGrow`: no step rewrites or drops an event, and a step
  records at most one. `EveryChangeRecorded`: a file that differs from its latest
  event is recorded, or the change undone, or the array is full.
* `ObservesItsFile`: the path buffer is empty between rounds and between files,
  and holds the path of each target on the walk.
* `OneOwner`: from `malloc` to `free` each target has one owner, a directory's
  target, a slot of `fp` or a call, and nothing points to a free one, as long as
  every directory could be opened. `AllReleased`: at the exit no target is left,
  whatever failed before, and only a directory that could not be opened leads to
  a second `free`. `RoundLooksOnce`: a round visits each target of each file
  once, entries before their directory. `SignalReleases`: a handled signal leads
  to the exit with everything freed, from any place of a round or a release.
* `RoundSpacing`: between two rounds the clock shows at least the wait, or was
  set. `PromptStop`: after a signal at most one more round begins, and none
  later than one wait. `SignalStops`, `RoundsGoOn`: a signal ends the program;
  without one rounds go on, whatever the clock was set to.
* `KeepsPromise`: every call of `array.c` leaves, returns and destroys what
  `array.h` says (`List`), except three, named in `Departs` with what they do
  instead: `array_wipe` from a position after the first, `array_swap_elems` of an
  element with itself, `array_slimcheck` of an empty array. Without the exceptions
  it is `DoesAsHeaderSays`, which is refuted. `SizeWithinCapacity`: the elements fit in the reserved bytes,
  whichever calls grew, shrank, copied or exchanged the buffer.
* `FilesInOrder`: what the service gets is the files of the command line in
  their order, at most `FILE_STACK_SIZE - 1` of them. The files of a command line
  are defined separately, as the positions that are no option, no argument of one,
  or behind `--`. `OptionsAsGiven`: the service starts with the number of the last
  `-s` that names one, as `atoi32` leaves it in a `uint32_t` (an empty argument
  is taken and changes nothing), and after `cron_check` has read the string of the
  last `-c` to its end. It says nothing of the tables: those are of that string by
  `MeansWhatItSays`, but an empty one leaves what an earlier `-c` wrote.
* `MeansWhatItSays`: for every regular cron string the tables are the union of
  what its entries say. `MainGoesOn`: `main` comes to its end, unless the string
  has a step that is a multiple of 256 (`Hangs`): no other string stops it.
* `WritesWhatFits`: the buffer gets the beginning of the text that fits, nothing
  behind it changes, and `fputstr` prints nothing of an earlier call. `slcpyf`
  returns the length of the whole text, as documented, and so do `cpyf` and `scpyf`
  for a text that fits; for a text that is cut the code and the header disagree on
  these two (section 5), and the property leaves the result open. `EndsWithNUL`: `slcpyf` is `strlcpy` with a format,
  and `scpyf` and `ssavef` end their string.

**Bounds.** The snapshot has a file, a subdirectory and a file in it, so that
recursion, return and the failure of an inner call all happen; two changes are
enough for a file to come or go between the two `lstat`s and for a directory to
change kind afterwards. The rounds have room for three events: an ACK, a change
and its sequel, and then the full array. `service` has a wait of two
ticks and a clock modulo 11, so that it wraps and so that a set clock may be
before, inside and after the wait. In `array` elements have three bytes, words
four and the initial size is two: capacities of one to four slots, some with a
rest of bytes, so that an array of three elements fits exactly, needs one growth
or two, and reaches the limit. `backd` has a directory with an entry, named
before and after another file, so that a slot is used again after a skipped file,
that an address freed by a failed snapshot goes to another file's target, and that
the release meets a target freed twice; the wait is one tick there, since `service`
examines it, the second file begins as a plain file or is missing, and the log has
room for two events. In `args` four arguments fill a stack of three names; bytes
have four bits and fields a few values, so that numbers and steps reach every
limit: below the minimum, above the maximum, beyond the byte, and zero after the
wrap. In `format` integers have eight bits, so that they have one to three digits,
and buffers up to five characters, fewer than most of the texts. All bounds are
constants of the modules (`MaxChanges`, `MaxTargets`, `MaxEvents`, `MaxElapsed`,
`MaxLag`, `MaxSteps`, `MaxLen`, `MaxSrc`, `MaxCalls`, and the sets `Inputs` and
`Calls`).

**Fairness.** The daemon is one thread that is scheduled again and again:
`FairCreateSpec` and `FairSpec` of `Routine` have weak fairness of its steps.
Nothing is assumed of the other processes, which may stop or go on until the
bound, nor of signals. `Service` adds strong fairness of `Tick`, since each `usleep` in
`spin` takes half a millisecond or more: the clock moves as long as the thread
waits. `Backd` has the same fairness for the whole thread; `FairSpec` of
`ArgStack` has weak fairness of `main`, which waits for nobody. `PromptStop` and `SignalStops` rely on `MaxLag`, the time that passes
outside of sleeps: a thread that is always scheduled a whole wait late would
never look at the flag (`loop.c:69`).

**Deadlock.** It is not checked (`CHECK_DEADLOCK FALSE`) because these programs
stop: the snapshot has returned, `fs_target_create` returned NULL, the process
died or exited, the array's buffer was freed by `array_slimcheck`, `main` handed
over to the service, and no more calls are made in `format`. That nothing
else stops them is what `SnapshotEnds`, `EveryChangeRecorded`, `RoundsGoOn`,
`SignalStops`, `SignalReleases` and `MainGoesOn` say.

## 4. Proofs

The theorems hold for every value of the constants: every set of paths and
records, every number of files, slots, events and bytes, every modulus of the
clock. They rest on the assumptions of the modules about their constants (records
are records, paths are non-empty sequences of strings, bounds are natural numbers,
no record of a file has the type unknown, the wait fits in the clock...), and on
nothing else.

| Theorem | Module | States |
|---|---|---|
| `RoutineTypeCorrect` | `RoutineProofs` | `Spec => []RoutineTypeOK` |
| `EventChainHolds` | | `Spec => []EventChain` |
| `EventsFollowInitHolds` | | `Spec => []EventsFollowInit` |
| `SnapshotIsTreeHolds` | `TreeProofs` | `Spec => []SnapshotIsTree` |
| `ObservesItsFileHolds` | | `Spec => []ObservesItsFile` |
| `FsTargetTypeCorrect` | `WatchProofs` | `CreateSpec => []FsTargetTypeOK` |
| `SnapshotCompleteHolds` | | `CreateSpec => []SnapshotComplete` |
| `LogsGrowHolds` | | `Spec => LogsGrow` |
| `WatchesTreeHolds` | | `Spec => WatchesTree` if `Len(Root) = 1` |
| `ServiceTypeCorrect`, `SlotsAgreeHolds`, `FreedOnceHolds`, `PromptStopHolds` | `ServiceProofs` | `Spec => []...` of these invariants |
| `RoundSpacingHolds` | | `Spec => RoundSpacing` |
| `LoopIsServiceHolds` | `BackdProofs` | `BackdSpec => S!Spec`: the daemon implements `Service` |
| `BackdTypeCorrect`, `BackdEventChain` | | `BackdSpec => []BackdTypeOK`, `BackdSpec => []EventChain` |
| `OneOwnerHolds`, `AllReleasedHolds`, `RoundLooksOnceHolds` | | `BackdSpec => []...` of these invariants |
| `ArrayTypeCorrect`, `SizeWithinCapacityHolds`, `BorrowedBufferKeptHolds` | `ArrayProofs` | `Spec => []...` of these invariants |
| `SettledStaysPutHolds` | | `Spec => SettledStaysPut` |
| `KeepsPromiseHolds` | | `Spec => KeepsPromise`: the array implements `List` |
| `ArgStackTypeCorrect` | `ArgStackProofs` | `Spec => []ArgStackTypeOK` |
| `FilesInOrderHolds` | | `Spec => []FilesInOrder` |
| `OptionsAsGivenHolds` | | `Spec => []OptionsAsGiven` |
| `MeansWhatItSaysHolds` | | `FieldMax[Weekday] < 7 => (Spec => []MeansWhatItSays)` |
| `FormatTypeCorrect`, `WritesWhatFitsHolds`, `EndsWithNULHolds` | `FormatProofs` | `Spec => []...` of these invariants |

The shape is the same everywhere: an invariant that is inductive, one lemma per
action that keeps it, and theorems that follow from it by PTL. TLC checks the
properties on the small instances of section 3. What follows says what
each invariant adds to the properties, and why they are not inductive without it.

**`RoutineProofs`: types and logs.** `IInv` adds to `RoutineTypeOK` and `EventChain`:

* `FramesOK`: each call in progress past its first `lstat` holds a live target,
  and no two calls hold the same one. Without it the step that appends an ACK
  could append it to a target that has one already.
* `EventsOK`: a target has no event exactly while its own call is at
  `event_init`: the property `EventsFollowInit` in the form that is inductive.
* `NamesOK`: the names of targets are strings, which `set_current_wd` appends.
* `WalkAfterCreate`: the walk has activations only after the snapshot returned,
  so the steps of the one leave the state of the other alone. Without it
  `stack \in Seq([t : live, ...])` would not survive a step that frees a target.

**`TreeProofs`: the shape of the snapshot.** `TInv` adds to `IInv`:

* `CallsOK`: the paths of the calls go down from the root, one name at a time, and
  a call's entries are in its directory.
* `PathsOnce`: a path has at most one live target, and below the directory of a
  call there are only targets of entries it has noted. This is what makes the
  target of a fresh entry new; in the code it follows from `readdir` giving each
  name once.
* `CallsFresh`: a target that a failing call frees has no children yet, so `free`
  leaves nothing unreachable.
* `HeldOK` and `TreeOK`: the two halves of `SnapshotIsTree`, stated with the
  pointers of the calls in progress and of the result as holders.
* `WalkOK`: the path buffer has one name for each activation, and they spell the
  path of its target. `ObservesItsFile` is the case of the last one.

For a tree that nobody changes (`changes = 0`) the invariant `AsIs` says what the
snapshot has seen: what each call knows of its file is so (`CallsAsIs`), what is
live has the file's record (`LiveAsIs`), and each file that can be reached has a
target or is still ahead of some call (`NoneMissed`). When the last call has
returned nothing is ahead, and that is `SnapshotComplete`.

**`WatchProofs`: the refinement of `Watch`.** A step either leaves the log of every
path (`SameLogs`) or appends to one of them the event that a look at its file
finds (`EventInitWatch`, `TrackWatch`; `DetectFinds` takes the search of `cmp_stat`
through its table to the comparison of whole records). `TreeProofs` is used twice:
a log belongs to a path, which needs `PathsOnce`, and the file the walk compares
must be the one of that path, which is `ObservesItsFile`. The latter is false for
a file named with a directory (run `full_path`), hence the hypothesis
`Len(Root) = 1`. The end of the module takes the types and `SnapshotComplete` to
`CreateSpec`, the specification of the snapshot alone, by instantiating
`TreeProofs` with a walk that never begins.

**`ServiceProofs`: the loop.** `IInv` is the three invariants with `IndexOK` (the
index of the loop under way stays below the slots in use, which are no more than
the names popped), `ClockOK` (while nobody sets the clock it shows the time since
`start`, up to one wrap-around, so the unsigned difference of `spin` is that time),
and `LateOK`, which gives `PromptStop`: a wait that begins with the flag set does
not sleep, what passes of it is lag, and lag is less than a wait; so a late round
needs a wait the signal came into, or one in which the clock was set.

**`BackdProofs`: the daemon.** `LoopIsServiceHolds` shows that every action of
`Backd` is, for the variables of the loop, an action of `Service` or a stutter;
so the invariant of `ServiceProofs` holds of the daemon, with snapshots, rounds
and release in full. `BInv` adds `PcOK` (snapshots and walks are in progress only
where the loop calls for them) and `AtOK` (each slot in use has an address), and
the lemmas of `RoutineProofs` are applied to a heap that all files share.

**`BackdProofs`: one owner, all released, each looked at once.** `OwnInv` is

* `RankOK`: some ranking of the addresses grows along the pointers from
  directories to children and from calls to the calls they make. It says that there
  is no cycle, also when addresses are used again, and is what the recursion of
  `fs_target_dealloc` needs to end. `KidsOK` goes with it: only directories, and
  only those being read, have children.
* `OwnedOK`: each live target has a parent, a call, a slot or is the result that
  `service_init` is about to store, whatever failed before. `AllReleased` follows:
  after the last slot was freed nothing can own anything.
* `ForestOK` (`ChildrenOK`, `OneParent`, `RootsOK`): as long as every directory could
  be opened no two owners share a target, nothing dangles, and nothing was freed
  twice. `OneOwner` counts the owners; the lemmas before it turn "exists and unique"
  into "the number is 1".
* `SlotIndexOK`: the slots used again after a skipped file.

What a release frees is the value of the recursive function `FreedBy`. `Least` and
`Recursion` show that such a function exists, by induction on its argument with a
least counterexample; `GoneClosed`, `Apart` and `GoneOnce` then show that the set
freed is closed under children, disjoint from what other slots reach, and met
once each. `RoundOK` states how far the round is: the walk is a path in the
forest (`PathDown`), on it exactly the entries before the current one have been
looked at (`LookedOnPath`), and off it a directory's entries share its count
(`LookedElsewhere`).

**`ArrayProofs`: the array.** The invariant is `Sound` for both arrays, or `Freed`
for the first, a sound one whose buffer `array_slimcheck` gave back: there are as
many slots as the capacity makes room for, elements below the size and junk from
there on, the elements fit in the capacity, and *a borrowed buffer is settled*. The
last is what keeps `array_adjust` and `array_slimcheck` from a borrowed buffer, and
why `array_unsettle` must refuse it: `BorrowedBufferKept` alone is not inductive.
`PutOK` and `CutOK` are the two moves inside a buffer, `AdjustOK` is what a call may
rely on after asking for room. `FilteredExists` and `FilteredOK` do for
`array_filter` what `Recursion` does for the release.

`KeepsPromiseHolds` shows that every call is a step of `List`, one of the three in
`Departs`, or a stutter; the cases are split in the lemmas of these three calls.
`Shown` and `ShownAs` say which list an array stands for; there is one lemma for
what each way of moving the buffer does to the list (`AppendedShown`,
`InjectedShown`, `CutShown`, `KeptShown`, `ReallocatedShown`, ...), and one for each
call (the lemmas named `...Kept`) that puts them together. `List` states
`array_filter` without recursion: a list is filtered to another when a growing
choice of positions (`Picks`) names the elements that stay, in their order, and
no other.

**`ArgStackProofs`: the command line and the parser.** The invariant adds
`CountOK` (while options are read, `av` and `ac` together are the number of
arguments and one more, so taking two for `-c` and `-s` cannot make the unsigned
`ac` wrap; in what follows `--`, `av` is at most one past the last argument) and
`CronInv`: the parser has a position unless it has met something it does not
understand (`PlaceOK`), the loop counts with natural numbers (`LoopOK`) up to the
maximum of the field, so an index is marked only if it is in the table, whatever
the step and however the counter wraps. `First` shows, with `Least`, that the
searches for the end of blanks and of an entry find one; each lemma about reading
(`NumberOK`, `StepOK`, `NextInText`) says that the position stays in the string or
at its end.

`FilesInOrder` and `OptionsAsGiven` compare what `main` does with a reading of the
whole command line that starts from the recursive function `PlacesFrom`. That the
function exists is `Backwards` (a least counterexample, from the end of the
command line on), and `PlacesRule` is its equation. What the loop knows of it is
`Walked(av)`: before `av` every argument is a place or what the option before it
takes, from `av` on the places are those of `PlacesFrom[av]`; `WalkGoesOn` keeps it
over an option and its argument, and at the end `DashHere` makes the `--` that
getopts stops at the one the reference means. The files are numbered: `Count(p)` is
how many there are up to position `p`, and `CountNext`, `CountFinds` and `NthFileIs`
replace induction over them. `FInv` says with `Stacked(p, stack, top)` that after
position `p` the stack holds the files numbered below `FILE_STACK_SIZE` in their
order, and with `Served` which of them the service has and where the others are
after the stack was turned over. `OInv` adds `Said(p, seconds, cron, text)`: the
values are those of the last use of `-s` that names a number (`NumberedTo`,
`LastNumber`) and of the last use of `-c`, up to position `p` (`OneUse`, `NoUse`,
`NoMoreUses`), and `ReadOK`: a cron string that was given is read to its
end before getopts goes on.

`MeansWhatItSaysHolds` compares the tables with the reference that cuts the whole
string into pieces. `Adjacent`, `Word` and `Nth` name a piece by the two cuts it is
between, and `WordsTo` the pieces up to a position, so that "one more piece has been
read" (`OneMoreWord`, `NthNext`, `LastPiece`) stands for induction over the pieces.
The invariant `MeansInv` says of a regular string where each part of the code is
reached: before or behind a list (`ListAhead`, `FieldBehind`), an element
(`ElementAhead`, `ElementBehind`) or an entry (`EntryBehind`), and inside the loop of an
element (`InsideLoop`), each time with `Filled`: the tables hold the meaning of the
earlier entries, of the earlier fields of this one, and of the field that is being read
as much as was read. `ElementForms` is the step from characters to meaning: what
`NumberAt`, `StepAt` and the positions after them are for each form of an element.
`Counts` is the invariant of the loop (the counter is a number of steps from its
start, and has passed the end by no more than one step, so it does not wrap), and
`CountsMore` a turn of it. There is one lemma for each action (the lemmas named
`...Means`). The limit on `FieldMax[Weekday]` is what the code has, 6: with 7 among the
days of the week, the `Finish` of a string that says 7 adds a 0.

**`FormatProofs`: formatting.** `FormatInv` says how far a call is: the position
in the format is never inside a field, the next argument is the one after the
fields read (`ReadOK`), and with the text of the format read so far, the buffer
has its beginning as far as it fits, the count is its length, and the cells
behind are those of before the call (`Holds`, `DataOK`). `WriteHolds` keeps it over
a character or a piece, `TextNext` gives the text one piece further. What the
reference defines by recursion, the text of a format and the powers of a base,
are recursive functions: `Iterates` shows that such a function exists and has its
equation (`TextRule`, `PowerRule`), `Climb` and `Smallest` stand for induction. The
numerals are where the code and the reference differ most: `NumeralIsDigits` shows
that the digits the code makes from the right, by remainder and division, are
those that the value has in its positions, as many as `WidthIs` says
(`DivideTwice` is the arithmetic under it).

**Only model-checked.** The liveness properties (fairness and ENABLED are out of
the prover's reach): `SnapshotEnds`, `EveryChangeRecorded`, `SignalStops`,
`RoundsGoOn`, `SignalReleases`, `MainGoesOn`.

## 5. Deviations of the code from its documentation

Five have a run that refutes the documented statement (`findings` in
`PROJECT.json`):

* `snapshot_pointers`: when `opendir` fails, `handle_children` frees the target
  and `fs_target_create` returns its pointer all the same (`fs_target.c:201`, 235).
* `full_path`: a target keeps only the last name of its path, so a file named
  `x/d` on the command line is looked for as `d` and reported as deleted
  (`fs_target.c:77`).
* `service_deinit`: `fp[fp_index]` where `fp[i]` is meant (`loop.c:58`).
* `cron_sunday`: a 7 in the field of the week days is cut to 6 before the test
  that would make it a Sunday, and becomes Saturday (`cron-parse.c:200`, 306, 179;
  line 59 promises "0 or 7 is Sunday").
* `array_header`: the array is not what `array.h` says without the exceptions in
  `Departs`. The run shows `array_slimcheck` of an empty array: it calls
  `realloc(ptr, 0)`, which frees the buffer and returns NULL, where the header says
  that the array is then untouched (`array.c:660`, `array.h:257`). The two others
  violate the same property in other behaviours: the destructor of `array_wipe` gets the
  first elements of the array instead of those that are removed (`array.c:531`,
  `array.h:438`), and `array_swap_elems` with equal positions zeroes the element
  instead of leaving it (`array.c:556`, `array.h:433`).

Seen while modelling, reproduced by the actions, without a run of their own:

* The first `lstat` of a file may fail and the second one, in
  `fs_target_event_init`, succeed because the file was made in between: the target
  keeps the type unknown and no round looks at it (`fs_target.c:225`).
* A `free` after `free`: with a directory that could not be opened, `fp` or a
  directory's children keep the freed pointer, and another file's target may get
  its address; both slots then observe that target and `service_deinit` frees it
  twice (`fs_target.c:201`, 235, `loop.c:59`).
* A step of 0, or a multiple of 256, in a cron string never ends the loop at
  `cron-parse.c:299`; other large steps make the counter wrap and mark values
  below the range. `cron_check` returns false whatever it read, and no one looks
  at the result or, in the daemon, at the tables. An empty string leaves the tables
  of an earlier `-c` as they were (`cron-parse.c:151`).
* A `-s` of 0 counts as none in the test against `-c`, and a negative number is
  taken as a large one (`main.c:135`, `args.c:107`). `-s ""` is accepted and leaves
  the number given before (`atoi.c:23`, `args.c:108`).
* `cpyf` and `scpyf` return the length of the whole text; `stringf.h:42` and 54 say
  the number of bytes written (`stringf.c:179`, 197). `%%` gives two characters.
* `-s N` is parsed and not used; the wait is one second (`loop.c:120`), where the
  usage says "Run every N seconds" (`args.c:19`).
* `fs_target_dealloc` leaves the array of children of an empty directory and
  every array of events (`fs_target.c:44`): memory of other kinds than targets is
  not in the model.
* `dynstr_clear` sets the size to 0 where an empty string has 1, so the next append
  writes before the buffer (`dynstr.c:137`, 77); `dynstr_inject` into an empty string
  writes no NUL (`dynstr.c:104`). Nothing calls either.
* `array_adjust` compares strictly, so the last slot that
  `array_uninitialized_size` counts needs a reallocation, and is refused by a
  settled array (`array.c:255`, `array.h:293`).
* The sixteenth file name is dropped silently; the test that was to notice
  compares with a value `__top` does not reach (`main.c:23`, 101).
* The path of the ACK event of a child points into a buffer that
  `handle_children` frees (`fs_target_event.c:44`, `fs_target.h:58`).
* A change within one second that leaves size and times as they were, or that is
  undone before the next round, is not seen; new entries of a directory are never
  found (`fs_target_event_track.c:119`). `finfo.type` is what the snapshot found
  (`fs_target.c:79`): a directory that replaces a file is still a file to the
  rounds, and the reverse.

## 6. What is not modelled

* `lib/dynstr.c`, `lib/fs.c`: strings on a buffer of their own, and path and file
  helpers; nothing in `src/` calls them (`fs_target.c` has its own directory
  functions), so no state of the daemon depends on them.
* `lib/logging.c`, `perf.c`: output; what they format is `Format`. `lib/cmp.c`, the
  comparison functions of a directory listing, is not compiled. `boot.c`: the
  detached start is commented out, what is left calls `service`.
* In what is modelled: the length of `__cur_path` (1024 bytes, unchecked), failing
  `malloc` (unchecked in the snapshot), memory that is leaked, `basename` changing
  its argument, the text of what is printed, the digits of numerals and their
  bases on the command line and in cron strings, and arguments of the wrong type
  for a format.
* The service's view of `fs_target_create` and `fs_target_observe` is their
  result; the other processes are not in `Service`, the clock is not in `Routine`.
  `Backd` has both, with a clock that is not set. Files named by a path with a
  directory are in the run `full_path` only.
* The array of `Array` is not under the targets of `FsTarget`: there a children or
  event array is a sequence, `Full` its limit.

## 7. Plan

1. (done) `FileSystem`, `FsTarget`, `Routine` with `Watch`, `Service`, `Array`
   with `List`, `ArgStack`; type correctness, event chain and event
   initialisation proved.
2. (done) `Backd`, `CronParse` under `ArgStack`, `Format`.
3. (done) Proofs of the safety properties of the snapshot, the rounds, the service
   loop, the daemon, the array, the command line and formatting, of the bounds of
   the cron parser and of what it puts into its tables, and of the refinements
   `WatchesTree`, `LoopIsService` and `KeepsPromise`.
