# PE-Replay: a verification project

PE-Replay (`src/replay`) is a tool for the binary instrumentation engine Pin.  It runs a Windows
program, writes every basic block of its main module to `blocks.csv`, and writes snapshots of
registers and stack, *frames*, at the blocks that are executed, to `frames.csv`.  A reader joins the
two files and replays the program.  This directory holds TLA+ models of the tool, the TLC runs that
check them, and proofs that TLAPS checks.

What the tool promises its reader: no row is lost, torn, repeated or out of order while the tool
ends cleanly, and a file has one logger; what a kill leaves is a prefix; every frame can be joined
to its block; the frames that are left out are only those that the skip strategies mean.  What makes
that hard: the callbacks run in all threads of the traced program at once, most of the shared state
has no lock, the rows sit in buffers, and the process may end at any moment.

## Inventory

| component | state | operations | talks to | hard part | correct when |
|---|---|---|---|---|---|
| one log file (`Logger`) | `m_buffer`, `m_size`, `m_file_size`, `m_file_nums`, `m_out`, `m_log_mutex` | `Logline`, `Flush`, `SplitFile`, `~Logger` | callers in all threads; the file system | mutex, boundaries of buffer and file, an exception with the mutex held, kill | files and buffer hold the lines taken in order; loss is bounded; a clean exit loses nothing its loggers took |
| logger registry | `s_loggers` | `LogTo`, `LogToF`, `GetInstance`, `Finalize` | `Logger`; all threads | lookup and insertion without a lock | one logger for a file; no null is used; all are flushed at the end |
| frame capture (`Process_Instrument_BBL`, `Frame`) | `circuluar`, `square_circular`, `last_ebp`, `Frame::s_last_id`, `s_last_serialized_id` | one callback for each executed head block | threads; `frames.csv` | every variable is shared and unlocked | ids order the visits; only recent addresses are skipped |
| block capture (`Process_Encounter_Trace`, `Block`) | `Block::s_last_id`, the calls planted in compiled code | one callback for each compiled trace | Pin's compiler and code cache; `blocks.csv`; frame capture | order of row, planted call and frame; eviction, recompilation; gate before the main image is known | ids dense, traces grouped, a frame's block is in the log |
| program (`main.cpp`) | Pin's callbacks, exit | `Encounter_*`, `ExitProcess` | all | exit, exception, kill between flushes of two files, a `Logger` left locked | after an exit the files join; once `Finalize` has begun no frame dangles |
| image information (`ImageInfo`, `ImageSection`, `ImageSectionRoutine`) | images, sections, relocation targets | `AppendImage`, `AnalyzeRelocationEntry`, `AnalyzeDataDirectory`, address queries | Pin's image callback; memory of the program | walks over data structures in memory | the walks end and find what is there |
| configuration (`Config`) | report folder, sample folder, enabled entries | `Initialize`, queries | the file system; `Logger` | a folder that earlier runs left files in, cleared one by one, each step of which may throw; files a reader holds open; `main()` ignores the result | what is read after a run is that run's |
| instruction callbacks (`Process_Encounter_Insn`, calls, branches, reads, writes) | `m_write_*` | callbacks | `ImageInfo`, `Logger` | not registered by `main()` | |
| shadow stack (`ShadowStack`, `ThreadStack`) | frames per thread, `m_bNtCallbackReturn` | `filterCall`, `filterReturn`, `notifyNtCallbackReturn` | instruction callbacks | unwinding, kernel callbacks; its callers are commented out and it is not built | the shadow holds the thread's frames, and no return of the program is reported |
| code sweeper (`CodeSectionSweeper`, `StaticTrace`) | pending targets, traces, gaps, lea targets | `process`, `spotGaps`, `linearSweepGap`, `postProcess` | `ImageInfo`, libdasm | a work list that grows, iteration over sets that change, padding and data between code; not built | all code reached is found, traces of code that does not overlap do not either, none lies in data, the sweep ends |
| companions (`regexd`, `launch`, `sendmsg`) | little | pattern search over a message; process helpers | the system | | |
| vendored code (`libdasm`, `InstLib`, `include`, `extras`, `ia32`, `intel64`) | | | | | not modelled |

## Modules

| module | models | state and actions |
|---|---|---|
| `LogStream` | abstract: what one output promises | bytes accepted, bytes durable, phase; accept, persist, close, die |
| `LogFile` | one `Logger` in all its threads | the members by name; one action for each stretch of `Logline`, `Flush`, `SplitFile`, `~Logger` between points where another thread or a kill can come in; `disk` is what the streams are given, `SizeInFile` what a text-mode file makes of it |
| `FaultyLogFile` | `LogFile` over a disk that refuses to open a file, or to take all of a write | adds the state of the stream, what each file really holds, and whether it ends within a newline; every step of `LogFile` with every outcome on the disk |
| `LogFileProofs` | theorems about `LogFile`: mutex, content, buffer; cuts, sizes, loss, the refinement of `LogStream`; and about `FaultyLogFile` | |
| `LoggerRegistry` | `s_loggers` and its users | one action for each operation on the map in `LogToF`; a logger reduced to buffer, position and file |
| `LoggerRegistryProofs` | theorems about `LoggerRegistry` | |
| `RecentWindow` | abstract: which visits get a frame, as one decision | visits, frames, last frame pointer |
| `FrameCapture` | `Process_Instrument_BBL` | one action for each load and store of a shared variable (`circuluar` is loaded twice in a turn: `Compare`, `CircleLoad`) |
| `FrameCaptureProofs` | theorems about `FrameCapture` | |
| `BlockCapture` | `Process_Encounter_Trace` under Pin's client lock, the code cache, threads in planted calls | `BeginTrace`, `Construct`, `Serialize`, `EndTrace`; `Reach`, `Capture`; `LoadMainImage`, `Evict` |
| `PEReplay` | composes `BlockCapture` with two outputs (`LogStream`) and the end of the process | `LookUpFrames`, `MakeFramesLogger`, `CaptureAndLog`: the Logger of `frames.csv`, which threads find or make without a lock; `FlushBlocks`, `FlushFrames`; the three ways an exception gets out of a callback (`Fault`, `FaultInImage`, `TooManyBlocks` and `TooManyFrames`); `Exit`, `Finalize`, `FinalizeThrows`, `Kill` |
| `PEReplayProofs` | theorems about `BlockCapture`, and on top of them about `PEReplay` | |
| `OutputFolder` | `Config::Initialize` and the files of an output, over several runs of the tool | one action for each call that may throw: make the folders, list, remove one file; the files a run opens; the end of a run, a reader that opens and closes files at any time |
| `OutputFolderProofs` | theorems about `OutputFolder` | |
| `LoadedImage` | what the two walks share | the image's memory in words, where a walk is, and whether an address is in the image |
| `RelocationWalk` | `ImageInfo::AnalyzeRelocationEntry` on one image | image and table in words, one action for a block, an item and the end; each read may throw |
| `ImportWalk` | `ImageInfo::AnalyzeDataDirectory` on one PE32 or PE32+ image | the image in words, one action for the directories, an import entry, a step in an ILT with the symbol's name, a step in an IAT; a read may leave the image |
| `ImageInfoProofs` | theorems about `RelocationWalk` and `ImportWalk` | |
| `ShadowStack` | `ShadowStack`, `ThreadStack` for one thread, beside the thread's real stack | calls, returns over one and several frames, jumps out, `ret` used as a jump to any address, kernel callbacks; the hooks are operators of the actions |
| `ShadowStackProofs` | theorems about `ShadowStack` | |
| `StaticTrace` | what a trace from an address is | `process` as a function of the section |
| `CodeSectionSweeper` | `process`, `spotGaps`, `linearSweepGap`, `postProcess` in the order they are called | one action for a turn of each loop: a target, a gap trimmed by one step, an instruction, a lea target |
| `CodeSectionSweeperProofs` | theorems about `CodeSectionSweeper` and `StaticTrace` | |

The `MC...` modules give the constants of each run their values.

`LogFile` refines `LogStream` (`ImplementsStream`), and `PEReplay` uses two streams of that shape
(`OutputsStreamed`), so what it says of the files rests on what `LogFile` does for one file.  What
several loggers do to one file is in `LoggerRegistry`; `PEReplay` has of it that `frames.csv` may
come to have several, which truncate it and overwrite each other's rows.  `ImplementsStream` is
about the bytes handed to the stream objects; what the files hold of them when the disk refuses is
`LossStaysInFile`, of `FaultyLogFile`.  `FrameCapture` with one thread refines `RecentWindow`
(`ImplementsTimeline`).  Next to an action there may be variants marked *Mutant*: the action with a
plausible slip.  No specification uses them; each shows that a property would notice.

Data is abstract: a line is a short sequence of distinct bytes in `LogFile`, one number in
`LoggerRegistry`; a row holds the ids and the address and leaves out registers, stack and
disassembly; formatting is not modelled.

## Runs

| run | instance | shows |
|---|---|---|
| `logfile` | 2 threads, 3 calls, buffer 4, file limit 4, 1 file allowed, 1 refusal of the disk; lines of 1, 2 and 5 bytes, two of them with a newline; fair | content in order, whole lines per file, file sizes and numbers (what is counted, and what a file takes where newlines are two bytes), bound on loss; a refusal costs the end of one file and of no other; refinement of `LogStream`, of which a clean exit that loses nothing is part; every call returns and an exit finishes unless a thread was thrown out of `SplitFile` |
| `logfile_toomany` | 2 calls, no refusal, fair | *violation*: "too many logs" does not end the process: it waits for its own mutex |
| `registry` | 3 threads, 2 names (both symmetric), 4 calls, buffer of 1 line | at most one logger for each thread and name, null is transient, a sole logger's file is complete |
| `frame_one` | 1 thread, 4 addresses, 2 frame pointers, windows of 4 and 2, 7 visits | frames of an address are far apart; refinement of `RecentWindow` |
| `frame_race` | 2 threads, 3 addresses, windows of 2 and 1, 3 visits | the windows never take a new address for a familiar one, and hold visited addresses only |
| `frame_ids` | as `frame_race` | *violation*: two frames with one id |
| `pereplay` | 2 threads (symmetric), 3 traces that overlap or start outside of the module, no trace begins once 2 blocks are numbered, 2 frames | of the capture: dense ids, grouped traces, block before frame, the gate; of the outputs: the two files joined after an exit, a kill, an exception in any callback, a Logger left locked, at any flush, and with two threads that each make a Logger for `frames.csv` |
| `folder` | 3 runs of up to 3 files; each step may fail, each run may be stopped anywhere, a reader may open and close any file at any time, in the middle of a run too | after a run whose `Initialize` returned true the files read are that run's; stale files stand only behind, or a reader had them open when the run came to them; nothing is removed from the report folder |
| `relocations` | pages of 8 bytes, images of 3 data pages, all tables of one and two blocks, an empty one, one that names a page outside of the image; 5 ways the section is padded | the targets found are exactly the relocated pointers and what the 8 bytes behind each block can yield; a read throws only at the end of the image or outside of it; the walk ends |
| `imports` | PE32, PE32+ and neither; up to 2 libraries of up to 2 symbols, with an ILT, without, or with one outside; symbols with ordinals, and with names inside and outside of the image; 3 headers; 4 ways the image ends | the grey areas are exactly the directories and the tables of the libraries before the first without ILT; the walk leaves the image only when the last zero of a table is missing, when a symbol's name does not end in the image, or when there is no import directory; it ends |
| `shadow` | 2 return addresses (symmetric), 4 stack addresses, 5 frames in the shadow | until the first report, and unless a `ret` used as a jump goes where a frame returns: every frame of the thread is in the shadow, the first report is no return of the program's, `Peek` reads a frame that is there; with nested calls no return is reported, and the shadow is the stack until a return out of a recursion passes for a shorter one |
| `sweep` | every section of 5 bytes of 9 kinds (four of them two bytes long, the long jump three), with no target, one, and every second address | the traces begin exactly where direct jumps and calls lead; what the first splitting and the gaps keep; no trace holds unreadable bytes; of the traces over data whose end was found the first is erased, and no other than such; every step brings the end nearer |

Why the bounds are enough.  A buffer of 4 with lines of 1, 2 and 5 meets every branch of `Logline`:
room left, exactly full, flush first, a line longer than the buffer; with a file limit of 4 both
sides of each test in `Flush` and `SplitFile` occur, the exception included. Three calls let two
threads wait while a third line has been written.  In the registry a third thread can find the null
entry that a first made while a second is making its own. Windows of 4 and 2 keep the proportion of
10 and 5, and 7 visits go around the first window and shift the second; in the race three visits of
two threads put every pair of steps in both orders, one of them after a finished visit.  Two blocks
in a trace are the least with a head and a follower.  A callback of the kernel needs a call under
it, and the three frames of its way out: five frames and four depths hold that, and one callback
inside of another's frames. A third run is the least that meets what a second left of a first.  Two
libraries are one that is followed and one that the walk stops at; a name in the last doublewords
ends there or does not, as code with a zero byte follows or not.  Five bytes hold three traces apart
from each other, a jump into the middle of an instruction, and a lea with its data, padding and the
code behind; a short jump has two bytes and a long one three, so that only the long one is a
trampoline; alignment, search range and the length of a trampoline are scaled down with them.  Two
threads that find no Logger for `frames.csv` are the least that make two. In the run `shadow` the
constraint `Untold` checks the states after a report or a deceiving `ret`, and does not go on from
them: no property says anything of what follows. `MaxCalls`, `MaxFaults`, `MaxVisits`, `MaxBlocks`,
`MaxFrames`, `MaxDepth`, `MaxParts` and `MaxRuns` are the only bounds in guards; `MaxTrace`,
`MaxCount` and `MaxImports` are the longest trace, table and list of libraries of the instance.
`CHECK_DEADLOCK FALSE` is set where the program ends; that it does not hang before is what
`EveryCallReturns`, `ExitCompletes`, `WalkEnds`, `ImportWalkEnds` and `SweepAdvances` are for.

Fairness.  `FairSpec` of `LogFile`, and `FaultyFairSpec` with the disk, ask weak fairness of each
actor's steps inside the tool, and nothing of `Call` and `Kill`: a thread inside the tool is
scheduled again and again.  Pin's mutex is a spin lock without a queue, and no stronger fairness is
assumed of it: with a bounded number of calls a thread that waits cannot be overtaken for ever.
With unbounded calls it could be.

## Findings

1. `SplitFile` throws with `m_log_mutex` held (`Logger.cpp:58`); the exit that follows deletes the
   logger and waits for the same mutex: the process that was to be terminated hangs
   (`logfile_toomany`).
2. Frame ids repeat when threads race (`Frame.cpp:11`, `frame_ids`).

Disagreements that no run is spent on: one file more than the 20 of `BIGGEST_FILE_NUMS` is written
(`Logger.cpp:55`), and a file takes a byte more for each newline than is counted for it, where the
comments `Logger.cpp:6, 8` speak of files of 100 MB and of 2 GB in all; `FileSizes` states both as
the code does them; a circle of exactly `CIRCULAR_LENGTH` visits is skipped, where the comment
`REProgramInfo.cpp:604` has "less than N" (`RecentWindow` states what the code does); the
trampolines that `CodeSectionSweeper.h:256-261` finds are followed to their operand, which is a
distance and no address; and after a false report `Peek` may read the last of no frames
(`ShadowStack.h:69`), which `LiveFramesShadowed` shows to need such a report, or a `ret` used as a
jump that went where a frame returns.  And traces overlap after the second splitting, which the
comment `CodeSectionSweeper.cpp:78-79` says it eliminates, so that the coverage
(`CodeSectionSweeper.cpp:476`) counts bytes twice: four `nop`s and a `ret` at 20 with targets 21 and
23 are split into [21, 23) and [23, 25); the last gap, which holds them, is swept as one trace [20,
25), and no two neighbours end together any more.  `SplitSound` is therefore about the first
splitting.  The last three are in files that are not built.

Beside these the models show, without a statement in the repository that says otherwise: after a
failed `Initialize`, which `main()` does not notice, the tool runs on and writes over what an
earlier run left, so that a reader may find parts of two runs (`StaleOnlyBehind` says where); a disk
that is full costs the rest of the current file in silence (`LossStaysInFile`); two threads that log
their first lines together may make two loggers for one file, and lines of the first are lost: rows
of `frames.csv`, whose callbacks no lock orders, at a clean exit too; and a thread that meets the
null entry in between ends the process.  `SoleLoggerComplete`, `LoggersPerThread` and
`NullIsTransient` say how far that goes, and `JoinComplete` what of the outputs does not depend on
it.  In the files that are not built: a `ret` used as a jump to the return address of the last frame
passes for its return (`ShadowStack.cpp:96` compares nothing else), a live frame is popped
unreported, and its own return may be the first that is reported; a return out of a recursion over
several frames pops one of them only; `m_traces.erase(itt)` (`CodeSectionSweeper.cpp:143`) goes on
from an iterator that is gone, and may leave traces over data.  And in `AnalyzeDataDirectory`, which
nothing calls, the name of an imported symbol is read without a bound (`ImageInfo.cpp:366`).

## Proofs

Eight modules prove theorems for every value of the constants that the named `ASSUME`s of the
component admit.  Each follows the same course: an inductive invariant `IInv`, a lemma for the
initial state, a lemma for each action (or a case for each), one that joins them, and the theorems
that follow from `Invariance`.

**`LogFileProofs`** (all threads, lines, buffer sizes and limits): `TypeCorrect`, `ContentCorrect`,
`MutexCorrect`, `ReplaceNeverThrows`, `CleanExitComplete`.  `Content` alone is not inductive: that a
step of one thread keeps it needs that no other is between writing its bytes and advancing `m_size`.
`IInv` therefore adds who holds the mutex and where (`Holder`), that the process's last thread waits
for the calls that are under way (`FiniWaits`), that `m_size` bounds what may be written
(`InRange`), that the bytes of a line between `replace` and the assignment to `m_size` are in their
place (`Placed`), and that a flush leaves an empty buffer (`Flushed`).  Lemmas about sequences
(`SubSeqIs`, `PrefixIs`, `ReplacedText`, `ReplacedInBuffer`) say what `replace` does to the text.

Its second part stands on that: `WholeLinesCorrect`, `FileSizesCorrect`, `LossBoundCorrect`, and
`ImplementsStreamCorrect`, the refinement of `LogStream`.  That a file never cuts a line, though
`SplitFile` counts only bytes, rests on `Emptied`: there is nothing in the buffer when a file is
cut, so the file ends where the text of the last call does.  The sizes rest on `Below`: but for an
actor in front of `SplitFile`, or one thrown out of it that keeps the mutex, `m_file_size` is below
the limit, so that one flush of at most `Capacity` bytes (`Fits`) brings it at most one buffer
above.  Sizes are what the logger counts, the bytes it hands over; `SizeInFileIs` gives from them
the size of the file, at most twice as much. `LongestLineAssumption` says that there is a longest
line, without which `Capacity` would mean nothing. The module ends with the disk that refuses:
`FaultySpecIsSpec` says that the logger does not notice, so that all of the above holds over such a
disk too, and `LossStaysInFileCorrect` that a file loses its own end only, half a newline at most
standing where it broke off (`KilledAtNewline`). For that `Current` ties the state of the stream to
the current file (while the stream is good the file holds all it was given; once it is not, the file
is among the failed ones), and `DiskStep`, which says that a step hands bytes to the current file or
begins the next, that an earlier one is never written again.

**`PEReplayProofs`**, first part (all threads, main modules and traces of `BlockCapture`):
`TypeCorrect`, `BlockIdsCorrect`, `TraceGroupsCorrect`, `BlockBeforeFrameCorrect` and
`MainModuleCorrect`.  None of them is inductive alone. A row in the log follows its `Construct` by a
step, so `IInv` says what the thread that holds Pin's client lock has in its hands (`Current`), that
no other is between construction and row (`Idle`), how ids, rows and pending block add up
(`Counted`), and that the rows a trace has written are its own (`Group`).  A frame is captured long
after its block was logged, and after evictions: `Planted` and `AllJoined` say that every call ever
planted names a row of the log.  `Gated` ties all to the moment the main image is known.

**`PEReplayProofs`**, second part, shows that the process, with its exceptions, implements
`BlockCapture` (`ImplementsCapture`), so that what was proved of the capture holds in it
(`CaptureCorrect`).  `FilesBegin`, `StuckComplete` and `FinalizedComplete` then carry the two files:
each holds a beginning of its rows, all of them once its logger has been deleted or was left locked
by "too many logs".  For `frames.csv` all of that holds while `Sole` does, no second Logger having
been made for it; with several the file holds rows that were logged, in no order, which is all that
`NoDanglingCorrect` needs of them.  With the order in which `Finalize` deletes, blocks before
frames, that gives `JoinCorrect` and `NoDanglingCorrect`. `OutputsStreamedCorrect` ties it to the
logger: what happens to each of the two files is what `LogStream` lets happen to one, at every step,
for `frames.csv` at every step before a second Logger.  A row's ids are numbers up to `MaxBlocks +
MaxTrace` there, since a trace may begin while fewer than `MaxBlocks` blocks are numbered and is
then taken to its end; `Bounded` says so, from `LongestTraceAssumption`, that there is a longest
trace.

**`FrameCaptureProofs`** (any number of threads, any window): `FirstVisitCorrect`, `WindowsCorrect`,
`TypeCorrect`.  The windows are shifted by several threads at once, and an address may stand nowhere
but in a register between the load and the store of a shift: `InWindow` and `InSquare` count it
there too. `WindowOld` and `SquareOld` say that an address in a window has been visited, and a
second time if a call with it is still before the window; that makes "found" prove a second visit.
It is a theorem about the windows: the test of `last_ebp` (`REProgramInfo.cpp:633`), which comes
after them, may skip a first visit. `TimelineCorrect` and `FramesApartCorrect` have the hypothesis
`Threads = {t}`: with two threads both properties are false, as `frame_ids` shows for the ids.  The
visit of `RecentWindow` happens where the call returns.  Until then `FirstWindow` and `SecondWindow`
say, label by label, which entries of the half-shifted windows are the last visits and frames
already and which are still one place behind, and `Found` what the skip flag means so far.
`FramesApart` needs with it that the number of a frame is the place of its visit (`OnTimeline`).

**`LoggerRegistryProofs`** (any number of threads and names): `LoggersPerThreadCorrect`,
`NullIsTransientCorrect`.  `Entered` and `FirstOfThread` say that a thread that has made a logger
has entered it, or is about to, and makes another only for another name. `SoleLoggerCorrect`: a name
for which a single logger was made loses no line, for any number of threads, lines, and any size of
buffer.  `Pointed` says that a thread in `Logline` has that logger in its hands, `Whole` that file
and buffer together are what was logged (`done`, a history variable with the lines of a name in
order).

**`OutputFolderProofs`** (any number of runs and files): `ReaderCorrect`, `StaleCorrect`,
`ReportFolderCorrect`.  `Listing` and `Alone` carry the clearing of the folder to the files written
after it.

**`ShadowStackProofs`** (any depth, any nesting of callbacks): `MirrorsNestedCorrect`, and
`NestedNeverReported`: a program that leaves its frames by returns only, recursion and returns over
several frames included, is never reported, and `Peek` neither throws nor reads an empty stack.  Its
frames are in the shadow, which is its stack until `recursed`.  `OnTheWay` says by how many frames
the shadow exceeds the stack at each step out of a kernel callback; `Deepening`, that stack pointers
tell frames apart, which is why `Peek` finds the one frame that is returned from.  Calls that are
not nested are the subject of `LiveFramesCorrect` and `FirstAlarmCorrect`: frames left by a jump
stay in the shadow as waste, so that it is no longer the stack; `Embedded` says where the live
frames stand among the waste, in order, and `LiveWay` carries that through the three frames of a
callback's way out.  It holds until the first report, after which `Peek` may read the last of no
frames, and until `deceived`, a `ret` used as a jump to where a frame returns.

**`CodeSectionSweeperProofs`** (all sections that `SectionsAssumption` admits, all sets of targets,
any lengths and bounds): every property of the run `sweep`.
* `SectionsAssumption` says what libdasm can give: a length from 1 to `MaxLength`, an operand that
  is a number, no negative address, and that what begins with 0xE9 is a direct jump of `JmpLength`
  bytes; a short jump is a jump like any other.
* `process` and the walks that the properties speak of are recursive functions over the section.
  The library's induction cannot be used, but the statement that such a function is at each place
  what its definition says there needs only that a set of numbers has a least element:
  `LeastElement` is proved of intervals, and `ProcessIs` and `WalkToIs` take from it the last place
  at which they would fail. `TraceWalked` and `TraceCovers` then say what a trace is made of.
* `Sound` is the first invariant: a trace, whichever loop made it, is a walk from where it starts to
  where it ends (`TraceGood`), and so is what `linearSweepGap` has in its locals (`Sweeping`).
  `TypeCorrect` and `TracesReadableCorrect` follow.  Splitting keeps it since a trace that ends with
  its neighbour runs into the neighbour's start: two walks that end together share their last
  instruction.
* `Erased` adds the leas treated and the traces as `postProcess` found them
  (`LeaErasesFirstCorrect`).  `Worked` is about the first `process()`: what traces lead to is traced
  or waits (`Following`), nothing else is (`Reaching`), and before the split the sizes are those
  `process` gives, after it those of `Split`.  It yields `WorkListReachesCorrect` and
  `SplitSoundCorrect`.
* The runs of adjacent traces are numbered in order (`Ranks`, `RunsAre`), from which the gaps are
  disjoint from all but the last run (`GapsHoldUntracedCorrect`).
* `SweepAdvancesCorrect` is an action property: each step goes to a later phase or keeps the phase
  and leaves less to do.  It needs `Sound` for one thing: an instruction read in a gap lies ahead,
  so that `inst` grows.

**`ImageInfoProofs`** (any number and size of blocks, libraries and tables; any pages, headers and
contents): every safety property of the runs `relocations` and `imports`.
* An image is laid out by `FlattenSeq` over sequences of parts, of which the library has no
  theorems. `SumsExist` and `FlattenIs` say that it is the last of the sums of the parts,
  `FlattenParts` that each part is in the whole where the lengths before it add up to (`InPlace`).
  They are inductions over a length, which here need only that a set of numbers has a least element
  (`LeastElement`, `AllUpTo`).
* `LaidOut` and `ImportsLaidOut` then say of an image, word by word, all that the walks rely on, and
  `BlockWords`, `EntryReads` and `LoopCounts` what the walks read there.
* `WalkInv`: the walk is always in front of a block, or of an item, of the table (`AtHead`,
  `AtItem`); what the items before it point at has been found (`Found`), and nothing else
  (`OnlyThose`).  The walk reads 8 bytes of the next block as items of the one before: `NoItem` and
  `HeaderWords` say which of them can look like an item, `ItemIs` and `ItemTarget` what is found
  then.  `TablesAssumption` is needed for that, and for no other reason: without it the halves of a
  page's address or of a block's size could look like items too.  From `WalkInv` follow
  `TargetsExactCorrect` and `ThrowsOnlyOutsideCorrect`.
* `ImportInv`: at entry number e of the directory the grey areas are those of the data directories
  and of the imports before e (`AreasUpTo`), and in a table as much has been counted as it has
  entries (`InIlt`, `InIat`).  From it follow `GreyAreasExactCorrect` and
  `OutsideOnlyBrokenCorrect`.  Both are about images with an import directory, and say nothing else.
* `WalkAdvances` and `ImportWalkAdvances` are action properties: what is left to walk over, a
  number, shrinks with every step.  For the relocation table that needs `WalkInv`, since a block of
  length 0 would keep the walk where it is.  For the imports it needs only that what is read lies in
  the image (`ImportBounds`), so that it holds without an import directory, too, where the walk
  takes the image's header for one.

Only model-checked: liveness (`EveryCallReturns`, `ExitCompletes`, `WalkEnds`, `ImportWalkEnds`),
which is out of the prover's reach under fairness, and with it the last step from a measure that
shrinks (`SweepAdvances`, `WalkAdvances`, `ImportWalkAdvances`) to the end of the sweep and of the
walks.  Every other property of a passing run is a theorem.

## Assumptions about the environment

* Pin runs image and trace callbacks one at a time, under its client lock; planted calls run in any
  thread at any time, once their trace is compiled.
* Before the fini callback Pin stops the threads of the program outside of the tool's routines, and
  `PIN_ExitApplication` leads to that callback.
* An operation on a `std::map` is atomic.  The code gives no lock; a torn map is undefined behaviour
  with no outcome to describe.
* A load or store of an aligned 32 bit variable is atomic; the compiler keeps the loads and stores
  of the shift loops, and loads `last_ebp` once.
* Files are in the text mode of Windows: `\n` is stored as `\r\n`.
* `blocks.csv` gets its rows from trace callbacks alone, under Pin's client lock, so that one Logger
  is made for it.  Several Loggers of `frames.csv` leave some of its whole rows, in any order; rows
  they tear, and holes, are left out.
* Ids stay below 2^32.  Outside of `FaultyLogFile` writes to files succeed.
* A failed write sets `badbit`, after which the stream ignores writes; opening the next file makes a
  new stream object.
* Of the threads whose callbacks throw the first is modelled; the others stop outside of the tool
  before the fini callback as in every exit.  Whether Pin releases its client lock after an
  exception in an image callback is not relied on: the model lets other threads go on, or wait for
  good.
* The hooks of the shadow stack are called where the comments of `REProgramInfo.cpp:490-503, 790,
  880` have their calls.  `NtCallbackReturn` is entered by a call and left through one call of the
  system more; the kernel then goes on at the return address of the call the callback has
  interrupted.  One thread: threads share no frames.
* An image is as a linker writes it.  In its relocation table pages begin at multiples of their size
  and a block has an item for a byte of its page at most, so that it is shorter than three pages; no
  page lies beyond `3 * PAGE * WORD`, with pages of 4096 bytes 768 MB from the image's beginning, so
  that no upper half of a page's address looks like an item (`TablesAssumption`).  A table of
  imports follows the directory, and each ends with a zero, unless the image is cut there.  All
  symbols of a library have the same name or ordinal, and memory is read in doublewords, a name from
  the one behind its hint.  A library's name is read for a log entry only, and no entry is enabled.
* The sweep is driven as the comment `ImageInfo.cpp:52-89` has it, without grey areas.  Of bytes
  outside of the section nothing is known, and reading them may crash.  What libdasm reads at an
  address is a jump, a conditional jump, a call, a return, a `lea`, an `int3`, something else, or
  nothing; a jump to an address is short or long.  After `m_traces.erase(itt)` the loop erases any
  others of the traces that meet the data, or none, or the program does anything.
* A kill leaves in a file what was written to it: the operating system survives.

## Not modelled

* The instruction callbacks (calls, branches, returns, reads, writes): `main()` does not register
  them (`main.cpp:91`); were it to, each asks `Config::s_map_entries`, which is never filled, and
  `ImageInfo`'s sections, of which there are none since the constructor returns at
  `ImageInfo.cpp:43`.  `m_write_target`, which threads would share between the callbacks before and
  after a write, is therefore never written.
* The queries of `Config` and the address queries of `ImageInfo`: constant, for the same reasons.
* `std::map` below the granularity of an operation (`s_loggers`, `s_mapThreadStack`): a data race on
  it is undefined without a set of outcomes to choose from.
* Of the sweeper: grey areas and `m_map_traces`, which nothing reads, `justifyTrace`, which nothing
  calls, `calculateCoverage`, which only reports.  That the operand of a trampoline is followed as
  an address (`CodeSectionSweeper.h:261`) is in the model as the code does it; no property covers
  what should happen.
* `regexd`: two sequential loops over a file whose results are those of Boost.Regex; `launch`,
  `sendmsg`: start a process, send a message.
* `Trace`, `MemoryInfo`: records without behaviour.  Text formatting and disassembly.
* Vendored code, which is most of the repository: `libdasm`, `InstLib`, `include`, `extras`, `ia32`,
  `intel64`. What the tool needs of it is in the assumptions above.

## Order of the work, and what is left

1. `LogFile` with `LogStream` and its proofs, `LoggerRegistry`, `FrameCapture` with `RecentWindow`,
   `BlockCapture` and its proofs, `PEReplay`;
2. `RelocationWalk`, `ShadowStack`, `StaticTrace` and `CodeSectionSweeper`;
3. faults: `FaultyLogFile`, the exceptions of `PEReplay`, `OutputFolder`; `ImportWalk`;
4. proofs of the invariants of all components without recursion, and the refinement of `LogStream`;
5. proofs of `LossStaysInFile`, `SoleLoggerComplete`, the shadow of calls that are not nested, the
   frame capture of one thread with its refinement, and the sweeper;
6. proofs of `OutputsStreamed` for traces of any length, and of the walks over an image.

Left: the instruction callbacks and the queries of `Config` and `ImageInfo`, which change no state
in the program as it is built, should `main()` ever register them; and liveness as theorems, should
the prover come to reason about fairness.
