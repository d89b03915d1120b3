# Yikes in TLA+

Yikes takes a library of videos and keeps a directory of the same videos, in
iPod format, up to date. It runs `ffmpeg` on what is missing, once or in the
background, and shows the finished videos on web pages. This directory holds
TLA+ models of the program, TLC configurations that check them, and proofs that
TLAPS checks. All paths below are relative to the root of the repository; the
program itself is the Ruby code in `lib/`, about 1,200 lines.

To check a run: `tlc -config Engine_alone.cfg MCEngine` (the module of each run is in
`PROJECT.json`). To check the proofs: `tlapm Engine_proofs.tla`.


## 1. The system

| Component | State | Operations | Talks to |
|---|---|---|---|
| **State** (`lib/state.rb`) | queue of items to encode, list of the last 30 finished ones, a mutex for each; the fields of the items | `add_to_queue`, `items_count`, `dequeue_items`, `encode_succeeded!`, `encode_failed!`, `get_finished_items` | called by Engine (main thread) and by the web pages (web thread) |
| **EncodingItem** (`lib/state.rb`) | subpath, library, target, `succeeded`, `finished_at` | names of source, target and screenshot | used by all others |
| **Engine** (`lib/engine.rb`) | the batch it works through | `do_encode` = collect, dequeue, then per item `should_encode?`, `mkdir_p`, `transcode`, `get_screenshot`, report | file system, State, Platform |
| **Platform** (`lib/platform.rb`) | none | `run_external_command`: fork, `system`, wait; directories | operating system |
| **ffmpeg** (`ext/ffmpeg/ffmpeg.c`) | the target file | open input, open and truncate the target, encode, write the trailer | file system; started by Platform |
| **EngineManager** (`lib/engine.rb`) | `@engines`: library/target pair to Engine (each with its State) | `load_state`, `add_engine`, `remove_engine`, `active_engines`, `poll_directory_and_encode`, `save_state` | Engine, the state file |
| **Yikes** (`lib/main.rb`) | options, logger | `run`: one shot, or background: load, add, daemonize, web thread, poll loop, save | all |
| **Daemonize** (`lib/daemonize.rb`) | `$do_quit` | fork twice, change directory, trap TERM | main thread |
| **Web pages** (`lib/controllers.rb`) | none | list of finished videos, podcast, files, previews, `/quit` | EngineManager, State, `$do_quit` |
| Utility, options, command | none | string helpers, directory glob, option parsing | |
| Vendored | | `ext/` (faac, gpac, mp4v2, x264, ffmpeg), `lib/public` | |

### What is hard in it

* **Threads.** The main thread encodes, a Ramaze thread serves pages. They share
  every State, `@engines` and `$do_quit`. `Thread.abort_on_exception` carries an
  exception of the web thread into the main thread, at any of its steps.
* **Processes.** Each encode is a forked process that the program waits for
  without a timeout and whose exit code it drops. A program that is killed leaves
  its ffmpeg behind. Nothing stops two programs (two cron runs) from working on
  the same directories.
* **The file system as the only memory.** Whether a video is done is decided by
  looking at its target: is it there, has it more than 256 bytes? The file that is
  looked at is written in place, by a process of this or of another program, and
  its video may still be growing.
* **Restarts.** The history of finished videos is written only when the program
  ends, by opening the file (which empties it) and then dumping.
* **Copies of the program.** `fork` is used three times, and each child is the whole
  program, with its place in the code, its traps and its rescue clauses. A signal
  means something else to each.
* **Output that is input.** A run looks at everything below the library; what runs
  make may lie there too.

### What makes each component correct

* State: nothing queued is lost or handed out twice; the list is the last 30, in
  order; a reader sees it as of one instant and sees only complete items; calls return.
* Engine and ffmpeg: one writer per target; a finished target is not touched;
  what is there is skipped; what is reported as encoded is there; every video of
  the library has its target in the end; a run ends.
* EngineManager and the background program: the history survives restarts, and of a
  kill what was saved before; a request to quit ends the program; all engines are
  served.
* Daemonize, Platform: of all the copies of the program that `fork` makes, one goes
  on; whatever signals arrive and whenever, the history is in the state file
  when no process is left; relative directories mean what the user meant.
* EncodingItem: an item leads back to its video; the target directory gets the tree of
  the library; a run with nothing new encodes nothing, whatever directories the
  engines have.
* Web pages: the list shows what State promises; `/quit` ends the program.

`PROJECT.json` lists the hazards of the code under `hazards`, each at its line
with the properties that cover it.


## 2. The modules

    FinishedFeed     <--implements--  ApplicationState     MCApplicationState
                                        ApplicationState_proofs
    EncodeQueue      <--implements--      ApplicationStateQueue_proofs
                                            EncodeQueue_proofs

    TargetDirectory  <--implements--  Engine               MCEngine
                      (alone)           Engine_proofs
                                          EngineDirectory_proofs

    Daemon            Library             Processes
    MCDaemon          MCLibrary
    Daemon_proofs     Library_proofs      Processes_proofs

A module of proofs extends the one above it to its left.

The detailed modules see the program at five scales: the statements under the
mutexes of State; one encoding run with its processes and files; the names of the
files and what runs make of whole directories; the processes that forks make of
the program; the life of the background program from start to start. Each takes from the others only
what its own properties need: in Daemon an encode is one step, with the target it leaves, and State's calls
are the ones ApplicationState shows to be atomic; in Engine the queue is gone
(`do_encode` is the only user of its State's queue: what it adds it dequeues) and which
videos share a target is the parameter `TargetOf`, which Library computes from the names;
in Library nothing fails; Processes has no engines and no files
but the state file.

### ApplicationState, FinishedFeed, EncodeQueue

`ApplicationState` is the class `State`, for any number of threads.
A *worker* calls `add_to_queue`, `items_count`, `dequeue_items` and
`encode_succeeded!`/`encode_failed!`; a *reader* calls `get_finished_items`.
Each call is a chain of labels (`pc`): waiting for the mutex, inside, released. A statement another
thread can observe is a step: each insertion and each shift, the append and the
trim of the finished list, and the two assignments to the item, which the code
makes *before* it takes the mutex.

* `break` in `add_to_finished_list` leaves the block when the list is short
  enough; `FinishTrim` covers this case (`LastOf` of a short list is the list) and
  `FinishUnlock` releases the mutex on both paths.
* `dequeue_items` is called with 1, its default, or with the last answer of `items_count`, which
  may be stale by then; so many items or fewer are taken.
* `published`, `asked` and `seen` are history: all items ever appended, how many
  there were when a reader called, and what it got.

`FinishedFeed` is what the finished list promises: one variable, to which items are
appended, and readers that get its last elements in one step. The mutex, the
separate trim and the item that is one too many in between do not exist there.

`EncodeQueue` is what the queue promises to the threads that share it: whole batches get in at one
end, a worker takes the first items in one step, as many as it asked for or as there are, and
`items_count` tells the length of one instant. Loops over single items and the mutex do not exist there. An add and a
dequeue happen when they take the mutex, a count when it releases it; a batch
that is added in front (`unshift`, item by item) is turned round. The mapping stands at the
end of `ApplicationState` (`QueueInEffect`, `HandsInEffect`, `KnownInEffect`).

### Engine, TargetDirectory

Several *instances* of the program, each at a label of `do_encode`; the
*target* files; the *processes* they started.

| Action | Code |
|---|---|
| `Collect` | `enqueue_files_to_encode` and `dequeue_items(items_count)`; the order of the glob is arbitrary |
| `ShouldEncode`, `CheckSize` | the two looks at the target in `should_encode?`; the second raises when the file is gone |
| `MakePath`, `NoScreenshotDir` | `mkdir_p`, for the target before the encode and for its screenshot after it; may raise |
| `Transcode` | `exist?` in `transcode` |
| `RunTranscoder`/`TranscoderReturns`, `GetScreenshot`/`ScreenshotReturns` | `run_external_command`: fork, wait; `true` in any case |
| `Report` | `convert_file`: always `encode_succeeded!` |
| `Raise` | an exception: the rest of the batch is dropped |
| `Kill` | the program dies, its child goes on, or (`"interrupt"`) gets the signal too |
| `FF...` | ffmpeg: input cannot be opened; output opened and truncated (`-y`); codec or header fails; encoding; failing half way; trailer |
| `Arrive`, `Complete`, `RemoveVideo`, `DeleteTarget` | users and downloads |

A target file is *absent*, *tiny* (at most 256 bytes: opened and nothing written),
*half* (larger, without its index), *short* (playable, made from a part of the
video) or *whole*. `source` is which videos' data is in it. When two processes
write one file, it is half while one of them still writes, and stays so if they encode different
videos. Two encodes of one video are *assumed* to write the same bytes (they have one command and
one input, and ffmpeg puts no clock into the file unless it is asked to), so that the last one to
finish leaves the file whole; `EveryVideoConverted` depends on this in `Engine_overlap`. The gap that an encode
leaves when it gives up while another writes the same file is not modelled: that run has no such failure, and
the other properties do not tell such a file from a whole one. A file that is deleted while ffmpeg writes it
is gone; ffmpeg goes on with the unlinked file.

`Failures` says which failures a run of the checker allows, so that each question
can be asked with and without them.

`TargetDirectory` is the directory as a user sees it: which files are there, which of them are
finished and with which video, and the video being encoded. An encode begins (`Begin`), in one step, with a target that is
not there, and finishes it or gives up and leaves it; a file that is finished is only ever removed. The looks
at the target, the fork and the opening by ffmpeg, between which anything may happen, do not exist
there. A program that runs alone implements it; overlapping programs do not.

### Daemon

The background program: `down`, then `load_state`, `add_engine` (`||=`), the poll
loop with its two reads of `$do_quit`, an encode in the steps that matter for the
history (target made or not, append, trim), the sleep, `save_state` in two steps
(the file is emptied, the dump written), exit. Beside it: `Quit` (`/quit`
or SIGTERM), `Rescue` (any exception in the loop, those of the web thread included, after
which the state is still saved), `Crash` (a kill, or an exception that nothing
rescues), new videos, deleted targets. The state file, the
library and the targets survive.

A target is *absent*, *tiny* or *there* (more than 256 bytes, whatever it holds). `Skip` and `Convert` are the two
answers of `should_encode?`; `Encode` leaves what exists as it is, tiny or not, and otherwise any of the three may
come of it, since ffmpeg may fail; in each case the video is reported as encoded (`Transcoded`, `FinishAppend`). So a video without a
target that is there is finished again in every poll, as in the code (findings 1 and 2).

A kill within the write leaves the file empty or cut (`CutDump`): engines are missing, and the last of those that are
there has shorter lists or lacks a State or a mutex (`whole`). For the latter `do_encode` raises at once
(`NoState`), and since the engine is saved as it is, at every start from then on.

`finished`, `saved` and `cut` are history: the last `ItemsInFinishedList` videos finished for each library, what they were at the last
save (a kill takes the program back to that), and whether a kill fell within a save.

### Library

The methods of `EncodingItem` on paths, and the directory trees that come of them. A path is
a sequence of names (the directories from the working directory, which is the empty sequence), a stem and an
extension; `Join` is `File.join`, `ExtractSubpath` takes the library off,
`SubpathAsTargetExt` replaces the extension. `disk` says which files are there and which
user's video is in each: a copy keeps the video it was made from.

| Action | Code |
|---|---|
| `Collect` | `get_file_list` over the library, the filter on the extensions, an item for each |
| `Skip` | `should_encode?` and `transcode`: the target is there |
| `Convert` | the target is made, with its directories |
| `Finished` | the end of `do_encode` |
| `Arrive` | a user puts a file anywhere |

`engines` is a set of library/target pairs, chosen at the start from `EngineSets`. One
run goes on at a time, as in the poll loop. `touched` (engines for which someone else has put a
file on the disk since they last began a run) and `quiet` (the run that is on began with nothing new) are history.
`MaxDepth` bounds the directories above a target, since with some directories a run makes
work for the next for ever: an item that would lie deeper is left over.

### Processes

The processes of the background program, in the slots `Procs`. Each has its place in
`run`, its working directory, its trap for TERM, its `$do_quit`, its memory of finished items and the child it
waits for. `Fork` copies all of this.

* `daemonize` (`Daemonize`, `Return`, `ForkAgain`, `ExitTwin`, `ChangeDir`, `Trap`): in the parent it returns false
  and `run` ends. The first child forks again; `exit unless fork` ends the *second* child,
  and the first is the daemon. It changes to `/tmp`, then traps TERM.
* `Poll`, `Command`, `Finish`: an encode forks a copy that runs a command and ends at once
  (`exit!`), and the parent waits for it. An item that is finished is remembered by this process only.
* `SaveOpen`, `SaveWrite`: `save_state` opens the file, which empties it, then dumps what the process
  remembers.
* `Term`: SIGTERM to any process at any moment. Trapped, it sets `$do_quit`; not
  trapped, Ruby raises `SignalException`, which `run` rescues in the loop only, to
  save and end. A copy that runs a command is inside this rescue clause too, and
  would save its own copy of the history: it has the trap of its parent, which prevents this.


## 3. The runs

| Run | Instance | Question |
|---|---|---|
| `State_queue` | 2 workers, 2 batches of 2, list of 1 | `EveryItemOnce`, `BatchesStayTogether`, `WindowAtRest`, `PublishedIsFinal`, `QueueSpec` (refinement) under every interleaving |
| `State_list` | 1 worker, 2 readers, 2 items, list of 1 | `SnapshotIsCurrent`, `FeedSpec` (refinement), `CallsReturn` |
| `Engine_alone` | 1 program, 3 videos of which 2 share a target; all failures, growing downloads, deletions, no kill | `OneWriter`, `FinishedVideoKept`, `SkipsExisting`, `DirectorySpec` (refinement) |
| `Engine_overlap` | 2 programs, 1 video, 1 kill, 3 processes | `EveryVideoConverted`: runs and orphans overwrite each other, but the last word is a whole target; `ProcessesBounded` |
| `Engine_kills` | 1 program, all failures, a kill with and without the signal reaching ffmpeg, growth, deletion | `RunEnds` |
| `Daemon_live` | 2 libraries, 2 videos in one of them, 2 starts, exceptions, 1 kill, list of 1 | `HistoryKept`, `QuitStops`, `EveryEngineServed` |
| `Library_roots` | one engine; library = target; two engines; two that have each other's target for a library. 5 files, with colliding names, a nested directory of the library's own name, and one that is no video | `ItemsResolve`, `Recreated`, `RerunQuiet` |
| `Processes` | 4 slots, 3 starts, 3 signals, 2 items; no start while it runs | `OnePolls`, `HistoryComplete` |
| `Engine_tiny`, `Engine_exit_code`, `Library_default`, `Processes_relative` | the smallest that shows it | findings, see section 6 |

The type invariants are checked in `State_list`, `Engine_alone`, `Daemon_live`, `Library_roots` and `Processes`.

Every property is paired in `PROJECT.json` with a *mutant*: the same action with
a plausible slip of the programmer (a mutex not taken, `first` for `last`, `=` for
`||=`, a child that is not waited for). The property fails on it,
which shows that it depends on that line. The mutants stand in the modules
before the action they change, marked `Mutant:`, and nothing uses them.

What the runs leave out, each for a reason given below: `Engine_alone` has no second program, so that
`FinishedVideoKept`, `OneWriter` and `DirectorySpec` say nothing of programs that overlap (they do not hold then);
`Engine_overlap` has no failure, growth or shared name, with each of which `EveryVideoConverted` does not hold
(section 6); a run that raised counts as ended for
`RunEnds`, its dropped items are collected by the next one; `HistoryKept` excludes a kill within the write of
the state file; `Processes` has no two programs at a time, and `Library_roots` no two engines with one target.

### Bounds

* *Two workers* (the program has one) are enough for every pair of calls to meet;
  two batches of two for a batch to be torn apart. The list is bounded by 1 rather
  than 30: the trim compares the length with the bound, and runs with both results
  are reached. The proofs cover any bound, any number of threads and items.
* `Engine_overlap`: two runs are the smallest that race, and one kill gives a
  third writer, the orphan. `Children` is the process table: at most one child per instance
  and one orphan per kill are alive (`ProcessesBounded`), so that `Cardinality(Children) >=
  Cardinality(Instances) + MaxKills` (an assumption of the module) never blocks a fork: this is the theorem `ForksNeverWait`.
* `MaxKills`, `MaxCrashes`, `MaxStarts` keep the graphs finite. With two starts of `Daemon`
  a history is written and read by a run for another library, and a kill comes before or after it is saved; that a
  later kill takes the program back to an earlier save needs a third start, and is proved. With three starts of `Processes` it is written, read, written and read again.
* Histories of `Daemon` are kept as windows of `ItemsInFinishedList` items, which is what a list can
  show of them: a video whose encode fails is finished in every poll, without end.
* `Procs`: parent, daemon, the second child of `daemonize` and one that runs a command are
  the most that are alive together, so four slots never block a fork; three signals can hit
  the daemon, its copy and the process that forked it, or the daemon three
  times. The proofs cover any number of slots, starts, signals and items.
* `MaxDepth` is 3: the deepest original lies two directories deep, and a target may lie
  one deeper. In `Library_roots` a run never leaves work for the next, with
  `Library_default` it does up to the bound, which is where the run stops.
* Videos are never queued twice at a time by one `do_encode`, and an item's only effect
  on another is through a shared target: two videos with one target and a third
  with its own are the cases.
* Symmetry is used in `State_queue` only, over workers and batches, which nothing
  distinguishes, and not where liveness is checked.
* Deadlock is checked in all runs except those of Daemon and Processes, where the program may stay down.

### Fairness

* ApplicationState: a thread inside a call runs on (WF), and a mutex passes a
  waiter over only finitely often (SF): Ruby's `Mutex` wakes its waiters in turn.
  No thread has to call anything.
* Engine: runs begin again and again (the loop, cron: WF of `Collect`), a run goes on
  (WF), an ffmpeg that has work ends it (WF: the program waits for it without a
  timeout, so a hung ffmpeg stops it for good, which is a hazard on the list and
  not modelled), a download completes (WF). Failures are not
  permanent (SF): of directories asked for again and again some are made, of encodes tried again
  and again some get past each step. These four are stated over all instances and processes
  together, which is weaker than one for each.
  No user has to do anything and no failure has to happen.
* Daemon: the main thread goes on (WF); ffmpeg returns and the sleep ends. Nobody
  has to start it, ask it to quit, or break it.
* Library and Processes state no fairness: their properties are of safety.


## 4. What is proved

The eight modules `ApplicationState_proofs`, `ApplicationStateQueue_proofs`, `EncodeQueue_proofs`, `Engine_proofs`,
`EngineDirectory_proofs`, `Daemon_proofs`, `Library_proofs` and `Processes_proofs` are checked by TLAPS to the last leaf.
They hold for all values of the constants that satisfy the modules' assumptions:
threads are not both workers and readers, `NoThread` and `Nobody` are nobody,
bounds are natural numbers, `TargetOf` maps videos to targets, videos and programs are finitely
many, there are enough process slots in Engine, and the engines and files of Library have
directories and names. What a theorem assumes beyond that stands in its own `ASSUME`.

**State** (`TypeCorrect`, `ListIsWindow`, `SnapshotsAreCurrent`, `ImplementsFeed`).
The inductive invariant `IInv` is `TypeOK` and

* `ListLocked`: whoever is at a label between taking and releasing the list's mutex
  is its holder, so at most one thread is there;
* `OwnLabels`: workers are at labels of workers, readers at labels of readers;
* `HasItem`: a worker on its way to publish has an item in hand;
* `Window`: the list is the window of `published`, except between append and trim,
  where it is the old window and one item more.

`WindowAtRest` alone is not inductive: it says nothing while the mutex is held,
and the release has to re-establish it. The heart of the argument is a lemma on sequences: to
append to the last n elements and take the last n again is to take the last n of
the longer sequence (`LastOfAppend`, `LastOfTwice`). For the refinement, `published` and `seen`
are mapped to themselves: the append is `Publish`, the copy under the mutex is
`Look`, since `Window` says that the array is the window at that moment; every
other step stutters.

**The queue** (`EveryItemOnceAlways`, `BatchesStayTogetherAlways`, `PublishedIsFinalAlways`, `ImplementsQueue`), for any
threads, batches and sizes. None of the three properties is inductive: they speak of places and of the time when the mutex is free. The
invariant `QInv` is

* `AtMostOnce`, `Somewhere`: queue, list and the hands of all workers have no item in common and none twice,
  and between them they have the items of the batches that were added; `EmptyHands`: a worker has items to
  insert within `add_to_queue` only, so that a new batch does not replace one;
* `QueueLocked`: the holder of the queue's mutex is the worker inside;
* `OnePiece`, of the queue at all times, and `AtTheEdge`: while a batch is being
  inserted, what is in of it lies at the end at which it grows. This is where the mutex is needed: another add in between would
  put its own items there;
* `Stamped`: what is published or about to be has its time; with `AtMostOnce` nobody else has it in
  hand to write its fields.

`EveryItemOnce` needs no mutex in this argument, since each insertion and each shift is one step (in Ruby, one call of a
method of Array).
The refinement (`EncodeQueue_proofs`) needs `FreeHands`, that a worker asks for items with none left, besides `QueueLocked`. What
a thread will make of the queue is settled when it takes the mutex: this is what `QueueInEffect`
and `HandsInEffect` say. `AddLock` maps to `Add` or `AddInFront`, `DequeueLock` to `Take`, `CountUnlock` to `Count`, `DequeueItems`
without a number to `AskForOne`, the append to the finished list to `Encode`. The steps of the loops
stutter, by four facts on sequences: to insert the first item and then the others is to insert all, at the end
(`InsertAtEnd`) and in front, reversed (`InsertAtFront`); to take one and then n is to take n + 1 (`ShiftOne`); and nothing
is to be had of an empty queue (`ShiftNone`).

**Engine** (`TypeCorrect`, `AloneOneWriter`, `AloneFinishedVideoKept`, `AloneSkipsExisting`). A program that
runs alone and is never killed (`Alone`) keeps one process per target, never
writes a finished target again, and skips what was there when the run began, for any number of videos, *any* map of videos to
targets, colliding names included, all failures and all users. The invariant
`AInv` is `TypeOK` and

* `HasItem`: past the head of the loop there is an item in hand;
* `Owned`: each process has an instance for its parent, which waits for it;
* `OneChild`: there is at most one process;
* `Fresh`: when an encode is about to be forked, its target is absent;
* `InStep`: the target of a process is absent, tiny or half, as its stage says, unless it was
  deleted under the process.

`FinishedVideoKept` says nothing of processes and is not inductive. `Fresh` is what the look at
the target followed by a fork in `transcode` needs, and what overlapping runs break
(section 6). `SkipsExisting` needs one fact more, `StillThere`: a target that was there when the
run began is there until somebody deletes it.

That a program alone implements `TargetDirectory` (`AloneImplementsDirectory`) needs `OwnSource` besides `AInv`: a process
that writes has opened its target itself, for its video alone. `FFOpenOutput` maps to `Begin`, by `Fresh`, which
carries the absence of the target from the look in `transcode` over the fork to this step; `FFFinish` to `Finish`,
any other end of a process that writes to `GiveUp`, `DeleteTarget` to `Remove`; the rest, all of `do_encode` included, stutters.

`ProcessesAlwaysBounded` and `ForksNeverWait` hold for any number of programs, overlapping, failing and killed. The
invariant `KinInv` tells the processes apart by their parents:

* `WaitedFor`: the parent of a process, if it is alive, waits for it at the label of its command;
* `OneEach`: two processes have two parents;
* `FewOrphans`: there are no more orphans than kills so far.

`WaitedFor` is what makes `OneEach` inductive (a program that forks is not one that waits), and `FewOrphans` with it: a kill
makes one orphan at most. The bound is then one of cardinalities: the children that are waited for map one-to-one to programs.

**Daemon** (`TypeCorrect`, `HistoryKeptAlways`), for any libraries, videos, list length, starts, exceptions and
kills and whatever becomes of the encodes. The types need `Places`: the thread is at an engine that is there, and has an item where it
handles one. `HistoryKept` speaks of the loop only; its invariant `HInv` says where the history is at home, until
a kill falls within the write of the file:

* while no program has loaded it, and when it ends, all that was finished has been saved;
* from the load to the end, the lists in memory end with what was finished;
* except during the write, the lists in the state file end with what was saved.

A kill loses the first and the second and leaves the third, which is what the next start reads. The
append and the trim rest on the lemma that an append to a list and one to its last items end alike (`LastOfAppend`), so that
it does not matter whether an exception kept the list from being trimmed.

**Library** (`TypeCorrect`, `ItemsResolveAlways`, `RerunQuietAlways`, `RecreatedAlways`). `ItemsResolve` is inductive with `TypeOK`
once it is known that what `ExtractSubpath` takes off can be joined again (`JoinTakenOff`).
`RerunQuiet` needs engines whose library and target are one directory or do not lie in each
other (`Separate`, an assumption of the theorem: the default directories and
the run `Library_default` show that it is needed). Its invariant `RInv` is

* `Settled`: for an engine that is not touched, each video has its target, or is an
  item of the run that is on, or has a target beyond the bound;
* `QuietRun`: every item of a quiet run has its target.

The property itself says nothing between runs, which is when it is lost. The argument is about sequences of names: what an engine
makes lies below its target; were it below its library as well, one of the two directories
would lie in the other (`AboveTheSame`), or they are the same, and then the file is its own target.
`Recreated` needs besides that no engine's target lies in another's (`Apart`; two engines with
one target break it, section 6). `RInv` gives each video its target; the invariant `MadeFrom` says
what is in it: a file is a user's own or was made by an engine from a video of its library,
and no file changes. A target below two target directories would put one in the other, so
the engine that made it is the one asked about.

**Processes** (`TypeCorrect`, `OnePollsAlways`, `HistoryCompleteAlways`). For a program that nobody starts
while it runs. `OnePolls` holds as a daemon or not: at most one process is
anywhere on the line from `load` to the loop (`OneInLine`), since each fork sends one of the two off it.
`HistoryComplete` needs a daemon (in debug mode nothing is trapped). Its invariant `HInv` is

* `OneKeeper`: one process at most has a history to save;
* `Trapped`: from before the first item until after the save it traps TERM, and so does the
  copy that runs a command, which would otherwise save too;
* `Knows`: what it remembers is all that was finished;
* `Saved`: while no process is past the trap, the file has everything.

### Model-checked only

The liveness properties (`CallsReturn`, `EveryVideoConverted`, `RunEnds`, `QuitStops`,
`EveryEngineServed`): liveness under fairness and ENABLED are out of the prover's
reach. All safety properties of the passing runs have a theorem; those about Engine assume a program alone
(`ProcessesBounded` does not), those about Library directories that lie apart, those about Processes a program that nobody
starts while it runs, as the runs do. `HistoryKept` and its theorem allow kills except within the write of the state file.
The properties of the runs that find a violation fail in general, and are model-checked on the smallest instance that shows it.


## 5. What is not modelled

* *Strings*: options, messages, XML, and paths character by character. Library has paths as sequences of names; a
  directory that is a prefix of another as text only (`/a` and `/ab`) is none there. `source_path` and the path that `find` lists are
  joined alike.
* *ffmpeg* beyond what decides the content of the target: which bytes (see Engine in section 2 for what is assumed of them), codecs,
  the screenshots. A screenshot is a process that is waited for.
* *A damaged state file* in detail: an engine lacks what `do_encode` needs or it does not; what a page shows
  of such an engine is left out, like all pages. An orphan of the background program has done with its target by
  the time the program is started again; Engine has orphans that go on.
* *Time*: the length of a sleep; `finished_at` is set or not.
* *A hung ffmpeg*, and machines without `fork` (`system` instead): both are plain.
* `remove_engine`, which nothing calls, and the nap without engines, which the
  program cannot reach since it adds one.
* *The mutex of the logger at a fork* (`platform.rb`): if the web thread holds it, the only thread
  of the child cannot take it, Ruby raises, and the child ends without having run its command. Its
  parent goes on as after an ffmpeg that could not read the video, which Engine has.
* `dump_stacks` (`utility.rb`), on SIGUSR1: it forks a child that prints the stacks and
  ends with its block. No state that the program reads changes.
* *Web pages* other than the list and `/quit`: podcast and files call
  methods that do not exist and fail on every request; previews only read.
* `lib/command.rb`, which nothing requires; page assets, build and packaging.
* *Vendored code*: `ext/` holds the sources of ffmpeg, x264, faac, gpac and mp4v2, some 980,000 lines of
  C which were not written here and are built as they come. It is nearly all of the repository's code by size. Of it only
  what `ext/ffmpeg/ffmpeg.c` does with the target file is modelled; of the 1,200 lines of Ruby, all that
  changes state except what this list names.


## 6. Findings

1. `Engine_tiny`: `should_encode?` sends a target of at most 256 bytes to be encoded
   again, `transcode` skips every target that exists and answers true. An empty
   target, left by an ffmpeg that gave up after opening it, stays, and is
   reported as encoded in every run.
2. `Engine_exit_code`: `run_external_command` answers true after every
   failure, so `encode_failed!` is unreachable.
3. `Library_default`: with the default directories, library `.` and target `iPod`, the target lies in the
  library. A run finds `iPod/x.mp4`, takes it for a new video and encodes it to
  `iPod/iPod/x.mp4`; the next finds that one too. The README promises that videos that are there are skipped.
4. `Processes_relative`: the daemon changes to `/tmp` after the options were read, and the default
  directories stay relative: in the background they are directories of `/tmp`.

More that the models show, each to be had from a configuration with a change and without a run of its
own. From `Engine_tiny.cfg`:

* `Failures = {"write"}`: a half-written target of more than 256 bytes is taken
  for finished for ever (`EveryVideoConverted`);
* `Failures = {}`, `Grows = TRUE`: a video that is found while it is downloaded
  is encoded as far as it goes, and never again (`EveryVideoConverted`);
* `Videos = {v1, v2, v3}`, `Targets = {t1, t2}`, `TargetOf <- SameName`, `Failures = {}`: of two videos
  that differ in the extension only, the second is skipped as already there (`EveryVideoConverted`);
* `Instances = {y1, y2}`, `Children = {c1, c2}`, `Failures = {}`, `PROPERTIES FinishedVideoKept`: a run
  that found the target absent truncates it later (`-y`), even if another run has
  finished it meanwhile. In the end the file is whole again (`Engine_overlap`), but
  a player may lose it while it plays.

From `Processes.cfg`:

* `Overlaps = TRUE`: two programs poll (`OnePolls`), and the one that ends last overwrites
  what the other has finished (`HistoryComplete`);
* `Daemonizes = FALSE`, the debug mode: the first TERM leads to the save and a second one ends it with the
  file empty (`HistoryComplete`; `OnePolls` holds).

From `Library_roots.cfg`, with other sets of engines in `MCLibrary`:

* a library that lies in its target and has a directory of its own name is
  encoded again deeper and deeper (`RerunQuiet`);
* two engines with one target directory: the second library's video of a name is skipped for
  the first's (`Recreated`).


## 7. Plan

Done: ApplicationState, which implements FinishedFeed and EncodeQueue, with their proofs;
Engine, which alone implements TargetDirectory, with the proofs for a program alone and of the processes of
several; Daemon, Library and Processes with their proofs.

Left, the proofs: what overlapping programs still guarantee of a target (it is whole or not finished
whenever nobody writes it), which needs the assumption on the bytes above.

Left, the model: `add_engine`, `remove_engine` and `active_engines` as an interface, should the
program begin to call them while it polls (the FIXME at `poll_directory_and_encode`); the
podcast and files pages, should they be repaired.
