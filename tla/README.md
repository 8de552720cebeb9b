# A TLA+ model of the Nix store and its surroundings

This directory holds a verification project for the code in `src/`: the Nix
package manager (C++, `src/src/lib*` and `src/src/nix`) and the beginning of a
rewrite of its front end in Zig (`src/src/*.zig`).  The modules model the parts
where several processes, threads, callbacks or messages meet, and the algorithms
whose cases are hard to enumerate by hand; TLC checks them on small instances,
and TLAPS proves the safety properties of nearly all of them for all instances (section 4).

## 1. Inventory

| component | state | operations | meets | hard because | modelled by |
|---|---|---|---|---|---|
| Path locks, `libstore/unix/pathlocks.cc` | lock files `x.lock`, the `flock()`s on them, `fds`, `deletePaths` | `lockPaths`, `unlock`, `setDeletion`, `lockFile`, `deleteLockFile` | everything that writes a store path or a profile | lock files are deleted while others wait for them; processes die anywhere | `PathLocks`, `AbstractLock` |
| Garbage collector, `libstore/gc.cc` | GC lock, temproots files, roots socket, `roots`, `tempRoots`, `pending`, `alive`, `dead`, `referrersCache` | `addTempRoot`, `findRoots*`, `findTempRoots`, `collectGarbage` | every process that uses the store | clients add roots and paths while the collector deletes | `GarbageCollector`, `TempRoots`, `Optimise` (`.links`) |
| Local store, `libstore/local-store.cc` | SQLite database, store directory, path info cache | `addToStore*`, `registerValidPaths`, `invalidatePathChecked`, `verifyStore` | collector, locks, goals | database and directory change in separate steps | `GarbageCollector`, `PathInfoCache` |
| Build scheduler, `libstore/build/worker.cc`, `goal.cc` | `topGoals`, `awake`, `children`, `wantingToBuild`, slot counters, `waitees`, `waiters` | `run`, `waitForInput`, `wakeUp`, `childStarted`, `childTerminated`, `amDone`, `removeGoal` | goals, the build hook, children | lost wake-ups, slots at their limit, goals cancelled while they run | `Scheduler`, `Worker` |
| Goals, `libstore/build/*-goal.cc` | the point each coroutine is at, what it holds | one coroutine per goal class | scheduler, locks, store, substituters | every `co_await` is a point where the world changes | `Worker` |
| Local derivation builder, `unix/build/derivation-builder.cc` | sandbox, child process, scratch outputs | `startBuild`, `unprepareBuild`, `registerOutputs` | goals, local store | outputs that refer to each other; content-addressed paths that two builds reach | `RegisterOutputs` |
| References, `references.cc` | tails of streams | `RefScanSink`, `RewritingSink` | builder, store | hashes cut by fragment boundaries | `References` |
| Profiles, `libstore/profiles.cc` | generation links, the profile link | `createGeneration`, `deleteGenerations*`, `switchLink` | collector, path locks | numbering and switching without one atomic step | `Profiles` |
| Store optimisation, `optimise-store.cc` | `.links` | `optimisePath_` | collector's clean-up | hard links made and removed concurrently | `Optimise` |
| File transfer, `filetransfer.cc` | queue, active items, retries | `download`, `workerThreadMain` | substituters, fetchers | retries, resumption, pauses, cancellation | `FileTransfer` |
| Remote store and daemon, `remote-store.cc`, `daemon.cc` | connection pool, request framing | one operation per request | clients | errors in the middle of an upload or reply | `ConnectionPool`, `DaemonProtocol` |
| Concurrency utilities, `libutil` | work queue, worker counts, pools | `ThreadPool`, `processGraph`, `computeClosure`, `Pool` | many | shutdown racing work that enqueues work | `ThreadPool`, `ProcessGraph`, `Closure`, `ConnectionPool` |
| Build hook, `nix/build-remote` | slot locks of machines | accept, decline, postpone | goals | slots shared between hooks | `BuildHook` |
| Expression language, `libexpr` | values and thunks | evaluation | store | exceptions and black holes | `Thunks` (laziness only) |
| Flakes, `libflake` | `flake.lock` | `lockFlake` | fetchers | old lock files, overrides, updates and edits combine | `Flakes` |
| Build users, `unix/user-lock.cc` | slot files | `acquireUserLock` | builder | slots run out | not modelled |
| Binary caches, fetchers | caches, I/O | queries and uploads | goals | stale answers | not modelled |
| Command line, `libcmd`, `nix/` | none of its own | commands | all | I/O | not modelled |
| Zig front end, `*.zig` | syntax trees, lock files | lexing, parsing, evaluation | none yet | algorithmic | not modelled |

## 2. Modules

One module per component.  `MC...` modules choose constants.  Three of them
(`MCFiles`, `MCThreads`, `MCServices`) check several components in one run: the
variable `component` is chosen at the start, only that component takes steps, and
the others stay in one initial state.  The components of such a run do not
interact, so the states of the run are the sum of their states, and the fairness
of each component is stated for the behaviours in which it runs.

### PathLocks, AbstractLock

A process of the model is one `PathLocks` object and the call running on it.
`link`, `stale` and `holder` are the file system: which inode has the name
`x.lock`, whether an inode has the byte that `deleteLockFile` writes, who has
it `flock()`ed.  Inodes are reused once they have neither name nor descriptor.
There is one action per system call; `Interrupted` is `checkInterrupt()`
throwing, `Crash` a kill.  `FaultySpec` adds the kill between `unlink()` and
`write()`.  `AbstractLock` is the promise: a path has at most one owner, is
acquired in one step while free, and in ascending order.  `PathLocks!ImplementsLock`
maps who owns what (`OwnerOf`) to it.  `Profiles` and `RegisterOutputs` use locks
of that abstract kind.

Left out: signals other than interrupts (a blocking `flock()` that returns
`EINTR` makes the caller go on without the lock, `pathlocks.cc:58`), exceptions
out of an explicit `unlock()` (`pathlocks.cc:134`), failing system calls.

### GarbageCollector, TempRoots

Threads of client processes run `addTempRoot` and then either use a valid path,
write and register an invalid one (`addToStore`), or make it a permanent root, which
`addPermRoot` does whether or not it is valid; `promised` are the roots made for valid paths.
The threads of a process share the descriptor of the GC lock (an `flock()`
belongs to the descriptor, so one thread's unlock is everybody's) and the
roots socket.  The collector takes the lock, opens the socket, reads permanent
roots, then each temproots file, and then walks: `NextEntry`, `VisitAlive`,
`VisitDead`, `VisitRoot`, `VisitGarbage` are the branches of
`deleteReferrersClosure`'s loop, `BeginDelete`, `Invalidate`, `Unlink`,
`EndDelete` the deletion of what was visited.  A client process ends at any step
(`ProcExit`) and so does the collector (`GCKilled`).

`exposed` is a history variable.  The protocol has three gaps through which a
path can slip, and the invariants about protection say that nothing else is
ever lost:

1. a thread that was let through appends its root after the next collector has taken
   the lock.  There are two ways.  It was let through by an acknowledgement of the
   previous collector (one thread is enough for that: the invariant that a root whose
   thread is at `"write"` is in `tempRoots` while the collector scans is violated); or it
   has the shared lock, which another thread of its process then releases for both.
   `LockedRootsKnown` is about threads with the shared lock only, and run `gc_threads`
   violates it without any earlier collector;
2. a root is acknowledged although the walk has already checked its path,
   because `pending` only holds the last path of the walk: the invariant
   `\A t \in Threads : pc[t] = "ack" /\ ack[ProcOf[t]] => path[t] \notin Doomed`
   is violated;
3. a permanent root made after `findRootsNoTemp` was only in the temproots file
   of a process that exits before `findTempRoots` reads it: the invariant
   `promised \subseteq valid` is violated.

`TempRoots` opens the step "the temproots file" of that model: how a process
creates, locks and checks its file, how `findTempRoots` removes the files of dead
processes, one action per system call.  There may be stale files of dead processes
with the same pid, and several scanners (`findRoots` scans without a lock).
`robbed` is a history variable for the one gap of this protocol, which
`LiveRootsFound` excuses: the comment in `createTempRootsFile` says of the collector
"It won't delete the file after we get a lock", but the collector unlinks by name, and
the name may be a newer file's than the one it has locked.  The invariant `robbed = {}`
is violated in two ways: a scanner has locked the stale file of an earlier process
while the new one replaces it; or two scanners open the file of a process that is
just starting, the first removes it, the process notices and makes a new file,
and the second one, which can now lock the old file, unlinks the name.  Without stale
files and with one scanner it holds.

Left out: keep-outputs, keep-derivations, `ignoreLiveness`, the reporting
actions, runtime roots, autoGC (`gc.cc:975` sets a promise while it
holds a lock of the object that the waiter may then destroy; lifetimes of
objects are not modelled).

### Optimise

`optimisePath_` for a regular file, one action per system call, in several
processes, next to the collector's `stat` and `unlink` of `.links` entries, with
an entry that may be corrupt.  When an entry disappears in between, the code
throws; that is a step to "threw" and no violation.  Left out: the walk over
directories and the cache `inodeHash`.

### Profiles

Generations are numbers; `user[u]` has the program counter and the locals of a
command.  Installers compute an environment without the lock and start again when
the profile has changed; updaters (`--profile`) take no lock at all; managers
switch, roll back and delete.  The properties name what the missing lock costs, and
no more.  `GenerationsKept` excuses the replacement of a generation only if an updater makes
the new link or has made the old one.  `NoLostUpdate` excuses an installer in
`disturbed`: while it had its environment and was about to commit it, an updater switched
the profile or replaced the current generation, or the current generation of an updater
was deleted; it is out of `disturbed` again when it computes the next one.  And it excuses the
case (`away`) that the profile changed and came back to the same generation number, since
the check compares names.  Left out: `assert(older)` and
the dereferenced `*curGen` of the deletion by age when the current generation does
not exist; `createGeneration`'s comment that `addPermRoot` blocks while the collector
runs does not describe the code, which the collector's third gap shows.

### RegisterOutputs

`registerOutputs` in mode `bmNormal`: scan the outputs, reject cycles, rewrite
them in topological order, compute content-addressed paths, take the lock on the
final path, delete what is there, move, register what others need and finally
everything in one transaction.  The contents of an output are the set of the paths
whose hashes occur in it, so that the hash of contents is the contents
themselves, and two builds with equal contents arrive at the same path.  Kills
happen at any step.  Left out: checks and repairs, fixed outputs,
`unsafeDiscardReferences`, realisations, `checkOutputs`, the sandbox.

### References

`RefScanSink` and `RewritingSink` on every stream over three characters, cut in
every way, against the definition on the whole stream.  `RewriteExact` always holds for
one pair.  With several pairs, `rewriteStrings` replaces for one pair after the other in
each fragment, so it needs that what a later pair searches for or puts in does not end
in a beginning of what an earlier pair searches for.  Nothing in the code ensures this;
hashes of equal length and high entropy satisfy it in practice.  `HashModuloSink` adds the positions of matches to
the hash according to `references.cc:115`; `matches` is never written, so they are
not added.

### Flakes

`lockFlake`: `AddOverrides`, `KeepInput` (copy an entry of the old lock file, and
look into the flake only if an update or a vanished follows demands it),
`CreateInput` (fetch, and use the lock file of the new input), `Check` and `DoFind`.
Repositories get commits with or without a new lock file, the top-level
`flake.nix` is edited, commands lock, update and override.  `gap` records what lock
files do not say: a reference override, or a follows deeper than the input of an
input, that has gone from a `flake.nix` stays in the lock file; `--override-input` on
an input that follows another or is overridden is not sticky; the properties are
stated for the behaviours without.  Seen but not stated: changing only
`flake = false` is not noticed, `doFind` can report a repeated path as a cycle, an input whose
own `flake.nix` has a follows is fetched each time.  Left out: fetchers, registries,
the JSON of the file.

### Thunks

`forceValue` with a heap of values, a stack and an exception mode: a thunk becomes a
black hole while it is evaluated and a thunk again when an exception passes; an
application does not.  `Meaning` is what a value denotes without any heap: what its
operands denote, to a depth of as many operands of operands as there are values, where
whatever is not known is an infinite recursion.  The language is reduced to numbers,
`throw`, variables, `tryEval` and sums of two.  There are no more applications than
`max-call-depth` (10000 by default), so that only what needs itself runs into it; the
overflow of an addition is left out.
The Zig evaluator marks values `evaluating` in the same way but does not reset the
mark on an error (`eval.zig:571`), which is the mutant that `ForcedAgrees` kills.

### ThreadPool, ProcessGraph, Closure, ConnectionPool, PathInfoCache

Critical sections of `Sync<State>` are single steps; condition variables wake any
one waiter.  `ProcessGraph` extends `ThreadPool` with the lambda of `processGraph`, one
action per section.  `ConnectionPool` is `Pool` with the clients of `RemoteStore`, two
of which ask for a second connection while they hold one; after the capacity is
lowered there may be more idle connections than it, which
`ConnectionsExclusive` bounds.  The factory tests whether a connection has failed before it
opens one (`StartOpening`), so one that is being opened may still succeed.  `Closure` has
callbacks on any thread.  Errors arrive in the callback, as in `computeFSClosure`, the one
caller: a `getEdgesAsync` that throws itself (`closure.hh:39`) is left out; out of a callback
such an exception would leave its request pending, and the caller waiting.
`GraphReturns` and `ClosureReturns` each say two things: that the caller returns, and that
at that moment no thread or callback is left that uses its stack frame.
`PathInfoCache` is the LRU cache in front of the database: `excused` records the
three ways in which the code stores a stale answer (a transaction that is rolled
back, a query overtaken by a change, another process).

### FileTransfer

`download()` with its buffer, the worker thread with `libcurl`, and the thread that
stops it on an interrupt.  A transfer is retried, resumed at an offset, paused when the
buffer is full, dropped when the worker ends.  `Stranded` are the transfers that
nobody drives any more: an unpause that overtakes the pause it answers, one that
arrives after the worker has ended, and a caller that left (the FIXME of
`download()`).  Left out: uploads, S3, `If-Range` (a resource that changes between
two tries), transfers without a data callback.

### BuildHook

Processes that look for a slot under `main-lock`, compare machines by load and
speed, refuse, postpone, connect and fail to.  A machine that cannot be reached loses its
slot at once, before the hook asks for `main-lock` again (`ConnectFails`), and
`BestMachineChosen` says of every hook that it has no slot but its best one, and none while
it waits.  Loads are compared exactly where the
code divides floats.  Left out: the upload lock, copying.

### DaemonProtocol

The client of `RemoteStore` and `daemon.cc` on one connection with two bounded
channels: requests, frames, log messages (kept back until `startWork`), errors and
replies.  The operations are of five kinds: with a reply; without (`RegisterDrvOutput`);
with one that is streamed after `stopWork()` and may break off, after which two errors
follow and the daemon ends (`NarFromPath`); with frames and no reply (`AddMultipleToStore`,
`AddToStoreNar`); and with frames and a reply, which may be rejected early (`AddToStore`,
`AddBuildLog`).  `DownSize` is chosen so that the logs fit: with `DownSize = 1` and
`MaxLogs = 3` both sides block on full sockets and `OperationEnds` fails.  An exception
of the client ends its frames as a complete upload does; what the daemon then does
with it is left to the operation.  Left out: the handshake and the encodings.

### Scheduler and Worker

The scheduler is single-threaded: a goal is a coroutine that runs until it
awaits something.  `Scheduler` has one operator per primitive, each from a state
to a state, because a goal calls several before it waits again.  `Worker` has one
action per stretch of a coroutine between two waits, named after the goal class and
the point it is resumed at, and `BeginBatch`, `EndBatch`, `WaitForInput`, `NoJobs`
and `Return` for the main loop.  `Resume` says whose turn it is: the goals of `awake2`
run in the order of `CompareGoalPtrs`.  Goals live as long as somebody owns them
(`Owned`); all others are destroyed as soon as a goal suspends, with what their
destructors do.  `Depth` is any numbering of the goals that falls from a goal to
what it may await: derivations form no cycle.

Two assertions of the code fail, and `OtherAssertionsHold` is about all others.
`amDone` aborts when a trampoline's output fails while the first one is not
finished (`goal.cc:204`, `DoneWithExitCode`, run `worker_busy`).  And a
`DrvOutputSubstitutionGoal` has no clean-up, so that one that is destroyed while its query
runs leaves a child without a goal, and `waitForInput` aborts when the child ends
(`worker.cc:475`, `ChildrenHaveGoals`, run `worker_orphan`).  Both happen in the instances of
`worker`, too; there `state.stop` tells that the process has aborted, and nothing follows.

What the outside world decides is chosen by the action: what is valid already,
what a substituter answers, whether locks are free, the reply of the hook, how a child
ends, which children are ready in one round of `poll()`.  Left out: `bmRepair` and
`bmCheck`, impure derivations, exceptions that leave `run` (except that of a broken
last substituter), interrupts, what a `BuildResult` contains.

## 3. Runs

| run | instance | checks | shows |
|---|---|---|---|
| `path_locks_order` | 2 processes, 2 paths, 3 inodes | `SomebodyProceeds`, `ImplementsLock`, `TypeOK`, `MutualExclusion`, `WaiterSeesDeletion` | deleting lock files is safe, sorted order prevents deadlock, the abstract lock is implemented |
| `path_locks_crash` | 3 processes, 1 path, 4 inodes, `FaultySpec` | `MutualExclusion` violated | a kill between `unlink()` and `write()` gives one lock to two processes |
| `gc_chain` | 1 client thread, 2 paths with a reference, every initial store and `pathsToDelete` | `TypeOK`, `Closed`, `Protected`, `ValidOnDisk` | the collector's main invariants |
| `gc_threads` | 2 threads of a process, 2 paths | `LockedRootsKnown` violated | the first gap, by the shared lock alone |
| `worker` | E with two outputs that share a build and a source, and F; or T with three outputs and a source; one slot of each kind, a hook; keep-going and fallback on and off | `SlotsRespected`, `NobodyForgotten`, `OtherAssertionsHold` | the scheduler loses neither goals nor slots, even when goals are cancelled, and all assertions hold but those of the two runs below |
| `worker_live` | D with unknown output path that depends on E, or F whose derivation is substituted; none or one build slot | `RunReturns` | `run` ends |
| `worker_busy` | E alone | `DoneWithExitCode` violated | a failure of one output while the first is not finished makes `amDone` abort |
| `worker_orphan` | T and a path to be substituted | `ChildrenHaveGoals` violated | a destroyed query leaves its child to `waitForInput`, which aborts |
| `files` | 3 optimisers and a collector; 2 installers, an updater, a manager, 4 generations; 1 process with a temproots file, stale or not, and 2 scanners; 2 builds with 2 outputs; 3 repositories, 4 top-level flakes, 3 commands | `ContentsKept`, `CurrentExists`, `NoLostUpdate`, `GenerationsKept`, `LiveRootsFound`, `RegisteredExactly`, `LockIsStable`, `LockIsFaithful`, `PinsKept` | what processes share in files stays consistent |
| `threads` | 3 threads and every graph of 3 nodes, up to their names; 3 clients and 1 connection; 3 elements; 2 paths, cache of 1; 3 values, forced twice | `DependenciesFirst`, `CompleteOrCyclic`, `GraphReturns`, `ConnectionsExclusive`, `ClientsDone`, `ClosureReturns`, `CacheCoherent`, `ForcedAgrees` | what threads share in memory stays consistent and nobody waits for ever |
| `services` | 1 download of 3 chunks, 2 tries, buffer of 1; 3 hooks, 2 machines with 1 and 2 slots; 2 operations of up to 2 frames; streams of 5 characters; 1 client thread, 1 path and collectors | `CallbackOnce`, `SinkExact`, `DownloadReturns`, `BestMachineChosen`, `HookAnswers`, `InStep`, `OperationEnds`, `ScanExact`, `RewriteExact`, `AddTempRootReturns` | the services of a build keep their promises |
| `daemon_sync` | 2 operations, one of which is rejected early | `AlwaysInStep` violated | a rejected upload stays in the connection |

Bounds.  Three processes are needed for the lock race (one deletes, one holds the
nameless file, one creates the new one) and are used in `path_locks_crash`, the
proofs cover any number; deadlock needs two processes and two paths.  The collector's
races need one client, one collector and two paths (a path and its referrer);
several processes are left to the proofs.  For the scheduler, one slot of each kind
with two goals that want it reaches the limits, and three outputs reach a trampoline
with one finished, one failed and one cancelled goal.  In `files`, three optimisers
let two of them race while a third repairs; a generation can be deleted and its
number used again within four; one process and two scanners have the races of
`TempRoots` (files of different processes do not meet); three commands reach an edit between two lockings.
In `threads`, three nodes have cycles of one, two and three nodes and a node that
waits for two; two clients that nest on one connection would deadlock without the
raised capacity; a cache of one evicts on the second path; forcing twice reaches a
failure, a catch and a retry.  In `services`, three chunks with a buffer of one
reach a retry after a pause and data in the buffer at the end; hashes of two characters
in streams of five are cut into up to five fragments.  The tables of small flakes
and builders in `MCFiles` are chosen to contain each branch of the code.

Deadlock is not checked where a component may come to its end (every instance is a
finite job); liveness properties say what has to happen before.

Fairness.  `FairSpec` of `PathLocks` gives weak fairness to the steps of each
process inside a call (the operating system schedules it) and to `Unlock` (an
owner of locks is a build or a store operation that ends or dies).
Interrupts and kills are the user's, so `SomebodyProceeds` excuses behaviours
with infinitely many.  For `GarbageCollector`, `ServicesFairness` has weak fairness of each
client thread inside `addTempRoot`, of the server threads and of the collector; none
for starting collectors, kills or clients' choices.  `AddTempRootReturns` excuses
behaviours in which collectors start infinitely often: the retry loop has no bound
in the code.  `FairSpec` of `Worker` says that the thread of the worker runs, that
some child ends as long as there are children, that the poll interval passes, and
that builds which look for a lock, a machine or a build user over and over find one
some time; each is strong fairness with the enabling condition written out, since
the code polls.  In `threads` each thread, client and callback is weakly fair: a
mutex is held for one step, and an external factory or callback ends.  In
`services` the threads of a download are weakly fair and `libcurl` strongly, because
it is called in turns and goes on with one of its transfers each time; hooks are
strongly fair, because `flock()` on `main-lock` is released again and again and its
queue is fair; the daemon and the client are weakly fair.

Findings.  `path_locks_crash`, `gc_threads`, `worker_busy`, `worker_orphan` and `daemon_sync` are
listed in `PROJECT.json` with the lines they contradict.  The other gaps named in
section 2 have no run of their own; each is one invariant or constant away from a
run that is there.

## 4. Proofs

For each component its proof module proves `Init => IInv`, `IInv /\ [Next]_vars => IInv'`
action by action and `IInv => Inv`, for every value of the constants under the
named assumption of the component's module.  These say that sets of processes,
threads, users and clients are finite where they are counted, that model values for
"nobody" and "nothing" are none of the things they are told apart from, that
limits are numbers (positive where the code requires it); for the scheduler that
`Depth` is as said in section 2, and that a query for a realisation leads to the goal of an
output; for `References` that hashes are of one length and of base-32, and that a replacement has the
length of what it replaces (asserted at `references.cc:66`); for `Thunks` that there are
no more applications than the limit on nested calls; and, for `RegisterOutputs`,
that different outputs have different scratch paths, that output paths of different
derivations differ and are not made from contents, and that a builder refers to
nothing but its inputs and outputs.  TLC has checked each
inductive invariant on the instances of section 3 before it was proved.

* `PathLocksProofs`: `TypeCorrect`, `Mutex`, `DeletionSeen`, `LockRefinement`.  The
  inductive invariant ties each process's program counter to its descriptors, says
  that whoever has a descriptor in `fds` holds the `flock()` on it, that names and
  descriptors of different paths are different inodes, that a file without a
  name that is not marked is held by the process about to mark it, and
  that no stale file has a name.  The refinement also needs `OrderInv` (paths are
  taken in ascending order, an idle object holds nothing); it then shows that
  `CheckOk` acquires, `UnlockNext` or the end of the process releases, and every
  other step leaves the owners alone.
* `GarbageCollectorProofs`: `TypeCorrect`, `StoreClosed`, `RootsProtected`,
  `ValidPathsOnDisk`.  The inductive invariant describes the whole collector:
  a root that a client relies on is in a file the collector will read, in
  `tempRoots`, in transit on the socket, or exposed; what is doomed is not a
  root; what is in `alive` or `roots` is never in the queue of the deletion.  Of the
  permanent roots only those in `promised` are claimed to be protected: a link to a path that
  is not valid protects nothing.
* `TempRootsProofs`: `TempRootsAreFound`.  `RootsInv` says that processes have
  descriptors of different files and hold the lock once they have passed
  `lockFile()`, and so does a scanner that removes a file; that a process whose file has
  lost its name and that was not robbed will find the mark (`NameInv`); and that a
  root that was there at the beginning of a scan is found, or is the one about to be
  read, once its name has been seen.  `LiveRootsFound` alone is not inductive: it
  depends on the lock that keeps the scanner from marking the file of a process
  that has checked it.  `NewFileExists` shows that the bound on inodes leaves a free
  one.
* `FilesProofs`:
  * `OptimiseKeepsContents`.  `LinksInv` says that a file keeps its inode until its
    `rename()`, so that the inode of a corrupt entry never comes back into `.links`
    once it has gone, and that a process that has looked for corruption neither
    finds nor holds the corrupt entry.
  * `ProfileExists`, `UpdatesKept` and the action property `LinksNeverReplaced`.
    `ProfileInv` says that whoever changes the profile under the lock has it
    (`LockedInv`), that what is about to be deleted is not the current generation
    (`DeleteInv`), and how the token of an installer, taken without the lock, relates
    to the current generation and to `disturbed` at each later point (`TokenInv`), while others
    may be about to switch to what is current already (`SwitchesToCurrent`).  None of the three
    properties is inductive without these, since each step relies on what was read
    some steps before.
* `ServicesProofs`:
  * `CalledOnce` and `SinkGetsResource`.  `CallInv` says that an item which is queued,
    active or being destroyed is in one place only and has not called back, and that
    nobody refers to one that is being destroyed; `SinkInv` that the length of what the
    caller has got is `writtenToSink`, that a response which is resumed starts there, and
    that an encoded body is never resumed.
  * `BestMachineIsChosen`.  `ScanInv` says that whoever scans has `main-lock` and no slot
    but its best one, so that no other hook counts a slot held for a moment as load;
    `BestInv` that the best slot so far is locked and no machine scanned so far is
    better; and that a hook that waits has none.  That being better is transitive across products of loads and speeds is
    the lemmas `Products` and `BetterFacts`.
  * `ConnectionInStep`.  `SyncInv` relates the contents of both sockets to the points at which
    client and daemon are: what is under way is exactly what the other side goes on to
    read.  `UpInv` and `DownInv` give the shape of the two streams, `KindInv` says that the
    daemon works on the operation the client has asked for, so that both agree whether a reply
    follows, `PeerInv` that an error the client sees while it sends is the daemon's last word.
  * `ScanIsExact`.  `SearchFinds` says that the search looks up exactly the substrings of
    base-32: what it skips holds the character that it has skipped over.  `TailInv` says
    that the tail is the end of what was given, as long as a hash or all of it, so that a
    hash that occurs in a stream occurs in a fragment or across the tail and the beginning
    of one (`WindowsAcross`).
  * `OneRewriteIsExact`, for at most one pair.  `PrevInv` says that what has been passed on
    and what is held back are the rewritten stream so far, and that as much is held back as
    one character less than the string searched for, or all.  `ReplacedAcross` compares the
    rounds of the loop on a longer stream with those on the stream so far, and on what was
    held back with the fragment: every position is tried exactly once, and in the same order.
* `ThreadsProofs`:
  * `CacheIsCoherent`.  `AnswerInv` says that an answer a thread is about to store is still
    right, or the path has changed since (`old`); `AddedInv` that what a transaction
    has added is cached as valid or not at all; `SizedInv` that a cache of size 0 is
    empty.
  * `ConnectionsAreExclusive`.  `ConnectionInv` counts: `inUse` is the number of handles and
    of clients in the factory, `max` is the configured maximum and one for each client
    within its nested use, idle and used connections together never exceed it.
  * `DependenciesAreFirst` and `CompletesOrCyclic`.  `OnePlace` says that a node is at
    most at one place (to be enqueued, in the queue, with one thread, waiting,
    processed), `RefsInv` that `refs` and `rrefs` are inverse to each other except
    for the node whose reverse references are being released, and that a node's
    references are processed or among those it waits for; `DoneInv` that the processed nodes
    lie within every set that is closed under "all references are in it"; `TokenInv`
    that no node that is left is forgotten unless something failed; `QuitInv` that the
    pool quits without an exception only when nobody has an item and the queue is empty.
    At the end every node that is left waits for one that is left, so the processed nodes
    are themselves closed.
  * `ForcingAgrees`.  `StackOK` says that each frame waits for the next one and that the
    operands it has are what they mean, `HeapOK` that a number in the heap is what the
    value means and that a black hole is on the stack, `ControlOK` what the value
    returned or the exception raised tells of the last frame.  `DepthOK` is why black holes
    are reported only for what needs itself: unless the value that was forced is an infinite
    recursion, each frame's value is known at a lesser depth than those before it, so that no value is
    on the stack twice, and no more applications than there are.  `MeaningIsSettled`
    shows that a program of n values needs no more than n depths: each one tells at
    least one more value, or nothing new from then on.
* `OutputsProofs`: `OutputsRegistered`.  `RewritesInv` says that the rewrites so far are
  those from the scratch paths of the outputs that are done to their final paths, and
  nothing else; `InfosInv` and `CurInv` that the info of an output, done or at hand,
  has the references its rewritten contents have, which are valid or outputs of the
  same builder, and that from the move on the contents are on disk; `ValidInv` that a valid path made from
  contents has exactly these contents.  The last is why a builder that finds the path
  valid can throw its own output away.  `Mine` are the paths that a builder alone may change:
  those of its derivation, and those it has the lock on.  The proof of each step
  shows that it changes files only at such a path, and only before it is valid, so
  the invariants of the other builders hold on (`OtherBuilders`).  The rewriting of
  contents with references to themselves is `ContentRewriting`: the references
  found before the rewriting, rewritten, are those of the rewritten contents, because no
  rewrite leads to the scratch path that is still to be replaced.
* `WorkerProofs`: `SlotsAreRespected`, `NobodyIsForgotten`, `OtherAssertionsAlwaysHold`
  (not the assertions of `worker_busy` and `worker_orphan`, which fail).  The
  invariant is one of the states between two calls of a primitive, because a goal makes
  several before it waits: `PlaceInv` says that every goal but the one that runs waits
  for exactly one thing, and is in the list that belongs to it; `SlotInv` that the
  counters are the numbers of the children in slots; `LinkInv` that waiters and waitees
  are inverse to each other and go strictly down in `Depth`; `KeepInv` what keep-going adds.
  Each primitive of `Scheduler` has a lemma about what it keeps, and each coroutine a lemma
  that cites those of the primitives it calls.  What `Owned` computes is the least set
  that is closed under holding, which gives that a goal that is awaited is not destroyed.
  That run always has something to wait for: the least deep goal that exists waits for no goal.
  The proof found an error in an earlier version of `NobodyForgotten`: a goal that
  waits for a substitution slot may wait for that of a child whose goal has been
  destroyed (section 2), which the instance of `worker` does not reach.

A definition by recursion is proved about without an induction theorem: its solution is
exhibited, or a least counterexample (`SmallestNumber`, `GreatestElement`) contradicted.

Only model-checked:

* All liveness properties: liveness under fairness is out of the prover's reach.
* `LockIsStable`, `LockIsFaithful`, `PinsKept`: `Flakes` uses RECURSIVE operators over
  trees of inputs.
* `RewriteExact` with several pairs, which needs a condition that the code does not
  ensure (section 2, References).

## 5. Not modelled

* *Build users, autoGC, upload locks*: the same non-blocking file locks as in
  `BuildHook`, without a new interaction.
* *Binary caches, fetchers, S3, git*: input, output and encodings; caches in SQLite
  with a time-to-live, whose answers may be stale by design.
* *The language* (`libexpr/primops.cc`, `eval.cc` but for laziness, the parser) and
  *the command line*: sequential code on unbounded data, whose correctness is a relation between inputs and outputs and not a matter of
  states; a model would be a second implementation.
* *The sandbox*: system calls whose effect is defined by the kernel.
* *The Zig front end*: as the language; its evaluator differs from `Thunks` as
  described there.

For these reasons the map covers a small share of the repository's lines, most of
which are in the parts named here; of the files that carry the concurrency it
covers most of the state-changing code.

## 6. Plan

1. *(done)* `PathLocks`, `GarbageCollector`, `Scheduler`, `Worker`, their runs, the proofs
   of the first two.
2. *(done)* `AbstractLock` and its refinement, `TempRoots`, `Optimise`, `Profiles`,
   `RegisterOutputs`, `Flakes`, `Thunks`, `ThreadPool`, `ProcessGraph`, `Closure`,
   `ConnectionPool`, `PathInfoCache`, `FileTransfer`, `BuildHook`, `DaemonProtocol`,
   `References`.
3. *(done)* The proofs for `Optimise`, `TempRoots`, `Profiles`, `FileTransfer`, `BuildHook`,
   `DaemonProtocol`, `PathInfoCache`, `ConnectionPool`, `ProcessGraph`, `RegisterOutputs`,
   `Scheduler` and `Worker`, `References` (for one pair of `RewritingSink`) and `Thunks`.
4. Repair and check modes of the builder, keep-outputs and keep-derivations of the
   collector.
