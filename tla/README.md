# A verification model of go-aria2

go-aria2 is a download daemon that speaks aria2's RPC: clients add, pause, move and remove
downloads over JSON-RPC, XML-RPC, WebSocket or HTTP; a task manager keeps the list of tasks and
passes each to the driver of its protocol; events, a session file and background loops keep
everybody informed and let downloads survive a restart.

This directory holds TLA+ modules for the parts of the daemon where concurrency, failure or
ordering decide whether it is right, TLC configurations that check them on small instances, and
TLAPS proofs of the properties that hold for every size. Paths below are relative to
`src/internal/` unless they begin with another directory of the repository.

To check a run: `tlc -workers 2 -config serial.cfg MCTaskManager.tla`. To check the proofs of a
module: `tlapm TaskManagerProofs.tla`.


## 1. Inventory

| component | state | operations | talks to |
|---|---|---|---|
| task manager, lifecycle (`core/manager/manager.go`) | `tasks`, `driverByTaskID`, `numStoppedTotal` under `mu`; `removeLocks` under `removeMu` | Add, Remove, Pause(All), Unpause(All), ChangeOption, RemoveDownloadResult, PurgeDownloadResult, TellStatus, SyncActive, SaveSession, LoadSession | calls the drivers, the session store and the event bus; is called by RPC goroutines, syncLoop, persistLoop |
| task manager, options (the same file) | `globalOptions`; `Options` and `LocalOptions` of each task; the drivers' copies | ChangeOption, ChangeGlobalOption, and what Add, LoadSession and storeTask take over | drivers, torrents, the session |
| download queue (`core/manager/queue.go`) | none of its own: the order of `CreatedAt` | ChangePosition, insertion at a position, the pages of tellWaiting | the manager's map, the drivers' copies of `CreatedAt` |
| event bus (`core/manager/manager.go`, `rpc/jsonrpc/websocket.go`, `notify.go`) | `subscribers` under `subMu`, one channel per WebSocket connection, the last status each connection saw | emit, Subscribe, unsubscribe; a reader and a writer per connection | every call of the manager emits; a connection is also a client of the manager |
| session store (`core/session/file_store.go`, `migrate/aria2session/text`) | the session file and `path.tmp`, a text file beside it | Save, Load, in JSON and in aria2's text format | called at the end of most RPC calls, by both loops and at exit |
| HTTP driver (`protocol/httpdl/`) | per task: status, `running`, `cancel`, `removed`, mirrors, progress, under `mu`; the target file; one overall limiter | Add, Start, Pause, Remove, PurgeLocalState, ChangeOption, ChangeURI, TellStatus, LoadSessionTasks, and the goroutine `download` with one more per range | the server, the file, the manager that polls it |
| range splitting (`protocol/common/split.go`) | locals of two loops | EffectiveSegmentCount, BuildDownloadRanges | the HTTP driver |
| rate limiting (`protocol/common/ratelimit.go`, `protocol/bt/task_rate_limit.go`) | token buckets | Wait, TryConsume, CanAfford, SetRate, the loop over torrents | all drivers |
| FTP, SFTP and local-file drivers | as the HTTP driver, one stream | the same interface | server or file |
| BitTorrent driver (`protocol/bt/`) | per task flags, the torrent handle, buckets | the same interface, integrity checks, seed policy, rate limits, late metadata | the torrent library |
| ed2k driver (`protocol/ed2k/`) | tasks over the client's transfers, the client's own state file | the same interface, an HTTP gateway, rechecks | the client |
| RPC services (`compat/aria2`, `rpc/jsonrpc`, `rpc/xmlrpc`, `rpc/httpapi`) | none but the connection | tokens, batches, multicalls, saves and shutdown as calls | the manager, the main goroutine |
| daemon (`app/daemon.go`) | the loops, `shutdownReq` | start, syncLoop, persistLoop, shutdown with a deadline | all of the above |
| migration (`migrate/aria2session`, `app/migrate.go`) | none | a session of aria2 is read, added task by task, saved; the same for an input file and an import | manager, session store |
| configuration, flags, Metalink | none | parsing at start-up | |

What is hard. The manager releases `mu` around every call of a driver, so each of its operations
is a chain of short critical sections: it reads a status, unlocks, and stores the status later,
when the task may have been removed, paused or finished (`storeTask`, manager.go:1165-1238). The
decision to start a task and the start are separate. Options live in up to five places that are
changed one after another. Nothing serialises saves of the session. In the drivers Pause and
Remove only cancel a context and return, so goroutines of several generations of one task may be
alive and write the same file and the same status. Four parts of the BitTorrent driver switch the
data of a torrent on and off without knowing of each other. emit waits for subscribers while it
holds a lock that they need to leave, and what a client is told depends on which query saw a
change first. PROJECT.json lists these hazards, each at its line.

What makes the components right:

* manager: a removed task stays removed; no download runs that the manager has no record of; of
  several removers one wins; a stop is counted once; a free slot does not stay free while a task
  waits; paused tasks are left paused; the session file names the tasks there are.
* options: what a client has set on a task is in effect until somebody changes it, through
  restarts; torrents announce where the options say, limits are what the manager reports.
* queue: a call moves one task to the place asked for and no other task; pages cover the queue.
* event bus: events of a caller arrive in order and without gaps; no send on a closed channel; emit
  returns; a client is told that a download ended, and not twice that it started.
* session: whatever is interrupted, the file is a whole snapshot, not older than the last one
  acknowledged; what is in it comes back with its GID, its URI and its pause, from either format.
* drivers: one live goroutine per task, which Pause can reach; a removed task does not move any
  more; a complete task has its bytes; an active task settles; a paused one stays still.
* range splitting: the ranges partition the missing bytes and respect the options; the loops end.
* limits: the tasks together stay under the overall limit, and a task that waits gets its bytes.
* RPC and daemon: a call without the token does nothing, every call has its own answer, a shutdown
  comes about and keeps what had happened.

Not all of this is so; section 6 says what is not.


## 2. Modules and the code they stand for

`PROJECT.json` maps every definition to its lines.

**TaskManager** (`MCTaskManager`, `TaskManagerProofs`; a second instance in `MCDaemon`). A
goroutine is a program counter, a stack of return labels and the locals of the call; an action is
one critical section of `Manager.mu`, `removeMu`, a remove mutex, or the driver's lock. Helpers
(`syncTaskByID`, `startTaskByID`, `SaveSession`, `fillSlots`) are sub-programs entered with `Call`
and left with `Succeed` or `Fail`, so an operation consists of what its Go body does in its order,
with every early return. All twelve operations that change a status are there. The drivers are the
contract of `core/manager/driver.go`: a status per task and the sticky `removed` flag that all
drivers keep; `RemoveMayFail` stands for ed2k, whose Remove reports the client's error after the
flag is set, and DriverStart lets a finished BitTorrent task stay complete. `lost` are the tasks
whose download the client behind their driver has lost (`Lose`: the ed2k transfer was removed by
another task of the same hash or through the gateway): the driver still has the task, but finds no
status for it, and Start, Pause, ChangeOption and the first Remove answer with the client's error
(`DriverFails`). So fillSlots, pauseAll, unpauseAll and Add may fail half way, as in the code. A lost
download stays lost; that the hash may be added again is Ed2kDriver's subject. `stops` and `wins` are
history. Left out: EnforceSeedLimits (a BitTorrent task that has seeded enough is stopped by its
driver, see BtDriver, and the result stored as a refresh is); tasks that the BitTorrent driver has
detached from the session; the listings that refresh all tasks of a kind, which are TellStatus
once per task; the "native" extras.

**Options** (`Settings`, `MCSettings`, `SettingsProofs`). The five places of an option: `globalOptions`, the task's own, their
merge, the driver's copy, and what a torrent was told; the overall limiter of two drivers; the
session. One action is the section under `m.mu`; the calls of drivers that follow it, the refresh
that stores what the driver says, and the save are actions of their own, so calls overlap where
they can. `asked` is what a client last asked for; `frail` and `tangled` record where the code
does not keep it (section 5).

**TaskQueue** (`DownloadQueue`, `MCTaskQueue`, `ManagerProofs`). `CreatedAt` of the manager and of
the driver's copy, the clock, and the calls with their two critical sections: read the queue and work
out the order; write the new stamps. fillSlots picks the next task in one section and starts it in
another (`picked`), with other calls between. A task that is added at a position was looked up before that, so
it may have left the queue. `overtaken` records the calls whose tasks have got other dates since they
read the queue. DownloadQueue renames variables and constants, so that one module of proofs is about
the queue and the events. SaveSession and the refreshes merge the driver's date over the manager's exactly when it
is not zero, which is the case for restored tasks only. LinkBatchDownloads, which does not order
anything, is left out.

**EventBus** (`ClientEvents`, `ManagerProofs`). emit as lock, one send per subscriber, unlock; the
RWMutex as Go has it (a waiting Lock holds back later RLocks); the reader and the writer of each
WebSocket connection, its context, and the peer that goes away or stops reading: no write has a
deadline.
**Notifications** (`ClientEvents`, `ManagerProofs`) is the other half: what a connection makes of the events of one
task. A call reads the driver, stores, saves and emits in separate steps; queries and saves store
without emitting.

**SessionStore**, extended by **Daemon** (`MCDaemon`, `DaemonProofs`). The two names and the
files they refer to; os.WriteFile as open-and-truncate and write; rename; a crash between any two
steps and inside a write; Load. A snapshot is a version number repeated once per task, so a torn or
mixed file is one that is no snapshot. The loss of unsynced data (there is no fsync) is left out: a
crash is the end of the process. Daemon says who saves when: startup jobs, requests, both loops,
and the main goroutine at exit; the shutdown hooks with their buffered channel, the server's drain
with its five seconds, `Close` under the same deadline. A call that changes something may fail
before the change, or with it made in whole or in part (`CallFails`), and saves once more for what
fillSlots started. `stuck` says that a Start of the BitTorrent driver holds `Driver.mu` for good
(section 6): snapshots and Close wait for that lock. Its requests come through
**RpcServer**, an INSTANCE: a stack of frames for bodies, batches and nested multicalls, the check
of the token outside and inside, notifications without id, and the answer that each call appends.
What RpcServer promises of nested multicalls is stated in **RpcAnswers**, since it follows them by
recursion and RpcServer itself is used by what is proved.

**TextSession** (`Settings`, `MCSettings`, `SettingsProofs`). Tasks on their way through session files: the lines of
aria2's text format as they are written and parsed, JSON with the drivers' own keys, which of the
two a save or a load uses in each setup, what a driver can restore from it, and the three ways to
take tasks in (migrate-from-aria2, import of a session, the input file), one task at a time, with
tasks that fail and a process that dies. **Settings** holds Options and TextSession side by side.

**Download** is the abstract specification of a driver: at most one worker of a task goes on, a
worker may be stopped at any time, none goes on or begins once the task is removed. HttpDriver,
DirectDriver (of FTP and SFTP: a local copy may have two workers, section 6), BtDriver and
Ed2kDriver implement it (`KeepsContract`), each by an INSTANCE that says
what its workers are: goroutines whose context is not cancelled, a torrent whose data are switched
on, a transfer that runs.

**HttpDriver** (`MCHttpDriver`, `HttpDriverProofs`). One task: the fields guarded by `Driver.mu`,
the target file as its length and the set of blocks that are right, and the goroutines ("runs")
from the check of the file through probing, retries, ranged and single downloads to the checksum.
A body that ends early ends the request as a full one does, and the run keeps what it has left out
(`todo`). A forced Remove deletes the file after it has let go of the lock (`unlink`), and
changeOption with index-out gives the task another path while a run goes on (`moved`); a run that
has its file open goes on writing it where nobody looks (`away`). Left out: disk errors and progress
figures. What it does one block
after another in segments is concurrent in **SegmentedDownload** (`MCSegmentedDownload`,
`SegmentedDownloadProofs`): the ranges of DownloadRanges, if there is more than one segment, a
goroutine for each behind the semaphore, every one with its way through the mirrors, which share the
unlocked `sourceIndex` and which changeUri edits. A mirror answers in full, refuses, falls silent,
ends its answer early (the range counts as fetched; `leftOut` is what it lacks) or answers too much.

**DirectDriver** (`MCDirectDriver`, `DirectDriverProofs`). The FTP, SFTP and local file drivers in one module, with
`kind` for what they do differently: connecting to one endpoint after another, looking at the
partial file, preparing the target, copying a block at a time to a position of the file, and
finishing; changeOption (index-out among it) and changeUri meanwhile; deletion of the file by a
forced Remove, which a goroutine may survive.

**DownloadRanges** (`MCSegmentedDownload`, `SegmentedDownloadProofs`). EffectiveSegmentCount as an
operator, the two loops of BuildDownloadRanges one turn to a step, over every input.

**ByteLimiter** is the token bucket, a record of tokens and of the time since it was filled.
**DownloadLimits** (`MCDownloadLimits`, `SettingsProofs`) puts the tasks of a driver that has one
overall limiter, or none, on top of it: what NewTaskDownloadLimiter gives a task for each setting of
its own and of the overall option, when it is added, changed and restored, and the goroutines that
wait. BtDriver uses ByteLimiter for a torrent's own limits.

**BtDriver** (`Peers`). One torrent and what says whether it may move data: Start (which locks
`Driver.mu` twice when it begins an integrity check and never returns), Pause, the seed policy, the
loop over rate limits, ChangeOption, metadata that arrive late, restarts with the goroutine that
waits for metadata, completion and bt-detach-seed-only. The torrent library is external.

**Ed2kDriver** (`Peers`). Tasks over transfers that are named by their hash, so that two tasks
may share one; Add in three steps, since it talks to the client before it takes the lock; the
gateway's calls, which go past the driver; rechecks, which pause and resume; the client's state
file, which is written at other times than the session.

**Peers** (`MCPeers`, `PeersProofs`) holds the two drivers that leave the transfer to a library side
by side, with the properties that they share.

Modules that no step of the code ties together share no variables: TaskManager's drivers are the
abstract side of what the drivers' modules do (Start refused when removed, Pause and Remove at
once), SessionStore's `version` is TaskManager's `tasks`, EventBus's emitters are TaskManager's
callers. Where a module holds two of them (`ClientEvents`, `MCDaemon`, `Settings`; Peers in the same way), a
variable says which of the two a behaviour is about, the other's variables stay as they begin, and
the fairness of each is for its own behaviours; these runs answer the questions of both.


## 3. Runs

Every passing property has a mutant in PROJECT.json: a plausible slip in the code, stated as an
operator next to the definition it replaces, under which TLC finds the property violated. Where a
part of the system makes several promises of one kind, a run checks their conjunction, with the
parts as definitions of their own (in parentheses below), so that each can be put into a cfg alone.

| run | instance | what it shows |
|---|---|---|
| `serial` | 3 tasks, 1 client with all twelve calls, limit 1, one download ends on its own as complete or error, Remove may fail, the second task may be lost | `TypeOK`; `CountedOnce`; `RemovedStaysRemoved`; `SessionMatches`; `StartsInTurn` (`PausedNotPromoted`; `OnlyClientsExceed`: Add, fillSlots and refreshes keep max-concurrent-downloads) |
| `race` | 1 task, 3 clients that remove it, one of which also unpauses it and changes its options, and a syncLoop | `NoOrphanDownload`, `RemoversTakeTurns` (`RemoveOnce`, under its condition `RemovesAlone`, and `LocksForgotten`) |
| `queue` | 2 tasks and 2 callers, or 1 caller and restarts, or 3 tasks and 1 caller, or 3 waiting tasks and 2 callers; all modes, positions -1..1 | `PagesCover`, `MoveIsExact` (`EarlierLands`, `OthersKeepOrder`) |
| `bus` | 2 goroutines and 1 connection, 2 events each, a channel of 1, the connection may break; 1 task and 2 callers with all calls, or syncLoop and a client | `InOrder`, `NoSendOnClosed`, `EmitReturnsUnlessClogged`; `ToldInTurn` (`SaidInTurn`, `Forgotten`), `EndIsTold` |
| `daemon` | 8 configurations of a secret, clients, loops and torrents; a batch, multicalls in multicalls, both shutdowns; a crash; 2 versions. And 2 tasks, of which one may be lost, with syncLoop alone | `NeverTorn`, `SavedIsKept`, `CallsAnswered` (`Authorised`, `AnswersMatch`), `OrderlyExit` (`QuietSavesAlone`, `CleanExit`), `ShutdownEnds`; `SlotsRefilled` |
| `settings` | 2 clients, 3 changes and restarts, 1 value besides the configured one; JSON, text and compatibility setups, 3 ids, 4 starts, imports and calls, 3 files of aria2 | `OptionsInEffect` (`KeptInEffect`, `TrackersFollow`, `LimitsAgree`); `SavedIsFound` (`NothingLost`, `RoundTrip`, `JsonStarts`), `MigrationComplete` (`AllMigrated`, `EarlierStays`) |
| `http` | 2 blocks, 1 already on disk, 2 generations, 2 tries, a checksum, every answer of the options for existing files, answers that end early, pause, remove with and without deletion, rename, restart, fair | `CompleteIsEarned` (`FirstRunIsWhole`, `VerifiedIsWhole`), `KeepsContract`, `RunsSettle` (`ActiveSettles`, `CancelledEnds`) |
| `direct` | the three drivers, 2 blocks, 2 generations, up to 2 mirrors, all calls | `SoleRunIsWhole`, `KeepsContract` |
| `ranges` | sizes 0..9, starts 0..9, split -1..4, connections 0..3, min-split-size and piece-length 0..4; three shapes of 3 or 4 bytes fetched from up to 2 mirrors | `Partition`, `OptionsRespected` (`RespectsOptions`, `ConnectionsBounded`), `OutcomeIsTrue` (`SuccessIsWhole`, `FailureHasCause`), `AlwaysReturns` (`Terminates`, `Returns`) |
| `limits` | 2 tasks with every setting, rates 1 and 2, 2 limiters, HTTP or FTP | `OverallRespected`, `SomebodyPasses` |
| `peers` | ed2k: 1 task with gateway, 2 rechecks and state file, or 2 tasks on one transfer; BitTorrent: a torrent or a magnet with 3 sets of options | `FlagsMatch` (`InStep`, `NoSilentStall`), `ContractsKept` (`KeepsContract` of both), `PausedStayStill` (`PausedStaysStill` of both), `StallsEnd` (`StallEnds`, `ThrottleEnds`) |
| `v_text` | the text setup of `settings` | violates `StartsAgain` (section 6) |

Bounds. Three tasks suffice for a limit of one with a task running, one that starts and one that
waits; the races of `race` need two removers and a third one that comes after the mutex was
forgotten. Two generations of goroutines are what the contract compares (`OneLiveRun` is
proved for any number); two blocks distinguish whole, partial and holed files; three ranges
with two segments make one wait for the semaphore, and of two mirrors one fails. A channel of one
fills up at once, as 256 events do later. `Tick` 10 and `Second` 14 keep all stamps of a queue
different, as nanosecond clocks do; a second of one tick in `limits` and of two in `peers` lets
buckets fill and overflow. One task of `serial` and one of `daemon` is `Losable`, none of `race`. At
the name that index-out gives there is no file, which is a bound as well. In `queue` one goroutine at
a time fills slots. Two rates are a limit and a faster one. Two task versions with 1 and 2
tasks give snapshots of different lengths. One value of an option besides the configured one
distinguishes what was asked from what was there. `StopBound`, `LastReading`, `EmitBound`,
`Versions`, `CrashBound`, `MaxTries`, `MaxEdits`, `MaxMoved`, `Budget` and `Turns` end otherwise
endless histories. `race` has `StopBound` 0: a download that ends on its own is in the other runs.

`CHECK_DEADLOCK FALSE` is said where the program may really stop: a driver whose task is over, a
queue whose clock bound is reached, a bus whose connections have left, a daemon that is down, an
algorithm that has returned, a history that has used up its bound.

Fairness. Goroutines of a call are carried on (the Go scheduler), the tickers of syncLoop and of
the rate limits keep firing, time passes for those that wait for tokens, the main goroutine reads its
channel. Nothing is assumed of clients, servers, gateways or peers: clients need not call, downloads
need not end, a peer need not leave. A goroutine of a download is carried on unless it waits for its
server (`Waits`, `Silent`): timeouts are set only for options above 0 (httpdl/driver.go:1152-1172) and
are 0 by default, so a server may stay silent for ever, and `RunsSettle` and `AlwaysReturns` excuse
exactly that; FTP and SFTP have no timeouts at all, and nothing is claimed of their progress. A write
to a WebSocket peer need not return while the connection is up (websocket.go:58 and 86 set no
deadline), and `EmitReturnsUnlessClogged` excuses a peer that does not read.


## 4. Proofs

| theorem | statement | argument |
|---|---|---|
| `TaskManagerProofs!TypeCorrect` | `Spec => []TypeOK` | `TypeInv` adds what a step needs of its locals (`StepNeeds`): a status is stored only after one was read, for a task |
| `TaskManagerProofs!NoOrphans` | `Spec => []NoOrphanDownload` | below |
| `TaskManagerProofs!TurnsTaken` | `Spec => []RemoversTakeTurns` | below |
| `TaskManagerProofs!StaysRemoved` | `Spec => [](OneAtATime => RemovedStaysRemoved)` | below |
| `TaskManagerProofs!StopsCounted` | `Spec => [](OneAtATime => CountedOnce)` | below |
| `TaskManagerProofs!SessionKept` | `Spec => [](OneAtATime => SessionMatches)` | below |
| `TaskManagerProofs!StartedInTurn` | `OneAtATime` implies `Spec => StartsInTurn` | below |
| `HttpDriverProofs!TypeCorrect` | `Spec => []TypeOK` | inductive as it stands |
| `HttpDriverProofs!SingleLiveRun` | `Spec => []OneLiveRun` | inductive with the types: no step of a run revives another or takes its mark of cancellation away (`Shrinks`), and only Start makes a live run, when none is |
| `HttpDriverProofs!RemovedStops` | `Spec => []RemovedIsCancelled` | from the former: the run that Remove cancels is the only live one, and Start looks at `removed` |
| `HttpDriverProofs!ImplementsDownload` | `Spec => KeepsContract` | with `OneLiveRun` a step of a run can only empty the set of live ones (`EndOrStutter`), Start finds it empty, and Remove leaves it empty for good |
| `HttpDriverProofs!CompleteEarned` | `Spec => []CompleteIsEarned` | `FirstInv`: until a second run begins or the task is renamed, what is missing of the file is still to do, or was left out by an answer that ended early, and a status "complete" comes after the last block; `VerifiedInv`: a complete task with a checksum is whole, or its run has yet to verify it or never will |
| `DirectDriverProofs!TypeCorrect` | `Spec => []TypeOK` | with the mirror of a run numbered from 1 while it goes through them |
| `DirectDriverProofs!ImplementsDownload` | `Spec => KeepsContract` | `LiveInv`: with FTP and SFTP the run that goes on is the one `cancel` names, `running` is set, and there is none of a removed task |
| `DirectDriverProofs!SoleRunCorrect` | `Spec => []SoleRunIsWhole` | `CourseInv`: until the task is renamed, what the only run has written is in its place, and it does not report "complete" before it has been through the source |
| `ManagerProofs!TypeCorrect` | `Spec => []TypeOK` | inductive as it stands |
| `ManagerProofs!OpenChannels` | `Spec => []NoSendOnClosed` | unsubscribe waits until nobody sends |
| `ManagerProofs!SeenInOrder` | `Spec => []InOrder` | `OrderInv`: a subscriber has seen consecutive events of each emitter, up to the last one that emit has got to for it (`Due`) |
| `ManagerProofs!ToldCorrect` | `N!Spec => []ToldInTurn`, N being Notifications | `Course`: while no two calls have overlapped the connection has an entry of the task when the manager and the driver have it, and is behind them only during a call; `Turns`: the entry fits the last notification, so a start or a pause is not said twice |
| `ManagerProofs!QueueInvariant` | `QueueSpec => []QueueInv` | below |
| `ManagerProofs!MovesAreExact` | `QueueSpec => MoveIsExact` | below |
| `DaemonProofs!TypeCorrect` | `Spec => []TypeOK`, Spec being SessionStore's | inductive as it stands |
| `DaemonProofs!SerialSavesNeverTear` | `Spec => []NeverTorn` | as long as no two saves have overlapped, the file behind `path` is never the one behind `path.tmp`, and that one is whole before it is renamed (`StoreInv`) |
| `DaemonProofs!SerialSavesAreKept` | `Spec => []SavedIsKept` | then the file behind `path` is the snapshot of the version last acknowledged (`Kept`), since neither a saver nor a crash writes to it (`CrashSparesPath`) |
| `DaemonProofs!DaemonStoreTypes`, `DaemonNeverTears`, `DaemonKeepsSaved` | `DaemonSpec => []TypeOK`, `[]NeverTorn`, `[]SavedIsKept` | every step of the daemon is for the store one of its own steps or none (`StoreStep`), so the same invariants do |
| `DaemonProofs!DaemonInvariant` | `DaemonSpec => []DaemonInv` | below |
| `DaemonProofs!ExitIsOrderly` | `DaemonSpec => []OrderlyExit` | below |
| `DaemonProofs!DaemonStarts` | `DaemonSpec => [](~overlapped => AlwaysStarts)` | Load refuses only what is no snapshot, and there is none by `StoreInv` |
| `SegmentedDownloadProofs!TypeCorrect` | `Spec => []TypeOK` | below |
| `SegmentedDownloadProofs!RangesPartition` | `Spec => []Partition` | below |
| `SegmentedDownloadProofs!OptionsKept` | `Spec => []RespectsOptions` | `OptionInv`: in the loop over even chunks as many ranges are there as chunks have been passed, and a chunk is as long as min-split-size |
| `SegmentedDownloadProofs!OptionsAreRespected` | `DownloadSpec => []OptionsRespected` | `PlanInv` (the plan of a download is one of DownloadRanges) and `PlacesInv`: goroutines that run hold a place of the semaphore |
| `SegmentedDownloadProofs!OutcomeCorrect` | `DownloadSpec => []OutcomeIsTrue` | `WholeInv`: a goroutine that is over has its bytes, or they were left out, or an error is on the channel; `MirrorInv`: goroutines ask only mirrors of the list, so while all of these answer in full and nobody pauses (`Unharmed`) there is no error |
| `PeersProofs!FlagsAgree` | `PeersSpec => []FlagsMatch` | `Ed2kInv`, `BtInv`: what each step of a call, of a restore and of a recheck may rely on for the task and for its transfer |
| `PeersProofs!ImplementDownload` | `PeersSpec => ContractsKept` | from the same invariants, with what a step may not do: bring a removed task back (`Gone`), make its transfer run |
| `PeersProofs!PauseHolds` | `PeersSpec => PausedStayStill` | the same (`Still`, `BtStill`) |
| `SettingsProofs!TypeCorrect` | `Spec => []TypeOK` | with `Sound` buckets, which hold no more than a second's worth |
| `SettingsProofs!OverallCorrect` | `Spec => []OverallRespected` | below |
| `SettingsProofs!OptionsHold` | `BothSpec => []OptionsInEffect` | below |
| `SettingsProofs!JsonAlwaysStarts` | `BothSpec => []T!JsonStarts`, T being TextSession | below |
| `SettingsProofs!AllIsMigrated` | `BothSpec => []T!AllMigrated` | below |
| `SettingsProofs!NothingLostInJson` | `BothSpec => [](viaText \/ (T!NothingLost /\ MigrationComplete))` | below |

They hold for any number of tasks, goroutines, runs, savers, connections, versions, mirrors,
transfers, rechecks, limiters, rates, option values, URIs and foreign files, and every size, under
the ASSUMEs of the modules, which state the kind of each constant. One of them is about a function:
`TextAssumption` says that ParseReader makes a list of entries out of each foreign file, which is
evaluated by TLC, since ParseReader is a fold over the lines. `NeverTorn` and
`SavedIsKept` speak of histories without overlapping saves; with them they are false (section 6),
and `QuietSavesAlone` says in which configurations there are none. Four theorems about TaskManager are
about calls that do not overlap: `OneAtATime` says that there is one goroutine, as in `serial`, and
section 6 says how the properties fail with two.

`NoOrphanDownload` is not inductive: a task that is just being removed must not be started. The
strengthening `OrphanInv` says that a goroutine between Driver.Remove and the deletion from
`Manager.tasks` works on a task whose driver state has the sticky flag (`Purging`); that such a task
has no status but "removed" (`Sticky`); that a task the driver has and the manager has not is being
added or carries the flag (`Recorded`); and that every local names a task that was born
(`ControlBorn`), without which an Add could reuse its id. The step lemmas show for each action what
it does to the labels and locals and, separately, to the data.

`RemoversTakeTurns` needs to know what several goroutines hold at once (`RemoveInv`). `NestInv` says
where a Remove is while its helpers run: one place on the stack is its return, with nothing but
helpers above, so that `Stage` tells how far each Remove has come. `LockInv`: a goroutine has a mutex
from removeMutexFor until it forgets it, and a mutex that is registered belongs to such a goroutine.
Under `RemovesAlone` three facts go together: the removers of a task that its driver still has wait
for one mutex, the registered one, and whoever is past the lock holds it (`OneMutex`); the driver
has the task until that remover purges it, and nobody lets go of the mutex before (`UntilPurged`);
so a task that was taken out once is out of its driver, or about to be, when the next remover comes,
who does not find it (`WonOnce`). That the driver's state and not the manager's map keeps the mutex
in use is the point: a refresh may store the task back into the map.

The four theorems about one goroutine rest on `SerialInv`, which says for each label what the call
that has come to it may rely on (`Place`). `NestAt` fits the return labels on the stack to the
label, so that a helper knows whom it works for. `Fits` is about the locals: between the reading of
a task and its storing nobody has taken it out, and what is stored is what was read. `Agrees`: the
status of a driver differs from the stored one only where the download has ended since, or for the
task in hand; of a lost one the manager may not have heard. `Counts`: the stops counted, and those that the call is still to count (`Pending`), are no
more than there were. `Filed`: the file names the tasks of the manager, but for those that may be
lost, unless the call has yet to save, and while it saves what it has collected and what is left to
collect are all of them.
`WinsInv`: a task that was taken out is neither in the map nor in its driver. Downloads may end
at every point of a call all the same, since drivers do not wait for the manager.

`OverallRespected` weighs what has been let through above the highest limit (`excess`) against what
the bucket could let through next: the two together stay within one second of the fastest rate
(`Afforded`). `Brings` counts the time since the bucket was last filled at the fastest rate, since
the limit may be raised before it is filled. `InForce`: of the limiters that were made the driver has
forgotten all but its own, so what is counted goes through one bucket. Limiters that were dropped, and
tasks that hold none, do not count: section 6 says which these are.

`OrderlyExit` joins the store with the daemon around it. `DaemonInv` has four parts. `Clientele`: a
client's goroutine saves only within a call, a call runs only within a request, and requests come from
clients that send some, once the daemon has started. `Staff`: the main goroutine saves only at the end
of its startup jobs and in Close, the loops only where there are any. `Leaving`: in a quiet
configuration the server has no request left when Close begins, and from then on the version that Close
writes, and after it the file, is no older than what there was at that time. `Solo`: in a quiet
configuration saves have not overlapped; since all savers but one are idle there, `Clientele` and `Staff`
say that the next one that begins is alone.

`OptionsInEffect` is about an option's five places (`OptionsInv`). `Everywhere`: an option that was asked
for and is not frail has its value in the manager's map, in the driver and what it has told the
torrent, in the file, and in whatever a call has read and is yet to store. `OnTheWay`: a call that
runs alone has brought what it asks for as far as its remaining steps say (`Brought`), so at its end
it is everywhere. `Alone`: such a call meets queries only, whose refreshes write what is there already.
`Sole`, `Trackers` and `Limits` are about trackers and overall limits: unless changes have met, at
most one call is between writing the manager's map and telling the drivers, and what it has yet to
tell is what they lack. `Shapes`, `Built` and `Reads` say what is left of each call at each of its
steps, and what the task, its driver and the copies in hand look like.

`MoveIsExact` needs to know that the queue is sorted. A task stands in it where its rank says, the
number of queued tasks before it; `Before` is a strict order, so ranks differ, and n different ranks
below n are all of them (`RankOnto`): every position has one task (`SortedFacts`). `QueueInv` is about a
call between its two critical sections: its list has every task once, all of them still known to the
manager, and its own task where it is to stand (`ListFits`); the others are in the order of the queue,
as long as the call is not `overtaken` (`OrderFits`). The dates it writes go up by one along the list
(`StampFacts`), so `index` tasks come before the task that lands (`TaskLands`) and the others keep
their order (`OthersStay`), whatever was started, paused or added in between.

TextSession's theorems rest on `TextInv`. `FilesFit`: the second file is text and only the compatibility
setup has it, and a file that is not there holds no task. Until a session is read from text every
task carries the Meta of its driver (`Full`), in memory and in JSON, so that each driver restores it, and
what was promised to a client is in memory while the daemon runs, and in the session whenever that
is JSON (`Safe`). A migration holds a task for each entry it has passed and not reported
(`Migrates`), and one that is done has written them (`HasMigrated`); that holds in every setup, since
what it writes is JSON. Once tasks have come out of a text file they are what the folds EntryLines
and ParseReader compute, which is out of reach.

`Partition` needs to know where a loop is: `InLoop` says that inside one the next range begins where
the last one ended, within the resource, and that a piece or a chunk is at least one byte long.

The types of the modules proved about need no run; `serial` checks `TypeOK` of TaskManager because
the return labels in it are worth a mutant. The `TypeOK` of the other modules can be added to the
cfg of its run.

Only model-checked:

* liveness (`SlotsRefilled`, `RunsSettle`, `EmitReturnsUnlessClogged`, `EndIsTold`, `ShutdownEnds`,
  `SomebodyPasses`, `StallsEnd`, `AlwaysReturns`), which is outside the prover's reach;
* what rests on RECURSIVE operators: the nested multicalls, and so `CallsAnswered` of RpcAnswers;
* what rests on folds, which need induction over data: `RoundTrip` of TextSession, and so that part of
  `SavedIsFound`, with `NothingLost` and `EarlierStays` once a session was read from text; `PagesCover`
  of TaskQueue (FlattenSeq); the types of SegmentedDownload's goroutines (`SegmentsTypeOK`), because of
  SelectSeq in changeUri.


## 5. What holds only under a condition

Many promises hold while calls are served one at a time and not when they overlap; the runs say so
by their constants, or the property by a history variable. `serial` has one goroutine;
`OthersKeepOrder` is about moves during which no task of the list gets another date (`overtaken`);
`EmitReturnsUnlessClogged` excuses a full channel whose writer has ended or waits for a peer that does
not read; `VerifiedIsWhole` is about tasks with a checksum; `RemoveOnce` is about drivers that do
remove, and lose nothing, while nobody clears results (`RemovesAlone`); `SessionMatches`,
`PausedNotPromoted` and `SlotsRefilled` say what they do not claim of lost downloads;
`FirstRunIsWhole` is about a first run that is not both preallocated and segmented, excuses what
answers left out, and like `VerifiedIsWhole` is about tasks that are not renamed or removed meanwhile;
`SoleRunIsWhole` is about a run that was the only one and a task that was not renamed;
`SuccessIsWhole` excuses what answers left out; `RunsSettle` and `AlwaysReturns` excuse a server that
stays silent for ever; `OverallRespected` is about the tasks that hold the driver's limiter;
`ShutdownEnds` ends with the daemon or with `Driver.mu` taken for good; `KeepsContract` of DirectDriver about FTP and SFTP; `NeverTorn`, `SavedIsKept` and
`CleanExit` about savers that do not overlap; `EndIsTold` about tasks that no client asks after;
`KeptInEffect` excludes changes the code does not keep (`frail`), `TrackersFollow` and `LimitsAgree`
what overlapping calls have changed (`tangled`), and `TrackersFollow` lets getOption report no
trackers; `NothingLost` excludes torrents and ed2k links
once a session was read from text; `InStep`, `PausedStaysStill` and `StallEnds` are about a task
that has its transfer to itself, and that of BtDriver excuses the end of LoadSessionTasks.


## 6. Disagreements between the code and what is said of it

One is recorded as a run that must fail.

* `v_text`: with a save-session that is no `.json` path the session is written as text. What is
  read back has no Meta of the drivers, so for a magnet the BitTorrent driver answers
  "unsupported bt session source" (`protocol/bt/parser.go:231`), LoadSession fails, and the daemon
  ends (`app/daemon.go:100`), now and at every later start. `README.md:280` of the repository:
  "If `save-session` points to a non-`.json` path (typical aria2 `aria2.session`), the file is
  written back in aria2 text format"; `README.md:23`: "Supports periodic `save-session` writes so
  tasks resume after restart."

The others were met with the same modules; each is found by TLC in the property named when the cfg
is changed as said. The properties that the code does not have are stated in the modules but are no
run's.

Task manager, queue, options.

* A status query that has read the driver before Remove deletes the task stores it afterwards
  (`storeTask` inserts what is not there, manager.go:1233), and the removed task is listed again
  (`serial` with one task, a client that removes and one that asks): `RemovedStaysRemoved`.
  `core/manager/manager_test.go:308`: "TellStatus after remove: want ErrTaskNotFound".
* Two Adds at once (`serial` with two clients) exceed max-concurrent-downloads, since the test and
  the start are apart (manager.go:186): `OnlyClientsExceed`. `prd.md:842` also wants an unpause to
  wait when no slot is free; Unpause does not look (manager.go:334). Raising
  max-concurrent-downloads does not fill the new slots (manager.go:687).
* A download that ends in error, or whose completion a tellStatus notices before syncLoop does,
  leaves its slot empty until another call fills it (manager.go:902-907; `SlotsRefilled` with
  "error", or with a client that asks).
* fillSlots ends at the first task that does not start, and the tasks behind it wait
  (manager.go:1422); a lost ed2k download that the manager still holds active keeps its slot, since a
  refresh that finds no status keeps the old one (manager.go:983): `SlotsAlwaysRefilled` (`daemon`).
* An error may be the answer to a change that was made: Add after it has registered the task
  (manager.go:165-197), Remove and Pause when fillSlots or the save fails (manager.go:258-263,
  298-305), pauseAll and unpauseAll half way (316-320, 352-356), changeOption after the driver has it
  (584-613). `CallsAnswered` promises no more than one answer to each call, with its id.
* Three removers, one of which fails: the deferred function forgets a mutex that another one waits
  for (manager.go:228), and a third gets a new one. A second way there: removeDownloadResult and
  purgeDownloadResult take tasks out without the mutex (manager.go:401), so a remover finds its task
  gone and forgets the mutex, a refresh stores the task back, and two removers with different mutexes
  both succeed. Both are found by `race` with `RemoveOnce` without its condition (`RemoveMayFail`, or
  a client that clears results).
* Two queries across the end of a download count it twice (manager.go:1181): `CountedOnce`. Two
  Adds at once may leave the older snapshot on disk (manager.go:854): `SessionMatches`.
* A move towards the end of the queue stops one short of the index that is returned (queue.go:274):
  `MoveLands`. After a restart the drivers' dates win and the save at the end of a changePosition
  undoes it (manager.go:1195). Of two moves that overlap the one that writes last undoes the other, since each works out its order
  before either is written (queue.go:29 and 45): `MovesAreKept` in `queue`.
* An option changed on a restored task of a direct driver is lost at the second restart, since the
  driver has a copy of LocalOptions that storeTask puts back: `AskedSurvives` (`core/task/task.go:60`
  calls them the options of the task). The options of a torrent are empty from its Add on, since
  the snapshot of its driver has none and Clone makes that an empty map (`bt/driver.go:365` and 798,
  `core/task/task.go:93`, manager.go:153 and 1204): until the first changeOption, change of the global
  trackers or restart getOption reports no bt-tracker of a torrent that announces to some:
  `TrackersReported`. One that was added without options of its own loses the global trackers at a
  restart (`bt/trackers.go:30`): `GlobalTrackersReach`. A seed-ratio changed on a restored torrent without options of
  its own has no effect; such tasks keep old global options; a driver that refuses a change leaves
  the manager's copy changed. Two overlapping changeGlobalOption leave drivers with different limits
  and may undo a task's own tracker; an Add that overlaps one misses it.

Events and RPC.

* A WebSocket connection whose write failed is read by nobody; once its channel is full, emit waits
  with `subMu` held and the connection waits for `subMu` to leave (manager.go:1472). A peer that stops
  reading does the same without any failure, since no write has a deadline (websocket.go:58 and 86):
  `EmitReturns`. The comment at `rpc/jsonrpc/notify.go:66` speaks of events that are dropped.
* Any query, listing or save that sees the end of a download before syncLoop stores it without an
  event, and onDownloadComplete is never sent (manager.go:900): `EndIsAlwaysTold`. A download that
  ends before Add emits is announced as started only; a late update after a removal makes the
  connection's entry anew.
* A call without id is not executed. listMethods inside a multicall needs a token that the direct
  call does not. A system.multicall whose first parameter is a token fails when strict
  authentication is off. `docs/ARIA2-JSON-RPC.en.md:526`: "If any sub-call fails, the whole
  multicall errors" - its answers are in fact one by one.
* A failing Rename makes a change that was carried out answer an error.

Session and daemon.

* All savers share `path.tmp`; one may rename the file that another has truncated, and after a
  crash Load rejects the session (file_store.go:161; `NeverTorn` without its condition):
  `AlwaysStarts`. An older snapshot may be renamed over a newer one.
* A drain that takes its five seconds leaves no time for the save at exit (`app/daemon.go:214-222`;
  manager.go:870 says that Close saves once before the exit): `ExitIsSaved`. After a Start of the
  BitTorrent driver that begins an integrity check nobody gets `Driver.mu` again: the save in Close
  and the driver's own Close wait for it without a look at the deadline (`bt/driver.go:790` and 248),
  and the daemon does not exit: `ShutdownAlwaysEnds`. WebSocket connections
  are not waited for. A second request to shut down is dropped while the first one is buffered.
* Waiting ed2k and local file tasks read from text are unknown to their drivers: the start that
  meets them in fillSlots fails, paused ones vanish at the next save. Migration and
  aria2.saveSession write JSON to a text path. Imported waiting tasks come in reverse order
  (`QueuePosition` 0); a migration that is run again, an import or an input file with GIDs add the
  same GID twice; mirrors separated by tabs become one URI; uploaded torrents are not exported. The
  import of a session stops at the first task that cannot be added. Pages fetched from a running
  aria2 can miss a task that moves.

HTTP and the direct drivers.

* `downloadSingle` and `downloadChunked` extend the file to its full length before the first byte
  is written, and `download` takes a file of full length for a finished one (`httpdl/driver.go:486`).
  A task that is paused and resumed is complete without its bytes: `CompleteIsWhole` (`http` with
  `Prealloc` TRUE and no checksum). `README.md:414` lists "Range resume" among the features.
* With file-allocation and several segments a resumed run fills the file from several places, since
  `downloadChunked` extends it only when allocation is "none" and `PrepareDownloadFile` opens a
  partial file without extending it (`httpdl/driver.go:667`, `common/allocation.go:46`). A retry takes
  the length of the file for the progress, so that the task completes with holes:
  `FirstRunIsAlwaysWhole` (`http` with `Prealloc` TRUE, `Total` 4 and segments).
* The end of a paused run calls `st.cancel`, by then the cancel function of the next run
  (httpdl/driver.go:453): `OnlyCallsCancel`. A removed task may become complete, since `update` does
  not look at the flag (driver.go:1032): `FollowsStateMachine`. A task restored as active has
  `running` set, so the Start that should resume it returns early (driver.go:429): `ActiveHasRun`;
  the same in the direct drivers.
* An answer that ends early is taken for the whole one (httpdl/driver.go:804-811), of a range and of
  the resource, so without a checksum a download succeeds with bytes missing: `SuccessIsAlwaysWhole`
  (`ranges`). HTTP has no timeouts unless they are configured, so a silent server keeps a task active
  until somebody pauses it.
* A task that is renamed by index-out while it runs, or removed with deletion, reports what its run
  wrote under the old name (httpdl/driver.go:359, 228): `CompleteIsWhole`.
* A range that is tried again at another mirror is counted twice (driver.go:892): `ProgressFits`.
  Mirrors are tried from the shared index on and never around, and one goroutine overwrites the
  mirror that another is about to ask, so a download may fail with a mirror that answers:
  `FailsWithoutAnyMirror`. The checksum is not verified when
  the probe learned no length.
* A cancelled FTP, SFTP or local run that is still connecting truncates the file that a newer run
  has completed; an early end of an FTP stream, or a failed SIZE with a file left over, is taken for
  completion; a resumed local copy writes from the start of the file (`localfile/driver.go:396`):
  `CompleteIsWhole` of DirectDriver. The local driver clears `running` before the deferred function cancels the run
  (`localfile/driver.go:428`), so a Start in between begins a run beside it, and a third one beside
  both: `KeepsContract` for "file". changeUri may shorten the list under the loop over it
  (`ftp/driver.go:324`): `NoIndexPanic`. FTP and SFTP reads have no deadline.
* The overall limit reaches few tasks. The daemon merges max-download-limit=0 into the options of
  every task that is added (app/daemon.go:294, manager.go:116), and a task with that option gets no
  limiter (`common/download_limit.go:14-31`), so by default only restored tasks without it are under
  the overall limit, and with FTP and SFTP not even these. Tasks added while there is no overall
  limit, or after it was dropped, are not under a later one (`httpdl/download_limit.go:13`):
  `LimitReaches`. The drivers' own tests add tasks without the option.

BitTorrent and ed2k.

* Start locks `Driver.mu` twice when it begins an integrity check
  (`protocol/bt/integrity_progress.go:37`, called from driver.go:371): `StartReturns`, and what it
  does to a shutdown is `ShutdownAlwaysEnds`.
* The rate limit loop and a change of limits switch on what the seed policy has stopped:
  `SeedingStops`. A torrent that was complete is waiting after a restart: `CompleteSurvivesRestart`.
  A resumed task with pause-metadata is paused again by a restart. Bytes that a bucket could not
  afford are never charged. Two tasks with one infohash share a torrent (`bt/driver.go:314`).
* Adding an ed2k link twice pauses the transfer of the first task (`ed2k/driver.go:123`), removing
  one removes it for both: `NoOrphanTransfer` is the other direction, a transfer without a task. The
  end of a recheck undoes a pause (`ed2k/recheck.go:37`): `PauseSurvivesRecheck`. One transfer that
  cannot be restored ends LoadSessionTasks for all. A transfer that the gateway deletes makes its
  task answer "not found" for ever.


## 7. Not modelled

Parsing and formatting (configuration, flags, Metalink, torrent files, RPC parameters, XML): no
state and no concurrency. XML-RPC and the HTTP API: they translate a request into one call that
RpcServer and TaskManager serve. Of BitTorrent the list of peers, peer boost, web seeds and the
selection of files; of ed2k searches, servers and statistics: they change no status. Progress
figures and speeds. Fetching tasks from a running aria2: its other side is another program. Power
loss, disk errors and full disks. The torrent library, the ed2k client and remote servers are
external.


## 8. Plan

The modules of section 2 are what was planned; apart from what section 7 names, the parts with state
are modelled. Of the invariants of the runs those that are proved are proved for every size. What
stays open, and why:

1. `PagesCover`, `RoundTrip` and `CallsAnswered`, which need induction over pages, lines and nested
   calls;
2. liveness.
