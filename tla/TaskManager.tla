----------------------------- MODULE TaskManager -----------------------------
(***************************************************************************)
(* The lifecycle operations of core/manager.Manager, run concurrently by   *)
(* RPC goroutines, by the daemon's syncLoop and by its persistLoop.        *)
(*                                                                         *)
(* Every step below is one critical section of the Go code: a stretch that *)
(* holds Manager.mu, removeMu, a per-task remove mutex, or the mutex of    *)
(* the protocol driver.  Between two steps any other goroutine may run,    *)
(* which is exactly where Manager reads a status, unlocks, and writes it   *)
(* back later.  A goroutine is a program counter, a return stack for the   *)
(* helpers it calls (startTaskByID, syncTaskByID, SaveSession, fillSlots)  *)
(* and the locals of these helpers.                                        *)
(*                                                                         *)
(* Drivers appear as the contract of core/manager/driver.go: a status per  *)
(* task and the sticky "removed" flag that all six drivers keep.           *)
(***************************************************************************)
EXTENDS Integers, Sequences, FiniteSets

CONSTANTS
    Tasks,          \* task ids, numbered in the order Manager.Add creates them
    Procs,          \* goroutines
    May,            \* May[p]: the operations goroutine p may call
    MaxConcurrent,  \* max-concurrent-downloads
    InitialTasks,   \* tasks known before the modelled period starts
    FinishStatus,   \* how a download may end: a subset of {"complete", "error"}
    RemoveMayFail,  \* TRUE: Driver.Remove may return an error (ed2k)
    Losable,        \* tasks whose download the client behind the driver may lose (ed2k)
    StopBound,      \* bound on the stops drivers report, of which counted is a count
    Mutexes,        \* the mutex objects Remove may allocate
    None            \* "no task", "no mutex"

OpNames == {"add", "remove", "pause", "pauseAll", "unpause", "unpauseAll",
            "changeOption", "removeResult", "purgeResult", "tellStatus",
            "syncActive", "save"}

Statuses == {"waiting", "active", "paused", "complete", "error", "removed"}
Stopped  == {"complete", "error", "removed"}     \* isStoppedStatus

ASSUME TasksAssumption == Tasks \subseteq Nat /\ IsFiniteSet(Tasks)
ASSUME MayAssumption == May \in [Procs -> SUBSET OpNames]
ASSUME BoundAssumption ==
    /\ MaxConcurrent \in Nat \ {0}
    /\ StopBound \in Nat
    /\ InitialTasks \subseteq Tasks
    /\ FinishStatus \subseteq {"complete", "error"}
    /\ RemoveMayFail \in BOOLEAN /\ Losable \subseteq Tasks
ASSUME NoneAssumption ==
    None \notin Statuses /\ None \notin Procs /\ None \notin Tasks /\ None \notin Mutexes

VARIABLES
    tasks,       \* Manager.tasks: the status the manager holds, None when absent
    undated,     \* tasks whose stored CreatedAt is the zero time
    counted,     \* Manager.numStoppedTotal
    removeLocks, \* Manager.removeLocks: the mutex registered for a task
    holder,      \* holder[m]: the goroutine that has locked mutex m
    mutex,       \* mutex[p]: the *sync.Mutex that goroutine p got for its Remove
    drv,         \* the status the driver reports, None when it has no such task
    drvRemoved,  \* tasks whose driver state has removed = true
    lost,        \* tasks whose download is not in the client behind their driver any more
    file,        \* the session file: the status saved for each task
    pc, stack,   \* the step each goroutine takes next, and where its helpers return
    loc,         \* the locals of the call in progress
    stops,       \* history: times a driver brought a task to a stop
    wins         \* history: times Remove took the task out of the manager

managerVars == <<tasks, undated, counted>>
lockVars    == <<removeLocks, holder, mutex>>
driverVars  == <<drv, drvRemoved, lost>>
controlVars == <<pc, stack, loc>>
historyVars == <<stops, wins>>
vars == <<managerVars, lockVars, driverVars, controlVars, historyVars, file>>

\* Steps taken while holding the mutex of removeMutexFor.
RemoveLocked == {"rm.still", "rm.driver", "rm.tell", "rm.detach", "rm.purge",
                 "rm.fill", "rm.unlock"}
Labels == {"idle", "add.store", "add.mode", "add.started", "add.paused", "add.save",
           "rm.mutex", "rm.lock", "rm.forget", "pause", "pause.driver",
           "pause.tell", "pause.store", "pause.save", "pause.fill", "pauseAll",
           "pauseAll.save", "start", "start.driver", "start.tell", "start.store",
           "unpause.sync", "unpause.save", "unpauseAll", "unpauseAll.save",
           "option.driver", "option.save", "result.check", "result.driver",
           "result.detach", "result.purge", "purgeAll", "purgeAll.check",
           "purgeAll.driver", "sync", "sync.tell", "sync.store", "active",
           "active.done", "save", "save.next", "save.got", "fill", "fill.next",
           "fill.started", "fill.end"} \cup RemoveLocked
\* Labels a helper returns to.  None of them lies between Driver.Remove and the
\* deletion from Manager.tasks: that stretch of code calls no helper.
ReturnLabels == {"add.started", "add.paused", "add.save", "rm.fill", "rm.unlock",
                 "pause.save", "pause.fill", "pauseAll", "pauseAll.save",
                 "unpause.sync", "unpause.save", "unpauseAll", "unpauseAll.save",
                 "option.save", "result.check", "purgeAll", "purgeAll.check",
                 "active", "active.done", "save.got", "fill", "fill.started"}

Held       == {t \in Tasks : tasks[t] # None}
With(S)    == {t \in Tasks : tasks[t] \in S}
CreatedAt(t) == IF t \in undated THEN -1 ELSE t
IsFirst(t, S) == t \in S /\ \A u \in S : t <= u     \* ids are walked sorted

-----------------------------------------------------------------------------
(* Control of a goroutine. *)

Locals == [arg : Tasks \cup {None},    \* the task of the call
           cur : Tasks \cup {None},    \* the task a helper works on
           got : Statuses \cup {None}, \* the status read last, or that a driver has refused
           ok  : BOOLEAN,              \* err == nil after the last helper
           todo : SUBSET Tasks,        \* ids left in the loop of the call
           saving : SUBSET Tasks,      \* ids left in snapshotTasksForPersist
           snap : [Tasks -> Statuses \cup {None}],
           started : BOOLEAN]          \* startedAny of fillSlots

EmptyFile == [t \in Tasks |-> None]
NoLocals == [arg |-> None, cur |-> None, got |-> None, ok |-> TRUE, todo |-> {},
             saving |-> {}, snap |-> EmptyFile, started |-> FALSE]

Goto(p, label, l) ==
    /\ pc' = [pc EXCEPT ![p] = label]
    /\ loc' = [loc EXCEPT ![p] = l]
    /\ UNCHANGED stack

Call(p, label, back, l) ==
    /\ pc' = [pc EXCEPT ![p] = label]
    /\ stack' = [stack EXCEPT ![p] = <<back>> \o @]
    /\ loc' = [loc EXCEPT ![p] = l]

\* A helper returns to its caller; a call of the manager returns to its client.
Return(p, l) ==
    IF stack[p] = <<>>
    THEN Goto(p, "idle", NoLocals)
    ELSE /\ pc' = [pc EXCEPT ![p] = Head(stack[p])]
         /\ stack' = [stack EXCEPT ![p] = Tail(@)]
         /\ loc' = [loc EXCEPT ![p] = l]

Succeed(p, l) == Return(p, [l EXCEPT !.ok = TRUE])
Fail(p, l)    == Return(p, [l EXCEPT !.ok = FALSE])
\* A step that only moves the goroutine on.
OnlyControl == UNCHANGED <<managerVars, lockVars, driverVars, historyVars, file>>
At(p, label)  == pc[p] = label
Arg(p) == loc[p].arg
Cur(p) == loc[p].cur

-----------------------------------------------------------------------------
(* The drivers' contract. *)

DriverHas(t) == t \in {u \in Tasks : drv[u] # None}
\* TellStatus answers ErrTaskNotFound of a task that is unknown or whose download is lost.
DriverKnows(t) == DriverHas(t) /\ t \notin lost
\* Mutant: Start and Pause that do not look at the removed flag.
DriverUsableEvenRemoved(t) == DriverKnows(t)

DriverUsable(t) == DriverKnows(t) /\ t \notin drvRemoved
Count(old, new) == stops' = IF old \notin Stopped /\ new \in Stopped
                            THEN stops + 1 ELSE stops

\* Start makes a task active; bt and ed2k keep reporting a finished one complete.
DriverStart(t) ==
    \E s \in {"active"} \cup ({drv[t]} \cap {"complete"}) :
        drv' = [drv EXCEPT ![t] = s] /\ UNCHANGED <<drvRemoved, lost>>
DriverPause(t) ==
    \E s \in {"paused"} \cup ({drv[t]} \cap {"complete"}) :
        drv' = [drv EXCEPT ![t] = s] /\ UNCHANGED <<drvRemoved, lost>>
DriverRemove(t) ==
    /\ drv' = [drv EXCEPT ![t] = "removed"]
    /\ drvRemoved' = drvRemoved \cup {t} /\ lost' = lost \ {t}
    /\ Count(drv[t], "removed")
DriverPurge(t) == drv' = [drv EXCEPT ![t] = None] /\ UNCHANGED <<drvRemoved, lost>>

\* A download ends on its own.
Finish(t) ==
    /\ drv[t] = "active" /\ t \notin lost
    /\ stops < StopBound
    /\ \E s \in FinishStatus : drv' = [drv EXCEPT ![t] = s] /\ Count(drv[t], s)
    /\ UNCHANGED <<drvRemoved, lost, managerVars, lockVars, controlVars, file, wins>>

\* The ed2k client loses a transfer when another task of the same hash, or a client of the
\* REST gateway, removes it.  The driver keeps its task and says what the client says: it
\* has no status, and Start, Pause, ChangeOption and the first Remove fail.
Lose(t) ==
    /\ t \in Losable \ lost
    /\ drv[t] # None /\ t \notin drvRemoved
    /\ lost' = lost \cup {t}
    /\ UNCHANGED <<drv, drvRemoved, managerVars, lockVars, controlVars, historyVars, file>>

\* A driver that still has the task answers with the error of its client, which pauseAll and
\* unpauseAll tell from ErrTaskNotFound.
Refusal == "error"
DriverFails(p, t) ==
    Fail(p, [loc[p] EXCEPT !.got = IF t \in lost THEN Refusal ELSE @])

-----------------------------------------------------------------------------
(* storeTask: the status read earlier replaces whatever the manager holds. *)

\* Mutant: a stopped task that runs again is taken out of the count.
StoreTaskUncounting(t, s) ==
    /\ tasks' = [tasks EXCEPT ![t] = s]
    /\ undated' = IF t \in Held THEN undated ELSE undated \cup {t}
    /\ counted' = IF t \in Held /\ tasks[t] \in Stopped /\ s \notin Stopped
                  THEN counted - 1 ELSE counted

\* Mutant: every refresh of a stopped task is counted.
StoreTaskRecounting(t, s) ==
    /\ tasks' = [tasks EXCEPT ![t] = s]
    /\ undated' = IF t \in Held THEN undated ELSE undated \cup {t}
    /\ counted' = IF t \in Held /\ s \in Stopped /\ counted <= StopBound + Cardinality(Tasks)
                  THEN counted + 1 ELSE counted

StoreTask(t, s) ==
    /\ tasks' = [tasks EXCEPT ![t] = s]
    /\ undated' = IF t \in Held THEN undated ELSE undated \cup {t}
    /\ counted' = IF t \in Held /\ tasks[t] \notin Stopped /\ s \in Stopped
                     /\ counted <= StopBound + Cardinality(Tasks)
                  THEN counted + 1 ELSE counted

-----------------------------------------------------------------------------
(* syncTaskByID, also tellStatusByID: read the map, ask the driver, store. *)

Sync(p) ==
    /\ At(p, "sync")
    /\ IF Cur(p) \in Held
       THEN Goto(p, "sync.tell", [loc[p] EXCEPT !.got = tasks[Cur(p)]])
       ELSE Fail(p, [loc[p] EXCEPT !.got = None])
    /\ OnlyControl

\* ErrTaskNotFound from the driver returns the copy read from the map.
SyncTell(p) ==
    /\ At(p, "sync.tell")
    /\ IF DriverKnows(Cur(p))
       THEN Goto(p, "sync.store", [loc[p] EXCEPT !.got = drv[Cur(p)]])
       ELSE Succeed(p, loc[p])
    /\ OnlyControl

SyncStore(p) ==
    /\ At(p, "sync.store")
    /\ StoreTask(Cur(p), loc[p].got)
    /\ Succeed(p, loc[p])
    /\ UNCHANGED <<lockVars, driverVars, historyVars, file>>

(* startTaskByID *)

Start(p) ==
    /\ At(p, "start")
    /\ IF Cur(p) \in Held THEN Goto(p, "start.driver", loc[p]) ELSE Fail(p, loc[p])
    /\ OnlyControl

StartDriver(p) ==
    /\ At(p, "start.driver")
    /\ IF DriverUsable(Cur(p))
       THEN DriverStart(Cur(p)) /\ Goto(p, "start.tell", loc[p])
       ELSE UNCHANGED driverVars /\ DriverFails(p, Cur(p))
    /\ UNCHANGED <<managerVars, lockVars, historyVars, file>>

StartTell(p) ==
    /\ At(p, "start.tell")
    /\ IF DriverKnows(Cur(p))
       THEN Goto(p, "start.store", [loc[p] EXCEPT !.got = drv[Cur(p)]])
       ELSE Fail(p, loc[p])
    /\ OnlyControl

StartStore(p) ==
    /\ At(p, "start.store")
    /\ StoreTask(Cur(p), loc[p].got)
    /\ Succeed(p, loc[p])
    /\ UNCHANGED <<lockVars, driverVars, historyVars, file>>

(* SaveSession: refresh every task, then write the snapshot. *)

Save(p) ==
    /\ At(p, "save")
    /\ Goto(p, "save.next", [loc[p] EXCEPT !.saving = Held, !.snap = EmptyFile])
    /\ OnlyControl

SaveNext(p) ==
    /\ At(p, "save.next")
    /\ \E t \in loc[p].saving :
          /\ IsFirst(t, loc[p].saving)
          /\ Call(p, "sync", "save.got",
                  [loc[p] EXCEPT !.cur = t, !.saving = @ \ {t}])
    /\ OnlyControl

\* When the refresh fails the copy in the map, if there still is one, is saved.
SaveGot(p) ==
    /\ At(p, "save.got")
    /\ LET s == CASE loc[p].ok -> loc[p].got
                  [] ~loc[p].ok /\ Cur(p) \in Held -> tasks[Cur(p)]
                  [] OTHER -> None
       IN Goto(p, "save.next", [loc[p] EXCEPT !.snap[Cur(p)] = s])
    /\ OnlyControl

SaveWrite(p) ==
    /\ At(p, "save.next") /\ loc[p].saving = {}
    /\ file' = loc[p].snap
    /\ Succeed(p, [loc[p] EXCEPT !.snap = EmptyFile])
    /\ UNCHANGED <<managerVars, lockVars, driverVars, historyVars>>

(* fillSlots: start waiting tasks, oldest first, while a slot is free. *)

\* Mutant: off by one.
SlotFreeOneMore == Cardinality(With({"active"})) <= MaxConcurrent

SlotFree == Cardinality(With({"active"})) < MaxConcurrent

NextWaiting(t) == /\ tasks[t] = "waiting"
                  /\ \A u \in With({"waiting"}) : CreatedAt(t) <= CreatedAt(u)

Fill(p) ==
    /\ At(p, "fill")
    /\ Goto(p, IF SlotFree THEN "fill.next" ELSE "fill.end", loc[p])
    /\ OnlyControl

FillNext(p) ==
    /\ At(p, "fill.next")
    /\ \/ /\ With({"waiting"}) = {}
          /\ Goto(p, "fill.end", loc[p])
       \/ \E t \in Tasks :
             /\ NextWaiting(t)
             /\ Call(p, "start", "fill.started", [loc[p] EXCEPT !.cur = t])
    /\ OnlyControl

FillStarted(p) ==
    /\ At(p, "fill.started")
    /\ IF loc[p].ok
       THEN Call(p, "sync", "fill", [loc[p] EXCEPT !.started = TRUE])
       ELSE Fail(p, [loc[p] EXCEPT !.started = FALSE])
    /\ OnlyControl

FillEnd(p) ==
    /\ At(p, "fill.end")
    /\ IF loc[p].started
       THEN Goto(p, "save", [loc[p] EXCEPT !.started = FALSE])
       ELSE Succeed(p, loc[p])
    /\ OnlyControl

-----------------------------------------------------------------------------
(* Manager.Add *)

\* Driver.Add invents the task; ids are fresh, so a driver never sees one twice.
Born == {t \in Tasks : drv[t] # None} \cup drvRemoved
For(t) == [NoLocals EXCEPT !.arg = t, !.cur = t]

Add(p) ==
    /\ At(p, "idle") /\ "add" \in May[p]
    /\ \E t \in Tasks \ Born :
          /\ IsFirst(t, Tasks \ Born)
          /\ drv' = [drv EXCEPT ![t] = "waiting"]
          /\ Goto(p, "add.store", For(t))
    /\ UNCHANGED <<drvRemoved, lost, managerVars, lockVars, historyVars, file>>

AddStore(p) ==
    /\ At(p, "add.store")
    /\ tasks' = [tasks EXCEPT ![Arg(p)] = "waiting"]
    /\ Goto(p, "add.mode", loc[p])
    /\ UNCHANGED <<undated, counted, lockVars, driverVars, historyVars, file>>

\* The "pause" option, else start at once when a slot is free, else wait.
AddMode(p) ==
    /\ At(p, "add.mode")
    /\ \/ Call(p, "pause.driver", "add.paused", loc[p])
       \/ SlotFree /\ Call(p, "start", "add.started", loc[p])
       \/ ~SlotFree /\ Goto(p, "add.save", loc[p])
    /\ OnlyControl

AddStarted(p) ==
    /\ At(p, "add.started")
    /\ IF loc[p].ok THEN Call(p, "sync", "add.save", loc[p]) ELSE Fail(p, loc[p])
    /\ OnlyControl

AddPaused(p) ==
    /\ At(p, "add.paused")
    /\ IF loc[p].ok THEN Goto(p, "add.save", loc[p]) ELSE Fail(p, loc[p])
    /\ OnlyControl

\* Whether the refresh after a start worked makes no difference.
AddSave(p) ==
    /\ At(p, "add.save")
    /\ Goto(p, "save", loc[p])
    /\ OnlyControl

(* Manager.Remove *)

\* lookupByGID, common to the calls that name a task.
Lookup(p, op, t) == At(p, "idle") /\ op \in May[p] /\ t \in Held

Remove(p) ==
    /\ \E t \in Tasks : Lookup(p, "remove", t) /\ Goto(p, "rm.mutex", For(t))
    /\ OnlyControl

Fresh(m) == /\ \A t \in Tasks : removeLocks[t] # m
            /\ \A q \in Procs : mutex[q] # m
RemoveMutexFor(p) ==
    /\ At(p, "rm.mutex")
    /\ \/ /\ removeLocks[Arg(p)] # None
          /\ mutex' = [mutex EXCEPT ![p] = removeLocks[Arg(p)]]
          /\ UNCHANGED removeLocks
       \/ /\ removeLocks[Arg(p)] = None
          /\ \E m \in Mutexes :
                /\ Fresh(m)
                /\ mutex' = [mutex EXCEPT ![p] = m]
                /\ removeLocks' = [removeLocks EXCEPT ![Arg(p)] = m]
    /\ Goto(p, "rm.lock", loc[p])
    /\ UNCHANGED <<managerVars, holder, driverVars, historyVars, file>>

\* Mutant: Remove does not lock the mutex that it looked up.
RemoveLockFree(p) ==
    /\ At(p, "rm.lock")
    /\ holder' = [holder EXCEPT ![mutex[p]] = p]
    /\ Goto(p, "rm.still", loc[p])
    /\ UNCHANGED <<managerVars, removeLocks, mutex, driverVars, historyVars, file>>

RemoveLock(p) ==
    /\ At(p, "rm.lock") /\ holder[mutex[p]] = None
    /\ holder' = [holder EXCEPT ![mutex[p]] = p]
    /\ Goto(p, "rm.still", loc[p])
    /\ UNCHANGED <<managerVars, removeLocks, mutex, driverVars, historyVars, file>>

RemoveStillThere(p) ==
    /\ At(p, "rm.still")
    /\ Goto(p, IF Arg(p) \in Held THEN "rm.driver" ELSE "rm.unlock", loc[p])
    /\ OnlyControl

\* An ed2k transfer that cannot be removed is flagged removed all the same.
MayFail(t) == t \notin drvRemoved /\ (RemoveMayFail \/ t \in lost)
RemoveDriver(p) ==
    /\ At(p, "rm.driver")
    /\ IF DriverHas(Arg(p))
       THEN /\ DriverRemove(Arg(p))
            /\ \/ Arg(p) \notin lost /\ Goto(p, "rm.tell", loc[p])
               \/ MayFail(Arg(p)) /\ Goto(p, "rm.unlock", loc[p])
       ELSE UNCHANGED <<driverVars, stops>> /\ Goto(p, "rm.unlock", loc[p])
    /\ UNCHANGED <<managerVars, lockVars, wins, file>>

RemoveTell(p) ==
    /\ At(p, "rm.tell")
    /\ Goto(p, IF DriverKnows(Arg(p)) THEN "rm.detach" ELSE "rm.unlock", loc[p])
    /\ OnlyControl

\* Mutant: detachTask forgets to delete from Manager.tasks.
DetachNothing(t) == tasks' = tasks /\ undated' = undated \ {t}

Detach(t) == tasks' = [tasks EXCEPT ![t] = None] /\ undated' = undated \ {t}

RemoveDetach(p) ==
    /\ At(p, "rm.detach")
    /\ Detach(Arg(p))
    /\ wins' = [wins EXCEPT ![Arg(p)] = IF @ < 2 THEN @ + 1 ELSE @]
    /\ Goto(p, "rm.purge", loc[p])
    /\ UNCHANGED <<counted, lockVars, driverVars, stops, file>>

RemovePurge(p) ==
    /\ At(p, "rm.purge")
    /\ DriverPurge(Arg(p))
    /\ Call(p, "save", "rm.fill", loc[p])
    /\ UNCHANGED <<managerVars, lockVars, historyVars, file>>

RemoveFill(p) ==
    /\ At(p, "rm.fill")
    /\ Call(p, "fill", "rm.unlock", loc[p])
    /\ OnlyControl

\* The deferred function: unlock first, forget the mutex afterwards.
RemoveUnlock(p) ==
    /\ At(p, "rm.unlock")
    /\ holder' = [holder EXCEPT ![mutex[p]] = None]
    /\ Goto(p, "rm.forget", loc[p])
    /\ UNCHANGED <<managerVars, removeLocks, mutex, driverVars, historyVars, file>>

RemoveForget(p) ==
    /\ At(p, "rm.forget")
    /\ removeLocks' = [removeLocks EXCEPT ![Arg(p)] = None]
    /\ mutex' = [mutex EXCEPT ![p] = None]
    /\ Succeed(p, loc[p])
    /\ UNCHANGED <<managerVars, holder, driverVars, historyVars, file>>

(* Manager.Pause, pauseTaskByID, pauseAll *)

Pause(p) ==
    /\ \E t \in Tasks : /\ Lookup(p, "pause", t)
                        /\ Call(p, "pause.driver", "pause.save", For(t))
    /\ OnlyControl

PauseDriver(p) ==
    /\ At(p, "pause.driver")
    /\ IF DriverUsable(Cur(p))
       THEN DriverPause(Cur(p)) /\ Goto(p, "pause.tell", loc[p])
       ELSE UNCHANGED driverVars /\ DriverFails(p, Cur(p))
    /\ UNCHANGED <<managerVars, lockVars, historyVars, file>>

PauseTell(p) ==
    /\ At(p, "pause.tell")
    /\ IF DriverKnows(Cur(p))
       THEN Goto(p, "pause.store", [loc[p] EXCEPT !.got = drv[Cur(p)]])
       ELSE Fail(p, loc[p])
    /\ OnlyControl

PauseStore(p) ==
    /\ At(p, "pause.store")
    /\ StoreTask(Cur(p), loc[p].got)
    /\ Succeed(p, loc[p])
    /\ UNCHANGED <<lockVars, driverVars, historyVars, file>>

PauseSave(p) ==
    /\ At(p, "pause.save")
    /\ IF loc[p].ok THEN Call(p, "save", "pause.fill", loc[p]) ELSE Fail(p, loc[p])
    /\ OnlyControl

PauseFill(p) ==
    /\ At(p, "pause.fill")
    /\ Goto(p, "fill", loc[p])
    /\ OnlyControl

PauseAll(p) ==
    /\ At(p, "idle") /\ "pauseAll" \in May[p]
    /\ Goto(p, "pauseAll", [NoLocals EXCEPT !.todo = With({"active", "waiting"})])
    /\ OnlyControl

\* The loop ends in SaveSession and, unlike Pause, does not refill slots.
PauseAllLoop(p) ==
    /\ At(p, "pauseAll")
    /\ \/ loc[p].todo = {} /\ Goto(p, "save", loc[p])
       \/ \E t \in loc[p].todo :
             /\ IsFirst(t, loc[p].todo)
             /\ Call(p, "pause", "pauseAll.save",
                     [loc[p] EXCEPT !.cur = t, !.got = None, !.todo = @ \ {t}])
    /\ OnlyControl

PauseTaskByID(p) ==
    /\ At(p, "pause")
    /\ IF Cur(p) \in Held THEN Goto(p, "pause.driver", loc[p]) ELSE Fail(p, loc[p])
    /\ OnlyControl

\* ErrTaskNotFound is tolerated, a refusal ends the loop without the save after it.
PauseAllSave(p) ==
    /\ At(p, "pauseAll.save")
    /\ CASE loc[p].ok -> Call(p, "save", "pauseAll", loc[p])
         [] ~loc[p].ok /\ loc[p].got = Refusal -> Fail(p, loc[p])
         [] OTHER -> Goto(p, "pauseAll", loc[p])
    /\ OnlyControl

(* Manager.Unpause, UnpauseAll: neither looks at max-concurrent-downloads. *)

Unpause(p) ==
    /\ \E t \in Tasks : /\ Lookup(p, "unpause", t)
                        /\ Call(p, "start", "unpause.sync", For(t))
    /\ OnlyControl

UnpauseSync(p) ==
    /\ At(p, "unpause.sync")
    /\ IF loc[p].ok THEN Call(p, "sync", "unpause.save", loc[p]) ELSE Fail(p, loc[p])
    /\ OnlyControl

UnpauseSave(p) ==
    /\ At(p, "unpause.save")
    /\ IF loc[p].ok THEN Goto(p, "save", loc[p]) ELSE Fail(p, loc[p])
    /\ OnlyControl

UnpauseAll(p) ==
    /\ At(p, "idle") /\ "unpauseAll" \in May[p]
    /\ Goto(p, "unpauseAll", [NoLocals EXCEPT !.todo = With({"paused"})])
    /\ OnlyControl

UnpauseAllLoop(p) ==
    /\ At(p, "unpauseAll")
    /\ \/ loc[p].todo = {} /\ Goto(p, "save", loc[p])
       \/ \E t \in loc[p].todo :
             /\ IsFirst(t, loc[p].todo)
             /\ Call(p, "start", "unpauseAll.save",
                     [loc[p] EXCEPT !.cur = t, !.got = None, !.todo = @ \ {t}])
    /\ OnlyControl

UnpauseAllSave(p) ==
    /\ At(p, "unpauseAll.save")
    /\ CASE loc[p].ok -> Call(p, "save", "unpauseAll", loc[p])
         [] ~loc[p].ok /\ loc[p].got = Refusal -> Fail(p, loc[p])
         [] OTHER -> Goto(p, "unpauseAll", loc[p])
    /\ OnlyControl

(* Manager.ChangeOption: Driver.ChangeOption obeys a "pause" option at once. *)

ChangeOption(p) ==
    /\ \E t \in Tasks : Lookup(p, "changeOption", t) /\ Goto(p, "option.driver", For(t))
    /\ OnlyControl

ChangeOptionDriver(p) ==
    /\ At(p, "option.driver")
    /\ IF DriverUsable(Arg(p))
       THEN /\ DriverStart(Arg(p)) \/ DriverPause(Arg(p)) \/ UNCHANGED driverVars
            /\ Call(p, "sync", "option.save", loc[p])
       ELSE UNCHANGED driverVars /\ DriverFails(p, Arg(p))
    /\ UNCHANGED <<managerVars, lockVars, historyVars, file>>

ChangeOptionSave(p) ==
    /\ At(p, "option.save")
    /\ IF loc[p].ok THEN Goto(p, "save", loc[p]) ELSE Fail(p, loc[p])
    /\ OnlyControl

(* Manager.RemoveDownloadResult and PurgeDownloadResult: no remove mutex, no    *)
(* fillSlots, and a driver that has forgotten the task is not an error.         *)

RemoveDownloadResult(p) ==
    /\ \E t \in Tasks : /\ Lookup(p, "removeResult", t)
                        /\ Call(p, "sync", "result.check", For(t))
    /\ OnlyControl

ResultCheck(p) ==
    /\ At(p, "result.check")
    /\ IF loc[p].ok /\ loc[p].got \in {"complete", "error"}
       THEN Goto(p, "result.driver", loc[p]) ELSE Fail(p, loc[p])
    /\ OnlyControl

\* Shared by both calls; stack[p] tells which one goes on afterwards.
ResultDriver(p) ==
    /\ At(p, "result.driver")
    /\ IF DriverHas(Arg(p))
       THEN /\ DriverRemove(Arg(p))
            /\ \/ Arg(p) \notin lost /\ Goto(p, "result.detach", loc[p])
               \/ MayFail(Arg(p)) /\ Goto(p, "idle", NoLocals)
       ELSE UNCHANGED <<driverVars, stops>> /\ Goto(p, "result.detach", loc[p])
    /\ UNCHANGED <<managerVars, lockVars, wins, file>>

ResultDetach(p) ==
    /\ At(p, "result.detach")
    /\ Detach(Arg(p))
    /\ Goto(p, "result.purge", loc[p])
    /\ UNCHANGED <<counted, lockVars, driverVars, historyVars, file>>

\* Mutant: RemoveDownloadResult returns without SaveSession.
ResultPurgeUnsaved(p) ==
    /\ At(p, "result.purge")
    /\ DriverPurge(Arg(p))
    /\ IF loc[p].todo = {} THEN Succeed(p, loc[p])
                           ELSE Call(p, "save", "purgeAll", loc[p])
    /\ UNCHANGED <<managerVars, lockVars, historyVars, file>>

ResultPurge(p) ==
    /\ At(p, "result.purge")
    /\ DriverPurge(Arg(p))
    /\ IF loc[p].todo = {} THEN Goto(p, "save", loc[p])
                           ELSE Call(p, "save", "purgeAll", loc[p])
    /\ UNCHANGED <<managerVars, lockVars, historyVars, file>>

PurgeDownloadResult(p) ==
    /\ At(p, "idle") /\ "purgeResult" \in May[p]
    /\ Goto(p, "purgeAll", [NoLocals EXCEPT !.todo = Held])
    /\ OnlyControl

PurgeAllLoop(p) ==
    /\ At(p, "purgeAll")
    /\ IF loc[p].todo = {}
       THEN Succeed(p, loc[p])
       ELSE \E t \in loc[p].todo :      \* map order
                Call(p, "sync", "purgeAll.check",
                     [For(t) EXCEPT !.todo = loc[p].todo \ {t}])
    /\ OnlyControl

PurgeAllCheck(p) ==
    /\ At(p, "purgeAll.check")
    /\ IF loc[p].ok /\ loc[p].got \in Stopped
       THEN Goto(p, "purgeAll.driver", loc[p]) ELSE Goto(p, "purgeAll", loc[p])
    /\ OnlyControl

PurgeAllLookup(p) ==
    /\ At(p, "purgeAll.driver")
    /\ Goto(p, IF Arg(p) \in Held THEN "result.driver" ELSE "purgeAll", loc[p])
    /\ OnlyControl

(* Manager.TellStatus, SyncActive, SaveSession as calls of their own *)

TellStatus(p) ==
    /\ \E t \in Tasks : Lookup(p, "tellStatus", t) /\ Goto(p, "sync", For(t))
    /\ OnlyControl

SyncActive(p) ==
    /\ At(p, "idle") /\ "syncActive" \in May[p]
    /\ Goto(p, "active", [NoLocals EXCEPT !.todo = With({"active"})])
    /\ OnlyControl

SyncActiveLoop(p) ==
    /\ At(p, "active")
    /\ \/ ~loc[p].ok /\ Fail(p, loc[p])
       \/ loc[p].ok /\ loc[p].todo = {} /\ Succeed(p, loc[p])
       \/ /\ loc[p].ok
          /\ \E t \in loc[p].todo :
                /\ IsFirst(t, loc[p].todo)
                /\ Call(p, "sync", "active.done",
                        [loc[p] EXCEPT !.cur = t, !.todo = @ \ {t}])
    /\ OnlyControl

\* Mutant: SyncActive does not call fillSlots.
SyncActiveDoneUnfilled(p) ==
    /\ At(p, "active.done")
    /\ IF loc[p].ok THEN Goto(p, "active", loc[p]) ELSE Fail(p, loc[p])
    /\ OnlyControl

\* Only a task seen to have completed frees its slot for a waiting one.
SyncActiveDone(p) ==
    /\ At(p, "active.done")
    /\ CASE ~loc[p].ok -> Fail(p, loc[p])
         [] loc[p].ok /\ loc[p].got = "complete" -> Call(p, "fill", "active", loc[p])
         [] OTHER -> Goto(p, "active", loc[p])
    /\ OnlyControl

SaveSession(p) ==
    /\ At(p, "idle") /\ "save" \in May[p]
    /\ Goto(p, "save", NoLocals)
    /\ OnlyControl

-----------------------------------------------------------------------------
(* The specification. *)

\* A running daemon: LoadSession has ended with fillSlots, which leaves no slot
\* free while a task waits, and the session file holds what was loaded.
Init ==
    /\ \E s \in [InitialTasks -> Statuses \ {"removed"}] :
        /\ tasks = [t \in Tasks |-> IF t \in InitialTasks THEN s[t] ELSE None]
        /\ LET active == {t \in InitialTasks : s[t] = "active"}
           IN /\ Cardinality(active) <= MaxConcurrent
              /\ (\E t \in InitialTasks : s[t] = "waiting")
                    => Cardinality(active) = MaxConcurrent
    /\ drv = tasks /\ file = tasks
    /\ undated = {} /\ drvRemoved = {} /\ lost = {} /\ counted = 0
    /\ removeLocks = [t \in Tasks |-> None]
    /\ holder = [m \in Mutexes |-> None]
    /\ mutex = [p \in Procs |-> None]
    /\ pc = [p \in Procs |-> "idle"]
    /\ stack = [p \in Procs |-> <<>>]
    /\ loc = [p \in Procs |-> NoLocals]
    /\ stops = 0 /\ wins = [t \in Tasks |-> 0]

\* What starts a call, and what carries one on.
Begin(p) ==
    \/ Add(p) \/ Remove(p) \/ Pause(p) \/ PauseAll(p) \/ Unpause(p)
    \/ UnpauseAll(p) \/ ChangeOption(p) \/ RemoveDownloadResult(p)
    \/ PurgeDownloadResult(p) \/ TellStatus(p) \/ SyncActive(p) \/ SaveSession(p)

Helper(p) ==
    \/ Sync(p) \/ SyncTell(p) \/ SyncStore(p)
    \/ Start(p) \/ StartDriver(p) \/ StartTell(p) \/ StartStore(p)
    \/ Save(p) \/ SaveNext(p) \/ SaveGot(p) \/ SaveWrite(p)
    \/ Fill(p) \/ FillNext(p) \/ FillStarted(p) \/ FillEnd(p)

RemoveStep(p) ==
    \/ RemoveMutexFor(p) \/ RemoveLock(p) \/ RemoveStillThere(p)
    \/ RemoveDriver(p) \/ RemoveTell(p) \/ RemoveDetach(p) \/ RemovePurge(p)
    \/ RemoveFill(p) \/ RemoveUnlock(p) \/ RemoveForget(p)

CallStep(p) ==
    \/ AddStore(p) \/ AddMode(p) \/ AddStarted(p) \/ AddPaused(p) \/ AddSave(p)
    \/ PauseDriver(p) \/ PauseTell(p) \/ PauseStore(p) \/ PauseSave(p)
    \/ PauseFill(p) \/ PauseAllLoop(p) \/ PauseTaskByID(p) \/ PauseAllSave(p)
    \/ UnpauseSync(p) \/ UnpauseSave(p) \/ UnpauseAllLoop(p) \/ UnpauseAllSave(p)
    \/ ChangeOptionDriver(p) \/ ChangeOptionSave(p)
    \/ ResultCheck(p) \/ ResultDriver(p) \/ ResultDetach(p) \/ ResultPurge(p)
    \/ PurgeAllLoop(p) \/ PurgeAllCheck(p) \/ PurgeAllLookup(p)
    \/ SyncActiveLoop(p) \/ SyncActiveDone(p)

Continue(p) == Helper(p) \/ RemoveStep(p) \/ CallStep(p)

Next == \/ \E p \in Procs : Begin(p) \/ Continue(p)
        \/ \E t \in Tasks : Finish(t) \/ Lose(t)

Spec == Init /\ [][Next]_vars

\* A call that has begun is carried on by its goroutine, and the ticker of syncLoop
\* keeps calling SyncActive.  Clients need not call, downloads need not end.
Fairness == \A p \in Procs : WF_vars(Continue(p)) /\ WF_vars(SyncActive(p))
FairSpec == Spec /\ Fairness

-----------------------------------------------------------------------------
(* Properties. *)

\* Every variable has its type; in particular a goroutine never runs off its
\* program and a helper only returns to a label of ReturnLabels.
TypeOK ==
    /\ tasks \in [Tasks -> Statuses \cup {None}]
    /\ undated \subseteq Tasks
    /\ counted \in Nat
    /\ removeLocks \in [Tasks -> Mutexes \cup {None}]
    /\ holder \in [Mutexes -> Procs \cup {None}]
    /\ mutex \in [Procs -> Mutexes \cup {None}]
    /\ drv \in [Tasks -> Statuses \cup {None}]
    /\ drvRemoved \subseteq Tasks /\ lost \subseteq Losable
    /\ file \in [Tasks -> Statuses \cup {None}]
    /\ pc \in [Procs -> Labels]
    /\ stack \in [Procs -> Seq(ReturnLabels)]
    /\ loc \in [Procs -> Locals]
    /\ stops \in Nat
    /\ wins \in [Tasks -> 0..2]

\* No orphan: a download the manager has no record of (its Add is over) is never
\* running in its driver, whatever Start, Unpause or ChangeOption raced with the
\* removal.  Nobody could name such a download any more, let alone stop it.
BeingAdded(t) == \E p \in Procs : pc[p] = "add.store" /\ loc[p].arg = t
NoOrphanDownload ==
    \A t \in Tasks \ Held : drv[t] = "active" => BeingAdded(t)

\* Remove takes a task out of the manager at most once, however many clients
\* call it for the same gid (the intent of the per-task mutex of Remove): as long as
\* nobody clears results, which takes no remove mutex, and drivers do remove.
RemovesAlone == /\ ~RemoveMayFail /\ Losable = {}
                /\ \A p \in Procs : May[p] \cap {"removeResult", "purgeResult"} = {}
RemoveOnce == RemovesAlone => \A t \in Tasks : wins[t] <= 1

\* removeLocks does not grow: a mutex stays registered only while some Remove of
\* that task is in progress.
LocksForgotten ==
    \A t \in Tasks : removeLocks[t] # None =>
        \E p \in Procs : mutex[p] # None /\ loc[p].arg = t

\* Removers of one task take turns, and the mutex that they take them by is there as long
\* as one of them needs it and no longer.
RemoversTakeTurns == RemoveOnce /\ LocksForgotten

\* numStoppedTotal never counts a stop twice.
CountedOnce == counted <= stops

\* Beyond max-concurrent-downloads only the calls by which a client resumes a task
\* make one active: Add, fillSlots and every refresh keep to the limit.
Resuming(p) == /\ pc[p] \in {"start.store", "sync.store"} /\ stack[p] # <<>>
               /\ Head(stack[p]) \in {"unpause.sync", "unpauseAll.save", "option.save"}
OnlyClientsExceed ==
    [][LET active == With({"active"})
       IN Cardinality(active') > MaxConcurrent /\ ~(active' \subseteq active)
             => \E p \in Procs : Resuming(p)]_vars

\* Once a Remove has succeeded the task does not come back.
RemovedStaysRemoved == \A t \in Tasks : wins[t] > 0 => t \notin Held

\* Between calls the session file names exactly the tasks the manager holds, so a restart
\* brings back every task a client was told of and no removed one.  A task that the ed2k client
\* lost before it was started is not told of: Add fails, and leaves it for the next save.
Quiet == \A p \in Procs : pc[p] = "idle"
OnFile == {t \in Tasks : file[t] # None}
SessionMatches == Quiet => OnFile \subseteq Held /\ Held \ OnFile \subseteq Losable

\* fillSlots never resumes a task its driver holds paused: only a client does.  (Of a lost one
\* the manager may not have heard that it is paused; it cannot be started either.)
PausedNotPromoted ==
    [][\A p \in Procs : StartDriver(p) /\ stack[p] # <<>> =>
          (Head(stack[p]) = "fill.started" => drv[Cur(p)] # "paused" \/ Cur(p) \in lost)]_vars

\* Without a client's word no task becomes active that is paused, or for which no slot is free.
StartsInTurn == PausedNotPromoted /\ OnlyClientsExceed

\* A free slot does not stay free while a task waits, unless a task whose download the client
\* has lost is the next in turn, or is still held for active by the manager.
Running == {t \in Tasks \ lost : drv[t] = "active"}
SlotWasted == With({"waiting"}) # {} /\ Cardinality(Running) < MaxConcurrent
Blocked == \E t \in lost : NextWaiting(t) \/ tasks[t] = "active"
SlotsRefilled == SlotWasted ~> (~SlotWasted \/ Blocked)
\* Without that it is false: fillSlots ends at the first task that does not start, however many
\* wait behind it, and a refresh that finds no status keeps the old one.
SlotsAlwaysRefilled == SlotWasted ~> ~SlotWasted
==============================================================================
