-------------------------- MODULE TaskManagerProofs --------------------------
(* Theorems about TaskManager for any tasks, goroutines, mutexes and limits.   *)
EXTENDS TLAPS, FiniteSetTheorems, TaskManager

-----------------------------------------------------------------------------
(* Type correctness. *)

StoreLabels == {"sync.store", "start.store", "pause.store"}

\* What the steps rely on: a status is stored only for a task and after it was
\* read, and the calls that take the id from the client have one.
StepNeeds(label, l) ==
    /\ label \in StoreLabels => l.cur \in Tasks /\ l.got \in Statuses
    /\ label \in {"rm.mutex", "add.store"} => l.arg \in Tasks

ControlType ==
    /\ pc \in [Procs -> Labels]
    /\ stack \in [Procs -> Seq(ReturnLabels)]
    /\ loc \in [Procs -> Locals]
    /\ \A p \in Procs : StepNeeds(pc[p], loc[p])

DataType ==
    /\ tasks \in [Tasks -> Statuses \cup {None}]
    /\ undated \subseteq Tasks
    /\ counted \in Nat
    /\ removeLocks \in [Tasks -> Mutexes \cup {None}]
    /\ holder \in [Mutexes -> Procs \cup {None}]
    /\ mutex \in [Procs -> Mutexes \cup {None}]
    /\ drv \in [Tasks -> Statuses \cup {None}]
    /\ drvRemoved \subseteq Tasks /\ lost \subseteq Losable
    /\ file \in [Tasks -> Statuses \cup {None}]
    /\ stops \in Nat
    /\ wins \in [Tasks -> 0..2]

TypeInv == ControlType /\ DataType

LEMMA GotoType ==
    ASSUME ControlType, NEW p \in Procs, NEW label \in Labels, NEW l \in Locals,
           StepNeeds(label, l), Goto(p, label, l)
    PROVE  ControlType'
BY DEF ControlType, StepNeeds, Goto

\* Where the helpers start.
Entries == {"sync", "start", "pause", "pause.driver", "save", "fill"}

LEMMA CallType ==
    ASSUME ControlType, NEW p \in Procs, NEW label \in Entries, NEW l \in Locals,
           NEW back \in ReturnLabels, Call(p, label, back, l)
    PROVE  ControlType'
<1>1. label \in Labels /\ StepNeeds(label, l)
  BY DEF Entries, Labels, StepNeeds, StoreLabels
<1> QED
  BY <1>1 DEF ControlType, StepNeeds, Call

LEMMA ReturnLabelsNeedNothing ==
    ASSUME NEW label \in ReturnLabels \cup {"idle"}, NEW l
    PROVE  label \in Labels /\ StepNeeds(label, l)
BY DEF ReturnLabels, Labels, RemoveLocked, StepNeeds, StoreLabels

LEMMA NoLocalsType == NoLocals \in Locals /\ EmptyFile \in [Tasks -> Statuses \cup {None}]
BY DEF NoLocals, Locals, EmptyFile

LEMMA ReturnType ==
    ASSUME ControlType, NEW p \in Procs, NEW l \in Locals, Return(p, l)
    PROVE  ControlType'
<1>1. CASE stack[p] = <<>>
  <2>1. Goto(p, "idle", NoLocals)
    BY <1>1 DEF Return
  <2> QED
    BY <2>1, GotoType, NoLocalsType, ReturnLabelsNeedNothing
<1>2. CASE stack[p] # <<>>
  <2>1. /\ Head(stack[p]) \in ReturnLabels
        /\ Tail(stack[p]) \in Seq(ReturnLabels)
    BY <1>2 DEF ControlType
  <2>2. /\ pc' = [pc EXCEPT ![p] = Head(stack[p])]
        /\ stack' = [stack EXCEPT ![p] = Tail(stack[p])]
        /\ loc' = [loc EXCEPT ![p] = l]
    BY <1>2 DEF Return
  <2>3. Head(stack[p]) \in Labels /\ StepNeeds(Head(stack[p]), l)
    BY <2>1, ReturnLabelsNeedNothing
  <2> QED
    BY <2>1, <2>2, <2>3 DEF ControlType, StepNeeds
<1> QED
  BY <1>1, <1>2

LEMMA SucceedFailType ==
    ASSUME ControlType, NEW p \in Procs, NEW l \in Locals, Succeed(p, l) \/ Fail(p, l)
    PROVE  ControlType'
<1>1. [l EXCEPT !.ok = TRUE] \in Locals /\ [l EXCEPT !.ok = FALSE] \in Locals
  BY DEF Locals
<1> QED
  BY <1>1, ReturnType DEF Succeed, Fail

LEMMA LocalsType ==
    ASSUME NEW l \in Locals
    PROVE  /\ \A g \in Statuses \cup {None} : [l EXCEPT !.got = g] \in Locals
           /\ \A b \in BOOLEAN : [l EXCEPT !.started = b] \in Locals
           /\ \A S \in SUBSET Tasks : [l EXCEPT !.saving = S, !.snap = EmptyFile] \in Locals
           /\ [l EXCEPT !.snap = EmptyFile] \in Locals
           /\ \A t \in Tasks : [l EXCEPT !.cur = t] \in Locals
           /\ \A t \in l.saving : [l EXCEPT !.cur = t, !.saving = @ \ {t}] \in Locals
           /\ \A t \in l.todo : [l EXCEPT !.cur = t, !.todo = @ \ {t}] \in Locals
           /\ \A t \in l.todo : [l EXCEPT !.cur = t, !.got = None, !.todo = @ \ {t}] \in Locals
           /\ \A t : [l EXCEPT !.got = IF t \in lost THEN Refusal ELSE @] \in Locals
           /\ \A t \in Tasks \cup {None}, s \in Statuses \cup {None} :
                 [l EXCEPT !.snap[t] = s] \in Locals
<1>1. /\ \A g \in Statuses \cup {None} : [l EXCEPT !.got = g] \in Locals
      /\ \A b \in BOOLEAN : [l EXCEPT !.started = b] \in Locals
      /\ \A t \in Tasks : [l EXCEPT !.cur = t] \in Locals
      /\ \A S \in SUBSET Tasks : [l EXCEPT !.saving = S, !.snap = EmptyFile] \in Locals
      /\ [l EXCEPT !.snap = EmptyFile] \in Locals
  BY NoLocalsType DEF Locals
<1>2. ASSUME NEW t \in l.saving
      PROVE  [l EXCEPT !.cur = t, !.saving = @ \ {t}] \in Locals
  BY DEF Locals
<1>3. ASSUME NEW t \in l.todo
      PROVE  /\ [l EXCEPT !.cur = t, !.todo = @ \ {t}] \in Locals
             /\ [l EXCEPT !.cur = t, !.got = None, !.todo = @ \ {t}] \in Locals
  BY DEF Locals
<1>5. \A t : [l EXCEPT !.got = IF t \in lost THEN Refusal ELSE @] \in Locals
  BY DEF Locals, Refusal, Statuses
<1>4. \A t \in Tasks \cup {None}, s \in Statuses \cup {None} :
         [l EXCEPT !.snap[t] = s] \in Locals
  BY DEF Locals
<1> QED
  BY <1>1, <1>2, <1>3, <1>4, <1>5

LEMMA DriverFailsType ==
    ASSUME ControlType, NEW p \in Procs, NEW t, DriverFails(p, t)
    PROVE  ControlType'
<1>1. loc[p] \in Locals
  BY DEF ControlType
<1> QED
  BY <1>1, LocalsType, SucceedFailType DEF DriverFails

LEMMA FreshLocalsType ==
    /\ \A t \in Tasks : For(t) \in Locals /\ For(t).arg = t
    /\ \A S \in SUBSET Tasks : /\ [NoLocals EXCEPT !.todo = S] \in Locals
                                /\ \A t \in Tasks : [For(t) EXCEPT !.todo = S] \in Locals
BY NoLocalsType DEF For, NoLocals, Locals

\* Every label but those of StepNeeds may be reached with any locals.
LEMMA FreeLabels ==
    ASSUME NEW label \in Labels \ (StoreLabels \cup {"rm.mutex", "add.store"}), NEW l
    PROVE  StepNeeds(label, l)
BY DEF StepNeeds

LEMMA OnlyControlType == ASSUME DataType, OnlyControl PROVE DataType'
BY DEF OnlyControl, DataType, managerVars, lockVars, driverVars, historyVars

LEMMA DriverType ==
    ASSUME DataType, NEW t,
           DriverStart(t) \/ DriverPause(t) \/ DriverPurge(t) \/ UNCHANGED driverVars
    PROVE  /\ drv' \in [Tasks -> Statuses \cup {None}]
           /\ drvRemoved' \subseteq Tasks /\ lost' \subseteq Losable
BY DEF DataType, DriverStart, DriverPause, DriverPurge, driverVars, Statuses

LEMMA DriverRemoveType ==
    ASSUME DataType, NEW t \in Tasks, DriverRemove(t)
    PROVE  /\ drv' \in [Tasks -> Statuses \cup {None}]
           /\ drvRemoved' \subseteq Tasks /\ lost' \subseteq Losable
           /\ stops' \in Nat
BY DEF DataType, DriverRemove, Count, Statuses

LEMMA StoreTaskType ==
    ASSUME DataType, NEW t \in Tasks, NEW s \in Statuses, StoreTask(t, s)
    PROVE  /\ tasks' \in [Tasks -> Statuses \cup {None}]
           /\ undated' \subseteq Tasks
           /\ counted' \in Nat
BY DEF DataType, StoreTask

LEMMA TellType ==
    ASSUME TypeInv, NEW p \in Procs, DriverKnows(Cur(p)), NEW label \in StoreLabels
    PROVE  LET l == [loc[p] EXCEPT !.got = drv[Cur(p)]]
           IN l \in Locals /\ label \in Labels /\ StepNeeds(label, l)
<1> DEFINE l == [loc[p] EXCEPT !.got = drv[Cur(p)]]
<1>1. Cur(p) \in Tasks /\ drv[Cur(p)] \in Statuses /\ loc[p] \in Locals
  BY DEF DriverKnows, DriverHas, TypeInv, DataType, ControlType
<1>2. l \in Locals
  BY <1>1, LocalsType
<1>3. l.cur = Cur(p) /\ l.got = drv[Cur(p)]
  BY <1>1 DEF Cur, Locals
<1> QED
  BY <1>1, <1>2, <1>3 DEF StepNeeds, StoreLabels, Labels

LEMMA HelperControl ==
    ASSUME TypeInv, NEW p \in Procs, Helper(p)
    PROVE  ControlType'
<1>0. loc[p] \in Locals /\ ControlType /\ DataType /\ TypeInv
  BY DEF ControlType, TypeInv
<1>1. CASE Sync(p)
  <2>1. CASE Cur(p) \in Held
    <3>1. tasks[Cur(p)] \in Statuses \cup {None}
      BY <1>0, <2>1 DEF Held, DataType
    <3> QED
      BY <1>0, <1>1, <2>1, <3>1, GotoType, LocalsType, FreeLabels DEF Sync, Labels, StoreLabels
  <2>2. CASE Cur(p) \notin Held
    BY <1>0, <1>1, <2>2, SucceedFailType, LocalsType DEF Sync
  <2> QED
    BY <2>1, <2>2
<1>2. CASE SyncTell(p)
  <2>1. CASE DriverKnows(Cur(p))
    BY <1>0, <1>2, <2>1, TellType, GotoType DEF SyncTell, StoreLabels
  <2>2. CASE ~DriverKnows(Cur(p))
    BY <1>0, <1>2, <2>2, SucceedFailType DEF SyncTell
  <2> QED
    BY <2>1, <2>2
<1>3. CASE SyncStore(p)
  BY <1>0, <1>3, GotoType, CallType, SucceedFailType, LocalsType, NoLocalsType,
     FreshLocalsType, FreeLabels DEF SyncStore, Labels, ReturnLabels, StoreLabels
<1>4. CASE Start(p)
  BY <1>0, <1>4, GotoType, CallType, SucceedFailType, LocalsType, NoLocalsType,
     FreshLocalsType, FreeLabels DEF Start, Labels, ReturnLabels, StoreLabels
<1>5. CASE StartDriver(p)
  BY <1>0, <1>5, GotoType, CallType, SucceedFailType, LocalsType, NoLocalsType,
     FreshLocalsType, FreeLabels, DriverFailsType DEF StartDriver, Labels, ReturnLabels, StoreLabels
<1>6. CASE StartTell(p)
  <2>1. CASE DriverKnows(Cur(p))
    BY <1>0, <1>6, <2>1, TellType, GotoType DEF StartTell, StoreLabels
  <2>2. CASE ~DriverKnows(Cur(p))
    BY <1>0, <1>6, <2>2, SucceedFailType DEF StartTell
  <2> QED
    BY <2>1, <2>2
<1>7. CASE StartStore(p)
  BY <1>0, <1>7, GotoType, CallType, SucceedFailType, LocalsType, NoLocalsType,
     FreshLocalsType, FreeLabels DEF StartStore, Labels, ReturnLabels, StoreLabels
<1>8. CASE Save(p)
  BY <1>0, <1>8, GotoType, CallType, SucceedFailType, LocalsType, NoLocalsType,
     FreshLocalsType, FreeLabels DEF Save, Labels, ReturnLabels, StoreLabels, Held
<1>9. CASE SaveNext(p)
  BY <1>0, <1>9, CallType, LocalsType DEF SaveNext, Entries, ReturnLabels
<1>10. CASE SaveGot(p)
  <2> DEFINE s == CASE loc[p].ok -> loc[p].got
                    [] ~loc[p].ok /\ Cur(p) \in Held -> tasks[Cur(p)]
                    [] OTHER -> None
  <2>1. s \in Statuses \cup {None} /\ Cur(p) \in Tasks \cup {None}
    BY <1>0 DEF Locals, Held, DataType, Cur
  <2>2. Goto(p, "save.next", [loc[p] EXCEPT !.snap[Cur(p)] = s])
    BY <1>10 DEF SaveGot
  <2> HIDE DEF s
  <2> QED
    BY <1>0, <2>1, <2>2, GotoType, LocalsType, FreeLabels DEF Labels, StoreLabels
<1>11. CASE SaveWrite(p)
  BY <1>0, <1>11, GotoType, CallType, SucceedFailType, LocalsType, NoLocalsType,
     FreshLocalsType, FreeLabels DEF SaveWrite, Labels, ReturnLabels, StoreLabels
<1>12. CASE Fill(p)
  BY <1>0, <1>12, GotoType, CallType, SucceedFailType, LocalsType, NoLocalsType,
     FreshLocalsType, FreeLabels DEF Fill, Labels, ReturnLabels, StoreLabels
<1>13. CASE FillNext(p)
  <2>1. CASE Goto(p, "fill.end", loc[p])
    BY <1>0, <2>1, GotoType, FreeLabels DEF Labels, StoreLabels
  <2>2. CASE \E t \in Tasks : Call(p, "start", "fill.started", [loc[p] EXCEPT !.cur = t])
    BY <1>0, <2>2, CallType, LocalsType DEF Entries, ReturnLabels
  <2> QED
    BY <1>13, <2>1, <2>2 DEF FillNext
<1>14. CASE FillStarted(p)
  <2>1. CASE Call(p, "sync", "fill", [loc[p] EXCEPT !.started = TRUE])
    BY <1>0, <2>1, CallType, LocalsType DEF Entries, ReturnLabels
  <2>2. CASE Fail(p, [loc[p] EXCEPT !.started = FALSE])
    BY <1>0, <2>2, SucceedFailType, LocalsType
  <2> QED
    BY <1>14, <2>1, <2>2 DEF FillStarted
<1>15. CASE FillEnd(p)
  BY <1>0, <1>15, GotoType, CallType, SucceedFailType, LocalsType, NoLocalsType,
     FreshLocalsType, FreeLabels DEF FillEnd, Labels, ReturnLabels, StoreLabels
<1> QED
  BY <1>1, <1>2, <1>3, <1>4, <1>5, <1>6, <1>7, <1>8, <1>9, <1>10, <1>11, <1>12,
     <1>13, <1>14, <1>15 DEF Helper

LEMMA RemoveStepControl ==
    ASSUME TypeInv, NEW p \in Procs, RemoveStep(p)
    PROVE  ControlType'
<1>0. loc[p] \in Locals /\ ControlType /\ DataType /\ TypeInv
  BY DEF ControlType, TypeInv
<1>1. CASE RemoveMutexFor(p)
  BY <1>0, <1>1, GotoType, FreeLabels
     DEF RemoveMutexFor, Labels, StoreLabels, RemoveLocked
<1>2. CASE RemoveLock(p)
  BY <1>0, <1>2, GotoType, FreeLabels
     DEF RemoveLock, Labels, StoreLabels, RemoveLocked
<1>3. CASE RemoveStillThere(p)
  BY <1>0, <1>3, GotoType, FreeLabels
     DEF RemoveStillThere, Labels, StoreLabels, RemoveLocked
<1>4. CASE RemoveDriver(p)
  BY <1>0, <1>4, GotoType, FreeLabels
     DEF RemoveDriver, Labels, StoreLabels, RemoveLocked
<1>5. CASE RemoveTell(p)
  BY <1>0, <1>5, GotoType, FreeLabels
     DEF RemoveTell, Labels, StoreLabels, RemoveLocked
<1>6. CASE RemoveDetach(p)
  BY <1>0, <1>6, GotoType, FreeLabels
     DEF RemoveDetach, Labels, StoreLabels, RemoveLocked
<1>7. CASE RemovePurge(p)
  BY <1>0, <1>7, CallType
     DEF RemovePurge, Entries, ReturnLabels
<1>8. CASE RemoveFill(p)
  BY <1>0, <1>8, CallType
     DEF RemoveFill, Entries, ReturnLabels
<1>9. CASE RemoveUnlock(p)
  BY <1>0, <1>9, GotoType, FreeLabels
     DEF RemoveUnlock, Labels, StoreLabels, RemoveLocked
<1>10. CASE RemoveForget(p)
  BY <1>0, <1>10, SucceedFailType
     DEF RemoveForget
<1> QED
  BY <1>1, <1>2, <1>3, <1>4, <1>5, <1>6, <1>7, <1>8, <1>9, <1>10 DEF
     RemoveStep

LEMMA CallStepControl ==
    ASSUME TypeInv, NEW p \in Procs, CallStep(p)
    PROVE  ControlType'
<1>0. loc[p] \in Locals /\ ControlType /\ DataType /\ TypeInv
  BY DEF ControlType, TypeInv
<1>1. CASE AddStore(p)
  BY <1>0, <1>1, GotoType, FreeLabels
     DEF AddStore, Labels, StoreLabels
<1>2. CASE AddMode(p)
  BY <1>0, <1>2, GotoType, FreeLabels, CallType
     DEF AddMode, Labels, StoreLabels, Entries, ReturnLabels
<1>3. CASE AddStarted(p)
  BY <1>0, <1>3, CallType, SucceedFailType
     DEF AddStarted, Entries, ReturnLabels
<1>4. CASE AddPaused(p)
  BY <1>0, <1>4, GotoType, FreeLabels, SucceedFailType
     DEF AddPaused, Labels, StoreLabels
<1>5. CASE AddSave(p)
  BY <1>0, <1>5, GotoType, FreeLabels
     DEF AddSave, Labels, StoreLabels
<1>6. CASE PauseDriver(p)
  BY <1>0, <1>6, GotoType, FreeLabels, DriverFailsType
     DEF PauseDriver, Labels, StoreLabels
<1>7. CASE PauseTell(p)
  <2>1. CASE DriverKnows(Cur(p))
    BY <1>0, <1>7, <2>1, TellType, GotoType DEF PauseTell, StoreLabels
  <2>2. CASE ~DriverKnows(Cur(p))
    BY <1>0, <1>7, <2>2, SucceedFailType DEF PauseTell
  <2> QED
    BY <2>1, <2>2
<1>8. CASE PauseStore(p)
  BY <1>0, <1>8, SucceedFailType
     DEF PauseStore
<1>9. CASE PauseSave(p)
  BY <1>0, <1>9, CallType, SucceedFailType
     DEF PauseSave, Entries, ReturnLabels
<1>10. CASE PauseFill(p)
  BY <1>0, <1>10, GotoType, FreeLabels
     DEF PauseFill, Labels, StoreLabels
<1>11. CASE PauseAllLoop(p)
  BY <1>0, <1>11, GotoType, FreeLabels, CallType, LocalsType
     DEF PauseAllLoop, Labels, StoreLabels, Entries, ReturnLabels
<1>12. CASE PauseTaskByID(p)
  BY <1>0, <1>12, GotoType, FreeLabels, SucceedFailType
     DEF PauseTaskByID, Labels, StoreLabels
<1>13. CASE PauseAllSave(p)
  BY <1>0, <1>13, GotoType, FreeLabels, CallType, SucceedFailType
     DEF PauseAllSave, Labels, StoreLabels, Entries, ReturnLabels
<1>14. CASE UnpauseSync(p)
  BY <1>0, <1>14, CallType, SucceedFailType
     DEF UnpauseSync, Entries, ReturnLabels
<1>15. CASE UnpauseSave(p)
  BY <1>0, <1>15, GotoType, FreeLabels, SucceedFailType
     DEF UnpauseSave, Labels, StoreLabels
<1>16. CASE UnpauseAllLoop(p)
  BY <1>0, <1>16, GotoType, FreeLabels, CallType, LocalsType
     DEF UnpauseAllLoop, Labels, StoreLabels, Entries, ReturnLabels
<1>17. CASE UnpauseAllSave(p)
  BY <1>0, <1>17, GotoType, FreeLabels, CallType, SucceedFailType
     DEF UnpauseAllSave, Labels, StoreLabels, Entries, ReturnLabels
<1>18. CASE ChangeOptionDriver(p)
  BY <1>0, <1>18, CallType, DriverFailsType
     DEF ChangeOptionDriver, Entries, ReturnLabels
<1>19. CASE ChangeOptionSave(p)
  BY <1>0, <1>19, GotoType, FreeLabels, SucceedFailType
     DEF ChangeOptionSave, Labels, StoreLabels
<1>20. CASE ResultCheck(p)
  BY <1>0, <1>20, GotoType, FreeLabels, SucceedFailType
     DEF ResultCheck, Labels, StoreLabels
<1>21. CASE ResultDriver(p)
  BY <1>0, <1>21, GotoType, FreeLabels, FreshLocalsType, NoLocalsType
     DEF ResultDriver, Labels, StoreLabels
<1>22. CASE ResultDetach(p)
  BY <1>0, <1>22, GotoType, FreeLabels
     DEF ResultDetach, Labels, StoreLabels
<1>23. CASE ResultPurge(p)
  BY <1>0, <1>23, GotoType, FreeLabels, CallType
     DEF ResultPurge, Labels, StoreLabels, Entries, ReturnLabels
<1>24. CASE PurgeAllLoop(p)
  <2>1. CASE loc[p].todo = {}
    BY <1>0, <1>24, <2>1, SucceedFailType DEF PurgeAllLoop
  <2>2. CASE loc[p].todo # {}
    <3>1. PICK t \in loc[p].todo :
             Call(p, "sync", "purgeAll.check", [For(t) EXCEPT !.todo = loc[p].todo \ {t}])
      BY <1>24, <2>2 DEF PurgeAllLoop
    <3>2. t \in Tasks /\ loc[p].todo \ {t} \in SUBSET Tasks
      BY <1>0 DEF Locals
    <3> QED
      BY <1>0, <3>1, <3>2, CallType, FreshLocalsType DEF Entries, ReturnLabels
  <2> QED
    BY <2>1, <2>2
<1>25. CASE PurgeAllCheck(p)
  BY <1>0, <1>25, GotoType, FreeLabels
     DEF PurgeAllCheck, Labels, StoreLabels
<1>26. CASE PurgeAllLookup(p)
  BY <1>0, <1>26, GotoType, FreeLabels
     DEF PurgeAllLookup, Labels, StoreLabels
<1>27. CASE SyncActiveLoop(p)
  BY <1>0, <1>27, CallType, SucceedFailType, LocalsType
     DEF SyncActiveLoop, Entries, ReturnLabels
<1>28. CASE SyncActiveDone(p)
  BY <1>0, <1>28, GotoType, FreeLabels, CallType, SucceedFailType
     DEF SyncActiveDone, Labels, StoreLabels, Entries, ReturnLabels
<1> QED
  BY <1>1, <1>2, <1>3, <1>4, <1>5, <1>6, <1>7, <1>8, <1>9, <1>10,
     <1>11, <1>12, <1>13, <1>14, <1>15, <1>16, <1>17, <1>18, <1>19, <1>20,
     <1>21, <1>22, <1>23, <1>24, <1>25, <1>26, <1>27, <1>28 DEF CallStep

LEMMA BeginControl ==
    ASSUME TypeInv, NEW p \in Procs, Begin(p)
    PROVE  ControlType'
<1>0. loc[p] \in Locals /\ ControlType /\ DataType /\ TypeInv
  BY DEF ControlType, TypeInv
<1>1. CASE Add(p)
  <2>1. PICK t \in Tasks \ Born : Goto(p, "add.store", For(t))
    BY <1>1 DEF Add
  <2>2. StepNeeds("add.store", For(t))
    BY FreshLocalsType DEF StepNeeds, StoreLabels
  <2> QED
    BY <1>0, <2>1, <2>2, GotoType, FreshLocalsType DEF Labels
<1>2. CASE Remove(p)
  <2>1. PICK t \in Tasks : Goto(p, "rm.mutex", For(t))
    BY <1>2 DEF Remove
  <2>2. StepNeeds("rm.mutex", For(t))
    BY FreshLocalsType DEF StepNeeds, StoreLabels
  <2> QED
    BY <1>0, <2>1, <2>2, GotoType, FreshLocalsType DEF Labels
<1>3. CASE Pause(p)
  BY <1>0, <1>3, CallType, FreshLocalsType, NoLocalsType
     DEF Pause, Entries, ReturnLabels
<1>4. CASE PauseAll(p)
  BY <1>0, <1>4, GotoType, FreeLabels, LocalsType, FreshLocalsType, NoLocalsType
     DEF PauseAll, Labels, StoreLabels, With
<1>5. CASE Unpause(p)
  BY <1>0, <1>5, CallType, FreshLocalsType, NoLocalsType
     DEF Unpause, Entries, ReturnLabels
<1>6. CASE UnpauseAll(p)
  BY <1>0, <1>6, GotoType, FreeLabels, LocalsType, FreshLocalsType, NoLocalsType
     DEF UnpauseAll, Labels, StoreLabels, With
<1>7. CASE ChangeOption(p)
  BY <1>0, <1>7, GotoType, FreeLabels, FreshLocalsType, NoLocalsType
     DEF ChangeOption, Labels, StoreLabels
<1>8. CASE RemoveDownloadResult(p)
  BY <1>0, <1>8, CallType, FreshLocalsType, NoLocalsType
     DEF RemoveDownloadResult, Entries, ReturnLabels
<1>9. CASE PurgeDownloadResult(p)
  BY <1>0, <1>9, GotoType, FreeLabels, LocalsType, FreshLocalsType, NoLocalsType
     DEF PurgeDownloadResult, Labels, StoreLabels, Held
<1>10. CASE TellStatus(p)
  BY <1>0, <1>10, GotoType, FreeLabels, FreshLocalsType, NoLocalsType
     DEF TellStatus, Labels, StoreLabels
<1>11. CASE SyncActive(p)
  BY <1>0, <1>11, GotoType, FreeLabels, LocalsType, FreshLocalsType, NoLocalsType
     DEF SyncActive, Labels, StoreLabels, With
<1>12. CASE SaveSession(p)
  BY <1>0, <1>12, GotoType, FreeLabels, FreshLocalsType, NoLocalsType
     DEF SaveSession, Labels, StoreLabels
<1> QED
  BY <1>1, <1>2, <1>3, <1>4, <1>5, <1>6, <1>7, <1>8, <1>9, <1>10,
     <1>11, <1>12 DEF Begin

LEMMA HelperData ==
    ASSUME TypeInv, NEW p \in Procs, Helper(p)
    PROVE  DataType'
<1>0. loc[p] \in Locals /\ ControlType /\ DataType
  BY DEF ControlType, TypeInv
<1>1. CASE OnlyControl
  BY <1>0, <1>1, OnlyControlType
<1>2. CASE SyncStore(p)
  <2>1. StoreTask(Cur(p), loc[p].got) /\ UNCHANGED <<lockVars, driverVars, historyVars, file>>
    BY <1>2 DEF SyncStore
  <2>2. Cur(p) \in Tasks /\ loc[p].got \in Statuses
    BY <1>0, <1>2 DEF SyncStore, At, ControlType, StepNeeds, StoreLabels, Cur
  <2> QED
    BY <1>0, <2>1, <2>2, StoreTaskType DEF DataType, lockVars, driverVars, historyVars
<1>3. CASE StartDriver(p)
  BY <1>0, <1>3, DriverType DEF StartDriver, DataType, managerVars, lockVars, historyVars
<1>4. CASE StartStore(p)
  <2>1. StoreTask(Cur(p), loc[p].got) /\ UNCHANGED <<lockVars, driverVars, historyVars, file>>
    BY <1>4 DEF StartStore
  <2>2. Cur(p) \in Tasks /\ loc[p].got \in Statuses
    BY <1>0, <1>4 DEF StartStore, At, ControlType, StepNeeds, StoreLabels, Cur
  <2> QED
    BY <1>0, <2>1, <2>2, StoreTaskType DEF DataType, lockVars, driverVars, historyVars
<1>5. CASE SaveWrite(p)
  BY <1>0, <1>5 DEF SaveWrite, DataType, managerVars, lockVars, driverVars, historyVars, ControlType, Locals
<1> QED
  BY <1>1, <1>2, <1>3, <1>4, <1>5 DEF Helper, Sync, SyncTell, Start,
     StartTell, Save, SaveNext, SaveGot, Fill, FillNext, FillStarted, FillEnd

LEMMA RemoveStepData ==
    ASSUME TypeInv, NEW p \in Procs, RemoveStep(p)
    PROVE  DataType'
<1>0. loc[p] \in Locals /\ ControlType /\ DataType
  BY DEF ControlType, TypeInv
<1>1. CASE OnlyControl
  BY <1>0, <1>1, OnlyControlType
<1>2. CASE RemoveMutexFor(p)
  <2>1. Arg(p) \in Tasks
    BY <1>0, <1>2 DEF RemoveMutexFor, At, ControlType, StepNeeds, Arg
  <2> QED
    BY <1>0, <1>2, <2>1 DEF RemoveMutexFor, DataType, managerVars, lockVars, driverVars, historyVars
<1>3. CASE RemoveLock(p)
  BY <1>0, <1>3 DEF RemoveLock, DataType, managerVars, lockVars, driverVars, historyVars
<1>4. CASE RemoveDriver(p)
  <2>1. CASE DriverHas(Arg(p))
    <3>1. DriverRemove(Arg(p)) /\ Arg(p) \in Tasks
      BY <1>4, <2>1 DEF RemoveDriver, DriverKnows, DriverHas
    <3> QED
      BY <1>0, <1>4, <3>1, DriverRemoveType DEF RemoveDriver, DataType, managerVars, lockVars
  <2>2. CASE ~DriverHas(Arg(p))
    BY <1>0, <1>4, <2>2 DEF RemoveDriver, DataType, managerVars, lockVars, driverVars
  <2> QED
    BY <2>1, <2>2
<1>5. CASE RemoveDetach(p)
  <2>1. wins' \in [Tasks -> 0..2]
    <3>1. \A t \in Tasks : wins[t] \in 0..2 /\ (wins[t] < 2 => wins[t] + 1 \in 0..2)
      BY <1>0 DEF DataType
    <3> QED
      BY <1>0, <1>5, <3>1 DEF RemoveDetach, DataType
  <2>2. tasks' \in [Tasks -> Statuses \cup {None}] /\ undated' \subseteq Tasks
    BY <1>0, <1>5 DEF RemoveDetach, DataType, Detach
  <2> QED
    BY <1>0, <1>5, <2>1, <2>2 DEF RemoveDetach, DataType, lockVars, driverVars
<1>6. CASE RemovePurge(p)
  BY <1>0, <1>6, DriverType DEF RemovePurge, DataType, managerVars, lockVars, historyVars
<1>7. CASE RemoveUnlock(p)
  BY <1>0, <1>7 DEF RemoveUnlock, DataType, managerVars, lockVars, driverVars, historyVars
<1>8. CASE RemoveForget(p)
  BY <1>0, <1>8 DEF RemoveForget, DataType, managerVars, lockVars, driverVars, historyVars
<1> QED
  BY <1>1, <1>2, <1>3, <1>4, <1>5, <1>6, <1>7, <1>8 DEF RemoveStep,
     RemoveStillThere, RemoveTell, RemoveFill

LEMMA CallStepData ==
    ASSUME TypeInv, NEW p \in Procs, CallStep(p)
    PROVE  DataType'
<1>0. loc[p] \in Locals /\ ControlType /\ DataType
  BY DEF ControlType, TypeInv
<1>1. CASE OnlyControl
  BY <1>0, <1>1, OnlyControlType
<1>2. CASE AddStore(p)
  BY <1>0, <1>2 DEF AddStore, DataType, managerVars, lockVars, driverVars, historyVars, Statuses
<1>3. CASE PauseDriver(p)
  BY <1>0, <1>3, DriverType DEF PauseDriver, DataType, managerVars, lockVars, historyVars
<1>4. CASE PauseStore(p)
  <2>1. StoreTask(Cur(p), loc[p].got) /\ UNCHANGED <<lockVars, driverVars, historyVars, file>>
    BY <1>4 DEF PauseStore
  <2>2. Cur(p) \in Tasks /\ loc[p].got \in Statuses
    BY <1>0, <1>4 DEF PauseStore, At, ControlType, StepNeeds, StoreLabels, Cur
  <2> QED
    BY <1>0, <2>1, <2>2, StoreTaskType DEF DataType, lockVars, driverVars, historyVars
<1>5. CASE ChangeOptionDriver(p)
  BY <1>0, <1>5, DriverType DEF ChangeOptionDriver, DataType, managerVars, lockVars, historyVars
<1>6. CASE ResultDriver(p)
  <2>1. CASE DriverHas(Arg(p))
    <3>1. DriverRemove(Arg(p)) /\ Arg(p) \in Tasks
      BY <1>6, <2>1 DEF ResultDriver, DriverKnows, DriverHas
    <3> QED
      BY <1>0, <1>6, <3>1, DriverRemoveType DEF ResultDriver, DataType, managerVars, lockVars
  <2>2. CASE ~DriverHas(Arg(p))
    BY <1>0, <1>6, <2>2 DEF ResultDriver, DataType, managerVars, lockVars, driverVars
  <2> QED
    BY <2>1, <2>2
<1>7. CASE ResultDetach(p)
  BY <1>0, <1>7 DEF ResultDetach, DataType, managerVars, lockVars, driverVars, historyVars, Detach
<1>8. CASE ResultPurge(p)
  BY <1>0, <1>8, DriverType DEF ResultPurge, DataType, managerVars, lockVars, historyVars
<1> QED
  BY <1>1, <1>2, <1>3, <1>4, <1>5, <1>6, <1>7, <1>8 DEF CallStep, AddMode,
     AddStarted, AddPaused, AddSave, PauseTell, PauseSave, PauseFill,
     PauseAllLoop, PauseTaskByID, PauseAllSave, UnpauseSync, UnpauseSave,
     UnpauseAllLoop, UnpauseAllSave, ChangeOptionSave, ResultCheck,
     PurgeAllLoop, PurgeAllCheck, PurgeAllLookup, SyncActiveLoop,
     SyncActiveDone

LEMMA BeginData ==
    ASSUME TypeInv, NEW p \in Procs, Begin(p)
    PROVE  DataType'
<1>0. loc[p] \in Locals /\ ControlType /\ DataType
  BY DEF ControlType, TypeInv
<1>1. CASE OnlyControl
  BY <1>0, <1>1, OnlyControlType
<1>2. CASE Add(p)
  BY <1>0, <1>2 DEF Add, DataType, managerVars, lockVars, driverVars, historyVars, Statuses
<1> QED
  BY <1>1, <1>2 DEF Begin, Remove, Pause, PauseAll, Unpause, UnpauseAll,
     ChangeOption, RemoveDownloadResult, PurgeDownloadResult, TellStatus,
     SyncActive, SaveSession

LEMMA FinishType ==
    ASSUME TypeInv, NEW t \in Tasks, Finish(t)
    PROVE  TypeInv'
<1>1. PICK s \in FinishStatus : drv' = [drv EXCEPT ![t] = s] /\ Count(drv[t], s)
  BY DEF Finish
<1>2. s \in Statuses
  BY BoundAssumption DEF Statuses
<1>3. stops' \in Nat
  BY <1>1 DEF Count, TypeInv, DataType
<1>4. DataType'
  BY <1>1, <1>2, <1>3 DEF Finish, TypeInv, DataType, managerVars, lockVars
<1>5. ControlType'
  BY DEF Finish, TypeInv, ControlType, controlVars
<1> QED
  BY <1>4, <1>5 DEF TypeInv

LEMMA LoseType ==
    ASSUME TypeInv, NEW t \in Tasks, Lose(t)
    PROVE  TypeInv'
<1>1. DataType'
  BY DEF Lose, TypeInv, DataType, managerVars, lockVars, historyVars
<1>2. ControlType'
  BY DEF Lose, TypeInv, ControlType, controlVars
<1> QED
  BY <1>1, <1>2 DEF TypeInv

LEMMA InitType == Init => TypeInv
<1> SUFFICES ASSUME Init PROVE TypeInv
  OBVIOUS
<1>1. PICK s \in [InitialTasks -> Statuses \ {"removed"}] :
         tasks = [t \in Tasks |-> IF t \in InitialTasks THEN s[t] ELSE None]
  BY DEF Init
<1>2. tasks \in [Tasks -> Statuses \cup {None}]
  BY <1>1
<1>3. DataType
  BY <1>2 DEF Init, DataType
<1>4. ControlType
  BY NoLocalsType DEF Init, ControlType, StepNeeds, StoreLabels, Labels
<1> QED
  BY <1>3, <1>4 DEF TypeInv

LEMMA NextType == TypeInv /\ [Next]_vars => TypeInv'
<1> SUFFICES ASSUME TypeInv, [Next]_vars PROVE TypeInv'
  OBVIOUS
<1>1. ASSUME NEW p \in Procs, Begin(p) PROVE TypeInv'
  BY <1>1, BeginControl, BeginData DEF TypeInv
<1>2. ASSUME NEW p \in Procs, Continue(p) PROVE TypeInv'
  BY <1>2, HelperControl, HelperData, RemoveStepControl, RemoveStepData,
     CallStepControl, CallStepData DEF TypeInv, Continue
<1>3. ASSUME NEW t \in Tasks, Finish(t) \/ Lose(t) PROVE TypeInv'
  BY <1>3, FinishType, LoseType
<1>4. CASE UNCHANGED vars
  BY <1>4 DEF TypeInv, ControlType, DataType, vars, managerVars, lockVars, driverVars,
     controlVars, historyVars
<1> QED
  BY <1>1, <1>2, <1>3, <1>4 DEF Next

LEMMA TypeInvariant == Spec => []TypeInv
  BY InitType, NextType, PTL DEF Spec

\* Every variable of Manager keeps its type: whatever the interleaving, no goroutine
\* runs off its program or returns to a label that is not one of its callers'.
THEOREM TypeCorrect == Spec => []TypeOK
<1>1. TypeInv => TypeOK
  BY DEF TypeInv, ControlType, DataType, TypeOK
<1> QED
  BY <1>1, TypeInvariant, PTL

-----------------------------------------------------------------------------
(* No orphan downloads. *)

\* Tasks that some driver was asked to create: nothing else is ever named.
OfBorn(l, S) == /\ l.arg \in S \cup {None} /\ l.cur \in S \cup {None}
                /\ l.todo \subseteq S /\ l.saving \subseteq S

\* The stretch of code after Driver.Remove in which the task is deleted.
PurgeLabels == {"rm.tell", "rm.detach", "rm.purge", "result.detach", "result.purge"}

Purging == \A p \in Procs : pc[p] \in PurgeLabels => loc[p].arg \in drvRemoved \cup {None}
\* Driver.Remove is final: no call revives the driver's task.
Sticky == \A t \in drvRemoved : drv[t] \in {None, "removed"}
\* Who is known to a driver only is being added or was removed from it.
Recorded == \A t \in Tasks : t \notin Held /\ drv[t] # None
                                => t \in drvRemoved \/ BeingAdded(t)

ControlBorn == Purging /\ \A p \in Procs : OfBorn(loc[p], Born)
DataBorn == Held \subseteq Born /\ Sticky /\ Recorded
OrphanInv == TypeInv /\ ControlBorn /\ DataBorn

Grows == Born \subseteq Born' /\ drvRemoved \subseteq drvRemoved'
\* Only goroutine p moves.
Frame(p) == \A q \in Procs \ {p} : pc'[q] = pc[q] /\ loc'[q] = loc[q]

LEMMA GotoBorn ==
    ASSUME TypeInv, ControlBorn, Grows, NEW p \in Procs, NEW label, NEW l \in Locals,
           OfBorn(l, Born), label \in PurgeLabels => l.arg \in drvRemoved' \cup {None},
           Goto(p, label, l)
    PROVE  ControlBorn' /\ Frame(p)
<1>1. /\ pc' = [pc EXCEPT ![p] = label] /\ pc \in [Procs -> Labels]
      /\ loc' = [loc EXCEPT ![p] = l] /\ loc \in [Procs -> Locals]
  BY DEF Goto, TypeInv, ControlType
<1>2. Frame(p)
  BY <1>1 DEF Frame
<1>3. Purging'
  BY <1>1 DEF ControlBorn, Purging, Grows
<1>4. \A q \in Procs : OfBorn(loc'[q], Born')
  BY <1>1 DEF ControlBorn, OfBorn, Grows
<1> QED
  BY <1>2, <1>3, <1>4 DEF ControlBorn, OfBorn

LEMMA CallBorn ==
    ASSUME TypeInv, ControlBorn, Grows, NEW p \in Procs, NEW label \in Entries,
           NEW l \in Locals, OfBorn(l, Born), NEW back, Call(p, label, back, l)
    PROVE  ControlBorn' /\ Frame(p)
<1>1. /\ pc' = [pc EXCEPT ![p] = label] /\ pc \in [Procs -> Labels]
      /\ loc' = [loc EXCEPT ![p] = l] /\ loc \in [Procs -> Locals]
  BY DEF Call, TypeInv, ControlType
<1>2. Frame(p)
  BY <1>1 DEF Frame
<1>3. Purging'
  BY <1>1 DEF ControlBorn, Purging, Grows, PurgeLabels, Entries
<1>4. \A q \in Procs : OfBorn(loc'[q], Born')
  BY <1>1 DEF ControlBorn, OfBorn, Grows
<1> QED
  BY <1>2, <1>3, <1>4 DEF ControlBorn, OfBorn

LEMMA BornLocals ==
    ASSUME NEW S, NEW l \in Locals, OfBorn(l, S)
    PROVE  /\ \A g : OfBorn([l EXCEPT !.got = g], S)
           /\ \A b : OfBorn([l EXCEPT !.started = b], S)
           /\ \A b : OfBorn([l EXCEPT !.ok = b], S)
           /\ OfBorn([l EXCEPT !.saving = Held, !.snap = EmptyFile], S) <=> Held \subseteq S
           /\ OfBorn([l EXCEPT !.snap = EmptyFile], S)
           /\ \A t \in S : OfBorn([l EXCEPT !.cur = t], S)
           /\ \A t \in l.saving : OfBorn([l EXCEPT !.cur = t, !.saving = @ \ {t}], S)
           /\ \A t \in l.todo : OfBorn([l EXCEPT !.cur = t, !.todo = @ \ {t}], S)
           /\ \A t \in l.todo : OfBorn([l EXCEPT !.cur = t, !.got = None, !.todo = @ \ {t}], S)
           /\ \A t, s : OfBorn([l EXCEPT !.snap[t] = s], S)
<1>1. /\ \A g : OfBorn([l EXCEPT !.got = g], S)
      /\ \A b : OfBorn([l EXCEPT !.started = b], S)
      /\ \A b : OfBorn([l EXCEPT !.ok = b], S)
  BY DEF OfBorn, Locals
<1>2. /\ OfBorn([l EXCEPT !.saving = Held, !.snap = EmptyFile], S) <=> Held \subseteq S
      /\ OfBorn([l EXCEPT !.snap = EmptyFile], S)
  BY DEF OfBorn, Locals
<1>3. \A t \in S : OfBorn([l EXCEPT !.cur = t], S)
  BY DEF OfBorn, Locals
<1>4. \A t \in l.saving : OfBorn([l EXCEPT !.cur = t, !.saving = @ \ {t}], S)
  BY DEF OfBorn, Locals
<1>5. ASSUME NEW t \in l.todo
      PROVE  /\ OfBorn([l EXCEPT !.cur = t, !.todo = @ \ {t}], S)
             /\ OfBorn([l EXCEPT !.cur = t, !.got = None, !.todo = @ \ {t}], S)
  BY DEF OfBorn, Locals
<1>6. \A t, s : OfBorn([l EXCEPT !.snap[t] = s], S)
  BY DEF OfBorn, Locals
<1> QED
  BY <1>1, <1>2, <1>3, <1>4, <1>5, <1>6

LEMMA FreshBorn ==
    ASSUME NEW S
    PROVE  /\ OfBorn(NoLocals, S)
           /\ \A t \in S : OfBorn(For(t), S)
           /\ \A T \in SUBSET S : OfBorn([NoLocals EXCEPT !.todo = T], S)
           /\ \A t \in S, T \in SUBSET S : OfBorn([For(t) EXCEPT !.todo = T], S)
BY DEF OfBorn, For, NoLocals

LEMMA ReturnBorn ==
    ASSUME TypeInv, ControlBorn, Grows, NEW p \in Procs, NEW l \in Locals,
           OfBorn(l, Born), Return(p, l)
    PROVE  ControlBorn' /\ Frame(p)
<1>1. CASE stack[p] = <<>>
  <2>1. Goto(p, "idle", NoLocals)
    BY <1>1 DEF Return
  <2> QED
    BY <2>1, GotoBorn, NoLocalsType, FreshBorn DEF PurgeLabels
<1>2. CASE stack[p] # <<>>
  <2>1. Head(stack[p]) \in ReturnLabels
    BY <1>2 DEF TypeInv, ControlType
  <2>2. Head(stack[p]) \notin PurgeLabels
    BY <2>1 DEF ReturnLabels, PurgeLabels
  <2>3. /\ pc' = [pc EXCEPT ![p] = Head(stack[p])] /\ pc \in [Procs -> Labels]
        /\ loc' = [loc EXCEPT ![p] = l] /\ loc \in [Procs -> Locals]
    BY <1>2 DEF Return, TypeInv, ControlType
  <2>4. Frame(p)
    BY <2>3 DEF Frame
  <2>5. Purging'
    BY <2>2, <2>3 DEF ControlBorn, Purging, Grows
  <2>6. \A q \in Procs : OfBorn(loc'[q], Born')
    BY <2>3 DEF ControlBorn, OfBorn, Grows
  <2> QED
    BY <2>4, <2>5, <2>6 DEF ControlBorn, OfBorn
<1> QED
  BY <1>1, <1>2

LEMMA SucceedFailBorn ==
    ASSUME TypeInv, ControlBorn, Grows, NEW p \in Procs, NEW l \in Locals,
           OfBorn(l, Born), Succeed(p, l) \/ Fail(p, l)
    PROVE  ControlBorn' /\ Frame(p)
<1>1. /\ [l EXCEPT !.ok = TRUE] \in Locals /\ OfBorn([l EXCEPT !.ok = TRUE], Born)
      /\ [l EXCEPT !.ok = FALSE] \in Locals /\ OfBorn([l EXCEPT !.ok = FALSE], Born)
  BY BornLocals DEF Locals
<1> QED
  BY <1>1, ReturnBorn DEF Succeed, Fail

LEMMA DriverFailsBorn ==
    ASSUME TypeInv, ControlBorn, Grows, NEW p \in Procs, NEW t, DriverFails(p, t)
    PROVE  ControlBorn' /\ Frame(p)
<1>1. loc[p] \in Locals /\ OfBorn(loc[p], Born)
  BY DEF TypeInv, ControlType, ControlBorn
<1>2. [loc[p] EXCEPT !.got = IF t \in lost THEN Refusal ELSE @] \in Locals
  BY <1>1, LocalsType
<1>3. OfBorn([loc[p] EXCEPT !.got = IF t \in lost THEN Refusal ELSE @], Born)
  BY <1>1 DEF OfBorn, Locals
<1> QED
  BY <1>2, <1>3, SucceedFailBorn DEF DriverFails

LEMMA HelperBorn ==
    ASSUME OrphanInv, Grows, NEW p \in Procs, Helper(p)
    PROVE  ControlBorn' /\ Frame(p)
<1>0. /\ TypeInv /\ ControlBorn /\ Purging /\ Held \subseteq Born
      /\ loc[p] \in Locals /\ OfBorn(loc[p], Born)
  BY DEF OrphanInv, TypeInv, ControlType, ControlBorn, DataBorn
<1>1. CASE Sync(p)
  <2>1. CASE Cur(p) \in Held
    <3>1. tasks[Cur(p)] \in Statuses \cup {None}
      BY <1>0, <2>1 DEF Held, TypeInv, DataType
    <3>2. /\ [loc[p] EXCEPT !.got = tasks[Cur(p)]] \in Locals
          /\ OfBorn([loc[p] EXCEPT !.got = tasks[Cur(p)]], Born)
      BY <1>0, <3>1, LocalsType, BornLocals
    <3> QED
      BY <1>0, <1>1, <2>1, <3>2, GotoBorn DEF Sync, PurgeLabels
  <2>2. CASE Cur(p) \notin Held
    BY <1>0, <1>1, <2>2, SucceedFailBorn, LocalsType, BornLocals DEF Sync
  <2> QED
    BY <2>1, <2>2
<1>2. CASE SyncTell(p)
  <2>1. CASE DriverKnows(Cur(p))
    BY <1>0, <1>2, <2>1, TellType, BornLocals, GotoBorn DEF SyncTell, StoreLabels, PurgeLabels
  <2>2. CASE ~DriverKnows(Cur(p))
    BY <1>0, <1>2, <2>2, SucceedFailBorn DEF SyncTell
  <2> QED
    BY <2>1, <2>2
<1>3. CASE SyncStore(p)
  BY <1>0, <1>3, SucceedFailBorn
     DEF SyncStore
<1>4. CASE Start(p)
  BY <1>0, <1>4, GotoBorn, SucceedFailBorn
     DEF Start, PurgeLabels
<1>5. CASE StartDriver(p)
  BY <1>0, <1>5, GotoBorn, DriverFailsBorn
     DEF StartDriver, PurgeLabels
<1>6. CASE StartTell(p)
  <2>1. CASE DriverKnows(Cur(p))
    BY <1>0, <1>6, <2>1, TellType, BornLocals, GotoBorn DEF StartTell, StoreLabels, PurgeLabels
  <2>2. CASE ~DriverKnows(Cur(p))
    BY <1>0, <1>6, <2>2, SucceedFailBorn DEF StartTell
  <2> QED
    BY <2>1, <2>2
<1>7. CASE StartStore(p)
  BY <1>0, <1>7, SucceedFailBorn
     DEF StartStore
<1>8. CASE Save(p)
  <2>1. Held \in SUBSET Tasks
    BY DEF Held
  <2>2. /\ [loc[p] EXCEPT !.saving = Held, !.snap = EmptyFile] \in Locals
        /\ OfBorn([loc[p] EXCEPT !.saving = Held, !.snap = EmptyFile], Born)
    BY <1>0, <2>1, LocalsType, BornLocals
  <2> QED
    BY <1>0, <1>8, <2>2, GotoBorn DEF Save, PurgeLabels
<1>9. CASE SaveNext(p)
  BY <1>0, <1>9, CallBorn, LocalsType, BornLocals
     DEF SaveNext, Entries
<1>10. CASE SaveGot(p)
  <2> DEFINE s == CASE loc[p].ok -> loc[p].got
                    [] ~loc[p].ok /\ Cur(p) \in Held -> tasks[Cur(p)]
                    [] OTHER -> None
  <2>1. s \in Statuses \cup {None} /\ Cur(p) \in Tasks \cup {None}
    BY <1>0 DEF Locals, Held, TypeInv, DataType, Cur
  <2>2. Goto(p, "save.next", [loc[p] EXCEPT !.snap[Cur(p)] = s])
    BY <1>10 DEF SaveGot
  <2> HIDE DEF s
  <2>3. [loc[p] EXCEPT !.snap[Cur(p)] = s] \in Locals
    BY <1>0, <2>1, LocalsType
  <2>4. OfBorn([loc[p] EXCEPT !.snap[Cur(p)] = s], Born)
    BY <1>0, BornLocals
  <2> QED
    BY <1>0, <2>2, <2>3, <2>4, GotoBorn DEF PurgeLabels
<1>11. CASE SaveWrite(p)
  BY <1>0, <1>11, SucceedFailBorn, LocalsType, BornLocals
     DEF SaveWrite
<1>12. CASE Fill(p)
  BY <1>0, <1>12, GotoBorn
     DEF Fill, PurgeLabels
<1>13. CASE FillNext(p)
  <2>1. CASE Goto(p, "fill.end", loc[p])
    BY <1>0, <2>1, GotoBorn DEF PurgeLabels
  <2>2. CASE \E t \in Tasks : /\ NextWaiting(t)
                            /\ Call(p, "start", "fill.started", [loc[p] EXCEPT !.cur = t])
    <3>1. \A t \in Tasks : NextWaiting(t) => t \in Born
      BY <1>0, NoneAssumption DEF NextWaiting, Held, Statuses
    <3> QED
      BY <1>0, <2>2, <3>1, CallBorn, LocalsType, BornLocals DEF Entries
  <2> QED
    BY <1>13, <2>1, <2>2 DEF FillNext
<1>14. CASE FillStarted(p)
  BY <1>0, <1>14, CallBorn, SucceedFailBorn, LocalsType, BornLocals
     DEF FillStarted, Entries
<1>15. CASE FillEnd(p)
  BY <1>0, <1>15, GotoBorn, SucceedFailBorn, LocalsType, BornLocals
     DEF FillEnd, PurgeLabels
<1> QED
  BY <1>1, <1>2, <1>3, <1>4, <1>5, <1>6, <1>7, <1>8, <1>9, <1>10, <1>11,
     <1>12, <1>13, <1>14, <1>15 DEF Helper

LEMMA RemoveStepBorn ==
    ASSUME OrphanInv, Grows, NEW p \in Procs, RemoveStep(p)
    PROVE  ControlBorn' /\ Frame(p)
<1>0. /\ TypeInv /\ ControlBorn /\ Purging /\ Held \subseteq Born
      /\ loc[p] \in Locals /\ OfBorn(loc[p], Born)
  BY DEF OrphanInv, TypeInv, ControlType, ControlBorn, DataBorn
<1>1. CASE RemoveMutexFor(p)
  BY <1>0, <1>1, GotoBorn
     DEF RemoveMutexFor, PurgeLabels
<1>2. CASE RemoveLock(p)
  BY <1>0, <1>2, GotoBorn
     DEF RemoveLock, PurgeLabels
<1>3. CASE RemoveStillThere(p)
  BY <1>0, <1>3, GotoBorn
     DEF RemoveStillThere, PurgeLabels
<1>4. CASE RemoveDriver(p)
  <2>1. CASE DriverHas(Arg(p))
    <3>1. Arg(p) \in drvRemoved'
      BY <1>4, <2>1 DEF RemoveDriver, DriverRemove
    <3> QED
      BY <1>0, <1>4, <2>1, <3>1, GotoBorn, FreshBorn, NoLocalsType DEF RemoveDriver, Arg, PurgeLabels
  <2>2. CASE ~DriverHas(Arg(p))
    <3>1. Arg(p) \in drvRemoved \cup {None} /\ drvRemoved' = drvRemoved
      BY <1>0, <1>4, <2>2 DEF RemoveDriver, DriverKnows, DriverHas, OfBorn, Born, Arg, driverVars
    <3> QED
      BY <1>0, <1>4, <2>2, <3>1, GotoBorn, NoLocalsType DEF RemoveDriver, Arg, PurgeLabels
  <2> QED
    BY <2>1, <2>2
<1>5. CASE RemoveTell(p)
  <2>1. loc[p].arg \in drvRemoved' \cup {None}
    BY <1>0, <1>5 DEF RemoveTell, At, Purging, PurgeLabels, Grows
  <2> QED
    BY <1>0, <1>5, <2>1, GotoBorn DEF RemoveTell, PurgeLabels
<1>6. CASE RemoveDetach(p)
  <2>1. loc[p].arg \in drvRemoved' \cup {None}
    BY <1>0, <1>6 DEF RemoveDetach, At, Purging, PurgeLabels, Grows
  <2> QED
    BY <1>0, <1>6, <2>1, GotoBorn DEF RemoveDetach, PurgeLabels
<1>7. CASE RemovePurge(p)
  BY <1>0, <1>7, CallBorn
     DEF RemovePurge, Entries
<1>8. CASE RemoveFill(p)
  BY <1>0, <1>8, CallBorn
     DEF RemoveFill, Entries
<1>9. CASE RemoveUnlock(p)
  BY <1>0, <1>9, GotoBorn
     DEF RemoveUnlock, PurgeLabels
<1>10. CASE RemoveForget(p)
  BY <1>0, <1>10, SucceedFailBorn
     DEF RemoveForget
<1> QED
  BY <1>1, <1>2, <1>3, <1>4, <1>5, <1>6, <1>7, <1>8, <1>9, <1>10 DEF
     RemoveStep

LEMMA CallStepBorn ==
    ASSUME OrphanInv, Grows, NEW p \in Procs, CallStep(p)
    PROVE  ControlBorn' /\ Frame(p)
<1>0. /\ TypeInv /\ ControlBorn /\ Purging /\ Held \subseteq Born
      /\ loc[p] \in Locals /\ OfBorn(loc[p], Born)
  BY DEF OrphanInv, TypeInv, ControlType, ControlBorn, DataBorn
<1>1. CASE AddStore(p)
  BY <1>0, <1>1, GotoBorn
     DEF AddStore, PurgeLabels
<1>2. CASE AddMode(p)
  BY <1>0, <1>2, GotoBorn, CallBorn
     DEF AddMode, PurgeLabels, Entries
<1>3. CASE AddStarted(p)
  BY <1>0, <1>3, CallBorn, SucceedFailBorn
     DEF AddStarted, Entries
<1>4. CASE AddPaused(p)
  BY <1>0, <1>4, GotoBorn, SucceedFailBorn
     DEF AddPaused, PurgeLabels
<1>5. CASE AddSave(p)
  BY <1>0, <1>5, GotoBorn
     DEF AddSave, PurgeLabels
<1>6. CASE PauseDriver(p)
  BY <1>0, <1>6, GotoBorn, DriverFailsBorn
     DEF PauseDriver, PurgeLabels
<1>7. CASE PauseTell(p)
  <2>1. CASE DriverKnows(Cur(p))
    BY <1>0, <1>7, <2>1, TellType, BornLocals, GotoBorn DEF PauseTell, StoreLabels, PurgeLabels
  <2>2. CASE ~DriverKnows(Cur(p))
    BY <1>0, <1>7, <2>2, SucceedFailBorn DEF PauseTell
  <2> QED
    BY <2>1, <2>2
<1>8. CASE PauseStore(p)
  BY <1>0, <1>8, SucceedFailBorn
     DEF PauseStore
<1>9. CASE PauseSave(p)
  BY <1>0, <1>9, CallBorn, SucceedFailBorn
     DEF PauseSave, Entries
<1>10. CASE PauseFill(p)
  BY <1>0, <1>10, GotoBorn
     DEF PauseFill, PurgeLabels
<1>11. CASE PauseAllLoop(p)
  BY <1>0, <1>11, GotoBorn, CallBorn, LocalsType, BornLocals
     DEF PauseAllLoop, PurgeLabels, Entries
<1>12. CASE PauseTaskByID(p)
  BY <1>0, <1>12, GotoBorn, SucceedFailBorn
     DEF PauseTaskByID, PurgeLabels
<1>13. CASE PauseAllSave(p)
  BY <1>0, <1>13, GotoBorn, CallBorn, SucceedFailBorn
     DEF PauseAllSave, PurgeLabels, Entries
<1>14. CASE UnpauseSync(p)
  BY <1>0, <1>14, CallBorn, SucceedFailBorn
     DEF UnpauseSync, Entries
<1>15. CASE UnpauseSave(p)
  BY <1>0, <1>15, GotoBorn, SucceedFailBorn
     DEF UnpauseSave, PurgeLabels
<1>16. CASE UnpauseAllLoop(p)
  BY <1>0, <1>16, GotoBorn, CallBorn, LocalsType, BornLocals
     DEF UnpauseAllLoop, PurgeLabels, Entries
<1>17. CASE UnpauseAllSave(p)
  BY <1>0, <1>17, GotoBorn, CallBorn, SucceedFailBorn
     DEF UnpauseAllSave, PurgeLabels, Entries
<1>18. CASE ChangeOptionDriver(p)
  BY <1>0, <1>18, CallBorn, DriverFailsBorn
     DEF ChangeOptionDriver, Entries
<1>19. CASE ChangeOptionSave(p)
  BY <1>0, <1>19, GotoBorn, SucceedFailBorn
     DEF ChangeOptionSave, PurgeLabels
<1>20. CASE ResultCheck(p)
  BY <1>0, <1>20, GotoBorn, SucceedFailBorn
     DEF ResultCheck, PurgeLabels
<1>21. CASE ResultDriver(p)
  <2>1. CASE DriverHas(Arg(p))
    <3>1. Arg(p) \in drvRemoved'
      BY <1>21, <2>1 DEF ResultDriver, DriverRemove
    <3> QED
      BY <1>0, <1>21, <2>1, <3>1, GotoBorn, FreshBorn, NoLocalsType DEF ResultDriver, Arg, PurgeLabels
  <2>2. CASE ~DriverHas(Arg(p))
    <3>1. Arg(p) \in drvRemoved \cup {None} /\ drvRemoved' = drvRemoved
      BY <1>0, <1>21, <2>2 DEF ResultDriver, DriverKnows, DriverHas, OfBorn, Born, Arg, driverVars
    <3> QED
      BY <1>0, <1>21, <2>2, <3>1, GotoBorn, NoLocalsType DEF ResultDriver, Arg, PurgeLabels
  <2> QED
    BY <2>1, <2>2
<1>22. CASE ResultDetach(p)
  <2>1. loc[p].arg \in drvRemoved' \cup {None}
    BY <1>0, <1>22 DEF ResultDetach, At, Purging, PurgeLabels, Grows
  <2> QED
    BY <1>0, <1>22, <2>1, GotoBorn DEF ResultDetach, PurgeLabels
<1>23. CASE ResultPurge(p)
  BY <1>0, <1>23, GotoBorn, CallBorn
     DEF ResultPurge, PurgeLabels, Entries
<1>24. CASE PurgeAllLoop(p)
  <2>1. CASE loc[p].todo = {}
    BY <1>0, <1>24, <2>1, SucceedFailBorn DEF PurgeAllLoop
  <2>2. CASE loc[p].todo # {}
    <3>1. PICK t \in loc[p].todo :
             Call(p, "sync", "purgeAll.check", [For(t) EXCEPT !.todo = loc[p].todo \ {t}])
      BY <1>24, <2>2 DEF PurgeAllLoop
    <3>2. /\ t \in Tasks /\ loc[p].todo \ {t} \in SUBSET Tasks
          /\ t \in Born /\ loc[p].todo \ {t} \in SUBSET Born
      BY <1>0 DEF Locals, OfBorn
    <3> QED
      BY <1>0, <3>1, <3>2, CallBorn, FreshLocalsType, FreshBorn DEF Entries
  <2> QED
    BY <2>1, <2>2
<1>25. CASE PurgeAllCheck(p)
  BY <1>0, <1>25, GotoBorn
     DEF PurgeAllCheck, PurgeLabels
<1>26. CASE PurgeAllLookup(p)
  BY <1>0, <1>26, GotoBorn
     DEF PurgeAllLookup, PurgeLabels
<1>27. CASE SyncActiveLoop(p)
  BY <1>0, <1>27, CallBorn, SucceedFailBorn, LocalsType, BornLocals
     DEF SyncActiveLoop, Entries
<1>28. CASE SyncActiveDone(p)
  BY <1>0, <1>28, GotoBorn, CallBorn, SucceedFailBorn
     DEF SyncActiveDone, PurgeLabels, Entries
<1> QED
  BY <1>1, <1>2, <1>3, <1>4, <1>5, <1>6, <1>7, <1>8, <1>9, <1>10, <1>11,
     <1>12, <1>13, <1>14, <1>15, <1>16, <1>17, <1>18, <1>19, <1>20, <1>21,
     <1>22, <1>23, <1>24, <1>25, <1>26, <1>27, <1>28 DEF CallStep

LEMMA BeginBorn ==
    ASSUME OrphanInv, Grows, NEW p \in Procs, Begin(p)
    PROVE  ControlBorn' /\ Frame(p)
<1>0. /\ TypeInv /\ ControlBorn /\ Purging /\ Held \subseteq Born
      /\ loc[p] \in Locals /\ OfBorn(loc[p], Born)
  BY DEF OrphanInv, TypeInv, ControlType, ControlBorn, DataBorn
<1>1. CASE Add(p)
  <2>1. PICK t \in Tasks \ Born : /\ drv' = [drv EXCEPT ![t] = "waiting"]
                                  /\ Goto(p, "add.store", For(t))
    BY <1>1 DEF Add
  <2>2. drv \in [Tasks -> Statuses \cup {None}] /\ "waiting" # None
    BY <1>0, NoneAssumption DEF TypeInv, DataType, Statuses
  <2>3. t \in Born'
    BY <2>1, <2>2 DEF Born
  <2>4. /\ pc' = [pc EXCEPT ![p] = "add.store"] /\ pc \in [Procs -> Labels]
        /\ loc' = [loc EXCEPT ![p] = For(t)] /\ loc \in [Procs -> Locals]
    BY <1>0, <2>1 DEF Goto, TypeInv, ControlType
  <2>5. Frame(p)
    BY <2>4 DEF Frame
  <2>6. Purging'
    BY <1>0, <2>4 DEF ControlBorn, Purging, Grows, PurgeLabels
  <2>7. \A q \in Procs : OfBorn(loc'[q], Born')
    <3>1. OfBorn(For(t), Born')
      BY <2>3, FreshBorn
    <3> QED
      BY <1>0, <2>4, <3>1 DEF ControlBorn, OfBorn, Grows
  <2> QED
    BY <2>5, <2>6, <2>7 DEF ControlBorn, OfBorn
<1>2. CASE Remove(p)
  <2>1. \A t \in Tasks : Lookup(p, "remove", t) => t \in Born
    BY <1>0 DEF Lookup
  <2> QED
    BY <1>0, <1>2, <2>1, GotoBorn, FreshLocalsType, FreshBorn
       DEF Remove, PurgeLabels
<1>3. CASE Pause(p)
  <2>1. \A t \in Tasks : Lookup(p, "pause", t) => t \in Born
    BY <1>0 DEF Lookup
  <2> QED
    BY <1>0, <1>3, <2>1, CallBorn, FreshLocalsType, FreshBorn
       DEF Pause, Entries
<1>4. CASE PauseAll(p)
  <2>1. With({"active", "waiting"}) \in SUBSET Tasks /\ With({"active", "waiting"}) \subseteq Born
    BY <1>0, NoneAssumption DEF With, Held, Statuses
  <2>2. /\ [NoLocals EXCEPT !.todo = With({"active", "waiting"})] \in Locals
        /\ OfBorn([NoLocals EXCEPT !.todo = With({"active", "waiting"})], Born)
    BY <2>1, FreshLocalsType, FreshBorn
  <2> QED
    BY <1>0, <1>4, <2>2, GotoBorn DEF PauseAll, PurgeLabels
<1>5. CASE Unpause(p)
  <2>1. \A t \in Tasks : Lookup(p, "unpause", t) => t \in Born
    BY <1>0 DEF Lookup
  <2> QED
    BY <1>0, <1>5, <2>1, CallBorn, FreshLocalsType, FreshBorn
       DEF Unpause, Entries
<1>6. CASE UnpauseAll(p)
  <2>1. With({"paused"}) \in SUBSET Tasks /\ With({"paused"}) \subseteq Born
    BY <1>0, NoneAssumption DEF With, Held, Statuses
  <2>2. /\ [NoLocals EXCEPT !.todo = With({"paused"})] \in Locals
        /\ OfBorn([NoLocals EXCEPT !.todo = With({"paused"})], Born)
    BY <2>1, FreshLocalsType, FreshBorn
  <2> QED
    BY <1>0, <1>6, <2>2, GotoBorn DEF UnpauseAll, PurgeLabels
<1>7. CASE ChangeOption(p)
  <2>1. \A t \in Tasks : Lookup(p, "changeOption", t) => t \in Born
    BY <1>0 DEF Lookup
  <2> QED
    BY <1>0, <1>7, <2>1, GotoBorn, FreshLocalsType, FreshBorn
       DEF ChangeOption, PurgeLabels
<1>8. CASE RemoveDownloadResult(p)
  <2>1. \A t \in Tasks : Lookup(p, "removeResult", t) => t \in Born
    BY <1>0 DEF Lookup
  <2> QED
    BY <1>0, <1>8, <2>1, CallBorn, FreshLocalsType, FreshBorn
       DEF RemoveDownloadResult, Entries
<1>9. CASE PurgeDownloadResult(p)
  <2>1. Held \in SUBSET Tasks /\ Held \subseteq Born
    BY <1>0, NoneAssumption DEF With, Held, Statuses
  <2>2. /\ [NoLocals EXCEPT !.todo = Held] \in Locals
        /\ OfBorn([NoLocals EXCEPT !.todo = Held], Born)
    BY <2>1, FreshLocalsType, FreshBorn
  <2> QED
    BY <1>0, <1>9, <2>2, GotoBorn DEF PurgeDownloadResult, PurgeLabels
<1>10. CASE TellStatus(p)
  <2>1. \A t \in Tasks : Lookup(p, "tellStatus", t) => t \in Born
    BY <1>0 DEF Lookup
  <2> QED
    BY <1>0, <1>10, <2>1, GotoBorn, FreshLocalsType, FreshBorn
       DEF TellStatus, PurgeLabels
<1>11. CASE SyncActive(p)
  <2>1. With({"active"}) \in SUBSET Tasks /\ With({"active"}) \subseteq Born
    BY <1>0, NoneAssumption DEF With, Held, Statuses
  <2>2. /\ [NoLocals EXCEPT !.todo = With({"active"})] \in Locals
        /\ OfBorn([NoLocals EXCEPT !.todo = With({"active"})], Born)
    BY <2>1, FreshLocalsType, FreshBorn
  <2> QED
    BY <1>0, <1>11, <2>2, GotoBorn DEF SyncActive, PurgeLabels
<1>12. CASE SaveSession(p)
  BY <1>0, <1>12, GotoBorn, FreshLocalsType, NoLocalsType, FreshBorn
     DEF SaveSession, PurgeLabels
<1> QED
  BY <1>1, <1>2, <1>3, <1>4, <1>5, <1>6, <1>7, <1>8, <1>9, <1>10, <1>11, <1>12
     DEF Begin

\* A step that leaves nobody unrecorded who was recorded.
LEMMA RecordedKept ==
    ASSUME OrphanInv, NEW p \in Procs, pc[p] # "add.store", Frame(p),
           Held \subseteq Held' \cup drvRemoved', drvRemoved \subseteq drvRemoved',
           \A t \in Tasks : drv'[t] # None => drv[t] # None
    PROVE  Recorded'
<1> SUFFICES ASSUME NEW t \in Tasks, t \notin Held', drv'[t] # None, t \notin drvRemoved'
             PROVE  BeingAdded(t)'
  BY DEF Recorded
<1>1. BeingAdded(t)
  BY DEF OrphanInv, DataBorn, Recorded
<1> QED
  BY <1>1 DEF BeingAdded, Frame

LEMMA SameData ==
    ASSUME OrphanInv, NEW p \in Procs, pc[p] # "add.store",
           UNCHANGED <<tasks, drv, drvRemoved>>
    PROVE  Grows /\ (Frame(p) => DataBorn')
<1>1. Grows /\ Held' = Held /\ Born' = Born
  BY DEF Grows, Held, Born
<1>2. Sticky'
  BY DEF OrphanInv, DataBorn, Sticky
<1> QED
  BY <1>1, <1>2, RecordedKept DEF OrphanInv, DataBorn

LEMMA StoreData ==
    ASSUME OrphanInv, NEW p \in Procs, pc[p] \in StoreLabels,
           StoreTask(Cur(p), loc[p].got), UNCHANGED driverVars
    PROVE  Grows /\ (Frame(p) => DataBorn')
<1>1. Cur(p) \in Born /\ Cur(p) \in Tasks /\ loc[p].got # None
  BY NoneAssumption DEF OrphanInv, TypeInv, ControlType, ControlBorn, StepNeeds, OfBorn, Cur
<1>2. Grows /\ Held' = Held \cup {Cur(p)} /\ Born' = Born
  BY <1>1 DEF Grows, Held, Born, StoreTask, driverVars, OrphanInv, TypeInv, DataType
<1>3. Sticky'
  BY DEF OrphanInv, DataBorn, Sticky, driverVars
<1>4. pc[p] # "add.store"
  BY DEF StoreLabels
<1> QED
  BY <1>1, <1>2, <1>3, <1>4, RecordedKept DEF OrphanInv, DataBorn, driverVars

LEMMA UseData ==
    ASSUME OrphanInv, NEW p \in Procs, pc[p] # "add.store", NEW t, DriverUsable(t),
           DriverStart(t) \/ DriverPause(t) \/ UNCHANGED driverVars, UNCHANGED tasks
    PROVE  Grows /\ (Frame(p) => DataBorn')
<1>1. /\ t \in Tasks /\ t \notin drvRemoved /\ drv[t] # None
      /\ drv \in [Tasks -> Statuses \cup {None}]
  BY DEF DriverUsable, DriverKnows, DriverHas, OrphanInv, TypeInv, DataType
<1>2. /\ drvRemoved' = drvRemoved
      /\ \A u \in Tasks : /\ drv'[u] # None <=> drv[u] # None
                          /\ u # t => drv'[u] = drv[u]
  BY <1>1, NoneAssumption DEF DriverStart, DriverPause, driverVars, Statuses
<1>3. Grows /\ Held' = Held /\ Born' = Born
  BY <1>2 DEF Grows, Held, Born
<1>4. Sticky'
  BY <1>1, <1>2 DEF OrphanInv, DataBorn, Sticky, TypeInv, DataType
<1> QED
  BY <1>2, <1>3, <1>4, RecordedKept DEF OrphanInv, DataBorn

LEMMA RemoveData ==
    ASSUME OrphanInv, NEW p \in Procs, pc[p] # "add.store", NEW t,
           DriverHas(t), DriverRemove(t), UNCHANGED tasks
    PROVE  Grows /\ (Frame(p) => DataBorn')
<1>1. t \in Tasks /\ drv[t] # None /\ drv \in [Tasks -> Statuses \cup {None}]
  BY DEF DriverKnows, DriverHas, OrphanInv, TypeInv, DataType
<1>2. drvRemoved' = drvRemoved \cup {t} /\ drv' = [drv EXCEPT ![t] = "removed"]
  BY DEF DriverRemove
<1>3. \A u \in Tasks : drv'[u] # None => drv[u] # None
  BY <1>1, <1>2
<1>4. Grows /\ Held' = Held /\ Born' = Born
  BY <1>1, <1>2, NoneAssumption DEF Grows, Held, Born, Statuses
<1>5. Sticky'
  BY <1>1, <1>2 DEF OrphanInv, DataBorn, Sticky, TypeInv, DataType
<1> QED
  BY <1>2, <1>3, <1>4, <1>5, RecordedKept DEF OrphanInv, DataBorn

LEMMA DetachData ==
    ASSUME OrphanInv, NEW p \in Procs, pc[p] \in PurgeLabels, Detach(Arg(p)),
           UNCHANGED driverVars
    PROVE  Grows /\ (Frame(p) => DataBorn')
<1>1. Arg(p) \in drvRemoved \cup {None} /\ pc[p] # "add.store"
  BY DEF OrphanInv, ControlBorn, Purging, PurgeLabels, Arg
<1>2. Held' \subseteq Held /\ Held \subseteq Held' \cup drvRemoved
  BY <1>1, NoneAssumption DEF Detach, Held, OrphanInv, TypeInv, DataType
<1>3. Grows /\ Born' = Born
  BY DEF Grows, Born, driverVars
<1>4. Sticky'
  BY DEF OrphanInv, DataBorn, Sticky, driverVars
<1> QED
  BY <1>1, <1>2, <1>3, <1>4, RecordedKept DEF OrphanInv, DataBorn, driverVars

LEMMA PurgeData ==
    ASSUME OrphanInv, NEW p \in Procs, pc[p] \in PurgeLabels, DriverPurge(Arg(p)),
           UNCHANGED tasks
    PROVE  Grows /\ (Frame(p) => DataBorn')
<1>1. Arg(p) \in drvRemoved \cup {None} /\ pc[p] # "add.store"
  BY DEF OrphanInv, ControlBorn, Purging, PurgeLabels, Arg
<1>2. drvRemoved' = drvRemoved /\ drv' = [drv EXCEPT ![Arg(p)] = None]
  BY DEF DriverPurge
<1>3. \A u \in Tasks : drv'[u] # None => drv'[u] = drv[u]
  BY <1>2 DEF OrphanInv, TypeInv, DataType
<1>4. Grows /\ Held' = Held /\ Born' = Born
  BY <1>1, <1>2, NoneAssumption DEF Grows, Held, Born, OrphanInv, TypeInv, DataType
<1>5. Sticky'
  BY <1>2, <1>3 DEF OrphanInv, DataBorn, Sticky, TypeInv, DataType
<1> QED
  BY <1>1, <1>2, <1>3, <1>4, <1>5, RecordedKept DEF OrphanInv, DataBorn

LEMMA AddData ==
    ASSUME OrphanInv, NEW p \in Procs, Add(p)
    PROVE  Grows /\ DataBorn'
<1>1. PICK t \in Tasks \ Born : /\ drv' = [drv EXCEPT ![t] = "waiting"]
                                /\ Goto(p, "add.store", For(t))
  BY DEF Add
<1>2. /\ tasks' = tasks /\ drvRemoved' = drvRemoved /\ pc[p] = "idle"
      /\ drv \in [Tasks -> Statuses \cup {None}]
  BY DEF Add, At, managerVars, OrphanInv, TypeInv, DataType
<1>3. Grows /\ Held' = Held /\ Born \subseteq Born'
  BY <1>1, <1>2, NoneAssumption DEF Grows, Held, Born, Statuses
<1>4. Sticky'
  BY <1>1, <1>2 DEF OrphanInv, DataBorn, Sticky, Born, TypeInv, DataType
<1>5. /\ pc' = [pc EXCEPT ![p] = "add.store"] /\ loc' = [loc EXCEPT ![p] = For(t)]
      /\ pc \in [Procs -> Labels] /\ loc \in [Procs -> Locals] /\ For(t).arg = t
  BY <1>1, FreshLocalsType DEF Goto, OrphanInv, TypeInv, ControlType
<1>6. BeingAdded(t)'
  BY <1>5 DEF BeingAdded
<1>7. \A u \in Tasks : BeingAdded(u) => BeingAdded(u)'
  BY <1>2, <1>5 DEF BeingAdded
<1>8. Recorded'
  BY <1>1, <1>2, <1>3, <1>6, <1>7 DEF OrphanInv, DataBorn, Recorded
<1> QED
  BY <1>3, <1>4, <1>8 DEF OrphanInv, DataBorn

LEMMA AddStoreData ==
    ASSUME OrphanInv, NEW p \in Procs, AddStore(p)
    PROVE  Grows /\ (Frame(p) => DataBorn')
<1>1. /\ Arg(p) \in Tasks /\ Arg(p) \in Born
      /\ tasks' = [tasks EXCEPT ![Arg(p)] = "waiting"] /\ UNCHANGED <<drv, drvRemoved>>
      /\ tasks \in [Tasks -> Statuses \cup {None}]
  BY NoneAssumption DEF AddStore, At, OrphanInv, TypeInv, ControlType, DataType, ControlBorn,
     StepNeeds, OfBorn, Arg, driverVars
<1>2. Grows /\ Held' = Held \cup {Arg(p)} /\ Born' = Born
  BY <1>1, NoneAssumption DEF Grows, Held, Born, Statuses
<1>3. Sticky'
  BY <1>1 DEF OrphanInv, DataBorn, Sticky
<1>4. ASSUME Frame(p), NEW t \in Tasks, t \notin Held', drv'[t] # None
      PROVE  t \in drvRemoved' \/ BeingAdded(t)'
  <2>1. t \in drvRemoved \/ BeingAdded(t)
    BY <1>1, <1>2, <1>4 DEF OrphanInv, DataBorn, Recorded
  <2>2. t # Arg(p)
    BY <1>2, <1>4
  <2> QED
    BY <1>1, <1>4, <2>1, <2>2 DEF BeingAdded, Frame, Arg
<1> QED
  BY <1>1, <1>2, <1>3, <1>4 DEF OrphanInv, DataBorn, Recorded

LEMMA HelperOrphan ==
    ASSUME OrphanInv, NEW p \in Procs, Helper(p)
    PROVE  Grows /\ (Frame(p) => DataBorn')
<1>1. CASE OnlyControl /\ pc[p] # "add.store"
  BY <1>1, SameData DEF OnlyControl, managerVars, driverVars
<1>2. CASE SyncStore(p)
  BY <1>2, StoreData DEF SyncStore, At, StoreLabels
<1>3. CASE StartDriver(p)
  <2>1. CASE DriverUsable(Cur(p))
    BY <1>3, <2>1, UseData DEF StartDriver, At, managerVars
  <2>2. CASE ~DriverUsable(Cur(p))
    BY <1>3, <2>2, SameData DEF StartDriver, At, managerVars, driverVars
  <2> QED
    BY <2>1, <2>2
<1>4. CASE StartStore(p)
  BY <1>4, StoreData DEF StartStore, At, StoreLabels
<1>5. CASE SaveWrite(p)
  BY <1>5, SameData DEF SaveWrite, At, managerVars, driverVars
<1> QED
  BY <1>1, <1>2, <1>3, <1>4, <1>5 DEF Helper, Sync, SyncTell, Start,
     StartTell, Save, SaveNext, SaveGot, Fill, FillNext, FillStarted, FillEnd,
     At

LEMMA RemoveStepOrphan ==
    ASSUME OrphanInv, NEW p \in Procs, RemoveStep(p)
    PROVE  Grows /\ (Frame(p) => DataBorn')
<1>1. CASE OnlyControl /\ pc[p] # "add.store"
  BY <1>1, SameData DEF OnlyControl, managerVars, driverVars
<1>2. CASE RemoveMutexFor(p)
  BY <1>2, SameData DEF RemoveMutexFor, At, managerVars, driverVars
<1>3. CASE RemoveLock(p)
  BY <1>3, SameData DEF RemoveLock, At, managerVars, driverVars
<1>4. CASE RemoveDriver(p)
  <2>1. CASE DriverHas(Arg(p))
    BY <1>4, <2>1, RemoveData DEF RemoveDriver, At, managerVars
  <2>2. CASE ~DriverHas(Arg(p))
    BY <1>4, <2>2, SameData DEF RemoveDriver, At, managerVars, driverVars
  <2> QED
    BY <2>1, <2>2
<1>5. CASE RemoveDetach(p)
  BY <1>5, DetachData DEF RemoveDetach, At, PurgeLabels
<1>6. CASE RemovePurge(p)
  BY <1>6, PurgeData DEF RemovePurge, At, PurgeLabels, managerVars
<1>7. CASE RemoveUnlock(p)
  BY <1>7, SameData DEF RemoveUnlock, At, managerVars, driverVars
<1>8. CASE RemoveForget(p)
  BY <1>8, SameData DEF RemoveForget, At, managerVars, driverVars
<1> QED
  BY <1>1, <1>2, <1>3, <1>4, <1>5, <1>6, <1>7, <1>8 DEF RemoveStep,
     RemoveStillThere, RemoveTell, RemoveFill, At, Lookup

LEMMA CallStepOrphan ==
    ASSUME OrphanInv, NEW p \in Procs, CallStep(p)
    PROVE  Grows /\ (Frame(p) => DataBorn')
<1>1. CASE OnlyControl /\ pc[p] # "add.store"
  BY <1>1, SameData DEF OnlyControl, managerVars, driverVars
<1>2. CASE AddStore(p)
  BY <1>2, AddStoreData
<1>3. CASE PauseDriver(p)
  <2>1. CASE DriverUsable(Cur(p))
    BY <1>3, <2>1, UseData DEF PauseDriver, At, managerVars
  <2>2. CASE ~DriverUsable(Cur(p))
    BY <1>3, <2>2, SameData DEF PauseDriver, At, managerVars, driverVars
  <2> QED
    BY <2>1, <2>2
<1>4. CASE PauseStore(p)
  BY <1>4, StoreData DEF PauseStore, At, StoreLabels
<1>5. CASE ChangeOptionDriver(p)
  <2>1. CASE DriverUsable(Arg(p))
    BY <1>5, <2>1, UseData DEF ChangeOptionDriver, At, managerVars
  <2>2. CASE ~DriverUsable(Arg(p))
    BY <1>5, <2>2, SameData DEF ChangeOptionDriver, At, managerVars, driverVars
  <2> QED
    BY <2>1, <2>2
<1>6. CASE ResultDriver(p)
  <2>1. CASE DriverHas(Arg(p))
    BY <1>6, <2>1, RemoveData DEF ResultDriver, At, managerVars
  <2>2. CASE ~DriverHas(Arg(p))
    BY <1>6, <2>2, SameData DEF ResultDriver, At, managerVars, driverVars
  <2> QED
    BY <2>1, <2>2
<1>7. CASE ResultDetach(p)
  BY <1>7, DetachData DEF ResultDetach, At, PurgeLabels
<1>8. CASE ResultPurge(p)
  BY <1>8, PurgeData DEF ResultPurge, At, PurgeLabels, managerVars
<1> QED
  BY <1>1, <1>2, <1>3, <1>4, <1>5, <1>6, <1>7, <1>8 DEF CallStep, AddMode,
     AddStarted, AddPaused, AddSave, PauseTell, PauseSave, PauseFill,
     PauseAllLoop, PauseTaskByID, PauseAllSave, UnpauseSync, UnpauseSave,
     UnpauseAllLoop, UnpauseAllSave, ChangeOptionSave, ResultCheck,
     PurgeAllLoop, PurgeAllCheck, PurgeAllLookup, SyncActiveLoop,
     SyncActiveDone, At

LEMMA BeginOrphan ==
    ASSUME OrphanInv, NEW p \in Procs, Begin(p)
    PROVE  Grows /\ (Frame(p) => DataBorn')
<1>1. CASE OnlyControl /\ pc[p] # "add.store"
  BY <1>1, SameData DEF OnlyControl, managerVars, driverVars
<1>2. CASE Add(p)
  BY <1>2, AddData
<1> QED
  BY <1>1, <1>2 DEF Begin, Remove, Pause, PauseAll, Unpause, UnpauseAll,
     ChangeOption, RemoveDownloadResult, PurgeDownloadResult, TellStatus,
     SyncActive, SaveSession, At, Lookup

LEMMA FinishOrphan ==
    ASSUME OrphanInv, NEW t \in Tasks, Finish(t)
    PROVE  ControlBorn' /\ DataBorn'
<1>1. PICK s \in FinishStatus : drv' = [drv EXCEPT ![t] = s]
  BY DEF Finish
<1>2. /\ s # None /\ drv[t] = "active" /\ t \notin drvRemoved
      /\ drv \in [Tasks -> Statuses \cup {None}]
      /\ UNCHANGED <<tasks, drvRemoved, pc, loc>>
  BY BoundAssumption, NoneAssumption DEF Finish, Statuses, managerVars, controlVars,
     OrphanInv, DataBorn, Sticky, TypeInv, DataType
<1>3. Held' = Held /\ Born' = Born
  BY <1>1, <1>2, NoneAssumption DEF Held, Born, Statuses
<1>4. \A u \in Tasks : drv'[u] # None <=> drv[u] # None
  BY <1>1, <1>2, NoneAssumption DEF Statuses
<1>5. ControlBorn'
  BY <1>2, <1>3 DEF OrphanInv, ControlBorn, Purging
<1>6. Sticky'
  BY <1>1, <1>2 DEF OrphanInv, DataBorn, Sticky, TypeInv, DataType
<1>7. Recorded'
  BY <1>2, <1>3, <1>4 DEF OrphanInv, DataBorn, Recorded, BeingAdded
<1> QED
  BY <1>3, <1>5, <1>6, <1>7 DEF OrphanInv, DataBorn

LEMMA LoseOrphan ==
    ASSUME OrphanInv, NEW t \in Tasks, Lose(t)
    PROVE  ControlBorn' /\ DataBorn'
<1>1. UNCHANGED <<tasks, drv, drvRemoved, pc, loc>>
  BY DEF Lose, managerVars, controlVars
<1>2. Held' = Held /\ Born' = Born
  BY <1>1 DEF Held, Born
<1>3. ControlBorn'
  BY <1>1, <1>2 DEF OrphanInv, ControlBorn, Purging
<1>4. Sticky' /\ Recorded'
  BY <1>1, <1>2 DEF OrphanInv, DataBorn, Sticky, Recorded, BeingAdded
<1> QED
  BY <1>2, <1>3, <1>4 DEF OrphanInv, DataBorn

LEMMA InitOrphan == Init => OrphanInv
<1> SUFFICES ASSUME Init PROVE OrphanInv
  OBVIOUS
<1>1. TypeInv
  BY InitType
<1>2. Held \subseteq Born /\ Sticky /\ Recorded
  BY DEF Init, Held, Born, Sticky, Recorded
<1>3. ControlBorn
  BY FreshBorn DEF Init, ControlBorn, Purging, PurgeLabels
<1> QED
  BY <1>1, <1>2, <1>3 DEF OrphanInv, DataBorn

LEMMA NextOrphan == OrphanInv /\ [Next]_vars => OrphanInv'
<1> SUFFICES ASSUME OrphanInv, [Next]_vars PROVE OrphanInv'
  OBVIOUS
<1>1. TypeInv'
  BY NextType DEF OrphanInv
<1>2. ASSUME NEW p \in Procs, Begin(p) PROVE ControlBorn' /\ DataBorn'
  BY <1>2, BeginBorn, BeginOrphan
<1>3. ASSUME NEW p \in Procs, Helper(p) PROVE ControlBorn' /\ DataBorn'
  BY <1>3, HelperBorn, HelperOrphan
<1>4. ASSUME NEW p \in Procs, RemoveStep(p) PROVE ControlBorn' /\ DataBorn'
  BY <1>4, RemoveStepBorn, RemoveStepOrphan
<1>5. ASSUME NEW p \in Procs, CallStep(p) PROVE ControlBorn' /\ DataBorn'
  BY <1>5, CallStepBorn, CallStepOrphan
<1>6. ASSUME NEW t \in Tasks, Finish(t) \/ Lose(t) PROVE ControlBorn' /\ DataBorn'
  BY <1>6, FinishOrphan, LoseOrphan
<1>7. CASE UNCHANGED vars
  <2>1. UNCHANGED <<tasks, drv, drvRemoved, pc, loc>>
    BY <1>7 DEF vars, managerVars, driverVars, controlVars
  <2> QED
    BY <1>1, <2>1 DEF OrphanInv, ControlBorn, DataBorn, Purging, Sticky, Recorded, BeingAdded,
       Held, Born, OfBorn
<1>8. ASSUME NEW p \in Procs, Begin(p) \/ Continue(p) PROVE ControlBorn' /\ DataBorn'
  BY <1>2, <1>3, <1>4, <1>5, <1>8 DEF Continue
<1>9. ControlBorn' /\ DataBorn'
  BY <1>6, <1>7, <1>8 DEF Next, OrphanInv
<1> QED
  BY <1>1, <1>9 DEF OrphanInv

LEMMA OrphanInvariant == Spec => []OrphanInv
  BY InitOrphan, NextOrphan, PTL DEF Spec

\* However many clients race, a download that the manager no longer records is never
\* left running in a driver: Remove, RemoveDownloadResult and PurgeDownloadResult purge
\* the driver only after Driver.Remove, which Start, Unpause and ChangeOption respect.
THEOREM NoOrphans == Spec => []NoOrphanDownload
<1>1. OrphanInv => NoOrphanDownload
  BY NoneAssumption DEF OrphanInv, DataBorn, Recorded, Sticky, NoOrphanDownload, Statuses
<1> QED
  BY <1>1, OrphanInvariant, PTL

-----------------------------------------------------------------------------
(* Removers take turns. *)

RmSteps == {"rm.mutex", "rm.lock", "rm.forget"} \cup RemoveLocked
\* Where the helpers return that Remove calls, at the end of it.
RmReturns == {"rm.fill", "rm.unlock"}
\* SaveSession and fillSlots with the helpers that they call, and where these return.
HelperLabels == {"sync", "sync.tell", "sync.store", "start", "start.driver", "start.tell",
                 "start.store", "save", "save.next", "save.got", "fill", "fill.next",
                 "fill.started", "fill.end"}
HelperReturns == {"save.got", "fill", "fill.started"}
ResultLabels == {"result.check", "result.driver", "result.detach", "result.purge",
                 "purgeAll", "purgeAll.check", "purgeAll.driver"}

\* Goroutine p is in a helper of its Remove.
Nested(p) == \E i \in DOMAIN stack[p] : stack[p][i] \in RmReturns
\* i is the place on the stack where Remove goes on; only its helpers are above it.
Waits(p, i) == /\ stack[p][i] \in RmReturns
               /\ \A j \in DOMAIN stack[p] : j < i => stack[p][j] \in HelperReturns
               /\ \A j \in DOMAIN stack[p] : j > i => stack[p][j] \notin RmReturns
NestInv ==
    /\ \A p \in Procs : Nested(p) => /\ pc[p] \in HelperLabels
                                     /\ \E i \in DOMAIN stack[p] : Waits(p, i)
    /\ RemovesAlone => \A p \in Procs :
          /\ pc[p] \notin ResultLabels
          /\ \A i \in DOMAIN stack[p] : stack[p][i] \notin ResultLabels

\* How far the Remove of goroutine p has come: "late" once the task is purged.
Stage(p) == IF pc[p] \in RmReturns \/ Nested(p) THEN "late"
            ELSE IF pc[p] \in RmSteps THEN pc[p] ELSE "out"
Inside == {"rm.still", "rm.driver", "rm.tell", "rm.detach", "rm.purge", "late"}
PurgedBy(t, p) == Stage(p) = "rm.purge" /\ loc[p].arg = t

\* A goroutine has a mutex from removeMutexFor until it forgets it.
LockInv ==
    /\ \A p \in Procs : Stage(p) # "out" => loc[p].arg \in Tasks
    /\ \A p \in Procs : mutex[p] # None <=> Stage(p) \notin {"out", "rm.mutex"}
    /\ LocksForgotten

\* The removers of a task that its driver still knows wait for one mutex.
OneMutex ==
    /\ \A p \in Procs : Stage(p) \in Inside => holder[mutex[p]] = p
    /\ \A p \in Procs : Stage(p) \in Inside \cup {"rm.lock"} /\ drv[loc[p].arg] # None
                           => mutex[p] = removeLocks[loc[p].arg]
\* The remover that holds it finds the task in the driver until it has purged it, and
\* nobody lets go of the mutex before.
UntilPurged ==
    \A p \in Procs :
        /\ Stage(p) \in {"rm.tell", "rm.detach", "rm.purge"} => drv[loc[p].arg] # None
        /\ Stage(p) \in {"late", "rm.forget"} => drv[loc[p].arg] = None
        /\ Stage(p) # "out" /\ loc[p].arg \notin Held /\ drv[loc[p].arg] # None
              => \E q \in Procs : PurgedBy(loc[p].arg, q)
WonOnce ==
    \A t \in Tasks :
        /\ wins[t] <= 1
        /\ wins[t] > 0 => /\ t \in drvRemoved
                          /\ drv[t] = None \/ \E q \in Procs : PurgedBy(t, q)
TurnInv == OneMutex /\ UntilPurged /\ WonOnce
RemoveInv == OrphanInv /\ NestInv /\ LockInv /\ (RemovesAlone => TurnInv)

LEMMA Labelled ==
    /\ RmReturns \subseteq RmSteps /\ RmReturns \subseteq ReturnLabels
    /\ HelperLabels \cap RmSteps = {} /\ HelperReturns \subseteq HelperLabels
    /\ ReturnLabels \cap RmSteps = RmReturns /\ HelperReturns \subseteq ReturnLabels
    /\ HelperReturns \cap RmReturns = {} /\ "idle" \notin RmSteps \cup HelperLabels
    /\ ResultLabels \cap (HelperLabels \cup RmSteps) = {}
BY DEF RmReturns, RmSteps, RemoveLocked, HelperLabels, HelperReturns, ReturnLabels, ResultLabels

\* Goroutine p goes on with the stage its Remove has reached, if there is one, and with its task.
StageKept(p) == /\ Stage(p)' = Stage(p)
                /\ Stage(p) # "out" => loc'[p].arg = loc[p].arg
\* The others do not move.
Still(p) == \A q \in Procs \ {p} : pc'[q] = pc[q] /\ loc'[q] = loc[q] /\ stack'[q] = stack[q]

LEMMA StillStage ==
    ASSUME NEW p \in Procs, Still(p)
    PROVE  \A q \in Procs \ {p} : StageKept(q)
BY DEF Still, StageKept, Stage, Nested

LEMMA GotoMoves ==
    ASSUME TypeInv, NEW p \in Procs, NEW label, NEW l, Goto(p, label, l)
    PROVE  /\ Still(p) /\ pc'[p] = label /\ loc'[p] = l /\ stack'[p] = stack[p]
           /\ Nested(p)' <=> Nested(p)
BY DEF TypeInv, ControlType, Goto, Still, Nested

LEMMA CallMoves ==
    ASSUME TypeInv, NEW p \in Procs, NEW label, NEW back \in ReturnLabels, NEW l,
           Call(p, label, back, l)
    PROVE  /\ Still(p) /\ pc'[p] = label /\ loc'[p] = l
           /\ DOMAIN stack[p] = 1..Len(stack[p]) /\ Len(stack[p]) \in Nat
           /\ DOMAIN stack'[p] = 1..(Len(stack[p]) + 1)
           /\ stack'[p][1] = back
           /\ \A i \in DOMAIN stack[p] : stack'[p][i + 1] = stack[p][i]
<1>1. stack[p] \in Seq(ReturnLabels) /\ stack'[p] = <<back>> \o stack[p]
  BY DEF TypeInv, ControlType, Call
<1>2. Still(p) /\ pc'[p] = label /\ loc'[p] = l
  BY DEF TypeInv, ControlType, Call, Still
<1>3. /\ DOMAIN stack[p] = 1..Len(stack[p]) /\ Len(stack[p]) \in Nat
      /\ DOMAIN stack'[p] = 1..(Len(stack[p]) + 1)
      /\ stack'[p][1] = back
  BY <1>1
<1>4. \A i \in DOMAIN stack[p] : stack'[p][i + 1] = stack[p][i]
  BY <1>1
<1> QED
  BY <1>2, <1>3, <1>4

LEMMA PopMoves ==
    ASSUME TypeInv, NEW p \in Procs, NEW l, stack[p] # <<>>, Return(p, l)
    PROVE  /\ Still(p) /\ pc'[p] = stack[p][1] /\ loc'[p] = l /\ stack[p][1] \in ReturnLabels
           /\ DOMAIN stack[p] = 1..Len(stack[p]) /\ Len(stack[p]) \in Nat /\ Len(stack[p]) >= 1
           /\ DOMAIN stack'[p] = 1..(Len(stack[p]) - 1)
           /\ \A i \in DOMAIN stack'[p] : stack'[p][i] = stack[p][i + 1]
<1>1. stack[p] \in Seq(ReturnLabels) /\ stack'[p] = Tail(stack[p])
  BY DEF TypeInv, ControlType, Return
<1>2. Still(p) /\ pc'[p] = Head(stack[p]) /\ loc'[p] = l
  BY DEF TypeInv, ControlType, Return, Still
<1>3. /\ DOMAIN stack[p] = 1..Len(stack[p]) /\ Len(stack[p]) \in Nat /\ Len(stack[p]) >= 1
      /\ DOMAIN stack'[p] = 1..(Len(stack[p]) - 1)
      /\ Head(stack[p]) = stack[p][1] /\ stack[p][1] \in ReturnLabels
  BY <1>1
<1>4. \A i \in DOMAIN stack'[p] : stack'[p][i] = stack[p][i + 1]
  BY <1>1
<1> QED
  BY <1>2, <1>3, <1>4

\* A goroutine that keeps its stack, other than at the steps of Remove.
LEMMA GotoNest ==
    ASSUME TypeInv, NestInv, NEW p \in Procs, NEW label, NEW l, Goto(p, label, l),
           pc[p] \notin RmSteps, label \notin RmSteps,
           label \in ResultLabels => pc[p] \in ResultLabels \/ ~RemovesAlone,
           Nested(p) => label \in HelperLabels /\ l.arg = loc[p].arg
    PROVE  NestInv' /\ Still(p) /\ StageKept(p)
<1>1. /\ Still(p) /\ pc'[p] = label /\ loc'[p] = l /\ stack'[p] = stack[p]
      /\ Nested(p)' <=> Nested(p)
  BY GotoMoves
<1>2. StageKept(p)
  BY <1>1, Labelled DEF StageKept, Stage
<1>3. NestInv'
  BY <1>1 DEF NestInv, Still, Nested, Waits, RemovesAlone
<1> QED
  BY <1>1, <1>2, <1>3

LEMMA CallNest ==
    ASSUME TypeInv, NestInv, NEW p \in Procs, NEW label \in HelperLabels \cup {"pause", "pause.driver"},
           NEW back \in ReturnLabels \ RmReturns, NEW l,
           Call(p, label, back, l), pc[p] \notin RmSteps,
           back \in ResultLabels => pc[p] \in ResultLabels \/ ~RemovesAlone,
           Nested(p) => label \in HelperLabels /\ back \in HelperReturns /\ l.arg = loc[p].arg
    PROVE  NestInv' /\ Still(p) /\ StageKept(p)
<1>1. /\ Still(p) /\ pc'[p] = label /\ loc'[p] = l
      /\ DOMAIN stack[p] = 1..Len(stack[p]) /\ Len(stack[p]) \in Nat
      /\ DOMAIN stack'[p] = 1..(Len(stack[p]) + 1)
      /\ stack'[p][1] = back
      /\ \A i \in DOMAIN stack[p] : stack'[p][i + 1] = stack[p][i]
  BY CallMoves
<1>2. \A i \in DOMAIN stack'[p] : i # 1 => i - 1 \in DOMAIN stack[p] /\ stack'[p][i] = stack[p][i - 1]
  BY <1>1
<1>3. Nested(p)' <=> Nested(p)
  <2>1. ASSUME Nested(p) PROVE Nested(p)'
    <3>1. PICK i \in DOMAIN stack[p] : stack[p][i] \in RmReturns
      BY <2>1 DEF Nested
    <3>2. i + 1 \in DOMAIN stack'[p] /\ stack'[p][i + 1] \in RmReturns
      BY <1>1, <3>1
    <3> QED
      BY <3>2 DEF Nested
  <2>2. ASSUME Nested(p)' PROVE Nested(p)
    <3>1. PICK i \in DOMAIN stack'[p] : stack'[p][i] \in RmReturns
      BY <2>2 DEF Nested
    <3>2. i # 1
      BY <1>1, <3>1
    <3>3. i - 1 \in DOMAIN stack[p] /\ stack[p][i - 1] \in RmReturns
      BY <1>2, <3>1, <3>2
    <3> QED
      BY <3>3 DEF Nested
  <2> QED
    BY <2>1, <2>2
<1>4. label \notin RmSteps \cup ResultLabels
  BY Labelled DEF RmSteps, RemoveLocked, ResultLabels
<1>5. StageKept(p)
  BY <1>1, <1>3, <1>4, Labelled DEF StageKept, Stage
<1>6. ASSUME Nested(p)
      PROVE  \E i \in DOMAIN stack'[p] : Waits(p, i)'
  <2>1. PICK i \in DOMAIN stack[p] : Waits(p, i)
    BY <1>6 DEF NestInv
  <2>2. i + 1 \in DOMAIN stack'[p] /\ i \in Nat /\ i >= 1
    BY <1>1
  <2>3. stack'[p][i + 1] \in RmReturns
    BY <1>1, <2>1 DEF Waits
  <2>4. \A j \in DOMAIN stack'[p] : j < i + 1 => stack'[p][j] \in HelperReturns
    <3> SUFFICES ASSUME NEW j \in DOMAIN stack'[p], j < i + 1, j # 1
                 PROVE  stack'[p][j] \in HelperReturns
      BY <1>1, <1>6
    <3>1. j - 1 \in DOMAIN stack[p] /\ stack'[p][j] = stack[p][j - 1] /\ j - 1 < i
      BY <1>1, <1>2, <2>2
    <3> QED
      BY <2>1, <3>1 DEF Waits
  <2>5. \A j \in DOMAIN stack'[p] : j > i + 1 => stack'[p][j] \notin RmReturns
    <3> SUFFICES ASSUME NEW j \in DOMAIN stack'[p], j > i + 1
                 PROVE  stack'[p][j] \notin RmReturns
      OBVIOUS
    <3>1. j - 1 \in DOMAIN stack[p] /\ stack'[p][j] = stack[p][j - 1] /\ j - 1 > i
      BY <1>1, <1>2, <2>2
    <3> QED
      BY <2>1, <3>1 DEF Waits
  <2> QED
    BY <2>2, <2>3, <2>4, <2>5 DEF Waits
<1>7. RemovesAlone => \A i \in DOMAIN stack'[p] : stack'[p][i] \notin ResultLabels
  <2> SUFFICES ASSUME RemovesAlone, NEW i \in DOMAIN stack'[p] PROVE stack'[p][i] \notin ResultLabels
    OBVIOUS
  <2>1. CASE i = 1
    BY <1>1, <2>1 DEF NestInv
  <2>2. CASE i # 1
    BY <1>2, <2>2 DEF NestInv
  <2> QED
    BY <2>1, <2>2
<1>8. \A q \in Procs : Nested(q)' => pc'[q] \in HelperLabels /\ \E i \in DOMAIN stack'[q] : Waits(q, i)'
  <2> SUFFICES ASSUME NEW q \in Procs, Nested(q)'
               PROVE  pc'[q] \in HelperLabels /\ \E i \in DOMAIN stack'[q] : Waits(q, i)'
    OBVIOUS
  <2>1. CASE q = p
    BY <1>1, <1>3, <1>6, <2>1
  <2>2. CASE q # p
    BY <1>1, <2>2 DEF NestInv, Still, Nested, Waits
  <2> QED
    BY <2>1, <2>2
<1>9. RemovesAlone' => \A q \in Procs : /\ pc'[q] \notin ResultLabels
                                       /\ \A i \in DOMAIN stack'[q] : stack'[q][i] \notin ResultLabels
  <2> SUFFICES ASSUME RemovesAlone, NEW q \in Procs
               PROVE  /\ pc'[q] \notin ResultLabels
                      /\ \A i \in DOMAIN stack'[q] : stack'[q][i] \notin ResultLabels
    BY DEF RemovesAlone
  <2>1. CASE q = p
    BY <1>1, <1>4, <1>7, <2>1
  <2>2. CASE q # p
    BY <1>1, <2>2 DEF NestInv, Still
  <2> QED
    BY <2>1, <2>2
<1> QED
  BY <1>1, <1>5, <1>8, <1>9 DEF NestInv

LEMMA ReturnNest ==
    ASSUME TypeInv, NestInv, NEW p \in Procs, NEW l, Return(p, l), pc[p] \notin RmSteps,
           Nested(p) => l.arg = loc[p].arg
    PROVE  NestInv' /\ Still(p) /\ StageKept(p)
<1>1. CASE stack[p] = <<>>
  <2>1. Goto(p, "idle", NoLocals)
    BY <1>1 DEF Return
  <2>2. ~Nested(p)
    BY <1>1 DEF Nested
  <2> QED
    BY <2>1, <2>2, GotoNest, Labelled DEF ResultLabels
<1>2. CASE stack[p] # <<>>
  <2>1. /\ Still(p) /\ pc'[p] = stack[p][1] /\ loc'[p] = l /\ stack[p][1] \in ReturnLabels
        /\ DOMAIN stack[p] = 1..Len(stack[p]) /\ Len(stack[p]) \in Nat /\ Len(stack[p]) >= 1
        /\ DOMAIN stack'[p] = 1..(Len(stack[p]) - 1)
        /\ \A i \in DOMAIN stack'[p] : stack'[p][i] = stack[p][i + 1]
    BY <1>2, PopMoves
  <2>2. \A i \in DOMAIN stack'[p] : i + 1 \in DOMAIN stack[p] /\ stack'[p][i] = stack[p][i + 1]
    BY <2>1
  <2>3. 1 \in DOMAIN stack[p]
    BY <2>1
  <2>4. ASSUME ~Nested(p)
        PROVE  ~Nested(p)' /\ pc'[p] \notin RmSteps
    BY <2>1, <2>2, <2>3, <2>4, Labelled DEF Nested
  <2>5. ASSUME Nested(p), stack[p][1] \in RmReturns
        PROVE  ~Nested(p)'
    <3>1. PICK i \in DOMAIN stack[p] : Waits(p, i)
      BY <2>5 DEF NestInv
    <3>2. i = 1
      <4>1. 1 < i => stack[p][1] \in HelperReturns
        BY <2>3, <3>1 DEF Waits
      <4>2. ~(1 < i)
        BY <2>5, <4>1, Labelled
      <4> QED
        BY <2>1, <4>2
    <3>3. \A j \in DOMAIN stack'[p] : stack'[p][j] \notin RmReturns
      BY <2>1, <2>2, <3>1, <3>2 DEF Waits
    <3> QED
      BY <3>3 DEF Nested
  <2>6. ASSUME Nested(p), stack[p][1] \notin RmReturns
        PROVE  /\ Nested(p)' /\ pc'[p] \in HelperLabels
               /\ \E i \in DOMAIN stack'[p] : Waits(p, i)'
    <3>1. PICK i \in DOMAIN stack[p] : Waits(p, i)
      BY <2>6 DEF NestInv
    <3>2. i > 1 /\ i \in Nat
      BY <2>1, <2>6, <3>1 DEF Waits
    <3>3. stack[p][1] \in HelperReturns
      BY <2>3, <3>1, <3>2 DEF Waits
    <3>4. i - 1 \in DOMAIN stack'[p] /\ stack'[p][i - 1] = stack[p][i]
      BY <2>1, <3>2
    <3>5. \A j \in DOMAIN stack'[p] : j < i - 1 => stack'[p][j] \in HelperReturns
      <4> SUFFICES ASSUME NEW j \in DOMAIN stack'[p], j < i - 1 PROVE stack'[p][j] \in HelperReturns
        OBVIOUS
      <4>1. j + 1 \in DOMAIN stack[p] /\ stack'[p][j] = stack[p][j + 1] /\ j + 1 < i
        BY <2>1, <2>2, <3>2
      <4> QED
        BY <3>1, <4>1 DEF Waits
    <3>6. \A j \in DOMAIN stack'[p] : j > i - 1 => stack'[p][j] \notin RmReturns
      <4> SUFFICES ASSUME NEW j \in DOMAIN stack'[p], j > i - 1 PROVE stack'[p][j] \notin RmReturns
        OBVIOUS
      <4>1. j + 1 \in DOMAIN stack[p] /\ stack'[p][j] = stack[p][j + 1] /\ j + 1 > i
        BY <2>1, <2>2, <3>2
      <4> QED
        BY <3>1, <4>1 DEF Waits
    <3>7. Waits(p, i - 1)'
      BY <3>1, <3>4, <3>5, <3>6 DEF Waits
    <3>8. Nested(p)'
      BY <3>4, <3>7 DEF Nested, Waits
    <3> QED
      BY <2>1, <3>3, <3>4, <3>7, <3>8, Labelled
  <2>7. StageKept(p)
    BY <2>1, <2>4, <2>5, <2>6, Labelled DEF StageKept, Stage
  <2>8. \A q \in Procs : Nested(q)' => pc'[q] \in HelperLabels /\ \E i \in DOMAIN stack'[q] : Waits(q, i)'
    <3> SUFFICES ASSUME NEW q \in Procs, Nested(q)'
                 PROVE  pc'[q] \in HelperLabels /\ \E i \in DOMAIN stack'[q] : Waits(q, i)'
      OBVIOUS
    <3>1. CASE q = p
      BY <2>4, <2>5, <2>6, <3>1
    <3>2. CASE q # p
      BY <2>1, <3>2 DEF NestInv, Still, Nested, Waits
    <3> QED
      BY <3>1, <3>2
  <2>9. RemovesAlone' => \A q \in Procs : /\ pc'[q] \notin ResultLabels
                                         /\ \A i \in DOMAIN stack'[q] : stack'[q][i] \notin ResultLabels
    <3> SUFFICES ASSUME RemovesAlone, NEW q \in Procs
                 PROVE  /\ pc'[q] \notin ResultLabels
                        /\ \A i \in DOMAIN stack'[q] : stack'[q][i] \notin ResultLabels
      BY DEF RemovesAlone
    <3>1. CASE q = p
      BY <2>1, <2>2, <2>3, <3>1 DEF NestInv
    <3>2. CASE q # p
      BY <2>1, <3>2 DEF NestInv, Still
    <3> QED
      BY <3>1, <3>2
  <2> QED
    BY <2>1, <2>7, <2>8, <2>9 DEF NestInv
<1> QED
  BY <1>1, <1>2

LEMMA SucceedFailNest ==
    ASSUME TypeInv, NestInv, NEW p \in Procs, NEW l \in Locals, Succeed(p, l) \/ Fail(p, l),
           pc[p] \notin RmSteps, Nested(p) => l.arg = loc[p].arg
    PROVE  NestInv' /\ Still(p) /\ StageKept(p)
<1>1. [l EXCEPT !.ok = TRUE].arg = l.arg /\ [l EXCEPT !.ok = FALSE].arg = l.arg
  BY DEF Locals
<1> QED
  BY <1>1, ReturnNest DEF Succeed, Fail

LEMMA ArgKept ==
    ASSUME NEW l \in Locals
    PROVE  /\ \A g : [l EXCEPT !.got = g].arg = l.arg
           /\ \A b : [l EXCEPT !.started = b].arg = l.arg
           /\ \A S : [l EXCEPT !.saving = S, !.snap = EmptyFile].arg = l.arg
           /\ [l EXCEPT !.snap = EmptyFile].arg = l.arg
           /\ \A t : [l EXCEPT !.cur = t].arg = l.arg
           /\ \A t : [l EXCEPT !.cur = t, !.saving = @ \ {t}].arg = l.arg
           /\ \A t, s : [l EXCEPT !.snap[t] = s].arg = l.arg
<1>1. /\ \A g : [l EXCEPT !.got = g].arg = l.arg
      /\ \A b : [l EXCEPT !.started = b].arg = l.arg
      /\ \A S : [l EXCEPT !.saving = S, !.snap = EmptyFile].arg = l.arg
      /\ [l EXCEPT !.snap = EmptyFile].arg = l.arg
      /\ \A t : [l EXCEPT !.cur = t].arg = l.arg
  BY DEF Locals
<1>2. \A t : [l EXCEPT !.cur = t, !.saving = @ \ {t}].arg = l.arg
  BY DEF Locals
<1>3. \A t, s : [l EXCEPT !.snap[t] = s].arg = l.arg
  BY DEF Locals
<1> QED
  BY <1>1, <1>2, <1>3

LEMMA DriverFailsReturn ==
    ASSUME TypeInv, NEW p \in Procs, NEW t, DriverFails(p, t)
    PROVE  \E l \in Locals : l.arg = loc[p].arg /\ Fail(p, l)
<1>1. loc[p] \in Locals
  BY DEF TypeInv, ControlType
<1>2. [loc[p] EXCEPT !.got = IF t \in lost THEN Refusal ELSE @] \in Locals
  BY <1>1, LocalsType
<1>3. [loc[p] EXCEPT !.got = IF t \in lost THEN Refusal ELSE @].arg = loc[p].arg
  BY <1>1 DEF Locals
<1> QED
  BY <1>2, <1>3 DEF DriverFails

\* The helpers of Remove stay among themselves.
LEMMA HelperGoto ==
    ASSUME TypeInv, NestInv, NEW p \in Procs, pc[p] \in HelperLabels,
           NEW label \in HelperLabels, NEW l, l.arg = loc[p].arg, Goto(p, label, l)
    PROVE  NestInv' /\ Still(p) /\ StageKept(p)
BY GotoNest, Labelled

LEMMA HelperCall ==
    ASSUME TypeInv, NestInv, NEW p \in Procs, pc[p] \in HelperLabels,
           NEW label \in HelperLabels, NEW back \in HelperReturns, NEW l, l.arg = loc[p].arg,
           Call(p, label, back, l)
    PROVE  NestInv' /\ Still(p) /\ StageKept(p)
BY CallNest, Labelled

LEMMA HelperReturn ==
    ASSUME TypeInv, NestInv, NEW p \in Procs, pc[p] \in HelperLabels,
           NEW l \in Locals, l.arg = loc[p].arg, Succeed(p, l) \/ Fail(p, l)
    PROVE  NestInv' /\ Still(p) /\ StageKept(p)
BY SucceedFailNest, Labelled

LEMMA HelperNest ==
    ASSUME TypeInv, NestInv, NEW p \in Procs, Helper(p)
    PROVE  NestInv' /\ Still(p) /\ StageKept(p)
<1>0. TypeInv /\ NestInv /\ loc[p] \in Locals
  BY DEF TypeInv, ControlType
<1>1. CASE Sync(p)
  <2>1. CASE Cur(p) \in Held
    BY <1>0, <1>1, <2>1, ArgKept, HelperGoto DEF Sync, At, HelperLabels
  <2>2. CASE Cur(p) \notin Held
    BY <1>0, <1>1, <2>2, ArgKept, LocalsType, HelperReturn DEF Sync, At, HelperLabels
  <2> QED
    BY <2>1, <2>2
<1>2. CASE SyncTell(p)
  <2>1. CASE DriverKnows(Cur(p))
    BY <1>0, <1>2, <2>1, ArgKept, HelperGoto DEF SyncTell, At, HelperLabels
  <2>2. CASE ~DriverKnows(Cur(p))
    BY <1>0, <1>2, <2>2, HelperReturn DEF SyncTell, At, HelperLabels
  <2> QED
    BY <2>1, <2>2
<1>3. CASE SyncStore(p)
  BY <1>0, <1>3, HelperReturn DEF SyncStore, At, HelperLabels
<1>4. CASE Start(p)
  BY <1>0, <1>4, HelperGoto, HelperReturn DEF Start, At, HelperLabels
<1>5. CASE StartDriver(p)
  BY <1>0, <1>5, HelperGoto, HelperReturn, DriverFailsReturn DEF StartDriver, At, HelperLabels
<1>6. CASE StartTell(p)
  <2>1. CASE DriverKnows(Cur(p))
    BY <1>0, <1>6, <2>1, ArgKept, HelperGoto DEF StartTell, At, HelperLabels
  <2>2. CASE ~DriverKnows(Cur(p))
    BY <1>0, <1>6, <2>2, HelperReturn DEF StartTell, At, HelperLabels
  <2> QED
    BY <2>1, <2>2
<1>7. CASE StartStore(p)
  BY <1>0, <1>7, HelperReturn DEF StartStore, At, HelperLabels
<1>8. CASE Save(p)
  BY <1>0, <1>8, ArgKept, HelperGoto DEF Save, At, HelperLabels
<1>9. CASE SaveNext(p)
  BY <1>0, <1>9, ArgKept, HelperCall DEF SaveNext, At, HelperLabels, HelperReturns
<1>10. CASE SaveGot(p)
  <2> DEFINE s == CASE loc[p].ok -> loc[p].got
                    [] ~loc[p].ok /\ Cur(p) \in Held -> tasks[Cur(p)]
                    [] OTHER -> None
  <2>1. Goto(p, "save.next", [loc[p] EXCEPT !.snap[Cur(p)] = s]) /\ pc[p] = "save.got"
    BY <1>10 DEF SaveGot, At
  <2> HIDE DEF s
  <2>2. [loc[p] EXCEPT !.snap[Cur(p)] = s].arg = loc[p].arg
    BY <1>0, ArgKept
  <2>3. pc[p] \in HelperLabels /\ "save.next" \in HelperLabels
    BY <2>1 DEF HelperLabels
  <2> QED
    BY <1>0, <2>1, <2>2, <2>3, HelperGoto
<1>11. CASE SaveWrite(p)
  <2>1. [loc[p] EXCEPT !.snap = EmptyFile] \in Locals
    BY <1>0, LocalsType
  <2> QED
    BY <1>0, <1>11, <2>1, ArgKept, HelperReturn DEF SaveWrite, At, HelperLabels
<1>12. CASE Fill(p)
  BY <1>0, <1>12, HelperGoto DEF Fill, At, HelperLabels
<1>13. CASE FillNext(p)
  <2>1. CASE Goto(p, "fill.end", loc[p])
    BY <1>0, <1>13, <2>1, HelperGoto DEF FillNext, At, HelperLabels
  <2>2. CASE \E t \in Tasks : Call(p, "start", "fill.started", [loc[p] EXCEPT !.cur = t])
    BY <1>0, <1>13, <2>2, ArgKept, HelperCall DEF FillNext, At, HelperLabels, HelperReturns
  <2> QED
    BY <1>13, <2>1, <2>2 DEF FillNext
<1>14. CASE FillStarted(p)
  <2>1. CASE loc[p].ok
    BY <1>0, <1>14, <2>1, ArgKept, HelperCall DEF FillStarted, At, HelperLabels, HelperReturns
  <2>2. CASE ~loc[p].ok
    <3>1. [loc[p] EXCEPT !.started = FALSE] \in Locals
      BY <1>0, LocalsType
    <3> QED
      BY <1>0, <1>14, <2>2, <3>1, ArgKept, HelperReturn DEF FillStarted, At, HelperLabels
  <2> QED
    BY <2>1, <2>2
<1>15. CASE FillEnd(p)
  BY <1>0, <1>15, ArgKept, HelperGoto, HelperReturn DEF FillEnd, At, HelperLabels
<1> QED
  BY <1>1, <1>2, <1>3, <1>4, <1>5, <1>6, <1>7, <1>8, <1>9, <1>10, <1>11,
     <1>12, <1>13, <1>14, <1>15 DEF Helper

\* The steps of the other calls, and what they call.
CallLabels == {"idle", "add.store", "add.mode", "add.started", "add.paused", "add.save", "pause",
               "pause.driver", "pause.tell", "pause.store", "pause.save", "pause.fill",
               "pauseAll", "pauseAll.save", "unpause.sync", "unpause.save", "unpauseAll",
               "unpauseAll.save", "option.driver", "option.save", "active", "active.done"}
                  \cup ResultLabels
CallReturns == CallLabels \cap ReturnLabels

LEMMA CallLabelled ==
    CallLabels \cap (HelperLabels \cup RmSteps) = {} /\ CallReturns \subseteq ReturnLabels \ RmReturns
BY Labelled DEF CallLabels, CallReturns, HelperLabels, RmSteps, RemoveLocked, ResultLabels

\* A goroutine in another call than Remove.
LEMMA OtherGoto ==
    ASSUME TypeInv, NestInv, NEW p \in Procs, pc[p] \in CallLabels,
           NEW label \in CallLabels \cup HelperLabels, NEW l, Goto(p, label, l),
           label \in ResultLabels => pc[p] \in ResultLabels \/ ~RemovesAlone
    PROVE  NestInv' /\ Still(p) /\ StageKept(p)
<1>1. ~Nested(p)
  BY CallLabelled DEF NestInv
<1> QED
  BY <1>1, GotoNest, CallLabelled, Labelled

LEMMA OtherCall ==
    ASSUME TypeInv, NestInv, NEW p \in Procs, pc[p] \in CallLabels,
           NEW label \in Entries, NEW back \in CallReturns, NEW l, Call(p, label, back, l),
           back \in ResultLabels => pc[p] \in ResultLabels \/ ~RemovesAlone
    PROVE  NestInv' /\ Still(p) /\ StageKept(p)
<1>1. ~Nested(p)
  BY CallLabelled DEF NestInv
<1>2. label \in HelperLabels \cup {"pause", "pause.driver"}
  BY DEF Entries, HelperLabels
<1> QED
  BY <1>1, <1>2, CallNest, CallLabelled, Labelled

LEMMA OtherReturn ==
    ASSUME TypeInv, NestInv, NEW p \in Procs, pc[p] \in CallLabels,
           NEW l \in Locals, Succeed(p, l) \/ Fail(p, l)
    PROVE  NestInv' /\ Still(p) /\ StageKept(p)
<1>1. ~Nested(p)
  BY CallLabelled DEF NestInv
<1> QED
  BY <1>1, SucceedFailNest, CallLabelled

LEMMA CallStepNest ==
    ASSUME TypeInv, NestInv, NEW p \in Procs, CallStep(p)
    PROVE  NestInv' /\ Still(p) /\ StageKept(p)
<1>0. TypeInv /\ NestInv /\ loc[p] \in Locals
  BY DEF TypeInv, ControlType
<1>1. CASE AddStore(p)
  BY <1>0, <1>1, OtherGoto
     DEF AddStore, At, CallLabels, ResultLabels, HelperLabels
<1>2. CASE AddMode(p)
  BY <1>0, <1>2, OtherGoto, OtherCall
     DEF AddMode, At, CallLabels, ResultLabels, HelperLabels, Entries, CallReturns, ReturnLabels
<1>3. CASE AddStarted(p)
  BY <1>0, <1>3, OtherCall, OtherReturn
     DEF AddStarted, At, CallLabels, ResultLabels, Entries, CallReturns, ReturnLabels
<1>4. CASE AddPaused(p)
  BY <1>0, <1>4, OtherGoto, OtherReturn
     DEF AddPaused, At, CallLabels, ResultLabels, HelperLabels
<1>5. CASE AddSave(p)
  BY <1>0, <1>5, OtherGoto
     DEF AddSave, At, CallLabels, ResultLabels, HelperLabels
<1>6. CASE PauseDriver(p)
  BY <1>0, <1>6, OtherGoto, OtherReturn, DriverFailsReturn
     DEF PauseDriver, At, CallLabels, ResultLabels, HelperLabels
<1>7. CASE PauseTell(p)
  BY <1>0, <1>7, OtherGoto, OtherReturn
     DEF PauseTell, At, CallLabels, ResultLabels, HelperLabels
<1>8. CASE PauseStore(p)
  BY <1>0, <1>8, OtherReturn
     DEF PauseStore, At, CallLabels, ResultLabels
<1>9. CASE PauseSave(p)
  BY <1>0, <1>9, OtherCall, OtherReturn
     DEF PauseSave, At, CallLabels, ResultLabels, Entries, CallReturns, ReturnLabels
<1>10. CASE PauseFill(p)
  BY <1>0, <1>10, OtherGoto
     DEF PauseFill, At, CallLabels, ResultLabels, HelperLabels
<1>11. CASE PauseAllLoop(p)
  BY <1>0, <1>11, OtherGoto, OtherCall
     DEF PauseAllLoop, At, CallLabels, ResultLabels, HelperLabels, Entries, CallReturns, ReturnLabels
<1>12. CASE PauseTaskByID(p)
  BY <1>0, <1>12, OtherGoto, OtherReturn
     DEF PauseTaskByID, At, CallLabels, ResultLabels, HelperLabels
<1>13. CASE PauseAllSave(p)
  BY <1>0, <1>13, OtherGoto, OtherCall, OtherReturn
     DEF PauseAllSave, At, CallLabels, ResultLabels, HelperLabels, Entries, CallReturns, ReturnLabels
<1>14. CASE UnpauseSync(p)
  BY <1>0, <1>14, OtherCall, OtherReturn
     DEF UnpauseSync, At, CallLabels, ResultLabels, Entries, CallReturns, ReturnLabels
<1>15. CASE UnpauseSave(p)
  BY <1>0, <1>15, OtherGoto, OtherReturn
     DEF UnpauseSave, At, CallLabels, ResultLabels, HelperLabels
<1>16. CASE UnpauseAllLoop(p)
  BY <1>0, <1>16, OtherGoto, OtherCall
     DEF UnpauseAllLoop, At, CallLabels, ResultLabels, HelperLabels, Entries, CallReturns, ReturnLabels
<1>17. CASE UnpauseAllSave(p)
  BY <1>0, <1>17, OtherGoto, OtherCall, OtherReturn
     DEF UnpauseAllSave, At, CallLabels, ResultLabels, HelperLabels, Entries, CallReturns, ReturnLabels
<1>18. CASE ChangeOptionDriver(p)
  BY <1>0, <1>18, OtherCall, OtherReturn, DriverFailsReturn
     DEF ChangeOptionDriver, At, CallLabels, ResultLabels, Entries, CallReturns, ReturnLabels
<1>19. CASE ChangeOptionSave(p)
  BY <1>0, <1>19, OtherGoto, OtherReturn
     DEF ChangeOptionSave, At, CallLabels, ResultLabels, HelperLabels
<1>20. CASE ResultCheck(p)
  BY <1>0, <1>20, OtherGoto, OtherReturn
     DEF ResultCheck, At, CallLabels, ResultLabels, HelperLabels
<1>21. CASE ResultDriver(p)
  BY <1>0, <1>21, OtherGoto
     DEF ResultDriver, At, CallLabels, ResultLabels, HelperLabels
<1>22. CASE ResultDetach(p)
  BY <1>0, <1>22, OtherGoto
     DEF ResultDetach, At, CallLabels, ResultLabels, HelperLabels
<1>23. CASE ResultPurge(p)
  BY <1>0, <1>23, OtherGoto, OtherCall
     DEF ResultPurge, At, CallLabels, ResultLabels, HelperLabels, Entries, CallReturns, ReturnLabels
<1>24. CASE PurgeAllLoop(p)
  BY <1>0, <1>24, OtherCall, OtherReturn
     DEF PurgeAllLoop, At, CallLabels, ResultLabels, Entries, CallReturns, ReturnLabels
<1>25. CASE PurgeAllCheck(p)
  BY <1>0, <1>25, OtherGoto
     DEF PurgeAllCheck, At, CallLabels, ResultLabels, HelperLabels
<1>26. CASE PurgeAllLookup(p)
  BY <1>0, <1>26, OtherGoto
     DEF PurgeAllLookup, At, CallLabels, ResultLabels, HelperLabels
<1>27. CASE SyncActiveLoop(p)
  BY <1>0, <1>27, OtherCall, OtherReturn
     DEF SyncActiveLoop, At, CallLabels, ResultLabels, Entries, CallReturns, ReturnLabels
<1>28. CASE SyncActiveDone(p)
  BY <1>0, <1>28, OtherGoto, OtherCall, OtherReturn
     DEF SyncActiveDone, At, CallLabels, ResultLabels, HelperLabels, Entries, CallReturns, ReturnLabels
<1> QED
  BY <1>1, <1>2, <1>3, <1>4, <1>5, <1>6, <1>7, <1>8, <1>9, <1>10, <1>11, <1>12, <1>13, <1>14, <1>15, <1>16, <1>17, <1>18, <1>19, <1>20, <1>21, <1>22, <1>23, <1>24, <1>25, <1>26, <1>27, <1>28 DEF CallStep

LEMMA BeginNest ==
    ASSUME TypeInv, NestInv, NEW p \in Procs, Begin(p), ~Remove(p)
    PROVE  NestInv' /\ Still(p) /\ StageKept(p)
<1>0. TypeInv /\ NestInv /\ loc[p] \in Locals
  BY DEF TypeInv, ControlType
<1>a. "removeResult" \in May[p] \/ "purgeResult" \in May[p] => ~RemovesAlone
  BY DEF RemovesAlone
<1>1. CASE Add(p)
  BY <1>0, <1>1, OtherGoto
     DEF Add, At, CallLabels, ResultLabels, HelperLabels
<1>2. CASE Pause(p)
  BY <1>0, <1>2, OtherCall
     DEF Pause, At, CallLabels, ResultLabels, Lookup, Entries, CallReturns, ReturnLabels
<1>3. CASE PauseAll(p)
  BY <1>0, <1>3, OtherGoto
     DEF PauseAll, At, CallLabels, ResultLabels, HelperLabels
<1>4. CASE Unpause(p)
  BY <1>0, <1>4, OtherCall
     DEF Unpause, At, CallLabels, ResultLabels, Lookup, Entries, CallReturns, ReturnLabels
<1>5. CASE UnpauseAll(p)
  BY <1>0, <1>5, OtherGoto
     DEF UnpauseAll, At, CallLabels, ResultLabels, HelperLabels
<1>6. CASE ChangeOption(p)
  BY <1>0, <1>6, OtherGoto
     DEF ChangeOption, At, CallLabels, ResultLabels, Lookup, HelperLabels
<1>7. CASE RemoveDownloadResult(p)
  BY <1>0, <1>a, <1>7, OtherCall
     DEF RemoveDownloadResult, At, CallLabels, ResultLabels, Lookup, Entries, CallReturns, ReturnLabels
<1>8. CASE PurgeDownloadResult(p)
  BY <1>0, <1>a, <1>8, OtherGoto
     DEF PurgeDownloadResult, At, CallLabels, ResultLabels, HelperLabels
<1>9. CASE TellStatus(p)
  BY <1>0, <1>9, OtherGoto
     DEF TellStatus, At, CallLabels, ResultLabels, Lookup, HelperLabels
<1>10. CASE SyncActive(p)
  BY <1>0, <1>10, OtherGoto
     DEF SyncActive, At, CallLabels, ResultLabels, HelperLabels
<1>11. CASE SaveSession(p)
  BY <1>0, <1>11, OtherGoto
     DEF SaveSession, At, CallLabels, ResultLabels, HelperLabels
<1> QED
  BY <1>1, <1>2, <1>3, <1>4, <1>5, <1>6, <1>7, <1>8, <1>9, <1>10, <1>11 DEF Begin

\* The steps of Remove.
LEMMA AtRemove ==
    ASSUME NestInv, NEW p \in Procs, pc[p] \in RmSteps
    PROVE  /\ ~Nested(p)
           /\ Stage(p) = IF pc[p] \in RmReturns THEN "late" ELSE pc[p]
<1>1. ~Nested(p)
  BY Labelled DEF NestInv
<1> QED
  BY <1>1 DEF Stage

LEMMA RemoveGoto ==
    ASSUME TypeInv, NestInv, NEW p \in Procs, pc[p] \in RmSteps \cup {"idle"}, NEW label \in RmSteps,
           NEW l, Goto(p, label, l)
    PROVE  /\ NestInv' /\ Still(p) /\ loc'[p] = l
           /\ Stage(p)' = IF label \in RmReturns THEN "late" ELSE label
<1>1. /\ Still(p) /\ pc'[p] = label /\ loc'[p] = l /\ stack'[p] = stack[p]
      /\ Nested(p)' <=> Nested(p)
  BY GotoMoves
<1>2. ~Nested(p) /\ label \notin ResultLabels
  BY Labelled DEF NestInv
<1>3. NestInv'
  BY <1>1, <1>2 DEF NestInv, Still, Nested, Waits, RemovesAlone
<1> QED
  BY <1>1, <1>2, <1>3 DEF Stage

LEMMA RemoveCall ==
    ASSUME TypeInv, NestInv, NEW p \in Procs, pc[p] \in RmSteps, NEW label \in {"save", "fill"},
           NEW back \in RmReturns, NEW l, Call(p, label, back, l)
    PROVE  NestInv' /\ Still(p) /\ loc'[p] = l /\ Stage(p)' = "late"
<1>1. /\ Still(p) /\ pc'[p] = label /\ loc'[p] = l
      /\ DOMAIN stack[p] = 1..Len(stack[p]) /\ Len(stack[p]) \in Nat
      /\ DOMAIN stack'[p] = 1..(Len(stack[p]) + 1)
      /\ stack'[p][1] = back
      /\ \A i \in DOMAIN stack[p] : stack'[p][i + 1] = stack[p][i]
  BY CallMoves, Labelled
<1>2. \A i \in DOMAIN stack'[p] : i # 1 => i - 1 \in DOMAIN stack[p] /\ stack'[p][i] = stack[p][i - 1]
  BY <1>1
<1>3. ~Nested(p)
  BY AtRemove
<1>4. 1 \in DOMAIN stack'[p]
  BY <1>1
<1>5. Nested(p)'
  BY <1>1, <1>4 DEF Nested
<1>6. Waits(p, 1)'
  <2>1. \A j \in DOMAIN stack'[p] : ~(j < 1)
    BY <1>1
  <2>2. ASSUME NEW j \in DOMAIN stack'[p], j > 1 PROVE stack'[p][j] \notin RmReturns
    BY <1>2, <1>3, <2>2 DEF Nested
  <2> QED
    BY <1>1, <2>1, <2>2 DEF Waits
<1>7. label \in HelperLabels /\ label \notin ResultLabels /\ back \notin ResultLabels
  BY DEF HelperLabels, ResultLabels, RmReturns
<1>8. \A q \in Procs : Nested(q)' => pc'[q] \in HelperLabels /\ \E i \in DOMAIN stack'[q] : Waits(q, i)'
  <2> SUFFICES ASSUME NEW q \in Procs, Nested(q)'
               PROVE  pc'[q] \in HelperLabels /\ \E i \in DOMAIN stack'[q] : Waits(q, i)'
    OBVIOUS
  <2>1. CASE q = p
    BY <1>1, <1>4, <1>6, <1>7, <2>1
  <2>2. CASE q # p
    BY <1>1, <2>2 DEF NestInv, Still, Nested, Waits
  <2> QED
    BY <2>1, <2>2
<1>9. RemovesAlone' => \A q \in Procs : /\ pc'[q] \notin ResultLabels
                                       /\ \A i \in DOMAIN stack'[q] : stack'[q][i] \notin ResultLabels
  <2> SUFFICES ASSUME RemovesAlone, NEW q \in Procs
               PROVE  /\ pc'[q] \notin ResultLabels
                      /\ \A i \in DOMAIN stack'[q] : stack'[q][i] \notin ResultLabels
    BY DEF RemovesAlone
  <2>1. CASE q # p
    BY <1>1, <2>1 DEF NestInv, Still
  <2>2. CASE q = p
    <3>1. ASSUME NEW i \in DOMAIN stack'[p] PROVE stack'[p][i] \notin ResultLabels
      <4>1. CASE i = 1
        BY <1>1, <1>7, <4>1
      <4>2. CASE i # 1
        BY <1>2, <4>2 DEF NestInv
      <4> QED
        BY <4>1, <4>2
    <3> QED
      BY <1>1, <1>7, <2>2, <3>1
  <2> QED
    BY <2>1, <2>2
<1> QED
  BY <1>1, <1>5, <1>8, <1>9 DEF NestInv, Stage

LEMMA RemoveReturn ==
    ASSUME TypeInv, NestInv, NEW p \in Procs, pc[p] \in RmSteps, NEW l \in Locals, Return(p, l)
    PROVE  NestInv' /\ Still(p) /\ Stage(p)' = "out"
<1>1. ~Nested(p)
  BY AtRemove
<1>2. CASE stack[p] = <<>>
  <2>1. Goto(p, "idle", NoLocals)
    BY <1>2 DEF Return
  <2>2. /\ Still(p) /\ pc'[p] = "idle" /\ stack'[p] = stack[p] /\ (Nested(p)' <=> Nested(p))
    BY <2>1, GotoMoves
  <2>3. "idle" \notin ResultLabels /\ "idle" \notin RmReturns /\ "idle" \notin RmSteps
    BY DEF ResultLabels, RmReturns, RmSteps, RemoveLocked
  <2>4. NestInv'
    BY <1>1, <2>2, <2>3 DEF NestInv, Still, Nested, Waits, RemovesAlone
  <2> QED
    BY <1>1, <2>2, <2>3, <2>4 DEF Stage
<1>3. CASE stack[p] # <<>>
  <2>1. /\ Still(p) /\ pc'[p] = stack[p][1] /\ stack[p][1] \in ReturnLabels
        /\ DOMAIN stack[p] = 1..Len(stack[p]) /\ Len(stack[p]) \in Nat /\ Len(stack[p]) >= 1
        /\ DOMAIN stack'[p] = 1..(Len(stack[p]) - 1)
        /\ \A i \in DOMAIN stack'[p] : stack'[p][i] = stack[p][i + 1]
    BY <1>3, PopMoves
  <2>2. \A i \in DOMAIN stack'[p] : i + 1 \in DOMAIN stack[p] /\ stack'[p][i] = stack[p][i + 1]
    BY <2>1
  <2>3. 1 \in DOMAIN stack[p]
    BY <2>1
  <2>4. ~Nested(p)' /\ pc'[p] \notin RmSteps /\ pc'[p] \notin RmReturns
    BY <1>1, <2>1, <2>2, <2>3, Labelled DEF Nested
  <2>5. \A q \in Procs : Nested(q)' => pc'[q] \in HelperLabels /\ \E i \in DOMAIN stack'[q] : Waits(q, i)'
    <3> SUFFICES ASSUME NEW q \in Procs, Nested(q)'
                 PROVE  pc'[q] \in HelperLabels /\ \E i \in DOMAIN stack'[q] : Waits(q, i)'
      OBVIOUS
    <3>1. q # p
      BY <2>4
    <3> QED
      BY <2>1, <3>1 DEF NestInv, Still, Nested, Waits
  <2>6. RemovesAlone' => \A q \in Procs : /\ pc'[q] \notin ResultLabels
                                         /\ \A i \in DOMAIN stack'[q] : stack'[q][i] \notin ResultLabels
    <3> SUFFICES ASSUME RemovesAlone, NEW q \in Procs
                 PROVE  /\ pc'[q] \notin ResultLabels
                        /\ \A i \in DOMAIN stack'[q] : stack'[q][i] \notin ResultLabels
      BY DEF RemovesAlone
    <3>1. CASE q = p
      BY <2>1, <2>2, <2>3, <3>1 DEF NestInv
    <3>2. CASE q # p
      BY <2>1, <3>2 DEF NestInv, Still
    <3> QED
      BY <3>1, <3>2
  <2> QED
    BY <2>1, <2>4, <2>5, <2>6 DEF NestInv, Stage
<1> QED
  BY <1>2, <1>3

\* A step of Remove takes goroutine p to another stage with the same task.
Moves(p, from, to) == Stage(p) = from /\ Stage(p)' = to /\ Still(p) /\ loc'[p].arg = loc[p].arg

LEMMA RemoveMutexForStage ==
    ASSUME TypeInv, NestInv, NEW p \in Procs, RemoveMutexFor(p)
    PROVE  NestInv' /\ Moves(p, "rm.mutex", "rm.lock")
BY RemoveGoto, AtRemove DEF RemoveMutexFor, Moves, At, RmSteps, RemoveLocked, RmReturns

LEMMA RemoveLockStage ==
    ASSUME TypeInv, NestInv, NEW p \in Procs, RemoveLock(p)
    PROVE  NestInv' /\ Moves(p, "rm.lock", "rm.still")
BY RemoveGoto, AtRemove DEF RemoveLock, Moves, At, RmSteps, RemoveLocked, RmReturns

LEMMA RemoveStillThereStage ==
    ASSUME TypeInv, NestInv, NEW p \in Procs, RemoveStillThere(p)
    PROVE  NestInv' /\ Moves(p, "rm.still", IF Arg(p) \in Held THEN "rm.driver" ELSE "late")
BY RemoveGoto, AtRemove DEF RemoveStillThere, Moves, At, RmSteps, RemoveLocked, RmReturns

LEMMA RemoveDriverStage ==
    ASSUME TypeInv, NestInv, NEW p \in Procs, RemoveDriver(p)
    PROVE  /\ NestInv'
           /\ \/ DriverHas(Arg(p)) /\ Moves(p, "rm.driver", "rm.tell")
              \/ /\ RemoveMayFail \/ lost # {} \/ ~DriverHas(Arg(p))
                 /\ Moves(p, "rm.driver", "late")
BY RemoveGoto, AtRemove DEF RemoveDriver, MayFail, Moves, At, RmSteps, RemoveLocked, RmReturns

LEMMA RemoveTellStage ==
    ASSUME TypeInv, NestInv, NEW p \in Procs, RemoveTell(p)
    PROVE  NestInv' /\ Moves(p, "rm.tell", IF DriverKnows(Arg(p)) THEN "rm.detach" ELSE "late")
BY RemoveGoto, AtRemove DEF RemoveTell, Moves, At, RmSteps, RemoveLocked, RmReturns

LEMMA RemoveDetachStage ==
    ASSUME TypeInv, NestInv, NEW p \in Procs, RemoveDetach(p)
    PROVE  NestInv' /\ Moves(p, "rm.detach", "rm.purge")
BY RemoveGoto, AtRemove DEF RemoveDetach, Moves, At, RmSteps, RemoveLocked, RmReturns

LEMMA RemovePurgeStage ==
    ASSUME TypeInv, NestInv, NEW p \in Procs, RemovePurge(p)
    PROVE  NestInv' /\ Moves(p, "rm.purge", "late")
BY RemoveCall, AtRemove DEF RemovePurge, Moves, At, RmSteps, RemoveLocked, RmReturns

LEMMA RemoveFillStage ==
    ASSUME TypeInv, NestInv, NEW p \in Procs, RemoveFill(p)
    PROVE  NestInv' /\ Moves(p, "late", "late")
BY RemoveCall, AtRemove DEF RemoveFill, Moves, At, RmSteps, RemoveLocked, RmReturns

LEMMA RemoveUnlockStage ==
    ASSUME TypeInv, NestInv, NEW p \in Procs, RemoveUnlock(p)
    PROVE  NestInv' /\ Moves(p, "late", "rm.forget")
BY RemoveGoto, AtRemove DEF RemoveUnlock, Moves, At, RmSteps, RemoveLocked, RmReturns

LEMMA RemoveForgetStage ==
    ASSUME TypeInv, NestInv, NEW p \in Procs, RemoveForget(p)
    PROVE  NestInv' /\ Still(p) /\ Stage(p) = "rm.forget" /\ Stage(p)' = "out"
<1>1. pc[p] = "rm.forget" /\ Return(p, [loc[p] EXCEPT !.ok = TRUE])
  BY DEF RemoveForget, At, Succeed
<1>2. [loc[p] EXCEPT !.ok = TRUE] \in Locals
  BY DEF TypeInv, ControlType, Locals
<1>3. pc[p] \in RmSteps /\ pc[p] \notin RmReturns
  BY <1>1 DEF RmSteps, RmReturns
<1> QED
  BY <1>1, <1>2, <1>3, RemoveReturn, AtRemove

LEMMA RemoveBegins ==
    ASSUME TypeInv, NestInv, NEW p \in Procs, Remove(p)
    PROVE  /\ NestInv' /\ Still(p) /\ Stage(p) = "out" /\ Stage(p)' = "rm.mutex"
           /\ loc'[p].arg \in Held /\ loc'[p].arg \in Tasks
<1>1. PICK t \in Tasks : pc[p] = "idle" /\ t \in Held /\ Goto(p, "rm.mutex", For(t))
  BY DEF Remove, Lookup, At
<1>2. For(t).arg = t
  BY FreshLocalsType
<1>3. /\ "rm.mutex" \in RmSteps /\ "rm.mutex" \notin RmReturns
      /\ "idle" \notin RmSteps /\ "idle" \notin HelperLabels /\ "idle" \notin RmReturns
  BY Labelled DEF RmSteps, RmReturns
<1>4. NestInv' /\ Still(p) /\ loc'[p] = For(t) /\ Stage(p)' = "rm.mutex"
  BY <1>1, <1>3, RemoveGoto
<1>5. Stage(p) = "out"
  BY <1>1, <1>3 DEF NestInv, Stage
<1> QED
  BY <1>1, <1>2, <1>4, <1>5

\* The mutexes.
LEMMA StagesElsewhere ==
    ASSUME NEW p \in Procs, Still(p)
    PROVE  \A q \in Procs : q # p => Stage(q)' = Stage(q) /\ loc'[q].arg = loc[q].arg
BY DEF Still, Stage, Nested

LEMMA KeepsLocks ==
    ASSUME LockInv, NEW p \in Procs, Still(p), StageKept(p), UNCHANGED lockVars
    PROVE  LockInv'
<1>1. /\ UNCHANGED <<mutex, removeLocks>>
      /\ \A q \in Procs : Stage(q)' = Stage(q) /\ (Stage(q) # "out" => loc'[q].arg = loc[q].arg)
  BY StagesElsewhere DEF StageKept, lockVars
<1>2. \A q \in Procs : mutex[q] # None => loc'[q].arg = loc[q].arg
  BY <1>1 DEF LockInv
<1>3. LocksForgotten'
  BY <1>1, <1>2 DEF LockInv, LocksForgotten
<1> QED
  BY <1>1, <1>3 DEF LockInv

LEMMA MoveLocks ==
    ASSUME LockInv, NEW p \in Procs, NEW from, NEW to, Moves(p, from, to),
           from \notin {"out", "rm.mutex"}, to \notin {"out", "rm.mutex"},
           UNCHANGED <<mutex, removeLocks>>
    PROVE  LockInv'
<1>1. \A q \in Procs : q # p => Stage(q)' = Stage(q) /\ loc'[q].arg = loc[q].arg
  BY StagesElsewhere DEF Moves
<1>2. Stage(p) = from /\ Stage(p)' = to /\ loc'[p].arg = loc[p].arg
  BY DEF Moves
<1>3. LocksForgotten'
  BY <1>1, <1>2 DEF LockInv, LocksForgotten
<1> QED
  BY <1>1, <1>2, <1>3 DEF LockInv

LEMMA RemoveMutexForLocks ==
    ASSUME TypeInv, NestInv, LockInv, NEW p \in Procs, RemoveMutexFor(p)
    PROVE  /\ LockInv'
           /\ mutex' = [mutex EXCEPT ![p] = removeLocks'[loc[p].arg]] /\ removeLocks'[loc[p].arg] # None
           /\ \A t \in Tasks : removeLocks[t] # None \/ t # loc[p].arg => removeLocks'[t] = removeLocks[t]
<1>1. Moves(p, "rm.mutex", "rm.lock")
  BY RemoveMutexForStage
<1>2. /\ Stage(p) = "rm.mutex" /\ Stage(p)' = "rm.lock" /\ loc'[p].arg = loc[p].arg
      /\ loc[p].arg \in Tasks
      /\ \A q \in Procs : q # p => Stage(q)' = Stage(q) /\ loc'[q].arg = loc[q].arg
  BY <1>1, StagesElsewhere DEF Moves, LockInv
<1>3. removeLocks \in [Tasks -> Mutexes \cup {None}] /\ mutex \in [Procs -> Mutexes \cup {None}]
  BY DEF TypeInv, DataType
<1>4. /\ mutex' = [mutex EXCEPT ![p] = removeLocks'[loc[p].arg]] /\ removeLocks'[loc[p].arg] # None
      /\ \A t \in Tasks : removeLocks[t] # None \/ t # loc[p].arg => removeLocks'[t] = removeLocks[t]
  <2>1. CASE removeLocks[Arg(p)] # None
    BY <1>2, <1>3, <2>1 DEF RemoveMutexFor, Arg
  <2>2. CASE removeLocks[Arg(p)] = None
    <3>1. PICK m \in Mutexes : /\ mutex' = [mutex EXCEPT ![p] = m]
                               /\ removeLocks' = [removeLocks EXCEPT ![loc[p].arg] = m]
      BY <2>2 DEF RemoveMutexFor, Arg
    <3>2. m # None
      BY NoneAssumption
    <3> QED
      BY <1>2, <1>3, <2>2, <3>1, <3>2 DEF Arg
  <2> QED
    BY <2>1, <2>2
<1>5. mutex'[p] # None /\ \A q \in Procs : q # p => mutex'[q] = mutex[q]
  BY <1>3, <1>4
<1>6. LocksForgotten'
  <2> SUFFICES ASSUME NEW t \in Tasks, removeLocks'[t] # None
               PROVE  \E q \in Procs : mutex'[q] # None /\ loc'[q].arg = t
    BY DEF LocksForgotten
  <2>1. CASE t = loc[p].arg
    BY <1>2, <1>5, <2>1
  <2>2. CASE t # loc[p].arg
    <3>1. PICK q \in Procs : mutex[q] # None /\ loc[q].arg = t
      BY <1>4, <2>2 DEF LockInv, LocksForgotten
    <3> QED
      BY <1>2, <1>5, <2>2, <3>1
  <2> QED
    BY <2>1, <2>2
<1> QED
  BY <1>2, <1>4, <1>5, <1>6 DEF LockInv

LEMMA RemoveForgetLocks ==
    ASSUME TypeInv, NestInv, LockInv, NEW p \in Procs, RemoveForget(p)
    PROVE  LockInv'
<1>1. /\ Stage(p)' = "out" /\ Stage(p) = "rm.forget" /\ loc[p].arg \in Tasks
      /\ \A q \in Procs : q # p => Stage(q)' = Stage(q) /\ loc'[q].arg = loc[q].arg
  BY RemoveForgetStage, StagesElsewhere DEF LockInv
<1>2. removeLocks \in [Tasks -> Mutexes \cup {None}] /\ mutex \in [Procs -> Mutexes \cup {None}]
  BY DEF TypeInv, DataType
<1>3. /\ removeLocks' = [removeLocks EXCEPT ![loc[p].arg] = None]
      /\ mutex' = [mutex EXCEPT ![p] = None]
  BY DEF RemoveForget, Arg
<1>4. LocksForgotten'
  BY <1>1, <1>2, <1>3 DEF LockInv, LocksForgotten
<1> QED
  BY <1>1, <1>2, <1>3, <1>4 DEF LockInv

LEMMA RemoveLocksKeep ==
    ASSUME TypeInv, NestInv, LockInv, NEW p \in Procs, RemoveStep(p)
    PROVE  LockInv'
<1>1. CASE RemoveMutexFor(p)
  BY <1>1, RemoveMutexForLocks
<1>2. CASE RemoveLock(p)
  BY <1>2, RemoveLockStage, MoveLocks DEF RemoveLock
<1>3. CASE RemoveStillThere(p)
  BY <1>3, RemoveStillThereStage, MoveLocks DEF RemoveStillThere, OnlyControl, lockVars
<1>4. CASE RemoveDriver(p)
  BY <1>4, RemoveDriverStage, MoveLocks DEF RemoveDriver, lockVars
<1>5. CASE RemoveTell(p)
  BY <1>5, RemoveTellStage, MoveLocks DEF RemoveTell, OnlyControl, lockVars
<1>6. CASE RemoveDetach(p)
  BY <1>6, RemoveDetachStage, MoveLocks DEF RemoveDetach, lockVars
<1>7. CASE RemovePurge(p)
  BY <1>7, RemovePurgeStage, MoveLocks DEF RemovePurge, lockVars
<1>8. CASE RemoveFill(p)
  BY <1>8, RemoveFillStage, MoveLocks DEF RemoveFill, OnlyControl, lockVars
<1>9. CASE RemoveUnlock(p)
  BY <1>9, RemoveUnlockStage, MoveLocks DEF RemoveUnlock
<1>10. CASE RemoveForget(p)
  BY <1>10, RemoveForgetLocks
<1> QED
  BY <1>1, <1>2, <1>3, <1>4, <1>5, <1>6, <1>7, <1>8, <1>9, <1>10 DEF RemoveStep

\* Only Remove takes a task out of the manager or out of its driver: what the other steps
\* do to them under RemovesAlone.
Spares == /\ Held \subseteq Held' /\ drvRemoved \subseteq drvRemoved' /\ wins' = wins
          /\ \A t \in Born : drv'[t] = None <=> drv[t] = None

LEMMA Named ==
    ASSUME OrphanInv, LockInv
    PROVE  /\ \A p \in Procs : Stage(p) # "out" => loc[p].arg \in Tasks /\ loc[p].arg \in Born
           /\ \A t \in Tasks : t \in Born => drv[t] # None \/ t \in drvRemoved
           /\ drvRemoved \subseteq Born /\ drvRemoved \subseteq Tasks
<1>1. \A p \in Procs : Stage(p) # "out" => loc[p].arg \in Tasks /\ loc[p].arg \in Born
  BY NoneAssumption DEF OrphanInv, ControlBorn, OfBorn, LockInv
<1>2. drvRemoved \subseteq Born /\ drvRemoved \subseteq Tasks
  BY DEF Born, OrphanInv, TypeInv, DataType
<1> QED
  BY <1>1, <1>2 DEF Born

LEMMA KeepsTurns ==
    ASSUME OrphanInv, LockInv, TurnInv, NEW p \in Procs, Still(p), StageKept(p),
           UNCHANGED lockVars, Spares
    PROVE  TurnInv'
<1>1. /\ UNCHANGED <<mutex, holder, removeLocks>>
      /\ \A q \in Procs : Stage(q)' = Stage(q) /\ (Stage(q) # "out" => loc'[q].arg = loc[q].arg)
  BY StagesElsewhere DEF StageKept, lockVars
<1>2. \A q \in Procs : Stage(q) # "out" => /\ loc[q].arg \in Tasks /\ loc[q].arg \in Born
                                           /\ drv'[loc[q].arg] = None <=> drv[loc[q].arg] = None
  BY Named DEF Spares
<1>3. \A w \in Procs : Stage(w) = "rm.purge" => Stage(w)' = "rm.purge" /\ loc'[w].arg = loc[w].arg
  BY <1>1
<1>4. OneMutex'
  BY <1>1, <1>2 DEF TurnInv, OneMutex, Inside
<1>5. UntilPurged'
  <2> SUFFICES ASSUME NEW q \in Procs
               PROVE  /\ Stage(q)' \in {"rm.tell", "rm.detach", "rm.purge"} => drv'[loc'[q].arg] # None
                      /\ Stage(q)' \in {"late", "rm.forget"} => drv'[loc'[q].arg] = None
                      /\ Stage(q)' # "out" /\ loc'[q].arg \notin Held' /\ drv'[loc'[q].arg] # None
                            => \E w \in Procs : Stage(w)' = "rm.purge" /\ loc'[w].arg = loc'[q].arg
    BY DEF UntilPurged, PurgedBy
  <2>1. CASE Stage(q) = "out"
    BY <1>1, <2>1
  <2>2. CASE Stage(q) # "out"
    BY <1>1, <1>2, <1>3, <2>2 DEF TurnInv, UntilPurged, PurgedBy, Spares
  <2> QED
    BY <2>1, <2>2
<1>6. WonOnce'
  <2> SUFFICES ASSUME NEW t \in Tasks
               PROVE  /\ wins'[t] <= 1
                      /\ wins'[t] > 0 => /\ t \in drvRemoved'
                                         /\ drv'[t] = None \/ \E q \in Procs : Stage(q)' = "rm.purge" /\ loc'[q].arg = t
    BY DEF WonOnce, PurgedBy
  <2> QED
    BY <1>3, Named DEF TurnInv, WonOnce, PurgedBy, Spares
<1> QED
  BY <1>4, <1>5, <1>6 DEF TurnInv

\* Two goroutines that are both inside with one task, which its driver knows, are one.
LEMMA OneInside ==
    ASSUME TurnInv, NEW p \in Procs, NEW q \in Procs, Stage(p) \in Inside, Stage(q) \in Inside,
           loc[p].arg = loc[q].arg, drv[loc[p].arg] # None
    PROVE  p = q
BY DEF TurnInv, OneMutex

\* A step of Remove by goroutine p that leaves the tasks and their drivers' states alone.
LEMMA MoveTurns ==
    ASSUME OrphanInv, LockInv, TurnInv, NEW p \in Procs, NEW from, NEW to, Moves(p, from, to),
           from # "out", to # "out", from # "rm.purge",
           UNCHANGED <<mutex, removeLocks>>, Spares,
           \* p comes inside, or stays there with the mutex it has
           to \in Inside => from \in Inside \/ holder'[mutex[p]] = p,
           to \in Inside \cup {"rm.lock"} => from \in Inside \cup {"rm.lock"},
           \A q \in Procs : q # p /\ Stage(q) \in Inside => holder'[mutex[q]] = holder[mutex[q]],
           from \in Inside /\ to \in Inside => UNCHANGED holder,
           to \in {"rm.tell", "rm.detach", "rm.purge"} => drv'[loc[p].arg] # None,
           to \in {"late", "rm.forget"} => drv[loc[p].arg] = None
    PROVE  TurnInv'
<1>1. /\ Stage(p) = from /\ Stage(p)' = to /\ loc'[p].arg = loc[p].arg
      /\ UNCHANGED <<mutex, removeLocks>>
      /\ \A q \in Procs : q # p => Stage(q)' = Stage(q) /\ loc'[q].arg = loc[q].arg
  BY StagesElsewhere DEF Moves
<1>2. \A q \in Procs : Stage(q) # "out" => /\ loc[q].arg \in Tasks /\ loc[q].arg \in Born
                                           /\ drv'[loc[q].arg] = None <=> drv[loc[q].arg] = None
  BY Named DEF Spares
<1>3. \A w \in Procs : Stage(w) = "rm.purge" => Stage(w)' = "rm.purge" /\ loc'[w].arg = loc[w].arg
  BY <1>1
<1>4. OneMutex'
  <2>1. ASSUME NEW q \in Procs, Stage(q)' \in Inside PROVE holder'[mutex'[q]] = q
    <3>1. CASE q = p
      BY <1>1, <2>1, <3>1 DEF TurnInv, OneMutex
    <3>2. CASE q # p
      BY <1>1, <2>1, <3>2 DEF TurnInv, OneMutex
    <3> QED
      BY <3>1, <3>2
  <2>2. ASSUME NEW q \in Procs, Stage(q)' \in Inside \cup {"rm.lock"}, drv'[loc'[q].arg] # None
        PROVE  mutex'[q] = removeLocks'[loc'[q].arg]
    <3>1. Stage(q) \in Inside \cup {"rm.lock"} /\ loc'[q].arg = loc[q].arg
      BY <1>1, <2>2
    <3>2. Stage(q) # "out"
      BY <3>1 DEF Inside
    <3> QED
      BY <1>1, <1>2, <2>2, <3>1, <3>2 DEF TurnInv, OneMutex
  <2> QED
    BY <2>1, <2>2 DEF OneMutex
<1>5. UntilPurged'
  <2> SUFFICES ASSUME NEW q \in Procs
               PROVE  /\ Stage(q)' \in {"rm.tell", "rm.detach", "rm.purge"} => drv'[loc'[q].arg] # None
                      /\ Stage(q)' \in {"late", "rm.forget"} => drv'[loc'[q].arg] = None
                      /\ Stage(q)' # "out" /\ loc'[q].arg \notin Held' /\ drv'[loc'[q].arg] # None
                            => \E w \in Procs : Stage(w)' = "rm.purge" /\ loc'[w].arg = loc'[q].arg
    BY DEF UntilPurged, PurgedBy
  <2>1. CASE q = p
    BY <1>1, <1>2, <1>3, <2>1 DEF TurnInv, UntilPurged, PurgedBy, Spares
  <2>2. CASE q # p /\ Stage(q) = "out"
    BY <1>1, <2>2
  <2>3. CASE q # p /\ Stage(q) # "out"
    BY <1>1, <1>2, <1>3, <2>3 DEF TurnInv, UntilPurged, PurgedBy, Spares
  <2> QED
    BY <2>1, <2>2, <2>3
<1>6. WonOnce'
  <2> SUFFICES ASSUME NEW t \in Tasks
               PROVE  /\ wins'[t] <= 1
                      /\ wins'[t] > 0 => /\ t \in drvRemoved'
                                         /\ drv'[t] = None \/ \E q \in Procs : Stage(q)' = "rm.purge" /\ loc'[q].arg = t
    BY DEF WonOnce, PurgedBy
  <2> QED
    BY <1>3, Named DEF TurnInv, WonOnce, PurgedBy, Spares
<1> QED
  BY <1>4, <1>5, <1>6 DEF TurnInv

LEMMA RemoveLockTurns ==
    ASSUME OrphanInv, LockInv, NestInv, TurnInv, NEW p \in Procs, RemoveLock(p)
    PROVE  TurnInv'
<1>1. /\ Moves(p, "rm.lock", "rm.still") /\ Stage(p) = "rm.lock"
      /\ holder' = [holder EXCEPT ![mutex[p]] = p] /\ holder[mutex[p]] = None
      /\ UNCHANGED <<mutex, removeLocks, tasks, drv, drvRemoved, wins>>
  BY RemoveLockStage DEF Moves, RemoveLock, OrphanInv, managerVars, driverVars, historyVars
<1>2. /\ holder \in [Mutexes -> Procs \cup {None}] /\ mutex[p] \in Mutexes
  BY <1>1 DEF LockInv, OrphanInv, TypeInv, DataType
<1>3. Spares
  BY <1>1 DEF Spares, Held
<1>4. \A q \in Procs : Stage(q) \in Inside => holder'[mutex[q]] = holder[mutex[q]]
  <2> SUFFICES ASSUME NEW q \in Procs, Stage(q) \in Inside
               PROVE  holder'[mutex[q]] = holder[mutex[q]]
    OBVIOUS
  <2>1. holder[mutex[q]] = q /\ q # None
    BY NoneAssumption DEF TurnInv, OneMutex
  <2> QED
    BY <1>1, <1>2, <2>1
<1>5. holder'[mutex[p]] = p
  BY <1>1, <1>2
<1> QED
  BY <1>1, <1>3, <1>4, <1>5, MoveTurns DEF Inside

LEMMA RemoveStillThereTurns ==
    ASSUME OrphanInv, LockInv, NestInv, TurnInv, NEW p \in Procs, RemoveStillThere(p)
    PROVE  TurnInv'
<1>1. /\ Moves(p, "rm.still", IF Arg(p) \in Held THEN "rm.driver" ELSE "late")
      /\ Stage(p) = "rm.still"
      /\ UNCHANGED <<mutex, holder, removeLocks, tasks, drv, drvRemoved, wins>>
  BY RemoveStillThereStage DEF Moves, RemoveStillThere, OnlyControl, lockVars, OrphanInv,
     managerVars, driverVars, historyVars
<1>2. Spares
  BY <1>1 DEF Spares, Held
<1>3. CASE Arg(p) \in Held
  BY <1>1, <1>2, <1>3, MoveTurns DEF Inside
<1>4. CASE Arg(p) \notin Held
  <2>1. ASSUME drv[loc[p].arg] # None PROVE FALSE
    <3>1. PICK q \in Procs : Stage(q) = "rm.purge" /\ loc[q].arg = loc[p].arg
      BY <1>1, <1>4, <2>1 DEF TurnInv, UntilPurged, PurgedBy, Arg
    <3>2. p = q
      BY <1>1, <2>1, <3>1, OneInside DEF Inside
    <3> QED
      BY <1>1, <3>1, <3>2
  <2> QED
    BY <1>1, <1>2, <1>4, <2>1, MoveTurns DEF Inside
<1> QED
  BY <1>3, <1>4

LEMMA RemoveDriverTurns ==
    ASSUME OrphanInv, LockInv, NestInv, TurnInv, RemovesAlone, NEW p \in Procs, RemoveDriver(p)
    PROVE  TurnInv'
<1>0. ~RemoveMayFail /\ lost = {}
  BY DEF RemovesAlone, OrphanInv, TypeInv, DataType
<1>1. /\ Stage(p) = "rm.driver" /\ loc[p].arg \in Tasks
      /\ UNCHANGED <<mutex, holder, removeLocks, tasks, wins>>
      /\ drv \in [Tasks -> Statuses \cup {None}]
  BY RemoveDriverStage DEF Moves, RemoveDriver, lockVars, OrphanInv, LockInv, TypeInv, DataType,
     managerVars
<1>2. CASE DriverHas(Arg(p))
  <2>1. /\ Moves(p, "rm.driver", "rm.tell") /\ drv[loc[p].arg] # None
        /\ drv' = [drv EXCEPT ![loc[p].arg] = "removed"]
        /\ drvRemoved' = drvRemoved \cup {loc[p].arg}
    BY <1>0, <1>2, RemoveDriverStage DEF RemoveDriver, DriverRemove, DriverHas, Arg, OrphanInv
  <2>2. Spares /\ drv'[loc[p].arg] # None
    BY <1>1, <2>1, NoneAssumption DEF Spares, Held, Born, Statuses
  <2> QED
    BY <1>1, <2>1, <2>2, MoveTurns DEF Inside
<1>3. CASE ~DriverHas(Arg(p))
  <2>1. /\ Moves(p, "rm.driver", "late") /\ drv[loc[p].arg] = None
        /\ UNCHANGED <<drv, drvRemoved>>
    BY <1>0, <1>1, <1>3, RemoveDriverStage DEF RemoveDriver, DriverHas, Arg, OrphanInv, driverVars
  <2>2. Spares
    BY <1>1, <2>1 DEF Spares, Held
  <2> QED
    BY <1>1, <2>1, <2>2, MoveTurns DEF Inside
<1> QED
  BY <1>2, <1>3

LEMMA RemoveTellTurns ==
    ASSUME OrphanInv, LockInv, NestInv, TurnInv, RemovesAlone, NEW p \in Procs, RemoveTell(p)
    PROVE  TurnInv'
<1>1. /\ Moves(p, "rm.tell", IF DriverKnows(Arg(p)) THEN "rm.detach" ELSE "late")
      /\ Stage(p) = "rm.tell" /\ loc[p].arg \in Tasks
      /\ UNCHANGED <<mutex, holder, removeLocks, tasks, drv, drvRemoved, wins>>
  BY RemoveTellStage DEF Moves, RemoveTell, OnlyControl, lockVars, OrphanInv, LockInv,
     managerVars, driverVars, historyVars
<1>2. Spares
  BY <1>1 DEF Spares, Held
<1>3. DriverKnows(Arg(p)) <=> drv[loc[p].arg] # None
  BY <1>1 DEF DriverKnows, DriverHas, Arg, RemovesAlone, OrphanInv, TypeInv, DataType
<1> QED
  BY <1>1, <1>2, <1>3, MoveTurns DEF Inside

LEMMA RemoveFillTurns ==
    ASSUME OrphanInv, LockInv, NestInv, TurnInv, NEW p \in Procs, RemoveFill(p)
    PROVE  TurnInv'
<1>1. /\ Moves(p, "late", "late") /\ Stage(p) = "late"
      /\ UNCHANGED <<mutex, holder, removeLocks, tasks, drv, drvRemoved, wins>>
  BY RemoveFillStage DEF Moves, RemoveFill, OnlyControl, lockVars, OrphanInv,
     managerVars, driverVars, historyVars
<1>2. Spares /\ drv[loc[p].arg] = None
  BY <1>1 DEF Spares, Held, TurnInv, UntilPurged
<1> QED
  BY <1>1, <1>2, MoveTurns DEF Inside

LEMMA RemoveUnlockTurns ==
    ASSUME OrphanInv, LockInv, NestInv, TurnInv, NEW p \in Procs, RemoveUnlock(p)
    PROVE  TurnInv'
<1>1. /\ Moves(p, "late", "rm.forget") /\ Stage(p) = "late"
      /\ holder' = [holder EXCEPT ![mutex[p]] = None]
      /\ UNCHANGED <<mutex, removeLocks, tasks, drv, drvRemoved, wins>>
  BY RemoveUnlockStage DEF Moves, RemoveUnlock, OrphanInv, managerVars, driverVars, historyVars
<1>2. Spares /\ drv[loc[p].arg] = None /\ holder[mutex[p]] = p
  BY <1>1 DEF Spares, Held, TurnInv, UntilPurged, OneMutex, Inside
<1>3. \A q \in Procs : q # p /\ Stage(q) \in Inside => holder'[mutex[q]] = holder[mutex[q]]
  <2> SUFFICES ASSUME NEW q \in Procs, q # p, Stage(q) \in Inside
               PROVE  holder'[mutex[q]] = holder[mutex[q]]
    OBVIOUS
  <2>1. holder[mutex[q]] = q /\ mutex[q] # mutex[p]
    BY <1>2 DEF TurnInv, OneMutex
  <2>2. holder \in [Mutexes -> Procs \cup {None}]
    BY DEF OrphanInv, TypeInv, DataType
  <2> QED
    BY <1>1, <2>1, <2>2
<1> QED
  BY <1>1, <1>2, <1>3, MoveTurns DEF Inside

\* A Remove begins, gets its mutex and forgets it.
LEMMA RemoveTurns ==
    ASSUME OrphanInv, LockInv, NestInv, TurnInv, NEW p \in Procs, Remove(p)
    PROVE  LockInv' /\ TurnInv'
<1>1. /\ Still(p) /\ Stage(p) = "out" /\ Stage(p)' = "rm.mutex"
      /\ loc'[p].arg \in Held /\ loc'[p].arg \in Tasks
      /\ UNCHANGED <<mutex, holder, removeLocks, tasks, drv, drvRemoved, wins>>
  BY RemoveBegins DEF Remove, OnlyControl, lockVars, OrphanInv, managerVars, driverVars, historyVars
<1>2. \A q \in Procs : q # p => Stage(q)' = Stage(q) /\ loc'[q].arg = loc[q].arg
  BY <1>1, StagesElsewhere
<1>3. Held' = Held
  BY <1>1 DEF Held
<1>4. LocksForgotten'
  BY <1>1, <1>2 DEF LockInv, LocksForgotten
<1>5. LockInv'
  BY <1>1, <1>2, <1>4 DEF LockInv
<1>6. \A w \in Procs : Stage(w) = "rm.purge" => Stage(w)' = "rm.purge" /\ loc'[w].arg = loc[w].arg
  BY <1>1, <1>2
<1>7. OneMutex'
  BY <1>1, <1>2 DEF TurnInv, OneMutex, Inside
<1>8. UntilPurged'
  <2> SUFFICES ASSUME NEW q \in Procs
               PROVE  /\ Stage(q)' \in {"rm.tell", "rm.detach", "rm.purge"} => drv'[loc'[q].arg] # None
                      /\ Stage(q)' \in {"late", "rm.forget"} => drv'[loc'[q].arg] = None
                      /\ Stage(q)' # "out" /\ loc'[q].arg \notin Held' /\ drv'[loc'[q].arg] # None
                            => \E w \in Procs : Stage(w)' = "rm.purge" /\ loc'[w].arg = loc'[q].arg
    BY DEF UntilPurged, PurgedBy
  <2>1. CASE q = p
    BY <1>1, <1>3, <2>1
  <2>2. CASE q # p
    BY <1>1, <1>2, <1>3, <1>6, <2>2 DEF TurnInv, UntilPurged, PurgedBy
  <2> QED
    BY <2>1, <2>2
<1>9. WonOnce'
  BY <1>1, <1>6 DEF TurnInv, WonOnce, PurgedBy
<1> QED
  BY <1>5, <1>7, <1>8, <1>9 DEF TurnInv

LEMMA RemoveMutexForTurns ==
    ASSUME OrphanInv, LockInv, NestInv, TurnInv, NEW p \in Procs, RemoveMutexFor(p)
    PROVE  TurnInv'
<1>1. /\ Moves(p, "rm.mutex", "rm.lock")
      /\ UNCHANGED <<holder, tasks, drv, drvRemoved, wins>>
  BY RemoveMutexForStage DEF RemoveMutexFor, OrphanInv, managerVars, driverVars, historyVars
<1>2. /\ Stage(p) = "rm.mutex" /\ Stage(p)' = "rm.lock" /\ loc'[p].arg = loc[p].arg
      /\ \A q \in Procs : q # p => Stage(q)' = Stage(q) /\ loc'[q].arg = loc[q].arg
  BY <1>1, StagesElsewhere DEF Moves
<1>3. /\ mutex' = [mutex EXCEPT ![p] = removeLocks'[loc[p].arg]]
      /\ \A t \in Tasks : removeLocks[t] # None \/ t # loc[p].arg => removeLocks'[t] = removeLocks[t]
      /\ mutex \in [Procs -> Mutexes \cup {None}]
  BY RemoveMutexForLocks DEF OrphanInv, TypeInv, DataType
<1>4. Held' = Held
  BY <1>1 DEF Held
<1>5. \A w \in Procs : Stage(w) = "rm.purge" => Stage(w)' = "rm.purge" /\ loc'[w].arg = loc[w].arg
  BY <1>2
<1>6. OneMutex'
  <2>1. ASSUME NEW q \in Procs, Stage(q)' \in Inside PROVE holder'[mutex'[q]] = q
    BY <1>1, <1>2, <1>3, <2>1 DEF TurnInv, OneMutex, Inside
  <2>2. ASSUME NEW q \in Procs, Stage(q)' \in Inside \cup {"rm.lock"}, drv'[loc'[q].arg] # None
        PROVE  mutex'[q] = removeLocks'[loc'[q].arg]
    <3>1. CASE q = p
      BY <1>2, <1>3, <3>1
    <3>2. CASE q # p
      <4>1. Stage(q) \in Inside \cup {"rm.lock"} /\ loc'[q].arg = loc[q].arg
        BY <1>2, <2>2, <3>2
      <4>2. mutex'[q] = mutex[q] /\ mutex[q] = removeLocks[loc[q].arg]
        BY <1>1, <1>3, <2>2, <3>2, <4>1 DEF TurnInv, OneMutex
      <4>3. mutex[q] # None /\ loc[q].arg \in Tasks
        BY <4>1 DEF LockInv, Inside
      <4> QED
        BY <1>3, <4>1, <4>2, <4>3
    <3> QED
      BY <3>1, <3>2
  <2> QED
    BY <2>1, <2>2 DEF OneMutex
<1>7. UntilPurged'
  <2> SUFFICES ASSUME NEW q \in Procs
               PROVE  /\ Stage(q)' \in {"rm.tell", "rm.detach", "rm.purge"} => drv'[loc'[q].arg] # None
                      /\ Stage(q)' \in {"late", "rm.forget"} => drv'[loc'[q].arg] = None
                      /\ Stage(q)' # "out" /\ loc'[q].arg \notin Held' /\ drv'[loc'[q].arg] # None
                            => \E w \in Procs : Stage(w)' = "rm.purge" /\ loc'[w].arg = loc'[q].arg
    BY DEF UntilPurged, PurgedBy
  <2>1. CASE q = p
    BY <1>1, <1>2, <1>4, <1>5, <2>1 DEF TurnInv, UntilPurged, PurgedBy
  <2>2. CASE q # p
    BY <1>1, <1>2, <1>4, <1>5, <2>2 DEF TurnInv, UntilPurged, PurgedBy
  <2> QED
    BY <2>1, <2>2
<1>8. WonOnce'
  BY <1>1, <1>5 DEF TurnInv, WonOnce, PurgedBy
<1> QED
  BY <1>6, <1>7, <1>8 DEF TurnInv

LEMMA RemoveForgetTurns ==
    ASSUME OrphanInv, LockInv, NestInv, TurnInv, NEW p \in Procs, RemoveForget(p)
    PROVE  TurnInv'
<1>1. /\ Still(p) /\ Stage(p) = "rm.forget" /\ Stage(p)' = "out"
      /\ removeLocks' = [removeLocks EXCEPT ![loc[p].arg] = None]
      /\ mutex' = [mutex EXCEPT ![p] = None]
      /\ UNCHANGED <<holder, tasks, drv, drvRemoved, wins>>
  BY RemoveForgetStage DEF RemoveForget, Arg, OrphanInv, managerVars, driverVars, historyVars
<1>2. /\ \A q \in Procs : q # p => Stage(q)' = Stage(q) /\ loc'[q].arg = loc[q].arg
      /\ drv[loc[p].arg] = None /\ Held' = Held
      /\ removeLocks \in [Tasks -> Mutexes \cup {None}] /\ mutex \in [Procs -> Mutexes \cup {None}]
  BY <1>1, StagesElsewhere DEF TurnInv, UntilPurged, Held, OrphanInv, TypeInv, DataType
<1>3. \A w \in Procs : Stage(w) = "rm.purge" => Stage(w)' = "rm.purge" /\ loc'[w].arg = loc[w].arg
  BY <1>1, <1>2
<1>4. OneMutex'
  <2>1. ASSUME NEW q \in Procs, Stage(q)' \in Inside PROVE holder'[mutex'[q]] = q
    BY <1>1, <1>2, <2>1 DEF TurnInv, OneMutex, Inside
  <2>2. ASSUME NEW q \in Procs, Stage(q)' \in Inside \cup {"rm.lock"}, drv'[loc'[q].arg] # None
        PROVE  mutex'[q] = removeLocks'[loc'[q].arg]
    <3>1. q # p
      BY <1>1, <2>2 DEF Inside
    <3>2. Stage(q) \in Inside \cup {"rm.lock"} /\ loc'[q].arg = loc[q].arg /\ loc[q].arg # loc[p].arg
      BY <1>1, <1>2, <2>2, <3>1
    <3>3. loc[q].arg \in Tasks
      BY <3>2 DEF LockInv, Inside
    <3> QED
      BY <1>1, <1>2, <2>2, <3>1, <3>2, <3>3 DEF TurnInv, OneMutex
  <2> QED
    BY <2>1, <2>2 DEF OneMutex
<1>5. UntilPurged'
  <2> SUFFICES ASSUME NEW q \in Procs
               PROVE  /\ Stage(q)' \in {"rm.tell", "rm.detach", "rm.purge"} => drv'[loc'[q].arg] # None
                      /\ Stage(q)' \in {"late", "rm.forget"} => drv'[loc'[q].arg] = None
                      /\ Stage(q)' # "out" /\ loc'[q].arg \notin Held' /\ drv'[loc'[q].arg] # None
                            => \E w \in Procs : Stage(w)' = "rm.purge" /\ loc'[w].arg = loc'[q].arg
    BY DEF UntilPurged, PurgedBy
  <2>1. CASE q = p
    BY <1>1, <2>1
  <2>2. CASE q # p
    BY <1>1, <1>2, <1>3, <2>2 DEF TurnInv, UntilPurged, PurgedBy
  <2> QED
    BY <2>1, <2>2
<1>6. WonOnce'
  BY <1>1, <1>3 DEF TurnInv, WonOnce, PurgedBy
<1> QED
  BY <1>4, <1>5, <1>6 DEF TurnInv

\* Who detaches a task is the first: an earlier one has purged it or is inside as well.
LEMMA RemoveDetachTurns ==
    ASSUME OrphanInv, LockInv, NestInv, TurnInv, NEW p \in Procs, RemoveDetach(p)
    PROVE  TurnInv'
<1> DEFINE t == loc[p].arg
<1>1. /\ Moves(p, "rm.detach", "rm.purge") /\ Stage(p) = "rm.detach" /\ t \in Tasks
      /\ tasks' = [tasks EXCEPT ![t] = None]
      /\ wins' = [wins EXCEPT ![t] = IF @ < 2 THEN @ + 1 ELSE @]
      /\ UNCHANGED <<mutex, holder, removeLocks, drv, drvRemoved>>
  BY RemoveDetachStage DEF Moves, RemoveDetach, Detach, Arg, LockInv, OrphanInv, lockVars, driverVars
<1>2. /\ \A q \in Procs : q # p => Stage(q)' = Stage(q) /\ loc'[q].arg = loc[q].arg
      /\ Stage(p)' = "rm.purge" /\ loc'[p].arg = t
  BY <1>1, StagesElsewhere DEF Moves
<1>3. /\ tasks \in [Tasks -> Statuses \cup {None}] /\ wins \in [Tasks -> 0..2]
  BY DEF OrphanInv, TypeInv, DataType
<1>4. \A u \in Tasks : u \in Held' => u \in Held
  BY <1>1, <1>3 DEF Held
<1>5. \A u \in Tasks : u # t /\ u \in Held => u \in Held'
  BY <1>1, <1>3 DEF Held
<1>6. drv[t] # None
  BY <1>1 DEF TurnInv, UntilPurged
<1>7. wins[t] = 0
  <2>1. ASSUME wins[t] > 0 PROVE FALSE
    <3>1. PICK q \in Procs : Stage(q) = "rm.purge" /\ loc[q].arg = t
      BY <1>1, <1>6, <2>1 DEF TurnInv, WonOnce, PurgedBy
    <3>2. p = q
      BY <1>1, <1>6, <3>1, OneInside DEF Inside
    <3> QED
      BY <1>1, <3>1, <3>2
  <2>2. wins[t] \in 0..2
    BY <1>1, <1>3
  <2> QED
    BY <2>1, <2>2
<1>8. t \in drvRemoved
  <2>1. pc[p] = "rm.detach"
    BY DEF RemoveDetach, At
  <2> QED
    BY <1>1, <2>1, NoneAssumption DEF OrphanInv, ControlBorn, Purging, PurgeLabels
<1>9. \A w \in Procs : Stage(w) = "rm.purge" => Stage(w)' = "rm.purge" /\ loc'[w].arg = loc[w].arg
  BY <1>1, <1>2
<1>10. OneMutex'
  BY <1>1, <1>2 DEF TurnInv, OneMutex, Inside
<1>11. UntilPurged'
  <2> SUFFICES ASSUME NEW q \in Procs
               PROVE  /\ Stage(q)' \in {"rm.tell", "rm.detach", "rm.purge"} => drv'[loc'[q].arg] # None
                      /\ Stage(q)' \in {"late", "rm.forget"} => drv'[loc'[q].arg] = None
                      /\ Stage(q)' # "out" /\ loc'[q].arg \notin Held' /\ drv'[loc'[q].arg] # None
                            => \E w \in Procs : Stage(w)' = "rm.purge" /\ loc'[w].arg = loc'[q].arg
    BY DEF UntilPurged, PurgedBy
  <2>1. CASE q = p
    BY <1>1, <1>2, <1>6, <2>1
  <2>2. CASE q # p
    <3>1. Stage(q)' = Stage(q) /\ loc'[q].arg = loc[q].arg
      BY <1>2, <2>2
    <3>2. Stage(q) # "out" => loc[q].arg \in Tasks
      BY DEF LockInv
    <3>3. CASE loc[q].arg = t
      BY <1>1, <1>2, <3>1, <3>3 DEF TurnInv, UntilPurged
    <3>4. CASE loc[q].arg # t
      BY <1>1, <1>5, <1>9, <3>1, <3>2, <3>4 DEF TurnInv, UntilPurged, PurgedBy
    <3> QED
      BY <3>3, <3>4
  <2> QED
    BY <2>1, <2>2
<1>12. WonOnce'
  <2> SUFFICES ASSUME NEW u \in Tasks
               PROVE  /\ wins'[u] <= 1
                      /\ wins'[u] > 0 => /\ u \in drvRemoved'
                                         /\ drv'[u] = None \/ \E q \in Procs : Stage(q)' = "rm.purge" /\ loc'[q].arg = u
    BY DEF WonOnce, PurgedBy
  <2>1. CASE u = t
    <3>1. wins'[u] = 1
      BY <1>1, <1>3, <1>7, <2>1
    <3> QED
      BY <1>1, <1>2, <1>8, <2>1, <3>1
  <2>2. CASE u # t
    <3>1. wins'[u] = wins[u]
      BY <1>1, <1>3, <2>2
    <3> QED
      BY <1>1, <1>9, <3>1 DEF TurnInv, WonOnce, PurgedBy
  <2> QED
    BY <2>1, <2>2
<1> QED
  BY <1>10, <1>11, <1>12 DEF TurnInv

\* Nobody else is inside while p purges the task, and from now on nobody finds it in its driver.
LEMMA RemovePurgeTurns ==
    ASSUME OrphanInv, LockInv, NestInv, TurnInv, NEW p \in Procs, RemovePurge(p)
    PROVE  TurnInv'
<1> DEFINE t == loc[p].arg
<1>1. /\ Moves(p, "rm.purge", "late") /\ Stage(p) = "rm.purge" /\ t \in Tasks
      /\ drv' = [drv EXCEPT ![t] = None]
      /\ UNCHANGED <<mutex, holder, removeLocks, tasks, drvRemoved, wins>>
  BY RemovePurgeStage DEF Moves, RemovePurge, DriverPurge, Arg, LockInv, OrphanInv, lockVars,
     managerVars, historyVars
<1>2. /\ \A q \in Procs : q # p => Stage(q)' = Stage(q) /\ loc'[q].arg = loc[q].arg
      /\ Stage(p)' = "late" /\ loc'[p].arg = t
  BY <1>1, StagesElsewhere DEF Moves
<1>3. /\ drv \in [Tasks -> Statuses \cup {None}] /\ Held' = Held
  BY <1>1 DEF OrphanInv, TypeInv, DataType, Held
<1>4. drv'[t] = None /\ \A u \in Tasks : u # t => drv'[u] = drv[u]
  BY <1>1, <1>3
<1>5. drv[t] # None
  BY <1>1 DEF TurnInv, UntilPurged
<1>6. \A q \in Procs : q # p /\ Stage(q) \in {"rm.tell", "rm.detach", "rm.purge"} => loc[q].arg # t
  BY <1>1, <1>5, OneInside DEF Inside
<1>7. \A w \in Procs : Stage(w) = "rm.purge" /\ loc[w].arg # t
          => Stage(w)' = "rm.purge" /\ loc'[w].arg = loc[w].arg
  BY <1>1, <1>2
<1>8. \A q \in Procs : Stage(q) # "out" => loc[q].arg \in Tasks
  BY DEF LockInv
<1>9. OneMutex'
  <2>1. ASSUME NEW q \in Procs, Stage(q)' \in Inside PROVE holder'[mutex'[q]] = q
    BY <1>1, <1>2, <2>1 DEF TurnInv, OneMutex, Inside
  <2>2. ASSUME NEW q \in Procs, Stage(q)' \in Inside \cup {"rm.lock"}, drv'[loc'[q].arg] # None
        PROVE  mutex'[q] = removeLocks'[loc'[q].arg]
    <3>1. q # p /\ loc'[q].arg = loc[q].arg /\ Stage(q) = Stage(q)' /\ loc[q].arg # t
      BY <1>2, <1>4, <2>2
    <3>2. loc[q].arg \in Tasks
      BY <1>8, <2>2, <3>1 DEF Inside
    <3> QED
      BY <1>1, <1>4, <2>2, <3>1, <3>2 DEF TurnInv, OneMutex
  <2> QED
    BY <2>1, <2>2 DEF OneMutex
<1>10. UntilPurged'
  <2> SUFFICES ASSUME NEW q \in Procs
               PROVE  /\ Stage(q)' \in {"rm.tell", "rm.detach", "rm.purge"} => drv'[loc'[q].arg] # None
                      /\ Stage(q)' \in {"late", "rm.forget"} => drv'[loc'[q].arg] = None
                      /\ Stage(q)' # "out" /\ loc'[q].arg \notin Held' /\ drv'[loc'[q].arg] # None
                            => \E w \in Procs : Stage(w)' = "rm.purge" /\ loc'[w].arg = loc'[q].arg
    BY DEF UntilPurged, PurgedBy
  <2>1. CASE q = p
    BY <1>2, <1>4, <2>1
  <2>2. CASE q # p
    <3>1. Stage(q)' = Stage(q) /\ loc'[q].arg = loc[q].arg
      BY <1>2, <2>2
    <3>2. CASE loc[q].arg = t
      BY <1>4, <1>6, <2>2, <3>1, <3>2
    <3>3. CASE loc[q].arg # t
      BY <1>3, <1>4, <1>7, <1>8, <3>1, <3>3 DEF TurnInv, UntilPurged, PurgedBy
    <3> QED
      BY <3>2, <3>3
  <2> QED
    BY <2>1, <2>2
<1>11. WonOnce'
  <2> SUFFICES ASSUME NEW u \in Tasks
               PROVE  /\ wins'[u] <= 1
                      /\ wins'[u] > 0 => /\ u \in drvRemoved'
                                         /\ drv'[u] = None \/ \E q \in Procs : Stage(q)' = "rm.purge" /\ loc'[q].arg = u
    BY DEF WonOnce, PurgedBy
  <2>1. CASE u = t
    BY <1>1, <1>4, <2>1 DEF TurnInv, WonOnce
  <2>2. CASE u # t
    BY <1>1, <1>4, <1>7, <2>2 DEF TurnInv, WonOnce, PurgedBy
  <2> QED
    BY <2>1, <2>2
<1> QED
  BY <1>9, <1>10, <1>11 DEF TurnInv

\* What the other steps do to the tasks.
LEMMA SparesSame ==
    ASSUME UNCHANGED <<tasks, drv, drvRemoved, wins>>
    PROVE  Spares
BY DEF Spares, Held

LEMMA SparesStore ==
    ASSUME TypeInv, NEW t \in Tasks, NEW s \in Statuses, tasks' = [tasks EXCEPT ![t] = s],
           UNCHANGED <<drv, drvRemoved, wins>>
    PROVE  Spares
BY NoneAssumption DEF Spares, Held, TypeInv, DataType

LEMMA SparesUse ==
    ASSUME TypeInv, NEW t \in Tasks, DriverKnows(t),
           DriverStart(t) \/ DriverPause(t) \/ UNCHANGED driverVars, UNCHANGED <<tasks, wins>>
    PROVE  Spares
<1>1. /\ t \in Tasks /\ drv[t] # None /\ drv \in [Tasks -> Statuses \cup {None}]
  BY DEF DriverKnows, DriverHas, TypeInv, DataType
<1>2. drvRemoved' = drvRemoved /\ \A u \in Tasks : drv'[u] # None <=> drv[u] # None
  BY <1>1, NoneAssumption DEF DriverStart, DriverPause, driverVars, Statuses
<1>3. drvRemoved \subseteq Tasks
  BY DEF TypeInv, DataType
<1> QED
  BY <1>2, <1>3 DEF Spares, Held, Born

LEMMA HelperSpares ==
    ASSUME TypeInv, NEW p \in Procs, Helper(p)
    PROVE  Spares /\ UNCHANGED lockVars
<1>1. CASE OnlyControl
  BY <1>1, SparesSame DEF OnlyControl, managerVars, driverVars, historyVars
<1>2. CASE SyncStore(p)
  BY <1>2, SparesStore DEF SyncStore, At, StoreTask, Cur, StoreLabels, TypeInv, ControlType, StepNeeds,
     driverVars, historyVars
<1>3. CASE StartDriver(p)
  <2>1. CASE DriverUsable(Cur(p))
    BY <1>3, <2>1, SparesUse DEF StartDriver, DriverUsable, DriverKnows, DriverHas, managerVars, historyVars
  <2>2. CASE ~DriverUsable(Cur(p))
    BY <1>3, <2>2, SparesSame DEF StartDriver, managerVars, driverVars, historyVars
  <2> QED
    BY <1>3, <2>1, <2>2 DEF StartDriver
<1>4. CASE StartStore(p)
  BY <1>4, SparesStore DEF StartStore, At, StoreTask, Cur, StoreLabels, TypeInv, ControlType, StepNeeds,
     driverVars, historyVars
<1>5. CASE SaveWrite(p)
  BY <1>5, SparesSame DEF SaveWrite, managerVars, driverVars, historyVars
<1> QED
  BY <1>1, <1>2, <1>3, <1>4, <1>5 DEF Helper, Sync, SyncTell, Start,
     StartTell, Save, SaveNext, SaveGot, Fill, FillNext, FillStarted, FillEnd

\* Under RemovesAlone nobody is in a step that clears results.
LEMMA CallStepSpares ==
    ASSUME TypeInv, NestInv, NEW p \in Procs, CallStep(p)
    PROVE  (RemovesAlone => Spares) /\ UNCHANGED lockVars
<1>1. CASE OnlyControl
  BY <1>1, SparesSame DEF OnlyControl, managerVars, driverVars, historyVars
<1>2. CASE AddStore(p)
  <2>1. Arg(p) \in Tasks /\ "waiting" \in Statuses
    BY <1>2 DEF AddStore, At, Arg, TypeInv, ControlType, StepNeeds, Statuses
  <2> QED
    BY <1>2, <2>1, SparesStore DEF AddStore, driverVars, historyVars
<1>3. CASE PauseDriver(p)
  <2>1. CASE DriverUsable(Cur(p))
    BY <1>3, <2>1, SparesUse DEF PauseDriver, DriverUsable, DriverKnows, DriverHas, managerVars, historyVars
  <2>2. CASE ~DriverUsable(Cur(p))
    BY <1>3, <2>2, SparesSame DEF PauseDriver, managerVars, driverVars, historyVars
  <2> QED
    BY <1>3, <2>1, <2>2 DEF PauseDriver
<1>4. CASE PauseStore(p)
  BY <1>4, SparesStore DEF PauseStore, At, StoreTask, Cur, StoreLabels, TypeInv, ControlType, StepNeeds,
     driverVars, historyVars
<1>5. CASE ChangeOptionDriver(p)
  <2>1. CASE DriverUsable(Arg(p))
    BY <1>5, <2>1, SparesUse DEF ChangeOptionDriver, DriverUsable, DriverKnows, DriverHas, managerVars, historyVars
  <2>2. CASE ~DriverUsable(Arg(p))
    BY <1>5, <2>2, SparesSame DEF ChangeOptionDriver, managerVars, driverVars, historyVars
  <2> QED
    BY <1>5, <2>1, <2>2 DEF ChangeOptionDriver
<1>6. CASE ResultDriver(p) \/ ResultDetach(p) \/ ResultPurge(p)
  <2>1. pc[p] \in ResultLabels
    BY <1>6 DEF ResultDriver, ResultDetach, ResultPurge, At, ResultLabels
  <2> QED
    BY <1>6, <2>1 DEF NestInv, ResultDriver, ResultDetach, ResultPurge
<1> QED
  BY <1>1, <1>2, <1>3, <1>4, <1>5, <1>6 DEF CallStep, AddMode,
     AddStarted, AddPaused, AddSave, PauseTell, PauseSave, PauseFill,
     PauseAllLoop, PauseTaskByID, PauseAllSave, UnpauseSync, UnpauseSave,
     UnpauseAllLoop, UnpauseAllSave, ChangeOptionSave, ResultCheck,
     PurgeAllLoop, PurgeAllCheck, PurgeAllLookup, SyncActiveLoop, SyncActiveDone

LEMMA BeginSpares ==
    ASSUME TypeInv, NEW p \in Procs, Begin(p)
    PROVE  Spares /\ UNCHANGED lockVars
<1>1. CASE OnlyControl
  BY <1>1, SparesSame DEF OnlyControl, managerVars, driverVars, historyVars
<1>2. CASE Add(p)
  <2>1. PICK t \in Tasks \ Born : drv' = [drv EXCEPT ![t] = "waiting"]
    BY <1>2 DEF Add
  <2>2. UNCHANGED <<tasks, drvRemoved, wins, lockVars>> /\ drv \in [Tasks -> Statuses \cup {None}]
    BY <1>2 DEF Add, managerVars, historyVars, TypeInv, DataType
  <2>3. \A u \in Born : drv'[u] = drv[u]
    BY <2>1, <2>2
  <2> QED
    BY <2>2, <2>3 DEF Spares, Held
<1> QED
  BY <1>1, <1>2 DEF Begin, Remove, Pause, PauseAll, Unpause, UnpauseAll,
     ChangeOption, RemoveDownloadResult, PurgeDownloadResult, TellStatus,
     SyncActive, SaveSession

LEMMA FinishSpares ==
    ASSUME TypeInv, NEW t \in Tasks, Finish(t)
    PROVE  Spares /\ UNCHANGED <<lockVars, controlVars>>
<1>1. PICK s \in FinishStatus : drv' = [drv EXCEPT ![t] = s]
  BY DEF Finish
<1>2. /\ s # None /\ drv[t] = "active" /\ drv \in [Tasks -> Statuses \cup {None}]
      /\ UNCHANGED <<tasks, drvRemoved, wins, lockVars, controlVars>> /\ drvRemoved \subseteq Tasks
  BY BoundAssumption, NoneAssumption DEF Finish, Statuses, managerVars, TypeInv, DataType
<1>3. \A u \in Tasks : drv'[u] = None <=> drv[u] = None
  BY <1>1, <1>2, NoneAssumption DEF Statuses
<1> QED
  BY <1>2, <1>3 DEF Spares, Held, Born

LEMMA LoseSpares ==
    ASSUME TypeInv, NEW t \in Tasks, Lose(t)
    PROVE  Spares /\ UNCHANGED <<lockVars, controlVars>>
BY SparesSame DEF Lose, managerVars, historyVars

\* A Remove begins (the mutexes alone, whatever the drivers do).
LEMMA RemoveLocksBegin ==
    ASSUME TypeInv, NestInv, LockInv, NEW p \in Procs, Remove(p)
    PROVE  LockInv'
<1>1. /\ Still(p) /\ Stage(p) = "out" /\ Stage(p)' = "rm.mutex" /\ loc'[p].arg \in Tasks
      /\ UNCHANGED <<mutex, removeLocks>>
  BY RemoveBegins DEF Remove, OnlyControl, lockVars
<1>2. \A q \in Procs : q # p => Stage(q)' = Stage(q) /\ loc'[q].arg = loc[q].arg
  BY <1>1, StagesElsewhere
<1>3. LocksForgotten'
  BY <1>1, <1>2 DEF LockInv, LocksForgotten
<1> QED
  BY <1>1, <1>2, <1>3 DEF LockInv

\* Where no goroutine moves.
LEMMA NobodyMoves ==
    ASSUME UNCHANGED <<lockVars, controlVars>>
    PROVE  /\ NestInv => NestInv'
           /\ LockInv => LockInv'
           /\ OrphanInv /\ LockInv /\ TurnInv /\ Spares => TurnInv'
<1>1. UNCHANGED <<pc, stack, loc, mutex, holder, removeLocks>>
  BY DEF lockVars, controlVars
<1>2. NestInv => NestInv'
  BY <1>1 DEF NestInv, Nested, Waits, RemovesAlone
<1>3. \A p \in Procs : Stage(p)' = Stage(p)
  BY <1>1 DEF Stage, Nested
<1>4. LockInv => LockInv'
  BY <1>1, <1>3 DEF LockInv, LocksForgotten
<1>5. ASSUME OrphanInv, LockInv, TurnInv, Spares PROVE TurnInv'
  <2>1. ASSUME NEW p \in Procs PROVE TurnInv'
    <3>1. Still(p) /\ StageKept(p)
      BY <1>1, <1>3 DEF Still, StageKept
    <3> QED
      BY <1>5, <3>1, KeepsTurns
  <2>2. CASE \A p : p \notin Procs
    BY <1>5, <2>2, Named DEF TurnInv, OneMutex, UntilPurged, WonOnce, PurgedBy, Spares
  <2> QED
    BY <2>1, <2>2
<1> QED
  BY <1>2, <1>4, <1>5

LEMMA InitRemove == Init => RemoveInv
<1> SUFFICES ASSUME Init PROVE RemoveInv
  OBVIOUS
<1>1. \A p \in Procs : pc[p] = "idle" /\ stack[p] = <<>> /\ mutex[p] = None
  BY DEF Init
<1>2. /\ \A t \in Tasks : wins[t] = 0 /\ removeLocks[t] = None
      /\ \A p \in Procs : ~Nested(p)
  BY <1>1 DEF Init, Nested
<1>3. \A p \in Procs : Stage(p) = "out"
  BY <1>1, <1>2, Labelled DEF Stage
<1>4. NestInv
  BY <1>1, <1>2 DEF NestInv, ResultLabels
<1>5. LockInv
  BY <1>1, <1>2, <1>3 DEF LockInv, LocksForgotten
<1>6. TurnInv
  BY <1>2, <1>3 DEF TurnInv, OneMutex, UntilPurged, WonOnce, Inside
<1> QED
  BY <1>4, <1>5, <1>6, InitOrphan DEF RemoveInv

LEMMA NextRemove == RemoveInv /\ [Next]_vars => RemoveInv'
<1> SUFFICES ASSUME RemoveInv, [Next]_vars PROVE RemoveInv'
  OBVIOUS
<1> DEFINE Kept == NestInv' /\ LockInv' /\ (RemovesAlone => TurnInv')
<1>1. /\ OrphanInv /\ TypeInv /\ NestInv /\ LockInv /\ (RemovesAlone => TurnInv)
      /\ OrphanInv'
  BY NextOrphan DEF RemoveInv, OrphanInv
<1>2. ASSUME NEW p \in Procs, Helper(p) PROVE Kept
  <2>1. NestInv' /\ Still(p) /\ StageKept(p)
    BY <1>1, <1>2, HelperNest
  <2>2. Spares /\ UNCHANGED lockVars
    BY <1>1, <1>2, HelperSpares
  <2> QED
    BY <1>1, <2>1, <2>2, KeepsLocks, KeepsTurns
<1>3. ASSUME NEW p \in Procs, CallStep(p) PROVE Kept
  <2>1. NestInv' /\ Still(p) /\ StageKept(p)
    BY <1>1, <1>3, CallStepNest
  <2>2. (RemovesAlone => Spares) /\ UNCHANGED lockVars
    BY <1>1, <1>3, CallStepSpares
  <2> QED
    BY <1>1, <2>1, <2>2, KeepsLocks, KeepsTurns
<1>4. ASSUME NEW p \in Procs, Begin(p), ~Remove(p) PROVE Kept
  <2>1. NestInv' /\ Still(p) /\ StageKept(p)
    BY <1>1, <1>4, BeginNest
  <2>2. Spares /\ UNCHANGED lockVars
    BY <1>1, <1>4, BeginSpares
  <2> QED
    BY <1>1, <2>1, <2>2, KeepsLocks, KeepsTurns
<1>5. ASSUME NEW p \in Procs, Remove(p) PROVE Kept
  <2>1. NestInv'
    BY <1>1, <1>5, RemoveBegins
  <2> QED
    BY <1>1, <1>5, <2>1, RemoveLocksBegin, RemoveTurns
<1>6. ASSUME NEW p \in Procs, RemoveStep(p) PROVE Kept
  <2>1. NestInv'
    BY <1>1, <1>6, RemoveMutexForStage, RemoveLockStage, RemoveStillThereStage, RemoveDriverStage,
       RemoveTellStage, RemoveDetachStage, RemovePurgeStage, RemoveFillStage, RemoveUnlockStage,
       RemoveForgetStage DEF RemoveStep
  <2>2. LockInv'
    BY <1>1, <1>6, RemoveLocksKeep
  <2>3. ASSUME RemovesAlone PROVE TurnInv'
    <3>1. TurnInv /\ RemovesAlone
      BY <1>1, <2>3
    <3> QED
      BY <1>1, <1>6, <3>1, RemoveMutexForTurns, RemoveLockTurns, RemoveStillThereTurns,
         RemoveDriverTurns, RemoveTellTurns, RemoveDetachTurns, RemovePurgeTurns, RemoveFillTurns,
         RemoveUnlockTurns, RemoveForgetTurns DEF RemoveStep
  <2> QED
    BY <2>1, <2>2, <2>3
<1>7. ASSUME NEW t \in Tasks, Finish(t) \/ Lose(t) PROVE Kept
  <2>1. Spares /\ UNCHANGED <<lockVars, controlVars>>
    BY <1>1, <1>7, FinishSpares, LoseSpares
  <2> QED
    BY <1>1, <2>1, NobodyMoves
<1>8. ASSUME UNCHANGED vars PROVE Kept
  <2>1. Spares /\ UNCHANGED <<lockVars, controlVars>>
    BY <1>8, SparesSame DEF vars, managerVars, driverVars, historyVars
  <2> QED
    BY <1>1, <2>1, NobodyMoves
<1>9. ASSUME NEW p \in Procs, Begin(p) \/ Continue(p) PROVE Kept
  BY <1>2, <1>3, <1>4, <1>5, <1>6, <1>9 DEF Continue
<1>10. Kept
  <2> HIDE DEF Kept
  <2> QED
    BY <1>7, <1>8, <1>9 DEF Next
<1>11. RemovesAlone' <=> RemovesAlone
  BY DEF RemovesAlone
<1> QED
  BY <1>1, <1>10, <1>11 DEF RemoveInv

LEMMA RemoveInvariant == Spec => []RemoveInv
  BY InitRemove, NextRemove, PTL DEF Spec

\* Any number of clients may remove one task at once: Remove takes it out of the manager
\* at most once, unless a driver refuses or somebody clears results meanwhile, and a mutex
\* stays registered in removeLocks only while a Remove of its task is in progress.
THEOREM TurnsTaken == Spec => []RemoversTakeTurns
<1>1. RemoveInv => RemoversTakeTurns
  BY DEF RemoveInv, LockInv, TurnInv, WonOnce, RemoversTakeTurns, RemoveOnce
<1> QED
  BY <1>1, RemoveInvariant, PTL

-----------------------------------------------------------------------------
(* Calls served one at a time. *)

\* What the properties of run serial are about: calls that do not overlap.
OneAtATime == \E p \in Procs : Procs = {p}

SyncLabels  == {"sync", "sync.tell", "sync.store"}
StartLabels == {"start", "start.driver", "start.tell", "start.store"}
PauseLabels == {"pause", "pause.driver", "pause.tell", "pause.store"}
SaveLabels  == {"save", "save.next", "save.got"}
FillLabels  == {"fill", "fill.next", "fill.started", "fill.end"}

\* Where the helper that is at a label may return to.
SyncBacks  == {"save.got", "fill", "add.save", "unpause.save", "option.save", "result.check",
               "purgeAll.check", "active.done"}
StartBacks == {"fill.started", "add.started", "unpause.sync", "unpauseAll.save"}
PauseBacks == {"add.paused", "pause.save", "pauseAll.save"}
FillBacks  == {"rm.unlock", "active"}
SaveBacks  == FillBacks \cup {"rm.fill", "pause.fill", "pauseAll", "unpauseAll", "purgeAll"}
Backs(label) ==
    IF label \in SyncLabels THEN SyncBacks
    ELSE IF label \in StartLabels THEN StartBacks
    ELSE IF label \in PauseLabels THEN PauseBacks
    ELSE IF label \in SaveLabels THEN SaveBacks
    ELSE IF label \in FillLabels THEN FillBacks ELSE {}

\* A return stack fits the label that the goroutine is at, and itself.
NestAt(label, s) ==
    /\ s # <<>> => Head(s) \in Backs(label)
    /\ \A i \in 1..(Len(s) - 1) : s[i + 1] \in Backs(s[i])
    /\ label \in StartLabels \cup PauseLabels => s # <<>>
TopOf(s)   == IF s = <<>> THEN "none" ELSE Head(s)
After(top) == Backs(top) \cup {"none"}

\* What the goroutine may rely on at a label, where it will return to top, with its locals l.
Adding(label, top) == \/ label \in {"add.mode", "add.started", "add.paused"}
                      \/ top \in {"add.started", "add.paused"}
NeedsHeld(label, top) ==
    \/ label \in {"sync.tell", "sync.store", "start.driver", "start.tell", "start.store",
                  "pause.driver", "pause.tell", "pause.store", "save.got"}
    \/ top = "save.got" \/ Adding(label, top)
Fits(label, top, l) ==
    /\ NeedsHeld(label, top) => l.cur \in Held
    /\ label = "add.store" => /\ drv[l.arg] = "waiting" /\ l.arg \notin drvRemoved \cup Held
                              /\ l.cur = l.arg
    /\ label = "option.driver" => l.cur = l.arg
    /\ Adding(label, top) => (DriverUsable(l.cur) \/ l.cur \in Losable) /\ l.cur = l.arg
    /\ label \in {"add.started", "add.paused"} => l.ok \/ l.cur \in Losable
    /\ label = "sync.tell" \/ (label = "save.got" /\ l.ok) => l.got # None
    /\ label \in StoreLabels =>
          l.got = drv[l.cur] \/ (l.got = "active" /\ drv[l.cur] \in Stopped)
    /\ label \in {"pause.tell", "pause.store"} => drv[l.cur] # "active"
    /\ label = "pause.store" => l.got # "active"
    /\ label = "sync.store" /\ l.got = "active" /\ tasks[l.cur] # "active" => top = "option.save"
    /\ label \in {"start", "start.driver"} /\ top = "fill.started" => tasks[l.cur] = "waiting"
    /\ label = "fill.next" \/ top \in {"fill.started", "add.started"} => SlotFree

\* A call changes the driver's state of a task first and stores it next.
Changing == {"start.tell", "start.store", "pause.tell", "pause.store"}
Astray(t) == /\ t \notin lost
             /\ \/ drv[t] = "active" /\ tasks[t] # "active"
                \/ drv[t] = "paused" /\ tasks[t] = "waiting"
Agrees(label, top, l) == \A t \in Held : Astray(t) =>
                            l.cur = t /\ (label \in Changing \/ top = "option.save")

\* Stops that have yet to be counted.
Pending(label, l) ==
    {t \in Held : /\ drv[t] \in Stopped
                  /\ tasks[t] \notin Stopped
                        \/ (label \in StoreLabels /\ l.cur = t /\ l.got \notin Stopped)}
Counts(label, l) == counted + Cardinality(Pending(label, l)) <= stops

\* The file names the tasks there are, but for those that may have been refused, except from
\* a change to the save that follows it; an Add that fails has changed nothing else.
NamedIn(f) == {t \in Tasks : f[t] # None}
Matches == OnFile \subseteq Held /\ Held \ OnFile \subseteq Losable
MatchesBut(t) == OnFile \subseteq Held /\ Held \ OnFile \subseteq Losable \cup {t}
Unsaved(label, top) ==
    \/ label \in {"add.mode", "add.started", "add.paused", "add.save", "rm.purge", "result.purge"}
                 \cup SaveLabels
    \/ top \in {"add.started", "add.paused", "add.save", "save.got"}
Collected(l, more) == NamedIn(l.snap) \cup l.saving \cup more = Held
Filed(label, top, l) ==
    /\ Unsaved(label, top) \/ Matches
    /\ Adding(label, top) => MatchesBut(l.cur)
    /\ label = "save.next" => Collected(l, {})
    /\ label = "save.got" \/ top = "save.got" => Collected(l, {l.cur})

PlaceAt(label, top, l) ==
    Fits(label, top, l) /\ Agrees(label, top, l) /\ Counts(label, l) /\ Filed(label, top, l)
Place(p) == NestAt(pc[p], stack[p]) /\ PlaceAt(pc[p], TopOf(stack[p]), loc[p])

\* Remove has seen Driver.Remove, which is final.
WinsInv == \A t \in Tasks : wins[t] > 0 => t \notin Held /\ t \in drvRemoved

SerialInv == OrphanInv /\ (OneAtATime => WinsInv /\ \A p \in Procs : Place(p))

LEMMA PushedStack ==
    ASSUME NEW s \in Seq(ReturnLabels), NEW b \in ReturnLabels
    PROVE  LET t == <<b>> \o s
           IN /\ t # <<>> /\ Head(t) = b /\ Len(t) = Len(s) + 1
              /\ \A i \in 1..Len(s) : t[i + 1] = s[i]
              /\ t[1] = b
<1> DEFINE t == <<b>> \o s
<1>1. Len(<<b>>) = 1 /\ Len(s) \in Nat /\ <<b>>[1] = b
  OBVIOUS
<1>2. Len(t) = Len(s) + 1 /\ t[1] = b /\ \A i \in 1..Len(s) : t[i + 1] = s[i]
  BY <1>1
<1>3. t \in Seq(ReturnLabels)
  OBVIOUS
<1> QED
  BY <1>1, <1>2, <1>3

LEMMA GotoNests ==
    ASSUME ControlType, NEW p \in Procs, NestAt(pc[p], stack[p]), NEW label, NEW l,
           Goto(p, label, l), Backs(pc[p]) \subseteq Backs(label),
           label \in StartLabels \cup PauseLabels => pc[p] \in StartLabels \cup PauseLabels
    PROVE  /\ NestAt(pc[p], stack[p])'
           /\ pc'[p] = label /\ TopOf(stack[p])' = TopOf(stack[p]) /\ loc'[p] = l
<1>1. pc'[p] = label /\ stack'[p] = stack[p] /\ loc'[p] = l
  BY DEF ControlType, Goto
<1> QED
  BY <1>1 DEF NestAt, TopOf

LEMMA CallNests ==
    ASSUME ControlType, NEW p \in Procs, NestAt(pc[p], stack[p]), NEW label, NEW l,
           NEW back \in ReturnLabels, Call(p, label, back, l),
           back \in Backs(label), Backs(pc[p]) \subseteq Backs(back)
    PROVE  /\ NestAt(pc[p], stack[p])'
           /\ pc'[p] = label /\ TopOf(stack[p])' = back /\ loc'[p] = l
<1> DEFINE s == stack[p]
           t == <<back>> \o s
<1>1. s \in Seq(ReturnLabels) /\ Len(s) \in Nat
  BY DEF ControlType
<1>2. pc'[p] = label /\ stack'[p] = t /\ loc'[p] = l
  BY DEF ControlType, Call
<1>3. /\ t # <<>> /\ Head(t) = back /\ Len(t) = Len(s) + 1 /\ t[1] = back
      /\ \A i \in 1..Len(s) : t[i + 1] = s[i]
  BY <1>1, PushedStack
<1>4. ASSUME NEW i \in 1..(Len(t) - 1) PROVE t[i + 1] \in Backs(t[i])
  <2>1. i \in 1..Len(s) /\ t[i + 1] = s[i]
    BY <1>1, <1>3
  <2>2. CASE i = 1
    <3>1. s # <<>> /\ s[1] = Head(s)
      BY <1>1, <2>1
    <3> QED
      BY <1>3, <2>1, <2>2, <3>1 DEF NestAt
  <2>3. CASE i # 1
    <3>1. i - 1 \in 1..(Len(s) - 1) /\ (i - 1) + 1 = i /\ i - 1 \in 1..Len(s)
      BY <1>1, <2>1, <2>3
    <3>2. t[(i - 1) + 1] = s[i - 1] /\ s[(i - 1) + 1] \in Backs(s[i - 1])
      BY <1>3, <3>1 DEF NestAt
    <3> QED
      BY <2>1, <3>1, <3>2
  <2> QED
    BY <2>2, <2>3
<1> HIDE DEF s, t
<1> QED
  BY <1>2, <1>3, <1>4 DEF NestAt, TopOf

LEMMA ReturnNests ==
    ASSUME ControlType, NEW p \in Procs, NestAt(pc[p], stack[p]), NEW l, Return(p, l)
    PROVE  /\ NestAt(pc[p], stack[p])'
           /\ \/ /\ stack[p] = <<>> /\ pc'[p] = "idle" /\ TopOf(stack[p])' = "none"
                 /\ loc'[p] = NoLocals
              \/ /\ stack[p] # <<>> /\ TopOf(stack[p]) \in Backs(pc[p])
                 /\ pc'[p] = TopOf(stack[p]) /\ loc'[p] = l
                 /\ TopOf(stack[p])' \in After(TopOf(stack[p]))
<1> DEFINE s == stack[p]
<1>1. s \in Seq(ReturnLabels) /\ Len(s) \in Nat
  BY DEF ControlType
<1>2. CASE s = <<>>
  <2>1. pc'[p] = "idle" /\ stack'[p] = <<>> /\ loc'[p] = NoLocals
    BY <1>2 DEF ControlType, Return, Goto
  <2> QED
    BY <1>2, <2>1 DEF NestAt, TopOf, StartLabels, PauseLabels
<1>3. CASE s # <<>>
  <2>1. pc'[p] = Head(s) /\ stack'[p] = Tail(s) /\ loc'[p] = l
    BY <1>3 DEF ControlType, Return
  <2>2. /\ Head(s) = s[1] /\ Head(s) \in ReturnLabels /\ Len(s) >= 1
        /\ Tail(s) \in Seq(ReturnLabels) /\ Len(Tail(s)) = Len(s) - 1
        /\ \A i \in 1..(Len(s) - 1) : Tail(s)[i] = s[i + 1]
    BY <1>1, <1>3
  <2>3. Head(s) \notin StartLabels \cup PauseLabels
    BY <2>2 DEF ReturnLabels, StartLabels, PauseLabels
  <2>4. ASSUME Tail(s) # <<>> PROVE Head(Tail(s)) \in Backs(Head(s))
    <3>1. Head(Tail(s)) = Tail(s)[1] /\ 1 \in 1..(Len(s) - 1)
      BY <1>1, <2>2, <2>4
    <3>2. Tail(s)[1] = s[1 + 1] /\ s[1 + 1] \in Backs(s[1])
      BY <2>2, <3>1 DEF NestAt
    <3> QED
      BY <2>2, <3>1, <3>2
  <2>5. ASSUME NEW i \in 1..(Len(Tail(s)) - 1) PROVE Tail(s)[i + 1] \in Backs(Tail(s)[i])
    <3>1. i \in 1..(Len(s) - 1) /\ i + 1 \in 1..(Len(s) - 1)
      BY <1>1, <2>2
    <3>2. Tail(s)[i] = s[i + 1] /\ Tail(s)[i + 1] = s[(i + 1) + 1]
      BY <2>2, <3>1
    <3> QED
      BY <3>1, <3>2 DEF NestAt
  <2>6. NestAt(pc[p], stack[p])'
    BY <2>1, <2>3, <2>4, <2>5 DEF NestAt
  <2>7. TopOf(stack[p])' \in After(TopOf(stack[p])) /\ TopOf(stack[p]) = Head(s)
    BY <1>3, <2>1, <2>4 DEF TopOf, After
  <2> QED
    BY <1>3, <2>1, <2>6, <2>7 DEF NestAt
<1> QED
  BY <1>2, <1>3

\* What is said of a place depends on these variables only.
DataKept == UNCHANGED <<tasks, counted, drv, drvRemoved, lost, stops, file>>

LEMMA OnlyControlKept == OnlyControl => DataKept
BY DEF OnlyControl, DataKept, managerVars, driverVars, historyVars

LEMMA MatchesKept ==
    ASSUME Held' = Held, file' = file
    PROVE  (Matches' <=> Matches) /\ \A t : MatchesBut(t)' <=> MatchesBut(t)
BY DEF Matches, MatchesBut, OnFile

\* A step that only moves the goroutine on keeps what holds of the place it moves to.
LEMMA MovedPlace ==
    ASSUME DataKept, NEW p \in Procs, NEW label, NEW top, NEW l,
           pc'[p] = label, TopOf(stack[p])' = top, loc'[p] = l, NestAt(pc[p], stack[p])',
           PlaceAt(label, top, l)
    PROVE  Place(p)'
<1>1. UNCHANGED <<tasks, counted, drv, drvRemoved, lost, stops, file>>
  BY DEF DataKept
<1>2. Held' = Held /\ SlotFree' = SlotFree
  BY <1>1 DEF Held, SlotFree, With
<1>2a. (Matches' <=> Matches) /\ \A t : MatchesBut(t)' <=> MatchesBut(t)
  BY <1>1, <1>2, MatchesKept
<1>3. \A t : DriverUsable(t)' = DriverUsable(t) /\ Astray(t)' = Astray(t)
  BY <1>1 DEF DriverUsable, DriverKnows, DriverHas, Astray
<1>4. Fits(pc[p], TopOf(stack[p]), loc[p])'
  BY <1>1, <1>2, <1>3 DEF PlaceAt, Fits
<1>5. Agrees(pc[p], TopOf(stack[p]), loc[p])'
  BY <1>2, <1>3 DEF PlaceAt, Agrees
<1>6. Pending(label, l)' = Pending(label, l)
  BY <1>1, <1>2 DEF Pending
<1>7. Pending(pc[p], loc[p])' = Pending(label, l)
  BY <1>6 DEF Pending
<1>8. Counts(pc[p], loc[p])'
  BY <1>1, <1>7 DEF PlaceAt, Counts
<1>9. Filed(pc[p], TopOf(stack[p]), loc[p])'
  BY <1>2, <1>2a DEF PlaceAt, Filed, Collected, NamedIn
<1> QED
  BY <1>4, <1>5, <1>8, <1>9 DEF Place, PlaceAt

LEMMA GotoPlace ==
    ASSUME ControlType, NEW p \in Procs, Place(p), DataKept, NEW label, NEW l,
           Goto(p, label, l), Backs(pc[p]) \subseteq Backs(label),
           label \in StartLabels \cup PauseLabels => pc[p] \in StartLabels \cup PauseLabels,
           PlaceAt(label, TopOf(stack[p]), l)
    PROVE  Place(p)'
<1>1. /\ NestAt(pc[p], stack[p])'
      /\ pc'[p] = label /\ TopOf(stack[p])' = TopOf(stack[p]) /\ loc'[p] = l
  BY GotoNests DEF Place
<1> QED
  BY <1>1, MovedPlace

LEMMA CallPlace ==
    ASSUME ControlType, NEW p \in Procs, Place(p), DataKept, NEW label, NEW l,
           NEW back \in ReturnLabels, Call(p, label, back, l),
           back \in Backs(label), Backs(pc[p]) \subseteq Backs(back),
           PlaceAt(label, back, l)
    PROVE  Place(p)'
<1>1. /\ NestAt(pc[p], stack[p])'
      /\ pc'[p] = label /\ TopOf(stack[p])' = back /\ loc'[p] = l
  BY CallNests DEF Place
<1> QED
  BY <1>1, MovedPlace

\* A helper may return to any of its callers, a call to its client.
Returns(p, l) ==
    /\ TopOf(stack[p]) = "none" => PlaceAt("idle", "none", NoLocals)
    /\ TopOf(stack[p]) \in Backs(pc[p]) =>
          \A top \in After(TopOf(stack[p])) : PlaceAt(TopOf(stack[p]), top, l)

LEMMA ReturnPlace ==
    ASSUME ControlType, NEW p \in Procs, Place(p), DataKept, NEW l, Return(p, l),
           Returns(p, l)
    PROVE  Place(p)'
<1>1. /\ NestAt(pc[p], stack[p])'
      /\ \/ /\ stack[p] = <<>> /\ pc'[p] = "idle" /\ TopOf(stack[p])' = "none"
            /\ loc'[p] = NoLocals
         \/ /\ stack[p] # <<>> /\ TopOf(stack[p]) \in Backs(pc[p])
            /\ pc'[p] = TopOf(stack[p]) /\ loc'[p] = l
            /\ TopOf(stack[p])' \in After(TopOf(stack[p]))
  BY ReturnNests DEF Place
<1>2. CASE stack[p] = <<>>
  <2>1. PlaceAt("idle", "none", NoLocals)
    BY <1>2 DEF Returns, TopOf
  <2> QED
    BY <1>1, <1>2, <2>1, MovedPlace
<1>3. CASE stack[p] # <<>>
  BY <1>1, <1>3, MovedPlace DEF Returns
<1> QED
  BY <1>2, <1>3

\* Places that ask nothing of the locals.
Calm(label, top) ==
    /\ label \notin {"add.store", "option.driver", "fill.next", "add.mode", "add.started",
                     "add.paused", "start.driver", "start.tell", "pause.driver", "pause.tell",
                     "sync.tell", "save.got", "save.next"} \cup StoreLabels
    /\ top \notin {"save.got", "add.started", "add.paused", "fill.started"}
\* The driver's state of every task is stored.
Settled == \A t \in Held : ~Astray(t)

LEMMA PendingFalls ==
    ASSUME DataType, NEW label0, NEW l0, NEW label, NEW l, Counts(label0, l0),
           label \notin StoreLabels \/ l.got = drv[l.cur] \/ (label = label0 /\ l = l0)
    PROVE  Counts(label, l)
<1>1. Pending(label, l) \subseteq Pending(label0, l0) /\ Pending(label0, l0) \subseteq Tasks
  BY DEF Pending, Held
<1>2. IsFiniteSet(Pending(label0, l0)) /\ IsFiniteSet(Pending(label, l))
  BY <1>1, TasksAssumption, FS_Subset
<1>3. /\ Cardinality(Pending(label, l)) \in Nat /\ Cardinality(Pending(label0, l0)) \in Nat
      /\ Cardinality(Pending(label, l)) <= Cardinality(Pending(label0, l0))
  BY <1>1, <1>2, FS_Subset, FS_CardinalityType
<1> QED
  BY <1>3 DEF Counts, DataType

LEMMA CalmPlace ==
    ASSUME DataType, NEW label0, NEW top0, NEW l0, PlaceAt(label0, top0, l0),
           NEW label, NEW top, NEW l, Calm(label, top), Settled,
           Unsaved(label0, top0) => Unsaved(label, top)
    PROVE  PlaceAt(label, top, l)
<1>1. Fits(label, top, l)
  BY DEF Calm, Fits, NeedsHeld, Adding, StoreLabels
<1>2. Agrees(label, top, l)
  BY DEF Agrees, Settled
<1>3. Counts(label, l)
  BY PendingFalls DEF PlaceAt, Calm
<1>4. Filed(label, top, l)
  BY DEF PlaceAt, Filed, Calm, Adding
<1> QED
  BY <1>1, <1>2, <1>3, <1>4 DEF PlaceAt

LEMMA FreeSettled ==
    ASSUME NEW label, NEW top, NEW l, Agrees(label, top, l),
           label \notin Changing /\ top # "option.save"
    PROVE  Settled
BY DEF Agrees, Settled

\* Returns that ask nothing of the locals.
LEMMA CalmReturns ==
    ASSUME DataType, NEW p \in Procs, Place(p), NEW l, Settled, ~Unsaved(pc[p], "none"),
           TopOf(stack[p]) \notin {"save.got", "add.started", "add.paused"}
    PROVE  Returns(p, l)
<1> DEFINE top0 == TopOf(stack[p])
<1>1. PlaceAt(pc[p], top0, loc[p])
  BY DEF Place
<1>2. Calm("idle", "none")
  BY DEF Calm, StoreLabels
<1>3. ASSUME top0 = "none" PROVE PlaceAt("idle", "none", NoLocals)
  BY <1>1, <1>2, <1>3, CalmPlace
<1>4. ASSUME top0 \in Backs(pc[p]), NEW top \in After(top0) PROVE PlaceAt(top0, top, l)
  <2>1. top0 \in SyncBacks \cup StartBacks \cup PauseBacks \cup SaveBacks
    BY <1>4 DEF Backs, SaveBacks
  <2>2. top \in SaveBacks \cup {"none"}
    BY <1>4, <2>1 DEF After, Backs, SyncBacks, StartBacks, PauseBacks, SaveBacks, FillBacks,
       SyncLabels, StartLabels, PauseLabels, SaveLabels, FillLabels
  <2>3. Calm(top0, top)
    BY <2>1, <2>2 DEF Calm, StoreLabels, SyncBacks, StartBacks, PauseBacks, SaveBacks, FillBacks
  <2>4. Unsaved(pc[p], top0) => Unsaved(top0, top)
    BY DEF Unsaved
  <2> QED
    BY <1>1, <2>3, <2>4, CalmPlace
<1> QED
  BY <1>3, <1>4 DEF Returns

\* A refresh returns to SaveSession with the status to be saved.
LEMMA SyncReturns ==
    ASSUME DataType, NEW p \in Procs, Place(p), pc[p] \in SyncLabels, Settled, NEW l,
           l.cur = loc[p].cur, l.snap = loc[p].snap, l.saving = loc[p].saving,
           l.ok => l.got # None
    PROVE  Returns(p, l)
<1>1. CASE TopOf(stack[p]) # "save.got"
  <2>1. ASSUME TopOf(stack[p]) \in {"add.started", "add.paused"} PROVE Returns(p, l)
    BY <2>1 DEF Returns, Backs, SyncBacks
  <2>2. ~Unsaved(pc[p], "none")
    BY DEF Unsaved, SyncLabels, SaveLabels
  <2> QED
    BY <1>1, <2>1, <2>2, CalmReturns
<1>2. CASE TopOf(stack[p]) = "save.got"
  <2>1. PlaceAt(pc[p], "save.got", loc[p])
    BY <1>2 DEF Place
  <2>2. ASSUME NEW top \in After("save.got") PROVE PlaceAt("save.got", top, l)
    <3>1. top \in SaveBacks \cup {"none"}
      BY <2>2 DEF After, Backs, SyncLabels, StartLabels, PauseLabels, SaveLabels
    <3>2. Fits("save.got", top, l)
      BY <2>1, <3>1 DEF PlaceAt, Fits, NeedsHeld, Adding, StoreLabels, SaveBacks, FillBacks
    <3>3. Agrees("save.got", top, l)
      BY DEF Agrees, Settled
    <3>4. Counts("save.got", l)
      BY <2>1, PendingFalls DEF PlaceAt, StoreLabels
    <3>5. Filed("save.got", top, l)
      BY <2>1, <3>1 DEF PlaceAt, Filed, Adding, Unsaved, SaveLabels, Collected, SaveBacks, FillBacks
    <3> QED
      BY <3>2, <3>3, <3>4, <3>5 DEF PlaceAt
  <2> QED
    BY <1>2, <2>2 DEF Returns
<1> QED
  BY <1>1, <1>2

-----------------------------------------------------------------------------

LEMMA SyncPlace ==
    ASSUME TypeInv, NEW p \in Procs, Place(p), Sync(p) \/ SyncTell(p)
    PROVE  Place(p)'
<1>0. ControlType /\ DataType /\ loc[p] \in Locals /\ pc[p] \in SyncLabels
  BY DEF TypeInv, ControlType, Sync, SyncTell, At, SyncLabels
<1>1. CASE Sync(p) /\ Cur(p) \in Held
  <2> DEFINE l == [loc[p] EXCEPT !.got = tasks[Cur(p)]]
             top == TopOf(stack[p])
  <2>1. Goto(p, "sync.tell", l) /\ DataKept /\ pc[p] = "sync"
    BY <1>1, OnlyControlKept DEF Sync, At
  <2>2. /\ l.cur = loc[p].cur /\ l.arg = loc[p].arg /\ l.ok = loc[p].ok /\ l.got # None
        /\ l.snap = loc[p].snap /\ l.saving = loc[p].saving
    BY <1>0, <1>1 DEF Locals, Held, Cur
  <2>3. PlaceAt("sync", top, loc[p])
    BY <2>1 DEF Place
  <2> HIDE DEF l
  <2>4. Fits("sync.tell", top, l)
    BY <1>1, <2>2, <2>3 DEF PlaceAt, Fits, NeedsHeld, Adding, StoreLabels, Cur
  <2>5. Agrees("sync.tell", top, l)
    BY <2>2, <2>3 DEF PlaceAt, Agrees, Changing
  <2>6. Counts("sync.tell", l)
    BY <1>0, <2>3, PendingFalls DEF PlaceAt, StoreLabels
  <2>7. Filed("sync.tell", top, l)
    BY <2>2, <2>3 DEF PlaceAt, Filed, Adding, Unsaved, SaveLabels, Collected
  <2>8. PlaceAt("sync.tell", top, l) /\ Backs("sync") = Backs("sync.tell")
    BY <2>4, <2>5, <2>6, <2>7 DEF PlaceAt, Backs, SyncLabels
  <2>9. "sync.tell" \notin StartLabels \cup PauseLabels
    BY DEF StartLabels, PauseLabels
  <2> QED
    BY <1>0, <2>1, <2>8, <2>9, GotoPlace
<1>2. CASE Sync(p) /\ Cur(p) \notin Held
  <2> DEFINE l == [loc[p] EXCEPT !.got = None]
             m == [l EXCEPT !.ok = FALSE]
  <2>1. Return(p, m) /\ DataKept /\ pc[p] = "sync"
    BY <1>2, OnlyControlKept DEF Sync, At, Fail
  <2>2. m.cur = loc[p].cur /\ m.snap = loc[p].snap /\ m.saving = loc[p].saving /\ ~m.ok
    BY <1>0 DEF Locals
  <2>3. Settled
    BY <1>2, <2>1 DEF Place, PlaceAt, Agrees, Settled, Changing, Cur
  <2> HIDE DEF m
  <2>4. Returns(p, m)
    BY <1>0, <2>2, <2>3, SyncReturns
  <2> QED
    BY <1>0, <2>1, <2>4, ReturnPlace
<1>3. CASE SyncTell(p) /\ DriverKnows(Cur(p))
  <2> DEFINE l == [loc[p] EXCEPT !.got = drv[Cur(p)]]
             top == TopOf(stack[p])
  <2>1. Goto(p, "sync.store", l) /\ DataKept /\ pc[p] = "sync.tell"
    BY <1>3, OnlyControlKept DEF SyncTell, At
  <2>2. /\ l.cur = loc[p].cur /\ l.arg = loc[p].arg /\ l.ok = loc[p].ok /\ l.got = drv[l.cur]
        /\ l.snap = loc[p].snap /\ l.saving = loc[p].saving
    BY <1>0, <1>3 DEF Locals, Cur
  <2>3. PlaceAt("sync.tell", top, loc[p])
    BY <2>1 DEF Place
  <2> HIDE DEF l
  <2>4. Fits("sync.store", top, l)
    BY <1>3, <2>2, <2>3
       DEF PlaceAt, Fits, NeedsHeld, Adding, StoreLabels, Agrees, Changing, Astray, DriverKnows, Cur
  <2>5. Agrees("sync.store", top, l)
    BY <2>2, <2>3 DEF PlaceAt, Agrees, Changing
  <2>6. Counts("sync.store", l)
    BY <1>0, <2>2, <2>3, PendingFalls DEF PlaceAt
  <2>7. Filed("sync.store", top, l)
    BY <2>2, <2>3 DEF PlaceAt, Filed, Adding, Unsaved, SaveLabels, Collected
  <2>8. PlaceAt("sync.store", top, l) /\ Backs("sync.tell") = Backs("sync.store")
    BY <2>4, <2>5, <2>6, <2>7 DEF PlaceAt, Backs, SyncLabels
  <2>9. "sync.store" \notin StartLabels \cup PauseLabels
    BY DEF StartLabels, PauseLabels
  <2> QED
    BY <1>0, <2>1, <2>8, <2>9, GotoPlace
<1>4. CASE SyncTell(p) /\ ~DriverKnows(Cur(p))
  <2> DEFINE m == [loc[p] EXCEPT !.ok = TRUE]
  <2>1. Return(p, m) /\ DataKept /\ pc[p] = "sync.tell"
    BY <1>4, OnlyControlKept DEF SyncTell, At, Succeed
  <2>2. m.cur = loc[p].cur /\ m.snap = loc[p].snap /\ m.saving = loc[p].saving /\ m.got = loc[p].got
    BY <1>0 DEF Locals
  <2>3. m.got # None
    BY <2>1, <2>2 DEF Place, PlaceAt, Fits
  <2>4. Settled
    BY <1>4, <2>1, NoneAssumption
       DEF Place, PlaceAt, Agrees, Settled, Changing, Cur, DriverKnows, DriverHas, Astray, Statuses, Held
  <2> HIDE DEF m
  <2>5. Returns(p, m)
    BY <1>0, <2>2, <2>3, <2>4, SyncReturns
  <2> QED
    BY <1>0, <2>1, <2>5, ReturnPlace
<1> QED
  BY <1>1, <1>2, <1>3, <1>4

\* The helpers that start and pause a task, where they look it up and ask the driver.
LEMMA LookupPlace ==
    ASSUME TypeInv, NEW p \in Procs, Place(p), Start(p) \/ PauseTaskByID(p)
    PROVE  Place(p)'
<1> DEFINE l == loc[p]
           top == TopOf(stack[p])
<1>0. ControlType /\ DataType /\ PlaceAt(pc[p], top, l)
  BY DEF TypeInv, Place
<1>1. DataKept /\ (pc[p] = "start" \/ pc[p] = "pause")
  BY OnlyControlKept DEF Start, PauseTaskByID, At
<1>2. Settled /\ ~Unsaved(pc[p], "none")
  <2>1. top # "option.save"
    BY <1>1 DEF Place, NestAt, TopOf, Backs, StartLabels, PauseLabels, SyncLabels, StartBacks,
       PauseBacks
  <2> QED
    BY <1>0, <1>1, <2>1, FreeSettled DEF PlaceAt, Changing, Unsaved, SaveLabels
<1>3. CASE Cur(p) \notin Held
  <2> DEFINE m == [l EXCEPT !.ok = FALSE]
  <2>1. Return(p, m)
    BY <1>3 DEF Start, PauseTaskByID, Fail
  <2>2. top \notin {"save.got", "add.started", "add.paused"}
    BY <1>0, <1>3 DEF PlaceAt, Fits, NeedsHeld, Adding, Cur
  <2> HIDE DEF m
  <2>3. Returns(p, m)
    BY <1>0, <1>2, <2>2, CalmReturns
  <2> QED
    BY <1>0, <1>1, <2>1, <2>3, ReturnPlace
<1>4. ASSUME NEW label \in {"start.driver", "pause.driver"}, Goto(p, label, l), Cur(p) \in Held,
             pc[p] = "start" <=> label = "start.driver"
      PROVE  Place(p)'
  <2>1. Fits(label, top, l)
    BY <1>0, <1>1, <1>4 DEF PlaceAt, Fits, NeedsHeld, Adding, StoreLabels, Cur
  <2>2. Agrees(label, top, l)
    BY <1>2 DEF Agrees, Settled
  <2>3. Counts(label, l)
    BY <1>0, <1>4, PendingFalls DEF PlaceAt, StoreLabels
  <2>4. Filed(label, top, l)
    BY <1>0, <1>1, <1>4 DEF PlaceAt, Filed, Adding, Unsaved, SaveLabels
  <2>5. PlaceAt(label, top, l)
    BY <2>1, <2>2, <2>3, <2>4 DEF PlaceAt
  <2>6. /\ Backs(pc[p]) = Backs(label)
        /\ pc[p] \in StartLabels \cup PauseLabels
    BY <1>1, <1>4 DEF Backs, SyncLabels, StartLabels, PauseLabels
  <2> QED
    BY <1>0, <1>1, <1>4, <2>5, <2>6, GotoPlace
<1> QED
  BY <1>1, <1>3, <1>4 DEF Start, PauseTaskByID, At

\* They fail and leave everything as it is; an Add that fails was of a task that may be lost.
LEMMA FailedPlace ==
    ASSUME TypeInv, NEW p \in Procs, Place(p), DataKept, Settled,
           pc[p] \in {"start.driver", "pause.driver", "start.tell", "pause.tell"},
           ~DriverUsable(loc[p].cur), NEW m, Return(p, m),
           m.cur = loc[p].cur, m.arg = loc[p].arg, ~m.ok
    PROVE  Place(p)'
<1> DEFINE top == TopOf(stack[p])
<1>0. ControlType /\ DataType /\ loc[p] \in Locals /\ PlaceAt(pc[p], top, loc[p])
  BY DEF TypeInv, ControlType, Place
<1>1. top \notin {"save.got", "option.save"}
  BY DEF Place, NestAt, TopOf, Backs, StartLabels, PauseLabels, SyncLabels, SaveLabels,
     FillLabels, StartBacks, PauseBacks
<1>2. ~Unsaved(pc[p], "none")
  BY DEF Unsaved, SaveLabels
<1>3. CASE top \notin {"add.started", "add.paused"}
  <2>1. Returns(p, m)
    BY <1>0, <1>1, <1>2, <1>3, CalmReturns
  <2> QED
    BY <1>0, <2>1, ReturnPlace
<1>4. CASE top \in {"add.started", "add.paused"}
  <2>1. ASSUME NEW after \in After(top) PROVE PlaceAt(top, after, m)
    <3>1. after = "none"
      BY <1>4, <2>1 DEF After, Backs, SyncLabels, StartLabels, PauseLabels, SaveLabels, FillLabels
    <3>2. Fits(top, after, m)
      BY <1>0, <1>4, <3>1 DEF PlaceAt, Fits, NeedsHeld, Adding, StoreLabels
    <3>3. Agrees(top, after, m) /\ Counts(top, m)
      BY <1>0, <1>4, PendingFalls DEF Agrees, Settled, PlaceAt, StoreLabels
    <3>4. Filed(top, after, m)
      BY <1>0, <1>4, <3>1 DEF PlaceAt, Filed, Adding, Unsaved
    <3> QED
      BY <3>2, <3>3, <3>4 DEF PlaceAt
  <2>2. Returns(p, m)
    BY <1>4, <2>1 DEF Returns
  <2> QED
    BY <1>0, <2>2, ReturnPlace
<1> QED
  BY <1>3, <1>4

LEMMA AnswerPlace ==
    ASSUME TypeInv, NEW p \in Procs, Place(p), StartTell(p) \/ PauseTell(p)
    PROVE  Place(p)'
<1> DEFINE top == TopOf(stack[p])
<1>0. ControlType /\ DataType /\ loc[p] \in Locals /\ PlaceAt(pc[p], top, loc[p])
  BY DEF TypeInv, ControlType, Place
<1>1. DataKept /\ (pc[p] = "start.tell" \/ pc[p] = "pause.tell") /\ Cur(p) \in Held
  BY <1>0, OnlyControlKept DEF StartTell, PauseTell, At, PlaceAt, Fits, NeedsHeld, Cur
<1>2. CASE ~DriverKnows(Cur(p))
  <2> DEFINE m == [loc[p] EXCEPT !.ok = FALSE]
  <2>1. Return(p, m)
    BY <1>2 DEF StartTell, PauseTell, Fail
  <2>2. m.cur = loc[p].cur /\ m.arg = loc[p].arg /\ ~m.ok
    BY <1>0 DEF Locals
  <2>3. top # "option.save"
    BY <1>0, <1>1 DEF Place, NestAt, TopOf, Backs, StartLabels, PauseLabels, SyncLabels,
       StartBacks, PauseBacks
  <2>4. Settled
    BY <1>0, <1>1, <1>2, <2>3, NoneAssumption DEF PlaceAt, Agrees, Settled, Cur, DriverKnows, DriverHas,
       Astray, Statuses, Held
  <2> HIDE DEF m
  <2> QED
    BY <1>1, <1>2, <2>1, <2>2, <2>4, FailedPlace DEF DriverUsable, Cur
<1>3. CASE DriverKnows(Cur(p))
  <2> DEFINE l == [loc[p] EXCEPT !.got = drv[Cur(p)]]
             label == IF pc[p] = "start.tell" THEN "start.store" ELSE "pause.store"
  <2>1. Goto(p, label, l)
    BY <1>1, <1>3 DEF StartTell, PauseTell, At
  <2>2. /\ l.cur = loc[p].cur /\ l.arg = loc[p].arg /\ l.ok = loc[p].ok /\ l.got = drv[l.cur]
        /\ l.snap = loc[p].snap /\ l.saving = loc[p].saving
    BY <1>0 DEF Locals, Cur
  <2>3. /\ label \in {"start.store", "pause.store"}
        /\ label = "pause.store" => pc[p] = "pause.tell"
    BY <1>1
  <2>4. /\ Backs(pc[p]) = Backs(label)
        /\ pc[p] \in StartLabels \cup PauseLabels
    BY <1>1 DEF Backs, SyncLabels, StartLabels, PauseLabels
  <2> HIDE DEF l, label
  <2>5. Fits(label, top, l)
    BY <1>0, <1>1, <2>2, <2>3 DEF PlaceAt, Fits, NeedsHeld, Adding, StoreLabels, Cur
  <2>6. Agrees(label, top, l)
    BY <1>0, <2>2, <2>3 DEF PlaceAt, Agrees, Changing
  <2>7. Counts(label, l)
    BY <1>0, <2>2, PendingFalls DEF PlaceAt
  <2>8. Filed(label, top, l)
    BY <1>0, <1>1, <2>2, <2>3 DEF PlaceAt, Filed, Adding, Unsaved, SaveLabels, Collected
  <2>9. PlaceAt(label, top, l)
    BY <2>5, <2>6, <2>7, <2>8 DEF PlaceAt
  <2> QED
    BY <1>0, <1>1, <2>1, <2>4, <2>9, GotoPlace
<1> QED
  BY <1>2, <1>3

\* A driver that does not know the task, has it removed or has lost it changes nothing.
LEMMA RefusedPlace ==
    ASSUME TypeInv, NEW p \in Procs, Place(p), StartDriver(p) \/ PauseDriver(p),
           ~DriverUsable(Cur(p))
    PROVE  Place(p)'
<1> DEFINE top == TopOf(stack[p])
           g == IF Cur(p) \in lost THEN Refusal ELSE loc[p].got
           m == [[loc[p] EXCEPT !.got = g] EXCEPT !.ok = FALSE]
<1>0. loc[p] \in Locals /\ PlaceAt(pc[p], top, loc[p])
  BY DEF TypeInv, ControlType, Place
<1>1. /\ pc[p] = "start.driver" \/ pc[p] = "pause.driver"
      /\ DataKept /\ Return(p, m)
  BY OnlyControlKept DEF StartDriver, PauseDriver, At, OnlyControl, DriverFails, Fail
<1>2. m.cur = loc[p].cur /\ m.arg = loc[p].arg /\ ~m.ok
  BY <1>0 DEF Locals
<1>3. top # "option.save"
  BY <1>1 DEF Place, NestAt, TopOf, Backs, StartLabels, PauseLabels, SyncLabels,
     StartBacks, PauseBacks
<1>4. Settled
  BY <1>0, <1>1, <1>3, FreeSettled DEF PlaceAt, Changing
<1> HIDE DEF m
<1> QED
  BY <1>1, <1>2, <1>4, FailedPlace DEF Cur

\* The labels that lie between two calls of a helper, and the helpers that they begin.
LEMMA StepOn ==
    ASSUME TypeInv, NEW p \in Procs, Place(p), DataKept, Settled,
           NEW label, NEW l, Goto(p, label, l), Calm(label, TopOf(stack[p])),
           Backs(pc[p]) \subseteq Backs(label), label \notin StartLabels \cup PauseLabels,
           Unsaved(pc[p], TopOf(stack[p])) => Unsaved(label, TopOf(stack[p]))
    PROVE  Place(p)'
<1>1. PlaceAt(label, TopOf(stack[p]), l)
  BY CalmPlace DEF TypeInv, Place
<1> QED
  BY <1>1, GotoPlace DEF TypeInv

LEMMA CallOn ==
    ASSUME TypeInv, NEW p \in Procs, Place(p), DataKept, Settled,
           NEW label, NEW l, NEW back \in ReturnLabels, Call(p, label, back, l),
           Calm(label, back), back \in Backs(label), Backs(pc[p]) \subseteq Backs(back),
           Unsaved(pc[p], TopOf(stack[p])) => Unsaved(label, back)
    PROVE  Place(p)'
<1>1. PlaceAt(label, back, l)
  BY CalmPlace DEF TypeInv, Place
<1> QED
  BY <1>1, CallPlace DEF TypeInv

LEMMA ReturnOn ==
    ASSUME TypeInv, NEW p \in Procs, Place(p), DataKept, Settled,
           NEW l, Return(p, l), ~Unsaved(pc[p], "none"),
           TopOf(stack[p]) \notin {"save.got", "add.started", "add.paused"}
    PROVE  Place(p)'
BY CalmReturns, ReturnPlace DEF TypeInv

\* Where a goroutine is at a label of SaveSession, of fillSlots, or of no helper.
LEMMA TopAt ==
    ASSUME NEW p \in Procs, Place(p)
    PROVE  /\ TopOf(stack[p]) \in Backs(pc[p]) \cup {"none"}
           /\ pc[p] \in SaveLabels => TopOf(stack[p]) \in SaveBacks \cup {"none"}
           /\ pc[p] \in FillLabels => TopOf(stack[p]) \in FillBacks \cup {"none"}
           /\ pc[p] \notin SyncLabels \cup StartLabels \cup PauseLabels \cup SaveLabels
                              \cup FillLabels
                 => Backs(pc[p]) = {} /\ TopOf(stack[p]) = "none"
           /\ pc[p] \notin SyncLabels \cup StartLabels \cup PauseLabels => Settled
<1>1. TopOf(stack[p]) \in Backs(pc[p]) \cup {"none"}
  BY DEF Place, NestAt, TopOf
<1>2. ASSUME pc[p] \notin SyncLabels \cup StartLabels \cup PauseLabels PROVE Settled
  <2>1. TopOf(stack[p]) \in SaveBacks \cup {"none"}
    BY <1>1, <1>2 DEF Backs, SaveBacks
  <2>2. pc[p] \notin Changing /\ TopOf(stack[p]) # "option.save"
    BY <1>2, <2>1 DEF Changing, StartLabels, PauseLabels, SaveBacks, FillBacks
  <2> QED
    BY <2>2, FreeSettled DEF Place, PlaceAt
<1> QED
  BY <1>1, <1>2 DEF Backs, SyncLabels, StartLabels, PauseLabels, SaveLabels, FillLabels

LEMMA SavePlace ==
    ASSUME TypeInv, NEW p \in Procs, Place(p), Save(p) \/ SaveNext(p) \/ SaveGot(p)
    PROVE  Place(p)'
<1> DEFINE top == TopOf(stack[p])
<1>0. /\ ControlType /\ DataType /\ loc[p] \in Locals /\ PlaceAt(pc[p], top, loc[p])
      /\ DataKept /\ pc[p] \in SaveLabels /\ Held \subseteq Tasks
  BY OnlyControlKept DEF TypeInv, ControlType, Place, Save, SaveNext, SaveGot, At, SaveLabels, Held
<1>1. top \in SaveBacks \cup {"none"} /\ Settled /\ Backs(pc[p]) = SaveBacks
  BY <1>0, TopAt DEF Backs, SaveLabels, SyncLabels, StartLabels, PauseLabels
<1>2. \A label \in {"save.next", "save.got"} :
         Backs(label) = SaveBacks /\ label \notin StartLabels \cup PauseLabels
  BY DEF Backs, SaveLabels, SyncLabels, StartLabels, PauseLabels
<1>3. ASSUME NEW l \in Locals, Goto(p, "save.next", l), Collected(l, {}) PROVE Place(p)'
  <2>1. Fits("save.next", top, l)
    BY <1>1 DEF Fits, NeedsHeld, Adding, StoreLabels, SaveBacks, FillBacks
  <2>2. Agrees("save.next", top, l) /\ Counts("save.next", l)
    BY <1>0, <1>1, PendingFalls DEF Agrees, Settled, PlaceAt, StoreLabels
  <2>3. Filed("save.next", top, l)
    BY <1>1, <1>3 DEF Filed, Adding, Unsaved, SaveLabels, SaveBacks, FillBacks
  <2>4. PlaceAt("save.next", top, l)
    BY <2>1, <2>2, <2>3 DEF PlaceAt
  <2> QED
    BY <1>0, <1>1, <1>2, <1>3, <2>4, GotoPlace
<1>4. CASE Save(p)
  <2> DEFINE l == [loc[p] EXCEPT !.saving = Held, !.snap = EmptyFile]
  <2>1. l \in Locals
    BY <1>0, LocalsType
  <2>1a. l.saving = Held /\ l.snap = EmptyFile
    BY <1>0 DEF Locals
  <2>2. Goto(p, "save.next", l)
    BY <1>4 DEF Save
  <2> HIDE DEF l
  <2>3. Collected(l, {})
    BY <2>1a DEF Collected, NamedIn, EmptyFile
  <2> QED
    BY <1>3, <2>1, <2>2, <2>3
<1>5. CASE SaveNext(p)
  <2>1. PICK t \in loc[p].saving :
           Call(p, "sync", "save.got", [loc[p] EXCEPT !.cur = t, !.saving = @ \ {t}])
    BY <1>5 DEF SaveNext
  <2> DEFINE l == [loc[p] EXCEPT !.cur = t, !.saving = @ \ {t}]
  <2>2. l.cur = t /\ l.saving = loc[p].saving \ {t} /\ l.snap = loc[p].snap
    BY <1>0 DEF Locals
  <2>3. Collected(loc[p], {})
    BY <1>0, <1>5 DEF PlaceAt, Filed, SaveNext, At
  <2> HIDE DEF l
  <2>4. Collected(l, {l.cur}) /\ l.cur \in Held
    BY <2>2, <2>3 DEF Collected
  <2>5. Fits("sync", "save.got", l)
    BY <2>4 DEF Fits, NeedsHeld, Adding, StoreLabels
  <2>6. Agrees("sync", "save.got", l) /\ Counts("sync", l)
    BY <1>0, <1>1, PendingFalls DEF Agrees, Settled, PlaceAt, StoreLabels
  <2>7. Filed("sync", "save.got", l)
    BY <2>4 DEF Filed, Adding, Unsaved
  <2>8. PlaceAt("sync", "save.got", l)
    BY <2>5, <2>6, <2>7 DEF PlaceAt
  <2>9. "save.got" \in ReturnLabels /\ "save.got" \in Backs("sync")
    BY DEF ReturnLabels, Backs, SyncLabels, SyncBacks
  <2> QED
    BY <1>0, <1>1, <1>2, <2>1, <2>8, <2>9, CallPlace DEF l
<1>6. CASE SaveGot(p)
  <2> DEFINE s == CASE loc[p].ok -> loc[p].got
                    [] ~loc[p].ok /\ Cur(p) \in Held -> tasks[Cur(p)]
                    [] OTHER -> None
             l == [loc[p] EXCEPT !.snap[Cur(p)] = s]
  <2>1. Goto(p, "save.next", l) /\ pc[p] = "save.got"
    BY <1>6 DEF SaveGot, At
  <2>2. /\ Cur(p) \in Held /\ Collected(loc[p], {Cur(p)})
        /\ loc[p].ok => loc[p].got # None
    BY <1>0, <2>1 DEF PlaceAt, Fits, NeedsHeld, Filed, Cur
  <2>3. s # None /\ s \in Statuses \cup {None}
    BY <1>0, <2>2 DEF Held, Locals, DataType
  <2> HIDE DEF s
  <2>4. l \in Locals
    BY <1>0, <2>2, <2>3, LocalsType DEF Held
  <2>5. l.saving = loc[p].saving /\ l.snap = [loc[p].snap EXCEPT ![Cur(p)] = s]
    BY <1>0 DEF Locals
  <2> HIDE DEF l
  <2>6. NamedIn(l.snap) = NamedIn(loc[p].snap) \cup {Cur(p)}
    BY <1>0, <2>2, <2>3, <2>5 DEF NamedIn, Locals
  <2>7. Collected(l, {})
    BY <2>2, <2>5, <2>6 DEF Collected
  <2> QED
    BY <1>3, <2>1, <2>4, <2>7
<1> QED
  BY <1>4, <1>5, <1>6

LEMMA FillPlace ==
    ASSUME TypeInv, NEW p \in Procs, Place(p),
           Fill(p) \/ FillNext(p) \/ FillStarted(p) \/ FillEnd(p)
    PROVE  Place(p)'
<1> DEFINE top == TopOf(stack[p])
<1>0. /\ ControlType /\ DataType /\ loc[p] \in Locals /\ PlaceAt(pc[p], top, loc[p])
      /\ DataKept /\ pc[p] \in FillLabels
  BY OnlyControlKept DEF TypeInv, ControlType, Place, Fill, FillNext, FillStarted, FillEnd, At, FillLabels
<1>1. top \in FillBacks \cup {"none"} /\ Settled /\ Backs(pc[p]) = FillBacks
  BY <1>0, TopAt DEF Backs, SaveLabels, SyncLabels, StartLabels, PauseLabels, FillLabels
<1>2. \A label \in FillLabels \cup {"save"} : /\ FillBacks \subseteq Backs(label)
                                              /\ label \notin StartLabels \cup PauseLabels
  BY DEF Backs, SaveBacks, SaveLabels, SyncLabels, StartLabels, PauseLabels, FillLabels
<1>3. ~Unsaved(pc[p], top) /\ ~Unsaved(pc[p], "none")
      /\ top \notin {"save.got", "add.started", "add.paused", "fill.started"}
  BY <1>0, <1>1 DEF Unsaved, FillBacks, FillLabels, SaveLabels
<1>4. ASSUME NEW label \in {"fill.end", "save"}, NEW l, Goto(p, label, l) PROVE Place(p)'
  <2>1. Calm(label, top)
    BY <1>3, <1>4 DEF Calm, StoreLabels
  <2> QED
    BY <1>0, <1>1, <1>2, <1>3, <1>4, <2>1, StepOn DEF FillLabels
<1>5. ASSUME NEW l, Return(p, l) PROVE Place(p)'
  BY <1>0, <1>1, <1>3, <1>5, ReturnOn
<1>6. CASE Fill(p)
  <2>1. CASE SlotFree
    <3>1. Goto(p, "fill.next", loc[p])
      BY <1>6, <2>1 DEF Fill
    <3>2. Fits("fill.next", top, loc[p])
      BY <1>3, <2>1 DEF Fits, NeedsHeld, Adding, StoreLabels
    <3>3. Agrees("fill.next", top, loc[p]) /\ Counts("fill.next", loc[p])
      BY <1>0, <1>1, PendingFalls DEF Agrees, Settled, PlaceAt, StoreLabels
    <3>4. Filed("fill.next", top, loc[p])
      BY <1>0, <1>3 DEF PlaceAt, Filed, Adding
    <3>5. PlaceAt("fill.next", top, loc[p])
      BY <3>2, <3>3, <3>4 DEF PlaceAt
    <3>6. "fill.next" \in FillLabels
      BY DEF FillLabels
    <3> QED
      BY <1>0, <1>1, <1>2, <3>1, <3>5, <3>6, GotoPlace
  <2>2. CASE ~SlotFree
    BY <1>4, <1>6, <2>2 DEF Fill
  <2> QED
    BY <2>1, <2>2
<1>7. CASE FillNext(p)
  <2>1. ASSUME NEW t \in Tasks, NextWaiting(t),
               Call(p, "start", "fill.started", [loc[p] EXCEPT !.cur = t])
        PROVE  Place(p)'
    <3> DEFINE l == [loc[p] EXCEPT !.cur = t]
    <3>1. l.cur = t /\ tasks[t] = "waiting" /\ SlotFree
      BY <1>0, <1>7, <2>1 DEF Locals, NextWaiting, PlaceAt, Fits, FillNext, At
    <3> HIDE DEF l
    <3>2. Fits("start", "fill.started", l)
      BY <3>1 DEF Fits, NeedsHeld, Adding, StoreLabels
    <3>3. Agrees("start", "fill.started", l) /\ Counts("start", l)
      BY <1>0, <1>1, PendingFalls DEF Agrees, Settled, PlaceAt, StoreLabels
    <3>4. Filed("start", "fill.started", l)
      BY <1>0, <1>3 DEF PlaceAt, Filed, Adding
    <3>5. PlaceAt("start", "fill.started", l)
      BY <3>2, <3>3, <3>4 DEF PlaceAt
    <3>6. /\ "fill.started" \in ReturnLabels /\ "fill.started" \in Backs("start")
          /\ "fill.started" \in FillLabels
      BY DEF ReturnLabels, Backs, SyncLabels, StartLabels, StartBacks, FillLabels
    <3> QED
      BY <1>0, <1>1, <1>2, <2>1, <3>5, <3>6, CallPlace DEF l
  <2> QED
    BY <1>4, <1>7, <2>1 DEF FillNext
<1>8. CASE FillStarted(p)
  <2>1. ASSUME Call(p, "sync", "fill", [loc[p] EXCEPT !.started = TRUE]) PROVE Place(p)'
    <3>1. /\ "fill" \in ReturnLabels /\ "fill" \in Backs("sync") /\ "fill" \in FillLabels
          /\ Calm("sync", "fill")
      BY DEF ReturnLabels, Backs, SyncLabels, SyncBacks, FillLabels, Calm, StoreLabels
    <3> QED
      BY <1>0, <1>1, <1>2, <1>3, <2>1, <3>1, CallOn
  <2> QED
    BY <1>5, <1>8, <2>1 DEF FillStarted, Fail
<1>9. CASE FillEnd(p)
  BY <1>4, <1>5, <1>9 DEF FillEnd, Succeed
<1> QED
  BY <1>6, <1>7, <1>8, <1>9

\* The labels of the calls themselves.
Helpers == SyncLabels \cup StartLabels \cup PauseLabels \cup SaveLabels \cup FillLabels
Ready(label, from) == /\ label \notin StartLabels \cup PauseLabels
                      /\ Calm(label, "none")
                      /\ Unsaved(from, "none") => Unsaved(label, "none")

LEMMA ClientGoto ==
    ASSUME TypeInv, NEW p \in Procs, Place(p), DataKept, pc[p] \notin Helpers,
           NEW label, NEW l, Goto(p, label, l), Ready(label, pc[p])
    PROVE  Place(p)'
<1>1. Backs(pc[p]) = {} /\ TopOf(stack[p]) = "none" /\ Settled
  BY TopAt DEF Helpers
<1> QED
  BY <1>1, StepOn DEF Ready

LEMMA ClientCall ==
    ASSUME TypeInv, NEW p \in Procs, Place(p), DataKept, pc[p] \notin Helpers,
           NEW label, NEW l, NEW back \in ReturnLabels, Call(p, label, back, l),
           Calm(label, back), back \in Backs(label),
           Unsaved(pc[p], "none") => Unsaved(label, back)
    PROVE  Place(p)'
<1>1. Backs(pc[p]) = {} /\ TopOf(stack[p]) = "none" /\ Settled
  BY TopAt DEF Helpers
<1> QED
  BY <1>1, CallOn

LEMMA ClientReturn ==
    ASSUME TypeInv, NEW p \in Procs, Place(p), DataKept, pc[p] \notin Helpers,
           NEW l, Return(p, l), ~Unsaved(pc[p], "none")
    PROVE  Place(p)'
<1>1. TopOf(stack[p]) = "none" /\ Settled
  BY TopAt DEF Helpers
<1> QED
  BY <1>1, ReturnOn

\* An Add that its driver has refused leaves the task, which no save has recorded.
LEMMA AddFails ==
    ASSUME TypeInv, NEW p \in Procs, Place(p), DataKept, pc[p] \in {"add.started", "add.paused"},
           loc[p].cur \in Losable, NEW l, Return(p, l)
    PROVE  Place(p)'
<1>1. pc[p] \notin Helpers
  BY DEF Helpers, SyncLabels, StartLabels, PauseLabels, SaveLabels, FillLabels
<1>2. /\ ControlType /\ DataType /\ TopOf(stack[p]) = "none" /\ Settled
      /\ PlaceAt(pc[p], "none", loc[p])
  BY <1>1, TopAt DEF Helpers, TypeInv, Place
<1>3. Fits("idle", "none", NoLocals) /\ Agrees("idle", "none", NoLocals)
  BY <1>2 DEF Fits, NeedsHeld, Adding, StoreLabels, Agrees, Settled
<1>4. Counts("idle", NoLocals)
  BY <1>2, PendingFalls DEF PlaceAt, StoreLabels
<1>5. MatchesBut(loc[p].cur)
  BY <1>2 DEF PlaceAt, Filed, Adding
<1>6. Filed("idle", "none", NoLocals)
  BY <1>5 DEF Filed, Adding, Matches, MatchesBut
<1>7. PlaceAt("idle", "none", NoLocals)
  BY <1>3, <1>4, <1>6 DEF PlaceAt
<1>8. "none" \notin Backs(pc[p])
  BY DEF Backs, SyncLabels, StartLabels, PauseLabels, SaveLabels, FillLabels
<1>9. Returns(p, l)
  BY <1>2, <1>7, <1>8 DEF Returns
<1> QED
  BY <1>2, <1>9, ReturnPlace

LEMMA Calls ==
    /\ \A back \in {"unpause.save", "result.check", "purgeAll.check", "active.done", "add.save"} :
          back \in ReturnLabels /\ Calm("sync", back) /\ back \in Backs("sync")
    /\ \A back \in {"rm.fill", "pause.fill", "pauseAll", "unpauseAll", "purgeAll"} :
          back \in ReturnLabels /\ Calm("save", back) /\ back \in Backs("save")
    /\ \A back \in {"rm.unlock", "active"} :
          back \in ReturnLabels /\ Calm("fill", back) /\ back \in Backs("fill")
    /\ \A back \in {"unpause.sync", "unpauseAll.save"} :
          back \in ReturnLabels /\ Calm("start", back) /\ back \in Backs("start")
    /\ "pauseAll.save" \in ReturnLabels /\ Calm("pause", "pauseAll.save")
    /\ "pauseAll.save" \in Backs("pause")
    /\ \A back : Unsaved("save", back) /\ Unsaved("sync", "add.save")
BY DEF ReturnLabels, Calm, StoreLabels, Backs, SyncLabels, StartLabels, PauseLabels, SaveLabels,
   FillLabels, SyncBacks, StartBacks, PauseBacks, SaveBacks, FillBacks, Unsaved

LEMMA CallsPlace ==
    ASSUME TypeInv, NEW p \in Procs, Place(p),
           \/ AddStarted(p) \/ AddPaused(p) \/ AddSave(p)
           \/ PauseSave(p) \/ PauseFill(p) \/ PauseAllLoop(p) \/ PauseAllSave(p)
           \/ UnpauseSync(p) \/ UnpauseSave(p) \/ UnpauseAllLoop(p) \/ UnpauseAllSave(p)
           \/ ChangeOptionSave(p) \/ ResultCheck(p) \/ PurgeAllLoop(p) \/ PurgeAllCheck(p)
           \/ PurgeAllLookup(p) \/ SyncActiveLoop(p) \/ SyncActiveDone(p)
    PROVE  Place(p)'
<1>0. DataKept /\ pc[p] \notin Helpers
  BY OnlyControlKept DEF AddStarted, AddPaused, AddSave, PauseSave, PauseFill, PauseAllLoop,
     PauseAllSave, UnpauseSync, UnpauseSave, UnpauseAllLoop, UnpauseAllSave, ChangeOptionSave,
     ResultCheck, PurgeAllLoop, PurgeAllCheck, PurgeAllLookup, SyncActiveLoop, SyncActiveDone, At,
     Helpers, SyncLabels, StartLabels, PauseLabels, SaveLabels, FillLabels
<1>2. \A label \in {"add.save", "save", "fill", "pauseAll", "unpauseAll", "result.driver",
                    "purgeAll.driver", "purgeAll", "active"} :
         label \notin StartLabels \cup PauseLabels /\ Calm(label, "none")
  BY DEF StartLabels, PauseLabels, Calm, StoreLabels
<1>3. Unsaved("save", "none") /\ Unsaved("add.save", "none")
  BY DEF Unsaved, SaveLabels
<1>4. pc[p] \in {"add.started", "add.paused"} => loc[p].ok \/ loc[p].cur \in Losable
  BY DEF Place, PlaceAt, Fits
<1>5. CASE AddStarted(p)
  BY <1>0, <1>4, <1>5, Calls, ClientCall, AddFails DEF AddStarted, At, Fail
<1>6. CASE AddPaused(p) \/ AddSave(p)
  BY <1>0, <1>2, <1>3, <1>4, <1>6, ClientGoto, AddFails DEF AddPaused, AddSave, At, Ready, Fail
<1>7. CASE PauseSave(p)
  BY <1>0, <1>7, Calls, ClientCall, ClientReturn DEF PauseSave, At, Fail, Unsaved, SaveLabels
<1>8. CASE PauseFill(p) \/ UnpauseSave(p) \/ ChangeOptionSave(p) \/ ResultCheck(p)
           \/ PurgeAllCheck(p) \/ PurgeAllLookup(p)
  BY <1>0, <1>2, <1>3, <1>8, ClientGoto, ClientReturn DEF PauseFill, UnpauseSave,
     ChangeOptionSave, ResultCheck, PurgeAllCheck, PurgeAllLookup, At, Fail, Ready, Unsaved,
     SaveLabels
<1>9. CASE PauseAllLoop(p) \/ UnpauseAllLoop(p)
  BY <1>0, <1>2, <1>3, <1>9, Calls, ClientGoto, ClientCall DEF PauseAllLoop, UnpauseAllLoop, At,
     Ready, Unsaved, SaveLabels
<1>10. CASE PauseAllSave(p) \/ UnpauseAllSave(p)
  BY <1>0, <1>2, <1>3, <1>10, Calls, ClientGoto, ClientCall, ClientReturn DEF PauseAllSave,
     UnpauseAllSave, At, Fail, Ready, Unsaved, SaveLabels
<1>11. CASE UnpauseSync(p)
  BY <1>0, <1>11, Calls, ClientCall, ClientReturn DEF UnpauseSync, At, Fail, Unsaved, SaveLabels
<1>12. CASE PurgeAllLoop(p)
  BY <1>0, <1>12, Calls, ClientCall, ClientReturn DEF PurgeAllLoop, At, Succeed, Unsaved,
     SaveLabels
<1>13. CASE SyncActiveLoop(p)
  BY <1>0, <1>13, Calls, ClientCall, ClientReturn DEF SyncActiveLoop, At, Succeed, Fail, Unsaved,
     SaveLabels
<1>14. CASE SyncActiveDone(p)
  BY <1>0, <1>2, <1>14, Calls, ClientGoto, ClientCall, ClientReturn DEF SyncActiveDone, At,
     Succeed, Fail, Ready, Unsaved, SaveLabels
<1> QED
  BY <1>5, <1>6, <1>7, <1>8, <1>9, <1>10, <1>11, <1>12, <1>13, <1>14

LEMMA RemovePlace ==
    ASSUME TypeInv, NEW p \in Procs, Place(p),
           \/ RemoveMutexFor(p) \/ RemoveLock(p) \/ RemoveStillThere(p) \/ RemoveTell(p)
           \/ RemoveFill(p) \/ RemoveUnlock(p) \/ RemoveForget(p)
    PROVE  Place(p)'
<1>0. DataKept /\ pc[p] \notin Helpers /\ ~Unsaved(pc[p], "none")
  BY OnlyControlKept DEF RemoveMutexFor, RemoveLock, RemoveStillThere, RemoveTell, RemoveFill,
     RemoveUnlock, RemoveForget, At, Helpers, SyncLabels, StartLabels, PauseLabels, SaveLabels,
     FillLabels, Unsaved, DataKept, managerVars, driverVars, historyVars
<1>1. \A label \in {"rm.lock", "rm.still", "rm.driver", "rm.unlock", "rm.detach", "rm.forget"} :
         label \notin StartLabels \cup PauseLabels /\ Calm(label, "none")
  BY DEF StartLabels, PauseLabels, Calm, StoreLabels
<1>2. CASE RemoveFill(p)
  BY <1>0, <1>2, Calls, ClientCall DEF RemoveFill
<1>3. CASE RemoveForget(p)
  BY <1>0, <1>3, ClientReturn DEF RemoveForget, Succeed
<1>4. CASE \/ RemoveMutexFor(p) \/ RemoveLock(p) \/ RemoveStillThere(p) \/ RemoveTell(p)
           \/ RemoveUnlock(p)
  BY <1>0, <1>1, <1>4, ClientGoto DEF RemoveMutexFor, RemoveLock, RemoveStillThere, RemoveTell,
     RemoveUnlock, Ready
<1> QED
  BY <1>2, <1>3, <1>4

\* Calls that pause a task, or try an option on it, name one that there is.
LEMMA BeginPlace ==
    ASSUME TypeInv, NEW p \in Procs, Place(p), Begin(p), ~Add(p)
    PROVE  Place(p)'
<1>0. DataKept /\ pc[p] = "idle"
  BY OnlyControlKept DEF Begin, Remove, Pause, PauseAll, Unpause, UnpauseAll, ChangeOption,
     RemoveDownloadResult, PurgeDownloadResult, TellStatus, SyncActive, SaveSession, Lookup, At
<1>1. pc[p] \notin Helpers /\ ~Unsaved(pc[p], "none")
  BY <1>0 DEF Helpers, SyncLabels, StartLabels, PauseLabels, SaveLabels, FillLabels, Unsaved
<1>2. \A label \in {"rm.mutex", "pauseAll", "unpauseAll", "purgeAll", "active", "sync", "save"} :
         label \notin StartLabels \cup PauseLabels /\ Calm(label, "none")
  BY DEF StartLabels, PauseLabels, Calm, StoreLabels
<1>3. /\ ControlType /\ DataType /\ Backs(pc[p]) = {} /\ TopOf(stack[p]) = "none" /\ Settled
      /\ PlaceAt(pc[p], "none", loc[p])
  BY <1>1, TopAt DEF TypeInv, Helpers, Place
<1>4. \A t \in Tasks : For(t).cur = t /\ For(t).arg = t
  BY NoLocalsType DEF For, Locals
<1>5. CASE \/ Remove(p) \/ PauseAll(p) \/ UnpauseAll(p) \/ PurgeDownloadResult(p)
           \/ TellStatus(p) \/ SyncActive(p) \/ SaveSession(p)
  BY <1>0, <1>1, <1>2, <1>5, ClientGoto DEF Remove, PauseAll, UnpauseAll, PurgeDownloadResult,
     TellStatus, SyncActive, SaveSession, Ready
<1>6. CASE Unpause(p) \/ RemoveDownloadResult(p)
  BY <1>0, <1>1, <1>6, Calls, ClientCall DEF Unpause, RemoveDownloadResult
<1>7. CASE Pause(p)
  <2>1. PICK t \in Held : Call(p, "pause.driver", "pause.save", For(t))
    BY <1>7 DEF Pause, Lookup
  <2>2. For(t).cur \in Held
    BY <1>4, <2>1 DEF Held
  <2>3. Fits("pause.driver", "pause.save", For(t))
    BY <2>2 DEF Fits, NeedsHeld, Adding, StoreLabels
  <2>4. Agrees("pause.driver", "pause.save", For(t)) /\ Counts("pause.driver", For(t))
    BY <1>3, PendingFalls DEF Agrees, Settled, PlaceAt, StoreLabels
  <2>5. Filed("pause.driver", "pause.save", For(t))
    BY <1>1, <1>3 DEF PlaceAt, Filed, Adding
  <2>6. PlaceAt("pause.driver", "pause.save", For(t))
    BY <2>3, <2>4, <2>5 DEF PlaceAt
  <2>7. "pause.save" \in ReturnLabels /\ "pause.save" \in Backs("pause.driver")
    BY DEF ReturnLabels, Backs, SyncLabels, StartLabels, PauseLabels, PauseBacks
  <2> QED
    BY <1>0, <1>3, <2>1, <2>6, <2>7, CallPlace
<1>8. CASE ChangeOption(p)
  <2>1. PICK t \in Held : Goto(p, "option.driver", For(t))
    BY <1>8 DEF ChangeOption, Lookup
  <2>2. For(t).cur = For(t).arg
    BY <1>4, <2>1 DEF Held
  <2>3. Fits("option.driver", "none", For(t))
    BY <2>2 DEF Fits, NeedsHeld, Adding, StoreLabels
  <2>4. Agrees("option.driver", "none", For(t)) /\ Counts("option.driver", For(t))
    BY <1>3, PendingFalls DEF Agrees, Settled, PlaceAt, StoreLabels
  <2>5. Filed("option.driver", "none", For(t))
    BY <1>1, <1>3 DEF PlaceAt, Filed, Adding
  <2>6. PlaceAt("option.driver", "none", For(t))
    BY <2>3, <2>4, <2>5 DEF PlaceAt
  <2>7. "option.driver" \notin StartLabels \cup PauseLabels
    BY DEF StartLabels, PauseLabels
  <2> QED
    BY <1>0, <1>3, <2>1, <2>6, <2>7, GotoPlace
<1> QED
  BY <1>5, <1>6, <1>7, <1>8 DEF Begin

LEMMA AddModePlace ==
    ASSUME TypeInv, NEW p \in Procs, Place(p), AddMode(p)
    PROVE  Place(p)'
<1>0. DataKept /\ pc[p] = "add.mode"
  BY OnlyControlKept DEF AddMode, At
<1>1. pc[p] \notin Helpers
  BY <1>0 DEF Helpers, SyncLabels, StartLabels, PauseLabels, SaveLabels, FillLabels
<1>2. /\ ControlType /\ DataType /\ Backs(pc[p]) = {} /\ TopOf(stack[p]) = "none" /\ Settled
      /\ PlaceAt("add.mode", "none", loc[p])
  BY <1>0, <1>1, TopAt DEF TypeInv, Helpers, Place
<1>3. ASSUME NEW label \in {"pause.driver", "start"}, NEW back \in {"add.paused", "add.started"},
             Call(p, label, back, loc[p]), label = "start" <=> back = "add.started",
             label = "start" => SlotFree
      PROVE  Place(p)'
  <2>1. Fits(label, back, loc[p])
    BY <1>2, <1>3 DEF PlaceAt, Fits, NeedsHeld, Adding, StoreLabels
  <2>2. Agrees(label, back, loc[p]) /\ Counts(label, loc[p])
    BY <1>2, PendingFalls DEF Agrees, Settled, PlaceAt, StoreLabels
  <2>3. Filed(label, back, loc[p])
    BY <1>2 DEF PlaceAt, Filed, Adding, Unsaved
  <2>4. PlaceAt(label, back, loc[p])
    BY <2>1, <2>2, <2>3 DEF PlaceAt
  <2>5. back \in ReturnLabels /\ back \in Backs(label)
    BY <1>3 DEF ReturnLabels, Backs, SyncLabels, StartLabels, PauseLabels, StartBacks, PauseBacks
  <2> QED
    BY <1>0, <1>2, <1>3, <2>4, <2>5, CallPlace
<1>4. ASSUME Goto(p, "add.save", loc[p]) PROVE Place(p)'
  <2>1. Ready("add.save", pc[p])
    BY DEF Ready, StartLabels, PauseLabels, Calm, StoreLabels, Unsaved
  <2> QED
    BY <1>0, <1>1, <1>4, <2>1, ClientGoto
<1> QED
  BY <1>3, <1>4 DEF AddMode

\* A driver that does not know the task, or will not have its options changed.
LEMMA UnknownPlace ==
    ASSUME TypeInv, NEW p \in Procs, Place(p),
           \/ ChangeOptionDriver(p) /\ ~DriverUsable(Arg(p))
           \/ (RemoveDriver(p) \/ ResultDriver(p)) /\ ~DriverHas(Arg(p))
    PROVE  Place(p)'
<1>0. DataKept /\ pc[p] \notin Helpers /\ ~Unsaved(pc[p], "none")
  BY DEF ChangeOptionDriver, RemoveDriver, ResultDriver, At, Helpers, SyncLabels, StartLabels,
     PauseLabels, SaveLabels, FillLabels, Unsaved, DataKept, managerVars, driverVars,
     historyVars
<1>1. \A label \in {"rm.unlock", "result.detach"} :
         label \notin StartLabels \cup PauseLabels /\ Calm(label, "none")
  BY DEF StartLabels, PauseLabels, Calm, StoreLabels
<1>2. \E l : Return(p, l) \/ Goto(p, "rm.unlock", l) \/ Goto(p, "result.detach", l)
  BY DEF ChangeOptionDriver, RemoveDriver, ResultDriver, DriverFails, Fail
<1> QED
  BY <1>0, <1>1, <1>2, ClientGoto, ClientReturn DEF Ready

-----------------------------------------------------------------------------
(* Steps that change a task. *)

LEMMA StorePlace ==
    ASSUME TypeInv, NEW p \in Procs, Place(p), SyncStore(p) \/ StartStore(p) \/ PauseStore(p)
    PROVE  Place(p)'
<1> DEFINE c == loc[p].cur
           s == loc[p].got
           m == [loc[p] EXCEPT !.ok = TRUE]
           top == TopOf(stack[p])
<1>0. /\ ControlType /\ DataType /\ loc[p] \in Locals /\ PlaceAt(pc[p], top, loc[p])
      /\ pc[p] \in StoreLabels /\ c \in Tasks /\ s \in Statuses
  BY DEF TypeInv, ControlType, StepNeeds, Place, SyncStore, StartStore, PauseStore, At, StoreLabels
<1>1. /\ StoreTask(c, s) /\ Return(p, m)
      /\ UNCHANGED <<drv, drvRemoved, lost, stops, file>>
  BY DEF SyncStore, StartStore, PauseStore, Succeed, Cur, driverVars, historyVars
<1>2. /\ c \in Held /\ s # None
      /\ s = drv[c] \/ (s = "active" /\ drv[c] \in Stopped)
  BY <1>0, NoneAssumption DEF PlaceAt, Fits, NeedsHeld, StoreLabels
<1>3. /\ tasks' = [tasks EXCEPT ![c] = s] /\ tasks'[c] = s
      /\ \A t \in Tasks \ {c} : tasks'[t] = tasks[t]
  BY <1>0, <1>1 DEF StoreTask, DataType
<1>4. Held' = Held
  BY <1>2, <1>3 DEF Held
<1>5. Settled'
  <2>1. ASSUME NEW t \in Held, Astray(t)' PROVE FALSE
    <3>1. t # c
      BY <1>1, <1>2, <1>3, <2>1 DEF Astray, Stopped
    <3>2. Astray(t)
      BY <1>1, <1>3, <2>1, <3>1 DEF Astray, Held
    <3> QED
      BY <1>0, <3>1, <3>2 DEF PlaceAt, Agrees
  <2> QED
    BY <1>4, <2>1 DEF Settled
<1>6. m.cur = c /\ m.got = s /\ m.ok /\ m.arg = loc[p].arg /\ m.snap = loc[p].snap
      /\ m.saving = loc[p].saving
  BY <1>0 DEF Locals
<1> HIDE DEF m
<1>7. /\ NestAt(pc[p], stack[p])'
      /\ \/ top = "none" /\ pc'[p] = "idle" /\ TopOf(stack[p])' = "none"
         \/ /\ top \in Backs(pc[p]) /\ pc'[p] = top /\ loc'[p] = m
            /\ TopOf(stack[p])' \in After(top)
  BY <1>0, <1>1, ReturnNests DEF Place, TopOf
<1>8. /\ pc'[p] \in {"idle"} \cup SyncBacks \cup StartBacks \cup PauseBacks
      /\ TopOf(stack[p])' \in SaveBacks \cup {"none"}
  <2>1. Backs(pc[p]) \subseteq SyncBacks \cup StartBacks \cup PauseBacks
    BY <1>0 DEF Backs, StoreLabels, SyncLabels, StartLabels, PauseLabels
  <2>2. \A label \in SyncBacks \cup StartBacks \cup PauseBacks :
           After(label) \subseteq SaveBacks \cup {"none"}
    BY DEF After, Backs, SyncBacks, StartBacks, PauseBacks, SaveBacks, FillBacks,
       SyncLabels, StartLabels, PauseLabels, SaveLabels, FillLabels
  <2> QED
    BY <1>7, <2>1, <2>2
<1>9. pc'[p] \notin StoreLabels
  BY <1>8 DEF StoreLabels, SyncBacks, StartBacks, PauseBacks
<1>10. Fits(pc[p], TopOf(stack[p]), loc[p])'
  <2>1. ASSUME pc'[p] \in {"save.got", "add.started", "add.paused"}
        PROVE  /\ loc'[p].cur \in Held' /\ loc'[p].ok /\ loc'[p].cur = c /\ loc'[p].got # None
               /\ pc'[p] # "save.got" =>
                     /\ DriverUsable(loc[p].cur)' \/ loc'[p].cur \in Losable
                     /\ loc'[p].cur = loc'[p].arg
    <3>1. top = pc'[p] /\ loc'[p] = m
      BY <1>7, <2>1
    <3>2. top # "save.got" => (DriverUsable(c) \/ c \in Losable) /\ c = loc[p].arg
      BY <1>0, <2>1, <3>1 DEF PlaceAt, Fits, Adding
    <3> QED
      BY <1>1, <1>2, <1>4, <1>6, <3>1, <3>2 DEF DriverUsable, DriverKnows, DriverHas
  <2> QED
    BY <1>8, <1>9, <2>1 DEF Fits, NeedsHeld, Adding, SyncBacks, StartBacks, PauseBacks, SaveBacks,
       FillBacks, StoreLabels
<1>11. Agrees(pc[p], TopOf(stack[p]), loc[p])'
  BY <1>5 DEF Agrees, Settled
<1>12. Counts(pc[p], loc[p])'
  <2> DEFINE P == Pending(pc[p], loc[p])
  <2>1. P \subseteq Tasks /\ Pending(pc[p], loc[p])' \subseteq Tasks
    BY <1>4 DEF Pending, Held
  <2>2. /\ IsFiniteSet(P) /\ Cardinality(P) \in Nat
        /\ IsFiniteSet(Pending(pc[p], loc[p])') /\ Cardinality(Pending(pc[p], loc[p])') \in Nat
    BY <2>1, TasksAssumption, FS_Subset, FS_CardinalityType
  <2>3. counted + Cardinality(P) <= stops /\ counted \in Nat /\ stops \in Nat
    BY <1>0 DEF PlaceAt, Counts, DataType
  <2>4. Pending(pc[p], loc[p])' \subseteq P
    BY <1>0, <1>1, <1>2, <1>3, <1>4, <1>9 DEF Pending, Held
  <2>5. CASE counted' = counted
    <3>1. Cardinality(Pending(pc[p], loc[p])') <= Cardinality(P)
      BY <2>2, <2>4, FS_Subset
    <3> QED
      BY <1>1, <2>2, <2>3, <2>5, <3>1 DEF Counts
  <2>6. CASE counted' # counted
    <3>1. tasks[c] \notin Stopped /\ s \in Stopped /\ counted' = counted + 1
      BY <1>1, <2>6 DEF StoreTask
    <3>2. c \in P /\ c \notin Pending(pc[p], loc[p])'
      BY <1>2, <1>3, <1>9, <3>1 DEF Pending, Stopped
    <3>3. Pending(pc[p], loc[p])' \subseteq P \ {c}
      BY <2>4, <3>2
    <3>4. IsFiniteSet(P \ {c}) /\ Cardinality(P \ {c}) = Cardinality(P) - 1
      BY <2>2, <3>2, FS_RemoveElement
    <3>5. Cardinality(Pending(pc[p], loc[p])') <= Cardinality(P) - 1
      BY <3>3, <3>4, FS_Subset
    <3> QED
      BY <1>1, <2>2, <2>3, <3>1, <3>5 DEF Counts
  <2> QED
    BY <2>5, <2>6
<1>13. Filed(pc[p], TopOf(stack[p]), loc[p])'
  <2>1. (Matches' <=> Matches) /\ \A t : MatchesBut(t)' <=> MatchesBut(t)
    BY <1>1, <1>4, MatchesKept
  <2>2. Unsaved(pc[p], top) => Unsaved(pc[p], TopOf(stack[p]))'
    BY <1>0, <1>7 DEF Unsaved, StoreLabels, SaveLabels, Backs, SyncLabels, StartLabels, PauseLabels,
       SyncBacks, StartBacks, PauseBacks
  <2>3. ASSUME pc'[p] = "save.got" PROVE Collected(loc[p], {loc[p].cur})'
    <3>1. top = "save.got" /\ loc'[p] = m
      BY <1>7, <2>3
    <3> QED
      BY <1>0, <1>4, <1>6, <3>1 DEF PlaceAt, Filed, Collected, NamedIn
  <2>4. ASSUME Adding(pc[p], TopOf(stack[p]))' PROVE MatchesBut(c) /\ loc'[p].cur = c
    <3>1. pc'[p] \in {"add.started", "add.paused"}
      BY <1>8, <2>4 DEF Adding, SyncBacks, StartBacks, PauseBacks, SaveBacks, FillBacks
    <3>2. top = pc'[p] /\ loc'[p] = m
      BY <1>7, <3>1
    <3> QED
      BY <1>0, <1>6, <3>1, <3>2 DEF PlaceAt, Filed, Adding
  <2>5. pc'[p] # "save.next" /\ TopOf(stack[p])' # "save.got"
    BY <1>8 DEF SyncBacks, StartBacks, PauseBacks, SaveBacks, FillBacks
  <2>6. Unsaved(pc[p], TopOf(stack[p]))' \/ Matches
    BY <1>0, <2>2 DEF PlaceAt, Filed
  <2> QED
    BY <2>1, <2>3, <2>4, <2>5, <2>6 DEF Filed
<1> QED
  BY <1>7, <1>10, <1>11, <1>12, <1>13 DEF Place, PlaceAt

LEMMA UsePlace ==
    ASSUME TypeInv, NEW p \in Procs, Place(p),
           \/ (StartDriver(p) \/ PauseDriver(p)) /\ DriverUsable(Cur(p))
           \/ ChangeOptionDriver(p) /\ DriverUsable(Arg(p))
    PROVE  Place(p)'
<1> DEFINE c == loc[p].cur
           top == TopOf(stack[p])
           Entered(label, back) ==
               /\ pc'[p] = label /\ TopOf(stack[p])' = back /\ loc'[p] = loc[p]
               /\ NestAt(pc[p], stack[p])'
<1>0. /\ ControlType /\ DataType /\ loc[p] \in Locals /\ PlaceAt(pc[p], top, loc[p])
      /\ pc[p] \in {"start.driver", "pause.driver", "option.driver"}
  BY DEF TypeInv, ControlType, Place, StartDriver, PauseDriver, ChangeOptionDriver, At
<1>1. /\ UNCHANGED <<tasks, counted, stops, file>>
      /\ c = Cur(p) /\ (pc[p] = "option.driver" => c = Arg(p))
  BY <1>0 DEF StartDriver, PauseDriver, ChangeOptionDriver, At, managerVars, historyVars, PlaceAt,
     Fits, Cur, Arg
<1>2. DriverUsable(c) /\ c \in Tasks /\ c \notin drvRemoved /\ drv[c] # None
  BY <1>0, <1>1 DEF StartDriver, PauseDriver, ChangeOptionDriver, At, DriverUsable, DriverKnows, DriverHas
<1>3. top # "save.got" /\ Settled
  <2>1. top \in Backs(pc[p]) \cup {"none"}
    BY TopAt
  <2>2. top \notin {"option.save", "save.got"} /\ pc[p] \notin Changing
    BY <1>0, <2>1 DEF Backs, SyncLabels, StartLabels, PauseLabels, SaveLabels, FillLabels,
       StartBacks, PauseBacks, Changing
  <2> QED
    BY <1>0, <2>2, FreeSettled DEF PlaceAt
<1>4. Held' = Held /\ SlotFree' = SlotFree
  BY <1>1 DEF Held, SlotFree, With
<1>5. CASE ChangeOptionDriver(p) /\ UNCHANGED driverVars
  <2>1. DataKept /\ pc[p] \notin Helpers /\ ~Unsaved(pc[p], "none")
    BY <1>1, <1>5 DEF ChangeOptionDriver, At, DataKept, driverVars, Helpers, SyncLabels,
       StartLabels, PauseLabels, SaveLabels, FillLabels, Unsaved
  <2>2. Call(p, "sync", "option.save", loc[p])
    BY <1>1, <1>2, <1>5 DEF ChangeOptionDriver, At
  <2>3. /\ "option.save" \in ReturnLabels /\ "option.save" \in Backs("sync")
        /\ Calm("sync", "option.save")
    BY DEF ReturnLabels, Backs, SyncLabels, SyncBacks, Calm, StoreLabels
  <2> QED
    BY <2>1, <2>2, <2>3, ClientCall
<1>6. ASSUME NEW label \in {"start.tell", "pause.tell", "sync"}, NEW back,
             Entered(label, back), label = "sync" => back = "option.save",
             label # "sync" => back = top /\ (label = "pause.tell" <=> pc[p] = "pause.driver"),
             label = "sync" <=> pc[p] = "option.driver",
             UNCHANGED <<drvRemoved, lost>>,
             NEW s \in {"active", "paused"} \cup ({drv[c]} \cap {"complete"}),
             drv' = [drv EXCEPT ![c] = s], label = "pause.tell" => s # "active"
      PROVE  Place(p)'
  <2>1. drv'[c] = s /\ s # None /\ \A t \in Tasks \ {c} : drv'[t] = drv[t]
    BY <1>0, <1>2, <1>6, NoneAssumption DEF DataType, Statuses
  <2>2. label # "sync" => c \in Held
    BY <1>0, <1>6 DEF PlaceAt, Fits, NeedsHeld
  <2>3. Adding(label, back) => back = top /\ label # "sync" /\ Adding(pc[p], top)
    BY <1>6 DEF Adding
  <2>4. DriverUsable(c)'
    BY <1>2, <1>6, <2>1 DEF DriverUsable, DriverKnows, DriverHas
  <2>5. Fits(pc[p], TopOf(stack[p]), loc[p])'
    <3>1. NeedsHeld(label, back) => c \in Held
      BY <1>3, <1>6, <2>2 DEF NeedsHeld, Adding
    <3>2. Adding(label, back) => c = loc[p].arg
      BY <1>0, <2>3 DEF PlaceAt, Fits
    <3>3. back \in {"fill.started", "add.started"} => SlotFree
      BY <1>0, <1>6 DEF PlaceAt, Fits
    <3>4. label = "pause.tell" => drv'[c] # "active"
      BY <1>6, <2>1
    <3> QED
      BY <1>4, <1>6, <2>4, <3>1, <3>2, <3>3, <3>4 DEF Fits, StoreLabels
  <2>6. Agrees(pc[p], TopOf(stack[p]), loc[p])'
    <3>1. ASSUME NEW t \in Held, Astray(t)', t # c PROVE FALSE
      BY <1>1, <1>3, <1>6, <2>1, <3>1 DEF Astray, Settled, Held
    <3>2. label \in Changing \/ back = "option.save"
      BY <1>6 DEF Changing
    <3> QED
      BY <1>4, <1>6, <3>1, <3>2 DEF Agrees
  <2>7. Counts(pc[p], loc[p])'
    <3>1. Pending(pc[p], loc[p])' \subseteq Pending(pc[p], loc[p])
      BY <1>1, <1>4, <1>6, <2>1 DEF Pending, StoreLabels, Held, Stopped
    <3>2. Pending(pc[p], loc[p]) \subseteq Tasks
      BY DEF Pending, Held
    <3>3. /\ Cardinality(Pending(pc[p], loc[p])') <= Cardinality(Pending(pc[p], loc[p]))
          /\ Cardinality(Pending(pc[p], loc[p])) \in Nat
          /\ Cardinality(Pending(pc[p], loc[p])') \in Nat
      BY <3>1, <3>2, TasksAssumption, FS_Subset, FS_CardinalityType
    <3> QED
      BY <1>0, <1>1, <3>3 DEF PlaceAt, Counts, DataType
  <2>8. Filed(pc[p], TopOf(stack[p]), loc[p])'
    <3>1. (Matches' <=> Matches) /\ \A t : MatchesBut(t)' <=> MatchesBut(t)
      BY <1>1, <1>4, MatchesKept
    <3>2. Unsaved(pc[p], top) => Unsaved(label, back)
      <4>1. pc[p] = "option.driver" => top = "none"
        BY TopAt DEF SyncLabels, StartLabels, PauseLabels, SaveLabels, FillLabels
      <4> QED
        BY <1>0, <1>6, <4>1 DEF Unsaved, SaveLabels
    <3>3. Adding(label, back) => MatchesBut(c)
      BY <1>0, <2>3 DEF PlaceAt, Filed
    <3> QED
      BY <1>0, <1>3, <1>4, <1>6, <3>1, <3>2, <3>3 DEF PlaceAt, Filed
  <2> QED
    BY <1>6, <2>5, <2>6, <2>7, <2>8 DEF Place, PlaceAt
<1>7. CASE StartDriver(p) \/ PauseDriver(p)
  <2> DEFINE label == IF pc[p] = "start.driver" THEN "start.tell" ELSE "pause.tell"
  <2>1. Goto(p, label, loc[p]) /\ (pc[p] = "start.driver" \/ pc[p] = "pause.driver")
    BY <1>1, <1>2, <1>7 DEF StartDriver, PauseDriver, At
  <2>2. Backs(pc[p]) = Backs(label) /\ pc[p] \in StartLabels \cup PauseLabels
    BY <2>1 DEF Backs, SyncLabels, StartLabels, PauseLabels
  <2>3. /\ label \in {"start.tell", "pause.tell"} /\ (label = "pause.tell" <=> pc[p] = "pause.driver")
        /\ pc[p] # "option.driver" /\ label # "sync"
    BY <2>1
  <2>4. \E s \in {"active", "paused"} \cup ({drv[c]} \cap {"complete"}) :
           drv' = [drv EXCEPT ![c] = s] /\ (pc[p] = "pause.driver" => s # "active")
    BY <1>1, <1>2, <1>7 DEF StartDriver, PauseDriver, DriverStart, DriverPause, At
  <2>5. UNCHANGED <<drvRemoved, lost>>
    BY <1>1, <1>2, <1>7 DEF StartDriver, PauseDriver, DriverStart, DriverPause
  <2> HIDE DEF label
  <2>6. Entered(label, top)
    BY <1>0, <2>1, <2>2, GotoNests DEF Place
  <2> QED
    BY <1>6, <2>3, <2>4, <2>5, <2>6
<1>8. CASE ChangeOptionDriver(p) /\ (DriverStart(c) \/ DriverPause(c))
  <2>1. Call(p, "sync", "option.save", loc[p]) /\ pc[p] = "option.driver"
    BY <1>1, <1>2, <1>8 DEF ChangeOptionDriver, At
  <2>2. /\ "option.save" \in ReturnLabels /\ "option.save" \in Backs("sync")
        /\ Backs(pc[p]) = {}
    BY <2>1 DEF ReturnLabels, Backs, SyncLabels, SyncBacks, StartLabels, PauseLabels, SaveLabels,
       FillLabels
  <2>3. \E s \in {"active", "paused"} \cup ({drv[c]} \cap {"complete"}) :
           drv' = [drv EXCEPT ![c] = s]
    BY <1>8 DEF DriverStart, DriverPause
  <2>4. UNCHANGED <<drvRemoved, lost>>
    BY <1>8 DEF DriverStart, DriverPause
  <2>5. Entered("sync", "option.save")
    BY <1>0, <2>1, <2>2, CallNests DEF Place
  <2> QED
    BY <1>6, <2>1, <2>3, <2>4, <2>5
<1> QED
  BY <1>1, <1>2, <1>5, <1>7, <1>8 DEF ChangeOptionDriver, At

\* Where a step of no helper goes on: nothing is stored there, and nothing is in hand.
LEMMA ClientArrives ==
    ASSUME ControlType, NEW p \in Procs, Place(p), pc[p] \notin Helpers, NEW label, NEW l,
           Goto(p, label, l), label \notin StartLabels \cup PauseLabels
    PROVE  /\ NestAt(pc[p], stack[p])' /\ TopOf(stack[p]) = "none" /\ Settled
           /\ pc'[p] = label /\ TopOf(stack[p])' = "none" /\ loc'[p] = l
<1>1. Backs(pc[p]) = {} /\ TopOf(stack[p]) = "none" /\ Settled
  BY TopAt DEF Helpers
<1> QED
  BY <1>1, GotoNests DEF Place

\* The count of the stops to be counted, after a step that stores none.
LEMMA CountsOn ==
    ASSUME DataType, NEW p, Counts(pc[p], loc[p]), counted' = counted,
           Pending(pc[p], loc[p])' \subseteq Pending(pc[p], loc[p]), stops' = stops
    PROVE  Counts(pc[p], loc[p])'
<1>1. Pending(pc[p], loc[p]) \subseteq Tasks
  BY DEF Pending, Held
<1>2. /\ Cardinality(Pending(pc[p], loc[p])') <= Cardinality(Pending(pc[p], loc[p]))
      /\ Cardinality(Pending(pc[p], loc[p])) \in Nat
      /\ Cardinality(Pending(pc[p], loc[p])') \in Nat
  BY <1>1, TasksAssumption, FS_Subset, FS_CardinalityType
<1> QED
  BY <1>2 DEF Counts, DataType

\* ... and after one by which a task comes to a stop.
LEMMA CountsStop ==
    ASSUME DataType, NEW p, NEW t, Counts(pc[p], loc[p]), counted' = counted,
           Pending(pc[p], loc[p])' \subseteq Pending(pc[p], loc[p]) \cup {t}, stops' = stops + 1
    PROVE  Counts(pc[p], loc[p])'
<1> DEFINE P == Pending(pc[p], loc[p])
<1>1. P \subseteq Tasks
  BY DEF Pending, Held
<1>2. IsFiniteSet(P) /\ Cardinality(P) \in Nat
  BY <1>1, TasksAssumption, FS_Subset, FS_CardinalityType
<1>3. IsFiniteSet(P \cup {t}) /\ Cardinality(P \cup {t}) <= Cardinality(P) + 1
  BY <1>2, FS_AddElement
<1>4. /\ Cardinality(Pending(pc[p], loc[p])') <= Cardinality(P \cup {t})
      /\ Cardinality(Pending(pc[p], loc[p])') \in Nat /\ Cardinality(P \cup {t}) \in Nat
  BY <1>3, FS_Subset, FS_CardinalityType
<1> QED
  BY <1>2, <1>3, <1>4 DEF Counts, DataType

LEMMA AddPlace ==
    ASSUME OrphanInv, NEW p \in Procs, Place(p), Add(p)
    PROVE  Place(p)'
<1>0. ControlType /\ DataType /\ pc[p] = "idle" /\ PlaceAt("idle", TopOf(stack[p]), loc[p])
  BY DEF OrphanInv, TypeInv, Add, At, Place
<1>1. PICK t \in Tasks \ Born : drv' = [drv EXCEPT ![t] = "waiting"] /\ Goto(p, "add.store", For(t))
  BY DEF Add
<1>2. /\ UNCHANGED <<tasks, counted, drvRemoved, lost, stops, file>>
      /\ pc[p] \notin Helpers /\ "add.store" \notin StartLabels \cup PauseLabels
  BY <1>0 DEF Add, managerVars, historyVars, Helpers, SyncLabels, StartLabels, PauseLabels,
     SaveLabels, FillLabels
<1>3. /\ NestAt(pc[p], stack[p])' /\ TopOf(stack[p]) = "none" /\ Settled
      /\ pc'[p] = "add.store" /\ TopOf(stack[p])' = "none" /\ loc'[p] = For(t)
  BY <1>0, <1>1, <1>2, ClientArrives
<1>4. t \notin Held /\ t \notin drvRemoved /\ Held' = Held
  BY <1>2 DEF OrphanInv, DataBorn, Born, Held
<1>5. drv'[t] = "waiting" /\ (\A u \in Tasks \ {t} : drv'[u] = drv[u])
  BY <1>0, <1>1 DEF DataType
<1>6. For(t).arg = t /\ For(t).cur = t
  BY NoLocalsType DEF For, Locals
<1>7. Fits(pc[p], TopOf(stack[p]), loc[p])'
  BY <1>2, <1>3, <1>4, <1>5, <1>6 DEF Fits, NeedsHeld, Adding, StoreLabels
<1>8. Agrees(pc[p], TopOf(stack[p]), loc[p])'
  BY <1>2, <1>3, <1>4, <1>5 DEF Agrees, Settled, Astray, Held
<1>9. Counts(pc[p], loc[p])'
  <2>1. Pending(pc[p], loc[p])' \subseteq Pending(pc[p], loc[p])
    BY <1>2, <1>3, <1>4, <1>5 DEF Pending, StoreLabels, Held
  <2> QED
    BY <1>0, <1>2, <2>1, CountsOn DEF PlaceAt
<1>10. Filed(pc[p], TopOf(stack[p]), loc[p])'
  BY <1>0, <1>2, <1>3, <1>4, MatchesKept DEF PlaceAt, Filed, Adding, Unsaved, SaveLabels
<1> QED
  BY <1>3, <1>7, <1>8, <1>9, <1>10 DEF Place, PlaceAt

LEMMA AddStorePlace ==
    ASSUME TypeInv, NEW p \in Procs, Place(p), AddStore(p)
    PROVE  Place(p)'
<1> DEFINE t == loc[p].arg
<1>0. /\ ControlType /\ DataType /\ pc[p] = "add.store" /\ t \in Tasks
      /\ PlaceAt("add.store", TopOf(stack[p]), loc[p])
  BY DEF TypeInv, ControlType, StepNeeds, AddStore, At, Place
<1>1. /\ UNCHANGED <<counted, drv, drvRemoved, lost, stops, file>> /\ Goto(p, "add.mode", loc[p])
      /\ tasks' = [tasks EXCEPT ![t] = "waiting"]
  BY DEF AddStore, Arg, driverVars, historyVars
<1>2. pc[p] \notin Helpers /\ "add.mode" \notin StartLabels \cup PauseLabels
  BY <1>0 DEF Helpers, SyncLabels, StartLabels, PauseLabels, SaveLabels, FillLabels
<1>3. /\ NestAt(pc[p], stack[p])' /\ TopOf(stack[p]) = "none" /\ Settled
      /\ pc'[p] = "add.mode" /\ TopOf(stack[p])' = "none" /\ loc'[p] = loc[p]
  BY <1>0, <1>1, <1>2, ClientArrives
<1>4. /\ tasks'[t] = "waiting" /\ (\A u \in Tasks \ {t} : tasks'[u] = tasks[u])
      /\ Held' = Held \cup {t}
  BY <1>0, <1>1, NoneAssumption DEF DataType, Held, Statuses
<1>5. drv[t] = "waiting" /\ t \notin drvRemoved /\ loc[p].cur = t
  BY <1>0 DEF PlaceAt, Fits
<1>6. DriverUsable(t)' \/ t \in Losable
  BY <1>0, <1>1, <1>3, <1>5, NoneAssumption
     DEF DataType, DriverUsable, DriverKnows, DriverHas, Statuses
<1>7. Fits(pc[p], TopOf(stack[p]), loc[p])'
  BY <1>3, <1>4, <1>5, <1>6 DEF Fits, NeedsHeld, Adding, StoreLabels
<1>8. Agrees(pc[p], TopOf(stack[p]), loc[p])'
  BY <1>1, <1>3, <1>4, <1>5 DEF Agrees, Settled, Astray, Held
<1>9. Counts(pc[p], loc[p])'
  <2>1. Pending(pc[p], loc[p])' \subseteq Pending(pc[p], loc[p])
    BY <1>1, <1>3, <1>4, <1>5 DEF Pending, StoreLabels, Held, Stopped
  <2> QED
    BY <1>0, <1>1, <2>1, CountsOn DEF PlaceAt
<1>10. Filed(pc[p], TopOf(stack[p]), loc[p])'
  <2>1. Matches
    BY <1>0, <1>3 DEF PlaceAt, Filed, Unsaved, SaveLabels
  <2>2. MatchesBut(t)'
    BY <1>1, <1>3, <1>4, <2>1 DEF Matches, MatchesBut, OnFile
  <2> QED
    BY <1>3, <1>5, <2>2 DEF Filed, Unsaved
<1> QED
  BY <1>3, <1>7, <1>8, <1>9, <1>10 DEF Place, PlaceAt

\* Driver.Remove stops the download.
LEMMA DropPlace ==
    ASSUME TypeInv, NEW p \in Procs, Place(p), RemoveDriver(p) \/ ResultDriver(p),
           DriverHas(Arg(p))
    PROVE  Place(p)'
<1> DEFINE t == loc[p].arg
<1>0. /\ ControlType /\ DataType /\ pc[p] \in {"rm.driver", "result.driver"} /\ t \in Tasks
      /\ PlaceAt(pc[p], TopOf(stack[p]), loc[p])
  BY DEF TypeInv, RemoveDriver, ResultDriver, At, Place, DriverKnows, DriverHas, Arg
<1>1. /\ UNCHANGED <<tasks, counted, file>> /\ DriverRemove(t)
      /\ \E label \in {"rm.tell", "rm.unlock", "result.detach", "idle"} :
            \E l : Goto(p, label, l)
  BY DEF RemoveDriver, ResultDriver, Arg, managerVars
<1>2a. PICK label \in {"rm.tell", "rm.unlock", "result.detach", "idle"} : \E l : Goto(p, label, l)
  BY <1>1
<1>2. PICK l : Goto(p, label, l)
  BY <1>2a
<1>3. pc[p] \notin Helpers /\ label \notin StartLabels \cup PauseLabels
  BY <1>0 DEF Helpers, SyncLabels, StartLabels, PauseLabels, SaveLabels, FillLabels
<1>4. /\ NestAt(pc[p], stack[p])' /\ TopOf(stack[p]) = "none" /\ Settled
      /\ pc'[p] = label /\ TopOf(stack[p])' = "none" /\ loc'[p] = l
  BY <1>0, <1>2, <1>3, ClientArrives
<1>5. PICK u \in Tasks : u = t
  BY <1>0
<1>6. /\ drv'[u] = "removed" /\ (\A w \in Tasks \ {u} : drv'[w] = drv[w]) /\ Held' = Held
      /\ lost' = lost \ {u} /\ stops' = IF drv[u] \in Stopped THEN stops ELSE stops + 1
  BY <1>0, <1>1, <1>5 DEF DriverRemove, Count, DataType, Held, Stopped
<1>7. Fits(pc[p], TopOf(stack[p]), loc[p])'
  BY <1>4 DEF Fits, NeedsHeld, Adding, StoreLabels
<1>8. Agrees(pc[p], TopOf(stack[p]), loc[p])'
  BY <1>1, <1>4, <1>6 DEF Agrees, Settled, Astray, Held
<1>9. Counts(pc[p], loc[p])'
  <2>1. /\ Pending(pc[p], loc[p])' \subseteq Pending(pc[p], loc[p]) \cup {u}
        /\ drv[u] \in Stopped => Pending(pc[p], loc[p])' \subseteq Pending(pc[p], loc[p])
    BY <1>1, <1>4, <1>6 DEF Pending, StoreLabels, Held
  <2> QED
    BY <1>0, <1>1, <1>6, <2>1, CountsOn, CountsStop DEF PlaceAt
<1>10. Filed(pc[p], TopOf(stack[p]), loc[p])'
  BY <1>0, <1>1, <1>4, <1>6, MatchesKept DEF PlaceAt, Filed, Adding, Unsaved, SaveLabels
<1> QED
  BY <1>4, <1>7, <1>8, <1>9, <1>10 DEF Place, PlaceAt

LEMMA DetachPlace ==
    ASSUME TypeInv, NEW p \in Procs, Place(p), RemoveDetach(p) \/ ResultDetach(p)
    PROVE  Place(p)'
<1>0. /\ ControlType /\ DataType /\ pc[p] \in {"rm.detach", "result.detach"}
      /\ PlaceAt(pc[p], TopOf(stack[p]), loc[p])
  BY DEF TypeInv, RemoveDetach, ResultDetach, At, Place
<1>1. /\ UNCHANGED <<counted, drv, drvRemoved, lost, stops, file>>
      /\ tasks' = [tasks EXCEPT ![loc[p].arg] = None]
  BY DEF RemoveDetach, ResultDetach, Detach, Arg, driverVars, historyVars
<1>2. PICK label \in {"rm.purge", "result.purge"} : Goto(p, label, loc[p])
  BY DEF RemoveDetach, ResultDetach
<1>3. pc[p] \notin Helpers /\ label \notin StartLabels \cup PauseLabels
  BY <1>0 DEF Helpers, SyncLabels, StartLabels, PauseLabels, SaveLabels, FillLabels
<1>4. /\ NestAt(pc[p], stack[p])' /\ TopOf(stack[p]) = "none" /\ Settled
      /\ pc'[p] = label /\ TopOf(stack[p])' = "none" /\ loc'[p] = loc[p]
  BY <1>0, <1>2, <1>3, ClientArrives
<1>5. Held' \subseteq Held /\ \A u \in Held' : tasks'[u] = tasks[u]
  BY <1>0, <1>1 DEF DataType, Held
<1>6. Fits(pc[p], TopOf(stack[p]), loc[p])'
  BY <1>4 DEF Fits, NeedsHeld, Adding, StoreLabels
<1>7. Agrees(pc[p], TopOf(stack[p]), loc[p])'
  BY <1>1, <1>4, <1>5 DEF Agrees, Settled, Astray
<1>8. Counts(pc[p], loc[p])'
  <2>1. Pending(pc[p], loc[p])' \subseteq Pending(pc[p], loc[p])
    BY <1>1, <1>4, <1>5 DEF Pending, StoreLabels
  <2> QED
    BY <1>0, <1>1, <2>1, CountsOn DEF PlaceAt
<1>9. Filed(pc[p], TopOf(stack[p]), loc[p])'
  BY <1>4 DEF Filed, Adding, Unsaved
<1> QED
  BY <1>4, <1>6, <1>7, <1>8, <1>9 DEF Place, PlaceAt

LEMMA PurgePlace ==
    ASSUME TypeInv, NEW p \in Procs, Place(p), RemovePurge(p) \/ ResultPurge(p)
    PROVE  Place(p)'
<1>0. /\ ControlType /\ DataType /\ pc[p] \in {"rm.purge", "result.purge"}
      /\ PlaceAt(pc[p], TopOf(stack[p]), loc[p])
  BY DEF TypeInv, RemovePurge, ResultPurge, At, Place
<1>1. /\ UNCHANGED <<tasks, counted, drvRemoved, lost, stops, file>>
      /\ drv' = [drv EXCEPT ![loc[p].arg] = None]
  BY DEF RemovePurge, ResultPurge, DriverPurge, Arg, managerVars, historyVars
<1>2. pc[p] \notin Helpers
  BY <1>0 DEF Helpers, SyncLabels, StartLabels, PauseLabels, SaveLabels, FillLabels
<1>3. /\ NestAt(pc[p], stack[p])' /\ Settled
      /\ pc'[p] = "save" /\ TopOf(stack[p])' \in {"none", "rm.fill", "purgeAll"}
  <2> DEFINE Arrived == /\ NestAt(pc[p], stack[p])' /\ Settled
                        /\ pc'[p] = "save"
                        /\ TopOf(stack[p])' \in {"none", "rm.fill", "purgeAll"}
  <2>1. ASSUME NEW l, Goto(p, "save", l) PROVE Arrived
    BY <1>0, <1>2, <2>1, ClientArrives DEF StartLabels, PauseLabels
  <2>2. ASSUME NEW l, NEW back \in {"rm.fill", "purgeAll"}, Call(p, "save", back, l) PROVE Arrived
    <3>1. Backs(pc[p]) = {} /\ Settled
      BY <1>2, TopAt DEF Helpers
    <3>2. back \in ReturnLabels /\ back \in Backs("save")
      BY <2>2, Calls
    <3> QED
      BY <1>0, <2>2, <3>1, <3>2, CallNests DEF Place
  <2> QED
    BY <2>1, <2>2 DEF RemovePurge, ResultPurge
<1>4. Held' = Held /\ \A u \in Tasks : drv'[u] = drv[u] \/ drv'[u] = None
  BY <1>0, <1>1 DEF DataType, Held
<1>5. Fits(pc[p], TopOf(stack[p]), loc[p])'
  BY <1>3 DEF Fits, NeedsHeld, Adding, StoreLabels
<1>6. Agrees(pc[p], TopOf(stack[p]), loc[p])'
  BY <1>1, <1>3, <1>4, NoneAssumption DEF Agrees, Settled, Astray, Held, Statuses
<1>7. Counts(pc[p], loc[p])'
  <2>1. Pending(pc[p], loc[p])' \subseteq Pending(pc[p], loc[p])
    BY <1>1, <1>3, <1>4, NoneAssumption DEF Pending, StoreLabels, Held, Stopped, Statuses
  <2> QED
    BY <1>0, <1>1, <2>1, CountsOn DEF PlaceAt
<1>8. Filed(pc[p], TopOf(stack[p]), loc[p])'
  BY <1>3 DEF Filed, Adding, Unsaved, SaveLabels
<1> QED
  BY <1>3, <1>5, <1>6, <1>7, <1>8 DEF Place, PlaceAt

\* The file is written when every task there is has been collected.
LEMMA WritePlace ==
    ASSUME TypeInv, NEW p \in Procs, Place(p), SaveWrite(p)
    PROVE  Place(p)'
<1> DEFINE m == [[loc[p] EXCEPT !.snap = EmptyFile] EXCEPT !.ok = TRUE]
           top == TopOf(stack[p])
<1>0. /\ ControlType /\ DataType /\ pc[p] = "save.next"
      /\ PlaceAt("save.next", top, loc[p])
  BY DEF TypeInv, SaveWrite, At, Place
<1>1. /\ UNCHANGED <<tasks, counted, drv, drvRemoved, lost, stops>> /\ file' = loc[p].snap
      /\ loc[p].saving = {} /\ Return(p, m)
  BY DEF SaveWrite, Succeed, managerVars, driverVars, historyVars
<1>2. Matches' /\ Held' = Held
  BY <1>0, <1>1 DEF PlaceAt, Filed, Collected, NamedIn, Held, Matches, OnFile
<1>3. top \in SaveBacks \cup {"none"} /\ Settled
  BY <1>0, TopAt DEF SyncLabels, StartLabels, PauseLabels, SaveLabels
<1> HIDE DEF m
<1>4. /\ NestAt(pc[p], stack[p])' /\ pc'[p] \in SaveBacks \cup {"idle"}
      /\ TopOf(stack[p])' = "none"
  <2>1. \A back \in SaveBacks : After(back) = {"none"}
    BY DEF After, Backs, SaveBacks, FillBacks, SyncLabels, StartLabels, PauseLabels, SaveLabels,
       FillLabels
  <2>2. Backs(pc[p]) = SaveBacks
    BY <1>0 DEF Backs, SyncLabels, StartLabels, PauseLabels, SaveLabels
  <2> QED
    BY <1>0, <1>1, <2>1, <2>2, ReturnNests DEF Place
<1>5. Fits(pc[p], TopOf(stack[p]), loc[p])'
  BY <1>4 DEF Fits, NeedsHeld, Adding, StoreLabels, SaveBacks, FillBacks
<1>6. Agrees(pc[p], TopOf(stack[p]), loc[p])'
  BY <1>1, <1>3, <1>4 DEF Agrees, Settled, Astray, Held
<1>7. Counts(pc[p], loc[p])'
  <2>1. Pending(pc[p], loc[p])' \subseteq Pending(pc[p], loc[p])
    BY <1>1, <1>4 DEF Pending, StoreLabels, SaveBacks, FillBacks, Held
  <2> QED
    BY <1>0, <1>1, <2>1, CountsOn DEF PlaceAt
<1>8. Filed(pc[p], TopOf(stack[p]), loc[p])'
  BY <1>2, <1>4 DEF Filed, Adding, SaveBacks, FillBacks
<1> QED
  BY <1>4, <1>5, <1>6, <1>7, <1>8 DEF Place, PlaceAt

\* A download ends wherever the goroutine is.
LEMMA FinishPlace ==
    ASSUME TypeInv, NEW p \in Procs, Place(p), NEW t \in Tasks, Finish(t)
    PROVE  Place(p)'
<1> DEFINE top == TopOf(stack[p])
<1>0. ControlType /\ DataType /\ PlaceAt(pc[p], top, loc[p])
  BY DEF TypeInv, Place
<1>1. UNCHANGED <<pc, stack, loc, tasks, counted, drvRemoved, lost, file>> /\ drv[t] = "active"
  BY DEF Finish, managerVars, controlVars
<1>2. PICK s \in {"complete", "error"} : drv' = [drv EXCEPT ![t] = s] /\ Count(drv[t], s)
  BY BoundAssumption DEF Finish
<1>3. /\ drv'[t] = s /\ (\A u \in Tasks \ {t} : drv'[u] = drv[u])
      /\ stops' = stops + 1 /\ s \in Stopped
  BY <1>0, <1>1, <1>2 DEF Count, DataType, Stopped
<1>4. Held' = Held /\ SlotFree' = SlotFree
  BY <1>1 DEF Held, SlotFree, With
<1>5. \A u \in Tasks : DriverUsable(u) => DriverUsable(u)'
  BY <1>1, <1>2, <1>3, NoneAssumption DEF DriverUsable, DriverKnows, DriverHas, Statuses
<1>6. Fits(pc[p], top, loc[p])'
  <2>1. NeedsHeld(pc[p], top) => loc[p].cur \in Tasks
    BY <1>0 DEF PlaceAt, Fits, Held
  <2>2. pc[p] = "add.store" => loc[p].arg \in Tasks
    BY <1>0 DEF ControlType, StepNeeds
  <2>3. pc[p] = "add.store" => drv'[loc[p].arg] = "waiting"
    BY <1>0, <1>1, <1>3, <2>2 DEF PlaceAt, Fits
  <2>4. Adding(pc[p], top) => DriverUsable(loc[p].cur)' \/ loc[p].cur \in Losable
    BY <1>0, <1>1, <1>5, <2>1 DEF PlaceAt, Fits, NeedsHeld
  <2>5. pc[p] \in {"pause.tell", "pause.store"} => drv'[loc[p].cur] # "active"
    BY <1>0, <1>2, <1>3, <2>1 DEF PlaceAt, Fits, NeedsHeld
  <2>6. pc[p] \in StoreLabels => \/ loc[p].got = drv'[loc[p].cur]
                                 \/ loc[p].got = "active" /\ drv'[loc[p].cur] \in Stopped
    <3>1. CASE loc[p].cur = t
      BY <1>0, <1>1, <1>3, <3>1 DEF PlaceAt, Fits, Stopped
    <3>2. CASE loc[p].cur # t
      BY <1>0, <1>3, <2>1, <3>2 DEF PlaceAt, Fits, NeedsHeld, StoreLabels
    <3> QED
      BY <3>1, <3>2
  <2> QED
    BY <1>0, <1>1, <1>4, <2>3, <2>4, <2>5, <2>6 DEF PlaceAt, Fits
<1>7. Agrees(pc[p], top, loc[p])'
  BY <1>0, <1>1, <1>2, <1>3, <1>4 DEF PlaceAt, Agrees, Astray, Held
<1>8. Counts(pc[p], loc[p])'
  <2>1. Pending(pc[p], loc[p])' \subseteq Pending(pc[p], loc[p]) \cup {t}
    BY <1>1, <1>3, <1>4 DEF Pending, Held
  <2> QED
    BY <1>0, <1>1, <1>3, <2>1, CountsStop DEF PlaceAt
<1>9. Filed(pc[p], top, loc[p])'
  BY <1>0, <1>1, <1>4, MatchesKept DEF PlaceAt, Filed, Collected, NamedIn
<1>10. NestAt(pc[p], stack[p])'
  BY <1>1 DEF Place, NestAt
<1> QED
  BY <1>6, <1>7, <1>8, <1>9, <1>10 DEF Place, PlaceAt

\* The client loses a download wherever the goroutine is.
LEMMA LosePlace ==
    ASSUME TypeInv, NEW p \in Procs, Place(p), NEW t \in Tasks, Lose(t)
    PROVE  Place(p)'
<1> DEFINE top == TopOf(stack[p])
<1>0. PlaceAt(pc[p], top, loc[p])
  BY DEF Place
<1>1. /\ UNCHANGED <<pc, stack, loc, tasks, counted, drv, drvRemoved, stops, file>>
      /\ lost' = lost \cup {t} /\ t \in Losable
  BY DEF Lose, managerVars, controlVars, historyVars
<1>2. Held' = Held /\ SlotFree' = SlotFree
  BY <1>1 DEF Held, SlotFree, With
<1>3. \A u : /\ Astray(u)' => Astray(u)
             /\ DriverUsable(u) => DriverUsable(u)' \/ u \in Losable
  BY <1>1 DEF Astray, DriverUsable, DriverKnows, DriverHas
<1>4. Fits(pc[p], top, loc[p])'
  BY <1>0, <1>1, <1>2, <1>3 DEF PlaceAt, Fits
<1>5. Agrees(pc[p], top, loc[p])'
  BY <1>0, <1>1, <1>2, <1>3 DEF PlaceAt, Agrees
<1>6. Counts(pc[p], loc[p])'
  BY <1>0, <1>1, <1>2 DEF PlaceAt, Counts, Pending
<1>7. Filed(pc[p], top, loc[p])'
  BY <1>0, <1>1, <1>2, MatchesKept DEF PlaceAt, Filed, Collected, NamedIn
<1>8. NestAt(pc[p], stack[p])'
  BY <1>1 DEF Place, NestAt
<1> QED
  BY <1>4, <1>5, <1>6, <1>7, <1>8 DEF Place, PlaceAt

-----------------------------------------------------------------------------

LEMMA InitSerial == Init => SerialInv
<1> SUFFICES ASSUME Init PROVE SerialInv
  OBVIOUS
<1>1. OrphanInv /\ DataType
  BY InitOrphan DEF OrphanInv, TypeInv
<1>2. /\ drv = tasks /\ file = tasks /\ counted = 0 /\ stops = 0
      /\ \A t \in Tasks : wins[t] = 0
      /\ \A p \in Procs : pc[p] = "idle" /\ stack[p] = <<>> /\ loc[p] = NoLocals
  BY DEF Init
<1>3. WinsInv
  BY <1>2 DEF WinsInv
<1>4. ASSUME NEW p \in Procs PROVE Place(p)
  <2>1. NestAt(pc[p], stack[p])
    BY <1>2 DEF NestAt, StartLabels, PauseLabels
  <2>2. TopOf(stack[p]) = "none"
    BY <1>2 DEF TopOf
  <2>3. Fits("idle", "none", NoLocals)
    BY DEF Fits, NeedsHeld, Adding, StoreLabels
  <2>4. Agrees("idle", "none", NoLocals)
    BY <1>2 DEF Agrees, Astray
  <2>5. Counts("idle", NoLocals)
    <3>1. Pending("idle", NoLocals) = {}
      BY <1>2 DEF Pending, StoreLabels
    <3>2. Cardinality(Pending("idle", NoLocals)) = 0
      BY <3>1, FS_EmptySet
    <3> QED
      BY <1>2, <3>2 DEF Counts
  <2>6. Filed("idle", "none", NoLocals)
    BY <1>2 DEF Filed, Adding, Matches, OnFile, Held
  <2> QED
    BY <1>2, <2>1, <2>2, <2>3, <2>4, <2>5, <2>6 DEF Place, PlaceAt
<1> QED
  BY <1>1, <1>3, <1>4 DEF SerialInv

LEMMA NextPlace ==
    ASSUME OrphanInv, NEW p \in Procs, Place(p), Begin(p) \/ Continue(p)
    PROVE  Place(p)'
<1>0. TypeInv
  BY DEF OrphanInv
<1>1. CASE Begin(p)
  BY <1>0, <1>1, BeginPlace, AddPlace
<1>2. CASE Helper(p)
  <2>1. CASE StartDriver(p)
    BY <1>0, <2>1, UsePlace, RefusedPlace
  <2> QED
    BY <1>0, <1>2, <2>1, SyncPlace, StorePlace, LookupPlace, AnswerPlace, SavePlace, WritePlace,
       FillPlace DEF Helper
<1>3. CASE RemoveStep(p)
  <2>1. CASE RemoveDriver(p)
    BY <1>0, <2>1, DropPlace, UnknownPlace
  <2> QED
    BY <1>0, <1>3, <2>1, RemovePlace, DetachPlace, PurgePlace DEF RemoveStep
<1>4. CASE CallStep(p)
  <2>1. CASE PauseDriver(p)
    BY <1>0, <2>1, UsePlace, RefusedPlace
  <2>2. CASE ResultDriver(p)
    BY <1>0, <2>2, DropPlace, UnknownPlace
  <2>3. CASE ChangeOptionDriver(p)
    BY <1>0, <2>3, UsePlace, UnknownPlace
  <2> QED
    BY <1>0, <1>4, <2>1, <2>2, <2>3, AddStorePlace, AddModePlace, AnswerPlace, StorePlace,
       LookupPlace, CallsPlace, DetachPlace, PurgePlace DEF CallStep
<1> QED
  BY <1>1, <1>2, <1>3, <1>4 DEF Continue

\* Only AddStore and the stores of helpers put a task in the manager.
LEMMA NextWins ==
    ASSUME OrphanInv, WinsInv, [Next]_vars, \A p \in Procs : Place(p)
    PROVE  WinsInv'
<1>0. DataType
  BY DEF OrphanInv, TypeInv
<1>1. ASSUME wins' = wins, Held' \subseteq Held, drvRemoved \subseteq drvRemoved' PROVE WinsInv'
  BY <1>1 DEF WinsInv, Held
<1>2. ASSUME NEW p \in Procs, SyncStore(p) \/ StartStore(p) \/ PauseStore(p) PROVE WinsInv'
  <2>1. loc[p].cur \in Held
    BY <1>2 DEF Place, PlaceAt, Fits, NeedsHeld, SyncStore, StartStore, PauseStore, At
  <2>2. Held' \subseteq Held
    BY <1>0, <1>2, <2>1 DEF SyncStore, StartStore, PauseStore, StoreTask, Cur, Held, DataType
  <2> QED
    BY <1>1, <1>2, <2>2 DEF SyncStore, StartStore, PauseStore, driverVars, historyVars
<1>3. ASSUME NEW p \in Procs, AddStore(p) PROVE WinsInv'
  <2>1. loc[p].arg \notin drvRemoved
    BY <1>3 DEF Place, PlaceAt, Fits, AddStore, At
  <2> QED
    BY <1>0, <1>3, <2>1 DEF AddStore, Arg, WinsInv, Held, DataType, driverVars, historyVars
<1>4. ASSUME NEW p \in Procs, RemoveDetach(p) \/ ResultDetach(p) PROVE WinsInv'
  <2>1. loc[p].arg \in drvRemoved \cup {None}
    BY <1>4 DEF OrphanInv, ControlBorn, Purging, PurgeLabels, RemoveDetach, ResultDetach, At
  <2>2. /\ tasks' = [tasks EXCEPT ![loc[p].arg] = None] /\ drvRemoved' = drvRemoved
        /\ \A t \in Tasks : t # loc[p].arg => wins'[t] = wins[t]
    BY <1>0, <1>4 DEF RemoveDetach, ResultDetach, Detach, Arg, driverVars, historyVars, DataType
  <2> QED
    BY <1>0, <2>1, <2>2, NoneAssumption DEF WinsInv, Held, DataType
<1>5. ASSUME NEW p \in Procs, RemoveDriver(p) \/ ResultDriver(p) PROVE WinsInv'
  <2>1. wins' = wins /\ tasks' = tasks /\ drvRemoved \subseteq drvRemoved'
    BY <1>5 DEF RemoveDriver, ResultDriver, DriverRemove, driverVars, managerVars
  <2> QED
    BY <1>1, <2>1 DEF Held
<1>6. ASSUME UNCHANGED <<wins, tasks, drvRemoved>> PROVE WinsInv'
  BY <1>6 DEF WinsInv, Held
<1>7. ASSUME NEW p \in Procs, Begin(p) PROVE WinsInv'
  <2>1. UNCHANGED <<wins, tasks, drvRemoved>>
    BY <1>7 DEF Begin, Add, Remove, Pause, PauseAll, Unpause, UnpauseAll, ChangeOption,
       RemoveDownloadResult, PurgeDownloadResult, TellStatus, SyncActive, SaveSession,
       OnlyControl, managerVars, driverVars, historyVars
  <2> QED
    BY <1>6, <2>1
<1>8. ASSUME NEW p \in Procs, Helper(p) PROVE WinsInv'
  <2>1. SyncStore(p) \/ StartStore(p) \/ UNCHANGED <<wins, tasks, drvRemoved>>
    BY <1>8 DEF Helper, Sync, SyncTell, Start, StartDriver, StartTell, Save, SaveNext, SaveGot,
       SaveWrite, Fill, FillNext, FillStarted, FillEnd, DriverStart,
       OnlyControl, managerVars, driverVars, historyVars
  <2> QED
    BY <1>2, <1>6, <2>1
<1>9. ASSUME NEW p \in Procs, RemoveStep(p) PROVE WinsInv'
  <2>1. RemoveDriver(p) \/ RemoveDetach(p) \/ UNCHANGED <<wins, tasks, drvRemoved>>
    BY <1>9 DEF RemoveStep, RemoveMutexFor, RemoveLock, RemoveStillThere, RemoveTell, RemovePurge,
       RemoveFill, RemoveUnlock, RemoveForget, DriverPurge,
       OnlyControl, managerVars, driverVars, historyVars
  <2> QED
    BY <1>4, <1>5, <1>6, <2>1
<1>10. ASSUME NEW p \in Procs, CallStep(p) PROVE WinsInv'
  <2>1. \/ AddStore(p) \/ PauseStore(p) \/ ResultDriver(p) \/ ResultDetach(p)
        \/ UNCHANGED <<wins, tasks, drvRemoved>>
    BY <1>10 DEF CallStep, AddMode, AddStarted, AddPaused, AddSave, PauseDriver, PauseTell,
       PauseSave, PauseFill, PauseAllLoop, PauseTaskByID, PauseAllSave, UnpauseSync, UnpauseSave,
       UnpauseAllLoop, UnpauseAllSave, ChangeOptionDriver, ChangeOptionSave, ResultCheck,
       ResultPurge, PurgeAllLoop, PurgeAllCheck, PurgeAllLookup, SyncActiveLoop, SyncActiveDone,
       DriverStart, DriverPause, DriverPurge, OnlyControl, managerVars, driverVars, historyVars
  <2> QED
    BY <1>2, <1>3, <1>4, <1>5, <1>6, <2>1
<1>11. ASSUME NEW t \in Tasks, Finish(t) \/ Lose(t) PROVE WinsInv'
  BY <1>6, <1>11 DEF Finish, Lose, managerVars, historyVars
<1>12. CASE UNCHANGED vars
  BY <1>6, <1>12 DEF vars, managerVars, driverVars, historyVars
<1> QED
  BY <1>7, <1>8, <1>9, <1>10, <1>11, <1>12 DEF Next, Continue

LEMMA NextSerial == SerialInv /\ [Next]_vars => SerialInv'
<1> SUFFICES ASSUME SerialInv, [Next]_vars PROVE SerialInv'
  OBVIOUS
<1>1. OrphanInv /\ OrphanInv'
  BY NextOrphan DEF SerialInv
<1>2. ASSUME OneAtATime PROVE WinsInv' /\ \A p \in Procs : Place(p)'
  <2>1. WinsInv /\ \A p \in Procs : Place(p)
    BY <1>2 DEF SerialInv
  <2>2. WinsInv'
    BY <1>1, <2>1, NextWins
  <2>3. ASSUME NEW p \in Procs PROVE Place(p)'
    <3>1. \A q \in Procs : q = p
      BY <1>2, <2>3 DEF OneAtATime
    <3>2. CASE Begin(p) \/ Continue(p)
      BY <1>1, <2>1, <3>2, NextPlace
    <3>3. CASE \E t \in Tasks : Finish(t) \/ Lose(t)
      BY <1>1, <2>1, <3>3, FinishPlace, LosePlace DEF OrphanInv
    <3>4. CASE UNCHANGED vars
      <4>1. UNCHANGED <<pc, stack, loc>> /\ DataKept /\ PlaceAt(pc[p], TopOf(stack[p]), loc[p])
        BY <2>1, <3>4 DEF vars, controlVars, managerVars, driverVars, historyVars, DataKept, Place
      <4>2. NestAt(pc[p], stack[p])'
        BY <2>1, <4>1 DEF Place, NestAt
      <4> QED
        BY <4>1, <4>2, MovedPlace
    <3> QED
      BY <3>1, <3>2, <3>3, <3>4 DEF Next
  <2> QED
    BY <2>2, <2>3
<1>3. OneAtATime' <=> OneAtATime
  BY DEF OneAtATime
<1> QED
  BY <1>1, <1>2, <1>3 DEF SerialInv

LEMMA SerialInvariant == Spec => []SerialInv
  BY InitSerial, NextSerial, PTL DEF Spec

\* As long as calls do not overlap, a task that Remove has taken out of the manager does not
\* come back: no refresh of a status that was read earlier is stored after the removal.
THEOREM StaysRemoved == Spec => [](OneAtATime => RemovedStaysRemoved)
<1>1. SerialInv => (OneAtATime => RemovedStaysRemoved)
  BY DEF SerialInv, WinsInv, RemovedStaysRemoved
<1> QED
  BY <1>1, SerialInvariant, PTL

\* As long as calls do not overlap, numStoppedTotal counts every stop at most once, however
\* often the status of a stopped task is refreshed.
THEOREM StopsCounted == Spec => [](OneAtATime => CountedOnce)
<1>1. SerialInv => (OneAtATime => CountedOnce)
  <2> SUFFICES ASSUME SerialInv, OneAtATime PROVE CountedOnce
    OBVIOUS
  <2>1. PICK p \in Procs : Place(p)
    BY DEF SerialInv, OneAtATime
  <2>2. Pending(pc[p], loc[p]) \subseteq Tasks
    BY DEF Pending, Held
  <2>3. Cardinality(Pending(pc[p], loc[p])) \in Nat
    BY <2>2, TasksAssumption, FS_Subset, FS_CardinalityType
  <2> QED
    BY <2>1, <2>3 DEF Place, PlaceAt, Counts, CountedOnce, SerialInv, OrphanInv, TypeInv, DataType
<1> QED
  BY <1>1, SerialInvariant, PTL

\* As long as calls do not overlap, the session file names between two calls the tasks
\* of the manager, but for tasks that the client behind their driver may lose: every change
\* is followed by the SaveSession that records it, unless Driver.Start or Pause failed in Add.
THEOREM SessionKept == Spec => [](OneAtATime => SessionMatches)
<1>1. SerialInv => (OneAtATime => SessionMatches)
  <2> SUFFICES ASSUME SerialInv, OneAtATime, Quiet PROVE Matches
    BY DEF SessionMatches, Matches
  <2>1. PICK p \in Procs : Place(p)
    BY DEF SerialInv, OneAtATime
  <2>2. pc[p] = "idle" /\ TopOf(stack[p]) = "none"
    BY <2>1, TopAt DEF Quiet, SyncLabels, StartLabels, PauseLabels, SaveLabels, FillLabels
  <2> QED
    BY <2>1, <2>2 DEF Place, PlaceAt, Filed, Unsaved, SaveLabels
<1> QED
  BY <1>1, SerialInvariant, PTL

\* A refresh makes a task active only when it is the client's change of an option.
LEMMA StoresExceed ==
    ASSUME TypeInv, NEW p \in Procs, Place(p), SyncStore(p) \/ StartStore(p) \/ PauseStore(p),
           Cardinality(With({"active"})') > MaxConcurrent,
           ~(With({"active"})' \subseteq With({"active"}))
    PROVE  Resuming(p)
<1> DEFINE c == loc[p].cur
           top == TopOf(stack[p])
           old == With({"active"})
           new == With({"active"})'
<1>0. /\ DataType /\ pc[p] \in StoreLabels /\ PlaceAt(pc[p], top, loc[p]) /\ c \in Tasks
      /\ tasks' = [tasks EXCEPT ![c] = loc[p].got]
  BY DEF TypeInv, ControlType, StepNeeds, Place, SyncStore, StartStore, PauseStore, At, StoreLabels,
     StoreTask, Cur
<1>1. new \subseteq old \cup {c} /\ c \in new /\ c \notin old
  BY <1>0 DEF With, DataType
<1>2. loc[p].got = "active" /\ tasks[c] # "active"
  BY <1>0, <1>1 DEF With, DataType
<1>3. ASSUME top \in {"fill.started", "add.started"} PROVE FALSE
  <2>1. Cardinality(old) < MaxConcurrent
    BY <1>0, <1>3 DEF PlaceAt, Fits, SlotFree
  <2>2. IsFiniteSet(old) /\ old \subseteq Tasks /\ new \subseteq Tasks
    BY TasksAssumption, FS_Subset DEF With
  <2>3. IsFiniteSet(old \cup {c}) /\ Cardinality(old \cup {c}) = Cardinality(old) + 1
    BY <1>1, <2>2, FS_AddElement
  <2>4. Cardinality(new) <= Cardinality(old) + 1
    BY <1>1, <2>3, FS_Subset
  <2>5. Cardinality(old) \in Nat /\ Cardinality(new) \in Nat
    BY <2>2, TasksAssumption, FS_Subset, FS_CardinalityType
  <2> HIDE DEF old, new
  <2> QED
    BY <2>1, <2>4, <2>5, BoundAssumption DEF old, new
<1>4. pc[p] # "pause.store"
  BY <1>0, <1>2 DEF PlaceAt, Fits
<1>5. CASE pc[p] = "sync.store"
  <2>1. top = "option.save"
    BY <1>0, <1>2, <1>5 DEF PlaceAt, Fits
  <2> QED
    BY <1>5, <2>1 DEF Resuming, TopOf
<1>6. CASE pc[p] = "start.store"
  <2>1. stack[p] # <<>> /\ Head(stack[p]) \in StartBacks
    BY <1>6 DEF Place, NestAt, Backs, SyncLabels, StartLabels
  <2> QED
    BY <1>3, <1>6, <2>1 DEF Resuming, TopOf, StartBacks
<1> QED
  BY <1>0, <1>4, <1>5, <1>6 DEF StoreLabels

\* As long as calls do not overlap, fillSlots never resumes a task that its driver holds
\* paused, and beyond max-concurrent-downloads a task becomes active only by the word of a
\* client: Unpause, UnpauseAll and ChangeOption do not look at the limit, all others do.
THEOREM StartedInTurn == ASSUME OneAtATime PROVE Spec => StartsInTurn
<1>1. SerialInv /\ [Next]_vars =>
         [\A p \in Procs : StartDriver(p) /\ stack[p] # <<>> =>
             (Head(stack[p]) = "fill.started" => drv[Cur(p)] # "paused" \/ Cur(p) \in lost)]_vars
  <2> SUFFICES ASSUME SerialInv, NEW p \in Procs, StartDriver(p), stack[p] # <<>>,
                      Head(stack[p]) = "fill.started", drv[Cur(p)] = "paused", Cur(p) \notin lost
               PROVE  FALSE
    OBVIOUS
  <2>1. /\ PlaceAt(pc[p], "fill.started", loc[p]) /\ pc[p] = "start.driver"
    BY DEF SerialInv, Place, TopOf, StartDriver, At
  <2>2. tasks[loc[p].cur] = "waiting" /\ loc[p].cur \in Held
    BY <2>1 DEF PlaceAt, Fits, NeedsHeld
  <2> QED
    BY <2>1, <2>2 DEF PlaceAt, Agrees, Astray, Changing, Cur
<1>2. SerialInv /\ [Next]_vars =>
         [LET active == With({"active"})
          IN Cardinality(active') > MaxConcurrent /\ ~(active' \subseteq active)
                => \E p \in Procs : Resuming(p)]_vars
  <2> SUFFICES ASSUME SerialInv, Next, Cardinality(With({"active"})') > MaxConcurrent,
                      ~(With({"active"})' \subseteq With({"active"}))
               PROVE  \E p \in Procs : Resuming(p)
    OBVIOUS
  <2>1. TypeInv /\ DataType /\ \A p \in Procs : Place(p)
    BY DEF SerialInv, OrphanInv, TypeInv
  <2>2. tasks' # tasks
    BY DEF With
  <2>3. ASSUME NEW p \in Procs, SyncStore(p) \/ StartStore(p) \/ PauseStore(p)
        PROVE  \E q \in Procs : Resuming(q)
    BY <2>1, <2>3, StoresExceed
  <2>4. ASSUME NEW p \in Procs, AddStore(p) \/ RemoveDetach(p) \/ ResultDetach(p) PROVE FALSE
    <3>1. \A t \in Tasks : tasks'[t] = tasks[t] \/ tasks'[t] \in {"waiting", None}
      BY <2>1, <2>4 DEF AddStore, RemoveDetach, ResultDetach, Detach, DataType
    <3> QED
      BY <3>1, NoneAssumption DEF With, Statuses
  <2>5. ASSUME NEW p \in Procs, Begin(p) PROVE FALSE
    BY <2>2, <2>5 DEF Begin, Add, Remove, Pause, PauseAll, Unpause, UnpauseAll, ChangeOption,
       RemoveDownloadResult, PurgeDownloadResult, TellStatus, SyncActive, SaveSession,
       OnlyControl, managerVars
  <2>6. ASSUME NEW p \in Procs, Helper(p) PROVE SyncStore(p) \/ StartStore(p)
    BY <2>2, <2>6 DEF Helper, Sync, SyncTell, Start, StartDriver, StartTell, Save, SaveNext,
       SaveGot, SaveWrite, Fill, FillNext, FillStarted, FillEnd, OnlyControl, managerVars
  <2>7. ASSUME NEW p \in Procs, RemoveStep(p) PROVE RemoveDetach(p)
    BY <2>2, <2>7 DEF RemoveStep, RemoveMutexFor, RemoveLock, RemoveStillThere, RemoveDriver,
       RemoveTell, RemovePurge, RemoveFill, RemoveUnlock, RemoveForget, OnlyControl, managerVars
  <2>8. ASSUME NEW p \in Procs, CallStep(p) PROVE AddStore(p) \/ PauseStore(p) \/ ResultDetach(p)
    BY <2>2, <2>8 DEF CallStep, AddMode, AddStarted, AddPaused, AddSave, PauseDriver, PauseTell,
       PauseSave, PauseFill, PauseAllLoop, PauseTaskByID, PauseAllSave, UnpauseSync, UnpauseSave,
       UnpauseAllLoop, UnpauseAllSave, ChangeOptionDriver, ChangeOptionSave, ResultCheck,
       ResultDriver, ResultPurge, PurgeAllLoop, PurgeAllCheck, PurgeAllLookup, SyncActiveLoop,
       SyncActiveDone, OnlyControl, managerVars
  <2>9. ASSUME NEW t \in Tasks, Finish(t) \/ Lose(t) PROVE FALSE
    BY <2>2, <2>9 DEF Finish, Lose, managerVars
  <2> QED
    BY <2>3, <2>4, <2>5, <2>6, <2>7, <2>8, <2>9 DEF Next, Continue
<1> QED
  BY <1>1, <1>2, SerialInvariant, PTL DEF Spec, StartsInTurn, PausedNotPromoted, OnlyClientsExceed
==============================================================================
