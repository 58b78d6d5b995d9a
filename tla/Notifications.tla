---------------------------- MODULE Notifications ----------------------------
(***************************************************************************)
(* What a WebSocket client is told of one task (rpc/jsonrpc/notify.go).     *)
(*                                                                          *)
(* A call of the manager that announces a change has read the status of the *)
(* task from its driver, stored it, and emits it some time later.  Other     *)
(* calls read and store without a word; every save of the session is one.   *)
(* A connection works its notifications out of the events alone, in the     *)
(* order in which they are emitted (EventBus).                              *)
(***************************************************************************)
EXTENDS FiniteSets

CONSTANTS
    Callers,      \* goroutines that call the manager
    Plans,        \* who calls what: a set of functions from Callers to subsets of OpNames
    None

OpNames == {"add", "pause", "unpause", "remove", "query", "sync", "seed limit"}

VARIABLES
    bt, may,      \* the protocol is BitTorrent; one of Plans
    drv,          \* the driver's status of the task, or None
    held,         \* the one in Manager.tasks, or None
    call,         \* what each goroutine is doing
    prev,         \* the connection's entry for the task, or None
    told, again,  \* its last notification, and whether the one before it was the same
    overlapped    \* two calls were under way at once

toldVars == <<prev, told, again>>
vars == <<bt, may, drv, held, call, toldVars, overlapped>>

Statuses == {"waiting", "active", "paused", "complete", "error"}
Snap == [status : Statuses, seeder : BOOLEAN]
Is(x, s) == x # None /\ x.status = s
Unknown == [status |-> "", seeder |-> FALSE]
Kinds == {"Start", "Stop", "Pause", "Error", "Complete", "BtComplete"}
NotificationsAssumption ==
    Plans \subseteq [Callers -> SUBSET OpNames] /\ None \notin Snap \cup Kinds \cup OpNames

At(p, op, step) == call[p].op = op /\ call[p].at = step
Idle == [op |-> None, at |-> "idle", got |-> None]
Goto(p, step) == call' = [call EXCEPT ![p].at = step]
Busy == {p \in Callers : call[p] # Idle}

-----------------------------------------------------------------------------
(* aria2NotificationsForEvent *)

\* transitionNotifications, when something has changed.
Transition(old, new) ==
    LET seedingEnds == old.status = "complete" /\ old.seeder /\ ~new.seeder
        seeds == bt /\ ~seedingEnds /\ new.seeder
    IN CASE new.status = "complete" -> IF seeds THEN "BtComplete" ELSE "Complete"
         [] new.status = "paused" -> "Pause"
         [] new.status = "error" -> "Error"
         [] new.status = "active" /\ old.status \in {"paused", "waiting", ""} -> "Start"
         [] OTHER -> None

Say(n) ==
    /\ told' = IF n = None THEN told ELSE n
    /\ again' = IF n = None THEN again ELSE n = told

Added(new) ==
    /\ prev' = new
    /\ Say(IF new.status \in {"waiting", "paused"} THEN None ELSE "Start")

Removed == prev' = None /\ Say("Stop")

\* Mutant: the entry is written when the task is added, and then left alone.
UpdatedFromAdded(new) ==
    LET old == IF prev = None THEN Unknown ELSE prev
    IN prev' = (IF prev = None THEN new ELSE prev) /\ Say(IF old = new THEN None ELSE Transition(old, new))
Updated(new) ==
    LET old == IF prev = None THEN Unknown ELSE prev
    IN prev' = new /\ Say(IF old = new THEN None ELSE Transition(old, new))

-----------------------------------------------------------------------------
(* Calls of the manager. *)

Enter(p, op, step) ==
    /\ call[p] = Idle /\ op \in may[p]
    /\ call' = [call EXCEPT ![p] = [op |-> op, at |-> step, got |-> None]]
    /\ overlapped' = (overlapped \/ Busy # {})

\* The driver has the task, waiting, paused or started, and the manager too.  A gid that is
\* used again names another task; calls about the one before are over by then.
Add(p) ==
    /\ held = None /\ drv = None /\ Busy = {} /\ Enter(p, "add", "tell")
    /\ \E s \in {"waiting", "paused", "active"} : drv' = [status |-> s, seeder |-> FALSE]
    /\ held' = [status |-> "waiting", seeder |-> FALSE]
    /\ UNCHANGED <<bt, may, toldVars>>

\* Driver.Pause and Driver.Start; fillSlots is an unpause of a task that waits.
Pause(p) ==
    /\ held # None /\ drv # None /\ Enter(p, "pause", "tell")
    /\ drv' = [drv EXCEPT !.status = "paused"]
    /\ UNCHANGED <<bt, may, held, toldVars>>
Unpause(p) ==
    /\ held # None /\ drv # None /\ Enter(p, "unpause", "tell")
    /\ drv' \in {[status |-> "active", seeder |-> s] : s \in IF bt THEN BOOLEAN ELSE {FALSE}}
    /\ UNCHANGED <<bt, may, held, toldVars>>

\* Driver.Remove, detachTask, and what is announced.
Remove(p) ==
    /\ held # None /\ Enter(p, "remove", "emit")
    /\ drv' = None /\ held' = None
    /\ UNCHANGED <<bt, may, toldVars>>

\* tellStatus, the listings, and every save of the session.
Query(p) ==
    /\ held # None /\ Enter(p, "query", "tell")
    /\ UNCHANGED <<bt, may, drv, held, toldVars>>

\* Mutant: only what is still active is looked at.
SyncActiveStill(p) ==
    /\ Is(held, "active") /\ Is(drv, "active") /\ Enter(p, "sync", "tell")
    /\ UNCHANGED <<bt, may, drv, held, toldVars>>

\* SyncActive is about the tasks that the manager takes for active.
SyncActive(p) ==
    /\ Is(held, "active") /\ Enter(p, "sync", "tell")
    /\ UNCHANGED <<bt, may, drv, held, toldVars>>

\* EnforceSeedLimits: the status before, the policy, and the status after it.
EnforceSeedLimits(p) ==
    /\ bt /\ held # None /\ drv # None /\ Enter(p, "seed limit", "policy")
    /\ held' = drv /\ UNCHANGED <<bt, may, drv, toldVars>>
EnforceSeedPolicy(p) ==
    /\ At(p, "seed limit", "policy")
    /\ call' = [call EXCEPT ![p].at = "tell", ![p].got = held]
    /\ drv' = IF Is(drv, "complete") THEN [drv EXCEPT !.seeder = FALSE] ELSE drv
    /\ UNCHANGED <<bt, may, held, toldVars, overlapped>>

\* Driver.TellStatus; a driver that has lost the task ends the call.
Tell(p) ==
    /\ call[p].at = "tell"
    /\ call' = [call EXCEPT ![p] =
           IF drv = None \/ (call[p].op = "seed limit" /\ call[p].got = drv) THEN Idle
           ELSE [@ EXCEPT !.at = "store", !.got = drv]]
    /\ held' = IF call[p].op = "seed limit" /\ drv # None THEN drv ELSE held
    /\ UNCHANGED <<bt, may, drv, toldVars, overlapped>>

\* storeTask
Store(p) ==
    /\ call[p].at = "store"
    /\ held' = call[p].got
    /\ call' = [call EXCEPT ![p] =
           CASE call[p].op = "query" -> Idle
             [] call[p].op \in {"sync", "seed limit"} -> [@ EXCEPT !.at = "emit"]
             [] OTHER -> [@ EXCEPT !.at = "save"]]
    /\ UNCHANGED <<bt, may, drv, toldVars, overlapped>>

\* SaveSession reads and stores once more; what is emitted does not change.
Save(p) ==
    /\ call[p].at = "save" /\ Goto(p, "emit")
    /\ held' = IF held = None \/ drv = None THEN held ELSE drv
    /\ UNCHANGED <<bt, may, drv, toldVars, overlapped>>

Emit(p) ==
    /\ call[p].at = "emit"
    /\ CASE call[p].op = "add" -> Added(call[p].got)
         [] call[p].op = "remove" -> Removed
         [] OTHER -> Updated(call[p].got)
    /\ call' = [call EXCEPT ![p] = Idle]
    /\ UNCHANGED <<bt, may, drv, held, overlapped>>

\* A download ends on its own; a torrent may go on as a seeder.
End ==
    /\ Is(drv, "active")
    /\ \E s \in {"complete", "error"}, seeder \in BOOLEAN :
          /\ seeder => bt /\ s = "complete"
          /\ drv' = [status |-> s, seeder |-> seeder]
    /\ UNCHANGED <<bt, may, held, call, toldVars, overlapped>>

-----------------------------------------------------------------------------

\* The connection is there from the beginning.
Init ==
    /\ bt \in BOOLEAN /\ may \in Plans
    /\ drv = None /\ held = None /\ call = [p \in Callers |-> Idle]
    /\ prev = None /\ told = None /\ again = FALSE /\ overlapped = FALSE

GoOn(p) == EnforceSeedPolicy(p) \/ Tell(p) \/ Store(p) \/ Save(p) \/ Emit(p)
Next ==
    \/ \E p \in Callers :
          \/ Add(p) \/ Pause(p) \/ Unpause(p) \/ Remove(p)
          \/ Query(p) \/ SyncActive(p) \/ EnforceSeedLimits(p) \/ GoOn(p)
    \/ End
Spec == Init /\ [][Next]_vars
\* A call comes to its end, and syncLoop goes round.
Fairness == \A p \in Callers : WF_vars(GoOn(p)) /\ WF_vars(SyncActive(p))

-----------------------------------------------------------------------------
(* Properties. *)

\* The variables have their types.
TypeOK ==
    /\ bt \in BOOLEAN /\ may \in [Callers -> SUBSET OpNames]
    /\ {drv, held, prev} \subseteq Snap \cup {None}
    /\ call \in [Callers -> [op : OpNames \cup {None}, at : {"idle", "policy", "tell", "store", "save", "emit"},
                             got : Snap \cup {None}]]
    /\ told \in Kinds \cup {None} /\ again \in BOOLEAN /\ overlapped \in BOOLEAN

\* A client is told that a download has ended, as long as nobody but syncLoop, pauses and
\* removals look at the task: SyncActive finds what the manager takes for active until it
\* has announced the end.  Any other look at it, a save of the session included, loses it.
Quiet == \A p \in Callers : may[p] \subseteq {"add", "pause", "remove", "sync"}
EndIsTold ==
    \A s \in {"complete", "error"} :
       (Quiet /\ Busy = {} /\ Is(held, "active") /\ Is(drv, s)) ~>
          told \in {"Complete", "BtComplete", "Error"} \/ ~Is(drv, s)

\* A client that counts pauses and starts sees them in turn, unless calls overlap or the
\* seeder flag of a torrent changes: status queries in between do not repeat any.
SaidInTurn == again /\ ~overlapped /\ ~bt => told \notin {"Start", "Pause"}

\* A connection forgets a task that is removed, and hears no more of it, when calls are
\* served one at a time; its map does not grow.
Forgotten == ~overlapped /\ Busy = {} /\ held = None => prev = None

\* What a client hears of a task makes sense from its addition to its removal.
ToldInTurn == SaidInTurn /\ Forgotten

\* What a client expects: an end is told whoever looks at the task first.
EndIsAlwaysTold ==
    \A s \in {"complete", "error"} :
       Is(drv, s) ~> told \in {"Complete", "BtComplete", "Error"} \/ ~Is(drv, s)
===============================================================================
