------------------------------ MODULE TaskQueue ------------------------------
(***************************************************************************)
(* The download queue of the manager (core/manager/queue.go).  It is not a  *)
(* list: the queue is the waiting and paused tasks sorted by CreatedAt, and *)
(* moving a task gives every queued task a new CreatedAt in the past.       *)
(*                                                                          *)
(* changePosition and add* with a position read the queue under m.mu, work  *)
(* out the new order, and take m.mu again to write it, so other calls fall  *)
(* between.  A driver that loaded a task from the session has a CreatedAt   *)
(* of its own, and storeTask copies it over the manager's.                  *)
(***************************************************************************)
EXTENDS Integers, SequencesExt

CONSTANTS
    Tasks,          \* task ids; they are random, so not in the order of addition
    Procs,          \* goroutines that serve calls
    MaxConcurrent,
    Modes,          \* the values of "how" that clients use
    Positions,      \* the positions that clients give
    Restarts,       \* TRUE: the daemon may restart
    Tick,           \* time between two readings of the clock, in milliseconds
    Second,         \* 1000, or less to keep the stamps few
    LastReading,    \* bound on the clock
    None

Queued   == {"waiting", "paused"}
Statuses == {"none", "waiting", "active", "paused", "stopped"}
Zero == -1000000                               \* time.Time{}

QueueAssumption ==
    /\ Tasks \subseteq Nat /\ IsFiniteSet(Tasks)
    /\ Positions \subseteq Int /\ Modes \subseteq {"POS_SET", "POS_CUR", "POS_END"}
    /\ Tick \in Nat \ {0} /\ Second \in Nat \ {0} /\ LastReading \in Nat
    /\ MaxConcurrent \in Nat /\ Restarts \in BOOLEAN

VARIABLES
    status,     \* m.tasks[t].Status, "none" when there is no such task yet
    created,    \* m.tasks[t].CreatedAt
    copy,       \* CreatedAt of the driver's copy of the task
    saved,      \* the session file: CreatedAt and status of its tasks
    now,        \* the clock
    picked,     \* the task that fillSlots found at the head of the queue and is about to start
    call,       \* the call each goroutine serves
    overtaken   \* history: calls that are to write an order of tasks whose dates have changed
                \* since the call read the queue

vars == <<status, created, copy, saved, now, picked, call, overtaken>>

Held    == {t \in Tasks : status[t] # "none"}
InQueue == {t \in Tasks : status[t] \in Queued}
Idle == [pc |-> "idle", task |-> None, from |-> 0, index |-> 0, list |-> <<>>]
At(p, step) == call[p].pc = step

\* orderedQueueTaskIDs; tellWaiting sorts alike.
Before(t, u) == created[t] < created[u] \/ (created[t] = created[u] /\ t < u)
Ahead(t, S) == Cardinality({u \in S : Before(u, t)})
InOrder(S) == [i \in 1..Cardinality(S) |-> CHOOSE t \in S : Ahead(t, S) = i - 1]
Queue == InOrder(InQueue)

IndexOf(t, list) == CHOOSE i \in 0..(Len(list) - 1) : list[i + 1] = t
Clamp(i, n) == IF i < 0 THEN 0 ELSE IF i >= n THEN n - 1 ELSE i     \* clampQueueIndex
Resolve(from, n, pos, how) ==                                       \* resolveQueueIndex
    Clamp(CASE how = "POS_SET" -> pos
            [] how = "POS_CUR" -> from + pos
            [] how = "POS_END" -> n - 1 + pos, n)

\* Mutant: a move towards the head stops one short as well.
ReorderShort(list, from, to) ==
    LET rest == RemoveAt(list, from + 1)
        place == IF to > from THEN to - 1 ELSE to + 1
    IN InsertAt(rest, place + 1, list[from + 1])

\* reorderQueueIDs, with indexes from 0: a move towards the end stops one short.
Reorder(list, from, to) ==
    LET rest == RemoveAt(list, from + 1)
        place == IF to > from THEN to - 1 ELSE to
    IN InsertAt(rest, place + 1, list[from + 1])

\* Mutant: a page ends one task early.
PageShort(list, offset, limit) ==
    LET n == Len(list)
        first == CASE offset >= 0 -> offset
                   [] offset < 0 /\ n + offset >= 0 -> n + offset
                   [] OTHER -> 0
        end == IF first + limit > n THEN n ELSE first + limit - 1
    IN IF limit <= 0 \/ first >= n THEN <<>> ELSE SubSeq(list, first + 1, end)

\* tellWaiting(offset, limit) of a queue.
Page(list, offset, limit) ==
    LET n == Len(list)
        first == CASE offset >= 0 -> offset
                   [] offset < 0 /\ n + offset >= 0 -> n + offset
                   [] OTHER -> 0
        end == IF first + limit > n THEN n ELSE first + limit
    IN IF limit <= 0 \/ first >= n THEN <<>> ELSE SubSeq(list, first + 1, end)

\* The part of storeTask that merges CreatedAt.
Merged(t) == IF copy[t] = Zero THEN created[t] ELSE copy[t]

-----------------------------------------------------------------------------
(* Calls. *)

Add(p, t) ==
    /\ At(p, "idle") /\ status[t] = "none" /\ now <= LastReading
    /\ status' = [status EXCEPT ![t] = "waiting"]
    /\ created' = [created EXCEPT ![t] = now] /\ now' = now + Tick
    /\ \/ call' = [call EXCEPT ![p].pc = "save"]                 \* position < 0
       \/ \E pos \in Positions \cap Nat :
             call' = [call EXCEPT ![p] = [Idle EXCEPT !.pc = "insert", !.task = t, !.index = pos]]
    /\ UNCHANGED <<copy, saved>>

\* insertTaskAtQueuePosition, up to the new order.  The task may have left the queue since
\* it was looked up, and goes into the order all the same.
InsertAtPosition(p) ==
    /\ At(p, "insert")
    /\ LET t == call[p].task
           filtered == InOrder(InQueue \ {t})
           last == Len(filtered)
           index == IF call[p].index > last THEN last ELSE call[p].index
       IN \/ call' = [call EXCEPT ![p] =
                [pc |-> "apply", task |-> t, from |-> last, index |-> index,
                 list |-> InsertAt(filtered, index + 1, t)]]
          \/ t \notin InQueue /\ call' = [call EXCEPT ![p] = [Idle EXCEPT !.pc = "save"]]
    /\ UNCHANGED <<status, created, copy, saved, now>>

ChangePosition(p, t) ==
    /\ At(p, "idle") /\ t \in InQueue
    /\ LET queue == Queue
           from == IndexOf(t, queue)
       IN \E pos \in Positions, how \in Modes :
             LET to == Resolve(from, Len(queue), pos, how)
             IN call' = [call EXCEPT ![p] =
                   IF from = to
                   THEN [Idle EXCEPT !.pc = "save"]
                   ELSE [pc |-> "apply", task |-> t, from |-> from, index |-> to,
                         list |-> Reorder(queue, from, to)]]
    /\ UNCHANGED <<status, created, copy, saved, now>>

\* applyQueueOrder: a second per task and one more into the past.
Stamp(list, t) == now - (Len(list) + 1) * Second + IndexOf(t, list)
ApplyQueueOrder(p) ==
    /\ At(p, "apply") /\ now <= LastReading
    /\ created' = [t \in Tasks |-> IF t \in Range(call[p].list) \cap Held
                                   THEN Stamp(call[p].list, t) ELSE created[t]]
    /\ now' = now + Tick
    /\ call' = [call EXCEPT ![p].pc = "save"]
    /\ UNCHANGED <<status, copy, saved>>

\* SaveSession asks the driver for every task and stores the answer first.
SaveSession(p) ==
    /\ At(p, "save")
    /\ created' = [t \in Tasks |-> Merged(t)]
    /\ saved' = [t \in Tasks |-> [status |-> status[t], created |-> Merged(t)]]
    /\ call' = [call EXCEPT ![p] = Idle]
    /\ UNCHANGED <<status, copy, now>>

-----------------------------------------------------------------------------
(* What happens meanwhile. *)

\* tellStatus, tellWaiting and syncLoop store what the driver says of a task.
SyncTask(t) ==
    /\ t \in Held
    /\ created' = [created EXCEPT ![t] = Merged(t)]
    /\ UNCHANGED <<status, copy, saved, now, call>>

Becomes(t, s) == /\ status' = [status EXCEPT ![t] = s]
                 /\ created' = [created EXCEPT ![t] = Merged(t)]
                 /\ UNCHANGED <<copy, saved, now, call>>

\* fillSlots finds a slot free and the earliest waiting task, and gives up the lock ...
PickNext(t) ==
    /\ picked = None
    /\ Cardinality({u \in Tasks : status[u] = "active"}) < MaxConcurrent
    /\ status[t] = "waiting"
    /\ \A u \in Tasks : status[u] = "waiting" => created[t] <= created[u]
    /\ picked' = t
    /\ UNCHANGED <<status, created, copy, saved, now, call>>

\* ... and starts it, whatever became of it and of the queue; a driver refuses one that
\* was removed.  A bound: one goroutine fills slots.
StartPicked(t) ==
    /\ picked = t /\ picked' = None
    /\ \/ Becomes(t, "active")
       \/ status[t] = "stopped" /\ UNCHANGED <<status, created, copy, saved, now, call>>

Pause(t)   == status[t] \in {"waiting", "active"} /\ Becomes(t, "paused")
Unpause(t) == status[t] = "paused" /\ Becomes(t, "active")
Finish(t)  == status[t] = "active" /\ Becomes(t, "stopped")

\* The daemon stops; LoadSession gives manager and drivers what the file says.
Restart ==
    /\ Restarts
    /\ status' = [t \in Tasks |-> saved[t].status]
    /\ created' = [t \in Tasks |-> saved[t].created]
    /\ copy' = [t \in Tasks |-> IF saved[t].status = "none" THEN Zero ELSE saved[t].created]
    /\ call' = [p \in Procs |-> Idle]
    /\ picked' = None
    /\ UNCHANGED <<saved, now>>

-----------------------------------------------------------------------------

Init ==
    /\ status = [t \in Tasks |-> "none"]
    /\ created = [t \in Tasks |-> Zero] /\ copy = [t \in Tasks |-> Zero]
    /\ saved = [t \in Tasks |-> [status |-> "none", created |-> Zero]]
    /\ now = 0 /\ picked = None
    /\ call = [p \in Procs |-> Idle]
    /\ overtaken = {}

Call ==
    \E p \in Procs :
       \/ InsertAtPosition(p) \/ ApplyQueueOrder(p) \/ SaveSession(p)
       \/ \E t \in Tasks : Add(p, t) \/ ChangePosition(p, t)
Step ==
    \/ Call /\ UNCHANGED picked
    \/ \E t \in Tasks :
          \/ (SyncTask(t) \/ Pause(t) \/ Unpause(t) \/ Finish(t)) /\ UNCHANGED picked
          \/ PickNext(t) \/ StartPicked(t)
    \/ Restart
Changed(list) == \E t \in Range(list) : created'[t] # created[t]
Next ==
    /\ Step
    /\ overtaken' = {p \in Procs : call'[p].pc = "apply" /\ (p \in overtaken \/ Changed(call[p].list))}
Spec == Init /\ [][Next]_vars

-----------------------------------------------------------------------------
(* Properties. *)

\* Every field has its type.
TypeOK ==
    /\ status \in [Tasks -> Statuses]
    /\ created \in [Tasks -> Int] /\ copy \in [Tasks -> Int] /\ now \in Nat
    /\ saved \in [Tasks -> [status : Statuses, created : Int]]
    /\ call \in [Procs -> [pc : {"idle", "insert", "apply", "save"}, task : Tasks \cup {None},
                           from : Nat, index : Nat, list : Seq(Tasks)]]
    /\ picked \in Tasks \cup {None} /\ overtaken \subseteq Procs

\* A task added at a position stands there when the new order is written, and so does
\* one moved towards the head of the queue.
EarlierLands ==
    [][\A p \in Procs : ApplyQueueOrder(p) /\ call[p].index <= call[p].from =>
          Ahead(call[p].task, Range(call[p].list))' = call[p].index]_vars

\* changePosition returns the position at which the task stands.
MoveLands ==
    [][\A p \in Procs : ApplyQueueOrder(p) =>
          Ahead(call[p].task, Range(call[p].list))' = call[p].index]_vars

\* Writing the order of a call changes the place of no other task of the queue it read,
\* whatever was started, paused or added since, unless the dates of these tasks have changed.
OthersKeepOrder ==
    [][\A p \in Procs : ApplyQueueOrder(p) /\ p \notin overtaken =>
          \A t, u \in Range(call[p].list) \ {call[p].task} :
             Before(t, u)' = Before(t, u)]_vars

\* The same of calls that overlap: no move undoes another one.
MovesAreKept ==
    [][\A p \in Procs : ApplyQueueOrder(p) =>
          \A t, u \in Range(call[p].list) \ {call[p].task} :
             Before(t, u)' = Before(t, u)]_vars

\* A call moves its task to its place, and nothing else.
MoveIsExact == EarlierLands /\ OthersKeepOrder

\* A client that reads the queue page by page sees every task once, in order, and a
\* negative offset counts from the end.
PagesCover ==
    LET queue == Queue
        n == Len(queue)
    IN \A limit \in 1..(n + 1) :
          /\ FlattenSeq([k \in 1..(n + 1) |-> Page(queue, (k - 1) * limit, limit)]) = queue
          /\ \A k \in 1..n :
                Page(queue, -k, limit) = SubSeq(queue, n - k + 1, n - k + (IF limit < k THEN limit ELSE k))
==============================================================================
