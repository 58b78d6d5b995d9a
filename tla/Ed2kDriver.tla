----------------------------- MODULE Ed2kDriver -----------------------------
(***************************************************************************)
(* protocol/ed2k: tasks of the manager on top of the transfers of a goed2k   *)
(* client.  A transfer is named by its hash, so two tasks may share one; the *)
(* REST gateway (httgateway.go) acts on transfers without the driver, and a  *)
(* recheck pauses one while it reads the file.  The client keeps a state     *)
(* file of its own next to the session.                                     *)
(***************************************************************************)
EXTENDS FiniteSets

CONSTANTS
    Tasks,       \* task identifiers; each is used once
    Hashes,
    HashOf,      \* the links that may be added: a set of functions from Tasks to Hashes
    Outsiders,   \* what else acts on the transfers: subsets of Others
    Rechecks,    \* goroutines that recheck
    None

\* The REST gateway, rechecks, and the client when it saves its state as it runs.
Others == {"gateway", "recheck", "state file"}

VARIABLES
    hash, outsiders,          \* chosen once
    step,                     \* of each task: "unused", "new", "linked" and "held" in Add, "in" d.tasks, "gone"
    started, paused, removed, \* state
    transfers,                \* the client's, or None
    file,                     \* the client's state file
    saved,                    \* status of the task in the session, None when it is not there
    load,                     \* tasks that LoadSessionTasks has yet to restore
    recheck                   \* goroutines of RecheckEd2kFile

flagVars == <<step, started, paused, removed>>
diskVars == <<file, saved>>
vars == <<hash, outsiders, flagVars, transfers, diskVars, load, recheck>>

Statuses == {"waiting", "active", "paused", "complete"}
Transfer == [paused : BOOLEAN, finished : BOOLEAN]
ASSUME Ed2kAssumption ==
    /\ HashOf \subseteq [Tasks -> Hashes] /\ Outsiders \subseteq SUBSET Others
    /\ None \notin Transfer \cup Statuses

Exists(h) == transfers[h] # None
Runs(h) == Exists(h) /\ ~transfers[h].paused /\ ~transfers[h].finished
Served == load = {}
Present(t) == step[t] = "in" /\ ~removed[t]

Fresh == [paused |-> FALSE, finished |-> FALSE]
\* The client's calls; those for a hash it does not have fail and change nothing.
WithPaused(h, p) ==
    IF Exists(h) THEN [transfers EXCEPT ![h].paused = p] ELSE transfers
PauseTransfer(h) == WithPaused(h, TRUE)
ResumeTransfer(h) == WithPaused(h, FALSE)
AddLink(h) == IF Exists(h) THEN transfers ELSE [transfers EXCEPT ![h] = Fresh]

\* snapshot; the flags are read after the lock has been released.
Status(t) ==
    CASE transfers[hash[t]].finished -> "complete"
      [] ~transfers[hash[t]].finished /\ paused[t] -> "paused"
      [] ~transfers[hash[t]].finished /\ ~paused[t] /\ ~started[t] -> "waiting"
      [] OTHER -> "active"

-----------------------------------------------------------------------------
(* Calls of the manager. *)

\* Add talks to the client before it takes the driver's mutex.
AddLinkStep(t) ==
    /\ Served /\ step[t] = "new"
    /\ transfers' = AddLink(hash[t])
    /\ step' = [step EXCEPT ![t] = "linked"]
    /\ UNCHANGED <<hash, outsiders, started, paused, removed, diskVars, load, recheck>>
AddPause(t) ==
    /\ Served /\ step[t] = "linked"
    /\ transfers' = PauseTransfer(hash[t])
    /\ step' = [step EXCEPT ![t] = IF Exists(hash[t]) THEN "held" ELSE "gone"]
    /\ UNCHANGED <<hash, outsiders, started, paused, removed, diskVars, load, recheck>>
AddInsert(t) ==
    /\ Served /\ step[t] = "held"
    /\ step' = [step EXCEPT ![t] = "in"]
    /\ UNCHANGED <<hash, outsiders, started, paused, removed, transfers, diskVars, load, recheck>>

\* Start and Pause, for ChangeOption too.  The flags are set even when the client fails.
Start(t) ==
    /\ Served /\ Present(t)
    /\ started' = [started EXCEPT ![t] = TRUE] /\ paused' = [paused EXCEPT ![t] = FALSE]
    /\ transfers' = ResumeTransfer(hash[t])
    /\ UNCHANGED <<hash, outsiders, step, removed, diskVars, load, recheck>>

Pause(t) ==
    /\ Served /\ Present(t)
    /\ paused' = [paused EXCEPT ![t] = TRUE]
    /\ transfers' = PauseTransfer(hash[t])
    /\ UNCHANGED <<hash, outsiders, step, started, removed, diskVars, load, recheck>>

\* Mutant: the transfer stays in the client.
RemoveQuietly(t) ==
    /\ Served /\ Present(t)
    /\ removed' = [removed EXCEPT ![t] = TRUE]
    /\ started' = [started EXCEPT ![t] = FALSE] /\ paused' = [paused EXCEPT ![t] = FALSE]
    /\ saved' = [saved EXCEPT ![t] = None]
    /\ UNCHANGED <<hash, outsiders, step, transfers, file, load, recheck>>

\* With the session that the manager saves next.
Remove(t) ==
    /\ Served /\ Present(t)
    /\ removed' = [removed EXCEPT ![t] = TRUE]
    /\ started' = [started EXCEPT ![t] = FALSE] /\ paused' = [paused EXCEPT ![t] = FALSE]
    /\ transfers' = [transfers EXCEPT ![hash[t]] = None]
    /\ saved' = [saved EXCEPT ![t] = None]
    /\ UNCHANGED <<hash, outsiders, step, file, load, recheck>>

PurgeLocalState(t) ==
    /\ Served /\ step[t] = "in" /\ removed[t]
    /\ step' = [step EXCEPT ![t] = "gone"]
    /\ UNCHANGED <<hash, outsiders, started, paused, removed, transfers, diskVars, load, recheck>>

\* The manager saves what the driver says; it has no status when the transfer is gone.
SaveSession(t) ==
    /\ Served /\ Present(t) /\ Exists(hash[t])
    /\ saved' = [saved EXCEPT ![t] = Status(t)]
    /\ UNCHANGED <<hash, outsiders, flagVars, transfers, file, load, recheck>>

-----------------------------------------------------------------------------
(* The gateway, and the client itself. *)

GatewayAdd(h) ==
    /\ \E p \in BOOLEAN : transfers' = [AddLink(h) EXCEPT ![h].paused = @ \/ p]
    /\ UNCHANGED <<hash, outsiders, flagVars, diskVars, load, recheck>>
GatewayPause(h) ==
    /\ Exists(h) /\ transfers' = PauseTransfer(h)
    /\ UNCHANGED <<hash, outsiders, flagVars, diskVars, load, recheck>>
GatewayResume(h) ==
    /\ Exists(h) /\ transfers' = ResumeTransfer(h)
    /\ UNCHANGED <<hash, outsiders, flagVars, diskVars, load, recheck>>
GatewayDelete(h) ==
    /\ Exists(h) /\ transfers' = [transfers EXCEPT ![h] = None]
    /\ UNCHANGED <<hash, outsiders, flagVars, diskVars, load, recheck>>
Gateway ==
    /\ Served /\ "gateway" \in outsiders
    /\ \E h \in Hashes : GatewayAdd(h) \/ GatewayPause(h) \/ GatewayResume(h) \/ GatewayDelete(h)

SaveState ==
    /\ Served /\ "state file" \in outsiders /\ file # transfers
    /\ file' = transfers
    /\ UNCHANGED <<hash, outsiders, flagVars, transfers, saved, load, recheck>>

Finish(h) ==
    /\ Served /\ Runs(h)
    /\ transfers' = [transfers EXCEPT ![h].finished = TRUE]
    /\ UNCHANGED <<hash, outsiders, flagVars, diskVars, load, recheck>>

-----------------------------------------------------------------------------
(* RecheckEd2kFile. *)

Resting == [at |-> "rest", task |-> None, wasPaused |-> FALSE]

RecheckRead(r, t) ==
    /\ Served /\ "recheck" \in outsiders
    /\ recheck[r].at = "rest" /\ Present(t) /\ Exists(hash[t])
    /\ recheck' = [recheck EXCEPT ![r] = [at |-> "pause", task |-> t,
                                          wasPaused |-> transfers[hash[t]].paused]]
    /\ UNCHANGED <<hash, outsiders, flagVars, transfers, diskVars, load>>

\* It ends here when the transfer has gone in the meantime.
RecheckPause(r) ==
    LET h == hash[recheck[r].task] IN
    /\ recheck[r].at = "pause"
    /\ transfers' = IF recheck[r].wasPaused THEN transfers ELSE PauseTransfer(h)
    /\ recheck' = [recheck EXCEPT ![r] =
           IF Exists(h) \/ @.wasPaused THEN [@ EXCEPT !.at = "hash"] ELSE Resting]
    /\ UNCHANGED <<hash, outsiders, flagVars, diskVars, load>>

\* Mutant: a file whose hash is wrong stays paused.
RecheckEndPaused(r) ==
    LET h == hash[recheck[r].task] IN
    /\ recheck[r].at = "hash"
    /\ \E right \in BOOLEAN :
         transfers' = IF recheck[r].wasPaused \/ ~right THEN transfers ELSE ResumeTransfer(h)
    /\ recheck' = [recheck EXCEPT ![r] = Resting]
    /\ UNCHANGED <<hash, outsiders, flagVars, diskVars, load>>

\* Whatever the hash was, what was running when the recheck began goes on.
RecheckEnd(r) ==
    LET h == hash[recheck[r].task] IN
    /\ recheck[r].at = "hash"
    /\ transfers' = IF recheck[r].wasPaused THEN transfers ELSE ResumeTransfer(h)
    /\ recheck' = [recheck EXCEPT ![r] = Resting]
    /\ UNCHANGED <<hash, outsiders, flagVars, diskVars, load>>

-----------------------------------------------------------------------------
(* Restarts. *)

\* The process ends; the next one reads the client's state file and the session.
Restart ==
    /\ Served
    /\ transfers' = file
    /\ load' = {t \in Tasks : saved[t] # None}
    /\ step' = [t \in Tasks |-> IF step[t] \in {"new", "unused"} THEN step[t]
                            ELSE IF saved[t] # None THEN "new" ELSE "gone"]
    /\ started' = [t \in Tasks |-> FALSE] /\ paused' = [t \in Tasks |-> FALSE]
    /\ removed' = [t \in Tasks |-> FALSE]
    /\ recheck' = [r \in Rechecks |-> Resting]
    /\ UNCHANGED <<hash, outsiders, diskVars>>

\* One turn of LoadSessionTasks, nothing else is served yet.
LoadTask(t) ==
    /\ t \in load
    /\ started' = [started EXCEPT ![t] = saved[t] = "active"]
    /\ paused' = [paused EXCEPT ![t] = saved[t] = "paused"]
    /\ transfers' = [AddLink(hash[t]) EXCEPT ![hash[t]].paused = saved[t] # "active"]
    /\ step' = [step EXCEPT ![t] = "in"] /\ load' = load \ {t}
    /\ UNCHANGED <<hash, outsiders, removed, diskVars, recheck>>

-----------------------------------------------------------------------------

Init ==
    /\ hash \in HashOf /\ outsiders \in Outsiders
    /\ step \in [Tasks -> {"new", "unused"}]
    /\ started = [t \in Tasks |-> FALSE] /\ paused = [t \in Tasks |-> FALSE]
    /\ removed = [t \in Tasks |-> FALSE]
    /\ transfers = [h \in Hashes |-> None] /\ file = transfers
    /\ saved = [t \in Tasks |-> None] /\ load = {}
    /\ recheck = [r \in Rechecks |-> Resting]

RecheckGoesOn(r) == RecheckPause(r) \/ RecheckEnd(r)
Next ==
    \/ \E t \in Tasks : \/ AddLinkStep(t) \/ AddPause(t) \/ AddInsert(t)
                        \/ Start(t) \/ Pause(t) \/ Remove(t) \/ PurgeLocalState(t)
                        \/ SaveSession(t) \/ LoadTask(t)
    \/ Gateway \/ SaveState \/ Restart
    \/ \E h \in Hashes : Finish(h)
    \/ \E r \in Rechecks : RecheckGoesOn(r) \/ \E t \in Tasks : RecheckRead(r, t)
Spec == Init /\ [][Next]_vars
\* A recheck goes on; nobody is obliged to call.
Fairness == \A r \in Rechecks : WF_vars(RecheckGoesOn(r))
FairSpec == Spec /\ Fairness

-----------------------------------------------------------------------------
(* Properties. *)

\* The variables have their types.
TypeOK ==
    /\ hash \in HashOf /\ outsiders \in Outsiders
    /\ step \in [Tasks -> {"new", "linked", "held", "in", "gone", "unused"}]
    /\ {started, paused, removed} \subseteq [Tasks -> BOOLEAN]
    /\ {transfers, file} \subseteq [Hashes -> Transfer \cup {None}]
    /\ saved \in [Tasks -> Statuses \cup {None}] /\ load \subseteq Tasks
    /\ recheck \in [Rechecks -> [at : {"rest", "pause", "hash"}, task : Tasks \cup {None},
                                 wasPaused : BOOLEAN]]

\* No other task, and not the gateway, has to do with the transfer of t.
Alone(t) ==
    "gateway" \notin outsiders /\ \A u \in Tasks \ {t} : hash[u] = hash[t] => step[u] = "unused"

\* With nobody else at work, what the driver says of a task and what the client does are
\* in step: the transfer runs, or has run to its end, if and only if the task was started.
InStep ==
    \A t \in Tasks : Alone(t) /\ outsiders \subseteq {"state file"} /\ Present(t) /\ Served =>
       Exists(hash[t]) /\ (transfers[hash[t]].paused <=> paused[t] \/ ~started[t])

\* A paused task's transfer does not start to run by itself; the end of a recheck, which
\* remembers what it saw before the pause, is the exception.
PausedStaysStill ==
    [][\A t \in Tasks : Alone(t) /\ paused'[t] /\ Runs(hash[t])' =>
           (Runs(hash[t]) /\ paused[t]) \/ \E r \in Rechecks : recheck[r].task = t]_vars

\* An active task is not left with a paused transfer, however rechecks, pauses, resumes
\* and restarts overlap.
StallEnds ==
    \A t \in Tasks :
       (Alone(t) /\ Present(t) /\ started[t] /\ ~paused[t] /\ Exists(hash[t]) /\ transfers[hash[t]].paused)
       ~> ~(Present(t) /\ started[t] /\ ~paused[t] /\ Exists(hash[t]) /\ transfers[hash[t]].paused)

\* The driver keeps the contract of Download for each task that has a transfer to itself:
\* what a removed task was downloading is gone.  A state file that is older than the removal
\* would bring it back at the next start, without a task.
Contract(t) == INSTANCE Download WITH
    Workers <- {"transfer"}, gone <- removed[t] \/ step[t] = "gone",
    live <- IF Alone(t) /\ "state file" \notin outsiders /\ Runs(hash[t]) THEN {"transfer"} ELSE {}
KeepsContract ==
    /\ \A t \in Tasks : Contract(t)!Init
    /\ [][\A t \in Tasks : Contract(t)!Next \/ UNCHANGED Contract(t)!vars]_vars

\* A pause holds when a recheck ends: it does not, the recheck resumes what it has paused.
PauseSurvivesRecheck ==
    \A t \in Tasks : Alone(t) /\ Present(t) /\ paused[t] => ~Runs(hash[t])

\* No transfer without a task, once a process has loaded its session.
NoOrphanTransfer ==
    Served => \A h \in Hashes : Exists(h) => \E t \in Tasks : hash[t] = h /\ step[t] # "gone"
==============================================================================
