----------------------------- MODULE HttpDriver -----------------------------
(***************************************************************************)
(* One download of protocol/httpdl.Driver: the state guarded by Driver.mu,  *)
(* the goroutines started by Start ("runs"), and the file they write.       *)
(*                                                                          *)
(* Pause and Remove cancel the context of the current run and return at     *)
(* once, so several runs of one task may be alive: a cancelled one that has *)
(* not noticed yet, and the one a later Start began.  Each step below is    *)
(* one critical section of Driver.mu, or one access to the network or file. *)
(*                                                                          *)
(* size and good tell of the file that outputPath names.  A forced Remove    *)
(* takes its name away, and the option index-out gives the task another one, *)
(* while a run goes on writing the file it has open: that run is "away".     *)
(***************************************************************************)
EXTENDS Integers, FiniteSets

CONSTANTS
    Runs,        \* goroutines that Start may begin, in that order
    Total,       \* length of the resource, in blocks
    MaxTries,    \* option max-tries
    Segmented,   \* TRUE: the server accepts ranges and split is more than 1
    Ranged,      \* TRUE: a request with a Range header is answered 206
    Prealloc,    \* TRUE: file-allocation is not "none"
    Checksum,    \* TRUE: the task has a checksum option
    SpeedLimit,  \* TRUE: the task has a lowest-speed-limit option
    Modes,       \* what allow-overwrite and continue may say of an existing file;
                 \* ChangeOption can alter them between two looks
    Leftover,    \* blocks of a partial file found at the start
    Calls,       \* the calls made meanwhile: a subset of CallNames
    None

Statuses == {"waiting", "active", "paused", "complete", "error", "removed"}
CallNames == {"pause", "remove", "restart", "rename"}
ModeNames == {"continue", "overwrite", "reject"}

ASSUME RunsAssumption == Runs \subseteq Nat /\ IsFiniteSet(Runs) /\ None \notin Runs
ASSUME ShapeAssumption ==
    /\ Total \in Nat \ {0} /\ MaxTries \in Nat \ {0} /\ Leftover \in 0..Total
    /\ Calls \subseteq CallNames
    /\ Modes \subseteq ModeNames
    /\ \A b \in {Segmented, Ranged, Prealloc, Checksum, SpeedLimit} : b \in BOOLEAN
    /\ Segmented => Ranged

VARIABLES
    known,    \* d.tasks has the task
    status,   \* st.task.Status
    running, cancel, removed, lowSpeed,   \* the fields of state; cancel names a run
    size,     \* length of the file at outputPath, 0 when there is none
    good,     \* blocks of it that hold the resource's bytes
    unlink,   \* a forced Remove has yet to delete the file
    moved,    \* history: the task was renamed or removed since a run last began
    run       \* the goroutines

stateVars == <<known, status, running, cancel, removed, lowSpeed>>
fileVars  == <<size, good>>
pathVars  == <<unlink, moved>>
vars == <<stateVars, fileVars, pathVars, run>>

Blocks == 1..Total
Steps == {"new", "stat", "probe", "retry", "request", "check", "read", "written",
          "finish", "verify", "failed", "exit", "done", "killed"}
RunState == [pc : Steps, cancelled : BOOLEAN,    \* ctx.Err() != nil
             existing : 0..Total,                \* existingSize
             sized : BOOLEAN,                    \* total > 0
             chunked : BOOLEAN,                  \* downloadChunked, else downloadSingle
             todo : SUBSET Blocks,               \* asked for and not received
             away : BOOLEAN,                     \* the open file is not at outputPath
             tries : Nat]
\* A run that has no file open.
Closed(pc, cancelled, sized, todo, tries) ==
    [pc |-> pc, cancelled |-> cancelled, existing |-> 0, sized |-> sized, chunked |-> FALSE,
     todo |-> todo, away |-> FALSE, tries |-> tries]
NewRun == Closed("new", FALSE, FALSE, {}, 0)

Alive(r) == run[r].pc \notin {"new", "done", "killed"}
At(r, step) == run[r].pc = step
Goto(r, step) == run' = [run EXCEPT ![r].pc = step]
\* st.cancel(); r == st.cancel, which may belong to another goroutine.
Cancel(rs, c) == [r \in Runs |-> IF r = c THEN [rs[r] EXCEPT !.cancelled = TRUE] ELSE rs[r]]
\* What is kept of a run that gives up an attempt, that ended one, or that is over.
Left(r, step) == Closed(step, run[r].cancelled, run[r].sized, {}, run[r].tries)
Ended(r, step) == Closed(step, run[r].cancelled, run[r].sized, run[r].todo, 0)
Over(r, step) == Closed(step, FALSE, run[r].sized, run[r].todo, 0)
Becomes(r, state) == run' = [run EXCEPT ![r] = state]
Opens(r) == run[r].pc \in {"check", "read"}    \* it has its file open for writing

-----------------------------------------------------------------------------
(* Calls of the manager. *)

Start ==
    /\ known /\ ~removed /\ ~running
    /\ \E r \in Runs :
          /\ At(r, "new") /\ \A q \in Runs : At(q, "new") => r <= q
          /\ cancel' = r
          /\ run' = [run EXCEPT ![r].pc = "stat"]
    /\ running' = TRUE /\ status' = "active"
    /\ moved' = FALSE
    /\ UNCHANGED <<known, removed, lowSpeed, unlink, fileVars>>

Pause ==
    /\ "pause" \in Calls
    /\ known /\ ~removed
    /\ run' = Cancel(run, cancel) /\ cancel' = None
    /\ running' = FALSE /\ status' = "paused"
    /\ UNCHANGED <<known, removed, lowSpeed, fileVars, pathVars>>

\* Mutant: Remove does not cancel the run.
RemoveQuietly ==
    /\ "remove" \in Calls
    /\ known
    /\ cancel' = None
    /\ removed' = TRUE /\ running' = FALSE /\ status' = "removed"
    /\ \E force \in BOOLEAN : unlink' = (unlink \/ force)
    /\ moved' = TRUE
    /\ UNCHANGED <<known, lowSpeed, fileVars, run>>

Remove ==
    /\ "remove" \in Calls
    /\ known
    /\ run' = Cancel(run, cancel) /\ cancel' = None
    /\ removed' = TRUE /\ running' = FALSE /\ status' = "removed"
    /\ \E force \in BOOLEAN : unlink' = (unlink \/ force)
    /\ moved' = TRUE
    /\ UNCHANGED <<known, lowSpeed, fileVars>>

\* Nothing is at outputPath any more: who has the file open keeps it without a name.
NothingThere ==
    /\ size' = 0 /\ good' = {}
    /\ run' = [r \in Runs |-> IF Opens(r) THEN [run[r] EXCEPT !.away = TRUE] ELSE run[r]]

\* os.Remove(outputPath), after Remove gave up the lock; a run that opens the file later
\* makes it anew.
Unlink ==
    /\ unlink /\ unlink' = FALSE
    /\ NothingThere
    /\ UNCHANGED <<stateVars, moved>>

\* Called by detachTask, after Remove.
PurgeLocalState ==
    /\ known /\ removed /\ ~unlink
    /\ known' = FALSE
    /\ UNCHANGED <<status, running, cancel, removed, lowSpeed, fileVars, pathVars, run>>

\* The option index-out gives the task a name at once, whether a run goes on or not; what
\* is at the new name is a bound: nothing.  The other options are looked at through Modes,
\* and the option pause calls Pause or Start.
ChangeOption ==
    /\ "rename" \in Calls /\ known /\ ~removed
    /\ moved' = TRUE
    /\ NothingThere
    /\ UNCHANGED <<stateVars, unlink>>

\* The process stops and a new one loads the session.  A task saved as active is
\* marked running first, so the Start that should resume it returns early.  It is saved with
\* its outputPath.
LoadSessionTasks ==
    /\ "restart" \in Calls /\ known /\ ~removed
    /\ run' = [r \in Runs |-> IF Alive(r) THEN Over(r, "killed") ELSE run[r]]
    /\ cancel' = None /\ lowSpeed' = FALSE
    /\ running' = (status = "active")
    /\ UNCHANGED <<known, status, removed, fileVars, pathVars>>

-----------------------------------------------------------------------------
(* What a goroutine writes into the state. *)

\* update, unlike prepareProgress and advanceProgress, does not look at removed.
SetStatus(s) == status' = IF known THEN s ELSE status
SetActive == status' = IF known /\ ~removed THEN "active" ELSE status
Leave(r, step) == Becomes(r, Ended(r, step))
Fail(r) == SetStatus("error") /\ Leave(r, "exit")

PauseAfterCancel(r) ==
    SetStatus(IF status = "removed" THEN "removed" ELSE "paused") /\ Leave(r, "exit")
SetCompleted == SetStatus("complete")
KeepFields == UNCHANGED <<known, running, cancel, removed, lowSpeed>>

-----------------------------------------------------------------------------
(* download *)

\* ShouldRejectExistingFile and ShouldResetExistingFile.
Reused(mode) == IF mode = "overwrite" THEN 0 ELSE size
Stat(r) ==
    /\ At(r, "stat")
    /\ \/ ~known /\ Goto(r, "exit") /\ UNCHANGED status
       \/ known /\ "reject" \in Modes /\ size > 0 /\ Fail(r)
       \/ \E mode \in Modes :
             /\ known /\ ~(mode = "reject" /\ size > 0)
             /\ run' = [run EXCEPT ![r].existing = Reused(mode), ![r].pc = "probe"]
             /\ UNCHANGED status
    /\ KeepFields /\ UNCHANGED fileVars

\* Whether HEAD or a GET of one byte tells the length: a cancelled request tells nothing.
ProbeResource(r) == IF run[r].cancelled THEN {FALSE} ELSE BOOLEAN

\* Only the first attempt takes a file that is long enough for a finished one.
Probe(r) ==
    /\ At(r, "probe")
    /\ \E sized \in ProbeResource(r) :
          IF sized /\ run[r].existing >= Total
          THEN Becomes(r, Closed("finish", run[r].cancelled, TRUE, {}, 0))
          ELSE run' = [run EXCEPT ![r].sized = sized, ![r].tries = 1, ![r].pc = "request"]
    /\ UNCHANGED <<stateVars, fileVars>>

Retry(r) ==
    /\ At(r, "retry")
    /\ \/ \E sized \in ProbeResource(r), mode \in Modes :
             run' = [run EXCEPT ![r].sized = sized, ![r].existing = Reused(mode),
                                ![r].pc = "request"]
          /\ UNCHANGED status
       \/ run[r].cancelled /\ PauseAfterCancel(r)    \* SleepBetweenMirrors
    /\ KeepFields /\ UNCHANGED fileVars

Opened(r, chunked, start, truncated) ==
    /\ run' = [run EXCEPT ![r].chunked = chunked, ![r].pc = "check",
                          ![r].todo = (start + 1)..Total, ![r].away = FALSE]
    /\ good' = IF truncated THEN {} ELSE good
    /\ SetActive

\* The resource is fetched in segments.
InSegments(r) == run[r].sized /\ Segmented /\ run[r].existing < Total

\* PrepareDownloadFile, then Truncate(total) when nothing is preallocated.
DownloadChunked(r) ==
    /\ At(r, "request") /\ InSegments(r)
    /\ Opened(r, TRUE, run[r].existing, run[r].existing = 0)
    /\ size' = IF Prealloc /\ run[r].existing > 0 THEN size ELSE Total
    /\ KeepFields

\* The response may tell the length even when the probe did not.  With neither, a file that
\* was to be preallocated is opened as it is.
DownloadSingle(r) ==
    /\ At(r, "request") /\ ~InSegments(r)
    /\ ~run[r].cancelled
    /\ Ranged => run[r].existing < Total             \* else 416
    /\ LET start == IF Ranged THEN run[r].existing ELSE 0
       IN \E sized \in {run[r].sized, TRUE} :
             /\ Opened(r, FALSE, start, start = 0 /\ (sized \/ ~Prealloc))
             /\ size' = CASE sized /\ (~Prealloc \/ start = 0) -> Total
                          [] ~sized /\ ~Prealloc /\ start = 0 -> 0
                          [] OTHER -> size
    /\ KeepFields

\* A response that never comes, an error status, a cancelled context.
RequestFails(r) ==
    /\ At(r, "request") /\ ~InSegments(r)
    /\ Becomes(r, Left(r, "failed"))
    /\ UNCHANGED <<stateVars, fileVars>>

\* The top of the read loop.
Check(r) ==
    /\ At(r, "check")
    /\ IF run[r].cancelled THEN Becomes(r, Left(r, "failed"))
       ELSE Goto(r, "read")
    /\ UNCHANGED <<stateVars, fileVars>>

\* WriteAt and advanceProgress; a slow download cancels the context of its task.
Read(r) ==
    /\ At(r, "read")
    /\ \E b \in run[r].todo :
          /\ run[r].chunked \/ \A c \in run[r].todo : b <= c
          /\ IF run[r].away THEN UNCHANGED fileVars
             ELSE good' = good \cup {b} /\ size' = IF size < b THEN b ELSE size
          /\ LET next == [run EXCEPT ![r].todo = @ \ {b}, ![r].pc = "check"]
             IN \/ run' = next /\ UNCHANGED lowSpeed
                \/ /\ SpeedLimit /\ known /\ ~removed
                   /\ lowSpeed' = TRUE /\ run' = Cancel(next, cancel)
    /\ SetActive
    /\ UNCHANGED <<known, running, cancel, removed>>

ReadFails(r) ==
    /\ At(r, "read") /\ (run[r].todo # {} \/ run[r].cancelled)
    /\ Becomes(r, Left(r, "failed"))
    /\ UNCHANGED <<stateVars, fileVars>>

\* io.EOF ends an answer with success.  What a server left out of an answer shorter than the
\* range it was asked for, without a length or with one of its own, stays in todo.
EndOfBody(r) ==
    /\ At(r, "read")
    /\ Leave(r, IF run[r].chunked THEN "finish" ELSE "written")
    /\ UNCHANGED <<stateVars, fileVars>>

\* downloadSingle sets the task complete itself, before the checksum is looked at,
\* and when the probe told no length that is all that happens.
Written(r) ==
    /\ At(r, "written")
    /\ SetCompleted
    /\ Goto(r, IF run[r].sized THEN "finish" ELSE "exit")
    /\ KeepFields /\ UNCHANGED fileVars

Complete(r) ==
    /\ At(r, "finish")
    /\ SetCompleted
    /\ Goto(r, "verify")
    /\ KeepFields /\ UNCHANGED fileVars

\* Mutant: a checksum that differs is only logged.
VerifyLeniently(r) ==
    /\ At(r, "verify")
    /\ Goto(r, "exit")
    /\ KeepFields /\ UNCHANGED <<status, fileVars>>

Verify(r) ==
    /\ At(r, "verify")
    /\ IF known /\ ~removed /\ Checksum /\ good # Blocks
       THEN Fail(r) ELSE Goto(r, "exit") /\ UNCHANGED status
    /\ KeepFields /\ UNCHANGED fileVars

\* Mutant: a cancelled attempt is made again.
AttemptFailedStubborn(r) ==
    /\ At(r, "failed")
    /\ \/ lowSpeed /\ Fail(r)
       \/ ~lowSpeed /\ Goto(r, "request") /\ UNCHANGED status
    /\ KeepFields /\ UNCHANGED fileVars

AttemptFailed(r) ==
    /\ At(r, "failed")
    /\ \/ lowSpeed /\ Fail(r)
       \/ ~lowSpeed /\ run[r].cancelled /\ PauseAfterCancel(r)
       \/ /\ ~lowSpeed /\ ~run[r].cancelled /\ run[r].tries < MaxTries
          /\ run' = [run EXCEPT ![r].tries = @ + 1, ![r].pc = "retry"]
          /\ UNCHANGED status
       \/ ~lowSpeed /\ ~run[r].cancelled /\ run[r].tries = MaxTries /\ Fail(r)
    /\ KeepFields /\ UNCHANGED fileVars

\* The deferred function cancels whatever run is current by now.
Exit(r) ==
    /\ At(r, "exit")
    /\ IF known
       THEN /\ running' = FALSE /\ cancel' = None
            /\ run' = [Cancel(run, cancel) EXCEPT ![r] = Over(r, "done")]
       ELSE Becomes(r, Over(r, "done")) /\ UNCHANGED <<running, cancel>>
    /\ UNCHANGED <<known, status, removed, lowSpeed, fileVars>>

-----------------------------------------------------------------------------

Init ==
    /\ known = TRUE /\ status = "waiting" /\ running = FALSE /\ cancel = None
    /\ removed = FALSE /\ lowSpeed = FALSE
    /\ size = Leftover /\ good = 1..Leftover
    /\ unlink = FALSE /\ moved = FALSE
    /\ run = [r \in Runs |-> NewRun]

Client ==
    \/ Start \/ Pause \/ Remove \/ Unlink \/ PurgeLocalState \/ ChangeOption
    \/ LoadSessionTasks
DownloadStep(r) ==
    \/ Stat(r) \/ Probe(r) \/ Retry(r) \/ DownloadChunked(r) \/ DownloadSingle(r)
    \/ RequestFails(r) \/ Check(r) \/ Read(r) \/ ReadFails(r) \/ EndOfBody(r)
    \/ Written(r) \/ Complete(r) \/ Verify(r) \/ AttemptFailed(r) \/ Exit(r)
Download(r) == DownloadStep(r) /\ UNCHANGED pathVars

Next == Client \/ \E r \in Runs : Download(r)
Spec == Init /\ [][Next]_vars

\* A run waits for its server.  Unless timeouts are set, and they are not by default, the
\* server may stay silent for ever; only a cancelled context ends the wait.
Waits(r) ==
    /\ ~run[r].cancelled
    /\ run[r].pc \in {"probe", "retry", "read"} \/ (At(r, "request") /\ ~InSegments(r))

\* A goroutine that waits for nobody is scheduled.
Fairness == \A r \in Runs : WF_vars(Download(r) /\ ~Waits(r))
FairSpec == Spec /\ Fairness

-----------------------------------------------------------------------------
(* Properties. *)

\* Every field has its type.
TypeOK ==
    /\ known \in BOOLEAN /\ status \in Statuses /\ running \in BOOLEAN
    /\ cancel \in Runs \cup {None} /\ removed \in BOOLEAN /\ lowSpeed \in BOOLEAN
    /\ size \in 0..Total /\ good \subseteq Blocks
    /\ unlink \in BOOLEAN /\ moved \in BOOLEAN
    /\ run \in [Runs -> RunState]

\* The driver keeps the contract of Download: at most one run goes on, and none of a
\* removed task.
Contract == INSTANCE Download WITH
    Workers <- Runs, gone <- removed,
    live <- {r \in Runs : Alive(r) /\ ~run[r].cancelled}
KeepsContract == Contract!Spec

\* However Pause, Start and Remove interleave with the ends of old runs, at most one
\* run has a context that is not cancelled, and it is the one Pause would cancel.
OneLiveRun ==
    \A r \in Runs : Alive(r) /\ ~run[r].cancelled => cancel = r /\ running

\* No run of a removed download goes on: each has been told to stop.
RemovedIsCancelled == removed => \A r \in Runs : Alive(r) => run[r].cancelled

\* A task that reports complete has the whole resource in its file.
CompleteIsWhole == status = "complete" => good = Blocks

\* Even when its first run completed it, but for the blocks that an answer left out which
\* ended before the range it was asked for.
FirstRunOnly == \A r \in Runs : r # 1 => At(r, "new")
LeftOut == UNION {run[r].todo : r \in Runs}
FirstRunIsAlwaysWhole ==
    status = "complete" /\ FirstRunOnly /\ ~moved => Blocks \ good \subseteq LeftOut

\* It does when its first run completed it, whatever was retried, found on disk, cancelled,
\* renamed before or restarted on the way, unless that run fetched segments of a file that
\* is preallocated: they may leave holes in a partial file, whose length a retry takes for
\* its progress.
FirstRunIsWhole == ~(Prealloc /\ Segmented) => FirstRunIsAlwaysWhole

\* With a checksum a task whose runs are over only reports complete when it is, whatever
\* the server left out, unless it was removed or renamed meanwhile, the process ended before
\* the checksum was looked at, or a run never learned the length: that one is complete
\* without a look at the checksum.
Verified == \A r \in Runs : At(r, "new") \/ (At(r, "done") /\ run[r].sized)
VerifiedIsWhole == Checksum /\ status = "complete" /\ ~moved /\ Verified => good = Blocks

\* What the driver does promise of a complete task: a first run, or a checksum, vouches for it.
CompleteIsEarned == FirstRunIsWhole /\ VerifiedIsWhole

\* An active task does not stay active forever: some run ends it, unless a restart left it
\* marked running without one, or a run waits for ever for a server that fell silent.
Stranded == running /\ cancel = None
ActiveSettles ==
    \/ []<>(status # "active" \/ Stranded)
    \/ \E r \in Runs : <>[]Waits(r)

\* A cancelled run ends, whatever is started meanwhile.
CancelledEnds == \A r \in Runs : Alive(r) /\ run[r].cancelled ~> ~Alive(r)

\* No way through retries, cancellation and checks leaves a run or a status hanging.
RunsSettle == ActiveSettles /\ CancelledEnds

\* An active task has a run that works for it.
ActiveHasRun == status = "active" => \E r \in Runs : Alive(r)

\* Only Pause and Remove (or the speed limit) stop a run that Start began: no run
\* takes the cancel function of a later one with it when it ends.
OnlyCallsCancel ==
    [][\A r, q \in Runs : Exit(r) /\ q # r /\ Alive(q) =>
          (run'[q].cancelled => run[q].cancelled)]_vars

\* The state machine of the product document, section 9.2.
Transitions == {<<"waiting", "active">>, <<"active", "paused">>, <<"paused", "active">>,
                <<"active", "complete">>, <<"active", "error">>}
               \cup {"waiting", "paused", "active", "error", "complete"} \X {"removed"}
FollowsStateMachine ==
    [][status' # status => <<status, status'>> \in Transitions]_status
==============================================================================
