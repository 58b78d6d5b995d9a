------------------------------ MODULE BtDriver ------------------------------
(***************************************************************************)
(* One torrent of protocol/bt.  The torrent library moves the data; the     *)
(* driver says whether it may, in four places that do not know of each       *)
(* other: Start and Pause, the seed policy, the rate limits and what is done *)
(* after a restart or when the metadata have arrived.  All of them hold      *)
(* Driver.mu, but for the end of LoadSessionTasks.                           *)
(*                                                                          *)
(* Start calls startIntegrityCheck, which locks Driver.mu again, so it does  *)
(* not return; from then on every call of the driver waits for mu.           *)
(***************************************************************************)
EXTENDS ByteLimiter, Sequences

CONSTANTS
    Kinds,       \* what was added: a subset of {"torrent", "magnet"}
    Rates,       \* rate limits, in blocks per tick of the rate limit loop
    MaxMoved,    \* bound: blocks moved between two turns of that loop
    Options,     \* the sets of options that tasks are given: of OptionNames
    None

OptionNames == {"pause-metadata", "bt-detach-seed-only", "max-download-limit", "max-upload-limit"}
Flow == {"down", "up"}
Statuses == {"waiting", "active", "paused", "complete"}

\* What the constants have to be.
BtAssumption ==
    /\ Kinds \subseteq {"torrent", "magnet"} /\ Options \subseteq SUBSET OptionNames
    /\ Rates \subseteq Nat \ {0} /\ MaxMoved \in Nat /\ None \notin Buckets(Rates)

VARIABLES
    kind, options,   \* of the task; they do not change, limits aside
    known,           \* d.tasks has the task
    mu,              \* None, or "start": Start has Driver.mu and waits for it
    started, paused, removed, seedStopped, completionHandled, sessionDetached, \* state
    limiter,         \* for each direction the task's bucket, or None
    throttled,       \* rateLimitPausedDL and rateLimitPausedUL
    sampled,         \* lastRateSampleAt is set
    torrent,         \* the library's: "in" the client, "out" before and "dropped" after
    info, complete,  \* the metadata are known; every piece is on the disk
    allowed,         \* AllowDataDownload and AllowDataUpload
    moved,           \* blocks since the last sample
    selector, restorer, load, \* scheduleBTFileSelection, restoreProgressAfterLoad,
                              \* LoadSessionTasks
    saved            \* the status in the session file, None when the task is not in it

taskVars == <<kind, options, known>>
flagVars == <<started, paused, removed, seedStopped>>
doneVars == <<completionHandled, sessionDetached>>
rateVars == <<limiter, throttled, sampled>>
libVars == <<torrent, info, complete>>
goVars == <<selector, restorer, load>>
vars == <<taskVars, mu, flagVars, doneVars, rateVars, libVars, allowed, moved, goVars, saved>>

Both(x) == [d \in Flow |-> x]
Present == known /\ ~removed
Free == mu = None /\ torrent # "closed"      \* nobody has Driver.mu
LimitOf(d) == IF d = "down" THEN "max-download-limit" ELSE "max-upload-limit"

\* applyBTRateLimiters: new buckets, which are full.
NewLimits == {l \in [Flow -> {NewByteLimiter(r) : r \in Rates} \cup {None}] :
                 \A d \in Flow : l[d] # None => LimitOf(d) \in options}

\* snapshot
Status == CASE paused -> "paused"
            [] ~paused /\ ~started -> "waiting"
            [] ~paused /\ started /\ complete -> "complete"
            [] OTHER -> "active"

-----------------------------------------------------------------------------
(* Calls of the manager. *)

\* A torrent is added to the client; data may not move until Start.
Insert ==
    /\ known' = TRUE /\ torrent' = "in" /\ info' = (kind = "torrent")
    /\ allowed' = Both(FALSE) /\ moved' = Both(0)
    /\ limiter' \in NewLimits /\ throttled' = Both(FALSE) /\ sampled' = FALSE
    /\ selector' = "wait"

Add ==
    /\ Free /\ ~known /\ torrent = "out" /\ load = "done"
    /\ Insert
    /\ UNCHANGED <<kind, options, mu, flagVars, doneVars, complete, restorer, load, saved>>

Start ==
    /\ Free /\ Present
    /\ started' = TRUE /\ paused' = FALSE
    /\ throttled' = Both(FALSE) /\ sampled' = FALSE
    /\ allowed' = Both(TRUE)
    /\ mu' = "start"
    /\ UNCHANGED <<taskVars, removed, seedStopped, doneVars, limiter, libVars, moved, goVars, saved>>

Pause ==
    /\ Free /\ Present
    /\ paused' = TRUE /\ allowed' = Both(FALSE)
    /\ UNCHANGED <<taskVars, mu, started, removed, seedStopped, doneVars, rateVars, libVars, moved, goVars, saved>>

\* The ratio or the time is reached, at some point after the torrent is complete.
EnforceSeedPolicy ==
    /\ Free /\ Present /\ ~seedStopped /\ info /\ complete
    /\ seedStopped' = TRUE /\ allowed' = [allowed EXCEPT !["up"] = FALSE]
    /\ UNCHANGED <<taskVars, mu, started, paused, removed, doneVars, rateVars, libVars, moved, goVars, saved>>

\* With the session that the manager saves next.
Remove ==
    /\ Free /\ Present
    /\ torrent' = "dropped"
    /\ removed' = TRUE /\ started' = FALSE /\ paused' = FALSE /\ saved' = None
    /\ UNCHANGED <<taskVars, mu, seedStopped, doneVars, rateVars, info, complete, allowed, moved, goVars>>

PurgeLocalState ==
    /\ Free /\ known /\ removed
    /\ known' = FALSE
    /\ UNCHANGED <<kind, options, mu, flagVars, doneVars, rateVars, libVars, allowed, moved, goVars, saved>>

\* Mutant: the flags are reset, but the data do not move again.
ChangeLimitsOnly ==
    /\ Free /\ Present /\ options \cap {LimitOf(d) : d \in Flow} # {}
    /\ limiter' \in NewLimits /\ throttled' = Both(FALSE) /\ sampled' = FALSE
    /\ UNCHANGED <<taskVars, mu, flagVars, doneVars, allowed, libVars, moved, goVars, saved>>

\* ChangeOption of a rate limit.
ChangeLimits ==
    /\ Free /\ Present /\ options \cap {LimitOf(d) : d \in Flow} # {}
    /\ limiter' \in NewLimits /\ throttled' = Both(FALSE) /\ sampled' = FALSE
    /\ allowed' = IF started /\ ~paused THEN Both(TRUE) ELSE allowed
    /\ UNCHANGED <<taskVars, mu, flagVars, doneVars, libVars, moved, goVars, saved>>

\* The manager saves what snapshot says, unless the task is detached from the session.
SaveSession ==
    /\ Free /\ Present
    /\ saved' = IF sessionDetached THEN None ELSE Status
    /\ UNCHANGED <<taskVars, mu, flagVars, doneVars, rateVars, libVars, allowed, moved, goVars>>

Close ==
    /\ Free /\ torrent' = "closed"
    /\ UNCHANGED <<taskVars, mu, flagVars, doneVars, rateVars, info, complete, allowed, moved, goVars, saved>>

-----------------------------------------------------------------------------
(* The goroutines of a task. *)

\* pause-metadata, when the metadata of a magnet link have arrived.
FileSelection ==
    /\ selector = "wait" /\ info /\ Free
    /\ selector' = IF "pause-metadata" \in options /\ kind = "magnet" THEN "pause" ELSE "done"
    /\ UNCHANGED <<taskVars, mu, flagVars, doneVars, rateVars, libVars, allowed, moved, restorer, load, saved>>
PauseAfterMetadata ==
    /\ selector = "pause" /\ Free
    /\ selector' = "done"
    /\ IF removed THEN UNCHANGED <<started, paused, allowed>>
       ELSE started' = FALSE /\ paused' = TRUE /\ allowed' = Both(FALSE)
    /\ UNCHANGED <<taskVars, mu, removed, seedStopped, doneVars, rateVars, libVars, moved, restorer, load, saved>>

\* The process ends and another one reads the session.
Restart ==
    /\ saved # None /\ ~removed /\ load # "insert"
    /\ known' = FALSE /\ mu' = None /\ torrent' = "out" /\ allowed' = Both(FALSE)
    /\ started' = FALSE /\ paused' = FALSE /\ seedStopped' = FALSE
    /\ completionHandled' = FALSE /\ sessionDetached' = FALSE
    /\ limiter' = Both(None) /\ throttled' = Both(FALSE) /\ sampled' = FALSE /\ moved' = Both(0)
    /\ info' = FALSE /\ selector' = "done" /\ restorer' = "done" /\ load' = "insert"
    /\ UNCHANGED <<kind, options, removed, complete, saved>>

\* A torrent that was active goes on at once if it came from a magnet link, and after its
\* progress has been worked out from the disk if it came from a torrent file.
LoadSessionTasks ==
    /\ Free /\ load = "insert"
    /\ Insert
    /\ paused' = (saved = "paused")
    /\ restorer' = IF kind = "torrent" /\ saved = "active" THEN "rebuild" ELSE "done"
    /\ load' = IF kind = "magnet" /\ saved = "active" THEN "resume" ELSE "done"
    /\ UNCHANGED <<kind, options, mu, started, removed, seedStopped, doneVars, complete, saved>>
\* Without mu.
LoadResume ==
    /\ load = "resume"
    /\ load' = "done" /\ started' = TRUE
    /\ allowed' = Both(TRUE)
    /\ UNCHANGED <<taskVars, mu, paused, removed, seedStopped, doneVars, rateVars, libVars, moved, selector, restorer, saved>>

RebuildBTProgress ==
    /\ restorer = "rebuild" /\ info /\ Free
    /\ restorer' = "resume"
    /\ UNCHANGED <<taskVars, mu, flagVars, doneVars, rateVars, libVars, allowed, moved, selector, load, saved>>

\* Mutant: a task that was paused in the meantime is resumed.
RestoreResumeAnyway ==
    /\ restorer = "resume" /\ Free
    /\ restorer' = "done"
    /\ IF Present THEN started' = TRUE /\ allowed' = Both(TRUE) ELSE UNCHANGED <<started, allowed>>
    /\ UNCHANGED <<taskVars, mu, paused, removed, seedStopped, doneVars, rateVars, libVars, moved, selector, load, saved>>

RestoreResume ==
    /\ restorer = "resume" /\ Free
    /\ restorer' = "done"
    /\ IF Present /\ ~paused THEN started' = TRUE /\ allowed' = Both(TRUE)
       ELSE UNCHANGED <<started, allowed>>
    /\ UNCHANGED <<taskVars, mu, paused, removed, seedStopped, doneVars, rateVars, libVars, moved, selector, load, saved>>

-----------------------------------------------------------------------------
(* The rate limit loop. *)

\* enforceDownloadRateLimit and enforceUploadRateLimit.  What the bucket cannot pay is not
\* taken from it; the direction stops until there is something in it again.
Throttle(d) ==
    LET b == limiter[d]
        over == b # None /\ moved[d] > 0 /\ ~CanAfford(b, moved[d])
        paid == IF b = None THEN None ELSE Consume(b, moved[d])
    IN [bucket |-> paid,
        slow |-> over \/ (throttled[d] /\ b # None /\ ~CanAfford(paid, 1))]

\* handleBTCompletionLocked
HandleCompletion(done) ==
    /\ completionHandled' = (completionHandled \/ done)
    /\ sessionDetached' = (sessionDetached \/
          (done /\ ~completionHandled /\ "bt-detach-seed-only" \in options))

EnforceTaskRateLimits ==
    /\ Free /\ Present /\ started /\ ~paused
    /\ sampled' = TRUE /\ moved' = Both(0)
    /\ IF sampled
       THEN /\ limiter' = [d \in Flow |-> Throttle(d).bucket]
            /\ throttled' = [d \in Flow |-> Throttle(d).slow]
            /\ allowed' = [d \in Flow |->
                  IF throttled'[d] = throttled[d] THEN allowed[d] ELSE throttled[d]]
            /\ HandleCompletion(info /\ complete)
       ELSE UNCHANGED <<limiter, throttled, allowed, doneVars>>
    /\ UNCHANGED <<taskVars, mu, flagVars, libVars, goVars, saved>>

-----------------------------------------------------------------------------
(* The library, the peers and the clock. *)

GotInfo ==
    /\ torrent = "in" /\ ~info
    /\ info' = TRUE
    /\ UNCHANGED <<taskVars, mu, flagVars, doneVars, rateVars, torrent, complete, allowed, moved, goVars, saved>>

Moves(d) == torrent = "in" /\ info /\ allowed[d] /\ (d = "down" => ~complete)
Move(d) ==
    /\ Moves(d) /\ moved[d] < MaxMoved
    /\ moved' = [moved EXCEPT ![d] = @ + 1]
    /\ complete' \in IF d = "down" THEN BOOLEAN ELSE {complete}
    /\ UNCHANGED <<taskVars, mu, flagVars, doneVars, rateVars, torrent, info, allowed, goVars, saved>>

Tick ==
    /\ limiter' = [d \in Flow |-> IF limiter[d] = None THEN None ELSE Elapse(limiter[d])]
    /\ UNCHANGED <<taskVars, mu, flagVars, doneVars, throttled, sampled, libVars, allowed, moved, goVars, saved>>

-----------------------------------------------------------------------------

\* The daemon starts with a task that some version of it saved, or with none.
Init ==
    /\ kind \in Kinds /\ options \in Options /\ known = FALSE /\ mu = None
    /\ started = FALSE /\ paused = FALSE /\ removed = FALSE /\ seedStopped = FALSE
    /\ completionHandled = FALSE /\ sessionDetached = FALSE
    /\ limiter = Both(None) /\ throttled = Both(FALSE) /\ sampled = FALSE
    /\ torrent = "out" /\ info = FALSE
    /\ allowed = Both(FALSE) /\ moved = Both(0)
    /\ selector = "done" /\ restorer = "done"
    /\ \/ saved = None /\ complete = FALSE /\ load = "done"
       \/ saved \in Statuses /\ complete \in BOOLEAN /\ load = "insert"
          /\ (saved = "complete" => complete)

Calls ==
    \/ Add \/ Start \/ Pause \/ EnforceSeedPolicy \/ Remove \/ PurgeLocalState
    \/ ChangeLimits \/ SaveSession \/ Close \/ Restart
Goroutines ==
    \/ FileSelection \/ PauseAfterMetadata \/ LoadSessionTasks \/ LoadResume
    \/ RebuildBTProgress \/ RestoreResume
Next ==
    \/ Calls \/ Goroutines \/ EnforceTaskRateLimits
    \/ GotInfo \/ (\E d \in Flow : Move(d)) \/ Tick
Spec == Init /\ [][Next]_vars
\* The ticker of the loop fires and goroutines run; calls, peers and restarts may not come.
FairSpec ==
    Spec /\ WF_vars(Goroutines) /\ WF_vars(EnforceTaskRateLimits) /\ WF_vars(Tick)

-----------------------------------------------------------------------------
(* Properties. *)

\* The variables have their types; a bucket is not overdrawn.
TypeOK ==
    /\ kind \in Kinds /\ options \in Options /\ known \in BOOLEAN /\ mu \in {None, "start"}
    /\ {started, paused, removed, seedStopped, completionHandled, sessionDetached, sampled} \subseteq BOOLEAN
    /\ limiter \in [Flow -> Buckets(Rates) \cup {None}] /\ throttled \in [Flow -> BOOLEAN]
    /\ torrent \in {"out", "in", "dropped", "closed"} /\ info \in BOOLEAN /\ complete \in BOOLEAN
    /\ allowed \in [Flow -> BOOLEAN] /\ moved \in [Flow -> 0..MaxMoved]
    /\ selector \in {"wait", "pause", "done"} /\ restorer \in {"rebuild", "resume", "done"}
    /\ load \in {"insert", "resume", "done"} /\ saved \in Statuses \cup {None}

Moving == torrent = "in" /\ \E d \in Flow : allowed[d]

\* The driver keeps the contract of Download, with the library for a worker: nothing moves
\* of a removed torrent, and nothing moves again.
Contract == INSTANCE Download WITH
    Workers <- {"torrent"}, gone <- removed, live <- IF Moving THEN {"torrent"} ELSE {}
KeepsContract == Contract!Spec

\* A paused torrent does not move, whichever of seed policy, rate limits, restart and
\* metadata come after the pause: but for the end of LoadSessionTasks, which does not look.
PausedStaysStill ==
    [][Moving' /\ paused' => (Moving /\ paused) \/ load = "resume"]_vars

\* A torrent that is neither paused nor throttled nor done with seeding may move in both
\* directions: no combination of the four leaves it active and still.
NoSilentStall ==
    Present /\ torrent = "in" /\ started /\ ~paused =>
       /\ allowed["down"] \/ throttled["down"]
       /\ allowed["up"] \/ throttled["up"] \/ seedStopped

\* A direction that a limit has stopped goes on again.
ThrottleEnds ==
    \A d \in Flow : throttled[d] ~> (~throttled[d] \/ paused \/ removed \/ ~Free)

\* What the seed policy has stopped is not uploaded any more: not so once a limit changes or
\* the rate limit loop finds tokens again.
SeedingStops == Present /\ seedStopped /\ mu = None => ~allowed["up"]

\* A torrent that was complete is so after a restart: it is waiting.
CompleteSurvivesRestart == saved = "complete" /\ Present /\ ~started => Status = "complete"

\* Start comes back to its caller.
StartReturns == mu = "start" ~> mu = None
==============================================================================
