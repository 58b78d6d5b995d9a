------------------------------- MODULE Options -------------------------------
(***************************************************************************)
(* Options from the call that sets one to the place where it takes effect    *)
(* (core/manager/manager.go, protocol/bt, protocol/httpdl): global options,  *)
(* the options a task was given, their merge, the copy a driver keeps, what a *)
(* torrent was told, and the session file that brings them back.             *)
(*                                                                          *)
(* A call changes the manager's maps in one section under m.mu and then goes *)
(* on without it: it tells the driver, reads the task back, stores what it    *)
(* read and writes the session.  One task, of a protocol whose driver keeps   *)
(* the whole task ("direct": HTTP, FTP, SFTP, local file) or a torrent.       *)
(***************************************************************************)
EXTENDS Naturals, Sequences

CONSTANTS
    Procs,          \* goroutines that serve calls, persistLoop among them
    May,            \* for each of them, the calls it may serve
    Values,         \* what clients set an option to
    Given,          \* the option maps that add* is called with
    Budget,         \* bound on changes of options and restarts
    Nil, None

\* Options of a task: one that a torrent has to be told of (bt-tracker), and one that is
\* looked up when it is needed (seed-ratio of a torrent, max-tries of a download).
Keys       == {"tracker", "other"}
\* max-overall-download-limit is of the daemon only; changeOption drops it.
GlobalKeys == Keys \cup {"limit"}
Limited    == {"http", "bt"}                \* drivers with a SetDownloadLimit
Config     == [k \in GlobalKeys |-> 0]      \* the configuration file
NoMap      == [k \in Keys |-> None]
Maps       == [Keys -> Values \cup {0, None}]
OptionMaps == [options : Maps, local : Maps \cup {Nil}]
Copies     == [options : Maps \cup {Nil}, local : Maps \cup {Nil}, torrent : Values \cup {0, None}]
OptionsAssumption ==
    /\ Values \subseteq Nat \ {0} /\ Given \subseteq Maps
    /\ May \in [Procs -> SUBSET {"add", "option", "global", "query", "save"}] /\ Budget \in Nat
    /\ None \notin Nat /\ Nil \notin Maps \cup OptionMaps \cup Copies

VARIABLES
    proto,      \* "direct" or "bt"
    global,     \* m.globalOptions
    task,       \* Options and LocalOptions of m.tasks[t], Nil before it is added
    drv,        \* the driver's copy of them, and the tracker its torrent announces to
    limits,     \* the rate of each driver's overall limiter
    file,       \* the task in the session file
    call,       \* the call each goroutine serves
    asked,      \* history: what was last asked of the task by a call that ran alone
    frail,      \* history: the keys changed where the code does not keep the change
    tangled,    \* history: what overlapping calls have changed since the start
    spent       \* changes of options and restarts so far

vars == <<proto, global, task, drv, limits, file, call, asked, frail, tangled, spent>>

Idle == [op |-> "idle", touches |-> {}, want |-> NoMap, todo |-> <<>>, eff |-> Nil, got |-> Nil, alone |-> TRUE]
Busy(p) == call[p].op # "idle"
Others(p) == Procs \ {p}

\* mergeOptions; an unset key is None.
Merge(base, over) == [k \in Keys |-> IF over[k] = None THEN base[k] ELSE over[k]]

\* What the task does with an option: EnforceSeedLimits merges on its own.
InEffect(k) ==
    IF proto = "direct" THEN drv.options[k]
    ELSE IF k = "tracker" THEN drv.torrent
    ELSE Merge(global, IF task.local = Nil THEN NoMap ELSE task.local)[k]

\* A call begins: the calls it meets no longer run alone.  Queries change nothing they could
\* get in each other's way with.
Begin(p, op, touches, want, todo, eff) ==
    LET meets == {q \in Others(p) : Busy(q) /\ call[q].op # "query"}
        c == [op |-> op, touches |-> touches, want |-> want, todo |-> todo,
              eff |-> eff, got |-> Nil, alone |-> meets = {}]
    IN /\ ~Busy(p) /\ op \in May[p]
       /\ call' = [q \in Procs |-> IF q = p THEN c
                     ELSE [call[q] EXCEPT !.alone = @ /\ (op = "query" \/ ~Busy(q))]]
       /\ tangled' = tangled \cup {x \in touches : \E q \in meets : x \in call[q].touches}
       /\ asked' = [k \in Keys |-> IF want[k] = None THEN asked[k] ELSE None]

At(p, step) == Busy(p) /\ call[p].todo # <<>> /\ Head(call[p].todo) = step
Rest(p) == [call[p] EXCEPT !.todo = Tail(@)]

----------------------------------------------------------------------------
\* tellStatusByID and SaveSession, the tails of the calls.
Refresh == <<"read", "store">>
Persist == Refresh \o <<"write">>

\* TellStatus of the driver; that of a torrent has no options.
Read(p) ==
    /\ At(p, "read")
    /\ call' = [call EXCEPT ![p] = [Rest(p) EXCEPT !.got = [options |-> drv.options, local |-> drv.local]]]
    /\ UNCHANGED <<proto, global, task, drv, limits, file, asked, frail, tangled, spent>>

\* Mutant: what the driver does not know is dropped.
StoreTaskBlind(p) ==
    /\ At(p, "store")
    /\ task' = [options |-> IF call[p].got.options = Nil THEN task.options ELSE call[p].got.options,
                local |-> call[p].got.local]
    /\ call' = [call EXCEPT ![p] = [Rest(p) EXCEPT !.got = task']]
    /\ UNCHANGED <<proto, global, drv, limits, file, asked, frail, tangled, spent>>

\* storeTask: the maps of the driver replace those of the manager.
StoreTask(p) ==
    /\ At(p, "store")
    /\ task' = [options |-> IF call[p].got.options = Nil THEN task.options ELSE call[p].got.options,
                local |-> IF call[p].got.local = Nil THEN task.local ELSE call[p].got.local]
    /\ call' = [call EXCEPT ![p] = [Rest(p) EXCEPT !.got = task']]
    /\ UNCHANGED <<proto, global, drv, limits, file, asked, frail, tangled, spent>>

\* An empty LocalOptions is left out of the JSON file.
Write(p) ==
    /\ At(p, "write")
    /\ file' = [call[p].got EXCEPT !.local = IF @ = NoMap THEN Nil ELSE @]
    /\ call' = [call EXCEPT ![p] = Rest(p)]
    /\ UNCHANGED <<proto, global, task, drv, limits, asked, frail, tangled, spent>>

\* The call returns.
Return(p) ==
    /\ Busy(p) /\ call[p].todo = <<>>
    /\ asked' = [k \in Keys |-> IF call[p].alone /\ call[p].want[k] # None THEN call[p].want[k] ELSE asked[k]]
    /\ call' = [call EXCEPT ![p] = Idle]
    /\ UNCHANGED <<proto, global, task, drv, limits, file, frail, tangled, spent>>

----------------------------------------------------------------------------
\* Add reads the global options, then gives the merged ones to the driver.
Add(p) == \E local \in Given :
    /\ task = Nil /\ \A q \in Procs : call[q].op # "add"
    /\ Begin(p, "add", {"tracker"}, local, <<"create">> \o Persist, Merge(global, local))
    /\ UNCHANGED <<proto, global, task, drv, limits, file, frail, spent>>
\* The driver makes the task and the manager puts it in its map; LocalOptions is never nil here.
\* The torrent is told the merged options, but the task that the driver of torrents returns has
\* none: its Options are an empty map, which Add takes for given.
Create(p) ==
    /\ At(p, "create")
    /\ task' = [options |-> IF proto = "bt" THEN NoMap ELSE call[p].eff, local |-> call[p].want]
    /\ drv' = IF proto = "bt" THEN [options |-> Nil, local |-> Nil, torrent |-> call[p].eff["tracker"]]
              ELSE [options |-> call[p].eff, local |-> Nil, torrent |-> None]
    /\ call' = [call EXCEPT ![p] = Rest(p)]
    /\ UNCHANGED <<proto, global, limits, file, asked, frail, tangled, spent>>

\* ChangeOption, the section under m.mu.  Where the change does not last: the driver has a
\* LocalOptions of its own (it loaded the task from the session), or a torrent has none.
ChangeOption(p) == \E k \in Keys, v \in Values :
    LET local == [task.local EXCEPT ![k] = v]
        options == IF task.local = Nil THEN [task.options EXCEPT ![k] = v] ELSE Merge(global, local)
        sync == proto = "bt" /\ k = "tracker"
    IN /\ task # Nil /\ spent < Budget
       /\ task' = [options |-> options, local |-> IF task.local = Nil THEN Nil ELSE local]
       /\ Begin(p, "option", {k}, [NoMap EXCEPT ![k] = v],
                <<"driver">> \o (IF sync THEN <<"sync">> ELSE <<>>) \o Refresh \o Persist, options)
       /\ frail' = IF (proto = "direct" /\ drv.local # Nil) \/ (proto = "bt" /\ task.local = Nil)
                   THEN frail \cup {k} ELSE frail \ {k}
       /\ spent' = spent + 1
       /\ UNCHANGED <<proto, global, drv, limits, file>>
\* driver.ChangeOption: a torrent keeps neither of the keys.
TellDriver(p) ==
    /\ At(p, "driver")
    /\ drv' = IF proto = "bt" THEN drv ELSE [drv EXCEPT !.options = [k \in Keys |->
                  IF call[p].want[k] = None THEN @[k] ELSE call[p].want[k]]]
    /\ call' = [call EXCEPT ![p] = Rest(p)]
    /\ UNCHANGED <<proto, global, task, limits, file, asked, frail, tangled, spent>>
\* SyncBTTrackerOptions, with the options worked out under m.mu.
SyncTrackers(p) ==
    /\ At(p, "sync")
    /\ drv' = [drv EXCEPT !.torrent = call[p].eff["tracker"]]
    /\ call' = [call EXCEPT ![p] = Rest(p)]
    /\ UNCHANGED <<proto, global, task, limits, file, asked, frail, tangled, spent>>

\* The options of a torrent after a change of a global one.
Remerged(k, g) ==
    IF task.local # Nil THEN Merge(g, task.local) ELSE [task.options EXCEPT ![k] = g[k]]

\* ChangeGlobalOption, the section under m.mu, and what is left to do without it.
ChangeGlobalOption(p) == \E k \in GlobalKeys, v \in Values :
    LET g == [global EXCEPT ![k] = v]
        told == k = "tracker" /\ proto = "bt" /\ task # Nil
    IN /\ spent < Budget
       /\ global' = g
       /\ task' = IF told THEN [task EXCEPT !.options = Remerged(k, g)] ELSE task
       /\ Begin(p, "global", {k}, NoMap,
                IF told THEN <<"sync">> ELSE IF k = "limit" THEN <<"http", "bt">> ELSE <<>>,
                IF told THEN Remerged(k, g) ELSE g)
       /\ spent' = spent + 1
       /\ UNCHANGED <<proto, drv, limits, file, frail>>

\* SetDownloadLimit of one driver after the other, with the value of this call.
SetDownloadLimit(p, d) ==
    /\ At(p, d) /\ d \in Limited
    /\ limits' = [limits EXCEPT ![d] = call[p].eff["limit"]]
    /\ call' = [call EXCEPT ![p] = Rest(p)]
    /\ UNCHANGED <<proto, global, task, drv, file, asked, frail, tangled, spent>>

\* A status query, and a save by persistLoop or saveSession.
Query(p) ==
    /\ task # Nil
    /\ Begin(p, "query", {}, NoMap, Refresh, Nil)
    /\ UNCHANGED <<proto, global, task, drv, limits, file, frail, spent>>
SaveSession(p) ==
    /\ task # Nil
    /\ Begin(p, "save", {}, NoMap, Persist, Nil)
    /\ UNCHANGED <<proto, global, task, drv, limits, file, frail, spent>>

----------------------------------------------------------------------------
\* LoadSession: the options of a task without LocalOptions are those it was saved with, which
\* a torrent may have been saved without.
Loaded == [file EXCEPT !.options = IF file.local = Nil THEN @ ELSE Merge(Config, file.local)]

\* The daemon dies and is started again: the drivers' LoadSessionTasks, which read the
\* trackers of a torrent from the same merge (effectiveOptsForSessionRestore).
Restart ==
    /\ spent < Budget
    /\ spent' = spent + 1
    /\ global' = Config
    /\ limits' = [d \in Limited |-> Config["limit"]]
    /\ call' = [p \in Procs |-> Idle]
    /\ tangled' = {}
    /\ IF file = Nil
       THEN task' = Nil /\ drv' = Nil /\ asked' = NoMap /\ frail' = {}
       ELSE /\ task' = Loaded
            /\ drv' = IF proto = "bt" THEN [options |-> Nil, local |-> Nil, torrent |-> Loaded.options["tracker"]]
                      ELSE [options |-> Loaded.options, local |-> Loaded.local, torrent |-> None]
            /\ UNCHANGED <<asked, frail>>
    /\ UNCHANGED <<proto, file>>

Init ==
    /\ proto \in {"direct", "bt"}
    /\ global = Config /\ limits = [d \in Limited |-> Config["limit"]]
    /\ task = Nil /\ drv = Nil /\ file = Nil
    /\ call = [p \in Procs |-> Idle]
    /\ asked = NoMap /\ frail = {} /\ tangled = {}
    /\ spent = 0

Step(p) ==
    \/ Add(p) \/ ChangeOption(p) \/ ChangeGlobalOption(p) \/ Query(p) \/ SaveSession(p)
    \/ Create(p) \/ TellDriver(p) \/ SyncTrackers(p) \/ (\E d \in Limited : SetDownloadLimit(p, d))
    \/ Read(p) \/ StoreTask(p) \/ Write(p) \/ Return(p)
Next == Restart \/ \E p \in Procs : Step(p)
Spec == Init /\ [][Next]_vars

----------------------------------------------------------------------------
\* Only a torrent has trackers.
TypeOK ==
    /\ proto \in {"direct", "bt"} /\ global \in [GlobalKeys -> Values \cup {0}]
    /\ task \in OptionMaps \cup {Nil} /\ file \in OptionMaps \cup {Nil}
    /\ drv \in Copies \cup {Nil} /\ (drv # Nil /\ proto = "direct" => drv.torrent = None)
    /\ limits \in [Limited -> Values \cup {0}]
    /\ asked \in Maps /\ frail \subseteq Keys /\ tangled \subseteq GlobalKeys

\* An option that a client has set on a task, in a call that met no other change, is in effect
\* until the task is told otherwise: through later changes of other options and of the global
\* ones, which may overlap, through status queries and saves, and through restarts.  Where
\* the code does not keep such a change (frail) is excluded.
KeptInEffect == \A k \in Keys \ frail : asked[k] # None => InEffect(k) = asked[k]

\* The same without the exclusion, which is false: task.go:60 says of LocalOptions that they
\* are the options of the task, but the driver of a restored download has a copy of its own
\* that storeTask puts in place of the manager's, so the second restart undoes the change.
AskedSurvives == \A k \in Keys : asked[k] # None => InEffect(k) = asked[k]

Quiet(x) == x \notin tangled /\ \A p \in Procs : x \notin call[p].touches

\* When no two changes of trackers have overlapped and none is under way, a torrent announces
\* to the trackers that its own options and the global ones make, or, when the session has
\* left it no LocalOptions, to those of its options; and getOption reports these or none at all.
\* So no change is lost between the section under m.mu and the torrent.
TrackersFollow ==
    proto = "bt" /\ task # Nil /\ Quiet("tracker") =>
        /\ drv.torrent = IF task.local = Nil THEN task.options["tracker"]
                         ELSE Merge(global, task.local)["tracker"]
        /\ task.options["tracker"] \in {drv.torrent, None}

\* That getOption reports them is false: the options of a torrent are empty from add* until the
\* first changeOption, change of the global trackers or restart.  That the global trackers reach
\* every torrent is false as well: one that was added without options of its own is restored
\* with the empty map it was saved with (trackers.go:30).
TrackersReported ==
    proto = "bt" /\ task # Nil /\ Quiet("tracker") => task.options["tracker"] = drv.torrent
GlobalTrackersReach ==
    proto = "bt" /\ task # Nil /\ Quiet("tracker") =>
        drv.torrent = Merge(global, IF task.local = Nil THEN NoMap ELSE task.local)["tracker"]

\* When no two changes of the overall limit have overlapped and none is under way, every
\* driver works to the limit that getGlobalOption reports.
LimitsAgree == Quiet("limit") => \A d \in Limited : limits[d] = global["limit"]

\* What clients have set is in effect, a torrent announces where its options and the global ones
\* say, and the limit that getGlobalOption reports is the drivers'.
OptionsInEffect == KeptInEffect /\ TrackersFollow /\ LimitsAgree
==============================================================================
