----------------------------- MODULE TextSession -----------------------------
(***************************************************************************)
(* Tasks on their way through session files: the JSON file, the text file    *)
(* of aria2 (migrate/aria2session/text, core/session/file_store.go), what    *)
(* the drivers can restore from either, and the ways to take tasks in:       *)
(* migrate-from-aria2, an input file at the start, native.importSession.     *)
(*                                                                          *)
(* In JSON a task is saved with all it has, Meta with the drivers' own keys   *)
(* included.  In text it is a line with its URI and indented lines with its   *)
(* options; what is read back has no Meta of a driver.  HTTP, FTP and SFTP     *)
(* need none, a torrent without it fails LoadSession, and tasks of ed2k and    *)
(* local files stay unknown to their drivers.                                *)
(***************************************************************************)
EXTENDS Integers, SequencesExt

CONSTANTS
    Uris, Kind,     \* Kind[u]: what routeKind and the drivers make of it
    Offered,        \* URIs that clients add
    Ids, Gids,      \* ids that newID draws, and GIDs of 16 characters
    HashGid,        \* HashGid[u]: the GID derived from an entry that has none
    Foreign,        \* files of aria2, as lines
    Setups,
    Slots,          \* max-concurrent-downloads
    Turns,          \* bound on starts, imports and calls
    None

Kinds == {"http", "ftp", "file", "ed2k", "magnet", "other"}   \* SFTP is treated as FTP is

VARIABLES
    setup,      \* "json", "text" (save-session is no .json path) or "compat" (JSON and text)
    up,         \* the process that runs: "daemon" or "migrate"; "down", or "failed" in LoadSession
    held,       \* m.tasks of the process that runs
    main, side, \* the file of save-session, and the text file beside it; NoFile if missing
    job,        \* an import under way, or NoJob
    kept,       \* history: tasks that a call has saved and that nobody has ended or removed
    viaText,    \* history: a session was read from text
    turns       \* starts, imports and calls so far

vars == <<setup, up, held, main, side, job, kept, viaText, turns>>
----------------------------------------------------------------------------
(* The text format. *)

Line(kind, uri, key, value) == [kind |-> kind, uri |-> uri, key |-> key, value |-> value]
UriLine(u)           == Line("uri", u, "", "")
OptionLine(key, v)   == Line("option", "", key, v)
BlankLine            == Line("blank", "", "", "")     \* or a comment

\* shouldExportTask (no task of these seeds) and taskSourceURI: without the driver's Meta the
\* URI is that of the first file, and torrents and ed2k links have none there.
Exported(t) == /\ t.status \in {"waiting", "paused", "active", "error"}
               /\ t.meta \/ Kind[t.uri] \notin {"ed2k", "magnet"}

\* taskToEntry and writeEntry: the options sorted, pause only if the task is paused.
EntryLines(t) ==
    <<UriLine(t.uri), OptionLine("gid", t.gid)>> \o
        (IF t.status = "paused" THEN <<OptionLine("pause", "true")>> ELSE <<>>)

\* Format: an empty line between entries, in the order of ids, which are random.
Format(tasks) ==
    LET list == SetToSeq({t \in tasks : Exported(t)})
    IN FlattenSeq([i \in DOMAIN list |->
           (IF i = 1 THEN <<>> ELSE <<BlankLine>>) \o EntryLines(list[i])])

NoEntry == [uri |-> None, gid |-> None, paused |-> FALSE]

\* ParseReader.
Parse(lines) ==
    LET Take(acc, l) ==
            IF l.kind = "blank" \/ ~acc.ok THEN acc
            ELSE IF l.kind = "uri"
                 THEN [acc EXCEPT !.entries = IF acc.current = NoEntry THEN @ ELSE Append(@, acc.current),
                                  !.current = [NoEntry EXCEPT !.uri = l.uri]]
            ELSE IF l.kind = "broken" \/ acc.current = NoEntry THEN [acc EXCEPT !.ok = FALSE]
            ELSE IF l.key = "gid" THEN [acc EXCEPT !.current.gid = l.value]
            ELSE IF l.key = "pause" THEN [acc EXCEPT !.current.paused = (l.value = "true")]
            ELSE acc
        end == FoldLeft(Take, [ok |-> TRUE, entries |-> <<>>, current |-> NoEntry], lines)
    IN [ok |-> end.ok,
        entries |-> IF end.current = NoEntry THEN end.entries ELSE Append(end.entries, end.current)]

\* What ParseReader finds in the files: entries of a URI each.
Entries == [uri : Uris, gid : Gids \cup {"short", None}, paused : BOOLEAN]
TextAssumption ==
    /\ Kind \in [Uris -> Kinds] /\ HashGid \in [Uris -> Gids] /\ Offered \subseteq Uris
    /\ Setups \subseteq {"json", "text", "compat"} /\ Slots \in Nat \ {0} /\ Turns \in Nat
    /\ None \notin Gids /\ \A lines \in Foreign : Parse(lines).entries \in Seq(Entries)

\* generateOrReuseGID: a GID that has not 16 characters is none.
GidOf(e) == IF e.gid \in Gids THEN e.gid ELSE HashGid[e.uri]

\* entryToTask; the task's id is its GID.
EntryTask(e) == [id |-> GidOf(e), gid |-> GidOf(e), uri |-> e.uri, meta |-> FALSE,
                 status |-> IF e.paused THEN "paused" ELSE "waiting", pauseOption |-> e.paused]

----------------------------------------------------------------------------
(* The session files. *)

JsonFile(tasks)  == [kind |-> "json", tasks |-> tasks, lines |-> <<>>]
TextFile(lines)  == [kind |-> "text", tasks |-> {}, lines |-> lines]
NoFile           == [kind |-> "none", tasks |-> {}, lines |-> <<>>]

\* Mutant: the tasks that are waiting are not written.
SavedByHalf(process, tasks) ==
    /\ main' = IF process = "daemon" /\ setup = "text" THEN TextFile(Format(tasks))
               ELSE JsonFile({t \in tasks : t.status # "waiting"})
    /\ side' = IF process = "daemon" /\ setup = "compat" THEN TextFile(Format(tasks)) ELSE side

\* FileStore.Save of the daemon; migrate-from-aria2 and aria2.saveSession know JSON only.
SavedBy(process, tasks) ==
    /\ main' = IF process = "daemon" /\ setup = "text" THEN TextFile(Format(tasks)) ELSE JsonFile(tasks)
    /\ side' = IF process # "migrate" /\ setup = "compat" THEN TextFile(Format(tasks)) ELSE side

\* TasksFromBytes and LoadSession: of two entries with one GID the later one remains.
LastOf(list) == {list[i] : i \in {j \in DOMAIN list : \A k \in (j + 1)..Len(list) : list[k].id # list[j].id}}

\* TasksFromReader: the tasks of a file, or that it cannot be read.
Contents(file) ==
    IF file.kind # "text" THEN [ok |-> TRUE, tasks |-> file.tasks]
    ELSE LET p == Parse(file.lines)
         IN IF p.ok /\ \A i \in DOMAIN p.entries : Kind[p.entries[i].uri] # "other"
            THEN [ok |-> TRUE, tasks |-> LastOf([i \in DOMAIN p.entries |-> EntryTask(p.entries[i])])]
            ELSE [ok |-> FALSE, tasks |-> {}]

\* Load: the text file beside it stands in for a JSON file that is missing.
Stored == IF main.kind = "none" /\ setup # "text" THEN side ELSE main

\* What the drivers restore, and whether theirs LoadSessionTasks fails.
Known(t) == t.meta \/ Kind[t.uri] \in {"http", "ftp"}
Restorable(tasks) == \A t \in tasks : t.meta \/ Kind[t.uri] # "magnet"

\* fillSlots: waiting tasks are started, one for each free slot.
Waiting(tasks) == {t \in tasks : t.status = "waiting"}
Free(tasks) == Max({0, Slots - Cardinality({t \in tasks : t.status = "active"})})
Picked(tasks) == {s \in SUBSET Waiting(tasks) :
                     Cardinality(s) = Min({Free(tasks), Cardinality(Waiting(tasks))})}
Now(t, status) == [t EXCEPT !.status = status]
Started(tasks, s) == (tasks \ s) \cup {Now(t, "active") : t \in s}

Promise(t) == [gid |-> t.gid, uri |-> t.uri, paused |-> t.status = "paused"]

\* What is kept of a task that a call has made out of old.  Text cannot keep two tasks of one
\* GID apart, nor a GID that has not 16 characters: another will be made up for it.
Vow(tasks, old, t) ==
    IF setup # "json" /\ (t.gid \notin Gids \/ \E h \in tasks : h.id # t.id /\ GidOf(h) = GidOf(t))
    THEN {k \in kept : k.gid # GidOf(t)}
    ELSE (kept \ {Promise(old)}) \cup {Promise(t)}
----------------------------------------------------------------------------
(* Starting and stopping. *)

Request(uri, gid, paused, bad) == [uri |-> uri, gid |-> gid, paused |-> paused, bad |-> bad]

\* buildAddInput; an unsupported URI is reported and left out.
Migrated(entries) == [i \in DOMAIN entries |-> LET e == entries[i] IN
    Request(e.uri, GidOf(e), e.paused, Kind[e.uri] = "other")]

\* buildStartupInput takes the GID as it stands.
Bootstrapped(entries) == [i \in DOMAIN entries |-> LET e == entries[i] IN
    Request(e.uri, e.gid, e.paused, Kind[e.uri] = "other")]

\* addInputFromStoredTask: there is no case for FTP, and none without a URI.
Importable(t) == Kind[t.uri] # "ftp" /\ (t.meta \/ Kind[t.uri] \in {"http", "file"})
Reimported(tasks) == LET list == SetToSeq(tasks) IN [i \in DOMAIN list |-> LET t == list[i] IN
    Request(t.uri, t.gid, t.pauseOption, ~Importable(t))]

Job(kind, list) == [kind |-> kind, list |-> list, next |-> 1, failed |-> {}]
NoJob           == Job("none", <<>>)

\* LoadSession.  It fails if a driver does, or if a task that gets a slot is unknown to its
\* driver.  What it starts it saves.
LoadSession(process) ==
    /\ viaText' = (viaText \/ Stored.kind = "text")
    /\ \E s \in Picked(Contents(Stored).tasks) :
        LET tasks == Contents(Stored).tasks
        IN IF ~Contents(Stored).ok \/ ~Restorable(tasks) \/ \E t \in s : ~Known(t)
           THEN /\ up' = IF process = "migrate" THEN "down" ELSE "failed"
                /\ UNCHANGED <<held, main, side>>
           ELSE /\ up' = process
                /\ held' = Started(tasks, s)
                /\ IF s = {} THEN UNCHANGED <<main, side>> ELSE SavedBy(process, held')
    /\ UNCHANGED <<setup, kept>>

\* parseStartupInputFile reads the same format (and several URIs in one line).
InputFile(lines) == Parse(lines)

\* The daemon starts, with an input file or without; one that cannot be parsed is skipped.
Start == \E lines \in Foreign \cup {<<>>} :
    /\ up = "down" /\ turns < Turns
    /\ turns' = turns + 1
    /\ LoadSession("daemon")
    /\ job' = IF up' = "daemon" /\ InputFile(lines).ok /\ lines # <<>>
              THEN Job("startup", Bootstrapped(InputFile(lines).entries)) ELSE NoJob

\* runMigrate parses the file of aria2 first.
Migrate == \E lines \in Foreign :
    /\ up = "down" /\ turns < Turns /\ Parse(lines).ok
    /\ turns' = turns + 1
    /\ LoadSession("migrate")
    /\ job' = IF up' = "migrate" THEN Job("migrate", Migrated(Parse(lines).entries)) ELSE NoJob

\* Calls are served once the input file is through.
Serving == up = "daemon" /\ job.kind \in {"none", "import"}
Call == Serving /\ turns < Turns /\ turns' = turns + 1

\* ImportSessionFrom the file of the session itself, or one of aria2.
ImportSession == \E file \in {main} \cup {TextFile(lines) : lines \in Foreign} :
    /\ Call /\ job.kind = "none"
    /\ file.kind # "none" /\ Contents(file).ok
    /\ job' = Job("import", Reimported(Contents(file).tasks))
    /\ UNCHANGED <<setup, up, held, main, side, kept, viaText>>

\* The process dies, or exits, which saves nothing new.
Die ==
    /\ up \in {"daemon", "migrate"}
    /\ up' = "down" /\ held' = {} /\ job' = NoJob
    /\ UNCHANGED <<setup, main, side, kept, viaText, turns>>

\* Somebody removes the file of save-session while nothing runs.  In compat mode the text file
\* may stand in for it, unless migrate-from-aria2 has saved without it.
LoseMain ==
    /\ up \in {"down", "failed"} /\ main.kind # "none"
    /\ up' = "down" /\ main' = NoFile /\ job' = NoJob
    /\ kept' = IF side.kind = "text" /\ main.kind = "json" /\ side.lines = Format(main.tasks) THEN kept ELSE {}
    /\ UNCHANGED <<setup, held, side, viaText, turns>>
----------------------------------------------------------------------------
(* What the manager does with tasks. *)

Fresh(pool, used) == CHOOSE x \in pool \ used : TRUE

\* Manager.Add, which saves before it returns.
Enter(r) ==
    LET id == Fresh(Ids, {t.id : t \in held})
        t == [id |-> id, gid |-> IF r.gid = None THEN Fresh(Gids, {h.gid : h \in held}) ELSE r.gid,
              uri |-> r.uri, meta |-> TRUE, pauseOption |-> r.paused,
              status |-> IF r.paused THEN "paused" ELSE IF Free(held) > 0 THEN "active" ELSE "waiting"]
    IN /\ Ids \ {h.id : h \in held} # {} /\ Gids \ {h.gid : h \in held} # {}
       /\ held' = held \cup {t}
       /\ SavedBy(up, held')
       /\ kept' = Vow(held, t, t)
       /\ UNCHANGED <<setup, up, viaText>>

Add(u) ==
    /\ Call
    /\ Enter(Request(u, None, FALSE, FALSE))
    /\ UNCHANGED job

Working == job.kind \notin {"none", "done"} /\ job.next <= Len(job.list)
JobDoes ==
    /\ Working /\ ~job.list[job.next].bad
    /\ Enter(job.list[job.next])
    /\ job' = [job EXCEPT !.next = @ + 1]
    /\ UNCHANGED turns

\* Mutant: the first task that cannot be added ends a migration.
JobFailsAtOnce ==
    /\ Working
    /\ job' = IF job.kind = "import" THEN NoJob
              ELSE [job EXCEPT !.next = Len(job.list) + 1, !.failed = @ \cup {job.next}]
    /\ UNCHANGED <<setup, up, held, main, side, kept, viaText, turns>>

\* A task that cannot be made into an input, or that its driver does not take, is left out, but
\* ends an import of a session.
JobFails ==
    /\ Working
    /\ job' = IF job.kind = "import" THEN NoJob
              ELSE [job EXCEPT !.next = @ + 1, !.failed = @ \cup {job.next}]
    /\ UNCHANGED <<setup, up, held, main, side, kept, viaText, turns>>

\* runMigrate saves once more and exits; "done" stands for its message.
JobEnds ==
    /\ job.kind \notin {"none", "done"} /\ ~Working
    /\ IF job.kind = "migrate"
       THEN /\ SavedBy("migrate", held)
            /\ job' = [job EXCEPT !.kind = "done"] /\ up' = "down" /\ held' = {}
       ELSE job' = NoJob /\ UNCHANGED <<up, held, main, side>>
    /\ UNCHANGED <<setup, kept, viaText, turns>>

\* A call has saved tasks and goes on with fillSlots, which saves again what it has started,
\* unless a task is unknown to its driver.
Refill(tasks) == \E s \in Picked(tasks) : \E d \in SUBSET s :
    /\ IF \A t \in s : Known(t) THEN d = s ELSE \A t \in d : Known(t)
    /\ held' = Started(tasks, d)
    /\ SavedBy("daemon", IF d = s THEN held' ELSE tasks)

Pause(t) ==
    /\ Call /\ Known(t) /\ t.status \in {"active", "waiting"}
    /\ Refill((held \ {t}) \cup {Now(t, "paused")})
    /\ kept' = Vow(held, t, Now(t, "paused"))
    /\ UNCHANGED <<setup, up, job, viaText>>
\* Unpause starts a task whether there is a slot or not.
Unpause(t) ==
    /\ Call /\ Known(t) /\ t.status = "paused"
    /\ held' = (held \ {t}) \cup {Now(t, "active")}
    /\ SavedBy("daemon", held')
    /\ kept' = Vow(held, t, Now(t, "active"))
    /\ UNCHANGED <<setup, up, job, viaText>>
RemoveTask(t) ==
    /\ Call /\ Known(t)
    /\ Refill(held \ {t})
    /\ kept' = kept \ {Promise(t)}
    /\ UNCHANGED <<setup, up, job, viaText>>
\* A download ends, in either process; the daemon notices and starts another.
End(t, how) ==
    /\ up \in {"daemon", "migrate"} /\ t.status = "active"
    /\ LET tasks == (held \ {t}) \cup {Now(t, how)}
       IN IF up = "daemon" /\ how = "complete" /\ Waiting(tasks) # {} THEN Refill(tasks)
          ELSE held' = tasks /\ UNCHANGED <<main, side>>
    /\ kept' = kept \ {Promise(t)}
    /\ UNCHANGED <<setup, up, job, viaText, turns>>
\* persistLoop, and aria2.saveSession, whose FileStore writes JSON to the same path.
Persist == \E by \in {"daemon", "call"} :
    /\ up = "daemon" /\ (by = "call" => Serving)
    /\ SavedBy(by, held)
    /\ UNCHANGED <<setup, up, held, job, kept, viaText, turns>>
----------------------------------------------------------------------------
Init ==
    /\ setup \in Setups
    /\ up = "down" /\ held = {} /\ main = NoFile /\ side = NoFile /\ job = NoJob
    /\ kept = {} /\ viaText = FALSE /\ turns = 0

Calls == \/ \E u \in Offered : Add(u)
         \/ \E t \in held : Pause(t) \/ Unpause(t) \/ RemoveTask(t)
Next == \/ Start \/ Migrate \/ ImportSession \/ Die \/ LoseMain
        \/ JobDoes \/ JobFails \/ JobEnds
        \/ Calls \/ Persist
        \/ \E t \in held, how \in {"complete", "error"} : End(t, how)
Spec == Init /\ [][Next]_vars
----------------------------------------------------------------------------
Tasks == [id : Ids \cup Gids, gid : Gids \cup {"short"}, uri : Uris, meta : BOOLEAN, pauseOption : BOOLEAN,
          status : {"waiting", "active", "paused", "complete", "error"}]

\* No two tasks of the manager's map have one id; a process that does not run holds nothing.
TypeOK ==
    /\ setup \in Setups /\ up \in {"down", "failed", "daemon", "migrate"}
    /\ held \subseteq Tasks /\ (up \in {"down", "failed"} => held = {})
    /\ \A t, o \in held : t.id = o.id => t = o
    /\ turns \in 0..Turns /\ viaText \in BOOLEAN

Unkept(k) == viaText /\ Kind[k.uri] \in {"ed2k", "magnet"}

\* A task that a call has saved, and that nobody has ended or removed, is there with its GID,
\* its URI and whether it is paused: through restarts, migrations and imports, and when the
\* text file stands in for the JSON file.  Torrents and ed2k links are excluded once a
\* session was read from text, where the code has no driver's Meta for them.
NothingLost ==
    up \in {"daemon", "migrate"} =>
        \A k \in kept : Unkept(k) \/ \E t \in held : Promise(t) = k

\* The text that is written reads back as the tasks it was written for, GIDs and pauses included.
RoundTrip ==
    LET p == Parse(Format(held))
        written == {t \in held : Exported(t)}
    IN /\ p.ok /\ Len(p.entries) = Cardinality(written)
       /\ Range(p.entries) = {Promise(t) : t \in written}

\* The daemon fails to start only if a session was read from text: in JSON, all that the
\* drivers need is saved, whichever of the two processes saved it.
JsonStarts == up = "failed" => viaText

\* What was saved is found again.
SavedIsFound == NothingLost /\ RoundTrip /\ JsonStarts

\* When a migration has said that it is done, the JSON session has every task of the file
\* that it did not report, with its GID, its URI and its pause.
AllMigrated ==
    job.kind = "done" =>
        /\ main.kind = "json"
        /\ \A i \in DOMAIN job.list \ job.failed : \E t \in main.tasks :
               t.gid = job.list[i].gid /\ t.gid \in Gids /\ t.uri = job.list[i].uri
               /\ (t.status = "paused") = job.list[i].paused

\* And it has all that was there before, unless that ended in the meantime.
EarlierStays ==
    job.kind = "done" => \A k \in kept : Unkept(k) \/ \E t \in main.tasks : Promise(t) = k

\* When a migration has said that it is done, it is complete.
MigrationComplete == AllMigrated /\ EarlierStays

\* README.md:280 says that with a save-session that is no .json path the session is written
\* back as text, and README.md:23 that tasks resume after restart.  It is false: a magnet
\* in that text makes every later start fail.
StartsAgain == up # "failed"
=============================================================================
