---------------------------- MODULE DirectDriver ----------------------------
(***************************************************************************)
(* One download of protocol/ftp, protocol/sftpproto or protocol/localfile:  *)
(* drivers that read their source in one stream.  They share the state      *)
(* machine of Start, Pause and Remove and differ in how they connect, copy  *)
(* and finish; kind says which of them a behaviour is about.                *)
(*                                                                          *)
(* As in HttpDriver, Pause and Remove cancel a run and return, so several   *)
(* goroutines ("runs") of one task may be alive.  A step is one critical    *)
(* section of Driver.mu or one access to the network or the file.           *)
(*                                                                          *)
(* file is what outputPath names.  A forced Remove takes its name away, and  *)
(* the option index-out gives the task another one, while a run goes on      *)
(* writing the file it has open: that file is not attached any more.         *)
(***************************************************************************)
EXTENDS Integers, Sequences, FiniteSets

CONSTANTS
    Kinds,      \* the drivers considered: a subset of KindNames
    Runs,       \* goroutines that Start may begin, in that order
    Total,      \* length of the source, in blocks
    Leftovers,  \* lengths of the partial file that Add may find at the target
    MaxMirrors, \* bound: URIs a task may have
    Modes,      \* what allow-overwrite and continue may say of an existing file, and
    Allocs,     \* whether file-allocation may be other than "none"; ChangeOption can
                \* alter both between two looks at them
    Calls,      \* the calls made meanwhile: a subset of CallNames
    None

KindNames == {"ftp", "sftp", "file"}
Statuses == {"none", "waiting", "active", "paused", "complete", "error", "removed"}
CallNames == {"pause", "remove", "option", "uri", "restart"}
ModeNames == {"continue", "overwrite", "reject"}

ASSUME RunsAssumption == Runs \subseteq Nat \ {0} /\ IsFiniteSet(Runs) /\ None \notin Runs
ASSUME ShapeAssumption ==
    /\ Kinds \subseteq KindNames /\ Calls \subseteq CallNames /\ Modes \subseteq ModeNames
    /\ Total \in Nat \ {0} /\ Leftovers \subseteq 0..Total
    /\ MaxMirrors \in Nat \ {0} /\ Allocs \subseteq BOOLEAN

VARIABLES
    kind, known,                        \* the driver; d.tasks has the task
    status, running, cancel, removed,   \* the fields of state; cancel names a run
    mirrors, active,                    \* how many st.endpoints; st.active, from 1
    file,                               \* the block at each place of the target, 0 for none
    unlink,                             \* a forced Remove has yet to delete the target
    moved,                              \* history: renamed since a run last began
    run                                 \* the goroutines

stateVars == <<kind, known, status, running, cancel, removed>>
uriVars == <<mirrors, active>>
pathVars == <<unlink, moved>>
vars == <<stateVars, uriVars, pathVars, file, run>>

Whole == [b \in 1..Total |-> b]
Prefix(n) == SubSeq(Whole, 1, n)
Steps == {"new", "look", "loop", "connect", "open", "check", "read",
          "finish", "failed", "exit", "done"}
NewRun == [pc |-> "new", cancelled |-> FALSE, i |-> 0, existing |-> 0, sized |-> FALSE,
           offset |-> 0, written |-> 0, attached |-> FALSE]
RunState == [pc : Steps, cancelled : BOOLEAN,   \* ctx.Err() != nil
             i : Nat,                           \* the mirror
             existing : 0..Total,               \* localSize of a copy
             sized : BOOLEAN,                   \* total > 0
             offset : 0..Total, written : 0..Total,
             attached : BOOLEAN]                \* the open file is the one at outputPath

At(r, step) == run[r].pc = step
Alive(r) == run[r].pc \notin {"new", "done"}
Working(r) == Alive(r) /\ ~At(r, "exit")
Goto(r, step) == run' = [run EXCEPT ![r].pc = step]
\* What is kept of a run that leaves an endpoint, or is over.
Left(r, step) == [NewRun EXCEPT !.pc = step, !.cancelled = run[r].cancelled,
                                !.i = run[r].i, !.offset = run[r].offset]
Leave(r, step) == run' = [run EXCEPT ![r] = Left(r, step)]
Over(r) == [NewRun EXCEPT !.pc = "done", !.offset = run[r].offset]
\* os.Remove(outputPath): goroutines go on writing a file without a name.
Unlinked(rs) == [r \in Runs |-> [rs[r] EXCEPT !.attached = FALSE]]
Cancel(rs, c) == [r \in Runs |-> IF r = c THEN [rs[r] EXCEPT !.cancelled = TRUE] ELSE rs[r]]

-----------------------------------------------------------------------------
(* Calls of the manager. *)

\* localfile alone looks for a free name when auto-file-renaming is set.
Renamed == IF kind = "file" THEN BOOLEAN ELSE {FALSE}
Add ==
    /\ status = "none"
    /\ known' = TRUE /\ status' = "waiting"
    /\ \E n \in Leftovers, renamed \in Renamed :
          file' = IF renamed THEN <<>> ELSE Prefix(n)
    /\ UNCHANGED <<kind, running, cancel, removed, uriVars, pathVars, run>>

Start ==
    /\ known /\ ~removed
    /\ IF running THEN UNCHANGED <<run, cancel, running, status, moved>>
       ELSE /\ \E r \in Runs :
                  /\ At(r, "new") /\ \A q \in Runs : At(q, "new") => r <= q
                  /\ cancel' = r /\ Goto(r, "look")
            /\ running' = TRUE /\ status' = "active" /\ moved' = FALSE
    /\ UNCHANGED <<kind, known, removed, uriVars, unlink, file>>

PauseTask ==
    /\ known /\ ~removed
    /\ run' = Cancel(run, cancel) /\ cancel' = None
    /\ running' = FALSE /\ status' = "paused"
    /\ UNCHANGED <<kind, known, removed, uriVars, pathVars, file>>
Pause == "pause" \in Calls /\ PauseTask

\* Mutant: Remove does not cancel the run.
RemoveQuietly ==
    /\ "remove" \in Calls /\ known
    /\ removed' = TRUE /\ running' = FALSE /\ status' = "removed"
    /\ \E force \in BOOLEAN : unlink' = (unlink \/ force)
    /\ UNCHANGED <<kind, known, cancel, moved, uriVars, file, run>>

Remove ==
    /\ "remove" \in Calls /\ known
    /\ run' = Cancel(run, cancel) /\ cancel' = None
    /\ removed' = TRUE /\ running' = FALSE /\ status' = "removed"
    /\ \E force \in BOOLEAN : unlink' = (unlink \/ force)
    /\ UNCHANGED <<kind, known, moved, uriVars, file>>

\* Nothing is at outputPath any more, but for the writers that still have the file open.
NothingThere == file' = <<>> /\ run' = Unlinked(run)

\* os.Remove(outputPath), after Remove gave up the lock.
Unlink ==
    /\ unlink /\ unlink' = FALSE
    /\ NothingThere
    /\ UNCHANGED <<stateVars, uriVars, moved>>

\* Called by detachTask, after Remove.
PurgeLocalState ==
    /\ known /\ removed /\ ~unlink
    /\ known' = FALSE
    /\ UNCHANGED <<kind, status, running, cancel, removed, uriVars, pathVars, file, run>>

\* The option index-out gives the task a name at once, whether a run goes on or not; what
\* is at the new name is a bound: nothing.
Rename ==
    /\ known /\ ~removed
    /\ moved' = TRUE
    /\ NothingThere
    /\ UNCHANGED <<stateVars, uriVars, unlink>>

\* Options are merged under the lock (the others are looked at through Modes and Allocs);
\* after it the option pause calls Pause or Start.
ChangeOption == "option" \in Calls /\ (Rename \/ PauseTask \/ Start)

\* Some URIs are taken out and some put in; the list may not become empty.
ChangeURI ==
    /\ "uri" \in Calls /\ kind # "file" /\ known /\ ~removed
    /\ \E deleted \in 0..mirrors, added \in 0..MaxMirrors :
          mirrors' = mirrors - deleted + added
    /\ mirrors' \in 1..MaxMirrors
    /\ active' = IF active > mirrors' THEN 1 ELSE active
    /\ UNCHANGED <<stateVars, pathVars, file, run>>

\* A new process.  A task saved as active is marked running before the Start that
\* should resume it, which therefore does nothing.  It is saved with its outputPath.
Reloaded ==
    /\ run' = [r \in Runs |-> IF Alive(r) THEN Over(r) ELSE run[r]]
    /\ cancel' = None /\ running' = (status = "active") /\ active' = 1
    /\ unlink' = FALSE
    /\ UNCHANGED <<kind, known, status, removed, mirrors, moved, file>>
LoadSessionTasks == "restart" \in Calls /\ known /\ ~removed /\ Reloaded

-----------------------------------------------------------------------------
(* What a run writes into the state when it ends: only localfile gives up running here. *)

SetStatus(s) == status' = IF known THEN s ELSE status
StopsRunning(really) == running' = IF kind = "file" /\ really THEN FALSE ELSE running

Complete(r) ==
    /\ At(r, "finish")
    /\ SetStatus("complete") /\ StopsRunning(known) /\ Leave(r, "exit")
    /\ UNCHANGED <<kind, known, cancel, removed, uriVars, file>>

Fail(r) == SetStatus("error") /\ StopsRunning(known) /\ Leave(r, "exit")
PauseAfterCancel(r) ==
    /\ status' = IF known /\ ~removed THEN "paused" ELSE status
    /\ StopsRunning(known /\ ~removed) /\ Leave(r, "exit")
KeepAround == UNCHANGED <<kind, known, cancel, removed>>

-----------------------------------------------------------------------------
(* download (ftp, sftp) and copy (file). *)

\* ShouldRejectExistingFile and ShouldResetExistingFile.
Rejects(m) == m = "reject" /\ file # <<>>
Reset(r, m, step, n, i) ==
    /\ file' = IF m = "overwrite" THEN <<>> ELSE file
    /\ run' = [IF file' # file THEN Unlinked(run) ELSE run
               EXCEPT ![r].existing = n, ![r].i = i, ![r].sized = (kind = "file"), ![r].pc = step]
Gone(r) == ~known /\ Goto(r, "exit") /\ UNCHANGED <<status, running, file>>

\* MkdirAll, the size of the target, and the mirror to begin with.
Look(r) ==
    /\ kind # "file" /\ At(r, "look")
    /\ \/ Gone(r)
       \/ known /\ Fail(r) /\ UNCHANGED file
       \/ \E m \in Modes :
             /\ known /\ ~Rejects(m) /\ UNCHANGED <<status, running>>
             /\ Reset(r, m, "loop", 0, IF active \in 1..mirrors THEN active ELSE 1)
    /\ KeepAround /\ UNCHANGED uriVars

\* The same for a copy, and the size of the source; the size of the target is kept.
LookCopy(r) ==
    /\ kind = "file" /\ At(r, "look")
    /\ \/ Gone(r)
       \/ known /\ Fail(r) /\ UNCHANGED file
       \/ \E m \in Modes :
             /\ known /\ ~Rejects(m) /\ UNCHANGED <<status, running>>
             /\ Reset(r, m, "open", IF m = "overwrite" THEN 0 ELSE Len(file), 1)
    /\ KeepAround /\ UNCHANGED uriVars

\* The test of the loop, and the lock under which active is set.
NextEndpoint(r) ==
    /\ At(r, "loop")
    /\ \/ /\ run[r].i <= mirrors
          /\ active' = (IF known THEN run[r].i ELSE active) /\ Goto(r, "connect")
          /\ UNCHANGED <<status, running>>
       \/ run[r].i > mirrors /\ Fail(r) /\ UNCHANGED active
    /\ KeepAround /\ UNCHANGED <<mirrors, file>>

\* st.endpoints[i] after ChangeURI made the list shorter ends the process.
IndexPanics(r) ==
    /\ At(r, "connect") /\ run[r].i > mirrors
    /\ Reloaded

\* Dial, login and size.  ftp goes on without a size, sftp does not.
FtpConnect(r) ==
    /\ kind = "ftp" /\ At(r, "connect") /\ run[r].i <= mirrors
    /\ \/ Leave(r, "failed")
       \/ \E sized \in BOOLEAN :
             run' = [run EXCEPT ![r].sized = sized, ![r].pc = "open"]
    /\ UNCHANGED <<stateVars, uriVars, file>>
SftpConnect(r) ==
    /\ kind = "sftp" /\ At(r, "connect") /\ run[r].i <= mirrors
    /\ \/ Leave(r, "failed")
       \/ run' = [run EXCEPT ![r].sized = TRUE, ![r].pc = "open"]
    /\ UNCHANGED <<stateVars, uriVars, file>>

\* Mutant: a file that has its full length is resumed as well.
ShouldResumeAny(existing, sized, mode) == mode = "continue" /\ existing > 0
ShouldResumePartial(existing, sized, mode) ==
    mode = "continue" /\ existing > 0 /\ (sized => existing < Total)
\* The target as PrepareDownloadFile leaves it; without a size there is no O_TRUNC.
PrepareDownloadFile(resume, sized, prealloc) ==
    CASE resume \/ (prealloc /\ ~sized) -> file
      [] ~resume /\ prealloc /\ sized -> [b \in 1..Total |-> 0]
      [] ~resume /\ ~prealloc -> <<>>
\* ftp and sftp look at the target once more; then the source is opened at the offset,
\* which may fail.
Open(r) ==
    /\ At(r, "open")
    /\ \E mode \in Modes, prealloc \in Allocs :
          LET existing == IF kind = "file" THEN run[r].existing ELSE Len(file)
              resume == ShouldResumePartial(existing, run[r].sized, mode)
              offset == IF resume THEN existing ELSE 0
          IN /\ file' = PrepareDownloadFile(resume, run[r].sized, prealloc)
             /\ \/ run' = [run EXCEPT ![r].offset = offset, ![r].written = offset,
                                      ![r].attached = TRUE, ![r].pc = "check"]
                \/ Leave(r, "failed")
    /\ UNCHANGED <<stateVars, uriVars>>

\* The top of the copy loop; a copy of a file ends here when it was cancelled.
Check(r) ==
    /\ At(r, "check")
    /\ IF run[r].cancelled /\ kind = "file" THEN PauseAfterCancel(r)
       ELSE (IF run[r].cancelled THEN Leave(r, "failed") ELSE Goto(r, "read")) /\ UNCHANGED <<status, running>>
    /\ KeepAround /\ UNCHANGED <<uriVars, file>>

\* The file after block b was written at place at, if the handle is still the target's.
Put(r, at, b) ==
    IF ~run[r].attached THEN file
    ELSE [k \in 1..(IF at > Len(file) THEN at ELSE Len(file)) |->
             IF k = at THEN b ELSE IF k <= Len(file) THEN file[k] ELSE 0]

\* limiter.Wait, WriteAt and advance, which makes the task active.
Transfer(r) ==
    /\ kind # "file" /\ At(r, "read") /\ run[r].written < Total
    /\ file' = Put(r, run[r].written + 1, run[r].written + 1)
    /\ run' = [run EXCEPT ![r].written = @ + 1, ![r].pc = "check"]
    /\ status' = IF known /\ ~removed THEN "active" ELSE status
    /\ KeepAround /\ UNCHANGED <<running, uriVars>>

\* Write puts the bytes where the handle stands: at 0 after opening, whatever offset is.
Copy(r) ==
    /\ kind = "file" /\ At(r, "read") /\ run[r].written < Total
    /\ file' = Put(r, run[r].written - run[r].offset + 1, run[r].written + 1)
    /\ run' = [run EXCEPT ![r].written = @ + 1, ![r].pc = "check"]
    /\ UNCHANGED <<stateVars, uriVars>>

\* io.EOF.  A data connection of FTP that is closed early looks the same.
EndOfSource(r) ==
    /\ At(r, "read") /\ (run[r].written >= Total \/ kind = "ftp")
    /\ Leave(r, "finish")
    /\ UNCHANGED <<stateVars, uriVars, file>>

ReadFails(r) ==
    /\ At(r, "read") /\ Leave(r, "failed")
    /\ UNCHANGED <<stateVars, uriVars, file>>

\* A copy fails; a download goes to the next mirror, if SleepBetweenMirrors lets it.
EndpointFailed(r) ==
    /\ At(r, "failed")
    /\ \/ kind = "file" /\ Fail(r)
       \/ kind # "file" /\ run[r].cancelled /\ PauseAfterCancel(r)
       \/ /\ kind # "file" /\ ~run[r].cancelled
          /\ run' = [run EXCEPT ![r].i = @ + 1, ![r].pc = "loop"]
          /\ UNCHANGED <<status, running>>
    /\ KeepAround /\ UNCHANGED <<uriVars, file>>

\* The deferred function cancels whatever run is current by now.
Exit(r) ==
    /\ At(r, "exit")
    /\ IF known
       THEN /\ running' = FALSE /\ cancel' = None
            /\ run' = Cancel([run EXCEPT ![r] = Over(r)], cancel)
       ELSE run' = [run EXCEPT ![r] = Over(r)] /\ UNCHANGED <<running, cancel>>
    /\ UNCHANGED <<kind, known, status, removed, uriVars, file>>

-----------------------------------------------------------------------------

Init ==
    /\ kind \in Kinds /\ known = FALSE /\ status = "none" /\ running = FALSE
    /\ cancel = None /\ removed = FALSE
    /\ mirrors = MaxMirrors /\ active = 1
    /\ file = <<>> /\ unlink = FALSE /\ moved = FALSE
    /\ run = [r \in Runs |-> NewRun]

Client ==
    \/ Add \/ Start \/ Pause \/ Remove \/ Unlink \/ PurgeLocalState
    \/ ChangeOption \/ ChangeURI \/ LoadSessionTasks
DownloadStep(r) ==
    \/ Look(r) \/ LookCopy(r) \/ NextEndpoint(r) \/ FtpConnect(r) \/ SftpConnect(r)
    \/ Open(r) \/ Check(r) \/ Transfer(r) \/ Copy(r) \/ EndOfSource(r) \/ ReadFails(r)
    \/ EndpointFailed(r) \/ Complete(r) \/ Exit(r)
Download(r) == (DownloadStep(r) /\ UNCHANGED pathVars) \/ IndexPanics(r)

Next == Client \/ \E r \in Runs : Download(r)
Spec == Init /\ [][Next]_vars

-----------------------------------------------------------------------------
(* Properties. *)

\* Every variable has its type.
TypeOK ==
    /\ kind \in KindNames /\ known \in BOOLEAN /\ status \in Statuses
    /\ running \in BOOLEAN /\ cancel \in Runs \cup {None} /\ removed \in BOOLEAN
    /\ mirrors \in 1..MaxMirrors /\ active \in Nat \ {0}
    /\ file \in Seq(0..Total) /\ unlink \in BOOLEAN /\ moved \in BOOLEAN
    /\ run \in [Runs -> RunState]

\* ftp and sftp keep the contract of Download: however calls interleave with the ends of
\* old runs at most one run goes on, and none of a removed task.  localfile does not: an
\* old run gives up running before its deferred function has cancelled the current one,
\* and a Start in between begins a run beside it that nothing can cancel any more.
Live == {r \in Runs : Working(r) /\ ~run[r].cancelled}
Contract == INSTANCE Download WITH
    Workers <- Runs, gone <- removed, live <- IF kind = "file" THEN {} ELSE Live
KeepsContract == Contract!Spec

\* A task that reports complete has the bytes of the source in its file.
CompleteIsWhole == status = "complete" => file = Whole

\* It does when its only run completed it over sftp, or copied it from the start,
\* whatever mirrors failed, options changed and restarts came on the way, unless it was
\* renamed meanwhile: a run reports of the new name what it wrote under the old one.
Sole(r) == \A q \in Runs \ {r} : At(q, "new")
SoleRunIsWhole ==
    \A r \in Runs :
        /\ status = "complete" /\ ~removed /\ ~moved /\ Sole(r)
        /\ kind = "sftp" \/ (kind = "file" /\ run[r].offset = 0)
        => file = Whole

\* Changing the mirrors of a running download never ends the process.
NoIndexPanic ==
    \A r \in Runs : At(r, "connect") => run[r].i <= mirrors
==============================================================================
