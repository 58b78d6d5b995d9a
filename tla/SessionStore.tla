---------------------------- MODULE SessionStore ----------------------------
(***************************************************************************)
(* The session file (core/session/file_store.go): Save writes path.tmp and  *)
(* renames it over path; Load reads path when the daemon starts.            *)
(*                                                                          *)
(* SaveSession is called at the end of every RPC call that changes a task   *)
(* and by persistLoop, and nothing serialises the calls, so several savers  *)
(* may share one path.tmp.  The tasks are abstracted to a version number    *)
(* and a snapshot to that many blocks of it as it has tasks.  What the      *)
(* savers have in common is modelled here; Daemon says when each one runs.  *)
(***************************************************************************)
EXTENDS Integers, Sequences, FiniteSets

CONSTANTS
    Savers,        \* goroutines that call SaveSession
    Versions,      \* states the tasks go through are 0..Versions; a bound
    TaskCount,     \* number of tasks in each of them
    Inodes,        \* files that exist at once
    CrashBound,    \* bound on the number of crashes
    None

ASSUME VersionsAssumption == Versions \in Nat /\ TaskCount \in [0..Versions -> Nat]
ASSUME InodesAssumption == IsFiniteSet(Inodes) /\ None \notin Inodes
ASSUME CrashAssumption == CrashBound \in Nat

VARIABLES
    version,   \* state of Manager.tasks
    path, tmp, \* what the two names refer to
    data,      \* contents of the files
    saver,     \* the goroutines
    daemon,    \* "up", "down", or "failed" when LoadSession returned an error
    crashes,
    acked,     \* last version that a Save reported as written
    overlapped \* history: a Save has begun while another one was under way

files == <<path, tmp, data>>
vars == <<version, files, saver, daemon, crashes, acked, overlapped>>

Blocks == 0..Versions
\* An empty JSON array is not an empty file: block 1 holds the bracket.
Snapshot(v) == [i \in 1..(TaskCount[v] + 1) |-> v]
Whole(content) == \E v \in 0..Versions : content = Snapshot(v)
\* What Load reads.
Stored == IF path = None THEN <<>> ELSE data[path]
Idle == [pc |-> "idle", v |-> 0, file |-> None]
At(p, step) == daemon = "up" /\ saver[p].pc = step

\* A write at offset 0 leaves what lies behind it.
Over(new, old) == [i \in 1..(IF Len(new) > Len(old) THEN Len(new) ELSE Len(old)) |->
                      IF i <= Len(new) THEN new[i] ELSE old[i]]

Prefix(s, n) == IF n < Len(s) THEN SubSeq(s, 1, n) ELSE s

-----------------------------------------------------------------------------

\* A call changes the tasks.
Change ==
    /\ daemon = "up" /\ version < Versions
    /\ version' = version + 1
    /\ UNCHANGED <<files, saver, daemon, crashes, acked, overlapped>>

Begun == overlapped' = (overlapped \/ \E q \in Savers : saver[q].pc # "idle")

SaveSession(p) ==
    /\ At(p, "idle")
    /\ saver' = [saver EXCEPT ![p] = [pc |-> "open", v |-> version, file |-> None]]
    /\ Begun /\ UNCHANGED <<version, files, daemon, crashes, acked>>

\* Which free inode a new file gets makes no difference.
Unused == Inodes \ ({path} \cup {saver[q].file : q \in Savers})
FileAt(name) == IF name = None THEN CHOOSE f \in Unused : TRUE ELSE name
\* Mutant: Save writes the session file in place.
OpenInPlace(p) ==
    /\ At(p, "open") /\ (path = None => Unused # {})
    /\ LET f == FileAt(path)
       IN /\ tmp' = f /\ data' = [data EXCEPT ![f] = <<>>]
          /\ saver' = [saver EXCEPT ![p].pc = "write", ![p].file = f]
    /\ UNCHANGED <<version, path, daemon, crashes, acked, overlapped>>

\* os.WriteFile opens path.tmp, creating or truncating it...
OpenTmp(p) ==
    /\ At(p, "open") /\ (tmp = None => Unused # {})
    /\ LET f == FileAt(tmp)
       IN /\ tmp' = f /\ data' = [data EXCEPT ![f] = <<>>]
          /\ saver' = [saver EXCEPT ![p].pc = "write", ![p].file = f]
    /\ UNCHANGED <<version, path, daemon, crashes, acked, overlapped>>

\* Mutant: Save reports success before the rename.
WriteTmpAcked(p) ==
    /\ At(p, "write")
    /\ data' = [data EXCEPT ![saver[p].file] = Over(Snapshot(saver[p].v), @)]
    /\ saver' = [saver EXCEPT ![p].pc = "rename", ![p].file = None]
    /\ acked' = saver[p].v
    /\ UNCHANGED <<version, path, tmp, daemon, crashes, overlapped>>

\* ... and writes the file that it opened, wherever that has been renamed to.
WriteTmp(p) ==
    /\ At(p, "write")
    /\ data' = [data EXCEPT ![saver[p].file] = Over(Snapshot(saver[p].v), @)]
    /\ saver' = [saver EXCEPT ![p].pc = "rename", ![p].file = None]
    /\ UNCHANGED <<version, path, tmp, daemon, crashes, acked, overlapped>>

\* Rename reports an error when another saver has renamed path.tmp already.  The file that
\* had the name before is out of reach.
Rename(p) ==
    /\ At(p, "rename")
    /\ saver' = [saver EXCEPT ![p] = Idle]
    /\ \/ tmp = None /\ UNCHANGED <<files, acked>>
       \/ tmp # None /\ path' = tmp /\ tmp' = None /\ acked' = saver[p].v
          /\ data' = [f \in Inodes |-> IF f = path THEN <<>> ELSE data[f]]
    /\ UNCHANGED <<version, daemon, crashes, overlapped>>

\* The process ends; of a write that was under way any part may have been done.
Dies ==
    /\ daemon = "up" /\ daemon' = "down"
    /\ \E done \in [{p \in Savers : saver[p].pc = "write"} -> 0..Versions + 1] :
          data' = [f \in Inodes |->
                     LET writing == {p \in Savers : saver[p].pc = "write" /\ saver[p].file = f}
                     IN IF writing = {} THEN data[f]
                        ELSE LET p == CHOOSE q \in writing : TRUE
                             IN Over(Prefix(Snapshot(saver[p].v), done[p]), data[f])]
    /\ saver' = [p \in Savers |-> Idle]
    /\ UNCHANGED <<version, path, tmp, acked, overlapped>>

Crash == crashes < CrashBound /\ crashes' = crashes + 1 /\ Dies

\* Load: no file or an empty one is an empty session, one that cannot be parsed an error.
LoadSession ==
    /\ daemon = "down"
    /\ \/ Stored = <<>> /\ version' = 0 /\ daemon' = "up"
       \/ Whole(Stored) /\ version' = Stored[1] /\ daemon' = "up"
       \/ Stored # <<>> /\ ~Whole(Stored) /\ daemon' = "failed" /\ UNCHANGED version
    /\ UNCHANGED <<files, saver, crashes, acked, overlapped>>

-----------------------------------------------------------------------------

Init ==
    /\ version = 0 /\ path = None /\ tmp = None
    /\ data = [f \in Inodes |-> <<>>]
    /\ saver = [p \in Savers |-> Idle]
    /\ daemon = "up" /\ crashes = 0 /\ acked = 0 /\ overlapped = FALSE

Next == \/ Change \/ Crash \/ LoadSession
        \/ \E p \in Savers : SaveSession(p) \/ OpenTmp(p) \/ WriteTmp(p) \/ Rename(p)
Spec == Init /\ [][Next]_vars

-----------------------------------------------------------------------------
(* Properties. *)

\* Every variable has its type.
TypeOK ==
    /\ version \in 0..Versions /\ acked \in 0..Versions /\ crashes \in 0..CrashBound
    /\ path \in Inodes \cup {None} /\ tmp \in Inodes \cup {None}
    /\ data \in [Inodes -> Seq(Blocks)]
    /\ saver \in [Savers -> [pc : {"idle", "open", "write", "rename"}, v : 0..Versions,
                             file : Inodes \cup {None}]]
    /\ daemon \in {"up", "down", "failed"} /\ overlapped \in BOOLEAN

\* Whatever is interrupted, the session file is one whole snapshot, as long as no two
\* saves have shared path.tmp.
NeverTorn == ~overlapped /\ path # None => Whole(data[path])

\* A session that was reported as saved is what a restart finds, or a later one.
SavedIsKept == ~overlapped /\ acked > 0 => Stored # <<>> /\ Stored[1] >= acked

\* The daemon never fails to start because of its own session file.
AlwaysStarts == daemon # "failed"
==============================================================================
