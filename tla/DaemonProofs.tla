---------------------------- MODULE DaemonProofs ----------------------------
(* Theorems about SessionStore and Daemon for any number of versions, tasks, clients and  *)
(* crashes.  An exit of the daemon is, to the store, a death of the process like another.  *)
EXTENDS Daemon, TLAPS, FiniteSetTheorems

\* What a step of the daemon may be to the store.
StoreStep == [Next]_vars \/ (Dies /\ UNCHANGED crashes)

SaverType == [pc : {"idle", "open", "write", "rename"}, v : 0..Versions,
              file : Inodes \cup {None}]

LEMMA SnapshotType ==
    ASSUME NEW v \in 0..Versions
    PROVE  /\ Snapshot(v) \in Seq(Blocks) /\ Len(Snapshot(v)) = TaskCount[v] + 1
           /\ TaskCount[v] \in Nat
BY VersionsAssumption DEF Snapshot, Blocks

LEMMA OverType ==
    ASSUME NEW new \in Seq(Blocks), NEW old \in Seq(Blocks)
    PROVE  Over(new, old) \in Seq(Blocks)
<1> DEFINE n == IF Len(new) > Len(old) THEN Len(new) ELSE Len(old)
<1>1. n \in Nat
  OBVIOUS
<1>2. \A i \in 1..n : (IF i <= Len(new) THEN new[i] ELSE old[i]) \in Blocks
  OBVIOUS
<1> QED
  BY <1>1, <1>2 DEF Over

LEMMA OverEmpty == ASSUME NEW new \in Seq(Blocks) PROVE Over(new, <<>>) = new
<1>1. \A i \in 1..Len(new) : i <= Len(new)
  OBVIOUS
<1>2. Over(new, <<>>) = [i \in 1..Len(new) |-> new[i]]
  BY <1>1 DEF Over
<1> QED
  BY <1>2

LEMMA PrefixType ==
    ASSUME NEW s \in Seq(Blocks), NEW n \in Nat PROVE Prefix(s, n) \in Seq(Blocks)
BY DEF Prefix

LEMMA DiesType == ASSUME TypeOK, Dies PROVE data' \in [Inodes -> Seq(Blocks)]
<1>1. PICK done \in [{p \in Savers : saver[p].pc = "write"} -> 0..Versions + 1] :
          data' = [f \in Inodes |->
                     LET writing == {p \in Savers : saver[p].pc = "write" /\ saver[p].file = f}
                     IN IF writing = {} THEN data[f]
                        ELSE LET p == CHOOSE q \in writing : TRUE
                             IN Over(Prefix(Snapshot(saver[p].v), done[p]), data[f])]
  BY DEF Dies
<1>2. ASSUME NEW f \in Inodes, NEW p \in Savers, saver[p].pc = "write"
      PROVE  Over(Prefix(Snapshot(saver[p].v), done[p]), data[f]) \in Seq(Blocks)
  <2>1. saver[p].v \in 0..Versions /\ done[p] \in Nat /\ data[f] \in Seq(Blocks)
    BY <1>2, VersionsAssumption DEF TypeOK
  <2> QED
    BY <2>1, SnapshotType, PrefixType, OverType
<1> QED
  BY <1>1, <1>2 DEF TypeOK

LEMMA OpensInode ==
    ASSUME TypeOK, NEW p \in Savers, OpenTmp(p)
    PROVE  FileAt(tmp) \in Inodes /\ (tmp = None => FileAt(tmp) # path)
<1>1. CASE tmp = None
  <2>1. PICK f \in Unused : TRUE
    BY <1>1 DEF OpenTmp
  <2>2. FileAt(tmp) \in Unused
    BY <1>1, <2>1 DEF FileAt
  <2> QED
    BY <2>2 DEF Unused
<1>2. CASE tmp # None
  BY <1>2 DEF FileAt, TypeOK
<1> QED
  BY <1>1, <1>2

LEMMA InitType == ASSUME Init PROVE TypeOK
<1>1. data \in [Inodes -> Seq(Blocks)]
  BY DEF Init
<1>2. saver \in [Savers -> SaverType]
  BY VersionsAssumption DEF Init, Idle, SaverType
<1> QED
  BY <1>1, <1>2, VersionsAssumption, CrashAssumption DEF Init, TypeOK, SaverType

LEMMA StepType == ASSUME TypeOK, StoreStep PROVE TypeOK'
<1>0. saver \in [Savers -> SaverType] /\ data \in [Inodes -> Seq(Blocks)]
  BY DEF TypeOK, SaverType
<1>1. CASE Change
  BY <1>1, VersionsAssumption DEF Change, files, TypeOK
<1>2. CASE Crash \/ (Dies /\ UNCHANGED crashes)
  <2>1. saver' \in [Savers -> SaverType]
    BY <1>2, VersionsAssumption DEF Crash, Dies, Idle, SaverType
  <2>2. crashes' \in 0..CrashBound
    BY <1>2, CrashAssumption DEF Crash, TypeOK
  <2> QED
    BY <1>2, <2>1, <2>2, DiesType DEF Crash, Dies, TypeOK, SaverType
<1>3. CASE LoadSession
  <2>1. version' \in 0..Versions
    <3>1. CASE Whole(Stored) /\ version' = Stored[1]
      <4>1. PICK v \in 0..Versions : Stored = Snapshot(v)
        BY <3>1 DEF Whole
      <4>2. Stored \in Seq(Blocks) /\ Len(Stored) >= 1
        BY <4>1, SnapshotType
      <4>3. Stored[1] \in Blocks
        BY <4>2
      <4> QED
        BY <3>1, <4>3 DEF Blocks
    <3> QED
      BY <1>3, <3>1, VersionsAssumption DEF LoadSession, TypeOK
  <2> QED
    BY <1>3, <2>1 DEF LoadSession, files, TypeOK
<1>4. ASSUME NEW p \in Savers, SaveSession(p) PROVE TypeOK'
  <2>1. saver' \in [Savers -> SaverType]
    BY <1>0, <1>4 DEF SaveSession, SaverType, TypeOK
  <2> QED
    BY <1>4, <2>1 DEF SaveSession, Begun, files, TypeOK, SaverType
<1>5. ASSUME NEW p \in Savers, OpenTmp(p) PROVE TypeOK'
  <2> DEFINE f == FileAt(tmp)
  <2>1. /\ tmp' = f /\ data' = [data EXCEPT ![f] = <<>>]
        /\ saver' = [saver EXCEPT ![p].pc = "write", ![p].file = f]
    BY <1>5 DEF OpenTmp
  <2>2. f \in Inodes
    BY <1>5, OpensInode
  <2> HIDE DEF f
  <2>3. saver' \in [Savers -> SaverType]
    BY <1>0, <2>1, <2>2 DEF SaverType
  <2>4. data' \in [Inodes -> Seq(Blocks)]
    BY <1>0, <2>1, <2>2
  <2> QED
    BY <1>5, <2>1, <2>2, <2>3, <2>4 DEF OpenTmp, TypeOK, SaverType
<1>6. ASSUME NEW p \in Savers, WriteTmp(p) PROVE TypeOK'
  <2>1. saver[p] \in SaverType
    BY <1>0
  <2>2. ASSUME saver[p].file \in Inodes
        PROVE  Over(Snapshot(saver[p].v), data[saver[p].file]) \in Seq(Blocks)
    BY <1>0, <2>1, <2>2, SnapshotType, OverType DEF SaverType
  <2>3. data' \in [Inodes -> Seq(Blocks)]
    BY <1>0, <1>6, <2>2 DEF WriteTmp
  <2>4. saver' \in [Savers -> SaverType]
    BY <1>0, <1>6 DEF WriteTmp, SaverType
  <2> QED
    BY <1>6, <2>3, <2>4 DEF WriteTmp, TypeOK, SaverType
<1>7. ASSUME NEW p \in Savers, Rename(p) PROVE TypeOK'
  <2>1. saver' \in [Savers -> SaverType]
    BY <1>0, <1>7, VersionsAssumption DEF Rename, Idle, SaverType
  <2>2. saver[p].v \in 0..Versions
    BY <1>0 DEF SaverType
  <2>3. data' \in [Inodes -> Seq(Blocks)]
    <3>1. \A f \in Inodes : (IF f = path THEN <<>> ELSE data[f]) \in Seq(Blocks)
      BY <1>0
    <3> QED
      BY <1>0, <1>7, <3>1 DEF Rename, files
  <2>4. /\ path' \in Inodes \cup {None} /\ tmp' \in Inodes \cup {None}
        /\ acked' \in 0..Versions
    BY <1>7, <2>2 DEF Rename, files, TypeOK
  <2>5. UNCHANGED <<version, daemon, crashes, overlapped>>
    BY <1>7 DEF Rename
  <2> QED
    BY <2>1, <2>3, <2>4, <2>5 DEF TypeOK, SaverType
<1>8. CASE UNCHANGED vars
  BY <1>8 DEF vars, files, TypeOK
<1> QED
  BY <1>1, <1>2, <1>3, <1>4, <1>5, <1>6, <1>7, <1>8 DEF StoreStep, Next

\* Every variable keeps its type.
THEOREM TypeCorrect == Spec => []TypeOK
<1>1. TypeOK /\ [Next]_vars => TypeOK'
  BY StepType DEF StoreStep
<1> QED
  BY <1>1, InitType, PTL DEF Spec

-----------------------------------------------------------------------------
(* Saves that do not overlap. *)

\* The file being written is not the session file, and it is complete before it is renamed.
Apart == path # None => path # tmp
Sole == \A p, q \in Savers : saver[p].pc # "idle" /\ saver[q].pc # "idle" => p = q
Prepared ==
    \A p \in Savers :
       /\ saver[p].pc = "write" => /\ tmp # None /\ saver[p].file = tmp
                                  /\ data[tmp] = <<>>
       /\ saver[p].pc = "rename" => tmp # None /\ data[tmp] = Snapshot(saver[p].v)
StoreInv == ~overlapped => NeverTorn /\ Apart /\ Sole /\ Prepared

LEMMA SaverKeepsStore ==
    ASSUME TypeOK, StoreInv, ~overlapped, ~overlapped', NEW p \in Savers,
           SaveSession(p) \/ OpenTmp(p) \/ WriteTmp(p) \/ Rename(p)
    PROVE  StoreInv'
<1>0. saver \in [Savers -> SaverType] /\ data \in [Inodes -> Seq(Blocks)]
      /\ tmp \in Inodes \cup {None} /\ path \in Inodes \cup {None}
      /\ NeverTorn /\ Apart /\ Sole /\ Prepared
  BY DEF TypeOK, SaverType, StoreInv
<1>1. CASE SaveSession(p)
  <2>1. \A q \in Savers : saver[q].pc = "idle"
    BY <1>1 DEF SaveSession, Begun
  <2>2. \A q \in Savers \ {p} : saver'[q].pc = "idle"
    BY <1>0, <1>1, <2>1 DEF SaveSession, SaverType
  <2>3. saver'[p].pc = "open"
    BY <1>0, <1>1 DEF SaveSession, SaverType
  <2>4. Sole' /\ Prepared'
    BY <2>2, <2>3 DEF Sole, Prepared
  <2> QED
    BY <1>0, <1>1, <2>4 DEF SaveSession, files, StoreInv, NeverTorn, Apart
<1>2. CASE OpenTmp(p)
  <2> DEFINE f == FileAt(tmp)
  <2>1. tmp' = f /\ data' = [data EXCEPT ![f] = <<>>] /\ path' = path
        /\ saver' = [saver EXCEPT ![p].pc = "write", ![p].file = f]
    BY <1>2 DEF OpenTmp
  <2>2. f \in Inodes /\ f # None /\ f # path
    <3>1. f \in Inodes /\ (tmp = None => f # path)
      BY <1>2, OpensInode
    <3>2. tmp # None => f = tmp
      BY DEF FileAt
    <3> QED
      BY <1>0, <3>1, <3>2, InodesAssumption DEF Apart
  <2> HIDE DEF f
  <2>3. \A q \in Savers \ {p} : saver[q].pc = "idle" /\ saver'[q] = saver[q]
    BY <1>0, <1>2, <2>1 DEF OpenTmp, At, Sole
  <2>4. saver'[p].pc = "write" /\ saver'[p].file = f
    BY <1>0, <2>1 DEF SaverType
  <2>5. Sole' /\ Prepared'
    BY <1>0, <2>1, <2>2, <2>3, <2>4 DEF Prepared, Sole
  <2>6. NeverTorn'
    BY <1>0, <2>1, <2>2 DEF NeverTorn
  <2> QED
    BY <2>1, <2>2, <2>5, <2>6 DEF StoreInv, Apart
<1>3. CASE WriteTmp(p)
  <2>1. /\ saver[p].file = tmp /\ tmp \in Inodes /\ tmp # path
        /\ data[tmp] = <<>> /\ saver[p].v \in 0..Versions
    BY <1>0, <1>3 DEF WriteTmp, At, Prepared, Apart, SaverType
  <2>2. data' = [data EXCEPT ![tmp] = Snapshot(saver[p].v)]
    BY <1>3, <2>1, SnapshotType, OverEmpty DEF WriteTmp
  <2>3. saver' = [saver EXCEPT ![p].pc = "rename", ![p].file = None]
        /\ path' = path /\ tmp' = tmp
    BY <1>3 DEF WriteTmp
  <2>4. \A q \in Savers \ {p} : saver[q].pc = "idle" /\ saver'[q] = saver[q]
    BY <1>0, <1>3, <2>3 DEF WriteTmp, At, Sole
  <2>5. saver'[p].pc = "rename" /\ saver'[p].v = saver[p].v
    BY <1>0, <2>3 DEF SaverType
  <2>6. Sole' /\ Prepared'
    BY <1>0, <2>1, <2>2, <2>3, <2>4, <2>5, InodesAssumption DEF Prepared, Sole
  <2>7. NeverTorn'
    BY <1>0, <2>1, <2>2, <2>3 DEF NeverTorn
  <2> QED
    BY <1>0, <2>3, <2>6, <2>7 DEF StoreInv, Apart
<1>4. CASE Rename(p)
  <2>1. /\ tmp # None /\ tmp # path /\ tmp \in Inodes
        /\ data[tmp] = Snapshot(saver[p].v) /\ saver[p].v \in 0..Versions
    BY <1>0, <1>4, InodesAssumption DEF Rename, At, Prepared, Apart, SaverType
  <2>2. saver' = [saver EXCEPT ![p] = Idle] /\ path' = tmp /\ tmp' = None
        /\ data'[tmp] = data[tmp]
    BY <1>4, <2>1 DEF Rename
  <2>3. \A q \in Savers : saver'[q].pc = "idle"
    BY <1>0, <1>4, <2>2 DEF Rename, At, Sole, Idle
  <2>4. NeverTorn'
    BY <2>1, <2>2 DEF NeverTorn, Whole
  <2> QED
    BY <2>2, <2>3, <2>4 DEF StoreInv, Apart, Prepared, Sole
<1> QED
  BY <1>1, <1>2, <1>3, <1>4

\* A death tears at most the file that is being written.
LEMMA DeathSparesPath ==
    ASSUME TypeOK, StoreInv, Dies, ~overlapped, path # None
    PROVE  data'[path] = data[path]
<1>1. PICK done \in [{p \in Savers : saver[p].pc = "write"} -> 0..Versions + 1] :
          data' = [f \in Inodes |->
                     LET writing == {p \in Savers : saver[p].pc = "write" /\ saver[p].file = f}
                     IN IF writing = {} THEN data[f]
                        ELSE LET p == CHOOSE q \in writing : TRUE
                             IN Over(Prefix(Snapshot(saver[p].v), done[p]), data[f])]
  BY DEF Dies
<1>2. {p \in Savers : saver[p].pc = "write" /\ saver[p].file = path} = {}
  BY DEF StoreInv, Prepared, Apart
<1>3. path \in Inodes
  BY DEF TypeOK
<1> QED
  BY <1>1, <1>2, <1>3

LEMMA DeathKeepsStore ==
    ASSUME TypeOK, StoreInv, Dies
    PROVE  StoreInv'
<1>1. path' = path /\ tmp' = tmp /\ overlapped' = overlapped
      /\ \A p \in Savers : saver'[p].pc = "idle"
  BY DEF Dies, Idle
<1> QED
  BY <1>1, DeathSparesPath DEF StoreInv, NeverTorn, Apart, Prepared, Sole

LEMMA InitStore == ASSUME Init PROVE StoreInv
BY DEF Init, StoreInv, NeverTorn, Apart, Prepared, Sole, Idle

LEMMA StepStore == ASSUME TypeOK, StoreInv, StoreStep PROVE StoreInv'
<1>1. CASE Change \/ LoadSession \/ UNCHANGED vars
  BY <1>1 DEF Change, LoadSession, vars, files, StoreInv, NeverTorn, Apart, Prepared, Sole
<1>2. ASSUME NEW p \in Savers, SaveSession(p) \/ OpenTmp(p) \/ WriteTmp(p) \/ Rename(p)
      PROVE  StoreInv'
  <2>1. overlapped => overlapped'
    BY <1>2 DEF SaveSession, Begun, OpenTmp, WriteTmp, Rename
  <2>2. overlapped \in BOOLEAN /\ overlapped' \in BOOLEAN
    BY <1>2 DEF TypeOK, SaveSession, Begun, OpenTmp, WriteTmp, Rename
  <2> QED
    BY <1>2, <2>1, <2>2, SaverKeepsStore DEF StoreInv
<1>3. CASE Crash \/ Dies
  BY <1>3, DeathKeepsStore DEF Crash
<1> QED
  BY <1>1, <1>2, <1>3 DEF StoreStep, Next

\* While saves do not overlap each works on a file of its own until it renames it.
THEOREM StoreInvariant == Spec => []StoreInv
<1>1. TypeOK /\ StoreInv /\ [Next]_vars => StoreInv'
  BY StepStore DEF StoreStep
<1> QED
  BY <1>1, InitStore, TypeCorrect, PTL DEF Spec

\* As long as saves do not overlap, however many goroutines save, the session file is one
\* whole snapshot, wherever the process dies.
THEOREM SerialSavesNeverTear == Spec => []NeverTorn
<1>1. StoreInv => NeverTorn
  BY DEF StoreInv, NeverTorn
<1> QED
  BY <1>1, StoreInvariant, PTL

-----------------------------------------------------------------------------
(* What a Save has reported as written is what the session file holds. *)

AckedKept == acked > 0 => path # None /\ data[path] = Snapshot(acked)
KeptInv == ~overlapped => AckedKept

LEMMA SaverKeepsAcked ==
    ASSUME TypeOK, StoreInv, AckedKept, ~overlapped, NEW p \in Savers,
           SaveSession(p) \/ OpenTmp(p) \/ WriteTmp(p) \/ Rename(p)
    PROVE  AckedKept'
<1>0. saver \in [Savers -> SaverType] /\ data \in [Inodes -> Seq(Blocks)]
      /\ tmp \in Inodes \cup {None} /\ path \in Inodes \cup {None}
      /\ Apart /\ Prepared
  BY DEF TypeOK, SaverType, StoreInv
<1>1. CASE SaveSession(p)
  BY <1>1 DEF SaveSession, files, AckedKept
<1>2. CASE OpenTmp(p)
  <2> DEFINE f == FileAt(tmp)
  <2>1. data' = [data EXCEPT ![f] = <<>>] /\ path' = path /\ acked' = acked
    BY <1>2 DEF OpenTmp
  <2>2. f # path \/ path = None
    <3>1. f \in Inodes /\ (tmp = None => f # path)
      BY <1>2, OpensInode
    <3>2. tmp # None => f = tmp
      BY DEF FileAt
    <3> QED
      BY <1>0, <3>1, <3>2 DEF Apart
  <2> HIDE DEF f
  <2> QED
    BY <1>0, <2>1, <2>2 DEF AckedKept
<1>3. CASE WriteTmp(p)
  <2>1. saver[p].file = tmp /\ (path # None => tmp # path)
    BY <1>0, <1>3 DEF WriteTmp, At, Prepared, Apart
  <2>2. path' = path /\ acked' = acked
        /\ data' = [data EXCEPT ![tmp] = Over(Snapshot(saver[p].v), data[tmp])]
    BY <1>3, <2>1 DEF WriteTmp
  <2> QED
    BY <1>0, <2>1, <2>2 DEF AckedKept
<1>4. CASE Rename(p)
  <2>1. tmp # None /\ tmp # path /\ tmp \in Inodes /\ data[tmp] = Snapshot(saver[p].v)
    BY <1>0, <1>4, InodesAssumption DEF Rename, At, Prepared, Apart
  <2>2. path' = tmp /\ acked' = saver[p].v /\ data'[tmp] = data[tmp]
    BY <1>4, <2>1 DEF Rename
  <2> QED
    BY <2>1, <2>2 DEF AckedKept
<1> QED
  BY <1>1, <1>2, <1>3, <1>4

LEMMA StepAcked == ASSUME TypeOK, StoreInv, KeptInv, StoreStep PROVE KeptInv'
<1>1. CASE Change \/ LoadSession \/ UNCHANGED vars
  BY <1>1 DEF Change, LoadSession, vars, files, KeptInv, AckedKept
<1>2. CASE Crash \/ Dies
  <2>1. Dies /\ path' = path /\ acked' = acked /\ overlapped' = overlapped
    BY <1>2 DEF Crash, Dies
  <2> QED
    BY <2>1, DeathSparesPath DEF KeptInv, AckedKept
<1>3. ASSUME NEW p \in Savers, SaveSession(p) \/ OpenTmp(p) \/ WriteTmp(p) \/ Rename(p)
      PROVE  KeptInv'
  <2>1. overlapped => overlapped'
    BY <1>3 DEF SaveSession, Begun, OpenTmp, WriteTmp, Rename
  <2>2. ASSUME ~overlapped PROVE AckedKept'
    BY <1>3, <2>2, SaverKeepsAcked DEF KeptInv
  <2> QED
    BY <2>1, <2>2 DEF KeptInv
<1> QED
  BY <1>1, <1>2, <1>3 DEF StoreStep, Next

LEMMA AckedIsStored == ASSUME TypeOK, KeptInv PROVE SavedIsKept
<1> SUFFICES ASSUME AckedKept, acked > 0 PROVE Stored # <<>> /\ Stored[1] >= acked
  BY DEF KeptInv, SavedIsKept
<1>1. acked \in 0..Versions /\ Stored = Snapshot(acked)
  BY DEF TypeOK, AckedKept, Stored
<1>2. TaskCount[acked] \in Nat
  BY <1>1, VersionsAssumption
<1>3. Snapshot(acked)[1] = acked /\ Len(Snapshot(acked)) >= 1
  BY <1>1, <1>2, SnapshotType DEF Snapshot
<1> QED
  BY <1>1, <1>3

\* As long as saves do not overlap, what a restart finds is never older than the last
\* save that was reported as done, wherever the process dies.
THEOREM SerialSavesAreKept == Spec => []SavedIsKept
<1>1. Init => KeptInv
  BY DEF Init, KeptInv, AckedKept
<1>2. TypeOK /\ StoreInv /\ KeptInv /\ [Next]_vars => KeptInv'
  BY StepAcked DEF StoreStep
<1> QED
  BY <1>1, <1>2, AckedIsStored, TypeCorrect, StoreInvariant, PTL DEF Spec

-----------------------------------------------------------------------------
(* The daemon over the store. *)

LEMMA DaemonStepsStore == ASSUME DaemonNext \/ UNCHANGED daemonVars PROVE StoreStep
<1>1. Clients \subseteq Savers /\ Loops \subseteq Savers /\ "main" \in Savers
  BY SaversAssumption
<1>2. ASSUME NEW c \in Clients,
             \/ Receive(c) \/ Dispatch(c) \/ ChangeRefused(c) \/ BeginChange(c) \/ BeginSave(c)
             \/ CallFails(c) \/ CallSaves(c) \/ CallReturns(c) \/ CallFillsSlots(c)
             \/ ShutdownCall(c) \/ SaverWrites(c)
      PROVE  StoreStep
  BY <1>1, <1>2 DEF StoreStep, Next, Receive, Dispatch, ChangeRefused, BeginChange, BeginSave,
                    CallFails, CallSaves, Snapshots, CallReturns, CallFillsSlots, ShutdownCall,
                    SaverWrites
<1>3. ASSUME NEW p \in Loops, LoopSaves(p) \/ SaverWrites(p) PROVE StoreStep
  BY <1>1, <1>3 DEF StoreStep, Next, LoopSaves, Snapshots, SaverWrites
<1>4. CASE Progress \/ BootJob \/ Killed \/ Restart
  BY <1>4 DEF StoreStep, Next, Progress, BootJob, Killed, Restart
<1>5. CASE TorrentStarts \/ Signal \/ \E force \in BOOLEAN : Hook(force)
  BY <1>5 DEF StoreStep, TorrentStarts, Signal, Hook
<1>6. CASE MainStep
  BY <1>1, <1>6 DEF StoreStep, Next, MainStep, Serve, GracefulShutdown, ForcedShutdown, Drained,
                    DrainTimesOut, ServerShut, BootSaves, BootSaved, CloseSaves, Closed, Exit,
                    Snapshots, SaverWrites
<1>7. CASE UNCHANGED daemonVars
  BY <1>7 DEF StoreStep, daemonVars
<1> QED
  BY <1>2, <1>3, <1>4, <1>5, <1>6, <1>7 DEF DaemonNext

\* The daemon keeps the types of the store.
THEOREM DaemonStoreTypes == DaemonSpec => []TypeOK
<1>1. DaemonInit => TypeOK
  BY InitType DEF DaemonInit
<1>2. TypeOK /\ [DaemonNext]_daemonVars => TypeOK'
  BY DaemonStepsStore, StepType
<1> QED
  BY <1>1, <1>2, PTL DEF DaemonSpec

LEMMA DaemonStore == DaemonSpec => []StoreInv
<1>1. DaemonInit => StoreInv
  BY InitStore DEF DaemonInit
<1>2. TypeOK /\ StoreInv /\ [DaemonNext]_daemonVars => StoreInv'
  BY DaemonStepsStore, StepStore
<1> QED
  BY <1>1, <1>2, DaemonStoreTypes, PTL DEF DaemonSpec

\* However the daemon's requests, loops, startup and exit take turns at saving, the session
\* file is a whole snapshot unless two saves have overlapped.
THEOREM DaemonNeverTears == DaemonSpec => []NeverTorn
<1>1. StoreInv => NeverTorn
  BY DEF StoreInv, NeverTorn
<1> QED
  BY <1>1, DaemonStore, PTL

\* A save that a client was told of outlives crashes and exits unless two have overlapped.
THEOREM DaemonKeepsSaved == DaemonSpec => []SavedIsKept
<1>1. DaemonInit => KeptInv
  BY DEF DaemonInit, Init, KeptInv, AckedKept
<1>2. TypeOK /\ StoreInv /\ KeptInv /\ [DaemonNext]_daemonVars => KeptInv'
  BY DaemonStepsStore, StepAcked
<1> QED
  BY <1>1, <1>2, AckedIsStored, DaemonStoreTypes, DaemonStore, PTL DEF DaemonSpec

-----------------------------------------------------------------------------
(* Where only one HTTP client at a time makes the daemon save. *)

\* What a client's goroutine is doing: it saves within a call, and a call within a request.
Clientele ==
    /\ request = [c \in Clients |-> request[c]]
    /\ frames = [c \in Clients |-> frames[c]]
    /\ call = [c \in Clients |-> call[c]]
    /\ \A c \in Clients :
          /\ saver[c].pc # "idle" => call[c] = "saving"
          /\ call[c] # "none" => request[c] # None
          /\ request[c] = None => frames[c] = <<>>
          /\ request[c] # None => config.sends[c] # {} /\ ~Booting

\* What the main goroutine and the loops are doing.
Staff ==
    /\ config \in Configs
    /\ saver["main"].pc # "idle" => main \in {"bootSaving", "closing"}
    /\ daemon # "up" => main = "boot"
    /\ config.loops = {} => \A p \in Loops : saver[p].pc = "idle"

\* Once the server has been shut down no request is left, and the last save is on its way.
Gone == main \in {"close", "closing", "exit"}
Leaving ==
    Quiet /\ Gone =>
       /\ \A c \in Clients : request[c] = None
       /\ atClose \in Nat /\ atClose <= version
       /\ main = "closing" => saver["main"].v >= atClose
       /\ main = "exit" => path # None /\ \E v \in atClose..Versions : data[path] = Snapshot(v)
Solo == Quiet => ~overlapped
DaemonInv == Clientele /\ Staff /\ Leaving /\ Solo

\* Nobody has two names.
LEMMA Names ==
    /\ \A c \in Clients : c # "main" /\ c \notin Loops
    /\ "main" \notin Loops /\ Savers = Clients \cup Loops \cup {"main"}
    /\ \A c \in HttpClients : c \notin SocketClients
BY SaversAssumption, ClientsAssumption DEF Loops

LEMMA AtMostOneUser ==
    ASSUME Quiet, NEW b \in Users, NEW c \in Users
    PROVE  b = c
<1>1. IsFiniteSet(Users)
  BY ClientsAssumption, FS_Subset DEF Users
<1>2. Cardinality(Users) \in Nat /\ Cardinality(Users) # 0
  BY <1>1, FS_CardinalityType, FS_EmptySet
<1>3. Cardinality(Users) = 1
  BY <1>2 DEF Quiet
<1> QED
  BY <1>1, <1>3, FS_Singleton

\* What a step of the RPC front does to the request and to the stack.
LEMMA ReceiveFront ==
    ASSUME Clientele, Staff, NEW c \in Clients, NEW body \in config.sends[c],
           Rpc!Receive(c, body) \/ Rpc!ReceiveXml(c, body)
    PROVE  /\ request[c] = None /\ request'[c] # None
           /\ request' = [request EXCEPT ![c] = request'[c]]
           /\ frames' = [frames EXCEPT ![c] = frames'[c]]
<1>1. body \in Bodies
  BY BodiesAssumption DEF Staff
<1>2. PICK b : Rpc!Receive(c, b) /\ b # None
  BY <1>1, BodiesAssumption DEF Rpc!ReceiveXml
<1> QED
  BY <1>2 DEF Rpc!Receive, Clientele

\* A step that serves a request leaves it alone, or it is the reply.
LEMMA DispatchFront ==
    ASSUME Clientele, NEW c \in Clients, Rpc!Dispatch(c)
    PROVE  /\ request[c] # None
           /\ request' = [request EXCEPT ![c] = request'[c]]
           /\ frames' = [frames EXCEPT ![c] = frames'[c]]
           /\ request'[c] # None \/ (request'[c] = None /\ frames'[c] = <<>>)
<1> DEFINE Work == \/ Rpc!Ignore(c) \/ Rpc!Refuse(c) \/ Rpc!Read(c) \/ Rpc!Multicall(c)
                   \/ Rpc!MulticallReturns(c)
<1>1. Work \/ Rpc!Reply(c)
  BY DEF Rpc!Dispatch
<1>2. frames[c] # <<>>
  <2>1. CASE Rpc!Ignore(c) \/ Rpc!Refuse(c) \/ Rpc!Read(c) \/ Rpc!Multicall(c)
    BY <2>1 DEF Rpc!Ignore, Rpc!Refuse, Rpc!Refused, Rpc!Read, Rpc!Executable, Rpc!Multicall,
                Rpc!Serving
  <2>2. CASE Rpc!MulticallReturns(c)
    <3>1. Len(frames[c]) > 1
      BY <2>2 DEF Rpc!MulticallReturns
    <3> QED
      BY <3>1
  <2>3. CASE Rpc!Reply(c)
    <3>1. Len(frames[c]) = 1
      BY <2>3 DEF Rpc!Reply
    <3> QED
      BY <3>1
  <2> QED
    BY <1>1, <2>1, <2>2, <2>3
<1>3. request[c] # None
  BY <1>2 DEF Clientele
<1>4. CASE Work
  <2>1. request' = request /\ \E stack : frames' = [frames EXCEPT ![c] = stack]
    <3>1. ASSUME NEW kind, Rpc!Answered(c, kind)
          PROVE  request' = request /\ \E stack : frames' = [frames EXCEPT ![c] = stack]
      BY <3>1 DEF Rpc!Answered
    <3>2. CASE Rpc!Ignore(c) \/ Rpc!Refuse(c) \/ Rpc!Read(c)
      BY <3>1, <3>2 DEF Rpc!Ignore, Rpc!Refuse, Rpc!Read
    <3>3. CASE Rpc!Multicall(c) \/ Rpc!MulticallReturns(c)
      BY <3>3 DEF Rpc!Multicall, Rpc!MulticallReturns
    <3> QED
      BY <1>4, <3>2, <3>3
  <2> QED
    BY <1>3, <2>1 DEF Clientele
<1>5. CASE Rpc!Reply(c)
  BY <1>3, <1>5 DEF Rpc!Reply, Clientele
<1> QED
  BY <1>1, <1>4, <1>5

\* A call that is carried out belongs to a request.
LEMMA ServedIsRequested ==
    ASSUME Clientele, NEW c \in Clients, NEW methods, Rpc!Executable(c, methods)
    PROVE  request[c] # None
BY DEF Clientele, Rpc!Executable, Rpc!Serving

\* As long as a request is there, only its client can be saving.
LEMMA ClientSavesAlone ==
    ASSUME Clientele, Staff, Leaving, Quiet, NEW c \in Clients, request[c] # None,
           NEW p \in Savers, saver[p].pc # "idle"
    PROVE  p = c
<1>1. CASE p \in Clients
  <2>1. request[p] # None /\ config.sends[p] # {} /\ config.sends[c] # {}
    BY <1>1 DEF Clientele
  <2> QED
    BY <1>1, <2>1, AtMostOneUser DEF Users
<1>2. CASE p = "main"
  BY <1>2 DEF Clientele, Staff, Leaving, Gone, Booting
<1>3. CASE p \in Loops
  BY <1>3 DEF Staff, Quiet
<1> QED
  BY <1>1, <1>2, <1>3, Names

\* No client is saving when the main goroutine does.
LEMMA MainSavesAlone ==
    ASSUME Clientele, Staff, Leaving, Quiet, main \in {"bootSave", "close"},
           NEW p \in Savers
    PROVE  saver[p].pc = "idle"
<1>1. CASE p \in Clients
  BY <1>1 DEF Clientele, Leaving, Gone, Booting
<1>2. CASE p = "main"
  BY <1>2 DEF Staff
<1>3. CASE p \in Loops
  BY <1>3 DEF Staff, Quiet
<1> QED
  BY <1>1, <1>2, <1>3, Names

\* A step of a client's connection that leaves the store and the call alone.
LEMMA FrontStep ==
    ASSUME DaemonInv, NEW c \in Clients,
           UNCHANGED <<vars, config, call, main, atClose, forced>>,
           request' = [request EXCEPT ![c] = request'[c]],
           frames' = [frames EXCEPT ![c] = frames'[c]],
           request'[c] = None => frames'[c] = <<>> /\ call[c] = "none",
           request'[c] # None => config.sends[c] # {} /\ ~Booting /\ ~(Quiet /\ Gone)
    PROVE  DaemonInv'
<1>0. Clientele /\ Staff /\ Leaving /\ Solo
  BY DEF DaemonInv
<1>1. /\ UNCHANGED <<config, call, main, atClose, forced, saver, daemon, overlapped, version>>
      /\ UNCHANGED <<path, data>>
  BY DEF vars, files
<1>2. Quiet' = Quiet /\ Booting' = Booting /\ Gone' = Gone
  BY <1>1 DEF Quiet, Users, Booting, Gone
<1>3. /\ request' = [x \in Clients |-> request'[x]] /\ frames' = [x \in Clients |-> frames'[x]]
      /\ \A x \in Clients \ {c} : request'[x] = request[x] /\ frames'[x] = frames[x]
  BY <1>0 DEF Clientele
<1>4. Clientele'
  <2>1. call' = [x \in Clients |-> call'[x]]
    BY <1>0, <1>1 DEF Clientele
  <2>2. ASSUME NEW x \in Clients
        PROVE  /\ saver'[x].pc # "idle" => call'[x] = "saving"
               /\ call'[x] # "none" => request'[x] # None
               /\ request'[x] = None => frames'[x] = <<>>
               /\ request'[x] # None => config'.sends[x] # {} /\ ~Booting'
    BY <1>0, <1>1, <1>2, <1>3 DEF Clientele
  <2> QED
    BY <1>3, <2>1, <2>2 DEF Clientele
<1>5. Staff'
  BY <1>0, <1>1 DEF Staff
<1>6. Leaving'
  <2> SUFFICES ASSUME Quiet, Gone PROVE Leaving'
    BY <1>2 DEF Leaving
  <2>1. \A x \in Clients : request'[x] = None
    BY <1>0, <1>3 DEF Leaving
  <2> QED
    BY <1>0, <1>1, <2>1 DEF Leaving
<1>7. Solo'
  BY <1>0, <1>1, <1>2 DEF Solo
<1> QED
  BY <1>4, <1>5, <1>6, <1>7 DEF DaemonInv

\* A step of a call that a client's goroutine carries out.
LEMMA CallStep ==
    ASSUME TypeOK, DaemonInv, NEW c \in Clients, request[c] # None,
           UNCHANGED <<config, request, main, atClose, forced, daemon>>,
           frames' = [frames EXCEPT ![c] = frames'[c]],
           call' = [call EXCEPT ![c] = call'[c]],
           saver' = [saver EXCEPT ![c] = saver'[c]],
           saver'[c].pc # "idle" => call'[c] = "saving",
           Quiet => ~overlapped'
    PROVE  DaemonInv'
<1>0. Clientele /\ Staff /\ Leaving /\ Solo
  BY DEF DaemonInv
<1>1. Quiet' = Quiet /\ Booting' = Booting /\ Gone' = Gone
  BY DEF Quiet, Users, Booting, Gone
<1>2. /\ frames' = [x \in Clients |-> frames'[x]] /\ call' = [x \in Clients |-> call'[x]]
      /\ \A x \in Clients \ {c} : call'[x] = call[x] /\ frames'[x] = frames[x]
  BY <1>0 DEF Clientele
<1>3. \A p \in Savers \ {c} : saver'[p] = saver[p]
  BY DEF TypeOK
<1>4. Clientele'
  <2>1. ASSUME NEW x \in Clients
        PROVE  /\ saver'[x].pc # "idle" => call'[x] = "saving"
               /\ call'[x] # "none" => request'[x] # None
               /\ request'[x] = None => frames'[x] = <<>>
               /\ request'[x] # None => config'.sends[x] # {} /\ ~Booting'
    BY <1>0, <1>1, <1>2, <1>3, Names DEF Clientele
  <2>2. request' = [x \in Clients |-> request'[x]]
    BY <1>0 DEF Clientele
  <2> QED
    BY <1>2, <2>1, <2>2 DEF Clientele
<1>5. Staff'
  <2>1. saver'["main"] = saver["main"] /\ \A p \in Loops : saver'[p] = saver[p]
    BY <1>3, Names
  <2> QED
    BY <1>0, <2>1 DEF Staff
<1>6. Leaving'
  BY <1>0, <1>1 DEF Leaving
<1>7. Solo'
  BY <1>1 DEF Solo
<1> QED
  BY <1>4, <1>5, <1>6, <1>7 DEF DaemonInv

LEMMA ClientKeeps ==
    ASSUME TypeOK, DaemonInv, NEW c \in Clients,
           \/ Receive(c) \/ Dispatch(c) \/ ChangeRefused(c) \/ BeginChange(c) \/ BeginSave(c)
           \/ CallFails(c) \/ CallSaves(c) \/ CallReturns(c) \/ CallFillsSlots(c)
           \/ ShutdownCall(c) \/ SaverWrites(c)
    PROVE  DaemonInv'
<1>0. Clientele /\ Staff /\ Leaving /\ Solo
  BY DEF DaemonInv
<1>1. c \in Savers /\ saver \in [Savers -> SaverType]
  BY Names DEF TypeOK, SaverType
<1>2. CASE Receive(c)
  <2>1. PICK body \in config.sends[c] :
               Rpc!Receive(c, body) \/ (c \in HttpClients /\ Rpc!ReceiveXml(c, body))
    BY <1>2 DEF Receive
  <2>2. /\ Free(c)
        /\ main = "serve" \/ (c \in SocketClients /\ ~Booting)
        /\ UNCHANGED <<vars, config, call, control>>
    BY <1>2 DEF Receive
  <2>3. ~Booting
    BY <2>2 DEF Booting
  <2>4. ~(Quiet /\ Gone)
    <3>1. SUFFICES ASSUME Quiet PROVE main = "serve"
      BY DEF Gone
    <3>2. c \in Users
      BY <2>1 DEF Users
    <3> QED
      BY <2>2, <3>1, <3>2, Names DEF Quiet
  <2> QED
    BY <1>0, <2>1, <2>2, <2>3, <2>4, ReceiveFront, FrontStep DEF control
<1>3. CASE Dispatch(c)
  <2>1. Free(c) /\ Rpc!Dispatch(c) /\ UNCHANGED <<vars, config, call, control>>
    BY <1>3 DEF Dispatch
  <2>2. request[c] # None
    BY <1>0, <2>1, DispatchFront
  <2>3. config.sends[c] # {} /\ ~Booting /\ ~(Quiet /\ Gone)
    BY <1>0, <2>2 DEF Clientele, Leaving
  <2> QED
    BY <1>0, <2>1, <2>3, DispatchFront, FrontStep DEF control, Free
<1>4. CASE ChangeRefused(c) \/ ShutdownCall(c)
  <2>1. PICK methods : Rpc!Executable(c, methods)
    BY <1>4 DEF ChangeRefused, ShutdownCall
  <2>2. request[c] # None
    BY <1>0, <2>1, ServedIsRequested
  <2>3. config.sends[c] # {} /\ ~Booting /\ ~(Quiet /\ Gone)
    BY <1>0, <2>2 DEF Clientele, Leaving
  <2>4. /\ UNCHANGED <<vars, config, call, main, atClose, forced, request>>
        /\ \E stack : frames' = [frames EXCEPT ![c] = stack]
    BY <1>4 DEF ChangeRefused, ShutdownCall, Rpc!Answered, control
  <2>5. frames' = [frames EXCEPT ![c] = frames'[c]]
        /\ request' = [request EXCEPT ![c] = request'[c]]
    BY <1>0, <2>4 DEF Clientele
  <2> QED
    BY <2>2, <2>3, <2>4, <2>5, FrontStep
<1>5. CASE BeginChange(c) \/ BeginSave(c)
  <2>1. PICK methods : Rpc!Executable(c, methods)
    BY <1>5 DEF BeginChange, BeginSave
  <2>2. request[c] # None
    BY <1>0, <2>1, ServedIsRequested
  <2>3. /\ UNCHANGED <<config, request, frames, main, atClose, forced, daemon, saver, overlapped>>
        /\ call[c] = "none" /\ call' = [call EXCEPT ![c] = "changed"]
    BY <1>5 DEF BeginChange, BeginSave, Change, Calls, Free, control, vars
  <2>4. /\ frames' = [frames EXCEPT ![c] = frames'[c]]
        /\ saver' = [saver EXCEPT ![c] = saver'[c]] /\ call'[c] = "changed"
        /\ saver'[c].pc = "idle"
    BY <1>0, <1>1, <2>3 DEF Clientele
  <2>5. call' = [call EXCEPT ![c] = call'[c]] /\ (Quiet => ~overlapped')
    BY <1>0, <2>3, <2>4 DEF Solo
  <2> QED
    BY <2>2, <2>3, <2>4, <2>5, CallStep
<1>6. CASE CallSaves(c)
  <2>1. request[c] # None
    BY <1>0, <1>6 DEF CallSaves, Clientele
  <2>2. /\ UNCHANGED <<config, request, frames, main, atClose, forced, daemon>>
        /\ saver[c].pc = "idle" /\ call' = [call EXCEPT ![c] = "saving"]
        /\ \E s : saver' = [saver EXCEPT ![c] = s]
        /\ overlapped' = (overlapped \/ \E q \in Savers : saver[q].pc # "idle")
    BY <1>6 DEF CallSaves, Snapshots, SaveSession, At, Begun, Calls, control
  <2>3. Quiet => ~overlapped'
    BY <1>0, <2>1, <2>2, ClientSavesAlone DEF Solo
  <2>4. /\ frames' = [frames EXCEPT ![c] = frames'[c]]
        /\ saver' = [saver EXCEPT ![c] = saver'[c]] /\ call'[c] = "saving"
        /\ call' = [call EXCEPT ![c] = call'[c]]
    BY <1>0, <1>1, <2>2 DEF Clientele
  <2> QED
    BY <2>1, <2>2, <2>3, <2>4, CallStep
<1>7. CASE CallReturns(c) \/ CallFillsSlots(c)
  <2>1. /\ UNCHANGED <<config, request, main, atClose, forced, daemon, overlapped>>
        /\ saver[c].pc = "rename" /\ \E step : call' = [call EXCEPT ![c] = step]
        /\ frames' = frames \/ \E stack : frames' = [frames EXCEPT ![c] = stack]
        /\ saver' = [saver EXCEPT ![c] = Idle]
    <3>1. CASE CallReturns(c)
      BY <3>1 DEF CallReturns, Rename, At, Rpc!Answered, Calls, control
    <3>2. CASE CallFillsSlots(c)
      BY <3>2 DEF CallFillsSlots, Rename, At, Calls, control
    <3> QED
      BY <1>7, <3>1, <3>2
  <2>2. request[c] # None
    BY <1>0, <2>1 DEF Clientele
  <2>3. /\ frames' = [frames EXCEPT ![c] = frames'[c]]
        /\ saver' = [saver EXCEPT ![c] = saver'[c]] /\ saver'[c].pc = "idle"
        /\ call' = [call EXCEPT ![c] = call'[c]]
    BY <1>0, <1>1, <2>1 DEF Clientele, Idle
  <2> QED
    BY <1>0, <2>1, <2>2, <2>3, CallStep DEF Solo
<1>8. CASE SaverWrites(c)
  <2>1. /\ UNCHANGED <<config, request, frames, call, main, atClose, forced, daemon, overlapped>>
        /\ saver[c].pc # "idle" /\ \E s : saver' = [saver EXCEPT ![c] = s]
    BY <1>1, <1>8 DEF SaverWrites, OpenTmp, WriteTmp, At, front, control
  <2>2. request[c] # None /\ call[c] = "saving"
    BY <1>0, <2>1 DEF Clientele
  <2>3. /\ frames' = [frames EXCEPT ![c] = frames'[c]]
        /\ saver' = [saver EXCEPT ![c] = saver'[c]]
        /\ call' = [call EXCEPT ![c] = call'[c]]
    BY <1>0, <1>1, <2>1 DEF Clientele
  <2> QED
    BY <1>0, <2>1, <2>2, <2>3, CallStep DEF Solo
<1>9. CASE CallFails(c)
  <2>1. /\ UNCHANGED <<vars, config, request, main, atClose, forced>>
        /\ call[c] = "changed" /\ call' = [call EXCEPT ![c] = "none"]
        /\ \E stack : frames' = [frames EXCEPT ![c] = stack]
    BY <1>9 DEF CallFails, Changing, Rpc!Answered, Calls, control
  <2>2. UNCHANGED <<daemon, saver, overlapped>>
    BY <2>1 DEF vars
  <2>3. request[c] # None /\ saver[c].pc = "idle"
    BY <1>0, <2>1 DEF Clientele
  <2>4. /\ frames' = [frames EXCEPT ![c] = frames'[c]]
        /\ saver' = [saver EXCEPT ![c] = saver'[c]] /\ saver'[c].pc = "idle"
        /\ call' = [call EXCEPT ![c] = call'[c]]
    BY <1>0, <1>1, <2>1, <2>2, <2>3 DEF Clientele
  <2> QED
    BY <1>0, <2>1, <2>2, <2>3, <2>4, CallStep DEF Solo
<1> QED
  BY <1>2, <1>3, <1>4, <1>5, <1>6, <1>7, <1>8, <1>9

\* The clients' side of a step of anybody else.
LEMMA ClienteleStays ==
    ASSUME Clientele, UNCHANGED front, \A c \in Clients : saver'[c] = saver[c],
           Booting' => Booting
    PROVE  Clientele'
BY DEF Clientele, front

LEMMA LoopKeeps ==
    ASSUME TypeOK, DaemonInv, NEW p \in Loops, LoopSaves(p) \/ SaverWrites(p)
    PROVE  DaemonInv'
<1>0. Clientele /\ Staff /\ saver \in [Savers -> SaverType] /\ p \in Savers
  BY Names DEF DaemonInv, TypeOK, SaverType
<1>1. /\ UNCHANGED front /\ UNCHANGED control /\ daemon' = daemon
      /\ \E s : saver' = [saver EXCEPT ![p] = s]
  BY DEF LoopSaves, Snapshots, SaverWrites, SaveSession, Rename, OpenTmp, WriteTmp
<1>2. config.loops # {}
  <2>1. CASE LoopSaves(p)
    BY <2>1 DEF LoopSaves
  <2>2. CASE SaverWrites(p)
    BY <1>0, <2>2 DEF SaverWrites, OpenTmp, WriteTmp, At, Staff
  <2> QED
    BY <2>1, <2>2
<1>3. ~Quiet' /\ config' = config /\ main' = main
  BY <1>1, <1>2 DEF Quiet, front, control
<1>4. (\A c \in Clients : saver'[c] = saver[c]) /\ saver'["main"] = saver["main"]
  BY <1>0, <1>1, Names
<1>5. Clientele'
  BY <1>0, <1>1, <1>3, <1>4, ClienteleStays DEF Booting
<1>6. Staff'
  BY <1>0, <1>1, <1>2, <1>3, <1>4 DEF Staff
<1> QED
  BY <1>3, <1>5, <1>6 DEF DaemonInv, Leaving, Solo

\* The main goroutine goes on while the store stays as it is.
LEMMA MainMoves ==
    ASSUME DaemonInv, UNCHANGED vars, UNCHANGED front, daemon = "up",
           saver["main"].pc = "idle", ~Booting',
           Quiet' => Quiet,
           Quiet' /\ Gone' => /\ main' = "close" /\ atClose' = version /\ version \in Nat
                              /\ \A c \in Clients : request[c] = None
    PROVE  DaemonInv'
<1>0. Clientele /\ Staff /\ Leaving /\ Solo
  BY DEF DaemonInv
<1>1. UNCHANGED <<version, saver, daemon, overlapped, config, request>>
  BY DEF vars, front
<1>2. Clientele'
  BY <1>0, <1>1, ClienteleStays
<1>3. Staff'
  BY <1>0, <1>1 DEF Staff
<1>4. Leaving' /\ Solo'
  BY <1>0, <1>1 DEF Leaving, Solo
<1> QED
  BY <1>2, <1>3, <1>4 DEF DaemonInv

\* The main goroutine starts a save.
LEMMA MainBegins ==
    ASSUME TypeOK, DaemonInv, SaveSession("main"), UNCHANGED front,
           UNCHANGED <<atClose, forced>>,
           \/ main = "bootSave" /\ main' = "bootSaving"
           \/ main = "close" /\ main' = "closing"
    PROVE  DaemonInv'
<1>0. Clientele /\ Staff /\ Leaving /\ Solo
  BY DEF DaemonInv
<1>1. "main" \in Savers /\ saver \in [Savers -> SaverType] /\ version \in 0..Versions
  BY Names DEF TypeOK, SaverType
<1>2. /\ saver' = [saver EXCEPT !["main"] = [pc |-> "open", v |-> version, file |-> None]]
      /\ UNCHANGED <<version, daemon, config, request>> /\ daemon = "up"
      /\ overlapped' = (overlapped \/ \E q \in Savers : saver[q].pc # "idle")
  BY DEF SaveSession, At, Begun, front
<1>3. Quiet' = Quiet
  BY <1>2 DEF Quiet, Users
<1>4. /\ \A p \in Savers \ {"main"} : saver'[p] = saver[p]
      /\ saver'["main"].v = version
  BY <1>1, <1>2
<1>5. Clientele'
  <2>1. \A c \in Clients : saver'[c] = saver[c]
    BY <1>4, Names
  <2> QED
    BY <1>0, <2>1, ClienteleStays DEF Booting
<1>6. Staff'
  BY <1>0, <1>2, <1>4, Names DEF Staff
<1>7. Leaving'
  BY <1>0, <1>2, <1>3, <1>4 DEF Leaving, Gone
<1>8. Solo'
  BY <1>0, <1>2, <1>3, MainSavesAlone DEF Solo
<1> QED
  BY <1>5, <1>6, <1>7, <1>8 DEF DaemonInv

\* The main goroutine has saved.
LEMMA MainReturns ==
    ASSUME TypeOK, StoreInv, DaemonInv, Rename("main"), UNCHANGED front,
           UNCHANGED <<atClose, forced>>,
           \/ main = "bootSaving" /\ main' = "boot"
           \/ main = "closing" /\ main' = "exit"
    PROVE  DaemonInv'
<1>0. Clientele /\ Staff /\ Leaving /\ Solo
  BY DEF DaemonInv
<1>1. "main" \in Savers /\ saver \in [Savers -> SaverType] /\ saver["main"] \in SaverType
      /\ data \in [Inodes -> Seq(Blocks)] /\ tmp \in Inodes \cup {None}
  BY Names DEF TypeOK, SaverType
<1>2. /\ saver' = [saver EXCEPT !["main"] = Idle]
      /\ UNCHANGED <<version, daemon, overlapped, config, request>> /\ daemon = "up"
      /\ saver["main"].pc = "rename"
  BY DEF Rename, At, front
<1>3. Quiet' = Quiet
  BY <1>2 DEF Quiet, Users
<1>4. (\A p \in Savers \ {"main"} : saver'[p] = saver[p]) /\ saver'["main"].pc = "idle"
  BY <1>1, <1>2 DEF Idle
<1>5. Clientele'
  <2>1. \A c \in Clients : saver'[c] = saver[c]
    BY <1>4, Names
  <2> QED
    BY <1>0, <2>1, ClienteleStays DEF Booting
<1>6. Staff'
  BY <1>0, <1>2, <1>4, Names DEF Staff
<1>7. Leaving'
  <2> SUFFICES ASSUME Quiet, main = "closing", main' = "exit" PROVE Leaving'
    BY <1>3 DEF Leaving, Gone
  <2>1. ~overlapped
    BY <1>0 DEF Solo
  <2>2. /\ tmp # None /\ tmp # path /\ data[tmp] = Snapshot(saver["main"].v)
        /\ tmp \in Inodes
    BY <1>1, <1>2, <2>1, InodesAssumption DEF StoreInv, Prepared, Apart
  <2>3. path' = tmp /\ data'[tmp] = data[tmp]
    BY <2>2 DEF Rename
  <2>4. saver["main"].v \in 0..Versions /\ saver["main"].v >= atClose /\ atClose \in Nat
    BY <1>0, <1>1 DEF Leaving, Gone, SaverType
  <2>5. saver["main"].v \in atClose..Versions
    BY <2>4, VersionsAssumption
  <2> QED
    BY <1>0, <1>2, <1>3, <2>2, <2>3, <2>5 DEF Leaving, Gone
<1>8. Solo'
  BY <1>0, <1>2, <1>3 DEF Solo
<1> QED
  BY <1>5, <1>6, <1>7, <1>8 DEF DaemonInv

\* The main goroutine writes path.tmp.
LEMMA MainWrites ==
    ASSUME TypeOK, DaemonInv, SaverWrites("main")
    PROVE  DaemonInv'
<1>0. Clientele /\ Staff /\ Leaving /\ Solo
  BY DEF DaemonInv
<1>1. "main" \in Savers /\ saver \in [Savers -> SaverType]
  BY Names DEF TypeOK, SaverType
<1>2. UNCHANGED front /\ UNCHANGED control /\ UNCHANGED <<version, daemon, overlapped>>
      /\ saver["main"].pc # "idle"
  BY DEF SaverWrites, OpenTmp, WriteTmp, At
<1>3. /\ \A p \in Savers \ {"main"} : saver'[p] = saver[p]
      /\ saver'["main"].v = saver["main"].v
  <2>1. CASE OpenTmp("main")
    <3>1. PICK f : saver' = [saver EXCEPT !["main"].pc = "write", !["main"].file = f]
      BY <2>1 DEF OpenTmp
    <3> QED
      BY <1>1, <3>1 DEF SaverType
  <2>2. CASE WriteTmp("main")
    BY <1>1, <2>2 DEF WriteTmp, SaverType
  <2> QED
    BY <2>1, <2>2 DEF SaverWrites
<1>4. Quiet' = Quiet /\ main' = main /\ config' = config
  BY <1>2 DEF Quiet, Users, front, control
<1>5. Clientele'
  <2>1. \A c \in Clients : saver'[c] = saver[c]
    BY <1>3, Names
  <2> QED
    BY <1>0, <1>2, <1>4, <2>1, ClienteleStays DEF Booting
<1>6. Staff'
  BY <1>0, <1>2, <1>3, <1>4, Names DEF Staff
<1>7. Leaving'
  <2>1. main # "exit"
    BY <1>0, <1>2 DEF Staff
  <2>2. UNCHANGED <<request, atClose, version>>
    BY <1>2 DEF front, control
  <2> QED
    BY <1>0, <1>3, <1>4, <2>1, <2>2 DEF Leaving, Gone
<1>8. Solo'
  BY <1>0, <1>2, <1>4 DEF Solo
<1> QED
  BY <1>5, <1>6, <1>7, <1>8 DEF DaemonInv

\* The process has ended.
LEMMA DeathKeeps == ASSUME DaemonInv, Dies, Reset PROVE DaemonInv'
<1>1. /\ \A p \in Savers : saver'[p].pc = "idle"
      /\ overlapped' = overlapped /\ daemon' = "down"
  BY DEF Dies, Idle
<1>2. /\ request' = [c \in Clients |-> None] /\ frames' = [c \in Clients |-> <<>>]
      /\ call' = [c \in Clients |-> "none"]
      /\ main' = "boot" /\ config' = config /\ forced' = forced
  BY DEF Reset, Rpc!Hangup
<1>3. Clientele'
  BY <1>1, <1>2, Names DEF Clientele
<1>4. Staff'
  BY <1>1, <1>2, Names DEF Staff, DaemonInv
<1>5. Leaving'
  BY <1>2 DEF Leaving, Gone
<1>6. Solo'
  BY <1>1, <1>2 DEF Solo, DaemonInv, Quiet, Users
<1> QED
  BY <1>3, <1>4, <1>5, <1>6 DEF DaemonInv

\* Downloads go on, hooks send, and a daemon that is down starts again.
LEMMA RestKeeps ==
    ASSUME TypeOK, DaemonInv, UNCHANGED front, UNCHANGED <<main, atClose, forced>>,
           Change \/ LoadSession \/ UNCHANGED vars
    PROVE  DaemonInv'
<1>0. Clientele /\ Staff /\ Leaving /\ Solo
  BY DEF DaemonInv
<1>1. /\ UNCHANGED <<saver, overlapped, path, data, config, request>>
      /\ daemon' = daemon \/ daemon = "down"
      /\ version' = version \/ version' = version + 1 \/ daemon = "down"
  BY DEF Change, LoadSession, vars, files, front
<1>2. Quiet' = Quiet /\ Gone' = Gone
  BY <1>1 DEF Quiet, Users, Gone
<1>3. Clientele'
  BY <1>0, <1>1, ClienteleStays DEF Booting
<1>4. Staff'
  BY <1>0, <1>1 DEF Staff
<1>5. Leaving'
  <2> SUFFICES ASSUME Quiet, Gone PROVE Leaving'
    BY <1>2 DEF Leaving
  <2>1. version \in Nat /\ (version' = version \/ version' = version + 1)
    BY <1>0, <1>1, VersionsAssumption DEF Staff, Gone, TypeOK
  <2>2. atClose \in Nat /\ atClose <= version
    BY <1>0 DEF Leaving
  <2>3. atClose' \in Nat /\ atClose' <= version'
    BY <2>1, <2>2
  <2> QED
    BY <1>0, <1>1, <2>3 DEF Leaving
<1>6. Solo'
  BY <1>0, <1>1, <1>2 DEF Solo
<1> QED
  BY <1>3, <1>4, <1>5, <1>6 DEF DaemonInv

\* A Start that does not come back.
LEMMA StickKeeps ==
    ASSUME TypeOK, DaemonInv, TorrentStarts PROVE DaemonInv'
<1>1. UNCHANGED <<vars, config, request, frames, main, atClose, forced>>
  BY DEF TorrentStarts, control
<1>2. UNCHANGED <<version, path, data, saver, daemon, overlapped>>
  BY <1>1 DEF vars, files
<1>3. CASE call' = call
  <2>1. Clientele' /\ Staff'
    BY <1>1, <1>2, <1>3 DEF DaemonInv, Clientele, Staff, Booting
  <2>2. Leaving' /\ Solo'
    BY <1>1, <1>2 DEF DaemonInv, Leaving, Solo, Quiet, Users, Gone
  <2> QED
    BY <2>1, <2>2 DEF DaemonInv
<1>4. ASSUME NEW c \in Clients, Changing(c), Calls(c, "stuck") PROVE DaemonInv'
  <2>1. Clientele /\ Solo /\ call[c] = "changed" /\ call' = [call EXCEPT ![c] = "stuck"]
    BY <1>4 DEF DaemonInv, Changing, Calls
  <2>2. request[c] # None /\ saver[c].pc = "idle"
    BY <2>1 DEF Clientele
  <2>3. /\ frames' = [frames EXCEPT ![c] = frames'[c]]
        /\ saver' = [saver EXCEPT ![c] = saver'[c]] /\ saver'[c].pc = "idle"
        /\ call' = [call EXCEPT ![c] = call'[c]]
    BY <1>1, <1>2, <2>1, <2>2, Names DEF Clientele, TypeOK
  <2>4. Quiet => ~overlapped'
    BY <1>2, <2>1 DEF Solo
  <2> QED
    BY <1>1, <1>2, <2>2, <2>3, <2>4, CallStep
<1> QED
  BY <1>3, <1>4 DEF TorrentStarts

LEMMA InitDaemon == ASSUME DaemonInit PROVE DaemonInv
<1>1. /\ request = [c \in Clients |-> None] /\ frames = [c \in Clients |-> <<>>]
      /\ call = [c \in Clients |-> "none"]
      /\ \A p \in Savers : saver[p].pc = "idle"
  BY DEF DaemonInit, Rpc!RpcInit, Init, Idle
<1>2. Clientele
  BY <1>1, Names DEF Clientele
<1>3. Staff
  BY <1>1, Names DEF Staff, DaemonInit, Init
<1> QED
  BY <1>2, <1>3 DEF DaemonInv, Leaving, Gone, Solo, DaemonInit, Init

LEMMA StepDaemon ==
    ASSUME TypeOK, StoreInv, DaemonInv, DaemonNext \/ UNCHANGED daemonVars
    PROVE  DaemonInv'
<1>0. Staff /\ version \in Nat
  BY VersionsAssumption DEF DaemonInv, TypeOK
<1>1. ASSUME NEW c \in Clients,
             \/ Receive(c) \/ Dispatch(c) \/ ChangeRefused(c) \/ BeginChange(c) \/ BeginSave(c)
             \/ CallFails(c) \/ CallSaves(c) \/ CallReturns(c) \/ CallFillsSlots(c)
             \/ ShutdownCall(c) \/ SaverWrites(c)
      PROVE  DaemonInv'
  BY <1>1, ClientKeeps
<1>2. ASSUME NEW p \in Loops, LoopSaves(p) \/ SaverWrites(p) PROVE DaemonInv'
  BY <1>2, LoopKeeps
<1>3. CASE Progress
  BY <1>3, RestKeeps DEF Progress, control
<1>4. ASSUME NEW force \in BOOLEAN, Hook(force) PROVE DaemonInv'
  BY <1>4, RestKeeps DEF Hook
<1>5. CASE Restart
  BY <1>5, RestKeeps DEF Restart, control
<1>6. CASE BootJob
  <2>1. /\ Change /\ UNCHANGED front /\ main = "boot" /\ main' = "bootSave"
        /\ UNCHANGED <<atClose, forced>>
    BY <1>6 DEF BootJob, MainTo
  <2>2. UNCHANGED <<saver, daemon, overlapped, config>> /\ daemon = "up"
    BY <2>1 DEF Change, front
  <2>3. Clientele'
    BY <2>1, <2>2, ClienteleStays DEF DaemonInv, Booting
  <2>4. Staff'
    BY <1>0, <2>1, <2>2 DEF Staff
  <2>5. Leaving' /\ Solo'
    BY <2>1, <2>2 DEF Leaving, Gone, Solo, DaemonInv, Quiet, Users
  <2> QED
    BY <2>3, <2>4, <2>5 DEF DaemonInv
<1>7. CASE Serve \/ GracefulShutdown \/ Signal
  <2>1. /\ UNCHANGED vars /\ UNCHANGED front /\ UNCHANGED forced /\ daemon = "up"
        /\ main \in {"boot", "serve"} /\ main' \in {"serve", "drain"}
    BY <1>7 DEF Serve, GracefulShutdown, Signal, MainTo
  <2>2. saver["main"].pc = "idle"
    BY <1>0, <2>1 DEF Staff
  <2>3. Quiet' = Quiet
    BY <2>1 DEF Quiet, Users, front
  <2> QED
    BY <2>1, <2>2, <2>3, MainMoves DEF Booting, Gone
<1>8. CASE ForcedShutdown
  <2>1. /\ UNCHANGED vars /\ UNCHANGED front /\ forced' /\ daemon = "up"
        /\ main = "serve" /\ main' = "close"
    BY <1>8 DEF ForcedShutdown
  <2>2. saver["main"].pc = "idle"
    BY <1>0, <2>1 DEF Staff
  <2> QED
    BY <2>1, <2>2, MainMoves DEF Booting, Quiet
<1>9. CASE Drained \/ DrainTimesOut
  <2>1. /\ UNCHANGED vars /\ UNCHANGED front /\ UNCHANGED forced /\ daemon = "up"
        /\ main = "drain" /\ main' \in {"close", "exitUnsaved"} /\ atClose' = version
        /\ main' = "close" => \A c \in HttpClients : request[c] = None
    BY <1>9 DEF Drained, DrainTimesOut, ServerShut
  <2>2. saver["main"].pc = "idle"
    BY <1>0, <2>1 DEF Staff
  <2>3. Quiet' = Quiet
    BY <2>1 DEF Quiet, Users, front
  <2>4. Quiet /\ main' = "close" => \A c \in Clients : request[c] = None
    BY <2>1 DEF DaemonInv, Clientele, Quiet, Users
  <2> QED
    BY <1>0, <2>1, <2>2, <2>3, <2>4, MainMoves DEF Booting, Gone
<1>10. CASE BootSaves \/ CloseSaves
  BY <1>10, MainBegins DEF BootSaves, CloseSaves, Snapshots, MainTo
<1>11. CASE BootSaved \/ Closed
  BY <1>11, MainReturns DEF BootSaved, Closed, MainTo
<1>12. CASE Exit \/ Killed
  BY <1>12, DeathKeeps DEF Exit, Killed, Crash
<1>13. CASE SaverWrites("main")
  BY <1>13, MainWrites
<1>14. CASE UNCHANGED daemonVars
  BY <1>14, RestKeeps DEF daemonVars, control
<1>15. CASE TorrentStarts
  BY <1>15, StickKeeps
<1> QED
  BY <1>1, <1>2, <1>3, <1>4, <1>5, <1>6, <1>7, <1>8, <1>9, <1>10, <1>11, <1>12, <1>13, <1>14, <1>15
  DEF DaemonNext, MainStep

\* A save is part of a call, a call of a request, and a drained server has none left.
THEOREM DaemonInvariant == DaemonSpec => []DaemonInv
<1>1. TypeOK /\ StoreInv /\ DaemonInv /\ [DaemonNext]_daemonVars => DaemonInv'
  BY StepDaemon
<1> QED
  BY <1>1, InitDaemon, DaemonStoreTypes, DaemonStore, PTL DEF DaemonSpec

\* Where only one HTTP client makes the daemon save, no two saves overlap, and an exit after
\* a drain that was not cut short leaves a whole session file with all that had happened
\* when the server had been shut down.
THEOREM ExitIsOrderly == DaemonSpec => []OrderlyExit
<1>1. TypeOK /\ DaemonInv => OrderlyExit
  <2> SUFFICES ASSUME TypeOK, Leaving, Solo PROVE OrderlyExit
    BY DEF DaemonInv
  <2>1. ASSUME Quiet, main = "exit" PROVE Kept
    <3>1. PICK v \in atClose..Versions : path # None /\ data[path] = Snapshot(v)
      BY <2>1 DEF Leaving, Gone
    <3>2. atClose \in Nat /\ v \in 0..Versions /\ v >= atClose
      BY <2>1, <3>1, VersionsAssumption DEF Leaving, Gone
    <3>3. Stored = Snapshot(v) /\ Snapshot(v)[1] = v
      BY <3>1, <3>2, SnapshotType DEF Stored, Snapshot
    <3> QED
      BY <3>2, <3>3 DEF Kept, Whole
  <2>2. QuietSavesAlone
    BY DEF Solo, QuietSavesAlone
  <2> QED
    BY <2>1, <2>2 DEF OrderlyExit, CleanExit
<1> QED
  BY <1>1, DaemonStoreTypes, DaemonInvariant, PTL

\* As long as saves do not overlap the daemon starts again after every crash and every exit.
THEOREM DaemonStarts == DaemonSpec => [](~overlapped => AlwaysStarts)
<1> DEFINE Starts == ~overlapped => daemon # "failed"
<1>1. DaemonInit => Starts
  BY DEF DaemonInit, Init
<1>2. TypeOK /\ StoreInv /\ Starts /\ [DaemonNext]_daemonVars => Starts'
  <2> SUFFICES ASSUME TypeOK, StoreInv, Starts, StoreStep, ~overlapped' PROVE daemon' # "failed"
    BY DaemonStepsStore
  <2>1. CASE LoadSession
    <3>1. ~overlapped
      BY <2>1 DEF LoadSession
    <3>2. Stored = <<>> \/ Whole(Stored)
      BY <3>1 DEF StoreInv, NeverTorn, Stored
    <3> QED
      BY <2>1, <3>2 DEF LoadSession
  <2>2. CASE Change \/ UNCHANGED vars
    BY <2>2 DEF Change, vars
  <2>3. CASE Crash \/ Dies
    BY <2>3 DEF Crash, Dies
  <2>4. ASSUME NEW p \in Savers, SaveSession(p) \/ OpenTmp(p) \/ WriteTmp(p) \/ Rename(p)
        PROVE  daemon' # "failed"
    BY <2>4 DEF SaveSession, OpenTmp, WriteTmp, Rename, At
  <2> QED
    BY <2>1, <2>2, <2>3, <2>4 DEF StoreStep, Next
<1>3. Starts => (~overlapped => AlwaysStarts)
  BY DEF AlwaysStarts
<1> QED
  BY <1>1, <1>2, <1>3, DaemonStoreTypes, DaemonStore, PTL DEF DaemonSpec
==============================================================================
