------------------------- MODULE DirectDriverProofs -------------------------
(* Theorems about DirectDriver for any number of runs, blocks and mirrors.    *)
EXTENDS DirectDriver, SequenceTheorems, TLAPS

StateType == /\ kind \in KindNames /\ known \in BOOLEAN /\ status \in Statuses
             /\ running \in BOOLEAN /\ cancel \in Runs \cup {None} /\ removed \in BOOLEAN
UriType == mirrors \in 1..MaxMirrors /\ active \in Nat \ {0}

\* No run makes the target longer than the source.
FileType == file \in Seq(0..Total) /\ Len(file) <= Total

\* The mirrors are numbered from 1.
RunType == /\ run \in [Runs -> RunState]
           /\ \A r \in Runs : At(r, "loop") => run[r].i # 0
TypeInv == StateType /\ UriType /\ FileType /\ RunType

\* Only a removed task has a target that is yet to be deleted.
PathInv == unlink \in BOOLEAN /\ moved \in BOOLEAN /\ (unlink => removed)

LEMMA TypeInvImplies == TypeInv /\ PathInv => TypeOK
BY DEF TypeInv, StateType, UriType, FileType, RunType, PathInv, TypeOK

-----------------------------------------------------------------------------
(* The files that the operators make. *)

LEMMA WholeType == Whole \in Seq(0..Total) /\ Len(Whole) = Total
BY ShapeAssumption DEF Whole

LEMMA PrefixType ==
    ASSUME NEW n \in 0..Total
    PROVE  /\ Prefix(n) \in Seq(0..Total) /\ Len(Prefix(n)) = n
           /\ \A k \in 1..n : Prefix(n)[k] = k
BY WholeType, ShapeAssumption DEF Prefix, Whole

LEMMA IsWhole ==
    ASSUME FileType, Len(file) = Total, \A k \in 1..Total : file[k] = k
    PROVE  file = Whole
BY WholeType, SeqEqual, ShapeAssumption DEF FileType, Whole

\* The file that PrepareDownloadFile leaves is the old one, an empty one, or one of zeros.
LEMMA PreparedType ==
    ASSUME FileType, NEW resume \in BOOLEAN, NEW sized \in BOOLEAN, NEW prealloc \in BOOLEAN,
           NEW f, f = PrepareDownloadFile(resume, sized, prealloc)
    PROVE  /\ f \in Seq(0..Total) /\ Len(f) <= Total
           /\ resume => f = file
           /\ ~resume /\ sized => f = <<>> \/ Len(f) = Total
<1>1. Total \in Nat
  BY ShapeAssumption
<1>2. \/ f = file /\ (resume \/ ~sized)
      \/ f = [b \in 1..Total |-> 0] /\ ~resume
      \/ f = <<>> /\ ~resume
  BY DEF PrepareDownloadFile
<1>3. CASE f = file /\ (resume \/ ~sized)
  BY <1>3 DEF FileType
<1>4. CASE f = [b \in 1..Total |-> 0] /\ ~resume
  BY <1>1, <1>4
<1>5. CASE f = <<>> /\ ~resume
  BY <1>1, <1>5
<1> QED
  BY <1>2, <1>3, <1>4, <1>5

LEMMA EmptyType == ASSUME FileType, file' = file \/ file' = <<>> PROVE FileType'
<1>1. Total \in Nat
  BY ShapeAssumption
<1>2. CASE file' = <<>>
  BY <1>1, <1>2 DEF FileType
<1> QED
  BY <1>2 DEF FileType

LEMMA PutType ==
    ASSUME FileType, NEW r \in Runs, NEW at \in Int, at <= Total, NEW b \in 0..Total
    PROVE  LET f == Put(r, at, b)
           IN /\ f \in Seq(0..Total) /\ Len(f) <= Total
              /\ ~run[r].attached => f = file
              /\ run[r].attached =>
                    /\ Len(f) = IF at > Len(file) THEN at ELSE Len(file)
                    /\ \A k \in 1..Len(f) :
                          f[k] = IF k = at THEN b ELSE IF k <= Len(file) THEN file[k] ELSE 0
<1>1. CASE ~run[r].attached
  BY <1>1 DEF Put, FileType
<1>2. CASE run[r].attached
  <2> DEFINE n == IF at > Len(file) THEN at ELSE Len(file)
             f == [k \in 1..n |-> IF k = at THEN b ELSE IF k <= Len(file) THEN file[k] ELSE 0]
  <2>1. n \in 0..Total /\ file \in Seq(0..Total)
    BY ShapeAssumption DEF FileType
  <2>2. f \in Seq(0..Total) /\ Len(f) = n
    BY <2>1, ShapeAssumption
  <2>3. Put(r, at, b) = f
    BY <1>2 DEF Put
  <2> QED
    BY <1>2, <2>1, <2>2, <2>3
<1> QED
  BY <1>1, <1>2

-----------------------------------------------------------------------------
(* Type correctness. *)

LEMMA CancelType ==
    ASSUME NEW rs \in [Runs -> RunState], NEW c
    PROVE  /\ Cancel(rs, c) \in [Runs -> RunState]
           /\ \A r \in Runs :
                 /\ Cancel(rs, c)[r].cancelled = (rs[r].cancelled \/ r = c)
                 /\ \A x \in {"pc", "i", "existing", "sized", "offset", "written", "attached"} :
                       Cancel(rs, c)[r][x] = rs[r][x]
BY DEF Cancel, RunState

LEMMA UnlinkedType ==
    ASSUME NEW rs \in [Runs -> RunState]
    PROVE  /\ Unlinked(rs) \in [Runs -> RunState]
           /\ \A r \in Runs :
                 \A x \in {"pc", "i", "existing", "sized", "offset", "written", "cancelled"} :
                    Unlinked(rs)[r][x] = rs[r][x]
BY DEF Unlinked, RunState

\* What a run is after it left an endpoint, or is over.
LEMMA LeftType ==
    ASSUME RunType, NEW r \in Runs
    PROVE  /\ \A step \in Steps :
                 /\ Left(r, step) \in RunState
                 /\ Left(r, step).pc = step /\ Left(r, step).i = run[r].i
                 /\ Left(r, step).cancelled = run[r].cancelled
                 /\ Left(r, step).offset = run[r].offset
           /\ Over(r) \in RunState /\ Over(r).pc = "done" /\ Over(r).offset = run[r].offset
<1>1. run[r] \in RunState /\ NewRun \in RunState
  BY ShapeAssumption DEF RunType, NewRun, RunState, Steps
<1> QED
  BY <1>1 DEF Left, Over, RunState, Steps

LEMMA GotoType ==
    ASSUME RunType, NEW r \in Runs, NEW step \in Steps, step # "loop", Goto(r, step)
    PROVE  RunType'
BY DEF RunType, Goto, RunState, At

LEMMA LeaveType ==
    ASSUME RunType, NEW r \in Runs, NEW step \in Steps, step # "loop", Leave(r, step)
    PROVE  RunType'
BY LeftType DEF RunType, Leave, At

LEMMA FailType ==
    ASSUME StateType, RunType, NEW r \in Runs, Fail(r) \/ PauseAfterCancel(r)
    PROVE  status' \in Statuses /\ running' \in BOOLEAN /\ RunType'
BY LeaveType DEF StateType, Fail, PauseAfterCancel, SetStatus, StopsRunning, Statuses, Steps

LEMMA ReloadedType == ASSUME TypeInv, Reloaded PROVE TypeInv'
<1>1. \A r \in Runs : run'[r] \in {run[r], Over(r)}
  BY DEF Reloaded
<1>2. RunType'
  BY <1>1, LeftType DEF TypeInv, RunType, Reloaded, At
<1> QED
  BY <1>2 DEF TypeInv, Reloaded, StateType, UriType, FileType

LEMMA StartType == ASSUME TypeInv, Start PROVE TypeInv'
<1>1. CASE running
  BY <1>1 DEF Start, TypeInv, StateType, UriType, FileType, RunType, At, uriVars
<1>2. CASE ~running
  <2>1. PICK r \in Runs : cancel' = r /\ Goto(r, "look")
    BY <1>2 DEF Start
  <2>2. RunType'
    BY <2>1, GotoType DEF TypeInv, Steps
  <2> QED
    BY <1>2, <2>1, <2>2 DEF Start, TypeInv, StateType, UriType, FileType, Statuses, uriVars
<1> QED
  BY <1>1, <1>2

LEMMA PauseType == ASSUME TypeInv, PauseTask PROVE TypeInv'
<1>1. RunType'
  BY CancelType DEF TypeInv, RunType, PauseTask, At
<1> QED
  BY <1>1 DEF PauseTask, TypeInv, StateType, UriType, FileType, Statuses, uriVars

LEMMA ClientType == ASSUME TypeInv, Client PROVE TypeInv'
<1>1. CASE Add
  <2>1. file' \in Seq(0..Total) /\ Len(file') <= Total
    BY <1>1, PrefixType, ShapeAssumption DEF Add
  <2> QED
    BY <1>1, <2>1 DEF Add, TypeInv, StateType, UriType, FileType, RunType, At, Statuses, uriVars
<1>2. CASE Remove
  <2>1. RunType'
    BY <1>2, CancelType DEF Remove, TypeInv, RunType, At
  <2> QED
    BY <1>2, <2>1 DEF Remove, TypeInv, StateType, UriType, FileType, Statuses, uriVars
<1>3. CASE PurgeLocalState
  BY <1>3 DEF PurgeLocalState, TypeInv, StateType, UriType, FileType, RunType, At, uriVars
<1>4. CASE ChangeURI
  <2>1. UriType'
    BY <1>4, ShapeAssumption DEF ChangeURI, TypeInv, UriType
  <2> QED
    BY <1>4, <2>1 DEF ChangeURI, TypeInv, StateType, FileType, RunType, At, stateVars
<1>5. CASE Unlink \/ Rename
  <2>1. RunType' /\ FileType'
    BY <1>5, UnlinkedType, EmptyType DEF Unlink, Rename, NothingThere, TypeInv, RunType, At
  <2> QED
    BY <1>5, <2>1 DEF Unlink, Rename, TypeInv, StateType, UriType, stateVars, uriVars
<1> QED
  BY <1>1, <1>2, <1>3, <1>4, <1>5, StartType, PauseType, ReloadedType
     DEF Client, Pause, ChangeOption, LoadSessionTasks

\* MkdirAll, ShouldResetExistingFile and the first look at the target.
LEMMA ResetType ==
    ASSUME TypeInv, NEW r \in Runs, NEW m \in Modes, NEW step \in {"loop", "open"},
           NEW n \in 0..Total, NEW i \in Nat \ {0}, Reset(r, m, step, n, i)
    PROVE  /\ FileType' /\ RunType'
           /\ run'[r].pc = step /\ run'[r].existing = n /\ run'[r].cancelled = run[r].cancelled
           /\ \A q \in Runs \ {r} :
                 run'[q].pc = run[q].pc /\ run'[q].cancelled = run[q].cancelled
<1> DEFINE rs == IF file' # file THEN Unlinked(run) ELSE run
<1>1. /\ rs \in [Runs -> RunState]
      /\ \A q \in Runs : /\ rs[q].pc = run[q].pc /\ rs[q].i = run[q].i
                         /\ rs[q].cancelled = run[q].cancelled
  BY UnlinkedType DEF TypeInv, RunType
<1>2. run' = [rs EXCEPT ![r].existing = n, ![r].i = i, ![r].sized = (kind = "file"),
                        ![r].pc = step]
  BY DEF Reset
<1> HIDE DEF rs
<1>3. /\ run' \in [Runs -> RunState]
      /\ run'[r].pc = step /\ run'[r].existing = n /\ run'[r].cancelled = run[r].cancelled
      /\ run'[r].i = i
      /\ \A q \in Runs \ {r} : run'[q] = rs[q]
  <2>1. rs[r] \in RunState /\ (kind = "file") \in BOOLEAN /\ step \in Steps
    BY <1>1 DEF Steps
  <2>2. [rs[r] EXCEPT !.existing = n, !.i = i, !.sized = (kind = "file"), !.pc = step]
           \in RunState
    BY <2>1 DEF RunState
  <2> QED
    BY <1>1, <1>2, <2>1, <2>2 DEF RunState
<1>4. RunType'
  BY <1>1, <1>3 DEF RunType, TypeInv, At
<1>5. FileType'
  BY EmptyType DEF Reset, TypeInv
<1> QED
  BY <1>1, <1>3, <1>4, <1>5

LEMMA LookType == ASSUME TypeInv, NEW r \in Runs, Look(r) \/ LookCopy(r) PROVE TypeInv'
<1>0. StateType /\ UriType /\ FileType /\ RunType /\ Len(file) \in 0..Total /\ 0 \in 0..Total
  BY ShapeAssumption DEF TypeInv, FileType
<1>1. CASE Gone(r)
  <2>1. RunType'
    BY <1>0, <1>1, GotoType DEF Gone, Steps
  <2> QED
    BY <1>0, <1>1, <2>1 DEF Gone, Look, LookCopy, KeepAround, uriVars, TypeInv, StateType,
       UriType, FileType
<1>2. CASE Fail(r) /\ UNCHANGED file
  BY <1>0, <1>2, FailType DEF Look, LookCopy, KeepAround, uriVars, TypeInv, StateType,
     UriType, FileType
<1>3. ASSUME NEW m \in Modes, NEW step \in {"loop", "open"}, NEW n \in 0..Total,
             NEW i \in Nat \ {0}, Reset(r, m, step, n, i), UNCHANGED <<status, running>>
      PROVE  TypeInv'
  BY <1>0, <1>3, ResetType DEF Look, LookCopy, KeepAround, uriVars, TypeInv, StateType,
     UriType
<1>4. CASE Look(r)
  <2>1. (IF active \in 1..mirrors THEN active ELSE 1) \in Nat \ {0}
    BY <1>0 DEF UriType
  <2> QED
    BY <1>0, <1>1, <1>2, <1>3, <1>4, <2>1 DEF Look
<1>5. CASE LookCopy(r)
  <2>1. \A m \in Modes : (IF m = "overwrite" THEN 0 ELSE Len(file)) \in 0..Total
    BY <1>0
  <2> QED
    BY <1>0, <1>1, <1>2, <1>3, <1>5, <2>1 DEF LookCopy
<1> QED
  BY <1>4, <1>5

\* What Open decides.
Opening(r, mode, prealloc, offset) ==
    LET existing == IF kind = "file" THEN run[r].existing ELSE Len(file)
        resume == ShouldResumePartial(existing, run[r].sized, mode)
    IN /\ offset = IF resume THEN existing ELSE 0
       /\ file' = PrepareDownloadFile(resume, run[r].sized, prealloc)

LEMMA OpenType ==
    ASSUME TypeInv, NEW r \in Runs, Open(r)
    PROVE  \E mode \in Modes, prealloc \in Allocs, offset \in 0..Total :
              /\ Opening(r, mode, prealloc, offset)
              /\ \/ /\ run' = [run EXCEPT ![r].offset = offset, ![r].written = offset,
                                          ![r].attached = TRUE, ![r].pc = "check"]
                    /\ run'[r] = [run[r] EXCEPT !.offset = offset, !.written = offset,
                                                !.attached = TRUE, !.pc = "check"]
                 \/ Leave(r, "failed") /\ run'[r] = Left(r, "failed")
              /\ FileType' /\ RunType'
<1>0. run[r] \in RunState /\ Len(file) \in 0..Total /\ Total \in Nat /\ RunType /\ FileType
  BY ShapeAssumption DEF TypeInv, RunType, FileType
<1>1. PICK mode \in Modes, prealloc \in Allocs :
          LET existing == IF kind = "file" THEN run[r].existing ELSE Len(file)
              resume == ShouldResumePartial(existing, run[r].sized, mode)
              offset == IF resume THEN existing ELSE 0
          IN /\ file' = PrepareDownloadFile(resume, run[r].sized, prealloc)
             /\ \/ run' = [run EXCEPT ![r].offset = offset, ![r].written = offset,
                                      ![r].attached = TRUE, ![r].pc = "check"]
                \/ Leave(r, "failed")
  BY DEF Open
<1> DEFINE existing == IF kind = "file" THEN run[r].existing ELSE Len(file)
           resume == ShouldResumePartial(existing, run[r].sized, mode)
           offset == IF resume THEN existing ELSE 0
<1>2. existing \in 0..Total /\ run[r].sized \in BOOLEAN /\ prealloc \in BOOLEAN
  BY <1>0, ShapeAssumption DEF RunState
<1> HIDE DEF existing
<1>3. resume \in BOOLEAN /\ offset \in 0..Total
  BY <1>2, <1>0 DEF ShouldResumePartial
<1>4. Opening(r, mode, prealloc, offset)
  BY <1>1 DEF Opening, existing
<1>5. FileType'
  <2>1. file' = PrepareDownloadFile(resume, run[r].sized, prealloc)
    BY <1>1 DEF existing
  <2> HIDE DEF resume
  <2> QED
    BY <1>0, <1>2, <1>3, <2>1, PreparedType DEF FileType
<1> HIDE DEF resume
<1>6. \/ run' = [run EXCEPT ![r].offset = offset, ![r].written = offset,
                            ![r].attached = TRUE, ![r].pc = "check"]
      \/ Leave(r, "failed")
  BY <1>1 DEF existing, resume
<1> HIDE DEF offset
<1>7. CASE run' = [run EXCEPT ![r].offset = offset, ![r].written = offset,
                              ![r].attached = TRUE, ![r].pc = "check"]
  <2>1. /\ run' \in [Runs -> RunState]
        /\ run'[r] = [run[r] EXCEPT !.offset = offset, !.written = offset,
                                    !.attached = TRUE, !.pc = "check"]
        /\ \A q \in Runs \ {r} : run'[q] = run[q]
    BY <1>0, <1>3, <1>7 DEF RunType, RunState, Steps
  <2>2. RunType'
    BY <1>0, <2>1 DEF RunType, RunState, At
  <2> QED
    BY <1>3, <1>4, <1>5, <1>7, <2>1, <2>2
<1>8. CASE Leave(r, "failed")
  <2>1. RunType' /\ run'[r] = Left(r, "failed")
    BY <1>0, <1>8, LeaveType DEF Steps, Leave, RunType
  <2> QED
    BY <1>3, <1>4, <1>5, <1>8, <2>1
<1> QED
  BY <1>6, <1>7, <1>8

\* One more block was written.
LEMMA MoveType ==
    ASSUME TypeInv, NEW r \in Runs, run[r].written < Total, NEW at \in Int, at <= Total,
           file' = Put(r, at, run[r].written + 1),
           run' = [run EXCEPT ![r].written = @ + 1, ![r].pc = "check"]
    PROVE  /\ FileType' /\ RunType'
           /\ run'[r] = [run[r] EXCEPT !.written = run[r].written + 1, !.pc = "check"]
<1>1. run[r] \in RunState /\ run \in [Runs -> RunState] /\ Total \in Nat
  BY ShapeAssumption DEF TypeInv, RunType
<1>2. run[r].written \in Nat /\ run[r].written + 1 \in 0..Total
  BY <1>1 DEF RunState
<1>3. FileType'
  BY <1>2, PutType DEF TypeInv, FileType
<1>4. /\ run'[r] = [run[r] EXCEPT !.written = run[r].written + 1, !.pc = "check"]
      /\ run' \in [Runs -> RunState] /\ run'[r].pc = "check"
      /\ \A q \in Runs \ {r} : run'[q] = run[q]
  BY <1>1, <1>2 DEF RunState, Steps
<1>5. RunType'
  BY <1>4 DEF TypeInv, RunType, At
<1> QED
  BY <1>3, <1>4, <1>5

LEMMA DownloadType == ASSUME TypeInv, NEW r \in Runs, Download(r) PROVE TypeInv'
<1>0. /\ StateType /\ UriType /\ FileType /\ RunType /\ Total \in Nat
      /\ run \in [Runs -> RunState] /\ run[r] \in RunState
  BY ShapeAssumption DEF TypeInv, RunType
<1>1. CASE NextEndpoint(r)
  <2>1. CASE Goto(r, "connect") /\ run[r].i <= mirrors /\ UNCHANGED <<status, running>>
    <3>1. run[r].i \in Nat \ {0}
      BY <1>0, <1>1 DEF NextEndpoint, RunType, RunState
    <3>2. RunType' /\ UriType'
      BY <1>0, <1>1, <2>1, <3>1, GotoType DEF NextEndpoint, UriType, Steps
    <3> QED
      BY <1>0, <1>1, <2>1, <3>2
         DEF NextEndpoint, KeepAround, TypeInv, StateType, FileType
  <2>2. CASE run[r].i > mirrors /\ Fail(r) /\ UNCHANGED active
    BY <1>0, <1>1, <2>2, FailType
       DEF NextEndpoint, KeepAround, TypeInv, StateType, UriType, FileType
  <2>3. (Goto(r, "connect") /\ run[r].i <= mirrors /\ UNCHANGED <<status, running>>)
          \/ (run[r].i > mirrors /\ Fail(r) /\ UNCHANGED active)
    BY <1>1 DEF NextEndpoint
  <2> QED
    BY <2>1, <2>2, <2>3
<1>2. CASE FtpConnect(r) \/ SftpConnect(r)
  <2>1. CASE Leave(r, "failed")
    BY <1>0, <1>2, <2>1, LeaveType
       DEF FtpConnect, SftpConnect, stateVars, uriVars, TypeInv, StateType, UriType, FileType, Steps
  <2>2. ASSUME NEW sized \in BOOLEAN, run' = [run EXCEPT ![r].sized = sized, ![r].pc = "open"]
        PROVE  TypeInv'
    <3>1. RunType'
      BY <1>0, <2>2 DEF RunType, RunState, At, Steps
    <3> QED
      BY <1>0, <1>2, <3>1
         DEF FtpConnect, SftpConnect, stateVars, uriVars, TypeInv, StateType, UriType, FileType
  <2> QED
    BY <1>2, <2>1, <2>2 DEF FtpConnect, SftpConnect
<1>3. CASE Open(r)
  BY <1>0, <1>3, OpenType DEF Open, TypeInv, stateVars, uriVars, StateType, UriType
<1>4. CASE Check(r)
  <2>1. RunType' /\ status' \in Statuses /\ running' \in BOOLEAN
    BY <1>0, <1>4, FailType, GotoType, LeaveType DEF Check, Steps, StateType
  <2> QED
    BY <1>0, <1>4, <2>1
       DEF Check, KeepAround, uriVars, TypeInv, StateType, UriType, FileType
<1>5. CASE Transfer(r)
  <2>1. FileType' /\ RunType'
    <3>1. run[r].written + 1 \in Int /\ run[r].written + 1 <= Total
      BY <1>0, <1>5 DEF Transfer, RunState
    <3> QED
      BY <1>5, <3>1, MoveType DEF Transfer
  <2> QED
    BY <1>0, <1>5, <2>1
       DEF Transfer, KeepAround, uriVars, TypeInv, StateType, UriType, Statuses
<1>6. CASE Copy(r)
  <2>1. FileType' /\ RunType'
    <3>1. /\ run[r].written - run[r].offset + 1 \in Int
          /\ run[r].written - run[r].offset + 1 <= Total
      BY <1>0, <1>6 DEF Copy, RunState
    <3> QED
      BY <1>6, <3>1, MoveType DEF Copy
  <2> QED
    BY <1>0, <1>6, <2>1 DEF Copy, stateVars, uriVars, TypeInv, StateType, UriType
<1>7. CASE EndOfSource(r) \/ ReadFails(r)
  BY <1>0, <1>7, LeaveType
     DEF EndOfSource, ReadFails, stateVars, uriVars, TypeInv, StateType, UriType, FileType, Steps
<1>8. CASE EndpointFailed(r)
  <2>1. CASE Fail(r) \/ PauseAfterCancel(r)
    BY <1>0, <1>8, <2>1, FailType
       DEF EndpointFailed, KeepAround, uriVars, TypeInv, StateType, UriType, FileType
  <2>2. CASE run' = [run EXCEPT ![r].i = @ + 1, ![r].pc = "loop"] /\ UNCHANGED <<status, running>>
    <3>1. run[r].i + 1 \in Nat \ {0}
      BY <1>0 DEF RunState
    <3>2. run' \in [Runs -> RunState] /\ run'[r].i = run[r].i + 1 /\ \A q \in Runs \ {r} : run'[q] = run[q]
      BY <1>0, <2>2, <3>1 DEF RunState, Steps
    <3>3. RunType'
      BY <1>0, <3>1, <3>2 DEF RunType, At
    <3> QED
      BY <1>0, <3>3, <1>8, <2>2, <3>1
         DEF EndpointFailed, KeepAround, uriVars, TypeInv, StateType, UriType, FileType
  <2> QED
    BY <1>8, <2>1, <2>2 DEF EndpointFailed
<1>9. CASE Complete(r)
  BY <1>0, <1>9, LeaveType
     DEF Complete, SetStatus, StopsRunning, uriVars, TypeInv, StateType, UriType, FileType, Statuses, Steps
<1>10. CASE Exit(r)
  <2> DEFINE rs == [run EXCEPT ![r] = Over(r)]
  <2>1. /\ rs \in [Runs -> RunState]
        /\ \A q \in Runs : rs[q] = run[q] \/ rs[q].pc = "done"
    BY <1>0, LeftType
  <2>2. run' = rs \/ run' = Cancel(rs, cancel)
    BY <1>10 DEF Exit
  <2> HIDE DEF rs
  <2>3. ASSUME run' = rs PROVE RunType'
    BY <1>0, <2>1, <2>3 DEF RunType, At
  <2>4. ASSUME run' = Cancel(rs, cancel) PROVE RunType'
    BY <1>0, <2>1, <2>4, CancelType DEF RunType, At
  <2>5. RunType'
    BY <2>2, <2>3, <2>4
  <2> QED
    BY <1>0, <1>10, <2>5 DEF Exit, uriVars, TypeInv, StateType, UriType, FileType
<1> QED
  BY <1>1, <1>2, <1>3, <1>4, <1>5, <1>6, <1>7, <1>8, <1>9, <1>10, LookType, ReloadedType
     DEF Download, DownloadStep, IndexPanics

LEMMA TypeStep == TypeInv /\ [Next]_vars => TypeInv'
<1>1. ASSUME TypeInv, UNCHANGED vars PROVE TypeInv'
  BY <1>1 DEF vars, stateVars, uriVars, TypeInv, StateType, UriType, FileType, RunType, At
<1> QED
  BY <1>1, ClientType, DownloadType DEF Next

LEMMA TypeInit == Init => TypeInv
<1> SUFFICES ASSUME Init PROVE TypeInv
  OBVIOUS
<1>1. NewRun \in RunState /\ NewRun.pc = "new"
  BY ShapeAssumption DEF NewRun, RunState, Steps
<1>2. RunType
  BY <1>1 DEF Init, RunType, At
<1>3. FileType
  BY ShapeAssumption DEF Init, FileType
<1>4. StateType
  BY ShapeAssumption DEF Init, StateType, Statuses
<1>5. UriType
  BY ShapeAssumption DEF Init, UriType
<1> QED
  BY <1>2, <1>3, <1>4, <1>5 DEF TypeInv

LEMMA PathStep == PathInv /\ [Next]_vars => PathInv'
<1> SUFFICES ASSUME PathInv, [Next]_vars PROVE PathInv'
  OBVIOUS
<1>1. CASE Remove
  <2>1. PICK force \in BOOLEAN : unlink' = (unlink \/ force)
    BY <1>1 DEF Remove
  <2>2. removed' = TRUE /\ moved' = moved
    BY <1>1 DEF Remove
  <2>3. unlink' \in BOOLEAN
    BY <2>1
  <2> QED
    BY <2>2, <2>3 DEF PathInv
<1>2. CASE Unlink \/ Rename
  <2>1. CASE Unlink
    BY <2>1 DEF Unlink, stateVars, PathInv
  <2>2. CASE Rename
    <3>1. moved' = TRUE /\ unlink' = unlink /\ removed' = removed
      BY <2>2 DEF Rename, stateVars
    <3> QED
      BY <3>1 DEF PathInv
  <2> QED
    BY <1>2, <2>1, <2>2
<1>3. CASE Reloaded
  BY <1>3 DEF Reloaded, PathInv
<1>4. CASE Add \/ Start \/ PauseTask \/ PurgeLocalState \/ ChangeURI
  <2>1. /\ removed' = removed /\ unlink' = unlink
        /\ moved' = moved \/ moved' = FALSE
    BY <1>4 DEF Add, Start, PauseTask, PurgeLocalState, ChangeURI, stateVars, pathVars
  <2> QED
    BY <2>1 DEF PathInv
<1>5. ASSUME NEW r \in Runs, DownloadStep(r), UNCHANGED pathVars PROVE PathInv'
  <2>1. removed' = removed
    BY <1>5 DEF DownloadStep, Look, LookCopy, NextEndpoint, FtpConnect, SftpConnect, Open, Check,
       Transfer, Copy, EndOfSource, ReadFails, EndpointFailed, Complete, Exit, KeepAround,
       stateVars
  <2> QED
    BY <1>5, <2>1 DEF PathInv, pathVars
<1>6. CASE UNCHANGED vars
  BY <1>6 DEF vars, stateVars, pathVars, PathInv
<1> QED
  BY <1>1, <1>2, <1>3, <1>4, <1>5, <1>6 DEF Next, Client, Pause, ChangeOption,
     LoadSessionTasks, Download, IndexPanics

LEMMA PathInit == Init => PathInv
BY DEF Init, PathInv

\* The variables of the drivers have their types, and no target outgrows its source.
THEOREM TypeCorrect == Spec => []TypeOK
<1>1. TypeInv /\ PathInv => TypeOK
  BY TypeInvImplies
<1> QED
  BY <1>1, TypeInit, TypeStep, PathInit, PathStep, PTL DEF Spec

-----------------------------------------------------------------------------
(* ftp and sftp implement Download. *)

\* The run that goes on is the one that Pause and Remove would cancel.
LiveInv == kind # "file" => /\ \A r \in Live : running /\ cancel = r
                            /\ removed => Live = {}

LEMMA LeaveShrinks ==
    ASSUME RunType, NEW r \in Runs, Working(r), NEW step \in Steps,
           Goto(r, step) \/ Leave(r, step)
    PROVE  Live' \subseteq Live
<1>1. /\ run'[r].cancelled = run[r].cancelled
      /\ \A q \in Runs \ {r} : run'[q] = run[q]
  BY LeftType DEF RunType, Goto, Leave, RunState
<1> QED
  BY <1>1 DEF Live, Working, Alive, At

LEMMA FailShrinks ==
    ASSUME RunType, NEW r \in Runs, Working(r), Fail(r) \/ PauseAfterCancel(r)
    PROVE  Live' \subseteq Live
BY LeaveShrinks DEF Fail, PauseAfterCancel, Steps

\* A step of a run revives no run and undoes no cancellation.
LEMMA DownloadShrinks ==
    ASSUME TypeInv, NEW r \in Runs, Download(r)
    PROVE  Live' \subseteq Live /\ removed' = removed /\ kind' = kind
<1>0. RunType /\ run \in [Runs -> RunState] /\ run[r] \in RunState
  BY DEF TypeInv, RunType
<1>1. removed' = removed /\ kind' = kind
  BY DEF Download, DownloadStep, Look, LookCopy, NextEndpoint, IndexPanics, Reloaded, FtpConnect, SftpConnect,
     Open, Check, Transfer, Copy, EndOfSource, ReadFails, EndpointFailed, Complete, Exit,
     KeepAround, stateVars
<1>2. CASE Exit(r)
  <2> DEFINE rs == [run EXCEPT ![r] = Over(r)]
  <2>1. /\ rs \in [Runs -> RunState] /\ rs[r].pc = "done"
        /\ \A q \in Runs \ {r} : rs[q] = run[q]
    BY <1>0, LeftType
  <2>2. run' = rs \/ run' = Cancel(rs, cancel)
    BY <1>2 DEF Exit
  <2> HIDE DEF rs
  <2>3. CASE run' = rs
    BY <1>1, <2>1, <2>3 DEF Live, Working, Alive, At
  <2>4. ASSUME run' = Cancel(rs, cancel) PROVE Live' \subseteq Live
    <3>1. \A q \in Runs : run'[q].cancelled = (rs[q].cancelled \/ q = cancel)
      BY <2>1, <2>4, CancelType
    <3>2. \A q \in Runs : run'[q].pc = rs[q].pc
      BY <2>1, <2>4, CancelType
    <3> QED
      BY <2>1, <3>1, <3>2 DEF Live, Working, Alive, At
  <2> QED
    BY <1>1, <2>2, <2>3, <2>4
<1>3. CASE IndexPanics(r)
  <2>1. \A q \in Runs : ~Working(q)'
    BY <1>0, <1>3, LeftType DEF IndexPanics, Reloaded, Working, Alive, At
  <2> QED
    BY <1>1, <2>1 DEF Live
<1>4. CASE Look(r) \/ LookCopy(r)
  <2>1. Working(r)
    BY <1>4 DEF Look, LookCopy, Working, Alive, At
  <2>2. CASE Gone(r) \/ Fail(r)
    BY <1>0, <1>1, <2>1, <2>2, LeaveShrinks, FailShrinks DEF Gone, Steps
  <2>3. ASSUME NEW m \in Modes, NEW step \in {"loop", "open"}, NEW n \in 0..Total,
               NEW i \in Nat \ {0}, Reset(r, m, step, n, i)
        PROVE  Live' \subseteq Live
    BY <2>1, <2>3, ResetType DEF Live, Working, Alive, At
  <2>4. (IF active \in 1..mirrors THEN active ELSE 1) \in Nat \ {0} /\ 0 \in 0..Total
    BY ShapeAssumption DEF TypeInv, UriType
  <2>5. \A m \in Modes : (IF m = "overwrite" THEN 0 ELSE Len(file)) \in 0..Total
    BY ShapeAssumption DEF TypeInv, FileType
  <2> QED
    BY <1>1, <1>4, <2>2, <2>3, <2>4, <2>5 DEF Look, LookCopy
<1>5. CASE Open(r)
  <2>1. Working(r)
    BY <1>5 DEF Open, Working, Alive, At
  <2>2. CASE Leave(r, "failed")
    BY <1>0, <1>1, <2>1, <2>2, LeaveShrinks DEF Steps
  <2>3. ASSUME NEW offset,
               run' = [run EXCEPT ![r].offset = offset, ![r].written = offset,
                                  ![r].attached = TRUE, ![r].pc = "check"]
        PROVE  Live' \subseteq Live
    BY <1>0, <2>1, <2>3 DEF Live, Working, Alive, At, RunState
  <2> QED
    BY <1>1, <1>5, <2>2, <2>3, OpenType
<1>6. CASE FtpConnect(r) \/ SftpConnect(r) \/ Transfer(r) \/ Copy(r) \/ EndpointFailed(r)
  <2>1. Working(r)
    BY <1>6 DEF FtpConnect, SftpConnect, Transfer, Copy, EndpointFailed, Working, Alive, At
  <2>2. \/ \E step \in Steps : Leave(r, step)
        \/ Fail(r) \/ PauseAfterCancel(r)
        \/ \E sized \in BOOLEAN : run' = [run EXCEPT ![r].sized = sized, ![r].pc = "open"]
        \/ run' = [run EXCEPT ![r].written = @ + 1, ![r].pc = "check"]
        \/ run' = [run EXCEPT ![r].i = @ + 1, ![r].pc = "loop"]
    BY <1>6 DEF FtpConnect, SftpConnect, Transfer, Copy, EndpointFailed, Steps
  <2>3. ASSUME NEW sized, run' = [run EXCEPT ![r].sized = sized, ![r].pc = "open"]
        PROVE  Live' \subseteq Live
    BY <1>0, <2>1, <2>3 DEF Live, Working, Alive, At, RunState
  <2>4. ASSUME \/ run' = [run EXCEPT ![r].written = @ + 1, ![r].pc = "check"]
               \/ run' = [run EXCEPT ![r].i = @ + 1, ![r].pc = "loop"]
        PROVE  Live' \subseteq Live
    BY <1>0, <2>1, <2>4 DEF Live, Working, Alive, At, RunState
  <2> QED
    BY <1>0, <1>1, <2>1, <2>2, <2>3, <2>4, LeaveShrinks, FailShrinks
<1>7. CASE NextEndpoint(r) \/ Check(r) \/ EndOfSource(r) \/ ReadFails(r) \/ Complete(r)
  <2>1. Working(r)
    BY <1>7 DEF NextEndpoint, Check, EndOfSource, ReadFails, Complete, Working, Alive, At
  <2>2. \/ \E step \in Steps : Goto(r, step) \/ Leave(r, step)
        \/ Fail(r) \/ PauseAfterCancel(r)
    BY <1>7 DEF NextEndpoint, Check, EndOfSource, ReadFails, Complete, Steps
  <2> QED
    BY <1>0, <1>1, <2>1, <2>2, LeaveShrinks, FailShrinks
<1> QED
  BY <1>2, <1>3, <1>4, <1>5, <1>6, <1>7 DEF Download, DownloadStep

LEMMA DownloadKeepsLive ==
    ASSUME TypeInv, LiveInv, NEW r \in Runs, Download(r)
    PROVE  LiveInv'
<1> SUFFICES ASSUME kind # "file" PROVE LiveInv'
  BY DownloadShrinks DEF LiveInv
<1>0. RunType /\ run \in [Runs -> RunState]
  BY DEF TypeInv, RunType
<1>1. CASE Exit(r) /\ known
  <2> DEFINE rs == [run EXCEPT ![r] = Over(r)]
  <2>1. rs \in [Runs -> RunState]
    BY <1>0, LeftType
  <2>2. run' = Cancel(rs, cancel)
    BY <1>1 DEF Exit
  <2> HIDE DEF rs
  <2>3. \A q \in Runs : q = cancel => run'[q].cancelled
    BY <2>1, <2>2, CancelType
  <2>4. Live' = {}
    BY <2>3, DownloadShrinks DEF LiveInv, Live
  <2> QED
    BY <2>4 DEF LiveInv
<1>2. CASE IndexPanics(r)
  <2>1. Live' = {}
    BY <1>0, <1>2, LeftType DEF IndexPanics, Reloaded, Live, Working, Alive, At
  <2> QED
    BY <2>1 DEF LiveInv
<1>3. CASE UNCHANGED <<running, cancel>>
  BY <1>3, DownloadShrinks DEF LiveInv
<1>4. \/ UNCHANGED <<running, cancel>> \/ (Exit(r) /\ known) \/ IndexPanics(r)
  BY DEF Download, DownloadStep, Look, LookCopy, NextEndpoint, FtpConnect, SftpConnect, Open, Check,
     Transfer, Copy, EndOfSource, ReadFails, EndpointFailed, Complete, Exit, KeepAround,
     stateVars, Gone, Fail, PauseAfterCancel, StopsRunning
<1> QED
  BY <1>1, <1>2, <1>3, <1>4

\* What a call makes of the runs.
LEMMA ClientLive ==
    ASSUME TypeInv, LiveInv, Client, kind # "file"
    PROVE  /\ kind' = kind /\ LiveInv'
           /\ \/ removed' = removed /\ Live' \subseteq Live
              \/ removed' /\ Live' = {}
              \/ ~removed /\ ~removed' /\ Live = {} /\ \E r \in Runs : Live' \subseteq {r}
<1>0. RunType /\ run \in [Runs -> RunState]
  BY DEF TypeInv, RunType
<1>1. CASE Start
  <2>1. CASE running
    BY <1>1, <2>1 DEF Start, LiveInv, Live, Working, Alive, At
  <2>2. CASE ~running
    <3>1. PICK r \in Runs : At(r, "new") /\ cancel' = r /\ Goto(r, "look")
      BY <1>1, <2>2 DEF Start
    <3>2. Live = {}
      BY <2>2 DEF LiveInv
    <3>3. \A q \in Runs \ {r} : run'[q] = run[q]
      BY <1>0, <3>1 DEF Goto
    <3>4. Live' \subseteq {r}
      BY <3>2, <3>3 DEF Live, Working, Alive, At
    <3> QED
      BY <1>1, <2>2, <3>1, <3>2, <3>4 DEF Start, LiveInv
  <2> QED
    BY <2>1, <2>2
<1>2. ASSUME NEW rs \in [Runs -> RunState], run' = Cancel(rs, cancel),
             \A q \in Runs : rs[q].pc = run[q].pc /\ rs[q].cancelled = run[q].cancelled
      PROVE  Live' = {}
  <2>1. \A q \in Runs : /\ run'[q].pc = run[q].pc
                        /\ run'[q].cancelled = (run[q].cancelled \/ q = cancel)
    BY <1>2, CancelType
  <2> QED
    BY <2>1 DEF LiveInv, Live, Working, Alive, At
<1>3. CASE PauseTask
  <2>1. Live' = {}
    BY <1>0, <1>2, <1>3 DEF PauseTask
  <2> QED
    BY <1>3, <2>1 DEF PauseTask, LiveInv
<1>4. CASE Remove
  <2>1. Live' = {}
    BY <1>0, <1>2, <1>4 DEF Remove
  <2> QED
    BY <1>4, <2>1 DEF Remove, LiveInv
<1>5. CASE LoadSessionTasks
  <2>1. Live' = {}
    BY <1>0, <1>5, LeftType DEF LoadSessionTasks, Reloaded, Live, Working, Alive, At
  <2> QED
    BY <1>5, <2>1 DEF LoadSessionTasks, Reloaded, LiveInv
<1>6. CASE Add \/ PurgeLocalState \/ ChangeURI
  <2>1. UNCHANGED <<kind, running, cancel, removed, run>>
    BY <1>6 DEF Add, PurgeLocalState, ChangeURI, stateVars
  <2> QED
    BY <2>1 DEF LiveInv, Live, Working, Alive, At
<1>7. CASE Unlink \/ Rename
  <2>1. UNCHANGED <<kind, running, cancel, removed>> /\ run' = Unlinked(run)
    BY <1>7 DEF Unlink, Rename, NothingThere, stateVars
  <2>2. \A q \in Runs : run'[q].pc = run[q].pc /\ run'[q].cancelled = run[q].cancelled
    BY <1>0, <2>1, UnlinkedType
  <2> QED
    BY <2>1, <2>2 DEF LiveInv, Live, Working, Alive, At
<1> QED
  BY <1>1, <1>3, <1>4, <1>5, <1>6, <1>7 DEF Client, Pause, ChangeOption

LEMMA LiveStep == TypeInv /\ LiveInv /\ [Next]_vars => LiveInv'
<1> SUFFICES ASSUME TypeInv, LiveInv, [Next]_vars PROVE LiveInv'
  OBVIOUS
<1>1. CASE UNCHANGED vars
  BY <1>1 DEF vars, stateVars, LiveInv, Live, Working, Alive, At
<1>2. CASE Client
  <2>1. kind' = kind
    BY <1>2 DEF Client, Add, Start, Pause, PauseTask, Remove, Unlink, PurgeLocalState,
       ChangeOption, Rename, ChangeURI, LoadSessionTasks, Reloaded, stateVars
  <2> QED
    BY <1>2, <2>1, ClientLive DEF LiveInv
<1> QED
  BY <1>1, <1>2, DownloadKeepsLive DEF Next

LEMMA LiveInit == Init => LiveInv
BY DEF Init, LiveInv, Live, Working, Alive, At, NewRun

\* ftp and sftp keep the contract of Download with any number of runs: whatever calls,
\* mirrors that fail, restarts and ends of old runs interleave, at most one run goes on, and
\* after Remove none goes on and none begins.
THEOREM ImplementsDownload == Spec => KeepsContract
<1>1. Init => Contract!Init
  BY DEF Init, Contract!Init, Live, Working, Alive, At, NewRun
<1>2. TypeInv /\ LiveInv /\ [Next]_vars => [Contract!Next]_(Contract!vars)
  <2> SUFFICES ASSUME TypeInv, LiveInv, [Next]_vars
               PROVE  Contract!Next \/ UNCHANGED Contract!vars
    OBVIOUS
  <2>1. ASSUME NEW r \in Runs, Download(r) PROVE kind' = kind /\ removed' = removed
    BY <2>1, DownloadShrinks
  <2>2. ASSUME Client PROVE kind' = kind /\ (removed' = removed \/ removed' = TRUE)
    BY <2>2 DEF Client, Add, Start, Pause, PauseTask, Remove, Unlink, PurgeLocalState,
       ChangeOption, Rename, ChangeURI, LoadSessionTasks, Reloaded, stateVars
  <2>3. kind' = kind /\ (removed' = removed \/ removed' = TRUE)
    BY <2>1, <2>2 DEF Next, vars, stateVars
  <2>4. CASE kind = "file"
    BY <2>3, <2>4 DEF Contract!Next, Contract!Drop, Contract!vars
  <2>5. ASSUME kind # "file", removed' = removed, Live' \subseteq Live
        PROVE  Contract!Next \/ UNCHANGED Contract!vars
    <3>1. Live' = Live \/ (Live' = {} /\ Live # {})
      BY <2>5 DEF LiveInv
    <3> QED
      BY <2>3, <2>5, <3>1 DEF Contract!Next, Contract!End, Contract!vars
  <2>6. CASE kind # "file" /\ Client
    <3>1. CASE removed' /\ Live' = {}
      BY <2>3, <2>6, <3>1, ClientLive DEF Contract!Next, Contract!Drop
    <3>2. ASSUME ~removed, ~removed', Live = {}, NEW r \in Runs, Live' \subseteq {r}
          PROVE  Contract!Next \/ UNCHANGED Contract!vars
      <4>1. Live' = {} \/ Live' = {r}
        BY <3>2
      <4>2. removed' = removed
        BY <2>3, <3>2
      <4>3. CASE Live' = {r}
        BY <2>3, <2>6, <3>2, <4>2, <4>3 DEF Contract!Next, Contract!Begin
      <4>4. CASE Live' = {}
        BY <2>3, <2>6, <3>2, <4>2, <4>4 DEF Contract!vars
      <4> QED
        BY <4>1, <4>3, <4>4
    <3> QED
      BY <2>5, <2>6, <3>1, <3>2, ClientLive
  <2>7. CASE kind # "file" /\ UNCHANGED vars
    BY <2>5, <2>7 DEF vars, stateVars, Live, Working, Alive, At
  <2> QED
    BY <2>1, <2>4, <2>5, <2>6, <2>7, DownloadShrinks DEF Next
<1> QED
  BY <1>1, <1>2, TypeInit, TypeStep, LiveInit, LiveStep, PTL
     DEF Spec, KeepsContract, Contract!Spec

-----------------------------------------------------------------------------
(* A download with one run leaves the whole file. *)

Ordered(n) == \A k \in 1..n : file[k] = k
Good(r) == kind = "sftp" \/ (kind = "file" /\ run[r].offset = 0)
Reads(r) == run[r].pc \in {"check", "read"}

\* Only ftp may begin without the size of its source.
SizedInv == \A r \in Runs : At(r, "open") /\ kind # "ftp" => run[r].sized

\* A task without a status was not added, and one that is not in the map was removed.
BornInv ==
    /\ status = "none" => ~known /\ \A r \in Runs : At(r, "new")
    /\ ~known => status = "none" \/ removed

\* How far the only run is: sftp leaves no holes in a file that is too short, what was
\* written so far is in place, and the status is not "complete" before the run has been
\* through the whole source.
Course(r) ==
    /\ kind = "sftp" /\ Len(file) < Total => Ordered(Len(file))
    /\ Reads(r) /\ Good(r) =>
          run[r].attached /\ run[r].written <= Len(file) /\ Ordered(run[r].written)
    /\ At(r, "finish") /\ Good(r) => file = Whole
    /\ status = "complete" => ~Working(r) /\ ~At(r, "new") /\ (Good(r) => file = Whole)
CourseInv == \A r \in Runs : Sole(r) /\ ~removed /\ (~moved \/ At(r, "new")) => Course(r)
SoleInv == SizedInv /\ BornInv /\ CourseInv

\* A run that reads nothing at the moment keeps its course.
LEMMA CourseKept ==
    ASSUME NEW r \in Runs, Course(r), Working(r), kind' = kind,
           file' = file \/ file' = <<>>, status' # "complete" \/ status' = status,
           run'[r].pc \notin {"new", "check", "read", "finish"}
    PROVE  Course(r)'
<1>1. status' # "complete"
  BY DEF Course
<1>2. kind' = "sftp" /\ Len(file') < Total => Ordered(Len(file))'
  <2>1. CASE file' = <<>>
    BY <2>1 DEF Ordered
  <2> QED
    BY <2>1 DEF Course, Ordered
<1> QED
  BY <1>1, <1>2 DEF Course, Reads, At

\* Opening: the file holds what the run starts behind.
LEMMA OpenCourse ==
    ASSUME TypeInv, SizedInv, NEW r \in Runs, Course(r), Open(r)
    PROVE  Course(r)'
<1>0. /\ At(r, "open") /\ Working(r) /\ kind' = kind /\ status' = status
      /\ run[r] \in RunState /\ FileType /\ RunType /\ Total \in Nat \ {0}
  BY ShapeAssumption DEF Open, At, Working, Alive, stateVars, TypeInv, RunType
<1>1. PICK mode \in Modes, prealloc \in Allocs, offset \in 0..Total :
         /\ Opening(r, mode, prealloc, offset)
         /\ \/ run'[r] = [run[r] EXCEPT !.offset = offset, !.written = offset,
                                        !.attached = TRUE, !.pc = "check"]
            \/ Leave(r, "failed") /\ run'[r] = Left(r, "failed")
         /\ FileType'
  BY OpenType
<1> DEFINE existing == IF kind = "file" THEN run[r].existing ELSE Len(file)
           resume == ShouldResumePartial(existing, run[r].sized, mode)
<1>2. /\ offset = IF resume THEN existing ELSE 0
      /\ file' = PrepareDownloadFile(resume, run[r].sized, prealloc)
  BY <1>1 DEF Opening
<1>3. existing \in 0..Total /\ run[r].sized \in BOOLEAN /\ prealloc \in BOOLEAN
  BY <1>0, ShapeAssumption DEF RunState, FileType
<1>4. CASE kind = "ftp"
  <2>1. status' # "complete"
    BY <1>0 DEF Course
  <2> QED
    BY <1>0, <1>4, <2>1 DEF Course, Good
<1>5. CASE kind # "ftp"
  <2>1. run[r].sized
    BY <1>0, <1>5 DEF SizedInv
  <2>2. resume \in BOOLEAN /\ (resume => existing > 0 /\ existing < Total)
    BY <2>1 DEF ShouldResumePartial
  <2>3. kind = "sftp" => existing = Len(file)
    OBVIOUS
  <2> HIDE DEF existing
  <2>4. IF resume THEN file' = file ELSE file' = <<>> \/ Len(file') = Total
    <3> HIDE DEF resume
    <3> QED
      BY <1>0, <1>2, <1>3, <2>1, <2>2, PreparedType
  <2>5. kind = "sftp" /\ Len(file') < Total => Ordered(Len(file))'
    <3>1. CASE file' = <<>>
      BY <3>1 DEF Ordered
    <3> QED
      BY <1>0, <2>4, <3>1 DEF Course, Ordered
  <2>6. kind = "sftp" \/ offset = 0 => offset <= Len(file') /\ Ordered(offset)'
    <3>1. Len(file') \in Nat
      BY <1>1 DEF FileType
    <3>2. CASE offset = 0
      BY <3>1, <3>2 DEF Ordered
    <3>3. CASE offset # 0 /\ kind = "sftp"
      <4>1. resume /\ offset = Len(file) /\ file' = file /\ Len(file) < Total
        BY <1>2, <2>2, <2>3, <2>4, <3>3
      <4> HIDE DEF resume
      <4> QED
        BY <1>0, <3>1, <3>3, <4>1 DEF Course, Ordered
    <3> QED
      BY <3>2, <3>3
  <2>7. status' # "complete"
    BY <1>0 DEF Course
  <2>8. CASE run'[r] = [run[r] EXCEPT !.offset = offset, !.written = offset,
                                      !.attached = TRUE, !.pc = "check"]
    <3>1. /\ run'[r].pc = "check" /\ run'[r].attached /\ run'[r].written = offset
          /\ run'[r].offset = offset
      BY <1>0, <2>8 DEF RunState
    <3> QED
      BY <1>0, <1>5, <2>5, <2>6, <2>7, <3>1 DEF Course, Reads, Good, At
  <2>9. CASE run'[r] = Left(r, "failed")
    <3>1. run'[r].pc = "failed"
      BY <1>0, <2>9, LeftType DEF Steps
    <3> QED
      BY <1>0, <2>5, <2>7, <3>1 DEF Course, Reads, At
  <2> QED
    BY <1>1, <2>8, <2>9
<1> QED
  BY <1>4, <1>5

\* One more block is in place.
LEMMA MoveCourse ==
    ASSUME TypeInv, NEW r \in Runs, Course(r), Transfer(r) \/ Copy(r)
    PROVE  Course(r)'
<1> DEFINE at == IF kind = "file" THEN run[r].written - run[r].offset + 1
                                  ELSE run[r].written + 1
<1>0. /\ At(r, "read") /\ Working(r) /\ kind' = kind
      /\ status' = status \/ status' = "active"
      /\ run[r] \in RunState /\ FileType /\ Total \in Nat \ {0} /\ run[r].written < Total
      /\ file' = Put(r, at, run[r].written + 1)
      /\ run' = [run EXCEPT ![r].written = @ + 1, ![r].pc = "check"]
  BY ShapeAssumption
     DEF Transfer, Copy, KeepAround, stateVars, At, Working, Alive, TypeInv, RunType
<1>1. at \in Int /\ at <= Total /\ run[r].written + 1 \in 0..Total
  BY <1>0 DEF RunState
<1>2. status' # "complete"
  BY <1>0 DEF Course
<1>3. /\ run'[r].pc = "check" /\ run'[r].offset = run[r].offset
      /\ run'[r].written = run[r].written + 1 /\ run'[r].attached = run[r].attached
  <2> HIDE DEF at
  <2>1. run'[r] = [run[r] EXCEPT !.written = run[r].written + 1, !.pc = "check"]
    BY <1>0, <1>1, MoveType
  <2> QED
    BY <1>0, <2>1 DEF RunState
<1>4. CASE ~Good(r)
  <2>1. kind # "sftp" /\ ~Good(r)'
    BY <1>0, <1>3, <1>4 DEF Good
  <2> QED
    BY <1>0, <1>2, <2>1 DEF Course
<1>5. CASE Good(r)
  <2>1. at = run[r].written + 1
    BY <1>0, <1>5 DEF Good, RunState
  <2>2. run[r].attached /\ run[r].written <= Len(file) /\ Ordered(run[r].written)
    BY <1>0, <1>5 DEF Course, Reads, At
  <2> HIDE DEF at
  <2>3. /\ Len(file') = IF at > Len(file) THEN at ELSE Len(file)
        /\ \A k \in 1..Len(file') :
              file'[k] = IF k = at THEN at ELSE IF k <= Len(file) THEN file[k] ELSE 0
    BY <1>0, <1>1, <2>1, <2>2, PutType
  <2>4. Len(file) \in Nat /\ run[r].written \in Nat /\ at \in Nat
    BY <1>0, <2>1 DEF FileType, RunState
  <2>5. at <= Len(file')
    BY <2>3, <2>4
  <2>6. ASSUME NEW k \in 1..at PROVE file'[k] = k
    <3>1. k \in 1..Len(file') /\ (k # at => k \in 1..run[r].written /\ k <= Len(file))
      BY <2>1, <2>2, <2>4, <2>5
    <3> QED
      BY <2>2, <2>3, <3>1 DEF Ordered
  <2>7. ASSUME kind = "sftp", Len(file') < Total, NEW k \in 1..Len(file') PROVE file'[k] = k
    <3>1. k # at => k \in 1..Len(file)
      BY <2>1, <2>2, <2>3, <2>4
    <3>2. Len(file) < Total
      BY <1>0, <2>1, <2>3, <2>4, <2>7
    <3> QED
      BY <1>0, <2>3, <2>4, <2>7, <3>1, <3>2 DEF Ordered, Course
  <2> QED
    BY <1>0, <1>2, <1>3, <2>1, <2>2, <2>5, <2>6, <2>7 DEF Course, Reads, At, Ordered
<1> QED
  BY <1>4, <1>5

LEMMA DownloadCourse ==
    ASSUME TypeInv, SizedInv, NEW r \in Runs, Course(r), Download(r), ~removed, BornInv
    PROVE  Course(r)'
<1>0. /\ RunType /\ run \in [Runs -> RunState] /\ run[r] \in RunState /\ FileType
      /\ Total \in Nat \ {0}
  BY ShapeAssumption DEF TypeInv, RunType
<1>1. CASE Look(r) \/ LookCopy(r)
  <2>1. Working(r) /\ kind' = kind
    BY <1>1 DEF Look, LookCopy, Working, Alive, At, KeepAround
  <2>2. CASE Gone(r) \/ (Fail(r) /\ UNCHANGED file)
    <3>1. /\ run'[r].pc = "exit" /\ file' = file
          /\ status' # "complete" \/ status' = status
      <4>1. CASE Gone(r)
        BY <1>0, <4>1 DEF Gone, Goto, RunState
      <4>2. CASE Fail(r) /\ UNCHANGED file
        BY <1>0, <4>2, LeftType DEF Fail, SetStatus, Leave, Steps
      <4> QED
        BY <2>2, <4>1, <4>2
    <3> QED
      BY <2>1, <3>1, CourseKept
  <2>3. ASSUME NEW m \in Modes, NEW step \in {"loop", "open"}, NEW n \in 0..Total,
               NEW i \in Nat \ {0}, Reset(r, m, step, n, i), UNCHANGED <<status, running>>
        PROVE  Course(r)'
    <3>1. run'[r].pc = step /\ (file' = file \/ file' = <<>>)
      BY <2>3, ResetType DEF Reset
    <3> QED
      BY <2>1, <2>3, <3>1, CourseKept
  <2>4. (IF active \in 1..mirrors THEN active ELSE 1) \in Nat \ {0} /\ 0 \in 0..Total
    BY ShapeAssumption DEF TypeInv, UriType
  <2>5. \A m \in Modes : (IF m = "overwrite" THEN 0 ELSE Len(file)) \in 0..Total
    BY <1>0 DEF FileType
  <2> QED
    BY <1>1, <2>2, <2>3, <2>4, <2>5 DEF Look, LookCopy
<1>2. CASE NextEndpoint(r) \/ FtpConnect(r) \/ SftpConnect(r) \/ ReadFails(r)
           \/ EndpointFailed(r)
  <2>1. Working(r) /\ kind' = kind /\ file' = file
    BY <1>2 DEF NextEndpoint, FtpConnect, SftpConnect, ReadFails, EndpointFailed, Working,
       Alive, At, KeepAround, stateVars
  <2>2. status' # "complete" \/ status' = status
    BY <1>2 DEF NextEndpoint, FtpConnect, SftpConnect, ReadFails, EndpointFailed,
       stateVars, Fail, PauseAfterCancel, SetStatus
  <2>3. \/ \E step \in {"connect", "failed", "exit"} : Leave(r, step) \/ Goto(r, step)
        \/ \E sized : run' = [run EXCEPT ![r].sized = sized, ![r].pc = "open"]
        \/ run' = [run EXCEPT ![r].i = @ + 1, ![r].pc = "loop"]
    BY <1>2 DEF NextEndpoint, FtpConnect, SftpConnect, ReadFails, EndpointFailed, Fail,
       PauseAfterCancel
  <2>4. run'[r].pc \in {"connect", "failed", "exit", "open", "loop"}
    <3>1. ASSUME NEW step \in {"connect", "failed", "exit"}, Leave(r, step) \/ Goto(r, step)
          PROVE  run'[r].pc = step
      BY <1>0, <3>1, LeftType DEF Leave, Goto, Steps, RunState
    <3>2. ASSUME NEW sized, run' = [run EXCEPT ![r].sized = sized, ![r].pc = "open"]
          PROVE  run'[r].pc = "open"
      BY <1>0, <3>2 DEF RunState
    <3>3. ASSUME run' = [run EXCEPT ![r].i = @ + 1, ![r].pc = "loop"]
          PROVE  run'[r].pc = "loop"
      BY <1>0, <3>3 DEF RunState
    <3> QED
      BY <2>3, <3>1, <3>2, <3>3
  <2> QED
    BY <2>1, <2>2, <2>4, CourseKept
<1>3. CASE IndexPanics(r)
  <2>1. run'[r].pc = "done" /\ Working(r) /\ UNCHANGED <<kind, status, file>>
    BY <1>0, <1>3, LeftType DEF IndexPanics, Reloaded, Working, Alive, At
  <2> QED
    BY <2>1, CourseKept
<1>4. CASE Check(r)
  <2>1. Working(r) /\ kind' = kind /\ file' = file /\ At(r, "check")
    BY <1>4 DEF Check, Working, Alive, At, KeepAround
  <2>2. status' # "complete" \/ status' = status
    BY <1>4 DEF Check, PauseAfterCancel
  <2>3. CASE Goto(r, "read")
    <3>1. run'[r] = [run[r] EXCEPT !.pc = "read"] /\ status' # "complete"
      BY <1>0, <2>1, <2>2, <2>3 DEF Goto, Course
    <3>2. /\ run'[r].pc = "read" /\ run'[r].offset = run[r].offset
          /\ run'[r].written = run[r].written /\ run'[r].attached = run[r].attached
      BY <1>0, <3>1 DEF RunState
    <3> QED
      BY <2>1, <3>1, <3>2 DEF Course, Reads, Good, Ordered, At
  <2>4. CASE Leave(r, "exit") \/ Leave(r, "failed")
    <3>1. run'[r].pc \in {"exit", "failed"}
      BY <1>0, <2>4, LeftType DEF Leave, Steps
    <3> QED
      BY <2>1, <2>2, <3>1, CourseKept
  <2> QED
    BY <1>4, <2>3, <2>4 DEF Check, PauseAfterCancel
<1>5. CASE EndOfSource(r)
  <2>1. /\ Working(r) /\ At(r, "read") /\ kind' = kind /\ file' = file /\ status' = status
        /\ kind = "ftp" \/ run[r].written >= Total
    BY <1>5 DEF EndOfSource, Working, Alive, At, stateVars
  <2>2. run'[r].pc = "finish" /\ run'[r].offset = run[r].offset
    BY <1>0, <1>5, LeftType DEF EndOfSource, Leave, Steps
  <2>3. Good(r) => file = Whole
    BY <1>0, <2>1, IsWhole DEF Good, Course, Reads, At, Ordered, FileType, RunState
  <2>4. status' # "complete"
    BY <2>1 DEF Course
  <2> QED
    BY <2>1, <2>2, <2>3, <2>4 DEF Course, Reads, Good, Ordered, At
<1>6. CASE Complete(r)
  <2>1. At(r, "finish") /\ UNCHANGED <<kind, file>>
    BY <1>6 DEF Complete
  <2>2. run'[r].pc = "exit" /\ run'[r].offset = run[r].offset
    BY <1>0, <1>6, LeftType DEF Complete, Leave, Steps
  <2> QED
    BY <2>1, <2>2 DEF Course, Reads, Good, Ordered, At, Working, Alive
<1>7. CASE Exit(r)
  <2>1. UNCHANGED <<kind, file, status>> /\ At(r, "exit")
    BY <1>7 DEF Exit
  <2> DEFINE rs == [run EXCEPT ![r] = Over(r)]
  <2>2. rs \in [Runs -> RunState] /\ rs[r].pc = "done" /\ rs[r].offset = run[r].offset
    BY <1>0, LeftType
  <2>3. run' = rs \/ run' = Cancel(rs, cancel)
    BY <1>7 DEF Exit
  <2> HIDE DEF rs
  <2>4. run'[r].pc = "done" /\ run'[r].offset = run[r].offset
    BY <2>2, <2>3, CancelType
  <2> QED
    BY <2>1, <2>4 DEF Course, Reads, Good, Ordered, At, Working, Alive
<1> QED
  BY <1>1, <1>2, <1>3, <1>4, <1>5, <1>6, <1>7, OpenCourse, MoveCourse DEF Download, DownloadStep

LEMMA ReloadedCourse ==
    ASSUME RunType, NEW r \in Runs, Course(r), Reloaded
    PROVE  Course(r)'
<1>1. UNCHANGED <<kind, file, status>>
  BY DEF Reloaded
<1>2. /\ run'[r].pc \in {"new", "done"} /\ run'[r].offset = run[r].offset
      /\ At(r, "new")' = At(r, "new")
  BY LeftType DEF Reloaded, Alive, At
<1> QED
  BY <1>1, <1>2 DEF Course, Reads, Good, Ordered, At, Working, Alive

\* No run becomes new again.
NewStays == \A q \in Runs : At(q, "new")' => At(q, "new")

LEMMA ClientCourse ==
    ASSUME TypeInv, BornInv, PathInv, Client, NEW r \in Runs, NewStays,
           ~removed /\ (~moved \/ At(r, "new")) => Course(r),
           ~removed', Sole(r)', ~moved' \/ At(r, "new")'
    PROVE  Course(r)'
<1>0. RunType /\ run \in [Runs -> RunState]
  BY DEF TypeInv, RunType
<1>00. removed' = removed /\ moved' = moved => Course(r)
  BY DEF NewStays
<1>1. ASSUME UNCHANGED <<kind, file>>, status' # "complete",
             \A x \in {"pc", "offset", "written", "attached"} : run'[r][x] = run[r][x],
             Course(r)
      PROVE  Course(r)'
  BY <1>1 DEF Course, Reads, Good, Ordered, At
<1>2. CASE Add
  <2>1. At(r, "new") /\ run' = run /\ status' # "complete"
    BY <1>2 DEF Add, BornInv
  <2>2. PICK n \in 0..Total : file' = <<>> \/ file' = Prefix(n)
    BY <1>2, ShapeAssumption DEF Add
  <2>3. Ordered(Len(file))'
    <3>1. CASE file' = <<>>
      BY <3>1 DEF Ordered
    <3>2. CASE file' = Prefix(n)
      BY <3>2, PrefixType DEF Ordered
    <3> QED
      BY <2>2, <3>1, <3>2
  <2> QED
    BY <2>1, <2>3 DEF Course, Reads, At
<1>3. CASE Start
  <2>1. ~removed
    BY <1>3 DEF Start
  <2>2. CASE running
    BY <1>00, <1>3, <2>1, <2>2 DEF Start, Course, Reads, Good, Ordered, At, Working, Alive
  <2>3. CASE ~running
    <3>1. PICK q \in Runs : At(q, "new") /\ Goto(q, "look")
      BY <1>3, <2>3 DEF Start
    <3>2. run'[q].pc = "look"
      BY <1>0, <3>1 DEF Goto, RunState
    <3>3. q = r
      BY <3>2 DEF Sole, At
    <3>4. Course(r)
      BY <2>1, <3>1, <3>3
    <3> QED
      BY <1>3, <2>1, <2>3, <3>2, <3>3, <3>4 DEF Start, Course, Reads, Ordered, At
  <2> QED
    BY <2>2, <2>3
<1>4. CASE PauseTask
  <2>1. \A x \in {"pc", "offset", "written", "attached"} : run'[r][x] = run[r][x]
    BY <1>0, <1>4, CancelType DEF PauseTask
  <2> QED
    BY <1>00, <1>1, <1>4, <2>1 DEF PauseTask, pathVars
<1>5. CASE ChangeURI
  BY <1>00, <1>5 DEF ChangeURI, stateVars, pathVars, Course, Reads, Good, Ordered, At, Working,
     Alive
<1>6. CASE LoadSessionTasks
  BY <1>0, <1>00, <1>6, ReloadedCourse DEF LoadSessionTasks, Reloaded
<1>7. CASE Rename
  <2>1. /\ UNCHANGED <<kind, status, removed>> /\ file' = <<>> /\ moved'
        /\ run' = Unlinked(run)
    BY <1>7 DEF Rename, NothingThere, stateVars
  <2>2. At(r, "new")' /\ At(r, "new")
    BY <2>1 DEF NewStays
  <2>3. status # "complete"
    BY <2>1, <2>2 DEF Course
  <2> QED
    BY <2>1, <2>2, <2>3 DEF Course, Reads, Ordered, At
<1>8. ~Remove /\ ~PurgeLocalState /\ ~Unlink
  BY DEF Remove, PurgeLocalState, Unlink, PathInv, stateVars
<1> QED
  BY <1>2, <1>3, <1>4, <1>5, <1>6, <1>7, <1>8 DEF Client, Pause, ChangeOption

LEMMA RunsBegin ==
    ASSUME TypeInv, [Next]_vars
    PROVE  NewStays
<1>0. RunType /\ run \in [Runs -> RunState]
  BY DEF TypeInv, RunType
<1>1. ASSUME NEW rs \in [Runs -> RunState], run' = Cancel(rs, cancel),
             \A q \in Runs : rs[q].pc = "new" => At(q, "new")
      PROVE  NewStays
  BY <1>1, CancelType DEF NewStays, At
<1>2. CASE Client
  <2>1. CASE PauseTask
    BY <1>0, <1>1, <2>1 DEF PauseTask, At
  <2>2. CASE Remove
    BY <1>0, <1>1, <2>2 DEF Remove, At
  <2>3. CASE Start
    BY <1>0, <2>3 DEF Start, Goto, RunState, NewStays, At
  <2>4. CASE LoadSessionTasks
    BY <1>0, <2>4, LeftType DEF LoadSessionTasks, Reloaded, NewStays, At
  <2>5. CASE Add \/ PurgeLocalState \/ ChangeURI
    BY <2>5 DEF Add, PurgeLocalState, ChangeURI, NewStays, At
  <2>6. CASE Unlink \/ Rename
    BY <1>0, <2>6, UnlinkedType DEF Unlink, Rename, NothingThere, NewStays, At
  <2> QED
    BY <1>2, <2>1, <2>2, <2>3, <2>4, <2>5, <2>6 DEF Client, Pause, ChangeOption
<1>3. ASSUME NEW r \in Runs, Download(r) PROVE NewStays
  <2>1. Alive(r)
    BY <1>3 DEF Download, DownloadStep, Look, LookCopy, NextEndpoint, IndexPanics, FtpConnect, SftpConnect,
       Open, Check, Transfer, Copy, EndOfSource, ReadFails, EndpointFailed, Complete, Exit,
       Alive, At
  <2>2. ASSUME NEW step \in Steps \ {"new"}, Goto(r, step) \/ Leave(r, step) PROVE NewStays
    <3>1. run'[r].pc = step /\ \A q \in Runs \ {r} : run'[q] = run[q]
      BY <1>0, <2>2, LeftType DEF Goto, Leave, RunState
    <3> QED
      BY <3>1 DEF NewStays, At
  <2>3. CASE Exit(r)
    <3> DEFINE rs == [run EXCEPT ![r] = Over(r)]
    <3>1. rs \in [Runs -> RunState] /\ \A q \in Runs : rs[q].pc = "new" => At(q, "new")
      BY <1>0, LeftType DEF At
    <3>2. run' = rs \/ run' = Cancel(rs, cancel)
      BY <2>3 DEF Exit
    <3> HIDE DEF rs
    <3> QED
      BY <1>1, <3>1, <3>2 DEF NewStays, At
  <2>4. CASE IndexPanics(r)
    BY <1>0, <2>4, LeftType DEF IndexPanics, Reloaded, NewStays, At
  <2>5. CASE Look(r) \/ LookCopy(r)
    <3>1. ASSUME NEW m \in Modes, NEW step \in {"loop", "open"}, NEW n \in 0..Total,
                 NEW i \in Nat \ {0}, Reset(r, m, step, n, i)
          PROVE  NewStays
      BY <2>1, <3>1, ResetType DEF NewStays, At, Alive
    <3>2. (IF active \in 1..mirrors THEN active ELSE 1) \in Nat \ {0} /\ 0 \in 0..Total
      BY ShapeAssumption DEF TypeInv, UriType
    <3>3. \A m \in Modes : (IF m = "overwrite" THEN 0 ELSE Len(file)) \in 0..Total
      BY ShapeAssumption DEF TypeInv, FileType
    <3> QED
      BY <2>2, <2>5, <3>1, <3>2, <3>3 DEF Look, LookCopy, Gone, Fail, Steps
  <2>6. CASE Open(r) \/ FtpConnect(r) \/ SftpConnect(r) \/ Transfer(r) \/ Copy(r)
             \/ EndpointFailed(r)
    <3>1. \/ \E step \in Steps \ {"new"} : Leave(r, step)
          \/ \E sized : run' = [run EXCEPT ![r].sized = sized, ![r].pc = "open"]
          \/ \E n : run' = [run EXCEPT ![r].offset = n, ![r].written = n,
                                         ![r].attached = TRUE, ![r].pc = "check"]
          \/ run' = [run EXCEPT ![r].written = @ + 1, ![r].pc = "check"]
          \/ run' = [run EXCEPT ![r].i = @ + 1, ![r].pc = "loop"]
      BY <2>6 DEF Open, FtpConnect, SftpConnect, Transfer, Copy, EndpointFailed, Fail,
         PauseAfterCancel, Steps
    <3>2. CASE \E n : run' = [run EXCEPT ![r].offset = n, ![r].written = n,
                                         ![r].attached = TRUE, ![r].pc = "check"]
      BY <1>0, <3>2 DEF NewStays, At, RunState
    <3>3. CASE \E sized : run' = [run EXCEPT ![r].sized = sized, ![r].pc = "open"]
      BY <1>0, <3>3 DEF NewStays, At, RunState
    <3>4. CASE \/ run' = [run EXCEPT ![r].written = @ + 1, ![r].pc = "check"]
               \/ run' = [run EXCEPT ![r].i = @ + 1, ![r].pc = "loop"]
      BY <1>0, <3>4 DEF NewStays, At, RunState
    <3> QED
      BY <2>2, <3>1, <3>2, <3>3, <3>4
  <2>7. CASE NextEndpoint(r) \/ Check(r) \/ EndOfSource(r) \/ ReadFails(r) \/ Complete(r)
    BY <2>2, <2>7 DEF NextEndpoint, Check, EndOfSource, ReadFails, Complete, Fail,
       PauseAfterCancel, Steps
  <2> QED
    BY <1>3, <2>3, <2>4, <2>5, <2>6, <2>7 DEF Download, DownloadStep
<1>4. CASE UNCHANGED vars
  BY <1>4 DEF vars, NewStays, At
<1> QED
  BY <1>2, <1>3, <1>4 DEF Next

LEMMA SizedStep == TypeInv /\ SizedInv /\ [Next]_vars => SizedInv'
<1> SUFFICES ASSUME TypeInv, SizedInv, [Next]_vars PROVE SizedInv'
  OBVIOUS
<1>0. RunType /\ run \in [Runs -> RunState]
  BY DEF TypeInv, RunType
<1>1. ASSUME kind' = kind,
             \A q \in Runs : At(q, "open")' =>
                \/ At(q, "open") /\ run'[q].sized = run[q].sized
                \/ kind = "ftp" \/ run'[q].sized
      PROVE  SizedInv'
  BY <1>1 DEF SizedInv
<1>2. CASE Client
  <2>1. kind' = kind
    BY <1>2 DEF Client, Add, Start, Pause, PauseTask, Remove, Unlink, PurgeLocalState,
       ChangeOption, Rename, ChangeURI, LoadSessionTasks, Reloaded, stateVars
  <2>2. CASE PauseTask
    BY <1>0, <1>1, <2>1, <2>2, CancelType DEF PauseTask, At
  <2>3. CASE Remove
    BY <1>0, <1>1, <2>1, <2>3, CancelType DEF Remove, At
  <2>4. CASE Start
    BY <1>0, <1>1, <2>1, <2>4 DEF Start, Goto, RunState, At
  <2>5. CASE LoadSessionTasks
    BY <1>0, <1>1, <2>1, <2>5, LeftType DEF LoadSessionTasks, Reloaded, At
  <2>6. CASE Add \/ PurgeLocalState \/ ChangeURI
    BY <1>1, <2>1, <2>6 DEF Add, PurgeLocalState, ChangeURI, At
  <2>7. CASE Unlink \/ Rename
    <3>1. run' = Unlinked(run)
      BY <2>7 DEF Unlink, Rename, NothingThere
    <3> QED
      BY <1>0, <1>1, <2>1, <3>1, UnlinkedType DEF At
  <2> QED
    BY <1>2, <2>2, <2>3, <2>4, <2>5, <2>6, <2>7 DEF Client, Pause, ChangeOption
<1>3. ASSUME NEW r \in Runs, Download(r) PROVE SizedInv'
  <2>1. kind' = kind /\ run[r] \in RunState
    BY <1>0, <1>3, DownloadShrinks
  <2>2. ASSUME NEW step \in Steps \ {"open"}, Goto(r, step) \/ Leave(r, step)
        PROVE  SizedInv'
    <3>1. run'[r].pc = step /\ \A q \in Runs \ {r} : run'[q] = run[q]
      BY <1>0, <2>1, <2>2, LeftType DEF Goto, Leave, RunState
    <3> QED
      BY <1>1, <2>1, <3>1 DEF At
  <2>3. CASE Exit(r)
    <3> DEFINE rs == [run EXCEPT ![r] = Over(r)]
    <3>1. /\ rs \in [Runs -> RunState] /\ rs[r].pc = "done"
          /\ \A q \in Runs \ {r} : rs[q] = run[q]
      BY <1>0, LeftType
    <3>2. run' = rs \/ run' = Cancel(rs, cancel)
      BY <2>3 DEF Exit
    <3> HIDE DEF rs
    <3>3. \A q \in Runs : run'[q].pc = rs[q].pc /\ run'[q].sized = rs[q].sized
      BY <3>1, <3>2, CancelType
    <3> QED
      BY <1>1, <2>1, <3>1, <3>3 DEF At
  <2>4. CASE IndexPanics(r)
    BY <1>0, <1>1, <2>1, <2>4, LeftType DEF IndexPanics, Reloaded, At
  <2>5. CASE Look(r) \/ LookCopy(r)
    <3>1. ASSUME NEW m \in Modes, NEW step \in {"loop", "open"}, NEW n, NEW i,
                 Reset(r, m, step, n, i), step = "open" => kind = "file"
          PROVE  SizedInv'
      <4> DEFINE rs == IF file' # file THEN Unlinked(run) ELSE run
      <4>1. /\ rs \in [Runs -> RunState]
            /\ \A q \in Runs : rs[q].pc = run[q].pc /\ rs[q].sized = run[q].sized
        BY <1>0, UnlinkedType
      <4>2. run' = [rs EXCEPT ![r].existing = n, ![r].i = i, ![r].sized = (kind = "file"),
                              ![r].pc = step]
        BY <3>1 DEF Reset
      <4> HIDE DEF rs
      <4>3. /\ run'[r].pc = step /\ run'[r].sized = (kind = "file")
            /\ \A q \in Runs \ {r} : run'[q] = rs[q]
        <5>1. rs[r] \in RunState
          BY <4>1
        <5> QED
          BY <4>1, <4>2, <5>1 DEF RunState
      <4> QED
        BY <1>1, <2>1, <3>1, <4>1, <4>3 DEF At
    <3> QED
      BY <2>2, <2>5, <3>1 DEF Look, LookCopy, Gone, Fail, Steps
  <2>6. CASE Open(r) \/ FtpConnect(r) \/ SftpConnect(r) \/ Transfer(r) \/ Copy(r)
             \/ EndpointFailed(r)
    <3>1. \/ \E step \in Steps \ {"open"} : Leave(r, step)
          \/ \E sized : /\ run' = [run EXCEPT ![r].sized = sized, ![r].pc = "open"]
                        /\ kind = "ftp" \/ sized = TRUE
          \/ \E n : run' = [run EXCEPT ![r].offset = n, ![r].written = n,
                                         ![r].attached = TRUE, ![r].pc = "check"]
          \/ run' = [run EXCEPT ![r].written = @ + 1, ![r].pc = "check"]
          \/ run' = [run EXCEPT ![r].i = @ + 1, ![r].pc = "loop"]
      BY <2>6 DEF Open, FtpConnect, SftpConnect, Transfer, Copy, EndpointFailed, Fail,
         PauseAfterCancel, Steps
    <3>2. CASE \E n : run' = [run EXCEPT ![r].offset = n, ![r].written = n,
                                         ![r].attached = TRUE, ![r].pc = "check"]
      BY <1>0, <1>1, <2>1, <3>2 DEF At, RunState
    <3>3. CASE \E sized : /\ run' = [run EXCEPT ![r].sized = sized, ![r].pc = "open"]
                          /\ kind = "ftp" \/ sized = TRUE
      BY <1>0, <1>1, <2>1, <3>3 DEF At, RunState
    <3>4. CASE \/ run' = [run EXCEPT ![r].written = @ + 1, ![r].pc = "check"]
               \/ run' = [run EXCEPT ![r].i = @ + 1, ![r].pc = "loop"]
      BY <1>0, <1>1, <2>1, <3>4 DEF At, RunState
    <3> QED
      BY <2>2, <3>1, <3>2, <3>3, <3>4
  <2>7. CASE NextEndpoint(r) \/ Check(r) \/ EndOfSource(r) \/ ReadFails(r) \/ Complete(r)
    BY <2>2, <2>7 DEF NextEndpoint, Check, EndOfSource, ReadFails, Complete, Fail,
       PauseAfterCancel, Steps
  <2> QED
    BY <1>3, <2>3, <2>4, <2>5, <2>6, <2>7 DEF Download, DownloadStep
<1>4. CASE UNCHANGED vars
  BY <1>4 DEF vars, stateVars, SizedInv, At
<1> QED
  BY <1>2, <1>3, <1>4 DEF Next

LEMMA BornStep == TypeInv /\ BornInv /\ [Next]_vars => BornInv'
<1> SUFFICES ASSUME TypeInv, BornInv, [Next]_vars PROVE BornInv'
  OBVIOUS
<1>1. CASE Client
  <2>2. CASE Add
    BY <2>2 DEF Add, BornInv, At
  <2>3. CASE Start \/ PauseTask \/ Remove \/ PurgeLocalState
    BY <2>3 DEF Start, PauseTask, Remove, PurgeLocalState, BornInv
  <2>4. CASE ChangeURI
    BY <2>4 DEF ChangeURI, stateVars, BornInv, At
  <2>5. CASE Unlink \/ Rename
    <3>1. UNCHANGED <<known, status, removed>> /\ run' = Unlinked(run)
      BY <2>5 DEF Unlink, Rename, NothingThere, stateVars
    <3>2. \A q \in Runs : At(q, "new") => At(q, "new")'
      BY <3>1, UnlinkedType DEF TypeInv, RunType, At
    <3> QED
      BY <3>1, <3>2 DEF BornInv
  <2>6. CASE LoadSessionTasks
    BY <2>6 DEF LoadSessionTasks, Reloaded, BornInv
  <2> QED
    BY <1>1, <2>2, <2>3, <2>4, <2>5, <2>6 DEF Client, Pause, ChangeOption
<1>2. ASSUME NEW r \in Runs, Download(r) PROVE BornInv'
  <2>1. status # "none"
    BY <1>2 DEF BornInv, Download, DownloadStep, Look, LookCopy, NextEndpoint, IndexPanics, FtpConnect,
       SftpConnect, Open, Check, Transfer, Copy, EndOfSource, ReadFails, EndpointFailed,
       Complete, Exit, At
  <2>2. known' = known /\ removed' = removed /\ status' # "none"
    BY <1>2, <2>1 DEF Download, DownloadStep, Look, LookCopy, NextEndpoint, IndexPanics, FtpConnect,
       SftpConnect, Open, Check, Transfer, Copy, EndOfSource, ReadFails, EndpointFailed,
       Complete, Exit, KeepAround, stateVars, Gone, Fail, PauseAfterCancel, SetStatus, Reloaded
  <2> QED
    BY <2>1, <2>2 DEF BornInv
<1>3. CASE UNCHANGED vars
  BY <1>3 DEF vars, stateVars, BornInv, At
<1> QED
  BY <1>1, <1>2, <1>3 DEF Next

LEMMA SoleStep == TypeInv /\ PathInv /\ SoleInv /\ [Next]_vars => SoleInv'
<1> SUFFICES ASSUME TypeInv, PathInv, SoleInv, [Next]_vars PROVE SoleInv'
  OBVIOUS
<1>1. SizedInv /\ BornInv /\ CourseInv
  BY DEF SoleInv
<1>2. CourseInv'
  <2> SUFFICES ASSUME NEW r \in Runs, Sole(r)', ~removed', ~moved' \/ At(r, "new")'
               PROVE  Course(r)'
    BY DEF CourseInv
  <2>1. Sole(r) /\ NewStays
    BY RunsBegin DEF NewStays, Sole
  <2>2. CASE Client
    BY <1>1, <2>1, <2>2, ClientCourse DEF CourseInv
  <2>3. ASSUME NEW q \in Runs, Download(q) PROVE Course(r)'
    <3>1. ~At(q, "new")
      BY <2>3 DEF Download, DownloadStep, Look, LookCopy, NextEndpoint, IndexPanics, FtpConnect,
         SftpConnect, Open, Check, Transfer, Copy, EndOfSource, ReadFails, EndpointFailed,
         Complete, Exit, At
    <3>2. q = r
      BY <2>1, <3>1 DEF Sole
    <3>3. ~removed /\ moved' = moved /\ ~At(r, "new")'
      <4>1. ~removed
        BY <2>3, DownloadShrinks
      <4>2. moved' = moved
        BY <2>3 DEF Download, IndexPanics, Reloaded, pathVars
      <4> QED
        BY <2>1, <3>1, <3>2, <4>1, <4>2 DEF NewStays
    <3>4. Course(r)
      BY <1>1, <2>1, <3>3 DEF CourseInv
    <3> QED
      BY <1>1, <2>3, <3>2, <3>3, <3>4, DownloadCourse
  <2>4. CASE UNCHANGED vars
    BY <1>1, <2>1, <2>4
       DEF vars, stateVars, pathVars, CourseInv, Course, Reads, Good, Ordered, At, Working, Alive
  <2> QED
    BY <2>2, <2>3, <2>4 DEF Next
<1> QED
  BY <1>1, <1>2, SizedStep, BornStep DEF SoleInv

LEMMA SoleInit == Init => SoleInv
<1> SUFFICES ASSUME Init PROVE SoleInv
  OBVIOUS
<1>1. \A r \in Runs : At(r, "new")
  BY DEF Init, NewRun, At
<1>2. \A r \in Runs : Course(r)
  BY <1>1 DEF Init, Course, Reads, Ordered, At
<1> QED
  BY <1>1, <1>2 DEF Init, SoleInv, SizedInv, BornInv, CourseInv, At

\* However mirrors fail, options change, files are there already and the program restarts, a
\* task whose only run took the source over sftp, or copied it from the start, and that was
\* not renamed meanwhile, is complete only with every byte in its place.
THEOREM SoleRunCorrect == Spec => []SoleRunIsWhole
<1>1. SoleInv => SoleRunIsWhole
  BY DEF SoleInv, CourseInv, Course, Good, SoleRunIsWhole
<1> QED
  BY <1>1, TypeInit, TypeStep, PathInit, PathStep, SoleInit, SoleStep, PTL DEF Spec
==============================================================================
