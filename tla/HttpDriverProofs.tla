-------------------------- MODULE HttpDriverProofs --------------------------
(* Theorems about HttpDriver for any number of runs, blocks and tries.        *)
EXTENDS HttpDriver, TLAPS

StateType == /\ known \in BOOLEAN /\ status \in Statuses /\ running \in BOOLEAN
             /\ cancel \in Runs \cup {None} /\ removed \in BOOLEAN
             /\ lowSpeed \in BOOLEAN
FileType == size \in 0..Total /\ good \subseteq Blocks
PathType == unlink \in BOOLEAN /\ moved \in BOOLEAN
RunType == run \in [Runs -> RunState]

LEMMA TypeParts == TypeOK <=> StateType /\ FileType /\ PathType /\ RunType
BY DEF TypeOK, StateType, FileType, PathType, RunType

LEMMA TypePartsNext == TypeOK' <=> StateType' /\ FileType' /\ PathType' /\ RunType'
BY DEF TypeOK, StateType, FileType, PathType, RunType

LEMMA CancelType ==
    ASSUME NEW rs \in [Runs -> RunState], NEW c
    PROVE  /\ Cancel(rs, c) \in [Runs -> RunState]
           /\ \A r \in Runs : /\ Cancel(rs, c)[r].pc = rs[r].pc
                              /\ Cancel(rs, c)[r].sized = rs[r].sized
                              /\ Cancel(rs, c)[r].cancelled = (rs[r].cancelled \/ r = c)
BY DEF Cancel, RunState

\* What is kept of a run.
LEMMA KeptType ==
    ASSUME RunType, NEW r \in Runs, NEW step \in Steps
    PROVE  /\ Left(r, step) \in RunState /\ Left(r, step).pc = step
           /\ Left(r, step).cancelled = run[r].cancelled
           /\ Ended(r, step) \in RunState /\ Ended(r, step).pc = step
           /\ Ended(r, step).cancelled = run[r].cancelled
           /\ Ended(r, step).sized = run[r].sized /\ Ended(r, step).todo = run[r].todo
           /\ Over(r, step) \in RunState /\ Over(r, step).pc = step
           /\ Over(r, step).sized = run[r].sized /\ Over(r, step).todo = run[r].todo
<1>1. /\ run[r].cancelled \in BOOLEAN /\ run[r].sized \in BOOLEAN
      /\ run[r].todo \in SUBSET Blocks /\ run[r].tries \in Nat
  BY DEF RunType, RunState
<1>3. Left(r, step) \in RunState /\ Left(r, step).pc = step
      /\ Left(r, step).cancelled = run[r].cancelled
  BY <1>1, ShapeAssumption DEF Left, Closed, RunState
<1>4. /\ Ended(r, step) \in RunState /\ Ended(r, step).pc = step
      /\ Ended(r, step).cancelled = run[r].cancelled
      /\ Ended(r, step).sized = run[r].sized /\ Ended(r, step).todo = run[r].todo
  BY <1>1, ShapeAssumption DEF Ended, Closed, RunState
<1>5. /\ Over(r, step) \in RunState /\ Over(r, step).pc = step
      /\ Over(r, step).sized = run[r].sized /\ Over(r, step).todo = run[r].todo
  BY <1>1, ShapeAssumption DEF Over, Closed, RunState
<1> QED
  BY <1>3, <1>4, <1>5

\* A file that is taken away changes no run but for its handle.
LEMMA NothingThereType ==
    ASSUME RunType, NothingThere
    PROVE  /\ FileType' /\ RunType'
           /\ \A r \in Runs : /\ run'[r].pc = run[r].pc
                              /\ run'[r].cancelled = run[r].cancelled
                              /\ run'[r].sized = run[r].sized
                              /\ run'[r].existing = run[r].existing
                              /\ run'[r].chunked = run[r].chunked
                              /\ run'[r].todo = run[r].todo
<1>1. ASSUME NEW r \in Runs
      PROVE  /\ run'[r] \in RunState
             /\ run'[r].pc = run[r].pc
             /\ run'[r].cancelled = run[r].cancelled
             /\ run'[r].sized = run[r].sized
             /\ run'[r].existing = run[r].existing
             /\ run'[r].chunked = run[r].chunked
             /\ run'[r].todo = run[r].todo
  <2>1. run[r] \in RunState
    BY DEF RunType
  <2>2. run'[r] = IF Opens(r) THEN [run[r] EXCEPT !.away = TRUE] ELSE run[r]
    BY DEF NothingThere
  <2> QED
    BY <2>1, <2>2 DEF RunState
<1>2. run' \in [Runs -> RunState]
  BY <1>1 DEF NothingThere
<1>3. size' \in 0..Total /\ good' \subseteq Blocks
  BY ShapeAssumption DEF NothingThere
<1> QED
  BY <1>1, <1>2, <1>3 DEF RunType, FileType

LEMMA SetStatusType ==
    ASSUME StateType, NEW s \in Statuses, SetStatus(s)
    PROVE  status' \in Statuses
BY DEF StateType, SetStatus

LEMMA ClientType == ASSUME TypeOK, Client PROVE TypeOK'
<1>0. StateType /\ FileType /\ PathType /\ RunType
  BY TypeParts
<1>1. CASE Start
  <2>1. PICK r \in Runs : cancel' = r /\ run' = [run EXCEPT ![r].pc = "stat"]
    BY <1>1 DEF Start
  <2>2. RunType'
    BY <1>0, <2>1 DEF RunType, RunState, Steps
  <2> QED
    BY <1>0, <1>1, <2>1, <2>2, TypePartsNext DEF Start, StateType, FileType, PathType, Statuses, fileVars
<1>2. CASE Pause
  BY <1>0, <1>2, CancelType DEF Pause, StateType, FileType, PathType, RunType, Statuses,
     fileVars, pathVars, TypeOK
<1>3. CASE Remove
  <2>1. PICK force \in BOOLEAN : unlink' = (unlink \/ force)
    BY <1>3 DEF Remove
  <2>2. PathType'
    BY <1>0, <1>3, <2>1 DEF Remove, PathType
  <2> QED
    BY <1>0, <1>3, <2>2, CancelType, TypePartsNext DEF Remove, StateType, FileType, RunType,
       Statuses, fileVars
<1>4. CASE PurgeLocalState
  BY <1>0, <1>4 DEF PurgeLocalState, StateType, FileType, PathType, RunType, fileVars, pathVars,
     TypeOK
<1>5. CASE LoadSessionTasks
  <2>1. \A r \in Runs : run[r] \in RunState /\ Over(r, "killed") \in RunState
    BY <1>0, KeptType DEF RunType, Steps
  <2>2. RunType'
    BY <1>5, <2>1 DEF LoadSessionTasks, RunType
  <2> QED
    BY <1>0, <1>5, <2>2, TypePartsNext DEF LoadSessionTasks, StateType, FileType, PathType, fileVars,
       pathVars
<1>6. CASE Unlink \/ ChangeOption
  BY <1>0, <1>6, NothingThereType, TypePartsNext DEF Unlink, ChangeOption, StateType, PathType,
     stateVars
<1> QED
  BY <1>1, <1>2, <1>3, <1>4, <1>5, <1>6 DEF Client

\* A step of run r is its own: it takes nothing from the others but, perhaps, their context,
\* does not forget that it began, and undoes no cancellation.
OwnStep(r) ==
    /\ RunType'
    /\ \A q \in Runs \ {r} : /\ run'[q].pc = run[q].pc /\ run'[q].sized = run[q].sized
                             /\ run[q].cancelled => run'[q].cancelled
    /\ run'[r].pc # "new"
    /\ run'[r].pc # "done" => (run[r].cancelled => run'[r].cancelled)

LEMMA BecomesOwn ==
    ASSUME RunType, NEW r \in Runs, NEW s \in RunState, run' = [run EXCEPT ![r] = s],
           s.pc # "new", s.pc = "done" \/ s.cancelled = run[r].cancelled
    PROVE  OwnStep(r) /\ run'[r] = s
<1>1. run' \in [Runs -> RunState] /\ run'[r] = s /\ \A q \in Runs \ {r} : run'[q] = run[q]
  BY DEF RunType
<1> QED
  BY <1>1 DEF OwnStep, RunType

LEMMA GotoOwn ==
    ASSUME RunType, NEW r \in Runs, NEW step \in Steps, step \notin {"new", "done"},
           Goto(r, step)
    PROVE  OwnStep(r) /\ run'[r] = [run[r] EXCEPT !.pc = step]
<1>1. [run[r] EXCEPT !.pc = step] \in RunState
  BY DEF RunType, RunState
<1>2. run' = [run EXCEPT ![r] = [run[r] EXCEPT !.pc = step]]
  BY DEF Goto, RunType
<1> QED
  BY <1>1, <1>2, BecomesOwn DEF RunType, RunState

LEMMA LeaveOwn ==
    ASSUME RunType, NEW r \in Runs, NEW step \in Steps, step \notin {"new", "done"},
           Leave(r, step) \/ Becomes(r, Left(r, step))
    PROVE  /\ OwnStep(r) /\ run'[r].pc = step
           /\ Leave(r, step) => run'[r].sized = run[r].sized /\ run'[r].todo = run[r].todo
<1>1. CASE Leave(r, step)
  <2> DEFINE s == Ended(r, step)
  <2>1. run' = [run EXCEPT ![r] = s]
    BY <1>1 DEF Leave, Becomes
  <2>2. /\ s \in RunState /\ s.pc = step /\ s.cancelled = run[r].cancelled
        /\ s.sized = run[r].sized /\ s.todo = run[r].todo
    BY KeptType
  <2> HIDE DEF s
  <2>3. OwnStep(r) /\ run'[r] = s
    BY <2>1, <2>2, BecomesOwn
  <2> QED
    BY <2>2, <2>3
<1>2. CASE Becomes(r, Left(r, step)) /\ ~Leave(r, step)
  <2> DEFINE s == Left(r, step)
  <2>1. run' = [run EXCEPT ![r] = s]
    BY <1>2 DEF Becomes
  <2>2. s \in RunState /\ s.pc = step /\ s.cancelled = run[r].cancelled
    BY KeptType
  <2> HIDE DEF s
  <2>3. OwnStep(r) /\ run'[r] = s
    BY <2>1, <2>2, BecomesOwn
  <2> QED
    BY <1>2, <2>2, <2>3
<1> QED
  BY <1>1, <1>2

\* A run that opens its file.
LEMMA OpenedOwn ==
    ASSUME TypeOK, NEW r \in Runs, NEW b \in BOOLEAN, NEW start \in 0..Total, NEW t,
           Opened(r, b, start, t)
    PROVE  /\ OwnStep(r)
           /\ run'[r].pc = "check" /\ run'[r].chunked = b /\ run'[r].away = FALSE
           /\ run'[r].todo = (start + 1)..Total
<1>0. RunType /\ run[r] \in RunState /\ Total \in Nat
  BY TypeParts, ShapeAssumption DEF RunType
<1>1. PICK rest \in SUBSET Blocks : rest = (start + 1)..Total
  BY <1>0 DEF Blocks
<1> DEFINE s == [run[r] EXCEPT !.chunked = b, !.pc = "check", !.todo = rest, !.away = FALSE]
<1>2. run' = [run EXCEPT ![r] = s]
  BY <1>0, <1>1 DEF Opened, RunType
<1>3. /\ s \in RunState /\ s.pc = "check" /\ s.chunked = b /\ s.away = FALSE /\ s.todo = rest
      /\ s.cancelled = run[r].cancelled
  BY <1>0 DEF RunState, Steps
<1> HIDE DEF s
<1> QED
  BY <1>0, <1>1, <1>2, <1>3, BecomesOwn

LEMMA DownloadOwn == ASSUME TypeOK, NEW r \in Runs, Download(r) PROVE OwnStep(r)
<1>0. /\ RunType /\ run[r] \in RunState /\ Total \in Nat
      /\ \A mode \in Modes : Reused(mode) \in 0..Total
  BY TypeParts, ShapeAssumption DEF FileType, RunType, Reused
<1>1. CASE Stat(r)
  <2>1. ASSUME NEW mode \in Modes,
               run' = [run EXCEPT ![r].existing = Reused(mode), ![r].pc = "probe"]
        PROVE  OwnStep(r)
    <3>1. run' = [run EXCEPT ![r] = [run[r] EXCEPT !.existing = Reused(mode), !.pc = "probe"]]
      BY <1>0, <2>1 DEF RunType
    <3>2. [run[r] EXCEPT !.existing = Reused(mode), !.pc = "probe"] \in RunState
      BY <1>0 DEF RunState, Steps
    <3> QED
      BY <1>0, <3>1, <3>2, BecomesOwn DEF RunState
  <2> QED
    BY <1>0, <1>1, <2>1, GotoOwn, LeaveOwn DEF Stat, Fail, Steps
<1>2. CASE Probe(r)
  <2>1. ASSUME NEW sized \in BOOLEAN,
               run' = [run EXCEPT ![r].sized = sized, ![r].tries = 1, ![r].pc = "request"]
        PROVE  OwnStep(r)
    <3> DEFINE s == [run[r] EXCEPT !.sized = sized, !.tries = 1, !.pc = "request"]
    <3>1. run' = [run EXCEPT ![r] = s]
      BY <1>0, <2>1 DEF RunType
    <3>2. s \in RunState /\ s.pc = "request" /\ s.cancelled = run[r].cancelled
      BY <1>0 DEF RunState, Steps
    <3> HIDE DEF s
    <3> QED
      BY <1>0, <3>1, <3>2, BecomesOwn
  <2>2. ASSUME Becomes(r, Closed("finish", run[r].cancelled, TRUE, {}, 0)) PROVE OwnStep(r)
    <3> DEFINE s == Closed("finish", run[r].cancelled, TRUE, {}, 0)
    <3>0. /\ "finish" \in Steps /\ run[r].cancelled \in BOOLEAN /\ TRUE \in BOOLEAN
          /\ {} \in SUBSET Blocks /\ 0 \in Nat
      BY <1>0 DEF Steps, RunState
    <3>1. s \in RunState /\ s.pc = "finish" /\ s.cancelled = run[r].cancelled
      BY <3>0, ShapeAssumption DEF Closed, RunState
    <3>2. run' = [run EXCEPT ![r] = s]
      BY <2>2 DEF Becomes
    <3> HIDE DEF s
    <3> QED
      BY <1>0, <3>1, <3>2, BecomesOwn
  <2> QED
    BY <1>2, <2>1, <2>2 DEF Probe, ProbeResource
<1>3. CASE Retry(r)
  <2>1. ASSUME NEW sized \in BOOLEAN, NEW mode \in Modes,
               run' = [run EXCEPT ![r].sized = sized, ![r].existing = Reused(mode),
                                  ![r].pc = "request"]
        PROVE  OwnStep(r)
    <3> DEFINE s == [run[r] EXCEPT !.sized = sized, !.existing = Reused(mode), !.pc = "request"]
    <3>1. run' = [run EXCEPT ![r] = s]
      BY <1>0, <2>1 DEF RunType
    <3>2. s \in RunState /\ s.pc = "request" /\ s.cancelled = run[r].cancelled
      BY <1>0 DEF RunState, Steps
    <3> HIDE DEF s
    <3> QED
      BY <1>0, <3>1, <3>2, BecomesOwn
  <2> QED
    BY <1>0, <1>3, <2>1, LeaveOwn DEF Retry, ProbeResource, PauseAfterCancel, Steps
<1>4. CASE DownloadChunked(r)
  BY <1>0, <1>4, OpenedOwn DEF DownloadChunked, RunState
<1>5. CASE DownloadSingle(r)
  <2>1. (IF Ranged THEN run[r].existing ELSE 0) \in 0..Total
    BY <1>0 DEF RunState
  <2> QED
    BY <1>5, <2>1, OpenedOwn DEF DownloadSingle
<1>6. CASE RequestFails(r) \/ Check(r) \/ ReadFails(r) \/ EndOfBody(r)
  BY <1>0, <1>6, GotoOwn, LeaveOwn DEF RequestFails, Check, ReadFails, EndOfBody, Steps
<1>10. CASE AttemptFailed(r)
  <2>1. ASSUME run' = [run EXCEPT ![r].tries = @ + 1, ![r].pc = "retry"] PROVE OwnStep(r)
    <3> DEFINE n == run[r].tries + 1
    <3>1. n \in Nat
      BY <1>0 DEF RunState
    <3>2. run' = [run EXCEPT ![r].tries = n, ![r].pc = "retry"]
      BY <2>1
    <3> HIDE DEF n
    <3> QED
      BY <1>0, <3>1, <3>2 DEF OwnStep, RunType, RunState, Steps
  <2> QED
    BY <1>0, <1>10, <2>1, LeaveOwn DEF AttemptFailed, Fail, PauseAfterCancel, Steps
<1>7. CASE Written(r) \/ Complete(r) \/ Verify(r)
  BY <1>0, <1>7, GotoOwn, LeaveOwn DEF Written, Complete, Verify, Fail, Steps
<1>8. CASE Read(r)
  <2>1. PICK b \in run[r].todo :
           LET next == [run EXCEPT ![r].todo = @ \ {b}, ![r].pc = "check"]
           IN run' = next \/ run' = Cancel(next, cancel)
    BY <1>8 DEF Read
  <2> DEFINE s == [run[r] EXCEPT !.todo = @ \ {b}, !.pc = "check"]
             next == [run EXCEPT ![r] = s]
  <2>2. s \in RunState /\ s.pc = "check" /\ s.cancelled = run[r].cancelled
    BY <1>0 DEF RunState, Steps
  <2>3. run' = next \/ run' = Cancel(next, cancel)
    BY <1>0, <2>1 DEF RunType
  <2> HIDE DEF s
  <2>4. /\ next \in [Runs -> RunState] /\ next[r] = s
        /\ \A q \in Runs \ {r} : next[q] = run[q]
    BY <1>0, <2>2 DEF RunType
  <2> HIDE DEF next
  <2> QED
    BY <1>0, <2>2, <2>3, <2>4, CancelType DEF OwnStep, RunType, RunState
<1>9. CASE Exit(r)
  <2>0. Over(r, "done") \in RunState /\ Over(r, "done").pc = "done"
    BY <1>0, KeptType DEF Steps
  <2>1. CASE ~known
    <3>1. run' = [run EXCEPT ![r] = Over(r, "done")]
      BY <1>9, <2>1 DEF Exit, Becomes
    <3> QED
      BY <1>0, <2>0, <3>1, BecomesOwn
  <2>2. CASE known
    <3> DEFINE rs == Cancel(run, cancel)
    <3>1. run' = [rs EXCEPT ![r] = Over(r, "done")]
      BY <1>9, <2>2 DEF Exit
    <3>2. /\ rs \in [Runs -> RunState]
          /\ \A q \in Runs : /\ rs[q].pc = run[q].pc /\ rs[q].sized = run[q].sized
                             /\ run[q].cancelled => rs[q].cancelled
      BY <1>0, CancelType DEF RunType, RunState
    <3> HIDE DEF rs
    <3>3. /\ run' \in [Runs -> RunState] /\ run'[r].pc = "done"
          /\ \A q \in Runs \ {r} : run'[q] = rs[q]
      BY <2>0, <3>1, <3>2
    <3> QED
      BY <3>2, <3>3 DEF OwnStep, RunType
  <2> QED
    BY <2>1, <2>2
<1> QED
  BY <1>1, <1>2, <1>3, <1>4, <1>5, <1>6, <1>7, <1>8, <1>9, <1>10 DEF Download, DownloadStep

LEMMA StateStepType == ASSUME TypeOK, NEW r \in Runs, Download(r) PROVE StateType'
<1>0. /\ StateType /\ run[r] \in RunState /\ Total \in Nat
      /\ {"active", "paused", "complete", "error", "removed"} \subseteq Statuses
  BY TypeParts, ShapeAssumption DEF RunType, Statuses
<1>1. ASSUME SetActive PROVE status' \in Statuses
  BY <1>0, <1>1 DEF SetActive, StateType
<1>2. CASE Stat(r) \/ Retry(r) \/ Verify(r) \/ AttemptFailed(r)
  BY <1>0, <1>2, SetStatusType DEF Stat, Retry, Verify, AttemptFailed, Fail,
     PauseAfterCancel, KeepFields, StateType
<1>3. CASE Probe(r) \/ RequestFails(r) \/ Check(r) \/ ReadFails(r) \/ EndOfBody(r)
  BY <1>0, <1>3 DEF Probe, RequestFails, Check, ReadFails, EndOfBody, stateVars, StateType
<1>4. CASE DownloadChunked(r) \/ DownloadSingle(r)
  BY <1>0, <1>1, <1>4 DEF DownloadChunked, DownloadSingle, Opened, KeepFields, StateType,
     RunState
<1>5. CASE Read(r)
  BY <1>0, <1>1, <1>5 DEF Read, StateType
<1>6. CASE Written(r) \/ Complete(r)
  BY <1>0, <1>6, SetStatusType DEF Written, Complete, SetCompleted, KeepFields, StateType
<1>7. CASE Exit(r)
  BY <1>0, <1>7 DEF Exit, StateType
<1> QED
  BY <1>2, <1>3, <1>4, <1>5, <1>6, <1>7 DEF Download, DownloadStep

LEMMA FileStepType == ASSUME TypeOK, NEW r \in Runs, Download(r) PROVE FileType'
<1>0. FileType /\ run[r] \in RunState /\ Total \in Nat
  BY TypeParts, ShapeAssumption DEF RunType
<1>1. CASE UNCHANGED fileVars
  BY <1>0, <1>1 DEF FileType, fileVars
<1>2. CASE DownloadChunked(r) \/ DownloadSingle(r)
  BY <1>0, <1>2 DEF DownloadChunked, DownloadSingle, Opened, FileType
<1>3. CASE Read(r)
  BY <1>0, <1>3 DEF Read, FileType, RunState, Blocks, fileVars
<1> QED
  BY <1>1, <1>2, <1>3 DEF Download, DownloadStep, Stat, Probe, Retry, RequestFails, Check, ReadFails,
     EndOfBody, Written, Complete, Verify, AttemptFailed, Exit, fileVars

\* The fields keep their types whatever calls and runs interleave.
THEOREM TypeCorrect == Spec => []TypeOK
<1>1. Init => TypeOK
  <2> SUFFICES ASSUME Init PROVE TypeOK
    OBVIOUS
  <2>1. NewRun \in RunState
    <3>1. "new" \in Steps /\ FALSE \in BOOLEAN /\ {} \in SUBSET Blocks /\ 0 \in Nat
      BY DEF Steps
    <3> QED
      BY <3>1, ShapeAssumption DEF NewRun, Closed, RunState
  <2>2. run \in [Runs -> RunState]
    BY <2>1 DEF Init
  <2>3. size \in 0..Total /\ good \subseteq Blocks
    BY ShapeAssumption DEF Init, Blocks
  <2>4. known \in BOOLEAN /\ status \in Statuses /\ running \in BOOLEAN
        /\ cancel \in Runs \cup {None} /\ removed \in BOOLEAN /\ lowSpeed \in BOOLEAN
    BY DEF Init, Statuses
  <2> QED
    BY <2>2, <2>3, <2>4, TypeParts DEF StateType, FileType, PathType, RunType, Init
<1>2. TypeOK /\ [Next]_vars => TypeOK'
  <2> SUFFICES ASSUME TypeOK, [Next]_vars PROVE TypeOK'
    OBVIOUS
  <2>1. ASSUME NEW r \in Runs, Download(r) PROVE TypeOK'
    BY <2>1, DownloadOwn, StateStepType, FileStepType, TypeParts, TypePartsNext
       DEF OwnStep, PathType, Download, pathVars
  <2>2. CASE UNCHANGED vars
    BY <2>2 DEF TypeOK, vars, stateVars, fileVars, pathVars
  <2> QED
    BY <2>1, <2>2, ClientType DEF Next
<1> QED
  BY <1>1, <1>2, PTL DEF Spec

-----------------------------------------------------------------------------
(* A step of a run revives no run and undoes no cancellation. *)

Shrinks == \A q \in Runs : run'[q].pc \notin {"new", "done", "killed"} =>
              Alive(q) /\ (run[q].cancelled => run'[q].cancelled)

LEMMA DownloadShrinks == ASSUME TypeOK, NEW r \in Runs, Download(r) PROVE Shrinks
<1>1. OwnStep(r)
  BY DownloadOwn
<1>2. Alive(r)
  BY DEF Download, DownloadStep, Alive, At, Stat, Probe, Retry, DownloadChunked,
     DownloadSingle, RequestFails, Check, Read, ReadFails, EndOfBody, Written, Complete, Verify,
     AttemptFailed, Exit
<1> QED
  BY <1>1, <1>2 DEF Shrinks, OwnStep, Alive

LEMMA DownloadKeepsLive ==
    ASSUME TypeOK, OneLiveRun, NEW r \in Runs, Download(r)
    PROVE  OneLiveRun'
<1>1. Shrinks /\ RunType
  BY DownloadShrinks, TypeParts
<1>2. CASE UNCHANGED <<cancel, running>>
  BY <1>1, <1>2 DEF OneLiveRun, Shrinks, Alive
<1>3. CASE Exit(r) /\ known
  <2> DEFINE rs == Cancel(run, cancel)
  <2>1. rs \in [Runs -> RunState] /\ \A q \in Runs : rs[q].cancelled = (run[q].cancelled \/ q = cancel)
    BY <1>1, CancelType DEF RunType
  <2>2. run' = [rs EXCEPT ![r] = Over(r, "done")]
    BY <1>3 DEF Exit
  <2>3. Over(r, "done").pc = "done"
    BY <1>1, KeptType DEF Steps
  <2> HIDE DEF rs
  <2>4. /\ run'[r].pc = "done"
        /\ \A q \in Runs \ {r} : run'[q].cancelled = (run[q].cancelled \/ q = cancel)
    BY <2>1, <2>2, <2>3
  <2> QED
    BY <1>1, <2>4 DEF OneLiveRun, Shrinks, Alive
<1>4. CASE Exit(r) /\ ~known
  BY <1>2, <1>4 DEF Exit
<1>5. CASE ~Exit(r)
  BY <1>2, <1>5 DEF Download, DownloadStep, Stat, Probe, Retry, DownloadChunked, DownloadSingle,
     RequestFails, Check, Read, ReadFails, EndOfBody, Written, Complete, Verify,
     AttemptFailed, KeepFields, stateVars
<1> QED
  BY <1>3, <1>4, <1>5

\* A restart leaves no run alive.
LEMMA KilledType ==
    ASSUME RunType, LoadSessionTasks
    PROVE  \A r \in Runs : /\ run'[r].pc \in {"new", "done", "killed"}
                           /\ run'[r].pc = run[r].pc \/ (run'[r].pc = "killed" /\ Alive(r))
                           /\ run'[r].sized = run[r].sized /\ run'[r].todo = run[r].todo
<1> SUFFICES ASSUME NEW r \in Runs
             PROVE  /\ run'[r].pc \in {"new", "done", "killed"}
                    /\ run'[r].pc = run[r].pc \/ (run'[r].pc = "killed" /\ Alive(r))
                    /\ run'[r].sized = run[r].sized /\ run'[r].todo = run[r].todo
  OBVIOUS
<1>1. run'[r] = IF Alive(r) THEN Over(r, "killed") ELSE run[r]
  BY DEF LoadSessionTasks
<1>2. "killed" \in Steps
  BY DEF Steps
<1> QED
  BY <1>1, <1>2, KeptType DEF Alive

LEMMA ClientKeepsLive == ASSUME TypeOK, OneLiveRun, Client PROVE OneLiveRun'
<1>0. RunType
  BY TypeParts
<1>1. CASE Start
  <2>1. PICK r \in Runs : cancel' = r /\ run' = [run EXCEPT ![r].pc = "stat"]
    BY <1>1 DEF Start
  <2>2. running' /\ \A q \in Runs : ~(Alive(q) /\ ~run[q].cancelled)
    BY <1>1 DEF Start, OneLiveRun
  <2> QED
    BY <1>0, <2>1, <2>2 DEF OneLiveRun, Alive, RunType, RunState
<1>2. CASE Pause \/ Remove
  <2>1. run' = Cancel(run, cancel)
    BY <1>2 DEF Pause, Remove
  <2>2. \A q \in Runs : /\ run'[q].pc = run[q].pc
                        /\ run'[q].cancelled = (run[q].cancelled \/ q = cancel)
    BY <1>0, <2>1, CancelType DEF RunType
  <2> QED
    BY <2>2 DEF OneLiveRun, Alive
<1>3. CASE PurgeLocalState
  BY <1>3 DEF PurgeLocalState, OneLiveRun, Alive
<1>4. CASE LoadSessionTasks
  <2>1. \A r \in Runs : run'[r].pc \in {"new", "done", "killed"}
    BY <1>0, <1>4, KilledType
  <2> QED
    BY <2>1 DEF OneLiveRun, Alive
<1>5. CASE Unlink \/ ChangeOption
  BY <1>0, <1>5, NothingThereType DEF Unlink, ChangeOption, OneLiveRun, Alive, stateVars
<1> QED
  BY <1>1, <1>2, <1>3, <1>4, <1>5 DEF Client

\* However calls and the ends of old runs interleave, at most one run of a download is not
\* cancelled, and st.cancel is its cancel function.
THEOREM SingleLiveRun == Spec => []OneLiveRun
<1>1. Init => OneLiveRun
  BY DEF Init, OneLiveRun, Alive, NewRun, Closed
<1>2. TypeOK /\ OneLiveRun /\ [Next]_vars => OneLiveRun'
  <2> SUFFICES ASSUME TypeOK, OneLiveRun, [Next]_vars PROVE OneLiveRun'
    OBVIOUS
  <2>1. CASE UNCHANGED vars
    BY <2>1 DEF vars, stateVars, OneLiveRun, Alive
  <2> QED
    BY <2>1, DownloadKeepsLive, ClientKeepsLive DEF Next
<1> QED
  BY <1>1, <1>2, TypeCorrect, PTL DEF Spec

\* Remove stops every run of its download, and no later call starts one.
THEOREM RemovedStops == Spec => []RemovedIsCancelled
<1>1. Init => RemovedIsCancelled
  BY DEF Init, RemovedIsCancelled
<1>2. TypeOK /\ OneLiveRun /\ RemovedIsCancelled /\ [Next]_vars => RemovedIsCancelled'
  <2> SUFFICES ASSUME TypeOK, OneLiveRun, RemovedIsCancelled, [Next]_vars
               PROVE  RemovedIsCancelled'
    OBVIOUS
  <2>0. RunType
    BY TypeParts
  <2>1. ASSUME NEW r \in Runs, Download(r) PROVE RemovedIsCancelled'
    <3>1. Shrinks
      BY <2>1, DownloadShrinks
    <3>2. removed' = removed
      BY <2>1 DEF Download, DownloadStep, Stat, Probe, Retry, DownloadChunked, DownloadSingle,
         RequestFails, Check, Read, ReadFails, EndOfBody, Written, Complete, Verify,
         AttemptFailed, Exit, KeepFields, stateVars
    <3> QED
      BY <3>1, <3>2 DEF RemovedIsCancelled, Shrinks, Alive
  <2>2. CASE Start
    BY <2>2 DEF Start, RemovedIsCancelled
  <2>3. CASE Pause
    BY <2>3 DEF Pause, RemovedIsCancelled
  <2>4. CASE Remove
    <3>1. run' = Cancel(run, cancel)
      BY <2>4 DEF Remove
    <3> QED
      BY <2>0, <3>1, CancelType DEF RunType, RunState, RemovedIsCancelled, OneLiveRun, Alive
  <2>5. CASE PurgeLocalState
    BY <2>5 DEF PurgeLocalState, RemovedIsCancelled, Alive
  <2>6. CASE LoadSessionTasks
    BY <2>6 DEF LoadSessionTasks, RemovedIsCancelled
  <2>7. CASE UNCHANGED vars
    BY <2>7 DEF vars, stateVars, RemovedIsCancelled, Alive
  <2>8. CASE Unlink \/ ChangeOption
    BY <2>0, <2>8, NothingThereType DEF Unlink, ChangeOption, stateVars, RemovedIsCancelled, Alive
  <2> QED
    BY <2>1, <2>2, <2>3, <2>4, <2>5, <2>6, <2>7, <2>8 DEF Next, Client
<1> QED
  BY <1>1, <1>2, TypeCorrect, SingleLiveRun, PTL DEF Spec

-----------------------------------------------------------------------------
(* HttpDriver implements Download: the runs that are not cancelled are the workers. *)

Live == {r \in Runs : Alive(r) /\ ~run[r].cancelled}

\* Less is live after a step that starts nothing, so it is Download's End or a stutter.
LEMMA EndOrStutter ==
    ASSUME OneLiveRun, Live' \subseteq Live, removed' = removed
    PROVE  Contract!End \/ UNCHANGED Contract!vars
<1>1. \A q \in Live, r \in Live : q = r
  BY DEF Live, OneLiveRun
<1>2. Live' = Live \/ (Live' = {} /\ Live # {})
  BY <1>1
<1> QED
  BY <1>2 DEF Live, Contract!End, Contract!vars

LEMMA DownloadImplements ==
    ASSUME TypeOK, OneLiveRun, NEW r \in Runs, Download(r)
    PROVE  Contract!End \/ UNCHANGED Contract!vars
<1>1. removed' = removed
  BY DEF Download, DownloadStep, Stat, Probe, Retry, DownloadChunked, DownloadSingle,
     RequestFails, Check, Read, ReadFails, EndOfBody, Written, Complete, Verify, AttemptFailed, Exit, KeepFields,
     stateVars
<1>2. Live' \subseteq Live
  BY DownloadShrinks DEF Shrinks, Live, Alive
<1> QED
  BY <1>1, <1>2, EndOrStutter

LEMMA ClientImplements ==
    ASSUME TypeOK, OneLiveRun, Client
    PROVE  Contract!Next \/ UNCHANGED Contract!vars
<1>0. RunType
  BY TypeParts
<1>1. CASE Start
  <2>1. PICK r \in Runs : run' = [run EXCEPT ![r].pc = "stat"]
    BY <1>1 DEF Start
  <2>2. Live = {} /\ ~removed /\ removed' = removed
    BY <1>1 DEF Start, OneLiveRun, Live
  <2>3. Live' = {r} \/ Live' = {}
    BY <1>0, <2>1, <2>2 DEF Live, Alive, RunType, RunState
  <2>4. CASE Live' = {r}
    BY <2>2, <2>4 DEF Live, Contract!Begin, Contract!Next
  <2>5. CASE Live' = {}
    BY <2>2, <2>5 DEF Live, Contract!vars
  <2> QED
    BY <2>3, <2>4, <2>5
<1>2. CASE Pause \/ Remove
  <2>1. run' = Cancel(run, cancel)
    BY <1>2 DEF Pause, Remove
  <2>2. \A q \in Runs : /\ run'[q].pc = run[q].pc
                        /\ run'[q].cancelled = (run[q].cancelled \/ q = cancel)
    BY <1>0, <2>1, CancelType DEF RunType
  <2>3. Live' = {}
    BY <2>2 DEF Live, Alive, OneLiveRun
  <2>4. CASE Pause
    BY <2>3, <2>4, EndOrStutter DEF Pause, Contract!Next
  <2>5. CASE Remove
    BY <2>3, <2>5 DEF Remove, Live, Contract!Drop, Contract!Next
  <2> QED
    BY <1>2, <2>4, <2>5
<1>3. CASE PurgeLocalState
  BY <1>3 DEF PurgeLocalState, Alive, Contract!vars
<1>4. CASE LoadSessionTasks
  <2>1. \A r \in Runs : run'[r].pc \in {"new", "done", "killed"}
    BY <1>0, <1>4, KilledType
  <2>2. Live' \subseteq Live
    BY <2>1 DEF Live, Alive
  <2> QED
    BY <1>4, <2>2, EndOrStutter DEF LoadSessionTasks, Contract!Next
<1>5. CASE Unlink \/ ChangeOption
  <2>1. NothingThere /\ removed' = removed
    BY <1>5 DEF Unlink, ChangeOption, stateVars
  <2>2. Live' = Live
    BY <1>0, <2>1, NothingThereType DEF Live, Alive
  <2> QED
    BY <2>1, <2>2 DEF Live, Contract!vars
<1> QED
  BY <1>1, <1>2, <1>3, <1>4, <1>5 DEF Client

\* The HTTP driver is a Download: whatever calls, restarts and ends of old runs interleave,
\* at most one run goes on, and after Remove none goes on and none begins.
THEOREM ImplementsDownload == Spec => KeepsContract
<1>1. Init => Contract!Init
  BY DEF Init, Contract!Init, Alive, NewRun, Closed
<1>2. TypeOK /\ OneLiveRun /\ [Next]_vars => [Contract!Next]_(Contract!vars)
  <2> SUFFICES ASSUME TypeOK, OneLiveRun, [Next]_vars
               PROVE  Contract!Next \/ UNCHANGED Contract!vars
    OBVIOUS
  <2>1. ASSUME NEW r \in Runs, Download(r) PROVE Contract!Next \/ UNCHANGED Contract!vars
    BY <2>1, DownloadImplements DEF Contract!Next
  <2>2. CASE UNCHANGED vars
    BY <2>2 DEF vars, stateVars, Alive, Contract!vars
  <2> QED
    BY <2>1, <2>2, ClientImplements DEF Next
<1> QED
  BY <1>1, <1>2, TypeCorrect, SingleLiveRun, PTL DEF Spec, KeepsContract, Contract!Spec

-----------------------------------------------------------------------------
(* A run that is the first one, and has no holes to fill, makes the file whole but for what *)
(* the server left out.                                                                     *)

\* Where a run is while its work has not been found complete.
Unfinished == {"stat", "probe", "retry", "request", "check", "read", "written", "failed"}

\* The progress of the only run: what it has not fetched yet is to do, and what it takes
\* for progress is a prefix of the resource.
OnCourse(r) ==
    /\ run[r].pc \in {"stat", "probe"} => good = 1..size
    /\ run[r].pc \in {"probe", "request"} => run[r].existing \in {0, size}
    /\ Opens(r) => /\ Blocks \ good \subseteq run[r].todo /\ ~run[r].away
                   /\ run[r].chunked => size = Total
    /\ run[r].pc \in {"written", "finish", "verify"} => Blocks \ good \subseteq run[r].todo
    /\ run[r].pc \in Unfinished => status # "complete"

\* What holds of the file while r is the only run there ever was.
Alone(r) ==
    /\ size = Total \/ good = 1..size
    /\ OnCourse(r)
    /\ status = "complete" => Blocks \ good \subseteq run[r].todo

\* A name is taken away from a removed task, and changes before the run that begins with it.
PathInv == (known \/ removed) /\ (removed => moved) /\ (unlink => removed)

NotBegun == (\A r \in Runs : At(r, "new")) => status # "complete" /\ good = 1..size
FirstInv ==
    /\ NotBegun
    /\ FirstRunOnly /\ ~(Prealloc /\ Segmented) /\ ~moved =>
          \A r \in Runs : ~At(r, "new") => Alone(r)

\* A complete task that is not whole has yet to be verified, or will never be.
Unverified(r) ==
    \/ run[r].pc \in {"finish", "verify", "killed"}
    \/ run[r].pc \in {"exit", "done"} /\ ~run[r].sized
VerifiedInv ==
    Checksum /\ status = "complete" /\ ~moved =>
       good = Blocks \/ \E r \in Runs : Unverified(r)

\* Run r is the only one whose progress a step of it changes, and it does not forget
\* that it began.
MovesAlone(r) ==
    /\ \A q \in Runs \ {r} : run'[q].pc = run[q].pc /\ run'[q].sized = run[q].sized
    /\ run'[r].pc # "new"

LEMMA DownloadMovesAlone ==
    ASSUME TypeOK, NEW r \in Runs, Download(r)
    PROVE  MovesAlone(r)
BY DownloadOwn DEF OwnStep, MovesAlone

LEMMA PathStep == ASSUME PathInv, [Next]_vars PROVE PathInv'
<1>1. ASSUME NEW r \in Runs, Download(r) PROVE PathInv'
  <2>1. UNCHANGED <<known, removed, unlink, moved>>
    BY <1>1 DEF Download, DownloadStep, pathVars, Stat, Probe, Retry, DownloadChunked,
       DownloadSingle, RequestFails, Check, Read, ReadFails, EndOfBody, Written, Complete, Verify,
       AttemptFailed, Exit, KeepFields, stateVars
  <2> QED
    BY <2>1 DEF PathInv
<1>2. CASE Start \/ Pause \/ PurgeLocalState \/ ChangeOption \/ LoadSessionTasks
  BY <1>2 DEF Start, Pause, PurgeLocalState, ChangeOption, LoadSessionTasks, PathInv, pathVars,
     stateVars
<1>3. CASE Remove \/ Unlink \/ UNCHANGED vars
  BY <1>3 DEF Remove, Unlink, PathInv, vars, stateVars, pathVars
<1> QED
  BY <1>1, <1>2, <1>3 DEF Next, Client

\* Each step of the only run keeps what it takes for progress true.
LEMMA AloneStaysAlone ==
    ASSUME TypeOK, NEW r \in Runs, Download(r), Alone(r), ~(Prealloc /\ Segmented)
    PROVE  Alone(r)'
<1>0. /\ RunType /\ run[r] \in RunState /\ size \in 0..Total /\ good \subseteq Blocks
      /\ Total \in Nat \ {0}
  BY TypeParts, ShapeAssumption DEF RunType, FileType
<1>1. /\ size = Total \/ good = 1..size
      /\ status = "complete" => Blocks \ good \subseteq run[r].todo
      /\ OnCourse(r)
  BY DEF Alone
<1>2. ASSUME UNCHANGED fileVars, NEW step \in {"failed", "retry", "exit", "done"},
             run'[r].pc = step,
             \/ status' # "complete"
             \/ status' = status /\ step \in {"exit", "done"} /\ run'[r].todo = run[r].todo
      PROVE  Alone(r)'
  BY <1>1, <1>2 DEF Alone, OnCourse, Opens, Unfinished, fileVars
<1>3. ASSUME NEW step \in Steps, step \notin {"new", "done"}, Goto(r, step)
      PROVE  run'[r].pc = step /\ run'[r].todo = run[r].todo /\ run'[r].chunked = run[r].chunked
             /\ run'[r].away = run[r].away
  <2>1. run'[r] = [run[r] EXCEPT !.pc = step]
    BY <1>0, <1>3, GotoOwn
  <2> QED
    BY <1>0, <2>1 DEF RunState
<1>17. ASSUME NEW step \in Steps, step \notin {"new", "done"}, Leave(r, step)
       PROVE  run'[r].pc = step /\ run'[r].todo = run[r].todo
  BY <1>0, <1>17, LeaveOwn
<1>18. ASSUME NEW step \in Steps, step \notin {"new", "done"}, Becomes(r, Left(r, step))
       PROVE  run'[r].pc = step
  BY <1>0, <1>18, LeaveOwn
<1>4. CASE Stat(r)
  <2>0. good = 1..size /\ status # "complete"
    BY <1>1, <1>4 DEF OnCourse, Opens, Stat, At, Unfinished
  <2>1. ASSUME NEW mode \in Modes,
               run' = [run EXCEPT ![r].existing = Reused(mode), ![r].pc = "probe"]
        PROVE  run'[r].pc = "probe" /\ run'[r].existing \in {0, size}
    BY <1>0, <2>1 DEF RunType, RunState, Reused
  <2>2. \/ run'[r].pc = "exit" /\ status' # "complete"
        \/ run'[r].pc = "probe" /\ run'[r].existing \in {0, size} /\ status' # "complete"
    BY <1>0, <1>3, <1>17, <1>4, <2>0, <2>1 DEF Stat, Fail, SetStatus, Steps
  <2> QED
    BY <1>2, <1>4, <2>0, <2>2 DEF Stat, Alone, OnCourse, Opens, Unfinished, fileVars
<1>5. CASE Probe(r)
  <2>0. good = 1..size /\ status # "complete" /\ run[r].existing \in {0, size}
    BY <1>1, <1>5 DEF OnCourse, Opens, Probe, At, Unfinished
  <2>1. PICK sized \in BOOLEAN :
          IF sized /\ run[r].existing >= Total
          THEN Becomes(r, Closed("finish", run[r].cancelled, TRUE, {}, 0))
          ELSE run' = [run EXCEPT ![r].sized = sized, ![r].tries = 1, ![r].pc = "request"]
    BY <1>5 DEF Probe, ProbeResource
  <2>4. UNCHANGED <<status, size, good>>
    BY <1>5 DEF Probe, stateVars, fileVars
  <2>5. CASE sized /\ run[r].existing >= Total
    <3>1. run'[r] = Closed("finish", run[r].cancelled, TRUE, {}, 0)
      BY <1>0, <2>1, <2>5 DEF Becomes, RunType
    <3>2. run'[r].pc = "finish"
      BY <3>1 DEF Closed
    <3>3. good = Blocks
      BY <1>0, <2>0, <2>5 DEF Blocks
    <3> QED
      BY <2>0, <2>4, <3>2, <3>3 DEF Alone, OnCourse, Opens, Unfinished
  <2>6. CASE ~(sized /\ run[r].existing >= Total)
    <3>1. run'[r].existing = run[r].existing /\ run'[r].pc = "request"
      BY <1>0, <2>1, <2>6 DEF RunType, RunState
    <3> QED
      BY <2>0, <2>4, <3>1 DEF Alone, OnCourse, Opens, Unfinished
  <2> QED
    BY <2>5, <2>6
<1>6. CASE Retry(r)
  <2>0. status # "complete"
    BY <1>1, <1>6 DEF OnCourse, Opens, Retry, At, Unfinished
  <2>1. ASSUME NEW x, NEW mode \in Modes,
               run' = [run EXCEPT ![r].sized = x, ![r].existing = Reused(mode),
                                  ![r].pc = "request"]
        PROVE  run'[r].pc = "request" /\ run'[r].existing \in {0, size}
    BY <1>0, <2>1 DEF RunType, RunState, Reused
  <2>2. \/ run'[r].pc = "exit" /\ status' # "complete"
        \/ run'[r].pc = "request" /\ run'[r].existing \in {0, size} /\ status' # "complete"
    BY <1>0, <1>17, <1>6, <2>0, <2>1 DEF Retry, PauseAfterCancel, SetStatus, Steps
  <2> QED
    BY <1>1, <1>2, <1>6, <2>0, <2>2 DEF Retry, Alone, OnCourse, Opens, Unfinished, fileVars
<1>7. ASSUME NEW chunked \in BOOLEAN, NEW start \in 0..Total, NEW t, Opened(r, chunked, start, t)
      PROVE  /\ run'[r].pc = "check" /\ run'[r].chunked = chunked
             /\ run'[r].todo = (start + 1)..Total /\ run'[r].away = FALSE
             /\ good' = IF t THEN {} ELSE good
             /\ status # "complete" => status' # "complete"
  BY <1>7, OpenedOwn DEF Opened, SetActive
<1>8. CASE DownloadChunked(r)
  <2>0. status # "complete" /\ run[r].existing \in {0, size} /\ Segmented
    BY <1>1, <1>8 DEF OnCourse, Opens, DownloadChunked, InSegments, At, Unfinished
  <2>1. size' = Total
    BY <1>0, <1>1, <1>8, <2>0 DEF DownloadChunked
  <2>2. /\ run'[r].pc = "check" /\ run'[r].todo = (run[r].existing + 1)..Total
        /\ run'[r].away = FALSE
        /\ good' = IF run[r].existing = 0 THEN {} ELSE good
        /\ status' # "complete"
    BY <1>0, <1>7, <1>8, <2>0 DEF DownloadChunked, RunState
  <2>3. Blocks \ good' \subseteq run'[r].todo
    BY <1>0, <1>1, <1>8, <2>0, <2>2 DEF Blocks, DownloadChunked, InSegments
  <2> QED
    BY <2>1, <2>2, <2>3 DEF Alone, OnCourse, Opens, Unfinished
<1>9. CASE DownloadSingle(r)
  <2>0. status # "complete" /\ run[r].existing \in {0, size}
    BY <1>1, <1>9 DEF OnCourse, Opens, DownloadSingle, At, Unfinished
  <2> DEFINE start == IF Ranged THEN run[r].existing ELSE 0
  <2>1. PICK sized \in BOOLEAN :
             /\ Opened(r, FALSE, start, start = 0 /\ (sized \/ ~Prealloc))
             /\ size' = CASE sized /\ (~Prealloc \/ start = 0) -> Total
                          [] ~sized /\ ~Prealloc /\ start = 0 -> 0
                          [] OTHER -> size
    BY <1>0, <1>9 DEF DownloadSingle, RunState
  <2>2. start \in 0..Total /\ start \in {0, size} /\ (Ranged => start < Total)
    BY <1>0, <1>9, <2>0 DEF RunState, DownloadSingle
  <2>3. Prealloc \in BOOLEAN
    BY ShapeAssumption
  <2> HIDE DEF start
  <2>4. /\ run'[r].pc = "check" /\ run'[r].todo = (start + 1)..Total
        /\ good' = IF start = 0 /\ (sized \/ ~Prealloc) THEN {} ELSE good
        /\ status' # "complete" /\ run'[r].chunked = FALSE /\ run'[r].away = FALSE
    BY <1>7, <2>0, <2>1, <2>2
  <2>5. Blocks \ good' \subseteq run'[r].todo
    <3>1. CASE start = 0
      BY <1>0, <2>4, <3>1 DEF Blocks
    <3>2. CASE start # 0
      <4>1. start = size /\ good' = good
        BY <2>2, <2>4, <3>2
      <4>2. 1..size \subseteq good
        BY <1>0, <1>1, <1>9, <4>1, <2>2, <3>2 DEF DownloadSingle, start
      <4> QED
        BY <1>0, <2>4, <4>1, <4>2 DEF Blocks
    <3> QED
      BY <3>1, <3>2
  <2>6. size' = Total \/ good' = 1..size'
    <3>1. CASE start = 0 /\ (sized \/ ~Prealloc)
      BY <1>0, <2>1, <2>3, <2>4, <3>1
    <3>2. CASE ~(start = 0 /\ (sized \/ ~Prealloc))
      BY <1>0, <1>1, <2>1, <2>3, <2>4, <3>2
    <3> QED
      BY <3>1, <3>2
  <2> QED
    BY <2>4, <2>5, <2>6 DEF Alone, OnCourse, Opens, Unfinished
<1>10. CASE RequestFails(r) \/ ReadFails(r)
  BY <1>1, <1>2, <1>10, <1>18 DEF RequestFails, ReadFails, OnCourse, Opens, At, Unfinished,
     Steps, stateVars
<1>11. CASE Check(r)
  <2>1. \/ run'[r].pc = "failed"
        \/ /\ run'[r].pc = "read" /\ run'[r].todo = run[r].todo
           /\ run'[r].chunked = run[r].chunked /\ run'[r].away = run[r].away
    BY <1>3, <1>11, <1>18 DEF Check, Steps
  <2> QED
    BY <1>1, <1>11, <2>1 DEF Check, Alone, OnCourse, Opens, At, Unfinished, stateVars, fileVars
<1>12. CASE Read(r)
  <2>0. /\ status # "complete" /\ Blocks \ good \subseteq run[r].todo
        /\ run[r].chunked => size = Total
        /\ run[r].todo \subseteq Blocks /\ ~run[r].away
    BY <1>0, <1>1, <1>12 DEF Read, At, OnCourse, Opens, Unfinished, RunState
  <2>1. PICK b \in run[r].todo :
           /\ run[r].chunked \/ \A c \in run[r].todo : b <= c
           /\ good' = good \cup {b} /\ size' = IF size < b THEN b ELSE size
           /\ LET next == [run EXCEPT ![r].todo = @ \ {b}, ![r].pc = "check"]
              IN run' = next \/ run' = Cancel(next, cancel)
    BY <1>12, <2>0 DEF Read
  <2> DEFINE next == [run EXCEPT ![r].todo = @ \ {b}, ![r].pc = "check"]
  <2>2. /\ next \in [Runs -> RunState] /\ next[r].pc = "check"
        /\ next[r].todo = run[r].todo \ {b} /\ next[r].chunked = run[r].chunked
        /\ next[r].away = run[r].away
    BY <1>0 DEF RunType, RunState, Steps
  <2>3. run' = next \/ run' = Cancel(next, cancel)
    BY <2>1
  <2> HIDE DEF next
  <2>4. /\ run'[r].pc = "check" /\ run'[r].todo = run[r].todo \ {b}
        /\ run'[r].chunked = run[r].chunked /\ run'[r].away = run[r].away
    BY <2>2, <2>3 DEF Cancel, RunState
  <2>5. Blocks \ good' \subseteq run'[r].todo
    BY <2>0, <2>1, <2>4
  <2>6. status' # "complete"
    BY <1>12, <2>0 DEF Read, SetActive
  <2>7. run[r].chunked => size' = Total
    BY <1>0, <2>0, <2>1 DEF Blocks
  <2>8. size' = Total \/ good' = 1..size'
    <3>1. CASE size = Total
      BY <1>0, <2>0, <2>1, <3>1 DEF Blocks
    <3>2. CASE good = 1..size /\ size < Total
      <4>1. ~run[r].chunked
        BY <1>0, <2>0, <3>2
      <4>2. size + 1 \in run[r].todo
        BY <1>0, <2>0, <3>2 DEF Blocks
      <4>3. b <= size + 1 /\ b \in 1..Total
        BY <2>0, <2>1, <4>1, <4>2 DEF Blocks
      <4> QED
        BY <1>0, <2>1, <3>2, <4>3
    <3> QED
      BY <1>0, <1>1, <3>1, <3>2
  <2> QED
    BY <2>0, <2>4, <2>5, <2>6, <2>7, <2>8 DEF Alone, OnCourse, Opens, Unfinished
<1>13. CASE EndOfBody(r)
  <2>1. Blocks \ good \subseteq run[r].todo /\ status # "complete"
    BY <1>1, <1>13 DEF EndOfBody, At, OnCourse, Opens, Unfinished
  <2>2. run'[r].pc \in {"finish", "written"} /\ run'[r].todo = run[r].todo
    BY <1>13, <1>17 DEF EndOfBody, Steps
  <2> QED
    BY <1>1, <1>13, <2>1, <2>2 DEF EndOfBody, Alone, OnCourse, Opens, Unfinished, stateVars,
       fileVars
<1>14. CASE Written(r) \/ Complete(r) \/ Verify(r)
  <2>1. Blocks \ good \subseteq run[r].todo
    BY <1>1, <1>14 DEF Written, Complete, Verify, At, OnCourse
  <2>2. run'[r].pc \in {"finish", "verify", "exit"} /\ run'[r].todo = run[r].todo
    BY <1>3, <1>14, <1>17 DEF Written, Complete, Verify, Fail, Steps
  <2> QED
    BY <1>1, <1>14, <2>1, <2>2 DEF Written, Complete, Verify, Alone, OnCourse, Opens, Unfinished,
       fileVars
<1>15. CASE AttemptFailed(r)
  <2>1. status # "complete"
    BY <1>1, <1>15 DEF AttemptFailed, At, OnCourse, Unfinished
  <2>2. ASSUME NEW n, run' = [run EXCEPT ![r].tries = n, ![r].pc = "retry"]
        PROVE  run'[r].pc = "retry"
    BY <1>0, <2>2 DEF RunType, RunState
  <2>3. run'[r].pc \in {"exit", "retry"} /\ status' # "complete"
    BY <1>15, <1>17, <2>1, <2>2 DEF AttemptFailed, Fail, PauseAfterCancel, SetStatus, Steps
  <2> QED
    BY <1>2, <1>15, <2>3 DEF AttemptFailed
<1>16. CASE Exit(r)
  <2> DEFINE next == Over(r, "done")
             rs == Cancel(run, cancel)
  <2>1. next.pc = "done" /\ next.todo = run[r].todo
    BY <1>0, KeptType DEF Steps
  <2>2. rs \in [Runs -> RunState]
    BY <1>0, CancelType DEF RunType
  <2>3. run' = [run EXCEPT ![r] = next] \/ run' = [rs EXCEPT ![r] = next]
    BY <1>16 DEF Exit, Becomes
  <2> HIDE DEF next, rs
  <2>4. run'[r] = next
    BY <1>0, <2>2, <2>3 DEF RunType
  <2> QED
    BY <1>2, <1>16, <2>1, <2>4 DEF Exit
<1> QED
  BY <1>4, <1>5, <1>6, <1>8, <1>9, <1>10, <1>11, <1>12, <1>13, <1>14, <1>15, <1>16
     DEF Download, DownloadStep

LEMMA FirstStep == ASSUME TypeOK, PathInv, FirstInv, [Next]_vars PROVE FirstInv'
<1>0. RunType /\ FileType
  BY TypeParts
<1>1. ASSUME NEW r \in Runs, Download(r) PROVE FirstInv'
  <2>1. MovesAlone(r)
    BY <1>1, DownloadMovesAlone
  <2>2. ~At(r, "new") /\ moved' = moved
    BY <1>1 DEF Download, DownloadStep, At, pathVars, Stat, Probe, Retry, DownloadChunked,
       DownloadSingle, RequestFails, Check, Read, ReadFails, EndOfBody, Written, Complete, Verify,
       AttemptFailed, Exit
  <2>3. NotBegun'
    BY <2>1 DEF NotBegun, MovesAlone, At
  <2>4. ASSUME FirstRunOnly', ~(Prealloc /\ Segmented), ~moved',
               NEW q \in Runs, run'[q].pc # "new"
        PROVE  Alone(q)'
    <3>1. r = 1 /\ q = r /\ FirstRunOnly
      BY <2>1, <2>2, <2>4 DEF MovesAlone, FirstRunOnly, At
    <3>2. Alone(r)
      BY <2>2, <2>4, <3>1 DEF FirstInv
    <3> QED
      BY <1>1, <2>4, <3>1, <3>2, AloneStaysAlone
  <2> QED
    BY <2>3, <2>4 DEF FirstInv, At
<1>2. CASE Start
  <2>1. PICK r \in Runs : /\ At(r, "new") /\ \A q \in Runs : At(q, "new") => r <= q
                          /\ run' = [run EXCEPT ![r].pc = "stat"]
    BY <1>2 DEF Start
  <2>2. run'[r].pc = "stat" /\ \A q \in Runs \ {r} : run'[q] = run[q]
    BY <1>0, <2>1 DEF RunType, RunState
  <2>3. NotBegun'
    BY <2>2 DEF NotBegun, At
  <2>4. ASSUME FirstRunOnly', NEW q \in Runs, run'[q].pc # "new"
        PROVE  Alone(q)'
    <3>1. q = r /\ \A p \in Runs : At(p, "new")
      BY <2>1, <2>2, <2>4 DEF FirstRunOnly, At
    <3>2. good = 1..size
      BY <3>1 DEF FirstInv, NotBegun
    <3>3. UNCHANGED <<size, good>> /\ status' # "complete"
      BY <1>2 DEF Start, fileVars
    <3> QED
      BY <2>2, <3>1, <3>2, <3>3 DEF Alone, OnCourse, Opens, Unfinished
  <2> QED
    BY <2>3, <2>4 DEF FirstInv, At
<1>3. ASSUME UNCHANGED <<size, good>>, status' = status \/ status' # "complete",
             moved => moved',
             \A q \in Runs : /\ run'[q].todo = run[q].todo
                             /\ \/ run'[q].pc = "killed" /\ run[q].pc # "new"
                                \/ /\ run'[q].pc = run[q].pc
                                   /\ run'[q].existing = run[q].existing
                                   /\ run'[q].chunked = run[q].chunked
                                   /\ run'[q].away = run[q].away
      PROVE  FirstInv'
  <2>1. \A q \in Runs : run'[q].pc = "new" <=> run[q].pc = "new"
    BY <1>3
  <2>2. NotBegun'
    BY <1>3, <2>1 DEF FirstInv, NotBegun, At
  <2>3. ASSUME FirstRunOnly', ~(Prealloc /\ Segmented), ~moved',
               NEW q \in Runs, run'[q].pc # "new"
        PROVE  Alone(q)'
    <3>1. Alone(q)
      BY <1>3, <2>1, <2>3 DEF FirstInv, FirstRunOnly, At
    <3> QED
      BY <1>3, <2>3, <3>1 DEF Alone, OnCourse, Opens, Unfinished
  <2> QED
    BY <2>2, <2>3 DEF FirstInv, At
<1>4. CASE Pause \/ Remove
  <2>1. run' = Cancel(run, cancel)
    BY <1>4 DEF Pause, Remove
  <2>2. \A q \in Runs : /\ run'[q].todo = run[q].todo
                        /\ run'[q].pc = run[q].pc
                        /\ run'[q].existing = run[q].existing
                        /\ run'[q].chunked = run[q].chunked
                        /\ run'[q].away = run[q].away
    BY <1>0, <2>1 DEF Cancel, RunType, RunState
  <2>3. UNCHANGED <<size, good>> /\ status' # "complete" /\ (moved => moved')
    BY <1>4 DEF Pause, Remove, fileVars, pathVars
  <2> QED
    BY <1>3, <2>2, <2>3
<1>5. CASE LoadSessionTasks
  <2>1. ASSUME NEW q \in Runs
        PROVE  /\ run'[q].todo = run[q].todo
               /\ run'[q] = run[q] \/ (run'[q].pc = "killed" /\ run[q].pc # "new")
    <3>1. run'[q] = IF Alive(q) THEN Over(q, "killed") ELSE run[q]
      BY <1>5 DEF LoadSessionTasks
    <3> QED
      BY <1>0, <3>1, KeptType DEF Alive, Steps
  <2>2. UNCHANGED <<size, good, status, moved>>
    BY <1>5 DEF LoadSessionTasks, fileVars, pathVars
  <2> QED
    BY <1>3, <2>1, <2>2
<1>6. CASE PurgeLocalState \/ UNCHANGED vars
  BY <1>3, <1>6 DEF PurgeLocalState, vars, stateVars, fileVars, pathVars
<1>7. CASE Unlink \/ ChangeOption
  <2>1. moved' /\ NothingThere /\ status' = status
    BY <1>7 DEF Unlink, ChangeOption, PathInv, stateVars
  <2>2. good' = 1..size' /\ \A q \in Runs : run'[q].pc = run[q].pc
    BY <1>0, <2>1, NothingThereType DEF NothingThere
  <2> QED
    BY <2>1, <2>2 DEF FirstInv, NotBegun, At
<1> QED
  BY <1>1, <1>2, <1>4, <1>5, <1>6, <1>7 DEF Next, Client

LEMMA VerifiedStep == ASSUME TypeOK, PathInv, VerifiedInv, [Next]_vars PROVE VerifiedInv'
<1>0. RunType
  BY TypeParts
<1>1. ASSUME NEW r \in Runs, Download(r) PROVE VerifiedInv'
  <2>0. MovesAlone(r) /\ UNCHANGED <<known, removed, moved>>
    BY <1>1, DownloadMovesAlone DEF Download, DownloadStep, pathVars, Stat, Probe, Retry,
       DownloadChunked, DownloadSingle, RequestFails, Check, Read, ReadFails, EndOfBody,
       Written, Complete, Verify, AttemptFailed, Exit, KeepFields, stateVars
  <2> SUFFICES ASSUME Checksum, status' = "complete", ~moved, ~removed, known
               PROVE  good' = Blocks \/ \E q \in Runs : Unverified(q)'
    BY <2>0 DEF VerifiedInv, PathInv
  <2>1. \A q \in Runs \ {r} : Unverified(q) => Unverified(q)'
    BY <2>0 DEF MovesAlone, Unverified
  <2>2. ASSUME UNCHANGED <<status, good>>, Unverified(r) => Unverified(r)'
        PROVE  good' = Blocks \/ \E q \in Runs : Unverified(q)'
    BY <2>1, <2>2 DEF VerifiedInv
  <2>3. ASSUME NEW step \in Steps, step \notin {"new", "done"}, Goto(r, step)
        PROVE  run'[r].pc = step /\ run'[r].sized = run[r].sized
    <3>1. run'[r] = [run[r] EXCEPT !.pc = step]
      BY <1>0, <2>3, GotoOwn
    <3> QED
      BY <1>0, <3>1 DEF RunType, RunState
  <2>4. CASE Stat(r) \/ Probe(r) \/ Retry(r) \/ RequestFails(r) \/ Check(r) \/ ReadFails(r)
             \/ EndOfBody(r) \/ AttemptFailed(r)
    <3>1. ~Unverified(r)
      BY <2>4 DEF Stat, Probe, Retry, RequestFails, Check, ReadFails, EndOfBody,
         AttemptFailed, At, Unverified
    <3>2. UNCHANGED <<status, good>>
      BY <2>4 DEF Stat, Probe, Retry, RequestFails, Check, ReadFails, EndOfBody,
         AttemptFailed, Fail, PauseAfterCancel, SetStatus, stateVars, fileVars
    <3> QED
      BY <2>2, <3>1, <3>2
  <2>5. CASE DownloadChunked(r) \/ DownloadSingle(r) \/ Read(r)
    BY <2>5 DEF DownloadChunked, DownloadSingle, Read, Opened, SetActive
  <2>6. CASE Written(r) \/ Complete(r)
    <3>1. \/ run'[r].pc \in {"finish", "verify"}
          \/ run'[r].pc = "exit" /\ ~run'[r].sized
      BY <2>0, <2>3, <2>6 DEF Written, Complete, Steps
    <3> QED
      BY <3>1 DEF Unverified
  <2>7. CASE Verify(r)
    BY <2>7 DEF Verify, Fail, SetStatus, fileVars
  <2>8. CASE Exit(r)
    <3> DEFINE next == Over(r, "done")
               rs == Cancel(run, cancel)
    <3>1. next.pc = "done" /\ next.sized = run[r].sized
      BY <1>0, KeptType DEF Steps
    <3>2. rs \in [Runs -> RunState]
      BY <1>0, CancelType DEF RunType
    <3>3. run' = [run EXCEPT ![r] = next] \/ run' = [rs EXCEPT ![r] = next]
      BY <2>8 DEF Exit, Becomes
    <3> HIDE DEF next, rs
    <3>4. run'[r] = next
      BY <1>0, <3>2, <3>3 DEF RunType
    <3> QED
      BY <2>2, <2>8, <3>1, <3>4 DEF Exit, At, Unverified, fileVars
  <2> QED
    BY <1>1, <2>4, <2>5, <2>6, <2>7, <2>8 DEF Download, DownloadStep
<1>2. CASE Start \/ Pause \/ Remove \/ ChangeOption
  BY <1>2 DEF Start, Pause, Remove, ChangeOption, VerifiedInv
<1>3. CASE PurgeLocalState \/ Unlink
  BY <1>3 DEF PurgeLocalState, Unlink, PathInv, VerifiedInv, pathVars
<1>4. CASE LoadSessionTasks
  <2>1. \A q \in Runs : run'[q] = IF Alive(q) THEN Over(q, "killed") ELSE run[q]
    BY <1>4 DEF LoadSessionTasks
  <2>2. \A q \in Runs : Unverified(q) => Unverified(q)'
    BY <1>0, <2>1, KeptType DEF Unverified, Steps
  <2> QED
    BY <1>4, <2>2 DEF LoadSessionTasks, VerifiedInv, fileVars, pathVars
<1>5. CASE UNCHANGED vars
  BY <1>5 DEF vars, stateVars, fileVars, pathVars, VerifiedInv, Unverified
<1> QED
  BY <1>1, <1>2, <1>3, <1>4, <1>5 DEF Next, Client

\* A first run that leaves no holes, or a checksum that was looked at, vouches for every
\* task that reports complete and was neither renamed nor removed since: but for the blocks
\* that an answer left out which ended too early, the file holds the whole resource.
THEOREM CompleteEarned == Spec => []CompleteIsEarned
<1>1. Init => PathInv /\ FirstInv /\ VerifiedInv
  <2> SUFFICES ASSUME Init PROVE PathInv /\ FirstInv /\ VerifiedInv
    OBVIOUS
  <2>1. \A r \in Runs : At(r, "new")
    BY DEF Init, At, NewRun, Closed
  <2> QED
    BY <2>1 DEF Init, PathInv, FirstInv, NotBegun, VerifiedInv
<1>2. TypeOK /\ PathInv /\ FirstInv /\ VerifiedInv /\ [Next]_vars
         => (PathInv /\ FirstInv /\ VerifiedInv)'
  BY PathStep, FirstStep, VerifiedStep
<1>3. TypeOK /\ FirstInv /\ VerifiedInv => CompleteIsEarned
  <2> SUFFICES ASSUME TypeOK, FirstInv, VerifiedInv PROVE CompleteIsEarned
    OBVIOUS
  <2>1. ASSUME ~(Prealloc /\ Segmented), status = "complete", FirstRunOnly, ~moved
        PROVE  Blocks \ good \subseteq LeftOut
    <3>1. PICK r \in Runs : ~At(r, "new")
      BY <2>1 DEF FirstInv, NotBegun
    <3>2. Blocks \ good \subseteq run[r].todo
      BY <2>1, <3>1 DEF FirstInv, Alone
    <3> QED
      BY <3>2 DEF LeftOut
  <2>2. FirstRunIsWhole
    BY <2>1 DEF FirstRunIsWhole, FirstRunIsAlwaysWhole
  <2>3. VerifiedIsWhole
    BY DEF VerifiedInv, VerifiedIsWhole, Verified, Unverified, At
  <2> QED
    BY <2>2, <2>3 DEF CompleteIsEarned
<1> QED
  BY <1>1, <1>2, <1>3, TypeCorrect, PTL DEF Spec
==============================================================================
