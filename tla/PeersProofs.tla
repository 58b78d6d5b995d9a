----------------------------- MODULE PeersProofs -----------------------------
(* Theorems about Ed2kDriver and BtDriver for any number of tasks, transfers  *)
(* and rechecks, and for every choice of options and limits.                 *)
EXTENDS Integers, Peers, TLAPS

-----------------------------------------------------------------------------
(* The ed2k driver: types. *)

Ed2kTypes ==
    /\ hash \in [Tasks -> Hashes] /\ outsiders \in Outsiders
    /\ step \in [Tasks -> {"new", "linked", "held", "in", "gone", "unused"}]
    /\ started \in [Tasks -> BOOLEAN] /\ paused \in [Tasks -> BOOLEAN]
    /\ removed \in [Tasks -> BOOLEAN]
    /\ transfers \in [Hashes -> Transfer \cup {None}] /\ file \in [Hashes -> Transfer \cup {None}]
    /\ saved \in [Tasks -> Statuses \cup {None}] /\ load \subseteq Tasks
    /\ recheck \in [Rechecks -> [at : {"rest", "pause", "hash"}, task : Tasks \cup {None},
                                 wasPaused : BOOLEAN]]

\* What the client's calls do to one transfer.
Transfers == [Hashes -> Transfer \cup {None}]
Put(s, h, p) == [s EXCEPT ![h].paused = p]
LEMMA ClientCalls ==
    ASSUME transfers \in Transfers, NEW h \in Hashes
    PROVE  /\ \A p \in BOOLEAN :
                 /\ WithPaused(h, p) \in Transfers
                 /\ \A g \in Hashes \ {h} : WithPaused(h, p)[g] = transfers[g]
                 /\ WithPaused(h, p)[h] # None <=> Exists(h)
                 /\ Exists(h) => /\ WithPaused(h, p)[h].paused = p
                                 /\ WithPaused(h, p)[h].finished = transfers[h].finished
           /\ AddLink(h) \in Transfers /\ AddLink(h)[h] # None
           /\ \A g \in Hashes \ {h} : AddLink(h)[g] = transfers[g]
           /\ \A p \in BOOLEAN :
                 /\ Put(AddLink(h), h, p) \in Transfers
                 /\ Put(AddLink(h), h, p)[h] # None
                 /\ Put(AddLink(h), h, p)[h].paused = p
                 /\ \A g \in Hashes \ {h} : Put(AddLink(h), h, p)[g] = transfers[g]
<1>1. Fresh \in Transfer /\ None \notin Transfer
  BY Ed2kAssumption DEF Fresh, Transfer
<1>2. ASSUME NEW s \in Transfers, s[h] \in Transfer, NEW p \in BOOLEAN
      PROVE  /\ Put(s, h, p) \in Transfers /\ Put(s, h, p)[h] \in Transfer
             /\ Put(s, h, p)[h].paused = p
             /\ Put(s, h, p)[h].finished = s[h].finished
             /\ \A g \in Hashes \ {h} : Put(s, h, p)[g] = s[g]
  <2> DEFINE r == [s[h] EXCEPT !.paused = p]
  <2>1. r \in Transfer /\ r.paused = p /\ r.finished = s[h].finished
    BY <1>2 DEF Transfer
  <2>2. Put(s, h, p) = [s EXCEPT ![h] = r]
    BY <1>2 DEF Put
  <2> HIDE DEF r
  <2> QED
    BY <1>2, <2>1, <2>2 DEF Transfers
<1>3. /\ AddLink(h) \in Transfers /\ AddLink(h)[h] \in Transfer
      /\ \A g \in Hashes \ {h} : AddLink(h)[g] = transfers[g]
  BY <1>1 DEF AddLink, Exists, Transfers
<1>4. ASSUME NEW p \in BOOLEAN
      PROVE  /\ WithPaused(h, p) \in Transfers
             /\ \A g \in Hashes \ {h} : WithPaused(h, p)[g] = transfers[g]
             /\ WithPaused(h, p)[h] # None <=> Exists(h)
             /\ Exists(h) => /\ WithPaused(h, p)[h].paused = p
                             /\ WithPaused(h, p)[h].finished = transfers[h].finished
  <2>1. CASE Exists(h)
    <3>1. transfers[h] \in Transfer
      BY <2>1 DEF Exists, Transfers
    <3>2. WithPaused(h, p) = Put(transfers, h, p)
      BY <2>1 DEF WithPaused, Put
    <3> QED
      BY <1>1, <1>2, <1>4, <2>1, <3>1, <3>2
  <2>2. CASE ~Exists(h)
    BY <2>2 DEF WithPaused, Exists
  <2> QED
    BY <2>1, <2>2
<1>5. ASSUME NEW p \in BOOLEAN
      PROVE  /\ Put(AddLink(h), h, p) \in Transfers
             /\ Put(AddLink(h), h, p)[h] # None
             /\ Put(AddLink(h), h, p)[h].paused = p
             /\ \A g \in Hashes \ {h} : Put(AddLink(h), h, p)[g] = transfers[g]
  BY <1>1, <1>2, <1>3
<1> QED
  BY <1>1, <1>3, <1>4, <1>5

-----------------------------------------------------------------------------
(* The ed2k driver: invariants. *)

Gone(t) == removed[t] \/ step[t] = "gone"

\* A task gets its flags when Add or LoadSessionTasks has ended; only such a task is in the
\* session, and until then the transfer waits.
FlagInv(t) ==
    Alone(t) /\ outsiders \subseteq {"state file"} /\ (step[t] = "held" \/ Present(t)) =>
       Exists(hash[t]) /\ (transfers[hash[t]].paused <=> paused[t] \/ ~started[t])
GoneInv(t) == Alone(t) /\ "state file" \notin outsiders /\ Gone(t) => ~Exists(hash[t])
TaskInv(t) ==
    /\ step[t] \in {"unused", "new", "linked", "held"} => ~started[t] /\ ~paused[t]
    /\ removed[t] => step[t] \in {"in", "gone"}
    /\ t \in load => step[t] = "new" /\ saved[t] # None
    /\ saved[t] # None => ~removed[t] /\ (step[t] = "in" \/ t \in load)
    /\ FlagInv(t)
    /\ GoneInv(t)

\* Rechecks are of tasks that are or were there; without a state file nothing is read again.
ClientInv ==
    /\ \A r \in Rechecks : recheck[r].at # "rest" =>
          /\ "recheck" \in outsiders
          /\ recheck[r].task \in Tasks /\ step[recheck[r].task] # "unused"
    /\ "state file" \notin outsiders => \A h \in Hashes : file[h] = None

Ed2kInv == Ed2kTypes /\ ClientInv /\ \A t \in Tasks : TaskInv(t)

\* What a step does to a task: it keeps the invariant, does not wake it when it is paused, and
\* does not bring it back.
Still(t) ==
    Alone(t) /\ paused'[t] /\ Runs(hash[t])' =>
       (Runs(hash[t]) /\ paused[t]) \/ \E r \in Rechecks : recheck[r].task = t
Kept(t) == TaskInv(t)' /\ Still(t) /\ (Gone(t) => Gone(t)')
Frame == /\ UNCHANGED <<hash, outsiders>>
         /\ \A t \in Tasks : step'[t] = "unused" <=> step[t] = "unused"
StepKeeps == Ed2kTypes' /\ ClientInv' /\ Frame /\ \A t \in Tasks : Kept(t)

LEMMA SameAlone == ASSUME Frame, NEW t \in Tasks PROVE Alone(t)' = Alone(t)
BY DEF Frame, Alone

\* A step of task t, and what others see of it.
TaskStep(t) ==
    /\ UNCHANGED <<hash, outsiders, recheck, file>>
    /\ step[t] # "unused" /\ step'[t] # "unused" /\ t \notin load'
    /\ \A u \in Tasks \ {t} :
          /\ step'[u] = step[u] /\ started'[u] = started[u] /\ paused'[u] = paused[u]
          /\ removed'[u] = removed[u] /\ saved'[u] = saved[u] /\ (u \in load' <=> u \in load)
    /\ \A h \in Hashes \ {hash[t]} : transfers'[h] = transfers[h]

LEMMA TaskStepKeeps ==
    ASSUME Ed2kInv, NEW t \in Tasks, Ed2kTypes', TaskStep(t), Kept(t)
    PROVE  StepKeeps
<1>1. Frame
  BY DEF TaskStep, Frame
<1>2. ClientInv'
  <2> SUFFICES ASSUME NEW r \in Rechecks, recheck[r].at # "rest"
               PROVE  step'[recheck[r].task] # "unused"
    BY DEF Ed2kInv, ClientInv, TaskStep
  <2> QED
    BY <1>1 DEF Ed2kInv, ClientInv, Frame
<1>3. ASSUME NEW u \in Tasks \ {t} PROVE Kept(u)
  <2>1. /\ step'[u] = step[u] /\ started'[u] = started[u] /\ paused'[u] = paused[u]
        /\ removed'[u] = removed[u] /\ saved'[u] = saved[u] /\ (u \in load' <=> u \in load)
        /\ hash' = hash /\ outsiders' = outsiders
    BY DEF TaskStep
  <2>2. Alone(u)' = Alone(u)
    BY <1>1, SameAlone
  <2>3. Alone(u) => transfers'[hash[u]] = transfers[hash[u]]
    BY DEF Alone, TaskStep, Ed2kInv, Ed2kTypes
  <2>4. TaskInv(u)
    BY DEF Ed2kInv
  <2>5. FlagInv(u)'
    BY <2>1, <2>2, <2>3, <2>4 DEF TaskInv, FlagInv, Present, Exists
  <2>6. GoneInv(u)' /\ (Gone(u) => Gone(u)')
    BY <2>1, <2>2, <2>3, <2>4 DEF TaskInv, GoneInv, Gone, Exists
  <2>7. Still(u)
    BY <2>1, <2>3 DEF Still, Runs, Exists
  <2> QED
    BY <2>1, <2>4, <2>5, <2>6, <2>7 DEF Kept, TaskInv
<1> QED
  BY <1>1, <1>2, <1>3 DEF StepKeeps

\* What the parts of TaskInv come to for the task that makes the step.
LEMMA AddLinkKeeps ==
    ASSUME Ed2kInv, NEW t \in Tasks, AddLinkStep(t)
    PROVE  StepKeeps
<1>0. Ed2kTypes /\ TaskInv(t) /\ hash[t] \in Hashes /\ transfers \in Transfers /\ load = {}
  BY DEF Ed2kInv, Ed2kTypes, AddLinkStep, Served, Transfers
<1>1. /\ step[t] = "new" /\ step' = [step EXCEPT ![t] = "linked"]
      /\ transfers' = AddLink(hash[t])
      /\ UNCHANGED <<hash, outsiders, started, paused, removed, file, saved, load, recheck>>
  BY DEF AddLinkStep, diskVars
<1>2. transfers' \in Transfers /\ \A h \in Hashes \ {hash[t]} : transfers'[h] = transfers[h]
  BY <1>0, <1>1, ClientCalls
<1>3. Ed2kTypes' /\ TaskStep(t)
  BY <1>0, <1>1, <1>2 DEF Ed2kTypes, TaskStep, Transfers
<1>4. step'[t] = "linked"
  BY <1>0, <1>1 DEF Ed2kTypes
<1>5. Kept(t)
  BY <1>0, <1>1, <1>4 DEF Kept, TaskInv, FlagInv, GoneInv, Still, Present, Gone
<1> QED
  BY <1>3, <1>5, TaskStepKeeps

LEMMA AddPauseKeeps ==
    ASSUME Ed2kInv, NEW t \in Tasks, AddPause(t)
    PROVE  StepKeeps
<1>0. Ed2kTypes /\ TaskInv(t) /\ hash[t] \in Hashes /\ transfers \in Transfers /\ load = {}
  BY DEF Ed2kInv, Ed2kTypes, AddPause, Served, Transfers
<1>1. /\ step[t] = "linked"
      /\ step' = [step EXCEPT ![t] = IF Exists(hash[t]) THEN "held" ELSE "gone"]
      /\ transfers' = WithPaused(hash[t], TRUE)
      /\ UNCHANGED <<hash, outsiders, started, paused, removed, file, saved, load, recheck>>
  BY DEF AddPause, PauseTransfer, diskVars
<1>2. /\ transfers' \in Transfers /\ \A h \in Hashes \ {hash[t]} : transfers'[h] = transfers[h]
      /\ transfers'[hash[t]] # None <=> Exists(hash[t])
      /\ Exists(hash[t]) => transfers'[hash[t]].paused
  BY <1>0, <1>1, ClientCalls
<1>3. Ed2kTypes' /\ TaskStep(t)
  BY <1>0, <1>1, <1>2 DEF Ed2kTypes, TaskStep, Transfers
<1>4. step'[t] = IF Exists(hash[t]) THEN "held" ELSE "gone"
  BY <1>0, <1>1 DEF Ed2kTypes
<1>5. ~started[t] /\ ~paused[t] /\ ~removed[t] /\ saved[t] = None
  BY <1>0, <1>1 DEF TaskInv
<1>6. FlagInv(t)' /\ GoneInv(t)'
  <2>1. CASE Exists(hash[t])
    <3>1. Exists(hash[t])' /\ transfers'[hash[t]].paused /\ ~started'[t] /\ step'[t] = "held"
      BY <1>1, <1>2, <1>4, <1>5, <2>1 DEF Exists
    <3>2. FlagInv(t)'
      BY <1>1, <3>1 DEF FlagInv, Exists
    <3>3. GoneInv(t)'
      BY <1>1, <1>5, <3>1 DEF GoneInv, Gone
    <3> QED
      BY <3>2, <3>3
  <2>2. CASE ~Exists(hash[t])
    <3>1. ~Exists(hash[t])' /\ step'[t] = "gone"
      BY <1>1, <1>2, <1>4, <2>2 DEF Exists
    <3> QED
      BY <1>1, <3>1 DEF FlagInv, GoneInv, Present
  <2> QED
    BY <2>1, <2>2
<1>7. Kept(t)
  BY <1>0, <1>1, <1>4, <1>5, <1>6 DEF Kept, TaskInv, Still, Gone
<1> QED
  BY <1>3, <1>7, TaskStepKeeps

LEMMA AddInsertKeeps ==
    ASSUME Ed2kInv, NEW t \in Tasks, AddInsert(t)
    PROVE  StepKeeps
<1>0. Ed2kTypes /\ TaskInv(t) /\ load = {}
  BY DEF Ed2kInv, AddInsert, Served
<1>1. /\ step[t] = "held" /\ step' = [step EXCEPT ![t] = "in"]
      /\ UNCHANGED <<hash, outsiders, started, paused, removed, transfers, file, saved, load,
                     recheck>>
  BY DEF AddInsert, diskVars
<1>2. Ed2kTypes' /\ TaskStep(t) /\ step'[t] = "in"
  BY <1>0, <1>1 DEF Ed2kTypes, TaskStep
<1>3. Alone(t)' => Alone(t)
  BY <1>1, <1>2 DEF Alone, TaskStep
<1>4. Kept(t)
  BY <1>0, <1>1, <1>2, <1>3 DEF Kept, TaskInv, FlagInv, GoneInv, Still, Present, Gone, Exists
<1> QED
  BY <1>2, <1>4, TaskStepKeeps

LEMMA StartKeeps ==
    ASSUME Ed2kInv, NEW t \in Tasks, Start(t)
    PROVE  StepKeeps
<1>0. Ed2kTypes /\ TaskInv(t) /\ hash[t] \in Hashes /\ transfers \in Transfers /\ load = {}
  BY DEF Ed2kInv, Ed2kTypes, Start, Served, Transfers
<1>1. /\ step[t] = "in" /\ ~removed[t]
      /\ started' = [started EXCEPT ![t] = TRUE] /\ paused' = [paused EXCEPT ![t] = FALSE]
      /\ transfers' = WithPaused(hash[t], FALSE)
      /\ UNCHANGED <<hash, outsiders, step, removed, file, saved, load, recheck>>
  BY DEF Start, Present, ResumeTransfer, diskVars
<1>2. /\ transfers' \in Transfers /\ \A h \in Hashes \ {hash[t]} : transfers'[h] = transfers[h]
      /\ transfers'[hash[t]] # None <=> Exists(hash[t])
      /\ Exists(hash[t]) => ~transfers'[hash[t]].paused
  BY <1>0, <1>1, ClientCalls
<1>3. Ed2kTypes' /\ TaskStep(t) /\ started'[t] /\ ~paused'[t]
  BY <1>0, <1>1, <1>2 DEF Ed2kTypes, TaskStep, Transfers
<1>4. Alone(t)' => Alone(t)
  BY <1>1 DEF Alone
<1>5. FlagInv(t)' /\ GoneInv(t)'
  BY <1>0, <1>1, <1>2, <1>3, <1>4 DEF TaskInv, FlagInv, GoneInv, Exists, Present, Gone
<1>6. Kept(t)
  BY <1>0, <1>1, <1>3, <1>5 DEF Kept, TaskInv, Still, Gone
<1> QED
  BY <1>3, <1>6, TaskStepKeeps

LEMMA PauseKeeps ==
    ASSUME Ed2kInv, NEW t \in Tasks, Pause(t)
    PROVE  StepKeeps
<1>0. Ed2kTypes /\ TaskInv(t) /\ hash[t] \in Hashes /\ transfers \in Transfers /\ load = {}
  BY DEF Ed2kInv, Ed2kTypes, Pause, Served, Transfers
<1>1. /\ step[t] = "in" /\ ~removed[t] /\ paused' = [paused EXCEPT ![t] = TRUE]
      /\ transfers' = WithPaused(hash[t], TRUE)
      /\ UNCHANGED <<hash, outsiders, step, started, removed, file, saved, load, recheck>>
  BY DEF Pause, Present, PauseTransfer, diskVars
<1>2. /\ transfers' \in Transfers /\ \A h \in Hashes \ {hash[t]} : transfers'[h] = transfers[h]
      /\ transfers'[hash[t]] # None <=> Exists(hash[t])
      /\ Exists(hash[t]) => transfers'[hash[t]].paused
  BY <1>0, <1>1, ClientCalls
<1>3. Ed2kTypes' /\ TaskStep(t) /\ paused'[t]
  BY <1>0, <1>1, <1>2 DEF Ed2kTypes, TaskStep, Transfers
<1>4. Alone(t)' => Alone(t)
  BY <1>1 DEF Alone
<1>5. FlagInv(t)' /\ GoneInv(t)'
  BY <1>0, <1>1, <1>2, <1>3, <1>4 DEF TaskInv, FlagInv, GoneInv, Exists, Present, Gone
<1>6. ~Runs(hash[t])'
  BY <1>1, <1>2 DEF Runs, Exists
<1>7. Kept(t)
  BY <1>0, <1>1, <1>5, <1>6 DEF Kept, TaskInv, Still, Gone
<1> QED
  BY <1>3, <1>7, TaskStepKeeps

LEMMA RemoveKeeps ==
    ASSUME Ed2kInv, NEW t \in Tasks, Remove(t)
    PROVE  StepKeeps
<1>0. Ed2kTypes /\ TaskInv(t) /\ hash[t] \in Hashes /\ transfers \in Transfers /\ load = {}
  BY DEF Ed2kInv, Ed2kTypes, Remove, Served, Transfers
<1>1. /\ step[t] = "in" /\ removed' = [removed EXCEPT ![t] = TRUE]
      /\ started' = [started EXCEPT ![t] = FALSE] /\ paused' = [paused EXCEPT ![t] = FALSE]
      /\ transfers' = [transfers EXCEPT ![hash[t]] = None]
      /\ saved' = [saved EXCEPT ![t] = None]
      /\ UNCHANGED <<hash, outsiders, step, file, load, recheck>>
  BY DEF Remove, Present
<1>2. Ed2kTypes' /\ TaskStep(t)
  BY <1>0, <1>1 DEF Ed2kTypes, TaskStep, Transfers
<1>3. removed'[t] /\ ~paused'[t] /\ saved'[t] = None /\ transfers'[hash[t]] = None
  BY <1>0, <1>1 DEF Ed2kTypes
<1>4. Kept(t)
  BY <1>0, <1>1, <1>3 DEF Kept, TaskInv, FlagInv, GoneInv, Still, Present, Gone, Exists
<1> QED
  BY <1>2, <1>4, TaskStepKeeps

LEMMA PurgeKeeps ==
    ASSUME Ed2kInv, NEW t \in Tasks, PurgeLocalState(t)
    PROVE  StepKeeps
<1>0. Ed2kTypes /\ TaskInv(t) /\ load = {}
  BY DEF Ed2kInv, PurgeLocalState, Served
<1>1. /\ step[t] = "in" /\ removed[t] /\ step' = [step EXCEPT ![t] = "gone"]
      /\ UNCHANGED <<hash, outsiders, started, paused, removed, transfers, file, saved, load,
                     recheck>>
  BY DEF PurgeLocalState, diskVars
<1>2. Ed2kTypes' /\ TaskStep(t) /\ step'[t] = "gone"
  BY <1>0, <1>1 DEF Ed2kTypes, TaskStep
<1>3. Alone(t)' => Alone(t)
  BY <1>1, <1>2 DEF Alone, TaskStep
<1>4. Kept(t)
  BY <1>0, <1>1, <1>2, <1>3 DEF Kept, TaskInv, FlagInv, GoneInv, Still, Present, Gone, Exists, Runs
<1> QED
  BY <1>2, <1>4, TaskStepKeeps

LEMMA SaveSessionKeeps ==
    ASSUME Ed2kInv, NEW t \in Tasks, SaveSession(t)
    PROVE  StepKeeps
<1>0. Ed2kTypes /\ TaskInv(t) /\ hash[t] \in Hashes /\ load = {}
  BY DEF Ed2kInv, Ed2kTypes, SaveSession, Served
<1>1. /\ step[t] = "in" /\ ~removed[t] /\ Exists(hash[t])
      /\ saved' = [saved EXCEPT ![t] = Status(t)]
      /\ UNCHANGED <<hash, outsiders, step, started, paused, removed, transfers, file, load,
                     recheck>>
  BY DEF SaveSession, Present, flagVars
<1>2. transfers[hash[t]].finished \in BOOLEAN
  BY <1>0, <1>1 DEF Exists, Ed2kTypes, Transfer
<1>3. Status(t) \in Statuses
  BY <1>0, <1>2 DEF Status, Statuses, Ed2kTypes
<1>4. Ed2kTypes' /\ TaskStep(t)
  BY <1>0, <1>1, <1>3 DEF Ed2kTypes, TaskStep
<1>5. Alone(t)' => Alone(t)
  BY <1>1 DEF Alone
<1>6. Kept(t)
  BY <1>0, <1>1, <1>5 DEF Kept, TaskInv, FlagInv, GoneInv, Still, Present, Gone, Exists, Runs
<1> QED
  BY <1>4, <1>6, TaskStepKeeps

LEMMA LoadTaskKeeps ==
    ASSUME Ed2kInv, NEW t \in Tasks, LoadTask(t)
    PROVE  StepKeeps
<1>0. Ed2kTypes /\ TaskInv(t) /\ hash[t] \in Hashes /\ transfers \in Transfers
  BY DEF Ed2kInv, Ed2kTypes, Transfers
<1> DEFINE p == saved[t] # "active"
<1>1. /\ t \in load /\ started' = [started EXCEPT ![t] = saved[t] = "active"]
      /\ paused' = [paused EXCEPT ![t] = saved[t] = "paused"]
      /\ transfers' = Put(AddLink(hash[t]), hash[t], p)
      /\ step' = [step EXCEPT ![t] = "in"] /\ load' = load \ {t}
      /\ UNCHANGED <<hash, outsiders, removed, file, saved, recheck>>
  BY DEF LoadTask, Put, diskVars
<1>2. /\ transfers' \in Transfers /\ \A h \in Hashes \ {hash[t]} : transfers'[h] = transfers[h]
      /\ transfers'[hash[t]] # None /\ transfers'[hash[t]].paused = p
  BY <1>0, <1>1, ClientCalls
<1>3. step[t] = "new" /\ saved[t] # None /\ ~removed[t]
  BY <1>0, <1>1 DEF TaskInv
<1>4. /\ Ed2kTypes' /\ TaskStep(t) /\ step'[t] = "in" /\ started'[t] = (saved[t] = "active")
      /\ paused'[t] = (saved[t] = "paused")
  BY <1>0, <1>1, <1>2, <1>3 DEF Ed2kTypes, TaskStep, Transfers
<1>5. FlagInv(t)' /\ GoneInv(t)'
  BY <1>1, <1>2, <1>3, <1>4 DEF FlagInv, GoneInv, Present, Gone, Exists
<1>6. Still(t)
  BY <1>1, <1>2, <1>4 DEF Still, Runs, Exists
<1>7. Kept(t)
  BY <1>0, <1>1, <1>3, <1>4, <1>5, <1>6 DEF Kept, TaskInv, Gone
<1> QED
  BY <1>4, <1>7, TaskStepKeeps

\* A step that does not touch the tasks, and what it may do to the transfers: those of tasks
\* that are alone neither come, nor go, nor are paused or resumed but by a recheck.
ClientStep ==
    /\ UNCHANGED <<hash, outsiders, step, started, paused, removed, saved, load>>
    /\ \A t \in Tasks : Alone(t) =>
          /\ transfers'[hash[t]] # None <=> transfers[hash[t]] # None
          /\ Runs(hash[t])' => Runs(hash[t]) \/ \E r \in Rechecks : recheck[r].task = t
          /\ outsiders \subseteq {"state file"} /\ Exists(hash[t]) =>
                transfers'[hash[t]].paused = transfers[hash[t]].paused

LEMMA ClientStepKeeps ==
    ASSUME Ed2kInv, Ed2kTypes', ClientInv', ClientStep
    PROVE  StepKeeps
<1>1. Frame
  BY DEF ClientStep, Frame
<1>2. ASSUME NEW t \in Tasks PROVE Kept(t)
  <2>1. TaskInv(t) /\ Alone(t)' = Alone(t)
    BY <1>1, SameAlone DEF Ed2kInv
  <2>2. UNCHANGED <<hash, outsiders, step, started, paused, removed, saved, load>>
    BY DEF ClientStep
  <2>3. FlagInv(t)'
    BY <2>1, <2>2 DEF TaskInv, FlagInv, Present, Exists, ClientStep
  <2>4. GoneInv(t)'
    BY <2>1, <2>2 DEF TaskInv, GoneInv, Gone, Exists, ClientStep
  <2>5. Still(t)
    BY <2>2 DEF Still, ClientStep
  <2> QED
    BY <2>1, <2>2, <2>3, <2>4, <2>5 DEF Kept, TaskInv, Gone
<1> QED
  BY <1>1, <1>2 DEF StepKeeps

LEMMA GatewayKeeps ==
    ASSUME Ed2kInv, Gateway
    PROVE  StepKeeps
<1>0. /\ "gateway" \in outsiders /\ Ed2kTypes /\ ClientInv /\ transfers \in Transfers
      /\ UNCHANGED <<hash, outsiders, step, started, paused, removed, file, saved, load, recheck>>
  BY DEF Gateway, GatewayAdd, GatewayPause, GatewayResume, GatewayDelete, Ed2kInv, Ed2kTypes,
     Transfers, flagVars, diskVars
<1>1. transfers' \in Transfers
  <2> SUFFICES ASSUME NEW h \in Hashes,
                      GatewayAdd(h) \/ GatewayPause(h) \/ GatewayResume(h) \/ GatewayDelete(h)
               PROVE  transfers' \in Transfers
    BY DEF Gateway
  <2>1. CASE GatewayAdd(h)
    <3>1. PICK p \in BOOLEAN : transfers' = [AddLink(h) EXCEPT ![h].paused = @ \/ p]
      BY <2>1 DEF GatewayAdd
    <3> DEFINE q == AddLink(h)[h].paused \/ p
    <3>2. transfers' = Put(AddLink(h), h, q) /\ q \in BOOLEAN
      BY <3>1 DEF Put
    <3> HIDE DEF q
    <3> QED
      BY <1>0, <3>2, ClientCalls
  <2>2. CASE GatewayPause(h) \/ GatewayResume(h)
    BY <1>0, <2>2, ClientCalls DEF GatewayPause, GatewayResume, PauseTransfer, ResumeTransfer
  <2>3. CASE GatewayDelete(h)
    BY <1>0, <2>3 DEF GatewayDelete, Transfers
  <2> QED
    BY <2>1, <2>2, <2>3
<1>2. Ed2kTypes' /\ ClientInv'
  BY <1>0, <1>1 DEF Ed2kTypes, ClientInv, Transfers
<1>3. ClientStep
  BY <1>0 DEF ClientStep, Alone
<1> QED
  BY <1>2, <1>3, ClientStepKeeps

LEMMA SaveStateKeeps ==
    ASSUME Ed2kInv, SaveState
    PROVE  StepKeeps
<1>1. /\ "state file" \in outsiders /\ Ed2kTypes /\ ClientInv /\ file' = transfers
      /\ UNCHANGED <<hash, outsiders, step, started, paused, removed, transfers, saved, load,
                     recheck>>
  BY DEF SaveState, Ed2kInv, flagVars
<1>2. Ed2kTypes' /\ ClientInv' /\ ClientStep
  BY <1>1 DEF Ed2kTypes, ClientInv, ClientStep, Runs, Exists
<1> QED
  BY <1>2, ClientStepKeeps

LEMMA FinishKeeps ==
    ASSUME Ed2kInv, NEW h \in Hashes, Finish(h)
    PROVE  StepKeeps
<1>0. Ed2kTypes /\ ClientInv /\ transfers[h] \in Transfer /\ None \notin Transfer
  BY Ed2kAssumption DEF Ed2kInv, Ed2kTypes, Finish, Runs, Exists
<1> DEFINE r == [transfers[h] EXCEPT !.finished = TRUE]
<1>1. r \in Transfer /\ r.finished /\ r.paused = transfers[h].paused
  BY <1>0 DEF Transfer
<1>2. /\ transfers' = [transfers EXCEPT ![h] = r]
      /\ UNCHANGED <<hash, outsiders, step, started, paused, removed, file, saved, load, recheck>>
  BY DEF Finish, flagVars, diskVars
<1> HIDE DEF r
<1>3. /\ transfers'[h] = r /\ \A g \in Hashes \ {h} : transfers'[g] = transfers[g]
      /\ transfers' \in Transfers
  BY <1>0, <1>1, <1>2 DEF Ed2kTypes, Transfers
<1>4. Ed2kTypes' /\ ClientInv'
  BY <1>0, <1>2, <1>3 DEF Ed2kTypes, ClientInv, Transfers
<1>5. ClientStep
  <2> SUFFICES ASSUME NEW t \in Tasks
               PROVE  /\ transfers'[hash[t]] # None <=> transfers[hash[t]] # None
                      /\ Runs(hash[t])' => Runs(hash[t])
                      /\ transfers'[hash[t]].paused = transfers[hash[t]].paused
    BY <1>2 DEF ClientStep
  <2>1. CASE hash[t] = h
    BY <1>0, <1>1, <1>2, <1>3, <2>1 DEF Runs
  <2>2. CASE hash[t] # h
    BY <1>0, <1>2, <1>3, <2>2 DEF Runs, Exists, Ed2kTypes
  <2> QED
    BY <2>1, <2>2
<1> QED
  BY <1>4, <1>5, ClientStepKeeps

LEMMA RecheckReadKeeps ==
    ASSUME Ed2kInv, NEW r \in Rechecks, NEW t \in Tasks, RecheckRead(r, t)
    PROVE  StepKeeps
<1>0. Ed2kTypes /\ ClientInv /\ "recheck" \in outsiders /\ step[t] = "in"
  BY DEF Ed2kInv, RecheckRead, Present
<1> DEFINE s == [at |-> "pause", task |-> t, wasPaused |-> transfers[hash[t]].paused]
<1>1. /\ recheck' = [recheck EXCEPT ![r] = s]
      /\ UNCHANGED <<hash, outsiders, step, started, paused, removed, transfers, file, saved, load>>
  BY DEF RecheckRead, flagVars, diskVars
<1>2. /\ s.at = "pause" /\ s.task = t
      /\ s \in [at : {"rest", "pause", "hash"}, task : Tasks \cup {None}, wasPaused : BOOLEAN]
  BY <1>0 DEF RecheckRead, Exists, Ed2kTypes, Transfer
<1> HIDE DEF s
<1>3. Ed2kTypes' /\ ClientInv' /\ ClientStep
  BY <1>0, <1>1, <1>2 DEF Ed2kTypes, ClientInv, ClientStep, Runs, Exists
<1> QED
  BY <1>3, ClientStepKeeps

\* A recheck pauses or resumes the transfer of its task, which is nobody else's if it is the
\* transfer of a task that is alone.
LEMMA RecheckTouches ==
    ASSUME Ed2kInv, NEW r \in Rechecks, recheck[r].at # "rest",
           NEW q \in BOOLEAN,
           \/ transfers' = transfers
           \/ transfers' = WithPaused(hash[recheck[r].task], q),
           Ed2kTypes', ClientInv',
           UNCHANGED <<hash, outsiders, step, started, paused, removed, saved, load>>
    PROVE  StepKeeps
<1> DEFINE u == recheck[r].task
<1>1. /\ "recheck" \in outsiders /\ u \in Tasks /\ step[u] # "unused" /\ hash[u] \in Hashes
      /\ transfers \in Transfers
  BY DEF Ed2kInv, ClientInv, Ed2kTypes, Transfers
<1>2. /\ \A g \in Hashes \ {hash[u]} : transfers'[g] = transfers[g]
      /\ transfers'[hash[u]] # None <=> transfers[hash[u]] # None
  BY <1>1, ClientCalls DEF Exists
<1>3. ASSUME NEW t \in Tasks, Alone(t), t # u PROVE transfers'[hash[t]] = transfers[hash[t]]
  BY <1>1, <1>2, <1>3 DEF Alone, Ed2kInv, Ed2kTypes
<1>4. ClientStep
  BY <1>1, <1>2, <1>3 DEF ClientStep, Runs, Exists
<1> QED
  BY <1>4, ClientStepKeeps

LEMMA RecheckKeeps ==
    ASSUME Ed2kInv, NEW r \in Rechecks, RecheckGoesOn(r)
    PROVE  StepKeeps
<1> DEFINE h == hash[recheck[r].task]
<1>0. /\ Ed2kTypes /\ ClientInv /\ recheck[r].at # "rest" /\ transfers \in Transfers /\ h \in Hashes
      /\ UNCHANGED <<hash, outsiders, step, started, paused, removed, file, saved, load>>
  BY DEF RecheckGoesOn, RecheckPause, RecheckEnd, Ed2kInv, Ed2kTypes, ClientInv, Transfers,
     flagVars, diskVars
<1>1. PICK q \in BOOLEAN : transfers' = transfers \/ transfers' = WithPaused(h, q)
  BY DEF RecheckGoesOn, RecheckPause, RecheckEnd, PauseTransfer, ResumeTransfer
<1>2. transfers' \in Transfers
  BY <1>0, <1>1, ClientCalls
<1>3. /\ Resting \in [at : {"rest", "pause", "hash"}, task : Tasks \cup {None}, wasPaused : BOOLEAN]
      /\ Resting.at = "rest"
  BY DEF Resting
<1> DEFINE go == [recheck[r] EXCEPT !.at = "hash"]
<1>4. /\ go \in [at : {"rest", "pause", "hash"}, task : Tasks \cup {None}, wasPaused : BOOLEAN]
      /\ go.task = recheck[r].task
  BY <1>0 DEF Ed2kTypes
<1>5. recheck' = [recheck EXCEPT ![r] = Resting] \/ recheck' = [recheck EXCEPT ![r] = go]
  BY DEF RecheckGoesOn, RecheckPause, RecheckEnd
<1> HIDE DEF go
<1>6. Ed2kTypes'
  BY <1>0, <1>2, <1>3, <1>4, <1>5 DEF Ed2kTypes, Transfers
<1>7. ClientInv'
  BY <1>0, <1>3, <1>4, <1>5 DEF ClientInv, Ed2kTypes
<1> HIDE DEF h
<1> QED
  BY <1>0, <1>1, <1>6, <1>7, RecheckTouches DEF h

LEMMA RestartKeeps ==
    ASSUME Ed2kInv, Restart
    PROVE  StepKeeps
<1>0. Ed2kTypes /\ ClientInv /\ load = {}
  BY DEF Ed2kInv, Restart, Served
<1>1. /\ transfers' = file /\ load' = {t \in Tasks : saved[t] # None}
      /\ step' = [t \in Tasks |-> IF step[t] \in {"new", "unused"} THEN step[t]
                                 ELSE IF saved[t] # None THEN "new" ELSE "gone"]
      /\ started' = [t \in Tasks |-> FALSE] /\ paused' = [t \in Tasks |-> FALSE]
      /\ removed' = [t \in Tasks |-> FALSE]
      /\ recheck' = [r \in Rechecks |-> Resting]
      /\ UNCHANGED <<hash, outsiders, file, saved>>
  BY DEF Restart, diskVars
<1>2. /\ Resting \in [at : {"rest", "pause", "hash"}, task : Tasks \cup {None}, wasPaused : BOOLEAN]
      /\ Resting.at = "rest"
  BY DEF Resting
<1>3. Ed2kTypes'
  <2>1. step' \in [Tasks -> {"new", "linked", "held", "in", "gone", "unused"}]
    BY <1>0, <1>1 DEF Ed2kTypes
  <2>2. recheck' \in [Rechecks -> [at : {"rest", "pause", "hash"}, task : Tasks \cup {None},
                                   wasPaused : BOOLEAN]]
    BY <1>1, <1>2
  <2> QED
    BY <1>0, <1>1, <2>1, <2>2 DEF Ed2kTypes
<1>4. ClientInv'
  BY <1>0, <1>1, <1>2 DEF ClientInv
<1>5. ASSUME NEW t \in Tasks
      PROVE  /\ step'[t] = IF step[t] \in {"new", "unused"} THEN step[t]
                           ELSE IF saved[t] # None THEN "new" ELSE "gone"
             /\ ~started'[t] /\ ~paused'[t] /\ ~removed'[t] /\ (t \in load' <=> saved[t] # None)
             /\ saved[t] # None => step[t] = "in"
  BY <1>0, <1>1 DEF Ed2kInv, TaskInv
<1>6. Frame
  BY <1>1, <1>5 DEF Frame
<1>7. ASSUME NEW t \in Tasks PROVE Kept(t)
  <2>1. TaskInv(t) /\ step[t] \in {"new", "linked", "held", "in", "gone", "unused"}
    BY <1>0 DEF Ed2kInv, Ed2kTypes
  <2>2. FlagInv(t)'
    BY <1>5 DEF FlagInv, Present
  <2>3. GoneInv(t)'
    BY <1>0, <1>1 DEF GoneInv, ClientInv, Exists, Ed2kTypes
  <2>4. TaskInv(t)'
    BY <1>1, <1>5, <2>2, <2>3 DEF TaskInv
  <2>5. Gone(t) => Gone(t)'
    BY <1>1, <1>5, <2>1 DEF Gone, TaskInv
  <2>6. Still(t)
    BY <1>5 DEF Still
  <2> QED
    BY <2>4, <2>5, <2>6 DEF Kept
<1> QED
  BY <1>3, <1>4, <1>6, <1>7 DEF StepKeeps

LEMMA Ed2kStart == Init => Ed2kInv
<1> SUFFICES ASSUME Init PROVE Ed2kInv
  OBVIOUS
<1>1. /\ Resting \in [at : {"rest", "pause", "hash"}, task : Tasks \cup {None}, wasPaused : BOOLEAN]
      /\ Resting.at = "rest"
  BY DEF Resting
<1>2. Ed2kTypes /\ ClientInv
  BY <1>1, Ed2kAssumption DEF Init, Ed2kTypes, ClientInv
<1>3. ASSUME NEW t \in Tasks PROVE TaskInv(t)
  BY <1>2 DEF Init, TaskInv, FlagInv, GoneInv, Present, Gone
<1> QED
  BY <1>2, <1>3 DEF Ed2kInv

LEMMA Ed2kStep == Ed2kInv /\ [Next]_vars => StepKeeps
<1> SUFFICES ASSUME Ed2kInv, [Next]_vars PROVE StepKeeps
  OBVIOUS
<1>1. CASE UNCHANGED vars
  <2>1. /\ UNCHANGED <<hash, outsiders, step, started, paused, removed, transfers, file, saved, load,
                       recheck>>
    BY <1>1 DEF vars, flagVars, diskVars
  <2>2. Ed2kTypes' /\ ClientInv' /\ ClientStep
    BY <2>1 DEF Ed2kInv, Ed2kTypes, ClientInv, ClientStep, Runs, Exists
  <2> QED
    BY <2>2, ClientStepKeeps
<1> QED
  BY <1>1, AddLinkKeeps, AddPauseKeeps, AddInsertKeeps, StartKeeps, PauseKeeps, RemoveKeeps,
     PurgeKeeps, SaveSessionKeeps, LoadTaskKeeps, GatewayKeeps, SaveStateKeeps, FinishKeeps,
     RecheckReadKeeps, RecheckKeeps, RestartKeeps DEF Next

LEMMA Ed2kKept == StepKeeps => Ed2kInv'
BY DEF StepKeeps, Kept, Ed2kInv

\* A step of the driver is one of Download for each task.
LEMMA Ed2kImplements ==
    ASSUME Ed2kInv, StepKeeps, NEW t \in Tasks
    PROVE  Contract(t)!Next \/ UNCHANGED Contract(t)!vars
<1> DEFINE live == IF Alone(t) /\ "state file" \notin outsiders /\ Runs(hash[t])
                   THEN {"transfer"} ELSE {}
           gone == removed[t] \/ step[t] = "gone"
<1>1. (gone => gone') /\ gone \in BOOLEAN /\ gone' \in BOOLEAN
  BY DEF StepKeeps, Kept, Gone
<1>2. (gone => live = {}) /\ (gone' => live' = {})
  BY DEF StepKeeps, Kept, Ed2kInv, TaskInv, GoneInv, Gone, Runs
<1>3. live \in {{}, {"transfer"}} /\ live' \in {{}, {"transfer"}}
  OBVIOUS
<1> HIDE DEF live, gone
<1>4. \/ \E w \in {"transfer"} : ~gone /\ live = {} /\ live' = {w} /\ gone' = gone
      \/ live # {} /\ live' = {} /\ gone' = gone
      \/ gone' = TRUE /\ live' = {}
      \/ live' = live /\ gone' = gone
  BY <1>1, <1>2, <1>3
<1> QED
  BY <1>4 DEF live, gone, Contract!Next, Contract!Begin, Contract!End, Contract!Drop, Contract!vars

-----------------------------------------------------------------------------
(* The BitTorrent driver. *)

BtTypes ==
    /\ allowed \in [Bt!Flow -> BOOLEAN] /\ throttled \in [Bt!Flow -> BOOLEAN]
    /\ btRemoved \in BOOLEAN

\* A torrent outside the client has yet to be added or loaded: it has not been started or
\* removed.
BtInv ==
    /\ BtTypes
    /\ torrent = "out" => ~btStarted /\ ~known /\ ~btRemoved /\ btLoad # "resume"
    /\ btLoad = "insert" => ~btStarted /\ ~known /\ ~btRemoved
    /\ btRemoved => torrent # "in"
    /\ Bt!NoSilentStall
BtStill ==
    Bt!Moving' /\ btPaused' => (Bt!Moving /\ btPaused) \/ btLoad = "resume"
BtKeeps == BtInv' /\ BtStill /\ (btRemoved => btRemoved')

\* After a step that stops both directions nothing moves.
LEMMA Stopped ==
    ASSUME BtInv, allowed' = Bt!Both(FALSE), throttled' \in [Bt!Flow -> BOOLEAN],
           torrent' = "out" => ~btStarted' /\ ~known' /\ ~btRemoved' /\ btLoad' # "resume",
           btLoad' = "insert" => ~btStarted' /\ ~known' /\ ~btRemoved',
           btRemoved' = btRemoved, btRemoved' => torrent' # "in",
           ~btStarted' \/ btPaused' \/ btRemoved'
    PROVE  BtKeeps
<1>1. \A d \in Bt!Flow : allowed'[d] = FALSE
  BY DEF Bt!Both
<1>2. allowed' \in [Bt!Flow -> BOOLEAN]
  BY DEF Bt!Both
<1> QED
  BY <1>1, <1>2 DEF BtKeeps, BtInv, BtTypes, BtStill, Bt!Moving, Bt!NoSilentStall, Bt!Present

LEMMA CallsKeep ==
    ASSUME BtInv, Bt!Calls
    PROVE  BtKeeps
<1>0. Bt!Flow = {"down", "up"} /\ BtTypes
  BY DEF Bt!Flow, BtInv
<1>1. CASE Bt!Add
  <2>1. /\ ~known /\ torrent = "out" /\ btLoad = "done" /\ torrent' = "in"
        /\ allowed' = Bt!Both(FALSE) /\ throttled' = Bt!Both(FALSE)
        /\ UNCHANGED <<btStarted, btPaused, btRemoved, btLoad>>
    BY <1>1 DEF Bt!Add, Bt!Insert, Bt!flagVars
  <2>2. throttled' \in [Bt!Flow -> BOOLEAN]
    BY <2>1 DEF Bt!Both
  <2> QED
    BY <2>1, <2>2, Stopped DEF BtInv
<1>2. CASE Bt!Start
  <2>1. /\ known /\ ~btRemoved /\ btPaused' = FALSE /\ throttled' = Bt!Both(FALSE)
        /\ allowed' = Bt!Both(TRUE)
        /\ UNCHANGED <<known, btRemoved, torrent, btLoad>>
    BY <1>2 DEF Bt!Start, Bt!Present, Bt!taskVars, Bt!libVars, Bt!goVars
  <2>2. BtTypes' /\ \A d \in Bt!Flow : allowed'[d] = TRUE
    BY <1>0, <2>1 DEF BtTypes, Bt!Both
  <2> QED
    BY <1>0, <2>1, <2>2 DEF BtKeeps, BtInv, BtStill, Bt!NoSilentStall
<1>3. CASE Bt!Pause
  <2>1. /\ known /\ ~btRemoved /\ btPaused' = TRUE /\ allowed' = Bt!Both(FALSE)
        /\ UNCHANGED <<known, btStarted, btRemoved, torrent, btLoad, throttled>>
    BY <1>3 DEF Bt!Pause, Bt!Present, Bt!taskVars, Bt!libVars, Bt!goVars, Bt!rateVars
  <2> QED
    BY <1>0, <2>1, Stopped DEF BtInv, BtTypes
<1>4. CASE Bt!EnforceSeedPolicy
  <2>1. /\ seedStopped' = TRUE /\ allowed' = [allowed EXCEPT !["up"] = FALSE]
        /\ UNCHANGED <<known, btStarted, btPaused, btRemoved, torrent, btLoad, throttled>>
    BY <1>4 DEF Bt!EnforceSeedPolicy, Bt!taskVars, Bt!libVars, Bt!goVars, Bt!rateVars
  <2>2. allowed' \in [Bt!Flow -> BOOLEAN] /\ allowed'["down"] = allowed["down"] /\ ~allowed'["up"]
    BY <1>0, <2>1 DEF BtTypes
  <2> QED
    BY <1>0, <2>1, <2>2 DEF BtKeeps, BtInv, BtTypes, BtStill, Bt!Moving, Bt!NoSilentStall, Bt!Present
<1>5. CASE Bt!Remove
  <2>1. /\ known /\ ~btRemoved /\ torrent' = "dropped" /\ btRemoved' = TRUE
        /\ btPaused' = FALSE
        /\ UNCHANGED <<known, btLoad, allowed, throttled>>
    BY <1>5 DEF Bt!Remove, Bt!Present, Bt!taskVars, Bt!goVars, Bt!rateVars
  <2> QED
    BY <1>0, <2>1 DEF BtKeeps, BtInv, BtTypes, BtStill, Bt!NoSilentStall
<1>6. CASE Bt!PurgeLocalState
  <2>1. /\ known' = FALSE
        /\ UNCHANGED <<btStarted, btPaused, btRemoved, seedStopped, torrent, btLoad, allowed,
                       throttled>>
    BY <1>6 DEF Bt!PurgeLocalState, Bt!flagVars, Bt!libVars, Bt!goVars, Bt!rateVars
  <2> QED
    BY <1>0, <2>1 DEF BtKeeps, BtInv, BtTypes, BtStill, Bt!Moving, Bt!NoSilentStall, Bt!Present
<1>7. CASE Bt!ChangeLimits
  <2>1. /\ throttled' = Bt!Both(FALSE)
        /\ allowed' = IF btStarted /\ ~btPaused THEN Bt!Both(TRUE) ELSE allowed
        /\ UNCHANGED <<known, btStarted, btPaused, btRemoved, seedStopped, torrent, btLoad>>
    BY <1>7 DEF Bt!ChangeLimits, Bt!taskVars, Bt!flagVars, Bt!libVars, Bt!goVars
  <2>2. BtTypes' /\ (btStarted /\ ~btPaused => \A d \in Bt!Flow : allowed'[d] = TRUE)
    BY <1>0, <2>1 DEF BtTypes, Bt!Both
  <2> QED
    BY <1>0, <2>1, <2>2 DEF BtKeeps, BtInv, BtStill, Bt!Moving, Bt!NoSilentStall
<1>8. CASE Bt!SaveSession
  <2>1. UNCHANGED <<known, btStarted, btPaused, btRemoved, seedStopped, torrent, btLoad, allowed,
                    throttled>>
    BY <1>8 DEF Bt!SaveSession, Bt!taskVars, Bt!flagVars, Bt!libVars, Bt!goVars, Bt!rateVars
  <2> QED
    BY <1>0, <2>1 DEF BtKeeps, BtInv, BtTypes, BtStill, Bt!Moving, Bt!NoSilentStall, Bt!Present
<1>9. CASE Bt!Close
  <2>1. /\ torrent' = "closed"
        /\ UNCHANGED <<known, btStarted, btPaused, btRemoved, btLoad, allowed, throttled>>
    BY <1>9 DEF Bt!Close, Bt!taskVars, Bt!flagVars, Bt!goVars, Bt!rateVars
  <2> QED
    BY <1>0, <2>1 DEF BtKeeps, BtInv, BtTypes, BtStill, Bt!Moving, Bt!NoSilentStall
<1>10. CASE Bt!Restart
  <2>1. /\ ~btRemoved /\ known' = FALSE /\ torrent' = "out" /\ allowed' = Bt!Both(FALSE)
        /\ btStarted' = FALSE /\ throttled' = Bt!Both(FALSE) /\ btLoad' = "insert"
        /\ UNCHANGED btRemoved
    BY <1>10 DEF Bt!Restart
  <2>2. throttled' \in [Bt!Flow -> BOOLEAN]
    BY <2>1 DEF Bt!Both
  <2> QED
    BY <2>1, <2>2, Stopped DEF BtInv
<1> QED
  BY <1>1, <1>2, <1>3, <1>4, <1>5, <1>6, <1>7, <1>8, <1>9, <1>10 DEF Bt!Calls

LEMMA GoroutinesKeep ==
    ASSUME BtInv, Bt!Goroutines
    PROVE  BtKeeps
<1>0. Bt!Flow = {"down", "up"} /\ BtTypes
  BY DEF Bt!Flow, BtInv
<1>1. CASE Bt!FileSelection \/ Bt!RebuildBTProgress
  <2>1. UNCHANGED <<known, btStarted, btPaused, btRemoved, seedStopped, torrent, btLoad, allowed,
                    throttled>>
    BY <1>1 DEF Bt!FileSelection, Bt!RebuildBTProgress, Bt!taskVars, Bt!flagVars, Bt!libVars,
       Bt!rateVars
  <2> QED
    BY <1>0, <2>1 DEF BtKeeps, BtInv, BtTypes, BtStill, Bt!Moving, Bt!NoSilentStall, Bt!Present
<1>2. CASE Bt!PauseAfterMetadata
  <2>1. UNCHANGED <<known, btRemoved, seedStopped, torrent, btLoad, throttled>>
    BY <1>2 DEF Bt!PauseAfterMetadata, Bt!taskVars, Bt!libVars, Bt!rateVars
  <2>2. CASE btRemoved
    <3>1. UNCHANGED <<btStarted, btPaused, allowed>>
      BY <1>2, <2>2 DEF Bt!PauseAfterMetadata
    <3> QED
      BY <1>0, <2>1, <3>1
         DEF BtKeeps, BtInv, BtTypes, BtStill, Bt!Moving, Bt!NoSilentStall, Bt!Present
  <2>3. CASE ~btRemoved
    <3>1. btStarted' = FALSE /\ btPaused' = TRUE /\ allowed' = Bt!Both(FALSE)
      BY <1>2, <2>3 DEF Bt!PauseAfterMetadata
    <3> QED
      BY <1>0, <2>1, <3>1, Stopped DEF BtInv, BtTypes
  <2> QED
    BY <2>2, <2>3
<1>3. CASE Bt!LoadSessionTasks
  <2>1. /\ btLoad = "insert" /\ torrent' = "in" /\ btLoad' \in {"resume", "done"}
        /\ allowed' = Bt!Both(FALSE) /\ throttled' = Bt!Both(FALSE)
        /\ UNCHANGED <<btStarted, btRemoved>>
    BY <1>3 DEF Bt!LoadSessionTasks, Bt!Insert
  <2>2. throttled' \in [Bt!Flow -> BOOLEAN]
    BY <2>1 DEF Bt!Both
  <2> QED
    BY <2>1, <2>2, Stopped DEF BtInv
<1>4. CASE Bt!LoadResume
  <2>1. /\ btLoad = "resume" /\ btLoad' = "done" /\ allowed' = Bt!Both(TRUE)
        /\ UNCHANGED <<known, btRemoved, torrent, throttled>>
    BY <1>4 DEF Bt!LoadResume, Bt!taskVars, Bt!libVars, Bt!rateVars
  <2>2. BtTypes' /\ \A d \in Bt!Flow : allowed'[d] = TRUE
    BY <1>0, <2>1 DEF BtTypes, Bt!Both
  <2> QED
    BY <1>0, <2>1, <2>2 DEF BtKeeps, BtInv, BtStill, Bt!NoSilentStall
<1>5. CASE Bt!RestoreResume
  <2>1. UNCHANGED <<known, btPaused, btRemoved, seedStopped, torrent, btLoad, throttled>>
    BY <1>5 DEF Bt!RestoreResume, Bt!taskVars, Bt!libVars, Bt!rateVars
  <2>2. CASE Bt!Present /\ ~btPaused
    <3>1. known /\ allowed' = Bt!Both(TRUE)
      BY <1>5, <2>2 DEF Bt!RestoreResume, Bt!Present
    <3>2. BtTypes' /\ \A d \in Bt!Flow : allowed'[d] = TRUE
      BY <1>0, <2>1, <3>1 DEF BtTypes, Bt!Both
    <3> QED
      BY <1>0, <2>1, <2>2, <3>1, <3>2 DEF BtKeeps, BtInv, BtStill, Bt!NoSilentStall
  <2>3. CASE ~(Bt!Present /\ ~btPaused)
    <3>1. UNCHANGED <<btStarted, allowed>>
      BY <1>5, <2>3 DEF Bt!RestoreResume
    <3> QED
      BY <1>0, <2>1, <3>1
         DEF BtKeeps, BtInv, BtTypes, BtStill, Bt!Moving, Bt!NoSilentStall, Bt!Present
  <2> QED
    BY <2>2, <2>3
<1> QED
  BY <1>1, <1>2, <1>3, <1>4, <1>5 DEF Bt!Goroutines

\* A direction that the loop lets go on has been let through before, or is let through now.
LEMMA LoopKeeps ==
    ASSUME BtInv, Bt!EnforceTaskRateLimits
    PROVE  BtKeeps
<1>0. Bt!Flow = {"down", "up"} /\ BtTypes
  BY DEF Bt!Flow, BtInv
<1>1. /\ ~btPaused
      /\ UNCHANGED <<known, btStarted, btPaused, btRemoved, seedStopped, torrent, btLoad>>
  BY DEF Bt!EnforceTaskRateLimits, Bt!taskVars, Bt!flagVars, Bt!libVars, Bt!goVars
<1>2. CASE sampled
  <2>1. /\ throttled' = [d \in Bt!Flow |-> Bt!Throttle(d).slow]
        /\ allowed' = [d \in Bt!Flow |->
                          IF throttled'[d] = throttled[d] THEN allowed[d] ELSE throttled[d]]
    BY <1>2 DEF Bt!EnforceTaskRateLimits
  <2>2. \A d \in Bt!Flow : Bt!Throttle(d).slow \in BOOLEAN
    <3> SUFFICES ASSUME NEW d \in Bt!Flow PROVE Bt!Throttle(d).slow \in BOOLEAN
      OBVIOUS
    <3> DEFINE b == limiter[d]
               over == b # None /\ moved[d] > 0 /\ ~Bt!CanAfford(b, moved[d])
               paid == IF b = None THEN None ELSE Bt!Consume(b, moved[d])
               slow == over \/ (throttled[d] /\ b # None /\ ~Bt!CanAfford(paid, 1))
    <3>1. Bt!Throttle(d) = [bucket |-> paid, slow |-> slow]
      BY DEF Bt!Throttle
    <3>2. slow \in BOOLEAN
      OBVIOUS
    <3> HIDE DEF paid, slow
    <3> QED
      BY <3>1, <3>2
  <2>3. BtTypes'
    BY <1>0, <1>1, <2>1, <2>2 DEF BtTypes
  <2>4. \A d \in Bt!Flow : (allowed[d] \/ throttled[d]) => (allowed'[d] \/ throttled'[d])
    BY <1>0, <2>1, <2>3 DEF BtTypes
  <2> QED
    BY <1>0, <1>1, <2>3, <2>4 DEF BtKeeps, BtInv, BtStill, Bt!NoSilentStall, Bt!Present
<1>3. CASE ~sampled
  <2>1. UNCHANGED <<allowed, throttled>>
    BY <1>3 DEF Bt!EnforceTaskRateLimits
  <2> QED
    BY <1>0, <1>1, <2>1 DEF BtKeeps, BtInv, BtTypes, BtStill, Bt!NoSilentStall, Bt!Present
<1> QED
  BY <1>2, <1>3

LEMMA BtStart == Bt!Init => BtInv
<1> SUFFICES ASSUME Bt!Init PROVE BtInv
  OBVIOUS
<1>1. BtTypes
  BY DEF Bt!Init, BtTypes, Bt!Both
<1> QED
  BY <1>1 DEF Bt!Init, BtInv, Bt!NoSilentStall

LEMMA BtStep == BtInv /\ [Bt!Next]_(Bt!vars) => BtKeeps
<1> SUFFICES ASSUME BtInv, [Bt!Next]_(Bt!vars) PROVE BtKeeps
  OBVIOUS
<1>1. ASSUME UNCHANGED <<known, btStarted, btPaused, btRemoved, seedStopped, torrent, btLoad, allowed,
                         throttled>>
      PROVE  BtKeeps
  BY <1>1 DEF BtKeeps, BtInv, BtTypes, BtStill, Bt!Moving, Bt!NoSilentStall, Bt!Present
<1>2. CASE Bt!GotInfo
  BY <1>1, <1>2 DEF Bt!GotInfo, Bt!taskVars, Bt!flagVars, Bt!goVars, Bt!rateVars
<1>3. CASE \E d \in Bt!Flow : Bt!Move(d)
  BY <1>1, <1>3 DEF Bt!Move, Bt!taskVars, Bt!flagVars, Bt!goVars, Bt!rateVars
<1>4. CASE Bt!Tick
  BY <1>1, <1>4 DEF Bt!Tick, Bt!taskVars, Bt!flagVars, Bt!goVars, Bt!libVars
<1>5. CASE UNCHANGED Bt!vars
  BY <1>1, <1>5 DEF Bt!vars, Bt!taskVars, Bt!flagVars, Bt!goVars, Bt!libVars, Bt!rateVars
<1> QED
  BY <1>2, <1>3, <1>4, <1>5, CallsKeep, GoroutinesKeep, LoopKeeps DEF Bt!Next

LEMMA BtImplements ==
    ASSUME BtInv, BtKeeps
    PROVE  Bt!Contract!Next \/ UNCHANGED Bt!Contract!vars
<1> DEFINE live == IF Bt!Moving THEN {"torrent"} ELSE {}
<1>1. (btRemoved => btRemoved') /\ btRemoved \in BOOLEAN /\ btRemoved' \in BOOLEAN
  BY DEF BtKeeps, BtInv, BtTypes
<1>2. (btRemoved => live = {}) /\ (btRemoved' => live' = {})
  BY DEF BtKeeps, BtInv, Bt!Moving
<1>3. live \in {{}, {"torrent"}} /\ live' \in {{}, {"torrent"}}
  OBVIOUS
<1> HIDE DEF live
<1>4. \/ \E w \in {"torrent"} : /\ ~btRemoved /\ live = {} /\ live' = {w}
                                /\ btRemoved' = btRemoved
      \/ live # {} /\ live' = {} /\ btRemoved' = btRemoved
      \/ btRemoved' = TRUE /\ live' = {}
      \/ live' = live /\ btRemoved' = btRemoved
  BY <1>1, <1>2, <1>3
<1> QED
  BY <1>4 DEF live, Bt!Contract!Next, Bt!Contract!Begin, Bt!Contract!End, Bt!Contract!Drop,
     Bt!Contract!vars

-----------------------------------------------------------------------------
(* Both drivers. *)

PeersInv == Ed2kInv /\ BtInv
PeersKeep == StepKeeps /\ BtKeeps

LEMMA PeersStart == PeersInit => PeersInv
BY Ed2kStart, BtStart DEF PeersInit, PeersInv

LEMMA PeersStep == PeersInv /\ [PeersNext]_all => PeersKeep
<1> SUFFICES ASSUME PeersInv, [PeersNext]_all PROVE PeersKeep
  OBVIOUS
<1>1. UNCHANGED btVars => UNCHANGED Bt!vars
  BY DEF btVars, Bt!vars, Bt!taskVars, Bt!flagVars, Bt!doneVars, Bt!goVars, Bt!libVars, Bt!rateVars
<1>2. [Next]_vars /\ [Bt!Next]_(Bt!vars)
  BY <1>1 DEF PeersNext, all
<1> QED
  BY <1>2, Ed2kStep, BtStep DEF PeersInv, PeersKeep

LEMMA PeersKept == PeersKeep => PeersInv'
BY Ed2kKept DEF PeersKeep, PeersInv, BtKeeps

LEMMA PeersSafe == PeersSpec => []PeersInv
BY PeersStart, PeersStep, PeersKept, PTL DEF PeersSpec

\* Whatever calls, rechecks, restarts, seed policies, rate limits and late metadata do, and in
\* whatever order: what the flags of an ed2k or a BitTorrent task say and what the library
\* does are in step.  So no task that the manager calls active stands still unnoticed.
THEOREM FlagsAgree == PeersSpec => []FlagsMatch
<1>1. PeersInv => FlagsMatch
  BY DEF PeersInv, Ed2kInv, TaskInv, FlagInv, InStep, BtInv, FlagsMatch
<1> QED
  BY <1>1, PeersSafe, PTL

\* Both drivers keep the contract of Download for every task: no transfer of a removed task
\* goes on or begins again, with any number of tasks, transfers and restarts.
THEOREM ImplementDownload == PeersSpec => ContractsKept
<1>1. ASSUME PeersInit, NEW t \in Tasks PROVE Contract(t)!Init
  <2>1. hash[t] \in Hashes
    BY <1>1, PeersStart DEF PeersInv, Ed2kInv, Ed2kTypes
  <2>2. step[t] # "gone" /\ removed[t] = FALSE /\ ~Runs(hash[t])
    BY <1>1, <2>1 DEF PeersInit, Init, Runs, Exists
  <2> QED
    BY <2>2 DEF Contract!Init
<1>2. PeersInit => Bt!Contract!Init
  BY DEF PeersInit, Bt!Init, Bt!Contract!Init, Bt!Moving
<1>3. PeersInv /\ [PeersNext]_all =>
         /\ [\A t \in Tasks : Contract(t)!Next \/ UNCHANGED Contract(t)!vars]_vars
         /\ [Bt!Contract!Next]_(Bt!Contract!vars)
  BY PeersStep, Ed2kImplements, BtImplements DEF PeersInv, PeersKeep
<1>4. PeersInit => (\A t \in Tasks : Contract(t)!Init) /\ Bt!Contract!Init
  BY <1>1, <1>2
<1> QED
  BY <1>3, <1>4, PeersSafe, PTL
     DEF PeersSpec, ContractsKept, KeepsContract, Bt!KeepsContract, Bt!Contract!Spec

\* A pause holds against everything that goes on by itself: seed policy, rate limits, late
\* metadata and restarts.
THEOREM PauseHolds == PeersSpec => PausedStayStill
<1>1. PeersInv /\ [PeersNext]_all =>
         /\ [\A t \in Tasks : Still(t)]_vars
         /\ [BtStill]_(Bt!vars)
  <2> SUFFICES ASSUME PeersInv, [PeersNext]_all
               PROVE  (\A t \in Tasks : Still(t)) /\ BtStill
    OBVIOUS
  <2> QED
    BY PeersStep DEF PeersKeep, StepKeeps, Kept, BtKeeps
<1>2. (\A t \in Tasks : Still(t)) =>
         \A t \in Tasks : Alone(t) /\ paused'[t] /\ Runs(hash[t])' =>
           (Runs(hash[t]) /\ paused[t]) \/ \E r \in Rechecks : recheck[r].task = t
  BY DEF Still
<1>3. BtStill => (Bt!Moving' /\ btPaused' => (Bt!Moving /\ btPaused) \/ btLoad = "resume")
  BY DEF BtStill
<1> QED
  BY <1>1, <1>2, <1>3, PeersSafe, PTL
     DEF PeersSpec, PausedStayStill, PausedStaysStill, Bt!PausedStaysStill
==============================================================================
