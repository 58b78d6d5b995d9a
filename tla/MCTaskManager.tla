---------------------------- MODULE MCTaskManager ----------------------------
(* Small instances of TaskManager.  c1, c2 and c3 are RPC goroutines.           *)
EXTENDS TaskManager, TLC

CONSTANTS c1, c2, c3, m1, m2, m3

ThreeMutexes == {m1, m2, m3}

\* Mutex objects are interchangeable.
MutexSymmetry == Permutations(ThreeMutexes)

OneTask == {1}
SecondTask == {2}
ThreeTasks == {1, 2, 3}

\* Calls served one at a time.
SerialProcs == {c1}
SerialMay == [p \in SerialProcs |-> OpNames]

\* Three clients remove the same task while one of them also resumes it.  The
\* refresh is for the time after the removal, when no call has a task to name.
RaceProcs == {c1, c2, c3}
RaceMay == [p \in RaceProcs |-> {"remove"} \cup
               CASE p = c1 -> {"unpause", "changeOption"}
                 [] p = c2 -> {"syncActive"}
                 [] OTHER -> {}]
==============================================================================
