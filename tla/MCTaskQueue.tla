---------------------------- MODULE MCTaskQueue ----------------------------
(* A small instance of TaskQueue, in four shapes: tasks 1 and 2 with two callers,  *)
(* the same with one caller and restarts, three tasks with one caller of which     *)
(* none ends, and three tasks with two callers while they all wait.                *)
EXTENDS DownloadQueue, Integers
ThreeTasks == {1, 2, 3}
AllModes   == {"POS_SET", "POS_CUR", "POS_END"}
Places     == -1..1

\* Bounds: the first step of a behaviour settles which of the shapes it has.  In the last
\* one the clock is read once more, for q to write an order as well.  A task is picked only
\* while q is idle and before a restart, and one of three while all of them wait.
Restarted == \E t \in Downloads : copy[t] # Q!Zero
AllWait   == \A t \in Downloads : status'[t] = "waiting"
Shape ==
    /\ 3 \in Q!Held' => /\ 3 \in Q!Held \/ Q!Held = {}
                        /\ ~Restarted' /\ \A t \in Downloads : status'[t] # "stopped"
    /\ Restarted' \/ (3 \in Q!Held' /\ ~AllWait) => serving'["q"] = Q!Idle
    /\ serving'["q"] # Q!Idle \/ Restarted' \/ (3 \in Q!Held' /\ ~AllWait) => picked' = Nobody
    /\ now' <= LastReading \/ (AllWait /\ serving'["q"].pc = "save")
ShapedSpec == Q!Init /\ [][Q!Next /\ Shape]_(Q!vars)
=============================================================================
