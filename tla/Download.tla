------------------------------ MODULE Download ------------------------------
(***************************************************************************)
(* What a protocol driver promises the manager about one task: a download  *)
(* goroutine ("worker") may be told to stop at any time, at most one is     *)
(* allowed to go on, and none once the task has been removed.  HttpDriver, *)
(* BtDriver, Ed2kDriver and, for FTP and SFTP, DirectDriver implement it.   *)
(***************************************************************************)
CONSTANT Workers
VARIABLES
    live,    \* the workers whose context is not cancelled and that have work left
    gone     \* Remove has been called

vars == <<live, gone>>

Init == live = {} /\ gone = FALSE

\* Driver.Start
Begin(w) == /\ ~gone /\ live = {}
            /\ live' = {w} /\ UNCHANGED gone

\* Driver.Pause, the end of the download, or the end of the process.
End == live # {} /\ live' = {} /\ UNCHANGED gone

\* Driver.Remove
Drop == gone' = TRUE /\ live' = {}

Next == (\E w \in Workers : Begin(w)) \/ End \/ Drop
Spec == Init /\ [][Next]_vars
==============================================================================
