---------------------------- MODULE DownloadQueue ----------------------------
(***************************************************************************)
(* TaskQueue as a part of the manager: its variables and constants have     *)
(* names that those of EventBus and Notifications do not use, so that one   *)
(* module of proofs is about all three, and its promises are listed here.   *)
(***************************************************************************)

\* Downloads and Clients are the Tasks and the Procs of TaskQueue, Limit its MaxConcurrent, and
\* serving is its call.
CONSTANTS Downloads, Clients, Limit, Modes, Positions, Restarts, Tick, Second, LastReading, Nobody
VARIABLES status, created, copy, saved, now, picked, serving, overtaken

Q == INSTANCE TaskQueue WITH Tasks <- Downloads, Procs <- Clients, MaxConcurrent <- Limit,
                             None <- Nobody, call <- serving
ASSUME QueueAssumed == Q!QueueAssumption
QueueSpec == Q!Spec

\* A client that reads the queue page by page sees every task once, in order (tellWaiting).
PagesCover == Q!PagesCover

\* changePosition and an add with a position move their task and no other (applyQueueOrder).
MoveIsExact == Q!MoveIsExact
=============================================================================
