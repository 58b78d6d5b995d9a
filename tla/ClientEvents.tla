---------------------------- MODULE ClientEvents ----------------------------
(***************************************************************************)
(* The two halves of what a WebSocket client hears: EventBus, the way of    *)
(* the events to its connection, and Notifications, what the connection     *)
(* makes of those of one task.  A behaviour is of one of them; the          *)
(* variables of the other stay as they begin.                               *)
(***************************************************************************)
EXTENDS EventBus

CONSTANTS Callers, Plans      \* those of Notifications
VARIABLES half, bt, may, drv, held, call, prev, told, again, overlapped
toldVars == <<bt, may, drv, held, call, prev, told, again, overlapped>>
all == <<half, vars, toldVars>>

N == INSTANCE Notifications
ASSUME CallersAssumption == N!NotificationsAssumption

BusInit ==
    /\ half \in {"bus", "notifications"}
    /\ Init /\ N!Init
    /\ half = "bus" => ~bt /\ may = CHOOSE m \in Plans : TRUE
BusNext ==
    /\ UNCHANGED half
    /\ \/ half = "bus" /\ Next /\ UNCHANGED toldVars
       \/ half = "notifications" /\ N!Next /\ UNCHANGED vars

\* The fairness of the two modules, each for its own behaviours.
OfBus(A) == half = "bus" /\ A /\ UNCHANGED <<half, toldVars>>
OfN(A) == half = "notifications" /\ A /\ UNCHANGED <<half, vars>>
BusSpec ==
    /\ BusInit /\ [][BusNext]_all
    /\ \A a \in Actors : WF_all(OfBus(EmitStep(a)))
    /\ \A c \in Conns : WF_all(OfBus(ReaderGoesOn(c))) /\ WF_all(OfBus(WriterGoesOn(c)))
    /\ \A p \in Callers : WF_all(OfN(N!GoOn(p))) /\ WF_all(OfN(N!SyncActive(p)))

\* What a client hears of a task makes sense from its addition to its removal (Notifications).
ToldInTurn == N!ToldInTurn

\* A client is told that a download has ended, if nobody else asks after it (Notifications).
EndIsTold == N!EndIsTold
=============================================================================
