------------------------------ MODULE MCDaemon ------------------------------
(***************************************************************************)
(* Small instances of Daemon, and of TaskManager with syncLoop as its only  *)
(* goroutine, which is to refill the slots of ended downloads.  A behaviour  *)
(* is of one of them; the variables of the other stay as they begin.        *)
(***************************************************************************)
EXTENDS Daemon

VARIABLES half, tasks, undated, counted, removeLocks, holder, mutex, drv, drvRemoved,
          lost, file, pc, stack, loc, stops, wins
slotVars == <<tasks, undated, counted, removeLocks, holder, mutex, drv, drvRemoved,
              lost, file, pc, stack, loc, stops, wins>>
all == <<half, daemonVars, slotVars>>

Slots == INSTANCE TaskManager WITH
    Tasks <- {1, 2}, InitialTasks <- {1, 2}, Procs <- {"sync"}, May <- [p \in {"sync"} |-> {"syncActive"}],
    MaxConcurrent <- 1, FinishStatus <- {"complete"}, RemoveMayFail <- FALSE, Losable <- {2},
    StopBound <- 3, Mutexes <- {"m"}

Counts == [v \in 0..Versions |-> (v + 1) % 3]
SomeInodes == 1..4

Item(method, token, id, calls) == [method |-> method, token |-> token, id |-> id, calls |-> calls]
Plain(method) == Item(method, "good", TRUE, <<>>)

\* A batch with a notification, a call without a token, an item that does not parse and a
\* save; a multicall with good and bad calls, one of them a multicall itself.
Batch == <<Item("change", "good", FALSE, <<>>), Item("change", "none", TRUE, <<>>),
           Item("broken", "none", FALSE, <<>>), Plain("read"), Plain("saveSession")>>
Nested(token) ==
    <<Item("multicall", token, TRUE,
           <<Item("change", "bad", TRUE, <<>>),
             Item("multicall", "good", TRUE,
                  <<Item("change", "none", TRUE, <<>>), Plain("change")>>),
             Plain("listMethods"), Plain("unknown")>>)>>
Change1 == <<Plain("change")>>
Stop == <<Plain("shutdown"), Plain("change")>>
ForceStop == <<Plain("forceShutdown")>>
SomeBodies == {Batch, Nested("none"), Nested("good"), Change1, Stop, ForceStop}

Config(secret, strict, loops, byHttp, bySocket) ==
    [secret |-> secret, strict |-> strict, loops |-> loops, torrents |-> FALSE,
     sends |-> [c \in Clients |-> IF c = "http" THEN byHttp ELSE bySocket]]
SomeConfigs == {
    \* one HTTP client
    Config(TRUE, FALSE, {}, {Change1, Stop}, {}),
    Config(TRUE, FALSE, {}, {Batch, Nested("none"), Nested("good")}, {}),
    Config(TRUE, TRUE, {}, {Nested("good")}, {}),
    Config(FALSE, FALSE, {}, {Batch}, {}),
    Config(FALSE, FALSE, {}, {ForceStop}, {}),
    \* the same with torrents
    [Config(FALSE, FALSE, {}, {Change1, Stop}, {}) EXCEPT !.torrents = TRUE],
    \* several goroutines that save
    Config(FALSE, FALSE, {}, {}, {Change1}),
    [Config(FALSE, FALSE, {"sync"}, {}, {}) EXCEPT !.torrents = TRUE] }

TwoInit ==
    /\ half \in {"daemon", "slots"}
    /\ DaemonInit /\ Slots!Init
    /\ IF half = "slots" THEN config = Config(FALSE, FALSE, {}, {}, {Change1})
       ELSE \A t \in {1, 2} : tasks[t] = "paused"
TwoNext ==
    /\ UNCHANGED half
    /\ \/ half = "daemon" /\ DaemonNext /\ UNCHANGED slotVars
       \/ half = "slots" /\ Slots!Next /\ UNCHANGED daemonVars
OfDaemon(A) == half = "daemon" /\ A /\ UNCHANGED <<half, slotVars>>
OfSlots(A) == half = "slots" /\ A /\ UNCHANGED <<half, daemonVars>>

\* The fairness of the two modules, each for its own behaviours.
TwoSpec ==
    /\ TwoInit /\ [][TwoNext]_all
    /\ WF_all(OfDaemon(MainStep))
    /\ \A force \in BOOLEAN : WF_all(OfDaemon(Hook(force)))
    /\ WF_all(OfSlots(Slots!Continue("sync"))) /\ WF_all(OfSlots(Slots!SyncActive("sync")))

SlotsRefilled == Slots!SlotsRefilled

\* Every call has its answer, and none reaches the task manager without the token.
Answers == INSTANCE RpcAnswers
CallsAnswered == Answers!CallsAnswered
==============================================================================
