------------------------------- MODULE Daemon -------------------------------
(***************************************************************************)
(* The daemon (app/daemon.go): startup, the goroutines that run while it    *)
(* serves, and shutdown, over the session file (SessionStore) and the       *)
(* JSON-RPC front (RpcServer).                                              *)
(*                                                                          *)
(* Whoever saves the session does so on its own: the goroutine that serves  *)
(* a request, at the end of the request; persistLoop, when an interval is   *)
(* set; syncLoop, when it gives a free slot to a waiting task; and the main *)
(* goroutine, after each startup job and at exit.                           *)
(***************************************************************************)
EXTENDS SessionStore

CONSTANTS
    HttpClients, SocketClients,  \* clients by transport
    Bodies,                      \* what they send; a bound
    Configs                      \* configurations

Clients == HttpClients \cup SocketClients
Loops == {"persist", "sync"}
ASSUME SaversAssumption == Savers = Clients \cup Loops \cup {"main"}
ASSUME ClientsAssumption ==
    /\ IsFiniteSet(Clients) /\ HttpClients \cap SocketClients = {}
    /\ Clients \cap (Loops \cup {"main"}) = {}

VARIABLES
    config,    \* .secret, .strict, .sends (bodies by client), .torrents (there are some)
               \* and .loops that save: persistLoop with save-session-interval, syncLoop
               \* if tasks wait for a slot
    request, frames, ran,   \* see RpcServer
    call,      \* progress of the call that a client's goroutine is carrying out
    hooks,     \* goroutines of SetShutdownHook that have not sent yet, by their force flag
    stuck,     \* a Start of the BitTorrent driver holds Driver.mu, for good
    requested, \* what shutdownReq buffers
    main,      \* where the main goroutine is
    atClose,   \* history: version when the server had been shut down
    forced     \* history: a forced shutdown has closed the server under its handlers

Rpc == INSTANCE RpcServer

\* None stands for no request at all.
ASSUME BodiesAssumption ==
    /\ \A k \in Configs : \A c \in Clients : k.sends[c] \subseteq Bodies
    /\ \A body \in Bodies : body # None /\ (Len(body) = 1 => Rpc!WithId(body) # None)

front == <<config, request, frames, ran, call, stuck>>
control == <<hooks, requested, main, atClose, forced>>
daemonVars == <<vars, front, control>>

-----------------------------------------------------------------------------
(* Requests. *)

Booting == main \in {"boot", "bootSave", "bootSaving"}
Free(c) == daemon = "up" /\ call[c] = "none"
Calls(c, step) == call' = [call EXCEPT ![c] = step]

\* server.Shutdown closes the listener and idle connections; hijacked ones stay.
Receive(c) ==
    /\ Free(c)
    /\ main = "serve" \/ (c \in SocketClients /\ ~Booting)
    /\ \E body \in config.sends[c] :
          Rpc!Receive(c, body) \/ (c \in HttpClients /\ Rpc!ReceiveXml(c, body))
    /\ UNCHANGED <<vars, config, call, stuck, control>>

Dispatch(c) ==
    /\ Free(c) /\ Rpc!Dispatch(c)
    /\ UNCHANGED <<vars, config, call, stuck, control>>

\* The manager refuses before it has changed anything, say because there is no such task.
ChangeRefused(c) ==
    /\ Free(c) /\ Rpc!Executable(c, {"change"})
    /\ Rpc!Answered(c, "error")
    /\ UNCHANGED <<vars, config, ran, call, stuck, control>>

BeginChange(c) ==
    /\ Free(c) /\ Rpc!Executable(c, {"change"})
    /\ Change /\ Rpc!Carried(c) /\ Calls(c, "changed")
    /\ UNCHANGED <<config, request, frames, stuck, control>>

\* aria2.saveSession saves to the session file too unless it names another one.
BeginSave(c) ==
    /\ Free(c) /\ Rpc!Executable(c, {"saveSession"})
    /\ Rpc!Carried(c) /\ Calls(c, "changed")
    /\ UNCHANGED <<vars, config, request, frames, stuck, control>>

Changing(c) == call[c] = "changed" /\ Rpc!Call(c).method = "change"

\* The manager fails with the change made, or a part of it: a driver refuses the next step,
\* or the next task of all, or a waiting task does not start in the slot that is free now.
CallFails(c) ==
    /\ daemon = "up" /\ Changing(c)
    /\ Rpc!Answered(c, "error") /\ Calls(c, "none")
    /\ UNCHANGED <<vars, config, ran, stuck, control>>

\* A snapshot asks the BitTorrent driver, and waits for its lock.
Snapshots(p) == ~stuck /\ SaveSession(p)

CallSaves(c) ==
    /\ call[c] = "changed" /\ Snapshots(c) /\ Calls(c, "saving")
    /\ UNCHANGED <<config, request, frames, ran, stuck, control>>

CallReturns(c) ==
    /\ Rename(c)
    /\ Rpc!Answered(c, IF tmp = None THEN "error" ELSE "ok")
    /\ Calls(c, "none")
    /\ UNCHANGED <<config, ran, stuck, control>>

\* After its save a call goes on to fillSlots; what that starts is saved once more.
CallFillsSlots(c) ==
    /\ tmp # None /\ Rename(c)
    /\ Rpc!Call(c).method = "change" /\ Calls(c, "changed")
    /\ UNCHANGED <<config, request, frames, ran, stuck, control>>

\* Start locks Driver.mu a second time when it begins an integrity check.  Whoever calls it,
\* a call, syncLoop or the main goroutine before it serves, goes no further, and nor does
\* anybody who needs the lock.
TorrentStarts ==
    /\ daemon = "up" /\ config.torrents /\ ~stuck /\ stuck' = TRUE
    /\ \/ main = "boot" /\ UNCHANGED call
       \/ "sync" \in config.loops /\ saver["sync"].pc = "idle" /\ ~Booting /\ UNCHANGED call
       \/ \E c \in Clients : Changing(c) /\ Calls(c, "stuck")
    /\ UNCHANGED <<vars, config, request, frames, ran, control>>

\* The handler answers at once and leaves the rest to a goroutine.
ShutdownCall(c) ==
    /\ Free(c) /\ Rpc!Executable(c, {"shutdown", "forceShutdown"})
    /\ hooks' = hooks \cup {Rpc!Call(c).method = "forceShutdown"}
    /\ Rpc!Carried(c) /\ Rpc!Answered(c, "ok")
    /\ UNCHANGED <<vars, config, call, stuck, requested, main, atClose, forced>>

\* Writing path.tmp is the same for all of them.
SaverWrites(p) ==
    /\ OpenTmp(p) \/ WriteTmp(p)
    /\ UNCHANGED <<front, control>>

\* The loops are started before the server and never stopped.
LoopSaves(p) ==
    /\ p \in config.loops /\ ~Booting
    /\ Snapshots(p) \/ Rename(p)
    /\ UNCHANGED <<front, control>>

\* Downloads make progress, which nobody saves.
Progress == Change /\ UNCHANGED <<front, control>>

-----------------------------------------------------------------------------
(* The main goroutine. *)

MainTo(step) == main' = step /\ UNCHANGED <<hooks, requested, atClose, forced>>

\* bootstrapStartupJobs: what a job fails with is only logged.
BootJob ==
    /\ main = "boot" /\ ~stuck /\ saver["main"].pc = "idle"
    /\ Change /\ MainTo("bootSave") /\ UNCHANGED front
BootSaves ==
    /\ main = "bootSave" /\ Snapshots("main") /\ MainTo("bootSaving") /\ UNCHANGED front
BootSaved ==
    /\ main = "bootSaving" /\ Rename("main") /\ MainTo("boot") /\ UNCHANGED front
Serve ==
    /\ daemon = "up" /\ main = "boot" /\ ~stuck /\ MainTo("serve") /\ UNCHANGED <<vars, front>>

\* The hook's send does not wait: a second request is dropped while the first is buffered.
Hook(force) ==
    /\ daemon = "up" /\ force \in hooks /\ hooks' = hooks \ {force}
    /\ requested' = IF requested = "none" THEN (IF force THEN "force" ELSE "graceful")
                                          ELSE requested
    /\ UNCHANGED <<vars, front, main, atClose, forced>>

\* SIGINT or SIGTERM.
Signal ==
    /\ daemon = "up" /\ main = "serve" /\ MainTo("drain") /\ UNCHANGED <<vars, front>>
GracefulShutdown ==
    /\ daemon = "up" /\ main = "serve" /\ requested = "graceful"
    /\ requested' = "none" /\ main' = "drain"
    /\ UNCHANGED <<vars, front, hooks, atClose, forced>>
\* server.Close drops the connections; the handlers go on.
ForcedShutdown ==
    /\ daemon = "up" /\ main = "serve" /\ requested = "force"
    /\ requested' = "none" /\ main' = "close" /\ forced' = TRUE /\ atClose' = version
    /\ UNCHANGED <<vars, front, hooks>>

ServerShut(step) ==
    /\ daemon = "up" /\ main = "drain"
    /\ main' = step /\ atClose' = version
    /\ UNCHANGED <<vars, front, hooks, requested, forced>>
\* server.Shutdown has seen all its connections idle.
Drained == (\A c \in HttpClients : request[c] = None) /\ ServerShut("close")
\* Mutant: Shutdown gets a context without a deadline.
DrainGoesOn == (\A c \in HttpClients : request[c] = None) /\ ServerShut("exitUnsaved")
\* It has not after five seconds.  Close gets the same context, and Save refuses one that
\* has expired, once it has the snapshot.
DrainTimesOut == (\E c \in HttpClients : request[c] # None) /\ ServerShut("exitUnsaved")

\* Mutant: nothing is left to save once the server is shut down.
CloseSavesNothing ==
    /\ main = "close" /\ MainTo("exit") /\ UNCHANGED <<vars, front>>
CloseSaves ==
    /\ main = "close" /\ Snapshots("main") /\ MainTo("closing") /\ UNCHANGED front
Closed ==
    /\ main = "closing" /\ Rename("main") /\ MainTo("exit") /\ UNCHANGED front

Reset ==
    /\ Rpc!Hangup /\ call' = [c \in Clients |-> "none"]
    /\ hooks' = {} /\ requested' = "none" /\ main' = "boot" /\ atClose' = 0
    /\ stuck' = FALSE /\ UNCHANGED <<config, forced>>

\* The last thing is to close the BitTorrent driver, which takes its lock.
Exit == main \in {"exit", "exitUnsaved"} /\ ~stuck /\ Dies /\ UNCHANGED crashes /\ Reset
Killed == Crash /\ Reset
Restart == LoadSession /\ UNCHANGED <<front, control>>

MainStep == \/ Serve \/ GracefulShutdown \/ ForcedShutdown \/ Drained \/ DrainTimesOut
            \/ BootSaves \/ BootSaved \/ CloseSaves \/ Closed \/ Exit
            \/ SaverWrites("main")

-----------------------------------------------------------------------------

DaemonInit ==
    /\ Init /\ config \in Configs /\ Rpc!RpcInit
    /\ call = [c \in Clients |-> "none"]
    /\ hooks = {} /\ requested = "none" /\ main = "boot" /\ atClose = 0
    /\ forced = FALSE /\ stuck = FALSE

DaemonNext ==
    \/ \E c \in Clients : \/ Receive(c) \/ Dispatch(c) \/ ChangeRefused(c) \/ BeginChange(c)
                          \/ BeginSave(c) \/ CallFails(c) \/ CallSaves(c) \/ CallReturns(c)
                          \/ CallFillsSlots(c) \/ ShutdownCall(c) \/ SaverWrites(c)
    \/ TorrentStarts \/ Progress \/ (\E p \in Loops : LoopSaves(p) \/ SaverWrites(p))
    \/ BootJob \/ MainStep \/ Signal \/ (\E force \in BOOLEAN : Hook(force))
    \/ Killed \/ Restart
DaemonSpec == DaemonInit /\ [][DaemonNext]_daemonVars

\* The main goroutine and the hook's run; a handler may take as long as it likes, and
\* nobody has to call, to signal or to start the daemon again.
DaemonFairSpec ==
    /\ DaemonSpec /\ WF_daemonVars(MainStep)
    /\ \A force \in BOOLEAN : WF_daemonVars(Hook(force))

-----------------------------------------------------------------------------
(* Properties. *)

\* Every variable has its type.
DaemonTypeOK ==
    /\ Rpc!RpcTypeOK /\ config \in Configs
    /\ call \in [Clients -> {"none", "changed", "saving", "stuck"}] /\ stuck \in BOOLEAN
    /\ hooks \subseteq BOOLEAN /\ requested \in {"none", "graceful", "force"}
    /\ main \in {"boot", "bootSave", "bootSaving", "serve", "drain", "close", "closing",
                 "exit", "exitUnsaved"}
    /\ atClose \in 0..Versions /\ forced \in BOOLEAN

\* Where only one HTTP client at a time makes the daemon save, saves never overlap:
\* shutdown waits for the request at hand before it saves on its own.
Users == {c \in Clients : config.sends[c] # {}}
Quiet == /\ config.loops = {} /\ ~forced
         /\ Users \subseteq HttpClients /\ Cardinality(Users) <= 1
QuietSavesAlone == Quiet => ~overlapped

\* Then an orderly exit that is not cut short by its deadline leaves a file that holds
\* everything that had happened when the server was shut down.
Kept == Whole(Stored) /\ Stored[1] >= atClose
CleanExit == Quiet /\ main = "exit" => Kept

\* With savers that do not get in each other's way a shutdown loses nothing.
OrderlyExit == QuietSavesAlone /\ CleanExit

\* A shutdown that was asked for comes about, whatever the requests under way do: unless
\* the lock of the BitTorrent driver has been taken for good.
ShutdownEnds == hooks # {} \/ main \in {"drain", "close"} ~> daemon # "up" \/ stuck

\* What the code does not do: end all the same.
ShutdownAlwaysEnds == hooks # {} \/ main \in {"drain", "close"} ~> daemon # "up"

\* Close saves the session once more before the daemon exits.
ExitIsSaved == main \in {"exit", "exitUnsaved"} /\ ~overlapped => Kept
==============================================================================
