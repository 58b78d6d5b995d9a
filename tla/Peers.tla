------------------------------- MODULE Peers -------------------------------
(***************************************************************************)
(* Ed2kDriver and BtDriver, the drivers that leave the transfer to a        *)
(* library, side by side.  A behaviour is of one of them; the variables of  *)
(* the other stay as they begin.                                            *)
(***************************************************************************)
EXTENDS Ed2kDriver
CONSTANTS Second, Kinds, Rates, MaxMoved, BtOptions    \* see BtDriver

VARIABLES
    driver,
    kind, options, known, mu, btStarted, btPaused, btRemoved, seedStopped,
    completionHandled, sessionDetached, limiter, throttled, sampled,
    torrent, info, complete, allowed, moved, selector, restorer, btLoad, btSaved

btVars == <<kind, options, known, mu, btStarted, btPaused, btRemoved, seedStopped,
            completionHandled, sessionDetached, limiter, throttled, sampled,
            torrent, info, complete, allowed, moved, selector, restorer, btLoad, btSaved>>
all == <<driver, vars, btVars>>

Bt == INSTANCE BtDriver WITH
    Options <- BtOptions, started <- btStarted, paused <- btPaused, removed <- btRemoved,
    load <- btLoad, saved <- btSaved
ASSUME BtAssumption == Bt!BtAssumption

PeersInit == driver \in {"ed2k", "bt"} /\ Init /\ Bt!Init
PeersNext ==
    /\ UNCHANGED driver
    /\ \/ driver = "ed2k" /\ Next /\ UNCHANGED btVars
       \/ driver = "bt" /\ Bt!Next /\ UNCHANGED vars

\* The fairness of the two modules, each for its own behaviours.
OfEd2k(A) == driver = "ed2k" /\ A /\ UNCHANGED <<driver, btVars>>
OfBt(A) == driver = "bt" /\ A /\ UNCHANGED <<driver, vars>>
PeersSpec == PeersInit /\ [][PeersNext]_all
PeersFairness ==
    /\ \A r \in Rechecks : WF_all(OfEd2k(RecheckGoesOn(r)))
    /\ WF_all(OfBt(Bt!Goroutines)) /\ WF_all(OfBt(Bt!EnforceTaskRateLimits)) /\ WF_all(OfBt(Bt!Tick))
FairPeersSpec == PeersSpec /\ PeersFairness

-----------------------------------------------------------------------------
(* The properties that both drivers have, each in its own terms.             *)

\* What the flags of the driver say and what the library does agree.
FlagsMatch == InStep /\ Bt!NoSilentStall
\* At most one worker of a task goes on, and none of a removed task.
ContractsKept == KeepsContract /\ Bt!KeepsContract
\* Nothing wakes a paused download but a call that resumes it.
PausedStayStill == PausedStaysStill /\ Bt!PausedStaysStill
\* An active download that has been stopped, by a recheck or a limit, goes on again.
StallsEnd == StallEnds /\ Bt!ThrottleEnds
=============================================================================
