--------------------------- MODULE DownloadLimits ---------------------------
(***************************************************************************)
(* max-overall-download-limit in the HTTP, FTP and SFTP drivers.  The driver *)
(* has one limiter, or none.  When a task is added, restored or given        *)
(* options, its options decide whether it keeps the limiter the driver has   *)
(* then, one of its own or none; its goroutine waits on it after every block *)
(* it has read.                                                              *)
(***************************************************************************)
EXTENDS ByteLimiter, FiniteSets

CONSTANTS
    Kinds,        \* the drivers considered: a subset of {"http", "ftp"}, where FTP is
                  \* also SFTP
    Tasks,
    Limiters,     \* bound: objects that NewByteLimiter makes
    Rates,        \* bytes per tick that clients set
    Fastest,      \* the highest of them
    Blocks,       \* lengths of the blocks that are read
    None

ASSUME LimitsAssumption ==
    /\ Kinds \subseteq {"http", "ftp"}
    /\ Rates \subseteq 1..Fastest /\ Fastest \in Rates
    /\ Blocks \subseteq Nat \ {0}
    /\ Limiters # {} /\ None \notin {"own", "none"} /\ {None, "own", "none"} \cap Limiters = {}

VARIABLES
    kind,
    bucket,       \* the limiters
    made,         \* those in use so far
    limiter,      \* Driver.limiter
    holds,        \* state.limiter of each task; "own" for one that no other task has
    wait,         \* the call of Wait of each task's goroutine
    dropped,      \* history: the limiters that the driver has forgotten
    excess        \* history: bytes that the others let through beyond what Fastest allows

vars == <<kind, bucket, made, limiter, holds, wait, dropped, excess>>

Awake == [pc |-> "idle", on |-> None, remaining |-> 0, timer |-> 0]
Waiting(t) == wait[t].pc # "idle"

\* An object that is not in use.
New(used) == CHOOSE o \in Limiters : o \notin used
\* What an option of a task says: nothing, or nothing that can be read; no limit; a limit.
Settings == {"absent", "lifted", "limited"}

-----------------------------------------------------------------------------
(* The driver. *)

\* own and overall: max-download-limit and max-overall-download-limit of the task.
NewTaskDownloadLimiter(own, overall, base) ==
    CASE own = "lifted" -> None
      [] own = "limited" -> "own"
      [] own = "absent" /\ overall = "lifted" -> None
      [] own = "absent" /\ overall = "limited" /\ base = None -> "own"
      [] OTHER -> base

\* The options of a task are not kept: whatever they say may be found.
Choices(owns, base) ==
    {NewTaskDownloadLimiter(own, overall, base) : own \in owns, overall \in Settings}
Hold(t, which) == holds' = [holds EXCEPT ![t] = which]

Add(t) ==
    /\ holds[t] = "none"
    /\ \E which \in Choices(Settings, limiter) : Hold(t, which)
    /\ UNCHANGED <<kind, bucket, made, limiter, wait, dropped, excess>>

\* The HTTP driver looks at the limiter again whatever the option, the others when it is
\* max-download-limit, a number then.  A goroutine that waits goes on waiting on the limiter
\* it had.
ChangeOption(t) ==
    /\ holds[t] # "none"
    /\ LET owns == IF kind = "http" THEN Settings ELSE {"lifted", "limited"}
       IN \E which \in Choices(owns, limiter) : Hold(t, which)
    /\ UNCHANGED <<kind, bucket, made, limiter, wait, dropped, excess>>

\* Mutant: every new limit makes a new limiter.
SetDownloadLimitAnew(rate) ==
    /\ Limiters # made
    /\ made' = made \cup {New(made)} /\ limiter' = New(made)
    /\ bucket' = [bucket EXCEPT ![New(made)] = NewByteLimiter(rate)]
    /\ UNCHANGED <<kind, holds, wait, dropped, excess>>

SetDownloadLimit(rate) ==
    /\ IF limiter # None
       THEN /\ bucket' = [bucket EXCEPT ![limiter] = SetRate(@, rate)]
            /\ UNCHANGED <<made, limiter>>
       ELSE /\ Limiters # made
            /\ made' = made \cup {New(made)} /\ limiter' = New(made)
            /\ bucket' = [bucket EXCEPT ![New(made)] = NewByteLimiter(rate)]
    /\ UNCHANGED <<kind, holds, wait, dropped, excess>>

\* SetDownloadLimit(0): the tasks keep the limiter that the driver forgets.
LiftDownloadLimit ==
    /\ limiter # None
    /\ limiter' = None
    /\ dropped' = dropped \cup {limiter} /\ excess' = 0
    /\ UNCHANGED <<kind, bucket, made, holds, wait>>

\* The FTP and SFTP drivers restore a task as if the driver had no limiter.
LoadSessionTasks ==
    /\ wait' = [t \in Tasks |-> Awake]
    /\ dropped' = {} /\ excess' = 0
    /\ limiter' \in {New({}), None} /\ made' = {limiter'} \ {None}
    /\ \E rate \in IF limiter' = None THEN {Fastest} ELSE Rates :
          bucket' = [o \in Limiters |-> NewByteLimiter(IF o \in made' THEN rate ELSE Fastest)]
    /\ \E held \in [Tasks -> Choices(Settings, IF kind = "http" THEN limiter' ELSE None)] :
          holds' = [t \in Tasks |-> IF holds[t] = "none" THEN "none" ELSE held[t]]
    /\ UNCHANGED kind

-----------------------------------------------------------------------------
(* The goroutines. *)

Count(t, n) == excess' = IF wait[t].on \in dropped THEN excess ELSE excess + n

\* waitBytes after a block of n bytes.
WaitBytes(t) ==
    /\ ~Waiting(t) /\ holds[t] \in Limiters
    /\ \E n \in Blocks :
          wait' = [wait EXCEPT ![t] = [pc |-> "take", on |-> holds[t], remaining |-> n, timer |-> 0]]
    /\ UNCHANGED <<kind, bucket, made, limiter, holds, dropped, excess>>

\* Mutant: the bytes a waiter has paid for already are asked for again.
TakeAll(t) ==
    /\ wait[t].pc = "take"
    /\ LET w == wait[t]
           had == Fill(bucket[w.on]).tokens
       IN /\ bucket' = [bucket EXCEPT ![w.on] = Drain(@, w.remaining)]
          /\ wait' = [wait EXCEPT ![t] =
                IF had >= w.remaining THEN Awake
                ELSE [@ EXCEPT !.pc = "sleep", !.timer = Sleep(bucket[w.on], w.remaining)]]
          /\ Count(t, Least(had, w.remaining))
    /\ UNCHANGED <<kind, made, limiter, holds, dropped>>

\* One turn of the loop of Wait.
Take(t) ==
    /\ wait[t].pc = "take"
    /\ LET w == wait[t]
           had == Fill(bucket[w.on]).tokens
           left == w.remaining - had
       IN /\ bucket' = [bucket EXCEPT ![w.on] = Drain(@, w.remaining)]
          /\ wait' = [wait EXCEPT ![t] =
                IF left <= 0 THEN Awake
                ELSE [@ EXCEPT !.pc = "sleep", !.remaining = left, !.timer = Sleep(bucket[w.on], left)]]
          /\ Count(t, Least(had, w.remaining))
    /\ UNCHANGED <<kind, made, limiter, holds, dropped>>

Wake(t) ==
    /\ wait[t].pc = "sleep" /\ wait[t].timer = 0
    /\ wait' = [wait EXCEPT ![t].pc = "take"]
    /\ UNCHANGED <<kind, bucket, made, limiter, holds, dropped, excess>>

\* Pause or Remove cancels the context of a goroutine that sleeps.
Cancel(t) ==
    /\ wait[t].pc = "sleep"
    /\ wait' = [wait EXCEPT ![t] = Awake]
    /\ UNCHANGED <<kind, bucket, made, limiter, holds, dropped, excess>>

Tick ==
    /\ bucket' = [o \in Limiters |-> IF o \in made THEN Elapse(bucket[o]) ELSE bucket[o]]
    /\ wait' = [t \in Tasks |-> [wait[t] EXCEPT !.timer = IF @ > 0 THEN @ - 1 ELSE 0]]
    /\ excess' = IF excess > Fastest THEN excess - Fastest ELSE 0
    /\ UNCHANGED <<kind, made, limiter, holds, dropped>>

-----------------------------------------------------------------------------

Init ==
    /\ kind \in Kinds
    /\ limiter \in {New({}), None} /\ made = {limiter} \ {None}
    /\ \E rate \in Rates :
          bucket = [o \in Limiters |-> NewByteLimiter(IF o \in made THEN rate ELSE Fastest)]
    /\ holds = [t \in Tasks |-> "none"] /\ wait = [t \in Tasks |-> Awake]
    /\ dropped = {} /\ excess = 0

Work(t) == WaitBytes(t) \/ Take(t) \/ Wake(t)
Next ==
    \/ \E t \in Tasks : Add(t) \/ ChangeOption(t) \/ Work(t) \/ Cancel(t)
    \/ (\E rate \in Rates : SetDownloadLimit(rate)) \/ LiftDownloadLimit
    \/ LoadSessionTasks \/ Tick
Spec == Init /\ [][Next]_vars
\* Time passes, and a goroutine whose timer is over goes on.
FairSpec == Spec /\ WF_vars(Tick) /\ \A t \in Tasks : WF_vars(Take(t) \/ Wake(t))

-----------------------------------------------------------------------------
(* Properties. *)

\* The variables have their types; no bucket is ever overdrawn or holds more than a
\* second's worth.
TypeOK ==
    /\ kind \in Kinds
    /\ bucket \in [Limiters -> Buckets(Rates)]
    /\ \A o \in Limiters : bucket[o].tokens <= Capacity(bucket[o].rate)
    /\ made \subseteq Limiters /\ limiter \in made \cup {None}
    /\ holds \in [Tasks -> made \cup {None, "own", "none"}]
    /\ wait \in [Tasks -> [pc : {"idle", "take", "sleep"}, on : made \cup {None},
                           remaining : Nat, timer : 0..Second]]
    /\ dropped \subseteq made /\ excess \in Nat

\* Over any stretch of time the tasks that hold a limiter the driver has not forgotten pass
\* together no more than the highest limit allows and one second's worth besides, however
\* they share it, whatever options they are given and however often the limit changes.
OverallRespected == excess <= Capacity(Fastest)

\* What a client expects who sets an overall limit, and the code does not do: every task
\* that has no limit of its own is under it.
LimitReaches ==
    limiter # None => \A t \in Tasks : holds[t] \in {"none", "own", limiter}

\* Goroutines that wait are let through: not all of them wait for ever.
SomebodyPasses ==
    (\A t \in Tasks : Waiting(t)) ~> (\E t \in Tasks : ~Waiting(t))
==============================================================================
