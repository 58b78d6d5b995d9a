--------------------------- MODULE SettingsProofs ---------------------------
(* Theorems about ByteLimiter and DownloadLimits for every set of tasks, of    *)
(* limiters, of rates and of blocks, about Options (O, in Settings) for every   *)
(* set of goroutines and of the calls they may serve, and about TextSession     *)
(* (T) for every set of URIs, files and setups.                                 *)
EXTENDS DownloadLimits, Settings, TLAPS, SequenceTheorems

-----------------------------------------------------------------------------
(* ByteLimiter: the bucket. *)

\* A bucket that is neither overdrawn nor holds more than a second's worth.
Sound == {b \in Buckets(Rates) : b.tokens <= Capacity(b.rate)}

\* What the bucket may let through at once, if its rate was the highest while nobody used
\* it: Fill takes the rate there is when the bucket is next used.
Brings(b) == Least(b.tokens + b.since * Fastest, Capacity(Fastest))

LEMMA RateType ==
    /\ Second \in Nat /\ Second >= 1 /\ Fastest \in Nat /\ Fastest >= 1
    /\ \A r \in Rates : r \in Nat /\ 1 <= r /\ r <= Fastest
BY LimitsAssumption, SecondAssumption

LEMMA TimesType == \A a, b \in Nat : a * b \in Nat
OBVIOUS

LEMMA TimesMonotonic == \A a, b, c \in Nat : a <= b => a * c <= b * c
OBVIOUS

LEMMA TimesSwap == \A a, b \in Nat : a * b = b * a
OBVIOUS

LEMMA TimesNext == \A a, b \in Nat : (a + 1) * b = a * b + b
OBVIOUS

LEMMA DivNatural == ASSUME NEW a \in Nat, NEW b \in Nat, b >= 1 PROVE a \div b \in Nat
OBVIOUS

LEMMA CapacityType ==
    ASSUME NEW r \in Rates
    PROVE  Capacity(r) \in Nat /\ Capacity(Fastest) \in Nat /\ Capacity(r) <= Capacity(Fastest)
<1>1. /\ r \in Nat /\ r <= Fastest /\ Fastest \in Nat /\ Second \in Nat
  BY RateType
<1>2. r * Second \in Nat /\ Fastest * Second \in Nat /\ r * Second <= Fastest * Second
  BY <1>1, TimesType, TimesMonotonic
<1> QED
  BY <1>2 DEF Capacity

LEMMA SinceType ==
    ASSUME NEW b \in Buckets(Rates)
    PROVE  /\ b.rate \in Rates /\ b.rate \in Nat /\ b.tokens \in Nat
           /\ b.since \in Nat /\ b.since <= Second
           /\ b.since * b.rate \in Nat /\ b.since * Fastest \in Nat
           /\ b.since * b.rate <= b.since * Fastest
           /\ Capacity(b.rate) \in Nat /\ Capacity(Fastest) \in Nat
           /\ Capacity(b.rate) <= Capacity(Fastest)
<1>1. /\ b.rate \in Rates /\ b.rate \in Nat /\ b.rate <= Fastest /\ Fastest \in Nat
      /\ b.tokens \in Nat /\ b.since \in Nat /\ b.since <= Second
  BY RateType DEF Buckets
<1>2. b.since * b.rate \in Nat /\ b.since * Fastest \in Nat /\ b.rate * b.since \in Nat
  BY <1>1, TimesType
<1>3. b.rate * b.since <= Fastest * b.since
  BY <1>1, TimesMonotonic
<1>4. b.rate * b.since = b.since * b.rate /\ Fastest * b.since = b.since * Fastest
  BY <1>1, TimesSwap
<1>5. b.since * b.rate <= b.since * Fastest
  BY <1>3, <1>4
<1>6. Capacity(b.rate) \in Nat /\ Capacity(Fastest) \in Nat /\ Capacity(b.rate) <= Capacity(Fastest)
  BY <1>1, CapacityType
<1> QED
  BY <1>1, <1>2, <1>5, <1>6

\* A new bucket is full.
LEMMA NewIsSound ==
    ASSUME NEW r \in Rates
    PROVE  /\ NewByteLimiter(r) \in Sound
           /\ Brings(NewByteLimiter(r)) <= Capacity(Fastest)
<1> DEFINE b == NewByteLimiter(r)
<1>1. Capacity(r) \in Nat /\ Capacity(Fastest) \in Nat /\ Second \in Nat
  BY CapacityType, RateType
<1>2. b = [rate |-> r, tokens |-> Capacity(r), since |-> 0]
  BY DEF NewByteLimiter
<1>3. b \in Buckets(Rates) /\ b.tokens = Capacity(r) /\ b.rate = r
  BY <1>1, <1>2 DEF Buckets
<1>4. b \in Sound
  BY <1>1, <1>3 DEF Sound
<1>5. Brings(b) <= Capacity(Fastest)
  BY <1>1, <1>3, SinceType DEF Brings, Least
<1> QED
  BY <1>4, <1>5

\* Fill pours in no more than the highest rate would have brought.
LEMMA FillIsSound ==
    ASSUME NEW b \in Sound
    PROVE  /\ Fill(b) \in Sound /\ Fill(b).since = 0 /\ Fill(b).rate = b.rate
           /\ Fill(b).tokens <= Brings(b)
<1>1. b \in Buckets(Rates)
  BY DEF Sound
<1> DEFINE f == Least(b.tokens + b.since * b.rate, Capacity(b.rate))
<1>2. /\ b.tokens \in Nat /\ b.since * b.rate \in Nat /\ b.since * Fastest \in Nat
      /\ b.since * b.rate <= b.since * Fastest
      /\ Capacity(b.rate) \in Nat /\ Capacity(Fastest) \in Nat
      /\ Capacity(b.rate) <= Capacity(Fastest)
  BY <1>1, SinceType
<1>3. f \in Nat /\ f <= Capacity(b.rate) /\ f <= Brings(b)
  BY <1>2 DEF Brings, Least
<1>4. Fill(b) = [b EXCEPT !.tokens = f, !.since = 0]
  BY DEF Fill
<1> HIDE DEF f
<1>5. Fill(b) = [rate |-> b.rate, tokens |-> f, since |-> 0]
  BY <1>1, <1>4 DEF Buckets
<1>6. 0 \in 0..Second /\ b.rate \in Rates
  BY <1>1, RateType DEF Buckets
<1>7. Fill(b) \in Buckets(Rates)
  BY <1>3, <1>5, <1>6 DEF Buckets
<1>8. Fill(b).tokens = f /\ Fill(b).since = 0 /\ Fill(b).rate = b.rate
  BY <1>5
<1> QED
  BY <1>3, <1>7, <1>8 DEF Sound

\* What Wait lets through is what the bucket loses.
LEMMA DrainIsSound ==
    ASSUME NEW b \in Sound, NEW n \in Nat
    PROVE  /\ Drain(b, n) \in Sound
           /\ Fill(b).tokens \in Nat
           /\ Least(Fill(b).tokens, n) \in Nat
           /\ Brings(b) \in Nat /\ Brings(Drain(b, n)) \in Nat
           /\ Brings(Drain(b, n)) + Least(Fill(b).tokens, n) <= Brings(b)
<1> DEFINE f == Fill(b)
           d == Drain(b, n)
           k == IF f.tokens >= n THEN f.tokens - n ELSE 0
<1>1. f \in Sound /\ f.since = 0 /\ f.rate = b.rate /\ f.tokens <= Brings(b)
  BY FillIsSound
<1>2. f \in Buckets(Rates) /\ f.tokens \in Nat /\ f.tokens <= Capacity(f.rate)
  BY <1>1, SinceType DEF Sound
<1>3. d = [f EXCEPT !.tokens = k]
  BY DEF Drain
<1>4. k \in Nat /\ k <= f.tokens /\ k + Least(f.tokens, n) <= f.tokens /\ Least(f.tokens, n) \in Nat
  BY <1>2 DEF Least
<1> HIDE DEF k, f
<1>5. d \in Buckets(Rates) /\ d.tokens = k /\ d.since = 0 /\ d.rate = f.rate
  BY <1>1, <1>2, <1>3, <1>4 DEF Buckets
<1> HIDE DEF d
<1>6. Capacity(f.rate) \in Nat /\ Capacity(Fastest) \in Nat /\ Fastest \in Nat
  BY <1>2, SinceType, RateType
<1>7. d \in Sound
  BY <1>2, <1>4, <1>5, <1>6 DEF Sound
<1>8. 0 * Fastest = 0
  BY <1>6
<1>9. Brings(d) \in Nat /\ Brings(d) <= k
  BY <1>4, <1>5, <1>6, <1>8 DEF Brings, Least
<1>10. Brings(b) \in Nat
  <2>1. b \in Buckets(Rates)
    BY DEF Sound
  <2> QED
    BY <2>1, <1>6, SinceType DEF Brings, Least
<1>11. f.tokens \in Nat /\ Brings(d) + Least(f.tokens, n) <= Brings(b)
  BY <1>1, <1>2, <1>4, <1>9, <1>10
<1> QED
  BY <1>4, <1>7, <1>9, <1>10, <1>11 DEF f, d

\* SetRate never adds tokens.
LEMMA SetRateIsSound ==
    ASSUME NEW b \in Sound, NEW r \in Rates
    PROVE  /\ SetRate(b, r) \in Sound
           /\ Brings(b) \in Nat /\ Brings(SetRate(b, r)) \in Nat
           /\ Brings(SetRate(b, r)) <= Brings(b)
<1> DEFINE d == SetRate(b, r)
           k == Least(b.tokens, Capacity(r))
<1>1. b \in Buckets(Rates)
  BY DEF Sound
<1>2. b.tokens \in Nat /\ b.since * Fastest \in Nat /\ Capacity(Fastest) \in Nat /\ Capacity(r) \in Nat
  BY <1>1, SinceType, CapacityType
<1>3. k \in Nat /\ k <= b.tokens /\ k <= Capacity(r)
  BY <1>2 DEF Least
<1>4. d = [b EXCEPT !.rate = r, !.tokens = k]
  BY DEF SetRate
<1> HIDE DEF k
<1>5. d \in Buckets(Rates) /\ d.rate = r /\ d.tokens = k /\ d.since = b.since
  BY <1>1, <1>3, <1>4 DEF Buckets
<1> HIDE DEF d
<1>6. d \in Sound
  BY <1>3, <1>5 DEF Sound
<1>7. Brings(b) \in Nat /\ Brings(d) \in Nat /\ Brings(d) <= Brings(b)
  BY <1>2, <1>3, <1>5 DEF Brings, Least
<1> QED
  BY <1>6, <1>7 DEF d

\* A tick brings what the highest rate allows in one.
LEMMA ElapseIsSound ==
    ASSUME NEW b \in Sound
    PROVE  /\ Elapse(b) \in Sound
           /\ Brings(b) \in Nat /\ Brings(Elapse(b)) \in Nat
           /\ Brings(Elapse(b)) <= Brings(b) + Fastest
           /\ Brings(Elapse(b)) <= Capacity(Fastest)
<1> DEFINE d == Elapse(b)
           s == Least(b.since + 1, Second)
<1>1. b \in Buckets(Rates) /\ b.tokens <= Capacity(b.rate)
  BY DEF Sound
<1>2. /\ b.tokens \in Nat /\ b.since \in Nat /\ b.since <= Second
      /\ b.since * Fastest \in Nat /\ Capacity(Fastest) \in Nat
  BY <1>1, SinceType
<1>3. s \in Nat /\ s <= Second /\ s <= b.since + 1 /\ Fastest \in Nat /\ b.since + 1 \in Nat
  BY <1>2, RateType DEF Least
<1>4. d = [b EXCEPT !.since = s]
  BY DEF Elapse
<1> HIDE DEF s
<1>5. d \in Buckets(Rates) /\ d.rate = b.rate /\ d.tokens = b.tokens /\ d.since = s
  BY <1>1, <1>3, <1>4, RateType DEF Buckets
<1> HIDE DEF d
<1>6. d \in Sound
  BY <1>1, <1>5 DEF Sound
<1>7. s * Fastest \in Nat /\ s * Fastest <= (b.since + 1) * Fastest
  BY <1>3, TimesType, TimesMonotonic
<1>8. (b.since + 1) * Fastest = b.since * Fastest + Fastest
  BY <1>2, <1>3, TimesNext
<1>9. s * Fastest <= b.since * Fastest + Fastest
  BY <1>7, <1>8
<1>10. d.since * Fastest = s * Fastest
  BY <1>5
<1>11. /\ Brings(b) \in Nat /\ Brings(d) \in Nat
       /\ Brings(d) <= Brings(b) + Fastest /\ Brings(d) <= Capacity(Fastest)
  BY <1>2, <1>3, <1>5, <1>7, <1>9, <1>10 DEF Brings, Least
<1> QED
  BY <1>6, <1>11 DEF d

\* Wait sleeps a second at most.
LEMMA SleepType ==
    ASSUME NEW b \in Sound, NEW n \in Nat
    PROVE  Sleep(b, n) \in 0..Second
<1>1. b.rate \in Nat /\ b.rate >= 1 /\ Second \in Nat
  BY RateType DEF Sound, Buckets
<1>2. n + b.rate - 1 \in Nat
  BY <1>1
<1>3. (n + b.rate - 1) \div b.rate \in Nat
  BY <1>1, <1>2, DivNatural
<1> QED
  BY <1>1, <1>3 DEF Sleep, Least

-----------------------------------------------------------------------------
(* The inductive invariant. *)

Wait == [pc : {"idle", "take", "sleep"}, on : made \cup {None}, remaining : Nat, timer : 0..Second]

\* A goroutine waits on a limiter that was made.
WaitsOnLimiter == \A t \in Tasks : Waiting(t) => holds[t] # "none" /\ wait[t].on \in made

\* The limiters that the driver has not forgotten: the one it has, and no other.
InForce ==
    /\ dropped \subseteq made
    /\ made \ dropped = {limiter} \ {None}

\* What was let through and what the bucket may still let through at once are together no
\* more than a second's worth.
Afforded ==
    IF limiter = None THEN excess = 0
    ELSE excess + Brings(bucket[limiter]) <= Capacity(Fastest)

LimitsInv ==
    /\ TypeOK
    /\ WaitsOnLimiter
    /\ InForce
    /\ Afforded

LEMMA BucketsSound ==
    ASSUME TypeOK
    PROVE  bucket \in [Limiters -> Sound]
BY DEF TypeOK, Sound

LEMMA SoundType ==
    ASSUME bucket \in [Limiters -> Sound]
    PROVE  /\ bucket \in [Limiters -> Buckets(Rates)]
           /\ \A o \in Limiters : bucket[o].tokens <= Capacity(bucket[o].rate)
BY DEF Sound

LEMMA AwakeType == Awake \in Wait /\ Awake.pc = "idle"
<1>1. 0 \in 0..Second /\ 0 \in Nat
  BY RateType
<1> QED
  BY <1>1 DEF Awake, Wait

LEMMA BringsType == ASSUME NEW b \in Sound PROVE Brings(b) \in Nat
BY ElapseIsSound

\* Adding a task, and giving it options.
LEMMA ChoicesType ==
    ASSUME NEW owns, NEW base
    PROVE  Choices(owns, base) \subseteq {None, "own", base}
BY DEF Choices, NewTaskDownloadLimiter

LEMMA HoldKeeps ==
    ASSUME LimitsInv, NEW t \in Tasks, NEW owns, NEW which \in Choices(owns, limiter), Hold(t, which),
           UNCHANGED <<kind, bucket, made, limiter, wait, dropped, excess>>
    PROVE  LimitsInv'
<1>1. holds' = [holds EXCEPT ![t] = which] /\ which \in {None, "own", limiter}
  BY ChoicesType DEF Hold
<1>2. /\ holds \in [Tasks -> made \cup {None, "own", "none"}]
      /\ limiter \in made \cup {None} /\ made \subseteq Limiters
  BY DEF LimitsInv, TypeOK
<1>3. holds' \in [Tasks -> made \cup {None, "own", "none"}]
  BY <1>1, <1>2
<1>4. TypeOK'
  BY <1>3 DEF LimitsInv, TypeOK
<1>5. which # "none"
  BY <1>1, <1>2, LimitsAssumption
<1>6. WaitsOnLimiter'
  BY <1>1, <1>2, <1>5 DEF LimitsInv, WaitsOnLimiter, Waiting
<1>7. InForce' /\ Afforded'
  BY DEF LimitsInv, InForce, Afforded
<1> QED
  BY <1>4, <1>6, <1>7 DEF LimitsInv

LEMMA AddKeeps ==
    ASSUME LimitsInv, NEW t \in Tasks, Add(t) PROVE LimitsInv'
BY HoldKeeps DEF Add

LEMMA ChangeOptionKeeps ==
    ASSUME LimitsInv, NEW t \in Tasks, ChangeOption(t) PROVE LimitsInv'
BY HoldKeeps DEF ChangeOption

LEMMA NewIsNew ==
    ASSUME NEW used, used \subseteq Limiters, used # Limiters
    PROVE  New(used) \in Limiters \ used
BY DEF New

\* The driver's limit.
LEMMA SetDownloadLimitKeeps ==
    ASSUME LimitsInv, NEW rate \in Rates, SetDownloadLimit(rate) PROVE LimitsInv'
<1>1. UNCHANGED <<kind, holds, wait, dropped, excess>>
  BY DEF SetDownloadLimit
<1>2. bucket \in [Limiters -> Sound]
  BY BucketsSound DEF LimitsInv
<1>3. /\ holds \in [Tasks -> made \cup {None, "own", "none"}]
      /\ wait \in [Tasks -> Wait]
      /\ limiter \in made \cup {None} /\ made \subseteq Limiters
      /\ dropped \subseteq made /\ excess \in Nat /\ kind \in Kinds
  BY DEF LimitsInv, TypeOK, Wait
<1>4. InForce /\ Afforded
  BY DEF LimitsInv
<1>5. ASSUME /\ bucket' \in [Limiters -> Sound]
             /\ made \subseteq made' /\ made' \subseteq Limiters /\ limiter' \in made' \cup {None}
      PROVE  TypeOK' /\ WaitsOnLimiter'
  <2>1. holds' \in [Tasks -> made' \cup {None, "own", "none"}]
    BY <1>1, <1>3, <1>5
  <2>2. wait' \in [Tasks -> Wait']
    <3>1. \A r \in Wait : r \in Wait'
      BY <1>5 DEF Wait
    <3> QED
      BY <1>1, <1>3, <3>1
  <2>3. /\ bucket' \in [Limiters -> Buckets(Rates)]
        /\ \A o \in Limiters : bucket'[o].tokens <= Capacity(bucket'[o].rate)
    BY <1>5 DEF Sound
  <2>4. TypeOK'
    BY <1>1, <1>3, <1>5, <2>1, <2>2, <2>3 DEF TypeOK, Wait
  <2>5. WaitsOnLimiter'
    BY <1>1, <1>5 DEF LimitsInv, WaitsOnLimiter, Waiting
  <2> QED
    BY <2>4, <2>5
<1>6. CASE limiter # None
  <2>1. /\ bucket' = [bucket EXCEPT ![limiter] = SetRate(@, rate)]
        /\ UNCHANGED <<made, limiter>>
    BY <1>6 DEF SetDownloadLimit
  <2>2. limiter \in Limiters
    BY <1>3, <1>6
  <2>3. /\ SetRate(bucket[limiter], rate) \in Sound
        /\ Brings(bucket[limiter]) \in Nat /\ Brings(SetRate(bucket[limiter], rate)) \in Nat
        /\ Brings(SetRate(bucket[limiter], rate)) <= Brings(bucket[limiter])
    BY <1>2, <2>2, SetRateIsSound
  <2>4. bucket' \in [Limiters -> Sound]
    BY <1>2, <2>1, <2>2, <2>3
  <2>5. TypeOK' /\ WaitsOnLimiter'
    BY <1>3, <1>5, <2>1, <2>4
  <2>6. bucket'[limiter'] = SetRate(bucket[limiter], rate)
    BY <1>2, <2>1, <2>2
  <2>7. InForce'
    BY <1>1, <1>4, <2>1 DEF InForce
  <2>8. Afforded'
    <3>1. excess + Brings(bucket[limiter]) <= Capacity(Fastest)
      BY <1>4, <1>6 DEF Afforded
    <3>2. Capacity(Fastest) \in Nat
      BY CapacityType
    <3>3. excess + Brings(SetRate(bucket[limiter], rate)) <= Capacity(Fastest)
      BY <1>3, <2>3, <3>1, <3>2
    <3> QED
      BY <1>1, <1>6, <2>1, <2>6, <3>3 DEF Afforded
  <2> QED
    BY <2>5, <2>7, <2>8 DEF LimitsInv
<1>7. CASE limiter = None
  <2> DEFINE o == New(made)
  <2>1. /\ Limiters # made
        /\ made' = made \cup {o} /\ limiter' = o
        /\ bucket' = [bucket EXCEPT ![o] = NewByteLimiter(rate)]
    BY <1>7 DEF SetDownloadLimit
  <2>2. o \in Limiters /\ o \notin made
    BY <1>3, <2>1, NewIsNew
  <2> HIDE DEF o
  <2>3. /\ NewByteLimiter(rate) \in Sound /\ Brings(NewByteLimiter(rate)) <= Capacity(Fastest)
        /\ Brings(NewByteLimiter(rate)) \in Nat
    BY NewIsSound, BringsType
  <2>4. bucket' \in [Limiters -> Sound] /\ bucket'[o] = NewByteLimiter(rate)
    BY <1>2, <2>1, <2>2, <2>3
  <2>5. TypeOK' /\ WaitsOnLimiter'
    BY <1>3, <1>5, <2>1, <2>2, <2>4
  <2>6. o # None
    BY <2>2, LimitsAssumption
  <2>7. InForce'
    <3>1. made \ dropped = {}
      BY <1>4, <1>7 DEF InForce
    <3>2. made' \ dropped' = {o}
      BY <1>1, <1>3, <2>1, <2>2, <3>1
    <3> QED
      BY <1>1, <1>3, <2>1, <2>6, <3>2 DEF InForce
  <2>8. Afforded'
    <3>1. excess = 0
      BY <1>4, <1>7 DEF Afforded
    <3>2. excess + Brings(NewByteLimiter(rate)) <= Capacity(Fastest)
      BY <2>3, <3>1
    <3> QED
      BY <1>1, <2>1, <2>4, <2>6, <3>2 DEF Afforded
  <2> QED
    BY <2>5, <2>7, <2>8 DEF LimitsInv
<1> QED
  BY <1>6, <1>7

LEMMA LiftKeeps == ASSUME LimitsInv, LiftDownloadLimit PROVE LimitsInv'
<1>1. /\ limiter # None /\ limiter' = None /\ dropped' = dropped \cup {limiter} /\ excess' = 0
      /\ UNCHANGED <<kind, bucket, made, holds, wait>>
  BY DEF LiftDownloadLimit
<1>2. TypeOK' /\ WaitsOnLimiter'
  BY <1>1 DEF LimitsInv, TypeOK, WaitsOnLimiter, Waiting
<1>3. InForce' /\ Afforded'
  BY <1>1 DEF LimitsInv, TypeOK, InForce, Afforded
<1> QED
  BY <1>2, <1>3 DEF LimitsInv

\* A restart.
LEMMA LoadKeeps == ASSUME LimitsInv, LoadSessionTasks PROVE LimitsInv'
<1>1. PICK rate \in IF limiter' = None THEN {Fastest} ELSE Rates :
          bucket' = [o \in Limiters |-> NewByteLimiter(IF o \in made' THEN rate ELSE Fastest)]
  BY DEF LoadSessionTasks
<1> DEFINE base == IF kind = "http" THEN limiter' ELSE None
<1>2. /\ wait' = [t \in Tasks |-> Awake] /\ dropped' = {} /\ excess' = 0 /\ kind' = kind
      /\ limiter' \in {New({}), None} /\ made' = {limiter'} \ {None}
      /\ \E hold \in [Tasks -> Choices(Settings, base)] :
            holds' = [t \in Tasks |-> IF holds[t] = "none" THEN "none" ELSE hold[t]]
  BY DEF LoadSessionTasks
<1>3. Fastest \in Rates
  BY LimitsAssumption
<1>4. bucket' \in [Limiters -> Sound]
  <2>1. \A r \in Rates : NewByteLimiter(r) \in Sound
    BY NewIsSound
  <2>2. rate \in Rates
    BY <1>1, <1>3
  <2> QED
    BY <1>1, <1>3, <2>1, <2>2
<1>5. made' \subseteq Limiters /\ limiter' \in made' \cup {None}
  <2>1. New({}) \in Limiters
    BY NewIsNew, LimitsAssumption
  <2> QED
    BY <1>2, <2>1
<1>6. wait' \in [Tasks -> Wait']
  <2>1. Awake \in Wait'
    BY <1>5, RateType DEF Awake, Wait
  <2> QED
    BY <1>2, <2>1
<1>7. holds' \in [Tasks -> made' \cup {None, "own", "none"}]
  <2>1. Choices(Settings, base) \subseteq made' \cup {None, "own"}
    BY <1>5, ChoicesType
  <2> QED
    BY <1>2, <2>1
<1> HIDE DEF base
<1>9. /\ bucket' \in [Limiters -> Buckets(Rates)]
      /\ \A q \in Limiters : bucket'[q].tokens <= Capacity(bucket'[q].rate)
  BY <1>4 DEF Sound
<1>10. TypeOK'
  BY <1>2, <1>5, <1>6, <1>7, <1>9 DEF LimitsInv, TypeOK, Wait
<1>11. \A t \in Tasks : wait'[t].pc = "idle"
  BY <1>2, AwakeType
<1>12. WaitsOnLimiter'
  BY <1>11 DEF WaitsOnLimiter, Waiting
<1>13. InForce'
  BY <1>2 DEF InForce
<1>14. Afforded'
  <2>1. CASE limiter' = None
    BY <1>2, <2>1 DEF Afforded
  <2>2. CASE limiter' # None
    <3>1. rate \in Rates /\ limiter' \in made' /\ limiter' \in Limiters
      BY <1>1, <1>5, <2>2
    <3>2. bucket'[limiter'] = NewByteLimiter(rate)
      BY <1>1, <3>1
    <3>3. Brings(NewByteLimiter(rate)) \in Nat /\ Brings(NewByteLimiter(rate)) <= Capacity(Fastest)
      BY <3>1, NewIsSound, BringsType
    <3>4. excess' + Brings(bucket'[limiter']) <= Capacity(Fastest)
      BY <1>2, <3>2, <3>3
    <3> QED
      BY <2>2, <3>4 DEF Afforded
  <2> QED
    BY <2>1, <2>2
<1> QED
  BY <1>10, <1>12, <1>13, <1>14 DEF LimitsInv

\* The goroutines.
LEMMA WaitTypes ==
    ASSUME LimitsInv
    PROVE  /\ wait \in [Tasks -> Wait] /\ bucket \in [Limiters -> Sound]
           /\ made \subseteq Limiters /\ limiter \in made \cup {None}
           /\ excess \in Nat /\ None \notin made
           /\ \A t \in Tasks : wait[t].remaining \in Nat /\ wait[t].timer \in 0..Second
<1>1. wait \in [Tasks -> Wait]
  BY DEF LimitsInv, TypeOK, Wait
<1>2. \A t \in Tasks : wait[t].remaining \in Nat /\ wait[t].timer \in 0..Second
  BY <1>1 DEF Wait
<1> QED
  BY <1>1, <1>2, BucketsSound, LimitsAssumption DEF LimitsInv, TypeOK

\* A goroutine that begins to wait, goes on or stops, and touches no bucket.
LEMMA MoveKeeps ==
    ASSUME LimitsInv, NEW t \in Tasks, NEW w \in Wait, wait' = [wait EXCEPT ![t] = w],
           w.pc # "idle" => holds[t] # "none" /\ w.on \in made
                            /\ (w.on = holds[t] \/ (Waiting(t) /\ w.on = wait[t].on)),
           UNCHANGED <<kind, bucket, made, limiter, holds, dropped, excess>>
    PROVE  LimitsInv'
<1>1. wait \in [Tasks -> Wait] /\ made \subseteq Limiters
  BY WaitTypes
<1>2. wait' \in [Tasks -> Wait]
  BY <1>1
<1>3. TypeOK'
  BY <1>2 DEF LimitsInv, TypeOK, Wait
<1>4. \A v \in Tasks : wait'[v] = IF v = t THEN w ELSE wait[v]
  BY <1>1
<1>5. WaitsOnLimiter'
  BY <1>4 DEF LimitsInv, WaitsOnLimiter, Waiting
<1>6. InForce' /\ Afforded'
  BY DEF LimitsInv, InForce, Afforded
<1> QED
  BY <1>3, <1>5, <1>6 DEF LimitsInv

LEMMA WaitBytesKeeps == ASSUME LimitsInv, NEW t \in Tasks, WaitBytes(t) PROVE LimitsInv'
<1>1. PICK k \in Blocks :
          wait' = [wait EXCEPT ![t] = [pc |-> "take", on |-> holds[t], remaining |-> k, timer |-> 0]]
  BY DEF WaitBytes
<1>2. /\ holds[t] \in Limiters /\ UNCHANGED <<kind, bucket, made, limiter, holds, dropped, excess>>
      /\ holds[t] \in made \cup {None, "own", "none"}
  BY DEF WaitBytes, LimitsInv, TypeOK
<1>3. holds[t] \in made /\ holds[t] # "none"
  BY <1>2, LimitsAssumption
<1> DEFINE w == [pc |-> "take", on |-> holds[t], remaining |-> k, timer |-> 0]
<1>4. w \in Wait /\ w.on = holds[t]
  BY <1>3, LimitsAssumption, RateType DEF Wait
<1> QED
  BY <1>1, <1>2, <1>3, <1>4, MoveKeeps

LEMMA WakeKeeps == ASSUME LimitsInv, NEW t \in Tasks, Wake(t) PROVE LimitsInv'
<1>1. /\ wait[t].pc = "sleep" /\ wait' = [wait EXCEPT ![t].pc = "take"]
      /\ UNCHANGED <<kind, bucket, made, limiter, holds, dropped, excess>>
  BY DEF Wake
<1> DEFINE w == [wait[t] EXCEPT !.pc = "take"]
<1>2. wait' = [wait EXCEPT ![t] = w]
  BY <1>1
<1>3. w \in Wait /\ w.on = wait[t].on
  BY WaitTypes DEF Wait
<1>4. Waiting(t) /\ holds[t] # "none" /\ wait[t].on \in made
  BY <1>1 DEF LimitsInv, WaitsOnLimiter, Waiting
<1> QED
  BY <1>1, <1>2, <1>3, <1>4, MoveKeeps

LEMMA CancelKeeps == ASSUME LimitsInv, NEW t \in Tasks, Cancel(t) PROVE LimitsInv'
BY AwakeType, MoveKeeps DEF Cancel

LEMMA SleepRecord ==
    ASSUME NEW r \in Wait, NEW k \in Nat, NEW timer \in 0..Second
    PROVE  LET d == [r EXCEPT !.pc = "sleep", !.remaining = k, !.timer = timer]
           IN  d \in Wait /\ d.on = r.on
BY DEF Wait

\* Wait takes from the bucket what it lets through.
LEMMA TakeKeeps == ASSUME LimitsInv, NEW t \in Tasks, Take(t) PROVE LimitsInv'
<1> DEFINE o == wait[t].on
           wants == wait[t].remaining
           had == Fill(bucket[o]).tokens
           left == wants - had
           w == IF left <= 0 THEN Awake
                ELSE [wait[t] EXCEPT !.pc = "sleep", !.remaining = left,
                                     !.timer = Sleep(bucket[o], left)]
<1>1. /\ wait[t].pc = "take"
      /\ bucket' = [bucket EXCEPT ![o] = Drain(@, wants)]
      /\ wait' = [wait EXCEPT ![t] = w]
      /\ Count(t, Least(had, wants))
      /\ UNCHANGED <<kind, made, limiter, holds, dropped>>
  BY DEF Take
<1>2. /\ wait \in [Tasks -> Wait] /\ bucket \in [Limiters -> Sound] /\ made \subseteq Limiters
      /\ wants \in Nat /\ excess \in Nat /\ None \notin made /\ limiter \in made \cup {None}
  BY WaitTypes
<1>3. Waiting(t) /\ o \in made /\ holds[t] # "none" /\ o \in Limiters /\ bucket[o] \in Sound
  BY <1>1, <1>2 DEF LimitsInv, WaitsOnLimiter, Waiting
<1>4. /\ Drain(bucket[o], wants) \in Sound /\ had \in Nat /\ Least(had, wants) \in Nat
      /\ Brings(bucket[o]) \in Nat /\ Brings(Drain(bucket[o], wants)) \in Nat
      /\ Brings(Drain(bucket[o], wants)) + Least(had, wants) <= Brings(bucket[o])
  BY <1>2, <1>3, DrainIsSound
<1>5. w \in Wait /\ (w.pc # "idle" => w.on = o)
  <2>1. CASE left <= 0
    BY <2>1, AwakeType
  <2>2. CASE ~(left <= 0)
    <3>1. left \in Nat
      BY <1>2, <1>4, <2>2
    <3>2. Sleep(bucket[o], left) \in 0..Second
      BY <1>3, <3>1, SleepType
    <3> HIDE DEF left
    <3>3. wait[t] \in Wait
      BY <1>2
    <3> QED
      BY <1>3, <2>2, <3>1, <3>2, <3>3, SleepRecord DEF left
  <2> QED
    BY <2>1, <2>2
<1> HIDE DEF w, left, had, wants
<1>6. bucket' \in [Limiters -> Sound] /\ bucket'[o] = Drain(bucket[o], wants)
  BY <1>1, <1>2, <1>3, <1>4
<1>7. excess' \in Nat
  BY <1>1, <1>2, <1>4 DEF Count
<1>8. wait' \in [Tasks -> Wait]
  BY <1>1, <1>2, <1>5
<1>9. /\ bucket' \in [Limiters -> Buckets(Rates)]
      /\ \A q \in Limiters : bucket'[q].tokens <= Capacity(bucket'[q].rate)
  BY <1>6 DEF Sound
<1>10. TypeOK'
  BY <1>1, <1>7, <1>8, <1>9 DEF LimitsInv, TypeOK, Wait
<1>11. \A v \in Tasks : wait'[v] = IF v = t THEN w ELSE wait[v]
  BY <1>1, <1>2
<1>12. WaitsOnLimiter'
  BY <1>1, <1>3, <1>5, <1>11 DEF LimitsInv, WaitsOnLimiter, Waiting
<1>13. InForce /\ Afforded
  BY DEF LimitsInv
<1>14. InForce'
  BY <1>1, <1>13 DEF InForce
<1>15. CASE o \in dropped
  <2>1. o # limiter /\ excess' = excess
    BY <1>1, <1>2, <1>13, <1>15 DEF InForce, Count
  <2>2. limiter # None => bucket'[limiter] = bucket[limiter]
    BY <1>1, <1>2, <2>1
  <2>3. Afforded'
    BY <1>1, <1>13, <2>1, <2>2 DEF Afforded
  <2> QED
    BY <1>10, <1>12, <1>14, <2>3 DEF LimitsInv
<1>16. CASE o \notin dropped
  <2>1. o = limiter /\ limiter # None
    BY <1>2, <1>3, <1>13, <1>16 DEF InForce
  <2>2. excess + Brings(bucket[o]) <= Capacity(Fastest) /\ Capacity(Fastest) \in Nat
    BY <1>13, <2>1, CapacityType, LimitsAssumption DEF Afforded
  <2>3. excess' = excess + Least(had, wants)
    BY <1>1, <1>16 DEF Count
  <2>4. excess' + Brings(Drain(bucket[o], wants)) <= Capacity(Fastest)
    BY <1>2, <1>4, <2>2, <2>3
  <2>5. Afforded'
    BY <1>1, <1>6, <2>1, <2>4 DEF Afforded
  <2> QED
    BY <1>10, <1>12, <1>14, <2>5 DEF LimitsInv
<1> QED
  BY <1>15, <1>16

\* Time passes: the bucket gains at most what is taken off what was let through.
LEMMA TickKeeps == ASSUME LimitsInv, Tick PROVE LimitsInv'
<1>1. /\ bucket' = [o \in Limiters |-> IF o \in made THEN Elapse(bucket[o]) ELSE bucket[o]]
      /\ wait' = [t \in Tasks |-> [wait[t] EXCEPT !.timer = IF @ > 0 THEN @ - 1 ELSE 0]]
      /\ excess' = IF excess > Fastest THEN excess - Fastest ELSE 0
      /\ UNCHANGED <<kind, made, limiter, holds, dropped>>
  BY DEF Tick
<1>2. /\ wait \in [Tasks -> Wait] /\ bucket \in [Limiters -> Sound] /\ made \subseteq Limiters
      /\ excess \in Nat /\ None \notin made /\ limiter \in made \cup {None}
  BY WaitTypes
<1>3. Fastest \in Nat /\ Capacity(Fastest) \in Nat
  BY RateType, CapacityType, LimitsAssumption
<1>4. \A t \in Tasks : wait'[t] \in Wait /\ wait'[t].pc = wait[t].pc /\ wait'[t].on = wait[t].on
  <2> SUFFICES ASSUME NEW t \in Tasks
               PROVE  wait'[t] \in Wait /\ wait'[t].pc = wait[t].pc /\ wait'[t].on = wait[t].on
    OBVIOUS
  <2> DEFINE left == IF wait[t].timer > 0 THEN wait[t].timer - 1 ELSE 0
  <2>1. wait[t] \in Wait
    BY <1>2
  <2>2. wait[t].timer \in 0..Second /\ Second \in Nat
    BY <2>1, RateType DEF Wait
  <2>3. left \in 0..Second
    BY <2>2
  <2>4. wait'[t] = [wait[t] EXCEPT !.timer = left]
    BY <1>1
  <2> HIDE DEF left
  <2> QED
    BY <2>1, <2>3, <2>4 DEF Wait
<1>5. wait' \in [Tasks -> Wait]
  BY <1>1, <1>4
<1>6. \A o \in Limiters : bucket'[o] \in Sound
  <2> SUFFICES ASSUME NEW o \in Limiters PROVE bucket'[o] \in Sound
    OBVIOUS
  <2>1. bucket[o] \in Sound
    BY <1>2
  <2>2. Elapse(bucket[o]) \in Sound
    BY <2>1, ElapseIsSound
  <2> QED
    BY <1>1, <2>1, <2>2
<1>7. /\ bucket' \in [Limiters -> Buckets(Rates)]
      /\ \A o \in Limiters : bucket'[o].tokens <= Capacity(bucket'[o].rate)
  BY <1>1, <1>6 DEF Sound
<1>8. excess' \in Nat
  BY <1>1, <1>2, <1>3
<1>9. TypeOK'
  BY <1>1, <1>5, <1>7, <1>8 DEF LimitsInv, TypeOK, Wait
<1>10. WaitsOnLimiter'
  BY <1>1, <1>4 DEF LimitsInv, WaitsOnLimiter, Waiting
<1>11. InForce /\ Afforded
  BY DEF LimitsInv
<1>12. InForce'
  BY <1>1, <1>11 DEF InForce
<1>13. Afforded'
  <2>1. CASE limiter = None
    BY <1>1, <1>2, <1>3, <1>11, <2>1 DEF Afforded
  <2>2. CASE limiter # None
    <3>1. limiter \in made /\ limiter \in Limiters /\ bucket[limiter] \in Sound
      BY <1>2, <2>2
    <3>2. bucket'[limiter] = Elapse(bucket[limiter])
      BY <1>1, <3>1
    <3>3. /\ Brings(bucket[limiter]) \in Nat /\ Brings(bucket'[limiter]) \in Nat
          /\ Brings(bucket'[limiter]) <= Brings(bucket[limiter]) + Fastest
          /\ Brings(bucket'[limiter]) <= Capacity(Fastest)
      BY <3>1, <3>2, ElapseIsSound
    <3>4. excess + Brings(bucket[limiter]) <= Capacity(Fastest)
      BY <1>11, <2>2 DEF Afforded
    <3>5. excess' + Brings(bucket'[limiter]) <= Capacity(Fastest)
      BY <1>1, <1>2, <1>3, <3>3, <3>4
    <3> QED
      BY <1>1, <2>2, <3>5 DEF Afforded
  <2> QED
    BY <2>1, <2>2
<1> QED
  BY <1>9, <1>10, <1>12, <1>13 DEF LimitsInv

LEMMA Start == Init => LimitsInv
<1> SUFFICES ASSUME Init PROVE LimitsInv
  OBVIOUS
<1>1. PICK rate \in Rates :
          bucket = [o \in Limiters |-> NewByteLimiter(IF o \in made THEN rate ELSE Fastest)]
  BY DEF Init
<1>2. /\ kind \in Kinds /\ holds = [t \in Tasks |-> "none"] /\ wait = [t \in Tasks |-> Awake]
      /\ dropped = {} /\ excess = 0
      /\ limiter \in {New({}), None} /\ made = {limiter} \ {None}
  BY DEF Init
<1>3. bucket \in [Limiters -> Sound]
  <2>1. \A r \in Rates : NewByteLimiter(r) \in Sound
    BY NewIsSound
  <2> QED
    BY <1>1, <2>1, LimitsAssumption
<1>4. \A t \in Tasks : ~Waiting(t)
  BY <1>2, AwakeType DEF Waiting
<1>5. wait \in [Tasks -> Wait]
  BY <1>2, AwakeType
<1>6. /\ bucket \in [Limiters -> Buckets(Rates)]
      /\ \A o \in Limiters : bucket[o].tokens <= Capacity(bucket[o].rate)
  BY <1>3 DEF Sound
<1>7. TypeOK
  <2>1. New({}) \in Limiters
    BY NewIsNew, LimitsAssumption
  <2> QED
    BY <1>2, <1>5, <1>6, <2>1 DEF TypeOK, Wait
<1>8. WaitsOnLimiter /\ InForce
  BY <1>2, <1>4 DEF WaitsOnLimiter, InForce
<1>9. Afforded
  <2>1. CASE limiter = None
    BY <1>2, <2>1 DEF Afforded
  <2>2. CASE limiter # None
    <3>1. limiter \in made /\ limiter \in Limiters
      BY <1>2, <1>7, <2>2 DEF TypeOK
    <3>2. bucket[limiter] = NewByteLimiter(rate)
      BY <1>1, <3>1
    <3>3. Brings(NewByteLimiter(rate)) \in Nat /\ Brings(NewByteLimiter(rate)) <= Capacity(Fastest)
      BY NewIsSound, BringsType
    <3> QED
      BY <1>2, <2>2, <3>2, <3>3 DEF Afforded
  <2> QED
    BY <2>1, <2>2
<1> QED
  BY <1>7, <1>8, <1>9 DEF LimitsInv

LEMMA Step == LimitsInv /\ [Next]_vars => LimitsInv'
<1> SUFFICES ASSUME LimitsInv, [Next]_vars PROVE LimitsInv'
  OBVIOUS
<1>1. ASSUME NEW t \in Tasks, Add(t) \/ ChangeOption(t) \/ Work(t) \/ Cancel(t)
      PROVE  LimitsInv'
  BY <1>1, AddKeeps, ChangeOptionKeeps, WaitBytesKeeps, TakeKeeps, WakeKeeps, CancelKeeps DEF Work
<1>2. ASSUME NEW rate \in Rates, SetDownloadLimit(rate) PROVE LimitsInv'
  BY <1>2, SetDownloadLimitKeeps
<1>3. CASE LiftDownloadLimit
  BY <1>3, LiftKeeps
<1>4. CASE LoadSessionTasks
  BY <1>4, LoadKeeps
<1>5. CASE Tick
  BY <1>5, TickKeeps
<1>6. CASE UNCHANGED vars
  <2>1. TypeOK'
    BY <1>6 DEF LimitsInv, TypeOK, vars
  <2>2. WaitsOnLimiter' = WaitsOnLimiter /\ InForce' = InForce /\ Afforded' = Afforded
    BY <1>6 DEF WaitsOnLimiter, InForce, Afforded, Waiting, vars
  <2> QED
    BY <1>6, <2>1, <2>2 DEF LimitsInv, vars
<1> QED
  BY <1>1, <1>2, <1>3, <1>4, <1>5, <1>6 DEF Next

\* The variables keep their types; no bucket is overdrawn or holds more than a second's worth.
THEOREM TypeCorrect == Spec => []TypeOK
<1>1. LimitsInv => TypeOK
  BY DEF LimitsInv
<1> QED
  BY <1>1, Start, Step, PTL DEF Spec

\* However many tasks share the limiter of a driver, whatever options and blocks they are
\* given and however the limit moves, is lifted and set again, those that hold the limiter
\* the driver has pass no more over any stretch of time than the highest rate allows and one
\* second's worth.
THEOREM OverallCorrect == Spec => []OverallRespected
<1>1. LimitsInv => OverallRespected
  <2> SUFFICES ASSUME LimitsInv PROVE excess <= Capacity(Fastest)
    BY DEF OverallRespected
  <2>1. Afforded /\ excess \in Nat /\ limiter \in made \cup {None} /\ made \subseteq Limiters
    BY DEF LimitsInv, TypeOK
  <2>2. Capacity(Fastest) \in Nat
    BY CapacityType, LimitsAssumption
  <2>3. CASE limiter = None
    BY <2>1, <2>2, <2>3 DEF Afforded
  <2>4. CASE limiter # None
    <3>1. bucket[limiter] \in Sound
      BY <2>1, <2>4, BucketsSound DEF LimitsInv
    <3>2. Brings(bucket[limiter]) \in Nat
      BY <3>1, BringsType
    <3>3. excess + Brings(bucket[limiter]) <= Capacity(Fastest)
      BY <2>1, <2>4 DEF Afforded
    <3> QED
      BY <2>1, <2>2, <3>2, <3>3
  <2> QED
    BY <2>3, <2>4
<1> QED
  BY <1>1, Start, Step, PTL DEF Spec

-----------------------------------------------------------------------------
(* Options: what is left of a call. *)

CreateAll  == <<"create", "read", "store", "write">>
TellAll    == <<"driver", "read", "store", "read", "store", "write">>
TellSync   == <<"driver", "sync", "read", "store", "read", "store", "write">>
SyncAll    == <<"sync", "read", "store", "read", "store", "write">>
TwoReads   == <<"read", "store", "read", "store", "write">>
FirstStore == <<"store", "read", "store", "write">>
ReadLast   == <<"read", "store", "write">>
StoreLast  == <<"store", "write">>
WriteLast  == <<"write">>
JustRead   == <<"read", "store">>
JustStore  == <<"store">>
JustSync   == <<"sync">>
BothLimits == <<"http", "bt">>
LastLimit  == <<"bt">>

Ends   == {ReadLast, StoreLast, WriteLast, <<>>}
Syncs  == {TellSync, SyncAll, JustSync}
Drives == {TellAll, TellSync}
Stores == {FirstStore, StoreLast, JustStore}
Todos  == {CreateAll, TellAll, TwoReads, JustRead, BothLimits, LastLimit}
             \cup Ends \cup Syncs \cup Stores

\* They are told apart by their length and their first step.
LEMMA Lengths ==
    /\ Len(CreateAll) = 4 /\ Len(TellAll) = 6 /\ Len(TellSync) = 7 /\ Len(SyncAll) = 6
    /\ Len(TwoReads) = 5 /\ Len(FirstStore) = 4 /\ Len(ReadLast) = 3 /\ Len(StoreLast) = 2
    /\ Len(WriteLast) = 1 /\ Len(JustRead) = 2 /\ Len(JustStore) = 1 /\ Len(JustSync) = 1
    /\ Len(BothLimits) = 2 /\ Len(LastLimit) = 1 /\ Len(<<>>) = 0
BY DEF CreateAll, TellAll, TellSync, SyncAll, TwoReads, FirstStore, ReadLast, StoreLast,
       WriteLast, JustRead, JustStore, JustSync, BothLimits, LastLimit

LEMMA Heads ==
    /\ Head(CreateAll) = "create" /\ Head(TellAll) = "driver" /\ Head(TellSync) = "driver"
    /\ Head(SyncAll) = "sync" /\ Head(TwoReads) = "read" /\ Head(FirstStore) = "store"
    /\ Head(ReadLast) = "read" /\ Head(StoreLast) = "store" /\ Head(WriteLast) = "write"
    /\ Head(JustRead) = "read" /\ Head(JustStore) = "store" /\ Head(JustSync) = "sync"
    /\ Head(BothLimits) = "http" /\ Head(LastLimit) = "bt"
BY DEF CreateAll, TellAll, TellSync, SyncAll, TwoReads, FirstStore, ReadLast, StoreLast,
       WriteLast, JustRead, JustStore, JustSync, BothLimits, LastLimit

LEMMA TailsOf ==
    /\ Tail(CreateAll) = ReadLast /\ Tail(TellAll) = TwoReads /\ Tail(TellSync) = SyncAll
    /\ Tail(SyncAll) = TwoReads /\ Tail(TwoReads) = FirstStore /\ Tail(FirstStore) = ReadLast
    /\ Tail(ReadLast) = StoreLast /\ Tail(StoreLast) = WriteLast /\ Tail(WriteLast) = <<>>
    /\ Tail(JustRead) = JustStore /\ Tail(JustStore) = <<>> /\ Tail(JustSync) = <<>>
    /\ Tail(BothLimits) = LastLimit /\ Tail(LastLimit) = <<>>
<1>1. Tail(CreateAll) = ReadLast /\ Tail(TellAll) = TwoReads /\ Tail(TellSync) = SyncAll
  BY DEF CreateAll, ReadLast, TellAll, TwoReads, TellSync, SyncAll
<1>2. Tail(SyncAll) = TwoReads /\ Tail(TwoReads) = FirstStore /\ Tail(FirstStore) = ReadLast
  BY DEF SyncAll, TwoReads, FirstStore, ReadLast
<1>3. Tail(ReadLast) = StoreLast /\ Tail(StoreLast) = WriteLast /\ Tail(WriteLast) = <<>>
  BY DEF ReadLast, StoreLast, WriteLast
<1>4. Tail(JustRead) = JustStore /\ Tail(JustStore) = <<>> /\ Tail(JustSync) = <<>>
  BY DEF JustRead, JustStore, JustSync
<1>5. Tail(BothLimits) = LastLimit /\ Tail(LastLimit) = <<>>
  BY DEF BothLimits, LastLimit
<1> QED
  BY <1>1, <1>2, <1>3, <1>4, <1>5

Steps == {"create", "driver", "sync", "read", "store", "write", "http", "bt"}

LEMMA Concatenation ==
    ASSUME NEW s \in Seq(Steps), NEW t \in Seq(Steps), NEW r \in Seq(Steps),
           Len(r) = Len(s) + Len(t),
           \A i \in 1..Len(s) : r[i] = s[i],
           \A i \in 1..Len(t) : r[Len(s) + i] = t[i]
    PROVE  s \o t = r
<1>1. /\ s \o t \in Seq(Steps) /\ Len(s \o t) = Len(s) + Len(t)
      /\ \A i \in 1..Len(s) + Len(t) :
            (s \o t)[i] = IF i <= Len(s) THEN s[i] ELSE t[i - Len(s)]
  BY ConcatProperties
<1>2. ASSUME NEW i \in 1..Len(s) + Len(t) PROVE (s \o t)[i] = r[i]
  <2>1. CASE i <= Len(s)
    BY <1>1, <2>1
  <2>2. CASE i > Len(s)
    <3>1. i - Len(s) \in 1..Len(t) /\ i = Len(s) + (i - Len(s))
      BY <2>2
    <3> QED
      BY <1>1, <2>2, <3>1
  <2> QED
    BY <2>1, <2>2
<1> QED
  BY <1>1, <1>2, SeqEqual

\* How the calls are put together.
LEMMA Compositions ==
    /\ <<"create">> \o O!Persist = CreateAll /\ O!Persist = ReadLast /\ O!Refresh = JustRead
    /\ <<"driver">> \o <<>> \o O!Refresh \o O!Persist = TellAll
    /\ <<"driver">> \o <<"sync">> \o O!Refresh \o O!Persist = TellSync
<1>1. O!Refresh = JustRead
  BY DEF O!Refresh, JustRead
<1>2. JustRead \o <<"write">> = ReadLast
  <2>1. JustRead \in Seq(Steps) /\ <<"write">> \in Seq(Steps) /\ ReadLast \in Seq(Steps)
    BY DEF JustRead, ReadLast, Steps
  <2>2. Len(JustRead) = 2 /\ Len(<<"write">>) = 1 /\ Len(ReadLast) = 3
    BY DEF JustRead, ReadLast
  <2>3. Len(ReadLast) = Len(JustRead) + Len(<<"write">>)
    BY <2>2
  <2>4. \A i \in 1..Len(JustRead) : ReadLast[i] = JustRead[i]
    BY <2>2 DEF JustRead, ReadLast
  <2>5. \A i \in 1..Len(<<"write">>) : ReadLast[Len(JustRead) + i] = <<"write">>[i]
    BY <2>2 DEF JustRead, ReadLast
  <2> QED
    BY <2>1, <2>3, <2>4, <2>5, Concatenation
<1>3. O!Persist = ReadLast
  BY <1>1, <1>2 DEF O!Persist
<1>4. <<"create">> \o ReadLast = CreateAll
  <2>1. <<"create">> \in Seq(Steps) /\ ReadLast \in Seq(Steps) /\ CreateAll \in Seq(Steps)
    BY DEF ReadLast, CreateAll, Steps
  <2>2. Len(<<"create">>) = 1 /\ Len(ReadLast) = 3 /\ Len(CreateAll) = 4
    BY DEF ReadLast, CreateAll
  <2>3. Len(CreateAll) = Len(<<"create">>) + Len(ReadLast)
    BY <2>2
  <2>4. \A i \in 1..Len(<<"create">>) : CreateAll[i] = <<"create">>[i]
    BY <2>2 DEF ReadLast, CreateAll
  <2>5. \A i \in 1..Len(ReadLast) : CreateAll[Len(<<"create">>) + i] = ReadLast[i]
    BY <2>2 DEF ReadLast, CreateAll
  <2> QED
    BY <2>1, <2>3, <2>4, <2>5, Concatenation
<1>5. <<"driver">> \o <<>> = <<"driver">>
  <2>1. <<"driver">> \in Seq(Steps) /\ <<>> \in Seq(Steps) /\ <<"driver">> \in Seq(Steps)
    BY DEF Steps
  <2>2. Len(<<"driver">>) = 1 /\ Len(<<>>) = 0 /\ Len(<<"driver">>) = 1
    OBVIOUS
  <2>3. Len(<<"driver">>) = Len(<<"driver">>) + Len(<<>>)
    BY <2>2
  <2>4. \A i \in 1..Len(<<"driver">>) : <<"driver">>[i] = <<"driver">>[i]
    BY <2>2
  <2>5. \A i \in 1..Len(<<>>) : <<"driver">>[Len(<<"driver">>) + i] = <<>>[i]
    BY <2>2
  <2> QED
    BY <2>1, <2>3, <2>4, <2>5, Concatenation
<1>6. <<"driver">> \o <<"sync">> = <<"driver", "sync">>
  <2>1. /\ <<"driver">> \in Seq(Steps) /\ <<"sync">> \in Seq(Steps)
        /\ <<"driver", "sync">> \in Seq(Steps)
    BY DEF Steps
  <2>2. Len(<<"driver">>) = 1 /\ Len(<<"sync">>) = 1 /\ Len(<<"driver", "sync">>) = 2
    OBVIOUS
  <2>3. Len(<<"driver", "sync">>) = Len(<<"driver">>) + Len(<<"sync">>)
    BY <2>2
  <2>4. \A i \in 1..Len(<<"driver">>) : <<"driver", "sync">>[i] = <<"driver">>[i]
    BY <2>2
  <2>5. \A i \in 1..Len(<<"sync">>) : <<"driver", "sync">>[Len(<<"driver">>) + i] = <<"sync">>[i]
    BY <2>2
  <2> QED
    BY <2>1, <2>3, <2>4, <2>5, Concatenation
<1>7. <<"driver">> \o JustRead = <<"driver", "read", "store">>
  <2>1. /\ <<"driver">> \in Seq(Steps) /\ JustRead \in Seq(Steps)
        /\ <<"driver", "read", "store">> \in Seq(Steps)
    BY DEF JustRead, Steps
  <2>2. Len(<<"driver">>) = 1 /\ Len(JustRead) = 2 /\ Len(<<"driver", "read", "store">>) = 3
    BY DEF JustRead
  <2>3. Len(<<"driver", "read", "store">>) = Len(<<"driver">>) + Len(JustRead)
    BY <2>2
  <2>4. \A i \in 1..Len(<<"driver">>) : <<"driver", "read", "store">>[i] = <<"driver">>[i]
    BY <2>2 DEF JustRead
  <2>5. \A i \in 1..Len(JustRead) :
           <<"driver", "read", "store">>[Len(<<"driver">>) + i] = JustRead[i]
    BY <2>2 DEF JustRead
  <2> QED
    BY <2>1, <2>3, <2>4, <2>5, Concatenation
<1>8. <<"driver", "sync">> \o JustRead = <<"driver", "sync", "read", "store">>
  <2>1. /\ <<"driver", "sync">> \in Seq(Steps) /\ JustRead \in Seq(Steps)
        /\ <<"driver", "sync", "read", "store">> \in Seq(Steps)
    BY DEF JustRead, Steps
  <2>2. /\ Len(<<"driver", "sync">>) = 2 /\ Len(JustRead) = 2
        /\ Len(<<"driver", "sync", "read", "store">>) = 4
    BY DEF JustRead
  <2>3. Len(<<"driver", "sync", "read", "store">>) = Len(<<"driver", "sync">>) + Len(JustRead)
    BY <2>2
  <2>4. \A i \in 1..Len(<<"driver", "sync">>) :
           <<"driver", "sync", "read", "store">>[i] = <<"driver", "sync">>[i]
    BY <2>2 DEF JustRead
  <2>5. \A i \in 1..Len(JustRead) :
           <<"driver", "sync", "read", "store">>[Len(<<"driver", "sync">>) + i] = JustRead[i]
    BY <2>2 DEF JustRead
  <2> QED
    BY <2>1, <2>3, <2>4, <2>5, Concatenation
<1>9. <<"driver", "read", "store">> \o ReadLast = TellAll
  <2>1. /\ <<"driver", "read", "store">> \in Seq(Steps)
        /\ ReadLast \in Seq(Steps) /\ TellAll \in Seq(Steps)
    BY DEF TellAll, ReadLast, Steps
  <2>2. Len(<<"driver", "read", "store">>) = 3 /\ Len(ReadLast) = 3 /\ Len(TellAll) = 6
    BY DEF TellAll, ReadLast
  <2>3. Len(TellAll) = Len(<<"driver", "read", "store">>) + Len(ReadLast)
    BY <2>2
  <2>4. \A i \in 1..Len(<<"driver", "read", "store">>) :
           TellAll[i] = <<"driver", "read", "store">>[i]
    BY <2>2 DEF TellAll, ReadLast
  <2>5. \A i \in 1..Len(ReadLast) : TellAll[Len(<<"driver", "read", "store">>) + i] = ReadLast[i]
    BY <2>2 DEF TellAll, ReadLast
  <2> QED
    BY <2>1, <2>3, <2>4, <2>5, Concatenation
<1>10. <<"driver", "sync", "read", "store">> \o ReadLast = TellSync
  <2>1. /\ <<"driver", "sync", "read", "store">> \in Seq(Steps)
        /\ ReadLast \in Seq(Steps) /\ TellSync \in Seq(Steps)
    BY DEF TellSync, ReadLast, Steps
  <2>2. Len(<<"driver", "sync", "read", "store">>) = 4 /\ Len(ReadLast) = 3 /\ Len(TellSync) = 7
    BY DEF TellSync, ReadLast
  <2>3. Len(TellSync) = Len(<<"driver", "sync", "read", "store">>) + Len(ReadLast)
    BY <2>2
  <2>4. \A i \in 1..Len(<<"driver", "sync", "read", "store">>) :
           TellSync[i] = <<"driver", "sync", "read", "store">>[i]
    BY <2>2 DEF TellSync, ReadLast
  <2>5. \A i \in 1..Len(ReadLast) :
           TellSync[Len(<<"driver", "sync", "read", "store">>) + i] = ReadLast[i]
    BY <2>2 DEF TellSync, ReadLast
  <2> QED
    BY <2>1, <2>3, <2>4, <2>5, Concatenation
<1> QED
  BY <1>1, <1>3, <1>4, <1>5, <1>6, <1>7, <1>8, <1>9, <1>10

LEMMA Which ==
    ASSUME NEW t \in Todos, t # <<>>
    PROVE  /\ Head(t) = "create" => t = CreateAll
           /\ Head(t) = "driver" => t \in Drives
           /\ Head(t) = "sync" => t \in {SyncAll, JustSync}
           /\ Head(t) = "read" => t \in {TwoReads, ReadLast, JustRead}
           /\ Head(t) = "store" => t \in Stores
           /\ Head(t) = "write" => t = WriteLast
           /\ Head(t) = "http" => t = BothLimits
           /\ Head(t) = "bt" => t = LastLimit
BY Heads DEF Todos, Ends, Syncs, Stores, Drives


-----------------------------------------------------------------------------
(* Options: types, and what the two ways in which a call goes on do to it. *)

Set0   == Values \cup {0}
Effs   == {Nil} \cup O!Maps \cup [O!GlobalKeys -> Set0]
Gots   == {Nil} \cup [options : O!Maps \cup {Nil}, local : O!Maps \cup {Nil}]
Ops    == {"idle", "add", "option", "global", "query", "save"}
Calls  == [op : Ops, touches : SUBSET O!GlobalKeys, want : O!Maps, todo : Todos, eff : Effs,
           got : Gots, alone : BOOLEAN]

OptionTypes ==
    /\ proto \in {"direct", "bt"} /\ global \in [O!GlobalKeys -> Set0]
    /\ limits \in [O!Limited -> Set0] /\ asked \in O!Maps
    /\ task \in O!OptionMaps \cup {Nil} /\ file \in O!OptionMaps \cup {Nil}
    /\ drv \in O!Copies \cup {Nil} /\ call \in [Procs -> Calls]

LEMMA Unlike ==
    /\ Unset \notin Set0 /\ Nil \notin O!Maps /\ Nil \notin O!OptionMaps /\ Nil \notin O!Copies
    /\ O!NoMap \in O!Maps
    /\ Values \subseteq Set0
    /\ O!Config \in [O!GlobalKeys -> Set0] /\ Given \subseteq O!Maps /\ O!NoMap # Nil
    /\ \A m \in O!OptionMaps : m # Nil /\ m.options \in O!Maps /\ m.local \in O!Maps \cup {Nil}
<1>0. /\ Values \subseteq Nat \ {0} /\ Given \subseteq O!Maps /\ Unset \notin Nat
      /\ Nil \notin O!Maps \cup O!OptionMaps \cup O!Copies
  BY OptionsAssumed, Zenon DEF O!OptionsAssumption
<1>1. Unset \notin Set0 /\ Values \subseteq Set0 /\ Given \subseteq O!Maps
  <2>1. Unset \notin Values
    BY <1>0
  <2> QED
    BY <1>0, <2>1 DEF Set0
<1>2. Nil \notin O!Maps /\ Nil \notin O!OptionMaps /\ Nil \notin O!Copies
  BY <1>0
<1>3. O!NoMap \in O!Maps
  BY DEF O!NoMap, O!Maps
<1>4. O!Config \in [O!GlobalKeys -> Set0]
  BY DEF O!Config, Set0
<1>5. \A m \in O!OptionMaps : m.options \in O!Maps /\ m.local \in O!Maps \cup {Nil}
  BY DEF O!OptionMaps
<1> QED
  BY <1>1, <1>2, <1>3, <1>4, <1>5

LEMMA MergeType ==
    ASSUME NEW base \in [O!GlobalKeys -> Set0] \cup O!Maps, NEW over \in O!Maps
    PROVE  /\ O!Merge(base, over) \in O!Maps
           /\ \A k \in O!Keys : O!Merge(base, over)[k] = IF over[k] = Unset THEN base[k] ELSE over[k]
<1>1. \A k \in O!Keys : base[k] \in Set0 \cup {Unset}
  BY DEF O!Maps, O!GlobalKeys, Set0
<1>2. \A k \in O!Keys : over[k] \in Set0 \cup {Unset}
  BY DEF O!Maps, Set0
<1> QED
  BY <1>1, <1>2 DEF O!Merge, O!Maps, Set0

\* A call as it was, but for whether it runs alone.
Like(c, d) == /\ c.op = d.op /\ c.touches = d.touches /\ c.want = d.want /\ c.todo = d.todo
              /\ c.eff = d.eff /\ c.got = d.got

\* What a call that begins is, and what it does to those that it meets.
BeginsWith(p, op, touches, want, todo, eff) ==
    /\ call[p].op = "idle" /\ call' \in [Procs -> Calls]
    /\ call'[p].op = op /\ call'[p].touches = touches /\ call'[p].want = want
    /\ call'[p].todo = todo /\ call'[p].eff = eff
    /\ call'[p].alone => \A q \in O!Others(p) : call[q].op \in {"idle", "query"}
    /\ \A q \in O!Others(p) :
          /\ Like(call'[q], call[q])
          /\ call'[q].alone => call[q].alone /\ (op = "query" \/ call[q].op = "idle")
    /\ \A x \in touches : \A q \in O!Others(p) :
          call[q].op \notin {"idle", "query"} /\ x \in call[q].touches => x \in tangled'
    /\ tangled \subseteq tangled'
    /\ asked' = [k \in O!Keys |-> IF want[k] = Unset THEN asked[k] ELSE Unset]

LEMMA BeginEffect ==
    ASSUME call \in [Procs -> Calls], NEW p \in Procs, NEW op \in Ops \ {"idle"},
           NEW touches \in SUBSET O!GlobalKeys, NEW want \in O!Maps, NEW todo \in Todos,
           NEW eff \in Effs, O!Begin(p, op, touches, want, todo, eff)
    PROVE  BeginsWith(p, op, touches, want, todo, eff)
<1> DEFINE meets == {q \in O!Others(p) : O!Busy(q) /\ call[q].op # "query"}
           c == [op |-> op, touches |-> touches, want |-> want, todo |-> todo,
                 eff |-> eff, got |-> Nil, alone |-> meets = {}]
           old(q) == [call[q] EXCEPT !.alone = @ /\ (op = "query" \/ ~O!Busy(q))]
<1>1. /\ ~O!Busy(p)
      /\ call' = [q \in Procs |-> IF q = p THEN c ELSE old(q)]
      /\ tangled' = tangled \cup {x \in touches : \E q \in meets : x \in call[q].touches}
      /\ asked' = [k \in O!Keys |-> IF want[k] = Unset THEN asked[k] ELSE Unset]
  BY DEF O!Begin
<1>2. c \in Calls
  BY DEF Calls, Gots
<1>3. ASSUME NEW q \in O!Others(p)
      PROVE  /\ old(q) \in Calls /\ Like(old(q), call[q]) /\ call'[q] = old(q)
             /\ old(q).alone => call[q].alone /\ (op = "query" \/ call[q].op = "idle")
  <2>1. call[q] \in Calls /\ q \in Procs /\ q # p
    BY <1>3 DEF O!Others
  <2>2. (call[q].alone /\ (op = "query" \/ ~O!Busy(q))) \in BOOLEAN
    BY <2>1 DEF Calls
  <2>3. old(q) \in Calls /\ Like(old(q), call[q])
    BY <2>1, <2>2 DEF Calls, Like
  <2>4. old(q).alone = (call[q].alone /\ (op = "query" \/ ~O!Busy(q)))
    BY <2>1 DEF Calls
  <2> QED
    BY <1>1, <2>1, <2>3, <2>4 DEF O!Busy
<1>4. call' \in [Procs -> Calls] /\ call'[p] = c
  BY <1>1, <1>2, <1>3 DEF O!Others
<1>5. c.alone => \A q \in O!Others(p) : call[q].op \in {"idle", "query"}
  BY DEF O!Busy
<1>6. \A x \in touches : \A q \in O!Others(p) :
         call[q].op \notin {"idle", "query"} /\ x \in call[q].touches => x \in tangled'
  BY <1>1 DEF O!Busy
<1> QED
  BY <1>1, <1>3, <1>4, <1>5, <1>6 DEF O!Busy, BeginsWith

\* What a call that goes on is.
GoesOn(p) ==
    /\ call' \in [Procs -> Calls] /\ call[p].todo # <<>>
    /\ call'[p].todo = Tail(call[p].todo)
    /\ call'[p].op = call[p].op /\ call'[p].touches = call[p].touches
    /\ call'[p].want = call[p].want /\ call'[p].eff = call[p].eff
    /\ call'[p].alone = call[p].alone
    /\ \A q \in Procs \ {p} : call'[q] = call[q]

LEMMA RestType ==
    ASSUME call \in [Procs -> Calls], NEW p \in Procs, call[p].todo # <<>>
    PROVE  /\ O!Rest(p) \in Calls /\ O!Rest(p).todo = Tail(call[p].todo)
           /\ O!Rest(p).op = call[p].op /\ O!Rest(p).touches = call[p].touches
           /\ O!Rest(p).want = call[p].want /\ O!Rest(p).eff = call[p].eff
           /\ O!Rest(p).alone = call[p].alone /\ O!Rest(p).got = call[p].got
<1>1. call[p] \in Calls /\ call[p].todo \in Todos
  BY DEF Calls
<1>2. Tail(call[p].todo) \in Todos
  BY <1>1, TailsOf DEF Todos, Ends, Syncs, Stores
<1> QED
  BY <1>1, <1>2 DEF Calls, O!Rest

LEMMA Passes ==
    ASSUME call \in [Procs -> Calls], NEW p \in Procs, call[p].todo # <<>>,
           call' = [call EXCEPT ![p] = O!Rest(p)]
    PROVE  GoesOn(p) /\ call'[p].got = call[p].got
<1>1. /\ call' \in [Procs -> Calls] /\ call'[p] = O!Rest(p)
      /\ \A q \in Procs \ {p} : call'[q] = call[q]
  BY RestType
<1> QED
  BY <1>1, RestType DEF GoesOn

LEMMA Takes ==
    ASSUME call \in [Procs -> Calls], NEW p \in Procs, call[p].todo # <<>>, NEW got \in Gots,
           call' = [call EXCEPT ![p] = [O!Rest(p) EXCEPT !.got = got]]
    PROVE  GoesOn(p) /\ call'[p].got = got
<1> DEFINE c == [O!Rest(p) EXCEPT !.got = got]
<1>1. /\ c \in Calls /\ c.got = got /\ c.todo = Tail(call[p].todo)
      /\ c.op = call[p].op /\ c.touches = call[p].touches /\ c.want = call[p].want
      /\ c.eff = call[p].eff /\ c.alone = call[p].alone
  BY RestType DEF Calls
<1>2. /\ call' \in [Procs -> Calls] /\ call'[p] = c
      /\ \A q \in Procs \ {p} : call'[q] = call[q]
  BY <1>1
<1> QED
  BY <1>1, <1>2 DEF GoesOn


-----------------------------------------------------------------------------
(* Options: the invariant. *)

\* A call of each kind does what is left of its kind, and wants what it touches.
Shape(c, pr) ==
    /\ c.op = "idle" => c.touches = {} /\ c.todo = <<>>
    /\ c.op = "add" => c.touches = {"tracker"} /\ c.todo \in {CreateAll} \cup Ends
    /\ c.op = "option" =>
          /\ c.todo \in {TellAll, TellSync, SyncAll, TwoReads, FirstStore} \cup Ends
          /\ \A k \in O!Keys : c.want[k] # Unset => c.touches = {k}
    /\ c.op = "global" => c.todo \in {JustSync, BothLimits, LastLimit, <<>>}
    /\ c.op = "query" => c.touches = {} /\ c.todo \in {JustRead, JustStore, <<>>}
    /\ c.op = "save" => c.touches = {} /\ c.todo \in Ends
    /\ c.op \notin {"add", "option"} => \A k \in O!Keys : c.want[k] = Unset
    /\ c.todo = CreateAll => c.eff \in O!Maps
    /\ c.todo \in Syncs => c.touches = {"tracker"} /\ pr = "bt" /\ c.eff \in O!Maps
    /\ c.todo = TellAll => pr # "bt" \/ "tracker" \notin c.touches
    /\ c.todo \in {BothLimits, LastLimit} =>
          c.touches = {"limit"} /\ c.eff \in [O!GlobalKeys -> Set0]

Shapes == \A p \in Procs : Shape(call[p], proto)

\* The task is in the manager's map and in its driver, or in neither; the driver of a torrent
\* has no options, one that keeps options has all of them.
Built ==
    /\ task = Nil <=> drv = Nil
    /\ task = Nil => file = Nil
    /\ drv # Nil => IF proto = "bt" THEN drv.options = Nil /\ drv.local = Nil
                    ELSE drv.options # Nil
    /\ \A p \in Procs :
          /\ call[p].todo = CreateAll => task = Nil
          /\ task = Nil => call[p].todo \in {CreateAll, BothLimits, LastLimit, <<>>}
          /\ call[p].op = "add" => \A q \in O!Others(p) : call[q].op # "add"

\* What a call has read is what the driver has of the task, what it has stored is a task.
Held(c, d, pr) ==
    /\ c.todo \in Stores =>
          /\ c.got.local = d.local
          /\ IF pr = "bt" THEN c.got.options = Nil ELSE c.got.options \in O!Maps
    /\ c.todo = WriteLast => c.got \in O!OptionMaps
Reads == \A p \in Procs : Held(call[p], drv, proto)

\* A call that runs alone meets nothing but queries; what is being asked is not asked yet.
Alone ==
    \A p \in Procs :
       /\ O!Busy(p) /\ call[p].alone /\ call[p].op # "query" =>
              \A q \in O!Others(p) : call[q].op \in {"idle", "query"}
       /\ \A k \in O!Keys : call[p].want[k] # Unset => asked[k] = Unset

\* Where an option is.
InTask(k, v) == IF proto = "bt" THEN task.local # Nil /\ task.local[k] = v
                ELSE task.local # Nil => task.local[k] = v
InDriver(k, v) == IF proto = "bt" THEN k = "tracker" => drv.torrent = v
                  ELSE drv.options[k] = v /\ (drv.local # Nil => drv.local[k] = v)
InCopy(m, k, v) ==
    /\ m.local # Nil => m.local[k] = v
    /\ m.local = Nil => proto # "bt" /\ m.options[k] = v
\* What a call that has read is to write, and what one is to tell the torrent.
InHand(c, k, v) ==
    /\ c.todo = StoreLast /\ proto # "bt" => c.got.options[k] = v
    /\ c.todo = WriteLast => InCopy(c.got, k, v)
    /\ c.todo \in Syncs /\ k = "tracker" => c.eff[k] = v

\* An option that was asked for is everywhere.
Everywhere ==
    \A k \in O!Keys \ frail : asked[k] # Unset =>
       /\ task # Nil /\ file # Nil
       /\ InTask(k, asked[k]) /\ InDriver(k, asked[k]) /\ InCopy(file, k, asked[k])
       /\ \A p \in Procs : InHand(call[p], k, asked[k])

\* A call that runs alone brings its options from one place to the next.
Brought(c, k, v) ==
    /\ c.todo = CreateAll => c.eff[k] = v
    /\ c.todo # CreateAll =>
          /\ InTask(k, v)
          /\ proto # "bt" => drv.local = Nil
          /\ c.todo \notin Drives /\ proto # "bt" => drv.options[k] = v
          /\ c.todo \notin Syncs /\ c.todo \notin Drives /\ k = "tracker" /\ proto = "bt"
                => drv.torrent = v
          /\ InHand(c, k, v)
          /\ c.todo = <<>> => file # Nil /\ InCopy(file, k, v)
OnTheWay ==
    \A p \in Procs, k \in O!Keys \ frail :
       call[p].alone /\ call[p].want[k] # Unset => Brought(call[p], k, call[p].want[k])

\* No two calls under way touch the same, unless changes of it have overlapped.
Sole(x) == x \notin tangled =>
    \A p, q \in Procs : x \in call[p].touches /\ x \in call[q].touches => p = q
\* The trackers of a torrent: which they should be, where they come from, and who is about to
\* tell them.  Its options report these or none.
Proper == IF task.local = Nil THEN task.options["tracker"]
          ELSE O!Merge(global, task.local)["tracker"]
Trackers ==
    proto = "bt" /\ "tracker" \notin tangled =>
       /\ task # Nil => task.options["tracker"] \in {Unset, Proper}
       /\ \A p \in Procs :
             /\ call[p].todo \in Syncs => call[p].eff["tracker"] = Proper
             /\ call[p].todo = CreateAll =>
                   call[p].eff["tracker"] = O!Merge(global, call[p].want)["tracker"]
       /\ task # Nil /\ (\A p \in Procs : call[p].todo \notin Syncs) => drv.torrent = Proper
\* The overall limit: every driver has it or is about to be told.
Limits ==
    "limit" \notin tangled =>
       /\ \A p \in Procs : "limit" \in call[p].touches => call[p].eff["limit"] = global["limit"]
       /\ \A d \in O!Limited :
             \/ limits[d] = global["limit"]
             \/ \E p \in Procs : \/ call[p].todo = BothLimits
                                 \/ call[p].todo = LastLimit /\ d = "bt"

OptionsInv ==
    /\ OptionTypes /\ Shapes /\ Built /\ Reads /\ Alone /\ Everywhere /\ OnTheWay
    /\ Sole("tracker") /\ Sole("limit") /\ Trackers /\ Limits

LEMMA Distinct ==
    /\ CreateAll \notin {TellAll, TwoReads, JustRead, BothLimits, LastLimit, TellSync, SyncAll,
                         JustSync, FirstStore, StoreLast, JustStore, ReadLast, WriteLast, <<>>}
    /\ TellAll \notin {TwoReads, JustRead, BothLimits, LastLimit, TellSync, SyncAll,
                       JustSync, FirstStore, StoreLast, JustStore, ReadLast, WriteLast, <<>>}
    /\ TellSync \notin {TwoReads, JustRead, BothLimits, LastLimit, SyncAll,
                        JustSync, FirstStore, StoreLast, JustStore, ReadLast, WriteLast, <<>>}
    /\ SyncAll \notin {TwoReads, JustRead, BothLimits, LastLimit, JustSync, FirstStore,
                       StoreLast, JustStore, ReadLast, WriteLast, <<>>}
    /\ TwoReads \notin {JustRead, BothLimits, LastLimit, JustSync, FirstStore,
                        StoreLast, JustStore, ReadLast, WriteLast, <<>>}
    /\ JustRead \notin {BothLimits, LastLimit, JustSync, FirstStore,
                        StoreLast, JustStore, ReadLast, WriteLast, <<>>}
    /\ BothLimits \notin {LastLimit, JustSync, FirstStore, StoreLast, JustStore, ReadLast,
                          WriteLast, <<>>}
    /\ LastLimit \notin {JustSync, FirstStore, StoreLast, JustStore, ReadLast, WriteLast, <<>>}
    /\ JustSync \notin {FirstStore, StoreLast, JustStore, ReadLast, WriteLast, <<>>}
    /\ FirstStore \notin {StoreLast, JustStore, ReadLast, WriteLast, <<>>}
    /\ StoreLast \notin {JustStore, ReadLast, WriteLast, <<>>}
    /\ JustStore \notin {ReadLast, WriteLast, <<>>}
    /\ ReadLast \notin {WriteLast, <<>>} /\ WriteLast # <<>>
<1>1. CreateAll \notin {TellAll, TellSync, SyncAll, TwoReads, JustRead, BothLimits,
      LastLimit, JustSync, FirstStore, StoreLast, JustStore, ReadLast, WriteLast, <<>>}
  BY DEF CreateAll, TellAll, TellSync, SyncAll, TwoReads, JustRead, BothLimits, LastLimit,
         JustSync, FirstStore, StoreLast, JustStore, ReadLast, WriteLast
<1>2. TellAll \notin {TellSync, SyncAll, TwoReads, JustRead, BothLimits, LastLimit,
      JustSync, FirstStore, StoreLast, JustStore, ReadLast, WriteLast, <<>>}
  BY DEF TellAll, TellSync, SyncAll, TwoReads, JustRead, BothLimits, LastLimit, JustSync,
         FirstStore, StoreLast, JustStore, ReadLast, WriteLast
<1>3. TellSync \notin {SyncAll, TwoReads, JustRead, BothLimits, LastLimit, JustSync,
      FirstStore, StoreLast, JustStore, ReadLast, WriteLast, <<>>}
  BY DEF TellSync, SyncAll, TwoReads, JustRead, BothLimits, LastLimit, JustSync,
         FirstStore, StoreLast, JustStore, ReadLast, WriteLast
<1>4. SyncAll \notin {TwoReads, JustRead, BothLimits, LastLimit, JustSync, FirstStore,
      StoreLast, JustStore, ReadLast, WriteLast, <<>>}
  BY DEF SyncAll, TwoReads, JustRead, BothLimits, LastLimit, JustSync, FirstStore,
         StoreLast, JustStore, ReadLast, WriteLast
<1>5. TwoReads \notin {JustRead, BothLimits, LastLimit, JustSync, FirstStore, StoreLast,
      JustStore, ReadLast, WriteLast, <<>>}
  BY DEF TwoReads, JustRead, BothLimits, LastLimit, JustSync, FirstStore, StoreLast,
         JustStore, ReadLast, WriteLast
<1>6. JustRead \notin {BothLimits, LastLimit, JustSync, FirstStore, StoreLast, JustStore,
      ReadLast, WriteLast, <<>>}
  BY DEF JustRead, BothLimits, LastLimit, JustSync, FirstStore, StoreLast, JustStore,
         ReadLast, WriteLast
<1>7. BothLimits \notin {LastLimit, JustSync, FirstStore, StoreLast, JustStore, ReadLast,
      WriteLast, <<>>}
  BY DEF BothLimits, LastLimit, JustSync, FirstStore, StoreLast, JustStore, ReadLast, WriteLast
<1>8. LastLimit \notin {JustSync, FirstStore, StoreLast, JustStore, ReadLast, WriteLast, <<>>}
  BY DEF LastLimit, JustSync, FirstStore, StoreLast, JustStore, ReadLast, WriteLast
<1>9. JustSync \notin {FirstStore, StoreLast, JustStore, ReadLast, WriteLast, <<>>}
  BY DEF JustSync, FirstStore, StoreLast, JustStore, ReadLast, WriteLast
<1>10. FirstStore \notin {StoreLast, JustStore, ReadLast, WriteLast, <<>>}
  BY DEF FirstStore, StoreLast, JustStore, ReadLast, WriteLast
<1>11. StoreLast \notin {JustStore, ReadLast, WriteLast, <<>>}
  BY DEF StoreLast, JustStore, ReadLast, WriteLast
<1>12. JustStore \notin {ReadLast, WriteLast, <<>>}
  BY DEF JustStore, ReadLast, WriteLast
<1>13. ReadLast \notin {WriteLast, <<>>}
  BY DEF ReadLast, WriteLast
<1>14. WriteLast \notin {<<>>}
  BY DEF WriteLast
<1> QED
  BY <1>1, <1>2, <1>3, <1>4, <1>5, <1>6, <1>7, <1>8, <1>9, <1>10, <1>11, <1>12, <1>13, <1>14

LEMMA ShapeLike ==
    ASSUME NEW c, NEW d, NEW pr, Shape(c, pr), Like(d, c)
    PROVE  Shape(d, pr)
BY DEF Shape, Like

LEMMA ShapeAdvance ==
    ASSUME NEW c \in Calls, NEW d, NEW pr, Shape(c, pr), c.todo # <<>>, d.todo = Tail(c.todo),
           d.op = c.op, d.touches = c.touches, d.want = c.want, d.eff = c.eff
    PROVE  Shape(d, pr)
<1>1. c.op \in Ops
  BY DEF Calls
<1>2. c.op # "idle"
  BY DEF Shape
<1>3. CASE c.op = "add"
  <2>1. CASE c.todo = CreateAll
    <3>1. d.todo = ReadLast
      BY <2>1, TailsOf
    <3> QED
      BY <1>3, <2>1, <3>1, Distinct DEF Shape, Ends, Syncs
  <2>2. CASE c.todo = ReadLast
    <3>1. d.todo = StoreLast
      BY <2>2, TailsOf
    <3> QED
      BY <1>3, <2>2, <3>1, Distinct DEF Shape, Ends, Syncs
  <2>3. CASE c.todo = StoreLast
    <3>1. d.todo = WriteLast
      BY <2>3, TailsOf
    <3> QED
      BY <1>3, <2>3, <3>1, Distinct DEF Shape, Ends, Syncs
  <2>4. CASE c.todo = WriteLast
    <3>1. d.todo = <<>>
      BY <2>4, TailsOf
    <3> QED
      BY <1>3, <2>4, <3>1, Distinct DEF Shape, Ends, Syncs
  <2> QED
    BY <1>3, <2>1, <2>2, <2>3, <2>4 DEF Shape, Ends
<1>4. CASE c.op = "option"
  <2>1. CASE c.todo = TellAll
    <3>1. d.todo = TwoReads
      BY <2>1, TailsOf
    <3> QED
      BY <1>4, <2>1, <3>1, Distinct DEF Shape, Ends, Syncs
  <2>2. CASE c.todo = TellSync
    <3>1. d.todo = SyncAll
      BY <2>2, TailsOf
    <3> QED
      BY <1>4, <2>2, <3>1, Distinct DEF Shape, Ends, Syncs
  <2>3. CASE c.todo = SyncAll
    <3>1. d.todo = TwoReads
      BY <2>3, TailsOf
    <3> QED
      BY <1>4, <2>3, <3>1, Distinct DEF Shape, Ends, Syncs
  <2>4. CASE c.todo = TwoReads
    <3>1. d.todo = FirstStore
      BY <2>4, TailsOf
    <3> QED
      BY <1>4, <2>4, <3>1, Distinct DEF Shape, Ends, Syncs
  <2>5. CASE c.todo = FirstStore
    <3>1. d.todo = ReadLast
      BY <2>5, TailsOf
    <3> QED
      BY <1>4, <2>5, <3>1, Distinct DEF Shape, Ends, Syncs
  <2>6. CASE c.todo = ReadLast
    <3>1. d.todo = StoreLast
      BY <2>6, TailsOf
    <3> QED
      BY <1>4, <2>6, <3>1, Distinct DEF Shape, Ends, Syncs
  <2>7. CASE c.todo = StoreLast
    <3>1. d.todo = WriteLast
      BY <2>7, TailsOf
    <3> QED
      BY <1>4, <2>7, <3>1, Distinct DEF Shape, Ends, Syncs
  <2>8. CASE c.todo = WriteLast
    <3>1. d.todo = <<>>
      BY <2>8, TailsOf
    <3> QED
      BY <1>4, <2>8, <3>1, Distinct DEF Shape, Ends, Syncs
  <2> QED
    BY <1>4, <2>1, <2>2, <2>3, <2>4, <2>5, <2>6, <2>7, <2>8 DEF Shape, Ends
<1>5. CASE c.op = "global"
  <2>1. CASE c.todo = JustSync
    <3>1. d.todo = <<>>
      BY <2>1, TailsOf
    <3> QED
      BY <1>5, <2>1, <3>1, Distinct DEF Shape, Ends, Syncs
  <2>2. CASE c.todo = BothLimits
    <3>1. d.todo = LastLimit
      BY <2>2, TailsOf
    <3> QED
      BY <1>5, <2>2, <3>1, Distinct DEF Shape, Ends, Syncs
  <2>3. CASE c.todo = LastLimit
    <3>1. d.todo = <<>>
      BY <2>3, TailsOf
    <3> QED
      BY <1>5, <2>3, <3>1, Distinct DEF Shape, Ends, Syncs
  <2> QED
    BY <1>5, <2>1, <2>2, <2>3 DEF Shape, Ends
<1>6. CASE c.op = "query"
  BY <1>6, Distinct, TailsOf DEF Shape, Syncs
<1>7. CASE c.op = "save"
  BY <1>7, Distinct, TailsOf DEF Shape, Ends, Syncs
<1> QED
  BY <1>1, <1>2, <1>3, <1>4, <1>5, <1>6, <1>7 DEF Ops


-----------------------------------------------------------------------------
(* Options: what every call does that begins. *)

LEMMA SoleBegun ==
    ASSUME OptionsInv, NEW p \in Procs, NEW op \in Ops \ {"idle"},
           NEW touches \in SUBSET O!GlobalKeys, NEW want \in O!Maps, NEW todo \in Todos,
           NEW eff \in Effs, O!Begin(p, op, touches, want, todo, eff),
           NEW x, Sole(x)
    PROVE  Sole(x)'
<1>0. call \in [Procs -> Calls] /\ Shapes
  BY DEF OptionsInv, OptionTypes
<1>a. BeginsWith(p, op, touches, want, todo, eff)
  BY <1>0, BeginEffect
<1>1. /\ call'[p].touches = touches /\ tangled \subseteq tangled'
      /\ \A q \in O!Others(p) : Like(call'[q], call[q])
      /\ \A y \in touches : \A q \in O!Others(p) :
            call[q].op \notin {"idle", "query"} /\ y \in call[q].touches => y \in tangled'
  BY <1>a DEF BeginsWith
<1>2. SUFFICES ASSUME x \notin tangled', NEW q \in Procs, NEW r \in Procs,
                      x \in call'[q].touches, x \in call'[r].touches
               PROVE  q = r
  BY DEF Sole
<1>3. \A s \in O!Others(p) : call'[s].touches = call[s].touches
  BY <1>1 DEF Like
<1>4. \A s \in O!Others(p) : x \in call[s].touches => call[s].op \notin {"idle", "query"}
  BY <1>0 DEF Shapes, Shape, O!Others
<1>5. \A s \in O!Others(p) : x \in call'[s].touches => x \notin touches
  BY <1>1, <1>2, <1>3, <1>4
<1>6. CASE q # p /\ r # p
  BY <1>1, <1>2, <1>3, <1>6 DEF Sole, O!Others
<1>7. CASE q = p \/ r = p
  BY <1>1, <1>2, <1>5, <1>7 DEF O!Others
<1> QED
  BY <1>6, <1>7

LEMMA Begun ==
    ASSUME OptionsInv, NEW p \in Procs, NEW op \in Ops \ {"idle"},
           NEW touches \in SUBSET O!GlobalKeys, NEW want \in O!Maps, NEW todo \in Todos,
           NEW eff \in Effs, O!Begin(p, op, touches, want, todo, eff),
           Shape(call'[p], proto),
           proto' = proto, drv' = drv, file' = file, task' = Nil <=> task = Nil,
           todo \in {CreateAll, TellAll, TellSync, JustSync, BothLimits, ReadLast, JustRead, <<>>},
           todo = CreateAll => task = Nil,
           task = Nil => todo \in {CreateAll, BothLimits, <<>>},
           op = "add" => \A q \in O!Others(p) : call[q].op # "add"
    PROVE  /\ call' \in [Procs -> Calls] /\ asked' \in O!Maps
           /\ Shapes' /\ Built' /\ Reads' /\ Alone' /\ Sole("tracker")' /\ Sole("limit")'
<1>0. /\ call \in [Procs -> Calls] /\ Shapes /\ Built /\ Reads /\ Alone /\ asked \in O!Maps
      /\ Sole("tracker") /\ Sole("limit")
  BY DEF OptionsInv, OptionTypes
<1>a. BeginsWith(p, op, touches, want, todo, eff)
  BY <1>0, BeginEffect
<1>1. /\ call[p].op = "idle" /\ call' \in [Procs -> Calls]
      /\ call'[p].op = op /\ call'[p].touches = touches /\ call'[p].want = want
      /\ call'[p].todo = todo /\ call'[p].eff = eff
      /\ call'[p].alone => \A q \in O!Others(p) : call[q].op \in {"idle", "query"}
      /\ \A q \in O!Others(p) :
            /\ Like(call'[q], call[q])
            /\ call'[q].alone => call[q].alone /\ (op = "query" \/ call[q].op = "idle")
      /\ asked' = [k \in O!Keys |-> IF want[k] = Unset THEN asked[k] ELSE Unset]
  BY <1>a DEF BeginsWith
<1>2. \A q \in Procs : q # p => q \in O!Others(p) /\ Like(call'[q], call[q])
  BY <1>1 DEF O!Others
<1>3. Shapes'
  <2>1. ASSUME NEW q \in Procs PROVE Shape(call'[q], proto)
    BY <1>0, <1>2, ShapeLike DEF Shapes
  <2> QED
    BY <2>1 DEF Shapes
<1>4. Built'
  <2>1. ASSUME NEW q \in Procs
        PROVE  /\ call'[q].todo = CreateAll => task = Nil
               /\ task = Nil => call'[q].todo \in {CreateAll, BothLimits, LastLimit, <<>>}
    BY <1>0, <1>1, <1>2 DEF Built, Like
  <2>2. ASSUME NEW q \in Procs, NEW r \in O!Others(q), call'[q].op = "add"
        PROVE  call'[r].op # "add"
    <3>1. r \in Procs /\ r # q
      BY DEF O!Others
    <3>2. CASE q # p /\ r # p
      BY <1>0, <1>2, <2>2, <3>1, <3>2 DEF Built, Like
    <3>3. CASE q = p
      BY <1>1, <1>2, <2>2, <3>1, <3>3 DEF Like
    <3>4. CASE r = p
      BY <1>1, <1>2, <2>2, <3>1, <3>4 DEF Like
    <3> QED
      BY <3>2, <3>3, <3>4
  <2> QED
    BY <1>0, <2>1, <2>2 DEF Built, O!Others
<1>5. Reads'
  <2>1. ASSUME NEW q \in Procs PROVE Held(call'[q], drv, proto)
    <3>1. CASE q = p
      BY <1>1, <3>1, Distinct DEF Held, Stores
    <3>2. CASE q # p
      BY <1>0, <1>2, <3>2 DEF Reads, Held, Like
    <3> QED
      BY <3>1, <3>2
  <2> QED
    BY <2>1 DEF Reads
<1>6. Alone'
  <2>1. ASSUME NEW q \in Procs, call'[q].op \notin {"idle", "query"}, call'[q].alone,
               NEW r \in O!Others(q)
        PROVE  call'[r].op \in {"idle", "query"}
    <3>1. r \in Procs /\ r # q
      BY DEF O!Others
    <3>2. CASE q = p
      BY <1>1, <1>2, <2>1, <3>1, <3>2 DEF Like
    <3>3. CASE q # p
      <4>1. op = "query" /\ call[q].alone /\ call[q].op = call'[q].op
        BY <1>1, <1>2, <2>1, <3>3 DEF Like
      <4>2. call[r].op \in {"idle", "query"}
        BY <1>0, <2>1, <3>1, <4>1 DEF Alone, O!Busy
      <4> QED
        BY <1>1, <1>2, <3>1, <4>1, <4>2 DEF Like
    <3> QED
      BY <3>2, <3>3
  <2>2. ASSUME NEW q \in Procs, NEW k \in O!Keys, call'[q].want[k] # Unset
        PROVE  asked'[k] = Unset
    <3>1. asked'[k] = IF want[k] = Unset THEN asked[k] ELSE Unset
      BY <1>1
    <3>2. CASE q = p
      BY <1>1, <2>2, <3>1, <3>2
    <3>3. CASE q # p
      BY <1>0, <1>2, <2>2, <3>1, <3>3 DEF Alone, Like
    <3> QED
      BY <3>2, <3>3
  <2> QED
    BY <2>1, <2>2 DEF Alone, O!Busy
<1>7. asked' \in O!Maps
  BY <1>0, <1>1 DEF O!Maps
<1> QED
  BY <1>0, <1>1, <1>3, <1>4, <1>5, <1>6, <1>7, SoleBegun

\* Whoever runs alone has met only a query if another call goes on or begins.
LEMMA Undisturbed ==
    ASSUME OptionsInv, NEW p \in Procs, NEW q \in O!Others(p), NEW k \in O!Keys,
           call[q].alone, call[q].want[k] # Unset
    PROVE  /\ call[p].op \in {"idle", "query"}
           /\ call[p].todo \in {JustRead, JustStore, <<>>}
           /\ \A j \in O!Keys : call[p].want[j] = Unset
<1>1. Shape(call[q], proto) /\ Shape(call[p], proto) /\ Alone
  BY DEF OptionsInv, Shapes, O!Others
<1>2. call[q].op \in {"add", "option"}
  BY <1>1 DEF Shape
<1>3. p \in O!Others(q) /\ O!Busy(q)
  BY <1>2 DEF O!Others, O!Busy
<1>4. call[p].op \in {"idle", "query"}
  BY <1>1, <1>2, <1>3 DEF Alone, O!Others
<1> QED
  BY <1>1, <1>4 DEF Shape

-----------------------------------------------------------------------------
(* Options: what every call does that goes on. *)

LEMMA GoneOn ==
    ASSUME OptionsInv, NEW p \in Procs, GoesOn(p), proto' = proto, asked' = asked,
           tangled' = tangled
    PROVE  /\ Shapes' /\ Alone' /\ Sole("tracker")' /\ Sole("limit")'
           /\ \A q \in Procs : \A r \in O!Others(q) : call'[q].op = "add" => call'[r].op # "add"
<1>0. /\ call \in [Procs -> Calls] /\ Shapes /\ Built /\ Alone
      /\ Sole("tracker") /\ Sole("limit")
  BY DEF OptionsInv, OptionTypes
<1>1. \A q \in Procs : /\ call'[q].op = call[q].op /\ call'[q].touches = call[q].touches
                       /\ call'[q].want = call[q].want /\ call'[q].alone = call[q].alone
  BY DEF GoesOn
<1>2. Shapes'
  <2>1. ASSUME NEW q \in Procs PROVE Shape(call'[q], proto)
    <3>1. CASE q = p
      BY <1>0, <3>1, ShapeAdvance DEF Shapes, GoesOn
    <3>2. CASE q # p
      BY <1>0, <3>2 DEF Shapes, GoesOn
    <3> QED
      BY <3>1, <3>2
  <2> QED
    BY <2>1 DEF Shapes
<1>3. Alone'
  BY <1>0, <1>1 DEF Alone, O!Busy, O!Others
<1>4. Sole("tracker")' /\ Sole("limit")'
  BY <1>0, <1>1 DEF Sole
<1>5. \A q \in Procs : \A r \in O!Others(q) : call'[q].op = "add" => call'[r].op # "add"
  BY <1>0, <1>1 DEF Built, O!Others
<1> QED
  BY <1>2, <1>3, <1>4, <1>5


-----------------------------------------------------------------------------
(* Options: queries and saves. *)

LEMMA AskKeepsOptions ==
    ASSUME OptionsInv, NEW p \in Procs, NEW op \in {"query", "save"},
           NEW todo \in {JustRead, ReadLast},
           op = "query" => todo = JustRead, op = "save" => todo = ReadLast,
           task # Nil, O!Begin(p, op, {}, O!NoMap, todo, Nil),
           UNCHANGED <<proto, global, task, drv, limits, file, frail, spent>>
    PROVE  OptionsInv'
<1>0. /\ OptionTypes /\ Shapes /\ Built /\ Reads /\ Alone /\ Everywhere /\ OnTheWay
      /\ Trackers /\ Limits /\ call \in [Procs -> Calls] /\ asked \in O!Maps
  BY DEF OptionsInv, OptionTypes
<1>1. O!NoMap \in O!Maps /\ todo \in Todos /\ Nil \in Effs /\ \A k \in O!Keys : O!NoMap[k] = Unset
  BY Unlike DEF Todos, Ends, Effs, O!NoMap
<1>2. BeginsWith(p, op, {}, O!NoMap, todo, Nil)
  BY <1>0, <1>1, BeginEffect DEF Ops
<1>3. /\ call[p].op = "idle" /\ call'[p].op = op /\ call'[p].touches = {}
      /\ call'[p].want = O!NoMap /\ call'[p].todo = todo
      /\ \A q \in O!Others(p) : Like(call'[q], call[q]) /\ (call'[q].alone => call[q].alone)
      /\ \A q \in O!Others(p) : call'[q].alone => op = "query" \/ call[q].op = "idle"
      /\ tangled \subseteq tangled'
  BY <1>2 DEF BeginsWith
<1>4. asked' = asked
  BY <1>0, <1>1, <1>2 DEF BeginsWith, O!Maps
<1>5. \A q \in Procs : q # p => q \in O!Others(p)
  BY DEF O!Others
<1>6. Shape(call'[p], proto)
  BY <1>1, <1>3, Distinct DEF Shape, Ends, Syncs
<1>7. /\ call' \in [Procs -> Calls] /\ asked' \in O!Maps /\ Shapes' /\ Built' /\ Reads' /\ Alone'
      /\ Sole("tracker")' /\ Sole("limit")'
  BY <1>1, <1>6, Begun, Distinct DEF Ops
<1>8. OptionTypes'
  BY <1>0, <1>7 DEF OptionTypes
<1>9. Everywhere'
  <2>1. ASSUME NEW q \in Procs, NEW k \in O!Keys, NEW v, InHand(call[q], k, v)
        PROVE  InHand(call[q], k, v)'
    <3>1. CASE q = p
      BY <1>3, <3>1, Distinct DEF InHand, Syncs
    <3>2. CASE q # p
      BY <1>3, <1>5, <2>1, <3>2 DEF InHand, InCopy, Like
    <3> QED
      BY <3>1, <3>2
  <2> QED
    BY <1>0, <1>4, <2>1 DEF Everywhere, InTask, InDriver, InCopy
<1>10. OnTheWay'
  <2>1. SUFFICES ASSUME NEW q \in Procs, NEW k \in O!Keys \ frail, call'[q].alone,
                        call'[q].want[k] # Unset
                 PROVE  Brought(call[q], k, call[q].want[k])'
    BY DEF OnTheWay
  <2>2. q # p /\ q \in O!Others(p)
    BY <1>1, <1>3, <1>5, <2>1
  <2>3. call[q].alone /\ Like(call'[q], call[q])
    BY <1>3, <2>1, <2>2
  <2>4. Brought(call[q], k, call[q].want[k])
    BY <1>0, <2>1, <2>3 DEF OnTheWay, Like
  <2> QED
    BY <2>3, <2>4 DEF Brought, InTask, InHand, InCopy, Like
<1>11. Trackers'
  <2>1. \A q \in Procs : /\ call'[q].todo \in Syncs => call[q].todo = call'[q].todo
                         /\ call'[q].todo = CreateAll => call[q].todo = call'[q].todo
                         /\ call[q].todo \in Syncs => call[q].todo = call'[q].todo
                         /\ q # p => call'[q].eff = call[q].eff /\ call'[q].want = call[q].want
    <3>1. call[p].todo = <<>>
      BY <1>0, <1>3 DEF Shapes, Shape
    <3> QED
      BY <1>3, <1>5, <3>1, Distinct DEF Syncs, Like
  <2>2. call'[p].todo \notin Syncs /\ call'[p].todo # CreateAll
    BY <1>3, Distinct DEF Syncs
  <2> QED
    BY <1>0, <1>3, <2>1, <2>2 DEF Trackers, Proper, O!Merge
<1>12. Limits'
  <2>1. \A q \in Procs : /\ "limit" \in call'[q].touches =>
                             "limit" \in call[q].touches /\ call'[q].eff = call[q].eff
                         /\ call[q].todo \in {BothLimits, LastLimit} => call'[q].todo = call[q].todo
    <3>1. call[p].todo = <<>>
      BY <1>0, <1>3 DEF Shapes, Shape
    <3> QED
      BY <1>3, <1>5, <3>1, Distinct DEF Like
  <2> QED
    BY <1>0, <1>3, <2>1 DEF Limits
<1> QED
  BY <1>7, <1>8, <1>9, <1>10, <1>11, <1>12 DEF OptionsInv

LEMMA QueryKeepsOptions == ASSUME OptionsInv, NEW p \in Procs, O!Query(p) PROVE OptionsInv'
BY AskKeepsOptions, Compositions DEF O!Query
LEMMA SaveSessionKeepsOptions ==
    ASSUME OptionsInv, NEW p \in Procs, O!SaveSession(p) PROVE OptionsInv'
BY AskKeepsOptions, Compositions DEF O!SaveSession


-----------------------------------------------------------------------------
(* Options: Add. *)

LEMMA AddKeepsOptions ==
    ASSUME OptionsInv, NEW p \in Procs, O!Add(p)
    PROVE  OptionsInv'
<1>0. /\ OptionTypes /\ Shapes /\ Built /\ Reads /\ Alone /\ Everywhere /\ OnTheWay
      /\ Trackers /\ Limits /\ call \in [Procs -> Calls] /\ asked \in O!Maps
      /\ global \in [O!GlobalKeys -> Set0]
  BY DEF OptionsInv, OptionTypes
<1>a. PICK local \in Given : O!Begin(p, "add", {"tracker"}, local, CreateAll, O!Merge(global, local))
  BY Compositions DEF O!Add
<1>b. /\ task = Nil /\ \A q \in Procs : call[q].op # "add"
      /\ UNCHANGED <<proto, global, task, drv, limits, file, frail, spent>>
  BY DEF O!Add
<1> DEFINE eff == O!Merge(global, local)
<1>1. /\ local \in O!Maps /\ eff \in O!Maps /\ eff \in Effs /\ CreateAll \in Todos
      /\ {"tracker"} \in SUBSET O!GlobalKeys
      /\ \A k \in O!Keys : local[k] # Unset => eff[k] = local[k]
  BY <1>0, Unlike, MergeType DEF Effs, Todos, O!GlobalKeys, O!Keys
<1>2. BeginsWith(p, "add", {"tracker"}, local, CreateAll, eff)
  BY <1>0, <1>a, <1>1, BeginEffect DEF Ops
<1> HIDE DEF eff
<1>3. /\ call[p].op = "idle" /\ call'[p].op = "add" /\ call'[p].touches = {"tracker"}
      /\ call'[p].want = local /\ call'[p].todo = CreateAll /\ call'[p].eff = eff
      /\ \A q \in O!Others(p) : Like(call'[q], call[q]) /\ (call'[q].alone => call[q].op = "idle")
      /\ tangled \subseteq tangled'
  BY <1>2 DEF BeginsWith
<1>4. \A k \in O!Keys : asked'[k] # Unset => asked[k] # Unset
  BY <1>0, <1>2 DEF BeginsWith
<1>5. \A q \in Procs : q # p => q \in O!Others(p)
  BY DEF O!Others
<1>6. Shape(call'[p], proto)
  BY <1>1, <1>3, Distinct DEF Shape, Syncs
<1>7. /\ call' \in [Procs -> Calls] /\ asked' \in O!Maps /\ Shapes' /\ Built' /\ Reads' /\ Alone'
      /\ Sole("tracker")' /\ Sole("limit")'
  BY <1>1, <1>6, <1>a, <1>b, Begun, Distinct DEF Ops, O!Others, eff
<1>8. OptionTypes'
  BY <1>0, <1>7, <1>b DEF OptionTypes
<1>9. Everywhere'
  BY <1>0, <1>4, <1>b DEF Everywhere
<1>10. OnTheWay'
  <2>1. SUFFICES ASSUME NEW q \in Procs, NEW k \in O!Keys \ frail, call'[q].alone,
                        call'[q].want[k] # Unset
                 PROVE  Brought(call[q], k, call[q].want[k])'
    BY <1>b DEF OnTheWay
  <2>2. q = p
    BY <1>0, <1>3, <1>5, <2>1 DEF Shapes, Shape, Like
  <2> QED
    BY <1>1, <1>3, <2>1, <2>2 DEF Brought
<1>11. Trackers'
  <2>1. \A q \in Procs : call'[q].todo \notin Syncs
    <3>1. \A q \in Procs : call[q].todo \in {CreateAll, BothLimits, LastLimit, <<>>}
      BY <1>0, <1>b DEF Built
    <3> QED
      BY <1>3, <1>5, <3>1, Distinct DEF Syncs, Like
  <2>2. ASSUME proto = "bt", "tracker" \notin tangled, NEW q \in Procs, call'[q].todo = CreateAll
        PROVE  call'[q].eff["tracker"] = O!Merge(global, call'[q].want)["tracker"]
    <3>1. CASE q = p
      BY <1>3, <3>1 DEF eff
    <3>2. CASE q # p
      BY <1>0, <1>3, <1>5, <2>2, <3>2 DEF Trackers, Like
    <3> QED
      BY <3>1, <3>2
  <2>3. \A w : O!Merge(global', w) = O!Merge(global, w)
    BY <1>b DEF O!Merge
  <2> QED
    BY <1>b, <1>3, <2>1, <2>2, <2>3 DEF Trackers
<1>12. Limits'
  <2>1. \A q \in Procs : /\ "limit" \in call'[q].touches =>
                               "limit" \in call[q].touches /\ call'[q].eff = call[q].eff
                         /\ call[q].todo \in {BothLimits, LastLimit} => call'[q].todo = call[q].todo
    <3>1. call[p].todo = <<>>
      BY <1>0, <1>3 DEF Shapes, Shape
    <3> QED
      BY <1>3, <1>5, <3>1, Distinct DEF Like
  <2> QED
    BY <1>0, <1>b, <1>3, <2>1 DEF Limits
<1> QED
  BY <1>7, <1>8, <1>9, <1>10, <1>11, <1>12 DEF OptionsInv

-----------------------------------------------------------------------------
(* Options: ChangeOption. *)

LEMMA ChangeOptionKeepsOptions ==
    ASSUME OptionsInv, NEW p \in Procs, O!ChangeOption(p)
    PROVE  OptionsInv'
<1>0. /\ OptionTypes /\ Shapes /\ Built /\ Reads /\ Alone /\ Everywhere /\ OnTheWay
      /\ Trackers /\ Limits /\ call \in [Procs -> Calls] /\ asked \in O!Maps
      /\ global \in [O!GlobalKeys -> Set0] /\ task \in O!OptionMaps \cup {Nil}
  BY DEF OptionsInv, OptionTypes
<1>a. PICK j \in O!Keys, n \in Values :
         LET local == [task.local EXCEPT ![j] = n]
             options == IF task.local = Nil THEN [task.options EXCEPT ![j] = n]
                        ELSE O!Merge(global, local)
             sync == proto = "bt" /\ j = "tracker"
         IN /\ task' = [options |-> options, local |-> IF task.local = Nil THEN Nil ELSE local]
            /\ O!Begin(p, "option", {j}, [O!NoMap EXCEPT ![j] = n],
                     <<"driver">> \o (IF sync THEN <<"sync">> ELSE <<>>) \o O!Refresh \o O!Persist,
                     options)
            /\ frail' = IF \/ proto = "direct" /\ drv.local # Nil
                           \/ proto = "bt" /\ task.local = Nil
                        THEN frail \cup {j} ELSE frail \ {j}
  BY DEF O!ChangeOption
<1>b. task # Nil /\ UNCHANGED <<proto, global, drv, limits, file>>
  BY DEF O!ChangeOption
<1> DEFINE local == [task.local EXCEPT ![j] = n]
           options == IF task.local = Nil THEN [task.options EXCEPT ![j] = n]
                      ELSE O!Merge(global, local)
           want == [O!NoMap EXCEPT ![j] = n]
           todo == IF proto = "bt" /\ j = "tracker" THEN TellSync ELSE TellAll
<1>c. <<"driver">> \o (IF proto = "bt" /\ j = "tracker" THEN <<"sync">> ELSE <<>>)
         \o O!Refresh \o O!Persist = todo
  BY Compositions
<1>d. /\ task' = [options |-> options, local |-> IF task.local = Nil THEN Nil ELSE local]
      /\ O!Begin(p, "option", {j}, want, todo, options)
  BY <1>a, <1>c
<1>e. \/ proto = "direct" /\ drv.local # Nil /\ frail' = frail \cup {j}
      \/ proto = "bt" /\ task.local = Nil /\ frail' = frail \cup {j}
      \/ /\ ~(proto = "direct" /\ drv.local # Nil) /\ ~(proto = "bt" /\ task.local = Nil)
         /\ frail' = frail \ {j}
  BY <1>a
<1>f. task.options \in O!Maps /\ task.local \in O!Maps \cup {Nil} /\ task \in O!OptionMaps
  BY <1>0, <1>b, Unlike
<1>g. n \in Set0 /\ n # Unset
  BY Unlike
<1>h. /\ task.local # Nil => local \in O!Maps /\ local[j] = n /\ local # Nil
      /\ task.local # Nil => \A k \in O!Keys \ {j} : local[k] = task.local[k]
  BY <1>f, <1>g, Unlike DEF O!Maps, Set0
<1>i. /\ options \in O!Maps /\ options[j] = n
      /\ task.local = Nil => \A k \in O!Keys \ {j} : options[k] = task.options[k]
      /\ task.local # Nil =>
            \A k \in O!Keys : options[k] = IF local[k] = Unset THEN global[k] ELSE local[k]
  <2>1. CASE task.local = Nil
    BY <1>f, <1>g, <2>1 DEF O!Maps, Set0
  <2>2. CASE task.local # Nil
    <3>1. options = O!Merge(global, local) /\ local \in O!Maps
      BY <1>h, <2>2
    <3> HIDE DEF local
    <3>2. /\ O!Merge(global, local) \in O!Maps
          /\ \A k \in O!Keys :
                O!Merge(global, local)[k] = IF local[k] = Unset THEN global[k] ELSE local[k]
      BY <1>0, <3>1, MergeType
    <3> QED
      BY <1>g, <1>h, <2>2, <3>1, <3>2
  <2> QED
    BY <2>1, <2>2
<1>1. /\ want \in O!Maps /\ want[j] = n /\ \A k \in O!Keys \ {j} : want[k] = Unset
  BY <1>g, Unlike DEF O!NoMap, O!Maps, Set0
<1>2. /\ todo \in Todos /\ options \in Effs /\ {j} \in SUBSET O!GlobalKeys /\ todo \in Drives
  BY <1>i DEF Todos, Syncs, Effs, O!GlobalKeys, Drives
<1>3. todo = TellSync => proto = "bt" /\ j = "tracker"
  BY Distinct
<1>4. todo = TellAll => proto # "bt" \/ j # "tracker"
  BY Distinct
<1>5. task'.options = options /\ task'.local = IF task.local = Nil THEN Nil ELSE local
  BY <1>d
<1>6. task' \in O!OptionMaps /\ task' # Nil
  BY <1>d, <1>h, <1>i, Unlike DEF O!OptionMaps
<1>7. BeginsWith(p, "option", {j}, want, todo, options)
  BY <1>0, <1>1, <1>2, <1>d, BeginEffect DEF Ops
<1>j. O!Begin(p, "option", {j}, want, todo, options)
  BY <1>d
<1> HIDE DEF local, options, want, todo
<1>8. /\ call[p].op = "idle" /\ call'[p].op = "option" /\ call'[p].touches = {j}
      /\ call'[p].want = want /\ call'[p].todo = todo /\ call'[p].eff = options
      /\ \A q \in O!Others(p) : Like(call'[q], call[q]) /\ (call'[q].alone => call[q].op = "idle")
      /\ \A q \in O!Others(p) :
            call[q].op \notin {"idle", "query"} /\ j \in call[q].touches => j \in tangled'
      /\ tangled \subseteq tangled'
  BY <1>7 DEF BeginsWith
<1>9. \A k \in O!Keys : asked'[k] # Unset => k # j /\ asked'[k] = asked[k]
  BY <1>0, <1>1, <1>7, <1>g DEF BeginsWith
<1>10. \A q \in Procs : q # p => q \in O!Others(p)
  BY DEF O!Others
<1>11. Shape(call'[p], proto)
  BY <1>1, <1>2, <1>3, <1>4, <1>8, <1>i, Distinct DEF Shape, Syncs, Drives
<1>12. /\ call' \in [Procs -> Calls] /\ asked' \in O!Maps /\ Shapes' /\ Built' /\ Reads' /\ Alone'
       /\ Sole("tracker")' /\ Sole("limit")'
  <2>1. todo \in {CreateAll, TellAll, TellSync, JustSync, BothLimits, ReadLast, JustRead, <<>>}
    BY <1>2 DEF Drives
  <2>2. todo # CreateAll
    BY <1>2, Distinct DEF Drives
  <2>3. "option" \in Ops \ {"idle"} /\ "option" # "add"
    BY DEF Ops
  <2> QED
    BY <1>1, <1>2, <1>6, <1>11, <1>b, <1>j, <2>1, <2>2, <2>3, Begun
<1>13. OptionTypes'
  BY <1>0, <1>6, <1>12, <1>b DEF OptionTypes
<1>14. Everywhere'
  <2>1. SUFFICES ASSUME NEW k \in O!Keys \ frail', asked'[k] # Unset
                 PROVE  /\ task' # Nil /\ file' # Nil
                        /\ InTask(k, asked[k])' /\ InDriver(k, asked[k])'
                        /\ InCopy(file, k, asked[k])'
                        /\ \A q \in Procs : InHand(call[q], k, asked[k])'
    BY DEF Everywhere
  <2>2. k # j /\ asked'[k] = asked[k] /\ asked[k] # Unset /\ k \in O!Keys \ frail
    BY <1>9, <1>e, <2>1
  <2>3. /\ file # Nil /\ InTask(k, asked[k]) /\ InDriver(k, asked[k]) /\ InCopy(file, k, asked[k])
        /\ \A q \in Procs : InHand(call[q], k, asked[k])
    BY <1>0, <2>2 DEF Everywhere
  <2>4. InTask(k, asked[k])'
    BY <1>5, <1>b, <1>h, <2>2, <2>3 DEF InTask
  <2>5. InDriver(k, asked[k])' /\ InCopy(file, k, asked[k])'
    BY <1>b, <2>2, <2>3 DEF InDriver, InCopy
  <2>6. ASSUME NEW q \in Procs PROVE InHand(call[q], k, asked[k])'
    <3>1. CASE q = p
      BY <1>2, <1>3, <1>8, <2>2, <3>1, Distinct DEF InHand, Syncs, Drives
    <3>2. CASE q # p
      BY <1>8, <1>10, <1>b, <2>2, <2>3, <3>2 DEF InHand, InCopy, Like
    <3> QED
      BY <3>1, <3>2
  <2> QED
    BY <1>6, <1>b, <2>3, <2>4, <2>5, <2>6
<1>15. OnTheWay'
  <2>1. SUFFICES ASSUME NEW q \in Procs, NEW k \in O!Keys \ frail', call'[q].alone,
                        call'[q].want[k] # Unset
                 PROVE  Brought(call[q], k, call[q].want[k])'
    BY DEF OnTheWay
  <2>2. q = p /\ k = j
    BY <1>0, <1>1, <1>8, <1>10, <2>1 DEF Shapes, Shape, Like
  <2>3. /\ call'[q].todo = todo /\ call'[q].eff = options /\ call'[q].want[k] = n
        /\ options[k] = n
    BY <1>1, <1>8, <1>i, <2>2
  <2>4. /\ proto' = "bt" => task.local # Nil
        /\ proto' # "bt" => drv'.local = Nil
    BY <1>0, <1>b, <1>e, <2>1, <2>2 DEF OptionTypes
  <2>5. InTask(k, n)'
    BY <1>5, <1>h, <2>2, <2>4 DEF InTask
  <2>6. InHand(call[q], k, n)'
    BY <1>2, <2>3, Distinct DEF InHand, Drives
  <2> QED
    BY <1>2, <2>3, <2>4, <2>5, <2>6, Distinct DEF Brought, Drives, InTask, InHand, InCopy
<1>16. Trackers'
  <2>1. SUFFICES ASSUME proto = "bt", "tracker" \notin tangled'
                 PROVE  /\ task'.options["tracker"] \in {Unset, Proper'}
                        /\ \A q \in Procs :
                              /\ call'[q].todo \in Syncs => call'[q].eff["tracker"] = Proper'
                              /\ call'[q].todo # CreateAll
                        /\ (\A q \in Procs : call'[q].todo \notin Syncs) => drv.torrent = Proper'
    BY <1>b DEF Trackers
  <2>2. "tracker" \notin tangled /\ "tracker" \in O!Keys
    BY <1>8, <2>1 DEF O!Keys
  <2>3. /\ task.local = Nil => Proper' = options["tracker"] /\ Proper = task.options["tracker"]
        /\ task.local # Nil => /\ Proper' = O!Merge(global, local)["tracker"]
                               /\ Proper = O!Merge(global, task.local)["tracker"]
    <3>1. \A w : O!Merge(global', w) = O!Merge(global, w)
      BY <1>b
    <3> QED
      BY <1>5, <1>h, <3>1 DEF Proper
  <2>4. Proper' = options["tracker"]
    BY <2>3 DEF options
  <2>5. j # "tracker" => Proper' = Proper
    <3>1. SUFFICES ASSUME j # "tracker" PROVE Proper' = Proper
      OBVIOUS
    <3>2. CASE task.local = Nil
      BY <1>i, <2>2, <2>3, <3>1, <3>2
    <3>3. CASE task.local # Nil
      <4>1. O!Merge(global, task.local)["tracker"]
               = IF task.local["tracker"] = Unset THEN global["tracker"] ELSE task.local["tracker"]
        BY <1>0, <1>f, <2>2, <3>3, MergeType
      <4> QED
        BY <1>h, <1>i, <2>2, <2>3, <2>4, <3>1, <3>3, <4>1
    <3> QED
      BY <3>2, <3>3
  <2>6. ASSUME NEW q \in Procs
        PROVE  /\ call'[q].todo \in Syncs => call'[q].eff["tracker"] = Proper'
               /\ call'[q].todo # CreateAll
    <3>1. CASE q = p
      BY <1>2, <1>8, <2>4, <3>1, Distinct DEF Drives
    <3>2. CASE q # p
      <4>1. Like(call'[q], call[q]) /\ q \in O!Others(p)
        BY <1>8, <1>10, <3>2
      <4>2. call[q].todo # CreateAll
        BY <1>0, <1>b DEF Built
      <4>3. ASSUME call[q].todo \in Syncs PROVE j # "tracker"
        <5>1. call[q].touches = {"tracker"} /\ call[q].op \notin {"idle", "query"}
          BY <1>0, <4>3, Distinct DEF Shapes, Shape, Syncs
        <5> QED
          BY <1>8, <2>1, <4>1, <5>1
      <4>4. call[q].todo \in Syncs => call[q].eff["tracker"] = Proper
        BY <1>0, <2>1, <2>2 DEF Trackers
      <4> QED
        BY <2>5, <4>1, <4>2, <4>3, <4>4 DEF Like
    <3> QED
      BY <3>1, <3>2
  <2>7. ASSUME \A q \in Procs : call'[q].todo \notin Syncs
        PROVE  drv.torrent = Proper'
    <3>1. \A q \in Procs : call[q].todo \notin Syncs
      <4>1. call[p].todo = <<>>
        BY <1>0, <1>8 DEF Shapes, Shape
      <4> QED
        BY <1>8, <1>10, <2>7, <4>1, Distinct DEF Like, Syncs
    <3>2. j # "tracker"
      BY <1>8, <2>1, <2>7 DEF todo, Syncs
    <3> QED
      BY <1>0, <1>b, <2>1, <2>2, <2>5, <3>1, <3>2 DEF Trackers
  <2> QED
    BY <1>5, <2>4, <2>6, <2>7
<1>17. Limits'
  <2>1. \A q \in Procs : /\ "limit" \in call'[q].touches =>
                               "limit" \in call[q].touches /\ call'[q].eff = call[q].eff
                         /\ call[q].todo \in {BothLimits, LastLimit} => call'[q].todo = call[q].todo
    <3>1. call[p].todo = <<>> /\ j # "limit"
      BY <1>0, <1>8 DEF Shapes, Shape, O!Keys
    <3> QED
      BY <1>8, <1>10, <3>1, Distinct DEF Like
  <2> QED
    BY <1>0, <1>b, <1>8, <2>1 DEF Limits
<1> QED
  BY <1>12, <1>13, <1>14, <1>15, <1>16, <1>17 DEF OptionsInv


-----------------------------------------------------------------------------
(* Options: ChangeGlobalOption. *)

LEMMA ChangeGlobalOptionKeepsOptions ==
    ASSUME OptionsInv, NEW p \in Procs, O!ChangeGlobalOption(p)
    PROVE  OptionsInv'
<1>0. /\ OptionTypes /\ Shapes /\ Built /\ Reads /\ Alone /\ Everywhere /\ OnTheWay
      /\ Trackers /\ Limits /\ call \in [Procs -> Calls] /\ asked \in O!Maps
      /\ global \in [O!GlobalKeys -> Set0] /\ task \in O!OptionMaps \cup {Nil}
  BY DEF OptionsInv, OptionTypes
<1>a. PICK j \in O!GlobalKeys, n \in Values :
         LET g == [global EXCEPT ![j] = n]
             told == j = "tracker" /\ proto = "bt" /\ task # Nil
         IN /\ global' = g
            /\ task' = IF told THEN [task EXCEPT !.options = O!Remerged(j, g)] ELSE task
            /\ O!Begin(p, "global", {j}, O!NoMap,
                     IF told THEN <<"sync">> ELSE IF j = "limit" THEN <<"http", "bt">> ELSE <<>>,
                     IF told THEN O!Remerged(j, g) ELSE g)
  BY DEF O!ChangeGlobalOption
<1>b. UNCHANGED <<proto, drv, limits, file, frail>>
  BY DEF O!ChangeGlobalOption
<1> DEFINE g == [global EXCEPT ![j] = n]
           told == j = "tracker" /\ proto = "bt" /\ task # Nil
           todo == IF told THEN JustSync ELSE IF j = "limit" THEN BothLimits ELSE <<>>
           eff == IF told THEN O!Remerged(j, g) ELSE g
<1>c. /\ global' = g
      /\ task' = IF told THEN [task EXCEPT !.options = O!Remerged(j, g)] ELSE task
      /\ O!Begin(p, "global", {j}, O!NoMap, todo, eff)
  BY <1>a DEF JustSync, BothLimits
<1>d. n \in Set0 /\ n # Unset
  BY Unlike
<1>e. /\ g \in [O!GlobalKeys -> Set0] /\ g[j] = n
      /\ \A k \in O!GlobalKeys \ {j} : g[k] = global[k]
  BY <1>0, <1>d
<1>f. told => task.options \in O!Maps /\ task.local \in O!Maps \cup {Nil} /\ task \in O!OptionMaps
  BY <1>0, Unlike
<1> HIDE DEF g
<1>g. told => O!Remerged(j, g) \in O!Maps
  <2>1. CASE told /\ task.local = Nil
    <3>1. g[j] \in Set0 /\ task.options \in O!Maps
      BY <1>d, <1>e, <1>f, <2>1
    <3> QED
      BY <2>1, <3>1 DEF O!Remerged, O!Maps, Set0
  <2>2. CASE told /\ task.local # Nil
    <3>1. g \in [O!GlobalKeys -> Set0] \cup O!Maps /\ task.local \in O!Maps
      BY <1>e, <1>f, <2>2
    <3> QED
      BY <2>2, <3>1, MergeType DEF O!Remerged
  <2> QED
    BY <2>1, <2>2
<1>1. /\ todo \in Todos /\ eff \in Effs /\ {j} \in SUBSET O!GlobalKeys /\ O!NoMap \in O!Maps
      /\ \A k \in O!Keys : O!NoMap[k] = Unset
  BY <1>e, <1>g, Unlike DEF Todos, Syncs, Ends, Effs, O!NoMap
<1>2. /\ told => task'.options = O!Remerged(j, g) /\ task'.local = task.local
                 /\ task' \in O!OptionMaps /\ task' # Nil
      /\ ~told => task' = task
  <2>1. ASSUME told PROVE task' = [task EXCEPT !.options = O!Remerged(j, g)]
    BY <1>c, <2>1
  <2>2. ASSUME told
        PROVE  /\ task'.options = O!Remerged(j, g) /\ task'.local = task.local
               /\ task' \in O!OptionMaps
    BY <1>f, <1>g, <2>1, <2>2 DEF O!OptionMaps
  <2> QED
    BY <1>c, <2>2, Unlike
<1>3. /\ told <=> todo = JustSync
      /\ todo = BothLimits <=> j = "limit"
      /\ todo \in {JustSync, BothLimits, <<>>}
      /\ todo = JustSync => eff = O!Remerged(j, g)
      /\ todo # JustSync => eff = g
  BY Distinct
<1>4. told => j = "tracker" /\ proto = "bt" /\ task # Nil
  OBVIOUS
<1>5. BeginsWith(p, "global", {j}, O!NoMap, todo, eff)
  BY <1>0, <1>1, <1>c, BeginEffect DEF Ops
<1>h. O!Begin(p, "global", {j}, O!NoMap, todo, eff)
  BY <1>c
<1>i. proto = "bt" /\ task # Nil /\ j = "tracker" => told
  OBVIOUS
<1> HIDE DEF told, todo, eff
<1>6. /\ call[p].op = "idle" /\ call'[p].op = "global" /\ call'[p].touches = {j}
      /\ call'[p].want = O!NoMap /\ call'[p].todo = todo /\ call'[p].eff = eff
      /\ \A q \in O!Others(p) : Like(call'[q], call[q]) /\ (call'[q].alone => call[q].op = "idle")
      /\ \A q \in O!Others(p) :
            call[q].op \notin {"idle", "query"} /\ j \in call[q].touches => j \in tangled'
      /\ tangled \subseteq tangled'
  BY <1>5 DEF BeginsWith
<1>7. asked' = asked
  BY <1>0, <1>1, <1>5 DEF BeginsWith, O!Maps
<1>8. \A q \in Procs : q # p => q \in O!Others(p)
  BY DEF O!Others
<1>9. call[p].todo = <<>>
  BY <1>0, <1>6 DEF Shapes, Shape
<1>10. Shape(call'[p], proto)
  <2>1. todo \in Syncs <=> todo = JustSync
    BY <1>3, Distinct DEF Syncs
  <2>2. todo \notin {CreateAll, TellAll, LastLimit} /\ <<>> \notin {BothLimits, JustSync}
    BY <1>3, Distinct
  <2> QED
    BY <1>1, <1>3, <1>4, <1>6, <1>e, <1>g, <2>1, <2>2 DEF Shape
<1>11. /\ call' \in [Procs -> Calls] /\ asked' \in O!Maps /\ Shapes' /\ Built' /\ Reads' /\ Alone'
       /\ Sole("tracker")' /\ Sole("limit")'
  <2>1. todo \in {CreateAll, TellAll, TellSync, JustSync, BothLimits, ReadLast, JustRead, <<>>}
    BY <1>3
  <2>2. todo # CreateAll /\ (task = Nil => todo \in {CreateAll, BothLimits, <<>>})
    BY <1>3, <1>4, Distinct
  <2>3. "global" \in Ops \ {"idle"} /\ "global" # "add"
    BY DEF Ops
  <2>4. task' = Nil <=> task = Nil
    BY <1>2, <1>4
  <2> QED
    BY <1>1, <1>10, <1>b, <1>h, <2>1, <2>2, <2>3, <2>4, Begun
<1>12. OptionTypes'
  BY <1>0, <1>2, <1>11, <1>b, <1>c, <1>e DEF OptionTypes
<1>13. task' = Nil <=> task = Nil
  BY <1>2, <1>4
<1>14. task'.local = task.local
  BY <1>2
<1>15. Everywhere'
  <2>1. SUFFICES ASSUME NEW k \in O!Keys \ frail, asked[k] # Unset
                 PROVE  /\ task' # Nil /\ file' # Nil
                        /\ InTask(k, asked[k])' /\ InDriver(k, asked[k])'
                        /\ InCopy(file, k, asked[k])'
                        /\ \A q \in Procs : InHand(call[q], k, asked[k])'
    BY <1>7, <1>b DEF Everywhere
  <2>2. /\ task # Nil /\ file # Nil
        /\ InTask(k, asked[k]) /\ InDriver(k, asked[k]) /\ InCopy(file, k, asked[k])
        /\ \A q \in Procs : InHand(call[q], k, asked[k])
    BY <1>0, <2>1 DEF Everywhere
  <2>3. InTask(k, asked[k])' /\ InDriver(k, asked[k])' /\ InCopy(file, k, asked[k])'
    BY <1>7, <1>14, <1>b, <2>2 DEF InTask, InDriver, InCopy
  <2>4. ASSUME told, k = "tracker" PROVE eff[k] = asked[k]
    <3>1. task.local # Nil /\ task.local[k] = asked[k] /\ task.local \in O!Maps
      BY <1>4, <1>f, <2>2, <2>4 DEF InTask
    <3>2. eff = O!Merge(g, task.local)
      BY <1>3, <2>4, <3>1 DEF O!Remerged
    <3> QED
      BY <1>e, <2>1, <3>1, <3>2, MergeType
  <2>5. ASSUME NEW q \in Procs PROVE InHand(call[q], k, asked[k])'
    <3>1. CASE q = p
      <4>1. todo \notin {StoreLast, WriteLast, TellSync, SyncAll}
        BY <1>3, Distinct
      <4> QED
        BY <1>3, <1>6, <1>7, <2>4, <3>1, <4>1 DEF InHand, Syncs
    <3>2. CASE q # p
      BY <1>6, <1>7, <1>8, <1>b, <2>2, <3>2 DEF InHand, InCopy, Like
    <3> QED
      BY <3>1, <3>2
  <2> QED
    BY <1>13, <1>b, <2>2, <2>3, <2>5
<1>16. OnTheWay'
  <2>1. SUFFICES ASSUME NEW q \in Procs, NEW k \in O!Keys, call'[q].alone,
                        call'[q].want[k] # Unset
                 PROVE  FALSE
    BY DEF OnTheWay
  <2> QED
    BY <1>0, <1>1, <1>6, <1>8, <2>1 DEF Shapes, Shape, Like
<1>17. Trackers'
  <2>1. SUFFICES ASSUME proto = "bt", "tracker" \notin tangled'
                 PROVE  /\ task' # Nil => task'.options["tracker"] \in {Unset, Proper'}
                        /\ \A q \in Procs :
                              /\ call'[q].todo \in Syncs => call'[q].eff["tracker"] = Proper'
                              /\ call'[q].todo = CreateAll =>
                                    call'[q].eff["tracker"] = O!Merge(g, call'[q].want)["tracker"]
                        /\ task' # Nil /\ (\A q \in Procs : call'[q].todo \notin Syncs) =>
                              drv.torrent = Proper'
    BY <1>b, <1>c DEF Trackers, O!Merge
  <2>2. "tracker" \notin tangled /\ "tracker" \in O!Keys
    BY <1>6, <2>1 DEF O!Keys
  <2>3. \A q \in Procs : /\ call'[q].todo \in Syncs /\ q # p => call[q].todo \in Syncs
                         /\ call'[q].todo = CreateAll => q # p /\ call[q].todo = CreateAll
    BY <1>3, <1>6, <1>8, Distinct DEF Like
  <2>4. ASSUME NEW q \in Procs, q # p, call[q].todo \in Syncs \cup {CreateAll}
        PROVE  j # "tracker"
    <3>1. call[q].touches = {"tracker"} /\ call[q].op \notin {"idle", "query"}
      BY <1>0, <2>4, Distinct DEF Shapes, Shape, Syncs, Calls, Ops, Ends
    <3> QED
      BY <1>6, <1>8, <2>1, <2>4, <3>1
  <2>5. j # "tracker" =>
           /\ task' = task /\ call'[p].todo \notin Syncs
           /\ \A w : O!Merge(g, w)["tracker"] = O!Merge(global, w)["tracker"]
           /\ Proper' = Proper
    <3>1. j # "tracker" => todo \notin Syncs /\ ~told
      BY <1>3, <1>4, Distinct DEF Syncs
    <3>2. j # "tracker" => g["tracker"] = global["tracker"]
      BY <1>e, <2>2 DEF O!GlobalKeys
    <3>3. j # "tracker" => \A w : O!Merge(g, w)["tracker"] = O!Merge(global, w)["tracker"]
      BY <2>2, <3>2 DEF O!Merge
    <3>4. j # "tracker" => task' = task
      BY <1>2, <3>1
    <3>5. j # "tracker" => Proper' = Proper
      <4>1. SUFFICES ASSUME j # "tracker" PROVE Proper' = Proper
        OBVIOUS
      <4>2. global' = g /\ task' = task
        BY <1>c, <3>4, <4>1
      <4>3. O!Merge(global', task'.local)["tracker"] = O!Merge(global, task.local)["tracker"]
        BY <3>3, <4>1, <4>2
      <4> QED
        BY <4>2, <4>3 DEF Proper
    <3> QED
      BY <1>6, <3>1, <3>3, <3>4, <3>5
  <2>6. CASE j # "tracker"
    <3>1. \A q \in Procs : call'[q].todo \in Syncs \cup {CreateAll} =>
             call'[q].eff = call[q].eff /\ call'[q].want = call[q].want
      BY <1>6, <1>8, <2>3, <2>5, <2>6 DEF Like
    <3>2. \A q \in Procs : call[q].todo \in Syncs => call'[q].todo \in Syncs
      BY <1>6, <1>8, <1>9, Distinct DEF Like, Syncs
    <3>3. \A q \in Procs : call'[q].todo \in Syncs => call[q].todo \in Syncs
      BY <2>3, <2>5, <2>6
    <3> QED
      BY <1>0, <2>1, <2>2, <2>3, <2>5, <2>6, <3>1, <3>2, <3>3 DEF Trackers
  <2>7. CASE j = "tracker"
    <3>1. \A q \in Procs : q # p => call'[q].todo \notin Syncs
      BY <2>3, <2>4, <2>7
    <3>2. \A q \in Procs : call'[q].todo # CreateAll
      BY <2>3, <2>4, <2>7
    <3>3. call'[p].todo \in Syncs <=> told
      BY <1>3, <1>6, Distinct DEF Syncs
    <3>4. task' # Nil => told
      BY <1>13, <1>i, <2>1, <2>7
    <3>5. told => /\ task'.local = task.local
                  /\ task'.options = O!Remerged(j, g) /\ eff = O!Remerged(j, g)
      BY <1>2, <1>3
    <3>6. told => Proper' = O!Remerged(j, g)["tracker"]
      <4>1. told /\ task.local # Nil => O!Remerged(j, g) = O!Merge(g, task.local)
        BY DEF O!Remerged
      <4> QED
        BY <1>c, <3>5, <4>1 DEF Proper
    <3> QED
      BY <1>6, <3>1, <3>2, <3>3, <3>4, <3>5, <3>6
  <2> QED
    BY <2>6, <2>7
<1>18. Limits'
  <2>1. SUFFICES ASSUME "limit" \notin tangled'
                 PROVE  /\ \A q \in Procs : "limit" \in call'[q].touches =>
                              call'[q].eff["limit"] = g["limit"]
                        /\ \A d \in O!Limited :
                              \/ limits[d] = g["limit"]
                              \/ \E q \in Procs : \/ call'[q].todo = BothLimits
                                                  \/ call'[q].todo = LastLimit /\ d = "bt"
    BY <1>b, <1>c DEF Limits
  <2>2. "limit" \notin tangled
    BY <1>6, <2>1
  <2>3. \A q \in Procs : q # p => /\ call'[q].touches = call[q].touches
                                  /\ call'[q].eff = call[q].eff /\ call'[q].todo = call[q].todo
    BY <1>6, <1>8 DEF Like
  <2>4. CASE j = "limit"
    <3>1. todo = BothLimits /\ eff = g /\ call'[p].todo = BothLimits
      BY <1>3, <1>6, <2>4, Distinct
    <3>2. \A q \in Procs : q # p => "limit" \notin call'[q].touches
      BY <1>0, <1>6, <1>8, <2>1, <2>3, <2>4 DEF Shapes, Shape
    <3> QED
      BY <1>6, <3>1, <3>2
  <2>5. CASE j # "limit"
    <3>1. g["limit"] = global["limit"] /\ "limit" \notin call'[p].touches
      BY <1>6, <1>e, <2>5 DEF O!GlobalKeys
    <3>2. \A q \in Procs : call[q].todo \in {BothLimits, LastLimit} => q # p
      BY <1>9, Distinct
    <3> QED
      BY <1>0, <2>2, <2>3, <3>1, <3>2 DEF Limits
  <2> QED
    BY <2>4, <2>5
<1> QED
  BY <1>11, <1>12, <1>15, <1>16, <1>17, <1>18 DEF OptionsInv


-----------------------------------------------------------------------------
(* Options: what is left as it was when a call goes on. *)

LEMMA AtStep ==
    ASSUME OptionsInv, NEW p \in Procs, NEW step, O!At(p, step)
    PROVE  /\ call[p].todo \in Todos /\ call[p].todo # <<>> /\ call[p].op # "idle"
           /\ step = "create" => call[p].todo = CreateAll
           /\ step = "driver" => call[p].todo \in Drives
           /\ step = "sync" => call[p].todo \in {SyncAll, JustSync}
           /\ step = "read" => call[p].todo \in {TwoReads, ReadLast, JustRead}
           /\ step = "store" => call[p].todo \in Stores
           /\ step = "write" => call[p].todo = WriteLast
           /\ step = "http" => call[p].todo = BothLimits
           /\ step = "bt" => call[p].todo = LastLimit
           /\ call \in [Procs -> Calls] /\ call[p] \in Calls /\ Shape(call[p], proto)
<1>1. call \in [Procs -> Calls] /\ Shapes
  BY DEF OptionsInv, OptionTypes
<1>2. call[p].todo \in Todos /\ call[p].todo # <<>> /\ Head(call[p].todo) = step
  BY <1>1 DEF O!At, Calls
<1>3. call[p].op # "idle"
  BY DEF O!At, O!Busy
<1> QED
  BY <1>1, <1>2, <1>3, Which DEF Shapes

\* A call with something else to do than to be added or to tell the limits has a task.
LEMMA HasTask ==
    ASSUME OptionsInv, NEW p \in Procs,
           call[p].todo \notin {CreateAll, BothLimits, LastLimit, <<>>}
    PROVE  /\ task # Nil /\ task \in O!OptionMaps /\ drv # Nil /\ drv \in O!Copies
           /\ task.options \in O!Maps /\ task.local \in O!Maps \cup {Nil}
           /\ drv.options \in O!Maps \cup {Nil} /\ drv.local \in O!Maps \cup {Nil}
           /\ drv.torrent \in Set0 \cup {Unset}
           /\ proto = "bt" => drv.options = Nil /\ drv.local = Nil
           /\ proto # "bt" => drv.options \in O!Maps
           /\ \A q \in Procs : call[q].todo # CreateAll
<1>1. OptionTypes /\ Built
  BY DEF OptionsInv
<1>2. task # Nil /\ drv # Nil /\ \A q \in Procs : call[q].todo # CreateAll
  BY <1>1 DEF Built
<1>3. task \in O!OptionMaps /\ drv \in O!Copies
  BY <1>1, <1>2 DEF OptionTypes
<1>4. /\ drv.options \in O!Maps \cup {Nil} /\ drv.local \in O!Maps \cup {Nil}
      /\ drv.torrent \in Set0 \cup {Unset}
  BY <1>3 DEF O!Copies, Set0
<1> QED
  BY <1>1, <1>2, <1>3, <1>4, Unlike DEF Built

LEMMA BuiltGoesOn ==
    ASSUME OptionsInv, NEW p \in Procs, GoesOn(p), UNCHANGED <<proto, asked, tangled>>,
           task' = Nil <=> task = Nil, drv' = Nil <=> drv = Nil,
           drv # Nil => (IF proto = "bt" THEN drv'.options = Nil /\ drv'.local = Nil
                         ELSE drv'.options # Nil),
           task = Nil => file' = Nil,
           call'[p].todo # CreateAll,
           task = Nil => call'[p].todo \in {BothLimits, LastLimit, <<>>}
    PROVE  Built'
<1>1. Built /\ \A q \in Procs : \A r \in O!Others(q) : call'[q].op = "add" => call'[r].op # "add"
  BY GoneOn DEF OptionsInv
<1>2. \A q \in Procs : q # p => call'[q] = call[q]
  BY DEF GoesOn
<1>3. \A q \in Procs :
         /\ call'[q].todo = CreateAll => task = Nil
         /\ task = Nil => call'[q].todo \in {CreateAll, BothLimits, LastLimit, <<>>}
  BY <1>1, <1>2 DEF Built
<1> QED
  BY <1>1, <1>3 DEF Built, O!Others

LEMMA ReadsGoOn ==
    ASSUME OptionsInv, NEW p \in Procs, GoesOn(p), UNCHANGED proto,
           (drv'.local = drv.local) \/ (task = Nil),
           Held(call'[p], drv', proto)
    PROVE  Reads'
<1>1. Reads /\ Built
  BY DEF OptionsInv
<1>2. ASSUME NEW q \in Procs PROVE Held(call'[q], drv', proto)
  <2>1. CASE q = p
    BY <2>1
  <2>2. CASE q # p
    <3>1. call'[q] = call[q] /\ Held(call[q], drv, proto)
      BY <1>1, <2>2 DEF GoesOn, Reads
    <3>2. call[q].todo \in Stores => task # Nil
      BY <1>1, Distinct DEF Built, Stores
    <3> QED
      BY <3>1, <3>2 DEF Held
  <2> QED
    BY <2>1, <2>2
<1> QED
  BY <1>2 DEF Reads

LEMMA LimitsGoOn ==
    ASSUME OptionsInv, NEW p \in Procs, GoesOn(p), UNCHANGED <<global, limits, tangled>>,
           call[p].todo \notin {BothLimits, LastLimit}
    PROVE  Limits'
<1>1. Limits
  BY DEF OptionsInv
<1>2. \A q \in Procs : /\ call'[q].touches = call[q].touches /\ call'[q].eff = call[q].eff
                       /\ call[q].todo \in {BothLimits, LastLimit} => call'[q].todo = call[q].todo
  BY DEF GoesOn
<1> QED
  BY <1>1, <1>2 DEF Limits

LEMMA TrackersGoOn ==
    ASSUME OptionsInv, NEW p \in Procs, GoesOn(p), UNCHANGED <<proto, global, tangled>>,
           task' = Nil <=> task = Nil,
           proto = "bt" => /\ task # Nil => task'.options = task.options /\ task'.local = task.local
                           /\ task # Nil => drv'.torrent = drv.torrent,
           call'[p].todo \in Syncs <=> call[p].todo \in Syncs,
           call'[p].todo # CreateAll
    PROVE  Trackers'
<1>1. Trackers /\ Built
  BY DEF OptionsInv
<1>2. \A q \in Procs : /\ call'[q].want = call[q].want /\ call'[q].eff = call[q].eff
                       /\ call'[q].todo \in Syncs <=> call[q].todo \in Syncs
                       /\ call'[q].todo = CreateAll => call[q].todo = CreateAll
  BY DEF GoesOn
<1>3. \A q \in Procs : call[q].todo \in Syncs => task # Nil
  BY <1>1, Distinct DEF Built, Syncs
<1>4. \A w : O!Merge(global', w) = O!Merge(global, w)
  BY DEF O!Merge
<1>5. proto = "bt" /\ task # Nil => Proper' = Proper
  BY <1>4 DEF Proper
<1> QED
  BY <1>1, <1>2, <1>3, <1>4, <1>5 DEF Trackers

\* What was asked for stays where it is, if nothing moves but the call.
LEMMA EverywhereGoesOn ==
    ASSUME OptionsInv, NEW p \in Procs, GoesOn(p), UNCHANGED <<proto, file, asked, frail>>,
           \A k \in O!Keys \ frail :
              /\ asked[k] # Unset /\ task # Nil /\ file # Nil
              /\ InTask(k, asked[k]) /\ InDriver(k, asked[k]) /\ InCopy(file, k, asked[k])
              /\ InHand(call[p], k, asked[k])
              => /\ task' # Nil /\ InTask(k, asked[k])' /\ InDriver(k, asked[k])'
                 /\ InHand(call[p], k, asked[k])'
    PROVE  Everywhere'
<1>1. SUFFICES ASSUME NEW k \in O!Keys \ frail, asked[k] # Unset
               PROVE  /\ task' # Nil /\ file' # Nil
                      /\ InTask(k, asked[k])' /\ InDriver(k, asked[k])'
                      /\ InCopy(file, k, asked[k])'
                      /\ \A q \in Procs : InHand(call[q], k, asked[k])'
  BY DEF Everywhere
<1>2. /\ task # Nil /\ file # Nil
      /\ InTask(k, asked[k]) /\ InDriver(k, asked[k]) /\ InCopy(file, k, asked[k])
      /\ \A q \in Procs : InHand(call[q], k, asked[k])
  BY <1>1 DEF OptionsInv, Everywhere
<1>3. /\ task' # Nil /\ InTask(k, asked[k])' /\ InDriver(k, asked[k])'
      /\ InHand(call[p], k, asked[k])'
  BY <1>1, <1>2
<1>4. InCopy(file, k, asked[k])'
  BY <1>2 DEF InCopy
<1>5. ASSUME NEW q \in Procs, q # p PROVE InHand(call[q], k, asked[k])'
  BY <1>2, <1>5 DEF InHand, InCopy, GoesOn
<1> QED
  BY <1>2, <1>3, <1>4, <1>5

\* What a call that is not the one that goes on has brought somewhere stays there too.
LEMMA OnTheWayGoesOn ==
    ASSUME OptionsInv, NEW p \in Procs, GoesOn(p), UNCHANGED <<proto, frail>>,
           call[p].todo \in {JustRead, JustStore} =>
              /\ file' = file /\ drv' = drv
              /\ task # Nil /\ drv.local = Nil => task'.local = task.local,
           \A k \in O!Keys \ frail :
              /\ call[p].alone /\ call[p].want[k] # Unset
              /\ Brought(call[p], k, call[p].want[k])
              => Brought(call[p], k, call[p].want[k])'
    PROVE  OnTheWay'
<1>0. OnTheWay /\ Built
  BY DEF OptionsInv
<1>1. SUFFICES ASSUME NEW q \in Procs, NEW k \in O!Keys \ frail, call'[q].alone,
                      call'[q].want[k] # Unset
               PROVE  Brought(call[q], k, call[q].want[k])'
  BY DEF OnTheWay
<1>2. /\ call[q].alone /\ call[q].want[k] # Unset /\ call'[q].want = call[q].want
      /\ Brought(call[q], k, call[q].want[k])
  BY <1>0, <1>1 DEF GoesOn, OnTheWay
<1>3. CASE q = p
  BY <1>2, <1>3
<1>4. CASE q # p
  <2>1. q \in O!Others(p) /\ call'[q] = call[q]
    BY <1>4 DEF GoesOn, O!Others
  <2>2. call[p].todo \in {JustRead, JustStore}
    BY <1>2, <2>1, Undisturbed DEF GoesOn
  <2>3. /\ file' = file /\ drv' = drv
        /\ task # Nil /\ drv.local = Nil => task'.local = task.local
    BY <2>2
  <2>4. task # Nil /\ (proto = "bt" => drv.local = Nil)
    BY <1>0, <2>2, Distinct DEF Built
  <2> QED
    BY <1>2, <2>1, <2>3, <2>4 DEF Brought, InTask, InHand, InCopy
<1> QED
  BY <1>3, <1>4


-----------------------------------------------------------------------------
(* Options: Create, TellDriver, SyncTrackers, SetDownloadLimit. *)

LEMMA CreateKeepsOptions ==
    ASSUME OptionsInv, NEW p \in Procs, O!Create(p)
    PROVE  OptionsInv'
<1>0. /\ OptionTypes /\ Shapes /\ Built /\ Everywhere /\ OnTheWay /\ Trackers
      /\ asked \in O!Maps /\ global \in [O!GlobalKeys -> Set0]
  BY DEF OptionsInv, OptionTypes
<1>1. /\ call[p].todo = CreateAll /\ call[p].todo # <<>> /\ call \in [Procs -> Calls]
      /\ call[p] \in Calls /\ Shape(call[p], proto)
  BY AtStep DEF O!Create
<1>2. GoesOn(p) /\ call'[p].todo = ReadLast
  <2>1. GoesOn(p)
    BY <1>1, Passes DEF O!Create
  <2> QED
    BY <1>1, <2>1, TailsOf DEF GoesOn
<1>3. /\ UNCHANGED <<proto, global, limits, file, asked, frail, tangled, spent>>
      /\ task' = [options |-> IF proto = "bt" THEN O!NoMap ELSE call[p].eff,
                  local |-> call[p].want]
      /\ drv' = IF proto = "bt"
                THEN [options |-> Nil, local |-> Nil, torrent |-> call[p].eff["tracker"]]
                ELSE [options |-> call[p].eff, local |-> Nil, torrent |-> Unset]
  BY DEF O!Create
<1>4. /\ call[p].eff \in O!Maps /\ call[p].want \in O!Maps
      /\ call[p].eff["tracker"] \in Set0 \cup {Unset}
  BY <1>1 DEF Shape, Calls, O!Maps, Set0, O!Keys
<1>5. /\ task' \in O!OptionMaps /\ task' # Nil
      /\ task'.options = (IF proto = "bt" THEN O!NoMap ELSE call[p].eff)
      /\ task'.local = call[p].want /\ task'.local # Nil
  BY <1>3, <1>4, Unlike DEF O!OptionMaps
<1>6. /\ drv' \in O!Copies /\ drv' # Nil /\ drv'.local = Nil
      /\ proto = "bt" => drv'.options = Nil /\ drv'.torrent = call[p].eff["tracker"]
      /\ proto # "bt" => drv'.options = call[p].eff
  <2>1. CASE proto = "bt"
    BY <1>3, <1>4, <2>1, Unlike DEF O!Copies, Set0
  <2>2. CASE proto # "bt"
    BY <1>3, <1>4, <2>2, Unlike DEF O!Copies, Set0
  <2> QED
    BY <2>1, <2>2
<1>7. task = Nil /\ drv = Nil /\ file = Nil
  BY <1>0, <1>1 DEF Built
<1>8. \A q \in Procs : q # p =>
         call'[q] = call[q] /\ call[q].todo \in {BothLimits, LastLimit, <<>>}
  <2>1. call[p].op = "add"
    BY <1>1, Distinct DEF Shape, Calls, Ops, Ends
  <2>2. ASSUME NEW q \in Procs, q # p PROVE call[q].todo # CreateAll
    <3>1. call[q].op # "add" /\ call[q].op \in Ops
      BY <1>0, <1>1, <2>1, <2>2 DEF Built, O!Others, Calls
    <3> QED
      BY <1>0, <3>1, Distinct DEF Shapes, Shape, Ops, Ends
  <2> QED
    BY <1>0, <1>2, <1>7, <2>2 DEF Built, GoesOn
<1>9. /\ call' \in [Procs -> Calls] /\ Shapes' /\ Alone' /\ Sole("tracker")' /\ Sole("limit")'
      /\ \A q \in Procs : \A r \in O!Others(q) : call'[q].op = "add" => call'[r].op # "add"
  BY <1>2, <1>3, GoneOn DEF GoesOn
<1>10. OptionTypes'
  BY <1>0, <1>3, <1>5, <1>6, <1>9 DEF OptionTypes
<1>11. Built'
  <2>1. \A q \in Procs : call'[q].todo # CreateAll
    BY <1>2, <1>8, Distinct
  <2> QED
    BY <1>3, <1>4, <1>5, <1>6, <1>9, <2>1, Unlike DEF Built, O!Others
<1>12. Reads'
  <2>1. Held(call'[p], drv', proto)
    BY <1>2, Distinct DEF Held, Stores
  <2> QED
    BY <1>2, <1>3, <1>7, <2>1, ReadsGoOn
<1>13. Everywhere'
  BY <1>0, <1>3, <1>7 DEF Everywhere
<1>14. OnTheWay'
  <2>1. ASSUME NEW k \in O!Keys, call[p].want[k] # Unset, Brought(call[p], k, call[p].want[k])
        PROVE  Brought(call[p], k, call[p].want[k])'
    <3>1. call[p].eff[k] = call[p].want[k] /\ call'[p].want = call[p].want
      BY <1>1, <1>2, <2>1 DEF Brought, GoesOn
    <3>2. InTask(k, call[p].want[k])'
      BY <1>2, <1>5, <3>1 DEF InTask, GoesOn
    <3>3. InHand(call[p], k, call[p].want[k])'
      BY <1>2, Distinct DEF InHand, Syncs
    <3>4. call'[p].todo \notin Drives \cup {<<>>, CreateAll}
      BY <1>2, Distinct DEF Drives
    <3> QED
      BY <1>3, <1>6, <3>1, <3>2, <3>3, <3>4 DEF Brought, InTask, InHand
  <2>2. call[p].todo \notin {JustRead, JustStore}
    BY <1>1, Distinct
  <2> QED
    BY <1>2, <1>3, <2>1, <2>2, OnTheWayGoesOn
<1>15. Trackers'
  <2>1. \A q \in Procs : call'[q].todo \notin Syncs /\ call'[q].todo # CreateAll
    BY <1>2, <1>8, Distinct DEF Syncs
  <2>2. proto = "bt" /\ "tracker" \notin tangled =>
           call[p].eff["tracker"] = O!Merge(global, call[p].want)["tracker"]
    BY <1>0, <1>1 DEF Trackers
  <2>3. Proper' = O!Merge(global, call[p].want)["tracker"]
    <3>1. O!Merge(global', task'.local) = O!Merge(global, call[p].want)
      BY <1>3, <1>5
    <3> QED
      BY <1>5, <3>1 DEF Proper
  <2>4. proto = "bt" => task'.options["tracker"] = Unset
    BY <1>5 DEF O!NoMap, O!Keys
  <2> QED
    BY <1>3, <1>6, <2>1, <2>2, <2>3, <2>4 DEF Trackers
<1>16. Limits'
  BY <1>1, <1>2, <1>3, LimitsGoOn, Distinct
<1> QED
  BY <1>9, <1>10, <1>11, <1>12, <1>13, <1>14, <1>15, <1>16 DEF OptionsInv

LEMMA TellDriverKeepsOptions ==
    ASSUME OptionsInv, NEW p \in Procs, O!TellDriver(p)
    PROVE  OptionsInv'
<1>0. OptionTypes /\ Shapes /\ Alone /\ asked \in O!Maps
  BY DEF OptionsInv, OptionTypes
<1>1. /\ call[p].todo \in Drives /\ call[p].todo # <<>> /\ call \in [Procs -> Calls]
      /\ call[p] \in Calls /\ Shape(call[p], proto)
  BY AtStep DEF O!TellDriver
<1>2. /\ GoesOn(p) /\ call'[p].got = call[p].got
      /\ call[p].todo = TellSync => call'[p].todo = SyncAll
      /\ call[p].todo = TellAll => call'[p].todo = TwoReads
  <2>1. GoesOn(p) /\ call'[p].got = call[p].got
    BY <1>1, Passes DEF O!TellDriver
  <2> QED
    BY <1>1, <2>1, TailsOf DEF GoesOn
<1>3. /\ UNCHANGED <<proto, global, task, limits, file, asked, frail, tangled, spent>>
      /\ proto = "bt" => drv' = drv
      /\ proto # "bt" => drv' = [drv EXCEPT !.options = [k \in O!Keys |->
            IF call[p].want[k] = Unset THEN @[k] ELSE call[p].want[k]]]
  BY DEF O!TellDriver
<1>4. /\ task # Nil /\ drv # Nil /\ drv \in O!Copies
      /\ proto # "bt" => drv.options \in O!Maps
      /\ proto = "bt" => drv.options = Nil /\ drv.local = Nil
  <2>1. call[p].todo \notin {CreateAll, BothLimits, LastLimit, <<>>}
    BY <1>1, Distinct DEF Drives
  <2> QED
    BY <2>1, HasTask
<1>5. call[p].want \in O!Maps
  BY <1>1 DEF Calls
<1>6. /\ drv' \in O!Copies /\ drv' # Nil /\ drv'.local = drv.local /\ drv'.torrent = drv.torrent
      /\ proto = "bt" => drv'.options = drv.options
      /\ proto # "bt" => /\ drv'.options \in O!Maps
                         /\ \A k \in O!Keys : drv'.options[k] =
                               IF call[p].want[k] = Unset THEN drv.options[k] ELSE call[p].want[k]
  <2>1. CASE proto = "bt"
    BY <1>3, <1>4, <2>1
  <2>2. CASE proto # "bt"
    <3> DEFINE told == [k \in O!Keys |-> IF call[p].want[k] = Unset THEN drv.options[k]
                                       ELSE call[p].want[k]]
    <3>1. told \in O!Maps
      BY <1>4, <1>5, <2>2 DEF O!Maps, O!Maps
    <3>2. drv' = [drv EXCEPT !.options = told]
      BY <1>3, <1>4, <2>2 DEF O!Copies
    <3>3. \A k \in O!Keys : told[k] = IF call[p].want[k] = Unset THEN drv.options[k]
                                    ELSE call[p].want[k]
      OBVIOUS
    <3> HIDE DEF told
    <3>4. /\ drv' \in O!Copies /\ drv'.options = told
          /\ drv'.local = drv.local /\ drv'.torrent = drv.torrent
      BY <1>4, <3>1, <3>2 DEF O!Copies
    <3> QED
      BY <2>2, <3>1, <3>3, <3>4, Unlike
  <2> QED
    BY <2>1, <2>2
<1>7. /\ call' \in [Procs -> Calls] /\ Shapes' /\ Alone' /\ Sole("tracker")' /\ Sole("limit")'
  BY <1>2, <1>3, GoneOn DEF GoesOn
<1>8. OptionTypes'
  BY <1>0, <1>3, <1>6, <1>7 DEF OptionTypes
<1>9. call'[p].todo \in {SyncAll, TwoReads}
  BY <1>1, <1>2 DEF Drives
<1>10. Built'
  BY <1>2, <1>3, <1>4, <1>6, <1>9, BuiltGoesOn, Distinct, Unlike
<1>11. Reads'
  <2>1. Held(call'[p], drv', proto)
    BY <1>9, Distinct DEF Held, Stores
  <2> QED
    BY <1>2, <1>3, <1>6, <2>1, ReadsGoOn
<1>12. Everywhere'
  <2>1. ASSUME NEW k \in O!Keys \ frail, asked[k] # Unset,
               InTask(k, asked[k]), InDriver(k, asked[k]), InHand(call[p], k, asked[k])
        PROVE  InTask(k, asked[k])' /\ InDriver(k, asked[k])' /\ InHand(call[p], k, asked[k])'
    <3>1. call[p].want[k] = Unset
      BY <1>0, <2>1 DEF Alone
    <3>2. InTask(k, asked[k])' /\ InDriver(k, asked[k])'
      BY <1>3, <1>6, <2>1, <3>1 DEF InTask, InDriver
    <3>3. /\ call'[p].todo \in Syncs => call[p].todo \in Syncs
          /\ call'[p].todo \notin {StoreLast, WriteLast} /\ call'[p].eff = call[p].eff
      BY <1>1, <1>2, Distinct DEF Syncs, Drives, GoesOn
    <3> QED
      BY <1>3, <2>1, <3>2, <3>3 DEF InHand
  <2> QED
    BY <1>2, <1>3, <1>4, <2>1, EverywhereGoesOn
<1>13. OnTheWay'
  <2>1. ASSUME NEW k \in O!Keys, call[p].want[k] # Unset, Brought(call[p], k, call[p].want[k])
        PROVE  Brought(call[p], k, call[p].want[k])'
    <3>1. /\ InTask(k, call[p].want[k]) /\ InHand(call[p], k, call[p].want[k])
          /\ proto # "bt" => drv.local = Nil
      BY <1>1, <2>1, Distinct DEF Brought, Drives
    <3>2. call'[p].want = call[p].want /\ call'[p].eff = call[p].eff
      BY <1>2 DEF GoesOn
    <3>3. InTask(k, call[p].want[k])'
      BY <1>3, <3>1, <3>2 DEF InTask
    <3>4. InHand(call[p], k, call[p].want[k])'
      <4>1. /\ call'[p].todo \in Syncs => call[p].todo \in Syncs
            /\ call'[p].todo \notin {StoreLast, WriteLast}
        BY <1>1, <1>2, Distinct DEF Syncs, Drives
      <4> QED
        BY <1>3, <3>1, <3>2, <4>1 DEF InHand
    <3>5. call'[p].todo \notin Syncs /\ k = "tracker" => proto # "bt"
      <4>1. call'[p].todo \notin Syncs => call[p].todo = TellAll
        BY <1>1, <1>2 DEF Drives, Syncs
      <4>2. call[p].op = "option" => call[p].touches = {k}
        BY <1>1, <2>1 DEF Shape
      <4>3. call[p].op = "option"
        BY <1>1, Distinct DEF Shape, Calls, Ops, Drives, Ends
      <4> QED
        BY <1>1, <4>1, <4>2, <4>3 DEF Shape
    <3>6. call'[p].todo \notin {<<>>, CreateAll}
      BY <1>9, Distinct
    <3> QED
      BY <1>3, <1>6, <2>1, <3>1, <3>2, <3>3, <3>4, <3>5, <3>6 DEF Brought, InTask, InHand
  <2>2. call[p].todo \notin {JustRead, JustStore}
    BY <1>1, Distinct DEF Drives
  <2> QED
    BY <1>2, <1>3, <2>1, <2>2, OnTheWayGoesOn
<1>14. Trackers'
  <2>1. call'[p].todo \in Syncs <=> call[p].todo \in Syncs
    BY <1>1, <1>2, Distinct DEF Drives, Syncs
  <2>2. call'[p].todo # CreateAll
    BY <1>9, Distinct
  <2> QED
    BY <1>2, <1>3, <2>1, <2>2, TrackersGoOn
<1>15. Limits'
  <2>1. call[p].todo \notin {BothLimits, LastLimit}
    BY <1>1, Distinct DEF Drives
  <2> QED
    BY <1>2, <1>3, <2>1, LimitsGoOn
<1> QED
  BY <1>7, <1>8, <1>10, <1>11, <1>12, <1>13, <1>14, <1>15 DEF OptionsInv

LEMMA SyncTrackersKeepsOptions ==
    ASSUME OptionsInv, NEW p \in Procs, O!SyncTrackers(p)
    PROVE  OptionsInv'
<1>0. OptionTypes /\ Shapes /\ Trackers /\ asked \in O!Maps
  BY DEF OptionsInv, OptionTypes
<1>1. /\ call[p].todo \in {SyncAll, JustSync} /\ call[p].todo # <<>>
      /\ call \in [Procs -> Calls] /\ call[p] \in Calls /\ Shape(call[p], proto)
  BY AtStep DEF O!SyncTrackers
<1>2. /\ GoesOn(p) /\ call'[p].got = call[p].got
      /\ call'[p].todo \in {TwoReads, <<>>}
  <2>1. GoesOn(p) /\ call'[p].got = call[p].got
    BY <1>1, Passes DEF O!SyncTrackers
  <2> QED
    BY <1>1, <2>1, TailsOf DEF GoesOn
<1>3. /\ UNCHANGED <<proto, global, task, limits, file, asked, frail, tangled, spent>>
      /\ drv' = [drv EXCEPT !.torrent = call[p].eff["tracker"]]
  BY DEF O!SyncTrackers
<1>4. /\ task # Nil /\ drv # Nil /\ drv \in O!Copies
      /\ drv.options = Nil /\ drv.local = Nil /\ proto = "bt" /\ call[p].eff \in O!Maps
      /\ call[p].touches = {"tracker"}
  <2>1. call[p].todo \notin {CreateAll, BothLimits, LastLimit, <<>>}
    BY <1>1, Distinct
  <2>2. call[p].todo \in Syncs
    BY <1>1 DEF Syncs
  <2>3. proto = "bt" /\ call[p].eff \in O!Maps /\ call[p].touches = {"tracker"}
    BY <1>1, <2>2 DEF Shape
  <2> QED
    BY <2>1, <2>3, HasTask
<1>5. call[p].eff["tracker"] \in Set0 \cup {Unset}
  BY <1>4 DEF O!Maps, Set0, O!Keys
<1>6. /\ drv' \in O!Copies /\ drv' # Nil /\ drv'.local = Nil /\ drv'.options = Nil
      /\ drv'.torrent = call[p].eff["tracker"]
  BY <1>3, <1>4, <1>5, Unlike DEF O!Copies, Set0
<1>7. /\ call' \in [Procs -> Calls] /\ Shapes' /\ Alone' /\ Sole("tracker")' /\ Sole("limit")'
  BY <1>2, <1>3, GoneOn DEF GoesOn
<1>8. OptionTypes'
  BY <1>0, <1>3, <1>6, <1>7 DEF OptionTypes
<1>9. Built'
  BY <1>2, <1>3, <1>4, <1>6, BuiltGoesOn, Distinct
<1>10. Reads'
  <2>1. Held(call'[p], drv', proto)
    BY <1>2, Distinct DEF Held, Stores
  <2> QED
    BY <1>2, <1>3, <1>4, <1>6, <2>1, ReadsGoOn
<1>11. /\ call'[p].todo \notin Syncs \cup Drives \cup {CreateAll, StoreLast, WriteLast}
       /\ call[p].todo \in Syncs
  BY <1>1, <1>2, Distinct DEF Syncs, Drives
<1>12. Everywhere'
  <2>1. ASSUME NEW k \in O!Keys \ frail, asked[k] # Unset,
               InTask(k, asked[k]), InDriver(k, asked[k]), InHand(call[p], k, asked[k])
        PROVE  InTask(k, asked[k])' /\ InDriver(k, asked[k])' /\ InHand(call[p], k, asked[k])'
    <3>1. InTask(k, asked[k])'
      BY <1>3, <2>1 DEF InTask
    <3>2. InDriver(k, asked[k])'
      BY <1>3, <1>4, <1>6, <1>11, <2>1 DEF InDriver, InHand
    <3>3. InHand(call[p], k, asked[k])'
      BY <1>11 DEF InHand
    <3> QED
      BY <3>1, <3>2, <3>3
  <2> QED
    BY <1>2, <1>3, <1>4, <2>1, EverywhereGoesOn
<1>13. OnTheWay'
  <2>1. ASSUME NEW k \in O!Keys, call[p].want[k] # Unset, Brought(call[p], k, call[p].want[k])
        PROVE  Brought(call[p], k, call[p].want[k])'
    <3>1. /\ InTask(k, call[p].want[k]) /\ InHand(call[p], k, call[p].want[k])
      BY <1>1, <2>1, Distinct DEF Brought
    <3>2. call'[p].want = call[p].want /\ call'[p].eff = call[p].eff
      BY <1>2 DEF GoesOn
    <3>3. InTask(k, call[p].want[k])' /\ InHand(call[p], k, call[p].want[k])'
      BY <1>3, <1>11, <3>1, <3>2 DEF InTask, InHand
    <3>4. k = "tracker" => drv'.torrent = call[p].want[k]
      BY <1>6, <1>11, <3>1 DEF InHand
    <3>5. call'[p].todo # <<>>
      <4>1. call[p].op \in {"add", "option"}
        BY <1>1, <2>1 DEF Shape
      <4>2. call[p].todo = SyncAll
        BY <1>1, <4>1, Distinct DEF Shape, Ends
      <4> QED
        BY <1>2, <4>2, TailsOf, Distinct DEF GoesOn
    <3> QED
      BY <1>3, <1>4, <1>11, <3>2, <3>3, <3>4, <3>5 DEF Brought, InTask, InHand
  <2>2. call[p].todo \notin {JustRead, JustStore}
    BY <1>1, Distinct
  <2> QED
    BY <1>2, <1>3, <2>1, <2>2, OnTheWayGoesOn
<1>14. Trackers'
  <2>1. SUFFICES ASSUME "tracker" \notin tangled
                 PROVE  /\ task.options["tracker"] \in {Unset, Proper}
                        /\ \A q \in Procs :
                              /\ call'[q].todo \in Syncs => call'[q].eff["tracker"] = Proper
                              /\ call'[q].todo = CreateAll =>
                                    call'[q].eff["tracker"] =
                                        O!Merge(global, call'[q].want)["tracker"]
                        /\ drv'.torrent = Proper
    <3>1. \A w : O!Merge(global', w) = O!Merge(global, w)
      BY <1>3
    <3>2. Proper' = Proper
      BY <1>3, <3>1 DEF Proper
    <3> QED
      BY <1>3, <3>1, <3>2 DEF Trackers
  <2>2. call[p].eff["tracker"] = Proper
    BY <1>0, <1>4, <1>11, <2>1 DEF Trackers
  <2>3. \A q \in Procs : q # p => call'[q] = call[q]
    BY <1>2 DEF GoesOn
  <2> QED
    BY <1>0, <1>4, <1>6, <1>11, <2>1, <2>2, <2>3 DEF Trackers
<1>15. Limits'
  <2>1. call[p].todo \notin {BothLimits, LastLimit}
    BY <1>1, Distinct
  <2> QED
    BY <1>2, <1>3, <2>1, LimitsGoOn
<1> QED
  BY <1>7, <1>8, <1>9, <1>10, <1>12, <1>13, <1>14, <1>15 DEF OptionsInv

LEMMA SetDownloadLimitKeepsOptions ==
    ASSUME OptionsInv, NEW p \in Procs, NEW d \in O!Limited, O!SetDownloadLimit(p, d)
    PROVE  OptionsInv'
<1>0. OptionTypes /\ Shapes /\ Built /\ Limits /\ asked \in O!Maps /\ limits \in [O!Limited -> Set0]
  BY DEF OptionsInv, OptionTypes
<1>1. /\ d = "http" => call[p].todo = BothLimits
      /\ d = "bt" => call[p].todo = LastLimit
      /\ call[p].todo # <<>> /\ call \in [Procs -> Calls]
      /\ call[p] \in Calls /\ Shape(call[p], proto) /\ call[p].todo \in {BothLimits, LastLimit}
      /\ d = "http" \/ d = "bt"
  BY AtStep DEF O!SetDownloadLimit, O!Limited
<1>2. /\ GoesOn(p) /\ call'[p].got = call[p].got
      /\ d = "http" => call'[p].todo = LastLimit
      /\ d = "bt" => call'[p].todo = <<>>
  <2>1. GoesOn(p) /\ call'[p].got = call[p].got
    BY <1>1, Passes DEF O!SetDownloadLimit
  <2> QED
    BY <1>1, <2>1, TailsOf DEF GoesOn
<1>3. /\ UNCHANGED <<proto, global, task, drv, file, asked, frail, tangled, spent>>
      /\ limits' = [limits EXCEPT ![d] = call[p].eff["limit"]]
  BY DEF O!SetDownloadLimit
<1>4. /\ call[p].touches = {"limit"} /\ call[p].eff["limit"] \in Set0
      /\ \A k \in O!Keys : call[p].want[k] = Unset
  <2>1. call[p].op \notin {"add", "option"}
    BY <1>1, Distinct DEF Shape, Ends
  <2> QED
    BY <1>1, <2>1 DEF Shape, O!GlobalKeys
<1>5. /\ call' \in [Procs -> Calls] /\ Shapes' /\ Alone' /\ Sole("tracker")' /\ Sole("limit")'
  BY <1>2, <1>3, GoneOn DEF GoesOn
<1>6. limits' \in [O!Limited -> Set0]
  BY <1>0, <1>3, <1>4
<1>7. OptionTypes'
  BY <1>0, <1>3, <1>5, <1>6 DEF OptionTypes
<1>8. /\ call'[p].todo \in {LastLimit, <<>>}
      /\ call'[p].todo \notin Syncs \cup Stores \cup {StoreLast, WriteLast, CreateAll}
      /\ call[p].todo \notin Syncs
  BY <1>1, <1>2, Distinct DEF Syncs, Stores
<1>9. Built'
  <2>1. drv # Nil => (IF proto = "bt" THEN drv'.options = Nil /\ drv'.local = Nil
                      ELSE drv'.options # Nil)
    BY <1>0, <1>3 DEF Built
  <2>2. task = Nil => file' = Nil
    BY <1>0, <1>3 DEF Built
  <2> QED
    BY <1>2, <1>3, <1>8, <2>1, <2>2, BuiltGoesOn
<1>10. Reads'
  <2>1. Held(call'[p], drv', proto)
    BY <1>8 DEF Held
  <2> QED
    BY <1>2, <1>3, <2>1, ReadsGoOn
<1>11. Everywhere'
  <2>1. ASSUME NEW k \in O!Keys \ frail, InTask(k, asked[k]), InDriver(k, asked[k])
        PROVE  InTask(k, asked[k])' /\ InDriver(k, asked[k])' /\ InHand(call[p], k, asked[k])'
    BY <1>3, <1>8, <2>1 DEF InTask, InDriver, InHand
  <2> QED
    BY <1>2, <1>3, <2>1, EverywhereGoesOn
<1>12. OnTheWay'
  <2>1. call[p].todo \notin {JustRead, JustStore}
    BY <1>1, Distinct
  <2> QED
    BY <1>2, <1>3, <1>4, <2>1, OnTheWayGoesOn
<1>13. Trackers'
  BY <1>2, <1>3, <1>8, TrackersGoOn
<1>14. Limits'
  <2>1. SUFFICES ASSUME "limit" \notin tangled
                 PROVE  /\ \A q \in Procs : "limit" \in call'[q].touches =>
                              call'[q].eff["limit"] = global["limit"]
                        /\ \A e \in O!Limited :
                              \/ limits'[e] = global["limit"]
                              \/ \E q \in Procs : \/ call'[q].todo = BothLimits
                                                  \/ call'[q].todo = LastLimit /\ e = "bt"
    BY <1>3 DEF Limits
  <2>2. \A q \in Procs : call'[q].touches = call[q].touches /\ call'[q].eff = call[q].eff
    BY <1>2 DEF GoesOn
  <2>3. \A q \in Procs : q # p => call'[q] = call[q]
    BY <1>2 DEF GoesOn
  <2>4. limits'[d] = global["limit"] /\ \A e \in O!Limited \ {d} : limits'[e] = limits[e]
    BY <1>0, <1>3, <1>4, <2>1 DEF Limits
  <2>5. ASSUME NEW e \in O!Limited \ {d}
        PROVE  \/ limits'[e] = global["limit"]
               \/ \E q \in Procs : \/ call'[q].todo = BothLimits
                                   \/ call'[q].todo = LastLimit /\ e = "bt"
    <3>1. CASE d = "http"
      BY <1>2, <2>5, <3>1 DEF O!Limited
    <3>2. CASE d = "bt"
      <4>1. e = "http"
        BY <2>5, <3>2 DEF O!Limited
      <4>2. limits[e] = global["limit"] \/ \E q \in Procs : call[q].todo = BothLimits
        BY <1>0, <2>1, <4>1 DEF Limits
      <4>3. \A q \in Procs : call[q].todo = BothLimits => q # p
        BY <1>1, <3>2, Distinct
      <4> QED
        BY <2>3, <2>4, <2>5, <4>2, <4>3
    <3> QED
      BY <1>1, <3>1, <3>2
  <2> QED
    BY <1>0, <2>1, <2>2, <2>4, <2>5 DEF Limits
<1> QED
  BY <1>5, <1>7, <1>9, <1>10, <1>11, <1>12, <1>13, <1>14 DEF OptionsInv


-----------------------------------------------------------------------------
(* Options: Read, StoreTask, Write, Return. *)

LEMMA ReadKeepsOptions ==
    ASSUME OptionsInv, NEW p \in Procs, O!Read(p)
    PROVE  OptionsInv'
<1>0. OptionTypes /\ Shapes /\ asked \in O!Maps
  BY DEF OptionsInv, OptionTypes
<1>1. /\ call[p].todo \in {TwoReads, ReadLast, JustRead} /\ call[p].todo # <<>>
      /\ call \in [Procs -> Calls] /\ call[p] \in Calls /\ Shape(call[p], proto)
  BY AtStep DEF O!Read
<1>2. /\ task # Nil /\ drv # Nil /\ drv.options \in O!Maps \cup {Nil}
      /\ drv.local \in O!Maps \cup {Nil}
      /\ proto = "bt" => drv.options = Nil /\ drv.local = Nil
      /\ proto # "bt" => drv.options \in O!Maps
  <2>1. call[p].todo \notin {CreateAll, BothLimits, LastLimit, <<>>}
    BY <1>1, Distinct
  <2> QED
    BY <2>1, HasTask
<1> DEFINE got == [options |-> drv.options, local |-> drv.local]
<1>3. got \in Gots /\ got.options = drv.options /\ got.local = drv.local
  BY <1>2 DEF Gots
<1>4. /\ call' = [call EXCEPT ![p] = [O!Rest(p) EXCEPT !.got = got]]
      /\ UNCHANGED <<proto, global, task, drv, limits, file, asked, frail, tangled, spent>>
  BY DEF O!Read
<1> HIDE DEF got
<1>5. GoesOn(p) /\ call'[p].got = got
  BY <1>1, <1>3, <1>4, Takes
<1>6. /\ call'[p].todo \in Stores
      /\ call'[p].todo = StoreLast => call[p].todo = ReadLast
  BY <1>1, <1>5, TailsOf, Distinct DEF Stores, GoesOn
<1>7. /\ call'[p].todo \notin Syncs \cup Drives \cup {CreateAll, WriteLast, <<>>}
      /\ call[p].todo \notin Syncs \cup Drives \cup {CreateAll}
      /\ call[p].todo \notin {BothLimits, LastLimit}
  BY <1>1, <1>6, Distinct DEF Syncs, Stores, Drives
<1>8. /\ call' \in [Procs -> Calls] /\ Shapes' /\ Alone' /\ Sole("tracker")' /\ Sole("limit")'
  BY <1>4, <1>5, GoneOn DEF GoesOn
<1>9. OptionTypes'
  BY <1>0, <1>4, <1>8 DEF OptionTypes
<1>10. Built'
  BY <1>2, <1>4, <1>5, <1>7, BuiltGoesOn, Unlike
<1>11. Reads'
  <2>1. Held(call'[p], drv', proto)
    BY <1>2, <1>3, <1>4, <1>5, <1>7 DEF Held
  <2> QED
    BY <1>4, <1>5, <2>1, ReadsGoOn
<1>12. Everywhere'
  <2>1. ASSUME NEW k \in O!Keys \ frail, InTask(k, asked[k]), InDriver(k, asked[k])
        PROVE  InTask(k, asked[k])' /\ InDriver(k, asked[k])' /\ InHand(call[p], k, asked[k])'
    BY <1>3, <1>4, <1>5, <1>7, <2>1 DEF InTask, InDriver, InHand
  <2> QED
    BY <1>4, <1>5, <2>1, EverywhereGoesOn
<1>13. OnTheWay'
  <2>1. ASSUME NEW k \in O!Keys, call[p].want[k] # Unset, Brought(call[p], k, call[p].want[k])
        PROVE  Brought(call[p], k, call[p].want[k])'
    BY <1>3, <1>4, <1>5, <1>7, <2>1 DEF Brought, InTask, InHand, InCopy, GoesOn
  <2> QED
    BY <1>4, <1>5, <2>1, OnTheWayGoesOn
<1>14. Trackers'
  BY <1>4, <1>5, <1>7, TrackersGoOn
<1>15. Limits'
  BY <1>4, <1>5, <1>7, LimitsGoOn
<1> QED
  BY <1>8, <1>9, <1>10, <1>11, <1>12, <1>13, <1>14, <1>15 DEF OptionsInv

LEMMA StoreTaskKeepsOptions ==
    ASSUME OptionsInv, NEW p \in Procs, O!StoreTask(p)
    PROVE  OptionsInv'
<1>0. OptionTypes /\ Shapes /\ Reads /\ asked \in O!Maps
  BY DEF OptionsInv, OptionTypes
<1>1. /\ call[p].todo \in Stores /\ call[p].todo # <<>>
      /\ call \in [Procs -> Calls] /\ call[p] \in Calls /\ Shape(call[p], proto)
  BY AtStep DEF O!StoreTask
<1>2. /\ task # Nil /\ drv # Nil /\ task.options \in O!Maps /\ task.local \in O!Maps \cup {Nil}
      /\ drv.local \in O!Maps \cup {Nil}
      /\ proto = "bt" => drv.options = Nil /\ drv.local = Nil
      /\ proto # "bt" => drv.options \in O!Maps
  <2>1. call[p].todo \notin {CreateAll, BothLimits, LastLimit, <<>>}
    BY <1>1, Distinct DEF Stores
  <2> QED
    BY <2>1, HasTask
<1>3. /\ call[p].got.local = drv.local
      /\ proto = "bt" => call[p].got.options = Nil
      /\ proto # "bt" => call[p].got.options \in O!Maps
  BY <1>0, <1>1 DEF Reads, Held
<1>4. /\ task' = [options |-> IF call[p].got.options = Nil THEN task.options
                              ELSE call[p].got.options,
                  local |-> IF call[p].got.local = Nil THEN task.local ELSE call[p].got.local]
      /\ call' = [call EXCEPT ![p] = [O!Rest(p) EXCEPT !.got = task']]
      /\ UNCHANGED <<proto, global, drv, limits, file, asked, frail, tangled, spent>>
  BY DEF O!StoreTask
<1>5. /\ task'.options \in O!Maps /\ task'.local \in O!Maps \cup {Nil}
      /\ task'.local = IF drv.local = Nil THEN task.local ELSE drv.local
      /\ task' \in O!OptionMaps /\ task' \in Gots /\ task' # Nil
      /\ proto = "bt" => task'.options = task.options /\ task'.local = task.local
      /\ proto # "bt" => task'.options = call[p].got.options
  <2> DEFINE o == IF call[p].got.options = Nil THEN task.options ELSE call[p].got.options
             l == IF drv.local = Nil THEN task.local ELSE drv.local
  <2>1. /\ o \in O!Maps /\ l \in O!Maps \cup {Nil}
        /\ proto = "bt" => o = task.options /\ l = task.local
        /\ proto # "bt" => o = call[p].got.options
    BY <1>2, <1>3, Unlike
  <2>2. task' = [options |-> o, local |-> l]
    BY <1>3, <1>4
  <2> HIDE DEF o
  <2>3. task'.options = o /\ task'.local = l
    BY <2>2
  <2>4. task' \in O!OptionMaps /\ task' \in Gots
    BY <2>1, <2>2 DEF O!OptionMaps, Gots
  <2> QED
    BY <2>1, <2>3, <2>4, Unlike
<1>6. GoesOn(p) /\ call'[p].got = task'
  BY <1>1, <1>4, <1>5, Takes
<1>7. /\ call'[p].todo \in {ReadLast, WriteLast, <<>>}
      /\ call'[p].todo = WriteLast => call[p].todo = StoreLast
      /\ call'[p].todo = <<>> => call[p].todo = JustStore
  BY <1>1, <1>6, TailsOf, Distinct DEF Stores, GoesOn
<1>8. /\ call'[p].todo \notin Syncs \cup Drives \cup Stores \cup {CreateAll}
      /\ call[p].todo \notin Syncs \cup Drives \cup {CreateAll, BothLimits, LastLimit}
  BY <1>1, <1>7, Distinct DEF Syncs, Stores, Drives
<1>9. /\ call' \in [Procs -> Calls] /\ Shapes' /\ Alone' /\ Sole("tracker")' /\ Sole("limit")'
  BY <1>4, <1>6, GoneOn DEF GoesOn
<1>10. OptionTypes'
  BY <1>0, <1>4, <1>5, <1>9 DEF OptionTypes
<1>11. Built'
  BY <1>2, <1>4, <1>5, <1>6, <1>8, BuiltGoesOn, Unlike
<1>12. Reads'
  <2>1. Held(call'[p], drv', proto)
    BY <1>5, <1>6, <1>8 DEF Held
  <2> QED
    BY <1>4, <1>6, <2>1, ReadsGoOn
<1>13. Everywhere'
  <2>1. ASSUME NEW k \in O!Keys \ frail, InTask(k, asked[k]), InDriver(k, asked[k]),
               InHand(call[p], k, asked[k])
        PROVE  InTask(k, asked[k])' /\ InDriver(k, asked[k])' /\ InHand(call[p], k, asked[k])'
    <3>1. InTask(k, asked[k])'
      BY <1>2, <1>4, <1>5, <2>1 DEF InTask, InDriver
    <3>2. InDriver(k, asked[k])'
      BY <1>4, <2>1 DEF InDriver
    <3>3. call'[p].todo = WriteLast => InCopy(task, k, asked[k])'
      <4>1. CASE proto = "bt"
        BY <1>2, <1>4, <1>5, <3>1, <4>1 DEF InTask, InCopy
      <4>2. CASE proto # "bt"
        BY <1>4, <1>5, <1>7, <2>1, <3>1, <4>2 DEF InTask, InHand, InCopy
      <4> QED
        BY <4>1, <4>2
    <3>4. InHand(call[p], k, asked[k])'
      BY <1>6, <1>8, <3>3 DEF InHand, InCopy, Stores
    <3> QED
      BY <3>1, <3>2, <3>4
  <2> QED
    BY <1>4, <1>5, <1>6, <2>1, EverywhereGoesOn
<1>14. OnTheWay'
  <2>1. ASSUME NEW k \in O!Keys, call[p].want[k] # Unset, Brought(call[p], k, call[p].want[k])
        PROVE  Brought(call[p], k, call[p].want[k])'
    <3> DEFINE v == call[p].want[k]
    <3>1. /\ InTask(k, v) /\ InHand(call[p], k, v) /\ call'[p].want[k] = v
          /\ proto # "bt" => drv.local = Nil /\ drv.options[k] = v
          /\ proto = "bt" /\ k = "tracker" => drv.torrent = v
      BY <1>6, <1>8, <2>1 DEF Brought, GoesOn
    <3>2. InTask(k, call[p].want[k])'
      BY <1>2, <1>4, <1>5, <3>1 DEF InTask
    <3>3. call'[p].todo = WriteLast => InCopy(task, k, call[p].want[k])'
      <4>1. CASE proto = "bt"
        BY <1>2, <1>4, <1>5, <3>2, <4>1 DEF InTask, InCopy
      <4>2. CASE proto # "bt"
        BY <1>4, <1>5, <1>7, <3>1, <3>2, <4>2 DEF InTask, InHand, InCopy
      <4> QED
        BY <4>1, <4>2
    <3>4. InHand(call[p], k, call[p].want[k])'
      BY <1>6, <1>8, <3>3 DEF InHand, InCopy, Stores
    <3>5. call'[p].todo # <<>>
      <4>1. call[p].op \in {"add", "option"}
        BY <1>1, <2>1 DEF Shape
      <4>2. call[p].todo # JustStore
        BY <1>1, <4>1, Distinct DEF Shape, Ends
      <4> QED
        BY <1>7, <4>2
    <3> QED
      BY <1>4, <1>8, <3>1, <3>2, <3>4, <3>5 DEF Brought, InTask, InHand
  <2> QED
    BY <1>2, <1>4, <1>5, <1>6, <2>1, OnTheWayGoesOn
<1>15. Trackers'
  BY <1>2, <1>4, <1>5, <1>6, <1>8, TrackersGoOn
<1>16. Limits'
  BY <1>4, <1>6, <1>8, LimitsGoOn
<1> QED
  BY <1>9, <1>10, <1>11, <1>12, <1>13, <1>14, <1>15, <1>16 DEF OptionsInv

LEMMA WriteKeepsOptions ==
    ASSUME OptionsInv, NEW p \in Procs, O!Write(p)
    PROVE  OptionsInv'
<1>0. OptionTypes /\ Shapes /\ Built /\ Reads /\ Everywhere /\ asked \in O!Maps
  BY DEF OptionsInv, OptionTypes
<1>1. /\ call[p].todo = WriteLast /\ call[p].todo # <<>>
      /\ call \in [Procs -> Calls] /\ call[p] \in Calls /\ Shape(call[p], proto)
  BY AtStep DEF O!Write
<1>2. /\ GoesOn(p) /\ call'[p].got = call[p].got /\ call'[p].todo = <<>>
  <2>1. GoesOn(p) /\ call'[p].got = call[p].got
    BY <1>1, Passes DEF O!Write
  <2> QED
    BY <1>1, <2>1, TailsOf DEF GoesOn
<1>3. /\ file' = [call[p].got EXCEPT !.local = IF @ = O!NoMap THEN Nil ELSE @]
      /\ UNCHANGED <<proto, global, task, drv, limits, asked, frail, tangled, spent>>
  BY DEF O!Write
<1>4. task # Nil /\ drv # Nil
  BY <1>0, <1>1, Distinct DEF Built
<1>5. call[p].got \in O!OptionMaps
  BY <1>0, <1>1 DEF Reads, Held
<1>6. /\ file' \in O!OptionMaps /\ file' # Nil /\ file'.options = call[p].got.options
      /\ file'.local = IF call[p].got.local = O!NoMap THEN Nil ELSE call[p].got.local
  BY <1>3, <1>5, Unlike DEF O!OptionMaps
<1>7. /\ <<>> \notin Syncs \cup Drives \cup Stores \cup {CreateAll, WriteLast, StoreLast}
      /\ WriteLast \notin Syncs \cup Drives
      /\ WriteLast \notin {CreateAll, JustRead, JustStore, BothLimits, LastLimit}
      /\ WriteLast # <<>>
  BY Distinct DEF Syncs, Drives, Stores
<1>8. /\ call' \in [Procs -> Calls] /\ Shapes' /\ Alone' /\ Sole("tracker")' /\ Sole("limit")'
  BY <1>2, <1>3, GoneOn DEF GoesOn
<1>9. OptionTypes'
  BY <1>0, <1>3, <1>6, <1>8 DEF OptionTypes
<1>10. Built'
  <2>1. drv # Nil => (IF proto = "bt" THEN drv'.options = Nil /\ drv'.local = Nil
                      ELSE drv'.options # Nil)
    BY <1>0, <1>3 DEF Built
  <2> QED
    BY <1>2, <1>3, <1>4, <1>7, <2>1, BuiltGoesOn
<1>11. Reads'
  <2>1. Held(call'[p], drv', proto)
    BY <1>2, <1>7 DEF Held
  <2> QED
    BY <1>2, <1>3, <2>1, ReadsGoOn
\* What has an option that is set is written with it.
<1>12. ASSUME NEW k \in O!Keys, NEW v, v # Unset, InCopy(call[p].got, k, v)
       PROVE  InCopy(file, k, v)'
  <2>1. call[p].got.local # Nil => call[p].got.local # O!NoMap
    BY <1>12 DEF InCopy, O!NoMap
  <2> QED
    BY <1>3, <1>6, <1>12, <2>1 DEF InCopy
<1>13. Everywhere'
  <2>1. SUFFICES ASSUME NEW k \in O!Keys \ frail, asked[k] # Unset
                 PROVE  /\ task' # Nil /\ file' # Nil
                        /\ InTask(k, asked[k])' /\ InDriver(k, asked[k])'
                        /\ InCopy(file, k, asked[k])'
                        /\ \A q \in Procs : InHand(call[q], k, asked[k])'
    BY <1>3 DEF Everywhere
  <2>2. /\ InTask(k, asked[k]) /\ InDriver(k, asked[k])
        /\ \A q \in Procs : InHand(call[q], k, asked[k])
    BY <1>0, <2>1 DEF Everywhere
  <2>3. InTask(k, asked[k])' /\ InDriver(k, asked[k])'
    BY <1>3, <2>2 DEF InTask, InDriver
  <2>4. InCopy(call[p].got, k, asked[k])
    BY <1>1, <2>2 DEF InHand
  <2>5. InCopy(file, k, asked[k])'
    BY <1>3, <1>12, <2>1, <2>4 DEF InCopy
  <2>6. ASSUME NEW q \in Procs PROVE InHand(call[q], k, asked[k])'
    <3>1. CASE q = p
      BY <1>2, <1>7, <3>1 DEF InHand
    <3>2. CASE q # p
      BY <1>2, <1>3, <2>2, <3>2 DEF InHand, InCopy, GoesOn
    <3> QED
      BY <3>1, <3>2
  <2> QED
    BY <1>3, <1>4, <1>6, <2>3, <2>5, <2>6
<1>14. OnTheWay'
  <2>1. ASSUME NEW k \in O!Keys, call[p].want[k] # Unset, Brought(call[p], k, call[p].want[k])
        PROVE  Brought(call[p], k, call[p].want[k])'
    <3> DEFINE v == call[p].want[k]
    <3>1. /\ InTask(k, v) /\ InCopy(call[p].got, k, v) /\ call'[p].want[k] = v
          /\ proto # "bt" => drv.local = Nil /\ drv.options[k] = v
          /\ proto = "bt" /\ k = "tracker" => drv.torrent = v
      BY <1>1, <1>2, <1>7, <2>1 DEF Brought, GoesOn, InHand
    <3>2. InTask(k, call[p].want[k])'
      BY <1>3, <3>1 DEF InTask
    <3>3. InCopy(file, k, call[p].want[k])'
      BY <1>3, <1>12, <2>1, <3>1 DEF InCopy
    <3>4. InHand(call[p], k, call[p].want[k])'
      BY <1>2, <1>7 DEF InHand
    <3> QED
      BY <1>2, <1>3, <1>6, <1>7, <3>1, <3>2, <3>3, <3>4 DEF Brought, InTask, InHand, InCopy
  <2> QED
    BY <1>1, <1>2, <1>3, <1>7, <2>1, OnTheWayGoesOn
<1>15. Trackers'
  BY <1>1, <1>2, <1>3, <1>7, TrackersGoOn
<1>16. Limits'
  BY <1>1, <1>2, <1>3, <1>7, LimitsGoOn
<1> QED
  BY <1>8, <1>9, <1>10, <1>11, <1>13, <1>14, <1>15, <1>16 DEF OptionsInv

LEMMA ReturnKeepsOptions ==
    ASSUME OptionsInv, NEW p \in Procs, O!Return(p)
    PROVE  OptionsInv'
<1>0. /\ OptionTypes /\ Shapes /\ Built /\ Reads /\ Alone /\ Everywhere /\ OnTheWay
      /\ Sole("tracker") /\ Sole("limit") /\ Trackers /\ Limits
      /\ asked \in O!Maps /\ call \in [Procs -> Calls]
  BY DEF OptionsInv, OptionTypes
<1>1. /\ O!Busy(p) /\ call[p].todo = <<>> /\ call' = [call EXCEPT ![p] = O!Idle]
      /\ asked' = [k \in O!Keys |-> IF call[p].alone /\ call[p].want[k] # Unset
                                  THEN call[p].want[k] ELSE asked[k]]
      /\ UNCHANGED <<proto, global, task, drv, limits, file, frail, tangled, spent>>
  BY DEF O!Return
<1>2. /\ O!Idle \in Calls /\ O!Idle.op = "idle" /\ O!Idle.touches = {} /\ O!Idle.todo = <<>>
      /\ \A k \in O!Keys : O!Idle.want[k] = Unset
  BY Unlike DEF O!Idle, Calls, Ops, Todos, Ends, Effs, Gots, O!NoMap
<1>3. /\ call' \in [Procs -> Calls] /\ call'[p] = O!Idle
      /\ \A q \in Procs : q # p => call'[q] = call[q]
  BY <1>0, <1>1, <1>2
<1>4. call[p] \in Calls /\ call[p].want \in O!Maps /\ Shape(call[p], proto)
  BY <1>0 DEF Calls, Shapes
<1>5. asked' \in O!Maps /\ \A k \in O!Keys : asked'[k] =
         IF call[p].alone /\ call[p].want[k] # Unset THEN call[p].want[k] ELSE asked[k]
  BY <1>0, <1>1, <1>4 DEF O!Maps
<1>6. <<>> \notin Syncs \cup Stores
                     \cup {CreateAll, WriteLast, TellAll, BothLimits, LastLimit, StoreLast}
  BY Distinct DEF Syncs, Stores
<1>7. OptionTypes'
  BY <1>0, <1>1, <1>3, <1>5 DEF OptionTypes
<1>8. Shapes'
  <2>1. Shape(O!Idle, proto)
    BY <1>2, <1>6 DEF Shape
  <2> QED
    BY <1>0, <1>1, <1>3, <2>1 DEF Shapes
<1>9. Built'
  <2>1. \A q \in Procs : \A r \in O!Others(q) : call'[q].op = "add" => call'[r].op # "add"
    BY <1>0, <1>2, <1>3 DEF Built, O!Others
  <2> QED
    BY <1>0, <1>1, <1>2, <1>3, <1>6, <2>1 DEF Built, O!Others
<1>10. Reads'
  BY <1>0, <1>1, <1>2, <1>3, <1>6 DEF Reads, Held
<1>11. ASSUME NEW k \in O!Keys, call[p].alone, call[p].want[k] # Unset, NEW q \in Procs
       PROVE  /\ call'[q].op \in {"idle", "query"} /\ call'[q].want[k] = Unset
              /\ call'[q].todo \in {JustRead, JustStore, <<>>}
  <2>1. CASE q = p
    BY <1>2, <1>3, <2>1
  <2>2. CASE q # p
    <3>1. call[p].op \in {"add", "option"}
      BY <1>4, <1>11 DEF Shape
    <3>2. call[q].op \in {"idle", "query"}
      BY <1>0, <1>1, <1>11, <2>2, <3>1 DEF Alone, O!Others
    <3> QED
      BY <1>0, <1>3, <2>2, <3>2 DEF Shapes, Shape
  <2> QED
    BY <2>1, <2>2
<1>12. Alone'
  <2>1. ASSUME NEW q \in Procs, call'[q].op \notin {"idle", "query"}, call'[q].alone,
               NEW r \in O!Others(q)
        PROVE  call'[r].op \in {"idle", "query"}
    <3>1. q # p /\ call'[q] = call[q] /\ r \in Procs
      BY <1>2, <1>3, <2>1 DEF O!Others
    <3> QED
      BY <1>0, <1>2, <1>3, <2>1, <3>1 DEF Alone, O!Busy
  <2>2. ASSUME NEW q \in Procs, NEW k \in O!Keys, call'[q].want[k] # Unset
        PROVE  asked'[k] = Unset
    <3>1. q # p /\ call'[q] = call[q]
      BY <1>2, <1>3, <2>2
    <3>2. ~(call[p].alone /\ call[p].want[k] # Unset)
      BY <1>11, <2>2
    <3> QED
      BY <1>0, <1>5, <2>2, <3>1, <3>2 DEF Alone
  <2> QED
    BY <2>1, <2>2 DEF Alone, O!Busy
<1>13. Everywhere'
  <2>1. SUFFICES ASSUME NEW k \in O!Keys \ frail, asked'[k] # Unset
                 PROVE  /\ task # Nil /\ file # Nil
                        /\ InTask(k, asked'[k]) /\ InDriver(k, asked'[k])
                        /\ InCopy(file, k, asked'[k])
                        /\ \A q \in Procs : InHand(call'[q], k, asked'[k])
    BY <1>1 DEF Everywhere, InTask, InDriver, InCopy, InHand
  <2>2. CASE call[p].alone /\ call[p].want[k] # Unset
    <3>1. asked'[k] = call[p].want[k] /\ Brought(call[p], k, call[p].want[k])
      BY <1>0, <1>5, <2>1, <2>2 DEF OnTheWay
    <3>2. <<>> \notin Syncs \cup Drives \cup {CreateAll}
      BY Distinct DEF Syncs, Drives
    <3>3. /\ file # Nil /\ InTask(k, call[p].want[k]) /\ InCopy(file, k, call[p].want[k])
          /\ proto # "bt" => drv.local = Nil /\ drv.options[k] = call[p].want[k]
          /\ proto = "bt" /\ k = "tracker" => drv.torrent = call[p].want[k]
      BY <1>1, <3>1, <3>2 DEF Brought
    <3>4. task # Nil
      BY <1>0, <3>3 DEF Built
    <3>5. InDriver(k, call[p].want[k])
      BY <3>3 DEF InDriver
    <3>6. ASSUME NEW q \in Procs PROVE InHand(call'[q], k, asked'[k])
      <4>1. call'[q].todo \in {JustRead, JustStore, <<>>}
        BY <1>11, <2>2
      <4> QED
        BY <4>1, Distinct DEF InHand, Syncs
    <3> QED
      BY <3>1, <3>3, <3>4, <3>5, <3>6
  <2>3. CASE ~(call[p].alone /\ call[p].want[k] # Unset)
    <3>1. asked'[k] = asked[k]
      BY <1>5, <2>3
    <3>2. /\ task # Nil /\ file # Nil
          /\ InTask(k, asked[k]) /\ InDriver(k, asked[k]) /\ InCopy(file, k, asked[k])
          /\ \A q \in Procs : InHand(call[q], k, asked[k])
      BY <1>0, <2>1, <3>1 DEF Everywhere
    <3>3. ASSUME NEW q \in Procs PROVE InHand(call'[q], k, asked[k])
      <4>1. CASE q = p
        BY <1>2, <1>3, <1>6, <4>1 DEF InHand
      <4>2. CASE q # p
        BY <1>3, <3>2, <4>2
      <4> QED
        BY <4>1, <4>2
    <3> QED
      BY <3>1, <3>2, <3>3
  <2> QED
    BY <2>2, <2>3
<1>14. OnTheWay'
  <2>1. SUFFICES ASSUME NEW q \in Procs, NEW k \in O!Keys \ frail, call'[q].alone,
                        call'[q].want[k] # Unset
                 PROVE  Brought(call[q], k, call[q].want[k])'
    BY <1>1 DEF OnTheWay
  <2>2. q # p /\ call'[q] = call[q]
    BY <1>2, <1>3, <2>1
  <2>3. Brought(call[q], k, call[q].want[k])
    BY <1>0, <2>1, <2>2 DEF OnTheWay
  <2> QED
    BY <1>1, <2>2, <2>3 DEF Brought, InTask, InHand, InCopy
<1>15. Sole("tracker")' /\ Sole("limit")'
  BY <1>0, <1>1, <1>2, <1>3 DEF Sole
<1>16. Trackers'
  <2>1. /\ \A q \in Procs : call'[q].todo \in Syncs \cup {CreateAll} => call'[q] = call[q]
        /\ \A q \in Procs : call[q].todo \in Syncs => call'[q] = call[q]
    BY <1>1, <1>2, <1>3, <1>6
  <2>2. \A w : O!Merge(global', w) = O!Merge(global, w)
    BY <1>1
  <2> QED
    BY <1>0, <1>1, <2>1, <2>2 DEF Trackers, Proper
<1>17. Limits'
  <2>1. /\ \A q \in Procs : "limit" \in call'[q].touches => call'[q] = call[q]
        /\ \A q \in Procs : call[q].todo \in {BothLimits, LastLimit} => call'[q] = call[q]
    BY <1>1, <1>2, <1>3, <1>6
  <2> QED
    BY <1>0, <1>1, <2>1 DEF Limits
<1> QED
  BY <1>7, <1>8, <1>9, <1>10, <1>12, <1>13, <1>14, <1>15, <1>16, <1>17 DEF OptionsInv


-----------------------------------------------------------------------------
(* Options: the start, and every start after it. *)

LEMMA IdleType ==
    /\ O!Idle \in Calls /\ O!Idle.op = "idle" /\ O!Idle.touches = {} /\ O!Idle.todo = <<>>
    /\ \A k \in O!Keys : O!Idle.want[k] = Unset
    /\ <<>> \notin Syncs \cup Stores \cup {CreateAll, WriteLast, TellAll, BothLimits, LastLimit,
                                           StoreLast}
    /\ \A pr : Shape(O!Idle, pr)
<1>1. /\ O!Idle \in Calls /\ O!Idle.op = "idle" /\ O!Idle.touches = {} /\ O!Idle.todo = <<>>
      /\ \A k \in O!Keys : O!Idle.want[k] = Unset
  BY Unlike DEF O!Idle, Calls, Ops, Todos, Ends, Effs, Gots, O!NoMap
<1>2. <<>> \notin Syncs \cup Stores \cup {CreateAll, WriteLast, TellAll, BothLimits, LastLimit,
                                          StoreLast}
  BY Distinct DEF Syncs, Stores
<1> QED
  BY <1>1, <1>2 DEF Shape

LEMMA OptionsStart ==
    ASSUME O!Init
    PROVE  OptionsInv
<1>1. /\ proto \in {"direct", "bt"} /\ global = O!Config
      /\ limits = [d \in O!Limited |-> O!Config["limit"]]
      /\ task = Nil /\ drv = Nil /\ file = Nil /\ call = [p \in Procs |-> O!Idle]
      /\ asked = O!NoMap /\ frail = {} /\ tangled = {}
  BY DEF O!Init
<1>2. \A p \in Procs : call[p] = O!Idle
  BY <1>1
<1>3. \A k \in O!Keys : asked[k] = Unset
  BY <1>1 DEF O!NoMap
<1>4. \A d \in O!Limited : limits[d] = global["limit"]
  BY <1>1
<1>5. OptionTypes
  <2>1. O!Config["limit"] \in Set0
    BY Unlike DEF Set0, O!Config, O!GlobalKeys
  <2>2. limits \in [O!Limited -> Set0] /\ call \in [Procs -> Calls]
    BY <1>1, <2>1, IdleType
  <2> QED
    BY <1>1, <2>2, Unlike DEF OptionTypes
<1>6. Shapes /\ Built /\ Reads /\ Alone /\ Everywhere /\ OnTheWay
  <2>1. Shapes /\ Reads
    BY <1>2, IdleType DEF Shapes, Reads, Held
  <2>2. Built
    BY <1>1, <1>2, IdleType DEF Built, O!Others
  <2>3. Alone /\ Everywhere /\ OnTheWay
    BY <1>2, <1>3, IdleType DEF Alone, O!Busy, Everywhere, OnTheWay
  <2> QED
    BY <2>1, <2>2, <2>3
<1>7. Sole("tracker") /\ Sole("limit") /\ Trackers /\ Limits
  BY <1>1, <1>2, <1>4, IdleType DEF Sole, Trackers, Proper, Limits
<1> QED
  BY <1>5, <1>6, <1>7 DEF OptionsInv

LEMMA RestartKeepsOptions ==
    ASSUME OptionsInv, O!Restart
    PROVE  OptionsInv'
<1>0. OptionTypes /\ Built /\ Everywhere
  BY DEF OptionsInv
<1>1. /\ global' = O!Config /\ limits' = [d \in O!Limited |-> O!Config["limit"]]
      /\ call' = [p \in Procs |-> O!Idle] /\ tangled' = {} /\ UNCHANGED <<proto, file>>
      /\ file = Nil => task' = Nil /\ drv' = Nil /\ asked' = O!NoMap /\ frail' = {}
      /\ file # Nil =>
            /\ task' = O!Loaded
            /\ proto = "bt" => drv' = [options |-> Nil, local |-> Nil,
                                       torrent |-> O!Loaded.options["tracker"]]
            /\ proto # "bt" => drv' = [options |-> O!Loaded.options, local |-> O!Loaded.local,
                                       torrent |-> Unset]
            /\ UNCHANGED <<asked, frail>>
  BY DEF O!Restart
<1>2. \A p \in Procs : call'[p] = O!Idle
  BY <1>1
<1>3. ASSUME file # Nil
      PROVE  /\ file \in O!OptionMaps /\ file.options \in O!Maps
             /\ file.local \in O!Maps \cup {Nil}
             /\ O!Loaded \in O!OptionMaps /\ O!Loaded.options \in O!Maps
             /\ O!Loaded.local = file.local
             /\ file.local = Nil => O!Loaded.options = file.options
             /\ file.local # Nil => O!Loaded.options = O!Merge(O!Config, file.local)
  <2>1. file \in O!OptionMaps /\ file.options \in O!Maps
             /\ file.local \in O!Maps \cup {Nil}
    BY <1>0, <1>3, Unlike DEF OptionTypes
  <2> DEFINE o == IF file.local = Nil THEN file.options ELSE O!Merge(O!Config, file.local)
  <2>2. o \in O!Maps
    BY <2>1, MergeType, Unlike
  <2>3. O!Loaded = [file EXCEPT !.options = o]
    BY <2>1 DEF O!Loaded, O!OptionMaps
  <2>4. /\ file.local = Nil => o = file.options
        /\ file.local # Nil => o = O!Merge(O!Config, file.local)
    OBVIOUS
  <2> HIDE DEF o
  <2>5. O!Loaded \in O!OptionMaps /\ O!Loaded.options = o /\ O!Loaded.local = file.local
    BY <2>1, <2>2, <2>3 DEF O!OptionMaps
  <2> QED
    BY <2>1, <2>2, <2>4, <2>5
<1>4. ASSUME file # Nil
      PROVE  /\ task' = O!Loaded /\ task' \in O!OptionMaps /\ task' # Nil
             /\ drv' \in O!Copies /\ drv' # Nil
             /\ proto = "bt" => /\ drv'.options = Nil /\ drv'.local = Nil
                                /\ drv'.torrent = O!Loaded.options["tracker"]
             /\ proto # "bt" => drv'.options = O!Loaded.options /\ drv'.local = file.local
  <2>1. task' = O!Loaded /\ task' \in O!OptionMaps /\ task' # Nil
    BY <1>1, <1>3, <1>4, Unlike
  <2>2. CASE proto = "bt"
    <3>1. O!Loaded.options["tracker"] \in Set0 \cup {Unset}
      BY <1>3, <1>4 DEF O!Maps, Set0, O!Keys
    <3>2. /\ drv' \in O!Copies /\ drv'.options = Nil /\ drv'.local = Nil
          /\ drv'.torrent = O!Loaded.options["tracker"]
      BY <1>1, <1>4, <2>2, <3>1 DEF O!Copies, Set0
    <3> QED
      BY <2>1, <2>2, <3>2, Unlike
  <2>3. CASE proto # "bt"
    <3>1. drv' \in O!Copies /\ drv'.options = O!Loaded.options /\ drv'.local = file.local
      BY <1>1, <1>3, <1>4, <2>3 DEF O!Copies
    <3> QED
      BY <2>1, <2>3, <3>1, Unlike
  <2> QED
    BY <2>2, <2>3
<1>5. \A d \in O!Limited : limits'[d] = global'["limit"]
  BY <1>1
<1>6. OptionTypes'
  <2>1. O!Config["limit"] \in Set0
    BY Unlike DEF Set0, O!Config, O!GlobalKeys
  <2>2. limits' \in [O!Limited -> Set0] /\ call' \in [Procs -> Calls]
    BY <1>1, <2>1, IdleType
  <2>3. task' \in O!OptionMaps \cup {Nil} /\ drv' \in O!Copies \cup {Nil} /\ asked' \in O!Maps
    BY <1>0, <1>1, <1>4, Unlike DEF OptionTypes
  <2> QED
    BY <1>0, <1>1, <2>2, <2>3, Unlike DEF OptionTypes
<1>7. Shapes' /\ Reads'
  BY <1>2, IdleType DEF Shapes, Reads, Held
<1>8. Built'
  <2>1. \A p \in Procs : call'[p].todo = <<>> /\ call'[p].op # "add" /\ <<>> # CreateAll
    BY <1>2, IdleType
  <2>2. file = Nil => task' = Nil /\ drv' = Nil /\ file' = Nil
    BY <1>1
  <2>3. file # Nil /\ proto # "bt" => drv'.options # Nil
    BY <1>3, <1>4, Unlike
  <2> QED
    BY <1>1, <1>4, <2>1, <2>2, <2>3 DEF Built
<1>9. Alone'
  <2>1. \A p \in Procs : call'[p].op = "idle" /\ \A k \in O!Keys : call'[p].want[k] = Unset
    BY <1>2, IdleType
  <2> QED
    BY <2>1 DEF Alone, O!Busy
<1>10. Everywhere'
  <2>1. SUFFICES ASSUME NEW k \in O!Keys \ frail', asked'[k] # Unset
                 PROVE  /\ task' # Nil /\ file' # Nil
                        /\ InTask(k, asked[k])' /\ InDriver(k, asked[k])'
                        /\ InCopy(file, k, asked[k])'
                        /\ \A q \in Procs : InHand(call[q], k, asked[k])'
    BY DEF Everywhere
  <2>2. file # Nil /\ asked' = asked /\ k \in O!Keys \ frail
    BY <1>1, <2>1 DEF O!NoMap
  <2>3. InCopy(file, k, asked[k])
    BY <1>0, <2>1, <2>2 DEF Everywhere
  <2>4. InCopy(file, k, asked[k])'
    BY <1>1, <2>2, <2>3 DEF InCopy
  <2>5. O!Loaded.options[k] = asked[k]
    <3>1. CASE file.local = Nil
      BY <1>3, <2>2, <2>3, <3>1 DEF InCopy
    <3>2. CASE file.local # Nil
      <4>1. file.local \in O!Maps /\ file.local[k] = asked[k] /\ asked[k] # Unset
        BY <1>3, <2>1, <2>2, <2>3, <3>2 DEF InCopy
      <4>2. O!Config \in [O!GlobalKeys -> Set0] \cup O!Maps
        BY Unlike
      <4>3. O!Merge(O!Config, file.local)[k] =
               IF file.local[k] = Unset THEN O!Config[k] ELSE file.local[k]
        BY <4>1, <4>2, MergeType
      <4> QED
        BY <1>3, <2>2, <3>2, <4>1, <4>3
    <3> QED
      BY <3>1, <3>2
  <2>6. InTask(k, asked[k])'
    BY <1>1, <1>3, <1>4, <2>2, <2>3 DEF InTask, InCopy
  <2>7. InDriver(k, asked[k])'
    BY <1>1, <1>4, <2>2, <2>3, <2>5 DEF InDriver, InCopy
  <2>8. \A q \in Procs : InHand(call[q], k, asked[k])'
    BY <1>2, IdleType DEF InHand
  <2> QED
    BY <1>1, <1>4, <2>2, <2>4, <2>6, <2>7, <2>8
<1>11. OnTheWay'
  BY <1>2, IdleType DEF OnTheWay
<1>12. Sole("tracker")' /\ Sole("limit")'
  BY <1>2, IdleType DEF Sole
<1>13. Trackers'
  <2>1. task' # Nil => file # Nil
    BY <1>1
  <2>2. task' # Nil => Proper' = task'.options["tracker"]
    BY <1>1, <1>3, <1>4, <2>1 DEF Proper
  <2>3. \A p \in Procs : call'[p].todo \notin Syncs \cup {CreateAll}
    BY <1>2, IdleType
  <2> QED
    BY <1>1, <1>4, <2>1, <2>2, <2>3 DEF Trackers
<1>14. Limits'
  BY <1>2, <1>5, IdleType DEF Limits
<1> QED
  BY <1>6, <1>7, <1>8, <1>9, <1>10, <1>11, <1>12, <1>13, <1>14 DEF OptionsInv

LEMMA OptionsStep ==
    ASSUME OptionsInv, O!Next
    PROVE  OptionsInv'
<1>1. CASE O!Restart
  BY <1>1, RestartKeepsOptions
<1>2. ASSUME NEW p \in Procs, O!Step(p) PROVE OptionsInv'
  BY <1>2, AddKeepsOptions, ChangeOptionKeepsOptions, ChangeGlobalOptionKeepsOptions,
     QueryKeepsOptions, SaveSessionKeepsOptions,
     CreateKeepsOptions, TellDriverKeepsOptions, SyncTrackersKeepsOptions,
     SetDownloadLimitKeepsOptions, ReadKeepsOptions,
     StoreTaskKeepsOptions, WriteKeepsOptions, ReturnKeepsOptions
  DEF O!Step
<1> QED
  BY <1>1, <1>2 DEF O!Next

LEMMA OptionsStutter ==
    ASSUME OptionsInv, UNCHANGED optionVars
    PROVE  OptionsInv'
BY DEF optionVars, OptionsInv, OptionTypes, Shapes, Built, Reads, Alone, O!Busy, Everywhere,
       OnTheWay,
       Brought, InTask, InDriver, InHand, InCopy, Sole, Trackers, Proper, Limits

LEMMA OptionsGoal ==
    ASSUME OptionsInv
    PROVE  OptionsInEffect
<1>0. OptionTypes /\ Shapes /\ Built /\ Everywhere /\ Trackers /\ Limits
  BY DEF OptionsInv
<1>1. O!KeptInEffect
  <2>1. SUFFICES ASSUME NEW k \in O!Keys \ frail, asked[k] # Unset PROVE O!InEffect(k) = asked[k]
    BY DEF O!KeptInEffect
  <2>2. task # Nil /\ InTask(k, asked[k]) /\ InDriver(k, asked[k])
    BY <1>0, <2>1 DEF Everywhere
  <2>3. CASE proto = "direct"
    BY <2>2, <2>3 DEF O!InEffect, InDriver
  <2>4. CASE proto = "bt" /\ k = "tracker"
    BY <2>2, <2>4 DEF O!InEffect, InDriver
  <2>5. CASE proto = "bt" /\ k # "tracker"
    <3>1. task.local # Nil /\ task.local[k] = asked[k] /\ task.local \in O!Maps
      <4>1. task.local \in O!Maps \cup {Nil}
        BY <1>0, <2>2, Unlike DEF OptionTypes
      <4> QED
        BY <2>2, <2>5, <4>1 DEF InTask
    <3>2. O!Merge(global, task.local)[k] = asked[k]
      BY <1>0, <2>1, <3>1, MergeType DEF OptionTypes
    <3> QED
      BY <2>5, <3>1, <3>2 DEF O!InEffect
  <2> QED
    BY <1>0, <2>3, <2>4, <2>5 DEF OptionTypes
<1>2. O!TrackersFollow
  <2>1. SUFFICES ASSUME proto = "bt", task # Nil, O!Quiet("tracker")
                 PROVE  drv.torrent = Proper /\ task.options["tracker"] \in {drv.torrent, Unset}
    BY DEF O!TrackersFollow, Proper
  <2>2. \A p \in Procs : call[p].todo \notin Syncs
    BY <1>0, <2>1 DEF Shapes, Shape, O!Quiet
  <2> QED
    BY <1>0, <2>1, <2>2 DEF Trackers, O!Quiet
<1>3. O!LimitsAgree
  <2>1. SUFFICES ASSUME O!Quiet("limit"), NEW d \in O!Limited PROVE limits[d] = global["limit"]
    BY DEF O!LimitsAgree
  <2>2. \A p \in Procs : call[p].todo \notin {BothLimits, LastLimit}
    BY <1>0, <2>1 DEF Shapes, Shape, O!Quiet
  <2> QED
    BY <1>0, <2>1, <2>2 DEF Limits, O!Quiet
<1> QED
  BY <1>1, <1>2, <1>3 DEF OptionsInEffect, O!OptionsInEffect

\* What clients have set on a task, in a call that met no other change, is in effect; a torrent
\* announces to the trackers that its options ask for, merged with the global ones, and what is
\* reported for it is these or none, and the drivers have the limit that is reported, when no
\* two changes of them have met: for all goroutines and calls, and any number of restarts.
THEOREM OptionsHold == BothSpec => []OptionsInEffect
<1>1. ASSUME OptionsInv, BothNext PROVE OptionsInv'
  <2>1. CASE O!Next
    BY <1>1, <2>1, OptionsStep
  <2>2. CASE UNCHANGED optionVars
    BY <1>1, <2>2, OptionsStutter
  <2> QED
    BY <1>1, <2>1, <2>2 DEF BothNext
<1>2. ASSUME OptionsInv, UNCHANGED <<half, textVars, optionVars>> PROVE OptionsInv'
  BY <1>2, OptionsStutter
<1>3. BothInit => OptionsInv
  BY OptionsStart DEF BothInit
<1> QED
  BY <1>1, <1>2, <1>3, OptionsGoal, PTL DEF BothSpec

-----------------------------------------------------------------------------
(* TextSession: tasks and files. *)

\* A task with all that its driver needs to restore it.
Fields  == {"id", "gid", "uri", "meta", "status", "pauseOption"}
Full(t) == Fields \subseteq DOMAIN t /\ t.meta
AllFull(tasks) == \A t \in tasks : Full(t)

\* What is promised of the tasks of one set is there in the other; what is promised is there.
Covers(a, b)    == \A t \in a : \E h \in b : T!Promise(h) = T!Promise(t)
Found(ks, tasks) == \A k \in ks : \E t \in tasks : T!Promise(t) = k

FilesFit ==
    /\ main.kind \in {"none", "json", "text"} /\ side.kind \in {"none", "text"}
    /\ main.kind = "none" => main.tasks = {}
    /\ side.kind = "none" => side.tasks = {}
    /\ setup # "compat" => side.kind = "none"

\* A file in JSON has the tasks, each as it was or started.
Wrote(tasks) ==
    /\ T!Stored'.kind # "none"
    /\ main'.kind = "json" => AllFull(main'.tasks) /\ Covers(tasks, main'.tasks)

LEMMA FullTask ==
    ASSUME NEW t, Full(t)
    PROVE  t.meta /\ \A x : /\ Full(T!Now(t, x)) /\ T!Now(t, x).status = x
                            /\ T!Now(t, x).gid = t.gid /\ T!Now(t, x).uri = t.uri
<1>1. Fields \subseteq DOMAIN t /\ t.meta
  BY DEF Full
<1>2. ASSUME NEW x
      PROVE  /\ DOMAIN T!Now(t, x) = DOMAIN t /\ T!Now(t, x).status = x
             /\ T!Now(t, x).gid = t.gid /\ T!Now(t, x).uri = t.uri /\ T!Now(t, x).meta = t.meta
  BY <1>1 DEF Fields, T!Now
<1>3. ASSUME NEW x PROVE Full(T!Now(t, x))
  BY <1>1, <1>2 DEF Full
<1> QED
  BY <1>1, <1>2, <1>3

LEMMA FoundCovered ==
    ASSUME NEW ks, NEW a, NEW b, Found(ks, a), Covers(a, b) PROVE Found(ks, b)
BY DEF Found, Covers

LEMMA CoversSelf == \A a : Covers(a, a)
BY DEF Covers

LEMMA StartedCovers ==
    ASSUME NEW tasks, AllFull(tasks), NEW d \in SUBSET T!Waiting(tasks)
    PROVE  AllFull(T!Started(tasks, d)) /\ Covers(tasks, T!Started(tasks, d))
<1>1. \A t \in d : /\ t \in tasks /\ t.status = "waiting" /\ Full(T!Now(t, "active"))
                   /\ T!Promise(T!Now(t, "active")) = T!Promise(t)
  BY FullTask DEF AllFull, T!Waiting, T!Promise
<1>2. AllFull(T!Started(tasks, d))
  BY <1>1 DEF AllFull, T!Started
<1>3. ASSUME NEW t \in tasks PROVE \E h \in T!Started(tasks, d) : T!Promise(h) = T!Promise(t)
  <2>1. CASE t \in d
    <3>1. T!Now(t, "active") \in T!Started(tasks, d)
      BY <2>1 DEF T!Started
    <3> QED
      BY <1>1, <2>1, <3>1
  <2>2. CASE t \notin d
    BY <2>2 DEF T!Started
  <2> QED
    BY <2>1, <2>2
<1> QED
  BY <1>2, <1>3 DEF Covers

LEMMA SavedFits ==
    ASSUME FilesFit, NEW process, NEW tasks, T!SavedBy(process, tasks), UNCHANGED setup
    PROVE  /\ FilesFit' /\ T!Stored'.kind # "none"
           /\ main'.kind = "json" => main'.tasks = tasks
           /\ process = "migrate" => main'.kind = "json"
<1>1. /\ T!JsonFile(tasks).kind = "json" /\ T!JsonFile(tasks).tasks = tasks
      /\ \A lines : T!TextFile(lines).kind = "text"
  BY DEF T!JsonFile, T!TextFile
<1>2. /\ main'.kind \in {"json", "text"}
      /\ main'.kind = "json" => main'.tasks = tasks
      /\ process = "migrate" => main'.kind = "json"
  BY <1>1 DEF T!SavedBy
<1>3. side' = side \/ (side'.kind = "text" /\ setup = "compat")
  BY <1>1 DEF T!SavedBy
<1> QED
  BY <1>2, <1>3 DEF FilesFit, T!Stored

LEMMA SavedWrote ==
    ASSUME FilesFit, NEW process, NEW tasks, AllFull(tasks), T!SavedBy(process, tasks),
           UNCHANGED setup
    PROVE  Wrote(tasks)
BY SavedFits, CoversSelf DEF Wrote

LEMMA Refilled ==
    ASSUME FilesFit, NEW tasks, T!Refill(tasks), UNCHANGED setup
    PROVE  FilesFit' /\ (AllFull(tasks) => AllFull(held') /\ Covers(tasks, held') /\ Wrote(tasks))
<1>1. PICK s \in T!Picked(tasks) : \E d \in SUBSET s :
         held' = T!Started(tasks, d) /\ T!SavedBy("daemon", IF d = s THEN held' ELSE tasks)
  BY DEF T!Refill
<1>2. PICK d \in SUBSET s :
         held' = T!Started(tasks, d) /\ T!SavedBy("daemon", IF d = s THEN held' ELSE tasks)
  BY <1>1
<1>3. d \in SUBSET T!Waiting(tasks)
  BY <1>2 DEF T!Picked
<1>4. FilesFit'
  BY <1>2, SavedFits
<1>5. ASSUME AllFull(tasks) PROVE AllFull(held') /\ Covers(tasks, held') /\ Wrote(tasks)
  <2>1. AllFull(held') /\ Covers(tasks, held')
    BY <1>2, <1>3, <1>5, StartedCovers
  <2>2. CASE d = s
    <3>1. T!SavedBy("daemon", held')
      BY <1>2, <2>2
    <3>2. Wrote(held')
      BY <2>1, <3>1, SavedWrote
    <3> QED
      BY <2>1, <3>2 DEF Wrote, Covers
  <2>3. CASE d # s
    BY <1>2, <1>5, <2>1, <2>3, SavedWrote
  <2> QED
    BY <2>1, <2>2, <2>3
<1> QED
  BY <1>4, <1>5

-----------------------------------------------------------------------------
(* TextSession: the invariant. *)

Running == up \in {"daemon", "migrate"}

\* As long as no session was read from text: tasks are as their drivers need them, in memory
\* and in JSON, and what is promised is in both.
Safe ==
    /\ AllFull(held) /\ (Running => Found(kept, held))
    /\ main.kind = "json" => AllFull(main.tasks) /\ Found(kept, main.tasks)
    /\ T!Stored.kind = "none" => kept = {}
    /\ setup # "json" => \A k \in kept : k.gid \in Gids

\* A task is what an entry of a migrated file asked for.
Wanted == [uri : Uris, gid : Gids, paused : BOOLEAN, bad : BOOLEAN]
Meets(t, r) ==
    /\ Fields \subseteq DOMAIN t /\ t.gid = r.gid /\ t.gid \in Gids /\ t.uri = r.uri
    /\ (t.status = "paused") = r.paused

\* A migration under way holds what it has been through; one that is done has saved it.
Migrates ==
    job.kind = "migrate" =>
        /\ up = "migrate" /\ job.list \in Seq(Wanted) /\ job.next \in Nat \ {0}
        /\ \A i \in DOMAIN job.list \ job.failed :
               i < job.next => \E t \in held : Meets(t, job.list[i])
HasMigrated == job.kind = "done" => up = "down" /\ T!AllMigrated

\* What is done by a process is done by one that runs.
JobFields == {"kind", "list", "next", "failed"}
JobFits   == JobFields \subseteq DOMAIN job /\ (job.kind \in {"none", "done"} \/ Running)

TextInv ==
    /\ viaText \in BOOLEAN /\ FilesFit /\ JobFits
    /\ up = "failed" => viaText
    /\ viaText \/ Safe
    /\ Migrates /\ HasMigrated

\* What holds after a step that has promised kept' of the tasks it has saved.
LEMMA SafeAgain ==
    ASSUME NEW tasks, Found(kept', tasks), Covers(tasks, held'), AllFull(held'), Wrote(tasks),
           setup' # "json" => \A k \in kept' : k.gid \in Gids
    PROVE  Safe'
<1>1. Found(kept', held')
  BY FoundCovered
<1>2. main'.kind = "json" => AllFull(main'.tasks) /\ Found(kept', main'.tasks)
  BY FoundCovered DEF Wrote
<1>3. T!Stored'.kind # "none"
  BY DEF Wrote
<1> QED
  BY <1>1, <1>2, <1>3 DEF Safe

\* The promises after a call that has made new out of t, and after one that has added new.
LEMMA Promised ==
    ASSUME Safe, NEW t \in held, NEW new, Full(new), new.gid = t.gid, Running,
           kept' = T!Vow(held, t, new)
    PROVE  /\ Found(kept', (held \ {t}) \cup {new})
           /\ setup # "json" => \A k \in kept' : k.gid \in Gids
<1> DEFINE clash ==
               /\ setup # "json"
               /\ \/ new.gid \notin Gids
                  \/ \E h \in held : h.id # new.id /\ T!GidOf(h) = T!GidOf(new)
<1>1. \A k \in kept : \E h \in held : T!Promise(h) = k
  BY DEF Safe, Found
<1>2. \A h : T!Promise(h).gid = h.gid
  BY DEF T!Promise
<1>3. \A h : h.gid \in Gids => T!GidOf(h) = h.gid
  BY DEF T!GidOf
<1>4. CASE clash
  <2>1. kept' = {k \in kept : k.gid # T!GidOf(new)}
    BY <1>4 DEF T!Vow
  <2>2. \A k \in kept : k.gid \in Gids
    BY <1>4 DEF Safe
  <2>3. ASSUME NEW k \in kept' PROVE \E h \in held \ {t} : T!Promise(h) = k
    <3>1. k \in kept /\ k.gid # T!GidOf(new) /\ k.gid \in Gids
      BY <2>1, <2>2, <2>3
    <3>2. PICK h \in held : T!Promise(h) = k
      BY <1>1, <3>1
    <3>3. h # t
      BY <1>2, <1>3, <3>1, <3>2
    <3> QED
      BY <3>2, <3>3
  <2> QED
    BY <2>1, <2>2, <2>3 DEF Found
<1>5. CASE ~clash
  <2>1. kept' = (kept \ {T!Promise(t)}) \cup {T!Promise(new)}
    BY <1>5 DEF T!Vow
  <2>2. ASSUME NEW k \in kept' PROVE \E h \in (held \ {t}) \cup {new} : T!Promise(h) = k
    BY <1>1, <2>1, <2>2
  <2>3. setup # "json" => T!Promise(new).gid \in Gids /\ \A k \in kept : k.gid \in Gids
    BY <1>2, <1>5 DEF Safe
  <2> QED
    BY <2>1, <2>2, <2>3 DEF Found
<1> QED
  BY <1>4, <1>5

LEMMA PromisedNew ==
    ASSUME Safe, NEW new, Running, kept' = T!Vow(held, new, new)
    PROVE  /\ Found(kept', held \cup {new})
           /\ setup # "json" => \A k \in kept' : k.gid \in Gids
<1>1. \A k \in kept : \E h \in held : T!Promise(h) = k
  BY DEF Safe, Found
<1>2. T!Promise(new).gid = new.gid
  BY DEF T!Promise
<1>3. \/ kept' = {k \in kept : k.gid # T!GidOf(new)}
      \/ /\ kept' = (kept \ {T!Promise(new)}) \cup {T!Promise(new)}
         /\ setup # "json" => new.gid \in Gids
  BY DEF T!Vow
<1>4. \A k \in kept' : \E h \in held \cup {new} : T!Promise(h) = k
  BY <1>1, <1>3
<1>5. setup # "json" => \A k \in kept' : k.gid \in Gids
  BY <1>2, <1>3 DEF Safe
<1> QED
  BY <1>4, <1>5 DEF Found

-----------------------------------------------------------------------------
(* TextSession: starting and stopping. *)

LEMMA LoadKeepsText ==
    ASSUME TextInv, NEW process \in {"daemon", "migrate"}, T!LoadSession(process)
    PROVE  /\ FilesFit' /\ viaText' \in BOOLEAN /\ up' \in {"down", "failed", process}
           /\ up' = "failed" => viaText'
           /\ viaText' \/ Safe'
<1>0. FilesFit /\ setup' = setup /\ kept' = kept
  BY DEF TextInv, T!LoadSession
<1>a. /\ viaText \in BOOLEAN
      /\ viaText \/ Safe
      /\ viaText' = (viaText \/ T!Stored.kind = "text")
  BY DEF TextInv, T!LoadSession
<1> DEFINE tasks == T!Contents(T!Stored).tasks
<1>1. PICK s \in T!Picked(tasks) :
         IF ~T!Contents(T!Stored).ok \/ ~T!Restorable(tasks) \/ \E t \in s : ~T!Known(t)
         THEN /\ up' = IF process = "migrate" THEN "down" ELSE "failed"
              /\ UNCHANGED <<held, main, side>>
         ELSE /\ up' = process
              /\ held' = T!Started(tasks, s)
              /\ IF s = {} THEN UNCHANGED <<main, side>> ELSE T!SavedBy(process, held')
  BY DEF T!LoadSession
<1>2. viaText' \in BOOLEAN /\ up' \in {"down", "failed", process}
  BY <1>a, <1>1
<1>3. FilesFit'
  <2>1. CASE UNCHANGED <<main, side>>
    BY <1>0, <2>1 DEF FilesFit
  <2>2. CASE T!SavedBy(process, held')
    BY <1>0, <2>2, SavedFits
  <2> QED
    BY <1>1, <2>1, <2>2
<1>4. ASSUME ~viaText' PROVE up' # "failed" /\ Safe'
  <2>1. Safe /\ T!Stored.kind # "text"
    BY <1>a, <1>4
  <2>2. T!Contents(T!Stored).ok /\ tasks = T!Stored.tasks
    BY <2>1 DEF T!Contents
  <2>3. AllFull(tasks) /\ Found(kept, tasks)
    <3>1. CASE T!Stored.kind = "none"
      <4>1. tasks = {} /\ kept = {}
        BY <1>0, <2>1, <2>2, <3>1 DEF T!Stored, FilesFit, Safe
      <4> QED
        BY <4>1 DEF AllFull, Found
    <3>2. CASE T!Stored.kind # "none"
      <4>1. T!Stored = main /\ main.kind = "json"
        BY <1>0, <2>1, <3>2 DEF T!Stored, FilesFit
      <4> QED
        BY <2>1, <2>2, <4>1 DEF Safe
    <3> QED
      BY <3>1, <3>2
  <2>4. s \in SUBSET T!Waiting(tasks) /\ \A t \in s : t \in tasks
    BY DEF T!Picked, T!Waiting
  <2> HIDE DEF tasks
  <2>5. \A t \in tasks : t.meta
    BY <2>3 DEF AllFull, Full
  <2>6. T!Restorable(tasks) /\ \A t \in s : T!Known(t)
    BY <2>4, <2>5 DEF T!Restorable, T!Known
  <2>7. /\ up' = process /\ held' = T!Started(tasks, s)
        /\ IF s = {} THEN UNCHANGED <<main, side>> ELSE T!SavedBy(process, held')
    BY <1>1, <2>2, <2>6
  <2>8. AllFull(held') /\ Covers(tasks, held')
    BY <2>3, <2>4, <2>7, StartedCovers
  <2>9. Found(kept', held')
    BY <1>0, <2>3, <2>8, FoundCovered
  <2>10. CASE s = {}
    <3>1. UNCHANGED <<main, side>> /\ T!Stored' = T!Stored
      BY <1>0, <2>7, <2>10 DEF T!Stored
    <3> QED
      BY <1>0, <2>1, <2>7, <2>8, <2>9, <3>1 DEF Safe
  <2>11. CASE s # {}
    <3>1. Wrote(held') /\ Covers(held', held')
      BY <1>0, <2>7, <2>8, <2>11, SavedWrote, CoversSelf
    <3>2. setup' # "json" => \A k \in kept' : k.gid \in Gids
      BY <1>0, <2>1 DEF Safe
    <3> QED
      BY <2>7, <2>8, <2>9, <3>1, <3>2, SafeAgain
  <2> QED
    BY <2>7, <2>10, <2>11
<1> QED
  BY <1>2, <1>3, <1>4

LEMMA JobFacts ==
    /\ T!NoJob.kind = "none" /\ JobFields \subseteq DOMAIN T!NoJob
    /\ \A k, list : /\ JobFields \subseteq DOMAIN T!Job(k, list)
                       /\ T!Job(k, list).kind = k /\ T!Job(k, list).list = list
                       /\ T!Job(k, list).next = 1 /\ T!Job(k, list).failed = {}
BY DEF T!NoJob, T!Job, JobFields

LEMMA NothingMigrates == ASSUME job'.kind \notin {"migrate", "done"} PROVE Migrates' /\ HasMigrated'
BY DEF Migrates, HasMigrated

LEMMA StartKeepsText == ASSUME TextInv, T!Start PROVE TextInv'
<1>1. T!LoadSession("daemon") /\ job'.kind \in {"startup", "none"} /\ JobFits'
  BY JobFacts DEF T!Start, JobFits, Running
<1> QED
  BY <1>1, LoadKeepsText, NothingMigrates DEF TextInv

LEMMA MigratedType ==
    ASSUME NEW lines \in Foreign PROVE T!Migrated(T!Parse(lines).entries) \in Seq(Wanted)
<1> DEFINE entries == T!Parse(lines).entries
           Ask(i) == T!Request(entries[i].uri, T!GidOf(entries[i]), entries[i].paused,
                             Kind[entries[i].uri] = "other")
<1>1. entries \in Seq(T!Entries) /\ HashGid \in [Uris -> Gids]
  BY TextAssumed DEF T!TextAssumption
<1> HIDE DEF entries
<1>2. \A i \in 1..Len(entries) : entries[i] \in T!Entries
  BY <1>1
<1>3. \A i \in 1..Len(entries) : entries[i].uri \in Uris /\ entries[i].paused \in BOOLEAN
  BY <1>2 DEF T!Entries
<1>4. \A i \in 1..Len(entries) : T!GidOf(entries[i]) \in Gids
  BY <1>1, <1>3 DEF T!GidOf
<1>5. \A i \in 1..Len(entries) : Ask(i) \in Wanted
  BY <1>3, <1>4 DEF T!Request, Wanted
<1>6. Len(entries) \in Nat /\ DOMAIN entries = 1..Len(entries)
  BY <1>1
<1> HIDE DEF Ask
<1>7. [i \in 1..Len(entries) |-> Ask(i)] \in Seq(Wanted)
  BY <1>5, <1>6
<1>8. T!Migrated(entries) = [i \in 1..Len(entries) |-> Ask(i)]
  BY <1>6 DEF T!Migrated, Ask
<1> QED
  BY <1>7, <1>8 DEF entries

LEMMA MigrateKeepsText == ASSUME TextInv, T!Migrate PROVE TextInv'
<1>1. PICK lines \in Foreign :
         /\ T!LoadSession("migrate")
         /\ job' = IF up' = "migrate" THEN T!Job("migrate", T!Migrated(T!Parse(lines).entries))
                   ELSE T!NoJob
  BY DEF T!Migrate
<1>2. CASE up' # "migrate"
  <2>1. job'.kind = "none" /\ JobFits'
    BY <1>1, <1>2, JobFacts DEF JobFits
  <2> QED
    BY <1>1, <2>1, LoadKeepsText, NothingMigrates DEF TextInv
<1>3. CASE up' = "migrate"
  <2>1. /\ job'.kind = "migrate" /\ job'.list = T!Migrated(T!Parse(lines).entries) /\ job'.next = 1
        /\ JobFits'
    BY <1>1, <1>3, JobFacts DEF JobFits, Running
  <2>2. job'.list \in Seq(Wanted) /\ \A i \in DOMAIN job'.list : ~(i < 1)
    BY <2>1, MigratedType
  <2>3. Migrates' /\ HasMigrated'
    BY <1>3, <2>1, <2>2 DEF Migrates, HasMigrated
  <2> QED
    BY <1>1, <2>1, <2>3, LoadKeepsText DEF TextInv
<1> QED
  BY <1>2, <1>3

LEMMA DieKeepsText == ASSUME TextInv, T!Die PROVE TextInv'
<1>1. /\ up' = "down" /\ held' = {} /\ job' = T!NoJob
      /\ UNCHANGED <<setup, main, side, kept, viaText>> /\ T!Stored' = T!Stored
  BY DEF T!Die, T!Stored
<1>2. Migrates' /\ HasMigrated' /\ JobFits'
  BY <1>1, JobFacts, NothingMigrates DEF JobFits
<1>3. Safe => Safe'
  BY <1>1 DEF Safe, AllFull, Running
<1>4. FilesFit'
  BY <1>1 DEF TextInv, FilesFit
<1> QED
  BY <1>1, <1>2, <1>3, <1>4 DEF TextInv

LEMMA LoseMainKeepsText == ASSUME TextInv, T!LoseMain PROVE TextInv'
<1>1. /\ up' = "down" /\ main' = T!NoFile /\ job' = T!NoJob
      /\ UNCHANGED <<setup, held, side, viaText>>
      /\ kept' = kept \/ kept' = {}
      /\ side.kind # "text" => kept' = {}
  BY DEF T!LoseMain
<1>2. Migrates' /\ HasMigrated' /\ JobFits'
  BY <1>1, JobFacts, NothingMigrates DEF JobFits
<1>3. T!NoFile.kind = "none" /\ T!NoFile.tasks = {}
  BY DEF T!NoFile
<1>4. FilesFit'
  BY <1>1, <1>3 DEF TextInv, FilesFit
<1>5. T!Stored'.kind = "none" => kept' = {}
  BY <1>1, <1>3 DEF TextInv, FilesFit, T!Stored
<1>6. Safe => Safe'
  BY <1>1, <1>3, <1>5 DEF Safe, Running
<1> QED
  BY <1>1, <1>2, <1>4, <1>6 DEF TextInv

LEMMA ImportKeepsText == ASSUME TextInv, T!ImportSession PROVE TextInv'
<1>1. /\ job'.kind = "import" /\ UNCHANGED <<setup, up, held, main, side, kept, viaText>>
      /\ T!Stored' = T!Stored /\ JobFits'
  BY JobFacts DEF T!ImportSession, T!Call, T!Serving, T!Stored, JobFits, Running
<1>2. Migrates' /\ HasMigrated'
  BY <1>1, NothingMigrates
<1>3. (Safe => Safe') /\ FilesFit'
  BY <1>1 DEF Safe, Running, TextInv, FilesFit
<1> QED
  BY <1>1, <1>2, <1>3 DEF TextInv

-----------------------------------------------------------------------------
(* TextSession: what the manager does with tasks. *)

LEMMA EnterKeeps ==
    ASSUME TextInv, Running, NEW r, T!Enter(r)
    PROVE  /\ FilesFit' /\ (viaText \/ Safe') /\ UNCHANGED <<setup, up, viaText>>
           /\ \E t : /\ held' = held \cup {t} /\ Fields \subseteq DOMAIN t
                     /\ r.gid # Unset => t.gid = r.gid
                     /\ t.uri = r.uri
                     /\ r.paused \in BOOLEAN => (t.status = "paused") = r.paused
<1> DEFINE id == T!Fresh(Ids, {t.id : t \in held})
           gid == IF r.gid = Unset THEN T!Fresh(Gids, {h.gid : h \in held}) ELSE r.gid
           status == IF r.paused THEN "paused" ELSE IF T!Free(held) > 0 THEN "active" ELSE "waiting"
           t == [id |-> id, gid |-> gid, uri |-> r.uri, meta |-> TRUE, pauseOption |-> r.paused,
                 status |-> status]
<1>1. held' = held \cup {t} /\ T!SavedBy(up, held') /\ kept' = T!Vow(held, t, t)
  BY DEF T!Enter
<1>2. UNCHANGED <<setup, up, viaText>>
  BY DEF T!Enter
<1>3. /\ Fields \subseteq DOMAIN t /\ t.meta /\ t.gid = gid /\ t.uri = r.uri /\ t.status = status
  BY DEF Fields
<1> HIDE DEF t, id
<1>4. FilesFit'
  BY <1>1, <1>2, SavedFits DEF TextInv
<1>5. ASSUME Safe PROVE Safe'
  <2>1. Full(t)
    BY <1>3 DEF Full
  <2>2. AllFull(held')
    BY <1>1, <1>5, <2>1 DEF Safe, AllFull
  <2>3. Wrote(held')
    BY <1>1, <1>2, <2>2, SavedWrote DEF TextInv
  <2>4. Found(kept', held') /\ (setup' # "json" => \A k \in kept' : k.gid \in Gids)
    BY <1>1, <1>2, <1>5, PromisedNew
  <2> QED
    BY <2>2, <2>3, <2>4, CoversSelf, SafeAgain
<1>6. viaText \/ Safe'
  BY <1>5 DEF TextInv
<1>7. r.paused \in BOOLEAN => (t.status = "paused") = r.paused
  BY <1>3
<1> QED
  BY <1>1, <1>2, <1>3, <1>4, <1>6, <1>7

LEMMA AddKeepsText == ASSUME TextInv, NEW u, T!Add(u) PROVE TextInv'
<1>1. up = "daemon" /\ job' = job /\ Running
  BY DEF T!Add, T!Call, T!Serving, Running
<1>2. T!Enter(T!Request(u, Unset, FALSE, FALSE))
  BY DEF T!Add
<1>3. FilesFit' /\ (viaText \/ Safe') /\ UNCHANGED <<setup, up, viaText>>
  BY <1>1, <1>2, EnterKeeps
<1>4. job'.kind \notin {"migrate", "done"} /\ JobFits'
  BY <1>1, <1>3 DEF TextInv, Migrates, HasMigrated, JobFits, Running
<1> QED
  BY <1>1, <1>3, <1>4, NothingMigrates DEF TextInv

\* Another task is added, or none: what the entries have met is still there.
LEMMA MigratesOn ==
    ASSUME Migrates, held \subseteq held', up' = up, job'.kind = job.kind, job'.list = job.list,
           job'.next = job.next + 1, job.failed \subseteq job'.failed,
           job.kind = "migrate" /\ job.next \in DOMAIN job.list \ job'.failed =>
               \E t \in held' : Meets(t, job.list[job.next])
    PROVE  Migrates'
<1>1. SUFFICES ASSUME job.kind = "migrate"
               PROVE  /\ up' = "migrate" /\ job'.list \in Seq(Wanted) /\ job'.next \in Nat \ {0}
                      /\ \A i \in DOMAIN job'.list \ job'.failed :
                            i < job'.next => \E t \in held' : Meets(t, job'.list[i])
  BY DEF Migrates
<1>2. /\ up = "migrate" /\ job.list \in Seq(Wanted) /\ job.next \in Nat \ {0}
      /\ \A i \in DOMAIN job.list \ job.failed :
            i < job.next => \E t \in held : Meets(t, job.list[i])
  BY <1>1 DEF Migrates
<1>3. ASSUME NEW i \in DOMAIN job.list \ job'.failed, i < job'.next
      PROVE  \E t \in held' : Meets(t, job.list[i])
  <2>1. i \in Nat /\ i < job.next + 1
    BY <1>2, <1>3
  <2>2. CASE i = job.next
    BY <1>1, <1>3, <2>2
  <2>3. CASE i # job.next
    <3>1. i < job.next /\ i \in DOMAIN job.list \ job.failed
      BY <1>2, <1>3, <2>1, <2>3
    <3> QED
      BY <1>2, <3>1
  <2> QED
    BY <2>2, <2>3
<1> QED
  BY <1>2, <1>3

LEMMA JobDoesKeepsText == ASSUME TextInv, T!JobDoes PROVE TextInv'
<1>0. JobFields \subseteq DOMAIN job /\ Running
  BY DEF TextInv, JobFits, T!JobDoes, T!Working
<1>1. /\ job.kind \notin {"none", "done"} /\ job.next <= Len(job.list)
      /\ T!Enter(job.list[job.next]) /\ job' = [job EXCEPT !.next = @ + 1]
  BY DEF T!JobDoes, T!Working
<1>2. FilesFit' /\ (viaText \/ Safe') /\ UNCHANGED <<setup, up, viaText>>
  BY <1>0, <1>1, EnterKeeps
<1>3. /\ JobFields \subseteq DOMAIN job' /\ job'.kind = job.kind /\ job'.list = job.list
      /\ job'.next = job.next + 1 /\ job'.failed = job.failed
  BY <1>0, <1>1 DEF JobFields
<1>4. held \subseteq held'
  BY DEF T!JobDoes, T!Enter
<1>5. ASSUME job.kind = "migrate" PROVE \E t \in held' : Meets(t, job.list[job.next])
  <2>1. /\ job.list \in Seq(Wanted) /\ job.next \in Nat \ {0}
    BY <1>5 DEF TextInv, Migrates
  <2>2. job.list[job.next] \in Wanted
    BY <1>1, <2>1
  <2>3. /\ job.list[job.next].gid \in Gids /\ job.list[job.next].gid # Unset
        /\ job.list[job.next].paused \in BOOLEAN
    BY <2>2, TextAssumed DEF Wanted, T!TextAssumption
  <2>4. PICK t : /\ held' = held \cup {t} /\ Fields \subseteq DOMAIN t
                 /\ t.gid = job.list[job.next].gid /\ t.uri = job.list[job.next].uri
                 /\ (t.status = "paused") = job.list[job.next].paused
    BY <1>0, <1>1, <2>3, EnterKeeps
  <2> QED
    BY <2>3, <2>4 DEF Meets
<1>6. Migrates'
  BY <1>2, <1>3, <1>4, <1>5, MigratesOn DEF TextInv
<1>7. HasMigrated' /\ JobFits'
  BY <1>0, <1>1, <1>2, <1>3 DEF HasMigrated, JobFits, Running
<1> QED
  BY <1>2, <1>6, <1>7 DEF TextInv

\* Nothing but the import changes.
LEMMA SameTasks ==
    ASSUME TextInv, UNCHANGED <<setup, up, held, main, side, kept, viaText>>
    PROVE  FilesFit' /\ (viaText \/ Safe') /\ Running' = Running
<1>1. T!Stored' = T!Stored /\ Running' = Running
  BY DEF T!Stored, Running
<1>2. Safe => Safe'
  BY <1>1 DEF Safe
<1>3. FilesFit'
  BY DEF TextInv, FilesFit
<1> QED
  BY <1>1, <1>2, <1>3 DEF TextInv

LEMMA JobFailsKeepsText == ASSUME TextInv, T!JobFails PROVE TextInv'
<1>0. /\ JobFields \subseteq DOMAIN job /\ Running /\ job.kind \notin {"none", "done"}
      /\ UNCHANGED <<setup, up, held, main, side, kept, viaText>>
  BY DEF TextInv, JobFits, T!JobFails, T!Working
<1>1. FilesFit' /\ (viaText \/ Safe') /\ Running'
  BY <1>0, SameTasks
<1>2. CASE job.kind = "import"
  <2>1. job' = T!NoJob
    BY <1>2 DEF T!JobFails
  <2>2. Migrates' /\ HasMigrated' /\ JobFits'
    BY <2>1, JobFacts, NothingMigrates DEF JobFits
  <2> QED
    BY <1>0, <1>1, <2>2 DEF TextInv
<1>3. CASE job.kind # "import"
  <2>1. job' = [job EXCEPT !.next = @ + 1, !.failed = @ \cup {job.next}]
    BY <1>3 DEF T!JobFails
  <2>2. /\ JobFields \subseteq DOMAIN job' /\ job'.kind = job.kind /\ job'.list = job.list
        /\ job'.next = job.next + 1 /\ job'.failed = job.failed \cup {job.next}
    BY <1>0, <2>1 DEF JobFields
  <2>3. Migrates'
    BY <1>0, <2>2, MigratesOn DEF TextInv
  <2>4. HasMigrated' /\ JobFits'
    BY <1>0, <1>1, <2>2 DEF HasMigrated, JobFits
  <2> QED
    BY <1>0, <1>1, <2>3, <2>4 DEF TextInv
<1> QED
  BY <1>2, <1>3

LEMMA JobEndsKeepsText == ASSUME TextInv, T!JobEnds PROVE TextInv'
<1>0. /\ JobFields \subseteq DOMAIN job /\ job.kind \notin {"none", "done"}
      /\ ~(job.next <= Len(job.list)) /\ UNCHANGED <<setup, kept, viaText>>
  BY DEF TextInv, JobFits, T!JobEnds, T!Working
<1>1. CASE job.kind = "migrate"
  <2>1. /\ T!SavedBy("migrate", held) /\ up' = "down" /\ held' = {}
        /\ job' = [job EXCEPT !.kind = "done"]
    BY <1>1 DEF T!JobEnds
  <2>2. /\ JobFields \subseteq DOMAIN job' /\ job'.kind = "done" /\ job'.list = job.list
        /\ job'.failed = job.failed
    BY <1>0, <2>1 DEF JobFields
  <2>3. FilesFit' /\ main'.kind = "json" /\ main'.tasks = held /\ T!Stored'.kind # "none"
    BY <1>0, <2>1, SavedFits DEF TextInv
  <2>4. ASSUME NEW i \in DOMAIN job.list \ job.failed PROVE \E t \in held : Meets(t, job.list[i])
    <3>1. /\ job.list \in Seq(Wanted) /\ job.next \in Nat
          /\ i < job.next => \E t \in held : Meets(t, job.list[i])
      BY <1>1 DEF TextInv, Migrates
    <3>2. i \in Nat /\ i <= Len(job.list) /\ Len(job.list) \in Nat
      BY <3>1
    <3> QED
      BY <1>0, <3>1, <3>2
  <2>5. T!AllMigrated'
    BY <2>2, <2>3, <2>4 DEF T!AllMigrated, Meets
  <2>6. Safe => Safe'
    <3>1. up = "migrate"
      BY <1>1 DEF TextInv, Migrates
    <3> QED
      BY <1>0, <2>1, <2>3, <3>1 DEF Safe, Running, AllFull
  <2> QED
    BY <1>0, <2>1, <2>2, <2>3, <2>5, <2>6 DEF TextInv, Migrates, HasMigrated, JobFits
<1>2. CASE job.kind # "migrate"
  <2>1. job' = T!NoJob /\ UNCHANGED <<up, held, main, side>>
    BY <1>2 DEF T!JobEnds
  <2>2. Migrates' /\ HasMigrated' /\ JobFits'
    BY <2>1, JobFacts, NothingMigrates DEF JobFits
  <2> QED
    BY <1>0, <2>1, <2>2, SameTasks DEF TextInv
<1> QED
  BY <1>1, <1>2

-----------------------------------------------------------------------------
(* TextSession: calls on tasks, and ends of downloads. *)

\* A call leaves the import as it is, and a migration serves none.
LEMMA CallKeepsJob ==
    ASSUME TextInv, T!Call, UNCHANGED <<up, job>>
    PROVE  Running /\ Migrates' /\ HasMigrated' /\ JobFits'
<1>1. up = "daemon" /\ Running /\ Running'
  BY DEF T!Call, T!Serving, Running
<1>2. job'.kind \notin {"migrate", "done"}
  BY <1>1 DEF TextInv, Migrates, HasMigrated
<1> QED
  BY <1>1, <1>2, NothingMigrates DEF TextInv, JobFits

\* A task is held as it was, but for its status.
LEMMA Replaced ==
    ASSUME AllFull(held), NEW t \in held, NEW status
    PROVE  /\ Full(T!Now(t, status)) /\ T!Now(t, status).gid = t.gid
           /\ AllFull((held \ {t}) \cup {T!Now(t, status)}) /\ AllFull(held \ {t})
BY FullTask DEF AllFull

LEMMA PauseKeepsText == ASSUME TextInv, NEW t \in held, T!Pause(t) PROVE TextInv'
<1> DEFINE tasks == (held \ {t}) \cup {T!Now(t, "paused")}
<1>1. /\ T!Call /\ T!Refill(tasks) /\ kept' = T!Vow(held, t, T!Now(t, "paused"))
      /\ UNCHANGED <<setup, up, job, viaText>>
  BY DEF T!Pause
<1>2. Running /\ Migrates' /\ HasMigrated' /\ JobFits'
  BY <1>1, CallKeepsJob
<1>3. FilesFit' /\ (AllFull(tasks) => AllFull(held') /\ Covers(tasks, held') /\ Wrote(tasks))
  BY <1>1, Refilled DEF TextInv
<1>4. ASSUME Safe PROVE Safe'
  <2>1. Full(T!Now(t, "paused")) /\ T!Now(t, "paused").gid = t.gid /\ AllFull(tasks)
    BY <1>4, Replaced DEF Safe
  <2>2. Found(kept', tasks) /\ (setup' # "json" => \A k \in kept' : k.gid \in Gids)
    BY <1>1, <1>2, <1>4, <2>1, Promised
  <2> QED
    BY <1>3, <2>1, <2>2, SafeAgain
<1> QED
  BY <1>1, <1>2, <1>3, <1>4 DEF TextInv

LEMMA UnpauseKeepsText == ASSUME TextInv, NEW t \in held, T!Unpause(t) PROVE TextInv'
<1> DEFINE tasks == (held \ {t}) \cup {T!Now(t, "active")}
<1>1. /\ T!Call /\ held' = tasks /\ T!SavedBy("daemon", tasks)
      /\ kept' = T!Vow(held, t, T!Now(t, "active")) /\ UNCHANGED <<setup, up, job, viaText>>
  BY DEF T!Unpause
<1>2. Running /\ Migrates' /\ HasMigrated' /\ JobFits'
  BY <1>1, CallKeepsJob
<1>3. FilesFit'
  BY <1>1, SavedFits DEF TextInv
<1>4. ASSUME Safe PROVE Safe'
  <2>1. Full(T!Now(t, "active")) /\ T!Now(t, "active").gid = t.gid /\ AllFull(tasks)
    BY <1>4, Replaced DEF Safe
  <2>2. Found(kept', tasks) /\ (setup' # "json" => \A k \in kept' : k.gid \in Gids)
    BY <1>1, <1>2, <1>4, <2>1, Promised
  <2>3. Wrote(tasks) /\ Covers(tasks, held')
    BY <1>1, <2>1, SavedWrote, CoversSelf DEF TextInv
  <2> QED
    BY <1>1, <2>1, <2>2, <2>3, SafeAgain
<1> QED
  BY <1>1, <1>2, <1>3, <1>4 DEF TextInv

\* What is no longer promised may go.
LEMMA Dropped ==
    ASSUME Safe, NEW t \in held, Running, kept' = kept \ {T!Promise(t)}
    PROVE  /\ Found(kept', held \ {t})
           /\ setup # "json" => \A k \in kept' : k.gid \in Gids
BY DEF Safe, Found

LEMMA RemoveTaskKeepsText == ASSUME TextInv, NEW t \in held, T!RemoveTask(t) PROVE TextInv'
<1> DEFINE tasks == held \ {t}
<1>1. /\ T!Call /\ T!Refill(tasks) /\ kept' = kept \ {T!Promise(t)}
      /\ UNCHANGED <<setup, up, job, viaText>>
  BY DEF T!RemoveTask
<1>2. Running /\ Migrates' /\ HasMigrated' /\ JobFits'
  BY <1>1, CallKeepsJob
<1>3. FilesFit' /\ (AllFull(tasks) => AllFull(held') /\ Covers(tasks, held') /\ Wrote(tasks))
  BY <1>1, Refilled DEF TextInv
<1>4. ASSUME Safe PROVE Safe'
  <2>1. AllFull(tasks)
    BY <1>4 DEF Safe, AllFull
  <2>2. Found(kept', tasks) /\ (setup' # "json" => \A k \in kept' : k.gid \in Gids)
    BY <1>1, <1>2, <1>4, Dropped
  <2> QED
    BY <1>3, <2>1, <2>2, SafeAgain
<1> QED
  BY <1>1, <1>2, <1>3, <1>4 DEF TextInv

LEMMA EndKeepsText ==
    ASSUME TextInv, NEW t \in held, NEW how \in {"complete", "error"}, T!End(t, how)
    PROVE  TextInv'
<1> DEFINE tasks == (held \ {t}) \cup {T!Now(t, how)}
<1>1. /\ Running /\ t.status = "active" /\ kept' = kept \ {T!Promise(t)}
      /\ UNCHANGED <<setup, up, job, viaText>> /\ Running'
      /\ \/ up = "daemon" /\ T!Refill(tasks)
         \/ held' = tasks /\ UNCHANGED <<main, side>>
  BY DEF T!End, Running
<1>2. HasMigrated' /\ JobFits'
  <2>1. job.kind # "done"
    BY <1>1 DEF TextInv, HasMigrated, Running
  <2> QED
    BY <1>1, <2>1 DEF TextInv, HasMigrated, JobFits
<1>3. Migrates'
  <2>1. SUFFICES ASSUME job.kind = "migrate",
                        NEW i \in DOMAIN job.list \ job.failed, i < job.next
                 PROVE  \E h \in held' : Meets(h, job.list[i])
    BY <1>1 DEF TextInv, Migrates
  <2>2. up = "migrate" /\ held' = tasks
    BY <1>1, <2>1 DEF TextInv, Migrates
  <2>3. PICK h \in held : Meets(h, job.list[i])
    BY <2>1 DEF TextInv, Migrates
  <2>4. CASE h # t
    BY <2>2, <2>3, <2>4
  <2>5. CASE h = t
    <3>1. /\ Fields \subseteq DOMAIN T!Now(t, how) /\ T!Now(t, how).status = how
          /\ T!Now(t, how).gid = t.gid /\ T!Now(t, how).uri = t.uri
      BY <2>3, <2>5 DEF Meets, Fields, T!Now
    <3>2. Meets(T!Now(t, how), job.list[i])
      BY <1>1, <2>3, <2>5, <3>1 DEF Meets
    <3> QED
      BY <2>2, <3>2
  <2> QED
    BY <2>4, <2>5
<1>4. FilesFit'
  <2>1. CASE T!Refill(tasks)
    BY <1>1, <2>1, Refilled DEF TextInv
  <2>2. CASE UNCHANGED <<main, side>>
    BY <1>1, <2>2 DEF TextInv, FilesFit
  <2> QED
    BY <1>1, <2>1, <2>2
<1>5. ASSUME Safe PROVE Safe'
  <2>1. AllFull(tasks)
    BY <1>5, Replaced DEF Safe
  <2>2. Found(kept', tasks) /\ (setup' # "json" => \A k \in kept' : k.gid \in Gids)
    BY <1>1, <1>5, Dropped DEF Found
  <2>3. CASE T!Refill(tasks)
    BY <1>1, <2>1, <2>2, <2>3, Refilled, SafeAgain DEF TextInv
  <2>4. CASE held' = tasks /\ UNCHANGED <<main, side>>
    <3>1. T!Stored' = T!Stored
      BY <1>1, <2>4 DEF T!Stored
    <3>2. main.kind = "json" => Found(kept', main.tasks)
      BY <1>1, <1>5 DEF Safe, Found
    <3> QED
      BY <1>1, <1>5, <2>1, <2>2, <2>4, <3>1, <3>2 DEF Safe
  <2> QED
    BY <1>1, <2>3, <2>4
<1> QED
  BY <1>1, <1>2, <1>3, <1>4, <1>5 DEF TextInv

LEMMA PersistKeepsText == ASSUME TextInv, T!Persist PROVE TextInv'
<1>1. PICK by \in {"daemon", "call"} : T!SavedBy(by, held)
  BY DEF T!Persist
<1>2. up = "daemon" /\ UNCHANGED <<setup, up, held, job, kept, viaText>>
  BY DEF T!Persist
<1>3. FilesFit'
  BY <1>1, <1>2, SavedFits DEF TextInv
<1>4. ASSUME Safe PROVE Safe'
  <2>1. AllFull(held) /\ Found(kept, held) /\ (setup # "json" => \A k \in kept : k.gid \in Gids)
    BY <1>2, <1>4 DEF Safe, Running
  <2>2. Wrote(held)
    BY <1>1, <1>2, <2>1, SavedWrote DEF TextInv
  <2>3. AllFull(held') /\ Found(kept', held) /\ Covers(held, held')
    BY <1>2, <2>1, CoversSelf
  <2> QED
    BY <1>2, <2>1, <2>2, <2>3, SafeAgain
<1>5. Migrates' /\ HasMigrated' /\ JobFits'
  <2>1. job'.kind \notin {"migrate", "done"} /\ JobFits'
    BY <1>2 DEF TextInv, Migrates, HasMigrated, JobFits, Running
  <2> QED
    BY <2>1, NothingMigrates
<1> QED
  BY <1>2, <1>3, <1>4, <1>5 DEF TextInv
-----------------------------------------------------------------------------
(* TextSession: what holds of every behaviour. *)

LEMMA TextStarts == T!Init => TextInv
<1>1. T!NoFile.kind = "none" /\ T!NoFile.tasks = {}
  BY DEF T!NoFile
<1> QED
  BY <1>1, JobFacts DEF T!Init, TextInv, FilesFit, JobFits, Safe, AllFull, Running, Migrates,
                        HasMigrated

LEMMA TextStep == TextInv /\ T!Next => TextInv'
<1> SUFFICES ASSUME TextInv, T!Next PROVE TextInv'
  OBVIOUS
<1>1. CASE T!Start \/ T!Migrate \/ T!ImportSession \/ T!Die \/ T!LoseMain
  BY <1>1, StartKeepsText, MigrateKeepsText, ImportKeepsText, DieKeepsText, LoseMainKeepsText
<1>2. CASE T!JobDoes \/ T!JobFails \/ T!JobEnds \/ T!Persist
  BY <1>2, JobDoesKeepsText, JobFailsKeepsText, JobEndsKeepsText, PersistKeepsText
<1>3. CASE T!Calls
  BY <1>3, AddKeepsText, PauseKeepsText, UnpauseKeepsText, RemoveTaskKeepsText DEF T!Calls
<1>4. CASE \E t \in held, how \in {"complete", "error"} : T!End(t, how)
  BY <1>4, EndKeepsText
<1> QED
  BY <1>1, <1>2, <1>3, <1>4 DEF T!Next

LEMMA TextStutter == TextInv /\ UNCHANGED textVars => TextInv'
<1> SUFFICES ASSUME TextInv, UNCHANGED textVars PROVE TextInv'
  OBVIOUS
<1>1. UNCHANGED <<setup, up, held, main, side, job, kept, viaText>>
  BY DEF textVars
<1>2. FilesFit' /\ (viaText \/ Safe') /\ Running' = Running
  BY <1>1, SameTasks
<1>3. Migrates' /\ HasMigrated'
  BY <1>1 DEF TextInv, Migrates, HasMigrated, T!AllMigrated
<1>4. JobFits'
  BY <1>1, <1>2 DEF TextInv, JobFits
<1> QED
  BY <1>1, <1>2, <1>3, <1>4 DEF TextInv

LEMMA TextGoals ==
    ASSUME TextInv
    PROVE  /\ T!JsonStarts /\ T!AllMigrated
           /\ viaText \/ (T!NothingLost /\ T!MigrationComplete)
<1>1. T!JsonStarts /\ T!AllMigrated
  BY DEF TextInv, T!JsonStarts, HasMigrated, T!AllMigrated
<1>2. ASSUME Safe PROVE T!NothingLost /\ T!EarlierStays
  <2>1. T!NothingLost
    BY <1>2 DEF Safe, Found, T!NothingLost, Running
  <2>2. job.kind = "done" => main.kind = "json"
    BY <1>1 DEF T!AllMigrated
  <2>3. T!EarlierStays
    BY <1>2, <2>2 DEF Safe, Found, T!EarlierStays
  <2> QED
    BY <2>1, <2>3
<1> QED
  BY <1>1, <1>2 DEF TextInv, T!MigrationComplete

LEMMA TextHolds == BothSpec => []TextInv
<1>1. ASSUME TextInv, BothNext PROVE TextInv'
  <2>1. CASE T!Next
    BY <1>1, <2>1, TextStep
  <2>2. CASE UNCHANGED textVars
    BY <1>1, <2>2, TextStutter
  <2> QED
    BY <1>1, <2>1, <2>2 DEF BothNext
<1>2. ASSUME TextInv, UNCHANGED <<half, textVars, optionVars>> PROVE TextInv'
  BY <1>2, TextStutter
<1>3. BothInit => TextInv
  BY TextStarts DEF BothInit
<1> QED
  BY <1>1, <1>2, <1>3, PTL DEF BothSpec

\* With JSON the daemon always starts: whatever is in the session, imported, migrated or
\* added, it fails in LoadSession only if a session was read from text.
THEOREM JsonAlwaysStarts == BothSpec => []T!JsonStarts
<1>1. TextInv => T!JsonStarts
  BY TextGoals
<1> QED
  BY <1>1, TextHolds, PTL

\* When runMigrate says that it is done, every entry that it has not reported is in the JSON
\* session with its GID, its URI and its pause, for files of any length.
THEOREM AllIsMigrated == BothSpec => []T!AllMigrated
<1>1. TextInv => T!AllMigrated
  BY TextGoals
<1> QED
  BY <1>1, TextHolds, PTL

\* Until a session is read from text, what a call has saved is found after every restart,
\* crash, migration and import, and a migration is complete.
THEOREM NothingLostInJson == BothSpec => [](viaText \/ (T!NothingLost /\ MigrationComplete))
<1>1. TextInv => viaText \/ (T!NothingLost /\ MigrationComplete)
  BY TextGoals DEF MigrationComplete
<1> QED
  BY <1>1, TextHolds, PTL
=============================================================================
