----------------------------- MODULE ByteLimiter -----------------------------
(***************************************************************************)
(* common.ByteLimiter: a token bucket that holds what one second brings.    *)
(* Time passes in ticks, tokens and bytes are whole numbers.  The bucket is  *)
(* filled when it is next used, with the rate it has then.                   *)
(***************************************************************************)
EXTENDS Integers
CONSTANT Second        \* ticks in a second
ASSUME SecondAssumption == Second \in Nat \ {0}

\* since: ticks after lastFill; a second and more make no difference.
Buckets(rates) == [rate : rates, tokens : Nat, since : 0..Second]
Capacity(rate) == rate * Second
Least(a, b) == IF a < b THEN a ELSE b
NewByteLimiter(rate) == [rate |-> rate, tokens |-> Capacity(rate), since |-> 0]

\* What every operation does first.
Fill(b) == [b EXCEPT !.tokens = Least(@ + b.since * b.rate, Capacity(b.rate)), !.since = 0]

CanAfford(b, n) == Fill(b).tokens >= n

\* TryConsume takes all or nothing; in either case the bucket is filled.
Consume(b, n) == [Fill(b) EXCEPT !.tokens = IF @ >= n THEN @ - n ELSE @]
\* Wait takes what there is.
Drain(b, n) == [Fill(b) EXCEPT !.tokens = IF @ >= n THEN @ - n ELSE 0]
\* How long Wait sleeps for n bytes: at most a second.
Sleep(b, n) == Least((n + b.rate - 1) \div b.rate, Second)

\* SetRate does not fill first, so the ticks since the last use count at the new rate.
SetRate(b, rate) == [b EXCEPT !.rate = rate, !.tokens = Least(@, Capacity(rate))]

Elapse(b) == [b EXCEPT !.since = Least(@ + 1, Second)]
==============================================================================
