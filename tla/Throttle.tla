------------------------------ MODULE Throttle ------------------------------
(***************************************************************************)
(* How often one caller may start a sign-in (internal/httpx/throttle.go):  *)
(* a token bucket for each caller, in memory, and a sweep that drops the   *)
(* buckets nobody used for long.                                           *)
(*                                                                         *)
(* A request reads the clock before it gets the lock, so the times come to *)
(* the throttle up to Skew late and out of order.  Credit is counted in    *)
(* ticks: Every of them are one token.                                     *)
(***************************************************************************)
EXTENDS Integers

CONSTANTS Callers, \* what ClientIP makes of the requests
          Every,   \* ticks to one more token
          Burst,   \* tokens that may be spent at once
          Skew,    \* how long a request may wait between its clock and the lock
          MaxTime  \* bound: ticks of the clock

ASSUME ThrottleAssumption ==
    /\ Every \in Nat \ {0}
    /\ Burst \in Nat \ {0}
    /\ Skew \in Nat
    /\ 2 * Skew <= Every * Burst
    /\ MaxTime \in Nat

VARIABLES clock,   \* the time now
          buckets, \* of the callers that have one
          sweptAt, \* when the buckets were last swept, or Never
          spent    \* history: what each caller was allowed

throttleVars == <<clock, buckets, sweptAt, spent>>

Never == -1
Full == Burst * Every
Idle == Every * Burst * 2

Bucket == [credit : Int, seen : Nat]

ThrottleInit ==
    /\ clock = 0
    /\ buckets = <<>>
    /\ sweptAt = Never
    /\ spent = [c \in Callers |-> [ticks |-> 0, at |-> 0]]

Lesser(a, b) == IF a < b THEN a ELSE b

\* Of every stretch of time that ends with the caller's last allowed call, take
\* the tokens it spent in it, in ticks, less its length: the most of these is what
\* `spent' keeps.  One more call lengthens each stretch, or begins a new one.
SpentMore(s, now) ==
    [ticks |-> Every + (IF s.ticks > now - s.at THEN s.ticks - (now - s.at) ELSE 0), at |-> now]

-----------------------------------------------------------------------------
SweepsAt(now) == sweptAt # Never /\ now - sweptAt >= Idle

\* A bug: a bucket is dropped before it had the time to fill again.
KeptTooShort(now) ==
    {c \in DOMAIN buckets : SweepsAt(now) => now - buckets[c].seen <= Every}

KeptAt(now) ==
    {c \in DOMAIN buckets : SweepsAt(now) => now - buckets[c].seen <= Idle}

\* A bucket as it is at a time, which may be before it was last seen.
Refilled(b, now) == [credit |-> Lesser(Full, b.credit + now - b.seen), seen |-> now]

BucketAt(c, now) ==
    IF c \in KeptAt(now) THEN Refilled(buckets[c], now) ELSE [credit |-> Full, seen |-> now]

\* One call, all of it under the lock.
Allow(c, now) ==
    LET b    == BucketAt(c, now)
        ok   == b.credit >= Every
        left == IF ok THEN [b EXCEPT !.credit = @ - Every] ELSE b
    IN  /\ buckets' = [k \in KeptAt(now) \cup {c} |-> IF k = c THEN left ELSE buckets[k]]
        /\ sweptAt' = IF sweptAt = Never \/ SweepsAt(now) THEN now ELSE sweptAt
        /\ spent' = IF ok THEN [spent EXCEPT ![c] = SpentMore(@, now)] ELSE spent
        /\ UNCHANGED clock

Tick ==
    /\ clock < MaxTime
    /\ clock' = clock + 1
    /\ UNCHANGED <<buckets, sweptAt, spent>>

ThrottleNext ==
    \/ \E c \in Callers, now \in {t \in 0..clock : clock - t <= Skew} : Allow(c, now)
    \/ Tick

ThrottleSpec == ThrottleInit /\ [][ThrottleNext]_throttleVars

-----------------------------------------------------------------------------
\* Over any stretch of time a caller is allowed no more than a burst and what is
\* replenished meanwhile, whatever is swept and in whatever order requests come.
RateBounded == \A c \in Callers : spent[c].ticks <= Full
=============================================================================
