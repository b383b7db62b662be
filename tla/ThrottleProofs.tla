--------------------------- MODULE ThrottleProofs ---------------------------
(***************************************************************************)
(* The throttle, for any callers, rate and burst, and any time a request   *)
(* waits between its clock and the lock that 2 * Skew <= Every * Burst     *)
(* admits.                                                                 *)
(***************************************************************************)
EXTENDS Throttle, TLAPS

Spent == [ticks : Nat, at : Nat]

ThrottleTypeOK ==
    /\ clock \in Nat
    /\ sweptAt \in Int
    /\ DOMAIN buckets \subseteq Callers
    /\ buckets \in [DOMAIN buckets -> Bucket]
    /\ spent \in [Callers -> Spent]

\* What is left in a bucket and what its caller was allowed, both taken to the
\* time the bucket was last seen, are a burst at most.
Balanced(b, s) == b.credit <= Full /\ b.credit + s.ticks - (b.seen - s.at) <= Full

\* A late call takes credit back; what it takes, the clock has covered since.
NeverFarBelow(b) == -Skew <= b.credit /\ 0 <= b.credit + clock - b.seen

\* Any call from now on comes when all that was allowed has been made up for.
MadeUpFor(s) == \A t \in Nat : clock - t <= Skew => s.ticks <= t - s.at

IInv ==
    /\ ThrottleTypeOK
    /\ RateBounded
    /\ \A c \in DOMAIN buckets : Balanced(buckets[c], spent[c]) /\ NeverFarBelow(buckets[c])
    /\ \A c \in Callers \ DOMAIN buckets : MadeUpFor(spent[c])

-----------------------------------------------------------------------------
LEMMA Amounts == Every \in Nat \ {0} /\ Full \in Nat /\ Skew \in Nat /\ Idle = Full + Full /\ 2 * Skew <= Full
<1>1. Every * Burst = Burst * Every /\ Every * Burst \in Nat
  BY ThrottleAssumption
<1> QED BY <1>1, ThrottleAssumption DEF Full, Idle

\* A bucket that is swept had filled again, even for the latest of calls: its
\* caller may as well begin with a new one.
LEMMA SweptIsMadeUpFor ==
    ASSUME NEW b \in Bucket, NEW s \in Spent, NEW now \in Nat, clock \in Nat,
           now <= clock, Balanced(b, s), NeverFarBelow(b), now - b.seen > Idle
    PROVE  MadeUpFor(s)
<1> SUFFICES ASSUME NEW t \in Nat, clock - t <= Skew PROVE s.ticks <= t - s.at
  BY DEF MadeUpFor
<1>1. b.credit \in Int /\ b.seen \in Nat /\ s.ticks \in Nat /\ s.at \in Nat
  BY DEF Bucket, Spent
<1>2. s.ticks - (t - s.at) <= Full - b.credit - (t - b.seen)
  BY <1>1, Amounts DEF Balanced
<1>3. t - b.seen > Full + Full - Skew
  BY <1>1, Amounts
<1> QED BY <1>1, <1>2, <1>3, Amounts DEF NeverFarBelow

\* The bucket a call finds, refilled up to the call's time.
LEMMA Found ==
    ASSUME IInv, NEW c \in Callers, NEW now \in Nat, now <= clock, clock - now <= Skew
    PROVE  /\ BucketAt(c, now) \in Bucket
           /\ BucketAt(c, now).seen = now
           /\ Balanced(BucketAt(c, now), spent[c])
           /\ NeverFarBelow(BucketAt(c, now))
<1>1. clock \in Nat /\ spent[c] \in Spent /\ spent[c].ticks \in Nat /\ spent[c].at \in Nat
  BY DEF IInv, ThrottleTypeOK, Spent
<1>2. CASE c \in KeptAt(now)
  <2> DEFINE b == buckets[c]
  <2>1. c \in DOMAIN buckets /\ b \in Bucket /\ Balanced(b, spent[c]) /\ NeverFarBelow(b)
    BY <1>2 DEF IInv, ThrottleTypeOK, KeptAt
  <2>2. BucketAt(c, now) = [credit |-> Lesser(Full, b.credit + now - b.seen), seen |-> now]
    BY <1>2 DEF BucketAt, Refilled
  <2>3. b.credit \in Int /\ b.seen \in Nat
    BY <2>1 DEF Bucket
  <2> DEFINE credit == Lesser(Full, b.credit + now - b.seen)
  <2>4. credit \in Int /\ credit <= Full /\ credit <= b.credit + now - b.seen
        /\ (credit = Full \/ credit = b.credit + now - b.seen)
    BY <2>3, Amounts DEF Lesser
  <2>5. BucketAt(c, now).credit = credit /\ BucketAt(c, now).seen = now /\ BucketAt(c, now) \in Bucket
    BY <2>2, <2>4 DEF Bucket
  <2> HIDE DEF credit
  <2>6. Balanced(BucketAt(c, now), spent[c])
    BY <2>1, <2>3, <2>4, <2>5, <1>1, Amounts DEF Balanced
  <2>7. NeverFarBelow(BucketAt(c, now))
    BY <2>1, <2>3, <2>4, <2>5, <1>1, Amounts DEF NeverFarBelow
  <2> QED BY <2>5, <2>6, <2>7
<1>3. CASE c \notin KeptAt(now)
  <2>1. BucketAt(c, now) = [credit |-> Full, seen |-> now]
    BY <1>3 DEF BucketAt
  <2>2. MadeUpFor(spent[c])
    <3>1. CASE c \notin DOMAIN buckets
      BY <3>1 DEF IInv
    <3>2. CASE c \in DOMAIN buckets
      <4>1. buckets[c] \in Bucket /\ Balanced(buckets[c], spent[c]) /\ NeverFarBelow(buckets[c])
        BY <3>2 DEF IInv, ThrottleTypeOK
      <4>2. ~(now - buckets[c].seen <= Idle)
        BY <1>3, <3>2 DEF KeptAt
      <4>3. now - buckets[c].seen > Idle
        BY <4>1, <4>2, Amounts DEF Bucket
      <4> QED BY <1>1, <4>1, <4>3, SweptIsMadeUpFor
    <3> QED BY <3>1, <3>2
  <2>3. spent[c].ticks <= now - spent[c].at
    BY <2>2 DEF MadeUpFor
  <2> QED BY <1>1, <2>1, <2>3, Amounts DEF Bucket, Balanced, NeverFarBelow
<1> QED BY <1>2, <1>3

\* One more call, paid for from the bucket.
LEMMA Paid ==
    ASSUME NEW b \in Bucket, NEW s \in Spent, clock \in Nat, b.seen <= clock,
           Balanced(b, s), NeverFarBelow(b), b.credit >= Every
    PROVE  /\ [b EXCEPT !.credit = @ - Every] \in Bucket
           /\ SpentMore(s, b.seen) \in Spent
           /\ Balanced([b EXCEPT !.credit = @ - Every], SpentMore(s, b.seen))
           /\ NeverFarBelow([b EXCEPT !.credit = @ - Every])
           /\ SpentMore(s, b.seen).ticks <= Full
<1>1. b.credit \in Int /\ b.seen \in Nat /\ s.ticks \in Nat /\ s.at \in Nat
  BY DEF Bucket, Spent
<1> DEFINE left == [b EXCEPT !.credit = @ - Every]
           gone == SpentMore(s, b.seen)
           over == IF s.ticks > b.seen - s.at THEN s.ticks - (b.seen - s.at) ELSE 0
<1>2. left \in Bucket /\ left.credit = b.credit - Every /\ left.seen = b.seen
  BY <1>1, Amounts DEF Bucket
<1>3. over \in Nat /\ (over = 0 \/ over = s.ticks - (b.seen - s.at))
  BY <1>1
<1>4. gone.ticks = Every + over /\ gone.at = b.seen /\ gone \in Spent
  BY <1>1, <1>3, Amounts DEF SpentMore, Spent
<1> HIDE DEF left, gone, over
<1>5. b.credit + over <= Full
  BY <1>1, <1>3, Amounts DEF Balanced
<1>6. Balanced(left, gone) /\ gone.ticks <= Full
  BY <1>1, <1>2, <1>3, <1>4, <1>5, Amounts DEF Balanced
<1>7. NeverFarBelow(left)
  BY <1>1, <1>2, Amounts DEF NeverFarBelow
<1> QED BY <1>2, <1>4, <1>6, <1>7 DEF left, gone

-----------------------------------------------------------------------------
LEMMA InitHolds == ThrottleInit => IInv
<1> SUFFICES ASSUME ThrottleInit PROVE IInv
  OBVIOUS
<1>1. DOMAIN buckets = {} /\ buckets \in [DOMAIN buckets -> Bucket]
  BY DEF ThrottleInit
<1>2. \A c \in Callers : spent[c] = [ticks |-> 0, at |-> 0]
  BY DEF ThrottleInit
<1>3. ThrottleTypeOK
  BY <1>1 DEF ThrottleInit, ThrottleTypeOK, Spent, Never
<1>4. RateBounded /\ \A c \in Callers : MadeUpFor(spent[c])
  BY <1>2, Amounts DEF ThrottleInit, RateBounded, MadeUpFor
<1> QED BY <1>1, <1>3, <1>4 DEF IInv

LEMMA AllowStep ==
    ASSUME IInv, NEW c \in Callers, NEW now \in 0..clock, clock - now <= Skew, Allow(c, now)
    PROVE  IInv'
<1> DEFINE b == BucketAt(c, now)
           kept == KeptAt(now) \cup {c}
<1>1. clock \in Nat /\ clock' = clock /\ now \in Nat /\ now <= clock
  BY DEF IInv, ThrottleTypeOK, Allow
<1>2. b \in Bucket /\ b.seen = now /\ Balanced(b, spent[c]) /\ NeverFarBelow(b)
  BY <1>1, Found
<1>3. spent[c] \in Spent /\ spent \in [Callers -> Spent] /\ b.credit \in Int
  BY <1>2 DEF IInv, ThrottleTypeOK, Bucket
<1> HIDE DEF b
<1>4. /\ DOMAIN buckets' = kept
      /\ kept \subseteq Callers
      /\ \A k \in kept \ {c} : k \in DOMAIN buckets /\ buckets'[k] = buckets[k]
  BY DEF Allow, KeptAt, IInv, ThrottleTypeOK
<1>5. \A k \in Callers \ {c} : spent'[k] = spent[k]
  BY <1>3 DEF Allow
<1>6. /\ buckets'[c] \in Bucket /\ spent'[c] \in Spent /\ spent'[c].ticks <= Full
      /\ Balanced(buckets'[c], spent'[c]) /\ NeverFarBelow(buckets'[c])
  <2>1. CASE b.credit >= Every
    <3>1. buckets'[c] = [b EXCEPT !.credit = @ - Every] /\ spent'[c] = SpentMore(spent[c], b.seen)
      BY <2>1, <1>2, <1>3 DEF Allow, b
    <3> QED BY <3>1, <2>1, <1>1, <1>2, <1>3, Paid
  <2>2. CASE ~(b.credit >= Every)
    <3>1. buckets'[c] = b /\ spent'[c] = spent[c]
      BY <2>2 DEF Allow, b
    <3> QED BY <3>1, <1>2, <1>3 DEF IInv, RateBounded
  <2> QED BY <2>1, <2>2
<1>7. ThrottleTypeOK'
  <2>1. buckets' \in [kept -> Bucket]
    <3>1. \A k \in kept : buckets'[k] \in Bucket
      BY <1>4, <1>6 DEF IInv, ThrottleTypeOK
    <3>2. buckets' = [k \in kept |-> buckets'[k]]
      BY DEF Allow
    <3> QED BY <3>1, <3>2
  <2>2. spent' \in [Callers -> Spent]
    <3>1. spent' = [k \in Callers |-> spent'[k]]
      BY <1>3 DEF Allow
    <3> QED BY <3>1, <1>3, <1>5, <1>6
  <2>3. sweptAt' \in Int
    BY <1>1 DEF Allow, IInv, ThrottleTypeOK
  <2> QED BY <1>1, <1>4, <2>1, <2>2, <2>3 DEF ThrottleTypeOK
<1>8. RateBounded'
  BY <1>5, <1>6 DEF IInv, RateBounded, Full
<1>9. \A k \in DOMAIN buckets' : (Balanced(buckets[k], spent[k]) /\ NeverFarBelow(buckets[k]))'
  BY <1>1, <1>4, <1>5, <1>6 DEF IInv, Balanced, NeverFarBelow, Full
<1>10. \A k \in Callers \ DOMAIN buckets' : MadeUpFor(spent[k])'
  <2> SUFFICES ASSUME NEW k \in Callers \ kept PROVE MadeUpFor(spent[k])'
    BY <1>4
  <2>1. spent'[k] = spent[k] /\ spent[k] \in Spent
    BY <1>3, <1>5
  <2>2. MadeUpFor(spent[k])
    <3>1. CASE k \notin DOMAIN buckets
      BY <3>1 DEF IInv
    <3>2. CASE k \in DOMAIN buckets
      <4>1. buckets[k] \in Bucket /\ Balanced(buckets[k], spent[k]) /\ NeverFarBelow(buckets[k])
        BY <3>2 DEF IInv, ThrottleTypeOK
      <4>2. now - buckets[k].seen > Idle
        BY <1>1, <3>2, <4>1, Amounts DEF KeptAt, Bucket
      <4> QED BY <1>1, <2>1, <4>1, <4>2, SweptIsMadeUpFor
    <3> QED BY <3>1, <3>2
  <2> QED BY <1>1, <2>1, <2>2 DEF MadeUpFor
<1> QED BY <1>7, <1>8, <1>9, <1>10 DEF IInv

LEMMA TickStep == ASSUME IInv, Tick PROVE IInv'
<1>1. clock \in Nat /\ clock' = clock + 1 /\ UNCHANGED <<buckets, sweptAt, spent>>
  BY DEF Tick, IInv, ThrottleTypeOK
<1>2. ThrottleTypeOK' /\ RateBounded'
  BY <1>1 DEF IInv, ThrottleTypeOK, RateBounded, Full
<1>3. \A c \in DOMAIN buckets' : (Balanced(buckets[c], spent[c]) /\ NeverFarBelow(buckets[c]))'
  <2> SUFFICES ASSUME NEW c \in DOMAIN buckets PROVE (Balanced(buckets[c], spent[c]) /\ NeverFarBelow(buckets[c]))'
    BY <1>1
  <2>1. buckets[c].credit \in Int /\ buckets[c].seen \in Nat
    BY DEF IInv, ThrottleTypeOK, Bucket
  <2> QED BY <1>1, <2>1 DEF IInv, Balanced, NeverFarBelow, Full
<1>4. \A c \in Callers \ DOMAIN buckets' : MadeUpFor(spent[c])'
  <2> SUFFICES ASSUME NEW c \in Callers \ DOMAIN buckets, NEW t \in Nat, (clock + 1) - t <= Skew
               PROVE  spent[c].ticks <= t - spent[c].at
    BY <1>1 DEF MadeUpFor
  <2>1. clock - t <= Skew
    BY <1>1, Amounts
  <2> QED BY <2>1 DEF IInv, MadeUpFor
<1> QED BY <1>2, <1>3, <1>4 DEF IInv

\* The inductive invariant: RateBounded is not inductive, for it says nothing of
\* what is left in a bucket, nor of a bucket that is not there.
THEOREM Accounted == ThrottleSpec => []IInv
<1>1. ASSUME IInv, [ThrottleNext]_throttleVars PROVE IInv'
  <2>1. CASE ThrottleNext
    <3>1. CASE Tick
      BY <3>1, <1>1, TickStep
    <3>2. CASE \E c \in Callers, now \in {t \in 0..clock : clock - t <= Skew} : Allow(c, now)
      BY <3>2, <1>1, AllowStep
    <3> QED BY <2>1, <3>1, <3>2 DEF ThrottleNext
  <2>2. CASE UNCHANGED throttleVars
    BY <2>2, <1>1 DEF throttleVars, IInv, ThrottleTypeOK, RateBounded, Balanced, NeverFarBelow,
                      MadeUpFor, Full
  <2> QED BY <1>1, <2>1, <2>2
<1> QED BY <1>1, InitHolds, PTL DEF ThrottleSpec

\* A caller is allowed no more than a burst and what is replenished meanwhile.
THEOREM HeldToRate == ThrottleSpec => []RateBounded
<1>1. IInv => RateBounded
  BY DEF IInv
<1> QED BY <1>1, Accounted, PTL
=============================================================================
