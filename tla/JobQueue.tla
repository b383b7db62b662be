------------------------------ MODULE JobQueue ------------------------------
(***************************************************************************)
(* The jobs table of the catalog (internal/catalog/renditions.go).         *)
(*                                                                         *)
(* SQLite is opened with one connection, so each statement is one step.    *)
(* This module lets ANY caller issue any statement at any time: reports    *)
(* that are late, repeated or about work nobody claimed are all behaviours *)
(* of it, because no statement asks who holds the claim.  Deriving puts    *)
(* the real callers on top, and the line that CompleteJob and FailJob log  *)
(* in statements of their own before they touch the row.                   *)
(*                                                                         *)
(* Times are kept relative to now, so that a clock needs no bound: a row's *)
(* wait is next_attempt_at minus now and its quiet is now minus            *)
(* updated_at, in ticks.                                                   *)
(***************************************************************************)
EXTENDS Integers

CONSTANTS Assets,       \* the keys of the stored assets
          Cost,         \* derive.Cost of each asset's content type
          MaxAttempts,  \* cfg.RenditionAttempts, shared by both callers
          StaleAfter,   \* how long a claim may go quiet
          RetryDelays,  \* how far ahead a caller of FailJob puts the next attempt
          OverdueCap,   \* bound: how long overdue a row is told apart
          ChargeCap     \* bound: attempts counted on one row

ASSUME QueueAssumption ==
    /\ Cost \in [Assets -> Nat]
    /\ MaxAttempts \in Nat \ {0}
    /\ StaleAfter \in Nat
    /\ RetryDelays \subseteq Nat
    /\ OverdueCap \in Nat
    /\ ChargeCap \in Nat

VARIABLES jobs,    \* the row of each asset; state "none" is no row
          claims   \* history: how often the asset's row was handed out

queueVars == <<jobs, claims>>

-----------------------------------------------------------------------------
(* Rows.                                                                   *)

States == {"none", "pending", "running", "failed"}
Reasons == {"none", "reported", "died"}   \* last_error: empty, a report's, deathReason

Row == [state : States, attempts : Nat,
        wait : {t \in Int : t >= -OverdueCap}, quiet : 0..StaleAfter + 1, why : Reasons]

NoRow == [state |-> "none", attempts |-> 0, wait |-> 0, quiet |-> 0, why |-> "none"]

FreshRow == [NoRow EXCEPT !.state = "pending"]

\* INSERT ... ON CONFLICT (asset_key) DO NOTHING.
UpsertedRow(row) == FreshRow
InsertedRow(row) == IF row.state = "none" THEN FreshRow ELSE row

ClaimedRow(row) == [row EXCEPT !.state = "running", !.quiet = 0]

\* What FailJob and both releases have in common: one more attempt, and the
\* row is offered again only while attempts are left.
RetiredWhenEqual(attempts) == attempts = MaxAttempts
OutOfAttempts(attempts) == attempts >= MaxAttempts

ChargedRow(row) ==
    [row EXCEPT !.attempts = @ + 1,
                !.state = IF OutOfAttempts(row.attempts + 1) THEN "failed" ELSE "pending",
                !.quiet = 0]

RetryBehind(row, delay) == [ChargedRow(row) EXCEPT !.wait = -delay, !.why = "reported"]
FailedRow(row, delay) == [ChargedRow(row) EXCEPT !.wait = delay, !.why = "reported"]

\* releaseSQL: next_attempt_at stays, last_error changes only on retirement.
UnchargedRelease(row) == [row EXCEPT !.state = "pending", !.quiet = 0]
BlamedRelease(row) == [ChargedRow(row) EXCEPT !.why = "died"]
ReleasedRow(row) ==
    [ChargedRow(row) EXCEPT
        !.why = IF OutOfAttempts(row.attempts + 1) THEN "died" ELSE @]

\* A tick later.  Only a running row's silence and an unretired row's due
\* time are ever read, and both saturate.
AgedRow(row) ==
    [row EXCEPT
        !.wait = IF row.state \in {"pending", "running"} /\ @ > -OverdueCap THEN @ - 1 ELSE @,
        !.quiet = IF row.state = "running" /\ @ <= StaleAfter THEN @ + 1 ELSE @]

-----------------------------------------------------------------------------
(* Queries.                                                                *)

Queued(a) == jobs[a].state # "none"

Due == {a \in Assets : jobs[a].state = "pending" /\ jobs[a].wait <= 0}

\* ORDER BY cost, next_attempt_at.
NotAfter(a, b) == \/ Cost[a] < Cost[b]
                  \/ Cost[a] = Cost[b] /\ jobs[a].wait <= jobs[b].wait

FirstDue == {a \in Due : \A b \in Due : NotAfter(a, b)}

\* What ReleaseStaleJobs finds: claims that have been quiet for too long.
QuietEnough == {a \in Assets : jobs[a].state = "running" /\ jobs[a].quiet >= StaleAfter}
Stale == {a \in Assets : jobs[a].state = "running" /\ jobs[a].quiet > StaleAfter}

Unfinished == {a \in Assets : jobs[a].state \in {"pending", "running"}}
Running == {a \in Assets : jobs[a].state = "running"}

-----------------------------------------------------------------------------
(* Statements.                                                             *)

Init == /\ jobs = [a \in Assets |-> NoRow]
        /\ claims = [a \in Assets |-> 0]

Enqueue(a) ==
    /\ jobs' = [jobs EXCEPT ![a] = InsertedRow(@)]
    /\ claims' = [claims EXCEPT ![a] = IF Queued(a) THEN @ ELSE 0]

\* The one row the claiming statement takes; with none due it changes nothing.
ClaimJob(a) ==
    /\ a \in FirstDue
    /\ jobs' = [jobs EXCEPT ![a] = ClaimedRow(@)]
    /\ claims' = [claims EXCEPT ![a] = @ + 1]

\* The DELETE of CompleteJob and the UPDATE of FailJob; neither minds a row that
\* is gone.
CompleteJob(a) ==
    /\ jobs' = [jobs EXCEPT ![a] = NoRow]
    /\ UNCHANGED claims

FailJob(a, delay) ==
    /\ jobs[a].attempts < ChargeCap
    /\ jobs' = [jobs EXCEPT ![a] = IF Queued(a) THEN FailedRow(@, delay) ELSE @]
    /\ UNCHANGED claims

Release(S) ==
    /\ jobs' = [a \in Assets |-> IF a \in S THEN ReleasedRow(jobs[a]) ELSE jobs[a]]
    /\ UNCHANGED claims

ReleaseClaimedJobs == Release(Running)

ReleaseStaleJobs == Release(Stale)

Tick == /\ jobs' = [a \in Assets |-> AgedRow(jobs[a])]
        /\ UNCHANGED claims

Next == \/ \E a \in Assets : Enqueue(a)
        \/ \E a \in Assets : ClaimJob(a)
        \/ \E a \in Assets : CompleteJob(a)
        \/ \E a \in Assets, delay \in RetryDelays : FailJob(a, delay)
        \/ ReleaseClaimedJobs
        \/ ReleaseStaleJobs
        \/ Tick

Spec == Init /\ [][Next]_queueVars

-----------------------------------------------------------------------------
(* Properties.                                                             *)

\* The shape of a row: a claim ages only up to the point where it is stale,
\* a row is told apart only OverdueCap ticks past its time.
TypeOK ==
    /\ jobs \in [Assets -> Row]
    /\ claims \in [Assets -> Nat]

\* The worst a job can do is to take MaxAttempts workers down with it: however
\* claims, crashes, time-outs and late reports interleave, one row is never
\* handed out more often than that (releaseSQL's reason to charge a release).
AttemptBound == \A a \in Assets : claims[a] <= MaxAttempts

\* A job that was given up stays given up: no late or repeated report, no
\* release and no second request puts it back in the queue.  Only a report
\* that the work is done takes the row away (FailJob, Enqueue).
GivenUpIsFinal ==
    [][\A a \in Assets :
          jobs[a].state = "failed" => jobs'[a].state \in {"failed", "none"}]_queueVars

\* What last_error says can be trusted: a row that was given up always says
\* why, and deathReason is the mark of a job that ran out of attempts without
\* a report, so no row that may still be tried carries it.
LastErrorTellsHow ==
    \A a \in Assets :
        /\ jobs[a].state = "failed" => jobs[a].why # "none"
        /\ jobs[a].why = "died" => jobs[a].state = "failed"

\* The queue implements the bounded retry it is there to provide.
PhaseOf(row) == CASE row.state = "none" -> "idle"
                  [] row.state = "failed" -> "abandoned"
                  [] OTHER -> "owed"

Promise == INSTANCE BoundedRetry
               WITH Jobs <- Assets, Budget <- MaxAttempts,
                    phase <- [a \in Assets |-> PhaseOf(jobs[a])],
                    tries <- claims

ImplementsBoundedRetry == Promise!Spec

-----------------------------------------------------------------------------
(* The inductive invariant behind AttemptBound: every claim is paid for,   *)
(* at the latest by the charge that ends it.                               *)

Accounted(a) ==
    /\ jobs[a].state = "pending" => /\ jobs[a].attempts < MaxAttempts
                                    /\ claims[a] <= jobs[a].attempts
    /\ jobs[a].state = "running" => /\ jobs[a].attempts < MaxAttempts
                                    /\ claims[a] <= jobs[a].attempts + 1
    /\ jobs[a].state = "failed" => jobs[a].attempts >= MaxAttempts

EveryClaimAccounted == AttemptBound /\ \A a \in Assets : Accounted(a)

=============================================================================
