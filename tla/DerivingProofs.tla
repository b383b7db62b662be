--------------------------- MODULE DerivingProofs ---------------------------
(***************************************************************************)
(* First what the jobs table guarantees for every caller, proved from its  *)
(* statements alone.  Then what its real callers guarantee together, for   *)
(* any number of workers, clients and assets, whatever ladder each of them *)
(* builds and whatever befalls them: what they make of the forms, what is  *)
(* logged of it, and who may put a claim back; and what a claim is worth   *)
(* where the only worker is the one in the serving process.                *)
(***************************************************************************)
EXTENDS Deriving, FiniteSetTheorems, TLAPS

-----------------------------------------------------------------------------
(* The table alone, whoever calls it: what its rows are.                   *)

\* Every row operation returns a row.
LEMMA RowOperations ==
    ASSUME NEW row \in Row, NEW delay \in Nat
    PROVE  /\ NoRow \in Row
           /\ InsertedRow(row) \in Row
           /\ ClaimedRow(row) \in Row
           /\ ChargedRow(row) \in Row
           /\ FailedRow(row, delay) \in Row
           /\ ReleasedRow(row) \in Row
           /\ AgedRow(row) \in Row
<1>1. NoRow \in Row /\ FreshRow \in Row
  BY QueueAssumption DEF NoRow, FreshRow, Row, States, Reasons
<1>2. 0 \in 0..StaleAfter + 1 /\ delay \in {t \in Int : t >= -OverdueCap}
  BY QueueAssumption
<1>3. InsertedRow(row) \in Row
  BY <1>1 DEF InsertedRow
<1>4. ClaimedRow(row) \in Row
  BY <1>2, Zenon DEF ClaimedRow, Row, States
<1>5. ChargedRow(row) \in Row
  <2>1. row.attempts + 1 \in Nat
    BY DEF Row
  <2> QED BY <1>2, <2>1, Zenon DEF ChargedRow, Row, States
<1>6. FailedRow(row, delay) \in Row
  BY <1>2, <1>5, Zenon DEF FailedRow, Row, Reasons
<1>7. ReleasedRow(row) \in Row
  BY <1>5, Zenon DEF ReleasedRow, Row, Reasons
<1>8. AgedRow(row) \in Row
  <2> DEFINE wait == IF row.state \in {"pending", "running"} /\ row.wait > -OverdueCap
                       THEN row.wait - 1 ELSE row.wait
             quiet == IF row.state = "running" /\ row.quiet <= StaleAfter
                        THEN row.quiet + 1 ELSE row.quiet
  <2>1. wait \in {t \in Int : t >= -OverdueCap} /\ quiet \in 0..StaleAfter + 1
    BY QueueAssumption DEF Row
  <2>2. AgedRow(row) = [row EXCEPT !.wait = wait, !.quiet = quiet]
    BY DEF AgedRow
  <2> HIDE DEF wait, quiet
  <2> QED BY <2>1, <2>2, Zenon DEF Row
<1> QED BY <1>1, <1>3, <1>4, <1>5, <1>6, <1>7, <1>8

\* A charge retires a row exactly when it uses up the attempts, and never
\* puts back a row that has none left.
LEMMA Charge ==
    ASSUME NEW row \in Row
    PROVE  /\ ChargedRow(row).attempts = row.attempts + 1
           /\ ChargedRow(row).state = "failed" <=> row.attempts + 1 >= MaxAttempts
           /\ ChargedRow(row).state \in {"pending", "failed"}
           /\ ReleasedRow(row).attempts = ChargedRow(row).attempts
           /\ ReleasedRow(row).state = ChargedRow(row).state
           /\ \A delay \in Nat :
                 /\ FailedRow(row, delay).attempts = ChargedRow(row).attempts
                 /\ FailedRow(row, delay).state = ChargedRow(row).state
  BY QueueAssumption
  DEF Row, ChargedRow, FailedRow, ReleasedRow, OutOfAttempts

-----------------------------------------------------------------------------

\* Whatever is asked of it, the table holds rows and counts.
LEMMA TypeStep == TypeOK /\ [Next]_queueVars => TypeOK'
<1> SUFFICES ASSUME TypeOK, [Next]_queueVars PROVE TypeOK'
  OBVIOUS
<1>1. ASSUME NEW a \in Assets, Enqueue(a) PROVE TypeOK'
  BY <1>1, QueueAssumption, RowOperations DEF TypeOK, Enqueue
<1>2. ASSUME NEW a \in Assets, ClaimJob(a) PROVE TypeOK'
  BY <1>2, QueueAssumption, RowOperations DEF TypeOK, ClaimJob
<1>3. ASSUME NEW a \in Assets, CompleteJob(a) PROVE TypeOK'
  <2>1. NoRow \in Row
    BY QueueAssumption DEF NoRow, Row, States, Reasons
  <2> QED BY <1>3, <2>1 DEF TypeOK, CompleteJob
<1>4. ASSUME NEW a \in Assets, NEW delay \in RetryDelays, FailJob(a, delay)
      PROVE  TypeOK'
  BY <1>4, QueueAssumption, RowOperations DEF TypeOK, FailJob
<1>5. ASSUME NEW S \in SUBSET Assets, Release(S) PROVE TypeOK'
  BY <1>5, QueueAssumption, RowOperations DEF TypeOK, Release
<1>6. CASE ReleaseClaimedJobs
  BY <1>5, <1>6 DEF ReleaseClaimedJobs, Running
<1>7. CASE ReleaseStaleJobs
  BY <1>5, <1>7 DEF ReleaseStaleJobs, Stale
<1>8. CASE Tick
  BY <1>8, QueueAssumption, RowOperations DEF TypeOK, Tick
<1>9. CASE UNCHANGED queueVars
  BY <1>9 DEF TypeOK, queueVars
<1> QED BY <1>1, <1>2, <1>3, <1>4, <1>6, <1>7, <1>8, <1>9 DEF Next

\* The table holds rows and counts in every reachable state.
THEOREM TypeCorrect == Spec => []TypeOK
<1>1. Init => TypeOK
  BY QueueAssumption DEF Init, TypeOK, NoRow, Row, States, Reasons
<1> QED BY <1>1, TypeStep, PTL DEF Spec

-----------------------------------------------------------------------------

\* Each statement keeps the account of the claims of every row.
LEMMA AccountKept ==
    ASSUME TypeOK, EveryClaimAccounted, [Next]_queueVars
    PROVE  EveryClaimAccounted'
<1> SUFFICES ASSUME NEW b \in Assets
             PROVE  claims'[b] <= MaxAttempts /\ Accounted(b)'
  BY DEF EveryClaimAccounted, AttemptBound
<1> USE DEF EveryClaimAccounted, AttemptBound, TypeOK
<1>0. jobs[b] \in Row /\ claims[b] \in Nat /\ MaxAttempts \in Nat \ {0}
  BY QueueAssumption
<1>1. ASSUME NEW a \in Assets, Enqueue(a)
      PROVE  claims'[b] <= MaxAttempts /\ Accounted(b)'
  BY <1>0, <1>1 DEF Enqueue, Accounted, InsertedRow, FreshRow, NoRow, Queued, Row
<1>2. ASSUME NEW a \in Assets, ClaimJob(a)
      PROVE  claims'[b] <= MaxAttempts /\ Accounted(b)'
  BY <1>0, <1>2 DEF ClaimJob, Accounted, ClaimedRow, FirstDue, Due, Row
<1>3. ASSUME NEW a \in Assets, CompleteJob(a)
      PROVE  claims'[b] <= MaxAttempts /\ Accounted(b)'
  BY <1>0, <1>3 DEF CompleteJob, Accounted, NoRow
<1>4. ASSUME NEW a \in Assets, NEW delay \in RetryDelays, FailJob(a, delay)
      PROVE  claims'[b] <= MaxAttempts /\ Accounted(b)'
  <2>1. delay \in Nat
    BY QueueAssumption
  <2>2. CASE jobs'[b] = jobs[b]
    BY <1>0, <1>4, <2>2 DEF FailJob, Accounted
  <2>3. CASE jobs[b].state # "none" /\ jobs'[b] = FailedRow(jobs[b], delay)
    BY <1>0, <1>4, <2>1, <2>3, Charge DEF FailJob, Accounted, Row, States
  <2> QED BY <1>4, <2>2, <2>3 DEF FailJob, Queued
<1>5. ASSUME NEW S \in SUBSET Running, Release(S)
      PROVE  claims'[b] <= MaxAttempts /\ Accounted(b)'
  <2>1. CASE b \in S
    BY <1>0, <1>5, <2>1, Charge DEF Release, Accounted, Running, Row
  <2>2. CASE b \notin S
    BY <1>0, <1>5, <2>2 DEF Release, Accounted
  <2> QED BY <2>1, <2>2
<1>6. CASE ReleaseClaimedJobs
  BY <1>5, <1>6 DEF ReleaseClaimedJobs
<1>7. CASE ReleaseStaleJobs
  BY <1>5, <1>7 DEF ReleaseStaleJobs, Stale, Running
<1>8. CASE Tick
  BY <1>0, <1>8 DEF Tick, Accounted, AgedRow, Row
<1>9. CASE UNCHANGED queueVars
  BY <1>9 DEF queueVars, Accounted
<1> QED BY <1>1, <1>2, <1>3, <1>4, <1>6, <1>7, <1>8, <1>9 DEF Next

\* The account holds of every reachable table.
THEOREM ClaimsAccounted == Spec => []EveryClaimAccounted
<1>1. Init => EveryClaimAccounted
  BY QueueAssumption DEF Init, EveryClaimAccounted, AttemptBound, Accounted, NoRow
<1> QED BY <1>1, AccountKept, TypeCorrect, PTL DEF Spec

\* No row is ever handed out more than MaxAttempts times.
THEOREM AttemptsBounded == Spec => []AttemptBound
<1>1. EveryClaimAccounted => AttemptBound
  BY DEF EveryClaimAccounted
<1> QED BY <1>1, ClaimsAccounted, PTL

-----------------------------------------------------------------------------

\* A job that was given up is never offered again: every statement leaves a
\* failed row failed, or removes it.
THEOREM GivenUpStays == Spec => GivenUpIsFinal
<1> DEFINE Final == \A a \in Assets :
                       jobs[a].state = "failed" => jobs'[a].state \in {"failed", "none"}
<1>1. ASSUME TypeOK, EveryClaimAccounted, [Next]_queueVars PROVE Final
  <2> SUFFICES ASSUME NEW b \in Assets, jobs[b].state = "failed"
               PROVE  jobs'[b].state \in {"failed", "none"}
    OBVIOUS
  <2>1. jobs[b] \in Row /\ jobs[b].attempts >= MaxAttempts /\ MaxAttempts \in Nat
    BY <1>1, QueueAssumption DEF TypeOK, EveryClaimAccounted, Accounted
  <2>2. ASSUME NEW a \in Assets, Enqueue(a) PROVE jobs'[b] = jobs[b]
    BY <1>1, <2>2 DEF Enqueue, InsertedRow, TypeOK
  <2>3. ASSUME NEW a \in Assets, ClaimJob(a) PROVE jobs'[b] = jobs[b]
    BY <1>1, <2>3 DEF ClaimJob, FirstDue, Due, TypeOK
  <2>4. ASSUME NEW a \in Assets, CompleteJob(a)
        PROVE  jobs'[b].state \in {"failed", "none"}
    BY <1>1, <2>4 DEF CompleteJob, NoRow, TypeOK
  <2>5. ASSUME NEW a \in Assets, NEW delay \in RetryDelays, FailJob(a, delay)
        PROVE  jobs'[b].state = "failed"
    <3>1. delay \in Nat
      BY QueueAssumption
    <3>2. FailedRow(jobs[b], delay).state = "failed"
      BY <2>1, <3>1, Charge DEF Row
    <3> QED BY <1>1, <2>5, <3>2 DEF FailJob, TypeOK
  <2>6. ASSUME NEW S \in SUBSET Running, Release(S) PROVE jobs'[b] = jobs[b]
    BY <1>1, <2>6 DEF Release, Running
  <2>7. CASE ReleaseClaimedJobs
    BY <2>6, <2>7 DEF ReleaseClaimedJobs
  <2>8. CASE ReleaseStaleJobs
    BY <2>6, <2>8 DEF ReleaseStaleJobs, Stale, Running
  <2>9. CASE Tick
    BY <1>1, <2>1, <2>9 DEF Tick, AgedRow, Row
  <2>10. CASE UNCHANGED queueVars
    BY <2>10 DEF queueVars
  <2> QED BY <1>1, <2>2, <2>3, <2>4, <2>5, <2>7, <2>8, <2>9, <2>10 DEF Next
<1>2. TypeOK /\ EveryClaimAccounted /\ [Next]_queueVars => [Final]_queueVars
  BY <1>1
<1> QED BY <1>2, TypeCorrect, ClaimsAccounted, PTL DEF Spec, GivenUpIsFinal

-----------------------------------------------------------------------------

\* last_error tells a poison pill from a reported failure, and is never empty
\* on a job that was given up.
THEOREM LastErrorTrusted == Spec => []LastErrorTellsHow
<1>1. Init => LastErrorTellsHow
  <2>1. NoRow.state = "none" /\ NoRow.why = "none"
    BY DEF NoRow
  <2> QED BY <2>1 DEF Init, LastErrorTellsHow
<1>2. ASSUME TypeOK, LastErrorTellsHow, [Next]_queueVars PROVE LastErrorTellsHow'
  <2> SUFFICES ASSUME NEW b \in Assets
               PROVE  /\ jobs'[b].state = "failed" => jobs'[b].why # "none"
                      /\ jobs'[b].why = "died" => jobs'[b].state = "failed"
    BY DEF LastErrorTellsHow
  <2> USE <1>2 DEF LastErrorTellsHow, TypeOK
  <2>1. jobs[b] \in Row
    OBVIOUS
  <2>2. ASSUME NEW a \in Assets, Enqueue(a)
        PROVE  jobs'[b] = jobs[b] \/ jobs'[b] = FreshRow
    BY <2>2 DEF Enqueue, InsertedRow
  <2>3. ASSUME NEW a \in Assets, ClaimJob(a)
        PROVE  \/ jobs'[b] = jobs[b]
               \/ jobs[b].state = "pending" /\ jobs'[b] = ClaimedRow(jobs[b])
    BY <2>3 DEF ClaimJob, FirstDue, Due
  <2>4. ASSUME NEW a \in Assets, CompleteJob(a)
        PROVE  jobs'[b] = jobs[b] \/ jobs'[b] = NoRow
    BY <2>4 DEF CompleteJob
  <2>5. ASSUME NEW a \in Assets, NEW delay \in RetryDelays, FailJob(a, delay)
        PROVE  jobs'[b] = jobs[b] \/ jobs'[b] = FailedRow(jobs[b], delay)
    BY <2>5 DEF FailJob
  <2>6. ASSUME NEW S \in SUBSET Running, Release(S)
        PROVE  \/ jobs'[b] = jobs[b]
               \/ jobs[b].state = "running" /\ jobs'[b] = ReleasedRow(jobs[b])
    BY <2>6 DEF Release, Running
  <2>7. ASSUME Tick PROVE jobs'[b] = AgedRow(jobs[b])
    BY <2>7 DEF Tick
  <2>8. /\ FreshRow.state = "pending" /\ FreshRow.why = "none"
        /\ NoRow.state = "none" /\ NoRow.why = "none"
    BY DEF FreshRow, NoRow
  <2>9. /\ ClaimedRow(jobs[b]).state = "running" /\ ClaimedRow(jobs[b]).why = jobs[b].why
        /\ AgedRow(jobs[b]).state = jobs[b].state /\ AgedRow(jobs[b]).why = jobs[b].why
    BY <2>1 DEF ClaimedRow, AgedRow, Row
  <2>10. \A delay \in RetryDelays : FailedRow(jobs[b], delay).why = "reported"
    BY <2>1 DEF FailedRow, ChargedRow, Row
  <2>11. /\ ReleasedRow(jobs[b]).state = "failed" => ReleasedRow(jobs[b]).why = "died"
         /\ \/ ReleasedRow(jobs[b]).why = jobs[b].why
            \/ ReleasedRow(jobs[b]).state = "failed"
    BY <2>1 DEF ReleasedRow, ChargedRow, Row
  <2>12. ReleaseClaimedJobs \/ ReleaseStaleJobs => \E S \in SUBSET Running : Release(S)
    BY DEF ReleaseClaimedJobs, ReleaseStaleJobs, Stale, Running
  <2>13. UNCHANGED queueVars => jobs'[b] = jobs[b]
    BY DEF queueVars
  <2> QED BY <2>2, <2>3, <2>4, <2>5, <2>6, <2>7, <2>8, <2>9, <2>10, <2>11, <2>12, <2>13
          DEF Next
<1> QED BY <1>1, <1>2, TypeCorrect, PTL DEF Spec

-----------------------------------------------------------------------------

(* The queue implements BoundedRetry. *)

\* A statement is a step of the promise, or none it can see: a claim is a try
\* within the budget, and the rows a charge retires are the ones abandoned.
LEMMA PromiseStep ==
    ASSUME TypeOK, EveryClaimAccounted, [Next]_queueVars
    PROVE  [Promise!Next]_(Promise!abstractVars)
<1> DEFINE Phase == [a \in Assets |-> PhaseOf(jobs[a])]
<1> USE DEF TypeOK
<1>1. \A row \in Row : /\ PhaseOf(row) = "idle" <=> row.state = "none"
                       /\ PhaseOf(row) = "abandoned" <=> row.state = "failed"
                       /\ PhaseOf(row) = "owed" <=> row.state \in {"pending", "running"}
  BY DEF PhaseOf, Row, States
<1>2. TypeOK'
  BY TypeStep
<1> HIDE DEF Phase
<1>3. ASSUME NEW a \in Assets, Enqueue(a)
      PROVE  Promise!Ask(a) \/ UNCHANGED Promise!abstractVars
  <2>1. CASE Queued(a)
    BY <1>3, <2>1 DEF Enqueue, InsertedRow, Queued, Promise!abstractVars
  <2>2. CASE ~Queued(a)
    <3>1. PhaseOf(FreshRow) = "owed"
      BY DEF FreshRow, NoRow, PhaseOf
    <3> QED BY <1>1, <1>3, <2>2, <3>1 DEF Enqueue, InsertedRow, Queued, Promise!Ask
  <2> QED BY <2>1, <2>2
<1>4. ASSUME NEW a \in Assets, ClaimJob(a) PROVE Promise!Try(a)
  <2>1. jobs[a] \in Row /\ jobs[a].state = "pending" /\ claims[a] < MaxAttempts
    BY <1>4, QueueAssumption
    DEF ClaimJob, FirstDue, Due, EveryClaimAccounted, Accounted, Row
  <2>2. ClaimedRow(jobs[a]) \in Row /\ ClaimedRow(jobs[a]).state = "running"
    BY <2>1, RowOperations DEF ClaimedRow, Row
  <2>3. PhaseOf(jobs[a]) = "owed" /\ PhaseOf(ClaimedRow(jobs[a])) = "owed"
    BY <1>1, <2>1, <2>2
  <2>4. \A b \in Assets : PhaseOf(jobs'[b]) = PhaseOf(jobs[b])
    BY <1>4, <2>3 DEF ClaimJob
  <2> QED BY <1>4, <2>1, <2>3, <2>4 DEF ClaimJob, Promise!Try
<1>5. ASSUME NEW a \in Assets, CompleteJob(a)
      PROVE  Promise!Settle(a) \/ UNCHANGED Promise!abstractVars
  <2>1. PhaseOf(NoRow) = "idle"
    BY DEF NoRow, PhaseOf
  <2>2. CASE PhaseOf(jobs[a]) = "idle"
    <3>1. \A b \in Assets : PhaseOf(jobs'[b]) = PhaseOf(jobs[b])
      BY <1>5, <2>1, <2>2 DEF CompleteJob
    <3> QED BY <1>5, <3>1 DEF CompleteJob, Promise!abstractVars
  <2>3. CASE PhaseOf(jobs[a]) # "idle"
    BY <1>5, <2>1, <2>3 DEF CompleteJob, Promise!Settle
  <2> QED BY <2>2, <2>3
<1>6. ASSUME NEW S \in SUBSET Assets, UNCHANGED claims,
             \A b \in Assets \ S : jobs'[b].state = jobs[b].state,
             \A b \in S : /\ jobs[b].state \in {"pending", "running"}
                          /\ jobs'[b].state \in {"pending", "failed"}
      PROVE  Promise!Next
  <2> DEFINE T == {b \in S : jobs'[b].state = "failed"}
  <2>1. \A b \in T : PhaseOf(jobs[b]) = "owed"
    BY <1>1, <1>6
  <2>2. \A b \in Assets : PhaseOf(jobs'[b]) = IF b \in T THEN "abandoned" ELSE PhaseOf(jobs[b])
    <3>1. ASSUME NEW b \in Assets \ S PROVE PhaseOf(jobs'[b]) = PhaseOf(jobs[b])
      BY <1>6, <3>1 DEF PhaseOf
    <3>2. ASSUME NEW b \in T PROVE PhaseOf(jobs'[b]) = "abandoned"
      BY <1>6, <3>2 DEF PhaseOf
    <3>3. ASSUME NEW b \in S \ T
          PROVE  PhaseOf(jobs'[b]) = "owed" /\ PhaseOf(jobs[b]) = "owed"
      BY <1>1, <1>2, <1>6, <3>3
    <3> QED BY <3>1, <3>2, <3>3
  <2>3. Promise!Abandon(T)
    BY <1>6, <2>1, <2>2 DEF Promise!Abandon
  <2> QED BY <2>3 DEF Promise!Next
<1>7. ASSUME NEW a \in Assets, NEW delay \in RetryDelays, FailJob(a, delay)
      PROVE  [Promise!Next]_(Promise!abstractVars)
  <2>1. jobs[a] \in Row /\ delay \in Nat /\ MaxAttempts \in Nat
    BY QueueAssumption
  <2>2. FailedRow(jobs[a], delay).state \in {"pending", "failed"}
    BY <2>1, Charge
  <2>3. CASE jobs[a].state \in {"pending", "running"}
    <3>1. \A b \in Assets \ {a} : jobs'[b].state = jobs[b].state
      BY <1>7 DEF FailJob
    <3>2. jobs'[a].state \in {"pending", "failed"} /\ UNCHANGED claims
      BY <1>7, <2>2, <2>3 DEF FailJob, Queued
    <3>3. /\ {a} \in SUBSET Assets
          /\ \A b \in {a} : /\ jobs[b].state \in {"pending", "running"}
                            /\ jobs'[b].state \in {"pending", "failed"}
      BY <2>3, <3>2
    <3>4. Promise!Next
      BY ONLY <1>6, <3>1, <3>2, <3>3
    <3> QED BY <3>4
  <2>4. CASE jobs[a].state = "none"
    BY <1>7, <2>4 DEF FailJob, Queued, Promise!abstractVars
  <2>5. CASE jobs[a].state = "failed"
    <3>1. FailedRow(jobs[a], delay).state = "failed"
      BY <2>1, <2>5, Charge DEF EveryClaimAccounted, Accounted, Row
    <3>2. \A b \in Assets : PhaseOf(jobs'[b]) = PhaseOf(jobs[b])
      BY <1>7, <2>5, <3>1 DEF FailJob, Queued, PhaseOf
    <3> QED BY <1>7, <3>2 DEF FailJob, Promise!abstractVars
  <2> QED BY <2>1, <2>3, <2>4, <2>5 DEF Row, States
<1>8. ASSUME NEW S \in SUBSET Running, Release(S) PROVE Promise!Next
  <2>1. \A b \in S : ReleasedRow(jobs[b]).state \in {"pending", "failed"}
    BY Charge DEF Running
  <2> QED BY <1>6, <1>8, <2>1 DEF Release, Running
<1>9. CASE ReleaseClaimedJobs
  BY <1>8, <1>9 DEF ReleaseClaimedJobs
<1>10. CASE ReleaseStaleJobs
  BY <1>8, <1>10 DEF ReleaseStaleJobs, Stale, Running
<1>11. CASE Tick
  <2>1. \A b \in Assets : jobs'[b].state = jobs[b].state
    BY <1>11 DEF Tick, AgedRow, Row
  <2> QED BY <1>11, <2>1 DEF Tick, PhaseOf, Promise!abstractVars
<1>12. CASE UNCHANGED queueVars
  BY <1>12 DEF queueVars, Promise!abstractVars
<1> QED BY <1>3, <1>4, <1>5, <1>7, <1>9, <1>10, <1>11, <1>12 DEF Next, Promise!Next

\* For every caller, the table keeps the promise of a bounded number of tries.
THEOREM Implementation == Spec => ImplementsBoundedRetry
<1>1. Init => Promise!Init
  BY DEF Init, Promise!Init, NoRow, PhaseOf
<1> QED BY <1>1, PromiseStep, TypeCorrect, ClaimsAccounted, PTL
        DEF Spec, ImplementsBoundedRetry, Promise!Spec

-----------------------------------------------------------------------------
(* Its callers.                                                            *)

Busy == {"building", "done", "broke"}

WorkerState == [at : Stages, asset : Assets \cup {nobody}, left : SUBSET Nat,
                tried : Nat, told : Tellings]

\* A worker that is busy has an asset, one that is not has none; it backs off by
\* the attempts of a row that had some left; and only what came to an end is told.
AtWork(r) ==
    /\ r.at \in Busy => r.asset \in Assets
    /\ r.at \notin Busy => r.asset = nobody
    /\ r.tried < MaxAttempts
    /\ r.told # "no" => r.at \in {"done", "broke"}

\* The types, what a worker has at each stage, and the account of the claims.
Shaped ==
    /\ WorkTypeOK
    /\ EveryClaimAccounted
    /\ \A w \in Workers : AtWork(worker[w])
    /\ requeue.todo \subseteq stored /\ requeue.cleared \subseteq requeue.todo

\* All that one of them may do, by itself.
Acts(w) == Work(w) \/ Trouble(w) \/ RunWork(w) \/ \E a \in Assets : DeriveHere(w, a)

-----------------------------------------------------------------------------
(* The table's own steps.                                                  *)

LEMMA Worked ==
    ASSUME Shaped, NEW w \in Workers
    PROVE  /\ worker[w] \in WorkerState /\ AtWork(worker[w])
           /\ worker[w].at \in Stages /\ worker[w].asset \in Assets \cup {nobody}
           /\ worker[w].left \in SUBSET Nat /\ worker[w].tried \in Nat
           /\ worker[w].tried < MaxAttempts /\ worker[w].told \in Tellings
           /\ worker[w].at \in Busy => worker[w].asset \in Assets
           /\ worker[w].at \notin Busy => worker[w].asset = nobody
  BY DEF Shaped, AtWork, WorkTypeOK, WorkerState

LEMMA FailureDelay ==
    ASSUME Shaped, NEW w \in Workers, ReportFailure(w)
    PROVE  worker[w].asset \in Assets /\ \E delay \in RetryDelays : FailJob(worker[w].asset, delay)
<1>1. worker[w].asset \in Assets /\ worker[w].tried \in 0..MaxAttempts - 1
  BY Worked, QueueAssumption DEF ReportFailure, Busy
<1>2. Backoff(worker[w].tried) \in RetryDelays /\ RemoteRetry \in RetryDelays
  BY <1>1, DerivingAssumption
<1> QED BY <1>1, <1>2 DEF ReportFailure

\* The steps of a worker that leave the table alone.
LEMMA AsideOfTable ==
    ASSUME NEW w \in Workers, Acts(w)
    PROVE  \/ UNCHANGED queueVars
           \/ AskForJob(w) \/ StartLocal(w) \/ ReportDone(w) \/ ReportFailure(w)
           \/ \E a \in Assets : TakeJob(w, a)
  BY DEF Acts, Work, Trouble, TakeNothing, PutRung, Finished, Unreadable, TimeReport, LogReport, Serve,
         Stumble, LogRefused, ReportRefused, Die, WorkExits, Stop, StartUnreleased, RunWork, DeriveHere

\* The steps of everybody else, and of time.
LEMMA OthersAside ==
    ASSUME Shaped, Upload \/ Requeue \/ TimePasses \/ UNCHANGED vars
    PROVE  /\ UNCHANGED <<worker, logged, closer, uncounted>>
           /\ stored \subseteq stored' /\ rebuilt \subseteq rebuilt'
           /\ dropped' = dropped
           /\ \/ UNCHANGED queueVars \/ Tick
              \/ \E a \in Assets : QueueUpload(a) \/ QueueAgain(a)
           /\ \A a \in Assets : a \in rebuilt' \/ rungs'[a] = rungs[a]
<1>1. Upload => /\ UNCHANGED <<worker, logged, closer, uncounted, dropped, rungs, rebuilt>>
                /\ stored \subseteq stored'
                /\ UNCHANGED queueVars \/ \E a \in Assets : QueueUpload(a)
  BY DEF Upload, InsertAsset, QueueUpload, QueueLost, historyVars
<1>2. ASSUME NEW a \in Assets, ClearRungs(a)
      PROVE  /\ UNCHANGED <<worker, logged, closer, uncounted, dropped, stored>> /\ rebuilt \subseteq rebuilt'
             /\ UNCHANGED queueVars
             /\ \A b \in Assets : b \in rebuilt' \/ rungs'[b] = rungs[b]
  BY <1>2 DEF ClearRungs, Shaped, WorkTypeOK
<1>3. Requeue /\ ~(\E a \in Assets : ClearRungs(a))
        => /\ UNCHANGED <<worker, logged, closer, uncounted, dropped, rungs, rebuilt, stored>>
           /\ UNCHANGED queueVars \/ \E a \in Assets : QueueAgain(a)
  BY DEF Requeue, ListCandidates, QueueAgain, RequeueStops, historyVars, catalogVars
<1>4. TimePasses \/ UNCHANGED vars
        => /\ UNCHANGED <<worker, logged, closer, uncounted, dropped, rungs, rebuilt, stored>>
           /\ UNCHANGED queueVars \/ Tick
  BY DEF TimePasses, vars, historyVars, catalogVars
<1> QED BY <1>1, <1>2, <1>3, <1>4

\* Every step of a caller is a statement of the table, or none.
LEMMA QueueStep == ASSUME Shaped, [DeriveNext]_vars PROVE [Next]_queueVars
<1>1. ASSUME NEW w \in Workers, Acts(w) PROVE [Next]_queueVars
  <2>1. ASSUME ReportDone(w) PROVE [Next]_queueVars
    BY <2>1, Worked DEF ReportDone, Busy, Next
  <2>2. ASSUME ReportFailure(w) PROVE [Next]_queueVars
    BY <2>2, FailureDelay DEF Next
  <2>3. ASSUME AskForJob(w) \/ StartLocal(w) PROVE [Next]_queueVars
    BY <2>3 DEF AskForJob, StartLocal, Next
  <2>4. ASSUME NEW a \in Assets, TakeJob(w, a) PROVE [Next]_queueVars
    BY <2>4 DEF TakeJob, Next
  <2> QED BY <1>1, <2>1, <2>2, <2>3, <2>4, AsideOfTable
<1>2. ASSUME Upload \/ Requeue \/ TimePasses \/ UNCHANGED vars PROVE [Next]_queueVars
  <2>1. \A a \in Assets : QueueUpload(a) \/ QueueAgain(a) => Next
    BY DEF QueueUpload, QueueAgain, Next
  <2> QED BY <1>2, <2>1, OthersAside DEF Next
<1> QED BY <1>1, <1>2 DEF DeriveNext, Acts

-----------------------------------------------------------------------------
(* Types.                                                                  *)

LEMMA Records ==
    ASSUME Shaped, NEW w \in Workers
    PROVE  /\ \A stage \in Stages \ Busy :
                /\ Resting(stage) \in WorkerState /\ AtWork(Resting(stage))
                /\ Resting(stage).at = stage /\ Resting(stage).asset = nobody
           /\ \A a \in Assets, n \in 0..MaxAttempts - 1 :
                LET r == Building(w, a, n) IN
                /\ r \in WorkerState /\ AtWork(r)
                /\ r.at = "building" /\ r.asset = a /\ r.left = Ladder[w][a]
           /\ worker[w].at = "building" => \A stage \in Busy :
                LET r == [worker[w] EXCEPT !.at = stage] IN
                /\ r \in WorkerState /\ AtWork(r)
                /\ r.at = stage /\ r.asset = worker[w].asset
           /\ worker[w].at = "building" => \A rung :
                LET r == [worker[w] EXCEPT !.left = @ \ {rung}] IN
                /\ r \in WorkerState /\ AtWork(r)
                /\ r.at = "building" /\ r.asset = worker[w].asset /\ r.left = worker[w].left \ {rung}
           /\ worker[w].at \in {"done", "broke"} => \A telling \in Tellings :
                LET r == [worker[w] EXCEPT !.told = telling] IN
                /\ r \in WorkerState /\ AtWork(r)
                /\ r.at = worker[w].at /\ r.asset = worker[w].asset /\ r.told = telling
<1>1. MaxAttempts \in Nat \ {0}
  BY QueueAssumption
<1>2. worker[w] \in WorkerState /\ AtWork(worker[w])
  BY Worked
<1>3. ASSUME NEW stage \in Stages \ Busy
      PROVE  /\ Resting(stage) \in WorkerState /\ AtWork(Resting(stage))
             /\ Resting(stage).at = stage /\ Resting(stage).asset = nobody
  BY <1>1 DEF Resting, WorkerState, AtWork, Tellings
<1>4. ASSUME NEW a \in Assets, NEW n \in 0..MaxAttempts - 1
      PROVE  LET r == Building(w, a, n) IN
             /\ r \in WorkerState /\ AtWork(r)
             /\ r.at = "building" /\ r.asset = a /\ r.left = Ladder[w][a]
  <2>1. Ladder[w][a] \in SUBSET Nat
    BY DerivingAssumption
  <2> QED BY <1>1, <2>1 DEF Building, WorkerState, AtWork, Stages, Busy, Tellings
<1>5. ASSUME worker[w].at = "building", NEW stage \in Busy
      PROVE  LET r == [worker[w] EXCEPT !.at = stage] IN
                /\ r \in WorkerState /\ AtWork(r)
                /\ r.at = stage /\ r.asset = worker[w].asset
  BY <1>1, <1>2, <1>5 DEF WorkerState, AtWork, Stages, Busy
<1>6. ASSUME worker[w].at = "building", NEW rung
      PROVE  LET r == [worker[w] EXCEPT !.left = @ \ {rung}] IN
                /\ r \in WorkerState /\ AtWork(r)
                /\ r.at = "building" /\ r.asset = worker[w].asset /\ r.left = worker[w].left \ {rung}
  BY <1>1, <1>2, <1>6 DEF WorkerState, AtWork
<1>7. ASSUME worker[w].at \in {"done", "broke"}, NEW telling \in Tellings
      PROVE  LET r == [worker[w] EXCEPT !.told = telling] IN
                /\ r \in WorkerState /\ AtWork(r)
                /\ r.at = worker[w].at /\ r.asset = worker[w].asset /\ r.told = telling
  BY <1>1, <1>2, <1>7 DEF WorkerState, AtWork
<1> QED BY <1>3, <1>4, <1>5, <1>6, <1>7

\* A row that is due has attempts left, so what a worker notes of it is in range.
LEMMA Tried ==
    ASSUME Shaped, NEW a \in Assets, ClaimJob(a)
    PROVE  jobs[a].attempts \in 0..MaxAttempts - 1
  BY QueueAssumption
  DEF Shaped, WorkTypeOK, TypeOK, Row, EveryClaimAccounted, Accounted, ClaimJob, FirstDue, Due

\* What a step of one worker makes of it.
Becomes(w, r) == /\ r \in WorkerState /\ AtWork(r)
                 /\ worker' = [worker EXCEPT ![w] = r]

\* The steps that leave a worker without an asset.
Rests(w) == \/ AskForJob(w) \/ TakeNothing(w) \/ ReportDone(w) \/ ReportFailure(w)
            \/ ReportRefused(w) \/ Serve(w) \/ StartLocal(w) \/ StartUnreleased(w) \/ RunWork(w)

Tells(w) == TimeReport(w) \/ LogReport(w) \/ LogRefused(w)

LEMMA WorkerStep ==
    ASSUME Shaped, NEW w \in Workers
    PROVE  /\ AskForJob(w) => Becomes(w, Resting("asked"))
           /\ Serve(w) => Becomes(w, Resting("starting"))
           /\ TakeNothing(w) \/ ReportDone(w) \/ ReportFailure(w) \/ ReportRefused(w) => Becomes(w, Resting("idle"))
           /\ StartLocal(w) \/ StartUnreleased(w) \/ RunWork(w) => Becomes(w, Resting("idle"))
           /\ \A a \in Assets : TakeJob(w, a) => Becomes(w, Building(w, a, jobs[a].attempts))
           /\ \A a \in Assets : DeriveHere(w, a) => Becomes(w, Building(w, a, 0))
           /\ PutRung(w) => \E rung \in worker[w].left :
                               Becomes(w, [worker[w] EXCEPT !.left = @ \ {rung}])
           /\ Finished(w) => Becomes(w, [worker[w] EXCEPT !.at = "done"])
           /\ Unreadable(w) => Becomes(w, IF w \in Clients THEN Stopped(w)
                                          ELSE [worker[w] EXCEPT !.at = "done"])
           /\ Stumble(w) => Becomes(w, IF w \in Clients THEN Stopped(w)
                                       ELSE [worker[w] EXCEPT !.at = "broke"])
           /\ Tells(w) => \E telling \in Tellings :
                             Becomes(w, [worker[w] EXCEPT !.told = telling])
<1>1. {"asked", "idle", "starting", "off"} \subseteq Stages \ Busy
      /\ {"building", "done", "broke"} = Busy /\ 0 \in 0..MaxAttempts - 1
      /\ "timed" \in Tellings /\ "logged" \in Tellings
  BY QueueAssumption DEF Stages, Busy, Tellings
<1>2. worker = [v \in Workers |-> worker[v]]
  BY DEF Shaped, WorkTypeOK
<1>3. Stopped(w) \in WorkerState /\ AtWork(Stopped(w))
  BY <1>1, Records DEF Stopped
<1>4. AskForJob(w) => Becomes(w, Resting("asked"))
  BY <1>1, Records DEF AskForJob, Becomes
<1>5. Serve(w) => Becomes(w, Resting("starting"))
  BY <1>1, Records DEF Serve, Becomes
<1>6. /\ TakeNothing(w) \/ ReportDone(w) \/ ReportFailure(w) \/ ReportRefused(w) => Becomes(w, Resting("idle"))
      /\ StartLocal(w) \/ StartUnreleased(w) \/ RunWork(w) => Becomes(w, Resting("idle"))
  BY <1>1, Records DEF TakeNothing, ReportDone, ReportFailure, ReportRefused, StartLocal, StartUnreleased,
                       RunWork, BackToRest, Becomes
<1>7. ASSUME NEW a \in Assets, TakeJob(w, a) PROVE Becomes(w, Building(w, a, jobs[a].attempts))
  BY <1>7, Tried, Records DEF TakeJob, Becomes
<1>8. ASSUME NEW a \in Assets, DeriveHere(w, a) PROVE Becomes(w, Building(w, a, 0))
  BY <1>1, <1>8, Records DEF DeriveHere, Becomes
<1>9. ASSUME PutRung(w)
      PROVE  \E rung \in worker[w].left : Becomes(w, [worker[w] EXCEPT !.left = @ \ {rung}])
  <2>1. PICK rung \in worker[w].left : worker' = [worker EXCEPT ![w].left = @ \ {rung}]
    BY <1>9 DEF PutRung
  <2>2. worker[w].at = "building"
    BY <1>9 DEF PutRung
  <2> QED BY <1>2, <2>1, <2>2, Records DEF Becomes
<1>10. Finished(w) => Becomes(w, [worker[w] EXCEPT !.at = "done"])
  BY <1>1, <1>2, Records DEF Finished, Becomes
<1>11. Unreadable(w) => Becomes(w, IF w \in Clients THEN Stopped(w)
                                    ELSE [worker[w] EXCEPT !.at = "done"])
  BY <1>1, <1>2, <1>3, Records DEF Unreadable, Becomes
<1>12. Stumble(w) => Becomes(w, IF w \in Clients THEN Stopped(w)
                                 ELSE [worker[w] EXCEPT !.at = "broke"])
  BY <1>1, <1>2, <1>3, Records DEF Stumble, Becomes
<1>13. ASSUME Tells(w)
       PROVE  \E telling \in Tellings : Becomes(w, [worker[w] EXCEPT !.told = telling])
  <2>1. worker[w].at \in {"done", "broke"}
    BY <1>13 DEF Tells, TimeReport, LogReport, LogRefused, Reporting
  <2>2. PICK telling \in Tellings : worker' = [worker EXCEPT ![w].told = telling]
    BY <1>1, <1>13 DEF Tells, TimeReport, LogReport, LogRefused
  <2> QED BY <1>2, <2>1, <2>2, Records DEF Becomes
<1> QED BY <1>4, <1>5, <1>6, <1>7, <1>8, <1>9, <1>10, <1>11, <1>12, <1>13

LEMMA BecomesKept ==
    ASSUME Shaped, NEW w \in Workers, NEW r, Becomes(w, r)
    PROVE  /\ worker' \in [Workers -> WorkerState]
           /\ worker'[w] = r
           /\ \A v \in Workers \ {w} : worker'[v] = worker[v]
           /\ \A v \in Workers : AtWork(worker'[v])
  BY DEF Shaped, WorkTypeOK, WorkerState, Becomes

\* The steps that begin with an asset, and those that go on with one.
LEMMA Onward ==
    ASSUME Shaped, NEW w \in Workers
    PROVE  /\ Rests(w) => worker'[w].at \in {"asked", "idle", "starting"}
           /\ \A a \in Assets : TakeJob(w, a) \/ DeriveHere(w, a) =>
                /\ worker'[w].at = "building" /\ worker'[w].asset = a /\ worker'[w].told = "no"
                /\ worker'[w].left = Ladder[w][a]
           /\ PutRung(w) => \E rung \in worker[w].left :
                /\ worker'[w].at = "building" /\ worker'[w].asset = worker[w].asset
                /\ worker'[w].left = worker[w].left \ {rung}
           /\ Finished(w) => worker'[w].at = "done" /\ worker'[w].asset = worker[w].asset
                             /\ worker'[w].told = worker[w].told
           /\ Unreadable(w) => \/ w \in Clients /\ worker'[w].at = "idle"
                               \/ /\ worker'[w].at = "done" /\ worker'[w].asset = worker[w].asset
                                  /\ worker'[w].told = worker[w].told
           /\ Stumble(w) => \/ w \in Clients /\ worker'[w].at = "idle"
                            \/ /\ w \notin Clients
                               /\ worker'[w].at = "broke" /\ worker'[w].asset = worker[w].asset
           /\ Tells(w) => /\ worker'[w].at = worker[w].at /\ worker'[w].asset = worker[w].asset
<1>1. worker \in [Workers -> WorkerState]
  BY DEF Shaped, WorkTypeOK, WorkerState
<1>2. \A stage : Resting(stage).at = stage
  BY DEF Resting
<1>0. ASSUME NEW r, Becomes(w, r) PROVE worker'[w] = r
  BY <1>0, BecomesKept
<1>3. Rests(w) => worker'[w].at \in {"asked", "idle", "starting"}
  <2>1. Rests(w) => \/ Becomes(w, Resting("asked")) \/ Becomes(w, Resting("starting"))
                    \/ Becomes(w, Resting("idle"))
    BY WorkerStep DEF Rests
  <2> QED BY <1>0, <1>2, <2>1
<1>4. ASSUME NEW a \in Assets, TakeJob(w, a) \/ DeriveHere(w, a)
      PROVE  /\ worker'[w].at = "building" /\ worker'[w].asset = a /\ worker'[w].told = "no"
             /\ worker'[w].left = Ladder[w][a]
  <2>1. Becomes(w, Building(w, a, jobs[a].attempts)) \/ Becomes(w, Building(w, a, 0))
    BY <1>4, WorkerStep
  <2>2. PICK n : worker'[w] = Building(w, a, n)
    BY <1>0, <2>1
  <2> QED BY <2>2 DEF Building
<1>5. PutRung(w) => \E rung \in worker[w].left :
                /\ worker'[w].at = "building" /\ worker'[w].asset = worker[w].asset
                /\ worker'[w].left = worker[w].left \ {rung}
  BY <1>1 DEF PutRung, WorkerState
<1>6. Finished(w) => worker'[w].at = "done" /\ worker'[w].asset = worker[w].asset
                     /\ worker'[w].told = worker[w].told
  BY <1>1 DEF Finished, WorkerState
<1>7. ASSUME Unreadable(w)
      PROVE  \/ w \in Clients /\ worker'[w].at = "idle"
             \/ /\ worker'[w].at = "done" /\ worker'[w].asset = worker[w].asset
                /\ worker'[w].told = worker[w].told
  BY <1>1, <1>2, <1>7 DEF Unreadable, Stopped, WorkerState
<1>8. ASSUME Stumble(w)
      PROVE  \/ w \in Clients /\ worker'[w].at = "idle"
             \/ /\ w \notin Clients
                /\ worker'[w].at = "broke" /\ worker'[w].asset = worker[w].asset
  BY <1>1, <1>2, <1>8 DEF Stumble, Stopped, WorkerState
<1>9. Tells(w) => worker'[w].at = worker[w].at /\ worker'[w].asset = worker[w].asset
  BY <1>1 DEF Tells, TimeReport, LogReport, LogRefused, WorkerState
<1> QED BY <1>3, <1>4, <1>5, <1>6, <1>7, <1>8, <1>9

LEMMA StopKept ==
    ASSUME Shaped, NEW w \in Workers, Stop(w)
    PROVE  /\ worker' \in [Workers -> WorkerState]
           /\ worker'[w] = Stopped(w)
           /\ \A v \in Workers : worker'[v] = worker[v] \/ worker'[v] = Stopped(v)
           /\ \A v \in Workers : AtWork(worker'[v])
<1>1. \A v \in Workers : Stopped(v) \in WorkerState /\ AtWork(Stopped(v))
  BY Records DEF Stopped, Stages, Busy
<1>2. worker' = [v \in Workers |-> IF Interrupted(w, v) THEN Stopped(v) ELSE worker[v]]
  BY DEF Stop
<1>3. \A v \in Workers : worker[v] \in WorkerState /\ AtWork(worker[v])
  BY Worked
<1> QED BY <1>1, <1>2, <1>3 DEF Interrupted

LEMMA StoppedRests ==
    ASSUME NEW w \in Workers
    PROVE  /\ Stopped(w).at \in {"off", "idle"} /\ Stopped(w).asset = nobody /\ Stopped(w).told = "no"
           /\ w \notin Clients => Stopped(w).at = "off"
           /\ w \in Clients => Stopped(w).at = "idle"
  BY DEF Stopped, Resting

\* Each step of a worker, by what it makes of it.
LEMMA Kinds ==
    ASSUME NEW w \in Workers, Acts(w)
    PROVE  \/ Rests(w) \/ (\E a \in Assets : TakeJob(w, a) \/ DeriveHere(w, a)) \/ PutRung(w)
           \/ Finished(w) \/ Unreadable(w) \/ Stumble(w) \/ Tells(w) \/ Stop(w)
  BY DEF Acts, Work, Trouble, Rests, Tells, Die, WorkExits

LEMMA ActsBecomes ==
    ASSUME Shaped, NEW w \in Workers, Acts(w) PROVE Stop(w) \/ \E r : Becomes(w, r)
<1>1. Rests(w) => \E r : Becomes(w, r)
  BY WorkerStep DEF Rests
<1>2. \A a \in Assets : TakeJob(w, a) \/ DeriveHere(w, a) => \E r : Becomes(w, r)
  BY WorkerStep
<1>3. PutRung(w) \/ Finished(w) \/ Unreadable(w) \/ Stumble(w) \/ Tells(w) => \E r : Becomes(w, r)
  BY WorkerStep
<1> QED BY <1>1, <1>2, <1>3, Kinds

\* A worker is taken further by itself only; somebody else's step may stop it.
LEMMA Actors ==
    ASSUME Shaped, [DeriveNext]_vars, NEW w \in Workers
    PROVE  Acts(w) \/ worker'[w] = worker[w] \/ worker'[w] = Stopped(w)
<1>1. ASSUME NEW v \in Workers, v # w, Acts(v)
      PROVE  worker'[w] = worker[w] \/ worker'[w] = Stopped(w)
  BY <1>1, ActsBecomes, StopKept, BecomesKept
<1> QED BY <1>1, OthersAside DEF DeriveNext, Acts

LEMMA WorkersKept ==
    ASSUME Shaped, [DeriveNext]_vars
    PROVE  worker' \in [Workers -> WorkerState] /\ \A v \in Workers : AtWork(worker'[v])
<1>1. ASSUME worker' = worker
      PROVE  worker' \in [Workers -> WorkerState] /\ \A v \in Workers : AtWork(worker'[v])
  BY <1>1 DEF Shaped, WorkTypeOK, WorkerState
<1>2. ASSUME NEW w \in Workers, Acts(w)
      PROVE  worker' \in [Workers -> WorkerState] /\ \A v \in Workers : AtWork(worker'[v])
  BY <1>2, ActsBecomes, StopKept, BecomesKept
<1> QED BY <1>1, <1>2, OthersAside DEF DeriveNext, Acts

\* What one worker's step leaves alone, or which step it is.
LEMMA ActsAside ==
    ASSUME NEW w \in Workers, Acts(w)
    PROVE  /\ UNCHANGED <<stored, rebuilt, requeue, requeues>> /\ unqueued' \subseteq unqueued
           /\ PutRung(w) \/ UNCHANGED rungs
           /\ LogReport(w) \/ UNCHANGED logged
           /\ LogRefused(w) \/ UNCHANGED uncounted
           /\ ReportDone(w) \/ UNCHANGED closer
           /\ \/ AskForJob(w) \/ StartLocal(w) \/ StartUnreleased(w) \/ ReportRefused(w)
              \/ (\E a \in Assets : TakeJob(w, a)) \/ UNCHANGED dropped
<1>1. CASE AskForJob(w) \/ TakeNothing(w) \/ \E a \in Assets : TakeJob(w, a) \/ DeriveHere(w, a)
  BY <1>1 DEF AskForJob, TakeNothing, TakeJob, DeriveHere, catalogVars, requeueVars, historyVars
<1>2. CASE PutRung(w) \/ Finished(w) \/ Unreadable(w) \/ Stumble(w)
  BY <1>2 DEF PutRung, Finished, Unreadable, Stumble, catalogVars, requeueVars, historyVars
<1>3. CASE TimeReport(w) \/ LogReport(w) \/ LogRefused(w)
  BY <1>3 DEF TimeReport, LogReport, LogRefused, catalogVars, requeueVars, historyVars
<1>4. CASE ReportDone(w) \/ ReportFailure(w) \/ ReportRefused(w)
  BY <1>4 DEF ReportDone, ReportFailure, ReportRefused, catalogVars, requeueVars, historyVars
<1>5. CASE Stop(w)
  BY <1>5 DEF Stop, requeueVars, historyVars
<1>6. CASE Serve(w) \/ RunWork(w) \/ StartLocal(w) \/ StartUnreleased(w)
  BY <1>6 DEF Serve, RunWork, StartLocal, StartUnreleased, catalogVars, requeueVars, historyVars
<1> QED BY <1>1, <1>2, <1>3, <1>4, <1>5, <1>6, Kinds DEF Rests, Tells

\* The assets that are stored, queued or rebuilt.
Listed == /\ stored \subseteq Assets /\ unqueued \subseteq stored /\ rebuilt \subseteq stored
          /\ requeue \in [mode : {"off", "fill", "rebuild"}, todo : SUBSET Assets, cleared : SUBSET Assets]
          /\ requeue.todo \subseteq stored /\ requeue.cleared \subseteq requeue.todo
          /\ requeues \in 0..MaxRequeues

LEMMA ListsKept == ASSUME Shaped, [DeriveNext]_vars PROVE Listed'
<1>0. Listed
  BY DEF Shaped, WorkTypeOK, Listed
<1>1. ASSUME Upload PROVE Listed'
  BY <1>0, <1>1 DEF Upload, InsertAsset, QueueUpload, QueueLost, Listed, requeueVars, historyVars
<1>2. ASSUME NEW w \in Workers, Acts(w) PROVE Listed'
  BY <1>0, <1>2, ActsAside DEF Listed
<1>3. ASSUME NEW mode \in RequeueModes, ListCandidates(mode) PROVE Listed'
  <2>1. Candidates(mode) \subseteq stored /\ mode \in {"fill", "rebuild"}
    BY DerivingAssumption DEF Candidates
  <2> QED BY <1>0, <1>3, <2>1, DerivingAssumption DEF ListCandidates, Listed, catalogVars, historyVars
<1>4. ASSUME NEW a \in Assets, ClearRungs(a) PROVE Listed'
  BY <1>0, <1>4 DEF ClearRungs, Listed
<1>5. ASSUME NEW a \in Assets, QueueAgain(a) PROVE Listed'
  BY <1>0, <1>5 DEF QueueAgain, Listed, NoRequeue, catalogVars, historyVars
<1>6. ASSUME RequeueStops PROVE Listed'
  BY <1>0, <1>6 DEF RequeueStops, Listed, NoRequeue, catalogVars, historyVars
<1>7. ASSUME TimePasses \/ UNCHANGED vars PROVE Listed'
  BY <1>0, <1>7 DEF TimePasses, vars, Listed, catalogVars, requeueVars, historyVars
<1> QED BY <1>1, <1>2, <1>3, <1>4, <1>5, <1>6, <1>7 DEF DeriveNext, Requeue, Acts

\* What is stored and logged of an asset, and what is remembered of it.
Recorded == /\ rungs \in [Assets -> SUBSET Nat]
            /\ logged \in [Assets -> SUBSET {"ok", "failed"}]
            /\ closer \in [Assets -> Workers \cup {nobody}]
            /\ dropped \subseteq Assets /\ uncounted \subseteq Assets

LEMMA RecordsKept == ASSUME Shaped, [DeriveNext]_vars PROVE Recorded'
<1>0. Recorded
  BY DEF Shaped, WorkTypeOK, Recorded
<1>1. ASSUME NEW w \in Workers, Acts(w) PROVE Recorded'
  <2>0. worker[w].at \in Busy => worker[w].asset \in Assets
    BY Worked
  <2>1. rungs' \in [Assets -> SUBSET Nat]
    <3>1. CASE PutRung(w)
      <4>1. PICK rung \in worker[w].left : rungs' = [rungs EXCEPT ![worker[w].asset] = @ \cup {rung}]
        BY <3>1 DEF PutRung
      <4>2. rung \in Nat
        BY <4>1, Worked
      <4> QED BY <1>0, <4>1, <4>2 DEF Recorded
    <3> QED BY <1>0, <1>1, <3>1, ActsAside DEF Recorded
  <2>2. logged' \in [Assets -> SUBSET {"ok", "failed"}]
    <3>1. CASE LogReport(w)
      BY <1>0, <3>1 DEF LogReport, Recorded
    <3> QED BY <1>0, <1>1, <3>1, ActsAside DEF Recorded
  <2>3. closer' \in [Assets -> Workers \cup {nobody}]
    <3>1. CASE ReportDone(w)
      BY <1>0, <3>1 DEF ReportDone, Recorded
    <3> QED BY <1>0, <1>1, <3>1, ActsAside DEF Recorded
  <2>4. uncounted' \subseteq Assets
    <3>1. CASE LogRefused(w)
      BY <1>0, <2>0, <3>1 DEF LogRefused, Reporting, Busy, Recorded
    <3> QED BY <1>0, <1>1, <3>1, ActsAside DEF Recorded
  <2>5. dropped' \subseteq Assets
    <3>1. CASE ReportRefused(w)
      BY <1>0, <2>0, <3>1 DEF ReportRefused, Reporting, Busy, Recorded
    <3>2. CASE AskForJob(w) \/ StartLocal(w) \/ StartUnreleased(w)
      BY <1>0, <3>2 DEF AskForJob, StartLocal, StartUnreleased, Running, Recorded
    <3>3. CASE \E a \in Assets : TakeJob(w, a)
      BY <1>0, <3>3 DEF TakeJob, Recorded
    <3> QED BY <1>0, <1>1, <3>1, <3>2, <3>3, ActsAside DEF Recorded
  <2> QED BY <2>1, <2>2, <2>3, <2>4, <2>5 DEF Recorded
<1>2. ASSUME NEW a \in Assets, ClearRungs(a) PROVE rungs' \in [Assets -> SUBSET Nat]
  BY <1>0, <1>2 DEF ClearRungs, Recorded
<1>3. Upload \/ (Requeue /\ ~\E a \in Assets : ClearRungs(a)) \/ TimePasses \/ UNCHANGED vars
        => UNCHANGED rungs
  BY DEF Upload, InsertAsset, QueueUpload, QueueLost, Requeue, ListCandidates, QueueAgain, RequeueStops,
         TimePasses, vars, catalogVars
<1>4. ASSUME Upload \/ Requeue \/ TimePasses \/ UNCHANGED vars PROVE Recorded'
  BY <1>0, <1>2, <1>3, <1>4, OthersAside DEF Recorded
<1> QED BY <1>1, <1>4 DEF DeriveNext, Acts

LEMMA ShapedStep == ASSUME Shaped, [DeriveNext]_vars PROVE Shaped'
<1>1. TypeOK' /\ EveryClaimAccounted'
  BY QueueStep, TypeStep, AccountKept DEF Shaped, WorkTypeOK
<1> QED BY <1>1, WorkersKept, ListsKept, RecordsKept DEF Shaped, WorkTypeOK, WorkerState, Listed, Recorded

LEMMA ShapedInit == ASSUME DeriveInit PROVE Shaped
<1>1. TypeOK /\ EveryClaimAccounted
  BY QueueAssumption
  DEF DeriveInit, Init, TypeOK, EveryClaimAccounted, AttemptBound, Accounted, NoRow, Row, States, Reasons
<1>2. \A w \in Workers : Stopped(w) \in WorkerState /\ AtWork(Stopped(w))
  BY QueueAssumption DEF Stopped, Resting, WorkerState, AtWork, Stages, Busy, Tellings
<1> QED BY <1>1, <1>2, DerivingAssumption
        DEF Shaped, WorkTypeOK, WorkerState, DeriveInit, NoRequeue

\* Types, and what each worker has at each stage, in every reachable state.
THEOREM CallersShaped == DeriveSpec => []Shaped
  BY ShapedInit, ShapedStep, PTL DEF DeriveSpec

\* The types are a part of it.
THEOREM WorkTyped == DeriveSpec => []WorkTypeOK
<1>1. Shaped => WorkTypeOK
  BY DEF Shaped
<1> QED BY <1>1, CallersShaped, PTL

\* No worker can take a job down with it more often than MaxAttempts.
THEOREM CallersBounded == DeriveSpec => []AttemptBound
<1>1. Shaped => AttemptBound
  BY DEF Shaped, EveryClaimAccounted
<1> QED BY <1>1, CallersShaped, PTL

-----------------------------------------------------------------------------
(* What a step may do to a row.                                            *)

\* Nothing that matters here, or one of the statements that move a row.
Alike(a) == /\ jobs'[a].state = jobs[a].state /\ jobs'[a].attempts = jobs[a].attempts
            /\ claims'[a] = claims[a]

LEMMA RowMoves ==
    ASSUME Shaped, [DeriveNext]_vars, NEW a \in Assets
    PROVE  \/ Alike(a)
           \/ ~Queued(a) /\ (QueueUpload(a) \/ QueueAgain(a))
           \/ \E w \in Workers : TakeJob(w, a)
           \/ \E w \in Workers : worker[w].asset = a /\ (ReportDone(w) \/ ReportFailure(w))
           \/ \E w \in Workers : AskForJob(w) \/ StartLocal(w)
<1>0. /\ jobs \in [Assets -> Row] /\ claims \in [Assets -> Nat]
      /\ \A b \in Assets : jobs[b].state \in States
  BY DEF Shaped, WorkTypeOK, TypeOK, Row
<1>1. UNCHANGED queueVars => Alike(a)
  BY DEF queueVars, Alike
<1>2. ASSUME NEW b \in Assets, Enqueue(b) PROVE Alike(a) \/ (a = b /\ ~Queued(a))
  BY <1>0, <1>2 DEF Enqueue, InsertedRow, Queued, Alike
<1>3. ASSUME NEW b \in Assets, ClaimJob(b) PROVE Alike(a) \/ a = b
  BY <1>0, <1>3 DEF ClaimJob, Alike
<1>4. ASSUME NEW b \in Assets, CompleteJob(b) PROVE Alike(a) \/ a = b
  BY <1>0, <1>4 DEF CompleteJob, Alike
<1>5. ASSUME NEW b \in Assets, NEW delay, FailJob(b, delay) PROVE Alike(a) \/ a = b
  BY <1>0, <1>5 DEF FailJob, Alike
<1>6. ASSUME Tick PROVE Alike(a)
  BY <1>0, <1>6 DEF Tick, AgedRow, Alike, Row
<1>7. ASSUME Upload \/ Requeue \/ TimePasses \/ UNCHANGED vars
      PROVE  Alike(a) \/ (~Queued(a) /\ (QueueUpload(a) \/ QueueAgain(a)))
  <2>1. ASSUME NEW b \in Assets, QueueUpload(b) \/ QueueAgain(b)
        PROVE  Alike(a) \/ (a = b /\ ~Queued(a))
    BY <1>2, <2>1 DEF QueueUpload, QueueAgain
  <2> QED BY <1>1, <1>6, <1>7, <2>1, OthersAside
<1>8. ASSUME NEW w \in Workers, Acts(w)
      PROVE  \/ Alike(a) \/ TakeJob(w, a) \/ AskForJob(w) \/ StartLocal(w)
             \/ worker[w].asset = a /\ (ReportDone(w) \/ ReportFailure(w))
  <2>1. ASSUME ReportDone(w) \/ ReportFailure(w) PROVE Alike(a) \/ worker[w].asset = a
    <3>1. worker[w].asset \in Assets
      BY <2>1, Worked DEF ReportDone, ReportFailure, Busy
    <3> QED BY <1>4, <1>5, <2>1, <3>1 DEF ReportDone, ReportFailure
  <2>2. ASSUME NEW b \in Assets, TakeJob(w, b) PROVE Alike(a) \/ a = b
    BY <1>3, <2>2 DEF TakeJob
  <2> QED BY <1>1, <1>8, <2>1, <2>2, AsideOfTable
<1> QED BY <1>7, <1>8 DEF DeriveNext, Acts

\* What each of these makes of the row.
LEMMA Moved ==
    ASSUME Shaped, NEW a \in Assets
    PROVE  /\ ~Queued(a) /\ Enqueue(a) =>
                jobs'[a].state = "pending" /\ jobs'[a].attempts = 0 /\ claims'[a] = 0
           /\ ClaimJob(a) => /\ jobs[a].state = "pending" /\ jobs'[a].state = "running"
                             /\ jobs'[a].attempts = jobs[a].attempts /\ claims'[a] = claims[a] + 1
           /\ CompleteJob(a) => /\ jobs'[a].state = "none" /\ jobs'[a].attempts = 0
                                /\ claims'[a] = claims[a]
           /\ \A delay \in Nat : FailJob(a, delay) =>
                /\ claims'[a] = claims[a]
                /\ Queued(a) => /\ jobs'[a].state \in {"pending", "failed"}
                                /\ jobs'[a].attempts = jobs[a].attempts + 1
                /\ ~Queued(a) => jobs'[a] = jobs[a]
           /\ ReleaseClaimedJobs =>
                /\ claims'[a] = claims[a]
                /\ jobs[a].state = "running" => /\ jobs'[a].state \in {"pending", "failed"}
                                                /\ jobs'[a].attempts = jobs[a].attempts + 1
                /\ jobs[a].state # "running" => jobs'[a] = jobs[a]
           /\ ReleaseStaleJobs /\ a \in Stale => jobs'[a].state \in {"pending", "failed"}
           /\ ReleaseStaleJobs /\ a \notin Stale => jobs'[a] = jobs[a]
<1>0. jobs \in [Assets -> Row] /\ claims \in [Assets -> Nat] /\ jobs[a] \in Row
  BY DEF Shaped, WorkTypeOK, TypeOK
<1>1. ~Queued(a) /\ Enqueue(a) =>
        jobs'[a].state = "pending" /\ jobs'[a].attempts = 0 /\ claims'[a] = 0
  BY <1>0 DEF Enqueue, InsertedRow, FreshRow, NoRow, Queued
<1>2. ClaimJob(a) => /\ jobs[a].state = "pending" /\ jobs'[a].state = "running"
                     /\ jobs'[a].attempts = jobs[a].attempts /\ claims'[a] = claims[a] + 1
  BY <1>0 DEF ClaimJob, FirstDue, Due, ClaimedRow, Row
<1>3. CompleteJob(a) => jobs'[a].state = "none" /\ jobs'[a].attempts = 0 /\ claims'[a] = claims[a]
  BY <1>0 DEF CompleteJob, NoRow
<1>4. ASSUME NEW delay \in Nat, FailJob(a, delay)
      PROVE  /\ claims'[a] = claims[a]
             /\ Queued(a) => /\ jobs'[a].state \in {"pending", "failed"}
                             /\ jobs'[a].attempts = jobs[a].attempts + 1
             /\ ~Queued(a) => jobs'[a] = jobs[a]
  BY <1>0, <1>4, Charge DEF FailJob
<1>5. ReleaseClaimedJobs =>
        /\ claims'[a] = claims[a]
        /\ jobs[a].state = "running" => /\ jobs'[a].state \in {"pending", "failed"}
                                        /\ jobs'[a].attempts = jobs[a].attempts + 1
        /\ jobs[a].state # "running" => jobs'[a] = jobs[a]
  BY <1>0, Charge DEF ReleaseClaimedJobs, Release, Running
<1>6. ReleaseStaleJobs /\ a \in Stale => jobs'[a].state \in {"pending", "failed"}
  BY <1>0, Charge DEF ReleaseStaleJobs, Release
<1>7. ReleaseStaleJobs /\ a \notin Stale => jobs'[a] = jobs[a]
  BY <1>0 DEF ReleaseStaleJobs, Release
<1> QED BY <1>1, <1>2, <1>3, <1>4, <1>5, <1>6, <1>7

\* A row comes by the tail of an upload or by requeue.
LEMMA QueuedBy ==
    ASSUME Shaped, [DeriveNext]_vars, NEW a \in Assets, Queued(a)', ~Queued(a)
    PROVE  QueueUpload(a) \/ QueueAgain(a)
<1>0. RetryDelays \subseteq Nat
  BY QueueAssumption
<1>1. ~Alike(a) /\ jobs'[a] # jobs[a]
  BY DEF Alike, Queued
<1>2. \A w \in Workers : ~TakeJob(w, a)
  BY DEF TakeJob, ClaimJob, FirstDue, Due, Queued
<1>3. ASSUME NEW w \in Workers, worker[w].asset = a, ReportDone(w) \/ ReportFailure(w) PROVE FALSE
  <2>1. ReportDone(w) => FALSE
    BY <1>3, Moved DEF ReportDone, Queued
  <2>2. ReportFailure(w) => FALSE
    BY <1>0, <1>1, <1>3, FailureDelay, Moved
  <2> QED BY <1>3, <2>1, <2>2
<1>4. \A w \in Workers : ~AskForJob(w) /\ ~StartLocal(w)
  BY <1>1, Moved DEF AskForJob, StartLocal, Queued, Stale
<1> QED BY <1>1, <1>2, <1>3, <1>4, RowMoves

\* It goes by a report that the work is done.
LEMMA GoneBy ==
    ASSUME Shaped, [DeriveNext]_vars, NEW a \in Assets, Queued(a), ~Queued(a)'
    PROVE  \E w \in Workers : worker[w].asset = a /\ ReportDone(w)
<1>0. RetryDelays \subseteq Nat
  BY QueueAssumption
<1>1. ~Alike(a) /\ jobs'[a] # jobs[a]
  BY DEF Alike, Queued
<1>2. \A w \in Workers : ~TakeJob(w, a)
  BY Moved DEF TakeJob, Queued
<1>3. ASSUME NEW w \in Workers, worker[w].asset = a, ReportFailure(w) PROVE FALSE
  BY <1>0, <1>3, FailureDelay, Moved DEF Queued
<1>4. \A w \in Workers : ~AskForJob(w) /\ ~StartLocal(w)
  BY <1>1, Moved DEF AskForJob, StartLocal, Queued
<1> QED BY <1>1, <1>2, <1>3, <1>4, RowMoves

-----------------------------------------------------------------------------
(* The forms.                                                              *)

WholeOrRebuilt(w, a) == a \in rebuilt \/ Whole(w, a)

\* A worker has put its own ladder, up to what is left of it, and all of it when it
\* is done, unless the forms were thrown away meanwhile.
Made(w) ==
    LET a == worker[w].asset IN
    /\ worker[w].at = "building" =>
         a \in rebuilt \/ Ladder[w][a] \subseteq rungs[a] \cup worker[w].left
    /\ worker[w].at = "done" => WholeOrRebuilt(w, a)

Closed == \A a \in Assets : closer[a] # nobody => WholeOrRebuilt(closer[a], a)

Built == (\A w \in Workers : Made(w)) /\ Closed

\* What is stored stays, or is thrown away by an operator.
LEMMA FormsStay ==
    ASSUME Shaped, [DeriveNext]_vars
    PROVE  /\ rebuilt \subseteq rebuilt'
           /\ \A a \in Assets : a \in rebuilt' \/ rungs[a] \subseteq rungs'[a]
<1>0. rungs \in [Assets -> SUBSET Nat]
  BY DEF Shaped, WorkTypeOK
<1>1. ASSUME NEW w \in Workers, Acts(w)
      PROVE  rebuilt' = rebuilt /\ \A a \in Assets : rungs[a] \subseteq rungs'[a]
  <2>1. PutRung(w) => \A a \in Assets : rungs[a] \subseteq rungs'[a]
    BY <1>0 DEF PutRung
  <2> QED BY <1>1, <2>1, ActsAside
<1> QED BY <1>1, OthersAside DEF DeriveNext, Acts

\* So what was whole is whole, or was thrown away.
Later(w, a) == a \in rebuilt' \/ a \in Broken \/ Ladder[w][a] \subseteq rungs'[a]

LEMMA WholeStays ==
    ASSUME Shaped, [DeriveNext]_vars, NEW w, NEW a \in Assets, WholeOrRebuilt(w, a)
    PROVE  Later(w, a)
  BY FormsStay DEF WholeOrRebuilt, Whole, Later

\* A worker that makes no step has made what it had.
LEMMA MadeStays ==
    ASSUME Shaped, Built, [DeriveNext]_vars, NEW w \in Workers, worker'[w] = worker[w]
    PROVE  Made(w)'
<1>1. CASE worker[w].at \notin {"building", "done"}
  BY <1>1 DEF Made
<1>2. CASE worker[w].at \in {"building", "done"}
  <2>1. worker[w].asset \in Assets
    BY <1>2, Worked DEF Busy
  <2> QED BY <1>2, <2>1, WholeStays, FormsStay DEF Made, Built, Later, WholeOrRebuilt, Whole
<1> QED BY <1>1, <1>2

\* What one step makes of a worker's forms.
LEMMA MadeStep ==
    ASSUME Shaped, Built, [DeriveNext]_vars, NEW w \in Workers, Acts(w)
    PROVE  Made(w)'
<1>0. rungs \in [Assets -> SUBSET Nat] /\ Made(w)
  BY DEF Shaped, WorkTypeOK, Built
<1>2. ASSUME worker'[w].at \notin {"building", "done"} PROVE Made(w)'
  BY <1>2 DEF Made
<1>3. CASE Rests(w)
  BY <1>2, <1>3, Onward
<1>4. ASSUME NEW a \in Assets, TakeJob(w, a) \/ DeriveHere(w, a) PROVE Made(w)'
  BY <1>4, Onward DEF Made
<1>5. CASE PutRung(w)
  <2>1. PICK a \in Assets : a = worker[w].asset
    BY <1>5, Worked DEF PutRung, Busy
  <2>2. PICK rung \in worker[w].left : /\ rungs' = [rungs EXCEPT ![a] = @ \cup {rung}]
                                       /\ worker' = [worker EXCEPT ![w].left = @ \ {rung}]
    BY <1>5, <2>1 DEF PutRung
  <2>3. worker[w].at = "building" /\ worker \in [Workers -> WorkerState] /\ rebuilt' = rebuilt
    BY <1>5, ActsAside DEF PutRung, Shaped, WorkTypeOK, WorkerState
  <2>4. /\ worker'[w].at = "building" /\ worker'[w].asset = a
        /\ worker'[w].left = worker[w].left \ {rung}
    BY <2>1, <2>2, <2>3 DEF WorkerState
  <2>5. a \in rebuilt \/ Ladder[w][a] \subseteq rungs[a] \cup worker[w].left
    BY <1>0, <2>1, <2>3 DEF Made
  <2>6. rungs'[a] = rungs[a] \cup {rung}
    BY <1>0, <2>2
  <2> QED BY <2>3, <2>4, <2>5, <2>6 DEF Made
<1>6. CASE Finished(w)
  <2>1. PICK a \in Assets : a = worker[w].asset
    BY <1>6, Worked DEF Finished, Busy
  <2>2. WholeOrRebuilt(w, a)
    BY <1>0, <1>6, <2>1 DEF Finished, Made, WholeOrRebuilt, Whole
  <2>3. Later(w, a)
    BY <2>2, WholeStays
  <2> QED BY <1>6, <2>1, <2>3, Onward DEF Made, Later, WholeOrRebuilt, Whole
<1>7. CASE Unreadable(w)
  <2>1. worker[w].asset \in Broken
    BY <1>7 DEF Unreadable, Decodes
  <2> QED BY <1>2, <1>7, <2>1, Onward DEF Made, WholeOrRebuilt, Whole
<1>8. CASE Stumble(w)
  BY <1>2, <1>8, Onward
<1>9. CASE Tells(w)
  <2>1. worker[w].at \in {"done", "broke"} /\ worker[w].asset \in Assets
    BY <1>9, Worked DEF Tells, TimeReport, LogReport, LogRefused, Reporting, Busy
  <2>2. worker'[w].at = worker[w].at /\ worker'[w].asset = worker[w].asset
    BY <1>9, Onward
  <2>3. worker[w].at = "done" => Later(w, worker[w].asset)
    BY <1>0, <2>1, WholeStays DEF Made
  <2> QED BY <2>1, <2>2, <2>3 DEF Made, Later, WholeOrRebuilt, Whole
<1>10. CASE Stop(w)
  <2>1. worker'[w].at \notin {"building", "done"}
    BY <1>10, StopKept, StoppedRests
  <2> QED BY <1>2, <2>1
<1> QED BY <1>3, <1>4, <1>5, <1>6, <1>7, <1>8, <1>9, <1>10, Kinds

LEMMA EveryWorkerMade ==
    ASSUME Shaped, Built, [DeriveNext]_vars PROVE \A w \in Workers : Made(w)'
<1> SUFFICES ASSUME NEW w \in Workers PROVE Made(w)'
  OBVIOUS
<1>1. worker'[w] = Stopped(w) => Made(w)'
  BY StoppedRests DEF Made
<1> QED BY <1>1, Actors, MadeStays, MadeStep

\* A row is taken away only by a worker that is done with the asset.
LEMMA ClosedStep == ASSUME Shaped, Built, [DeriveNext]_vars PROVE Closed'
<1>0. SUFFICES ASSUME NEW a \in Assets, closer'[a] # nobody PROVE Later(closer'[a], a)
  BY DEF Closed, Later, WholeOrRebuilt, Whole
<1>1. CASE closer'[a] = closer[a]
  <2>1. WholeOrRebuilt(closer[a], a)
    BY <1>0, <1>1 DEF Built, Closed
  <2> QED BY <1>1, <2>1, WholeStays
<1>2. CASE closer'[a] # closer[a]
  <2>1. PICK w \in Workers : ReportDone(w)
    BY <1>2, OthersAside, ActsAside DEF DeriveNext, Acts
  <2>2. a = worker[w].asset /\ closer'[a] = w
    BY <1>2, <2>1 DEF ReportDone, Shaped, WorkTypeOK
  <2>3. WholeOrRebuilt(w, a)
    BY <2>1, <2>2 DEF ReportDone, Built, Made
  <2> QED BY <2>2, <2>3, WholeStays
<1> QED BY <1>1, <1>2

\* What leaves the queue was made, whoever reports it and however late: all that
\* the machine that says so makes of the asset.
THEOREM CallersBuild == DeriveSpec => []Built
<1>1. DeriveInit => Built
  BY StoppedRests DEF DeriveInit, Built, Closed, Made
<1>2. Shaped /\ Built /\ [DeriveNext]_vars => Built'
  BY EveryWorkerMade, ClosedStep DEF Built
<1> QED BY <1>1, <1>2, CallersShaped, PTL DEF DeriveSpec

\* So no row goes as a success before the forms of whoever says so are there.
THEOREM ReadyIsWhole == DeriveSpec => []DoneMeansWhole
<1>1. Built => DoneMeansWhole
  BY DEF Built, Closed, WholeOrRebuilt, DoneMeansWhole
<1> QED BY <1>1, CallersBuild, PTL

-----------------------------------------------------------------------------
(* The log.                                                                *)

Counted(a) == "ok" \in logged[a] \/ a \in uncounted

\* Work that somebody still has in hand and whose row is gone was counted, and so
\* is what is about to be taken away.
CountedSoFar(w) ==
    LET a == worker[w].asset IN
    /\ worker[w].at \in Busy /\ ~Queued(a) => Counted(a)
    /\ worker[w].at = "done" /\ worker[w].told = "logged" => Counted(a)

LEMMA CountedStays ==
    ASSUME Shaped, [DeriveNext]_vars, NEW a \in Assets, Counted(a) PROVE Counted(a)'
<1>0. logged \in [Assets -> SUBSET {"ok", "failed"}]
  BY DEF Shaped, WorkTypeOK
<1>1. ASSUME NEW w \in Workers, LogReport(w)
      PROVE  logged[a] \subseteq logged'[a]
  BY <1>0, <1>1 DEF LogReport
<1>2. ASSUME NEW w \in Workers, LogRefused(w) PROVE uncounted \subseteq uncounted'
  BY <1>2 DEF LogRefused
<1> QED BY <1>1, <1>2, ActsAside, OthersAside DEF DeriveNext, Acts, Counted

\* A row goes only when its report was counted.
LEMMA CountedWhenGone ==
    ASSUME Shaped, \A w \in Workers : CountedSoFar(w), [DeriveNext]_vars,
           NEW a \in Assets, Queued(a), ~Queued(a)'
    PROVE  Counted(a)
<1>1. PICK w \in Workers : worker[w].asset = a /\ ReportDone(w)
  BY GoneBy
<1> QED BY <1>1 DEF ReportDone, CountedSoFar

LEMMA CountedStep ==
    ASSUME Shaped, \A v \in Workers : CountedSoFar(v), [DeriveNext]_vars, NEW w \in Workers
    PROVE  CountedSoFar(w)'
<1>0. CountedSoFar(w)
  OBVIOUS
<1>1. ASSUME NEW a \in Assets, ~Queued(a)', Queued(a) \/ Counted(a) PROVE Counted(a)'
  BY <1>1, CountedWhenGone, CountedStays
<1>2. ASSUME worker'[w].at \notin Busy PROVE CountedSoFar(w)'
  BY <1>2 DEF CountedSoFar, Busy
<1>3. ASSUME NEW a \in Assets, worker'[w].asset = a, Queued(a) \/ Counted(a),
             worker'[w].at = "done" /\ worker'[w].told = "logged" => Counted(a)'
      PROVE  CountedSoFar(w)'
  <2>1. ~Queued(a)' => Counted(a)'
    BY <1>1, <1>3
  <2>2. ~Queued(worker[w].asset)' => Counted(worker[w].asset)'
    BY <1>3, <2>1 DEF Queued, Counted
  <2>3. worker'[w].at = "done" /\ worker'[w].told = "logged" => Counted(worker[w].asset)'
    BY <1>3 DEF Counted
  <2> QED BY <2>2, <2>3 DEF CountedSoFar, Queued, Counted
<1>4. ASSUME worker[w].at \in Busy
      PROVE  worker[w].asset \in Assets /\ (Queued(worker[w].asset) \/ Counted(worker[w].asset))
  BY <1>0, <1>4, Worked DEF CountedSoFar
<1>5. CASE Rests(w)
  BY <1>2, <1>5, Onward DEF Busy
<1>6. ASSUME NEW a \in Assets, TakeJob(w, a) \/ DeriveHere(w, a) PROVE CountedSoFar(w)'
  <2>1. Queued(a)
    BY <1>6 DEF TakeJob, ClaimJob, FirstDue, Due, DeriveHere, Queued
  <2> QED BY <1>3, <1>6, <2>1, Onward
<1>7. CASE PutRung(w)
  BY <1>3, <1>4, <1>7, Onward DEF PutRung, Busy
<1>8. CASE Finished(w) \/ Unreadable(w) \/ Stumble(w)
  <2>1. worker[w].at = "building" /\ worker[w].told = "no"
    BY <1>8, Worked DEF Finished, Unreadable, Stumble, AtWork, Tellings
  <2>2. worker'[w].at = "done" => worker'[w].told = "no"
    BY <1>8, <2>1, Onward
  <2>3. worker'[w].at = "idle" \/ worker'[w].asset = worker[w].asset
    BY <1>8, Onward
  <2> QED BY <1>2, <1>3, <1>4, <2>1, <2>2, <2>3 DEF Busy
<1>9. CASE Tells(w)
  <2>1. PICK a \in Assets : a = worker[w].asset
    BY <1>9, Worked DEF Tells, TimeReport, LogReport, LogRefused, Reporting, Busy
  <2>2. worker'[w].asset = a /\ worker'[w].at = worker[w].at /\ worker[w].at \in Busy
    BY <1>9, <2>1, Onward DEF Tells, TimeReport, LogReport, LogRefused, Reporting, Busy
  <2>3. worker \in [Workers -> WorkerState] /\ logged \in [Assets -> SUBSET {"ok", "failed"}]
    BY DEF Shaped, WorkTypeOK, WorkerState
  <2>4. CASE TimeReport(w)
    <3>1. worker'[w].told = IF Queued(a) THEN "timed" ELSE "logged"
      BY <2>1, <2>3, <2>4 DEF TimeReport, WorkerState
    <3>2. Queued(a) \/ Counted(a)
      BY <1>4, <2>1, <2>2
    <3>3. worker'[w].told = "logged" => Counted(a)'
      BY <3>1, <3>2, CountedStays
    <3> QED BY <1>3, <2>2, <3>2, <3>3
  <2>5. CASE LogReport(w)
    <3>1. worker[w].at = "done" => Counted(a)'
      BY <2>1, <2>3, <2>5 DEF LogReport, Counted
    <3> QED BY <1>3, <1>4, <2>1, <2>2, <3>1
  <2>6. CASE LogRefused(w)
    <3>1. Counted(a)'
      BY <2>1, <2>6 DEF LogRefused, Counted
    <3> QED BY <1>3, <1>4, <2>1, <2>2, <3>1
  <2> QED BY <1>9, <2>4, <2>5, <2>6 DEF Tells
<1>10. CASE Stop(w) \/ worker'[w] = Stopped(w)
  BY <1>2, <1>10, StopKept, StoppedRests DEF Busy
<1>11. CASE worker'[w] = worker[w]
  <2>1. CASE worker[w].at \notin Busy
    BY <1>2, <1>11, <2>1
  <2>2. CASE worker[w].at \in Busy
    <3>1. worker[w].at = "done" /\ worker[w].told = "logged" => Counted(worker[w].asset)
      BY <1>0 DEF CountedSoFar
    <3>2. PICK a \in Assets : a = worker[w].asset
      BY <1>4, <2>2
    <3>3. worker[w].at = "done" /\ worker[w].told = "logged" => Counted(a)'
      BY <3>1, <3>2, CountedStays
    <3> QED BY <1>3, <1>4, <1>11, <2>2, <3>2, <3>3
  <2> QED BY <2>1, <2>2
<1> QED BY <1>5, <1>6, <1>7, <1>8, <1>9, <1>10, <1>11, Actors, Kinds

\* No work leaves the queue uncounted, though the line is written before the row is
\* taken away, in a statement of its own, and by a report that may come late.
THEOREM NoneUncounted == DeriveSpec => GoneIsCounted
<1> DEFINE Inv == \A w \in Workers : CountedSoFar(w)
           Gone == \A a \in Assets :
                      jobs[a].state # "none" /\ jobs'[a].state = "none"
                          => "ok" \in logged[a] \/ a \in uncounted
<1>1. DeriveInit => Inv
  BY StoppedRests DEF DeriveInit, CountedSoFar, Busy
<1>2. Shaped /\ Inv /\ [DeriveNext]_vars => Inv'
  BY CountedStep
<1>3. Shaped /\ Inv /\ [DeriveNext]_vars => [Gone]_vars
  BY CountedWhenGone DEF Queued, Counted
<1> QED BY <1>1, <1>2, <1>3, CallersShaped, PTL DEF DeriveSpec, GoneIsCounted

-----------------------------------------------------------------------------
(* Claims.                                                                 *)

\* Whoever asks for work puts back only claims that went quiet; everybody else's
\* claim is put back by a report or by the start of the serving process.
THEOREM ClaimsStay == DeriveSpec => FreshClaimStays
<1> DEFINE Stays ==
      \A a \in Assets :
          /\ jobs[a].state = "running" /\ jobs[a].quiet <= StaleAfter
          /\ jobs'[a].state \in {"pending", "failed"}
          => \E w \in Workers :
                \/ worker[w].at = "broke" /\ worker[w].asset = a /\ worker'[w].at = "idle"
                \/ worker[w].at = "starting" /\ worker'[w].at = "idle"
<1>1. ASSUME Shaped, [DeriveNext]_vars PROVE Stays
  <2> SUFFICES ASSUME NEW a \in Assets, jobs[a].state = "running", jobs[a].quiet <= StaleAfter,
                      jobs'[a].state \in {"pending", "failed"}
               PROVE  \E w \in Workers :
                         \/ worker[w].at = "broke" /\ worker[w].asset = a /\ worker'[w].at = "idle"
                         \/ worker[w].at = "starting" /\ worker'[w].at = "idle"
    OBVIOUS
  <2>1. jobs[a].quiet \in Nat /\ StaleAfter \in Nat /\ ~Alike(a) /\ Queued(a) /\ jobs'[a] # jobs[a]
    BY <1>1, QueueAssumption DEF Shaped, WorkTypeOK, TypeOK, Row, Alike, Queued
  <2>2. a \notin Stale
    BY <2>1 DEF Stale
  <2>3. \A w \in Workers : ~TakeJob(w, a) /\ ~AskForJob(w)
    BY <1>1, <2>1, <2>2, Moved DEF TakeJob, AskForJob
  <2>4. \A w \in Workers : ~(worker[w].asset = a /\ ReportDone(w))
    BY <1>1, Moved DEF ReportDone
  <2>5. PICK w \in Workers : StartLocal(w) \/ (ReportFailure(w) /\ worker[w].asset = a)
    BY <1>1, <2>1, <2>3, <2>4, RowMoves
  <2>6. Becomes(w, Resting("idle"))
    BY <1>1, <2>5, WorkerStep
  <2>7. worker'[w].at = "idle"
    BY <1>1, <2>6, BecomesKept DEF Resting
  <2> QED BY <2>5, <2>7 DEF StartLocal, ReportFailure
<1>2. Shaped /\ [DeriveNext]_vars => [Stays]_vars
  BY <1>1
<1> QED BY <1>2, CallersShaped, PTL DEF DeriveSpec, FreshClaimStays

-----------------------------------------------------------------------------
(* Where the only worker is the one in the serving process.                *)

LEMMA OneLocal == ASSUME NEW v \in Locals, NEW w \in Locals PROVE v = w
<1> SUFFICES ASSUME v # w PROVE FALSE
  OBVIOUS
<1>1. IsFiniteSet(Locals) /\ Cardinality(Locals) <= 1
  BY DerivingAssumption
<1>2. IsFiniteSet({v}) /\ Cardinality({v}) = 1
  BY FS_Singleton
<1>3. Cardinality({v} \cup {w}) = 2
  BY <1>2, FS_AddElement
<1>4. {v} \cup {w} \in SUBSET Locals
  OBVIOUS
<1>5. Cardinality({v} \cup {w}) <= Cardinality(Locals)
  BY <1>1, <1>4, FS_Subset
<1>6. Cardinality(Locals) \in Nat
  BY <1>1, FS_CardinalityType
<1> QED BY <1>1, <1>3, <1>5, <1>6

\* A client claims nothing and reports no failure.
Clienthood == \A w \in Clients : worker[w].at \in {"idle", "building", "done"}

LEMMA ClienthoodStep == ASSUME Shaped, Clienthood, [DeriveNext]_vars PROVE Clienthood'
<1> SUFFICES ASSUME NEW c \in Clients PROVE worker'[c].at \in {"idle", "building", "done"}
  BY DEF Clienthood
<1>1. c \in Workers /\ c \notin Locals /\ c \notin Remotes /\ worker[c].at \in {"idle", "building", "done"}
  BY DerivingAssumption DEF Workers, Clienthood
<1>2. worker'[c] = Stopped(c) => worker'[c].at = "idle"
  BY <1>1, StoppedRests
<1>3. CASE Rests(c)
  <2>1. ~AskForJob(c) /\ ~TakeNothing(c) /\ ~ReportFailure(c) /\ ~ReportRefused(c) /\ ~Serve(c)
        /\ ~StartLocal(c) /\ ~StartUnreleased(c) /\ ~RunWork(c)
    BY <1>1 DEF AskForJob, TakeNothing, ReportFailure, ReportRefused, Serve, StartLocal, StartUnreleased,
                RunWork
  <2>2. Becomes(c, Resting("idle"))
    BY <1>1, <1>3, <2>1, WorkerStep DEF Rests
  <2> QED BY <1>1, <2>2, BecomesKept DEF Resting
<1>4. CASE PutRung(c) \/ Finished(c) \/ Unreadable(c) \/ Stumble(c) \/ Tells(c)
           \/ \E a \in Assets : TakeJob(c, a) \/ DeriveHere(c, a)
  BY <1>1, <1>4, Onward
<1>5. Stop(c) => worker'[c] = Stopped(c)
  BY <1>1, StopKept
<1> QED BY <1>1, <1>2, <1>3, <1>4, <1>5, Actors, Kinds

LEMMA ClientsReportDone == DeriveSpec => []Clienthood
<1>1. DeriveInit => Clienthood
  BY StoppedRests DEF DeriveInit, Clienthood, Workers
<1> QED BY <1>1, ClienthoodStep, CallersShaped, PTL DEF DeriveSpec

LEMMA FailuresAreLocal ==
    ASSUME Remotes = {}, Clienthood, NEW w \in Workers,
           ReportFailure(w) \/ \E a \in Assets : TakeJob(w, a)
    PROVE  w \in Locals
  BY DEF Clienthood, Workers, ReportFailure, TakeJob

\* What a step of the local worker makes of a claim it has; and a claim that is new,
\* or whose worker was refused.
LEMMA OrphanStep ==
    ASSUME Remotes = {}, Shaped, Clienthood, NoOrphanedClaim, [DeriveNext]_vars
    PROVE  NoOrphanedClaim'
<1> SUFFICES ASSUME NEW a \in Assets, a \notin dropped', jobs'[a].state = "running"
             PROVE  \E w \in Locals : worker'[w].at \in {"off", "starting"} \/ worker'[w].asset = a
  BY DEF NoOrphanedClaim
<1>0. RetryDelays \subseteq Nat /\ a # nobody /\ Locals \subseteq Workers
      /\ \A w \in Locals : w \notin Clients
  BY QueueAssumption, DerivingAssumption DEF Workers
<1>1. ASSUME NEW w \in Workers, TakeJob(w, a) PROVE w \in Locals /\ worker'[w].asset = a
  BY <1>1, FailuresAreLocal, Onward
<1>2. ASSUME ~\E w \in Workers : TakeJob(w, a)
      PROVE  /\ jobs[a].state = "running"
             /\ \A w \in Workers : ~StartLocal(w)
             /\ \A w \in Workers : worker[w].asset = a => ~ReportDone(w) /\ ~ReportFailure(w)
  <2>1. \A w \in Workers : StartLocal(w) => jobs'[a].state # "running"
    BY Moved DEF StartLocal
  <2>2. \A w \in Workers : ReportDone(w) /\ worker[w].asset = a => jobs'[a].state # "running"
    BY Moved DEF ReportDone
  <2>3. ASSUME NEW w \in Workers, ReportFailure(w), worker[w].asset = a
        PROVE  Queued(a) => jobs'[a].state # "running"
    BY <1>0, <2>3, FailureDelay, Moved
  <2>4. ASSUME NEW w \in Workers, ReportFailure(w), worker[w].asset = a, ~Queued(a)
        PROVE  jobs'[a] = jobs[a]
    BY <1>0, <2>4, FailureDelay, Moved
  <2>5. ~Queued(a) /\ (QueueUpload(a) \/ QueueAgain(a)) => jobs'[a].state # "running"
    BY Moved DEF QueueUpload, QueueAgain
  <2>6. \A w \in Workers : ~AskForJob(w)
    BY DEF AskForJob
  <2>7. jobs[a].state = "running"
    BY <1>2, <2>1, <2>2, <2>3, <2>4, <2>5, <2>6, RowMoves DEF Alike, Queued
  <2> QED BY <2>1, <2>2, <2>3, <2>7 DEF Queued
<1>3. ASSUME ~\E w \in Workers : TakeJob(w, a)
      PROVE  a \notin dropped /\ \A w \in Workers : /\ ~StartUnreleased(w)
                                                    /\ worker[w].asset = a => ~ReportRefused(w)
  <2>1. \A w \in Workers : ~AskForJob(w) /\ ~StartLocal(w)
    BY <1>2, <1>3 DEF AskForJob
  <2>2. \A w \in Workers : StartUnreleased(w) => a \in dropped'
    BY <1>2, <1>3 DEF StartUnreleased, Running
  <2>3. \A w \in Workers : ReportRefused(w) => dropped' = dropped \cup {worker[w].asset}
    BY DEF ReportRefused
  <2>4. ASSUME NEW w \in Workers, NEW b \in Assets, TakeJob(w, b) PROVE dropped' = dropped \ {b} /\ b # a
    BY <1>3, <2>4 DEF TakeJob
  <2>5. dropped \subseteq dropped' \cup {b \in Assets : b # a}
    BY <2>1, <2>2, <2>3, <2>4, OthersAside, ActsAside DEF DeriveNext, Acts, Shaped, WorkTypeOK
  <2> QED BY <2>2, <2>3, <2>5
<1>4. ASSUME ~\E w \in Workers : TakeJob(w, a)
      PROVE  \E w \in Locals : worker'[w].at \in {"off", "starting"} \/ worker'[w].asset = a
  <2>1. PICK w \in Locals : worker[w].at \in {"off", "starting"} \/ worker[w].asset = a
    BY <1>2, <1>3, <1>4 DEF NoOrphanedClaim
  <2>2. w \in Workers /\ w \notin Clients /\ w \notin Remotes
    BY <1>0
  <2>3. worker[w].asset = a => worker[w].at \in Busy
    BY <1>0, <2>2, Worked
  <2>4. worker[w].at \notin {"idle", "asked"}
    BY <2>1, <2>3 DEF Busy
  <2>5. CASE Stop(w) \/ worker'[w] = Stopped(w)
    BY <2>2, <2>5, StopKept, StoppedRests
  <2>6. CASE PutRung(w) \/ Finished(w) \/ Unreadable(w) \/ Stumble(w) \/ Tells(w)
    <3>1. worker[w].asset = a
      BY <2>1, <2>6
      DEF PutRung, Finished, Unreadable, Stumble, Tells, TimeReport, LogReport, LogRefused, Reporting
    <3>2. worker'[w].asset = worker[w].asset
      BY <2>2, <2>6, Onward
    <3> QED BY <3>1, <3>2
  <2>7. CASE Serve(w)
    <3>1. Becomes(w, Resting("starting"))
      BY <2>2, <2>7, WorkerStep
    <3> QED BY <2>2, <3>1, BecomesKept DEF Resting
  <2>8. ~StartLocal(w) /\ ~StartUnreleased(w) /\ ~ReportRefused(w) /\ ~TakeNothing(w) /\ ~AskForJob(w)
        /\ ~RunWork(w) /\ ~(\E b \in Assets : TakeJob(w, b) \/ DeriveHere(w, b))
    BY <1>2, <1>3, <1>4, <2>1, <2>2, <2>4
    DEF ReportRefused, Reporting, TakeNothing, AskForJob, RunWork, TakeJob, DeriveHere
  <2>9. ~ReportDone(w) /\ ~ReportFailure(w)
    BY <1>2, <1>4, <2>1, <2>2 DEF ReportDone, ReportFailure
  <2>10. Acts(w) => Stop(w) \/ Serve(w)
                    \/ PutRung(w) \/ Finished(w) \/ Unreadable(w) \/ Stumble(w) \/ Tells(w)
    BY <2>2, <2>8, <2>9, Kinds DEF Rests
  <2> QED BY <2>1, <2>2, <2>5, <2>6, <2>7, <2>10, Actors
<1> QED BY <1>1, <1>4

\* No claim is left to nobody until the process starts again, but those that a
\* refused release or report left behind.
THEOREM NoneOrphaned == ASSUME Remotes = {} PROVE DeriveSpec => []NoOrphanedClaim
<1>1. DeriveInit => NoOrphanedClaim
  BY DEF DeriveInit, Init, NoRow, NoOrphanedClaim
<1>2. Shaped /\ Clienthood /\ NoOrphanedClaim /\ [DeriveNext]_vars => NoOrphanedClaim'
  BY OrphanStep
<1> QED BY <1>1, <1>2, ClientsReportDone, CallersShaped, PTL DEF DeriveSpec

-----------------------------------------------------------------------------
(* Charges.                                                                *)

LEMMA UnqueuedBy ==
    ASSUME Shaped, [DeriveNext]_vars, NEW a \in unqueued', a \notin unqueued PROVE InsertAsset(a)
<1>1. ASSUME NEW w \in Workers, Acts(w) PROVE unqueued' \subseteq unqueued
  BY <1>1, ActsAside
<1>2. Requeue \/ TimePasses \/ UNCHANGED vars => unqueued' = unqueued
  BY DEF Requeue, ListCandidates, ClearRungs, QueueAgain, RequeueStops, TimePasses, vars, catalogVars
<1>3. \A b \in Assets : QueueUpload(b) \/ QueueLost(b) => unqueued' \subseteq unqueued
  BY DEF QueueUpload, QueueLost
<1>4. \A b \in Assets : InsertAsset(b) => unqueued' = unqueued \cup {b}
  BY DEF InsertAsset
<1> QED BY <1>1, <1>2, <1>3, <1>4 DEF DeriveNext, Upload, Acts

\* One attempt is charged for a claim, at most: a running row has a claim that is
\* not charged yet, and whoever is to report on an asset has that claim, or its row
\* is gone for good.
Paid(a) == /\ jobs[a].attempts <= claims[a]
           /\ jobs[a].state = "running" => jobs[a].attempts < claims[a]
Owing(w) ==
    worker[w].at \in Busy =>
        /\ worker[w].asset \in stored
        /\ \/ jobs[worker[w].asset].state = "running"
           \/ /\ Clients # {} /\ jobs[worker[w].asset].state = "none"
              /\ worker[w].asset \notin unqueued
NoneAgain ==
    /\ \A a \in Assets : Queued(a) => a \in stored
    /\ MaxRequeues = 0 => /\ requeue.todo = {} /\ requeue.cleared = {}
                          /\ \A a \in Assets : Queued(a) => a \notin unqueued

Charged == (\A a \in Assets : Paid(a)) /\ (\A w \in Locals : Owing(w)) /\ NoneAgain

LEMMA PaidStep ==
    ASSUME Remotes = {}, Shaped, Clienthood, Charged, [DeriveNext]_vars, NEW a \in Assets
    PROVE  Paid(a)'
<1>0. RetryDelays \subseteq Nat /\ jobs[a].attempts \in Nat /\ claims[a] \in Nat /\ Paid(a)
  BY QueueAssumption DEF Shaped, WorkTypeOK, TypeOK, Row, Charged
<1>1. CASE Alike(a)
  BY <1>0, <1>1 DEF Alike, Paid
<1>2. CASE ~Queued(a) /\ (QueueUpload(a) \/ QueueAgain(a))
  BY <1>2, Moved DEF QueueUpload, QueueAgain, Paid
<1>3. CASE \E w \in Workers : TakeJob(w, a)
  BY <1>0, <1>3, Moved DEF TakeJob, Paid
<1>4. CASE \E w \in Workers : worker[w].asset = a /\ ReportDone(w)
  BY <1>0, <1>4, Moved DEF ReportDone, Paid
<1>5. ASSUME NEW w \in Workers, worker[w].asset = a, ReportFailure(w) PROVE Paid(a)'
  <2>1. w \in Locals
    BY <1>5, FailuresAreLocal
  <2>2. jobs[a].state = "running" \/ ~Queued(a)
    BY <1>5, <2>1 DEF ReportFailure, Charged, Owing, Busy, Queued
  <2>3. PICK delay \in Nat : FailJob(a, delay)
    BY <1>0, <1>5, FailureDelay
  <2>4. CASE jobs[a].state = "running"
    BY <1>0, <2>3, <2>4, Moved DEF Paid, Queued
  <2>5. CASE ~Queued(a)
    BY <1>0, <2>3, <2>5, Moved DEF Paid, Queued
  <2> QED BY <2>2, <2>4, <2>5
<1>6. ASSUME NEW w \in Workers, AskForJob(w) \/ StartLocal(w) PROVE Paid(a)'
  <2>1. ReleaseClaimedJobs
    BY <1>6 DEF AskForJob, StartLocal
  <2> QED BY <1>0, <2>1, Moved DEF Paid
<1> QED BY <1>1, <1>2, <1>3, <1>4, <1>5, <1>6, RowMoves

LEMMA RequeueNever ==
    ASSUME Shaped, NoneAgain, [DeriveNext]_vars, MaxRequeues = 0
    PROVE  /\ requeue'.todo = {} /\ requeue'.cleared = {}
           /\ \A a \in Assets : ~QueueAgain(a)
<1>0. requeue.todo = {} /\ requeue.cleared = {} /\ requeues = 0
  BY DEF NoneAgain, Shaped, WorkTypeOK
<1>1. Requeue => RequeueStops
  BY <1>0 DEF Requeue, ListCandidates, ClearRungs, QueueAgain
<1>2. Upload \/ TimePasses \/ UNCHANGED vars => UNCHANGED requeue
  BY DEF Upload, InsertAsset, QueueUpload, QueueLost, TimePasses, vars, requeueVars
<1>3. UNCHANGED requeue \/ requeue' = NoRequeue
  BY <1>1, <1>2, ActsAside DEF DeriveNext, Acts, RequeueStops
<1> QED BY <1>0, <1>3 DEF NoRequeue, QueueAgain

LEMMA StoredStay == ASSUME Shaped, [DeriveNext]_vars PROVE stored \subseteq stored'
  BY OthersAside, ActsAside DEF DeriveNext, Acts

LEMMA NoneAgainStep == ASSUME Shaped, NoneAgain, [DeriveNext]_vars PROVE NoneAgain'
<1>1. stored \subseteq stored'
  BY StoredStay
<1>2. ASSUME NEW a \in Assets, Queued(a)' PROVE a \in stored'
  <2>1. QueueUpload(a) \/ QueueAgain(a) => a \in stored
    BY DEF QueueUpload, QueueAgain, Shaped, WorkTypeOK
  <2> QED BY <1>1, <1>2, <2>1, QueuedBy DEF NoneAgain
<1>3. ASSUME MaxRequeues = 0, NEW a \in Assets, Queued(a)' PROVE a \notin unqueued'
  <2>1. CASE Queued(a)
    <3>1. ~InsertAsset(a)
      BY <2>1 DEF NoneAgain, InsertAsset
    <3> QED BY <1>3, <2>1, <3>1, UnqueuedBy DEF NoneAgain
  <2>2. CASE ~Queued(a)
    BY <1>3, <2>2, QueuedBy, RequeueNever DEF QueueUpload
  <2> QED BY <2>1, <2>2
<1> QED BY <1>2, <1>3, RequeueNever DEF NoneAgain

LEMMA OwingStays ==
    ASSUME Remotes = {}, (Clients = {}) \/ (MaxRequeues = 0), Shaped, Clienthood, Charged,
           [DeriveNext]_vars, NEW w \in Locals, worker'[w].at \in Busy, worker[w].at \in Busy,
           worker'[w].asset = worker[w].asset
    PROVE  Owing(w)'
<1> SUFFICES ASSUME NEW a \in Assets, a = worker[w].asset
             PROVE  /\ a \in stored'
                    /\ \/ jobs'[a].state = "running"
                       \/ Clients # {} /\ jobs'[a].state = "none" /\ a \notin unqueued'
  BY Worked DEF Owing, Workers
<1>0. w \in Workers /\ w \notin Clients /\ NoneAgain /\ NoneAgain' /\ RetryDelays \subseteq Nat
  BY QueueAssumption, DerivingAssumption, NoneAgainStep DEF Workers, Charged
<1>1. a \in stored /\ (jobs[a].state = "running"
                        \/ (Clients # {} /\ jobs[a].state = "none" /\ a \notin unqueued))
  BY DEF Charged, Owing
<1>2. a \in stored'
  BY <1>1, StoredStay
<1>3. a \notin unqueued => a \notin unqueued'
  BY <1>1, UnqueuedBy DEF InsertAsset
<1>4. CASE jobs[a].state = "none"
  <2>1. ~QueueUpload(a) /\ ~QueueAgain(a)
    BY <1>0, <1>1, <1>4, RequeueNever DEF QueueUpload
  <2>2. ~Queued(a)'
    BY <1>4, <2>1, QueuedBy DEF Queued
  <2> QED BY <1>1, <1>2, <1>3, <1>4, <2>2 DEF Queued
<1>5. CASE jobs[a].state = "running"
  <2>1. \A v \in Workers : ~TakeJob(v, a) /\ ~AskForJob(v)
    BY <1>5 DEF TakeJob, ClaimJob, FirstDue, Due, AskForJob
  <2>2. ~Rests(w)
    BY <1>0, Onward DEF Busy
  <2>3. ASSUME NEW v \in Workers, StartLocal(v) \/ (ReportFailure(v) /\ worker[v].asset = a) PROVE FALSE
    <3>1. v \in Locals
      BY <2>3, FailuresAreLocal DEF StartLocal, Workers, Clienthood
    <3>2. v = w
      BY <3>1, OneLocal
    <3> QED BY <2>2, <2>3, <3>2 DEF Rests
  <2>4. ASSUME NEW v \in Workers, ReportDone(v), worker[v].asset = a
        PROVE  Clients # {} /\ jobs'[a].state = "none" /\ a \notin unqueued'
    <3>1. v # w
      BY <2>2, <2>4 DEF Rests
    <3>2. v \in Clients
      BY <3>1, OneLocal DEF Workers
    <3>3. a \notin unqueued
      BY <1>0, <1>5, <3>2 DEF NoneAgain, Queued
    <3> QED BY <1>3, <2>4, <3>2, <3>3, Moved DEF ReportDone
  <2>5. Queued(a)
    BY <1>5 DEF Queued
  <2> QED BY <1>2, <1>5, <2>1, <2>3, <2>4, <2>5, RowMoves DEF Alike
<1> QED BY <1>1, <1>4, <1>5

LEMMA OwingStep ==
    ASSUME Remotes = {}, (Clients = {}) \/ (MaxRequeues = 0), Shaped, Clienthood, Charged,
           [DeriveNext]_vars, NEW w \in Locals
    PROVE  Owing(w)'
<1>0. w \in Workers /\ w \notin Clients
  BY DerivingAssumption DEF Workers
<1>1. CASE worker'[w].at \notin Busy
  BY <1>1 DEF Owing
<1>2. ASSUME NEW a \in Assets, TakeJob(w, a) PROVE Owing(w)'
  <2>1. worker'[w].asset = a
    BY <1>0, <1>2, Onward
  <2>2. jobs'[a].state = "running" /\ a \in stored /\ stored \subseteq stored'
    BY <1>2, StoredStay, Moved DEF TakeJob, Charged, NoneAgain, Queued
  <2> QED BY <2>1, <2>2 DEF Owing
<1>3. CASE worker'[w].at \in Busy /\ ~(\E a \in Assets : TakeJob(w, a))
  <2>1. ~Stop(w) /\ worker'[w] # Stopped(w) /\ ~Rests(w) /\ ~(\E a \in Assets : DeriveHere(w, a))
    BY <1>0, <1>3, StopKept, StoppedRests, Onward DEF Busy, DeriveHere
  <2>2. \/ worker'[w] = worker[w]
        \/ PutRung(w) \/ Finished(w) \/ Unreadable(w) \/ Stumble(w) \/ Tells(w)
    BY <1>0, <1>3, <2>1, Actors, Kinds
  <2>3. worker[w].at \in Busy /\ worker'[w].asset = worker[w].asset
    BY <1>0, <1>3, <2>2, Onward
    DEF PutRung, Finished, Unreadable, Stumble, Tells, TimeReport, LogReport, LogRefused, Reporting, Busy
  <2> QED BY <1>3, <2>3, OwingStays
<1> QED BY <1>1, <1>2, <1>3

\* An attempt is charged once, unless an asset is queued again while a report on
\* it, from before, is still to come.
THEOREM ChargedOnce ==
    ASSUME Remotes = {}, (Clients = {}) \/ (MaxRequeues = 0)
    PROVE  DeriveSpec => []OneChargePerClaim
<1>1. DeriveInit => Charged
  <2>1. \A w \in Locals : w \in Workers /\ w \notin Clients
    BY DerivingAssumption DEF Workers
  <2> QED BY <2>1, StoppedRests
          DEF DeriveInit, Init, NoRow, Charged, Paid, Owing, NoneAgain, NoRequeue, Queued, Busy
<1>2. Shaped /\ Clienthood /\ Charged /\ [DeriveNext]_vars => Charged'
  <2>1. Charged => NoneAgain
    BY DEF Charged
  <2> QED BY <2>1, PaidStep, OwingStep, NoneAgainStep DEF Charged
<1>3. Charged => OneChargePerClaim
  BY DEF Charged, Paid, OneChargePerClaim
<1> QED BY <1>1, <1>2, <1>3, ClientsReportDone, CallersShaped, PTL DEF DeriveSpec
=============================================================================
