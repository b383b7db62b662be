------------------------------ MODULE Deriving ------------------------------
(***************************************************************************)
(* Everybody who works the jobs table: uploads that queue their asset, the *)
(* worker inside the serving process (internal/renditions/worker.go), the  *)
(* workers on other machines that reach the table through the jobs routes  *)
(* (internal/api/jobs.go, cmd/asset-service/work.go), clients that derive  *)
(* what they upload (upload --derive), and the requeue command.            *)
(*                                                                         *)
(* A rendition is a number, the bytes, the keys and the object store are   *)
(* left to AssetStore.  Every machine has a ladder of its own: it goes by  *)
(* the widths that machine is configured with, and it is empty, without an *)
(* error, where ffmpeg is missing and the asset is a video.  Every asset   *)
(* here is of a type the server derives (derive.Supported): no other is    *)
(* ever queued.  Assets are never deleted, so the branches for a row       *)
(* without an asset cannot be taken and are left out.                      *)
(***************************************************************************)
EXTENDS JobQueue, FiniteSets

CONSTANTS Locals,       \* workers inside the serving process (at most one)
          Remotes,      \* asset-service work, on other machines
          Clients,      \* asset-service upload --derive
          Ladder,       \* the forms derive.Ladder makes of an asset on a machine
          Broken,       \* assets whose bytes never decode (ErrUnsupported)
          AssetsWired,  \* whether the local worker was given its Service
          Mishaps,      \* what may go wrong
          RemoteRetry,  \* retryAfterFailure
          RetryBase,    \* retryBase and
          RetryCap,     \*   retryCap of the local worker's backoff
          RequeueModes, \* which forms of requeue an operator runs
          MaxRequeues   \* bound: how often the operator runs it

Workers == Locals \cup Remotes \cup Clients
nobody == "nobody"

\* backoff: the shift of a 64-bit duration that has gone past the cap, or wrapped,
\* answers the cap.
Backoff(attempts) == IF RetryBase * 2^attempts > RetryCap THEN RetryCap
                     ELSE RetryBase * 2^attempts

ASSUME DerivingAssumption ==
    /\ IsFiniteSet(Locals) /\ Cardinality(Locals) <= 1
    /\ Locals \cap (Remotes \cup Clients) = {}
    /\ Remotes \cap Clients = {}
    /\ nobody \notin Workers \cup Assets
    /\ Ladder \in [Workers -> [Assets -> SUBSET Nat]]
    /\ Broken \subseteq Assets
    /\ AssetsWired \in BOOLEAN
    /\ Mishaps \subseteq {"stumble", "die", "unqueued", "unlogged", "refused"}
    /\ RemoteRetry \in RetryDelays
    /\ \A n \in 0..MaxAttempts - 1 : Backoff(n) \in RetryDelays
    /\ RequeueModes \subseteq {"fill", "rebuild"}
    /\ MaxRequeues \in Nat

VARIABLES stored,    \* assets with a row in the catalog
          unqueued,  \* uploads between InsertAsset and Enqueue
          rungs,     \* the renditions rows of each asset
          logged,    \* outcomes of each asset's lines in derivations
          worker,    \* what each worker is doing
          requeue,   \* the requeue command: its list and how far it got
          requeues,  \* how often it was run
          closer,    \* history: who took the asset's row away last
          dropped,   \* history: claims a refused statement left with nobody behind
          uncounted, \* history: assets whose line the catalog refused
          rebuilt    \* history: assets whose forms were thrown away

catalogVars == <<stored, unqueued, rungs, logged>>
requeueVars == <<requeue, requeues>>
historyVars == <<closer, dropped, uncounted, rebuilt>>
vars == <<queueVars, catalogVars, worker, requeueVars, historyVars>>

\* off: the process is down.  starting: it serves, and its worker has not begun.
\* asked: between the release and the claim of one POST /v1/jobs/claim.  done:
\* about to report success, or that the bytes will never derive.
Stages == {"off", "starting", "idle", "asked", "building", "done", "broke"}

\* How far a report is: its job was timed, and then its line written.
Tellings == {"no", "timed", "logged"}

Resting(stage) == [at |-> stage, asset |-> nobody, left |-> {}, tried |-> 0, told |-> "no"]
Stopped(w) == Resting(IF w \in Clients THEN "idle" ELSE "off")
Building(w, a, tried) ==
    [at |-> "building", asset |-> a, left |-> Ladder[w][a], tried |-> tried, told |-> "no"]

\* Who may reach the catalog: the local worker is in the process that serves,
\* everybody else needs that process to be up.
Serving == \A w \in Locals : worker[w].at # "off"
Reaches(w) == w \in Locals \/ Serving

NoRequeue == [mode |-> "off", todo |-> {}, cleared |-> {}]

DeriveInit ==
    /\ Init
    /\ stored = {}
    /\ unqueued = {}
    /\ rungs = [a \in Assets |-> {}]
    /\ logged = [a \in Assets |-> {}]
    /\ worker = [w \in Workers |-> Stopped(w)]
    /\ requeue = NoRequeue
    /\ requeues = 0
    /\ closer = [a \in Assets |-> nobody]
    /\ dropped = {}
    /\ uncounted = {}
    /\ rebuilt = {}

-----------------------------------------------------------------------------
(* Uploads: the tail of Service.Put.                                       *)

QueuedBeforeInsert(a) ==
    /\ a \notin stored
    /\ unqueued' = unqueued \cup {a}
    /\ UNCHANGED <<queueVars, stored, rungs, logged, worker, requeueVars, historyVars>>
InsertAsset(a) ==
    /\ Serving
    /\ a \notin stored
    /\ stored' = stored \cup {a}
    /\ unqueued' = unqueued \cup {a}
    /\ UNCHANGED <<queueVars, rungs, logged, worker, requeueVars, historyVars>>

QueueUpload(a) ==
    /\ a \in unqueued
    /\ Enqueue(a)
    /\ unqueued' = unqueued \ {a}
    /\ UNCHANGED <<stored, rungs, logged, worker, requeueVars, historyVars>>

\* The insert failed, which is only logged, or the process stopped before it.
QueueLost(a) ==
    /\ "unqueued" \in Mishaps
    /\ a \in unqueued
    /\ unqueued' = unqueued \ {a}
    /\ UNCHANGED <<queueVars, stored, rungs, logged, worker, requeueVars, historyVars>>

-----------------------------------------------------------------------------
(* Claiming.                                                               *)

\* claimJob first puts back what has been quiet for too long.
AskForJob(w) ==
    /\ w \in Remotes /\ Serving
    /\ worker[w].at = "idle"
    /\ ReleaseStaleJobs
    /\ worker' = [worker EXCEPT ![w] = Resting("asked")]
    /\ dropped' = dropped \ Stale
    /\ UNCHANGED <<catalogVars, requeueVars, closer, uncounted, rebuilt>>

\* A claim whose answer is lost on its way is this and then Die.
TakeJob(w, a) ==
    /\ worker[w].at = IF w \in Locals THEN "idle" ELSE "asked"
    /\ w \notin Clients
    /\ ClaimJob(a)
    /\ worker' = [worker EXCEPT ![w] = Building(w, a, jobs[a].attempts)]
    /\ dropped' = dropped \ {a}
    /\ UNCHANGED <<catalogVars, requeueVars, closer, uncounted, rebuilt>>

\* 204 No Content.
TakeNothing(w) ==
    /\ worker[w].at = "asked"
    /\ Due = {}
    /\ worker' = [worker EXCEPT ![w] = Resting("idle")]
    /\ UNCHANGED <<queueVars, catalogVars, requeueVars, historyVars>>

\* upload --derive starts on an asset whose manifest said pending.  It claims
\* nothing.
DeriveHere(w, a) ==
    /\ w \in Clients /\ Serving
    /\ worker[w].at = "idle"
    /\ jobs[a].state \in {"pending", "running"}
    /\ worker' = [worker EXCEPT ![w] = Building(w, a, 0)]
    /\ UNCHANGED <<queueVars, catalogVars, requeueVars, historyVars>>

-----------------------------------------------------------------------------
(* Building.                                                               *)

\* Only what a machine has the tools for does it try to read.
Decodes(w) == worker[w].asset \notin Broken \/ Ladder[w][worker[w].asset] = {}

\* Storing a rendition without a Service is a nil dereference, which takes the
\* process down.
Fatal(w) == /\ w \in Locals /\ ~AssetsWired
            /\ worker[w].at = "building" /\ Decodes(w) /\ worker[w].left # {}

\* PutRendition of the next form, smallest first; a row that is there stays.
PutRung(w) ==
    /\ worker[w].at = "building" /\ Reaches(w)
    /\ Decodes(w) /\ ~Fatal(w)
    /\ \E rung \in worker[w].left :
          /\ \A other \in worker[w].left : rung <= other
          /\ rungs' = [rungs EXCEPT ![worker[w].asset] = @ \cup {rung}]
          /\ worker' = [worker EXCEPT ![w].left = @ \ {rung}]
    /\ UNCHANGED <<queueVars, stored, unqueued, logged, requeueVars, historyVars>>

FinishedEarly(w) ==
    /\ worker[w].at = "building"
    /\ Decodes(w)
    /\ \A rung, other \in worker[w].left : rung = other
    /\ worker' = [worker EXCEPT ![w].at = "done"]
    /\ UNCHANGED <<queueVars, catalogVars, requeueVars, historyVars>>
Finished(w) ==
    /\ worker[w].at = "building"
    /\ Decodes(w)
    /\ worker[w].left = {}
    /\ worker' = [worker EXCEPT ![w].at = "done"]
    /\ UNCHANGED <<queueVars, catalogVars, requeueVars, historyVars>>

\* Bytes that will never derive: a worker closes the job, a client leaves it.
Unreadable(w) ==
    /\ worker[w].at = "building"
    /\ ~Decodes(w)
    /\ worker' = [worker EXCEPT ![w] = IF w \in Clients THEN Stopped(w)
                                       ELSE [@ EXCEPT !.at = "done"]]
    /\ UNCHANGED <<queueVars, catalogVars, requeueVars, historyVars>>

\* Any other error: reading the original, a tool that fails, storing a form, which
\* it does while the service is down.
StumbleAndClose(w) ==
    /\ "stumble" \in Mishaps
    /\ worker[w].at = "building"
    /\ worker' = [worker EXCEPT ![w].at = IF w \in Clients THEN "done" ELSE "broke"]
    /\ UNCHANGED <<queueVars, catalogVars, requeueVars, historyVars>>
Stumble(w) ==
    /\ "stumble" \in Mishaps \/ ~Reaches(w)
    /\ worker[w].at = "building"
    /\ worker' = [worker EXCEPT ![w] = IF w \in Clients THEN Stopped(w)
                                       ELSE [@ EXCEPT !.at = "broke"]]
    /\ UNCHANGED <<queueVars, catalogVars, requeueVars, historyVars>>

-----------------------------------------------------------------------------
(* Reporting: CompleteJob and FailJob log and then touch the row, in       *)
(* statements of their own.  A report names the asset and not the claim.   *)

Reporting(w) == worker[w].at \in {"done", "broke"} /\ Reaches(w)

\* logDerivation gives up when there is no row to be timed.
TimeClaimed(w) ==
    /\ Reporting(w) /\ worker[w].told = "no"
    /\ worker' = [worker EXCEPT ![w].told =
                     IF jobs[worker[w].asset].state = "running" THEN "timed" ELSE "logged"]
    /\ UNCHANGED <<queueVars, catalogVars, requeueVars, historyVars>>
TimeReport(w) ==
    /\ Reporting(w) /\ worker[w].told = "no"
    /\ worker' = [worker EXCEPT ![w].told =
                     IF Queued(worker[w].asset) THEN "timed" ELSE "logged"]
    /\ UNCHANGED <<queueVars, catalogVars, requeueVars, historyVars>>

LogReport(w) ==
    /\ Reporting(w) /\ worker[w].told = "timed"
    /\ logged' = [logged EXCEPT ![worker[w].asset] =
                     @ \cup {IF worker[w].at = "done" THEN "ok" ELSE "failed"}]
    /\ worker' = [worker EXCEPT ![w].told = "logged"]
    /\ UNCHANGED <<queueVars, stored, unqueued, rungs, requeueVars, historyVars>>

\* One of its statements was refused, which is ignored.
LogRefused(w) ==
    /\ "unlogged" \in Mishaps
    /\ Reporting(w) /\ worker[w].told # "logged"
    /\ worker' = [worker EXCEPT ![w].told = "logged"]
    /\ uncounted' = uncounted \cup {worker[w].asset}
    /\ UNCHANGED <<queueVars, catalogVars, requeueVars, closer, dropped, rebuilt>>

\* What a worker does next: the client was run for the one asset.
BackToRest(w) == worker' = [worker EXCEPT ![w] = Resting("idle")]

ReportDone(w) ==
    LET a == worker[w].asset IN
    /\ Reporting(w) /\ worker[w].at = "done" /\ worker[w].told = "logged"
    /\ CompleteJob(a)
    /\ BackToRest(w)
    /\ closer' = [closer EXCEPT ![a] = IF Queued(a) THEN w ELSE @]
    /\ UNCHANGED <<catalogVars, requeueVars, dropped, uncounted, rebuilt>>

FailureOnlyLogged(w) ==
    /\ Reporting(w) /\ worker[w].at = "broke" /\ worker[w].told = "logged"
    /\ BackToRest(w)
    /\ UNCHANGED <<queueVars, catalogVars, requeueVars, historyVars>>

ReportFailure(w) ==
    /\ Reporting(w) /\ worker[w].at = "broke" /\ worker[w].told = "logged"
    /\ FailJob(worker[w].asset,
               IF w \in Locals THEN Backoff(worker[w].tried) ELSE RemoteRetry)
    /\ BackToRest(w)
    /\ UNCHANGED <<catalogVars, requeueVars, historyVars>>

\* The catalog refused the statement: the local worker logs that and goes on, and
\* the row stays as it was.
ReportRefused(w) ==
    /\ "refused" \in Mishaps
    /\ w \in Locals
    /\ Reporting(w) /\ worker[w].told = "logged"
    /\ BackToRest(w)
    /\ dropped' = dropped \cup {worker[w].asset}
    /\ UNCHANGED <<queueVars, catalogVars, requeueVars, closer, uncounted, rebuilt>>

-----------------------------------------------------------------------------
(* Stopping and starting.                                                  *)

\* The local worker goes with the serving process, and with it the requests it was
\* answering; the workers and clients that sent them end with the error.
Interrupted(w, x) ==
    \/ x = w
    \/ w \in Locals /\ (worker[x].at = "asked" \/ worker[x].told # "no")

Stop(w) ==
    /\ worker' = [x \in Workers |-> IF Interrupted(w, x) THEN Stopped(x) ELSE worker[x]]
    /\ unqueued' = IF w \in Locals THEN {} ELSE unqueued
    /\ UNCHANGED <<queueVars, stored, rungs, logged, requeueVars, historyVars>>

\* Killed, by an operator or by what it works on, or fallen over a nil dereference.
Die(w) ==
    /\ worker[w] # Stopped(w)
    /\ "die" \in Mishaps \/ Fatal(w)
    /\ Stop(w)

\* An error of the API ends `work', and so it does a client's upload.
WorkExits(w) ==
    /\ w \notin Locals
    /\ worker[w] # Stopped(w) /\ worker[w].at # "building"
    /\ ~Serving \/ "refused" \in Mishaps
    /\ Stop(w)

\* serve starts the worker beside the listener.
Serve(w) ==
    /\ w \in Locals
    /\ worker[w].at = "off"
    /\ worker' = [worker EXCEPT ![w] = Resting("starting")]
    /\ UNCHANGED <<queueVars, catalogVars, requeueVars, historyVars>>

\* An operator runs `work', on a machine of theirs.
RunWork(w) ==
    /\ w \in Remotes
    /\ worker[w].at = "off"
    /\ worker' = [worker EXCEPT ![w] = Resting("idle")]
    /\ UNCHANGED <<queueVars, catalogVars, requeueVars, historyVars>>

\* Worker.Run: anything left claimed is taken to belong to a process that is gone.
StartWithoutRelease(w) ==
    /\ worker[w].at = "starting"
    /\ worker' = [worker EXCEPT ![w] = Resting("idle")]
    /\ UNCHANGED <<queueVars, catalogVars, requeueVars, historyVars>>
StartLocal(w) ==
    /\ worker[w].at = "starting"
    /\ ReleaseClaimedJobs
    /\ worker' = [worker EXCEPT ![w] = Resting("idle")]
    /\ dropped' = {}
    /\ UNCHANGED <<catalogVars, requeueVars, closer, uncounted, rebuilt>>

\* The release was refused, which is logged; the worker goes on.
StartUnreleased(w) ==
    /\ "refused" \in Mishaps
    /\ worker[w].at = "starting"
    /\ worker' = [worker EXCEPT ![w] = Resting("idle")]
    /\ dropped' = dropped \cup Running
    /\ UNCHANGED <<queueVars, catalogVars, requeueVars, closer, uncounted, rebuilt>>

-----------------------------------------------------------------------------
(* The requeue command, a process of its own on the host.                  *)

\* AssetsWithoutRenditions and AssetsAwaitingNothing.
Candidates(mode) ==
    {a \in stored : ~Queued(a) /\ (mode = "fill" => rungs[a] = {})}

ListCandidates(mode) ==
    /\ requeue.mode = "off"
    /\ requeues < MaxRequeues
    /\ Candidates(mode) # {}
    /\ requeue' = [mode |-> mode, todo |-> Candidates(mode), cleared |-> {}]
    /\ requeues' = requeues + 1
    /\ UNCHANGED <<queueVars, catalogVars, worker, historyVars>>

\* DeleteRenditions, for --rebuild only.
ClearRungs(a) ==
    /\ requeue.mode = "rebuild"
    /\ requeue.cleared = {}
    /\ a \in requeue.todo
    /\ rungs' = [rungs EXCEPT ![a] = {}]
    /\ requeue' = [requeue EXCEPT !.cleared = {a}]
    /\ rebuilt' = rebuilt \cup {a}
    /\ UNCHANGED <<queueVars, stored, unqueued, logged, worker, requeues, closer, dropped, uncounted>>

QueueAgain(a) ==
    /\ a \in IF requeue.mode = "rebuild" THEN requeue.cleared ELSE requeue.todo
    /\ Enqueue(a)
    /\ requeue' = IF requeue.todo = {a} THEN NoRequeue
                  ELSE [requeue EXCEPT !.todo = @ \ {a}, !.cleared = {}]
    /\ UNCHANGED <<catalogVars, worker, requeues, historyVars>>

RequeueStops ==
    /\ "die" \in Mishaps
    /\ requeue.mode # "off"
    /\ requeue' = NoRequeue
    /\ UNCHANGED <<queueVars, catalogVars, worker, requeues, historyVars>>

-----------------------------------------------------------------------------

TimePasses == Tick /\ UNCHANGED <<catalogVars, worker, requeueVars, historyVars>>

Upload == \E a \in Assets : InsertAsset(a) \/ QueueUpload(a) \/ QueueLost(a)

Work(w) == \/ AskForJob(w)
           \/ \E a \in Assets : TakeJob(w, a)
           \/ TakeNothing(w)
           \/ PutRung(w)
           \/ Finished(w)
           \/ Unreadable(w)
           \/ TimeReport(w)
           \/ LogReport(w)
           \/ ReportDone(w)
           \/ ReportFailure(w)
           \/ Serve(w)
           \/ StartLocal(w)

Trouble(w) == \/ Stumble(w) \/ LogRefused(w) \/ ReportRefused(w)
              \/ Die(w) \/ WorkExits(w) \/ StartUnreleased(w)

Requeue == \/ \E mode \in RequeueModes : ListCandidates(mode)
           \/ \E a \in Assets : ClearRungs(a) \/ QueueAgain(a)
           \/ RequeueStops

DeriveNext == \/ Upload
              \/ \E w \in Workers : Work(w) \/ Trouble(w) \/ RunWork(w)
              \/ \E w \in Workers, a \in Assets : DeriveHere(w, a)
              \/ Requeue
              \/ TimePasses

DeriveSpec == DeriveInit /\ [][DeriveNext]_vars

(***************************************************************************)
(* The serving process is restarted when it went down, and goes on with    *)
(* its loop while it is up; one that is restarted over and over gets past  *)
(* its release and through a claim in the end; an upload that stored its   *)
(* asset goes on to queue it; time passes.  Nothing is assumed of          *)
(* arrivals, of clients, of `work', which nothing starts again, of the     *)
(* operator or of trouble.                                                 *)
(***************************************************************************)
FairDeriveSpec ==
    /\ DeriveSpec
    /\ \A w \in Locals :
          /\ WF_vars(Work(w))
          /\ SF_vars(StartLocal(w) \/ StartUnreleased(w))
          /\ SF_vars(\E a \in Assets : TakeJob(w, a))
    /\ \A a \in Assets : WF_vars(QueueUpload(a))
    /\ WF_vars(TimePasses)

-----------------------------------------------------------------------------
(* Properties.                                                             *)

WorkTypeOK ==
    /\ TypeOK
    /\ stored \subseteq Assets /\ unqueued \subseteq stored
    /\ rungs \in [Assets -> SUBSET Nat]
    /\ logged \in [Assets -> SUBSET {"ok", "failed"}]
    /\ worker \in [Workers -> [at : Stages, asset : Assets \cup {nobody}, left : SUBSET Nat,
                               tried : Nat, told : Tellings]]
    /\ requeue \in [mode : {"off", "fill", "rebuild"}, todo : SUBSET Assets,
                    cleared : SUBSET Assets]
    /\ requeues \in 0..MaxRequeues
    /\ closer \in [Assets -> Workers \cup {nobody}]
    /\ dropped \subseteq Assets /\ uncounted \subseteq Assets
    /\ rebuilt \subseteq stored

\* All that a machine makes of an asset, or all there will ever be of it.
Whole(w, a) == a \in Broken \/ Ladder[w][a] \subseteq rungs[a]

\* Work that left the queue as a success was done: whoever took the row away, late
\* or not, claimed or not, every form that machine makes of the asset is in the
\* catalog, unless an operator had them thrown away (CompleteJob, Ladder).  What
\* another machine would have made is not promised: one without ffmpeg takes a
\* video's row away with no form made.
DoneMeansWhole ==
    \A a \in Assets \ rebuilt : closer[a] # nobody => Whole(closer[a], a)

\* Nothing that finishes work forgets to count it (logDerivation): when a row goes,
\* the log holds a success of the asset, unless the catalog refused the line.  A
\* report that found no row to time leaves none of its own, and may take away a
\* row that was queued again after; some report before it was counted.
GoneIsCounted ==
    [][\A a \in Assets :
          jobs[a].state # "none" /\ jobs'[a].state = "none"
              => "ok" \in logged[a] \/ a \in uncounted]_vars

\* A claim that has not gone quiet is put back by two things only: a report that
\* the work failed, be it a late one about an earlier claim, and the start of the
\* serving process, which takes every claim for its own.  Never by somebody who
\* asks for work (claimJob, staleAfter).
FreshClaimStays ==
    [][\A a \in Assets :
          /\ jobs[a].state = "running" /\ jobs[a].quiet <= StaleAfter
          /\ jobs'[a].state \in {"pending", "failed"}
          => \E w \in Workers :
                \/ worker[w].at = "broke" /\ worker[w].asset = a /\ worker'[w].at = "idle"
                \/ worker[w].at = "starting" /\ worker'[w].at = "idle"]_vars

\* An attempt is counted at most once: by the report on it or by the release
\* of its claim, not by both.
OneChargePerClaim == \A a \in Assets : jobs[a].attempts <= claims[a]

\* Where nothing goes wrong with any asset, no asset is given up.
NothingGivenUp == \A a \in Assets : jobs[a].state # "failed"

\* With the worker in this process, a claim is in its hands or is released
\* when the process starts again, unless the catalog refused the release, or the
\* report that ended the claim.
NoOrphanedClaim ==
    \A a \in Assets \ dropped : jobs[a].state = "running" =>
        \E w \in Locals : worker[w].at \in {"off", "starting"} \/ worker[w].asset = a

\* Every job that is queued is in the end done or given up, however often it
\* fails or takes its worker down, unless a refused statement leaves its claim with
\* nobody behind it: that lasts until the process starts again.
EveryJobSettles ==
    \A a \in Assets : (jobs[a].state \in {"pending", "running"})
                          ~> (jobs[a].state \in {"none", "failed"} \/ a \in dropped)

\* Every asset that is stored is worked off in the end, or has a row that says it
\* was given up: "a delay, not a lost asset" (Service.queue).
EveryUploadDerived ==
    \A a \in Assets : (a \in stored) ~> (closer[a] # nobody \/ jobs[a].state = "failed")

\* A machine that has not the tool for an asset others make forms of reports the
\* job as failed, as it says when it starts (workCommand).
BareReportsFailure ==
    \A w \in Remotes : worker[w].at = "done" =>
        \/ Ladder[w][worker[w].asset] # {}
        \/ \A x \in Workers : Ladder[x][worker[w].asset] = {}

=============================================================================
