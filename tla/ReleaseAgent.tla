---------------------------- MODULE ReleaseAgent ----------------------------
(***************************************************************************)
(* deploy/release-agent.sh: install the newest published release, and go   *)
(* back to the image there was if it does not come up.                     *)
(*                                                                         *)
(* The timer and an operator may each start the script; `flock' lets one   *)
(* go on.  Each command that changes something is a step.  The script may  *)
(* end after any of them: `set -e' ends it where a command fails, systemd  *)
(* at its timeout, and a restart of the host at any time.                  *)
(*                                                                         *)
(* An image is named by the release it belongs to.  `good' and `adrift'    *)
(* are history variables.                                                  *)
(***************************************************************************)
EXTENDS Naturals, FiniteSets

CONSTANTS Releases, \* what may be published
          None,     \* no release
          Broken,   \* releases that never become healthy
          Runs      \* the script, started by the timer or by hand

ASSUME ReleaseAssumption ==
    /\ None \notin Releases
    /\ Broken \subseteq Releases

VARIABLES latest,    \* the newest published release
          installed, \* the file STATE
          failed,    \* the file FAILED
          pinned,    \* the image in .env
          running,   \* the image the service runs
          run,       \* what each run of the script is doing
          good,      \* the release that last became healthy
          adrift     \* a run ended between its pin and its verdict or rollback

vars == <<latest, installed, failed, pinned, running, run, good, adrift>>

files == <<installed, failed, pinned>>

-----------------------------------------------------------------------------
Steps == {"none", "checking", "pulling", "reading", "pinning", "starting", "waiting",
          "recording", "returning", "restarting", "keeping", "clearing"}

\* Where a run is, and what it read: the release to install and `previous'.
Run == [at : Steps, version : Releases \cup {None}, previous : Releases \cup {None}]

NoRun == [at |-> "none", version |-> None, previous |-> None]

TypeOK ==
    /\ latest \in Releases \cup {None}
    /\ {installed, failed, pinned, running, good} \subseteq Releases \cup {None}
    /\ run \in [Runs -> Run]
    /\ adrift \in BOOLEAN

Init ==
    /\ latest = None /\ installed = None /\ failed = None
    /\ pinned = None /\ running = None /\ good = None
    /\ run = [r \in Runs |-> NoRun]
    /\ adrift = FALSE

Goto(r, at) == run' = [run EXCEPT ![r].at = at]
Exit(r) == run' = [run EXCEPT ![r] = NoRun]

\* A bug: a run does not see that another has the lock.
LockAlwaysFree == TRUE

\* flock: the lock goes with the process that has it.
LockFree == \A r \in Runs : run[r].at = "none"

-----------------------------------------------------------------------------
(* The script, from the top.                                               *)

\* It takes the lock, or exits; then it asks which release is the newest, which
\* may fail.
Start(r) ==
    /\ run[r].at = "none"
    /\ LockFree
    /\ latest # None
    /\ run' = [run EXCEPT ![r] = [NoRun EXCEPT !.at = "checking", !.version = latest]]
    /\ UNCHANGED <<latest, files, running, good, adrift>>

\* Nothing to do: it is installed, or it was tried.
Check(r) ==
    /\ run[r].at = "checking"
    /\ IF run[r].version \in {installed, failed} THEN Exit(r) ELSE Goto(r, "pulling")
    /\ UNCHANGED <<latest, files, running, good, adrift>>

\* docker pull, before anything is changed.
Pull(r) ==
    /\ run[r].at = "pulling"
    /\ Goto(r, "reading")
    /\ UNCHANGED <<latest, files, running, good, adrift>>

ReadPrevious(r) ==
    /\ run[r].at = "reading"
    /\ run' = [run EXCEPT ![r].at = "pinning", ![r].previous = pinned]
    /\ UNCHANGED <<latest, files, running, good, adrift>>

PinNew(r) ==
    /\ run[r].at = "pinning"
    /\ pinned' = run[r].version
    /\ Goto(r, "starting")
    /\ UNCHANGED <<latest, installed, failed, running, good, adrift>>

\* compose up.
StartNew(r) ==
    /\ run[r].at = "starting"
    /\ running' = pinned
    /\ Goto(r, "waiting")
    /\ UNCHANGED <<latest, files, good, adrift>>

\* The service answers in time.
BecomeHealthy(r) ==
    /\ run[r].at = "waiting"
    /\ running \notin Broken
    /\ good' = running
    /\ adrift' = FALSE
    /\ Goto(r, "keeping")
    /\ UNCHANGED <<latest, files, running>>

\* It does not, be it for being slow.
GiveUp(r) ==
    /\ run[r].at = "waiting"
    /\ Goto(r, "recording")
    /\ UNCHANGED <<latest, files, running, good, adrift>>

RecordFailed(r) ==
    /\ run[r].at = "recording"
    /\ failed' = run[r].version
    /\ IF run[r].previous = None THEN Exit(r) ELSE Goto(r, "returning")
    /\ UNCHANGED <<latest, installed, pinned, running, good, adrift>>

\* A bug: going back goes to the release that the file STATE names.
PinInstalled(r) ==
    /\ run[r].at = "returning"
    /\ pinned' = installed
    /\ Goto(r, "restarting")
    /\ UNCHANGED <<latest, installed, failed, running, good, adrift>>

PinPrevious(r) ==
    /\ run[r].at = "returning"
    /\ pinned' = run[r].previous
    /\ Goto(r, "restarting")
    /\ UNCHANGED <<latest, installed, failed, running, good, adrift>>

StartPrevious(r) ==
    /\ run[r].at = "restarting"
    /\ running' = pinned
    /\ Exit(r)
    /\ UNCHANGED <<latest, files, good, adrift>>

RecordInstalled(r) ==
    /\ run[r].at = "keeping"
    /\ installed' = run[r].version
    /\ Goto(r, "clearing")
    /\ UNCHANGED <<latest, failed, pinned, running, good, adrift>>

ForgetFailed(r) ==
    /\ run[r].at = "clearing"
    /\ failed' = None
    /\ Exit(r)
    /\ UNCHANGED <<latest, installed, pinned, running, good, adrift>>

\* It ends here.  History: from its pin to its verdict, and from a failure to
\* the end of the rollback, it leaves behind what nothing puts right.
BreakOff(r) ==
    /\ run[r].at # "none"
    /\ adrift' = (adrift \/ run[r].at \in {"starting", "waiting", "recording", "returning", "restarting"})
    /\ Exit(r)
    /\ UNCHANGED <<latest, files, running, good>>

-----------------------------------------------------------------------------
(* The world outside.                                                      *)

\* A release is published, or the newest one is withdrawn.
Publish ==
    /\ \E v \in Releases : v # latest /\ latest' = v
    /\ UNCHANGED <<files, running, run, good, adrift>>

\* An operator deletes the file FAILED, to have a release tried again.
Retry ==
    /\ failed # None
    /\ failed' = None
    /\ UNCHANGED <<latest, installed, pinned, running, run, good, adrift>>

Script(r) ==
    \/ Start(r) \/ Check(r) \/ Pull(r) \/ ReadPrevious(r) \/ PinNew(r) \/ StartNew(r)
    \/ BecomeHealthy(r) \/ RecordInstalled(r) \/ ForgetFailed(r)
    \/ GiveUp(r) \/ RecordFailed(r) \/ PinPrevious(r) \/ StartPrevious(r)

Next ==
    \/ \E r \in Runs : Script(r) \/ BreakOff(r)
    \/ Publish \/ Retry

Spec == Init /\ [][Next]_vars

-----------------------------------------------------------------------------
(* Properties.                                                             *)

\* After every run the service runs the release that last became healthy, if one
\* ever did, unless a run ended between its pin and its verdict, or in the middle
\* of going back: then the next one takes for `previous' what nothing vouches for.
BackToTheLastGood ==
    LockFree /\ ~adrift /\ good # None => running = good /\ pinned = good

\* No outage on a loop: no step of anybody moves .env or the service to a release
\* while it is recorded as failed.  A run may find that very release pinned, left
\* by a run that was cut off or by a first install that had nothing to go back to,
\* and so take it for `previous'; going back to it then moves nothing, because it
\* is still what is pinned and what runs.
FailedIsNotPutUp ==
    [][/\ pinned' # pinned => pinned' # failed
       /\ running' # running => running' # failed]_vars
=============================================================================
