------------------------- MODULE ReleaseAgentProofs -------------------------
(***************************************************************************)
(* The release agent, for any set of releases, whichever of them are       *)
(* broken, and any number of runs started at once.                         *)
(***************************************************************************)
EXTENDS ReleaseAgent, TLAPS

\* flock: of the runs only one is past the lock.
OneAtWork == \A r, s \in Runs : run[r].at # "none" /\ run[s].at # "none" => r = s

\* What a run is about to put up was not recorded as failed when it looked, and
\* it has been nobody else's to record since.
NotTried ==
    \A r \in Runs :
        /\ run[r].at # "none" => run[r].version # None
        /\ run[r].at \in {"pulling", "reading", "pinning", "starting"} => failed # run[r].version

\* What a run goes back from is what is pinned and what runs, and nothing else can
\* be recorded as failed while it does.
Returning ==
    \A r \in Runs :
        /\ run[r].at \in {"starting", "waiting", "recording", "returning"} => pinned = run[r].version
        /\ run[r].at \in {"waiting", "recording", "returning", "restarting"} => running = run[r].version
        /\ run[r].at \in {"returning", "restarting"} =>
              failed \in {run[r].version, None} /\ run[r].previous # None
        /\ run[r].at = "restarting" => pinned = run[r].previous

Untouched == {"none", "checking", "pulling", "reading", "pinning"}

\* What is asked for health is what was pinned, and what is kept is what answered.
Answered ==
    \A r \in Runs :
        /\ run[r].at = "waiting" => running = pinned
        /\ run[r].at \in {"keeping", "clearing"} => running = good /\ pinned = good

\* The last good release is what runs, or what the run at work will go back to.
Vouched ==
    ~adrift /\ good # None =>
        /\ (\A r \in Runs : run[r].at \in Untouched) => running = good /\ pinned = good
        /\ \A r \in Runs :
            /\ run[r].at \in {"pinning", "starting", "waiting", "recording", "returning"}
                 => run[r].previous = good
            /\ run[r].at = "restarting" => pinned = good

IInv == TypeOK /\ OneAtWork /\ NotTried /\ Returning /\ Answered /\ Vouched

-----------------------------------------------------------------------------
LEMMA InitHolds == Init => IInv
<1> SUFFICES ASSUME Init PROVE IInv
  OBVIOUS
<1>1. NoRun \in Run /\ \A r \in Runs : run[r] = NoRun
  BY DEF Init, NoRun, Run, Steps
<1>2. TypeOK
  BY <1>1 DEF Init, TypeOK
<1>3. OneAtWork /\ NotTried /\ Returning /\ Answered /\ Vouched
  BY <1>1 DEF Init, OneAtWork, NotTried, Returning, Answered, Vouched, NoRun
<1> QED BY <1>2, <1>3 DEF IInv

\* Where a run is after a step of its own, and what it read stays.
LEMMA Moved ==
    ASSUME TypeOK, NEW r \in Runs
    PROVE  /\ \A at \in Steps : Goto(r, at) =>
                run'[r].at = at /\ run'[r].version = run[r].version /\ run'[r].previous = run[r].previous
           /\ Exit(r) => run'[r].at = "none"
  BY DEF TypeOK, Goto, Exit, NoRun, Run

LEMMA TypeStep ==
    ASSUME TypeOK, [Next]_vars
    PROVE  TypeOK'
<1> USE DEF TypeOK
<1>1. NoRun \in Run /\ {"none", "checking", "pulling", "reading", "pinning", "starting", "waiting",
                        "recording", "returning", "restarting", "keeping", "clearing"} = Steps
  BY DEF NoRun, Run, Steps
<1>2. ASSUME NEW r \in Runs, NEW at \in Steps, Goto(r, at) PROVE run' \in [Runs -> Run]
  BY <1>2 DEF Goto, Run
<1>3. ASSUME NEW r \in Runs, Exit(r) PROVE run' \in [Runs -> Run]
  BY <1>1, <1>3 DEF Exit
<1>4. ASSUME NEW r \in Runs, Script(r) PROVE TypeOK'
  <2>1. CASE Start(r)
    <3>1. [NoRun EXCEPT !.at = "checking", !.version = latest] \in Run
      BY <2>1 DEF Start, NoRun, Run, Steps
    <3> QED BY <2>1, <3>1 DEF Start, files
  <2>2. CASE Check(r)
    BY <2>2, <1>1, <1>2, <1>3 DEF Check, files
  <2>3. CASE Pull(r) \/ StartNew(r) \/ GiveUp(r) \/ BecomeHealthy(r)
    BY <2>3, <1>1, <1>2 DEF Pull, StartNew, GiveUp, BecomeHealthy, files
  <2>4. CASE ReadPrevious(r)
    BY <2>4, <1>1 DEF ReadPrevious, files, Run
  <2>5. CASE PinNew(r) \/ PinPrevious(r) \/ RecordInstalled(r)
    <3>1. run[r].version \in Releases \cup {None} /\ run[r].previous \in Releases \cup {None}
      BY DEF Run
    <3> QED BY <2>5, <3>1, <1>1, <1>2 DEF PinNew, PinPrevious, RecordInstalled
  <2>6. CASE RecordFailed(r)
    <3>1. run[r].version \in Releases \cup {None}
      BY DEF Run
    <3> QED BY <2>6, <3>1, <1>1, <1>2, <1>3 DEF RecordFailed
  <2>7. CASE StartPrevious(r) \/ ForgetFailed(r)
    BY <2>7, <1>3 DEF StartPrevious, ForgetFailed, files
  <2> QED BY <1>4, <2>1, <2>2, <2>3, <2>4, <2>5, <2>6, <2>7 DEF Script
<1>5. ASSUME NEW r \in Runs, BreakOff(r) PROVE TypeOK'
  BY <1>3, <1>5 DEF BreakOff, files
<1>6. CASE Publish \/ Retry
  BY <1>6 DEF Publish, Retry, files
<1>7. CASE UNCHANGED vars
  BY <1>7 DEF vars
<1> QED BY <1>4, <1>5, <1>6, <1>7 DEF Next

\* A step of one run leaves every other one where it is.
LEMMA OthersStay ==
    ASSUME TypeOK, NEW r \in Runs, Script(r) \/ BreakOff(r)
    PROVE  /\ run' = [run EXCEPT ![r] = run'[r]]
           /\ \A s \in Runs \ {r} : run'[s] = run[s]
<1> QED
  BY DEF TypeOK, Script, BreakOff, Start, Check, Pull, ReadPrevious, PinNew, StartNew, BecomeHealthy,
         GiveUp, RecordFailed, PinPrevious, StartPrevious, RecordInstalled, ForgetFailed, Goto, Exit

LEMMA LockStep ==
    ASSUME TypeOK, OneAtWork, [Next]_vars
    PROVE  OneAtWork'
<1> USE DEF OneAtWork
<1>1. ASSUME NEW r \in Runs, Start(r) PROVE OneAtWork'
  BY <1>1, OthersStay DEF Start, LockFree, Script
<1>2. ASSUME NEW r \in Runs, Script(r) \/ BreakOff(r), ~Start(r) PROVE OneAtWork'
  <2>1. run[r].at # "none"
    BY <1>2 DEF Script, BreakOff, Check, Pull, ReadPrevious, PinNew, StartNew, BecomeHealthy,
                GiveUp, RecordFailed, PinPrevious, StartPrevious, RecordInstalled, ForgetFailed
  <2> QED BY <1>2, <2>1, OthersStay
<1>3. CASE Publish \/ Retry \/ UNCHANGED vars
  BY <1>3 DEF Publish, Retry, vars
<1> QED BY <1>1, <1>2, <1>3 DEF Next

LEMMA TriedStep ==
    ASSUME TypeOK, OneAtWork, NotTried, [Next]_vars
    PROVE  NotTried'
<1> USE ReleaseAssumption DEF NotTried
<1>1. ASSUME NEW r \in Runs, Script(r) \/ BreakOff(r) PROVE NotTried'
  <2>1. \A s \in Runs \ {r} : run'[s] = run[s]
    BY <1>1, OthersStay
  <2> USE Moved DEF Steps
  <2>2. /\ run'[r].at # "none" => run'[r].version # None
        /\ run'[r].at \in {"pulling", "reading", "pinning", "starting"} => failed' # run'[r].version
    <3>1. CASE Start(r)
      BY <3>1 DEF TypeOK, Start, NoRun
    <3>2. CASE Check(r)
      BY <3>2 DEF Check, files
    <3>3. CASE Pull(r)
      BY <3>3 DEF Pull, files
    <3>4. CASE ReadPrevious(r)
      BY <3>4 DEF TypeOK, Run, ReadPrevious, files
    <3>5. CASE PinNew(r) \/ StartNew(r) \/ BecomeHealthy(r) \/ GiveUp(r)
      BY <3>5 DEF PinNew, StartNew, BecomeHealthy, GiveUp
    <3>6. CASE RecordFailed(r) \/ PinPrevious(r) \/ StartPrevious(r)
      BY <3>6 DEF RecordFailed, PinPrevious, StartPrevious
    <3>7. CASE RecordInstalled(r) \/ ForgetFailed(r) \/ BreakOff(r)
      BY <3>7 DEF RecordInstalled, ForgetFailed, BreakOff
    <3> QED BY <1>1, <3>1, <3>2, <3>3, <3>4, <3>5, <3>6, <3>7 DEF Script
  <2>4. run[r].at = "none" => failed' = failed
    BY <1>1 DEF Script, BreakOff, Start, Check, Pull, ReadPrevious, PinNew, StartNew, BecomeHealthy,
         GiveUp, RecordFailed, PinPrevious, StartPrevious, RecordInstalled, ForgetFailed, files
  <2>5. \A s \in Runs \ {r} : run[s].at # "none" => run[r].at = "none"
    BY DEF OneAtWork
  <2> QED BY <2>1, <2>2, <2>4, <2>5
<1>2. CASE Retry
  BY <1>2 DEF Retry
<1>3. CASE Publish \/ UNCHANGED vars
  BY <1>3 DEF Publish, vars, files
<1> QED BY <1>1, <1>2, <1>3 DEF Next

\* While a run is at work the others are where nothing is asked of them.
LEMMA OthersIdle ==
    ASSUME OneAtWork, NEW r \in Runs, run[r].at # "none"
    PROVE  \A s \in Runs \ {r} : run[s].at = "none"
  BY DEF OneAtWork

LEMMA ReturnStep ==
    ASSUME TypeOK, OneAtWork, Returning, [Next]_vars
    PROVE  Returning'
<1> USE ReleaseAssumption DEF Returning
<1>1. ASSUME NEW r \in Runs, Script(r) \/ BreakOff(r) PROVE Returning'
  <2>1. \A s \in Runs \ {r} : run'[s] = run[s] /\ run[s].at = "none"
    BY <1>1, OthersStay, OthersIdle
       DEF Script, BreakOff, Start, LockFree, Check, Pull, ReadPrevious, PinNew, StartNew, BecomeHealthy,
           GiveUp, RecordFailed, PinPrevious, StartPrevious, RecordInstalled, ForgetFailed
  <2> USE <2>1, Moved DEF Steps
  <2>2. CASE Start(r)
    BY <2>2 DEF TypeOK, Start, NoRun, files
  <2>3. CASE Check(r)
    BY <2>3 DEF Check, files
  <2>4. CASE Pull(r) \/ BecomeHealthy(r)
    BY <2>4 DEF Pull, BecomeHealthy, files
  <2>5. CASE ReadPrevious(r)
    <3>1. run'[r].at = "pinning"
      BY <2>5 DEF TypeOK, Run, ReadPrevious
    <3> QED BY <2>5, <3>1 DEF ReadPrevious, files
  <2>6. CASE PinNew(r)
    BY <2>6 DEF PinNew
  <2>7. CASE StartNew(r)
    BY <2>7 DEF StartNew, files
  <2>8. CASE GiveUp(r)
    BY <2>8 DEF GiveUp, files
  <2>9. CASE RecordFailed(r)
    BY <2>9 DEF RecordFailed
  <2>10. CASE PinPrevious(r)
    BY <2>10 DEF PinPrevious
  <2>11. CASE StartPrevious(r) \/ RecordInstalled(r) \/ ForgetFailed(r) \/ BreakOff(r)
    BY <2>11 DEF StartPrevious, RecordInstalled, ForgetFailed, BreakOff, files
  <2> QED BY <1>1, <2>2, <2>3, <2>4, <2>5, <2>6, <2>7, <2>8, <2>9, <2>10, <2>11 DEF Script
<1>2. CASE Publish \/ Retry \/ UNCHANGED vars
  BY <1>2 DEF Publish, Retry, vars, files
<1> QED BY <1>1, <1>2 DEF Next

LEMMA GoodStep ==
    ASSUME TypeOK, OneAtWork, Answered, Vouched, [Next]_vars
    PROVE  Answered' /\ Vouched'
<1> USE DEF Answered, Vouched, Untouched
<1>1. ASSUME NEW r \in Runs, Script(r) \/ BreakOff(r) PROVE Answered' /\ Vouched'
  <2>1. \A s \in Runs \ {r} : run'[s] = run[s] /\ run[s].at = "none"
    BY <1>1, OthersStay, OthersIdle
       DEF Script, BreakOff, Start, LockFree, Check, Pull, ReadPrevious, PinNew, StartNew, BecomeHealthy,
           GiveUp, RecordFailed, PinPrevious, StartPrevious, RecordInstalled, ForgetFailed
  <2> USE Moved DEF Steps
  <2>2. CASE Start(r)
    BY <2>1, <2>2 DEF TypeOK, Start, NoRun, files
  <2>3. CASE Check(r)
    BY <2>1, <2>3 DEF Check, files
  <2>4. CASE Pull(r)
    BY <2>1, <2>4 DEF Pull, files
  <2>5. CASE ReadPrevious(r)
    <3>1. run'[r].at = "pinning" /\ run'[r].previous = pinned
      BY <2>5 DEF TypeOK, Run, ReadPrevious
    <3> QED BY <2>1, <2>5, <3>1 DEF ReadPrevious, files
  <2>6. CASE PinNew(r)
    BY <2>1, <2>6 DEF PinNew
  <2>7. CASE StartNew(r)
    BY <2>1, <2>7 DEF StartNew, files
  <2>8. CASE BecomeHealthy(r)
    BY <2>1, <2>8 DEF BecomeHealthy, files
  <2>9. CASE GiveUp(r)
    BY <2>1, <2>9 DEF GiveUp, files
  <2>10. CASE RecordFailed(r)
    BY <2>1, <2>10, ReleaseAssumption DEF RecordFailed
  <2>11. CASE PinPrevious(r)
    BY <2>1, <2>11 DEF PinPrevious
  <2>12. CASE StartPrevious(r)
    BY <2>1, <2>12 DEF StartPrevious, files
  <2>13. CASE RecordInstalled(r) \/ ForgetFailed(r)
    BY <2>1, <2>13 DEF RecordInstalled, ForgetFailed
  <2>14. CASE BreakOff(r)
    <3>1. run'[r].at = "none" /\ run[r].at \in Steps
      BY <2>14 DEF BreakOff, TypeOK, Run
    <3> QED BY <2>1, <2>14, <3>1 DEF BreakOff, files
  <2> QED BY <1>1, <2>2, <2>3, <2>4, <2>5, <2>6, <2>7, <2>8, <2>9, <2>10, <2>11, <2>12, <2>13, <2>14
       DEF Script
<1>2. CASE Publish \/ Retry \/ UNCHANGED vars
  BY <1>2 DEF Publish, Retry, vars, files
<1> QED BY <1>1, <1>2 DEF Next

\* The inductive invariant: one run at work at a time, what it is about to put up
\* not recorded as failed, and the last good release either running or what that
\* run goes back to.
THEOREM Invariance == Spec => []IInv
<1>1. IInv /\ [Next]_vars => IInv'
  BY TypeStep, LockStep, TriedStep, ReturnStep, GoodStep DEF IInv
<1> QED BY <1>1, InitHolds, PTL DEF Spec

\* After every run the service runs the release that last became healthy, unless
\* a run was cut off between its pin and its verdict or in going back.
THEOREM GoesBack == Spec => []BackToTheLastGood
<1>1. IInv => BackToTheLastGood
  BY DEF IInv, Vouched, BackToTheLastGood, LockFree, Untouched
<1> QED BY <1>1, Invariance, PTL

\* Neither .env nor the service is ever moved to a release while it is recorded
\* as failed, by a run that installs, by one that goes back, after any cut.
THEOREM NoLoop == Spec => FailedIsNotPutUp
<1> DEFINE Moves == /\ pinned' # pinned => pinned' # failed
                    /\ running' # running => running' # failed
<1>1. ASSUME IInv, [Next]_vars PROVE [Moves]_vars
  <2> USE <1>1 DEF IInv, NotTried, Returning
  <2>1. ASSUME NEW r \in Runs, Script(r) PROVE Moves
    <3>1. CASE PinNew(r)
      BY <3>1 DEF PinNew
    <3>2. CASE StartNew(r)
      BY <3>2 DEF StartNew, files
    <3>3. CASE PinPrevious(r)
      BY <3>3 DEF PinPrevious
    <3>4. CASE StartPrevious(r)
      BY <3>4 DEF StartPrevious, files
    <3>5. CASE ~(PinNew(r) \/ StartNew(r) \/ PinPrevious(r) \/ StartPrevious(r))
      BY <2>1, <3>5 DEF Script, Start, Check, Pull, ReadPrevious, BecomeHealthy, GiveUp,
                        RecordFailed, RecordInstalled, ForgetFailed, files
    <3> QED BY <3>1, <3>2, <3>3, <3>4, <3>5
  <2>2. CASE Publish \/ Retry \/ \E r \in Runs : BreakOff(r)
    BY <2>2 DEF Publish, Retry, BreakOff, files
  <2> QED BY <1>1, <2>1, <2>2 DEF Next
<1>2. IInv /\ [Next]_vars => [Moves]_vars
  BY <1>1
<1> QED BY <1>2, Invariance, PTL DEF Spec, FailedIsNotPutUp
=============================================================================
