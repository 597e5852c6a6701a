--------------------------- MODULE PublicationProofs ---------------------------
(***************************************************************************)
(* What a run publishes and who approved it: the rest of the safety of      *)
(* RunLifecycle, for every number of projects, runs, events, workers and    *)
(* faults, and for lost locks as far as the properties allow them.          *)
(***************************************************************************)
EXTENDS RunLifecycleProofs

-----------------------------------------------------------------------------
(* The steps of a worker as this module sees them: what they do to the      *)
(* worker, to the checkpoint and publication of its run, and to the         *)
(* revision and the status of runs.                                         *)

\* An event keeps its run, so a worker keeps its run with its event.
Follows ==
    \A v \in Workers :
        worker[v].phase # "idle" /\ worker'[v].event = worker[v].event =>
            RunOf(v)' = RunOf(v)

\* No run begins to wait or completes, and none gets a new revision.
RunsQuiet ==
    \A r \in Runs :
        /\ run'[r].revision = run[r].revision
        /\ run'[r].status \in {"waiting_review", "completed"} =>
              run'[r] = run[r]

Others(w) == \A v \in Workers \ {w} : worker'[v] = worker[v]

\* Worker w goes on to another phase of the same execution.
Goes(w, phase) ==
    /\ Others(w)
    /\ worker'[w].phase = phase
    /\ worker'[w].event = worker[w].event
    /\ worker'[w].holds = worker[w].holds

Saves(w, pos, interrupted) ==
    /\ checkpoint'[RunOf(w)] = [pos |-> pos, interrupted |-> interrupted]
    /\ \A r \in Runs \ {RunOf(w)} : checkpoint'[r] = checkpoint[r]
    /\ UNCHANGED <<run, decisions, published, outputs, lockLosses>>

OnlyWorkers == UNCHANGED <<run, decisions, artifacts, lockLosses>>

\* The execution ends without an outcome, or its failure has been recorded.
GivesUp(w) ==
    /\ Others(w)
    /\ worker'[w].phase \in {"idle", "failing"}
    /\ ~worker'[w].holds
    /\ RunsQuiet
    /\ UNCHANGED <<decisions, artifacts, lockLosses>>

Takes(w) ==
    /\ Others(w)
    /\ worker[w].phase = "idle"
    /\ worker'[w].phase = "received"
    /\ worker'[w].holds = worker[w].holds
    /\ OnlyWorkers

Locks(w) ==
    /\ Others(w)
    /\ worker[w].phase = "received"
    /\ worker'[w].phase = "locked"
    /\ worker'[w].event = worker[w].event
    /\ worker'[w].holds
    /\ LockFree(RunOf(w))
    /\ OnlyWorkers

Begins(w) ==
    /\ worker[w].phase = "locked"
    /\ Goes(w, "loading")
    /\ run'[RunOf(w)].status = "running"
    /\ RunsQuiet
    /\ UNCHANGED <<decisions, artifacts, lockLosses>>

\* The gate it resumes has a decision, or it stops there again.
Loads(w) ==
    LET c == checkpoint[RunOf(w)]
    IN  /\ worker[w].phase = "loading"
        /\ Goes(w, worker'[w].phase)
        /\ worker'[w].pos = c.pos
        /\ OnlyWorkers
        /\ \/ ~c.interrupted /\ worker'[w].phase = "node"
           \/ /\ c.interrupted
              /\ Newest(RunOf(w), c.pos) = {}
              /\ worker'[w].phase = "returned"
           \/ /\ c.interrupted
              /\ \E d \in Newest(RunOf(w), c.pos) :
                    worker'[w].phase = IF d.verdict = "approve" THEN "approving"
                                                                ELSE "rejecting"

Passes(w) ==
    /\ worker[w].phase \in {"approving", "rejecting"}
    /\ worker[w].pos \in Gates
    /\ Goes(w, "node")
    /\ worker'[w].pos = IF worker[w].phase = "approving" THEN worker[w].pos + 1
                                                         ELSE Rejected
    /\ Saves(w, worker'[w].pos, FALSE)

Hits(w) ==
    /\ worker[w].phase = "node"
    /\ worker[w].pos \in Gates
    /\ Goes(w, "returned")
    /\ Saves(w, worker[w].pos, TRUE)

Enters(w) ==
    /\ worker[w].phase = "node"
    /\ worker[w].pos \in Nodes
    /\ Goes(w, IF worker[w].pos = Publish THEN "publishing" ELSE "leaving")
    /\ worker'[w].pos = worker[w].pos
    /\ OnlyWorkers

LooksUp(w) ==
    /\ worker[w].phase = "publishing"
    /\ Goes(w, IF published[RunOf(w)] = {} THEN "committing" ELSE "leaving")
    /\ worker'[w].pos = worker[w].pos
    /\ worker'[w].revision = run[RunOf(w)].revision
    /\ OnlyWorkers

Commits(w) ==
    /\ worker[w].phase = "committing"
    /\ worker[w].revision \notin published[RunOf(w)]
    /\ Goes(w, "leaving")
    /\ worker'[w].pos = worker[w].pos
    /\ published' = [published EXCEPT ![RunOf(w)] = @ \cup {worker[w].revision}]
    /\ outputs' = [outputs EXCEPT ![RunOf(w)] = @ + 1]
    /\ UNCHANGED <<run, decisions, checkpoint, lockLosses>>

Leaves(w) ==
    /\ worker[w].phase = "leaving"
    /\ worker[w].pos \in Nodes
    /\ Goes(w, "node")
    /\ worker'[w].pos = worker[w].pos + 1
    /\ Saves(w, worker'[w].pos, FALSE)

Reaches(w) ==
    /\ worker[w].phase = "node"
    /\ worker[w].pos \in {Ended, Rejected}
    /\ Goes(w, "returned")
    /\ OnlyWorkers

Reads(w) ==
    /\ worker[w].phase = "returned"
    /\ Goes(w, "finishing")
    /\ worker'[w].pos = checkpoint[RunOf(w)].pos
    /\ worker'[w].interrupted = checkpoint[RunOf(w)].interrupted
    /\ OnlyWorkers

\* The final transaction gives the run its outcome.
Concludes(w) ==
    LET r == RunOf(w)
        x == worker[w]
    IN  /\ x.phase = "finishing"
        /\ Others(w)
        /\ worker'[w].phase = "idle" /\ ~worker'[w].holds
        /\ OtherRunsKept(r)
        /\ run'[r].status = IF x.interrupted THEN "waiting_review"
                            ELSE IF x.pos = Ended THEN "completed"
                            ELSE "cancelled"
        /\ x.interrupted => run'[r].pending = x.pos
        /\ ~x.interrupted => run'[r].revision = run[r].revision
        /\ UNCHANGED <<decisions, artifacts, lockLosses>>

Loses(w) ==
    /\ worker[w].holds
    /\ worker' = [worker EXCEPT ![w].holds = FALSE]
    /\ lockLosses' = lockLosses + 1
    /\ UNCHANGED <<run, decisions, artifacts>>

WorkerEffect(w) ==
    \/ GivesUp(w)  \/ Takes(w)  \/ Locks(w)  \/ Begins(w)  \/ Loads(w)
    \/ Passes(w)  \/ Hits(w)  \/ Enters(w)  \/ LooksUp(w)  \/ Commits(w)
    \/ Leaves(w)  \/ Reaches(w)  \/ Reads(w)  \/ Concludes(w)  \/ Loses(w)

\* A human's verdict on the stage the run waits at.
Reviews(r, verdict) ==
    /\ run[r].status = "waiting_review"
    /\ run'[r].status = "queued"
    /\ \E d \in Decision :
          /\ d.stage = run[r].pending /\ d.verdict = verdict
          /\ decisions' = [decisions EXCEPT ![r] = @ \cup {d}]

Outside ==
    /\ RunsQuiet
    /\ UNCHANGED <<worker, artifacts, lockLosses>>
    /\ \/ UNCHANGED decisions
       \/ \E r \in Runs, verdict \in Verdicts : Reviews(r, verdict)

Effect ==
    /\ Follows
    /\ Outside \/ \E w \in Workers : WorkerEffect(w)

\* An outbox row in use keeps its run, whatever happens to its status.
LEMMA StepFollows ==
  ASSUME Typed, [Next]_vars PROVE Follows
<1>1. /\ outbox \in [Events -> OutboxRecord]
      /\ \A v \in Workers : worker[v].phase # "idle" =>
            worker[v].event \in Events /\ Used(worker[v].event)
  BY DEF Typed, TypeOK, Fits, WorkerFits
<1>2. SUFFICES \A e \in Events : Used(e) => outbox'[e].run = outbox[e].run
  BY <1>1 DEF Follows, RunOf
<1>3. ASSUME NEW r \in Runs, NEW e \in Events, Enqueue(r, e)
      PROVE  \A f \in Events : Used(f) => outbox'[f].run = outbox[f].run
  BY <1>1, <1>3 DEF Enqueue, Fresh, Used
<1>4. ASSUME NEW w \in Workers, NEW status, CloseEvent(w, status)
      PROVE  \A f \in Events : Used(f) => outbox'[f].run = outbox[f].run
  BY <1>1, <1>4 DEF CloseEvent, OutboxRecord
<1>5. ASSUME NEW batch \in SUBSET Events, Dispatch(batch)
      PROVE  \A f \in Events : Used(f) => outbox'[f].run = outbox[f].run
  BY <1>1, <1>5 DEF Dispatch, OutboxRecord
<1>6. CASE Command
  BY <1>3, <1>6 DEF Command, CancelRun, StartRun, RetryRun, ReviewRun
<1>7. CASE Deliver
  BY <1>5, <1>7 DEF Deliver, DispatchAborted, LoseMessage, database
<1>8. ASSUME NEW w \in Workers, Work(w)
      PROVE  \A f \in Events : Used(f) => outbox'[f].run = outbox[f].run
  BY <1>4, <1>8
  DEF Work, TryLock, Begin, Load, PassGate, HitGate, EnterNode,
      LookUpPublished, CommitOutput, LeaveNode, ReachEnd, ReadOutcome, Finish,
      SetOutcome, OnFailure, database
<1>9. CASE UNCHANGED outbox
  BY <1>9
<1>10. ASSUME NEW w \in Workers,
              \/ \E e \in Events : Receive(w, e) \/ DropTerminal(w, e)
              \/ Raise(w) \/ Crash(w) \/ LoseLock(w)
       PROVE  UNCHANGED outbox
  BY <1>10 DEF Receive, DropTerminal, Raise, Crash, LoseLock, database
<1>11. QED
  BY <1>6, <1>7, <1>8, <1>9, <1>10 DEF Next, vars, database

\* A step that ends an execution and leaves the database alone.
LEMMA FailGivesUp ==
  ASSUME Typed, NEW w \in Workers, Fail(w) \/ Stop(w),
         UNCHANGED <<run, decisions, artifacts, lockLosses>>
  PROVE  GivesUp(w)
  BY DEF Typed, TypeOK, GivesUp, Fail, Stop, Idle, Resting, Others, RunsQuiet

\* The commands of service.py, dispatch() and Redis touch no worker, no
\* checkpoint and no publication.
LEMMA OutsideEffect ==
  ASSUME Typed, Command \/ Deliver PROVE Outside
<1>1. run \in [Runs -> RunRecord]
  BY DEF Typed, TypeOK
<1>2. ASSUME NEW r \in Runs, CancelRun(r) PROVE Outside
  BY <1>1, <1>2 DEF CancelRun, Outside, RunsQuiet, RunRecord
<1>3. ASSUME NEW r \in Runs, NEW e \in Events, StartRun(r, e) \/ RetryRun(r, e)
      PROVE  Outside
  BY <1>1, <1>3 DEF StartRun, RetryRun, Outside, RunsQuiet, RunRecord
<1>4. ASSUME NEW r \in Runs, NEW e \in Events, NEW v \in Verdicts,
             ReviewRun(r, e, v)
      PROVE  Outside
  <2> DEFINE d == [revision |-> run[r].revision, stage |-> run[r].pending,
                   verdict |-> v]
  <2>1. d \in Decision
    BY <1>1, <1>4 DEF ReviewRun, RunRecord, Decision, Typed, Fits
  <2>2. /\ d.stage = run[r].pending /\ d.verdict = v
        /\ decisions' = [decisions EXCEPT ![r] = @ \cup {d}]
    BY <1>4 DEF ReviewRun
  <2> HIDE DEF d
  <2>3. /\ run[r].status = "waiting_review"
        /\ run'[r].status = "queued"
        /\ RunsQuiet
    BY <1>1, <1>4 DEF ReviewRun, RunsQuiet, RunRecord
  <2>4. Reviews(r, v)
    BY <2>1, <2>2, <2>3 DEF Reviews
  <2>5. QED
    BY <1>4, <2>3, <2>4 DEF ReviewRun, Outside
<1>5. CASE Deliver
  BY <1>5 DEF Deliver, Dispatch, DispatchAborted, LoseMessage, Outside,
              RunsQuiet, database
<1>6. QED
  BY <1>2, <1>3, <1>4, <1>5 DEF Command

\* Each step of execute() and on_failure has one of the effects listed.
LEMMA WorkEffect ==
  ASSUME Typed, NEW w \in Workers, Work(w) PROVE WorkerEffect(w)
<1>1. /\ worker \in [Workers -> WorkerRecord]
      /\ WorkerFits(worker[w])
      /\ run \in [Runs -> RunRecord]
      /\ checkpoint \in [Runs -> Checkpoint]
      /\ worker[w].phase # "idle" => RunOf(w) \in Runs
  BY RunOfWorker DEF Typed, TypeOK, Fits
<1>2. ASSUME TryLock(w) PROVE Locks(w) \/ GivesUp(w)
  BY <1>1, <1>2, FailGivesUp
  DEF TryLock, Locks, At, Others, OnlyWorkers, WorkerRecord, database
<1>3. ASSUME Begin(w) PROVE Begins(w) \/ GivesUp(w)
  <2>1. CASE Stop(w) /\ UNCHANGED run
    BY <1>3, <2>1, FailGivesUp DEF Begin
  <2>2. CASE /\ run' = [run EXCEPT ![RunOf(w)].status = "running",
                                   ![RunOf(w)].started = TRUE]
             /\ worker' = [worker EXCEPT ![w].phase = "loading"]
    BY <1>1, <1>3, <2>2
    DEF Begin, Begins, At, Goes, Others, RunsQuiet, RunRecord, WorkerRecord
  <2>3. QED
    BY <1>3, <2>1, <2>2 DEF Begin
<1>a. ASSUME NEW next, Advance(w, next)
      PROVE  /\ Goes(w, "node")
             /\ worker'[w].pos = next
             /\ RunOf(w) \in Runs =>
                  /\ checkpoint'[RunOf(w)] = [pos |-> next, interrupted |-> FALSE]
                  /\ \A r \in Runs \ {RunOf(w)} : checkpoint'[r] = checkpoint[r]
  BY <1>1, <1>a DEF Advance, Goes, Others, WorkerRecord
<1>4. ASSUME Load(w) PROVE Loads(w)
  <2>1. PICK phase :
          /\ worker' = [worker EXCEPT ![w].phase = phase,
                                      ![w].pos = checkpoint[RunOf(w)].pos]
          /\ \/ ~checkpoint[RunOf(w)].interrupted /\ phase = "node"
             \/ /\ checkpoint[RunOf(w)].interrupted
                /\ Newest(RunOf(w), checkpoint[RunOf(w)].pos) = {}
                /\ phase = "returned"
             \/ /\ checkpoint[RunOf(w)].interrupted
                /\ \E d \in Newest(RunOf(w), checkpoint[RunOf(w)].pos) :
                      phase = IF d.verdict = "approve" THEN "approving"
                                                       ELSE "rejecting"
    BY <1>4 DEF Load
  <2>2. /\ Goes(w, phase)
        /\ worker'[w].phase = phase
        /\ worker'[w].pos = checkpoint[RunOf(w)].pos
    BY <1>1, <2>1 DEF Goes, Others, WorkerRecord
  <2>3. worker[w].phase = "loading" /\ OnlyWorkers
    BY <1>4 DEF Load, At, OnlyWorkers, database
  <2>4. QED
    BY <2>1, <2>2, <2>3 DEF Loads
<1>5. ASSUME PassGate(w) PROVE Passes(w)
  <2>1. /\ worker[w].phase \in {"approving", "rejecting"}
        /\ worker[w].pos \in Gates
        /\ RunOf(w) \in Runs
        /\ UNCHANGED <<run, decisions, published, outputs, lockLosses>>
    BY <1>1, <1>5 DEF PassGate, At, WorkerFits, database
  <2>2. CASE At(w, "approving") /\ Advance(w, worker[w].pos + 1)
    BY <1>a, <2>1, <2>2 DEF Passes, Saves, At
  <2>3. CASE At(w, "rejecting") /\ Advance(w, Rejected)
    BY <1>a, <2>1, <2>3 DEF Passes, Saves, At
  <2>4. QED
    BY <1>5, <2>2, <2>3 DEF PassGate
<1>6. ASSUME HitGate(w) PROVE Hits(w)
  BY <1>1, <1>6
  DEF HitGate, Hits, At, Goes, Others, Saves, WorkerRecord, Checkpoint, database
<1>7. ASSUME EnterNode(w) PROVE Enters(w) \/ GivesUp(w)
  BY <1>1, <1>7, FailGivesUp
  DEF EnterNode, Enters, At, Goes, Others, OnlyWorkers, WorkerRecord, database
<1>8. ASSUME LookUpPublished(w) PROVE LooksUp(w)
  BY <1>1, <1>8
  DEF LookUpPublished, LooksUp, At, Goes, Others, OnlyWorkers, WorkerRecord,
      database
<1>9. ASSUME CommitOutput(w) PROVE Commits(w) \/ GivesUp(w)
  BY <1>1, <1>9, FailGivesUp
  DEF CommitOutput, Commits, At, Goes, Others, WorkerRecord, database, artifacts
<1>10. ASSUME LeaveNode(w) PROVE Leaves(w) \/ GivesUp(w)
  <2>1. CASE Fail(w) /\ UNCHANGED checkpoint
    BY <1>10, <2>1, FailGivesUp DEF LeaveNode, database, artifacts
  <2>2. CASE Advance(w, worker[w].pos + 1)
    BY <1>1, <1>a, <1>10, <2>2
    DEF LeaveNode, Leaves, At, Saves, WorkerFits, database
  <2>3. QED
    BY <1>10, <2>1, <2>2 DEF LeaveNode
<1>11. ASSUME ReachEnd(w) PROVE Reaches(w)
  BY <1>1, <1>11
  DEF ReachEnd, Reaches, At, Goes, Others, OnlyWorkers, WorkerRecord, database
<1>12. ASSUME ReadOutcome(w) PROVE Reads(w)
  BY <1>1, <1>12
  DEF ReadOutcome, Reads, At, Goes, Others, OnlyWorkers, WorkerRecord, database
<1>13. ASSUME Finish(w) PROVE Concludes(w) \/ GivesUp(w)
  <2>1. CASE (Fail(w) \/ Stop(w)) /\ UNCHANGED run
    BY <1>13, <2>1, FailGivesUp DEF Finish
  <2>2. ASSUME SetOutcome(w, IF worker[w].interrupted THEN "waiting_review"
                             ELSE IF worker[w].pos = Ended THEN "completed"
                             ELSE "cancelled")
        PROVE  Concludes(w)
    <3>1. RunOf(w) \in Runs /\ worker[w].phase = "finishing"
      BY <1>1, <1>13 DEF Finish, At
    <3>2. /\ Others(w)
          /\ worker'[w].phase = "idle" /\ ~worker'[w].holds
      BY <1>1, <2>2 DEF SetOutcome, Stop, Others, Idle, Resting
    <3>3. OtherRunsKept(RunOf(w))
      BY <1>1, <2>2 DEF SetOutcome, OtherRunsKept
    <3>4. /\ run'[RunOf(w)].status =
                IF worker[w].interrupted THEN "waiting_review"
                ELSE IF worker[w].pos = Ended THEN "completed"
                ELSE "cancelled"
          /\ worker[w].interrupted => run'[RunOf(w)].pending = worker[w].pos
          /\ ~worker[w].interrupted =>
                run'[RunOf(w)].revision = run[RunOf(w)].revision
      BY <1>1, <2>2, <3>1 DEF SetOutcome, RunRecord
    <3>5. QED
      BY <1>13, <3>1, <3>2, <3>3, <3>4 DEF Finish, Concludes
  <2>3. QED
    BY <1>13, <2>1, <2>2 DEF Finish
<1>14. ASSUME OnFailure(w) PROVE GivesUp(w)
  <2>1. RunOf(w) \in Runs
    BY <1>1, <1>14 DEF OnFailure, At
  <2>2. RunsQuiet
    BY <1>1, <1>14, <2>1 DEF OnFailure, RunsQuiet, RunRecord
  <2>3. QED
    BY <1>1, <1>14, <2>2
    DEF OnFailure, GivesUp, Stop, Others, Idle, Resting
<1>15. QED
  BY <1>2, <1>3, <1>4, <1>5, <1>6, <1>7, <1>8, <1>9, <1>10, <1>11, <1>12,
     <1>13, <1>14 DEF Work, WorkerEffect

\* Every step has one of the effects listed.
LEMMA StepEffect ==
  ASSUME Typed, [Next]_vars PROVE Effect
<1>1. /\ worker \in [Workers -> WorkerRecord]
      /\ run \in [Runs -> RunRecord]
  BY DEF Typed, TypeOK
<1>2. ASSUME NEW w \in Workers, NEW e \in Events, Receive(w, e)
      PROVE  WorkerEffect(w)
  BY <1>1, <1>2 DEF Receive, WorkerEffect, Takes, At, Others, OnlyWorkers,
                    WorkerRecord, database
<1>3. ASSUME NEW w \in Workers, Raise(w) \/ Crash(w) PROVE WorkerEffect(w)
  BY <1>3, FailGivesUp DEF Raise, Crash, WorkerEffect, database
<1>4. ASSUME NEW w \in Workers, LoseLock(w) PROVE WorkerEffect(w)
  BY <1>4 DEF LoseLock, WorkerEffect, Loses, database
<1>5. ASSUME UNCHANGED vars PROVE Outside
  BY <1>5 DEF vars, database, Outside, RunsQuiet
<1>6. ASSUME NEW w \in Workers, NEW e \in Events, DropTerminal(w, e)
      PROVE  Outside
  BY <1>6 DEF DropTerminal, Outside, RunsQuiet, database
<1>7. QED
  BY <1>2, <1>3, <1>4, <1>5, <1>6, StepFollows, OutsideEffect, WorkEffect
  DEF Next, Effect

\* A worker's step leaves the other workers as they are.
LEMMA EffectOthers ==
  ASSUME worker \in [Workers -> WorkerRecord], NEW w \in Workers,
         WorkerEffect(w)
  PROVE  \A v \in Workers \ {w} : worker'[v] = worker[v]
  BY DEF WorkerEffect, GivesUp, Takes, Locks, Begins, Loads, Passes, Hits,
    Enters, LooksUp, Commits, Leaves, Reaches, Reads, Concludes, Loses, Goes,
    Others

-----------------------------------------------------------------------------
(* The locks.                                                               *)

\* The phases that follow get_state.
Later == {"approving", "rejecting", "node", "publishing", "committing",
          "leaving", "returned", "finishing"}
Locked == {"locked", "loading"} \cup Later

\* A worker that executes a run although its lock is gone.
Orphan(w) == worker[w].phase \in Locked /\ ~worker[w].holds

LockInv ==
    /\ \A w \in Workers : worker[w].holds => worker[w].phase \in Locked
    /\ \A v, w \in Workers :
          worker[v].holds /\ worker[w].holds /\ RunOf(v) = RunOf(w) => v = w
    /\ lockLosses = 0 => \A w \in Workers : ~Orphan(w)
    /\ lockLosses <= 1 =>
          \A v, w \in Workers : Orphan(v) /\ Orphan(w) => v = w

\* A step that takes no lock and loses none keeps what is known of the locks.
LEMMA LocksKept ==
  ASSUME LockInv, Follows, UNCHANGED lockLosses,
         \A v \in Workers :
            /\ worker'[v].holds => worker[v].holds /\ worker'[v].phase \in Locked
            /\ worker'[v].phase \in Locked =>
                  /\ worker[v].phase \in Locked
                  /\ worker'[v].event = worker[v].event
                  /\ worker'[v].holds = worker[v].holds
  PROVE  LockInv'
<1>1. \A v \in Workers : worker'[v].holds => RunOf(v)' = RunOf(v)
  BY DEF Follows, Locked, Later
<1>2. \A v \in Workers : Orphan(v)' => Orphan(v)
  BY DEF Orphan
<1>3. QED
  BY <1>1, <1>2 DEF LockInv

\* One worker of a run holds the run's lock, and as many work without it as
\* locks have been lost.
LEMMA LockStep ==
  ASSUME Typed, LockInv, [Next]_vars PROVE LockInv'
<1>1. /\ worker \in [Workers -> WorkerRecord]
      /\ lockLosses \in Nat
  BY RunConstants DEF Typed, TypeOK
<1>2. Follows
  BY StepFollows
<1>3. CASE Outside
  BY <1>2, <1>3, LocksKept DEF Outside, LockInv
<1>4. ASSUME NEW w \in Workers, WorkerEffect(w) PROVE LockInv'
  <2>1. CASE Locks(w)
    <3>1. /\ \A v \in Workers \ {w} : worker'[v] = worker[v]
          /\ worker[w].phase = "received" /\ worker'[w].phase = "locked"
          /\ worker'[w].event = worker[w].event /\ worker'[w].holds
          /\ UNCHANGED lockLosses
          /\ \A v \in Workers : worker[v].holds => RunOf(v) # RunOf(w)
      BY <2>1 DEF Locks, Others, LockFree, OnlyWorkers
    <3>2. \A v \in Workers :
            /\ worker'[v].holds => RunOf(v)' = RunOf(v)
            /\ worker'[v].holds => worker'[v].phase \in Locked
            /\ worker'[v].holds => v = w \/ worker[v].holds
      BY <1>2, <3>1 DEF Follows, Locked, Later, LockInv
    <3>3. \A v \in Workers : Orphan(v)' => Orphan(v)
      BY <3>1 DEF Orphan
    <3>4. QED
      BY <3>1, <3>2, <3>3 DEF LockInv
  <2>2. CASE Loses(w)
    <3>1. \A v \in Workers :
            /\ worker'[v].phase = worker[v].phase
            /\ worker'[v].event = worker[v].event
            /\ worker'[v].holds <=> v # w /\ worker[v].holds
      BY <1>1, <2>2 DEF Loses, WorkerRecord
    <3>2. \A v \in Workers : worker'[v].holds => RunOf(v)' = RunOf(v)
      BY <1>2, <3>1 DEF Follows, Locked, Later, LockInv
    <3>3. lockLosses' = lockLosses + 1
      BY <2>2 DEF Loses
    <3>4. \A v \in Workers : Orphan(v)' => v = w \/ Orphan(v)
      BY <3>1 DEF Orphan
    <3>5. /\ lockLosses' # 0
          /\ lockLosses' <= 1 => lockLosses = 0
      BY <1>1, <3>3
    <3>6. QED
      BY <3>1, <3>2, <3>4, <3>5 DEF LockInv
  <2>3. CASE ~Locks(w) /\ ~Loses(w)
    <3>1. /\ UNCHANGED lockLosses
          /\ \A v \in Workers \ {w} : worker'[v] = worker[v]
      BY <1>4, <2>3
      DEF WorkerEffect, GivesUp, Takes, Begins, Loads, Passes, Hits, Enters,
          LooksUp, Commits, Leaves, Reaches, Reads, Concludes, Goes, Others,
          Saves, OnlyWorkers
    <3>2. \/ worker'[w].phase \in {"idle", "failing"} /\ ~worker'[w].holds
          \/ /\ worker[w].phase = "idle" /\ worker'[w].phase = "received"
             /\ worker'[w].holds = worker[w].holds
          \/ /\ worker[w].phase \in Locked
             /\ worker'[w].phase \in Locked
             /\ worker'[w].event = worker[w].event
             /\ worker'[w].holds = worker[w].holds
      BY <1>4, <2>3
      DEF WorkerEffect, GivesUp, Takes, Begins, Loads, Passes, Hits, Enters,
          LooksUp, Commits, Leaves, Reaches, Reads, Concludes, Goes, Locked,
          Later
    <3>3. \A v \in Workers :
            /\ worker'[v].holds => worker[v].holds /\ worker'[v].phase \in Locked
            /\ worker'[v].phase \in Locked =>
                  /\ worker[v].phase \in Locked
                  /\ worker'[v].event = worker[v].event
                  /\ worker'[v].holds = worker[v].holds
      BY <3>1, <3>2 DEF LockInv, Locked, Later
    <3>4. QED
      BY <1>2, <3>1, <3>3, LocksKept
  <2>4. QED
    BY <2>1, <2>2, <2>3
<1>5. QED
  BY <1>3, <1>4, StepEffect DEF Effect

(* What follows a publication finds it committed, whoever holds a lock.     *)

PublishedFirst ==
    /\ \A r \in Runs :
          checkpoint[r].pos = Ended \/ run[r].status = "completed" =>
              published[r] # {}
    /\ \A w \in Workers :
          \/ worker[w].phase = "leaving" /\ worker[w].pos = Publish
          \/ worker[w].phase \in {"node", "finishing"} /\ worker[w].pos = Ended
          => published[RunOf(w)] # {}

\* A publication is never taken back.
LEMMA PublishedStays ==
  ASSUME Typed, Effect
  PROVE  \A r \in Runs : published[r] \subseteq published'[r]
<1>1. CASE Outside
  BY <1>1 DEF Outside, artifacts
<1>2. ASSUME NEW w \in Workers, WorkerEffect(w)
      PROVE  \A r \in Runs : published[r] \subseteq published'[r]
  <2>1. CASE Commits(w)
    BY <2>1 DEF Commits, Typed, TypeOK
  <2>2. CASE UNCHANGED published
    BY <2>2
  <2>3. QED
    BY <1>2, <2>1, <2>2
    DEF WorkerEffect, GivesUp, Takes, Locks, Begins, Loads, Passes, Hits,
        Enters, LooksUp, Leaves, Reaches, Reads, Concludes, Loses, Saves,
        OnlyWorkers, artifacts
<1>3. QED
  BY <1>1, <1>2 DEF Effect

\* A worker that has run publish(), a checkpoint after it and a completed run
\* each have a publication: publish() ends only when one is committed.
LEMMA PublishedFirstStep ==
  ASSUME Typed, Typed', PublishedFirst, Effect PROVE PublishedFirst'
<1>1. /\ worker \in [Workers -> WorkerRecord]
      /\ \A r \in Runs : published[r] # {} => published'[r] # {}
      /\ \A v \in Workers : worker[v].phase # "idle" => RunOf(v) \in Runs
      /\ \A v \in Workers : worker'[v].phase # "idle" => RunOf(v)' \in Runs
      /\ Follows
  <2>1. \A v \in Workers : worker'[v].phase # "idle" => RunOf(v)' \in Runs
    BY DEF Typed, Fits, WorkerFits, RunOf
  <2>2. QED
    BY <2>1, PublishedStays, RunOfWorker DEF Effect, Typed, TypeOK
<1>2. ASSUME NEW r \in Runs, run'[r].status = "completed",
             run[r].status # "completed"
      PROVE  published'[r] # {}
  <2>1. PICK w \in Workers : Concludes(w)
    BY <1>2 DEF Effect, Outside, WorkerEffect, GivesUp, Takes, Locks, Begins,
      Loads, Passes, Hits, Enters, LooksUp, Commits, Leaves, Reaches, Reads,
      Loses, Saves, OnlyWorkers, RunsQuiet
  <2>2. r = RunOf(w) /\ worker[w].phase = "finishing" /\ worker[w].pos = Ended
    BY <1>2, <2>1 DEF Concludes, OtherRunsKept
  <2>3. QED
    BY <1>1, <2>2 DEF PublishedFirst
<1>3. ASSUME NEW r \in Runs, checkpoint'[r].pos = Ended,
             checkpoint[r].pos # Ended
      PROVE  published'[r] # {}
  <2>1. PICK w \in Workers : Passes(w) \/ Hits(w) \/ Leaves(w)
    BY <1>3 DEF Effect, Outside, WorkerEffect, GivesUp, Takes, Locks, Begins,
      Loads, Enters, LooksUp, Commits, Reaches, Reads, Concludes, Loses,
      OnlyWorkers, artifacts
  <2>2. r = RunOf(w)
    BY <1>3, <2>1 DEF Passes, Hits, Leaves, Saves
  <2>3. CASE Leaves(w)
    <3>1. worker[w].phase = "leaving" /\ worker[w].pos = Publish
      BY <1>1, <1>3, <2>2, <2>3 DEF Leaves, Saves, Nodes, Brief, Research,
        Writing, Publish, Ended
    <3>2. QED
      BY <1>1, <2>2, <3>1 DEF PublishedFirst
  <2>4. CASE Passes(w) \/ Hits(w)
    BY <1>3, <2>2, <2>4
    DEF Passes, Hits, Saves, Gates, BriefGate, OutlineGate, DraftGate, Ended,
        Rejected
  <2>5. QED
    BY <2>1, <2>3, <2>4
<1>4. ASSUME NEW w \in Workers,
             \/ worker'[w].phase = "leaving" /\ worker'[w].pos = Publish
             \/ worker'[w].phase \in {"node", "finishing"} /\ worker'[w].pos = Ended
      PROVE  published'[RunOf(w)'] # {}
  <2> DEFINE After(x) ==
        \/ x.phase = "leaving" /\ x.pos = Publish
        \/ x.phase \in {"node", "finishing"} /\ x.pos = Ended
  <2>1. CASE worker'[w].phase = worker[w].phase /\ worker'[w].pos = worker[w].pos
             /\ worker'[w].event = worker[w].event
    BY <1>1, <1>4, <2>1 DEF Follows, PublishedFirst
  <2>2. CASE WorkerEffect(w)
    <3>1. CASE GivesUp(w) \/ Takes(w) \/ Locks(w) \/ Begins(w) \/ Hits(w)
               \/ Reaches(w) \/ Concludes(w)
      BY <1>4, <3>1 DEF GivesUp, Takes, Locks, Begins, Hits, Reaches, Concludes,
        Goes
    <3>2. CASE Loads(w) \/ Reads(w)
      <4>1. /\ worker'[w].pos = checkpoint[RunOf(w)].pos
            /\ worker'[w].event = worker[w].event
            /\ worker[w].phase # "idle" /\ worker'[w].phase # "leaving"
        BY <3>2 DEF Loads, Reads, Goes
      <4>2. RunOf(w)' = RunOf(w) /\ RunOf(w) \in Runs
        BY <1>1, <4>1 DEF Follows
      <4>3. QED
        BY <1>1, <1>4, <4>1, <4>2 DEF PublishedFirst
    <3>3. CASE Passes(w)
      BY <1>4, <3>3 DEF Passes, Goes, Gates, BriefGate, OutlineGate, DraftGate,
        Ended, Rejected
    <3>4. CASE Enters(w)
      BY <1>4, <3>4 DEF Enters, Goes
    <3>5. CASE LooksUp(w) \/ Commits(w)
      <4>1. /\ worker'[w].event = worker[w].event
            /\ worker[w].phase # "idle" /\ worker'[w].phase \in {"leaving", "committing"}
        BY <3>5 DEF LooksUp, Commits, Goes
      <4>2. RunOf(w)' = RunOf(w) /\ RunOf(w) \in Runs
        BY <1>1, <4>1 DEF Follows
      <4>3. LooksUp(w) => published[RunOf(w)] # {}
        BY <1>4, <4>1 DEF LooksUp, Goes
      <4>4. Commits(w) => published'[RunOf(w)] # {}
        BY <4>2 DEF Commits, Typed, TypeOK
      <4>5. QED
        BY <1>1, <3>5, <4>2, <4>3, <4>4
    <3>6. CASE Leaves(w)
      <4>1. /\ worker'[w].event = worker[w].event
            /\ worker[w].phase = "leaving" /\ worker'[w].phase = "node"
            /\ worker'[w].pos = worker[w].pos + 1 /\ worker[w].pos \in Nodes
        BY <3>6 DEF Leaves, Goes
      <4>2. RunOf(w)' = RunOf(w) /\ RunOf(w) \in Runs
        BY <1>1, <4>1 DEF Follows
      <4>3. worker[w].pos = Publish
        BY <1>4, <4>1 DEF Nodes, Brief, Research, Writing, Publish, Ended
      <4>4. QED
        BY <1>1, <4>1, <4>2, <4>3 DEF PublishedFirst
    <3>7. CASE Loses(w)
      BY <1>1, <2>1, <3>7 DEF Loses, WorkerRecord
    <3>8. QED
      BY <2>2, <3>1, <3>2, <3>3, <3>4, <3>5, <3>6, <3>7 DEF WorkerEffect
  <2>3. CASE worker'[w] = worker[w]
    BY <2>1, <2>3
  <2>4. QED
    BY <1>1, <2>2, <2>3, EffectOthers DEF Effect, Outside
<1>5. ASSUME NEW r \in Runs, checkpoint'[r].pos = Ended \/ run'[r].status = "completed"
      PROVE  published'[r] # {}
  BY <1>1, <1>2, <1>3, <1>5 DEF PublishedFirst
<1>6. QED
  BY <1>4, <1>5 DEF PublishedFirst

(* A run nobody but the holder of its lock has executed past get_state.     *)

Stopped(r) == checkpoint[r].interrupted
StageOf(r) == checkpoint[r].pos
Decided(r, g, verdict) ==
    \E d \in decisions[r] :
        /\ d.stage = g /\ d.verdict = verdict
        /\ \A c \in decisions[r] : c.stage = g => c = d
Undecided(r, g) == \A d \in decisions[r] : d.stage # g

\* The gates before the checkpoint are approved, those after it undecided.
GatesInOrder(r) ==
    \A g \in Gates :
        /\ g < StageOf(r) /\ StageOf(r) # Rejected => Decided(r, g, "approve")
        /\ g > StageOf(r) => Undecided(r, g)
        /\ g = StageOf(r) =>
              \/ Undecided(r, g)
              \/ Stopped(r) /\ \E verdict \in Verdicts : Decided(r, g, verdict)

\* What the holder of the lock knows of the run's checkpoint.
InStep(w, r) ==
    LET x == worker[w]
        AtRest == \/ Stopped(r) /\ Undecided(r, StageOf(r))
                  \/ ~Stopped(r) /\ StageOf(r) \in {Ended, Rejected}
    IN  /\ x.phase \in {"approving", "rejecting"} =>
              /\ x.pos = StageOf(r)
              /\ Stopped(r)
              /\ Decided(r, x.pos, IF x.phase = "approving" THEN "approve"
                                                           ELSE "reject")
        /\ x.phase \in {"node", "publishing", "committing", "leaving"} =>
              x.pos = StageOf(r) /\ ~Stopped(r)
        /\ x.phase \in {"publishing", "committing"} => x.pos = Publish
        /\ x.phase = "returned" => AtRest
        /\ x.phase = "finishing" =>
              AtRest /\ x.pos = StageOf(r) /\ x.interrupted = Stopped(r)

Clean(r) ==
    /\ run[r].status = "waiting_review" =>
          /\ checkpoint[r] = [pos |-> run[r].pending, interrupted |-> TRUE]
          /\ Undecided(r, StageOf(r))
    /\ GatesInOrder(r)
    /\ published[r] # {} => StageOf(r) \in {Publish, Ended}
    /\ \A w \in Workers :
          worker[w].holds /\ worker[w].phase # "locked" /\ RunOf(w) = r =>
              run[r].status # "waiting_review"
    /\ \A w \in Workers :
          worker[w].phase \in Later /\ RunOf(w) = r =>
              worker[w].holds /\ InStep(w, r)

\* As long as no lock has been lost, or the worker that lost it has not read
\* the checkpoint yet.
Undisturbed(r) ==
    \/ lockLosses = 0
    \/ \E w \in Workers :
          /\ Orphan(w)
          /\ worker[w].phase \in {"locked", "loading"}
          /\ RunOf(w) = r

\* The decision a gate is resumed with, and its absence.
LEMMA NewestDecision ==
  ASSUME Typed, NEW r \in Runs, NEW g
  PROVE  /\ \A d \in Newest(r, g) : d \in decisions[r] /\ d.stage = g
         /\ \A verdict : Decided(r, g, verdict) => Newest(r, g) # {}
         /\ \A verdict : Decided(r, g, verdict) =>
                \A d \in Newest(r, g) : d.verdict = verdict
<1>1. decisions[r] \subseteq Decision
  BY DEF Typed, TypeOK
<1>2. \A d \in Newest(r, g) : d \in decisions[r] /\ d.stage = g
  BY DEF Newest
<1>3. ASSUME NEW verdict, Decided(r, g, verdict)
      PROVE  /\ Newest(r, g) # {}
             /\ \A d \in Newest(r, g) : d.verdict = verdict
  <2>1. PICK d \in decisions[r] :
          /\ d.stage = g /\ d.verdict = verdict
          /\ \A c \in decisions[r] : c.stage = g => c = d
    BY <1>3 DEF Decided
  <2>2. d.revision \in Nat
    BY <1>1 DEF Decision
  <2>3. d \in Newest(r, g)
    BY <2>1, <2>2 DEF Newest
  <2>4. QED
    BY <1>2, <2>1, <2>3
<1>4. QED
  BY <1>2, <1>3

\* While the run is undisturbed, the worker past get_state is the only one.
LEMMA CleanAlone ==
  ASSUME LockInv, NEW r \in Runs, Clean(r),
         NEW w \in Workers, RunOf(w) = r, worker[w].holds
  PROVE  \A v \in Workers \ {w} :
            RunOf(v) = r => ~worker[v].holds /\ worker[v].phase \notin Later
  BY DEF LockInv, Clean

\* Undisturbed now means undisturbed before: at most one lock is lost.
LEMMA UndisturbedBefore ==
  ASSUME Typed, Typed', LockInv, Effect, lockLosses' <= 1,
         NEW r \in Runs, Undisturbed(r)'
  PROVE  Undisturbed(r)
<1>1. /\ worker \in [Workers -> WorkerRecord]
      /\ lockLosses \in Nat /\ lockLosses' \in Nat
      /\ Follows
  BY RunConstants DEF Typed, TypeOK, Effect
<1>2. CASE Outside
  BY <1>1, <1>2 DEF Outside, Undisturbed, Orphan, Follows, Locked, Later
<1>3. ASSUME NEW w \in Workers, Loses(w) PROVE Undisturbed(r)
  BY <1>1, <1>3 DEF Loses, Undisturbed
<1>4. ASSUME NEW w \in Workers, WorkerEffect(w), ~Loses(w) PROVE Undisturbed(r)
  <2>1. UNCHANGED lockLosses
    BY <1>4
    DEF WorkerEffect, GivesUp, Takes, Locks, Begins, Loads, Passes, Hits,
        Enters, LooksUp, Commits, Leaves, Reaches, Reads, Concludes, Saves,
        OnlyWorkers
  <2>2. CASE lockLosses = 0
    BY <2>2 DEF Undisturbed
  <2>3. CASE lockLosses # 0
    <3>1. PICK v \in Workers :
            /\ worker'[v].phase \in {"locked", "loading"}
            /\ ~worker'[v].holds
            /\ RunOf(v)' = r
      BY <2>1, <2>3 DEF Undisturbed, Orphan
    <3>2. CASE v = w
      <4>1. worker[w].phase = "locked" /\ Goes(w, "loading")
        BY <1>4, <3>1, <3>2
        DEF WorkerEffect, GivesUp, Takes, Locks, Begins, Loads, Passes, Hits,
            Enters, LooksUp, Commits, Leaves, Reaches, Reads, Concludes, Goes
      <4>2. QED
        BY <1>1, <3>1, <3>2, <4>1
        DEF Goes, Follows, Undisturbed, Orphan, Locked
    <3>3. CASE v # w
      <4>1. worker'[v] = worker[v]
        BY <1>1, <1>4, <3>3, EffectOthers
      <4>2. QED
        BY <1>1, <3>1, <4>1 DEF Follows, Undisturbed, Orphan, Locked
    <3>4. QED
      BY <3>2, <3>3
  <2>4. QED
    BY <2>2, <2>3
<1>5. QED
  BY <1>2, <1>3, <1>4 DEF Effect

\* A step that leaves a run's checkpoint, decisions and publication alone and
\* does not make it wait.
LEMMA CleanKept ==
  ASSUME NEW r \in Runs, Clean(r), Follows,
         checkpoint'[r] = checkpoint[r],
         decisions'[r] = decisions[r],
         published'[r] = published[r],
         run'[r].status = "waiting_review" => run'[r] = run[r],
         \A v \in Workers :
            RunOf(v)' = r /\ worker'[v].holds /\ worker'[v].phase # "locked" =>
                \/ run'[r].status # "waiting_review"
                \/ RunOf(v) = r /\ worker[v].holds /\ worker[v].phase # "locked",
         \A v \in Workers :
            RunOf(v)' = r /\ worker'[v].phase \in Later =>
                /\ worker'[v].holds
                /\ \/ InStep(v, r)'
                   \/ worker'[v] = worker[v]
  PROVE  Clean(r)'
<1>1. /\ Stopped(r)' = Stopped(r)
      /\ StageOf(r)' = StageOf(r)
      /\ \A g : Undecided(r, g)' <=> Undecided(r, g)
      /\ \A g, verdict : Decided(r, g, verdict)' <=> Decided(r, g, verdict)
  BY DEF Stopped, StageOf, Undecided, Decided
<1>2. GatesInOrder(r)'
  BY <1>1 DEF Clean, GatesInOrder
<1>3. ASSUME NEW v \in Workers, RunOf(v)' = r, worker'[v].phase \in Later,
             worker'[v] = worker[v]
      PROVE  InStep(v, r)'
  <2>1. RunOf(v) = r
    BY <1>3 DEF Follows, Later
  <2>2. InStep(v, r)
    BY <1>3, <2>1 DEF Clean
  <2>3. QED
    BY <1>1, <1>3, <2>2 DEF InStep
<1>4. run'[r].status = "waiting_review" =>
        /\ checkpoint'[r] = [pos |-> run'[r].pending, interrupted |-> TRUE]
        /\ Undecided(r, StageOf(r))'
  BY <1>1 DEF Clean
<1>5. ASSUME NEW v \in Workers, RunOf(v)' = r, worker'[v].holds,
             worker'[v].phase # "locked"
      PROVE  run'[r].status # "waiting_review"
  BY <1>5 DEF Clean
<1>6. QED
  BY <1>1, <1>2, <1>3, <1>4, <1>5 DEF Clean

\* A verdict is given on the gate the checkpoint is stopped at, and once.
LEMMA ReviewClean ==
  ASSUME Typed, Follows, NEW r \in Runs, Clean(r), NEW verdict \in Verdicts,
         Reviews(r, verdict), UNCHANGED <<worker, artifacts>>
  PROVE  Clean(r)'
<1>1. decisions \in [Runs -> SUBSET Decision]
  BY DEF Typed, TypeOK
<1>2. /\ checkpoint[r] = [pos |-> run[r].pending, interrupted |-> TRUE]
      /\ Undecided(r, StageOf(r))
      /\ run'[r].status = "queued"
      /\ UNCHANGED <<worker, checkpoint, published>>
  BY DEF Reviews, Clean, artifacts
<1>3. PICK d \in Decision :
        /\ d.stage = run[r].pending /\ d.verdict = verdict
        /\ decisions' = [decisions EXCEPT ![r] = @ \cup {d}]
  BY DEF Reviews
<1>4. /\ decisions'[r] = decisions[r] \cup {d}
      /\ d.stage = StageOf(r) /\ Stopped(r)
      /\ Stopped(r)' /\ StageOf(r)' = StageOf(r)
  BY <1>1, <1>2, <1>3 DEF StageOf, Stopped
<1>5. Decided(r, StageOf(r), verdict)'
  <2>1. \A c \in decisions'[r] : c.stage = d.stage => c = d
    BY <1>2, <1>4 DEF Undecided
  <2>2. QED
    BY <1>3, <1>4, <2>1 DEF Decided
<1>6. ASSUME NEW g, g # StageOf(r)
      PROVE  /\ Undecided(r, g) => Undecided(r, g)'
             /\ Decided(r, g, "approve") => Decided(r, g, "approve")'
  BY <1>4, <1>6 DEF Undecided, Decided
<1>7. GatesInOrder(r)'
  <2>1. ASSUME NEW g \in Gates
        PROVE  /\ g < StageOf(r)' /\ StageOf(r)' # Rejected =>
                      Decided(r, g, "approve")'
               /\ g > StageOf(r)' => Undecided(r, g)'
               /\ g = StageOf(r)' =>
                      Stopped(r)' /\ \E v \in Verdicts : Decided(r, g, v)'
    <3>1. CASE g = StageOf(r)
      BY <1>4, <1>5, <2>1, <3>1
      DEF Gates, BriefGate, OutlineGate, DraftGate
    <3>2. CASE g # StageOf(r)
      BY <1>4, <1>6, <2>1, <3>2 DEF Clean, GatesInOrder
    <3>3. QED
      BY <3>1, <3>2
  <2>2. QED
    BY <2>1 DEF GatesInOrder
<1>8. ASSUME NEW w \in Workers, RunOf(w)' = r
      PROVE  worker'[w].phase \notin Later
  <2>1. CASE worker[w].phase # "idle"
    <3>1. RunOf(w) = r
      BY <1>2, <1>8, <2>1 DEF Follows
    <3>2. QED
      BY <1>2, <3>1 DEF Clean, Reviews, Later
  <2>2. CASE worker[w].phase = "idle"
    BY <1>2, <2>2 DEF Later
  <2>3. QED
    BY <2>1, <2>2
<1>9. QED
  BY <1>2, <1>4, <1>7, <1>8 DEF Clean

\* What the worker past get_state does to its own run.
LEMMA CleanMove ==
  ASSUME Typed, Typed', LockInv, Follows, NEW r \in Runs, Clean(r),
         NEW w \in Workers, worker[w].phase \in Later, RunOf(w) = r,
         \/ Passes(w) \/ Hits(w) \/ Commits(w) \/ Leaves(w) \/ Concludes(w)
  PROVE  Clean(r)'
<1> DEFINE x == worker[w]
           y == worker'[w]
<1>1. /\ worker \in [Workers -> WorkerRecord]
      /\ checkpoint \in [Runs -> Checkpoint]
      /\ published \in [Runs -> SUBSET Nat]
      /\ run[r].status # "waiting_review"
      /\ x.holds /\ InStep(w, r) /\ GatesInOrder(r)
      /\ published[r] # {} => StageOf(r) \in {Publish, Ended}
  BY DEF Typed, TypeOK, Clean, Later
<1>2. ASSUME NEW v \in Workers \ {w}, RunOf(v)' = r
      PROVE  ~worker'[v].holds /\ worker'[v].phase \notin Later
  <2>1. worker'[v] = worker[v]
    BY <1>1, EffectOthers DEF WorkerEffect
  <2>2. CASE worker[v].phase = "idle"
    BY <2>1, <2>2 DEF LockInv, Locked, Later
  <2>3. CASE worker[v].phase # "idle"
    <3>1. RunOf(v) = r
      BY <1>2, <2>1, <2>3 DEF Follows
    <3>2. QED
      BY <1>1, <2>1, <3>1, CleanAlone
  <2>4. QED
    BY <2>2, <2>3
<1>3. CASE Concludes(w)
  <2>1. /\ UNCHANGED <<decisions, checkpoint, published>>
        /\ y.phase = "idle" /\ ~y.holds
    BY <1>3 DEF Concludes, artifacts
  <2>2. /\ x.pos = StageOf(r) /\ x.interrupted = Stopped(r)
        /\ Stopped(r) => Undecided(r, StageOf(r))
    BY <1>1, <1>3 DEF Concludes, InStep, Stopped, StageOf, Gates, BriefGate,
      OutlineGate, DraftGate, Ended, Rejected
  <2>3. run'[r].status = "waiting_review" =>
            Stopped(r) /\ run'[r].pending = StageOf(r)
    BY <1>3, <2>2 DEF Concludes
  <2>4. run'[r].status = "waiting_review" =>
            /\ checkpoint'[r] = [pos |-> run'[r].pending, interrupted |-> TRUE]
            /\ Undecided(r, StageOf(r))'
    <3>1. ASSUME run'[r].status = "waiting_review"
          PROVE  checkpoint[r] = [pos |-> run'[r].pending, interrupted |-> TRUE]
      BY <1>1, <2>3, <3>1 DEF Checkpoint, Stopped, StageOf
    <3>2. QED
      BY <2>1, <2>2, <2>3, <3>1 DEF Undecided, StageOf
  <2>5. GatesInOrder(r)' /\ (published'[r] # {} => StageOf(r)' \in {Publish, Ended})
    BY <1>1, <2>1 DEF GatesInOrder, StageOf, Stopped, Undecided, Decided
  <2>6. QED
    BY <1>2, <2>1, <2>4, <2>5 DEF Clean, Later
<1>4. ASSUME \/ Passes(w) \/ Hits(w) \/ Commits(w) \/ Leaves(w),
             GatesInOrder(r)',
             published'[r] # {} => StageOf(r)' \in {Publish, Ended},
             InStep(w, r)'
      PROVE  Clean(r)'
  <2>1. run'[r].status # "waiting_review" /\ y.holds
    BY <1>1, <1>4 DEF Passes, Hits, Commits, Leaves, Goes, Saves
  <2>2. QED
    BY <1>2, <1>4, <2>1 DEF Clean
<1>5. CASE Passes(w)
  <2>1. /\ x.pos = StageOf(r) /\ Stopped(r) /\ x.pos \in Gates
        /\ y.phase = "node"
        /\ decisions' = decisions /\ published' = published
        /\ StageOf(r)' = y.pos /\ ~Stopped(r)'
        /\ published[r] = {}
    BY <1>1, <1>5 DEF Passes, Goes, Saves, InStep, StageOf, Stopped, Gates,
      BriefGate, OutlineGate, DraftGate, Publish, Ended
  <2>2. \/ y.pos = Rejected
        \/ y.pos = x.pos + 1 /\ Decided(r, x.pos, "approve")
    BY <1>1, <1>5 DEF Passes, InStep
  <2>3. GatesInOrder(r)'
    <3>1. ASSUME NEW g \in Gates
          PROVE  /\ g < y.pos /\ y.pos # Rejected => Decided(r, g, "approve")
                 /\ g > y.pos => Undecided(r, g)
                 /\ g # y.pos
      <4>1. CASE y.pos = Rejected
        BY <3>1, <4>1 DEF Rejected, Gates, BriefGate, OutlineGate, DraftGate
      <4>2. CASE y.pos = x.pos + 1 /\ Decided(r, x.pos, "approve")
        <5>1. /\ g < y.pos => g = x.pos \/ g < StageOf(r)
              /\ g > y.pos => g > StageOf(r)
              /\ g # y.pos
              /\ StageOf(r) # Rejected
          BY <2>1, <3>1, <4>2
          DEF Rejected, Gates, BriefGate, OutlineGate, DraftGate
        <5>2. QED
          BY <1>1, <4>2, <5>1 DEF GatesInOrder
      <4>3. QED
        BY <2>2, <4>1, <4>2
    <3>2. QED
      BY <2>1, <3>1 DEF GatesInOrder, Undecided, Decided
  <2>4. InStep(w, r)'
    BY <2>1 DEF InStep
  <2>5. QED
    BY <1>4, <1>5, <2>1, <2>3, <2>4
<1>6. CASE Hits(w)
  <2>1. /\ x.pos = StageOf(r) /\ ~Stopped(r) /\ x.pos \in Gates
        /\ y.phase = "returned"
        /\ decisions' = decisions /\ published' = published
        /\ StageOf(r)' = StageOf(r) /\ Stopped(r)'
        /\ published[r] = {}
    BY <1>1, <1>6 DEF Hits, Goes, Saves, InStep, StageOf, Stopped, Gates,
      BriefGate, OutlineGate, DraftGate, Publish, Ended
  <2>2. Undecided(r, StageOf(r))
    BY <1>1, <2>1 DEF GatesInOrder
  <2>3. GatesInOrder(r)'
    BY <1>1, <2>1, <2>2 DEF GatesInOrder, Undecided, Decided
  <2>4. InStep(w, r)'
    BY <2>1, <2>2 DEF InStep, Undecided
  <2>5. QED
    BY <1>4, <1>6, <2>1, <2>3, <2>4
<1>7. CASE Leaves(w)
  <2>1. /\ x.pos = StageOf(r) /\ ~Stopped(r) /\ x.pos \in Nodes
        /\ y.phase = "node" /\ y.pos = x.pos + 1
        /\ decisions' = decisions /\ published' = published
        /\ StageOf(r)' = y.pos /\ ~Stopped(r)'
    BY <1>1, <1>7 DEF Leaves, Goes, Saves, InStep, StageOf, Stopped
  <2>2. ASSUME NEW g \in Gates
        PROVE  /\ g < y.pos => Decided(r, g, "approve")
               /\ g >= y.pos => Undecided(r, g)
    <3>1. /\ g < y.pos => g < StageOf(r)
          /\ g >= y.pos => g > StageOf(r)
          /\ StageOf(r) # Rejected
      BY <2>1, <2>2 DEF Nodes, Brief, Research, Writing, Publish, Rejected,
        Gates, BriefGate, OutlineGate, DraftGate
    <3>2. QED
      BY <1>1, <3>1 DEF GatesInOrder
  <2>3. GatesInOrder(r)'
    <3>1. y.pos \in Nat
      BY <2>1 DEF Nodes, Brief, Research, Writing, Publish
    <3>2. QED
      BY <2>1, <2>2, <3>1 DEF GatesInOrder, Undecided, Decided, Gates,
        BriefGate, OutlineGate, DraftGate
  <2>4. published'[r] # {} => StageOf(r)' \in {Publish, Ended}
    BY <1>1, <2>1 DEF Nodes, Brief, Research, Writing, Publish, Ended
  <2>5. InStep(w, r)'
    BY <2>1 DEF InStep
  <2>6. QED
    BY <1>4, <1>7, <2>3, <2>4, <2>5
<1>8. CASE Commits(w)
  <2>1. /\ x.pos = StageOf(r) /\ ~Stopped(r) /\ StageOf(r) = Publish
        /\ y.phase = "leaving" /\ y.pos = x.pos
        /\ UNCHANGED <<decisions, checkpoint>>
    BY <1>1, <1>8 DEF Commits, Goes, InStep
  <2>2. GatesInOrder(r)' /\ InStep(w, r)' /\ StageOf(r)' = Publish
    BY <1>1, <2>1
    DEF GatesInOrder, InStep, StageOf, Stopped, Undecided, Decided
  <2>3. QED
    BY <1>4, <1>8, <2>2
<1>9. QED
  BY <1>3, <1>5, <1>6, <1>7, <1>8

\* An undisturbed run's history stays clean.
LEMMA CleanStep ==
  ASSUME Typed, Typed', LockInv, LockInv', Effect, lockLosses' <= 1,
         NEW r \in Runs, Undisturbed(r)', Clean(r)
  PROVE  Clean(r)'
<1>1. /\ worker \in [Workers -> WorkerRecord]
      /\ decisions \in [Runs -> SUBSET Decision]
      /\ lockLosses \in Nat /\ lockLosses' \in Nat
      /\ Follows
      /\ \A v \in Workers : worker[v].phase # "idle" => RunOf(v) \in Runs
  BY RunConstants, RunOfWorker DEF Typed, TypeOK, Effect
<1>2. CASE Outside
  <2>1. ASSUME NEW verdict \in Verdicts, Reviews(r, verdict) PROVE Clean(r)'
    BY <1>1, <1>2, <2>1, ReviewClean DEF Outside
  <2>2. CASE decisions'[r] = decisions[r]
    <3>1. /\ UNCHANGED <<worker, checkpoint, published>>
          /\ run'[r].status = "waiting_review" => run'[r] = run[r]
      BY <1>2 DEF Outside, artifacts, RunsQuiet
    <3>2. \A v \in Workers : worker[v].holds => RunOf(v)' = RunOf(v)
      BY <1>1, <3>1 DEF Follows, LockInv, Locked, Later
    <3>3. \A v \in Workers : RunOf(v)' = r /\ worker[v].phase \in Later =>
              worker[v].holds
      BY <1>1, <3>1 DEF Follows, Clean, Later
    <3>4. QED
      BY <1>1, <2>2, <3>1, <3>2, <3>3, CleanKept
  <2>3. QED
    BY <1>1, <1>2, <2>1, <2>2 DEF Outside, Reviews
<1>3. ASSUME NEW w \in Workers, WorkerEffect(w)
      PROVE  Clean(r)'
  <2> DEFINE x == worker[w]
             y == worker'[w]
  <2>1. \A v \in Workers \ {w} : worker'[v] = worker[v]
    BY <1>1, <1>3, EffectOthers
  <2>2. ASSUME NEW v \in Workers \ {w}, RunOf(v)' = r
        PROVE  /\ worker'[v].phase \in Later => worker'[v].holds
               /\ worker'[v].holds => RunOf(v) = r
    BY <1>1, <2>1, <2>2 DEF Follows, Clean, LockInv, Locked, Later
  <2>3. decisions' = decisions
    BY <1>3
    DEF WorkerEffect, GivesUp, Takes, Locks, Begins, Loads, Passes, Hits,
        Enters, LooksUp, Commits, Leaves, Reaches, Reads, Concludes, Loses,
        Saves, OnlyWorkers
  <2>4. ASSUME checkpoint'[r] = checkpoint[r], published'[r] = published[r],
               run'[r].status = "waiting_review" => run'[r] = run[r],
               RunOf(w)' = r /\ y.holds /\ y.phase # "locked" =>
                  \/ run'[r].status # "waiting_review"
                  \/ RunOf(w) = r /\ x.holds /\ x.phase # "locked",
               RunOf(w)' = r /\ y.phase \in Later =>
                  y.holds /\ (InStep(w, r)' \/ y = x)
        PROVE  Clean(r)'
    <3>1. \A v \in Workers :
            RunOf(v)' = r /\ worker'[v].holds /\ worker'[v].phase # "locked" =>
                \/ run'[r].status # "waiting_review"
                \/ RunOf(v) = r /\ worker[v].holds /\ worker[v].phase # "locked"
      BY <2>1, <2>2, <2>4
    <3>2. \A v \in Workers :
            RunOf(v)' = r /\ worker'[v].phase \in Later =>
                worker'[v].holds /\ (InStep(v, r)' \/ worker'[v] = worker[v])
      BY <2>1, <2>2, <2>4
    <3>3. QED
      BY <1>1, <2>3, <2>4, <3>1, <3>2, CleanKept
  <2>5. CASE GivesUp(w) \/ Takes(w) \/ Locks(w)
    <3>1. /\ y.phase \in {"idle", "failing", "received", "locked"}
          /\ y.holds => y.phase = "locked"
      BY <2>5 DEF GivesUp, Takes, Locks, LockInv, Locked, Later
    <3>2. /\ UNCHANGED <<checkpoint, published>>
          /\ run'[r].status = "waiting_review" => run'[r] = run[r]
      BY <2>5 DEF GivesUp, Takes, Locks, OnlyWorkers, artifacts, RunsQuiet
    <3>3. QED
      BY <2>4, <3>1, <3>2 DEF Later
  <2>6. CASE Begins(w)
    <3>1. /\ y.phase = "loading" /\ y.event = x.event /\ x.phase = "locked"
          /\ UNCHANGED <<checkpoint, published>>
          /\ run'[r].status = "waiting_review" => run'[r] = run[r]
          /\ run'[RunOf(w)].status = "running"
      BY <2>6 DEF Begins, Goes, artifacts, RunsQuiet
    <3>2. RunOf(w)' = r => RunOf(w) = r
      BY <1>1, <3>1 DEF Follows
    <3>3. QED
      BY <2>4, <3>1, <3>2 DEF Later
  <2>7. CASE Loses(w)
    <3>1. /\ y.phase = x.phase /\ ~y.holds /\ x.holds
          /\ UNCHANGED <<run, checkpoint, published>>
          /\ lockLosses' # 0
      BY <1>1, <2>7 DEF Loses, WorkerRecord, artifacts
    <3>2. PICK v \in Workers :
            Orphan(v)' /\ RunOf(v)' = r
            /\ worker'[v].phase \in {"locked", "loading"}
      BY <3>1 DEF Undisturbed
    <3>3. Orphan(w)'
      BY <3>1 DEF Orphan, LockInv
    <3>4. v = w
      BY <3>2, <3>3 DEF LockInv
    <3>5. QED
      BY <2>4, <3>1, <3>2, <3>4 DEF Later
  <2>8. CASE Goes(w, y.phase) /\ x.phase # "idle" /\ RunOf(w) # r
    <3>1. RunOf(w)' # r
      BY <1>1, <2>8 DEF Goes, Follows
    <3>2. /\ checkpoint'[r] = checkpoint[r] /\ published'[r] = published[r]
          /\ run'[r].status = "waiting_review" => run'[r] = run[r]
      BY <1>1, <1>3, <2>8
      DEF WorkerEffect, GivesUp, Takes, Locks, Begins, Loads, Passes, Hits,
          Enters, LooksUp, Commits, Leaves, Reaches, Reads, Concludes, Loses,
          Saves, OnlyWorkers, artifacts, RunsQuiet, OtherRunsKept, Typed, TypeOK
    <3>3. QED
      BY <2>4, <3>1, <3>2
  <2>9. CASE Concludes(w) /\ RunOf(w) # r
    <3>1. /\ y.phase = "idle" /\ ~y.holds
          /\ UNCHANGED <<checkpoint, published>>
          /\ run'[r] = run[r]
      BY <2>9 DEF Concludes, artifacts, OtherRunsKept
    <3>2. QED
      BY <2>4, <3>1 DEF Later
  <2>10. CASE /\ RunOf(w) = r
              /\ Passes(w) \/ Hits(w) \/ Commits(w) \/ Leaves(w) \/ Concludes(w)
    <3>1. x.phase \in Later
      BY <2>10 DEF Passes, Hits, Commits, Leaves, Concludes, Later
    <3>2. QED
      BY <1>1, <2>10, <3>1, CleanMove
  <2>11. CASE /\ RunOf(w) = r
              /\ Enters(w) \/ LooksUp(w) \/ Reaches(w) \/ Reads(w)
    <3>1. /\ Goes(w, y.phase) /\ x.phase \in Later
          /\ UNCHANGED <<run, checkpoint, published>>
      BY <2>11 DEF Enters, LooksUp, Reaches, Reads, Goes, OnlyWorkers,
                   artifacts, Later
    <3>2. x.holds /\ InStep(w, r) /\ y.holds
      BY <2>11, <3>1 DEF Clean, Goes
    <3>3. /\ Stopped(r)' = Stopped(r)
          /\ StageOf(r)' = StageOf(r)
          /\ \A g : Undecided(r, g)' <=> Undecided(r, g)
      BY <2>3, <3>1 DEF Stopped, StageOf, Undecided
    <3>4. InStep(w, r)'
      <4>1. CASE Enters(w) \/ LooksUp(w)
        BY <3>2, <3>3, <4>1 DEF Enters, LooksUp, Goes, InStep
      <4>2. CASE Reaches(w)
        BY <3>2, <3>3, <4>2 DEF Reaches, Goes, InStep
      <4>3. CASE Reads(w)
        BY <2>11, <3>2, <3>3, <4>3 DEF Reads, Goes, InStep, Stopped, StageOf
      <4>4. QED
        BY <2>11, <4>1, <4>2, <4>3
    <3>5. QED
      BY <2>4, <2>11, <3>1, <3>2, <3>4 DEF Later
  <2>12. CASE RunOf(w) = r /\ Loads(w)
    <3>1. /\ Goes(w, y.phase) /\ x.phase = "loading"
          /\ UNCHANGED <<run, checkpoint, published>>
          /\ y.phase \in Later
          /\ y.event = x.event /\ y.holds = x.holds
          /\ y.pos = StageOf(r)
      BY <2>12 DEF Loads, Goes, OnlyWorkers, artifacts, Later, StageOf
    <3>2. x.holds
      <4>1. SUFFICES ASSUME ~x.holds PROVE FALSE
        OBVIOUS
      <4>2. Orphan(w)' /\ Orphan(w)
        BY <3>1, <4>1 DEF Orphan, Locked
      <4>3. lockLosses' # 0
        BY <4>2 DEF LockInv
      <4>4. PICK v \in Workers :
              Orphan(v)' /\ worker'[v].phase \in {"locked", "loading"}
        BY <4>3 DEF Undisturbed
      <4>5. v = w
        BY <4>2, <4>4 DEF LockInv
      <4>6. QED
        BY <3>1, <4>4, <4>5 DEF Later
    <3>3. /\ Stopped(r)' = Stopped(r)
          /\ StageOf(r)' = StageOf(r)
          /\ \A g : Undecided(r, g)' <=> Undecided(r, g)
          /\ \A g, verdict : Decided(r, g, verdict)' <=> Decided(r, g, verdict)
      BY <2>3, <3>1 DEF Stopped, StageOf, Undecided, Decided
    <3>4. Stopped(r) => StageOf(r) \in Gates
      BY DEF Typed, Fits, Stopped, StageOf
    <3>5. InStep(w, r)'
      <4>1. CASE ~Stopped(r) /\ y.phase = "node"
        BY <3>1, <3>3, <4>1 DEF InStep
      <4>2. CASE Stopped(r) /\ Newest(r, StageOf(r)) = {} /\ y.phase = "returned"
        <5>1. Undecided(r, StageOf(r))
          BY <3>4, <4>2, NewestDecision DEF Clean, GatesInOrder
        <5>2. QED
          BY <3>1, <3>3, <4>2, <5>1 DEF InStep
      <4>3. ASSUME Stopped(r), NEW d \in Newest(r, StageOf(r)),
                   y.phase = IF d.verdict = "approve" THEN "approving"
                                                      ELSE "rejecting"
            PROVE  InStep(w, r)'
        <5>1. d \in decisions[r] /\ d.stage = StageOf(r)
          BY <4>3, NewestDecision
        <5>2. PICK verdict \in Verdicts : Decided(r, StageOf(r), verdict)
          BY <3>4, <4>3, <5>1 DEF Clean, GatesInOrder, Undecided
        <5>3. d.verdict = verdict
          BY <4>3, <5>2, NewestDecision
        <5>4. QED
          BY <3>1, <3>3, <4>3, <5>2, <5>3 DEF InStep, Verdicts
      <4>4. QED
        BY <2>12, <4>1, <4>2, <4>3 DEF Loads, Stopped, StageOf
    <3>6. QED
      BY <2>4, <2>12, <3>1, <3>2, <3>5 DEF Later
  <2>13. QED
    <3>1. \/ Goes(w, y.phase) /\ x.phase # "idle"
          \/ GivesUp(w) \/ Takes(w) \/ Locks(w) \/ Loses(w) \/ Concludes(w)
      BY <1>3
      DEF WorkerEffect, Begins, Loads, Passes, Hits, Enters, LooksUp, Commits,
          Leaves, Reaches, Reads, Goes
    <3>2. QED
      BY <1>3, <2>5, <2>6, <2>7, <2>8, <2>9, <2>10, <2>11, <2>12, <3>1
      DEF WorkerEffect
<1>4. QED
  BY <1>2, <1>3 DEF Effect

(* A run whose draft is approved: whatever its workers do, and however many *)
(* there are, it is never stopped at a gate again, so its revision stays.   *)

PastGates(w, r) ==
    LET x == worker[w]
    IN  \/ x.phase \in {"received", "locked", "loading", "failing"}
        \/ x.phase = "approving" /\ x.pos = DraftGate
        \/ /\ ~Stopped(r)
           /\ \/ /\ x.phase \in {"node", "publishing", "committing", "leaving"}
                 /\ x.pos = Publish
              \/ x.phase = "node" /\ x.pos = Ended
              \/ x.phase = "returned"
              \/ x.phase = "finishing" /\ ~x.interrupted

DraftApproved(r) ==
    /\ run[r].status # "waiting_review"
    /\ checkpoint[r] \in {[pos |-> DraftGate, interrupted |-> TRUE],
                          [pos |-> Publish, interrupted |-> FALSE],
                          [pos |-> Ended, interrupted |-> FALSE]}
    /\ Decided(r, DraftGate, "approve")
    /\ \A w \in Workers :
          worker[w].phase # "idle" /\ RunOf(w) = r => PastGates(w, r)

\* No step of anybody takes a run back from there.
LEMMA DraftApprovedStays ==
  ASSUME Typed, Effect, NEW r \in Runs, DraftApproved(r)
  PROVE  DraftApproved(r)'
<1>1. /\ worker \in [Workers -> WorkerRecord]
      /\ decisions \in [Runs -> SUBSET Decision]
      /\ Follows
      /\ \A w \in Workers : worker[w].phase # "idle" => RunOf(w) \in Runs
      /\ \A w \in Workers :
            worker[w].phase # "idle" /\ RunOf(w) = r => PastGates(w, r)
  BY RunOfWorker DEF Typed, TypeOK, Effect, DraftApproved
<1>2. CASE Outside
  <2>1. run'[r].status # "waiting_review"
    BY <1>2 DEF Outside, RunsQuiet, DraftApproved
  <2>2. decisions'[r] = decisions[r]
    BY <1>1, <1>2 DEF Outside, Reviews, DraftApproved
  <2>3. UNCHANGED <<worker, checkpoint>>
    BY <1>2 DEF Outside, artifacts
  <2>4. ASSUME NEW w \in Workers, worker'[w].phase # "idle", RunOf(w)' = r
        PROVE  PastGates(w, r)'
    <3>1. PastGates(w, r)
      BY <1>1, <2>3, <2>4 DEF Follows
    <3>2. QED
      BY <2>3, <3>1 DEF PastGates, Stopped
  <2>5. Decided(r, DraftGate, "approve")'
    BY <2>2 DEF DraftApproved, Decided
  <2>6. QED
    BY <2>1, <2>3, <2>4, <2>5 DEF DraftApproved
<1>3. ASSUME NEW w \in Workers, WorkerEffect(w)
      PROVE  DraftApproved(r)'
  <2> DEFINE x == worker[w]
             y == worker'[w]
             Mine == x.phase # "idle" /\ RunOf(w) = r
  <2>1. Mine => PastGates(w, r)
    BY <1>1
  <2>2. \A v \in Workers \ {w} : worker'[v] = worker[v]
    BY <1>1, <1>3, EffectOthers
  <2>3. run'[r].status # "waiting_review"
    <3>1. CASE RunsQuiet \/ UNCHANGED run
      BY <3>1 DEF RunsQuiet, DraftApproved
    <3>2. CASE Concludes(w)
      BY <2>1, <3>2 DEF Concludes, PastGates, OtherRunsKept, DraftApproved
    <3>3. QED
      BY <1>3, <3>1, <3>2
      DEF WorkerEffect, GivesUp, Takes, Locks, Begins, Loads, Passes, Hits,
          Enters, LooksUp, Commits, Leaves, Reaches, Reads, Loses, Saves,
          OnlyWorkers
  <2>4. /\ checkpoint'[r] \in {[pos |-> DraftGate, interrupted |-> TRUE],
                               [pos |-> Publish, interrupted |-> FALSE],
                               [pos |-> Ended, interrupted |-> FALSE]}
        /\ ~Stopped(r) => ~checkpoint'[r].interrupted
    <3>1. CASE checkpoint'[r] = checkpoint[r]
      BY <3>1 DEF DraftApproved, Stopped
    <3>2. CASE RunOf(w) = r /\ Passes(w)
      <4>1. y.pos = Publish
        BY <2>1, <3>2 DEF Passes, PastGates, DraftGate, Publish
      <4>2. checkpoint'[r] = [pos |-> Publish, interrupted |-> FALSE]
        BY <3>2, <4>1 DEF Passes, Saves
      <4>3. QED
        BY <4>2
    <3>3. CASE RunOf(w) = r /\ Hits(w)
      BY <2>1, <3>3 DEF Hits, PastGates, Gates, BriefGate, OutlineGate,
                        DraftGate, Publish, Ended
    <3>4. CASE RunOf(w) = r /\ Leaves(w)
      <4>1. y.pos = Ended
        BY <2>1, <3>4 DEF Leaves, PastGates, Publish, Ended
      <4>2. checkpoint'[r] = [pos |-> Ended, interrupted |-> FALSE]
        BY <3>4, <4>1 DEF Leaves, Saves
      <4>3. QED
        BY <4>2
    <3>5. QED
      BY <1>3, <3>1, <3>2, <3>3, <3>4
      DEF WorkerEffect, GivesUp, Takes, Locks, Begins, Loads, Passes, Hits,
          Enters, LooksUp, Commits, Leaves, Reaches, Reads, Concludes, Loses,
          Saves, OnlyWorkers, artifacts
  <2>5. decisions' = decisions
    BY <1>3
    DEF WorkerEffect, GivesUp, Takes, Locks, Begins, Loads, Passes, Hits,
        Enters, LooksUp, Commits, Leaves, Reaches, Reads, Concludes, Loses,
        Saves, OnlyWorkers
  <2>6. ASSUME NEW v \in Workers \ {w}, worker'[v].phase # "idle", RunOf(v)' = r
        PROVE  PastGates(v, r)'
    <3>1. PastGates(v, r)
      BY <1>1, <2>2, <2>6 DEF Follows
    <3>2. QED
      BY <2>2, <2>4, <3>1 DEF PastGates, Stopped
  <2>7. ASSUME y.phase # "idle", RunOf(w)' = r PROVE PastGates(w, r)'
    <3>1. CASE GivesUp(w) \/ Takes(w) \/ Locks(w) \/ Begins(w) \/ Concludes(w)
      BY <2>7, <3>1
      DEF GivesUp, Takes, Locks, Begins, Concludes, Goes, PastGates
    <3>2. CASE Loses(w)
      <4>1. /\ y.phase = x.phase /\ y.event = x.event
            /\ y.pos = x.pos /\ y.interrupted = x.interrupted
        BY <1>1, <3>2 DEF Loses, WorkerRecord
      <4>2. PastGates(w, r)
        BY <1>1, <2>7, <4>1 DEF Follows
      <4>3. QED
        BY <2>4, <4>1, <4>2 DEF PastGates, Stopped
    <3>3. CASE \/ Loads(w) \/ Passes(w) \/ Hits(w) \/ Enters(w) \/ LooksUp(w)
               \/ Commits(w) \/ Leaves(w) \/ Reaches(w) \/ Reads(w)
      <4>1. Mine /\ PastGates(w, r)
        <5>1. x.phase # "idle" /\ y.event = x.event
          BY <3>3 DEF Loads, Passes, Hits, Enters, LooksUp, Commits, Leaves,
                      Reaches, Reads, Goes
        <5>2. QED
          BY <1>1, <2>7, <5>1 DEF Follows
      <4>2. CASE Loads(w)
        <5>1. /\ DraftGate # Publish /\ DraftGate # Ended
              /\ \A d \in Newest(r, DraftGate) : d.verdict = "approve"
              /\ Newest(r, DraftGate) # {}
          <6>1. PICK d \in decisions[r] :
                  /\ d.stage = DraftGate /\ d.verdict = "approve"
                  /\ \A c \in decisions[r] : c.stage = DraftGate => c = d
            BY DEF DraftApproved, Decided
          <6>2. d.revision \in Nat
            BY <1>1 DEF Decision
          <6>3. d \in Newest(r, DraftGate)
            BY <6>1, <6>2 DEF Newest
          <6>4. QED
            BY <6>1, <6>3 DEF Newest, DraftGate, Publish, Ended
        <5>2. CASE checkpoint[r] = [pos |-> DraftGate, interrupted |-> TRUE]
          BY <4>1, <4>2, <5>1, <5>2 DEF Loads, PastGates
        <5>3. CASE checkpoint[r].interrupted = FALSE
                   /\ checkpoint[r].pos \in {Publish, Ended}
          BY <2>4, <4>1, <4>2, <5>3 DEF Loads, Goes, PastGates, Stopped
        <5>4. \/ checkpoint[r] = [pos |-> DraftGate, interrupted |-> TRUE]
              \/ checkpoint[r] = [pos |-> Publish, interrupted |-> FALSE]
              \/ checkpoint[r] = [pos |-> Ended, interrupted |-> FALSE]
          BY DEF DraftApproved
        <5>5. checkpoint[r] = [pos |-> Publish, interrupted |-> FALSE] =>
                  /\ checkpoint[r].interrupted = FALSE
                  /\ checkpoint[r].pos \in {Publish, Ended}
          OBVIOUS
        <5>6. checkpoint[r] = [pos |-> Ended, interrupted |-> FALSE] =>
                  /\ checkpoint[r].interrupted = FALSE
                  /\ checkpoint[r].pos \in {Publish, Ended}
          OBVIOUS
        <5>7. QED
          BY <5>2, <5>3, <5>4, <5>5, <5>6
      <4>3. CASE Passes(w)
        BY <4>1, <4>3
        DEF Passes, Goes, Saves, PastGates, Stopped, DraftGate, Publish
      <4>4. CASE Hits(w)
        BY <4>1, <4>4 DEF Hits, PastGates, Gates, BriefGate, OutlineGate,
                          DraftGate, Publish, Ended
      <4>5. CASE Enters(w)
        BY <2>4, <4>1, <4>5
        DEF Enters, Goes, PastGates, Stopped, Nodes, Brief, Research, Writing,
            Publish, Ended
      <4>6. CASE LooksUp(w) \/ Commits(w)
        BY <2>4, <4>1, <4>6 DEF LooksUp, Commits, Goes, PastGates, Stopped
      <4>7. CASE Leaves(w)
        BY <2>4, <4>1, <4>7
        DEF Leaves, Goes, Saves, PastGates, Stopped, Publish, Ended
      <4>8. CASE Reaches(w)
        BY <2>4, <4>1, <4>8 DEF Reaches, Goes, PastGates, Stopped
      <4>9. CASE Reads(w)
        BY <2>4, <4>1, <4>9 DEF Reads, Goes, PastGates, Stopped
      <4>10. QED
        BY <3>3, <4>2, <4>3, <4>4, <4>5, <4>6, <4>7, <4>8, <4>9
    <3>4. QED
      BY <1>3, <3>1, <3>2, <3>3 DEF WorkerEffect
  <2>8. Decided(r, DraftGate, "approve")'
    BY <2>5 DEF DraftApproved, Decided
  <2>9. QED
    BY <2>3, <2>4, <2>6, <2>7, <2>8 DEF DraftApproved
<1>4. QED
  BY <1>2, <1>3 DEF Effect

\* A worker on its way to insert an output.
Late(w) ==
    \/ worker[w].phase = "approving" /\ worker[w].pos = DraftGate
    \/ /\ worker[w].phase \in {"node", "publishing", "committing"}
       /\ worker[w].pos = Publish

(* Publication, with at most one lock lost.                                 *)

CurrentRevision(w) ==
    \/ worker[w].revision = run[RunOf(w)].revision
    \/ /\ lockLosses = 1
       /\ worker[w].holds
       /\ \A v \in Workers : Orphan(v) => RunOf(v) # RunOf(w)

OutputInv ==
    /\ \A r \in Runs : Undisturbed(r) => Clean(r)
    /\ \A w \in Workers : Orphan(w) /\ Late(w) => DraftApproved(RunOf(w))
    /\ \A r \in Runs : outputs[r] = IF published[r] = {} THEN 0 ELSE 1
    /\ \A w \in Workers :
          worker[w].phase \in {"publishing", "committing"} =>
              worker[w].pos = Publish
    /\ \A w \in Workers :
          worker[w].phase = "committing" =>
              /\ CurrentRevision(w)
              /\ \/ published[RunOf(w)] = {}
                 \/ worker[w].revision \in published[RunOf(w)]

PublicationInv ==
    /\ Typed
    /\ LockInv
    /\ PublishedFirst
    /\ lockLosses <= 1 => OutputInv

\* A clean run that is resumed past its last gate has its draft approved.
LEMMA CleanDraft ==
  ASSUME Typed, NEW r \in Runs, Clean(r),
         \/ StageOf(r) = Publish /\ ~Stopped(r)
         \/ /\ StageOf(r) = DraftGate /\ Stopped(r)
            /\ Decided(r, DraftGate, "approve")
  PROVE  DraftApproved(r)
<1>1. checkpoint[r] \in Checkpoint /\ GatesInOrder(r)
  BY DEF Typed, TypeOK, Clean
<1>2. Decided(r, DraftGate, "approve")
  BY <1>1 DEF GatesInOrder, Gates, BriefGate, OutlineGate, DraftGate, Publish,
              Rejected
<1>3. run[r].status # "waiting_review"
  <2>1. SUFFICES ASSUME run[r].status = "waiting_review" PROVE FALSE
    OBVIOUS
  <2>2. Stopped(r) /\ Undecided(r, StageOf(r))
    BY <2>1 DEF Clean, Stopped
  <2>3. QED
    BY <1>2, <2>2 DEF Decided, Undecided
<1>4. checkpoint[r] \in {[pos |-> DraftGate, interrupted |-> TRUE],
                         [pos |-> Publish, interrupted |-> FALSE]}
  BY <1>1 DEF Checkpoint, StageOf, Stopped
<1>5. ASSUME NEW w \in Workers, worker[w].phase # "idle", RunOf(w) = r
      PROVE  PastGates(w, r)
  <2>1. worker[w].phase \in
            {"received", "locked", "loading", "failing"} \cup Later
    BY <1>5 DEF Typed, TypeOK, WorkerRecord, Phases, Later
  <2>2. CASE worker[w].phase \in Later
    <3>1. InStep(w, r)
      BY <1>5, <2>2 DEF Clean
    <3>2. CASE worker[w].phase \in {"approving", "rejecting"}
      BY <1>2, <3>1, <3>2 DEF InStep, PastGates, Decided
    <3>3. CASE worker[w].phase \in {"node", "publishing", "committing", "leaving"}
      BY <3>1, <3>3 DEF InStep, PastGates
    <3>4. CASE worker[w].phase \in {"returned", "finishing"}
      BY <1>2, <3>1, <3>4
      DEF InStep, Undecided, Decided, DraftGate, Publish, Ended, Rejected
    <3>5. QED
      BY <2>2, <3>2, <3>3, <3>4 DEF Later
  <2>3. QED
    BY <2>1, <2>2 DEF PastGates
<1>6. QED
  BY <1>2, <1>3, <1>4, <1>5 DEF DraftApproved

\* No step but the loss of a lock makes an orphan.
LEMMA OrphansKept ==
  ASSUME Typed, LockInv, Effect, lockLosses' = lockLosses,
         NEW v \in Workers, Orphan(v)'
  PROVE  Orphan(v) /\ RunOf(v)' = RunOf(v)
<1>1. worker \in [Workers -> WorkerRecord] /\ Follows /\ lockLosses \in Nat
  BY RunConstants DEF Typed, TypeOK, Effect
<1>2. /\ Orphan(v)
      /\ worker'[v].event = worker[v].event
  <2>1. CASE worker'[v] = worker[v]
    BY <2>1 DEF Orphan
  <2>2. CASE WorkerEffect(v)
    <3>1. CASE Loses(v)
      BY <1>1, <3>1 DEF Loses
    <3>2. CASE ~Loses(v)
      BY <2>2, <3>2
      DEF WorkerEffect, GivesUp, Takes, Locks, Begins, Loads, Passes, Hits,
          Enters, LooksUp, Commits, Leaves, Reaches, Reads, Concludes, Goes,
          Orphan, Locked, Later
    <3>3. QED
      BY <3>1, <3>2
  <2>3. QED
    BY <1>1, <2>1, <2>2, EffectOthers DEF Effect, Outside
<1>3. worker[v].phase # "idle"
  BY <1>2 DEF Orphan, Locked, Later
<1>4. QED
  BY <1>1, <1>2, <1>3 DEF Follows

\* A worker without its lock is on its way to insert an output only when the
\* draft of its run is approved for good.
LEMMA LateOrphansStep ==
  ASSUME Typed, Typed', LockInv, Effect, OutputInv,
         lockLosses' <= 1, NEW w \in Workers, Orphan(w)', Late(w)'
  PROVE  DraftApproved(RunOf(w))'
<1> DEFINE x == worker[w]
           y == worker'[w]
<1>1. /\ worker \in [Workers -> WorkerRecord]
      /\ lockLosses \in Nat
      /\ Follows
  BY RunConstants DEF Typed, TypeOK, Effect
<1>2. SUFFICES ASSUME x.phase # "idle", y.event = x.event
               PROVE  DraftApproved(RunOf(w))
  <2>1. x.phase # "idle" /\ y.event = x.event
    <3>1. CASE y = x
      BY <3>1 DEF Late
    <3>2. CASE Loses(w)
      BY <1>1, <3>2 DEF Loses, WorkerRecord, LockInv, Locked, Later
    <3>3. CASE WorkerEffect(w) /\ ~Loses(w)
      BY <3>3
      DEF WorkerEffect, GivesUp, Takes, Locks, Begins, Loads, Passes, Hits,
          Enters, LooksUp, Commits, Leaves, Reaches, Reads, Concludes, Goes, Late
    <3>4. QED
      BY <1>1, <3>1, <3>2, <3>3, EffectOthers DEF Effect, Outside
  <2>2. PICK r \in Runs : r = RunOf(w)
    BY <2>1, RunOfWorker
  <2>3. RunOf(w)' = r
    BY <1>1, <2>1, <2>2 DEF Follows
  <2>4. DraftApproved(r) => DraftApproved(r)'
    BY DraftApprovedStays
  <2>5. QED
    BY <1>2, <2>1, <2>2, <2>3, <2>4
<1> DEFINE r == RunOf(w)
<1>3. r \in Runs
  BY <1>2, RunOfWorker
<1>4. Undisturbed(r) => Clean(r)
  BY <1>3 DEF OutputInv
<1>5. CASE Orphan(w) /\ Late(w)
  BY <1>5 DEF OutputInv
<1>6. CASE Loses(w)
  <2>1. lockLosses = 0 /\ Late(w)
    BY <1>1, <1>6 DEF Loses, WorkerRecord, Late
  <2>2. Clean(r) /\ InStep(w, r)
    BY <1>4, <2>1 DEF Undisturbed, Clean, Late, Later
  <2>3. QED
    BY <1>3, <2>1, <2>2, CleanDraft DEF Late, InStep
<1>7. CASE Loads(w)
  <2>1. /\ Orphan(w) /\ x.phase = "loading"
        /\ y.pos = StageOf(r)
    BY <1>7 DEF Loads, Goes, Orphan, Locked, StageOf
  <2>2. Clean(r)
    BY <1>4, <2>1 DEF Undisturbed
  <2>3. CASE y.phase = "node"
    BY <1>3, <1>7, <2>1, <2>2, <2>3, CleanDraft DEF Late, Loads, Stopped
  <2>4. CASE y.phase = "approving"
    <3>1. StageOf(r) = DraftGate /\ Stopped(r)
      BY <1>7, <2>1, <2>4 DEF Late, Loads, Stopped
    <3>2. PICK d \in Newest(r, DraftGate) : d.verdict = "approve"
      BY <1>7, <2>4, <3>1 DEF Loads, StageOf
    <3>3. d \in decisions[r] /\ d.stage = DraftGate
      BY <1>3, <3>2, NewestDecision
    <3>4. PICK verdict \in Verdicts : Decided(r, DraftGate, verdict)
      BY <2>2, <3>1, <3>3 DEF Clean, GatesInOrder, Undecided, Gates
    <3>5. verdict = "approve"
      BY <1>3, <3>2, <3>4, NewestDecision
    <3>6. QED
      BY <1>3, <2>2, <3>1, <3>4, <3>5, CleanDraft
  <2>5. QED
    BY <1>7, <2>3, <2>4 DEF Loads, Late
<1>8. CASE WorkerEffect(w) /\ ~Loses(w) /\ ~Loads(w)
  <2>1. Orphan(w)
    BY <1>8
    DEF WorkerEffect, GivesUp, Takes, Locks, Begins, Passes, Hits, Enters,
        LooksUp, Commits, Leaves, Reaches, Reads, Concludes, Goes, Orphan,
        Late, Locked, Later
  <2>2. Late(w)
    <3>1. CASE Passes(w)
      BY <3>1 DEF Passes, Goes, Late, Gates, BriefGate, OutlineGate, DraftGate,
                  Publish, Rejected
    <3>2. CASE Leaves(w)
      BY <3>2 DEF Leaves, Goes, Late, Nodes, Brief, Research, Writing, Publish
    <3>3. CASE Enters(w) \/ LooksUp(w)
      BY <3>3 DEF Enters, LooksUp, Goes, Late
    <3>4. QED
      BY <1>8, <3>1, <3>2, <3>3
      DEF WorkerEffect, GivesUp, Takes, Locks, Begins, Hits, Commits, Reaches,
          Reads, Concludes, Goes, Late
  <2>3. QED
    BY <1>5, <2>1, <2>2
<1>9. CASE y = x
  BY <1>5, <1>9 DEF Orphan, Late
<1>10. QED
  BY <1>1, <1>6, <1>7, <1>8, <1>9, EffectOthers DEF Effect, Outside

\* Two workers about to insert an output of the same run carry the same
\* revision: one of them has lost its lock.
LEMMA SameRevision ==
  ASSUME LockInv, OutputInv, NEW v \in Workers, NEW w \in Workers,
         worker[v].phase = "committing", worker[w].phase = "committing",
         RunOf(v) = RunOf(w)
  PROVE  worker[v].revision = worker[w].revision
<1>1. CASE worker[v].holds /\ worker[w].holds
  BY <1>1 DEF LockInv
<1>2. CASE ~worker[v].holds \/ ~worker[w].holds
  <2>1. PICK u \in {v, w} : Orphan(u) /\ RunOf(u) = RunOf(w)
    BY <1>2 DEF Orphan, Locked, Later
  <2>2. CurrentRevision(v) /\ CurrentRevision(w)
    BY DEF OutputInv
  <2>3. QED
    BY <2>1, <2>2 DEF CurrentRevision
<1>3. QED
  BY <1>1, <1>2

\* A worker about to insert an output carries the revision of its run, unless
\* the one that changed it was the only worker without a lock.
LEMMA CommittingStep ==
  ASSUME Typed, Typed', LockInv, Effect, OutputInv,
         lockLosses <= 1, lockLosses' <= 1,
         NEW w \in Workers, worker'[w].phase = "committing"
  PROVE  /\ CurrentRevision(w)'
         /\ \/ published'[RunOf(w)'] = {}
            \/ worker'[w].revision \in published'[RunOf(w)']
<1> DEFINE x == worker[w]
           y == worker'[w]
<1>1. /\ worker \in [Workers -> WorkerRecord]
      /\ published \in [Runs -> SUBSET Nat]
      /\ lockLosses \in Nat
      /\ Follows
      /\ \A v \in Workers : worker[v].phase # "idle" => RunOf(v) \in Runs
  BY RunConstants, RunOfWorker DEF Typed, TypeOK, Effect
<1>2. CASE LooksUp(w)
  <2>1. RunOf(w)' = RunOf(w)
    BY <1>1, <1>2 DEF LooksUp, Goes, Follows
  <2>2. /\ y.revision = run[RunOf(w)].revision
        /\ published[RunOf(w)] = {}
        /\ UNCHANGED <<run, published>>
    BY <1>2 DEF LooksUp, Goes, OnlyWorkers, artifacts
  <2>3. QED
    BY <2>1, <2>2 DEF CurrentRevision
<1>3. ASSUME x.phase = "committing", y.event = x.event,
             y.revision = x.revision,
             y.holds = x.holds \/ Loses(w)
      PROVE  /\ CurrentRevision(w)'
             /\ \/ published'[RunOf(w)'] = {}
                \/ y.revision \in published'[RunOf(w)']
  <2>1. PICK r \in Runs : r = RunOf(w)
    BY <1>1, <1>3
  <2>2. RunOf(w)' = r
    BY <1>1, <1>3, <2>1 DEF Follows
  <2>3. /\ CurrentRevision(w) /\ x.pos = Publish
        /\ published[r] = {} \/ x.revision \in published[r]
    BY <1>3, <2>1 DEF OutputInv
  <2>4. y.revision = run'[r].revision \/ CurrentRevision(w)'
    <3>1. CASE \E u \in Workers : Loses(u)
      <4>1. lockLosses # 1 /\ UNCHANGED run
        BY <1>1, <3>1 DEF Loses
      <4>2. QED
        BY <1>3, <2>1, <2>3, <4>1 DEF CurrentRevision
    <3>2. CASE ~\E u \in Workers : Loses(u)
      <4>1. lockLosses' = lockLosses
        BY <3>2
        DEF Effect, Outside, WorkerEffect, GivesUp, Takes, Locks, Begins, Loads,
            Passes, Hits, Enters, LooksUp, Commits, Leaves, Reaches, Reads,
            Concludes, Saves, OnlyWorkers
      <4>2. \A v \in Workers : Orphan(v)' => Orphan(v) /\ RunOf(v)' = RunOf(v)
        BY <4>1, OrphansKept
      <4>3. y.holds = x.holds
        BY <1>3, <3>2
      <4>4. CASE run'[r].revision = run[r].revision
        BY <1>3, <2>1, <2>2, <2>3, <4>1, <4>2, <4>3, <4>4 DEF CurrentRevision
      <4>5. CASE run'[r].revision # run[r].revision
        <5>1. PICK u \in Workers : Concludes(u)
          BY <4>5
          DEF Effect, Outside, WorkerEffect, GivesUp, Takes, Locks, Begins,
              Loads, Passes, Hits, Enters, LooksUp, Commits, Leaves, Reaches,
              Reads, Concludes, Loses, Saves, OnlyWorkers, RunsQuiet
        <5>2. /\ RunOf(u) = r /\ worker[u].interrupted
              /\ worker[u].phase = "finishing"
              /\ worker'[u].phase = "idle"
          BY <4>5, <5>1 DEF Concludes, OtherRunsKept
        <5>3. x.holds
          <6>1. SUFFICES ASSUME ~x.holds PROVE FALSE
            OBVIOUS
          <6>2. DraftApproved(r)
            BY <1>3, <2>1, <2>3, <6>1
            DEF OutputInv, Orphan, Late, Locked, Later
          <6>3. PastGates(u, r)
            BY <5>2, <6>2 DEF DraftApproved
          <6>4. QED
            BY <5>2, <6>3 DEF PastGates
        <5>4. Orphan(u)
          BY <1>3, <2>1, <5>2, <5>3 DEF LockInv, Orphan, Locked, Later
        <5>5. \A v \in Workers : ~Orphan(v)'
          BY <4>2, <5>2, <5>4 DEF LockInv, Orphan, Locked, Later
        <5>6. lockLosses' = 1
          BY <1>1, <4>1, <5>4 DEF LockInv
        <5>7. QED
          BY <4>3, <5>3, <5>5, <5>6 DEF CurrentRevision
      <4>6. QED
        BY <4>4, <4>5
    <3>3. QED
      BY <3>1, <3>2
  <2>5. published'[r] = {} \/ y.revision \in published'[r]
    <3>1. CASE published'[r] = published[r]
      BY <1>3, <2>3, <3>1
    <3>2. CASE published'[r] # published[r]
      <4>1. PICK u \in Workers : Commits(u)
        BY <3>2
        DEF Effect, Outside, WorkerEffect, GivesUp, Takes, Locks, Begins, Loads,
            Passes, Hits, Enters, LooksUp, Leaves, Reaches, Reads, Concludes,
            Loses, Saves, OnlyWorkers, artifacts
      <4>2. RunOf(u) = r /\ worker[u].phase = "committing"
        BY <1>1, <3>2, <4>1 DEF Commits
      <4>3. worker[u].revision = x.revision
        BY <1>3, <2>1, <4>2, SameRevision
      <4>4. QED
        BY <1>1, <1>3, <4>1, <4>2, <4>3 DEF Commits
    <3>3. QED
      BY <3>1, <3>2
  <2>6. QED
    BY <2>2, <2>4, <2>5 DEF CurrentRevision
<1>4. CASE Loses(w)
  BY <1>1, <1>3, <1>4 DEF Loses, WorkerRecord
<1>5. CASE WorkerEffect(w) /\ ~Loses(w)
  BY <1>2, <1>5
  DEF WorkerEffect, GivesUp, Takes, Locks, Begins, Loads, Passes, Hits, Enters,
      Commits, Leaves, Reaches, Reads, Concludes, Goes
<1>6. CASE y = x
  BY <1>3, <1>6
<1>7. QED
  BY <1>1, <1>4, <1>5, <1>6, EffectOthers DEF Effect, Outside

\* An output is inserted with the run's first publication.
LEMMA OutputsStep ==
  ASSUME Typed, Effect, OutputInv, NEW r \in Runs
  PROVE  outputs'[r] = IF published'[r] = {} THEN 0 ELSE 1
<1>1. CASE UNCHANGED <<published, outputs>>
  BY <1>1 DEF OutputInv
<1>2. ASSUME NEW w \in Workers, Commits(w)
      PROVE  outputs'[r] = IF published'[r] = {} THEN 0 ELSE 1
  <2>1. /\ outputs \in [Runs -> Nat]
        /\ published \in [Runs -> SUBSET Nat]
        /\ RunOf(w) \in Runs
    BY <1>2, RunOfWorker DEF Commits, Typed, TypeOK
  <2>2. CASE RunOf(w) = r
    <3>1. published[r] = {}
      BY <1>2, <2>2 DEF Commits, OutputInv
    <3>2. outputs[r] = 0
      BY <3>1 DEF OutputInv
    <3>3. published'[r] # {} /\ outputs'[r] = 1
      BY <1>2, <2>1, <2>2, <3>2 DEF Commits
    <3>4. QED
      BY <3>3
  <2>3. CASE RunOf(w) # r
    <3>1. published'[r] = published[r] /\ outputs'[r] = outputs[r]
      BY <1>2, <2>1, <2>3 DEF Commits
    <3>2. QED
      BY <3>1 DEF OutputInv
  <2>4. QED
    BY <2>2, <2>3
<1>3. QED
  BY <1>1, <1>2
  DEF Effect, Outside, WorkerEffect, GivesUp, Takes, Locks, Begins, Loads,
      Passes, Hits, Enters, LooksUp, Leaves, Reaches, Reads, Concludes, Loses,
      Saves, OnlyWorkers, artifacts

\* Only the publish node is entered for publication.
LEMMA PublishingStep ==
  ASSUME Typed, Effect, OutputInv, NEW w \in Workers,
         worker'[w].phase \in {"publishing", "committing"}
  PROVE  worker'[w].pos = Publish
<1>1. worker \in [Workers -> WorkerRecord]
  BY DEF Typed, TypeOK
<1>2. CASE worker'[w] = worker[w]
  BY <1>2 DEF OutputInv
<1>3. CASE Loses(w)
  BY <1>1, <1>3 DEF Loses, WorkerRecord, OutputInv
<1>4. CASE WorkerEffect(w) /\ ~Loses(w)
  BY <1>4
  DEF WorkerEffect, GivesUp, Takes, Locks, Begins, Loads, Passes, Hits, Enters,
      LooksUp, Commits, Leaves, Reaches, Reads, Concludes, Goes, OutputInv
<1>5. QED
  BY <1>1, <1>2, <1>3, <1>4, EffectOthers DEF Effect, Outside

\* The inductive invariant holds when the system is installed.
LEMMA InitPublication == Init => PublicationInv
<1> SUFFICES ASSUME Init PROVE PublicationInv
  OBVIOUS
<1>1. Typed
  BY InitTyped
<1>2. \A w \in Workers : worker[w].phase = "idle" /\ ~worker[w].holds
  BY DEF Init, Idle, Resting
<1>3. LockInv
  BY <1>2 DEF LockInv, Orphan, Locked, Later
<1>4. PublishedFirst
  BY <1>2 DEF PublishedFirst, Init, Brief, Ended
<1>5. \A r \in Runs : Clean(r)
  BY <1>2
  DEF Init, Clean, GatesInOrder, Undecided, Stopped, StageOf, Later, Brief,
      Gates, BriefGate, OutlineGate, DraftGate
<1>6. OutputInv
  BY <1>2, <1>5 DEF OutputInv, Init, Late
<1>7. QED
  BY <1>1, <1>3, <1>4, <1>6 DEF PublicationInv

\* It is inductive.
LEMMA PublicationStep ==
  PublicationInv /\ [Next]_vars => PublicationInv'
<1> SUFFICES ASSUME PublicationInv, [Next]_vars PROVE PublicationInv'
  OBVIOUS
<1>1. Typed /\ Typed' /\ LockInv /\ PublishedFirst
  BY NextTyped DEF PublicationInv
<1>2. Effect
  BY <1>1, StepEffect
<1>3. LockInv'
  BY <1>1, LockStep
<1>4. PublishedFirst'
  BY <1>1, <1>2, PublishedFirstStep
<1>5. ASSUME lockLosses' <= 1 PROVE OutputInv'
  <2>1. lockLosses <= 1
    <3>1. lockLosses \in Nat
      BY <1>1, RunConstants DEF Typed, TypeOK
    <3>2. lockLosses' = lockLosses \/ lockLosses' = lockLosses + 1
      BY <1>2
      DEF Effect, Outside, WorkerEffect, GivesUp, Takes, Locks, Begins, Loads,
          Passes, Hits, Enters, LooksUp, Commits, Leaves, Reaches, Reads,
          Concludes, Loses, Saves, OnlyWorkers
    <3>3. QED
      BY <1>5, <3>1, <3>2
  <2>2. OutputInv
    BY <2>1 DEF PublicationInv
  <2>3. ASSUME NEW r \in Runs, Undisturbed(r)' PROVE Clean(r)'
    <3>1. Undisturbed(r)
      BY <1>1, <1>2, <1>5, <2>3, UndisturbedBefore
    <3>2. Clean(r)
      BY <2>2, <3>1 DEF OutputInv
    <3>3. QED
      BY <1>1, <1>2, <1>3, <1>5, <2>3, <3>2, CleanStep
  <2>4. \A w \in Workers : Orphan(w)' /\ Late(w)' => DraftApproved(RunOf(w))'
    BY <1>1, <1>2, <1>5, <2>2, LateOrphansStep
  <2>5. \A r \in Runs : outputs'[r] = IF published'[r] = {} THEN 0 ELSE 1
    BY <1>1, <1>2, <2>2, OutputsStep
  <2>6. \A w \in Workers :
          worker'[w].phase \in {"publishing", "committing"} =>
              worker'[w].pos = Publish
    BY <1>1, <1>2, <2>2, PublishingStep
  <2>7. \A w \in Workers :
          worker'[w].phase = "committing" =>
              /\ CurrentRevision(w)'
              /\ \/ published'[RunOf(w)'] = {}
                 \/ worker'[w].revision \in published'[RunOf(w)']
    BY <1>1, <1>2, <1>5, <2>1, <2>2, CommittingStep
  <2>8. QED
    BY <2>3, <2>4, <2>5, <2>6, <2>7 DEF OutputInv
<1>6. QED
  BY <1>1, <1>3, <1>4, <1>5 DEF PublicationInv

-----------------------------------------------------------------------------
(* The theorems.                                                            *)

\* PublicationInv holds in every reachable state.
LEMMA PublicationAlways == Spec => []PublicationInv
  BY InitPublication, PublicationStep, PTL DEF Spec

\* A run has at most one output, however often publish() is executed, as long
\* as no second lock is lost.
THEOREM OutputOnce == Spec => []OneOutput
<1>1. PublicationInv => OneOutput
  BY DEF PublicationInv, OutputInv, OneOutput
<1>2. QED
  BY <1>1, PublicationAlways, PTL

\* A completed run has its output, under the same condition.
THEOREM CompletedRunsPublished == Spec => []CompletedHasOutput
<1>1. PublicationInv => CompletedHasOutput
  BY DEF PublicationInv, PublishedFirst, OutputInv, CompletedHasOutput
<1>2. QED
  BY <1>1, PublicationAlways, PTL

\* While locks last, the history of every run is clean.
LEMMA CleanHistory ==
  ASSUME PublicationInv, lockLosses = 0
  PROVE  /\ Typed
         /\ OutputInv
         /\ \A r \in Runs : Clean(r)
  BY DEF PublicationInv, OutputInv, Undisturbed

\* What a clean run has published, all three gates had approved.
LEMMA CleanApproval ==
  ASSUME NEW r \in Runs, Clean(r), StageOf(r) \in {Publish, Ended}
  PROVE  \A g \in Gates : Decided(r, g, "approve")
  BY DEF Clean, GatesInOrder, Gates, BriefGate, OutlineGate, DraftGate, Publish,
    Ended, Rejected

\* An output exists only for a run whose three gates were approved and that
\* has no rejection among its decisions, while locks last.
THEOREM ApprovedBeforeOutput == Spec => []PublishedOnlyIfApproved
<1>1. PublicationInv => PublishedOnlyIfApproved
  <2>1. SUFFICES ASSUME PublicationInv, lockLosses = 0,
                        NEW r \in Runs, outputs[r] > 0
                 PROVE  /\ \A g \in Gates : \E d \in decisions[r] : d.stage = g
                        /\ \A d \in decisions[r] : d.verdict = "approve"
    BY DEF PublishedOnlyIfApproved
  <2>2. Clean(r) /\ StageOf(r) \in {Publish, Ended}
    BY <2>1, CleanHistory DEF OutputInv, Clean
  <2>3. \A g \in Gates : Decided(r, g, "approve")
    BY <2>2, CleanApproval
  <2>4. \A d \in decisions[r] : d.stage \in Gates
    BY <2>1 DEF PublicationInv, Typed, TypeOK, Decision
  <2>5. QED
    BY <2>3, <2>4 DEF Decided
<1>2. QED
  BY <1>1, PublicationAlways, PTL

\* The human is asked about the gate the graph is stopped at, before it has
\* any decision, while locks last.
THEOREM ReviewedOnce == Spec => []ReviewIsOfOpenGate
<1>1. PublicationInv => ReviewIsOfOpenGate
  BY CleanHistory DEF ReviewIsOfOpenGate, Clean, Undecided, StageOf
<1>2. QED
  BY <1>1, PublicationAlways, PTL

-----------------------------------------------------------------------------
(* The detailed specification implements the review contract.               *)

VerdictsOn(r, g) == {d.verdict : d \in {c \in decisions[r] : c.stage = g}}

\* What the refinement mapping makes of a gate decided once, or not yet.
LEMMA VerdictsMap ==
  ASSUME NEW r \in Runs, NEW g
  PROVE  /\ Undecided(r, g) => VerdictsOn(r, g) = {}
         /\ \A verdict : Decided(r, g, verdict) => VerdictsOn(r, g) = {verdict}
  BY DEF Undecided, Decided, VerdictsOn

\* A step that neither decides nor publishes is a stutter of the contract.
LEMMA ContractStutter ==
  ASSUME decisions' = decisions, outputs' = outputs
  PROVE  UNCHANGED Contract!vars
  BY DEF Contract!vars

\* A verdict on a clean run decides the next stage of the contract.
LEMMA ContractDecides ==
  ASSUME Typed, OutputInv, NEW r \in Runs, Clean(r),
         NEW verdict \in Verdicts, Reviews(r, verdict), outputs' = outputs
  PROVE  Contract!Next
<1>1. decisions \in [Runs -> SUBSET Decision] /\ run[r].pending \in Gates
  BY DEF Typed, TypeOK, Fits, Reviews
<1>2. PICK g \in Gates : g = run[r].pending
  BY <1>1
<1>3. /\ StageOf(r) = g
      /\ Undecided(r, g)
      /\ GatesInOrder(r)
      /\ published[r] = {}
  BY <1>2 DEF Reviews, Clean, StageOf, Gates, BriefGate, OutlineGate, DraftGate,
              Publish, Ended
<1>4. outputs[r] = 0
  BY <1>3 DEF OutputInv
<1>5. VerdictsOn(r, g) = {}
  BY <1>3, VerdictsMap
<1>6. \A h \in Gates : h < g => VerdictsOn(r, h) = {"approve"}
  BY <1>3, VerdictsMap DEF GatesInOrder, Gates, BriefGate, OutlineGate,
                           DraftGate, Rejected
<1>7. PICK d \in Decision :
        /\ d.stage = g /\ d.verdict = verdict
        /\ decisions' = [decisions EXCEPT ![r] = @ \cup {d}]
  BY <1>2 DEF Reviews
<1>8. \A s \in Runs, h \in Gates :
        VerdictsOn(s, h)' = IF s = r /\ h = g THEN {verdict} ELSE VerdictsOn(s, h)
  <2>1. VerdictsOn(r, g)' = {verdict}
    BY <1>1, <1>3, <1>7 DEF VerdictsOn, Undecided
  <2>2. ASSUME NEW h \in Gates, h # g PROVE VerdictsOn(r, h)' = VerdictsOn(r, h)
    BY <1>1, <1>7, <2>2 DEF VerdictsOn
  <2>3. ASSUME NEW s \in Runs, s # r, NEW h \in Gates
        PROVE  VerdictsOn(s, h)' = VerdictsOn(s, h)
    BY <1>1, <1>7, <2>3 DEF VerdictsOn
  <2>4. QED
    BY <2>1, <2>2, <2>3
<1>9. Contract!Decide(r, g, verdict)
  <2> DEFINE before == [s \in Runs |-> [h \in Gates |-> VerdictsOn(s, h)]]
             after == [s \in Runs |-> [h \in Gates |-> VerdictsOn(s, h)']]
  <2>1. after = [before EXCEPT ![r][g] = {verdict}]
    BY <1>8
  <2>2. /\ before[r][g] = {}
        /\ \A h \in Gates : h < g => before[r][h] = {"approve"}
    BY <1>5, <1>6
  <2>3. QED
    BY <1>4, <2>1, <2>2 DEF Contract!Decide, Contract!Open, Contract!Approved,
                            VerdictsOn
<1>10. QED
  BY <1>9 DEF Contract!Next, Verdicts

\* A publication creates the one output of the contract, after the last
\* approval.
LEMMA ContractPublishes ==
  ASSUME Typed, OutputInv, NEW w \in Workers, Clean(RunOf(w)), Commits(w)
  PROVE  Contract!Next
<1>1. PICK r \in Runs : r = RunOf(w)
  BY RunOfWorker DEF Commits
<1>2. InStep(w, r) /\ StageOf(r) = Publish
  BY <1>1 DEF Clean, Commits, Later, InStep
<1>3. \A g \in Gates : VerdictsOn(r, g) = {"approve"}
  BY <1>1, <1>2, CleanApproval, VerdictsMap
<1>4. outputs[r] = 0
  BY <1>1 DEF Commits, OutputInv
<1>5. outputs' = [outputs EXCEPT ![r] = 1] /\ decisions' = decisions
  BY <1>1, <1>4 DEF Commits, Typed, TypeOK
<1>6. Contract!CreateOutput(r)
  BY <1>3, <1>4, <1>5 DEF Contract!CreateOutput, Contract!Approved, VerdictsOn
<1>7. QED
  BY <1>6 DEF Contract!Next

\* Every step of every worker, of the outbox and of the commands maps to a step
\* of the review contract or to a stutter: the code decides the stages in
\* order, each once, and publishes once, after the last approval.  (Locks must
\* last: a worker that has lost its lock may have a gate decided twice.)
THEOREM ReviewContractKept ==
  Spec /\ [](lockLosses = 0) => KeepsReviewContract
<1>1. Init => Contract!Init
  <2> SUFFICES ASSUME Init PROVE Contract!Init
    OBVIOUS
  <2>1. \A r \in Runs : \A g \in Gates : VerdictsOn(r, g) = {}
    BY DEF Init, VerdictsOn
  <2>2. BriefGate \in Gates /\ \A g \in Gates : ~(g < BriefGate)
    BY DEF Gates, BriefGate, OutlineGate, DraftGate
  <2>3. \A r \in Runs : Contract!Open(r, BriefGate)
    BY <2>1, <2>2 DEF Contract!Open, VerdictsOn
  <2>4. QED
    BY <2>1, <2>2, <2>3 DEF Contract!Init, VerdictsOn, Init
<1>2. PublicationInv /\ lockLosses = 0 /\ [Next]_vars =>
          [Contract!Next]_Contract!vars
  <2> SUFFICES ASSUME PublicationInv, lockLosses = 0, [Next]_vars
               PROVE  Contract!Next \/ UNCHANGED Contract!vars
    OBVIOUS
  <2>1. Typed /\ OutputInv /\ \A r \in Runs : Clean(r)
    BY CleanHistory
  <2>2. Effect
    BY <2>1, StepEffect
  <2>3. ASSUME NEW r \in Runs, NEW verdict \in Verdicts, Reviews(r, verdict),
               Outside
        PROVE  Contract!Next
    BY <2>1, <2>3, ContractDecides DEF Outside, artifacts
  <2>4. ASSUME NEW w \in Workers, Commits(w) PROVE Contract!Next
    BY <2>1, <2>4, ContractPublishes, RunOfWorker DEF Commits
  <2>5. QED
    BY <2>2, <2>3, <2>4, ContractStutter
    DEF Effect, Outside, WorkerEffect, GivesUp, Takes, Locks, Begins, Loads,
        Passes, Hits, Enters, LooksUp, Leaves, Reaches, Reads, Concludes, Loses,
        Saves, OnlyWorkers, artifacts
<1>3. QED
  BY <1>1, <1>2, PublicationAlways, PTL
  DEF Spec, Contract!Spec, KeepsReviewContract

=============================================================================
