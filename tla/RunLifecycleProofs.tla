--------------------------- MODULE RunLifecycleProofs ---------------------------
(***************************************************************************)
(* Theorems about RunLifecycle, for every number of projects, runs, events, *)
(* workers, faults and lost locks.                                          *)
(***************************************************************************)
EXTENDS RunLifecycle, TLAPS

(* What the handlers rely on when they follow an event to its run, or a     *)
(* position of the graph to the next one.                                   *)

Used(e) == outbox[e].status # "none"

WorkerFits(x) ==
    /\ x \in WorkerRecord
    /\ x.phase # "idle" => x.event \in Events /\ Used(x.event)
    /\ x.phase \in {"approving", "rejecting"} => x.pos \in Gates
    /\ x.phase \in {"publishing", "committing", "leaving"} => x.pos \in Nodes
    /\ x.phase = "finishing" /\ x.interrupted => x.pos \in Gates

Fits ==
    /\ \A e \in Events : Used(e) => outbox[e].run \in Runs
    /\ \A e \in broker : Used(e)
    /\ \A w \in Workers : WorkerFits(worker[w])
    /\ \A r \in Runs :
          /\ checkpoint[r].interrupted => checkpoint[r].pos \in Gates
          /\ run[r].status = "waiting_review" => run[r].pending \in Gates

Typed == TypeOK /\ Fits

-----------------------------------------------------------------------------
(* Facts about the parts of a step.                                         *)

\* An idle worker slot refers to nothing and is well typed.
LEMMA IdleFits == WorkerFits(Idle)
  BY DEF WorkerFits, WorkerRecord, Idle, Resting, Phases, Positions, Brief, Rejected

\* The initial database, broker and workers are well typed.
LEMMA InitTyped == Init => Typed
<1> SUFFICES ASSUME Init PROVE Typed
  OBVIOUS
<1>1. TypeOK
  BY IdleFits, RunConstants
  DEF Init, TypeOK, RunRecord, RunStatus, OutboxRecord, EventStatus,
      Checkpoint, WorkerFits, Positions, NoStage, Brief, Rejected
<1>2. Fits
  BY IdleFits DEF Init, Fits, Used
<1>3. QED
  BY <1>1, <1>2 DEF Typed

\* execute() follows the event of its delivery to a run and a project that
\* exist.
LEMMA RunOfWorker ==
  ASSUME Typed, NEW w \in Workers, worker[w].phase # "idle"
  PROVE  /\ worker[w].event \in Events
         /\ RunOf(w) \in Runs
         /\ ProjectOf[RunOf(w)] \in Projects
  BY RunConstants DEF Typed, Fits, WorkerFits, RunOf

\* What a worker keeps of an execution that raised is its event: enough for
\* on_failure to find the run.
LEMMA FailedFits ==
  ASSUME Typed, NEW w \in Workers, worker[w].phase # "idle"
  PROVE  WorkerFits(Resting("failing", worker[w].event))
<1>1. worker[w].event \in Events /\ Used(worker[w].event)
  BY DEF Typed, Fits, WorkerFits
<1>2. Resting("failing", worker[w].event) \in WorkerRecord
  BY <1>1 DEF Resting, WorkerRecord, Phases, Positions, Brief, Rejected
<1>3. QED
  BY <1>1, <1>2 DEF WorkerFits, Resting

\* A step that replaces one worker's execution state keeps all of them fit.
LEMMA WorkerUpdate ==
  ASSUME Typed, NEW w \in Workers, NEW x, WorkerFits(x),
         worker' = [worker EXCEPT ![w] = x],
         \A e \in Events : Used(e) => Used(e)'
  PROVE  /\ worker' \in [Workers -> WorkerRecord]
         /\ \A v \in Workers : WorkerFits(worker[v])'
<1>1. worker \in [Workers -> WorkerRecord]
  BY DEF Typed, TypeOK
<1>2. worker' \in [Workers -> WorkerRecord]
  BY <1>1 DEF WorkerFits
<1>3. ASSUME NEW v \in Workers PROVE WorkerFits(worker[v])'
  <2>1. worker'[v] = x \/ worker'[v] = worker[v]
    BY <1>1
  <2>2. WorkerFits(worker'[v])
    BY <2>1 DEF Typed, Fits
  <2>3. QED
    BY <2>2 DEF WorkerFits
<1>4. QED
  BY <1>2, <1>3

\* An inserted outbox row refers to a run, and rows in use stay in use.
LEMMA EnqueueTyped ==
  ASSUME Typed, NEW r \in Runs, NEW e \in Events, Enqueue(r, e)
  PROVE  /\ outbox' \in [Events -> OutboxRecord]
         /\ \A f \in Events : Used(f)' => outbox'[f].run \in Runs
         /\ \A f \in Events : Used(f) => Used(f)'
<1>1. [status |-> "pending", run |-> r] \in OutboxRecord
  BY DEF OutboxRecord, EventStatus
<1>2. outbox \in [Events -> OutboxRecord]
  BY DEF Typed, TypeOK
<1>3. QED
  BY <1>1, <1>2 DEF Enqueue, Typed, Fits, Used

\* Closing a worker's event changes the status of a row in use.
LEMMA CloseTyped ==
  ASSUME Typed, NEW w \in Workers, worker[w].phase # "idle",
         NEW status \in {"done", "failed"}, CloseEvent(w, status)
  PROVE  /\ outbox' \in [Events -> OutboxRecord]
         /\ \A f \in Events : Used(f)' => outbox'[f].run \in Runs
         /\ \A f \in Events : Used(f) => Used(f)'
<1>1. outbox \in [Events -> OutboxRecord] /\ worker[w].event \in Events
  BY RunOfWorker DEF Typed, TypeOK
<1>2. outbox' \in [Events -> OutboxRecord]
  BY <1>1 DEF CloseEvent, OutboxRecord, EventStatus, TerminalEvent
<1>3. Used(worker[w].event)
  BY DEF Typed, Fits, WorkerFits
<1>4. QED
  BY <1>1, <1>2, <1>3 DEF CloseEvent, Typed, Fits, Used

-----------------------------------------------------------------------------
(* Each action keeps types and references.                                  *)

\* The commands of orchestrator/service.py keep types and references.
LEMMA CommandTyped ==
  ASSUME Typed, NEW r \in Runs,
         \/ CancelRun(r)
         \/ \E e \in Events : StartRun(r, e) \/ RetryRun(r, e)
         \/ \E e \in Events, v \in Verdicts : ReviewRun(r, e, v)
  PROVE  Typed'
<1>1. /\ run \in [Runs -> RunRecord]
      /\ project \in [Projects -> {"new", "in_progress", "to_review", "done"}]
      /\ ProjectOf[r] \in Projects
      /\ decisions \in [Runs -> SUBSET Decision]
      /\ \A s \in Runs : run[s].status = "waiting_review" =>
                                run[s].pending \in Gates
  BY RunConstants DEF Typed, TypeOK, Fits
<1>2. ASSUME CancelRun(r) PROVE Typed'
  <2>1. /\ run' \in [Runs -> RunRecord]
        /\ \A s \in Runs : run'[s].status = "waiting_review" =>
                                  run'[s].pending \in Gates
    BY <1>1, <1>2 DEF CancelRun, RunRecord, RunStatus
  <2>2. project' \in [Projects -> {"new", "in_progress", "to_review", "done"}]
    BY <1>1, <1>2 DEF CancelRun
  <2>3. QED
    BY <1>2, <2>1, <2>2
    DEF CancelRun, Typed, TypeOK, Fits, Used, WorkerFits, artifacts
<1>3. ASSUME NEW e \in Events, StartRun(r, e) \/ RetryRun(r, e)
      PROVE  Typed'
  <2>1. /\ run' \in [Runs -> RunRecord]
        /\ \A s \in Runs : run'[s].status = "waiting_review" =>
                                  run'[s].pending \in Gates
    <3>1. run' = [run EXCEPT ![r].status = "queued"]
      BY <1>3 DEF StartRun, RetryRun
    <3>2. "queued" \in RunStatus
      BY DEF RunStatus, ActiveStates
    <3> QED
      BY <1>1, <3>1, <3>2 DEF RunRecord
  <2>2. project' \in [Projects -> {"new", "in_progress", "to_review", "done"}]
    BY <1>1, <1>3 DEF StartRun, RetryRun
  <2>3. Enqueue(r, e)
    BY <1>3 DEF StartRun, RetryRun
  <2>4. QED
    BY <1>3, <2>1, <2>2, <2>3, EnqueueTyped
    DEF StartRun, RetryRun, Typed, TypeOK, Fits, WorkerFits, artifacts
<1>4. ASSUME NEW e \in Events, NEW v \in Verdicts, ReviewRun(r, e, v)
      PROVE  Typed'
  <2> DEFINE x == [run[r] EXCEPT !.status = "queued", !.pending = NoStage]
  <2>a. x \in RunRecord /\ x.status # "waiting_review"
    BY <1>1 DEF RunRecord, RunStatus, ActiveStates
  <2>b. run' = [run EXCEPT ![r] = x]
    BY <1>4 DEF ReviewRun
  <2>1. /\ run' \in [Runs -> RunRecord]
        /\ \A s \in Runs : run'[s].status = "waiting_review" =>
                                  run'[s].pending \in Gates
    BY <1>1, <2>a, <2>b
  <2>2. [revision |-> run[r].revision, stage |-> run[r].pending,
         verdict |-> v] \in Decision
    BY <1>1, <1>4 DEF ReviewRun, RunRecord, Decision
  <2>3. decisions' \in [Runs -> SUBSET Decision]
    BY <1>1, <1>4, <2>2 DEF ReviewRun
  <2>4. Enqueue(r, e)
    BY <1>4 DEF ReviewRun
  <2>5. QED
    BY <1>4, <2>1, <2>3, <2>4, EnqueueTyped
    DEF ReviewRun, Typed, TypeOK, Fits, WorkerFits, artifacts
<1>5. QED
  BY <1>2, <1>3, <1>4

\* dispatch(), its aborted rounds and lost messages keep types and
\* references: only rows in use are sent.
LEMMA DeliverTyped ==
  ASSUME Typed, Deliver PROVE Typed'
<1>1. ASSUME NEW batch \in SUBSET Events, Dispatch(batch) PROVE Typed'
  <2>1. /\ outbox' \in [Events -> OutboxRecord]
        /\ \A e \in Events : outbox'[e].run = outbox[e].run
        /\ \A e \in Events : Used(e)' <=> Used(e)
        /\ \A e \in batch : Used(e)
    BY <1>1 DEF Dispatch, Eligible, Typed, TypeOK, OutboxRecord, EventStatus,
                Used
  <2>2. QED
    BY <1>1, <2>1 DEF Dispatch, Typed, TypeOK, Fits, WorkerFits, artifacts
<1>2. ASSUME NEW batch \in SUBSET Events, DispatchAborted(batch) PROVE Typed'
  <2>1. \A e \in batch : Used(e)
    BY <1>2 DEF DispatchAborted, Eligible, Used
  <2>2. faults' \in 0 .. MaxFaults
    BY <1>2, RunConstants DEF DispatchAborted, Typed, TypeOK
  <2>3. QED
    BY <1>2, <2>1, <2>2
    DEF DispatchAborted, Typed, TypeOK, Fits, WorkerFits, Used, artifacts,
        database
<1>3. ASSUME NEW e \in Events, LoseMessage(e) PROVE Typed'
  <2>1. faults' \in 0 .. MaxFaults
    BY <1>3, RunConstants DEF LoseMessage, Typed, TypeOK
  <2>2. QED
    BY <1>3, <2>1 DEF LoseMessage, Typed, TypeOK, Fits, WorkerFits, Used,
                      artifacts, database
<1>4. QED
  BY <1>1, <1>2, <1>3 DEF Deliver

\* A step that writes nothing but one worker's execution state, and at most
\* takes a delivery, keeps types and references.
LEMMA WorkerStepTyped ==
  ASSUME Typed, NEW w \in Workers, NEW x, WorkerFits(x),
         worker' = [worker EXCEPT ![w] = x],
         broker' \subseteq broker,
         UNCHANGED <<database, artifacts, faults, lockLosses>>
  PROVE  Typed'
<1>1. /\ worker' \in [Workers -> WorkerRecord]
      /\ \A v \in Workers : WorkerFits(worker[v])'
  BY WorkerUpdate DEF database, Used
<1>2. QED
  BY <1>1 DEF Typed, TypeOK, Fits, Used, database, artifacts

\* A worker that goes on with the same event stays fit.
LEMMA MovedFits ==
  ASSUME Typed, NEW w \in Workers, worker[w].phase # "idle",
         NEW x \in WorkerRecord, x.event = worker[w].event,
         x.phase \in {"approving", "rejecting"} => x.pos \in Gates,
         x.phase \in {"publishing", "committing", "leaving"} => x.pos \in Nodes,
         x.phase = "finishing" /\ x.interrupted => x.pos \in Gates
  PROVE  WorkerFits(x)
  BY DEF Typed, Fits, WorkerFits

\* A checkpoint written after a node or a gate keeps types and references.
LEMMA AdvanceTyped ==
  ASSUME Typed, NEW w \in Workers, worker[w].phase # "idle",
         NEW next \in Positions, Advance(w, next),
         UNCHANGED <<database, broker, published, outputs, faults, lockLosses>>
  PROVE  Typed'
<1> DEFINE x == [worker[w] EXCEPT !.phase = "node", !.pos = next]
<1>1. /\ worker \in [Workers -> WorkerRecord]
      /\ worker[w] \in WorkerRecord
      /\ checkpoint \in [Runs -> Checkpoint]
      /\ RunOf(w) \in Runs
  BY RunOfWorker DEF Typed, TypeOK
<1>2. worker' = [worker EXCEPT ![w] = x]
  BY DEF Advance
<1>3. x \in WorkerRecord /\ x.event = worker[w].event /\ x.phase = "node"
  BY <1>1 DEF WorkerRecord, Phases
<1> HIDE DEF x
<1>4. WorkerFits(x)
  BY <1>3, MovedFits
<1>5. /\ worker' \in [Workers -> WorkerRecord]
      /\ \A v \in Workers : WorkerFits(worker[v])'
  BY <1>2, <1>4, WorkerUpdate DEF database, Used
<1>6. [pos |-> next, interrupted |-> FALSE] \in Checkpoint
  BY DEF Checkpoint
<1>7. /\ checkpoint' \in [Runs -> Checkpoint]
      /\ \A r \in Runs : checkpoint'[r].interrupted =>
                              checkpoint'[r].pos \in Gates
  BY <1>1, <1>6 DEF Advance, Typed, Fits
<1>8. QED
  BY <1>5, <1>7 DEF Typed, TypeOK, Fits, Used, database

\* An exception that unwinds execute() keeps types and references.
LEMMA FailTyped ==
  ASSUME Typed, NEW w \in Workers, worker[w].phase # "idle", Fail(w),
         UNCHANGED <<database, broker, artifacts, faults, lockLosses>>
  PROVE  Typed'
  BY FailedFits, WorkerStepTyped DEF Fail

\* A worker that gives its delivery up keeps types and references.
LEMMA StopTyped ==
  ASSUME Typed, NEW w \in Workers, Stop(w),
         UNCHANGED <<database, broker, artifacts, faults, lockLosses>>
  PROVE  Typed'
  BY IdleFits, WorkerStepTyped DEF Stop

\* A transaction that updates the run, sets the project and closes the event
\* keeps types and references: the final one of execute(), or on_failure's.
LEMMA ClosingTyped ==
  ASSUME Typed, NEW w \in Workers, worker[w].phase # "idle",
         NEW status \in {"done", "failed"}, CloseEvent(w, status), Stop(w),
         project' \in [Projects -> {"new", "in_progress", "to_review", "done"}],
         NEW x \in RunRecord,
         x.status = "waiting_review" => x.pending \in Gates,
         run' = [run EXCEPT ![RunOf(w)] = x],
         UNCHANGED <<decisions, broker, artifacts, faults, lockLosses>>
  PROVE  Typed'
<1>1. /\ outbox' \in [Events -> OutboxRecord]
      /\ \A f \in Events : Used(f)' => outbox'[f].run \in Runs
      /\ \A f \in Events : Used(f) => Used(f)'
  BY CloseTyped
<1>2. /\ worker' \in [Workers -> WorkerRecord]
      /\ \A v \in Workers : WorkerFits(worker[v])'
  BY <1>1, IdleFits, WorkerUpdate DEF Stop
<1>3. /\ run' \in [Runs -> RunRecord]
      /\ \A r \in Runs : run'[r].status = "waiting_review" =>
                              run'[r].pending \in Gates
  BY DEF Typed, TypeOK, Fits
<1>4. QED
  BY <1>1, <1>2, <1>3 DEF Typed, TypeOK, Fits, artifacts

\* Each step of execute() and on_failure keeps types and references.
LEMMA WorkTyped ==
  ASSUME Typed, NEW w \in Workers, Work(w) PROVE Typed'
<1>1. /\ worker \in [Workers -> WorkerRecord]
      /\ worker[w] \in WorkerRecord
      /\ WorkerFits(worker[w])
  BY DEF Typed, TypeOK, Fits, WorkerRecord
<1>2. ASSUME TryLock(w) PROVE Typed'
  <2> DEFINE x == [worker[w] EXCEPT !.phase = "locked", !.holds = TRUE]
  <2>1. CASE worker' = [worker EXCEPT ![w] = x]
    <3>1. /\ x \in WorkerRecord
          /\ x.event = worker[w].event
          /\ x.phase = "locked"
      BY <1>1 DEF WorkerRecord, Phases
    <3> HIDE DEF x
    <3>2. WorkerFits(x)
      BY <1>2, <3>1, MovedFits DEF TryLock, At
    <3>3. QED
      BY <1>2, <2>1, <3>2, WorkerStepTyped DEF TryLock
  <2>2. CASE Stop(w)
    BY <1>2, <2>2, IdleFits, WorkerStepTyped DEF TryLock, Stop
  <2>3. QED
    BY <1>2, <2>1, <2>2 DEF TryLock
<1>3. ASSUME Load(w) PROVE Typed'
  <2>1. RunOf(w) \in Runs
    BY <1>3, RunOfWorker DEF Load, At
  <2>2. /\ checkpoint[RunOf(w)] \in Checkpoint
        /\ checkpoint[RunOf(w)].interrupted =>
              checkpoint[RunOf(w)].pos \in Gates
    BY <2>1 DEF Typed, TypeOK, Fits
  <2>3. PICK phase \in {"node", "returned", "approving", "rejecting"} :
          /\ worker' = [worker EXCEPT ![w].phase = phase,
                                      ![w].pos = checkpoint[RunOf(w)].pos]
          /\ phase \in {"approving", "rejecting"} =>
                checkpoint[RunOf(w)].interrupted
    BY <1>3 DEF Load
  <2> DEFINE x == [worker[w] EXCEPT !.phase = phase,
                                    !.pos = checkpoint[RunOf(w)].pos]
  <2>4. /\ x \in WorkerRecord
        /\ x.event = worker[w].event
        /\ x.phase = phase
        /\ x.pos = checkpoint[RunOf(w)].pos
    BY <1>1, <2>2 DEF WorkerRecord, Phases, Checkpoint
  <2>5. worker' = [worker EXCEPT ![w] = x]
    BY <2>3
  <2> HIDE DEF x
  <2>6. WorkerFits(x)
    BY <1>3, <2>2, <2>3, <2>4, MovedFits DEF Load, At
  <2>7. QED
    BY <1>3, <2>5, <2>6, WorkerStepTyped DEF Load
<1>4. ASSUME PassGate(w) PROVE Typed'
  <2>1. PICK next \in Positions : Advance(w, next)
    BY <1>1, <1>4 DEF PassGate, At, WorkerFits, Gates, BriefGate, OutlineGate,
                      DraftGate, Positions, Brief, Rejected
  <2>2. QED
    BY <1>4, <2>1, AdvanceTyped DEF PassGate, At
<1>5. ASSUME LeaveNode(w) PROVE Typed'
  <2>1. CASE Advance(w, worker[w].pos + 1)
    <3>1. worker[w].pos + 1 \in Positions
      BY <1>1, <1>5 DEF LeaveNode, At, WorkerFits, Nodes, Brief, Research,
                        Writing, Publish, Positions, Rejected
    <3>2. QED
      BY <1>5, <2>1, <3>1, AdvanceTyped DEF LeaveNode, At
  <2>2. CASE Fail(w) /\ UNCHANGED checkpoint
    BY <1>5, <2>2, FailTyped DEF LeaveNode, At, artifacts
  <2>3. QED
    BY <1>5, <2>1, <2>2 DEF LeaveNode
<1>6. ASSUME HitGate(w) PROVE Typed'
  <2> DEFINE x == [worker[w] EXCEPT !.phase = "returned"]
  <2>1. x \in WorkerRecord /\ x.event = worker[w].event /\ x.phase = "returned"
    BY <1>1 DEF WorkerRecord, Phases
  <2>2. worker' = [worker EXCEPT ![w] = x]
    BY <1>6 DEF HitGate
  <2> HIDE DEF x
  <2>3. /\ worker' \in [Workers -> WorkerRecord]
        /\ \A v \in Workers : WorkerFits(worker[v])'
    <3>1. WorkerFits(x)
      BY <1>6, <2>1, MovedFits DEF HitGate, At
    <3>2. QED
      BY <1>6, <2>2, <3>1, WorkerUpdate DEF HitGate, database, Used
  <2>4. [pos |-> worker[w].pos, interrupted |-> TRUE] \in Checkpoint
    BY <1>1 DEF Checkpoint, WorkerRecord
  <2>5. /\ checkpoint' \in [Runs -> Checkpoint]
        /\ \A r \in Runs : checkpoint'[r].interrupted =>
                                checkpoint'[r].pos \in Gates
    BY <1>6, <2>4 DEF HitGate, Typed, TypeOK, Fits
  <2>6. QED
    BY <1>6, <2>3, <2>5 DEF HitGate, Typed, TypeOK, Fits, Used, database
<1>7. ASSUME EnterNode(w) PROVE Typed'
  <2>1. CASE Fail(w)
    BY <1>7, <2>1, FailTyped DEF EnterNode, At
  <2>2. CASE run[RunOf(w)].status = "running"
    <3>1. PICK phase \in {"publishing", "leaving"} :
            worker' = [worker EXCEPT ![w] = [worker[w] EXCEPT !.phase = phase]]
      BY <1>7, <2>2 DEF EnterNode
    <3> DEFINE x == [worker[w] EXCEPT !.phase = phase]
    <3>2. /\ x \in WorkerRecord
          /\ x.event = worker[w].event
          /\ x.phase = phase
          /\ x.pos = worker[w].pos
      BY <1>1 DEF WorkerRecord, Phases
    <3> HIDE DEF x
    <3>3. WorkerFits(x)
      BY <1>7, <3>2, MovedFits DEF EnterNode, At
    <3>4. QED
      BY <1>7, <3>1, <3>3, WorkerStepTyped DEF EnterNode, x
  <2>3. QED
    BY <1>7, <2>1, <2>2 DEF EnterNode
<1>8. ASSUME LookUpPublished(w) PROVE Typed'
  <2>1. run[RunOf(w)].revision \in Nat
    BY <1>8, RunOfWorker DEF LookUpPublished, At, Typed, TypeOK, RunRecord
  <2>2. PICK phase \in {"committing", "leaving"} :
          worker' = [worker EXCEPT ![w].phase = phase,
                                   ![w].revision = run[RunOf(w)].revision]
    BY <1>8 DEF LookUpPublished
  <2> DEFINE x == [worker[w] EXCEPT !.phase = phase,
                                    !.revision = run[RunOf(w)].revision]
  <2>3. /\ x \in WorkerRecord
        /\ x.event = worker[w].event
        /\ x.phase = phase
        /\ x.pos = worker[w].pos
    BY <1>1, <2>1 DEF WorkerRecord, Phases
  <2>4. worker' = [worker EXCEPT ![w] = x]
    BY <2>2
  <2> HIDE DEF x
  <2>5. WorkerFits(x)
    BY <1>1, <1>8, <2>3, MovedFits DEF LookUpPublished, At, WorkerFits
  <2>6. QED
    BY <1>8, <2>4, <2>5, WorkerStepTyped DEF LookUpPublished
<1>9. ASSUME CommitOutput(w) PROVE Typed'
  <2>1. CASE Fail(w) /\ UNCHANGED <<published, outputs>>
    BY <1>9, <2>1, FailTyped DEF CommitOutput, At, artifacts
  <2>2. CASE worker[w].revision \notin published[RunOf(w)]
    <3> DEFINE x == [worker[w] EXCEPT !.phase = "leaving"]
    <3>1. /\ x \in WorkerRecord
          /\ x.event = worker[w].event
          /\ x.phase = "leaving"
          /\ x.pos = worker[w].pos
      BY <1>1 DEF WorkerRecord, Phases
    <3>2. worker' = [worker EXCEPT ![w] = x]
      BY <1>9, <2>2 DEF CommitOutput
    <3> HIDE DEF x
    <3>3. WorkerFits(x)
      BY <1>1, <1>9, <3>1, MovedFits DEF CommitOutput, At, WorkerFits
    <3>4. /\ worker' \in [Workers -> WorkerRecord]
          /\ \A v \in Workers : WorkerFits(worker[v])'
      BY <1>9, <3>2, <3>3, WorkerUpdate DEF CommitOutput, database, Used
    <3>5. published' \in [Runs -> SUBSET Nat] /\ outputs' \in [Runs -> Nat]
      BY <1>1, <1>9, <2>2, RunOfWorker
      DEF CommitOutput, At, Typed, TypeOK, WorkerRecord
    <3>6. QED
      BY <1>9, <3>4, <3>5 DEF CommitOutput, Typed, TypeOK, Fits, Used, database
  <2>3. QED
    BY <1>9, <2>1, <2>2 DEF CommitOutput
<1>10. ASSUME ReachEnd(w) PROVE Typed'
  <2> DEFINE x == [worker[w] EXCEPT !.phase = "returned"]
  <2>1. x \in WorkerRecord /\ x.event = worker[w].event /\ x.phase = "returned"
    BY <1>1 DEF WorkerRecord, Phases
  <2>2. worker' = [worker EXCEPT ![w] = x]
    BY <1>10 DEF ReachEnd
  <2> HIDE DEF x
  <2>3. QED
    BY <1>10, <2>1, <2>2, MovedFits, WorkerStepTyped DEF ReachEnd, At
<1>11. ASSUME ReadOutcome(w) PROVE Typed'
  <2>1. /\ checkpoint[RunOf(w)] \in Checkpoint
        /\ checkpoint[RunOf(w)].interrupted =>
              checkpoint[RunOf(w)].pos \in Gates
    BY <1>11, RunOfWorker DEF ReadOutcome, At, Typed, TypeOK, Fits
  <2> DEFINE x == [worker[w] EXCEPT
                      !.phase = "finishing",
                      !.pos = checkpoint[RunOf(w)].pos,
                      !.interrupted = checkpoint[RunOf(w)].interrupted]
  <2>2. /\ x \in WorkerRecord
        /\ x.event = worker[w].event
        /\ x.phase = "finishing"
        /\ x.pos = checkpoint[RunOf(w)].pos
        /\ x.interrupted = checkpoint[RunOf(w)].interrupted
    BY <1>1, <2>1 DEF WorkerRecord, Phases, Checkpoint
  <2>3. worker' = [worker EXCEPT ![w] = x]
    BY <1>11 DEF ReadOutcome
  <2> HIDE DEF x
  <2>4. WorkerFits(x)
    BY <1>11, <2>1, <2>2, MovedFits DEF ReadOutcome, At
  <2>5. QED
    BY <1>11, <2>3, <2>4, WorkerStepTyped DEF ReadOutcome
<1>12. ASSUME Begin(w) PROVE Typed'
  <2>1. /\ RunOf(w) \in Runs
        /\ run \in [Runs -> RunRecord]
        /\ project \in [Projects -> {"new", "in_progress", "to_review", "done"}]
    BY <1>12, RunOfWorker DEF Begin, At, Typed, TypeOK
  <2>2. CASE Stop(w) /\ UNCHANGED <<run, outbox>>
    BY <1>12, <2>2, StopTyped DEF Begin, At, database
  <2>3. CASE CloseEvent(w, "done") /\ Stop(w) /\ UNCHANGED run
    <3>1. run' = [run EXCEPT ![RunOf(w)] = run[RunOf(w)]]
      BY <2>1, <2>3
    <3>2. /\ run[RunOf(w)] \in RunRecord
          /\ run[RunOf(w)].status = "waiting_review" =>
                run[RunOf(w)].pending \in Gates
      BY <2>1 DEF Typed, Fits
    <3>3. QED
      BY <1>12, <2>1, <2>3, <3>1, <3>2, ClosingTyped DEF Begin, At
  <2>4. CASE /\ run' = [run EXCEPT ![RunOf(w)].status = "running",
                                   ![RunOf(w)].started = TRUE]
             /\ worker' = [worker EXCEPT ![w].phase = "loading"]
             /\ UNCHANGED outbox
    <3> DEFINE x == [worker[w] EXCEPT !.phase = "loading"]
               y == [run[RunOf(w)] EXCEPT !.status = "running",
                                          !.started = TRUE]
    <3>1. x \in WorkerRecord /\ x.event = worker[w].event /\ x.phase = "loading"
      BY <1>1 DEF WorkerRecord, Phases
    <3>2. y \in RunRecord /\ y.status = "running"
      BY <2>1 DEF RunRecord, RunStatus, ActiveStates
    <3>3. worker' = [worker EXCEPT ![w] = x] /\ run' = [run EXCEPT ![RunOf(w)] = y]
      BY <2>4
    <3> HIDE DEF x, y
    <3>4. /\ worker' \in [Workers -> WorkerRecord]
          /\ \A v \in Workers : WorkerFits(worker[v])'
      <4>1. WorkerFits(x)
        BY <1>12, <3>1, MovedFits DEF Begin, At
      <4>2. QED
        BY <2>4, <3>3, <4>1, WorkerUpdate DEF Used
    <3>5. /\ run' \in [Runs -> RunRecord]
          /\ \A r \in Runs : run'[r].status = "waiting_review" =>
                                  run'[r].pending \in Gates
      BY <2>1, <3>2, <3>3 DEF Typed, Fits
    <3>6. QED
      BY <1>12, <2>4, <3>4, <3>5
      DEF Begin, Typed, TypeOK, Fits, Used, artifacts
  <2>5. QED
    BY <1>12, <2>2, <2>3, <2>4 DEF Begin
<1>13. ASSUME Finish(w) PROVE Typed'
  <2>1. /\ RunOf(w) \in Runs
        /\ ProjectOf[RunOf(w)] \in Projects
        /\ run \in [Runs -> RunRecord]
        /\ project \in [Projects -> {"new", "in_progress", "to_review", "done"}]
    BY <1>13, RunOfWorker DEF Finish, At, Typed, TypeOK
  <2>2. CASE CloseEvent(w, "done") /\ Stop(w) /\ UNCHANGED <<project, run>>
    <3>1. run' = [run EXCEPT ![RunOf(w)] = run[RunOf(w)]]
      BY <2>1, <2>2
    <3>2. /\ run[RunOf(w)] \in RunRecord
          /\ run[RunOf(w)].status = "waiting_review" =>
                run[RunOf(w)].pending \in Gates
      BY <2>1 DEF Typed, Fits
    <3>3. QED
      BY <1>13, <2>1, <2>2, <3>1, <3>2, ClosingTyped DEF Finish, At
  <2>3. CASE Fail(w) /\ UNCHANGED <<project, run, outbox>>
    BY <1>13, <2>3, FailTyped DEF Finish, At, database
  <2>4. ASSUME NEW status \in {"waiting_review", "completed", "cancelled"},
               status = "waiting_review" => worker[w].interrupted,
               SetOutcome(w, status)
        PROVE  Typed'
    <3>1. worker[w].interrupted => worker[w].pos \in Gates
      BY <1>1, <1>13 DEF Finish, At, WorkerFits
    <3>2. run[RunOf(w)] \in RunRecord
      BY <2>1
    <3>3. PICK pending \in {NoStage} \cup Gates, revision \in Nat :
            /\ status = "waiting_review" => pending \in Gates
            /\ run' = [run EXCEPT ![RunOf(w)].status = status,
                                  ![RunOf(w)].started = FALSE,
                                  ![RunOf(w)].pending = pending,
                                  ![RunOf(w)].revision = revision]
      <4> DEFINE pending == IF worker[w].interrupted THEN worker[w].pos
                                                     ELSE NoStage
                 revision == IF worker[w].interrupted
                             THEN run[RunOf(w)].revision + 1
                             ELSE run[RunOf(w)].revision
      <4>1. pending \in {NoStage} \cup Gates
        BY <3>1
      <4>2. revision \in Nat
        BY <3>2 DEF RunRecord
      <4>3. run' = [run EXCEPT ![RunOf(w)].status = status,
                               ![RunOf(w)].started = FALSE,
                               ![RunOf(w)].pending = pending,
                               ![RunOf(w)].revision = revision]
        BY <2>4 DEF SetOutcome
      <4>4. status = "waiting_review" => pending \in Gates
        BY <2>4, <3>1
      <4> HIDE DEF pending, revision
      <4>5. QED
        BY <4>1, <4>2, <4>3, <4>4
    <3> DEFINE y == [run[RunOf(w)] EXCEPT !.status = status, !.started = FALSE,
                                          !.pending = pending,
                                          !.revision = revision]
    <3>4. y \in RunRecord
      BY <2>4, <3>2, <3>3 DEF RunRecord, RunStatus, ActiveStates
    <3>5. y.status = "waiting_review" => y.pending \in Gates
      BY <3>2, <3>3 DEF RunRecord
    <3>6. run' = [run EXCEPT ![RunOf(w)] = y]
      BY <3>3
    <3> HIDE DEF y
    <3>7. project' \in [Projects -> {"new", "in_progress", "to_review", "done"}]
      BY <2>1, <2>4 DEF SetOutcome
    <3>8. QED
      BY <1>13, <2>4, <3>4, <3>5, <3>6, <3>7, ClosingTyped
      DEF Finish, At, SetOutcome
  <2>5. QED
    BY <1>13, <2>2, <2>3, <2>4 DEF Finish
<1>14. ASSUME OnFailure(w) PROVE Typed'
  <2>1. /\ RunOf(w) \in Runs
        /\ ProjectOf[RunOf(w)] \in Projects
        /\ run \in [Runs -> RunRecord]
        /\ project \in [Projects -> {"new", "in_progress", "to_review", "done"}]
    BY <1>14, RunOfWorker DEF OnFailure, At, Typed, TypeOK
  <2> DEFINE y == [run[RunOf(w)] EXCEPT
                      !.status = IF @ = "cancelled" THEN @ ELSE "failed",
                      !.started = FALSE]
  <2>2. run[RunOf(w)] \in RunRecord
    BY <2>1
  <2>3. y \in RunRecord /\ y.status # "waiting_review"
    BY <2>2 DEF RunRecord, RunStatus
  <2>4. run' = [run EXCEPT ![RunOf(w)] = y]
    BY <1>14 DEF OnFailure
  <2> HIDE DEF y
  <2>5. project' \in [Projects -> {"new", "in_progress", "to_review", "done"}]
    BY <1>14, <2>1 DEF OnFailure
  <2>6. QED
    BY <1>14, <2>3, <2>4, <2>5, ClosingTyped DEF OnFailure, At
<1>15. QED
  BY <1>2, <1>3, <1>4, <1>5, <1>6, <1>7, <1>8, <1>9, <1>10, <1>11, <1>12,
     <1>13, <1>14 DEF Work

\* So does everything else that happens to a worker: deliveries, exceptions,
\* crashes and lost lock connections.
LEMMA WorkerTyped ==
  ASSUME Typed, NEW w \in Workers,
         \/ \E e \in Events : Receive(w, e) \/ DropTerminal(w, e)
         \/ Work(w) \/ Raise(w) \/ Crash(w) \/ LoseLock(w)
  PROVE  Typed'
<1>1. /\ worker \in [Workers -> WorkerRecord]
      /\ worker[w] \in WorkerRecord
      /\ WorkerFits(worker[w])
      /\ broker \in SUBSET Events
  BY DEF Typed, TypeOK, Fits, WorkerRecord
<1>2. ASSUME NEW e \in Events, Receive(w, e) PROVE Typed'
  <2> DEFINE x == [worker[w] EXCEPT !.phase = "received", !.event = e]
  <2>1. x \in WorkerRecord /\ x.event = e /\ x.phase = "received"
    BY <1>1 DEF WorkerRecord, Phases
  <2>2. worker' = [worker EXCEPT ![w] = x]
    BY <1>2 DEF Receive
  <2>3. Used(e)
    BY <1>2 DEF Receive, Typed, Fits
  <2> HIDE DEF x
  <2>4. WorkerFits(x)
    BY <2>1, <2>3 DEF WorkerFits
  <2>5. QED
    BY <1>2, <2>2, <2>4, WorkerStepTyped DEF Receive
<1>3. ASSUME NEW e \in Events, DropTerminal(w, e) PROVE Typed'
  BY <1>3 DEF DropTerminal, Typed, TypeOK, Fits, WorkerFits, Used, database,
              artifacts
<1>4. ASSUME Raise(w) PROVE Typed'
  BY <1>4, FailTyped DEF Raise
<1>5. ASSUME Crash(w) PROVE Typed'
  <2>1. /\ worker' \in [Workers -> WorkerRecord]
        /\ \A v \in Workers : WorkerFits(worker[v])'
    BY <1>5, IdleFits, WorkerUpdate DEF Crash, Stop, database, Used
  <2>2. broker' \in SUBSET Events /\ \A e \in broker' : Used(e)
    BY <1>1, <1>5 DEF Crash, At, WorkerFits, Typed, Fits
  <2>3. faults' \in 0 .. MaxFaults
    BY <1>5, RunConstants DEF Crash, Typed, TypeOK
  <2>4. QED
    BY <1>5, <2>1, <2>2, <2>3
    DEF Crash, Typed, TypeOK, Fits, Used, database, artifacts
<1>6. ASSUME LoseLock(w) PROVE Typed'
  <2> DEFINE x == [worker[w] EXCEPT !.holds = FALSE]
  <2>1. x \in WorkerRecord
    BY <1>1 DEF WorkerRecord
  <2>2. /\ x.event = worker[w].event
        /\ x.phase = worker[w].phase
        /\ x.pos = worker[w].pos
        /\ x.interrupted = worker[w].interrupted
    BY <1>1 DEF WorkerRecord
  <2>3. worker' = [worker EXCEPT ![w] = x]
    BY <1>6 DEF LoseLock
  <2> HIDE DEF x
  <2>4. WorkerFits(x)
    BY <1>1, <2>1, <2>2 DEF WorkerFits
  <2>5. /\ worker' \in [Workers -> WorkerRecord]
        /\ \A v \in Workers : WorkerFits(worker[v])'
    BY <1>6, <2>3, <2>4, WorkerUpdate DEF LoseLock, database, Used
  <2>6. lockLosses' \in 0 .. MaxLockLosses
    BY <1>6, RunConstants DEF LoseLock, Typed, TypeOK
  <2>7. QED
    BY <1>6, <2>5, <2>6
    DEF LoseLock, Typed, TypeOK, Fits, Used, database, artifacts
<1>7. QED
  BY <1>2, <1>3, <1>4, <1>5, <1>6, WorkTyped

\* Types and references do not depend on anything but the variables.
LEMMA StutterTyped ==
  Typed /\ UNCHANGED vars => Typed'
  BY DEF vars, database, artifacts, Typed, TypeOK, Fits, WorkerFits, Used

\* Typed is inductive.
LEMMA NextTyped ==
  Typed /\ [Next]_vars => Typed'
  BY CommandTyped, DeliverTyped, WorkerTyped, StutterTyped DEF Next, Command

\* Every row, message and execution state keeps its type, and every reference
\* from a delivery or a worker to an event, and from an event to a run, leads
\* to a row that exists.
THEOREM TypeCorrect == Spec => []TypeOK
<1>1. Spec => []Typed
  BY InitTyped, NextTyped, PTL DEF Spec
<1>2. Typed => TypeOK
  BY DEF Typed
<1>3. QED
  BY <1>1, <1>2, PTL

-----------------------------------------------------------------------------
(* One active run per project.  Only StartRun and RetryRun make an inactive *)
(* run active, under the project's row lock; a final transaction can do so  *)
(* only for a run whose started_at is set, and that run is active already.  *)

\* The ways in which a transaction can change a run.
StatusStep(r) ==
    LET old == run[r]
        new == run'[r]
    IN  \/ /\ old.status \in {"none", "failed"}         \* start, retry
           /\ ~HasActiveRun(ProjectOf[r])
           /\ new.status = "queued" /\ new.started = old.started
        \/ /\ old.status = "waiting_review"             \* review
           /\ new.status = "queued" /\ new.started = old.started
        \/ /\ old.status \in ActiveStates               \* cancel
           /\ new.status = "cancelled" /\ new.started = old.started
        \/ /\ old.status \in {"queued", "running"}      \* begin
           /\ new.status = "running"
        \/ /\ old.status # "cancelled" /\ old.started   \* finish
           /\ new.status \in {"waiting_review", "completed", "cancelled"}
           /\ ~new.started
        \/ /\ IF old.status = "cancelled" THEN new.status = "cancelled"
                                         ELSE new.status = "failed"
           /\ ~new.started                              \* on_failure

OtherRunsKept(r) == \A s \in Runs \ {r} : run'[s] = run[s]

\* A command changes one run, in one of the ways StatusStep lists.
LEMMA CommandStatus ==
  ASSUME Typed, NEW r \in Runs,
         \/ CancelRun(r)
         \/ \E e \in Events : StartRun(r, e) \/ RetryRun(r, e)
         \/ \E e \in Events, v \in Verdicts : ReviewRun(r, e, v)
  PROVE  StatusStep(r) /\ OtherRunsKept(r)
<1>1. run \in [Runs -> RunRecord] /\ run[r] \in RunRecord
  BY DEF Typed, TypeOK
<1>2. CASE CancelRun(r)
  BY <1>1, <1>2 DEF CancelRun, StatusStep, OtherRunsKept, RunRecord
<1>3. ASSUME NEW e \in Events, StartRun(r, e) \/ RetryRun(r, e)
      PROVE  StatusStep(r) /\ OtherRunsKept(r)
  BY <1>1, <1>3 DEF StartRun, RetryRun, StatusStep, OtherRunsKept, RunRecord
<1>4. ASSUME NEW e \in Events, NEW v \in Verdicts, ReviewRun(r, e, v)
      PROVE  StatusStep(r) /\ OtherRunsKept(r)
  BY <1>1, <1>4 DEF ReviewRun, StatusStep, OtherRunsKept, RunRecord
<1>5. QED
  BY <1>2, <1>3, <1>4

\* A worker changes no run but the one of its event, in one of those ways.
LEMMA WorkStatus ==
  ASSUME Typed, NEW w \in Workers, Work(w)
  PROVE  \/ UNCHANGED run
         \/ StatusStep(RunOf(w)) /\ OtherRunsKept(RunOf(w))
<1>1. run \in [Runs -> RunRecord]
  BY DEF Typed, TypeOK
<1>2. ASSUME Begin(w)
      PROVE  \/ UNCHANGED run
             \/ StatusStep(RunOf(w)) /\ OtherRunsKept(RunOf(w))
  <2>1. RunOf(w) \in Runs
    BY <1>2, RunOfWorker DEF Begin, At
  <2>2. QED
    BY <1>1, <1>2, <2>1 DEF Begin, StatusStep, OtherRunsKept, RunRecord
<1>3. ASSUME Finish(w)
      PROVE  \/ UNCHANGED run
             \/ StatusStep(RunOf(w)) /\ OtherRunsKept(RunOf(w))
  <2>1. RunOf(w) \in Runs
    BY <1>3, RunOfWorker DEF Finish, At
  <2>2. CASE UNCHANGED run
    BY <2>2
  <2>3. ASSUME run[RunOf(w)].status # "cancelled", run[RunOf(w)].started,
               NEW status \in {"waiting_review", "completed", "cancelled"},
               SetOutcome(w, status)
        PROVE  StatusStep(RunOf(w)) /\ OtherRunsKept(RunOf(w))
    <3>1. /\ run'[RunOf(w)].status = status
          /\ run'[RunOf(w)].started = FALSE
      BY <1>1, <2>1, <2>3 DEF SetOutcome, RunRecord
    <3>2. OtherRunsKept(RunOf(w))
      BY <1>1, <2>1, <2>3 DEF SetOutcome, OtherRunsKept
    <3>3. QED
      BY <2>3, <3>1, <3>2 DEF StatusStep
  <2>4. QED
    BY <1>3, <2>2, <2>3 DEF Finish
<1>4. ASSUME OnFailure(w)
      PROVE  StatusStep(RunOf(w)) /\ OtherRunsKept(RunOf(w))
  <2>1. RunOf(w) \in Runs
    BY <1>4, RunOfWorker DEF OnFailure, At
  <2>2. QED
    BY <1>1, <1>4, <2>1 DEF OnFailure, StatusStep, OtherRunsKept, RunRecord
<1>5. QED
  BY <1>2, <1>3, <1>4
  DEF Work, TryLock, Load, PassGate, HitGate, EnterNode, LookUpPublished,
      CommitOutput, LeaveNode, ReachEnd, ReadOutcome, database

\* Every step leaves the runs alone or changes one of them in one of those
\* ways.
LEMMA NextStatus ==
  ASSUME Typed, [Next]_vars
  PROVE  \/ UNCHANGED run
         \/ \E r \in Runs : StatusStep(r) /\ OtherRunsKept(r)
<1>1. CASE Command
  BY <1>1, CommandStatus DEF Command
<1>2. CASE Deliver
  BY <1>2 DEF Deliver, Dispatch, DispatchAborted, LoseMessage, database
<1>3. ASSUME NEW w \in Workers, Work(w)
      PROVE  \/ UNCHANGED run
             \/ \E r \in Runs : StatusStep(r) /\ OtherRunsKept(r)
  <2>1. CASE At(w, "idle")
    BY <1>3, <2>1 DEF Work, At, TryLock, Begin, Load, PassGate, HitGate,
      EnterNode, LookUpPublished, CommitOutput, LeaveNode, ReachEnd,
      ReadOutcome, Finish, OnFailure
  <2>2. CASE ~At(w, "idle")
    BY <1>3, <2>2, WorkStatus, RunOfWorker DEF At
  <2>3. QED
    BY <2>1, <2>2
<1>4. ASSUME NEW w \in Workers,
             \/ \E e \in Events : Receive(w, e) \/ DropTerminal(w, e)
             \/ Raise(w) \/ Crash(w) \/ LoseLock(w)
      PROVE  UNCHANGED run
  BY <1>4 DEF Receive, DropTerminal, Raise, Crash, LoseLock, database
<1>5. CASE UNCHANGED vars
  BY <1>5 DEF vars, database
<1>6. QED
  BY <1>1, <1>2, <1>3, <1>4, <1>5 DEF Next

ActiveInv == Typed /\ StartedOnlyWhileRunning /\ OneActiveRun

\* ActiveInv is inductive: neither OneActiveRun nor StartedOnlyWhileRunning
\* is so by itself.
LEMMA ActiveStep ==
  ActiveInv /\ [Next]_vars => ActiveInv'
<1> SUFFICES ASSUME ActiveInv, [Next]_vars PROVE ActiveInv'
  OBVIOUS
<1>1. Typed'
  BY NextTyped DEF ActiveInv
<1>2. CASE UNCHANGED run
  BY <1>1, <1>2 DEF ActiveInv, StartedOnlyWhileRunning, OneActiveRun
<1>3. ASSUME NEW r \in Runs, StatusStep(r), OtherRunsKept(r)
      PROVE  ActiveInv'
  <2>1. StartedOnlyWhileRunning'
    BY <1>3 DEF ActiveInv, StartedOnlyWhileRunning, StatusStep, OtherRunsKept,
                ActiveStates
  <2>2. run'[r].status \in ActiveStates =>
            \/ run[r].status \in ActiveStates
            \/ ~HasActiveRun(ProjectOf[r])
    BY <1>3 DEF ActiveInv, StartedOnlyWhileRunning, StatusStep, ActiveStates
  <2>3. OneActiveRun'
    BY <1>3, <2>2 DEF ActiveInv, OneActiveRun, OtherRunsKept, HasActiveRun
  <2>4. QED
    BY <1>1, <2>1, <2>3 DEF ActiveInv
<1>4. QED
  BY <1>2, <1>3, NextStatus DEF ActiveInv

\* No run is active when the system is installed.
LEMMA InitActive == Init => ActiveInv
  BY InitTyped DEF Init, ActiveInv, StartedOnlyWhileRunning, OneActiveRun,
                   ActiveStates

\* At most one run of a project is queued, running or waiting for review,
\* without any help from the database's partial unique index.
THEOREM AtMostOneActiveRun == Spec => []OneActiveRun
<1>1. Spec => []ActiveInv
  BY InitActive, ActiveStep, PTL DEF Spec
<1>2. ActiveInv => OneActiveRun
  BY DEF ActiveInv
<1>3. QED
  BY <1>1, <1>2, PTL

\* started_at is set only on a running run or on one cancelled while it ran.
THEOREM StartedRunsRun == Spec => []StartedOnlyWhileRunning
<1>1. Spec => []ActiveInv
  BY InitActive, ActiveStep, PTL DEF Spec
<1>2. ActiveInv => StartedOnlyWhileRunning
  BY DEF ActiveInv
<1>3. QED
  BY <1>1, <1>2, PTL

\* No step of any worker or command changes the status of a cancelled run.
THEOREM CancelledStays == Spec => CancelledIsFinal
<1>1. ActiveInv /\ [Next]_vars =>
        [\A r \in Runs : run[r].status = "cancelled" =>
                             run'[r].status = "cancelled"]_run
  BY NextStatus DEF ActiveInv, StatusStep, OtherRunsKept, ActiveStates
<1>2. Spec => []ActiveInv
  BY InitActive, ActiveStep, PTL DEF Spec
<1>3. QED
  BY <1>1, <1>2, PTL DEF Spec, CancelledIsFinal

-----------------------------------------------------------------------------
(* A project is done by the final transaction that completes its only       *)
(* active run; whatever makes a run of it active again first takes "done"   *)
(* away.                                                                    *)

\* A transaction that moves the project of its run to another status.
LEMMA UndoneKeepsSettled ==
  ASSUME Typed, DoneProjectIsSettled, NEW r \in Runs, OtherRunsKept(r),
         NEW status, status # "done",
         project' = [project EXCEPT ![ProjectOf[r]] = status]
  PROVE  DoneProjectIsSettled'
<1>1. project \in [Projects -> {"new", "in_progress", "to_review", "done"}]
  BY DEF Typed, TypeOK
<1>2. \A p \in Projects :
        project'[p] = "done" => project[p] = "done" /\ p # ProjectOf[r]
  BY <1>1
<1>3. QED
  BY <1>2 DEF DoneProjectIsSettled, HasActiveRun, OtherRunsKept

\* A transaction of an active run that leaves the project alone.
LEMMA ActiveKeepsSettled ==
  ASSUME Typed, DoneProjectIsSettled, NEW r \in Runs, OtherRunsKept(r),
         run[r].status \in ActiveStates, UNCHANGED project
  PROVE  DoneProjectIsSettled'
<1>1. ProjectOf[r] \in Projects
  BY RunConstants
<1>2. project[ProjectOf[r]] # "done"
  BY <1>1 DEF DoneProjectIsSettled, HasActiveRun
<1>3. QED
  BY <1>2 DEF DoneProjectIsSettled, HasActiveRun, OtherRunsKept

\* A final transaction closes the one active run of the project.
LEMMA OutcomeKeepsSettled ==
  ASSUME ActiveInv, DoneProjectIsSettled, NEW w \in Workers,
         RunOf(w) \in Runs,
         run[RunOf(w)].status # "cancelled", run[RunOf(w)].started,
         NEW status \in {"waiting_review", "completed", "cancelled"},
         SetOutcome(w, status)
  PROVE  DoneProjectIsSettled'
<1>1. PICK r \in Runs : r = RunOf(w)
  OBVIOUS
<1>2. /\ run \in [Runs -> RunRecord]
      /\ project \in [Projects -> {"new", "in_progress", "to_review", "done"}]
  BY DEF ActiveInv, Typed, TypeOK
<1>3. run'[r].status = status /\ OtherRunsKept(r)
  BY <1>1, <1>2 DEF SetOutcome, OtherRunsKept, RunRecord
<1>4. run[r].status \in ActiveStates
  BY <1>1 DEF ActiveInv, StartedOnlyWhileRunning, ActiveStates
<1>5. CASE status = "completed"
  <2>1. ProjectOf[r] \in Projects
    BY RunConstants
  <2>2. \A s \in Runs \ {r} :
          ProjectOf[s] = ProjectOf[r] => run[s].status \notin ActiveStates
    BY <1>4 DEF ActiveInv, OneActiveRun
  <2>3. \A p \in Projects \ {ProjectOf[r]} : project'[p] = project[p]
    BY <1>1, <1>2 DEF SetOutcome
  <2>4. ASSUME NEW p \in Projects, project'[p] = "done"
        PROVE  /\ ~HasActiveRun(p)'
               /\ \E s \in Runs :
                      ProjectOf[s] = p /\ run'[s].status = "completed"
    <3>1. CASE p = ProjectOf[r]
      BY <1>3, <1>5, <2>2, <3>1 DEF HasActiveRun, OtherRunsKept, ActiveStates
    <3>2. CASE p # ProjectOf[r]
      BY <1>3, <2>3, <2>4, <3>2
      DEF DoneProjectIsSettled, HasActiveRun, OtherRunsKept
    <3>3. QED
      BY <3>1, <3>2
  <2>5. QED
    BY <2>4 DEF DoneProjectIsSettled
<1>6. CASE status # "completed"
  BY <1>1, <1>3, <1>6, UndoneKeepsSettled DEF SetOutcome, ActiveInv
<1>7. QED
  BY <1>5, <1>6

\* No step leaves a done project with an active run or no completed one.
LEMMA SettledStep ==
  ASSUME ActiveInv, DoneProjectIsSettled, [Next]_vars
  PROVE  DoneProjectIsSettled'
<1>1. Typed /\ run \in [Runs -> RunRecord]
  BY DEF ActiveInv, Typed, TypeOK
<1>2. CASE UNCHANGED <<project, run>>
  BY <1>2 DEF DoneProjectIsSettled, HasActiveRun
<1>3. ASSUME NEW r \in Runs,
             \/ CancelRun(r)
             \/ \E e \in Events : StartRun(r, e) \/ RetryRun(r, e)
      PROVE  DoneProjectIsSettled'
  BY <1>1, <1>3, CommandStatus, UndoneKeepsSettled
  DEF CancelRun, StartRun, RetryRun
<1>4. ASSUME NEW r \in Runs, NEW e \in Events, NEW v \in Verdicts,
             ReviewRun(r, e, v)
      PROVE  DoneProjectIsSettled'
  BY <1>1, <1>4, CommandStatus, ActiveKeepsSettled DEF ReviewRun, ActiveStates
<1>5. ASSUME NEW w \in Workers, Begin(w) PROVE DoneProjectIsSettled'
  <2>1. RunOf(w) \in Runs
    BY <1>1, <1>5, RunOfWorker DEF Begin, At
  <2>2. CASE /\ run[RunOf(w)].status \in {"queued", "running"}
             /\ run' = [run EXCEPT ![RunOf(w)].status = "running",
                                   ![RunOf(w)].started = TRUE]
    <3>1. OtherRunsKept(RunOf(w))
      BY <1>1, <2>1, <2>2 DEF OtherRunsKept
    <3>2. QED
      BY <1>1, <1>5, <2>1, <2>2, <3>1, ActiveKeepsSettled
      DEF Begin, ActiveStates
  <2>3. QED
    BY <1>2, <1>5, <2>2 DEF Begin
<1>6. ASSUME NEW w \in Workers, Finish(w) PROVE DoneProjectIsSettled'
  <2>1. RunOf(w) \in Runs
    BY <1>1, <1>6, RunOfWorker DEF Finish, At
  <2>2. QED
    BY <1>2, <1>6, <2>1, OutcomeKeepsSettled DEF Finish
<1>7. ASSUME NEW w \in Workers, OnFailure(w) PROVE DoneProjectIsSettled'
  <2>1. RunOf(w) \in Runs
    BY <1>1, <1>7, RunOfWorker DEF OnFailure, At
  <2>2. OtherRunsKept(RunOf(w))
    BY <1>1, <1>7, <2>1 DEF OnFailure, OtherRunsKept
  <2>3. QED
    BY <1>1, <1>7, <2>1, <2>2, UndoneKeepsSettled DEF OnFailure
<1>8. CASE Deliver \/ UNCHANGED vars
  BY <1>2, <1>8 DEF Deliver, Dispatch, DispatchAborted, LoseMessage, vars,
                    database
<1>9. ASSUME NEW w \in Workers, Work(w) PROVE DoneProjectIsSettled'
  BY <1>2, <1>5, <1>6, <1>7, <1>9
  DEF Work, TryLock, Load, PassGate, HitGate, EnterNode, LookUpPublished,
      CommitOutput, LeaveNode, ReachEnd, ReadOutcome, database
<1>10. ASSUME NEW w \in Workers,
              \/ \E e \in Events : Receive(w, e) \/ DropTerminal(w, e)
              \/ Raise(w) \/ Crash(w) \/ LoseLock(w)
       PROVE  DoneProjectIsSettled'
  BY <1>2, <1>10 DEF Receive, DropTerminal, Raise, Crash, LoseLock, database
<1>11. QED
  BY <1>3, <1>4, <1>8, <1>9, <1>10 DEF Next, Command

\* A project shown as done has a completed run and no active one, whatever
\* stale workers, failures and retries do to its runs.
THEOREM DoneProjectsAreSettled == Spec => []DoneProjectIsSettled
<1>1. Init => DoneProjectIsSettled
  BY DEF Init, DoneProjectIsSettled
<1>2. Spec => []ActiveInv
  BY InitActive, ActiveStep, PTL DEF Spec
<1>3. ActiveInv /\ DoneProjectIsSettled /\ [Next]_vars => DoneProjectIsSettled'
  BY SettledStep
<1>4. QED
  BY <1>1, <1>2, <1>3, PTL DEF Spec

-----------------------------------------------------------------------------
(* A run that is queued or running has an event that is pending or sent: a  *)
(* transaction that closes an event leaves the event's run neither queued   *)
(* nor running, and one that queues a run inserts an event for it.          *)

\* A command that queues a run inserts the event that will bring it on.
LEMMA EnqueuingKeepsLive ==
  ASSUME Typed, LiveRunHasEvent, NEW r \in Runs, NEW e \in Events,
         Enqueue(r, e), OtherRunsKept(r)
  PROVE  LiveRunHasEvent'
<1>1. outbox \in [Events -> OutboxRecord]
  BY DEF Typed, TypeOK
<1>2. outbox'[e] = [status |-> "pending", run |-> r]
  BY <1>1 DEF Enqueue
<1>3. \A f \in Events \ {e} : outbox'[f] = outbox[f]
  BY <1>1 DEF Enqueue
<1>4. outbox[e].status = "none"
  BY DEF Enqueue, Fresh
<1>5. QED
  BY <1>2, <1>3, <1>4 DEF LiveRunHasEvent, OtherRunsKept

\* A transaction that closes an event leaves the run of the event neither
\* queued nor running.
LEMMA ClosingKeepsLive ==
  ASSUME Typed, LiveRunHasEvent,
         NEW w \in Workers, worker[w].phase # "idle",
         NEW status \in {"done", "failed"}, CloseEvent(w, status),
         run'[RunOf(w)].status \notin {"queued", "running"},
         OtherRunsKept(RunOf(w))
  PROVE  LiveRunHasEvent'
<1>1. outbox \in [Events -> OutboxRecord]
  BY DEF Typed, TypeOK
<1>2. \A f \in Events \ {worker[w].event} : outbox'[f] = outbox[f]
  BY <1>1 DEF CloseEvent
<1>3. \A r \in Runs \ {RunOf(w)} : run'[r] = run[r]
  BY DEF OtherRunsKept
<1>4. QED
  BY <1>2, <1>3 DEF LiveRunHasEvent, RunOf

\* No step of execute() or on_failure strands a run.
LEMMA WorkKeepsLive ==
  ASSUME Typed, LiveRunHasEvent, NEW w \in Workers, Work(w)
  PROVE  LiveRunHasEvent'
<1>1. run \in [Runs -> RunRecord]
  BY DEF Typed, TypeOK
<1>2. ASSUME Begin(w) PROVE LiveRunHasEvent'
  <2>1. RunOf(w) \in Runs /\ worker[w].phase # "idle"
    BY <1>2, RunOfWorker DEF Begin, At
  <2>2. CASE UNCHANGED <<run, outbox>>
    BY <2>2 DEF LiveRunHasEvent
  <2>3. CASE /\ run[RunOf(w)].status \notin {"queued", "running"}
             /\ CloseEvent(w, "done")
             /\ UNCHANGED run
    BY <2>1, <2>3, ClosingKeepsLive DEF OtherRunsKept
  <2>4. CASE /\ run[RunOf(w)].status \in {"queued", "running"}
             /\ run' = [run EXCEPT ![RunOf(w)].status = "running",
                                   ![RunOf(w)].started = TRUE]
             /\ UNCHANGED outbox
    BY <1>1, <2>1, <2>4 DEF LiveRunHasEvent
  <2>5. QED
    BY <1>2, <2>2, <2>3, <2>4 DEF Begin
<1>3. ASSUME Finish(w) PROVE LiveRunHasEvent'
  <2>1. RunOf(w) \in Runs /\ worker[w].phase # "idle"
    BY <1>3, RunOfWorker DEF Finish, At
  <2>2. CASE UNCHANGED <<run, outbox>>
    BY <2>2 DEF LiveRunHasEvent
  <2>3. CASE /\ run[RunOf(w)].status = "cancelled"
             /\ CloseEvent(w, "done")
             /\ UNCHANGED run
    BY <2>1, <2>3, ClosingKeepsLive DEF OtherRunsKept
  <2>4. ASSUME NEW status \in {"waiting_review", "completed", "cancelled"},
               SetOutcome(w, status)
        PROVE  LiveRunHasEvent'
    <3>1. run'[RunOf(w)].status = status /\ OtherRunsKept(RunOf(w))
      BY <1>1, <2>1, <2>4 DEF SetOutcome, OtherRunsKept, RunRecord
    <3>2. QED
      BY <2>1, <2>4, <3>1, ClosingKeepsLive DEF SetOutcome
  <2>5. QED
    BY <1>3, <2>2, <2>3, <2>4 DEF Finish
<1>4. ASSUME OnFailure(w) PROVE LiveRunHasEvent'
  <2>1. RunOf(w) \in Runs /\ worker[w].phase # "idle"
    BY <1>4, RunOfWorker DEF OnFailure, At
  <2>2. /\ run'[RunOf(w)].status \in {"cancelled", "failed"}
        /\ OtherRunsKept(RunOf(w))
    BY <1>1, <1>4, <2>1 DEF OnFailure, OtherRunsKept, RunRecord
  <2>3. QED
    BY <1>4, <2>1, <2>2, ClosingKeepsLive DEF OnFailure
<1>5. CASE UNCHANGED <<run, outbox>>
  BY <1>5 DEF LiveRunHasEvent
<1>6. QED
  BY <1>2, <1>3, <1>4, <1>5
  DEF Work, TryLock, Load, PassGate, HitGate, EnterNode, LookUpPublished,
      CommitOutput, LeaveNode, ReachEnd, ReadOutcome, database

\* No step strands a run.
LEMMA NextKeepsLive ==
  ASSUME Typed, LiveRunHasEvent, [Next]_vars
  PROVE  LiveRunHasEvent'
<1>1. /\ run \in [Runs -> RunRecord]
      /\ outbox \in [Events -> OutboxRecord]
  BY DEF Typed, TypeOK
<1>2. ASSUME NEW r \in Runs, CancelRun(r) PROVE LiveRunHasEvent'
  BY <1>1, <1>2 DEF CancelRun, LiveRunHasEvent
<1>3. ASSUME NEW r \in Runs, NEW e \in Events,
             \/ StartRun(r, e) \/ RetryRun(r, e)
             \/ \E v \in Verdicts : ReviewRun(r, e, v)
      PROVE  LiveRunHasEvent'
  <2>1. Enqueue(r, e)
    BY <1>3 DEF StartRun, RetryRun, ReviewRun
  <2>2. OtherRunsKept(r)
    BY <1>3, CommandStatus
  <2>3. QED
    BY <2>1, <2>2, EnqueuingKeepsLive
<1>4. ASSUME NEW batch \in SUBSET Events, Dispatch(batch)
      PROVE  LiveRunHasEvent'
  <2>1. \A e \in Events :
          /\ outbox'[e].run = outbox[e].run
          /\ outbox[e].status \in {"pending", "sent"} =>
                outbox'[e].status \in {"pending", "sent"}
    BY <1>1, <1>4 DEF Dispatch, OutboxRecord
  <2>2. QED
    BY <1>4, <2>1 DEF Dispatch, LiveRunHasEvent
<1>5. CASE \/ \E batch \in SUBSET Events : DispatchAborted(batch)
           \/ \E e \in Events : LoseMessage(e)
  BY <1>5 DEF DispatchAborted, LoseMessage, database, LiveRunHasEvent
<1>6. ASSUME NEW w \in Workers,
             \/ \E e \in Events : Receive(w, e) \/ DropTerminal(w, e)
             \/ Raise(w) \/ Crash(w) \/ LoseLock(w)
      PROVE  LiveRunHasEvent'
  BY <1>6 DEF Receive, DropTerminal, Raise, Crash, LoseLock, database,
              LiveRunHasEvent
<1>7. CASE UNCHANGED vars
  BY <1>7 DEF vars, database, LiveRunHasEvent
<1>8. QED
  BY <1>2, <1>3, <1>4, <1>5, <1>6, <1>7, WorkKeepsLive
  DEF Next, Command, Deliver

\* A run that is queued or running is never without an event to bring it on.
THEOREM LiveRunsHaveEvents == Spec => []LiveRunHasEvent
<1>1. Init => LiveRunHasEvent
  BY DEF Init, LiveRunHasEvent
<1>2. Spec => []Typed
  BY InitTyped, NextTyped, PTL DEF Spec
<1>3. Typed /\ LiveRunHasEvent /\ [Next]_vars => LiveRunHasEvent'
  BY NextKeepsLive
<1>4. QED
  BY <1>1, <1>2, <1>3, PTL DEF Spec

=============================================================================
