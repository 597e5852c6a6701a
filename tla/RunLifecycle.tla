------------------------------ MODULE RunLifecycle ------------------------------
(***************************************************************************)
(* The life of research runs: the HTTP commands of orchestrator/service.py, *)
(* the outbox dispatcher, the Celery workers and their advisory lock        *)
(* (orchestrator/worker.py), and the review gates and publication of the    *)
(* graph they execute (orchestrator/workflow.py).                           *)
(*                                                                          *)
(* One database transaction is one action.  What lies between two           *)
(* transactions of a handler lies between two actions, so cancellations,    *)
(* duplicate deliveries, crashes and other workers interleave there.        *)
(***************************************************************************)
EXTENDS Naturals, FiniteSets

CONSTANTS
    Projects,       \* research projects
    Runs,           \* identifiers available for research runs
    ProjectOf,      \* the project each run is started for
    Workers,        \* worker slots (the compose file starts three)
    Events,         \* outbox identifiers in creation order: positive naturals
    NoRun,          \* the run of an outbox row that does not exist yet
    MaxFaults,      \* bound on crashes, lost messages and aborted dispatches
    MaxLockLosses   \* bound on lost advisory-lock connections

ASSUME RunConstants ==
    /\ ProjectOf \in [Runs -> Projects]
    /\ Events \subseteq Nat \ {0}
    /\ NoRun \notin Runs
    /\ MaxFaults \in Nat
    /\ MaxLockLosses \in Nat

VARIABLES
    project,     \* research_projects.status
    run,         \* research_runs rows
    decisions,   \* review_decisions rows of each run
    outbox,      \* research_outbox rows
    broker,      \* deliveries waiting in Redis; copies of one event are one
    worker,      \* the execution state of each worker slot
    checkpoint,  \* LangGraph checkpoint of each run's thread
    published,   \* revisions of each run's "published" artifact versions
    outputs,     \* number of outputs rows each run has created
    faults,      \* crashes, losses and aborts so far
    lockLosses   \* lock connections lost so far

database == <<project, run, decisions, outbox>>
artifacts == <<checkpoint, published, outputs>>
vars == <<database, broker, worker, artifacts, faults, lockLosses>>

-----------------------------------------------------------------------------
(* The graph, coarsened to what separates its three review gates.           *)

Brief == 0        \* brief
BriefGate == 1    \* brief_review
Research == 2     \* collect, coverage, analyze, outline
OutlineGate == 3  \* outline_review
Writing == 4      \* draft, critique
DraftGate == 5    \* final_review
Publish == 6      \* publish
Ended == 7        \* END after publish: the state holds output_id
Rejected == 8     \* END after a rejected review
Positions == Brief .. Rejected
Gates == {BriefGate, OutlineGate, DraftGate}
Nodes == {Brief, Research, Writing, Publish}
NoStage == Brief

ActiveStates == {"queued", "running", "waiting_review"}
TerminalEvent == {"done", "failed"}
Verdicts == {"approve", "reject"}

RunStatus == ActiveStates \cup {"none", "completed", "failed", "cancelled"}
EventStatus == {"none", "pending", "sent"} \cup TerminalEvent

RunRecord ==
    [status : RunStatus,
     started : BOOLEAN,          \* started_at is set
     revision : Nat,
     pending : {NoStage} \cup Gates]
Decision == [revision : Nat, stage : Gates, verdict : Verdicts]
OutboxRecord == [status : EventStatus, run : Runs \cup {NoRun}]
Checkpoint == [pos : Positions, interrupted : BOOLEAN]

\* The steps of execute() and of the durable() wrapper around a node.
Phases ==
    {"idle",       \* no task
     "received",   \* event read and not terminal; no lock yet
     "locked",     \* advisory lock taken, first transaction not begun
     "loading",    \* run marked running; checkpoint not read
     "approving",  \* resuming a gate with an approval
     "rejecting",  \* resuming a gate with a rejection
     "node",       \* about to enter the node at pos
     "publishing", \* node publish entered, its own transaction not begun
     "committing", \* no published version seen; outputs row not committed
     "leaving",    \* node body finished; closing check not made
     "returned",   \* graph.invoke returned; final get_state not made
     "finishing",  \* final transaction not begun
     "failing"}    \* exception raised, lock released, on_failure not run
WorkerRecord ==
    [phase : Phases, event : Events \cup {0}, holds : BOOLEAN,
     pos : Positions, interrupted : BOOLEAN, revision : Nat]

TypeOK ==
    /\ project \in [Projects -> {"new", "in_progress", "to_review", "done"}]
    /\ run \in [Runs -> RunRecord]
    /\ decisions \in [Runs -> SUBSET Decision]
    /\ outbox \in [Events -> OutboxRecord]
    /\ broker \in SUBSET Events
    /\ worker \in [Workers -> WorkerRecord]
    /\ checkpoint \in [Runs -> Checkpoint]
    /\ published \in [Runs -> SUBSET Nat]
    /\ outputs \in [Runs -> Nat]
    /\ faults \in 0 .. MaxFaults
    /\ lockLosses \in 0 .. MaxLockLosses

\* A worker that holds nothing and remembers nothing but its event.
Resting(phase, event) ==
    [phase |-> phase, event |-> event, holds |-> FALSE, pos |-> Brief,
     interrupted |-> FALSE, revision |-> 0]
Idle == Resting("idle", 0)

Init ==
    /\ project = [p \in Projects |-> "new"]
    /\ run = [r \in Runs |-> [status |-> "none", started |-> FALSE,
                              revision |-> 0, pending |-> NoStage]]
    /\ decisions = [r \in Runs |-> {}]
    /\ outbox = [e \in Events |-> [status |-> "none", run |-> NoRun]]
    /\ broker = {}
    /\ worker = [w \in Workers |-> Idle]
    /\ checkpoint = [r \in Runs |-> [pos |-> Brief, interrupted |-> FALSE]]
    /\ published = [r \in Runs |-> {}]
    /\ outputs = [r \in Runs |-> 0]
    /\ faults = 0
    /\ lockLosses = 0

-----------------------------------------------------------------------------
(* Commands: orchestrator/service.py, each one transaction.                 *)

\* Mutant: a run waiting for review is forgotten.
HasWorkingRun(p) ==
    \E r \in Runs : ProjectOf[r] = p /\ run[r].status \in {"queued", "running"}

HasActiveRun(p) ==
    \E r \in Runs : ProjectOf[r] = p /\ run[r].status \in ActiveStates

\* The oldest identifier not yet used: created_at follows insertion order.
Fresh(e) ==
    /\ outbox[e].status = "none"
    /\ \A f \in Events : f < e => outbox[f].status # "none"

Enqueue(r, e) ==
    /\ Fresh(e)
    /\ outbox' = [outbox EXCEPT ![e] = [status |-> "pending", run |-> r]]

StartRun(r, e) ==
    /\ run[r].status = "none"
    /\ ~HasActiveRun(ProjectOf[r])
    /\ run' = [run EXCEPT ![r].status = "queued"]
    /\ Enqueue(r, e)
    /\ project' = [project EXCEPT ![ProjectOf[r]] = "in_progress"]
    /\ UNCHANGED <<decisions, broker, worker, artifacts, faults, lockLosses>>

ReviewRun(r, e, verdict) ==
    /\ run[r].status = "waiting_review"
    /\ decisions' = [decisions EXCEPT ![r] = @ \cup
            {[revision |-> run[r].revision, stage |-> run[r].pending,
              verdict |-> verdict]}]
    /\ run' = [run EXCEPT ![r].status = "queued", ![r].pending = NoStage]
    /\ Enqueue(r, e)
    /\ UNCHANGED <<project, broker, worker, artifacts, faults, lockLosses>>

CancelRun(r) ==
    /\ run[r].status \in ActiveStates
    /\ run' = [run EXCEPT ![r].status = "cancelled"]
    /\ project' = [project EXCEPT ![ProjectOf[r]] = "to_review"]
    /\ UNCHANGED <<decisions, outbox, broker, worker, artifacts, faults,
                   lockLosses>>

RetryRun(r, e) ==
    /\ run[r].status = "failed"
    /\ ~HasActiveRun(ProjectOf[r])
    /\ run' = [run EXCEPT ![r].status = "queued"]
    /\ Enqueue(r, e)
    /\ project' = [project EXCEPT ![ProjectOf[r]] = "in_progress"]
    /\ UNCHANGED <<decisions, broker, worker, artifacts, faults, lockLosses>>

-----------------------------------------------------------------------------
(* dispatch(), every five seconds.  The sixty-second age of a sent event is *)
(* abstracted: an execution may last thirty minutes, so every sent event    *)
(* comes of age while it is still being worked on.                          *)

\* Mutant: nothing is ever sent again.
EligibleOnce == {e \in Events : outbox[e].status = "pending"}

Eligible == {e \in Events : outbox[e].status \in {"pending", "sent"}}

\* SKIP LOCKED and LIMIT 20 let a round take only part of the eligible rows.
Dispatch(batch) ==
    /\ batch # {}
    /\ batch \subseteq Eligible
    /\ broker' = broker \cup batch
    /\ outbox' = [e \in Events |-> IF e \in batch
                                   THEN [outbox[e] EXCEPT !.status = "sent"]
                                   ELSE outbox[e]]
    /\ UNCHANGED <<project, run, decisions, worker, artifacts, faults,
                   lockLosses>>

\* The messages are in Redis, the transaction that records it is not.
DispatchAborted(batch) ==
    /\ faults < MaxFaults
    /\ batch # {}
    /\ batch \subseteq Eligible
    /\ broker' = broker \cup batch
    /\ faults' = faults + 1
    /\ UNCHANGED <<database, worker, artifacts, lockLosses>>

LoseMessage(e) ==
    /\ faults < MaxFaults
    /\ e \in broker
    /\ broker' = broker \ {e}
    /\ faults' = faults + 1
    /\ UNCHANGED <<database, worker, artifacts, lockLosses>>

-----------------------------------------------------------------------------
(* execute()                                                                *)

RunOf(w) == outbox[worker[w].event].run
At(w, phase) == worker[w].phase = phase
Stop(w) == worker' = [worker EXCEPT ![w] = Idle]
Fail(w) ==
    worker' = [worker EXCEPT ![w] = Resting("failing", worker[w].event)]
CloseEvent(w, status) ==
    outbox' = [outbox EXCEPT ![worker[w].event].status = status]
LockFree(r) ==
    \A v \in Workers : worker[v].holds => RunOf(v) # r

DropTerminal(w, e) ==
    /\ At(w, "idle")
    /\ e \in broker
    /\ outbox[e].status \in TerminalEvent
    /\ broker' = broker \ {e}
    /\ UNCHANGED <<database, worker, artifacts, faults, lockLosses>>

Receive(w, e) ==
    /\ At(w, "idle")
    /\ e \in broker
    /\ outbox[e].status \notin TerminalEvent
    /\ broker' = broker \ {e}
    /\ worker' = [worker EXCEPT ![w].phase = "received", ![w].event = e]
    /\ UNCHANGED <<database, artifacts, faults, lockLosses>>

\* Mutant: the result of pg_try_advisory_lock is ignored.
TryLockIgnored(w) ==
    /\ At(w, "received")
    /\ worker' = [worker EXCEPT ![w].phase = "locked", ![w].holds = TRUE]
    /\ UNCHANGED <<database, broker, artifacts, faults, lockLosses>>

\* pg_try_advisory_lock: a worker that does not get the lock drops the
\* delivery and leaves the event "sent" for the dispatcher to resend.
TryLock(w) ==
    /\ At(w, "received")
    /\ \/ /\ LockFree(RunOf(w))
          /\ worker' = [worker EXCEPT ![w].phase = "locked", ![w].holds = TRUE]
       \/ /\ ~LockFree(RunOf(w))
          /\ Stop(w)
    /\ UNCHANGED <<database, broker, artifacts, faults, lockLosses>>

\* Mutant: the event is closed when its execution begins.
BeginClosesEvent(w) ==
    /\ At(w, "locked")
    /\ outbox[worker[w].event].status \notin TerminalEvent
    /\ run[RunOf(w)].status \in {"queued", "running"}
    /\ run' = [run EXCEPT ![RunOf(w)].status = "running",
                          ![RunOf(w)].started = TRUE]
    /\ worker' = [worker EXCEPT ![w].phase = "loading"]
    /\ CloseEvent(w, "done")
    /\ UNCHANGED <<project, decisions, broker, artifacts, faults, lockLosses>>

\* Mutant: a run already running is left to the worker that began it.
BeginOnlyQueued(w) ==
    /\ At(w, "locked")
    /\ \/ /\ outbox[worker[w].event].status \in TerminalEvent
          /\ Stop(w)
          /\ UNCHANGED <<run, outbox>>
       \/ /\ outbox[worker[w].event].status \notin TerminalEvent
          /\ run[RunOf(w)].status # "queued"
          /\ CloseEvent(w, "done")
          /\ Stop(w)
          /\ UNCHANGED run
       \/ /\ outbox[worker[w].event].status \notin TerminalEvent
          /\ run[RunOf(w)].status = "queued"
          /\ run' = [run EXCEPT ![RunOf(w)].status = "running",
                                ![RunOf(w)].started = TRUE]
          /\ worker' = [worker EXCEPT ![w].phase = "loading"]
          /\ UNCHANGED outbox
    /\ UNCHANGED <<project, decisions, broker, artifacts, faults, lockLosses>>

Begin(w) ==
    /\ At(w, "locked")
    /\ \/ /\ outbox[worker[w].event].status \in TerminalEvent
          /\ Stop(w)
          /\ UNCHANGED <<run, outbox>>
       \/ /\ outbox[worker[w].event].status \notin TerminalEvent
          /\ run[RunOf(w)].status \notin {"queued", "running"}
          /\ CloseEvent(w, "done")
          /\ Stop(w)
          /\ UNCHANGED run
       \/ /\ outbox[worker[w].event].status \notin TerminalEvent
          /\ run[RunOf(w)].status \in {"queued", "running"}
          /\ run' = [run EXCEPT ![RunOf(w)].status = "running",
                                ![RunOf(w)].started = TRUE]
          /\ worker' = [worker EXCEPT ![w].phase = "loading"]
          /\ UNCHANGED outbox
    /\ UNCHANGED <<project, decisions, broker, artifacts, faults, lockLosses>>

\* Mutant: the newest decision of the run, whatever stage it was made on.
NewestOfAnyStage(r, stage) ==
    {d \in decisions[r] : \A c \in decisions[r] : c.revision <= d.revision}

\* The decision on a stage that ORDER BY revision DESC finds first.
Newest(r, stage) ==
    {d \in decisions[r] : /\ d.stage = stage
                          /\ \A c \in decisions[r] :
                                c.stage = stage => c.revision <= d.revision}

\* get_state, and the decision it is resumed with when it stopped at a gate.
Load(w) ==
    LET saved == checkpoint[RunOf(w)]
        Resume(phase) ==
            worker' = [worker EXCEPT ![w].phase = phase, ![w].pos = saved.pos]
        decision == Newest(RunOf(w), saved.pos)
    IN  /\ At(w, "loading")
        /\ \/ ~saved.interrupted /\ Resume("node")
           \/ saved.interrupted /\ decision = {} /\ Resume("returned")
           \/ /\ saved.interrupted
              /\ \E d \in decision :
                    Resume(IF d.verdict = "approve" THEN "approving"
                                                    ELSE "rejecting")
        /\ UNCHANGED <<database, broker, artifacts, faults, lockLosses>>

-----------------------------------------------------------------------------
(* graph.invoke: one superstep per node, each followed by a checkpoint.     *)

Advance(w, next) ==
    /\ worker' = [worker EXCEPT ![w].phase = "node", ![w].pos = next]
    /\ checkpoint' = [checkpoint EXCEPT ![RunOf(w)] =
                        [pos |-> next, interrupted |-> FALSE]]

\* Mutant: the graph goes on after a rejection.
PassGateRegardless(w) ==
    /\ At(w, "approving") \/ At(w, "rejecting")
    /\ Advance(w, worker[w].pos + 1)
    /\ UNCHANGED <<database, broker, published, outputs, faults, lockLosses>>

\* A gate resumed: it makes no check of the run's status.
PassGate(w) ==
    /\ \/ At(w, "approving") /\ Advance(w, worker[w].pos + 1)
       \/ At(w, "rejecting") /\ Advance(w, Rejected)
    /\ UNCHANGED <<database, broker, published, outputs, faults, lockLosses>>

\* A gate reached: interrupt() stops the invocation.
HitGate(w) ==
    /\ At(w, "node")
    /\ worker[w].pos \in Gates
    /\ checkpoint' = [checkpoint EXCEPT ![RunOf(w)] =
                        [pos |-> worker[w].pos, interrupted |-> TRUE]]
    /\ worker' = [worker EXCEPT ![w].phase = "returned"]
    /\ UNCHANGED <<database, broker, published, outputs, faults, lockLosses>>

\* durable(), first transaction: check_run refuses a run that is not running.
EnterNode(w) ==
    /\ At(w, "node")
    /\ worker[w].pos \in Nodes
    /\ \/ /\ run[RunOf(w)].status = "running"
          /\ worker' = [worker EXCEPT
                ![w].phase = IF worker[w].pos = Publish THEN "publishing"
                                                        ELSE "leaving"]
       \/ /\ run[RunOf(w)].status # "running"
          /\ Fail(w)
    /\ UNCHANGED <<database, broker, artifacts, faults, lockLosses>>

\* publish(): an earlier execution may have committed the output already.
LookUpPublished(w) ==
    /\ At(w, "publishing")
    /\ worker' = [worker EXCEPT
            ![w].phase = IF published[RunOf(w)] = {} THEN "committing"
                                                     ELSE "leaving",
            ![w].revision = run[RunOf(w)].revision]
    /\ UNCHANGED <<database, broker, artifacts, faults, lockLosses>>

\* Mutant: no unique constraint on artifact_versions.
CommitOutputUnconstrained(w) ==
    /\ At(w, "committing")
    /\ published' = [published EXCEPT ![RunOf(w)] = @ \cup {worker[w].revision}]
    /\ outputs' = [outputs EXCEPT ![RunOf(w)] = @ + 1]
    /\ worker' = [worker EXCEPT ![w].phase = "leaving"]
    /\ UNCHANGED <<database, broker, checkpoint, faults, lockLosses>>

\* UniqueConstraint(run_id, kind, revision) rolls the second insert back.
CommitOutput(w) ==
    /\ At(w, "committing")
    /\ \/ /\ worker[w].revision \notin published[RunOf(w)]
          /\ published' = [published EXCEPT ![RunOf(w)] =
                                @ \cup {worker[w].revision}]
          /\ outputs' = [outputs EXCEPT ![RunOf(w)] = @ + 1]
          /\ worker' = [worker EXCEPT ![w].phase = "leaving"]
       \/ /\ worker[w].revision \in published[RunOf(w)]
          /\ Fail(w)
          /\ UNCHANGED <<published, outputs>>
    /\ UNCHANGED <<database, broker, checkpoint, faults, lockLosses>>

\* durable(), closing transaction, and the checkpoint after the node.
LeaveNode(w) ==
    /\ At(w, "leaving")
    /\ \/ /\ run[RunOf(w)].status = "running"
          /\ Advance(w, worker[w].pos + 1)
       \/ /\ run[RunOf(w)].status # "running"
          /\ Fail(w)
          /\ UNCHANGED checkpoint
    /\ UNCHANGED <<database, broker, published, outputs, faults, lockLosses>>

ReachEnd(w) ==
    /\ At(w, "node")
    /\ worker[w].pos \in {Ended, Rejected}
    /\ worker' = [worker EXCEPT ![w].phase = "returned"]
    /\ UNCHANGED <<database, broker, artifacts, faults, lockLosses>>

\* The second get_state reads the thread's checkpoint, whoever wrote it.
ReadOutcome(w) ==
    /\ At(w, "returned")
    /\ worker' = [worker EXCEPT
            ![w].phase = "finishing",
            ![w].pos = checkpoint[RunOf(w)].pos,
            ![w].interrupted = checkpoint[RunOf(w)].interrupted]
    /\ UNCHANGED <<database, broker, artifacts, faults, lockLosses>>

SetOutcome(w, status) ==
    /\ run' = [run EXCEPT
            ![RunOf(w)].status = status,
            ![RunOf(w)].started = FALSE,
            ![RunOf(w)].pending =
                IF worker[w].interrupted THEN worker[w].pos ELSE NoStage,
            ![RunOf(w)].revision =
                IF worker[w].interrupted THEN @ + 1 ELSE @]
    /\ project' = [project EXCEPT ![ProjectOf[RunOf(w)]] =
                        IF status = "completed" THEN "done" ELSE "to_review"]
    /\ CloseEvent(w, "done")
    /\ Stop(w)

\* Mutant: a run cancelled while its worker executed is not looked for.
FinishRegardless(w) ==
    /\ At(w, "finishing")
    /\ \/ /\ ~run[RunOf(w)].started
          /\ Fail(w)
          /\ UNCHANGED <<project, run, outbox>>
       \/ /\ run[RunOf(w)].started
          /\ SetOutcome(w, IF worker[w].interrupted THEN "waiting_review"
                           ELSE IF worker[w].pos = Ended THEN "completed"
                           ELSE "cancelled")
    /\ UNCHANGED <<decisions, broker, artifacts, faults, lockLosses>>

\* Mutant: a graph that is not interrupted is taken for a completed one.
FinishCompletes(w) ==
    /\ At(w, "finishing")
    /\ run[RunOf(w)].status # "cancelled"
    /\ run[RunOf(w)].started
    /\ SetOutcome(w, IF worker[w].interrupted THEN "waiting_review"
                                              ELSE "completed")
    /\ UNCHANGED <<decisions, broker, artifacts, faults, lockLosses>>

\* The final transaction, and the release of the lock when it returns.
Finish(w) ==
    /\ At(w, "finishing")
    /\ \/ /\ run[RunOf(w)].status = "cancelled"
          /\ CloseEvent(w, "done")
          /\ Stop(w)
          /\ UNCHANGED <<project, run>>
       \/ /\ run[RunOf(w)].status # "cancelled"
          /\ ~run[RunOf(w)].started       \* now() - None: TypeError, rollback
          /\ Fail(w)
          /\ UNCHANGED <<project, run, outbox>>
       \/ /\ run[RunOf(w)].status # "cancelled"
          /\ run[RunOf(w)].started
          /\ SetOutcome(w, IF worker[w].interrupted THEN "waiting_review"
                           ELSE IF worker[w].pos = Ended THEN "completed"
                           ELSE "cancelled")
    /\ UNCHANGED <<decisions, broker, artifacts, faults, lockLosses>>

-----------------------------------------------------------------------------
(* Failures of an execution.                                                *)

\* Any exception: a request, a budget, a store, a database connection.
\* Unwinding closes the lock's connection before Celery calls on_failure.
Raise(w) ==
    /\ worker[w].phase \notin {"idle", "failing"}
    /\ Fail(w)
    /\ UNCHANGED <<database, broker, artifacts, faults, lockLosses>>

\* Mutant: the project is not told of the failure.
OnFailureKeepsProject(w) ==
    /\ At(w, "failing")
    /\ run' = [run EXCEPT
            ![RunOf(w)].status = IF @ = "cancelled" THEN @ ELSE "failed",
            ![RunOf(w)].started = FALSE]
    /\ CloseEvent(w, "failed")
    /\ Stop(w)
    /\ UNCHANGED <<project, decisions, broker, artifacts, faults, lockLosses>>

\* ResearchTask.on_failure, which looks at nothing but "cancelled".
OnFailure(w) ==
    /\ At(w, "failing")
    /\ run' = [run EXCEPT
            ![RunOf(w)].status = IF @ = "cancelled" THEN @ ELSE "failed",
            ![RunOf(w)].started = FALSE]
    /\ project' = [project EXCEPT ![ProjectOf[RunOf(w)]] = "to_review"]
    /\ CloseEvent(w, "failed")
    /\ Stop(w)
    /\ UNCHANGED <<decisions, broker, artifacts, faults, lockLosses>>

\* The worker process dies, or hits the hard time limit, or on_failure's own
\* transaction fails.  A lost worker's delivery is requeued (acks_late,
\* reject_on_worker_lost); one ended by the time limit is acknowledged.
Crash(w) ==
    /\ faults < MaxFaults
    /\ ~At(w, "idle")
    /\ broker' \in {broker, broker \cup {worker[w].event}}
    /\ Stop(w)
    /\ faults' = faults + 1
    /\ UNCHANGED <<database, artifacts, lockLosses>>

\* The connection that holds the advisory lock dies; execute() never looks.
LoseLock(w) ==
    /\ lockLosses < MaxLockLosses
    /\ worker[w].holds
    /\ worker' = [worker EXCEPT ![w].holds = FALSE]
    /\ lockLosses' = lockLosses + 1
    /\ UNCHANGED <<database, broker, artifacts, faults>>

-----------------------------------------------------------------------------

Command ==
    \E r \in Runs :
        \/ CancelRun(r)
        \/ \E e \in Events : \/ StartRun(r, e)
                             \/ RetryRun(r, e)
                             \/ \E v \in Verdicts : ReviewRun(r, e, v)

Deliver ==
    \/ \E batch \in SUBSET Events : Dispatch(batch) \/ DispatchAborted(batch)
    \/ \E e \in Events : LoseMessage(e)

\* What a worker does by itself once it has a delivery.
Work(w) ==
    \/ TryLock(w)  \/ Begin(w)  \/ Load(w)  \/ PassGate(w)  \/ HitGate(w)
    \/ EnterNode(w)  \/ LookUpPublished(w)  \/ CommitOutput(w)
    \/ LeaveNode(w)  \/ ReachEnd(w)  \/ ReadOutcome(w)  \/ Finish(w)
    \/ OnFailure(w)

Next ==
    \/ Command
    \/ Deliver
    \/ \E w \in Workers :
        \/ \E e \in Events : Receive(w, e) \/ DropTerminal(w, e)
        \/ Work(w)
        \/ Raise(w)
        \/ Crash(w)
        \/ LoseLock(w)

Spec == Init /\ [][Next]_vars

-----------------------------------------------------------------------------
(* Fairness: beat dispatches every five seconds, Redis hands deliveries out *)
(* in order, and a worker runs what it has begun.  Humans owe nothing, and  *)
(* exceptions and faults are never owed.                                    *)

Fairness ==
    /\ WF_vars(Dispatch(Eligible))
    /\ \A e \in Events : SF_vars(\E w \in Workers : Receive(w, e))
    /\ \A w \in Workers : WF_vars(Work(w))

FairSpec == Spec /\ Fairness

-----------------------------------------------------------------------------
(* Properties.                                                              *)

\* A project never has two runs that are queued, running or waiting for
\* review, whatever stale workers write: the partial unique index
\* uq_active_project_run never has to refuse a worker's transaction.
OneActiveRun ==
    \A r, s \in Runs :
        /\ ProjectOf[r] = ProjectOf[s]
        /\ run[r].status \in ActiveStates
        /\ run[s].status \in ActiveStates
        => r = s

\* started_at is set only on a running run, or on one cancelled while it ran:
\* what makes the final transaction of a superseded worker fail.
StartedOnlyWhileRunning ==
    \A r \in Runs : run[r].started => run[r].status \in {"running", "cancelled"}

\* A run that claims to be queued or running has an outbox event that will
\* still bring a worker to it: no order of failures, retries, duplicates and
\* crashes leaves it waiting for nobody.
LiveRunHasEvent ==
    \A r \in Runs :
        run[r].status \in {"queued", "running"} =>
            \E e \in Events : /\ outbox[e].run = r
                              /\ outbox[e].status \in {"pending", "sent"}

\* Nothing is published before a human has approved the brief, the outline
\* and the draft, and nothing of a run with a rejection among its decisions, as
\* long as locks last: an execution that has lost its lock may have the draft
\* reviewed again while it is being published.
PublishedOnlyIfApproved ==
    lockLosses = 0 =>
        \A r \in Runs :
            outputs[r] > 0 =>
                /\ \A g \in Gates : \E d \in decisions[r] : d.stage = g
                /\ \A d \in decisions[r] : d.verdict = "approve"

\* A run creates one output, however often publish() is executed again, and also
\* when two workers execute it at once because one has lost its lock.  (With two
\* locks lost two of them may publish under different revisions.)
OneOutput == lockLosses <= 1 => \A r \in Runs : outputs[r] <= 1

\* A completed run has its output; a run with one may still be failed or
\* cancelled, never the reverse.  One lost lock does not change that.
CompletedHasOutput ==
    lockLosses <= 1 =>
        \A r \in Runs : run[r].status = "completed" => outputs[r] = 1

\* The review a human is asked for is the gate the graph is stopped at, and
\* that gate has not been decided before, as long as locks last: two workers
\* on one run write its checkpoint in turns.
ReviewIsOfOpenGate ==
    lockLosses = 0 =>
        \A r \in Runs :
            run[r].status = "waiting_review" =>
                /\ checkpoint[r] = [pos |-> run[r].pending, interrupted |-> TRUE]
                /\ \A d \in decisions[r] : d.stage # run[r].pending

\* A research project shown as done has a completed run and no active one.
DoneProjectIsSettled ==
    \A p \in Projects :
        project[p] = "done" =>
            /\ ~HasActiveRun(p)
            /\ \E r \in Runs : ProjectOf[r] = p /\ run[r].status = "completed"

\* A cancelled run stays as it was cancelled: no worker that was executing
\* it revives, completes or fails it.
CancelledIsFinal ==
    [][\A r \in Runs : run[r].status = "cancelled" =>
                            run'[r].status = "cancelled"]_run

\* README: the outbox and the session lock prevent repeated execution.  When
\* an execution had begun (its first transaction set started_at) and has raised,
\* no other worker begins to execute its event before on_failure closes it.
NoRepeatedExecution ==
    [][\A v, w \in Workers :
        /\ At(v, "failing")
        /\ worker[v].event = worker[w].event
        /\ run[RunOf(v)].started
        /\ At(w, "locked")
        => worker'[w].phase # "loading"]_<<run, worker>>

\* Every event written to the outbox is eventually done or failed.
EventSettles ==
    \A e \in Events :
        outbox[e].status = "pending" ~> outbox[e].status \in TerminalEvent

\* A queued or running run eventually waits for a human or stops.
RunSettles ==
    \A r \in Runs :
        run[r].status \in {"queued", "running"} ~>
            run[r].status \notin {"queued", "running"}

\* Seen from the review_decisions and outputs tables, every step is one the
\* review contract allows.
Contract == INSTANCE ReviewContract WITH
    Stages <- Gates,
    verdicts <- [r \in Runs |-> [g \in Gates |->
                    {d.verdict : d \in {c \in decisions[r] : c.stage = g}}]]

KeepsReviewContract == Contract!Spec

=============================================================================
