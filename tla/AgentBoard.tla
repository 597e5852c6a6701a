------------------------------- MODULE AgentBoard -------------------------------
(***************************************************************************)
(* The agent board: orchestrator/scheduler.py ticks the agents, each of     *)
(* which takes its Todo tasks one by one (agents/base.py); prism            *)
(* (agents/prism.py) decomposes a project into tasks with dependencies,     *)
(* reviews it when they are done, supplements it once and completes it;     *)
(* diffraction (agents/diffraction.py) writes the outputs that a person     *)
(* approves.  Everything runs in one asyncio loop; every await of a         *)
(* database or model call is a point at which other agents go on.           *)
(*                                                                          *)
(* One project; what focus and dispersion collect, and which task of one    *)
(* list an agent takes first, is left open.  review_needed of a task is     *)
(* retry >= MaxRetries and has no variable.                                 *)
(***************************************************************************)
EXTENDS Naturals, Sequences, FiniteSets

CONSTANTS
    Agents,       \* the agents the scheduler has, "prism" among them
    Plans,        \* task chains a model may answer with
    MaxRetries,   \* MAX_RETRIES
    MaxTasks,     \* bound: tasks ever created
    MaxFailures,  \* bound: exceptions of process_task()
    MaxFaults     \* bound: other exceptions, and crashes of the process

Tasks == 1 .. MaxTasks

\* An entry of a chain: who does it, and the places in the chain it needs.
Templates == [agent : Agents, needs : SUBSET Tasks]

\* The chain of _create_supplement_tasks() and _default_task_chain().
StandardChain ==
    << [agent |-> "focus", needs |-> {}],
       [agent |-> "dispersion", needs |-> {1}],
       [agent |-> "diffraction", needs |-> {2}] >>

ASSUME BoardConstants ==
    /\ {"prism", "focus", "dispersion", "diffraction"} \subseteq Agents
    /\ Plans \subseteq Seq(Templates)
    /\ MaxTasks \in Nat
    /\ MaxTasks >= 2
    /\ MaxRetries \in Nat \ {0}
    /\ MaxFailures \in Nat
    /\ MaxFaults \in Nat

VARIABLES
    project,   \* research_projects: status, review_round, has a brief
    task,      \* agent_tasks
    outputs,   \* outputs: numbers to approve and approved, a synthesis among them
    loop,      \* where the scheduler's loop is
    tick,      \* where the tick of each agent is, and what it has read
    prism,     \* locals of prism's tick
    failures, faults

board == <<project, task, outputs>>
bounds == <<failures, faults>>
vars == <<board, loop, tick, prism, bounds>>

TaskStatus == {"none", "Todo", "Doing", "Waiting", "Done", "Failed"}
Kinds == {"plan", "supplement", "gap", "synthesis"}
TaskRows ==
    [status : TaskStatus, agent : Agents, depends : SUBSET Tasks,
     retry : Nat, kind : Kinds]

\* A row as tick() has read it.
Entries == [id : 0 .. MaxTasks, retry : Nat]
NoEntry == [id |-> 0, retry |-> 0]

BaseSteps == {"list", "next", "work", "gap", "finish"}
PrismSteps ==
    {"projects", "brief", "decompose", "create", "start",
     "progress", "approved", "tasks", "review", "supplement", "round",
     "passed", "outputs", "synthesis", "toReview", "complete"}

TypeOK ==
    /\ project \in [status : {"new", "active", "review", "complete"},
                    round : Nat, brief : BOOLEAN]
    /\ task \in [Tasks -> TaskRows]
    /\ outputs \in [pending : Nat, approved : Nat, synthesis : BOOLEAN]
    /\ loop \in {"asleep", "retry", "agents"}
    /\ tick \in [Agents -> [step : {"idle"} \cup BaseSteps \cup PrismSteps,
                            queue : SUBSET Entries, current : Entries]]
    /\ prism \in [todo : Seq(Templates), made : Seq(Tasks)]
    /\ failures \in 0 .. MaxFailures
    /\ faults \in 0 .. MaxFaults

NoChain == [todo |-> <<>>, made |-> <<>>]
Idle == [step |-> "idle", queue |-> {}, current |-> NoEntry]
NoTask ==
    [status |-> "none", agent |-> "prism", depends |-> {}, retry |-> 0,
     kind |-> "plan"]

Init ==
    /\ project = [status |-> "new", round |-> 0, brief |-> FALSE]
    /\ task = [t \in Tasks |-> NoTask]
    /\ outputs = [pending |-> 0, approved |-> 0, synthesis |-> FALSE]
    /\ loop = "asleep"
    /\ tick = [a \in Agents |-> Idle]
    /\ prism = NoChain
    /\ failures = 0
    /\ faults = 0

At(a, step) == tick[a].step = step
Goes(a, step) == tick' = [tick EXCEPT ![a].step = step]
Board == {t \in Tasks : task[t].status # "none"}
Status(t) == task[t].status

-----------------------------------------------------------------------------
(* scheduler.py                                                             *)

DependenciesDone(t) == \A d \in task[t].depends : Status(d) = "Done"

\* Mutants: a dependency that failed counts as ended; a task is unlocked
\* whatever its status is.
UnlockableAfterFailure ==
    {t \in Tasks : /\ Status(t) = "Waiting"
                   /\ task[t].depends # {}
                   /\ \A d \in task[t].depends : Status(d) \in {"Done", "Failed"}}

UnlockableAgain ==
    {t \in Tasks : task[t].depends # {} /\ DependenciesDone(t)}

\* resolve_dependencies(), one transaction.
Unlockable ==
    {t \in Tasks : /\ Status(t) = "Waiting"
                   /\ task[t].depends # {}
                   /\ DependenciesDone(t)}

Resolve ==
    /\ loop = "asleep"
    /\ loop' = "retry"
    /\ task' = [t \in Tasks |-> IF t \in Unlockable
                                THEN [task[t] EXCEPT !.status = "Todo"]
                                ELSE task[t]]
    /\ UNCHANGED <<project, outputs, tick, prism, bounds>>

\* _retry_failed_tasks() passes over tasks with dependencies.
Retryable == {t \in Tasks : Status(t) = "Waiting" /\ task[t].depends = {}}

AfterRetry(t) == IF task[t].retry >= MaxRetries THEN "Failed" ELSE "Todo"

Retry ==
    /\ loop = "retry"
    /\ \E t \in Retryable : task' = [task EXCEPT ![t].status = AfterRetry(t)]
    /\ UNCHANGED <<project, outputs, loop, tick, prism, bounds>>

StartAgents ==
    /\ loop = "retry"
    /\ Retryable = {}
    /\ loop' = "agents"
    /\ tick' = [a \in Agents |->
                  [Idle EXCEPT !.step = IF a = "prism" THEN "projects"
                                                       ELSE "list"]]
    /\ UNCHANGED <<board, prism, bounds>>

\* gather() returns when every agent has.
TickEnds ==
    /\ loop = "agents"
    /\ \A a \in Agents : At(a, "idle")
    /\ loop' = "asleep"
    /\ UNCHANGED <<board, tick, prism, bounds>>

-----------------------------------------------------------------------------
(* base.py: tick()                                                          *)

\* The agent goes on with its list, or its tick returns.
GoesOn(queue) ==
    IF queue = {} THEN Idle
    ELSE [step |-> "next", queue |-> queue, current |-> NoEntry]

\* list_tasks_for_agent()
List(a) ==
    /\ At(a, "list")
    /\ tick' = [tick EXCEPT ![a] =
          GoesOn({[id |-> t, retry |-> task[t].retry] :
                    t \in {u \in Tasks : Status(u) = "Todo" /\ task[u].agent = a}})]
    /\ UNCHANGED <<board, loop, prism, bounds>>

Take(a) ==
    /\ At(a, "next")
    /\ \E e \in tick[a].queue :
          /\ task' = [task EXCEPT ![e.id].status = "Doing"]
          /\ tick' = [tick EXCEPT ![a].step = "work",
                                  ![a].queue = @ \ {e},
                                  ![a].current = e]
    /\ UNCHANGED <<project, outputs, loop, prism, bounds>>

\* process_task() returns without an output: what focus, dispersion and
\* prism do for a task, or diffraction when there is nothing to write from.
Work(a) ==
    /\ At(a, "work")
    /\ Goes(a, "finish")
    /\ UNCHANGED <<board, loop, prism, bounds>>

\* Diffraction stores an output.  Its title comes from the model, so that it
\* passes for a synthesis or not; it may report gaps.
WriteOutput(a) ==
    /\ At(a, "work")
    /\ a = "diffraction"
    /\ \E synthesis \in BOOLEAN :
          outputs' = [outputs EXCEPT !.pending = @ + 1,
                                     !.synthesis = @ \/ synthesis]
    /\ \E next \in {"gap", "finish"} :
          /\ next = "gap" => task[tick[a].current.id].kind # "synthesis"
          /\ Goes(a, next)
    /\ UNCHANGED <<project, task, loop, prism, bounds>>

NewTask(agent, depends, kind) ==
    [status |-> IF depends = {} THEN "Todo" ELSE "Waiting",
     agent |-> agent, depends |-> depends, retry |-> 0, kind |-> kind]

\* t is the row that a new task gets.
IsNext(t) == t \notin Board /\ \A u \in Tasks : u < t => u \in Board

\* Another collection for the gaps of an output.
FillGap(a) ==
    /\ At(a, "gap")
    /\ \E t \in Tasks :
          /\ IsNext(t)
          /\ task' = [task EXCEPT ![t] = NewTask("focus", {}, "gap")]
    /\ Goes(a, "finish")
    /\ UNCHANGED <<project, outputs, loop, prism, bounds>>

Finish(a) ==
    /\ At(a, "finish")
    /\ task' = [task EXCEPT ![tick[a].current.id].status = "Done"]
    /\ tick' = [tick EXCEPT ![a] = GoesOn(@.queue)]
    /\ UNCHANGED <<project, outputs, loop, prism, bounds>>

\* Mutant: the exception leaves the loop, and the task as it was.
FailTaskUnhandled(a) ==
    /\ tick[a].step \in {"work", "gap", "finish"}
    /\ failures < MaxFailures
    /\ failures' = failures + 1
    /\ tick' = [tick EXCEPT ![a] = Idle]
    /\ UNCHANGED <<board, loop, prism, faults>>

\* An exception while a task is processed; retry_count as the tick read it.
FailTask(a) ==
    /\ tick[a].step \in {"work", "gap", "finish"}
    /\ failures < MaxFailures
    /\ failures' = failures + 1
    /\ task' = [task EXCEPT ![tick[a].current.id].status = "Waiting",
                            ![tick[a].current.id].retry =
                                tick[a].current.retry + 1]
    /\ tick' = [tick EXCEPT ![a] = GoesOn(@.queue)]
    /\ UNCHANGED <<project, outputs, loop, prism, faults>>

-----------------------------------------------------------------------------
(* prism.py: check_for_new_projects()                                       *)

PrismGoes(step) ==
    /\ Goes("prism", step)
    /\ UNCHANGED <<board, loop, prism, bounds>>

ListNewProjects ==
    /\ At("prism", "projects")
    /\ PrismGoes(IF project.status = "new" THEN "brief" ELSE "progress")

\* A brief that cannot be parsed leaves an earlier one in place.
WriteBrief ==
    /\ At("prism", "brief")
    /\ \E written \in BOOLEAN :
          project' = [project EXCEPT !.brief = @ \/ written]
    /\ Goes("prism", "decompose")
    /\ UNCHANGED <<task, outputs, loop, prism, bounds>>

\* The model's chain; an empty one leaves the project new.
Decompose ==
    /\ At("prism", "decompose")
    /\ \E chain \in Plans :
          /\ prism' = [todo |-> chain, made |-> <<>>]
          /\ Goes("prism", IF chain = <<>> THEN "progress" ELSE "create")
    /\ UNCHANGED <<board, loop, bounds>>

\* Places that are not before the task itself are ignored.
Depends(template) ==
    {prism.made[i] : i \in template.needs \cap DOMAIN prism.made}

\* The next task of a chain gets its row.
CreateNext(kind) ==
    /\ prism.todo # <<>>
    /\ \E t \in Tasks :
          /\ IsNext(t)
          /\ task' = [task EXCEPT ![t] =
                NewTask(Head(prism.todo).agent, Depends(Head(prism.todo)), kind)]
          /\ prism' = [todo |-> Tail(prism.todo), made |-> Append(prism.made, t)]
    /\ UNCHANGED <<project, outputs, loop, tick, bounds>>

CreateTask == At("prism", "create") /\ CreateNext("plan")

ChainCreated ==
    /\ prism.todo = <<>>
    /\ prism' = NoChain
    /\ \/ At("prism", "create") /\ Goes("prism", "start")
       \/ At("prism", "supplement") /\ Goes("prism", "round")
    /\ UNCHANGED <<board, loop, bounds>>

\* update_project() sets some fields, then prism goes on.
Update(at, values, next) ==
    /\ At("prism", at)
    /\ project' = values
    /\ Goes("prism", next)
    /\ UNCHANGED <<task, outputs, loop, prism, bounds>>

StartProject ==
    Update("start", [project EXCEPT !.status = "active"], "progress")

-----------------------------------------------------------------------------
(* prism.py: check_pipeline_progress()                                      *)

ListProjects ==
    /\ At("prism", "progress")
    /\ PrismGoes(CASE project.status = "active" -> "tasks"
                   [] project.status = "review" -> "approved"
                   [] OTHER -> "list")

\* A project under review is complete when every output is approved.
LookAtReview ==
    /\ At("prism", "approved")
    /\ PrismGoes(IF outputs.pending = 0 THEN "complete" ELSE "list")

\* Mutant: only the tasks that can be worked on now are looked at.
NothingToDo ==
    Board # {} /\ \A t \in Board : Status(t) \notin {"Todo", "Doing"}

AllDone == Board # {} /\ \A t \in Board : Status(t) = "Done"

LookAtTasks ==
    /\ At("prism", "tasks")
    /\ PrismGoes(IF ~AllDone THEN "list"
                 ELSE IF project.brief /\ project.round < 1 THEN "review"
                 ELSE "outputs")

\* The model finds gaps, passes the project, or answers something else.
Review ==
    /\ At("prism", "review")
    /\ \/ /\ prism' = [todo |-> StandardChain, made |-> <<>>]
          /\ Goes("prism", "supplement")
       \/ /\ \E next \in {"passed", "outputs"} : Goes("prism", next)
          /\ UNCHANGED prism
    /\ UNCHANGED <<board, loop, bounds>>

CreateSupplement == At("prism", "supplement") /\ CreateNext("supplement")

\* Mutant: the round is not recorded.
ReviewedOnly == project

Reviewed == [project EXCEPT !.round = 1]

RecordRound ==
    \/ Update("round", Reviewed, "list")
    \/ Update("passed", Reviewed, "outputs")

LookAtOutputs ==
    /\ At("prism", "outputs")
    /\ PrismGoes(IF outputs.pending + outputs.approved > 1 /\ ~outputs.synthesis
                 THEN "synthesis"
                 ELSE IF outputs.pending > 0 THEN "toReview" ELSE "complete")

CreateSynthesis ==
    /\ At("prism", "synthesis")
    /\ \E t \in Tasks :
          /\ IsNext(t)
          /\ task' = [task EXCEPT ![t] =
                         NewTask("diffraction", {}, "synthesis")]
    /\ Goes("prism", "list")
    /\ UNCHANGED <<project, outputs, loop, prism, bounds>>

EndProject ==
    \/ Update("toReview", [project EXCEPT !.status = "review"], "list")
    \/ Update("complete", [project EXCEPT !.status = "complete"], "list")

-----------------------------------------------------------------------------
(* The surroundings.                                                        *)

\* A person approves an output.
Approve ==
    /\ outputs.pending > 0
    /\ outputs' = [outputs EXCEPT !.pending = @ - 1, !.approved = @ + 1]
    /\ UNCHANGED <<project, task, loop, tick, prism, bounds>>

Fault ==
    /\ faults < MaxFaults
    /\ faults' = faults + 1
    /\ UNCHANGED <<board, failures>>

\* An exception that tick() does not catch, run_agent() does: of a model call
\* of prism, or of the database.
AbortTick(a) ==
    /\ ~At(a, "idle")
    /\ Fault
    /\ tick' = [tick EXCEPT ![a] = Idle]
    /\ prism' = IF a = "prism" THEN NoChain ELSE prism
    /\ UNCHANGED loop

\* The loop survives an exception of its own database calls.
AbortLoop ==
    /\ loop = "retry"
    /\ Fault
    /\ loop' = "asleep"
    /\ UNCHANGED <<tick, prism>>

\* The process dies and is started again.
Crash ==
    /\ Fault
    /\ loop' = "asleep"
    /\ tick' = [a \in Agents |-> Idle]
    /\ prism' = NoChain

-----------------------------------------------------------------------------

Scheduling == Resolve \/ Retry \/ StartAgents \/ TickEnds

Ticking(a) ==
    \/ List(a) \/ Take(a)
    \/ Work(a) \/ WriteOutput(a) \/ FillGap(a)
    \/ Finish(a) \/ FailTask(a)

Decomposing ==
    \/ ListNewProjects \/ WriteBrief \/ Decompose \/ CreateTask
    \/ ChainCreated \/ StartProject

Progressing ==
    \/ ListProjects \/ LookAtReview \/ LookAtTasks \/ Review
    \/ CreateSupplement \/ RecordRound \/ LookAtOutputs \/ CreateSynthesis
    \/ EndProject

Surroundings ==
    \/ Approve
    \/ \E a \in Agents : AbortTick(a)
    \/ AbortLoop
    \/ Crash

Next ==
    \/ Scheduling
    \/ \E a \in Agents : Ticking(a)
    \/ Decomposing
    \/ Progressing
    \/ Surroundings

Spec == Init /\ [][Next]_vars

-----------------------------------------------------------------------------
(* Properties.                                                              *)

\* A task is offered, processed or done only when everything it depends on is
\* done, and stays so whatever fails afterwards.
DependenciesFirst ==
    \A t \in Board : Status(t) \in {"Todo", "Doing", "Done"} => DependenciesDone(t)

\* Nothing that is done is done again: no list that was read before makes a
\* tick take a task twice.
DoneIsFinal ==
    [][\A t \in Tasks : Status(t) = "Done" => task'[t] = task[t]]_vars

\* A project under review or complete has only tasks that are done, and a
\* complete one no output that nobody has approved.
EndedIsSettled ==
    /\ project.status \in {"review", "complete"} =>
          \A t \in Board : Status(t) = "Done"
    /\ project.status = "complete" => outputs.pending = 0

\* As long as no tick is aborted, a project is supplemented at most once.
Supplements == {t \in Board : task[t].kind = "supplement"}
SupplementedOnce ==
    faults = 0 => Cardinality(Supplements) <= Len(StandardChain)

\* As long as no tick is aborted, a task is Doing only while its agent is at
\* it, so that no task is left behind.
NoTaskLeftBehind ==
    faults = 0 =>
        \A t \in Board : Status(t) = "Doing" =>
            /\ tick[task[t].agent].current.id = t
            /\ tick[task[t].agent].step \in {"work", "gap", "finish"}

\* A task without dependencies is tried no more than MaxRetries times.
FirstTasksGiveUp ==
    \A t \in Board : task[t].depends = {} => task[t].retry <= MaxRetries

\* What the scheduler says of its retries: a task that has exhausted them is
\* not tried again.
RetriesEnd == \A t \in Board : task[t].retry <= MaxRetries
=============================================================================
