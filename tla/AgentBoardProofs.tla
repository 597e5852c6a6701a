---------------------------- MODULE AgentBoardProofs ----------------------------
(***************************************************************************)
(* Theorems about AgentBoard, for all agents beyond the four, all chains    *)
(* and all bounds.                                                          *)
(***************************************************************************)
EXTENDS AgentBoard, SequenceTheorems, FiniteSetTheorems, TLAPS

-----------------------------------------------------------------------------
(* Types.                                                                   *)

Steps == {"idle"} \cup BaseSteps \cup PrismSteps
Ticks == [step : Steps, queue : SUBSET Entries, current : Entries]

\* The chain of a supplement is a chain.
LEMMA StandardTyped == StandardChain \in Seq(Templates)
<1>1. /\ [agent |-> "focus", needs |-> {}] \in Templates
      /\ [agent |-> "dispersion", needs |-> {1}] \in Templates
      /\ [agent |-> "diffraction", needs |-> {2}] \in Templates
  BY BoardConstants DEF Templates, Tasks
<1> QED
  BY <1>1 DEF StandardChain

\* A new row is well typed.
LEMMA NewTaskTyped ==
  ASSUME NEW agent \in Agents, NEW depends \in SUBSET Tasks, NEW kind \in Kinds
  PROVE  NewTask(agent, depends, kind) \in TaskRows
  BY DEF NewTask, TaskRows, TaskStatus

\* A row with another status is well typed, and so is a board with it.
LEMMA StatusTyped ==
  ASSUME NEW rows \in [Tasks -> TaskRows], NEW s \in TaskStatus
  PROVE  /\ \A t \in Tasks : [rows[t] EXCEPT !.status = s] \in TaskRows
         /\ \A i : [rows EXCEPT ![i].status = s] \in [Tasks -> TaskRows]
<1>1. \A t \in Tasks : [rows[t] EXCEPT !.status = s] \in TaskRows
  BY DEF TaskRows
<1> QED
  BY <1>1

\* An agent that goes on is well typed.
LEMMA GoesOnTyped ==
  ASSUME NEW queue \in SUBSET Entries
  PROVE  GoesOn(queue) \in Ticks
  BY BoardConstants
  DEF GoesOn, Idle, NoEntry, Ticks, Steps, BaseSteps, Entries

\* A tick that goes to a step of its own is well typed.
LEMMA GoesTyped ==
  ASSUME tick \in [Agents -> Ticks], NEW a \in Agents, NEW step \in Steps,
         Goes(a, step)
  PROVE  tick' \in [Agents -> Ticks]
  BY DEF Goes, Ticks

\* The unwritten board is well typed.
LEMMA InitTyped == Init => TypeOK
<1>1. NoTask \in TaskRows
  BY BoardConstants DEF NoTask, TaskRows, TaskStatus, Kinds
<1>2. Idle \in Ticks
  BY BoardConstants DEF Idle, NoEntry, Ticks, Steps, Entries
<1>3. NoChain \in [todo : Seq(Templates), made : Seq(Tasks)]
  BY DEF NoChain
<1> QED
  BY <1>1, <1>2, <1>3, BoardConstants DEF Init, TypeOK, Ticks, Steps

\* What the scheduler does is well typed.
LEMMA SchedulingTyped ==
  ASSUME TypeOK, Scheduling
  PROVE  TypeOK'
<1>1. CASE Resolve
  <2>1. task' \in [Tasks -> TaskRows]
    <3>1. task \in [Tasks -> TaskRows] /\ "Todo" \in TaskStatus
      BY DEF TypeOK, TaskStatus
    <3>2. \A t \in Tasks : [task[t] EXCEPT !.status = "Todo"] \in TaskRows
      BY <3>1, StatusTyped
    <3> QED
      BY <1>1, <3>1, <3>2 DEF Resolve
  <2> QED
    BY <1>1, <2>1 DEF Resolve, TypeOK, bounds
<1>2. CASE Retry
  <2>1. task' \in [Tasks -> TaskRows]
    <3>1. task \in [Tasks -> TaskRows] /\ {"Todo", "Failed"} \subseteq TaskStatus
      BY DEF TypeOK, TaskStatus
    <3>2. \A t : AfterRetry(t) \in TaskStatus
      BY <3>1 DEF AfterRetry
    <3>3. PICK t \in Retryable : task' = [task EXCEPT ![t].status = AfterRetry(t)]
      BY <1>2 DEF Retry
    <3>4. [task EXCEPT ![t].status = AfterRetry(t)] \in [Tasks -> TaskRows]
      BY <3>1, <3>2, StatusTyped, Zenon
    <3> QED
      BY <3>3, <3>4
  <2> QED
    BY <1>2, <2>1 DEF Retry, TypeOK, bounds
<1>3. CASE StartAgents
  <2>1. tick' \in [Agents -> Ticks]
    BY <1>3, BoardConstants
    DEF StartAgents, Idle, NoEntry, Ticks, Steps, BaseSteps, PrismSteps, Entries
  <2> QED
    BY <1>3, <2>1 DEF StartAgents, TypeOK, Ticks, Steps, board, bounds
<1>4. CASE TickEnds
  BY <1>4 DEF TickEnds, TypeOK, board, bounds
<1> QED
  BY <1>1, <1>2, <1>3, <1>4 DEF Scheduling

\* What an agent does with its list is well typed.
LEMMA TickingTyped ==
  ASSUME TypeOK, NEW a \in Agents, Ticking(a),
         tick[a].step \in {"work", "gap", "finish"} => tick[a].current.id \in Tasks
  PROVE  TypeOK'
<1>0. tick \in [Agents -> Ticks] /\ task \in [Tasks -> TaskRows]
  BY DEF TypeOK, Ticks, Steps
<1>1. CASE List(a)
  <2>1. {[id |-> t, retry |-> task[t].retry] :
            t \in {u \in Tasks : Status(u) = "Todo" /\ task[u].agent = a}}
        \in SUBSET Entries
    BY <1>0, BoardConstants DEF Entries, TaskRows, Tasks
  <2>2. tick' \in [Agents -> Ticks]
    BY <1>0, <1>1, <2>1, GoesOnTyped DEF List
  <2> QED
    BY <1>1, <2>2 DEF List, TypeOK, Ticks, Steps, board, bounds
<1>2. CASE Take(a)
  <2>1. task' \in [Tasks -> TaskRows]
    <3>1. "Doing" \in TaskStatus
      BY DEF TaskStatus
    <3>2. PICK e \in tick[a].queue : task' = [task EXCEPT ![e.id].status = "Doing"]
      BY <1>2 DEF Take
    <3>3. [task EXCEPT ![e.id].status = "Doing"] \in [Tasks -> TaskRows]
      BY <1>0, <3>1, StatusTyped, Zenon
    <3> QED
      BY <3>2, <3>3
  <2>2. tick' \in [Agents -> Ticks]
    <3>1. PICK e \in tick[a].queue :
             tick' = [tick EXCEPT ![a].step = "work",
                                  ![a].queue = @ \ {e},
                                  ![a].current = e]
      BY <1>2 DEF Take
    <3>2. tick[a] \in Ticks /\ e \in Entries
      BY <1>0 DEF Ticks
    <3>3. [tick[a] EXCEPT !.step = "work", !.queue = @ \ {e}, !.current = e] \in Ticks
      BY <3>2 DEF Ticks, Steps, BaseSteps
    <3> QED
      BY <1>0, <3>1, <3>3
  <2> QED
    BY <1>2, <2>1, <2>2 DEF Take, TypeOK, Ticks, Steps, bounds
<1>3. CASE Work(a)
  BY <1>0, <1>3, GoesTyped
  DEF Work, TypeOK, Ticks, Steps, BaseSteps, board, bounds
<1>4. CASE WriteOutput(a)
  <2>1. tick' \in [Agents -> Ticks]
    BY <1>0, <1>4, GoesTyped DEF WriteOutput, Steps, BaseSteps
  <2>2. outputs' \in [pending : Nat, approved : Nat, synthesis : BOOLEAN]
    <3>1. PICK synthesis \in BOOLEAN :
             outputs' = [outputs EXCEPT !.pending = @ + 1,
                                        !.synthesis = @ \/ synthesis]
      BY <1>4 DEF WriteOutput
    <3>2. (outputs.synthesis \/ synthesis) \in BOOLEAN
      OBVIOUS
    <3>3. /\ outputs \in [pending : Nat, approved : Nat, synthesis : BOOLEAN]
          /\ outputs.pending + 1 \in Nat
      BY DEF TypeOK
    <3> QED
      BY <3>1, <3>2, <3>3
  <2> QED
    BY <1>4, <2>1, <2>2 DEF WriteOutput, TypeOK, Ticks, Steps, bounds
<1>5. CASE FillGap(a)
  <2>1. NewTask("focus", {}, "gap") \in TaskRows
    BY BoardConstants, NewTaskTyped DEF Kinds
  <2>2. task' \in [Tasks -> TaskRows]
    BY <1>0, <1>5, <2>1 DEF FillGap
  <2>3. tick' \in [Agents -> Ticks]
    BY <1>0, <1>5, GoesTyped DEF FillGap, Steps, BaseSteps
  <2> QED
    BY <1>5, <2>2, <2>3 DEF FillGap, TypeOK, Ticks, Steps, bounds
<1>6. CASE Finish(a)
  <2>1. task' \in [Tasks -> TaskRows]
    <3>1. "Done" \in TaskStatus
      BY DEF TaskStatus
    <3> QED
      BY <1>0, <1>6, <3>1, StatusTyped DEF Finish
  <2>2. tick' \in [Agents -> Ticks]
    BY <1>0, <1>6, GoesOnTyped DEF Finish, Ticks
  <2> QED
    BY <1>6, <2>1, <2>2 DEF Finish, TypeOK, Ticks, Steps, bounds
<1>7. CASE FailTask(a)
  <2>1. task' \in [Tasks -> TaskRows]
    <3>1. tick[a].current.id \in Tasks /\ tick[a].current.retry + 1 \in Nat
      BY <1>0, <1>7 DEF FailTask, Ticks, Entries
    <3> QED
      BY <1>0, <1>7, <3>1 DEF FailTask, TaskRows, TaskStatus
  <2>2. tick' \in [Agents -> Ticks]
    BY <1>0, <1>7, GoesOnTyped DEF FailTask, Ticks
  <2> QED
    BY <1>7, <2>1, <2>2, BoardConstants DEF FailTask, TypeOK, Ticks, Steps
<1> QED
  BY <1>1, <1>2, <1>3, <1>4, <1>5, <1>6, <1>7 DEF Ticking

\* The tasks that a template needs are tasks.
LEMMA DependsTyped ==
  ASSUME TypeOK, NEW template \in Templates
  PROVE  Depends(template) \in SUBSET Tasks
  BY DEF Depends, TypeOK, Templates

\* The row of a chain's next task is well typed, and so is what is left.
LEMMA CreateNextTyped ==
  ASSUME TypeOK, NEW kind \in Kinds, CreateNext(kind)
  PROVE  TypeOK'
<1>0. prism.todo \in Seq(Templates) /\ prism.todo # <<>> /\ prism.made \in Seq(Tasks)
  BY DEF TypeOK, CreateNext
<1>1. Head(prism.todo) \in Templates /\ Tail(prism.todo) \in Seq(Templates)
  BY <1>0
<1>2. NewTask(Head(prism.todo).agent, Depends(Head(prism.todo)), kind) \in TaskRows
  BY <1>1, DependsTyped, NewTaskTyped DEF Templates
<1>3. task' \in [Tasks -> TaskRows]
  BY <1>2 DEF CreateNext, TypeOK
<1>4. prism' \in [todo : Seq(Templates), made : Seq(Tasks)]
  BY <1>0, <1>1 DEF CreateNext
<1> QED
  BY <1>3, <1>4 DEF CreateNext, TypeOK, bounds

\* What prism does with the project is well typed.
LEMMA PrismTyped ==
  ASSUME TypeOK, Decomposing \/ Progressing
  PROVE  TypeOK'
<1>0. tick \in [Agents -> Ticks] /\ "prism" \in Agents
  BY BoardConstants DEF TypeOK, Ticks, Steps
<1> DEFINE Projects == [status : {"new", "active", "review", "complete"},
                        round : Nat, brief : BOOLEAN]
<1>A. ASSUME NEW step \in Steps, PrismGoes(step)
      PROVE  TypeOK'
  BY <1>0, <1>A, GoesTyped DEF PrismGoes, TypeOK, Ticks, Steps, board, bounds
<1>B. ASSUME NEW at, NEW values \in Projects, NEW next \in Steps,
             Update(at, values, next)
      PROVE  TypeOK'
  BY <1>0, <1>B, GoesTyped DEF Update, TypeOK, Ticks, Steps, bounds
<1>1. CASE ListNewProjects \/ ListProjects \/ LookAtReview \/ LookAtTasks
           \/ LookAtOutputs
  <2> USE DEF Steps, BaseSteps, PrismSteps
  <2>1. CASE ListNewProjects
    BY <2>1, <1>A DEF ListNewProjects
  <2>2. CASE ListProjects
    BY <2>2, <1>A DEF ListProjects
  <2>3. CASE LookAtReview
    BY <2>3, <1>A DEF LookAtReview
  <2>4. CASE LookAtTasks
    BY <2>4, <1>A DEF LookAtTasks
  <2>5. CASE LookAtOutputs
    BY <2>5, <1>A DEF LookAtOutputs
  <2> QED
    BY <1>1, <2>1, <2>2, <2>3, <2>4, <2>5
<1>2. CASE WriteBrief
  <2>1. tick' \in [Agents -> Ticks]
    BY <1>0, <1>2, GoesTyped DEF WriteBrief, Steps, PrismSteps
  <2>2. project' \in Projects
    BY <1>2 DEF WriteBrief, TypeOK
  <2> QED
    BY <1>2, <2>1, <2>2 DEF WriteBrief, TypeOK, Ticks, Steps, bounds
<1>3. CASE Decompose
  <2>1. tick' \in [Agents -> Ticks]
    BY <1>0, <1>3, GoesTyped DEF Decompose, Steps, PrismSteps
  <2>2. prism' \in [todo : Seq(Templates), made : Seq(Tasks)]
    BY <1>3, BoardConstants DEF Decompose
  <2> QED
    BY <1>3, <2>1, <2>2 DEF Decompose, TypeOK, Ticks, Steps, board, bounds
<1>4. CASE CreateTask \/ CreateSupplement
  <2>1. CASE CreateTask
    BY <2>1, CreateNextTyped DEF CreateTask, Kinds
  <2>2. CASE CreateSupplement
    BY <2>2, CreateNextTyped DEF CreateSupplement, Kinds
  <2> QED
    BY <1>4, <2>1, <2>2
<1>5. CASE ChainCreated
  <2>1. tick' \in [Agents -> Ticks]
    BY <1>0, <1>5, GoesTyped DEF ChainCreated, Steps, PrismSteps
  <2>2. prism' \in [todo : Seq(Templates), made : Seq(Tasks)]
    BY <1>5 DEF ChainCreated, NoChain
  <2> QED
    BY <1>5, <2>1, <2>2 DEF ChainCreated, TypeOK, Ticks, Steps, board, bounds
<1>6. CASE StartProject \/ RecordRound \/ EndProject
  <2>1. /\ [project EXCEPT !.status = "active"] \in Projects
        /\ [project EXCEPT !.status = "review"] \in Projects
        /\ [project EXCEPT !.status = "complete"] \in Projects
        /\ Reviewed \in Projects
    BY DEF TypeOK, Reviewed
  <2>2. {"progress", "list", "outputs"} \subseteq Steps
    BY DEF Steps, BaseSteps, PrismSteps
  <2>3. CASE StartProject
    BY <2>1, <2>2, <2>3, <1>B DEF StartProject
  <2>4. CASE RecordRound
    BY <2>1, <2>2, <2>4, <1>B DEF RecordRound
  <2>5. CASE EndProject
    BY <2>1, <2>2, <2>5, <1>B DEF EndProject
  <2> QED
    BY <1>6, <2>3, <2>4, <2>5
<1>7. CASE Review
  <2>1. tick' \in [Agents -> Ticks]
    BY <1>0, <1>7, GoesTyped DEF Review, Steps, PrismSteps
  <2>2. prism' \in [todo : Seq(Templates), made : Seq(Tasks)]
    <3>1. [todo |-> StandardChain, made |-> <<>>]
          \in [todo : Seq(Templates), made : Seq(Tasks)]
      BY StandardTyped
    <3> QED
      BY <1>7, <3>1 DEF Review, TypeOK
  <2> QED
    BY <1>7, <2>1, <2>2 DEF Review, TypeOK, Ticks, Steps, board, bounds
<1>8. CASE CreateSynthesis
  <2>1. NewTask("diffraction", {}, "synthesis") \in TaskRows
    BY BoardConstants, NewTaskTyped DEF Kinds
  <2>2. task' \in [Tasks -> TaskRows]
    BY <1>8, <2>1 DEF CreateSynthesis, TypeOK
  <2>3. tick' \in [Agents -> Ticks]
    BY <1>0, <1>8, GoesTyped DEF CreateSynthesis, Steps, BaseSteps
  <2> QED
    BY <1>8, <2>2, <2>3 DEF CreateSynthesis, TypeOK, Ticks, Steps, bounds
<1> QED
  BY <1>1, <1>2, <1>3, <1>4, <1>5, <1>6, <1>7, <1>8 DEF Decomposing, Progressing

\* What people and failures do is well typed.
LEMMA SurroundingsTyped ==
  ASSUME TypeOK, Surroundings
  PROVE  TypeOK'
<1>1. Idle \in Ticks /\ NoChain \in [todo : Seq(Templates), made : Seq(Tasks)]
  BY BoardConstants DEF Idle, NoEntry, Ticks, Steps, Entries, NoChain
<1>2. Fault => faults' \in 0 .. MaxFaults
  BY BoardConstants DEF TypeOK, Fault
<1>3. CASE Approve
  <2>1. /\ outputs \in [pending : Nat, approved : Nat, synthesis : BOOLEAN]
        /\ outputs.pending - 1 \in Nat
        /\ outputs.approved + 1 \in Nat
    BY <1>3 DEF Approve, TypeOK
  <2>2. outputs' \in [pending : Nat, approved : Nat, synthesis : BOOLEAN]
    BY <1>3, <2>1 DEF Approve
  <2> QED
    BY <1>3, <2>2 DEF Approve, TypeOK, bounds
<1>4. ASSUME NEW a \in Agents, AbortTick(a)
      PROVE  TypeOK'
  BY <1>1, <1>2, <1>4 DEF AbortTick, Fault, TypeOK, Ticks, Steps, board
<1>5. CASE AbortLoop
  BY <1>2, <1>5 DEF AbortLoop, Fault, TypeOK, board
<1>6. CASE Crash
  BY <1>1, <1>2, <1>6 DEF Crash, Fault, TypeOK, Ticks, Steps, board
<1> QED
  BY <1>3, <1>4, <1>5, <1>6 DEF Surroundings

-----------------------------------------------------------------------------
(* The inductive invariant.                                                 *)

Busy(a) == tick[a].step \in {"work", "gap", "finish"}

\* What an agent has read of its tasks is still so.
Listed ==
    \A a \in Agents : \A e \in tick[a].queue :
        /\ e.id \in Tasks
        /\ Status(e.id) = "Todo"
        /\ task[e.id].agent = a
        /\ task[e.id].retry = e.retry

\* The task an agent is at is its own, and Doing.
AtWork ==
    \A a \in Agents : Busy(a) =>
        /\ tick[a].current.id \in Tasks
        /\ Status(tick[a].current.id) = "Doing"
        /\ task[tick[a].current.id].agent = a
        /\ task[tick[a].current.id].retry = tick[a].current.retry

\* Agents act only while the scheduler waits for them.
TicksApart == loop # "agents" => \A a \in Agents : At(a, "idle")

\* A task without dependencies is offered only while it has tries left.
TriesLeft ==
    \A t \in Board : task[t].depends = {} =>
        /\ task[t].retry <= MaxRetries
        /\ Status(t) \in {"Todo", "Doing"} => task[t].retry < MaxRetries

\* What prism is at fits the status of the project.
StepFits ==
    /\ tick["prism"].step \in {"brief", "decompose", "create", "start"}
          => project.status = "new"
    /\ tick["prism"].step \in {"tasks", "review", "supplement", "round", "passed",
                               "outputs", "synthesis", "toReview"}
          => project.status = "active"
    /\ At("prism", "approved") => project.status = "review"

\* From the look at the tasks that finds them done, until the project has
\* ended, and after, they are done.
Settling ==
    \/ tick["prism"].step \in {"review", "passed", "outputs", "toReview", "complete"}
    \/ project.status \in {"review", "complete"}
Settled == Settling => \A t \in Board : Status(t) = "Done"

\* From the look at the outputs that finds them approved they are approved.
Approved ==
    At("prism", "complete") \/ project.status = "complete" => outputs.pending = 0

IInv ==
    /\ TypeOK
    /\ Listed
    /\ AtWork
    /\ TicksApart
    /\ NoTaskLeftBehind
    /\ DependenciesFirst
    /\ TriesLeft
    /\ StepFits
    /\ Settled
    /\ Approved

\* The whole step is well typed.
LEMMA NextTyped ==
  ASSUME IInv, [Next]_vars
  PROVE  TypeOK'
<1>1. TypeOK /\ AtWork
  BY DEF IInv
<1>2. CASE Next
  <2>1. ASSUME NEW a \in Agents, Ticking(a)
        PROVE  TypeOK'
    BY <1>1, <2>1, TickingTyped DEF AtWork, Busy
  <2> QED
    BY <1>1, <1>2, <2>1, SchedulingTyped, PrismTyped, SurroundingsTyped DEF Next
<1>3. CASE UNCHANGED vars
  BY <1>1, <1>3 DEF TypeOK, vars, board, bounds
<1> QED
  BY <1>2, <1>3

-----------------------------------------------------------------------------
(* The life of a task.                                                      *)

Created(t) ==
    /\ Status(t) = "none"
    /\ \E agent \in Agents, depends \in SUBSET Tasks, kind \in Kinds :
          task'[t] = NewTask(agent, depends, kind)

\* Every way in which a row of the board may change.
RowStep(t) ==
    \/ task'[t] = task[t]
    \/ Created(t)
    \/ /\ Status(t) = "Waiting" /\ task[t].depends # {} /\ DependenciesDone(t)
       /\ task'[t] = [task[t] EXCEPT !.status = "Todo"]
    \/ /\ Status(t) = "Waiting" /\ task[t].depends = {}
       /\ task'[t] = [task[t] EXCEPT !.status = AfterRetry(t)]
    \/ /\ Status(t) = "Todo"
       /\ task'[t] = [task[t] EXCEPT !.status = "Doing"]
    \/ /\ Status(t) = "Doing"
       /\ task'[t] = [task[t] EXCEPT !.status = "Done"]
    \/ /\ Status(t) = "Doing"
       /\ task'[t] = [task[t] EXCEPT !.status = "Waiting", !.retry = @ + 1]

\* A row that is next is created.
LEMMA NextCreated ==
  ASSUME TypeOK, NEW t \in Tasks, IsNext(t), NEW agent \in Agents,
         NEW depends \in SUBSET Tasks, NEW kind \in Kinds,
         task' = [task EXCEPT ![t] = NewTask(agent, depends, kind)]
  PROVE  \A u \in Tasks : task'[u] = task[u] \/ Created(u)
<1>1. Status(t) = "none"
  BY DEF IsNext, Board, Status
<1>2. task'[t] = NewTask(agent, depends, kind)
  BY DEF TypeOK
<1>3. Created(t)
  BY <1>1, <1>2 DEF Created
<1>4. \A u \in Tasks : u # t => task'[u] = task[u]
  BY DEF TypeOK
<1> QED
  BY <1>3, <1>4

\* The rows that prism writes are new.
LEMMA PrismRows ==
  ASSUME TypeOK, Decomposing \/ Progressing
  PROVE  /\ \A t \in Tasks : task'[t] = task[t] \/ Created(t)
         /\ \/ task' = task
            \/ tick["prism"].step \in {"create", "supplement", "synthesis"}
<1>0. task \in [Tasks -> TaskRows]
  BY DEF TypeOK
<1>2. ASSUME NEW kind \in Kinds, CreateNext(kind)
      PROVE  \A t \in Tasks : task'[t] = task[t] \/ Created(t)
  <2>1. prism.todo \in Seq(Templates) /\ prism.todo # <<>>
    BY <1>2 DEF TypeOK, CreateNext
  <2>2. /\ Head(prism.todo).agent \in Agents
        /\ Depends(Head(prism.todo)) \in SUBSET Tasks
    <3>1. Head(prism.todo) \in Templates
      BY <2>1
    <3> QED
      BY <3>1, DependsTyped DEF Templates
  <2> DEFINE agent == Head(prism.todo).agent
             depends == Depends(Head(prism.todo))
  <2>3. PICK t \in Tasks :
           /\ IsNext(t)
           /\ task' = [task EXCEPT ![t] = NewTask(agent, depends, kind)]
    BY <1>2 DEF CreateNext
  <2> HIDE DEF agent, depends
  <2>4. agent \in Agents /\ depends \in SUBSET Tasks
    BY <2>2 DEF agent, depends
  <2> QED
    BY <2>3, <2>4, NextCreated, Zenon
<1>3. CASE CreateTask
  BY <1>2, <1>3 DEF CreateTask, At, Kinds
<1>4. CASE CreateSupplement
  BY <1>2, <1>4 DEF CreateSupplement, At, Kinds
<1>5. CASE CreateSynthesis
  BY <1>5, NextCreated, BoardConstants DEF CreateSynthesis, At, Kinds
<1>6. CASE ListNewProjects \/ WriteBrief \/ Decompose \/ ChainCreated
           \/ StartProject \/ ListProjects \/ LookAtReview \/ LookAtTasks
           \/ Review \/ RecordRound \/ LookAtOutputs \/ EndProject
  BY <1>6
  DEF ListNewProjects, WriteBrief, Decompose, ChainCreated, StartProject,
      ListProjects, LookAtReview, LookAtTasks, Review, RecordRound,
      LookAtOutputs, EndProject, PrismGoes, Update, board
<1> QED
  BY <1>3, <1>4, <1>5, <1>6 DEF Decomposing, Progressing

\* Every step changes every row in one of these ways.
LEMMA StepRows ==
  ASSUME IInv, [Next]_vars
  PROVE  \A t \in Tasks : RowStep(t)
<1>0. /\ TypeOK
      /\ Listed
      /\ AtWork
      /\ task \in [Tasks -> TaskRows]
  BY DEF IInv, TypeOK
<1>1. CASE Scheduling
  <2>1. CASE Resolve
    BY <1>0, <2>1 DEF Resolve, Unlockable, RowStep
  <2>2. CASE Retry
    BY <1>0, <2>2 DEF Retry, Retryable, RowStep
  <2>3. CASE StartAgents \/ TickEnds
    BY <2>3 DEF StartAgents, TickEnds, RowStep, board
  <2> QED
    BY <1>1, <2>1, <2>2, <2>3 DEF Scheduling
<1>2. ASSUME NEW a \in Agents, Ticking(a)
      PROVE  \A t \in Tasks : RowStep(t)
  <2>1. CASE List(a) \/ Work(a) \/ WriteOutput(a)
    BY <2>1 DEF List, Work, WriteOutput, RowStep, board
  <2>2. CASE Take(a)
    BY <1>0, <2>2 DEF Take, Listed, RowStep
  <2>3. CASE FillGap(a)
    <3>1. PICK t \in Tasks :
             IsNext(t) /\ task' = [task EXCEPT ![t] = NewTask("focus", {}, "gap")]
      BY <2>3 DEF FillGap
    <3> QED
      BY <1>0, <3>1, NextCreated, BoardConstants DEF RowStep, Kinds
  <2>4. CASE Finish(a)
    BY <1>0, <2>4 DEF Finish, At, AtWork, Busy, RowStep
  <2>5. CASE FailTask(a)
    BY <1>0, <2>5 DEF FailTask, AtWork, Busy, RowStep
  <2> QED
    BY <1>2, <2>1, <2>2, <2>3, <2>4, <2>5 DEF Ticking
<1>3. CASE Decomposing \/ Progressing
  BY <1>0, <1>3, PrismRows DEF RowStep
<1>4. CASE Surroundings
  BY <1>4 DEF Surroundings, Approve, AbortTick, AbortLoop, Crash, Fault, RowStep, board
<1>5. CASE UNCHANGED vars
  BY <1>5 DEF RowStep, vars, board
<1> QED
  BY <1>1, <1>2, <1>3, <1>4, <1>5 DEF Next

\* What is done stays done, whatever step is taken.
LEMMA DoneKept ==
  ASSUME IInv, [Next]_vars, NEW t \in Tasks, Status(t) = "Done"
  PROVE  task'[t] = task[t]
  BY StepRows DEF RowStep, Created, Status

\* A step offers a task only if it has no dependencies or they are done.
LEMMA DependenciesKept ==
  ASSUME IInv, [Next]_vars
  PROVE  DependenciesFirst'
<1>0. task \in [Tasks -> TaskRows] /\ task' \in [Tasks -> TaskRows]
  BY NextTyped DEF IInv, TypeOK
<1> DEFINE Begun(t) == Status(t) \in {"Todo", "Doing", "Done"}
<1> SUFFICES ASSUME NEW t \in Tasks, Begun(t)'
             PROVE  DependenciesDone(t)'
  BY DEF DependenciesFirst, Board
<1>1. CASE task'[t].depends = {}
  BY <1>1 DEF DependenciesDone
<1>2. CASE task'[t].depends # {}
  <2>1. /\ task'[t].depends = task[t].depends
        /\ Begun(t) \/ DependenciesDone(t)
    <3>1. RowStep(t) /\ task[t] \in TaskRows
      BY <1>0, StepRows
    <3>2. task'[t].status \in {"Todo", "Doing", "Done"}
      BY DEF Status
    <3>3. ~Created(t)
      <4>1. ASSUME NEW agent, NEW depends, NEW kind,
                   task'[t] = NewTask(agent, depends, kind)
            PROVE  FALSE
        <5>1. task'[t].depends = depends
          BY <4>1 DEF NewTask
        <5>2. task'[t].status = IF depends = {} THEN "Todo" ELSE "Waiting"
          BY <4>1 DEF NewTask
        <5> QED
          BY <1>2, <3>2, <5>1, <5>2
      <4> QED
        BY <4>1 DEF Created
    <3>4. task'[t].depends = task[t].depends
      BY <3>1, <3>3 DEF RowStep, TaskRows
    <3>5. Begun(t) \/ DependenciesDone(t)
      BY <1>2, <3>1, <3>2, <3>3, <3>4 DEF RowStep, Status, TaskRows
    <3> QED
      BY <3>4, <3>5
  <2>2. DependenciesDone(t)
    BY <2>1 DEF IInv, DependenciesFirst, Board, Status
  <2>3. task[t].depends \subseteq Tasks
    BY <1>0 DEF TaskRows
  <2> QED
    BY <2>1, <2>2, <2>3, DoneKept DEF DependenciesDone, Status
<1> QED
  BY <1>1, <1>2

\* A step that counts a failure takes a task that had a try left.
LEMMA TriesKept ==
  ASSUME IInv, [Next]_vars
  PROVE  TriesLeft'
<1>0. task \in [Tasks -> TaskRows] /\ task' \in [Tasks -> TaskRows]
  BY NextTyped DEF IInv, TypeOK
<1> SUFFICES ASSUME NEW t \in Tasks, Status(t)' # "none", task'[t].depends = {}
             PROVE  /\ task'[t].retry <= MaxRetries
                    /\ Status(t)' \in {"Todo", "Doing"} => task'[t].retry < MaxRetries
  BY DEF TriesLeft, Board, Status
<1>1. CASE Created(t)
  BY <1>1, BoardConstants DEF Created, NewTask
<1>2. CASE ~Created(t)
  <2>1. /\ task[t].retry \in Nat
        /\ task[t] \in TaskRows
        /\ MaxRetries \in Nat
    BY <1>0, BoardConstants DEF TaskRows
  <2>2. RowStep(t)
    BY StepRows
  <2>3. task[t].depends = {} /\ Status(t) # "none"
    BY <1>2, <2>1, <2>2 DEF RowStep, Status, TaskRows
  <2>4. /\ task[t].retry <= MaxRetries
        /\ Status(t) \in {"Todo", "Doing"} => task[t].retry < MaxRetries
    BY <2>3 DEF IInv, TriesLeft, Board, Status
  <2>5. CASE task'[t] = task[t]
    BY <2>4, <2>5 DEF Status
  <2>6. CASE /\ Status(t) = "Waiting"
             /\ task'[t] = [task[t] EXCEPT !.status = AfterRetry(t)]
    BY <2>1, <2>4, <2>6 DEF Status, AfterRetry, TaskRows
  <2>7. CASE /\ Status(t) = "Doing"
             /\ task'[t] = [task[t] EXCEPT !.status = "Waiting", !.retry = @ + 1]
    BY <2>1, <2>4, <2>7 DEF Status, TaskRows
  <2>8. CASE /\ Status(t) = "Todo"
             /\ task'[t] = [task[t] EXCEPT !.status = "Doing"]
    BY <2>1, <2>4, <2>8 DEF Status, TaskRows
  <2>9. CASE /\ Status(t) = "Doing"
             /\ task'[t] = [task[t] EXCEPT !.status = "Done"]
    BY <2>1, <2>4, <2>9 DEF Status, TaskRows
  <2> QED
    BY <1>2, <2>2, <2>3, <2>5, <2>6, <2>7, <2>8, <2>9 DEF RowStep
<1> QED
  BY <1>1, <1>2

-----------------------------------------------------------------------------
(* The agents and their tasks.                                              *)

\* Prism's own steps are no steps at a task, and leave its list alone.
LEMMA PrismTicks ==
  ASSUME TypeOK, Decomposing \/ Progressing
  PROVE  /\ loop' = loop /\ faults' = faults /\ outputs' = outputs
         /\ ~Busy("prism") /\ ~At("prism", "idle")
         /\ ~Busy("prism")'
         /\ tick'["prism"].queue = tick["prism"].queue
         /\ \A a \in Agents : a # "prism" => tick'[a] = tick[a]
<1>0. tick \in [Agents -> Ticks] /\ "prism" \in Agents
  BY BoardConstants DEF TypeOK, Ticks, Steps
<1>1. ASSUME NEW step \in {"list"} \cup PrismSteps, Goes("prism", step)
      PROVE  /\ ~Busy("prism")'
             /\ tick'["prism"].queue = tick["prism"].queue
             /\ \A a \in Agents : a # "prism" => tick'[a] = tick[a]
  BY <1>0, <1>1 DEF Goes, Busy, Ticks, PrismSteps
<1>2. \E step \in {"list"} \cup PrismSteps :
         Goes("prism", step) \/ (tick' = tick /\ At("prism", step))
  <2> DEFINE Fits(step) == Goes("prism", step) \/ (tick' = tick /\ At("prism", step))
  <2> USE DEF PrismSteps
  <2>1. CASE ListNewProjects \/ WriteBrief \/ Decompose \/ ChainCreated \/ StartProject
    BY <2>1
    DEF ListNewProjects, WriteBrief, Decompose, ChainCreated, StartProject,
        PrismGoes, Update
  <2>2. CASE CreateTask \/ CreateSupplement
    BY <2>2 DEF CreateTask, CreateSupplement, CreateNext
  <2>3. CASE ListProjects
    BY <2>3 DEF ListProjects, PrismGoes
  <2>4. CASE LookAtReview \/ LookAtTasks
    BY <2>4 DEF LookAtReview, LookAtTasks, PrismGoes
  <2>5. CASE LookAtOutputs
    BY <2>5 DEF LookAtOutputs, PrismGoes
  <2>6. CASE Review
    BY <2>6 DEF Review
  <2>7. CASE RecordRound \/ CreateSynthesis \/ EndProject
    BY <2>7 DEF RecordRound, CreateSynthesis, EndProject, Update
  <2> QED
    BY <2>1, <2>2, <2>3, <2>4, <2>5, <2>6, <2>7 DEF Decomposing, Progressing
<1>3. /\ loop' = loop /\ faults' = faults /\ outputs' = outputs
      /\ tick["prism"].step \in PrismSteps
  <2> USE DEF PrismSteps, At, board, bounds
  <2>1. CASE Decomposing
    BY <2>1
    DEF Decomposing, ListNewProjects, WriteBrief, Decompose, CreateTask, CreateNext,
        ChainCreated, StartProject, PrismGoes, Update
  <2>2. CASE Progressing
    BY <2>2
    DEF Progressing, ListProjects, LookAtReview, LookAtTasks, Review,
        CreateSupplement, CreateNext, RecordRound, LookAtOutputs, CreateSynthesis,
        EndProject, PrismGoes, Update
  <2> QED
    BY <2>1, <2>2
<1> QED
  BY <1>1, <1>2, <1>3 DEF Busy, At, PrismSteps

TicksFit == Listed /\ AtWork /\ TicksApart /\ NoTaskLeftBehind

\* If an agent's list does not grow, rows that are Todo or Doing stay, and the
\* agents at a task stay at it, everything still fits.
LEMMA NothingMoves ==
  ASSUME IInv,
         task \in [Tasks -> TaskRows], task' \in [Tasks -> TaskRows],
         \A t \in Tasks : \/ task'[t] = task[t]
                          \/ /\ Status(t) \notin {"Todo", "Doing"}
                             /\ task'[t].status # "Doing",
         \A b \in Agents : /\ tick'[b].queue \subseteq tick[b].queue
                           /\ \/ tick'[b] = tick[b]
                              \/ ~Busy(b)' /\ (~Busy(b) \/ faults' # 0)
                              \/ /\ Busy(b) /\ Busy(b)'
                                 /\ tick'[b].current = tick[b].current,
         faults' = 0 => faults = 0
  PROVE  Listed' /\ AtWork' /\ NoTaskLeftBehind'
<1> USE DEF Status
<1>1. Listed'
  BY DEF IInv, Listed
<1>2. AtWork'
  BY DEF IInv, AtWork, Busy
<1>3. NoTaskLeftBehind'
  <2> SUFFICES ASSUME faults' = 0, NEW t \in Tasks, task'[t].status = "Doing"
               PROVE  /\ tick'[task'[t].agent].current.id = t
                      /\ tick'[task'[t].agent].step \in {"work", "gap", "finish"}
    BY DEF NoTaskLeftBehind, Board, Busy
  <2>1. task'[t] = task[t] /\ task[t].agent \in Agents
    BY DEF TaskRows
  <2>2. tick[task[t].agent].current.id = t /\ Busy(task[t].agent)
    BY <2>1 DEF IInv, NoTaskLeftBehind, Board, Busy
  <2> QED
    BY <2>1, <2>2 DEF Busy
<1> QED
  BY <1>1, <1>2, <1>3

\* The scheduler waits for its agents, and touches no task they are at.
LEMMA SchedulingFits ==
  ASSUME IInv, Scheduling, TypeOK'
  PROVE  TicksFit'
<1>0. /\ task \in [Tasks -> TaskRows] /\ task' \in [Tasks -> TaskRows]
      /\ tick \in [Agents -> Ticks]
  BY DEF IInv, TypeOK, Ticks, Steps
<1>1. CASE Resolve
  <2>1. \A t \in Tasks : \/ task'[t] = task[t]
                         \/ /\ Status(t) \notin {"Todo", "Doing"}
                            /\ task'[t].status # "Doing"
    BY <1>0, <1>1 DEF Resolve, Unlockable, Status, TaskRows
  <2>2. Listed' /\ AtWork' /\ NoTaskLeftBehind'
    BY <1>0, <1>1, <2>1, NothingMoves DEF Resolve, bounds
  <2>3. TicksApart'
    BY <1>1 DEF Resolve, IInv, TicksApart, At
  <2> QED
    BY <2>2, <2>3 DEF TicksFit
<1>2. CASE Retry
  <2>1. \A t \in Tasks : \/ task'[t] = task[t]
                         \/ /\ Status(t) \notin {"Todo", "Doing"}
                            /\ task'[t].status # "Doing"
    BY <1>0, <1>2 DEF Retry, Retryable, AfterRetry, Status, TaskRows
  <2>2. Listed' /\ AtWork' /\ NoTaskLeftBehind'
    BY <1>0, <1>2, <2>1, NothingMoves DEF Retry, bounds
  <2>3. TicksApart'
    BY <1>2 DEF Retry, IInv, TicksApart, At
  <2> QED
    BY <2>2, <2>3 DEF TicksFit
<1>3. CASE StartAgents
  <2>1. \A b \in Agents : At(b, "idle")
    BY <1>3 DEF StartAgents, IInv, TicksApart
  <2>2. \A b \in Agents : /\ tick'[b].queue = {}
                          /\ tick'[b].step \in {"projects", "list"}
    BY <1>3 DEF StartAgents, Idle
  <2>3. Listed' /\ AtWork' /\ NoTaskLeftBehind'
    BY <1>0, <1>3, <2>1, <2>2, NothingMoves DEF StartAgents, At, Busy, board, bounds
  <2>4. TicksApart'
    BY <1>3 DEF StartAgents, TicksApart
  <2> QED
    BY <2>3, <2>4 DEF TicksFit
<1>4. CASE TickEnds
  <2>1. Listed' /\ AtWork' /\ NoTaskLeftBehind'
    BY <1>0, <1>4, NothingMoves DEF TickEnds, board, bounds
  <2>2. TicksApart'
    BY <1>4 DEF TickEnds, TicksApart, At
  <2> QED
    BY <2>1, <2>2 DEF TicksFit
<1> QED
  BY <1>1, <1>2, <1>3, <1>4 DEF Scheduling

\* Nor does prism, when it looks after its project.
LEMMA PrismFits ==
  ASSUME IInv, Decomposing \/ Progressing, TypeOK'
  PROVE  TicksFit'
<1>0. /\ task \in [Tasks -> TaskRows] /\ task' \in [Tasks -> TaskRows]
      /\ TypeOK
      /\ loop = "agents"
  BY PrismTicks, BoardConstants DEF IInv, TypeOK, TicksApart
<1>1. \A t \in Tasks : \/ task'[t] = task[t]
                       \/ /\ Status(t) \notin {"Todo", "Doing"}
                          /\ task'[t].status # "Doing"
  <2>1. \A t \in Tasks : task'[t] = task[t] \/ Created(t)
    BY <1>0, PrismRows
  <2>2. \A agent, depends, kind : NewTask(agent, depends, kind).status # "Doing"
    BY DEF NewTask
  <2> QED
    BY <2>1, <2>2 DEF Created
<1>2. Listed' /\ AtWork' /\ NoTaskLeftBehind'
  BY <1>0, <1>1, PrismTicks, NothingMoves
<1>3. TicksApart'
  BY <1>0, PrismTicks DEF TicksApart
<1> QED
  BY <1>2, <1>3 DEF TicksFit

\* What people and failures do: a tick that is aborted leaves its task, but
\* reads nothing any more.
LEMMA SurroundingsFit ==
  ASSUME IInv, Surroundings, TypeOK'
  PROVE  TicksFit'
<1>0. /\ task \in [Tasks -> TaskRows] /\ task' = task
      /\ tick \in [Agents -> Ticks]
      /\ faults \in Nat
  <2>1. task' = task
    BY DEF Surroundings, Approve, AbortTick, AbortLoop, Crash, Fault, board
  <2> QED
    BY <2>1, BoardConstants DEF IInv, TypeOK, Ticks, Steps
<1>1. Idle.step = "idle" /\ Idle.queue = {}
  BY DEF Idle
<1>2. CASE Approve
  <2>1. Listed' /\ AtWork' /\ NoTaskLeftBehind'
    BY <1>0, <1>2, NothingMoves DEF Approve, bounds
  <2> QED
    BY <1>2, <2>1 DEF Approve, TicksFit, IInv, TicksApart, At
<1>3. ASSUME NEW a \in Agents, AbortTick(a)
      PROVE  TicksFit'
  <2>1. /\ faults' = faults + 1 /\ loop' = loop
        /\ \A b \in Agents : tick'[b] = IF b = a THEN Idle ELSE tick[b]
    BY <1>0, <1>3 DEF AbortTick, Fault
  <2>2. Listed' /\ AtWork' /\ NoTaskLeftBehind'
    BY <1>0, <1>1, <2>1, NothingMoves DEF Busy
  <2> QED
    BY <1>1, <2>1, <2>2 DEF TicksFit, IInv, TicksApart, At
<1>4. CASE AbortLoop
  <2>1. Listed' /\ AtWork' /\ NoTaskLeftBehind'
    BY <1>0, <1>4, NothingMoves DEF AbortLoop, Fault
  <2> QED
    BY <1>4, <2>1 DEF AbortLoop, TicksFit, IInv, TicksApart, At
<1>5. CASE Crash
  <2>1. /\ faults' = faults + 1
        /\ \A b \in Agents : tick'[b] = Idle
    BY <1>5 DEF Crash, Fault
  <2>2. Listed' /\ AtWork' /\ NoTaskLeftBehind'
    BY <1>0, <1>1, <2>1, NothingMoves DEF Busy
  <2> QED
    BY <1>1, <2>1, <2>2 DEF TicksFit, TicksApart, At
<1> QED
  BY <1>2, <1>3, <1>4, <1>5 DEF Surroundings

\* An agent that moves only its own tasks has only itself to fit.
LEMMA OnlyOwnMove ==
  ASSUME IInv, NEW a \in Agents, ~At(a, "idle"),
         loop' = loop, faults' = faults,
         task \in [Tasks -> TaskRows], task' \in [Tasks -> TaskRows],
         \A b \in Agents : b # a => tick'[b] = tick[b],
         \A t \in Tasks : \/ task'[t] = task[t]
                          \/ task[t].agent = a /\ task'[t].agent = a
                          \/ Status(t) = "none" /\ task'[t].status # "Doing",
         \A e \in tick'[a].queue : /\ e.id \in Tasks
                                   /\ task'[e.id].status = "Todo"
                                   /\ task'[e.id].agent = a
                                   /\ task'[e.id].retry = e.retry,
         Busy(a)' => /\ tick'[a].current.id \in Tasks
                     /\ task'[tick'[a].current.id].status = "Doing"
                     /\ task'[tick'[a].current.id].agent = a
                     /\ task'[tick'[a].current.id].retry = tick'[a].current.retry,
         faults = 0 => \A t \in Tasks :
                           task'[t].status = "Doing" /\ task'[t].agent = a
                              => tick'[a].current.id = t /\ Busy(a)'
  PROVE  TicksFit'
<1> USE DEF Status
<1>1. Listed'
  <2>1. ASSUME NEW b \in Agents, b # a, NEW e \in tick[b].queue
        PROVE  task'[e.id] = task[e.id]
    BY <2>1 DEF IInv, Listed
  <2> QED
    BY <2>1 DEF IInv, Listed
<1>2. AtWork'
  <2>1. ASSUME NEW b \in Agents, b # a, Busy(b)
        PROVE  task'[tick[b].current.id] = task[tick[b].current.id]
    BY <2>1 DEF IInv, AtWork
  <2> QED
    BY <2>1 DEF IInv, AtWork, Busy
<1>3. TicksApart'
  BY DEF IInv, TicksApart
<1>4. NoTaskLeftBehind'
  <2> SUFFICES ASSUME faults' = 0, NEW t \in Tasks, task'[t].status = "Doing",
                      task'[t].agent # a
               PROVE  /\ tick'[task'[t].agent].current.id = t
                      /\ tick'[task'[t].agent].step \in {"work", "gap", "finish"}
    BY DEF NoTaskLeftBehind, Board, Busy
  <2>1. task'[t] = task[t] /\ task[t].agent \in Agents
    BY DEF TaskRows
  <2> QED
    BY <2>1 DEF IInv, NoTaskLeftBehind, Board
<1> QED
  BY <1>1, <1>2, <1>3, <1>4 DEF TicksFit

\* The next place of an agent that goes on with its list.
LEMMA GoesOnFacts ==
  ASSUME NEW queue
  PROVE  /\ GoesOn(queue).queue \subseteq queue
         /\ GoesOn(queue).step \in {"idle", "next"}
  BY DEF GoesOn, Idle

\* An agent at its list or at a task has only itself to fit, and does.
LEMMA TickingFits ==
  ASSUME IInv, NEW a \in Agents, Ticking(a), TypeOK'
  PROVE  TicksFit'
<1>0. /\ task \in [Tasks -> TaskRows] /\ task' \in [Tasks -> TaskRows]
      /\ tick \in [Agents -> Ticks] /\ tick[a] \in Ticks
  BY DEF IInv, TypeOK, Ticks, Steps
<1>A. ~Busy(a) /\ faults = 0 =>
         \A t \in Tasks : ~(task[t].status = "Doing" /\ task[t].agent = a)
  BY DEF IInv, NoTaskLeftBehind, Board, Busy, Status
<1>B. faults = 0 => \A t \in Tasks : task[t].status = "Doing" /\ task[t].agent = a
                                      => t = tick[a].current.id
  BY DEF IInv, NoTaskLeftBehind, Board, Status
<1>C. \A e \in tick[a].queue : /\ e.id \in Tasks
                               /\ task[e.id].status = "Todo"
                               /\ task[e.id].agent = a
                               /\ task[e.id].retry = e.retry
  BY DEF IInv, Listed, Status
<1>D. Busy(a) => /\ tick[a].current.id \in Tasks
                 /\ task[tick[a].current.id].status = "Doing"
                 /\ task[tick[a].current.id].agent = a
                 /\ task[tick[a].current.id].retry = tick[a].current.retry
  BY DEF IInv, AtWork, Status
<1>1. CASE List(a)
  <2> DEFINE Q == {[id |-> t, retry |-> task[t].retry] :
                     t \in {u \in Tasks : Status(u) = "Todo" /\ task[u].agent = a}}
  <2>1. /\ task' = task /\ loop' = loop /\ faults' = faults
        /\ ~At(a, "idle") /\ ~Busy(a)
        /\ tick' = [tick EXCEPT ![a] = GoesOn(Q)]
    BY <1>1 DEF List, At, Busy, board, bounds
  <2>2. \A e \in Q : /\ e.id \in Tasks
                     /\ task[e.id].status = "Todo"
                     /\ task[e.id].agent = a
                     /\ task[e.id].retry = e.retry
    BY DEF Status
  <2> HIDE DEF Q
  <2>3. /\ tick'[a] = GoesOn(Q)
        /\ \A b \in Agents : b # a => tick'[b] = tick[b]
    BY <1>0, <2>1
  <2>4. tick'[a].queue \subseteq Q /\ ~Busy(a)'
    BY <2>3, GoesOnFacts DEF Busy
  <2> QED
    BY <1>0, <1>A, <2>1, <2>2, <2>3, <2>4, OnlyOwnMove
<1>2. CASE Take(a)
  <2>1. PICK e \in tick[a].queue :
           /\ task' = [task EXCEPT ![e.id].status = "Doing"]
           /\ tick' = [tick EXCEPT ![a].step = "work",
                                   ![a].queue = @ \ {e},
                                   ![a].current = e]
    BY <1>2 DEF Take
  <2>2. /\ loop' = loop /\ faults' = faults /\ ~At(a, "idle") /\ ~Busy(a)
    BY <1>2 DEF Take, At, Busy, bounds
  <2>3. /\ tick'[a].step = "work" /\ tick'[a].current = e
        /\ tick'[a].queue = tick[a].queue \ {e}
        /\ \A b \in Agents : b # a => tick'[b] = tick[b]
    BY <1>0, <2>1 DEF Ticks
  <2>4. /\ e.id \in Tasks /\ task'[e.id].status = "Doing"
        /\ task'[e.id].agent = a /\ task'[e.id].retry = e.retry
        /\ \A t \in Tasks : t # e.id => task'[t] = task[t]
    BY <1>0, <1>C, <2>1 DEF TaskRows
  <2>5. \A f \in tick[a].queue : f.id = e.id => f = e
    <3>1. \A f \in tick[a].queue : f \in Entries
      BY <1>0 DEF Ticks
    <3> QED
      BY <1>C, <3>1 DEF Entries
  <2>6. \A f \in tick'[a].queue : /\ f.id \in Tasks
                                  /\ task'[f.id].status = "Todo"
                                  /\ task'[f.id].agent = a
                                  /\ task'[f.id].retry = f.retry
    BY <1>C, <2>3, <2>4, <2>5
  <2>7. faults = 0 => \A t \in Tasks :
                          task'[t].status = "Doing" /\ task'[t].agent = a
                             => tick'[a].current.id = t /\ Busy(a)'
    BY <1>A, <2>2, <2>3, <2>4 DEF Busy
  <2>8. \A t \in Tasks : \/ task'[t] = task[t]
                         \/ task[t].agent = a /\ task'[t].agent = a
    BY <1>C, <2>4
  <2> QED
    BY <1>0, <2>2, <2>3, <2>4, <2>6, <2>7, <2>8, OnlyOwnMove
<1>3. CASE Work(a) \/ WriteOutput(a) \/ FillGap(a)
  <2>1. /\ loop' = loop /\ faults' = faults /\ ~At(a, "idle") /\ Busy(a)
        /\ \E step \in {"gap", "finish"} : Goes(a, step)
    BY <1>3 DEF Work, WriteOutput, FillGap, At, Busy, bounds
  <2>2. /\ tick'[a].queue = tick[a].queue /\ tick'[a].current = tick[a].current
        /\ Busy(a)'
        /\ \A b \in Agents : b # a => tick'[b] = tick[b]
    BY <1>0, <2>1 DEF Goes, Busy, Ticks
  <2>3. \A t \in Tasks : \/ task'[t] = task[t]
                         \/ Status(t) = "none" /\ task'[t].status # "Doing"
    <3>1. CASE FillGap(a)
      <4>1. \A t \in Tasks : task'[t] = task[t] \/ Created(t)
        BY <3>1, NextCreated, BoardConstants DEF FillGap, Kinds, IInv
      <4>2. \A agent, depends, kind : NewTask(agent, depends, kind).status # "Doing"
        BY DEF NewTask
      <4> QED
        BY <4>1, <4>2 DEF Created
    <3> QED
      BY <1>3, <3>1 DEF Work, WriteOutput, board
  <2>4. /\ \A e \in tick'[a].queue : task'[e.id] = task[e.id]
        /\ task'[tick[a].current.id] = task[tick[a].current.id]
    BY <1>C, <1>D, <2>1, <2>2, <2>3 DEF Status
  <2>5. faults = 0 => \A t \in Tasks :
                          task'[t].status = "Doing" /\ task'[t].agent = a
                             => tick'[a].current.id = t /\ Busy(a)'
    BY <1>B, <2>2, <2>3
  <2> QED
    BY <1>0, <1>C, <1>D, <2>1, <2>2, <2>3, <2>4, <2>5, OnlyOwnMove
<1>4. CASE Finish(a) \/ FailTask(a)
  <2> DEFINE c == tick[a].current.id
  <2>1. /\ loop' = loop /\ faults' = faults /\ ~At(a, "idle") /\ Busy(a)
        /\ tick' = [tick EXCEPT ![a] = GoesOn(@.queue)]
    BY <1>4 DEF Finish, FailTask, At, Busy, bounds
  <2>2. /\ tick'[a] = GoesOn(tick[a].queue)
        /\ \A b \in Agents : b # a => tick'[b] = tick[b]
    BY <1>0, <2>1
  <2>3. tick'[a].queue \subseteq tick[a].queue /\ ~Busy(a)'
    BY <2>2, GoesOnFacts DEF Busy
  <2>4. /\ task'[c].status # "Doing" /\ task'[c].agent = a
        /\ \A t \in Tasks : t # c => task'[t] = task[t]
    BY <1>0, <1>4, <1>D, <2>1 DEF Finish, FailTask, TaskRows
  <2>5. /\ c \in Tasks /\ task[c].agent = a
        /\ \A e \in tick[a].queue : task'[e.id] = task[e.id]
    BY <1>C, <1>D, <2>1, <2>4
  <2>6. faults = 0 => \A t \in Tasks :
                          ~(task'[t].status = "Doing" /\ task'[t].agent = a)
    BY <1>B, <2>4
  <2>7. \A t \in Tasks : \/ task'[t] = task[t]
                         \/ task[t].agent = a /\ task'[t].agent = a
    BY <2>4, <2>5
  <2> HIDE DEF c
  <2> QED
    BY <1>0, <1>C, <2>1, <2>2, <2>3, <2>5, <2>6, <2>7, OnlyOwnMove
<1> QED
  BY <1>1, <1>2, <1>3, <1>4 DEF Ticking

\* Whatever step is taken, agents and tasks fit.
LEMMA TicksKept ==
  ASSUME IInv, [Next]_vars
  PROVE  TicksFit'
<1>1. TypeOK'
  BY NextTyped
<1>2. CASE Next
  BY <1>1, <1>2, SchedulingFits, TickingFits, PrismFits, SurroundingsFit DEF Next
<1>3. CASE UNCHANGED vars
  BY <1>3
  DEF IInv, TicksFit, Listed, AtWork, TicksApart, NoTaskLeftBehind, Board, Busy, At,
      Status, vars, board, bounds
<1> QED
  BY <1>2, <1>3

-----------------------------------------------------------------------------
(* The project and its tasks.                                               *)

ProjectFits == StepFits /\ Settled /\ Approved

\* While everything is done and prism creates nothing, it stays so.
LEMMA AllDoneKept ==
  ASSUME IInv, [Next]_vars, Settling,
         \A t \in Tasks : Status(t) = "none" => task'[t] = task[t]
  PROVE  \A t \in Tasks : task'[t] = task[t]
<1> SUFFICES ASSUME NEW t \in Tasks
             PROVE  task'[t] = task[t]
  OBVIOUS
<1>1. Status(t) \in {"none", "Done"}
  BY DEF IInv, Settled, Board, Status
<1> QED
  BY <1>1, DoneKept

\* If prism is at no later step than before, and no row or output is created,
\* the project still fits.
LEMMA ProjectStands ==
  ASSUME IInv, [Next]_vars, project' = project,
         \/ tick'["prism"].step = tick["prism"].step
         \/ tick'["prism"].step \in {"idle", "projects", "progress"} \cup BaseSteps,
         Settling => /\ \A t \in Tasks : Status(t) = "none" => task'[t] = task[t]
                     /\ outputs' = outputs \/ outputs'.pending < outputs.pending
  PROVE  ProjectFits'
<1>0. outputs'.pending \in Nat /\ outputs.pending \in Nat
  BY NextTyped DEF IInv, TypeOK
<1>1. StepFits'
  BY DEF IInv, StepFits, At, BaseSteps
<1>2. Settling' => Settling
  BY DEF Settling, BaseSteps
<1>3. Settled'
  BY <1>2, AllDoneKept DEF IInv, Settled, Board, Status
<1>4. Approved'
  BY <1>0, <1>2 DEF IInv, Approved, Settling, At, BaseSteps
<1> QED
  BY <1>1, <1>3, <1>4 DEF ProjectFits

\* The scheduler, the agents at their tasks, people and failures leave the
\* project to prism: an agent at a task shows that prism does not settle it.
LEMMA OthersStand ==
  ASSUME IInv, [Next]_vars,
         \/ Scheduling
         \/ \E a \in Agents : Ticking(a)
         \/ Surroundings
         \/ UNCHANGED vars
  PROVE  ProjectFits'
<1>0. /\ tick \in [Agents -> Ticks] /\ tick' \in [Agents -> Ticks]
      /\ task \in [Tasks -> TaskRows]
      /\ "prism" \in Agents
  BY NextTyped, BoardConstants DEF IInv, TypeOK, Ticks, Steps
<1>A. \A queue : GoesOn(queue).step \in {"idle", "next"}
  BY GoesOnFacts
<1>1. CASE Scheduling
  <2>1. project' = project /\ outputs' = outputs
    BY <1>1 DEF Scheduling, Resolve, Retry, StartAgents, TickEnds, board
  <2>2. \/ tick' = tick
        \/ tick'["prism"].step = "projects"
    BY <1>0, <1>1 DEF Scheduling, Resolve, Retry, StartAgents, TickEnds, Idle
  <2>3. \A t \in Tasks : Status(t) = "none" => task'[t] = task[t]
    <3>1. CASE Resolve
      BY <3>1 DEF Resolve, Unlockable, Status
    <3>2. CASE Retry
      BY <1>0, <3>2 DEF Retry, Retryable, Status
    <3> QED
      BY <1>1, <3>1, <3>2 DEF Scheduling, StartAgents, TickEnds, board
  <2> QED
    BY <2>1, <2>2, <2>3, ProjectStands
<1>2. ASSUME NEW a \in Agents, Ticking(a)
      PROVE  ProjectFits'
  <2>1. project' = project
    BY <1>2 DEF Ticking, List, Take, Work, WriteOutput, FillGap, Finish, FailTask, board
  <2>2. \/ tick'["prism"].step = tick["prism"].step
        \/ tick'["prism"].step \in {"idle"} \cup BaseSteps
    <3>1. /\ a # "prism" => tick'["prism"] = tick["prism"]
          /\ tick'[a].step \in {"idle"} \cup BaseSteps
      <4> USE DEF BaseSteps
      <4>1. CASE List(a) \/ Finish(a) \/ FailTask(a)
        BY <1>0, <1>A, <4>1 DEF List, Finish, FailTask
      <4>2. CASE Take(a)
        BY <1>0, <4>2 DEF Take, Ticks
      <4>3. CASE Work(a) \/ WriteOutput(a) \/ FillGap(a)
        <5>1. PICK step \in {"gap", "finish"} : Goes(a, step)
          BY <4>3 DEF Work, WriteOutput, FillGap
        <5> QED
          BY <1>0, <5>1 DEF Goes, Ticks
      <4> QED
        BY <1>2, <4>1, <4>2, <4>3 DEF Ticking
    <3> QED
      BY <3>1
  <2>3. Busy(a) => ~Settling
    BY DEF IInv, AtWork, Settled, Board, Status
  <2>4. CASE WriteOutput(a) \/ FillGap(a)
    <3>1. ~Settling
      BY <2>3, <2>4 DEF WriteOutput, FillGap, At, Busy
    <3> QED
      BY <2>1, <2>2, <3>1, ProjectStands
  <2>5. CASE List(a) \/ Take(a) \/ Work(a) \/ Finish(a) \/ FailTask(a)
    <3>1. outputs' = outputs
      BY <2>5 DEF List, Take, Work, Finish, FailTask, board
    <3>2. \A t \in Tasks : Status(t) = "none" => task'[t] = task[t]
      <4>1. CASE List(a) \/ Work(a)
        BY <4>1 DEF List, Work, board
      <4>2. CASE Take(a)
        <5>1. PICK e \in tick[a].queue : task' = [task EXCEPT ![e.id].status = "Doing"]
          BY <4>2 DEF Take
        <5>2. Status(e.id) = "Todo"
          BY <5>1 DEF IInv, Listed
        <5> QED
          BY <1>0, <5>1, <5>2 DEF Status
      <4>3. CASE Finish(a) \/ FailTask(a)
        BY <1>0, <4>3 DEF Finish, FailTask, IInv, AtWork, At, Busy, Status
      <4> QED
        BY <2>5, <4>1, <4>2, <4>3
    <3> QED
      BY <2>1, <2>2, <3>1, <3>2, ProjectStands
  <2> QED
    BY <1>2, <2>4, <2>5 DEF Ticking
<1>3. CASE Surroundings
  <2>1. task' = task /\ project' = project
    BY <1>3 DEF Surroundings, Approve, AbortTick, AbortLoop, Crash, Fault, board
  <2>2. \/ outputs' = outputs
        \/ outputs'.pending < outputs.pending
    <3>1. CASE Approve
      <4>1. /\ outputs \in [pending : Nat, approved : Nat, synthesis : BOOLEAN]
            /\ outputs'.pending = outputs.pending - 1
        BY <3>1 DEF Approve, IInv, TypeOK
      <4> QED
        BY <4>1
    <3> QED
      BY <1>3, <3>1 DEF Surroundings, AbortTick, AbortLoop, Crash, Fault, board
  <2>3. \/ tick'["prism"] = tick["prism"]
        \/ tick'["prism"].step = "idle"
    BY <1>0, <1>3 DEF Surroundings, Approve, AbortTick, AbortLoop, Crash, Idle
  <2> QED
    BY <2>1, <2>2, <2>3, ProjectStands
<1>4. CASE UNCHANGED vars
  BY <1>4, ProjectStands DEF vars, board
<1> QED
  BY <1>1, <1>2, <1>3, <1>4

\* Prism's steps before the project is under way concern a new project.
LEMMA DecomposingStands ==
  ASSUME IInv, [Next]_vars, Decomposing
  PROVE  ProjectFits'
<1>0. /\ tick \in [Agents -> Ticks] /\ tick["prism"] \in Ticks
      /\ project \in [status : {"new", "active", "review", "complete"},
                      round : Nat, brief : BOOLEAN]
      /\ "prism" \in Agents
  BY BoardConstants DEF IInv, TypeOK, Ticks, Steps
<1> USE DEF At
<1>1. ASSUME NEW step, Goes("prism", step)
      PROVE  tick'["prism"].step = step
  BY <1>0, <1>1 DEF Goes, Ticks
<1>2. ASSUME project.status = "new", project'.status = "new",
             tick'["prism"].step \in
                {"progress", "brief", "decompose", "create", "start"}
      PROVE  ProjectFits'
  BY <1>2 DEF ProjectFits, StepFits, Settled, Settling, Approved
<1>3. CASE ListNewProjects
  <2>1. CASE project.status = "new"
    BY <1>1, <1>2, <1>3, <2>1 DEF ListNewProjects, PrismGoes, board
  <2>2. CASE project.status # "new"
    BY <1>1, <1>3, <2>2, ProjectStands DEF ListNewProjects, PrismGoes, board
  <2> QED
    BY <2>1, <2>2
<1>4. CASE WriteBrief
  <2>1. project.status = "new" /\ project'.status = "new"
    BY <1>0, <1>4 DEF WriteBrief, IInv, StepFits
  <2> QED
    BY <1>1, <1>2, <1>4, <2>1 DEF WriteBrief
<1>5. CASE Decompose
  <2>1. project.status = "new" /\ project' = project
    BY <1>5 DEF Decompose, IInv, StepFits, board
  <2>2. tick'["prism"].step \in {"progress", "create"}
    BY <1>1, <1>5 DEF Decompose
  <2> QED
    BY <1>2, <2>1, <2>2
<1>6. CASE CreateTask
  BY <1>2, <1>6 DEF CreateTask, CreateNext, IInv, StepFits
<1>7. CASE ChainCreated
  <2>1. project' = project /\ task' = task /\ outputs' = outputs
    BY <1>7 DEF ChainCreated, board
  <2>2. CASE At("prism", "create") /\ Goes("prism", "start")
    BY <1>1, <1>2, <2>1, <2>2 DEF IInv, StepFits
  <2>3. CASE At("prism", "supplement") /\ Goes("prism", "round")
    BY <1>1, <2>1, <2>3 DEF IInv, ProjectFits, StepFits, Settled, Settling, Approved
  <2> QED
    BY <1>7, <2>2, <2>3 DEF ChainCreated
<1>8. CASE StartProject
  <2>1. project'.status = "active" /\ tick'["prism"].step = "progress"
    BY <1>0, <1>1, <1>8 DEF StartProject, Update
  <2> QED
    BY <2>1 DEF ProjectFits, StepFits, Settled, Settling, Approved
<1> QED
  BY <1>3, <1>4, <1>5, <1>6, <1>7, <1>8 DEF Decomposing

\* Prism settles a project when it has found every task done, and completes
\* it when it has found every output approved.
LEMMA ProgressingStands ==
  ASSUME IInv, [Next]_vars, Progressing
  PROVE  ProjectFits'
<1>0. /\ tick \in [Agents -> Ticks] /\ tick["prism"] \in Ticks
      /\ project \in [status : {"new", "active", "review", "complete"},
                      round : Nat, brief : BOOLEAN]
      /\ outputs.pending \in Nat
      /\ "prism" \in Agents
  BY BoardConstants DEF IInv, TypeOK, Ticks, Steps
<1> USE DEF At
<1>1. ASSUME NEW step, Goes("prism", step)
      PROVE  tick'["prism"].step = step
  BY <1>0, <1>1 DEF Goes, Ticks
<1>2. StepFits /\ Settled /\ Approved
  BY DEF IInv
<1>3. CASE ListProjects
  <2>1. /\ project' = project /\ task' = task /\ outputs' = outputs
        /\ tick'["prism"].step = CASE project.status = "active" -> "tasks"
                                   [] project.status = "review" -> "approved"
                                   [] OTHER -> "list"
    BY <1>1, <1>3 DEF ListProjects, PrismGoes, board
  <2> QED
    BY <1>0, <1>2, <2>1
    DEF ProjectFits, StepFits, Settled, Settling, Approved, Board, Status
<1>4. CASE LookAtReview
  <2>1. /\ project' = project /\ task' = task /\ outputs' = outputs
        /\ tick'["prism"].step = IF outputs.pending = 0 THEN "complete" ELSE "list"
        /\ project.status = "review"
    BY <1>1, <1>2, <1>4 DEF LookAtReview, PrismGoes, StepFits, board
  <2> QED
    BY <1>2, <2>1 DEF ProjectFits, StepFits, Settled, Settling, Approved, Board, Status
<1>5. CASE LookAtTasks
  <2>1. /\ project' = project /\ task' = task /\ outputs' = outputs
        /\ tick'["prism"].step \in {"list", "review", "outputs"}
        /\ tick'["prism"].step # "list" => AllDone
        /\ project.status = "active"
    BY <1>1, <1>2, <1>5 DEF LookAtTasks, PrismGoes, StepFits, board
  <2> QED
    BY <1>2, <2>1
    DEF ProjectFits, StepFits, Settled, Settling, Approved, Board, Status, AllDone
<1>6. CASE Review
  <2>1. /\ project' = project /\ task' = task /\ outputs' = outputs
        /\ tick'["prism"].step \in {"supplement", "passed", "outputs"}
        /\ project.status = "active" /\ Settling
    BY <1>1, <1>2, <1>6 DEF Review, StepFits, Settling, board
  <2> QED
    BY <1>2, <2>1 DEF ProjectFits, StepFits, Settled, Approved, Board, Status
<1>7. CASE CreateSupplement
  <2>1. /\ project' = project /\ tick' = tick /\ outputs' = outputs
        /\ tick["prism"].step = "supplement" /\ project.status = "active"
    BY <1>2, <1>7 DEF CreateSupplement, CreateNext, StepFits
  <2> QED
    BY <2>1 DEF ProjectFits, StepFits, Settled, Settling, Approved
<1>8. CASE RecordRound
  <2>1. /\ project'.status = "active" /\ project.status = "active"
        /\ task' = task /\ outputs' = outputs
        /\ \/ tick'["prism"].step = "list"
           \/ tick'["prism"].step = "outputs" /\ Settling
    BY <1>0, <1>1, <1>2, <1>8 DEF RecordRound, Update, Reviewed, StepFits, Settling
  <2> QED
    BY <1>2, <2>1 DEF ProjectFits, StepFits, Settled, Settling, Approved, Board, Status
<1>9. CASE LookAtOutputs
  <2>1. /\ project' = project /\ task' = task /\ outputs' = outputs
        /\ tick'["prism"].step \in {"synthesis", "toReview", "complete"}
        /\ tick'["prism"].step = "complete" => outputs.pending = 0
        /\ project.status = "active" /\ Settling
    <3>1. outputs.pending > 0 \/ outputs.pending = 0
      BY <1>0
    <3> DEFINE next == IF outputs.pending + outputs.approved > 1 /\ ~outputs.synthesis
                       THEN "synthesis"
                       ELSE IF outputs.pending > 0 THEN "toReview" ELSE "complete"
    <3>2. next = "complete" => outputs.pending = 0
      BY <3>1
    <3>3. next \in {"synthesis", "toReview", "complete"}
      OBVIOUS
    <3>4. PrismGoes(next) /\ tick["prism"].step = "outputs"
      BY <1>9 DEF LookAtOutputs
    <3> HIDE DEF next
    <3> QED
      BY <1>1, <1>2, <3>2, <3>3, <3>4 DEF PrismGoes, StepFits, Settling, board
  <2> QED
    BY <1>2, <2>1 DEF ProjectFits, StepFits, Settled, Settling, Approved, Board, Status
<1>10. CASE CreateSynthesis
  <2>1. /\ project' = project /\ tick'["prism"].step = "list"
        /\ project.status = "active"
    BY <1>1, <1>2, <1>10 DEF CreateSynthesis, StepFits
  <2> QED
    BY <2>1 DEF ProjectFits, StepFits, Settled, Settling, Approved
<1>11. CASE EndProject
  <2>1. /\ task' = task /\ outputs' = outputs /\ tick'["prism"].step = "list"
        /\ project'.status \in {"review", "complete"}
        /\ project'.status = "complete" => outputs.pending = 0
        /\ Settling
    BY <1>0, <1>1, <1>2, <1>11 DEF EndProject, Update, Settling, Approved
  <2> QED
    BY <1>2, <2>1 DEF ProjectFits, StepFits, Settled, Settling, Approved, Board, Status
<1> QED
  BY <1>3, <1>4, <1>5, <1>6, <1>7, <1>8, <1>9, <1>10, <1>11 DEF Progressing

-----------------------------------------------------------------------------
(* The theorems.                                                            *)

\* The empty board satisfies the invariant.
LEMMA InitInv == Init => IInv
<1> SUFFICES ASSUME Init
             PROVE  IInv
  OBVIOUS
<1>1. /\ \A t \in Tasks : task[t].status = "none"
      /\ \A a \in Agents : tick[a] = Idle
      /\ "prism" \in Agents
      /\ project.status = "new"
  BY BoardConstants DEF Init, NoTask
<1>2. Idle.step = "idle" /\ Idle.queue = {}
  BY DEF Idle
<1> QED
  BY <1>1, <1>2, InitTyped
  DEF IInv, Listed, AtWork, TicksApart, NoTaskLeftBehind, DependenciesFirst, TriesLeft,
      StepFits, Settled, Settling, Approved, Board, Busy, At

\* Every step keeps it.
LEMMA NextInv == IInv /\ [Next]_vars => IInv'
<1> SUFFICES ASSUME IInv, [Next]_vars
             PROVE  IInv'
  OBVIOUS
<1>1. ProjectFits'
  BY OthersStand, DecomposingStands, ProgressingStands DEF Next
<1> QED
  BY <1>1, NextTyped, TicksKept, DependenciesKept, TriesKept
  DEF IInv, TicksFit, ProjectFits

\* The invariant holds in every reachable state.
THEOREM BoardInvariant == Spec => []IInv
  BY InitInv, NextInv, PTL DEF Spec

\* The board, the ticks and prism's locals keep their types.
THEOREM BoardTyped == Spec => []TypeOK
<1>1. IInv => TypeOK
  BY DEF IInv
<1> QED
  BY <1>1, BoardInvariant, PTL

\* A task is begun only when everything it depends on is done, whatever fails,
\* is retried, aborted or restarted.
THEOREM NothingBeforeItsDependencies == Spec => []DependenciesFirst
<1>1. IInv => DependenciesFirst
  BY DEF IInv
<1> QED
  BY <1>1, BoardInvariant, PTL

\* A task that is done is never touched again.
THEOREM DoneStaysDone == Spec => DoneIsFinal
<1>1. IInv /\ [Next]_vars
         => [\A t \in Tasks : Status(t) = "Done" => task'[t] = task[t]]_vars
  BY DoneKept
<1> QED
  BY <1>1, BoardInvariant, PTL DEF Spec, DoneIsFinal

\* A project is under review or complete only with all its tasks done, and
\* complete only with all its outputs approved.
THEOREM EndIsSettled == Spec => []EndedIsSettled
<1>1. IInv => EndedIsSettled
  BY DEF IInv, Settled, Settling, Approved, EndedIsSettled
<1> QED
  BY <1>1, BoardInvariant, PTL

\* As long as nothing aborts a tick, every task that is Doing has its agent at
\* it.
THEOREM NobodyLeavesATask == Spec => []NoTaskLeftBehind
<1>1. IInv => NoTaskLeftBehind
  BY DEF IInv
<1> QED
  BY <1>1, BoardInvariant, PTL

\* A task without dependencies fails no more than MaxRetries times.
THEOREM FirstTasksEnd == Spec => []FirstTasksGiveUp
<1>1. IInv => FirstTasksGiveUp
  BY DEF IInv, TriesLeft, FirstTasksGiveUp
<1> QED
  BY <1>1, BoardInvariant, PTL

-----------------------------------------------------------------------------
(* One supplement.                                                          *)

\* While no tick is aborted: a project has tasks of a supplement only from the
\* review that asks for one, a review comes before the round it is recorded
\* as, and what prism has written and has still to write is one chain.
SupplementInv ==
    faults = 0 =>
        /\ Cardinality(Supplements) <= Len(StandardChain)
        /\ At("prism", "supplement") =>
              Cardinality(Supplements) + Len(prism.todo) <= Len(StandardChain)
        /\ tick["prism"].step \in {"review", "supplement", "round", "passed"} =>
              project.round = 0
        /\ project.round = 0 /\ tick["prism"].step \notin {"supplement", "round"} =>
              Supplements = {}

\* A row stays what it is, or is a new one of a chain that is no supplement.
KindsStay ==
    \A t \in Tasks :
        \/ task'[t] = task[t]
        \/ /\ task[t].status # "none" /\ task'[t].status # "none"
           /\ task'[t].kind = task[t].kind
        \/ /\ task[t].status = "none"
           /\ task'[t].kind # "supplement"

\* The supplement is counted among the tasks.
LEMMA SupplementsCounted ==
  /\ IsFiniteSet(Supplements)
  /\ Cardinality(Supplements) \in Nat
<1>1. IsFiniteSet(Tasks)
  BY FS_Interval, BoardConstants DEF Tasks
<1>2. Supplements \subseteq Tasks
  BY DEF Supplements, Board
<1> QED
  BY <1>1, <1>2, FS_Subset, FS_CardinalityType

\* Rows that stay what they are stay in the supplement, or out of it.
LEMMA SupplementsStay ==
  ASSUME KindsStay
  PROVE  Supplements' = Supplements
  BY DEF KindsStay, Supplements, Board, Status

\* A row that is written for something else is no supplement.
LEMMA OtherKindStays ==
  ASSUME TypeOK, NEW t \in Tasks, IsNext(t), NEW agent, NEW depends,
         NEW kind \in Kinds \ {"supplement"},
         task' = [task EXCEPT ![t] = NewTask(agent, depends, kind)]
  PROVE  KindsStay
<1>1. task[t].status = "none"
  BY DEF IsNext, Board, Status
<1>2. NewTask(agent, depends, kind).kind # "supplement"
  BY DEF NewTask
<1>3. /\ task'[t] = NewTask(agent, depends, kind)
      /\ \A u \in Tasks \ {t} : task'[u] = task[u]
  BY DEF TypeOK
<1> QED
  BY <1>1, <1>2, <1>3 DEF KindsStay

\* The scheduler and the agents at their tasks change no kind.
LEMMA WorkersKeepKinds ==
  ASSUME IInv, Scheduling \/ \E a \in Agents : Ticking(a)
  PROVE  KindsStay
<1>0. /\ TypeOK
      /\ Listed
      /\ AtWork
      /\ task \in [Tasks -> TaskRows]
  BY DEF IInv, TypeOK
<1> USE DEF KindsStay, Status
<1>1. CASE Resolve
  BY <1>0, <1>1 DEF Resolve, Unlockable, TaskRows
<1>2. CASE Retry
  BY <1>0, <1>2 DEF Retry, Retryable, AfterRetry, TaskRows
<1>3. CASE StartAgents \/ TickEnds
  BY <1>3 DEF StartAgents, TickEnds, board
<1>4. ASSUME NEW a \in Agents, Ticking(a)
      PROVE  KindsStay
  <2>1. CASE List(a) \/ Work(a) \/ WriteOutput(a)
    BY <2>1 DEF List, Work, WriteOutput, board
  <2>2. CASE Take(a)
    <3>1. PICK e \in tick[a].queue : task' = [task EXCEPT ![e.id].status = "Doing"]
      BY <2>2 DEF Take
    <3>2. e.id \in Tasks /\ task[e.id].status = "Todo"
      BY <1>0, <3>1 DEF Listed
    <3> QED
      BY <1>0, <3>1, <3>2 DEF TaskRows
  <2>3. CASE FillGap(a)
    <3>1. PICK t \in Tasks :
             IsNext(t) /\ task' = [task EXCEPT ![t] = NewTask("focus", {}, "gap")]
      BY <2>3 DEF FillGap
    <3>2. "gap" \in Kinds \ {"supplement"}
      BY DEF Kinds
    <3> QED
      BY <1>0, <3>1, <3>2, OtherKindStays
  <2>4. CASE Finish(a)
    BY <1>0, <2>4 DEF Finish, At, AtWork, Busy, TaskRows
  <2>5. CASE FailTask(a)
    <3>1. PICK t \in Tasks : t = tick[a].current.id
      BY <1>0, <2>5 DEF FailTask, AtWork, Busy
    <3>2. task' = [task EXCEPT ![t].status = "Waiting",
                               ![t].retry = tick[a].current.retry + 1]
      BY <2>5, <3>1 DEF FailTask
    <3>3. task[t].status = "Doing"
      BY <1>0, <2>5, <3>1 DEF FailTask, AtWork, Busy
    <3> QED
      BY <1>0, <3>2, <3>3 DEF TaskRows
  <2> QED
    BY <1>4, <2>1, <2>2, <2>3, <2>4, <2>5 DEF Ticking
<1> QED
  BY <1>1, <1>2, <1>3, <1>4 DEF Scheduling

\* Prism writes one row of the supplement at a time.
LEMMA PrismKeepsKinds ==
  ASSUME IInv, Decomposing \/ Progressing
  PROVE  KindsStay \/ CreateSupplement
<1>0. TypeOK
  BY DEF IInv
<1>1. CASE CreateTask
  <2> DEFINE agent == Head(prism.todo).agent
             depends == Depends(Head(prism.todo))
  <2>1. PICK t \in Tasks :
           /\ IsNext(t)
           /\ task' = [task EXCEPT ![t] = NewTask(agent, depends, "plan")]
    BY <1>1 DEF CreateTask, CreateNext
  <2>2. "plan" \in Kinds \ {"supplement"}
    BY DEF Kinds
  <2> HIDE DEF agent, depends
  <2> QED
    BY <1>0, <2>1, <2>2, OtherKindStays
<1>2. CASE CreateSynthesis
  <2>1. "synthesis" \in Kinds \ {"supplement"}
    BY DEF Kinds
  <2> QED
    BY <1>0, <1>2, <2>1, OtherKindStays DEF CreateSynthesis
<1>3. CASE ListNewProjects \/ WriteBrief \/ Decompose \/ ChainCreated
           \/ StartProject \/ ListProjects \/ LookAtReview \/ LookAtTasks
           \/ Review \/ RecordRound \/ LookAtOutputs \/ EndProject
  BY <1>3
  DEF ListNewProjects, WriteBrief, Decompose, ChainCreated, StartProject,
      ListProjects, LookAtReview, LookAtTasks, Review, RecordRound,
      LookAtOutputs, EndProject, PrismGoes, Update, board, KindsStay
<1> QED
  BY <1>1, <1>2, <1>3 DEF Decomposing, Progressing

Reviewing == {"review", "supplement", "round", "passed"}

\* A step that writes no supplement, and leaves prism where it is or happens
\* outside of the review, changes nothing.
LEMMA NoReview ==
  ASSUME SupplementInv, KindsStay, faults' = faults,
         project'.round = project.round,
         \/ /\ tick'["prism"].step = tick["prism"].step
            /\ prism' = prism \/ ~At("prism", "supplement")
         \/ /\ tick["prism"].step \notin Reviewing
            /\ tick'["prism"].step \notin Reviewing
  PROVE  SupplementInv'
<1>1. Supplements' = Supplements
  BY SupplementsStay
<1> QED
  BY <1>1 DEF SupplementInv, At, Reviewing

\* The scheduler and the agents at their tasks review nothing.
LEMMA WorkersKeepSupplement ==
  ASSUME IInv, SupplementInv, Scheduling \/ \E a \in Agents : Ticking(a)
  PROVE  SupplementInv'
<1>0. KindsStay /\ "prism" \in Agents /\ tick \in [Agents -> Ticks]
  BY WorkersKeepKinds, BoardConstants DEF IInv, TypeOK, Ticks, Steps
<1> USE DEF Reviewing
<1>1. CASE Resolve \/ Retry \/ TickEnds
  BY <1>0, <1>1, NoReview DEF Resolve, Retry, TickEnds, board, bounds
<1>2. CASE StartAgents
  <2>1. tick["prism"].step = "idle"
    BY <1>0, <1>2 DEF StartAgents, IInv, TicksApart, At
  <2>2. tick'["prism"].step = "projects"
    BY <1>0, <1>2 DEF StartAgents, Idle
  <2> QED
    BY <1>0, <1>2, <2>1, <2>2, NoReview DEF StartAgents, board, bounds
<1>3. ASSUME NEW a \in Agents, Ticking(a)
      PROVE  SupplementInv'
  <2>1. project' = project /\ prism' = prism /\ faults' = faults
    BY <1>3
    DEF Ticking, List, Take, Work, WriteOutput, FillGap, Finish, FailTask, board, bounds
  <2>2. \A queue : GoesOn(queue).step \in {"idle", "next"}
    BY DEF GoesOn, Idle
  <2>3. CASE a # "prism"
    <3>1. ASSUME List(a) \/ Take(a) \/ Finish(a) \/ FailTask(a)
          PROVE  tick'["prism"] = tick["prism"]
      BY <1>0, <2>3, <3>1 DEF List, Take, Finish, FailTask
    <3>2. ASSUME Work(a) \/ WriteOutput(a) \/ FillGap(a)
          PROVE  tick'["prism"] = tick["prism"]
      BY <1>0, <2>3, <3>2 DEF Work, WriteOutput, FillGap, Goes
    <3>3. tick'["prism"] = tick["prism"]
      BY <1>3, <3>1, <3>2 DEF Ticking
    <3> QED
      BY <1>0, <2>1, <3>3, NoReview
  <2>4. CASE a = "prism"
    <3>1. tick["prism"].step \notin Reviewing
      BY <1>3, <2>4
      DEF Ticking, List, Take, Work, WriteOutput, FillGap, Finish, FailTask, At
    <3>2. tick'["prism"].step \notin Reviewing
      <4>1. CASE List("prism") \/ Finish("prism") \/ FailTask("prism")
        BY <1>0, <2>2, <4>1 DEF List, Finish, FailTask
      <4>2. CASE Take("prism")
        BY <1>0, <4>2 DEF Take, Ticks
      <4>3. CASE Work("prism") \/ WriteOutput("prism") \/ FillGap("prism")
        BY <1>0, <4>3 DEF Work, WriteOutput, FillGap, Goes, Ticks
      <4> QED
        BY <1>3, <2>4, <4>1, <4>2, <4>3 DEF Ticking
    <3> QED
      BY <1>0, <2>1, <3>1, <3>2, NoReview
  <2> QED
    BY <2>3, <2>4
<1> QED
  BY <1>1, <1>2, <1>3 DEF Scheduling

\* The rows of the supplement come from the chain, one for one.
LEMMA SupplementWritten ==
  ASSUME IInv, SupplementInv, CreateSupplement, faults = 0
  PROVE  /\ Cardinality(Supplements') = Cardinality(Supplements) + 1
         /\ Len(prism'.todo) + 1 = Len(prism.todo)
<1> DEFINE agent == Head(prism.todo).agent
           depends == Depends(Head(prism.todo))
<1>0. /\ task \in [Tasks -> TaskRows] /\ prism.todo \in Seq(Templates)
      /\ prism.todo # <<>>
  BY DEF IInv, TypeOK, CreateSupplement, CreateNext
<1>1. PICK t \in Tasks :
         /\ IsNext(t)
         /\ task' = [task EXCEPT ![t] = NewTask(agent, depends, "supplement")]
  BY DEF CreateSupplement, CreateNext
<1> HIDE DEF agent, depends
<1>2. task[t].status = "none"
  BY <1>1 DEF IsNext, Board, Status
<1>3. /\ NewTask(agent, depends, "supplement").kind = "supplement"
      /\ NewTask(agent, depends, "supplement").status # "none"
  BY DEF NewTask
<1>4. /\ task'[t] = NewTask(agent, depends, "supplement")
      /\ \A u \in Tasks \ {t} : task'[u] = task[u]
  BY <1>0, <1>1
<1>5. t \notin Supplements /\ Supplements' = Supplements \cup {t}
  BY <1>2, <1>3, <1>4 DEF Supplements, Board, Status
<1>6. Cardinality(Supplements') = Cardinality(Supplements) + 1
  BY <1>5, SupplementsCounted, FS_AddElement
<1>7. prism'.todo = Tail(prism.todo)
  BY DEF CreateSupplement, CreateNext
<1> QED
  BY <1>0, <1>6, <1>7, HeadTailProperties

\* Prism asks for one supplement, writes what it has asked for, and records
\* the round.
LEMMA PrismKeepsSupplement ==
  ASSUME IInv, SupplementInv, Decomposing \/ Progressing
  PROVE  SupplementInv'
<1>0. /\ "prism" \in Agents /\ tick \in [Agents -> Ticks]
      /\ project \in [status : {"new", "active", "review", "complete"},
                      round : Nat, brief : BOOLEAN]
      /\ faults' = faults
  BY BoardConstants, PrismTicks DEF IInv, TypeOK, Ticks, Steps
<1>1. ASSUME NEW step, Goes("prism", step)
      PROVE  tick'["prism"].step = step
  BY <1>0, <1>1 DEF Goes, Ticks
<1>2. /\ Cardinality(Supplements) \in Nat
      /\ Len(StandardChain) = 3
  BY SupplementsCounted DEF StandardChain
<1> USE DEF Reviewing, At
<1>3. CASE CreateSupplement
  <2>1. /\ tick' = tick /\ project' = project
        /\ tick["prism"].step = "supplement"
        /\ prism.todo \in Seq(Templates)
        /\ prism'.todo = Tail(prism.todo) /\ prism.todo # <<>>
    BY <1>3 DEF CreateSupplement, CreateNext, IInv, TypeOK
  <2>2. SUFFICES ASSUME faults = 0
                 PROVE  SupplementInv'
    BY <1>0 DEF SupplementInv
  <2>3. /\ Cardinality(Supplements') = Cardinality(Supplements) + 1
        /\ Len(prism'.todo) + 1 = Len(prism.todo)
    BY <1>3, <2>2, SupplementWritten
  <2>4. Len(prism'.todo) \in Nat /\ Len(prism.todo) \in Nat
    BY <2>1
  <2>5. Cardinality(Supplements) + Len(prism.todo) <= Len(StandardChain)
    BY <2>1, <2>2 DEF SupplementInv
  <2>6. /\ Cardinality(Supplements') <= Len(StandardChain)
        /\ Cardinality(Supplements') + Len(prism'.todo) <= Len(StandardChain)
    BY <1>2, <2>3, <2>4, <2>5
  <2> QED
    BY <2>1, <2>2, <2>6 DEF SupplementInv
<1>4. CASE KindsStay
  <2>0. Supplements' = Supplements
    BY <1>4, SupplementsStay
  <2>1. CASE ListNewProjects \/ ListProjects \/ LookAtReview \/ LookAtOutputs
    <3>1. \E step : PrismGoes(step) /\ step \notin Reviewing
      BY <2>1
      DEF ListNewProjects, ListProjects, LookAtReview, LookAtOutputs
    <3>2. tick["prism"].step \notin Reviewing
      BY <2>1 DEF ListNewProjects, ListProjects, LookAtReview, LookAtOutputs
    <3>3. project' = project /\ tick'["prism"].step \notin Reviewing
      BY <1>1, <3>1 DEF PrismGoes, board
    <3> QED
      BY <1>0, <1>4, <3>2, <3>3, NoReview
  <2>2. CASE WriteBrief \/ Decompose \/ StartProject \/ CreateSynthesis \/ EndProject
    <3>1. tick["prism"].step \notin Reviewing /\ tick'["prism"].step \notin Reviewing
      BY <1>1, <2>2
      DEF WriteBrief, Decompose, StartProject, CreateSynthesis, EndProject, Update
    <3>2. project'.round = project.round
      BY <1>0, <2>2
      DEF WriteBrief, Decompose, StartProject, CreateSynthesis, EndProject, Update, board
    <3> QED
      BY <1>0, <1>4, <3>1, <3>2, NoReview
  <2>3. CASE CreateTask
    BY <1>0, <1>4, <2>3, NoReview DEF CreateTask, CreateNext
  <2>4. CASE ChainCreated
    <3>1. project' = project
      BY <2>4 DEF ChainCreated, board
    <3>2. CASE At("prism", "create") /\ Goes("prism", "start")
      BY <1>0, <1>1, <1>4, <3>1, <3>2, NoReview
    <3>3. CASE At("prism", "supplement") /\ Goes("prism", "round")
      BY <1>0, <1>1, <2>0, <3>1, <3>3 DEF SupplementInv
    <3> QED
      BY <2>4, <3>2, <3>3 DEF ChainCreated
  <2>5. CASE LookAtTasks
    <3>1. /\ project' = project /\ tick["prism"].step = "tasks"
          /\ tick'["prism"].step \in {"list", "review", "outputs"}
          /\ tick'["prism"].step = "review" => project.round < 1
      BY <1>1, <2>5 DEF LookAtTasks, PrismGoes, board
    <3>2. project.round \in Nat
      BY <1>0
    <3> QED
      BY <1>0, <2>0, <3>1, <3>2 DEF SupplementInv
  <2>6. CASE Review
    <3>1. /\ project' = project /\ tick["prism"].step = "review"
          /\ \/ tick'["prism"].step \in {"passed", "outputs"}
             \/ /\ tick'["prism"].step = "supplement"
                /\ prism'.todo = StandardChain
      BY <1>1, <2>6 DEF Review, board
    <3>2. Cardinality({}) = 0
      BY FS_EmptySet
    <3>3. SUFFICES ASSUME faults = 0
                   PROVE  SupplementInv'
      BY <1>0 DEF SupplementInv
    <3>4. project.round = 0 /\ Supplements = {}
      BY <3>1, <3>3 DEF SupplementInv
    <3>5. Cardinality(Supplements') = 0
      BY <2>0, <3>2, <3>4
    <3>6. /\ Cardinality(Supplements') <= Len(StandardChain)
          /\ tick'["prism"].step = "supplement" =>
                Cardinality(Supplements') + Len(prism'.todo) <= Len(StandardChain)
      <4>1. tick'["prism"].step = "supplement" => prism'.todo = StandardChain
        BY <3>1
      <4>2. 0 <= Len(StandardChain) /\ 0 + Len(StandardChain) <= Len(StandardChain)
        BY <1>2
      <4> QED
        BY <3>5, <4>1, <4>2
    <3>7. project'.round = 0 /\ Supplements' = {}
      BY <2>0, <3>1, <3>4
    <3> QED
      BY <3>6, <3>7 DEF SupplementInv
  <2>7. CASE RecordRound
    <3>1. /\ project'.round = 1
          /\ tick'["prism"].step \in {"list", "outputs"}
      BY <1>0, <1>1, <2>7 DEF RecordRound, Update, Reviewed
    <3> QED
      BY <1>0, <2>0, <3>1 DEF SupplementInv
  <2>8. CASE CreateSupplement
    BY <1>3, <2>8
  <2> QED
    BY <2>1, <2>2, <2>3, <2>4, <2>5, <2>6, <2>7, <2>8 DEF Decomposing, Progressing
<1> QED
  BY <1>3, <1>4, PrismKeepsKinds

\* Every step keeps the invariant.
LEMMA NextKeepsSupplement ==
  ASSUME IInv, SupplementInv, [Next]_vars
  PROVE  SupplementInv'
<1>1. CASE Approve
  BY <1>1, NoReview DEF Approve, KindsStay, bounds
<1>2. CASE (\E a \in Agents : AbortTick(a)) \/ AbortLoop \/ Crash
  <2>1. faults' = faults + 1 /\ faults \in Nat
    BY <1>2, BoardConstants DEF AbortTick, AbortLoop, Crash, Fault, IInv, TypeOK
  <2> QED
    BY <2>1 DEF SupplementInv
<1>3. CASE UNCHANGED vars
  BY <1>3, NoReview DEF vars, board, bounds, KindsStay
<1> QED
  BY <1>1, <1>2, <1>3, WorkersKeepSupplement, PrismKeepsSupplement
  DEF Next, Surroundings

\* As long as no tick is aborted, a project is supplemented at most once.
THEOREM OneSupplement == Spec => []SupplementedOnce
<1>1. Init => SupplementInv
  <2> SUFFICES ASSUME Init
               PROVE  SupplementInv
    OBVIOUS
  <2>1. Supplements = {}
    BY DEF Init, NoTask, Supplements, Board, Status
  <2>2. tick["prism"].step = "idle" /\ project.round = 0
    BY BoardConstants DEF Init, Idle
  <2>3. Cardinality({}) = 0 /\ Len(StandardChain) = 3
    BY FS_EmptySet DEF StandardChain
  <2> QED
    BY <2>1, <2>2, <2>3 DEF SupplementInv, At
<1>2. SupplementInv => SupplementedOnce
  BY DEF SupplementInv, SupplementedOnce
<1> QED
  BY <1>1, <1>2, BoardInvariant, NextKeepsSupplement, PTL DEF Spec
=============================================================================
