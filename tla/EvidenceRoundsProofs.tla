-------------------------- MODULE EvidenceRoundsProofs --------------------------
(***************************************************************************)
(* Theorems about EvidenceRounds, for all queries, addresses, answers and   *)
(* budgets.                                                                 *)
(***************************************************************************)
EXTENDS EvidenceRounds, FiniteSetTheorems, SequenceTheorems, TLAPS

-----------------------------------------------------------------------------
(* Types.                                                                   *)

\* The approved brief is a well-typed start.
LEMMA InitTyped == Init => TypeOK
  BY RoundConstants
  DEF Init, TypeOK, Executions, Idle, FirstState, States, Verdicts, Unjudged, Steps, Nodes

\* A share of a sequence of queries is a sequence of queries, no longer than
\* the share and without a query of its own.
LEMMA FirstQueriesShared ==
  ASSUME NEW queries \in Seq(Queries)
  PROVE  /\ FirstQueries(queries) \in Seq(Queries)
         /\ Len(FirstQueries(queries)) <= Share
         /\ Share \in Nat \ {0}
<1>1. Share \in Nat \ {0}
  BY RoundConstants DEF Share
<1>2. Len(queries) \in Nat /\ \A i \in 1 .. Len(queries) : queries[i] \in Queries
  OBVIOUS
<1>3. CASE Len(queries) <= Share
  BY <1>1, <1>3 DEF FirstQueries
<1>4. CASE Len(queries) > Share
  <2>1. \A i \in 1 .. Share : queries[i] \in Queries
    BY <1>1, <1>2, <1>4
  <2>2. /\ SubSeq(queries, 1, Share) \in Seq(Queries)
        /\ Len(SubSeq(queries, 1, Share)) = Share
    BY <1>1, <2>1, SubSeqProperties
  <2> QED
    BY <1>1, <1>2, <1>4, <2>2 DEF FirstQueries
<1> QED
  BY <1>1, <1>2, <1>3, <1>4

\* The loops of collect() work on a query while they wait for its results.
Asking == exec.step \in {"sent", "ingest"} => exec.todo # <<>>

\* Sequences of no and of one element.
LEMMA ShortSequences ==
  ASSUME NEW S
  PROVE  <<>> \in Seq(S) /\ \A x \in S : <<x>> \in Seq(S)
  OBVIOUS

\* What the model answers when asked for queries.
LEMMA PlansTyped == Plans \cup {<<>>} \subseteq Seq(Queries)
  BY RoundConstants, ShortSequences

\* An idle execution is well typed.
LEMMA IdleTyped == Idle \in Executions
  BY DEF Idle, Executions, FirstState, States, Verdicts, Unjudged, Steps

\* A step of the execution alone is well typed if its new value is.
LEMMA GoesTyped ==
  ASSUME TypeOK, NEW e \in Executions, Goes(e)
  PROVE  TypeOK'
  BY DEF TypeOK, Goes, ledger, texts

\* What durable() and the surroundings do is well typed.
LEMMA DurableTyped ==
  ASSUME TypeOK,
         \/ StatusChanges \/ LibraryGrows \/ Begin \/ Raise \/ Crash
         \/ EnterNode \/ LeaveNode \/ Checkpoint,
         saved.node = "outline" => At("idle")
  PROVE  TypeOK'
<1> USE DEF ledger, texts
<1>1. CASE StatusChanges
  BY <1>1 DEF StatusChanges, TypeOK
<1>2. CASE LibraryGrows
  BY <1>2 DEF LibraryGrows, TypeOK
<1>3. CASE Begin
  <2>1. exec' \in Executions
    BY <1>3, IdleTyped DEF Begin, TypeOK, Executions, Steps
  <2> QED
    BY <1>3, <2>1, RoundConstants DEF Begin, TypeOK
<1>4. CASE Raise
  BY <1>4, IdleTyped DEF Raise, StatusAfterFailure, TypeOK
<1>5. CASE Crash
  BY <1>5, IdleTyped, GoesTyped DEF Crash
<1>6. CASE EnterNode
  <2>1. exec \in Executions
    BY DEF TypeOK
  <2>2. ASSUME NEW c \in Cached
        PROVE  [exec EXCEPT !.step = "checkpoint",
                            !.next = Updated(saved.state, c.result)] \in Executions
    <3>1. c.result \in States /\ saved.state \in States
      BY DEF Cached, TypeOK
    <3>2. saved.node \in {"collect", "coverage", "analyze"}
      BY <1>6 DEF EnterNode, At, TypeOK, Nodes
    <3>3. Updated(saved.state, c.result) \in States
      BY <3>1, <3>2 DEF Updated, States
    <3> QED
      BY <2>1, <3>3 DEF Executions, Steps
  <2>3. FirstStep \in Steps
    BY <1>6 DEF EnterNode, FirstStep, Steps, TypeOK, Nodes, At
  <2>4. [exec EXCEPT !.step = FirstStep] \in Executions
    BY <2>1, <2>3 DEF Executions
  <2> QED
    BY <1>6, <2>2, <2>4, GoesTyped DEF EnterNode
<1>7. CASE LeaveNode
  <2>1. exec' \in Executions
    BY <1>7 DEF LeaveNode, TypeOK, Executions, Steps
  <2>2. exec.next \in States
    BY DEF TypeOK, Executions
  <2> QED
    BY <1>7, <2>1, <2>2 DEF LeaveNode, TypeOK
<1>8. CASE Checkpoint
  <2>1. NextNode(exec.next) \in Nodes
    BY <1>8 DEF Checkpoint, NextNode, Nodes, TypeOK, At
  <2>2. exec.next \in States
    BY DEF TypeOK, Executions
  <2>3. [Idle EXCEPT !.step = "enter", !.next = exec.next] \in Executions
    BY <2>2, IdleTyped DEF Executions, Steps
  <2> QED
    BY <1>8, <2>1, <2>2, <2>3, IdleTyped DEF Checkpoint, TypeOK
<1> QED
  BY <1>1, <1>2, <1>3, <1>4, <1>5, <1>6, <1>7, <1>8

\* What the nodes do is well typed.
LEMMA NodesTyped ==
  ASSUME TypeOK, Asking, Collecting \/ Judging
  PROVE  TypeOK'
<1> USE DEF ledger, texts
<1>1. exec \in Executions
  BY DEF TypeOK
<1>2. /\ exec.next \in States
      /\ exec.todo \in Seq(Queries)
      /\ exec.found \in Seq(Urls)
      /\ exec.cited \in SUBSET Urls
  BY <1>1 DEF Executions
<1>3. CASE Reuse
  <2>1. PICK reused \in SUBSET library :
          Goes([exec EXCEPT !.step = "plan",
                            !.next.evidence = WithReused(reused)])
    BY <1>3 DEF Reuse
  <2>2. WithReused(reused) \in SUBSET Urls
    BY <1>2 DEF WithReused, States, TypeOK
  <2>3. [exec EXCEPT !.step = "plan", !.next.evidence = WithReused(reused)]
            \in Executions
    BY <1>1, <2>2 DEF Executions, States, Steps
  <2> QED
    BY <2>1, <2>3, GoesTyped
<1>4. CASE Plan
  <2>1. plan' \in Plans \cup {<<>>} /\ plan' \in Seq(Queries)
    BY <1>4, PlansTyped DEF Plan, TypeOK
  <2>2. exec.next.queries \in Seq(Queries)
    BY <1>2 DEF States
  <2>3. /\ FirstQueries(plan') \in Seq(Queries)
        /\ FirstQueries(exec.next.queries) \in Seq(Queries)
    BY <2>1, <2>2, FirstQueriesShared
  <2>4. exec' \in Executions
    BY <1>1, <1>4, <2>3 DEF Plan, Executions, Steps
  <2> QED
    BY <1>4, <2>1, <2>4 DEF Plan, TypeOK
<1>5. CASE Search
  <2>1. Head(exec.todo) \in Queries
    BY <1>2, <1>5 DEF Search
  <2>2. CASE TakeRecorded(Head(exec.todo))
    <3>1. search[Head(exec.todo)].results \in Seq(Urls)
      BY <2>1 DEF TypeOK
    <3>2. exec' \in Executions
      BY <1>1, <2>2, <3>1 DEF TakeRecorded, Executions, Steps
    <3> QED
      BY <1>5, <2>2, <3>2 DEF Search, TakeRecorded, TypeOK
  <2>3. CASE ReserveSearch(Head(exec.todo))
    <3>1. exec' \in Executions
      BY <1>1, <2>3 DEF ReserveSearch, Executions, Steps
    <3> QED
      BY <1>5, <2>1, <2>3, <3>1 DEF Search, ReserveSearch, TypeOK
  <2> QED
    BY <1>5, <2>2, <2>3 DEF Search
<1>6. CASE RecordSearch
  <2>1. PICK results \in Answers :
          /\ search' = [search EXCEPT ![Head(exec.todo)] =
                           [status |-> "complete", results |-> results]]
          /\ exec' = [exec EXCEPT !.step = "ingest", !.found = results]
    BY <1>6 DEF RecordSearch
  <2>2. results \in Seq(Urls)
    BY RoundConstants
  <2>3. exec' \in Executions
    BY <1>1, <2>1, <2>2 DEF Executions, Steps
  <2>4. search' \in [Queries -> [status : {"none", "reserved", "complete"},
                                results : Seq(Urls)]]
    BY <2>1, <2>2 DEF TypeOK
  <2> QED
    BY <1>6, <2>3, <2>4 DEF RecordSearch, TypeOK
<1>7. CASE TakeResult
  <2>1. Head(exec.found) \in Urls /\ Tail(exec.found) \in Seq(Urls)
    BY <1>2, <1>7 DEF TakeResult
  <2>2. [exec EXCEPT !.found = Tail(@)] \in Executions
    BY <1>1, <2>1 DEF Executions
  <2>3. [exec EXCEPT !.found = Tail(@),
                     !.next.sources = @ \cup {Head(exec.found)},
                     !.next.evidence = @ \cup {Head(exec.found)}] \in Executions
    BY <1>1, <2>1 DEF Executions, States
  <2>4. exec' \in Executions
    BY <1>7, <2>2, <2>3 DEF TakeResult
  <2> QED
    BY <1>7, <2>1, <2>4 DEF TakeResult, TypeOK
<1>8. CASE NextQuery
  <2>1. Tail(exec.todo) \in Seq(Queries)
    BY <1>2, <1>8 DEF NextQuery, At, Asking
  <2>2. [exec EXCEPT !.step = "search", !.todo = Tail(@), !.found = <<>>]
            \in Executions
    BY <1>1, <2>1, ShortSequences DEF Executions, Steps
  <2> QED
    BY <1>8, <2>2, GoesTyped DEF NextQuery
<1>9. CASE Collected
  <2>1. exec.next.round + 1 \in Nat
    BY <1>2 DEF States
  <2>2. [exec EXCEPT !.step = "leave", !.next.round = @ + 1] \in Executions
    BY <1>1, <2>1 DEF Executions, States, Steps
  <2> QED
    BY <1>9, <2>2, GoesTyped DEF Collected
<1>10. CASE Judge
  <2>1. ASSUME NEW sufficient \in BOOLEAN, NEW queries \in Plans \cup {<<>>}
        PROVE  [exec EXCEPT !.step = "leave",
                  !.next.verdict = [sufficient |-> sufficient,
                                    about |-> exec.next.evidence],
                  !.next.queries = queries] \in Executions
    <3>1. queries \in Seq(Queries)
      BY PlansTyped
    <3>2. [sufficient |-> sufficient, about |-> exec.next.evidence] \in Verdicts
      BY <1>2 DEF States, Verdicts
    <3> QED
      BY <1>1, <3>1, <3>2 DEF Executions, States, Steps
  <2> QED
    BY <1>10, <2>1, GoesTyped DEF Judge
<1>11. CASE Analyze
  <2>1. ASSUME NEW cited \in SUBSET Urls \ {{}}
        PROVE  [exec EXCEPT !.step = "store", !.cited = cited] \in Executions
    BY <1>1 DEF Executions, Steps
  <2> QED
    BY <1>11, <2>1, GoesTyped DEF Analyze
<1>12. CASE StoreClaims
  <2>1. claims' \in Seq(SUBSET Urls)
    <3>1. claims \in Seq(SUBSET Urls)
      BY DEF TypeOK
    <3>2. <<exec.cited>> \in Seq(SUBSET Urls)
      BY <1>2, ShortSequences
    <3> QED
      BY <1>12, <3>1, <3>2 DEF StoreClaims
  <2>2. exec' \in Executions
    BY <1>1, <1>12, <2>1 DEF StoreClaims, Executions, States, Steps
  <2> QED
    BY <1>12, <2>1, <2>2 DEF StoreClaims, TypeOK
<1> QED
  BY <1>3, <1>4, <1>5, <1>6, <1>7, <1>8, <1>9, <1>10, <1>11, <1>12
  DEF Collecting, Judging

-----------------------------------------------------------------------------
(* The inductive invariant.  It says what a node may have done to the state  *)
(* while it works and when it leaves, and that recorded results of nodes     *)
(* are such results.                                                         *)

\* The step belongs to the node of the checkpoint.
Flow ==
    /\ ~At("idle") => saved.node # "outline"
    /\ exec.step \in {"reuse", "plan", "search", "sent", "ingest"} =>
          saved.node = "collect"
    /\ At("judge") => saved.node = "coverage"
    /\ exec.step \in {"analyze", "store"} => saved.node = "analyze"
    /\ exec.step \in {"enter", "reuse", "judge", "analyze", "store"} =>
          exec.next = saved.state
    /\ Asking

Keeps(a, b) == a.evidence \subseteq b.evidence /\ a.sources \subseteq b.sources

Gathering ==
    exec.step \in {"plan", "search", "sent", "ingest"} =>
        /\ Keeps(saved.state, exec.next)
        /\ exec.next.round = saved.state.round
        /\ exec.next.queries = saved.state.queries

\* b may be the result of a node that began with a.
Result(node, a, b) ==
    /\ Keeps(a, b)
    /\ node = "collect" => b.round = a.round + 1
    /\ node = "coverage" => /\ b.round = a.round /\ b.evidence = a.evidence
                            /\ b.verdict.about = b.evidence
    /\ node = "analyze" =>
          /\ b = [a EXCEPT !.claims = claims]
          /\ claims # <<>>

Outcome ==
    exec.step \in {"leave", "checkpoint"} =>
        Result(saved.node, saved.state, exec.next)

Recorded == \A c \in cache : Result(c.node, c.key, c.result)

\* Claims are stored in the analysis, not before.
ClaimsLate == claims # <<>> => saved.node \in {"analyze", "outline"}

Rounds ==
    /\ saved.state.round <= MaxRounds
    /\ saved.node = "collect" => saved.state.round < MaxRounds

RoundsInv ==
    /\ TypeOK
    /\ Flow
    /\ Gathering
    /\ Outcome
    /\ Recorded
    /\ ClaimsLate
    /\ ClaimsStand
    /\ VerdictIsCurrent
    /\ Rounds

\* Nothing is gathered, recorded or claimed at the start.
LEMMA InitRounds == Init => RoundsInv
<1> SUFFICES ASSUME Init PROVE RoundsInv
  OBVIOUS
<1>1. TypeOK
  BY InitTyped
<1>2. At("idle") /\ claims = <<>> /\ cache = {}
      /\ saved.node = "collect" /\ saved.state.round = 0
  BY DEF Init, Idle, At, FirstState
<1>3. ClaimsStand
  BY <1>2 DEF ClaimsStand
<1> QED
  BY <1>1, <1>2, <1>3, RoundConstants
  DEF RoundsInv, Flow, Asking, At, Gathering, Outcome, Recorded, ClaimsLate,
      VerdictIsCurrent, Rounds

\* A step that neither moves the checkpoint nor records nor claims anything
\* has to respect what concerns the execution.
LEMMA ExecutionStep ==
  ASSUME RoundsInv, TypeOK', saved' = saved, cache' = cache, claims' = claims,
         Flow', Gathering', Outcome'
  PROVE  RoundsInv'
<1>1. Recorded' /\ ClaimsLate' /\ ClaimsStand' /\ VerdictIsCurrent' /\ Rounds'
  BY DEF RoundsInv, Recorded, Result, Keeps, ClaimsLate, ClaimsStand,
         VerdictIsCurrent, Rounds
<1> QED
  BY <1>1 DEF RoundsInv

\* The surroundings, and an execution that begins or ends.
LEMMA SurroundingsKeep ==
  ASSUME RoundsInv, TypeOK',
         StatusChanges \/ LibraryGrows \/ Begin \/ Raise \/ Crash
  PROVE  RoundsInv'
<1>1. /\ saved' = saved /\ cache' = cache /\ claims' = claims
      /\ \/ exec' = exec
         \/ exec'.step = "idle"
         \/ /\ exec'.step = "enter" /\ exec'.next = saved.state
            /\ saved.node # "outline"
  <2>1. /\ Idle.step = "idle"
        /\ [Idle EXCEPT !.step = "enter", !.next = saved.state].step = "enter"
        /\ [Idle EXCEPT !.step = "enter", !.next = saved.state].next = saved.state
    BY IdleTyped DEF Idle, Executions
  <2> QED
    BY <2>1 DEF StatusChanges, LibraryGrows, Begin, Raise, Crash, Goes
<1>2. Flow'
  BY <1>1 DEF RoundsInv, Flow, Asking, At
<1>3. Gathering' /\ Outcome'
  BY <1>1 DEF RoundsInv, Gathering, Outcome, Result, Keeps
<1> QED
  BY <1>1, <1>2, <1>3, ExecutionStep

\* A node that is entered starts from the checkpoint or takes a result that
\* was recorded for exactly this state.
LEMMA EnterNodeKeeps ==
  ASSUME RoundsInv, TypeOK', EnterNode
  PROVE  RoundsInv'
<1> USE DEF EnterNode, Goes
<1>1. saved' = saved /\ cache' = cache /\ claims' = claims
  OBVIOUS
<1>2. At("enter") /\ saved.node # "outline" /\ exec.next = saved.state
      /\ exec \in Executions /\ saved.node \in Nodes
  BY DEF RoundsInv, Flow, At, TypeOK
<1>3. CASE \E c \in Cached :
             Goes([exec EXCEPT !.step = "checkpoint",
                               !.next = Updated(saved.state, c.result)])
  <2>1. PICK c \in Cached :
             exec' = [exec EXCEPT !.step = "checkpoint",
                                  !.next = Updated(saved.state, c.result)]
    BY <1>3
  <2>2. Result(saved.node, saved.state, Updated(saved.state, c.result))
    <3>1. Result(saved.node, saved.state, c.result)
      BY DEF Cached, RoundsInv, Recorded
    <3>2. c.result \in States /\ saved.state \in States
      BY DEF Cached, RoundsInv, TypeOK
    <3> QED
      BY <1>2, <3>1, <3>2 DEF Result, Keeps, Updated, States, Nodes
  <2>3. /\ exec'.step = "checkpoint"
        /\ exec'.next = Updated(saved.state, c.result)
    BY <1>2, <2>1 DEF Executions
  <2>4. Outcome'
    BY <1>1, <2>2, <2>3 DEF Outcome, Result, Keeps
  <2> QED
    BY <1>1, <1>2, <2>3, <2>4, ExecutionStep DEF Flow, Asking, At, Gathering
<1>4. CASE exec' = [exec EXCEPT !.step = FirstStep]
  <2>1. exec'.step = FirstStep /\ exec'.next = saved.state
    BY <1>2, <1>4 DEF Executions
  <2>2. /\ FirstStep \in {"reuse", "judge", "analyze"}
        /\ FirstStep = "reuse" => saved.node = "collect"
        /\ FirstStep = "judge" => saved.node = "coverage"
        /\ FirstStep = "analyze" => saved.node = "analyze"
    BY <1>2 DEF FirstStep, Nodes
  <2> QED
    BY <1>1, <1>2, <2>1, <2>2, ExecutionStep
    DEF Flow, Asking, At, Gathering, Outcome
<1> QED
  BY <1>3, <1>4

\* collect() only adds to the state; coverage() judges the state's evidence.
LEMMA WorkKeeps ==
  ASSUME RoundsInv, TypeOK', Collecting \/ Judge \/ Analyze
  PROVE  RoundsInv'
<1>1. saved' = saved /\ cache' = cache /\ claims' = claims
  BY DEF Collecting, Reuse, Plan, Search, RecordSearch, TakeResult, NextQuery,
         Collected, Judge, Analyze, Goes
<1>2. /\ exec \in Executions /\ exec.next \in States
      /\ saved.state \in States /\ Flow /\ Gathering
  BY DEF RoundsInv, TypeOK, Executions
<1>3. CASE Reuse
  <2>1. PICK reused \in SUBSET library :
          exec' = [exec EXCEPT !.step = "plan",
                               !.next.evidence = WithReused(reused)]
    BY <1>3 DEF Reuse, Goes
  <2>2. At("reuse") /\ saved.node = "collect" /\ exec.next = saved.state
    BY <1>2, <1>3 DEF Reuse, Flow, At
  <2>3. /\ exec'.step = "plan"
        /\ exec'.next.evidence = exec.next.evidence \cup reused
        /\ exec'.next.sources = exec.next.sources
        /\ exec'.next.round = exec.next.round
        /\ exec'.next.queries = exec.next.queries
    BY <1>2, <2>1 DEF Executions, States, WithReused
  <2> QED
    BY <1>1, <2>2, <2>3, ExecutionStep
    DEF Flow, Asking, At, Gathering, Keeps, Outcome
<1>4. CASE Plan \/ Search \/ RecordSearch \/ NextQuery
  <2>1. /\ exec'.step \in {"search", "sent", "ingest"}
        /\ exec'.next = exec.next
        /\ exec'.step \in {"sent", "ingest"} => exec.todo # <<>> /\ exec'.todo = exec.todo
        /\ exec.step \in {"plan", "search", "sent", "ingest"}
    BY <1>2, <1>4 DEF Plan, Search, TakeRecorded, ReserveSearch, RecordSearch,
       NextQuery, Goes, At, Flow, Asking, Executions
  <2> QED
    BY <1>1, <1>2, <2>1, ExecutionStep
    DEF Flow, Asking, At, Gathering, Keeps, Outcome
<1>5. CASE TakeResult
  <2>1. exec.step = "ingest"
    BY <1>5 DEF TakeResult, At
  <2>2. /\ exec'.step = exec.step
        /\ exec'.todo = exec.todo
        /\ exec.next.evidence \subseteq exec'.next.evidence
        /\ exec.next.sources \subseteq exec'.next.sources
        /\ exec'.next.round = exec.next.round
        /\ exec'.next.queries = exec.next.queries
    <3>1. CASE exec' = [exec EXCEPT !.found = Tail(@)]
      BY <1>2, <3>1 DEF Executions
    <3>2. CASE exec' = [exec EXCEPT !.found = Tail(@),
                                    !.next.sources = @ \cup {Head(exec.found)},
                                    !.next.evidence = @ \cup {Head(exec.found)}]
      BY <1>2, <3>2 DEF Executions, States
    <3> QED
      BY <1>5, <3>1, <3>2 DEF TakeResult
  <2> QED
    BY <1>1, <1>2, <2>1, <2>2, ExecutionStep
    DEF Flow, Asking, At, Gathering, Keeps, Outcome
<1>6. CASE Collected
  <2>1. exec.step = "search" /\ saved.node = "collect"
    BY <1>2, <1>6 DEF Collected, At, Flow
  <2>2. /\ exec'.step = "leave"
        /\ exec'.next.evidence = exec.next.evidence
        /\ exec'.next.sources = exec.next.sources
        /\ exec'.next.round = exec.next.round + 1
    BY <1>2, <1>6 DEF Collected, Goes, Executions, States
  <2> QED
    BY <1>1, <1>2, <2>1, <2>2, ExecutionStep
    DEF Flow, Asking, At, Gathering, Keeps, Outcome, Result
<1>7. CASE Judge
  <2>1. exec.step = "judge" /\ saved.node = "coverage" /\ exec.next = saved.state
    BY <1>2, <1>7 DEF Judge, At, Flow
  <2>2. PICK sufficient \in BOOLEAN, queries \in Plans \cup {<<>>} :
          exec' = [exec EXCEPT !.step = "leave",
                     !.next.verdict = [sufficient |-> sufficient,
                                       about |-> exec.next.evidence],
                     !.next.queries = queries]
    BY <1>7 DEF Judge, Goes
  <2>3. /\ exec'.step = "leave"
        /\ exec'.next.evidence = exec.next.evidence
        /\ exec'.next.sources = exec.next.sources
        /\ exec'.next.round = exec.next.round
        /\ exec'.next.verdict.about = exec.next.evidence
    BY <1>2, <2>2 DEF Executions, States
  <2> QED
    BY <1>1, <1>2, <2>1, <2>3, ExecutionStep
    DEF Flow, Asking, At, Gathering, Keeps, Outcome, Result
<1>8. CASE Analyze
  <2>1. exec.step = "analyze" /\ saved.node = "analyze" /\ exec.next = saved.state
    BY <1>2, <1>8 DEF Analyze, At, Flow
  <2>2. exec'.step = "store" /\ exec'.next = exec.next
    BY <1>2, <1>8 DEF Analyze, Goes, Executions
  <2> QED
    BY <1>1, <2>1, <2>2, ExecutionStep
    DEF Flow, Asking, At, Gathering, Outcome
<1> QED
  BY <1>3, <1>4, <1>5, <1>6, <1>7, <1>8 DEF Collecting

\* Claims are stored once, from evidence of the checkpoint, and the state
\* then holds all of them.
LEMMA StoreClaimsKeeps ==
  ASSUME RoundsInv, TypeOK', StoreClaims
  PROVE  RoundsInv'
<1>1. /\ saved' = saved /\ cache' = cache
      /\ exec.step = "store" /\ saved.node = "analyze"
      /\ exec.next = saved.state
      /\ exec \in Executions /\ exec.next \in States
      /\ exec.next.evidence \in SUBSET Urls
  BY DEF StoreClaims, RoundsInv, Flow, At, TypeOK, Executions, States
<1>2. /\ exec'.step = "leave"
      /\ exec'.next = [saved.state EXCEPT !.claims = claims']
  BY <1>1 DEF StoreClaims, Executions
<1>3. claims' # <<>>
  BY DEF StoreClaims
<1>4. ClaimsStand'
  <2>1. CASE claims # <<>>
    BY <1>1, <2>1 DEF StoreClaims, RoundsInv, ClaimsStand
  <2>2. CASE claims = <<>>
    BY <1>1, <2>2 DEF StoreClaims, ClaimsStand
  <2> QED
    BY <2>1, <2>2
<1>5. Outcome'
  BY <1>1, <1>2, <1>3 DEF Outcome, Result, Keeps, States
<1>6. Recorded'
  <2> SUFFICES ASSUME NEW c \in cache
               PROVE  Result(c.node, c.key, c.result)'
    BY <1>1 DEF Recorded
  <2>1. Result(c.node, c.key, c.result)
    BY DEF RoundsInv, Recorded
  <2> QED
    BY <2>1 DEF Result, Keeps, StoreClaims
<1> QED
  BY <1>1, <1>2, <1>4, <1>5, <1>6
  DEF RoundsInv, Flow, Asking, At, Gathering, ClaimsLate, VerdictIsCurrent, Rounds

\* A recorded result is the outcome of the node.
LEMMA LeaveNodeKeeps ==
  ASSUME RoundsInv, TypeOK', LeaveNode
  PROVE  RoundsInv'
<1>1. /\ saved' = saved /\ claims' = claims
      /\ exec.step = "leave" /\ exec \in Executions
      /\ Result(saved.node, saved.state, exec.next)
  BY DEF LeaveNode, At, RoundsInv, Outcome, TypeOK
<1>2. exec'.step = "checkpoint" /\ exec'.next = exec.next
  BY <1>1 DEF LeaveNode, Executions
<1>4. Recorded'
  BY <1>1 DEF LeaveNode, RoundsInv, Recorded, Result, Keeps
<1>5. Flow' /\ Gathering' /\ Outcome'
  BY <1>1, <1>2
  DEF RoundsInv, Flow, Asking, At, Gathering, Outcome, Result, Keeps
<1> QED
  BY <1>1, <1>4, <1>5
  DEF RoundsInv, ClaimsLate, ClaimsStand, VerdictIsCurrent, Rounds

\* The checkpoint takes over the outcome of the node.
LEMMA CheckpointKeeps ==
  ASSUME RoundsInv, TypeOK', Checkpoint
  PROVE  /\ RoundsInv'
         /\ Keeps(saved.state, saved'.state)
         /\ saved.state.round <= saved'.state.round
<1>1. /\ exec.step = "checkpoint" /\ saved.node \in Nodes \ {"outline"}
      /\ Result(saved.node, saved.state, exec.next)
      /\ saved'.state = exec.next /\ saved'.node = NextNode(exec.next)
      /\ cache' = cache /\ claims' = claims
      /\ saved.state \in States /\ exec.next \in States
  BY DEF Checkpoint, At, RoundsInv, Flow, Outcome, TypeOK, Executions
<1>2. /\ saved.state.round \in Nat /\ exec.next.round \in Nat
      /\ exec.next.claims \in Seq(SUBSET Urls)
  BY <1>1 DEF States
<1>3. /\ saved.node = "collect" => saved'.node = "coverage"
      /\ saved.node = "coverage" =>
            \/ saved'.node = "collect" /\ exec.next.round < MaxRounds
            \/ saved'.node = "analyze"
      /\ saved.node = "analyze" => saved'.node = "outline"
  BY <1>1 DEF NextNode, NeedsRound
<1>4. /\ saved.node = "analyze" =>
            /\ exec.next.evidence = saved.state.evidence
            /\ exec.next.verdict = saved.state.verdict
            /\ exec.next.round = saved.state.round
            /\ exec.next.claims = claims
            /\ claims # <<>>
      /\ saved.node # "analyze" => claims = <<>>
  BY <1>1 DEF Result, States, RoundsInv, ClaimsLate, Nodes
<1>5. \/ exec'.step = "idle" /\ saved.node = "analyze"
      \/ /\ exec'.step = "enter" /\ exec'.next = exec.next
         /\ saved.node # "analyze"
  BY DEF Checkpoint, Idle
<1>6. Flow' /\ Gathering' /\ Outcome'
  BY <1>1, <1>3, <1>5 DEF Flow, Asking, At, Gathering, Outcome, Nodes
<1>7. Recorded' /\ ClaimsLate'
  BY <1>1, <1>3, <1>4
  DEF RoundsInv, Recorded, Result, Keeps, ClaimsLate, Nodes
<1>8. ClaimsStand'
  BY <1>1, <1>3, <1>4 DEF RoundsInv, ClaimsStand, Nodes
<1>9. VerdictIsCurrent'
  BY <1>1, <1>3, <1>4 DEF RoundsInv, VerdictIsCurrent, Result, Nodes
<1>10. Rounds' /\ saved.state.round <= saved'.state.round
  BY <1>1, <1>2, <1>3, <1>4, RoundConstants
  DEF RoundsInv, Rounds, Result, Nodes
<1>11. Keeps(saved.state, saved'.state)
  BY <1>1 DEF Result
<1> QED
  BY <1>6, <1>7, <1>8, <1>9, <1>10, <1>11 DEF RoundsInv

\* A checkpoint counts the round it ends, and loses none.
LEMMA CheckpointRounds ==
  ASSUME RoundsInv, Checkpoint
  PROVE  \/ saved'.state.round = saved.state.round + 1
         \/ saved'.state.round = saved.state.round /\ saved.node # "collect"
<1>1. /\ exec.step = "checkpoint" /\ saved.node \in Nodes \ {"outline"}
      /\ Result(saved.node, saved.state, exec.next)
      /\ saved'.state = exec.next
      /\ saved.state \in States
  BY DEF Checkpoint, At, RoundsInv, Flow, Outcome, TypeOK
<1> QED
  BY <1>1 DEF Result, States, Nodes

\* Every step keeps the invariant and, with it, what has been gathered.
LEMMA StepRounds ==
  ASSUME RoundsInv, [Next]_vars
  PROVE  /\ RoundsInv'
         /\ Keeps(saved.state, saved'.state)
         /\ saved.state.round <= saved'.state.round
<1>1. saved.state.round \in Nat
  BY DEF RoundsInv, TypeOK, States
<1>2. Keeps(saved.state, saved.state) /\ saved.state.round <= saved.state.round
  BY <1>1 DEF Keeps
<1>3. TypeOK /\ Asking /\ (saved.node = "outline" => At("idle"))
  BY DEF RoundsInv, Flow
<1>4. CASE UNCHANGED vars
  <2>1. /\ saved' = saved /\ exec' = exec /\ cache' = cache /\ claims' = claims
        /\ TypeOK'
    BY <1>3, <1>4 DEF vars, ledger, texts, TypeOK
  <2>2. Flow' /\ Gathering' /\ Outcome'
    BY <2>1
    DEF RoundsInv, Flow, Asking, At, Gathering, Outcome, Result, Keeps
  <2> QED
    BY <1>2, <2>1, <2>2, ExecutionStep
<1>5. CASE StatusChanges \/ LibraryGrows \/ Begin \/ Raise \/ Crash
  <2>1. saved' = saved
    BY <1>5 DEF StatusChanges, LibraryGrows, Begin, Raise, Crash, Goes
  <2> QED
    BY <1>2, <1>3, <1>5, <2>1, DurableTyped, SurroundingsKeep
<1>6. CASE EnterNode
  <2>1. saved' = saved
    BY <1>6 DEF EnterNode, Goes
  <2> QED
    BY <1>2, <1>3, <1>6, <2>1, DurableTyped, EnterNodeKeeps
<1>7. CASE LeaveNode
  <2>1. saved' = saved
    BY <1>7 DEF LeaveNode
  <2> QED
    BY <1>2, <1>3, <1>7, <2>1, DurableTyped, LeaveNodeKeeps
<1>8. CASE Checkpoint
  BY <1>3, <1>8, DurableTyped, CheckpointKeeps
<1>9. CASE Collecting \/ Judge \/ Analyze
  <2>1. saved' = saved
    BY <1>9 DEF Collecting, Reuse, Plan, Search, RecordSearch, TakeResult,
                NextQuery, Collected, Judge, Analyze, Goes
  <2> QED
    BY <1>2, <1>3, <1>9, <2>1, NodesTyped, WorkKeeps DEF Judging
<1>10. CASE StoreClaims
  <2>1. saved' = saved
    BY <1>10 DEF StoreClaims
  <2> QED
    BY <1>2, <1>3, <1>10, <2>1, NodesTyped, StoreClaimsKeeps DEF Judging
<1> QED
  BY <1>4, <1>5, <1>6, <1>7, <1>8, <1>9, <1>10 DEF Next, Judging

\* The invariant holds in every execution.
LEMMA RoundsInvariant == Spec => []RoundsInv
  BY InitRounds, StepRounds, PTL DEF Spec

\* Checkpoints, ledgers and records keep their types.
THEOREM RoundsTyped == Spec => []TypeOK
<1>1. RoundsInv => TypeOK
  BY DEF RoundsInv
<1> QED
  BY <1>1, RoundsInvariant, PTL

\* Whatever fails and resumes between them, the analysis follows a judgement
\* of exactly the evidence it works with.
THEOREM AnalysisFollowsVerdict == Spec => []VerdictIsCurrent
<1>1. RoundsInv => VerdictIsCurrent
  BY DEF RoundsInv
<1> QED
  BY <1>1, RoundsInvariant, PTL

\* The claims of a run are stored once, rest on its evidence, and are all
\* there when the outline is written.
THEOREM ClaimsStoredOnce == Spec => []ClaimsStand
<1>1. RoundsInv => ClaimsStand
  BY DEF RoundsInv
<1> QED
  BY <1>1, RoundsInvariant, PTL

\* No round and no recovery loses evidence, sources or rounds.
THEOREM NothingGatheredIsLost == Spec => EvidenceGrows
<1>1. RoundsInv /\ [Next]_vars =>
        [/\ saved.state.evidence \subseteq saved'.state.evidence
         /\ saved.state.sources \subseteq saved'.state.sources
         /\ saved.state.round <= saved'.state.round]_vars
  BY StepRounds DEF Keeps
<1> QED
  BY <1>1, RoundsInvariant, PTL DEF Spec, EvidenceGrows

-----------------------------------------------------------------------------
(* The search budget.  The queries asked so far are those of the rounds      *)
(* before, not more than a share for each, and some of this round's.         *)

Elements(s) == {s[i] : i \in DOMAIN s}

\* The queries this round may ask, however often it is executed.
RoundQueries ==
    IF saved.node # "collect" THEN {}
    ELSE Elements(FirstQueries(IF saved.state.round = 0 THEN plan
                                                        ELSE saved.state.queries))

TodoOfRound ==
    exec.step \in {"search", "sent", "ingest"} =>
        Elements(exec.todo) \subseteq RoundQueries

AskedWithin(earlier) ==
    /\ Cardinality(earlier) <= saved.state.round * Share
    /\ Asked \subseteq earlier \cup RoundQueries

QueriesInv ==
    /\ TodoOfRound
    /\ \E earlier \in SUBSET Queries : AskedWithin(earlier)

\* A sequence has no more elements than places.
LEMMA ElementsBounded ==
  ASSUME NEW s \in Seq(Queries)
  PROVE  /\ Elements(s) \subseteq Queries
         /\ IsFiniteSet(Elements(s))
         /\ Cardinality(Elements(s)) <= Len(s)
<1>1. Len(s) \in Nat /\ DOMAIN s = 1 .. Len(s) /\ s \in [1 .. Len(s) -> Queries]
  BY LenProperties
<1>2. Elements(s) \subseteq Queries
  BY <1>1 DEF Elements
<1>3. s \in Surjection(1 .. Len(s), Elements(s))
  BY <1>1 DEF Elements, Surjection
<1>4. IsFiniteSet(1 .. Len(s)) /\ Cardinality(1 .. Len(s)) = Len(s)
  <2>1. PICK n \in Nat : n = Len(s)
    BY <1>1
  <2>2. IsFiniteSet(1 .. n) /\ Cardinality(1 .. n) = IF 1 > n THEN 0 ELSE n - 1 + 1
    BY FS_Interval
  <2> QED
    BY <2>1, <2>2
<1>5. /\ IsFiniteSet(Elements(s))
      /\ Cardinality(Elements(s)) <= Cardinality(1 .. Len(s))
  BY <1>3, <1>4, FS_Surjection
<1> QED
  BY <1>2, <1>4, <1>5

\* A round asks no more than its share.
LEMMA RoundQueriesBounded ==
  ASSUME TypeOK
  PROVE  /\ RoundQueries \subseteq Queries
         /\ IsFiniteSet(RoundQueries)
         /\ Cardinality(RoundQueries) \in Nat
         /\ Cardinality(RoundQueries) <= Share
<1> DEFINE proposed == IF saved.state.round = 0 THEN plan ELSE saved.state.queries
<1>1. proposed \in Seq(Queries)
  BY PlansTyped DEF TypeOK, States
<1>2. /\ FirstQueries(proposed) \in Seq(Queries)
      /\ Len(FirstQueries(proposed)) <= Share
      /\ Share \in Nat \ {0}
  BY <1>1, FirstQueriesShared
<1>3. Len(FirstQueries(proposed)) \in Nat
  BY <1>2
<1>4. /\ Elements(FirstQueries(proposed)) \subseteq Queries
      /\ IsFiniteSet(Elements(FirstQueries(proposed)))
      /\ Cardinality(Elements(FirstQueries(proposed)))
            <= Len(FirstQueries(proposed))
  BY <1>2, ElementsBounded
<1>5. Cardinality(Elements(FirstQueries(proposed))) \in Nat
  BY <1>4, FS_CardinalityType
<1>6. IsFiniteSet({}) /\ Cardinality({}) = 0
  BY FS_EmptySet
<1>7. CASE saved.node # "collect"
  BY <1>2, <1>6, <1>7 DEF RoundQueries
<1>8. CASE saved.node = "collect"
  <2>1. RoundQueries = Elements(FirstQueries(proposed))
    BY <1>8 DEF RoundQueries
  <2> HIDE DEF proposed
  <2> QED
    BY <1>2, <1>3, <1>4, <1>5, <2>1
<1> QED
  BY <1>7, <1>8

\* A set of queries is finite.
LEMMA QuerySets ==
  ASSUME NEW S \in SUBSET Queries
  PROVE  IsFiniteSet(S) /\ Cardinality(S) \in Nat
  BY RoundConstants, FS_Subset, FS_CardinalityType

\* Nothing has been asked at the start.
LEMMA InitQueries == Init => QueriesInv
<1> SUFFICES ASSUME Init PROVE QueriesInv
  OBVIOUS
<1>1. Asked = {} /\ exec.step = "idle" /\ saved.state.round = 0
  BY DEF Init, Asked, Idle, FirstState
<1>2. Share \in Nat
  BY RoundConstants DEF Share
<1>3. AskedWithin({})
  BY <1>1, <1>2, FS_EmptySet DEF AskedWithin
<1> QED
  BY <1>1, <1>3 DEF QueriesInv, TodoOfRound

\* As long as checkpoint, plan and ledger stay, only the queries at hand
\* have to be looked at.
LEMMA QuietStep ==
  ASSUME QueriesInv, saved' = saved, plan' = plan, search' = search, TodoOfRound'
  PROVE  QueriesInv'
  BY DEF QueriesInv, AskedWithin, RoundQueries, Asked

\* The ledger grows by queries of this round only.
LEMMA SearchingKeeps ==
  ASSUME RoundsInv, QueriesInv, Search \/ RecordSearch
  PROVE  QueriesInv'
<1>1. /\ saved' = saved /\ plan' = plan
      /\ exec.todo \in Seq(Queries) /\ exec.todo # <<>>
      /\ exec.step \in {"search", "sent"}
      /\ exec \in Executions
  BY DEF Search, RecordSearch, RoundsInv, Flow, Asking, At, TypeOK, Executions
<1>2. Head(exec.todo) \in Elements(exec.todo)
  BY <1>1 DEF Elements
<1>3. Head(exec.todo) \in RoundQueries
  BY <1>1, <1>2 DEF QueriesInv, TodoOfRound
<1>4. Asked' \subseteq Asked \cup {Head(exec.todo)}
  BY DEF Search, TakeRecorded, ReserveSearch, RecordSearch, Asked, RoundsInv, TypeOK
<1>5. RoundQueries' = RoundQueries
  BY <1>1 DEF RoundQueries
<1>6. exec'.todo = exec.todo
  BY <1>1 DEF Search, TakeRecorded, ReserveSearch, RecordSearch, Executions
<1>7. TodoOfRound'
  BY <1>1, <1>5, <1>6 DEF QueriesInv, TodoOfRound
<1>8. PICK earlier \in SUBSET Queries : AskedWithin(earlier)
  BY DEF QueriesInv
<1>9. AskedWithin(earlier)'
  BY <1>1, <1>3, <1>4, <1>5, <1>8 DEF AskedWithin
<1> QED
  BY <1>7, <1>9 DEF QueriesInv

\* The plan is made when nothing of this round has been asked, and a round
\* takes its queries from the plan or from the checkpoint.
LEMMA PlanKeeps ==
  ASSUME RoundsInv, QueriesInv, Plan
  PROVE  QueriesInv'
<1>1. /\ saved' = saved /\ search' = search /\ saved.node = "collect"
      /\ exec.next.round = saved.state.round
      /\ exec.next.queries = saved.state.queries
      /\ exec \in Executions
      /\ saved.state.round \in Nat
  BY DEF Plan, RoundsInv, Flow, Gathering, At, TypeOK, States
<1>2. exec'.todo = FirstQueries(IF saved.state.round = 0 THEN plan'
                                                      ELSE saved.state.queries)
  <2>1. CASE saved.state.round = 0
    <3>1. exec' = [exec EXCEPT !.step = "search", !.todo = FirstQueries(plan')]
      BY <1>1, <2>1 DEF Plan
    <3>2. exec'.todo = FirstQueries(plan')
      BY <1>1, <3>1 DEF Executions
    <3> QED
      BY <2>1, <3>2
  <2>2. CASE saved.state.round > 0
    <3>1. exec' = [exec EXCEPT !.step = "search",
                               !.todo = FirstQueries(exec.next.queries)]
      BY <1>1, <2>2 DEF Plan
    <3>2. exec'.todo = FirstQueries(exec.next.queries)
      BY <1>1, <3>1 DEF Executions
    <3> QED
      BY <1>1, <2>2, <3>2
  <2> QED
    BY <1>1, <2>1, <2>2
<1>3. TodoOfRound'
  BY <1>1, <1>2 DEF TodoOfRound, RoundQueries
<1>4. PICK earlier \in SUBSET Queries : AskedWithin(earlier)
  BY DEF QueriesInv
<1>5. RoundQueries \subseteq RoundQueries'
  <2>1. CASE plan' = plan
    BY <1>1, <2>1 DEF RoundQueries
  <2>2. CASE plan = <<>> /\ saved.state.round = 0
    <3>1. FirstQueries(<<>>) = <<>>
      BY RoundConstants DEF FirstQueries, Share
    <3>2. Elements(<<>>) = {}
      BY DEF Elements
    <3> QED
      BY <1>1, <2>2, <3>1, <3>2 DEF RoundQueries
  <2> QED
    BY <1>1, <2>1, <2>2 DEF Plan
<1>6. AskedWithin(earlier)'
  BY <1>1, <1>4, <1>5 DEF AskedWithin, Asked
<1> QED
  BY <1>3, <1>6 DEF QueriesInv

\* When a round is over its queries count as earlier ones.
LEMMA RoundOverKeeps ==
  ASSUME RoundsInv, QueriesInv, Checkpoint
  PROVE  QueriesInv'
<1>1. /\ plan' = plan /\ search' = search
      /\ exec.step = "checkpoint" /\ saved.node \in Nodes \ {"outline"}
      /\ Result(saved.node, saved.state, exec.next)
      /\ saved'.state = exec.next /\ saved'.node = NextNode(exec.next)
      /\ saved.state \in States /\ exec.next \in States
      /\ TypeOK
  BY DEF Checkpoint, At, RoundsInv, Flow, Outcome, TypeOK, Executions, ledger
<1>2. saved.state.round \in Nat /\ Share \in Nat
  BY <1>1, RoundConstants DEF States, Share
<1>3. exec'.step \in {"idle", "enter"}
  BY DEF Checkpoint, Idle
<1>4. TodoOfRound'
  BY <1>3 DEF TodoOfRound
<1>5. PICK earlier \in SUBSET Queries : AskedWithin(earlier)
  BY DEF QueriesInv
<1>6. Asked' = Asked
  BY <1>1 DEF Asked
<1>7. CASE saved.node = "collect"
  <2>1. saved'.state.round = saved.state.round + 1
    BY <1>1, <1>7 DEF Result
  <2>2. PICK all : all = earlier \cup RoundQueries
    OBVIOUS
  <2>3. /\ all \in SUBSET Queries
        /\ IsFiniteSet(earlier) /\ IsFiniteSet(RoundQueries)
        /\ Cardinality(earlier) \in Nat /\ Cardinality(RoundQueries) \in Nat
        /\ Cardinality(RoundQueries) <= Share
    BY <1>1, <2>2, RoundQueriesBounded, QuerySets
  <2>4. Cardinality(all) <= Cardinality(earlier) + Cardinality(RoundQueries)
    <3>1. Cardinality(all) = Cardinality(earlier) + Cardinality(RoundQueries)
                             - Cardinality(earlier \cap RoundQueries)
      BY <2>2, <2>3, FS_Union
    <3>2. Cardinality(earlier \cap RoundQueries) \in Nat
      BY <2>3, QuerySets
    <3> QED
      BY <2>3, <3>1, <3>2
  <2>5. Cardinality(all) \in Nat
    BY <2>3, QuerySets
  <2>6. Cardinality(all) <= saved.state.round * Share + Share
    BY <1>2, <1>5, <2>3, <2>4, <2>5 DEF AskedWithin
  <2>7. saved.state.round * Share + Share = (saved.state.round + 1) * Share
    BY <1>2
  <2>8. AskedWithin(all)'
    BY <1>5, <1>6, <2>1, <2>2, <2>6, <2>7 DEF AskedWithin
  <2> QED
    BY <1>4, <2>3, <2>8 DEF QueriesInv
<1>8. CASE saved.node # "collect"
  <2>1. saved'.state.round = saved.state.round
    BY <1>1, <1>8 DEF Result, Nodes, States
  <2>2. AskedWithin(earlier)'
    BY <1>5, <1>6, <1>8, <2>1 DEF AskedWithin, RoundQueries
  <2> QED
    BY <1>4, <2>2 DEF QueriesInv
<1> QED
  BY <1>7, <1>8

\* Every step keeps within the shares.
LEMMA StepQueries ==
  ASSUME RoundsInv, QueriesInv, [Next]_vars
  PROVE  QueriesInv'
<1>1. exec \in Executions
  BY DEF RoundsInv, TypeOK
<1>2. CASE UNCHANGED vars
  BY <1>2, QuietStep DEF vars, ledger, QueriesInv, TodoOfRound, RoundQueries
<1>3. CASE StatusChanges \/ LibraryGrows
  BY <1>3, QuietStep
  DEF StatusChanges, LibraryGrows, ledger, QueriesInv, TodoOfRound, RoundQueries
<1>4. CASE Begin \/ Raise \/ Crash \/ EnterNode \/ LeaveNode
  <2>1. saved' = saved /\ plan' = plan /\ search' = search
    BY <1>4 DEF Begin, Raise, Crash, EnterNode, LeaveNode, Goes, ledger
  <2>2. exec'.step \notin {"search", "sent", "ingest"}
    <3>1. /\ Idle.step = "idle"
          /\ [Idle EXCEPT !.step = "enter", !.next = saved.state].step = "enter"
      BY IdleTyped DEF Idle, Executions
    <3>2. FirstStep \in {"reuse", "judge", "analyze"} \/ ~EnterNode
      BY DEF EnterNode, FirstStep, RoundsInv, Flow, TypeOK, Nodes, At
    <3> QED
      BY <1>1, <1>4, <3>1, <3>2
      DEF Begin, Raise, Crash, EnterNode, LeaveNode, Goes, Executions
  <2> QED
    BY <2>1, <2>2, QuietStep DEF TodoOfRound
<1>5. CASE Checkpoint
  BY <1>5, RoundOverKeeps
<1>6. CASE Plan
  BY <1>6, PlanKeeps
<1>7. CASE Search \/ RecordSearch
  BY <1>7, SearchingKeeps
<1>8. CASE Reuse \/ Collected \/ Judge \/ Analyze \/ StoreClaims
  <2>1. saved' = saved /\ plan' = plan /\ search' = search
    BY <1>8 DEF Reuse, Collected, Judge, Analyze, StoreClaims, Goes, ledger
  <2>2. exec'.step \notin {"search", "sent", "ingest"}
    BY <1>1, <1>8
    DEF Reuse, Collected, Judge, Analyze, StoreClaims, Goes, Executions
  <2> QED
    BY <2>1, <2>2, QuietStep DEF TodoOfRound
<1>9. CASE TakeResult \/ NextQuery
  <2>1. /\ saved' = saved /\ plan' = plan /\ search' = search
        /\ exec.step = "ingest" /\ exec.todo \in Seq(Queries)
        /\ exec.todo # <<>>
    BY <1>1, <1>9
    DEF TakeResult, NextQuery, Goes, ledger, At, RoundsInv, Flow, Asking, Executions
  <2>2. exec'.todo = exec.todo \/ exec'.todo = Tail(exec.todo)
    BY <1>1, <1>9 DEF TakeResult, NextQuery, Goes, Executions
  <2>3. Elements(Tail(exec.todo)) \subseteq Elements(exec.todo)
    BY <2>1, HeadTailProperties DEF Elements
  <2>4. Elements(exec'.todo) \subseteq Elements(exec.todo)
    BY <2>2, <2>3
  <2> QED
    BY <2>1, <2>4, QuietStep DEF QueriesInv, TodoOfRound, RoundQueries
<1> QED
  BY <1>2, <1>3, <1>4, <1>5, <1>6, <1>7, <1>8, <1>9 DEF Next, Collecting, Judging

\* Products of natural numbers grow with their factors.
LEMMA ProductGrows ==
  ASSUME NEW a \in Nat, NEW b \in Nat, NEW c \in Nat, a <= b
  PROVE  a * c <= b * c
<1>1. b - a \in Nat /\ b = a + (b - a)
  OBVIOUS
<1>2. PICK d \in Nat : b = a + d
  BY <1>1
<1>3. b * c = a * c + d * c /\ d * c \in Nat /\ a * c \in Nat
  BY <1>2
<1> QED
  BY <1>3

\* The shares of the rounds fit into the budget, up to the round it has a query
\* for: with fewer queries than rounds a share is one query.
LEMMA SharesFit ==
  ASSUME NEW round \in Nat, round < MaxRounds, round < MaxQueries
  PROVE  Share \in Nat /\ round * Share + Share <= MaxQueries
<1>1. /\ MaxQueries \in Nat /\ MaxRounds \in Nat /\ MaxRounds > 0
  BY RoundConstants
<1>2. CASE MaxRounds <= MaxQueries
  <2>1. /\ MaxQueries \div MaxRounds \in Nat
        /\ MaxRounds * (MaxQueries \div MaxRounds) <= MaxQueries
    BY <1>1
  <2>2. Share \in Nat /\ MaxRounds * Share <= MaxQueries
    BY <1>1, <1>2, <2>1 DEF Share
  <2>3. round + 1 \in Nat /\ round + 1 <= MaxRounds
    BY <1>1
  <2>4. (round + 1) * Share <= MaxRounds * Share
    BY <1>1, <2>2, <2>3, ProductGrows
  <2>5. (round + 1) * Share = round * Share + Share
    BY <2>2
  <2>6. round * Share \in Nat /\ MaxRounds * Share \in Nat
    BY <1>1, <2>2
  <2> QED
    BY <1>1, <2>2, <2>4, <2>5, <2>6
<1>3. CASE MaxRounds > MaxQueries
  <2>1. MaxQueries \div MaxRounds = 0
    BY <1>1, <1>3
  <2>2. Share = 1
    BY <2>1 DEF Share
  <2> QED
    BY <1>1, <2>2
<1> QED
  BY <1>1, <1>2, <1>3

\* A query at hand that has not been asked can still be paid for.
LEMMA ShareLeft ==
  ASSUME RoundsInv, QueriesInv
  PROVE  QueriesSuffice
<1> SUFFICES ASSUME NewQuery, ~(saved.state.round >= MaxQueries)
             PROVE  Cardinality(Asked) < MaxQueries
  BY DEF QueriesSuffice
<1>1. /\ TypeOK /\ saved.node = "collect" /\ saved.state.round < MaxRounds
      /\ saved.state.round \in Nat /\ exec.todo \in Seq(Queries)
  BY DEF NewQuery, RoundsInv, Flow, Rounds, At, TypeOK, States, Executions
<1>2. Head(exec.todo) \in RoundQueries /\ Head(exec.todo) \notin Asked
  BY <1>1 DEF NewQuery, QueriesInv, TodoOfRound, At, Elements, Asked
<1>3. PICK earlier \in SUBSET Queries : AskedWithin(earlier)
  BY DEF QueriesInv
<1>4. /\ IsFiniteSet(earlier) /\ IsFiniteSet(RoundQueries)
      /\ Cardinality(earlier) \in Nat /\ Cardinality(RoundQueries) \in Nat
      /\ Cardinality(RoundQueries) <= Share
      /\ earlier \cup RoundQueries \in SUBSET Queries
  BY <1>1, RoundQueriesBounded, QuerySets
<1>5. PICK both : both = earlier \cup RoundQueries
  OBVIOUS
<1>6. IsFiniteSet(both) /\ Cardinality(both) \in Nat
  BY <1>4, <1>5, QuerySets
<1>7. Cardinality(both) <= Cardinality(earlier) + Cardinality(RoundQueries)
  <2>1. Cardinality(both) = Cardinality(earlier) + Cardinality(RoundQueries)
                            - Cardinality(earlier \cap RoundQueries)
    BY <1>4, <1>5, FS_Union
  <2>2. Cardinality(earlier \cap RoundQueries) \in Nat
    BY <1>4, QuerySets
  <2> QED
    BY <1>4, <1>6, <2>1, <2>2
<1>8. /\ Cardinality(Asked) \in Nat
      /\ Cardinality(Asked) < Cardinality(both)
  <2>1. Asked \in SUBSET both /\ Asked # both
    BY <1>2, <1>3, <1>5 DEF AskedWithin
  <2>2. /\ Cardinality(Asked) <= Cardinality(both)
        /\ Cardinality(both) = Cardinality(Asked) => both = Asked
    BY <1>6, <2>1, FS_Subset
  <2>3. Cardinality(Asked) \in Nat
    BY QuerySets DEF Asked
  <2> QED
    BY <1>6, <2>1, <2>2, <2>3
<1>9. Cardinality(both) <= MaxQueries
  <2>1. saved.state.round < MaxQueries /\ MaxQueries \in Nat
    BY <1>1, RoundConstants
  <2>2. Share \in Nat /\ saved.state.round * Share + Share <= MaxQueries
    BY <1>1, <2>1, SharesFit
  <2>3. Cardinality(earlier) <= saved.state.round * Share
    BY <1>3 DEF AskedWithin
  <2>4. saved.state.round * Share \in Nat
    BY <1>1, <2>2
  <2> QED
    BY <1>4, <1>6, <1>7, <2>1, <2>2, <2>3, <2>4
<1> QED
  BY <1>6, <1>8, <1>9, RoundConstants

\* In the rounds that the budget has a query for, collect() never meets a query
\* it cannot pay for, however the rounds are interrupted and resumed.
THEOREM RoundsCanSearch ==
  Spec => []QueriesSuffice
<1>1. RoundsInv /\ QueriesInv => QueriesSuffice
  BY ShareLeft
<1>2. RoundsInv /\ QueriesInv /\ [Next]_vars => QueriesInv'
  BY StepQueries
<1> QED
  BY <1>1, <1>2, InitQueries, RoundsInvariant, PTL DEF Spec

-----------------------------------------------------------------------------
(* The budget of sources.  An execution that repeats a round takes the same  *)
(* results in the same order, so that what the run has ingested is always    *)
(* within reach of the checkpoint: up to the first result that it has not.   *)

\* The queries of this round, however often it is executed.
Round ==
    FirstQueries(IF saved.state.round = 0 THEN plan ELSE saved.state.queries)

Complete(q) == search[q].status = "complete"
Results(k) == search[Round[k]].results

\* What the first n queries of the round have found, and what is taken when i
\* results of the k-th are.
Through(n) == UNION {Elements(Results(j)) : j \in 1 .. n}
Until(k, i) == Through(k - 1) \cup {Results(k)[h] : h \in 1 .. i}

\* No execution can have gone further than i results of the k-th query.
Stops(k, i) ==
    \/ ~Complete(Round[k])
    \/ i < Len(Results(k)) /\ Results(k)[i + 1] \notin ingested

Replayable ==
    saved.node = "collect" =>
        /\ ingested \subseteq saved.state.sources \cup Through(Len(Round))
        /\ \A k \in 1 .. Len(Round) : \A i \in 0 .. Len(Results(k)) :
              Stops(k, i) => ingested \subseteq saved.state.sources \cup Until(k, i)

\* Between two rounds the checkpoint knows every source.
SourcesKnown ==
    /\ saved.state.sources \subseteq ingested
    /\ saved.node # "collect" => ingested = saved.state.sources
    /\ exec.step \in {"leave", "checkpoint"} => ingested = exec.next.sources

\* The place of the execution in the round: queries done, results taken.
Passed == Len(Round) - Len(exec.todo)
Taken == Len(Results(Passed + 1)) - Len(exec.found)

InRound ==
    exec.step \in {"search", "sent", "ingest"} =>
        /\ Passed \in Nat
        /\ \A j \in 1 .. Len(exec.todo) : exec.todo[j] = Round[Passed + j]
        /\ \A j \in 1 .. Passed : Complete(Round[j])
        /\ Cardinality(exec.next.sources) < MaxSources =>
              Through(Passed) \subseteq exec.next.sources

InQuery ==
    /\ At("sent") => search[Head(exec.todo)].status = "reserved"
    /\ At("ingest") =>
          /\ Complete(Round[Passed + 1])
          /\ Taken \in Nat
          /\ \A j \in 1 .. Len(exec.found) :
                exec.found[j] = Results(Passed + 1)[Taken + j]
          /\ Cardinality(exec.next.sources) < MaxSources =>
                Until(Passed + 1, Taken) \subseteq exec.next.sources

\* A round that is worked on has no recorded result; one that has, has all
\* sources.
RoundsRecorded ==
    /\ exec.step \in {"reuse", "plan", "search", "sent", "ingest"} =>
          \A c \in cache : c.node = "collect" => c.key # saved.state
    /\ \A c \in cache : c.node = "collect" =>
          \/ c.key.round < saved.state.round
          \/ /\ saved.node = "collect" /\ c.key = saved.state
             /\ c.result.sources = ingested

SourcesInv ==
    /\ Cardinality(ingested) <= MaxSources
    /\ \A q \in Queries : ~Complete(q) => search[q].results = <<>>
    /\ Replayable
    /\ SourcesKnown
    /\ exec.step \in {"plan", "search", "sent", "ingest"} =>
          exec.next.sources \subseteq ingested
    /\ InRound
    /\ InQuery
    /\ RoundsRecorded

\* The queries of a round and their results are typed.
LEMMA RoundTyped ==
  ASSUME TypeOK
  PROVE  /\ Round \in Seq(Queries) /\ Len(Round) \in Nat
         /\ \A k \in 1 .. Len(Round) :
               /\ Round[k] \in Queries
               /\ Results(k) \in Seq(Urls) /\ Len(Results(k)) \in Nat
<1> DEFINE proposed == IF saved.state.round = 0 THEN plan ELSE saved.state.queries
<1>1. proposed \in Seq(Queries)
  BY PlansTyped DEF TypeOK, States
<1>2. Round \in Seq(Queries)
  BY <1>1, FirstQueriesShared DEF Round
<1>3. Len(Round) \in Nat /\ \A k \in 1 .. Len(Round) : Round[k] \in Queries
  BY <1>2
<1>4. \A k \in 1 .. Len(Round) : Results(k) \in Seq(Urls)
  BY <1>3 DEF Results, TypeOK
<1> QED
  BY <1>2, <1>3, <1>4

\* What has been taken grows along the round.
LEMMA UntilGrows ==
  ASSUME TypeOK, NEW k \in 1 .. Len(Round), NEW i \in 0 .. Len(Results(k))
  PROVE  /\ Through(k - 1) \subseteq Until(k, i)
         /\ Until(k, i) \subseteq Through(k)
         /\ Until(k, Len(Results(k))) = Through(k)
         /\ \A j \in i .. Len(Results(k)) : Until(k, i) \subseteq Until(k, j)
         /\ \A l \in k .. Len(Round) : Through(k) \subseteq Through(l)
         /\ i < Len(Results(k)) =>
               /\ Results(k)[i + 1] \in Urls
               /\ Until(k, i + 1) = Until(k, i) \cup {Results(k)[i + 1]}
<1>1. /\ k \in Nat /\ k - 1 \in Nat /\ i \in Nat /\ Len(Round) \in Nat
      /\ Results(k) \in Seq(Urls) /\ Len(Results(k)) \in Nat
      /\ DOMAIN Results(k) = 1 .. Len(Results(k))
  BY RoundTyped
<1>2. Through(k) = Through(k - 1) \cup Elements(Results(k))
  <2>1. 1 .. k = (1 .. k - 1) \cup {k}
    BY <1>1
  <2> QED
    BY <2>1 DEF Through, Results
<1>3. \A j \in 0 .. Len(Results(k)) :
        {Results(k)[h] : h \in 1 .. j} \subseteq Elements(Results(k))
  BY <1>1 DEF Elements
<1>4. {Results(k)[h] : h \in 1 .. Len(Results(k))} = Elements(Results(k))
  BY <1>1 DEF Elements
<1>5. \A j \in i .. Len(Results(k)) : Until(k, i) \subseteq Until(k, j)
  BY <1>1 DEF Until
<1>6. \A l \in k .. Len(Round) : Through(k) \subseteq Through(l)
  BY <1>1 DEF Through
<1>7. ASSUME i < Len(Results(k))
      PROVE  /\ Results(k)[i + 1] \in Urls
             /\ Until(k, i + 1) = Until(k, i) \cup {Results(k)[i + 1]}
  <2>1. 1 .. i + 1 = (1 .. i) \cup {i + 1} /\ i + 1 \in 1 .. Len(Results(k))
    BY <1>1, <1>7
  <2> QED
    BY <1>1, <2>1 DEF Until
<1> QED
  BY <1>2, <1>3, <1>4, <1>5, <1>6, <1>7 DEF Until

\* What a run has ingested is finite.
LEMMA IngestedFinite ==
  ASSUME TypeOK
  PROVE  /\ ingested \in SUBSET Urls
         /\ IsFiniteSet(ingested) /\ Cardinality(ingested) \in Nat
  BY RoundConstants, FS_Subset, FS_CardinalityType DEF TypeOK

\* An execution whose budget is used up has every source of the run.
LEMMA BudgetUsedUp ==
  ASSUME TypeOK, SourcesInv, NEW S \in SUBSET ingested
  PROVE  /\ IsFiniteSet(S) /\ Cardinality(S) \in Nat
         /\ ~ Cardinality(S) < MaxSources => S = ingested
<1>1. /\ IsFiniteSet(ingested) /\ Cardinality(ingested) \in Nat
      /\ Cardinality(ingested) <= MaxSources
  BY IngestedFinite DEF SourcesInv
<1>2. /\ IsFiniteSet(S) /\ Cardinality(S) <= Cardinality(ingested)
      /\ Cardinality(S) = Cardinality(ingested) => S = ingested
  BY <1>1, FS_Subset
<1>3. Cardinality(S) \in Nat
  BY <1>2, FS_CardinalityType
<1>4. MaxSources \in Nat
  BY RoundConstants
<1> QED
  BY <1>1, <1>2, <1>3, <1>4

\* The run has no sources and no results at the start.
LEMMA InitSources == Init => SourcesInv
<1> SUFFICES ASSUME Init PROVE SourcesInv
  OBVIOUS
<1>1. /\ ingested = {} /\ cache = {} /\ exec.step = "idle"
      /\ saved.state.sources = {} /\ saved.node = "collect"
      /\ search = [q \in Queries |-> [status |-> "none", results |-> <<>>]]
  BY DEF Init, Idle, FirstState
<1>2. Cardinality(ingested) <= MaxSources
  BY <1>1, FS_EmptySet, RoundConstants
<1>3. \A q \in Queries : search[q].results = <<>>
  BY <1>1
<1> QED
  BY <1>1, <1>2, <1>3
  DEF SourcesInv, Replayable, SourcesKnown, InRound, InQuery, At, RoundsRecorded

\* The round has no recorded result.
Unrecorded == \A c \in cache : c.node = "collect" => c.key # saved.state

\* As long as checkpoint, plan and ledger stay, so does the round.
LEMMA RoundStays ==
  ASSUME saved' = saved, plan' = plan, search' = search
  PROVE  /\ Round' = Round
         /\ \A k : Results(k)' = Results(k) /\ Through(k)' = Through(k)
         /\ \A k, i : Until(k, i)' = Until(k, i)
         /\ \A q : Complete(q)' <=> Complete(q)
<1>1. Round' = Round
  BY DEF Round
<1>2. \A k : Results(k)' = Results(k)
  BY <1>1 DEF Results
<1>3. \A k : Through(k)' = Through(k)
  BY <1>2 DEF Through
<1> QED
  BY <1>1, <1>2, <1>3 DEF Until, Complete

\* So does what is within reach of the checkpoint.
LEMMA ReachStays ==
  ASSUME saved' = saved, plan' = plan, search' = search, ingested' = ingested,
         Replayable
  PROVE  Replayable'
  BY RoundStays DEF Replayable, Stops

\* Steps outside the loops of collect() leave what has been ingested.
LEMMA OutsideKeeps ==
  ASSUME SourcesInv, saved' = saved, cache' = cache, plan' = plan,
         search' = search, ingested' = ingested,
         exec'.step \notin {"search", "sent", "ingest"},
         exec'.step \in {"leave", "checkpoint"} => ingested = exec'.next.sources,
         exec'.step = "plan" => exec'.next.sources \subseteq ingested,
         exec'.step \in {"reuse", "plan"} => Unrecorded
  PROVE  SourcesInv'
<1>1. Replayable'
  BY ReachStays DEF SourcesInv
<1>2. SourcesKnown'
  BY DEF SourcesInv, SourcesKnown
<1>3. InRound' /\ InQuery'
  BY DEF InRound, InQuery, At
<1>4. RoundsRecorded'
  BY DEF SourcesInv, RoundsRecorded, Unrecorded
<1> QED
  BY <1>1, <1>2, <1>3, <1>4 DEF SourcesInv, Complete

\* So do steps that leave the execution where it is.
LEMMA AsideKeeps ==
  ASSUME SourcesInv, saved' = saved, cache' = cache, plan' = plan,
         search' = search, ingested' = ingested, exec' = exec
  PROVE  SourcesInv'
<1>1. Replayable'
  BY ReachStays DEF SourcesInv
<1>2. SourcesKnown'
  BY DEF SourcesInv, SourcesKnown
<1>3. Passed' = Passed /\ Taken' = Taken
  BY RoundStays DEF Passed, Taken
<1>4. InRound'
  BY <1>3, RoundStays DEF SourcesInv, InRound
<1>5. InQuery'
  BY <1>3, RoundStays DEF SourcesInv, InQuery, At
<1>6. RoundsRecorded'
  BY DEF SourcesInv, RoundsRecorded
<1> QED
  BY <1>1, <1>2, <1>4, <1>5, <1>6 DEF SourcesInv, Complete

\* A node begins with the sources of the run, or its result has them.
LEMMA EnterNodeKeepsSources ==
  ASSUME RoundsInv, SourcesInv, EnterNode
  PROVE  SourcesInv'
<1>1. /\ saved' = saved /\ cache' = cache /\ plan' = plan /\ search' = search
      /\ ingested' = ingested /\ exec \in Executions
      /\ exec.step = "enter" /\ exec.next = saved.state
      /\ saved.node \in Nodes \ {"outline"} /\ saved.state \in States
  BY DEF EnterNode, Goes, ledger, texts, RoundsInv, TypeOK, Flow, At
<1>2. CASE \E c \in Cached :
             Goes([exec EXCEPT !.step = "checkpoint",
                               !.next = Updated(saved.state, c.result)])
  <2>1. PICK c \in Cached :
             exec' = [exec EXCEPT !.step = "checkpoint",
                                  !.next = Updated(saved.state, c.result)]
    BY <1>2 DEF Goes
  <2>2. exec'.step = "checkpoint" /\ exec'.next = Updated(saved.state, c.result)
    BY <1>1, <2>1 DEF Executions
  <2>3. c \in cache /\ c.node = saved.node /\ c.key = saved.state
        /\ c.result \in States /\ saved.state.round \in Nat
    BY <1>1 DEF Cached, RoundsInv, TypeOK, States
  <2>4. CASE saved.node = "collect"
    <3>1. c.result.sources = ingested
      BY <2>3, <2>4 DEF SourcesInv, RoundsRecorded
    <3>2. Updated(saved.state, c.result).sources = c.result.sources
      BY <1>1, <2>3, <2>4 DEF Updated, States
    <3> QED
      BY <1>1, <2>2, <3>1, <3>2, OutsideKeeps
  <2>5. CASE saved.node # "collect"
    <3>1. saved.state.sources = ingested
      BY <2>5 DEF SourcesInv, SourcesKnown
    <3>2. Updated(saved.state, c.result).sources = saved.state.sources
      BY <1>1, <2>3, <2>5 DEF Updated, States, Nodes
    <3> QED
      BY <1>1, <2>2, <3>1, <3>2, OutsideKeeps
  <2> QED
    BY <2>4, <2>5
<1>3. CASE Cached = {} /\ Goes([exec EXCEPT !.step = FirstStep])
  <2>1. exec'.step = FirstStep
    BY <1>1, <1>3 DEF Goes, Executions
  <2>2. /\ FirstStep \in {"reuse", "judge", "analyze"}
        /\ FirstStep = "reuse" => saved.node = "collect"
    BY <1>1 DEF FirstStep, Nodes
  <2>3. FirstStep = "reuse" => Unrecorded
    BY <1>3, <2>2 DEF Cached, Unrecorded
  <2> QED
    BY <1>1, <2>1, <2>2, <2>3, OutsideKeeps
<1> QED
  BY <1>2, <1>3 DEF EnterNode

\* A node that has returned is recorded with the sources of the run.
LEMMA LeaveNodeKeepsSources ==
  ASSUME RoundsInv, SourcesInv, LeaveNode
  PROVE  SourcesInv'
<1>1. /\ saved' = saved /\ plan' = plan /\ search' = search
      /\ ingested' = ingested /\ exec \in Executions
      /\ exec.step = "leave" /\ ingested = exec.next.sources
  BY DEF LeaveNode, ledger, texts, RoundsInv, TypeOK, At, SourcesInv, SourcesKnown
<1>2. exec'.step = "checkpoint" /\ exec'.next = exec.next
  BY <1>1 DEF LeaveNode, Executions
<1>3. Replayable'
  BY <1>1, ReachStays DEF SourcesInv
<1>4. SourcesKnown'
  BY <1>1, <1>2 DEF SourcesInv, SourcesKnown
<1>5. InRound' /\ InQuery'
  BY <1>2 DEF InRound, InQuery, At
<1>6. RoundsRecorded'
  BY <1>1, <1>2 DEF LeaveNode, SourcesInv, RoundsRecorded
<1> QED
  BY <1>1, <1>2, <1>3, <1>4, <1>5, <1>6 DEF SourcesInv, Complete

\* A checkpoint knows the sources of the run.
LEMMA CheckpointKeepsSources ==
  ASSUME RoundsInv, SourcesInv, Checkpoint
  PROVE  SourcesInv'
<1>1. /\ plan' = plan /\ search' = search /\ ingested' = ingested /\ cache' = cache
      /\ exec.step = "checkpoint" /\ ingested = exec.next.sources
      /\ saved'.state = exec.next /\ saved'.node = NextNode(exec.next)
      /\ saved.node \in Nodes \ {"outline"}
      /\ Result(saved.node, saved.state, exec.next)
      /\ saved.state.round \in Nat /\ exec.next.round \in Nat
  BY DEF Checkpoint, ledger, texts, RoundsInv, TypeOK, At, Flow, Outcome, Executions,
         States, SourcesInv, SourcesKnown
<1>2. exec'.step \in {"idle", "enter"}
  BY DEF Checkpoint, Idle
<1>3. Replayable'
  BY <1>1 DEF Replayable
<1>4. SourcesKnown'
  BY <1>1, <1>2 DEF SourcesKnown
<1>5. InRound' /\ InQuery'
  BY <1>2 DEF InRound, InQuery, At
<1>6. RoundsRecorded'
  <2> SUFFICES ASSUME NEW c \in cache, c.node = "collect"
               PROVE  c.key.round < saved'.state.round
    BY <1>1, <1>2 DEF RoundsRecorded
  <2>1. \/ c.key.round < saved.state.round
        \/ saved.node = "collect" /\ c.key = saved.state
    BY DEF SourcesInv, RoundsRecorded
  <2>2. c.key.round \in Nat
    BY DEF RoundsInv, TypeOK, States
  <2>3. \/ saved'.state.round = saved.state.round + 1
        \/ saved'.state.round >= saved.state.round /\ saved.node # "collect"
    BY <1>1, CheckpointRounds DEF RoundsInv
  <2> QED
    BY <1>1, <2>1, <2>2, <2>3
<1> QED
  BY <1>1, <1>2, <1>3, <1>4, <1>5, <1>6 DEF SourcesInv, Complete

\* What an execution gathers.
LEMMA Gathered ==
  ASSUME RoundsInv, exec.step \in {"plan", "search", "sent", "ingest"}
  PROVE  /\ saved.node = "collect" /\ TypeOK
         /\ saved.state.sources \subseteq exec.next.sources
         /\ exec.next.sources \in SUBSET Urls
         /\ exec.next.round = saved.state.round
         /\ exec.next.queries = saved.state.queries
         /\ exec \in Executions /\ exec.todo \in Seq(Queries)
         /\ Len(exec.todo) \in Nat
         /\ exec.found \in Seq(Urls) /\ Len(exec.found) \in Nat
         /\ exec.step \in {"sent", "ingest"} => exec.todo # <<>>
<1>1. /\ saved.node = "collect" /\ TypeOK
      /\ exec.step \in {"sent", "ingest"} => exec.todo # <<>>
  BY DEF RoundsInv, Flow, Asking
<1>2. /\ saved.state.sources \subseteq exec.next.sources
      /\ exec.next.round = saved.state.round
      /\ exec.next.queries = saved.state.queries
  BY DEF RoundsInv, Gathering, Keeps
<1>3. exec \in Executions
  BY <1>1 DEF TypeOK
<1>4. /\ exec.next \in States
      /\ exec.todo \in Seq(Queries) /\ exec.found \in Seq(Urls)
  BY <1>3 DEF Executions
<1>5. exec.next.sources \in SUBSET Urls
  BY <1>4 DEF States
<1>6. Len(exec.todo) \in Nat /\ Len(exec.found) \in Nat
  BY <1>4
<1> QED
  BY <1>1, <1>2, <1>3, <1>4, <1>5, <1>6

\* The query at hand is the next one of the round.
LEMMA AtHand ==
  ASSUME RoundsInv, SourcesInv, exec.step \in {"search", "sent", "ingest"},
         exec.todo # <<>>
  PROVE  /\ Passed \in Nat /\ Passed + 1 \in 1 .. Len(Round)
         /\ Len(exec.todo) = Len(Round) - Passed
         /\ Len(Round) \in Nat
         /\ Head(exec.todo) = Round[Passed + 1]
         /\ Round[Passed + 1] \in Queries
         /\ Results(Passed + 1) \in Seq(Urls)
         /\ Len(Results(Passed + 1)) \in Nat
<1>1. /\ exec.todo \in Seq(Queries) /\ Len(exec.todo) \in Nat \ {0} /\ TypeOK
      /\ Head(exec.todo) = exec.todo[1]
  BY Gathered
<1>2. Len(Round) \in Nat
  BY <1>1, RoundTyped
<1>3. Passed \in Nat /\ exec.todo[1] = Round[Passed + 1]
  BY <1>1 DEF SourcesInv, InRound
<1>4. Passed + 1 \in 1 .. Len(Round) /\ Len(exec.todo) = Len(Round) - Passed
  BY <1>1, <1>2, <1>3 DEF Passed
<1> QED
  BY <1>1, <1>2, <1>3, <1>4, RoundTyped

\* The first step of a round, which may be the one that makes the plan.
LEMMA PlanKeepsSources ==
  ASSUME RoundsInv, RoundsInv', SourcesInv, Plan
  PROVE  SourcesInv'
<1>1. /\ saved' = saved /\ search' = search /\ cache' = cache
      /\ ingested' = ingested /\ exec.step = "plan"
  BY DEF Plan, texts, At
<1>2. /\ saved.node = "collect" /\ exec \in Executions /\ TypeOK
      /\ exec.next.round = saved.state.round
      /\ exec.next.queries = saved.state.queries
      /\ saved.state.round \in Nat
      /\ exec.next.sources \subseteq ingested
  <2>1. saved.state.round \in Nat
    BY DEF RoundsInv, TypeOK, States
  <2>2. exec.next.sources \subseteq ingested
    BY <1>1 DEF SourcesInv
  <2> QED
    BY <1>1, <2>1, <2>2, Gathered
<1>3. exec'.todo = Round' /\ exec'.step = "search" /\ exec'.next = exec.next
  <2>1. CASE exec' = [exec EXCEPT !.step = "search", !.todo = FirstQueries(plan')]
             /\ exec.next.round = 0
    BY <1>1, <1>2, <2>1 DEF Round, Executions
  <2>2. CASE exec' = [exec EXCEPT !.step = "search",
                                  !.todo = FirstQueries(exec.next.queries)]
             /\ exec.next.round > 0
    BY <1>1, <1>2, <2>2 DEF Round, Executions
  <2> QED
    BY <2>1, <2>2 DEF Plan
<1>4. Round' \in Seq(Queries) /\ Len(Round') \in Nat
  <2>1. plan' \in Seq(Queries) /\ saved'.state.queries \in Seq(Queries)
    BY PlansTyped DEF RoundsInv, TypeOK, States
  <2>2. PICK queries \in Seq(Queries) : Round' = FirstQueries(queries)
    BY <2>1 DEF Round
  <2>3. Round' \in Seq(Queries)
    BY <2>2, FirstQueriesShared
  <2> QED
    BY <2>3
<1>5. Passed' = 0
  BY <1>3, <1>4 DEF Passed
<1>6. Through(0)' = {}
  BY DEF Through
<1>7. InRound'
  BY <1>3, <1>4, <1>5, <1>6 DEF InRound
<1>8. InQuery'
  BY <1>3 DEF InQuery, At
<1>9. Replayable'
  <2>1. CASE plan' = plan
    BY <1>1, <2>1, ReachStays DEF SourcesInv
  <2>2. CASE plan = <<>> /\ saved.state.round = 0
    <3>1. Round = <<>>
      BY <2>2, RoundConstants DEF Round, FirstQueries, Share
    <3>2. Through(Len(Round)) = {}
      BY <3>1 DEF Through
    <3>3. ingested \subseteq saved.state.sources
      BY <1>2, <3>2 DEF SourcesInv, Replayable
    <3> QED
      BY <1>1, <3>3 DEF Replayable
  <2> QED
    BY <1>2, <2>1, <2>2 DEF Plan
<1>10. SourcesKnown' /\ RoundsRecorded'
  BY <1>1, <1>3 DEF SourcesInv, SourcesKnown, RoundsRecorded
<1> QED
  BY <1>1, <1>2, <1>3, <1>7, <1>8, <1>9, <1>10 DEF SourcesInv, Complete

\* A recorded answer is taken from its first result on.
LEMMA TakeRecordedKeepsSources ==
  ASSUME RoundsInv, SourcesInv, Search, TakeRecorded(Head(exec.todo))
  PROVE  SourcesInv'
<1>1. /\ saved' = saved /\ search' = search /\ cache' = cache /\ plan' = plan
      /\ ingested' = ingested /\ exec.step = "search" /\ exec.todo # <<>>
  BY DEF Search, TakeRecorded, texts, At
<1>2. /\ Passed \in Nat /\ Passed + 1 \in 1 .. Len(Round)
      /\ Head(exec.todo) = Round[Passed + 1]
      /\ Results(Passed + 1) \in Seq(Urls)
      /\ Len(Results(Passed + 1)) \in Nat
  BY <1>1, AtHand
<1>3. /\ exec'.step = "ingest" /\ exec'.todo = exec.todo /\ exec'.next = exec.next
      /\ exec'.found = Results(Passed + 1)
      /\ Complete(Round[Passed + 1])
  BY <1>1, <1>2, Gathered DEF TakeRecorded, Executions, Results, Complete
<1>4. Passed' = Passed /\ Round' = Round
  BY <1>1, <1>3 DEF Passed, Round
<1>5. /\ \A k, i : Until(k, i)' = Until(k, i)
      /\ \A k : Through(k)' = Through(k) /\ Results(k)' = Results(k)
      /\ \A q : Complete(q)' <=> Complete(q)
  BY <1>1, RoundStays
<1>6. Taken' = 0
  BY <1>2, <1>3, <1>4, <1>5 DEF Taken
<1>7. InRound'
  BY <1>1, <1>3, <1>4, <1>5 DEF SourcesInv, InRound
<1>8. InQuery'
  <2>1. Until(Passed + 1, 0) = Through(Passed)
    BY <1>2 DEF Until
  <2>2. Cardinality(exec.next.sources) < MaxSources =>
           Through(Passed) \subseteq exec.next.sources
    BY <1>1 DEF SourcesInv, InRound
  <2> QED
    BY <1>2, <1>3, <1>4, <1>5, <1>6, <2>1, <2>2 DEF InQuery, At
<1>9. Replayable'
  BY <1>1, ReachStays DEF SourcesInv
<1>10. SourcesKnown' /\ RoundsRecorded'
  BY <1>1, <1>3 DEF SourcesInv, SourcesKnown, RoundsRecorded
<1>11. exec'.next.sources \subseteq ingested
  BY <1>1, <1>3 DEF SourcesInv
<1> QED
  BY <1>1, <1>3, <1>7, <1>8, <1>9, <1>10, <1>11 DEF SourcesInv, Complete

\* A reservation has no results.
LEMMA ReserveKeepsSources ==
  ASSUME RoundsInv, SourcesInv, Search, ReserveSearch(Head(exec.todo))
  PROVE  SourcesInv'
<1>1. /\ saved' = saved /\ cache' = cache /\ plan' = plan
      /\ ingested' = ingested /\ exec.step = "search" /\ exec.todo # <<>>
  BY DEF Search, texts, At
<1>2. /\ Head(exec.todo) \in Queries /\ exec \in Executions
      /\ exec.todo \in Seq(Queries)
      /\ search \in [Queries -> [status : {"none", "reserved", "complete"},
                                 results : Seq(Urls)]]
  BY <1>1, AtHand, Gathered DEF RoundsInv, TypeOK
<1>3. /\ exec'.step = "sent" /\ exec'.todo = exec.todo /\ exec'.next = exec.next
  BY <1>2 DEF ReserveSearch, Executions
<1>4. /\ search'[Head(exec.todo)].status = "reserved"
      /\ \A q \in Queries : /\ search'[q].results = search[q].results
                            /\ search'[q].status = "complete" <=>
                                  search[q].status = "complete"
  BY <1>2 DEF ReserveSearch
<1>5. Passed' = Passed /\ Round' = Round
  BY <1>1, <1>3 DEF Passed, Round
<1>6. TypeOK /\ \A k \in 1 .. Len(Round) : Round[k] \in Queries
  BY RoundTyped DEF RoundsInv
<1>7. \A k \in 1 .. Len(Round) : Results(k)' = Results(k)
  BY <1>4, <1>5, <1>6 DEF Results
<1>8. Len(Round) \in Nat
  BY <1>6, RoundTyped
<1>9. \A n \in 0 .. Len(Round) : Through(n)' = Through(n)
  BY <1>7, <1>8 DEF Through
<1>10. \A k \in 1 .. Len(Round) : \A i \in Nat : Until(k, i)' = Until(k, i)
  BY <1>7, <1>8, <1>9 DEF Until
<1>11. \A q \in Queries : Complete(q)' <=> Complete(q)
  BY <1>4 DEF Complete
<1>12. Passed \in Nat /\ Passed + 1 \in 1 .. Len(Round)
  BY <1>1, AtHand
<1>13. InRound'
  <2>1. PICK p \in Nat : p = Passed
    BY <1>12
  <2>2. p \in 0 .. Len(Round) /\ \A j \in 1 .. p : Round[j] \in Queries
    BY <1>6, <1>8, <1>12, <2>1
  <2>3. /\ \A j \in 1 .. Len(exec.todo) : exec.todo[j] = Round[p + j]
        /\ \A j \in 1 .. p : Complete(Round[j])
        /\ Cardinality(exec.next.sources) < MaxSources =>
              Through(p) \subseteq exec.next.sources
    BY <1>1, <2>1 DEF SourcesInv, InRound
  <2>4. \A j \in 1 .. p : Complete(Round[j])'
    BY <1>5, <1>11, <2>2, <2>3
  <2>5. Through(p)' = Through(p) /\ Passed' = p
    BY <1>5, <1>9, <2>1, <2>2
  <2> QED
    BY <1>3, <1>5, <2>3, <2>4, <2>5 DEF InRound
<1>14. InQuery'
  BY <1>3, <1>4 DEF InQuery, At
<1>15. Replayable'
  <2>1. /\ Round' = Round /\ Len(Round) \in Nat
        /\ saved' = saved /\ ingested' = ingested
    BY <1>1, <1>5, <1>8
  <2>2. /\ Through(Len(Round))' = Through(Len(Round))
        /\ \A k \in 1 .. Len(Round) : Results(k)' = Results(k)
    BY <1>7, <1>9, <2>1
  <2>3. ASSUME NEW k \in 1 .. Len(Round)
        PROVE  Complete(Round[k])' <=> Complete(Round[k])
    BY <1>6, <1>11, <2>1
  <2>4. ASSUME NEW k \in 1 .. Len(Round), NEW i \in 0 .. Len(Results(k))
        PROVE  /\ Stops(k, i)' <=> Stops(k, i)
               /\ Until(k, i)' = Until(k, i)
    BY <1>10, <2>1, <2>2, <2>3 DEF Stops
  <2> QED
    BY <2>1, <2>2, <2>4 DEF SourcesInv, Replayable
<1>16. SourcesKnown' /\ RoundsRecorded'
  BY <1>1, <1>3 DEF SourcesInv, SourcesKnown, RoundsRecorded
<1>17. exec'.next.sources \subseteq ingested
  BY <1>1, <1>3 DEF SourcesInv
<1> QED
  BY <1>1, <1>3, <1>4, <1>11, <1>13, <1>14, <1>15, <1>16, <1>17 DEF SourcesInv

\* An answer that arrives puts results where no execution had gone further.
LEMMA RecordKeepsSources ==
  ASSUME RoundsInv, SourcesInv, RecordSearch
  PROVE  SourcesInv'
<1>1. /\ saved' = saved /\ cache' = cache /\ plan' = plan
      /\ ingested' = ingested /\ exec.step = "sent" /\ exec.todo # <<>>
  BY Gathered DEF RecordSearch, texts, At
<1>2. /\ exec \in Executions /\ saved.node = "collect" /\ TypeOK
      /\ exec.todo \in Seq(Queries) /\ Len(exec.todo) \in Nat
  BY <1>1, Gathered
<1>3. /\ Passed \in Nat /\ Passed + 1 \in 1 .. Len(Round) /\ Len(Round) \in Nat
      /\ Head(exec.todo) = Round[Passed + 1] /\ Head(exec.todo) \in Queries
  BY <1>1, AtHand
<1>4. PICK q \in Queries : q = Head(exec.todo)
  BY <1>3
<1>5. PICK results \in Answers :
        /\ search' = [search EXCEPT ![q] =
                         [status |-> "complete", results |-> results]]
        /\ exec' = [exec EXCEPT !.step = "ingest", !.found = results]
  BY <1>4 DEF RecordSearch
<1>6. results \in Seq(Urls) /\ Len(results) \in Nat
  BY RoundConstants
<1>7. /\ exec'.step = "ingest" /\ exec'.todo = exec.todo
      /\ exec'.next = exec.next /\ exec'.found = results
  BY <1>2, <1>5 DEF Executions
<1>8. /\ search \in [Queries -> [status : {"none", "reserved", "complete"},
                                 results : Seq(Urls)]]
      /\ search[q].status = "reserved"
  BY <1>1, <1>2, <1>4 DEF TypeOK, SourcesInv, InQuery, At
<1>9. /\ search'[q].status = "complete" /\ search'[q].results = results
      /\ \A r \in Queries \ {q} : search'[r] = search[r]
  BY <1>5, <1>8
<1>10. /\ ~Complete(q) /\ search[q].results = <<>> /\ Complete(q)'
       /\ \A r \in Queries \ {q} : Complete(r)' <=> Complete(r)
  BY <1>8, <1>9 DEF SourcesInv, Complete
<1>11. Round' = Round /\ Passed' = Passed
  BY <1>1, <1>7 DEF Round, Passed
<1>12. \A k \in 1 .. Len(Round) :
         /\ Round[k] \in Queries
         /\ Results(k) \in Seq(Urls) /\ Len(Results(k)) \in Nat
  BY <1>2, RoundTyped
<1>13. \A k \in 1 .. Len(Round) :
         /\ Round[k] = q => Results(k) = <<>> /\ Results(k)' = results
         /\ Round[k] # q => Results(k)' = Results(k)
  BY <1>9, <1>10, <1>11, <1>12 DEF Results
<1>14. \A n \in 0 .. Len(Round) : Through(n) \subseteq Through(n)'
  <2>1. \A k \in 1 .. Len(Round) : Elements(Results(k)) \subseteq Elements(Results(k)')
    BY <1>13 DEF Elements
  <2> QED
    BY <1>3, <1>11, <2>1 DEF Through, Results
<1>15. \A k \in 1 .. Len(Round) : \A i \in Nat :
         /\ Through(k - 1) \subseteq Until(k, i)'
         /\ Round[k] # q => Until(k, i) \subseteq Until(k, i)'
  BY <1>3, <1>13, <1>14 DEF Until
<1>16. \A n \in 0 .. Passed : Through(n)' = Through(n)
  <2>1. \A j \in 1 .. Passed : j \in 1 .. Len(Round) /\ Complete(Round[j])
    BY <1>1, <1>3 DEF SourcesInv, InRound
  <2>2. \A j \in 1 .. Passed : Results(j)' = Results(j)
    BY <1>10, <1>13, <2>1
  <2> QED
    BY <1>3, <2>2 DEF Through, Results
<1>17. Replayable'
  <2>1. ingested \subseteq saved.state.sources \cup Through(Len(Round))'
    <3>1. PICK l \in Nat : l = Len(Round) /\ l = Len(Round)' /\ l \in 0 .. Len(Round)
      BY <1>3, <1>11
    <3>2. ingested \subseteq saved.state.sources \cup Through(l)
      BY <1>2, <3>1 DEF SourcesInv, Replayable
    <3> QED
      BY <1>14, <3>1, <3>2
  <2>2. ASSUME NEW k \in 1 .. Len(Round), NEW i \in 0 .. Len(Results(k)'),
               Stops(k, i)'
        PROVE  ingested \subseteq saved.state.sources \cup Until(k, i)'
    <3>1. CASE Round[k] = q
      <4>1. Stops(k, 0) /\ 0 \in 0 .. Len(Results(k))
        BY <1>10, <1>12, <3>1 DEF Stops
      <4>2. ingested \subseteq saved.state.sources \cup Until(k, 0)
        BY <1>2, <4>1 DEF SourcesInv, Replayable
      <4>3. Until(k, 0) = Through(k - 1)
        BY DEF Until
      <4>4. i \in Nat
        BY <1>6, <1>13, <3>1
      <4> QED
        BY <1>15, <4>2, <4>3, <4>4
    <3>2. CASE Round[k] # q
      <4>1. Results(k)' = Results(k) /\ i \in Nat /\ i \in 0 .. Len(Results(k))
        BY <1>12, <1>13, <3>2
      <4>2. Complete(Round[k])' <=> Complete(Round[k])
        BY <1>10, <1>11, <1>12, <3>2
      <4>3. Stops(k, i)
        BY <1>1, <1>11, <2>2, <4>1, <4>2 DEF Stops
      <4>4. ingested \subseteq saved.state.sources \cup Until(k, i)
        BY <1>2, <4>1, <4>3 DEF SourcesInv, Replayable
      <4> QED
        BY <1>15, <3>2, <4>1, <4>4
    <3> QED
      BY <3>1, <3>2
  <2> QED
    BY <1>1, <1>11, <2>1, <2>2 DEF Replayable
<1>18. PICK p \in Nat : p = Passed /\ p + 1 \in 1 .. Len(Round) /\ p \in 0 .. Len(Round)
  BY <1>3
<1>19. /\ \A j \in 1 .. Len(exec.todo) : exec.todo[j] = Round[p + j]
       /\ \A j \in 1 .. p : Complete(Round[j])
       /\ Cardinality(exec.next.sources) < MaxSources =>
             Through(p) \subseteq exec.next.sources
  BY <1>1, <1>18 DEF SourcesInv, InRound
<1>20. Through(p)' = Through(p) /\ Passed' = p
  BY <1>11, <1>16, <1>18
<1>21. InRound'
  <2>1. \A j \in 1 .. p : Complete(Round[j])'
    <3>1. \A j \in 1 .. p : Round[j] \in Queries \ {q}
      BY <1>10, <1>12, <1>18, <1>19
    <3> QED
      BY <1>10, <1>11, <1>19, <3>1
  <2> QED
    BY <1>7, <1>11, <1>19, <1>20, <2>1 DEF InRound
<1>22. InQuery'
  <2>1. Results(p + 1)' = results /\ Complete(Round[p + 1])'
    BY <1>3, <1>4, <1>10, <1>11, <1>13, <1>18
  <2>2. Taken' = 0
    BY <1>6, <1>7, <1>20, <2>1 DEF Taken
  <2>3. Until(p + 1, 0)' = Through(p)'
    BY <1>18 DEF Until
  <2> QED
    BY <1>6, <1>7, <1>11, <1>19, <1>20, <2>1, <2>2, <2>3 DEF InQuery, At
<1>23. SourcesKnown' /\ RoundsRecorded'
  BY <1>1, <1>7 DEF SourcesInv, SourcesKnown, RoundsRecorded
<1>24. \A r \in Queries : ~Complete(r)' => search'[r].results = <<>>
  BY <1>9, <1>10 DEF SourcesInv
<1>25. exec'.next.sources \subseteq ingested
  BY <1>1, <1>7 DEF SourcesInv
<1> QED
  BY <1>1, <1>7, <1>17, <1>21, <1>22, <1>23, <1>24, <1>25 DEF SourcesInv

\* The result at hand, and what has been taken before it.
LEMMA ResultAtHand ==
  ASSUME RoundsInv, SourcesInv, At("ingest"), exec.found # <<>>,
         Cardinality(exec.next.sources) < MaxSources
  PROVE  /\ Passed + 1 \in 1 .. Len(Round) /\ Passed \in Nat
         /\ Taken \in 0 .. Len(Results(Passed + 1))
         /\ Taken < Len(Results(Passed + 1))
         /\ Head(exec.found) = Results(Passed + 1)[Taken + 1]
         /\ Complete(Round[Passed + 1])
         /\ \A j \in 1 .. Passed : Complete(Round[j])
         /\ Until(Passed + 1, Taken) \subseteq exec.next.sources
<1>1. /\ exec.found \in Seq(Urls) /\ Len(exec.found) \in Nat \ {0}
      /\ Head(exec.found) = exec.found[1] /\ exec.todo # <<>>
  BY Gathered DEF At
<1>2. /\ Passed + 1 \in 1 .. Len(Round) /\ Passed \in Nat
      /\ Len(Results(Passed + 1)) \in Nat
  BY <1>1, AtHand DEF At
<1>3. /\ Taken \in Nat /\ Head(exec.found) = Results(Passed + 1)[Taken + 1]
      /\ Complete(Round[Passed + 1])
      /\ Until(Passed + 1, Taken) \subseteq exec.next.sources
  BY <1>1 DEF SourcesInv, InQuery
<1>4. Taken \in 0 .. Len(Results(Passed + 1)) /\ Taken < Len(Results(Passed + 1))
  <2>1. PICK l \in Nat, f \in Nat :
           l = Len(Results(Passed + 1)) /\ f = Len(exec.found) /\ f > 0
    BY <1>1, <1>2
  <2>2. Taken = l - f
    BY <2>1 DEF Taken
  <2>3. PICK t \in Nat : t = Taken /\ t = l - f
    BY <1>3, <2>2
  <2>4. t \in 0 .. l /\ t < l
    <3>1. f > 0 /\ t = l - f
      BY <2>1, <2>3
    <3> QED
      BY <3>1
  <2> QED
    BY <2>1, <2>3, <2>4
<1>5. \A j \in 1 .. Passed : Complete(Round[j])
  BY DEF SourcesInv, InRound, At
<1> QED
  BY <1>2, <1>3, <1>4, <1>5

\* An execution that meets a source the run has not, has all that the run has.
LEMMA NewSource ==
  ASSUME RoundsInv, SourcesInv, At("ingest"), exec.found # <<>>,
         Cardinality(exec.next.sources) < MaxSources,
         Head(exec.found) \notin ingested
  PROVE  ingested = exec.next.sources
<1>1. saved.node = "collect" /\ saved.state.sources \subseteq exec.next.sources
  BY Gathered DEF At
<1>2. Stops(Passed + 1, Taken)
  BY ResultAtHand DEF Stops
<1>3. ingested \subseteq saved.state.sources \cup Until(Passed + 1, Taken)
  BY <1>1, <1>2, ResultAtHand DEF SourcesInv, Replayable
<1>4. exec.next.sources \subseteq ingested
  BY DEF SourcesInv, At
<1> QED
  BY <1>1, <1>3, <1>4, ResultAtHand

\* Whatever is ingested, the checkpoint can reach it: the results before it
\* have been ingested, and those after it come later.
LEMMA ReachGrows ==
  ASSUME RoundsInv, SourcesInv, At("ingest"), exec.found # <<>>,
         Cardinality(exec.next.sources) < MaxSources,
         Head(exec.found) \notin ingested,
         saved' = saved, plan' = plan, search' = search,
         ingested' = ingested \cup {Head(exec.found)}
  PROVE  Replayable'
<1>1. PICK p \in Nat : p = Passed + 1 /\ p \in 1 .. Len(Round)
  BY ResultAtHand
<1>2. PICK m \in Nat : m = Taken /\ m \in 0 .. Len(Results(p)) /\ m < Len(Results(p))
  BY <1>1, RoundTyped, ResultAtHand DEF RoundsInv
<1>3. PICK u : u = Head(exec.found)
  OBVIOUS
<1>4. /\ u = Results(p)[m + 1] /\ Complete(Round[p])
      /\ Until(p, m) \subseteq exec.next.sources /\ u \notin ingested
      /\ ingested = exec.next.sources
  BY <1>1, <1>2, <1>3, ResultAtHand, NewSource
<1>5. /\ TypeOK /\ saved.node = "collect" /\ Len(Round) \in Nat
      /\ saved.state.sources \subseteq ingested
      /\ \A k \in 1 .. Len(Round) : Len(Results(k)) \in Nat
  BY RoundTyped, Gathered DEF At, SourcesInv, SourcesKnown
<1>6. u \in Until(p, m + 1) /\ Until(p, m + 1) \subseteq Through(p)
      /\ m + 1 \in 0 .. Len(Results(p))
  <2>1. m + 1 \in 0 .. Len(Results(p))
    BY <1>1, <1>2, <1>5
  <2> QED
    BY <1>1, <1>2, <1>4, <1>5, <2>1, UntilGrows
<1>7. \A k \in p .. Len(Round) : u \in Through(k)
  BY <1>1, <1>2, <1>5, <1>6, UntilGrows
<1>8. \A j \in 1 .. p : Complete(Round[j])
  BY <1>1, <1>4, ResultAtHand
<1>9. ASSUME NEW k \in 1 .. Len(Round), NEW i \in 0 .. Len(Results(k)), Stops(k, i)'
      PROVE  ingested' \subseteq saved.state.sources \cup Until(k, i)
  <2>1. \/ ~Complete(Round[k])
        \/ i < Len(Results(k)) /\ Results(k)[i + 1] \notin ingested'
    BY <1>9, RoundStays DEF Stops
  <2>2. ingested \subseteq saved.state.sources \cup Until(k, i)
    <3>1. Stops(k, i)
      BY <2>1 DEF Stops
    <3> QED
      BY <1>5, <3>1 DEF SourcesInv, Replayable
  <2>3. k \in Nat /\ i \in Nat /\ Len(Results(k)) \in Nat
    BY <1>5
  <2>4. CASE k > p
    <3>1. k - 1 \in p .. Len(Round)
      BY <1>1, <1>5, <2>3, <2>4
    <3>2. u \in Until(k, i)
      BY <1>5, <1>7, <3>1, UntilGrows
    <3> QED
      BY <1>3, <2>2, <3>2
  <2>5. CASE k <= p
    <3>1. Complete(Round[k])
      BY <1>1, <1>8, <2>3, <2>5
    <3>2. i < Len(Results(k)) /\ Results(k)[i + 1] \notin ingested
                              /\ Results(k)[i + 1] # u
      BY <1>3, <2>1, <3>1
    <3>3. i + 1 \in 0 .. Len(Results(k)) /\ Results(k)[i + 1] \in Until(k, i + 1)
      <4>1. i + 1 \in 0 .. Len(Results(k))
        BY <2>3, <3>2
      <4> QED
        BY <1>5, <3>2, <4>1, UntilGrows
    <3>4. CASE k < p
      <4>1. p - 1 \in k .. Len(Round)
        BY <1>1, <1>5, <2>3, <3>4
      <4>2. Until(k, i + 1) \subseteq Through(k) /\ Through(k) \subseteq Through(p - 1)
        BY <1>5, <3>3, <4>1, UntilGrows
      <4>3. Through(p - 1) \subseteq Until(p, m)
        BY <1>1, <1>2, <1>5, UntilGrows
      <4> QED
        BY <1>4, <3>2, <3>3, <4>2, <4>3
    <3>5. CASE k = p /\ i < m
      <4>1. m \in i + 1 .. Len(Results(k))
        BY <1>2, <2>3, <3>5
      <4>2. Until(k, i + 1) \subseteq Until(p, m)
        BY <1>5, <3>3, <3>5, <4>1, UntilGrows
      <4> QED
        BY <1>4, <3>2, <3>3, <4>2
    <3>6. CASE k = p /\ i = m
      BY <1>4, <3>2, <3>6
    <3>7. CASE k = p /\ i > m
      <4>1. i \in m + 1 .. Len(Results(p))
        BY <1>2, <2>3, <3>7
      <4>2. Until(p, m + 1) \subseteq Until(p, i)
        BY <1>1, <1>5, <1>6, <4>1, UntilGrows
      <4> QED
        BY <1>3, <1>6, <2>2, <3>7, <4>2
    <3> QED
      BY <1>1, <1>2, <2>3, <2>5, <3>4, <3>5, <3>6, <3>7
  <2> QED
    BY <1>1, <2>3, <2>4, <2>5
<1>10. ingested' \subseteq saved.state.sources \cup Through(Len(Round))
  <2>1. Len(Round) \in p .. Len(Round)
    BY <1>1, <1>5
  <2> QED
    BY <1>3, <1>5, <1>7, <2>1 DEF SourcesInv, Replayable
<1> QED
  BY <1>9, <1>10, RoundStays DEF Replayable

\* A result is taken: the run gains at most one source, and only an execution
\* that has all of them.
LEMMA TakeResultKeepsSources ==
  ASSUME RoundsInv, RoundsInv', SourcesInv, TakeResult
  PROVE  SourcesInv'
<1>1. /\ saved' = saved /\ cache' = cache /\ plan' = plan /\ search' = search
      /\ At("ingest") /\ exec.step = "ingest" /\ exec.found # <<>>
      /\ Cardinality(exec.next.sources) < MaxSources
  BY DEF TakeResult, ledger, At, SourcesSoFar
<1>2. /\ exec \in Executions /\ exec.next \in States /\ TypeOK
      /\ exec.found \in Seq(Urls) /\ Len(exec.found) \in Nat
      /\ exec.next.sources \subseteq ingested
      /\ saved.node = "collect"
  BY <1>1, Gathered DEF Executions, SourcesInv
<1>3. PICK u : u = Head(exec.found)
  OBVIOUS
<1>4. /\ exec'.step = "ingest" /\ exec'.todo = exec.todo
      /\ exec'.found = Tail(exec.found)
      /\ exec'.next.sources = exec.next.sources \cup {u}
      /\ ingested' = ingested \cup {u}
      /\ u \in ingested => ingested' = ingested
  <2>1. CASE u \in exec.next.sources
    <3>1. exec' = [exec EXCEPT !.found = Tail(@)] /\ ingested' = ingested
      BY <1>3, <2>1 DEF TakeResult, SourcesSoFar, texts
    <3> QED
      BY <1>1, <1>2, <2>1, <3>1 DEF Executions
  <2>2. CASE u \notin exec.next.sources
    <3>1. /\ exec' = [exec EXCEPT !.found = Tail(@), !.next.sources = @ \cup {u},
                                  !.next.evidence = @ \cup {u}]
          /\ ingested' = ingested \cup {u}
      BY <1>3, <2>2 DEF TakeResult, SourcesSoFar
    <3> QED
      BY <1>1, <1>2, <3>1 DEF Executions, States
  <2> QED
    BY <2>1, <2>2
<1>5. Cardinality(ingested') <= MaxSources
  <2>1. CASE u \in ingested
    BY <1>4, <2>1 DEF SourcesInv
  <2>2. CASE u \notin ingested
    <3>1. ingested = exec.next.sources
      BY <1>1, <1>3, <2>2, NewSource
    <3>2. /\ IsFiniteSet(ingested) /\ Cardinality(ingested) \in Nat
          /\ Cardinality(ingested') = Cardinality(ingested) + 1
      BY <1>2, <1>4, <2>2, IngestedFinite, FS_AddElement
    <3> QED
      BY <1>1, <3>1, <3>2, RoundConstants
  <2> QED
    BY <2>1, <2>2
<1>6. Replayable'
  <2>1. CASE u \in ingested
    BY <1>1, <1>4, <2>1, ReachStays DEF SourcesInv
  <2>2. CASE u \notin ingested
    BY <1>1, <1>3, <1>4, <2>2, ReachGrows
  <2> QED
    BY <2>1, <2>2
<1>7. SourcesKnown' /\ RoundsRecorded'
  <2>1. \A c \in cache : c.node = "collect" => c.key.round < saved.state.round
    BY <1>1 DEF SourcesInv, RoundsRecorded
  <2> QED
    BY <1>1, <1>2, <1>4, <2>1 DEF SourcesInv, SourcesKnown, RoundsRecorded
<1>8. Cardinality(exec'.next.sources) < MaxSources =>
         Cardinality(exec.next.sources) < MaxSources
  BY <1>1
<1>9. Passed' = Passed /\ Round' = Round
  BY <1>1, <1>4 DEF Passed, Round
<1>10. InRound'
  BY <1>1, <1>4, <1>9, RoundStays DEF SourcesInv, InRound
<1>11. /\ Passed \in Nat /\ Passed + 1 \in 1 .. Len(Round)
       /\ Taken \in 0 .. Len(Results(Passed + 1))
       /\ Taken < Len(Results(Passed + 1))
       /\ u = Results(Passed + 1)[Taken + 1]
       /\ Complete(Round[Passed + 1])
       /\ Until(Passed + 1, Taken) \subseteq exec.next.sources
  BY <1>1, <1>3, ResultAtHand
<1>12. Len(Results(Passed + 1)) \in Nat
  BY <1>2, <1>11, RoundTyped
<1>13. PICK m \in Nat : m = Taken
  BY <1>11, <1>12
<1>14. Len(Tail(exec.found)) = Len(exec.found) - 1
  BY <1>1, <1>2
<1>15. Taken' = m + 1
  <2>1. PICK l \in Nat, f \in Nat : l = Len(Results(Passed + 1)) /\ f = Len(exec.found)
    BY <1>2, <1>12
  <2>2. m = l - f
    BY <1>13, <2>1 DEF Taken
  <2>3. Taken' = l - (f - 1)
    BY <1>1, <1>4, <1>9, <1>14, <2>1, RoundStays DEF Taken
  <2> QED
    BY <2>1, <2>2, <2>3
<1>16. InQuery'
  <2>1. \A j \in 1 .. Len(Tail(exec.found)) :
           Tail(exec.found)[j] = Results(Passed + 1)[m + 1 + j]
    <3> SUFFICES ASSUME NEW j \in 1 .. Len(Tail(exec.found))
                 PROVE  Tail(exec.found)[j] = Results(Passed + 1)[m + 1 + j]
      OBVIOUS
    <3>1. j \in Nat /\ j + 1 \in 1 .. Len(exec.found)
      BY <1>2, <1>14
    <3>2. Tail(exec.found)[j] = exec.found[j + 1]
      BY <1>1, <1>2
    <3>3. exec.found[j + 1] = Results(Passed + 1)[Taken + (j + 1)]
      BY <1>1, <3>1 DEF SourcesInv, InQuery
    <3>4. m + (j + 1) = m + 1 + j
      BY <3>1
    <3> QED
      BY <1>13, <3>2, <3>3, <3>4
  <2>2. Until(Passed + 1, m + 1) \subseteq exec'.next.sources
    <3>1. m \in 0 .. Len(Results(Passed + 1)) /\ m < Len(Results(Passed + 1))
      BY <1>11, <1>13
    <3>2. Until(Passed + 1, m + 1)
            = Until(Passed + 1, m) \cup {Results(Passed + 1)[m + 1]}
      BY <1>2, <1>11, <3>1, UntilGrows
    <3> QED
      BY <1>4, <1>11, <1>13, <3>2
  <2> QED
    BY <1>1, <1>4, <1>9, <1>11, <1>15, <2>1, <2>2, RoundStays DEF InQuery, At
<1>17. exec'.next.sources \subseteq ingested'
  BY <1>2, <1>4
<1> QED
  BY <1>1, <1>5, <1>6, <1>7, <1>10, <1>16, <1>17, RoundStays DEF SourcesInv, Complete

\* A query is done when its results are taken or the budget is used up.
LEMMA NextQueryKeepsSources ==
  ASSUME RoundsInv, SourcesInv, NextQuery
  PROVE  SourcesInv'
<1>1. /\ saved' = saved /\ cache' = cache /\ plan' = plan /\ search' = search
      /\ ingested' = ingested /\ exec.step = "ingest" /\ At("ingest")
      /\ exec.found = <<>> \/ Cardinality(exec.next.sources) >= MaxSources
  BY DEF NextQuery, Goes, ledger, texts, At, SourcesSoFar
<1>2. /\ exec \in Executions /\ TypeOK /\ exec.todo # <<>>
      /\ exec.todo \in Seq(Queries) /\ Len(exec.todo) \in Nat \ {0}
      /\ exec.next.sources \subseteq ingested
  BY <1>1, Gathered DEF SourcesInv
<1>3. /\ exec'.step = "search" /\ exec'.todo = Tail(exec.todo)
      /\ exec'.next = exec.next
  BY <1>2 DEF NextQuery, Goes, Executions
<1>4. /\ Passed \in Nat /\ Passed + 1 \in 1 .. Len(Round) /\ Len(Round) \in Nat
      /\ Len(exec.todo) = Len(Round) - Passed
      /\ Len(Results(Passed + 1)) \in Nat
  BY <1>1, <1>2, AtHand
<1>5. PICK p \in Nat : p = Passed
  BY <1>4
<1>6. Len(Tail(exec.todo)) = Len(exec.todo) - 1
  BY <1>2
<1>7. Passed' = p + 1
  <2>1. Passed' = Len(Round) - Len(Tail(exec.todo))
    BY <1>1, <1>3, RoundStays DEF Passed
  <2>2. PICK r \in Nat, t \in Nat : r = Len(Round) /\ t = Len(exec.todo)
    BY <1>2, <1>4
  <2>3. t = r - p /\ Passed' = r - (t - 1)
    BY <1>4, <1>5, <1>6, <2>1, <2>2
  <2> QED
    BY <2>2, <2>3
<1>8. InRound'
  <2>1. \A j \in 1 .. Len(Tail(exec.todo)) : Tail(exec.todo)[j] = Round[p + 1 + j]
    <3> SUFFICES ASSUME NEW j \in 1 .. Len(Tail(exec.todo))
                 PROVE  Tail(exec.todo)[j] = Round[p + 1 + j]
      OBVIOUS
    <3>1. j \in Nat /\ j + 1 \in 1 .. Len(exec.todo)
      BY <1>2, <1>6
    <3>2. Tail(exec.todo)[j] = exec.todo[j + 1]
      BY <1>2
    <3>3. exec.todo[j + 1] = Round[Passed + (j + 1)]
      BY <1>1, <3>1 DEF SourcesInv, InRound
    <3>4. p + (j + 1) = p + 1 + j
      BY <3>1
    <3> QED
      BY <1>5, <3>2, <3>3, <3>4
  <2>2. \A j \in 1 .. p + 1 : Complete(Round[j])
    <3>1. \A j \in 1 .. p : Complete(Round[j])
      BY <1>1, <1>5 DEF SourcesInv, InRound
    <3>2. Complete(Round[p + 1])
      BY <1>1, <1>5 DEF SourcesInv, InQuery
    <3>3. \A j \in 1 .. p + 1 : j \in 1 .. p \/ j = p + 1
      OBVIOUS
    <3> QED
      BY <3>1, <3>2, <3>3
  <2>3. ASSUME Cardinality(exec.next.sources) < MaxSources
        PROVE  Through(p + 1) \subseteq exec.next.sources
    <3>1. exec.found = <<>>
      <4>1. Cardinality(exec.next.sources) \in Nat /\ MaxSources \in Nat
        BY <1>2, BudgetUsedUp, RoundConstants
      <4> QED
        BY <1>1, <2>3, <4>1
    <3>2. Taken = Len(Results(p + 1))
      BY <1>4, <1>5, <3>1 DEF Taken
    <3>3. Until(p + 1, Len(Results(p + 1))) \subseteq exec.next.sources
      BY <1>1, <1>5, <2>3, <3>2 DEF SourcesInv, InQuery
    <3>4. Len(Results(p + 1)) \in 0 .. Len(Results(p + 1))
      BY <1>4, <1>5
    <3>5. Until(p + 1, Len(Results(p + 1))) = Through(p + 1)
      BY <1>2, <1>4, <1>5, <3>4, UntilGrows
    <3> QED
      BY <3>3, <3>5
  <2>4. Passed' \in Nat
    BY <1>7
  <2> QED
    BY <1>1, <1>3, <1>7, <2>1, <2>2, <2>3, <2>4, RoundStays DEF InRound
<1>9. InQuery'
  BY <1>3 DEF InQuery, At
<1>10. Replayable'
  BY <1>1, ReachStays DEF SourcesInv
<1>11. SourcesKnown' /\ RoundsRecorded'
  BY <1>1, <1>3 DEF SourcesInv, SourcesKnown, RoundsRecorded
<1> QED
  BY <1>1, <1>2, <1>3, <1>8, <1>9, <1>10, <1>11, RoundStays DEF SourcesInv, Complete

\* The steps of an execution that start, end or interrupt a node, and those of
\* the other nodes, keep the sources of the run.
LEMMA ElsewhereKeepsSources ==
  ASSUME RoundsInv, SourcesInv,
         \/ Begin \/ Raise \/ Crash \/ Reuse \/ Collected
         \/ Judge \/ Analyze \/ StoreClaims
  PROVE  SourcesInv'
<1>1. /\ saved' = saved /\ cache' = cache /\ plan' = plan /\ search' = search
      /\ ingested' = ingested
  BY DEF Begin, Raise, Crash, Reuse, Collected, Judge, Analyze, StoreClaims, Goes,
         ledger, texts
<1>2. exec \in Executions /\ exec.next \in States /\ TypeOK
  BY DEF RoundsInv, TypeOK, Executions
<1>3. CASE Begin \/ Raise \/ Crash
  <2>1. /\ Idle.step = "idle"
        /\ [Idle EXCEPT !.step = "enter", !.next = saved.state].step = "enter"
    BY IdleTyped DEF Idle, Executions
  <2>2. exec'.step \in {"idle", "enter"}
    BY <1>3, <2>1 DEF Begin, Raise, Crash, Goes
  <2> QED
    BY <1>1, <2>2, OutsideKeeps
<1>4. CASE Reuse
  <2>1. exec.step = "reuse" /\ exec.next = saved.state
    BY <1>4 DEF Reuse, At, RoundsInv, Flow
  <2>2. exec'.step = "plan" /\ exec'.next.sources = exec.next.sources
    <3>1. PICK reused \in SUBSET library :
            exec' = [exec EXCEPT !.step = "plan",
                                 !.next.evidence = WithReused(reused)]
      BY <1>4 DEF Reuse, Goes
    <3> QED
      BY <1>2, <3>1 DEF Executions, States
  <2>3. Unrecorded
    BY <2>1 DEF SourcesInv, RoundsRecorded, Unrecorded
  <2>4. saved.state.sources \subseteq ingested
    BY DEF SourcesInv, SourcesKnown
  <2> QED
    BY <1>1, <2>1, <2>2, <2>3, <2>4, OutsideKeeps
<1>5. CASE Collected
  <2>1. exec.step = "search" /\ exec.todo = <<>>
    BY <1>5 DEF Collected, At
  <2>2. exec'.step = "leave" /\ exec'.next.sources = exec.next.sources
    BY <1>2, <1>5 DEF Collected, Goes, Executions, States
  <2>3. /\ saved.node = "collect" /\ exec.next.sources \subseteq ingested
        /\ saved.state.sources \subseteq exec.next.sources
    BY <2>1, Gathered DEF SourcesInv
  <2>4. CASE Cardinality(exec.next.sources) < MaxSources
    <3>1. Passed = Len(Round)
      BY <1>2, <2>1, RoundTyped DEF Passed
    <3>2. Through(Len(Round)) \subseteq exec.next.sources
      BY <2>1, <2>4, <3>1 DEF SourcesInv, InRound
    <3>3. ingested = exec.next.sources
      BY <2>3, <3>2 DEF SourcesInv, Replayable
    <3> QED
      BY <1>1, <2>2, <3>3, OutsideKeeps
  <2>5. CASE ~ Cardinality(exec.next.sources) < MaxSources
    <3>1. ingested = exec.next.sources
      BY <1>2, <2>3, <2>5, BudgetUsedUp
    <3> QED
      BY <1>1, <2>2, <3>1, OutsideKeeps
  <2> QED
    BY <2>4, <2>5
<1>6. CASE Judge
  <2>1. saved.node = "coverage" /\ exec.next = saved.state
    BY <1>6 DEF Judge, At, RoundsInv, Flow
  <2>2. exec'.step = "leave" /\ exec'.next.sources = exec.next.sources
    <3>1. PICK sufficient \in BOOLEAN, queries \in Plans \cup {<<>>} :
            exec' = [exec EXCEPT !.step = "leave",
                       !.next.verdict = [sufficient |-> sufficient,
                                         about |-> exec.next.evidence],
                       !.next.queries = queries]
      BY <1>6 DEF Judge, Goes
    <3> QED
      BY <1>2, <3>1 DEF Executions, States
  <2>3. saved.state.sources = ingested
    BY <2>1 DEF SourcesInv, SourcesKnown
  <2> QED
    BY <1>1, <2>1, <2>2, <2>3, OutsideKeeps
<1>7. CASE Analyze
  <2>1. exec'.step = "store"
    BY <1>2, <1>7 DEF Analyze, Goes, Executions
  <2> QED
    BY <1>1, <2>1, OutsideKeeps
<1>8. CASE StoreClaims
  <2>1. saved.node = "analyze" /\ exec.next = saved.state
    BY <1>8 DEF StoreClaims, At, RoundsInv, Flow
  <2>2. exec'.step = "leave" /\ exec'.next.sources = exec.next.sources
    BY <1>2, <1>8 DEF StoreClaims, Executions, States
  <2>3. saved.state.sources = ingested
    BY <2>1 DEF SourcesInv, SourcesKnown
  <2> QED
    BY <1>1, <2>1, <2>2, <2>3, OutsideKeeps
<1> QED
  BY <1>3, <1>4, <1>5, <1>6, <1>7, <1>8

\* Every step keeps within reach what the run has ingested.
LEMMA StepSources ==
  ASSUME RoundsInv, RoundsInv', SourcesInv, [Next]_vars
  PROVE  SourcesInv'
<1>1. CASE UNCHANGED vars
  BY <1>1, AsideKeeps DEF vars, ledger, texts
<1>2. CASE StatusChanges \/ LibraryGrows
  BY <1>2, AsideKeeps DEF StatusChanges, LibraryGrows, ledger, texts
<1>3. CASE Search
  <2>1. TakeRecorded(Head(exec.todo)) \/ ReserveSearch(Head(exec.todo))
    BY <1>3 DEF Search
  <2> QED
    BY <1>3, <2>1, TakeRecordedKeepsSources, ReserveKeepsSources
<1> QED
  BY <1>1, <1>2, <1>3, EnterNodeKeepsSources, LeaveNodeKeepsSources,
     CheckpointKeepsSources, PlanKeepsSources, RecordKeepsSources,
     TakeResultKeepsSources, NextQueryKeepsSources, ElsewhereKeepsSources
  DEF Next, Collecting, Judging

\* However often collect is executed again, a run makes no more rounds and
\* ingests no more sources than its budget allows.
THEOREM RunKeepsItsBudget == Spec => []WithinBudget
<1>1. RoundsInv /\ [Next]_vars => RoundsInv'
  BY StepRounds
<1>2. RoundsInv /\ RoundsInv' /\ SourcesInv /\ [Next]_vars => SourcesInv'
  BY StepSources
<1>3. RoundsInv /\ SourcesInv => WithinBudget
  BY DEF RoundsInv, Rounds, SourcesInv, WithinBudget
<1> QED
  BY <1>2, <1>3, InitSources, RoundsInvariant, PTL DEF Spec
=============================================================================
