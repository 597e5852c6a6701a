------------------------------ MODULE EvidenceRounds ------------------------------
(***************************************************************************)
(* The nodes collect, coverage and analyze of orchestrator/workflow.py, from *)
(* the approved brief to the stored claims: rounds of searching and judging  *)
(* under a budget, by executions that fail, are cancelled, die and resume    *)
(* from the checkpoint.                                                      *)
(*                                                                          *)
(* One execution at a time works on the run (the advisory lock of worker.py, *)
(* see RunLifecycle); BudgetedCalls has the race of two at the ledgers.  A   *)
(* refusal of the code (the run is not running, a budget is used up, a       *)
(* result is unknown, a quotation does not match) is a step that only Raise  *)
(* can take.  A text and its chunks are represented by its address.          *)
(***************************************************************************)
EXTENDS Naturals, Sequences, FiniteSets

CONSTANTS
    Queries,       \* search queries the model may propose
    Urls,          \* addresses a search may find
    Plans,         \* answers to search_plan: Brief.queries, never empty
    Answers,       \* results of a search
    MaxQueries,    \* Budget.max_queries
    MaxRounds,     \* Budget.max_rounds
    MaxSources,    \* Budget.max_sources
    MaxExecutions  \* bound: executions of the run

ASSUME RoundConstants ==
    /\ IsFiniteSet(Queries)
    /\ IsFiniteSet(Urls)
    /\ Plans \subseteq Seq(Queries) \ {<<>>}
    /\ Answers \subseteq Seq(Urls)
    /\ MaxQueries \in Nat \ {0}
    /\ MaxRounds \in Nat \ {0}
    /\ MaxSources \in Nat \ {0}
    /\ MaxExecutions \in Nat

VARIABLES
    status,      \* ResearchRun.status, queued and running being one
    executions,  \* how often a worker has begun
    saved,       \* LangGraph's checkpoint: the next node and the state
    exec,        \* the execution: its step, and the values it works with
    cache,       \* node_executions
    plan,        \* the recorded answer to search_plan, <<>> before
    search,      \* search_calls
    library,     \* texts of the domain that search_knowledge() can find
    ingested,    \* texts this run has ingested
    claims       \* committed analyses: the texts whose claims are stored

ledger == <<plan, search>>
texts == <<library, ingested>>
vars == <<status, executions, saved, exec, cache, ledger, texts, claims>>

Nodes == {"collect", "coverage", "analyze", "outline"}

Unjudged == [sufficient |-> FALSE, about |-> {}]
Verdicts == [sufficient : BOOLEAN, about : SUBSET Urls]

\* ResearchState as far as these nodes use it.  verdict.about is the evidence
\* that was judged.
States ==
    [round : Nat, queries : Seq(Queries), sources : SUBSET Urls,
     evidence : SUBSET Urls, verdict : Verdicts, claims : Seq(SUBSET Urls)]

FirstState ==
    [round |-> 0, queries |-> <<>>, sources |-> {}, evidence |-> {},
     verdict |-> Unjudged, claims |-> <<>>]

Steps == {"idle", "enter",                                   \* durable()
          "reuse", "plan", "search", "sent", "ingest",       \* collect
          "judge",                                           \* coverage
          "analyze", "store",                                \* analyze
          "leave", "checkpoint"}                             \* durable()

\* next: the state the node is working out; todo: the queries of the round
\* still to ask; found: the results still to take; cited: see Analyze.
Executions ==
    [step : Steps, next : States, todo : Seq(Queries), found : Seq(Urls),
     cited : SUBSET Urls]

TypeOK ==
    /\ status \in {"running", "failed", "cancelled"}
    /\ executions \in 0 .. MaxExecutions
    /\ saved \in [node : Nodes, state : States]
    /\ exec \in Executions
    /\ cache \subseteq [node : Nodes, key : States, result : States]
    /\ plan \in Plans \cup {<<>>}
    /\ search \in [Queries -> [status : {"none", "reserved", "complete"},
                               results : Seq(Urls)]]
    /\ library \subseteq Urls
    /\ ingested \subseteq Urls
    /\ claims \in Seq(SUBSET Urls)

Idle == [step |-> "idle", next |-> FirstState, todo |-> <<>>, found |-> <<>>,
         cited |-> {}]

Init ==
    /\ status = "running"
    /\ executions = 0
    /\ saved = [node |-> "collect", state |-> FirstState]
    /\ exec = Idle
    /\ cache = {}
    /\ plan = <<>>
    /\ search = [q \in Queries |-> [status |-> "none", results |-> <<>>]]
    /\ library \in SUBSET Urls
    /\ ingested = {}
    /\ claims = <<>>

At(step) == exec.step = step
CheckRun == status = "running"

\* A step that changes nothing but what the execution works with.
Goes(e) ==
    /\ exec' = e
    /\ UNCHANGED <<status, executions, saved, cache, ledger, texts, claims>>

-----------------------------------------------------------------------------
(* The surroundings.                                                        *)

\* Commands, retries, and the on_failure of an older execution.
StatusChanges ==
    /\ \/ status = "running" /\ status' \in {"failed", "cancelled"}
       \/ status = "failed" /\ status' = "running"
    /\ UNCHANGED <<executions, saved, exec, cache, ledger, texts, claims>>

\* Another project of the domain stores a text.
LibraryGrows ==
    /\ \E u \in Urls \ library : library' = library \cup {u}
    /\ UNCHANGED <<status, executions, saved, exec, cache, ledger, ingested,
                   claims>>

\* A worker begins with the checkpoint, first or again.
Begin ==
    /\ At("idle")
    /\ CheckRun
    /\ executions < MaxExecutions
    /\ saved.node # "outline"
    /\ executions' = executions + 1
    /\ exec' = [Idle EXCEPT !.step = "enter", !.next = saved.state]
    /\ UNCHANGED <<status, saved, cache, ledger, texts, claims>>

StatusAfterFailure == IF status = "cancelled" THEN "cancelled" ELSE "failed"

\* An exception, and on_failure after it.
Raise ==
    /\ ~At("idle")
    /\ exec' = Idle
    /\ status' = StatusAfterFailure
    /\ UNCHANGED <<executions, saved, cache, ledger, texts, claims>>

Crash ==
    /\ ~At("idle")
    /\ Goes(Idle)

-----------------------------------------------------------------------------
(* durable()                                                                *)

\* Mutant: the key is a digest of the sources instead of the whole state.
CachedBySources ==
    {c \in cache : c.node = saved.node /\ c.key.sources = saved.state.sources}

Cached == {c \in cache : c.node = saved.node /\ c.key = saved.state}

FirstStep ==
    CASE saved.node = "collect"  -> "reuse"
      [] saved.node = "coverage" -> "judge"
      [] saved.node = "analyze"  -> "analyze"

\* A node returns, and durable() records, the fields it has worked out; the
\* graph puts them into the state.
Updated(state, result) ==
    CASE saved.node = "collect"  -> [state EXCEPT !.evidence = result.evidence,
                                                  !.sources = result.sources,
                                                  !.round = result.round]
      [] saved.node = "coverage" -> [state EXCEPT !.verdict = result.verdict,
                                                  !.queries = result.queries]
      [] saved.node = "analyze"  -> [state EXCEPT !.claims = result.claims]

\* The node of the checkpoint begins, or its recorded result is taken.
EnterNode ==
    /\ At("enter")
    /\ CheckRun
    /\ \/ \E c \in Cached :
             Goes([exec EXCEPT !.step = "checkpoint",
                               !.next = Updated(saved.state, c.result)])
       \/ /\ Cached = {}
          /\ Goes([exec EXCEPT !.step = FirstStep])

LeaveNode ==
    /\ At("leave")
    /\ CheckRun
    /\ cache' = cache \cup {[node |-> saved.node, key |-> saved.state,
                             result |-> exec.next]}
    /\ exec' = [exec EXCEPT !.step = "checkpoint"]
    /\ UNCHANGED <<status, executions, saved, ledger, texts, claims>>

\* coverage_route(): another round, or the analysis.
NeedsRound(state) ==
    /\ ~state.verdict.sufficient
    /\ state.queries # <<>>
    /\ state.round < MaxRounds

\* The edges of build_graph().
NextNode(state) ==
    CASE saved.node = "collect"  -> "coverage"
      [] saved.node = "coverage" -> IF NeedsRound(state) THEN "collect"
                                                         ELSE "analyze"
      [] saved.node = "analyze"  -> "outline"

\* The graph writes the checkpoint; coverage_route() checks the run before.
Checkpoint ==
    /\ At("checkpoint")
    /\ saved.node = "coverage" => CheckRun
    /\ saved' = [node |-> NextNode(exec.next), state |-> exec.next]
    /\ exec' = IF saved.node = "analyze"
               THEN Idle
               ELSE [Idle EXCEPT !.step = "enter", !.next = exec.next]
    /\ UNCHANGED <<status, executions, cache, ledger, texts, claims>>

-----------------------------------------------------------------------------
(* collect()                                                                *)

\* Mutant: a round starts with the chunks of the knowledge base only.
ReusedOnly(reused) == reused

WithReused(reused) == exec.next.evidence \cup reused

\* search_knowledge(): what it ranks first may be any part of the library.
Reuse ==
    /\ At("reuse")
    /\ CheckRun
    /\ \E reused \in SUBSET library :
          Goes([exec EXCEPT !.step = "plan",
                            !.next.evidence = WithReused(reused)])

\* Mutant: every round may ask as many queries as the run.
ShareOfRun == MaxQueries

Share ==
    IF MaxQueries \div MaxRounds > 1 THEN MaxQueries \div MaxRounds ELSE 1

FirstQueries(queries) ==
    IF Len(queries) <= Share THEN queries ELSE SubSeq(queries, 1, Share)

\* The first round asks the model for queries, once: generate() records the
\* answer.  A later round takes the queries of the coverage node.
Plan ==
    /\ At("plan")
    /\ \/ /\ exec.next.round = 0
          /\ CheckRun
          /\ IF plan = <<>> THEN plan' \in Plans ELSE plan' = plan
          /\ exec' = [exec EXCEPT !.step = "search", !.todo = FirstQueries(plan')]
       \/ /\ exec.next.round > 0
          /\ exec' = [exec EXCEPT !.step = "search",
                                  !.todo = FirstQueries(exec.next.queries)]
          /\ UNCHANGED plan
    /\ UNCHANGED <<status, executions, saved, cache, search, texts, claims>>

Asked == {q \in Queries : search[q].status # "none"}

\* search_web(): a recorded answer is taken, a new query is reserved.
TakeRecorded(q) ==
    /\ search[q].status = "complete"
    /\ exec' = [exec EXCEPT !.step = "ingest", !.found = search[q].results]
    /\ UNCHANGED search

ReserveSearch(q) ==
    /\ search[q].status = "none"
    /\ Cardinality(Asked) < MaxQueries
    /\ search' = [search EXCEPT ![q].status = "reserved"]
    /\ exec' = [exec EXCEPT !.step = "sent"]

Search ==
    /\ At("search")
    /\ exec.todo # <<>>
    /\ CheckRun
    /\ TakeRecorded(Head(exec.todo)) \/ ReserveSearch(Head(exec.todo))
    /\ UNCHANGED <<status, executions, saved, cache, plan, texts, claims>>

RecordSearch ==
    /\ At("sent")
    /\ \E results \in Answers :
          /\ search' = [search EXCEPT ![Head(exec.todo)] =
                           [status |-> "complete", results |-> results]]
          /\ exec' = [exec EXCEPT !.step = "ingest", !.found = results]
    /\ UNCHANGED <<status, executions, saved, cache, plan, texts, claims>>

\* Mutant: only the sources of this round are counted.
SourcesOfRound == exec.next.sources \ saved.state.sources

SourcesSoFar == exec.next.sources

\* One result: ingested under its address, unless the run has it already.
TakeResult ==
    LET u == Head(exec.found)
    IN  /\ At("ingest")
        /\ exec.found # <<>>
        /\ Cardinality(SourcesSoFar) < MaxSources
        /\ IF u \in SourcesSoFar
           THEN /\ exec' = [exec EXCEPT !.found = Tail(@)]
                /\ UNCHANGED texts
           ELSE /\ library' = library \cup {u}
                /\ ingested' = ingested \cup {u}
                /\ exec' = [exec EXCEPT !.found = Tail(@),
                                        !.next.sources = @ \cup {u},
                                        !.next.evidence = @ \cup {u}]
        /\ UNCHANGED <<status, executions, saved, cache, ledger, claims>>

\* The results of a query are used up, or max_sources is reached.
NextQuery ==
    /\ At("ingest")
    /\ \/ exec.found = <<>>
       \/ Cardinality(SourcesSoFar) >= MaxSources
    /\ Goes([exec EXCEPT !.step = "search", !.todo = Tail(@), !.found = <<>>])

\* collect() ends if there is any evidence.
Collected ==
    /\ At("search")
    /\ exec.todo = <<>>
    /\ exec.next.evidence # {}
    /\ Goes([exec EXCEPT !.step = "leave", !.next.round = @ + 1])

-----------------------------------------------------------------------------
(* coverage() and analyze(): the prompts hold an excerpt of the evidence as *)
(* the library ranks it now, so another execution may get another answer.   *)

Judge ==
    /\ At("judge")
    /\ CheckRun
    /\ \E sufficient \in BOOLEAN, queries \in Plans \cup {<<>>} :
          Goes([exec EXCEPT !.step = "leave",
                  !.next.verdict = [sufficient |-> sufficient,
                                    about |-> exec.next.evidence],
                  !.next.queries = queries])

\* The model answers with cards; cited are the texts it quotes, real or not.
Analyze ==
    /\ At("analyze")
    /\ CheckRun
    /\ \E cited \in SUBSET Urls \ {{}} :
          Goes([exec EXCEPT !.step = "store", !.cited = cited])

\* Mutant: claims of an earlier execution are not looked for.
StoreClaimsAgain ==
    /\ At("store")
    /\ exec.cited \subseteq exec.next.evidence
    /\ claims' = Append(claims, exec.cited)
    /\ exec' = [exec EXCEPT !.step = "leave", !.next.claims = claims']
    /\ UNCHANGED <<status, executions, saved, cache, ledger, texts>>

\* One transaction, without a look at the run's status.
StoreClaims ==
    /\ At("store")
    /\ IF claims # <<>>
       THEN UNCHANGED claims
       ELSE /\ exec.cited \subseteq exec.next.evidence
            /\ claims' = <<exec.cited>>
    /\ exec' = [exec EXCEPT !.step = "leave", !.next.claims = claims']
    /\ UNCHANGED <<status, executions, saved, cache, ledger, texts>>

-----------------------------------------------------------------------------

Collecting ==
    \/ Reuse
    \/ Plan
    \/ Search
    \/ RecordSearch
    \/ TakeResult
    \/ NextQuery
    \/ Collected

Judging ==
    \/ Judge
    \/ Analyze
    \/ StoreClaims

Next ==
    \/ StatusChanges
    \/ LibraryGrows
    \/ Begin
    \/ Raise
    \/ Crash
    \/ EnterNode
    \/ LeaveNode
    \/ Checkpoint
    \/ Collecting
    \/ Judging

Spec == Init /\ [][Next]_vars

-----------------------------------------------------------------------------
(* Properties.                                                              *)

\* However often collect is executed again, a run makes no more rounds and
\* ingests no more sources than its budget allows.
WithinBudget ==
    /\ saved.state.round <= MaxRounds
    /\ Cardinality(ingested) <= MaxSources

\* A query of this round that has not been asked: it has to be paid for.
NewQuery ==
    At("search") /\ exec.todo # <<>> /\ search[Head(exec.todo)].status = "none"

\* Cut to the shares of the rounds, the queries of the first max_queries rounds
\* can all be paid for, however often a round is interrupted and executed again.
\* (Each round asks at least one: a budget with more rounds than queries has
\* none left for the later rounds.)
QueriesSuffice ==
    NewQuery => Cardinality(Asked) < MaxQueries \/ saved.state.round >= MaxQueries

\* README: the graph goes from the coverage back to the search if a supplement
\* is needed and the budget allows it.  A round it has gone back for can pay for
\* its queries.
BudgetAllowsRound ==
    NewQuery /\ saved.state.round > 0 => Cardinality(Asked) < MaxQueries

\* The analysis follows a judgement of exactly the evidence it works with: no
\* result of an earlier round is taken for that of the last.
VerdictIsCurrent ==
    saved.node \in {"analyze", "outline"} =>
        saved.state.verdict.about = saved.state.evidence

\* The claims of a run are stored once, whatever became of the execution that
\* stored them, they rest on evidence of the run, and the outline is written
\* from all of them.
ClaimsStand ==
    /\ Len(claims) <= 1
    /\ \A i \in DOMAIN claims : claims[i] \subseteq saved.state.evidence
    /\ saved.node = "outline" => saved.state.claims = claims /\ claims # <<>>

\* No later round and no recovery loses evidence, sources or rounds.
EvidenceGrows ==
    [][/\ saved.state.evidence \subseteq saved'.state.evidence
       /\ saved.state.sources \subseteq saved'.state.sources
       /\ saved.state.round <= saved'.state.round]_vars
=============================================================================
