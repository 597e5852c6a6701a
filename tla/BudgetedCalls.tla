------------------------------ MODULE BudgetedCalls ------------------------------
(***************************************************************************)
(* The paid requests of one research run: generate() of llm/research.py and *)
(* search_web() of orchestrator/workflow.py.  Each reserves a ledger row in *)
(* a transaction that locks the run, then calls the provider, then records  *)
(* the answer in a second transaction.  Several workers may execute the run *)
(* (see RunLifecycle), each may fail or die between any two of these steps, *)
(* and every execution begins again with the same nodes.                    *)
(*                                                                          *)
(* A refused or repeated request (the run is not running, the budget is     *)
(* exhausted, the row exists) changes nothing and is therefore no step: the *)
(* worker goes on with the recorded answer or raises.                       *)
(***************************************************************************)
EXTENDS Naturals, FiniteSets, FiniteSetsExt

CONSTANTS
    Workers,
    Nodes,          \* the node names generate() is called with
    EvidenceNodes,  \* the nodes whose prompt holds evidence_context()
    Contexts,       \* evidence the shared knowledge base can yield
    Reserve,        \* reserved cost of each request: what it can cost at most
    Queries,        \* search queries
    MaxCalls,       \* Budget.max_calls
    MaxCost,        \* Budget.max_cost_usd, in the unit of Reserve
    MaxQueries      \* Budget.max_queries

\* request_key digests model, node, prompt and schema; what can vary between
\* two executions of a node is the evidence in its prompt.
Requests == [node : Nodes, context : Contexts]

ASSUME CallConstants ==
    /\ EvidenceNodes \subseteq Nodes
    /\ IsFiniteSet(Requests)
    /\ IsFiniteSet(Queries)
    /\ Reserve \in [Requests -> Nat]
    /\ MaxCalls \in Nat
    /\ MaxCost \in Nat
    /\ MaxQueries \in Nat

VARIABLES
    running,   \* check_run: the run is "running" and within its time
    context,   \* the evidence search_knowledge() would yield now
    call,      \* model_calls rows: status and cost_usd
    search,    \* search_calls rows: status
    sent,      \* how often the model provider has got each request
    billed,    \* what it has charged for each request
    searched,  \* how often the search provider has got each query
    worker     \* where each worker is in generate() or search_web()

ledger == <<call, search>>
providers == <<sent, billed, searched>>
vars == <<running, context, ledger, providers, worker>>

CallStatus == {"none", "reserved", "complete", "truncated"}
SearchStatus == {"none", "reserved", "complete"}

Away == [step |-> "away"]
WorkerState ==
    {Away}
    \cup [step : {"reserved"}, request : Requests]   \* row committed, not sent
    \cup [step : {"answered"}, request : Requests,
          cost : Nat, stopped : BOOLEAN]             \* finish_reason is "stop"
    \cup [step : {"reservedSearch", "found"}, query : Queries]

TypeOK ==
    /\ running \in BOOLEAN
    /\ context \in Contexts
    /\ call \in [Requests -> [status : CallStatus, cost : Nat]]
    /\ search \in [Queries -> SearchStatus]
    /\ sent \in [Requests -> Nat]
    /\ billed \in [Requests -> Nat]
    /\ searched \in [Queries -> Nat]
    /\ worker \in [Workers -> WorkerState]

Init ==
    /\ running = TRUE
    /\ context \in Contexts
    /\ call = [q \in Requests |-> [status |-> "none", cost |-> 0]]
    /\ search = [s \in Queries |-> "none"]
    /\ sent = [q \in Requests |-> 0]
    /\ billed = [q \in Requests |-> 0]
    /\ searched = [s \in Queries |-> 0]
    /\ worker = [w \in Workers |-> Away]

At(w, step) == worker[w].step = step
Goes(w, state) == worker' = [worker EXCEPT ![w] = state]

-----------------------------------------------------------------------------
(* The surroundings: cancellations, failures, retries and the clock decide  *)
(* check_run(); materials of other projects change the evidence.            *)

StatusChanges ==
    /\ running' = ~running
    /\ UNCHANGED <<context, ledger, providers, worker>>

KnowledgeChanges ==
    /\ context' \in Contexts \ {context}
    /\ UNCHANGED <<running, ledger, providers, worker>>

-----------------------------------------------------------------------------
(* generate()                                                               *)

Called == {q \in Requests : call[q].status # "none"}

\* Mutant: only what has been recorded counts as spent.
ChargeRecorded(q) == IF call[q].status = "complete" THEN call[q].cost ELSE 0

Charge(q) == IF call[q].status = "complete" THEN call[q].cost ELSE Reserve[q]

Spent == MapThenSumSet(Charge, Called)

\* The prompt a worker puts together for a node.  Nodes without evidence
\* have one prompt; any fixed context stands for it.
RequestOf(n) ==
    [node |-> n,
     context |-> IF n \in EvidenceNodes THEN context
                                        ELSE CHOOSE c \in Contexts : TRUE]

\* Mutant: the calls that may still be made are counted with <= .
ReserveCallOneMore(w, n) ==
    LET q == RequestOf(n)
    IN  /\ At(w, "away")
        /\ running
        /\ call[q].status = "none"
        /\ Cardinality(Called) <= MaxCalls
        /\ Spent + Reserve[q] <= MaxCost
        /\ call' = [call EXCEPT ![q].status = "reserved"]
        /\ Goes(w, [step |-> "reserved", request |-> q])
        /\ UNCHANGED <<running, context, search, providers>>

\* The row lock on the run makes check, count and insert one step.
ReserveCall(w, n) ==
    LET q == RequestOf(n)
    IN  /\ At(w, "away")
        /\ running
        /\ call[q].status = "none"
        /\ Cardinality(Called) < MaxCalls
        /\ Spent + Reserve[q] <= MaxCost
        /\ call' = [call EXCEPT ![q].status = "reserved"]
        /\ Goes(w, [step |-> "reserved", request |-> q])
        /\ UNCHANGED <<running, context, search, providers>>

\* Mutant: the client keeps its default of retrying by itself.
SendCallRetrying(w) ==
    /\ At(w, "reserved")
    /\ \E cost \in 0 .. Reserve[worker[w].request], times \in 1 .. 2 :
          /\ sent' = [sent EXCEPT ![worker[w].request] = @ + times]
          /\ billed' = [billed EXCEPT ![worker[w].request] = @ + cost]
          /\ Goes(w, [step |-> "answered", request |-> worker[w].request,
                      cost |-> cost, stopped |-> TRUE])
    /\ UNCHANGED <<running, context, ledger, searched>>

\* One HTTP request, max_retries = 0.  input_bound and max_tokens bound what
\* the provider may charge.
SendCall(w) ==
    /\ At(w, "reserved")
    /\ \E cost \in 0 .. Reserve[worker[w].request], stopped \in BOOLEAN :
          /\ sent' = [sent EXCEPT ![worker[w].request] = @ + 1]
          /\ billed' = [billed EXCEPT ![worker[w].request] = @ + cost]
          /\ Goes(w, [step |-> "answered", request |-> worker[w].request,
                      cost |-> cost, stopped |-> stopped])
    /\ UNCHANGED <<running, context, ledger, searched>>

\* Mutant: the finish reason of the provider is stored as the status.
RecordCallReason(w) ==
    /\ At(w, "answered")
    /\ call' = [call EXCEPT ![worker[w].request] =
            [status |-> IF worker[w].stopped THEN "stop" ELSE "length",
             cost |-> worker[w].cost]]
    /\ Goes(w, Away)
    /\ UNCHANGED <<running, context, search, providers>>

\* Mutant: cost_usd keeps its default.
RecordCallUnpriced(w) ==
    /\ At(w, "answered")
    /\ call' = [call EXCEPT ![worker[w].request].status =
            IF worker[w].stopped THEN "complete" ELSE "truncated"]
    /\ Goes(w, Away)
    /\ UNCHANGED <<running, context, search, providers>>

\* The second transaction looks neither at the run nor at the budget.
RecordCall(w) ==
    /\ At(w, "answered")
    /\ call' = [call EXCEPT ![worker[w].request] =
            [status |-> IF worker[w].stopped THEN "complete" ELSE "truncated",
             cost |-> worker[w].cost]]
    /\ Goes(w, Away)
    /\ UNCHANGED <<running, context, search, providers>>

-----------------------------------------------------------------------------
(* search_web()                                                             *)

Searched == {s \in Queries : search[s] # "none"}

ReserveSearch(w, s) ==
    /\ At(w, "away")
    /\ running
    /\ search[s] = "none"
    /\ Cardinality(Searched) < MaxQueries
    /\ search' = [search EXCEPT ![s] = "reserved"]
    /\ Goes(w, [step |-> "reservedSearch", query |-> s])
    /\ UNCHANGED <<running, context, call, providers>>

SendSearch(w) ==
    /\ At(w, "reservedSearch")
    /\ searched' = [searched EXCEPT ![worker[w].query] = @ + 1]
    /\ Goes(w, [step |-> "found", query |-> worker[w].query])
    /\ UNCHANGED <<running, context, ledger, sent, billed>>

RecordSearch(w) ==
    /\ At(w, "found")
    /\ search' = [search EXCEPT ![worker[w].query] = "complete"]
    /\ Goes(w, Away)
    /\ UNCHANGED <<running, context, call, providers>>

\* An exception (no answer in time, an HTTP error, no usage in the answer) or
\* the death of the worker.  The ledger row stays as it is.
Abandon(w) ==
    /\ ~At(w, "away")
    /\ Goes(w, Away)
    /\ UNCHANGED <<running, context, ledger, providers>>

-----------------------------------------------------------------------------

Calling(w) ==
    \/ \E n \in Nodes : ReserveCall(w, n)
    \/ SendCall(w)
    \/ RecordCall(w)

Searching(w) ==
    \/ \E s \in Queries : ReserveSearch(w, s)
    \/ SendSearch(w)
    \/ RecordSearch(w)

Next ==
    \/ StatusChanges
    \/ KnowledgeChanges
    \/ \E w \in Workers : Calling(w) \/ Searching(w) \/ Abandon(w)

Spec == Init /\ [][Next]_vars

-----------------------------------------------------------------------------
(* Properties.                                                              *)

\* README: recovery does not silently repeat a model or search request.  No
\* interleaving of workers, failures and re-executions gives a provider the
\* same request twice.
SentOnce ==
    /\ \A q \in Requests : sent[q] <= 1
    /\ \A s \in Queries : searched[s] <= 1

\* The providers never get more requests than the budget allows, whatever
\* became of the ones before.
WithinLimits ==
    /\ Cardinality({q \in Requests : sent[q] > 0}) <= MaxCalls
    /\ Cardinality({s \in Queries : searched[s] > 0}) <= MaxQueries

\* What the model provider charges for a run never exceeds its budget, even
\* when answers are lost, truncated or never recorded.
WithinCost == MapThenSumSet(LAMBDA q : billed[q], Requests) <= MaxCost

\* The ledger covers what the provider has charged for each request: by the
\* recorded cost, or by a reservation that stays when the answer is lost or
\* truncated.
BillsAreCovered ==
    \A q \in Requests :
        IF q \in Called THEN billed[q] <= Charge(q) ELSE billed[q] = 0

\* The provider has the request, its row says "reserved", and no worker is
\* left that could record an answer.
Unknown(q) ==
    /\ sent[q] > 0
    /\ call[q].status = "reserved"
    /\ \A w \in Workers : At(w, "answered") => worker[w].request # q

\* README, read for a node: a recovered run does not ask the model again for
\* a node whose earlier request has an unknown result.
NodeNotAskedAgain ==
    \A w \in Workers :
        At(w, "reserved") =>
            \A q \in Requests :
                q.node = worker[w].request.node => ~Unknown(q)
=============================================================================
