-------------------------- MODULE BudgetedCallsProofs --------------------------
(***************************************************************************)
(* Theorems about BudgetedCalls, for every number of workers, requests and  *)
(* queries and every budget.                                                *)
(***************************************************************************)
EXTENDS BudgetedCalls, FiniteSetTheorems, WellFoundedInduction, TLAPS

(* What makes a request unique: the row is inserted before the request is   *)
(* sent, only one worker has inserted it, and it is never removed.          *)

CallsOwned ==
    /\ \A q \in Requests : sent[q] <= 1 /\ (q \notin Called => sent[q] = 0)
    /\ \A w \in Workers :
          At(w, "reserved") =>
              /\ call[worker[w].request].status = "reserved"
              /\ sent[worker[w].request] = 0
    /\ \A w \in Workers :
          At(w, "answered") =>
              /\ call[worker[w].request].status = "reserved"
              /\ sent[worker[w].request] = 1
              /\ billed[worker[w].request] = worker[w].cost
    /\ \A v, w \in Workers :
          /\ worker[v].step \in {"reserved", "answered"}
          /\ worker[w].step \in {"reserved", "answered"}
          /\ worker[v].request = worker[w].request
          => v = w

CallsCharged ==
    \A q \in Requests :
        /\ sent[q] = 0 => billed[q] = 0
        /\ q \in Called => billed[q] <= Charge(q)

SearchesOwned ==
    /\ \A s \in Queries :
          searched[s] <= 1 /\ (s \notin Searched => searched[s] = 0)
    /\ \A w \in Workers :
          At(w, "reservedSearch") =>
              /\ search[worker[w].query] = "reserved"
              /\ searched[worker[w].query] = 0
    /\ \A w \in Workers :
          At(w, "found") =>
              worker[w].query \in Searched /\ searched[worker[w].query] = 1
    /\ \A v, w \in Workers :
          /\ At(v, "reservedSearch")
          /\ At(w, "reservedSearch")
          /\ worker[v].query = worker[w].query
          => v = w

Limits ==
    /\ Cardinality(Called) <= MaxCalls
    /\ Cardinality(Searched) <= MaxQueries

-----------------------------------------------------------------------------
(* Types.                                                                   *)

\* The empty ledger is well typed.
LEMMA InitTyped == Init => TypeOK
  BY CallConstants
  DEF Init, TypeOK, CallStatus, SearchStatus, WorkerState, Away

\* A request is made of a node and a context the knowledge base can yield.
LEMMA RequestTyped ==
  ASSUME TypeOK, NEW n \in Nodes
  PROVE  RequestOf(n) \in Requests
<1>1. context \in Contexts
  BY DEF TypeOK
<1>2. (CHOOSE c \in Contexts : TRUE) \in Contexts
  BY <1>1
<1>3. QED
  BY <1>1, <1>2 DEF RequestOf, Requests

\* A worker on its way to the model provider or back holds a request, one on
\* its way to the search provider or back a query.
LEMMA WorkerTyped ==
  ASSUME TypeOK, NEW w \in Workers
  PROVE  /\ worker[w].step \in {"reserved", "answered"} =>
                worker[w].request \in Requests
         /\ At(w, "answered") =>
                worker[w].cost \in Nat /\ worker[w].stopped \in BOOLEAN
         /\ worker[w].step \in {"reservedSearch", "found"} =>
                worker[w].query \in Queries
  BY DEF TypeOK, WorkerState, Away, At

\* Every step keeps the types.
LEMMA NextTyped == TypeOK /\ [Next]_vars => TypeOK'
<1> SUFFICES ASSUME TypeOK, [Next]_vars PROVE TypeOK'
  OBVIOUS
<1>1. CASE StatusChanges \/ KnowledgeChanges \/ UNCHANGED vars
  BY <1>1 DEF StatusChanges, KnowledgeChanges, vars, ledger, providers, TypeOK
<1>2. ASSUME NEW w \in Workers, Calling(w) PROVE TypeOK'
  <2>1. ASSUME NEW n \in Nodes, ReserveCall(w, n) PROVE TypeOK'
    <3>1. RequestOf(n) \in Requests
      BY RequestTyped
    <3>2. [step |-> "reserved", request |-> RequestOf(n)] \in WorkerState
      BY <3>1 DEF WorkerState
    <3>3. QED
      BY <2>1, <3>1, <3>2
      DEF ReserveCall, Goes, TypeOK, CallStatus, providers
  <2>2. ASSUME SendCall(w) PROVE TypeOK'
    <3>1. worker[w].request \in Requests
      BY <2>2, WorkerTyped DEF SendCall, At
    <3>2. PICK cost \in 0 .. Reserve[worker[w].request], stopped \in BOOLEAN :
            /\ sent' = [sent EXCEPT ![worker[w].request] = @ + 1]
            /\ billed' = [billed EXCEPT ![worker[w].request] = @ + cost]
            /\ Goes(w, [step |-> "answered", request |-> worker[w].request,
                        cost |-> cost, stopped |-> stopped])
      BY <2>2 DEF SendCall
    <3>3. cost \in Nat
      BY <3>1, <3>2, CallConstants
    <3>4. [step |-> "answered", request |-> worker[w].request,
           cost |-> cost, stopped |-> stopped] \in WorkerState
      BY <3>1, <3>3 DEF WorkerState
    <3>5. QED
      BY <2>2, <3>1, <3>2, <3>3, <3>4 DEF SendCall, Goes, TypeOK, ledger
  <2>3. ASSUME RecordCall(w) PROVE TypeOK'
    <3>1. /\ worker[w].request \in Requests
          /\ worker[w].cost \in Nat
      BY <2>3, WorkerTyped DEF RecordCall, At
    <3>2. QED
      BY <2>3, <3>1
      DEF RecordCall, Goes, TypeOK, CallStatus, WorkerState, providers
  <2>4. QED
    BY <1>2, <2>1, <2>2, <2>3 DEF Calling
<1>3. ASSUME NEW w \in Workers, Searching(w) \/ Abandon(w) PROVE TypeOK'
  <2>1. ASSUME NEW s \in Queries, ReserveSearch(w, s) PROVE TypeOK'
    <3>1. [step |-> "reservedSearch", query |-> s] \in WorkerState
      BY DEF WorkerState
    <3>2. QED
      BY <2>1, <3>1 DEF ReserveSearch, Goes, TypeOK, SearchStatus, providers
  <2>2. ASSUME SendSearch(w) PROVE TypeOK'
    <3>1. worker[w].query \in Queries
      BY <2>2, WorkerTyped DEF SendSearch, At
    <3>2. [step |-> "found", query |-> worker[w].query] \in WorkerState
      BY <3>1 DEF WorkerState
    <3>3. QED
      BY <2>2, <3>1, <3>2 DEF SendSearch, Goes, TypeOK, ledger
  <2>3. ASSUME RecordSearch(w) PROVE TypeOK'
    <3>1. worker[w].query \in Queries
      BY <2>3, WorkerTyped DEF RecordSearch, At
    <3>2. QED
      BY <2>3, <3>1
      DEF RecordSearch, Goes, TypeOK, SearchStatus, WorkerState, providers
  <2>4. ASSUME Abandon(w) PROVE TypeOK'
    BY <2>4 DEF Abandon, Goes, TypeOK, WorkerState, ledger, providers
  <2>5. QED
    BY <1>3, <2>1, <2>2, <2>3, <2>4 DEF Searching
<1>4. QED
  BY <1>1, <1>2, <1>3 DEF Next

\* Ledgers, provider counts and workers keep their types.
THEOREM LedgerTyped == Spec => []TypeOK
  BY InitTyped, NextTyped, PTL DEF Spec

-----------------------------------------------------------------------------
(* Model calls.                                                             *)

CallsInv == TypeOK /\ CallsOwned /\ CallsCharged

\* At first nothing is reserved, sent or charged.
LEMMA InitCalls == Init => CallsInv
<1> SUFFICES ASSUME Init PROVE CallsInv
  OBVIOUS
<1>1. TypeOK
  BY InitTyped
<1>2. Called = {}
  BY DEF Init, Called
<1>3. CallsOwned /\ CallsCharged
  BY <1>2 DEF Init, CallsOwned, CallsCharged, At, Away
<1>4. QED
  BY <1>1, <1>3 DEF CallsInv

\* A reservation is of a request that has no row, so no worker has it.
LEMMA ReserveKeepsCalls ==
  ASSUME CallsInv, NEW w \in Workers, NEW n \in Nodes, ReserveCall(w, n)
  PROVE  CallsOwned' /\ CallsCharged'
<1>0. PICK q \in Requests : q = RequestOf(n)
  BY RequestTyped DEF CallsInv
<1>1. Reserve[q] \in Nat
  BY CallConstants
<1>2. call[q].status = "none" /\ sent[q] = 0 /\ billed[q] = 0
  BY <1>0 DEF ReserveCall, CallsInv, CallsOwned, CallsCharged, Called
<1>3. /\ call'[q].status = "reserved"
      /\ \A s \in Requests \ {q} : call'[s] = call[s]
      /\ UNCHANGED <<sent, billed>>
  BY <1>0 DEF ReserveCall, CallsInv, TypeOK, providers
<1>4. /\ worker'[w] = [step |-> "reserved", request |-> q]
      /\ \A v \in Workers \ {w} : worker'[v] = worker[v]
  BY <1>0 DEF ReserveCall, Goes, CallsInv, TypeOK
<1>5. \A v \in Workers :
        worker[v].step \in {"reserved", "answered"} => worker[v].request # q
  BY <1>2 DEF CallsInv, CallsOwned, At
<1>6. \A v \in Workers :
        worker[v].step \in {"reserved", "answered"} =>
            worker[v].request \in Requests
  BY WorkerTyped DEF CallsInv
<1>7. /\ Called' = Called \cup {q}
      /\ \A s \in Requests \ {q} : Charge(s)' = Charge(s)
      /\ Charge(q)' = Reserve[q]
  BY <1>1, <1>3 DEF Called, Charge
<1>8. CallsOwned'
  <2>1. \A s \in Requests : sent'[s] <= 1 /\ (s \notin Called' => sent'[s] = 0)
    BY <1>3, <1>7 DEF CallsInv, CallsOwned
  <2>2. \A v \in Workers :
          At(v, "reserved")' =>
              /\ call'[worker'[v].request].status = "reserved"
              /\ sent'[worker'[v].request] = 0
    BY <1>2, <1>3, <1>4, <1>5, <1>6 DEF CallsInv, CallsOwned, At
  <2>3. \A v \in Workers :
          At(v, "answered")' =>
              /\ call'[worker'[v].request].status = "reserved"
              /\ sent'[worker'[v].request] = 1
              /\ billed'[worker'[v].request] = worker'[v].cost
    BY <1>3, <1>4, <1>5, <1>6 DEF CallsInv, CallsOwned, At
  <2>4. \A u, v \in Workers :
          /\ worker'[u].step \in {"reserved", "answered"}
          /\ worker'[v].step \in {"reserved", "answered"}
          /\ worker'[u].request = worker'[v].request
          => u = v
    BY <1>4, <1>5 DEF CallsInv, CallsOwned
  <2>5. QED
    BY <2>1, <2>2, <2>3, <2>4 DEF CallsOwned
<1>9. CallsCharged'
  BY <1>1, <1>2, <1>3, <1>7 DEF CallsInv, CallsCharged
<1>10. QED
  BY <1>8, <1>9

\* The worker that sends a request is the only one that has it, and nobody
\* has sent it before.
LEMMA SendKeepsCalls ==
  ASSUME CallsInv, NEW w \in Workers, SendCall(w)
  PROVE  CallsOwned' /\ CallsCharged'
<1>0. PICK q \in Requests : q = worker[w].request
  BY WorkerTyped DEF CallsInv, SendCall, At
<1>1. Reserve[q] \in Nat
  BY CallConstants
<1>2. call[q].status = "reserved" /\ sent[q] = 0 /\ billed[q] = 0
  BY <1>0 DEF SendCall, CallsInv, CallsOwned, CallsCharged
<1>3. PICK cost \in 0 .. Reserve[q], stopped \in BOOLEAN :
        /\ sent' = [sent EXCEPT ![q] = @ + 1]
        /\ billed' = [billed EXCEPT ![q] = @ + cost]
        /\ Goes(w, [step |-> "answered", request |-> q,
                    cost |-> cost, stopped |-> stopped])
  BY <1>0 DEF SendCall
<1>4. /\ sent'[q] = 1 /\ billed'[q] = cost
      /\ \A s \in Requests \ {q} : sent'[s] = sent[s] /\ billed'[s] = billed[s]
      /\ UNCHANGED call
  BY <1>1, <1>2, <1>3 DEF SendCall, CallsInv, TypeOK, ledger
<1>5. /\ worker'[w] = [step |-> "answered", request |-> q,
                       cost |-> cost, stopped |-> stopped]
      /\ \A v \in Workers \ {w} : worker'[v] = worker[v]
  BY <1>3 DEF Goes, CallsInv, TypeOK
<1>6. \A v \in Workers \ {w} :
        worker[v].step \in {"reserved", "answered"} =>
            worker[v].request \in Requests \ {q}
  BY <1>0, WorkerTyped DEF CallsInv, CallsOwned, SendCall, At
<1>7. Called' = Called /\ q \in Called /\ Charge(q)' = Reserve[q]
  BY <1>1, <1>2, <1>4 DEF Called, Charge
<1>8. \A s \in Requests : Charge(s)' = Charge(s)
  BY <1>4 DEF Charge
<1>9. CallsOwned'
  <2>1. \A s \in Requests : sent'[s] <= 1 /\ (s \notin Called' => sent'[s] = 0)
    BY <1>4, <1>7 DEF CallsInv, CallsOwned
  <2>2. \A v \in Workers :
          At(v, "reserved")' =>
              /\ call'[worker'[v].request].status = "reserved"
              /\ sent'[worker'[v].request] = 0
    BY <1>4, <1>5, <1>6 DEF CallsInv, CallsOwned, At
  <2>3. \A v \in Workers :
          At(v, "answered")' =>
              /\ call'[worker'[v].request].status = "reserved"
              /\ sent'[worker'[v].request] = 1
              /\ billed'[worker'[v].request] = worker'[v].cost
    BY <1>2, <1>4, <1>5, <1>6 DEF CallsInv, CallsOwned, At
  <2>4. \A u, v \in Workers :
          /\ worker'[u].step \in {"reserved", "answered"}
          /\ worker'[v].step \in {"reserved", "answered"}
          /\ worker'[u].request = worker'[v].request
          => u = v
    BY <1>5, <1>6 DEF CallsInv, CallsOwned
  <2>5. QED
    BY <2>1, <2>2, <2>3, <2>4 DEF CallsOwned
<1>10. CallsCharged'
  <2>1. ASSUME NEW s \in Requests
        PROVE  /\ sent'[s] = 0 => billed'[s] = 0
               /\ s \in Called' => billed'[s] <= Charge(s)'
    <3>1. CASE s = q
      BY <1>1, <1>4, <1>7, <3>1
    <3>2. CASE s # q
      BY <1>4, <1>7, <1>8, <3>2 DEF CallsInv, CallsCharged
    <3>3. QED
      BY <3>1, <3>2
  <2>2. QED
    BY <2>1 DEF CallsCharged
<1>11. QED
  BY <1>9, <1>10

\* The cost that is recorded is what the provider has charged; a truncated
\* answer stays charged with its reservation.
LEMMA RecordKeepsCalls ==
  ASSUME CallsInv, NEW w \in Workers, RecordCall(w)
  PROVE  CallsOwned' /\ CallsCharged'
<1>0. PICK q \in Requests : q = worker[w].request
  BY WorkerTyped DEF CallsInv, RecordCall, At
<1>1. Reserve[q] \in Nat /\ worker[w].cost \in Nat
  BY WorkerTyped, CallConstants DEF CallsInv, RecordCall, At
<1>2. /\ call[q].status = "reserved" /\ sent[q] = 1
      /\ billed[q] = worker[w].cost
  BY <1>0 DEF RecordCall, CallsInv, CallsOwned
<1>3. /\ call'[q].status \in {"complete", "truncated"}
      /\ call'[q].cost = billed[q]
      /\ \A s \in Requests \ {q} : call'[s] = call[s]
      /\ UNCHANGED <<sent, billed>>
  BY <1>0, <1>2 DEF RecordCall, CallsInv, TypeOK, providers
<1>4. /\ worker'[w] = Away
      /\ \A v \in Workers \ {w} : worker'[v] = worker[v]
  BY DEF RecordCall, Goes, CallsInv, TypeOK
<1>5. \A v \in Workers \ {w} :
        worker[v].step \in {"reserved", "answered"} =>
            worker[v].request \in Requests \ {q}
  BY <1>0, WorkerTyped DEF CallsInv, CallsOwned, RecordCall, At
<1>6. Called' = Called /\ q \in Called /\ billed[q] <= Reserve[q]
  <2>1. q \in Called /\ Charge(q) = Reserve[q]
    BY <1>1, <1>2 DEF Called, Charge
  <2>2. Called' = Called
    BY <1>1, <1>2, <1>3 DEF Called
  <2>3. QED
    BY <1>1, <2>1, <2>2 DEF CallsInv, CallsCharged
<1>7. \A s \in Requests \ {q} : Charge(s)' = Charge(s)
  BY <1>3 DEF Charge
<1>8. billed'[q] <= Charge(q)'
  <2>1. billed[q] \in Nat
    BY <1>1, <1>2
  <2>2. Charge(q)' = IF call'[q].status = "complete" THEN billed[q]
                                                     ELSE Reserve[q]
    BY <1>3 DEF Charge
  <2>3. QED
    BY <1>1, <1>3, <1>6, <2>1, <2>2
<1>9. CallsOwned'
  <2>1. \A s \in Requests : sent'[s] <= 1 /\ (s \notin Called' => sent'[s] = 0)
    BY <1>3, <1>6 DEF CallsInv, CallsOwned
  <2>2. \A v \in Workers :
          At(v, "reserved")' =>
              /\ call'[worker'[v].request].status = "reserved"
              /\ sent'[worker'[v].request] = 0
    BY <1>3, <1>4, <1>5 DEF CallsInv, CallsOwned, At, Away
  <2>3. \A v \in Workers :
          At(v, "answered")' =>
              /\ call'[worker'[v].request].status = "reserved"
              /\ sent'[worker'[v].request] = 1
              /\ billed'[worker'[v].request] = worker'[v].cost
    BY <1>3, <1>4, <1>5 DEF CallsInv, CallsOwned, At, Away
  <2>4. \A u, v \in Workers :
          /\ worker'[u].step \in {"reserved", "answered"}
          /\ worker'[v].step \in {"reserved", "answered"}
          /\ worker'[u].request = worker'[v].request
          => u = v
    BY <1>4 DEF CallsInv, CallsOwned, Away
  <2>5. QED
    BY <2>1, <2>2, <2>3, <2>4 DEF CallsOwned
<1>10. CallsCharged'
  <2>1. ASSUME NEW s \in Requests
        PROVE  /\ sent'[s] = 0 => billed'[s] = 0
               /\ s \in Called' => billed'[s] <= Charge(s)'
    <3>1. CASE s = q
      BY <1>2, <1>3, <1>8, <3>1
    <3>2. CASE s # q
      BY <1>3, <1>6, <1>7, <3>2 DEF CallsInv, CallsCharged
    <3>3. QED
      BY <3>1, <3>2
  <2>2. QED
    BY <2>1 DEF CallsCharged
<1>11. QED
  BY <1>9, <1>10

\* A step that leaves ledger and provider alone, and in which no worker comes
\* to have a request, changes nothing about calls.
LEMMA OthersKeepCalls ==
  ASSUME CallsInv, UNCHANGED <<call, sent, billed>>,
         \A v \in Workers :
            worker'[v].step \in {"reserved", "answered"} => worker'[v] = worker[v]
  PROVE  CallsOwned' /\ CallsCharged'
<1>1. Called' = Called /\ \A q \in Requests : Charge(q)' = Charge(q)
  BY DEF Called, Charge
<1>2. CallsOwned'
  BY <1>1 DEF CallsInv, CallsOwned, At
<1>3. CallsCharged'
  BY <1>1 DEF CallsInv, CallsCharged
<1>4. QED
  BY <1>2, <1>3

\* CallsInv is inductive.
LEMMA NextKeepsCalls == CallsInv /\ [Next]_vars => CallsInv'
<1> SUFFICES ASSUME CallsInv, [Next]_vars PROVE CallsInv'
  OBVIOUS
<1>1. TypeOK'
  BY NextTyped DEF CallsInv
<1>2. ASSUME NEW w \in Workers, Calling(w) PROVE CallsInv'
  BY <1>1, <1>2, ReserveKeepsCalls, SendKeepsCalls, RecordKeepsCalls
  DEF Calling, CallsInv
<1>3. ASSUME NEW w \in Workers, Searching(w) \/ Abandon(w) PROVE CallsInv'
  <2>1. /\ UNCHANGED <<call, sent, billed>>
        /\ worker'[w].step \notin {"reserved", "answered"}
        /\ \A v \in Workers \ {w} : worker'[v] = worker[v]
    BY <1>3 DEF Searching, Abandon, ReserveSearch, SendSearch, RecordSearch,
                Goes, Away, ledger, providers, CallsInv, TypeOK
  <2>2. QED
    BY <1>1, <2>1, OthersKeepCalls DEF CallsInv
<1>4. CASE StatusChanges \/ KnowledgeChanges \/ UNCHANGED vars
  <2>1. UNCHANGED <<call, sent, billed, worker>>
    BY <1>4 DEF StatusChanges, KnowledgeChanges, vars, ledger, providers
  <2>2. QED
    BY <1>1, <2>1, OthersKeepCalls DEF CallsInv
<1>5. QED
  BY <1>2, <1>3, <1>4 DEF Next

\* Whatever the model provider has charged for a request is covered by the
\* ledger, with any number of workers, lost answers and re-executions.
THEOREM BillsCovered == Spec => []BillsAreCovered
<1>1. CallsInv => BillsAreCovered
  BY DEF CallsInv, CallsOwned, CallsCharged, BillsAreCovered
<1>2. Spec => []CallsInv
  BY InitCalls, NextKeepsCalls, PTL DEF Spec
<1>3. QED
  BY <1>1, <1>2, PTL

-----------------------------------------------------------------------------
(* Searches.                                                                *)

SearchesInv == TypeOK /\ SearchesOwned

\* At first nothing is searched.
LEMMA InitSearches == Init => SearchesInv
  BY InitTyped
  DEF Init, SearchesInv, SearchesOwned, Searched, At, Away

\* A search belongs to the one worker that inserted its row.
LEMMA SearchingKeepsSearches ==
  ASSUME SearchesInv, NEW w \in Workers, Searching(w)
  PROVE  SearchesOwned'
<1>1. \A v \in Workers :
        worker[v].step \in {"reservedSearch", "found"} => worker[v].query \in Queries
  BY WorkerTyped DEF SearchesInv
<1>2. ASSUME NEW s \in Queries, ReserveSearch(w, s) PROVE SearchesOwned'
  <2>1. /\ search[s] = "none" /\ searched[s] = 0
        /\ search'[s] = "reserved"
        /\ \A t \in Queries \ {s} : search'[t] = search[t]
        /\ UNCHANGED searched
    BY <1>2 DEF ReserveSearch, SearchesInv, SearchesOwned, Searched, TypeOK,
                providers
  <2>2. /\ worker'[w] = [step |-> "reservedSearch", query |-> s]
        /\ \A v \in Workers \ {w} : worker'[v] = worker[v]
    BY <1>2 DEF ReserveSearch, Goes, SearchesInv, TypeOK
  <2>3. \A v \in Workers : At(v, "reservedSearch") => worker[v].query # s
    BY <2>1 DEF SearchesInv, SearchesOwned
  <2>4. Searched' = Searched \cup {s}
    BY <2>1 DEF Searched
  <2>5. QED
    BY <1>1, <2>1, <2>2, <2>3, <2>4 DEF SearchesInv, SearchesOwned, At
<1>3. ASSUME SendSearch(w) PROVE SearchesOwned'
  <2>0. PICK s \in Queries : s = worker[w].query
    BY <1>1, <1>3 DEF SendSearch, At
  <2>1. /\ search[s] = "reserved" /\ searched'[s] = 1
        /\ \A t \in Queries \ {s} : searched'[t] = searched[t]
        /\ UNCHANGED search
    BY <1>3, <2>0 DEF SendSearch, SearchesInv, SearchesOwned, TypeOK, ledger
  <2>2. /\ worker'[w] = [step |-> "found", query |-> s]
        /\ \A v \in Workers \ {w} : worker'[v] = worker[v]
    BY <1>3, <2>0 DEF SendSearch, Goes, SearchesInv, TypeOK
  <2>3. \A v \in Workers \ {w} :
            At(v, "reservedSearch") => worker[v].query # s
    BY <1>3, <2>0 DEF SendSearch, SearchesInv, SearchesOwned
  <2>4. Searched' = Searched /\ s \in Searched
    BY <2>1 DEF Searched
  <2>5. QED
    BY <1>1, <2>1, <2>2, <2>3, <2>4 DEF SearchesInv, SearchesOwned, At
<1>4. ASSUME RecordSearch(w) PROVE SearchesOwned'
  <2>0. PICK s \in Queries : s = worker[w].query
    BY <1>4, WorkerTyped DEF RecordSearch, SearchesInv, At
  <2>1. /\ search'[s] = "complete"
        /\ \A t \in Queries \ {s} : search'[t] = search[t]
        /\ UNCHANGED searched
    BY <1>4, <2>0 DEF RecordSearch, SearchesInv, TypeOK, providers
  <2>2. /\ worker'[w] = Away
        /\ \A v \in Workers \ {w} : worker'[v] = worker[v]
    BY <1>4 DEF RecordSearch, Goes, SearchesInv, TypeOK
  <2>3. Searched' = Searched
    BY <1>4, <2>0, <2>1 DEF RecordSearch, SearchesInv, SearchesOwned, Searched
  <2>4. \A v \in Workers : At(v, "reservedSearch") => worker[v].query # s
    BY <1>4, <2>0 DEF RecordSearch, SearchesInv, SearchesOwned
  <2>5. QED
    BY <1>1, <2>1, <2>2, <2>3, <2>4 DEF SearchesInv, SearchesOwned, At, Away
<1>5. QED
  BY <1>2, <1>3, <1>4 DEF Searching

\* SearchesInv is inductive.
LEMMA NextKeepsSearches == SearchesInv /\ [Next]_vars => SearchesInv'
<1> SUFFICES ASSUME SearchesInv, [Next]_vars PROVE SearchesInv'
  OBVIOUS
<1>1. TypeOK'
  BY NextTyped DEF SearchesInv
<1>2. ASSUME NEW w \in Workers, Searching(w) PROVE SearchesInv'
  BY <1>1, <1>2, SearchingKeepsSearches DEF SearchesInv
<1>3. ASSUME /\ UNCHANGED <<search, searched>>
             /\ \A v \in Workers :
                  worker'[v].step \in {"reservedSearch", "found"} =>
                      worker'[v] = worker[v]
      PROVE  SearchesInv'
  <2>1. Searched' = Searched
    BY <1>3 DEF Searched
  <2>2. QED
    BY <1>1, <1>3, <2>1 DEF SearchesInv, SearchesOwned, At
<1>4. ASSUME NEW w \in Workers, Calling(w) \/ Abandon(w) PROVE SearchesInv'
  <2>1. /\ UNCHANGED <<search, searched>>
        /\ worker'[w].step \notin {"reservedSearch", "found"}
        /\ \A v \in Workers \ {w} : worker'[v] = worker[v]
    BY <1>4 DEF Calling, Abandon, ReserveCall, SendCall, RecordCall, Goes,
                Away, ledger, providers, SearchesInv, TypeOK
  <2>2. QED
    BY <1>3, <2>1 DEF At
<1>5. CASE StatusChanges \/ KnowledgeChanges \/ UNCHANGED vars
  BY <1>3, <1>5 DEF StatusChanges, KnowledgeChanges, vars, ledger, providers,
                    At
<1>6. QED
  BY <1>2, <1>4, <1>5 DEF Next

\* No provider gets the same request or query twice, whatever the workers
\* that execute a run do and however often they fail.
THEOREM RequestsSentOnce == Spec => []SentOnce
<1>1. CallsInv /\ SearchesInv => SentOnce
  BY DEF CallsInv, CallsOwned, SearchesInv, SearchesOwned, SentOnce
<1>2. Spec => []CallsInv
  BY InitCalls, NextKeepsCalls, PTL DEF Spec
<1>3. Spec => []SearchesInv
  BY InitSearches, NextKeepsSearches, PTL DEF Spec
<1>4. QED
  BY <1>1, <1>2, <1>3, PTL

-----------------------------------------------------------------------------
(* Limits.                                                                  *)

\* The ledgers are finite.
LEMMA LedgersFinite == IsFiniteSet(Called) /\ IsFiniteSet(Searched)
  BY CallConstants, FS_Subset DEF Called, Searched

\* At first the ledgers are empty.
LEMMA InitLimits == Init => Limits
<1> SUFFICES ASSUME Init PROVE Limits
  OBVIOUS
<1>1. Called = {} /\ Searched = {}
  BY DEF Init, Called, Searched
<1>2. QED
  BY <1>1, FS_EmptySet, CallConstants DEF Limits

\* A reservation adds one row, when there are fewer than the limit; nothing
\* else adds one.
LEMMA NextKeepsLimits ==
  ASSUME CallsInv, SearchesInv, Limits, [Next]_vars
  PROVE  Limits'
<1>1. /\ Cardinality(Called) \in Nat
      /\ Cardinality(Searched) \in Nat
  BY LedgersFinite, FS_CardinalityType
<1>2. ASSUME NEW w \in Workers, NEW n \in Nodes, ReserveCall(w, n)
      PROVE  Limits'
  <2>0. PICK q \in Requests : q = RequestOf(n)
    BY RequestTyped DEF CallsInv
  <2>1. Called' = Called \cup {q} /\ Searched' = Searched
    BY <1>2, <2>0 DEF ReserveCall, CallsInv, TypeOK, Called, Searched
  <2>2. Cardinality(Called \cup {q}) <= Cardinality(Called) + 1
    <3>1. Cardinality(Called \cup {q}) =
            IF q \in Called THEN Cardinality(Called) ELSE Cardinality(Called) + 1
      BY LedgersFinite, FS_AddElement, Zenon
    <3>2. QED
      BY <1>1, <3>1
  <2>3. Cardinality(Called \cup {q}) <= MaxCalls
    <3>1. Cardinality(Called) < MaxCalls
      BY <1>2 DEF ReserveCall
    <3>2. Cardinality(Called \cup {q}) \in Nat
      BY LedgersFinite, FS_AddElement, FS_CardinalityType
    <3>3. QED
      BY <1>1, <2>2, <3>1, <3>2, CallConstants
  <2>4. QED
    BY <2>1, <2>3 DEF Limits
<1>3. ASSUME NEW w \in Workers, NEW s \in Queries, ReserveSearch(w, s)
      PROVE  Limits'
  <2>1. Searched' = Searched \cup {s} /\ Called' = Called
    BY <1>3 DEF ReserveSearch, CallsInv, TypeOK, Called, Searched
  <2>2. Cardinality(Searched \cup {s}) <= Cardinality(Searched) + 1
    <3>1. Cardinality(Searched \cup {s}) =
            IF s \in Searched THEN Cardinality(Searched) ELSE Cardinality(Searched) + 1
      BY LedgersFinite, FS_AddElement, Zenon
    <3>2. QED
      BY <1>1, <3>1
  <2>3. Cardinality(Searched \cup {s}) <= MaxQueries
    <3>1. Cardinality(Searched) < MaxQueries
      BY <1>3 DEF ReserveSearch
    <3>2. Cardinality(Searched \cup {s}) \in Nat
      BY LedgersFinite, FS_AddElement, FS_CardinalityType
    <3>3. QED
      BY <1>1, <2>2, <3>1, <3>2, CallConstants
  <2>4. QED
    BY <2>1, <2>3 DEF Limits
<1>4. ASSUME NEW w \in Workers,
             \/ SendCall(w) \/ RecordCall(w) \/ SendSearch(w)
             \/ RecordSearch(w) \/ Abandon(w)
      PROVE  UNCHANGED <<Called, Searched>>
  <2>1. CASE RecordCall(w)
    <3>1. PICK q \in Requests : q = worker[w].request
      BY <2>1, WorkerTyped DEF RecordCall, At, CallsInv
    <3>2. call[q].status = "reserved"
      BY <2>1, <3>1 DEF RecordCall, CallsInv, CallsOwned
    <3>3. /\ call'[q].status # "none"
          /\ \A p \in Requests \ {q} : call'[p] = call[p]
          /\ UNCHANGED search
      BY <2>1, <3>1 DEF RecordCall, CallsInv, TypeOK
    <3>4. QED
      BY <3>2, <3>3 DEF Called, Searched
  <2>2. CASE RecordSearch(w)
    <3>1. PICK s \in Queries : s = worker[w].query
      BY <2>2, WorkerTyped DEF RecordSearch, At, CallsInv
    <3>2. s \in Searched
      BY <2>2, <3>1 DEF RecordSearch, SearchesInv, SearchesOwned
    <3>3. /\ search'[s] # "none"
          /\ \A t \in Queries \ {s} : search'[t] = search[t]
          /\ UNCHANGED call
      BY <2>2, <3>1 DEF RecordSearch, CallsInv, TypeOK
    <3>4. QED
      BY <3>2, <3>3 DEF Called, Searched
  <2>3. CASE SendCall(w) \/ SendSearch(w) \/ Abandon(w)
    BY <2>3 DEF SendCall, SendSearch, Abandon, ledger, Called, Searched
  <2>4. QED
    BY <1>4, <2>1, <2>2, <2>3
<1>5. CASE StatusChanges \/ KnowledgeChanges \/ UNCHANGED vars
  BY <1>5 DEF StatusChanges, KnowledgeChanges, vars, ledger, Called, Searched,
              Limits
<1>6. QED
  BY <1>2, <1>3, <1>4, <1>5 DEF Next, Calling, Searching, Limits

\* What has been sent has a row.
LEMMA SentIsCalled ==
  ASSUME CallsInv, SearchesInv, Limits
  PROVE  WithinLimits
<1> DEFINE Asked == {q \in Requests : sent[q] > 0}
           Looked == {s \in Queries : searched[s] > 0}
<1>1. Asked \in SUBSET Called /\ Looked \in SUBSET Searched
  BY DEF CallsInv, SearchesInv, CallsOwned, SearchesOwned
<1>2. /\ Cardinality(Asked) <= Cardinality(Called)
      /\ Cardinality(Looked) <= Cardinality(Searched)
      /\ Cardinality(Asked) \in Nat /\ Cardinality(Looked) \in Nat
  BY <1>1, LedgersFinite, FS_Subset, FS_CardinalityType
<1>3. Cardinality(Called) \in Nat /\ Cardinality(Searched) \in Nat
  BY LedgersFinite, FS_CardinalityType
<1>4. /\ Cardinality(Asked) <= MaxCalls
      /\ Cardinality(Looked) <= MaxQueries
  BY <1>2, <1>3, CallConstants DEF Limits
<1>5. QED
  BY <1>4 DEF WithinLimits

\* No more requests and queries reach the providers than the budget allows.
THEOREM RequestsLimited == Spec => []WithinLimits
<1>1. Spec => []CallsInv
  BY InitCalls, NextKeepsCalls, PTL DEF Spec
<1>2. Spec => []SearchesInv
  BY InitSearches, NextKeepsSearches, PTL DEF Spec
<1>3. CallsInv /\ SearchesInv /\ Limits /\ [Next]_vars => Limits'
  BY NextKeepsLimits
<1>4. CallsInv /\ SearchesInv /\ Limits => WithinLimits
  BY SentIsCalled
<1>5. QED
  BY InitLimits, <1>1, <1>2, <1>3, <1>4, PTL DEF Spec

-----------------------------------------------------------------------------
(* Sums over finite sets.  MapThenSumSet adds up by taking one element after *)
(* the other out of the set; that the order does not matter, and how sums of *)
(* two sets compare, follows by induction over the subsets of a finite set:  *)
(* among those that are not as claimed one would be the smallest.            *)

\* Of finite sets there is a smallest.
LEMMA LeastSet ==
  ASSUME NEW S, NEW F \in SUBSET FiniteSubsetsOf(S), F # {}
  PROVE  \E r \in F : \A s \in F : ~ (s \subseteq r /\ s # r)
<1>1. \E r \in F : \A s \in F : ~ (<<s, r>> \in StrictSubsetOrdering(S))
  <2>1. IsWellFoundedOn(StrictSubsetOrdering(S), FiniteSubsetsOf(S))
    BY FS_StrictSubsetOrderingWellFounded
  <2> QED
    BY <2>1, WFMin
<1> QED
  BY <1>1 DEF StrictSubsetOrdering, FiniteSubsetsOf

\* What holds for a set when it holds for the smaller ones, holds for all.
LEMMA SubsetsCovered ==
  ASSUME NEW S, IsFiniteSet(S), NEW G \in SUBSET SUBSET S,
         \A s \in SUBSET S : (\A r \in SUBSET s : r # s => r \in G) => s \in G
  PROVE  G = SUBSET S
<1> DEFINE F == (SUBSET S) \ G
<1>1. F \in SUBSET FiniteSubsetsOf(S)
  BY FS_Subset DEF FiniteSubsetsOf
<1>2. ASSUME F # {}
      PROVE  FALSE
  <2>1. PICK s \in F : \A r \in F : ~ (r \subseteq s /\ r # s)
    <3> HIDE DEF F
    <3> QED
      BY <1>1, <1>2, LeastSet
  <2>2. \A r \in SUBSET s : r # s => r \in G
    BY <2>1
  <2> QED
    BY <2>1, <2>2
<1> QED
  BY <1>2

\* The element that is taken next.
Some(s) == CHOOSE x \in s : TRUE

\* g adds up f over the subsets of S.
Adds(g, f, S) ==
    \A s \in SUBSET S :
        g[s] = IF s = {} THEN 0 ELSE f[Some(s)] + g[s \ {Some(s)}]

Totals(f, S) == {g \in [SUBSET S -> Nat] : Adds(g, f, S)}

\* A set that is not empty has some element.
LEMMA SomeElement ==
  ASSUME NEW s, s # {}
  PROVE  Some(s) \in s /\ s \ {Some(s)} \in SUBSET s /\ s \ {Some(s)} # s
  BY DEF Some

\* Two functions that add up agree where both do.
LEMMA TotalsAgree ==
  ASSUME NEW S, NEW T, IsFiniteSet(S), NEW f, NEW g, NEW h,
         Adds(g, f, S), Adds(h, f, T)
  PROVE  \A s \in (SUBSET S) \cap (SUBSET T) : g[s] = h[s]
<1> DEFINE G == {s \in SUBSET S : s \in SUBSET T => g[s] = h[s]}
<1>1. ASSUME NEW s \in SUBSET S, \A r \in SUBSET s : r # s => r \in G
      PROVE  s \in G
  <2> SUFFICES ASSUME s \in SUBSET T
               PROVE  g[s] = h[s]
    OBVIOUS
  <2>1. CASE s = {}
    BY <2>1 DEF Adds
  <2>2. CASE s # {}
    <3>1. Some(s) \in s /\ s \ {Some(s)} \in SUBSET s /\ s \ {Some(s)} # s
      BY <2>2, SomeElement
    <3>2. g[s \ {Some(s)}] = h[s \ {Some(s)}]
      BY <1>1, <3>1
    <3>3. /\ g[s] = f[Some(s)] + g[s \ {Some(s)}]
          /\ h[s] = f[Some(s)] + h[s \ {Some(s)}]
      BY <2>2 DEF Adds
    <3> QED
      BY <3>2, <3>3
  <2> QED
    BY <2>1, <2>2
<1>2. G = SUBSET S
  <2>1. G \in SUBSET SUBSET S
    OBVIOUS
  <2> HIDE DEF G
  <2> QED
    BY <1>1, <2>1, SubsetsCovered
<1> QED
  BY <1>2

\* The values of a function on a finite set can be added up.
LEMMA TotalsExist ==
  ASSUME NEW S, IsFiniteSet(S), NEW f \in [S -> Nat]
  PROVE  Totals(f, S) # {}
<1> DEFINE G == {s \in SUBSET S : Totals(f, s) # {}}
<1>1. ASSUME NEW s \in SUBSET S, \A r \in SUBSET s : r # s => r \in G
      PROVE  s \in G
  <2> DEFINE below(r) == CHOOSE g \in Totals(f, r) : TRUE
             g == [r \in SUBSET s |->
                      IF r # s THEN below(r)[r]
                      ELSE IF s = {} THEN 0
                      ELSE f[Some(s)] + below(s \ {Some(s)})[s \ {Some(s)}]]
  <2>1. \A r \in SUBSET s : r # s => below(r) \in Totals(f, r)
    BY <1>1
  <2>2. \A r \in SUBSET s : r # s => below(r)[r] \in Nat
    BY <2>1 DEF Totals
  <2> HIDE DEF below
  <2>3. g \in [SUBSET s -> Nat]
    <3>1. s # {} => /\ f[Some(s)] \in Nat
                    /\ below(s \ {Some(s)})[s \ {Some(s)}] \in Nat
      BY <2>2, SomeElement
    <3> QED
      BY <2>2, <3>1
  <2>4. ASSUME NEW r \in SUBSET s
        PROVE  g[r] = IF r = {} THEN 0 ELSE f[Some(r)] + g[r \ {Some(r)}]
    <3>1. CASE r = {}
      <4>1. CASE s = {}
        BY <3>1, <4>1
      <4>2. CASE s # {}
        BY <2>1, <3>1, <4>2 DEF Totals, Adds
      <4> QED
        BY <4>1, <4>2
    <3>2. CASE r # {}
      <4>1. PICK q \in SUBSET r : q = r \ {Some(r)} /\ q # r
        <5>1. r \ {Some(r)} \in SUBSET r /\ r \ {Some(r)} # r
          BY <3>2, SomeElement
        <5> QED
          BY <5>1
      <4>2. q \in SUBSET s /\ q # s
        BY <4>1
      <4>3. g[q] = below(q)[q]
        BY <4>2
      <4>4. g[r] = f[Some(r)] + below(q)[q]
        <5>1. CASE r = s
          BY <3>2, <4>1, <5>1
        <5>2. CASE r # s
          <6>1. below(r) \in Totals(f, r) /\ below(q) \in Totals(f, q)
            BY <2>1, <4>2, <5>2
          <6>2. below(r)[r] = f[Some(r)] + below(r)[q]
            BY <3>2, <4>1, <6>1 DEF Totals, Adds
          <6>3. IsFiniteSet(r)
            BY FS_Subset
          <6>4. below(r)[q] = below(q)[q]
            <7>1. PICK g1 \in Totals(f, r), g2 \in Totals(f, q) :
                     g1 = below(r) /\ g2 = below(q)
              BY <6>1
            <7>2. Adds(g1, f, r) /\ Adds(g2, f, q)
              BY DEF Totals
            <7>3. g1[q] = g2[q]
              BY <6>3, <7>2, TotalsAgree
            <7> QED
              BY <7>1, <7>3
          <6> QED
            BY <5>2, <6>2, <6>4
        <5> QED
          BY <5>1, <5>2
      <4> QED
        BY <3>2, <4>1, <4>3, <4>4
    <3> QED
      BY <3>1, <3>2
  <2> HIDE DEF g
  <2> QED
    BY <2>3, <2>4 DEF Totals, Adds
<1>2. G = SUBSET S
  <2>1. G \in SUBSET SUBSET S
    OBVIOUS
  <2> HIDE DEF G
  <2> QED
    BY <1>1, <2>1, SubsetsCovered
<1> QED
  BY <1>2

\* Any element may be taken next.
LEMMA TotalWithout ==
  ASSUME NEW S, IsFiniteSet(S), NEW f \in [S -> Nat], NEW g \in Totals(f, S)
  PROVE  \A s \in SUBSET S : \A x \in s : g[s] = f[x] + g[s \ {x}]
<1> DEFINE G == {s \in SUBSET S : \A x \in s : g[s] = f[x] + g[s \ {x}]}
<1>1. ASSUME NEW s \in SUBSET S, \A r \in SUBSET s : r # s => r \in G
      PROVE  s \in G
  <2> SUFFICES ASSUME NEW x \in s
               PROVE  g[s] = f[x] + g[s \ {x}]
    OBVIOUS
  <2>1. PICK c \in s : c = Some(s)
    BY SomeElement
  <2>2. g[s] = f[c] + g[s \ {c}]
    BY <2>1 DEF Totals, Adds
  <2>3. CASE x = c
    BY <2>2, <2>3
  <2>4. CASE x # c
    <3>1. PICK rest : rest = s \ {c, x}
      OBVIOUS
    <3>2. g[s \ {c}] = f[x] + g[rest]
      <4>1. s \ {c} \in G /\ x \in s \ {c} /\ (s \ {c}) \ {x} = rest
        BY <1>1, <2>4, <3>1
      <4> QED
        BY <4>1
    <3>3. g[s \ {x}] = f[c] + g[rest]
      <4>1. s \ {x} \in G /\ c \in s \ {x} /\ (s \ {x}) \ {c} = rest
        BY <1>1, <2>4, <3>1
      <4> QED
        BY <4>1
    <3>4. f[x] \in Nat /\ f[c] \in Nat /\ g[rest] \in Nat
      BY <3>1 DEF Totals
    <3> QED
      BY <2>2, <3>2, <3>3, <3>4
  <2> QED
    BY <2>3, <2>4
<1>2. G = SUBSET S
  <2>1. G \in SUBSET SUBSET S
    OBVIOUS
  <2> HIDE DEF G
  <2> QED
    BY <1>1, <2>1, SubsetsCovered
<1> QED
  BY <1>2

\* A sum is no more than one of larger values, whatever adds nothing.
LEMMA TotalsCompare ==
  ASSUME NEW S, NEW T, NEW R \in SUBSET T, IsFiniteSet(S), IsFiniteSet(T),
         NEW f \in [T -> Nat], NEW g \in Totals(f, T),
         NEW h \in [S -> Nat], NEW k \in Totals(h, S),
         \A x \in R : IF x \in S THEN f[x] <= h[x] ELSE f[x] = 0
  PROVE  g[R] <= k[R \cap S]
<1>0. \A s \in SUBSET S : \A x \in s : k[s] = h[x] + k[s \ {x}]
  <2>1. ASSUME NEW s \in SUBSET S, NEW x \in s
        PROVE  k[s] = h[x] + k[s \ {x}]
    BY TotalWithout
  <2> QED
    BY <2>1
<1> DEFINE G == {s \in SUBSET R : g[s] <= k[s \cap S]}
<1>1. ASSUME NEW s \in SUBSET R, \A r \in SUBSET s : r # s => r \in G
      PROVE  s \in G
  <2>1. CASE s = {}
    <3>1. g[{}] = 0 /\ k[{}] = 0 /\ {} \cap S = {}
      BY DEF Totals, Adds
    <3> QED
      BY <2>1, <3>1
  <2>2. CASE s # {}
    <3>1. PICK x \in s : TRUE
      BY <2>2
    <3>2. PICK r \in SUBSET s : r = s \ {x}
      OBVIOUS
    <3>3. g[r] <= k[r \cap S] /\ g[r] \in Nat /\ k[r \cap S] \in Nat /\ f[x] \in Nat
      <4>1. r \in G
        BY <1>1, <3>1, <3>2
      <4> QED
        BY <4>1 DEF Totals
    <3>4. g[s] = f[x] + g[r]
      BY <3>1, <3>2, TotalWithout
    <3>5. CASE x \in S
      <4>1. (s \cap S) \ {x} = r \cap S /\ x \in s \cap S /\ s \cap S \in SUBSET S
        BY <3>1, <3>2, <3>5
      <4>2. k[s \cap S] = h[x] + k[r \cap S]
        <5>1. PICK t \in SUBSET S : t = s \cap S
          BY <4>1
        <5>2. k[t] = h[x] + k[t \ {x}] /\ t \ {x} = r \cap S
          BY <1>0, <4>1, <5>1
        <5> QED
          BY <5>1, <5>2
      <4>3. f[x] <= h[x] /\ h[x] \in Nat /\ f[x] \in Nat
        BY <3>3, <3>5
      <4>4. g[r] <= k[r \cap S] /\ g[r] \in Nat /\ k[r \cap S] \in Nat
        BY <3>3
      <4>5. f[x] + g[r] <= h[x] + k[r \cap S]
        BY <4>3, <4>4
      <4> QED
        BY <3>4, <4>2, <4>5
    <3>6. CASE x \notin S
      <4>1. s \cap S = r \cap S
        BY <3>2, <3>6
      <4>2. f[x] = 0
        BY <3>6
      <4>3. g[s] = g[r]
        BY <3>3, <3>4, <4>2
      <4> QED
        BY <3>3, <4>1, <4>3
    <3> QED
      BY <3>5, <3>6
  <2> QED
    BY <2>1, <2>2
<1>2. G = SUBSET R
  <2>1. G \in SUBSET SUBSET R
    OBVIOUS
  <2>2. IsFiniteSet(R)
    BY FS_Subset
  <2> HIDE DEF G
  <2> QED
    BY <1>1, <2>1, <2>2, SubsetsCovered
<1>3. R \in G
  BY <1>2
<1> QED
  BY <1>3

-----------------------------------------------------------------------------
(* Cost.  The sum that a reservation looks at only grows by what fits into   *)
(* the budget, since a recorded cost is never more than its reservation.     *)

\* The charges of the ledger.
Charges == [q \in Called |-> Charge(q)]

\* Spent <= MaxCost, see ChargesAddUp.
ChargesFit == \A g \in Totals(Charges, Called) : g[Called] <= MaxCost

\* Charges and ledger are such that they can be added up.
LEMMA ChargesTyped ==
  ASSUME TypeOK
  PROVE  Charges \in [Called -> Nat] /\ Called \in SUBSET Requests
  BY CallConstants DEF TypeOK, Charges, Called, Charge

\* The sum of generate() is the total of the charges.
LEMMA ChargesAddUp ==
  ASSUME NEW g \in Totals(Charges, Called)
  PROVE  Spent = g[Called]
<1> DEFINE Is(i) == i = [s \in SUBSET Called |->
                           IF s = {} THEN 0
                           ELSE Charge(Some(s)) + i[s \ {Some(s)}]]
<1>1. Spent = (CHOOSE i : Is(i))[Called]
  BY DEF Spent, MapThenSumSet, MapThenFoldSet, Some
<1>2. \A s \in SUBSET Called : s # {} => Charges[Some(s)] = Charge(Some(s))
  BY SomeElement DEF Charges
<1>3. Is(g)
  <2>1. g = [s \in SUBSET Called |-> g[s]]
    BY DEF Totals
  <2>2. \A s \in SUBSET Called :
           g[s] = IF s = {} THEN 0 ELSE Charge(Some(s)) + g[s \ {Some(s)}]
    BY <1>2 DEF Totals, Adds
  <2> QED
    BY <2>1, <2>2
<1>4. PICK i : Is(i) /\ Spent = i[Called]
  <2> HIDE DEF Is
  <2> QED
    BY <1>1, <1>3
<1>5. Adds(i, Charges, Called)
  BY <1>2, <1>4 DEF Adds
<1>6. Adds(g, Charges, Called)
  BY DEF Totals
<1> QED
  BY <1>4, <1>5, <1>6, LedgersFinite, TotalsAgree

\* So is the sum of what the provider has charged.
LEMMA BillsAddUp ==
  ASSUME TypeOK, NEW g \in Totals(billed, Requests), g[Requests] <= MaxCost
  PROVE  WithinCost
<1> DEFINE Is(i) == i = [s \in SUBSET Requests |->
                           IF s = {} THEN 0
                           ELSE billed[Some(s)] + i[s \ {Some(s)}]]
<1>1. WithinCost <=> (CHOOSE i : Is(i))[Requests] <= MaxCost
  BY DEF WithinCost, MapThenSumSet, MapThenFoldSet, Some
<1>2. Is(g)
  <2>1. g = [s \in SUBSET Requests |-> g[s]]
    BY DEF Totals
  <2>2. \A s \in SUBSET Requests :
           g[s] = IF s = {} THEN 0 ELSE billed[Some(s)] + g[s \ {Some(s)}]
    BY DEF Totals, Adds
  <2> QED
    BY <2>1, <2>2
<1>3. PICK i : Is(i) /\ (WithinCost <=> i[Requests] <= MaxCost)
  <2> HIDE DEF Is
  <2> QED
    BY <1>1, <1>2
<1>4. Adds(i, billed, Requests)
  BY <1>3 DEF Adds
<1>5. Adds(g, billed, Requests)
  BY DEF Totals
<1>6. i[Requests] = g[Requests]
  BY <1>4, <1>5, CallConstants, TotalsAgree
<1> QED
  BY <1>3, <1>6

\* At first nothing is spent.
LEMMA InitCharges == Init => ChargesFit
<1> SUFFICES ASSUME Init, NEW g \in Totals(Charges, Called)
             PROVE  g[Called] <= MaxCost
  BY DEF ChargesFit
<1>1. Called = {}
  BY DEF Init, Called
<1>2. g[Called] = 0
  BY <1>1 DEF Totals, Adds
<1> QED
  BY <1>2, CallConstants

\* Charges that do not grow still fit.
LEMMA NoMoreCharged ==
  ASSUME TypeOK, TypeOK', ChargesFit, Called' = Called,
         \A q \in Called : Charge(q)' <= Charge(q)
  PROVE  ChargesFit'
<1> SUFFICES ASSUME NEW g \in Totals(Charges', Called)
             PROVE  g[Called] <= MaxCost
  BY DEF ChargesFit
<1>1. PICK S, f, h : S = Called /\ f = Charges' /\ h = Charges
  OBVIOUS
<1>2. f \in [S -> Nat] /\ h \in [S -> Nat] /\ \A q \in S : f[q] <= h[q]
  <2>1. \A q \in Called : Charge(q)' \in Nat
    BY CallConstants DEF TypeOK, Called, Charge
  <2> QED
    BY <1>1, <2>1, ChargesTyped DEF Charges
<1>3. IsFiniteSet(S)
  BY <1>1, LedgersFinite
<1>4. PICK k \in Totals(h, S) : TRUE
  BY <1>2, <1>3, TotalsExist
<1>5. g[S] <= k[S \cap S]
  BY <1>1, <1>2, <1>3, TotalsCompare
<1>6. k[S] <= MaxCost /\ S \cap S = S
  BY <1>1, <1>4 DEF ChargesFit
<1>7. g[S] \in Nat /\ k[S] \in Nat
  BY <1>1, <1>4 DEF Totals
<1> QED
  BY <1>1, <1>5, <1>6, <1>7, CallConstants

\* A reservation fits, because generate() has looked.
LEMMA ReserveFits ==
  ASSUME CallsInv, TypeOK', ChargesFit, NEW w \in Workers, NEW n \in Nodes,
         ReserveCall(w, n)
  PROVE  ChargesFit'
<1> SUFFICES ASSUME NEW g \in Totals(Charges', Called')
             PROVE  g[Called'] <= MaxCost
  BY DEF ChargesFit
<1>0. PICK q \in Requests : q = RequestOf(n)
  BY RequestTyped DEF CallsInv
<1>1. /\ Reserve[q] \in Nat /\ q \notin Called
      /\ Spent + Reserve[q] <= MaxCost
      /\ Called' = Called \cup {q}
      /\ \A r \in Called : Charge(r)' = Charge(r)
      /\ Charge(q)' = Reserve[q]
  BY <1>0, CallConstants DEF ReserveCall, CallsInv, TypeOK, Called, Charge
<1>2. PICK S, T, f, h : S = Called /\ T = Called' /\ f = Charges' /\ h = Charges
  OBVIOUS
<1>3. /\ f \in [T -> Nat] /\ h \in [S -> Nat] /\ f[q] = Reserve[q]
      /\ \A r \in S : r \in T /\ f[r] <= h[r]
  <2>1. h \in [S -> Nat]
    BY <1>2, ChargesTyped DEF CallsInv
  <2>2. f = [r \in S \cup {q} |-> Charge(r)']
    BY <1>1, <1>2 DEF Charges
  <2>3. \A r \in S : Charge(r)' = h[r] /\ h[r] \in Nat
    BY <1>1, <1>2, <2>1 DEF Charges
  <2> QED
    BY <1>1, <1>2, <2>1, <2>2, <2>3
<1>4. IsFiniteSet(S) /\ IsFiniteSet(T)
  BY <1>1, <1>2, LedgersFinite, FS_AddElement
<1>5. PICK k \in Totals(h, S) : TRUE
  BY <1>3, <1>4, TotalsExist
<1>6. g[S] <= k[S \cap S] /\ S \cap S = S
  BY <1>1, <1>2, <1>3, <1>4, TotalsCompare
<1>7. k[S] = Spent
  BY <1>2, <1>5, ChargesAddUp
<1>8. g[T] = Reserve[q] + g[S]
  <2>1. q \in T /\ T \ {q} = S /\ T \in SUBSET T
    BY <1>1, <1>2
  <2> QED
    BY <1>2, <1>3, <1>4, <2>1, TotalWithout
<1>9. g[S] \in Nat /\ k[S] \in Nat
  BY <1>1, <1>2, <1>5 DEF Totals
<1> QED
  BY <1>1, <1>2, <1>6, <1>7, <1>8, <1>9, CallConstants

\* No step spends more than the budget.
LEMMA NextKeepsCharges ==
  ASSUME CallsInv, CallsInv', ChargesFit, [Next]_vars
  PROVE  ChargesFit'
<1>1. TypeOK /\ TypeOK'
  BY DEF CallsInv
<1>2. ASSUME UNCHANGED call
      PROVE  ChargesFit'
  <2>1. Called' = Called /\ \A q \in Called : Charge(q)' = Charge(q)
    BY <1>2 DEF Called, Charge
  <2>2. \A q \in Called : Charge(q) \in Nat
    BY <1>1, ChargesTyped DEF Charges
  <2>3. \A q \in Called : Charge(q)' <= Charge(q)
    BY <2>1, <2>2
  <2> QED
    BY <1>1, <2>1, <2>3, NoMoreCharged
<1>3. ASSUME NEW w \in Workers, NEW n \in Nodes, ReserveCall(w, n)
      PROVE  ChargesFit'
  BY <1>1, <1>3, ReserveFits
<1>4. ASSUME NEW w \in Workers, RecordCall(w)
      PROVE  ChargesFit'
  <2>1. PICK q \in Requests : q = worker[w].request
    BY <1>4, WorkerTyped DEF CallsInv, RecordCall, At
  <2>2. /\ call[q].status = "reserved"
        /\ billed[q] = worker[w].cost /\ worker[w].cost \in Nat
        /\ Reserve[q] \in Nat
    BY <1>4, <2>1, WorkerTyped, CallConstants
    DEF RecordCall, CallsInv, CallsOwned, At
  <2>3. /\ call'[q].status \in {"complete", "truncated"}
        /\ call'[q].cost = billed[q]
        /\ \A r \in Requests \ {q} : call'[r] = call[r]
    BY <1>4, <2>1, <2>2 DEF RecordCall, CallsInv, TypeOK
  <2>4. Called' = Called /\ q \in Called
    BY <2>2, <2>3 DEF Called
  <2>5. Charge(q) = Reserve[q] /\ billed[q] <= Reserve[q]
    BY <2>2, <2>4 DEF Charge, CallsInv, CallsCharged
  <2>6. Charge(q)' = IF call'[q].status = "complete" THEN billed[q] ELSE Reserve[q]
    BY <2>3 DEF Charge
  <2>7. \A r \in Called : Charge(r)' <= Charge(r)
    <3>1. \A r \in Called : Charge(r) \in Nat /\ r \in Requests
      BY <1>1, ChargesTyped DEF Charges
    <3>2. \A r \in Called \ {q} : Charge(r)' = Charge(r)
      BY <2>3, <3>1 DEF Charge
    <3>3. Charge(q)' <= Charge(q)
      BY <2>2, <2>5, <2>6
    <3> QED
      BY <3>1, <3>2, <3>3
  <2> QED
    BY <1>1, <2>4, <2>7, NoMoreCharged
<1>5. ASSUME NEW w \in Workers, SendCall(w) \/ Searching(w) \/ Abandon(w)
      PROVE  UNCHANGED call
  BY <1>5 DEF SendCall, Searching, ReserveSearch, SendSearch, RecordSearch,
              Abandon, ledger
<1>6. CASE StatusChanges \/ KnowledgeChanges \/ UNCHANGED vars
  BY <1>2, <1>6 DEF StatusChanges, KnowledgeChanges, vars, ledger
<1> QED
  BY <1>2, <1>3, <1>4, <1>5, <1>6 DEF Next, Calling

\* What is covered request by request is covered in sum.
LEMMA BillsFit ==
  ASSUME CallsInv, ChargesFit
  PROVE  WithinCost
<1>1. PICK f, h, S : f = billed /\ h = Charges /\ S = Called
  OBVIOUS
<1>2. /\ f \in [Requests -> Nat] /\ h \in [S -> Nat]
      /\ IsFiniteSet(Requests) /\ IsFiniteSet(S)
  BY <1>1, ChargesTyped, LedgersFinite, CallConstants DEF CallsInv, TypeOK
<1>3. \A q \in Requests : IF q \in S THEN f[q] <= h[q] ELSE f[q] = 0
  BY <1>1 DEF CallsInv, CallsOwned, CallsCharged, Charges
<1>4. PICK g \in Totals(f, Requests), k \in Totals(h, S) : TRUE
  BY <1>2, TotalsExist
<1>5. g[Requests] <= k[Requests \cap S]
  BY <1>2, <1>3, TotalsCompare
<1>6. Requests \cap S = S /\ k[S] <= MaxCost
  BY <1>1, <1>4 DEF ChargesFit, Called
<1>7. g[Requests] \in Nat /\ k[S] \in Nat
  BY DEF Totals
<1>8. g[Requests] <= MaxCost
  BY <1>5, <1>6, <1>7, CallConstants
<1> QED
  BY <1>1, <1>4, <1>8, BillsAddUp DEF CallsInv

\* What the provider charges for a run never exceeds its budget, with any
\* number of workers and requests, lost answers and re-executions.
THEOREM RunKeepsItsCost == Spec => []WithinCost
<1>1. Spec => []CallsInv
  BY InitCalls, NextKeepsCalls, PTL DEF Spec
<1>2. CallsInv /\ CallsInv' /\ ChargesFit /\ [Next]_vars => ChargesFit'
  BY NextKeepsCharges
<1>3. CallsInv /\ ChargesFit => WithinCost
  BY BillsFit
<1> QED
  BY InitCharges, <1>1, <1>2, <1>3, PTL DEF Spec
=============================================================================
