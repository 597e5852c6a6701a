--------------------------- MODULE MaterialFlowProofs ---------------------------
(***************************************************************************)
(* Theorems about MaterialFlow, for all ticks, boards, budgets and bounds.  *)
(***************************************************************************)
EXTENDS MaterialFlow, FiniteSetTheorems, WellFoundedInduction, TLAPS

-----------------------------------------------------------------------------
(* The search budget.                                                        *)

\* The fields of a search, and a search with other ones.
LEMMA SearchFields ==
  ASSUME NEW s \in Searches
  PROVE  /\ s.round \in Nat
         /\ s.used \in Nat
         /\ s.general \in Nat
         /\ s.academic \in Nat
         /\ s.found \subseteq Addresses
  BY DEF Searches

LEMMA KeywordsReplaced ==
  ASSUME NEW s \in Searches, NEW g \in Nat, NEW a \in Nat
  PROVE  /\ [s EXCEPT !.general = g] \in Searches
         /\ [s EXCEPT !.general = g].used = s.used
         /\ [s EXCEPT !.general = g, !.academic = a] \in Searches
         /\ [s EXCEPT !.general = g, !.academic = a].used = s.used
<1>1. [s EXCEPT !.general = g] \in Searches
  BY DEF Searches
<1>2. [s EXCEPT !.general = g].used = s.used
  BY DEF Searches
<1>3. [s EXCEPT !.general = g, !.academic = a] \in Searches
  BY DEF Searches
<1>4. [s EXCEPT !.general = g, !.academic = a].used = s.used
  BY DEF Searches
<1> QED
  BY <1>1, <1>2, <1>3, <1>4

\* The search after a round.
LEMMA RoundSearched ==
  ASSUME NEW s \in Searches, NEW found \in SUBSET Addresses
  PROVE  /\ [s EXCEPT !.round = @ + 1, !.general = 0, !.academic = 0,
                      !.found = @ \cup found] \in Searches
         /\ [s EXCEPT !.round = @ + 1, !.general = 0, !.academic = 0,
                      !.found = @ \cup found].used = s.used
<1>1. s.round + 1 \in Nat
  BY SearchFields
<1>2. s.found \cup found \in SUBSET Addresses
  BY SearchFields
<1>3. \A r \in Nat, f \in SUBSET Addresses :
          [s EXCEPT !.round = r, !.general = 0, !.academic = 0, !.found = f]
              \in Searches
  BY DEF Searches
<1>4. \A r, f :
          [s EXCEPT !.round = r, !.general = 0, !.academic = 0, !.found = f].used
              = s.used
  BY DEF Searches
<1> QED
  BY <1>1, <1>2, <1>3, <1>4

\* Cutting the keywords to what is left of the budget.
LEMMA QueriesFit ==
  ASSUME NEW s \in Searches, NEW left \in Nat \ {0}
  PROVE  LET asked == Queries(s, left)
         IN /\ asked \in Searches
            /\ s.used <= asked.used
            /\ asked.used <= s.used + left
<1> DEFINE general == Slice(s.general, AtLeast(1, left - s.academic))
           academic == Slice(s.academic, AtLeast(0, left - general))
<1>1. s.general \in Nat /\ s.academic \in Nat /\ s.used \in Nat /\ s.round \in Nat
  BY DEF Searches
<1>2. general \in Nat /\ academic \in Nat /\ general + academic <= left
  BY <1>1 DEF Slice, AtLeast
<1> HIDE DEF general, academic
<1>3. CASE s.general + s.academic > left
  <2> DEFINE used == s.used + general + academic
  <2>1. Queries(s, left) = [s EXCEPT !.general = general, !.academic = academic,
                                     !.used = used]
    BY <1>3 DEF Queries, general, academic
  <2>2. used \in Nat /\ s.used <= used /\ used <= s.used + left
    BY <1>1, <1>2
  <2> HIDE DEF used
  <2>3. Queries(s, left) \in Searches
    BY <2>1, <2>2, <1>2 DEF Searches
  <2>4. Queries(s, left).used = used
    BY <2>1 DEF Searches
  <2> QED
    BY <2>2, <2>3, <2>4
<1>4. CASE ~ (s.general + s.academic > left)
  <2> DEFINE used == s.used + s.general + s.academic
  <2>1. Queries(s, left) = [s EXCEPT !.used = used]
    BY <1>4 DEF Queries
  <2>2. used \in Nat /\ s.used <= used /\ used <= s.used + left
    BY <1>1, <1>4
  <2> HIDE DEF used
  <2>3. Queries(s, left) \in Searches
    BY <2>1, <2>2 DEF Searches
  <2>4. Queries(s, left).used = used
    BY <2>1 DEF Searches
  <2> QED
    BY <2>2, <2>3, <2>4
<1> QED
  BY <1>3, <1>4

\* A tick's search is one of Searches and within its budget.
Budgeted ==
  /\ search \in [Ticks -> Searches]
  /\ WithinQueries

\* It stays so, whatever step is taken.
LEMMA SearchesBudgeted == Spec => []Budgeted
<1>1. NoSearch \in Searches /\ NoSearch.used = 0
  BY DEF NoSearch, Searches
<1>2. MaxSearchQueries \in Nat /\ MaxKeywords \in Nat /\ MaxSearchRounds \in Nat
  BY FlowConstants
<1>3. Init => Budgeted
  BY <1>1, <1>2 DEF Init, Budgeted, WithinQueries
<1>4. Budgeted /\ [Next]_vars => Budgeted'
  <2> SUFFICES ASSUME Budgeted, [Next]_vars PROVE Budgeted'
    OBVIOUS
  <2>1. ASSUME NEW k \in Ticks, NEW s \in Searches, s.used <= MaxSearchQueries,
               search' = [search EXCEPT ![k] = s]
        PROVE  Budgeted'
    BY <2>1 DEF Budgeted, WithinQueries
  <2>2. CASE UNCHANGED search
    BY <2>2 DEF Budgeted, WithinQueries
  <2>3. ASSUME NEW k \in Ticks, search' = [search EXCEPT ![k] = NoSearch]
        PROVE  Budgeted'
    <3>1. NoSearch.used <= MaxSearchQueries
      BY <1>1, <1>2
    <3> QED
      BY <2>1, <2>3, <3>1, <1>1
  <2>4. ASSUME NEW k \in Ticks, Plan(k) PROVE Budgeted'
    <3>1. PICK general \in 0 .. MaxKeywords, academic \in 0 .. MaxKeywords :
              search' = [search EXCEPT ![k].general = general,
                                       ![k].academic = academic]
      BY <2>4 DEF Plan
    <3> DEFINE s == [search[k] EXCEPT !.general = general, !.academic = academic]
    <3>2. s \in Searches /\ s.used <= MaxSearchQueries
      <4>1. general \in Nat /\ academic \in Nat /\ search[k] \in Searches
        BY <1>2 DEF Budgeted
      <4>2. PICK old \in Searches : old = search[k]
        BY <4>1
      <4>3. /\ [old EXCEPT !.general = general, !.academic = academic] \in Searches
            /\ [old EXCEPT !.general = general, !.academic = academic].used = old.used
        BY <4>1, KeywordsReplaced
      <4>4. s \in Searches /\ s.used = search[k].used
        BY <4>2, <4>3
      <4> QED
        BY <4>4 DEF Budgeted, WithinQueries
    <3>3. search' = [search EXCEPT ![k] = s]
      BY <3>1 DEF Budgeted
    <3> QED
      BY <2>1, <3>2, <3>3
  <2>5. ASSUME NEW k \in Ticks, Judge(k) PROVE Budgeted'
    <3>1. CASE UNCHANGED search
      BY <3>1, <2>2
    <3>2. CASE \E general \in 0 .. MaxKeywords :
                   search' = [search EXCEPT ![k].general = general]
      <4>1. PICK general \in 0 .. MaxKeywords :
                search' = [search EXCEPT ![k].general = general]
        BY <3>2
      <4> DEFINE s == [search[k] EXCEPT !.general = general]
      <4>2. s \in Searches /\ s.used <= MaxSearchQueries
        <5>1. general \in Nat /\ search[k] \in Searches
          BY <1>2 DEF Budgeted
        <5> QED
          BY <5>1, KeywordsReplaced DEF Budgeted, WithinQueries
      <4>3. search' = [search EXCEPT ![k] = s]
        BY <4>1 DEF Budgeted
      <4> QED
        BY <2>1, <4>2, <4>3
    <3> QED
      BY <2>5, <3>1, <3>2 DEF Judge
  <2>6. ASSUME NEW k \in Ticks, Search(k) PROVE Budgeted'
    <3>1. CASE SearchEnds(search[k])
      BY <2>2, <2>6, <3>1 DEF Search
    <3>2. CASE ~ SearchEnds(search[k])
      <4> DEFINE asked == Queries(search[k], MaxSearchQueries - search[k].used)
      <4>1. PICK found \in Found(asked, search[k]) :
                search' = [search EXCEPT
                    ![k] = [asked EXCEPT !.round = @ + 1, !.general = 0,
                                         !.academic = 0,
                                         !.found = @ \cup found]]
        BY <2>6, <3>2 DEF Search
      <4>2. search[k] \in Searches /\ search[k].used \in Nat
        BY DEF Budgeted, Searches
      <4>3. MaxSearchQueries - search[k].used \in Nat \ {0}
        BY <4>2, <3>2, <1>2 DEF SearchEnds
      <4>4. asked \in Searches /\ asked.used <= MaxSearchQueries
        <5>1. asked \in Searches
                  /\ asked.used <= search[k].used + (MaxSearchQueries - search[k].used)
          BY <4>2, <4>3, QueriesFit
        <5>2. asked.used \in Nat
          BY <5>1 DEF Searches
        <5> QED
          BY <5>1, <5>2, <4>2, <1>2
      <4>5. found \subseteq Addresses
        BY DEF Found
      <4> DEFINE s == [asked EXCEPT !.round = @ + 1, !.general = 0,
                                    !.academic = 0, !.found = @ \cup found]
      <4> HIDE DEF asked
      <4>6. s \in Searches /\ s.used = asked.used
        BY <4>4, <4>5, RoundSearched
      <4> QED
        BY <2>1, <4>1, <4>4, <4>6
    <3> QED
      BY <3>1, <3>2
  <2>7. ASSUME NEW k \in Ticks,
               Take(k) \/ Finish(k) \/ GiveUp(k) \/ Fail(k) \/ Synthesize(k)
        PROVE  Budgeted'
    BY <2>3, <2>7 DEF Take, Finish, GiveUp, Fail, Ends, Synthesize
  <2>8. ASSUME NEW k \in Ticks,
               \/ List(k) \/ StoreSource(k) \/ ReadSources(k) \/ Generate(k)
               \/ StoreCard(k) \/ Mark(k) \/ ReadCards(k) \/ Draft(k)
               \/ Review(k) \/ Build(k) \/ FillGap(k)
        PROVE  Budgeted'
    BY <2>2, <2>8 DEF List, StoreSource, ReadSources, Generate, StoreCard, Mark,
                      ReadCards, Draft, Review, Build, FillGap
  <2>9. ASSUME NEW t \in Tasks, Retry(t) \/ SetTask(t) PROVE Budgeted'
    BY <2>2, <2>9 DEF Retry, SetTask
  <2>10. ASSUME AddSource \/ \E i \in DOMAIN source : SetSource(i) PROVE Budgeted'
    BY <2>2, <2>10 DEF AddSource, SetSource
  <2>11. CASE UNCHANGED vars
    BY <2>2, <2>11 DEF vars
  <2> QED
    BY <2>4, <2>5, <2>6, <2>7, <2>8, <2>9, <2>10, <2>11 DEF Next
<1> QED
  BY <1>3, <1>4, PTL DEF Spec

\* The searches of a task stay within max_search_queries: WithinQueries, for any
\* budget of rounds and queries and whatever keywords the model names.
THEOREM SearchesWithinBudget == Spec => []WithinQueries
<1>1. Budgeted => WithinQueries
  BY DEF Budgeted
<1> QED
  BY <1>1, SearchesBudgeted, PTL

-----------------------------------------------------------------------------
(* Rows and ticks.                                                           *)

CardShapes == [from : SUBSET Nat, by : Tasks]
Fields == {"step", "queue", "task", "records", "read", "todo", "draft"}
Ours(k) == {t \in Tasks : AgentOf(t) = k[1]}
AtWork(k) == tick[k].step \notin {"idle", "next"}

\* The types, but for the number of records, which Merge counts.
RowsShaped ==
  /\ task \in [Tasks -> TaskStatuses \cup {"none"}]
  /\ said \in [Tasks -> TaskStatuses \cup {"none"}]
  /\ source \in Seq(SourceRows)
  /\ card \in Seq(CardShapes)
  /\ output \in Seq(OutputRows)
Shape(k) ==
  /\ DOMAIN tick[k] = Fields
  /\ tick[k].queue \subseteq Ours(k)
  /\ tick[k].read \subseteq Nat
  /\ tick[k].todo \subseteq tick[k].read \cap DOMAIN source
  /\ AtWork(k) => TaskOf(k) \in Ours(k)
  /\ At(k, "idle") => tick[k].queue = {}
  /\ At(k, "next") => tick[k].queue # {}
  /\ tick[k].step \in {"idle", "next", "read"} => tick[k].todo = {}
  /\ tick[k].step \in {"plan", "search", "judge", "materials"} => k[1] = "focus"
  /\ tick[k].step \in {"concepts", "mark"} => k[1] = "dispersion"
  /\ tick[k].step \in {"draft", "review", "build", "gap"} => k[1] = "diffraction"
Shaped ==
  /\ RowsShaped
  /\ DOMAIN tick = Ticks
  /\ \A k \in Ticks : Shape(k)

\* Tick k has come to a step with what it has at hand; the others stay.
Moves(k, step, t, queue, read, todo) ==
  /\ DOMAIN tick' = Ticks
  /\ \A j \in Ticks \ {k} : tick'[j] = tick[j]
  /\ DOMAIN tick'[k] = Fields
  /\ tick'[k].step = step
  /\ tick'[k].task = t
  /\ tick'[k].queue = queue
  /\ tick'[k].read = read
  /\ tick'[k].todo = todo

\* Tick k goes on with its task.
Continues(k, step) ==
  Moves(k, step, TaskOf(k), tick[k].queue, tick[k].read, tick[k].todo)

\* A tick that takes its task from its queue, and one that ends it.
MovesOn(k) ==
  Moves(k, IF tick[k].queue = {} THEN "idle" ELSE "next", 0, tick[k].queue, {}, {})

LEMMA IdleFields ==
  /\ DOMAIN Idle = Fields
  /\ Idle.step = "idle" /\ Idle.task = 0 /\ Idle.queue = {}
  /\ Idle.read = {} /\ Idle.todo = {}
  /\ \A queue : queue # {} => /\ DOMAIN GoesOn(queue) = Fields
                             /\ GoesOn(queue).step = "next"
                             /\ GoesOn(queue).task = 0
                             /\ GoesOn(queue).queue = queue
                             /\ GoesOn(queue).read = {}
                             /\ GoesOn(queue).todo = {}
  /\ GoesOn({}) = Idle
  BY DEF Idle, Fields, GoesOn

LEMMA StepReplaced ==
  ASSUME Shaped, NEW k \in Ticks, NEW step, Goes(k, step)
  PROVE  Continues(k, step)
  BY DEF Shaped, Shape, Goes, Continues, Moves, Fields, TaskOf

LEMMA Ended ==
  ASSUME Shaped, NEW k \in Ticks, tick' = [tick EXCEPT ![k] = GoesOn(@.queue)]
  PROVE  MovesOn(k)
<1>1. CASE tick[k].queue = {}
  BY <1>1, IdleFields DEF Shaped, Shape, MovesOn, Moves
<1>2. CASE tick[k].queue # {}
  BY <1>2, IdleFields DEF Shaped, Shape, MovesOn, Moves
<1> QED
  BY <1>1, <1>2

LEMMA RecordsStored ==
  ASSUME Shaped, NEW k \in Ticks, NEW next, StoresOne(k, next)
  PROVE  Continues(k, next) \/ Continues(k, tick[k].step)
<1> DEFINE left == tick[k].records - 1
<1>1. CASE left = 0
  BY <1>1 DEF Shaped, Shape, StoresOne, Continues, Moves, Fields, TaskOf
<1>2. CASE left # 0
  BY <1>2 DEF Shaped, Shape, StoresOne, Continues, Moves, Fields, TaskOf
<1> QED
  BY <1>1, <1>2

LEMMA RecordsParsed ==
  ASSUME Shaped, NEW k \in Ticks, NEW answers, Stores(k, answers)
  PROVE  Continues(k, "raise") \/ Continues(k, "store")
<1> DEFINE n == Merge(answers).n
<1> HIDE DEF n
<1>0. tick' = [tick EXCEPT ![k].step = IF n = 0 THEN "raise" ELSE "store",
                           ![k].records = n]
  BY DEF Stores, n
<1>1. CASE n = 0
  BY <1>0, <1>1 DEF Shaped, Shape, Continues, Moves, Fields, TaskOf
<1>2. CASE n # 0
  BY <1>0, <1>2 DEF Shaped, Shape, Continues, Moves, Fields, TaskOf
<1> QED
  BY <1>1, <1>2

\* A task can be taken from a queue that is not empty: the oldest is one of it.
LEMMA OldestOf ==
  ASSUME NEW S, S \subseteq Nat, S # {}
  PROVE  Min(S) \in S
<1>1. PICK x \in S : \A y \in S : ~ (<<y, x>> \in OpToRel(<, Nat))
  BY NatLessThanWellFounded, WFMin
<1>2. \A y \in S : ~ (y < x)
  BY <1>1, Zenon DEF OpToRel
<1>3. \A y \in S : x <= y
  BY <1>2
<1> QED
  BY <1>3 DEF Min

\* What each step does to the tick that takes it.
LEMMA TicksMove ==
  ASSUME Shaped, NEW k \in Ticks
  PROVE  /\ List(k) =>
               Moves(k, "next", 0,
                     {t \in Tasks : task[t] = "Todo" /\ AgentOf(t) = k[1]}, {}, {})
         /\ Take(k) =>
               \E t \in tick[k].queue :
                   /\ task' = [task EXCEPT ![t] = "Doing"]
                   /\ Moves(k, FirstStep(t), t, tick[k].queue \ {t},
                            tick[k].read, tick[k].todo)
         /\ Finish(k) \/ GiveUp(k) \/ Fail(k) => AtWork(k) /\ MovesOn(k)
         /\ Plan(k) => Continues(k, "search")
         /\ Search(k) \/ Judge(k) =>
               \E step \in {"materials", "judge", "search"} : Continues(k, step)
         /\ Synthesize(k) \/ Generate(k) =>
               Continues(k, "raise") \/ Continues(k, "store")
         /\ StoreSource(k) => Continues(k, "finish") \/ Continues(k, "store")
         /\ StoreCard(k) => Continues(k, "mark") \/ Continues(k, "store")
<1>1. List(k) =>
        Moves(k, "next", 0,
              {t \in Tasks : task[t] = "Todo" /\ AgentOf(t) = k[1]}, {}, {})
  <2> DEFINE todo == {t \in Tasks : task[t] = "Todo" /\ AgentOf(t) = k[1]}
  <2>1. List(k) => todo # {} /\ tick' = [tick EXCEPT ![k] = GoesOn(todo)]
    BY DEF List
  <2> HIDE DEF todo
  <2>2. List(k) => Moves(k, "next", 0, todo, {}, {})
    BY <2>1, IdleFields DEF Shaped, Shape, Moves
  <2> QED
    BY <2>2 DEF todo
<1>2. ASSUME Take(k)
      PROVE  \E t \in tick[k].queue :
                 /\ task' = [task EXCEPT ![t] = "Doing"]
                 /\ Moves(k, FirstStep(t), t, tick[k].queue \ {t},
                          tick[k].read, tick[k].todo)
  <2> DEFINE t == Min(tick[k].queue)
  <2>1. tick[k].queue \subseteq Nat /\ tick[k].queue # {}
    BY <1>2, FlowConstants DEF Take, Shaped, Shape, Ours
  <2>2. t \in tick[k].queue
    BY <2>1, OldestOf
  <2>3. /\ task' = [task EXCEPT ![t] = "Doing"]
        /\ tick' = [tick EXCEPT ![k].step = FirstStep(t), ![k].task = t,
                                ![k].queue = @ \ {t}]
    BY <1>2 DEF Take
  <2> HIDE DEF t
  <2>4. Moves(k, FirstStep(t), t, tick[k].queue \ {t}, tick[k].read, tick[k].todo)
    BY <2>3 DEF Shaped, Shape, Moves, Fields
  <2> QED
    BY <2>2, <2>3, <2>4
<1>3. Finish(k) \/ GiveUp(k) \/ Fail(k) => AtWork(k) /\ MovesOn(k)
  BY Ended DEF Finish, GiveUp, Fail, Ends, AtWork, At
<1>4. Plan(k) => Continues(k, "search")
  BY StepReplaced DEF Plan
<1>5. Search(k) \/ Judge(k) =>
        \E step \in {"materials", "judge", "search"} : Continues(k, step)
  <2>1. Search(k) => \E step \in {"materials", "judge", "search"} : Goes(k, step)
    BY DEF Search
  <2>2. Judge(k) => \E step \in {"materials", "judge", "search"} : Goes(k, step)
    BY DEF Judge
  <2> QED
    BY <2>1, <2>2, StepReplaced
<1>6. Synthesize(k) \/ Generate(k) => Continues(k, "raise") \/ Continues(k, "store")
  <2>1. Synthesize(k) => Goes(k, "raise") \/ \E answers : Stores(k, answers)
    BY DEF Synthesize
  <2>2. Generate(k) => \E answers : Stores(k, answers)
    BY DEF Generate
  <2> QED
    BY <2>1, <2>2, StepReplaced, RecordsParsed
<1>7. StoreSource(k) => Continues(k, "finish") \/ Continues(k, "store")
  BY RecordsStored DEF StoreSource, At
<1>8. StoreCard(k) => Continues(k, "mark") \/ Continues(k, "store")
  BY RecordsStored DEF StoreCard, At
<1> QED
  BY <1>1, <1>2, <1>3, <1>4, <1>5, <1>6, <1>7, <1>8

LEMMA ReadingMoves ==
  ASSUME Shaped, NEW k \in Ticks
  PROVE  /\ ReadSources(k) =>
               \/ idle' = idle \cup {TaskOf(k)} /\ Continues(k, "finish")
               \/ /\ Moves(k, "concepts", TaskOf(k), tick[k].queue, Collected, Collected)
                  /\ UNCHANGED idle
         /\ ReadCards(k) =>
               \/ idle' = idle \cup {TaskOf(k)} /\ Continues(k, "finish")
               \/ /\ \E read \in {DOMAIN output, DOMAIN card} :
                        Moves(k, "draft", TaskOf(k), tick[k].queue, read, tick[k].todo)
                  /\ UNCHANGED idle
         /\ Mark(k) =>
               \E i \in tick[k].todo :
                   /\ source' = [source EXCEPT ![i].status = "Processed"]
                   /\ Moves(k, IF tick[k].todo = {i} THEN "finish" ELSE "mark",
                            TaskOf(k), tick[k].queue, tick[k].read,
                            tick[k].todo \ {i})
         /\ Draft(k) => Continues(k, "review") \/ Continues(k, "build")
         /\ Review(k) => Continues(k, "build")
         /\ Build(k) => \/ UNCHANGED output /\ Continues(k, "raise")
                        \/ /\ output' = Append(output, [by |-> TaskOf(k),
                                                       merged |-> IsMerge(k)])
                           /\ Continues(k, "gap") \/ Continues(k, "finish")
         /\ FillGap(k) => Continues(k, "finish")
<1>1. ASSUME ReadSources(k)
      PROVE  \/ idle' = idle \cup {TaskOf(k)} /\ Continues(k, "finish")
             \/ /\ Moves(k, "concepts", TaskOf(k), tick[k].queue, Collected, Collected)
                /\ UNCHANGED idle
  <2>1. CASE Collected = {}
    BY <1>1, <2>1, StepReplaced DEF ReadSources, NothingToDo
  <2>2. CASE Collected # {}
    <3>1. tick' = [tick EXCEPT ![k].step = "concepts", ![k].read = Collected,
                               ![k].todo = Collected]
      BY <1>1, <2>2 DEF ReadSources
    <3>2. UNCHANGED idle
      BY <1>1, <2>2 DEF ReadSources
    <3>3. Moves(k, "concepts", TaskOf(k), tick[k].queue, Collected, Collected)
      BY <3>1 DEF Shaped, Shape, Moves, Fields, TaskOf
    <3> QED
      BY <3>2, <3>3
  <2> QED
    BY <2>1, <2>2
<1>2. ASSUME ReadCards(k)
      PROVE  \/ idle' = idle \cup {TaskOf(k)} /\ Continues(k, "finish")
             \/ /\ \E read \in {DOMAIN output, DOMAIN card} :
                      Moves(k, "draft", TaskOf(k), tick[k].queue, read, tick[k].todo)
                /\ UNCHANGED idle
  <2> DEFINE read == IF IsMerge(k) THEN DOMAIN output ELSE DOMAIN card
  <2>1. CASE read = {}
    BY <1>2, <2>1, StepReplaced DEF ReadCards, NothingToDo
  <2>2. CASE read # {}
    <3>1. tick' = [tick EXCEPT ![k].step = "draft", ![k].read = read]
      BY <1>2, <2>2 DEF ReadCards
    <3>2. UNCHANGED idle
      BY <1>2, <2>2 DEF ReadCards
    <3>3. read \in {DOMAIN output, DOMAIN card}
      OBVIOUS
    <3> HIDE DEF read
    <3>4. Moves(k, "draft", TaskOf(k), tick[k].queue, read, tick[k].todo)
      BY <3>1 DEF Shaped, Shape, Moves, Fields, TaskOf
    <3> QED
      BY <3>2, <3>3, <3>4
  <2> QED
    BY <2>1, <2>2
<1>3. ASSUME Mark(k)
      PROVE  \E i \in tick[k].todo :
                 /\ source' = [source EXCEPT ![i].status = "Processed"]
                 /\ Moves(k, IF tick[k].todo = {i} THEN "finish" ELSE "mark",
                          TaskOf(k), tick[k].queue, tick[k].read, tick[k].todo \ {i})
  <2>1. PICK i \in tick[k].todo :
            /\ source' = [source EXCEPT ![i].status = "Processed"]
            /\ tick' = [tick EXCEPT ![k].todo = @ \ {i},
                                    ![k].step = IF tick[k].todo = {i}
                                                THEN "finish" ELSE "mark"]
    BY <1>3 DEF Mark
  <2> DEFINE step == IF tick[k].todo = {i} THEN "finish" ELSE "mark"
  <2>2. tick' = [tick EXCEPT ![k].todo = @ \ {i}, ![k].step = step]
    BY <2>1
  <2> HIDE DEF step
  <2>3. Moves(k, step, TaskOf(k), tick[k].queue, tick[k].read, tick[k].todo \ {i})
    BY <2>2 DEF Shaped, Shape, Moves, Fields, TaskOf
  <2> QED
    BY <2>1, <2>3 DEF step
<1>4. ASSUME Draft(k) PROVE Continues(k, "review") \/ Continues(k, "build")
  <2>1. PICK draft \in Lengths :
            tick' = [tick EXCEPT ![k].draft = draft,
                                 ![k].step = IF draft = "long" /\ ~ IsMerge(k)
                                             THEN "review" ELSE "build"]
    BY <1>4 DEF Draft
  <2> QED
    BY <2>1 DEF Shaped, Shape, Continues, Moves, Fields, TaskOf
<1>5. ASSUME Review(k) PROVE Continues(k, "build")
  <2>1. PICK draft : tick' = [tick EXCEPT ![k].draft = draft, ![k].step = "build"]
    BY <1>5 DEF Review
  <2> QED
    BY <2>1 DEF Shaped, Shape, Continues, Moves, Fields, TaskOf
<1>6. ASSUME Build(k)
      PROVE  \/ UNCHANGED output /\ Continues(k, "raise")
             \/ /\ output' = Append(output, [by |-> TaskOf(k), merged |-> IsMerge(k)])
                /\ Continues(k, "gap") \/ Continues(k, "finish")
  <2>1. CASE tick[k].draft = "useless"
    BY <1>6, <2>1, StepReplaced DEF Build
  <2>2. CASE tick[k].draft # "useless"
    <3>1. output' = Append(output, [by |-> TaskOf(k), merged |-> IsMerge(k)])
      BY <1>6, <2>2 DEF Build
    <3>2. Goes(k, "gap") \/ Goes(k, "finish")
      BY <1>6, <2>2 DEF Build
    <3> QED
      BY <3>1, <3>2, StepReplaced
  <2> QED
    BY <2>1, <2>2
<1>7. FillGap(k) => Continues(k, "finish")
  BY StepReplaced DEF FillGap
<1> QED
  BY <1>1, <1>2, <1>3, <1>4, <1>5, <1>6, <1>7

\* Rows are added at the end and keep who stored them.
LEMMA RowAdded ==
  ASSUME NEW R, NEW s \in Seq(R), NEW r \in R
  PROVE  /\ Append(s, r) \in Seq(R)
         /\ DOMAIN Append(s, r) = DOMAIN s \cup {Len(s) + 1}
         /\ Len(s) + 1 \notin DOMAIN s
         /\ Append(s, r)[Len(s) + 1] = r
         /\ \A i \in DOMAIN s : Append(s, r)[i] = s[i]
  OBVIOUS

LEMMA StatusSet ==
  ASSUME RowsShaped, NEW i \in DOMAIN source,
         NEW status \in SourceStatuses,
         source' = [source EXCEPT ![i].status = status]
  PROVE  /\ (source \in Seq(SourceRows))'
         /\ DOMAIN source' = DOMAIN source
         /\ \A j \in DOMAIN source : source'[j].by = source[j].by
         /\ source'[i].status = status
         /\ \A j \in DOMAIN source \ {i} : source'[j] = source[j]
<1>1. source[i] \in SourceRows
  BY DEF RowsShaped
<1> DEFINE row == [source[i] EXCEPT !.status = status]
<1>2. row \in SourceRows
  BY <1>1 DEF SourceRows
<1>3. row.status = status
  BY <1>1 DEF SourceRows
<1>4. row.by = source[i].by
  BY <1>1 DEF SourceRows
<1>5. source' = [source EXCEPT ![i] = row]
  OBVIOUS
<1> HIDE DEF row
<1>6. source \in Seq(SourceRows)
  BY DEF RowsShaped
<1>7. source' \in Seq(SourceRows)
  BY <1>2, <1>5, <1>6
<1>8. \A j \in DOMAIN source \ {i} : source'[j] = source[j]
  BY <1>5
<1>9. DOMAIN source' = DOMAIN source /\ source'[i] = row
  BY <1>5
<1> QED
  BY <1>3, <1>4, <1>7, <1>8, <1>9

\* The ticks keep their shape when one of them moves.
LEMMA MovedShape ==
  ASSUME Shaped, NEW k \in Ticks, NEW step, NEW t, NEW queue, NEW read, NEW todo,
         Moves(k, step, t, queue, read, todo),
         DOMAIN source \subseteq DOMAIN source',
         queue \subseteq Ours(k),
         read \subseteq Nat,
         todo \subseteq read \cap DOMAIN source,
         step \notin {"idle", "next"} => t \in Ours(k),
         step = "idle" => queue = {},
         step = "next" => queue # {},
         step \in {"idle", "next", "read"} => todo = {},
         step \in {"plan", "search", "judge", "materials"} => k[1] = "focus",
         step \in {"concepts", "mark"} => k[1] = "dispersion",
         step \in {"draft", "review", "build", "gap"} => k[1] = "diffraction"
  PROVE  /\ DOMAIN tick' = Ticks
         /\ \A j \in Ticks : Shape(j)'
<1>1. Shape(k)'
  BY DEF Moves, Shape, AtWork, At, TaskOf, Ours
<1>2. ASSUME NEW j \in Ticks \ {k} PROVE Shape(j)'
  BY DEF Moves, Shaped, Shape, AtWork, At, TaskOf, Ours
<1> QED
  BY <1>1, <1>2 DEF Moves

LEMMA ContinuesShape ==
  ASSUME Shaped, NEW k \in Ticks, NEW step, Continues(k, step), AtWork(k),
         DOMAIN source \subseteq DOMAIN source',
         step \notin {"idle", "next", "read", "concepts"},
         step \in {"plan", "search", "judge", "materials"} => k[1] = "focus",
         step = "mark" => k[1] = "dispersion",
         step \in {"draft", "review", "build", "gap"} => k[1] = "diffraction"
  PROVE  /\ DOMAIN tick' = Ticks
         /\ \A j \in Ticks : Shape(j)'
  BY MovedShape DEF Continues, Shaped, Shape, AtWork, At, TaskOf

LEMMA EndedShape ==
  ASSUME Shaped, NEW k \in Ticks, MovesOn(k), UNCHANGED source
  PROVE  /\ DOMAIN tick' = Ticks
         /\ \A j \in Ticks : Shape(j)'
<1> DEFINE step == IF tick[k].queue = {} THEN "idle" ELSE "next"
<1>1. step = "idle" => tick[k].queue = {}
  OBVIOUS
<1>2. step = "next" => tick[k].queue # {}
  OBVIOUS
<1>3. step \in {"idle", "next"}
  OBVIOUS
<1>4. Moves(k, step, 0, tick[k].queue, {}, {})
  BY DEF MovesOn
<1> HIDE DEF step
<1> QED
  BY <1>1, <1>2, <1>3, <1>4, MovedShape DEF Shaped, Shape

LEMMA StaysShape ==
  ASSUME Shaped, UNCHANGED tick, DOMAIN source \subseteq DOMAIN source'
  PROVE  /\ DOMAIN tick' = Ticks
         /\ \A j \in Ticks : Shape(j)'
  BY DEF Shaped, Shape, AtWork, At, TaskOf, Ours

LEMMA RowsKeepShape ==
  ASSUME Shaped, [Next]_vars
  PROVE  RowsShaped' /\ DOMAIN source \subseteq DOMAIN source'
<1> DEFINE Goal == RowsShaped' /\ DOMAIN source \subseteq DOMAIN source'
<1>1. ASSUME UNCHANGED <<source, card, output>>, NEW t, NEW status \in TaskStatuses,
             task' = [task EXCEPT ![t] = status],
             said' \in {said, [said EXCEPT ![t] = status]}
      PROVE  Goal
  BY <1>1 DEF Shaped, RowsShaped
<1>2. ASSUME UNCHANGED <<task, said, source, card, output>> PROVE Goal
  BY <1>2 DEF Shaped, RowsShaped
<1>3. ASSUME NEW k \in Ticks, \/ Take(k) \/ Finish(k) \/ GiveUp(k) \/ Fail(k)
      PROVE  Goal
  BY <1>1, <1>3 DEF Take, Finish, GiveUp, Fail, Ends, KeepsBounds, past, TaskStatuses
<1>4. ASSUME NEW k \in Ticks,
             \/ List(k) \/ Plan(k) \/ Search(k) \/ Judge(k) \/ Synthesize(k)
             \/ ReadSources(k) \/ Generate(k) \/ ReadCards(k) \/ Draft(k)
             \/ Review(k)
      PROVE  Goal
  BY <1>2, <1>4 DEF List, Plan, Search, Judge, Synthesize, ReadSources, Generate,
                    ReadCards, Draft, Review, rows, Triggered, KeepsBounds, past
<1>5. ASSUME NEW by \in Tasks \cup {0}, UNCHANGED <<task, said, card, output>>,
             source' = Append(source, [status |-> "Collected", by |-> by])
      PROVE  Goal
  <2> DEFINE row == [status |-> "Collected", by |-> by]
  <2>1. row \in SourceRows
    BY DEF SourceRows, SourceStatuses
  <2> HIDE DEF row
  <2>2. source' = Append(source, row)
    BY <1>5 DEF row
  <2>3. source \in Seq(SourceRows)
    BY DEF Shaped, RowsShaped
  <2>4. source' \in Seq(SourceRows) /\ DOMAIN source \subseteq DOMAIN source'
    BY <2>1, <2>2, <2>3, RowAdded
  <2> QED
    BY <1>5, <2>4 DEF Shaped, RowsShaped
<1>6. ASSUME NEW k \in Ticks, StoreSource(k) PROVE Goal
  <2>1. TaskOf(k) \in Tasks
    BY <1>6 DEF StoreSource, At, AtWork, Shaped, Shape, Ours
  <2> QED
    BY <1>5, <1>6, <2>1 DEF StoreSource, KeepsBounds, past
<1>7. CASE AddSource
  BY <1>5, <1>7 DEF AddSource, past
<1>8. ASSUME NEW k \in Ticks, StoreCard(k) PROVE Goal
  <2> DEFINE row == [from |-> tick[k].read, by |-> TaskOf(k)]
  <2>1. TaskOf(k) \in Tasks
    BY <1>8 DEF StoreCard, At, AtWork, Shaped, Shape, Ours
  <2>2. row \in CardShapes
    BY <2>1 DEF CardShapes, Shaped, Shape
  <2>3. card' = Append(card, row) /\ UNCHANGED <<task, said, source, output>>
    BY <1>8 DEF StoreCard, KeepsBounds, past
  <2> HIDE DEF row
  <2> QED
    BY <2>2, <2>3, RowAdded DEF Shaped, RowsShaped
<1>9. ASSUME NEW k \in Ticks, Build(k) PROVE Goal
  <2>1. CASE UNCHANGED output
    BY <1>2, <1>9, <2>1 DEF Build, KeepsBounds, past
  <2>2. CASE output' = Append(output, [by |-> TaskOf(k), merged |-> IsMerge(k)])
    <3> DEFINE row == [by |-> TaskOf(k), merged |-> IsMerge(k)]
    <3>1. TaskOf(k) \in Tasks
      BY <1>9 DEF Build, At, AtWork, Shaped, Shape, Ours
    <3>2. IsMerge(k) \in BOOLEAN
      BY DEF IsMerge
    <3>3. row \in OutputRows
      BY <3>1, <3>2 DEF OutputRows
    <3>4. output' = Append(output, row) /\ UNCHANGED <<task, said, source, card>>
      BY <1>9, <2>2 DEF Build, KeepsBounds, past
    <3> HIDE DEF row
    <3> QED
      BY <3>3, <3>4, RowAdded DEF Shaped, RowsShaped
  <2> QED
    BY <1>9, <2>1, <2>2, ReadingMoves
<1>10. ASSUME NEW k \in Ticks, Mark(k) PROVE Goal
  <2>1. PICK i \in tick[k].todo : source' = [source EXCEPT ![i].status = "Processed"]
    BY <1>10 DEF Mark
  <2>2. i \in DOMAIN source
    BY DEF Shaped, Shape
  <2> QED
    BY <1>10, <2>1, <2>2, StatusSet
       DEF Mark, Shaped, RowsShaped, KeepsBounds, past, SourceStatuses
<1>11. ASSUME NEW i \in DOMAIN source, SetSource(i) PROVE Goal
  <2>1. PICK status \in SourceStatuses :
            source' = [source EXCEPT ![i].status = status]
    BY <1>11 DEF SetSource
  <2> QED
    BY <1>11, <2>1, StatusSet DEF SetSource, Shaped, RowsShaped
<1>12. ASSUME NEW k \in Ticks, FillGap(k) PROVE Goal
  BY <1>1, <1>12 DEF FillGap, KeepsBounds, past, TaskStatuses
<1>13. ASSUME NEW t \in Tasks, Retry(t) \/ SetTask(t) PROVE Goal
  BY <1>1, <1>13 DEF Retry, SetTask, KeepsBounds, past, TaskStatuses
<1>14. CASE UNCHANGED vars
  BY <1>2, <1>14 DEF vars, rows, past
<1> QED
  BY <1>3, <1>4, <1>6, <1>7, <1>8, <1>9, <1>10, <1>11, <1>12, <1>13, <1>14 DEF Next

LEMMA TicksKeepShape ==
  ASSUME Shaped, [Next]_vars
  PROVE  /\ DOMAIN tick' = Ticks
         /\ \A j \in Ticks : Shape(j)'
<1> DEFINE Goal == /\ DOMAIN tick' = Ticks
                   /\ \A j \in Ticks : Shape(j)'
<1>0. DOMAIN source \subseteq DOMAIN source'
  BY RowsKeepShape
<1>1. ASSUME NEW k \in Ticks, NEW step, Continues(k, step), AtWork(k),
             step \notin {"idle", "next", "read", "concepts"},
             step \in {"plan", "search", "judge", "materials"} => k[1] = "focus",
         step = "mark" => k[1] = "dispersion",
             step \in {"draft", "review", "build", "gap"} => k[1] = "diffraction"
      PROVE  Goal
  BY <1>0, <1>1, ContinuesShape
<1>2. ASSUME NEW k \in Ticks, List(k) PROVE Goal
  <2> DEFINE todo == {t \in Tasks : task[t] = "Todo" /\ AgentOf(t) = k[1]}
  <2>1. Moves(k, "next", 0, todo, {}, {})
    BY <1>2, TicksMove
  <2>2. todo \subseteq Ours(k)
    BY DEF Ours
  <2>3. todo # {}
    BY <1>2 DEF List
  <2> HIDE DEF todo
  <2> QED
    BY <1>0, <2>1, <2>2, <2>3, MovedShape
<1>3. ASSUME NEW k \in Ticks, Take(k) PROVE Goal
  <2>1. PICK t \in tick[k].queue :
            Moves(k, FirstStep(t), t, tick[k].queue \ {t}, tick[k].read, tick[k].todo)
    BY <1>3, TicksMove
  <2>2. tick[k].todo = {} /\ tick[k].read \subseteq Nat /\ tick[k].queue \subseteq Ours(k)
    BY <1>3 DEF Take, At, Shaped, Shape
  <2>3. FirstStep(t) \in {"plan", "read"} /\ (FirstStep(t) = "plan" => k[1] = "focus")
    BY <2>2 DEF FirstStep, Ours, AgentOf
  <2> QED
    BY <1>0, <2>1, <2>2, <2>3, MovedShape
<1>4. ASSUME NEW k \in Ticks, \/ Finish(k) \/ GiveUp(k) \/ Fail(k) PROVE Goal
  BY <1>4, TicksMove, EndedShape DEF Finish, GiveUp, Fail, Ends
<1>5. ASSUME NEW k \in Ticks,
             \/ Plan(k) \/ Search(k) \/ Judge(k) \/ Synthesize(k) \/ StoreSource(k)
             \/ Generate(k)
      PROVE  Goal
  <2>1. AtWork(k)
    BY <1>5 DEF Plan, Search, Judge, Synthesize, StoreSource, Generate, At, AtWork
  <2>2. CASE \/ Plan(k) \/ Search(k) \/ Judge(k)
    <3>1. k[1] = "focus"
      BY <2>2 DEF Plan, Search, Judge, At, Shaped, Shape
    <3>2. \E step \in {"search", "materials", "judge"} : Continues(k, step)
      BY <2>2, TicksMove
    <3> QED
      BY <1>1, <2>1, <3>1, <3>2
  <2>3. CASE \/ Synthesize(k) \/ StoreSource(k) \/ Generate(k)
    <3>1. \E step \in {"raise", "store", "finish"} : Continues(k, step)
      BY <2>3, TicksMove
    <3> QED
      BY <1>1, <2>1, <3>1
  <2> QED
    BY <1>5, <2>2, <2>3
<1>6. ASSUME NEW k \in Ticks, StoreCard(k) PROVE Goal
  <2>1. AtWork(k) /\ k[1] = "dispersion"
    BY <1>6 DEF StoreCard, At, AtWork
  <2>2. Continues(k, "mark") \/ Continues(k, "store")
    BY <1>6, TicksMove
  <2> QED
    BY <1>1, <2>1, <2>2
<1>7. ASSUME NEW k \in Ticks, ReadSources(k) PROVE Goal
  <2>1. AtWork(k) /\ k[1] = "dispersion"
    BY <1>7 DEF ReadSources, At, AtWork
  <2>2. CASE Continues(k, "finish")
    BY <1>1, <2>1, <2>2
  <2>3. CASE Moves(k, "concepts", TaskOf(k), tick[k].queue, Collected, Collected)
    <3>1. Collected \subseteq Nat \cap DOMAIN source
      BY DEF Collected, Shaped, RowsShaped
    <3>2. tick[k].queue \subseteq Ours(k) /\ TaskOf(k) \in Ours(k)
      BY <2>1 DEF Shaped, Shape
    <3> QED
      BY <1>0, <2>1, <2>3, <3>1, <3>2, MovedShape
  <2> QED
    BY <1>7, <2>2, <2>3, ReadingMoves
<1>8. ASSUME NEW k \in Ticks, ReadCards(k) PROVE Goal
  <2>1. AtWork(k) /\ k[1] = "diffraction" /\ At(k, "read")
    BY <1>8 DEF ReadCards, At, AtWork
  <2>2. CASE Continues(k, "finish")
    BY <1>1, <2>1, <2>2
  <2>3. CASE \E read \in {DOMAIN output, DOMAIN card} :
                 Moves(k, "draft", TaskOf(k), tick[k].queue, read, tick[k].todo)
    <3>1. DOMAIN output \subseteq Nat /\ DOMAIN card \subseteq Nat
      BY DEF Shaped, RowsShaped
    <3>2. /\ tick[k].queue \subseteq Ours(k) /\ TaskOf(k) \in Ours(k)
          /\ tick[k].todo = {}
      BY <2>1 DEF Shaped, Shape, At
    <3> QED
      BY <1>0, <2>1, <2>3, <3>1, <3>2, MovedShape
  <2> QED
    BY <1>8, <2>2, <2>3, ReadingMoves
<1>9. ASSUME NEW k \in Ticks, Mark(k) PROVE Goal
  <2>1. AtWork(k) /\ k[1] = "dispersion"
    BY <1>9 DEF Mark, At, AtWork, Shaped, Shape
  <2>2. PICK i \in tick[k].todo :
            Moves(k, IF tick[k].todo = {i} THEN "finish" ELSE "mark", TaskOf(k),
                  tick[k].queue, tick[k].read, tick[k].todo \ {i})
    BY <1>9, ReadingMoves
  <2>3. (IF tick[k].todo = {i} THEN "finish" ELSE "mark") \in {"finish", "mark"}
    OBVIOUS
  <2>4. /\ tick[k].queue \subseteq Ours(k) /\ TaskOf(k) \in Ours(k)
        /\ tick[k].read \subseteq Nat
        /\ tick[k].todo \ {i} \subseteq tick[k].read \cap DOMAIN source
    BY <2>1 DEF Shaped, Shape
  <2> QED
    BY <1>0, <2>1, <2>2, <2>3, <2>4, MovedShape
<1>10. ASSUME NEW k \in Ticks, \/ Draft(k) \/ Review(k) \/ Build(k) \/ FillGap(k)
       PROVE  Goal
  <2>1. AtWork(k) /\ k[1] = "diffraction"
    BY <1>10 DEF Draft, Review, Build, FillGap, At, AtWork, Shaped, Shape
  <2>2. \E step \in {"review", "build", "raise", "gap", "finish"} : Continues(k, step)
    BY <1>10, ReadingMoves
  <2> QED
    BY <1>1, <2>1, <2>2
<1>11. ASSUME UNCHANGED tick PROVE Goal
  BY <1>0, <1>11, StaysShape
<1>12. ASSUME NEW t \in Tasks, Retry(t) \/ SetTask(t) PROVE Goal
  BY <1>11, <1>12 DEF Retry, SetTask
<1>13. CASE AddSource \/ \E i \in DOMAIN source : SetSource(i)
  BY <1>11, <1>13 DEF AddSource, SetSource
<1>14. CASE UNCHANGED vars
  BY <1>11, <1>14 DEF vars
<1> QED
  BY <1>2, <1>3, <1>4, <1>5, <1>6, <1>7, <1>8, <1>9, <1>10, <1>12, <1>13, <1>14
     DEF Next

\* Rows and ticks keep their shape.
THEOREM RowsAndTicks == Spec => []Shaped
<1>1. Init => Shaped
  <2>1. Init => RowsShaped
    BY DEF Init, RowsShaped, TaskStatuses
  <2>2. Init => DOMAIN tick = Ticks /\ \A k \in Ticks : Shape(k)
    BY IdleFields DEF Init, Shape, AtWork, At, TaskOf
  <2> QED
    BY <2>1, <2>2 DEF Shaped
<1>2. Shaped /\ [Next]_vars => Shaped'
  BY RowsKeepShape, TicksKeepShape DEF Shaped
<1> QED
  BY <1>1, <1>2, PTL DEF Spec

\* Who changes the status of a task, and how.
Released(k, t) == AtWork(k) /\ t = TaskOf(k) /\ (Finish(k) \/ task'[t] = "Waiting")
LEMMA TaskChanges ==
  ASSUME Shaped, [Next]_vars, NEW t \in Tasks
  PROVE  \/ task'[t] = task[t] /\ said'[t] = said[t]
         \/ /\ \E k \in Ticks : Take(k) /\ t \in tick[k].queue
            /\ task'[t] = "Doing" /\ said'[t] = said[t]
         \/ /\ \E k \in Ticks : Released(k, t)
            /\ said'[t] = said[t]
         \/ /\ task[t] \in {"none", "Waiting"} /\ task'[t] = "Todo"
            /\ said'[t] = said[t]
         \/ SetTask(t) /\ said'[t] = task'[t]
<1> DEFINE Same(u) == task'[u] = task[u] /\ said'[u] = said[u]
           Goal == \/ Same(t)
                   \/ /\ \E k \in Ticks : Take(k) /\ t \in tick[k].queue
                      /\ task'[t] = "Doing" /\ said'[t] = said[t]
                   \/ /\ \E k \in Ticks : Released(k, t)
                      /\ said'[t] = said[t]
                   \/ /\ task[t] \in {"none", "Waiting"} /\ task'[t] = "Todo"
                      /\ said'[t] = said[t]
                   \/ SetTask(t) /\ said'[t] = task'[t]
<1>1. UNCHANGED <<task, said>> => Goal
  OBVIOUS
<1>2. ASSUME NEW k \in Ticks,
             \/ List(k) \/ Plan(k) \/ Search(k) \/ Judge(k) \/ Synthesize(k)
             \/ StoreSource(k) \/ ReadSources(k) \/ Generate(k) \/ StoreCard(k)
             \/ Mark(k) \/ ReadCards(k) \/ Draft(k) \/ Review(k) \/ Build(k)
      PROVE  UNCHANGED <<task, said>>
  BY <1>2 DEF List, Plan, Search, Judge, Synthesize, StoreSource, ReadSources,
              Generate, StoreCard, Mark, ReadCards, Draft, Review, Build, rows,
              Triggered, KeepsBounds, past
<1>3. ASSUME NEW u, NEW status, task' = [task EXCEPT ![u] = status]
      PROVE  /\ t # u => task'[t] = task[t]
             /\ t = u => task'[t] = status
  BY <1>3 DEF Shaped, RowsShaped
<1>4. ASSUME NEW k \in Ticks, Take(k) PROVE Goal
  <2>1. PICK u \in tick[k].queue : task' = [task EXCEPT ![u] = "Doing"]
    BY <1>4, TicksMove
  <2>2. UNCHANGED said
    BY <1>4 DEF Take, KeepsBounds, past
  <2> QED
    BY <1>3, <1>4, <2>1, <2>2
<1>5. ASSUME NEW k \in Ticks, Finish(k) \/ GiveUp(k) \/ Fail(k) PROVE Goal
  <2>1. AtWork(k) /\ UNCHANGED said
    BY <1>5, TicksMove DEF Finish, GiveUp, Fail, Ends
  <2>2. PICK u : u = TaskOf(k)
    OBVIOUS
  <2>3. \/ Finish(k) /\ task' = [task EXCEPT ![u] = "Done"]
        \/ task' = [task EXCEPT ![u] = "Waiting"]
    BY <1>5, <2>2 DEF Finish, GiveUp, Fail, Ends
  <2>4. t = u => Released(k, t)
    BY <1>3, <2>1, <2>2, <2>3 DEF Released
  <2> QED
    BY <1>3, <2>1, <2>3, <2>4
<1>6. ASSUME NEW k \in Ticks, FillGap(k) PROVE Goal
  BY <1>3, <1>6 DEF FillGap, KeepsBounds, past
<1>7. ASSUME NEW u \in Tasks, Retry(u) PROVE Goal
  BY <1>3, <1>7 DEF Retry, KeepsBounds, past
<1>8. ASSUME NEW u \in Tasks, SetTask(u) PROVE Goal
  <2>1. PICK status : /\ task' = [task EXCEPT ![u] = status]
                      /\ said' = [said EXCEPT ![u] = status]
    BY <1>8 DEF SetTask
  <2>2. /\ t # u => said'[t] = said[t]
        /\ t = u => said'[t] = status
    BY <2>1 DEF Shaped, RowsShaped
  <2> QED
    BY <1>3, <1>8, <2>1, <2>2
<1>9. AddSource \/ (\E i \in DOMAIN source : SetSource(i)) \/ UNCHANGED vars
          => UNCHANGED <<task, said>>
  BY DEF AddSource, SetSource, vars, rows, past
<1> QED
  BY <1>1, <1>2, <1>4, <1>5, <1>6, <1>7, <1>8, <1>9 DEF Next

-----------------------------------------------------------------------------
(* What a task leaves behind.                                                *)

\* Rows stay, cards and outputs as they are, and sources keep who stored them.
RowsStay ==
  /\ idle \subseteq idle'
  /\ \A i \in DOMAIN source : i \in DOMAIN source' /\ source'[i].by = source[i].by
  /\ \A c \in DOMAIN card : c \in DOMAIN card' /\ card'[c] = card[c]
  /\ \A o \in DOMAIN output : o \in DOMAIN output' /\ output'[o] = output[o]

LEMMA StepsKeepRows ==
  ASSUME Shaped, [Next]_vars
  PROVE  RowsStay
<1>0. /\ source \in Seq(SourceRows)
      /\ card \in Seq(CardShapes)
      /\ output \in Seq(OutputRows)
  BY DEF Shaped, RowsShaped
<1>1. ASSUME idle \subseteq idle', UNCHANGED <<source, card, output>>
      PROVE  RowsStay
  BY <1>1 DEF RowsStay
<1>2. ASSUME NEW k \in Ticks,
             \/ List(k) \/ Take(k) \/ Finish(k) \/ GiveUp(k) \/ Fail(k)
             \/ Plan(k) \/ Search(k) \/ Judge(k) \/ Synthesize(k)
             \/ ReadSources(k) \/ Generate(k) \/ ReadCards(k) \/ Draft(k)
             \/ Review(k) \/ FillGap(k)
      PROVE  RowsStay
  BY <1>1, <1>2 DEF List, Take, Finish, GiveUp, Fail, Ends, Plan, Search, Judge,
       Synthesize, ReadSources, Generate, ReadCards, Draft, Review, FillGap,
       NothingToDo, rows
<1>3. ASSUME NEW k \in Ticks, Mark(k) PROVE RowsStay
  <2>1. PICK i \in tick[k].todo : source' = [source EXCEPT ![i].status = "Processed"]
    BY <1>3 DEF Mark
  <2>2. i \in DOMAIN source
    BY DEF Shaped, Shape
  <2> QED
    BY <1>3, <2>1, <2>2, StatusSet DEF Mark, Shaped, RowsStay, SourceStatuses
<1>4. ASSUME NEW i \in DOMAIN source, SetSource(i) PROVE RowsStay
  <2>1. PICK status \in SourceStatuses :
            source' = [source EXCEPT ![i].status = status]
    BY <1>4 DEF SetSource
  <2> QED
    BY <1>4, <2>1, StatusSet DEF SetSource, Shaped, RowsStay
<1>5. ASSUME UNCHANGED <<idle, card, output>>,
             NEW row, source' = Append(source, row)
      PROVE  RowsStay
  BY <1>0, <1>5 DEF RowsStay
<1>6. ASSUME UNCHANGED <<idle, source, output>>,
             NEW row, card' = Append(card, row)
      PROVE  RowsStay
  BY <1>0, <1>6 DEF RowsStay
<1>7. ASSUME UNCHANGED <<idle, source, card>>,
             NEW row, output' = Append(output, row)
      PROVE  RowsStay
  BY <1>0, <1>7 DEF RowsStay
<1>8. ASSUME NEW k \in Ticks, Build(k) PROVE RowsStay
  BY <1>1, <1>7, <1>8 DEF Build
<1>9. ASSUME NEW k \in Ticks, StoreSource(k) \/ StoreCard(k) PROVE RowsStay
  BY <1>5, <1>6, <1>9 DEF StoreSource, StoreCard
<1>10. CASE AddSource
  BY <1>5, <1>10 DEF AddSource
<1>11. ASSUME NEW t \in Tasks, Retry(t) \/ SetTask(t) PROVE RowsStay
  BY <1>1, <1>11 DEF Retry, SetTask
<1>12. CASE UNCHANGED vars
  BY <1>1, <1>12 DEF vars, rows
<1> QED
  BY <1>2, <1>3, <1>4, <1>8, <1>9, <1>10, <1>11, <1>12 DEF Next

LEMMA LeftRowsStay ==
  ASSUME RowsStay, NEW t, LeftRows(t)
  PROVE  LeftRows(t)'
<1>1. CASE Kind[t] = "collect"
  BY <1>1 DEF RowsStay, LeftRows
<1>2. CASE Kind[t] = "analyse"
  BY <1>2 DEF RowsStay, LeftRows
<1>3. CASE Kind[t] \notin {"collect", "analyse"}
  BY <1>3 DEF RowsStay, LeftRows
<1> QED
  BY <1>1, <1>2, <1>3

\* The row that an agent stores is one of its task's.
LEMMA StoredRow ==
  ASSUME Shaped, NEW k \in Ticks, NEW t, AgentOf(t) = k[1],
         \/ k[1] = "focus" /\ \E row : row.by = t /\ source' = Append(source, row)
         \/ k[1] = "dispersion"
                /\ \E row : row.by = t /\ card' = Append(card, row)
         \/ k[1] = "diffraction"
                /\ \E row : row.by = t /\ output' = Append(output, row)
  PROVE  LeftRows(t)'
<1>0. /\ source \in Seq(SourceRows)
      /\ card \in Seq(CardShapes)
      /\ output \in Seq(OutputRows)
  BY DEF Shaped, RowsShaped
<1>2. ASSUME k[1] = "focus", NEW row, row.by = t, source' = Append(source, row)
      PROVE  \E i \in DOMAIN source' : source'[i].by = t
  <2>1. Len(source) + 1 \in DOMAIN source' /\ source'[Len(source) + 1] = row
    BY <1>0, <1>2
  <2> QED
    BY <1>2, <2>1
<1>3. ASSUME k[1] = "dispersion", NEW row, row.by = t, card' = Append(card, row)
      PROVE  \E c \in DOMAIN card' : card'[c].by = t
  <2>1. Len(card) + 1 \in DOMAIN card' /\ card'[Len(card) + 1] = row
    BY <1>0, <1>3
  <2> QED
    BY <1>3, <2>1
<1>4. ASSUME k[1] = "diffraction", NEW row, row.by = t, output' = Append(output, row)
      PROVE  \E o \in DOMAIN output' : output'[o].by = t
  <2>1. Len(output) + 1 \in DOMAIN output' /\ output'[Len(output) + 1] = row
    BY <1>0, <1>4
  <2> QED
    BY <1>4, <2>1
<1>5. /\ k[1] = "focus" => Kind[t] = "collect"
      /\ k[1] = "dispersion" => Kind[t] = "analyse"
      /\ k[1] = "diffraction" => Kind[t] \notin {"collect", "analyse"}
  BY DEF AgentOf
<1>6. /\ Kind[t] = "collect" /\ (\E i \in DOMAIN source' : source'[i].by = t)
            => LeftRows(t)'
      /\ Kind[t] = "analyse" /\ (\E c \in DOMAIN card' : card'[c].by = t)
            => LeftRows(t)'
      /\ Kind[t] \notin {"collect", "analyse"}
             /\ (\E o \in DOMAIN output' : output'[o].by = t)
            => LeftRows(t)'
  BY DEF LeftRows
<1>7. CASE k[1] = "focus" /\ \E row : row.by = t /\ source' = Append(source, row)
  BY <1>2, <1>5, <1>6, <1>7
<1>8. CASE k[1] = "dispersion" /\ \E row : row.by = t /\ card' = Append(card, row)
  BY <1>3, <1>5, <1>6, <1>8
<1>9. CASE k[1] = "diffraction" /\ \E row : row.by = t /\ output' = Append(output, row)
  BY <1>4, <1>5, <1>6, <1>9
<1> QED
  BY <1>7, <1>8, <1>9

\* A tick about to end its task has stored a row, or has said that there was
\* nothing to work on; before a mark or a gap report it has stored one.
Settled(k) ==
  /\ At(k, "finish") => LeftRows(TaskOf(k)) \/ TaskOf(k) \in idle
  /\ tick[k].step \in {"mark", "gap"} => LeftRows(TaskOf(k))
Kept == NoEmptyDone /\ \A k \in Ticks : Settled(k)

LEMMA SettledStays ==
  ASSUME RowsStay, NEW k, Settled(k), tick'[k] = tick[k]
  PROVE  Settled(k)'
<1>1. PICK t : t = TaskOf(k)
  OBVIOUS
<1>2. TaskOf(k)' = t
  BY <1>1 DEF TaskOf
<1>3. LeftRows(t) => LeftRows(t)'
  BY LeftRowsStay
<1>4. idle \subseteq idle'
  BY DEF RowsStay
<1>5. LeftRows(TaskOf(k))' <=> LeftRows(t)'
  BY <1>2 DEF LeftRows
<1>6. LeftRows(TaskOf(k)) <=> LeftRows(t)
  BY <1>1
<1> QED
  BY <1>1, <1>2, <1>3, <1>4, <1>5, <1>6 DEF Settled, At

\* A tick that goes on to a step, having left rows if the step asks for them.
LEMMA SettledMoves ==
  ASSUME Shaped, RowsStay, NEW k \in Ticks, \A j \in Ticks : Settled(j),
         NEW t, NEW step, NEW queue, NEW read, NEW todo,
         Moves(k, step, t, queue, read, todo),
         step = "finish" => LeftRows(t)' \/ t \in idle',
         step \in {"mark", "gap"} => LeftRows(t)'
  PROVE  \A j \in Ticks : Settled(j)'
<1>1. ASSUME NEW j \in Ticks \ {k} PROVE Settled(j)'
  BY SettledStays DEF Moves
<1>2. LeftRows(TaskOf(k))' <=> LeftRows(t)'
  BY DEF LeftRows, TaskOf, Moves
<1>3. Settled(k)'
  BY <1>2 DEF Settled, At, TaskOf, Moves
<1> QED
  BY <1>1, <1>3

LEMMA SettledContinues ==
  ASSUME Shaped, RowsStay, NEW k \in Ticks, \A j \in Ticks : Settled(j),
         NEW t, t = TaskOf(k), NEW step, Continues(k, step),
         step = "finish" => LeftRows(t)' \/ t \in idle',
         step \in {"mark", "gap"} => LeftRows(t)'
  PROVE  \A j \in Ticks : Settled(j)'
<1>1. PICK queue, read, todo : Moves(k, step, t, queue, read, todo)
  BY DEF Continues
<1> QED
  BY <1>1, SettledMoves

LEMMA KeptStep ==
  ASSUME Shaped, Kept, [Next]_vars
  PROVE  Kept'
<1>0. RowsStay /\ \A j \in Ticks : Settled(j)
  BY StepsKeepRows DEF Kept
<1> DEFINE Goal == \A j \in Ticks : Settled(j)'
<1>1. ASSUME NEW k \in Ticks, NEW step, Continues(k, step),
             step \notin {"finish", "mark", "gap"}
      PROVE  Goal
  <2>1. PICK t : t = TaskOf(k)
    OBVIOUS
  <2> QED
    BY <1>0, <1>1, <2>1, SettledContinues
<1>2. ASSUME NEW k \in Ticks, List(k) PROVE Goal
  <2>1. PICK queue : Moves(k, "next", 0, queue, {}, {})
    BY <1>2, TicksMove
  <2> QED
    BY <1>0, <2>1, SettledMoves
<1>3. ASSUME NEW k \in Ticks, Take(k) PROVE Goal
  <2>1. PICK t \in tick[k].queue :
            \E queue, read, todo : Moves(k, FirstStep(t), t, queue, read, todo)
    BY <1>3, TicksMove
  <2>2. FirstStep(t) \in {"plan", "read"}
    BY DEF FirstStep
  <2> QED
    BY <1>0, <2>1, <2>2, SettledMoves
<1>4. ASSUME NEW k \in Ticks, \/ Finish(k) \/ GiveUp(k) \/ Fail(k) PROVE Goal
  <2>1. PICK step \in {"idle", "next"} : \E queue : Moves(k, step, 0, queue, {}, {})
    BY <1>4, TicksMove DEF MovesOn
  <2> QED
    BY <1>0, <2>1, SettledMoves
<1>5. ASSUME NEW k \in Ticks,
             \/ Plan(k) \/ Search(k) \/ Judge(k) \/ Synthesize(k) \/ Generate(k)
      PROVE  Goal
  <2>1. \E step \in {"search", "materials", "judge", "raise", "store"} :
            Continues(k, step)
    BY <1>5, TicksMove
  <2> QED
    BY <1>1, <2>1
<1>6. ASSUME NEW k \in Ticks, NEW step, Continues(k, step), AtWork(k),
             \/ StoreSource(k) \/ StoreCard(k)
             \/ Build(k) /\ output' # output
      PROVE  Goal
  <2>1. PICK t : t = TaskOf(k)
    OBVIOUS
  <2>2. AgentOf(t) = k[1]
    BY <1>6, <2>1 DEF Shaped, Shape, Ours
  <2>3. \/ /\ k[1] = "focus"
           /\ source' = Append(source, [status |-> "Collected", by |-> t])
        \/ k[1] = "dispersion" /\ card' = Append(card, [from |-> tick[k].read, by |-> t])
        \/ /\ k[1] = "diffraction"
           /\ output' = Append(output, [by |-> t, merged |-> IsMerge(k)])
    BY <1>6, <2>1 DEF StoreSource, StoreCard, Build, At, Shaped, Shape
  <2>4. LeftRows(t)'
    <3>1. \A status : [status |-> status, by |-> t].by = t
      OBVIOUS
    <3>2. \A from : [from |-> from, by |-> t].by = t
      OBVIOUS
    <3>3. \A merged : [by |-> t, merged |-> merged].by = t
      OBVIOUS
    <3>4. CASE k[1] = "focus"
                 /\ source' = Append(source, [status |-> "Collected", by |-> t])
      <4>1. \E row : row.by = t /\ source' = Append(source, row)
        BY <3>1, <3>4
      <4> QED
        BY <2>2, <3>4, <4>1, StoredRow
    <3>5. CASE k[1] = "dispersion"
                 /\ card' = Append(card, [from |-> tick[k].read, by |-> t])
      <4>1. \E row : row.by = t /\ card' = Append(card, row)
        BY <3>2, <3>5
      <4> QED
        BY <2>2, <3>5, <4>1, StoredRow
    <3>6. CASE k[1] = "diffraction"
                 /\ output' = Append(output, [by |-> t, merged |-> IsMerge(k)])
      <4>1. \E row : row.by = t /\ output' = Append(output, row)
        BY <3>3, <3>6
      <4> QED
        BY <2>2, <3>6, <4>1, StoredRow
    <3> QED
      BY <2>3, <3>4, <3>5, <3>6
  <2> QED
    BY <1>0, <1>6, <2>1, <2>4, SettledContinues
<1>7. ASSUME NEW k \in Ticks, StoreSource(k) \/ StoreCard(k) PROVE Goal
  <2>1. AtWork(k)
    BY <1>7 DEF StoreSource, StoreCard, At, AtWork
  <2>2. \E step : Continues(k, step)
    BY <1>7, TicksMove
  <2> QED
    BY <1>6, <1>7, <2>1, <2>2
<1>8. ASSUME NEW k \in Ticks, Build(k) PROVE Goal
  <2>1. AtWork(k)
    BY <1>8 DEF Build, At, AtWork
  <2>2. CASE Continues(k, "raise")
    BY <1>1, <2>2
  <2>3. CASE /\ output' = Append(output, [by |-> TaskOf(k), merged |-> IsMerge(k)])
             /\ Continues(k, "gap") \/ Continues(k, "finish")
    <3>1. output' # output
      BY <2>3 DEF Shaped, RowsShaped
    <3> QED
      BY <1>6, <1>8, <2>1, <2>3, <3>1
  <2> QED
    BY <1>8, <2>2, <2>3, ReadingMoves
<1>9. ASSUME NEW k \in Ticks, ReadSources(k) \/ ReadCards(k) PROVE Goal
  <2>1. PICK t : t = TaskOf(k)
    OBVIOUS
  <2>2. CASE idle' = idle \cup {TaskOf(k)} /\ Continues(k, "finish")
    BY <1>0, <2>1, <2>2, SettledContinues
  <2>3. CASE \E step \in {"concepts", "draft"} : \E queue, read, todo :
                 Moves(k, step, t, queue, read, todo)
    BY <1>0, <2>3, SettledMoves
  <2> QED
    BY <1>9, <2>1, <2>2, <2>3, ReadingMoves
<1>10. ASSUME NEW k \in Ticks, Mark(k) \/ FillGap(k) PROVE Goal
  <2>1. PICK t : t = TaskOf(k)
    OBVIOUS
  <2>2. tick[k].step \in {"mark", "gap"}
    BY <1>10 DEF Mark, FillGap, At
  <2>3. LeftRows(t)
    BY <1>0, <2>1, <2>2 DEF Settled
  <2>4. LeftRows(t)'
    BY <1>0, <2>3, LeftRowsStay
  <2>5. \E step, queue, read, todo : Moves(k, step, t, queue, read, todo)
    BY <1>10, <2>1, ReadingMoves DEF Continues
  <2> QED
    BY <1>0, <2>4, <2>5, SettledMoves
<1>11. ASSUME NEW k \in Ticks, Draft(k) \/ Review(k) PROVE Goal
  <2>1. \E step \in {"review", "build"} : Continues(k, step)
    BY <1>11, ReadingMoves
  <2> QED
    BY <1>1, <2>1
<1>12. ASSUME UNCHANGED tick PROVE Goal
  BY <1>0, <1>12, SettledStays
<1>13. Goal
  <2>1. ASSUME NEW t \in Tasks, Retry(t) \/ SetTask(t) PROVE UNCHANGED tick
    BY <2>1 DEF Retry, SetTask
  <2>2. CASE AddSource \/ \E i \in DOMAIN source : SetSource(i)
    BY <1>12, <2>2 DEF AddSource, SetSource
  <2>3. CASE UNCHANGED vars
    BY <1>12, <2>3 DEF vars
  <2> QED
    BY <1>2, <1>3, <1>4, <1>5, <1>7, <1>8, <1>9, <1>10, <1>11, <1>12, <2>1, <2>2,
       <2>3 DEF Next
<1>14. NoEmptyDone'
  <2> SUFFICES ASSUME NEW t \in Tasks, task'[t] = "Done"
               PROVE  LeftRows(t)' \/ t \in idle' \/ said'[t] = "Done"
    BY DEF NoEmptyDone
  <2>1. \/ task[t] = "Done" /\ said'[t] = said[t]
        \/ \E k \in Ticks : Finish(k) /\ t = TaskOf(k)
        \/ said'[t] = "Done"
    BY TaskChanges DEF Released
  <2>2. LeftRows(t) \/ t \in idle \/ said'[t] = "Done"
    BY <1>0, <2>1 DEF Kept, NoEmptyDone, Settled, Finish
  <2> QED
    BY <1>0, <2>2, LeftRowsStay DEF RowsStay
<1> QED
  BY <1>13, <1>14 DEF Kept

\* A task that is done has left rows behind, says that there was nothing to work
\* on, or was marked Done by people: NoEmptyDone, whatever the model answers,
\* whichever steps fail and whatever status people give the task meanwhile.
THEOREM DoneTasksLeftRows == Spec => []NoEmptyDone
<1>1. Init => Kept
  BY IdleFields DEF Init, Kept, NoEmptyDone, Settled, At
<1>2. Shaped /\ Kept /\ [Next]_vars => Kept'
  BY KeptStep
<1>3. Kept => NoEmptyDone
  BY DEF Kept
<1> QED
  BY <1>1, <1>2, <1>3, RowsAndTicks, PTL DEF Spec

-----------------------------------------------------------------------------
(* What has been analysed.                                                   *)

Analysed(i) == \E c \in DOMAIN card : i \in card[c].from

\* What a tick is about to mark is on a card.
Marks(k) == At(k, "mark") => \A i \in tick[k].todo : Analysed(i)
OnCards == ProcessedWasAnalysed /\ \A k \in Ticks : Marks(k)

LEMMA AnalysedStays ==
  ASSUME RowsStay, NEW i, Analysed(i)
  PROVE  Analysed(i)'
  BY DEF RowsStay, Analysed

\* A source becomes Processed only when a tick or people mark it.
LEMMA ProcessedByMark ==
  ASSUME Shaped, [Next]_vars, NEW i \in DOMAIN source', source'[i].status = "Processed"
  PROVE  \/ /\ i \in DOMAIN source /\ source[i].status = "Processed"
            /\ i \in marked => i \in marked'
         \/ i \in marked'
         \/ \E k \in Ticks : Mark(k) /\ i \in tick[k].todo
<1> DEFINE Goal == \/ /\ i \in DOMAIN source /\ source[i].status = "Processed"
                      /\ i \in marked => i \in marked'
                   \/ i \in marked'
                   \/ \E k \in Ticks : Mark(k) /\ i \in tick[k].todo
<1>1. ASSUME NEW k \in Ticks,
             \/ List(k) \/ Take(k) \/ Finish(k) \/ GiveUp(k) \/ Fail(k)
             \/ Plan(k) \/ Search(k) \/ Judge(k) \/ Synthesize(k)
             \/ ReadSources(k) \/ Generate(k) \/ StoreCard(k) \/ ReadCards(k)
             \/ Draft(k) \/ Review(k) \/ Build(k) \/ FillGap(k)
      PROVE  UNCHANGED <<source, marked>>
  BY <1>1 DEF List, Take, Finish, GiveUp, Fail, Ends, Plan, Search, Judge,
       Synthesize, ReadSources, Generate, StoreCard, ReadCards, Draft, Review,
       Build, FillGap, rows, Triggered, KeepsBounds, past
<1>2. CASE UNCHANGED <<source, marked>>
  BY <1>2
<1>3. ASSUME UNCHANGED marked, NEW by, source' = Append(source, [status |-> "Collected", by |-> by])
      PROVE  Goal
  <2>1. [status |-> "Collected", by |-> by].status # "Processed"
    OBVIOUS
  <2> DEFINE row == [status |-> "Collected", by |-> by]
  <2>2. source' = Append(source, row) /\ row.status # "Processed"
    BY <1>3, <2>1
  <2> HIDE DEF row
  <2>3. source \in Seq(SourceRows)
    BY DEF Shaped, RowsShaped
  <2>4. i = Len(source) + 1 => source'[i] = row
    BY <2>2, <2>3
  <2>5. i # Len(source) + 1 => i \in DOMAIN source /\ source'[i] = source[i]
    BY <2>2, <2>3
  <2> QED
    BY <1>3, <2>2, <2>4, <2>5
<1>4. ASSUME NEW k \in Ticks, StoreSource(k) PROVE Goal
  BY <1>3, <1>4 DEF StoreSource, KeepsBounds, past
<1>5. CASE AddSource
  BY <1>3, <1>5 DEF AddSource, past
<1>6. ASSUME NEW k \in Ticks, Mark(k) PROVE Goal
  <2>1. PICK j \in tick[k].todo : source' = [source EXCEPT ![j].status = "Processed"]
    BY <1>6 DEF Mark
  <2>2. j \in DOMAIN source
    BY DEF Shaped, Shape
  <2>3. i \in DOMAIN source /\ (i # j => source'[i] = source[i]) /\ UNCHANGED marked
    BY <1>6, <2>1, <2>2, StatusSet DEF Shaped, Mark, KeepsBounds, past, SourceStatuses
  <2> QED
    BY <1>6, <2>1, <2>3
<1>7. ASSUME NEW j \in DOMAIN source, SetSource(j) PROVE Goal
  <2>1. PICK status \in SourceStatuses :
            /\ source' = [source EXCEPT ![j].status = status]
            /\ marked' = IF status = "Processed" THEN marked \cup {j}
                         ELSE marked \ {j}
    BY <1>7 DEF SetSource
  <2>2. /\ i \in DOMAIN source
        /\ i # j => source'[i] = source[i]
        /\ source'[j].status = status
    BY <2>1, StatusSet DEF Shaped
  <2> QED
    BY <2>1, <2>2
<1>8. ASSUME NEW t \in Tasks, Retry(t) \/ SetTask(t) PROVE UNCHANGED <<source, marked>>
  BY <1>8 DEF Retry, SetTask, KeepsBounds, past
<1>9. UNCHANGED vars => UNCHANGED <<source, marked>>
  BY DEF vars, rows, past
<1> QED
  BY <1>1, <1>2, <1>4, <1>5, <1>6, <1>7, <1>8, <1>9 DEF Next

LEMMA MarksStay ==
  ASSUME RowsStay, NEW k, Marks(k), tick'[k] = tick[k]
  PROVE  Marks(k)'
  BY AnalysedStays DEF Marks, At

LEMMA OnCardsStep ==
  ASSUME Shaped, OnCards, [Next]_vars
  PROVE  OnCards'
<1>0. RowsStay /\ \A j \in Ticks : Marks(j)
  BY StepsKeepRows DEF OnCards
<1>1. ProcessedWasAnalysed'
  <2> SUFFICES ASSUME NEW i \in DOMAIN source', source'[i].status = "Processed"
               PROVE  i \in marked' \/ Analysed(i)'
    BY DEF ProcessedWasAnalysed, Analysed
  <2>1. i \in marked' \/ Analysed(i)
    BY <1>0, ProcessedByMark DEF OnCards, ProcessedWasAnalysed, Analysed, Marks, Mark
  <2> QED
    BY <1>0, <2>1, AnalysedStays
<1> DEFINE Goal == \A j \in Ticks : Marks(j)'
<1>2. ASSUME NEW k \in Ticks, NEW step, NEW t, NEW queue, NEW read, NEW todo,
             Moves(k, step, t, queue, read, todo),
             step = "mark" => \A i \in todo : Analysed(i)'
      PROVE  Goal
  <2>1. Marks(k)'
    BY <1>2 DEF Marks, Moves, At
  <2> QED
    BY <1>0, <1>2, <2>1, MarksStay DEF Moves
<1>3. ASSUME NEW k \in Ticks, NEW step, Continues(k, step), step # "mark" PROVE Goal
  <2>1. \E t, queue, read, todo : Moves(k, step, t, queue, read, todo)
    BY <1>3 DEF Continues
  <2> QED
    BY <1>2, <1>3, <2>1
<1>4. ASSUME NEW k \in Ticks, List(k) \/ Take(k) PROVE Goal
  <2>1. \E step \in {"next", "plan", "read"} : \E t, queue, read, todo :
            Moves(k, step, t, queue, read, todo)
    BY <1>4, TicksMove DEF FirstStep
  <2> QED
    BY <1>2, <2>1
<1>5. ASSUME NEW k \in Ticks, Finish(k) \/ GiveUp(k) \/ Fail(k) PROVE Goal
  <2>1. \E step \in {"idle", "next"} : \E t, queue, read, todo :
            Moves(k, step, t, queue, read, todo)
    BY <1>5, TicksMove DEF MovesOn
  <2> QED
    BY <1>2, <2>1
<1>6. ASSUME NEW k \in Ticks,
             \/ Plan(k) \/ Search(k) \/ Judge(k) \/ Synthesize(k) \/ Generate(k)
             \/ StoreSource(k)
      PROVE  Goal
  <2>1. \E step \in {"search", "materials", "judge", "raise", "store", "finish"} :
            Continues(k, step)
    BY <1>6, TicksMove
  <2> QED
    BY <1>3, <2>1
<1>7. ASSUME NEW k \in Ticks, StoreCard(k) PROVE Goal
  <2>1. CASE Continues(k, "store")
    BY <1>3, <2>1
  <2>2. CASE Continues(k, "mark")
    <3>1. PICK read : read = tick[k].read
      OBVIOUS
    <3>2. PICK t : t = TaskOf(k)
      OBVIOUS
    <3>3. card \in Seq(CardShapes)
      BY DEF Shaped, RowsShaped
    <3>4. card' = Append(card, [from |-> read, by |-> t])
      BY <1>7, <3>1, <3>2 DEF StoreCard
    <3>5. Len(card) + 1 \in DOMAIN card'
              /\ card'[Len(card) + 1] = [from |-> read, by |-> t]
      BY <3>3, <3>4
    <3>6. \A i \in read : Analysed(i)'
      BY <3>5 DEF Analysed
    <3>7. PICK todo : todo = tick[k].todo
      OBVIOUS
    <3>8. todo \subseteq read
      BY <3>1, <3>7 DEF Shaped, Shape
    <3> QED
      BY <1>2, <2>2, <3>6, <3>7, <3>8 DEF Continues
  <2> QED
    BY <1>7, <2>1, <2>2, TicksMove
<1>8. ASSUME NEW k \in Ticks, Mark(k) PROVE Goal
  <2>1. PICK i \in tick[k].todo :
            \E step, t, queue, read : Moves(k, step, t, queue, read, tick[k].todo \ {i})
    BY <1>8, ReadingMoves
  <2>2. PICK todo : todo = tick[k].todo \ {i}
    OBVIOUS
  <2>3. \A j \in todo : Analysed(j)
    BY <1>0, <1>8, <2>2 DEF Mark, Marks
  <2> QED
    BY <1>0, <1>2, <2>1, <2>2, <2>3, AnalysedStays
<1>9. ASSUME NEW k \in Ticks, ReadSources(k) \/ ReadCards(k) PROVE Goal
  <2>1. \E step \in {"concepts", "draft", "finish"} : \E t, queue, read, todo :
            Moves(k, step, t, queue, read, todo)
    BY <1>9, ReadingMoves DEF Continues
  <2> QED
    BY <1>2, <2>1
<1>10. ASSUME NEW k \in Ticks, Draft(k) \/ Review(k) \/ Build(k) \/ FillGap(k)
       PROVE  Goal
  <2>1. \E step \in {"review", "build", "raise", "gap", "finish"} : Continues(k, step)
    BY <1>10, ReadingMoves
  <2> QED
    BY <1>3, <2>1
<1>11. ASSUME UNCHANGED tick PROVE Goal
  BY <1>0, <1>11, MarksStay
<1>12. Goal
  <2>1. ASSUME NEW t \in Tasks, Retry(t) \/ SetTask(t) PROVE UNCHANGED tick
    BY <2>1 DEF Retry, SetTask
  <2>2. CASE AddSource \/ (\E i \in DOMAIN source : SetSource(i)) \/ UNCHANGED vars
    BY <1>11, <2>2 DEF AddSource, SetSource, vars
  <2> QED
    BY <1>4, <1>5, <1>6, <1>7, <1>8, <1>9, <1>10, <1>11, <2>1, <2>2 DEF Next
<1> QED
  BY <1>1, <1>12 DEF OnCards

\* A source is Processed only when a card has been made of it or people marked it:
\* ProcessedWasAnalysed, with any number of ticks beside each other and whatever
\* status people give the sources meanwhile.
THEOREM ProcessedSourcesWereAnalysed == Spec => []ProcessedWasAnalysed
<1>1. Init => OnCards
  BY IdleFields DEF Init, OnCards, ProcessedWasAnalysed, Marks, At
<1>2. Shaped /\ OnCards /\ [Next]_vars => OnCards'
  BY OnCardsStep
<1>3. OnCards => ProcessedWasAnalysed
  BY DEF OnCards
<1> QED
  BY <1>1, <1>2, <1>3, RowsAndTicks, PTL DEF Spec

-----------------------------------------------------------------------------
(* Ticks of the scheduler alone.                                             *)

\* Nobody but people has brought the task to an end.
Open(t) == task[t] = "Done" => said[t] = "Done"

\* A tick of an agent of which none has been triggered: it is the scheduler's, and
\* the tasks it has on its list or at work are open.
Steady(k) ==
  /\ ~ At(k, "idle") => k[2] = 1
  /\ \A t \in tick[k].queue : Open(t)
  /\ AtWork(k) => Open(TaskOf(k)) /\ TaskOf(k) \notin tick[k].queue
Apart == \A k \in Ticks : k[1] \notin beside => Steady(k)

\* One tick of an agent at a time.
LEMMA OneTick ==
  ASSUME Apart, NEW j \in Ticks, NEW k \in Ticks,
         ~ At(j, "idle"), ~ At(k, "idle"), j[1] = k[1], k[1] \notin beside
  PROVE  j = k
<1>1. j[2] = k[2]
  BY DEF Apart, Steady
<1>2. /\ j \in {"focus", "dispersion", "diffraction"} \X (Nat \ {0})
      /\ k \in {"focus", "dispersion", "diffraction"} \X (Nat \ {0})
  BY FlowConstants
<1> QED
  BY <1>1, <1>2

\* What is to be read again and who was triggered is not forgotten, and only a
\* tick of the scheduler starts without a trace.
LEMMA PastGrows ==
  ASSUME [Next]_vars
  PROVE  /\ again \subseteq again'
         /\ beside \subseteq beside'
         /\ \A k \in Ticks : List(k) => k[2] = 1 \/ k[1] \in beside'
<1> DEFINE Goal == again \subseteq again' /\ beside \subseteq beside'
<1>1. ASSUME NEW k \in Ticks,
             \/ Take(k)
             \/ Plan(k) \/ Search(k) \/ Judge(k) \/ Synthesize(k)
             \/ StoreSource(k) \/ ReadSources(k) \/ Generate(k) \/ StoreCard(k)
             \/ Mark(k) \/ ReadCards(k) \/ Draft(k) \/ Review(k) \/ Build(k)
             \/ FillGap(k)
      PROVE  Goal
  BY <1>1 DEF Take, Plan, Search, Judge, Synthesize,
       StoreSource, ReadSources, Generate, StoreCard, Mark, ReadCards, Draft,
       Review, Build, FillGap, KeepsBounds, past
<1>2. ASSUME NEW k \in Ticks, List(k) PROVE Goal /\ (k[2] = 1 \/ k[1] \in beside')
  BY <1>2 DEF List, Triggered, KeepsBounds, past
<1>3. ASSUME NEW k \in Ticks, Finish(k) \/ GiveUp(k) \/ Fail(k) PROVE Goal
  BY <1>3 DEF Finish, GiveUp, Fail, Ends
<1>4. ASSUME NEW t \in Tasks, Retry(t) \/ SetTask(t) PROVE Goal
  BY <1>4 DEF Retry, SetTask, KeepsBounds, past
<1>5. ASSUME NEW i \in DOMAIN source, SetSource(i) PROVE Goal
  BY <1>5 DEF SetSource
<1>6. AddSource \/ UNCHANGED vars => Goal
  BY DEF AddSource, vars, past
<1>7. Goal
  BY <1>1, <1>2, <1>3, <1>4, <1>5, <1>6 DEF Next
<1> QED
  BY <1>2, <1>7

\* What a step does to the list and to the task of tick j.
Keeps(j) ==
  /\ AtWork(j) /\ AtWork(j)'
  /\ tick'[j].task = tick[j].task /\ tick'[j].queue = tick[j].queue
Lists(j) ==
  /\ List(j) /\ ~ AtWork(j)'
  /\ \A t \in tick'[j].queue : task'[t] = "Todo"
Takes(j) ==
  /\ ~ At(j, "idle") /\ AtWork(j)'
  /\ \E t \in tick[j].queue : /\ tick'[j].task = t
                             /\ tick'[j].queue = tick[j].queue \ {t}
                             /\ task' = [task EXCEPT ![t] = "Doing"]
Releases(j) ==
  /\ AtWork(j) /\ ~ AtWork(j)' /\ tick'[j].queue = tick[j].queue

LEMMA TickChanges ==
  ASSUME Shaped, [Next]_vars, NEW j \in Ticks
  PROVE  tick'[j] = tick[j] \/ Keeps(j) \/ Lists(j) \/ Takes(j) \/ Releases(j)
<1> DEFINE Goal == tick'[j] = tick[j] \/ Keeps(j) \/ Lists(j) \/ Takes(j) \/ Releases(j)
<1>1. ASSUME NEW k \in Ticks, AtWork(k), NEW step, NEW read, NEW todo,
             step \notin {"idle", "next"},
             Moves(k, step, TaskOf(k), tick[k].queue, read, todo)
      PROVE  Goal
  BY <1>1 DEF Moves, Keeps, AtWork, At, TaskOf
<1>2. ASSUME NEW k \in Ticks, AtWork(k), NEW step, step \notin {"idle", "next"},
             Continues(k, step)
      PROVE  Goal
  BY <1>1, <1>2 DEF Continues
<1>3. ASSUME NEW k \in Ticks, List(k) PROVE Goal
  <2> DEFINE todo == {t \in Tasks : task[t] = "Todo" /\ AgentOf(t) = k[1]}
  <2>1. Moves(k, "next", 0, todo, {}, {}) /\ UNCHANGED task
    BY <1>3, TicksMove DEF List, rows
  <2>2. \A t \in todo : task'[t] = "Todo"
    BY <2>1
  <2> HIDE DEF todo
  <2> QED
    BY <1>3, <2>1, <2>2 DEF Lists, Moves, AtWork, At
<1>4. ASSUME NEW k \in Ticks, Take(k) PROVE Goal
  <2>1. PICK t \in tick[k].queue :
            /\ task' = [task EXCEPT ![t] = "Doing"]
            /\ Moves(k, FirstStep(t), t, tick[k].queue \ {t}, tick[k].read,
                     tick[k].todo)
    BY <1>4, TicksMove
  <2>2. ~ At(k, "idle") /\ FirstStep(t) \notin {"idle", "next"}
    BY <1>4 DEF Take, At, FirstStep
  <2> QED
    BY <2>1, <2>2 DEF Takes, Moves, AtWork, At
<1>5. ASSUME NEW k \in Ticks, Finish(k) \/ GiveUp(k) \/ Fail(k) PROVE Goal
  <2>1. AtWork(k) /\ MovesOn(k)
    BY <1>5, TicksMove
  <2> QED
    BY <2>1 DEF Releases, MovesOn, Moves, AtWork, At
<1>6. ASSUME NEW k \in Ticks,
             \/ Plan(k) \/ Search(k) \/ Judge(k) \/ Synthesize(k) \/ Generate(k)
             \/ StoreSource(k) \/ StoreCard(k)
      PROVE  Goal
  <2>1. AtWork(k)
    BY <1>6 DEF Plan, Search, Judge, Synthesize, Generate, StoreSource, StoreCard,
         AtWork, At
  <2>2. \E step \in {"search", "materials", "judge", "raise", "store", "finish",
                    "mark"} : Continues(k, step)
    BY <1>6, TicksMove
  <2> QED
    BY <1>2, <2>1, <2>2
<1>7. ASSUME NEW k \in Ticks,
             ReadSources(k) \/ ReadCards(k) \/ Mark(k) \/ Draft(k) \/ Review(k)
             \/ Build(k) \/ FillGap(k)
      PROVE  Goal
  <2>1. AtWork(k)
    BY <1>7 DEF ReadSources, ReadCards, Mark, Draft, Review, Build, FillGap, AtWork, At
  <2>2. \E step \in {"concepts", "draft", "finish", "mark", "review", "build", "raise",
                    "gap"} : \E read, todo :
            Moves(k, step, TaskOf(k), tick[k].queue, read, todo)
    BY <1>7, ReadingMoves DEF Continues
  <2> QED
    BY <1>1, <2>1, <2>2
<1>8. ASSUME NEW t \in Tasks, Retry(t) \/ SetTask(t) PROVE UNCHANGED tick
  BY <1>8 DEF Retry, SetTask
<1>9. AddSource \/ (\E i \in DOMAIN source : SetSource(i)) \/ UNCHANGED vars
          => UNCHANGED tick
  BY DEF AddSource, SetSource, vars
<1> QED
  BY <1>3, <1>4, <1>5, <1>6, <1>7, <1>8, <1>9 DEF Next

\* A task that is open stays open, unless a tick brings it to an end.
LEMMA OpenStays ==
  ASSUME Shaped, [Next]_vars, NEW t \in Tasks, Open(t)
  PROVE  Open(t)' \/ \E k \in Ticks : Finish(k) /\ AtWork(k) /\ t = TaskOf(k)
  BY TaskChanges DEF Open, Released

\* The tasks that a steady tick keeps stay open: no other tick has them at work.
LEMMA HeldOpen ==
  ASSUME Shaped, Apart, [Next]_vars, NEW j \in Ticks, j[1] \notin beside,
         NEW t \in tick[j].queue \cup {TaskOf(j)},
         t \in tick[j].queue \/ (AtWork(j) /\ AtWork(j)')
  PROVE  Open(t)'
<1>1. t \in Ours(j) /\ ~ At(j, "idle") /\ Open(t)
  BY DEF Shaped, Shape, Apart, Steady, AtWork, At
<1>2. ASSUME NEW k \in Ticks, Finish(k), AtWork(k), t = TaskOf(k) PROVE FALSE
  <2>1. t \in Ours(k) /\ ~ At(k, "idle")
    BY <1>2 DEF Shaped, Shape, AtWork, At
  <2>2. j = k
    BY <1>1, <2>1, OneTick DEF Ours
  <2>3. t \notin tick[j].queue
    BY <1>2, <2>2 DEF Apart, Steady
  <2>4. ~ AtWork(k)'
    <3>1. MovesOn(k)
      BY <1>2, TicksMove
    <3> QED
      BY <3>1 DEF MovesOn, Moves, AtWork, At
  <2> QED
    BY <2>2, <2>3, <2>4
<1> QED
  BY <1>1, <1>2, OpenStays DEF Ours

LEMMA ApartStep ==
  ASSUME Shaped, Apart, [Next]_vars
  PROVE  Apart'
<1> SUFFICES ASSUME NEW j \in Ticks, j[1] \notin beside' PROVE Steady(j)'
  BY DEF Apart
<1>1. j[1] \notin beside /\ Steady(j)
  BY PastGrows DEF Apart
<1>2. \A t \in tick[j].queue : Open(t)'
  BY <1>1, HeldOpen
<1>3. PICK u : u = TaskOf(j)
  OBVIOUS
<1>4. AtWork(j) /\ AtWork(j)' => Open(u)'
  BY <1>1, <1>3, HeldOpen
<1>5. CASE tick'[j] = tick[j]
  BY <1>1, <1>2, <1>3, <1>4, <1>5 DEF Steady, AtWork, At, TaskOf, Open
<1>6. CASE Keeps(j)
  <2>1. ~ At(j, "idle")
    BY <1>6 DEF Keeps, AtWork, At
  <2> QED
    BY <1>1, <1>2, <1>3, <1>4, <1>6, <2>1 DEF Keeps, Steady, AtWork, TaskOf, Open
<1>7. CASE Lists(j)
  <2>1. j[2] = 1
    BY <1>7, PastGrows DEF Lists
  <2>2. \A t \in tick'[j].queue : Open(t)'
    BY <1>7 DEF Lists, Open
  <2> QED
    BY <1>7, <2>1, <2>2 DEF Lists, Steady
<1>8. CASE Takes(j)
  <2>1. PICK t \in tick[j].queue : /\ tick'[j].task = t
                                  /\ tick'[j].queue = tick[j].queue \ {t}
    BY <1>8 DEF Takes
  <2>2. j[2] = 1
    BY <1>1, <1>8 DEF Takes, Steady
  <2>3. Open(t)' /\ \A v \in tick[j].queue \ {t} : Open(v)'
    BY <1>2
  <2>4. TaskOf(j)' = t
    BY <2>1 DEF TaskOf
  <2> QED
    BY <2>1, <2>2, <2>3, <2>4 DEF Steady, Open
<1>9. CASE Releases(j)
  <2>1. j[2] = 1
    BY <1>1, <1>9 DEF Releases, Steady, AtWork, At
  <2> QED
    BY <1>2, <1>9, <2>1 DEF Releases, Steady
<1> QED
  BY <1>5, <1>6, <1>7, <1>8, <1>9, TickChanges

LEMMA TicksApart == Spec => []Apart
<1>1. Init => Apart
  BY IdleFields DEF Init, Apart, Steady, AtWork, At
<1>2. Shaped /\ Apart /\ [Next]_vars => Apart'
  BY ApartStep
<1> QED
  BY <1>1, <1>2, RowsAndTicks, PTL DEF Spec

LEMMA DoneStep ==
  ASSUME Shaped, Apart, [Next]_vars, NEW t \in Tasks,
         task[t] = "Done", task'[t] # "Done"
  PROVE  SetTask(t) \/ said[t] = "Done" \/ AgentOf(t) \in beside
<1>1. ASSUME NEW k \in Ticks, t \in tick[k].queue \/ (AtWork(k) /\ t = TaskOf(k))
      PROVE  said[t] = "Done" \/ AgentOf(t) \in beside
  <2>1. t \in Ours(k)
    BY <1>1 DEF Shaped, Shape
  <2> QED
    BY <1>1, <2>1 DEF Apart, Steady, Open, Ours
<1> QED
  BY <1>1, TaskChanges DEF Released

\* A task that is done is taken up again only by people's hand, because people had
\* marked it Done, or because a tick of its agent was triggered beside the
\* scheduler's: DoneUnlessReopened, for any number of tasks, exceptions, retries
\* and changes of people.
THEOREM DoneStaysDone == Spec => DoneUnlessReopened
<1>1. Shaped /\ Apart /\ [Next]_vars =>
        [\A t \in Tasks :
            task[t] = "Done" /\ task'[t] # "Done" =>
                SetTask(t) \/ said[t] = "Done" \/ AgentOf(t) \in beside]_vars
  BY DoneStep
<1> QED
  BY <1>1, RowsAndTicks, TicksApart, PTL DEF Spec, DoneUnlessReopened

-----------------------------------------------------------------------------
(* Every source once.                                                        *)

\* A tick that has read sources, one that has cards to store or sources to mark,
\* and a source that it has still to mark.
Analysing(k) == k[1] = "dispersion" /\ tick[k].step \in {"concepts", "store", "mark"}
Storing(k) == k[1] = "dispersion" /\ tick[k].step \in {"store", "mark"}
Pending(k, i) == Storing(k) /\ i \in tick[k].todo

\* Cards are made of sources there are, all that the tick has still to mark.
Whole ==
  /\ \A c \in DOMAIN card : card[c].from \subseteq DOMAIN source
  /\ \A k \in Ticks : /\ k[1] = "dispersion"
                     /\ tick[k].step \in {"concepts", "store"}
                     => tick[k].read = tick[k].todo

\* Of a source that is not to be read again: its cards are of one task; while it is
\* Collected they are of a tick that is about to mark it; and a tick that has it to
\* mark finds no card of another task.
Sole(i) ==
  \A c, d \in DOMAIN card :
      i \in card[c].from /\ i \in card[d].from => card[c].by = card[d].by
Accounted(i) ==
  i \in Collected =>
      \A c \in DOMAIN card : i \in card[c].from =>
          \E k \in Ticks : Pending(k, i) /\ card[c].by = TaskOf(k)
Reads(k, i) ==
  Analysing(k) /\ i \in tick[k].todo =>
      \A c \in DOMAIN card : i \in card[c].from => card[c].by = TaskOf(k)
OnceOf(i) == Sole(i) /\ Accounted(i) /\ \A k \in Ticks : Reads(k, i)
Once == "dispersion" \notin beside => \A i \in Nat \ again : OnceOf(i)

\* The card a tick stores.
LEMMA CardStored ==
  ASSUME Shaped, NEW k \in Ticks, StoreCard(k), NEW read, read = tick[k].read,
         NEW t, t = TaskOf(k)
  PROVE  \E n : /\ DOMAIN card' = DOMAIN card \cup {n}
                /\ card'[n].from = read /\ card'[n].by = t
                /\ \A c \in DOMAIN card : c # n /\ card'[c] = card[c]
<1> DEFINE row == [from |-> read, by |-> t]
           n == Len(card) + 1
<1>1. card \in Seq(CardShapes) /\ card' = Append(card, row)
  BY DEF StoreCard, Shaped, RowsShaped
<1>2. row.from = read /\ row.by = t
  OBVIOUS
<1> HIDE DEF row
<1>3. /\ DOMAIN card' = DOMAIN card \cup {n}
      /\ card'[n] = row
      /\ \A c \in DOMAIN card : c # n /\ card'[c] = card[c]
  BY <1>1
<1> QED
  BY <1>2, <1>3

\* Only a tick that stores a card changes the cards.
LEMMA CardsStay ==
  ASSUME [Next]_vars, \A k \in Ticks : ~ StoreCard(k)
  PROVE  UNCHANGED card
<1>1. ASSUME NEW k \in Ticks,
             \/ List(k) \/ Take(k) \/ Finish(k) \/ GiveUp(k) \/ Fail(k)
             \/ Plan(k) \/ Search(k) \/ Judge(k) \/ Synthesize(k)
             \/ StoreSource(k) \/ ReadSources(k) \/ Generate(k) \/ Mark(k)
             \/ ReadCards(k) \/ Draft(k) \/ Review(k) \/ Build(k) \/ FillGap(k)
      PROVE  UNCHANGED card
  BY <1>1 DEF List, Take, Finish, GiveUp, Fail, Ends, Plan, Search, Judge,
       Synthesize, StoreSource, ReadSources, Generate, Mark, ReadCards, Draft,
       Review, Build, FillGap, rows
<1>2. ASSUME NEW t \in Tasks, Retry(t) \/ SetTask(t) PROVE UNCHANGED card
  BY <1>2 DEF Retry, SetTask
<1>3. AddSource \/ (\E i \in DOMAIN source : SetSource(i)) \/ UNCHANGED vars
          => UNCHANGED card
  BY DEF AddSource, SetSource, vars, rows
<1> QED
  BY <1>1, <1>2, <1>3 DEF Next

\* A source is Collected as it was, is new, or is to be read again.
LEMMA CollectedStays ==
  ASSUME Shaped, [Next]_vars, NEW i \in Collected', i \notin again'
  PROVE  i \in Collected \/ i \notin DOMAIN source
<1>1. UNCHANGED source => i \in Collected
  BY DEF Collected
<1>2. ASSUME NEW row, source' = Append(source, row)
      PROVE  i \in Collected \/ i \notin DOMAIN source
  <2>1. source \in Seq(SourceRows)
    BY DEF Shaped, RowsShaped
  <2>2. i \in DOMAIN source => source'[i] = source[i]
    BY <1>2, <2>1
  <2> QED
    BY <2>2 DEF Collected
<1>3. ASSUME NEW k \in Ticks, Mark(k) PROVE i \in Collected
  <2>1. PICK j \in tick[k].todo : source' = [source EXCEPT ![j].status = "Processed"]
    BY <1>3 DEF Mark
  <2>2. j \in DOMAIN source
    BY DEF Shaped, Shape
  <2>3. /\ DOMAIN source' = DOMAIN source
        /\ source'[j].status = "Processed"
        /\ i # j => source'[i] = source[i]
    BY <2>1, <2>2, StatusSet DEF Shaped, Collected, SourceStatuses
  <2> QED
    BY <2>3 DEF Collected
<1>4. ASSUME NEW j \in DOMAIN source, SetSource(j) PROVE i \in Collected
  <2>1. PICK status \in SourceStatuses :
            /\ source' = [source EXCEPT ![j].status = status]
            /\ again' = IF status = "Collected" THEN again \cup {j} ELSE again
    BY <1>4 DEF SetSource
  <2>2. /\ DOMAIN source' = DOMAIN source
        /\ source'[j].status = status
        /\ i # j => source'[i] = source[i]
    BY <2>1, StatusSet DEF Shaped, Collected
  <2> QED
    BY <2>1, <2>2 DEF Collected
<1>5. ASSUME NEW k \in Ticks,
             \/ List(k) \/ Take(k) \/ Finish(k) \/ GiveUp(k) \/ Fail(k)
             \/ Plan(k) \/ Search(k) \/ Judge(k) \/ Synthesize(k)
             \/ ReadSources(k) \/ Generate(k) \/ StoreCard(k) \/ ReadCards(k)
             \/ Draft(k) \/ Review(k) \/ Build(k) \/ FillGap(k)
      PROVE  UNCHANGED source
  BY <1>5 DEF List, Take, Finish, GiveUp, Fail, Ends, Plan, Search, Judge,
       Synthesize, ReadSources, Generate, StoreCard, ReadCards, Draft, Review,
       Build, FillGap, rows
<1>6. ASSUME NEW k \in Ticks, StoreSource(k)
      PROVE  i \in Collected \/ i \notin DOMAIN source
  BY <1>2, <1>6 DEF StoreSource
<1>7. AddSource => i \in Collected \/ i \notin DOMAIN source
  BY <1>2 DEF AddSource
<1>8. ASSUME NEW t \in Tasks, Retry(t) \/ SetTask(t) PROVE UNCHANGED source
  BY <1>8 DEF Retry, SetTask
<1>9. UNCHANGED vars => UNCHANGED source
  BY DEF vars, rows
<1> QED
  BY <1>1, <1>3, <1>4, <1>5, <1>6, <1>7, <1>8, <1>9 DEF Next

\* What a step does to a tick that analyses: it reads, stores a card, marks a
\* source, fails, goes on or leaves things as they are.
Reading(j) ==
  /\ tick[j].step = "read" /\ UNCHANGED source
  /\ tick'[j].read = Collected /\ tick'[j].todo = Collected
Marking(j) ==
  /\ tick[j].step = "mark"
  /\ \E i \in tick[j].todo :
        /\ i \notin Collected'
        /\ tick'[j].todo = tick[j].todo \ {i}
        /\ tick'[j].task = tick[j].task
        /\ tick'[j].step \in {"mark", "finish"}
        /\ tick'[j].step = "finish" => tick[j].todo = {i}
Failing(j) == again' = again \cup Unmarked(j) /\ ~ Analysing(j)'
Continuing(j) ==
  /\ Analysing(j) /\ tick'[j].step \in {"store", "mark", "raise"}
  /\ tick'[j].step = "raise" => ~ Storing(j)
  /\ tick'[j].step = "store" => tick[j].step \in {"concepts", "store"}
  /\ tick'[j].task = tick[j].task
  /\ tick'[j].read = tick[j].read /\ tick'[j].todo = tick[j].todo

LEMMA AnalysisMoves ==
  ASSUME Shaped, [Next]_vars, NEW j \in Ticks, j[1] = "dispersion"
  PROVE  \/ tick'[j] = tick[j]
         \/ Reading(j) \/ Marking(j) \/ Failing(j) \/ Continuing(j)
         \/ ~ Storing(j) /\ ~ Analysing(j)'
<1> DEFINE Goal == \/ tick'[j] = tick[j]
                   \/ Reading(j) \/ Marking(j) \/ Failing(j) \/ Continuing(j)
                   \/ ~ Storing(j) /\ ~ Analysing(j)'
<1>1. ASSUME NEW k \in Ticks, k # j, NEW step, NEW t, NEW queue, NEW read, NEW todo,
             Moves(k, step, t, queue, read, todo)
      PROVE  Goal
  BY <1>1 DEF Moves
<1>2. ASSUME NEW k \in Ticks, List(k) \/ Take(k) PROVE Goal
  <2>1. tick[k].step \in {"idle", "next"}
    BY <1>2 DEF List, Take, At
  <2>2. PICK step \in {"next", "plan", "read"} : \E t, queue, read, todo :
            Moves(k, step, t, queue, read, todo)
    BY <1>2, TicksMove DEF FirstStep
  <2>3. k = j => ~ Storing(j) /\ ~ Analysing(j)'
    BY <2>1, <2>2 DEF Storing, Analysing, Moves
  <2> QED
    BY <1>1, <2>2, <2>3
<1>3. ASSUME NEW k \in Ticks, Finish(k) \/ GiveUp(k) \/ Fail(k) PROVE Goal
  <2>1. PICK step \in {"idle", "next"} : \E t, queue, read, todo :
            Moves(k, step, t, queue, read, todo)
    BY <1>3, TicksMove DEF MovesOn
  <2>2. k = j => ~ Analysing(j)'
    BY <2>1 DEF Analysing, Moves
  <2>3. Finish(k) \/ GiveUp(k) => ~ Storing(k)
    BY DEF Finish, GiveUp, At, Storing
  <2>4. Fail(k) => again' = again \cup Unmarked(k)
    BY DEF Fail
  <2> QED
    BY <1>1, <1>3, <2>1, <2>2, <2>3, <2>4 DEF Failing
<1>4. ASSUME NEW k \in Ticks,
             \/ Plan(k) \/ Search(k) \/ Judge(k) \/ Synthesize(k) \/ StoreSource(k)
      PROVE  tick'[j] = tick[j]
  <2>1. k[1] = "focus"
    BY <1>4 DEF Plan, Search, Judge, Synthesize, StoreSource, At, Shaped, Shape
  <2>2. \A i \in Ticks \ {k} : tick'[i] = tick[i]
    BY <1>4, TicksMove DEF Continues, Moves
  <2> QED
    BY <2>1, <2>2
<1>5. ASSUME NEW k \in Ticks,
             \/ ReadCards(k) \/ Draft(k) \/ Review(k) \/ Build(k) \/ FillGap(k)
      PROVE  tick'[j] = tick[j]
  <2>1. k[1] = "diffraction"
    BY <1>5 DEF ReadCards, Draft, Review, Build, FillGap, At, Shaped, Shape
  <2>2. \A i \in Ticks \ {k} : tick'[i] = tick[i]
    BY <1>5, ReadingMoves DEF Continues, Moves
  <2> QED
    BY <2>1, <2>2
<1>6. ASSUME NEW k \in Ticks, NEW step \in {"store", "mark", "raise"},
             Continues(k, step), Analysing(k),
             step = "raise" => ~ Storing(k),
             step = "store" => tick[k].step \in {"concepts", "store"}
      PROVE  Goal
  BY <1>1, <1>6 DEF Continues, Moves, Continuing, TaskOf
<1>7. ASSUME NEW k \in Ticks, Generate(k) PROVE Goal
  <2>1. tick[k].step = "concepts" /\ k[1] = "dispersion"
    BY <1>7 DEF Generate, At, Shaped, Shape
  <2>2. PICK step \in {"raise", "store"} : Continues(k, step)
    BY <1>7, TicksMove
  <2> QED
    BY <1>6, <2>1, <2>2 DEF Analysing, Storing
<1>8. ASSUME NEW k \in Ticks, StoreCard(k) PROVE Goal
  <2>1. tick[k].step = "store" /\ k[1] = "dispersion"
    BY <1>8 DEF StoreCard, At
  <2>2. PICK step \in {"store", "mark"} : Continues(k, step)
    BY <1>8, TicksMove
  <2> QED
    BY <1>6, <2>1, <2>2 DEF Analysing
<1>9. ASSUME NEW k \in Ticks, ReadSources(k) PROVE Goal
  <2>1. tick[k].step = "read" /\ UNCHANGED source
    BY <1>9 DEF ReadSources, At
  <2>2. CASE Continues(k, "finish")
    <3>1. k = j => ~ Storing(j) /\ ~ Analysing(j)'
      BY <2>1, <2>2 DEF Storing, Analysing, Continues, Moves
    <3> QED
      BY <1>1, <2>2, <3>1 DEF Continues
  <2>3. CASE Moves(k, "concepts", TaskOf(k), tick[k].queue, Collected, Collected)
    <3>1. k = j => Reading(j)
      BY <2>1, <2>3 DEF Reading, Moves
    <3> QED
      BY <1>1, <2>3, <3>1
  <2> QED
    BY <1>9, <2>2, <2>3, ReadingMoves
<1>10. ASSUME NEW k \in Ticks, Mark(k) PROVE Goal
  <2>1. PICK i \in tick[k].todo :
            /\ source' = [source EXCEPT ![i].status = "Processed"]
            /\ Moves(k, IF tick[k].todo = {i} THEN "finish" ELSE "mark", TaskOf(k),
                     tick[k].queue, tick[k].read, tick[k].todo \ {i})
    BY <1>10, ReadingMoves
  <2>2. i \in DOMAIN source
    BY DEF Shaped, Shape
  <2>3. i \notin Collected'
    BY <2>1, <2>2, StatusSet DEF Shaped, Collected, SourceStatuses
  <2>4. k = j => Marking(j)
    BY <1>10, <2>1, <2>3 DEF Marking, Mark, At, Moves, TaskOf
  <2> QED
    BY <1>1, <2>1, <2>4
<1>11. ASSUME NEW t \in Tasks, Retry(t) \/ SetTask(t) PROVE UNCHANGED tick
  BY <1>11 DEF Retry, SetTask
<1>12. AddSource \/ (\E i \in DOMAIN source : SetSource(i)) \/ UNCHANGED vars
          => UNCHANGED tick
  BY DEF AddSource, SetSource, vars
<1> QED
  BY <1>2, <1>3, <1>4, <1>5, <1>7, <1>8, <1>9, <1>10, <1>11, <1>12 DEF Next

LEMMA WholeStep ==
  ASSUME Shaped, Whole, [Next]_vars
  PROVE  Whole'
<1>1. DOMAIN source \subseteq DOMAIN source'
  BY RowsKeepShape
<1>2. ASSUME NEW j \in Ticks, j[1] = "dispersion", tick'[j].step \in {"concepts", "store"}
      PROVE  tick'[j].read = tick'[j].todo
  BY <1>2, AnalysisMoves
     DEF Whole, Reading, Marking, Failing, Continuing, Analysing
<1>3. CASE UNCHANGED card
  BY <1>1, <1>2, <1>3 DEF Whole
<1>4. ASSUME NEW k \in Ticks, StoreCard(k) PROVE Whole'
  <2>1. PICK read, t : read = tick[k].read /\ t = TaskOf(k)
    OBVIOUS
  <2>2. read \subseteq DOMAIN source
    BY <1>4, <2>1 DEF StoreCard, At, Whole, Shaped, Shape
  <2>3. PICK n : /\ DOMAIN card' = DOMAIN card \cup {n}
                 /\ card'[n].from = read
                 /\ \A c \in DOMAIN card : c # n /\ card'[c] = card[c]
    BY <1>4, <2>1, CardStored
  <2> QED
    BY <1>1, <1>2, <2>2, <2>3 DEF Whole
<1> QED
  BY <1>3, <1>4, CardsStay

LEMMA OnceStep ==
  ASSUME Shaped, Whole, Apart, Once, [Next]_vars
  PROVE  Once'
<1> SUFFICES ASSUME "dispersion" \notin beside', NEW i \in Nat \ again'
             PROVE  OnceOf(i)'
  BY DEF Once
<1>1. "dispersion" \notin beside /\ i \in Nat \ again /\ OnceOf(i)
  BY PastGrows DEF Once
<1>2. ASSUME NEW j \in Ticks, NEW k \in Ticks, Analysing(j), k[1] = "dispersion",
             ~ At(k, "idle")
      PROVE  j = k
  BY <1>1, <1>2, OneTick DEF Analysing, At
\* A tick that has the source to mark goes on to do so, fails, or has marked it.
<1>3. ASSUME NEW j \in Ticks, Pending(j, i), i \in Collected',
             NEW c \in DOMAIN card, i \in card[c].from, card[c].by = TaskOf(j)
      PROVE  Pending(j, i)' /\ tick'[j].task = tick[j].task
  <2>1. j[1] = "dispersion" /\ tick[j].step \in {"store", "mark"} /\ i \in tick[j].todo
    BY <1>3 DEF Pending, Storing
  <2>2. i \in Unmarked(j)
    BY <1>3, <2>1 DEF Unmarked
  <2>3. CASE tick'[j] = tick[j]
    BY <1>3, <2>3 DEF Pending, Storing
  <2>4. ~ Reading(j) /\ ~ Failing(j)
    BY <2>1, <2>2 DEF Reading, Failing
  <2>5. CASE Marking(j)
    BY <1>3, <2>1, <2>5 DEF Marking, Pending, Storing
  <2>6. CASE Continuing(j)
    BY <1>3, <2>1, <2>6 DEF Continuing, Pending, Storing
  <2> QED
    BY <1>3, <2>1, <2>3, <2>4, <2>5, <2>6, AnalysisMoves DEF Pending
\* A tick that has the source to mark had it before, or has just read it.
<1>4. ASSUME NEW j \in Ticks, Analysing(j)', i \in tick'[j].todo
      PROVE  \/ Analysing(j) /\ i \in tick[j].todo /\ tick'[j].task = tick[j].task
             \/ Reading(j) /\ i \in Collected
  <2>1. j[1] = "dispersion"
    BY <1>4 DEF Analysing
  <2>2. tick'[j] = tick[j] \/ Reading(j) \/ Marking(j) \/ Continuing(j)
    BY <1>4, <2>1, AnalysisMoves DEF Failing
  <2> QED
    BY <1>4, <2>1, <2>2 DEF Analysing, Reading, Marking, Continuing
\* Of a source just read there is no card.
<1>5. ASSUME NEW j \in Ticks, j[1] = "dispersion", Reading(j), i \in Collected,
             NEW c \in DOMAIN card
      PROVE  i \notin card[c].from
  <2>1. ASSUME NEW k \in Ticks PROVE ~ Storing(k)
    BY <1>2, <1>5, <2>1 DEF Reading, Storing, Analysing, At
  <2> QED
    BY <1>1, <1>5, <2>1 DEF OnceOf, Accounted, Pending
<1>6. i \in Collected' => i \in Collected \/ i \notin DOMAIN source
  BY CollectedStays
<1>7. ASSUME NEW c \in DOMAIN card, i \in card[c].from, i \in Collected'
      PROVE  \E k \in Ticks : Pending(k, i)' /\ card[c].by = tick'[k].task
  <2>1. i \in DOMAIN source
    BY <1>7 DEF Whole
  <2>2. PICK k \in Ticks : Pending(k, i) /\ card[c].by = TaskOf(k)
    BY <1>1, <1>6, <1>7, <2>1 DEF OnceOf, Accounted
  <2> QED
    BY <1>3, <1>7, <2>2 DEF TaskOf
<1>8. ASSUME NEW j \in Ticks, Analysing(j)', i \in tick'[j].todo,
             NEW c \in DOMAIN card, i \in card[c].from
      PROVE  card[c].by = tick'[j].task
  <2>1. j[1] = "dispersion"
    BY <1>8 DEF Analysing
  <2> QED
    BY <1>1, <1>4, <1>5, <1>8, <2>1 DEF OnceOf, Reads, TaskOf
<1>9. CASE UNCHANGED card
  <2>1. Sole(i)'
    BY <1>1, <1>9 DEF OnceOf, Sole
  <2>2. Accounted(i)'
    BY <1>7, <1>9 DEF Accounted, TaskOf
  <2>3. ASSUME NEW j \in Ticks PROVE Reads(j, i)'
    BY <1>8, <1>9 DEF Reads, TaskOf
  <2> QED
    BY <2>1, <2>2, <2>3 DEF OnceOf
<1>10. ASSUME NEW k \in Ticks, StoreCard(k) PROVE OnceOf(i)'
  <2>1. tick[k].step = "store" /\ k[1] = "dispersion"
    BY <1>10 DEF StoreCard, At
  <2>2. PICK read, t : read = tick[k].read /\ t = TaskOf(k)
    OBVIOUS
  <2>3. read = tick[k].todo
    BY <2>1, <2>2 DEF Whole
  <2>4. PICK n : /\ DOMAIN card' = DOMAIN card \cup {n}
                 /\ card'[n].from = read /\ card'[n].by = t
                 /\ \A c \in DOMAIN card : c # n /\ card'[c] = card[c]
    BY <1>10, <2>2, CardStored
  <2>5. /\ tick'[k].step \in {"store", "mark"}
        /\ tick'[k].task = t
        /\ tick'[k].todo = read
        /\ \A j \in Ticks \ {k} : tick'[j] = tick[j]
    BY <1>10, <2>2, <2>3, TicksMove DEF Continues, Moves
  <2>6. i \in read => \A c \in DOMAIN card : i \in card[c].from => card[c].by = t
    BY <1>1, <2>1, <2>2, <2>3 DEF OnceOf, Reads, Analysing
  <2>7. Sole(i)'
    BY <1>1, <2>4, <2>6 DEF OnceOf, Sole
  <2>8. i \in read => Pending(k, i)'
    BY <2>1, <2>5 DEF Pending, Storing
  <2>9. Accounted(i)'
    BY <1>7, <2>4, <2>5, <2>8 DEF Accounted, TaskOf
  <2>10. ASSUME NEW j \in Ticks, Analysing(j)', i \in tick'[j].todo PROVE Reads(j, i)'
    <3>1. j = k
      <4>1. CASE j # k
        <5>1. Analysing(j) /\ ~ At(k, "idle")
          BY <2>1, <2>5, <2>10, <4>1 DEF Analysing, At
        <5> QED
          BY <1>2, <2>1, <5>1
      <4> QED
        BY <4>1
    <3> QED
      BY <1>8, <2>4, <2>5, <2>10, <3>1 DEF Reads, TaskOf
  <2>11. \A j \in Ticks : Reads(j, i)'
    BY <2>10 DEF Reads
  <2> QED
    BY <2>7, <2>9, <2>11 DEF OnceOf
<1> QED
  BY <1>9, <1>10, CardsStay

\* Two tasks make cards of the same source only when people set it back to
\* Collected, when a tick failed between its cards and its mark, or when a tick of
\* dispersion was triggered: DuplicatesHaveCause, whatever else fails and whatever
\* people do to tasks and to other sources.
THEOREM ScheduledTicksAnalyseOnce == Spec => []DuplicatesHaveCause
<1>1. Init => Whole /\ Once
  BY IdleFields
     DEF Init, Whole, Once, OnceOf, Sole, Accounted, Reads, Analysing, Collected
<1>2. Shaped /\ Apart /\ (Whole /\ Once) /\ [Next]_vars => (Whole /\ Once)'
  BY WholeStep, OnceStep
<1>3. Shaped /\ (Whole /\ Once) => DuplicatesHaveCause
  <2> SUFFICES ASSUME Shaped, Once, "dispersion" \notin beside,
                      NEW c \in DOMAIN card, NEW d \in DOMAIN card,
                      card[c].by # card[d].by,
                      NEW i \in card[c].from \cap card[d].from
               PROVE  i \in again
    BY DEF DuplicatesHaveCause
  <2>1. i \in Nat
    <3>1. card[c] \in CardShapes
      BY DEF Shaped, RowsShaped
    <3> QED
      BY <3>1 DEF CardShapes
  <2>2. i \notin again => Sole(i)
    BY <2>1 DEF Once, OnceOf
  <2> QED
    BY <2>2 DEF Sole
<1> QED
  BY <1>1, <1>2, <1>3, RowsAndTicks, TicksApart, PTL DEF Spec

-----------------------------------------------------------------------------
(* Folds.  FoldLeft and FoldFunctionOnSet are recursive functions of the     *)
(* subsets of a finite set: they exist, and there is only one of each, by    *)
(* induction over these subsets; among those that are not as claimed one     *)
(* would be the smallest.                                                    *)

\* Of finite sets there is a smallest.
LEMMA LeastSet ==
  ASSUME NEW S, NEW F \in SUBSET FiniteSubsetsOf(S), F # {}
  PROVE  \E r \in F : \A s \in F : ~ (s \subseteq r /\ s # r)
<1>1. \E r \in F : \A s \in F : ~ (<<s, r>> \in StrictSubsetOrdering(S))
  BY FS_StrictSubsetOrderingWellFounded, WFMin
<1> QED
  BY <1>1 DEF StrictSubsetOrdering, FiniteSubsetsOf

\* What holds for a set when it holds for the smaller ones, holds for all.
LEMMA SubsetsCovered ==
  ASSUME NEW S, IsFiniteSet(S), NEW G \in SUBSET SUBSET S,
         \A s \in SUBSET S : (\A r \in SUBSET s : r # s => r \in G) => s \in G
  PROVE  G = SUBSET S
<1> DEFINE F == (SUBSET S) \ G
<1>1. F \in SUBSET FiniteSubsetsOf(S)
  BY FS_Subset DEF FiniteSubsetsOf
<1>2. ASSUME F # {}
      PROVE  FALSE
  <2>1. PICK s \in F : \A r \in F : ~ (r \subseteq s /\ r # s)
    <3> HIDE DEF F
    <3> QED
      BY <1>1, <1>2, LeastSet
  <2>2. \A r \in SUBSET s : r # s => r \in G
    BY <2>1
  <2> QED
    BY <2>1, <2>2
<1> QED
  BY <1>2

\* pick takes an element out of every set that is not empty.
Picks(pick, S) == \A s \in SUBSET S : s # {} => pick[s] \in s

\* g folds the subsets of S into V: the element that pick takes out comes last.
IsFold(g, V, S, base, pick, step) ==
    \A s \in SUBSET S :
        /\ s = {} => g[s] = base
        /\ s # {} /\ g[s \ {pick[s]}] \in V
              => g[s] = step[<<pick[s], g[s \ {pick[s]}]>>]

FoldsInto(V, S, base, pick, step) ==
    {g \in [SUBSET S -> V] : IsFold(g, V, S, base, pick, step)}

\* Two folds agree where both are defined.
LEMMA FoldsAgree ==
  ASSUME NEW S, NEW T \in SUBSET S, IsFiniteSet(T), NEW V, NEW base, NEW pick,
         NEW step, Picks(pick, S),
         NEW g \in FoldsInto(V, S, base, pick, step), NEW h,
         IsFold(h, V, T, base, pick, step)
  PROVE  \A s \in SUBSET T : g[s] = h[s]
<1> DEFINE G == {s \in SUBSET T : g[s] = h[s]}
<1>0. g \in [SUBSET S -> V] /\ IsFold(g, V, S, base, pick, step)
  BY DEF FoldsInto
<1>1. ASSUME NEW s \in SUBSET T, \A r \in SUBSET s : r # s => r \in G
      PROVE  s \in G
  <2>1. CASE s = {}
    BY <1>0, <2>1 DEF IsFold
  <2>2. CASE s # {}
    <3>1. PICK x \in s : x = pick[s]
      BY <2>2 DEF Picks
    <3>2. PICK r \in SUBSET s : r = s \ {x} /\ r # s
      <4>1. s \ {x} \in SUBSET s /\ s \ {x} # s
        OBVIOUS
      <4> QED
        BY <4>1
    <3>3. g[r] = h[r] /\ g[r] \in V
      BY <1>0, <1>1, <3>2
    <3>4. g[s] = step[<<x, g[r]>>] /\ h[s] = step[<<x, h[r]>>]
      BY <1>0, <2>2, <3>1, <3>2, <3>3 DEF IsFold
    <3> QED
      BY <3>3, <3>4
  <2> QED
    BY <2>1, <2>2
<1>2. G = SUBSET T
  <2>1. G \in SUBSET SUBSET T
    OBVIOUS
  <2> HIDE DEF G
  <2> QED
    BY <1>1, <2>1, SubsetsCovered
<1> QED
  BY <1>2

\* The subsets of a finite set can be folded.
LEMMA FoldsExist ==
  ASSUME NEW S, IsFiniteSet(S), NEW V, NEW base \in V, NEW pick, Picks(pick, S),
         NEW step \in [S \X V -> V]
  PROVE  FoldsInto(V, S, base, pick, step) # {}
<1> DEFINE Of(s) == FoldsInto(V, s, base, pick, step)
           G == {s \in SUBSET S : Of(s) # {}}
<1>1. ASSUME NEW s \in SUBSET S, \A r \in SUBSET s : r # s => r \in G
      PROVE  s \in G
  <2> DEFINE below(r) == CHOOSE g \in Of(r) : TRUE
             last == s \ {pick[s]}
             g == [r \in SUBSET s |->
                      IF r # s THEN below(r)[r]
                      ELSE IF s = {} THEN base
                      ELSE step[<<pick[s], below(last)[last]>>]]
  <2>1. \A r \in SUBSET s : r # s => below(r) \in Of(r)
    BY <1>1
  <2>2. \A r \in SUBSET s : r # s => below(r)[r] \in V
    BY <2>1 DEF FoldsInto
  <2> HIDE DEF below
  <2>3. g \in [SUBSET s -> V]
    <3>1. s # {} => pick[s] \in S /\ below(last)[last] \in V
      BY <2>2 DEF Picks
    <3>2. s # {} => step[<<pick[s], below(last)[last]>>] \in V
      BY <3>1
    <3> QED
      BY <2>2, <3>2
  <2>4. ASSUME NEW r \in SUBSET s
        PROVE  g[r] = IF r = {} THEN base ELSE step[<<pick[r], g[r \ {pick[r]}]>>]
    <3>1. CASE r = {}
      <4>1. CASE s = {}
        BY <3>1, <4>1
      <4>2. CASE s # {}
        BY <2>1, <3>1, <4>2 DEF FoldsInto, IsFold
      <4> QED
        BY <4>1, <4>2
    <3>2. CASE r # {}
      <4>1. PICK x \in r : x = pick[r]
        BY <3>2 DEF Picks
      <4>2. PICK q \in SUBSET r : q = r \ {x} /\ q # r
        <5>1. r \ {x} \in SUBSET r /\ r \ {x} # r
          OBVIOUS
        <5> QED
          BY <5>1
      <4>3. q \in SUBSET s /\ q # s
        BY <4>2
      <4>4. g[q] = below(q)[q]
        BY <4>3
      <4>5. g[r] = step[<<x, below(q)[q]>>]
        <5>1. CASE r = s
          BY <3>2, <4>1, <4>2, <5>1
        <5>2. CASE r # s
          <6>1. PICK g1 \in Of(r), g2 \in Of(q) : g1 = below(r) /\ g2 = below(q)
            BY <2>1, <4>3, <5>2
          <6>2. /\ IsFold(g1, V, r, base, pick, step)
                /\ IsFold(g2, V, q, base, pick, step)
                /\ g1[q] \in V
                /\ Picks(pick, r)
                /\ IsFiniteSet(q)
            BY FS_Subset DEF FoldsInto, Picks
          <6>3. g1[q] = g2[q]
            <7>1. \A p \in SUBSET q : g1[p] = g2[p]
              <8>1. g1 \in FoldsInto(V, r, base, pick, step)
                OBVIOUS
              <8> HIDE DEF Of
              <8> QED
                BY <6>2, <8>1, FoldsAgree
            <7> QED
              BY <7>1
          <6>4. g1[r] = step[<<x, g1[q]>>]
            BY <3>2, <4>1, <4>2, <6>2 DEF IsFold
          <6> QED
            BY <5>2, <6>1, <6>3, <6>4
        <5> QED
          BY <5>1, <5>2
      <4> QED
        BY <3>2, <4>1, <4>2, <4>4, <4>5
    <3> QED
      BY <3>1, <3>2
  <2> HIDE DEF g
  <2> QED
    BY <2>3, <2>4 DEF FoldsInto, IsFold
<1>2. G = SUBSET S
  <2>1. G \in SUBSET SUBSET S
    OBVIOUS
  <2> HIDE DEF G
  <2> QED
    BY <1>1, <2>1, SubsetsCovered
<1> QED
  BY <1>2

\* Of the places of a list the last can be taken out.
Latest(n) == [s \in SUBSET (1 .. n) |-> Max(s)]

LEMMA LatestPicks ==
  ASSUME NEW n \in Nat
  PROVE  Picks(Latest(n), 1 .. n)
<1> DEFINE G == {s \in SUBSET (1 .. n) :
                    s # {} => \E x \in s : \A y \in s : x >= y}
<1>1. ASSUME NEW s \in SUBSET (1 .. n), \A r \in SUBSET s : r # s => r \in G
      PROVE  s \in G
  <2> SUFFICES ASSUME s # {}
               PROVE  \E x \in s : \A y \in s : x >= y
    OBVIOUS
  <2>1. PICK x \in s : TRUE
    OBVIOUS
  <2>2. PICK r \in SUBSET s : r = s \ {x} /\ r # s
    <3>1. s \ {x} \in SUBSET s /\ s \ {x} # s
      BY <2>1
    <3> QED
      BY <3>1
  <2>3. CASE r = {}
    BY <2>1, <2>2, <2>3
  <2>4. CASE r # {}
    <3>1. PICK y \in r : \A z \in r : y >= z
      BY <1>1, <2>2, <2>4
    <3>2. x \in Int /\ y \in Int /\ \A z \in r : z \in Int
      BY <2>1
    <3>3. \A z \in s : z = x \/ z \in r
      BY <2>2
    <3>4. CASE x >= y
      BY <3>1, <3>2, <3>3, <3>4
    <3>5. CASE y >= x
      BY <3>1, <3>2, <3>3, <3>5
    <3> QED
      BY <3>2, <3>4, <3>5
  <2> QED
    BY <2>3, <2>4
<1>2. G = SUBSET (1 .. n)
  <2>1. G \in SUBSET SUBSET (1 .. n) /\ IsFiniteSet(1 .. n)
    BY FS_Interval
  <2> HIDE DEF G
  <2> QED
    BY <1>1, <2>1, SubsetsCovered
<1> QED
  BY <1>2 DEF Picks, Latest, Max

-----------------------------------------------------------------------------
(* Merging.                                                                  *)

Merges == [ended : BOOLEAN, n : Nat]

MergeSteps(answers) ==
    [p \in (DOMAIN answers) \X Merges |-> Merged(p[2], answers[p[1]])]

MergeFolds(answers, n) ==
    FoldsInto(Merges, 1 .. n, Nothing, Latest(n), MergeSteps(answers))

LEMMA MergedTyped ==
  ASSUME NEW m \in Merges, NEW a \in Answers
  PROVE  Merged(m, a) \in Merges
<1>1. m.ended \in BOOLEAN /\ m.n \in Nat /\ a.json \in BOOLEAN /\ a.n \in Nat
  BY FlowConstants DEF Merges, Answers
<1> QED
  BY <1>1 DEF Merged, Merges

\* Merge is the fold of the answers, from the first to the last.
LEMMA MergeIsFold ==
  ASSUME NEW n \in Nat, NEW answers \in [1 .. n -> Answers]
  PROVE  \E g \in MergeFolds(answers, n) : Merge(answers) = g[1 .. n]
<1> DEFINE Is(i) == i = [s \in SUBSET (1 .. n) |->
                            IF s = {} THEN Nothing
                            ELSE Merged(i[s \ {Max(s)}], answers[Max(s)])]
           pick == Latest(n)
           step == MergeSteps(answers)
<1>1. Merge(answers) = (CHOOSE i : Is(i))[1 .. n]
  <2>1. DOMAIN answers = 1 .. n
    OBVIOUS
  <2> QED
    BY <2>1 DEF Merge, FoldLeft, MapThenFoldSet
<1>2. /\ Picks(pick, 1 .. n)
      /\ \A s \in SUBSET (1 .. n) : pick[s] = Max(s)
  BY LatestPicks DEF Latest
<1>3. /\ step \in [(1 .. n) \X Merges -> Merges]
      /\ \A x \in 1 .. n, m \in Merges : step[<<x, m>>] = Merged(m, answers[x])
  BY MergedTyped DEF MergeSteps
<1>4. Nothing \in Merges /\ IsFiniteSet(1 .. n)
  BY FS_Interval DEF Nothing, Merges
<1> HIDE DEF pick, step
<1>5. PICK g : g \in FoldsInto(Merges, 1 .. n, Nothing, pick, step)
  <2>1. FoldsInto(Merges, 1 .. n, Nothing, pick, step) # {}
    <3> HIDE DEF Is
    <3>1. PICK S : S = 1 .. n
      OBVIOUS
    <3>2. /\ IsFiniteSet(S) /\ Picks(pick, S)
          /\ step \in [S \X Merges -> Merges]
      BY <1>2, <1>3, <1>4, <3>1
    <3>3. FoldsInto(Merges, S, Nothing, pick, step) # {}
      BY <1>4, <3>2, FoldsExist
    <3> QED
      BY <3>1, <3>3
  <2> QED
    BY <2>1
<1>6. g \in [SUBSET (1 .. n) -> Merges] /\ IsFold(g, Merges, 1 .. n, Nothing, pick, step)
  BY <1>5 DEF FoldsInto
<1>7. Is(g)
  <2>1. g = [s \in SUBSET (1 .. n) |-> g[s]]
    BY <1>6
  <2>2. ASSUME NEW s \in SUBSET (1 .. n), s # {}
        PROVE  g[s] = Merged(g[s \ {Max(s)}], answers[Max(s)])
    <3>1. PICK x \in s : x = Max(s) /\ x = pick[s]
      BY <1>2, <2>2 DEF Picks
    <3>2. g[s \ {x}] \in Merges
      BY <1>6
    <3>3. g[s] = step[<<x, g[s \ {x}]>>]
      BY <1>6, <2>2, <3>1, <3>2 DEF IsFold
    <3> QED
      BY <1>3, <3>1, <3>2, <3>3
  <2>3. g[{}] = Nothing
    BY <1>6 DEF IsFold
  <2>4. \A s \in SUBSET (1 .. n) :
           g[s] = IF s = {} THEN Nothing
                  ELSE Merged(g[s \ {Max(s)}], answers[Max(s)])
    BY <2>2, <2>3
  <2> QED
    BY <2>1, <2>4
<1>8. PICK i : Is(i) /\ Merge(answers) = i[1 .. n]
  <2> HIDE DEF Is
  <2> QED
    BY <1>1, <1>7
<1>9. IsFold(i, Merges, 1 .. n, Nothing, pick, step)
  <2>1. ASSUME NEW s \in SUBSET (1 .. n), s # {}, i[s \ {pick[s]}] \in Merges
        PROVE  i[s] = step[<<pick[s], i[s \ {pick[s]}]>>]
    <3>1. PICK x \in s : x = Max(s) /\ x = pick[s]
      BY <1>2, <2>1 DEF Picks
    <3>2. i[s] = Merged(i[s \ {x}], answers[x])
      BY <1>8, <2>1, <3>1
    <3> QED
      BY <1>3, <2>1, <3>1, <3>2
  <2>2. i[{}] = Nothing
    BY <1>8
  <2> HIDE DEF Is
  <2> QED
    BY <2>1, <2>2 DEF IsFold
<1>10. g[1 .. n] = i[1 .. n]
  <2> HIDE DEF Is
  <2>1. PICK S : S = 1 .. n
    OBVIOUS
  <2>2. \A s \in SUBSET S : g[s] = i[s]
    <3>1. /\ S \in SUBSET S /\ IsFiniteSet(S) /\ Picks(pick, S)
          /\ g \in FoldsInto(Merges, S, Nothing, pick, step)
          /\ IsFold(i, Merges, S, Nothing, pick, step)
      BY <1>2, <1>4, <1>5, <1>9, <2>1
    <3> QED
      BY <3>1, FoldsAgree
  <2> QED
    BY <2>1, <2>2
<1> QED
  BY <1>5, <1>8, <1>10 DEF MergeFolds, pick, step

\* The element that is taken next.
Some(s) == CHOOSE x \in s : TRUE
Anyone(S) == [s \in SUBSET S |-> Some(s)]

SumSteps(f, S) == [p \in S \X Nat |-> f[p[1]] + p[2]]

\* g adds up f over the subsets of S, whatever is taken first.
SumsOf(f, S) ==
    {g \in [SUBSET S -> Nat] :
        /\ g[{}] = 0
        /\ \A s \in SUBSET S : \A x \in s : g[s] = f[x] + g[s \ {x}]}

\* The order in which a fold adds up does not matter.
LEMMA AnyOrder ==
  ASSUME NEW S, IsFiniteSet(S), NEW f, \A x \in S : f[x] \in Nat,
         NEW g \in FoldsInto(Nat, S, 0, Anyone(S), SumSteps(f, S))
  PROVE  g \in SumsOf(f, S)
<1> DEFINE G == {s \in SUBSET S : \A x \in s : g[s] = f[x] + g[s \ {x}]}
<1>0. /\ g \in [SUBSET S -> Nat] /\ g[{}] = 0
      /\ IsFold(g, Nat, S, 0, Anyone(S), SumSteps(f, S))
  BY DEF FoldsInto, IsFold
<1>1. ASSUME NEW s \in SUBSET S, \A r \in SUBSET s : r # s => r \in G
      PROVE  s \in G
  <2> SUFFICES ASSUME NEW x \in s
               PROVE  g[s] = f[x] + g[s \ {x}]
    OBVIOUS
  <2>1. PICK c \in s : c = Some(s)
    BY DEF Some
  <2>2. g[s] = f[c] + g[s \ {c}]
    <3>1. g[s \ {c}] \in Nat
      BY <1>0
    <3>2. Anyone(S)[s] = c
      BY <2>1 DEF Anyone
    <3>3. g[s] = SumSteps(f, S)[<<c, g[s \ {c}]>>]
      BY <1>0, <3>1, <3>2 DEF IsFold
    <3> QED
      BY <3>1, <3>3 DEF SumSteps
  <2>3. CASE x = c
    BY <2>2, <2>3
  <2>4. CASE x # c
    <3>1. PICK rest : rest = s \ {c, x}
      OBVIOUS
    <3>2. g[s \ {c}] = f[x] + g[rest]
      <4>1. s \ {c} \in G /\ x \in s \ {c} /\ (s \ {c}) \ {x} = rest
        BY <1>1, <2>4, <3>1
      <4> QED
        BY <4>1
    <3>3. g[s \ {x}] = f[c] + g[rest]
      <4>1. s \ {x} \in G /\ c \in s \ {x} /\ (s \ {x}) \ {c} = rest
        BY <1>1, <2>4, <3>1
      <4> QED
        BY <4>1
    <3>4. f[x] \in Nat /\ f[c] \in Nat /\ g[rest] \in Nat
      BY <1>0, <3>1
    <3> QED
      BY <2>2, <3>2, <3>3, <3>4
  <2> QED
    BY <2>3, <2>4
<1>2. G = SUBSET S
  <2>1. G \in SUBSET SUBSET S
    OBVIOUS
  <2> HIDE DEF G
  <2> QED
    BY <1>1, <2>1, SubsetsCovered
<1> QED
  BY <1>0, <1>2 DEF SumsOf

\* The sum that RecordsIn asks for.
LEMMA SumIsFold ==
  ASSUME NEW S, IsFiniteSet(S), NEW f, \A x \in S : f[x] \in Nat
  PROVE  \E g \in SumsOf(f, S) : FoldFunctionOnSet(+, 0, f, S) = g[S]
<1> DEFINE Is(i) == i = [s \in SUBSET S |->
                            IF s = {} THEN 0 ELSE f[Some(s)] + i[s \ {Some(s)}]]
           sum == FoldFunctionOnSet(+, 0, f, S)
           pick == Anyone(S)
           step == SumSteps(f, S)
<1>1. sum = (CHOOSE i : Is(i))[S]
  BY DEF FoldFunctionOnSet, MapThenFoldSet, Some
<1>2. /\ Picks(pick, S)
      /\ \A s \in SUBSET S : pick[s] = Some(s)
  BY DEF Picks, Anyone, Some
<1>3. /\ step \in [S \X Nat -> Nat]
      /\ \A x \in S, m \in Nat : step[<<x, m>>] = f[x] + m
  BY DEF SumSteps
<1> HIDE DEF sum, pick, step
<1>4. PICK g : g \in FoldsInto(Nat, S, 0, pick, step)
  <2>1. FoldsInto(Nat, S, 0, pick, step) # {}
    <3> HIDE DEF Is
    <3> QED
      BY <1>2, <1>3, FoldsExist
  <2> QED
    BY <2>1
<1>5. g \in SumsOf(f, S)
  BY <1>4, AnyOrder DEF pick, step
<1>6. Is(g)
  <2>1. g \in [SUBSET S -> Nat]
    BY <1>5 DEF SumsOf
  <2>2. \A s \in SUBSET S :
           g[s] = IF s = {} THEN 0 ELSE f[Some(s)] + g[s \ {Some(s)}]
    <3>1. \A s : s # {} => Some(s) \in s
      BY DEF Some
    <3> QED
      BY <1>5, <3>1 DEF SumsOf
  <2> QED
    BY <2>1, <2>2
<1>7. PICK i : Is(i) /\ sum = i[S]
  <2> HIDE DEF Is
  <2> QED
    BY <1>1, <1>6
<1>8. IsFold(i, Nat, S, 0, pick, step)
  <2>1. ASSUME NEW s \in SUBSET S, s # {}, i[s \ {pick[s]}] \in Nat
        PROVE  i[s] = step[<<pick[s], i[s \ {pick[s]}]>>]
    <3>1. PICK x \in s : x = Some(s) /\ x = pick[s]
      BY <1>2, <2>1 DEF Picks
    <3>2. i[s] = f[x] + i[s \ {x}]
      BY <1>7, <2>1, <3>1
    <3> QED
      BY <1>3, <2>1, <3>1, <3>2
  <2>2. i[{}] = 0
    BY <1>7
  <2> HIDE DEF Is
  <2> QED
    BY <2>1, <2>2 DEF IsFold
<1>9. g[S] = i[S]
  <2> HIDE DEF Is
  <2>1. \A s \in SUBSET S : g[s] = i[s]
    <3>1. S \in SUBSET S
      OBVIOUS
    <3> QED
      BY <1>2, <1>4, <1>8, <3>1, FoldsAgree
  <2> QED
    BY <2>1
<1> QED
  BY <1>5, <1>7, <1>9 DEF sum

\* What has been merged of the first answers, and what can be read in them.
LEMMA MergedOneByOne ==
  ASSUME NEW n \in Nat, NEW answers \in [1 .. n -> Answers],
         NEW g \in MergeFolds(answers, n)
  PROVE  /\ g[1 .. 0] = Nothing
         /\ \A i \in 1 .. n : g[1 .. i] = Merged(g[1 .. i - 1], answers[i])
         /\ \A i \in 0 .. n : g[1 .. i] \in Merges
<1>1. /\ g \in [SUBSET (1 .. n) -> Merges]
      /\ IsFold(g, Merges, 1 .. n, Nothing, Latest(n), MergeSteps(answers))
  BY DEF MergeFolds, FoldsInto
<1>2. ASSUME NEW i \in 0 .. n
      PROVE  1 .. i \in SUBSET (1 .. n) /\ g[1 .. i] \in Merges
  BY <1>1, <1>2
<1>3. ASSUME NEW i \in 1 .. n
      PROVE  g[1 .. i] = Merged(g[1 .. i - 1], answers[i])
  <2>1. PICK s \in SUBSET (1 .. n) : s = 1 .. i
    BY <1>2
  <2>2. i \in s /\ s \ {i} = 1 .. i - 1
    BY <2>1
  <2>3. Latest(n)[s] = i
    <3>1. Max(s) = i
      BY <2>1 DEF Max
    <3> QED
      BY <3>1 DEF Latest
  <2>4. g[1 .. i - 1] \in Merges
    BY <1>2
  <2>5. g[s] = MergeSteps(answers)[<<i, g[1 .. i - 1]>>]
    BY <1>1, <2>2, <2>3, <2>4 DEF IsFold
  <2>6. <<i, g[1 .. i - 1]>> \in (DOMAIN answers) \X Merges
    BY <2>4
  <2> QED
    BY <2>1, <2>5, <2>6 DEF MergeSteps
<1>4. g[1 .. 0] = Nothing
  <2>1. 1 .. 0 = {}
    OBVIOUS
  <2> QED
    BY <1>1, <2>1 DEF IsFold
<1> QED
  BY <1>2, <1>3, <1>4

LEMMA ReadOneByOne ==
  ASSUME NEW n \in Nat, NEW answers \in [1 .. n -> Answers],
         NEW f, \A i \in 1 .. n : f[i] = answers[i].n,
         NEW h \in SumsOf(f, Readable(answers))
  PROVE  /\ h[Readable(answers) \cap (1 .. 0)] = 0
         /\ \A i \in 1 .. n :
               h[Readable(answers) \cap (1 .. i)]
                 = IF answers[i].json
                   THEN answers[i].n + h[Readable(answers) \cap (1 .. i - 1)]
                   ELSE h[Readable(answers) \cap (1 .. i - 1)]
         /\ \A i \in 0 .. n : h[Readable(answers) \cap (1 .. i)] \in Nat
<1> DEFINE S == Readable(answers)
<1>0. h \in [SUBSET S -> Nat] /\ h[{}] = 0
  BY DEF SumsOf
<1>1. ASSUME NEW i \in 1 .. n
      PROVE  h[S \cap (1 .. i)]
               = IF answers[i].json THEN answers[i].n + h[S \cap (1 .. i - 1)]
                                    ELSE h[S \cap (1 .. i - 1)]
  <2>1. CASE answers[i].json
    <3>1. i \in S \cap (1 .. i)
      BY <2>1 DEF Readable
    <3>2. (S \cap (1 .. i)) \ {i} = S \cap (1 .. i - 1)
      OBVIOUS
    <3>3. h[S \cap (1 .. i)] = f[i] + h[(S \cap (1 .. i)) \ {i}]
      BY <3>1 DEF SumsOf
    <3> QED
      BY <2>1, <3>2, <3>3
  <2>2. CASE ~ answers[i].json
    <3>1. S \cap (1 .. i) = S \cap (1 .. i - 1)
      BY <2>2 DEF Readable
    <3> QED
      BY <2>2, <3>1
  <2> QED
    BY <2>1, <2>2
<1>2. S \cap (1 .. 0) = {}
  OBVIOUS
<1> HIDE DEF S
<1>3. \A i \in 0 .. n : h[S \cap (1 .. i)] \in Nat
  BY <1>0
<1> QED
  BY <1>0, <1>1, <1>2, <1>3 DEF S

\* Up to a text that stands for all the records are added up; from there on
\* they are those of the text.
Silent(answers, i) == \A j \in 1 .. i : answers[j].json /\ answers[j].n = 0

MergedUpTo(answers, m, r, i) ==
    \/ /\ \A j \in 1 .. i : ~ StandsForAll(answers, j)
       /\ ~ m[i].ended
       /\ m[i].n = r[i]
       /\ m[i].n = 0 <=> Silent(answers, i)
    \/ \E j \in 1 .. i :
          /\ StandsForAll(answers, j)
          /\ m[i].ended
          /\ m[i].n = answers[j].n

\* A sum is nothing only of nothing.
LEMMA NothingToAdd == \A x, y \in Nat : x + y = 0 <=> x = 0 /\ y = 0
  OBVIOUS

\* What has been merged after each turn.
LEMMA MergesUpTo ==
  ASSUME NEW n \in Nat, NEW answers \in [1 .. n -> Answers],
         NEW m \in [0 .. n -> Merges], NEW r \in [0 .. n -> Nat],
         m[0] = Nothing, r[0] = 0,
         \A i \in 1 .. n : m[i] = Merged(m[i - 1], answers[i]),
         \A i \in 1 .. n : r[i] = IF answers[i].json THEN answers[i].n + r[i - 1]
                                                     ELSE r[i - 1]
  PROVE  MergedUpTo(answers, m, r, n)
<1>1. MergedUpTo(answers, m, r, 0)
  BY DEF MergedUpTo, Silent, Nothing
<1>2. ASSUME NEW i \in 1 .. n, MergedUpTo(answers, m, r, i - 1)
      PROVE  MergedUpTo(answers, m, r, i)
  <2>0. PICK k \in 0 .. n : k = i - 1 /\ i = k + 1
    OBVIOUS
  <2>1. PICK old \in Merges, a \in Answers :
            /\ old = m[k] /\ a = answers[i]
            /\ m[i] = Merged(old, a)
            /\ r[i] = IF a.json THEN a.n + r[k] ELSE r[k]
    BY <2>0
  <2>2. /\ old.ended \in BOOLEAN /\ old.n \in Nat
        /\ a.json \in BOOLEAN /\ a.n \in Nat
        /\ r[k] \in Nat
    BY <2>1, FlowConstants DEF Merges, Answers
  <2>3. /\ \A j \in 1 .. i : j \in 1 .. k \/ j = i
        /\ \A j \in 1 .. k : j \in 1 .. i
        /\ i \in 1 .. i
    BY <2>0
  <2>4. /\ StandsForAll(answers, i) <=> ~ a.json /\ Silent(answers, k)
        /\ Silent(answers, i) <=> Silent(answers, k) /\ a.json /\ a.n = 0
    BY <2>0, <2>1, <2>3 DEF StandsForAll, Silent
  <2>5. CASE \E j \in 1 .. k : /\ StandsForAll(answers, j)
                               /\ m[k].ended
                               /\ m[k].n = answers[j].n
    <3>1. m[i] = old
      BY <2>1, <2>5 DEF Merged
    <3> QED
      BY <2>1, <2>3, <2>5, <3>1 DEF MergedUpTo
  <2>6. CASE /\ \A j \in 1 .. k : ~ StandsForAll(answers, j)
             /\ ~ m[k].ended
             /\ m[k].n = r[k]
             /\ m[k].n = 0 <=> Silent(answers, k)
    <3>1. CASE a.json
      <4>1. /\ ~ m[i].ended /\ m[i].n = old.n + a.n
        BY <2>1, <2>2, <2>6, <3>1 DEF Merged, Merges
      <4>2. m[i].n = r[i]
        BY <2>1, <2>2, <2>6, <3>1, <4>1
      <4>3. m[i].n = 0 <=> old.n = 0 /\ a.n = 0
        <5>1. old.n + a.n = 0 <=> old.n = 0 /\ a.n = 0
          BY <2>2, NothingToAdd, Zenon
        <5>2. m[i].n = old.n + a.n
          BY <4>1
        <5> QED
          BY <5>1, <5>2, Zenon
      <4>4. m[i].n = 0 <=> Silent(answers, i)
        BY <2>1, <2>4, <2>6, <3>1, <4>3
      <4>5. \A j \in 1 .. i : ~ StandsForAll(answers, j)
        BY <2>3, <2>4, <2>6, <3>1
      <4> QED
        BY <4>1, <4>2, <4>4, <4>5 DEF MergedUpTo
    <3>2. CASE ~ a.json /\ old.n = 0
      <4>1. m[i].ended /\ m[i].n = a.n
        <5>1. ~ old.ended /\ ~ (old.n > 0) /\ old.n + a.n = a.n
          BY <2>1, <2>2, <2>6, <3>2
        <5>2. Merged(old, a) = [ended |-> ~ a.json, n |-> a.n]
          BY <5>1 DEF Merged
        <5>3. (~ a.json) = TRUE
          BY <3>2
        <5>4. m[i] = [ended |-> TRUE, n |-> a.n]
          BY <2>1, <5>2, <5>3, Zenon
        <5> QED
          BY <5>4
      <4>2. StandsForAll(answers, i)
        BY <2>1, <2>4, <2>6, <3>2
      <4> QED
        BY <2>1, <2>3, <4>1, <4>2 DEF MergedUpTo
    <3>3. CASE ~ a.json /\ old.n # 0
      <4>1. m[i] = old /\ r[i] = r[k]
        BY <2>1, <2>2, <2>6, <3>3 DEF Merged
      <4>2. ~ Silent(answers, k)
        BY <2>1, <2>6, <3>3
      <4>3. \A j \in 1 .. i : ~ StandsForAll(answers, j)
        BY <2>3, <2>4, <2>6, <4>2
      <4> QED
        BY <2>1, <2>4, <2>6, <3>3, <4>1, <4>2, <4>3 DEF MergedUpTo
    <3> QED
      BY <2>2, <3>1, <3>2, <3>3
  <2>7. MergedUpTo(answers, m, r, k)
    BY <1>2, <2>0
  <2> QED
    BY <2>5, <2>6, <2>7 DEF MergedUpTo
<1> DEFINE G == {s \in SUBSET (1 .. n) :
                    \A i \in 0 .. n : s = 1 .. i => MergedUpTo(answers, m, r, i)}
<1>3. ASSUME NEW s \in SUBSET (1 .. n), \A q \in SUBSET s : q # s => q \in G
      PROVE  s \in G
  <2> SUFFICES ASSUME NEW i \in 0 .. n, s = 1 .. i, i # 0
               PROVE  MergedUpTo(answers, m, r, i)
    BY <1>1
  <2>1. i - 1 \in 0 .. n /\ i \in 1 .. n
    OBVIOUS
  <2>2. PICK q \in SUBSET s : q = 1 .. i - 1 /\ q # s
    <3>1. 1 .. i - 1 \in SUBSET s /\ i \in s /\ i \notin 1 .. i - 1
      BY <2>1
    <3> QED
      BY <3>1
  <2>3. MergedUpTo(answers, m, r, i - 1)
    BY <1>3, <2>1, <2>2
  <2> QED
    BY <1>2, <2>1, <2>3
<1>4. G = SUBSET (1 .. n)
  <2>1. G \in SUBSET SUBSET (1 .. n) /\ IsFiniteSet(1 .. n)
    BY FS_Interval
  <2> HIDE DEF G
  <2> QED
    BY <1>3, <2>1, SubsetsCovered
<1>5. 1 .. n \in G
  BY <1>4
<1> QED
  BY <1>5

\* Merging counts the records that the answers hold.
LEMMA MergeCounts ==
  ASSUME NEW n \in Nat, NEW answers \in [1 .. n -> Answers]
  PROVE  Merge(answers).n = RecordsIn(answers)
<1> DEFINE S == Readable(answers)
           f == [i \in DOMAIN answers |-> answers[i].n]
<1>1. PICK g \in MergeFolds(answers, n) : Merge(answers) = g[1 .. n]
  BY MergeIsFold
<1>2. DOMAIN answers = 1 .. n /\ S \subseteq 1 .. n /\ IsFiniteSet(S)
  BY FS_Interval, FS_Subset DEF Readable
<1>3. \A i \in 1 .. n : f[i] = answers[i].n /\ f[i] \in Nat
  BY FlowConstants DEF Answers
<1> HIDE DEF f
<1>4. PICK h \in SumsOf(f, S) : FoldFunctionOnSet(+, 0, f, S) = h[S]
  <2>1. \A x \in S : f[x] \in Nat
    BY <1>2, <1>3
  <2> HIDE DEF S
  <2> QED
    BY <1>2, <2>1, SumIsFold
<1> DEFINE m == [i \in 0 .. n |-> g[1 .. i]]
           r == [i \in 0 .. n |-> h[S \cap (1 .. i)]]
<1>5. /\ m \in [0 .. n -> Merges] /\ m[0] = Nothing
      /\ \A i \in 1 .. n : m[i] = Merged(m[i - 1], answers[i])
  <2>1. /\ g[1 .. 0] = Nothing
        /\ \A i \in 1 .. n : g[1 .. i] = Merged(g[1 .. i - 1], answers[i])
        /\ \A i \in 0 .. n : g[1 .. i] \in Merges
    BY MergedOneByOne
  <2>2. \A i \in 1 .. n : i \in 0 .. n /\ i - 1 \in 0 .. n
    OBVIOUS
  <2> QED
    BY <2>1, <2>2
<1>6. /\ r \in [0 .. n -> Nat] /\ r[0] = 0
      /\ \A i \in 1 .. n : r[i] = IF answers[i].json THEN answers[i].n + r[i - 1]
                                                     ELSE r[i - 1]
  <2>1. /\ h[S \cap (1 .. 0)] = 0
        /\ \A i \in 1 .. n :
              h[S \cap (1 .. i)] = IF answers[i].json
                                  THEN answers[i].n + h[S \cap (1 .. i - 1)]
                                  ELSE h[S \cap (1 .. i - 1)]
        /\ \A i \in 0 .. n : h[S \cap (1 .. i)] \in Nat
    BY <1>3, <1>4, ReadOneByOne
  <2> HIDE DEF S
  <2>2. \A i \in 0 .. n : r[i] = h[S \cap (1 .. i)]
    OBVIOUS
  <2>3. r \in [0 .. n -> Nat] /\ r[0] = 0
    BY <2>1
  <2>4. ASSUME NEW i \in 1 .. n
        PROVE  r[i] = IF answers[i].json THEN answers[i].n + r[i - 1]
                                         ELSE r[i - 1]
    <3>1. i \in 0 .. n /\ i - 1 \in 0 .. n
      OBVIOUS
    <3>2. r[i] = h[S \cap (1 .. i)] /\ r[i - 1] = h[S \cap (1 .. i - 1)]
      BY <2>2, <3>1
    <3> HIDE DEF r
    <3> QED
      BY <2>1, <3>2
  <2> HIDE DEF r
  <2> QED
    BY <2>3, <2>4
<1>7. Merge(answers) = m[n] /\ r[n] = h[S]
  <2>1. S \cap (1 .. n) = S
    BY <1>2
  <2> HIDE DEF S
  <2>2. n \in 0 .. n
    OBVIOUS
  <2> QED
    BY <1>1, <2>1, <2>2
<1> HIDE DEF m, r
<1>8. MergedUpTo(answers, m, r, n)
  BY <1>5, <1>6, MergesUpTo
<1> DEFINE texts == {i \in DOMAIN answers : StandsForAll(answers, i)}
<1>9. RecordsIn(answers) = IF texts # {} THEN answers[CHOOSE i \in texts : TRUE].n
                                         ELSE FoldFunctionOnSet(+, 0, f, S)
  BY DEF RecordsIn, f
<1>10. CASE texts = {}
  <2>1. m[n].n = r[n]
    BY <1>2, <1>8, <1>10 DEF MergedUpTo
  <2> QED
    BY <1>4, <1>7, <1>9, <1>10, <2>1
<1>11. CASE texts # {}
  <2>1. PICK j \in texts : m[n].n = answers[j].n
    BY <1>2, <1>8, <1>11 DEF MergedUpTo
  <2>2. \A i, k \in texts : i = k
    <3>1. ASSUME NEW i \in texts, NEW k \in texts
          PROVE  ~ (i < k)
      <4>1. i \in 1 .. n /\ k \in 1 .. n /\ ~ answers[i].json
        BY <1>2 DEF StandsForAll
      <4>2. i < k => i \in 1 .. k - 1
        BY <4>1
      <4> QED
        BY <4>1, <4>2 DEF StandsForAll
    <3>2. \A i, k \in texts : i \in Int /\ k \in Int
      BY <1>2
    <3> QED
      BY <3>1, <3>2
  <2> HIDE DEF texts
  <2>3. PICK i \in texts : i = CHOOSE k \in texts : TRUE
    BY <1>11
  <2>4. i = j
    BY <2>2
  <2> QED
    BY <1>7, <1>9, <1>11, <2>1, <2>3, <2>4
<1> QED
  BY <1>10, <1>11

\* Of the materials found there are so many.
LEMMA MaterialsCounted ==
  ASSUME NEW k \in Ticks, search \in [Ticks -> Searches]
  PROVE  Materials(k) \in Nat
<1>1. search[k].found \subseteq Addresses
  BY SearchFields
<1>2. Cardinality(search[k].found) \in Nat
  BY <1>1, FlowConstants, FS_Subset, FS_CardinalityType
<1>3. MaxMaterials \in Nat
  BY FlowConstants
<1> QED
  BY <1>2, <1>3 DEF Materials, Slice

\* Merging keeps all records of the answers that can be read, however many there
\* are and wherever a text stands between them: MergeKeepsRecords.
THEOREM RecordsAreKept == Spec => []MergeKeepsRecords
<1>1. Budgeted => MergeKeepsRecords
  BY MergeCounts, MaterialsCounted DEF Budgeted, MergeKeepsRecords
<1> QED
  BY <1>1, SearchesBudgeted, PTL
=============================================================================
