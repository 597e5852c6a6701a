------------------------------ MODULE MaterialFlow ------------------------------
(***************************************************************************)
(* What the agents make of a project's material: focus (agents/focus.py)    *)
(* searches within a budget and stores sources, dispersion                  *)
(* (agents/dispersion.py) reads the sources that are Collected, makes cards *)
(* of them and marks them Processed, diffraction (agents/diffraction.py)    *)
(* writes outputs from the cards and merges outputs.  The board they take   *)
(* their tasks from is AgentBoard's; here a tick of an agent may run beside *)
(* another one of the same agent (Scheduler.trigger_agent), and people      *)
(* give tasks and sources whatever status they like (api/routes.py).        *)
(*                                                                          *)
(* One project, as each agent selects rows by project.  Texts are left out: *)
(* of an answer of the model there is what the parsers get out of it, of a  *)
(* draft how long it is.                                                    *)
(***************************************************************************)
EXTENDS Integers, FiniteSets, SequencesExt

CONSTANTS
    Ticks,            \* ticks that may run: agent and number; 1 is the scheduler's
    Kind,             \* rows of the board: what each task is for
    Boards,           \* the tasks a board may start with
    Addresses,        \* what a search can find
    MaxSearchRounds,  \* max_search_rounds
    MaxSearchQueries, \* max_search_queries
    MaxMaterials,     \* materials that are given to the model: 15
    MaxKeywords,      \* bound: keywords of one kind in an answer
    MaxRecords,       \* bound: records, or concepts, in one answer
    MaxSources,       \* bound: rows of sources
    MaxCards,         \* bound: rows of wiki_cards
    MaxOutputs,       \* bound: rows of outputs
    MaxIncidents      \* bound: exceptions, changes of people, ticks triggered

Tasks == DOMAIN Kind
Kinds == {"collect", "analyse", "produce", "merge"}

\* What the parsers get out of an answer: a list of n records, or text that
\* is no JSON and of which the fallback makes n.
Answers == [json : BOOLEAN, n : 0 .. MaxRecords]

ASSUME FlowConstants ==
    /\ Ticks \subseteq {"focus", "dispersion", "diffraction"} \X (Nat \ {0})
    /\ Kind \in [Tasks -> Kinds]
    /\ Tasks \subseteq Nat \ {0}
    /\ Boards \subseteq SUBSET Tasks
    /\ MaxSearchRounds \in Nat
    /\ MaxSearchQueries \in Nat
    /\ MaxMaterials \in Nat \ {0}
    /\ IsFiniteSet(Addresses)
    /\ {MaxKeywords, MaxRecords, MaxSources, MaxCards, MaxOutputs,
        MaxIncidents} \subseteq Nat

VARIABLES
    task,      \* agent_tasks: status
    idle,      \* tasks whose ai_notes say that there was nothing to work on
    source,    \* sources, in order of insertion: status, task that stored it
               \* (0: people)
    card,      \* wiki_cards: the sources each was made from, and by which task
    output,    \* outputs: task, and whether it is a merged one
    search,    \* locals of focus's loop, of each tick
    tick,      \* where each tick is, and what it has read
    incidents, \* exceptions, changes of people, ticks triggered so far
    said,      \* history, as are the next three, which no guard reads: the
               \* status people gave each task last ("none": they never did)
    marked,    \* sources that people marked Processed and nothing else since
    again,     \* sources to be read again: people set them to Collected, or a
               \* tick made cards of them and failed before it marked them
    beside     \* agents of which a tick was triggered beside the scheduler's

rows == <<task, idle, source, card, output>>
past == <<said, marked, again, beside>>
vars == <<rows, search, tick, incidents, past>>

\* Of the statuses nothing selects, Archived stands for Inbox and Failed (tasks),
\* To Read and Reading (sources) as well.
TaskStatuses == {"Todo", "Doing", "Waiting", "Done", "Archived"}
SourceStatuses == {"Collected", "Processed", "Archived"}

SourceRows == [status : SourceStatuses, by : Tasks \cup {0}]
CardRows == [from : SUBSET (1 .. MaxSources), by : Tasks]
OutputRows == [by : Tasks, merged : BOOLEAN]
Searches ==
    [round : Nat, used : Nat, general : Nat, academic : Nat,
     found : SUBSET Addresses]

\* records: parsed and not yet stored; read: the rows the task works on; todo:
\* those still to be marked; draft: its length.
Lengths == {"useless", "short", "long"}
TickRows ==
    [step : {"idle", "next", "plan", "search", "judge", "materials", "read",
             "concepts", "store", "mark", "draft", "review", "build", "gap",
             "raise", "finish"},
     queue : SUBSET Tasks, task : Tasks \cup {0},
     records : Nat, read : SUBSET Nat, todo : SUBSET Nat, draft : Lengths]

TypeOK ==
    /\ task \in [Tasks -> TaskStatuses \cup {"none"}]
    /\ idle \subseteq Tasks
    /\ source \in Seq(SourceRows)
    /\ card \in Seq(CardRows)
    /\ output \in Seq(OutputRows)
    /\ search \in [Ticks -> Searches]
    /\ tick \in [Ticks -> TickRows]
    /\ incidents \in 0 .. MaxIncidents
    /\ said \in [Tasks -> TaskStatuses \cup {"none"}]
    /\ marked \cup again \subseteq DOMAIN source
    /\ beside \subseteq {k[1] : k \in Ticks}

NoSearch ==
    [round |-> 0, used |-> 0, general |-> 0, academic |-> 0, found |-> {}]
Idle ==
    [step |-> "idle", queue |-> {}, task |-> 0, records |-> 0, read |-> {},
     todo |-> {}, draft |-> "useless"]

Init ==
    /\ \E board \in Boards :
          task = [t \in Tasks |-> IF t \in board THEN "Todo" ELSE "none"]
    /\ idle = {}
    /\ source = <<>>
    /\ card = <<>>
    /\ output = <<>>
    /\ search = [k \in Ticks |-> NoSearch]
    /\ tick = [k \in Ticks |-> Idle]
    /\ incidents = 0
    /\ said = [t \in Tasks |-> "none"]
    /\ marked = {}
    /\ again = {}
    /\ beside = {}

At(k, step) == tick[k].step = step
Goes(k, step) == tick' = [tick EXCEPT ![k].step = step]
TaskOf(k) == tick[k].task
IsMerge(k) == Kind[TaskOf(k)] = "merge"
KeepsBounds == UNCHANGED <<incidents, past>>
Incident ==
    /\ incidents < MaxIncidents
    /\ incidents' = incidents + 1

-----------------------------------------------------------------------------
(* base.py: tick(); scheduler.py: trigger_agent()                            *)

AgentOf(t) ==
    CASE Kind[t] = "collect" -> "focus"
      [] Kind[t] = "analyse" -> "dispersion"
      [] OTHER -> "diffraction"

FirstStep(t) == IF Kind[t] = "collect" THEN "plan" ELSE "read"

GoesOn(queue) ==
    IF queue = {} THEN Idle ELSE [Idle EXCEPT !.step = "next", !.queue = queue]

\* A tick is the scheduler's, or people have asked for it.
Triggered(k) ==
    IF k[2] = 1 THEN KeepsBounds
    ELSE /\ Incident
         /\ beside' = beside \cup {k[1]}
         /\ UNCHANGED <<said, marked, again>>

\* A tick lists the tasks it will work on.
List(k) ==
    LET todo == {t \in Tasks : task[t] = "Todo" /\ AgentOf(t) = k[1]}
    IN /\ At(k, "idle")
       /\ todo # {}
       /\ tick' = [tick EXCEPT ![k] = GoesOn(todo)]
       /\ Triggered(k)
       /\ UNCHANGED <<rows, search>>

\* It takes the oldest of them, whatever its status is by now.
Take(k) ==
    /\ At(k, "next")
    /\ LET t == Min(tick[k].queue) IN
          /\ task' = [task EXCEPT ![t] = "Doing"]
          /\ tick' = [tick EXCEPT ![k].step = FirstStep(t), ![k].task = t,
                                  ![k].queue = @ \ {t}]
    /\ search' = [search EXCEPT ![k] = NoSearch]
    /\ UNCHANGED <<idle, source, card, output>>
    /\ KeepsBounds

Ends(k, status) ==
    /\ task' = [task EXCEPT ![TaskOf(k)] = status]
    /\ tick' = [tick EXCEPT ![k] = GoesOn(@.queue)]
    /\ search' = [search EXCEPT ![k] = NoSearch]
    /\ UNCHANGED <<idle, source, card, output, said, marked, beside>>

Finish(k) ==
    /\ At(k, "finish")
    /\ Ends(k, "Done")
    /\ UNCHANGED <<incidents, again>>

\* Mutant: it returns instead.
GiveUpAsDone(k) ==
    /\ At(k, "raise")
    /\ Ends(k, "Done")
    /\ UNCHANGED <<incidents, again>>

\* process_task() raises because an answer was of no use.
GiveUp(k) ==
    /\ At(k, "raise")
    /\ Ends(k, "Waiting")
    /\ UNCHANGED <<incidents, again>>

\* Sources that have a card of the task and do not bear the mark yet.
Unmarked(k) ==
    {i \in tick[k].todo :
        \E c \in DOMAIN card : i \in card[c].from /\ card[c].by = TaskOf(k)}

\* Any other exception: of the database, of the model, of a parser.
Fail(k) ==
    /\ tick[k].step \notin {"idle", "next", "raise"}
    /\ Incident
    /\ again' = again \cup Unmarked(k)
    /\ Ends(k, "Waiting")

\* Mutant: every task that is not at work is queued again.
RequeueAny(t) ==
    /\ task[t] \in {"Waiting", "Done"}
    /\ task' = [task EXCEPT ![t] = "Todo"]
    /\ UNCHANGED <<idle, source, card, output, search, tick>>
    /\ KeepsBounds

\* resolve_dependencies() or _retry_failed_tasks() of the scheduler.
Retry(t) ==
    /\ task[t] = "Waiting"
    /\ task' = [task EXCEPT ![t] = "Todo"]
    /\ UNCHANGED <<idle, source, card, output, search, tick>>
    /\ KeepsBounds

\* A task that found nothing to read says so and is done.
NothingToDo(k) ==
    /\ idle' = idle \cup {TaskOf(k)}
    /\ Goes(k, "finish")

-----------------------------------------------------------------------------
(* Answers of the model that are merged: _synthesize_sources() of focus and  *)
(* _batch_generate_cards() of dispersion.  Text that is no JSON ends the     *)
(* merging as long as nothing has been merged, and is skipped after that.    *)

Nothing == [ended |-> FALSE, n |-> 0]

\* Mutant: text that is no JSON always stands for the whole.
MergedLosing(m, a) ==
    IF m.ended THEN m
    ELSE [ended |-> ~ a.json, n |-> IF a.json THEN m.n + a.n ELSE a.n]

\* One answer more.
Merged(m, a) ==
    IF m.ended \/ (~ a.json /\ m.n > 0) THEN m
    ELSE [ended |-> ~ a.json, n |-> m.n + a.n]

Merge(answers) == FoldLeft(Merged, Nothing, answers)

\* Records are stored one by one; without any process_task() raises.
Stores(k, answers) ==
    LET n == Merge(answers).n
    IN tick' = [tick EXCEPT ![k].step = IF n = 0 THEN "raise" ELSE "store",
                            ![k].records = n]

\* The last record leads on to "next".
StoresOne(k, next) ==
    LET left == tick[k].records - 1
    IN tick' = [tick EXCEPT ![k].records = left,
                            ![k].step = IF left = 0 THEN next ELSE @]

-----------------------------------------------------------------------------
(* focus.py                                                                  *)

AtLeast(low, n) == IF n < low THEN low ELSE n
Slice(n, limit) == IF n < limit THEN n ELSE limit

\* Mutant: each list is cut to what is left.
QueriesCutApart(s, left) ==
    LET general == Slice(s.general, AtLeast(1, left))
        academic == Slice(s.academic, AtLeast(0, left))
    IN [s EXCEPT !.general = general, !.academic = academic,
                 !.used = @ + general + academic]

\* The keywords of a round, cut to what is left of the budget.
Queries(s, left) ==
    LET general == Slice(s.general, AtLeast(1, left - s.academic))
        academic == Slice(s.academic, AtLeast(0, left - general))
    IN IF s.general + s.academic > left
       THEN [s EXCEPT !.general = general, !.academic = academic,
                      !.used = @ + general + academic]
       ELSE [s EXCEPT !.used = @ + s.general + s.academic]

Plan(k) ==
    /\ At(k, "plan")
    /\ \E general, academic \in 0 .. MaxKeywords :
          search' = [search EXCEPT ![k].general = general,
                                   ![k].academic = academic]
    /\ Goes(k, "search")
    /\ UNCHANGED rows
    /\ KeepsBounds

SearchEnds(s) == s.round = MaxSearchRounds \/ s.used >= MaxSearchQueries

\* What the providers bring: each may fail and is then left out, as are blocked
\* domains; academic and general results are not told apart.
Found(asked, s) == IF asked.used = s.used THEN {{}} ELSE SUBSET Addresses

\* One round of the loop, or the end of it.
Search(k) ==
    LET s == search[k]
        asked == Queries(s, MaxSearchQueries - s.used)
    IN /\ At(k, "search")
       /\ IF SearchEnds(s)
          THEN /\ Goes(k, "materials")
               /\ UNCHANGED search
          ELSE /\ \E found \in Found(asked, s) :
                     search' = [search EXCEPT
                         ![k] = [asked EXCEPT !.round = @ + 1,
                                              !.general = 0,
                                              !.academic = 0,
                                              !.found = @ \cup found]]
               /\ Goes(k, IF s.round + 1 < MaxSearchRounds
                          THEN "judge" ELSE "search")
       /\ UNCHANGED rows
       /\ KeepsBounds

\* The model finds the coverage sufficient, or names keywords for another
\* round; the last round is not judged.
Judge(k) ==
    /\ At(k, "judge")
    /\ \/ /\ Goes(k, "materials")
          /\ UNCHANGED search
       \/ \E general \in 0 .. MaxKeywords :
             /\ search' = [search EXCEPT ![k].general = general]
             /\ Goes(k, IF general = 0 THEN "materials" ELSE "search")
    /\ UNCHANGED rows
    /\ KeepsBounds

Materials(k) == Slice(Cardinality(search[k].found), MaxMaterials)

\* One answer for each of the first MaxMaterials addresses; without a
\* material the list of answers is empty and its first element missing.
Synthesize(k) ==
    /\ At(k, "materials")
    /\ IF Materials(k) = 0 THEN Goes(k, "raise")
       ELSE \E answers \in [1 .. Materials(k) -> Answers] : Stores(k, answers)
    /\ search' = [search EXCEPT ![k] = NoSearch]
    /\ UNCHANGED rows
    /\ KeepsBounds

StoreSource(k) ==
    /\ At(k, "store")
    /\ k[1] = "focus"
    /\ Len(source) < MaxSources
    /\ source' = Append(source, [status |-> "Collected", by |-> TaskOf(k)])
    /\ StoresOne(k, "finish")
    /\ UNCHANGED <<task, idle, card, output, search>>
    /\ KeepsBounds

-----------------------------------------------------------------------------
(* dispersion.py                                                             *)

\* Mutant: the status is not asked for.
AnyStatus == DOMAIN source

Collected == {i \in DOMAIN source : source[i].status = "Collected"}

ReadSources(k) ==
    /\ At(k, "read")
    /\ k[1] = "dispersion"
    /\ IF Collected = {} THEN NothingToDo(k)
       ELSE /\ tick' = [tick EXCEPT ![k].step = "concepts",
                                    ![k].read = Collected,
                                    ![k].todo = Collected]
            /\ UNCHANGED idle
    /\ UNCHANGED <<task, source, card, output, search>>
    /\ KeepsBounds

\* A card for each concept the model lists, or all cards in one answer when
\* the list is empty or cannot be read.
Generate(k) ==
    /\ At(k, "concepts")
    /\ \E concepts \in 0 .. MaxRecords :
       \E answers \in [1 .. AtLeast(1, concepts) -> Answers] :
          Stores(k, answers)
    /\ UNCHANGED <<rows, search>>
    /\ KeepsBounds

StoreCard(k) ==
    /\ At(k, "store")
    /\ k[1] = "dispersion"
    /\ Len(card) < MaxCards
    /\ card' = Append(card, [from |-> tick[k].read, by |-> TaskOf(k)])
    /\ StoresOne(k, "mark")
    /\ UNCHANGED <<task, idle, source, output, search>>
    /\ KeepsBounds

\* Mutant: what is Collected by now is marked, not what was read.
MarkWhatIsCollected(k) ==
    /\ At(k, "mark")
    /\ source' = [i \in DOMAIN source |->
                      [source[i] EXCEPT !.status =
                           IF @ = "Collected" THEN "Processed" ELSE @]]
    /\ Goes(k, "finish")
    /\ UNCHANGED <<task, idle, card, output, search>>
    /\ KeepsBounds

\* One source after the other, each in a transaction, whatever its status.
Mark(k) ==
    /\ At(k, "mark")
    /\ \E i \in tick[k].todo :
          /\ source' = [source EXCEPT ![i].status = "Processed"]
          /\ tick' = [tick EXCEPT ![k].todo = @ \ {i},
                                  ![k].step = IF tick[k].todo = {i}
                                              THEN "finish" ELSE "mark"]
    /\ UNCHANGED <<task, idle, card, output, search>>
    /\ KeepsBounds

-----------------------------------------------------------------------------
(* diffraction.py                                                            *)

\* Cards of the project; a merging task reads its outputs.
ReadCards(k) ==
    LET read == IF IsMerge(k) THEN DOMAIN output ELSE DOMAIN card
    IN /\ At(k, "read")
       /\ k[1] = "diffraction"
       /\ IF read = {} THEN NothingToDo(k)
          ELSE /\ tick' = [tick EXCEPT ![k].step = "draft", ![k].read = read]
               /\ UNCHANGED idle
       /\ UNCHANGED <<task, source, card, output, search>>
       /\ KeepsBounds

\* Outline and sections, or one pass; a merged text is not reviewed, nor is
\* one of less than 100 characters.
Draft(k) ==
    /\ At(k, "draft")
    /\ \E draft \in Lengths :
          tick' = [tick EXCEPT ![k].draft = draft,
                               ![k].step = IF draft = "long" /\ ~ IsMerge(k)
                                           THEN "review" ELSE "build"]
    /\ UNCHANGED <<rows, search>>
    /\ KeepsBounds

\* The review has nothing to say or cannot be read; or the draft is revised,
\* and kept when the answer is empty.
Review(k) ==
    /\ At(k, "review")
    /\ \E draft \in Lengths :
          tick' = [tick EXCEPT ![k].draft = draft, ![k].step = "build"]
    /\ UNCHANGED <<rows, search>>
    /\ KeepsBounds

\* Less than 50 characters are no output.
Build(k) ==
    /\ At(k, "build")
    /\ IF tick[k].draft = "useless"
       THEN /\ Goes(k, "raise")
            /\ UNCHANGED output
       ELSE /\ Len(output) < MaxOutputs
            /\ output' = Append(output, [by |-> TaskOf(k), merged |-> IsMerge(k)])
            /\ \E gap \in BOOLEAN :
                  Goes(k, IF gap /\ ~ IsMerge(k) THEN "gap" ELSE "finish")
    /\ UNCHANGED <<task, idle, source, card, search>>
    /\ KeepsBounds

\* A gap report becomes a task for focus; nothing analyses what it collects.
FillGap(k) ==
    /\ At(k, "gap")
    /\ \E t \in Tasks : /\ task[t] = "none"
                       /\ Kind[t] = "collect"
                       /\ task' = [task EXCEPT ![t] = "Todo"]
    /\ Goes(k, "finish")
    /\ UNCHANGED <<idle, source, card, output, search>>
    /\ KeepsBounds

-----------------------------------------------------------------------------
(* routes.py: people                                                         *)

\* update_source(): they give a source another status.
SetSource(i) ==
    /\ Incident
    /\ \E status \in SourceStatuses \ {source[i].status} :
          /\ source' = [source EXCEPT ![i].status = status]
          /\ marked' = IF status = "Processed" THEN marked \cup {i}
                       ELSE marked \ {i}
          /\ again' = IF status = "Collected" THEN again \cup {i} ELSE again
    /\ UNCHANGED <<task, idle, card, output, search, tick, said, beside>>

\* create_source(): they add one of their own.
AddSource ==
    /\ Incident
    /\ Len(source) < MaxSources
    /\ source' = Append(source, [status |-> "Collected", by |-> 0])
    /\ UNCHANGED <<task, idle, card, output, search, tick, past>>

\* update_task(): they give a task another status, also while it is listed or
\* worked on.
SetTask(t) ==
    /\ Incident
    /\ task[t] # "none"
    /\ \E status \in TaskStatuses \ {task[t]} :
          /\ task' = [task EXCEPT ![t] = status]
          /\ said' = [said EXCEPT ![t] = status]
    /\ UNCHANGED <<idle, source, card, output, search, tick, marked, again, beside>>

Next ==
    \/ \E k \in Ticks :
          \/ List(k) \/ Take(k) \/ Finish(k) \/ GiveUp(k) \/ Fail(k)
          \/ Plan(k) \/ Search(k) \/ Judge(k) \/ Synthesize(k)
          \/ StoreSource(k)
          \/ ReadSources(k) \/ Generate(k) \/ StoreCard(k) \/ Mark(k)
          \/ ReadCards(k) \/ Draft(k) \/ Review(k) \/ Build(k) \/ FillGap(k)
    \/ \E t \in Tasks : Retry(t) \/ SetTask(t)
    \/ AddSource
    \/ \E i \in DOMAIN source : SetSource(i)

Spec == Init /\ [][Next]_vars

-----------------------------------------------------------------------------
\* The searches of a task stay within max_search_queries, whatever keywords
\* the model names and in however many rounds.
WithinQueries == \A k \in Ticks : search[k].used <= MaxSearchQueries

\* Merging keeps all records of the answers that can be read, wherever a text
\* stands between them; a text stands for the whole only when no answer before
\* it has brought a record.  Whatever the model answers for the materials found.
Readable(answers) == {i \in DOMAIN answers : answers[i].json}
StandsForAll(answers, i) ==
    /\ ~ answers[i].json
    /\ \A j \in 1 .. i - 1 : answers[j].json /\ answers[j].n = 0
RecordsIn(answers) ==
    LET texts == {i \in DOMAIN answers : StandsForAll(answers, i)}
    IN IF texts # {} THEN answers[CHOOSE i \in texts : TRUE].n
       ELSE FoldFunctionOnSet(+, 0, [i \in DOMAIN answers |-> answers[i].n],
                              Readable(answers))
MergeKeepsRecords ==
    \A k \in Ticks : At(k, "materials") =>
        \A answers \in [1 .. Materials(k) -> Answers] :
            Merge(answers).n = RecordsIn(answers)

\* A source is Processed only when a card has been made of it, or people marked
\* it and have not said otherwise since: no tick takes a source off the list
\* without a card, whatever people and other ticks do to it meanwhile.
ProcessedWasAnalysed ==
    \A i \in DOMAIN source : source[i].status = "Processed" =>
        i \in marked \/ \E c \in DOMAIN card : i \in card[c].from

\* Two tasks make cards of the same source only when that source was set back to
\* Collected by people, when a tick failed between its cards and its mark, or
\* when a tick of dispersion was triggered beside the scheduler's.  Any other
\* incident (failures elsewhere, tasks that people reopen, close or archive while
\* a tick works on them, sources they add) leaves every source to one task.
DuplicatesHaveCause ==
    \A c, d \in DOMAIN card :
        card[c].by # card[d].by /\ "dispersion" \notin beside
            => card[c].from \cap card[d].from \subseteq again

\* A task that is done has left rows behind, says in its notes that there was
\* nothing to work on, or was marked Done by people: no answer of the model is
\* dropped silently.
LeftRows(t) ==
    CASE Kind[t] = "collect" -> \E i \in DOMAIN source : source[i].by = t
      [] Kind[t] = "analyse" -> \E c \in DOMAIN card : card[c].by = t
      [] OTHER -> \E o \in DOMAIN output : output[o].by = t
NoEmptyDone ==
    \A t \in Tasks :
        task[t] = "Done" => LeftRows(t) \/ t \in idle \/ said[t] = "Done"

\* A task that is done is taken up again only by people's hand; or because it was
\* people who had marked it Done, while a tick had it on its list or at work; or
\* because a tick of its agent was triggered beside the scheduler's.  However
\* many exceptions and retries come between, a list of tasks that a tick has read
\* holds no task that the agents themselves have brought to an end.
DoneUnlessReopened ==
    [][\A t \in Tasks :
          task[t] = "Done" /\ task'[t] # "Done" =>
              SetTask(t) \/ said[t] = "Done" \/ AgentOf(t) \in beside]_vars
=============================================================================
