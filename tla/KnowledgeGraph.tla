----------------------------- MODULE KnowledgeGraph -----------------------------
(***************************************************************************)
(* Tags and links of the knowledge cards, in the life of an installation:   *)
(* first the stack on SQLite (db/operations.py, api/routes.py), in which    *)
(* dispersion (agents/dispersion.py) puts its new cards into the graph step *)
(* by step beside other ticks and people; then migrate_sqlite()             *)
(* (db/migrate_legacy.py) copies the rows into PostgreSQL, whose foreign    *)
(* keys SQLite did not have; then the research stack (api/research.py and   *)
(* the analyze node of orchestrator/workflow.py), one transaction a call.   *)
(*                                                                          *)
(* A row is its number, in order of insertion.  In both databases           *)
(* (name, parent) is unique, and so are (card, tag) and (from, to,          *)
(* relation), which makes card_tags and card_links sets.                    *)
(***************************************************************************)
EXTENDS Integers, FiniteSets, SequencesExt

CONSTANTS
    Names,      \* of tags
    Relations,  \* of links
    Related,    \* the symmetric one of them
    Agents,     \* ticks of dispersion that may run side by side
    Answers,    \* what one of them may find in the answers of the model
    Knowledge,  \* the cards a research run may find: tags of each
    MaxLevels,  \* levels of tags: 3
    MaxDepth,   \* what get_card_graph() cuts a depth to: 3
    MaxTags,    \* bound: rows of tags
    MaxCards,   \* bound: rows of wiki_cards
    MaxCalls    \* bound: calls of people, and research runs

\* What an answer asks for its first, its second, ... card: a tag, by the
\* names on the path to it, or a link to another card of the answer.
TagItems == [card : 1 .. MaxCards, path : Seq(Names)]
LinkItems == [card : 1 .. MaxCards, to : 1 .. MaxCards, relation : Relations]

ASSUME GraphConstants ==
    /\ Related \in Relations
    /\ Answers \subseteq Seq(TagItems \cup LinkItems)
    /\ Knowledge \subseteq Seq({n \in SUBSET Names : IsFiniteSet(n)})
    /\ {MaxLevels, MaxDepth} \subseteq Nat \ {0}
    /\ {MaxTags, MaxCards, MaxCalls} \subseteq Nat

VARIABLES
    stack,    \* "legacy" or "research"
    tag,      \* tags: name, parent (0 without), level
    cards,    \* number of wiki_cards
    cardTag,  \* card_tags: pairs of card and tag
    link,     \* card_links: from, to, relation
    agent,    \* where each tick of dispersion is in its answer
    renamed,  \* people have renamed a tag
    strayed,  \* people have named a tag that does not exist
    calls     \* calls of people, and research runs so far

graph == <<tag, cards, cardTag, link>>
slips == <<renamed, strayed>>
vars == <<stack, graph, agent, slips, calls>>

Tags == DOMAIN tag
Cards == 1 .. cards
TagRows == [name : Names, parent : Nat, level : Nat]

\* todo: items not yet done; at: parts of the first item's path that have
\* been found; parent: the tag of the last of them; missing: the next part
\* has been looked for in vain; cache: tag_cache.
AgentRows ==
    [todo : Seq(TagItems \cup LinkItems), at : Nat, parent : Nat,
     missing : BOOLEAN, cache : SUBSET (Nat \X Names \X Nat)]

TypeOK ==
    /\ stack \in {"legacy", "research"}
    /\ tag \in Seq(TagRows)
    /\ cards \in Nat
    /\ cardTag \subseteq Cards \X (Nat \ {0})
    /\ link \subseteq Cards \X Cards \X Relations
    /\ agent \in [Agents -> AgentRows]
    /\ renamed \in BOOLEAN
    /\ strayed \in BOOLEAN
    /\ calls \in 0 .. MaxCalls

Idle == [todo |-> <<>>, at |-> 0, parent |-> 0, missing |-> FALSE, cache |-> {}]

Init ==
    /\ stack = "legacy"
    /\ tag = <<>>
    /\ cards = 0
    /\ cardTag = {}
    /\ link = {}
    /\ agent = [a \in Agents |-> Idle]
    /\ renamed = FALSE
    /\ strayed = FALSE
    /\ calls = 0

-----------------------------------------------------------------------------
(* db/operations.py: the rows                                                *)

Exists(name, parent) ==
    \E i \in Tags : tag[i].name = name /\ tag[i].parent = parent
\* Mutant: every tag with a parent is of level 2.
LevelTwo(parent) == IF parent \in Tags THEN 2 ELSE 1
Level(parent) == IF parent \in Tags THEN tag[parent].level + 1 ELSE 1

\* create_tag(); a name twice under one parent violates the unique index.
Inserts(name, parent) ==
    /\ ~ Exists(name, parent)
    /\ Len(tag) < MaxTags
    /\ tag' = Append(tag, [name |-> name, parent |-> parent,
                           level |-> Level(parent)])

\* create_card_link(): the symmetric relation gets both directions.
WithLink(from, to, relation) ==
    LET reverse == IF relation = Related THEN {<<to, from, relation>>} ELSE {}
    IN IF <<from, to, relation>> \in link THEN link
       ELSE link \cup {<<from, to, relation>>} \cup reverse

Named(name) == {i \in Tags : tag[i].name = name}

\* get_tag_tree(): below the roots, round by round.
Below(from) ==
    LET round[n \in 0 .. Len(tag)] ==
            IF n = 0 THEN from
            ELSE LET above == round[n - 1]
                 IN {i \in Tags : tag[i].parent \in above}
    IN round
Tree == Below({i \in Tags : tag[i].parent = 0})

\* get_tag_descendants(): the rows of the recursive query.
Descendants(t) ==
    LET below == Below({t}) IN UNION {below[n] : n \in 0 .. Len(tag)}

\* Mutant: links are followed in their direction only.
Outgoing(from) == {l \in link : l[1] \in from}

\* get_link_graph(): breadth first, each card once; what is left at the end
\* are the nodes and edges.
Incident(from) == {l \in link : l[1] \in from \/ l[2] \in from}
Ends(links) == UNION {{l[1], l[2]} : l \in links}
LinkGraph(card, depth) ==
    LET search[n \in 0 .. depth] ==
            IF n = 0 THEN [visited |-> {}, queue |-> {card}, edges |-> {}]
            ELSE LET before == search[n - 1]
                     new == before.queue \ before.visited
                     found == Incident(new)
                 IN [visited |-> before.visited \cup new,
                     queue |-> Ends(found) \ new,
                     edges |-> before.edges \cup found]
        end == search[depth]
    IN [nodes |-> end.visited \cup Ends(end.edges), edges |-> end.edges]

-----------------------------------------------------------------------------
(* dispersion.py: _apply_knowledge_layer()                                   *)

Doing(a) == Head(agent[a].todo)
OnTag(a) == agent[a].todo # <<>> /\ "path" \in DOMAIN Doing(a)
Path(a) == SubSeq(Doing(a).path, 1, IF Len(Doing(a).path) < MaxLevels
                                    THEN Len(Doing(a).path) ELSE MaxLevels)
Part(a) == Path(a)[agent[a].at + 1]

\* On to the next part of the path; the tag is remembered.
GoesOn(a, i) ==
    agent' = [agent EXCEPT
        ![a].at = @ + 1, ![a].parent = i, ![a].missing = FALSE,
        ![a].cache = @ \cup {<<agent[a].parent, Part(a), i>>}]

\* On to the next item; what raised is logged and left out.
EndsItem(a) ==
    LET todo == Tail(agent[a].todo)
        cache == IF todo = <<>> THEN {} ELSE agent[a].cache
    IN agent' = [agent EXCEPT ![a] = [Idle EXCEPT !.todo = todo,
                                                  !.cache = cache]]

\* The cards that the items of an answer are about.
About(item) == IF "path" \in DOMAIN item THEN {item.card} ELSE {item.card, item.to}
CardsOf(answer) == UNION {About(answer[i]) : i \in DOMAIN answer}

\* An item, its cards counted from the first one of its answer.
Numbered(item) ==
    IF "path" \in DOMAIN item
    THEN [item EXCEPT !.card = @ + cards]
    ELSE [item EXCEPT !.card = @ + cards, !.to = @ + cards]

\* The cards of an answer have been stored; their items come one by one.
Start(a) ==
    /\ stack = "legacy"
    /\ agent[a].todo = <<>>
    /\ \E answer \in Answers :
       \E last \in CardsOf(answer) :
          /\ \A card \in CardsOf(answer) : card <= last
          /\ agent' = [agent EXCEPT ![a].todo =
                           [i \in DOMAIN answer |-> Numbered(answer[i])]]
          /\ cards' = cards + last
          /\ cards' <= MaxCards
    /\ UNCHANGED <<stack, tag, cardTag, link, slips, calls>>

\* A part of the path is taken from the cache, or found under its name,
\* wherever in the tree that is.
Find(a) ==
    LET cached == {k \in agent[a].cache :
                       k[1] = agent[a].parent /\ k[2] = Part(a)}
    IN /\ OnTag(a)
       /\ agent[a].at < Len(Path(a))
       /\ ~ agent[a].missing
       /\ \/ \E k \in cached : GoesOn(a, k[3])
          \/ /\ cached = {}
             /\ \E i \in Named(Part(a)) : GoesOn(a, i)
          \/ /\ cached = {}
             /\ Named(Part(a)) = {}
             /\ agent' = [agent EXCEPT ![a].missing = TRUE]
       /\ UNCHANGED <<stack, graph, slips, calls>>

\* Mutant: the part that cannot be created is left out, not the path.
CreateOrSkip(a) ==
    /\ OnTag(a)
    /\ agent[a].missing
    /\ \/ /\ Exists(Part(a), agent[a].parent)
          /\ agent' = [agent EXCEPT ![a].at = @ + 1, ![a].missing = FALSE]
          /\ UNCHANGED tag
       \/ /\ Inserts(Part(a), agent[a].parent)
          /\ GoesOn(a, Len(tag) + 1)
    /\ UNCHANGED <<stack, cards, cardTag, link, slips, calls>>

\* It is created under its parent; if somebody else has done so meanwhile the
\* path is given up.
Create(a) ==
    /\ OnTag(a)
    /\ agent[a].missing
    /\ \/ /\ Exists(Part(a), agent[a].parent)
          /\ EndsItem(a)
          /\ UNCHANGED tag
       \/ /\ Inserts(Part(a), agent[a].parent)
          /\ GoesOn(a, Len(tag) + 1)
    /\ UNCHANGED <<stack, cards, cardTag, link, slips, calls>>

\* The card gets the tag at the end of the path.
TagCard(a) ==
    /\ OnTag(a)
    /\ agent[a].at = Len(Path(a))
    /\ cardTag' = IF agent[a].parent = 0 THEN cardTag
                  ELSE cardTag \cup {<<Doing(a).card, agent[a].parent>>}
    /\ EndsItem(a)
    /\ UNCHANGED <<stack, tag, cards, link, slips, calls>>

LinkCards(a) ==
    /\ agent[a].todo # <<>>
    /\ ~ OnTag(a)
    /\ link' = IF Doing(a).card = Doing(a).to THEN link
               ELSE WithLink(Doing(a).card, Doing(a).to, Doing(a).relation)
    /\ EndsItem(a)
    /\ UNCHANGED <<stack, tag, cards, cardTag, slips, calls>>

-----------------------------------------------------------------------------
(* api/routes.py: people, in the legacy stack                                *)

Calls(in) ==
    /\ stack = in
    /\ calls < MaxCalls
    /\ calls' = calls + 1
    /\ UNCHANGED <<stack, agent>>

\* Neither the parent of a new tag nor a tag given to a card is looked up.
Strays(i) == strayed' = (strayed \/ i \notin Tags)

CreateTag(name, parent) ==
    /\ Calls("legacy")
    /\ Inserts(name, parent)
    /\ IF parent = 0 THEN UNCHANGED strayed ELSE Strays(parent)
    /\ UNCHANGED <<cards, cardTag, link, renamed>>

UpdateTag(i, name) ==
    /\ Calls("legacy")
    /\ ~ Exists(name, tag[i].parent)
    /\ tag' = [tag EXCEPT ![i].name = name]
    /\ renamed' = TRUE
    /\ UNCHANGED <<cards, cardTag, link, strayed>>

AddCardTag(card, i) ==
    /\ Calls("legacy")
    /\ cardTag' = cardTag \cup {<<card, i>>}
    /\ Strays(i)
    /\ UNCHANGED <<tag, cards, link, renamed>>

RemoveCardTag(card, i) ==
    /\ Calls("legacy")
    /\ cardTag' = cardTag \ {<<card, i>>}
    /\ UNCHANGED <<tag, cards, link, slips>>

\* Mutant: the target is not looked up.
CreateCardLinkUnchecked(card, to, relation) ==
    /\ Calls("legacy")
    /\ link' = WithLink(card, to, relation)
    /\ UNCHANGED <<tag, cards, cardTag, slips>>

\* Both cards have to exist; they may be the same.
CreateCardLink(card, to, relation) ==
    /\ Calls("legacy")
    /\ to \in Cards
    /\ link' = WithLink(card, to, relation)
    /\ UNCHANGED <<tag, cards, cardTag, slips>>

-----------------------------------------------------------------------------
(* migrate_legacy.py                                                         *)

\* The rows go in table by table, in the order of their numbers, and each
\* has to find what it refers to.
Migratable ==
    /\ \A i \in Tags : tag[i].parent < i
    /\ \A k \in cardTag : k[1] \in Cards /\ k[2] \in Tags
    /\ \A l \in link : l[1] \in Cards /\ l[2] \in Cards

Migrate ==
    /\ stack = "legacy"
    /\ \A a \in Agents : agent[a].todo = <<>>
    /\ Migratable
    /\ stack' = "research"
    /\ UNCHANGED <<graph, agent, slips, calls>>

-----------------------------------------------------------------------------
(* api/research.py; analyze() of orchestrator/workflow.py                    *)

MayBeParent(parent) ==
    parent = 0 \/ (parent \in Tags /\ tag[parent].level < MaxLevels)

CreateResearchTag(name, parent) ==
    /\ Calls("research")
    /\ MayBeParent(parent)
    /\ Inserts(name, parent)
    /\ UNCHANGED <<cards, cardTag, link, slips>>

\* All of them or, if one does not exist, none.
AssignTags(card, tags) ==
    /\ Calls("research")
    /\ tags \subseteq Tags
    /\ cardTag' = cardTag \cup ({card} \X tags)
    /\ UNCHANGED <<tag, cards, link, slips>>

\* One direction, whatever the relation.
AddLink(card, to, relation) ==
    /\ Calls("research")
    /\ card # to
    /\ to \in Cards
    /\ link' = link \cup {<<card, to, relation>>}
    /\ UNCHANGED <<tag, cards, cardTag, slips>>

\* Cards of a run with their tags, which are roots, and a link between each
\* two that share evidence; the lower number points to the higher one.
Analyze(found, sharing) ==
    LET names == UNION {found[c] : c \in DOMAIN found}
        new == SetToSeq({n \in names : ~ Exists(n, 0)})
        after == tag \o [k \in DOMAIN new |->
                            [name |-> new[k], parent |-> 0, level |-> 1]]
    IN /\ Calls("research")
       /\ cards + Len(found) <= MaxCards
       /\ Len(after) <= MaxTags
       /\ tag' = after
       /\ cards' = cards + Len(found)
       /\ cardTag' = cardTag \cup
              {k \in {cards + c : c \in DOMAIN found} \X DOMAIN after :
                  /\ after[k[2]].parent = 0
                  /\ after[k[2]].name \in found[k[1] - cards]}
       /\ link' = link \cup
              {<<cards + p[1], cards + p[2], Related>> :
                  p \in {q \in sharing \X sharing : q[1] < q[2]}}
       /\ UNCHANGED slips

Next ==
    \/ \E a \in Agents :
          Start(a) \/ Find(a) \/ Create(a) \/ TagCard(a) \/ LinkCards(a)
    \/ \E name \in Names, parent \in 0 .. Len(tag) + 1 : CreateTag(name, parent)
    \/ \E i \in Tags, name \in Names : UpdateTag(i, name)
    \/ \E card \in Cards, i \in 1 .. Len(tag) + 1 : AddCardTag(card, i)
    \/ \E k \in cardTag : RemoveCardTag(k[1], k[2])
    \/ \E card \in Cards, to \in 1 .. cards + 1, relation \in Relations :
          CreateCardLink(card, to, relation)
    \/ Migrate
    \/ \E name \in Names, parent \in 0 .. Len(tag) + 1 :
          CreateResearchTag(name, parent)
    \/ \E card \in Cards, tags \in SUBSET (1 .. Len(tag) + 1) :
          AssignTags(card, tags)
    \/ \E card \in Cards, to \in 1 .. cards + 1, relation \in Relations :
          AddLink(card, to, relation)
    \/ \E found \in Knowledge :
       \E sharing \in SUBSET (DOMAIN found) : Analyze(found, sharing)

Spec == Init /\ [][Next]_vars

-----------------------------------------------------------------------------
\* Whatever agents, people and runs add in whatever order, the tree shows every
\* tag, at one place, at the depth that its level says, and the descendants of a
\* tag are the tags that lead up to it, itself included; only a parent that did
\* not exist when it was named may spoil that.  (strayed is also set by such a tag
\* given to a card, which spoils nothing: the condition is a little stronger than
\* it need be.)
LeadsTo(i) ==
    LET up[n \in 0 .. Len(tag)] ==
            IF n = 0 THEN i
            ELSE LET below == up[n - 1]
                 IN IF below = 0 THEN 0 ELSE tag[below].parent
    IN {up[n] : n \in 0 .. Len(tag)}
TreeHasEveryTag ==
    ~ strayed =>
        LET tree == Tree
            leads == [i \in Tags |-> LeadsTo(i)]
        IN /\ \A i \in Tags :
                  {n \in 0 .. Len(tag) : i \in tree[n]} = {tag[i].level - 1}
           /\ \A t \in Tags : Descendants(t) = {i \in Tags : t \in leads[i]}

\* The graph around a card has the cards within a number of hops, and the
\* links of those that are nearer than that.
Hops ==
    {p \in Cards \X Cards :
        p[1] = p[2] \/ \E l \in link : {l[1], l[2]} = {p[1], p[2]}}
Within(card, n, hops) ==
    {w[n] : w \in {v \in [0 .. n -> Cards] :
                      /\ v[0] = card
                      /\ \A k \in 1 .. n : <<v[k - 1], v[k]>> \in hops}}
GraphIsNeighbourhood ==
    LET hops == Hops
    IN \A card \in Cards, depth \in 1 .. MaxDepth :
           LET near == Within(card, depth - 1, hops)
           IN LinkGraph(card, depth) =
                  [nodes |-> Within(card, depth, hops),
                   edges |-> {l \in link : {l[1], l[2]} \cap near # {}}]

\* Whatever agents do side by side, the tag a card is about to get has the
\* name its path ends with, and so have the tags on the way there; only a
\* tag renamed meanwhile does not.
TagsNameTheirPath ==
    \A a \in Agents : OnTag(a) /\ agent[a].at > 0 /\ ~ renamed =>
        agent[a].parent \in Named(Path(a)[agent[a].at])

\* What a row refers to exists, and a tag's parent is older than the tag, in
\* both stacks, unless people have named a tag that does not exist: the rows of
\* SQLite, where nothing enforces it, satisfy the foreign keys they meet in the
\* migration, in the order they are copied.  Once migrated they do in any case.
RowsRefer == Migratable \/ (strayed /\ stack = "legacy")
=============================================================================
