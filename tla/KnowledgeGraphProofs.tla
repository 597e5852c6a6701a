-------------------------- MODULE KnowledgeGraphProofs --------------------------
(***************************************************************************)
(* Theorems about KnowledgeGraph, for all names, relations, answers, agents *)
(* and bounds.                                                              *)
(***************************************************************************)
EXTENDS KnowledgeGraph, FiniteSetTheorems, SequenceTheorems,
        WellFoundedInduction, TLAPS

-----------------------------------------------------------------------------
(* The record of an agent, by itself.                                       *)

Working(me) == me.todo # <<>> /\ "path" \in DOMAIN Head(me.todo)
PathOf(me) ==
    SubSeq(Head(me.todo).path, 1, IF Len(Head(me.todo).path) < MaxLevels
                                  THEN Len(Head(me.todo).path) ELSE MaxLevels)

\* What an agent works with refers to cards and tags there are; it is within
\* its path, and has the right tags in its hands unless one has been renamed.
Refers(me) ==
    /\ \A i \in DOMAIN me.todo : About(me.todo[i]) \subseteq Cards
    /\ me.parent \in Tags \cup {0}
    /\ \A k \in me.cache : k[3] \in Tags
    /\ me.todo = <<>> => me.at = 0
    /\ Working(me) => me.at <= Len(PathOf(me))
    /\ me.missing => Working(me) /\ me.at < Len(PathOf(me))
    /\ ~ renamed =>
          /\ \A k \in me.cache : tag[k[3]].name = k[2]
          /\ Working(me) /\ me.at > 0 => /\ me.parent \in Tags
                                         /\ tag[me.parent].name = PathOf(me)[me.at]

AgentsRefer == \A a \in Agents : Refers(agent[a])

GraphInv ==
    /\ TypeOK
    /\ AgentsRefer
    /\ strayed \/ Migratable
    /\ stack = "research" => Migratable

-----------------------------------------------------------------------------
(* Induction over the natural numbers, by sets of them: what the recursive  *)
(* functions of the module compute is proved with it.                       *)

\* A set of natural numbers has a least element.
LEMMA LeastNatural ==
  ASSUME NEW T \in SUBSET Nat, T # {}
  PROVE  \E m \in T : \A n \in T : m <= n
<1> DEFINE less == OpToRel(<, Nat)
<1>1. \E m \in T : \A n \in T : ~ (<<n, m>> \in less)
  <2> HIDE DEF less
  <2>1. IsWellFoundedOn(less, Nat)
    BY NatLessThanWellFounded DEF less
  <2> QED
    BY <2>1, WFMin
<1>2. \A m, n \in Nat : <<n, m>> \in less <=> n < m
  BY DEF OpToRel
<1> HIDE DEF less
<1>3. PICK m \in T : \A n \in T : ~ (<<n, m>> \in less)
  BY <1>1
<1>4. ASSUME NEW n \in T
      PROVE  m <= n
  <2>1. m \in Nat /\ n \in Nat /\ ~ (<<n, m>> \in less)
    BY <1>3
  <2>2. ~ (n < m)
    BY <1>2, <2>1
  <2> QED
    BY <2>1, <2>2
<1> QED
  BY <1>4

\* A set with 0, and with n + 1 if with n, has all natural numbers.
LEMMA NaturalsCovered ==
  ASSUME NEW T \in SUBSET Nat, 0 \in T, \A n \in T : n + 1 \in T
  PROVE  T = Nat
<1>1. ASSUME Nat \ T # {}
      PROVE  FALSE
  <2>1. PICK m \in Nat \ T : \A n \in Nat \ T : m <= n
    BY <1>1, LeastNatural
  <2>2. m - 1 \in Nat /\ m - 1 \in T
    BY <2>1
  <2> QED
    BY <2>1, <2>2
<1> QED
  BY <1>1

\* The results of applying F up to N times to x.
Iterates(T, x, F, N) ==
    {g \in [0 .. N -> T] : g[0] = x /\ \A n \in 1 .. N : g[n] = F[g[n - 1]]}

\* A function can be applied again and again.
LEMMA Iterated ==
  ASSUME NEW T, NEW x \in T, NEW F \in [T -> T], NEW N \in Nat
  PROVE  Iterates(T, x, F, N) # {}
<1> DEFINE G == {n \in Nat : Iterates(T, x, F, n) # {}}
<1> USE DEF Iterates
<1>1. 0 \in G
  <2> DEFINE g == [k \in 0 .. 0 |-> x]
  <2>1. g \in Iterates(T, x, F, 0)
    OBVIOUS
  <2> QED
    BY <2>1
<1>2. ASSUME NEW n \in G
      PROVE  n + 1 \in G
  <2>1. PICK g \in [0 .. n -> T] :
            g[0] = x /\ \A k \in 1 .. n : g[k] = F[g[k - 1]]
    OBVIOUS
  <2> DEFINE h == [k \in 0 .. n + 1 |-> IF k = n + 1 THEN F[g[n]] ELSE g[k]]
  <2>2. h \in [0 .. n + 1 -> T]
    <3>1. F[g[n]] \in T
      BY <2>1
    <3> QED
      BY <2>1, <3>1
  <2>3. h[0] = x
    BY <2>1
  <2>4. ASSUME NEW k \in 1 .. n + 1
        PROVE  h[k] = F[h[k - 1]]
    <3>1. CASE k = n + 1
      BY <3>1
    <3>2. CASE k # n + 1
      BY <2>1, <3>2
    <3> QED
      BY <3>1, <3>2
  <2> HIDE DEF h
  <2> QED
    BY <2>2, <2>3, <2>4
<1>3. G = Nat
  <2> HIDE DEF G
  <2>1. G \in SUBSET Nat
    BY DEF G
  <2> QED
    BY <1>1, <1>2, <2>1, NaturalsCovered
<1> QED
  BY <1>3

-----------------------------------------------------------------------------
(* Items and their paths.                                                   *)

\* An item is about a tag or about a link.
LEMMA ItemKinds ==
  ASSUME NEW item \in TagItems \cup LinkItems
  PROVE  /\ "path" \in DOMAIN item <=> item \in TagItems
         /\ "path" \notin DOMAIN item <=> item \in LinkItems
         /\ item.card \in 1 .. MaxCards
<1>1. ASSUME item \in TagItems
      PROVE  /\ "path" \in DOMAIN item
             /\ item \notin LinkItems
             /\ item.card \in 1 .. MaxCards
  <2>1. DOMAIN item = {"card", "path"} /\ item.card \in 1 .. MaxCards
    BY <1>1 DEF TagItems
  <2>2. ASSUME item \in LinkItems PROVE FALSE
    <3>1. DOMAIN item = {"card", "to", "relation"}
      BY <2>2 DEF LinkItems
    <3> QED
      BY <2>1, <3>1
  <2> QED
    BY <2>1, <2>2
<1>2. ASSUME item \in LinkItems
      PROVE  "path" \notin DOMAIN item /\ item.card \in 1 .. MaxCards
  BY <1>2 DEF LinkItems
<1> QED
  BY <1>1, <1>2

\* The first items of what there is to do, and the rest.
LEMMA Todo ==
  ASSUME NEW todo \in Seq(TagItems \cup LinkItems), todo # <<>>
  PROVE  /\ Head(todo) \in TagItems \cup LinkItems
         /\ Head(todo) = todo[1] /\ 1 \in DOMAIN todo
         /\ Tail(todo) \in Seq(TagItems \cup LinkItems)
         /\ \A i \in DOMAIN Tail(todo) : i + 1 \in DOMAIN todo /\ Tail(todo)[i] = todo[i + 1]
  BY HeadTailProperties

\* A path is cut to a sequence of names.
LEMMA PathTyped ==
  ASSUME NEW me \in AgentRows, Working(me)
  PROVE  /\ PathOf(me) \in Seq(Names)
         /\ Len(PathOf(me)) \in Nat
         /\ \A i \in 1 .. Len(PathOf(me)) : PathOf(me)[i] \in Names
<1> DEFINE path == Head(me.todo).path
           n == IF Len(path) < MaxLevels THEN Len(path) ELSE MaxLevels
<1>1. path \in Seq(Names)
  <2>1. Head(me.todo) \in TagItems
    BY Todo, ItemKinds DEF Working, AgentRows
  <2> QED
    BY <2>1 DEF TagItems
<1>2. n \in Nat /\ n <= Len(path)
  <2>1. MaxLevels \in Nat
    BY GraphConstants
  <2>2. Len(path) \in Nat
    BY <1>1
  <2> QED
    BY <2>1, <2>2
<1>3. \A i \in 1 .. n : path[i] \in Names
  BY <1>1, <1>2
<1> HIDE DEF path, n
<1>4. SubSeq(path, 1, n) \in Seq(Names)
  BY <1>2, <1>3, SubSeqProperties
<1> QED
  BY <1>4 DEF PathOf, path, n

-----------------------------------------------------------------------------
(* What steps do to the rows.                                               *)

RowsTyped ==
    /\ tag \in Seq(TagRows)
    /\ cards \in Nat
    /\ cardTag \subseteq Cards \X (Nat \ {0})
    /\ link \subseteq Cards \X Cards \X Relations

\* No row of tags or cards goes away, and only people rename tags.
Grows ==
    /\ Tags \subseteq Tags'
    /\ cards <= cards'
    /\ renamed => renamed'
    /\ renamed' \/ \A i \in Tags : tag'[i].name = tag[i].name

\* Only people spoil the references, and only in the legacy stack.
KeepsReferences ==
    /\ strayed => strayed'
    /\ Migratable => Migratable' \/ (strayed' /\ stack = "legacy")

\* References of an agent stand while rows are only added.
LEMMA RefersKept ==
  ASSUME RowsTyped, RowsTyped', Grows, NEW me \in AgentRows, Refers(me)
  PROVE  Refers(me)'
<1>1. Cards \subseteq Cards'
  BY DEF Grows, Cards, RowsTyped
<1>2. \A i \in DOMAIN me.todo : About(me.todo[i]) \subseteq Cards'
  BY <1>1 DEF Refers
<1>3. /\ me.parent \in Tags' \cup {0}
      /\ \A k \in me.cache : k[3] \in Tags'
  BY DEF Refers, Grows
<1>4. ASSUME ~ renamed'
      PROVE  \A i \in Tags : tag'[i].name = tag[i].name
  BY <1>4 DEF Grows
<1>5. ASSUME ~ renamed'
      PROVE  /\ \A k \in me.cache : tag'[k[3]].name = k[2]
             /\ Working(me) /\ me.at > 0 =>
                   /\ me.parent \in Tags'
                   /\ tag'[me.parent].name = PathOf(me)[me.at]
  <2>1. /\ \A k \in me.cache : k[3] \in Tags /\ tag[k[3]].name = k[2]
        /\ Working(me) /\ me.at > 0 =>
              /\ me.parent \in Tags
              /\ tag[me.parent].name = PathOf(me)[me.at]
    BY <1>5 DEF Grows, Refers
  <2>2. \A i \in Tags : tag'[i].name = tag[i].name /\ i \in Tags'
    BY <1>4, <1>5 DEF Grows
  <2>3. \A k \in me.cache : tag'[k[3]].name = k[2]
    BY <2>1, <2>2
  <2>4. Working(me) /\ me.at > 0 =>
              /\ me.parent \in Tags'
              /\ tag'[me.parent].name = PathOf(me)[me.at]
    BY <2>1, <2>2
  <2> QED
    BY <2>3, <2>4
<1> QED
  BY <1>2, <1>3, <1>5 DEF Refers, Working, PathOf

\* The others' references stand whatever one agent turns to.
LEMMA AgentsKept ==
  ASSUME TypeOK, AgentsRefer, RowsTyped', Grows,
         NEW a \in Agents, NEW me \in AgentRows,
         agent' = [agent EXCEPT ![a] = me], Refers(me)'
  PROVE  agent' \in [Agents -> AgentRows] /\ AgentsRefer'
<1>1. agent \in [Agents -> AgentRows] /\ RowsTyped
  BY DEF TypeOK, RowsTyped
<1>2. ASSUME NEW b \in Agents
      PROVE  Refers(agent[b])'
  <2>1. CASE b = a
    <3>1. agent'[b] = me
      BY <1>1, <2>1
    <3> QED
      BY <3>1 DEF Refers, Working, PathOf
  <2>2. CASE b # a
    <3> DEFINE other == agent[b]
    <3>1. other \in AgentRows /\ Refers(other) /\ agent'[b] = other
      BY <1>1, <2>2 DEF AgentsRefer
    <3>2. PICK it \in AgentRows : it = other
      BY <3>1
    <3>3. Refers(it)'
      BY <1>1, <3>1, <3>2, RefersKept
    <3> QED
      BY <3>1, <3>2, <3>3 DEF Refers, Working, PathOf
  <2> QED
    BY <2>1, <2>2
<1> QED
  BY <1>1, <1>2 DEF AgentsRefer

\* Nobody is disturbed by rows that are added.
LEMMA NobodyDisturbed ==
  ASSUME TypeOK, AgentsRefer, RowsTyped', Grows, agent' = agent
  PROVE  agent' \in [Agents -> AgentRows] /\ AgentsRefer'
<1>1. agent \in [Agents -> AgentRows] /\ RowsTyped
  BY DEF TypeOK, RowsTyped
<1>2. ASSUME NEW b \in Agents
      PROVE  Refers(agent[b])'
  <2>1. PICK it \in AgentRows : it = agent[b]
    BY <1>1
  <2>2. Refers(it)'
    BY <1>1, <2>1, RefersKept DEF AgentsRefer
  <2> QED
    BY <2>1, <2>2 DEF Refers, Working, PathOf
<1> QED
  BY <1>1, <1>2 DEF AgentsRefer

\* A new tag comes after those there are.
LEMMA InsertsRows ==
  ASSUME RowsTyped, NEW name \in Names, NEW parent \in Nat, Inserts(name, parent)
  PROVE  /\ tag' \in Seq(TagRows)
         /\ Tags' = Tags \cup {Len(tag) + 1}
         /\ Len(tag) \in Nat
         /\ \A i \in Tags : tag'[i] = tag[i] /\ i <= Len(tag)
         /\ tag'[Len(tag) + 1].name = name
         /\ tag'[Len(tag) + 1].parent = parent
<1> DEFINE row == [name |-> name, parent |-> parent, level |-> Level(parent)]
<1>1. Level(parent) \in Nat
  <2>1. \A i \in Tags : tag[i] \in TagRows
    BY DEF RowsTyped, Tags
  <2>2. \A i \in Tags : tag[i].level \in Nat
    BY <2>1 DEF TagRows
  <2> QED
    BY <2>2 DEF Level
<1>2. row \in TagRows
  BY <1>1 DEF TagRows
<1>3. tag \in Seq(TagRows) /\ tag' = Append(tag, row)
  BY DEF RowsTyped, Inserts
<1>4. row.name = name /\ row.parent = parent
  OBVIOUS
<1> HIDE DEF row
<1>5. /\ tag' \in Seq(TagRows)
      /\ Len(tag') = Len(tag) + 1
      /\ Len(tag) \in Nat
      /\ tag'[Len(tag) + 1] = row
      /\ \A i \in 1 .. Len(tag) : tag'[i] = tag[i]
  BY <1>2, <1>3, AppendProperties
<1>6. Tags = 1 .. Len(tag) /\ Tags' = 1 .. Len(tag')
  BY <1>3, <1>5 DEF Tags
<1> QED
  BY <1>4, <1>5, <1>6

\* A tag under a tag there is, or under none, refers to an older one.
LEMMA InsertsKeeps ==
  ASSUME RowsTyped, NEW name \in Names, NEW parent \in Nat, Inserts(name, parent),
         UNCHANGED <<cards, cardTag, link, renamed>>, strayed => strayed',
         parent \in Tags \cup {0} \/ (strayed' /\ stack = "legacy")
  PROVE  RowsTyped' /\ Grows /\ KeepsReferences
<1>1. /\ tag' \in Seq(TagRows)
      /\ Tags' = Tags \cup {Len(tag) + 1}
      /\ Len(tag) \in Nat
      /\ \A i \in Tags : tag'[i] = tag[i] /\ i <= Len(tag)
      /\ tag'[Len(tag) + 1].parent = parent
  BY InsertsRows
<1>2. RowsTyped'
  BY <1>1 DEF RowsTyped, Cards
<1>3. Grows
  BY <1>1 DEF Grows, RowsTyped
<1>4. ASSUME Migratable, parent \in Tags \cup {0}
      PROVE  Migratable'
  <2>1. ASSUME NEW i \in Tags'
        PROVE  tag'[i].parent < i
    <3>1. CASE i \in Tags
      BY <1>1, <1>4, <3>1 DEF Migratable
    <3>2. CASE i = Len(tag) + 1
      <4>1. parent <= Len(tag)
        BY <1>1, <1>4
      <4> QED
        BY <1>1, <3>2, <4>1
    <3> QED
      BY <1>1, <3>1, <3>2
  <2>2. \A k \in cardTag' : k[1] \in Cards' /\ k[2] \in Tags'
    BY <1>1, <1>4 DEF Migratable, Cards
  <2>3. \A l \in link' : l[1] \in Cards' /\ l[2] \in Cards'
    BY <1>4 DEF Migratable, Cards
  <2> QED
    BY <2>1, <2>2, <2>3 DEF Migratable
<1> QED
  BY <1>2, <1>3, <1>4 DEF KeepsReferences

\* Steps that leave the tags alone.
LEMMA CardsKeep ==
  ASSUME RowsTyped, UNCHANGED <<tag, renamed>>, cards' \in Nat, cards <= cards',
         cardTag' \subseteq Cards' \X (Nat \ {0}),
         link' \subseteq Cards' \X Cards' \X Relations,
         strayed => strayed',
         \A k \in cardTag' \ cardTag : k[2] \in Tags \/ (strayed' /\ stack = "legacy")
  PROVE  RowsTyped' /\ Grows /\ KeepsReferences
<1>1. RowsTyped' /\ Grows
  BY DEF RowsTyped, Grows, Tags
<1>2. ASSUME Migratable, ~ (strayed' /\ stack = "legacy")
      PROVE  Migratable'
  <2>1. \A i \in Tags' : tag'[i].parent < i
    BY <1>2 DEF Migratable, Tags
  <2>2. \A k \in cardTag' : k[1] \in Cards' /\ k[2] \in Tags'
    BY <1>2 DEF Migratable, Tags
  <2>3. \A l \in link' : l[1] \in Cards' /\ l[2] \in Cards'
    OBVIOUS
  <2> QED
    BY <2>1, <2>2, <2>3 DEF Migratable
<1> QED
  BY <1>1, <1>2 DEF KeepsReferences

\* An update of a row's fields.
LEMMA RowUpdated ==
  ASSUME NEW todos, NEW numbers, NEW booleans, NEW caches,
         NEW me \in [todo : todos, at : numbers, parent : numbers,
                     missing : booleans, cache : caches],
         NEW at \in numbers, NEW parent \in numbers, NEW missing \in booleans,
         NEW cache \in caches
  PROVE  [me EXCEPT !.at = at, !.parent = parent, !.missing = missing, !.cache = cache]
         \in [todo : todos, at : numbers, parent : numbers,
              missing : booleans, cache : caches]
  OBVIOUS

LEMMA TodoUpdated ==
  ASSUME NEW todos, NEW numbers, NEW booleans, NEW caches,
         NEW me \in [todo : todos, at : numbers, parent : numbers,
                     missing : booleans, cache : caches],
         NEW todo \in todos
  PROVE  LET new == [me EXCEPT !.todo = todo]
         IN  /\ new \in [todo : todos, at : numbers, parent : numbers,
                         missing : booleans, cache : caches]
             /\ new.todo = todo /\ new.at = me.at /\ new.parent = me.parent
             /\ new.missing = me.missing /\ new.cache = me.cache
<1> DEFINE new == [me EXCEPT !.todo = todo]
<1>1. new \in [todo : todos, at : numbers, parent : numbers,
               missing : booleans, cache : caches]
  OBVIOUS
<1>2. /\ new.todo = todo /\ new.at = me.at /\ new.parent = me.parent
      /\ new.missing = me.missing /\ new.cache = me.cache
  OBVIOUS
<1> QED
  BY <1>1, <1>2

\* An agent goes on to a tag of the right name.
LEMMA GoesOnRefers ==
  ASSUME TypeOK, AgentsRefer, RowsTyped', Grows, NEW a \in Agents, OnTag(a),
         agent[a].at < Len(Path(a)), NEW i \in Nat, i \in Tags',
         renamed' \/ tag'[i].name = Part(a), GoesOn(a, i)
  PROVE  agent' \in [Agents -> AgentRows] /\ AgentsRefer'
<1>1. PICK me \in AgentRows : me = agent[a]
  BY DEF TypeOK
<1>2. Refers(me) /\ RowsTyped
  BY <1>1 DEF AgentsRefer, TypeOK, RowsTyped
<1> DEFINE part == PathOf(me)[me.at + 1]
           new == [me EXCEPT !.at = @ + 1, !.parent = i, !.missing = FALSE,
                             !.cache = @ \cup {<<me.parent, part, i>>}]
<1>3. /\ Working(me) /\ me.at < Len(PathOf(me)) /\ me.at \in Nat
      /\ renamed' \/ tag'[i].name = part
  BY <1>1 DEF OnTag, Doing, Path, Part, Working, PathOf, AgentRows
<1>4. part \in Names
  BY <1>3, PathTyped
<1>5. new \in AgentRows
  <2>1. me.cache \cup {<<me.parent, part, i>>} \in SUBSET (Nat \X Names \X Nat)
    BY <1>4 DEF AgentRows
  <2>2. me.at + 1 \in Nat
    BY <1>3
  <2> HIDE DEF part
  <2> QED
    BY <2>1, <2>2, RowUpdated DEF AgentRows
<1>6. agent' = [agent EXCEPT ![a] = new]
  BY <1>1 DEF GoesOn, Doing, Path, Part, PathOf, TypeOK
<1>7. Refers(me)'
  BY <1>2, RefersKept
<1>8. /\ new.todo = me.todo /\ new.at = me.at + 1 /\ new.parent = i
      /\ new.missing = FALSE /\ new.cache = me.cache \cup {<<me.parent, part, i>>}
  BY DEF AgentRows
<1>9. Refers(new)'
  <2> HIDE DEF new
  <2>1. new.todo # <<>> /\ Working(new) /\ PathOf(new) = PathOf(me)
    BY <1>3, <1>8 DEF Working, PathOf
  <2>2. PathOf(me)[me.at + 1] = part /\ Len(PathOf(me)) \in Nat
    BY <1>3, PathTyped
  <2>3. \A k \in new.cache : k[3] \in Tags'
    BY <1>7, <1>8 DEF Refers
  <2>4. ASSUME ~ renamed'
        PROVE  /\ \A k \in new.cache : tag'[k[3]].name = k[2]
               /\ tag'[new.parent].name = PathOf(new)[new.at]
    <3> HIDE DEF part
    <3>1. \A k \in me.cache : tag'[k[3]].name = k[2]
      BY <1>7, <2>4 DEF Refers
    <3> QED
      BY <1>3, <1>8, <2>1, <2>2, <2>4, <3>1
  <2>5. \A j \in DOMAIN new.todo : About(new.todo[j]) \subseteq Cards'
    BY <1>7, <1>8 DEF Refers
  <2>6. new.at <= Len(PathOf(new)) /\ new.at > 0
    BY <1>3, <1>8, <2>1, <2>2
  <2> QED
    BY <1>8, <2>1, <2>3, <2>4, <2>5, <2>6 DEF Refers
<1> QED
  <2> HIDE DEF new
  <2> QED
    BY <1>5, <1>6, <1>9, AgentsKept

\* An agent goes on to its next item.
LEMMA EndsItemRefers ==
  ASSUME TypeOK, AgentsRefer, RowsTyped', Grows, NEW a \in Agents,
         agent[a].todo # <<>>, EndsItem(a)
  PROVE  agent' \in [Agents -> AgentRows] /\ AgentsRefer'
<1>1. PICK me \in AgentRows : me = agent[a]
  BY DEF TypeOK
<1>2. Refers(me) /\ RowsTyped
  BY <1>1 DEF AgentsRefer, TypeOK, RowsTyped
<1> DEFINE todo == Tail(me.todo)
           cache == IF todo = <<>> THEN {} ELSE me.cache
           new == [Idle EXCEPT !.todo = todo, !.cache = cache]
<1>3. /\ todo \in Seq(TagItems \cup LinkItems)
      /\ \A i \in DOMAIN todo : i + 1 \in DOMAIN me.todo /\ todo[i] = me.todo[i + 1]
  BY <1>1, Todo DEF AgentRows
<1>4. cache \subseteq me.cache /\ cache \in SUBSET (Nat \X Names \X Nat)
  BY DEF AgentRows
<1>5. agent' = [agent EXCEPT ![a] = new]
  BY <1>1 DEF EndsItem
<1> HIDE DEF todo, cache
<1>6. /\ new \in AgentRows /\ new.todo = todo /\ new.at = 0 /\ new.parent = 0
      /\ new.missing = FALSE /\ new.cache = cache
  BY <1>3, <1>4 DEF AgentRows, Idle
<1>7. Refers(me)'
  BY <1>2, RefersKept
<1>8. Refers(new)'
  <2> HIDE DEF new
  <2>1. Working(new) => Len(PathOf(new)) \in Nat
    BY <1>6, PathTyped
  <2>2. \A i \in DOMAIN new.todo : About(new.todo[i]) \subseteq Cards'
    BY <1>3, <1>6, <1>7 DEF Refers
  <2>3. \A k \in new.cache : k \in me.cache
    BY <1>4, <1>6
  <2> QED
    BY <1>6, <1>7, <2>1, <2>2, <2>3 DEF Refers
<1> QED
  <2> HIDE DEF new
  <2> QED
    BY <1>5, <1>6, <1>8, AgentsKept

-----------------------------------------------------------------------------
(* The ticks of dispersion.                                                 *)

\* What a step of an agent has to keep.
AgentKeeps ==
    /\ agent' \in [Agents -> AgentRows] /\ AgentsRefer'
    /\ RowsTyped' /\ KeepsReferences

\* The cards of an answer are numbers, and an item is about some of them.
LEMMA AnswerCards ==
  ASSUME NEW answer \in Answers
  PROVE  /\ answer \in Seq(TagItems \cup LinkItems)
         /\ CardsOf(answer) \subseteq 1 .. MaxCards
         /\ \A i \in DOMAIN answer : About(answer[i]) \subseteq CardsOf(answer)
<1>1. answer \in Seq(TagItems \cup LinkItems)
  BY GraphConstants
<1>2. ASSUME NEW i \in DOMAIN answer
      PROVE  About(answer[i]) \subseteq 1 .. MaxCards
  <2>1. PICK item \in TagItems \cup LinkItems : item = answer[i]
    BY <1>1
  <2>2. CASE "path" \in DOMAIN item
    BY <2>1, <2>2, ItemKinds DEF About
  <2>3. CASE "path" \notin DOMAIN item
    <3>1. item \in LinkItems
      BY <2>3, ItemKinds
    <3>2. item.card \in 1 .. MaxCards /\ item.to \in 1 .. MaxCards
      BY <3>1 DEF LinkItems
    <3> QED
      BY <2>1, <2>3, <3>2 DEF About
  <2> QED
    BY <2>2, <2>3
<1> QED
  BY <1>1, <1>2 DEF CardsOf

\* An update of both ends of a link.
LEMMA LinkUpdated ==
  ASSUME NEW numbers, NEW relations,
         NEW item \in [card : numbers, to : numbers, relation : relations],
         NEW card \in numbers, NEW to \in numbers
  PROVE  LET new == [item EXCEPT !.card = card, !.to = to]
         IN  /\ new \in [card : numbers, to : numbers, relation : relations]
             /\ new.card = card /\ new.to = to
<1> DEFINE new == [item EXCEPT !.card = card, !.to = to]
<1>1. new \in [card : numbers, to : numbers, relation : relations]
  OBVIOUS
<1>2. new.card = card /\ new.to = to
  OBVIOUS
<1> QED
  BY <1>1, <1>2

\* An item with its cards counted on is an item about those cards.
LEMMA NumberedTyped ==
  ASSUME cards \in Nat, NEW item \in TagItems \cup LinkItems, NEW last \in Nat,
         \A card \in About(item) : card \in 1 .. MaxCards /\ card <= last,
         cards + last <= MaxCards
  PROVE  /\ Numbered(item) \in TagItems \cup LinkItems
         /\ About(Numbered(item)) \subseteq 1 .. (cards + last)
<1>1. MaxCards \in Nat
  BY GraphConstants
<1>2. CASE "path" \in DOMAIN item
  <2>1. item \in TagItems
    BY <1>2, ItemKinds
  <2> DEFINE new == [item EXCEPT !.card = @ + cards]
  <2>2. item.card \in 1 .. MaxCards /\ item.card <= last
    BY <1>2 DEF About
  <2>3. item.card + cards \in 1 .. MaxCards /\ item.card + cards \in 1 .. (cards + last)
    BY <1>1, <2>2
  <2>4. /\ new = [card |-> item.card + cards, path |-> item.path]
        /\ new \in TagItems
    BY <2>1, <2>3 DEF TagItems
  <2>5. Numbered(item) = new
    BY <1>2 DEF Numbered
  <2>6. About(new) = {item.card + cards}
    <3>1. new.card = item.card + cards /\ "path" \in DOMAIN new
      BY <2>4
    <3> QED
      BY <3>1 DEF About
  <2> QED
    BY <2>3, <2>4, <2>5, <2>6
<1>3. CASE "path" \notin DOMAIN item
  <2>1. item \in LinkItems
    BY <1>3, ItemKinds
  <2> DEFINE new == [item EXCEPT !.card = @ + cards, !.to = @ + cards]
  <2>2. /\ item.card \in 1 .. MaxCards /\ item.card <= last
        /\ item.to \in 1 .. MaxCards /\ item.to <= last
    BY <1>3 DEF About
  <2>3. /\ item.card + cards \in 1 .. MaxCards /\ item.card + cards \in 1 .. (cards + last)
        /\ item.to + cards \in 1 .. MaxCards /\ item.to + cards \in 1 .. (cards + last)
    BY <1>1, <2>2
  <2>4. new \in LinkItems /\ new.card = item.card + cards /\ new.to = item.to + cards
    BY <2>1, <2>3, LinkUpdated DEF LinkItems
  <2>5. Numbered(item) = new
    BY <1>3 DEF Numbered
  <2>6. About(new) = {item.card + cards, item.to + cards}
    <3> HIDE DEF new
    <3>1. "path" \notin DOMAIN new
      BY <2>4, ItemKinds
    <3> QED
      BY <2>4, <3>1 DEF About
  <2> QED
    BY <2>3, <2>4, <2>5, <2>6
<1> QED
  BY <1>2, <1>3

\* The items of an answer are about the cards just stored.
LEMMA StartKeeps ==
  ASSUME TypeOK, AgentsRefer, NEW a \in Agents, Start(a)
  PROVE  AgentKeeps
<1>0. PICK answer \in Answers : \E last \in CardsOf(answer) :
          /\ \A card \in CardsOf(answer) : card <= last
          /\ agent' = [agent EXCEPT ![a].todo =
                           [i \in DOMAIN answer |-> Numbered(answer[i])]]
          /\ cards' = cards + last
          /\ cards' <= MaxCards
  BY DEF Start
<1>1. PICK last \in CardsOf(answer) :
          /\ \A card \in CardsOf(answer) : card <= last
          /\ agent' = [agent EXCEPT ![a].todo =
                           [i \in DOMAIN answer |-> Numbered(answer[i])]]
          /\ cards' = cards + last
          /\ cards' <= MaxCards
  BY <1>0
<1>2. PICK me \in AgentRows : me = agent[a]
  BY DEF TypeOK
<1> DEFINE todo == [i \in DOMAIN answer |-> Numbered(answer[i])]
<1>3. /\ answer \in Seq(TagItems \cup LinkItems)
      /\ CardsOf(answer) \subseteq 1 .. MaxCards
      /\ \A i \in DOMAIN answer : About(answer[i]) \subseteq CardsOf(answer)
      /\ cards \in Nat /\ last \in Nat
  BY AnswerCards DEF TypeOK
<1>4. \A i \in DOMAIN answer : /\ Numbered(answer[i]) \in TagItems \cup LinkItems
                              /\ About(Numbered(answer[i])) \subseteq 1 .. (cards + last)
  <2>1. ASSUME NEW i \in DOMAIN answer
        PROVE  /\ answer[i] \in TagItems \cup LinkItems
               /\ \A card \in About(answer[i]) : card \in 1 .. MaxCards /\ card <= last
    BY <1>1, <1>3
  <2> QED
    BY <1>1, <1>3, <2>1, NumberedTyped
<1>5. todo \in Seq(TagItems \cup LinkItems)
  <2>1. DOMAIN answer = 1 .. Len(answer) /\ Len(answer) \in Nat
    BY <1>3
  <2> QED
    BY <1>4, <2>1
<1>6. \A i \in DOMAIN todo : About(todo[i]) \subseteq Cards'
  BY <1>1, <1>4 DEF Cards
<1> HIDE DEF todo
<1>7. PICK new \in AgentRows :
          /\ new = [me EXCEPT !.todo = todo]
          /\ new.todo = todo /\ new.at = me.at /\ new.parent = me.parent
          /\ new.missing = me.missing /\ new.cache = me.cache
  <2>1. /\ [me EXCEPT !.todo = todo] \in AgentRows
        /\ [me EXCEPT !.todo = todo].todo = todo
        /\ [me EXCEPT !.todo = todo].at = me.at
        /\ [me EXCEPT !.todo = todo].parent = me.parent
        /\ [me EXCEPT !.todo = todo].missing = me.missing
        /\ [me EXCEPT !.todo = todo].cache = me.cache
    BY <1>5, TodoUpdated DEF AgentRows
  <2> QED
    BY <2>1
<1>8. UNCHANGED <<tag, cardTag, link, renamed, strayed>>
  BY DEF Start, slips
<1>9. RowsTyped' /\ Grows /\ KeepsReferences
  <2>1. cards <= cards' /\ cards' \in Nat
    BY <1>1, <1>3
  <2>2. Cards \subseteq Cards'
    BY <1>3, <2>1 DEF Cards
  <2> QED
    BY <1>8, <2>1, <2>2, CardsKeep DEF TypeOK, RowsTyped
<1>10. Refers(me)'
  BY <1>2, <1>9, RefersKept DEF AgentsRefer, TypeOK, RowsTyped
<1>11. me.todo = <<>> /\ me.at = 0 /\ ~ me.missing
  BY <1>2 DEF Start, AgentsRefer, Refers, Working
<1>12. Refers(new)'
  <2>1. Working(new) => Len(PathOf(new)) \in Nat
    BY <1>7, PathTyped
  <2>2. \A i \in DOMAIN new.todo : About(new.todo[i]) \subseteq Cards'
    BY <1>6, <1>7
  <2> QED
    BY <1>7, <1>10, <1>11, <2>1, <2>2 DEF Refers
<1>13. agent' = [agent EXCEPT ![a] = new]
  BY <1>1, <1>2, <1>7 DEF todo
<1>14. agent' \in [Agents -> AgentRows] /\ AgentsRefer'
  BY <1>9, <1>12, <1>13, AgentsKept
<1> QED
  BY <1>9, <1>14 DEF AgentKeeps

\* A step that leaves the rows alone.
LEMMA RowsAlone ==
  ASSUME TypeOK, UNCHANGED <<tag, cards, cardTag, link, renamed, strayed>>
  PROVE  RowsTyped' /\ Grows /\ KeepsReferences
<1>1. \A k \in cardTag' \ cardTag : FALSE
  OBVIOUS
<1> QED
  BY <1>1, CardsKeep DEF TypeOK, RowsTyped, Cards

\* A part found has the right name: looked up, or looked up before.
LEMMA FindKeeps ==
  ASSUME TypeOK, AgentsRefer, NEW a \in Agents, Find(a)
  PROVE  AgentKeeps
<1> DEFINE cached == {k \in agent[a].cache :
                         k[1] = agent[a].parent /\ k[2] = Part(a)}
<1>1. /\ OnTag(a) /\ agent[a].at < Len(Path(a)) /\ ~ agent[a].missing
      /\ UNCHANGED <<tag, cards, cardTag, link, renamed, strayed>>
  BY DEF Find, graph, slips
<1>2. RowsTyped' /\ Grows /\ KeepsReferences
  BY <1>1, RowsAlone
<1>3. Tags' = Tags /\ Tags \subseteq Nat
  BY <1>1 DEF Tags, TypeOK
<1>4. PICK me \in AgentRows : me = agent[a]
  BY DEF TypeOK
<1>5. ASSUME NEW k \in cached, GoesOn(a, k[3])
      PROVE  AgentKeeps
  <2>1. k[3] \in Tags /\ (~ renamed => tag[k[3]].name = Part(a))
    BY DEF AgentsRefer, Refers
  <2> QED
    BY <1>1, <1>2, <1>3, <1>5, <2>1, GoesOnRefers DEF AgentKeeps
<1>6. ASSUME NEW i \in Named(Part(a)), GoesOn(a, i)
      PROVE  AgentKeeps
  <2>1. i \in Tags /\ tag[i].name = Part(a)
    BY DEF Named
  <2> QED
    BY <1>1, <1>2, <1>3, <1>6, <2>1, GoesOnRefers DEF AgentKeeps
<1>7. ASSUME agent' = [agent EXCEPT ![a].missing = TRUE]
      PROVE  AgentKeeps
  <2> DEFINE new == [me EXCEPT !.missing = TRUE]
  <2>1. /\ new \in AgentRows /\ new.todo = me.todo /\ new.at = me.at
        /\ new.parent = me.parent /\ new.missing = TRUE /\ new.cache = me.cache
    BY DEF AgentRows
  <2>2. Refers(me)'
    BY <1>2, <1>4, RefersKept DEF AgentsRefer, TypeOK, RowsTyped
  <2>3. Working(me) /\ me.at < Len(PathOf(me))
    BY <1>1, <1>4 DEF OnTag, Doing, Path, Working, PathOf
  <2>4. agent' = [agent EXCEPT ![a] = new]
    BY <1>4, <1>7
  <2> HIDE DEF new
  <2>5. Refers(new)'
    BY <2>1, <2>2, <2>3 DEF Refers, Working, PathOf
  <2> QED
    BY <1>2, <2>1, <2>4, <2>5, AgentsKept DEF AgentKeeps
<1>8. \/ \E k \in cached : GoesOn(a, k[3])
      \/ \E i \in Named(Part(a)) : GoesOn(a, i)
      \/ agent' = [agent EXCEPT ![a].missing = TRUE]
  BY DEF Find
<1> QED
  BY <1>5, <1>6, <1>7, <1>8

\* The part an agent is at is a name.
LEMMA PartTyped ==
  ASSUME TypeOK, NEW a \in Agents, OnTag(a), agent[a].at < Len(Path(a))
  PROVE  Part(a) \in Names
<1>1. PICK me \in AgentRows : me = agent[a]
  BY DEF TypeOK
<1>2. /\ Working(me) /\ me.at < Len(PathOf(me)) /\ me.at \in Nat
      /\ Part(a) = PathOf(me)[me.at + 1]
  BY <1>1 DEF OnTag, Doing, Path, Part, Working, PathOf, AgentRows
<1> QED
  BY <1>2, PathTyped

\* What an agent creates has the right name, and its parent is older.
LEMMA CreateKeeps ==
  ASSUME TypeOK, AgentsRefer, NEW a \in Agents, Create(a)
  PROVE  AgentKeeps
<1>1. /\ OnTag(a) /\ agent[a].missing /\ agent[a].todo # <<>>
      /\ UNCHANGED <<cards, cardTag, link, renamed, strayed>>
  BY DEF Create, slips, OnTag
<1>2. PICK me \in AgentRows : me = agent[a]
  BY DEF TypeOK
<1>3. Refers(me)
  BY <1>2 DEF AgentsRefer
<1>4. agent[a].at < Len(Path(a)) /\ agent[a].parent \in Tags \cup {0}
  BY <1>1, <1>2, <1>3 DEF Refers, Doing, Path, PathOf
<1>5. CASE EndsItem(a) /\ UNCHANGED tag
  <2>1. RowsTyped' /\ Grows /\ KeepsReferences
    BY <1>1, <1>5, RowsAlone
  <2> QED
    BY <1>1, <1>5, <2>1, EndsItemRefers DEF AgentKeeps
<1>6. CASE Inserts(Part(a), agent[a].parent) /\ GoesOn(a, Len(tag) + 1)
  <2> DEFINE name == Part(a)
             parent == agent[a].parent
  <2>1. name \in Names /\ parent \in Nat /\ RowsTyped
    BY <1>1, <1>2, <1>4, PartTyped DEF AgentRows, TypeOK, RowsTyped
  <2>2. Inserts(name, parent) /\ parent \in Tags \cup {0}
    BY <1>4, <1>6
  <2> HIDE DEF name, parent
  <2>3. RowsTyped' /\ Grows /\ KeepsReferences
    BY <1>1, <2>1, <2>2, InsertsKeeps
  <2>4. /\ Len(tag) + 1 \in Nat /\ Len(tag) + 1 \in Tags'
        /\ tag'[Len(tag) + 1].name = name
    BY <2>1, <2>2, InsertsRows
  <2>5. tag'[Len(tag) + 1].name = Part(a)
    BY <2>4 DEF name
  <2> QED
    BY <1>1, <1>4, <1>6, <2>3, <2>4, <2>5, GoesOnRefers DEF AgentKeeps
<1> QED
  BY <1>5, <1>6 DEF Create

\* The tag that a card gets exists.
LEMMA TagCardKeeps ==
  ASSUME TypeOK, AgentsRefer, NEW a \in Agents, TagCard(a)
  PROVE  AgentKeeps
<1>1. /\ OnTag(a) /\ agent[a].todo # <<>> /\ EndsItem(a)
      /\ UNCHANGED <<tag, cards, link, renamed, strayed>>
  BY DEF TagCard, slips, OnTag
<1>2. PICK me \in AgentRows : me = agent[a]
  BY DEF TypeOK
<1>3. Refers(me) /\ RowsTyped
  BY <1>2 DEF AgentsRefer, TypeOK, RowsTyped
<1>4. Doing(a).card \in Cards /\ agent[a].parent \in Tags \cup {0}
  <2>1. Head(me.todo) = me.todo[1] /\ 1 \in DOMAIN me.todo
    BY <1>1, <1>2, Todo DEF AgentRows
  <2>2. About(Head(me.todo)) \subseteq Cards
    BY <1>3, <2>1 DEF Refers
  <2> QED
    BY <1>1, <1>2, <1>3, <2>2 DEF About, Refers, Doing, OnTag
<1>5. /\ cardTag' \subseteq cardTag \cup {<<Doing(a).card, agent[a].parent>>}
      /\ agent[a].parent = 0 => cardTag' = cardTag
  BY DEF TagCard
<1>6. Tags \subseteq Nat \ {0}
  BY <1>3 DEF Tags, RowsTyped
<1>7. RowsTyped' /\ Grows /\ KeepsReferences
  <2>1. /\ cardTag' \subseteq Cards \X (Nat \ {0})
        /\ \A k \in cardTag' \ cardTag : k[2] \in Tags
    <3>1. PICK card \in Cards : card = Doing(a).card
      BY <1>4
    <3>2. PICK parent \in Tags \cup {0} : parent = agent[a].parent
      BY <1>4
    <3>3. CASE parent = 0
      BY <1>3, <1>5, <3>2, <3>3 DEF RowsTyped
    <3>4. CASE parent \in Tags
      <4>1. cardTag' \subseteq cardTag \cup {<<card, parent>>}
        BY <1>5, <3>1, <3>2
      <4>2. <<card, parent>> \in Cards \X (Nat \ {0})
        BY <1>6, <3>4
      <4>3. cardTag \subseteq Cards \X (Nat \ {0})
        BY <1>3 DEF RowsTyped
      <4> QED
        BY <3>4, <4>1, <4>2, <4>3
    <3> QED
      BY <3>3, <3>4
  <2>2. Cards' = Cards /\ cards' \in Nat /\ cards <= cards'
    BY <1>1, <1>3 DEF Cards, RowsTyped
  <2>3. link' \subseteq Cards' \X Cards' \X Relations
    BY <1>1, <1>3, <2>2 DEF RowsTyped
  <2> QED
    BY <1>1, <1>3, <2>1, <2>2, <2>3, CardsKeep
<1> QED
  BY <1>1, <1>7, EndsItemRefers DEF AgentKeeps

\* A link between cards there are.
LEMMA WithLinkTyped ==
  ASSUME RowsTyped, NEW from \in Cards, NEW to \in Cards, NEW relation \in Relations
  PROVE  WithLink(from, to, relation) \subseteq Cards \X Cards \X Relations
  BY DEF RowsTyped, WithLink

\* A step that changes links only, between cards there are.
LEMMA LinksKeep ==
  ASSUME TypeOK, UNCHANGED <<tag, cards, cardTag, renamed, strayed>>,
         link' \subseteq Cards \X Cards \X Relations
  PROVE  RowsTyped' /\ Grows /\ KeepsReferences
<1>1. RowsTyped /\ Cards' = Cards /\ cards' \in Nat /\ cards <= cards'
  BY DEF TypeOK, RowsTyped, Cards
<1>2. cardTag' \subseteq Cards' \X (Nat \ {0}) /\ cardTag' \ cardTag = {}
  BY <1>1 DEF RowsTyped
<1> QED
  BY <1>1, <1>2, CardsKeep

\* The cards that are linked exist.
LEMMA LinkCardsKeeps ==
  ASSUME TypeOK, AgentsRefer, NEW a \in Agents, LinkCards(a)
  PROVE  AgentKeeps
<1>1. /\ ~ OnTag(a) /\ agent[a].todo # <<>> /\ EndsItem(a)
      /\ UNCHANGED <<tag, cards, cardTag, renamed, strayed>>
  BY DEF LinkCards, slips
<1>2. PICK me \in AgentRows : me = agent[a]
  BY DEF TypeOK
<1>3. Refers(me) /\ RowsTyped
  BY <1>2 DEF AgentsRefer, TypeOK, RowsTyped
<1> DEFINE item == Head(me.todo)
<1>4. /\ item \in TagItems \cup LinkItems
      /\ item = me.todo[1] /\ 1 \in DOMAIN me.todo
  BY <1>1, <1>2, Todo DEF AgentRows
<1>5. Doing(a) = item /\ "path" \notin DOMAIN item
  BY <1>1, <1>2 DEF Doing, OnTag
<1>6. item \in LinkItems
  BY <1>4, <1>5, ItemKinds
<1>7. item.card \in Cards /\ item.to \in Cards
  <2>1. About(item) \subseteq Cards
    BY <1>3, <1>4 DEF Refers
  <2> QED
    BY <1>5, <2>1 DEF About
<1>8. item.relation \in Relations
  BY <1>6 DEF LinkItems
<1>9. link' = link \/ link' = WithLink(item.card, item.to, item.relation)
  BY <1>5 DEF LinkCards
<1> HIDE DEF item
<1>10. link' \subseteq Cards \X Cards \X Relations
  BY <1>3, <1>7, <1>8, <1>9, WithLinkTyped DEF RowsTyped
<1>11. RowsTyped' /\ Grows /\ KeepsReferences
  BY <1>1, <1>10, LinksKeep
<1> QED
  BY <1>1, <1>11, EndsItemRefers DEF AgentKeeps

-----------------------------------------------------------------------------
(* People and research runs.                                                *)

\* What a step of somebody else has to keep.
OtherKeeps == agent' = agent /\ RowsTyped' /\ Grows /\ KeepsReferences

\* A parent that does not exist is noted.
LEMMA CreateTagKeeps ==
  ASSUME TypeOK, NEW name \in Names, NEW parent \in 0 .. Len(tag) + 1,
         CreateTag(name, parent)
  PROVE  OtherKeeps
<1>1. /\ Inserts(name, parent) /\ stack = "legacy" /\ agent' = agent
      /\ UNCHANGED <<cards, cardTag, link, renamed>>
      /\ strayed' = strayed \/ strayed' = (strayed \/ parent \notin Tags)
      /\ parent \in Tags \cup {0} \/ strayed'
  BY DEF CreateTag, Calls, Strays
<1>2. RowsTyped /\ parent \in Nat
  BY DEF TypeOK, RowsTyped
<1>3. strayed => strayed'
  BY <1>1
<1> QED
  BY <1>1, <1>2, <1>3, InsertsKeeps DEF OtherKeeps

\* An update of a tag's name.
LEMMA NameUpdated ==
  ASSUME NEW names, NEW numbers,
         NEW row \in [name : names, parent : numbers, level : numbers], NEW name \in names
  PROVE  LET new == [row EXCEPT !.name = name]
         IN  /\ new \in [name : names, parent : numbers, level : numbers]
             /\ new.parent = row.parent
  OBVIOUS

\* A new name leaves a tag where it is.
LEMMA UpdateTagKeeps ==
  ASSUME TypeOK, NEW i \in Tags, NEW name \in Names, UpdateTag(i, name)
  PROVE  OtherKeeps
<1>1. /\ tag' = [tag EXCEPT ![i].name = name] /\ renamed' = TRUE /\ agent' = agent
      /\ UNCHANGED <<cards, cardTag, link, strayed>>
  BY DEF UpdateTag, Calls
<1>2. tag \in Seq(TagRows) /\ tag[i] \in TagRows
  BY DEF TypeOK, Tags
<1> DEFINE new == [tag[i] EXCEPT !.name = name]
<1>3. new \in TagRows /\ new.parent = tag[i].parent
  BY <1>2, NameUpdated DEF TagRows
<1>4. tag' = [tag EXCEPT ![i] = new]
  BY <1>1
<1> HIDE DEF new
<1>5. /\ tag' \in Seq(TagRows) /\ Tags' = Tags
      /\ \A j \in Tags : tag'[j].parent = tag[j].parent
  BY <1>2, <1>3, <1>4 DEF Tags
<1>6. RowsTyped'
  BY <1>1, <1>5 DEF TypeOK, RowsTyped, Cards
<1>7. Grows
  BY <1>1, <1>5 DEF Grows, TypeOK
<1>8. KeepsReferences
  BY <1>1, <1>5 DEF KeepsReferences, Migratable, Cards
<1> QED
  BY <1>1, <1>6, <1>7, <1>8 DEF OtherKeeps

\* A tag that does not exist is noted.
LEMMA AddCardTagKeeps ==
  ASSUME TypeOK, NEW card \in Cards, NEW i \in 1 .. Len(tag) + 1, AddCardTag(card, i)
  PROVE  OtherKeeps
<1>1. /\ stack = "legacy" /\ agent' = agent
      /\ cardTag' = cardTag \cup {<<card, i>>}
      /\ strayed' = (strayed \/ i \notin Tags)
      /\ UNCHANGED <<tag, cards, link, renamed>>
  BY DEF AddCardTag, Calls, Strays
<1>2. RowsTyped /\ Cards' = Cards /\ cards' \in Nat /\ cards <= cards'
  BY <1>1 DEF TypeOK, RowsTyped, Cards
<1>3. i \in Nat \ {0}
  BY DEF TypeOK
<1>4. /\ cardTag' \subseteq Cards' \X (Nat \ {0})
      /\ \A k \in cardTag' \ cardTag : k[2] = i
      /\ link' \subseteq Cards' \X Cards' \X Relations
  BY <1>1, <1>2, <1>3 DEF RowsTyped
<1> QED
  BY <1>1, <1>2, <1>4, CardsKeep DEF OtherKeeps

LEMMA RemoveCardTagKeeps ==
  ASSUME TypeOK, NEW k \in cardTag, RemoveCardTag(k[1], k[2])
  PROVE  OtherKeeps
<1>1. /\ agent' = agent /\ cardTag' \subseteq cardTag
      /\ UNCHANGED <<tag, cards, link, renamed, strayed>>
  BY DEF RemoveCardTag, Calls, slips
<1>2. RowsTyped /\ Cards' = Cards /\ cards' \in Nat /\ cards <= cards'
  BY <1>1 DEF TypeOK, RowsTyped, Cards
<1>3. /\ cardTag' \subseteq Cards' \X (Nat \ {0})
      /\ cardTag' \ cardTag = {}
      /\ link' \subseteq Cards' \X Cards' \X Relations
  BY <1>1, <1>2 DEF RowsTyped
<1> QED
  BY <1>1, <1>2, <1>3, CardsKeep DEF OtherKeeps

\* Both ends of a link have been looked up.
LEMMA CreateCardLinkKeeps ==
  ASSUME TypeOK, NEW card \in Cards, NEW to, NEW relation \in Relations,
         CreateCardLink(card, to, relation)
  PROVE  OtherKeeps
<1>1. /\ agent' = agent /\ to \in Cards
      /\ link' = WithLink(card, to, relation)
      /\ UNCHANGED <<tag, cards, cardTag, renamed, strayed>>
  BY DEF CreateCardLink, Calls, slips
<1>2. RowsTyped
  BY DEF TypeOK, RowsTyped
<1> QED
  BY <1>1, <1>2, WithLinkTyped, LinksKeep DEF OtherKeeps

LEMMA AddLinkKeeps ==
  ASSUME TypeOK, NEW card \in Cards, NEW to, NEW relation \in Relations,
         AddLink(card, to, relation)
  PROVE  OtherKeeps
<1>1. /\ agent' = agent /\ to \in Cards
      /\ link' = link \cup {<<card, to, relation>>}
      /\ UNCHANGED <<tag, cards, cardTag, renamed, strayed>>
  BY DEF AddLink, Calls, slips
<1>2. link' \subseteq Cards \X Cards \X Relations
  BY <1>1 DEF TypeOK
<1> QED
  BY <1>1, <1>2, LinksKeep DEF OtherKeeps

LEMMA CreateResearchTagKeeps ==
  ASSUME TypeOK, NEW name \in Names, NEW parent \in 0 .. Len(tag) + 1,
         CreateResearchTag(name, parent)
  PROVE  OtherKeeps
<1>1. /\ Inserts(name, parent) /\ agent' = agent
      /\ UNCHANGED <<cards, cardTag, link, renamed, strayed>>
      /\ parent \in Tags \cup {0}
  BY DEF CreateResearchTag, Calls, MayBeParent, slips
<1>2. RowsTyped /\ parent \in Nat
  BY DEF TypeOK, RowsTyped
<1> QED
  BY <1>1, <1>2, InsertsKeeps DEF OtherKeeps

\* The tags assigned have been looked up.
LEMMA AssignTagsKeeps ==
  ASSUME TypeOK, NEW card \in Cards, NEW tags, AssignTags(card, tags)
  PROVE  OtherKeeps
<1>1. /\ agent' = agent /\ tags \subseteq Tags
      /\ cardTag' = cardTag \cup ({card} \X tags)
      /\ UNCHANGED <<tag, cards, link, renamed, strayed>>
  BY DEF AssignTags, Calls, slips
<1>2. RowsTyped /\ Cards' = Cards /\ cards' \in Nat /\ cards <= cards'
  BY <1>1 DEF TypeOK, RowsTyped, Cards
<1>3. Tags \subseteq Nat \ {0}
  BY DEF Tags, TypeOK
<1>4. /\ cardTag' \subseteq Cards' \X (Nat \ {0})
      /\ \A k \in cardTag' \ cardTag : k[2] \in Tags
      /\ link' \subseteq Cards' \X Cards' \X Relations
  BY <1>1, <1>2, <1>3 DEF RowsTyped
<1> QED
  BY <1>1, <1>2, <1>4, CardsKeep DEF OtherKeeps

\* A finite set can be listed.
LEMMA Listed ==
  ASSUME NEW S, IsFiniteSet(S)
  PROVE  /\ SetToSeq(S) \in Seq(S)
         /\ \A x \in S : \E i \in DOMAIN SetToSeq(S) : SetToSeq(S)[i] = x
<1> DEFINE n == Cardinality(S)
<1>1. n \in Nat /\ ExistsBijection(1 .. n, S)
  BY FS_CardinalityType
<1>2. \E f \in [1 .. n -> S] : IsInjective(f)
  BY <1>1 DEF ExistsBijection, Bijection, Injection, IsInjective
<1>3. SetToSeq(S) = CHOOSE f \in [1 .. n -> S] : IsInjective(f)
  BY DEF SetToSeq
<1> HIDE DEF n
<1>4. SetToSeq(S) \in [1 .. n -> S] /\ IsInjective(SetToSeq(S))
  BY <1>2, <1>3
<1>5. SetToSeq(S) \in Seq(S)
  BY <1>1, <1>4
<1> DEFINE f == SetToSeq(S)
<1>6. f \in Injection(1 .. n, S)
  BY <1>4 DEF Injection, IsInjective
<1>7. Cardinality(1 .. n) = n /\ IsFiniteSet(1 .. n)
  BY <1>1, FS_Interval
<1>8. f \in Surjection(1 .. n, S)
  BY <1>6, <1>7, FS_Injection DEF n
<1> QED
  BY <1>4, <1>5, <1>8 DEF Surjection

\* The cards of an answer and their tags.
LEMMA FoundTyped ==
  ASSUME NEW found \in Knowledge
  PROVE  /\ Len(found) \in Nat /\ DOMAIN found = 1 .. Len(found)
         /\ \A c \in DOMAIN found : found[c] \subseteq Names /\ IsFiniteSet(found[c])
<1> DEFINE sets == {n \in SUBSET Names : IsFiniteSet(n)}
<1>1. Knowledge \subseteq Seq(sets)
  BY GraphConstants
<1>2. \A n \in sets : n \subseteq Names /\ IsFiniteSet(n)
  OBVIOUS
<1> HIDE DEF sets
<1>3. found \in Seq(sets)
  BY <1>1
<1> QED
  BY <1>2, <1>3

\* The tags that a research run adds are roots.
LEMMA AnalyzeRows ==
  ASSUME TypeOK, NEW found \in Knowledge, NEW sharing \in SUBSET (DOMAIN found),
         Analyze(found, sharing)
  PROVE  /\ tag' \in Seq(TagRows)
         /\ Tags \subseteq Tags'
         /\ \A i \in Tags : tag'[i] = tag[i]
         /\ \A i \in Tags' \ Tags : tag'[i].parent = 0 /\ tag'[i].level = 1 /\ i > 0
<1> DEFINE names == UNION {found[c] : c \in DOMAIN found}
           fresh == {n \in names : ~ Exists(n, 0)}
           new == SetToSeq(fresh)
           row == [k \in DOMAIN new |-> [name |-> new[k], parent |-> 0, level |-> 1]]
           after == tag \o row
<1>1. tag' = after
  BY DEF Analyze
<1>2. /\ Len(found) \in Nat /\ DOMAIN found = 1 .. Len(found)
      /\ \A c \in DOMAIN found : found[c] \subseteq Names /\ IsFiniteSet(found[c])
  BY FoundTyped
<1>3. IsFiniteSet(names) /\ names \subseteq Names
  <2>1. IsFiniteSet(DOMAIN found)
    BY <1>2, FS_Interval
  <2> DEFINE each == {found[c] : c \in DOMAIN found}
  <2>2. IsFiniteSet(each)
    <3> DEFINE f == [c \in DOMAIN found |-> found[c]]
    <3>1. f \in Surjection(DOMAIN found, each)
      BY DEF Surjection
    <3> HIDE DEF each, f
    <3> QED
      BY <2>1, <3>1, FS_Surjection
  <2>3. \A n \in each : IsFiniteSet(n) /\ n \subseteq Names
    BY <1>2
  <2> HIDE DEF each
  <2>4. IsFiniteSet(UNION each) /\ UNION each \subseteq Names
    BY <2>2, <2>3, FS_UNION
  <2> QED
    BY <2>4 DEF each
<1>4. new \in Seq(Names)
  <2>1. fresh \subseteq names
    OBVIOUS
  <2>2. IsFiniteSet(fresh) /\ fresh \subseteq Names
    BY <1>3, <2>1, FS_Subset
  <2> HIDE DEF fresh
  <2> QED
    BY <2>2, Listed
<1> HIDE DEF names, fresh, new
<1>5. /\ DOMAIN new = 1 .. Len(new) /\ Len(new) \in Nat
      /\ row \in Seq(TagRows) /\ Len(row) = Len(new)
      /\ \A k \in 1 .. Len(row) : row[k].parent = 0 /\ row[k].level = 1
  <2>1. /\ DOMAIN new = 1 .. Len(new) /\ Len(new) \in Nat
        /\ \A k \in DOMAIN new : new[k] \in Names
    BY <1>4
  <2>2. \A k \in DOMAIN new : /\ row[k] \in TagRows
                             /\ row[k].parent = 0 /\ row[k].level = 1
    BY <2>1 DEF TagRows
  <2>3. row \in [1 .. Len(new) -> TagRows]
    BY <2>1, <2>2
  <2> HIDE DEF row
  <2> QED
    BY <2>1, <2>2, <2>3
<1> HIDE DEF row
<1>6. tag \in Seq(TagRows) /\ Len(tag) \in Nat
  BY DEF TypeOK
<1>7. /\ after \in Seq(TagRows) /\ Len(after) = Len(tag) + Len(row)
      /\ \A i \in 1 .. Len(after) :
             after[i] = IF i <= Len(tag) THEN tag[i] ELSE row[i - Len(tag)]
  <2>1. row \in Seq(TagRows) /\ tag \in Seq(TagRows)
    BY <1>5, <1>6
  <2> QED
    BY <2>1, ConcatProperties
<1> HIDE DEF after
<1>8. /\ Tags = 1 .. Len(tag) /\ Tags' = 1 .. Len(tag')
      /\ tag' \in Seq(TagRows) /\ Len(tag') = Len(tag) + Len(row)
  BY <1>1, <1>6, <1>7 DEF Tags
<1>9. /\ Tags \subseteq Tags'
      /\ \A i \in Tags : tag'[i] = tag[i]
      /\ \A i \in Tags' \ Tags : tag'[i].parent = 0 /\ tag'[i].level = 1 /\ i > 0
  <2>1. \A i \in Tags : i \in 1 .. Len(after) /\ i <= Len(tag)
    BY <1>5, <1>7, <1>8
  <2>2. ASSUME NEW i \in Tags' \ Tags
        PROVE  tag'[i].parent = 0 /\ tag'[i].level = 1 /\ i > 0
    <3>1. i \in 1 .. Len(after) /\ ~ (i <= Len(tag)) /\ i - Len(tag) \in 1 .. Len(row)
      BY <1>1, <1>5, <1>6, <1>7, <1>8
    <3>2. after[i] = row[i - Len(tag)]
      BY <1>7, <3>1
    <3> QED
      BY <1>1, <1>5, <3>1, <3>2
  <2> QED
    BY <1>1, <1>7, <1>8, <2>1, <2>2
<1> QED
  BY <1>8, <1>9

\* What a research run refers to is what it has just found or looked up.
LEMMA AnalyzeKeeps ==
  ASSUME TypeOK, NEW found \in Knowledge, NEW sharing \in SUBSET (DOMAIN found),
         Analyze(found, sharing)
  PROVE  OtherKeeps
<1> DEFINE tagged == {k \in {cards + c : c \in DOMAIN found} \X DOMAIN tag' :
                         /\ tag'[k[2]].parent = 0
                         /\ tag'[k[2]].name \in found[k[1] - cards]}
           linked == {<<cards + p[1], cards + p[2], Related>> :
                         p \in {q \in sharing \X sharing : q[1] < q[2]}}
<1>1. /\ agent' = agent /\ UNCHANGED <<renamed, strayed>>
      /\ cards' = cards + Len(found)
      /\ cardTag' = cardTag \cup tagged /\ link' = link \cup linked
  BY DEF Analyze, Calls, slips
<1>2. Len(found) \in Nat /\ DOMAIN found = 1 .. Len(found)
  BY FoundTyped
<1>3. /\ tag' \in Seq(TagRows)
      /\ Tags \subseteq Tags'
      /\ \A i \in Tags : tag'[i] = tag[i]
      /\ \A i \in Tags' \ Tags : tag'[i].parent = 0 /\ i > 0
  BY AnalyzeRows
<1>4. RowsTyped
  BY DEF TypeOK, RowsTyped
<1>5. /\ cards' \in Nat /\ cards <= cards' /\ Cards \subseteq Cards'
      /\ \A c \in DOMAIN found : cards + c \in Cards'
  BY <1>1, <1>2, <1>4 DEF RowsTyped, Cards
<1>6. tagged \subseteq Cards' \X Tags'
  BY <1>5 DEF Tags
<1>7. linked \subseteq Cards' \X Cards' \X Relations
  BY <1>5, GraphConstants
<1> HIDE DEF tagged, linked
<1>8. cardTag' \subseteq Cards' \X (Nat \ {0})
  <2>1. Tags' \subseteq Nat \ {0}
    BY <1>3 DEF Tags
  <2> QED
    BY <1>1, <1>4, <1>5, <1>6, <2>1 DEF RowsTyped
<1>9. link' \subseteq Cards' \X Cards' \X Relations
  BY <1>1, <1>4, <1>5, <1>7 DEF RowsTyped
<1>10. RowsTyped' /\ Grows
  BY <1>1, <1>3, <1>5, <1>8, <1>9 DEF RowsTyped, Grows
<1>11. ASSUME Migratable
       PROVE  Migratable'
  <2>1. \A i \in Tags' : tag'[i].parent < i
    BY <1>3, <1>11 DEF Migratable
  <2>2. \A k \in cardTag' : k[1] \in Cards' /\ k[2] \in Tags'
    BY <1>1, <1>3, <1>5, <1>6, <1>11 DEF Migratable
  <2>3. \A l \in link' : l[1] \in Cards' /\ l[2] \in Cards'
    BY <1>9
  <2> QED
    BY <2>1, <2>2, <2>3 DEF Migratable
<1> QED
  BY <1>1, <1>10, <1>11 DEF OtherKeeps, KeepsReferences

-----------------------------------------------------------------------------
(* The invariant.                                                           *)

LEMMA InitGraph == Init => GraphInv
<1> SUFFICES ASSUME Init PROVE GraphInv
  OBVIOUS
<1>1. /\ tag = <<>> /\ tag \in Seq(TagRows) /\ Tags = {}
      /\ cards = 0 /\ cardTag = {} /\ link = {}
  BY DEF Init, Tags
<1>2. /\ Idle \in AgentRows /\ Idle.todo = <<>> /\ Idle.at = 0 /\ Idle.parent = 0
      /\ Idle.missing = FALSE /\ Idle.cache = {}
  BY DEF Idle, AgentRows
<1>3. Refers(Idle)
  <2>1. DOMAIN Idle.todo = {} /\ ~ Working(Idle)
    BY <1>2 DEF Working
  <2> HIDE DEF Idle
  <2> QED
    BY <1>2, <2>1 DEF Refers
<1>4. \A a \in Agents : agent[a] = Idle
  BY DEF Init
<1>5. MaxCalls \in Nat
  BY GraphConstants
<1>6. TypeOK
  <2>1. agent \in [Agents -> AgentRows]
    BY <1>2 DEF Init
  <2>2. /\ calls \in 0 .. MaxCalls /\ cards \in Nat
        /\ stack \in {"legacy", "research"} /\ renamed \in BOOLEAN /\ strayed \in BOOLEAN
    <3>1. /\ calls = 0 /\ cards = 0 /\ stack = "legacy"
          /\ renamed = FALSE /\ strayed = FALSE
      BY DEF Init
    <3>2. 0 \in 0 .. MaxCalls
      BY <1>5
    <3>3. calls \in 0 .. MaxCalls /\ cards \in Nat /\ stack \in {"legacy", "research"}
      BY <3>1, <3>2
    <3>4. renamed \in BOOLEAN /\ strayed \in BOOLEAN
      BY <3>1
    <3> QED
      BY <3>3, <3>4
  <2>3. cardTag \subseteq Cards \X (Nat \ {0}) /\ link \subseteq Cards \X Cards \X Relations
    BY <1>1
  <2> QED
    BY <1>1, <2>1, <2>2, <2>3 DEF TypeOK
<1>7. AgentsRefer
  BY <1>3, <1>4 DEF AgentsRefer
<1>8. Migratable
  BY <1>1 DEF Migratable
<1> QED
  BY <1>6, <1>7, <1>8 DEF GraphInv

\* Every step is one of an agent or of somebody else.
LEMMA StepKeeps ==
  ASSUME GraphInv, [Next]_vars
  PROVE  \/ /\ AgentKeeps
            /\ stack' = stack
         \/ /\ OtherKeeps
            /\ stack' = stack \/ (Migratable /\ Migratable')
<1>1. TypeOK /\ AgentsRefer
  BY DEF GraphInv
<1>2. ASSUME NEW a \in Agents, Start(a) \/ Find(a) \/ Create(a) \/ TagCard(a) \/ LinkCards(a)
      PROVE  AgentKeeps /\ stack' = stack
  BY <1>1, <1>2, StartKeeps, FindKeeps, CreateKeeps, TagCardKeeps, LinkCardsKeeps
  DEF Start, Find, Create, TagCard, LinkCards
<1>3. ASSUME NEW name \in Names, NEW parent \in 0 .. Len(tag) + 1,
             CreateTag(name, parent) \/ CreateResearchTag(name, parent)
      PROVE  OtherKeeps /\ stack' = stack
  BY <1>1, <1>3, CreateTagKeeps, CreateResearchTagKeeps
  DEF CreateTag, CreateResearchTag, Calls
<1>4. ASSUME NEW i \in Tags, NEW name \in Names, UpdateTag(i, name)
      PROVE  OtherKeeps /\ stack' = stack
  BY <1>1, <1>4, UpdateTagKeeps DEF UpdateTag, Calls
<1>5. ASSUME NEW card \in Cards, NEW i \in 1 .. Len(tag) + 1, AddCardTag(card, i)
      PROVE  OtherKeeps /\ stack' = stack
  BY <1>1, <1>5, AddCardTagKeeps DEF AddCardTag, Calls
<1>6. ASSUME NEW k \in cardTag, RemoveCardTag(k[1], k[2])
      PROVE  OtherKeeps /\ stack' = stack
  BY <1>1, <1>6, RemoveCardTagKeeps DEF RemoveCardTag, Calls
<1>7. ASSUME NEW card \in Cards, NEW to \in 1 .. cards + 1, NEW relation \in Relations,
             CreateCardLink(card, to, relation) \/ AddLink(card, to, relation)
      PROVE  OtherKeeps /\ stack' = stack
  BY <1>1, <1>7, CreateCardLinkKeeps, AddLinkKeeps DEF CreateCardLink, AddLink, Calls
<1>8. ASSUME Migrate
      PROVE  OtherKeeps /\ Migratable /\ Migratable'
  <2>1. /\ UNCHANGED <<tag, cards, cardTag, link, renamed, strayed>> /\ agent' = agent
        /\ Migratable
    BY <1>8 DEF Migrate, graph, slips
  <2>2. Migratable'
    BY <2>1 DEF Migratable, Tags, Cards
  <2> QED
    BY <1>1, <2>1, <2>2, RowsAlone DEF OtherKeeps
<1>9. ASSUME NEW card \in Cards, NEW tags \in SUBSET (1 .. Len(tag) + 1),
             AssignTags(card, tags)
      PROVE  OtherKeeps /\ stack' = stack
  BY <1>1, <1>9, AssignTagsKeeps DEF AssignTags, Calls
<1>10. ASSUME NEW found \in Knowledge, NEW sharing \in SUBSET (DOMAIN found),
             Analyze(found, sharing)
      PROVE  OtherKeeps /\ stack' = stack
  BY <1>1, <1>10, AnalyzeKeeps DEF Analyze, Calls
<1>11. ASSUME UNCHANGED vars
       PROVE  OtherKeeps /\ stack' = stack
  BY <1>1, <1>11, RowsAlone DEF vars, graph, slips, OtherKeeps
<1> QED
  BY <1>2, <1>3, <1>4, <1>5, <1>6, <1>7, <1>8, <1>9, <1>10, <1>11 DEF Next

LEMMA StepGraph == GraphInv /\ [Next]_vars => GraphInv'
<1> SUFFICES ASSUME GraphInv, [Next]_vars PROVE GraphInv'
  OBVIOUS
<1>1. TypeOK /\ AgentsRefer
  BY DEF GraphInv
<1>2. \/ /\ AgentKeeps
         /\ stack' = stack
      \/ /\ OtherKeeps
         /\ stack' = stack \/ (Migratable /\ Migratable')
  BY StepKeeps
<1>3. agent' \in [Agents -> AgentRows] /\ AgentsRefer' /\ RowsTyped' /\ KeepsReferences
  BY <1>1, <1>2, NobodyDisturbed DEF AgentKeeps, OtherKeeps
<1>4. /\ stack' \in {"legacy", "research"}
      /\ renamed' \in BOOLEAN /\ strayed' \in BOOLEAN /\ calls' \in 0 .. MaxCalls
  <2>1. MaxCalls \in Nat /\ calls \in 0 .. MaxCalls /\ stack \in {"legacy", "research"}
        /\ renamed \in BOOLEAN /\ strayed \in BOOLEAN
    BY <1>1, GraphConstants DEF TypeOK
  <2>2. /\ stack' = stack \/ stack' = "research"
        /\ calls' = calls \/ (calls < MaxCalls /\ calls' = calls + 1)
    BY DEF Next, vars, Start, Find, Create, TagCard, LinkCards, CreateTag, UpdateTag,
           AddCardTag, RemoveCardTag, CreateCardLink, Migrate, CreateResearchTag,
           AssignTags, AddLink, Analyze, Calls
  <2>3. renamed' \in BOOLEAN
    BY <2>1 DEF Next, vars, slips, Start, Find, Create, TagCard, LinkCards, CreateTag,
           UpdateTag, AddCardTag, RemoveCardTag, CreateCardLink, Migrate,
           CreateResearchTag, AssignTags, AddLink, Analyze
  <2>4. strayed' \in BOOLEAN
    BY <2>1, Zenon DEF Next, vars, slips, Start, Find, Create, TagCard, LinkCards, CreateTag,
           UpdateTag, AddCardTag, RemoveCardTag, CreateCardLink, Migrate,
           CreateResearchTag, AssignTags, AddLink, Analyze, Strays
  <2> QED
    BY <2>1, <2>2, <2>3, <2>4
<1>5. TypeOK'
  BY <1>3, <1>4 DEF TypeOK, RowsTyped
<1>6. stack' = stack \/ Migratable'
  BY <1>2
<1>7. strayed' \/ Migratable'
  BY <1>3 DEF GraphInv, KeepsReferences
<1>8. stack' = "research" => Migratable'
  BY <1>3, <1>6 DEF GraphInv, KeepsReferences
<1> QED
  BY <1>3, <1>5, <1>7, <1>8 DEF GraphInv

LEMMA GraphInvariant == Spec => []GraphInv
  BY InitGraph, StepGraph, PTL DEF Spec

\* The rows and the agents of the knowledge graph are well typed.
THEOREM GraphTyped == Spec => []TypeOK
<1>1. GraphInv => TypeOK
  BY DEF GraphInv
<1> QED
  BY <1>1, GraphInvariant, PTL

\* The rows of SQLite, where nothing enforces it, can be migrated unless people
\* have named a tag that does not exist; after the migration they refer to
\* rows there are in any case.
THEOREM RowsAlwaysRefer == Spec => []RowsRefer
<1>1. GraphInv => RowsRefer
  BY DEF GraphInv, TypeOK, RowsRefer
<1> QED
  BY <1>1, GraphInvariant, PTL

\* However many agents work on however many paths, the tags they hold have the
\* names of their paths, unless one is renamed.
THEOREM TagsAlwaysNameTheirPath == Spec => []TagsNameTheirPath
<1>1. ASSUME GraphInv, NEW a \in Agents, OnTag(a), agent[a].at > 0, ~ renamed
      PROVE  agent[a].parent \in Named(Path(a)[agent[a].at])
  <2>1. Refers(agent[a]) /\ Working(agent[a]) /\ Path(a) = PathOf(agent[a])
    BY <1>1 DEF GraphInv, AgentsRefer, OnTag, Doing, Path, PathOf, Working
  <2> QED
    BY <1>1, <2>1 DEF Refers, Named
<1>2. GraphInv => TagsNameTheirPath
  BY <1>1 DEF TagsNameTheirPath
<1> QED
  BY <1>2, GraphInvariant, PTL

-----------------------------------------------------------------------------
(* The tree of tags.                                                        *)

\* The rounds of the query are computed one from the other.
LEMMA BelowRounds ==
  ASSUME TypeOK, NEW from \in SUBSET Tags
  PROVE  /\ Below(from) \in [0 .. Len(tag) -> SUBSET Tags]
         /\ Below(from)[0] = from
         /\ \A n \in 1 .. Len(tag) :
               Below(from)[n] = {i \in Tags : tag[i].parent \in Below(from)[n - 1]}
<1> DEFINE N == Len(tag)
           T == SUBSET Tags
           F == [s \in T |-> {i \in Tags : tag[i].parent \in s}]
           Is(f) == f = [n \in 0 .. N |->
                            IF n = 0 THEN from
                            ELSE {i \in Tags : tag[i].parent \in f[n - 1]}]
<1>1. Below(from) = CHOOSE f : Is(f)
  BY DEF Below
<1>2. N \in Nat
  BY DEF TypeOK
<1>3. PICK g \in [0 .. N -> T] : g[0] = from /\ \A n \in 1 .. N : g[n] = F[g[n - 1]]
  <2>1. F \in [T -> T] /\ from \in T
    OBVIOUS
  <2> HIDE DEF F, N, T
  <2>2. Iterates(T, from, F, N) # {}
    BY <1>2, <2>1, Iterated
  <2> QED
    BY <2>2 DEF Iterates
<1>4. Is(g)
  <2>1. ASSUME NEW n \in 0 .. N
        PROVE  g[n] = IF n = 0 THEN from ELSE {i \in Tags : tag[i].parent \in g[n - 1]}
    <3>1. CASE n # 0
      <4>1. n \in 1 .. N /\ n - 1 \in 0 .. N
        BY <1>2, <3>1
      <4>2. g[n] = F[g[n - 1]] /\ g[n - 1] \in T
        BY <1>3, <4>1
      <4> QED
        BY <3>1, <4>2
    <3> QED
      BY <1>3, <3>1
  <2>2. g = [n \in 0 .. N |-> g[n]]
    OBVIOUS
  <2> QED
    BY <2>1, <2>2
<1>5. Is(Below(from))
  <2> HIDE DEF Is
  <2> QED
    BY <1>1, <1>4
<1>6. ASSUME NEW n \in 1 .. N
      PROVE  Below(from)[n] = {i \in Tags : tag[i].parent \in Below(from)[n - 1]}
  <2>1. PICK b : b = Below(from)
    OBVIOUS
  <2>2. b = [k \in 0 .. N |-> IF k = 0 THEN from
                              ELSE {i \in Tags : tag[i].parent \in b[k - 1]}]
    BY <1>5, <2>1
  <2>3. n \in 0 .. N /\ n # 0
    BY <1>2
  <2> HIDE DEF N
  <2>4. b[n] = {i \in Tags : tag[i].parent \in b[n - 1]}
    BY <2>2, <2>3
  <2> QED
    BY <2>1, <2>4
<1>7. Below(from)[0] = from
  BY <1>2, <1>5
<1>8. ASSUME NEW n \in 0 .. N
      PROVE  Below(from)[n] \in SUBSET Tags
  BY <1>6, <1>7
<1> QED
  BY <1>5, <1>6, <1>7, <1>8

\* A tag has the level of its place.
Leveled ==
    \A i \in Tags :
        tag[i].level = IF tag[i].parent = 0 THEN 1 ELSE tag[tag[i].parent].level + 1

\* Each tag is in one round: that of its level.
LEMMA TreeShows ==
  ASSUME TypeOK, Migratable, Leveled, NEW i \in Tags
  PROVE  {n \in 0 .. Len(tag) : i \in Tree[n]} = {tag[i].level - 1}
<1> DEFINE N == Len(tag)
           roots == {j \in Tags : tag[j].parent = 0}
           Right(j) == /\ tag[j].level \in 1 .. j
                       /\ {n \in 0 .. N : j \in Tree[n]} = {tag[j].level - 1}
           wrong == {j \in Tags : ~ Right(j)}
<1>1. /\ N \in Nat /\ Tags = 1 .. N
      /\ \A j \in Tags : tag[j].parent \in Nat /\ tag[j].level \in Nat
      /\ \A j \in Tags : tag[j].parent < j
  <2>1. tag \in Seq(TagRows)
    BY DEF TypeOK
  <2>2. \A j \in Tags : tag[j] \in TagRows
    BY <2>1 DEF Tags
  <2> QED
    BY <2>1, <2>2 DEF Tags, TagRows, Migratable
<1>2. /\ Tree \in [0 .. N -> SUBSET Tags]
      /\ Tree[0] = roots
      /\ \A n \in 1 .. N : Tree[n] = {j \in Tags : tag[j].parent \in Tree[n - 1]}
  BY BelowRounds DEF Tree
<1> HIDE DEF N
<1>3. ASSUME NEW j \in Tags, \A k \in Tags : k < j => Right(k)
      PROVE  Right(j)
  <2>1. CASE tag[j].parent = 0
    <3>1. tag[j].level = 1 /\ j \in Tree[0] /\ j \in 1 .. N
      BY <1>1, <1>2, <2>1 DEF Leveled
    <3>2. ASSUME NEW n \in 1 .. N
          PROVE  j \notin Tree[n]
      <4>1. Tree[n - 1] \subseteq Tags
        BY <1>1, <1>2
      <4>2. 0 \notin Tags
        BY <1>1
      <4> QED
        BY <1>2, <2>1, <4>1, <4>2
    <3>3. {n \in 0 .. N : j \in Tree[n]} = {0}
      BY <1>1, <3>1, <3>2
    <3> QED
      BY <1>1, <3>1, <3>3
  <2>2. CASE tag[j].parent # 0
    <3> DEFINE p == tag[j].parent
    <3>1. p \in Tags /\ p < j /\ tag[j].level = tag[p].level + 1
      BY <1>1, <2>2 DEF Leveled
    <3>2. /\ tag[p].level \in 1 .. p
          /\ \A n \in 0 .. N : p \in Tree[n] <=> n = tag[p].level - 1
      <4>1. Right(p)
        BY <1>3, <3>1
      <4> HIDE DEF p
      <4>2. \A n \in 0 .. N : n \in {k \in 0 .. N : p \in Tree[k]} <=> n = tag[p].level - 1
        BY <4>1
      <4> QED
        BY <4>1, <4>2
    <3>3. j \notin Tree[0]
      BY <1>2, <2>2
    <3>4. ASSUME NEW n \in 1 .. N
          PROVE  j \in Tree[n] <=> n = tag[p].level
      <4>1. n - 1 \in 0 .. N
        BY <1>1
      <4>2. j \in Tree[n] <=> p \in Tree[n - 1]
        BY <1>2
      <4>3. p \in Tree[n - 1] <=> n - 1 = tag[p].level - 1
        BY <3>2, <4>1
      <4> QED
        BY <1>1, <3>1, <4>2, <4>3
    <3>5. tag[p].level \in 1 .. N /\ tag[j].level \in 1 .. j
      BY <1>1, <3>1, <3>2
    <3>6. {n \in 0 .. N : j \in Tree[n]} = {tag[p].level}
      <4>1. ASSUME NEW n \in 0 .. N
            PROVE  j \in Tree[n] <=> n = tag[p].level
        <5>1. CASE n = 0
          BY <3>3, <3>5, <5>1
        <5>2. CASE n # 0
          BY <1>1, <3>4, <5>2
        <5> QED
          BY <5>1, <5>2
      <4> QED
        BY <1>1, <3>5, <4>1
    <3> QED
      BY <1>1, <3>1, <3>5, <3>6
  <2> QED
    BY <2>1, <2>2
<1>4. ASSUME wrong # {}
      PROVE  FALSE
  <2>1. wrong \in SUBSET Nat
    BY <1>1
  <2>2. PICK j \in wrong : \A k \in wrong : j <= k
    <3> HIDE DEF wrong
    <3> QED
      BY <1>4, <2>1, LeastNatural
  <2>3. \A k \in Tags : k < j => Right(k)
    <3> HIDE DEF Right
    <3>1. \A k \in Tags : ~ Right(k) => j <= k
      BY <2>2
    <3>2. j \in Nat /\ Tags \subseteq Nat
      BY <1>1, <2>1
    <3> QED
      BY <3>1, <3>2
  <2> HIDE DEF Right
  <2> QED
    BY <1>3, <2>2, <2>3
<1> QED
  BY <1>4 DEF N

\* From a tag, or none, to its parent.
Up == [x \in Tags \cup {0} |-> IF x = 0 THEN 0 ELSE tag[x].parent]

\* The ways up from a tag.
WaysUp(i) == Iterates(Tags \cup {0}, i, Up, Len(tag))

\* Parents are tags there are.
LEMMA UpTyped ==
  ASSUME TypeOK, Migratable
  PROVE  /\ Up \in [Tags \cup {0} -> Tags \cup {0}]
         /\ Len(tag) \in Nat /\ Tags = 1 .. Len(tag)
         /\ \A i \in Tags : Up[i] = tag[i].parent /\ Up[i] < i
<1>1. tag \in Seq(TagRows) /\ Len(tag) \in Nat /\ Tags = 1 .. Len(tag)
  BY DEF TypeOK, Tags
<1>2. ASSUME NEW i \in Tags
      PROVE  tag[i].parent \in Tags \cup {0} /\ tag[i].parent < i
  <2>1. tag[i] \in TagRows
    BY <1>1
  <2>2. tag[i].parent \in Nat /\ tag[i].parent < i
    BY <2>1 DEF TagRows, Migratable
  <2> QED
    BY <1>1, <2>2
<1> QED
  BY <1>1, <1>2 DEF Up

\* The tags that a tag leads to are those on a way up.
LEMMA LeadsToWay ==
  ASSUME TypeOK, Migratable, NEW i \in Tags
  PROVE  \E up \in WaysUp(i) : LeadsTo(i) = {up[n] : n \in 0 .. Len(tag)}
<1> DEFINE N == Len(tag)
           T == Tags \cup {0}
           Is(f) == f = [n \in 0 .. N |->
                            IF n = 0 THEN i
                            ELSE IF f[n - 1] = 0 THEN 0 ELSE tag[f[n - 1]].parent]
           up == CHOOSE f : Is(f)
<1>1. LeadsTo(i) = {up[n] : n \in 0 .. N}
  BY DEF LeadsTo
<1>2. Up \in [T -> T] /\ N \in Nat /\ i \in T
  BY UpTyped
<1>3. PICK g \in [0 .. N -> T] : g[0] = i /\ \A n \in 1 .. N : g[n] = Up[g[n - 1]]
  <2> HIDE DEF N, T
  <2>1. Iterates(T, i, Up, N) # {}
    BY <1>2, Iterated
  <2> QED
    BY <2>1 DEF Iterates
<1>4. Is(g)
  <2>1. ASSUME NEW n \in 0 .. N
        PROVE  g[n] = IF n = 0 THEN i
                      ELSE IF g[n - 1] = 0 THEN 0 ELSE tag[g[n - 1]].parent
    <3>1. CASE n # 0
      <4>1. n \in 1 .. N /\ n - 1 \in 0 .. N
        BY <1>2, <3>1
      <4>2. g[n] = Up[g[n - 1]] /\ g[n - 1] \in T
        BY <1>3, <4>1
      <4> QED
        BY <3>1, <4>2 DEF Up
    <3> QED
      BY <1>3, <3>1
  <2>2. g = [n \in 0 .. N |-> g[n]]
    OBVIOUS
  <2> QED
    BY <2>1, <2>2
<1>5. Is(up)
  <2> HIDE DEF Is
  <2> QED
    BY <1>4
<1> HIDE DEF up
<1>6. ASSUME NEW n \in 1 .. N
      PROVE  up[n] = IF up[n - 1] = 0 THEN 0 ELSE tag[up[n - 1]].parent
  BY <1>2, <1>5
<1>7. up[0] = i
  BY <1>2, <1>5
<1> DEFINE G == {n \in Nat : n <= N => up[n] = g[n]}
<1>8. 0 \in G
  BY <1>3, <1>7
<1>9. ASSUME NEW n \in G
      PROVE  n + 1 \in G
  <2>1. ASSUME n + 1 <= N
        PROVE  up[n + 1] = g[n + 1]
    <3>1. n + 1 \in 1 .. N /\ n \in 0 .. N /\ (n + 1) - 1 = n /\ up[n] = g[n]
      BY <1>2, <2>1
    <3>2. g[n + 1] = Up[g[n]] /\ g[n] \in T
      BY <1>3, <3>1
    <3>3. up[n + 1] = IF up[n] = 0 THEN 0 ELSE tag[up[n]].parent
      BY <1>6, <3>1
    <3> QED
      BY <3>1, <3>2, <3>3 DEF Up
  <2> QED
    BY <2>1
<1>10. G = Nat
  <2> HIDE DEF G
  <2>1. G \in SUBSET Nat
    BY DEF G
  <2> QED
    BY <1>8, <1>9, <2>1, NaturalsCovered
<1>11. \A n \in 0 .. N : up[n] = g[n]
  BY <1>2, <1>10
<1>12. g \in WaysUp(i)
  BY <1>3 DEF WaysUp, Iterates
<1>13. LeadsTo(i) = {g[n] : n \in 0 .. N}
  BY <1>1, <1>11
<1> QED
  BY <1>12, <1>13

\* The rest of a way up is a way up, from the parent.
LEMMA WayGoesOn ==
  ASSUME TypeOK, Migratable, NEW i \in Tags \cup {0}, NEW up \in WaysUp(i)
  PROVE  \E rest \in WaysUp(Up[i]) :
            \A n \in Nat : n + 1 <= Len(tag) => rest[n] = up[n + 1]
<1> DEFINE N == Len(tag)
           T == Tags \cup {0}
           rest == [n \in 0 .. N |-> IF n = N THEN Up[up[N]] ELSE up[n + 1]]
<1>1. Up \in [T -> T] /\ N \in Nat
  BY UpTyped
<1>2. up \in [0 .. N -> T] /\ up[0] = i /\ \A n \in 1 .. N : up[n] = Up[up[n - 1]]
  BY DEF WaysUp, Iterates
<1> HIDE DEF N, T
<1>3. \A n \in 0 .. N : rest[n] = Up[up[n]]
  <2>1. ASSUME NEW n \in 0 .. N, n # N
        PROVE  up[n + 1] = Up[up[n]]
    <3>1. n + 1 \in 1 .. N /\ (n + 1) - 1 = n
      BY <1>1, <2>1
    <3> QED
      BY <1>2, <3>1
  <2> QED
    BY <2>1
<1>4. rest \in [0 .. N -> T]
  BY <1>1, <1>2, <1>3
<1>5. rest[0] = Up[i]
  BY <1>1, <1>2, <1>3
<1>6. ASSUME NEW n \in 1 .. N
      PROVE  rest[n] = Up[rest[n - 1]]
  <2>1. n - 1 \in 0 .. N /\ n - 1 # N /\ (n - 1) + 1 = n /\ n \in 0 .. N
    BY <1>1
  <2>2. rest[n - 1] = up[n]
    BY <2>1
  <2> QED
    BY <1>3, <2>1, <2>2
<1>7. ASSUME NEW n \in Nat, n + 1 <= N
      PROVE  rest[n] = up[n + 1]
  <2>1. n \in 0 .. N /\ n # N
    BY <1>1, <1>7
  <2> QED
    BY <2>1
<1> HIDE DEF rest
<1> QED
  BY <1>4, <1>5, <1>6, <1>7 DEF WaysUp, Iterates, N, T

\* A tag is n rounds below another one if its way up is there after n steps.
LEMMA BelowIsUp ==
  ASSUME TypeOK, Migratable, NEW t \in Tags
  PROVE  \A n \in 0 .. Len(tag), i \in Tags \cup {0} : \A up \in WaysUp(i) :
            i \in Below({t})[n] <=> up[n] = t
<1> DEFINE N == Len(tag)
           T == Tags \cup {0}
           below == Below({t})
           Met(n) == \A i \in T : \A up \in WaysUp(i) : i \in below[n] <=> up[n] = t
           G == {n \in Nat : n <= N => Met(n)}
<1>1. /\ N \in Nat /\ 0 \notin Tags /\ Up \in [T -> T]
      /\ \A i \in Tags : Up[i] = tag[i].parent
      /\ Up[0] = 0
  BY UpTyped DEF Up
<1>2. /\ below \in [0 .. N -> SUBSET Tags] /\ below[0] = {t}
      /\ \A n \in 1 .. N : below[n] = {i \in Tags : tag[i].parent \in below[n - 1]}
  BY BelowRounds
<1> HIDE DEF N, below
<1>3. 0 \in G
  BY <1>2 DEF WaysUp, Iterates
<1>4. ASSUME NEW n \in G
      PROVE  n + 1 \in G
  <2>1. SUFFICES ASSUME n + 1 <= N, NEW i \in T, NEW up \in WaysUp(i)
                 PROVE  i \in below[n + 1] <=> up[n + 1] = t
    OBVIOUS
  <2>2. Met(n) /\ n + 1 \in 1 .. N /\ n \in 0 .. N /\ (n + 1) - 1 = n
    BY <1>1, <2>1
  <2>3. PICK rest \in WaysUp(Up[i]) : rest[n] = up[n + 1]
    BY <2>1, <2>2, WayGoesOn DEF N
  <2>4. Up[i] \in T
    BY <1>1
  <2>5. Up[i] \in below[n] <=> up[n + 1] = t
    BY <2>2, <2>3, <2>4
  <2>6. CASE i \in Tags
    <3>1. i \in below[n + 1] <=> tag[i].parent \in below[n]
      BY <1>2, <2>2, <2>6
    <3> QED
      BY <1>1, <2>5, <2>6, <3>1
  <2>7. CASE i = 0
    <3>1. i \notin below[n + 1] /\ 0 \notin below[n]
      BY <1>1, <1>2, <2>2, <2>7
    <3> QED
      BY <1>1, <2>5, <2>7, <3>1
  <2> QED
    BY <2>6, <2>7
<1>5. G = Nat
  <2> HIDE DEF G
  <2>1. G \in SUBSET Nat
    BY DEF G
  <2> QED
    BY <1>3, <1>4, <2>1, NaturalsCovered
<1>6. \A n \in 0 .. N : Met(n)
  BY <1>1, <1>5
<1> QED
  BY <1>6 DEF N, below

\* The descendants of a tag are the tags that lead up to it.
LEMMA DescendantsLeadUp ==
  ASSUME TypeOK, Migratable, NEW t \in Tags
  PROVE  Descendants(t) = {i \in Tags : t \in LeadsTo(i)}
<1> DEFINE N == Len(tag)
<1>1. /\ Below({t}) \in [0 .. N -> SUBSET Tags]
      /\ Descendants(t) = UNION {Below({t})[n] : n \in 0 .. N}
  BY BelowRounds DEF Descendants
<1>2. ASSUME NEW i \in Tags
      PROVE  i \in Descendants(t) <=> t \in LeadsTo(i)
  <2>1. PICK up \in WaysUp(i) : LeadsTo(i) = {up[n] : n \in 0 .. N}
    BY LeadsToWay
  <2>2. \A n \in 0 .. N : i \in Below({t})[n] <=> up[n] = t
    BY BelowIsUp
  <2> QED
    BY <1>1, <2>1, <2>2
<1>3. Descendants(t) \subseteq Tags
  BY <1>1
<1> QED
  BY <1>2, <1>3

\* A tag keeps its place and level; a new one has the level of its place.
LEMMA LevelsKept ==
  ASSUME TypeOK, Migratable, Leveled, Tags \subseteq Tags',
         \A i \in Tags : tag'[i].parent = tag[i].parent /\ tag'[i].level = tag[i].level,
         \A i \in Tags' \ Tags :
            \/ tag'[i].parent = 0 /\ tag'[i].level = 1
            \/ /\ tag'[i].parent \in Tags
               /\ tag'[i].level = tag[tag'[i].parent].level + 1
  PROVE  Leveled'
<1>1. 0 \notin Tags /\ \A i \in Tags : tag[i].parent \in Tags \cup {0}
  BY UpTyped
<1>2. ASSUME NEW i \in Tags'
      PROVE  tag'[i].level = IF tag'[i].parent = 0 THEN 1
                             ELSE tag'[tag'[i].parent].level + 1
  <2>1. CASE i \in Tags
    <3>1. tag[i].level = IF tag[i].parent = 0 THEN 1 ELSE tag[tag[i].parent].level + 1
      BY <2>1 DEF Leveled
    <3>2. CASE tag[i].parent = 0
      BY <2>1, <3>1, <3>2
    <3>3. CASE tag[i].parent \in Tags
      BY <1>1, <2>1, <3>1, <3>3
    <3> QED
      BY <1>1, <2>1, <3>2, <3>3
  <2>2. CASE i \notin Tags
    <3>1. CASE tag'[i].parent = 0 /\ tag'[i].level = 1
      BY <3>1
    <3>2. CASE /\ tag'[i].parent \in Tags
               /\ tag'[i].level = tag[tag'[i].parent].level + 1
      BY <1>1, <3>2
    <3> QED
      BY <2>2, <3>1, <3>2
  <2> QED
    BY <2>1, <2>2
<1> QED
  BY <1>2 DEF Leveled

\* Levels are right as long as no parent is missing.
LEMMA StepLeveled ==
  ASSUME GraphInv, strayed \/ Leveled, [Next]_vars
  PROVE  strayed' \/ Leveled'
<1>1. strayed => strayed'
  BY StepKeeps DEF AgentKeeps, OtherKeeps, KeepsReferences
<1>2. SUFFICES ASSUME ~ strayed'
               PROVE  Leveled'
  OBVIOUS
<1>3. ~ strayed /\ Leveled /\ Migratable /\ TypeOK /\ RowsTyped
  BY <1>1, <1>2 DEF GraphInv, TypeOK, RowsTyped
<1>4. ASSUME tag' = tag
      PROVE  Leveled'
  BY <1>3, <1>4 DEF Leveled, Tags
<1>5. ASSUME NEW name \in Names, NEW parent \in Nat, Inserts(name, parent),
             parent \in Tags \cup {0}
      PROVE  Leveled'
  <2>1. /\ Tags' = Tags \cup {Len(tag) + 1}
        /\ \A i \in Tags : tag'[i] = tag[i] /\ i <= Len(tag)
        /\ tag'[Len(tag) + 1].parent = parent
        /\ Len(tag) \in Nat
    BY <1>3, <1>5, InsertsRows
  <2>2. tag'[Len(tag) + 1].level = Level(parent)
    <3> DEFINE row == [name |-> name, parent |-> parent, level |-> Level(parent)]
    <3>1. tag' = Append(tag, row) /\ row.level = Level(parent)
      BY <1>5 DEF Inserts
    <3> HIDE DEF row
    <3>2. tag'[Len(tag) + 1] = row
      BY <1>3, <3>1 DEF RowsTyped
    <3> QED
      BY <3>1, <3>2
  <2>3. \/ parent = 0 /\ Level(parent) = 1
        \/ parent \in Tags /\ Level(parent) = tag[parent].level + 1
    <3>1. 0 \notin Tags
      BY <1>3, UpTyped
    <3> QED
      BY <1>5, <3>1 DEF Level
  <2> QED
    BY <1>3, <2>1, <2>2, <2>3, LevelsKept
<1>6. ASSUME NEW a \in Agents, Create(a), ~ UNCHANGED tag
      PROVE  Leveled'
  <2>1. OnTag(a) /\ agent[a].missing /\ Inserts(Part(a), agent[a].parent)
    BY <1>6 DEF Create
  <2>2. PICK me \in AgentRows : me = agent[a]
    BY <1>3 DEF TypeOK
  <2>3. Refers(me)
    BY <2>2 DEF GraphInv, AgentsRefer
  <2>4. agent[a].at < Len(Path(a)) /\ agent[a].parent \in Tags \cup {0}
    BY <2>1, <2>2, <2>3 DEF Refers, Doing, Path, PathOf
  <2>5. Part(a) \in Names /\ agent[a].parent \in Nat
    BY <1>3, <2>1, <2>2, <2>4, PartTyped DEF AgentRows
  <2> QED
    BY <1>5, <2>1, <2>4, <2>5
<1>7. ASSUME NEW name \in Names, NEW parent \in 0 .. Len(tag) + 1,
             CreateTag(name, parent) \/ CreateResearchTag(name, parent)
      PROVE  Leveled'
  <2>1. Inserts(name, parent) /\ (parent \in Tags \cup {0} \/ strayed')
    BY <1>7 DEF CreateTag, CreateResearchTag, MayBeParent, Strays
  <2> QED
    BY <1>2, <1>5, <2>1
<1>8. ASSUME NEW i \in Tags, NEW name \in Names, UpdateTag(i, name)
      PROVE  Leveled'
  <2>1. tag[i] \in TagRows /\ tag' = [tag EXCEPT ![i].name = name]
    BY <1>3, <1>8 DEF UpdateTag, RowsTyped, Tags
  <2> DEFINE new == [tag[i] EXCEPT !.name = name]
  <2>2. new.parent = tag[i].parent /\ new.level = tag[i].level
    BY <2>1 DEF TagRows
  <2>3. tag' = [tag EXCEPT ![i] = new]
    BY <2>1
  <2> HIDE DEF new
  <2>4. /\ Tags' = Tags
        /\ \A j \in Tags : tag'[j].parent = tag[j].parent /\ tag'[j].level = tag[j].level
    BY <1>3, <2>2, <2>3 DEF Tags, RowsTyped
  <2>5. \A j \in Tags' \ Tags : FALSE
    BY <2>4
  <2> QED
    BY <1>3, <2>4, <2>5, LevelsKept
<1>9. ASSUME NEW found \in Knowledge, NEW sharing \in SUBSET (DOMAIN found),
             Analyze(found, sharing)
      PROVE  Leveled'
  <2>1. /\ Tags \subseteq Tags'
        /\ \A i \in Tags : tag'[i] = tag[i]
        /\ \A i \in Tags' \ Tags : tag'[i].parent = 0 /\ tag'[i].level = 1
    BY <1>3, <1>9, AnalyzeRows
  <2> QED
    BY <1>3, <2>1, LevelsKept
<1> QED
  <2>1. \/ tag' = tag
        \/ \E a \in Agents : Create(a)
        \/ \E name \in Names, parent \in 0 .. Len(tag) + 1 :
               CreateTag(name, parent) \/ CreateResearchTag(name, parent)
        \/ \E i \in Tags, name \in Names : UpdateTag(i, name)
        \/ \E found \in Knowledge : \E sharing \in SUBSET (DOMAIN found) :
               Analyze(found, sharing)
    BY DEF Next, vars, graph, Start, Find, TagCard, LinkCards, AddCardTag,
           RemoveCardTag, CreateCardLink, Migrate, AssignTags, AddLink
  <2> QED
    BY <1>4, <1>6, <1>7, <1>8, <1>9, <2>1

\* The tree of an installation shows every tag at one place, at the depth of its
\* level, and the descendants of a tag are the tags below it.
THEOREM TreeIsWhole == Spec => []TreeHasEveryTag
<1>1. Init => strayed \/ Leveled
  BY DEF Init, Leveled, Tags
<1>2. GraphInv /\ (strayed \/ Leveled) /\ [Next]_vars => (strayed \/ Leveled)'
  BY StepLeveled
<1>3. ASSUME GraphInv, strayed \/ Leveled, ~ strayed
      PROVE  LET tree == Tree
                 leads == [i \in Tags |-> LeadsTo(i)]
             IN  /\ \A i \in Tags :
                        {n \in 0 .. Len(tag) : i \in tree[n]} = {tag[i].level - 1}
                 /\ \A t \in Tags : Descendants(t) = {i \in Tags : t \in leads[i]}
  <2>1. TypeOK /\ Migratable /\ Leveled
    BY <1>3 DEF GraphInv
  <2>2. \A i \in Tags : {n \in 0 .. Len(tag) : i \in Tree[n]} = {tag[i].level - 1}
    BY <2>1, TreeShows
  <2>3. ASSUME NEW t \in Tags
        PROVE  Descendants(t) = {i \in Tags : t \in [j \in Tags |-> LeadsTo(j)][i]}
    <3>1. Descendants(t) = {i \in Tags : t \in LeadsTo(i)}
      BY <2>1, DescendantsLeadUp
    <3> QED
      BY <3>1
  <2> QED
    BY <2>2, <2>3
<1>4. GraphInv /\ (strayed \/ Leveled) => TreeHasEveryTag
  BY <1>3 DEF TreeHasEveryTag
<1> QED
  BY <1>1, <1>2, <1>4, GraphInvariant, PTL DEF Spec

-----------------------------------------------------------------------------
(* The graph around a card.                                                 *)

\* The walks of n hops from a card; Within() has their ends.
Walks(card, n) ==
    {v \in [0 .. n -> Cards] : /\ v[0] = card
                              /\ \A k \in 1 .. n : <<v[k - 1], v[k]>> \in Hops}

LEMMA WithinWalks ==
  ASSUME NEW card, NEW n
  PROVE  Within(card, n, Hops) = {w[n] : w \in Walks(card, n)}
  BY DEF Within, Walks

\* One hop more.
LEMMA OneHopMore ==
  ASSUME NEW card \in Cards, NEW n \in Nat
  PROVE  Within(card, n + 1, Hops) =
             {y \in Cards : \E x \in Within(card, n, Hops) : <<x, y>> \in Hops}
<1>1. ASSUME NEW y \in Within(card, n + 1, Hops)
      PROVE  y \in Cards /\ \E x \in Within(card, n, Hops) : <<x, y>> \in Hops
  <2>1. PICK w \in Walks(card, n + 1) : y = w[n + 1]
    BY <1>1, WithinWalks
  <2>2. /\ w \in [0 .. n + 1 -> Cards] /\ w[0] = card
        /\ \A k \in 1 .. n + 1 : <<w[k - 1], w[k]>> \in Hops
    BY DEF Walks
  <2> DEFINE v == [k \in 0 .. n |-> w[k]]
  <2>3. v \in Walks(card, n)
    <3>1. v \in [0 .. n -> Cards] /\ v[0] = card
      BY <2>2
    <3>2. ASSUME NEW k \in 1 .. n
          PROVE  <<v[k - 1], v[k]>> \in Hops
      <4>1. k \in 1 .. n + 1 /\ k - 1 \in 0 .. n /\ k \in 0 .. n
        OBVIOUS
      <4>2. v[k - 1] = w[k - 1] /\ v[k] = w[k]
        BY <4>1
      <4> QED
        BY <2>2, <4>1, <4>2
    <3> HIDE DEF v
    <3> QED
      BY <3>1, <3>2 DEF Walks
  <2>4. v[n] = w[n]
    OBVIOUS
  <2>5. v[n] \in Within(card, n, Hops)
    <3> HIDE DEF v
    <3> QED
      BY <2>3, WithinWalks
  <2>6. n + 1 \in 1 .. n + 1 /\ (n + 1) - 1 = n
    OBVIOUS
  <2>7. <<w[n], w[n + 1]>> \in Hops /\ w[n + 1] \in Cards
    BY <2>2, <2>6
  <2> QED
    BY <2>1, <2>4, <2>5, <2>7
<1>2. ASSUME NEW y \in Cards, NEW x \in Within(card, n, Hops), <<x, y>> \in Hops
      PROVE  y \in Within(card, n + 1, Hops)
  <2>1. PICK v \in Walks(card, n) : x = v[n]
    BY <1>2, WithinWalks
  <2>2. /\ v \in [0 .. n -> Cards] /\ v[0] = card
        /\ \A k \in 1 .. n : <<v[k - 1], v[k]>> \in Hops
    BY DEF Walks
  <2> DEFINE w == [k \in 0 .. n + 1 |-> IF k = n + 1 THEN y ELSE v[k]]
  <2>3. w \in [0 .. n + 1 -> Cards] /\ w[0] = card /\ w[n + 1] = y
    BY <2>2
  <2>4. ASSUME NEW k \in 1 .. n + 1
        PROVE  <<w[k - 1], w[k]>> \in Hops
    <3>1. k - 1 \in 0 .. n + 1 /\ k \in 0 .. n + 1 /\ k - 1 # n + 1
      OBVIOUS
    <3>2. w[k - 1] = v[k - 1] /\ w[k] = IF k = n + 1 THEN y ELSE v[k]
      BY <3>1
    <3>3. CASE k = n + 1
      BY <1>2, <2>1, <3>2, <3>3
    <3>4. CASE k # n + 1
      <4>1. k \in 1 .. n
        BY <3>4
      <4> QED
        BY <2>2, <3>2, <3>4, <4>1
    <3> QED
      BY <3>3, <3>4
  <2> HIDE DEF w
  <2>5. w \in Walks(card, n + 1)
    BY <2>3, <2>4 DEF Walks
  <2> QED
    BY <2>3, <2>5, WithinWalks
<1> QED
  BY <1>1, <1>2

\* No hop.
LEMMA NoHop ==
  ASSUME NEW card \in Cards
  PROVE  Within(card, 0, Hops) = {card}
<1> DEFINE v == [k \in 0 .. 0 |-> card]
<1>1. v \in Walks(card, 0) /\ v[0] = card
  BY DEF Walks
<1>2. \A w \in Walks(card, 0) : w[0] = card
  BY DEF Walks
<1> HIDE DEF v
<1> QED
  BY <1>1, <1>2, WithinWalks

\* The cards a hop away are the ends of the links at a card, and the card.
LEMMA HopsAreEnds ==
  ASSUME TypeOK, NEW from \in SUBSET Cards
  PROVE  {y \in Cards : \E x \in from : <<x, y>> \in Hops} = from \cup Ends(Incident(from))
<1>1. \A l \in link : l[1] \in Cards /\ l[2] \in Cards
  BY DEF TypeOK
<1>2. ASSUME NEW y \in Cards, NEW x \in from, <<x, y>> \in Hops
      PROVE  y \in from \cup Ends(Incident(from))
  <2>1. x = y \/ \E l \in link : {l[1], l[2]} = {x, y}
    BY <1>2 DEF Hops
  <2>2. ASSUME NEW l \in link, {l[1], l[2]} = {x, y}
        PROVE  y \in Ends(Incident(from))
    <3>1. l \in Incident(from)
      BY <2>2 DEF Incident
    <3> QED
      BY <2>2, <3>1 DEF Ends
  <2> QED
    BY <2>1, <2>2
<1>3. ASSUME NEW y \in from
      PROVE  y \in Cards /\ <<y, y>> \in Hops
  BY DEF Hops
<1>4. ASSUME NEW y \in Ends(Incident(from))
      PROVE  y \in Cards /\ \E x \in from : <<x, y>> \in Hops
  <2>1. PICK l \in link : y \in {l[1], l[2]} /\ (l[1] \in from \/ l[2] \in from)
    BY <1>4 DEF Ends, Incident
  <2>2. PICK x \in {l[1], l[2]} : x \in from
    BY <2>1
  <2>3. x \in Cards /\ y \in Cards
    BY <1>1, <2>1
  <2>4. x = y \/ {l[1], l[2]} = {x, y}
    BY <2>1, <2>2
  <2>5. <<x, y>> \in Hops
    BY <2>3, <2>4 DEF Hops
  <2> QED
    BY <2>2, <2>3, <2>5
<1> QED
  BY <1>2, <1>3, <1>4

\* The search of get_link_graph(): where it starts, and a round of it.
Searches == [visited : SUBSET Cards, queue : SUBSET Cards, edges : SUBSET link]
FirstSearch(card) == [visited |-> {}, queue |-> {card}, edges |-> {}]
Searched(s) ==
    [visited |-> s.visited \cup (s.queue \ s.visited),
     queue |-> Ends(Incident(s.queue \ s.visited)) \ (s.queue \ s.visited),
     edges |-> s.edges \cup Incident(s.queue \ s.visited)]
SearchRound == [s \in Searches |-> Searched(s)]

LEMMA SearchTyped ==
  ASSUME TypeOK, NEW card \in Cards
  PROVE  /\ FirstSearch(card) \in Searches
         /\ SearchRound \in [Searches -> Searches]
<1>1. FirstSearch(card) \in Searches
  BY DEF FirstSearch, Searches
<1>2. ASSUME NEW s \in Searches
      PROVE  Searched(s) \in Searches
  <2>1. /\ s.visited \subseteq Cards /\ s.queue \subseteq Cards /\ s.edges \subseteq link
    BY DEF Searches
  <2>2. \A l \in link : l[1] \in Cards /\ l[2] \in Cards
    BY DEF TypeOK
  <2> DEFINE new == s.queue \ s.visited
  <2>3. Incident(new) \subseteq link
    BY DEF Incident
  <2>4. Ends(Incident(new)) \subseteq Cards
    BY <2>2, <2>3 DEF Ends
  <2> QED
    BY <2>1, <2>3, <2>4 DEF Searched, Searches
<1> QED
  BY <1>1, <1>2 DEF SearchRound

\* What the code has after its rounds.
LEMMA LinkGraphSearch ==
  ASSUME TypeOK, NEW card \in Cards, NEW depth \in Nat
  PROVE  \E g \in Iterates(Searches, FirstSearch(card), SearchRound, depth) :
            LinkGraph(card, depth) = [nodes |-> g[depth].visited \cup Ends(g[depth].edges),
                                      edges |-> g[depth].edges]
<1> DEFINE Is(f) ==
        f = [n \in 0 .. depth |->
                IF n = 0 THEN [visited |-> {}, queue |-> {card}, edges |-> {}]
                ELSE [visited |-> f[n - 1].visited \cup (f[n - 1].queue \ f[n - 1].visited),
                      queue |-> Ends(Incident(f[n - 1].queue \ f[n - 1].visited))
                                    \ (f[n - 1].queue \ f[n - 1].visited),
                      edges |-> f[n - 1].edges \cup
                                    Incident(f[n - 1].queue \ f[n - 1].visited)]]
           search == CHOOSE f : Is(f)
           first == FirstSearch(card)
<1>1. LinkGraph(card, depth) =
          [nodes |-> search[depth].visited \cup Ends(search[depth].edges),
           edges |-> search[depth].edges]
  BY DEF LinkGraph
<1>2. PICK g \in Iterates(Searches, first, SearchRound, depth) : TRUE
  <2>1. first \in Searches /\ SearchRound \in [Searches -> Searches]
    BY SearchTyped
  <2> HIDE DEF first
  <2> QED
    BY <2>1, Iterated
<1>3. /\ g \in [0 .. depth -> Searches] /\ g[0] = first
      /\ \A n \in 1 .. depth : g[n] = SearchRound[g[n - 1]]
  BY <1>2 DEF Iterates
<1>4. ASSUME NEW n \in 1 .. depth
      PROVE  n - 1 \in 0 .. depth /\ g[n] = Searched(g[n - 1])
  <2>1. n - 1 \in 0 .. depth
    OBVIOUS
  <2> QED
    BY <1>3, <2>1 DEF SearchRound
<1> DEFINE Next1(f, n) == IF n = 0 THEN FirstSearch(card) ELSE Searched(f[n - 1])
<1>5. ASSUME NEW f
      PROVE  Is(f) <=> f = [n \in 0 .. depth |-> Next1(f, n)]
  BY DEF Searched, FirstSearch
<1>6. Is(g)
  <2>1. ASSUME NEW n \in 0 .. depth
        PROVE  g[n] = Next1(g, n)
    <3>1. CASE n = 0
      BY <1>3, <3>1
    <3>2. CASE n # 0
      <4>1. n \in 1 .. depth
        BY <3>2
      <4> QED
        BY <1>4, <3>2, <4>1
    <3> QED
      BY <3>1, <3>2
  <2>2. g = [n \in 0 .. depth |-> g[n]]
    BY <1>3
  <2> HIDE DEF Is, Next1
  <2>3. g = [n \in 0 .. depth |-> Next1(g, n)]
    BY <2>1, <2>2
  <2> QED
    BY <1>5, <2>3
<1>7. Is(search)
  <2> HIDE DEF Is
  <2> QED
    BY <1>6
<1> HIDE DEF search
<1>8. search = [n \in 0 .. depth |-> Next1(search, n)]
  <2> HIDE DEF Is, Next1
  <2> QED
    BY <1>5, <1>7
<1>9. /\ search[0] = first
      /\ \A n \in 1 .. depth : search[n] = Searched(search[n - 1])
  BY <1>8
<1> HIDE DEF Is, Next1
<1> DEFINE G == {n \in Nat : n <= depth => search[n] = g[n]}
<1>10. 0 \in G
  BY <1>3, <1>9
<1>11. ASSUME NEW n \in G
       PROVE  n + 1 \in G
  <2>1. ASSUME n + 1 <= depth
        PROVE  search[n + 1] = g[n + 1]
    <3>1. n + 1 \in 1 .. depth /\ (n + 1) - 1 = n /\ search[n] = g[n]
      BY <2>1
    <3>2. search[n + 1] = Searched(search[n]) /\ g[n + 1] = Searched(g[n])
      BY <1>4, <1>9, <3>1
    <3> QED
      BY <3>1, <3>2
  <2> QED
    BY <2>1
<1>12. G = Nat
  <2> HIDE DEF G
  <2>1. G \in SUBSET Nat
    BY DEF G
  <2> QED
    BY <1>10, <1>11, <2>1, NaturalsCovered
<1>13. search[depth] = g[depth]
  BY <1>12
<1> QED
  BY <1>1, <1>2, <1>13

\* Links at the cards of two sets.
LEMMA IncidentUnion ==
  ASSUME NEW S, NEW T
  PROVE  /\ Incident(S \cup T) = Incident(S) \cup Incident(T)
         /\ Ends(Incident(S \cup T)) = Ends(Incident(S)) \cup Ends(Incident(T))
         /\ Incident({}) = {}
<1>1. Incident(S \cup T) = Incident(S) \cup Incident(T) /\ Incident({}) = {}
  BY DEF Incident
<1>2. \A L, M : Ends(L \cup M) = Ends(L) \cup Ends(M)
  BY DEF Ends
<1> QED
  BY <1>1, <1>2

\* After n rounds the cards nearer than n hops have been visited, with their
\* links, and those n hops away are among the ones queued.
LEMMA SearchProgress ==
  ASSUME TypeOK, NEW card \in Cards, NEW depth \in Nat,
         NEW g \in Iterates(Searches, FirstSearch(card), SearchRound, depth)
  PROVE  \A n \in 0 .. depth :
            /\ g[n].visited = IF n = 0 THEN {} ELSE Within(card, n - 1, Hops)
            /\ g[n].edges = Incident(g[n].visited)
            /\ g[n].visited \cup g[n].queue = Within(card, n, Hops)
<1> DEFINE W(n) == Within(card, n, Hops)
           Before(n) == IF n = 0 THEN {} ELSE W(n - 1)
           Reached(n) == /\ g[n].visited = Before(n)
                         /\ g[n].edges = Incident(g[n].visited)
                         /\ g[n].visited \cup g[n].queue = W(n)
           G == {n \in Nat : n <= depth => Reached(n)}
<1>1. /\ g \in [0 .. depth -> Searches] /\ g[0] = FirstSearch(card)
      /\ \A n \in 1 .. depth : g[n] = SearchRound[g[n - 1]]
  BY DEF Iterates
<1>2. W(0) = {card} /\ Incident({}) = {}
  BY NoHop, IncidentUnion
<1>3. ASSUME NEW n \in Nat
      PROVE  W(n) \subseteq Cards /\ W(n + 1) = W(n) \cup Ends(Incident(W(n)))
  <2>1. \A w \in Walks(card, n) : w[n] \in Cards
    BY DEF Walks
  <2>2. W(n) \subseteq Cards
    BY <2>1, WithinWalks
  <2>3. W(n + 1) = {y \in Cards : \E x \in W(n) : <<x, y>> \in Hops}
    BY OneHopMore
  <2> HIDE DEF W
  <2> QED
    BY <2>2, <2>3, HopsAreEnds
<1> HIDE DEF W
<1>4. 0 \in G
  <2>1. g[0].visited = {} /\ g[0].queue = {card} /\ g[0].edges = {}
    BY <1>1 DEF FirstSearch
  <2> QED
    BY <1>2, <2>1
<1>5. ASSUME NEW n \in G, n + 1 <= depth
      PROVE  Reached(n + 1)
  <2>1. Reached(n) /\ n + 1 \in 1 .. depth /\ (n + 1) - 1 = n /\ n \in 0 .. depth
    BY <1>5
  <2> DEFINE new == g[n].queue \ g[n].visited
  <2>2. /\ g[n + 1].visited = g[n].visited \cup new
        /\ g[n + 1].queue = Ends(Incident(new)) \ new
        /\ g[n + 1].edges = g[n].edges \cup Incident(new)
    <3>1. g[n + 1] = Searched(g[n])
      BY <1>1, <2>1 DEF SearchRound
    <3> QED
      BY <3>1 DEF Searched
  <2>3. g[n].visited \cup new = W(n)
    BY <2>1
  <2> HIDE DEF new
  <2>4. g[n + 1].visited = W(n)
    BY <2>2, <2>3
  <2>5. g[n + 1].edges = Incident(W(n))
    BY <2>1, <2>2, <2>3, IncidentUnion
  <2>6. Ends(Incident(g[n].visited)) \subseteq W(n)
    <3>1. CASE n = 0
      <4>1. g[n].visited = {}
        BY <2>1, <3>1
      <4> QED
        BY <1>2, <4>1 DEF Ends
    <3>2. CASE n # 0
      <4>1. n - 1 \in Nat /\ (n - 1) + 1 = n /\ g[n].visited = W(n - 1)
        BY <2>1, <3>2
      <4>2. W(n) = W(n - 1) \cup Ends(Incident(W(n - 1)))
        BY <1>3, <4>1
      <4> QED
        BY <4>1, <4>2
    <3> QED
      BY <3>1, <3>2
  <2>7. Ends(Incident(W(n))) = Ends(Incident(g[n].visited)) \cup Ends(Incident(new))
    BY <2>3, IncidentUnion
  <2>8. new \subseteq W(n)
    BY <2>3
  <2>9. g[n + 1].visited \cup g[n + 1].queue = W(n + 1)
    BY <1>3, <2>2, <2>4, <2>6, <2>7, <2>8
  <2> QED
    BY <2>1, <2>4, <2>5, <2>9
<1>6. \A n \in G : n + 1 \in G
  <2> HIDE DEF Reached
  <2> QED
    BY <1>5
<1>7. G = Nat
  <2> HIDE DEF G
  <2>1. G \in SUBSET Nat
    BY DEF G
  <2> QED
    BY <1>4, <1>6, <2>1, NaturalsCovered
<1>8. \A n \in 0 .. depth : Reached(n)
  <2> HIDE DEF Reached
  <2> QED
    BY <1>7
<1> QED
  BY <1>8 DEF W

\* The graph of get_link_graph() around a card is its neighbourhood: the cards
\* within so many hops, and the links of those that are nearer.
THEOREM GraphsAreNeighbourhoods == Spec => []GraphIsNeighbourhood
<1>1. ASSUME TypeOK, NEW card \in Cards, NEW depth \in 1 .. MaxDepth
      PROVE  LinkGraph(card, depth) =
                 [nodes |-> Within(card, depth, Hops),
                  edges |-> {l \in link : {l[1], l[2]} \cap Within(card, depth - 1, Hops) # {}}]
  <2> DEFINE near == Within(card, depth - 1, Hops)
  <2>1. depth \in Nat /\ depth \in 0 .. depth /\ depth # 0 /\ depth - 1 \in Nat
        /\ (depth - 1) + 1 = depth
    <3>1. MaxDepth \in Nat
      BY GraphConstants
    <3> QED
      BY <3>1
  <2>2. PICK g \in Iterates(Searches, FirstSearch(card), SearchRound, depth) :
            LinkGraph(card, depth) = [nodes |-> g[depth].visited \cup Ends(g[depth].edges),
                                      edges |-> g[depth].edges]
    BY <1>1, <2>1, LinkGraphSearch
  <2>3. g[depth].visited = near /\ g[depth].edges = Incident(near)
    BY <1>1, <2>1, SearchProgress
  <2>4. near \in SUBSET Cards
    <3>1. \A w \in Walks(card, depth - 1) : w[depth - 1] \in Cards
      BY <2>1 DEF Walks
    <3> QED
      BY <3>1, WithinWalks
  <2>5. near \cup Ends(Incident(near)) = Within(card, depth, Hops)
    <3>1. Within(card, depth, Hops) = {y \in Cards : \E x \in near : <<x, y>> \in Hops}
      BY <2>1, OneHopMore
    <3> HIDE DEF near
    <3> QED
      BY <1>1, <2>4, <3>1, HopsAreEnds
  <2>6. Incident(near) = {l \in link : {l[1], l[2]} \cap near # {}}
    <3> HIDE DEF near
    <3> QED
      BY DEF Incident
  <2> QED
    BY <2>2, <2>3, <2>5, <2>6
<1>2. TypeOK => GraphIsNeighbourhood
  BY <1>1 DEF GraphIsNeighbourhood
<1> QED
  BY <1>2, GraphTyped, PTL

=============================================================================
