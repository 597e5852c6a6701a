---------------------------- MODULE ProvenanceProofs ----------------------------
(***************************************************************************)
(* Theorems about Provenance, for all executions, projects, addresses and   *)
(* texts.                                                                   *)
(***************************************************************************)
EXTENDS Provenance, SequenceTheorems, TLAPS

-----------------------------------------------------------------------------
(* Types.                                                                   *)

\* A sequence with one more element.
LEMMA Appended ==
  ASSUME NEW S, NEW s \in Seq(S), NEW e \in S
  PROVE  /\ Append(s, e) \in Seq(S)
         /\ Len(s) \in Nat
         /\ DOMAIN s = 1 .. Len(s)
         /\ DOMAIN Append(s, e) = 1 .. Len(s) + 1
         /\ \A i \in 1 .. Len(s) : Append(s, e)[i] = s[i]
         /\ Append(s, e)[Len(s) + 1] = e
  OBVIOUS

\* A text of n units has a number of pieces, none only if it is empty.
LEMMA PiecesCounted ==
  ASSUME NEW text \in Nat
  PROVE  Pieces(text) \in Nat
<1>1. Step \in Nat \ {0}
  BY ProvenanceConstants
<1>2. text + Step - 1 \in Nat
  BY <1>1
<1> QED
  BY <1>1, <1>2 DEF Pieces

\* An execution at work is about a text of an address.
LEMMA WorkerTyped ==
  ASSUME TypeOK, NEW w \in Workers, worker[w] # Idle
  PROVE  /\ worker[w] \in WorkerRows
         /\ Key(w) \in Keys
         /\ Text(w) \in Texts
         /\ Text(w) \in Nat
         /\ worker[w].source \in Nat
         /\ worker[w].version \in Nat
         /\ worker[w].of \in Materials
<1>1. worker[w] \in WorkerRows
  BY DEF TypeOK
<1>2. worker[w].of \in Materials /\ worker[w].source \in Nat /\ worker[w].version \in Nat
  BY <1>1 DEF WorkerRows
<1>3. Key(w) \in Keys /\ Text(w) \in Texts
  BY <1>2 DEF Key, Text, Materials
<1> QED
  BY <1>1, <1>2, <1>3, ProvenanceConstants

\* Idle is none of the steps.
LEMMA AtWork ==
  ASSUME NEW w \in Workers
  PROVE  /\ At(w, "put") \/ At(w, "lock") \/ At(w, "look") \/ At(w, "write")
            => worker[w] # Idle
         /\ Idle.step = "idle"
  BY DEF At, Idle

\* What Write stores.
LEMMA NewRowsTyped ==
  ASSUME TypeOK, NEW w \in Workers, At(w, "write")
  PROVE  /\ [project |-> Key(w)[1], address |-> Key(w)[2]] \in SourceRows
         /\ [source |-> RowOf(w), text |-> Text(w)] \in VersionRows
         /\ RowOf(w) \in Nat \ {0}
         /\ Pieces(Text(w)) \in Nat
         /\ Len(version) \in Nat /\ Len(source) \in Nat /\ Len(chunk) \in Nat
         /\ NewChunks(Text(w)) \in Seq(ChunkRows)
         /\ Len(NewChunks(Text(w))) = Pieces(Text(w))
         /\ \A p \in 1 .. Pieces(Text(w)) :
               NewChunks(Text(w))[p] = [version |-> Len(version) + 1, position |-> p - 1]
<1>1. /\ Key(w) \in Keys /\ Text(w) \in Texts /\ Text(w) \in Nat
      /\ worker[w].source \in Nat
  BY WorkerTyped, AtWork
<1>2. Pieces(Text(w)) \in Nat
  BY <1>1, PiecesCounted
<1>3. Len(version) \in Nat /\ Len(source) \in Nat /\ Len(chunk) \in Nat
  BY DEF TypeOK
<1>4. RowOf(w) \in Nat \ {0}
  BY <1>1, <1>3 DEF RowOf
<1>5. \A p \in 1 .. Pieces(Text(w)) :
         [version |-> Len(version) + 1, position |-> p - 1] \in ChunkRows
  BY <1>2, <1>3 DEF ChunkRows
<1>6. /\ NewChunks(Text(w)) \in Seq(ChunkRows)
      /\ Len(NewChunks(Text(w))) = Pieces(Text(w))
      /\ \A p \in 1 .. Pieces(Text(w)) :
            NewChunks(Text(w))[p] = [version |-> Len(version) + 1, position |-> p - 1]
  BY <1>2, <1>5 DEF NewChunks
<1> QED
  BY <1>1, <1>2, <1>3, <1>4, <1>6 DEF Keys, SourceRows, VersionRows

\* The initial state is well typed.
LEMMA InitTyped == Init => TypeOK
  BY ProvenanceConstants DEF Init, TypeOK, Idle

\* The end of a transaction leaves lock and executions well typed.
LEMMA EndsTyped ==
  ASSUME TypeOK, NEW w \in Workers, Ends(w)
  PROVE  /\ lock' \in [Keys -> Workers \cup {NoWorker}]
         /\ worker' \in [Workers -> WorkerRows \cup {Idle}]
  BY DEF TypeOK, Ends

\* What an execution receives is well typed.
LEMMA ReceivedTyped ==
  ASSUME TypeOK, NEW w \in Workers, NEW chunks \in SUBSET Nat,
         worker[w].of \in Materials, Receives(w, chunks)
  PROVE  received' \in [Workers -> SUBSET [of : Materials, chunks : SUBSET Nat]]
<1>1. [of |-> worker[w].of, chunks |-> chunks] \in [of : Materials, chunks : SUBSET Nat]
  OBVIOUS
<1> QED
  BY <1>1 DEF Receives, TypeOK

\* Every step keeps the types.
LEMMA NextTyped == TypeOK /\ [Next]_vars => TypeOK'
<1> SUFFICES ASSUME TypeOK, [Next]_vars PROVE TypeOK'
  OBVIOUS
<1> USE DEF rows, bounds
<1>1. ASSUME NEW w \in Workers, NEW material \in Materials, Call(w, material)
      PROVE  TypeOK'
  <2>1. [step |-> "put", of |-> material, source |-> 0, version |-> 0] \in WorkerRows
    BY DEF WorkerRows
  <2> QED
    BY <1>1, <2>1, ProvenanceConstants DEF Call, TypeOK
<1>2. ASSUME NEW w \in Workers, Put(w)
      PROVE  TypeOK'
  <2>1. worker[w] \in WorkerRows /\ Text(w) \in Texts
    BY <1>2, WorkerTyped, AtWork DEF Put
  <2>2. [worker[w] EXCEPT !.step = "lock"] \in WorkerRows
    BY <2>1 DEF WorkerRows
  <2> QED
    BY <1>2, <2>1, <2>2 DEF Put, TypeOK
<1>3. ASSUME NEW w \in Workers, Lock(w)
      PROVE  TypeOK'
  <2>1. worker[w] \in WorkerRows
    BY <1>3, WorkerTyped, AtWork DEF Lock
  <2>2. [worker[w] EXCEPT !.step = "look"] \in WorkerRows
    BY <2>1 DEF WorkerRows
  <2> QED
    BY <1>3, <2>2 DEF Lock, TypeOK
<1>4. ASSUME NEW w \in Workers, Look(w)
      PROVE  TypeOK'
  <2>1. worker[w] \in WorkerRows
    BY <1>4, WorkerTyped, AtWork DEF Look
  <2>2. /\ DOMAIN source \subseteq Nat
        /\ DOMAIN version \subseteq Nat
    BY DEF TypeOK
  <2>3. SourceOf(Key(w)) \in Nat
    BY <2>2 DEF SourceOf
  <2>4. VersionOf(SourceOf(Key(w)), Text(w)) \in Nat
    BY <2>2 DEF VersionOf
  <2>5. [worker[w] EXCEPT !.step = "write", !.source = SourceOf(Key(w)),
                          !.version = VersionOf(SourceOf(Key(w)), Text(w))]
            \in WorkerRows
    BY <2>1, <2>3, <2>4 DEF WorkerRows
  <2> QED
    BY <1>4, <2>5 DEF Look, TypeOK
<1>5. ASSUME NEW w \in Workers, Return(w)
      PROVE  TypeOK'
  <2>1. worker[w].of \in Materials
    BY <1>5, WorkerTyped, AtWork DEF Return
  <2>2. ChunksOf(worker[w].version) \in SUBSET Nat
    BY DEF ChunksOf, TypeOK
  <2>3. received' \in [Workers -> SUBSET [of : Materials, chunks : SUBSET Nat]]
    BY <1>5, <2>1, <2>2, ReceivedTyped DEF Return
  <2> QED
    BY <1>5, <2>3, EndsTyped DEF Return, TypeOK
<1>6. ASSUME NEW w \in Workers, Write(w)
      PROVE  TypeOK'
  <2>1. worker[w].of \in Materials
    BY <1>6, WorkerTyped, AtWork DEF Write
  <2>2. (Len(chunk) + 1) .. (Len(chunk) + Pieces(Text(w))) \in SUBSET Nat
    BY <1>6, NewRowsTyped DEF Write
  <2>3. received' \in [Workers -> SUBSET [of : Materials, chunks : SUBSET Nat]]
    BY <1>6, <2>1, <2>2, ReceivedTyped DEF Write
  <2>4. source' \in Seq(SourceRows)
    BY <1>6, NewRowsTyped, Appended DEF Write, TypeOK
  <2>5. version' \in Seq(VersionRows)
    BY <1>6, NewRowsTyped, Appended DEF Write, TypeOK
  <2>6. chunk' \in Seq(ChunkRows)
    BY <1>6, NewRowsTyped, ConcatProperties DEF Write, TypeOK
  <2> QED
    BY <1>6, <2>3, <2>4, <2>5, <2>6, EndsTyped DEF Write, TypeOK
<1>7. ASSUME NEW w \in Workers, Fail(w)
      PROVE  TypeOK'
  BY <1>7, EndsTyped, ProvenanceConstants DEF Fail, TypeOK
<1>8. CASE UNCHANGED vars
  BY <1>8 DEF vars, TypeOK
<1> QED
  BY <1>1, <1>2, <1>3, <1>4, <1>5, <1>6, <1>7, <1>8 DEF Next, Works

\* Rows, locks, and what every execution has found and received keep their types,
\* for any number of executions and faults.
THEOREM RowsTyped == Spec => []TypeOK
  BY InitTyped, NextTyped, PTL DEF Spec

-----------------------------------------------------------------------------
(* One source of an address, one version of a text: the strengthening.      *)

Row(i) == <<source[i].project, source[i].address>>

\* What rows refer to exists.
Referring ==
  /\ \A v \in DOMAIN version : version[v].source \in DOMAIN source
  /\ \A c \in DOMAIN chunk : chunk[c].version \in DOMAIN version

\* An execution that looks or writes has the lock of its address.
Locked ==
  \A w \in Workers : At(w, "look") \/ At(w, "write") => lock[Key(w)] = w

\* Past put_text() the object of an execution is stored.
Stored ==
  \A w \in Workers :
      At(w, "lock") \/ At(w, "look") \/ At(w, "write") => Text(w) \in objects

\* What an execution has found is still so when it writes.
FoundSource(w) ==
  IF worker[w].source = 0
  THEN \A i \in DOMAIN source : Row(i) # Key(w)
  ELSE worker[w].source \in DOMAIN source /\ Row(worker[w].source) = Key(w)
FoundVersion(w) ==
  IF worker[w].version = 0
  THEN \A v \in DOMAIN version :
           version[v] # [source |-> worker[w].source, text |-> Text(w)]
  ELSE /\ worker[w].version \in DOMAIN version
       /\ version[worker[w].version] = [source |-> worker[w].source, text |-> Text(w)]
LookedUp ==
  \A w \in Workers : At(w, "write") => FoundSource(w) /\ FoundVersion(w)

Inv ==
  /\ TypeOK
  /\ Referring
  /\ Locked
  /\ Stored
  /\ VersionsHaveObjects
  /\ LookedUp
  /\ OneRowEach
  /\ ReceivesItsText

\* SourceOf and VersionOf find a row if there is one.
LEMMA LookFinds ==
  ASSUME TypeOK, NEW key, NEW i, NEW text
  PROVE  /\ IF SourceOf(key) = 0
            THEN \A j \in DOMAIN source : Row(j) # key
            ELSE SourceOf(key) \in DOMAIN source /\ Row(SourceOf(key)) = key
         /\ IF VersionOf(i, text) = 0
            THEN \A v \in DOMAIN version : version[v] # [source |-> i, text |-> text]
            ELSE /\ VersionOf(i, text) \in DOMAIN version
                 /\ version[VersionOf(i, text)] = [source |-> i, text |-> text]
<1>1. 0 \notin DOMAIN source /\ 0 \notin DOMAIN version
  BY DEF TypeOK
<1> DEFINE Sources == {j \in DOMAIN source : <<source[j].project, source[j].address>> = key}
           Versions == {v \in DOMAIN version : version[v] = [source |-> i, text |-> text]}
<1>4. IF SourceOf(key) = 0
      THEN \A j \in DOMAIN source : Row(j) # key
      ELSE SourceOf(key) \in DOMAIN source /\ Row(SourceOf(key)) = key
  <2>1. Sources = {} => SourceOf(key) = 0
    BY DEF SourceOf
  <2>2. Sources # {} => SourceOf(key) \in Sources
    BY DEF SourceOf
  <2>3. Sources # {} => SourceOf(key) # 0
    BY <2>2, <1>1
  <2> QED
    BY <2>1, <2>2, <2>3 DEF Row
<1>5. Versions = {} => VersionOf(i, text) = 0
  BY DEF VersionOf
<1>6. Versions # {} => VersionOf(i, text) \in Versions
  BY DEF VersionOf
<1>7. Versions # {} => VersionOf(i, text) # 0
  BY <1>6, <1>1
<1> QED
  BY <1>4, <1>5, <1>6, <1>7

\* Nothing is there to begin with.
LEMMA InitInv == Init => Inv
<1> SUFFICES ASSUME Init PROVE Inv
  OBVIOUS
<1>1. TypeOK
  BY InitTyped
<1>2. Referring /\ VersionsHaveObjects /\ OneRowEach
  BY DEF Init, Referring, VersionsHaveObjects, OneRowEach, IsInjective
<1>3. Locked /\ Stored /\ LookedUp
  BY DEF Init, Idle, At, Locked, Stored, LookedUp
<1>4. ReceivesItsText
  BY DEF Init, ReceivesItsText
<1> QED
  BY <1>1, <1>2, <1>3, <1>4 DEF Inv

\* A step that leaves the rows alone leaves what is said about them.
LEMMA RowsStay ==
  ASSUME Inv, UNCHANGED rows, objects \subseteq objects'
  PROVE  /\ Referring' /\ VersionsHaveObjects' /\ OneRowEach'
         /\ UNCHANGED received => ReceivesItsText'
         /\ \A u \in Workers : worker'[u] = worker[u] =>
               (FoundSource(u) /\ FoundVersion(u) => (FoundSource(u) /\ FoundVersion(u))')
<1>1. Referring' /\ OneRowEach'
  BY DEF Inv, rows, Referring, OneRowEach
<1>2. VersionsHaveObjects'
  BY DEF Inv, rows, VersionsHaveObjects
<1>3. UNCHANGED received => ReceivesItsText'
  BY DEF Inv, rows, ReceivesItsText, ChunksOf
<1>4. \A u \in Workers : worker'[u] = worker[u] =>
               (FoundSource(u) /\ FoundVersion(u) => (FoundSource(u) /\ FoundVersion(u))')
  BY DEF rows, FoundSource, FoundVersion, Row, Key, Text
<1> QED
  BY <1>1, <1>2, <1>3, <1>4

\* A step of one execution leaves where the others are.
LEMMA OthersStay ==
  ASSUME NEW w \in Workers, NEW u \in Workers, u # w, TypeOK,
         \E r : worker' = [worker EXCEPT ![w] = r]
  PROVE  /\ worker'[u] = worker[u]
         /\ \A step : At(u, step)' <=> At(u, step)
         /\ Key(u)' = Key(u) /\ Text(u)' = Text(u)
<1>1. worker'[u] = worker[u]
  BY DEF TypeOK
<1> QED
  BY <1>1 DEF At, Key, Text

\* Steps before the transaction, and the look under the lock.
LEMMA CallKeeps ==
  ASSUME Inv, NEW w \in Workers, NEW material \in Materials, Call(w, material)
  PROVE  Inv'
<1>1. TypeOK /\ TypeOK'
  BY NextTyped DEF Inv, Next
<1>2. /\ Referring' /\ VersionsHaveObjects' /\ OneRowEach' /\ ReceivesItsText'
      /\ \A u \in Workers : worker'[u] = worker[u] =>
            (FoundSource(u) /\ FoundVersion(u) => (FoundSource(u) /\ FoundVersion(u))')
  BY RowsStay DEF Call
<1>3. At(w, "put")'
  BY <1>1 DEF Call, At, TypeOK
<1>4. \A u \in Workers : u # w =>
        /\ worker'[u] = worker[u]
        /\ \A step : At(u, step)' <=> At(u, step)
        /\ Key(u)' = Key(u) /\ Text(u)' = Text(u)
  BY <1>1, OthersStay DEF Call
<1>5. Locked' /\ Stored'
  BY <1>3, <1>4 DEF Inv, Call, Locked, Stored, At
<1>6. LookedUp'
  BY <1>2, <1>3, <1>4 DEF Inv, LookedUp, At
<1> QED
  BY <1>1, <1>2, <1>5, <1>6 DEF Inv

LEMMA PutKeeps ==
  ASSUME Inv, NEW w \in Workers, Put(w)
  PROVE  Inv'
<1>1. TypeOK /\ TypeOK'
  BY NextTyped DEF Inv, Next, Works
<1>2. /\ Referring' /\ VersionsHaveObjects' /\ OneRowEach' /\ ReceivesItsText'
      /\ \A u \in Workers : worker'[u] = worker[u] =>
            (FoundSource(u) /\ FoundVersion(u) => (FoundSource(u) /\ FoundVersion(u))')
  BY RowsStay DEF Put
<1>3. worker[w] \in WorkerRows
  BY <1>1, WorkerTyped, AtWork DEF Put
<1>4. At(w, "lock")' /\ Text(w)' = Text(w)
  BY <1>1, <1>3 DEF Put, At, TypeOK, Text, WorkerRows
<1>5. \A u \in Workers : u # w =>
        /\ worker'[u] = worker[u]
        /\ \A step : At(u, step)' <=> At(u, step)
        /\ Key(u)' = Key(u) /\ Text(u)' = Text(u)
  BY <1>1, OthersStay DEF Put
<1>6. Locked'
  BY <1>4, <1>5 DEF Inv, Put, Locked, At
<1>7. Stored'
  BY <1>4, <1>5 DEF Inv, Put, Stored, At
<1>8. LookedUp'
  BY <1>2, <1>4, <1>5 DEF Inv, LookedUp, At
<1> QED
  BY <1>1, <1>2, <1>6, <1>7, <1>8 DEF Inv

LEMMA LockKeeps ==
  ASSUME Inv, NEW w \in Workers, Lock(w)
  PROVE  Inv'
<1>1. TypeOK /\ TypeOK'
  BY NextTyped DEF Inv, Next
<1>2. /\ Referring' /\ VersionsHaveObjects' /\ OneRowEach' /\ ReceivesItsText'
      /\ \A u \in Workers : worker'[u] = worker[u] =>
            (FoundSource(u) /\ FoundVersion(u) => (FoundSource(u) /\ FoundVersion(u))')
  BY RowsStay DEF Lock
<1>3. worker[w] \in WorkerRows /\ Key(w) \in Keys
  BY <1>1, WorkerTyped, AtWork DEF Lock
<1>4. At(w, "look")' /\ Text(w)' = Text(w) /\ Key(w)' = Key(w)
  BY <1>1, <1>3 DEF Lock, At, TypeOK, Text, Key, WorkerRows
<1>5. \A u \in Workers : u # w =>
        /\ worker'[u] = worker[u]
        /\ \A step : At(u, step)' <=> At(u, step)
        /\ Key(u)' = Key(u) /\ Text(u)' = Text(u)
  BY <1>1, OthersStay DEF Lock
<1>6. Locked'
  <2>1. lock'[Key(w)] = w
    BY <1>1, <1>3 DEF Lock, TypeOK
  <2>2. ASSUME NEW u \in Workers, u # w, At(u, "look") \/ At(u, "write")
        PROVE  lock'[Key(u)] = u
    <3>1. lock[Key(u)] = u /\ lock[Key(w)] = NoWorker
      BY <2>2 DEF Inv, Locked, Lock
    <3>2. Key(u) # Key(w)
      BY <3>1, ProvenanceConstants
    <3>3. Key(u) \in Keys
      BY <1>1, <2>2, WorkerTyped, AtWork
    <3> QED
      BY <1>1, <3>1, <3>2, <3>3 DEF Lock, TypeOK
  <2> QED
    BY <2>1, <2>2, <1>4, <1>5 DEF Locked
<1>7. Stored'
  BY <1>4, <1>5 DEF Inv, Lock, Stored, At
<1>8. LookedUp'
  BY <1>2, <1>4, <1>5 DEF Inv, LookedUp, At
<1> QED
  BY <1>1, <1>2, <1>6, <1>7, <1>8 DEF Inv

LEMMA LookKeeps ==
  ASSUME Inv, NEW w \in Workers, Look(w)
  PROVE  Inv'
<1>1. TypeOK /\ TypeOK'
  BY NextTyped DEF Inv, Next, Works
<1>2. /\ Referring' /\ VersionsHaveObjects' /\ OneRowEach' /\ ReceivesItsText'
      /\ \A u \in Workers : worker'[u] = worker[u] =>
            (FoundSource(u) /\ FoundVersion(u) => (FoundSource(u) /\ FoundVersion(u))')
  BY RowsStay DEF Look
<1>3. worker[w] \in WorkerRows
  BY <1>1, WorkerTyped, AtWork DEF Look
<1>4. /\ At(w, "write")' /\ Text(w)' = Text(w) /\ Key(w)' = Key(w)
      /\ worker'[w].source = SourceOf(Key(w))
      /\ worker'[w].version = VersionOf(SourceOf(Key(w)), Text(w))
  BY <1>1, <1>3 DEF Look, At, TypeOK, Text, Key, WorkerRows
<1>5. \A u \in Workers : u # w =>
        /\ worker'[u] = worker[u]
        /\ \A step : At(u, step)' <=> At(u, step)
        /\ Key(u)' = Key(u) /\ Text(u)' = Text(u)
  <2>1. \A u \in Workers : u # w => worker'[u] = worker[u]
    BY <1>1 DEF Look, TypeOK
  <2> QED
    BY <2>1 DEF At, Key, Text
<1>6. Locked' /\ Stored'
  <2>1. At(w, "look") /\ lock' = lock /\ objects' = objects
    BY DEF Look
  <2>2. Locked'
    BY <2>1, <1>4, <1>5 DEF Inv, Locked
  <2>3. Stored'
    BY <2>1, <1>4, <1>5 DEF Inv, Stored
  <2> QED
    BY <2>2, <2>3
<1>7. (FoundSource(w) /\ FoundVersion(w))'
  <2>1. UNCHANGED rows
    BY DEF Look
  <2>2. FoundSource(w)'
    BY <1>1, <1>4, <2>1, LookFinds DEF FoundSource, Row, rows
  <2>3. FoundVersion(w)'
    BY <1>1, <1>4, <2>1, LookFinds DEF FoundVersion, rows
  <2> QED
    BY <2>2, <2>3
<1>8. LookedUp'
  BY <1>2, <1>5, <1>7 DEF Inv, LookedUp
<1> QED
  BY <1>1, <1>2, <1>6, <1>8 DEF Inv

\* The end of a transaction leaves the locks and finds of the others.
LEMMA EndsKeeps ==
  ASSUME Inv, TypeOK', NEW w \in Workers, Ends(w), UNCHANGED objects
  PROVE  /\ Locked' /\ Stored'
         /\ \A u \in Workers : At(u, "write")' =>
               /\ u # w /\ worker'[u] = worker[u] /\ At(u, "write")
               /\ Key(u)' = Key(u) /\ Text(u)' = Text(u)
<1>1. worker'[w] = Idle /\ \A u \in Workers : u # w => worker'[u] = worker[u]
  BY DEF Inv, TypeOK, Ends
<1>2. ~ At(w, "lock")' /\ ~ At(w, "look")' /\ ~ At(w, "write")'
  BY <1>1, AtWork DEF At
<1>3. \A u \in Workers : u # w =>
        /\ \A step : At(u, step)' <=> At(u, step)
        /\ Key(u)' = Key(u) /\ Text(u)' = Text(u)
  BY <1>1 DEF At, Key, Text
<1>4. Stored'
  BY <1>2, <1>3 DEF Inv, Stored
<1>5. Locked'
  <2> SUFFICES ASSUME NEW u \in Workers, u # w, At(u, "look") \/ At(u, "write")
               PROVE  lock'[Key(u)] = u
    BY <1>2, <1>3 DEF Locked
  <2>1. lock[Key(u)] = u
    BY DEF Inv, Locked
  <2>2. Key(u) \in Keys
    BY WorkerTyped, AtWork DEF Inv
  <2> QED
    BY <2>1, <2>2 DEF Ends
<1> QED
  BY <1>1, <1>2, <1>3, <1>4, <1>5

LEMMA FailKeeps ==
  ASSUME Inv, NEW w \in Workers, Fail(w)
  PROVE  Inv'
<1>1. TypeOK /\ TypeOK'
  BY NextTyped DEF Inv, Next
<1>2. /\ Referring' /\ VersionsHaveObjects' /\ OneRowEach' /\ ReceivesItsText'
      /\ \A u \in Workers : worker'[u] = worker[u] =>
            (FoundSource(u) /\ FoundVersion(u) => (FoundSource(u) /\ FoundVersion(u))')
  BY RowsStay DEF Fail
<1>3. /\ Locked' /\ Stored'
      /\ \A u \in Workers : At(u, "write")' =>
            /\ u # w /\ worker'[u] = worker[u] /\ At(u, "write")
            /\ Key(u)' = Key(u) /\ Text(u)' = Text(u)
  BY <1>1, EndsKeeps DEF Fail
<1>4. LookedUp'
  BY <1>2, <1>3 DEF Inv, LookedUp
<1> QED
  BY <1>1, <1>2, <1>3, <1>4 DEF Inv

\* Return hands out the chunks of the version that was found.
LEMMA ReturnKeeps ==
  ASSUME Inv, NEW w \in Workers, Return(w)
  PROVE  Inv'
<1>1. TypeOK /\ TypeOK'
  BY NextTyped DEF Inv, Next, Works
<1>2. /\ Referring' /\ VersionsHaveObjects' /\ OneRowEach'
      /\ \A u \in Workers : worker'[u] = worker[u] =>
            (FoundSource(u) /\ FoundVersion(u) => (FoundSource(u) /\ FoundVersion(u))')
  BY RowsStay DEF Return
<1>3. /\ Locked' /\ Stored'
      /\ \A u \in Workers : At(u, "write")' =>
            /\ u # w /\ worker'[u] = worker[u] /\ At(u, "write")
            /\ Key(u)' = Key(u) /\ Text(u)' = Text(u)
  BY <1>1, EndsKeeps DEF Return
<1>4. LookedUp'
  BY <1>2, <1>3 DEF Inv, LookedUp
<1>5. ReceivesItsText'
  <2> DEFINE v == worker[w].version
             new == [of |-> worker[w].of, chunks |-> ChunksOf(v)]
  <2>1. FoundSource(w) /\ FoundVersion(w) /\ v # 0
    BY DEF Inv, LookedUp, Return
  <2>2. v \in DOMAIN version /\ version[v].text = Text(w) /\ version[v].source = worker[w].source
    BY <2>1 DEF FoundVersion
  <2>3. worker[w].source \in DOMAIN source
    BY <2>2 DEF Inv, Referring
  <2>4. Row(worker[w].source) = Key(w)
    <3>1. worker[w].source # 0
      BY <1>1, <2>3 DEF TypeOK
    <3> QED
      BY <2>1, <3>1 DEF FoundSource
  <2>5. ASSUME NEW u \in Workers, NEW r \in received'[u], r \notin received[u]
        PROVE  r = new
    BY <1>1, <2>5 DEF Return, Receives, TypeOK
  <2>6. ASSUME NEW u \in Workers, NEW r \in received'[u]
        PROVE  \E x \in DOMAIN version :
                  /\ version[x].text = r.of.text
                  /\ LET i == source[version[x].source]
                     IN <<i.project, i.address>> = r.of.key
                  /\ r.chunks = ChunksOf(x)
    <3>1. CASE r \in received[u]
      BY <3>1 DEF Inv, ReceivesItsText
    <3>2. CASE r \notin received[u]
      BY <2>2, <2>4, <2>5, <3>2 DEF Row, Key, Text
    <3> QED
      BY <3>1, <3>2
  <2>7. source' = source /\ version' = version /\ chunk' = chunk
    BY DEF Return, rows
  <2> QED
    BY <2>6, <2>7 DEF ReceivesItsText, ChunksOf
<1> QED
  BY <1>1, <1>2, <1>3, <1>4, <1>5 DEF Inv

\* The rows after Write: the old ones, and the new.
LEMMA WriteRows ==
  ASSUME Inv, NEW w \in Workers, Write(w)
  PROVE  /\ DOMAIN source' = DOMAIN source \cup {RowOf(w)}
         /\ \A i \in DOMAIN source : source'[i] = source[i]
         /\ RowOf(w) \notin DOMAIN source =>
               \A i \in DOMAIN source : Row(i) # Key(w)
         /\ source'[RowOf(w)] \in SourceRows
         /\ <<source'[RowOf(w)].project, source'[RowOf(w)].address>> = Key(w)
         /\ DOMAIN version' = DOMAIN version \cup {Len(version) + 1}
         /\ Len(version) + 1 \notin DOMAIN version
         /\ \A v \in DOMAIN version : version'[v] = version[v]
         /\ version'[Len(version) + 1] = [source |-> RowOf(w), text |-> Text(w)]
         /\ DOMAIN chunk \subseteq DOMAIN chunk'
         /\ \A c \in DOMAIN chunk : chunk'[c] = chunk[c]
         /\ DOMAIN chunk' \ DOMAIN chunk
               = (Len(chunk) + 1) .. (Len(chunk) + Pieces(Text(w)))
         /\ \A c \in DOMAIN chunk' \ DOMAIN chunk : chunk'[c].version = Len(version) + 1
<1>1. /\ TypeOK /\ FoundSource(w) /\ At(w, "write")
      /\ Key(w) \in Keys /\ worker[w].source \in Nat
  BY WorkerTyped, AtWork DEF Inv, LookedUp, Write
<1>2. /\ DOMAIN version' = DOMAIN version \cup {Len(version) + 1}
      /\ Len(version) + 1 \notin DOMAIN version
      /\ \A v \in DOMAIN version : version'[v] = version[v]
      /\ version'[Len(version) + 1] = [source |-> RowOf(w), text |-> Text(w)]
  <2> DEFINE row == [source |-> RowOf(w), text |-> Text(w)]
  <2>1. version \in Seq(VersionRows) /\ row \in VersionRows
    BY <1>1, NewRowsTyped DEF TypeOK
  <2>2. version' = Append(version, row)
    BY DEF Write
  <2> HIDE DEF row
  <2>3. /\ DOMAIN version' = 1 .. Len(version) + 1
        /\ DOMAIN version = 1 .. Len(version)
        /\ Len(version) \in Nat
        /\ \A v \in 1 .. Len(version) : version'[v] = version[v]
        /\ version'[Len(version) + 1] = row
    BY <2>1, <2>2, Appended
  <2> QED
    BY <2>3 DEF row
<1>3. /\ DOMAIN source' = DOMAIN source \cup {RowOf(w)}
      /\ \A i \in DOMAIN source : source'[i] = source[i]
      /\ RowOf(w) \notin DOMAIN source => \A i \in DOMAIN source : Row(i) # Key(w)
      /\ source'[RowOf(w)] \in SourceRows
      /\ <<source'[RowOf(w)].project, source'[RowOf(w)].address>> = Key(w)
  <2>1. CASE worker[w].source = 0
    <3> DEFINE row == [project |-> Key(w)[1], address |-> Key(w)[2]]
    <3>1. row \in SourceRows /\ <<row.project, row.address>> = Key(w)
      BY <1>1 DEF Keys, SourceRows
    <3>2. /\ DOMAIN source' = DOMAIN source \cup {RowOf(w)}
          /\ \A i \in DOMAIN source : source'[i] = source[i]
          /\ source'[RowOf(w)] = row
      BY <1>1, <2>1, <3>1, Appended DEF Write, TypeOK, RowOf
    <3> QED
      BY <1>1, <2>1, <3>1, <3>2 DEF FoundSource
  <2>2. CASE worker[w].source # 0
    <3>1. RowOf(w) = worker[w].source /\ RowOf(w) \in DOMAIN source /\ source' = source
      BY <1>1, <2>2 DEF FoundSource, RowOf, Write
    <3>2. source[RowOf(w)] \in SourceRows
      BY <1>1, <3>1 DEF TypeOK
    <3> QED
      BY <1>1, <2>2, <3>1, <3>2 DEF FoundSource, Row
  <2> QED
    BY <2>1, <2>2
<1>4. /\ DOMAIN chunk \subseteq DOMAIN chunk'
      /\ \A c \in DOMAIN chunk : chunk'[c] = chunk[c]
      /\ DOMAIN chunk' \ DOMAIN chunk
            = (Len(chunk) + 1) .. (Len(chunk) + Pieces(Text(w)))
      /\ \A c \in DOMAIN chunk' \ DOMAIN chunk : chunk'[c].version = Len(version) + 1
  <2> DEFINE new == NewChunks(Text(w))
             n == Pieces(Text(w))
  <2>1. /\ new \in Seq(ChunkRows) /\ chunk \in Seq(ChunkRows)
        /\ Len(new) = n /\ n \in Nat /\ Len(chunk) \in Nat
        /\ \A p \in 1 .. n : new[p] = [version |-> Len(version) + 1, position |-> p - 1]
    BY <1>1, NewRowsTyped DEF TypeOK
  <2>2. chunk' = chunk \o new
    BY DEF Write
  <2>3. /\ chunk' \in Seq(ChunkRows)
        /\ Len(chunk') = Len(chunk) + n
        /\ \A i \in 1 .. Len(chunk) + n :
              chunk'[i] = IF i <= Len(chunk) THEN chunk[i] ELSE new[i - Len(chunk)]
    BY <2>1, <2>2, ConcatProperties
  <2> HIDE DEF new, n
  <2>4. DOMAIN chunk = 1 .. Len(chunk) /\ DOMAIN chunk' = 1 .. Len(chunk) + n
    BY <2>1, <2>3
  <2>5. \A c \in DOMAIN chunk : chunk'[c] = chunk[c]
    BY <2>1, <2>3, <2>4
  <2>6. ASSUME NEW c \in DOMAIN chunk' \ DOMAIN chunk
        PROVE  /\ c \in (Len(chunk) + 1) .. (Len(chunk) + n)
               /\ chunk'[c].version = Len(version) + 1
    <3>1. c \in 1 .. Len(chunk) + n /\ ~ (c <= Len(chunk)) /\ c - Len(chunk) \in 1 .. n
      BY <2>1, <2>4
    <3>2. chunk'[c] = [version |-> Len(version) + 1, position |-> (c - Len(chunk)) - 1]
      BY <2>1, <2>3, <3>1
    <3> QED
      BY <2>1, <3>1, <3>2
  <2>7. DOMAIN chunk' \ DOMAIN chunk = (Len(chunk) + 1) .. (Len(chunk) + n)
    BY <2>1, <2>4
  <2> QED
    BY <2>1, <2>4, <2>5, <2>6, <2>7 DEF n
<1> QED
  BY <1>2, <1>3, <1>4

\* In particular, what is true of the old versions and of the new one is true of
\* the versions after Write.
LEMMA WriteVersion ==
  ASSUME Inv, NEW w \in Workers, Write(w), NEW v \in DOMAIN version'
  PROVE  \/ v \in DOMAIN version /\ version'[v] = version[v]
         \/ version'[v] = [source |-> RowOf(w), text |-> Text(w)]
  BY WriteRows

\* A function with one more element is injective if the element is new.
LEMMA OneMore ==
  ASSUME NEW f, NEW g, NEW n, IsInjective(f),
         DOMAIN g = DOMAIN f \cup {n},
         \A i \in DOMAIN f : g[i] = f[i],
         n \notin DOMAIN f => \A i \in DOMAIN f : f[i] # g[n]
  PROVE  IsInjective(g)
<1>1. CASE n \in DOMAIN f
  <2>1. DOMAIN g = DOMAIN f
    BY <1>1
  <2> QED
    BY <2>1 DEF IsInjective
<1>2. CASE n \notin DOMAIN f
  <2> SUFFICES ASSUME NEW a \in DOMAIN g, NEW b \in DOMAIN g, g[a] = g[b]
               PROVE  a = b
    BY DEF IsInjective
  <2>1. CASE a = n /\ b = n
    BY <2>1
  <2>2. CASE a = n /\ b # n
    BY <1>2, <2>2
  <2>3. CASE a # n /\ b = n
    BY <1>2, <2>3
  <2>4. CASE a # n /\ b # n
    BY <2>4 DEF IsInjective
  <2> QED
    BY <2>1, <2>2, <2>3, <2>4
<1> QED
  BY <1>1, <1>2

\* What is new belongs to the new version, which nobody has received before.
LEMMA WriteKeepsReceived ==
  ASSUME Inv, NEW w \in Workers, Write(w)
  PROVE  ReceivesItsText'
<1>1. TypeOK /\ Referring /\ ReceivesItsText /\ worker[w].of \in Materials
  BY WorkerTyped, AtWork DEF Inv, Write
<1> DEFINE v == Len(version) + 1
           fresh == (Len(chunk) + 1) .. (Len(chunk) + Pieces(Text(w)))
           new == [of |-> worker[w].of, chunks |-> fresh]
           Of(x) == {c \in DOMAIN chunk' : chunk'[c].version = x}
           Right(r) == \E x \in DOMAIN version' :
                          /\ version'[x].text = r.of.text
                          /\ LET i == source'[version'[x].source]
                             IN <<i.project, i.address>> = r.of.key
                          /\ r.chunks = Of(x)
<1>2. \A u \in Workers : \A r \in received'[u] : r \notin received[u] => r = new
  BY <1>1 DEF Write, Receives, TypeOK
<1>3. Of(v) = fresh
  <2>1. \A c \in DOMAIN chunk : chunk'[c].version # v
    BY <1>1, WriteRows DEF Referring
  <2>2. \A c \in DOMAIN chunk' : chunk'[c].version = v <=> c \notin DOMAIN chunk
    BY <2>1, WriteRows
  <2>3. DOMAIN chunk' \ DOMAIN chunk = fresh
    BY WriteRows
  <2> HIDE DEF fresh, v
  <2> QED
    BY <2>2, <2>3
<1>4. Right(new)
  <2>1. /\ v \in DOMAIN version' /\ version'[v] = [source |-> RowOf(w), text |-> Text(w)]
        /\ <<source'[RowOf(w)].project, source'[RowOf(w)].address>> = Key(w)
    <3> HIDE DEF new, Of, fresh, Right
    <3> QED
      BY WriteRows
  <2>2. new.of.text = Text(w) /\ new.of.key = Key(w) /\ new.chunks = Of(v)
    BY <1>3 DEF Text, Key
  <2> HIDE DEF new, v, Of
  <2> QED
    BY <2>1, <2>2
<1>5. ASSUME NEW u \in Workers, NEW r \in received[u]
      PROVE  Right(r)
  <2>1. PICK x \in DOMAIN version :
            /\ version[x].text = r.of.text
            /\ LET i == source[version[x].source]
               IN <<i.project, i.address>> = r.of.key
            /\ r.chunks = ChunksOf(x)
    BY <1>1, <1>5 DEF ReceivesItsText
  <2>2. /\ x \in DOMAIN version' /\ version'[x] = version[x]
        /\ version[x].source \in DOMAIN source
        /\ source'[version[x].source] = source[version[x].source]
        /\ x # v
    BY <1>1, WriteRows DEF Referring
  <2>3. Of(x) = ChunksOf(x)
    <3>1. \A c \in DOMAIN chunk : c \in DOMAIN chunk' /\ chunk'[c] = chunk[c]
      BY WriteRows
    <3>2. \A c \in DOMAIN chunk' : c \notin DOMAIN chunk => chunk'[c].version = v
      BY WriteRows
    <3> HIDE DEF v
    <3> QED
      BY <2>2, <3>1, <3>2 DEF ChunksOf
  <2> HIDE DEF Of, v
  <2> QED
    BY <2>1, <2>2, <2>3
<1>6. \A u \in Workers : \A r \in received'[u] : Right(r)
  <2> HIDE DEF new, Right
  <2> QED
    BY <1>2, <1>4, <1>5
<1> QED
  BY <1>6 DEF ReceivesItsText, ChunksOf

\* Write adds one source at most, and one version, that were not there.
LEMMA WriteKeepsOneEach ==
  ASSUME Inv, NEW w \in Workers, Write(w)
  PROVE  OneRowEach'
<1>1. TypeOK /\ Referring /\ OneRowEach /\ FoundSource(w) /\ FoundVersion(w)
  BY DEF Inv, LookedUp, Write
<1>2. IsInjective(source')
  <2>1. \A i \in DOMAIN source : source[i] \in SourceRows
    BY <1>1 DEF TypeOK
  <2>2. RowOf(w) \notin DOMAIN source => \A i \in DOMAIN source : source[i] # source'[RowOf(w)]
    BY <2>1, WriteRows DEF Row
  <2>3. IsInjective(source)
    BY <1>1 DEF OneRowEach
  <2> QED
    BY <2>2, <2>3, WriteRows, OneMore
<1>3. IsInjective(version')
  <2>1. \A v \in DOMAIN version : version[v] # [source |-> RowOf(w), text |-> Text(w)]
    <3>1. CASE worker[w].source = 0
      <4>1. RowOf(w) \notin DOMAIN source
        BY <1>1, <3>1 DEF RowOf, TypeOK
      <4> QED
        BY <1>1, <4>1 DEF Referring
    <3>2. CASE worker[w].source # 0
      BY <1>1, <3>2 DEF FoundVersion, RowOf, Write
    <3> QED
      BY <3>1, <3>2
  <2>2. IsInjective(version)
    BY <1>1 DEF OneRowEach
  <2>3. \A v \in DOMAIN version : version[v] # version'[Len(version) + 1]
    BY <2>1, WriteRows
  <2>4. /\ DOMAIN version' = DOMAIN version \cup {Len(version) + 1}
        /\ \A v \in DOMAIN version : version'[v] = version[v]
    BY WriteRows
  <2> QED
    BY <2>2, <2>3, <2>4, OneMore
<1> QED
  BY <1>2, <1>3 DEF OneRowEach

\* What another execution has found under the lock of its own address is not
\* touched by Write: the address is a different one.
LEMMA WriteKeepsFinds ==
  ASSUME Inv, NEW w \in Workers, Write(w),
         NEW u \in Workers, u # w, At(u, "write"), worker'[u] = worker[u]
  PROVE  (FoundSource(u) /\ FoundVersion(u))'
<1>1. /\ TypeOK /\ Referring
      /\ FoundSource(u) /\ FoundVersion(u) /\ FoundSource(w)
  BY DEF Inv, LookedUp, Write
<1>2. Key(u) # Key(w)
  BY DEF Inv, Locked, Write
<1>3. Key(u)' = Key(u) /\ Text(u)' = Text(u)
  BY DEF Key, Text
<1>4. FoundSource(u)'
  <2>1. \A i \in DOMAIN source : Row(i)' = Row(i)
    BY WriteRows DEF Row
  <2>2. <<source'[RowOf(w)].project, source'[RowOf(w)].address>> # Key(u)
    BY <1>2, WriteRows
  <2>3. CASE worker[u].source = 0
    <3>1. \A i \in DOMAIN source' :
             <<source'[i].project, source'[i].address>> # Key(u)
      <4>1. /\ DOMAIN source' = DOMAIN source \cup {RowOf(w)}
            /\ \A i \in DOMAIN source : source'[i] = source[i]
        BY WriteRows
      <4>2. \A i \in DOMAIN source : <<source[i].project, source[i].address>> # Key(u)
        BY <1>1, <2>3 DEF FoundSource, Row
      <4> QED
        BY <2>2, <4>1, <4>2
    <3> QED
      BY <1>3, <2>3, <3>1 DEF FoundSource, Row
  <2>4. CASE worker[u].source # 0
    <3>1. /\ worker[u].source \in DOMAIN source'
          /\ source'[worker[u].source] = source[worker[u].source]
      BY <1>1, <2>4, WriteRows DEF FoundSource
    <3> QED
      BY <1>1, <1>3, <2>4, <3>1 DEF FoundSource, Row
  <2> QED
    BY <2>3, <2>4
<1>5. FoundVersion(u)'
  <2>1. CASE worker[u].version = 0
    <3>1. worker[u].source # RowOf(w)
      <4>1. CASE worker[u].source = 0
        BY <1>1, <4>1, NewRowsTyped DEF Write
      <4>2. CASE worker[u].source # 0
        <5>1. worker[u].source \in DOMAIN source /\ Row(worker[u].source) = Key(u)
          BY <1>1, <4>2 DEF FoundSource
        <5>2. /\ \A i \in DOMAIN source : source'[i] = source[i]
              /\ <<source'[RowOf(w)].project, source'[RowOf(w)].address>> = Key(w)
          BY WriteRows
        <5>3. worker[u].source = RowOf(w) => Key(u) = Key(w)
          BY <5>1, <5>2 DEF Row
        <5> QED
          BY <1>2, <5>3
      <4> QED
        BY <4>1, <4>2
    <3>2. ASSUME NEW v \in DOMAIN version'
          PROVE  version'[v] # [source |-> worker[u].source, text |-> Text(u)]
      BY <1>1, <2>1, <3>1, WriteVersion DEF FoundVersion
    <3> QED
      BY <1>3, <2>1, <3>2 DEF FoundVersion
  <2>2. CASE worker[u].version # 0
    <3>1. /\ worker[u].version \in DOMAIN version'
          /\ version'[worker[u].version] = version[worker[u].version]
      BY <1>1, <2>2, WriteRows DEF FoundVersion
    <3> QED
      BY <1>1, <1>3, <2>2, <3>1 DEF FoundVersion
  <2> QED
    BY <2>1, <2>2
<1> QED
  BY <1>4, <1>5

LEMMA WriteKeeps ==
  ASSUME Inv, NEW w \in Workers, Write(w)
  PROVE  Inv'
<1>1. TypeOK /\ TypeOK' /\ At(w, "write")
  BY NextTyped DEF Inv, Next, Works, Write
<1>2. /\ Locked' /\ Stored'
      /\ \A u \in Workers : At(u, "write")' =>
            /\ u # w /\ worker'[u] = worker[u] /\ At(u, "write")
            /\ Key(u)' = Key(u) /\ Text(u)' = Text(u)
  BY <1>1, EndsKeeps DEF Write
<1>3. LookedUp'
  BY <1>2, WriteKeepsFinds DEF LookedUp
<1>4. Referring'
  <2>1. ASSUME NEW v \in DOMAIN version'
        PROVE  version'[v].source \in DOMAIN source'
    <3>1. DOMAIN source' = DOMAIN source \cup {RowOf(w)}
      BY WriteRows
    <3> QED
      BY <3>1, WriteVersion DEF Inv, Referring
  <2>2. \A c \in DOMAIN chunk' : chunk'[c].version \in DOMAIN version'
    BY WriteRows DEF Inv, Referring
  <2> QED
    BY <2>1, <2>2 DEF Referring
<1>5. VersionsHaveObjects'
  <2>1. Text(w) \in objects /\ objects' = objects
    BY <1>1 DEF Inv, Stored, Write
  <2>2. \A v \in DOMAIN version : version[v].text \in objects
    BY DEF Inv, VersionsHaveObjects
  <2>3. ASSUME NEW v \in DOMAIN version'
        PROVE  version'[v].text \in objects
    BY <2>1, <2>2, WriteVersion
  <2> QED
    BY <2>1, <2>3 DEF VersionsHaveObjects
<1> QED
  BY <1>1, <1>2, <1>3, <1>4, <1>5, WriteKeepsReceived, WriteKeepsOneEach DEF Inv

\* Every step keeps the invariant.
LEMMA NextInv == Inv /\ [Next]_vars => Inv'
<1> SUFFICES ASSUME Inv, [Next]_vars PROVE Inv'
  OBVIOUS
<1>1. CASE UNCHANGED vars
  <2>1. TypeOK'
    BY NextTyped DEF Inv
  <2>2. UNCHANGED <<objects, rows, lock, worker, received>>
    BY <1>1 DEF vars
  <2>3. Locked' /\ Stored'
    BY <2>2 DEF Inv, Locked, Stored, At, Key, Text
  <2>4. LookedUp'
    BY <2>2, RowsStay DEF Inv, LookedUp, At
  <2> QED
    BY <2>1, <2>2, <2>3, <2>4, RowsStay DEF Inv
<1> QED
  BY <1>1, CallKeeps, PutKeeps, LockKeeps, LookKeeps, ReturnKeeps, WriteKeeps,
     FailKeeps DEF Next, Works

LEMMA AlwaysInv == Spec => []Inv
  BY InitInv, NextInv, PTL DEF Spec

\* However many executions ingest an address at once, die and are repeated, it
\* becomes one source of its project, and each text of it one version.
THEOREM OneRowForEach == Spec => []OneRowEach
<1>1. Inv => OneRowEach
  BY DEF Inv
<1> QED
  BY <1>1, AlwaysInv, PTL

\* What an execution receives are the chunks of the text it brought, all of them
\* and no others, whoever stored them.
THEOREM ReceivesWhatItBrought == Spec => []ReceivesItsText
<1>1. Inv => ReceivesItsText
  BY DEF Inv
<1> QED
  BY <1>1, AlwaysInv, PTL

\* No crash leaves a version without the object it was cut from.
THEOREM ObjectsComeFirst == Spec => []VersionsHaveObjects
<1>1. Inv => VersionsHaveObjects
  BY DEF Inv
<1> QED
  BY <1>1, AlwaysInv, PTL

-----------------------------------------------------------------------------
(* Quotations: every piece of a stored text has its chunk.                  *)

\* Division rounds down.
LEMMA Division ==
  ASSUME NEW a \in Nat, NEW b \in Nat \ {0}
  PROVE  /\ a \div b \in Nat
         /\ b * (a \div b) <= a
         /\ a < b * (a \div b) + b
  OBVIOUS

\* A larger factor makes a larger product.
LEMMA Factors ==
  ASSUME NEW b \in Nat \ {0}, NEW p \in Nat, NEW q \in Nat, b * p < b * q
  PROVE  p < q
  OBVIOUS

\* The piece that starts last before a place is there, and has Overlap + 1 units
\* from there, as far as the text goes.
LEMMA PieceOfPlace ==
  ASSUME NEW text \in Nat, NEW from \in 0 .. text - 1,
         NEW length \in 1 .. Overlap + 1, from + length <= text
  PROVE  \E p \in Nat : /\ p < Pieces(text)
                        /\ Start(p) <= from
                        /\ from + length <= End(p, text)
<1> DEFINE p == from \div Step
           q == (text + Step - 1) \div Step
<1>1. Step \in Nat \ {0} /\ Window \in Nat /\ Step <= Window
  BY ProvenanceConstants
<1>2. p \in Nat /\ Step * p <= from /\ from < Step * p + Step
  BY <1>1, Division
<1>3. q \in Nat /\ text + Step - 1 < Step * q + Step
  <2>1. text + Step - 1 \in Nat
    BY <1>1
  <2> QED
    BY <1>1, <2>1, Division
<1> HIDE DEF p, q
<1>4. Step * p \in Nat /\ Step * q \in Nat
  BY <1>1, <1>2, <1>3
<1>5. Step * p < Step * q
  BY <1>1, <1>2, <1>3, <1>4
<1>6. p < q
  BY <1>1, <1>2, <1>3, <1>5, Factors
<1>7. from + length <= Step * p + Window
  BY <1>1, <1>2, <1>4 DEF Overlap
<1>8. Pieces(text) = q
  BY DEF Pieces, q
<1> QED
  BY <1>2, <1>6, <1>7, <1>8 DEF Start, End

\* Every piece of a stored text has its chunk.
Chunked ==
  \A v \in DOMAIN version : \A p \in Nat : p < Pieces(version[v].text) =>
      \E c \in ChunksOf(v) : chunk[c].position = p

\* Write stores the chunks of the new version and leaves those of the others.
LEMMA WriteKeepsChunked ==
  ASSUME Inv, Chunked, NEW w \in Workers, Write(w)
  PROVE  Chunked'
<1>1. TypeOK /\ At(w, "write")
  BY DEF Inv, Write
<1>2. /\ Pieces(Text(w)) \in Nat /\ Len(chunk) \in Nat
      /\ DOMAIN chunk' \ DOMAIN chunk = (Len(chunk) + 1) .. (Len(chunk) + Pieces(Text(w)))
  BY <1>1, NewRowsTyped, WriteRows
<1> SUFFICES ASSUME NEW v \in DOMAIN version', NEW p \in Nat,
                    p < Pieces(version'[v].text)
             PROVE  \E c \in DOMAIN chunk' :
                       chunk'[c].version = v /\ chunk'[c].position = p
  BY DEF Chunked, ChunksOf
<1>3. CASE v \in DOMAIN version
  <2>1. version'[v] = version[v]
    BY <1>3, WriteRows
  <2>2. PICK c \in DOMAIN chunk : chunk[c].version = v /\ chunk[c].position = p
    BY <1>3, <2>1 DEF Chunked, ChunksOf
  <2>3. c \in DOMAIN chunk' /\ chunk'[c] = chunk[c]
    BY WriteRows
  <2> QED
    BY <2>2, <2>3
<1>4. CASE v \notin DOMAIN version
  <2>1. v = Len(version) + 1 /\ version'[v].text = Text(w)
    <3>1. /\ DOMAIN version' = DOMAIN version \cup {Len(version) + 1}
          /\ version'[Len(version) + 1] = [source |-> RowOf(w), text |-> Text(w)]
      BY WriteRows
    <3> QED
      BY <1>4, <3>1
  <2> DEFINE c == Len(chunk) + p + 1
  <2>2. c \in (Len(chunk) + 1) .. (Len(chunk) + Pieces(Text(w)))
    BY <1>2, <2>1
  <2>3. c \in DOMAIN chunk' \ DOMAIN chunk
    BY <1>2, <2>2
  <2>4. chunk'[c].version = v
    <3> HIDE DEF c
    <3> QED
      BY <2>1, <2>3, WriteRows
  <2>5. chunk'[c].position = p
    <3>0. /\ Len(NewChunks(Text(w))) = Pieces(Text(w))
          /\ \A k \in 1 .. Pieces(Text(w)) :
                NewChunks(Text(w))[k] = [version |-> Len(version) + 1, position |-> k - 1]
      BY <1>1, NewRowsTyped
    <3>1. chunk \in Seq(ChunkRows) /\ NewChunks(Text(w)) \in Seq(ChunkRows)
      BY <1>1, NewRowsTyped DEF TypeOK
    <3>2. chunk'[c] = NewChunks(Text(w))[p + 1]
      <4>1. chunk' = chunk \o NewChunks(Text(w))
        BY DEF Write
      <4>2. c \in 1 .. Len(chunk) + Len(NewChunks(Text(w)))
        BY <1>2, <2>2, <3>0
      <4>3. ~ (c <= Len(chunk)) /\ c - Len(chunk) = p + 1
        BY <1>2
      <4> HIDE DEF c
      <4> QED
        BY <3>1, <4>1, <4>2, <4>3, ConcatProperties
    <3>3. NewChunks(Text(w))[p + 1] = [version |-> Len(version) + 1, position |-> (p + 1) - 1]
      <4>1. p + 1 \in 1 .. Pieces(Text(w))
        BY <1>2, <2>1
      <4> QED
        BY <3>0, <4>1
    <3> QED
      BY <3>2, <3>3
  <2> QED
    BY <2>3, <2>4, <2>5
<1> QED
  BY <1>3, <1>4

\* No other step touches a version or a chunk.
LEMMA NextChunked == Inv /\ Chunked /\ [Next]_vars => Chunked'
<1> SUFFICES ASSUME Inv, Chunked, [Next]_vars PROVE Chunked'
  OBVIOUS
<1>1. CASE UNCHANGED <<version, chunk>>
  BY <1>1 DEF Chunked, ChunksOf
<1>2. ASSUME NEW w \in Workers,
             \/ \E material \in Materials : Call(w, material)
             \/ Lock(w) \/ Put(w) \/ Look(w) \/ Return(w) \/ Fail(w)
      PROVE  UNCHANGED <<version, chunk>>
  BY <1>2 DEF Call, Lock, Put, Look, Return, Fail, rows
<1>3. UNCHANGED vars => UNCHANGED <<version, chunk>>
  BY DEF vars, rows
<1> QED
  BY <1>1, <1>2, <1>3, WriteKeepsChunked DEF Next, Works

\* Every stretch of a stored text that is not longer than Overlap + 1 lies in one
\* chunk of its version, whatever the windows and however the text is cut.
THEOREM QuotesFit == Spec => []QuotesFitChunks
<1>1. Init => Chunked
  BY DEF Init, Chunked
<1>2. Inv /\ Chunked => QuotesFitChunks
  <2> SUFFICES ASSUME Inv, Chunked, NEW v \in DOMAIN version,
                      NEW from \in 0 .. version[v].text - 1,
                      NEW length \in 1 .. Overlap + 1,
                      from + length <= version[v].text
               PROVE  Quotable(v, from, from + length)
    BY DEF QuotesFitChunks
  <2>1. version[v].text \in Nat
    <3>1. version[v] \in VersionRows
      BY DEF Inv, TypeOK
    <3> QED
      BY <3>1, ProvenanceConstants DEF VersionRows
  <2>2. PICK p \in Nat : /\ p < Pieces(version[v].text)
                         /\ Start(p) <= from
                         /\ from + length <= End(p, version[v].text)
    BY <2>1, PieceOfPlace
  <2>3. PICK c \in ChunksOf(v) : chunk[c].position = p
    BY <2>2 DEF Chunked
  <2> QED
    BY <2>2, <2>3 DEF Quotable
<1> QED
  BY <1>1, <1>2, AlwaysInv, NextChunked, PTL DEF Spec
=============================================================================
