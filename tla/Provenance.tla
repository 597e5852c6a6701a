------------------------------- MODULE Provenance -------------------------------
(***************************************************************************)
(* How material gets into the knowledge base: ingest() of tools/knowledge.py*)
(* stores the text as an object (tools/storage.py), then, in a transaction  *)
(* under an advisory lock of its address, the source, the version of it and *)
(* the chunks that evidence quotes.  Collections of runs (collect() of      *)
(* orchestrator/workflow.py) and people (intake() of api/research.py) do so *)
(* side by side; each may fail or die at any step, and be repeated.         *)
(*                                                                          *)
(* A text is its length, in units of the chunking: texts that differ have   *)
(* different lengths.  The lock's key is a digest of project and address;   *)
(* digests are taken to be distinct.                                        *)
(***************************************************************************)
EXTENDS Integers, FiniteSets, Sequences, Functions

CONSTANTS
    Workers,    \* executions that ingest: of runs, and of the API
    Projects,
    Addresses,
    Texts,      \* lengths of the texts an address may have
    MinLength,  \* 100: shorter texts are refused
    Window,     \* 1600: length of a chunk
    Step,       \* 1400: from the start of a chunk to that of the next one
    NoWorker,
    MaxIngests, \* bound: calls of ingest()
    MaxFaults   \* bound: exceptions and crashes

ASSUME ProvenanceConstants ==
    /\ Texts \subseteq Nat
    /\ MinLength \in Nat \ {0}
    /\ Step \in Nat \ {0}
    /\ Window \in Nat
    /\ Step <= Window
    /\ NoWorker \notin Workers
    /\ MaxIngests \in Nat
    /\ MaxFaults \in Nat

VARIABLES
    objects,   \* texts in the object store
    source,    \* sources: project, address
    version,   \* source_versions: source, text
    chunk,     \* source_chunks: version, position
    lock,      \* advisory locks: who has that of a project's address
    worker,    \* where each execution of ingest() is
    received,  \* what each execution has got: the material, and its chunks
    ingests, faults

rows == <<source, version, chunk>>
bounds == <<ingests, faults>>
vars == <<objects, rows, lock, worker, received, bounds>>

Keys == Projects \X Addresses
Materials == [key : Keys, text : Texts]
SourceRows == [project : Projects, address : Addresses]
VersionRows == [source : Nat \ {0}, text : Texts]
ChunkRows == [version : Nat \ {0}, position : Nat]

\* source and version: the rows found under the lock, 0 without.
WorkerRows ==
    [step : {"put", "lock", "look", "write"}, of : Materials,
     source : Nat, version : Nat]
Idle == [step |-> "idle"]

TypeOK ==
    /\ objects \subseteq Texts
    /\ source \in Seq(SourceRows)
    /\ version \in Seq(VersionRows)
    /\ chunk \in Seq(ChunkRows)
    /\ lock \in [Keys -> Workers \cup {NoWorker}]
    /\ worker \in [Workers -> WorkerRows \cup {Idle}]
    /\ received \in [Workers -> SUBSET [of : Materials, chunks : SUBSET Nat]]
    /\ ingests \in 0 .. MaxIngests
    /\ faults \in 0 .. MaxFaults

Init ==
    /\ objects = {}
    /\ source = <<>>
    /\ version = <<>>
    /\ chunk = <<>>
    /\ lock = [k \in Keys |-> NoWorker]
    /\ worker = [w \in Workers |-> Idle]
    /\ received = [w \in Workers |-> {}]
    /\ ingests = 0
    /\ faults = 0

At(w, step) == worker[w].step = step
Key(w) == worker[w].of.key
Text(w) == worker[w].of.text

-----------------------------------------------------------------------------
(* The pieces of a text: content[start:start + 1600] for start in            *)
(* range(0, len(content), 1400).                                             *)

\* Mutant: the rest of the text after the last full step is left out.
PiecesOfSteps(text) == text \div Step
Pieces(text) == (text + Step - 1) \div Step
Start(position) == Step * position
End(position, text) ==
    IF text < Start(position) + Window THEN text ELSE Start(position) + Window

ChunksOf(v) == {c \in DOMAIN chunk : chunk[c].version = v}

-----------------------------------------------------------------------------

Call(w, material) ==
    /\ worker[w] = Idle
    /\ ingests < MaxIngests
    /\ material.text >= MinLength
    /\ ingests' = ingests + 1
    /\ worker' = [worker EXCEPT ![w] = [step |-> "put", of |-> material,
                                        source |-> 0, version |-> 0]]
    /\ UNCHANGED <<objects, rows, lock, received, faults>>

\* put_text(): the object of this text, before there is a row about it.
Put(w) ==
    /\ At(w, "put")
    /\ objects' = objects \cup {Text(w)}
    /\ worker' = [worker EXCEPT ![w].step = "lock"]
    /\ UNCHANGED <<rows, lock, received, bounds>>

\* Mutant: nobody is waited for.
LockRegardless(w) ==
    /\ At(w, "lock")
    /\ lock' = [lock EXCEPT ![Key(w)] = w]
    /\ worker' = [worker EXCEPT ![w].step = "look"]
    /\ UNCHANGED <<objects, rows, received, bounds>>

\* pg_advisory_xact_lock()
Lock(w) ==
    /\ At(w, "lock")
    /\ lock[Key(w)] = NoWorker
    /\ lock' = [lock EXCEPT ![Key(w)] = w]
    /\ worker' = [worker EXCEPT ![w].step = "look"]
    /\ UNCHANGED <<objects, rows, received, bounds>>

\* The number of the row that satisfies a condition, 0 without.
SourceOf(key) ==
    LET found == {i \in DOMAIN source :
                      <<source[i].project, source[i].address>> = key}
    IN IF found = {} THEN 0 ELSE CHOOSE i \in found : TRUE
VersionOf(i, text) ==
    LET found == {v \in DOMAIN version : version[v] = [source |-> i, text |-> text]}
    IN IF found = {} THEN 0 ELSE CHOOSE v \in found : TRUE

Look(w) ==
    LET i == SourceOf(Key(w))
    IN /\ At(w, "look")
       /\ worker' = [worker EXCEPT ![w].step = "write", ![w].source = i,
                                   ![w].version = VersionOf(i, Text(w))]
       /\ UNCHANGED <<objects, rows, lock, received, bounds>>

\* The end of the transaction releases the lock.
Ends(w) ==
    /\ worker' = [worker EXCEPT ![w] = Idle]
    /\ lock' = [k \in Keys |-> IF lock[k] = w THEN NoWorker ELSE lock[k]]

Receives(w, chunks) ==
    received' = [received EXCEPT ![w] = @ \cup {[of |-> worker[w].of,
                                                 chunks |-> chunks]}]

\* Mutant: chunks that are known already are not returned.
ReturnNothing(w) ==
    /\ At(w, "write")
    /\ worker[w].version # 0
    /\ Receives(w, {})
    /\ Ends(w)
    /\ UNCHANGED <<objects, rows, bounds>>

\* The version is known: its chunks are returned.
Return(w) ==
    /\ At(w, "write")
    /\ worker[w].version # 0
    /\ Receives(w, ChunksOf(worker[w].version))
    /\ Ends(w)
    /\ UNCHANGED <<objects, rows, bounds>>

\* The number of the source, of the next one if it is new; the chunks of a text.
RowOf(w) == IF worker[w].source = 0 THEN Len(source) + 1 ELSE worker[w].source
NewChunks(text) ==
    [p \in 1 .. Pieces(text) |-> [version |-> Len(version) + 1, position |-> p - 1]]

\* The version and its chunks are stored, and the source if it is new.
Write(w) ==
    /\ At(w, "write")
    /\ worker[w].version = 0
    /\ source' = IF worker[w].source = 0
                 THEN Append(source, [project |-> Key(w)[1], address |-> Key(w)[2]])
                 ELSE source
    /\ version' = Append(version, [source |-> RowOf(w), text |-> Text(w)])
    /\ chunk' = chunk \o NewChunks(Text(w))
    /\ Receives(w, (Len(chunk) + 1) .. (Len(chunk) + Pieces(Text(w))))
    /\ Ends(w)
    /\ UNCHANGED <<objects, bounds>>

\* Mutant: the lock of a dead execution stays.
FailKeepsLock(w) ==
    /\ worker[w] # Idle
    /\ faults < MaxFaults
    /\ faults' = faults + 1
    /\ worker' = [worker EXCEPT ![w] = Idle]
    /\ UNCHANGED <<objects, rows, lock, received, ingests>>

\* An exception or a crash; the transaction is rolled back.
Fail(w) ==
    /\ worker[w] # Idle
    /\ faults < MaxFaults
    /\ faults' = faults + 1
    /\ Ends(w)
    /\ UNCHANGED <<objects, rows, received, ingests>>

Works(w) == Put(w) \/ Look(w) \/ Return(w) \/ Write(w)

Next ==
    \E w \in Workers :
        \/ \E material \in Materials : Call(w, material)
        \/ Lock(w) \/ Works(w) \/ Fail(w)

Spec == Init /\ [][Next]_vars

\* Executions go on while their process lives, and PostgreSQL hands a lock to
\* those that wait for it in turn.
FairSpec ==
    /\ Spec
    /\ \A w \in Workers : WF_vars(Works(w)) /\ SF_vars(Lock(w))

-----------------------------------------------------------------------------
\* However many executions ingest an address at once, it becomes one source
\* of its project, and each text of it one version.
OneRowEach ==
    /\ IsInjective(source)
    /\ IsInjective(version)

\* A version has its object: a crash between the two leaves an object without
\* a version, never a version without an object.
VersionsHaveObjects == \A v \in DOMAIN version : version[v].text \in objects

\* Every short stretch of a stored text can be quoted: it lies in one chunk of
\* its version, though chunks are cut without regard to the text.
Overlap == Window - Step
Quotable(v, from, to) ==
    \E c \in ChunksOf(v) :
        /\ Start(chunk[c].position) <= from
        /\ to <= End(chunk[c].position, version[v].text)
QuotesFitChunks ==
    \A v \in DOMAIN version :
        \A from \in 0 .. version[v].text - 1, length \in 1 .. Overlap + 1 :
            from + length <= version[v].text => Quotable(v, from, from + length)

\* What an execution receives are the chunks of the text it brought, all of
\* them and no others, whoever stored them.
ReceivesItsText ==
    \A w \in Workers : \A r \in received[w] :
        \E v \in DOMAIN version :
            /\ version[v].text = r.of.text
            /\ LET s == source[version[v].source]
               IN <<s.project, s.address>> = r.of.key
            /\ r.chunks = ChunksOf(v)

\* An execution that waits for the lock of its address gets on, whatever
\* becomes of the one that has it.
IngestEnds == \A w \in Workers : worker[w] # Idle ~> worker[w] = Idle
=============================================================================
