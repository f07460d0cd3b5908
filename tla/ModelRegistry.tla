--------------------------- MODULE ModelRegistry ---------------------------
(***************************************************************************)
(* The model registry: the table infer.models, shared by every PostgreSQL  *)
(* backend process (here: session), and the process-local BACKEND_CACHE    *)
(* each of them keeps of the models it has loaded (src/src/registry.rs),   *)
(* with the SQL functions that write the table (src/src/model_mgmt.rs).    *)
(*                                                                         *)
(* A registration is a number: every upsert of a row is a new one.  Where  *)
(* the model lives (mmap, one server, a grid) only matters through the     *)
(* bytes its backend reports: 0 for the remote kinds.                      *)
(*                                                                         *)
(* The table follows PostgreSQL at READ COMMITTED: a session sees what is  *)
(* committed and its own writes, a write waits for the transaction that    *)
(* holds the row, an error rolls the whole transaction back, or, under a   *)
(* SAVEPOINT or in a PL/pgSQL block with an EXCEPTION clause, what was     *)
(* written since; the registry hears of neither.                           *)
(***************************************************************************)
EXTENDS Integers, Sequences, SequencesExt, FiniteSets, Lists

CONSTANTS
    Sessions,   \* PostgreSQL backend processes
    Models,     \* model names
    Sizes,      \* what approx_resident_bytes() may report at insertion
    Budgets,    \* values of infer.max_memory, whose minimum is 512 MB
    MaxReg,     \* bound: registrations issued
    MaxBatch,   \* bound: models one registering call names
    MaxSavepoints, \* bound: open savepoints of a session
    MaxDecoded, \* bound: memory a loaded model grows by while it is queried
    Untouched,  \* a row this transaction has not written
    NoEntry,    \* a model that is not in the cache
    NoJob       \* a session that runs no query

NoRow == 0                  \* infer.models has no row for the model
Registrations == 1 .. MaxReg
Rows == {NoRow} \cup Registrations
Entry == [row : Registrations, bytes : Nat, live : Nat]
Job == [model : Models, row : Registrations]

ASSUME RegistryAssumption ==
    /\ IsFiniteSet(Models)
    /\ Sizes \subseteq Nat
    /\ Budgets \subseteq Nat \ {0} /\ Budgets # {}
    /\ MaxReg \in Nat /\ MaxBatch \in Nat /\ MaxDecoded \in Nat /\ MaxSavepoints \in Nat
    /\ Untouched \notin Rows
    /\ NoEntry \notin Entry
    /\ NoJob \notin Job

VARIABLES
    committed, \* the committed rows of infer.models
    pending,   \* per session: the rows its open transaction has written
    saved,     \* per session: what pending was at its open savepoints
    undone,    \* history, per session: the registrations that its open
               \* transaction has rolled back to a savepoint
    issued,    \* registrations issued so far
    cache,     \* per session: BackendCache.entries
    lru,       \* per session: BackendCache.lru, oldest first
    total,     \* per session: BackendCache.total_bytes
    budget,    \* per session: infer.max_memory as last reloaded
    poisoned,  \* per session: a panic poisoned the BACKEND_CACHE mutex
    pc,        \* per session: what the session is in the middle of
    job,       \* per session: the model and row of the query it is running
    todo       \* per session: models the registering call has yet to upsert

subtransactions == <<saved, undone>>
table == <<committed, pending, issued, subtransactions>>
backendCache == <<cache, lru, total>>
settings == <<budget, poisoned>>
control == <<pc, job, todo>>
vars == <<table, backendCache, settings, control>>

Querying == {"loading", "evicting", "running"}
NoWrites == [m \in Models |-> Untouched]
WriteSets == [Models -> Rows \cup {Untouched}]

TypeOK ==
    /\ committed \in [Models -> Rows]
    /\ pending \in [Sessions -> WriteSets]
    /\ saved \in [Sessions -> Seq(WriteSets)]
    /\ undone \in [Sessions -> SUBSET Registrations]
    /\ issued \in 0 .. MaxReg
    /\ cache \in [Sessions -> [Models -> Entry \cup {NoEntry}]]
    /\ lru \in [Sessions -> Seq(Models)]
    /\ total \in [Sessions -> Nat]
    /\ budget \in [Sessions -> Budgets]
    /\ poisoned \in [Sessions -> BOOLEAN]
    /\ pc \in [Sessions -> Querying \cup {"idle", "registering"}]
    /\ job \in [Sessions -> Job \cup {NoJob}]
    /\ \A s \in Sessions : pc[s] \in Querying => job[s] \in Job
    /\ todo \in [Sessions -> Seq(Models)]

Init ==
    /\ committed = [m \in Models |-> NoRow]
    /\ pending = [s \in Sessions |-> NoWrites]
    /\ saved = [s \in Sessions |-> <<>>]
    /\ undone = [s \in Sessions |-> {}]
    /\ issued = 0
    /\ cache = [s \in Sessions |-> [m \in Models |-> NoEntry]]
    /\ lru = [s \in Sessions |-> <<>>]
    /\ total = [s \in Sessions |-> 0]
    /\ budget \in [Sessions -> Budgets]
    /\ poisoned = [s \in Sessions |-> FALSE]
    /\ pc = [s \in Sessions |-> "idle"]
    /\ job = [s \in Sessions |-> NoJob]
    /\ todo = [s \in Sessions |-> <<>>]

----------------------------------------------------------------------------
(* infer.models under PostgreSQL's transactions *)

\* The row of m that session s sees.
View(s, m) == IF pending[s][m] = Untouched THEN committed[m] ELSE pending[s][m]

\* Another open transaction has written the row of m.
LockedByOther(s, m) == \E t \in Sessions \ {s} : pending[t][m] # Untouched

Idle(s) ==
    /\ pc' = [pc EXCEPT ![s] = "idle"]
    /\ job' = [job EXCEPT ![s] = NoJob]
    /\ todo' = [todo EXCEPT ![s] = <<>>]

\* The end of a transaction, its savepoints with it.
Closed(s) ==
    /\ pending' = [pending EXCEPT ![s] = NoWrites]
    /\ saved' = [saved EXCEPT ![s] = <<>>]
    /\ undone' = [undone EXCEPT ![s] = {}]

\* The registrations that go when the writes of s go back to w.
Discarded(s, w) == {pending[s][m] : m \in {x \in Models : pending[s][x] # w[x]}} \cap Registrations

\* Back to the i-th savepoint, which stays: the locks taken since are released.
BackTo(s, i) ==
    /\ pending' = [pending EXCEPT ![s] = saved[s][i]]
    /\ saved' = [saved EXCEPT ![s] = SubSeq(@, 1, i)]
    /\ undone' = [undone EXCEPT ![s] = @ \cup Discarded(s, saved[s][i])]

\* A statement of s ends in an ERROR: its transaction is rolled back, or the
\* subtransaction whose EXCEPTION clause or ROLLBACK TO takes it up.  The
\* process-local cache is no part of either.
Abort(s) ==
    /\ Idle(s)
    /\ Closed(s) \/ \E i \in 1 .. Len(saved[s]) : BackTo(s, i)
    /\ UNCHANGED <<committed, issued, backendCache, budget>>

InTransaction(s) == pending[s] # NoWrites \/ saved[s] # <<>> \/ undone[s] # {}

Commit(s) ==
    /\ pc[s] = "idle"
    /\ InTransaction(s)
    /\ committed' = [m \in Models |-> View(s, m)]
    /\ Closed(s)
    /\ UNCHANGED <<issued, backendCache, settings, control>>

\* ROLLBACK and ROLLBACK TO.
Rollback(s) ==
    /\ pc[s] = "idle"
    /\ InTransaction(s)
    /\ Abort(s)
    /\ UNCHANGED poisoned

\* SAVEPOINT, or the begin of a block with an EXCEPTION clause.
Savepoint(s) ==
    /\ pc[s] = "idle"
    /\ Len(saved[s]) < MaxSavepoints
    /\ saved' = [saved EXCEPT ![s] = Append(@, pending[s])]
    /\ UNCHANGED <<committed, pending, undone, issued, backendCache, settings, control>>

\* RELEASE, or the end of such a block: what was written belongs to the rest.
Release(s) ==
    /\ pc[s] = "idle"
    /\ \E i \in 1 .. Len(saved[s]) : saved' = [saved EXCEPT ![s] = SubSeq(@, 1, i - 1)]
    /\ UNCHANGED <<committed, pending, undone, issued, backendCache, settings, control>>

----------------------------------------------------------------------------
(* BackendCache *)

Cached(s, m) == cache[s][m] # NoEntry

SaturatingSub(a, b) == IF a >= b THEN a - b ELSE 0

\* Mutant of Touch: the old position stays.
TouchTwice(s, m) ==
    /\ lru' = [lru EXCEPT ![s] = Append(@, m)]
    /\ UNCHANGED <<cache, total>>

\* Mutant of Touch: a hit does not refresh the model's age.
TouchNothing(s, m) == UNCHANGED <<lru, cache, total>>

Touch(s, m) ==
    /\ lru' = [lru EXCEPT ![s] = Append(Without(@, m), m)]
    /\ UNCHANGED <<cache, total>>

TotalWithout(s, m) ==
    IF Cached(s, m) THEN SaturatingSub(total[s], cache[s][m].bytes) ELSE total[s]

\* Mutant of Evicted: total_bytes keeps the bytes of the entry.
EvictedKeepingTotal(s, m) ==
    /\ cache' = [cache EXCEPT ![s][m] = NoEntry]
    /\ lru' = [lru EXCEPT ![s] = Without(@, m)]
    /\ UNCHANGED total

Evicted(s, m) ==
    /\ cache' = [cache EXCEPT ![s][m] = NoEntry]
    /\ lru' = [lru EXCEPT ![s] = Without(@, m)]
    /\ total' = [total EXCEPT ![s] = TotalWithout(s, m)]

\* insert, up to its call of evict_if_needed.
Inserted(s, m, row, bytes) ==
    /\ cache' = [cache EXCEPT ![s][m] = [row |-> row, bytes |-> bytes, live |-> bytes]]
    /\ lru' = [lru EXCEPT ![s] = Append(Without(@, m), m)]
    /\ total' = [total EXCEPT ![s] = TotalWithout(s, m) + bytes]

\* Mutant of EvictOwn: the eviction after a write is forgotten.
EvictNothing(s, m) == UNCHANGED backendCache

\* registry::evict: does nothing, and says nothing, when the mutex is poisoned.
EvictOwn(s, m) ==
    \/ poisoned[s] /\ UNCHANGED backendCache
    \/ ~poisoned[s] /\ Evicted(s, m)

----------------------------------------------------------------------------
(* with_backend: the mutex is held from the lookup to the end of the load *)

QueryRefused(s) ==
    /\ pc[s] = "idle"
    /\ poisoned[s]
    /\ Abort(s)
    /\ UNCHANGED poisoned

QueryHit(s, m) ==
    /\ pc[s] = "idle"
    /\ ~poisoned[s]
    /\ Cached(s, m)
    /\ Touch(s, m)
    /\ pc' = [pc EXCEPT ![s] = "running"]
    /\ job' = [job EXCEPT ![s] = [model |-> m, row |-> cache[s][m].row]]
    /\ UNCHANGED <<table, settings, todo>>

Misses(s, m) ==
    /\ pc[s] = "idle"
    /\ ~poisoned[s]
    /\ ~Cached(s, m)

\* fetch_backend_row finds a row; the load of what it names begins.
FetchRow(s, m) ==
    /\ Misses(s, m)
    /\ View(s, m) # NoRow
    /\ pc' = [pc EXCEPT ![s] = "loading"]
    /\ job' = [job EXCEPT ![s] = [model |-> m, row |-> View(s, m)]]
    /\ UNCHANGED <<table, backendCache, settings, todo>>

\* ModelNotFound.
QueryUnknown(s, m) ==
    /\ Misses(s, m)
    /\ View(s, m) = NoRow
    /\ Abort(s)
    /\ UNCHANGED poisoned

\* The SELECT itself raises an ERROR (a cancel, a timeout, no privilege): pgrx
\* unwinds it as a panic through the guard of the mutex.
FetchPanics(s, m) ==
    /\ Misses(s, m)
    /\ poisoned' = [poisoned EXCEPT ![s] = TRUE]
    /\ Abort(s)

LoadSucceeds(s, bytes) ==
    /\ pc[s] = "loading"
    /\ Inserted(s, job[s].model, job[s].row, bytes)
    /\ pc' = [pc EXCEPT ![s] = "evicting"]
    /\ UNCHANGED <<table, settings, job, todo>>

LoadFails(s) ==
    /\ pc[s] = "loading"
    /\ Abort(s)
    /\ UNCHANGED poisoned

\* Mutant of IsVictim: the newest entry goes, the one just inserted included.
IsNewest(s, v) == Len(lru[s]) > 0 /\ v = lru[s][Len(lru[s])]

\* The oldest entry that is not the one just inserted.
IsVictim(s, v) ==
    \E i \in 1 .. Len(lru[s]) :
        /\ lru[s][i] = v
        /\ v # job[s].model
        /\ \A j \in 1 .. (i - 1) : lru[s][j] = job[s].model

OverBudget(s) == total[s] > budget[s] /\ Len(lru[s]) > 1

EvictOne(s) ==
    /\ pc[s] = "evicting"
    /\ OverBudget(s)
    /\ \E v \in Models : IsVictim(s, v) /\ Evicted(s, v)
    /\ UNCHANGED <<table, settings, control>>

EvictDone(s) ==
    /\ pc[s] = "evicting"
    /\ OverBudget(s) => ~\E v \in Models : IsVictim(s, v)
    /\ pc' = [pc EXCEPT ![s] = "running"]
    /\ UNCHANGED <<table, backendCache, settings, job, todo>>

\* The query decodes a layer of a local model: the backend grows after it was
\* measured (approx_resident_bytes counts the decode cache).
Decode(s) ==
    /\ pc[s] = "running"
    /\ LET e == cache[s][job[s].model] IN
         /\ Cached(s, job[s].model)
         /\ e.bytes > 0
         /\ e.live < e.bytes + MaxDecoded
         /\ cache' = [cache EXCEPT ![s][job[s].model].live = @ + 1]
    /\ UNCHANGED <<table, lru, total, settings, control>>

QueryReturns(s) ==
    /\ pc[s] = "running"
    /\ Idle(s)
    /\ UNCHANGED <<table, backendCache, settings>>

QueryFails(s) ==
    /\ pc[s] = "running"
    /\ Abort(s)
    /\ UNCHANGED poisoned

----------------------------------------------------------------------------
(* infer_create_model, _remote, _grid (one model), infer_create_models_remote *)

StartRegister(s, batch) ==
    /\ pc[s] = "idle"
    /\ pc' = [pc EXCEPT ![s] = "registering"]
    /\ todo' = [todo EXCEPT ![s] = batch]
    /\ UNCHANGED <<table, backendCache, settings, job>>

\* One upsert_registry and the evict after it.
UpsertNext(s) ==
    /\ pc[s] = "registering"
    /\ issued < MaxReg
    /\ LET m == Head(todo[s]) IN
         /\ todo[s] # <<>>
         /\ ~LockedByOther(s, m)
         /\ pending' = [pending EXCEPT ![s][m] = issued + 1]
         /\ EvictOwn(s, m)
    /\ issued' = issued + 1
    /\ todo' = [todo EXCEPT ![s] = Tail(@)]
    /\ UNCHANGED <<committed, subtransactions, settings, pc, job>>

RegisterReturns(s) ==
    /\ pc[s] = "registering"
    /\ todo[s] = <<>>
    /\ Idle(s)
    /\ UNCHANGED <<table, backendCache, settings>>

\* The probe of the source, or an upsert (a cancel, a deadlock with another
\* registration), fails: the rows go, the evictions already made stay.
RegisterFails(s) ==
    /\ pc[s] = "registering"
    /\ todo[s] # <<>>
    /\ Abort(s)
    /\ UNCHANGED poisoned

DropModel(s, m) ==
    /\ pc[s] = "idle"
    /\ \/ View(s, m) = NoRow /\ UNCHANGED pending
       \/ /\ View(s, m) # NoRow
          /\ ~LockedByOther(s, m)
          /\ pending' = [pending EXCEPT ![s][m] = NoRow]
    /\ EvictOwn(s, m)
    /\ UNCHANGED <<committed, issued, subtransactions, settings, control>>

\* SIGHUP: a session reads the new configuration between two statements.
ReloadConfig(s) ==
    /\ pc[s] = "idle"
    /\ \E b \in Budgets \ {budget[s]} : budget' = [budget EXCEPT ![s] = b]
    /\ UNCHANGED <<table, backendCache, poisoned, control>>

----------------------------------------------------------------------------

Query(s) ==
    \/ QueryRefused(s)
    \/ \E m \in Models : QueryHit(s, m)
    \/ \E m \in Models : FetchRow(s, m)
    \/ \E m \in Models : QueryUnknown(s, m)
    \/ \E m \in Models : FetchPanics(s, m)
    \/ \E bytes \in Sizes : LoadSucceeds(s, bytes)
    \/ LoadFails(s)
    \/ EvictOne(s)
    \/ EvictDone(s)
    \/ Decode(s)
    \/ QueryReturns(s)
    \/ QueryFails(s)

Batches == UNION {[1 .. n -> Models] : n \in 1 .. MaxBatch}

Manage(s) ==
    \/ \E batch \in Batches : StartRegister(s, batch)
    \/ UpsertNext(s)
    \/ RegisterReturns(s)
    \/ RegisterFails(s)
    \/ \E m \in Models : DropModel(s, m)

Next ==
    \E s \in Sessions :
        \/ Query(s)
        \/ Manage(s)
        \/ Commit(s)
        \/ Rollback(s)
        \/ Savepoint(s)
        \/ Release(s)
        \/ ReloadConfig(s)

Spec == Init /\ [][Next]_vars

----------------------------------------------------------------------------
(* Properties *)

\* The LRU list and the map of the cache hold the same models, each once: no
\* model is skipped by eviction for ever, none is counted twice.
LruMatchesCache ==
    \A s \in Sessions :
        /\ \A i, j \in 1 .. Len(lru[s]) : lru[s][i] = lru[s][j] => i = j
        /\ \A m \in Models : Cached(s, m) <=> \E i \in 1 .. Len(lru[s]) : lru[s][i] = m

\* What each model was measured at, if it is cached.
Measured(s) == [m \in Models |-> IF Cached(s, m) THEN cache[s][m].bytes ELSE 0]

\* total_bytes is the sum of the bytes of the entries: the saturating
\* subtractions of insert and remove never lose a byte.
TotalMatchesEntries ==
    \A s \in Sessions :
        total[s] = SumFunction(Measured(s))

\* with_backend hands out the backend it has just looked up or loaded: the
\* eviction that an insert triggers never takes it, so the error "cache entry
\* missing after insert" is never returned, and it is the youngest entry.
RunningBackendIsCached ==
    \A s \in Sessions :
        pc[s] \in {"evicting", "running"} =>
            /\ Cached(s, job[s].model)
            /\ cache[s][job[s].model].row = job[s].row
            /\ lru[s][Len(lru[s])] = job[s].model

\* A session that has written the row of a model in its open transaction is
\* served by the backend of that very row, whatever it had cached before: the
\* upsert and the drop evict after they write.  Nothing evicts when the write is
\* taken back: after ROLLBACK TO, or a caught EXCEPTION, the session may be served
\* by a registration that this transaction itself had made and rolled back, though
\* the row it sees is an earlier one of its own; and by no other.
OwnRegistrationServed ==
    \A s \in Sessions :
        pc[s] = "running" /\ pending[s][job[s].model] # Untouched =>
            job[s].row \in {pending[s][job[s].model]} \cup undone[s]

\* Why: no query runs under a poisoned mutex; what is cached, or about to be,
\* of a model whose row the session has written is that row's backend or that of
\* a registration rolled back since.
CacheCoherent ==
    \A s \in Sessions :
        /\ poisoned[s] => pc[s] \notin Querying
        /\ \A m \in Models :
             ~poisoned[s] /\ pending[s][m] # Untouched /\ Cached(s, m) =>
                 cache[s][m].row \in {pending[s][m]} \cup undone[s]
        /\ pc[s] \in Querying /\ pending[s][job[s].model] # Untouched =>
             job[s].row \in {pending[s][job[s].model]} \cup undone[s]

\* A row that was written at a savepoint is written since: a transaction goes back
\* to its savepoints, never forward to one.
SavepointsNest ==
    \A s \in Sessions, m \in Models :
        /\ \A i \in 1 .. Len(saved[s]) :
             saved[s][i][m] # Untouched => pending[s][m] # Untouched
        /\ \A i, j \in 1 .. Len(saved[s]) :
             i <= j /\ saved[s][i][m] # Untouched => saved[s][j][m] # Untouched

\* An entry leaves the cache only because the session rewrote the row of its
\* model, or because the session is over budget after loading another model,
\* it is not the last entry, and no other model was used longer ago.
EvictionsAreJustified ==
    [][\A s \in Sessions, m \in Models :
         Cached(s, m) /\ ~Cached(s, m)' =>
             \/ /\ pc[s] = "registering" /\ m = Head(todo[s])
                /\ pending'[s][m] # Untouched
             \/ pc[s] = "idle" /\ View(s, m)' = NoRow
             \/ /\ total[s] > budget[s]
                /\ m = Head(lru[s])
                /\ Cached(s, job[s].model) /\ m # job[s].model]_vars

Stale(s, m) == Cached(s, m) /\ cache[s][m].row # View(s, m)

\* The writes of s go back, to none or to those of a savepoint.
TakenBack(s) ==
    /\ UNCHANGED committed
    /\ pending'[s] \in {NoWrites} \cup {saved[s][i] : i \in 1 .. Len(saved[s])}

\* A cached backend comes to differ from the row the session sees in three ways
\* only: another session commits a new row, the session rolls back its own (its
\* transaction, or to a savepoint), or the row was replaced while its model was
\* loading.
StalenessHasACause ==
    [][\A s \in Sessions, m \in Models :
         ~Stale(s, m) /\ Stale(s, m)' /\ ~poisoned[s] =>
             \/ /\ pending[s][m] = Untouched
                /\ \E t \in Sessions \ {s} : pending[t][m] # Untouched
                /\ committed'[m] # committed[m]
             \/ /\ pending[s][m] # Untouched
                /\ pending'[s][m] # pending[s][m]
                /\ TakenBack(s)
             \/ pc[s] = "loading" /\ job[s].model = m /\ job[s].row # View(s, m)]_vars

\* What tuning.md says of infer.max_memory: with more than one model loaded, the
\* models a query may use do not exceed it.  The code measures a model once,
\* when it is inserted, so this does not hold.
ResidentWithinBudget ==
    \A s \in Sessions :
        pc[s] = "running" /\ Len(lru[s]) > 1 =>
            SumFunction([m \in Models |-> IF Cached(s, m) THEN cache[s][m].live ELSE 0])
                <= budget[s]
=============================================================================
