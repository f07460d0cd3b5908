------------------------ MODULE ModelRegistryProofs ------------------------
(***************************************************************************)
(* Proofs about ModelRegistry, for every set of sessions and models, every *)
(* size and budget, and every bound.                                       *)
(***************************************************************************)
EXTENDS ModelRegistry, DataLemmas

\* A list from which a model was taken to append it again: touch and insert.
LEMMA RefreshFacts ==
    ASSUME NEW l \in Seq(Models), NEW m \in Models, Injective(l)
    PROVE  LET w == Append(Without(l, m), m) IN
           /\ w \in Seq(Models)
           /\ Len(w) > 0 /\ w[Len(w)] = m
           /\ Injective(w)
           /\ \A x \in Models : Holds(w, x) <=> Holds(l, x) \/ x = m
<1> DEFINE v == Without(l, m)
           w == Append(v, m)
<1>1. /\ v \in Seq(Models)
      /\ Injective(v)
      /\ \A x \in Models : Holds(v, x) <=> Holds(l, x) /\ x # m
  BY WithoutFacts
<1> HIDE DEF v
<1>2. /\ w \in Seq(Models)
      /\ Len(w) = Len(v) + 1
      /\ w[Len(w)] = m
      /\ \A i \in 1 .. Len(v) : w[i] = v[i]
  BY <1>1
<1>3. \A i \in 1 .. Len(v) : v[i] # m
  BY <1>1 DEF Holds
<1> HIDE DEF w
<1>4. Injective(w)
  BY <1>1, <1>2, <1>3 DEF Injective
<1>5. \A x \in Models : Holds(w, x) <=> Holds(v, x) \/ x = m
  <2>1. ASSUME NEW x \in Models, Holds(w, x) PROVE Holds(v, x) \/ x = m
    <3>1. PICK i \in 1 .. Len(w) : w[i] = x
      BY <2>1 DEF Holds
    <3>2. QED
      BY <1>1, <1>2, <3>1 DEF Holds
  <2>2. ASSUME NEW x \in Models, Holds(v, x) PROVE Holds(w, x)
    <3>1. PICK i \in 1 .. Len(v) : v[i] = x
      BY <2>2 DEF Holds
    <3>2. i \in 1 .. Len(w) /\ w[i] = x
      BY <1>1, <1>2, <3>1
    <3>3. QED
      BY <3>2 DEF Holds
  <2>3. Holds(w, m)
    <3>1. Len(w) \in 1 .. Len(w)
      BY <1>1, <1>2
    <3>2. QED
      BY <1>2, <3>1 DEF Holds
  <2>4. QED
    BY <2>1, <2>2, <2>3
<1>6. QED
  BY <1>1, <1>2, <1>4, <1>5 DEF w, v

----------------------------------------------------------------------------

LEMMA NoWritesType == NoWrites \in WriteSets
BY DEF NoWrites, WriteSets

\* What the end of a transaction, and a rollback to a savepoint, do to the writes
\* and savepoints of every session.
LEMMA ClosedFacts ==
    ASSUME TypeOK, NEW s \in Sessions, Closed(s)
    PROVE  /\ pending' \in [Sessions -> WriteSets]
           /\ saved' \in [Sessions -> Seq(WriteSets)]
           /\ undone' \in [Sessions -> SUBSET Registrations]
           /\ pending'[s] = NoWrites /\ saved'[s] = <<>>
           /\ \A t \in Sessions : t # s =>
                pending'[t] = pending[t] /\ saved'[t] = saved[t] /\ undone'[t] = undone[t]
<1>1. pending' \in [Sessions -> WriteSets] /\ pending'[s] = NoWrites
  BY NoWritesType DEF TypeOK, Closed
<1>2. saved' \in [Sessions -> Seq(WriteSets)] /\ saved'[s] = <<>>
  BY DEF TypeOK, Closed
<1>3. undone' \in [Sessions -> SUBSET Registrations]
  BY DEF TypeOK, Closed
<1>4. QED
  BY <1>1, <1>2, <1>3 DEF TypeOK, Closed

LEMMA BackToFacts ==
    ASSUME TypeOK, NEW s \in Sessions, NEW k \in 1 .. Len(saved[s]), BackTo(s, k)
    PROVE  /\ pending' \in [Sessions -> WriteSets]
           /\ saved' \in [Sessions -> Seq(WriteSets)]
           /\ undone' \in [Sessions -> SUBSET Registrations]
           /\ pending'[s] = saved[s][k]
           /\ Len(saved'[s]) = k
           /\ \A i \in 1 .. k : i \in 1 .. Len(saved[s]) /\ saved'[s][i] = saved[s][i]
           /\ undone'[s] = undone[s] \cup Discarded(s, saved[s][k])
           /\ \A t \in Sessions : t # s =>
                pending'[t] = pending[t] /\ saved'[t] = saved[t] /\ undone'[t] = undone[t]
<1>1. saved[s] \in Seq(WriteSets) /\ saved[s][k] \in WriteSets
  BY DEF TypeOK
<1>2. /\ SubSeq(saved[s], 1, k) \in Seq(WriteSets)
      /\ Len(SubSeq(saved[s], 1, k)) = k
      /\ \A i \in 1 .. k : i \in 1 .. Len(saved[s]) /\ SubSeq(saved[s], 1, k)[i] = saved[s][i]
  BY <1>1
<1>3. undone[s] \cup Discarded(s, saved[s][k]) \in SUBSET Registrations
  BY DEF TypeOK, Discarded
<1>4. pending' \in [Sessions -> WriteSets] /\ pending'[s] = saved[s][k]
  BY <1>1 DEF TypeOK, BackTo
<1>5. saved' \in [Sessions -> Seq(WriteSets)] /\ saved'[s] = SubSeq(saved[s], 1, k)
  BY <1>2 DEF TypeOK, BackTo
<1>6. /\ undone' \in [Sessions -> SUBSET Registrations]
      /\ undone'[s] = undone[s] \cup Discarded(s, saved[s][k])
  BY <1>3 DEF TypeOK, BackTo
<1>7. QED
  BY <1>2, <1>4, <1>5, <1>6 DEF TypeOK, BackTo

LEMMA AbortType ==
    ASSUME TypeOK, NEW s \in Sessions, Abort(s), poisoned' \in [Sessions -> BOOLEAN]
    PROVE  TypeOK'
<1>1. /\ pc' \in [Sessions -> Querying \cup {"idle", "registering"}]
      /\ job' \in [Sessions -> Job \cup {NoJob}]
      /\ todo' \in [Sessions -> Seq(Models)]
  BY DEF TypeOK, Abort, Idle
<1>2. \A t \in Sessions : pc'[t] \in Querying => job'[t] \in Job
  BY DEF TypeOK, Abort, Idle, Querying
<1>3. /\ pending' \in [Sessions -> WriteSets]
      /\ saved' \in [Sessions -> Seq(WriteSets)]
      /\ undone' \in [Sessions -> SUBSET Registrations]
  BY ClosedFacts, BackToFacts DEF Abort
<1>4. QED
  BY <1>1, <1>2, <1>3 DEF TypeOK, Abort, backendCache

\* What SAVEPOINT and RELEASE do to the savepoints.
LEMMA SavepointFacts ==
    ASSUME TypeOK, NEW s \in Sessions, Savepoint(s)
    PROVE  /\ saved' \in [Sessions -> Seq(WriteSets)]
           /\ Len(saved'[s]) = Len(saved[s]) + 1
           /\ \A i \in 1 .. Len(saved[s]) : saved'[s][i] = saved[s][i]
           /\ saved'[s][Len(saved[s]) + 1] = pending[s]
           /\ \A t \in Sessions : t # s => saved'[t] = saved[t]
<1>1. saved[s] \in Seq(WriteSets) /\ pending[s] \in WriteSets
  BY DEF TypeOK
<1>2. saved' = [saved EXCEPT ![s] = Append(saved[s], pending[s])]
  BY DEF Savepoint
<1>3. Append(saved[s], pending[s]) \in Seq(WriteSets)
  BY <1>1
<1>4. saved' \in [Sessions -> Seq(WriteSets)] /\ saved'[s] = Append(saved[s], pending[s])
  BY <1>2, <1>3 DEF TypeOK
<1>5. QED
  BY <1>1, <1>2, <1>4 DEF TypeOK

LEMMA ReleaseFacts ==
    ASSUME TypeOK, NEW s \in Sessions, Release(s)
    PROVE  /\ saved' \in [Sessions -> Seq(WriteSets)]
           /\ \A i \in 1 .. Len(saved'[s]) :
                i \in 1 .. Len(saved[s]) /\ saved'[s][i] = saved[s][i]
           /\ \A t \in Sessions : t # s => saved'[t] = saved[t]
<1>1. saved[s] \in Seq(WriteSets)
  BY DEF TypeOK
<1>2. PICK k \in 1 .. Len(saved[s]) : saved' = [saved EXCEPT ![s] = SubSeq(saved[s], 1, k - 1)]
  BY DEF Release
<1>3. /\ SubSeq(saved[s], 1, k - 1) \in Seq(WriteSets)
      /\ Len(SubSeq(saved[s], 1, k - 1)) = k - 1
      /\ \A i \in 1 .. k - 1 :
           i \in 1 .. Len(saved[s]) /\ SubSeq(saved[s], 1, k - 1)[i] = saved[s][i]
  BY <1>1
<1>4. saved' \in [Sessions -> Seq(WriteSets)] /\ saved'[s] = SubSeq(saved[s], 1, k - 1)
  BY <1>2, <1>3 DEF TypeOK
<1>5. QED
  BY <1>2, <1>3, <1>4 DEF TypeOK

LEMMA TotalWithoutType ==
    ASSUME TypeOK, NEW s \in Sessions, NEW m \in Models
    PROVE  TotalWithout(s, m) \in Nat
BY DEF TypeOK, TotalWithout, SaturatingSub, Cached, Entry

LEMMA EvictedType ==
    ASSUME TypeOK, NEW s \in Sessions, NEW m \in Models, Evicted(s, m)
    PROVE  /\ cache' \in [Sessions -> [Models -> Entry \cup {NoEntry}]]
           /\ lru' \in [Sessions -> Seq(Models)]
           /\ total' \in [Sessions -> Nat]
<1>1. lru[s] \in Seq(Models)
  BY DEF TypeOK
<1>2. Without(lru[s], m) \in Seq(Models) /\ TotalWithout(s, m) \in Nat
  BY <1>1, WithoutType, TotalWithoutType
<1>3. QED
  BY <1>2 DEF TypeOK, Evicted

LEMMA EvictOwnType ==
    ASSUME TypeOK, NEW s \in Sessions, NEW m \in Models, EvictOwn(s, m)
    PROVE  /\ cache' \in [Sessions -> [Models -> Entry \cup {NoEntry}]]
           /\ lru' \in [Sessions -> Seq(Models)]
           /\ total' \in [Sessions -> Nat]
BY EvictedType DEF EvictOwn, backendCache, TypeOK

LEMMA TypeStep == TypeOK /\ [Next]_vars => TypeOK'
<1> SUFFICES ASSUME TypeOK, [Next]_vars PROVE TypeOK'
  OBVIOUS
<1> USE RegistryAssumption
<1>1. ASSUME NEW s \in Sessions, Query(s) PROVE TypeOK'
  <2>1. CASE QueryRefused(s) \/ LoadFails(s) \/ QueryFails(s)
    BY <2>1, AbortType DEF QueryRefused, LoadFails, QueryFails, TypeOK
  <2>2. ASSUME NEW m \in Models, QueryUnknown(s, m) \/ FetchPanics(s, m) PROVE TypeOK'
    BY <2>2, AbortType DEF QueryUnknown, FetchPanics, TypeOK
  <2>3. ASSUME NEW m \in Models, QueryHit(s, m) PROVE TypeOK'
    <3>1. Append(Without(lru[s], m), m) \in Seq(Models)
      BY WithoutType DEF TypeOK
    <3>2. [model |-> m, row |-> cache[s][m].row] \in Job
      BY <2>3 DEF TypeOK, QueryHit, Cached, Job, Entry
    <3>3. QED
      BY <2>3, <3>1, <3>2 DEF TypeOK, QueryHit, Touch, table, subtransactions, settings, Querying
  <2>4. ASSUME NEW m \in Models, FetchRow(s, m) PROVE TypeOK'
    <3>1. [model |-> m, row |-> View(s, m)] \in Job
      BY <2>4 DEF TypeOK, FetchRow, View, Job, Rows, WriteSets
    <3>2. QED
      BY <2>4, <3>1 DEF TypeOK, FetchRow, table, subtransactions, backendCache, settings, Querying
  <2>5. ASSUME NEW bytes \in Sizes, LoadSucceeds(s, bytes) PROVE TypeOK'
    <3> DEFINE m == job[s].model
               e == [row |-> job[s].row, bytes |-> bytes, live |-> bytes]
    <3>1. m \in Models /\ e \in Entry
      BY <2>5 DEF TypeOK, LoadSucceeds, Job, Entry, Querying
    <3>2. Append(Without(lru[s], m), m) \in Seq(Models) /\ TotalWithout(s, m) + bytes \in Nat
      <4>1. lru[s] \in Seq(Models) /\ bytes \in Nat
        BY DEF TypeOK
      <4>2. Without(lru[s], m) \in Seq(Models) /\ TotalWithout(s, m) \in Nat
        BY <3>1, <4>1, WithoutType, TotalWithoutType
      <4>3. QED
        BY <3>1, <4>1, <4>2
    <3> HIDE DEF m, e
    <3>3. /\ cache' = [cache EXCEPT ![s][m] = e]
          /\ lru' = [lru EXCEPT ![s] = Append(Without(@, m), m)]
          /\ total' = [total EXCEPT ![s] = TotalWithout(s, m) + bytes]
      BY <2>5 DEF LoadSucceeds, Inserted, m, e
    <3>4. QED
      BY <2>5, <3>1, <3>2, <3>3 DEF TypeOK, LoadSucceeds, table, subtransactions, settings, Querying
  <2>6. CASE EvictOne(s)
    <3>1. PICK v \in Models : Evicted(s, v)
      BY <2>6 DEF EvictOne
    <3>2. QED
      BY <2>6, <3>1, EvictedType DEF TypeOK, EvictOne, table, subtransactions, settings, control
  <2>7. CASE EvictDone(s)
    BY <2>7 DEF TypeOK, EvictDone, table, subtransactions, backendCache, settings, Querying
  <2>8. CASE Decode(s)
    <3> DEFINE m == job[s].model
    <3>1. m \in Models /\ cache[s][m] \in Entry
      BY <2>8 DEF TypeOK, Decode, Job, Cached, Querying
    <3> HIDE DEF m
    <3>2. cache' = [cache EXCEPT ![s][m].live = @ + 1]
      BY <2>8 DEF Decode, m
    <3>3. cache' \in [Sessions -> [Models -> Entry \cup {NoEntry}]]
      <4> DEFINE e == [cache[s][m] EXCEPT !.live = @ + 1]
      <4>1. e \in Entry
        BY <3>1 DEF Entry
      <4>2. cache' = [cache EXCEPT ![s][m] = e]
        BY <3>1, <3>2 DEF TypeOK
      <4> HIDE DEF e
      <4>3. QED
        BY <3>1, <4>1, <4>2 DEF TypeOK
    <3>4. QED
      BY <2>8, <3>3 DEF TypeOK, Decode, table, subtransactions, settings, control
  <2>9. CASE QueryReturns(s)
    BY <2>9 DEF TypeOK, QueryReturns, Idle, table, subtransactions, backendCache, settings, Querying
  <2>10. QED
    BY <1>1, <2>1, <2>2, <2>3, <2>4, <2>5, <2>6, <2>7, <2>8, <2>9 DEF Query
<1>2. ASSUME NEW s \in Sessions, Manage(s) PROVE TypeOK'
  <2>1. ASSUME NEW batch \in Batches, StartRegister(s, batch) PROVE TypeOK'
    <3>1. batch \in Seq(Models)
      BY DEF Batches
    <3>2. QED
      BY <2>1, <3>1 DEF TypeOK, StartRegister, table, subtransactions, backendCache, settings, Querying
  <2>2. CASE UpsertNext(s)
    <3> DEFINE m == Head(todo[s])
    <3>1. m \in Models /\ Tail(todo[s]) \in Seq(Models)
      BY <2>2 DEF TypeOK, UpsertNext
    <3>2. EvictOwn(s, m) /\ pending' = [pending EXCEPT ![s][m] = issued + 1]
      BY <2>2 DEF UpsertNext
    <3>3. issued + 1 \in Rows /\ issued + 1 \in 0 .. MaxReg
      BY <2>2 DEF TypeOK, UpsertNext, Rows, Registrations
    <3> HIDE DEF m
    <3>4. pending' \in [Sessions -> WriteSets]
      BY <3>1, <3>2, <3>3 DEF TypeOK, WriteSets
    <3>5. QED
      BY <2>2, <3>1, <3>2, <3>3, <3>4, EvictOwnType
      DEF TypeOK, UpsertNext, settings, subtransactions
  <2>3. CASE RegisterReturns(s)
    BY <2>3 DEF TypeOK, RegisterReturns, Idle, table, subtransactions, backendCache, settings, Querying
  <2>4. CASE RegisterFails(s)
    BY <2>4, AbortType DEF RegisterFails, TypeOK
  <2>5. ASSUME NEW m \in Models, DropModel(s, m) PROVE TypeOK'
    <3>1. EvictOwn(s, m)
      BY <2>5 DEF DropModel
    <3>2. pending' \in [Sessions -> WriteSets]
      <4>1. NoRow \in Rows
        BY DEF Rows
      <4>2. pending' = pending \/ pending' = [pending EXCEPT ![s][m] = NoRow]
        BY <2>5 DEF DropModel
      <4>3. pending \in [Sessions -> WriteSets]
        BY DEF TypeOK
      <4>4. [pending EXCEPT ![s][m] = NoRow] \in [Sessions -> WriteSets]
        BY <4>1, <4>3 DEF WriteSets
      <4>5. QED
        BY <4>2, <4>3, <4>4
    <3>3. QED
      BY <2>5, <3>1, <3>2, EvictOwnType
      DEF TypeOK, DropModel, settings, control, subtransactions
  <2>6. QED
    BY <1>2, <2>1, <2>2, <2>3, <2>4, <2>5 DEF Manage
<1>3. ASSUME NEW s \in Sessions, Commit(s) PROVE TypeOK'
  <2>1. \A m \in Models : View(s, m) \in Rows
    BY DEF TypeOK, View, WriteSets
  <2>2. QED
    BY <1>3, <2>1, ClosedFacts DEF TypeOK, Commit, backendCache, settings, control
<1>4. ASSUME NEW s \in Sessions, Rollback(s) PROVE TypeOK'
  BY <1>4, AbortType DEF Rollback, TypeOK
<1>5. ASSUME NEW s \in Sessions, ReloadConfig(s) PROVE TypeOK'
  BY <1>5 DEF TypeOK, ReloadConfig, table, subtransactions, backendCache, control
<1>6. CASE UNCHANGED vars
  BY <1>6 DEF TypeOK, vars, table, subtransactions, backendCache, settings, control
<1>7. ASSUME NEW s \in Sessions, Savepoint(s) PROVE TypeOK'
  BY <1>7, SavepointFacts DEF TypeOK, Savepoint, backendCache, settings, control
<1>8. ASSUME NEW s \in Sessions, Release(s) PROVE TypeOK'
  BY <1>8, ReleaseFacts DEF TypeOK, Release, backendCache, settings, control
<1>9. QED
  BY <1>1, <1>2, <1>3, <1>4, <1>5, <1>6, <1>7, <1>8 DEF Next

\* Every variable of the registry keeps its type, and a session that is in the
\* middle of a query has a model and a registration it runs on.
THEOREM TypeCorrect == Spec => []TypeOK
<1>1. Init => TypeOK
  BY RegistryAssumption, NoWritesType DEF Init, TypeOK, Rows, Querying
<1>2. QED
  BY <1>1, TypeStep, PTL DEF Spec

----------------------------------------------------------------------------

LEMMA LruMatches ==
    LruMatchesCache <=>
        \A s \in Sessions :
            /\ Injective(lru[s])
            /\ \A m \in Models : Cached(s, m) <=> Holds(lru[s], m)
BY DEF LruMatchesCache, Injective, Holds

LEMMA EvictedMatches ==
    ASSUME TypeOK, LruMatchesCache, NEW s \in Sessions, NEW m \in Models, Evicted(s, m)
    PROVE  LruMatchesCache'
<1>1. /\ Injective(lru[s]) /\ lru[s] \in Seq(Models)
      /\ \A x \in Models : Cached(s, x) <=> Holds(lru[s], x)
  BY LruMatches DEF TypeOK
<1>2. /\ Injective(Without(lru[s], m))
      /\ \A x \in Models : Holds(Without(lru[s], m), x) <=> Holds(lru[s], x) /\ x # m
  BY <1>1, WithoutFacts
<1>3. /\ lru' = [lru EXCEPT ![s] = Without(lru[s], m)]
      /\ cache' = [cache EXCEPT ![s][m] = NoEntry]
  BY DEF Evicted
<1>4. ASSUME NEW t \in Sessions
      PROVE  /\ Injective(lru'[t])
             /\ \A x \in Models : cache'[t][x] # NoEntry <=> Holds(lru'[t], x)
  <2>1. CASE t = s
    <3>1. lru'[t] = Without(lru[s], m)
      BY <1>3, <2>1 DEF TypeOK
    <3>2. \A x \in Models : cache'[t][x] # NoEntry <=> Cached(s, x) /\ x # m
      BY <1>3, <2>1 DEF TypeOK, Cached
    <3>3. QED
      BY <1>1, <1>2, <3>1, <3>2
  <2>2. CASE t # s
    <3>1. lru'[t] = lru[t] /\ cache'[t] = cache[t]
      BY <1>3, <2>2 DEF TypeOK
    <3>2. QED
      BY <3>1, LruMatches DEF Cached
  <2>3. QED
    BY <2>1, <2>2
<1>5. QED
  BY <1>4 DEF LruMatchesCache, Injective, Holds, Cached

\* A model whose entry is (or stays) in the cache goes to the young end.
LEMMA RefreshedMatches ==
    ASSUME TypeOK, LruMatchesCache, NEW s \in Sessions, NEW m \in Models,
           lru' = [lru EXCEPT ![s] = Append(Without(lru[s], m), m)],
           \A t \in Sessions, x \in Models :
               cache'[t][x] # NoEntry <=> cache[t][x] # NoEntry \/ (t = s /\ x = m)
    PROVE  /\ LruMatchesCache'
           /\ lru'[s][Len(lru'[s])] = m
<1> DEFINE w == Append(Without(lru[s], m), m)
<1>1. /\ Injective(lru[s]) /\ lru[s] \in Seq(Models)
      /\ \A x \in Models : Cached(s, x) <=> Holds(lru[s], x)
  BY LruMatches DEF TypeOK
<1>2. /\ w[Len(w)] = m
      /\ Injective(w)
      /\ \A x \in Models : Holds(w, x) <=> Holds(lru[s], x) \/ x = m
  BY <1>1, RefreshFacts
<1>3. lru'[s] = w
  BY DEF TypeOK
<1> HIDE DEF w
<1>4. ASSUME NEW t \in Sessions
      PROVE  /\ Injective(lru'[t])
             /\ \A x \in Models : cache'[t][x] # NoEntry <=> Holds(lru'[t], x)
  <2>1. CASE t = s
    BY <1>1, <1>2, <1>3, <2>1 DEF Cached
  <2>2. CASE t # s
    <3>1. lru'[t] = lru[t]
      BY <2>2 DEF TypeOK
    <3>2. QED
      BY <2>2, <3>1, LruMatches DEF Cached
  <2>3. QED
    BY <2>1, <2>2
<1>5. QED
  BY <1>2, <1>3, <1>4 DEF LruMatchesCache, Injective, Holds, Cached

LEMMA SameMatches ==
    ASSUME LruMatchesCache, lru' = lru,
           \A t \in Sessions, x \in Models : cache'[t][x] # NoEntry <=> cache[t][x] # NoEntry
    PROVE  LruMatchesCache'
BY DEF LruMatchesCache, Cached

LEMMA EvictOwnMatches ==
    ASSUME TypeOK, LruMatchesCache, NEW s \in Sessions, NEW m \in Models, EvictOwn(s, m)
    PROVE  LruMatchesCache'
BY EvictedMatches, SameMatches DEF EvictOwn, backendCache

LEMMA HitRefreshes ==
    ASSUME TypeOK, LruMatchesCache, NEW s \in Sessions, NEW m \in Models, QueryHit(s, m)
    PROVE  LruMatchesCache' /\ lru'[s][Len(lru'[s])] = m
<1>1. lru' = [lru EXCEPT ![s] = Append(Without(lru[s], m), m)] /\ cache' = cache
  BY DEF QueryHit, Touch
<1>2. cache[s][m] # NoEntry
  BY DEF QueryHit, Cached
<1>3. \A t \in Sessions, x \in Models :
         cache'[t][x] # NoEntry <=> cache[t][x] # NoEntry \/ (t = s /\ x = m)
  BY <1>1, <1>2
<1>4. QED
  BY <1>1, <1>3, RefreshedMatches

LEMMA LoadRefreshes ==
    ASSUME TypeOK, LruMatchesCache, NEW s \in Sessions, NEW bytes \in Sizes,
           LoadSucceeds(s, bytes)
    PROVE  /\ LruMatchesCache' /\ lru'[s][Len(lru'[s])] = job[s].model
           /\ cache' = [cache EXCEPT ![s][job[s].model] =
                          [row |-> job[s].row, bytes |-> bytes, live |-> bytes]]
           /\ job[s] \in Job
           /\ [row |-> job[s].row, bytes |-> bytes, live |-> bytes] \in Entry
<1> DEFINE m == job[s].model
           e == [row |-> job[s].row, bytes |-> bytes, live |-> bytes]
<1>1. job[s] \in Job
  BY DEF TypeOK, LoadSucceeds, Querying
<1>2. m \in Models /\ e \in Entry
  BY <1>1, RegistryAssumption DEF Job, Entry
<1>3. e # NoEntry
  BY <1>2, RegistryAssumption
<1>4. cache' = [cache EXCEPT ![s][m] = e] /\ lru' = [lru EXCEPT ![s] = Append(Without(lru[s], m), m)]
  BY DEF LoadSucceeds, Inserted
<1> HIDE DEF e, m
<1>5. \A t \in Sessions, x \in Models :
         cache'[t][x] # NoEntry <=> cache[t][x] # NoEntry \/ (t = s /\ x = m)
  BY <1>2, <1>3, <1>4 DEF TypeOK
<1>6. LruMatchesCache' /\ lru'[s][Len(lru'[s])] = m
  BY <1>2, <1>4, <1>5, RefreshedMatches
<1>7. QED
  BY <1>1, <1>2, <1>4, <1>6 DEF e, m

\* What Decode does: one entry grows, and is the same otherwise.
LEMMA DecodeFacts ==
    ASSUME TypeOK, NEW s \in Sessions, Decode(s)
    PROVE  \A t \in Sessions, x \in Models :
               /\ cache'[t][x] # NoEntry <=> cache[t][x] # NoEntry
               /\ cache[t][x] # NoEntry => cache'[t][x].row = cache[t][x].row
<1> DEFINE m == job[s].model
           e == [cache[s][m] EXCEPT !.live = @ + 1]
<1>1. m \in Models /\ cache[s][m] \in Entry /\ cache[s][m] # NoEntry
  BY DEF TypeOK, Decode, Job, Cached, Querying
<1>2. e \in Entry /\ e.row = cache[s][m].row
  BY <1>1 DEF Entry
<1>3. e # NoEntry
  BY <1>2, RegistryAssumption
<1> HIDE DEF m
<1>4. cache' = [cache EXCEPT ![s][m].live = @ + 1]
  BY DEF Decode, m
<1>5. cache' = [cache EXCEPT ![s][m] = e]
  BY <1>1, <1>4 DEF TypeOK
<1> HIDE DEF e
<1>6. QED
  BY <1>1, <1>2, <1>3, <1>5 DEF TypeOK

LEMMA LruStep == TypeOK /\ LruMatchesCache /\ [Next]_vars => LruMatchesCache'
<1> SUFFICES ASSUME TypeOK, LruMatchesCache, [Next]_vars PROVE LruMatchesCache'
  OBVIOUS
<1>1. ASSUME UNCHANGED <<cache, lru>> PROVE LruMatchesCache'
  BY <1>1, SameMatches
<1>2. ASSUME NEW s \in Sessions, Query(s) PROVE LruMatchesCache'
  <2>1. ASSUME NEW m \in Models, QueryHit(s, m) PROVE LruMatchesCache'
    BY <2>1, HitRefreshes
  <2>2. ASSUME NEW bytes \in Sizes, LoadSucceeds(s, bytes) PROVE LruMatchesCache'
    BY <2>2, LoadRefreshes
  <2>3. CASE EvictOne(s)
    BY <2>3, EvictedMatches DEF EvictOne
  <2>4. CASE Decode(s)
    <3>1. lru' = lru
      BY <2>4 DEF Decode
    <3>2. QED
      BY <2>4, <3>1, DecodeFacts, SameMatches
  <2>5. CASE \/ QueryRefused(s) \/ LoadFails(s) \/ QueryFails(s)
             \/ EvictDone(s) \/ QueryReturns(s)
    BY <1>1, <2>5 DEF QueryRefused, LoadFails, QueryFails, EvictDone, QueryReturns,
                      Abort, backendCache
  <2>6. ASSUME NEW m \in Models, FetchRow(s, m) \/ QueryUnknown(s, m) \/ FetchPanics(s, m)
        PROVE  LruMatchesCache'
    BY <1>1, <2>6 DEF FetchRow, QueryUnknown, FetchPanics, Abort, backendCache
  <2>7. QED
    BY <1>2, <2>1, <2>2, <2>3, <2>4, <2>5, <2>6 DEF Query
<1>3. ASSUME NEW s \in Sessions, Manage(s) PROVE LruMatchesCache'
  <2>1. CASE UpsertNext(s)
    <3>1. Head(todo[s]) \in Models /\ EvictOwn(s, Head(todo[s]))
      BY <2>1 DEF TypeOK, UpsertNext
    <3>2. QED
      BY <3>1, EvictOwnMatches
  <2>2. ASSUME NEW m \in Models, DropModel(s, m) PROVE LruMatchesCache'
    BY <2>2, EvictOwnMatches DEF DropModel
  <2>3. ASSUME NEW batch \in Batches, StartRegister(s, batch) PROVE LruMatchesCache'
    BY <1>1, <2>3 DEF StartRegister, backendCache
  <2>4. CASE RegisterReturns(s) \/ RegisterFails(s)
    BY <1>1, <2>4 DEF RegisterReturns, RegisterFails, Abort, backendCache
  <2>5. QED
    BY <1>3, <2>1, <2>2, <2>3, <2>4 DEF Manage
<1>4. ASSUME NEW s \in Sessions,
             Commit(s) \/ Rollback(s) \/ Savepoint(s) \/ Release(s) \/ ReloadConfig(s)
      PROVE  LruMatchesCache'
  BY <1>1, <1>4 DEF Commit, Rollback, Savepoint, Release, ReloadConfig, Abort, backendCache
<1>5. CASE UNCHANGED vars
  BY <1>1, <1>5 DEF vars, backendCache
<1>6. QED
  BY <1>2, <1>3, <1>4, <1>5 DEF Next

\* In every session the LRU list holds exactly the cached models, each once, so
\* eviction never loses a model and never meets one twice.
THEOREM LruCorrect == Spec => []LruMatchesCache
<1>1. Init => LruMatchesCache
  BY DEF Init, LruMatchesCache, Cached
<1>2. QED
  BY <1>1, LruStep, TypeCorrect, PTL DEF Spec

----------------------------------------------------------------------------

\* TotalMatchesEntries, for one session.
TotalMatches(s) == total[s] = SumFunction(Measured(s))

LEMMA MeasuredType ==
    ASSUME TypeOK, NEW s \in Sessions
    PROVE  Measured(s) \in [Models -> Nat]
BY DEF TypeOK, Measured, Cached, Entry

\* A session whose entries and total stay, but for what its backends have grown by.
LEMMA SameTotal ==
    ASSUME TypeOK, NEW s \in Sessions, TotalMatches(s), total'[s] = total[s],
           \A m \in Models : /\ Cached(s, m)' <=> Cached(s, m)
                             /\ Cached(s, m) => cache'[s][m].bytes = cache[s][m].bytes
    PROVE  TotalMatches(s)'
<1>1. Measured(s)' = Measured(s)
  BY DEF Measured
<1>2. QED
  BY <1>1 DEF TotalMatches

\* The saturating subtraction does not saturate: an entry is no more than the sum.
LEMMA TotalWithoutFacts ==
    ASSUME TypeOK, NEW s \in Sessions, TotalMatches(s), NEW m \in Models
    PROVE  /\ total[s] \in Nat /\ Measured(s)[m] \in Nat
           /\ TotalWithout(s, m) = total[s] - Measured(s)[m]
           /\ Measured(s)[m] <= total[s]
           /\ \A n \in Nat :
                SumFunction([Measured(s) EXCEPT ![m] = n]) = TotalWithout(s, m) + n
<1> DEFINE w == Measured(s)
<1>1. w \in [Models -> Nat] /\ total[s] \in Nat /\ total[s] = SumFunction(w)
  BY MeasuredType DEF TypeOK, TotalMatches
<1>2. w[m] = IF Cached(s, m) THEN cache[s][m].bytes ELSE 0
  BY DEF Measured
<1> HIDE DEF w
<1>3. w[m] <= total[s] /\ w[m] \in Nat
  BY <1>1, RegistryAssumption, SumFacts
<1>4. TotalWithout(s, m) = total[s] - w[m]
  BY <1>1, <1>2, <1>3 DEF TotalWithout, SaturatingSub
<1>5. ASSUME NEW n \in Nat
      PROVE  SumFunction([w EXCEPT ![m] = n]) = TotalWithout(s, m) + n
  <2>1. IsFiniteSet(Models) /\ w \in [Models -> Nat]
    BY <1>1, RegistryAssumption
  <2>2. SumFunction([w EXCEPT ![m] = n]) = (SumFunction(w) - w[m]) + n
    BY <2>1, SumFacts
  <2>3. QED
    BY <1>1, <1>4, <2>2
<1>6. QED
  BY <1>1, <1>3, <1>4, <1>5 DEF w

LEMMA EvictedTotal ==
    ASSUME TypeOK, TotalMatchesEntries, NEW s \in Sessions, NEW m \in Models, Evicted(s, m)
    PROVE  TotalMatchesEntries'
<1>1. ASSUME NEW t \in Sessions, t # s PROVE TotalMatches(t)'
  <2>1. TotalMatches(t) /\ cache'[t] = cache[t] /\ total'[t] = total[t]
    BY <1>1 DEF Evicted, TotalMatchesEntries, TotalMatches, TypeOK
  <2>2. QED
    BY <2>1, SameTotal DEF Cached
<1>2. TotalMatches(s)'
  <2>1. TotalMatches(s)
    BY DEF TotalMatchesEntries, TotalMatches
  <2>2. total'[s] = TotalWithout(s, m) /\ TotalWithout(s, m) \in Nat
    BY TotalWithoutType DEF Evicted, TypeOK
  <2>3. Measured(s)' = [Measured(s) EXCEPT ![m] = 0]
    BY DEF Evicted, Measured, Cached, TypeOK
  <2>4. SumFunction([Measured(s) EXCEPT ![m] = 0]) = TotalWithout(s, m) + 0
    BY <2>1, TotalWithoutFacts
  <2>5. QED
    BY <2>2, <2>3, <2>4 DEF TotalMatches
<1>3. QED
  BY <1>1, <1>2 DEF TotalMatchesEntries, TotalMatches

LEMMA EvictOwnTotal ==
    ASSUME TypeOK, TotalMatchesEntries, NEW s \in Sessions, NEW m \in Models, EvictOwn(s, m)
    PROVE  TotalMatchesEntries'
<1>1. CASE UNCHANGED backendCache
  BY <1>1 DEF TotalMatchesEntries, Measured, Cached, backendCache
<1>2. QED
  BY <1>1, EvictedTotal DEF EvictOwn

LEMMA InsertedTotal ==
    ASSUME TypeOK, TotalMatchesEntries, NEW s \in Sessions, NEW bytes \in Sizes,
           LoadSucceeds(s, bytes)
    PROVE  TotalMatchesEntries'
<1> DEFINE m == job[s].model
           e == [row |-> job[s].row, bytes |-> bytes, live |-> bytes]
<1>1. m \in Models /\ e \in Entry /\ e.bytes = bytes /\ bytes \in Nat
  BY RegistryAssumption DEF TypeOK, LoadSucceeds, Job, Entry, Querying
<1> HIDE DEF m, e
<1>2. /\ cache' = [cache EXCEPT ![s][m] = e]
      /\ total' = [total EXCEPT ![s] = TotalWithout(s, m) + bytes]
  BY DEF LoadSucceeds, Inserted, m, e
<1>3. ASSUME NEW t \in Sessions, t # s PROVE TotalMatches(t)'
  <2>1. TotalMatches(t) /\ cache'[t] = cache[t] /\ total'[t] = total[t]
    BY <1>2, <1>3 DEF TotalMatchesEntries, TotalMatches, TypeOK
  <2>2. QED
    BY <2>1, SameTotal DEF Cached
<1>4. TotalMatches(s)'
  <2>1. TotalMatches(s)
    BY DEF TotalMatchesEntries, TotalMatches
  <2>2. total'[s] = TotalWithout(s, m) + bytes
    BY <1>2 DEF TypeOK
  <2>3. Measured(s)' = [Measured(s) EXCEPT ![m] = bytes]
    <3>1. e # NoEntry
      BY <1>1, RegistryAssumption
    <3>2. cache'[s] = [cache[s] EXCEPT ![m] = e] /\ cache[s] \in [Models -> Entry \cup {NoEntry}]
      BY <1>2 DEF TypeOK
    <3>3. QED
      BY <1>1, <3>1, <3>2 DEF Measured, Cached
  <2>4. SumFunction([Measured(s) EXCEPT ![m] = bytes]) = TotalWithout(s, m) + bytes
    BY <1>1, <2>1, TotalWithoutFacts
  <2>5. QED
    BY <2>2, <2>3, <2>4 DEF TotalMatches
<1>5. QED
  BY <1>3, <1>4 DEF TotalMatchesEntries, TotalMatches

LEMMA DecodeTotal ==
    ASSUME TypeOK, TotalMatchesEntries, NEW s \in Sessions, Decode(s)
    PROVE  TotalMatchesEntries'
<1> DEFINE m == job[s].model
<1>1. m \in Models /\ cache[s][m] \in Entry
  BY DEF TypeOK, Decode, Job, Cached, Querying
<1>2. cache' = [cache EXCEPT ![s][m].live = @ + 1] /\ total' = total
  BY DEF Decode
<1> HIDE DEF m
<1> DEFINE e == [cache[s][m] EXCEPT !.live = @ + 1]
<1>3. e \in Entry /\ e.bytes = cache[s][m].bytes
  BY <1>1 DEF Entry
<1>6. cache' = [cache EXCEPT ![s][m] = e]
  BY <1>1, <1>2 DEF TypeOK
<1> HIDE DEF e
<1>4. ASSUME NEW t \in Sessions PROVE TotalMatches(t)'
  <2>1. TotalMatches(t) /\ total'[t] = total[t]
    BY <1>2 DEF TotalMatchesEntries, TotalMatches
  <2>2. \A n \in Models : /\ Cached(t, n)' <=> Cached(t, n)
                          /\ Cached(t, n) => cache'[t][n].bytes = cache[t][n].bytes
    BY <1>1, <1>3, <1>6, RegistryAssumption DEF TypeOK, Cached
  <2>3. QED
    BY <2>1, <2>2, SameTotal
<1>5. QED
  BY <1>4 DEF TotalMatchesEntries, TotalMatches

LEMMA TotalStep == TypeOK /\ TotalMatchesEntries /\ [Next]_vars => TotalMatchesEntries'
<1> SUFFICES ASSUME TypeOK, TotalMatchesEntries, [Next]_vars PROVE TotalMatchesEntries'
  OBVIOUS
<1>1. ASSUME UNCHANGED <<cache, total>> PROVE TotalMatchesEntries'
  BY <1>1 DEF TotalMatchesEntries, Measured, Cached
<1>2. ASSUME NEW s \in Sessions, Query(s) PROVE TotalMatchesEntries'
  <2>1. ASSUME NEW bytes \in Sizes, LoadSucceeds(s, bytes) PROVE TotalMatchesEntries'
    BY <2>1, InsertedTotal
  <2>2. CASE EvictOne(s)
    BY <2>2, EvictedTotal DEF EvictOne
  <2>3. CASE Decode(s)
    BY <2>3, DecodeTotal
  <2>4. ASSUME NEW m \in Models, QueryHit(s, m) PROVE TotalMatchesEntries'
    BY <1>1, <2>4 DEF QueryHit, Touch
  <2>5. CASE \/ QueryRefused(s) \/ LoadFails(s) \/ QueryFails(s)
             \/ EvictDone(s) \/ QueryReturns(s)
    BY <1>1, <2>5 DEF QueryRefused, LoadFails, QueryFails, EvictDone, QueryReturns,
                      Abort, backendCache
  <2>6. ASSUME NEW m \in Models, FetchRow(s, m) \/ QueryUnknown(s, m) \/ FetchPanics(s, m)
        PROVE  TotalMatchesEntries'
    BY <1>1, <2>6 DEF FetchRow, QueryUnknown, FetchPanics, Abort, backendCache
  <2>7. QED
    BY <1>2, <2>1, <2>2, <2>3, <2>4, <2>5, <2>6 DEF Query
<1>3. ASSUME NEW s \in Sessions, Manage(s) PROVE TotalMatchesEntries'
  <2>1. CASE UpsertNext(s)
    <3>1. Head(todo[s]) \in Models /\ EvictOwn(s, Head(todo[s]))
      BY <2>1 DEF TypeOK, UpsertNext
    <3>2. QED
      BY <3>1, EvictOwnTotal
  <2>2. ASSUME NEW m \in Models, DropModel(s, m) PROVE TotalMatchesEntries'
    BY <2>2, EvictOwnTotal DEF DropModel
  <2>3. ASSUME NEW batch \in Batches, StartRegister(s, batch) PROVE TotalMatchesEntries'
    BY <1>1, <2>3 DEF StartRegister, backendCache
  <2>4. CASE RegisterReturns(s) \/ RegisterFails(s)
    BY <1>1, <2>4 DEF RegisterReturns, RegisterFails, Abort, backendCache
  <2>5. QED
    BY <1>3, <2>1, <2>2, <2>3, <2>4 DEF Manage
<1>4. ASSUME NEW s \in Sessions,
             Commit(s) \/ Rollback(s) \/ Savepoint(s) \/ Release(s) \/ ReloadConfig(s)
      PROVE  TotalMatchesEntries'
  BY <1>1, <1>4 DEF Commit, Rollback, Savepoint, Release, ReloadConfig, Abort, backendCache
<1>5. CASE UNCHANGED vars
  BY <1>1, <1>5 DEF vars, backendCache
<1>6. QED
  BY <1>2, <1>3, <1>4, <1>5 DEF Next

\* total_bytes is the sum of what the entries were measured at, however loads,
\* evictions and writes follow one another: no saturating subtraction loses a byte.
THEOREM TotalCorrect == Spec => []TotalMatchesEntries
<1>1. Init => TotalMatchesEntries
  <2> SUFFICES ASSUME Init PROVE TotalMatchesEntries
    OBVIOUS
  <2>1. ASSUME NEW s \in Sessions PROVE total[s] = 0 /\ Measured(s) = [m \in Models |-> 0]
    BY DEF Init, Measured, Cached
  <2>2. QED
    BY <2>1, SumOfZeros, RegistryAssumption DEF TotalMatchesEntries
<1>2. QED
  BY <1>1, TotalStep, TypeCorrect, PTL DEF Spec

----------------------------------------------------------------------------

\* RunningBackendIsCached, for one session.
HasBackend(s) ==
    pc[s] \in {"evicting", "running"} =>
        /\ Cached(s, job[s].model)
        /\ cache[s][job[s].model].row = job[s].row
        /\ lru[s][Len(lru[s])] = job[s].model

\* Evicting another model than the one at the young end leaves that one there.
LEMMA WithoutKeepsLast ==
    ASSUME NEW l \in Seq(Models), NEW m \in Models, Len(l) > 0, l[Len(l)] # m
    PROVE  LET w == Without(l, m) IN w[Len(w)] = l[Len(l)]
<1>1. CASE ~Holds(l, m)
  BY <1>1 DEF Holds, Without
<1>2. CASE Holds(l, m)
  <2> DEFINE p == CHOOSE i \in 1 .. Len(l) : l[i] = m
             w == Without(l, m)
  <2>1. p \in 1 .. Len(l) /\ l[p] = m
    BY <1>2 DEF Holds
  <2>2. w = RemoveAt(l, p)
    BY <1>2 DEF Holds, Without
  <2> HIDE DEF p, w
  <2>3. /\ Len(w) = Len(l) - 1
        /\ \A i \in 1 .. Len(l) - 1 : w[i] = IF i < p THEN l[i] ELSE l[i + 1]
    BY <2>1, <2>2, RemoveAtElements
  <2>4. p < Len(l)
    BY <2>1
  <2>5. Len(l) - 1 \in 1 .. Len(l) - 1 /\ ~(Len(l) - 1 < p)
    BY <2>1, <2>4
  <2>6. w[Len(l) - 1] = l[Len(l) - 1 + 1] /\ Len(l) - 1 + 1 = Len(l)
    BY <2>3, <2>5
  <2>7. QED
    BY <2>3, <2>6 DEF w
<1>3. QED
  BY <1>1, <1>2

\* A step that leaves the backend cache of t and its query alone.
LEMMA SameBackend ==
    ASSUME NEW t \in Sessions, HasBackend(t),
           cache'[t] = cache[t], lru'[t] = lru[t], pc'[t] = pc[t], job'[t] = job[t]
    PROVE  HasBackend(t)'
BY DEF HasBackend, Cached

LEMMA IdleBackend ==
    ASSUME NEW t \in Sessions, pc'[t] \notin {"evicting", "running"}
    PROVE  HasBackend(t)'
BY DEF HasBackend

LEMMA EvictOwnElsewhere ==
    ASSUME TypeOK, NEW s \in Sessions, NEW m \in Models, EvictOwn(s, m),
           NEW t \in Sessions, t # s
    PROVE  cache'[t] = cache[t] /\ lru'[t] = lru[t]
BY DEF TypeOK, EvictOwn, Evicted, backendCache

LEMMA RunningStep ==
    TypeOK /\ LruMatchesCache /\ RunningBackendIsCached /\ [Next]_vars
      => RunningBackendIsCached'
<1> SUFFICES ASSUME TypeOK, LruMatchesCache, RunningBackendIsCached, [Next]_vars,
                    NEW t \in Sessions
             PROVE  HasBackend(t)'
  BY DEF RunningBackendIsCached, HasBackend
<1>0. HasBackend(t)
  BY DEF RunningBackendIsCached, HasBackend
<1>1. ASSUME UNCHANGED <<cache, lru, pc, job>> PROVE HasBackend(t)'
  BY <1>0, <1>1, SameBackend
<1>2. ASSUME NEW s \in Sessions, Abort(s) PROVE HasBackend(t)'
  <2>1. CASE t = s
    BY <1>2, <2>1, IdleBackend DEF TypeOK, Abort, Idle
  <2>2. CASE t # s
    BY <1>0, <1>2, <2>2, SameBackend DEF TypeOK, Abort, Idle, backendCache
  <2>3. QED
    BY <2>1, <2>2
<1>3. ASSUME NEW s \in Sessions, Idle(s), UNCHANGED <<cache, lru>> PROVE HasBackend(t)'
  <2>1. CASE t = s
    BY <1>3, <2>1, IdleBackend DEF TypeOK, Idle
  <2>2. CASE t # s
    BY <1>0, <1>3, <2>2, SameBackend DEF TypeOK, Idle
  <2>3. QED
    BY <2>1, <2>2
<1>4. ASSUME NEW s \in Sessions, Query(s) PROVE HasBackend(t)'
  <2>1. CASE QueryRefused(s) \/ LoadFails(s) \/ QueryFails(s)
    BY <1>2, <2>1 DEF QueryRefused, LoadFails, QueryFails
  <2>2. ASSUME NEW m \in Models, QueryUnknown(s, m) \/ FetchPanics(s, m)
        PROVE  HasBackend(t)'
    BY <1>2, <2>2 DEF QueryUnknown, FetchPanics
  <2>3. ASSUME NEW m \in Models, QueryHit(s, m) PROVE HasBackend(t)'
    <3>1. CASE t = s
      <4>1. lru'[t][Len(lru'[t])] = m
        BY <2>3, <3>1, HitRefreshes
      <4>2. job'[t] = [model |-> m, row |-> cache[s][m].row] /\ cache' = cache
        BY <2>3, <3>1 DEF TypeOK, QueryHit, Touch
      <4>3. cache[s][m] # NoEntry
        BY <2>3 DEF QueryHit, Cached
      <4>4. QED
        BY <3>1, <4>1, <4>2, <4>3 DEF HasBackend, Cached
    <3>2. CASE t # s
      BY <1>0, <2>3, <3>2, SameBackend DEF TypeOK, QueryHit, Touch
    <3>3. QED
      BY <3>1, <3>2
  <2>4. ASSUME NEW m \in Models, FetchRow(s, m) PROVE HasBackend(t)'
    <3>1. CASE t = s
      BY <2>4, <3>1, IdleBackend DEF TypeOK, FetchRow
    <3>2. CASE t # s
      BY <1>0, <2>4, <3>2, SameBackend DEF TypeOK, FetchRow, backendCache
    <3>3. QED
      BY <3>1, <3>2
  <2>5. ASSUME NEW bytes \in Sizes, LoadSucceeds(s, bytes) PROVE HasBackend(t)'
    <3> DEFINE m == job[s].model
               e == [row |-> job[s].row, bytes |-> bytes, live |-> bytes]
    <3>1. /\ lru'[s][Len(lru'[s])] = m
          /\ cache' = [cache EXCEPT ![s][m] = e]
          /\ m \in Models /\ e # NoEntry /\ e.row = job[s].row
      BY <2>5, LoadRefreshes, RegistryAssumption DEF Job
    <3>2. job' = job /\ lru' = [lru EXCEPT ![s] = Append(Without(@, m), m)]
      BY <2>5 DEF LoadSucceeds, Inserted
    <3> HIDE DEF e
    <3>3. CASE t = s
      <4>1. cache'[t][m] = e
        BY <3>1, <3>3 DEF TypeOK
      <4>2. QED
        BY <3>1, <3>2, <3>3, <4>1 DEF HasBackend, Cached
    <3>4. CASE t # s
      BY <1>0, <2>5, <3>1, <3>2, <3>4, SameBackend DEF TypeOK, LoadSucceeds
    <3>5. QED
      BY <3>3, <3>4
  <2>6. CASE EvictOne(s)
    <3>1. PICK v \in Models : IsVictim(s, v) /\ Evicted(s, v)
      BY <2>6 DEF EvictOne
    <3>2. v # job[s].model
      BY <3>1 DEF IsVictim
    <3>3. /\ cache' = [cache EXCEPT ![s][v] = NoEntry]
          /\ lru' = [lru EXCEPT ![s] = Without(lru[s], v)]
          /\ pc' = pc /\ job' = job
      BY <2>6, <3>1 DEF EvictOne, Evicted, control
    <3>4. CASE t = s
      <4>1. pc[t] = "evicting" /\ job[t] \in Job /\ lru[t] \in Seq(Models)
        BY <2>6, <3>4 DEF TypeOK, EvictOne, Querying
      <4>2. /\ cache[t][job[t].model] # NoEntry
            /\ cache[t][job[t].model].row = job[t].row
            /\ lru[t][Len(lru[t])] = job[t].model
        BY <1>0, <4>1 DEF HasBackend, Cached
      <4>3. job[t].model \in Models
        BY <4>1 DEF Job
      <4>4. cache'[t][job[t].model] = cache[t][job[t].model]
        BY <3>2, <3>3, <3>4, <4>3 DEF TypeOK
      <4>5. Len(lru[t]) > 0
        BY <2>6, <3>4, <4>1 DEF EvictOne, OverBudget
      <4>6. lru'[t][Len(lru'[t])] = job[t].model
        <5>1. lru'[t] = Without(lru[t], v)
          BY <3>3, <3>4 DEF TypeOK
        <5>2. QED
          BY <3>2, <3>4, <4>1, <4>2, <4>5, <5>1, WithoutKeepsLast
      <4>7. QED
        BY <3>3, <4>2, <4>4, <4>6 DEF HasBackend, Cached
    <3>5. CASE t # s
      BY <1>0, <3>3, <3>5, SameBackend DEF TypeOK
    <3>6. QED
      BY <3>4, <3>5
  <2>7. CASE EvictDone(s)
    <3>1. cache' = cache /\ lru' = lru /\ job' = job /\ pc[s] = "evicting"
          /\ pc' = [pc EXCEPT ![s] = "running"]
      BY <2>7 DEF EvictDone, backendCache
    <3>2. CASE t = s
      BY <1>0, <3>1, <3>2 DEF HasBackend, Cached
    <3>3. CASE t # s
      BY <1>0, <3>1, <3>3, SameBackend DEF TypeOK
    <3>4. QED
      BY <3>2, <3>3
  <2>8. CASE Decode(s)
    <3>1. lru' = lru /\ pc' = pc /\ job' = job
      BY <2>8 DEF Decode, control
    <3>2. pc[t] \in {"evicting", "running"} => job[t].model \in Models
      BY DEF TypeOK, Querying, Job
    <3>3. QED
      BY <1>0, <2>8, <3>1, <3>2, DecodeFacts DEF HasBackend, Cached
  <2>9. CASE QueryReturns(s)
    BY <1>3, <2>9 DEF QueryReturns, backendCache
  <2>10. QED
    BY <1>4, <2>1, <2>2, <2>3, <2>4, <2>5, <2>6, <2>7, <2>8, <2>9 DEF Query
<1>5. ASSUME NEW s \in Sessions, Manage(s) PROVE HasBackend(t)'
  <2>1. ASSUME NEW batch \in Batches, StartRegister(s, batch) PROVE HasBackend(t)'
    <3>1. CASE t = s
      BY <2>1, <3>1, IdleBackend DEF TypeOK, StartRegister
    <3>2. CASE t # s
      BY <1>0, <2>1, <3>2, SameBackend DEF TypeOK, StartRegister, backendCache
    <3>3. QED
      BY <3>1, <3>2
  <2>2. CASE UpsertNext(s)
    <3>1. /\ Head(todo[s]) \in Models /\ EvictOwn(s, Head(todo[s]))
          /\ pc[s] = "registering" /\ pc' = pc /\ job' = job
      BY <2>2 DEF TypeOK, UpsertNext
    <3>2. CASE t = s
      BY <3>1, <3>2, IdleBackend
    <3>3. CASE t # s
      BY <1>0, <3>1, <3>3, EvictOwnElsewhere, SameBackend
    <3>4. QED
      BY <3>2, <3>3
  <2>3. CASE RegisterReturns(s)
    BY <1>3, <2>3 DEF RegisterReturns, backendCache
  <2>4. CASE RegisterFails(s)
    BY <1>2, <2>4 DEF RegisterFails
  <2>5. ASSUME NEW m \in Models, DropModel(s, m) PROVE HasBackend(t)'
    <3>1. EvictOwn(s, m) /\ pc[s] = "idle" /\ pc' = pc /\ job' = job
      BY <2>5 DEF DropModel, control
    <3>2. CASE t = s
      BY <3>1, <3>2, IdleBackend
    <3>3. CASE t # s
      BY <1>0, <3>1, <3>3, EvictOwnElsewhere, SameBackend
    <3>4. QED
      BY <3>2, <3>3
  <2>6. QED
    BY <1>5, <2>1, <2>2, <2>3, <2>4, <2>5 DEF Manage
<1>6. ASSUME NEW s \in Sessions,
             Commit(s) \/ Savepoint(s) \/ Release(s) \/ ReloadConfig(s)
      PROVE  HasBackend(t)'
  BY <1>1, <1>6 DEF Commit, Savepoint, Release, ReloadConfig, backendCache, control
<1>7. ASSUME NEW s \in Sessions, Rollback(s) PROVE HasBackend(t)'
  BY <1>2, <1>7 DEF Rollback
<1>8. CASE UNCHANGED vars
  BY <1>1, <1>8 DEF vars, backendCache, control
<1>9. QED
  BY <1>4, <1>5, <1>6, <1>7, <1>8 DEF Next

\* The backend a query runs on is in the cache, is the one of the row it was
\* looked up by, and is the youngest entry: no eviction of the insert takes it.
THEOREM RunningCorrect == Spec => []RunningBackendIsCached
<1>1. Init => RunningBackendIsCached
  BY DEF Init, RunningBackendIsCached
<1>2. QED
  BY <1>1, RunningStep, TypeCorrect, LruCorrect, PTL DEF Spec

----------------------------------------------------------------------------

\* SavepointsNest, for one session.
Nested(s) ==
    \A m \in Models :
        /\ \A i \in 1 .. Len(saved[s]) :
             saved[s][i][m] # Untouched => pending[s][m] # Untouched
        /\ \A i, j \in 1 .. Len(saved[s]) :
             i <= j /\ saved[s][i][m] # Untouched => saved[s][j][m] # Untouched

\* A session that keeps its savepoints and only adds to its writes.
LEMMA GrownNested ==
    ASSUME NEW t \in Sessions, Nested(t), saved'[t] = saved[t],
           \A x \in Models : pending[t][x] # Untouched => pending'[t][x] # Untouched
    PROVE  Nested(t)'
BY DEF Nested

LEMMA ClosedNested ==
    ASSUME TypeOK, NEW s \in Sessions, Closed(s), NEW t \in Sessions, Nested(t)
    PROVE  Nested(t)'
<1>1. CASE t = s
  BY <1>1, ClosedFacts DEF Nested
<1>2. CASE t # s
  BY <1>2, ClosedFacts, GrownNested
<1>3. QED
  BY <1>1, <1>2

LEMMA BackToNested ==
    ASSUME TypeOK, NEW s \in Sessions, NEW k \in 1 .. Len(saved[s]), BackTo(s, k),
           NEW t \in Sessions, Nested(t)
    PROVE  Nested(t)'
<1>1. CASE t = s
  <2>1. /\ pending'[t] = saved[t][k]
        /\ Len(saved'[t]) = k
        /\ \A i \in 1 .. k : i \in 1 .. Len(saved[t]) /\ saved'[t][i] = saved[t][i]
    BY <1>1, BackToFacts
  <2>2. \A i \in 1 .. k : i <= k
    BY <1>1
  <2>3. k \in 1 .. Len(saved[t])
    BY <1>1
  <2>4. QED
    BY <2>1, <2>2, <2>3 DEF Nested
<1>2. CASE t # s
  BY <1>2, BackToFacts, GrownNested
<1>3. QED
  BY <1>1, <1>2

LEMMA AbortNested ==
    ASSUME TypeOK, NEW s \in Sessions, Abort(s), NEW t \in Sessions, Nested(t)
    PROVE  Nested(t)'
BY ClosedNested, BackToNested DEF Abort

\* The rows that a write leaves, and the one that it writes.
LEMMA WrittenFacts ==
    ASSUME TypeOK, NEW s \in Sessions, NEW m \in Models, NEW r \in Rows,
           pending' = [pending EXCEPT ![s][m] = r]
    PROVE  /\ pending'[s][m] = r /\ r # Untouched
           /\ \A u \in Sessions, y \in Models :
                (u # s \/ y # m) => pending'[u][y] = pending[u][y]
           /\ \A u \in Sessions : u # s => pending'[u] = pending[u]
BY RegistryAssumption DEF TypeOK, WriteSets

LEMMA UpsertWrites ==
    ASSUME TypeOK, NEW s \in Sessions, UpsertNext(s)
    PROVE  /\ Head(todo[s]) \in Models /\ issued + 1 \in Rows
           /\ pending' = [pending EXCEPT ![s][Head(todo[s])] = issued + 1]
           /\ EvictOwn(s, Head(todo[s]))
BY RegistryAssumption DEF TypeOK, UpsertNext, Rows, Registrations

LEMMA NestStep == TypeOK /\ SavepointsNest /\ [Next]_vars => SavepointsNest'
<1> SUFFICES ASSUME TypeOK, SavepointsNest, [Next]_vars, NEW t \in Sessions
             PROVE  Nested(t)'
  BY DEF SavepointsNest, Nested
<1>0. Nested(t)
  BY DEF SavepointsNest, Nested
<1>1. ASSUME UNCHANGED <<pending, saved>> PROVE Nested(t)'
  BY <1>0, <1>1, GrownNested
<1>2. ASSUME NEW s \in Sessions, Query(s) PROVE Nested(t)'
  <2>1. CASE QueryRefused(s) \/ LoadFails(s) \/ QueryFails(s)
    BY <1>0, <2>1, AbortNested DEF QueryRefused, LoadFails, QueryFails
  <2>2. ASSUME NEW m \in Models, QueryUnknown(s, m) \/ FetchPanics(s, m) PROVE Nested(t)'
    BY <1>0, <2>2, AbortNested DEF QueryUnknown, FetchPanics
  <2>3. ASSUME NEW m \in Models, QueryHit(s, m) \/ FetchRow(s, m) PROVE Nested(t)'
    BY <1>1, <2>3 DEF QueryHit, FetchRow, table, subtransactions
  <2>4. ASSUME NEW bytes \in Sizes, LoadSucceeds(s, bytes) PROVE Nested(t)'
    BY <1>1, <2>4 DEF LoadSucceeds, table, subtransactions
  <2>5. CASE EvictOne(s) \/ EvictDone(s) \/ Decode(s) \/ QueryReturns(s)
    BY <1>1, <2>5 DEF EvictOne, EvictDone, Decode, QueryReturns, table, subtransactions
  <2>6. QED
    BY <1>2, <2>1, <2>2, <2>3, <2>4, <2>5 DEF Query
<1>3. ASSUME NEW s \in Sessions, Manage(s) PROVE Nested(t)'
  <2>1. ASSUME NEW batch \in Batches, StartRegister(s, batch) PROVE Nested(t)'
    BY <1>1, <2>1 DEF StartRegister, table, subtransactions
  <2>2. CASE UpsertNext(s)
    <3>1. saved' = saved
      BY <2>2 DEF UpsertNext, subtransactions
    <3>2. \A x \in Models : pending[t][x] # Untouched => pending'[t][x] # Untouched
      BY <2>2, UpsertWrites, WrittenFacts
    <3>3. QED
      BY <1>0, <3>1, <3>2, GrownNested
  <2>3. CASE RegisterReturns(s)
    BY <1>1, <2>3 DEF RegisterReturns, table, subtransactions
  <2>4. CASE RegisterFails(s)
    BY <1>0, <2>4, AbortNested DEF RegisterFails
  <2>5. ASSUME NEW m \in Models, DropModel(s, m) PROVE Nested(t)'
    <3>1. saved' = saved
      BY <2>5 DEF DropModel, subtransactions
    <3>2. NoRow \in Rows
      BY DEF Rows
    <3>3. \A x \in Models : pending[t][x] # Untouched => pending'[t][x] # Untouched
      BY <2>5, <3>2, WrittenFacts DEF DropModel
    <3>4. QED
      BY <1>0, <3>1, <3>3, GrownNested
  <2>6. QED
    BY <1>3, <2>1, <2>2, <2>3, <2>4, <2>5 DEF Manage
<1>4. ASSUME NEW s \in Sessions, Commit(s) PROVE Nested(t)'
  BY <1>0, <1>4, ClosedNested DEF Commit
<1>5. ASSUME NEW s \in Sessions, Rollback(s) PROVE Nested(t)'
  BY <1>0, <1>5, AbortNested DEF Rollback
<1>6. ASSUME NEW s \in Sessions, Savepoint(s) PROVE Nested(t)'
  <2>1. pending' = pending
    BY <1>6 DEF Savepoint
  <2>2. CASE t = s
    <3> DEFINE n == Len(saved[t])
    <3>1. /\ Len(saved'[t]) = n + 1 /\ n \in Nat
          /\ \A i \in 1 .. n : saved'[t][i] = saved[t][i]
          /\ saved'[t][n + 1] = pending[t]
      BY <1>6, <2>2, SavepointFacts DEF TypeOK
    <3>2. \A i \in 1 .. n + 1 : i \in 1 .. n \/ i = n + 1
      BY <3>1
    <3>3. \A i, j \in 1 .. n + 1 : i <= j /\ i = n + 1 => j = n + 1
      BY <3>1
    <3>4. QED
      BY <1>0, <2>1, <3>1, <3>2, <3>3 DEF Nested
  <2>3. CASE t # s
    BY <1>0, <1>6, <2>1, <2>3, SavepointFacts, GrownNested
  <2>4. QED
    BY <2>2, <2>3
<1>7. ASSUME NEW s \in Sessions, Release(s) PROVE Nested(t)'
  <2>1. pending' = pending
    BY <1>7 DEF Release
  <2>2. CASE t = s
    <3>1. \A i \in 1 .. Len(saved'[t]) :
             i \in 1 .. Len(saved[t]) /\ saved'[t][i] = saved[t][i]
      BY <1>7, <2>2, ReleaseFacts
    <3>2. QED
      BY <1>0, <2>1, <3>1 DEF Nested
  <2>3. CASE t # s
    BY <1>0, <1>7, <2>1, <2>3, ReleaseFacts, GrownNested
  <2>4. QED
    BY <2>2, <2>3
<1>8. ASSUME NEW s \in Sessions, ReloadConfig(s) PROVE Nested(t)'
  BY <1>1, <1>8 DEF ReloadConfig, table, subtransactions
<1>9. CASE UNCHANGED vars
  BY <1>1, <1>9 DEF vars, table, subtransactions
<1>10. QED
  BY <1>2, <1>3, <1>4, <1>5, <1>6, <1>7, <1>8, <1>9 DEF Next

LEMMA NestCorrect == Spec => []SavepointsNest
<1>1. Init => SavepointsNest
  BY DEF Init, SavepointsNest
<1>2. QED
  BY <1>1, NestStep, TypeCorrect, PTL DEF Spec

----------------------------------------------------------------------------

\* CacheCoherent, for one session.
Coherent(s) ==
    /\ poisoned[s] => pc[s] \notin Querying
    /\ \A m \in Models :
         ~poisoned[s] /\ pending[s][m] # Untouched /\ Cached(s, m) =>
             cache[s][m].row \in {pending[s][m]} \cup undone[s]
    /\ pc[s] \in Querying /\ pending[s][job[s].model] # Untouched =>
         job[s].row \in {pending[s][job[s].model]} \cup undone[s]

LEMMA SameCoherent ==
    ASSUME NEW t \in Sessions, Coherent(t), poisoned'[t] = poisoned[t],
           pending'[t] = pending[t], undone'[t] = undone[t], cache'[t] = cache[t],
           pc'[t] = pc[t], job'[t] = job[t]
    PROVE  Coherent(t)'
BY DEF Coherent, Cached

\* Going back to a savepoint leaves the entries of what was written since.
LEMMA BackToCoherent ==
    ASSUME TypeOK, SavepointsNest, NEW s \in Sessions, NEW k \in 1 .. Len(saved[s]),
           BackTo(s, k), UNCHANGED cache, pc'[s] \notin Querying,
           poisoned[s] => poisoned'[s], Coherent(s)
    PROVE  Coherent(s)'
<1>1. /\ pending'[s] = saved[s][k]
      /\ undone'[s] = undone[s] \cup Discarded(s, saved[s][k])
  BY BackToFacts
<1>2. ASSUME NEW m \in Models, ~poisoned'[s], pending'[s][m] # Untouched, Cached(s, m)'
      PROVE  cache'[s][m].row \in {pending'[s][m]} \cup undone'[s]
  <2>1. pending[s][m] # Untouched
    BY <1>1, <1>2 DEF SavepointsNest
  <2>2. Cached(s, m) /\ cache'[s][m] = cache[s][m] /\ cache[s][m] \in Entry
    BY <1>2 DEF Cached, TypeOK
  <2>3. cache[s][m].row \in {pending[s][m]} \cup undone[s] /\ cache[s][m].row \in Registrations
    BY <1>2, <2>1, <2>2 DEF Coherent, Entry
  <2>4. cache[s][m].row = pending[s][m] /\ pending[s][m] # saved[s][k][m]
          => cache[s][m].row \in Discarded(s, saved[s][k])
    BY <2>3 DEF Discarded
  <2>5. QED
    BY <1>1, <2>2, <2>3, <2>4
<1>3. QED
  BY <1>2 DEF Coherent

LEMMA AbortCoherent ==
    ASSUME TypeOK, SavepointsNest, NEW s \in Sessions, Abort(s),
           \A u \in Sessions : u # s => poisoned'[u] = poisoned[u],
           poisoned[s] => poisoned'[s],
           NEW t \in Sessions, Coherent(t)
    PROVE  Coherent(t)'
<1>0. pc'[s] = "idle" /\ cache' = cache /\ "idle" \notin Querying
  BY DEF TypeOK, Abort, Idle, backendCache, Querying
<1>1. CASE Closed(s) /\ t = s
  <2>1. pending'[t] = NoWrites
    BY <1>1, ClosedFacts
  <2>2. QED
    BY <1>0, <1>1, <2>1 DEF Coherent, NoWrites
<1>2. ASSUME NEW k \in 1 .. Len(saved[s]), BackTo(s, k), t = s PROVE Coherent(t)'
  BY <1>0, <1>2, BackToCoherent
<1>3. CASE t # s
  <2>1. pending'[t] = pending[t] /\ undone'[t] = undone[t]
    BY <1>3, ClosedFacts, BackToFacts DEF Abort
  <2>2. QED
    BY <1>0, <1>3, <2>1, SameCoherent DEF TypeOK, Abort, Idle
<1>4. QED
  BY <1>1, <1>2, <1>3 DEF Abort

\* The write of a row and the eviction of its model, in an idle or registering
\* session: the upsert and the drop.
LEMMA WriteCoherent ==
    ASSUME TypeOK, NEW s \in Sessions, NEW m \in Models, EvictOwn(s, m),
           pc[s] \notin Querying, UNCHANGED <<pc, job, poisoned, undone>>,
           \A x \in Models : x # m => pending'[s][x] = pending[s][x],
           \A u \in Sessions : u # s => pending'[u] = pending[u],
           NEW t \in Sessions, Coherent(t)
    PROVE  Coherent(t)'
<1>1. CASE t = s
  <2>1. CASE poisoned[s]
    BY <1>1, <2>1 DEF Coherent
  <2>2. CASE ~poisoned[s]
    <3>1. cache' = [cache EXCEPT ![s][m] = NoEntry]
      BY <2>2 DEF EvictOwn, Evicted
    <3>2. \A x \in Models : cache'[s][x] # NoEntry => x # m /\ cache'[s][x] = cache[s][x]
      BY <3>1 DEF TypeOK
    <3>3. QED
      BY <1>1, <2>2, <3>2 DEF Coherent, Cached
  <2>3. QED
    BY <2>1, <2>2
<1>2. CASE t # s
  BY <1>2, EvictOwnElsewhere, SameCoherent
<1>3. QED
  BY <1>1, <1>2

LEMMA CoherentStep ==
    TypeOK /\ LruMatchesCache /\ SavepointsNest /\ CacheCoherent /\ [Next]_vars => CacheCoherent'
<1> SUFFICES ASSUME TypeOK, LruMatchesCache, SavepointsNest, CacheCoherent, [Next]_vars,
                    NEW t \in Sessions
             PROVE  Coherent(t)'
  BY DEF CacheCoherent, Coherent
<1>0. Coherent(t)
  BY DEF CacheCoherent, Coherent
<1>1. ASSUME UNCHANGED <<poisoned, pending, undone, cache, pc, job>> PROVE Coherent(t)'
  BY <1>0, <1>1, SameCoherent
<1>2. ASSUME NEW s \in Sessions, Query(s) PROVE Coherent(t)'
  <2>1. CASE QueryRefused(s) \/ LoadFails(s) \/ QueryFails(s)
    BY <1>0, <2>1, AbortCoherent DEF QueryRefused, LoadFails, QueryFails
  <2>2. ASSUME NEW m \in Models, QueryUnknown(s, m) PROVE Coherent(t)'
    BY <1>0, <2>2, AbortCoherent DEF QueryUnknown
  <2>3. ASSUME NEW m \in Models, FetchPanics(s, m) PROVE Coherent(t)'
    BY <1>0, <2>3, AbortCoherent DEF FetchPanics, TypeOK
  <2>4. ASSUME NEW m \in Models, QueryHit(s, m) PROVE Coherent(t)'
    <3>1. CASE t = s
      <4>1. /\ job'[t] = [model |-> m, row |-> cache[s][m].row]
            /\ cache' = cache /\ pending' = pending /\ undone' = undone /\ poisoned' = poisoned
            /\ ~poisoned[s] /\ cache[s][m] # NoEntry
        BY <2>4, <3>1 DEF TypeOK, QueryHit, Touch, table, subtransactions, settings, Cached
      <4>2. QED
        BY <1>0, <3>1, <4>1 DEF Coherent, Cached
    <3>2. CASE t # s
      BY <1>0, <2>4, <3>2, SameCoherent DEF TypeOK, QueryHit, Touch, table, subtransactions, settings
    <3>3. QED
      BY <3>1, <3>2
  <2>5. ASSUME NEW m \in Models, FetchRow(s, m) PROVE Coherent(t)'
    <3>1. CASE t = s
      <4>1. /\ job'[t] = [model |-> m, row |-> View(s, m)]
            /\ cache' = cache /\ pending' = pending /\ undone' = undone /\ poisoned' = poisoned
            /\ ~poisoned[s]
        BY <2>5, <3>1 DEF TypeOK, FetchRow, Misses, table, subtransactions, settings, backendCache
      <4>2. QED
        BY <1>0, <3>1, <4>1 DEF Coherent, Cached, View
    <3>2. CASE t # s
      BY <1>0, <2>5, <3>2, SameCoherent DEF TypeOK, FetchRow, table, subtransactions, settings, backendCache
    <3>3. QED
      BY <3>1, <3>2
  <2>6. ASSUME NEW bytes \in Sizes, LoadSucceeds(s, bytes) PROVE Coherent(t)'
    <3> DEFINE m == job[s].model
               e == [row |-> job[s].row, bytes |-> bytes, live |-> bytes]
    <3>1. /\ cache' = [cache EXCEPT ![s][m] = e]
          /\ m \in Models /\ e.row = job[s].row
      BY <2>6, LoadRefreshes DEF Job
    <3>2. job' = job /\ pending' = pending /\ undone' = undone /\ poisoned' = poisoned /\ pc[s] = "loading"
      BY <2>6 DEF LoadSucceeds, table, subtransactions, settings
    <3> HIDE DEF e
    <3>3. CASE t = s
      <4>1. \A x \in Models : cache'[s][x] = IF x = m THEN e ELSE cache[s][x]
        BY <3>1 DEF TypeOK
      <4>2. pc[s] \in Querying
        BY <3>2 DEF Querying
      <4>3. QED
        BY <1>0, <3>1, <3>2, <3>3, <4>1, <4>2 DEF Coherent, Cached
    <3>4. CASE t # s
      <4>1. cache'[t] = cache[t] /\ pc'[t] = pc[t]
        BY <2>6, <3>1, <3>4 DEF TypeOK, LoadSucceeds
      <4>2. QED
        BY <1>0, <3>2, <4>1, SameCoherent
    <3>5. QED
      BY <3>3, <3>4
  <2>7. CASE EvictOne(s)
    <3>1. PICK v \in Models : cache' = [cache EXCEPT ![s][v] = NoEntry]
      BY <2>7 DEF EvictOne, Evicted
    <3>2. UNCHANGED <<pending, undone, poisoned, pc, job>>
      BY <2>7 DEF EvictOne, table, subtransactions, settings, control
    <3>3. \A x \in Models : cache'[t][x] # NoEntry => cache'[t][x] = cache[t][x]
      BY <3>1 DEF TypeOK
    <3>4. QED
      BY <1>0, <3>2, <3>3 DEF Coherent, Cached
  <2>8. CASE EvictDone(s)
    <3>1. UNCHANGED <<pending, undone, poisoned, cache, job>> /\ pc[s] = "evicting"
          /\ pc' = [pc EXCEPT ![s] = "running"]
      BY <2>8 DEF EvictDone, table, subtransactions, settings, backendCache
    <3>2. pc'[t] \in Querying <=> pc[t] \in Querying
      BY <3>1 DEF TypeOK, Querying
    <3>3. QED
      BY <1>0, <3>1, <3>2 DEF Coherent, Cached
  <2>9. CASE Decode(s)
    <3>1. UNCHANGED <<pending, undone, poisoned, pc, job>>
      BY <2>9 DEF Decode, table, subtransactions, settings, control
    <3>2. QED
      BY <1>0, <2>9, <3>1, DecodeFacts DEF Coherent, Cached
  <2>10. CASE QueryReturns(s)
    <3>1. UNCHANGED <<pending, undone, poisoned, cache>>
      BY <2>10 DEF QueryReturns, table, subtransactions, settings, backendCache
    <3>2. CASE t = s
      <4>1. pc'[t] = "idle"
        BY <2>10, <3>2 DEF TypeOK, QueryReturns, Idle
      <4>2. QED
        BY <1>0, <3>1, <4>1 DEF Coherent, Cached, Querying
    <3>3. CASE t # s
      BY <1>0, <2>10, <3>1, <3>3, SameCoherent DEF TypeOK, QueryReturns, Idle
    <3>4. QED
      BY <3>2, <3>3
  <2>11. QED
    BY <1>2, <2>1, <2>2, <2>3, <2>4, <2>5, <2>6, <2>7, <2>8, <2>9, <2>10 DEF Query
<1>3. ASSUME NEW s \in Sessions, Manage(s) PROVE Coherent(t)'
  <2>1. ASSUME NEW batch \in Batches, StartRegister(s, batch) PROVE Coherent(t)'
    <3>1. /\ UNCHANGED <<pending, undone, poisoned, cache, job>> /\ pc[s] = "idle"
          /\ pc' = [pc EXCEPT ![s] = "registering"]
      BY <2>1 DEF StartRegister, table, subtransactions, settings, backendCache
    <3>2. pc'[t] \in Querying <=> pc[t] \in Querying
      BY <3>1 DEF TypeOK, Querying
    <3>3. QED
      BY <1>0, <3>1, <3>2 DEF Coherent, Cached
  <2>2. CASE UpsertNext(s)
    <3> DEFINE m == Head(todo[s])
    <3>1. /\ m \in Models /\ EvictOwn(s, m)
          /\ pending' = [pending EXCEPT ![s][m] = issued + 1]
          /\ pc[s] \notin Querying /\ UNCHANGED <<pc, job, poisoned, undone>>
      BY <2>2 DEF TypeOK, UpsertNext, settings, subtransactions, Querying
    <3> HIDE DEF m
    <3>2. /\ \A x \in Models : x # m => pending'[s][x] = pending[s][x]
          /\ \A u \in Sessions : u # s => pending'[u] = pending[u]
      BY <3>1 DEF TypeOK, WriteSets
    <3>3. QED
      BY <1>0, <3>1, <3>2, WriteCoherent
  <2>3. CASE RegisterReturns(s)
    <3>1. UNCHANGED <<pending, undone, poisoned, cache>>
      BY <2>3 DEF RegisterReturns, table, subtransactions, settings, backendCache
    <3>2. pc'[t] \in Querying => pc[t] \in Querying /\ pc'[t] = pc[t] /\ job'[t] = job[t]
      BY <2>3 DEF TypeOK, RegisterReturns, Idle, Querying
    <3>3. QED
      BY <1>0, <3>1, <3>2 DEF Coherent, Cached
  <2>4. CASE RegisterFails(s)
    BY <1>0, <2>4, AbortCoherent DEF RegisterFails
  <2>5. ASSUME NEW m \in Models, DropModel(s, m) PROVE Coherent(t)'
    <3>1. /\ EvictOwn(s, m)
          /\ pending' = pending \/ pending' = [pending EXCEPT ![s][m] = NoRow]
          /\ pc[s] \notin Querying /\ UNCHANGED <<pc, job, poisoned, undone>>
      BY <2>5 DEF TypeOK, DropModel, settings, control, subtransactions, Querying
    <3>2. /\ \A x \in Models : x # m => pending'[s][x] = pending[s][x]
          /\ \A u \in Sessions : u # s => pending'[u] = pending[u]
      BY <3>1 DEF TypeOK, WriteSets
    <3>3. QED
      BY <1>0, <3>1, <3>2, WriteCoherent
  <2>6. QED
    BY <1>3, <2>1, <2>2, <2>3, <2>4, <2>5 DEF Manage
<1>4. ASSUME NEW s \in Sessions, Commit(s) PROVE Coherent(t)'
  <2>1. UNCHANGED <<poisoned, cache, pc, job>> /\ Closed(s)
    BY <1>4 DEF Commit, settings, backendCache, control
  <2>2. CASE t = s
    <3>1. pending'[t] = NoWrites /\ pc[t] = "idle"
      BY <1>4, <2>1, <2>2, ClosedFacts DEF Commit
    <3>2. QED
      BY <1>0, <2>1, <3>1 DEF Coherent, Cached, NoWrites, Querying
  <2>3. CASE t # s
    BY <1>0, <2>1, <2>3, ClosedFacts, SameCoherent
  <2>4. QED
    BY <2>2, <2>3
<1>5. ASSUME NEW s \in Sessions, Rollback(s) PROVE Coherent(t)'
  BY <1>0, <1>5, AbortCoherent DEF Rollback
<1>6. ASSUME NEW s \in Sessions, ReloadConfig(s) PROVE Coherent(t)'
  BY <1>1, <1>6 DEF ReloadConfig, table, subtransactions, backendCache, control
<1>7. CASE UNCHANGED vars
  BY <1>1, <1>7 DEF vars, table, subtransactions, backendCache, settings, control
<1>8. ASSUME NEW s \in Sessions, Savepoint(s) \/ Release(s) PROVE Coherent(t)'
  BY <1>1, <1>8 DEF Savepoint, Release, backendCache, settings, control
<1>9. QED
  BY <1>2, <1>3, <1>4, <1>5, <1>6, <1>7, <1>8 DEF Next

LEMMA CoherentCorrect == Spec => []CacheCoherent
<1>1. Init => CacheCoherent
  BY DEF Init, CacheCoherent, Cached, Querying
<1>2. QED
  BY <1>1, CoherentStep, TypeCorrect, LruCorrect, NestCorrect, PTL DEF Spec

\* A session is served by the row it has written itself in the transaction it
\* has open, or by a registration that this transaction rolled back to a savepoint:
\* no cached backend of an earlier registration outlives the write.
THEOREM OwnRegistrationCorrect == Spec => []OwnRegistrationServed
<1>1. CacheCoherent => OwnRegistrationServed
  BY DEF CacheCoherent, OwnRegistrationServed, Querying
<1>2. QED
  BY <1>1, CoherentCorrect, PTL

----------------------------------------------------------------------------

LEMMA EvictedEntries ==
    ASSUME TypeOK, NEW s \in Sessions, NEW m \in Models, Evicted(s, m)
    PROVE  /\ ~Cached(s, m)'
           /\ \A t \in Sessions, x \in Models :
                (t # s \/ x # m) => cache'[t][x] = cache[t][x]
BY DEF Evicted, TypeOK, Cached

\* EvictionsAreJustified, for one entry.
Justified(s, m) ==
    \/ /\ pc[s] = "registering" /\ m = Head(todo[s])
       /\ pending'[s][m] # Untouched
    \/ pc[s] = "idle" /\ View(s, m)' = NoRow
    \/ /\ total[s] > budget[s]
       /\ m = Head(lru[s])
       /\ Cached(s, job[s].model) /\ m # job[s].model

\* Only the model just used is passed over, and it is the youngest.
LEMMA VictimIsOldest ==
    ASSUME TypeOK, LruMatchesCache, RunningBackendIsCached,
           NEW s \in Sessions, pc[s] = "evicting", NEW v \in Models, IsVictim(s, v)
    PROVE  v = Head(lru[s])
<1> DEFINE l == lru[s]
           m == job[s].model
<1>1. l \in Seq(Models) /\ Len(l) \in Nat
  BY DEF TypeOK
<1>2. Injective(l) /\ l[Len(l)] = m
  BY LruMatches DEF RunningBackendIsCached
<1>3. PICK i \in 1 .. Len(l) : l[i] = v /\ \A j \in 1 .. (i - 1) : l[j] = m
  BY DEF IsVictim
<1> HIDE DEF l, m
<1>4. i = 1
  <2>1. SUFFICES ASSUME i # 1 PROVE FALSE
    OBVIOUS
  <2>2. 1 \in 1 .. (i - 1) /\ 1 \in 1 .. Len(l) /\ Len(l) \in 1 .. Len(l) /\ Len(l) # 1
    BY <1>1, <1>3, <2>1
  <2>3. l[1] = m
    BY <1>3, <2>2
  <2>4. QED
    BY <1>2, <2>2, <2>3 DEF Injective
<1>5. l # <<>>
  BY <1>1, <1>3
<1>6. QED
  BY <1>1, <1>3, <1>4, <1>5, TailType DEF l

LEMMA EvictionStep ==
    ASSUME TypeOK, LruMatchesCache, RunningBackendIsCached, [Next]_vars,
           NEW s \in Sessions, NEW m \in Models, Cached(s, m), ~Cached(s, m)'
    PROVE  Justified(s, m)
<1>1. cache' # cache
  BY DEF Cached
<1>2. ASSUME NEW t \in Sessions, Query(t) PROVE Justified(s, m)
  <2>1. ASSUME NEW x \in Models, QueryHit(t, x) PROVE FALSE
    BY <1>1, <2>1 DEF QueryHit, Touch
  <2>2. ASSUME NEW bytes \in Sizes, LoadSucceeds(t, bytes) PROVE FALSE
    <3> DEFINE e == [row |-> job[t].row, bytes |-> bytes, live |-> bytes]
    <3>1. cache' = [cache EXCEPT ![t][job[t].model] = e] /\ e \in Entry
      BY <2>2, LoadRefreshes
    <3>2. e # NoEntry
      BY <3>1, RegistryAssumption
    <3> HIDE DEF e
    <3>3. QED
      BY <3>1, <3>2 DEF TypeOK, Cached
  <2>3. CASE EvictOne(t)
    <3>1. PICK v \in Models : IsVictim(t, v) /\ Evicted(t, v)
      BY <2>3 DEF EvictOne
    <3>2. s = t /\ m = v
      BY <3>1, EvictedEntries DEF Cached
    <3>3. pc[s] = "evicting" /\ total[s] > budget[s]
      BY <2>3, <3>2 DEF EvictOne, OverBudget
    <3>4. m = Head(lru[s])
      BY <3>1, <3>2, <3>3, VictimIsOldest
    <3>5. Cached(s, job[s].model) /\ m # job[s].model
      BY <3>1, <3>2, <3>3 DEF RunningBackendIsCached, IsVictim
    <3>6. QED
      BY <3>3, <3>4, <3>5 DEF Justified
  <2>4. CASE Decode(t)
    BY <2>4, DecodeFacts DEF Cached
  <2>5. CASE \/ QueryRefused(t) \/ LoadFails(t) \/ QueryFails(t)
             \/ EvictDone(t) \/ QueryReturns(t)
    BY <1>1, <2>5 DEF QueryRefused, LoadFails, QueryFails, EvictDone, QueryReturns,
                      Abort, backendCache
  <2>6. ASSUME NEW x \in Models, FetchRow(t, x) \/ QueryUnknown(t, x) \/ FetchPanics(t, x)
        PROVE  FALSE
    BY <1>1, <2>6 DEF FetchRow, QueryUnknown, FetchPanics, Abort, backendCache
  <2>7. QED
    BY <1>2, <2>1, <2>2, <2>3, <2>4, <2>5, <2>6 DEF Query
<1>3. ASSUME NEW t \in Sessions, Manage(t) PROVE Justified(s, m)
  <2>1. CASE UpsertNext(t)
    <3> DEFINE x == Head(todo[t])
    <3>1. x \in Models /\ EvictOwn(t, x) /\ pc[t] = "registering"
      BY <2>1 DEF TypeOK, UpsertNext
    <3>2. Evicted(t, x)
      BY <1>1, <3>1 DEF EvictOwn, backendCache
    <3>3. s = t /\ m = x
      BY <3>1, <3>2, EvictedEntries DEF Cached
    <3>4. pending'[s][m] # Untouched
      BY <2>1, <3>3, UpsertWrites, WrittenFacts
    <3>5. QED
      BY <3>1, <3>3, <3>4 DEF Justified
  <2>2. ASSUME NEW x \in Models, DropModel(t, x) PROVE Justified(s, m)
    <3>1. Evicted(t, x)
      BY <1>1, <2>2 DEF DropModel, EvictOwn, backendCache
    <3>2. s = t /\ m = x /\ pc[s] = "idle"
      BY <2>2, <3>1, EvictedEntries DEF Cached, DropModel
    <3>3. View(s, m)' = NoRow
      <4>1. CASE View(t, x) = NoRow /\ UNCHANGED pending
        BY <2>2, <3>2, <4>1 DEF DropModel, View
      <4>2. CASE pending' = [pending EXCEPT ![t][x] = NoRow]
        <5>1. NoRow \in Rows
          BY DEF Rows
        <5>2. pending'[s][m] = NoRow /\ NoRow # Untouched
          <6>1. NoRow \in Rows /\ pending' = [pending EXCEPT ![s][m] = NoRow]
            BY <3>2, <4>2, <5>1
          <6>2. QED
            BY <6>1, RegistryAssumption DEF TypeOK, WriteSets
        <5>3. QED
          BY <5>2 DEF View
      <4>3. QED
        BY <2>2, <4>1, <4>2 DEF DropModel
    <3>4. QED
      BY <3>2, <3>3 DEF Justified
  <2>3. ASSUME NEW batch \in Batches, StartRegister(t, batch) PROVE FALSE
    BY <1>1, <2>3 DEF StartRegister, backendCache
  <2>4. CASE RegisterReturns(t) \/ RegisterFails(t)
    BY <1>1, <2>4 DEF RegisterReturns, RegisterFails, Abort, backendCache
  <2>5. QED
    BY <1>3, <2>1, <2>2, <2>3, <2>4 DEF Manage
<1>4. ASSUME NEW t \in Sessions,
             Commit(t) \/ Rollback(t) \/ Savepoint(t) \/ Release(t) \/ ReloadConfig(t)
      PROVE  FALSE
  BY <1>1, <1>4 DEF Commit, Rollback, Savepoint, Release, ReloadConfig, Abort, backendCache
<1>5. CASE UNCHANGED vars
  BY <1>1, <1>5 DEF vars, backendCache
<1>6. QED
  BY <1>2, <1>3, <1>4, <1>5 DEF Next

\* An entry leaves the cache only because its session rewrote or dropped the row,
\* or because the session is over budget and no other entry is older.
THEOREM EvictionsAreJustifiedAlways == Spec => EvictionsAreJustified
<1>1. TypeOK /\ LruMatchesCache /\ RunningBackendIsCached /\ [Next]_vars =>
        \A s \in Sessions, m \in Models : Cached(s, m) /\ ~Cached(s, m)' => Justified(s, m)
  BY EvictionStep
<1>2. QED
  BY <1>1, TypeCorrect, LruCorrect, RunningCorrect, PTL
  DEF Spec, EvictionsAreJustified, Justified

----------------------------------------------------------------------------

\* The three ways in which a cached backend comes to differ from its row.
HasCause(s, m) ==
    \/ /\ pending[s][m] = Untouched
       /\ \E t \in Sessions \ {s} : pending[t][m] # Untouched
       /\ committed'[m] # committed[m]
    \/ /\ pending[s][m] # Untouched
       /\ pending'[s][m] # pending[s][m]
       /\ TakenBack(s)
    \/ pc[s] = "loading" /\ job[s].model = m /\ job[s].row # View(s, m)

LEMMA SameStale ==
    ASSUME NEW s, NEW m, ~Stale(s, m), Stale(s, m)', View(s, m)' = View(s, m),
           Cached(s, m)' => Cached(s, m) /\ cache'[s][m].row = cache[s][m].row
    PROVE  FALSE
BY DEF Stale

LEMMA AbortStale ==
    ASSUME TypeOK, SavepointsNest, NEW s \in Sessions, NEW m \in Models,
           ~Stale(s, m), Stale(s, m)', NEW t \in Sessions, Abort(t)
    PROVE  HasCause(s, m)
<1>1. UNCHANGED <<cache, committed>>
  BY DEF Abort, backendCache
<1>2. pending'[s][m] # pending[s][m]
  <2>1. SUFFICES ASSUME pending'[s][m] = pending[s][m] PROVE FALSE
    OBVIOUS
  <2>2. View(s, m)' = View(s, m)
    BY <1>1, <2>1 DEF View
  <2>3. QED
    BY <1>1, <2>2, SameStale DEF Cached
<1>3. CASE Closed(t)
  <2>1. t = s
    BY <1>2, <1>3, ClosedFacts
  <2>2. pending'[s] = NoWrites
    BY <1>3, <2>1, ClosedFacts
  <2>3. pending[s][m] # Untouched
    BY <1>2, <2>2 DEF NoWrites
  <2>4. QED
    BY <1>1, <1>2, <2>2, <2>3 DEF HasCause, TakenBack
<1>4. ASSUME NEW k \in 1 .. Len(saved[t]), BackTo(t, k) PROVE HasCause(s, m)
  <2>1. t = s
    BY <1>2, <1>4, BackToFacts
  <2>2. k \in 1 .. Len(saved[s]) /\ pending'[s] = saved[s][k]
    BY <1>4, <2>1, BackToFacts
  <2>3. pending[s][m] # Untouched
    BY <1>2, <2>2 DEF SavepointsNest
  <2>4. QED
    BY <1>1, <1>2, <2>2, <2>3 DEF HasCause, TakenBack
<1>5. QED
  BY <1>3, <1>4 DEF Abort

\* A write of t, followed by the eviction of what t has cached of that model.
LEMMA WriteNotStale ==
    ASSUME TypeOK, NEW s \in Sessions, NEW m \in Models, ~Stale(s, m), ~poisoned[s],
           NEW t \in Sessions, NEW x \in Models, EvictOwn(t, x), committed' = committed,
           \A u \in Sessions, y \in Models :
               (u # t \/ y # x) => pending'[u][y] = pending[u][y]
    PROVE  ~Stale(s, m)'
<1>1. CASE s = t /\ m = x
  <2>1. Evicted(s, m)
    BY <1>1 DEF EvictOwn
  <2>2. QED
    BY <2>1, EvictedEntries DEF Stale
<1>2. CASE s # t \/ m # x
  <2>1. View(s, m)' = View(s, m)
    BY <1>2 DEF View
  <2>2. cache'[s][m] = cache[s][m]
    BY <1>2, EvictedEntries DEF EvictOwn, backendCache
  <2>3. QED
    BY <2>1, <2>2 DEF Stale, Cached
<1>3. QED
  BY <1>1, <1>2

LEMMA StaleStep ==
    ASSUME TypeOK, SavepointsNest, [Next]_vars, NEW s \in Sessions, NEW m \in Models,
           ~Stale(s, m), Stale(s, m)', ~poisoned[s]
    PROVE  HasCause(s, m)
<1>1. ASSUME UNCHANGED <<cache, committed, pending>> PROVE FALSE
  BY <1>1 DEF Stale, Cached, View
<1>2. ASSUME NEW t \in Sessions, Query(t) PROVE HasCause(s, m)
  <2>1. ASSUME NEW x \in Models, QueryHit(t, x) \/ FetchRow(t, x) PROVE FALSE
    BY <1>1, <2>1 DEF QueryHit, Touch, FetchRow, table, backendCache
  <2>2. ASSUME NEW bytes \in Sizes, LoadSucceeds(t, bytes) PROVE HasCause(s, m)
    <3> DEFINE x == job[t].model
               e == [row |-> job[t].row, bytes |-> bytes, live |-> bytes]
    <3>1. /\ cache' = [cache EXCEPT ![t][x] = e] /\ x \in Models
          /\ pc[t] = "loading" /\ UNCHANGED <<committed, pending>>
      <4>1. job[t] \in Job
        BY <2>2 DEF LoadSucceeds, TypeOK, Querying
      <4>2. QED
        BY <2>2, <4>1 DEF LoadSucceeds, Inserted, table, Job
    <3>2. e.row = job[t].row
      OBVIOUS
    <3>3. View(s, m)' = View(s, m)
      BY <3>1 DEF View
    <3> HIDE DEF e
    <3>4. CASE s = t /\ m = x
      <4>1. cache'[s][m] = e
        BY <3>1, <3>4 DEF TypeOK
      <4>2. job[s].row # View(s, m)
        BY <3>2, <3>3, <3>4, <4>1 DEF Stale
      <4>3. QED
        BY <3>1, <3>4, <4>2 DEF HasCause
    <3>5. CASE s # t \/ m # x
      <4>1. cache'[s][m] = cache[s][m]
        BY <3>1, <3>5 DEF TypeOK
      <4>2. QED
        BY <3>3, <4>1, SameStale DEF Cached
    <3>6. QED
      BY <3>4, <3>5
  <2>3. CASE EvictOne(t)
    <3>1. PICK v \in Models : Evicted(t, v)
      BY <2>3 DEF EvictOne
    <3>2. Cached(s, m)' => cache'[s][m] = cache[s][m]
      BY <3>1, EvictedEntries
    <3>3. View(s, m)' = View(s, m)
      BY <2>3 DEF EvictOne, table, View
    <3>4. QED
      BY <3>2, <3>3, SameStale DEF Cached
  <2>4. CASE Decode(t)
    <3>1. View(s, m)' = View(s, m)
      BY <2>4 DEF Decode, table, View
    <3>2. QED
      BY <2>4, <3>1, DecodeFacts, SameStale DEF Cached
  <2>5. CASE QueryRefused(t) \/ LoadFails(t) \/ QueryFails(t)
    BY <2>5, AbortStale DEF QueryRefused, LoadFails, QueryFails
  <2>6. ASSUME NEW x \in Models, QueryUnknown(t, x) \/ FetchPanics(t, x) PROVE HasCause(s, m)
    BY <2>6, AbortStale DEF QueryUnknown, FetchPanics
  <2>7. CASE EvictDone(t) \/ QueryReturns(t)
    BY <1>1, <2>7 DEF EvictDone, QueryReturns, table, backendCache
  <2>8. QED
    BY <1>2, <2>1, <2>2, <2>3, <2>4, <2>5, <2>6, <2>7 DEF Query
<1>3. ASSUME NEW t \in Sessions, Manage(t) PROVE HasCause(s, m)
  <2>1. CASE UpsertNext(t)
    <3> DEFINE x == Head(todo[t])
    <3>1. /\ x \in Models /\ EvictOwn(t, x) /\ issued + 1 \in Rows
          /\ pending' = [pending EXCEPT ![t][x] = issued + 1]
      BY <2>1, UpsertWrites
    <3>2. committed' = committed
      BY <2>1 DEF UpsertNext
    <3> HIDE DEF x
    <3>3. \A u \in Sessions, y \in Models : (u # t \/ y # x) => pending'[u][y] = pending[u][y]
      BY <3>1, WrittenFacts
    <3>4. QED
      BY <3>1, <3>2, <3>3, WriteNotStale
  <2>2. ASSUME NEW x \in Models, DropModel(t, x) PROVE HasCause(s, m)
    <3>1. /\ EvictOwn(t, x) /\ committed' = committed
          /\ pending' = pending \/ pending' = [pending EXCEPT ![t][x] = NoRow]
      BY <2>2 DEF DropModel
    <3>2. \A u \in Sessions, y \in Models : (u # t \/ y # x) => pending'[u][y] = pending[u][y]
      <4>1. NoRow \in Rows
        BY DEF Rows
      <4>2. QED
        BY <3>1, <4>1, WrittenFacts
    <3>3. QED
      BY <3>1, <3>2, WriteNotStale
  <2>3. ASSUME NEW batch \in Batches, StartRegister(t, batch) PROVE FALSE
    BY <1>1, <2>3 DEF StartRegister, table, backendCache
  <2>4. CASE RegisterReturns(t)
    BY <1>1, <2>4 DEF RegisterReturns, table, backendCache
  <2>5. CASE RegisterFails(t)
    BY <2>5, AbortStale DEF RegisterFails
  <2>6. QED
    BY <1>3, <2>1, <2>2, <2>3, <2>4, <2>5 DEF Manage
<1>4. ASSUME NEW t \in Sessions, Commit(t) PROVE HasCause(s, m)
  <2>1. /\ committed' = [x \in Models |-> View(t, x)] /\ cache' = cache
        /\ Closed(t)
    BY <1>4 DEF Commit, backendCache
  <2>2. View(s, m)' # View(s, m)
    BY <2>1, SameStale DEF Cached
  <2>3. CASE t = s
    <3>1. pending'[s][m] = Untouched /\ committed'[m] = View(s, m)
        BY <2>1, <2>3, ClosedFacts DEF NoWrites
    <3>2. QED
      BY <2>2, <3>1 DEF View
  <2>4. CASE t # s
    <3>1. pending'[s][m] = pending[s][m] /\ committed'[m] = View(t, m)
      BY <2>1, <2>4, ClosedFacts
    <3>2. pending[s][m] = Untouched /\ committed'[m] # committed[m]
      BY <2>2, <3>1 DEF View
    <3>3. pending[t][m] # Untouched
      BY <3>1, <3>2 DEF View
    <3>4. QED
      BY <2>4, <3>2, <3>3 DEF HasCause
  <2>5. QED
    BY <2>3, <2>4
<1>5. ASSUME NEW t \in Sessions, Rollback(t) PROVE HasCause(s, m)
  BY <1>5, AbortStale DEF Rollback
<1>6. ASSUME NEW t \in Sessions, ReloadConfig(t) PROVE FALSE
  BY <1>1, <1>6 DEF ReloadConfig, table, backendCache
<1>7. CASE UNCHANGED vars
  BY <1>1, <1>7 DEF vars, table, backendCache
<1>8. ASSUME NEW t \in Sessions, Savepoint(t) \/ Release(t) PROVE FALSE
  BY <1>1, <1>8 DEF Savepoint, Release, backendCache
<1>9. QED
  BY <1>2, <1>3, <1>4, <1>5, <1>6, <1>7, <1>8 DEF Next

\* A cached backend comes to differ from the row its session sees only by the
\* commit of another session, by a rollback of its own (of the transaction or to a
\* savepoint), or by a row that was replaced while its model was loading.
THEOREM StalenessHasACauseAlways == Spec => StalenessHasACause
<1>1. TypeOK /\ SavepointsNest /\ [Next]_vars =>
        \A s \in Sessions, m \in Models :
          ~Stale(s, m) /\ Stale(s, m)' /\ ~poisoned[s] => HasCause(s, m)
  BY StaleStep
<1>2. QED
  BY <1>1, TypeCorrect, NestCorrect, PTL DEF Spec, StalenessHasACause, HasCause
=============================================================================
