-------------------------- MODULE GridRouterProofs --------------------------
(***************************************************************************)
(* Proofs about GridRouter, for every set of URLs and backends, whatever   *)
(* the discoveries list.                                                   *)
(***************************************************************************)
EXTENDS GridRouter, DataLemmas

LEMMA EmptyTable == <<>> \in Seq(ServerEntry) /\ <<>> \in Seq(Urls)
OBVIOUS

LEMMA TypeInit == Init => TypeOK
<1> SUFFICES ASSUME Init PROVE TypeOK
  OBVIOUS
<1>1. servers \in Seq(ServerEntry) /\ found \in Seq(Urls) /\ todo \in Seq(Urls)
  BY EmptyTable DEF Init
<1>2. next \in 0 .. MaxQueries
  BY GridAssumption DEF Init
<1>3. served \in [Backends -> Nat]
  BY DEF Init, NoneServed
<1>4. QED
  BY <1>1, <1>2, <1>3 DEF Init, TypeOK

LEMMA ConnectFailsType ==
    ASSUME TypeOK, ConnectFails, fg = "connecting"
    PROVE  /\ servers' \in Seq(ServerEntry)
           /\ fg' = "failed" /\ upd' = "exited"
BY EmptyTable DEF ConnectFails

LEMMA SleepOrExitType ==
    ASSUME TypeOK, SleepOrExit
    PROVE  /\ servers' \in Seq(ServerEntry)
           /\ fg' = fg /\ upd' \in {"sleeping", "exited"}
           /\ upd' = "exited" => stop
BY EmptyTable DEF SleepOrExit, PollerExits, TypeOK

LEMMA ChosenType ==
    ASSUME TypeOK, servers # <<>>
    PROVE  Chosen \in Backends /\ Chosen \in TableBackends
<1>1. Len(servers) \in Nat \ {0} /\ next \in Nat
  BY GridAssumption DEF TypeOK
<1>2. (next % Len(servers)) + 1 \in 1 .. Len(servers)
  BY <1>1
<1>3. servers[(next % Len(servers)) + 1] \in ServerEntry
  BY <1>2 DEF TypeOK
<1>4. QED
  BY <1>2, <1>3 DEF Chosen, TableBackends, ServerEntry

LEMMA TypeStep == TypeOK /\ [Next]_vars => TypeOK'
<1> SUFFICES ASSUME TypeOK, [Next]_vars PROVE TypeOK'
  OBVIOUS
<1>1. CASE Discover
  BY <1>1, GridAssumption DEF Discover, TypeOK
<1>2. CASE DiscoverFails
  <2>1. CASE fg = "connecting" /\ ConnectFails
    BY <1>2, <2>1, ConnectFailsType DEF DiscoverFails, TypeOK, refresh
  <2>2. CASE fg # "connecting" /\ SleepOrExit
    BY <1>2, <2>2, SleepOrExitType DEF DiscoverFails, TypeOK, refresh
  <2>3. QED
    BY <1>2, <2>1, <2>2 DEF DiscoverFails
<1>3. CASE LockTable
  <2>1. \A i \in 1 .. Len(servers) : servers[i] \in ServerEntry
    BY DEF TypeOK
  <2>2. TableUrls \in SUBSET Urls
    BY <2>1 DEF TableUrls, ServerEntry
  <2>3. QED
    BY <1>3, <2>2 DEF LockTable, TypeOK
<1>4. CASE RemoveStale
  <2>1. PICK i \in 1 .. Len(servers) : servers' = RemoveAt(servers, i)
    BY <1>4 DEF RemoveStale
  <2>2. servers' \in Seq(ServerEntry)
    BY <2>1, RemoveAtElements DEF TypeOK
  <2>3. QED
    BY <1>4, <2>2 DEF RemoveStale, TypeOK, NoneServed, refresh
<1>5. CASE StaleRemoved
  BY <1>5 DEF StaleRemoved, TypeOK, refresh
<1>6. ASSUME NEW b \in Backends, AddServer(b) PROVE TypeOK'
  <2>1. Head(todo) \in Urls /\ Tail(todo) \in Seq(Urls)
    BY <1>6, TailType DEF AddServer, TypeOK
  <2>2. servers' \in Seq(ServerEntry)
    BY <1>6, <2>1 DEF AddServer, TypeOK, ServerEntry
  <2>3. QED
    BY <1>6, <2>1, <2>2 DEF AddServer, TypeOK, NoneServed
<1>7. CASE SkipServer
  BY <1>7, TailType DEF SkipServer, TypeOK
<1>8. CASE RefreshDone
  <2>1. CASE fg # "connecting" /\ SleepOrExit
    BY <1>8, <2>1, EmptyTable, SleepOrExitType DEF RefreshDone, TypeOK
  <2>2. CASE fg = "connecting" /\ ConnectFails
    BY <1>8, <2>2, EmptyTable, ConnectFailsType DEF RefreshDone, TypeOK
  <2>3. CASE fg = "connecting" /\ fg' = "idle" /\ upd' = "sleeping" /\ UNCHANGED servers
    BY <1>8, <2>3, EmptyTable DEF RefreshDone, TypeOK
  <2>4. QED
    BY <1>8, <2>1, <2>2, <2>3 DEF RefreshDone
<1>9. CASE WakeUp
  BY <1>9, EmptyTable DEF WakeUp, PollerExits, TypeOK, refresh
<1>10. CASE WantServer
  BY <1>10 DEF WantServer, TypeOK, refresh
<1>11. CASE NoServer
  BY <1>11 DEF NoServer, TypeOK, refresh
<1>12. CASE UseServer
  <2>1. Chosen \in Backends
    BY <1>12, ChosenType DEF UseServer
  <2>2. next' \in 0 .. MaxQueries
    BY <1>12, GridAssumption DEF UseServer, TypeOK
  <2>3. served' \in [Backends -> Nat]
    BY <1>12, <2>1 DEF UseServer, TypeOK
  <2>4. using' \in Backends /\ using' # NoBackend
    BY <1>12, <2>1, GridAssumption DEF UseServer
  <2>5. QED
    BY <1>12, <2>2, <2>3, <2>4 DEF UseServer, TypeOK, refresh
<1>13. CASE QueryEnds
  BY <1>13 DEF QueryEnds, TypeOK, refresh
<1>14. CASE DropGrid
  BY <1>14, EmptyTable DEF DropGrid, TypeOK, refresh
<1>15. CASE UNCHANGED vars
  BY <1>15 DEF vars, refresh, TypeOK
<1>16. QED
  BY <1>1, <1>2, <1>3, <1>4, <1>5, <1>6, <1>7, <1>8, <1>9, <1>10, <1>11, <1>12,
     <1>13, <1>14, <1>15 DEF Next, Refresh, TakeLock

\* The table, the counter and the refresh have their types: for the code, that
\* the poller's thread ends only when it is told to or was never started.
THEOREM TypeCorrect == Spec => []TypeOK
<1>1. Init => TypeOK
  BY TypeInit
<1>2. TypeOK /\ [Next]_vars => TypeOK'
  BY TypeStep
<1>3. QED
  BY <1>1, <1>2, PTL DEF Spec

----------------------------------------------------------------------------
(* The backend in use *)

\* While the poller holds the write lock, no query reads the table.
LockExcludes == WriteLocked => fg # "using"

LEMMA InUseStep ==
    TypeOK /\ LockExcludes /\ UsedBackendIsKept /\ [Next]_vars
        => LockExcludes' /\ UsedBackendIsKept'
<1> SUFFICES ASSUME TypeOK, LockExcludes, UsedBackendIsKept, [Next]_vars
             PROVE  LockExcludes' /\ UsedBackendIsKept'
  OBVIOUS
<1> USE DEF LockExcludes, UsedBackendIsKept, WriteLocked
<1>1. CASE Discover
  BY <1>1 DEF Discover, TableBackends
<1>2. CASE DiscoverFails
  <2>1. CASE fg = "connecting" /\ ConnectFails
    BY <1>2, <2>1 DEF ConnectFails
  <2>2. CASE fg # "connecting" /\ SleepOrExit
    BY <1>2, <2>2 DEF DiscoverFails, SleepOrExit, PollerExits, TableBackends
  <2>3. QED
    BY <1>2, <2>1, <2>2 DEF DiscoverFails
<1>3. CASE LockTable
  BY <1>3 DEF LockTable
<1>4. CASE RemoveStale
  BY <1>4 DEF RemoveStale
<1>5. CASE StaleRemoved
  BY <1>5 DEF StaleRemoved
<1>6. ASSUME NEW b \in Backends, AddServer(b) PROVE LockExcludes' /\ UsedBackendIsKept'
  BY <1>6 DEF AddServer
<1>7. CASE SkipServer
  BY <1>7 DEF SkipServer
<1>8. CASE RefreshDone
  <2>1. fg' # "using"
    BY <1>8 DEF RefreshDone, ConnectFails, SleepOrExit, PollerExits
  <2>2. QED
    BY <2>1
<1>9. CASE WakeUp
  BY <1>9 DEF WakeUp, PollerExits, TableBackends
<1>10. CASE WantServer \/ NoServer \/ QueryEnds \/ DropGrid
  BY <1>10 DEF WantServer, NoServer, QueryEnds, DropGrid
<1>11. CASE UseServer
  <2>1. Chosen \in TableBackends
    BY <1>11, ChosenType DEF UseServer
  <2>2. using' \in TableBackends' /\ upd' \notin {"removing", "adding"}
    BY <1>11, <2>1 DEF UseServer, TableBackends
  <2>3. QED
    BY <2>2
<1>12. CASE UNCHANGED vars
  BY <1>12 DEF vars, TableBackends
<1>13. QED
  BY <1>1, <1>2, <1>3, <1>4, <1>5, <1>6, <1>7, <1>8, <1>9, <1>10, <1>11, <1>12
  DEF Next, Refresh, TakeLock

\* No refresh takes the backend away that a query is using.
THEOREM UsedBackendIsKeptAlways == Spec => []UsedBackendIsKept
<1>1. Init => TypeOK /\ LockExcludes /\ UsedBackendIsKept
  BY TypeInit DEF Init, LockExcludes, UsedBackendIsKept
<1>2. TypeOK /\ LockExcludes /\ UsedBackendIsKept /\ [Next]_vars
        => TypeOK' /\ LockExcludes' /\ UsedBackendIsKept'
  BY TypeStep, InUseStep
<1>3. QED
  BY <1>1, <1>2, PTL DEF Spec

----------------------------------------------------------------------------
(* The URLs of the table *)

IsIn(url, l) == \E i \in 1 .. Len(l) : l[i] = url

Distinct(l) == \A i, j \in 1 .. Len(l) : l[i] = l[j] => i = j

\* What a refresh has established while it holds the lock.
RefreshInv ==
    /\ upd = "removing" => todo = found /\ TableUrls \subseteq existing
    /\ upd = "adding" =>
         /\ \A i \in 1 .. Len(servers) : IsIn(servers[i].url, found)
         /\ \A i \in 1 .. Len(todo) : IsIn(todo[i], found)

\* It connects only what is neither in the table nor twice in the list.
AddInv ==
    /\ upd \in {"locking", "removing"} => Distinct(found)
    /\ upd = "adding" =>
         /\ Distinct(todo)
         /\ \A i \in 1 .. Len(servers), j \in 1 .. Len(todo) :
              servers[i].url = todo[j] => todo[j] \in existing

LEMMA RemovedEntries ==
    ASSUME TypeOK, NEW p \in 1 .. Len(servers), servers' = RemoveAt(servers, p)
    PROVE  /\ servers' \in Seq(ServerEntry)
           /\ Len(servers') = Len(servers) - 1 /\ Len(servers) \in Nat
           /\ \A i \in 1 .. Len(servers) - 1 :
                servers'[i] = IF i < p THEN servers[i] ELSE servers[i + 1]
           /\ \A i \in 1 .. Len(servers') : \E k \in 1 .. Len(servers) :
                /\ servers'[i] = servers[k]
                /\ k = IF i < p THEN i ELSE i + 1
<1>1. /\ servers' \in Seq(ServerEntry)
      /\ Len(servers') = Len(servers) - 1
      /\ \A i \in 1 .. Len(servers) - 1 :
           servers'[i] = IF i < p THEN servers[i] ELSE servers[i + 1]
  BY RemoveAtElements DEF TypeOK
<1>2. Len(servers) \in Nat
  BY DEF TypeOK
<1>3. ASSUME NEW i \in 1 .. Len(servers')
      PROVE  \E k \in 1 .. Len(servers) :
                /\ servers'[i] = servers[k]
                /\ k = IF i < p THEN i ELSE i + 1
  <2> DEFINE k == IF i < p THEN i ELSE i + 1
  <2>1. k \in 1 .. Len(servers) /\ servers'[i] = servers[k]
    BY <1>1, <1>2
  <2>2. QED
    BY <2>1
<1>4. QED
  BY <1>1, <1>2, <1>3

LEMMA RefreshStep == TypeOK /\ RefreshInv /\ [Next]_vars => RefreshInv'
<1> SUFFICES ASSUME TypeOK, RefreshInv, [Next]_vars PROVE RefreshInv'
  OBVIOUS
<1>1. CASE upd' \notin {"removing", "adding"}
  BY <1>1 DEF RefreshInv
<1>2. CASE LockTable
  BY <1>2 DEF LockTable, RefreshInv, TableUrls
<1>3. CASE RemoveStale
  <2>1. PICK p \in 1 .. Len(servers) : servers' = RemoveAt(servers, p)
    BY <1>3 DEF RemoveStale
  <2>2. TableUrls' \subseteq TableUrls
    BY <2>1, RemovedEntries DEF TableUrls
  <2>3. QED
    BY <1>3, <2>2 DEF RemoveStale, RefreshInv, refresh
<1>4. CASE StaleRemoved
  <2>1. \A i \in 1 .. Len(servers) : IsIn(servers[i].url, found)
    BY <1>4 DEF StaleRemoved, Stale, Listed, IsIn
  <2>2. \A i \in 1 .. Len(todo) : IsIn(todo[i], found)
    BY <1>4 DEF StaleRemoved, RefreshInv, IsIn
  <2>3. QED
    BY <1>4, <2>1, <2>2 DEF StaleRemoved, RefreshInv, refresh, IsIn
<1>5. ASSUME NEW b \in Backends, AddServer(b) PROVE RefreshInv'
  <2>1. Head(todo) = todo[1] /\ 1 \in 1 .. Len(todo) /\ Len(Tail(todo)) = Len(todo) - 1
        /\ \A i \in 1 .. Len(todo) - 1 : Tail(todo)[i] = todo[i + 1]
    BY <1>5, TailType DEF AddServer, TypeOK
  <2>2. Head(todo) \in Urls /\ [url |-> Head(todo), backend |-> b] \in ServerEntry
    BY <2>1 DEF TypeOK, ServerEntry
  <2>3. /\ Len(servers') = Len(servers) + 1
        /\ \A i \in 1 .. Len(servers) : servers'[i] = servers[i]
        /\ servers'[Len(servers) + 1] = [url |-> Head(todo), backend |-> b]
    BY <1>5, <2>2, AppendType DEF AddServer, TypeOK
  <2>4. Len(servers) \in Nat /\ Len(todo) \in Nat
    BY DEF TypeOK
  <2>5. upd = "adding" /\ upd' = "adding" /\ found' = found /\ todo' = Tail(todo)
    BY <1>5 DEF AddServer
  <2>6. ASSUME NEW i \in 1 .. Len(servers') PROVE IsIn(servers'[i].url, found)
    <3>1. CASE i \in 1 .. Len(servers)
      BY <2>3, <2>5, <3>1 DEF RefreshInv
    <3>2. CASE i = Len(servers) + 1
      BY <2>1, <2>3, <2>5, <3>2 DEF RefreshInv
    <3>3. QED
      BY <2>3, <2>4, <3>1, <3>2
  <2>7. ASSUME NEW i \in 1 .. Len(todo') PROVE IsIn(todo'[i], found)
    <3>1. i \in 1 .. Len(todo) - 1 /\ i + 1 \in 1 .. Len(todo)
      BY <2>1, <2>4, <2>5
    <3>2. QED
      BY <2>1, <2>5, <3>1 DEF RefreshInv
  <2>8. QED
    BY <2>5, <2>6, <2>7 DEF RefreshInv, IsIn
<1>6. CASE SkipServer
  <2>1. Len(Tail(todo)) = Len(todo) - 1 /\ Len(todo) \in Nat
        /\ \A i \in 1 .. Len(todo) - 1 : Tail(todo)[i] = todo[i + 1]
    BY <1>6, TailType DEF SkipServer, TypeOK
  <2>2. upd = "adding" /\ upd' = "adding" /\ found' = found /\ todo' = Tail(todo)
        /\ servers' = servers
    BY <1>6 DEF SkipServer
  <2>3. ASSUME NEW i \in 1 .. Len(todo') PROVE IsIn(todo'[i], found)
    <3>1. i \in 1 .. Len(todo) - 1 /\ i + 1 \in 1 .. Len(todo)
      BY <2>1, <2>2
    <3>2. QED
      BY <2>1, <2>2, <3>1 DEF RefreshInv
  <2>4. QED
    BY <2>2, <2>3 DEF RefreshInv, IsIn
<1>7. CASE Discover \/ DiscoverFails \/ RefreshDone \/ WakeUp
  <2>1. upd' \notin {"removing", "adding"}
    BY <1>7 DEF Discover, DiscoverFails, RefreshDone, WakeUp, ConnectFails, SleepOrExit, PollerExits
  <2>2. QED
    BY <1>1, <2>1
<1>8. CASE WantServer \/ NoServer \/ UseServer \/ QueryEnds
  BY <1>8 DEF WantServer, NoServer, UseServer, QueryEnds, RefreshInv, refresh, TableUrls, IsIn
<1>9. CASE DropGrid
  <2>1. CASE upd = "exited"
    BY <1>1, <1>9, <2>1 DEF DropGrid
  <2>2. CASE upd # "exited"
    BY <1>9, <2>2 DEF DropGrid, RefreshInv, refresh, TableUrls, IsIn
  <2>3. QED
    BY <2>1, <2>2
<1>10. CASE UNCHANGED vars
  BY <1>10 DEF vars, refresh, RefreshInv, TableUrls, IsIn
<1>11. QED
  BY <1>2, <1>3, <1>4, <1>5, <1>6, <1>7, <1>8, <1>9, <1>10 DEF Next, Refresh, TakeLock

\* What a refresh serves while it connects is what its discovery has listed.
THEOREM OnlyListedServedAlways == Spec => []OnlyListedServed
<1>1. Init => TypeOK /\ RefreshInv
  BY TypeInit DEF Init, RefreshInv
<1>2. TypeOK /\ RefreshInv /\ [Next]_vars => TypeOK' /\ RefreshInv'
  BY TypeStep, RefreshStep
<1>3. RefreshInv => OnlyListedServed
  BY DEF RefreshInv, OnlyListedServed, TableUrls, IsIn
<1>4. QED
  BY <1>1, <1>2, <1>3, PTL DEF Spec

----------------------------------------------------------------------------
(* One backend per URL *)

\* The discoveries name each URL once.
DistinctDiscoveries == \A l \in Lists : Distinct(l)

LEMMA DistinctTail ==
    ASSUME NEW l \in Seq(Urls), l # <<>>, Distinct(l)
    PROVE  /\ Distinct(Tail(l))
           /\ \A j \in 1 .. Len(Tail(l)) : Tail(l)[j] # l[1] /\ IsIn(Tail(l)[j], l)
<1>1. /\ Len(Tail(l)) = Len(l) - 1 /\ Len(l) > 0 /\ Len(l) \in Nat
      /\ \A i \in 1 .. Len(l) - 1 : Tail(l)[i] = l[i + 1]
  BY TailType
<1>2. ASSUME NEW i \in 1 .. Len(Tail(l)) PROVE i + 1 \in 1 .. Len(l) /\ Tail(l)[i] = l[i + 1]
  BY <1>1
<1>3. ASSUME NEW i \in 1 .. Len(Tail(l)), NEW j \in 1 .. Len(Tail(l)), Tail(l)[i] = Tail(l)[j]
      PROVE  i = j
  BY <1>2, <1>3 DEF Distinct
<1>4. ASSUME NEW j \in 1 .. Len(Tail(l)) PROVE Tail(l)[j] # l[1] /\ IsIn(Tail(l)[j], l)
  <2>1. l[j + 1] # l[1]
    BY <1>1, <1>2 DEF Distinct
  <2>2. QED
    BY <1>2, <2>1 DEF IsIn
<1>5. QED
  BY <1>3, <1>4 DEF Distinct

\* A server is connected only if no entry of the table has its URL.
LEMMA AddedUrlIsNew ==
    ASSUME TypeOK, AddInv, NEW b \in Backends, AddServer(b)
    PROVE  \A i \in 1 .. Len(servers) : servers[i].url # Head(todo)
<1>1. Head(todo) = todo[1] /\ 1 \in 1 .. Len(todo)
  BY TailType DEF AddServer, TypeOK
<1>2. QED
  BY <1>1 DEF AddServer, AddInv

LEMMA AddStep ==
    ASSUME DistinctDiscoveries, TypeOK, RefreshInv, AddInv, [Next]_vars
    PROVE  AddInv'
<1>1. CASE upd' \notin {"locking", "removing", "adding"}
  BY <1>1 DEF AddInv
<1>2. CASE Discover
  BY <1>2 DEF Discover, DistinctDiscoveries, AddInv, Distinct
<1>3. CASE LockTable \/ RemoveStale
  <2>1. upd \in {"locking", "removing"} /\ upd' = "removing" /\ found' = found
    BY <1>3 DEF LockTable, RemoveStale, refresh
  <2>2. QED
    BY <2>1 DEF AddInv, Distinct
<1>4. CASE StaleRemoved
  <2>1. /\ upd = "removing" /\ upd' = "adding"
        /\ servers' = servers /\ existing' = existing /\ todo' = todo
    BY <1>4 DEF StaleRemoved, refresh
  <2>2. todo = found /\ TableUrls \subseteq existing /\ Distinct(found)
    BY <2>1 DEF RefreshInv, AddInv
  <2>3. QED
    BY <2>1, <2>2 DEF AddInv, TableUrls, Distinct
<1>5. ASSUME NEW b \in Backends, AddServer(b) PROVE AddInv'
  <2>1. /\ upd = "adding" /\ upd' = "adding" /\ existing' = existing
        /\ todo # <<>> /\ todo' = Tail(todo) /\ Head(todo) = todo[1]
    BY <1>5, TailType DEF AddServer, TypeOK
  <2>2. Distinct(todo) /\ todo \in Seq(Urls)
    BY <2>1 DEF AddInv, TypeOK
  <2>3. /\ Distinct(todo')
        /\ \A j \in 1 .. Len(todo') : todo'[j] # todo[1] /\ IsIn(todo'[j], todo)
    BY <2>1, <2>2, DistinctTail
  <2>4. [url |-> Head(todo), backend |-> b] \in ServerEntry
    BY <2>1, <2>2, TailType DEF ServerEntry
  <2>5. /\ Len(servers') = Len(servers) + 1 /\ Len(servers) \in Nat
        /\ \A i \in 1 .. Len(servers) : servers'[i] = servers[i]
        /\ servers'[Len(servers) + 1] = [url |-> Head(todo), backend |-> b]
    BY <1>5, <2>4, AppendType DEF AddServer, TypeOK
  <2>6. ASSUME NEW i \in 1 .. Len(servers'), NEW j \in 1 .. Len(todo'),
               servers'[i].url = todo'[j]
        PROVE  todo'[j] \in existing
    <3>1. CASE i \in 1 .. Len(servers)
      BY <2>1, <2>3, <2>5, <2>6, <3>1 DEF AddInv, IsIn
    <3>2. CASE i = Len(servers) + 1
      BY <2>1, <2>3, <2>5, <2>6, <3>2
    <3>3. QED
      BY <2>5, <3>1, <3>2
  <2>7. QED
    BY <2>1, <2>3, <2>6 DEF AddInv, Distinct
<1>6. CASE SkipServer
  <2>1. /\ upd = "adding" /\ upd' = "adding" /\ existing' = existing /\ servers' = servers
        /\ todo # <<>> /\ todo' = Tail(todo)
    BY <1>6 DEF SkipServer
  <2>2. /\ Distinct(todo')
        /\ \A j \in 1 .. Len(todo') : IsIn(todo'[j], todo)
    <3>1. todo \in Seq(Urls) /\ todo # <<>> /\ Distinct(todo)
      BY <2>1 DEF AddInv, TypeOK
    <3>2. /\ Distinct(Tail(todo))
          /\ \A j \in 1 .. Len(Tail(todo)) : IsIn(Tail(todo)[j], todo)
      BY <3>1, DistinctTail, Zenon
    <3>3. QED
      BY <2>1, <3>2, Zenon
  <2>3. ASSUME NEW i \in 1 .. Len(servers), NEW j \in 1 .. Len(todo'),
               servers[i].url = todo'[j]
        PROVE  todo'[j] \in existing
    <3>1. PICK k \in 1 .. Len(todo) : todo[k] = todo'[j]
      BY <2>2 DEF IsIn
    <3>2. QED
      BY <2>1, <2>3, <3>1 DEF AddInv
  <2>4. QED
    BY <2>1, <2>2, <2>3 DEF AddInv
<1>7. CASE DiscoverFails \/ RefreshDone \/ WakeUp
  <2>1. upd' \in {"exited", "sleeping", "discovering"}
    BY <1>7 DEF DiscoverFails, RefreshDone, WakeUp, ConnectFails, SleepOrExit, PollerExits
  <2>2. QED
    BY <1>1, <2>1
<1>8. CASE WantServer \/ NoServer \/ UseServer \/ QueryEnds
  BY <1>8 DEF WantServer, NoServer, UseServer, QueryEnds, AddInv, refresh, Distinct
<1>9. CASE DropGrid
  <2>1. CASE upd = "exited"
    BY <1>1, <1>9, <2>1 DEF DropGrid
  <2>2. CASE upd # "exited"
    BY <1>9, <2>2 DEF DropGrid, AddInv, refresh, Distinct
  <2>3. QED
    BY <2>1, <2>2
<1>10. CASE UNCHANGED vars
  BY <1>10 DEF vars, refresh, AddInv, Distinct
<1>11. QED
  BY <1>2, <1>3, <1>4, <1>5, <1>6, <1>7, <1>8, <1>9, <1>10 DEF Next, Refresh, TakeLock

LEMMA OneBackendStep ==
    ASSUME TypeOK, AddInv, OneBackendPerUrl, [Next]_vars
    PROVE  OneBackendPerUrl'
<1>1. CASE servers' = servers \/ servers' = <<>>
  BY <1>1 DEF OneBackendPerUrl
<1>2. CASE RemoveStale
  <2>1. PICK p \in 1 .. Len(servers) : servers' = RemoveAt(servers, p)
    BY <1>2 DEF RemoveStale
  <2>2. Len(servers') \in Nat
    BY <2>1, RemovedEntries
  <2>3. ASSUME NEW i \in 1 .. Len(servers'), NEW j \in 1 .. Len(servers'),
               servers'[i].url = servers'[j].url
        PROVE  i = j
    <3>1. PICK k \in 1 .. Len(servers) :
             servers'[i] = servers[k] /\ k = IF i < p THEN i ELSE i + 1
      BY <2>1, RemovedEntries
    <3>2. PICK m \in 1 .. Len(servers) :
             servers'[j] = servers[m] /\ m = IF j < p THEN j ELSE j + 1
      BY <2>1, RemovedEntries
    <3>3. k = m
      BY <2>3, <3>1, <3>2 DEF OneBackendPerUrl
    <3>4. QED
      BY <3>1, <3>2, <3>3
  <2>4. QED
    BY <2>3 DEF OneBackendPerUrl
<1>3. ASSUME NEW b \in Backends, AddServer(b) PROVE OneBackendPerUrl'
  <2>1. Head(todo) \in Urls /\ [url |-> Head(todo), backend |-> b] \in ServerEntry
    BY <1>3, TailType DEF AddServer, TypeOK, ServerEntry
  <2>2. /\ Len(servers') = Len(servers) + 1 /\ Len(servers) \in Nat
        /\ \A i \in 1 .. Len(servers) : servers'[i] = servers[i]
        /\ servers'[Len(servers) + 1] = [url |-> Head(todo), backend |-> b]
    BY <1>3, <2>1, AppendType DEF AddServer, TypeOK
  <2>3. \A i \in 1 .. Len(servers) : servers[i].url # Head(todo)
    BY <1>3, AddedUrlIsNew
  <2>4. ASSUME NEW i \in 1 .. Len(servers'), NEW j \in 1 .. Len(servers'),
               servers'[i].url = servers'[j].url
        PROVE  i = j
    <3>1. i \in 1 .. Len(servers) \/ i = Len(servers) + 1
      BY <2>2
    <3>2. j \in 1 .. Len(servers) \/ j = Len(servers) + 1
      BY <2>2
    <3>3. QED
      BY <2>2, <2>3, <2>4, <3>1, <3>2 DEF OneBackendPerUrl
  <2>5. QED
    BY <2>4 DEF OneBackendPerUrl
<1>4. CASE Discover \/ DiscoverFails \/ LockTable \/ StaleRemoved \/ SkipServer \/ RefreshDone
           \/ WakeUp \/ WantServer \/ NoServer \/ UseServer \/ QueryEnds \/ DropGrid
           \/ UNCHANGED vars
  <2>1. servers' = servers \/ servers' = <<>>
    BY <1>4 DEF Discover, DiscoverFails, LockTable, StaleRemoved, SkipServer, RefreshDone, WakeUp,
       WantServer, NoServer, UseServer, QueryEnds, DropGrid, vars, ConnectFails, SleepOrExit,
       PollerExits
  <2>2. QED
    BY <1>1, <2>1
<1>5. QED
  BY <1>2, <1>3, <1>4 DEF Next, Refresh, TakeLock

\* With discoveries that name each URL once, no server ever has two backends.
THEOREM OneBackendPerUrlAlways ==
    DistinctDiscoveries => (Spec => []OneBackendPerUrl)
<1> SUFFICES ASSUME DistinctDiscoveries PROVE Spec => []OneBackendPerUrl
  OBVIOUS
<1>1. Init => TypeOK /\ RefreshInv /\ AddInv /\ OneBackendPerUrl
  BY TypeInit DEF Init, RefreshInv, AddInv, OneBackendPerUrl
<1>2. TypeOK /\ RefreshInv /\ AddInv /\ OneBackendPerUrl /\ [Next]_vars
        => TypeOK' /\ RefreshInv' /\ AddInv' /\ OneBackendPerUrl'
  BY TypeStep, RefreshStep, AddStep, OneBackendStep
<1>3. QED
  BY <1>1, <1>2, PTL DEF Spec

\* A refresh keeps the connection to every server that is still listed.
THEOREM ConnectionsKeptAlways == Spec => ConnectionsKept
<1> DEFINE Kept ==
      \A i \in 1 .. Len(servers) :
         (\A j \in 1 .. Len(servers') : servers'[j] # servers[i]) =>
             \/ fg' \in {"failed", "dropped"}
             \/ upd = "removing" /\ ~Listed(servers[i])
<1>1. TypeOK /\ [Next]_vars => Kept
  <2> SUFFICES ASSUME TypeOK, [Next]_vars PROVE Kept
    OBVIOUS
  <2>1. CASE servers' = servers \/ fg' \in {"failed", "dropped"}
    BY <2>1
  <2>2. CASE RemoveStale
    <3>1. PICK p \in 1 .. Len(servers) : Stale(servers[p]) /\ servers' = RemoveAt(servers, p)
      BY <2>2 DEF RemoveStale
    <3>2. /\ Len(servers') = Len(servers) - 1 /\ Len(servers) \in Nat
          /\ \A k \in 1 .. Len(servers) - 1 :
               servers'[k] = IF k < p THEN servers[k] ELSE servers[k + 1]
      BY <3>1, RemovedEntries
    <3>3. ASSUME NEW i \in 1 .. Len(servers), i # p
          PROVE  \E j \in 1 .. Len(servers') : servers'[j] = servers[i]
      <4>1. CASE i < p
        <5>1. i \in 1 .. Len(servers) - 1
          BY <3>2, <4>1
        <5>2. QED
          BY <3>2, <4>1, <5>1
      <4>2. CASE i > p
        <5>1. i - 1 \in 1 .. Len(servers) - 1 /\ ~(i - 1 < p) /\ (i - 1) + 1 = i
          BY <3>2, <4>2
        <5>2. QED
          BY <3>2, <5>1
      <4>3. QED
        BY <3>3, <4>1, <4>2
    <3>4. QED
      BY <2>2, <3>1, <3>3 DEF RemoveStale, Stale
  <2>3. ASSUME NEW b \in Backends, AddServer(b) PROVE Kept
    <3>1. [url |-> Head(todo), backend |-> b] \in ServerEntry
      BY <2>3, TailType DEF AddServer, TypeOK, ServerEntry
    <3>2. /\ Len(servers') = Len(servers) + 1 /\ Len(servers) \in Nat
          /\ \A i \in 1 .. Len(servers) : servers'[i] = servers[i]
      BY <2>3, <3>1, AppendType DEF AddServer, TypeOK
    <3>3. \A i \in 1 .. Len(servers) : i \in 1 .. Len(servers')
      BY <3>2
    <3>4. QED
      BY <3>2, <3>3
  <2>4. CASE Discover \/ LockTable \/ StaleRemoved \/ SkipServer \/ WantServer \/ NoServer
             \/ UseServer \/ QueryEnds \/ DropGrid \/ UNCHANGED vars
    <3>1. servers' = servers \/ fg' \in {"failed", "dropped"}
      BY <2>4 DEF Discover, LockTable, StaleRemoved, SkipServer, WantServer, NoServer, UseServer,
         QueryEnds, DropGrid, vars
    <3>2. QED
      BY <2>1, <3>1
  <2>5. CASE DiscoverFails \/ RefreshDone \/ WakeUp
    <3>1. servers' = servers \/ fg' \in {"failed", "dropped"}
      BY <2>5 DEF DiscoverFails, RefreshDone, WakeUp, ConnectFails, SleepOrExit, PollerExits
    <3>2. QED
      BY <2>1, <3>1
  <2>6. QED
    BY <2>2, <2>3, <2>4, <2>5 DEF Next, Refresh, TakeLock
<1>2. Init => TypeOK
  BY TypeInit
<1>3. TypeOK /\ [Next]_vars => TypeOK'
  BY TypeStep
<1>4. QED
  BY <1>1, <1>2, <1>3, PTL DEF Spec, ConnectionsKept

----------------------------------------------------------------------------
(* Round robin *)

\* How many turns ago the i-th server of the table had its last one, if the table
\* has been as it is for so long; 0 is the last turn.
Behind(i) ==
    LET r == next % Len(servers) IN IF i - 1 < r THEN r - i ELSE r - i + Len(servers)

\* The last d servers got q + 1 queries, the others q.
Turns(q, d) ==
    \A i \in 1 .. Len(servers) :
        served[servers[i].backend] = IF Behind(i) < d THEN q + 1 ELSE q

OwnBackends ==
    \A i, j \in 1 .. Len(servers) : servers[i].backend = servers[j].backend => i = j

EvenInv ==
    /\ OwnBackends
    /\ servers # <<>> => \E q \in Nat, d \in 0 .. Len(servers) - 1 : Turns(q, d)

\* The server that comes next is the one whose turn was the longest ago; by its
\* turn all others fall back by one.
LEMMA TurnPasses ==
    ASSUME TypeOK, EvenInv, UseServer
    PROVE  EvenInv'
<1> DEFINE L == Len(servers)
           r == next % L
           rr == (next + 1) % L
<1>1. L \in Nat \ {0} /\ next \in Nat /\ servers' = servers /\ next' = next + 1
  BY GridAssumption DEF TypeOK, UseServer
<1>2. r \in 0 .. L - 1 /\ rr = IF r = L - 1 THEN 0 ELSE r + 1
  BY <1>1, NextRemainder
<1>3. /\ \A i \in 1 .. L : Behind(i) = IF i - 1 < r THEN r - i ELSE r - i + L
      /\ \A i \in 1 .. L : Behind(i)' = IF i - 1 < rr THEN rr - i ELSE rr - i + L
  BY <1>1 DEF Behind
<1>4. ASSUME NEW i \in 1 .. L
      PROVE  servers[i].backend \in Backends
  <2>1. servers[i] \in ServerEntry
    BY DEF TypeOK
  <2>2. QED
    BY <2>1 DEF ServerEntry
<1>5. /\ Chosen = servers[r + 1].backend /\ r + 1 \in 1 .. L
      /\ served' = [served EXCEPT ![Chosen] = @ + 1]
  BY <1>1, <1>2 DEF Chosen, UseServer
<1>6. PICK q \in Nat, d \in 0 .. L - 1 : Turns(q, d)
  BY DEF EvenInv, UseServer
<1>7. ASSUME NEW i \in 1 .. L
      PROVE  served'[servers[i].backend] =
                IF i = r + 1 THEN served[servers[i].backend] + 1 ELSE served[servers[i].backend]
  <2>1. servers[i].backend = Chosen <=> i = r + 1
    BY <1>5 DEF EvenInv, OwnBackends
  <2>2. served \in [Backends -> Nat] /\ servers[i].backend \in Backends
    BY <1>4 DEF TypeOK
  <2>3. QED
    BY <1>5, <2>1, <2>2
<1> HIDE DEF L, r, rr
<1>8. ASSUME NEW i \in 1 .. L
      PROVE  /\ Behind(i) \in 0 .. L - 1
             /\ Behind(i)' = IF i = r + 1 THEN 0 ELSE Behind(i) + 1
             /\ i = r + 1 <=> Behind(i) = L - 1
  <2>1. CASE r = L - 1
    BY <1>1, <1>2, <1>3, <2>1
  <2>2. CASE r # L - 1
    BY <1>1, <1>2, <1>3, <2>2
  <2>3. QED
    BY <2>1, <2>2
<1>9. ASSUME NEW i \in 1 .. L
      PROVE  served'[servers[i].backend] =
                IF d + 1 = L THEN q + 1 ELSE IF Behind(i)' < d + 1 THEN q + 1 ELSE q
  <2>1. served[servers[i].backend] = IF Behind(i) < d THEN q + 1 ELSE q
    BY <1>6 DEF Turns, L
  <2>2. CASE i = r + 1
    <3>1. served[servers[i].backend] = q
      BY <1>1, <1>8, <2>1, <2>2
    <3>2. served'[servers[i].backend] = q + 1 /\ Behind(i)' = 0
      BY <1>7, <1>8, <2>2, <3>1
    <3>3. QED
      BY <3>2
  <2>3. CASE i # r + 1
    <3>1. served'[servers[i].backend] = IF Behind(i) < d THEN q + 1 ELSE q
      BY <1>7, <2>1, <2>3
    <3>2. Behind(i) \in 0 .. L - 2 /\ Behind(i)' = Behind(i) + 1
      BY <1>1, <1>8, <2>3
    <3>3. QED
      BY <3>1, <3>2
  <2>4. QED
    BY <2>2, <2>3
<1>10. \E p \in Nat, e \in 0 .. Len(servers') - 1 : Turns(p, e)'
  <2>1. Len(servers') = L
    BY <1>1 DEF L
  <2>2. CASE d + 1 = L
    <3>1. Turns(q + 1, 0)'
      <4>1. ASSUME NEW i \in 1 .. L
            PROVE  served'[servers'[i].backend] = IF Behind(i)' < 0 THEN q + 1 + 1 ELSE q + 1
        <5>1. ~(Behind(i)' < 0)
          BY <1>8
        <5>2. QED
          BY <1>1, <1>9, <2>2, <5>1
      <4>2. QED
        BY <2>1, <4>1 DEF Turns
    <3>2. q + 1 \in Nat /\ 0 \in 0 .. L - 1
      BY <1>1
    <3>3. QED
      BY <2>1, <3>1, <3>2
  <2>3. CASE d + 1 # L
    <3>1. Turns(q, d + 1)'
      BY <1>1, <1>9, <2>1, <2>3 DEF Turns
    <3>2. d + 1 \in 0 .. L - 1
      BY <1>1, <2>3
    <3>3. QED
      BY <2>1, <3>1, <3>2
  <2>4. QED
    BY <2>2, <2>3
<1>11. QED
  BY <1>1, <1>10 DEF EvenInv, OwnBackends

\* A table that changes starts anew.
LEMMA NewTable ==
    ASSUME TypeOK', OwnBackends', served' = NoneServed
    PROVE  EvenInv'
<1> SUFFICES ASSUME servers' # <<>>
             PROVE  \E q \in Nat, d \in 0 .. Len(servers') - 1 : Turns(q, d)'
  BY DEF EvenInv
<1>1. Len(servers') \in Nat \ {0} /\ next' \in Nat
  BY GridAssumption DEF TypeOK
<1>2. next' % Len(servers') \in 0 .. Len(servers') - 1
  BY <1>1, NextRemainder
<1>3. ASSUME NEW i \in 1 .. Len(servers')
      PROVE  served'[servers'[i].backend] = IF Behind(i)' < 0 THEN 0 + 1 ELSE 0
  <2>1. servers'[i].backend \in Backends
    <3>1. servers'[i] \in ServerEntry
      BY DEF TypeOK
    <3>2. QED
      BY <3>1 DEF ServerEntry
  <2>2. ~(Behind(i)' < 0)
    BY <1>1, <1>2 DEF Behind
  <2>3. QED
    BY <2>1, <2>2 DEF NoneServed
<1>4. Turns(0, 0)'
  BY <1>3 DEF Turns
<1>5. QED
  BY <1>1, <1>4

LEMMA SameTable ==
    ASSUME EvenInv, UNCHANGED <<servers, next, served>>
    PROVE  EvenInv'
BY DEF EvenInv, OwnBackends, Turns, Behind

LEMMA NoTable ==
    ASSUME servers' = <<>>
    PROVE  EvenInv'
BY DEF EvenInv, OwnBackends

LEMMA EvenStep == TypeOK /\ EvenInv /\ [Next]_vars => EvenInv'
<1> SUFFICES ASSUME TypeOK, EvenInv, [Next]_vars PROVE EvenInv'
  OBVIOUS
<1>0. TypeOK'
  BY TypeStep
<1>1. CASE Discover \/ LockTable \/ StaleRemoved \/ SkipServer
  BY <1>1, SameTable DEF Discover, LockTable, StaleRemoved, SkipServer
<1>2. CASE DiscoverFails \/ RefreshDone \/ WakeUp
  BY <1>2, SameTable, NoTable
  DEF DiscoverFails, RefreshDone, WakeUp, ConnectFails, SleepOrExit, PollerExits
<1>3. CASE RemoveStale
  <2>1. PICK p \in 1 .. Len(servers) : servers' = RemoveAt(servers, p)
    BY <1>3 DEF RemoveStale
  <2>2. /\ Len(servers') = Len(servers) - 1 /\ Len(servers) \in Nat
        /\ \A i \in 1 .. Len(servers) - 1 :
             servers'[i] = IF i < p THEN servers[i] ELSE servers[i + 1]
    BY <2>1, RemovedEntries
  <2>3. ASSUME NEW i \in 1 .. Len(servers'), NEW j \in 1 .. Len(servers'),
               servers'[i].backend = servers'[j].backend
        PROVE  i = j
    <3>1. PICK a \in 1 .. Len(servers) : servers'[i] = servers[a] /\ a = IF i < p THEN i ELSE i + 1
      BY <2>1, RemovedEntries
    <3>2. PICK b \in 1 .. Len(servers) : servers'[j] = servers[b] /\ b = IF j < p THEN j ELSE j + 1
      BY <2>1, RemovedEntries
    <3>3. a = b
      BY <2>3, <3>1, <3>2 DEF EvenInv, OwnBackends
    <3>4. QED
      BY <2>2, <3>1, <3>2, <3>3
  <2>4. OwnBackends'
    BY <2>3 DEF OwnBackends
  <2>5. QED
    BY <1>0, <1>3, <2>4, NewTable DEF RemoveStale
<1>4. ASSUME NEW b \in Backends, AddServer(b) PROVE EvenInv'
  <2>1. [url |-> Head(todo), backend |-> b] \in ServerEntry
    BY <1>4, TailType DEF AddServer, TypeOK, ServerEntry
  <2>2. /\ Len(servers') = Len(servers) + 1 /\ Len(servers) \in Nat
        /\ \A i \in 1 .. Len(servers) : servers'[i] = servers[i]
        /\ servers'[Len(servers) + 1] = [url |-> Head(todo), backend |-> b]
    BY <1>4, <2>1, AppendType DEF AddServer, TypeOK
  <2>3. \A i \in 1 .. Len(servers) : servers[i].backend # b
    BY <1>4 DEF AddServer, TableBackends
  <2>4. OwnBackends'
    BY <2>2, <2>3 DEF EvenInv, OwnBackends
  <2>5. QED
    BY <1>0, <1>4, <2>4, NewTable DEF AddServer
<1>5. CASE UseServer
  BY <1>5, TurnPasses
<1>6. CASE WantServer \/ NoServer \/ QueryEnds \/ DropGrid
  BY <1>6, SameTable, NoTable DEF WantServer, NoServer, QueryEnds, DropGrid
<1>7. CASE UNCHANGED vars
  BY <1>7, SameTable DEF vars
<1>8. QED
  BY <1>1, <1>2, <1>3, <1>4, <1>5, <1>6, <1>7 DEF Next, Refresh, TakeLock

\* Since the table last changed, no server got more than one query more than
\* another, for tables of any length.
THEOREM EvenDistributionAlways == Spec => []EvenDistribution
<1>1. Init => TypeOK /\ EvenInv
  BY TypeInit DEF Init, EvenInv, OwnBackends
<1>2. TypeOK /\ EvenInv /\ [Next]_vars => TypeOK' /\ EvenInv'
  BY TypeStep, EvenStep
<1>3. EvenInv => EvenDistribution
  <2> SUFFICES ASSUME EvenInv, NEW i \in 1 .. Len(servers), NEW j \in 1 .. Len(servers)
               PROVE  served[servers[i].backend] <= served[servers[j].backend] + 1
    BY DEF EvenDistribution, TableBackends
  <2>1. PICK q \in Nat, d \in 0 .. Len(servers) - 1 : Turns(q, d)
    BY DEF EvenInv
  <2>2. QED
    BY <2>1 DEF Turns
<1>4. QED
  BY <1>1, <1>2, <1>3, PTL DEF Spec
=============================================================================
