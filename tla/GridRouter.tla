----------------------------- MODULE GridRouter -----------------------------
(***************************************************************************)
(* The grid backend (src/src/backend/grid.rs): a route table of the        *)
(* servers of one model behind an RwLock, filled by a first discovery in   *)
(* connect, refreshed by a poller thread, read by the queries of the       *)
(* PostgreSQL backend (the foreground), which use a server under the read  *)
(* lock, in round-robin order.                                             *)
(*                                                                         *)
(* A server entry is a URL and the RemoteBackend made for it, which is     *)
(* identified because it owns a client and its runtime thread.  What       *)
(* /v1/models lists is chosen anew at each discovery.                      *)
(***************************************************************************)
EXTENDS Integers, Sequences, SequencesExt, FiniteSets

CONSTANTS
    Urls,       \* server URLs
    Backends,   \* identities of the RemoteBackends made
    Lists,      \* what a discovery may return, a set of sequences of URLs
    MaxQueries, \* bound: queries served, so a bound of the counter next
    NoBackend   \* the foreground uses no server

ASSUME GridAssumption ==
    /\ Lists \subseteq Seq(Urls)
    /\ MaxQueries \in Nat
    /\ NoBackend \notin Backends

VARIABLES
    servers,  \* RouteTable.servers
    next,     \* RouteTable.next
    fg,       \* the foreground: connect, a query, drop
    using,    \* the backend the running query uses, under the read lock
    upd,      \* the poller; while fg is "connecting", connect's discovery
    found,    \* the URLs that the running refresh has discovered
    existing, \* existing_urls of the running refresh
    todo,     \* the discovered URLs it has yet to look at
    stop,     \* the stop flag
    served    \* history: queries each backend got since the table changed

refresh == <<found, existing, todo>>
vars == <<servers, next, fg, using, upd, refresh, stop, served>>

ServerEntry == [url : Urls, backend : Backends]

TypeOK ==
    /\ servers \in Seq(ServerEntry)
    /\ next \in 0 .. MaxQueries
    /\ fg \in {"connecting", "failed", "idle", "waiting", "using", "dropped"}
    /\ using \in Backends \cup {NoBackend}
    /\ upd \in {"sleeping", "discovering", "locking", "removing", "adding", "exited"}
    /\ found \in Seq(Urls) /\ todo \in Seq(Urls)
    /\ existing \in SUBSET Urls
    /\ stop \in BOOLEAN
    /\ served \in [Backends -> Nat]
    /\ (using = NoBackend <=> fg # "using")
    /\ upd = "exited" => stop \/ fg = "failed"

NoneServed == [b \in Backends |-> 0]

Init ==
    /\ servers = <<>>
    /\ next = 0
    /\ fg = "connecting"
    /\ using = NoBackend
    /\ upd = "discovering"
    /\ found = <<>> /\ existing = {} /\ todo = <<>>
    /\ stop = FALSE
    /\ served = NoneServed

TableUrls == {servers[i].url : i \in 1 .. Len(servers)}
TableBackends == {servers[i].backend : i \in 1 .. Len(servers)}

----------------------------------------------------------------------------
(* discover_and_update, by connect or by the poller *)

\* connect returns an error: the table and all its backends are dropped.
ConnectFails ==
    /\ fg' = "failed"
    /\ upd' = "exited"
    /\ servers' = <<>>

\* The poller's thread returns: the table is dropped if it was the last owner.
PollerExits ==
    /\ upd' = "exited"
    /\ servers' = IF fg = "dropped" THEN <<>> ELSE servers
    /\ UNCHANGED fg

\* After a refresh, and after each sleep, the poller looks at the stop flag.
SleepOrExit ==
    \/ stop /\ PollerExits
    \/ ~stop /\ upd' = "sleeping" /\ UNCHANGED <<servers, fg>>

Discover ==
    /\ upd = "discovering"
    /\ found' \in Lists
    /\ upd' = "locking"
    /\ UNCHANGED <<servers, next, fg, using, existing, todo, stop, served>>

DiscoverFails ==
    /\ upd = "discovering"
    /\ \/ fg = "connecting" /\ ConnectFails
       \/ fg # "connecting" /\ SleepOrExit
    /\ UNCHANGED <<next, using, refresh, stop, served>>

Listed(entry) == \E i \in 1 .. Len(found) : found[i] = entry.url

\* Mutant of Stale: the whole table is rebuilt at every refresh.
StaleAll(entry) == TRUE

\* Mutant of Stale: nothing is ever removed.
StaleNone(entry) == FALSE

Stale(entry) == ~Listed(entry)

\* Mutant of LockTable: the poller does not wait for the readers.
LockTableAtOnce ==
    /\ upd = "locking"
    /\ upd' = "removing"
    /\ existing' = TableUrls
    /\ todo' = found
    /\ UNCHANGED <<servers, next, fg, using, found, stop, served>>

\* The write lock, once no query reads the table.
LockTable ==
    /\ upd = "locking"
    /\ fg # "using"
    /\ upd' = "removing"
    /\ existing' = TableUrls
    /\ todo' = found
    /\ UNCHANGED <<servers, next, fg, using, found, stop, served>>

\* retain drops the stale servers, and with each of them its backend, in order.
RemoveStale ==
    /\ upd = "removing"
    /\ \E i \in 1 .. Len(servers) :
         /\ Stale(servers[i])
         /\ \A j \in 1 .. (i - 1) : ~Stale(servers[j])
         /\ servers' = RemoveAt(servers, i)
    /\ served' = NoneServed
    /\ UNCHANGED <<next, fg, using, upd, refresh, stop>>

StaleRemoved ==
    /\ upd = "removing"
    /\ \A i \in 1 .. Len(servers) : ~Stale(servers[i])
    /\ upd' = "adding"
    /\ UNCHANGED <<servers, next, fg, using, refresh, stop, served>>

\* Mutant of AddServer: every listed server is connected.
AddServerAgain(b) ==
    /\ upd = "adding" /\ todo # <<>>
    /\ b \notin TableBackends
    /\ servers' = Append(servers, [url |-> Head(todo), backend |-> b])
    /\ served' = NoneServed
    /\ todo' = Tail(todo)
    /\ UNCHANGED <<next, fg, using, upd, found, existing, stop>>

\* RemoteBackend::connect, under the write lock.
AddServer(b) ==
    /\ upd = "adding" /\ todo # <<>> /\ Head(todo) \notin existing
    /\ b \notin TableBackends
    /\ servers' = Append(servers, [url |-> Head(todo), backend |-> b])
    /\ served' = NoneServed
    /\ todo' = Tail(todo)
    /\ UNCHANGED <<next, fg, using, upd, found, existing, stop>>

\* The server is known already, or cannot be reached.
SkipServer ==
    /\ upd = "adding" /\ todo # <<>>
    /\ todo' = Tail(todo)
    /\ UNCHANGED <<servers, next, fg, using, upd, found, existing, stop, served>>

\* The lock is released.  connect goes on to spawn the poller if there is a
\* server (and the thread can be spawned).
RefreshDone ==
    /\ upd = "adding" /\ todo = <<>>
    /\ \/ fg # "connecting" /\ SleepOrExit
       \/ fg = "connecting" /\ ConnectFails
       \/ /\ fg = "connecting" /\ servers # <<>>
          /\ fg' = "idle" /\ upd' = "sleeping" /\ UNCHANGED servers
    /\ found' = <<>> /\ existing' = {}
    /\ UNCHANGED <<next, using, todo, stop, served>>

WakeUp ==
    /\ upd = "sleeping"
    /\ \/ stop /\ PollerExits
       \/ ~stop /\ upd' = "discovering" /\ UNCHANGED <<servers, fg>>
    /\ UNCHANGED <<next, using, refresh, stop, served>>

----------------------------------------------------------------------------
(* The foreground: with_server, Drop *)

\* The poller holds the write lock.
WriteLocked == upd \in {"removing", "adding"}

WantServer ==
    /\ fg = "idle"
    /\ fg' = "waiting"
    /\ UNCHANGED <<servers, next, using, upd, refresh, stop, served>>

\* Mutant of NoServer: the query waits for a server to appear.
WaitForServer ==
    /\ fg = "waiting" /\ ~WriteLocked
    /\ servers = <<>>
    /\ UNCHANGED vars

NoServer ==
    /\ fg = "waiting" /\ ~WriteLocked
    /\ servers = <<>>
    /\ fg' = "idle"
    /\ UNCHANGED <<servers, next, using, upd, refresh, stop, served>>

\* Mutant of Chosen: the counter is not reduced by the length of the table that
\* is there now, but sticks to its end.
ChosenLast == servers[IF next < Len(servers) THEN next + 1 ELSE Len(servers)].backend

\* fetch_add on the counter, modulo the length of the table.
Chosen == servers[(next % Len(servers)) + 1].backend

UseServer ==
    /\ fg = "waiting" /\ ~WriteLocked
    /\ servers # <<>>
    /\ next < MaxQueries
    /\ next' = next + 1
    /\ using' = Chosen
    /\ served' = [served EXCEPT ![Chosen] = @ + 1]
    /\ fg' = "using"
    /\ UNCHANGED <<servers, upd, refresh, stop>>

QueryEnds ==
    /\ fg = "using"
    /\ fg' = "idle"
    /\ using' = NoBackend
    /\ UNCHANGED <<servers, next, upd, refresh, stop, served>>

\* Mutant of DropGrid: the poller is not told.
DropSilently ==
    /\ fg = "idle"
    /\ fg' = "dropped"
    /\ servers' = IF upd = "exited" THEN <<>> ELSE servers
    /\ UNCHANGED <<next, using, upd, refresh, stop, served>>

\* Drop sets the flag and does not join the poller, which owns the table too.
DropGrid ==
    /\ fg = "idle"
    /\ fg' = "dropped"
    /\ stop' = TRUE
    /\ servers' = IF upd = "exited" THEN <<>> ELSE servers
    /\ UNCHANGED <<next, using, upd, refresh, served>>

----------------------------------------------------------------------------

Refresh ==
    \/ Discover \/ DiscoverFails
    \/ LockTable \/ RemoveStale \/ StaleRemoved
    \/ \E b \in Backends : AddServer(b)
    \/ SkipServer
    \/ RefreshDone
    \/ WakeUp

TakeLock == NoServer \/ UseServer

Next ==
    \/ Refresh
    \/ WantServer \/ TakeLock \/ QueryEnds
    \/ DropGrid

\* The discovery and the connections of a refresh, and the queries, have a
\* timeout; a reader that waits gets the lock after finitely many refreshes.
Spec ==
    /\ Init /\ [][Next]_vars
    /\ WF_vars(Refresh) /\ WF_vars(QueryEnds) /\ SF_vars(TakeLock)

----------------------------------------------------------------------------
(* Properties *)

\* The backend of a running query is in the table: no refresh drops it, with its
\* client and runtime thread, before the query ends.
UsedBackendIsKept == fg = "using" => using \in TableBackends

\* Each URL has one backend (given discoveries that name each URL once).
OneBackendPerUrl ==
    \A i, j \in 1 .. Len(servers) : servers[i].url = servers[j].url => i = j

\* While a refresh connects, the table serves only servers that the discovery
\* it applies has listed, the ones kept and the ones just added alike.
OnlyListedServed ==
    upd = "adding" => TableUrls \subseteq {found[i] : i \in 1 .. Len(found)}

\* A refresh keeps the connection to every server that is still listed.
ConnectionsKept ==
    [][\A i \in 1 .. Len(servers) :
         LET e == servers[i] IN
         (\A j \in 1 .. Len(servers') : servers'[j] # e) =>
             \/ fg' \in {"failed", "dropped"}
             \/ upd = "removing" /\ ~Listed(e)]_vars

\* Round robin: since the table last changed, no server got more than one query
\* more than another.
EvenDistribution ==
    \A b, d \in TableBackends : served[b] <= served[d] + 1

\* A query that waits for the table gets its turn.
QueryGetsTable == fg = "waiting" /\ next < MaxQueries ~> fg # "waiting"

\* Dropping the grid ends the poller and drops every backend.
DropCleansUp == fg = "dropped" ~> upd = "exited" /\ servers = <<>>
=============================================================================
