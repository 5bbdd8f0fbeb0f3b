----------------------------- MODULE FinanceCache -----------------------------
(***************************************************************************)
(* The query cache of the web client (frontend/src/lib/financeQueryCache.ts*)
(* and the hooks and pages over it) beside the requests that change the    *)
(* ledger: an import neutralizes what depends on cluster ids when it is    *)
(* sent, and every request invalidates what it has changed when it is      *)
(* answered. The user goes from page to page meanwhile.                    *)
(*                                                                         *)
(* The cache is TanStack Query's, modelled from how the client uses it. Of *)
(* what a query holds only whether it is what the server would answer now  *)
(* is kept.                                                                *)
(***************************************************************************)
EXTENDS Integers, FiniteSets

CONSTANTS
    Keys, Sensitive,    \* query keys; those of CLUSTER_SENSITIVE_QUERY_KEYS
    Screens, Shows,     \* the pages; Shows[p]: the keys that page p observes
    Queue,              \* the key of the review queue
    Imports, Tags, Patches, Restores,   \* requests
    MaxRequests,        \* bound on the requests sent
    NoData

ASSUME CacheAssumption ==
    /\ Sensitive \subseteq Keys /\ Shows \in [Screens -> SUBSET Keys]
    /\ Queue \in Sensitive
    /\ NoData \notin {"asked", "current", "outdated"}
    /\ Imports \cap (Tags \cup Patches \cup Restores) = {}
    /\ Tags \cap (Patches \cup Restores) = {} /\ Patches \cap Restores = {}

\* The import page asks for the files and the accounts only.
ASSUME ImportPageAssumption == "import" \in Screens /\ Shows["import"] \cap Sensitive = {}

Requests == Imports \cup Tags \cup Patches \cup Restores
Value == {NoData, "current", "outdated"}

VARIABLES
    page,       \* the page on the screen
    phase,      \* DataImportPage: "idle", "done", or the import in progress
    data,       \* data[k]: what the query holds
    invalid,    \* isInvalidated
    fetched,    \* the query has been answered since it was created or reset
    fetch,      \* its fetch: NoData, "asked", or what the server has read for it
    request,    \* request[r]: "idle", "sent", "ok" or "failed", for the client
    server,     \* server[r]: "idle", "working" or "done"
    early,      \* keys with data or a fetch from before an import was sent
    joined,     \* keys whose fetch an invalidation has left in flight
    unseen      \* the server wrote for a request that the client had given up

cache == <<data, invalid, fetched, fetch>>
cacheVars == <<page, phase, cache, request, server, early, joined, unseen>>

CacheInit ==
    /\ page \in Screens /\ phase = "idle"
    /\ data = [k \in Keys |-> NoData]
    /\ invalid = [k \in Keys |-> FALSE]
    /\ fetched = [k \in Keys |-> FALSE]
    /\ fetch = [k \in Keys |-> IF k \in Shows[page] THEN "asked" ELSE NoData]
    /\ request = [r \in Requests |-> "idle"]
    /\ server = [r \in Requests |-> "idle"]
    /\ early = {} /\ joined = {} /\ unseen = FALSE

Sent(S) == {r \in S : request[r] = "sent"}

----------------------------------------------------------------------------
(* TanStack Query                                                          *)

\* A query starts to fetch, unless it does so already.
Ask(S) == fetch' = [k \in Keys |-> IF k \in S /\ fetch[k] = NoData THEN "asked" ELSE fetch[k]]

\* A query that nobody observes and that holds no answer is not refetched.
Disabled(k) == k \notin Shows[page] /\ ~fetched[k]

\* invalidateQueries with refetchType all. The fetch in flight is cancelled
\* in favour of a new one only if the query has data already.
Invalidate(S) ==
    LET again == {k \in S : ~Disabled(k) /\ (data[k] # NoData \/ fetch[k] = NoData)} IN
    /\ invalid' = [k \in Keys |-> invalid[k] \/ k \in S]
    /\ fetch' = [k \in Keys |-> IF k \in again THEN "asked" ELSE fetch[k]]
    /\ early' = early \ again
    /\ joined' = (joined \ again) \cup {k \in S \ again : fetch[k] # NoData}
    /\ UNCHANGED <<data, fetched>>

\* The server reads for a fetch, and later the answer comes in.
Read(k) ==
    /\ fetch[k] = "asked"
    /\ fetch' = [fetch EXCEPT ![k] = "current"]
    /\ UNCHANGED <<page, phase, data, invalid, fetched, request, server, early, joined, unseen>>

FetchAnswered(k) ==
    /\ fetch[k] \in {"current", "outdated"}
    /\ data' = [data EXCEPT ![k] = fetch[k]]
    /\ fetch' = [fetch EXCEPT ![k] = NoData]
    /\ invalid' = [invalid EXCEPT ![k] = FALSE]
    /\ fetched' = [fetched EXCEPT ![k] = TRUE]
    /\ UNCHANGED <<page, phase, request, server, early, joined, unseen>>

\* After one retry; data from before stay.
FetchFails(k) ==
    /\ fetch[k] # NoData
    /\ fetch' = [fetch EXCEPT ![k] = NoData]
    /\ invalid' = [invalid EXCEPT ![k] = TRUE]
    /\ fetched' = [fetched EXCEPT ![k] = TRUE]
    /\ joined' = joined \ {k}
    /\ UNCHANGED <<page, phase, data, request, server, early, unseen>>

\* A page is mounted: what is missing, invalid or older than staleTime is
\* fetched. Only the import page has a state that it loses.
Go(p, stale) ==
    LET due == {k \in Shows[p] : data[k] = NoData \/ invalid[k] \/ k \in stale} IN
    /\ stale \subseteq {k \in Shows[p] : data[k] # NoData}
    /\ page' = p
    /\ phase' = "idle"
    /\ Ask(due)
    /\ joined' = joined \ {k \in due : fetch[k] = NoData}
    /\ early' = early \ {k \in due : fetch[k] = NoData /\ data[k] = NoData}
    /\ UNCHANGED <<data, invalid, fetched, request, server, unseen>>

----------------------------------------------------------------------------
(* The pages' requests                                                     *)

\* Mutant: queries are reset, but their fetches are not cancelled.
NeutralizeKeepsFetches ==
    /\ data' = [k \in Keys |-> IF k \in Sensitive THEN NoData ELSE data[k]]
    /\ invalid' = [k \in Keys |-> k \notin Sensitive /\ invalid[k]]
    /\ fetched' = [k \in Keys |-> k \notin Sensitive /\ fetched[k]]
    /\ fetch' = fetch
    /\ joined' = joined \ Sensitive

\* neutralizeClusterKeyedCaches: cancelQueries, then resetQueries, which
\* fetches what is observed.
Neutralize ==
    /\ data' = [k \in Keys |-> IF k \in Sensitive THEN NoData ELSE data[k]]
    /\ invalid' = [k \in Keys |-> k \notin Sensitive /\ invalid[k]]
    /\ fetched' = [k \in Keys |-> k \notin Sensitive /\ fetched[k]]
    /\ fetch' = [k \in Keys |-> IF k \notin Sensitive THEN fetch[k]
                                ELSE IF k \in Shows[page] THEN "asked" ELSE NoData]
    /\ joined' = joined \ Sensitive

Send(r) ==
    /\ request[r] = "idle" /\ Cardinality({q \in Requests : request[q] # "idle"}) < MaxRequests
    /\ request' = [request EXCEPT ![r] = "sent"]
    /\ server' = [server EXCEPT ![r] = "working"]

\* handleFile, until postImport is awaited.
StartImport(i) ==
    /\ i \in Imports /\ page = "import" /\ phase = "idle"
    /\ Send(i) /\ phase' = i
    /\ Neutralize
    /\ early' = {k \in Keys : data'[k] # NoData \/ (fetch[k] # NoData /\ fetch'[k] = fetch[k])}
    /\ UNCHANGED <<page, unseen>>

\* onConfirm, on a cluster that the page shows.
ConfirmCluster(t) ==
    /\ t \in Tags /\ page = "review" /\ data[Queue] # NoData
    /\ Send(t)
    /\ UNCHANGED <<page, phase, cache, early, joined, unseen>>

ApplyCurrency(p) ==
    /\ p \in Patches /\ page = "import" /\ phase = "done"
    /\ Send(p)
    /\ UNCHANGED <<page, phase, cache, early, joined, unseen>>

StartRestore(r) ==
    /\ r \in Restores /\ page = "settings"
    /\ Send(r)
    /\ UNCHANGED <<page, phase, cache, early, joined, unseen>>

Writes(r) == IF r \in Tags THEN Sensitive ELSE Keys

\* What the server has read or the client holds is no longer what the server
\* would answer. Requests write in several steps, and go on when the client
\* has been told that they have failed.
ServerWrites(r) ==
    LET Outdate(f) == [k \in Keys |-> IF k \in Writes(r) /\ f[k] = "current" THEN "outdated" ELSE f[k]]
    IN  /\ server[r] = "working"
        /\ data' = Outdate(data) /\ fetch' = Outdate(fetch)
        /\ unseen' = (unseen \/ request[r] # "sent")
        /\ UNCHANGED <<page, phase, invalid, fetched, request, server, early, joined>>

ServerEnds(r) ==
    /\ server[r] = "working"
    /\ server' = [server EXCEPT ![r] = "done"]
    /\ UNCHANGED <<page, phase, cache, request, early, joined, unseen>>

\* Mutant: an import refreshes what depends on clusters only.
ChangedClustersOnly(r) == Sensitive

\* useTagCluster; invalidateFinanceCaches.
Changed(r) == IF r \in Tags THEN Sensitive ELSE Keys

Succeeds(r) ==
    /\ request[r] = "sent" /\ server[r] = "done"
    /\ request' = [request EXCEPT ![r] = "ok"]
    /\ Invalidate(Changed(r))
    /\ phase' = IF phase = r THEN "done" ELSE phase
    /\ UNCHANGED <<page, server, unseen>>

\* An import invalidates then, too; the others only show a message.
Fails(r) ==
    /\ request[r] = "sent"
    /\ request' = [request EXCEPT ![r] = "failed"]
    /\ IF r \in Imports THEN Invalidate(Keys) ELSE UNCHANGED <<cache, early, joined>>
    /\ phase' = IF phase = r THEN "idle" ELSE phase
    /\ UNCHANGED <<page, server, unseen>>

CacheNext ==
    \/ \E k \in Keys : Read(k) \/ FetchAnswered(k) \/ FetchFails(k)
    \/ \E p \in Screens, stale \in SUBSET Keys : Go(p, stale)
    \/ \E r \in Requests :
         \/ StartImport(r) \/ ConfirmCluster(r) \/ ApplyCurrency(r) \/ StartRestore(r)
         \/ ServerWrites(r) \/ ServerEnds(r) \/ Succeeds(r) \/ Fails(r)

CacheSpec == CacheInit /\ [][CacheNext]_cacheVars

----------------------------------------------------------------------------
CacheTypeOK ==
    /\ page \in Screens /\ phase \in {"idle", "done"} \cup Imports
    /\ data \in [Keys -> Value] /\ fetch \in [Keys -> Value \cup {"asked"}]
    /\ invalid \in [Keys -> BOOLEAN] /\ fetched \in [Keys -> BOOLEAN]
    /\ request \in [Requests -> {"idle", "sent", "ok", "failed"}]
    /\ server \in [Requests -> {"idle", "working", "done"}]
    /\ early \subseteq Keys /\ joined \subseteq Keys /\ unseen \in BOOLEAN
    /\ \A k \in Keys : data[k] # NoData => fetched[k]

(* While an import is under way, nothing that depends on cluster ids is    *)
(* from before it was sent, whatever was in flight then: "late responses   *)
(* cannot repopulate stale cluster data" (financeQueryCache.ts:16).        *)
NoneFromBefore == Sent(Imports) # {} => early \cap Sensitive = {}

(* When every request is answered and nothing is being fetched, what the   *)
(* client holds is what the server would answer, or is known to be         *)
(* invalid. Excepted are requests that failed without a refresh, writes    *)
(* after the client was told of a failure, and keys that were being loaded *)
(* for the first time when they were invalidated: TanStack lets that first *)
(* load go on, and its answer, read before the commit, counts as fresh.    *)
Settled == Sent(Requests) = {} /\ \A k \in Keys : fetch[k] = NoData

SettledIsFresh ==
    Settled /\ ~unseen /\ (\A r \in Requests \ Imports : request[r] # "failed") =>
        \A k \in Keys \ joined : data[k] = "outdated" => invalid[k]
=============================================================================
