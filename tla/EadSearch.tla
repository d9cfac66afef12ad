----------------------------- MODULE EadSearch -----------------------------
(***************************************************************************)
(* The EAD search handlers of src/hub3/ead/search.go: PerformClusteredSearch*)
(* and PerformDetailSearch, run by concurrent HTTP goroutines that share   *)
(* the package globals httpCache and once.                                 *)
(*                                                                         *)
(* A goroutine serves one request at a time through the control points of *)
(* the handler: once.Do(newBigCache), buildSearchRequest, the cacheReset  *)
(* branch, requestKey and the cache lookup, the cacheRefresh branch, the   *)
(* Elasticsearch call with the result decoding and the page check, and the *)
(* cache store.  Steps that touch only goroutine-local state are folded    *)
(* into the next step that reads or writes a global.                       *)
(*                                                                         *)
(* Data is abstracted: a request keeps the fields its cache key and its    *)
(* page check depend on; an Elasticsearch result is the count the cursor   *)
(* is checked against and the response's totalHits; the xxhash of the     *)
(* request's JSON is taken to be injective (spec 4.3 accepts collisions).  *)
(***************************************************************************)
EXTENDS Integers, FiniteSets, Functions, TLC, Pagination

CONSTANTS
    Procs,        \* HTTP goroutines serving search requests
    Archives,     \* inventory IDs (detail mode)
    NoID,         \* InventoryID of a cluster request ("")
    Pages,        \* page parameter values
    RowsValues,   \* rows parameter values
    MaxCount,     \* bound on archiveCount / totalClevelCount of a result
    MaxHits,      \* bound on totalHits of a result
    MaxRequests,  \* bound on the requests served by the model
    MaxVersion    \* bound on the changes of the index under the handlers

ASSUME NoID \notin Archives
ASSUME MaxHits >= MaxCount /\ MaxCount \in Nat

VARIABLES
    onceState,    \* sync.Once guarding the first newBigCache: idle|building|done
    cache,        \* the current httpCache: key -> response
    pc,           \* control point of each goroutine
    req,          \* the goroutine's SearchRequest
    key,          \* the goroutine's requestKey
    resp,         \* the response being assembled
    answer,       \* what the handler last returned to its caller
    requests,     \* requests received so far (bounded)
    resets,       \* history: how many cacheResets have replaced the cache
    version       \* the index content, changed by indexing at any time

vars == <<onceState, cache, pc, req, key, resp, answer, requests, resets,
          version>>

(***************************************************************************)
(* Requests and responses                                                  *)
(***************************************************************************)
\* The SearchRequest fields that reach the key or the page check.
Requests ==
    [mode: {"cluster"}, inv: {NoID}, page: Pages, rows: RowsValues,
     noCache: BOOLEAN, refresh: BOOLEAN, reset: BOOLEAN]
    \cup
    [mode: {"detail"}, inv: Archives, page: Pages, rows: RowsValues,
     noCache: BOOLEAN, refresh: BOOLEAN, reset: BOOLEAN]

NoRequest == [mode |-> "none"]

\* The request with its cache-control flags cleared.
Canon(r) == [r EXCEPT !.noCache = FALSE, !.refresh = FALSE, !.reset = FALSE]

\* Mutant of Key: the detail handler computes requestKey before it assigns
\* req.InventoryID (lines 765 and 773 swapped).
KeyBeforeInventoryID(r) == [r EXCEPT !.inv = NoID]

\* requestKey: the hash of the JSON of every exported field, flags included.
Key(r) == r

\* A search result as the handler decodes it: the count the cursor is
\* checked against (archiveCount in cluster mode, totalClevelCount in detail
\* mode) and totalHits.  Every counted archive has at least one hit; in detail
\* mode totalHits is the raw hit count.
EsResults(mode) ==
    IF mode = "cluster"
    THEN UNION {{[count |-> c, hits |-> h] : h \in c..MaxHits} : c \in 0..MaxCount}
    ELSE {[count |-> h, hits |-> h] : h \in 0..MaxCount}

\* A response: the request it answers, its totalHits, the index version it
\* was computed from, and
\* (history) how many resets had happened when its query was sent.
Responses ==
    [for: {Canon(r) : r \in Requests}, hits: 0..MaxHits,
     version: 0..MaxVersion, epoch: 0..MaxRequests]

NoResponse == [for |-> NoRequest]

Errors == {"ParamError", "EngineError", "Panic", "PageOutOfRange", "DatasetError"}

EmptyCache == [k \in {} |-> NoResponse]

(***************************************************************************)
(* Goroutine steps                                                         *)
(***************************************************************************)
Goto(p, to) == pc' = [pc EXCEPT ![p] = to]

\* The handler returns (response, error) to its caller and the goroutine is
\* free again.
Return(p, r, e) ==
    /\ pc' = [pc EXCEPT ![p] = "idle"]
    /\ answer' = [answer EXCEPT ![p] = [resp |-> r, err |-> e]]
    /\ req' = [req EXCEPT ![p] = NoRequest]
    /\ key' = [key EXCEPT ![p] = NoRequest]
    /\ resp' = [resp EXCEPT ![p] = NoResponse]

Ok(p, r) == Return(p, r, "none")

Fail(p, e) == Return(p, NoResponse, e)

\* An HTTP request is routed to PerformClusteredSearch or PerformDetailSearch.
Arrive(p) ==
    /\ pc[p] = "idle"
    /\ requests < MaxRequests
    /\ requests' = requests + 1
    /\ Goto(p, "once")
    /\ UNCHANGED <<onceState, cache, req, key, resp, answer, resets, version>>

\* once.Do(newBigCache): the first caller runs newBigCache ...
OnceFirst(p) ==
    /\ pc[p] = "once"
    /\ onceState = "idle"
    /\ onceState' = "building"
    /\ Goto(p, "building")
    /\ UNCHANGED <<cache, req, key, resp, answer, requests, resets, version>>

\* ... and the others return from once.Do only when it has completed.
OnceDone(p) ==
    /\ pc[p] = "once"
    /\ onceState = "done"
    /\ Goto(p, "build")
    /\ UNCHANGED <<onceState, cache, req, key, resp, answer, requests, resets, version>>

\* Mutant of NewBigCache: a hand-rolled once that never records completion.
NewBigCacheUnmarked(p) ==
    /\ pc[p] = "building"
    /\ cache' = EmptyCache
    /\ Goto(p, "build")
    /\ UNCHANGED <<onceState, req, key, resp, answer, requests, resets, version>>

\* newBigCache assigns a fresh cache to httpCache; once.Do then completes.
NewBigCache(p) ==
    /\ pc[p] = "building"
    /\ cache' = EmptyCache
    /\ onceState' = "done"
    /\ Goto(p, "build")
    /\ UNCHANGED <<req, key, resp, answer, requests, resets, version>>

\* buildSearchRequest fails on a parameter newSearchRequest cannot parse.
ParseFails(p) ==
    /\ pc[p] = "build"
    /\ Fail(p, "ParamError")
    /\ UNCHANGED <<onceState, cache, requests, resets, version>>

\* buildSearchRequest succeeds; the detail handler then sets InventoryID.
\* A cacheReset request goes to the reset branch first.
ParseOk(p) ==
    /\ pc[p] = "build"
    /\ \E r \in Requests :
        /\ req' = [req EXCEPT ![p] = r]
        /\ Goto(p, IF r.reset THEN "reset" ELSE "lookup")
    /\ UNCHANGED <<onceState, cache, key, resp, answer, requests, resets, version>>

\* if req.CacheReset { newBigCache(); req.CacheReset = false }
CacheReset(p) ==
    /\ pc[p] = "reset"
    /\ cache' = EmptyCache
    /\ resets' = resets + 1
    /\ req' = [req EXCEPT ![p].reset = FALSE]
    /\ Goto(p, "lookup")
    /\ UNCHANGED <<onceState, key, resp, answer, requests, version>>

\* The lookup is tried unless noCache or cacheRefresh is set.
UseCache(r) == ~r.noCache /\ ~r.refresh

\* requestKey(); the cache holds the key and its entry decodes: the cached
\* response is returned.
LookupHit(p) ==
    /\ pc[p] = "lookup"
    /\ LET k == Key(req[p]) IN
        /\ UseCache(req[p])
        /\ k \in DOMAIN cache
        /\ Ok(p, cache[k])
    /\ UNCHANGED <<onceState, cache, requests, resets, version>>

\* Mutant of LookupMiss: cacheRefresh is cleared but the key is not recomputed.
LookupMissStaleKey(p) ==
    /\ pc[p] = "lookup"
    /\ LET r == req[p] IN
        /\ req' = [req EXCEPT ![p].refresh = FALSE]
        /\ key' = [key EXCEPT ![p] = Key(r)]
    /\ Goto(p, "query")
    /\ UNCHANGED <<onceState, cache, resp, answer, requests, resets, version>>

\* requestKey(); no lookup, a miss, or an entry that fails to decode (a
\* soft error that degrades to a miss).  A cacheRefresh request clears its
\* flag and recomputes the key before the query.
LookupMiss(p) ==
    /\ pc[p] = "lookup"
    /\ LET r  == req[p]
           r2 == [r EXCEPT !.refresh = FALSE]
       IN /\ req' = [req EXCEPT ![p] = r2]
          /\ key' = [key EXCEPT ![p] = IF r.refresh THEN Key(r2) ELSE Key(r)]
    /\ Goto(p, "query")
    /\ UNCHANGED <<onceState, cache, resp, answer, requests, resets, version>>

\* The Elasticsearch call fails (engine error or a cancelled context).  The
\* cluster handler logs resp.Status before it checks err, and resp is nil:
\* the goroutine panics.  The detail handler returns the error.
QueryFails(p) ==
    /\ pc[p] = "query"
    /\ Fail(p, IF req[p].mode = "cluster" THEN "Panic" ELSE "EngineError")
    /\ UNCHANGED <<onceState, cache, requests, resets, version>>

\* Mutant of QueryOk: totalHits also adds the archive count.
QueryOkDoubleCount(p) ==
    /\ pc[p] = "query"
    /\ \E res \in EsResults(req[p].mode) :
        LET r   == req[p]
            out == [for |-> Canon(r), hits |-> res.hits + res.count,
                    version |-> version, epoch |-> resets]
        IN /\ getCursor(r.rows, r.page) <= res.count
           /\ resp' = [resp EXCEPT ![p] = out]
           /\ Goto(p, "store")
           /\ UNCHANGED <<answer, req, key>>
    /\ UNCHANGED <<onceState, cache, requests, resets, version>>

\* The Elasticsearch call returns; the handler decodes the counts, checks
\* the cursor, resolves the datasets of the hits on the page (cluster mode)
\* and returns early on an empty detail result.
QueryOk(p) ==
    /\ pc[p] = "query"
    /\ \E res \in EsResults(req[p].mode) :
        LET r      == req[p]
            cursor == getCursor(r.rows, r.page)
            out    == [for |-> Canon(r), hits |-> res.hits,
                       version |-> version, epoch |-> resets]
        IN
        \/ /\ ~PageAccepted(res.count, r.rows, r.page)
           /\ Fail(p, "PageOutOfRange")
        \/ /\ PageAccepted(res.count, r.rows, r.page)
           /\ r.mode = "cluster" /\ res.count > cursor
           /\ Fail(p, "DatasetError")
        \/ /\ PageAccepted(res.count, r.rows, r.page)
           /\ r.mode = "detail" /\ res.hits = 0
           /\ Ok(p, out)
        \/ /\ PageAccepted(res.count, r.rows, r.page)
           /\ ~(r.mode = "detail" /\ res.hits = 0)
           /\ resp' = [resp EXCEPT ![p] = out]
           /\ Goto(p, "store")
           /\ UNCHANGED <<answer, req, key>>
    /\ UNCHANGED <<onceState, cache, requests, resets, version>>

\* if !req.NoCache { if TotalHits == 0 return; storeResponseInCache } and
\* the response is returned.
StoreResponse(p) ==
    /\ pc[p] = "store"
    /\ IF ~req[p].noCache /\ resp[p].hits > 0
       THEN cache' = (key[p] :> resp[p]) @@ cache
       ELSE UNCHANGED cache
    /\ Ok(p, resp[p])
    /\ UNCHANGED <<onceState, requests, resets, version>>

(***************************************************************************)
(* The environment: bigcache drops entries past their lifetime window or   *)
(* when a shard is full.                                                   *)
(***************************************************************************)
Evict(k) ==
    /\ k \in DOMAIN cache
    /\ cache' = Restrict(cache, DOMAIN cache \ {k})
    /\ UNCHANGED <<onceState, pc, req, key, resp, answer, requests, resets, version>>

\* The index is changed by indexing, independently of the search handlers.
Reindex ==
    /\ version < MaxVersion
    /\ version' = version + 1
    /\ UNCHANGED <<onceState, cache, pc, req, key, resp, answer, requests, resets>>

(***************************************************************************)
(* Specification                                                           *)
(***************************************************************************)
Init ==
    /\ onceState = "idle"
    /\ cache = EmptyCache
    /\ pc = [p \in Procs |-> "idle"]
    /\ req = [p \in Procs |-> NoRequest]
    /\ key = [p \in Procs |-> NoRequest]
    /\ resp = [p \in Procs |-> NoResponse]
    /\ answer = [p \in Procs |-> [resp |-> NoResponse, err |-> "none"]]
    /\ requests = 0
    /\ resets = 0
    /\ version = 0

Step(p) ==
    \/ Arrive(p)
    \/ OnceFirst(p)
    \/ OnceDone(p)
    \/ NewBigCache(p)
    \/ ParseFails(p)
    \/ ParseOk(p)
    \/ CacheReset(p)
    \/ LookupHit(p)
    \/ LookupMiss(p)
    \/ QueryFails(p)
    \/ QueryOk(p)
    \/ StoreResponse(p)

Next ==
    \/ \E p \in Procs : Step(p)
    \/ \E k \in DOMAIN cache : Evict(k)
    \/ Reindex

\* Each goroutine is scheduled by the Go runtime and the Elasticsearch call
\* returns or fails (the context carries the deadline): a goroutine that can
\* take a step of its handler eventually does.  Arrivals need no fairness.
Fairness ==
    \A p \in Procs :
        WF_vars(Step(p) /\ pc[p] # "idle")

Spec == Init /\ [][Next]_vars /\ Fairness


(***************************************************************************)
(* Properties                                                              *)
(***************************************************************************)
TypeOK ==
    /\ onceState \in {"idle", "building", "done"}
    /\ DOMAIN cache \subseteq Requests
    /\ \A k \in DOMAIN cache : cache[k] \in Responses
    /\ pc \in [Procs -> {"idle", "once", "building", "build", "reset",
                         "lookup", "query", "store"}]
    /\ req \in [Procs -> Requests \cup {NoRequest}]
    /\ key \in [Procs -> Requests \cup {NoRequest}]
    /\ resp \in [Procs -> Responses \cup {NoResponse}]
    /\ answer \in [Procs -> [resp: Responses \cup {NoResponse},
                              err: Errors \cup {"none"}]]
    /\ requests \in 0..MaxRequests
    /\ resets \in 0..MaxRequests
    /\ version \in 0..MaxVersion

\* Whatever path a handler took (a cache hit, a refresh, a reset, a fresh
\* query), the response it returned answers the request it was given, up to
\* the cache-control flags: requestKey must tell apart every two requests
\* that the cache may not answer for one another (cluster and detail search,
\* different archives, different pages).
ServedMatchesRequest ==
    [][\A p \in Procs :
         (pc[p] # "idle" /\ pc'[p] = "idle" /\ answer'[p].err = "none")
            => answer'[p].resp.for = Canon(req[p])]_vars

\* The handlers use httpCache as spec 4.3 says a response cache may be used:
\* refinement of ResponseCache, with the canonical keys those of requests
\* without cache-control flags.
RC == INSTANCE ResponseCache WITH
    Keys <- {Key(r) : r \in {Canon(q) : q \in Requests}},
    Responses <- Responses,
    ResponseKey <- LAMBDA v : Key(v.for)

CacheRefinement == RC!Spec

\* Spec 4.3: cacheReset "discards and rebuilds the entire cache before the
\* request proceeds".  Expected of it: once a reset has happened, the cache
\* holds no response whose query was sent before that reset.
ResetDiscardsEarlierResponses ==
    \A k \in DOMAIN cache : cache[k].epoch = resets

\* Spec 5: a failed or cancelled index query "returns its error": no
\* handler panics on the error path of the Elasticsearch call.
QueryErrorReturned ==
    \A p \in Procs : answer[p].err # "Panic"

\* Spec 4.3: cacheRefresh forces a recompute and overwrites the entry.
\* Expected: the entry of a key is never overwritten by a response computed
\* from an older index than the one it holds, as a slower request that sent
\* its query before the refresh would (storeResponseInCache, line 734).
CacheNeverRegresses ==
    [][\A k \in DOMAIN cache \cap DOMAIN cache' :
         cache'[k].version >= cache[k].version]_vars

=============================================================================
