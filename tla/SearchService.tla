--------------------------- MODULE SearchService ---------------------------
(***************************************************************************)
(* The search handlers (EadSearch) composed with the Elasticsearch client  *)
(* they run on (EsClient).  buildSearchRequest starts with                 *)
(* index.ESClient() (search.go 288), so every request that gets past       *)
(* once.Do first obtains the package client, possibly building it; the    *)
(* handler's Elasticsearch call (Do, lines 518 and 823) then runs through  *)
(* that client's request loop and its retrier, and the handler's query     *)
(* step ends as the loop does: with a result, with the error the retrier   *)
(* gave up on, or with a panic on a nil client.  A panic does not end the  *)
(* process: negroni's Recovery middleware (server/http/server.go 160-162)  *)
(* answers it with a 500 and the goroutine serves the next request.        *)
(*                                                                         *)
(* Each goroutine takes steps of one component at a time; the variables of *)
(* the other stay unchanged.                                               *)
(***************************************************************************)
EXTENDS Integers, FiniteSets

CONSTANTS
    Procs, Archives, NoID, Pages, RowsValues,       \* as in EadSearch
    MaxCount, MaxHits, MaxRequests, MaxVersion,
    Nil, MaxAttempts                                \* as in EsClient

VARIABLES
    onceState, cache, pc, req, key, resp, answer, requests, resets, version,
    client, built, esUp, cpc, local, attempts, lastErr, queries

hvars == <<onceState, cache, pc, req, key, resp, answer, requests, resets, version>>
cvars == <<client, built, esUp, cpc, local, attempts, lastErr, queries>>
vars == <<hvars, cvars>>

H == INSTANCE EadSearch
C == INSTANCE EsClient WITH pc <- cpc, requests <- queries

(***************************************************************************)
(* A goroutine's steps                                                     *)
(***************************************************************************)
\* The handler is done with the client it got from ESClient().
Release(p) ==
    /\ cpc' = [cpc EXCEPT ![p] = "idle"]
    /\ local' = [local EXCEPT ![p] = Nil]
    /\ attempts' = [attempts EXCEPT ![p] = 0]
    /\ lastErr' = [lastErr EXCEPT ![p] = C!NoErr]
    /\ UNCHANGED <<client, built, esUp, queries>>

\* buildSearchRequest calls index.ESClient() ...
GetClient(p) == pc[p] = "build" /\ C!Start(p) /\ UNCHANGED hvars

\* ... which checks, and may build, the package client.
ClientInit(p) ==
    /\ C!CheckClient(p) \/ C!CreateCheck(p) \/ C!NewClient(p)
    /\ UNCHANGED hvars

\* With the client in hand, newSearchRequest parses the parameters.
ParseOk(p) == cpc[p] = "query" /\ H!ParseOk(p) /\ UNCHANGED cvars

ParseFails(p) == cpc[p] = "query" /\ H!ParseFails(p) /\ Release(p)

\* A cache hit returns without using the client.
LookupHit(p) == H!LookupHit(p) /\ Release(p)

\* The handler steps that do not touch the client.
HandlerLocal(p) ==
    /\ \/ H!OnceFirst(p) \/ H!OnceDone(p) \/ H!NewBigCache(p)
       \/ H!CacheReset(p) \/ H!LookupMiss(p) \/ H!StoreResponse(p)
    /\ UNCHANGED cvars

\* Do(ctx): the client's request loop, attempt by attempt.
Query(p) ==
    /\ pc[p] = "query"
    /\ C!Attempt(p) \/ C!AskRetrier(p)
    /\ UNCHANGED hvars

\* The loop returned a response: the handler decodes it.
Answered(p) == cpc[p] = "ok" /\ H!QueryOk(p) /\ Release(p)

\* The retrier stopped or failed: Do returns the last error.
GaveUp(p) == cpc[p] = "error" /\ H!QueryFails(p) /\ Release(p)

\* Do dereferenced the nil client, in either handler; Recovery answers 500.
Crashed(p) ==
    /\ cpc[p] = "panic"
    /\ pc[p] = "query"
    /\ H!Fail(p, "Panic")
    /\ UNCHANGED <<onceState, cache, requests, resets, version>>
    /\ Release(p)

Step(p) ==
    \/ HandlerLocal(p) \/ GetClient(p) \/ ClientInit(p)
    \/ ParseOk(p) \/ ParseFails(p) \/ LookupHit(p)
    \/ Query(p) \/ Answered(p) \/ GaveUp(p) \/ Crashed(p)

(***************************************************************************)
(* The environment: requests arrive, bigcache evicts, indexing changes the *)
(* index, the cluster fails and recovers.                                  *)
(***************************************************************************)
Arrive(p) == H!Arrive(p) /\ UNCHANGED cvars

Evict(k) == H!Evict(k) /\ UNCHANGED cvars

Reindex == H!Reindex /\ UNCHANGED cvars

ClusterDown == C!ClusterDown /\ UNCHANGED hvars

ClusterUp == C!ClusterUp /\ UNCHANGED hvars

Environment ==
    \/ \E k \in DOMAIN cache : Evict(k)
    \/ Reindex \/ ClusterDown \/ ClusterUp

Init == H!Init /\ C!Init

Next == (\E p \in Procs : Arrive(p) \/ Step(p)) \/ Environment

\* Every goroutine with a request in hand is scheduled; arrivals, eviction,
\* indexing and the cluster need not do anything.
Spec == Init /\ [][Next]_vars /\ \A p \in Procs : WF_vars(Step(p))

(***************************************************************************)
(* Properties                                                              *)
(***************************************************************************)
\* "set custom retrier that tries 5 times" (elasticsearch.go 67): a handler's
\* Elasticsearch call is attempted at most 5 times, however long the cluster
\* stays down.
QueryTriesAtMostFive == C!QueryTriesAtMostFive

\* Every request a handler takes on is answered (a response, an error or a
\* recovered panic), whatever the cluster does meanwhile: once.Do completes,
\* and the retrier ends the request loop of a query against a down cluster.
RequestsAnswered == \A p \in Procs : pc[p] # "idle" ~> pc[p] = "idle"

=============================================================================
