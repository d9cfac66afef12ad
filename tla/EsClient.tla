------------------------------ MODULE EsClient ------------------------------
(***************************************************************************)
(* The Elasticsearch client of src/hub3/index/elasticsearch.go, as the    *)
(* search handlers use it: every request goroutine calls ESClient()       *)
(* (buildSearchRequest, search.go 288), which builds the process-wide     *)
(* client on first use without any lock, and then runs its query through  *)
(* the client, whose request loop asks CustomRetrier.Retry after every    *)
(* failed attempt whether to try again.                                    *)
(*                                                                         *)
(* The environment: the cluster goes down and comes back at any time; a   *)
(* client can only be constructed while it is up (elastic.NewClient runs *)
(* a health check and fails when no node answers); an attempt against a   *)
(* down cluster fails with the transport error wrapped in *url.Error, the *)
(* form in which the client's request loop hands it to the retrier; that  *)
(* loop counts failed attempts from 1 and stops when Retry says so.       *)
(***************************************************************************)
EXTENDS Integers, FiniteSets

CONSTANTS
    Procs,          \* request goroutines
    Nil,            \* the nil *elastic.Client
    MaxRequests,    \* bound on the requests of a run
    MaxAttempts     \* bound on the attempts of one query (see Retry)

VARIABLES
    client,     \* the package variable client: Nil or the n-th client built
    built,      \* clients constructed so far (each starts a health checker)
    esUp,       \* whether the cluster answers
    pc,         \* goroutine -> where it is
    local,      \* goroutine -> the client ESClient returned to it
    attempts,   \* goroutine -> failed attempts of its current query
    lastErr,    \* goroutine -> the error of its last failed attempt
    requests    \* requests started

vars == <<client, built, esUp, pc, local, attempts, lastErr, requests>>

Clients == {Nil} \cup (1..(MaxRequests + 1))

\* syscall.ECONNREFUSED, and the errors the request loop passes to Retry.
ECONNREFUSED == [op |-> "errno", cause |-> "refused"]
NoErr        == [op |-> "none", cause |-> "none"]
URLError(cause) == [op |-> "url.Error", cause |-> cause]
Errors == {NoErr, ECONNREFUSED} \cup {URLError(c) : c \in {"refused", "timeout"}}

(***************************************************************************)
(* CustomRetrier                                                           *)
(***************************************************************************)
\* elastic.NewExponentialBackoff(10ms, 8s).Next(retry): a delay of
\* r * 10ms * 2^retry for a random r in [1,2], and stop once it reaches 8s.
BackoffNext(retry) == \E r \in {1, 2} : r * 10 * 2^retry < 8000

\* Mutant of Retry: the retry limit is checked with > instead of >=.
RetryOffByOne(retry, err) ==
    IF err = ECONNREFUSED THEN "fail"
    ELSE IF retry > 5 THEN "stop"
    ELSE IF BackoffNext(retry) THEN "retry" ELSE "stop"

\* Mutant of Retry: no limit and no backoff stop.
RetryForever(retry, err) == "retry"

\* Retry: fail hard on ECONNREFUSED, stop after 5 retries, otherwise let the
\* backoff decide.
Retry(retry, err) ==
    IF err = ECONNREFUSED THEN "fail"
    ELSE IF retry >= 5 THEN "stop"
    ELSE IF BackoffNext(retry) THEN "retry" ELSE "stop"

(***************************************************************************)
(* ESClient and createESClient                                             *)
(***************************************************************************)
\* A request handler calls buildSearchRequest and so ESClient().
Start(p) ==
    /\ pc[p] = "idle"
    /\ requests < MaxRequests
    /\ requests' = requests + 1
    /\ pc' = [pc EXCEPT ![p] = "check"]
    /\ UNCHANGED <<client, built, esUp, local, attempts, lastErr>>

\* ESClient: if client == nil, create it; else return it.
CheckClient(p) ==
    /\ pc[p] = "check"
    /\ IF client = Nil
       THEN /\ pc' = [pc EXCEPT ![p] = "create"]
            /\ UNCHANGED local
       ELSE /\ pc' = [pc EXCEPT ![p] = "query"]
            /\ local' = [local EXCEPT ![p] = client]
    /\ UNCHANGED <<client, built, esUp, attempts, lastErr, requests>>

\* createESClient: the options, then the second client == nil check.
CreateCheck(p) ==
    /\ pc[p] = "create"
    /\ IF client = Nil
       THEN /\ pc' = [pc EXCEPT ![p] = "connect"]
            /\ UNCHANGED local
       ELSE /\ pc' = [pc EXCEPT ![p] = "query"]
            /\ local' = [local EXCEPT ![p] = client]
    /\ UNCHANGED <<client, built, esUp, attempts, lastErr, requests>>

\* elastic.NewClient: a new client if the cluster answers its health check,
\* else nil and an error that is only printed; client = c, and ESClient
\* assigns the same value again and returns it.
NewClient(p) ==
    /\ pc[p] = "connect"
    /\ LET c == IF esUp THEN built + 1 ELSE Nil
       IN /\ client' = c
          /\ local' = [local EXCEPT ![p] = c]
    /\ built' = IF esUp THEN built + 1 ELSE built
    /\ pc' = [pc EXCEPT ![p] = "query"]
    /\ UNCHANGED <<esUp, attempts, lastErr, requests>>

(***************************************************************************)
(* The query through the client                                            *)
(***************************************************************************)
\* One attempt of the request loop: it succeeds against a live cluster; on
\* a nil client, Do's PerformRequest dereferences the client and the
\* goroutine panics.
Attempt(p) ==
    /\ pc[p] = "query"
    /\ IF local[p] = Nil
       THEN /\ pc' = [pc EXCEPT ![p] = "panic"]
            /\ UNCHANGED <<attempts, lastErr>>
       ELSE IF esUp
       THEN /\ pc' = [pc EXCEPT ![p] = "ok"]
            /\ UNCHANGED <<attempts, lastErr>>
       ELSE \E cause \in {"refused", "timeout"} :
            /\ attempts[p] < MaxAttempts
            /\ attempts' = [attempts EXCEPT ![p] = @ + 1]
            /\ lastErr' = [lastErr EXCEPT ![p] = URLError(cause)]
            /\ pc' = [pc EXCEPT ![p] = "retrier"]
    /\ UNCHANGED <<client, built, esUp, local, requests>>

\* The loop asks the retrier and waits, stops, or fails.
AskRetrier(p) ==
    /\ pc[p] = "retrier"
    /\ pc' = [pc EXCEPT ![p] =
                IF Retry(attempts[p], lastErr[p]) = "retry" THEN "query" ELSE "error"]
    /\ UNCHANGED <<client, built, esUp, local, attempts, lastErr, requests>>

\* The handler returns; the goroutine serves the next request.
Finish(p) ==
    /\ pc[p] \in {"ok", "error", "panic"}
    /\ pc' = [pc EXCEPT ![p] = "idle"]
    /\ attempts' = [attempts EXCEPT ![p] = 0]
    /\ lastErr' = [lastErr EXCEPT ![p] = NoErr]
    /\ local' = [local EXCEPT ![p] = Nil]
    /\ UNCHANGED <<client, built, esUp, requests>>

\* The cluster fails or recovers.
ClusterDown == esUp /\ esUp' = FALSE /\ UNCHANGED <<client, built, pc, local, attempts, lastErr, requests>>
ClusterUp == ~esUp /\ esUp' = TRUE /\ UNCHANGED <<client, built, pc, local, attempts, lastErr, requests>>

Init ==
    /\ client = Nil
    /\ built = 0
    /\ esUp \in BOOLEAN
    /\ pc = [p \in Procs |-> "idle"]
    /\ local = [p \in Procs |-> Nil]
    /\ attempts = [p \in Procs |-> 0]
    /\ lastErr = [p \in Procs |-> NoErr]
    /\ requests = 0

Step(p) ==
    \/ CheckClient(p) \/ CreateCheck(p) \/ NewClient(p)
    \/ Attempt(p) \/ AskRetrier(p) \/ Finish(p)

Next ==
    \/ \E p \in Procs : Start(p) \/ Step(p)
    \/ ClusterDown \/ ClusterUp

\* The Go scheduler runs every runnable goroutine; the cluster and the
\* clients are not obliged to do anything.
Spec == Init /\ [][Next]_vars /\ \A p \in Procs : WF_vars(Step(p))

(***************************************************************************)
(* Properties                                                              *)
(***************************************************************************)
TypeOK ==
    /\ client \in Clients /\ built \in 0..MaxRequests /\ esUp \in BOOLEAN
    /\ pc \in [Procs -> {"idle", "check", "create", "connect", "query",
                         "retrier", "ok", "error", "panic"}]
    /\ local \in [Procs -> Clients]
    /\ attempts \in [Procs -> 0..MaxAttempts]
    /\ lastErr \in [Procs -> Errors]

\* "set custom retrier that tries 5 times" (line 67): however long the
\* cluster stays down, a query is attempted at most 5 times, the first try
\* and the retries the request loop makes with retry = 1..4.  This is the
\* reading the code implements; FiveRetriesBeforeStop states the other.
QueryTriesAtMostFive == \A p \in Procs : attempts[p] <= 5

\* "Stop after 5 retries" (line 110): a query the retrier stopped had been
\* retried 5 times after its first attempt, 6 attempts in all.
FiveRetriesBeforeStop ==
    \A p \in Procs : (pc[p] = "error" /\ lastErr[p] # ECONNREFUSED) => attempts[p] >= 6

\* "Fail hard on a specific error" (line 105): a query whose attempt was
\* refused by the cluster is not retried.
RefusedNotRetried ==
    [][\A p \in Procs :
         (pc[p] = "retrier" /\ lastErr[p].cause = "refused") => pc'[p] # "query"]_vars

\* Once the package client is set it stays the client every request uses:
\* no second client replaces it, and it is never reset to nil.
ClientNeverReplaced == [][client # Nil => client' = client]_vars

\* A request that reaches its query (Do, search.go 518 and 823) holds a
\* client: ESClient never hands a nil client to buildSearchRequest.
NoQueryOnNilClient == \A p \in Procs : pc[p] = "query" => local[p] # Nil

=============================================================================
