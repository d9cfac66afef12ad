--------------------------- MODULE ResponseCache ---------------------------
(***************************************************************************)
(* What the EAD search handlers promise of the process-wide response      *)
(* cache (spec 4.3): it maps a canonical request key to a response; a     *)
(* response is only ever stored under the key of the request it answers,  *)
(* a key never carries a cache-control flag, and a response with no hits  *)
(* is never stored.  Entries may disappear at any time (lifetime window,  *)
(* size limit) and a reset empties the whole cache.                       *)
(***************************************************************************)
EXTENDS Functions, TLC

CONSTANTS
    Keys,            \* the canonical keys: no cache-control flag set
    Responses,       \* every response a search can produce
    ResponseKey(_)   \* the key of the request a response answers

VARIABLE cache       \* key -> response, a partial function

EmptyCache == [k \in {} |-> CHOOSE r \in Responses : TRUE]

Init == cache = EmptyCache

\* A successful, non-empty response is stored under its own canonical key.
Put(k, v) ==
    /\ v.hits > 0
    /\ k = ResponseKey(v)
    /\ cache' = (k :> v) @@ cache

\* The cache may drop any entry.
Drop(k) ==
    /\ k \in DOMAIN cache
    /\ cache' = Restrict(cache, DOMAIN cache \ {k})

\* A reset replaces the whole cache by an empty one.
Reset == cache' = EmptyCache

Next ==
    \/ \E k \in Keys, v \in Responses : Put(k, v)
    \/ \E k \in Keys : Drop(k)
    \/ Reset

Spec == Init /\ [][Next]_cache

=============================================================================
