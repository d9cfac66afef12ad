--------------------------- MODULE RequestParser ---------------------------
(***************************************************************************)
(* newSearchRequest of src/hub3/ead/search.go: it ranges over the query   *)
(* parameters (a Go map, url.Values) and applies one case of a switch per *)
(* parameter, returning at the first one that fails to parse.  Go ranges  *)
(* over a map in an unspecified, randomised order, so the outcomes of one *)
(* call are those of every order of the parameter names.                  *)
(*                                                                         *)
(* Raw values are tokens: a number is a token that IntOf maps to its       *)
(* value (strconv.Atoi fails on any other token); Lower gives the          *)
(* lower-case form strings.EqualFold compares; a sortBy value is the       *)
(* sequence of its prefixes and field name, so that HasPrefix and          *)
(* TrimPrefix act on it as on the string.                                  *)
(***************************************************************************)
EXTENDS Integers, Sequences, SequencesExt, FiniteSets, TLC

CONSTANTS
    IntOf,            \* numeric token -> its value, as strconv.Atoi reads it
    Lower,            \* token -> its lower-case form
    BadFilterValues   \* qf / qf.dateRange values their parser rejects

(***************************************************************************)
(* The SearchRequest built by newSearchRequest                             *)
(***************************************************************************)
DefaultRequest ==
    [Page |-> 1, Rows |-> 10, FacetSize |-> 50, FacetAndBoolType |-> FALSE,
     SortBy |-> <<>>, NestedSortField |-> "@value.keyword", SortAsc |-> FALSE,
     RawQuery |-> "", FacetFields |-> <<>>, Filters |-> <<>>,
     NoCache |-> FALSE, CacheRefresh |-> FALSE, CacheReset |-> FALSE]

NoRequest == [Page |-> 0]
NoError == [param |-> "", raw |-> ""]

Ok(sr) == [ok |-> TRUE, req |-> sr, err |-> NoError]
Err(p, v) == [ok |-> FALSE, req |-> NoRequest, err |-> [param |-> p, raw |-> v]]

\* url.Values.Get: the first value of the parameter.
Get(vs) == vs[1]

EqualFold(a, b) == Lower[a] = Lower[b]

\* rows and facet.size above 100 are silently clamped.
Clamp100(n) == IF n > 100 THEN 100 ELSE n

(***************************************************************************)
(* Filters (fragments.NewQueryFilter, NewDateRangeFilter)                  *)
(***************************************************************************)
\* A qf value parses into a term filter, a qf.dateRange value into a range
\* filter; a value the fragments parser rejects is an error.
ParseFilter(v, kind) == [raw |-> v, kind |-> kind]

\* Mutant of AddFilters: each qf case replaces Filters instead of appending.
RECURSIVE AddFiltersReplace(_, _, _, _)
AddFiltersReplace(sr, p, vs, kind) ==
    IF vs = <<>> THEN Ok(sr)
    ELSE IF Head(vs) \in BadFilterValues THEN Err(p, Head(vs))
    ELSE AddFiltersReplace([sr EXCEPT !.Filters = <<ParseFilter(Head(vs), kind)>>],
                           p, Tail(vs), kind)

\* for _, filter := range v { qf, err := ...; if err != nil return; append }
RECURSIVE AddFilters(_, _, _, _)
AddFilters(sr, p, vs, kind) ==
    IF vs = <<>> THEN Ok(sr)
    ELSE IF Head(vs) \in BadFilterValues THEN Err(p, Head(vs))
    ELSE AddFilters([sr EXCEPT !.Filters = Append(@, ParseFilter(Head(vs), kind))],
                    p, Tail(vs), kind)

(***************************************************************************)
(* One case of the switch                                                  *)
(***************************************************************************)
\* rows / facet.size: Atoi, then the clamp.
SetSize(sr, p, v, field) ==
    IF v \notin DOMAIN IntOf THEN Err(p, v)
    ELSE Ok([sr EXCEPT ![field] = Clamp100(IntOf[v])])

\* page: Atoi, and 0 is refused; any other integer is taken.
SetPage(sr, p, v) ==
    IF v \notin DOMAIN IntOf \/ IntOf[v] = 0 THEN Err(p, v)
    ELSE Ok([sr EXCEPT !.Page = IntOf[v]])

\* sortBy: a leading "^" sets SortAsc, then a leading "int." switches the
\* nested sort field; both prefixes are stripped in that order.
SetSort(sr, raw) ==
    LET asc  == IsPrefix(<<"^">>, raw)
        k1   == IF asc THEN Tail(raw) ELSE raw
        int  == IsPrefix(<<"int.">>, k1)
        k2   == IF int THEN Tail(k1) ELSE k1
    IN Ok([sr EXCEPT !.SortAsc = asc \/ @,
                     !.NestedSortField = IF int THEN "integer" ELSE @,
                     !.SortBy = k2])

Apply(sr, p, vs) ==
    CASE p \in {"rows"}        -> SetSize(sr, p, Get(vs), "Rows")
      [] p \in {"facet.size"}  -> SetSize(sr, p, Get(vs), "FacetSize")
      [] p \in {"FacetBoolType"} ->
            IF Get(vs) = "" THEN Ok(sr)
            ELSE Ok([sr EXCEPT !.FacetAndBoolType = EqualFold(Get(vs), "and")])
      [] p \in {"page"}        -> SetPage(sr, p, Get(vs))
      [] p \in {"sortBy"}      -> SetSort(sr, Get(vs))
      [] p \in {"q", "query"}  -> Ok([sr EXCEPT !.RawQuery = Get(vs)])
      [] p \in {"facet.field"} -> Ok([sr EXCEPT !.FacetFields = vs])
      [] p \in {"qf", "qf[]"}  -> AddFilters(sr, p, vs, "term")
      [] p \in {"qf.dateRange", "qf.dateRange[]"} ->
            AddFilters(sr, p, vs, "dateRange")
      [] p \in {"noCache"}     -> Ok([sr EXCEPT !.NoCache = EqualFold(Get(vs), "true")])
      [] p \in {"cacheRefresh"} ->
            Ok([sr EXCEPT !.CacheRefresh = EqualFold(Get(vs), "true")])
      [] p \in {"cacheReset"}  -> Ok([sr EXCEPT !.CacheReset = EqualFold(Get(vs), "true")])
      [] OTHER                 -> Ok(sr)

\* The loop, in one order of the parameter names, stopping at an error.
RECURSIVE ParseInOrder(_, _, _)
ParseInOrder(sr, params, order) ==
    IF order = <<>> THEN Ok(sr)
    ELSE LET r == Apply(sr, Head(order), params[Head(order)])
         IN IF r.ok THEN ParseInOrder(r.req, params, Tail(order)) ELSE r

\* Every outcome newSearchRequest(params) can have.
newSearchRequest(params) ==
    {ParseInOrder(DefaultRequest, params, o) : o \in SetToSeqs(DOMAIN params)}

(***************************************************************************)
(* Relations between outcomes                                              *)
(***************************************************************************)
\* The request without its cache-control flags: what requestKey hashes once
\* the handler has cleared cacheReset and cacheRefresh.
KeyFields(sr) == [sr EXCEPT !.NoCache = FALSE, !.CacheRefresh = FALSE,
                            !.CacheReset = FALSE]

\* Equal except for RawQuery and the order of Filters.
SameUpToQueryAndFilterOrder(a, b) ==
    /\ [a EXCEPT !.RawQuery = "", !.Filters = <<>>]
        = [b EXCEPT !.RawQuery = "", !.Filters = <<>>]
    /\ ToBag(a.Filters) = ToBag(b.Filters)

=============================================================================
