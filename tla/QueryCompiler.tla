--------------------------- MODULE QueryCompiler ---------------------------
(***************************************************************************)
(* The parts of query compilation in src/hub3/ead/search.go that decide    *)
(* something: isAdvancedSearch (946-968), which picks whether the query    *)
(* string gets the minimum-should-match relaxation (buildSearchRequest     *)
(* 324-326), the filter loop of PerformDetailSearch (800-821), and the     *)
(* collapse, sort and facet aggregations of PerformClusteredSearch         *)
(* (411-502).  Strings whose characters matter are sequences of            *)
(* one-character strings; a sort key is the token sequence RequestParser   *)
(* gives SortBy.                                                           *)
(***************************************************************************)
EXTENDS Integers, Sequences, SequencesExt

CONSTANTS
    Underscored,   \* sort key tokens that contain "_"
    BadFacets      \* facet fields fragments.NewFacetField or the aggregation builder rejects

Space == " "
Quote == "\""

AND == <<"A", "N", "D">>
OR  == <<"O", "R">>
NOT == <<"N", "O", "T">>

\* strings.Fields: the maximal runs of non-space characters, in order.
RECURSIVE FieldsFrom(_, _, _)
FieldsFrom(s, cur, acc) ==
    LET flushed == IF cur = <<>> THEN acc ELSE Append(acc, cur)
    IN IF s = <<>> THEN flushed
       ELSE IF Head(s) = Space THEN FieldsFrom(Tail(s), <<>>, flushed)
       ELSE FieldsFrom(Tail(s), Append(cur, Head(s)), acc)

Fields(s) == FieldsFrom(s, <<>>, <<>>)

\* Mutant of isAdvancedSearch: the HasSuffix(p, "\"") case is missing.
RECURSIVE isAdvancedSearchNoSuffix(_)
isAdvancedSearchNoSuffix(parts) ==
    IF parts = <<>> THEN FALSE
    ELSE LET p == Head(parts)
         IN IF p \in {AND, OR, NOT} \/ IsPrefix(<<"-">>, p) \/ IsPrefix(<<"+">>, p)
               \/ IsPrefix(<<Quote>>, p)
            THEN TRUE
            ELSE isAdvancedSearchNoSuffix(Tail(parts))

\* The loop over the fields with its cases, returning true at the first
\* field that is Lucene query-string syntax.
RECURSIVE isAdvancedSearch(_)
isAdvancedSearch(parts) ==
    IF parts = <<>> THEN FALSE
    ELSE LET p == Head(parts)
         IN IF \/ p = AND \/ p = OR \/ p = NOT
               \/ IsPrefix(<<"-">>, p) \/ IsPrefix(<<"+">>, p)
               \/ IsPrefix(<<Quote>>, p) \/ IsSuffix(<<Quote>>, p)
            THEN TRUE
            ELSE isAdvancedSearch(Tail(parts))

\* buildSearchRequest: a simple query string gets MinimumShouldMatch.
MinimumShouldMatchApplied(rawQuery) ==
    rawQuery # <<>> /\ ~isAdvancedSearch(Fields(rawQuery))

(***************************************************************************)
(* The filters of the detail search                                        *)
(***************************************************************************)
\* A QueryFilter: whether its SearchLabel starts with "tree.", its Exclude
\* flag, and whether qf.ElasticFilter() can translate it.
Filters == [tree : BOOLEAN, exclude : BOOLEAN, compiles : BOOLEAN]

\* Mutant of DetailPostFilter: the continue after MustNot is missing.
RECURSIVE DetailPostFilterNoContinue(_, _)
DetailPostFilterNoContinue(fs, pf) ==
    IF fs = <<>> THEN [ok |-> TRUE, pf |-> pf]
    ELSE LET f == Head(fs)
         IN IF f.tree
            THEN DetailPostFilterNoContinue(Tail(fs), [pf EXCEPT !.must = Append(@, f)])
            ELSE IF ~f.compiles THEN [ok |-> FALSE, pf |-> pf]
            ELSE LET pf2 == IF f.exclude THEN [pf EXCEPT !.mustNot = Append(@, f)] ELSE pf
                 IN DetailPostFilterNoContinue(Tail(fs), [pf2 EXCEPT !.must = Append(@, f)])

\* for _, qf := range req.Filters: a tree.* filter is a Must term query;
\* any other is translated (an error ends the handler), then MustNot if it
\* excludes, else Must.
RECURSIVE DetailPostFilter(_, _)
DetailPostFilter(fs, pf) ==
    IF fs = <<>> THEN [ok |-> TRUE, pf |-> pf]
    ELSE LET f == Head(fs)
         IN IF f.tree
            THEN DetailPostFilter(Tail(fs), [pf EXCEPT !.must = Append(@, f)])
            ELSE IF ~f.compiles THEN [ok |-> FALSE, pf |-> pf]
            ELSE IF f.exclude
                 THEN DetailPostFilter(Tail(fs), [pf EXCEPT !.mustNot = Append(@, f)])
            ELSE DetailPostFilter(Tail(fs), [pf EXCEPT !.must = Append(@, f)])

EmptyBoolQuery == [must |-> <<>>, mustNot |-> <<>>]


(***************************************************************************)
(* The cluster search (PerformClusteredSearch)                             *)
(***************************************************************************)
\* The facets appended to the requested ones (411-419).
DefaultFacets == <<"tree.hasDigitalObject", "tree.mimeType", "ead-rdf_genreform">>

ClusterFacetFields(sr) == sr.FacetFields \o DefaultFacets

\* Mutant of Collapse: the inner hits sorted on tree.sortKey.
CollapseSortKey == [field |-> "meta.spec", innerSize |-> 1, innerSort |-> "tree.sortKey"]

\* Collapse on meta.spec with one inner hit, the first on tree.inventoryID.
Collapse == [field |-> "meta.spec", innerSize |-> 1, innerSort |-> "tree.inventoryID"]

SortOf(kind, field, path, asc) ==
    [kind |-> kind, field |-> field, path |-> path, asc |-> asc]

NoSort == SortOf("none", <<>>, "", FALSE)

\* Mutant of SortClause: the underscore case is tested before "_score".
SortClauseUnderscoreFirst(sr) ==
    IF sr.SortBy = <<>> THEN NoSort
    ELSE IF \E i \in DOMAIN sr.SortBy : sr.SortBy[i] \in Underscored
         THEN SortOf("nested", sr.SortBy, sr.NestedSortField, sr.SortAsc)
    ELSE SortOf("field", sr.SortBy, "", sr.SortAsc)

\* if req.SortBy != "": the switch takes "_score" first, then a key with an
\* underscore as a sort on resources.entries.<NestedSortField> of the
\* entries whose searchLabel is the key, and any other key as a field sort.
SortClause(sr) ==
    IF sr.SortBy = <<>> THEN NoSort
    ELSE IF sr.SortBy = <<"_score">> THEN SortOf("field", sr.SortBy, "", sr.SortAsc)
    ELSE IF \E i \in DOMAIN sr.SortBy : sr.SortBy[i] \in Underscored
         THEN SortOf("nested", sr.SortBy, sr.NestedSortField, sr.SortAsc)
    ELSE SortOf("field", sr.SortBy, "", sr.SortAsc)

\* Mutant of AddFacetAggs: a facet that fails to build is skipped.
RECURSIVE AddFacetAggsSkipBad(_, _)
AddFacetAggsSkipBad(fields, aggs) ==
    IF fields = <<>> THEN [ok |-> TRUE, aggs |-> aggs]
    ELSE IF Head(fields) \in BadFacets THEN AddFacetAggsSkipBad(Tail(fields), aggs)
    ELSE AddFacetAggsSkipBad(Tail(fields), aggs \cup {Head(fields)})

\* for _, facetField := range req.FacetFields: a field the builders reject
\* ends the handler; s.Aggregation keys the aggregation by the field name,
\* so the aggregations are a set of names and a repeated field has one.
RECURSIVE AddFacetAggs(_, _)
AddFacetAggs(fields, aggs) ==
    IF fields = <<>> THEN [ok |-> TRUE, aggs |-> aggs]
    ELSE IF Head(fields) \in BadFacets THEN [ok |-> FALSE, aggs |-> aggs]
    ELSE AddFacetAggs(Tail(fields), aggs \cup {Head(fields)})

\* The search source built after the cache lookup: the collapse, the sort,
\* then the facet aggregations, whose failure is a FacetCompileError.
\* NewFacetURIBuilder and CreateFacetFilterQuery (fragments, not in src)
\* are taken to succeed on the filters the parser accepted.
BuildClusterSearch(sr) ==
    LET facets == AddFacetAggs(ClusterFacetFields(sr), {})
    IN [ok       |-> facets.ok,
        err      |-> IF facets.ok THEN "none" ELSE "FacetCompileError",
        collapse |-> Collapse,
        sort     |-> SortClause(sr),
        aggs     |-> facets.aggs]

=============================================================================
