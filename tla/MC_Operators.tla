---------------------------- MODULE MC_Operators ----------------------------
(***************************************************************************)
(* Checks the pure operators of src/hub3/ead/search.go over bounded       *)
(* inputs.  Each initial state is one input of one operator family, which *)
(* the model keeps (Next changes nothing); the other families' variables  *)
(* hold fixed placeholder values, and each property is about the family   *)
(* it names.                                                               *)
(*   pagination: getCursor, getPageCount and the page check;              *)
(*   parser:     newSearchRequest on a query string, in every map order;  *)
(*   query:      isAdvancedSearch on a raw query;                         *)
(*   filters:    the post-filter loop of the detail search;               *)
(*   cluster:    the decoding of a clustered search result.               *)
(***************************************************************************)
EXTENDS RequestParser, ResultAssembler, QueryCompiler

CONSTANTS
    MaxTotal, MaxRows, MaxPage,          \* pagination bounds
    MaxParams,                           \* parameters of a query string
    MaxLen, MaxFilters,                  \* raw query length, detail filters
    a1, a2, OtherLabel, FreeText, PageValues, RowsChoices   \* cluster inputs

VARIABLES
    family,                              \* which operator the state is an input of
    total, rows, page,                   \* pagination
    params,                              \* parser
    q, fs,                               \* query, filters
    sr, corpus, ranking, datasets, tail  \* cluster

vars == <<family, total, rows, page, params, q, fs, sr, corpus, ranking, datasets, tail>>

(***************************************************************************)
(* Inputs                                                                  *)
(***************************************************************************)
\* The values the query strings of the model give each parameter name.
ParamValues ==
    "rows"             :> {<<"150">>, <<"0">>, <<"-1">>, <<"x">>} @@
    "facet.size"       :> {<<"150">>, <<"x">>} @@
    "FacetBoolType"    :> {<<"">>, <<"AND">>, <<"or">>} @@
    "page"             :> {<<"2">>, <<"0">>, <<"-1">>, <<"x">>} @@
    "sortBy"           :> {<<<<"^", "int.", "date_x">>>>, <<<<"int.", "^", "title">>>>,
                           <<<<"_score">>>>, <<<<"^", "_score">>>>, <<<<"title">>>>} @@
    "q"                :> {<<"a">>} @@
    "query"            :> {<<"b">>} @@
    "facet.field"      :> {<<"f1", "f2">>, <<"f1", "badf">>, <<"tree.mimeType">>} @@
    "qf"               :> {<<"t1">>, <<"t1", "bad">>} @@
    "qf[]"             :> {<<"t2">>} @@
    "qf.dateRange"     :> {<<"d1">>, <<"bad">>} @@
    "qf.dateRange[]"   :> {<<"d2">>} @@
    "noCache"          :> {<<"True">>} @@
    "cacheRefresh"     :> {<<"true">>, <<"no">>} @@
    "cacheReset"       :> {<<"TRUE">>} @@
    "explain"          :> {<<"true">>}

MCIntOf == "150" :> 150 @@ "0" :> 0 @@ "-1" :> -1 @@ "2" :> 2

MCLower == "" :> "" @@ "AND" :> "and" @@ "or" :> "or" @@ "True" :> "true"
           @@ "true" :> "true" @@ "no" :> "no" @@ "TRUE" :> "true" @@ "and" :> "and"

\* Every map from the names in S to one of their values.
RECURSIVE MapsOver(_)
MapsOver(S) ==
    IF S = {} THEN {<<>>}
    ELSE LET n == CHOOSE n \in S : TRUE
         IN {(n :> v) @@ m : v \in ParamValues[n], m \in MapsOver(S \ {n})}

QueryStrings ==
    UNION {MapsOver(S) : S \in {T \in SUBSET DOMAIN ParamValues :
                                    Cardinality(T) <= MaxParams}}

\* Raw queries over an alphabet that spells the operators, the prefixes and
\* the quote.
Chars == {"A", "N", "D", "O", "R", "T", "-", "+", Quote, "x", Space}

MCArchives == {a1, a2}

ClusterRequests ==
    [Rows : RowsChoices, Page : PageValues, RawQuery : {"", FreeText},
     Filters : {<<>>, <<PeriodDesc>>, <<OtherLabel>>}, Service : BOOLEAN]

\* Without filters the post-filter removes nothing.
Consistent(r, c) == r.Filters = <<>> => \A a \in Archives : c[a].desc # "filtered"

\* The placeholder values of each family's variables.
NoPagination == total = 0 /\ rows = 1 /\ page = 1
NoParams     == params = <<>>
NoQuery      == q = <<>> /\ fs = <<>>
NoCluster    == sr = "none" /\ corpus = "none" /\ ranking = <<>>
                /\ datasets = "none" /\ tail = "none"

Init ==
    \/ /\ family = "pagination"
       /\ total \in 0..MaxTotal /\ rows \in 1..MaxRows /\ page \in 1..MaxPage
       /\ NoParams /\ NoQuery /\ NoCluster
    \/ /\ family = "parser"
       /\ params \in QueryStrings
       /\ NoPagination /\ NoQuery /\ NoCluster
    \/ /\ family = "query"
       /\ q \in UNION {[1..n -> Chars] : n \in 1..MaxLen} /\ fs = <<>>
       /\ NoPagination /\ NoParams /\ NoCluster
    \/ /\ family = "filters"
       /\ fs \in UNION {[1..n -> Filters] : n \in 1..MaxFilters} /\ q = <<>>
       /\ NoPagination /\ NoParams /\ NoCluster
    \/ /\ family = "cluster"
       /\ sr \in ClusterRequests
       /\ corpus \in {c \in Corpora : Consistent(sr, c)}
       /\ ranking \in SetToSeqs(Groups(corpus, TagClause(TRUE, sr)))
       /\ datasets \in [Archives -> DatasetOutcomes]
       /\ tail \in {"none", "service", "facets"}
       /\ NoPagination /\ NoParams /\ NoQuery

Next == UNCHANGED vars

Spec == Init /\ [][Next]_vars

(***************************************************************************)
(* Pagination                                                              *)
(***************************************************************************)
\* getPageCount is the ceiling of total / rows (spec 4.4): the last page is
\* the one that holds the last item.
PageCountIsCeiling ==
    family = "pagination" => getPageCount(total, rows) = CeilingPages(total, rows)

\* The page check accepts exactly the pages 1..totalPages, plus one empty
\* page past the last when total is a multiple of rows (page 1 of an empty
\* result included): the check is cursor > total, not cursor >= total.
PageCheckMatchesPageCount ==
    family = "pagination" =>
        (PageAccepted(total, rows, page)
            <=> page <= getPageCount(total, rows)
                        + (IF total % rows = 0 THEN 1 ELSE 0))

\* A detail search pages through an archive: requesting pages 1 to
\* totalPages of the same search, with the totalPages the first page
\* reports, succeeds for every page, and their CLevels together are every
\* matching c-level exactly once, in tree.sortKey order.
DetailPagesPartitionLevels ==
    family = "pagination" =>
        LET levels == [i \in 1..total |-> i]
            At(pg) == AssembleDetail([Rows |-> rows, Page |-> pg], levels, TRUE)
            pages  == At(1).resp.TotalPages
        IN /\ \A pg \in 1..pages : At(pg).ok
           /\ FlattenSeq([pg \in 1..pages |-> At(pg).resp.CLevels]) = levels

(***************************************************************************)
(* newSearchRequest                                                        *)
(***************************************************************************)
Outcomes == newSearchRequest(params)

\* Whether a request parses does not depend on the order Go ranges over its
\* parameters, and the only parts of the parsed request that do are the raw
\* query (q and query both given) and the order of the filters (qf and
\* qf.dateRange both given).
ParseOutcomeOrderIndependent ==
    family = "parser" =>
        \A a, b \in Outcomes :
            /\ a.ok = b.ok
            /\ a.ok => SameUpToQueryAndFilterOrder(a.req, b.req)

\* Spec 8: requests with identical fields "modulo cache-control flags and
\* key ordering produce identical cache keys": one query string always
\* parses to the same cache key.
SameParamsSameKey ==
    family = "parser" =>
        \A a, b \in Outcomes :
            (a.ok /\ b.ok) => KeyFields(a.req) = KeyFields(b.req)

\* Spec 3 and 4.1: after parsing, page >= 1 and rows, facetSize in [1,100].
ParsedRequestInBounds ==
    family = "parser" =>
        \A a \in Outcomes :
            a.ok => /\ a.req.Page >= 1
                    /\ a.req.Rows \in 1..100
                    /\ a.req.FacetSize \in 1..100

(***************************************************************************)
(* The cluster search built from a parsed request                          *)
(***************************************************************************)
\* The first raw value of a parameter of the query string, or none.
RawParam(n) == IF n \in DOMAIN params THEN params[n] ELSE <<>>

\* Spec 4.1 and 4.2 read from the raw sortBy value: a leading "^" sets
\* ascending and a then leading "int." the integer nested field, each
\* stripped; "_score" is relevance order, a key with an underscore a nested
\* sort on the entries labelled with it, any other key its literal field.
SpecSort(raw) ==
    LET asc  == raw # <<>> /\ raw[1] = "^"
        k1   == IF asc THEN Tail(raw) ELSE raw
        int  == k1 # <<>> /\ k1[1] = "int."
        key  == IF int THEN Tail(k1) ELSE k1
        nested == IF int THEN "integer" ELSE "@value.keyword"
    IN CASE key = <<>>                        -> NoSort
         [] key = <<"_score">>                -> SortOf("field", key, "", asc)
         [] ToSet(key) \cap Underscored # {}  -> SortOf("nested", key, nested, asc)
         [] OTHER                             -> SortOf("field", key, "", asc)

\* A parsed cluster request compiles as spec 4.2 says: it fails exactly
\* when a requested facet cannot be built; otherwise it aggregates every
\* requested facet and the three default ones, and it sorts as the raw
\* sortBy value asks (spec 4.1), whatever order the parameters were applied in.
ClusterSearchAsSpecified ==
    family = "parser" =>
        \A o \in Outcomes : o.ok =>
            LET b         == BuildClusterSearch(o.req)
                requested == IF RawParam("facet.field") = <<>> THEN {}
                             ELSE ToSet(RawParam("facet.field"))
                rawSort   == IF RawParam("sortBy") = <<>> THEN <<>>
                             ELSE RawParam("sortBy")[1]
            IN /\ b.ok <=> requested \cap BadFacets = {}
               /\ b.ok => b.aggs = requested \cup ToSet(DefaultFacets)
               /\ b.sort = SpecSort(rawSort)

(***************************************************************************)
(* isAdvancedSearch and the detail post-filter                             *)
(***************************************************************************)
\* Spec 4.2: a raw query is advanced if any whitespace-delimited token
\* equals AND/OR/NOT, starts with + or -, or starts or ends with a double
\* quote (the tokens are the maximal runs of non-space characters).
MaximalTokens(s) ==
    {SubSeq(s, i, j) : <<i, j>> \in
        {ij \in (1..Len(s)) \X (1..Len(s)) :
            /\ ij[1] <= ij[2]
            /\ \A k \in ij[1]..ij[2] : s[k] # Space
            /\ ij[1] = 1 \/ s[ij[1] - 1] = Space
            /\ ij[2] = Len(s) \/ s[ij[2] + 1] = Space}}
SpecAdvanced(s) ==
    \E t \in MaximalTokens(s) :
        t \in {AND, OR, NOT} \/ t[1] \in {"+", "-", Quote} \/ t[Len(t)] = Quote

\* isAdvancedSearch over strings.Fields decides advanced-query syntax as the
\* spec defines it, so exactly the simple queries get the
\* minimum-should-match relaxation (spec 9: "a AND b", "-excluded" and
\* "\"phrase\"" are advanced, "simple" is not).
AdvancedDetectionMatchesSpec ==
    family = "query" => (MinimumShouldMatchApplied(q) <=> ~SpecAdvanced(q))

\* Spec 4.2: every filter of a detail search becomes exactly one clause:
\* a MustNot clause for an excluded sub-document filter, a Must clause for
\* any other, and a filter that cannot be translated fails the request.
EachFilterOneClause ==
    family = "filters" =>
        LET r == DetailPostFilter(fs, EmptyBoolQuery)
        IN /\ r.ok <=> \A i \in DOMAIN fs : fs[i].tree \/ fs[i].compiles
           /\ r.ok =>
                /\ Len(r.pf.must) + Len(r.pf.mustNot) = Len(fs)
                /\ ToSet(r.pf.mustNot)
                     = {fs[i] : i \in {j \in DOMAIN fs : ~fs[j].tree /\ fs[j].exclude}}

(***************************************************************************)
(* Cluster result decoding                                                 *)
(***************************************************************************)
Result ==
    AssembleCluster(sr, EsResult(corpus, TagClause(TRUE, sr), ranking, sr),
                    datasets, tail)

\* totalHits is totalClevelCount + totalDescriptionCount (spec 4.4), although
\* the code sums them (line 589) before it zeroes the description count when
\* description search is off (line 702): the tag clause of buildSearchRequest
\* must keep every eadDesc document out of the unfiltered bucket then.
TotalHitsIsSum ==
    family = "cluster" /\ Result.ok =>
        Result.resp.TotalHits
            = Result.resp.TotalClevelCount + Result.resp.TotalDescriptionCount

\* Each Archive's cLevelCount is the number of its matching c-levels: the
\* root node, which the collapse inner hits count too, is taken off (line
\* 649) exactly when it is in the group, which relies on the collapse's
\* inner sort on tree.inventoryID (451) putting the root node first.
ArchiveLevelCountsExact ==
    family = "cluster" /\ Result.ok =>
        \A i \in DOMAIN Result.resp.Archives :
            LET arc == Result.resp.Archives[i]
            IN arc.CLevelCount = corpus[arc.InventoryID].levels


\* A cluster search pages through the archives: when every dataset lookup
\* and description match succeeds, requesting pages 1 to totalPages of the
\* same search succeeds for every page, and their Archives together are
\* every collapse group exactly once, in ranking order.
ClusterPagesPartitionArchives ==
    /\ family = "cluster" /\ tail = "none"
    /\ \A a \in Archives : datasets[a] \notin {"missing", "error"}
    =>
        LET tags   == TagClause(TRUE, sr)
            At(pg) == AssembleCluster([sr EXCEPT !.Page = pg],
                          EsResult(corpus, tags, ranking, [sr EXCEPT !.Page = pg]),
                          datasets, tail)
            pages  == At(1).resp.TotalPages
            ids(pg) == [i \in DOMAIN At(pg).resp.Archives |-> At(pg).resp.Archives[i].InventoryID]
        IN /\ \A pg \in 1..pages : At(pg).ok
           /\ FlattenSeq([pg \in 1..pages |-> ids(pg)]) = ranking

=============================================================================
