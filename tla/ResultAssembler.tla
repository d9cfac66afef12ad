-------------------------- MODULE ResultAssembler --------------------------
(***************************************************************************)
(* Decoding of a clustered EAD search result (PerformClusteredSearch,     *)
(* src/hub3/ead/search.go 539-714) into a SearchResponse: the counts from *)
(* the three aggregations, the page check, one Archive per collapsed hit  *)
(* of the page (dataset lookup, the root-node correction, the description *)
(* refinement) and the zeroing of the description count.  Every early     *)
(* return of the code is an error outcome.                                 *)
(*                                                                         *)
(* The index is the environment: a corpus gives, per archive, how many of *)
(* its c-level documents match the query and pass the post-filter, and    *)
(* whether its root description document ("eadDesc") passes it, is only   *)
(* removed by the post-filter, or is absent or unmatched.  EsResult       *)
(* evaluates the query that buildSearchRequest compiles against it.       *)
(***************************************************************************)
EXTENDS Integers, Sequences, SequencesExt, FiniteSets, Functions, Pagination,
        QueryCompiler

CONSTANTS
    Archives,     \* the inventory IDs (meta.spec values) in the index
    MaxLevels     \* bound on the matching c-levels of one archive

PeriodDesc == "ead-rdf_periodDesc"

\* What the index holds of one archive for the current query.
Corpora == [Archives -> [levels : 0..MaxLevels,
                         desc   : {"none", "pass", "filtered"}]]

\* models.GetDataSet and the DescriptionMatcher, per archive: the dataset is
\* missing, has no description text, or has one the matcher finds the query
\* in, does not find it in, or fails on.
DatasetOutcomes == {"missing", "noText", "match", "nomatch", "error"}

(***************************************************************************)
(* Query compilation (buildSearchRequest)                                  *)
(***************************************************************************)
\* Description search is on when every filter is a periodDesc filter.
enableDescriptionSearch(sr) ==
    \A i \in DOMAIN sr.Filters : sr.Filters[i] = PeriodDesc

\* Mutant of TagClause: eadDesc documents are always searched.
TagClauseAlwaysDesc(includeDescription, sr) == {"ead", "eadDesc"}

\* The meta.tags should-clause every document must match.
TagClause(includeDescription, sr) ==
    IF includeDescription /\ enableDescriptionSearch(sr)
    THEN {"ead", "eadDesc"} ELSE {"ead"}

(***************************************************************************)
(* The index's answer (environment)                                        *)
(***************************************************************************)
RootMatches(c, a, tags) == "eadDesc" \in tags /\ c[a].desc \in {"pass", "filtered"}
RootInGroup(c, a, tags) == "eadDesc" \in tags /\ c[a].desc = "pass"

\* The collapse groups: archives with a document that matches and passes.
Groups(c, tags) == {a \in Archives : c[a].levels > 0 \/ RootInGroup(c, a, tags)}

\* The sort fields each kind of document carries in the index (indexing is
\* not in src): only an archive's root description document has
\* tree.inventoryID; its c-levels have tree.sortKey.
DocSortFields == [root |-> {"tree.inventoryID"}, clevel |-> {"tree.sortKey"}]

\* The first of the collapse inner hits is the root node: Elasticsearch
\* sorts ascending with missing values last, so a document that has the
\* inner sort field precedes one that lacks it; between documents that
\* both have or both lack it the order is not fixed, and the root is then
\* not taken to be first when the group has c-levels.
RootFirst(c, a, tags) ==
    LET f == Collapse.innerSort
    IN /\ Collapse.innerSize >= 1
       /\ RootInGroup(c, a, tags)
       /\ \/ c[a].levels = 0
          \/ f \in DocSortFields.root /\ f \notin DocSortFields.clevel

\* A collapsed hit: its meta.spec and its "collapse" inner hits, whose total
\* counts the group's documents and whose first hit, under the collapse's
\* inner sort (search.go 447-452), may be the root node.
Hit(c, a, tags) ==
    [spec       |-> a,
     innerTotal |-> c[a].levels + (IF RootInGroup(c, a, tags) THEN 1 ELSE 0),
     rootFirst  |-> RootFirst(c, a, tags)]

\* ranking orders the groups; the page is From(cursor).Size(rows) of it.
EsResult(c, tags, ranking, sr) ==
    LET cursor == getCursor(sr.Rows, sr.Page)
        page   == SubSeq(ranking, cursor + 1,
                         IF cursor + sr.Rows < Len(ranking)
                         THEN cursor + sr.Rows ELSE Len(ranking))
    IN [descBucket   |-> Cardinality({a \in Archives : RootMatches(c, a, tags)}),
        archiveCount |-> Cardinality(Groups(c, tags)),
        levelBucket  |-> SumFunctionOnSet([a \in Archives |-> c[a].levels],
                                          Groups(c, tags)),
        hits         |-> [i \in DOMAIN page |-> Hit(c, page[i], tags)]]

(***************************************************************************)
(* Decoding (PerformClusteredSearch)                                       *)
(***************************************************************************)
Failed(e) == [ok |-> FALSE, err |-> e, resp |-> <<>>]

\* One iteration of the hits loop: the Archive for a hit, or the error the
\* loop returns with.
NewArchive(sr, h, ds) ==
    LET root   == h.rootFirst
        refine == sr.RawQuery # "" /\ ds # "noText" /\ enableDescriptionSearch(sr)
    IN IF ds = "missing" THEN Failed("DatasetLookupError")
       ELSE IF refine /\ ds = "error" THEN Failed("SearchExecutionError")
       ELSE [ok |-> TRUE, err |-> "none",
               resp |-> [InventoryID      |-> h.spec,
                         CLevelCount      |-> h.innerTotal - (IF root THEN 1 ELSE 0),
                         DescriptionCount |->
                            IF refine THEN (IF ds = "match" THEN 1 ELSE 0)
                            ELSE IF root THEN 1 ELSE 0]]

\* The loop over resp.Hits.Hits, returning at the first error.
RECURSIVE AssembleHits(_, _, _, _)
AssembleHits(sr, hits, datasets, acc) ==
    IF hits = <<>> THEN [ok |-> TRUE, err |-> "none", resp |-> acc]
    ELSE LET a == NewArchive(sr, Head(hits), datasets[Head(hits).spec])
         IN IF a.ok THEN AssembleHits(sr, Tail(hits), datasets, Append(acc, a.resp))
            ELSE a

\* Mutant of AssembleCluster: totalPages counted from the hits, not the
\* collapsed archives.
AssembleClusterPagesFromHits(sr, es, datasets, tail) ==
    LET total    == es.levelBucket + es.descBucket
        cursor   == getCursor(sr.Rows, sr.Page)
        archives == AssembleHits(sr, es.hits, datasets, <<>>)
    IN IF sr.Service /\ tail = "service" THEN Failed("SourceError")
       ELSE IF cursor > es.archiveCount THEN Failed("PageOutOfRange")
       ELSE IF ~archives.ok THEN archives
       ELSE IF tail = "facets" THEN Failed("AggregationDecodeError")
       ELSE [ok |-> TRUE, err |-> "none",
               resp |-> [ArchiveCount          |-> es.archiveCount,
                         TotalPages            |-> getPageCount(total, sr.Rows),
                         TotalClevelCount      |-> es.levelBucket,
                         TotalDescriptionCount |->
                             IF enableDescriptionSearch(sr) THEN es.descBucket ELSE 0,
                         TotalHits             |-> total,
                         Cursor                |-> cursor,
                         Archives              |-> archives.resp]]

\* From the response to the facets: tail is where a late step fails (the
\* service source decoding, the facet decoding) or "none".
AssembleCluster(sr, es, datasets, tail) ==
    LET descCount == es.descBucket
        levels    == es.levelBucket
        total     == levels + descCount
        cursor    == getCursor(sr.Rows, sr.Page)
        archives  == AssembleHits(sr, es.hits, datasets, <<>>)
    IN IF sr.Service /\ tail = "service" THEN Failed("SourceError")
       ELSE IF cursor > es.archiveCount THEN Failed("PageOutOfRange")
       ELSE IF ~archives.ok THEN archives
       ELSE IF tail = "facets" THEN Failed("AggregationDecodeError")
       ELSE [ok |-> TRUE, err |-> "none",
               resp |-> [ArchiveCount          |-> es.archiveCount,
                         TotalPages            |-> getPageCount(es.archiveCount, sr.Rows),
                         TotalClevelCount      |-> levels,
                         TotalDescriptionCount |->
                             IF enableDescriptionSearch(sr) THEN descCount ELSE 0,
                         TotalHits             |-> total,
                         Cursor                |-> cursor,
                         Archives              |-> archives.resp]]


(***************************************************************************)
(* Decoding (PerformDetailSearch)                                          *)
(***************************************************************************)
\* The hits of a detail search: the archive's matching c-levels in
\* tree.sortKey order, of which Elasticsearch returns the page
\* From(getCursor(rows, page)).Size(rows) set by buildSearchRequest.
DetailHits(sr, levels) ==
    LET cursor == getCursor(sr.Rows, sr.Page)
    IN SubSeq(levels, cursor + 1,
              IF cursor + sr.Rows < Len(levels) THEN cursor + sr.Rows ELSE Len(levels))

\* Mutant of AssembleDetail: totalPages counted from archiveCount, as the
\* cluster handler does.
AssembleDetailPagesFromArchiveCount(sr, levels, decodeOk) ==
    LET total  == Len(levels)
        cursor == getCursor(sr.Rows, sr.Page)
    IN IF cursor > total THEN Failed("PageOutOfRange")
       ELSE IF total = 0 \/ decodeOk
       THEN [ok |-> TRUE, err |-> "none",
             resp |-> [ArchiveCount |-> IF total > 0 THEN 1 ELSE 0,
                       TotalPages   |-> IF total > 0 THEN getPageCount(1, sr.Rows) ELSE 0,
                       TotalClevelCount |-> total, TotalHits |-> total,
                       Cursor |-> cursor,
                       CLevels |-> IF total = 0 THEN <<>> ELSE DetailHits(sr, levels)]]
       ELSE Failed("DecodeError")

\* From resp.TotalHits() to the CLevels: the counts, the page check, the
\* early return on an empty result, and one CLevelEntry per hit, where a
\* hit whose source does not decode fails the request.  Without tracking
\* (TrackTotalHits off) resp.TotalHits() would be capped; it is exact here.
AssembleDetail(sr, levels, decodeOk) ==
    LET total  == Len(levels)
        cursor == getCursor(sr.Rows, sr.Page)
    IN IF cursor > total THEN Failed("PageOutOfRange")
       ELSE IF total = 0 \/ decodeOk
       THEN [ok |-> TRUE, err |-> "none",
             resp |-> [ArchiveCount |-> IF total > 0 THEN 1 ELSE 0,
                       TotalPages   |-> IF total > 0 THEN getPageCount(total, sr.Rows) ELSE 0,
                       TotalClevelCount |-> total, TotalHits |-> total,
                       Cursor |-> cursor,
                       CLevels |-> IF total = 0 THEN <<>> ELSE DetailHits(sr, levels)]]
       ELSE Failed("DecodeError")

=============================================================================
