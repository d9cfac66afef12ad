# TLA+ models of the hub3 EAD search subsystem

These modules model the EAD archive search of `src/hub3/ead/search.go`, which spec.md describes, and the Elasticsearch client it runs on (`src/hub3/index/elasticsearch.go`). The system has these parts:

* **RequestParser** (`newSearchRequest`, lines 137-261). It turns `url.Values` into a `SearchRequest`: defaults, clamping, the page check, sort prefixes, filters and cache-control flags. It ranges over a Go map, so the order in which it applies the parameters is random.
* **Query compiler** (`buildSearchRequest` 287-342, `isAdvancedSearch` 944-968, the collapse, sort and facets of `PerformClusteredSearch` 411-502, the post-filter of `PerformDetailSearch` 798-821). It builds the Elasticsearch query from the request.
* **Handlers** (`PerformClusteredSearch` 394-726, `PerformDetailSearch` 745-912). Each HTTP request runs in its own goroutine. The steps are:
  - `once.Do(newBigCache)`;
  - build and parse the request;
  - an optional `cacheReset`, which swaps the global `httpCache`;
  - compute the key with `requestKey` and look it up;
  - an optional `cacheRefresh`, which clears the flag and recomputes the key;
  - call Elasticsearch and decode the result;
  - check the page;
  - store the response unless it has no hits.
* **Result assembler** (539-714). It decodes a clustered result: the three count aggregations, one `Archive` per collapsed hit with its dataset lookup and description refinement, and the facets.
* **Response cache** (`httpCache`, `newBigCache` 344-364, `getCachedRequest` 366-392, `storeResponseInCache` 728-743). This is one process-wide bigcache. All goroutines share it without locking. Any request can reset it at any time.
* **Pagination** (`getCursor` 914-925, `getPageCount` 927-942, and the `cursor > total` checks at 591 and 862).
* **Elasticsearch client** (`ESClient` 45-60, `createESClient` 62-89, `CustomRetrier.Retry` 98-118). The package client is built lazily on the first request. Every query runs through the client library's request loop, which asks the retrier after each failed attempt.

The parts interact in three ways:

* through the shared cache, which every handler reads, writes and may replace;
* through the request key, which the parser decides and under which each handler uses the cache;
* through the package client, which every handler gets from `ESClient`.

## Modules

| Module | Models | State and actions |
|---|---|---|
| `ResponseCache` | What the cache promises (spec 4.3) | `cache`: key -> response. Actions: `Put` (only non-empty responses, only under their own request's canonical key), `Drop` (expiry or size limit) and `Reset`. |
| `EadSearch` | The handlers, run concurrently | Per goroutine: `pc`, `req`, `key`, `resp` and `answer`. Shared: `onceState`, `cache` and `version`, the content of the index. One action per step of the handler; every step that can fail returns the error where the code does. `Evict` is bigcache dropping entries. `Reindex` is indexing changing the index under the handlers. A `Canon` request (flags cleared) stands for its JSON/xxhash key. The Elasticsearch result is abstracted to `count` (archiveCount, or totalHits in detail mode) and `hits` (totalHits). |
| `Pagination` | `getCursor`, `getPageCount`, the page check | Pure operators. |
| `RequestParser` | `newSearchRequest` | `Apply` is one case of the switch, and `ParseInOrder` is the loop with its early return. `newSearchRequest(params)` is the set of outcomes over every order of the parameter names. Raw values are tokens: `IntOf` plays `strconv.Atoi` and `Lower` plays `strings.EqualFold`. A sortBy value is a token sequence, so `HasPrefix`/`TrimPrefix` work on it. Filter parsing lives in the fragments package, which is not in src. It is modelled from the spec as accept or reject (`ParseFilter`, `BadFilterValues`). |
| `QueryCompiler` | `isAdvancedSearch`, the minimum-should-match decision, the detail post-filter loop, the cluster search build | Recursive operators over sequences. A raw query is a sequence of one-character strings, and `Fields` is `strings.Fields`. A filter is a record with three fields: whether its label is `tree.*`, whether it excludes, and whether `ElasticFilter()` translates it. `BuildClusterSearch` is lines 444-502. It has the collapse, then `SortClause` (the `sortBy` switch in its order), then `AddFacetAggs` (the facet loop over the requested and the three default facets, which returns at the first facet the builders reject). `Underscored` names the sort-key tokens that contain `_`, and `BadFacets` the facet fields the fragments builders reject. |
| `ResultAssembler` | The cluster decoding, and the tag clause and `enableDescriptionSearch` of `buildSearchRequest` | `NewArchive` is one iteration of the hits loop. `AssembleHits` is the loop, which returns at the first error. `AssembleCluster` is the whole decoding, including its early returns. `AssembleDetail` is the detail decoding (832-900): the counts, the page check, the early return on no hits, and the c-levels of the page `DetailHits`. The index is the environment: `EsResult` evaluates the compiled tag clause over a corpus that gives, per archive, its matching c-levels and whether its root description document passes, is removed only by the post-filter, or is absent. |
| `EsClient` | `ESClient`, `createESClient`, `Retry` | `client` is the package variable, and `built` counts the clients constructed. Per goroutine: `pc`, `local` (the client it got), `attempts` and `lastErr`. `CheckClient` and `CreateCheck` are the two `client == nil` tests. `NewClient` is the construction, which succeeds only while the cluster is up because of its start-up health check. `Attempt` and `AskRetrier` are the library's request loop. `ClusterDown`/`ClusterUp` are the environment. |
| `SearchService` | The handlers composed with the client | `EadSearch` and `EsClient`, each as an `INSTANCE` with its variables renamed, so that every goroutine has both a handler state and a client state. `GetClient`/`ClientInit` are `index.ESClient()` at the top of `buildSearchRequest` (288). `ParseOk`/`ParseFails` are the parsing that follows it. `Query` is the request loop of `Do` (518, 823). The query step ends in one of three ways: `Answered` with a response, `GaveUp` with the retrier's error, or `Crashed` on a nil client. In `Crashed`, negroni's `Recovery` (server.go 159-162) answers 500 and the goroutine goes on. Each action is a step of one component, and the other component's variables stay unchanged. |
| `MC_Operators` | The pure operators together | Each initial state is one input of one family (pagination, parser, query, filters, cluster). `Next` changes nothing. |

`EadSearch` shows that it implements `ResponseCache` with `INSTANCE ResponseCache WITH`. The refinement mapping maps keys to canonical requests, and a response to the key of the request it answers.

## Runs

| Run | Expect | What it shows |
|---|---|---|
| handlers_safety | pass | Two goroutines make 3 requests, each cluster or detail, for 2 archives on page 1, with every combination of noCache/cacheRefresh/cacheReset, while the index changes once. `TypeOK`. `ServedMatchesRequest` (action property): every response a handler returns, cached or fresh, answers the request it was given. `CacheRefinement`: cache use refines `ResponseCache`. So a refreshed response is stored under the plain key, empty responses are never stored, and a detail key includes InventoryID. |
| handlers_reset_race | violation | `ResetDiscardsEarlierResponses`. p1 sends its query. p2 resets the cache. p1 then stores its pre-reset response in the new cache. |
| handlers_query_error | violation | `QueryErrorReturned`. When the engine call fails, the cluster handler reads `resp.Status` on a nil `resp` (line 527) and panics, instead of returning the error. |
| handlers_stale_overwrite | violation | `CacheNeverRegresses`. p1 queries the index at version 0. Indexing moves it to version 1. p2, a cacheRefresh, queries and stores. p1 then stores its version-0 response over p2's. |
| operators | pass | `PageCountIsCeiling` and `PageCheckMatchesPageCount`: the page check admits one empty page past the last when rows divides total. `ParseOutcomeOrderIndependent`. `ClusterSearchAsSpecified`: every parse outcome of a query string, in every map order, compiles as spec 4.1/4.2 say. The sort follows the raw `sortBy` value, and there is one aggregation per requested and default facet, or a FacetCompileError for a facet that cannot be built. `AdvancedDetectionMatchesSpec`: `isAdvancedSearch` over `strings.Fields` agrees with spec 4.2's definition on every query up to 4 characters. `EachFilterOneClause`. `TotalHitsIsSum`: totalHits equals totalClevelCount + totalDescriptionCount, although the code sums before it zeroes the description count (589/702), because the tag clause keeps eadDesc documents out when description search is off. `ArchiveLevelCountsExact`: the root-node correction (649) leaves each archive's c-level count exact. It relies on the collapse inner sort (451): `RootFirst` derives whether the first inner hit is the root from `Collapse.innerSort` and the fields each document type carries (`DocSortFields`). `DetailPagesPartitionLevels` and `ClusterPagesPartitionArchives`: paging through one search, pages 1..totalPages all succeed, and together they return every c-level (detail) or every collapse group (cluster) exactly once, in order. |
| parser_key | violation | `SameParamsSameKey` (spec 8). `q=a&query=b` parses to different RawQuery values, and so to different cache keys, depending on map order. |
| parser_bounds | violation | `ParsedRequestInBounds` (spec 3, 4.1). The parser accepts `rows=0`, rows < 0 and page < 0. |
| service | pass | Two goroutines serve two requests through the package client, while the cluster fails and recovers at any time and the index changes once. `QueryTriesAtMostFive`: the retrier bounds the attempts of every query. `RequestsAnswered`: under weak fairness per goroutine, every request is answered with a response, the retrier's error or a recovered panic. That includes the request whose client construction found the cluster down. |
| esclient_refused | violation | `RefusedNotRetried`. `err == syscall.ECONNREFUSED` (line 106) never matches the `*url.Error` the library passes, so a refused connection is retried. |
| esclient_replaced | violation | `ClientNeverReplaced`. Two first requests both pass `client == nil`. Both build a client, and the second overwrites the first. If the second construction fails, it resets the client to nil. |
| esclient_nil | violation | `NoQueryOnNilClient`. When the cluster is down at the first request, `NewClient` fails, the error is only printed (line 83), and `ESClient` returns nil. The goroutine reaches `Do` holding the nil client, and `PerformRequest` dereferences it. |
| esclient_retries | violation | `FiveRetriesBeforeStop`. The comment at line 110 says "Stop after 5 retries". The retrier is called with retry = 1 after the first failure and stops at retry >= 5, so a stopped query made 5 attempts, which is 4 retries. The comment at line 67 ("tries 5 times") matches the code. That is the reading `QueryTriesAtMostFive` checks in the service run; this run reports the other. |

Every passing property has a mutant in PROJECT.json, a plausible bug in the mapped code that TLC catches:

* the key computed before InventoryID is set;
* the refresh key not recomputed;
* a once that never completes (caught by `RequestsAnswered`);
* a double-counted hit total;
* an off-by-one cursor;
* a page count that always rounds up;
* filters replaced instead of appended;
* the closing-quote test of `isAdvancedSearch` dropped;
* the `continue` after an excluded filter dropped;
* the tag clause that ignores `enableDescriptionSearch`;
* the collapse inner hits sorted on `tree.sortKey`, so the root is not first;
* the retry limit tested with `>`;
* a retrier that never stops;
* the `sortBy` switch testing the underscore rule before `_score`;
* a detail page count taken from archiveCount (always 1);
* a cluster page count taken from totalHits instead of archiveCount.

## Assumptions about the environment

* **Collapse on `meta.spec`.** The inner hits are sorted ascending on `tree.inventoryID`. Only the root description document carries that field, so it comes first whenever it is in the group.
* **The cardinality aggregation is taken as exact.** Elasticsearch's is approximate above its precision threshold (hazard at 575).
* **The unfiltered `eadDesc` bucket counts every matching description document.** It ignores the post-filter.
* **The client library's request loop** counts failed attempts from 1 and passes transport errors wrapped in `*url.Error`.
* **`elastic.NewClient` fails when no node answers** its start-up health check.
* **`ExponentialBackoff(10ms, 8s)`** draws r·10ms·2^retry with r in [1,2], and stops at 8s.

## Bounds

* **Two goroutines** are enough for every pairwise race on the single shared cache (reset against store, refresh against lookup, stale store against refresh) and on the package client.
* **Three requests** let one goroutine reuse the other's cached entry after a reset.
* **Counts of 0..1** cover the zero-hit path, the non-caching path, the page-out-of-range path and the dataset-error path.
* **Pages {1,2} with rows 1** reach both the accepted empty page and the refused page in the handler violation runs. `handlers_safety` uses page 1 only, so that it can afford an index change. The page check itself is checked over all pages by the operators run.
* **One index change** (`MaxVersion = 1`) is enough to order two writers by what they read.
* **The cluster harness** uses two archives with up to two c-levels each, every description state and every dataset outcome. That reaches both a root-first and a root-absent group, and both the refinement and the fallback paths of `DescriptionCount`.
* **EsClient** allows 6 attempts per query (`MaxAttempts`). That is one more than the code allows, so an off-by-one limit is visible.

* **The composition** (`MC_SearchService`) has two goroutines and two requests, with the cache-control flags off (`MCRequests`), 1 archive, page and rows 1, and one index change. The flags are covered by the `EadSearch` runs. Here the question is the client: a first request that finds the cluster down, a concurrent construction, and retries up to the limit. Three requests take over five minutes.
* **The parser family** gives `sortBy` the values `^int.date_x`, `int.^title`, `_score`, `^_score` and `title`. Together they reach each prefix order and each case of the sort switch. It gives `facet.field` a good pair, a pair with a rejected field, and a repeat of a default facet.
* **The paging properties** walk every page 1..totalPages of one search, for totals up to `MaxTotal` and rows up to `MaxRows` (detail), and for the cluster corpora and rankings above.

Symmetry is used only in the safety runs.

## Fairness

Each goroutine's own steps are weakly fair, because the Go scheduler runs every runnable goroutine, and an Elasticsearch call returns or fails when its context ends. Request arrival, eviction, indexing and the cluster's state changes are not fair, because nothing obliges them to happen. In `SearchService` the fairness is `WF_vars(Step(p))` per goroutine. `Step(p)` includes the client's request loop, which ends without help from the cluster because the retrier stops after 5 attempts. `RequestsAnswered` covers `once.Do` too: concurrent first callers of `newBigCache` all get through.

## Not modelled

* **The facet builders** (`NewFacetField`, `CreateAggregationBySearchLabel`, `NewFacetURIBuilder`, `CreateFacetFilterQuery`). They are in the fragments package, which is not in src. The facet builders are modelled from spec 4.2 as accept or reject. The URI builder and the post-filter query are taken to succeed on filters the parser accepted. The facet failure path of the handler returns before the query, as the engine-error path does, and is not a separate action of `EadSearch`.
* **Field copying into `Archive` and `CLevelEntry`.** This is layout.
* **The description matcher**, whose code is not in src. Its outcome is an input of `NewArchive`.
* **The explain and service diagnostics.** They are cached under a key that ignores them. Spec 4.4 says both that they are attached when requested and that they never change cache eligibility or key, and that conflict leaves no intended behaviour to check.
* **Configuration** (`src/config/config.go`). This is the configuration of an earlier package: its `RawConfig` has no `Logger`, `TrackTotalHits` or index name. The search code imports `github.com/delving/hub3/config`, which is not in src. Spec 1 puts configuration loading out of scope. `src/hub3/index/elasticsearch.go` has the same mismatch: it imports `github.com/delving/rapid-saas/config` and the unversioned `github.com/olivere/elastic`, while the search code imports hub3's config and `olivere/elastic/v7`. `EsClient` models the file as written, and it takes the request loop of the library to behave the same in both versions. Note that `setDefaults` spells one key `OAIPMH.repostitoryName`, so the `RepositoryName` field never gets its default.
* **The HTTP server** (`server.go`), apart from `Recovery`. Router, gzip and static-file wiring carry no state.
* **SPARQL** (`sparql.go`). Query templating and remote calls, outside the search subsystem that spec 1 scopes. Note that `AskSPARQL` always returns false, and `DescribeSPARQL` reads the bindings of a nil result when the query fails.
* **`fragments/utils.go`.** It holds only `NowInMillis`, a clock read.
* **`TrackTotalHits` off** (291). Elasticsearch then caps the detail `TotalHits` at 10000. The model takes the count as exact, as it does for the cardinality.
* **The `NewBigCache` error path** (354-358). Under `once.Do`, a construction error is only logged, and `httpCache` stays nil. The bigcache config is a constant, so the model takes construction to succeed.
* **The wording of the page-out-of-range error** (865-869). The test compares the cursor with `TotalClevelCount`, which the model follows, but the message reports `ArchiveCount`. Spec 8 asks for the offending values. The model keeps the error and not its text.
* **The unsynchronised pointer swap of `httpCache`.** It is modelled as atomic, so a torn read is outside the model. The same holds for the `client` variable in `EsClient`.

## Further work

1. Larger handler instances (three goroutines) for the reset and refresh races. A merged safety and liveness run over two archives and two pages did not finish in 15 minutes.
2. Connect `ResultAssembler` to `EadSearch.QueryOk`, so that the handlers store fully assembled responses.
3. The facet failure path as an action of `EadSearch`, and the explain diagnostics once the spec says which of its two statements holds for a cached explain request.
