\* Pagination over totals up to 30, rows up to 12 and pages up to 8; query
\* strings of up to 3 parameters (sortBy keys reaching every prefix order and
\* sort case, facet fields with a rejected one and a default repeated); raw
\* queries up to 4 characters, which spell "AND", " OR ", "NOT", "-x", "x\""
\* and their near misses; up to 3 detail filters, every order of the three
\* kinds; clustered searches over two archives of up to 2 matching c-levels,
\* pages 1 and 2 of 1 or 2 rows.
CONSTANTS
    IntOf <- MCIntOf
    Lower <- MCLower
    BadFilterValues = {"bad"}
    MaxParams = 3
    MaxTotal = 30
    MaxRows = 12
    MaxPage = 8
    MaxLen = 4
    MaxFilters = 3
    a1 = a1
    a2 = a2
    Archives <- MCArchives
    MaxLevels = 2
    OtherLabel = "ead-rdf_genreform"
    FreeText = "q"
    PageValues = {1, 2}
    RowsChoices = {1, 2}
    Underscored = {"date_x", "_score"}
    BadFacets = {"badf"}

SPECIFICATION Spec

INVARIANT PageCountIsCeiling
INVARIANT PageCheckMatchesPageCount
INVARIANT DetailPagesPartitionLevels
INVARIANT ParseOutcomeOrderIndependent
INVARIANT ClusterSearchAsSpecified
INVARIANT AdvancedDetectionMatchesSpec
INVARIANT EachFilterOneClause
INVARIANT TotalHitsIsSum
INVARIANT ArchiveLevelCountsExact
INVARIANT ClusterPagesPartitionArchives
