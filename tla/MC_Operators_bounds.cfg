CONSTANTS
    IntOf <- MCIntOf
    Lower <- MCLower
    BadFilterValues = {"bad"}
    MaxParams = 3
    MaxTotal = 30
    MaxRows = 12
    MaxPage = 8
    MaxLen = 4
    MaxFilters = 3
    a1 = a1
    a2 = a2
    Archives <- MCArchives
    MaxLevels = 2
    OtherLabel = "ead-rdf_genreform"
    FreeText = "q"
    PageValues = {1, 2}
    RowsChoices = {1, 2}
    Underscored = {"date_x", "_score"}
    BadFacets = {"badf"}

SPECIFICATION Spec

INVARIANT ParsedRequestInBounds
