----------------------------- MODULE Pagination -----------------------------
(***************************************************************************)
(* The pagination arithmetic of src/hub3/ead/search.go: getCursor, which  *)
(* gives the offset of a page, and getPageCount, which gives totalPages.   *)
(* Both handlers reject a request whose cursor exceeds the total count the *)
(* mode pages over (archiveCount in cluster mode, totalClevelCount in      *)
(* detail mode).  Go's int division truncates toward zero and % takes the  *)
(* sign of the dividend; for the non-negative totals here \div and % agree *)
(* with Go whenever rows is positive.                                      *)
(***************************************************************************)
EXTENDS Integers

\* Mutant of getCursor: the offset of the page after the requested one.
getCursorOffByOne(rows, page) ==
    IF page = 1 \/ rows = 0 THEN 0
    ELSE IF page * rows < 1 THEN 0
    ELSE page * rows

getCursor(rows, page) ==
    IF page = 1 \/ rows = 0 THEN 0
    ELSE IF (page - 1) * rows < 1 THEN 0
    ELSE (page - 1) * rows

\* Mutant of getPageCount: the remainder test is dropped.
getPageCountAlwaysRoundUp(archives, rows) ==
    IF rows = 0 \/ archives = 0 THEN 0
    ELSE IF archives < rows THEN 1
    ELSE archives \div rows + 1

getPageCount(archives, rows) ==
    IF rows = 0 \/ archives = 0 THEN 0
    ELSE IF archives < rows THEN 1
    ELSE LET pages == archives \div rows
         IN IF archives % rows # 0 THEN pages + 1 ELSE pages

\* The page check of both handlers: the request fails when cursor > total.
PageAccepted(total, rows, page) == getCursor(rows, page) <= total

(***************************************************************************)
(* Reference definitions                                                   *)
(***************************************************************************)
\* The number of pages of `rows' items that hold `total' items.
CeilingPages(total, rows) == CHOOSE n \in 0..total : n * rows >= total
                                                 /\ (n = 0 \/ (n - 1) * rows < total)

=============================================================================
