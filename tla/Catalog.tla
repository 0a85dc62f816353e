------------------------------- MODULE Catalog -------------------------------
(***************************************************************************)
(* The capability catalog: where it is loaded from and what --only and     *)
(* --from-id leave of it.  An entry is its id; group, prompt, skip_ok and  *)
(* expected_traffic only have to be there.                                 *)
(***************************************************************************)
EXTENDS Lists, SequencesExt

CONSTANTS
    DefaultCatalog,   \* DEFAULT_CATALOG, as the sequence of its ids
    Reserved,         \* the ids that begin with INTELLICHLOR_ID_PREFIX
    Malformed,        \* an entry without a required field, or not an object
    None,             \* a flag that was not given
    Failed            \* the command ends with an error before it records

(* A --catalog file: not there, not JSON or without an array of entries    *)
(* (Failed), or the entries.                                               *)
LoadCatalogFile(file) ==
    IF file = Failed \/ Malformed \in Range(file) THEN Failed ELSE file

ExcludeIntellichlor(entries) ==
    Subsequence(entries, {n \in 1..Len(entries) : entries[n] \notin Reserved})

LoadCatalog(path) ==
    LET entries == IF path = None THEN DefaultCatalog ELSE LoadCatalogFile(path)
    IN  IF entries = Failed THEN Failed ELSE ExcludeIntellichlor(entries)

FromId(entries, id) == SubSeq(entries, SelectInSeq(entries, LAMBDA e : e = id), Len(entries))

KeepOnly(entries, only) ==
    IF only = None THEN entries
    ELSE Subsequence(entries, {n \in 1..Len(entries) : entries[n] \in only})

FilterOnlyFirst(entries, only, from) ==      \* mutant: --only before --from-id
    IF from = None THEN KeepOnly(entries, only)
    ELSE IF from \notin Range(KeepOnly(entries, only)) THEN Failed
    ELSE FromId(KeepOnly(entries, only), from)

(* --from-id drops what precedes the first entry with the id, --only keeps *)
(* the ids listed, in the order of the catalog.                            *)
FilterCatalog(entries, only, from) ==
    IF from = None THEN KeepOnly(entries, only)
    ELSE IF from \notin Range(entries) THEN Failed
    ELSE KeepOnly(FromId(entries, from), only)

(* The list of ids in a flag; an empty list counts as no flag.             *)
ParseIdList(ids) == IF ids = {} THEN None ELSE ids

=============================================================================
