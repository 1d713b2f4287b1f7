-------------------------------- MODULE Mime --------------------------------
(***************************************************************************)
(* The look-up in MIME_TABLE by mime_type() (src/http/mime.cpp): the       *)
(* binary search of std::lower_bound, one turn of its loop per step.  The  *)
(* order of strings is their rank.                                         *)
(***************************************************************************)
EXTENDS Naturals, Sequences

CONSTANTS
    Extensions,                 \* the strings that a key can be
    MIME_TABLE,                 \* the extensions of the table, in its order
    Rank                        \* the place of each extension in the order of strings

ASSUME MimeAssumption ==
    /\ MIME_TABLE \in Seq(Extensions)
    /\ Rank \in [Extensions -> Nat]
    /\ \A e, f \in Extensions : Rank[e] = Rank[f] => e = f

VARIABLES
    extension,                  \* the key
    first, len                  \* what lower_bound has still to look at

searchVars == <<extension, first, len>>

Listed(e) == \E i \in 1 .. Len(MIME_TABLE) : MIME_TABLE[i] = e

Less(e, f) == Rank[e] < Rank[f]

StartSearch(e) == extension' = e /\ first' = 1 /\ len' = Len(MIME_TABLE)

\* Mutant: std::upper_bound, which passes an entry that is equal to the key.
SearchTurn_UpperBound ==
    /\ len > 0
    /\ LET half == len \div 2
           mid == first + half
       IN  IF ~Less(extension, MIME_TABLE[mid])
           THEN first' = mid + 1 /\ len' = len - half - 1
           ELSE len' = half /\ UNCHANGED first
    /\ UNCHANGED extension

\* Mutant: the middle stays in what is left to search.
SearchTurn_KeepsMiddle ==
    /\ len > 0
    /\ LET half == len \div 2
           mid == first + half
       IN  IF Less(MIME_TABLE[mid], extension)
           THEN first' = mid + 1 /\ len' = len - half
           ELSE len' = half /\ UNCHANGED first
    /\ UNCHANGED extension

SearchTurn ==
    /\ len > 0
    /\ LET half == len \div 2
           mid == first + half
       IN  IF Less(MIME_TABLE[mid], extension)
           THEN first' = mid + 1 /\ len' = len - half - 1
           ELSE len' = half /\ UNCHANGED first
    /\ UNCHANGED extension

\* The test that follows the search
Found == first <= Len(MIME_TABLE) /\ MIME_TABLE[first] = extension

\* What mime_type() returns: the type of an entry is known by its extension.
MimeType == IF Found THEN extension ELSE "application/octet-stream"

-----------------------------------------------------------------------------
(* The look-up of one extension on its own. *)

SearchInit == extension \in Extensions /\ first = 1 /\ len = Len(MIME_TABLE)

SearchSpec == SearchInit /\ [][SearchTurn]_searchVars

Sorted ==
    \A i, j \in 1 .. Len(MIME_TABLE) : i < j => Less(MIME_TABLE[i], MIME_TABLE[j])

\* All that a search for e depends on: no entry that is less than e stands
\* behind one that is not, and e itself is not behind one that is greater.
Searchable(e) ==
    \A i, j \in 1 .. Len(MIME_TABLE) : i < j =>
        /\ Less(MIME_TABLE[j], e) => Less(MIME_TABLE[i], e)
        /\ MIME_TABLE[j] = e => Less(MIME_TABLE[i], e) \/ MIME_TABLE[i] = e

(* Every extension of the table is found: "MIME_TABLE is sorted by ext"       *)
(* (mime.cpp:67), which the binary search depends on.                         *)
ListedIsFound == (len = 0 /\ Listed(extension)) => Found

=============================================================================
