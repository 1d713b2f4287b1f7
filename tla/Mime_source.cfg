\* The table of mime.cpp, and each of its extensions as a key.
CONSTANTS
    Extensions <- TableExtensions
    MIME_TABLE <- SourceTable
    Rank <- RankInOrder
CHECK_DEADLOCK FALSE
SPECIFICATION SearchSpec
INVARIANT ListedIsFound
