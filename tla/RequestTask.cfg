\* Two of three routes, ten requests, and two changes of a small tree at any moment.
CONSTANTS
    Extensions <- Keys
    MIME_TABLE <- Table
    Rank <- Ranks
    Registrations <- SomeRoutes
    MaxRoutes = 2
    Requests <- SomeRequests
    InitialFs <- Tree
    ChangingPaths <- BelowRoot
    Replacements = {"none", "file", "dir", "locked", "socket"}
    MaxChanges = 2
    Names <- SomeNames
    ExtensionOf <- ExtensionsOf
SPECIFICATION Spec
INVARIANTS
    TypeOK
    StableAnswer
    FileWasTheAnswer
    NoDescriptorLost
    ListedIsFound
