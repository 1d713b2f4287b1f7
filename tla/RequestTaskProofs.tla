------------------------- MODULE RequestTaskProofs -------------------------
(***************************************************************************)
(* The task of a request, for every file system, every set of routes, and  *)
(* whatever changes and fails meanwhile: it leaves no descriptor behind,   *)
(* its answer is the right one if nothing has changed, and a file that it  *)
(* sends was the right one at some moment.  On the way, the router takes   *)
(* the right route, lexically_normal() keeps its promises, and the look-up *)
(* of mime_type() finds what its table has in order.                       *)
(***************************************************************************)
EXTENDS RequestTask, WellFoundedInduction, SequenceTheorems, TLAPS

(* Which descriptor is open at each point of serve_file(), and whose it is: *)
(* the task's own between open() and set_sendfile(), then the response's.   *)
DescriptorInv ==
    /\ pc \in {"fstat", "mime"} => openFiles = {file_fd}
    /\ pc = "post" => openFiles \subseteq {resp.file}
    /\ pc \notin {"fstat", "mime", "post"} => openFiles = {}

LEMMA DescriptorStep == DescriptorInv /\ [Next]_vars => DescriptorInv'
<1> SUFFICES ASSUME DescriptorInv, [Next]_vars PROVE DescriptorInv'
  OBVIOUS
<1>1. ASSUME NEW r \in Registrations, RegisterRoute(r) PROVE DescriptorInv'
  BY <1>1 DEF RegisterRoute, taskVars, DescriptorInv
<1>2. CASE Serve
  BY <1>2 DEF Serve, DescriptorInv
<1>3. ASSUME NEW path \in ChangingPaths, NEW kind \in Replacements, Change(path, kind)
      PROVE  DescriptorInv'
  BY <1>3 DEF Change, taskVars, DescriptorInv
<1>4. ASSUME NEW req \in Requests, Dispatch(req) PROVE DescriptorInv'
  <2>1. openFiles = {} /\ openFiles' = openFiles /\ pc' \in {"post", "resolve"}
    BY <1>4 DEF Dispatch, Answers, DescriptorInv
  <2> QED
    BY <2>1 DEF DescriptorInv
<1>5. CASE CallResolve
  <2>1. openFiles = {} /\ openFiles' = openFiles /\ pc' \in {"post", "exists"}
    BY <1>5 DEF CallResolve, Answers, DescriptorInv
  <2> QED
    BY <2>1 DEF DescriptorInv
<1>6. ASSUME Exists \/ ExistsIndex \/ IsDirectory \/ IsRegularFile PROVE DescriptorInv'
  <2>1. openFiles = {} /\ openFiles' = openFiles
    BY <1>6 DEF Exists, ExistsIndex, IsDirectory, IsRegularFile, ExistsThen, DescriptorInv
  <2>2. pc' \in {"post", "idle", "is_directory", "exists_index", "is_regular_file", "open"}
    BY <1>6 DEF Exists, ExistsIndex, IsDirectory, IsRegularFile, ExistsThen, Answers, Throws
  <2> QED
    BY <2>1, <2>2 DEF DescriptorInv
<1>7. CASE Open
  <2>1. openFiles = {}
    BY <1>7 DEF Open, DescriptorInv
  <2>2. \/ pc' = "fstat" /\ openFiles' = {file_fd'}
        \/ pc' = "post" /\ openFiles' = {}
    BY <1>7, <2>1 DEF Open, Answers
  <2> QED
    BY <2>2 DEF DescriptorInv
<1>8. CASE Fstat
  <2>1. openFiles = {file_fd}
    BY <1>8 DEF Fstat, DescriptorInv
  <2>2. \/ pc' = "mime" /\ openFiles' = {file_fd'}
        \/ pc' = "post" /\ openFiles' = {}
    BY <1>8, <2>1 DEF Fstat, FstatReturns, FstatFails, Answers
  <2> QED
    BY <2>2 DEF DescriptorInv
<1>9. CASE MimeTurn
  BY <1>9 DEF MimeTurn, taskVars, DescriptorInv
<1>10. CASE SetSendfile
  <2>1. pc' = "post" /\ resp'.file = file_fd /\ openFiles' = {file_fd}
    BY <1>10 DEF SetSendfile, Answers, Response, DescriptorInv
  <2> QED
    BY <2>1 DEF DescriptorInv
<1>11. CASE Post
  <2>1. pc' = "idle" /\ openFiles' = {}
    BY <1>11 DEF Post, DescriptorInv
  <2> QED
    BY <2>1 DEF DescriptorInv
<1>12. CASE UNCHANGED vars
  BY <1>12 DEF vars, taskVars, DescriptorInv
<1> QED
  BY <1>1, <1>2, <1>3, <1>4, <1>5, <1>6, <1>7, <1>8, <1>9, <1>10, <1>11, <1>12 DEF Next

(* When a task has ended, however it ended, every descriptor it opened is    *)
(* closed or handed to the loop (static_handler.cpp:47-68, main.cpp:128-134).*)
THEOREM NothingLeftOpen == Spec => []NoDescriptorLost
<1>1. Init => DescriptorInv
  BY DEF Init, DescriptorInv
<1>2. DescriptorInv => NoDescriptorLost
  BY DEF DescriptorInv, NoDescriptorLost
<1> QED
  BY <1>1, <1>2, DescriptorStep, PTL DEF Spec

-----------------------------------------------------------------------------
(* Types.  The nodes of the file system are well formed, `file_fd' is the    *)
(* open descriptor and nothing outside open() .. set_sendfile(), and a       *)
(* search stays inside the table.                                            *)
FileTypes == [kind : Kinds, id : Nat]

TaskTyped ==
    /\ routes_ \in Seq(Registrations)
    /\ DOMAIN fs = DOMAIN InitialFs
    /\ \A path \in DOMAIN fs : fs[path] \in FileTypes
    /\ changes \in 0 .. MaxChanges
    /\ pc \in {"startup", "idle", "resolve", "exists", "is_directory", "exists_index",
               "is_regular_file", "open", "fstat", "mime", "post"}
    /\ request \in Requests \cup {NoRequest}
    /\ resp.status \in {"none", "200", "403", "404", "500", "exception"}

HandsTyped ==
    /\ openFiles \subseteq FileTypes
    /\ pc \notin {"fstat", "mime"} => file_fd = NoFile
    /\ pc = "post" /\ resp.file # NoFile => resp.file \in openFiles

SearchInTable ==
    /\ first \in 1 .. Len(MIME_TABLE) + 1 /\ len \in Nat
    /\ first + len <= Len(MIME_TABLE) + 1

LEMMA FilesAssumed ==
    \A path \in DOMAIN InitialFs : InitialFs[path] \in FileTypes
BY TaskAssumption DEF FileTypes

LEMMA ChangesAssumed ==
    /\ ChangingPaths \subseteq DOMAIN InitialFs /\ Replacements \subseteq Kinds
    /\ MaxRoutes \in Nat /\ MaxChanges \in Nat
BY TaskAssumption

LEMMA TaskTypeInit == Init => TaskTyped /\ HandsTyped /\ SearchInTable
<1> SUFFICES ASSUME Init PROVE TaskTyped /\ HandsTyped /\ SearchInTable
  OBVIOUS
<1>1. TaskTyped
  <2>1. routes_ = <<>> /\ fs = InitialFs /\ changes = 0 /\ pc = "startup"
        /\ request = NoRequest
    BY DEF Init
  <2>2. resp.status = "none"
    BY DEF Init, TextResponse, Response
  <2> QED
    BY <2>1, <2>2, FilesAssumed, ChangesAssumed DEF TaskTyped
<1>2. HandsTyped
  BY DEF Init, HandsTyped
<1>3. SearchInTable
  <2>1. first = 1 /\ len = Len(MIME_TABLE)
    BY DEF Init
  <2>2. Len(MIME_TABLE) \in Nat
    BY MimeAssumption
  <2> QED
    BY <2>1, <2>2 DEF SearchInTable
<1> QED
  BY <1>1, <1>2, <1>3

(* Adding a route gives the registration back. *)
LEMMA RouteIsRegistration ==
    ASSUME NEW r \in Registrations, routes_ \in Seq(Registrations), RegisterRoute(r)
    PROVE  routes_' \in Seq(Registrations)
<1>1. routes_' = Append(routes_, r)
  BY TaskAssumption DEF RegisterRoute, AddRoute, AddPrefixRoute
<1> QED
  BY <1>1

(* Only nodes that exist are opened. *)
LEMMA OpenedIsNode ==
    ASSUME NEW files, NEW p, Kind(files, p) \in {"file", "dir", "locked"},
           \A path \in DOMAIN files : files[path] \in FileTypes
    PROVE  Node(files, p) \in FileTypes
<1> DEFINE obstacle == Obstacle(files, Named(p))
           kind == NodeKind(files, Named(p))
<1>1. Kind(files, p) = CASE obstacle = "locked" -> "error"
          [] obstacle \notin {"dir", "locked"} -> "none"
          [] OTHER -> IF Last(p) = "" /\ kind \in {"file", "socket"} THEN "none" ELSE kind
  BY DEF Kind
<1>2. kind # "none" => Named(p) \in DOMAIN files
  BY DEF NodeKind
<1> HIDE DEF obstacle, kind
<1>3. kind # "none"
  BY <1>1
<1> QED
  BY <1>2, <1>3 DEF Node

LEMMA SearchStaysInTable == SearchInTable /\ SearchTurn => SearchInTable'
<1> SUFFICES ASSUME SearchInTable, SearchTurn PROVE SearchInTable'
  OBVIOUS
<1> DEFINE half == len \div 2
<1>1. len \in Nat /\ len > 0 /\ first \in Nat /\ first >= 1 /\ Len(MIME_TABLE) \in Nat
      /\ first + len <= Len(MIME_TABLE) + 1
  BY MimeAssumption DEF SearchInTable, SearchTurn
<1>2. half \in 0 .. (len - 1)
  BY <1>1
<1>3. \/ first' = first + half + 1 /\ len' = len - half - 1
      \/ len' = half /\ first' = first
  BY DEF SearchTurn
<1> HIDE DEF half
<1> QED
  BY <1>1, <1>2, <1>3 DEF SearchInTable

LEMMA TaskTypeStep ==
    DescriptorInv /\ TaskTyped /\ HandsTyped /\ SearchInTable /\ [Next]_vars
    => TaskTyped' /\ HandsTyped' /\ SearchInTable'
<1> SUFFICES ASSUME DescriptorInv, TaskTyped, HandsTyped, SearchInTable, [Next]_vars
             PROVE  TaskTyped' /\ HandsTyped' /\ SearchInTable'
  OBVIOUS
<1> DEFINE Typed == TaskTyped /\ HandsTyped /\ SearchInTable
<1>0. NoFile.kind = "none" /\ \A status : TextResponse(status).status = status
                                          /\ TextResponse(status).file = NoFile
  BY DEF NoFile, TextResponse, Response
<1>1. ASSUME NEW r \in Registrations, RegisterRoute(r) PROVE Typed'
  <2>1. routes_' \in Seq(Registrations)
    BY <1>1, RouteIsRegistration DEF TaskTyped
  <2> QED
    BY <1>1, <2>1
       DEF RegisterRoute, taskVars, searchVars, TaskTyped, HandsTyped, SearchInTable
<1>2. CASE Serve
  BY <1>2 DEF Serve, serverVars, searchVars, TaskTyped, HandsTyped, SearchInTable
<1>3. ASSUME NEW path \in ChangingPaths, NEW kind \in Replacements, Change(path, kind)
      PROVE  Typed'
  <2>1. changes' = changes + 1 /\ changes' \in 0 .. MaxChanges /\ changes' \in Nat
    BY <1>3, ChangesAssumed DEF Change, TaskTyped
  <2> DEFINE node == [kind |-> kind, id |-> 10 + changes']
  <2>2. node \in FileTypes
    BY <2>1, ChangesAssumed DEF FileTypes
  <2>3. fs' = [fs EXCEPT ![path] = node]
    BY <1>3 DEF Change
  <2> HIDE DEF node
  <2>4. /\ DOMAIN fs' = DOMAIN InitialFs
        /\ \A p \in DOMAIN fs' : fs'[p] \in FileTypes
    BY <2>2, <2>3 DEF TaskTyped
  <2>5. UNCHANGED <<routes_, taskVars, searchVars>>
    BY <1>3 DEF Change
  <2> QED
    BY <2>1, <2>4, <2>5 DEF taskVars, searchVars, TaskTyped, HandsTyped, SearchInTable
<1>4. ASSUME NEW req \in Requests, Dispatch(req) PROVE Typed'
  <2>1. /\ request' = req /\ pc' \in {"post", "resolve"} /\ file_fd = NoFile
        /\ resp'.status \in {"404", "200", "none"} /\ resp'.file = NoFile
    BY <1>0, <1>4 DEF Dispatch, Answers, HandsTyped
  <2>2. UNCHANGED <<serverVars, file_fd, openFiles, searchVars>>
    BY <1>4 DEF Dispatch
  <2> QED
    BY <2>1, <2>2 DEF serverVars, searchVars, TaskTyped, HandsTyped, SearchInTable
<1>5. ASSUME CallResolve \/ Exists \/ ExistsIndex \/ IsDirectory \/ IsRegularFile
      PROVE  Typed'
  <2>1. /\ UNCHANGED <<serverVars, request, file_fd, openFiles, searchVars>>
        /\ pc \notin {"fstat", "mime"}
    BY <1>5 DEF CallResolve, Exists, ExistsIndex, ExistsThen, IsDirectory, IsRegularFile
  <2>2. pc' \in {"post", "idle", "exists", "is_directory", "exists_index",
                 "is_regular_file", "open"}
    BY <1>5 DEF CallResolve, Exists, ExistsIndex, ExistsThen, IsDirectory, IsRegularFile,
                Answers, Throws
  <2>3. \/ resp' = resp /\ pc' # "post"
        \/ resp'.status \in {"403", "404", "exception"} /\ resp'.file = NoFile
    BY <1>0, <1>5 DEF CallResolve, Exists, ExistsIndex, ExistsThen, IsDirectory,
                      IsRegularFile, Answers, Throws
  <2> QED
    BY <2>1, <2>2, <2>3 DEF serverVars, searchVars, TaskTyped, HandsTyped, SearchInTable
<1>6. CASE Open
  <2>1. UNCHANGED <<serverVars, request, searchVars>> /\ file_fd = NoFile
    BY <1>6 DEF Open, HandsTyped
  <2>2. CASE /\ Kind(fs, target) \in {"file", "dir", "locked"}
             /\ file_fd' = Node(fs, target)
             /\ openFiles' = openFiles \cup {file_fd'}
             /\ pc' = "fstat" /\ UNCHANGED <<resp, failed>>
    <3>1. file_fd' \in FileTypes
      BY <2>2, OpenedIsNode DEF TaskTyped
    <3> QED
      BY <2>1, <2>2, <3>1 DEF serverVars, searchVars, TaskTyped, HandsTyped, SearchInTable
  <2>3. CASE Answers(TextResponse("500")) /\ UNCHANGED <<file_fd, openFiles>>
    BY <1>0, <2>1, <2>3
       DEF Answers, serverVars, searchVars, TaskTyped, HandsTyped, SearchInTable
  <2> QED
    BY <1>6, <2>2, <2>3 DEF Open
<1>7. CASE Fstat
  <2>1. UNCHANGED <<serverVars, request>>
    BY <1>7 DEF Fstat
  <2>2. CASE FstatReturns
    BY <2>1, <2>2, MimeAssumption
       DEF FstatReturns, StartSearch, serverVars, TaskTyped, HandsTyped, SearchInTable
  <2>3. CASE FstatFails
    BY <1>0, <2>1, <2>3
       DEF FstatFails, Answers, serverVars, searchVars, TaskTyped, HandsTyped, SearchInTable
  <2> QED
    BY <1>7, <2>2, <2>3 DEF Fstat
<1>8. CASE MimeTurn
  <2>1. SearchInTable'
    BY <1>8, SearchStaysInTable DEF MimeTurn
  <2> QED
    BY <1>8, <2>1 DEF MimeTurn, serverVars, taskVars, TaskTyped, HandsTyped
<1>9. CASE SetSendfile
  <2>1. /\ openFiles = {file_fd} /\ openFiles' = openFiles /\ file_fd' = NoFile
        /\ pc' = "post" /\ resp'.file = file_fd /\ resp'.status = "200"
    BY <1>9 DEF SetSendfile, DescriptorInv, Answers, Response
  <2>2. UNCHANGED <<serverVars, request, searchVars>>
    BY <1>9 DEF SetSendfile
  <2> QED
    BY <2>1, <2>2 DEF serverVars, searchVars, TaskTyped, HandsTyped, SearchInTable
<1>10. CASE Post
  BY <1>10 DEF Post, serverVars, searchVars, TaskTyped, HandsTyped, SearchInTable
<1>11. CASE UNCHANGED vars
  BY <1>11 DEF vars, serverVars, taskVars, searchVars, TaskTyped, HandsTyped, SearchInTable
<1> QED
  BY <1>1, <1>2, <1>3, <1>4, <1>5, <1>6, <1>7, <1>8, <1>9, <1>10, <1>11 DEF Next

(* Every state of a task is well formed: a response's descriptor is open as  *)
(* long as the task holds it, nothing but a node of the file system is ever  *)
(* opened, and the search never leaves its table                             *)
(* (static_handler.cpp:47-76, mime.cpp:73-80).                               *)
THEOREM TaskTypeCorrect == Spec => []TypeOK
<1>1. DescriptorInv /\ TaskTyped /\ HandsTyped /\ SearchInTable => TypeOK
  BY DEF DescriptorInv, TaskTyped, HandsTyped, SearchInTable, FileTypes, TypeOK
<1>2. Init => DescriptorInv
  BY DEF Init, DescriptorInv
<1> QED
  BY <1>1, <1>2, TaskTypeInit, TaskTypeStep, DescriptorStep, PTL DEF Spec

-----------------------------------------------------------------------------
(* mime_type() *)

(* What lower_bound knows in each turn: the entries before `first` are less  *)
(* than the key, those from first + len on are not.                          *)
SearchInv ==
    /\ extension \in Extensions
    /\ first \in 1 .. Len(MIME_TABLE) + 1 /\ len \in Nat
    /\ first + len <= Len(MIME_TABLE) + 1
    /\ \A i \in 1 .. Len(MIME_TABLE) :
           /\ i < first => Less(MIME_TABLE[i], extension)
           /\ i >= first + len => ~Less(MIME_TABLE[i], extension)

LEMMA TableTypes ==
    /\ Len(MIME_TABLE) \in Nat
    /\ \A i \in 1 .. Len(MIME_TABLE) : MIME_TABLE[i] \in Extensions
BY MimeAssumption

(* The order of ranks is transitive. *)
LEMMA LessTransitive ==
    ASSUME NEW e \in Extensions, NEW f \in Extensions, NEW g \in Extensions
    PROVE  /\ Less(e, f) /\ Less(f, g) => Less(e, g)
           /\ ~Less(e, e)
           /\ Less(e, f) \/ Less(f, e) \/ e = f
<1>1. Rank[e] \in Nat /\ Rank[f] \in Nat /\ Rank[g] \in Nat
  BY MimeAssumption
<1>2. Rank[e] = Rank[f] => e = f
  BY MimeAssumption
<1> QED
  BY <1>1, <1>2 DEF Less

LEMMA SearchStarts == SearchInit => SearchInv
BY TableTypes DEF SearchInit, SearchInv

LEMMA SortedIsSearchable ==
    ASSUME Sorted, NEW e \in Extensions
    PROVE  Searchable(e)
<1> SUFFICES ASSUME NEW i \in 1 .. Len(MIME_TABLE), NEW j \in 1 .. Len(MIME_TABLE), i < j
             PROVE  /\ Less(MIME_TABLE[j], e) => Less(MIME_TABLE[i], e)
                    /\ MIME_TABLE[j] = e => Less(MIME_TABLE[i], e)
  BY DEF Searchable
<1>1. Less(MIME_TABLE[i], MIME_TABLE[j])
  BY DEF Sorted
<1> QED
  BY <1>1, TableTypes, LessTransitive

LEMMA SearchGoesOn ==
    SearchInv /\ Searchable(extension) /\ [SearchTurn]_searchVars
    => SearchInv' /\ Searchable(extension)'
<1> SUFFICES ASSUME SearchInv, Searchable(extension), [SearchTurn]_searchVars
             PROVE  SearchInv' /\ Searchable(extension)'
  OBVIOUS
<1>0. extension' = extension
  BY DEF SearchTurn, searchVars
<1>1. CASE UNCHANGED searchVars
  BY <1>1 DEF SearchInv, searchVars, Searchable, Less
<1>2. CASE SearchTurn
  <2> DEFINE half == len \div 2
             mid == first + half
  <2>1. len \in Nat /\ len > 0
    BY <1>2 DEF SearchInv, SearchTurn
  <2>2. half \in 0 .. (len - 1)
    BY <2>1
  <2>3. mid \in first .. (first + len - 1) /\ mid \in 1 .. Len(MIME_TABLE)
    BY <2>2, TableTypes DEF SearchInv
  <2>4. \/ Less(MIME_TABLE[mid], extension) /\ first' = mid + 1 /\ len' = len - half - 1
        \/ ~Less(MIME_TABLE[mid], extension) /\ len' = half /\ first' = first
    BY <1>2 DEF SearchTurn
  <2>5. Searchable(extension)'
    BY <1>0 DEF Searchable, Less
  <2> HIDE DEF half
  <2>6. CASE Less(MIME_TABLE[mid], extension) /\ first' = mid + 1 /\ len' = len - half - 1
    <3>1. /\ first' \in 1 .. Len(MIME_TABLE) + 1 /\ len' \in Nat
          /\ first' + len' = first + len
      BY <2>1, <2>2, <2>3, <2>6, TableTypes DEF SearchInv
    <3>2. ASSUME NEW i \in 1 .. Len(MIME_TABLE), i < first'
          PROVE  Less(MIME_TABLE[i], extension)
      <4>1. i = mid \/ i < mid
        BY <2>3, <2>6, <3>2
      <4> QED
        BY <2>3, <2>6, <4>1 DEF Searchable
    <3> QED
      BY <1>0, <2>5, <3>1, <3>2 DEF SearchInv, Less
  <2>7. CASE ~Less(MIME_TABLE[mid], extension) /\ len' = half /\ first' = first
    <3>1. len' \in Nat /\ first' + len' = mid /\ mid <= Len(MIME_TABLE) + 1
      BY <2>2, <2>3, <2>7, TableTypes DEF SearchInv
    <3>2. ASSUME NEW i \in 1 .. Len(MIME_TABLE), i >= mid
          PROVE  ~Less(MIME_TABLE[i], extension)
      <4>1. i = mid \/ mid < i
        BY <2>3, <3>2
      <4> QED
        BY <2>3, <2>7, <4>1 DEF Searchable
    <3> QED
      BY <1>0, <2>5, <2>7, <3>1, <3>2 DEF SearchInv, Less
  <2> QED
    BY <2>4, <2>6, <2>7
<1> QED
  BY <1>1, <1>2

(* When nothing is left to search, a listed key is where the search ends.     *)
LEMMA EndIsFound == SearchInv /\ Searchable(extension) => ListedIsFound
<1> SUFFICES ASSUME SearchInv, Searchable(extension), len = 0, Listed(extension) PROVE Found
  BY DEF ListedIsFound
<1>1. PICK i \in 1 .. Len(MIME_TABLE) : MIME_TABLE[i] = extension
  BY DEF Listed
<1>2. ~Less(extension, extension)
  BY LessTransitive DEF SearchInv
<1>3. first <= i
  BY <1>1, <1>2 DEF SearchInv
<1>4. first \in 1 .. Len(MIME_TABLE)
  BY <1>3, TableTypes DEF SearchInv
<1>5. ~Less(MIME_TABLE[first], extension)
  BY <1>4 DEF SearchInv
<1>6. first < i => MIME_TABLE[first] = extension
  BY <1>1, <1>4, <1>5 DEF Searchable
<1> QED
  BY <1>1, <1>3, <1>4, <1>6 DEF Found, SearchInv

(* What the search for an extension depends on is where the table has it, and *)
(* nothing else: an extension is found if the table is in order around it      *)
(* (mime.cpp:66-72).                                                           *)
THEOREM SearchableIsFound == SearchSpec => [](Searchable(extension) => ListedIsFound)
<1> DEFINE Inv == Searchable(extension) => SearchInv
<1>1. SearchInit => Inv
  BY SearchStarts
<1>2. Inv /\ [SearchTurn]_searchVars => Inv'
  <2> SUFFICES ASSUME Inv, [SearchTurn]_searchVars, Searchable(extension)' PROVE SearchInv'
    OBVIOUS
  <2>1. extension' = extension
    BY DEF SearchTurn, searchVars
  <2>2. Searchable(extension)
    BY <2>1 DEF Searchable, Less
  <2> QED
    BY <2>2, SearchGoesOn
<1>3. Inv => (Searchable(extension) => ListedIsFound)
  BY EndIsFound
<1> HIDE DEF Inv
<1> QED
  BY <1>1, <1>2, <1>3, PTL DEF SearchSpec

(* So every extension is found if the table is sorted, as mime.cpp:67 says it  *)
(* is.                                                                         *)
THEOREM SortedIsFound ==
    ASSUME Sorted
    PROVE  SearchSpec => []ListedIsFound
<1> DEFINE Inv == SearchInv /\ Searchable(extension)
<1>1. SearchInit => Inv
  BY SearchStarts, SortedIsSearchable DEF SearchInit
<1>2. Inv /\ [SearchTurn]_searchVars => Inv'
  BY SearchGoesOn
<1>3. Inv => ListedIsFound
  BY EndIsFound
<1> HIDE DEF Inv
<1> QED
  BY <1>1, <1>2, <1>3, PTL DEF SearchSpec

-----------------------------------------------------------------------------
(* Loops.  Both loops below are functions on 0 .. n defined by recursion; that *)
(* such a function exists, and what holds of its last value, is shown by       *)
(* induction.                                                                  *)

(* Every set of numbers that holds 0 and successors holds all; and a set of    *)
(* numbers that is not empty has a least element.                              *)
LEMMA LeastNumber ==
    ASSUME NEW T, T \subseteq Nat, T # {}
    PROVE  \E x \in T : \A y \in T : x <= y
<1> DEFINE less == OpToRel(<, Nat)
<1>1. IsWellFoundedOn(less, Nat)
  BY NatLessThanWellFounded
<1>2. \A x, y \in Nat : y < x => <<y, x>> \in less
  BY DEF OpToRel
<1> HIDE DEF less
<1>3. PICK x \in T : \A y \in T : ~(<<y, x>> \in less)
  BY <1>1, WFMin
<1>4. ASSUME NEW y \in T PROVE x <= y
  <2>1. x \in Nat /\ y \in Nat
    OBVIOUS
  <2>2. ~(y < x)
    BY <1>2, <1>3, <2>1
  <2> QED
    BY <2>1, <2>2
<1> QED
  BY <1>4

LEMMA AllNumbers ==
    ASSUME NEW N, 0 \in N, \A n \in Nat : n \in N => n + 1 \in N
    PROVE  Nat \subseteq N
<1> DEFINE T == Nat \ N
<1>1. SUFFICES ASSUME T # {} PROVE FALSE
  OBVIOUS
<1>2. PICK x \in T : \A y \in T : x <= y
  BY <1>1, LeastNumber
<1>3. x \in Nat /\ x # 0
  OBVIOUS
<1>4. x - 1 \in Nat /\ ~(x <= x - 1) /\ (x - 1) + 1 = x
  BY <1>3
<1>5. x - 1 \notin T
  BY <1>2, <1>4
<1> QED
  BY <1>3, <1>4, <1>5

(* dispatch() *)

LEMMA MinIsLeast ==
    ASSUME NEW T, T \subseteq Nat, T # {}
    PROVE  Min(T) \in T /\ \A y \in T : Min(T) <= y
BY LeastNumber DEF Min

(* Pass 1: the first exact route. *)
LEMMA ExactIsFirst ==
    ASSUME NEW routes, Len(routes) \in Nat, NEW req
    PROVE  LET exact == {i \in 1 .. Len(routes) : IsExact(routes[i], req)}
           IN  /\ exact = {} => ExactRoute(routes, req) = 0
               /\ exact # {} => /\ ExactRoute(routes, req) \in exact
                                /\ \A j \in exact : ExactRoute(routes, req) <= j
<1> DEFINE exact == {i \in 1 .. Len(routes) : IsExact(routes[i], req)}
<1>1. ExactRoute(routes, req) = IF exact # {} THEN Min(exact) ELSE 0
  BY DEF ExactRoute, SelectInSeq
<1>2. exact \subseteq Nat
  OBVIOUS
<1> HIDE DEF exact
<1>3. exact # {} => Min(exact) \in exact /\ \A j \in exact : Min(exact) <= j
  BY <1>2, MinIsLeast
<1> QED
  BY <1>1, <1>3 DEF exact

(* Pass 2.  What the loop has in `best' after each turn: the longest prefix    *)
(* so far, and of those as long as it the first.                               *)
BestTurn(routes, req, i, g) == IF i = 0 THEN 0 ELSE Better(routes, req, g[i - 1], i)
BestTo(routes, req, n, g) == g = [i \in 0 .. n |-> BestTurn(routes, req, i, g)]

LEMMA BestAt ==
    ASSUME NEW routes, NEW req, NEW n, NEW g, BestTo(routes, req, n, g), NEW i \in 0 .. n
    PROVE  g[i] = BestTurn(routes, req, i, g)
BY DEF BestTo

LEMMA BestExists ==
    ASSUME NEW routes, NEW req, NEW n \in Nat
    PROVE  \E g : BestTo(routes, req, n, g)
<1> DEFINE N == {k \in Nat : \E g : BestTo(routes, req, k, g)}
<1>1. 0 \in N
  <2> DEFINE g == [i \in 0 .. 0 |-> 0]
  <2>1. BestTo(routes, req, 0, g)
    BY DEF BestTo, BestTurn
  <2> QED
    BY <2>1
<1>2. ASSUME NEW k \in Nat, k \in N PROVE k + 1 \in N
  <2>1. PICK g : BestTo(routes, req, k, g)
    BY <1>2
  <2> DEFINE next == BestTurn(routes, req, k + 1, g)
             h == [i \in 0 .. k + 1 |-> IF i = k + 1 THEN next ELSE g[i]]
  <2>2. h[k + 1] = next /\ (\A i \in 0 .. k : h[i] = g[i]) /\ h = [i \in 0 .. k + 1 |-> h[i]]
    <3> HIDE DEF next
    <3> QED
      OBVIOUS
  <2> HIDE DEF h
  <2>3. ASSUME NEW i \in 0 .. k + 1 PROVE h[i] = BestTurn(routes, req, i, h)
    <3>1. i # 0 => h[i - 1] = g[i - 1]
      <4>1. i # 0 => i - 1 \in 0 .. k
        OBVIOUS
      <4> QED
        BY <2>2, <4>1
    <3>2. BestTurn(routes, req, i, h) = BestTurn(routes, req, i, g)
      BY <3>1 DEF BestTurn
    <3>3. i # k + 1 => i \in 0 .. k
      OBVIOUS
    <3>4. i # k + 1 => h[i] = BestTurn(routes, req, i, g)
      BY <2>1, <2>2, <3>3, BestAt
    <3> QED
      BY <2>2, <3>2, <3>4
  <2>4. BestTo(routes, req, k + 1, h)
    BY <2>2, <2>3 DEF BestTo
  <2> QED
    BY <2>4
<1> HIDE DEF N
<1>3. n \in N
  BY <1>1, <1>2, AllNumbers
<1> QED
  BY <1>3 DEF N

Longer(routes, i, j) == Len(routes[i].path) > Len(routes[j].path)
Wins(routes, i, j) == Longer(routes, i, j) \/ (~Longer(routes, j, i) /\ i < j)
PrefixesTo(routes, req, k) == {i \in 1 .. k : IsPrefixMatch(routes[i], req)}
IsBest(routes, best, prefix) ==
    IF prefix = {} THEN best = 0
                   ELSE best \in prefix /\ \A j \in prefix \ {best} : Wins(routes, best, j)

LEMMA BestGoesOn ==
    ASSUME NEW routes, NEW req, NEW k \in Nat, k + 1 <= Len(routes), Len(routes) \in Nat,
           \A i \in 1 .. Len(routes) : Len(routes[i].path) \in Nat,
           NEW best, IsBest(routes, best, PrefixesTo(routes, req, k))
    PROVE  IsBest(routes, Better(routes, req, best, k + 1), PrefixesTo(routes, req, k + 1))
<1> DEFINE n == k + 1
           old == PrefixesTo(routes, req, k)
           new == PrefixesTo(routes, req, n)
           L(i) == Len(routes[i].path)
<1>1. /\ old \subseteq 1 .. k
      /\ \A i \in old : i \in 1 .. Len(routes) /\ i < n /\ L(i) \in Nat
      /\ n \in 1 .. Len(routes) /\ L(n) \in Nat
  BY DEF PrefixesTo
<1>2. new = IF IsPrefixMatch(routes[n], req) THEN old \cup {n} ELSE old
  BY DEF PrefixesTo
<1>3. best = 0 <=> old = {}
  BY <1>1 DEF IsBest
<1> HIDE DEF old, new
<1>4. CASE ~IsPrefixMatch(routes[n], req)
  BY <1>2, <1>4 DEF Better, old, new
<1>5. CASE IsPrefixMatch(routes[n], req) /\ old = {}
  <2>1. Better(routes, req, best, n) = n
    BY <1>3, <1>5 DEF Better
  <2>2. new = {n}
    BY <1>2, <1>5
  <2> QED
    BY <2>1, <2>2 DEF IsBest, new
<1>6. CASE IsPrefixMatch(routes[n], req) /\ old # {}
  <2>1. best \in old /\ \A j \in old \ {best} : Wins(routes, best, j)
    BY <1>6 DEF IsBest, old
  <2>2. new = old \cup {n} /\ n \notin old /\ best < n /\ best # 0 /\ L(best) \in Nat /\ best \in Nat
    BY <1>1, <1>2, <1>3, <1>6, <2>1
  <2>3. CASE L(n) > L(best)
    <3>1. Better(routes, req, best, n) = n
      BY <1>6, <2>3 DEF Better
    <3>2. ASSUME NEW j \in old PROVE L(n) > L(j)
      <4>1. j = best \/ L(best) > L(j) \/ ~(L(j) > L(best))
        BY <2>1 DEF Wins, Longer
      <4>2. L(j) \in Nat
        BY <1>1
      <4> HIDE DEF L
      <4> QED
        BY <1>1, <2>2, <2>3, <4>1, <4>2
    <3>3. \A j \in new \ {n} : Wins(routes, n, j)
      BY <2>2, <3>2 DEF Wins, Longer
    <3> QED
      BY <2>2, <3>1, <3>3 DEF IsBest, new
  <2>4. CASE ~(L(n) > L(best))
    <3>1. Better(routes, req, best, n) = best
      BY <2>2, <2>4 DEF Better
    <3>2. Wins(routes, best, n)
      BY <2>2, <2>4 DEF Wins, Longer
    <3> QED
      BY <2>1, <2>2, <3>1, <3>2 DEF IsBest, new
  <2> QED
    BY <2>3, <2>4
<1> QED
  BY <1>4, <1>5, <1>6

LEMMA PrefixIsBest ==
    ASSUME NEW routes, NEW req, Len(routes) \in Nat,
           \A i \in 1 .. Len(routes) : Len(routes[i].path) \in Nat
    PROVE  IsBest(routes, PrefixRoute(routes, req), PrefixesTo(routes, req, Len(routes)))
<1> DEFINE n == Len(routes)
           g == CHOOSE x : BestTo(routes, req, n, x)
           N == {k \in Nat : k <= n => IsBest(routes, g[k], PrefixesTo(routes, req, k))}
<1>1. PrefixRoute(routes, req) = g[n]
  BY DEF PrefixRoute, BestTo, BestTurn
<1>2. BestTo(routes, req, n, g)
  BY BestExists
<1> HIDE DEF g
<1>3. 0 \in N
  <2>1. g[0] = 0
    BY <1>2, BestAt DEF BestTurn
  <2>2. PrefixesTo(routes, req, 0) = {}
    BY DEF PrefixesTo
  <2> QED
    BY <2>1, <2>2 DEF IsBest
<1>4. ASSUME NEW k \in Nat, k \in N PROVE k + 1 \in N
  <2> SUFFICES ASSUME k + 1 <= n PROVE IsBest(routes, g[k + 1], PrefixesTo(routes, req, k + 1))
    OBVIOUS
  <2>1. IsBest(routes, g[k], PrefixesTo(routes, req, k))
    BY <1>4
  <2>2. g[k + 1] = Better(routes, req, g[k], k + 1)
    <3>1. k + 1 \in 0 .. n /\ k + 1 # 0 /\ (k + 1) - 1 = k
      OBVIOUS
    <3>2. g[k + 1] = BestTurn(routes, req, k + 1, g)
      BY <1>2, <3>1, BestAt
    <3> QED
      BY <3>1, <3>2 DEF BestTurn
  <2> QED
    BY <2>1, <2>2, BestGoesOn
<1> HIDE DEF N
<1>5. n \in N
  BY <1>3, <1>4, AllNumbers
<1> QED
  BY <1>1, <1>5 DEF N

(* Two routes cannot both win against all others. *)
LEMMA BestIsOne ==
    ASSUME NEW routes, NEW prefix, prefix \subseteq 1 .. Len(routes), Len(routes) \in Nat,
           \A i \in 1 .. Len(routes) : Len(routes[i].path) \in Nat,
           NEW b \in prefix, \A j \in prefix \ {b} : Wins(routes, b, j),
           NEW d \in prefix, \A j \in prefix \ {d} : Wins(routes, d, j)
    PROVE  b = d
<1> SUFFICES ASSUME b # d PROVE FALSE
  OBVIOUS
<1>1. Wins(routes, b, d) /\ Wins(routes, d, b)
  OBVIOUS
<1>2. b \in Nat /\ d \in Nat /\ Len(routes[b].path) \in Nat /\ Len(routes[d].path) \in Nat
  OBVIOUS
<1> QED
  BY <1>1, <1>2 DEF Wins, Longer

(* The two passes of dispatch() take the route that the rules of router.hpp    *)
(* ask for: the first exact route, otherwise the longest prefix, and of those  *)
(* as long as it the first; and none only if no route matches.                 *)
THEOREM DispatchIsRight ==
    ASSUME NEW routes \in Seq(Registrations), NEW req
    PROVE  /\ DispatchedRoute(routes, req) = RightRoute(routes, req)
           /\ RightRoute(routes, req) \in 0 .. Len(routes)
<1> DEFINE exact == {i \in 1 .. Len(routes) : IsExact(routes[i], req)}
           prefix == {i \in 1 .. Len(routes) : IsPrefixMatch(routes[i], req)}
           e == ExactRoute(routes, req)
           p == PrefixRoute(routes, req)
           right == RightRoute(routes, req)
<1>0. /\ Len(routes) \in Nat
      /\ \A i \in 1 .. Len(routes) : Len(routes[i].path) \in Nat
  <2>1. \A r \in Registrations : r.path \in Seq(Names)
    BY TaskAssumption
  <2> QED
    BY <2>1, LenProperties, ElementOfSeq
<1>1. /\ exact = {} => e = 0
      /\ exact # {} => e \in exact /\ \A j \in exact : e <= j
  BY <1>0, ExactIsFirst
<1>2. IsBest(routes, p, prefix)
  BY <1>0, PrefixIsBest DEF PrefixesTo
<1>3. right = CASE exact # {} -> CHOOSE i \in exact : \A j \in exact : i <= j
                [] exact = {} /\ prefix # {} ->
                       CHOOSE i \in prefix : \A j \in prefix \ {i} : Wins(routes, i, j)
                [] OTHER -> 0
  BY DEF RightRoute, Wins, Longer
<1>4. DispatchedRoute(routes, req) = IF e # 0 THEN e ELSE p
  BY DEF DispatchedRoute
<1>5. exact \subseteq 1 .. Len(routes) /\ prefix \subseteq 1 .. Len(routes)
  OBVIOUS
<1> HIDE DEF exact, prefix, e, p, right
<1>6. CASE exact # {}
  <2>1. right \in exact /\ \A j \in exact : right <= j
    BY <1>1, <1>3, <1>6
  <2>2. right = e /\ e # 0
    <3>1. right <= e /\ e <= right
      BY <1>1, <1>6, <2>1
    <3>2. right \in 1 .. Len(routes) /\ e \in 1 .. Len(routes)
      BY <1>1, <1>5, <1>6, <2>1
    <3> QED
      BY <1>0, <3>1, <3>2
  <2>3. right \in 1 .. Len(routes)
    BY <1>5, <2>1
  <2> QED
    BY <1>0, <1>4, <2>2, <2>3 DEF right
<1>7. CASE exact = {} /\ prefix # {}
  <2>1. p \in prefix /\ \A j \in prefix \ {p} : Wins(routes, p, j)
    BY <1>2, <1>7 DEF IsBest
  <2>2. right \in prefix /\ \A j \in prefix \ {right} : Wins(routes, right, j)
    BY <1>3, <1>7, <2>1
  <2>3. right = p
    BY <1>0, <1>5, <2>1, <2>2, BestIsOne
  <2> QED
    <3>1. right \in 1 .. Len(routes) /\ e = 0
      BY <1>1, <1>5, <1>7, <2>2
    <3> QED
      BY <1>0, <1>4, <2>3, <3>1 DEF right
<1>8. CASE exact = {} /\ prefix = {}
  BY <1>1, <1>2, <1>3, <1>4, <1>8 DEF IsBest, right
<1> QED
  BY <1>6, <1>7, <1>8

-----------------------------------------------------------------------------
(* Paths.  What lexically_normal() returns is not empty, and only its last    *)
(* name can be empty (a trailing slash).                                      *)

Plain == Names \ {"", ".", ".."}
NonEmptyPaths == Seq(Names) \ {<<>>}
IsNormal(p) == p \in NonEmptyPaths /\ \A i \in 1 .. Len(p) - 1 : p[i] # ""

LEMMA FrontIs ==
    ASSUME NEW S, NEW s \in Seq(S), s # <<>>
    PROVE  /\ Front(s) \in Seq(S) /\ Len(Front(s)) = Len(s) - 1
           /\ \A i \in 1 .. Len(s) - 1 : Front(s)[i] = s[i]
<1> DEFINE n == Len(s) - 1
           front == SubSeq(s, 1, n)
<1>1. n \in Nat /\ \A i \in 1 .. n : s[i] \in S
  BY EmptySeq, ElementOfSeq
<1>2. /\ front \in Seq(S)
      /\ Len(front) = (IF 1 <= n THEN n - 1 + 1 ELSE 0)
      /\ \A i \in 1 .. n - 1 + 1 : front[i] = s[1 + i - 1]
  <2>1. n \in Int /\ 1 \in Int
    BY <1>1
  <2> HIDE DEF n
  <2> QED
    BY <1>1, <2>1, SubSeqProperties
<1> HIDE DEF front
<1>3. Len(front) = n /\ \A i \in 1 .. n : front[i] = s[i]
  <2>1. n \in Nat
    BY <1>1
  <2> HIDE DEF n
  <2>2. Len(front) = n /\ n - 1 + 1 = n /\ \A i \in 1 .. n : 1 + i - 1 = i
    BY <1>2, <2>1
  <2> QED
    BY <1>2, <2>2
<1> QED
  BY <1>2, <1>3 DEF Front, front

LEMMA PlainIs ==
    ASSUME NEW names \in Seq(Plain)
    PROVE  names \in Seq(Names) /\ \A i \in 1 .. Len(names) : names[i] # ""
<1>1. Plain \subseteq Names /\ "" \notin Plain
  BY DEF Plain
<1> HIDE DEF Plain
<1> QED
  BY <1>1, SeqMonotonic, ElementOfSeq

LEMMA AddNameIsPlain ==
    ASSUME NEW names \in Seq(Plain), NEW name \in Names
    PROVE  AddName(names, name) \in Seq(Plain)
<1>1. CASE name \in {"", "."}
  BY <1>1 DEF AddName
<1>2. CASE name = ".."
  BY <1>2, FrontIs DEF AddName
<1>3. CASE name \notin {"", ".", ".."}
  <2>1. name \in Plain
    BY <1>3 DEF Plain
  <2>2. AddName(names, name) = Append(names, name)
    BY <1>3 DEF AddName
  <2> HIDE DEF Plain
  <2>3. Append(names, name) \in Seq(Plain)
    BY <2>1, AppendProperties
  <2> QED
    BY <2>2, <2>3
<1> QED
  BY <1>1, <1>2, <1>3

(* The names that the loop has after each turn. *)
NameTurn(path, i, g) == IF i = 0 THEN <<>> ELSE AddName(g[i - 1], path[i])
NamesTo(path, n, g) == g = [i \in 0 .. n |-> NameTurn(path, i, g)]

LEMMA NamesAt ==
    ASSUME NEW path, NEW n, NEW g, NamesTo(path, n, g), NEW i \in 0 .. n
    PROVE  g[i] = NameTurn(path, i, g)
BY DEF NamesTo

LEMMA NamesExist ==
    ASSUME NEW path, NEW n \in Nat
    PROVE  \E g : NamesTo(path, n, g)
<1> DEFINE N == {k \in Nat : \E g : NamesTo(path, k, g)}
<1>1. 0 \in N
  <2> DEFINE g == [i \in 0 .. 0 |-> <<>>]
  <2>1. NamesTo(path, 0, g)
    BY DEF NamesTo, NameTurn
  <2> QED
    BY <2>1
<1>2. ASSUME NEW k \in Nat, k \in N PROVE k + 1 \in N
  <2>1. PICK g : NamesTo(path, k, g)
    BY <1>2
  <2> DEFINE next == NameTurn(path, k + 1, g)
             h == [i \in 0 .. k + 1 |-> IF i = k + 1 THEN next ELSE g[i]]
  <2>2. h[k + 1] = next /\ (\A i \in 0 .. k : h[i] = g[i]) /\ h = [i \in 0 .. k + 1 |-> h[i]]
    <3> HIDE DEF next
    <3> QED
      OBVIOUS
  <2> HIDE DEF h
  <2>3. ASSUME NEW i \in 0 .. k + 1 PROVE h[i] = NameTurn(path, i, h)
    <3>1. i # 0 => h[i - 1] = g[i - 1]
      <4>1. i # 0 => i - 1 \in 0 .. k
        OBVIOUS
      <4> QED
        BY <2>2, <4>1
    <3>2. NameTurn(path, i, h) = NameTurn(path, i, g)
      BY <3>1 DEF NameTurn
    <3>3. i # k + 1 => i \in 0 .. k
      OBVIOUS
    <3>4. i # k + 1 => h[i] = NameTurn(path, i, g)
      BY <2>1, <2>2, <3>3, NamesAt
    <3> QED
      BY <2>2, <3>2, <3>4
  <2>4. NamesTo(path, k + 1, h)
    BY <2>2, <2>3 DEF NamesTo
  <2> QED
    BY <2>4
<1> HIDE DEF N
<1>3. n \in N
  BY <1>1, <1>2, AllNumbers
<1> QED
  BY <1>3 DEF N

LEMMA AppendName ==
    ASSUME NEW names \in Seq(Names), NEW name \in Names
    PROVE  LET s == Append(names, name)
           IN  /\ s \in Seq(Names) /\ s # <<>> /\ Len(s) = Len(names) + 1
               /\ s[Len(names) + 1] = name /\ \A i \in 1 .. Len(names) : s[i] = names[i]
<1> DEFINE S == Names
<1>1. names \in Seq(S) /\ name \in S
  OBVIOUS
<1> HIDE DEF S
<1>2. /\ Append(names, name) \in Seq(S) /\ Append(names, name) # <<>>
      /\ Len(Append(names, name)) = Len(names) + 1
  BY <1>1, AppendProperties
<1>3. /\ Append(names, name)[Len(names) + 1] = name
      /\ \A i \in 1 .. Len(names) : Append(names, name)[i] = names[i]
  BY <1>1, AppendProperties
<1> QED
  BY <1>2, <1>3 DEF S

LEMMA NormalIs ==
    ASSUME NEW path \in NonEmptyPaths
    PROVE  IsNormal(LexicallyNormal(path))
<1> DEFINE n == Len(path)
           g == CHOOSE x : NamesTo(path, n, x)
           N == {k \in Nat : k <= n => g[k] \in Seq(Plain)}
           normal == LexicallyNormal(path)
<1>0. n \in Nat /\ n >= 1 /\ \A i \in 1 .. n : path[i] \in Names
  BY DEF NonEmptyPaths
<1>1. normal = IF Last(path) \in {"", ".", ".."} THEN Append(g[n], "") ELSE g[n]
  BY DEF LexicallyNormal, NamesTo, NameTurn
<1>2. NamesTo(path, n, g)
  BY <1>0, NamesExist
<1> HIDE DEF g, normal
<1>3. ASSUME NEW k \in 1 .. n PROVE g[k] = AddName(g[k - 1], path[k])
  <2>1. k \in 0 .. n /\ k # 0
    BY <1>0
  <2> QED
    BY <1>2, <2>1, NamesAt DEF NameTurn
<1>4. 0 \in N
  <2>1. g[0] = <<>>
    BY <1>0, <1>2, NamesAt DEF NameTurn
  <2>2. <<>> \in Seq(Plain)
    BY EmptySeq
  <2> QED
    BY <2>1, <2>2
<1>5. ASSUME NEW k \in Nat, k \in N PROVE k + 1 \in N
  <2> SUFFICES ASSUME k + 1 <= n PROVE g[k + 1] \in Seq(Plain)
    OBVIOUS
  <2>1. k + 1 \in 1 .. n /\ (k + 1) - 1 = k
    BY <1>0
  <2>2. g[k] \in Seq(Plain)
    BY <1>0, <1>5
  <2>3. path[k + 1] \in Names
    BY <1>0, <2>1
  <2> QED
    BY <1>3, <2>1, <2>2, <2>3, AddNameIsPlain
<1> HIDE DEF N
<1>6. Nat \subseteq N
  BY <1>4, <1>5, AllNumbers
<1>7. g[n] \in Seq(Plain) /\ g[n - 1] \in Seq(Plain)
  BY <1>0, <1>6 DEF N
<1>8. ASSUME NEW names \in Seq(Plain), NEW name \in Names, normal = Append(names, name)
      PROVE  IsNormal(normal)
  <2>1. names \in Seq(Names) /\ \A i \in 1 .. Len(names) : names[i] # ""
    BY PlainIs
  <2>2. Len(names) \in Nat
    BY LenProperties
  <2>3. /\ normal \in Seq(Names) /\ Len(normal) = Len(names) + 1 /\ normal # <<>>
        /\ \A i \in 1 .. Len(names) : normal[i] = names[i]
    <3> DEFINE s == Append(names, name)
    <3>1. /\ s \in Seq(Names) /\ Len(s) = Len(names) + 1 /\ s # <<>>
          /\ \A i \in 1 .. Len(names) : s[i] = names[i]
      BY <2>1, AppendName
    <3> HIDE DEF s
    <3>2. normal = s
      BY <1>8 DEF s
    <3> QED
      BY <3>1, <3>2
  <2>4. Len(normal) - 1 = Len(names)
    BY <2>2, <2>3
  <2>5. \A i \in 1 .. Len(normal) - 1 : normal[i] # ""
    BY <2>1, <2>3, <2>4
  <2> QED
    BY <2>3, <2>5 DEF IsNormal, NonEmptyPaths
<1> DEFINE last == path[n]
<1>9. last \in Names /\ Last(path) = last
  BY <1>0 DEF Last
<1>10. g[n] = AddName(g[n - 1], last)
  BY <1>0, <1>3
<1> HIDE DEF last
<1>11. CASE last \in {"", ".", ".."}
  <2>1. normal = Append(g[n], "")
    BY <1>1, <1>9, <1>11
  <2>2. "" \in Names
    BY TaskAssumption
  <2> QED
    BY <1>7, <1>8, <2>1, <2>2 DEF normal
<1>12. CASE last \notin {"", ".", ".."}
  <2>1. normal = g[n]
    BY <1>1, <1>9, <1>12
  <2>2. AddName(g[n - 1], last) = Append(g[n - 1], last)
    BY <1>12 DEF AddName
  <2> QED
    BY <1>7, <1>8, <1>9, <1>10, <2>1, <2>2 DEF normal
<1> QED
  BY <1>11, <1>12

LEMMA CandidateIsNormal ==
    ASSUME NEW path \in NonEmptyPaths
    PROVE  IsNormal(Candidate(path))
<1>1. root_dir_ \o path \in NonEmptyPaths
  <2>1. root_dir_ \in Seq(Names) /\ root_dir_ # <<>>
    <3>1. "public" \in Names
      BY TaskAssumption
    <3> QED
      BY <3>1 DEF root_dir_
  <2> HIDE DEF root_dir_
  <2> QED
    BY <2>1, ConcatProperties, ConcatEqualIffEmpty DEF NonEmptyPaths
<1>2. CASE Len(path) > 1 /\ Head(path) = ""
  BY <1>2, NormalIs DEF Candidate
<1>3. CASE ~(Len(path) > 1 /\ Head(path) = "")
  BY <1>1, <1>3, NormalIs DEF Candidate
<1> QED
  BY <1>2, <1>3

-----------------------------------------------------------------------------
(* The file system *)

FilesTyped(files) ==
    /\ DOMAIN files = DOMAIN InitialFs
    /\ \A path \in DOMAIN files : files[path] \in FileTypes

LEMMA NodeKindTyped ==
    ASSUME NEW files, FilesTyped(files), NEW path
    PROVE  /\ NodeKind(files, path) \in Kinds
           /\ NodeKind(files, path) # "none" => path \in DOMAIN files
           /\ path \in DOMAIN files => NodeKind(files, path) = files[path].kind
BY DEF FilesTyped, FileTypes, NodeKind, Kinds

LEMMA KindTyped ==
    ASSUME NEW files, FilesTyped(files), NEW p
    PROVE  /\ Kind(files, p) \in Kinds \cup {"error"}
           /\ Kind(files, p) \notin {"none", "error"} =>
                  /\ Named(p) \in DOMAIN files /\ Kind(files, p) = files[Named(p)].kind
                  /\ Kind(files, p) = NodeKind(files, Named(p))
                  /\ Obstacle(files, Named(p)) = "dir"
           /\ Kind(files, p) \in {"file", "socket"} => Last(p) # "" /\ Named(p) = p
<1> DEFINE obstacle == Obstacle(files, Named(p))
           kind == NodeKind(files, Named(p))
<1>1. /\ kind \in Kinds
      /\ kind # "none" => Named(p) \in DOMAIN files /\ kind = files[Named(p)].kind
  BY NodeKindTyped
<1>2. Last(p) # "" => Named(p) = p
  BY DEF Named
<1>3. Kind(files, p) = CASE obstacle = "locked" -> "error"
          [] obstacle \notin {"dir", "locked"} -> "none"
          [] OTHER -> IF Last(p) = "" /\ kind \in {"file", "socket"} THEN "none" ELSE kind
  BY DEF Kind
<1> HIDE DEF obstacle, kind
<1>4. CASE obstacle = "locked"
  BY <1>3, <1>4
<1>5. CASE obstacle \notin {"dir", "locked"}
  BY <1>3, <1>5 DEF Kinds
<1>6. CASE obstacle = "dir"
  BY <1>1, <1>2, <1>3, <1>6 DEF Kinds, obstacle, kind
<1> QED
  BY <1>4, <1>5, <1>6

LEMMA KindIs ==
    ASSUME NEW files, NEW p, Last(p) # ""
    PROVE  Kind(files, p) = IF Obstacle(files, p) = "locked" THEN "error"
                            ELSE IF Obstacle(files, p) = "dir" THEN NodeKind(files, p)
                            ELSE "none"
<1> DEFINE obstacle == Obstacle(files, p)
           kind == NodeKind(files, p)
<1>1. Kind(files, p) = CASE obstacle = "locked" -> "error"
                         [] obstacle \notin {"dir", "locked"} -> "none"
                         [] OTHER -> kind
  BY DEF Kind, Named
<1> HIDE DEF obstacle, kind
<1> QED
  BY <1>1 DEF obstacle, kind

LEMMA NamesHave == {"", "public", "index.html"} \subseteq Names
BY TaskAssumption

(* root_dir_ is one name. *)
LEMMA RootIs ==
    ASSUME NEW s \in Seq(Names)
    PROVE  IsPrefix(root_dir_, s) <=> s # <<>> /\ s[1] = "public"
<1> DEFINE r == root_dir_
           front(t) == SubSeq(t, 1, 1)
<1>1. r \in Seq(Names) /\ Len(r) = 1 /\ r[1] = "public"
  <2>1. "public" \in Names
    BY NamesHave
  <2> QED
    BY <2>1 DEF root_dir_
<1> HIDE DEF r
<1>2. IsPrefix(r, s) <=> 1 <= Len(s) /\ front(r) = front(s)
  BY <1>1 DEF IsPrefix
<1>3. /\ front(r) \in Seq(Names) /\ Len(front(r)) = 1 /\ front(r)[1] = "public"
  <2>1. \A i \in 1 .. 1 : r[i] \in Names
    BY <1>1, ElementOfSeq
  <2>2. /\ front(r) \in Seq(Names) /\ Len(front(r)) = 1 - 1 + 1
        /\ \A i \in 1 .. 1 - 1 + 1 : front(r)[i] = r[1 + i - 1]
    BY <2>1, SubSeqProperties
  <2> HIDE DEF front
  <2> QED
    BY <1>1, <2>2
<1>4. ASSUME 1 <= Len(s)
      PROVE  /\ front(s) \in Seq(Names) /\ Len(front(s)) = 1 /\ front(s)[1] = s[1]
  <2>1. \A i \in 1 .. 1 : s[i] \in Names
    BY <1>4, ElementOfSeq, LenProperties
  <2>2. /\ front(s) \in Seq(Names) /\ Len(front(s)) = 1 - 1 + 1
        /\ \A i \in 1 .. 1 - 1 + 1 : front(s)[i] = s[1 + i - 1]
    BY <2>1, SubSeqProperties
  <2> HIDE DEF front
  <2> QED
    BY <2>2
<1>5. Len(s) \in Nat /\ (s # <<>> <=> 1 <= Len(s))
  BY LenProperties, EmptySeq
<1> HIDE DEF front
<1>6. 1 <= Len(s) => (front(r) = front(s) <=> s[1] = "public")
  <2> SUFFICES ASSUME 1 <= Len(s) PROVE front(r) = front(s) <=> s[1] = "public"
    OBVIOUS
  <2>1. s[1] = "public" => front(r) = front(s)
    BY <1>3, <1>4, SeqEqual
  <2> QED
    BY <1>3, <1>4, <2>1
<1> QED
  BY <1>2, <1>5, <1>6 DEF r

(* A normal path without its slash. *)
LEMMA NamedIs ==
    ASSUME NEW p, IsNormal(p)
    PROVE  /\ Named(p) \in Seq(Names)
           /\ Last(p) # "" => Named(p) = p
           /\ Last(p) = "" => Named(p) = Front(p)
           /\ Named(p) # <<>> => Last(Named(p)) # "" /\ Named(p) \in NonEmptyPaths
           /\ IsPrefix(root_dir_, p) /\ Named(p) # <<>> => IsPrefix(root_dir_, Named(p))
           /\ IsPrefix(root_dir_, Named(p)) => IsPrefix(root_dir_, p) /\ Named(p) # <<>>
           /\ Named(p) = <<>> => p[1] = ""
<1>1. p \in Seq(Names) /\ p # <<>> /\ Len(p) \in Nat /\ Len(p) >= 1
  <2>1. p \in Seq(Names) /\ p # <<>>
    BY DEF IsNormal, NonEmptyPaths
  <2> QED
    BY <2>1, EmptySeq, LenProperties
<1>2. CASE Last(p) # ""
  BY <1>1, <1>2, RootIs DEF Named, NonEmptyPaths
<1>3. CASE Last(p) = ""
  <2> DEFINE f == Front(p)
             n == Len(p) - 1
  <2>1. Named(p) = f
    BY <1>3 DEF Named
  <2>2. f \in Seq(Names) /\ Len(f) = n /\ \A i \in 1 .. n : f[i] = p[i]
    BY <1>1, FrontIs
  <2>3. n \in Nat /\ (f = <<>> <=> n = 0)
    BY <1>1, <2>2, EmptySeq
  <2>4. \A i \in 1 .. n : p[i] # ""
    BY DEF IsNormal
  <2>5. n = 0 => p[1] = ""
    <3>1. n = 0 => Len(p) = 1
      BY <1>1
    <3> QED
      BY <1>3, <3>1 DEF Last
  <2> HIDE DEF f, n
  <2>6. f # <<>> => 1 \in 1 .. n /\ n \in 1 .. n
    BY <2>3
  <2>7. f # <<>> => Last(f) # ""
    BY <2>2, <2>4, <2>6 DEF Last
  <2>8. f # <<>> => f[1] = p[1]
    BY <2>2, <2>6
  <2>9. IsPrefix(root_dir_, p) <=> p[1] = "public"
    BY <1>1, RootIs
  <2>10. IsPrefix(root_dir_, f) <=> f # <<>> /\ f[1] = "public"
    BY <2>2, RootIs
  <2> QED
    BY <1>3, <2>1, <2>2, <2>3, <2>5, <2>7, <2>8, <2>9, <2>10 DEF NonEmptyPaths, f
<1> QED
  BY <1>2, <1>3

(* weakly_canonical() takes the slash off a directory, and nothing else. *)
LEMMA CanonicalIs ==
    ASSUME NEW p, IsNormal(p), FilesTyped(fs)
    PROVE  LET c == WeaklyCanonical(p)
           IN  /\ c \in NonEmptyPaths /\ (c # p => Last(p) = "" /\ c = Named(p))
               /\ Named(c) = Named(p) /\ Kind(fs, c) = Kind(fs, p)
               /\ IsPrefix(root_dir_, c) <=> IsPrefix(root_dir_, Named(p))
<1> DEFINE c == WeaklyCanonical(p)
           named == Named(p)
<1>1. p \in NonEmptyPaths /\ p \in Seq(Names) /\ p # <<>> /\ Len(p) \in Nat /\ Len(p) >= 1
  <2>1. p \in Seq(Names) /\ p # <<>> /\ p \in NonEmptyPaths
    BY DEF IsNormal, NonEmptyPaths
  <2> QED
    BY <2>1, EmptySeq, LenProperties
<1>2. CASE Last(p) = "" /\ Len(p) > 1 /\ IsDir(p)
  <2>1. c = Front(p) /\ c = named
    BY <1>2 DEF WeaklyCanonical, Named
  <2>2. named # <<>>
    <3>1. Len(Front(p)) = Len(p) - 1 /\ Len(p) - 1 # 0
      <4>1. Len(Front(p)) = Len(p) - 1 /\ Front(p) \in Seq(Names)
        BY <1>1, FrontIs
      <4>2. Len(p) - 1 # 0
        <5> DEFINE n == Len(p)
        <5>1. n \in Nat /\ n > 1
          BY <1>1, <1>2
        <5> HIDE DEF n
        <5>2. n - 1 # 0
          BY <5>1
        <5> QED
          BY <5>2 DEF n
      <4> QED
        BY <4>1, <4>2
    <3> QED
      BY <2>1, <3>1, EmptySeq
  <2>3. Last(named) # "" /\ named \in NonEmptyPaths
    BY <2>2, NamedIs
  <2>4. Named(named) = named
    BY <2>3 DEF Named
  <2>5. Kind(fs, p) \in {"dir", "locked"}
    BY <1>2 DEF IsDir
  <2> HIDE DEF named
  <2>6. Kind(fs, named) = Kind(fs, p)
    <3>1. Kind(fs, p) = NodeKind(fs, named) /\ Obstacle(fs, named) = "dir"
      BY <2>5, KindTyped DEF named
    <3>2. Kind(fs, named) = NodeKind(fs, named)
      BY <2>3, <3>1, KindIs
    <3> QED
      BY <3>1, <3>2
  <2> QED
    BY <1>2, <2>1, <2>3, <2>4, <2>6 DEF named
<1>3. CASE ~(Last(p) = "" /\ Len(p) > 1 /\ IsDir(p))
  <2>1. c = p
    BY <1>3 DEF WeaklyCanonical
  <2>2. ASSUME IsPrefix(root_dir_, p) PROVE named # <<>>
    BY <1>1, <2>2, NamedIs, RootIs
  <2> QED
    BY <1>1, <2>1, <2>2, NamedIs
<1> QED
  BY <1>2, <1>3

(* The index of a directory: what is in the way to it is what is in the way to *)
(* the directory, and then the directory itself.                               *)
IndexOf(p) == Append(p, "index.html")

LEMMA IndexIs ==
    ASSUME NEW p \in NonEmptyPaths
    PROVE  /\ IndexOf(p) \in NonEmptyPaths /\ Len(IndexOf(p)) = Len(p) + 1
           /\ \A i \in 1 .. Len(p) : IndexOf(p)[i] = p[i]
           /\ Last(IndexOf(p)) = "index.html" /\ Last(IndexOf(p)) # ""
           /\ Named(IndexOf(p)) = IndexOf(p)
<1> DEFINE s == IndexOf(p)
<1>1. p \in Seq(Names) /\ Len(p) \in Nat
  BY LenProperties DEF NonEmptyPaths
<1>2. "index.html" \in Names
  BY NamesHave
<1>3. /\ s \in Seq(Names) /\ s # <<>> /\ Len(s) = Len(p) + 1 /\ s[Len(p) + 1] = "index.html"
      /\ \A i \in 1 .. Len(p) : s[i] = p[i]
  <2> DEFINE t == Append(p, "index.html")
  <2>1. /\ t \in Seq(Names) /\ t # <<>> /\ Len(t) = Len(p) + 1 /\ t[Len(p) + 1] = "index.html"
        /\ \A i \in 1 .. Len(p) : t[i] = p[i]
    BY <1>1, <1>2, AppendName
  <2> HIDE DEF t
  <2>2. s = t
    BY DEF IndexOf, t
  <2> QED
    BY <2>1, <2>2
<1> HIDE DEF s
<1>4. Last(s) = "index.html"
  BY <1>3 DEF Last
<1> QED
  BY <1>3, <1>4 DEF NonEmptyPaths, Named, s

LEMMA IndexPrefix ==
    ASSUME NEW p \in NonEmptyPaths, NEW i \in 1 .. Len(p)
    PROVE  SubSeq(IndexOf(p), 1, i) = SubSeq(p, 1, i)
<1> DEFINE s == IndexOf(p)
           a == SubSeq(s, 1, i)
           b == SubSeq(p, 1, i)
<1>1. /\ p \in Seq(Names) /\ s \in Seq(Names) /\ Len(p) \in Nat /\ Len(s) = Len(p) + 1
      /\ \A j \in 1 .. Len(p) : s[j] = p[j]
  BY IndexIs, LenProperties DEF NonEmptyPaths
<1> HIDE DEF s
<1>2. i \in Nat /\ i >= 1 /\ i <= Len(p) /\ i <= Len(s)
  BY <1>1
<1>3. \A j \in 1 .. i : p[j] \in Names /\ s[j] \in Names /\ s[j] = p[j]
  BY <1>1, <1>2, ElementOfSeq
<1>4. /\ a \in Seq(Names) /\ Len(a) = i - 1 + 1
      /\ \A j \in 1 .. i - 1 + 1 : a[j] = s[1 + j - 1]
  BY <1>2, <1>3, SubSeqProperties
<1>5. /\ b \in Seq(Names) /\ Len(b) = i - 1 + 1
      /\ \A j \in 1 .. i - 1 + 1 : b[j] = p[1 + j - 1]
  BY <1>2, <1>3, SubSeqProperties
<1> HIDE DEF a, b
<1>6. /\ Len(a) = i /\ \A j \in 1 .. i : a[j] = s[j]
  BY <1>2, <1>4
<1>7. /\ Len(b) = i /\ \A j \in 1 .. i : b[j] = p[j]
  BY <1>2, <1>5
<1>8. a = b
  BY <1>3, <1>4, <1>5, <1>6, <1>7, SeqEqual
<1> QED
  BY <1>8 DEF a, b, s

LEMMA ObstacleOfIndex ==
    ASSUME NEW files, NEW p \in NonEmptyPaths
    PROVE  Obstacle(files, IndexOf(p)) =
               IF Obstacle(files, p) = "dir" THEN NodeKind(files, p) ELSE Obstacle(files, p)
<1> DEFINE n == Len(p)
           old == {i \in 1 .. n - 1 : NodeKind(files, SubSeq(p, 1, i)) # "dir"}
           new == {i \in 1 .. Len(IndexOf(p)) - 1 :
                       NodeKind(files, SubSeq(IndexOf(p), 1, i)) # "dir"}
           kind(i) == NodeKind(files, SubSeq(p, 1, i))
<1>0. p \in Seq(Names) /\ n \in Nat /\ n >= 1 /\ n \in 1 .. n
  <2>1. p \in Seq(Names) /\ p # <<>>
    BY DEF NonEmptyPaths
  <2> QED
    BY <2>1, EmptySeq, LenProperties
<1>1. Len(IndexOf(p)) - 1 = n
  <2>1. Len(IndexOf(p)) = n + 1
    BY IndexIs
  <2> QED
    BY <1>0, <2>1
<1>2. new = {i \in 1 .. n : kind(i) # "dir"}
  BY <1>1, IndexPrefix
<1>3. old \subseteq 1 .. n - 1 /\ (\A i \in old : kind(i) # "dir")
      /\ new = IF kind(n) # "dir" THEN old \cup {n} ELSE old
  BY <1>0, <1>2
<1>4. SubSeq(p, 1, n) = p
  BY <1>0, SubSeqFull
<1>5. Obstacle(files, p) = IF old = {} THEN "dir" ELSE kind(Min(old))
  BY DEF Obstacle
<1>6. Obstacle(files, IndexOf(p)) =
          IF new = {} THEN "dir" ELSE NodeKind(files, SubSeq(IndexOf(p), 1, Min(new)))
  BY DEF Obstacle
<1> HIDE DEF old, new
<1>7. new # {} => Min(new) \in new /\ (\A y \in new : Min(new) <= y) /\ new \subseteq 1 .. n
  <2>1. new \subseteq 1 .. n /\ new \subseteq Nat
    <3> DEFINE m == n
               differs == kind(n) # "dir"
    <3>1. m \in Nat /\ m \in 1 .. m
      BY <1>0
    <3>2. old \subseteq 1 .. m - 1 /\ new = IF differs THEN old \cup {m} ELSE old
      BY <1>3
    <3> HIDE DEF m, differs
    <3>3. 1 .. m - 1 \subseteq 1 .. m /\ 1 .. m \subseteq Nat
      BY <3>1
    <3>4. new \subseteq 1 .. m
      BY <3>1, <3>2, <3>3
    <3> QED
      BY <3>3, <3>4 DEF m
  <2> QED
    BY <2>1, MinIsLeast
<1>8. old # {} => Min(old) \in old /\ \A y \in old : Min(old) <= y
  <2>1. old \subseteq Nat
    BY <1>0, <1>3
  <2> QED
    BY <2>1, MinIsLeast
<1>9. Obstacle(files, IndexOf(p)) = IF new = {} THEN "dir" ELSE kind(Min(new))
  BY <1>6, <1>7, IndexPrefix
<1>10. kind(n) = NodeKind(files, p)
  BY <1>4
<1>11. CASE old # {}
  <2>1. Min(old) \in new /\ new # {}
    BY <1>3, <1>8, <1>11
  <2>2. Min(new) \in old
    <3>1. Min(new) <= Min(old)
      BY <1>7, <2>1
    <3>2. Min(old) \in 1 .. n - 1 /\ Min(new) \in 1 .. n
      BY <1>3, <1>7, <1>8, <1>11, <2>1
    <3>3. Min(new) # n
      BY <1>0, <3>1, <3>2
    <3> QED
      BY <1>3, <1>7, <2>1, <3>3
  <2>3. Min(new) = Min(old)
    <3>1. Min(new) <= Min(old) /\ Min(old) <= Min(new)
      BY <1>7, <1>8, <1>11, <2>1, <2>2
    <3>2. Min(new) \in Nat /\ Min(old) \in Nat
      <4>1. old \subseteq Nat
        BY <1>3
      <4>2. Min(new) \in old /\ Min(old) \in old
        BY <1>8, <1>11, <2>2
      <4> QED
        BY <4>1, <4>2
    <3> QED
      BY <3>1, <3>2
  <2>4. kind(Min(old)) # "dir"
    BY <1>3, <1>8, <1>11
  <2> HIDE DEF kind
  <2> QED
    BY <1>5, <1>9, <1>11, <2>1, <2>3, <2>4
<1>12. CASE old = {} /\ kind(n) # "dir"
  <2>1. new = {n}
    BY <1>3, <1>12
  <2>2. Min(new) = n
    BY <1>7, <2>1
  <2> HIDE DEF kind
  <2> QED
    BY <1>5, <1>9, <1>10, <1>12, <2>1, <2>2
<1>13. CASE old = {} /\ kind(n) = "dir"
  <2>1. new = {}
    BY <1>3, <1>13
  <2> HIDE DEF kind
  <2> QED
    BY <1>5, <1>9, <1>10, <1>13, <2>1
<1> QED
  BY <1>11, <1>12, <1>13

(* A path can be looked up through a directory that can be searched only.       *)
LEMMA KindOfIndex ==
    ASSUME NEW files, FilesTyped(files), NEW p, Named(p) \in NonEmptyPaths
    PROVE  LET index == IndexOf(Named(p))
           IN  /\ Kind(files, p) = "locked" => Kind(files, index) = "error"
               /\ Kind(files, p) = "dir" => Kind(files, index) # "error"
               /\ Kind(files, index) = "file" /\ Last(p) # "" => Kind(files, p) = "dir"
<1> DEFINE named == Named(p)
           index == IndexOf(named)
<1>1. Last(index) # ""
  BY IndexIs
<1>2. Kind(files, index) = IF Obstacle(files, index) = "locked" THEN "error"
                           ELSE IF Obstacle(files, index) = "dir" THEN NodeKind(files, index)
                           ELSE "none"
  BY <1>1, KindIs
<1>3. Obstacle(files, index) =
          IF Obstacle(files, named) = "dir" THEN NodeKind(files, named)
                                            ELSE Obstacle(files, named)
  BY ObstacleOfIndex
<1>4. Kind(files, p) \in {"locked", "dir"} =>
          Obstacle(files, named) = "dir" /\ Kind(files, p) = NodeKind(files, named)
  BY KindTyped
<1>5. Last(p) # "" => named = p /\
          Kind(files, p) = IF Obstacle(files, named) = "locked" THEN "error"
                           ELSE IF Obstacle(files, named) = "dir" THEN NodeKind(files, named)
                           ELSE "none"
  BY KindIs DEF Named
<1>6. NodeKind(files, index) \in Kinds
  BY NodeKindTyped
<1> HIDE DEF named, index
<1>7. Kind(files, p) = "locked" => Kind(files, index) = "error"
  BY <1>2, <1>3, <1>4
<1>8. Kind(files, p) = "dir" => Kind(files, index) # "error"
  BY <1>2, <1>3, <1>4, <1>6 DEF Kinds
<1>9. Kind(files, index) = "file" /\ Last(p) # "" => Kind(files, p) = "dir"
  BY <1>2, <1>3, <1>5
<1> QED
  BY <1>7, <1>8, <1>9 DEF named, index

-----------------------------------------------------------------------------
(* serve_file().  What it answers from each of its calls on if nothing changes *)
(* any more, with `target' t.                                                  *)

Served(files, t) == FileResponse(Node(files, t), TypeOf(ExtensionOf[Last(t)]))

AtRegular(files, t) ==
    IF Kind(files, t) = "error" THEN TextResponse("exception")
    ELSE IF Kind(files, t) # "file" THEN TextResponse("403")
    ELSE Served(files, t)

AtIndex(files, t) ==
    IF Kind(files, t) = "error" THEN TextResponse("exception")
    ELSE IF Kind(files, t) = "none" THEN TextResponse("404")
    ELSE AtRegular(files, t)

AtDirectory(files, t) ==
    IF Kind(files, t) = "error" THEN TextResponse("exception")
    ELSE IF Kind(files, t) \in {"dir", "locked"} THEN AtIndex(files, IndexOf(Named(t)))
    ELSE AtRegular(files, t)

AtExists(files, t) ==
    IF Kind(files, t) = "error" THEN TextResponse("exception")
    ELSE IF Kind(files, t) = "none" THEN TextResponse("404")
    ELSE AtDirectory(files, t)

(* What is served for a path with a file, or with the index of a directory.    *)
LEMMA ServedIs ==
    ASSUME NEW files, NEW p, Named(p) \in NonEmptyPaths
    PROVE  LET index == IndexOf(Named(p))
           IN  Served(files, index) = FileResponse(Node(files, index), TypeOf(".html"))
<1> DEFINE index == IndexOf(Named(p))
<1>1. Last(index) = "index.html"
  BY IndexIs
<1>2. ExtensionOf["index.html"] = ".html"
  BY TaskAssumption
<1> HIDE DEF index
<1> QED
  BY <1>1, <1>2 DEF Served, index

(* resolve() and the checks of serve_file() come to the right answer.          *)
LEMMA ChecksAreRight ==
    ASSUME NEW req, req.path \in NonEmptyPaths, FilesTyped(fs)
    PROVE  RightFile(req, fs) = IF Resolve(req.path) = <<>> THEN TextResponse("403")
                                ELSE AtExists(fs, Resolve(req.path))
<1> DEFINE p == Candidate(req.path)
           c == WeaklyCanonical(p)
           named == Named(p)
           index == IndexOf(named)
           kind == Kind(fs, p)
           below == IsPrefix(root_dir_, named)
<1>1. IsNormal(p)
  BY CandidateIsNormal
<1>2. /\ c \in NonEmptyPaths /\ (c # p => Last(p) = "" /\ c = named)
      /\ Named(c) = named /\ Kind(fs, c) = kind
      /\ IsPrefix(root_dir_, c) <=> below
  <2> HIDE DEF p
  <2> QED
    BY <1>1, CanonicalIs
<1>3. c # <<>>
  BY <1>2 DEF NonEmptyPaths
<1>4. Resolve(req.path) = IF kind = "error" \/ ~below THEN <<>> ELSE c
  BY <1>2 DEF Resolve
<1>5. RightFile(req, fs) =
          IF ~below \/ kind = "error" THEN TextResponse("403")
          ELSE CASE kind = "none" -> TextResponse("404")
                 [] kind = "socket" -> TextResponse("403")
                 [] kind = "file" -> Served(fs, p)
                 [] kind = "locked" -> TextResponse("exception")
                 [] kind = "dir" ->
                        CASE Kind(fs, index) = "none" -> TextResponse("404")
                          [] Kind(fs, index) = "file" ->
                                 FileResponse(Node(fs, index), TypeOf(".html"))
                          [] OTHER -> TextResponse("403")
  BY DEF RightFile, Served, IndexOf
<1>6. CASE kind = "error" \/ ~below
  BY <1>4, <1>5, <1>6
<1>7. CASE kind # "error" /\ below
  <2>1. Resolve(req.path) = c /\ c # <<>>
    BY <1>3, <1>4, <1>7
  <2>2. kind \in Kinds
    <3> HIDE DEF p
    <3> QED
      BY <1>7, KindTyped
  <2>3. named \in NonEmptyPaths
    <3> HIDE DEF p
    <3> QED
      BY <1>1, <1>7, NamedIs
  <2>4. /\ kind = "locked" => Kind(fs, index) = "error"
        /\ kind = "dir" => Kind(fs, index) # "error"
    <3> HIDE DEF p
    <3> QED
      BY <2>3, KindOfIndex
  <2>5. Served(fs, index) = FileResponse(Node(fs, index), TypeOf(".html"))
    <3> HIDE DEF p
    <3> QED
      BY <2>3, ServedIs
  <2>6. kind = "file" => c = p
    <3> HIDE DEF p
    <3> QED
      BY <1>2, KindTyped
  <2>7. /\ AtExists(fs, c) = IF kind = "none" THEN TextResponse("404") ELSE AtDirectory(fs, c)
        /\ AtDirectory(fs, c) = IF kind \in {"dir", "locked"} THEN AtIndex(fs, index)
                                ELSE AtRegular(fs, c)
        /\ AtRegular(fs, c) = IF kind # "file" THEN TextResponse("403") ELSE Served(fs, c)
    <3> HIDE DEF p, c, named, index, kind
    <3>1. Kind(fs, c) = kind /\ kind # "error" /\ IndexOf(Named(c)) = index
      BY <1>2, <1>7 DEF index
    <3> QED
      BY <3>1 DEF AtExists, AtDirectory, AtRegular
  <2>8. AtIndex(fs, index) =
            IF Kind(fs, index) = "error" THEN TextResponse("exception")
            ELSE IF Kind(fs, index) = "none" THEN TextResponse("404")
            ELSE IF Kind(fs, index) # "file" THEN TextResponse("403")
            ELSE Served(fs, index)
    <3> HIDE DEF index
    <3> QED
      BY DEF AtIndex, AtRegular
  <2> HIDE DEF p, c, named, index, kind, below
  <2>9. CASE kind \in {"none", "socket"}
    BY <1>5, <1>7, <2>1, <2>7, <2>9
  <2>10. CASE kind = "file"
    BY <1>5, <1>7, <2>1, <2>6, <2>7, <2>10
  <2>11. CASE kind = "locked"
    BY <1>5, <1>7, <2>1, <2>4, <2>7, <2>8, <2>11
  <2>12. CASE kind = "dir"
    <3>1. AtExists(fs, c) = AtIndex(fs, index)
      BY <2>7, <2>12
    <3>2. RightFile(req, fs) =
              CASE Kind(fs, index) = "none" -> TextResponse("404")
                [] Kind(fs, index) = "file" -> Served(fs, index)
                [] OTHER -> TextResponse("403")
      BY <1>5, <1>7, <2>5, <2>12
    <3>3. CASE Kind(fs, index) = "none"
      BY <2>1, <2>8, <3>1, <3>2, <3>3
    <3>4. CASE Kind(fs, index) = "file"
      BY <2>1, <2>8, <3>1, <3>2, <3>4
    <3>5. CASE Kind(fs, index) \notin {"none", "file"}
      BY <2>1, <2>4, <2>8, <2>12, <3>1, <3>2, <3>5
    <3> QED
      BY <3>3, <3>4, <3>5
  <2> QED
    BY <2>2, <2>9, <2>10, <2>11, <2>12 DEF Kinds
<1> QED
  BY <1>6, <1>7

(* A file that is found at either of the two paths that serve_file() asks for *)
(* is the right answer then.                                                   *)
LEMMA FileIsRight ==
    ASSUME NEW files, FilesTyped(files), NEW req, req.path \in NonEmptyPaths,
           Last(Candidate(req.path)) # "", IsPrefix(root_dir_, Named(Candidate(req.path))),
           NEW t \in {Candidate(req.path), IndexOf(Candidate(req.path))},
           Kind(files, t) = "file"
    PROVE  RightFile(req, files) = Served(files, t)
<1> DEFINE p == Candidate(req.path)
           index == IndexOf(p)
           kind == Kind(files, p)
<1>1. Named(p) = p /\ p \in NonEmptyPaths
  <2>1. p \in NonEmptyPaths
    BY CandidateIsNormal DEF IsNormal
  <2> QED
    BY <2>1 DEF Named
<1>2. RightFile(req, files) =
          IF kind = "error" THEN TextResponse("403")
          ELSE CASE kind = "none" -> TextResponse("404")
                 [] kind = "socket" -> TextResponse("403")
                 [] kind = "file" -> Served(files, p)
                 [] kind = "locked" -> TextResponse("exception")
                 [] kind = "dir" ->
                        CASE Kind(files, index) = "none" -> TextResponse("404")
                          [] Kind(files, index) = "file" ->
                                 FileResponse(Node(files, index), TypeOf(".html"))
                          [] OTHER -> TextResponse("403")
  <2> DEFINE named == Named(p)
             at == IndexOf(named)
  <2>1. RightFile(req, files) =
          IF ~IsPrefix(root_dir_, named) \/ kind = "error" THEN TextResponse("403")
          ELSE CASE kind = "none" -> TextResponse("404")
                 [] kind = "socket" -> TextResponse("403")
                 [] kind = "file" -> Served(files, p)
                 [] kind = "locked" -> TextResponse("exception")
                 [] kind = "dir" ->
                        CASE Kind(files, at) = "none" -> TextResponse("404")
                          [] Kind(files, at) = "file" ->
                                 FileResponse(Node(files, at), TypeOf(".html"))
                          [] OTHER -> TextResponse("403")
    BY DEF RightFile, Served, IndexOf
  <2>2. named = p /\ at = index /\ IsPrefix(root_dir_, named)
    BY <1>1
  <2> HIDE DEF named, at, index, kind, p
  <2> QED
    BY <2>1, <2>2
<1> HIDE DEF p
<1>3. CASE t = p
  BY <1>2, <1>3 DEF p
<1>4. CASE t = index
  <2>1. kind = "dir"
    BY <1>1, <1>4, KindOfIndex DEF p
  <2>2. Served(files, index) = FileResponse(Node(files, index), TypeOf(".html"))
    BY <1>1, ServedIs
  <2> HIDE DEF index, kind
  <2> QED
    BY <1>2, <1>4, <2>1, <2>2
<1> QED
  BY <1>3, <1>4 DEF p

-----------------------------------------------------------------------------
(* The task.                                                                   *)

(* A running task has seen the file system as it is, and works on a request;   *)
(* the calls of serve_file() are made for a route of its own.                  *)
IsStatic(routes, req) ==
    RightRoute(routes, req) # 0 /\ routes[RightRoute(routes, req)].handler = "static"

RunInv ==
    /\ pc \notin {"startup", "idle"} => fs \in seen /\ request \in Requests
    /\ pc \notin {"startup", "idle", "post"} => IsStatic(routes_, request)
    /\ pc = "startup" => request = NoRequest

(* What is opened was a file when is_regular_file() looked, so its extension is *)
(* one of those that TableServes speaks of; the search for it is under way.    *)
LookupInv ==
    /\ pc \in {"open", "fstat"} => target \in DOMAIN InitialFs
    /\ pc = "mime" =>
           /\ Listed(extension) => SearchInv /\ Searchable(extension)
           /\ extension = ExtensionOf[Last(target)] /\ file_size = file_fd.id

(* If nothing has changed and nothing failed, the rest of the task gives the   *)
(* right answer.                                                               *)
RestIsRight ==
    /\ pc = "exists" => RightFile(request, fs) = AtExists(fs, target)
    /\ pc = "is_directory" => RightFile(request, fs) = AtDirectory(fs, target)
    /\ pc = "exists_index" => RightFile(request, fs) = AtIndex(fs, target)
    /\ pc = "is_regular_file" => RightFile(request, fs) = AtRegular(fs, target)
    /\ pc = "open" => Kind(fs, target) = "file" /\ RightFile(request, fs) = Served(fs, target)
    /\ pc = "fstat" =>
           RightFile(request, fs) = FileResponse(file_fd, TypeOf(ExtensionOf[Last(target)]))
    /\ pc = "mime" => RightFile(request, fs) = FileResponse(file_fd, TypeOf(extension))
    /\ pc = "post" => resp = RightAnswer(routes_, request, fs)

StableInv ==
    /\ ~failed /\ seen = {fs} => RestIsRight
    /\ StableAnswer

(* Whatever changes, only the path of the request or its index is looked up; so *)
(* a file, once open, was the right answer when it was opened.                 *)
LooksBelow(path) ==
    /\ pc \in {"exists", "is_directory", "exists_index", "is_regular_file", "open"} =>
           IsPrefix(root_dir_, Named(path))
    /\ pc \in {"exists", "is_directory"} => target = path
    /\ pc = "exists_index" => target = IndexOf(path)
    /\ pc \in {"is_regular_file", "open"} => target \in {path, IndexOf(path)}

FileIsOpen(path) ==
    /\ LooksBelow(path)
    /\ pc \in {"fstat", "mime"} /\ file_fd.kind = "file" =>
           \E files \in seen : RightFile(request, files) =
               FileResponse(file_fd, TypeOf(ExtensionOf[Last(target)]))
    /\ pc = "post" /\ resp.file.kind = "file" =>
           \E files \in seen : resp = RightAnswer(routes_, request, files)

FileInv ==
    /\ Last(Candidate(request.path)) # "" => FileIsOpen(Candidate(request.path))
    /\ FileWasTheAnswer

(* What the calls of a task leave alone.                                       *)
TaskStep ==
    \/ CallResolve \/ Exists \/ IsDirectory \/ ExistsIndex \/ IsRegularFile
    \/ Open \/ Fstat \/ MimeTurn \/ SetSendfile \/ Post

LEMMA TaskStepIs ==
    ASSUME TaskStep
    PROVE  /\ UNCHANGED <<routes_, fs, changes, request, seen>>
           /\ pc \notin {"startup", "idle"} /\ pc' # "startup"
           /\ pc = "post" => pc' = "idle"
<1>1. UNCHANGED <<routes_, fs, changes, request, seen>>
  BY DEF TaskStep, CallResolve, Exists, IsDirectory, ExistsIndex, IsRegularFile, ExistsThen,
         Open, Fstat, MimeTurn, SetSendfile, Post, serverVars, taskVars
<1>2. pc \notin {"startup", "idle"} /\ pc' # "startup"
  BY DEF TaskStep, CallResolve, Exists, IsDirectory, ExistsIndex, IsRegularFile, ExistsThen,
         Open, Fstat, FstatReturns, FstatFails, MimeTurn, SetSendfile, Post, Answers, Throws,
         taskVars
<1>3. pc = "post" => pc' = "idle"
  BY DEF TaskStep, CallResolve, Exists, IsDirectory, ExistsIndex, IsRegularFile, Open, Fstat,
         MimeTurn, SetSendfile, Post
<1> QED
  BY <1>1, <1>2, <1>3

(* dispatch() ends in the answer of a handler, or in serve_file().             *)
LEMMA DispatchIs ==
    ASSUME NEW req \in Requests, Dispatch(req), TaskTyped
    PROVE  /\ request' = req /\ failed' = FALSE /\ seen' = {fs} /\ fs' = fs /\ pc = "idle"
           /\ routes_' = routes_
           /\ \/ pc' = "resolve" /\ IsStatic(routes_, req)
              \/ /\ pc' = "post" /\ resp'.file.kind = "none"
                 /\ \A files : resp' = RightAnswer(routes_, req, files)
<1> DEFINE i == DispatchedRoute(routes_, req)
<1>1. /\ request' = req /\ failed' = FALSE /\ seen' = {fs} /\ fs' = fs /\ pc = "idle"
      /\ routes_' = routes_
  BY DEF Dispatch, serverVars
<1>2. \/ i = 0 /\ Answers(TextResponse("404"))
      \/ i # 0 /\ routes_[i].handler # "static" /\ Answers(TextResponse("200"))
      \/ i # 0 /\ routes_[i].handler = "static" /\ pc' = "resolve"
  BY DEF Dispatch
<1>3. i = RightRoute(routes_, req)
  BY DispatchIsRight DEF TaskTyped
<1>4. \A status : TextResponse(status).file.kind = "none"
  BY DEF TextResponse, Response, NoFile
<1> HIDE DEF i
<1>5. CASE i = 0 /\ Answers(TextResponse("404"))
  BY <1>1, <1>3, <1>4, <1>5 DEF Answers, RightAnswer
<1>6. CASE i # 0 /\ routes_[i].handler # "static" /\ Answers(TextResponse("200"))
  BY <1>1, <1>3, <1>4, <1>6 DEF Answers, RightAnswer
<1>7. CASE i # 0 /\ routes_[i].handler = "static" /\ pc' = "resolve"
  BY <1>1, <1>3, <1>7 DEF IsStatic
<1> QED
  BY <1>2, <1>5, <1>6, <1>7

LEMMA StaticIs ==
    ASSUME NEW routes, NEW req, IsStatic(routes, req), NEW files
    PROVE  RightAnswer(routes, req, files) = RightFile(req, files)
BY DEF IsStatic, RightAnswer

LEMMA RequestHasPath == \A req \in Requests : req.path \in NonEmptyPaths
BY TaskAssumption DEF NonEmptyPaths

LEMMA RunStep == TaskTyped /\ RunInv /\ [Next]_vars => RunInv'
<1> SUFFICES ASSUME TaskTyped, RunInv, [Next]_vars PROVE RunInv'
  OBVIOUS
<1>1. ASSUME NEW r \in Registrations, RegisterRoute(r) PROVE RunInv'
  BY <1>1 DEF RegisterRoute, RunInv, taskVars
<1>2. CASE Serve
  BY <1>2 DEF Serve, RunInv
<1>3. ASSUME NEW path \in ChangingPaths, NEW kind \in Replacements, Change(path, kind)
      PROVE  RunInv'
  <2>1. /\ pc # "startup" /\ UNCHANGED <<routes_, pc, request>>
        /\ seen' = IF pc = "idle" THEN seen ELSE seen \cup {fs'}
    BY <1>3 DEF Change, taskVars
  <2> QED
    BY <2>1 DEF RunInv
<1>4. ASSUME NEW req \in Requests, Dispatch(req) PROVE RunInv'
  <2>1. /\ request' = req /\ seen' = {fs} /\ fs' = fs /\ routes_' = routes_
        /\ (pc' = "resolve" /\ IsStatic(routes_, req)) \/ pc' = "post"
    BY <1>4, DispatchIs
  <2> QED
    BY <2>1 DEF RunInv
<1>5. CASE TaskStep
  BY <1>5, TaskStepIs DEF RunInv
<1>6. CASE UNCHANGED vars
  BY <1>6 DEF vars, serverVars, taskVars, RunInv
<1> QED
  BY <1>1, <1>2, <1>3, <1>4, <1>5, <1>6 DEF Next, TaskStep

LEMMA LookupStep ==
    ASSUME TableServes
    PROVE  TaskTyped /\ LookupInv /\ [Next]_vars => LookupInv'
<1> SUFFICES ASSUME TaskTyped, LookupInv, [Next]_vars PROVE LookupInv'
  OBVIOUS
<1>1. CASE UNCHANGED <<pc, target, file_fd, file_size, extension, first, len>>
  BY <1>1 DEF LookupInv, SearchInv, Searchable, Listed, Less
<1>2. CASE pc' \notin {"open", "fstat", "mime"}
  BY <1>2 DEF LookupInv
<1>3. CASE IsRegularFile /\ pc' = "open"
  <2>1. Kind(fs, target) = "file" /\ target' = target
    BY <1>3 DEF IsRegularFile, Answers, Throws
  <2>2. target \in DOMAIN InitialFs
    BY <2>1, KindTyped DEF TaskTyped, FilesTyped
  <2> QED
    BY <1>3, <2>1, <2>2 DEF LookupInv
<1>4. CASE Open
  BY <1>4 DEF Open, Answers, LookupInv
<1>5. CASE Fstat
  <2>1. CASE FstatReturns
    <3>1. /\ target \in DOMAIN InitialFs /\ target' = target /\ pc' = "mime"
          /\ extension' = ExtensionOf[Last(target)] /\ first' = 1 /\ len' = Len(MIME_TABLE)
          /\ file_size' = file_fd.id /\ file_fd' = file_fd
      BY <1>5, <2>1 DEF Fstat, FstatReturns, StartSearch, LookupInv
    <3> DEFINE e == ExtensionOf[Last(target)]
    <3>2. e \in Extensions /\ (Listed(e) => Searchable(e))
      BY <3>1, TaskAssumption DEF TableServes
    <3>3. extension' = e
      BY <3>1
    <3>4. Listed(extension)' => SearchInv' /\ Searchable(extension)'
      <4> HIDE DEF e
      <4>1. SearchInv'
        BY <3>1, <3>2, <3>3, TableTypes DEF SearchInv
      <4>2. Listed(extension)' => Searchable(extension)'
        BY <3>2, <3>3 DEF Listed, Searchable, Less
      <4> QED
        BY <4>1, <4>2
    <3> QED
      BY <3>1, <3>4 DEF LookupInv
  <2>2. CASE FstatFails
    BY <2>2 DEF FstatFails, Answers, LookupInv
  <2> QED
    BY <1>5, <2>1, <2>2 DEF Fstat
<1>6. CASE MimeTurn
  <2>1. Listed(extension) => SearchInv' /\ Searchable(extension)'
    BY <1>6, SearchGoesOn DEF MimeTurn, LookupInv
  <2>2. extension' = extension /\ UNCHANGED <<pc, target, file_fd, file_size>> /\ pc = "mime"
    BY <1>6 DEF MimeTurn, SearchTurn, taskVars
  <2> QED
    BY <2>1, <2>2 DEF LookupInv, Listed
<1>7. CASE SetSendfile
  BY <1>7, <1>2 DEF SetSendfile, Answers
<1>8. ASSUME NEW r \in Registrations, RegisterRoute(r) PROVE LookupInv'
  BY <1>1, <1>8 DEF RegisterRoute, taskVars, searchVars
<1>9. ASSUME NEW path \in ChangingPaths, NEW kind \in Replacements, Change(path, kind)
      PROVE  LookupInv'
  BY <1>1, <1>9 DEF Change, taskVars, searchVars
<1>10. ASSUME NEW req \in Requests, Dispatch(req) PROVE LookupInv'
  BY <1>2, <1>10 DEF Dispatch, Answers
<1>11. CASE Serve \/ CallResolve \/ Exists \/ IsDirectory \/ ExistsIndex \/ Post
  BY <1>2, <1>11 DEF Serve, CallResolve, Exists, IsDirectory, ExistsIndex, ExistsThen, Post,
                     Answers, Throws
<1>12. CASE IsRegularFile
  BY <1>2, <1>3, <1>12 DEF IsRegularFile, Answers, Throws
<1>13. CASE UNCHANGED vars
  BY <1>1, <1>13 DEF vars, taskVars, searchVars
<1> QED
  BY <1>4, <1>5, <1>6, <1>7, <1>8, <1>9, <1>10, <1>11, <1>12, <1>13 DEF Next

(* What the search returns when it ends is the type of the extension.          *)
LEMMA MimeTypeIs ==
    ASSUME SearchInTable, Listed(extension) => SearchInv /\ Searchable(extension), len = 0
    PROVE  MimeType = TypeOf(extension)
<1>1. Listed(extension) => Found
  BY EndIsFound DEF ListedIsFound
<1>2. Found => Listed(extension)
  BY TableTypes DEF Found, Listed, SearchInTable
<1> QED
  BY <1>1, <1>2 DEF MimeType, TypeOf

(* With nothing changed or failed, each call of the task keeps to the right     *)
(* answer.                                                                     *)
LEMMA RestStep ==
    ASSUME TaskTyped, SearchInTable, RunInv, LookupInv, ~failed, RestIsRight, TaskStep, ~failed'
    PROVE  /\ RestIsRight'
           /\ pc' = "idle" => resp' = RightAnswer(routes_, request, fs)
<1> DEFINE right == RightFile(request, fs)
           Answered == /\ RestIsRight'
                       /\ pc' = "idle" => resp' = RightAnswer(routes_, request, fs)
<1>0. UNCHANGED <<routes_, fs, request>>
  BY TaskStepIs
<1>1. pc # "post" => RightAnswer(routes_, request, fs) = right
  BY TaskStepIs, StaticIs DEF RunInv
<1>2. ASSUME pc # "post", resp' = right, pc' \in {"post", "idle"} PROVE Answered
  BY <1>0, <1>1, <1>2 DEF RestIsRight
<1>3. FilesTyped(fs)
  BY DEF TaskTyped, FilesTyped
<1>4. CASE CallResolve
  <2>1. request \in Requests /\ pc # "post"
    BY <1>4 DEF RunInv, CallResolve
  <2>2. right = IF Resolve(request.path) = <<>> THEN TextResponse("403")
                ELSE AtExists(fs, Resolve(request.path))
    BY <1>3, <2>1, RequestHasPath, ChecksAreRight
  <2>3. CASE target' = <<>> /\ Answers(TextResponse("403"))
    BY <1>2, <1>4, <2>1, <2>2, <2>3 DEF CallResolve, Answers
  <2>4. CASE target' # <<>> /\ pc' = "exists"
    BY <1>0, <1>4, <2>2, <2>4 DEF CallResolve, RestIsRight
  <2> QED
    BY <1>4, <2>3, <2>4 DEF CallResolve
<1>5. CASE Exists
  <2>1. right = AtExists(fs, target) /\ pc # "post" /\ target' = target
    BY <1>5 DEF Exists, ExistsThen, RestIsRight
  <2>2. \/ Kind(fs, target) = "error" /\ resp' = TextResponse("exception") /\ pc' = "idle"
        \/ Kind(fs, target) = "none" /\ resp' = TextResponse("404") /\ pc' = "post"
        \/ Kind(fs, target) \notin {"error", "none"} /\ pc' = "is_directory"
    BY <1>5 DEF Exists, ExistsThen, Answers, Throws
  <2>3. CASE Kind(fs, target) \in {"error", "none"}
    BY <1>2, <2>1, <2>2, <2>3 DEF AtExists
  <2>4. CASE Kind(fs, target) \notin {"error", "none"}
    <3>1. right = AtDirectory(fs, target)
      BY <2>1, <2>4 DEF AtExists
    <3> QED
      BY <1>0, <2>1, <2>2, <2>4, <3>1 DEF RestIsRight
  <2> QED
    BY <2>3, <2>4
<1>6. CASE ExistsIndex
  <2>1. right = AtIndex(fs, target) /\ pc # "post" /\ target' = target
    BY <1>6 DEF ExistsIndex, ExistsThen, RestIsRight
  <2>2. \/ Kind(fs, target) = "error" /\ resp' = TextResponse("exception") /\ pc' = "idle"
        \/ Kind(fs, target) = "none" /\ resp' = TextResponse("404") /\ pc' = "post"
        \/ Kind(fs, target) \notin {"error", "none"} /\ pc' = "is_regular_file"
    BY <1>6 DEF ExistsIndex, ExistsThen, Answers, Throws
  <2>3. CASE Kind(fs, target) \in {"error", "none"}
    BY <1>2, <2>1, <2>2, <2>3 DEF AtIndex
  <2>4. CASE Kind(fs, target) \notin {"error", "none"}
    <3>1. right = AtRegular(fs, target)
      BY <2>1, <2>4 DEF AtIndex
    <3> QED
      BY <1>0, <2>1, <2>2, <2>4, <3>1 DEF RestIsRight
  <2> QED
    BY <2>3, <2>4
<1>7. CASE IsDirectory
  <2>1. right = AtDirectory(fs, target) /\ pc # "post"
    BY <1>7 DEF IsDirectory, RestIsRight
  <2>2. \/ Kind(fs, target) = "error" /\ resp' = TextResponse("exception") /\ pc' = "idle"
        \/ /\ Kind(fs, target) \in {"dir", "locked"}
           /\ target' = IndexOf(Named(target)) /\ pc' = "exists_index"
        \/ /\ Kind(fs, target) \notin {"error", "dir", "locked"}
           /\ pc' = "is_regular_file" /\ target' = target
    BY <1>7 DEF IsDirectory, Throws, IsDir, IndexOf
  <2>3. CASE Kind(fs, target) = "error"
    BY <1>2, <2>1, <2>2, <2>3 DEF AtDirectory
  <2>4. CASE Kind(fs, target) \in {"dir", "locked"}
    <3>1. right = AtIndex(fs, IndexOf(Named(target)))
      BY <2>1, <2>4 DEF AtDirectory
    <3> QED
      BY <1>0, <2>2, <2>4, <3>1 DEF RestIsRight
  <2>5. CASE Kind(fs, target) \notin {"error", "dir", "locked"}
    <3>1. right = AtRegular(fs, target)
      BY <2>1, <2>5 DEF AtDirectory
    <3> QED
      BY <1>0, <2>2, <2>5, <3>1 DEF RestIsRight
  <2> QED
    BY <2>3, <2>4, <2>5
<1>8. CASE IsRegularFile
  <2>1. right = AtRegular(fs, target) /\ pc # "post" /\ target' = target
    BY <1>8 DEF IsRegularFile, RestIsRight
  <2>2. \/ Kind(fs, target) = "error" /\ resp' = TextResponse("exception") /\ pc' = "idle"
        \/ /\ Kind(fs, target) \notin {"error", "file"}
           /\ resp' = TextResponse("403") /\ pc' = "post"
        \/ Kind(fs, target) = "file" /\ pc' = "open"
    BY <1>8 DEF IsRegularFile, Answers, Throws
  <2>3. CASE Kind(fs, target) # "file"
    BY <1>2, <2>1, <2>2, <2>3 DEF AtRegular
  <2>4. CASE Kind(fs, target) = "file"
    <3>1. right = Served(fs, target)
      BY <2>1, <2>4 DEF AtRegular
    <3> QED
      BY <1>0, <2>1, <2>2, <2>4, <3>1 DEF RestIsRight
  <2> QED
    BY <2>3, <2>4
<1>9. CASE Open
  <2>1. right = Served(fs, target) /\ target' = target
    BY <1>9 DEF Open, RestIsRight
  <2>2. pc' = "fstat" /\ file_fd' = Node(fs, target)
    BY <1>9 DEF Open, Answers
  <2> QED
    BY <1>0, <2>1, <2>2 DEF RestIsRight, Served
<1>10. CASE Fstat
  <2>1. right = FileResponse(file_fd, TypeOf(ExtensionOf[Last(target)])) /\ target' = target
    BY <1>10 DEF Fstat, RestIsRight
  <2>2. pc' = "mime" /\ file_fd' = file_fd /\ extension' = ExtensionOf[Last(target)]
    BY <1>10 DEF Fstat, FstatReturns, FstatFails, StartSearch
  <2> QED
    BY <1>0, <2>1, <2>2 DEF RestIsRight
<1>11. CASE MimeTurn
  <2>1. right = FileResponse(file_fd, TypeOf(extension))
    BY <1>11 DEF MimeTurn, RestIsRight
  <2>2. pc' = "mime" /\ file_fd' = file_fd /\ extension' = extension
    BY <1>11 DEF MimeTurn, SearchTurn, taskVars
  <2> QED
    BY <1>0, <2>1, <2>2 DEF RestIsRight
<1>12. CASE SetSendfile
  <2>1. right = FileResponse(file_fd, TypeOf(extension))
    BY <1>12 DEF SetSendfile, RestIsRight
  <2>2. MimeType = TypeOf(extension) /\ file_size = file_fd.id
    BY <1>12, MimeTypeIs DEF SetSendfile, LookupInv
  <2>3. resp' = right /\ pc' = "post" /\ pc # "post"
    BY <1>12, <2>1, <2>2 DEF SetSendfile, Answers, FileResponse
  <2> QED
    BY <1>2, <2>3
<1>13. CASE Post
  BY <1>0, <1>13 DEF Post, RestIsRight
<1> QED
  BY <1>4, <1>5, <1>6, <1>7, <1>8, <1>9, <1>10, <1>11, <1>12, <1>13 DEF TaskStep

LEMMA StableStep ==
    TaskTyped /\ SearchInTable /\ RunInv /\ LookupInv /\ StableInv /\ [Next]_vars => StableInv'
<1> SUFFICES ASSUME TaskTyped, SearchInTable, RunInv, LookupInv, StableInv, [Next]_vars
             PROVE  StableInv'
  OBVIOUS
<1>1. ASSUME UNCHANGED <<routes_, fs, pc, request, target, file_fd, resp, failed, seen, extension>>
      PROVE  StableInv'
  BY <1>1 DEF StableInv, RestIsRight, StableAnswer, Ended
<1>2. ASSUME NEW r \in Registrations, RegisterRoute(r) PROVE StableInv'
  <2>1. pc' = "startup"
    BY <1>2 DEF RegisterRoute, taskVars
  <2> QED
    BY <2>1 DEF StableInv, RestIsRight, StableAnswer, Ended
<1>3. CASE Serve
  BY <1>3 DEF Serve, RunInv, StableInv, RestIsRight, StableAnswer, Ended
<1>4. ASSUME NEW path \in ChangingPaths, NEW kind \in Replacements, Change(path, kind)
      PROVE  StableInv'
  <2>1. /\ UNCHANGED <<routes_, pc, request, target, file_fd, resp, failed, extension>>
        /\ seen' = IF pc = "idle" THEN seen ELSE seen \cup {fs'}
        /\ pc # "startup"
    BY <1>4 DEF Change, taskVars, searchVars
  <2>2. CASE pc = "idle"
    BY <2>1, <2>2 DEF StableInv, RestIsRight, StableAnswer, Ended
  <2>3. CASE pc # "idle"
    <3>1. fs \in seen
      BY <2>1, <2>3 DEF RunInv
    <3>2. seen' = {fs'} => fs' = fs /\ seen = {fs}
      BY <2>1, <2>3, <3>1
    <3>3. CASE seen' = {fs'}
      BY <1>1, <2>1, <3>2, <3>3
    <3>4. CASE seen' # {fs'}
      BY <2>1, <2>3, <3>4 DEF StableInv, StableAnswer, Ended
    <3> QED
      BY <3>3, <3>4
  <2> QED
    BY <2>2, <2>3
<1>5. ASSUME NEW req \in Requests, Dispatch(req) PROVE StableInv'
  <2>1. /\ request' = req /\ fs' = fs /\ routes_' = routes_
        /\ \/ pc' = "resolve"
           \/ pc' = "post" /\ resp' = RightAnswer(routes_, req, fs)
    BY <1>5, DispatchIs
  <2> QED
    BY <2>1 DEF StableInv, RestIsRight, StableAnswer, Ended
<1>6. CASE TaskStep
  <2>1. UNCHANGED <<routes_, fs, request, seen>> /\ fs \in seen
    BY <1>6, TaskStepIs DEF RunInv
  <2>2. ~failed' => ~failed
    BY <1>6 DEF TaskStep, CallResolve, Exists, IsDirectory, ExistsIndex, IsRegularFile,
                ExistsThen, Open, Fstat, FstatReturns, FstatFails, MimeTurn, SetSendfile, Post,
                taskVars
  <2>3. CASE ~failed' /\ seen = {fs}
    <3>1. RestIsRight
      BY <2>2, <2>3 DEF StableInv
    <3>2. /\ RestIsRight'
          /\ pc' = "idle" => resp' = RightAnswer(routes_, request, fs)
      BY <1>6, <2>2, <2>3, <3>1, RestStep
    <3>3. StableAnswer'
      BY <2>1, <2>3, <3>2 DEF StableAnswer, Ended
    <3> QED
      BY <3>2, <3>3 DEF StableInv
  <2>4. CASE ~(~failed' /\ seen = {fs})
    <3>1. ~(~failed' /\ seen' = {fs'})
      BY <2>1, <2>4
    <3>2. StableAnswer'
      BY <2>1, <3>1 DEF StableAnswer, Ended
    <3> QED
      BY <3>1, <3>2 DEF StableInv
  <2> QED
    BY <2>3, <2>4
<1>7. CASE UNCHANGED vars
  BY <1>1, <1>7 DEF vars, serverVars, taskVars, searchVars
<1> QED
  BY <1>2, <1>3, <1>4, <1>5, <1>6, <1>7 DEF Next, TaskStep

LEMMA StableInit == Init => RunInv /\ LookupInv /\ StableInv
BY DEF Init, RunInv, LookupInv, StableInv, RestIsRight, StableAnswer, Ended

(* If the file system stays as it is during a task and no call fails, the      *)
(* answer is the right one, for every set of routes, every request and every   *)
(* file system whose files have extensions that the table serves (of those in  *)
(* the source's table, all but .jpg and .jpeg): the exact route or the longest *)
(* prefix (router.cpp:16-43), and 200 with the file and its type, 403 or 404   *)
(* as the path asks for (static_handler.cpp:17-76).                            *)
THEOREM AnswersAreRight ==
    ASSUME TableServes
    PROVE  Spec => []StableAnswer
<1> DEFINE Inv == /\ DescriptorInv /\ TaskTyped /\ HandsTyped /\ SearchInTable
                  /\ RunInv /\ LookupInv /\ StableInv
<1>1. Init => Inv
  <2>1. Init => DescriptorInv
    BY DEF Init, DescriptorInv
  <2> QED
    BY <2>1, TaskTypeInit, StableInit
<1>2. Inv /\ [Next]_vars => Inv'
  BY DescriptorStep, TaskTypeStep, RunStep, LookupStep, StableStep
<1>3. Inv => StableAnswer
  BY DEF StableInv
<1> HIDE DEF Inv
<1> QED
  BY <1>1, <1>2, <1>3, PTL DEF Spec

(* The calls of a task that does not ask for a directory.                      *)
LEMMA FileTaskStep ==
    ASSUME TaskTyped, SearchInTable, RunInv, LookupInv, NEW path, path = Candidate(request.path),
           Last(path) # "", FileIsOpen(path), TaskStep
    PROVE  /\ FileIsOpen(path)'
           /\ pc' = "idle" /\ resp'.file.kind = "file" =>
                  \E files \in seen : resp' = RightAnswer(routes_, request, files)
<1> DEFINE right(files) == RightFile(request, files)
           Goal == /\ FileIsOpen(path)'
                   /\ pc' = "idle" /\ resp'.file.kind = "file" =>
                          \E files \in seen : resp' = RightAnswer(routes_, request, files)
<1>0. UNCHANGED <<routes_, request, seen>> /\ fs \in seen /\ request \in Requests
      /\ request.path \in NonEmptyPaths
  BY TaskStepIs, RequestHasPath DEF RunInv
<1>1. pc # "post" => IsStatic(routes_, request)
  BY TaskStepIs DEF RunInv
<1>2. \A status : TextResponse(status).file.kind = "none"
  BY DEF TextResponse, Response, NoFile
<1>3. ASSUME pc' \in {"post", "idle"}, NEW status, resp' = TextResponse(status) PROVE Goal
  BY <1>2, <1>3 DEF FileIsOpen, LooksBelow
<1>4. Named(path) = path /\ FilesTyped(fs)
  BY DEF Named, TaskTyped, FilesTyped
<1>5. CASE CallResolve
  <2>1. CASE target' = <<>> /\ Answers(TextResponse("403"))
    BY <1>3, <2>1 DEF Answers
  <2>2. CASE target' # <<>> /\ pc' = "exists"
    <3>1. target' = WeaklyCanonical(path) /\ IsPrefix(root_dir_, WeaklyCanonical(path))
      BY <1>5, <2>2 DEF CallResolve, Resolve
    <3>2. IsNormal(path)
      BY <1>0, CandidateIsNormal
    <3>3. WeaklyCanonical(path) = path
      BY <1>4, <3>2, CanonicalIs
    <3> QED
      BY <1>4, <2>2, <3>1, <3>3 DEF FileIsOpen, LooksBelow
  <2> QED
    BY <1>5, <2>1, <2>2 DEF CallResolve
<1>6. CASE Exists \/ ExistsIndex
  <2>1. /\ target' = target
        /\ \/ pc' = "idle" /\ resp' = TextResponse("exception")
           \/ pc' = "post" /\ resp' = TextResponse("404")
           \/ pc = "exists" /\ pc' = "is_directory"
           \/ pc = "exists_index" /\ pc' = "is_regular_file"
    BY <1>6 DEF Exists, ExistsIndex, ExistsThen, Answers, Throws
  <2>2. CASE pc' \in {"idle", "post"}
    BY <1>3, <2>1, <2>2
  <2>3. CASE pc' \notin {"idle", "post"}
    BY <2>1, <2>3 DEF FileIsOpen, LooksBelow
  <2> QED
    BY <2>2, <2>3
<1>7. CASE IsDirectory
  <2>1. /\ pc = "is_directory" /\ target = path
        /\ \/ pc' = "idle" /\ resp' = TextResponse("exception")
           \/ pc' = "exists_index" /\ target' = IndexOf(path)
           \/ pc' = "is_regular_file" /\ target' = path
    BY <1>4, <1>7 DEF IsDirectory, Throws, IndexOf, FileIsOpen, LooksBelow
  <2>2. CASE pc' = "idle"
    BY <1>3, <2>1, <2>2
  <2>3. CASE pc' # "idle"
    BY <2>1, <2>3 DEF FileIsOpen, LooksBelow
  <2> QED
    BY <2>2, <2>3
<1>8. CASE IsRegularFile
  <2>1. /\ target' = target /\ pc = "is_regular_file"
        /\ \/ pc' = "idle" /\ resp' = TextResponse("exception")
           \/ pc' = "post" /\ resp' = TextResponse("403")
           \/ pc' = "open"
    BY <1>8 DEF IsRegularFile, Answers, Throws
  <2>2. CASE pc' \in {"idle", "post"}
    BY <1>3, <2>1, <2>2
  <2>3. CASE pc' = "open"
    BY <2>1, <2>3 DEF FileIsOpen, LooksBelow
  <2> QED
    BY <2>1, <2>2, <2>3
<1>9. CASE Open
  <2>1. CASE Answers(TextResponse("500"))
    BY <1>3, <2>1 DEF Answers
  <2>2. CASE /\ Kind(fs, target) \in {"file", "dir", "locked"}
             /\ file_fd' = Node(fs, target) /\ pc' = "fstat"
    <3>1. Kind(fs, target) = file_fd'.kind
      BY <1>4, <2>2, KindTyped DEF Node
    <3>2. target' = target /\ IsPrefix(root_dir_, Named(path)) /\ target \in {path, IndexOf(path)}
      BY <1>9 DEF Open, FileIsOpen, LooksBelow
    <3>3. file_fd'.kind = "file" => right(fs) = Served(fs, target)
      BY <1>0, <1>4, <3>1, <3>2, FileIsRight
    <3>4. file_fd'.kind = "file" => \E files \in seen :
              right(files) = FileResponse(file_fd', TypeOf(ExtensionOf[Last(target)]))
      BY <1>0, <2>2, <3>3 DEF Served
    <3> QED
      BY <1>0, <2>2, <3>2, <3>4 DEF FileIsOpen, LooksBelow
  <2> QED
    BY <1>9, <2>1, <2>2 DEF Open
<1>10. CASE Fstat
  <2>1. CASE FstatReturns
    BY <1>0, <1>10, <2>1 DEF Fstat, FstatReturns, FileIsOpen, LooksBelow
  <2>2. CASE FstatFails
    BY <1>3, <2>2 DEF FstatFails, Answers
  <2> QED
    BY <1>10, <2>1, <2>2 DEF Fstat
<1>11. CASE MimeTurn
  BY <1>0, <1>11 DEF MimeTurn, taskVars, FileIsOpen, LooksBelow
<1>12. CASE SetSendfile
  <2>1. /\ MimeType = TypeOf(extension) /\ extension = ExtensionOf[Last(target)]
        /\ file_size = file_fd.id
    BY <1>12, MimeTypeIs DEF SetSendfile, LookupInv
  <2>2. /\ resp' = FileResponse(file_fd, TypeOf(ExtensionOf[Last(target)]))
        /\ pc' = "post" /\ pc = "mime"
    BY <1>12, <2>1 DEF SetSendfile, Answers, FileResponse
  <2>3. resp'.file = file_fd
    BY <2>2 DEF FileResponse, Response
  <2>4. file_fd.kind = "file" => \E files \in seen : right(files) = resp'
    BY <2>2 DEF FileIsOpen
  <2>5. \A files : right(files) = RightAnswer(routes_, request, files)
    BY <1>1, <2>2, StaticIs
  <2>6. resp'.file.kind = "file" =>
            \E files \in seen : resp' = RightAnswer(routes_, request, files)
    BY <2>3, <2>4, <2>5
  <2> QED
    BY <1>0, <2>2, <2>6 DEF FileIsOpen, LooksBelow, RightAnswer, RightRoute
<1>13. CASE Post
  BY <1>0, <1>13 DEF Post, FileIsOpen, LooksBelow
<1> QED
  BY <1>5, <1>6, <1>7, <1>8, <1>9, <1>10, <1>11, <1>12, <1>13 DEF TaskStep

LEMMA FileStep ==
    TaskTyped /\ SearchInTable /\ RunInv /\ LookupInv /\ FileInv /\ [Next]_vars => FileInv'
<1> SUFFICES ASSUME TaskTyped, SearchInTable, RunInv, LookupInv, FileInv, [Next]_vars
             PROVE  FileInv'
  OBVIOUS
<1>1. ASSUME UNCHANGED <<routes_, pc, request, target, file_fd, resp, failed, seen>>
      PROVE  FileInv'
  BY <1>1 DEF FileInv, FileIsOpen, LooksBelow, FileWasTheAnswer, Ended
<1>2. ASSUME NEW r \in Registrations, RegisterRoute(r) PROVE FileInv'
  <2>1. pc' = "startup"
    BY <1>2 DEF RegisterRoute, taskVars
  <2> QED
    BY <2>1 DEF FileInv, FileIsOpen, LooksBelow, FileWasTheAnswer, Ended
<1>3. CASE Serve
  BY <1>3 DEF Serve, RunInv, FileInv, FileIsOpen, LooksBelow, FileWasTheAnswer, Ended
<1>4. ASSUME NEW path \in ChangingPaths, NEW kind \in Replacements, Change(path, kind)
      PROVE  FileInv'
  <2>1. /\ UNCHANGED <<routes_, pc, request, target, file_fd, resp, failed>>
        /\ seen \subseteq seen'
    BY <1>4 DEF Change, taskVars
  <2>2. ASSUME Last(Candidate(request.path)) # ""
        PROVE  FileIsOpen(Candidate(request.path))'
    BY <2>1, <2>2 DEF FileInv, FileIsOpen, LooksBelow
  <2>3. FileWasTheAnswer'
    BY <2>1 DEF FileInv, FileWasTheAnswer, Ended
  <2> QED
    BY <2>1, <2>2, <2>3 DEF FileInv
<1>5. ASSUME NEW req \in Requests, Dispatch(req) PROVE FileInv'
  <2>1. /\ request' = req /\ routes_' = routes_ /\ seen' = {fs}
        /\ \/ pc' = "resolve"
           \/ pc' = "post" /\ resp' = RightAnswer(routes_, req, fs)
    BY <1>5, DispatchIs
  <2> QED
    BY <2>1 DEF FileInv, FileIsOpen, LooksBelow, FileWasTheAnswer, Ended
<1>6. CASE TaskStep
  <2>1. UNCHANGED <<routes_, request, seen>>
    BY <1>6, TaskStepIs
  <2>2. CASE Last(Candidate(request.path)) = ""
    BY <2>1, <2>2 DEF FileInv, FileWasTheAnswer
  <2>3. CASE Last(Candidate(request.path)) # ""
    <3>1. PICK path : path = Candidate(request.path)
      OBVIOUS
    <3>2. /\ FileIsOpen(path)'
          /\ pc' = "idle" /\ resp'.file.kind = "file" =>
                 \E files \in seen : resp' = RightAnswer(routes_, request, files)
      BY <1>6, <2>3, <3>1, FileTaskStep DEF FileInv
    <3>3. FileIsOpen(Candidate(request.path))'
      BY <2>1, <3>1, <3>2 DEF FileIsOpen, LooksBelow
    <3>4. FileWasTheAnswer'
      BY <2>1, <3>2 DEF FileWasTheAnswer, Ended
    <3> QED
      BY <3>3, <3>4 DEF FileInv
  <2> QED
    BY <2>2, <2>3
<1>7. CASE UNCHANGED vars
  BY <1>1, <1>7 DEF vars, serverVars, taskVars, searchVars
<1> QED
  BY <1>2, <1>3, <1>4, <1>5, <1>6, <1>7 DEF Next, TaskStep

LEMMA FileInit == Init => FileInv
BY DEF Init, FileInv, FileIsOpen, LooksBelow, FileWasTheAnswer, Ended

(* A file that is sent was the right answer at some moment during the task,    *)
(* with its own size and type, whatever is done to its path between the calls  *)
(* that look it up (static_handler.cpp:24-76), unless the path asks for a      *)
(* directory.                                                                  *)
THEOREM FilesWereRight ==
    ASSUME TableServes
    PROVE  Spec => []FileWasTheAnswer
<1> DEFINE Inv == /\ DescriptorInv /\ TaskTyped /\ HandsTyped /\ SearchInTable
                  /\ RunInv /\ LookupInv /\ FileInv
<1>1. Init => Inv
  <2>1. Init => DescriptorInv
    BY DEF Init, DescriptorInv
  <2> QED
    BY <2>1, TaskTypeInit, StableInit, FileInit
<1>2. Inv /\ [Next]_vars => Inv'
  BY DescriptorStep, TaskTypeStep, RunStep, LookupStep, FileStep
<1>3. Inv => FileWasTheAnswer
  BY DEF FileInv
<1> HIDE DEF Inv
<1> QED
  BY <1>1, <1>2, <1>3, PTL DEF Spec

=============================================================================
