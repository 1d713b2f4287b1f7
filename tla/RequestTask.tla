---------------------------- MODULE RequestTask ----------------------------
(***************************************************************************)
(* The task that the read callback submits for a request                   *)
(* (src/main.cpp:122-135), from Router::dispatch to post_response, with    *)
(* StaticFileHandler (src/http/static_handler.cpp) as one of the handlers, *)
(* while others change the file system between any two of its calls.       *)
(*                                                                         *)
(* A path is a sequence of components, as in Router.  The file system is a *)
(* node for each path; two nodes are never the same, and a node's id also  *)
(* stands for the size of the file.  There are no symbolic links.          *)
(***************************************************************************)
EXTENDS Router, Mime

CONSTANTS
    Registrations,              \* calls of add_route and add_prefix_route: their routes
    MaxRoutes,                  \* bound: routes added
    Requests,                   \* requests, as [method |-> ..., path |-> ...]
    InitialFs,                  \* the node of each path
    ChangingPaths,              \* the paths whose nodes change
    Replacements,               \* the kinds of node they can get
    MaxChanges,                 \* bound: changes of the file system
    Names,                      \* the names that paths are made of
    ExtensionOf                 \* path::extension(), by the last component

root_dir_ == <<"public">>
Kinds == {"none", "file", "dir", "locked", "socket"}

\* A route is what AddRoute and AddPrefixRoute make of a registration.
ASSUME TaskAssumption ==
    /\ {"", "public", "index.html"} \subseteq Names
    /\ \A r \in Registrations :
           /\ r = [method |-> r.method, path |-> r.path, handler |-> r.handler,
                    is_prefix |-> r.is_prefix]
           /\ r.is_prefix \in BOOLEAN /\ r.path \in Seq(Names)
    /\ \A req \in Requests : req.path \in Seq(Names) \ {<<>>}
    /\ \A path \in DOMAIN InitialFs :
           /\ path \in Seq(Names) \ {<<>>} /\ InitialFs[path] \in [kind : Kinds, id : Nat]
           /\ ExtensionOf[Last(path)] \in Extensions
    /\ ExtensionOf["index.html"] = ".html"
    /\ ChangingPaths \subseteq DOMAIN InitialFs /\ Replacements \subseteq Kinds
    /\ MaxRoutes \in Nat /\ MaxChanges \in Nat

VARIABLES
    routes_,                    \* the router's routes
    fs,                         \* path -> [kind, id]
    changes,                    \* how often the file system has changed
    pc,                         \* the next call of the task
    request,
    target,                     \* abs_path, then target
    file_fd, file_size,         \* the node that is open, or NoFile, and its size
    resp,                       \* the response
    openFiles,                  \* nodes open, and not handed to the loop yet
    seen,                       \* history: the file systems that there were since dispatch
    failed                      \* history: a system call failed in this task

serverVars == <<routes_, fs, changes>>
taskVars == <<pc, request, target, file_fd, file_size, resp, openFiles, failed>>
vars == <<serverVars, taskVars, seen, searchVars>>

NoRequest == [method |-> "UNKNOWN", path |-> <<"">>]
NoFile == [kind |-> "none", id |-> 0]

\* status, the node to send, what Content-Length says, and Content-Type.  The
\* body in memory of every handler and of make_error() has one unit.
Response(status, file, length, type) ==
    [status |-> status, file |-> file, length |-> length, type |-> type]
TextResponse(status) == Response(status, NoFile, 1, "text/plain")
FileResponse(file, type) == Response("200", file, file.id, type)

-----------------------------------------------------------------------------
(* std::filesystem, from how the handler uses it. *)

\* A path without its trailing slash
Named(p) == IF Last(p) = "" THEN Front(p) ELSE p
Node(files, p) == files[Named(p)]
NodeKind(files, path) == IF path \in DOMAIN files THEN files[path].kind ELSE "none"

\* What the look-up of a path runs into on the way: its first component that is
\* no directory it can search, or "dir" if it gets to the last.
Obstacle(files, path) ==
    LET stops == {i \in 1 .. Len(path) - 1 : NodeKind(files, SubSeq(path, 1, i)) # "dir"}
    IN  IF stops = {} THEN "dir" ELSE NodeKind(files, SubSeq(path, 1, Min(stops)))

\* status(p).kind: a trailing slash asks for a directory; a component that is no
\* directory hides what is behind it, and one without permission fails.
Kind(files, p) ==
    LET obstacle == Obstacle(files, Named(p))
        kind == NodeKind(files, Named(p))
    IN  CASE obstacle = "locked" -> "error"
          [] obstacle \notin {"dir", "locked"} -> "none"
          [] OTHER -> IF Last(p) = "" /\ kind \in {"file", "socket"} THEN "none" ELSE kind

IsDir(p) == Kind(fs, p) \in {"dir", "locked"}

\* path::lexically_normal(), name by name
AddName(names, name) ==
    CASE name \in {"", "."} -> names
      [] name = ".." -> IF names = <<>> THEN <<>> ELSE Front(names)
      [] OTHER -> Append(names, name)

LexicallyNormal(path) ==
    LET names[i \in 0 .. Len(path)] ==
            IF i = 0 THEN <<>> ELSE AddName(names[i - 1], path[i])
        all == names[Len(path)]
    IN  IF Last(path) \in {"", ".", ".."} THEN Append(all, "") ELSE all

\* weakly_canonical(), of a normal path: a directory loses its trailing slash
WeaklyCanonical(path) ==
    IF Last(path) = "" /\ Len(path) > 1 /\ IsDir(path) THEN Front(path) ELSE path

-----------------------------------------------------------------------------
(* StaticFileHandler::resolve: <<>> is the empty path that refuses. *)

\* root_dir_ / rel: an absolute rel replaces the root
Candidate(path) ==
    LexicallyNormal(IF Len(path) > 1 /\ Head(path) = "" THEN path ELSE root_dir_ \o path)

Resolve(path) ==
    IF \/ Kind(fs, Candidate(path)) = "error"
       \/ ~IsPrefix(root_dir_, WeaklyCanonical(Candidate(path)))
    THEN <<>>
    ELSE WeaklyCanonical(Candidate(path))

-----------------------------------------------------------------------------
(* What the answer to a request should be, if nothing changed. *)

RightRoute(routes, req) ==
    LET exact == {i \in 1 .. Len(routes) : IsExact(routes[i], req)}
        prefix == {i \in 1 .. Len(routes) : IsPrefixMatch(routes[i], req)}
        Longer(i, j) == Len(routes[i].path) > Len(routes[j].path)
    IN  CASE exact # {} -> CHOOSE i \in exact : \A j \in exact : i <= j
          [] exact = {} /\ prefix # {} ->
                 CHOOSE i \in prefix : \A j \in prefix \ {i} :
                     Longer(i, j) \/ (~Longer(j, i) /\ i < j)
          [] OTHER -> 0

TypeOf(e) == IF Listed(e) THEN e ELSE "application/octet-stream"

\* The path is below the root, names a file or a directory with an index, and
\* everything on the way to it can be looked up.
RightFile(req, files) ==
    LET path == Candidate(req.path)
        kind == Kind(files, path)
        index == Append(Named(path), "index.html")
    IN  IF ~IsPrefix(root_dir_, Named(path)) \/ kind = "error" THEN TextResponse("403")
        ELSE CASE kind = "none" -> TextResponse("404")
               [] kind = "socket" -> TextResponse("403")
               [] kind = "file" ->
                      FileResponse(Node(files, path), TypeOf(ExtensionOf[Last(path)]))
               [] kind = "locked" -> TextResponse("exception")
               [] kind = "dir" ->
                      CASE Kind(files, index) = "none" -> TextResponse("404")
                        [] Kind(files, index) = "file" ->
                               FileResponse(Node(files, index), TypeOf(".html"))
                        [] OTHER -> TextResponse("403")

RightAnswer(routes, req, files) ==
    LET i == RightRoute(routes, req)
    IN  CASE i = 0 -> TextResponse("404")
          [] i # 0 /\ routes[i].handler # "static" -> TextResponse("200")
          [] OTHER -> RightFile(req, files)

-----------------------------------------------------------------------------

Init ==
    /\ routes_ = <<>> /\ fs = InitialFs /\ changes = 0
    /\ pc = "startup"
    /\ request = NoRequest /\ target = <<>>
    /\ file_fd = NoFile /\ file_size = 0 /\ resp = TextResponse("none")
    /\ openFiles = {} /\ failed = FALSE /\ seen = {}
    /\ extension = "" /\ first = 1 /\ len = Len(MIME_TABLE)

(* build_router() *)
RegisterRoute(r) ==
    /\ pc = "startup" /\ Len(routes_) < MaxRoutes
    /\ routes_' = IF r.is_prefix THEN AddPrefixRoute(routes_, r.method, r.path, r.handler)
                                 ELSE AddRoute(routes_, r.method, r.path, r.handler)
    /\ UNCHANGED <<fs, changes, taskVars, seen, searchVars>>

Serve ==
    /\ pc = "startup" /\ pc' = "idle"
    /\ UNCHANGED <<serverVars, request, target, file_fd, file_size, resp, openFiles, failed,
                   seen, searchVars>>

(* Somebody replaces, removes or creates what is at a path. *)
Change(path, kind) ==
    /\ pc # "startup" /\ changes < MaxChanges
    /\ changes' = changes + 1
    /\ fs' = [fs EXCEPT ![path] = [kind |-> kind, id |-> 10 + changes']]
    /\ UNCHANGED <<routes_, taskVars, searchVars>>
    /\ seen' = IF pc = "idle" THEN seen ELSE seen \cup {fs'}

-----------------------------------------------------------------------------
(* The task, one action per call that looks at the file system. *)

Answers(response) ==
    /\ resp' = response
    /\ pc' = "post"

\* An exception ends the task in worker_loop's handler: nothing is posted.
Throws ==
    /\ resp' = TextResponse("exception")
    /\ pc' = "idle"

(* dispatch() in a new task. *)
Dispatch(req) ==
    LET i == DispatchedRoute(routes_, req)
    IN  /\ pc = "idle"
        /\ request' = req
        /\ target' = <<>> /\ failed' = FALSE /\ seen' = {fs}
        /\ \/ i = 0 /\ Answers(TextResponse("404"))
           \/ i # 0 /\ routes_[i].handler # "static" /\ Answers(TextResponse("200"))
           \/ /\ i # 0 /\ routes_[i].handler = "static"
              /\ pc' = "resolve" /\ resp' = TextResponse("none")
        /\ UNCHANGED <<serverVars, file_fd, file_size, openFiles, searchVars>>

CallResolve ==
    /\ pc = "resolve"
    /\ target' = Resolve(request.path)
    /\ \/ target' = <<>> /\ Answers(TextResponse("403"))
       \/ target' # <<>> /\ pc' = "exists" /\ UNCHANGED resp
    /\ UNCHANGED <<serverVars, request, file_fd, file_size, openFiles, failed,
                   seen, searchVars>>

\* A call of exists(target), which throws if it cannot tell
ExistsThen(next) ==
    /\ \/ Kind(fs, target) = "error" /\ Throws
       \/ Kind(fs, target) = "none" /\ Answers(TextResponse("404"))
       \/ Kind(fs, target) \notin {"error", "none"} /\ pc' = next /\ UNCHANGED resp
    /\ UNCHANGED <<serverVars, request, target, file_fd, file_size, openFiles, failed,
                   seen, searchVars>>

Exists == pc = "exists" /\ ExistsThen("is_directory")

ExistsIndex == pc = "exists_index" /\ ExistsThen("is_regular_file")

IsDirectory ==
    /\ pc = "is_directory"
    /\ \/ Kind(fs, target) = "error" /\ Throws /\ UNCHANGED target
       \/ /\ IsDir(target)
          /\ target' = Append(Named(target), "index.html")
          /\ pc' = "exists_index" /\ UNCHANGED resp
       \/ /\ Kind(fs, target) # "error" /\ ~IsDir(target)
          /\ pc' = "is_regular_file" /\ UNCHANGED <<target, resp>>
    /\ UNCHANGED <<serverVars, request, file_fd, file_size, openFiles, failed,
                   seen, searchVars>>

IsRegularFile ==
    /\ pc = "is_regular_file"
    /\ \/ Kind(fs, target) = "error" /\ Throws
       \/ Kind(fs, target) \notin {"error", "file"} /\ Answers(TextResponse("403"))
       \/ Kind(fs, target) = "file" /\ pc' = "open" /\ UNCHANGED resp
    /\ UNCHANGED <<serverVars, request, target, file_fd, file_size, openFiles, failed,
                   seen, searchVars>>

(* open(): a directory can be opened for reading, a socket cannot; and it can *)
(* fail for lack of descriptors.                                              *)
Open ==
    /\ pc = "open"
    /\ \/ /\ Kind(fs, target) \in {"file", "dir", "locked"}
          /\ file_fd' = Node(fs, target)
          /\ openFiles' = openFiles \cup {file_fd'}
          /\ pc' = "fstat" /\ UNCHANGED <<resp, failed>>
       \/ /\ Answers(TextResponse("500"))
          /\ failed' = TRUE /\ UNCHANGED <<file_fd, openFiles>>
    /\ UNCHANGED <<serverVars, request, target, file_size, seen, searchVars>>

\* Mutant: the early return forgets the descriptor.
FstatFails_Leaks ==
    /\ Answers(TextResponse("500"))
    /\ failed' = TRUE
    /\ UNCHANGED <<file_fd, file_size, openFiles, searchVars>>

FstatFails ==
    /\ Answers(TextResponse("500"))
    /\ failed' = TRUE
    /\ openFiles' = openFiles \ {file_fd} /\ file_fd' = NoFile
    /\ UNCHANGED <<file_size, searchVars>>

\* Mutant: stat() of the path in place of fstat() of the descriptor.
FstatReturns_ByPath ==
    /\ file_size' = IF Kind(fs, target) \in {"none", "error"} THEN 0 ELSE Node(fs, target).id
    /\ StartSearch(ExtensionOf[Last(target)])
    /\ pc' = "mime" /\ UNCHANGED <<resp, file_fd, openFiles, failed>>

\* The size, then the call of mime_type()
FstatReturns ==
    /\ file_size' = file_fd.id
    /\ StartSearch(ExtensionOf[Last(target)])
    /\ pc' = "mime" /\ UNCHANGED <<resp, file_fd, openFiles, failed>>

Fstat ==
    /\ pc = "fstat"
    /\ FstatReturns \/ FstatFails
    /\ UNCHANGED <<serverVars, request, target, seen>>

MimeTurn ==
    /\ pc = "mime" /\ SearchTurn
    /\ UNCHANGED <<serverVars, taskVars, seen>>

(* set_status and set_sendfile, which takes the descriptor over. *)
SetSendfile ==
    /\ pc = "mime" /\ len = 0
    /\ Answers(Response("200", file_fd, file_size, MimeType))
    /\ file_fd' = NoFile /\ file_size' = 0
    /\ UNCHANGED <<serverVars, request, target, openFiles, failed, seen, searchVars>>

(* take_sendfile_fd and post_response: the descriptor is the loop's. *)
Post ==
    /\ pc = "post" /\ pc' = "idle"
    /\ openFiles' = openFiles \ {resp.file}
    /\ UNCHANGED <<serverVars, request, target, file_fd, file_size, resp, failed,
                   seen, searchVars>>

Next ==
    \/ \E r \in Registrations : RegisterRoute(r)
    \/ Serve
    \/ \E path \in ChangingPaths, kind \in Replacements : Change(path, kind)
    \/ \E req \in Requests : Dispatch(req)
    \/ CallResolve \/ Exists \/ IsDirectory \/ ExistsIndex \/ IsRegularFile
    \/ Open \/ Fstat \/ MimeTurn \/ SetSendfile \/ Post

Spec == Init /\ [][Next]_vars

-----------------------------------------------------------------------------
(* Types; the search stays inside the table, and a response's descriptor is   *)
(* open as long as the task holds it.                                         *)
TypeOK ==
    /\ routes_ \in Seq(Registrations)
    /\ \A path \in DOMAIN fs : fs[path].kind \in Kinds
    /\ changes \in 0 .. MaxChanges
    /\ pc \in {"startup", "idle", "resolve", "exists", "is_directory", "exists_index",
               "is_regular_file", "open", "fstat", "mime", "post"}
    /\ request \in Requests \cup {NoRequest}
    /\ resp.status \in {"none", "200", "403", "404", "500", "exception"}
    /\ openFiles \subseteq [kind : Kinds, id : Nat]
    /\ file_fd # NoFile => file_fd \in openFiles
    /\ pc = "post" /\ resp.file # NoFile => resp.file \in openFiles
    /\ first \in 1 .. Len(MIME_TABLE) + 1 /\ first + len <= Len(MIME_TABLE) + 1

\* The table is in order around the extension of every file, if it has it.
TableServes ==
    \A path \in DOMAIN InitialFs :
        LET e == ExtensionOf[Last(path)] IN Listed(e) => Searchable(e)

\* A task has ended, and no call of it failed.
Ended == pc = "idle" /\ request # NoRequest /\ ~failed

(* If nothing changes during the task, the right answer is given: the exact   *)
(* route goes before the longest prefix (router.cpp:16-43), and the handler's *)
(* sequence of checks agrees with what the path means                         *)
(* (static_handler.cpp:17-45).                                                *)
StableAnswer ==
    Ended => \A files \in seen : seen = {files} => resp = RightAnswer(routes_, request, files)

(* A file that is sent was the right one at some moment during the task, with *)
(* its own size and type, although its path is looked up four times           *)
(* (static_handler.cpp:24-76).  A path that asks for a directory, "/d/" or    *)
(* "/d/.", can have been resolved while there was one.                        *)
FileWasTheAnswer ==
    Ended /\ resp.file.kind = "file" /\ Last(Candidate(request.path)) # "" =>
        \E files \in seen : resp = RightAnswer(routes_, request, files)

(* Whatever fails, no descriptor is left behind when the task ends: it is     *)
(* closed, or the loop's (static_handler.cpp:60-63, main.cpp:132-134).        *)
NoDescriptorLost == pc = "idle" => openFiles = {}

=============================================================================
