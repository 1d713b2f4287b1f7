--------------------------- MODULE MCRequestTask ---------------------------
(* An instance of RequestTask: routes, requests and a small file system. *)
EXTENDS RequestTask, TLC

Exact(path) == [method |-> "GET", path |-> path, handler |-> "health", is_prefix |-> FALSE]
Prefix(path, handler) ==
    [method |-> "GET", path |-> path, handler |-> handler, is_prefix |-> TRUE]

SomeRoutes == {Exact(<<"d">>), Prefix(<<"">>, "static"), Prefix(<<"d", "">>, "body")}

Gets == {[method |-> "GET", path |-> p] :
            p \in {<<"">>, <<"f.js">>, <<"f.js", "">>, <<"d">>, <<"d", "">>, <<"d", ".">>,
                   <<"x", "..", "d", "index.html">>, <<"..", "f.js">>, <<"", "d">>}}
SomeRequests == Gets \cup {[method |-> "POST", path |-> <<"d">>]}

Tree == << "public" >> :> [kind |-> "dir", id |-> 1]
     @@ << "public", "f.js" >> :> [kind |-> "file", id |-> 2]
     @@ << "public", "d" >> :> [kind |-> "dir", id |-> 3]
     @@ << "public", "d", "index.html" >> :> [kind |-> "file", id |-> 4]
     @@ << "f.js" >> :> [kind |-> "file", id |-> 5]
BelowRoot == {path \in DOMAIN Tree : path[1] = "public" /\ Len(path) > 1}

SomeNames == {"", ".", "..", "public", "index.html", "f.js", "d", "x"}

Table == <<".css", ".gif", ".html", ".js">>
Keys == {Table[i] : i \in 1 .. 4} \cup {""}
Ranks == "" :> 0 @@ [e \in {Table[i] : i \in 1 .. 4} |-> CHOOSE i \in 1 .. 4 : Table[i] = e]
ExtensionsOf == "f.js" :> ".js" @@ "index.html" :> ".html" @@ "d" :> "" @@ "public" :> ""

\* The hypothesis of the theorems about the answers holds in this instance.
ASSUME TableIsServed == TableServes

=============================================================================
