------------------------------- MODULE Router -------------------------------
(***************************************************************************)
(* cppws::http::Router (src/http/router.cpp) as operators on the vector of *)
(* its routes.                                                             *)
(*                                                                         *)
(* A path is the sequence of what stands between its slashes: "/" is       *)
(* <<"">>, "/a/b" is <<"a", "b">> and "/a/" is <<"a", "">>.  A prefix ends *)
(* with a slash, as router.hpp asks for, so its last component is "".      *)
(***************************************************************************)
EXTENDS Naturals, SequencesExt

AddRoute(routes, method, path, handler) ==
    Append(routes, [method |-> method, path |-> path, handler |-> handler, is_prefix |-> FALSE])

AddPrefixRoute(routes, method, prefix, handler) ==
    Append(routes, [method |-> method, path |-> prefix, handler |-> handler, is_prefix |-> TRUE])

\* std::string::starts_with, for a prefix that ends with a slash
StartsWith(path, prefix) ==
    /\ Len(prefix) <= Len(path)
    /\ \A i \in 1 .. Len(prefix) - 1 : path[i] = prefix[i]

IsExact(route, req) ==
    ~route.is_prefix /\ route.method = req.method /\ route.path = req.path

IsPrefixMatch(route, req) ==
    route.is_prefix /\ route.method = req.method /\ StartsWith(req.path, route.path)

\* Pass 1: the first exact route, 0 if there is none
ExactRoute(routes, req) == SelectInSeq(routes, LAMBDA route : IsExact(route, req))

\* Mutant: the last prefix wins.
PrefixRoute_Last(routes, req) ==
    SelectLastInSeq(routes, LAMBDA route : IsPrefixMatch(route, req))

\* One turn of pass 2: `best`, or route i
Better(routes, req, best, i) ==
    IF /\ IsPrefixMatch(routes[i], req)
       /\ best = 0 \/ Len(routes[i].path) > Len(routes[best].path)
    THEN i ELSE best

\* Pass 2: `best`, after the loop over all routes
PrefixRoute(routes, req) ==
    LET best[i \in 0 .. Len(routes)] ==
            IF i = 0 THEN 0 ELSE Better(routes, req, best[i - 1], i)
    IN  best[Len(routes)]

\* The route that dispatch() takes, 0 if it returns false
DispatchedRoute(routes, req) ==
    IF ExactRoute(routes, req) # 0 THEN ExactRoute(routes, req) ELSE PrefixRoute(routes, req)

=============================================================================
