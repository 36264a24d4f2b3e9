---------------------------- MODULE HttpRouter ----------------------------
(***************************************************************************)
(* protocol::HttpRouter: the routes in the order of their registration and *)
(* the choice dispatch() makes among them.  The table is filled before the *)
(* server runs and does not change afterwards, so that it is a parameter   *)
(* of the operators.                                                       *)
(***************************************************************************)
EXTENDS Url, FiniteSetsExt

Route(method, pattern, isPrefix, handler) ==
    [method |-> method, pattern |-> pattern, isPrefix |-> isPrefix, handler |-> handler]

addRoute(routes, method, pattern, handler) ==
    Append(routes, Route(method, pattern, FALSE, handler))

GET == <<71, 69, 84>>
get(routes, pattern, handler) == addRoute(routes, GET, pattern, handler)

\* The empty method stands for any.
addPrefix(routes, prefix, handler) == Append(routes, Route(<<>>, prefix, TRUE, handler))

splitPath_(path) == Parts(Before(path, Question), Slash)

IsParam(seg) == Head(seg) = Colon

\* Every segment is the same or a placeholder; of two placeholders with one
\* name the last binds.
matchSegments_(patternSegs, urlSegs) ==
    IF /\ Len(patternSegs) = Len(urlSegs)
       /\ \A i \in DOMAIN patternSegs :
             IsParam(patternSegs[i]) \/ patternSegs[i] = urlSegs[i]
    THEN LET Bound == {i \in DOMAIN patternSegs : IsParam(patternSegs[i])}
             At(name) == {i \in Bound : Tail(patternSegs[i]) = name}
         IN  {[name \in {Tail(patternSegs[i]) : i \in Bound} |-> urlSegs[Max(At(name))]]}
    ELSE {}

MethodFits(entry, method) == entry.method = <<>> \/ tolower(entry.method) = tolower(method)

Matches(entry, method, url) ==
    /\ MethodFits(entry, method)
    /\ IF entry.isPrefix THEN IsPrefix(entry.pattern, url)
       ELSE matchSegments_(splitPath_(entry.pattern), splitPath_(url)) # {}

First(routes, method, url, isPrefix) ==
    LET fits == {i \in DOMAIN routes : routes[i].isPrefix = isPrefix
                                       /\ Matches(routes[i], method, url)}
    IN  IF fits = {} THEN 0 ELSE Min(fits)

\* The handler of a request: the first exact route that fits, else the first
\* prefix route that fits, else nobody, which is a 404.  What a pattern binds
\* goes into the request, where no handler of this program looks for it.
dispatch(routes, method, url) ==
    LET exact == First(routes, method, url, FALSE)
        prefix == First(routes, method, url, TRUE)
    IN  IF exact # 0 THEN routes[exact].handler
        ELSE IF prefix # 0 THEN routes[prefix].handler
        ELSE "nobody"
=============================================================================
