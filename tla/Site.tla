-------------------------------- MODULE Site --------------------------------
(***************************************************************************)
(* The request handler app/main.cpp gives the server: HttpRouter with the  *)
(* SQL routes, if the program was started with them, and the static files  *)
(* behind the prefix "/".  Clients send URLs of their own or follow the    *)
(* links of a directory page.                                              *)
(***************************************************************************)
EXTENDS HttpRouter, StaticFileHandler, SqlHandler

CONSTANT
    Requests  \* the <<method, URL>> clients come up with

VARIABLES
    routes,    \* routes_ of the router
    readOnly,  \* readOnly_ of SqlHandler
    up,        \* the process runs
    answer,    \* what the client got last
    via        \* the link it had followed, in a set of at most one

vars == <<routes, readOnly, up, answer, via>>

ASSUME RequestsAssumption == Requests \subseteq Bytes \X Bytes

Nothing == Answer(0, "none", <<>>, {})
Prefix == <<Slash>>
SQLPath == <<Slash>> \o SQL
QUERYPath == <<Slash, 113, 117, 101, 114, 121>>

Table(enableSql) ==
    LET sqlRoutes == get(get(<<>>, QUERYPath, "sqlHandler"),
                         SQLPath, "sqlHandler")
    IN  addPrefix(IF enableSql THEN sqlRoutes ELSE <<>>, Prefix, "staticHandler")

\* main with and without --enable-sql, readOnly from SQLConfig.json.
Init ==
    /\ \E enableSql \in BOOLEAN : routes = Table(enableSql)
    /\ readOnly \in BOOLEAN
    /\ up = TRUE /\ answer = Nothing /\ via = {}

\* The router's 404, or the answers the chosen handler may give.
Answers(method, url) ==
    LET handler == dispatch(routes, method, url)
    IN  CASE handler = "sqlHandler" -> SqlHandler_handle(method, url, readOnly)
          [] handler = "staticHandler" -> {StaticFileHandler_handle(method, url)}
          [] handler = "nobody" -> {Answer(404, "error", <<>>, {})}

\* The lambda given to setRequestHandler.  Nothing catches what it throws.
Dispatch(method, url) ==
    /\ answer' \in Answers(method, url)
    /\ up' = (answer'.status # Throws)
    /\ UNCHANGED <<routes, readOnly>>

Ask ==
    /\ up /\ answer = Nothing
    /\ \E request \in Requests : Dispatch(request[1], request[2])
    /\ via' = {}

Follow ==
    /\ up
    /\ \E link \in answer.links :
          Dispatch(GET, link.href) /\ via' = {link}

Leave ==
    /\ up /\ answer # Nothing
    /\ answer' = Nothing /\ via' = {}
    /\ UNCHANGED <<routes, readOnly, up>>

Next == Ask \/ Follow \/ Leave

Spec == Init /\ [][Next]_vars

-----------------------------------------------------------------------------
(* Properties                                                              *)

\* A place that may be seen: in the root, not under its first-level "config",
\* and behind no name that begins with a dot.
Public(at) ==
    /\ IsPrefix(root_, at)
    /\ LET below == SubSeq(at, Len(root_) + 1, Len(at))
       IN  /\ below = <<>> \/ tolower(below[1]) # CONFIG
           /\ \A i \in DOMAIN below : Head(below[i]) # Dot

\* Whatever is served is public, however the URL is written and through
\* whichever links it leads, and the page of a directory shows exactly those of
\* its entries that are (StaticFileHandler.cpp:98-162, 203-210, 326-345;
\* HTTP-API.md:42-44).
ServedIsPublic ==
    answer.kind \in {"page", "file"} =>
        LET place == Real(answer.at).at
        IN  /\ Public(place)
            /\ \A n \in Names(place) :
                  LET target == Real(Append(answer.at, n))
                  IN  answer.kind = "page" /\ target.is = "there" =>
                          (Public(target.at) <=> \E l \in answer.links : l.name = n /\ ~l.up)

\* Names the program keeps for itself: a file of that name cannot be reached.
Kept(url) ==
    url = HEALTHZ \/ First(routes, GET, url, FALSE) # 0

Plain(path) == \A i \in DOMAIN path : \A k \in DOMAIN path[i] :
                    path[i][k] \notin {Plus, Percent, Hash, Question}

\* The link of an entry leads to that entry, whatever bytes its name consists
\* of: encoding, routing, cutting and decoding fit together.  The link ".."
\* does on a way without special bytes (StaticFileHandler.cpp:198, 226-272,
\* StringUtils.hpp:73-79).
LinksLead ==
    \A link \in via :
        LET target == Real(link.to)
        IN  /\ target.is = "there" /\ ~Kept(link.href)
            /\ link.up => Plain(target.at) /\ Public(target.at)
            => Real(answer.at) = target /\ answer.status \notin {403, 404}

\* What the database makes of a statement: a comment parts words like white
\* space, a semicolon ends a statement.
Separated(stmt) ==
    LET Opens(k) == k < Len(stmt) /\ SubSeq(stmt, k, k + 1) = <<Slash, 42>>
        Closes(k) == k < Len(stmt) /\ SubSeq(stmt, k, k + 1) = <<42, Slash>>
        InComment(i) == \E k, m \in DOMAIN stmt :
            /\ Opens(k) /\ Closes(m) /\ k + 2 <= m /\ k <= i /\ i <= m + 1
            /\ \A j \in k + 2..m - 1 : ~Closes(j)
    IN  [i \in DOMAIN stmt |->
            IF InComment(i) \/ IsSpace(stmt[i]) THEN Space ELSE stmt[i]]
OnlyReads(stmt) ==
    LET statements == Parts(Separated(stmt), Semicolon)
    IN  \A k \in DOMAIN statements :
            LET words == Parts(statements[k], Space)
            IN  words # <<>> =>
                    /\ Keyword(words[1]) \in kReadKeywords
                    /\ \A token \in kForbiddenTokens :
                          ~Occurs(token, toupper(FlattenSeq(words)))

\* A statement reaches the executor only by GET on the two routes of a program
\* that was started with SQL, and in read-only mode only if all that the
\* database would execute of it reads (SqlHandler.cpp:170-194,
\* SqlStatementGuard.cpp:27-115, HTTP-API.md:57-71).
OnlyReadsSubmitted ==
    answer.kind = "job" =>
        /\ Len(routes) = 3 /\ up
        /\ readOnly => OnlyReads(answer.stmt)
=============================================================================
