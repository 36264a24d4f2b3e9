----------------------------- MODULE SqlHandler -----------------------------
(***************************************************************************)
(* What handler::SqlHandler decides before it hands a statement to the     *)
(* executor: the method, the parameter, and the guard of                   *)
(* utils/SqlStatementGuard.cpp.  What happens to the statement afterwards  *)
(* is in SqlExecutor and HttpConnection.                                   *)
(***************************************************************************)
EXTENDS Url

CONSTANTS
    kReadKeywords,     \* the words a read-only statement begins with
    kForbiddenTokens   \* what it must not contain, blanks aside

ASSUME TextAssumption ==
    kReadKeywords \subseteq Bytes /\ kForbiddenTokens \subseteq Bytes \ {<<>>}

SQL == <<115, 113, 108>>

\* The value of the first parameter named "sql"; one without '=' is no
\* parameter.
extractSqlParam_(url) ==
    LET segments == Parts(After(url, Question), Amp)
        named == SelectInSeq(segments, LAMBDA s : Find(s, Equals) # 0 /\ Before(s, Equals) = SQL)
    IN  IF named = 0 THEN <<>> ELSE urlDecode[After(segments[named], Equals)]

IsSpace(c) == c \in {Space} \cup 9..13
IsAlpha(c) == c \in Upper \cup Lower

trim(s) ==
    LET first == SelectInSeq(s, LAMBDA c : ~IsSpace(c))
        last == SelectLastInSeq(s, LAMBDA c : ~IsSpace(c))
    IN  IF first = 0 THEN <<>> ELSE SubSeq(s, first, last)

Keyword(s) ==
    LET stop == SelectInSeq(s, LAMBDA c : ~IsAlpha(c))
    IN  toupper(IF stop = 0 THEN s ELSE SubSeq(s, 1, stop - 1))

WithoutSpace(s) == FlattenSeq([i \in DOMAIN s |-> IF IsSpace(s[i]) THEN <<>> ELSE <<s[i]>>])
Comments == {<<45, 45>>, <<Hash>>, <<Slash, 42>>}

\* One semicolon may stand at the end.
Body(sql) ==
    LET s == trim(sql)
    IN  IF s # <<>> /\ Last(s) = Semicolon THEN trim(Front(s)) ELSE s

\* Mutant: only a comment at the beginning is looked for.
HasLeadingComment(body) == \E c \in Comments : IsPrefix(c, body)

HasComment(body) == \E c \in Comments : Occurs(c, body)

isReadOnlyStatement(sql) ==
    LET body == Body(sql)
        compact == toupper(WithoutSpace(body))
    IN  /\ body # <<>>
        /\ Find(body, Semicolon) = 0
        /\ ~HasComment(body)
        /\ Keyword(body) \in kReadKeywords
        /\ \A token \in kForbiddenTokens : ~Occurs(token, compact)

Reply(status, kind, stmt) ==
    [status |-> status, kind |-> kind, at |-> <<>>, links |-> {}, stmt |-> stmt]

\* A statement that passes is submitted; submit() may refuse.
SqlHandler_handle(method, url, readOnly) ==
    LET sql == extractSqlParam_(url)
    IN  IF method # <<71, 69, 84>> THEN {Reply(405, "json", <<>>)}
        ELSE IF sql = <<>> THEN {Reply(400, "json", <<>>)}
        ELSE IF readOnly /\ ~isReadOnlyStatement(sql) THEN {Reply(403, "json", <<>>)}
        ELSE {Reply(200, "job", sql), Reply(503, "json", <<>>)}
=============================================================================
