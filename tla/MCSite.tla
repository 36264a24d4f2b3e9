------------------------------- MODULE MCSite -------------------------------
(***************************************************************************)
(* Site for TLC: a small tree with every kind of entry and name, and URLs  *)
(* put together from a few segments.                                       *)
(***************************************************************************)
EXTENDS Site, TLC

a == <<97>>
b == <<98>>
srv == <<115>>
etc == <<101>>
www == <<119>>
config == <<99, 111, 110, 102, 105, 103>>
Dir == [type |-> "dir", to |-> <<>>, readable |-> TRUE]
File == [type |-> "file", to |-> <<>>, readable |-> TRUE]
Link(to) == [type |-> "link", to |-> to, readable |-> TRUE]
Closed(entry) == [entry EXCEPT !.readable = FALSE]

aPlusB == <<97, Plus, 98>>
percent == <<Percent, 52, 49>>       \* %41
odd == <<Question, Hash, 228, Space>>
dotted == <<Dot, 103>>
cfg == <<99>>
out == <<111>>
lnk == <<108>>
self == <<122>>
lost == <<116>>
loop == <<113>>
shut == <<104>>
lock == <<107>>
healthz == <<104, 101, 97, 108, 116, 104, 122>>

\* The root is given through a link.
MCroot == <<www>>
MCTree ==
    (<<>> :> Dir) @@ (<<www>> :> Link(<<srv>>)) @@ (<<etc>> :> Dir) @@ (<<etc, a>> :> File)
    @@ (<<etc, b>> :> Link(<<srv, b>>))
    @@ (<<srv>> :> Dir)
    @@ [p \in {<<srv, n>> : n \in {a, percent, odd, dotted, healthz, SQL}} |-> File]
    @@ (<<srv, aPlusB>> :> Dir) @@ (<<srv, aPlusB, b>> :> Dir)
    @@ (<<srv, aPlusB, config>> :> File) @@ (<<srv, aPlusB, b, odd>> :> Dir)
    @@ (<<srv, b>> :> Dir) @@ (<<srv, b, cfg>> :> Dir) @@ (<<srv, b, dotted>> :> Link(<<srv, a>>))
    @@ (<<srv, config>> :> Dir) @@ (<<srv, config, a>> :> File)
    @@ (<<srv, cfg>> :> Link(<<srv, config>>)) @@ (<<srv, out>> :> Link(<<etc>>))
    @@ (<<srv, lnk>> :> Link(<<srv, aPlusB>>)) @@ (<<srv, self>> :> Link(<<srv>>))
    @@ (<<srv, lost>> :> Link(<<srv, etc>>)) @@ (<<srv, loop>> :> Link(<<srv, loop>>))
    @@ (<<srv, shut>> :> Closed(Dir)) @@ (<<srv, lock>> :> Closed(File))

\* S and H begin a statement that reads; I, a blank and O are a SELECT that
\* writes a file; D writes.
S == <<83>>
D == <<68>>
I == <<73>>
O == <<79>>
MCkReadKeywords == {S}
MCkForbiddenTokens == {I \o O}
Pieces == {S, D, I, O, <<Space>>, <<11>>, <<Semicolon>>, <<Slash, 42, 42, Slash>>}
Short == {FlattenSeq(s) : s \in UNION {[1..n -> Pieces] : n \in 0..4}}
Statements == Short \cup {S \o s : s \in Short}

Written(segments) == FlattenSeq([i \in DOMAIN segments |-> <<Slash>> \o segments[i]])
UpUp == <<Percent, 50, 69, Percent, 50, 101>>   \* %2E%2e
Sequences(segments, n) == UNION {[1..k -> segments] : k \in 1..n}
Paths ==
    {Written(s) : s \in
        Sequences({a, cfg, out, lnk, config, lost, <<86>>, <<>>, Up, UpUp}, 3)
        \cup Sequences({a, lnk, self, loop, shut, lock, aPlusB, percent, odd, dotted, <<67>> \o Tail(config),
                        healthz, SQL, Here, <<97, Percent, 50, 70, 97>>,
                        <<97, Hash, 97>>, <<97, Question, 97>>}, 2)
        \cup {<<<<86>>, Up, cfg, a>>, <<<<86>>, Up, Up, etc>>,
             <<<<86>>, Up, out, b>>, <<<<86>>, Up, self, self, self, self, self>>}}

SqlParam(stmt) == SQLPath \o <<Question>> \o SQL \o <<Equals>>
                  \o urlEncodePathComponent(stmt)
lowerGet == <<103, 101, 116>>
POST == <<80, 79, 83, 84>>

MCRequests ==
    {<<GET, path>> : path \in Paths}
    \cup {<<method, path>> : method \in {lowerGet, POST},
                             path \in {SQLPath, SqlParam(S), <<Slash>>, <<Slash>> \o a, <<42>>}}
    \cup {<<GET, SqlParam(stmt)>> : stmt \in Statements}
    \cup {<<GET, QUERYPath \o tail>> : tail \in
            {<<Slash>>, <<Question, Amp, 115, Equals, 83, Amp>> \o SQL \o <<Equals, 83, Plus, 73>>,
             <<Question>> \o SQL \o <<Equals, Amp>> \o SQL \o <<Equals, 83>>}}
=============================================================================
