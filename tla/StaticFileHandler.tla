------------------------- MODULE StaticFileHandler -------------------------
(***************************************************************************)
(* handler::StaticFileHandler on a file tree with links: which file or     *)
(* directory a URL names, what is refused, and the links of a directory    *)
(* page.  A path is the sequence of its elements from "/"; an empty last   *)
(* element stands for a trailing slash.                                    *)
(*                                                                         *)
(* A file stands for its content.  Sorting, content types and HTML         *)
(* escapes, which the browser undoes, are left out.                        *)
(***************************************************************************)
EXTENDS Url

CONSTANTS
    Tree,  \* the file system: [path -> [type, to, readable]]
    root   \* the path the constructor is given

Here == <<Dot>>
Up == <<Dot, Dot>>
Path == Seq(Bytes)

\* What the kernel takes for the name of an entry.
Name(n) ==
    /\ n \in Bytes /\ n \notin {<<>>, Here, Up}
    /\ \A k \in DOMAIN n : n[k] # Slash

ASSUME TreeAssumption ==
    /\ <<>> \in DOMAIN Tree
    /\ \A p \in DOMAIN Tree :
          /\ p \in Path /\ \A i \in DOMAIN p : Name(p[i])
          /\ Tree[p].type \in {"dir", "file", "link"} /\ Tree[p].readable \in BOOLEAN
          /\ Tree[p].to \in Path
          /\ p # <<>> => Front(p) \in DOMAIN Tree /\ Tree[Front(p)].type = "dir"
    /\ root \in Path

-----------------------------------------------------------------------------
(* The file system and std::filesystem                                     *)

MaxLinks == 5

Names(dir) == {Last(p) : p \in {q \in DOMAIN Tree : q # <<>> /\ Front(q) = dir}}

\* A lookup of the kernel: the place it has reached, the elements left and the
\* links it may still follow.
Lookup == [at : Path, rest : Path, hops : 0..MaxLinks]

\* One element further, by name only.
Enter(at, e) ==
    IF e \in {<<>>, Here} THEN at
    ELSE IF e # Up THEN Append(at, e)
    ELSE IF at = <<>> THEN at ELSE Front(at)

Entered(s) == Enter(s.at, Head(s.rest))
AtLink(s) == Entered(s) \in DOMAIN Tree /\ Tree[Entered(s)].type = "link"
Missing(s) == Tree[s.at].type # "dir" \/ Entered(s) \notin DOMAIN Tree
TooMany(s) == AtLink(s) /\ s.hops = 0

Onward(s) ==
    IF AtLink(s)
    THEN [at |-> <<>>, rest |-> Tree[Entered(s)].to \o Tail(s.rest), hops |-> s.hops - 1]
    ELSE [s EXCEPT !.at = Entered(s), !.rest = Tail(s.rest)]

\* "loop" is ELOOP.
Walk[s \in Lookup] ==
    IF s.rest = <<>> THEN [is |-> "there", at |-> s.at]
    ELSE IF Missing(s) THEN [is |-> "missing", at |-> s.at]
    ELSE IF TooMany(s) THEN [is |-> "loop", at |-> s.at]
    ELSE Walk[Onward(s)]

Real(path) == Walk[[at |-> <<>>, rest |-> path, hops |-> MaxLinks]]

Entering[path \in Path] ==
    IF path = <<>> THEN <<>> ELSE Enter(Entering[Front(path)], Last(path))

lexically_normal(path) ==
    LET body == Entering[path]
    IN  IF body # <<>> /\ Last(path) \in {<<>>, Here, Up} THEN Append(body, <<>>) ELSE body

\* What exists is resolved, the rest is only tidied up.
weakly_canonical(path) ==
    LET whole == Real(path)
        there == Max({k \in 0..Len(path) : Real(SubSeq(path, 1, k)).is = "there"})
    IN  IF whole.is # "missing" THEN whole
        ELSE [is |-> "missing",
              at |-> lexically_normal(Real(SubSeq(path, 1, there)).at
                                      \o SubSeq(path, there + 1, Len(path)))]

\* Of two paths without links, "." for the same.
lexically_relative(path, base) ==
    LET n == Max({k \in 0..Min({Len(path), Len(base)}) :
                    SubSeq(path, 1, k) = SubSeq(base, 1, k)})
        steps == [i \in 1..Len(base) - n |-> Up] \o SubSeq(path, n + 1, Len(path))
    IN  IF steps = <<>> THEN <<Here>> ELSE steps

\* The constructor.
root_ == weakly_canonical(root).at

relative(path) == lexically_relative(weakly_canonical(path).at, root_)

-----------------------------------------------------------------------------
(* What may be served                                                      *)

isWithinRoot_(target) == IsPrefix(root_, target)

CONFIG == <<99, 111, 110, 102, 105, 103>>

\* relative() resolves the links of target first; an error denies.
isDeniedByPolicy_(target) ==
    \/ weakly_canonical(target).is = "loop"
    \/ LET parts == relative(target)
       IN  parts # <<Here>> /\
           \/ tolower(Head(parts)) = CONFIG
           \/ \E i \in DOMAIN parts : parts[i] # <<>> /\ Head(parts[i]) = Dot

\* Mutant: the policy is left to the page of the directory.
RefusedOutside(target) == ~isWithinRoot_(target)

Refused(target) == ~isWithinRoot_(target) \/ isDeniedByPolicy_(target)

\* The query goes first, then the fragment.
normalizeUrlPath_(rawUrl) ==
    LET path == Before(Before(rawUrl, Question), Hash)
    IN  IF path = <<>> \/ Head(path) # Slash THEN <<Slash>> \o path ELSE path

-----------------------------------------------------------------------------
(* The page of a directory                                                 *)

IsDirectory(path) == Real(path).is = "there" /\ Tree[Real(path).at].type = "dir"

\* The segments that are not empty.
Joined(segments) ==
    FlattenSeq([i \in DOMAIN segments |->
        IF segments[i] = <<>> THEN <<>> ELSE <<Slash>> \o segments[i]])

\* Every segment is encoded by itself.
EntryLink(path) ==
    LET segments == relative(path)
        encoded == [i \in DOMAIN segments |-> urlEncodePathComponent(segments[i])]
    IN  [name |-> Last(path), up |-> FALSE, to |-> path,
         href |-> Joined(encoded) \o IF IsDirectory(path) THEN <<Slash>> ELSE <<>>]

\* The segments of the way up are not encoded.
ParentLink(dirPath) ==
    LET parent == Front(dirPath)
        segments == relative(parent)
    IN  [name |-> Up, up |-> TRUE, to |-> parent,
         href |-> (IF segments = <<Here>> THEN <<>> ELSE Joined(segments)) \o <<Slash>>]

buildDirHtml_(dirPath) ==
    LET entries == {Append(dirPath, n) : n \in Names(Real(dirPath).at)}
    IN  {EntryLink(e) : e \in {f \in entries : ~isDeniedByPolicy_(f)}}
        \cup (IF dirPath = root_ THEN {} ELSE {ParentLink(dirPath)})

-----------------------------------------------------------------------------
(* handle                                                                  *)

Answer(status, kind, at, links) ==
    [status |-> status, kind |-> kind, at |-> at, links |-> links, stmt |-> <<>>]

\* An error that is an exception: nobody between the handler and the thread of
\* the loop catches it.
Throws == 0

HEALTHZ == <<47, 104, 101, 97, 108, 116, 104, 122>>

\* relative_path() of a decoded URL.
Elements(s) ==
    Parts(s, Slash) \o IF s # <<>> /\ Last(s) = Slash THEN << <<>> >> ELSE <<>>

Serve(dirOrFile) ==
    LET entry == Tree[Real(dirOrFile).at]
    IN  IF entry.type = "dir"
        THEN IF entry.readable THEN Answer(200, "page", dirOrFile, buildDirHtml_(dirOrFile))
             ELSE Answer(Throws, "error", dirOrFile, {})
        ELSE IF entry.readable THEN Answer(200, "file", dirOrFile, {})
             ELSE Answer(500, "error", dirOrFile, {})

StaticFileHandler_handle(method, url) ==
    LET urlPath == normalizeUrlPath_(url)
        candidate == weakly_canonical(root_ \o Elements(urlDecode[urlPath]))
    IN  IF method \notin {<<71, 69, 84>>, <<103, 101, 116>>} THEN Answer(405, "error", <<>>, {})
        ELSE IF urlPath = HEALTHZ THEN Answer(200, "health", <<>>, {})
        ELSE IF candidate.is = "loop" THEN Answer(Throws, "error", <<>>, {})
        ELSE IF Refused(candidate.at) THEN Answer(403, "error", <<>>, {})
        ELSE IF Real(candidate.at).is # "there" THEN Answer(404, "error", <<>>, {})
        ELSE Serve(candidate.at)
=============================================================================
