---------------------------- MODULE MCDiffAnchors ----------------------------
(***************************************************************************)
(* DiffAnchors for TLC: up to two changed files.  A name with a blank whose*)
(* first word is another file's name, one whose text behind " b/" is, a    *)
(* rename of that one, a quoted name, an ignored file; hunks that end in,  *)
(* or begin with, lines that look like headers of this file, of another    *)
(* one or of none; files without hunks, emptied and removed ones.          *)
(***************************************************************************)
EXTENDS DiffAnchors

Plain    == <<"main">>
Spaced   == <<"main", "copy">>
Nested   == <<"lib", "b/main">>
QuotedIn == <<"quoted">>
Vendored == <<"vendor">>

MCPaths == {Plain, Spaced, Nested, QuotedIn, Vendored}
MCQuoted == {QuotedIn}
MCIgnored == {Vendored}
MCAfterB == [w \in {"b/main"} |-> Plain]

\* Lines of a hunk: ordinary ones, and those that look like a header.
Signs(s) == [i \in DOMAIN s |-> [sign |-> s[i], path |-> NoPath]]
Plus3(p) == <<[sign |-> "++", path |-> p]>>

FirstHunks ==
  {[start |-> 1, ops |-> o] : o \in {Signs(<<" ", "+">>)}
     \cup {Signs(<<"--">>) \o Plus3(p) : p \in {Plain, NoPath, Other}}}
SecondHunks ==
  {[start |-> 4, ops |-> o] : o \in {Signs(<<"+", "-", " ">>), Plus3(Other)}}
Emptied == <<[start |-> 0, ops |-> Signs(<<"-", "--">>)]>>

HunkLists ==
  {<< >>, Emptied} \cup {<<h>> : h \in FirstHunks \cup SecondHunks}
    \cup {<<g, h>> : g \in FirstHunks, h \in SecondHunks}

Entry(old, p, gone, hunks) == [old |-> old, path |-> p, removed |-> gone, hunks |-> hunks]

\* Files by themselves, and some for their company.
Files ==
  {Entry(p, p, FALSE, l) : p \in MCPaths, l \in HunkLists}
    \cup {Entry(p, p, TRUE, Emptied) : p \in MCPaths}
    \cup {Entry(Nested, p, FALSE, l) : p \in {Plain, Spaced}, l \in HunkLists}
Company ==
  {f \in Files : f.hunks \in {<< >>, Emptied} \cup {<<h>> : h \in SecondHunks}}

Pairs == {c \in {<<f, g>> : f \in Files, g \in Company} : c[1].path # c[2].path}

MCDiffs == {<<f>> : f \in Files} \cup Pairs \cup {<<c[2], c[1]>> : c \in Pairs}

=============================================================================
