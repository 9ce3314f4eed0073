----------------------------- MODULE DiffAnchors -----------------------------
(***************************************************************************)
(* How a finding is tied to the diff: SplitDiffByFile cuts the raw diff of *)
(* a pull request into sections, ParseHunks reads the new-side ranges of a *)
(* section (internal/analysis/diff.go), and finish drops the findings that *)
(* name another file or another line (internal/analysis/pipeline.go).  For *)
(* a push the sections are the patches of GitHub's comparison, which hold  *)
(* hunks but no file headers.                                              *)
(*                                                                         *)
(* AgentReview takes the outcome, the new lines of every path, as given.   *)
(***************************************************************************)
EXTENDS Integers, SequencesExt, FiniteSetsExt

CONSTANTS
  Paths,    \* file names, as sequences of words that a blank separates
  Quoted,   \* the paths that git writes in quotes
  AfterB,   \* what follows the "b/" of each word that begins so, as a path
  Ignored,  \* the paths that ignore_paths or a built-in pattern matches
  Diffs,    \* what may have changed: sequences of files
  MaxLine   \* the largest line a finding names

NoPath == << >>       \* the empty string
Other  == <<"other">> \* a name that no changed file has

\* A line of a hunk: context, added or removed; "++" and "--" are an added and
\* a removed line whose own text makes it look like a +++ or a --- header, and
\* path is the file that such a header would name.
NewSide == {" ", "+", "++"}
OldSide == {"-", "--"}

Op == [sign : NewSide \cup OldSide, path : Paths \cup {NoPath, Other}]

Hunk == [start : Nat, ops : Seq(Op)]

\* A changed file; old is its name before a rename.
File == [old : Paths, path : Paths, removed : BOOLEAN, hunks : Seq(Hunk)]

NewCount(h) == Cardinality({i \in DOMAIN h.ops : h.ops[i].sign \in NewSide})

\* The words of a name in front of which the text " b/" is found.
Bs(p) == {i \in 2 .. Len(p) : p[i] \in DOMAIN AfterB}

\* Git shows context around a change, so that only the hunk of a file that is now
\* empty has no new line, and says 0.  Names that are quoted and hold " b/" too
\* are left out.
ASSUME DiffAnchorsAssumption ==
  /\ Paths \subseteq Seq(STRING) \ {NoPath, Other}
  /\ \A p \in Quoted : Bs(p) = {}
  /\ Quoted \subseteq Paths /\ Ignored \subseteq Paths
  /\ Diffs \subseteq Seq(File)
  /\ \A c \in Diffs : \A i, j \in DOMAIN c : c[i].path = c[j].path => i = j
  /\ \A c \in Diffs : \A i \in DOMAIN c : \A n \in DOMAIN c[i].hunks :
       NewCount(c[i].hunks[n]) = 0 => c[i].hunks[n].start = 0
  /\ MaxLine \in Nat

VARIABLES
  mode,        \* "pr" or "push"
  files,       \* the changed files, in the diff's order
  phase,       \* how far the analysis has come
  diffByFile,  \* the diff of each path finish knows
  finding,     \* the finding that was judged ...
  kept         \* ... and whether it stays

diffVars == <<mode, files, phase, diffByFile, finding, kept>>

-----------------------------------------------------------------------------
(* The diff, as git and GitHub write it *)

HunkLine(op) ==
  CASE op.sign = "++" -> [kind |-> "+++", path |-> op.path, quoted |-> FALSE]
    [] op.sign = "--" -> [kind |-> "---"]
    [] OTHER          -> [kind |-> "text"]

HunkLines(h) ==
  <<[kind |-> "@@", start |-> h.start, count |-> NewCount(h)]>>
    \o [i \in DOMAIN h.ops |-> HunkLine(h.ops[i])]

\* CommitFile.Patch
Patch(f) == FlattenSeq([i \in DOMAIN f.hunks |-> HunkLines(f.hunks[i])])

\* A file without hunks (a pure rename, a mode change) has no --- and +++ lines.
Headers(f) ==
  LET diff  == [kind |-> "diff", old |-> f.old, path |-> f.path]
      plus3 == [kind |-> "+++", path |-> IF f.removed THEN NoPath ELSE f.path,
                quoted |-> ~ f.removed /\ f.path \in Quoted]
  IN  IF f.hunks = << >> THEN <<diff>> ELSE <<diff, [kind |-> "---"], plus3>>

Section(f) == Headers(f) \o Patch(f)

RawDiff == FlattenSeq([i \in DOMAIN files |-> Section(files[i])])

-----------------------------------------------------------------------------
(* SplitDiffByFile *)

\* pathFromDiffHeader, for a file or its diff line, which writes the old name and
\* then the new one: the name begins behind the first " b/", in the old name if
\* that has one, and ends at the next blank; a quoted name is not found.
HeaderPath(f) ==
  IF Bs(f.old) # {} THEN AfterB[f.old[Min(Bs(f.old))]]
  ELSE IF f.path \in Quoted THEN NoPath
  ELSE <<Head(f.path)>>

\* flush: a section without a name stays in the buffer.
Closed(s) ==
  IF s.current = NoPath
    THEN s
    ELSE [current |-> s.current, buf |-> << >>,
          out |-> [p \in DOMAIN s.out \cup {s.current} |->
                     IF p = s.current THEN s.buf ELSE s.out[p]]]

SplitLine(s, l) ==
  IF l.kind = "diff"
    THEN [current |-> HeaderPath(l), buf |-> Append(Closed(s).buf, l),
          out |-> Closed(s).out]
    ELSE [s EXCEPT !.buf = IF s.current = NoPath THEN @ ELSE Append(@, l)]

EmptySplit == [current |-> NoPath, buf |-> << >>, out |-> << >>]

SplitDiffByFile(raw) ==
  LET after[n \in 0 .. Len(raw)] ==
        IF n = 0 THEN EmptySplit ELSE SplitLine(after[n - 1], raw[n])
  IN  Closed(after[Len(raw)]).out

-----------------------------------------------------------------------------
(* ParseHunks and NewLineInDiff *)

\* pathFromTripleHeader: quotes stay part of the name.
TriplePath(l) == IF l.quoted THEN Other ELSE l.path

\* The order of the hunks does not matter to NewLineInDiff: they are a set here.
ParseLine(s, l) ==
  CASE l.kind = "diff" -> [s EXCEPT !.current = HeaderPath(l)]
    [] l.kind = "---"  -> [s EXCEPT !.current = IF @ = NoPath THEN Other ELSE @]
    [] l.kind = "+++"  -> [s EXCEPT !.current = IF TriplePath(l) = NoPath THEN @ ELSE TriplePath(l)]
    [] l.kind = "@@"   ->
         IF s.current = NoPath
           THEN s
           ELSE [s EXCEPT !.hunks = @ \cup
                   {[path |-> s.current, start |-> l.start,
                     count |-> IF l.count = 0 THEN 1 ELSE l.count]}]
    [] OTHER -> s

EmptyParse == [current |-> NoPath, hunks |-> {}]

ParseHunks(patch) ==
  LET after[n \in 0 .. Len(patch)] ==
        IF n = 0 THEN EmptyParse ELSE ParseLine(after[n - 1], patch[n])
  IN  after[Len(patch)].hunks

\* hunks[p]
HunksOf(p) == {h \in ParseHunks(diffByFile[p]) : h.path = p}

\* Mutant: a hunk begins one line late.
MutBegins(h, line) == line > h.start

\* Mutant: a hunk ends one line late.
MutEnds(h, line) == line <= h.start + h.count

Begins(h, line) == line >= h.start
Ends(h, line)   == line < h.start + h.count

NewLineInDiff(hunks, line) == \E h \in hunks : Begins(h, line) /\ Ends(h, line)

-----------------------------------------------------------------------------
(* The analysis *)

Findings == [file : Paths, line : 0 .. MaxLine]

DiffInit ==
  /\ mode \in {"pr", "push"} /\ files \in Diffs
  /\ phase = "filter" /\ diffByFile = << >>
  /\ finding = [file |-> NoPath, line |-> 0] /\ kept = FALSE

FilterFiles == {i \in DOMAIN files : files[i].path \notin Ignored}

Skip ==
  /\ phase = "filter" /\ FilterFiles = {}
  /\ phase' = "skipped"
  /\ UNCHANGED <<mode, files, diffByFile, finding, kept>>

\* patchMap
Patches ==
  [p \in {files[i].path : i \in FilterFiles} |->
     Patch(files[CHOOSE i \in FilterFiles : files[i].path = p])]

\* A pull request's sections come from the whole raw diff, a push's patches
\* from the files that FilterFiles left.
Split ==
  /\ phase = "filter" /\ FilterFiles # {}
  /\ diffByFile' = IF mode = "pr" THEN SplitDiffByFile(RawDiff) ELSE Patches
  /\ phase' = "judge"
  /\ UNCHANGED <<mode, files, finding, kept>>

\* A finding of a known file stays, unless it names a line, the file's hunks
\* are known, and the line is in none of them.
Validated(f) ==
  /\ f.file \in DOMAIN diffByFile
  /\ f.line > 0 /\ HunksOf(f.file) # {} => NewLineInDiff(HunksOf(f.file), f.line)

\* finish, for one of the findings
Judge ==
  /\ phase = "judge"
  /\ \E f \in Findings : finding' = f /\ kept' = Validated(f)
  /\ phase' = "judged"
  /\ UNCHANGED <<mode, files, diffByFile>>

DiffNext == Skip \/ Split \/ Judge

DiffSpec == DiffInit /\ [][DiffNext]_diffVars

-----------------------------------------------------------------------------
(* Properties *)

\* The new-side lines of a file: each is one further than the one before.
ShownLines(f) ==
  UNION {LET h == f.hunks[n] IN
         {h.start + Cardinality({j \in 1 .. i - 1 : h.ops[j].sign \in NewSide}) :
            i \in {j \in DOMAIN h.ops : h.ops[j].sign \in NewSide}}
         : n \in DOMAIN f.hunks}

\* The text of the diff names the file by its path.
Ordinary(f) == f.path \notin Quoted /\ HeaderPath(f) = f.path

\* A later file's header that reads like this file takes its place.
Clobbered(i) ==
  \E j \in DOMAIN files : j > i /\ HeaderPath(files[j]) = files[i].path

\* The files whose section is their own.
Readable == {i \in DOMAIN files : Ordinary(files[i]) /\ ~ Clobbered(i)}

\* The names that added lines which look like headers give to later hunks.
Misnamed(f) ==
  {o.path : o \in UNION {{x \in ToSet(f.hunks[n].ops) : x.sign = "++"}
                         : n \in 1 .. Len(f.hunks) - 1}} \ {NoPath}

\* A finding on a line of the diff is not lost (finish with NewLineInDiff), for a
\* file that is not ignored.  The diff's text is misread otherwise: in a pull
\* request a file is lost when its header cannot be read, and so are its hunks
\* behind an added line that names another file; a push's findings are checked
\* against no hunk, but for those behind an added line that names the file itself.
AnchoredKept ==
  phase = "judged" =>
    \A i \in DOMAIN files :
      /\ finding.file = files[i].path /\ files[i].path \notin Ignored
      /\ finding.line = 0 \/ finding.line \in ShownLines(files[i])
      /\ IF mode = "pr"
           THEN i \in Readable /\ Misnamed(files[i]) \subseteq {files[i].path}
           ELSE files[i].path \notin Misnamed(files[i])
      => kept

\* A finding that stays is tied to a change (finish, pipeline.go:591-612).  Of a
\* push: it names a changed file that is not ignored, and no more, since a patch has
\* no headers and ParseHunks reads no hunk for the file, so that any line passes.
\* Of a pull request: it names a changed file, or what the diff's text leaves of the
\* name of one whose header is misread ("main" for "main copy"), and its line is one
\* that the diff shows whenever it has a line, the file has hunks and the file's
\* section is its own.  Only the latter is what ARCHITECTURE.md:54 says of all
\* findings, that file and line must exist in the real diff.
StrayDropped ==
  phase = "judged" /\ kept =>
    \/ /\ mode = "push"
       /\ \E i \in DOMAIN files :
            finding.file = files[i].path /\ files[i].path \notin Ignored
    \/ /\ mode = "pr"
       /\ \E i \in DOMAIN files :
            \/ finding.file = files[i].path
            \/ ~ Ordinary(files[i]) /\ finding.file = HeaderPath(files[i])
       /\ \A i \in Readable :
            finding.file = files[i].path /\ files[i].hunks # << >> /\ finding.line > 0 =>
              finding.line \in ShownLines(files[i])

=============================================================================
