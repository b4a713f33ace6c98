------------------------------ MODULE DocPages ------------------------------
(***************************************************************************)
(* How site/scripts/sync-docs.mjs turns the Markdown of the repository     *)
(* into pages of the documentation site.                                   *)
(*                                                                         *)
(* A Markdown text is a sequence of lines. A line is what the script tells *)
(* apart: its kind, and the one link or image it may hold. The kinds are   *)
(*   "h1"      a line "# ...";                                             *)
(*   "quote"   a line that starts with ">" and marks no alert;             *)
(*   "NOTE", ..., "OTHER"   a line "> [!NOTE]", ..., OTHER being a word    *)
(*             that is no alert (and no name of Object.prototype, such as  *)
(*             "constructor", which the script's look-up would find);      *)
(*   "logo", "heading", "tagline", "badges"   the centred blocks on top of *)
(*             README.md;                                                  *)
(*   "text"    everything else.                                            *)
(* A converted text also has lines "note", "tip", "caution" and "danger",  *)
(* which open an aside, and "close".                                       *)
(*                                                                         *)
(* A path is the sequence of its segments. A Markdown file is written      *)
(* without its suffix, so that <<"docs", n>> is the file docs/n.md.        *)
(***************************************************************************)
EXTENDS Naturals, Sequences, SequencesExt

CONSTANTS
    WordNames,  \* names made of letters, digits, "_" and "-"
    NoLink      \* a line without a link

\* A target without an anchor, or a URL made without one; an anchor has no "#".
NoAnchor == "#"

\* The targets of links: a path and an anchor. A target with a scheme, a
\* leading "#" or a leading "/" is not relative.
Targets(paths, anchors) == [relative : BOOLEAN, path : paths, anchor : anchors]

Line(kind, link) == [kind |-> kind, link |-> link]

asideTypes ==
    [NOTE |-> "note", TIP |-> "tip", IMPORTANT |-> "caution", WARNING |-> "caution",
     CAUTION |-> "danger"]

IsAlert(line) == line.kind \in DOMAIN asideTypes
IsQuoted(line) == line.kind \in DOMAIN asideTypes \cup {"quote", "OTHER"}

\* The lines of the repository: a line that marks an alert holds nothing else.
SourceLines ==
    {line \in [kind : STRING, link : Targets(Seq(STRING), STRING) \cup {NoLink}] :
        line.link # NoLink => ~IsAlert(line)}

\* What a link leads to: the same target as before, a page of the site, a file of the
\* site, or a file on GitHub.
Destinations ==
    [to : {"same", "page", "static", "github"}, path : Seq(STRING), anchor : STRING]

\* One segment of a path in posix.normalize.
PathStep(at, segment) ==
    IF segment = "." THEN at
    ELSE IF segment = ".." /\ at # <<>> /\ at[Len(at)] # ".." THEN Front(at)
    ELSE Append(at, segment)

\* posix.normalize(posix.join(fromDir, path)).
RepoPath(fromDir, path) ==
    LET at[n \in 0..Len(path)] == IF n = 0 THEN fromDir ELSE PathStep(at[n - 1], path[n])
    IN  at[Len(path)]

\* function rewriteTarget.
rewriteTarget(target, fromDir, pages) ==
    LET path == RepoPath(fromDir, target.path)
        dest(to, where, anchor) == [to |-> to, path |-> where, anchor |-> anchor]
    IN  IF ~target.relative THEN dest("same", target.path, target.anchor)
        ELSE IF path = <<"README">> THEN dest("page", <<"index">>, target.anchor)
        ELSE IF Len(path) = 2 /\ path[1] = "docs" /\ path[2] \in pages \cap WordNames
        THEN dest("page", <<path[2]>>, target.anchor)
        ELSE IF Len(path) > 2 /\ SubSeq(path, 1, 2) = <<"docs", "screenshots">>
        THEN dest("static", Tail(path), NoAnchor)
        ELSE dest("github", path, target.anchor)

\* Faulty variant: the directory of the page is left out.
rewriteLinks_FromRoot(lines, fromDir, pages) ==
    [i \in DOMAIN lines |->
        IF lines[i].link = NoLink THEN lines[i]
        ELSE [lines[i] EXCEPT !.link = rewriteTarget(lines[i].link, <<>>, pages)]]

\* function rewriteLinks.
rewriteLinks(lines, fromDir, pages) ==
    [i \in DOMAIN lines |->
        IF lines[i].link = NoLink THEN lines[i]
        ELSE [lines[i] EXCEPT !.link = rewriteTarget(lines[i].link, fromDir, pages)]]

\* A quoted line without its leading ">".
Unquote(line) == [line EXCEPT !.kind = "text"]

\* The first line below an alert that is not quoted.
AlertEnd(lines, i) ==
    CHOOSE n \in i + 1..Len(lines) + 1 :
        /\ n = Len(lines) + 1 \/ ~IsQuoted(lines[n])
        /\ \A k \in i + 1..n - 1 : IsQuoted(lines[k])

\* What one iteration of convertAlerts' outer loop pushes; its inner loop runs to the
\* end of the alert.
Pushed(lines, i) ==
    IF ~IsAlert(lines[i]) THEN <<lines[i]>>
    ELSE <<Line(asideTypes[lines[i].kind], NoLink)>>
           \o [k \in 1..AlertEnd(lines, i) - i - 1 |-> Unquote(lines[i + k])]
           \o <<Line("close", NoLink)>>

\* Faulty variant: the lines of the alert are not skipped by the outer loop.
After_Twice(lines, i) == i + 1

\* The line of the next iteration.
After(lines, i) == IF ~IsAlert(lines[i]) THEN i + 1 ELSE AlertEnd(lines, i)

\* function convertAlerts: the outer loop is the recursion on the index.
convertAlerts(lines) ==
    LET from[i \in 1..Len(lines) + 1] ==
          IF i > Len(lines) THEN <<>> ELSE Pushed(lines, i) \o from[After(lines, i)]
    IN  from[1]

\* The first line of a kind, or a line "undefined".
First(lines, kind) ==
    LET is(line) == line.kind = kind
        at == SelectInSeq(lines, is)
    IN  IF at = 0 THEN Line("undefined", NoLink) ELSE lines[at]

WithoutFirst(lines, kind) ==
    LET is(line) == line.kind = kind IN RemoveFirstMatch(lines, is)

\* Faulty variant: the title is only looked for in the first line.
HasTitle_FirstLine(lines) == lines # <<>> /\ lines[1].kind = "h1"

\* The script throws when a file of docs/ has no "# Title" line.
HasTitle(lines) == \E i \in DOMAIN lines : lines[i].kind = "h1"

\* A page as writePage writes it: the fields of its frontmatter, and its body.
\* The file behind editUrl stands for the URL.
writePage(title, description, file, body, fromDir, pages) ==
    [title |-> title, description |-> description, editUrl |-> file,
     body |-> convertAlerts(rewriteLinks(body, fromDir, pages))]

\* The page of docs/<page>.md.
DocPage(page, src, pages) ==
    writePage(First(src, "h1"), Line("none", NoLink), <<"docs", page>>,
              WithoutFirst(src, "h1"), <<"docs">>, pages)

\* README.md without logo, heading, tagline and badges. The logo is only removed
\* from the beginning of the file.
ReadmeBody(readme) ==
    LET logoless == IF readme # <<>> /\ readme[1].kind = "logo" THEN Tail(readme) ELSE readme
        badged == WithoutFirst(WithoutFirst(logoless, "heading"), "tagline")
    IN  FlattenSeq([i \in DOMAIN badged |->
                      IF badged[i].kind = "badges" THEN <<>> ELSE <<badged[i]>>])

\* The home page.
HomePage(readme, pages) ==
    LET tagline == First(readme, "tagline")
    IN  writePage(Line("Introduction", NoLink), tagline, <<"README">>,
                  <<[tagline EXCEPT !.kind = IF @ = "tagline" THEN "text" ELSE @]>>
                    \o ReadmeBody(readme), <<>>, pages)
-----------------------------------------------------------------------------
\* What the conversion of alerts means, line by line and without a loop: a line
\* is inside an aside when the quoted lines right above it include an alert, an
\* alert that is not inside one opens one, and an aside ends with its quoted lines.
Inside(lines, i) ==
    \E j \in 1..i - 1 : IsAlert(lines[j]) /\ \A k \in j..i : IsQuoted(lines[k])

EndsAside(lines, i) ==
    /\ Inside(lines, i) \/ IsAlert(lines[i])
    /\ i = Len(lines) \/ ~IsQuoted(lines[i + 1])

Shown(lines, i) ==
    IF Inside(lines, i) THEN Unquote(lines[i])
    ELSE IF IsAlert(lines[i]) THEN Line(asideTypes[lines[i].kind], NoLink)
    ELSE lines[i]

Asides(lines) ==
    FlattenSeq([i \in DOMAIN lines |->
        IF EndsAside(lines, i) THEN <<Shown(lines, i), Line("close", NoLink)>>
        ELSE <<Shown(lines, i)>>])

\* The kinds of the lines of a text.
Kinds(lines) == [i \in DOMAIN lines |-> lines[i].kind]
=============================================================================
