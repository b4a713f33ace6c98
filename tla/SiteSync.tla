------------------------------ MODULE SiteSync ------------------------------
(***************************************************************************)
(* The build of the documentation site: "npm run build" runs               *)
(* site/scripts/sync-docs.mjs and, when that succeeds, astro build.        *)
(*                                                                         *)
(* The script lists docs/, empties the content folder, writes one page     *)
(* after the other, the home page, and copies static files. The author     *)
(* edits the repository at any time, also while the script runs, and a     *)
(* build may be interrupted anywhere. Each page is read and written by one *)
(* synchronous step of node.                                               *)
(*                                                                         *)
(* The workflow docs.yml starts a build for every push to README.md or     *)
(* docs/; pending says that one is due. Its fresh checkout is the special  *)
(* case in which no edit falls into a build.                               *)
(***************************************************************************)
EXTENDS DocPages

CONSTANTS
    DocNames,    \* names of Markdown files in docs/, README included
    Shots,       \* names of files in docs/screenshots/
    FirstDocs,   \* texts of the files of docs/ at the beginning
    FirstHomes,  \* texts of README.md at the beginning
    DocTexts,    \* texts an author writes to a file of docs/
    HomeTexts,   \* texts an author writes to README.md
    Sidebar,     \* the slugs in the sidebar of astro.config.mjs
    MaxEdits,    \* bound on the author's edits
    MaxStops     \* bound on interrupted builds

\* A file docs/index.md is excluded: the home page overwrites its page.
ASSUME SiteAssumption ==
    /\ "README" \in DocNames /\ "index" \notin DocNames
    /\ Sidebar \subseteq DocNames \ {"README"}
    /\ MaxEdits \in Nat /\ MaxStops \in Nat

\* The provers do not know that a quoted name is a string.
ASSUME StringsAssumption ==
    {"index", "docs", "text", "note", "tip", "caution", "danger", "close", "undefined", NoAnchor}
      \subseteq STRING

\* Texts consist of the lines that DocPages describes.
ASSUME TextsAssumption ==
    /\ FirstDocs \cup FirstHomes \cup DocTexts \cup HomeTexts \subseteq Seq(SourceLines)
    /\ NoLink \notin Targets(Seq(STRING), STRING) \cup Destinations

VARIABLES
    docs,      \* the Markdown files of docs/: name -> text
    readme,    \* README.md
    shots,     \* the files of docs/screenshots/
    content,   \* src/content/docs of the site: slug -> page
    public,    \* the site's public/screenshots
    dist,      \* the site that was built last: its pages and its files
    pc,        \* the next step: idle, clear, pages, static or build
    pages,     \* const pages of the script
    todo,      \* pages still to be written
    dirty,     \* the author edited since the build began
    pending,   \* a build is due
    cut,       \* the last build was stopped
    edits, stops

repo == <<docs, readme, shots>>
vars == <<repo, content, public, dist, pc, pages, todo, dirty, pending, cut, edits, stops>>

Init ==
    /\ \E text \in FirstDocs : docs = [n \in Sidebar \cup {"README"} |-> text]
    /\ readme \in FirstHomes
    /\ shots = Shots
    /\ content = <<>> /\ public = {}
    /\ dist = [pages |-> <<>>, files |-> {}]
    /\ pc = "idle"
    /\ pages = {} /\ todo = {}
    /\ dirty = FALSE
    /\ pending = TRUE
    /\ cut = FALSE
    /\ edits = 0 /\ stops = 0

Edit ==
    /\ edits < MaxEdits
    /\ edits' = edits + 1
    /\ dirty' = TRUE
    /\ pending' = TRUE
    /\ UNCHANGED <<content, public, dist, pc, pages, todo, cut, stops>>

WriteDoc(n, text) ==
    /\ Edit
    /\ docs' = [m \in DOMAIN docs \cup {n} |-> IF m = n THEN text ELSE docs[m]]
    /\ UNCHANGED <<readme, shots>>

RemoveDoc(n) ==
    /\ Edit
    /\ n \in DOMAIN docs
    /\ docs' = [m \in DOMAIN docs \ {n} |-> docs[m]]
    /\ UNCHANGED <<readme, shots>>

WriteReadme(text) ==
    /\ Edit
    /\ readme' = text
    /\ UNCHANGED <<docs, shots>>

ChangeShot(s) ==
    /\ Edit
    /\ shots' = IF s \in shots THEN shots \ {s} ELSE shots \cup {s}
    /\ UNCHANGED <<docs, readme>>

\* const pages.
PageNames == DOMAIN docs \ {"README"}

\* The script starts and lists docs/.
StartSync ==
    /\ pc = "idle"
    /\ pending
    /\ pc' = "clear"
    /\ pages' = PageNames
    /\ todo' = {}
    /\ dirty' = FALSE
    /\ pending' = FALSE
    /\ cut' = FALSE
    /\ UNCHANGED <<repo, content, public, dist, edits, stops>>

\* Faulty variant: what earlier builds left is kept.
EmptyContent_Kept == content

\* rmSync and mkdirSync of the content folder.
EmptyContent == <<>>

Clear ==
    /\ pc = "clear"
    /\ pc' = "pages"
    /\ content' = EmptyContent
    /\ todo' = pages
    /\ UNCHANGED <<repo, public, dist, pages, dirty, pending, cut, edits, stops>>

\* The content folder after a page was written.
Written(slug, page) ==
    [s \in DOMAIN content \cup {slug} |-> IF s = slug THEN page ELSE content[s]]

SyncPage(p) ==
    /\ pc = "pages"
    /\ p \in todo
    /\ p \in DOMAIN docs
    /\ HasTitle(docs[p])
    /\ content' = Written(p, DocPage(p, docs[p], pages))
    /\ todo' = todo \ {p}
    /\ UNCHANGED <<repo, public, dist, pc, pages, dirty, pending, cut, edits, stops>>

\* The file is gone or has no title: the script throws, npm stops.
FailPage(p) ==
    /\ pc = "pages"
    /\ p \in todo
    /\ p \in DOMAIN docs => ~HasTitle(docs[p])
    /\ pc' = "idle"
    /\ todo' = {}
    /\ UNCHANGED <<repo, content, public, dist, pages, dirty, pending, cut, edits, stops>>

SyncHome ==
    /\ pc = "pages"
    /\ todo = {}
    /\ pc' = "static"
    /\ content' = Written("index", HomePage(readme, pages))
    /\ UNCHANGED <<repo, public, dist, pages, todo, dirty, pending, cut, edits, stops>>

\* The screenshots are copied; nothing in public/ is removed. (Favicon and logo, which
\* the author does not touch here, are left out.)
CopyStatic ==
    /\ pc = "static"
    /\ pc' = "build"
    /\ public' = public \cup shots
    /\ UNCHANGED <<repo, content, dist, pages, todo, dirty, pending, cut, edits, stops>>

\* readdirSync throws when docs/screenshots/ is gone: git keeps no empty directory.
FailStatic ==
    /\ pc = "static"
    /\ shots = {}
    /\ pc' = "idle"
    /\ UNCHANGED <<repo, content, public, dist, pages, todo, dirty, pending, cut, edits, stops>>

\* astro build: Starlight looks up the slugs of the sidebar, and the build fails
\* when one has no page.
Build ==
    /\ pc = "build"
    /\ pc' = "idle"
    /\ dist' = IF Sidebar \subseteq DOMAIN content
               THEN [pages |-> content, files |-> public] ELSE dist
    /\ UNCHANGED <<repo, content, public, pages, todo, dirty, pending, cut, edits, stops>>

\* The build is stopped, as by the timeout of docs.yml. Nothing starts it again.
Interrupt ==
    /\ pc # "idle"
    /\ stops < MaxStops
    /\ stops' = stops + 1
    /\ pc' = "idle"
    /\ cut' = TRUE
    /\ todo' = {}
    /\ UNCHANGED <<repo, content, public, dist, pages, dirty, pending, edits>>

Author ==
    \/ \E n \in DocNames : \E text \in DocTexts : WriteDoc(n, text)
    \/ \E n \in DocNames : RemoveDoc(n)
    \/ \E text \in HomeTexts : WriteReadme(text)
    \/ \E s \in Shots : ChangeShot(s)

Script ==
    \/ Clear
    \/ \E p \in DocNames : SyncPage(p) \/ FailPage(p)
    \/ SyncHome
    \/ CopyStatic \/ FailStatic
    \/ Build

Next == Author \/ StartSync \/ Script \/ Interrupt

Spec == Init /\ [][Next]_vars

\* Every edit is followed by a build, as docs.yml starts one for each push, and
\* a build ends: its loops run over finitely many files, and docs.yml stops it
\* after ten minutes.
FairSpec == Spec /\ WF_pc(StartSync) /\ []<>(pc = "idle")
-----------------------------------------------------------------------------
\* The page a slug should have, by what its source says.
Source(slug) ==
    IF slug = "index"
    THEN [file |-> <<"README">>, dir |-> <<>>,
          lines |-> <<Line(IF First(readme, "tagline").kind = "undefined" THEN "undefined"
                           ELSE "text", First(readme, "tagline").link)>> \o ReadmeBody(readme)]
    ELSE [file |-> <<"docs", slug>>, dir |-> <<"docs">>, lines |-> WithoutFirst(docs[slug], "h1")]

Slugs == (DOMAIN docs \ {"README"}) \cup {"index"}

\* A build that no edit fell into is about to hand its content to astro.
Undisturbed == pc = "build" /\ ~dirty

\* After a sync, whatever syncs before it failed or were interrupted, the content
\* folder holds a page for README.md and for each file of docs/ and no other, and
\* "Edit page" leads to the file the page came from.
ContentMirrorsRepo ==
    Undisturbed =>
        /\ DOMAIN content = Slugs
        /\ \A slug \in Slugs : content[slug].editUrl = Source(slug).file

\* Alerts become asides: the loops of convertAlerts open, unquote and close exactly
\* what the line-by-line definition says, and every other line stays.
AlertsBecomeAsides ==
    Undisturbed =>
        \A slug \in Slugs : Kinds(content[slug].body) = Kinds(Asides(Source(slug).lines))

\* A reader who follows a link on the site reaches the file that the link names in
\* the repository: the page made from it, with its anchor, if there is one; the
\* copy of a screenshot; or the file on GitHub. Pages with other characters than
\* letters, digits, "_" and "-" in their name are linked to GitHub.
LinksLeadToTheirFile ==
    Undisturbed =>
        \A slug \in Slugs : \A i \in DOMAIN Source(slug).lines :
            LET source == Source(slug)
                target == source.lines[i].link
                file == RepoPath(source.dir, target.path)
                dests == {content[slug].body[k].link : k \in DOMAIN content[slug].body} \ {NoLink}
            IN  target # NoLink /\ target.relative =>
                  \E d \in dests :
                      \/ /\ d.to = "page" /\ d.path[1] \in DOMAIN content
                         /\ content[d.path[1]].editUrl = file
                         /\ d.anchor = target.anchor
                      \/ /\ d.to = "static" /\ <<"docs">> \o d.path = file
                         /\ \A s \in shots : file = <<"docs", "screenshots", s>> => s \in public
                      \/ /\ d.to = "github" /\ d.path = file /\ d.anchor = target.anchor
                         /\ \A p \in DOMAIN content :
                              content[p].editUrl = file => p \notin WordNames \cup {"index"}

\* A site that can be built from the repository as it is.
Buildable ==
    /\ shots # {}
    /\ Sidebar \subseteq Slugs
    /\ \A p \in Slugs \ {"index"} : \E i \in DOMAIN docs[p] : docs[p][i].kind = "h1"

\* Once the author stops editing and the repository can be built, the published
\* site is the content of a build that no edit fell into, however many builds
\* failed or were stopped before; unless the last one was, which nobody repeats.
SiteCatchesUp ==
    <>[](Buildable /\ ~cut => ~dirty /\ DOMAIN dist.pages = Slugs /\ dist.pages = content)
=============================================================================
