---------------------------- MODULE MCSiteSync ----------------------------
(***************************************************************************)
(* A small repository for SiteSync: the files docs/guide.md, docs/v1.0.md  *)
(* (a name that is not a word) and docs/README.md, and one screenshot.     *)
(***************************************************************************)
EXTENDS SiteSync, TLC

CONSTANT MaxLines   \* bound on the lines below a title

Plain(kind) == Line(kind, NoLink)

MCTargets ==
    {[relative |-> FALSE, path |-> <<"elsewhere">>, anchor |-> NoAnchor]} \cup
    Targets({<<"guide">>, <<"docs", "guide">>, <<"docs", "v1.0">>, <<"README">>, <<"..", "README">>,
             <<".", "..", "docs", "README">>, <<"docs", "screenshots", "s">>, <<"screenshots", "s">>,
             <<"..", "..", "LICENSE">>},
            {NoAnchor, "part"})

\* Every arrangement of quotes and alerts, every link, a text without a title, and
\* one whose second "# ..." line belongs to the body.
MCFirstDocs ==
    {<<Plain("h1")>> \o s :
        s \in BoundedSeq({Plain(k) : k \in {"text", "quote", "NOTE", "OTHER"}}, MaxLines)}
    \cup {<<Plain("h1"), Line("quote", t)>> : t \in MCTargets}
    \cup {<<Plain("text")>>, <<Plain("text"), Plain("h1"), Plain("h1")>>}

MCHome ==
    <<Plain("logo"), Plain("heading"), Plain("tagline"), Plain("badges"), Plain("IMPORTANT"),
      Plain("quote")>>

MCLink(path) == [relative |-> TRUE, path |-> path, anchor |-> "part"]

MCFirstHomes == {MCHome}

\* The edits: a link to another page, a text without a title, README.md without a
\* tagline, and with the logo further down.
MCDocTexts ==
    {<<Plain("text")>>, <<Plain("h1"), Line("text", MCLink(<<"guide">>)), Plain("TIP")>>}

MCHomeTexts ==
    {<<Plain("logo"), Plain("heading"), Plain("WARNING")>>,
     <<Plain("tagline"), Plain("logo"), Line("text", MCLink(<<"docs", "guide">>))>>}
=============================================================================
