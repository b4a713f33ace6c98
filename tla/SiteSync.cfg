\* Two edits, one interrupted build.
SPECIFICATION FairSpec
CONSTANTS
    WordNames = {"guide", "README", "index", "LICENSE"}
    NoLink = NoLink
    DocNames = {"guide", "v1.0", "README"}
    Shots = {"s"}
    DocTexts <- MCDocTexts
    HomeTexts <- MCHomeTexts
    FirstDocs <- MCFirstDocs
    FirstHomes <- MCFirstHomes
    Sidebar = {"guide"}
    MaxLines = 3
    MaxEdits = 2
    MaxStops = 1
INVARIANTS
    ContentMirrorsRepo
    AlertsBecomeAsides
    LinksLeadToTheirFile
PROPERTIES
    SiteCatchesUp
CHECK_DEADLOCK FALSE
