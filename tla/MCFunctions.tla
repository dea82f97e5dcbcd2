----------------------------- MODULE MCFunctions -----------------------------
(***************************************************************************)
(* The functions that no state machine needs, over bounded inputs.  TLC    *)
(* evaluates these assumptions before any run of a module that extends     *)
(* this one.                                                               *)
(***************************************************************************)
EXTENDS Integers

R == INSTANCE Remotes WITH
        GitHub <- "github.com", Foreign <- "git.example.org", Intranet <- "intranet",
        BadHost <- "a b"

\* Every URL of up to three path segments.
ASSUME RemotesAgree == R!PageOfCoords(3)

P == INSTANCE Programs WITH
        Dir <- {"bin", "apps"}, Stem <- {"code"}, Ext <- {"cmd", "txt"}

\* Two directories in PATH, and two extensions in PATHEXT; elsewhere than on Windows
\* there is no PATHEXT.
ASSUME CommandsLaunch ==
    /\ P!SavedCommandLaunches(<<"bin", "apps">>, <<"cmd">>, TRUE)
    /\ P!SavedCommandLaunches(<<"bin">>, <<"cmd", "txt">>, TRUE)
    /\ P!SavedCommandLaunches(<<"bin", "apps">>, <<>>, FALSE)

\* A configured path, one that is a known place too, and the bare name.
ASSUME ConfiguredGit ==
    P!HonoredIfRuns({"mine", "git", "known"}, <<"known">>)

L == INSTANCE LogFiles WITH
        Day <- 1 .. 3, Size <- {0, 1, 2}, MIN <- 1, MAX <- 3, DEFAULT <- 2

\* No setting, and settings within and beyond the bounds; up to three files.
ASSUME SweepIsSafe == L!SweepKeepsNewest({<<>>, <<0>>, <<1>>, <<3>>, <<9>>})

G == INSTANCE GitReads

\* Every combination of phrases, and of calls that fail.
ASSUME FailuresClassified == G!OneFailureOneClass
ASSUME ReadsAreHonest == G!NeverGuessesWell

S == INSTANCE Scan WITH Name <- {"a", ".git"}, SCAN_MAX_DEPTH <- 2

\* A chain of directories one deeper than the walk goes, with a .git beside it.
ASSUME ScanFinds ==
    S!FindsTopmost({<<>>, <<"a">>, <<"a", "a">>, <<"a", ".git">>, <<"a", "a", "a">>})

A == INSTANCE Answers WITH
        Repo <- 1 .. 3, Time <- 0 .. 2, ACTIVITY_DEFAULT_LIMIT <- 1, ACTIVITY_MAX_LIMIT <- 2

ASSUME RecentIsSorted == A!RecentIsNewest(1 .. 2)
ASSUME BurstIsSummed == A!BurstAddsUp

\* Three receipts of three repos or of the app, with each kind of limit.
ASSUME LogIsPaged == A!PageIsNewest({<<>>, <<0>>, <<1>>, <<9>>})

H == INSTANCE GitHubReads WITH
        MaxInt <- 200, RATE_LIMIT_BACKOFF_PERCENT <- 10, PULLS_PER_PAGE <- 3, Branch <- {"main", "next"}

\* Limits below zero and above the largest product; what is left, to both sides of the floor.
ASSUME AnswersRead == H!ErrorsAreNotData({-1, 0, 1})
ASSUME BacksOff ==
    H!BackoffIsSound({-1, 0, 1, 2, 3, 6, 7, 199}, {<<>>, <<-1>>, <<0>>, <<9>>, <<10>>, <<20>>, <<30>>, <<199>>})
ASSUME PullsCounted == H!PullsAddUp

==============================================================================
