------------------------------ MODULE Remotes ------------------------------
(***************************************************************************)
(* What a repo's remote URL is read as (opener.rs and github.rs).          *)
(*                                                                         *)
(* The URL in .git/config is read twice, by two parsers: one makes of it   *)
(* the page that the browser is sent to, the other the owner and name that *)
(* GitHub is asked about.  They must not speak of different repos.         *)
(***************************************************************************)
EXTENDS Sequences, SequencesExt

CONSTANTS
    GitHub,     \* the host github.com
    Foreign,    \* another host with a dot in its name, or this one spelt GitHub.com
    Intranet,   \* a host without one: an intranet name, a drive letter, "javascript"
    BadHost     \* a host with a space or a backslash in its name

Scheme == {"https", "http", "ssh", "git", "file"}
Host == {GitHub, Foreign, Intranet, BadHost, "empty"}

\* Two that GitHub may serve, one that it does not ("", ".." or other characters in
\* it), and one with a backslash.
Segment == {"owner", "name", "odd", "backslash"}

(* A URL after trimming.  "scp" is [user@]host:path, "local" anything else without *)
(* a scheme.  slash: whether the part before the colon has one, in the user's name *)
(* or in the host's, so that git takes the whole for a local path.                 *)
Url(MaxSegments) ==
    [form : Scheme \cup {"scp", "local"}, slash : {"none", "user", "host"}, host : Host,
     path : SeqOf(Segment, MaxSegments)]

None == [kind |-> "none"]

IsDottedHost(host) == host \in {GitHub, Foreign}
IsWebHost(host) == host \in {GitHub, Foreign, Intranet}

\* The slashes and the .git around the path are dropped by both parsers.
CleanRepoPath(path) == path # <<>> /\ "backslash" \notin ToSet(path)

\* Handed to the browser as it is.
Browsable(u) == u.form \in {"https", "http"} /\ IsWebHost(u.host)

Translatable(u) ==
    /\ u.form = "ssh" \/ (u.form = "scp" /\ u.slash = "none")
    /\ IsDottedHost(u.host)
    /\ CleanRepoPath(u.path)

RemoteUrlToWebUrl(u) ==
    IF Browsable(u) \/ Translatable(u)
    THEN [kind |-> "page", host |-> u.host, path |-> u.path]
    ELSE None

\* A homepage is a page already, so nothing is translated.
ValidateHomepageUrl(u) ==
    IF Browsable(u) THEN [kind |-> "page", host |-> u.host, path |-> u.path] ELSE None

IsValidPathSegment(s) == s \in {"owner", "name"}

ParseGithubCoords(u) ==
    IF /\ u.form # "local"
       /\ u.host = GitHub
       /\ u.form = "scp" => u.slash # "host"
       /\ Len(u.path) >= 2
       /\ \A i \in 1 .. 2 : IsValidPathSegment(u.path[i])
    THEN [kind |-> "repo", owner |-> u.path[1], name |-> u.path[2]]
    ELSE None

-----------------------------------------------------------------------------
(* A repo whose metadata GitHub is asked for has a page on GitHub, and it is that *)
(* repo's page.  Without a page are only a git:// or a file:// URL of github.com, *)
(* what git itself takes for a local path, and a backslash behind the two names.  *)
PageOfCoords(MaxSegments) ==
    \A u \in Url(MaxSegments) :
        LET page == RemoteUrlToWebUrl(u)
            coords == ParseGithubCoords(u)
        IN  coords.kind = "repo" =>
              \/ /\ page = None
                 /\ \/ u.form \in {"git", "file"}
                    \/ u.slash # "none"
                    \/ "backslash" \in ToSet(SubSeq(u.path, 3, Len(u.path)))
              \/ /\ page.kind = "page" /\ page.host = GitHub
                 /\ SubSeq(page.path, 1, 2) = <<coords.owner, coords.name>>

=============================================================================
