--------------------------- MODULE DashboardPage ---------------------------
(***************************************************************************)
(* The page ogygia-dashboard serves: each request takes the host states,   *)
(* takes them again to get the commits' metadata, and then the number of   *)
(* pull requests and the page itself, which is drawn again unless the      *)
(* cached one will do.  Metadata and page are in caches that the requests  *)
(* share, each behind a mutex of its own; between one lock and the next    *)
(* the mirror and the repository move on.                                  *)
(*                                                                         *)
(* The forge may say any number at any time, so a request asks it at the   *)
(* moment it looks at the page.                                            *)
(***************************************************************************)
EXTENDS FleetMirror, FiniteSets

CONSTANTS
  Requests,  \* concurrent requests
  Counts,    \* what the forge may say of its open pull requests
  NoCount    \* that it says nothing

ASSUME CountAssumption == NoCount \in Counts

VARIABLES
  clone,        \* the commits the dashboard's clone has
  commits, due, \* commits_cache, and whether its time is up
  html,         \* html_cache
  at,           \* per request
  asked, again, \* per request: the host states it took, and took to look them up
  got           \* per request: the metadata it took

requestVars == <<at, asked, again, got>>
pageVars == <<clone, commits, due, html, requestVars>>
vars == <<mirrorVars, pageVars>>

Versions   == 0 .. 1 + MaxSets + MaxLoads
HostStates == [version : Versions, hosts : [Keys -> Values]]
Metadata   == [version : Versions, wanted : SUBSET Commits, found : SUBSET Commits]
Page       == [version : Versions, count : Counts, hosts : [Keys -> Values],
               wanted : SUBSET Commits, found : SUBSET Commits]

NothingAsked == [version |-> 0, hosts |-> [k \in Keys |-> None]]
NoMetadata   == [version |-> 0, wanted |-> {}, found |-> {}]
NoPage       == [version |-> 0, count |-> NoCount, hosts |-> [k \in Keys |-> None],
                 wanted |-> {}, found |-> {}]

TypeOK ==
  /\ MirrorTypeOK
  /\ clone \in SUBSET Commits
  /\ commits \in Metadata /\ commits.found \subseteq clone
  /\ due \in BOOLEAN
  /\ html \in Page
  /\ at \in [Requests -> {"idle", "states", "commits", "page"}]
  /\ asked \in [Requests -> HostStates]
  /\ again \in [Requests -> HostStates]
  /\ got \in [Requests -> Metadata]

-----------------------------------------------------------------------------
(* The world around it.                                                    *)

\* A fetch brings what was pushed since the last: a host may report a commit
\* long before, and objects stay when their branch is gone.
Fetched == {known \in SUBSET Commits : clone \subseteq known}

\* The archive and the alert task fetch into the same clone.
Fetch ==
  /\ clone' \in Fetched
  /\ UNCHANGED <<mirrorVars, commits, due, html, requestVars>>

\* The metadata's minute, or quarter of an hour, is over.
Age ==
  /\ commits.version > 0
  /\ due' = TRUE
  /\ UNCHANGED <<mirrorVars, clone, commits, html, requestVars>>

-----------------------------------------------------------------------------
(* get_cached_html, from one lock to the next.                             *)

State == [version |-> version, hosts |-> mirror]

Ask(r) ==
  /\ at[r] = "idle"
  /\ at' = [at EXCEPT ![r] = "states"]
  /\ asked' = [asked EXCEPT ![r] = State]
  /\ UNCHANGED <<mirrorVars, clone, commits, due, html, again, got>>

\* get_commits takes the host states itself, and then waits for its cache.
AskAgain(r) ==
  /\ at[r] = "states"
  /\ at' = [at EXCEPT ![r] = "commits"]
  /\ again' = [again EXCEPT ![r] = State]
  /\ UNCHANGED <<mirrorVars, clone, commits, due, html, asked, got>>

\* The request is over, and what it took is gone.
Leave(r) ==
  /\ at' = [at EXCEPT ![r] = "idle"]
  /\ asked' = [asked EXCEPT ![r] = NothingAsked]
  /\ again' = [again EXCEPT ![r] = NothingAsked]
  /\ got' = [got EXCEPT ![r] = NoMetadata]

Reported(hosts) == {hosts[k] : k \in Keys} \ {None}

\* Mutant: metadata is good until its time is up.
InTime(r) == ~due

CommitsValid(r) == commits.version >= again[r].version /\ ~due

Take(r, metadata) ==
  /\ at' = [at EXCEPT ![r] = "page"]
  /\ again' = [again EXCEPT ![r] = NothingAsked]
  /\ got' = [got EXCEPT ![r] = metadata]

\* get_commits with a cache that will do.
UseCommits(r) ==
  /\ at[r] = "commits" /\ CommitsValid(r)
  /\ Take(r, commits)
  /\ UNCHANGED <<mirrorVars, clone, commits, due, html, asked>>

\* Mutant: every commit is taken to be there.
LookupBlind(r) ==
  LET wanted == Reported(again[r].hosts) IN
  [version |-> again[r].version, wanted |-> wanted, found |-> wanted]

\* get_commits_info: what is not in the clone is listed as missing.
Lookup(r) ==
  LET wanted == Reported(again[r].hosts) IN
  [version |-> again[r].version, wanted |-> wanted, found |-> wanted \cap clone']

\* It is older than the host states or its time is up: then fetch first.
RefreshCommits(r) ==
  /\ at[r] = "commits" /\ ~CommitsValid(r)
  /\ clone' \in IF due THEN Fetched ELSE {clone}
  /\ commits' = Lookup(r)
  /\ due' = FALSE
  /\ Take(r, commits')
  /\ UNCHANGED <<mirrorVars, html, asked>>

\* git fails before or after the fetch; the request is answered with an error.
RefreshFails(r) ==
  /\ at[r] = "commits" /\ ~CommitsValid(r)
  /\ clone' \in IF due THEN Fetched ELSE {clone}
  /\ Leave(r)
  /\ UNCHANGED <<mirrorVars, commits, due, html>>

\* Mutant: the page is drawn again for a new number only.
SameCount(r, n) == html.count = n

PageValid(r, n) == html.version >= asked[r].version /\ html.count = n

UsePage(r, n) ==
  /\ at[r] = "page" /\ PageValid(r, n)
  /\ UNCHANGED <<mirrorVars, clone, commits, due, html>>
  /\ Leave(r)

DrawPage(r, n) ==
  /\ at[r] = "page" /\ ~PageValid(r, n)
  /\ html' = [version |-> asked[r].version, count |-> n, hosts |-> asked[r].hosts,
              wanted |-> got[r].wanted, found |-> got[r].found]
  /\ Leave(r)
  /\ UNCHANGED <<mirrorVars, clone, commits, due>>

\* The browser goes away, and the handler is dropped where it waits.
HangUp(r) ==
  /\ at[r] # "idle"
  /\ Leave(r)
  /\ UNCHANGED <<mirrorVars, clone, commits, due, html>>

\* AppState::new clones the repository; the caches are empty.
Init ==
  /\ MirrorInit
  /\ clone \in SUBSET Commits
  /\ commits = NoMetadata /\ due = FALSE
  /\ html = NoPage
  /\ at = [r \in Requests |-> "idle"]
  /\ asked = [r \in Requests |-> NothingAsked]
  /\ again = [r \in Requests |-> NothingAsked]
  /\ got = [r \in Requests |-> NoMetadata]

Step(r) ==
  \/ Ask(r) \/ AskAgain(r) \/ UseCommits(r) \/ RefreshCommits(r) \/ RefreshFails(r)
  \/ \E n \in Counts : UsePage(r, n) \/ DrawPage(r, n)
  \/ HangUp(r)

Next ==
  \/ MirrorNext /\ UNCHANGED pageVars
  \/ Fetch \/ Age
  \/ \E r \in Requests : Step(r)

Spec == Init /\ [][Next]_vars

-----------------------------------------------------------------------------
(* Properties.                                                             *)

\* A page as new as the mirror shows what the mirror shows, and lists every
\* commit it shows a host on, though it was drawn from two caches that other
\* requests renew, and put back to an older version, in between.
CurrentPageWhole ==
  html.version = version =>
    html.hosts = mirror /\ html.wanted = Reported(mirror)

\* A request is served host states the mirror had while the request lasted,
\* whichever request drew them: who reloads the page is never shown older ones
\* than somebody was shown before.
ServedInWindow ==
  [][\A r \in Requests, n \in Counts :
       UsePage(r, n) \/ DrawPage(r, n) =>
         asked[r].version <= html'.version /\ html'.version <= version]_vars

\* "time-based expiry when commits have missing metadata" (get_commits): a
\* request that found a commit is not served a page that says it is missing.
FoundIsShown ==
  [][\A r \in Requests, n \in Counts :
       UsePage(r, n) \/ DrawPage(r, n) => html'.wanted \cap got[r].found \subseteq html'.found]_vars
=============================================================================
