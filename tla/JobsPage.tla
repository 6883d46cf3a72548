------------------------------ MODULE JobsPage ------------------------------
(***************************************************************************)
(* The page on which the user looks for jobs (dashboard, jobs): the resume *)
(* that is selected, the jobs recommended for a resume, and what is        *)
(* prepared from them.  Effects run after the render that a change causes  *)
(* and before the next event, so that an action ends with them.            *)
(***************************************************************************)
EXTENDS Naturals, Sequences

CONSTANTS
  ReadyCVs,
  Postings,
  NoChoice,         \* no resume, no posting
  MaxDiscoveries,  \* bound: discoveries that are asked for
  MaxFetches       \* bound: fetches of the resumes

ASSUME JobsConstants ==
  /\ NoChoice \notin ReadyCVs \cup Postings
  /\ MaxDiscoveries \in Nat /\ MaxFetches \in Nat

VARIABLES
  requested,    \* the resume named in the URL
  ready,        \* readyResumes: those parsed when resumes were last fetched
  selected,     \* selectedResumeId
  chosen,       \* selectedJobId
  discoveries,  \* the mutations: the resume of each, and where it is
  observed,     \* the one the page observes, 0 for none
  preparing,    \* preparingJobId
  captured,     \* a capture that is awaited: the resume it was submitted with
  preparedFrom, \* history: the resume a package was prepared from, and the one
                \* that the posting had been recommended for
  fetchesLeft

jobsVars == <<requested, ready, selected, chosen, discoveries, observed,
              preparing, captured, preparedFrom, fetchesLeft>>

OrNone(S) == S \cup {NoChoice}
Discovery == [resume: ReadyCVs, at: {"pending", "success", "error"}]

JobsTypeOK ==
  /\ requested \in OrNone(ReadyCVs) /\ selected \in OrNone(ReadyCVs)
  /\ ready \subseteq ReadyCVs
  /\ chosen \in OrNone(Postings) /\ preparing \in OrNone(Postings)
  /\ discoveries \in Seq(Discovery) /\ Len(discoveries) <= MaxDiscoveries
  /\ observed \in 0..Len(discoveries)
  /\ captured \in OrNone(ReadyCVs)
  /\ preparedFrom \subseteq ReadyCVs \X OrNone(ReadyCVs)
  /\ fetchesLeft \in 0..MaxFetches

JobsInit ==
  /\ requested \in OrNone(ReadyCVs)
  /\ ready = {} /\ selected = NoChoice /\ chosen = NoChoice
  /\ discoveries = <<>> /\ observed = 0
  /\ preparing = NoChoice /\ captured = NoChoice /\ preparedFrom = {}
  /\ fetchesLeft = MaxFetches

-----------------------------------------------------------------------------
\* The resume of the recommendations on the page.
DiscoveredFor(all, n) ==
  IF n # 0 /\ all[n].at = "success" THEN all[n].resume ELSE NoChoice

shown == DiscoveredFor(discoveries, observed)

\* discovery.reset, and no posting is chosen.
Reset == observed' = 0 /\ chosen' = NoChoice

\* Mutant: recommendations stay when another resume is selected.
Stay(resume, all, n) == observed' = n /\ UNCHANGED chosen

\* The last effect: recommendations for another resume than the selected one
\* are dropped.
DropForeign(resume, all, n) ==
  IF DiscoveredFor(all, n) \notin {NoChoice, resume}
    THEN Reset ELSE observed' = n /\ UNCHANGED chosen

\* The resumes were fetched: first, after a mutation, or every two seconds
\* while one is being parsed.  The first effect keeps a selection that is ready
\* and replaces others, the second prefers the one named in the URL.
FetchResumes ==
  /\ fetchesLeft > 0 /\ fetchesLeft' = fetchesLeft - 1
  /\ \E now \in SUBSET ReadyCVs \ {ready} :
       /\ ready' = now
       /\ \/ requested \in now /\ selected' = requested
          \/ requested \notin now /\ selected \in now /\ UNCHANGED selected
          \/ /\ requested \notin now /\ selected \notin now
             /\ selected' \in IF now = {} THEN {NoChoice} ELSE now
  /\ DropForeign(selected', discoveries, observed)
  /\ UNCHANGED <<requested, discoveries, preparing, captured, preparedFrom>>

\* The user selects a resume.
Select(r) ==
  /\ r \in ready
  /\ selected' = r
  /\ Reset
  /\ UNCHANGED <<requested, ready, discoveries, preparing, captured, preparedFrom,
                 fetchesLeft>>

\* search, and "Return to normal search".
Search ==
  /\ observed # 0
  /\ Reset
  /\ UNCHANGED <<requested, ready, selected, discoveries, preparing, captured,
                 preparedFrom, fetchesLeft>>

\* discoverMatches: the page observes the new mutation.
Discover ==
  /\ selected # NoChoice /\ Len(discoveries) < MaxDiscoveries
  /\ observed # 0 => discoveries[observed].at # "pending"
  /\ discoveries' = Append(discoveries, [resume |-> selected, at |-> "pending"])
  /\ observed' = Len(discoveries')
  /\ chosen' = NoChoice
  /\ UNCHANGED <<requested, ready, selected, preparing, captured, preparedFrom,
                 fetchesLeft>>

\* A discovery ends, observed or not.
EndDiscovery(n) ==
  /\ discoveries[n].at = "pending"
  /\ \E how \in {"success", "error"} :
       discoveries' = [discoveries EXCEPT ![n].at = how]
  /\ DropForeign(selected, discoveries', observed)
  /\ UNCHANGED <<requested, ready, selected, preparing, captured, preparedFrom,
                 fetchesLeft>>

\* The first click on a recommended posting chooses it.
Choose(p) ==
  /\ shown # NoChoice /\ chosen # p
  /\ selected # NoChoice /\ preparing # p
  /\ chosen' = p
  /\ UNCHANGED <<requested, ready, selected, discoveries, observed, preparing,
                 captured, preparedFrom, fetchesLeft>>

\* The second, or the first on a posting that was only searched for: the
\* package, or with the free plan the CV, is prepared from the selected resume.
PrepareChoice(p) ==
  /\ selected # NoChoice /\ preparing # p
  /\ shown # NoChoice => chosen = p
  /\ preparing' = p
  /\ preparedFrom' = preparedFrom \cup {<<selected, shown>>}
  /\ UNCHANGED <<requested, ready, selected, chosen, discoveries, observed,
                 captured, fetchesLeft>>

\* It failed; otherwise the page is left.
PrepareFailed ==
  /\ preparing # NoChoice
  /\ preparing' = NoChoice
  /\ UNCHANGED <<requested, ready, selected, chosen, discoveries, observed,
                 captured, preparedFrom, fetchesLeft>>

\* captureAndPrepare: the form remembers the resume while it awaits the posting.
Capture ==
  /\ selected # NoChoice /\ captured = NoChoice
  /\ captured' = selected
  /\ UNCHANGED <<requested, ready, selected, chosen, discoveries, observed,
                 preparing, preparedFrom, fetchesLeft>>

\* The posting is captured and the package prepared, or either fails.
EndCapture ==
  /\ captured # NoChoice
  /\ captured' = NoChoice
  /\ preparedFrom' \in {preparedFrom, preparedFrom \cup {<<captured, NoChoice>>}}
  /\ UNCHANGED <<requested, ready, selected, chosen, discoveries, observed,
                 preparing, fetchesLeft>>

JobsNext ==
  \/ FetchResumes \/ Search \/ Discover \/ PrepareFailed
  \/ Capture \/ EndCapture
  \/ \E r \in ReadyCVs : Select(r)
  \/ \E n \in DOMAIN discoveries : EndDiscovery(n)
  \/ \E p \in Postings : Choose(p) \/ PrepareChoice(p)

JobsSpec == JobsInit /\ [][JobsNext]_jobsVars

-----------------------------------------------------------------------------
\* A posting that was recommended for one resume is not prepared from another:
\* whatever is fetched, selected and answered in between, late discoveries and
\* selections by the URL included.
PreparedAsRecommended ==
  \A p \in preparedFrom : p[2] \in {NoChoice, p[1]}

\* A choice is one of the recommendations on the page.
ChoiceIsShown == chosen # NoChoice => shown = selected

=============================================================================
