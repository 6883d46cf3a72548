------------------------- MODULE ClientPages_proofs -------------------------
(***************************************************************************)
(* Proofs about what one person does from several pages: the tabs with the *)
(* package of one application, the page of jobs, the extension, and the    *)
(* resumes that are stored.  For every number of tabs, sites, files and    *)
(* deletions, and every bound.                                             *)
(***************************************************************************)
EXTENDS ReviewPage, JobsPage, ExtensionPages, ResumeStorage,
        FiniteSetTheorems, TLAPS

-----------------------------------------------------------------------------
(* The page of jobs.                                                       *)

\* The recommendations on the page are for the selected resume: late answers
\* and other selections drop them in the render that shows them.
ShownIsSelected == shown \in {NoChoice, selected}

JobsInv == JobsTypeOK /\ ShownIsSelected /\ PreparedAsRecommended

LEMMA InitJobs == JobsInit => JobsInv
BY JobsConstants
   DEF JobsInit, JobsInv, JobsTypeOK, ShownIsSelected, PreparedAsRecommended,
       shown, DiscoveredFor, OrNone

\* The last effect leaves the page with recommendations for the resume that is
\* selected, or with none.
LEMMA DropKeepsShown ==
  ASSUME NEW resume, NEW all \in Seq(Discovery), all = discoveries',
         NEW n \in 0..Len(all), chosen \in OrNone(Postings),
         resume = selected', DropForeign(resume, all, n)
  PROVE  /\ ShownIsSelected'
         /\ observed' \in 0..Len(all)
         /\ chosen' \in OrNone(Postings)
<1>1. CASE DiscoveredFor(all, n) \notin {NoChoice, resume}
  <2>1. observed' = 0 /\ chosen' = NoChoice
    BY <1>1 DEF DropForeign, Reset
  <2> QED
    BY <2>1 DEF ShownIsSelected, shown, DiscoveredFor, OrNone
<1>2. CASE DiscoveredFor(all, n) \in {NoChoice, resume}
  <2>1. observed' = n /\ chosen' = chosen
    BY <1>2 DEF DropForeign
  <2> QED
    BY <2>1, <1>2 DEF ShownIsSelected, shown, DiscoveredFor
<1> QED BY <1>1, <1>2

LEMMA NextJobs == JobsInv /\ [JobsNext]_jobsVars => JobsInv'
<1> SUFFICES ASSUME JobsInv, [JobsNext]_jobsVars PROVE JobsInv'
  OBVIOUS
<1> USE JobsConstants DEF JobsInv, JobsTypeOK
<1>1. CASE FetchResumes
  <2>1. selected' \in OrNone(ReadyCVs) /\ ready' \subseteq ReadyCVs
        /\ fetchesLeft' \in 0..MaxFetches
    BY <1>1 DEF FetchResumes, OrNone
  <2>2. DropForeign(selected', discoveries', observed)
        /\ discoveries' = discoveries
    BY <1>1 DEF FetchResumes
  <2>3. /\ ShownIsSelected'
        /\ observed' \in 0..Len(discoveries)
        /\ chosen' \in OrNone(Postings)
    BY <2>2, DropKeepsShown
  <2> QED
    BY <1>1, <2>1, <2>2, <2>3 DEF FetchResumes, PreparedAsRecommended
<1>2. CASE Search
  BY <1>2 DEF Search, Reset, OrNone, ShownIsSelected, shown, DiscoveredFor,
              PreparedAsRecommended
<1>3. CASE Discover
  <2>1. [resume |-> selected, at |-> "pending"] \in Discovery
    BY <1>3 DEF Discover, Discovery, OrNone
  <2>2. /\ discoveries' \in Seq(Discovery)
        /\ Len(discoveries') = Len(discoveries) + 1
        /\ discoveries'[Len(discoveries')].at = "pending"
    BY <1>3, <2>1 DEF Discover
  <2>3. Len(discoveries') <= MaxDiscoveries /\ observed' \in 0..Len(discoveries')
    BY <1>3, <2>2 DEF Discover
  <2>4. ShownIsSelected'
    BY <1>3, <2>2 DEF Discover, ShownIsSelected, shown, DiscoveredFor
  <2> QED
    BY <1>3, <2>2, <2>3, <2>4 DEF Discover, PreparedAsRecommended, OrNone
<1>4. CASE PrepareFailed
  BY <1>4 DEF PrepareFailed, OrNone, ShownIsSelected, shown, DiscoveredFor,
              PreparedAsRecommended
<1>5. CASE Capture
  BY <1>5 DEF Capture, OrNone, ShownIsSelected, shown, DiscoveredFor,
              PreparedAsRecommended
<1>6. CASE EndCapture
  BY <1>6 DEF EndCapture, OrNone, ShownIsSelected, shown, DiscoveredFor,
              PreparedAsRecommended
<1>7. ASSUME NEW r \in ReadyCVs, Select(r) PROVE JobsInv'
  BY <1>7 DEF Select, Reset, OrNone, ShownIsSelected, shown, DiscoveredFor,
              PreparedAsRecommended
<1>8. ASSUME NEW n \in DOMAIN discoveries, EndDiscovery(n) PROVE JobsInv'
  <2>1. PICK how \in {"success", "error"} :
          discoveries' = [discoveries EXCEPT ![n].at = how]
    BY <1>8 DEF EndDiscovery
  <2>2. discoveries[n] \in Discovery
    BY <1>8
  <2>3. [discoveries[n] EXCEPT !.at = how] \in Discovery
    BY <2>2 DEF Discovery
  <2>4. discoveries' \in Seq(Discovery) /\ Len(discoveries') = Len(discoveries)
    BY <2>1, <2>3
  <2>5. DropForeign(selected', discoveries', observed)
    BY <1>8 DEF EndDiscovery
  <2>6. /\ ShownIsSelected'
        /\ observed' \in 0..Len(discoveries')
        /\ chosen' \in OrNone(Postings)
    BY <2>4, <2>5, DropKeepsShown
  <2> QED
    BY <1>8, <2>4, <2>6 DEF EndDiscovery, PreparedAsRecommended
<1>9. ASSUME NEW p \in Postings, Choose(p) PROVE JobsInv'
  BY <1>9 DEF Choose, OrNone, ShownIsSelected, shown, DiscoveredFor,
              PreparedAsRecommended
<1>10. ASSUME NEW p \in Postings, PrepareChoice(p) PROVE JobsInv'
  BY <1>10 DEF PrepareChoice, OrNone, ShownIsSelected, shown, DiscoveredFor,
               PreparedAsRecommended
<1>11. CASE UNCHANGED jobsVars
  BY <1>11 DEF jobsVars, ShownIsSelected, shown, DiscoveredFor,
               PreparedAsRecommended
<1> QED
  BY <1>1, <1>2, <1>3, <1>4, <1>5, <1>6, <1>7, <1>8, <1>9, <1>10, <1>11
     DEF JobsNext

\* No posting is prepared from another resume than the one it was recommended
\* for, for any resumes, postings, fetches and discoveries.
THEOREM PreparedFromRecommended == JobsSpec => []PreparedAsRecommended
<1>1. JobsSpec => []JobsInv
  BY InitJobs, NextJobs, PTL DEF JobsSpec
<1> QED BY <1>1, PTL DEF JobsInv

-----------------------------------------------------------------------------
(* The review page: types.                                                 *)

\* What the regeneration of a tab is for.
KindOf(t) == <<t, regenerating[t].target>>

LEMMA IdleIsRequest == Idle \in Request /\ NoData \in Package
<1>1. NoData \in Package
  BY DEF NoData, Package, Wording
<1> QED
  BY <1>1, ReviewConstants DEF Idle, Request, NoText, Wording, Targets

LEMMA AnswerTypes ==
  ASSUME NEW r \in [Tabs -> Request], NEW t \in Tabs,
         NEW how \in {"sent", "working", "ok", "refused"}
  PROVE  Answer(r, t, how) \in [Tabs -> Request]
<1>1. r[t] \in Request
  OBVIOUS
<1>2. [r[t] EXCEPT !.at = how] \in Request
  BY <1>1 DEF Request
<1> QED BY <1>2 DEF Answer

\* Requests that are sent, answered and forgotten keep their type.
LEMMA RequestsStay ==
  ASSUME ReviewTypeOK, NEW t \in Tabs
  PROVE  /\ [saving EXCEPT ![t] = Idle] \in [Tabs -> Request]
         /\ [approving EXCEPT ![t] = Idle] \in [Tabs -> Request]
         /\ [regenerating EXCEPT ![t] = Idle] \in [Tabs -> Request]
         /\ [fetching EXCEPT ![t] = Idle] \in [Tabs -> Request]
         /\ [fetching EXCEPT ![t] = Send(Idle)] \in [Tabs -> Request]
         /\ Answer(saving, t, "ok") \in [Tabs -> Request]
         /\ Answer(saving, t, "refused") \in [Tabs -> Request]
         /\ Answer(approving, t, "ok") \in [Tabs -> Request]
         /\ Answer(approving, t, "refused") \in [Tabs -> Request]
         /\ Answer(regenerating, t, "ok") \in [Tabs -> Request]
         /\ Answer(regenerating, t, "refused") \in [Tabs -> Request]
         /\ Answer(regenerating, t, "working") \in [Tabs -> Request]
<1>1. Send(Idle) \in Request
  BY IdleIsRequest DEF Send, Request
<1>2. /\ saving \in [Tabs -> Request] /\ approving \in [Tabs -> Request]
      /\ regenerating \in [Tabs -> Request] /\ fetching \in [Tabs -> Request]
  BY DEF ReviewTypeOK
<1> QED BY <1>1, <1>2, IdleIsRequest, AnswerTypes

LEMMA NextReviewTypes ==
  ReviewTypeOK /\ [ReviewNext]_reviewVars => ReviewTypeOK'
<1> SUFFICES ASSUME ReviewTypeOK, [ReviewNext]_reviewVars PROVE ReviewTypeOK'
  OBVIOUS
<1> USE ReviewConstants DEF ReviewTypeOK, server, requests
<1>1. ASSUME NEW t \in Tabs, Show(t) PROVE ReviewTypeOK'
  <2>0. fetching[t] \in Request
    OBVIOUS
  <2>1. fetching[t].got \in Package /\ TextsOf(fetching[t].got) \in Wording \X Wording
    BY <2>0 DEF Request, Package, TextsOf
  <2>2. draft' \in [Tabs -> Wording \X Wording] /\ ticked' \in [Tabs -> BOOLEAN]
    <3>1. CASE Replaced(view[t], fetching[t].got)
      BY <1>1, <3>1, <2>1 DEF Show
    <3>2. CASE ~Replaced(view[t], fetching[t].got)
      BY <1>1, <3>2 DEF Show
    <3> QED BY <3>1, <3>2
  <2>3. view' \in [Tabs -> Package]
    BY <1>1, <2>1 DEF Show
  <2>4. fetching' \in [Tabs -> Request]
    BY <1>1, RequestsStay DEF Show
  <2> QED BY <1>1, <2>2, <2>3, <2>4 DEF Show
<1>2. ASSUME NEW t \in Tabs, Type(t) PROVE ReviewTypeOK'
  <2>1. written' \in Wording
    BY <1>2 DEF Type, Wording
  <2>2. PICK part \in {1, 2} : draft' = [draft EXCEPT ![t][part] = written']
    BY <1>2 DEF Type
  <2>3. [draft[t] EXCEPT ![part] = written'] \in Wording \X Wording
    <3>0. draft[t] \in Wording \X Wording
      OBVIOUS
    <3>1. PICK a \in Wording, b \in Wording : draft[t] = <<a, b>>
      BY <3>0
    <3>2. CASE part = 1
      <4>1. [draft[t] EXCEPT ![part] = written'] = <<written', b>>
        BY <3>1, <3>2
      <4> QED BY <4>1, <2>1
    <3>3. CASE part = 2
      <4>1. [draft[t] EXCEPT ![part] = written'] = <<a, written'>>
        BY <3>1, <3>3
      <4> QED BY <4>1, <2>1
    <3> QED BY <3>2, <3>3
  <2>4. draft' \in [Tabs -> Wording \X Wording]
    BY <2>2, <2>3
  <2> QED BY <1>2, <2>1, <2>4 DEF Type, Click
<1>3. ASSUME NEW t \in Tabs, Tick(t) PROVE ReviewTypeOK'
  <2>1. TextsOf(view[t]) \in Wording \X Wording
    BY DEF Package, TextsOf
  <2> QED BY <1>3, <2>1 DEF Tick, Click
<1>4. ASSUME NEW t \in Tabs, Save(t) PROVE ReviewTypeOK'
  <2>1. [Send(Idle) EXCEPT !.texts = draft[t]] \in Request
    BY IdleIsRequest DEF Send, Request
  <2> QED BY <1>4, <2>1 DEF Save, Click
<1>5. ASSUME NEW t \in Tabs, ClickApprove(t) PROVE ReviewTypeOK'
  <2>1. [Send(Idle) EXCEPT !.confirm = ticked[t], !.texts = draft[t],
                           !.got = view[t]] \in Request
    BY IdleIsRequest DEF Send, Request
  <2> QED BY <1>5, <2>1 DEF ClickApprove, Click
<1>6. ASSUME NEW t \in Tabs, NEW g \in Targets, Regenerate(t, g)
      PROVE  ReviewTypeOK'
  <2>0. <<t, g>> \in RequestKinds
    BY DEF RequestKinds
  <2>1. keyFor(t, g) \in 0..MaxKeys
    <3>1. pendingKey[<<t, g>>] \in 0..MaxKeys /\ drawn[<<t, g>>] \in 0..MaxKeys
      BY <2>0
    <3> QED BY <1>6, <3>1 DEF Regenerate, keyFor
  <2>2. [Send(Idle) EXCEPT !.key = keyFor(t, g), !.target = g] \in Request
    BY <2>1, IdleIsRequest DEF Send, Request
  <2>3. /\ pendingKey' \in [RequestKinds -> 0..MaxKeys]
        /\ drawn' \in [RequestKinds -> 0..MaxKeys]
    BY <1>6, <2>0, <2>1 DEF Regenerate
  <2> QED BY <1>6, <2>2, <2>3 DEF Regenerate, Click
<1>7. ASSUME NEW t \in Tabs, ServeFetch(t) PROVE ReviewTypeOK'
  <2>0. fetching[t] \in Request
    OBVIOUS
  <2>1. [fetching[t] EXCEPT !.at = "ok", !.got = pack] \in Request
    BY <2>0 DEF Request
  <2> QED BY <1>7, <2>1 DEF ServeFetch
<1>8. ASSUME NEW t \in Tabs, ServeSave(t) PROVE ReviewTypeOK'
  <2>1. saving[t].texts[1] \in Wording /\ saving[t].texts[2] \in Wording
    BY DEF Request
  <2>2. pack' \in Package
    BY <1>8, <2>1 DEF ServeSave, Package
  <2>3. saving' \in [Tabs -> Request]
    BY <1>8, RequestsStay DEF ServeSave
  <2> QED BY <1>8, <2>2, <2>3 DEF ServeSave
<1>9. ASSUME NEW t \in Tabs, ServeApprove(t) PROVE ReviewTypeOK'
  <2>1. pack' \in Package /\ blind' \in BOOLEAN
    BY <1>9 DEF ServeApprove, Package
  <2>2. approving' \in [Tabs -> Request]
    BY <1>9, RequestsStay DEF ServeApprove
  <2> QED BY <1>9, <2>1, <2>2 DEF ServeApprove
<1>10. ASSUME NEW t \in Tabs, BeginRegeneration(t) PROVE ReviewTypeOK'
  <2>1. regenerating' \in [Tabs -> Request]
    BY <1>10, RequestsStay DEF BeginRegeneration
  <2>2. pack' \in Package
    BY <1>10 DEF BeginRegeneration, Package
  <2>3. record' \in [RequestKinds -> [1..MaxKeys -> {"none", "pending", "done"}]]
    <3>0. KindOf(t) \in RequestKinds
      BY DEF RequestKinds, Request, KindOf
    <3>1. [record[KindOf(t)] EXCEPT ![regenerating[t].key] = "pending"]
            \in [1..MaxKeys -> {"none", "pending", "done"}]
      BY <3>0
    <3>2. \/ record' = record
          \/ record' = [record EXCEPT ![KindOf(t)] =
               [record[KindOf(t)] EXCEPT ![regenerating[t].key] = "pending"]]
      BY <1>10 DEF BeginRegeneration, KindOf
    <3> QED BY <3>0, <3>1, <3>2
  <2> QED BY <1>10, <2>1, <2>2, <2>3 DEF BeginRegeneration
<1>11. ASSUME NEW t \in Tabs, NEW g \in Targets, NEW n \in 1..MaxKeys,
              EndRegeneration(t, g, n) \/ FailRegeneration(t, g, n)
       PROVE  ReviewTypeOK'
  <2>0. <<t, g>> \in RequestKinds
    BY DEF RequestKinds
  <2>1. regenerating' \in [Tabs -> Request]
    BY <1>11, RequestsStay DEF EndRegeneration, FailRegeneration, Tell
  <2>2. pack' \in Package /\ written' \in Wording
    <3>1. CASE EndRegeneration(t, g, n)
      BY <3>1 DEF EndRegeneration, Package, Wording
    <3>2. CASE FailRegeneration(t, g, n)
      BY <3>2 DEF FailRegeneration, Package, Wording
    <3> QED BY <1>11, <3>1, <3>2
  <2>3. record' \in [RequestKinds -> [1..MaxKeys -> {"none", "pending", "done"}]]
    <3>1. \A how \in {"none", "done"} : [record[<<t, g>>] EXCEPT ![n] = how]
             \in [1..MaxKeys -> {"none", "pending", "done"}]
      BY <2>0
    <3>2. PICK how \in {"none", "done"} : record' =
             [record EXCEPT ![<<t, g>>] = [record[<<t, g>>] EXCEPT ![n] = how]]
      BY <1>11 DEF EndRegeneration, FailRegeneration
    <3>3. [record[<<t, g>>] EXCEPT ![n] = how]
             \in [1..MaxKeys -> {"none", "pending", "done"}]
      BY <3>1
    <3> QED BY <2>0, <3>2, <3>3
  <2> QED BY <1>11, <2>1, <2>2, <2>3 DEF EndRegeneration, FailRegeneration
<1>12. ASSUME NEW t \in Tabs, Succeed(t) PROVE ReviewTypeOK'
  <2>0. /\ saving \in [Tabs -> Request] /\ [saving EXCEPT ![t] = Idle] \in [Tabs -> Request]
        /\ approving \in [Tabs -> Request] /\ [approving EXCEPT ![t] = Idle] \in [Tabs -> Request]
    BY RequestsStay
  <2>1. /\ saving' \in [Tabs -> Request] /\ approving' \in [Tabs -> Request]
        /\ fetching' \in [Tabs -> Request]
    <3>1. fetching' \in [Tabs -> Request]
      BY <1>12, RequestsStay DEF Succeed, Fetch
    <3>2. saving' \in [Tabs -> Request]
      <4>1. saving' = saving \/ saving' = [saving EXCEPT ![t] = Idle]
        BY <1>12 DEF Succeed
      <4> QED BY <4>1, <2>0
    <3>3. approving' \in [Tabs -> Request]
      <4>1. approving' = approving \/ approving' = [approving EXCEPT ![t] = Idle]
        BY <1>12 DEF Succeed
      <4> QED BY <4>1, <2>0
    <3> QED BY <3>1, <3>2, <3>3
  <2> QED BY <1>12, <2>1 DEF Succeed
<1>13. ASSUME NEW t \in Tabs, Regenerated(t) PROVE ReviewTypeOK'
  <2>0. KindOf(t) \in RequestKinds
    BY DEF KindOf, RequestKinds, Request
  <2>1. /\ pendingKey' \in [RequestKinds -> 0..MaxKeys]
        /\ answered' \in [RequestKinds -> Nat]
    BY <1>13, <2>0 DEF Regenerated, KindOf
  <2> QED BY <1>13, <2>1, RequestsStay DEF Regenerated, Fetch
<1>14. ASSUME NEW t \in Tabs, ShowError(t) PROVE ReviewTypeOK'
  <2>0. /\ saving \in [Tabs -> Request] /\ [saving EXCEPT ![t] = Idle] \in [Tabs -> Request]
        /\ approving \in [Tabs -> Request] /\ [approving EXCEPT ![t] = Idle] \in [Tabs -> Request]
        /\ regenerating \in [Tabs -> Request] /\ [regenerating EXCEPT ![t] = Idle] \in [Tabs -> Request]
    BY RequestsStay
  <2>1. /\ saving' \in [Tabs -> Request] /\ approving' \in [Tabs -> Request]
        /\ regenerating' \in [Tabs -> Request]
    <3>1. saving' \in [Tabs -> Request]
      <4>1. saving' = saving \/ saving' = [saving EXCEPT ![t] = Idle]
        BY <1>14 DEF ShowError
      <4> QED BY <4>1, <2>0
    <3>2. approving' \in [Tabs -> Request]
      <4>1. approving' = approving \/ approving' = [approving EXCEPT ![t] = Idle]
        BY <1>14 DEF ShowError
      <4> QED BY <4>1, <2>0
    <3>3. regenerating' \in [Tabs -> Request]
      <4>1. regenerating' = regenerating \/ regenerating' = [regenerating EXCEPT ![t] = Idle]
        BY <1>14 DEF ShowError
      <4> QED BY <4>1, <2>0
    <3> QED BY <3>1, <3>2, <3>3
  <2> QED BY <1>14, <2>1 DEF ShowError
<1>15. ASSUME NEW t \in Tabs, Lose(t) PROVE ReviewTypeOK'
  <2>0. /\ saving \in [Tabs -> Request] /\ [saving EXCEPT ![t] = Idle] \in [Tabs -> Request]
        /\ approving \in [Tabs -> Request] /\ [approving EXCEPT ![t] = Idle] \in [Tabs -> Request]
        /\ regenerating \in [Tabs -> Request] /\ [regenerating EXCEPT ![t] = Idle] \in [Tabs -> Request]
        /\ fetching \in [Tabs -> Request] /\ [fetching EXCEPT ![t] = Idle] \in [Tabs -> Request]
    BY RequestsStay
  <2>1. /\ saving' \in [Tabs -> Request] /\ approving' \in [Tabs -> Request]
        /\ regenerating' \in [Tabs -> Request] /\ fetching' \in [Tabs -> Request]
    <3>1. saving' \in [Tabs -> Request]
      <4>1. saving' = saving \/ saving' = [saving EXCEPT ![t] = Idle]
        BY <1>15 DEF Lose
      <4> QED BY <4>1, <2>0
    <3>2. approving' \in [Tabs -> Request]
      <4>1. approving' = approving \/ approving' = [approving EXCEPT ![t] = Idle]
        BY <1>15 DEF Lose
      <4> QED BY <4>1, <2>0
    <3>3. regenerating' \in [Tabs -> Request]
      <4>1. regenerating' = regenerating \/ regenerating' = [regenerating EXCEPT ![t] = Idle]
        BY <1>15 DEF Lose
      <4> QED BY <4>1, <2>0
    <3>4. fetching' \in [Tabs -> Request]
      <4>1. fetching' = fetching \/ fetching' = [fetching EXCEPT ![t] = Idle]
        BY <1>15 DEF Lose
      <4> QED BY <4>1, <2>0
    <3> QED BY <3>1, <3>2, <3>3, <3>4
  <2> QED BY <1>15, <2>1 DEF Lose
<1>16. CASE UNCHANGED reviewVars
  BY <1>16 DEF reviewVars
<1> QED
  BY <1>1, <1>2, <1>3, <1>4, <1>5, <1>6, <1>7, <1>8, <1>9, <1>10, <1>11,
     <1>12, <1>13, <1>14, <1>15, <1>16 DEF ReviewNext

LEMMA InitReviewTypes == ReviewInit => ReviewTypeOK
<1> SUFFICES ASSUME ReviewInit PROVE ReviewTypeOK
  OBVIOUS
<1>1. pack \in Package /\ TextsOf(pack) \in Wording \X Wording
  BY DEF ReviewInit, Package, Wording, TextsOf
<1>2. NoText \in Wording \X Wording
  BY DEF NoText, Wording
<1>3. written \in Wording
  BY DEF ReviewInit, Wording
<1>4. \A x \in RequestKinds : 0 \in 0..MaxKeys /\ 0 \in Nat
  BY ReviewConstants
<1>5. record \in [RequestKinds -> [1..MaxKeys -> {"none", "pending", "done"}]]
  BY DEF ReviewInit
<1>6. /\ view \in [Tabs -> Package] /\ draft \in [Tabs -> Wording \X Wording]
      /\ tickedFor \in [Tabs -> Wording \X Wording] /\ ticked \in [Tabs -> BOOLEAN]
  BY <1>1, <1>2 DEF ReviewInit
<1>7. /\ saving \in [Tabs -> Request] /\ approving \in [Tabs -> Request]
      /\ regenerating \in [Tabs -> Request] /\ fetching \in [Tabs -> Request]
  BY IdleIsRequest DEF ReviewInit
<1>8. /\ pendingKey \in [RequestKinds -> 0..MaxKeys]
      /\ drawn \in [RequestKinds -> 0..MaxKeys]
      /\ answered \in [RequestKinds -> Nat]
  BY <1>4 DEF ReviewInit
<1>9. blind \in BOOLEAN
  BY DEF ReviewInit
<1>10. lossesLeft \in 0..MaxLosses /\ clicksLeft \in 0..MaxClicks
  <2>1. lossesLeft = MaxLosses /\ clicksLeft = MaxClicks
    BY DEF ReviewInit
  <2> QED BY <2>1, ReviewConstants
<1> QED
  BY <1>1, <1>3, <1>5, <1>6, <1>7, <1>8, <1>9, <1>10 DEF ReviewTypeOK

-----------------------------------------------------------------------------
(* The review page: the box that confirms claims.                          *)

TickInv == ReviewTypeOK /\ TickIsForShownTexts

\* Nothing but an answer that is shown changes what a tab shows, and a text
\* that replaces another one clears the box.
LEMMA NextTick == TickInv /\ [ReviewNext]_reviewVars => TickInv'
<1> SUFFICES ASSUME TickInv, [ReviewNext]_reviewVars PROVE TickIsForShownTexts'
  BY NextReviewTypes DEF TickInv
<1> USE DEF TickInv, TickIsForShownTexts, ReviewTypeOK
<1>1. ASSUME UNCHANGED <<view, ticked, tickedFor>> PROVE TickIsForShownTexts'
  BY <1>1
<1>2. ASSUME NEW t \in Tabs, Show(t) PROVE TickIsForShownTexts'
  <2>1. CASE Replaced(view[t], fetching[t].got)
    BY <1>2, <2>1 DEF Show
  <2>2. CASE ~Replaced(view[t], fetching[t].got)
    <3>1. TextsOf(view'[t]) = TextsOf(view[t])
      BY <1>2, <2>2 DEF Show, Replaced
    <3>2. \A u \in Tabs \ {t} : view'[u] = view[u]
      BY <1>2 DEF Show
    <3> QED
      BY <1>2, <2>2, <3>1, <3>2 DEF Show
  <2> QED BY <2>1, <2>2
<1>3. ASSUME NEW t \in Tabs, Tick(t) PROVE TickIsForShownTexts'
  BY <1>3 DEF Tick
<1>4. ASSUME NEW t \in Tabs, Save(t) PROVE TickIsForShownTexts'
  BY <1>4 DEF Save
<1>5. ASSUME NEW t \in Tabs,
             \/ Type(t) \/ ClickApprove(t) \/ ServeFetch(t) \/ ServeSave(t)
             \/ ServeApprove(t) \/ BeginRegeneration(t) \/ Succeed(t)
             \/ Regenerated(t) \/ ShowError(t) \/ Lose(t)
             \/ \E g \in Targets : Regenerate(t, g)
             \/ \E g \in Targets, n \in 1..MaxKeys :
                  EndRegeneration(t, g, n) \/ FailRegeneration(t, g, n)
      PROVE  TickIsForShownTexts'
  <2>1. UNCHANGED <<view, ticked, tickedFor>>
    BY <1>5 DEF Type, ClickApprove, ServeFetch, ServeSave, ServeApprove,
                BeginRegeneration, Succeed, Regenerated, ShowError, Lose,
                Regenerate, EndRegeneration, FailRegeneration
  <2> QED BY <2>1, <1>1
<1>6. CASE UNCHANGED reviewVars
  BY <1>6, <1>1 DEF reviewVars
<1> QED
  BY <1>2, <1>3, <1>4, <1>5, <1>6 DEF ReviewNext

\* The box of a tab confirms the texts that the tab shows, for any tabs, clicks
\* and losses.
THEOREM TickedTextsAreShown == ReviewSpec => []TickIsForShownTexts
<1>1. ReviewInit => TickInv
  BY InitReviewTypes DEF ReviewInit, TickInv, TickIsForShownTexts
<1>2. ReviewSpec => []TickInv
  BY <1>1, NextTick, PTL DEF ReviewSpec
<1> QED BY <1>2, PTL DEF TickInv

-----------------------------------------------------------------------------
(* The review page: keys of regenerations.                                 *)

Done(k) == {n \in 1..MaxKeys : record[k][n] = "done"}

\* A request of a tab carries the key that waits for its answer ...
SentKeyIsPending ==
  \A t \in Tabs : regenerating[t].at # "idle" =>
    regenerating[t].key = pendingKey[KindOf(t)] /\ regenerating[t].key # 0

\* ... a key that was used has been drawn, and the one that waits ...
UsedKeysAreDrawn ==
  \A k \in RequestKinds :
    /\ pendingKey[k] <= drawn[k]
    /\ \A n \in 1..MaxKeys : record[k][n] # "none" => n <= drawn[k]

\* ... and of the generations that ended only that of the waiting key is unknown
\* to the tab.
OthersAreAnswered ==
  \A k \in RequestKinds : Cardinality(Done(k) \ {pendingKey[k]}) <= answered[k]

\* Only the key that waits is at work.
WorkingKeyIsPending ==
  \A k \in RequestKinds, n \in 1..MaxKeys :
    record[k][n] = "pending" => n = pendingKey[k]

\* An answer that says so comes after the end.
GoodAnswerIsTrue ==
  \A t \in Tabs : regenerating[t].at = "ok" =>
    record[KindOf(t)][regenerating[t].key] = "done"

KeyInv == /\ ReviewTypeOK /\ SentKeyIsPending /\ UsedKeysAreDrawn
          /\ OthersAreAnswered /\ WorkingKeyIsPending /\ GoodAnswerIsTrue

LEMMA DoneIsFinite ==
  ASSUME NEW k, NEW n
  PROVE  /\ IsFiniteSet(Done(k)) /\ Cardinality(Done(k)) \in Nat
         /\ IsFiniteSet(Done(k) \ {n}) /\ Cardinality(Done(k) \ {n}) \in Nat
         /\ Cardinality(Done(k)) <= Cardinality(Done(k) \ {n}) + 1
<1>1. IsFiniteSet(1..MaxKeys)
  BY FS_Interval, ReviewConstants
<1>2. IsFiniteSet(Done(k))
  BY <1>1, FS_Subset DEF Done
<1>3. /\ IsFiniteSet(Done(k) \ {n})
      /\ Cardinality(Done(k) \ {n}) =
           IF n \in Done(k) THEN Cardinality(Done(k)) - 1 ELSE Cardinality(Done(k))
  BY <1>2, FS_RemoveElement
<1>4. Cardinality(Done(k)) \in Nat /\ Cardinality(Done(k) \ {n}) \in Nat
  BY <1>2, <1>3, FS_CardinalityType
<1> QED BY <1>2, <1>3, <1>4

LEMMA InitKeys == ReviewInit => KeyInv
<1> SUFFICES ASSUME ReviewInit PROVE KeyInv
  OBVIOUS
<1>1. ReviewTypeOK
  BY InitReviewTypes
<1>2. SentKeyIsPending /\ WorkingKeyIsPending /\ GoodAnswerIsTrue
  BY DEF ReviewInit, SentKeyIsPending, WorkingKeyIsPending, GoodAnswerIsTrue, Idle
<1>3. UsedKeysAreDrawn
  BY DEF ReviewInit, UsedKeysAreDrawn
<1>4. \A k \in RequestKinds : Done(k) = {}
  BY DEF ReviewInit, Done
<1>5. OthersAreAnswered
  <2>1. \A k \in RequestKinds : Done(k) \ {pendingKey[k]} = {} /\ answered[k] = 0
    BY <1>4 DEF ReviewInit
  <2> QED BY <2>1, FS_EmptySet DEF OthersAreAnswered
<1> QED BY <1>1, <1>2, <1>3, <1>5 DEF KeyInv

\* What is known of a request of a tab that is not idle.
LEMMA RequestKeys ==
  ASSUME KeyInv, NEW t \in Tabs
  PROVE  /\ KindOf(t) \in RequestKinds
         /\ regenerating[t] \in Request
         /\ regenerating[t].at # "idle" => regenerating[t].key \in 1..MaxKeys
<1>1. regenerating[t] \in Request
  BY DEF KeyInv, ReviewTypeOK
<1>2. KindOf(t) \in RequestKinds /\ regenerating[t].key \in 0..MaxKeys
  BY <1>1 DEF KindOf, RequestKinds, Request
<1>3. regenerating[t].at # "idle" => regenerating[t].key # 0
  BY DEF KeyInv, SentKeyIsPending
<1> QED BY <1>1, <1>2, <1>3, ReviewConstants

\* An answer leaves the key and the kind of its request.
LEMMA AnswerKeeps ==
  ASSUME ReviewTypeOK, NEW t \in Tabs, NEW how,
         regenerating' = Answer(regenerating, t, how)
  PROVE  /\ \A u \in Tabs : /\ KindOf(u)' = KindOf(u)
                            /\ regenerating'[u].key = regenerating[u].key
                            /\ u # t => regenerating'[u] = regenerating[u]
         /\ regenerating'[t].at = how
<1>1. regenerating[t] \in Request
  BY DEF ReviewTypeOK
<1>2. /\ regenerating'[t] = [regenerating[t] EXCEPT !.at = how]
      /\ \A u \in Tabs : u # t => regenerating'[u] = regenerating[u]
  BY DEF ReviewTypeOK, Answer
<1>3. regenerating'[t].at = how /\ regenerating'[t].key = regenerating[t].key
      /\ regenerating'[t].target = regenerating[t].target
  BY <1>1, <1>2 DEF Request
<1> QED BY <1>2, <1>3 DEF KindOf

\* A request that is forgotten leaves its key to be used again.
LEMMA ForgetKeeps ==
  ASSUME KeyInv, ReviewTypeOK', NEW t \in Tabs,
         regenerating' = regenerating \/ regenerating' = [regenerating EXCEPT ![t] = Idle],
         UNCHANGED <<record, pendingKey, drawn, answered>>
  PROVE  KeyInv'
<1>1. \A u \in Tabs : regenerating'[u].at # "idle" => regenerating'[u] = regenerating[u]
  BY DEF KeyInv, ReviewTypeOK, Idle
<1>2. \A k \in RequestKinds : Done(k)' = Done(k)
  BY DEF Done
<1>3. SentKeyIsPending' /\ GoodAnswerIsTrue'
  BY <1>1 DEF KeyInv, SentKeyIsPending, GoodAnswerIsTrue, KindOf
<1>4. UsedKeysAreDrawn' /\ WorkingKeyIsPending' /\ OthersAreAnswered'
  BY <1>2 DEF KeyInv, UsedKeysAreDrawn, WorkingKeyIsPending, OthersAreAnswered
<1> QED BY <1>3, <1>4 DEF KeyInv

LEMMA RegenerateKeeps ==
  ASSUME KeyInv, ReviewTypeOK', NEW t \in Tabs, NEW g \in Targets, Regenerate(t, g)
  PROVE  KeyInv'
<1> DEFINE kind == <<t, g>>
           key  == keyFor(t, g)
<1>0. kind \in RequestKinds
  BY DEF RequestKinds
<1>1. /\ pendingKey[kind] \in 0..MaxKeys /\ drawn[kind] \in 0..MaxKeys
      /\ pendingKey[kind] <= drawn[kind]
  BY <1>0 DEF KeyInv, ReviewTypeOK, UsedKeysAreDrawn
<1>2. /\ key \in 1..MaxKeys
      /\ key = pendingKey[kind] \/ (pendingKey[kind] = 0 /\ key = drawn[kind] + 1)
  BY <1>1 DEF Regenerate, keyFor
<1>3. /\ pendingKey' = [pendingKey EXCEPT ![kind] = key]
      /\ drawn'[kind] = (IF key > drawn[kind] THEN key ELSE drawn[kind])
      /\ \A k \in RequestKinds : k # kind => drawn'[k] = drawn[k]
      /\ UNCHANGED <<record, answered>>
  BY <1>0 DEF Regenerate, server, KeyInv, ReviewTypeOK
<1>4. pendingKey'[kind] = key
      /\ \A k \in RequestKinds : k # kind => pendingKey'[k] = pendingKey[k]
  BY <1>0, <1>3 DEF KeyInv, ReviewTypeOK
<1>5. /\ regenerating'[t] = [Send(Idle) EXCEPT !.key = key, !.target = g]
      /\ \A u \in Tabs : u # t => regenerating'[u] = regenerating[u]
  BY DEF Regenerate, KeyInv, ReviewTypeOK
<1>6. regenerating'[t].key = key /\ regenerating'[t].at = "sent"
      /\ regenerating'[t].target = g
  BY <1>5 DEF Send, Idle
<1>7. SentKeyIsPending'
  <2>1. ASSUME NEW u \in Tabs, regenerating'[u].at # "idle"
        PROVE  regenerating'[u].key = pendingKey'[KindOf(u)'] /\ regenerating'[u].key # 0
    <3>1. CASE u = t
      BY <3>1, <1>2, <1>4, <1>6 DEF KindOf
    <3>2. CASE u # t
      <4>1. KindOf(u)' = KindOf(u) /\ KindOf(u) # kind /\ KindOf(u) \in RequestKinds
        BY <3>2, <1>5, RequestKeys DEF KindOf
      <4> QED BY <4>1, <3>2, <2>1, <1>4, <1>5 DEF KeyInv, SentKeyIsPending
    <3> QED BY <3>1, <3>2
  <2> QED BY <2>1 DEF SentKeyIsPending
<1>8. GoodAnswerIsTrue'
  BY <1>3, <1>5, <1>6 DEF KeyInv, GoodAnswerIsTrue, KindOf
<1>9. UsedKeysAreDrawn'
  <2>1. ASSUME NEW k \in RequestKinds
        PROVE  drawn[k] <= drawn'[k] /\ pendingKey'[k] <= drawn'[k]
    <3>1. drawn[k] \in 0..MaxKeys /\ pendingKey[k] <= drawn[k]
      BY DEF KeyInv, ReviewTypeOK, UsedKeysAreDrawn
    <3> QED BY <3>1, <1>1, <1>2, <1>3, <1>4
  <2>2. \A k \in RequestKinds : drawn[k] \in 0..MaxKeys /\ drawn'[k] \in 0..MaxKeys
    BY DEF KeyInv, ReviewTypeOK
  <2> QED BY <2>1, <2>2, <1>3 DEF KeyInv, UsedKeysAreDrawn
<1>10. WorkingKeyIsPending'
  BY <1>2, <1>3, <1>4 DEF KeyInv, WorkingKeyIsPending
<1>11. OthersAreAnswered'
  <2>1. ASSUME NEW k \in RequestKinds
        PROVE  Done(k)' \ {pendingKey'[k]} = Done(k) \ {pendingKey[k]}
    <3>1. \A n \in Done(k) : n \in 1..MaxKeys /\ n <= drawn[k]
      BY DEF Done, KeyInv, UsedKeysAreDrawn
    <3>2. Done(k)' = Done(k)
      BY <1>3 DEF Done
    <3>3. CASE k = kind
      BY <3>1, <3>2, <3>3, <1>1, <1>2, <1>4
    <3> QED BY <3>2, <3>3, <1>4
  <2> QED BY <2>1, <1>3 DEF KeyInv, OthersAreAnswered
<1> QED BY <1>7, <1>8, <1>9, <1>10, <1>11 DEF KeyInv

\* The request of a tab changes neither the key that waits nor those drawn: what
\* is left to show when a generation begins or ends.
LEMMA RecordKeeps ==
  ASSUME KeyInv, ReviewTypeOK', NEW kind \in RequestKinds, NEW n \in 1..MaxKeys,
         NEW how \in {"none", "pending", "done"},
         record' = [record EXCEPT ![kind][n] = how],
         n = pendingKey[kind],
         UNCHANGED <<pendingKey, drawn, answered>>
  PROVE  UsedKeysAreDrawn' /\ WorkingKeyIsPending' /\ OthersAreAnswered'
<1>1. /\ record'[kind][n] = how
      /\ \A k \in RequestKinds, m \in 1..MaxKeys :
           k # kind \/ m # n => record'[k][m] = record[k][m]
  BY DEF KeyInv, ReviewTypeOK
<1>2. n <= drawn[kind]
  BY DEF KeyInv, UsedKeysAreDrawn
<1>3. UsedKeysAreDrawn'
  BY <1>1, <1>2 DEF KeyInv, UsedKeysAreDrawn
<1>4. WorkingKeyIsPending'
  BY <1>1 DEF KeyInv, WorkingKeyIsPending
<1>5. \A k \in RequestKinds : Done(k)' \ {pendingKey'[k]} = Done(k) \ {pendingKey[k]}
  BY <1>1 DEF Done
<1> QED BY <1>3, <1>4, <1>5 DEF KeyInv, OthersAreAnswered

LEMMA BeginKeeps ==
  ASSUME KeyInv, ReviewTypeOK', NEW t \in Tabs, BeginRegeneration(t)
  PROVE  KeyInv'
<1> DEFINE kind == KindOf(t)
           key  == regenerating[t].key
<1>0. UNCHANGED <<pendingKey, drawn, answered>> /\ regenerating[t].at = "sent"
  BY DEF BeginRegeneration
<1>1. kind \in RequestKinds /\ key \in 1..MaxKeys /\ key = pendingKey[kind]
  BY <1>0, RequestKeys DEF KeyInv, SentKeyIsPending
<1>2. CASE record' = record /\ \/ regenerating' = Answer(regenerating, t, "refused")
                               \/ /\ record[kind][key] = "done"
                                  /\ regenerating' = Answer(regenerating, t, "ok")
  <2>1. PICK how \in {"refused", "ok"} :
          /\ regenerating' = Answer(regenerating, t, how)
          /\ how = "ok" => record[kind][key] = "done"
    BY <1>2
  <2>2. /\ \A u \in Tabs : /\ KindOf(u)' = KindOf(u)
                           /\ regenerating'[u].key = regenerating[u].key
                           /\ u # t => regenerating'[u] = regenerating[u]
        /\ regenerating'[t].at = how
    BY <2>1, AnswerKeeps DEF KeyInv
  <2>3. \A k \in RequestKinds : Done(k)' = Done(k)
    BY <1>2 DEF Done
  <2>4. SentKeyIsPending'
    BY <1>0, <2>2 DEF KeyInv, SentKeyIsPending
  <2>5. GoodAnswerIsTrue'
    BY <1>2, <2>1, <2>2 DEF KeyInv, GoodAnswerIsTrue
  <2>6. UsedKeysAreDrawn' /\ WorkingKeyIsPending' /\ OthersAreAnswered'
    BY <1>0, <1>2, <2>3 DEF KeyInv, UsedKeysAreDrawn, WorkingKeyIsPending,
                            OthersAreAnswered
  <2> QED BY <2>4, <2>5, <2>6 DEF KeyInv
<1>3. CASE /\ record[kind][key] = "none"
           /\ record' = [record EXCEPT ![kind][key] = "pending"]
           /\ regenerating' = Answer(regenerating, t, "working")
  <2>1. UsedKeysAreDrawn' /\ WorkingKeyIsPending' /\ OthersAreAnswered'
    BY <1>0, <1>1, <1>3, RecordKeeps
  <2>2. /\ \A u \in Tabs : /\ KindOf(u)' = KindOf(u)
                           /\ regenerating'[u].key = regenerating[u].key
                           /\ u # t => regenerating'[u] = regenerating[u]
        /\ regenerating'[t].at = "working"
    BY <1>3, AnswerKeeps DEF KeyInv
  <2>3. SentKeyIsPending'
    BY <1>0, <2>2 DEF KeyInv, SentKeyIsPending
  <2>4. GoodAnswerIsTrue'
    <3>1. ASSUME NEW u \in Tabs, regenerating'[u].at = "ok"
          PROVE  record'[KindOf(u)'][regenerating'[u].key] = "done"
      <4>1. u # t /\ regenerating'[u] = regenerating[u] /\ KindOf(u)' = KindOf(u)
        BY <2>2, <3>1
      <4>2. KindOf(u) # kind /\ KindOf(u) \in RequestKinds
        BY <4>1, RequestKeys DEF KindOf
      <4>3. record'[KindOf(u)] = record[KindOf(u)]
        BY <1>3, <4>2 DEF KeyInv, ReviewTypeOK
      <4> QED BY <3>1, <4>1, <4>3 DEF KeyInv, GoodAnswerIsTrue
    <3> QED BY <3>1 DEF GoodAnswerIsTrue
  <2> QED BY <2>1, <2>3, <2>4 DEF KeyInv
<1> QED
  BY <1>2, <1>3 DEF BeginRegeneration, KindOf

LEMMA EndKeeps ==
  ASSUME KeyInv, ReviewTypeOK', NEW t \in Tabs, NEW g \in Targets,
         NEW n \in 1..MaxKeys,
         EndRegeneration(t, g, n) \/ FailRegeneration(t, g, n)
  PROVE  KeyInv'
<1> DEFINE kind == <<t, g>>
<1>0. UNCHANGED <<pendingKey, drawn, answered>> /\ record[kind][n] = "pending"
  BY DEF EndRegeneration, FailRegeneration
<1>1. kind \in RequestKinds /\ n = pendingKey[kind]
  BY <1>0 DEF RequestKinds, KeyInv, WorkingKeyIsPending
<1>2. PICK how \in {"none", "done"}, said \in {"refused", "ok"} :
        /\ record' = [record EXCEPT ![kind][n] = how]
        /\ said = "ok" => how = "done"
        /\ Tell(t, g, n, said)
  BY DEF EndRegeneration, FailRegeneration
<1>3. UsedKeysAreDrawn' /\ WorkingKeyIsPending' /\ OthersAreAnswered'
  BY <1>0, <1>1, <1>2, RecordKeeps
<1>4. /\ record'[kind][n] = how
      /\ \A k \in RequestKinds, m \in 1..MaxKeys :
           k # kind \/ m # n => record'[k][m] = record[k][m]
  BY <1>1, <1>2 DEF KeyInv, ReviewTypeOK
<1>5. \A k \in RequestKinds, m \in 1..MaxKeys :
        record[k][m] = "done" => record'[k][m] = "done"
  BY <1>0, <1>4
<1>6. CASE UNCHANGED regenerating
  <2>1. SentKeyIsPending'
    BY <1>0, <1>6 DEF KeyInv, SentKeyIsPending, KindOf
  <2>2. GoodAnswerIsTrue'
    BY <1>5, <1>6, RequestKeys DEF KeyInv, GoodAnswerIsTrue, KindOf
  <2> QED BY <1>3, <2>1, <2>2 DEF KeyInv
<1>7. CASE /\ regenerating[t].at = "working" /\ KindOf(t) = kind
           /\ regenerating[t].key = n
           /\ regenerating' = Answer(regenerating, t, said)
  <2>1. /\ \A u \in Tabs : /\ KindOf(u)' = KindOf(u)
                           /\ regenerating'[u].key = regenerating[u].key
                           /\ u # t => regenerating'[u] = regenerating[u]
        /\ regenerating'[t].at = said
    BY <1>7, AnswerKeeps DEF KeyInv
  <2>2. SentKeyIsPending'
    BY <1>0, <1>7, <2>1 DEF KeyInv, SentKeyIsPending
  <2>3. GoodAnswerIsTrue'
    <3>1. ASSUME NEW u \in Tabs, regenerating'[u].at = "ok"
          PROVE  record'[KindOf(u)'][regenerating'[u].key] = "done"
      <4>1. CASE u = t
        BY <4>1, <3>1, <1>2, <1>4, <1>7, <2>1
      <4>2. CASE u # t
        BY <4>2, <3>1, <1>5, <2>1, RequestKeys DEF KeyInv, GoodAnswerIsTrue
      <4> QED BY <4>1, <4>2
    <3> QED BY <3>1 DEF GoodAnswerIsTrue
  <2> QED BY <1>3, <2>2, <2>3 DEF KeyInv
<1> QED
  BY <1>2, <1>6, <1>7 DEF Tell, KindOf

LEMMA RegeneratedKeeps ==
  ASSUME KeyInv, ReviewTypeOK', NEW t \in Tabs, Regenerated(t)
  PROVE  KeyInv'
<1> DEFINE kind == KindOf(t)
           key  == regenerating[t].key
<1>1. /\ kind \in RequestKinds /\ key \in 1..MaxKeys /\ key = pendingKey[kind]
      /\ record[kind][key] = "done"
  BY RequestKeys DEF Regenerated, KeyInv, SentKeyIsPending, GoodAnswerIsTrue
<1>2. /\ pendingKey' = [pendingKey EXCEPT ![kind] = 0]
      /\ answered' = [answered EXCEPT ![kind] = answered[kind] + 1]
      /\ regenerating' = [regenerating EXCEPT ![t] = Idle]
      /\ UNCHANGED <<record, drawn>>
  BY DEF Regenerated, server, KindOf
<1>3. /\ pendingKey'[kind] = 0 /\ answered'[kind] = answered[kind] + 1
      /\ \A k \in RequestKinds : k # kind => /\ pendingKey'[k] = pendingKey[k]
                                             /\ answered'[k] = answered[k]
  BY <1>1, <1>2 DEF KeyInv, ReviewTypeOK
<1>4. /\ regenerating'[t].at = "idle"
      /\ \A u \in Tabs : u # t => /\ regenerating'[u] = regenerating[u]
                                  /\ KindOf(u)' = KindOf(u)
                                  /\ KindOf(u) # kind
  BY <1>2 DEF KeyInv, ReviewTypeOK, Idle, KindOf
<1>5. SentKeyIsPending' /\ GoodAnswerIsTrue'
  BY <1>2, <1>3, <1>4, RequestKeys DEF KeyInv, SentKeyIsPending, GoodAnswerIsTrue
<1>6. UsedKeysAreDrawn'
  <2>1. \A k \in RequestKinds : drawn[k] \in 0..MaxKeys
    BY DEF KeyInv, ReviewTypeOK
  <2> QED BY <2>1, <1>2, <1>3 DEF KeyInv, UsedKeysAreDrawn
<1>7. WorkingKeyIsPending'
  BY <1>1, <1>2, <1>3 DEF KeyInv, WorkingKeyIsPending
<1>8. OthersAreAnswered'
  <2>1. ASSUME NEW k \in RequestKinds
        PROVE  Cardinality(Done(k)' \ {pendingKey'[k]}) <= answered'[k]
    <3>1. Done(k)' = Done(k)
      BY <1>2 DEF Done
    <3>2. Cardinality(Done(k) \ {pendingKey[k]}) <= answered[k]
      BY DEF KeyInv, OthersAreAnswered
    <3>3. CASE k = kind
      <4>1. Done(k)' \ {pendingKey'[k]} = Done(k)
        BY <3>1, <3>3, <1>3 DEF Done
      <4>2. answered[k] \in Nat
        BY DEF KeyInv, ReviewTypeOK
      <4>3. /\ Cardinality(Done(k)) \in Nat
            /\ Cardinality(Done(k) \ {pendingKey[k]}) \in Nat
            /\ Cardinality(Done(k)) <= Cardinality(Done(k) \ {pendingKey[k]}) + 1
        BY DoneIsFinite
      <4>4. Cardinality(Done(k)) <= answered[k] + 1
        BY <4>2, <4>3, <3>2
      <4>5. answered'[k] = answered[k] + 1
        BY <3>3, <1>3
      <4> QED BY <4>1, <4>4, <4>5
    <3>4. CASE k # kind
      BY <3>1, <3>2, <3>4, <1>3
    <3> QED BY <3>3, <3>4
  <2> QED BY <2>1 DEF OthersAreAnswered
<1> QED BY <1>5, <1>6, <1>7, <1>8 DEF KeyInv

LEMMA NextKeys == KeyInv /\ [ReviewNext]_reviewVars => KeyInv'
<1> SUFFICES ASSUME KeyInv, [ReviewNext]_reviewVars PROVE KeyInv'
  OBVIOUS
<1>0. ReviewTypeOK'
  BY NextReviewTypes DEF KeyInv
<1>1. ASSUME NEW t \in Tabs, ShowError(t) \/ Lose(t) PROVE KeyInv'
  <2>1. /\ UNCHANGED <<record, pendingKey, drawn, answered>>
        /\ \/ regenerating' = regenerating
           \/ regenerating' = [regenerating EXCEPT ![t] = Idle]
    BY <1>1 DEF ShowError, Lose, server
  <2> QED BY <1>0, <2>1, ForgetKeeps
<1>2. ASSUME NEW t \in Tabs,
             \/ Show(t) \/ Type(t) \/ Tick(t) \/ Save(t) \/ ClickApprove(t)
             \/ ServeFetch(t) \/ ServeSave(t) \/ ServeApprove(t) \/ Succeed(t)
      PROVE  KeyInv'
  <2>1. UNCHANGED <<record, pendingKey, drawn, answered, regenerating>>
    BY <1>2 DEF Show, Type, Tick, Save, ClickApprove, ServeFetch, ServeSave,
                ServeApprove, Succeed, server, requests
  <2> QED BY <1>0, <2>1, ForgetKeeps
<1>3. CASE UNCHANGED reviewVars
  <2>1. UNCHANGED <<record, pendingKey, drawn, answered, regenerating>>
    BY <1>3 DEF reviewVars, server, requests
  <2>2. \A k \in RequestKinds : Done(k)' = Done(k)
    BY <2>1 DEF Done
  <2> QED
    BY <1>0, <2>1, <2>2 DEF KeyInv, SentKeyIsPending, GoodAnswerIsTrue, KindOf,
         UsedKeysAreDrawn, WorkingKeyIsPending, OthersAreAnswered
<1> QED
  BY <1>0, <1>1, <1>2, <1>3, RegenerateKeeps, BeginKeeps, EndKeeps,
     RegeneratedKeeps DEF ReviewNext

\* However answers are lost and buttons pressed again, a tab does not know of at
\* most one generation that ended, for any tabs, clicks, keys and losses.
THEOREM OneGeneration == ReviewSpec => []OneGenerationPerWish
<1>1. KeyInv => OneGenerationPerWish
  <2> SUFFICES ASSUME KeyInv, NEW k \in RequestKinds
               PROVE  Cardinality(Done(k)) <= answered[k] + 1
    BY DEF OneGenerationPerWish, Done
  <2>1. Cardinality(Done(k) \ {pendingKey[k]}) <= answered[k] /\ answered[k] \in Nat
    BY DEF KeyInv, OthersAreAnswered, ReviewTypeOK
  <2>2. /\ Cardinality(Done(k)) \in Nat
        /\ Cardinality(Done(k) \ {pendingKey[k]}) \in Nat
        /\ Cardinality(Done(k)) <= Cardinality(Done(k) \ {pendingKey[k]}) + 1
    BY DoneIsFinite
  <2> QED BY <2>1, <2>2
<1>2. ReviewSpec => []KeyInv
  BY InitKeys, NextKeys, PTL DEF ReviewSpec
<1> QED BY <1>1, <1>2, PTL

-----------------------------------------------------------------------------
(* Stored resumes: types.                                                  *)

LEMMA InitStorageTypes == StorageInit => StorageTypeOK
BY StorageConstants DEF StorageInit, StorageTypeOK, Upload

LEMMA DeleteRecordTypes ==
  ASSUME StorageTypeOK, NEW f \in Files, DeleteRecord(f)
  PROVE  row' \subseteq Files /\ stored' \in [resumes: Nat, bytes: Nat]
<1>1. stored.resumes \in Nat /\ stored.bytes \in Nat /\ Size[f] \in Nat
  BY StorageConstants DEF StorageTypeOK
<1>2. Released(f) \in [resumes: Nat, bytes: Nat]
  BY <1>1 DEF Released
<1> QED BY <1>2 DEF DeleteRecord, StorageTypeOK

LEMMA NextStorageTypes ==
  StorageTypeOK /\ [StorageNext]_storageVars => StorageTypeOK'
<1> SUFFICES ASSUME StorageTypeOK, [StorageNext]_storageVars PROVE StorageTypeOK'
  OBVIOUS
<1> USE StorageConstants DEF StorageTypeOK, others
<1>1. ASSUME NEW f \in Files, BeginUpload(f) \/ Clean(f) \/ Enqueue(f) \/ Put(f)
      PROVE  StorageTypeOK'
  BY <1>1 DEF BeginUpload, Clean, Enqueue, Put, StepTo, Upload
<1>2. ASSUME NEW f \in Files, Create(f) PROVE StorageTypeOK'
  <2>1. [resumes |-> stored.resumes + 1, bytes |-> stored.bytes + Size[f]]
           \in [resumes: Nat, bytes: Nat]
    OBVIOUS
  <2>2. row' \subseteq Files /\ stored' \in [resumes: Nat, bytes: Nat]
    BY <1>2, <2>1 DEF Create
  <2>3. upload' \in [Files -> Upload]
    BY <1>2 DEF Create, StepTo, Upload
  <2> QED BY <1>2, <2>2, <2>3 DEF Create
<1>3. ASSUME NEW f \in Files, CreateFails(f) \/ EnqueueFails(f) PROVE StorageTypeOK'
  BY <1>3 DEF CreateFails, EnqueueFails, StepTo, Upload, Fault
<1>4. ASSUME NEW f \in Files, UndoRow(f) PROVE StorageTypeOK'
  <2>1. row' \subseteq Files /\ stored' \in [resumes: Nat, bytes: Nat]
    BY <1>4, DeleteRecordTypes DEF UndoRow
  <2> QED BY <1>4, <2>1 DEF UndoRow, StepTo, Upload
<1>5. ASSUME NEW f \in Files, UndoObject(f) PROVE StorageTypeOK'
  BY <1>5 DEF UndoObject, StepTo, Upload
<1>6. ASSUME NEW f \in Files, UploadFails(f) PROVE StorageTypeOK'
  <2>1. object' \subseteq Files
    BY <1>6 DEF UploadFails
  <2>2. upload' \in [Files -> Upload]
    BY <1>6 DEF UploadFails, StepTo, Upload
  <2> QED BY <1>6, <2>1, <2>2 DEF UploadFails, Fault
<1>7. ASSUME NEW f \in Files, Parse(f) PROVE StorageTypeOK'
  BY <1>7 DEF Parse
<1>8. ASSUME NEW f \in Files, DeleteFile(f) PROVE StorageTypeOK'
  BY <1>8 DEF DeleteFile
<1>9. ASSUME NEW d \in Deletions, DeletionNext(d) PROVE StorageTypeOK'
  <2>0. deletion[d] \in [pc: {"new", "object", "row", "done"},
                         file: Files \cup {NoFile}]
    OBVIOUS
  <2>1. CASE ReadResume(d)
    BY <2>1 DEF ReadResume
  <2>2. CASE DeleteObject(d)
    BY <2>0, <2>2 DEF DeleteObject
  <2>3. CASE DeleteResume(d)
    <3>1. row' \subseteq Files /\ stored' \in [resumes: Nat, bytes: Nat]
      <4>1. CASE Found(deletion[d].file)
        <5>1. deletion[d].file \in Files
          BY <4>1 DEF Found
        <5> QED BY <5>1, <2>3, DeleteRecordTypes DEF DeleteResume
      <4>2. CASE ~Found(deletion[d].file)
        BY <2>3, <4>2 DEF DeleteResume, DeleteRecord
      <4> QED BY <4>1, <4>2
    <3> QED BY <2>0, <2>3, <3>1 DEF DeleteResume
  <2>4. CASE DeletionFails(d)
    BY <2>0, <2>4 DEF DeletionFails, Fault
  <2> QED BY <1>9, <2>1, <2>2, <2>3, <2>4 DEF DeletionNext
<1>10. CASE ReadAccount \/ DeleteUser \/ ClosingFails \/ Consent
  BY <1>10 DEF ReadAccount, DeleteUser, ClosingFails, Consent, Fault
<1>11. CASE UNCHANGED storageVars
  BY <1>11 DEF storageVars
<1> QED
  BY <1>1, <1>2, <1>3, <1>4, <1>5, <1>6, <1>7, <1>8, <1>9, <1>10, <1>11
     DEF StorageNext, UploadNext

\* Rows, counters, files, jobs and calls keep their types, for any files, sizes,
\* deletions, limits and faults.
THEOREM StorageTypes == StorageSpec => []StorageTypeOK
BY InitStorageTypes, NextStorageTypes, PTL DEF StorageSpec

-----------------------------------------------------------------------------
(* Stored resumes: a listed resume has its file.                           *)

\* An upload that has no row yet ...
Early(f) == upload[f] \in {"new", "put", "create", "clean"}

\* ... was not read by anything that deletes what it has read ...
EarlyIsUnknown ==
  \A f \in Files : Early(f) => /\ f \notin row /\ f \notin closing.left
                               /\ \A d \in Deletions : deletion[d].file # f

\* ... and has its file when its row is about to be created.
CreatedHasFile == \A f \in Files : AtStep(f, "create") => f \in object

\* A deletion reads one row, and remembers it.
UnreadHasNoFile ==
  \A d \in Deletions : deletion[d].pc = "new" => deletion[d].file = NoFile

ListedInv == /\ StorageTypeOK /\ EarlyIsUnknown /\ CreatedHasFile
             /\ UnreadHasNoFile /\ ListedHasFile

LEMMA InitListed == StorageInit => ListedInv
<1> SUFFICES ASSUME StorageInit PROVE ListedInv
  OBVIOUS
<1>1. StorageTypeOK
  BY InitStorageTypes
<1> QED
  BY <1>1, StorageConstants
     DEF StorageInit, ListedInv, EarlyIsUnknown, Early, CreatedHasFile, AtStep,
         UnreadHasNoFile, ListedHasFile

LEMMA UploadListed ==
  ASSUME ListedInv, StorageTypeOK', NEW f \in Files, UploadNext(f)
  PROVE  ListedInv'
<1> USE DEF ListedInv, EarlyIsUnknown, Early, CreatedHasFile, UnreadHasNoFile,
            ListedHasFile, Deleting, StorageTypeOK, AtStep, others
<1>1. CASE BeginUpload(f) \/ Put(f) \/ CreateFails(f) \/ Enqueue(f) \/ EnqueueFails(f)
  BY <1>1 DEF BeginUpload, Put, CreateFails, Enqueue, EnqueueFails, StepTo
<1>2. CASE Create(f)
  BY <1>2 DEF Create, StepTo
<1>3. CASE Clean(f) \/ UndoObject(f)
  BY <1>3 DEF Clean, UndoObject, StepTo
<1>4. CASE UndoRow(f)
  BY <1>4 DEF UndoRow, DeleteRecord, StepTo
<1>5. CASE UploadFails(f)
  <2>1. object \subseteq object'
    BY <1>5 DEF UploadFails
  <2>2. PICK pc \in {"failed", "undo_row", "undo_object"} :
          /\ upload' = [upload EXCEPT ![f] = pc]
          /\ upload[f] \in {"undo_row", "failed"} => pc = "failed"
    BY <1>5 DEF UploadFails, StepTo
  <2> QED BY <1>5, <2>1, <2>2 DEF UploadFails
<1>6. CASE Parse(f)
  BY <1>6 DEF Parse
<1>7. CASE DeleteFile(f)
  BY <1>7 DEF DeleteFile
<1> QED
  BY <1>1, <1>2, <1>3, <1>4, <1>5, <1>6, <1>7 DEF UploadNext

LEMMA DeletionListed ==
  ASSUME ListedInv, StorageTypeOK', NEW d \in Deletions, DeletionNext(d)
  PROVE  ListedInv'
<1> USE DEF ListedInv, EarlyIsUnknown, Early, CreatedHasFile, UnreadHasNoFile,
            ListedHasFile, Deleting, StorageTypeOK, AtStep
<1>1. CASE ReadResume(d)
  <2>1. PICK f \in row :
          deletion' = [deletion EXCEPT ![d] = [pc |-> "object", file |-> f]]
    BY <1>1 DEF ReadResume
  <2>2. \A g \in Files : deletion[d].file # g
    BY <1>1, StorageConstants DEF ReadResume
  <2> QED BY <1>1, <2>1, <2>2 DEF ReadResume
<1>2. \A c \in Deletions : DeletionNext(d) /\ ~ReadResume(d) =>
        /\ deletion'[c].file = deletion[c].file
        /\ deletion'[c].pc = "new" => deletion[c].pc = "new"
  BY DEF DeletionNext, DeleteObject, DeleteResume, DeletionFails
<1>3. CASE DeleteObject(d)
  BY <1>2, <1>3 DEF DeleteObject, ReadResume
<1>4. CASE DeleteResume(d)
  BY <1>2, <1>4 DEF DeleteResume, DeleteRecord, ReadResume
<1>5. CASE DeletionFails(d)
  BY <1>2, <1>5 DEF DeletionFails, ReadResume
<1> QED
  BY <1>1, <1>3, <1>4, <1>5 DEF DeletionNext

LEMMA NextListed == ListedInv /\ [StorageNext]_storageVars => ListedInv'
<1> SUFFICES ASSUME ListedInv, [StorageNext]_storageVars PROVE ListedInv'
  OBVIOUS
<1>1. StorageTypeOK'
  BY NextStorageTypes DEF ListedInv
<1>2. CASE ReadAccount \/ DeleteUser \/ ClosingFails \/ Consent \/ UNCHANGED storageVars
  BY <1>1, <1>2 DEF ReadAccount, DeleteUser, ClosingFails, Consent, storageVars,
     ListedInv, EarlyIsUnknown, Early, CreatedHasFile, UnreadHasNoFile,
     ListedHasFile, Deleting, StorageTypeOK, AtStep, others
<1> QED
  BY <1>1, <1>2, UploadListed, DeletionListed DEF StorageNext

\* A resume that is listed has its file unless it is being deleted, for any
\* files, deletions, limits and faults.
THEOREM ListedResumesHaveFiles == StorageSpec => []ListedHasFile
<1>1. StorageSpec => []ListedInv
  BY InitListed, NextListed, PTL DEF StorageSpec
<1> QED BY <1>1, PTL DEF ListedInv

-----------------------------------------------------------------------------
(* Stored resumes: the counters of the plan.                               *)

BytesAreFinite == IsFiniteSet(Bytes(row))

UsageInv == ListedInv /\ UsageMatchesRows /\ BytesAreFinite

LEMMA RowsAreFinite ==
  ASSUME StorageTypeOK
  PROVE  IsFiniteSet(row) /\ Cardinality(row) \in Nat
<1>1. IsFiniteSet(row)
  BY FS_Subset, StorageConstants DEF StorageTypeOK
<1> QED BY <1>1, FS_CardinalityType

\* A file adds its size to the bytes of others.
LEMMA BytesAdd ==
  ASSUME NEW files \in SUBSET Files, IsFiniteSet(Bytes(files)),
         NEW f \in Files \ files
  PROVE  /\ IsFiniteSet(Bytes(files \cup {f}))
         /\ Cardinality(Bytes(files)) \in Nat
         /\ Cardinality(Bytes(files \cup {f}))
              = Cardinality(Bytes(files)) + Size[f]
<1> DEFINE own == {f} \X (1..Size[f])
<1>1. Size[f] \in Nat
  BY StorageConstants
<1>2. IsFiniteSet(1..Size[f]) /\ Cardinality(1..Size[f]) = Size[f]
  BY <1>1, FS_Interval
<1>3. IsFiniteSet({f}) /\ Cardinality({f}) = 1
  BY FS_Singleton
<1>4. IsFiniteSet(own) /\ Cardinality(own) = Size[f]
  <2>1. IsFiniteSet(own) /\ Cardinality(own) = 1 * Size[f]
    BY <1>2, <1>3, FS_Product, Zenon
  <2> QED BY <1>1, <2>1
<1>5. Bytes(files \cup {f}) = Bytes(files) \cup own
  BY DEF Bytes
<1>6. Bytes(files) \cap own = {}
  BY DEF Bytes
<1> HIDE DEF own
<1>7. Cardinality(Bytes(files)) \in Nat
  BY FS_CardinalityType
<1>8. /\ IsFiniteSet(Bytes(files) \cup own)
      /\ Cardinality(Bytes(files) \cup own)
           = Cardinality(Bytes(files)) + Cardinality(own) - Cardinality({})
  BY <1>4, <1>6, FS_Union, Zenon
<1>9. Cardinality({}) = 0
  BY FS_EmptySet
<1>10. /\ IsFiniteSet(Bytes(files \cup {f}))
       /\ Cardinality(Bytes(files \cup {f}))
            = Cardinality(Bytes(files)) + Size[f] - 0
  BY <1>4, <1>5, <1>8, <1>9, Zenon
<1> QED
  BY <1>1, <1>7, <1>10

\* A deletion takes what its row has brought.
LEMMA ReleaseCounts ==
  ASSUME UsageInv, NEW f, f \in Files \cup {NoFile}, DeleteRecord(f)
  PROVE  UsageMatchesRows' /\ BytesAreFinite'
<1>0. /\ StorageTypeOK /\ stored.resumes = Cardinality(row) /\ StaysInPlan
      /\ stored.bytes = Cardinality(Bytes(row)) /\ IsFiniteSet(Bytes(row))
  BY DEF UsageInv, ListedInv, UsageMatchesRows, ResumesMatchRows,
     BytesMatchRows, BytesAreFinite
<1>1. CASE f \in row
  <2>1. f \in Files /\ Size[f] \in Nat /\ stored.bytes \in Nat
    BY <1>0, <1>1, StorageConstants DEF StorageTypeOK
  <2>2. /\ Cardinality(row \ {f}) = Cardinality(row) - 1
        /\ Cardinality(row \ {f}) \in Nat
    <3>1. IsFiniteSet(row) /\ IsFiniteSet(row \ {f})
      BY <1>0, RowsAreFinite, FS_RemoveElement
    <3> QED BY <1>1, <3>1, FS_RemoveElement, FS_CardinalityType
  <2>3. row' = row \ {f} /\ stored' = Released(f)
    BY <1>1 DEF DeleteRecord, Found
  <2>4. /\ IsFiniteSet(Bytes(row \ {f}))
        /\ Cardinality(Bytes(row \ {f})) \in Nat
        /\ Cardinality(Bytes(row)) = Cardinality(Bytes(row \ {f})) + Size[f]
    <3>1. row \ {f} \in SUBSET Files /\ f \in Files \ (row \ {f})
          /\ (row \ {f}) \cup {f} = row
      BY <1>0, <1>1, <2>1 DEF StorageTypeOK
    <3>2. IsFiniteSet(Bytes(row \ {f}))
      <4>1. Bytes(row \ {f}) \subseteq Bytes(row)
        BY DEF Bytes
      <4> QED BY <1>0, <4>1, FS_Subset
    <3> QED BY <3>1, <3>2, BytesAdd
  <2>5. /\ stored'.resumes = Cardinality(row')
        /\ stored'.resumes = stored.resumes - 1
    BY <1>0, <2>2, <2>3, RowsAreFinite DEF Released
  <2>6. stored'.bytes = Cardinality(Bytes(row \ {f})) /\ stored'.bytes <= stored.bytes
    BY <1>0, <2>1, <2>3, <2>4 DEF Released
  <2>7. MaxResumes \in Nat /\ MaxBytes \in Nat /\ Cardinality(row) \in Nat
    BY <1>0, StorageConstants, RowsAreFinite
  <2>8. StaysInPlan'
    BY <1>0, <2>1, <2>2, <2>4, <2>5, <2>6, <2>7 DEF StaysInPlan
  <2> QED
    BY <2>3, <2>4, <2>5, <2>6, <2>8 DEF UsageMatchesRows, ResumesMatchRows,
       BytesMatchRows, BytesAreFinite
<1>2. CASE f \notin row
  BY <1>0, <1>2 DEF DeleteRecord, Found, UsageMatchesRows, ResumesMatchRows,
     BytesMatchRows, BytesAreFinite, StaysInPlan
<1> QED BY <1>1, <1>2

LEMMA NextUsage == UsageInv /\ [StorageNext]_storageVars => UsageInv'
<1> SUFFICES ASSUME UsageInv, [StorageNext]_storageVars
             PROVE  UsageMatchesRows' /\ BytesAreFinite'
  BY NextListed DEF UsageInv
<1>0. StorageTypeOK /\ EarlyIsUnknown /\ UsageMatchesRows /\ BytesAreFinite
  BY DEF UsageInv, ListedInv
<1>1. ASSUME UNCHANGED <<row, stored>> PROVE UsageMatchesRows' /\ BytesAreFinite'
  BY <1>0, <1>1 DEF UsageMatchesRows, ResumesMatchRows, BytesMatchRows,
     BytesAreFinite, StaysInPlan
<1>2. ASSUME NEW f \in Files, Create(f)
      PROVE  UsageMatchesRows' /\ BytesAreFinite'
  <2>1. CASE account # "gone" /\ HasRoom(f)
    <3>1. row' = row \cup {f} /\ f \notin row
      BY <1>0, <1>2, <2>1 DEF Create, EarlyIsUnknown, Early, AtStep
    <3>2. Cardinality(row') = Cardinality(row) + 1
      BY <1>0, <3>1, RowsAreFinite, FS_AddElement
    <3>3. /\ stored'.resumes = stored.resumes + 1
          /\ stored'.bytes = stored.bytes + Size[f]
      BY <1>2, <2>1 DEF Create
    <3>4. /\ IsFiniteSet(Bytes(row'))
          /\ Cardinality(Bytes(row')) = Cardinality(Bytes(row)) + Size[f]
      BY <1>0, <3>1, BytesAdd DEF StorageTypeOK, BytesAreFinite
    <3> QED
      BY <1>0, <2>1, <3>2, <3>3, <3>4 DEF HasRoom, UsageMatchesRows,
         ResumesMatchRows, BytesMatchRows, BytesAreFinite, StaysInPlan
  <2>2. CASE ~(account # "gone" /\ HasRoom(f))
    BY <1>1, <1>2, <2>2 DEF Create
  <2> QED BY <2>1, <2>2
<1>3. ASSUME NEW f \in Files, UndoRow(f)
      PROVE  UsageMatchesRows' /\ BytesAreFinite'
  BY <1>3, ReleaseCounts DEF UndoRow
<1>4. ASSUME NEW d \in Deletions, DeleteResume(d)
      PROVE  UsageMatchesRows' /\ BytesAreFinite'
  <2>1. deletion[d].file \in Files \cup {NoFile}
    BY <1>0 DEF StorageTypeOK
  <2> QED BY <1>4, <2>1, ReleaseCounts DEF DeleteResume
<1>5. CASE DeleteUser
  <2>1. row' = {} /\ stored' = [resumes |-> 0, bytes |-> 0]
    BY <1>5 DEF DeleteUser
  <2>2. Bytes(row') = {}
    BY <2>1 DEF Bytes
  <2> QED
    BY <2>1, <2>2, FS_EmptySet, StorageConstants DEF UsageMatchesRows,
       ResumesMatchRows, BytesMatchRows, BytesAreFinite, StaysInPlan
<1>6. ASSUME NEW f \in Files,
             \/ BeginUpload(f) \/ Put(f) \/ CreateFails(f) \/ Clean(f) \/ Enqueue(f)
             \/ EnqueueFails(f) \/ UndoObject(f) \/ UploadFails(f) \/ Parse(f)
             \/ DeleteFile(f)
      PROVE  UsageMatchesRows' /\ BytesAreFinite'
  BY <1>1, <1>6 DEF BeginUpload, Put, CreateFails, Clean, Enqueue, EnqueueFails,
     UndoObject, UploadFails, Parse, DeleteFile
<1>7. ASSUME NEW d \in Deletions, ReadResume(d) \/ DeleteObject(d) \/ DeletionFails(d)
      PROVE  UsageMatchesRows' /\ BytesAreFinite'
  BY <1>1, <1>7 DEF ReadResume, DeleteObject, DeletionFails
<1>8. CASE ReadAccount \/ ClosingFails \/ Consent \/ UNCHANGED storageVars
  BY <1>1, <1>8 DEF ReadAccount, ClosingFails, Consent, storageVars
<1> QED
  BY <1>2, <1>3, <1>4, <1>5, <1>6, <1>7, <1>8 DEF StorageNext, UploadNext,
     DeletionNext

\* The counters are the number of the rows and the bytes of their files, and
\* neither leaves the plan (UsageMatchesRows), for any files, sizes, deletions,
\* limits and faults.
THEOREM UsageCountsRows == StorageSpec => []UsageMatchesRows
<1>1. StorageInit => UsageMatchesRows /\ BytesAreFinite
  <2> SUFFICES ASSUME StorageInit PROVE UsageMatchesRows /\ BytesAreFinite
    OBVIOUS
  <2>1. row = {} /\ stored = [resumes |-> 0, bytes |-> 0]
    BY DEF StorageInit
  <2>2. Bytes(row) = {}
    BY <2>1 DEF Bytes
  <2> QED
    BY <2>1, <2>2, FS_EmptySet, StorageConstants DEF UsageMatchesRows,
       ResumesMatchRows, BytesMatchRows, BytesAreFinite, StaysInPlan
<1>2. StorageSpec => []UsageInv
  BY <1>1, InitListed, NextUsage, PTL DEF StorageSpec, UsageInv
<1> QED BY <1>2, PTL DEF UsageInv

-----------------------------------------------------------------------------
(* The extension: types, and what a message stands for.                    *)

\* A message is for a resume and a posting, and has a key once one was found.
MessagesHaveWishes ==
  \A s \in Sites : message[s].at # "idle" =>
    /\ WishOf(s) \in Wishes
    /\ message[s].at \in {"store", "send", "sent"} => message[s].key \in 1..MaxWishes

WishInv == ExtensionTypeOK /\ MessagesHaveWishes

LEMMA NoCallIsMessage == NoCall \in Message
BY ExtensionConstants DEF NoCall, Message

LEMMA InitWishes == ExtensionInit => WishInv
<1> SUFFICES ASSUME ExtensionInit PROVE WishInv
  OBVIOUS
<1>1. message \in [Sites -> Message] /\ MessagesHaveWishes
  BY NoCallIsMessage DEF ExtensionInit, MessagesHaveWishes, NoCall
<1>2. \A of \in {overlay, filling} : of \in [Sites -> Urls \cup {Nobody}]
  BY DEF ExtensionInit
<1>3. storedKey \in [Wishes -> 0..MaxWishes] /\ keysDrawn \in 0..MaxWishes
      /\ told \in [Wishes -> Nat] /\ stopsLeft \in 0..MaxStops
  BY ExtensionConstants DEF ExtensionInit
<1>4. crossed \in BOOLEAN
  BY DEF ExtensionInit
<1> QED
  BY <1>1, <1>2, <1>3, <1>4 DEF ExtensionInit, WishInv, ExtensionTypeOK, Modes

\* A call of one tab leaves the messages of the others.
LEMMA MessageStep ==
  ASSUME WishInv, NEW s \in Sites, NEW new \in Message,
         message' = [message EXCEPT ![s] = new],
         new.at # "idle" =>
           /\ <<new.resume, new.url>> \in Wishes
           /\ new.at \in {"store", "send", "sent"} => new.key \in 1..MaxWishes
  PROVE  /\ message' \in [Sites -> Message] /\ message'[s] = new
         /\ \A o \in Sites \ {s} : message'[o] = message[o]
         /\ MessagesHaveWishes'
<1>1. /\ message' \in [Sites -> Message] /\ message'[s] = new
      /\ \A o \in Sites \ {s} : message'[o] = message[o]
  BY DEF WishInv, ExtensionTypeOK
<1> QED BY <1>1 DEF WishInv, MessagesHaveWishes, WishOf

\* What each step of handlePrepareApplication makes of its message.
LEMMA PrepareSteps ==
  ASSUME WishInv, NEW s \in Sites
  PROVE  /\ message[s] \in Message
         /\ AskToPrepare(s) => \E new \in Message :
              /\ message' = [message EXCEPT ![s] = new]
              /\ new.at = "capture" /\ <<new.resume, new.url>> \in Wishes
         /\ FindKey(s) => \E new \in Message :
              /\ message' = [message EXCEPT ![s] = new]
              /\ <<new.resume, new.url>> = WishOf(s)
              /\ new.key = KeyFor(WishOf(s)) /\ new.key \in 1..MaxWishes
              /\ \/ new.at = "send" /\ storedKey[WishOf(s)] = new.key
                 \/ new.at = "store" /\ storedKey[WishOf(s)] = 0
         /\ \A at \in {"send", "sent", "answered"} :
              LET new == [message[s] EXCEPT !.at = at]
              IN /\ new \in Message /\ new.at = at /\ new.key = message[s].key
                 /\ <<new.resume, new.url>> = WishOf(s)
                 /\ [message EXCEPT ![s].at = at] = [message EXCEPT ![s] = new]
<1>1. message[s] \in Message
  BY DEF WishInv, ExtensionTypeOK
<1>2. ASSUME AskToPrepare(s)
      PROVE  \E new \in Message :
               /\ message' = [message EXCEPT ![s] = new]
               /\ new.at = "capture" /\ <<new.resume, new.url>> \in Wishes
  <2> DEFINE new == [at |-> "capture", resume |-> settings.resume,
                     url |-> overlay[s], key |-> 0]
  <2>1. settings.resume \in Selectable /\ overlay[s] \in Urls
    BY <1>2 DEF AskToPrepare, WishInv, ExtensionTypeOK
  <2>2. new \in Message /\ <<new.resume, new.url>> \in Wishes /\ new.at = "capture"
    BY <2>1, ExtensionConstants DEF Message, Wishes
  <2>3. message' = [message EXCEPT ![s] = new]
    BY <1>2 DEF AskToPrepare
  <2> QED BY <2>2, <2>3
<1>3. ASSUME FindKey(s)
      PROVE  \E new \in Message :
               /\ message' = [message EXCEPT ![s] = new]
               /\ <<new.resume, new.url>> = WishOf(s)
               /\ new.key = KeyFor(WishOf(s)) /\ new.key \in 1..MaxWishes
               /\ \/ new.at = "send" /\ storedKey[WishOf(s)] = new.key
                  \/ new.at = "store" /\ storedKey[WishOf(s)] = 0
  <2> DEFINE key == KeyFor(WishOf(s))
             at  == IF storedKey[WishOf(s)] = key THEN "send" ELSE "store"
             new == [message[s] EXCEPT !.key = key, !.at = at]
  <2>1. message[s].at = "capture" /\ key <= MaxWishes
    BY <1>3 DEF FindKey
  <2>2. WishOf(s) \in Wishes
    BY <2>1 DEF WishInv, MessagesHaveWishes
  <2>3. storedKey[WishOf(s)] \in 0..MaxWishes /\ keysDrawn \in 0..MaxWishes
    BY <2>2 DEF WishInv, ExtensionTypeOK
  <2>4. key \in 1..MaxWishes
    BY <2>1, <2>3, ExtensionConstants DEF KeyFor
  <2>5. storedKey[WishOf(s)] # key => storedKey[WishOf(s)] = 0
    BY DEF KeyFor
  <2>6. new \in Message /\ new.key = key /\ new.at = at
        /\ new.resume = message[s].resume /\ new.url = message[s].url
    <3>1. at \in {"send", "store"}
      OBVIOUS
    <3> HIDE DEF at, key
    <3>2. key \in 0..MaxWishes
      BY <2>4
    <3> QED BY <1>1, <3>1, <3>2 DEF Message
  <2>7. message' = [message EXCEPT ![s] = new]
    BY <1>1, <1>3 DEF FindKey, Message, WishInv, ExtensionTypeOK
  <2>8. <<new.resume, new.url>> = WishOf(s)
    BY <2>6 DEF WishOf
  <2> HIDE DEF new, key
  <2> QED BY <2>4, <2>5, <2>6, <2>7, <2>8 DEF key
<1>4. ASSUME NEW at \in {"send", "sent", "answered"}
      PROVE  LET new == [message[s] EXCEPT !.at = at]
             IN /\ new \in Message /\ new.at = at /\ new.key = message[s].key
                /\ <<new.resume, new.url>> = WishOf(s)
                /\ [message EXCEPT ![s].at = at] = [message EXCEPT ![s] = new]
  BY <1>1 DEF Message, WishOf
<1> QED BY <1>1, <1>2, <1>3, <1>4

\* What leaves the messages, the keys and the applications as they are.
LEMMA WishesStay ==
  ASSUME WishInv, ExtensionTypeOK', UNCHANGED message
  PROVE  WishInv'
BY DEF WishInv, MessagesHaveWishes, WishOf

LEMMA NextWishes == WishInv /\ [ExtensionNext]_extensionVars => WishInv'
<1> SUFFICES ASSUME WishInv, [ExtensionNext]_extensionVars PROVE WishInv'
  OBVIOUS
<1> USE ExtensionConstants DEF ExtensionTypeOK, tabs, storage, api, seen
<1>0. /\ ExtensionTypeOK
      /\ overlay \in [Sites -> Urls \cup {Nobody}]
      /\ filling \in [Sites -> Urls \cup {Nobody}]
  BY DEF WishInv
<1>1. CASE SaveSettings
  <2>1. settings' \in [resume: Selectable \cup {Nobody}, autofill: Modes]
    BY <1>1 DEF SaveSettings
  <2>2. ExtensionTypeOK'
    BY <1>0, <1>1, <2>1 DEF SaveSettings
  <2> QED BY <1>1, <2>2, WishesStay DEF SaveSettings
<1>2. CASE ApprovePackage
  <2>1. ExtensionTypeOK'
    BY <1>0, <1>2 DEF ApprovePackage
  <2> QED BY <1>2, <2>1, WishesStay DEF ApprovePackage
<1>3. CASE Stop
  <2>1. PICK S \in SUBSET Sites :
          /\ message' = [s \in Sites |-> IF s \in S THEN NoCall ELSE message[s]]
          /\ filling' = [s \in Sites |-> IF s \in S THEN Nobody ELSE filling[s]]
    BY <1>3 DEF Stop
  <2>2. message' \in [Sites -> Message] /\ filling' \in [Sites -> Urls \cup {Nobody}]
    BY <1>0, <2>1, NoCallIsMessage
  <2>3. MessagesHaveWishes'
    BY <2>1 DEF WishInv, MessagesHaveWishes, WishOf, NoCall
  <2>4. ExtensionTypeOK'
    BY <1>0, <1>3, <2>2 DEF Stop
  <2> QED BY <2>3, <2>4 DEF WishInv
<1>4. ASSUME NEW s \in Sites,
             \/ AnalyzePage(s) \/ Load(s) \/ Navigate(s) \/ AskToFill(s)
             \/ Fill(s) \/ FillFails(s)
      PROVE  WishInv'
  <2>1. /\ url' \in [Sites -> Urls] /\ overlay' \in [Sites -> Urls \cup {Nobody}]
        /\ filling' \in [Sites -> Urls \cup {Nobody}] /\ offered' \subseteq Sites
    <3>1. CASE AnalyzePage(s)
      BY <1>0, <3>1 DEF AnalyzePage
    <3>2. CASE Load(s)
      BY <1>0, <3>2 DEF Load
    <3>3. CASE Navigate(s)
      BY <1>0, <3>3 DEF Navigate
    <3>4. CASE AskToFill(s) \/ Fill(s) \/ FillFails(s)
      BY <1>0, <3>4 DEF AskToFill, Fill, FillFails
    <3> QED BY <1>4, <3>1, <3>2, <3>3, <3>4
  <2>2. filled' \subseteq Modes
    <3>1. settings.autofill \in Modes /\ filled \subseteq Modes
      BY <1>0
    <3>2. filled' = filled \/ filled' = filled \cup {settings.autofill}
      BY <1>4 DEF AnalyzePage, Load, Navigate, AskToFill, Fill, FillFails
    <3> QED BY <3>1, <3>2
  <2>3. UNCHANGED <<message, settings, storedKey, keysDrawn, made, approved, told,
                    crossed, stopsLeft>>
    BY <1>4 DEF AnalyzePage, Load, Navigate, AskToFill, Fill, FillFails
  <2>4. ExtensionTypeOK'
    BY <1>0, <2>1, <2>2, <2>3
  <2> QED BY <2>3, <2>4, WishesStay
<1>5. ASSUME NEW s \in Sites, AskToPrepare(s) PROVE WishInv'
  <2>1. message' \in [Sites -> Message] /\ MessagesHaveWishes'
    <3>1. PICK new \in Message :
            /\ message' = [message EXCEPT ![s] = new]
            /\ new.at = "capture" /\ <<new.resume, new.url>> \in Wishes
      BY <1>5, PrepareSteps
    <3> QED BY <3>1, MessageStep
  <2>2. ExtensionTypeOK'
    BY <1>0, <1>5, <2>1 DEF AskToPrepare
  <2> QED BY <2>1, <2>2 DEF WishInv
<1>6. ASSUME NEW s \in Sites, FindKey(s) PROVE WishInv'
  <2>0. message[s].at = "capture" /\ WishOf(s) \in Wishes
    BY <1>6 DEF FindKey, WishInv, MessagesHaveWishes
  <2>1. PICK new \in Message :
          /\ message' = [message EXCEPT ![s] = new]
          /\ <<new.resume, new.url>> = WishOf(s)
          /\ new.key = KeyFor(WishOf(s)) /\ new.key \in 1..MaxWishes
          /\ \/ new.at = "send" /\ storedKey[WishOf(s)] = new.key
             \/ new.at = "store" /\ storedKey[WishOf(s)] = 0
    BY <1>6, PrepareSteps
  <2>2. message' \in [Sites -> Message] /\ MessagesHaveWishes'
    BY <2>0, <2>1, MessageStep
  <2>3. keysDrawn' \in 0..MaxWishes
    BY <1>0, <1>6, <2>1 DEF FindKey
  <2>4. crossed' \in BOOLEAN
    BY <1>0, <1>6 DEF FindKey
  <2>5. ExtensionTypeOK'
    BY <1>0, <1>6, <2>2, <2>3, <2>4 DEF FindKey
  <2> QED BY <2>2, <2>5 DEF WishInv
<1>7. ASSUME NEW s \in Sites, StoreKey(s) \/ PrepareOnce(s) \/ RemoveKey(s)
      PROVE  WishInv'
  <2>0. WishOf(s) \in Wishes /\ message[s].at \in {"store", "send", "sent"}
        /\ message[s].key \in 1..MaxWishes
    BY <1>7 DEF StoreKey, PrepareOnce, RemoveKey, WishInv, MessagesHaveWishes
  <2>1. PICK at \in {"send", "sent", "answered"} :
          message' = [message EXCEPT ![s].at = at]
    BY <1>7 DEF StoreKey, PrepareOnce, RemoveKey
  <2>2. message' \in [Sites -> Message] /\ MessagesHaveWishes'
    <3> DEFINE new == [message[s] EXCEPT !.at = at]
    <3>1. /\ new \in Message /\ new.at = at /\ new.key = message[s].key
          /\ <<new.resume, new.url>> = WishOf(s)
          /\ message' = [message EXCEPT ![s] = new]
      BY <2>1, PrepareSteps
    <3> HIDE DEF new
    <3> QED BY <2>0, <3>1, MessageStep
  <2>3. /\ storedKey' \in [Wishes -> 0..MaxWishes]
        /\ made' \in [1..MaxWishes -> Wishes \cup {<<Nobody, Nobody>>}]
        /\ told' \in [Wishes -> Nat]
    <3>0. told[WishOf(s)] \in Nat /\ message[s].key \in 0..MaxWishes
      BY <1>0, <2>0
    <3>1. CASE StoreKey(s)
      BY <1>0, <2>0, <3>0, <3>1 DEF StoreKey
    <3>2. CASE PrepareOnce(s)
      BY <1>0, <2>0, <3>0, <3>2 DEF PrepareOnce
    <3>3. CASE RemoveKey(s)
      BY <1>0, <2>0, <3>0, <3>3 DEF RemoveKey
    <3> QED BY <1>7, <3>1, <3>2, <3>3
  <2>4. ExtensionTypeOK'
    BY <1>0, <1>7, <2>2, <2>3 DEF StoreKey, PrepareOnce, RemoveKey
  <2> QED BY <2>2, <2>4 DEF WishInv
<1>8. ASSUME NEW s \in Sites, PrepareFails(s) \/ ShowReview(s) PROVE WishInv'
  <2>1. message' = [message EXCEPT ![s] = NoCall] /\ offered' \subseteq Sites
    BY <1>0, <1>8 DEF PrepareFails, ShowReview
  <2>2. message' \in [Sites -> Message] /\ MessagesHaveWishes'
    BY <2>1, NoCallIsMessage, MessageStep DEF NoCall
  <2>3. ExtensionTypeOK'
    BY <1>0, <1>8, <2>1, <2>2 DEF PrepareFails, ShowReview
  <2> QED BY <2>2, <2>3 DEF WishInv
<1>9. CASE UNCHANGED extensionVars
  <2>1. ExtensionTypeOK'
    BY <1>0, <1>9 DEF extensionVars
  <2> QED BY <1>9, <2>1, WishesStay DEF extensionVars
<1> QED
  BY <1>1, <1>2, <1>3, <1>4, <1>5, <1>6, <1>7, <1>8, <1>9 DEF ExtensionNext

-----------------------------------------------------------------------------
(* The extension: one application for one wish.                            *)

\* The keys that have made an application for a wish, or still may.
KnownKeys(w) ==
  {k \in 1..MaxWishes :
     \/ made[k] = w \/ storedKey[w] = k
     \/ \E s \in Sites : /\ message[s].at \in {"send", "sent"} /\ WishOf(s) = w
                         /\ message[s].key = k}

\* As long as no two calls look for a key of one wish before either stored it,
\* one key at a time is about to be stored, and none is stored yet.
OneToStore ==
  \A s \in Sites : message[s].at = "store" =>
    /\ storedKey[WishOf(s)] = 0
    /\ \A o \in Sites \ {s} : message[o].at = "store" => WishOf(o) # WishOf(s)

\* Every key but the stored one was answered.
OthersAreTold ==
  \A w \in Wishes :
    Cardinality(KnownKeys(w)) <= told[w] + (IF storedKey[w] # 0 THEN 1 ELSE 0)

OnceInv == WishInv /\ (~crossed => OneToStore /\ OthersAreTold)

LEMMA KnownIsFinite ==
  ASSUME NEW S, S \subseteq 1..MaxWishes
  PROVE  IsFiniteSet(S) /\ Cardinality(S) \in Nat
<1>1. IsFiniteSet(1..MaxWishes)
  BY FS_Interval, ExtensionConstants
<1> QED BY <1>1, FS_Subset, FS_CardinalityType

\* Fewer keys, no fewer answers.
LEMMA ToldStays ==
  ASSUME WishInv, OthersAreTold, WishInv',
         \A w \in Wishes :
           /\ KnownKeys(w)' \subseteq KnownKeys(w)
           /\ told[w] + (IF storedKey[w] # 0 THEN 1 ELSE 0)
                <= told'[w] + (IF storedKey'[w] # 0 THEN 1 ELSE 0)
  PROVE  OthersAreTold'
<1> SUFFICES ASSUME NEW w \in Wishes
             PROVE  Cardinality(KnownKeys(w)') <=
                      told'[w] + (IF storedKey'[w] # 0 THEN 1 ELSE 0)
  BY DEF OthersAreTold
<1>1. KnownKeys(w) \subseteq 1..MaxWishes /\ KnownKeys(w)' \subseteq 1..MaxWishes
  BY DEF KnownKeys
<1>2. Cardinality(KnownKeys(w)') <= Cardinality(KnownKeys(w))
  BY <1>1, KnownIsFinite, FS_Subset
<1>3. Cardinality(KnownKeys(w)') \in Nat /\ Cardinality(KnownKeys(w)) \in Nat
  BY <1>1, KnownIsFinite
<1>4. told[w] \in Nat /\ told'[w] \in Nat
  BY DEF WishInv, ExtensionTypeOK
<1>5. Cardinality(KnownKeys(w)) <= told[w] + (IF storedKey[w] # 0 THEN 1 ELSE 0)
  BY DEF OthersAreTold
<1> QED BY <1>2, <1>3, <1>4, <1>5

\* What changes neither keys nor applications, and sends nothing.
LEMMA NothingSent ==
  ASSUME OnceInv, WishInv', UNCHANGED <<storedKey, made, told, crossed>>,
         \A s \in Sites :
           \/ message'[s] = message[s]
           \/ message'[s].at \notin {"store", "send", "sent"}
  PROVE  OnceInv'
<1> SUFFICES ASSUME ~crossed PROVE OneToStore' /\ OthersAreTold'
  BY DEF OnceInv
<1>0. WishInv /\ OneToStore /\ OthersAreTold
  BY DEF OnceInv
<1>1. OneToStore'
  BY <1>0 DEF OneToStore, WishOf
<1>2. \A w \in Wishes : KnownKeys(w)' \subseteq KnownKeys(w)
  BY DEF KnownKeys, WishOf
<1>3. \A w \in Wishes : told[w] \in Nat
  BY <1>0 DEF WishInv, ExtensionTypeOK
<1>4. \A w \in Wishes : told[w] + (IF storedKey[w] # 0 THEN 1 ELSE 0)
                          <= told'[w] + (IF storedKey'[w] # 0 THEN 1 ELSE 0)
  BY <1>3
<1>5. OthersAreTold'
  BY <1>0, <1>2, <1>4, ToldStays
<1> QED BY <1>1, <1>5

LEMMA FindKeeps ==
  ASSUME OnceInv, WishInv', NEW s \in Sites, FindKey(s)
  PROVE  OnceInv'
<1> SUFFICES ASSUME ~crossed' PROVE OneToStore' /\ OthersAreTold'
  BY DEF OnceInv
<1>0. /\ ~crossed /\ WishInv /\ OneToStore /\ OthersAreTold
      /\ \A o \in Sites \ {s} : message[o].at = "store" => WishOf(o) # WishOf(s)
  BY DEF OnceInv, FindKey
<1>1. PICK new \in Message :
        /\ message' = [message EXCEPT ![s] = new]
        /\ <<new.resume, new.url>> = WishOf(s)
        /\ new.key = KeyFor(WishOf(s)) /\ new.key \in 1..MaxWishes
        /\ \/ new.at = "send" /\ storedKey[WishOf(s)] = new.key
           \/ new.at = "store" /\ storedKey[WishOf(s)] = 0
  BY <1>0, PrepareSteps
<1>2. /\ message'[s] = new /\ WishOf(s)' = WishOf(s)
      /\ \A o \in Sites \ {s} : message'[o] = message[o] /\ WishOf(o)' = WishOf(o)
  BY <1>0, <1>1 DEF WishInv, ExtensionTypeOK, WishOf
<1>3. UNCHANGED <<storedKey, made, told>>
  BY DEF FindKey, storage
<1>4. OneToStore'
  BY <1>0, <1>1, <1>2, <1>3 DEF OneToStore
<1>5. ASSUME NEW w \in Wishes PROVE KnownKeys(w)' \subseteq KnownKeys(w)
  BY <1>1, <1>2, <1>3 DEF KnownKeys
<1>6. \A w \in Wishes : told[w] \in Nat
  BY <1>0 DEF WishInv, ExtensionTypeOK
<1>7. \A w \in Wishes : told[w] + (IF storedKey[w] # 0 THEN 1 ELSE 0)
                          <= told'[w] + (IF storedKey'[w] # 0 THEN 1 ELSE 0)
  BY <1>3, <1>6
<1>8. OthersAreTold'
  BY <1>0, <1>5, <1>7, ToldStays
<1> QED BY <1>4, <1>8

\* The three steps that a message with a key takes.
LEMMA KeySteps ==
  ASSUME OnceInv, NEW s \in Sites, StoreKey(s) \/ PrepareOnce(s) \/ RemoveKey(s)
  PROVE  /\ WishOf(s) \in Wishes /\ message[s].key \in 1..MaxWishes
         /\ message'[s].key = message[s].key /\ WishOf(s)' = WishOf(s)
         /\ message'[s].at = IF StoreKey(s) THEN "send"
                             ELSE IF PrepareOnce(s) THEN "sent" ELSE "answered"
         /\ \A o \in Sites \ {s} : message'[o] = message[o] /\ WishOf(o)' = WishOf(o)
<1>1. WishOf(s) \in Wishes /\ message[s].key \in 1..MaxWishes
  BY DEF OnceInv, WishInv, MessagesHaveWishes, StoreKey, PrepareOnce, RemoveKey
<1>2. message[s] \in Message /\ message \in [Sites -> Message]
  BY DEF OnceInv, WishInv, ExtensionTypeOK
<1>3. PICK at \in {"send", "sent", "answered"} :
        /\ message' = [message EXCEPT ![s].at = at]
        /\ at = IF StoreKey(s) THEN "send"
                ELSE IF PrepareOnce(s) THEN "sent" ELSE "answered"
  BY DEF StoreKey, PrepareOnce, RemoveKey
<1>4. message'[s] = [message[s] EXCEPT !.at = at]
      /\ \A o \in Sites \ {s} : message'[o] = message[o]
  BY <1>2, <1>3
<1>5. /\ message'[s].at = at /\ message'[s].key = message[s].key
      /\ message'[s].resume = message[s].resume /\ message'[s].url = message[s].url
  BY <1>2, <1>4 DEF Message
<1> HIDE DEF StoreKey, PrepareOnce, RemoveKey
<1> QED BY <1>1, <1>3, <1>4, <1>5 DEF WishOf

LEMMA StoreKeeps ==
  ASSUME OnceInv, WishInv', NEW s \in Sites, StoreKey(s)
  PROVE  OnceInv'
<1> DEFINE wish == WishOf(s)
           key  == message[s].key
<1> SUFFICES ASSUME ~crossed PROVE OneToStore' /\ OthersAreTold'
  BY DEF OnceInv, StoreKey, seen
<1>0. /\ WishInv /\ OneToStore /\ OthersAreTold
      /\ \A w \in Wishes : storedKey[w] \in 0..MaxWishes /\ told[w] \in Nat
  BY DEF OnceInv, WishInv, ExtensionTypeOK
<1>1. /\ wish \in Wishes /\ key \in 1..MaxWishes /\ message'[s].at = "send"
      /\ message'[s].key = key /\ WishOf(s)' = wish
      /\ \A o \in Sites \ {s} : message'[o] = message[o] /\ WishOf(o)' = WishOf(o)
  BY KeySteps
<1>2. /\ storedKey[wish] = 0 /\ storedKey'[wish] = key
      /\ \A w \in Wishes \ {wish} : storedKey'[w] = storedKey[w]
      /\ \A o \in Sites \ {s} : message[o].at = "store" => WishOf(o) # wish
      /\ UNCHANGED <<made, told>>
  BY <1>0, <1>1 DEF OneToStore, StoreKey, WishInv, ExtensionTypeOK, api, seen
<1>3. OneToStore'
  <2>1. ASSUME NEW o \in Sites, message'[o].at = "store"
        PROVE  storedKey'[WishOf(o)'] = 0
    <3>1. o # s /\ message[o].at = "store" /\ WishOf(o)' = WishOf(o) /\ WishOf(o) # wish
      BY <1>1, <1>2, <2>1
    <3>2. WishOf(o) \in Wishes /\ storedKey[WishOf(o)] = 0
      BY <1>0, <3>1 DEF WishInv, MessagesHaveWishes, OneToStore
    <3> QED BY <1>2, <3>1, <3>2
  <2> QED BY <2>1, <1>0, <1>1 DEF OneToStore
<1>4. OthersAreTold'
  <2>1. ASSUME NEW w \in Wishes
        PROVE  Cardinality(KnownKeys(w)') <=
                 told'[w] + (IF storedKey'[w] # 0 THEN 1 ELSE 0)
    <3>0. /\ Cardinality(KnownKeys(w)) <= told[w] + (IF storedKey[w] # 0 THEN 1 ELSE 0)
          /\ KnownKeys(w) \subseteq 1..MaxWishes
          /\ KnownKeys(w)' \subseteq 1..MaxWishes
      BY <1>0 DEF OthersAreTold, KnownKeys
    <3>1. CASE w = wish
      <4>1. KnownKeys(w)' \subseteq KnownKeys(w) \cup {key}
        BY <1>1, <1>2, <3>1 DEF KnownKeys
      <4>2. /\ IsFiniteSet(KnownKeys(w))
            /\ Cardinality(KnownKeys(w)) \in Nat /\ Cardinality(KnownKeys(w)') \in Nat
        BY <3>0, KnownIsFinite
      <4>3. /\ IsFiniteSet(KnownKeys(w) \cup {key})
            /\ Cardinality(KnownKeys(w) \cup {key}) =
                 IF key \in KnownKeys(w) THEN Cardinality(KnownKeys(w))
                                        ELSE Cardinality(KnownKeys(w)) + 1
        BY <4>2, FS_AddElement
      <4>4. Cardinality(KnownKeys(w)') <= Cardinality(KnownKeys(w) \cup {key})
        BY <4>1, <4>3, FS_Subset
      <4>5. /\ Cardinality(KnownKeys(w)) <= told[w] /\ told'[w] = told[w]
            /\ storedKey'[w] # 0 /\ told[w] \in Nat
        BY <1>0, <1>1, <1>2, <3>0, <3>1
      <4>6. Cardinality(KnownKeys(w) \cup {key}) <= Cardinality(KnownKeys(w)) + 1
            /\ Cardinality(KnownKeys(w) \cup {key}) \in Nat
        BY <4>2, <4>3
      <4>7. Cardinality(KnownKeys(w)') <= told'[w] + 1
        BY <4>2, <4>4, <4>5, <4>6
      <4> QED BY <4>5, <4>7
    <3>2. CASE w # wish
      <4>1. KnownKeys(w)' \subseteq KnownKeys(w)
        BY <1>1, <1>2, <3>2 DEF KnownKeys
      <4>2. Cardinality(KnownKeys(w)') <= Cardinality(KnownKeys(w))
            /\ Cardinality(KnownKeys(w)') \in Nat /\ Cardinality(KnownKeys(w)) \in Nat
        BY <3>0, <4>1, KnownIsFinite, FS_Subset
      <4>3. told'[w] = told[w] /\ storedKey'[w] = storedKey[w] /\ told[w] \in Nat
        BY <1>0, <1>2, <3>2
      <4> QED BY <3>0, <4>2, <4>3
    <3> QED BY <3>1, <3>2
  <2> QED BY <2>1 DEF OthersAreTold
<1> QED BY <1>3, <1>4

LEMMA PrepareKeeps ==
  ASSUME OnceInv, WishInv', NEW s \in Sites, PrepareOnce(s)
  PROVE  OnceInv'
<1> SUFFICES ASSUME ~crossed PROVE OneToStore' /\ OthersAreTold'
  BY DEF OnceInv, PrepareOnce, seen
<1>0. /\ WishInv /\ OneToStore /\ OthersAreTold
      /\ \A w \in Wishes : told[w] \in Nat
  BY DEF OnceInv, WishInv, ExtensionTypeOK
<1>1. /\ WishOf(s) \in Wishes /\ message[s].key \in 1..MaxWishes
      /\ message'[s].key = message[s].key /\ WishOf(s)' = WishOf(s)
      /\ \A o \in Sites \ {s} : message'[o] = message[o] /\ WishOf(o)' = WishOf(o)
  BY KeySteps
<1>2. message[s].at = "send" /\ message'[s].at = "sent"
  BY KeySteps DEF PrepareOnce, StoreKey
<1>3. /\ made'[message[s].key] = WishOf(s)
      /\ \A k \in 1..MaxWishes : k # message[s].key => made'[k] = made[k]
      /\ UNCHANGED <<storedKey, told>>
  BY <1>0, <1>1 DEF PrepareOnce, WishInv, ExtensionTypeOK, storage, seen
<1>4. OneToStore'
  BY <1>0, <1>1, <1>2, <1>3 DEF OneToStore
<1>5. ASSUME NEW w \in Wishes PROVE KnownKeys(w)' \subseteq KnownKeys(w)
  BY <1>1, <1>2, <1>3 DEF KnownKeys
<1>6. \A w \in Wishes : told[w] + (IF storedKey[w] # 0 THEN 1 ELSE 0)
                          <= told'[w] + (IF storedKey'[w] # 0 THEN 1 ELSE 0)
  BY <1>0, <1>3
<1> QED BY <1>0, <1>4, <1>5, <1>6, ToldStays

LEMMA RemoveKeeps ==
  ASSUME OnceInv, WishInv', NEW s \in Sites, RemoveKey(s)
  PROVE  OnceInv'
<1> SUFFICES ASSUME ~crossed PROVE OneToStore' /\ OthersAreTold'
  BY DEF OnceInv, RemoveKey
<1>0. /\ WishInv /\ OneToStore /\ OthersAreTold
      /\ \A w \in Wishes : storedKey[w] \in 0..MaxWishes /\ told[w] \in Nat
  BY DEF OnceInv, WishInv, ExtensionTypeOK
<1>1. /\ WishOf(s) \in Wishes
      /\ \A o \in Sites \ {s} : message'[o] = message[o] /\ WishOf(o)' = WishOf(o)
  BY KeySteps
<1>2. message'[s].at = "answered"
  BY KeySteps DEF PrepareOnce, StoreKey, RemoveKey
<1>3. /\ storedKey'[WishOf(s)] = 0 /\ told'[WishOf(s)] = told[WishOf(s)] + 1
      /\ \A w \in Wishes : w # WishOf(s) => /\ storedKey'[w] = storedKey[w]
                                            /\ told'[w] = told[w]
      /\ UNCHANGED made
  BY <1>0, <1>1 DEF RemoveKey, WishInv, ExtensionTypeOK, api
<1>4. OneToStore'
  BY <1>0, <1>1, <1>2, <1>3 DEF OneToStore, WishInv, MessagesHaveWishes
<1>5. ASSUME NEW w \in Wishes PROVE KnownKeys(w)' \subseteq KnownKeys(w)
  BY <1>1, <1>2, <1>3 DEF KnownKeys
<1>6. ASSUME NEW w \in Wishes
      PROVE  told[w] + (IF storedKey[w] # 0 THEN 1 ELSE 0)
               <= told'[w] + (IF storedKey'[w] # 0 THEN 1 ELSE 0)
  <2>1. CASE w = WishOf(s)
    BY <1>0, <1>3, <2>1
  <2>2. CASE w # WishOf(s)
    BY <1>0, <1>3, <2>2
  <2> QED BY <2>1, <2>2
<1> QED BY <1>0, <1>4, <1>5, <1>6, ToldStays

LEMMA NextOnce == OnceInv /\ [ExtensionNext]_extensionVars => OnceInv'
<1> SUFFICES ASSUME OnceInv, [ExtensionNext]_extensionVars PROVE OnceInv'
  OBVIOUS
<1>0. WishInv' /\ message \in [Sites -> Message]
  BY NextWishes DEF OnceInv, WishInv, ExtensionTypeOK
<1>1. CASE UNCHANGED <<storedKey, made, told, crossed, message>>
  BY <1>0, <1>1, NothingSent
<1>2. CASE \/ SaveSettings \/ ApprovePackage \/ UNCHANGED extensionVars
           \/ \E s \in Sites : \/ AnalyzePage(s) \/ Load(s) \/ Navigate(s)
                               \/ AskToFill(s) \/ Fill(s) \/ FillFails(s)
  <2>1. UNCHANGED <<storedKey, made, told, crossed, message>>
    BY <1>2 DEF SaveSettings, ApprovePackage, AnalyzePage, Load, Navigate,
       AskToFill, Fill, FillFails, extensionVars, storage, api, seen
  <2> QED BY <1>1, <2>1
<1>3. CASE Stop
  <2>1. \A s \in Sites : message'[s] \in {NoCall, message[s]}
    BY <1>3 DEF Stop
  <2> QED BY <1>0, <1>3, <2>1, NothingSent DEF Stop, NoCall, storage, api, seen
<1>4. ASSUME NEW s \in Sites, AskToPrepare(s) \/ PrepareFails(s) \/ ShowReview(s)
      PROVE  OnceInv'
  <2>1. PICK new : /\ message' = [message EXCEPT ![s] = new]
                   /\ new.at \in {"capture", "idle"}
    <3>1. CASE AskToPrepare(s)
      BY <3>1, PrepareSteps DEF OnceInv
    <3>2. CASE PrepareFails(s) \/ ShowReview(s)
      <4>1. message' = [message EXCEPT ![s] = NoCall] /\ NoCall.at = "idle"
        BY <3>2 DEF PrepareFails, ShowReview, NoCall
      <4> QED BY <4>1
    <3> QED BY <1>4, <3>1, <3>2
  <2>2. \A o \in Sites : message'[o] = message[o] \/ message'[o].at \in {"capture", "idle"}
    BY <1>0, <2>1
  <2>3. UNCHANGED <<storedKey, made, told, crossed>>
    BY <1>4 DEF AskToPrepare, PrepareFails, ShowReview, storage, api, seen
  <2> QED BY <1>0, <2>2, <2>3, NothingSent
<1> QED
  BY <1>0, <1>2, <1>3, <1>4, FindKeeps, StoreKeeps, PrepareKeeps, RemoveKeeps
     DEF ExtensionNext

\* A person who asks again makes no second application that the first answer
\* did not tell of, for any tabs, resumes, postings, keys, lost answers and
\* stopped service workers, as long as two first calls do not cross.
THEOREM OneApplication == ExtensionSpec => []OneApplicationPerWish
<1>1. ExtensionInit => OnceInv
  <2> SUFFICES ASSUME ExtensionInit PROVE OneToStore /\ OthersAreTold
    BY InitWishes DEF OnceInv
  <2>1. OneToStore
    BY DEF ExtensionInit, OneToStore, NoCall
  <2>2. ASSUME NEW w \in Wishes PROVE KnownKeys(w) = {} /\ told[w] = 0
    <3>1. w # <<Nobody, Nobody>>
      BY ExtensionConstants DEF Wishes
    <3> QED BY <3>1 DEF ExtensionInit, KnownKeys, NoCall
  <2>3. OthersAreTold
    <3>1. \A w \in Wishes : storedKey[w] = 0
      BY DEF ExtensionInit
    <3>2. \A w \in Wishes : Cardinality(KnownKeys(w)) = 0
      BY <2>2, FS_EmptySet
    <3> QED BY <2>2, <3>1, <3>2 DEF OthersAreTold
  <2> QED BY <2>1, <2>3
<1>2. OnceInv => OneApplicationPerWish
  <2> SUFFICES ASSUME OnceInv, ~crossed, NEW w \in Wishes
               PROVE  Cardinality({k \in 1..MaxWishes : made[k] = w}) <= told[w] + 1
    BY DEF OneApplicationPerWish
  <2> DEFINE Made == {k \in 1..MaxWishes : made[k] = w}
  <2>1. Made \subseteq KnownKeys(w) /\ KnownKeys(w) \subseteq 1..MaxWishes
    BY DEF KnownKeys
  <2>2. /\ Cardinality(Made) <= Cardinality(KnownKeys(w))
        /\ Cardinality(Made) \in Nat /\ Cardinality(KnownKeys(w)) \in Nat
    BY <2>1, KnownIsFinite, FS_Subset
  <2>3. /\ Cardinality(KnownKeys(w)) <= told[w] + (IF storedKey[w] # 0 THEN 1 ELSE 0)
        /\ told[w] \in Nat
    BY DEF OnceInv, OthersAreTold, WishInv, ExtensionTypeOK
  <2> QED BY <2>2, <2>3
<1>3. ExtensionSpec => []OnceInv
  BY <1>1, NextOnce, PTL DEF ExtensionSpec
<1> QED BY <1>2, <1>3, PTL

-----------------------------------------------------------------------------
\* Every variable of the pages keeps its type, for any constants.
THEOREM PageTypes ==
  /\ ReviewSpec => []ReviewTypeOK
  /\ JobsSpec => []JobsTypeOK
  /\ ExtensionSpec => []ExtensionTypeOK
<1>1. ReviewSpec => []ReviewTypeOK
  BY InitReviewTypes, NextReviewTypes, PTL DEF ReviewSpec
<1>2. JobsSpec => []JobsInv
  BY InitJobs, NextJobs, PTL DEF JobsSpec
<1>3. JobsSpec => []JobsTypeOK
  BY <1>2, PTL DEF JobsInv
<1>4. ExtensionSpec => []WishInv
  BY InitWishes, NextWishes, PTL DEF ExtensionSpec
<1>5. ExtensionSpec => []ExtensionTypeOK
  BY <1>4, PTL DEF WishInv
<1> QED BY <1>1, <1>3, <1>5

=============================================================================
