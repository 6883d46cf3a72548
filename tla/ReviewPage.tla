----------------------------- MODULE ReviewPage -----------------------------
(***************************************************************************)
(* The page on which the user reviews the package of one application       *)
(* (dashboard, applications/[id]), opened in several tabs before.  A tab   *)
(* shows what it last fetched: it fetches again when a mutation of its own *)
(* has succeeded, never because of another tab, nor on focus.              *)
(*                                                                         *)
(* A request takes effect at one instant, but a generation begins at one   *)
(* and ends at another; what calls do between their reads and writes is    *)
(* modelled in ApplicationPackage.  A text is the number of the moment it  *)
(* was written at.                                                         *)
(***************************************************************************)
EXTENDS Integers, FiniteSets

CONSTANTS
  Tabs,
  MaxClicks,  \* bound: what the users do
  MaxKeys,    \* bound: keys that a tab draws for one kind of regeneration
  MaxLosses   \* bound: requests or answers that are lost

ASSUME ReviewConstants ==
  MaxClicks \in Nat /\ MaxKeys \in Nat \ {0} /\ MaxLosses \in Nat

VARIABLES
  pack,       \* the row in applications, its documents and their report
  record,     \* idempotency records, by key
  view,       \* application.data of each tab
  draft,      \* the texts in the form of each tab: CV and letter
  ticked,     \* confirmQuestionableClaims
  pendingKey, \* regenerateIdempotency: keys of regenerations without an answer
  drawn,      \* keys that each tab has drawn
  saving, approving, regenerating, fetching,  \* the requests of each tab
  written,    \* the texts there are
  lossesLeft, \* losses that may still happen
  clicksLeft, \* what the users may still do
  blind,      \* history: texts were approved that the tab did not show
  tickedFor,  \* history: the texts that were shown when the box was ticked
  answered    \* history: regenerations of which the tab knows that they ended

requests == <<saving, approving, regenerating, fetching>>
server   == <<pack, record, written, blind>>
reviewVars == <<server, requests, view, draft, ticked, pendingKey, drawn,
                lossesLeft, clicksLeft, tickedFor, answered>>

Targets == {"resume", "cover_letter", "all"}
RequestKinds == Tabs \X Targets
Wording == Nat
NoText == <<0, 0>>

\* questionable: truthfulness.status is review_required.  Packages with blocked
\* claims are refused wherever they would be stored.
Package == [prep: {"none", "generating", "ready_for_review", "ready_to_submit",
                   "generation_failed"},
            cv: Wording, letter: Wording, questionable: BOOLEAN]

TextsOf(p) == <<p.cv, p.letter>>

NoData == [prep |-> "none", cv |-> 0, letter |-> 0, questionable |-> FALSE]

\* at: where the request is.  The other fields say what it carries or brings:
\* the texts of a save; the box of an approval, and what its tab showed; the
\* key and the target of a regeneration; the package that a fetch read.
Request == [at: {"idle", "sent", "working", "ok", "refused"}, texts: Wording \X Wording,
            confirm: BOOLEAN, key: 0..MaxKeys, target: Targets, got: Package]

Idle == [at |-> "idle", texts |-> NoText, confirm |-> FALSE, key |-> 0,
         target |-> "resume", got |-> NoData]

ReviewTypeOK ==
  /\ pack \in Package /\ view \in [Tabs -> Package]
  /\ record \in [RequestKinds -> [1..MaxKeys -> {"none", "pending", "done"}]]
  /\ draft \in [Tabs -> Wording \X Wording] /\ ticked \in [Tabs -> BOOLEAN]
  /\ pendingKey \in [RequestKinds -> 0..MaxKeys] /\ drawn \in [RequestKinds -> 0..MaxKeys]
  /\ saving \in [Tabs -> Request] /\ approving \in [Tabs -> Request]
  /\ regenerating \in [Tabs -> Request] /\ fetching \in [Tabs -> Request]
  /\ written \in Wording /\ lossesLeft \in 0..MaxLosses
  /\ clicksLeft \in 0..MaxClicks /\ blind \in BOOLEAN
  /\ tickedFor \in [Tabs -> Wording \X Wording] /\ answered \in [RequestKinds -> Nat]

ReviewInit ==
  /\ \E q \in BOOLEAN : pack = [prep |-> "ready_for_review", cv |-> 1,
                                letter |-> 2, questionable |-> q]
  /\ record = [k \in RequestKinds |-> [n \in 1..MaxKeys |-> "none"]]
  /\ view = [t \in Tabs |-> pack] /\ draft = [t \in Tabs |-> TextsOf(pack)]
  /\ ticked = [t \in Tabs |-> FALSE]
  /\ pendingKey = [k \in RequestKinds |-> 0] /\ drawn = [k \in RequestKinds |-> 0]
  /\ saving = [t \in Tabs |-> Idle] /\ approving = [t \in Tabs |-> Idle]
  /\ regenerating = [t \in Tabs |-> Idle] /\ fetching = [t \in Tabs |-> Idle]
  /\ written = 2 /\ lossesLeft = MaxLosses
  /\ clicksLeft = MaxClicks /\ blind = FALSE
  /\ tickedFor = [t \in Tabs |-> NoText] /\ answered = [k \in RequestKinds |-> 0]

-----------------------------------------------------------------------------
(* The tab.                                                                *)

\* The form and the buttons are there.
Reviewable(t) == view[t].prep \in {"ready_for_review", "ready_to_submit"}

Send(request) == [request EXCEPT !.at = "sent"]

Fetch(t) == fetching' = [fetching EXCEPT ![t] = Send(Idle)]

Click == clicksLeft > 0 /\ clicksLeft' = clicksLeft - 1

\* Mutant: the effect forgets one of its dependencies, the letter.
CvReplaced(old, new) == old.cv # new.cv

\* The dependencies of the effect that fills the form.
Replaced(old, new) == TextsOf(old) # TextsOf(new)

\* New data is shown.  Where a text is another one, the form is filled anew
\* and the box is cleared.
Show(t) ==
  LET new == fetching[t].got IN
  /\ fetching[t].at = "ok"
  /\ view' = [view EXCEPT ![t] = new]
  /\ IF Replaced(view[t], new)
       THEN /\ draft' = [draft EXCEPT ![t] = TextsOf(new)]
            /\ ticked' = [ticked EXCEPT ![t] = FALSE]
       ELSE UNCHANGED <<draft, ticked>>
  /\ fetching' = [fetching EXCEPT ![t] = Idle]
  /\ UNCHANGED <<server, saving, approving, regenerating, pendingKey, drawn,
                 lossesLeft, clicksLeft, tickedFor, answered>>

\* The user edits the CV or the letter.
Type(t) ==
  /\ Click
  /\ Reviewable(t)
  /\ written' = written + 1
  /\ \E part \in {1, 2} : draft' = [draft EXCEPT ![t][part] = written']
  /\ UNCHANGED <<pack, record, blind, requests, view, ticked, pendingKey, drawn,
                 lossesLeft, tickedFor, answered>>

\* The box is there when wording has to be confirmed.
Tick(t) ==
  /\ Click
  /\ view[t].prep = "ready_for_review" /\ view[t].questionable
  /\ ticked' = [ticked EXCEPT ![t] = ~ticked[t]]
  /\ tickedFor' = [tickedFor EXCEPT ![t] = TextsOf(view[t])]
  /\ UNCHANGED <<server, requests, view, draft, pendingKey, drawn, lossesLeft,
                 answered>>

\* saveMaterials: all the texts of the form, edited or not.
Save(t) ==
  /\ Click
  /\ Reviewable(t) /\ saving[t].at = "idle"
  /\ ticked' = [ticked EXCEPT ![t] = FALSE]
  /\ saving' = [saving EXCEPT ![t] = [Send(Idle) EXCEPT !.texts = draft[t]]]
  /\ UNCHANGED <<server, approving, regenerating, fetching, view, draft,
                 pendingKey, drawn, lossesLeft, tickedFor, answered>>

\* The approve button.  The request says nothing of what it approves.
ClickApprove(t) ==
  /\ Click
  /\ view[t].prep = "ready_for_review"
  /\ approving[t].at = "idle" /\ saving[t].at = "idle"
  /\ view[t].questionable => ticked[t]
  /\ approving' = [approving EXCEPT ![t] =
       [Send(Idle) EXCEPT !.confirm = ticked[t], !.texts = draft[t],
                          !.got = view[t]]]
  /\ UNCHANGED <<server, saving, regenerating, fetching, view, draft, ticked,
                 pendingKey, drawn, lossesLeft, tickedFor, answered>>

\* Mutant: every request draws a key.
KeyAgain(t, g) == drawn[<<t, g>>] + 1

\* keyFor: the key of the regeneration that had no answer, or a new one.
keyFor(t, g) == IF pendingKey[<<t, g>>] # 0 THEN pendingKey[<<t, g>>]
                                        ELSE drawn[<<t, g>>] + 1

\* A regenerate button, or the retry of a preparation that failed.
Regenerate(t, g) ==
  LET key == keyFor(t, g) IN
  /\ Click
  /\ (Reviewable(t) /\ g # "all") \/ (view[t].prep = "generation_failed" /\ g = "all")
  /\ regenerating[t].at = "idle" /\ key <= MaxKeys
  /\ pendingKey' = [pendingKey EXCEPT ![<<t, g>>] = key]
  /\ drawn' = [drawn EXCEPT ![<<t, g>>] = IF key > @ THEN key ELSE @]
  /\ regenerating' = [regenerating EXCEPT ![t] =
                        [Send(Idle) EXCEPT !.key = key, !.target = g]]
  /\ UNCHANGED <<server, saving, approving, fetching, view, draft, ticked,
                 lossesLeft, tickedFor, answered>>

-----------------------------------------------------------------------------
(* The API.                                                                *)

Answer(requestOf, t, how) == [requestOf EXCEPT ![t] = [@ EXCEPT !.at = how]]

\* GET applications/:id.
ServeFetch(t) ==
  /\ fetching[t].at = "sent"
  /\ fetching' = [fetching EXCEPT ![t] = [@ EXCEPT !.at = "ok", !.got = pack]]
  /\ UNCHANGED <<server, saving, approving, regenerating, view, draft, ticked,
                 pendingKey, drawn, lossesLeft, clicksLeft, tickedFor, answered>>

\* updateMaterials: the texts replace those of the current version, unless the
\* package is being generated or they say too much.
ServeSave(t) ==
  /\ saving[t].at = "sent"
  /\ \/ /\ pack.prep \in {"ready_for_review", "ready_to_submit"}
        /\ \E q \in BOOLEAN :
             pack' = [prep |-> "ready_for_review", cv |-> saving[t].texts[1],
                      letter |-> saving[t].texts[2], questionable |-> q]
        /\ saving' = Answer(saving, t, "ok")
     \/ saving' = Answer(saving, t, "refused") /\ UNCHANGED pack
  /\ UNCHANGED <<record, written, blind, approving, regenerating, fetching, view,
                 draft, ticked, pendingKey, drawn, lossesLeft, clicksLeft, tickedFor,
                 answered>>

\* approve: whatever the package holds by now.
ServeApprove(t) ==
  /\ approving[t].at = "sent"
  /\ IF /\ pack.prep = "ready_for_review"
        /\ pack.questionable => approving[t].confirm
       THEN /\ pack' = [pack EXCEPT !.prep = "ready_to_submit"]
            /\ blind' = (blind \/ TextsOf(pack) \notin
                         {approving[t].texts, TextsOf(approving[t].got)})
            /\ approving' = Answer(approving, t, "ok")
       ELSE approving' = Answer(approving, t, "refused") /\ UNCHANGED <<pack, blind>>
  /\ UNCHANGED <<record, written, saving, regenerating, fetching, view, draft,
                 ticked, pendingKey, drawn, lossesLeft, clicksLeft, tickedFor,
                 answered>>

\* regenerate: a key that is done is answered again, one in work is refused.
BeginRegeneration(t) ==
  LET r == regenerating[t] IN
  /\ r.at = "sent"
  /\ \/ /\ record[<<t, r.target>>][r.key] = "done"
        /\ regenerating' = Answer(regenerating, t, "ok")
        /\ UNCHANGED <<record, pack>>
     \/ /\ record[<<t, r.target>>][r.key] = "pending"
        /\ regenerating' = Answer(regenerating, t, "refused")
        /\ UNCHANGED <<record, pack>>
     \/ /\ record[<<t, r.target>>][r.key] = "none"
        /\ record' = [record EXCEPT ![<<t, r.target>>][r.key] = "pending"]
        /\ pack' = [pack EXCEPT !.prep = "generating"]
        /\ regenerating' = Answer(regenerating, t, "working")
  /\ UNCHANGED <<written, blind, saving, approving, fetching, view, draft, ticked,
                 pendingKey, drawn, lossesLeft, clicksLeft, tickedFor, answered>>

\* The tab that asked, if it still waits for this very generation.
Tell(t, g, n, how) ==
  LET r == regenerating[t] IN
  IF r.at = "working" /\ r.target = g /\ r.key = n
    THEN regenerating' = Answer(regenerating, t, how)
    ELSE UNCHANGED regenerating

\* A generation ends: a letter, and mostly a CV, replace the current ones.
EndRegeneration(t, g, n) ==
  /\ record[<<t, g>>][n] = "pending"
  /\ written' = written + 2
  /\ \E q \in BOOLEAN :
       pack' = [prep |-> "ready_for_review", letter |-> written + 1,
                cv |-> IF g = "cover_letter" THEN pack.cv ELSE written + 2,
                questionable |-> q]
  /\ record' = [record EXCEPT ![<<t, g>>][n] = "done"]
  /\ Tell(t, g, n, "ok")
  /\ UNCHANGED <<blind, saving, approving, fetching, view, draft, ticked,
                 pendingKey, drawn, lossesLeft, clicksLeft, tickedFor, answered>>

\* Or it fails: its key may be used again.
FailRegeneration(t, g, n) ==
  /\ record[<<t, g>>][n] = "pending"
  /\ pack' = [pack EXCEPT !.prep = "generation_failed"]
  /\ record' = [record EXCEPT ![<<t, g>>][n] = "none"]
  /\ Tell(t, g, n, "refused")
  /\ UNCHANGED <<written, blind, saving, approving, fetching, view, draft, ticked,
                 pendingKey, drawn, lossesLeft, clicksLeft, tickedFor, answered>>

-----------------------------------------------------------------------------
(* Answers.                                                                *)

\* onSuccess of a save or an approval: fetch the application again.
Succeed(t) ==
  /\ \/ /\ saving[t].at = "ok"
        /\ saving' = [saving EXCEPT ![t] = Idle] /\ UNCHANGED approving
     \/ /\ approving[t].at = "ok"
        /\ approving' = [approving EXCEPT ![t] = Idle] /\ UNCHANGED saving
  /\ Fetch(t)
  /\ UNCHANGED <<server, regenerating, view, draft, ticked, pendingKey, drawn,
                 lossesLeft, clicksLeft, tickedFor, answered>>

\* onSuccess of a regeneration: forget its key as well.
Regenerated(t) ==
  LET kind == <<t, regenerating[t].target>> IN
  /\ regenerating[t].at = "ok"
  /\ pendingKey' = [pendingKey EXCEPT ![kind] = 0]
  /\ answered' = [answered EXCEPT ![kind] = @ + 1]
  /\ regenerating' = [regenerating EXCEPT ![t] = Idle]
  /\ Fetch(t)
  /\ UNCHANGED <<server, saving, approving, view, draft, ticked, drawn, lossesLeft,
                 clicksLeft, tickedFor>>

\* An error is shown; nothing is fetched.
ShowError(t) ==
  /\ \/ /\ saving[t].at = "refused"
        /\ saving' = [saving EXCEPT ![t] = Idle]
        /\ UNCHANGED <<approving, regenerating>>
     \/ /\ approving[t].at = "refused"
        /\ approving' = [approving EXCEPT ![t] = Idle]
        /\ UNCHANGED <<saving, regenerating>>
     \/ /\ regenerating[t].at = "refused"
        /\ regenerating' = [regenerating EXCEPT ![t] = Idle]
        /\ UNCHANGED <<saving, approving>>
  /\ UNCHANGED <<server, fetching, view, draft, ticked, pendingKey, drawn,
                 lossesLeft, clicksLeft, tickedFor, answered>>

\* The request or its answer is lost: an error too.
Lose(t) ==
  /\ lossesLeft > 0
  /\ lossesLeft' = lossesLeft - 1
  /\ \/ /\ saving[t].at \in {"sent", "ok"}
        /\ saving' = [saving EXCEPT ![t] = Idle]
        /\ UNCHANGED <<approving, regenerating, fetching>>
     \/ /\ approving[t].at \in {"sent", "ok"}
        /\ approving' = [approving EXCEPT ![t] = Idle]
        /\ UNCHANGED <<saving, regenerating, fetching>>
     \/ /\ regenerating[t].at \in {"sent", "working", "ok"}
        /\ regenerating' = [regenerating EXCEPT ![t] = Idle]
        /\ UNCHANGED <<saving, approving, fetching>>
     \/ /\ fetching[t].at \in {"sent", "ok"}
        /\ fetching' = [fetching EXCEPT ![t] = Idle]
        /\ UNCHANGED <<saving, approving, regenerating>>
  /\ UNCHANGED <<server, view, draft, ticked, pendingKey, drawn, clicksLeft,
                 tickedFor, answered>>

ReviewNext ==
  \E t \in Tabs :
    \/ Show(t) \/ Type(t) \/ Tick(t) \/ Save(t) \/ ClickApprove(t)
    \/ ServeFetch(t) \/ ServeSave(t) \/ ServeApprove(t) \/ BeginRegeneration(t)
    \/ Succeed(t) \/ Regenerated(t) \/ ShowError(t) \/ Lose(t)
    \/ \E g \in Targets : Regenerate(t, g)
    \/ \E g \in Targets, n \in 1..MaxKeys :
         EndRegeneration(t, g, n) \/ FailRegeneration(t, g, n)

ReviewSpec == ReviewInit /\ [][ReviewNext]_reviewVars

-----------------------------------------------------------------------------
\* A tab whose regeneration had no answer may ask again and pays for no second
\* one: at most one that ended is unknown to the tab ("The server may already
\* have completed the first request", mutation-idempotency.ts).
OneGenerationPerWish ==
  \A k \in RequestKinds :
    Cardinality({n \in 1..MaxKeys : record[k][n] = "done"}) <= answered[k] + 1

\* The box confirms the texts that are shown, never older ones: whatever answers
\* come in between, texts that replace others clear it.
TickIsForShownTexts == \A t \in Tabs : ticked[t] => tickedFor[t] = TextsOf(view[t])

\* "Approve application package hashes and freezes the reviewed versions"
\* (docs/UNIFIED_APPLICATION_WORKFLOW.md): what an approval freezes is what its
\* tab showed when it was given, as fetched or with the edits made there.
FrozenIsReviewed == ~blind

=============================================================================
