------------------------ MODULE ApplicationPackage ------------------------
(***************************************************************************)
(* The package of one application (ApplicationTrackerService): generated   *)
(* CV and cover letter, edits, approval by the user, hand-out to the       *)
(* extension, submission.  Every call reads the application first and      *)
(* writes it later, unconditionally; only the hashes stored by approve     *)
(* protect what leaves.  A text is named after the call that wrote it, and *)
(* so is the row that the call created; a hash is the text it is of.       *)
(***************************************************************************)
EXTENDS Naturals

CONSTANTS
  Calls,      \* requests of the user's browser tabs and extension
  MaxFaults,  \* bound: processes that die, failure writes that fail
  None

ASSUME ConstantsAssumption == MaxFaults \in Nat /\ None \notin Calls

VARIABLES
  app,        \* the row in applications
  doc,        \* resume_versions: documentJson of the version each call created
  text,       \* cover_letters: content of the letter each call created
  letterOf,   \* cover_letters.resumeVersionId
  call,       \* position and memory of each request
  approvals,  \* history: the pairs of texts that an approve call read
  handedOut,  \* history: the pairs of texts the API checked and handed out
  attached,   \* history: the pairs of texts the extension fills in
  faultsLeft  \* faults the environment may still inject

vars == <<app, doc, text, letterOf, call, approvals, handedOut, attached,
          faultsLeft>>

Maybe == Calls \cup {None}

Preparation == {"job_captured", "analyzing", "generating", "ready_for_review",
                "ready_to_submit", "generation_failed"}

\* Statuses after submitted are not told apart.  source, analysis: are
\* sourceResumeId and jobAnalysis set?  hash...: the approved hashes.
App == [status: {"none", "draft", "submitted", "deleted"}, prep: Preparation,
        source: BOOLEAN, analysis: BOOLEAN, version: Maybe, letter: Maybe,
        hashDoc: Maybe, hashText: Maybe]

Generating == {"analyze", "optimize", "letter", "finish"}

\* version, letter: row ids read or created.  doc, text: contents read.
\* hashDoc, hashText: hashes read with the row.
Call == [pc: Generating \cup {"new", "mark", "save", "load_doc", "load_text",
                              "loaded", "download", "submit", "done"},
         op: {"none", "approve", "hand_out"},
         version: Maybe, letter: Maybe, doc: Maybe, text: Maybe,
         hashDoc: Maybe, hashText: Maybe]

TypeOK ==
  /\ app \in App
  /\ doc \in [Calls -> Maybe] /\ text \in [Calls -> Maybe]
  /\ letterOf \in [Calls -> Maybe]
  /\ call \in [Calls -> Call]
  /\ approvals \subseteq Maybe \X Maybe /\ handedOut \subseteq Maybe \X Maybe
  /\ attached \subseteq Maybe \X Maybe
  /\ faultsLeft \in 0..MaxFaults

\* A call that remembers nothing.
Fresh(pc) == [pc |-> pc, op |-> "none", version |-> None, letter |-> None,
              doc |-> None, text |-> None, hashDoc |-> None, hashText |-> None]

NoRows == [c \in Calls |-> None]

Init ==
  /\ app = [status |-> "none", prep |-> "job_captured", source |-> FALSE,
            analysis |-> FALSE, version |-> None, letter |-> None,
            hashDoc |-> None, hashText |-> None]
  /\ doc = NoRows /\ text = NoRows /\ letterOf = NoRows
  /\ call = [c \in Calls |-> Fresh("new")]
  /\ approvals = {} /\ handedOut = {} /\ attached = {}
  /\ faultsLeft = MaxFaults

-----------------------------------------------------------------------------
rows    == <<doc, text, letterOf>>
history == <<approvals, handedOut, attached, faultsLeft>>

At(c, pc) == call[c].pc = pc
Exists    == app.status \in {"draft", "submitted"}

Move(c, pc) == call' = [call EXCEPT ![c] = [call[c] EXCEPT !.pc = pc]]
Leave(c)    == call' = [call EXCEPT ![c] = Fresh("done")]

\* Read the row: what the call remembers of it.
Remember(c, op, pc) ==
  call' = [call EXCEPT ![c] =
    [call[c] EXCEPT !.op = op, !.pc = pc,
                    !.version = app.version, !.letter = app.letter,
                    !.hashDoc = app.hashDoc, !.hashText = app.hashText]]

\* An update by id: it throws when the row is gone.
Update(row) == app' = IF Exists THEN row ELSE app

-----------------------------------------------------------------------------
(* Creation.  A repeated Idempotency-Key finds the row and changes nothing.*)

\* create: by hand, with documents that were generated before or without.
Create(c) ==
  /\ At(c, "new") /\ app.status = "none"
  /\ \E v \in {c, None}, l \in {c, None} :
       /\ doc' = [doc EXCEPT ![c] = v]
       /\ text' = [text EXCEPT ![c] = l]
       /\ \E o \in {v, None} : letterOf' = [letterOf EXCEPT ![c] = o]
       /\ app' = [app EXCEPT !.status = "draft", !.source = (v # None),
                    !.version = v, !.letter = l,
                    !.prep = IF v # None /\ l # None
                               THEN "ready_for_review" ELSE "job_captured"]
  /\ Leave(c)
  /\ UNCHANGED history

\* prepare, its transaction: the row and the unit of quota.
Prepare(c) ==
  /\ At(c, "new") /\ app.status = "none"
  /\ app' = [app EXCEPT !.status = "draft", !.source = TRUE,
                        !.prep = "analyzing"]
  /\ Move(c, "analyze")
  /\ UNCHANGED <<rows, history>>

\* prepare: the job is analyzed.
Analyze(c) ==
  /\ At(c, "analyze")
  /\ Update([app EXCEPT !.prep = "generating", !.analysis = TRUE])
  /\ IF Exists THEN Move(c, "optimize") ELSE Leave(c)
  /\ UNCHANGED <<rows, history>>

-----------------------------------------------------------------------------
(* Generation, shared by prepare and regenerate.                           *)

\* regenerate reads the package; only a draft may be regenerated.
BeginRegenerate(c) ==
  /\ At(c, "new")
  /\ app.status = "draft" /\ app.source
  /\ Remember(c, "none", "mark")
  /\ UNCHANGED <<app, rows, history>>

\* It takes the approval back and shows that it generates.  The target is the
\* letter alone, or the CV with a new letter.
MarkRegenerating(c) ==
  /\ At(c, "mark")
  /\ Update([app EXCEPT !.prep = "generating", !.analysis = TRUE,
                        !.hashDoc = None, !.hashText = None])
  /\ IF Exists THEN Move(c, "optimize") \/ Move(c, "letter") ELSE Leave(c)
  /\ UNCHANGED <<rows, history>>

\* Mutant: a new CV keeps the letter it finds.
OptimizeOnly(c) ==
  /\ At(c, "optimize")
  /\ doc' = [doc EXCEPT ![c] = c]
  /\ call' = [call EXCEPT ![c] = [call[c] EXCEPT !.version = c,
       !.pc = IF call[c].letter = None THEN "letter" ELSE "finish"]]
  /\ UNCHANGED <<app, text, letterOf, history>>

\* optimizeResume: a new version.
Optimize(c) ==
  /\ At(c, "optimize")
  /\ doc' = [doc EXCEPT ![c] = c]
  /\ call' = [call EXCEPT ![c] = [call[c] EXCEPT !.version = c,
                                                 !.pc = "letter"]]
  /\ UNCHANGED <<app, text, letterOf, history>>

\* generateCoverLetter for that version.
WriteLetter(c) ==
  /\ At(c, "letter") /\ call[c].version # None
  /\ text' = [text EXCEPT ![c] = c]
  /\ letterOf' = [letterOf EXCEPT ![c] = call[c].version]
  /\ call' = [call EXCEPT ![c] = [call[c] EXCEPT !.letter = c,
                                                 !.pc = "finish"]]
  /\ UNCHANGED <<app, doc, history>>

\* The new materials replace whatever the row points to now.
Finish(c) ==
  /\ At(c, "finish")
  /\ Update([app EXCEPT !.prep = "ready_for_review",
                        !.version = call[c].version, !.letter = call[c].letter])
  /\ Leave(c)
  /\ UNCHANGED <<rows, history>>

\* Mutant: a failure is reported to the caller only.
FailSilently(c) ==
  /\ call[c].pc \in Generating
  /\ Leave(c)
  /\ UNCHANGED <<app, rows, history>>

\* A step rejected: the failure is recorded over any later state.
Fail(c) ==
  /\ call[c].pc \in Generating
  /\ Update([app EXCEPT !.prep = "generation_failed"])
  /\ Leave(c)
  /\ UNCHANGED <<rows, history>>

-----------------------------------------------------------------------------
(* Edits, approval, hand-out, submission.                                  *)

\* updateMaterials reads the package and the contents it edits, here in one
\* step: the CV it writes back may be older than another edit either way.
BeginEdit(c) ==
  /\ At(c, "new")
  /\ Exists /\ app.prep \in {"ready_for_review", "ready_to_submit"}
  /\ app.version # None
  /\ call' = [call EXCEPT ![c] =
       [call[c] EXCEPT !.pc = "save", !.version = app.version,
                       !.letter = app.letter, !.doc = doc[app.version]]]
  /\ UNCHANGED <<app, rows, history>>

\* Mutant: the edit takes the hashes back and leaves the state.
Edited(row) == [row EXCEPT !.hashDoc = None, !.hashText = None]

\* The edited package has to be approved again.
NeedsApproval(row) == [row EXCEPT !.prep = "ready_for_review",
                                  !.hashDoc = None, !.hashText = None]

\* One transaction: the edited CV, or the CV as it was read, the letter if it
\* was edited, and the approval taken back.
SaveEdit(c) ==
  /\ At(c, "save")
  /\ \E newDoc \in {c, call[c].doc}, newLetter \in BOOLEAN :
       /\ newLetter => call[c].letter # None
       /\ doc' = IF Exists THEN [doc EXCEPT ![call[c].version] = newDoc]
                           ELSE doc
       /\ text' = IF Exists /\ newLetter
                    THEN [text EXCEPT ![call[c].letter] = c] ELSE text
  /\ Update(NeedsApproval(app))
  /\ Leave(c)
  /\ UNCHANGED <<letterOf, history>>

\* approve reads the row.
BeginApprove(c) ==
  /\ At(c, "new")
  /\ Exists /\ app.prep = "ready_for_review" /\ app.analysis
  /\ Remember(c, "approve", "load_doc")
  /\ UNCHANGED <<app, rows, history>>

\* getApprovedPackageBySourceUrl reads the row.
BeginHandOut(c) ==
  /\ At(c, "new")
  /\ app.status = "draft" /\ app.prep = "ready_to_submit"
  /\ Remember(c, "hand_out", "load_doc")
  /\ UNCHANGED <<app, rows, history>>

\* The statements that load the relations of the row, one after the other; a
\* package with a part missing is refused.
LoadDoc(c) ==
  /\ At(c, "load_doc") /\ call[c].version # None
  /\ call' = [call EXCEPT ![c] = [call[c] EXCEPT
                !.doc = doc[call[c].version], !.pc = "load_text"]]
  /\ UNCHANGED <<app, rows, history>>

LoadText(c) ==
  /\ At(c, "load_text") /\ call[c].letter # None
  /\ call' = [call EXCEPT ![c] = [call[c] EXCEPT
                !.text = text[call[c].letter], !.pc = "loaded"]]
  /\ UNCHANGED <<app, rows, history>>

\* approve hashes what it read and writes the row as it is now.
Approve(c) ==
  /\ At(c, "loaded") /\ call[c].op = "approve"
  /\ Update([app EXCEPT !.prep = "ready_to_submit",
                        !.hashDoc = call[c].doc, !.hashText = call[c].text])
  /\ approvals' = approvals \cup {<<call[c].doc, call[c].text>>}
  /\ Leave(c)
  /\ UNCHANGED <<rows, handedOut, attached, faultsLeft>>

\* Mutant: the letter is not compared.
DocMatches(c) == call[c].doc = call[c].hashDoc

\* The hashes of what was read are the approved ones.
Matches(c) == call[c].doc = call[c].hashDoc /\ call[c].text = call[c].hashText

\* The extension receives the letter and the path of the version, or an error
\* when the texts have changed.
HandOut(c) ==
  /\ At(c, "loaded") /\ call[c].op = "hand_out"
  /\ \/ /\ Matches(c)
        /\ handedOut' = handedOut \cup {<<call[c].doc, call[c].text>>}
        /\ Move(c, "download")
     \/ /\ ~Matches(c)
        /\ Leave(c)
        /\ UNCHANGED handedOut
  /\ UNCHANGED <<app, rows, approvals, attached, faultsLeft>>

\* It downloads the CV by that path and fills both into the form.
Download(c) ==
  /\ At(c, "download") /\ call[c].version # None
  /\ attached' = attached \cup {<<doc[call[c].version], call[c].text>>}
  /\ Leave(c)
  /\ UNCHANGED <<app, rows, approvals, handedOut, faultsLeft>>

\* updateStatus(submitted) reads the row.
BeginSubmit(c) ==
  /\ At(c, "new")
  /\ app.status = "draft"
  /\ app.version # None \/ app.letter # None => app.prep = "ready_to_submit"
  /\ Move(c, "submit")
  /\ UNCHANGED <<app, rows, history>>

Submit(c) ==
  /\ At(c, "submit")
  /\ Update([app EXCEPT !.status = "submitted"])
  /\ Leave(c)
  /\ UNCHANGED <<rows, history>>

Delete(c) ==
  /\ At(c, "new") /\ Exists
  /\ app' = [app EXCEPT !.status = "deleted"]
  /\ Leave(c)
  /\ UNCHANGED <<rows, history>>

\* The call is refused, or rejects, where nothing was written yet: the job is
\* gone, a part is missing, a claim in the texts is not supported.
Refuse(c) ==
  /\ call[c].pc \in {"new", "mark", "save", "load_doc", "load_text", "loaded",
                     "download", "submit"}
  /\ Leave(c)
  /\ UNCHANGED <<app, rows, history>>

\* The process dies, or the failure itself cannot be recorded.
Die(c) ==
  /\ faultsLeft > 0
  /\ call[c].pc \in Generating
  /\ faultsLeft' = faultsLeft - 1
  /\ Leave(c)
  /\ UNCHANGED <<app, rows, approvals, handedOut, attached>>

Generate(c) ==
  \/ Analyze(c) \/ MarkRegenerating(c) \/ Optimize(c) \/ WriteLetter(c)
  \/ Finish(c) \/ Fail(c)

Read(c) ==
  \/ BeginRegenerate(c) \/ BeginEdit(c) \/ BeginApprove(c) \/ BeginHandOut(c)
  \/ LoadDoc(c) \/ LoadText(c) \/ BeginSubmit(c)

Write(c) ==
  \/ Create(c) \/ Prepare(c) \/ SaveEdit(c) \/ Approve(c) \/ HandOut(c)
  \/ Download(c) \/ Submit(c) \/ Delete(c)

Next ==
  \E c \in Calls : Generate(c) \/ Read(c) \/ Write(c) \/ Refuse(c) \/ Die(c)

Spec == Init /\ [][Next]_vars

-----------------------------------------------------------------------------
\* The API hands out only a CV and a letter that one approval read together
\* ("approve exact content hashes", docs/UNIFIED_APPLICATION_WORKFLOW.md),
\* whatever edits, regenerations and approvals do between the reads and writes
\* of each other.
HandedOutIsApproved == handedOut \subseteq approvals

\* What the extension fills into a form is what the user approved: "Extension
\* retrieves only the approved package and fills supported fields"
\* (extension/src/content-scripts/core/README.md).
AttachedIsApproved == attached \subseteq approvals

\* The letter in the package was written for the version in the package,
\* however regenerations overlap.
LetterBelongsToVersion ==
  app.letter # None => letterOf[app.letter] \in {app.version, None}

\* A package that may be submitted carries both hashes of an approval: nothing
\* that takes the approval back leaves it ready.
ReadyHasApproval ==
  app.prep = "ready_to_submit" => <<app.hashDoc, app.hashText>> \in approvals

\* A package that shows that it is being generated has a call that will end
\* that, unless a process died.
GenerationIsAttended ==
  Exists /\ app.prep \in {"analyzing", "generating"} =>
    \/ \E c \in Calls : call[c].pc \in Generating
    \/ faultsLeft < MaxFaults

============================================================================
