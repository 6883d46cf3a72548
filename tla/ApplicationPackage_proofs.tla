--------------------- MODULE ApplicationPackage_proofs ---------------------
(***************************************************************************)
(* Proofs about one application package, for any number of calls and       *)
(* faults, and about the text of its CV (GeneratedDocuments), for any      *)
(* uploads, answers and edits.                                             *)
(***************************************************************************)
EXTENDS ApplicationPackage, GeneratedDocuments, FiniteSetTheorems, TLAPS

-----------------------------------------------------------------------------
(* What the parts of the actions do to a call and to the row.              *)

LEMMA FreshTypes ==
  ASSUME NEW pc \in {"new", "done"}
  PROVE  Fresh(pc) \in Call /\ Fresh(pc).pc = pc /\ Fresh(pc).op = "none"
BY DEF Fresh, Call, Maybe, Generating

LEMMA MoveEffect ==
  ASSUME TypeOK, NEW c \in Calls,
         NEW pc \in Generating \cup {"download", "submit"}, Move(c, pc)
  PROVE  /\ call' \in [Calls -> Call]
         /\ call'[c].pc = pc /\ call'[c].op = call[c].op
         /\ call'[c].version = call[c].version
         /\ call'[c].letter = call[c].letter
         /\ \A d \in Calls \ {c} : call'[d] = call[d]
<1> DEFINE new == [call[c] EXCEPT !.pc = pc]
<1>1. call' = [call EXCEPT ![c] = new]
  BY DEF Move
<1>2. /\ new \in Call /\ new.pc = pc /\ new.op = call[c].op
      /\ new.version = call[c].version /\ new.letter = call[c].letter
  BY DEF TypeOK, Call
<1> HIDE DEF new
<1> QED
  BY <1>1, <1>2 DEF TypeOK

LEMMA LeaveEffect ==
  ASSUME TypeOK, NEW c \in Calls, Leave(c)
  PROVE  /\ call' \in [Calls -> Call]
         /\ call'[c].pc = "done" /\ call'[c].op = "none"
         /\ \A d \in Calls \ {c} : call'[d] = call[d]
<1>1. call' = [call EXCEPT ![c] = Fresh("done")]
  BY DEF Leave
<1> QED
  BY <1>1, FreshTypes DEF TypeOK

LEMMA RememberEffect ==
  ASSUME TypeOK, NEW c \in Calls, NEW op \in {"none", "approve", "hand_out"},
         NEW pc \in {"mark", "load_doc"}, Remember(c, op, pc)
  PROVE  /\ call' \in [Calls -> Call]
         /\ call'[c].pc = pc /\ call'[c].op = op
         /\ call'[c].hashDoc = app.hashDoc
         /\ call'[c].hashText = app.hashText
         /\ \A d \in Calls \ {c} : call'[d] = call[d]
<1> DEFINE new == [call[c] EXCEPT !.op = op, !.pc = pc,
                     !.version = app.version, !.letter = app.letter,
                     !.hashDoc = app.hashDoc, !.hashText = app.hashText]
<1>1. call' = [call EXCEPT ![c] = new]
  BY DEF Remember
<1>2. /\ app.version \in Maybe /\ app.letter \in Maybe
      /\ app.hashDoc \in Maybe /\ app.hashText \in Maybe
  BY DEF TypeOK, App
<1>3. call[c] \in Call
  BY DEF TypeOK
<1>4. /\ new \in Call /\ new.pc = pc /\ new.op = op
      /\ new.hashDoc = app.hashDoc /\ new.hashText = app.hashText
  BY <1>2, <1>3 DEF Call
<1> HIDE DEF new
<1> QED
  BY <1>1, <1>4 DEF TypeOK

\* Reading one more part of the package.
LEMMA LoadEffect ==
  ASSUME TypeOK, NEW c \in Calls, LoadDoc(c) \/ LoadText(c)
  PROVE  /\ call' \in [Calls -> Call]
         /\ call[c].pc \in {"load_doc", "load_text"}
         /\ call'[c].pc \in {"load_text", "loaded"}
         /\ call'[c].op = call[c].op
         /\ call'[c].hashDoc = call[c].hashDoc
         /\ call'[c].hashText = call[c].hashText
         /\ \A d \in Calls \ {c} : call'[d] = call[d]
<1>1. CASE LoadDoc(c)
  <2> DEFINE read == doc[call[c].version]
             new  == [call[c] EXCEPT !.doc = read, !.pc = "load_text"]
  <2>1. read \in Maybe
    BY <1>1 DEF LoadDoc, TypeOK, Call, Maybe
  <2>2. call' = [call EXCEPT ![c] = new]
    BY <1>1 DEF LoadDoc
  <2> HIDE DEF read
  <2>3. /\ new \in Call /\ new.pc = "load_text" /\ new.op = call[c].op
        /\ new.hashDoc = call[c].hashDoc /\ new.hashText = call[c].hashText
    BY <2>1 DEF TypeOK, Call
  <2> HIDE DEF new
  <2> QED
    BY <1>1, <2>2, <2>3 DEF TypeOK, LoadDoc, At
<1>2. CASE LoadText(c)
  <2> DEFINE read == text[call[c].letter]
             new  == [call[c] EXCEPT !.text = read, !.pc = "loaded"]
  <2>1. read \in Maybe
    BY <1>2 DEF LoadText, TypeOK, Call, Maybe
  <2>2. call' = [call EXCEPT ![c] = new]
    BY <1>2 DEF LoadText
  <2> HIDE DEF read
  <2>3. /\ new \in Call /\ new.pc = "loaded" /\ new.op = call[c].op
        /\ new.hashDoc = call[c].hashDoc /\ new.hashText = call[c].hashText
    BY <2>1 DEF TypeOK, Call
  <2> HIDE DEF new
  <2> QED
    BY <1>2, <2>2, <2>3 DEF TypeOK, LoadText, At
<1> QED
  BY <1>1, <1>2

\* Generating one more document.
LEMMA OptimizeEffect ==
  ASSUME TypeOK, NEW c \in Calls, Optimize(c)
  PROVE  /\ call' \in [Calls -> Call] /\ doc' \in [Calls -> Maybe]
         /\ call[c].pc = "optimize" /\ call'[c].pc = "letter"
         /\ call'[c].op = call[c].op
         /\ \A d \in Calls \ {c} : call'[d] = call[d]
<1> DEFINE new == [call[c] EXCEPT !.version = c, !.pc = "letter"]
<1>1. call' = [call EXCEPT ![c] = new]
  BY DEF Optimize
<1>2. new \in Call /\ new.pc = "letter" /\ new.op = call[c].op
  BY DEF TypeOK, Call, Maybe, Generating
<1> HIDE DEF new
<1>3. doc' \in [Calls -> Maybe]
  BY DEF Optimize, TypeOK, Maybe
<1> QED
  BY <1>1, <1>2, <1>3 DEF TypeOK, Optimize, At

LEMMA WriteLetterEffect ==
  ASSUME TypeOK, NEW c \in Calls, WriteLetter(c)
  PROVE  /\ call' \in [Calls -> Call]
         /\ text' \in [Calls -> Maybe] /\ letterOf' \in [Calls -> Maybe]
         /\ call[c].pc = "letter" /\ call'[c].pc = "finish"
         /\ call'[c].op = call[c].op
         /\ call'[c].letter = c /\ call'[c].version = call[c].version
         /\ letterOf'[c] = call[c].version
         /\ \A d \in Calls \ {c} :
              call'[d] = call[d] /\ letterOf'[d] = letterOf[d]
<1> DEFINE new == [call[c] EXCEPT !.letter = c, !.pc = "finish"]
<1>1. call' = [call EXCEPT ![c] = new]
  BY DEF WriteLetter
<1>2. /\ new \in Call /\ new.pc = "finish" /\ new.op = call[c].op
      /\ new.letter = c /\ new.version = call[c].version
  BY DEF TypeOK, Call, Maybe, Generating
<1> HIDE DEF new
<1>3. call[c].version \in Maybe
  BY DEF TypeOK, Call
<1>4. text' \in [Calls -> Maybe] /\ letterOf' \in [Calls -> Maybe]
  BY <1>3 DEF WriteLetter, TypeOK, Maybe
<1> QED
  BY <1>1, <1>2, <1>4 DEF TypeOK, WriteLetter, At


-----------------------------------------------------------------------------
(* What each action may do to the row.                                     *)

\* Reading the package for an edit.
LEMMA BeginEditEffect ==
  ASSUME TypeOK, NEW c \in Calls, BeginEdit(c)
  PROVE  /\ call' \in [Calls -> Call]
         /\ call[c].pc = "new" /\ call'[c].pc = "save"
         /\ call'[c].op = call[c].op
         /\ \A d \in Calls \ {c} : call'[d] = call[d]
<1> DEFINE read == doc[app.version]
           new  == [call[c] EXCEPT !.pc = "save", !.version = app.version,
                                   !.letter = app.letter, !.doc = read]
<1>1. call' = [call EXCEPT ![c] = new]
  BY DEF BeginEdit
<1>2. app.version \in Maybe /\ app.letter \in Maybe
  BY DEF TypeOK, App
<1>3. read \in Maybe
  BY <1>2 DEF BeginEdit, TypeOK, Maybe
<1>4. call[c] \in Call
  BY DEF TypeOK
<1> HIDE DEF read
<1>5. new \in Call /\ new.pc = "save" /\ new.op = call[c].op
  BY <1>2, <1>3, <1>4 DEF Call
<1> HIDE DEF new
<1> QED
  BY <1>1, <1>5 DEF TypeOK, BeginEdit, At

\* Writing the edit.
LEMMA SaveEditEffect ==
  ASSUME TypeOK, NEW c \in Calls, SaveEdit(c)
  PROVE  doc' \in [Calls -> Maybe] /\ text' \in [Calls -> Maybe]
<1>1. call[c].doc \in Maybe /\ c \in Maybe
  BY DEF TypeOK, Call, Maybe
<1>2. PICK newDoc \in {c, call[c].doc}, newLetter \in BOOLEAN :
        /\ doc' = IF Exists THEN [doc EXCEPT ![call[c].version] = newDoc]
                            ELSE doc
        /\ text' = IF Exists /\ newLetter
                     THEN [text EXCEPT ![call[c].letter] = c] ELSE text
  BY DEF SaveEdit
<1> QED
  BY <1>1, <1>2 DEF TypeOK

\* The row after an update by id.
LEMMA UpdateTypes ==
  ASSUME TypeOK, NEW row \in App, Update(row)
  PROVE  app' \in App
BY DEF Update, TypeOK


-----------------------------------------------------------------------------
(* Types.                                                                  *)

LEMMA InitTypes == Init => TypeOK
<1> SUFFICES ASSUME Init PROVE TypeOK
  OBVIOUS
<1>1. app \in App
  BY DEF Init, App, Preparation, Maybe
<1>2. NoRows \in [Calls -> Maybe]
  BY DEF NoRows, Maybe
<1>3. call \in [Calls -> Call]
  BY FreshTypes DEF Init
<1>4. faultsLeft \in 0..MaxFaults
  BY ConstantsAssumption DEF Init
<1> QED
  BY <1>1, <1>2, <1>3, <1>4 DEF Init, TypeOK

LEMMA GenerateTypes ==
  ASSUME TypeOK, NEW c \in Calls, Generate(c)
  PROVE  TypeOK'
<1>1. CASE Analyze(c)
  <2> DEFINE row == [app EXCEPT !.prep = "generating", !.analysis = TRUE]
  <2>1. row \in App
    BY DEF TypeOK, App, Preparation
  <2>2. app' \in App
    BY <1>1, <2>1, UpdateTypes DEF Analyze
  <2>3. call' \in [Calls -> Call]
    BY <1>1, MoveEffect, LeaveEffect DEF Analyze, Generating
  <2> QED
    BY <1>1, <2>2, <2>3 DEF Analyze, rows, history, TypeOK
<1>2. CASE MarkRegenerating(c)
  <2> DEFINE row == [app EXCEPT !.prep = "generating", !.analysis = TRUE,
                                !.hashDoc = None, !.hashText = None]
  <2>1. row \in App
    BY DEF TypeOK, App, Preparation, Maybe
  <2>2. app' \in App
    BY <1>2, <2>1, UpdateTypes DEF MarkRegenerating
  <2>3. call' \in [Calls -> Call]
    BY <1>2, MoveEffect, LeaveEffect DEF MarkRegenerating, Generating
  <2> QED
    BY <1>2, <2>2, <2>3 DEF MarkRegenerating, rows, history, TypeOK
<1>3. CASE Optimize(c)
  BY <1>3, OptimizeEffect DEF Optimize, history, TypeOK
<1>4. CASE WriteLetter(c)
  BY <1>4, WriteLetterEffect DEF WriteLetter, history, TypeOK
<1>5. CASE Finish(c)
  <2> DEFINE row == [app EXCEPT !.prep = "ready_for_review",
                       !.version = call[c].version, !.letter = call[c].letter]
  <2>1. call[c].version \in Maybe /\ call[c].letter \in Maybe
    BY DEF TypeOK, Call
  <2>2. row \in App
    BY <2>1 DEF TypeOK, App, Preparation
  <2>3. app' \in App
    BY <1>5, <2>2, UpdateTypes DEF Finish
  <2> QED
    BY <1>5, <2>3, LeaveEffect DEF Finish, rows, history, TypeOK
<1>6. CASE Fail(c)
  <2> DEFINE row == [app EXCEPT !.prep = "generation_failed"]
  <2>1. row \in App
    BY DEF TypeOK, App, Preparation
  <2>2. app' \in App
    BY <1>6, <2>1, UpdateTypes DEF Fail
  <2> QED
    BY <1>6, <2>2, LeaveEffect DEF Fail, rows, history, TypeOK
<1> QED
  BY <1>1, <1>2, <1>3, <1>4, <1>5, <1>6 DEF Generate

LEMMA ReadTypes ==
  ASSUME TypeOK, NEW c \in Calls, Read(c)
  PROVE  TypeOK'
<1>1. UNCHANGED <<app, doc, text, letterOf, approvals, handedOut, attached,
                 faultsLeft>>
  BY DEF Read, BeginRegenerate, BeginEdit, BeginApprove, BeginHandOut, LoadDoc,
         LoadText, BeginSubmit, rows, history
<1>2. call' \in [Calls -> Call]
  <2>1. CASE BeginRegenerate(c)
    BY <2>1, RememberEffect DEF BeginRegenerate
  <2>2. CASE BeginEdit(c)
    BY <2>2, BeginEditEffect
  <2>3. CASE BeginApprove(c)
    BY <2>3, RememberEffect DEF BeginApprove
  <2>4. CASE BeginHandOut(c)
    BY <2>4, RememberEffect DEF BeginHandOut
  <2>5. CASE LoadDoc(c) \/ LoadText(c)
    BY <2>5, LoadEffect
  <2>6. CASE BeginSubmit(c)
    BY <2>6, MoveEffect DEF BeginSubmit
  <2> QED
    BY <2>1, <2>2, <2>3, <2>4, <2>5, <2>6 DEF Read
<1> QED
  BY <1>1, <1>2 DEF TypeOK

LEMMA WriteTypes ==
  ASSUME TypeOK, NEW c \in Calls, Write(c)
  PROVE  TypeOK'
<1>0. c \in Maybe /\ None \in Maybe
  BY DEF Maybe
<1>1. CASE Create(c)
  <2>1. PICK v \in {c, None}, l \in {c, None} :
          /\ doc' = [doc EXCEPT ![c] = v]
          /\ text' = [text EXCEPT ![c] = l]
          /\ \E o \in {v, None} : letterOf' = [letterOf EXCEPT ![c] = o]
          /\ app' = [app EXCEPT !.status = "draft", !.source = (v # None),
                       !.version = v, !.letter = l,
                       !.prep = IF v # None /\ l # None
                                  THEN "ready_for_review" ELSE "job_captured"]
    BY <1>1 DEF Create
  <2>2. v \in Maybe /\ l \in Maybe
    BY <1>0
  <2>3. app' \in App
    BY <2>1, <2>2 DEF TypeOK, App, Preparation
  <2>4. doc' \in [Calls -> Maybe] /\ text' \in [Calls -> Maybe]
    BY <2>1, <2>2 DEF TypeOK
  <2>5. PICK o \in {v, None} : letterOf' = [letterOf EXCEPT ![c] = o]
    BY <2>1
  <2>6. letterOf' \in [Calls -> Maybe]
    BY <2>2, <2>5, <1>0 DEF TypeOK
  <2> QED
    BY <1>1, <2>3, <2>4, <2>6, LeaveEffect DEF Create, history, TypeOK
<1>2. CASE Prepare(c)
  <2>1. app' \in App
    BY <1>2 DEF Prepare, TypeOK, App, Preparation
  <2>2. call' \in [Calls -> Call]
    BY <1>2, MoveEffect DEF Prepare, Generating
  <2> QED
    BY <1>2, <2>1, <2>2 DEF Prepare, rows, history, TypeOK
<1>3. CASE SaveEdit(c)
  <2>1. NeedsApproval(app) \in App
    BY <1>0 DEF NeedsApproval, TypeOK, App, Preparation
  <2>2. app' \in App
    BY <1>3, <2>1, UpdateTypes DEF SaveEdit
  <2>3. call' \in [Calls -> Call]
    BY <1>3, LeaveEffect DEF SaveEdit
  <2> QED
    BY <1>3, <2>2, <2>3, SaveEditEffect DEF SaveEdit, history, TypeOK
<1>4. CASE Approve(c)
  <2> DEFINE row == [app EXCEPT !.prep = "ready_to_submit",
                       !.hashDoc = call[c].doc, !.hashText = call[c].text]
  <2>1. call[c].doc \in Maybe /\ call[c].text \in Maybe
    BY DEF TypeOK, Call
  <2>2. row \in App
    BY <2>1 DEF TypeOK, App, Preparation
  <2>3. app' \in App
    BY <1>4, <2>2, UpdateTypes DEF Approve
  <2>4. approvals' \subseteq Maybe \X Maybe
    BY <1>4, <2>1 DEF Approve, TypeOK
  <2> QED
    BY <1>4, <2>3, <2>4, LeaveEffect DEF Approve, rows, TypeOK
<1>5. CASE HandOut(c)
  <2>1. call[c].doc \in Maybe /\ call[c].text \in Maybe
    BY DEF TypeOK, Call
  <2>2. handedOut' \subseteq Maybe \X Maybe
    BY <1>5, <2>1 DEF HandOut, TypeOK
  <2>3. call' \in [Calls -> Call]
    BY <1>5, MoveEffect, LeaveEffect DEF HandOut
  <2> QED
    BY <1>5, <2>2, <2>3 DEF HandOut, rows, TypeOK
<1>8. CASE Download(c)
  <2>1. call[c].version \in Calls /\ call[c].text \in Maybe
    BY <1>8 DEF Download, TypeOK, Call, Maybe
  <2>2. attached' \subseteq Maybe \X Maybe
    BY <1>8, <2>1 DEF Download, TypeOK
  <2> QED
    BY <1>8, <2>2, LeaveEffect DEF Download, rows, TypeOK
<1>6. CASE Submit(c)
  <2> DEFINE row == [app EXCEPT !.status = "submitted"]
  <2>1. row \in App
    BY DEF TypeOK, App
  <2>2. app' \in App
    BY <1>6, <2>1, UpdateTypes DEF Submit
  <2> QED
    BY <1>6, <2>2, LeaveEffect DEF Submit, rows, history, TypeOK
<1>7. CASE Delete(c)
  <2>1. app' \in App
    BY <1>7 DEF Delete, TypeOK, App
  <2> QED
    BY <1>7, <2>1, LeaveEffect DEF Delete, rows, history, TypeOK
<1> QED
  BY <1>1, <1>2, <1>3, <1>4, <1>5, <1>6, <1>7, <1>8 DEF Write

LEMMA StepTypes == TypeOK /\ [Next]_vars => TypeOK'
<1> SUFFICES ASSUME TypeOK, [Next]_vars PROVE TypeOK'
  OBVIOUS
<1>1. CASE UNCHANGED vars
  BY <1>1 DEF vars, TypeOK
<1>2. ASSUME NEW c \in Calls, Refuse(c) PROVE TypeOK'
  BY <1>2, LeaveEffect DEF Refuse, rows, history, TypeOK
<1>3. ASSUME NEW c \in Calls, Die(c) PROVE TypeOK'
  BY <1>3, LeaveEffect, ConstantsAssumption DEF Die, rows, TypeOK
<1> QED
  BY <1>1, <1>2, <1>3, GenerateTypes, ReadTypes, WriteTypes DEF Next

\* In every execution the row, the texts and what the calls remember have the
\* shapes that TypeOK gives them.
THEOREM Types == Spec => []TypeOK
BY InitTypes, StepTypes, PTL DEF Spec

-----------------------------------------------------------------------------
(* What is handed out.                                                     *)

\* The hashes that a hand-out carries are those of one approval.
CarriesApproval(c) ==
  call[c].op = "hand_out" /\ call[c].pc \in {"load_doc", "load_text", "loaded"} =>
    <<call[c].hashDoc, call[c].hashText>> \in approvals

HandInv ==
  ReadyHasApproval /\ HandedOutIsApproved /\ \A c \in Calls : CarriesApproval(c)

\* A step that leaves the row and the approvals alone, and ends or moves a
\* call that does not become a hand-out, keeps the invariant.
LEMMA HandFrame ==
  ASSUME HandInv, NEW c \in Calls,
         \A d \in Calls \ {c} : call'[d] = call[d],
         ~(call'[c].op = "hand_out"
             /\ call'[c].pc \in {"load_doc", "load_text", "loaded"}),
         approvals \subseteq approvals', handedOut' \subseteq approvals',
         app'.prep = "ready_to_submit" =>
           <<app'.hashDoc, app'.hashText>> \in approvals'
  PROVE  HandInv'
<1>1. ASSUME NEW d \in Calls PROVE CarriesApproval(d)'
  BY DEF HandInv, CarriesApproval
<1> QED
  BY <1>1 DEF HandInv, ReadyHasApproval, HandedOutIsApproved

LEMMA GenerateHand ==
  ASSUME TypeOK, HandInv, NEW c \in Calls, Generate(c)
  PROVE  HandInv'
<1>1. approvals' = approvals /\ handedOut' = handedOut
  BY DEF Generate, Analyze, MarkRegenerating, Optimize, WriteLetter, Finish, Fail,
         history
<1>2. \A d \in Calls \ {c} : call'[d] = call[d]
  BY MoveEffect, LeaveEffect, OptimizeEffect, WriteLetterEffect
     DEF Generate, Analyze, MarkRegenerating, Finish, Fail, Generating
<1>3. call'[c].pc \notin {"load_doc", "load_text", "loaded"}
  BY MoveEffect, LeaveEffect, OptimizeEffect, WriteLetterEffect
     DEF Generate, Analyze, MarkRegenerating, Finish, Fail, Generating
<1>4. app' = app \/ app'.prep # "ready_to_submit"
  BY DEF Generate, Analyze, MarkRegenerating, Optimize, WriteLetter, Finish, Fail,
         Update, TypeOK, App
<1> QED
  BY <1>1, <1>2, <1>3, <1>4, HandFrame
     DEF HandInv, ReadyHasApproval, HandedOutIsApproved

LEMMA ReadHand ==
  ASSUME TypeOK, HandInv, NEW c \in Calls, Read(c)
  PROVE  HandInv'
<1>1. approvals' = approvals /\ handedOut' = handedOut /\ app' = app
  BY DEF Read, BeginRegenerate, BeginEdit, BeginApprove, BeginHandOut, LoadDoc,
         LoadText, BeginSubmit, history
<1>2. ReadyHasApproval' /\ HandedOutIsApproved'
  BY <1>1 DEF HandInv, ReadyHasApproval, HandedOutIsApproved
<1>3. CASE BeginHandOut(c)
  <2>1. app.prep = "ready_to_submit"
    BY <1>3 DEF BeginHandOut
  <2>2. /\ call'[c].hashDoc = app.hashDoc /\ call'[c].hashText = app.hashText
        /\ \A d \in Calls \ {c} : call'[d] = call[d]
    BY <1>3, RememberEffect DEF BeginHandOut
  <2>3. ASSUME NEW d \in Calls PROVE CarriesApproval(d)'
    BY <1>1, <2>1, <2>2 DEF HandInv, ReadyHasApproval, CarriesApproval
  <2> QED
    BY <1>2, <2>3 DEF HandInv
<1>4. CASE LoadDoc(c) \/ LoadText(c)
  <2>1. ASSUME NEW d \in Calls PROVE CarriesApproval(d)'
    BY <1>1, <1>4, LoadEffect DEF HandInv, CarriesApproval
  <2> QED
    BY <1>2, <2>1 DEF HandInv
<1>5. CASE BeginRegenerate(c) \/ BeginEdit(c) \/ BeginApprove(c) \/ BeginSubmit(c)
  <2>1. /\ \A d \in Calls \ {c} : call'[d] = call[d]
        /\ \/ call'[c].pc \in {"mark", "save", "submit"}
           \/ call'[c].op = "approve"
    BY <1>5, RememberEffect, BeginEditEffect, MoveEffect
       DEF BeginRegenerate, BeginApprove, BeginSubmit
  <2> QED
    BY <1>1, <2>1, HandFrame DEF HandInv, ReadyHasApproval, HandedOutIsApproved
<1> QED
  BY <1>3, <1>4, <1>5 DEF Read

LEMMA WriteHand ==
  ASSUME TypeOK, HandInv, NEW c \in Calls, Write(c)
  PROVE  HandInv'
<1>1. /\ \A d \in Calls \ {c} : call'[d] = call[d]
      /\ call'[c].pc \notin {"load_doc", "load_text", "loaded"}
  BY MoveEffect, LeaveEffect
     DEF Write, Create, Prepare, SaveEdit, Approve, HandOut, Download, Submit,
         Delete, Generating
<1>2. CASE Create(c) \/ Prepare(c) \/ SaveEdit(c)
  <2>1. app' = app \/ app'.prep # "ready_to_submit"
    BY <1>2 DEF Create, Prepare, SaveEdit, Update, NeedsApproval, TypeOK, App
  <2>2. approvals' = approvals /\ handedOut' = handedOut
    BY <1>2 DEF Create, Prepare, SaveEdit, history
  <2> QED
    BY <1>1, <2>1, <2>2, HandFrame
       DEF HandInv, ReadyHasApproval, HandedOutIsApproved
<1>3. CASE Approve(c)
  <2>1. /\ approvals' = approvals \cup {<<call[c].doc, call[c].text>>}
        /\ handedOut' = handedOut
    BY <1>3 DEF Approve
  <2>2. \/ app' = app
        \/ app'.hashDoc = call[c].doc /\ app'.hashText = call[c].text
    BY <1>3 DEF Approve, Update, TypeOK, App
  <2> QED
    BY <1>1, <2>1, <2>2, HandFrame
       DEF HandInv, ReadyHasApproval, HandedOutIsApproved
<1>4. CASE HandOut(c)
  <2>1. CarriesApproval(c)
    BY DEF HandInv
  <2>2. handedOut' \subseteq approvals
    BY <1>4, <2>1
       DEF HandOut, At, Matches, CarriesApproval, HandInv, HandedOutIsApproved
  <2>3. app' = app /\ approvals' = approvals
    BY <1>4 DEF HandOut
  <2> QED
    BY <1>1, <2>2, <2>3, HandFrame DEF HandInv, ReadyHasApproval
<1>5. CASE Download(c) \/ Submit(c) \/ Delete(c)
  <2>1. /\ app'.prep = app.prep
        /\ app'.hashDoc = app.hashDoc /\ app'.hashText = app.hashText
    BY <1>5 DEF Download, Submit, Delete, Update, TypeOK, App
  <2>2. approvals' = approvals /\ handedOut' = handedOut
    BY <1>5 DEF Download, Submit, Delete, history
  <2> QED
    BY <1>1, <2>1, <2>2, HandFrame
       DEF HandInv, ReadyHasApproval, HandedOutIsApproved
<1> QED
  BY <1>2, <1>3, <1>4, <1>5 DEF Write

LEMMA StepHand == TypeOK /\ HandInv /\ [Next]_vars => HandInv'
<1> SUFFICES ASSUME TypeOK, HandInv, [Next]_vars PROVE HandInv'
  OBVIOUS
<1>1. CASE UNCHANGED vars
  BY <1>1 DEF vars, HandInv, ReadyHasApproval, HandedOutIsApproved,
              CarriesApproval
<1>2. ASSUME NEW c \in Calls, Refuse(c) \/ Die(c) PROVE HandInv'
  <2>1. /\ app' = app /\ approvals' = approvals /\ handedOut' = handedOut
        /\ Leave(c)
    BY <1>2 DEF Refuse, Die, history
  <2> QED
    BY <2>1, LeaveEffect, HandFrame
       DEF HandInv, ReadyHasApproval, HandedOutIsApproved
<1> QED
  BY <1>1, <1>2, GenerateHand, ReadHand, WriteHand DEF Next

LEMMA InitHand == Init => HandInv
BY DEF Init, Fresh, HandInv, ReadyHasApproval, HandedOutIsApproved, CarriesApproval

\* What the extension receives is what the user approved, as one pair.
THEOREM HandOuts == Spec => []HandedOutIsApproved
<1>1. HandInv => HandedOutIsApproved
  BY DEF HandInv
<1> QED
  BY <1>1, Types, InitHand, StepHand, PTL DEF Spec

\* A package ready to be submitted carries the hashes of one approval.
THEOREM ReadyPackages == Spec => []ReadyHasApproval
<1>1. HandInv => ReadyHasApproval
  BY DEF HandInv
<1> QED
  BY <1>1, Types, InitHand, StepHand, PTL DEF Spec


-----------------------------------------------------------------------------
(* The letter and the version.                                             *)

\* A call about to finish holds its own letter, written for its version.
HoldsLetter(c) ==
  call[c].pc = "finish" =>
    call[c].letter = c /\ letterOf[c] = call[c].version

LetterInv ==
  /\ LetterBelongsToVersion
  /\ app.letter # None => call[app.letter].pc = "done"
  /\ \A c \in Calls : HoldsLetter(c)

\* A step that leaves the letters and the package in the row alone keeps the
\* invariant, unless it revives a call or brings one to its last write.
LEMMA LetterFrame ==
  ASSUME TypeOK, LetterInv, NEW c \in Calls, call[c].pc # "done",
         \A d \in Calls \ {c} : call'[d] = call[d],
         call'[c].pc # "finish",
         letterOf' = letterOf,
         app'.letter = app.letter, app'.version = app.version
  PROVE  LetterInv'
<1>1. app.letter \in Maybe
  BY DEF TypeOK, App
<1>2. LetterBelongsToVersion'
  BY DEF LetterInv, LetterBelongsToVersion
<1>3. app'.letter # None => call'[app'.letter].pc = "done"
  BY <1>1 DEF LetterInv, Maybe
<1>4. ASSUME NEW d \in Calls PROVE HoldsLetter(d)'
  BY DEF LetterInv, HoldsLetter
<1> QED
  BY <1>2, <1>3, <1>4 DEF LetterInv

\* A step that only ends or moves a call.
LEMMA QuietLetter ==
  ASSUME TypeOK, LetterInv, NEW c \in Calls,
         \/ Analyze(c) \/ MarkRegenerating(c) \/ Fail(c) \/ Read(c)
         \/ Prepare(c) \/ SaveEdit(c) \/ Approve(c) \/ HandOut(c)
         \/ Download(c) \/ Submit(c) \/ Delete(c) \/ Refuse(c) \/ Die(c)
  PROVE  LetterInv'
<1>1. CASE Analyze(c) \/ MarkRegenerating(c) \/ Fail(c)
  <2>1. app'.letter = app.letter /\ app'.version = app.version
    BY <1>1 DEF Analyze, MarkRegenerating, Fail, Update, TypeOK, App
  <2>2. letterOf' = letterOf /\ call[c].pc # "done"
    BY <1>1 DEF Analyze, MarkRegenerating, Fail, rows, At, Generating
  <2>3. call'[c].pc # "finish" /\ \A d \in Calls \ {c} : call'[d] = call[d]
    BY <1>1, MoveEffect, LeaveEffect
       DEF Analyze, MarkRegenerating, Fail, Generating
  <2> QED
    BY <2>1, <2>2, <2>3, LetterFrame
<1>2. CASE Read(c)
  <2>1. app' = app /\ letterOf' = letterOf /\ call[c].pc # "done"
    BY <1>2 DEF Read, BeginRegenerate, BeginEdit, BeginApprove, BeginHandOut,
                LoadDoc, LoadText, BeginSubmit, rows, At
  <2>2. call'[c].pc # "finish" /\ \A d \in Calls \ {c} : call'[d] = call[d]
    BY <1>2, RememberEffect, BeginEditEffect, LoadEffect, MoveEffect
       DEF Read, BeginRegenerate, BeginApprove, BeginHandOut, BeginSubmit
  <2> QED
    BY <2>1, <2>2, LetterFrame
<1>3. CASE Prepare(c) \/ SaveEdit(c) \/ Approve(c) \/ HandOut(c)
  <2>1. app'.letter = app.letter /\ app'.version = app.version
    BY <1>3 DEF Prepare, SaveEdit, Approve, HandOut, Update, NeedsApproval,
                TypeOK, App
  <2>2. letterOf' = letterOf /\ call[c].pc # "done"
    BY <1>3 DEF Prepare, SaveEdit, Approve, HandOut, rows, At
  <2>3. call'[c].pc # "finish" /\ \A d \in Calls \ {c} : call'[d] = call[d]
    BY <1>3, MoveEffect, LeaveEffect
       DEF Prepare, SaveEdit, Approve, HandOut, Generating
  <2> QED
    BY <2>1, <2>2, <2>3, LetterFrame
<1>4. CASE Download(c) \/ Submit(c) \/ Delete(c) \/ Refuse(c) \/ Die(c)
  <2>1. app'.letter = app.letter /\ app'.version = app.version
    BY <1>4 DEF Download, Submit, Delete, Refuse, Die, Update,
                TypeOK, App
  <2>2. letterOf' = letterOf /\ call[c].pc # "done"
    BY <1>4 DEF Download, Submit, Delete, Refuse, Die, rows, At, Generating
  <2>3. call'[c].pc # "finish" /\ \A d \in Calls \ {c} : call'[d] = call[d]
    BY <1>4, LeaveEffect DEF Download, Submit, Delete, Refuse, Die
  <2> QED
    BY <2>1, <2>2, <2>3, LetterFrame
<1> QED
  BY <1>1, <1>2, <1>3, <1>4

LEMMA OptimizeLetter ==
  ASSUME TypeOK, LetterInv, NEW c \in Calls, Optimize(c)
  PROVE  LetterInv'
<1>1. app' = app /\ letterOf' = letterOf
  BY DEF Optimize
<1> QED
  BY <1>1, OptimizeEffect, LetterFrame

LEMMA WriteLetterLetter ==
  ASSUME TypeOK, LetterInv, NEW c \in Calls, WriteLetter(c)
  PROVE  LetterInv'
<1>1. app' = app
  BY DEF WriteLetter
<1>2. app.letter \in Maybe
  BY DEF TypeOK, App
<1>3. app.letter # c
  BY WriteLetterEffect, ConstantsAssumption DEF LetterInv
<1>4. LetterBelongsToVersion'
  BY <1>1, <1>2, <1>3, WriteLetterEffect
     DEF LetterInv, LetterBelongsToVersion, Maybe
<1>5. app'.letter # None => call'[app'.letter].pc = "done"
  BY <1>1, <1>2, <1>3, WriteLetterEffect DEF LetterInv, Maybe
<1>6. ASSUME NEW d \in Calls PROVE HoldsLetter(d)'
  BY WriteLetterEffect DEF LetterInv, HoldsLetter
<1> QED
  BY <1>4, <1>5, <1>6 DEF LetterInv

LEMMA FinishLetter ==
  ASSUME TypeOK, LetterInv, NEW c \in Calls, Finish(c)
  PROVE  LetterInv'
<1>1. call'[c].pc = "done" /\ \A d \in Calls \ {c} : call'[d] = call[d]
  BY LeaveEffect DEF Finish
<1>2. letterOf' = letterOf /\ call[c].pc = "finish"
  BY DEF Finish, rows, At
<1>3. call[c].letter = c /\ letterOf[c] = call[c].version
  BY <1>2 DEF LetterInv, HoldsLetter
<1>4. CASE Exists
  <2>1. app'.letter = c /\ app'.version = call[c].version
    BY <1>3, <1>4 DEF Finish, Update, TypeOK, App
  <2>2. ASSUME NEW d \in Calls PROVE HoldsLetter(d)'
    BY <1>1, <1>2 DEF LetterInv, HoldsLetter
  <2> QED
    BY <1>1, <1>2, <1>3, <2>1, <2>2 DEF LetterInv, LetterBelongsToVersion
<1>5. CASE ~Exists
  <2>1. app' = app
    BY <1>5 DEF Finish, Update
  <2> QED
    BY <1>1, <1>2, <2>1, LetterFrame
<1> QED
  BY <1>4, <1>5

LEMMA CreateLetter ==
  ASSUME TypeOK, LetterInv, NEW c \in Calls, Create(c)
  PROVE  LetterInv'
<1>1. call'[c].pc = "done" /\ \A d \in Calls \ {c} : call'[d] = call[d]
  BY LeaveEffect DEF Create
<1>2. PICK v \in {c, None}, l \in {c, None} :
        /\ \E o \in {v, None} : letterOf' = [letterOf EXCEPT ![c] = o]
        /\ app'.letter = l /\ app'.version = v
  BY DEF Create, TypeOK, App
<1>3. PICK o \in {v, None} : letterOf' = [letterOf EXCEPT ![c] = o]
  BY <1>2
<1>4. letterOf'[c] = o /\ \A d \in Calls \ {c} : letterOf'[d] = letterOf[d]
  BY <1>3 DEF TypeOK
<1>5. LetterBelongsToVersion'
  BY <1>2, <1>4 DEF LetterBelongsToVersion
<1>6. ASSUME NEW d \in Calls PROVE HoldsLetter(d)'
  BY <1>1, <1>4 DEF LetterInv, HoldsLetter
<1> QED
  BY <1>1, <1>2, <1>5, <1>6 DEF LetterInv

LEMMA StepLetter == TypeOK /\ LetterInv /\ [Next]_vars => LetterInv'
<1> SUFFICES ASSUME TypeOK, LetterInv, [Next]_vars PROVE LetterInv'
  OBVIOUS
<1>1. CASE UNCHANGED vars
  BY <1>1 DEF vars, LetterInv, LetterBelongsToVersion, HoldsLetter
<1>2. ASSUME NEW c \in Calls, Generate(c) PROVE LetterInv'
  BY <1>2, QuietLetter, OptimizeLetter, WriteLetterLetter, FinishLetter
     DEF Generate
<1>3. ASSUME NEW c \in Calls, Write(c) PROVE LetterInv'
  BY <1>3, QuietLetter, CreateLetter DEF Write
<1>4. ASSUME NEW c \in Calls, Read(c) \/ Refuse(c) \/ Die(c) PROVE LetterInv'
  BY <1>4, QuietLetter
<1> QED
  BY <1>1, <1>2, <1>3, <1>4 DEF Next

\* The letter in the package was written for the version in the package.
THEOREM Letters == Spec => []LetterBelongsToVersion
<1>1. Init => LetterInv
  BY DEF Init, Fresh, LetterInv, LetterBelongsToVersion, HoldsLetter
<1>2. LetterInv => LetterBelongsToVersion
  BY DEF LetterInv
<1> QED
  BY <1>1, <1>2, Types, StepLetter, PTL DEF Spec

-----------------------------------------------------------------------------
(* Generation that ends.                                                   *)

\* A step that leaves every generating call generating, and the row generating
\* or not as it was, keeps the invariant.
LEMMA AttendedFrame ==
  ASSUME GenerationIsAttended, NEW c \in Calls,
         \A d \in Calls \ {c} : call'[d] = call[d],
         call[c].pc \in Generating => call'[c].pc \in Generating,
         faultsLeft' = faultsLeft,
         (Exists /\ app.prep \in {"analyzing", "generating"})'
           => Exists /\ app.prep \in {"analyzing", "generating"}
  PROVE  GenerationIsAttended'
<1>1. ASSUME NEW d \in Calls, call[d].pc \in Generating
      PROVE  call'[d].pc \in Generating
  BY <1>1
<1> QED
  BY <1>1 DEF GenerationIsAttended

LEMMA GenerateAttended ==
  ASSUME TypeOK, GenerationIsAttended, NEW c \in Calls, Generate(c)
  PROVE  GenerationIsAttended'
<1>1. CASE Analyze(c) \/ MarkRegenerating(c)
  <2>1. CASE Exists
    BY <1>1, <2>1, MoveEffect
       DEF Analyze, MarkRegenerating, Generating, GenerationIsAttended
  <2>2. CASE ~Exists
    BY <1>1, <2>2
       DEF Analyze, MarkRegenerating, Update, Exists, GenerationIsAttended
  <2> QED
    BY <2>1, <2>2
<1>2. CASE Optimize(c) \/ WriteLetter(c)
  <2>1. app' = app /\ call'[c].pc \in Generating
    BY <1>2, OptimizeEffect, WriteLetterEffect
       DEF Optimize, WriteLetter, Generating
  <2> QED
    BY <2>1 DEF GenerationIsAttended
<1>3. CASE Finish(c) \/ Fail(c)
  <2>1. ~(Exists /\ app.prep \in {"analyzing", "generating"})'
    BY <1>3 DEF Finish, Fail, Update, Exists, TypeOK, App
  <2> QED
    BY <2>1 DEF GenerationIsAttended
<1> QED
  BY <1>1, <1>2, <1>3 DEF Generate

LEMMA ReadAttended ==
  ASSUME TypeOK, GenerationIsAttended, NEW c \in Calls, Read(c)
  PROVE  GenerationIsAttended'
<1>1. app' = app /\ faultsLeft' = faultsLeft
  BY DEF Read, BeginRegenerate, BeginEdit, BeginApprove, BeginHandOut, LoadDoc,
         LoadText, BeginSubmit, history
<1>2. call[c].pc \notin Generating
  BY DEF Read, BeginRegenerate, BeginEdit, BeginApprove, BeginHandOut, LoadDoc,
         LoadText, BeginSubmit, At, Generating
<1>3. \A d \in Calls \ {c} : call'[d] = call[d]
  BY RememberEffect, BeginEditEffect, LoadEffect, MoveEffect
     DEF Read, BeginRegenerate, BeginApprove, BeginHandOut, BeginSubmit
<1> QED
  BY <1>1, <1>2, <1>3, AttendedFrame DEF Exists

LEMMA WriteAttended ==
  ASSUME TypeOK, GenerationIsAttended, NEW c \in Calls, Write(c)
  PROVE  GenerationIsAttended'
<1>1. CASE Prepare(c)
  <2>1. call'[c].pc \in Generating
    BY <1>1, MoveEffect DEF Prepare, Generating
  <2> QED
    BY <2>1 DEF GenerationIsAttended
<1>2. CASE Create(c) \/ SaveEdit(c) \/ Approve(c)
  <2>1. app' = app \/ app'.prep \notin {"analyzing", "generating"}
    BY <1>2 DEF Create, SaveEdit, Approve, Update, NeedsApproval, TypeOK, App
  <2>2. call[c].pc \notin Generating /\ faultsLeft' = faultsLeft
    BY <1>2 DEF Create, SaveEdit, Approve, history, At, Generating
  <2>3. \A d \in Calls \ {c} : call'[d] = call[d]
    BY <1>2, LeaveEffect DEF Create, SaveEdit, Approve
  <2> QED
    BY <2>1, <2>2, <2>3, AttendedFrame DEF Exists
<1>3. CASE HandOut(c) \/ Download(c) \/ Submit(c) \/ Delete(c)
  <2>1. app'.prep = app.prep /\ (Exists' => Exists)
    BY <1>3 DEF HandOut, Download, Submit, Delete, Update, Exists, TypeOK, App
  <2>2. call[c].pc \notin Generating /\ faultsLeft' = faultsLeft
    BY <1>3 DEF HandOut, Download, Submit, Delete, history, At, Generating
  <2>3. \A d \in Calls \ {c} : call'[d] = call[d]
    BY <1>3, LeaveEffect, MoveEffect DEF HandOut, Download, Submit, Delete
  <2> QED
    BY <2>1, <2>2, <2>3, AttendedFrame
<1> QED
  BY <1>1, <1>2, <1>3 DEF Write

LEMMA StepAttended ==
  TypeOK /\ GenerationIsAttended /\ [Next]_vars => GenerationIsAttended'
<1> SUFFICES ASSUME TypeOK, GenerationIsAttended, [Next]_vars
             PROVE  GenerationIsAttended'
  OBVIOUS
<1>1. CASE UNCHANGED vars
  BY <1>1 DEF vars, GenerationIsAttended, Exists
<1>2. ASSUME NEW c \in Calls, Refuse(c) PROVE GenerationIsAttended'
  <2>1. app' = app /\ faultsLeft' = faultsLeft /\ call[c].pc \notin Generating
    BY <1>2 DEF Refuse, history, Generating
  <2>2. \A d \in Calls \ {c} : call'[d] = call[d]
    BY <1>2, LeaveEffect DEF Refuse
  <2> QED
    BY <2>1, <2>2, AttendedFrame DEF Exists
<1>3. ASSUME NEW c \in Calls, Die(c) PROVE GenerationIsAttended'
  <2>1. faultsLeft' < MaxFaults
    BY <1>3, ConstantsAssumption DEF Die, TypeOK
  <2> QED
    BY <2>1 DEF GenerationIsAttended
<1> QED
  BY <1>1, <1>2, <1>3, GenerateAttended, ReadAttended, WriteAttended DEF Next

\* While no process died, a package that shows generation has a call at it.
THEOREM Attended == Spec => []GenerationIsAttended
<1>1. Init => GenerationIsAttended
  BY DEF Init, Exists, GenerationIsAttended
<1> QED
  BY <1>1, Types, StepAttended, PTL DEF Spec


-----------------------------------------------------------------------------
(* What an accepted document states.                                       *)

LEMMA LeastIsMember ==
  ASSUME NEW S \in SUBSET Nat, S # {}
  PROVE  Min(S) \in S
<1> DEFINE R == OpToRel(<, Nat)
<1>1. \E x \in S : \A y \in S : ~(<<y, x>> \in R)
  <2>1. IsWellFoundedOn(R, Nat)
    BY NatLessThanWellFounded
  <2> HIDE DEF R
  <2> QED
    BY <2>1, WFMin
<1>2. ASSUME NEW x \in Nat, NEW y \in Nat, y < x
      PROVE  <<y, x>> \in R
  <2>1. <<y, x>> \in Nat \X Nat /\ <<y, x>>[1] < <<y, x>>[2]
    BY <1>2
  <2> QED
    BY <2>1 DEF OpToRel
<1> HIDE DEF R
<1>3. PICK x \in S : \A y \in S : ~(<<y, x>> \in R)
  BY <1>1
<1>4. ASSUME NEW y \in S
      PROVE  x <= y
  <2>1. x \in Nat /\ y \in Nat /\ ~(y < x)
    BY <1>2, <1>3
  <2> QED
    BY <2>1
<1> QED
  BY <1>4 DEF Min

\* `find` returns an entry of the list that agrees on the key.
LEMMA FirstAgrees ==
  ASSUME NEW x, NEW list, DOMAIN list \subseteq Nat, NEW key,
         Alike(x, list, key) # {}
  PROVE  /\ First(x, list, key) \in ToSet(list)
         /\ \A f \in key : First(x, list, key)[f] = x[f]
<1>1. Min(Alike(x, list, key)) \in Alike(x, list, key)
  BY LeastIsMember DEF Alike
<1> QED
  BY <1>1 DEF Alike, First, Same, ToSet

LEMMA BlockedIsBlocked ==
  ASSUME NEW findings, Status(findings) # "blocked",
         NEW type
  PROVE  Blocked(type) \notin findings
BY DEF Status, Blocked

\* A comparison that blocks nothing blocks nothing in any of its parts.
LEMMA NoPartBlocks ==
  ASSUME NEW cv, NEW d, Status(DocumentFindings(cv, d)) # "blocked",
         NEW type
  PROVE  /\ \A k \in Kinds :
              Blocked(type) \notin Compare(k, cv.claims[k], d.claims[k])
         /\ \A r \in ToSet(d.roles) : Blocked(type) \notin RoleFindings(cv, r)
         /\ \A x \in ToSet(d.degrees) :
              Blocked(type) \notin DegreeFindings(cv, x)
         /\ \A p \in ToSet(d.projects) :
              Blocked(type) \notin ProjectFindings(cv, p)
         /\ Blocked(type) \notin ProfileFindings(cv, d)
         /\ Blocked(type) \notin
              When(~(MetricsOf(d) \subseteq MetricsOf(cv)), Blocked("metric"))
<1> DEFINE claims   == UNION {Compare(k, cv.claims[k], d.claims[k]) : k \in Kinds}
           roles    == UNION {RoleFindings(cv, r) : r \in ToSet(d.roles)}
           lessRoles    == Omitted("experience", cv.roles, d.roles, RoleKey)
           degrees  == UNION {DegreeFindings(cv, x) : x \in ToSet(d.degrees)}
           lessDegrees  == Omitted("education", cv.degrees, d.degrees, DegreeKey)
           projects == UNION {ProjectFindings(cv, p) : p \in ToSet(d.projects)}
           lessProjects == Omitted("project", cv.projects, d.projects, {"name"})
           profile  == ProfileFindings(cv, d)
           metrics  == When(~(MetricsOf(d) \subseteq MetricsOf(cv)), Blocked("metric"))
<1>1. Blocked(type) \notin DocumentFindings(cv, d)
  BY BlockedIsBlocked
<1>2. DocumentFindings(cv, d)
        = claims \cup roles \cup lessRoles \cup degrees \cup lessDegrees
            \cup projects \cup lessProjects \cup profile \cup metrics
  BY Zenon DEF DocumentFindings, Findings
<1>3. /\ \A k \in Kinds : Compare(k, cv.claims[k], d.claims[k]) \subseteq claims
      /\ \A r \in ToSet(d.roles) : RoleFindings(cv, r) \subseteq roles
      /\ \A x \in ToSet(d.degrees) : DegreeFindings(cv, x) \subseteq degrees
      /\ \A p \in ToSet(d.projects) : ProjectFindings(cv, p) \subseteq projects
  OBVIOUS
<1> HIDE DEF claims, roles, lessRoles, degrees, lessDegrees, projects,
             lessProjects, profile, metrics
<1>4. /\ Blocked(type) \notin claims /\ Blocked(type) \notin roles
      /\ Blocked(type) \notin degrees /\ Blocked(type) \notin projects
      /\ Blocked(type) \notin profile /\ Blocked(type) \notin metrics
  BY <1>1, <1>2
<1> QED
  BY <1>3, <1>4 DEF profile, metrics

\* The metrics of a text of the document are among those of the document.
LEMMA MetricsOfParts ==
  ASSUME NEW d
  PROVE  /\ \A r \in ToSet(d.roles) : RoleText(r).metrics \subseteq MetricsOf(d)
         /\ \A p \in ToSet(d.projects) :
              p.description.metrics \subseteq MetricsOf(d)
         /\ d.profile.metrics \subseteq MetricsOf(d)
<1> DEFINE roles    == UNION {RoleText(r).metrics : r \in ToSet(d.roles)}
           projects == UNION {p.description.metrics : p \in ToSet(d.projects)}
<1>1. MetricsOf(d) = roles \cup projects \cup d.profile.metrics
  BY Zenon DEF MetricsOf
<1>2. /\ \A r \in ToSet(d.roles) : RoleText(r).metrics \subseteq roles
      /\ \A p \in ToSet(d.projects) : p.description.metrics \subseteq projects
  OBVIOUS
<1> HIDE DEF roles, projects
<1> QED
  BY <1>1, <1>2

LEMMA MetricsAreVerified ==
  ASSUME NEW cv, NEW d, Status(DocumentFindings(cv, d)) # "blocked"
  PROVE  MetricsOf(d) \subseteq MetricsOf(cv)
BY NoPartBlocks DEF When

LEMMA AcceptedRole ==
  ASSUME NEW cv, NEW d, Status(DocumentFindings(cv, d)) # "blocked",
         DOMAIN cv.roles \subseteq Nat,
         NEW r \in ToSet(d.roles)
  PROVE  \E v \in ToSet(cv.roles) :
           /\ Same(r, v, RoleKey) /\ Dates(r) \subseteq Dates(v)
           /\ RoleText(r).metrics \subseteq RoleText(v).metrics
<1> DEFINE v == First(r, cv.roles, RoleKey)
<1>1. \A type : Blocked(type) \notin RoleFindings(cv, r)
  BY NoPartBlocks
<1>2. Alike(r, cv.roles, RoleKey) # {}
  <2>1. SUFFICES ASSUME Alike(r, cv.roles, RoleKey) = {}
                 PROVE  FALSE
    OBVIOUS
  <2>2. \A type : Blocked(type) \notin UnknownRole(cv, r)
    BY <1>1, <2>1 DEF RoleFindings
  <2>3. /\ \E w \in ToSet(cv.roles) : w.company = r.company
        /\ \E w \in ToSet(cv.roles) : w.title = r.title
    BY <2>2 DEF UnknownRole, When
  <2> QED
    BY <2>2, <2>3 DEF UnknownRole, When
<1>3. v \in ToSet(cv.roles) /\ Same(r, v, RoleKey)
  BY <1>2, FirstAgrees DEF Same
<1>4. \A type : Blocked(type) \notin KnownRole(v, r, MetricsOf(cv))
  BY <1>1, <1>2 DEF RoleFindings
<1>5. Dates(r) \subseteq Dates(v)
  BY <1>4 DEF KnownRole, When
<1>6. RoleText(r).metrics \subseteq RoleText(v).metrics
  <2>1. (RoleText(r).metrics \ RoleText(v).metrics) \cap MetricsOf(cv) = {}
    BY <1>4 DEF KnownRole, Reassigned, When
  <2> QED
    BY <2>1, MetricsOfParts, MetricsAreVerified
<1> QED
  BY <1>3, <1>5, <1>6

LEMMA AcceptedDegree ==
  ASSUME NEW cv, NEW d, Status(DocumentFindings(cv, d)) # "blocked",
         DOMAIN cv.degrees \subseteq Nat,
         NEW x \in ToSet(d.degrees)
  PROVE  \E v \in ToSet(cv.degrees) :
           Same(x, v, DegreeKey \cup {"gpa"}) /\ Dates(x) \subseteq Dates(v)
<1> DEFINE v == First(x, cv.degrees, DegreeKey)
<1>1. \A type : Blocked(type) \notin DegreeFindings(cv, x)
  BY NoPartBlocks
<1>2. Alike(x, cv.degrees, DegreeKey) # {}
  BY <1>1 DEF DegreeFindings
<1>3. v \in ToSet(cv.degrees) /\ Same(x, v, DegreeKey)
  BY <1>2, FirstAgrees DEF Same
<1>4. x.gpa = v.gpa /\ Dates(x) \subseteq Dates(v)
  BY <1>1, <1>2 DEF DegreeFindings, When
<1> QED
  BY <1>3, <1>4 DEF Same

LEMMA AcceptedProject ==
  ASSUME NEW cv, NEW d, Status(DocumentFindings(cv, d)) # "blocked",
         DOMAIN cv.projects \subseteq Nat,
         NEW p \in ToSet(d.projects)
  PROVE  \E v \in ToSet(cv.projects) :
           /\ Same(p, v, {"name", "url"})
           /\ p.technologies \subseteq v.technologies
           /\ p.description.metrics \subseteq v.description.metrics
<1> DEFINE v == First(p, cv.projects, {"name"})
<1>1. \A type : Blocked(type) \notin ProjectFindings(cv, p)
  BY NoPartBlocks
<1>2. Alike(p, cv.projects, {"name"}) # {}
  BY <1>1 DEF ProjectFindings
<1>3. v \in ToSet(cv.projects) /\ v.name = p.name
  BY <1>2, FirstAgrees
<1>4. /\ p.technologies \subseteq v.technologies
      /\ p.url = v.url
      /\ (p.description.metrics \ v.description.metrics)
           \cap MetricsOf(cv) = {}
  BY <1>1, <1>2 DEF ProjectFindings, Compare, Reassigned, When
<1> QED
  BY <1>3, <1>4, MetricsOfParts, MetricsAreVerified DEF Same

\* A document in which the comparison blocks nothing states no fact that the
\* CV does not state of the same role, degree or project.
LEMMA UnblockedIsGrounded ==
  ASSUME NEW cv \in Uploaded, NEW d,
         Status(DocumentFindings(cv, d)) # "blocked"
  PROVE  Grounded(cv, d)
<1>1. \A type : \A k \in Kinds :
        Blocked(type) \notin Compare(k, cv.claims[k], d.claims[k])
  BY NoPartBlocks
<1>2. \A k \in Kinds : d.claims[k] \subseteq cv.claims[k]
  BY <1>1 DEF Compare, When
<1>3. /\ DOMAIN cv.roles \subseteq Nat /\ DOMAIN cv.degrees \subseteq Nat
      /\ DOMAIN cv.projects \subseteq Nat
  BY DocumentConstants
<1>4. d.profile.metrics \subseteq MetricsOf(cv)
  BY MetricsOfParts, MetricsAreVerified
<1>5. ASSUME d.profile # Blank, NEW pair \in d.pairs,
             NEW a \in ToSet(cv.roles), NEW b \in ToSet(cv.roles),
             pair[1] = a.title, pair[2] = b.company
      PROVE  \E r \in ToSet(cv.roles) :
               r.title = pair[1] /\ r.company = pair[2]
  <2>1. Blocked("experience") \notin ProfileFindings(cv, d)
    BY NoPartBlocks
  <2>2. ~Recombined(cv, pair)
    BY <1>5, <2>1 DEF ProfileFindings, When
  <2> QED
    BY <1>5, <2>2 DEF Recombined
<1>6. \A r \in ToSet(d.roles) : \E v \in ToSet(cv.roles) :
        /\ Same(r, v, RoleKey) /\ Dates(r) \subseteq Dates(v)
        /\ RoleText(r).metrics \subseteq RoleText(v).metrics
  BY <1>3, AcceptedRole
<1>7. \A x \in ToSet(d.degrees) : \E v \in ToSet(cv.degrees) :
        Same(x, v, DegreeKey \cup {"gpa"}) /\ Dates(x) \subseteq Dates(v)
  BY <1>3, AcceptedDegree
<1>8. \A p \in ToSet(d.projects) : \E v \in ToSet(cv.projects) :
        /\ Same(p, v, {"name", "url"}) /\ p.technologies \subseteq v.technologies
        /\ p.description.metrics \subseteq v.description.metrics
  BY <1>3, AcceptedProject
<1>9. d.profile # Blank =>
        \A pair \in d.pairs : \A a, b \in ToSet(cv.roles) :
          pair[1] = a.title /\ pair[2] = b.company =>
            \E r \in ToSet(cv.roles) : r.title = pair[1] /\ r.company = pair[2]
  BY <1>5
<1> QED
  BY <1>2, <1>4, <1>6, <1>7, <1>8, <1>9, Zenon DEF Grounded

\* The uploaded CV stays what it is.
LEMMA CvStays ==
  ASSUME [DocumentNext]_documentVars
  PROVE  verified' = verified
BY DEF DocumentNext, GenerateText, EditProfile, EditRole, EditProject,
       documentVars

\* For any CVs, answers and edits: whatever is stored, and whatever would be,
\* is grounded in the uploaded CV (AcceptedIsGrounded).
THEOREM AcceptedDocuments == DocumentSpec => []AcceptedIsGrounded
<1>1. DocumentInit => verified \in Uploaded
  BY DEF DocumentInit
<1>2. verified \in Uploaded /\ [DocumentNext]_documentVars
        => (verified \in Uploaded)'
  BY CvStays
<1>3. verified \in Uploaded => AcceptedIsGrounded
  BY UnblockedIsGrounded DEF AcceptedIsGrounded, Storable
<1> QED
  BY <1>1, <1>2, <1>3, PTL DEF DocumentSpec

-----------------------------------------------------------------------------
(* Which text a role has.                                                  *)

\* n updates that name all of 1..n name each only once.
LEMMA UpdatesAreUnique ==
  ASSUME NEW n \in Nat, NEW updates, DOMAIN updates = 1..Len(updates),
         CompleteUpdates(updates, n),
         NEW u \in ToSet(updates), NEW w \in ToSet(updates),
         u.index = w.index
  PROVE  u = w
<1> DEFINE index == [j \in 1..n |-> updates[j].index]
<1>1. DOMAIN updates = 1..n /\ {x.index : x \in ToSet(updates)} = 1..n
  BY DEF CompleteUpdates
<1>2. \A j \in 1..n : updates[j].index \in 1..n
  BY <1>1 DEF ToSet
<1>3. \A i \in 1..n : \E j \in 1..n : updates[j].index = i
  BY <1>1 DEF ToSet
<1>4. index \in Surjection(1..n, 1..n)
  BY <1>2, <1>3 DEF Surjection
<1>5. IsFiniteSet(1..n)
  BY FS_Interval
<1>6. index \in Injection(1..n, 1..n)
  BY <1>4, <1>5, FS_SurjSameCardinalityImpliesInj
<1>7. PICK j \in 1..n, k \in 1..n : updates[j] = u /\ updates[k] = w
  BY <1>1 DEF ToSet
<1>8. index[j] = index[k]
  BY <1>7
<1>9. j = k
  <2> HIDE DEF index
  <2> QED
    BY <1>6, <1>8 DEF Injection, IsInjective
<1> QED
  BY <1>7, <1>9

LEMMA UpdateOfRole ==
  ASSUME NEW n \in Nat, NEW updates, DOMAIN updates = 1..Len(updates),
         CompleteUpdates(updates, n),
         NEW w \in ToSet(updates)
  PROVE  UpdateOf(updates, w.index) = w
<1>1. \E u \in ToSet(updates) : u.index = w.index
  OBVIOUS
<1>2. /\ UpdateOf(updates, w.index) \in ToSet(updates)
      /\ UpdateOf(updates, w.index).index = w.index
  BY <1>1 DEF UpdateOf
<1> QED
  BY <1>2, UpdatesAreUnique

LEMMA TextsInit ==
  ASSUME DocumentInit
  PROVE  TextInv
BY DEF DocumentInit, TextInv

LEMMA GeneratedTexts ==
  ASSUME TextInv, GenerateText
  PROVE  TextInv'
<1>1. PICK answer \in Answers(verified) :
        /\ Acceptable(verified, answer)
        /\ document' = Build(verified, answer)
        /\ \E r \in [DOMAIN sent -> ToSet(answer.roles)] :
             /\ \A i \in DOMAIN sent : r[i].index = i
             /\ sent' = [i \in DOMAIN sent |-> r[i].description]
        /\ UNCHANGED verified
  BY DEF GenerateText
<1>2. PICK r \in [DOMAIN sent -> ToSet(answer.roles)] :
        /\ \A i \in DOMAIN sent : r[i].index = i
        /\ sent' = [i \in DOMAIN sent |-> r[i].description]
  BY <1>1
<1>3. /\ verified \in Uploaded /\ DOMAIN sent = DOMAIN verified.roles
      /\ Len(verified.roles) \in Nat
      /\ DOMAIN answer.roles = 1..Len(answer.roles)
      /\ CompleteUpdates(answer.roles, Len(verified.roles))
  BY <1>1, DocumentConstants DEF TextInv, Acceptable
<1> DEFINE update(i) == UpdateOf(answer.roles, i)
           roles == [i \in DOMAIN verified.roles |->
                       [verified.roles[i] EXCEPT
                          !.description = update(i).description,
                          !.highlights = update(i).highlights]]
<1>4. /\ DOMAIN Build(verified, answer) = DOMAIN Nothing
      /\ Build(verified, answer).roles = roles
  BY <1>3, DocumentConstants DEF Build, Nothing
<1>5. ASSUME NEW i \in DOMAIN sent
      PROVE  /\ "description" \in DOMAIN roles[i]
             /\ roles[i].description = r[i].description
  <2>1. update(i) = r[i]
    BY <1>2, <1>3, UpdateOfRole
  <2>2. {"description", "highlights"} \subseteq DOMAIN verified.roles[i]
    BY <1>3, DocumentConstants
  <2>3. roles[i] = [verified.roles[i] EXCEPT !.description = r[i].description,
                                             !.highlights = r[i].highlights]
    BY <1>3, <2>1
  <2> QED
    BY <2>2, <2>3
<1> QED
  BY <1>1, <1>2, <1>3, <1>4, <1>5 DEF TextInv

LEMMA EditedTexts ==
  ASSUME TextInv, EditRole
  PROVE  TextInv'
<1>1. PICK i \in DOMAIN document.roles, e \in Edits(document) :
        /\ document' = [document EXCEPT !.roles[i].description = e]
        /\ sent' = [sent EXCEPT ![i] = e]
  BY DEF EditRole
<1>2. document # NoDocument /\ UNCHANGED verified
  BY DEF EditRole
<1> DEFINE role  == [document.roles[i] EXCEPT !.description = e]
           roles == [document.roles EXCEPT ![i] = role]
<1>3. /\ DOMAIN document = DOMAIN Nothing
      /\ DOMAIN document.roles = DOMAIN sent
      /\ \A k \in DOMAIN sent :
           /\ "description" \in DOMAIN document.roles[k]
           /\ document.roles[k].description = sent[k]
  BY <1>2 DEF TextInv
<1>4. document' = [document EXCEPT !.roles = roles]
  BY <1>1
<1>5. role.description = e /\ "description" \in DOMAIN role
  BY <1>1, <1>3
<1> HIDE DEF role
<1>6. DOMAIN document' = DOMAIN document /\ document'.roles = roles
  BY <1>3, <1>4 DEF Nothing
<1>7. /\ DOMAIN roles = DOMAIN sent
      /\ roles[i] = role
      /\ \A k \in DOMAIN sent \ {i} : roles[k] = document.roles[k]
  BY <1>1, <1>3
<1> HIDE DEF roles
<1>8. /\ DOMAIN sent' = DOMAIN sent
      /\ sent'[i] = e
      /\ \A k \in DOMAIN sent \ {i} : sent'[k] = sent[k]
  BY <1>1, <1>3
<1>9. ASSUME NEW k \in DOMAIN sent
      PROVE  /\ "description" \in DOMAIN roles[k]
             /\ roles[k].description = sent'[k]
  BY <1>3, <1>5, <1>7, <1>8
<1> QED
  BY <1>2, <1>3, <1>6, <1>7, <1>8, <1>9 DEF TextInv

LEMMA OtherEdits ==
  ASSUME TextInv, EditProfile \/ EditProject
  PROVE  TextInv'
<1>1. /\ document # NoDocument /\ UNCHANGED <<verified, sent>>
      /\ DOMAIN document = DOMAIN Nothing
  BY DEF EditProfile, EditProject, TextInv
<1>2. DOMAIN document' = DOMAIN document /\ document'.roles = document.roles
  <2>1. CASE EditProfile
    BY <1>1, <2>1 DEF EditProfile, Nothing
  <2>2. CASE EditProject
    <3>1. PICK i \in DOMAIN document.projects, e \in Edits(document) :
            document' = [document EXCEPT !.projects[i].description = e]
      BY <2>2 DEF EditProject
    <3> DEFINE projects == [document.projects EXCEPT ![i].description = e]
    <3>2. document' = [document EXCEPT !.projects = projects]
      BY <3>1
    <3> HIDE DEF projects
    <3> QED
      BY <1>1, <3>2 DEF Nothing
  <2> QED
    BY <2>1, <2>2
<1> QED
  BY <1>1, <1>2 DEF TextInv

\* For any CVs, answers and edits: the text of a role is the one last accepted
\* for this role (TextsStayWithTheirRole).
THEOREM TextsOfRoles == DocumentSpec => []TextsStayWithTheirRole
<1>1. TextInv /\ [DocumentNext]_documentVars => TextInv'
  <2> SUFFICES ASSUME TextInv, [DocumentNext]_documentVars
               PROVE  TextInv'
    OBVIOUS
  <2>1. CASE UNCHANGED documentVars
    BY <2>1 DEF TextInv, documentVars
  <2> QED
    BY <2>1, GeneratedTexts, EditedTexts, OtherEdits DEF DocumentNext
<1>2. TextInv => TextsStayWithTheirRole
  BY DEF TextInv, TextsStayWithTheirRole
<1> QED
  BY <1>1, <1>2, TextsInit, PTL DEF DocumentSpec

=============================================================================
