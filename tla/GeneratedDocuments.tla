------------------------- MODULE GeneratedDocuments -------------------------
(***************************************************************************)
(* The generated CV of one application: built from the uploaded CV and the *)
(* answer of the AI (generated-resume.ts), edited by the user, and stored  *)
(* only if the comparison with the uploaded CV blocks nothing.             *)
(***************************************************************************)
EXTENDS Truthfulness

CONSTANTS
  Uploaded,      \* CVs that the parser may have read
  Answers(_),    \* answers of the AI to a CV, well formed or not
  Edits(_),      \* texts a user may write into a document
  Variants(_),   \* documents that differ from one in some fact
  NoDocument

\* generated-resume.ts: the entries of a CV are lists, and so are those of the
\* answers that it reads; a role has its two texts.
ASSUME DocumentConstants ==
  /\ NoDocument \notin Uploaded
  /\ \A cv \in Uploaded :
       /\ DOMAIN cv = DOMAIN Nothing
       /\ DOMAIN cv.roles = 1..Len(cv.roles)
       /\ DOMAIN cv.degrees = 1..Len(cv.degrees)
       /\ DOMAIN cv.projects = 1..Len(cv.projects)
       /\ \A i \in DOMAIN cv.roles :
            {"description", "highlights"} \subseteq DOMAIN cv.roles[i]
       /\ \A answer \in Answers(cv) :
            /\ DOMAIN answer.roles = 1..Len(answer.roles)
            /\ Len(answer.roles) \in Nat

VARIABLES
  verified,  \* resumes.parsedJson
  document,  \* resume_versions.documentJson
  sent       \* history: the text last accepted for each role, of AI or user

documentVars == <<verified, document, sent>>

\* readVerifiedResume: an entry lacks no name and no start date.
Complete(cv) ==
  /\ \A r \in ToSet(cv.roles) : "" \notin {r.title, r.company, r.start}
  /\ \A d \in ToSet(cv.degrees) :
       "" \notin {d.degree, d.institution, d.start, d.end}
  /\ \A p \in ToSet(cv.projects) : p.name # ""

\* Updates of n entries: one for each, none blank.
CompleteUpdates(updates, n) ==
  /\ Len(updates) = n
  /\ {u.index : u \in ToSet(updates)} = 1..n
  /\ \A u \in ToSet(updates) : u.description # Blank

\* The skills may only be reordered.
Reordered(order, skills) == ToSet(order) = skills /\ IsInjective(order)

Acceptable(cv, answer) ==
  /\ Complete(cv)
  /\ answer.profile # Blank
  /\ CompleteUpdates(answer.roles, Len(cv.roles))
  /\ CompleteUpdates(answer.projects, Len(cv.projects))
  /\ Reordered(answer.skills, cv.claims["skill"])

\* Mutant: the updates are taken in the order in which they come.
InOrder(updates, i) == updates[i]

\* orderCompleteUpdates: the update that names the entry.
UpdateOf(updates, i) == CHOOSE u \in ToSet(updates) : u.index = i

\* buildGeneratedResumeDocument: the facts of the uploaded CV, the texts of
\* the answer.
Build(cv, answer) ==
  [cv EXCEPT
    !.profile = answer.profile, !.pairs = answer.pairs,
    !.roles = [i \in DOMAIN cv.roles |->
      LET u == UpdateOf(answer.roles, i)
      IN  [cv.roles[i] EXCEPT !.description = u.description,
                              !.highlights = u.highlights]],
    !.projects = [i \in DOMAIN cv.projects |->
      [cv.projects[i] EXCEPT
        !.description = UpdateOf(answer.projects, i).description]]]

Storable(d) == Status(DocumentFindings(verified, d)) # "blocked"

DocumentInit ==
  /\ verified \in Uploaded
  /\ document = NoDocument
  /\ sent = [i \in DOMAIN verified.roles |-> Blank]

\* optimizeResume, also again: a new version with the accepted answer.
GenerateText ==
  \E answer \in Answers(verified) :
    /\ Acceptable(verified, answer)
    /\ LET d == Build(verified, answer)
       IN  Storable(d) /\ document' = d
    /\ \E r \in [DOMAIN sent -> ToSet(answer.roles)] :
         /\ \A i \in DOMAIN sent : r[i].index = i
         /\ sent' = [i \in DOMAIN sent |-> r[i].description]
    /\ UNCHANGED verified

\* updateMaterials: the profile, a role or a project is rewritten.
EditProfile ==
  /\ document # NoDocument
  /\ \E e \in Edits(document) \ {Blank} :
       LET d == [document EXCEPT !.profile = e, !.pairs = {}]
       IN  Storable(d) /\ document' = d
  /\ UNCHANGED <<verified, sent>>

EditRole ==
  /\ document # NoDocument
  /\ \E i \in DOMAIN document.roles, e \in Edits(document) :
       /\ LET d == [document EXCEPT !.roles[i].description = e]
          IN  Storable(d) /\ document' = d
       /\ sent' = [sent EXCEPT ![i] = e]
  /\ UNCHANGED verified

EditProject ==
  /\ document # NoDocument
  /\ \E i \in DOMAIN document.projects, e \in Edits(document) :
       LET d == [document EXCEPT !.projects[i].description = e]
       IN  Storable(d) /\ document' = d
  /\ UNCHANGED <<verified, sent>>

DocumentNext == GenerateText \/ EditProfile \/ EditRole \/ EditProject

DocumentSpec == DocumentInit /\ [][DocumentNext]_documentVars

-----------------------------------------------------------------------------
\* Every fact of d stands in the CV, at the same role, degree or project, and
\* so does every metric; the profile gives no title to another employer.
Grounded(cv, d) ==
  /\ \A k \in Kinds : d.claims[k] \subseteq cv.claims[k]
  /\ \A r \in ToSet(d.roles) : \E v \in ToSet(cv.roles) :
       /\ Same(r, v, RoleKey) /\ Dates(r) \subseteq Dates(v)
       /\ RoleText(r).metrics \subseteq RoleText(v).metrics
  /\ \A x \in ToSet(d.degrees) : \E v \in ToSet(cv.degrees) :
       Same(x, v, DegreeKey \cup {"gpa"}) /\ Dates(x) \subseteq Dates(v)
  /\ \A p \in ToSet(d.projects) : \E v \in ToSet(cv.projects) :
       /\ Same(p, v, {"name", "url"}) /\ p.technologies \subseteq v.technologies
       /\ p.description.metrics \subseteq v.description.metrics
  /\ d.profile.metrics \subseteq MetricsOf(cv)
  /\ d.profile # Blank =>
       \A pair \in d.pairs : \A a, b \in ToSet(cv.roles) :
         pair[1] = a.title /\ pair[2] = b.company =>
           \E r \in ToSet(cv.roles) : r.title = pair[1] /\ r.company = pair[2]

\* Whatever the AI answers and the user writes, the stored document states
\* nothing that the uploaded CV does not state of the same role or project; and
\* a document with another fact in it would not be stored.
AcceptedIsGrounded ==
  document = NoDocument \/
    \A d \in {document} \cup Variants(document) :
      Storable(d) => Grounded(verified, d)

\* The text of a role is the one last accepted for this role, also when the AI
\* lists the roles in another order.
TextsStayWithTheirRole ==
  document = NoDocument \/
    \A i \in DOMAIN document.roles :
      document.roles[i].description = sent[i]

\* Inductive: the document has the roles of the CV, each with the text last
\* accepted for it.
TextInv ==
  /\ verified \in Uploaded
  /\ DOMAIN sent = DOMAIN verified.roles
  /\ document # NoDocument =>
       /\ DOMAIN document = DOMAIN Nothing
       /\ DOMAIN document.roles = DOMAIN sent
       /\ \A i \in DOMAIN sent :
            /\ "description" \in DOMAIN document.roles[i]
            /\ document.roles[i].description = sent[i]

\* The uploaded CV is not blocked, nor is a profile that names one of its roles
\* ("should return no fabrications when content is unchanged", "allows
\* structured claims that remain grounded in the verified profile",
\* fabrication-detector.spec.ts).
TruthIsAccepted ==
  \A r \in ToSet(verified.roles) :
    Storable([verified EXCEPT !.profile = Text({r.title, r.company}, {}),
                              !.pairs = {<<r.title, r.company>>}])

=============================================================================
