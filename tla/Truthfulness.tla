---------------------------- MODULE Truthfulness ----------------------------
(***************************************************************************)
(* What a generated CV or letter may say (fabrication-detector.ts): it is  *)
(* compared with the CV the user uploaded, claim by claim.  A claim is a   *)
(* model value: two spellings that normalizeClaim makes equal are one.  A  *)
(* text is the set of its words and of its metrics ("40 %"); order, common *)
(* words and inflection are left out.  Findings that only confirm are not  *)
(* kept.                                                                   *)
(***************************************************************************)
EXTENDS Naturals, SequencesExt

Kinds == {"skill", "language", "certification"}

Text(words, metrics) == [words |-> words, metrics |-> metrics]
Blank   == Text({}, {})
Both(a, b) == Text(a.words \cup b.words, a.metrics \cup b.metrics)

\* A CV: claims by kind, roles [company, title, start, end, description,
\* highlights], degrees [institution, degree, start, end, gpa], projects
\* [name, technologies, url, description] and the profile, a text with the
\* pairs of title and employer that it joins.
Nothing == [claims |-> [k \in Kinds |-> {}], roles |-> <<>>, degrees |-> <<>>,
            projects |-> <<>>, profile |-> Blank, pairs |-> {}]

Blocked(type) == [class |-> "blocked", type |-> type]
Confirm(type) == [class |-> "confirm", type |-> type]
When(condition, finding) == IF condition THEN {finding} ELSE {}

-----------------------------------------------------------------------------
RoleText(r) == Both(r.description, r.highlights)

\* All the text a CV holds: its metrics are the verified ones, its words the
\* context of a narrative.
MetricsOf(cv) ==
  (UNION {RoleText(r).metrics : r \in ToSet(cv.roles)})
    \cup (UNION {p.description.metrics : p \in ToSet(cv.projects)})
    \cup cv.profile.metrics

RoleWords(r) == RoleText(r).words \cup {r.company, r.title}
ProjectWords(p) == p.description.words \cup p.technologies \cup {p.name}

\* The words outside the roles, and those of the given roles.
Context(cv, roles) ==
  (UNION {cv.claims[k] : k \in Kinds})
    \cup (UNION {{d.institution, d.degree} : d \in ToSet(cv.degrees)})
    \cup (UNION {ProjectWords(p) : p \in ToSet(cv.projects)})
    \cup (UNION {RoleWords(r) : r \in roles})

\* New words need a confirmation, and so does a text that is emptied.
Narrative(original, proposed, context) ==
  When(/\ proposed # original
       /\ proposed = Blank
            \/ ~(proposed.words \subseteq original.words \cup context),
       Confirm("narrative"))

\* A metric that is true of something else.
Reassigned(original, proposed, all) ==
  When((proposed.metrics \ original.metrics) \cap all # {}, Blocked("metric"))

\* What is new is blocked, what is missing is to be confirmed.
Compare(type, original, proposed) ==
  When(~(proposed \subseteq original), Blocked(type))
    \cup When(~(original \subseteq proposed), Confirm(type))

\* An end that is left open is "Present"; no other date is filled in.
Dates(x) == {x.start, x.end} \ {""}

\* find: the first entry that agrees with x on the key.
Same(x, y, key) == \A f \in key : x[f] = y[f]
Alike(x, list, key) == {i \in DOMAIN list : Same(list[i], x, key)}
First(x, list, key) == list[Min(Alike(x, list, key))]
Omitted(type, list, proposed, key) ==
  When(\E x \in ToSet(list) : Alike(x, proposed, key) = {}, Confirm(type))

RoleKey == {"company", "title"}
DegreeKey == {"institution", "degree"}

UnknownRole(cv, r) ==
  LET employer == \E v \in ToSet(cv.roles) : v.company = r.company
      title    == \E v \in ToSet(cv.roles) : v.title = r.title
  IN  When(~employer, Blocked("experience")) \cup When(~title, Blocked("title"))
        \cup When(employer /\ title, Blocked("experience"))

KnownRole(v, r, all) ==
  When(~(Dates(r) \subseteq Dates(v)), Blocked("date"))
    \cup Reassigned(RoleText(v), RoleText(r), all)
    \cup Narrative(v.description, r.description, RoleWords(v))
    \cup Narrative(v.highlights, r.highlights, RoleWords(v))

RoleFindings(cv, r) ==
  IF Alike(r, cv.roles, RoleKey) = {} THEN UnknownRole(cv, r)
  ELSE KnownRole(First(r, cv.roles, RoleKey), r, MetricsOf(cv))

DegreeFindings(cv, d) ==
  IF Alike(d, cv.degrees, DegreeKey) = {} THEN {Blocked("education")}
  ELSE LET v == First(d, cv.degrees, DegreeKey)
       IN  When(~(Dates(d) \subseteq Dates(v)), Blocked("date"))
             \cup When(d.gpa # v.gpa, Blocked("education"))

ProjectFindings(cv, p) ==
  IF Alike(p, cv.projects, {"name"}) = {} THEN {Blocked("project")}
  ELSE LET v == First(p, cv.projects, {"name"})
       IN  Compare("project", v.technologies, p.technologies)
             \cup When(p.url # v.url, Blocked("project"))
             \cup Reassigned(v.description, p.description, MetricsOf(cv))
             \cup Narrative(v.description, p.description, ProjectWords(v))

\* Mutant: every pair of two verified names will do.
AnyPair(cv, pair) == FALSE

\* The profile joins the title of one role and the employer of another.
Recombined(cv, pair) ==
  \E a, b \in ToSet(cv.roles) :
    a.title = pair[1] /\ b.company = pair[2] /\ a.company # b.company

\* A profile that names roles is held to these roles and to what is in none.
ProfileFindings(cv, d) ==
  LET named == {r \in ToSet(cv.roles) :
                  {r.company, r.title} \cap d.profile.words # {}}
      about == UNION {RoleText(r).metrics : r \in named}
  IN  IF d.profile = Blank THEN {}
      ELSE When(\E pair \in d.pairs : Recombined(cv, pair),
                Blocked("experience"))
             \cup When(named # {}
                         /\ (d.profile.metrics \ about) \cap MetricsOf(cv) # {},
                       Blocked("metric"))
             \cup Narrative(Blank, d.profile,
                    Context(cv, IF named = {} THEN ToSet(cv.roles)
                                              ELSE named))

\* analyzeResumeTruthfulness with both documents; `metrics` are those of the
\* text that the reader will see.
Findings(cv, d, metrics) ==
  (UNION {Compare(k, cv.claims[k], d.claims[k]) : k \in Kinds})
    \cup (UNION {RoleFindings(cv, r) : r \in ToSet(d.roles)})
    \cup Omitted("experience", cv.roles, d.roles, RoleKey)
    \cup (UNION {DegreeFindings(cv, x) : x \in ToSet(d.degrees)})
    \cup Omitted("education", cv.degrees, d.degrees, DegreeKey)
    \cup (UNION {ProjectFindings(cv, p) : p \in ToSet(d.projects)})
    \cup Omitted("project", cv.projects, d.projects, {"name"})
    \cup ProfileFindings(cv, d)
    \cup When(~(metrics \subseteq MetricsOf(cv)), Blocked("metric"))

Status(findings) ==
  IF \E f \in findings : f.class = "blocked" THEN "blocked"
  ELSE IF findings # {} THEN "review_required" ELSE "passed"

DocumentFindings(cv, d) == Findings(cv, d, MetricsOf(d))

\* A letter is compared as a document that holds nothing but its metrics.
LetterFindings(cv, letter) == Findings(cv, Nothing, letter.metrics)

=============================================================================
