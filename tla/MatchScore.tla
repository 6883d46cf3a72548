------------------------------ MODULE MatchScore ------------------------------
(***************************************************************************)
(* How well a CV answers a job offer (match-score.ts).  A text is a        *)
(* sequence of words where their order matters, else a set; a word stands  *)
(* for its stem, and an alias of several words for one.  The tables hold a *)
(* few of their entries.  Scores are 0..100, fractions are rounded half    *)
(* up, years are counted in tenths.  The lists of keywords, the            *)
(* explanation and the confidence follow from these and are left out.      *)
(*                                                                         *)
(* offer: [text, title, years, level, equivalent]: its words in order, the *)
(*   words of its title line, the years and the degree it asks for (0:     *)
(*   none) and whether experience may replace the degree.                  *)
(* cv: [words, titles, periods, declared, level]: all its words, the words *)
(*   of each job title, the periods of its jobs with readable dates, the   *)
(*   years it declares itself (0: none), its degree.                       *)
(***************************************************************************)
EXTENDS Integers, FiniteSetsExt, SequencesExt

Term(name, aliases) == [name |-> name, aliases |-> aliases \cup {name}]

SKILLS == {Term("sql", {}), Term("excel", {"ms excel"}), Term("python", {}),
           Term("docker", {}), Term("sap", {})}
LANGUAGES == {Term("english", {"anglais"}), Term("french", {"francais"})}
CERTIFICATIONS == {Term("pmp", {"project management professional"})}
RESPONSIBILITY_CONCEPTS ==
  {Term("reporting", {"dashboard", "tableau de bord"}),
   Term("automation", {"automate", "automatiser"})}

REQUIRED_MARKERS  == {"required", "must", "requis"}
PREFERRED_MARKERS == {"preferred", "bonus", "souhaite"}
STOPWORDS         == {"and", "experience", "required", "requis", "preferred"}
ROLE_STOPWORDS    == {"senior", "junior", "lead"}

\* How far before and after a requirement a marker counts, in words.
Back  == 4
Ahead == 2

NotAsked == -1

CATEGORY_WEIGHTS ==
  [skills |-> 40, experience |-> 25, responsibilities |-> 15, education |-> 10,
   languages |-> 7, certifications |-> 3]

Round(a, b)    == (2 * a + b) \div (2 * b)
Share(part, S) == Round(100 * Cardinality(part), Cardinality(S))
\* A sum of naturals, as the number of units that they add up to.
Total(f(_), S) == Cardinality(UNION {{x} \X (1..f(x)) : x \in S})

-----------------------------------------------------------------------------
(* Terms that the offer names and the CV has or lacks.                     *)

Has(words, t) == t.aliases \cap words # {}

\* findOccurrence: the first place of any alias.
Places(text, words) == {i \in DOMAIN text : text[i] \in words}
Occurrence(text, t) == Min(Places(text, t.aliases))

\* nearestMarkerDistance: of each marker the last one before and the first one
\* after the place; Far if none is near enough.
Far == Back + Ahead + 1
Distance(text, at, markers) ==
  Min({Far} \cup
      {at - i : i \in {i \in Places(text, markers) : i <= at /\ at - i <= Back}}
      \cup
      {i - at : i \in {i \in Places(text, markers) : i > at /\ i - at <= Ahead}})

\* requirementWeight, in hundredths: preferred if such a marker is nearer.
Weight(text, t) ==
  LET at   == Occurrence(text, t)
      must == Distance(text, at, REQUIRED_MARKERS)
      nice == Distance(text, at, PREFERRED_MARKERS)
  IN  IF nice < must THEN 65 ELSE IF must < Far THEN 135 ELSE 100

Asked(table, offer) == {t \in table : Has(ToSet(offer.text), t)}
Lacking(table, cv, offer) == {t \in Asked(table, offer) : ~Has(cv.words, t)}

\* hardMissing: required and missing.
Hard(table, cv, offer) ==
  {t \in Lacking(table, cv, offer) : Weight(offer.text, t) >= 125}

scoreTerms(table, cv, offer) ==
  LET asked     == Asked(table, offer)
      weight(t) == Weight(offer.text, t)
  IN  IF asked = {} THEN NotAsked
      ELSE Round(100 * Total(weight, asked \ Lacking(table, cv, offer)),
                 Total(weight, asked))

-----------------------------------------------------------------------------
(* Experience.                                                             *)

\* A date is [year, month]; month 0 is unknown, year 0 is "present", which only
\* an end may be.
Dates   == [year: 1900..2099, month: 0..12]
Present == [year |-> 0, month |-> 0]

\* parseMonth: an unknown month is January.
parseMonth(when, today) ==
  IF when = Present THEN today ELSE 12 * when.year + Max({when.month - 1, 0})

\* A start of which only the year is known counts from its December, lest the
\* experience be overstated.
FirstVerified(when, today) ==
  parseMonth(when, today) + (IF when.month = 0 /\ when # Present THEN 11 ELSE 0)

\* The months of one job, a hundred years at most.
MonthsOf(p, today) ==
  LET first == FirstVerified(p.start, today)
  IN  first..Min({parseMonth(p.end, today), first + 1200})

Months(cv, today) == UNION {MonthsOf(p, today) : p \in cv.periods}

\* Overlapping jobs count once; a longer time the CV declares counts instead.
ExperienceTenths(cv, today) ==
  Max({Round(10 * Cardinality(Months(cv, today)), 12), 10 * cv.declared})

RoleTokens(words) == words \ (STOPWORDS \cup ROLE_STOPWORDS)

TitleShares(cv, offer) ==
  LET title  == RoleTokens(offer.title)
      titles == IF cv.titles = {} THEN {cv.words} ELSE cv.titles
  IN  {Share(title \cap RoleTokens(t), title) : t \in titles}

\* Mutant: the titles are averaged.
MeanRoleScore(cv, offer) ==
  LET shares == TitleShares(cv, offer)
      same(x) == x
  IN  Round(Total(same, shares), Cardinality(shares))

\* calculateRoleScore: the best of the titles; without any, the whole text.
RoleScore(cv, offer) == Max(TitleShares(cv, offer))

YearsScore(cv, offer, today) ==
  Min({100, Round(100 * ExperienceTenths(cv, today), 10 * offer.years)})

scoreExperience(cv, offer, today) ==
  LET years == offer.years # 0
      role  == RoleTokens(offer.title) # {}
  IN  CASE years /\ role -> Round(7 * YearsScore(cv, offer, today)
                                    + 3 * RoleScore(cv, offer), 10)
        [] years /\ ~role -> YearsScore(cv, offer, today)
        [] ~years /\ role -> RoleScore(cv, offer)
        [] OTHER -> NotAsked

YearsLacking(cv, offer, today) == ExperienceTenths(cv, today) < 10 * offer.years

-----------------------------------------------------------------------------
(* Responsibilities and education.                                         *)

\* importantTerms, of which there are at most twenty here: the words of the
\* offer that are no requested skill and no responsibility.
Important(offer) ==
  ToSet(offer.text) \
    (STOPWORDS \cup {t.name : t \in Asked(SKILLS, offer)}
       \cup UNION {t.aliases : t \in Asked(RESPONSIBILITY_CONCEPTS, offer)})

scoreResponsibilities(cv, offer) ==
  LET asked == Asked(RESPONSIBILITY_CONCEPTS, offer)
      known == {t \in asked : Has(cv.words, t)}
      terms == Important(offer)
      both  == Cardinality(asked) * Cardinality(terms)
  IN  IF asked = {} THEN IF Cardinality(terms) < 3 THEN NotAsked
                         ELSE Share(terms \cap cv.words, terms)
      ELSE IF terms = {} THEN Share(known, asked)
      ELSE Round(65 * Cardinality(known) * Cardinality(terms)
                   + 35 * Cardinality(terms \cap cv.words) * Cardinality(asked),
                 both)

scoreEducation(cv, offer) ==
  LET gap  == offer.level - cv.level
      base == CASE gap <= 0 -> 100 [] gap = 1 -> 55 [] gap = 2 -> 20 [] OTHER -> 0
  IN  IF offer.level = 0 THEN NotAsked
      ELSE IF offer.equivalent THEN Max({base, 70}) ELSE base

-----------------------------------------------------------------------------
Components(cv, offer, today) ==
  [skills           |-> scoreTerms(SKILLS, cv, offer),
   experience       |-> scoreExperience(cv, offer, today),
   responsibilities |-> scoreResponsibilities(cv, offer),
   education        |-> scoreEducation(cv, offer),
   languages        |-> scoreTerms(LANGUAGES, cv, offer),
   certifications   |-> scoreTerms(CERTIFICATIONS, cv, offer)]

\* applyHardRequirementCaps.
Caps(s, cv, offer, today) ==
  {100}
    \cup (IF s.skills \in 0..24 /\ Cardinality(Hard(SKILLS, cv, offer)) >= 3
            THEN {45}
          ELSE IF s.skills \in 0..49 THEN {65} ELSE {})
    \cup (IF s.experience \in 0..39 /\ YearsLacking(cv, offer, today)
            THEN {60} ELSE {})
    \cup (IF s.education \in 0..19 THEN {70} ELSE {})
    \cup (IF s.languages = 0 /\ Hard(LANGUAGES, cv, offer) # {}
            THEN {75} ELSE {})

\* calculateMatchScore: the weighted mean of what the offer asks for, capped.
calculateMatchScore(cv, offer, today) ==
  LET s            == Components(cv, offer, today)
      applicable   == {c \in DOMAIN s : s[c] # NotAsked}
      weight(c)    == CATEGORY_WEIGHTS[c]
      weighted(c)  == s[c] * CATEGORY_WEIGHTS[c]
  IN  IF applicable = {} THEN 0
      ELSE Min({Round(Total(weighted, applicable), Total(weight, applicable))}
               \cup Caps(s, cv, offer, today))

-----------------------------------------------------------------------------
(* What the parser reads and the boards offer.                             *)

IsReading(cv) ==
  /\ cv.periods \subseteq [start: Dates, end: Dates \cup {Present}]
  /\ cv.declared \in Nat /\ cv.level \in Nat

IsOffer(offer) ==
  /\ IsFiniteSet(DOMAIN offer.text) /\ IsFiniteSet(offer.title)
  /\ offer.years \in Nat /\ offer.level \in Nat

\* The second CV says all that the first one says.  A title counts beside
\* others: without any, the whole text stands for one.
Supplements(cv, more) ==
  /\ cv.words \subseteq more.words /\ cv.periods \subseteq more.periods
  /\ cv.declared <= more.declared /\ cv.level <= more.level
  /\ IF cv.titles = {} THEN more.titles = {} ELSE cv.titles \subseteq more.titles

=============================================================================
