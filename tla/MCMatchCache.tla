---------------------------- MODULE MCMatchCache ----------------------------
(* Three offers and three readings of one resume. *)
EXTENDS MatchCache, TLC

Date(y, m) == [year |-> y, month |-> m]
Period(a, b) == [start |-> a, end |-> b]

FullCV ==
  [words |-> {"analyst", "excel", "sql", "french", "dashboard", "retail"},
   titles |-> {{"analyst"}}, declared |-> 0, level |-> 3,
   periods |-> {Period(Date(2021, 3), Date(2022, 6)),
                Period(Date(2023, 0), Present)}]
ShortCV ==
  [words |-> {"analyst", "excel"}, titles |-> {}, declared |-> 0, level |-> 0,
   periods |-> {}]
WrongCV ==
  [words |-> {"cook", "ms excel", "english"}, titles |-> {{"cook"}, {"cook", "chef"}},
   declared |-> 1, level |-> 2, periods |-> {Period(Date(2022, 0), Date(2023, 0))}]

Readings == {FullCV, ShortCV, WrongCV}

\* Required skills first, preferred ones last; a degree, two languages.
Analyst ==
  [text |-> <<"senior", "analyst", "required", "sql", "excel", "python", "and",
              "english", "retail", "dashboard", "bonus", "docker", "french">>,
   title |-> {"senior", "analyst"}, years |-> 3, level |-> 4,
   equivalent |-> FALSE]
\* No years, no title; the degree may be replaced.
Clerk ==
  [text |-> <<"must", "francais", "sap", "stock", "retail", "pmp", "preferred">>,
   title |-> {}, years |-> 0, level |-> 5, equivalent |-> TRUE]
\* Little but a title with years.
Cook == [text |-> <<"cook", "chef">>, title |-> {"cook", "chef"}, years |-> 1,
         level |-> 0, equivalent |-> FALSE]

SomeOffers == {Analyst, Clerk, Cook}

\* One more word, period, title or degree.
Supplemented(cv) ==
  {[cv EXCEPT !.words = @ \cup {w}] :
     w \in {"sql", "anglais", "python", "docker", "pmp", "sap", "stock"}}
    \cup {[cv EXCEPT !.periods = @ \cup {p}] :
            p \in {Period(Date(2020, 0), Date(2021, 0)),
                   Period(Date(2022, 1), Date(2024, 2)),
                   Period(Date(2023, 12), Present)}}
    \cup {[cv EXCEPT !.titles = IF @ = {} THEN @ ELSE @ \cup {t},
                     !.words = @ \cup t] : t \in {{"chef"}, {"lead", "analyst"}}}
    \cup {[cv EXCEPT !.level = Max({@, 4})], [cv EXCEPT !.declared = Max({@, 3})]}

\* A score is a percentage; the table is computed here, once.
ASSUME ScoresArePercentages ==
  Table \in [Scorable -> [Offers -> [FirstMonth..LastMonth -> 0..100]]]

\* Bound: the offers asked about at once and the rows kept are three together.
Asking(r) == Cardinality(request[r].offers)
FewRows == content = Gone \/ Total(Asking, Requests) + Cardinality(cache) <= 3

=============================================================================
