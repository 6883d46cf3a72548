------------------------ MODULE MCGeneratedDocuments ------------------------
(* Two roles, a degree and a project; answers and edits mix their texts. *)
EXTENDS GeneratedDocuments

Role(company, title, start, end, text) ==
  [company |-> company, title |-> title, start |-> start, end |-> end,
   description |-> text, highlights |-> Blank]

CV(roles) ==
  [Nothing EXCEPT
    !.claims["skill"] = {"sql", "excel"}, !.claims["language"] = {"french"},
    !.roles = roles,
    !.degrees = <<[institution |-> "ensa", degree |-> "engineer",
                   start |-> "2015", end |-> "2018", gpa |-> ""]>>,
    !.projects = <<[name |-> "shop", technologies |-> {"sql"}, url |-> "u1",
                    description |-> Text({"built"}, {"9 users"})]>>]

Analyst == Role("acme", "analyst", "2018", "2020", Text({"led"}, {"40 %"}))
Lead    == Role("beta", "lead", "2020", "Present", Text({"built"}, {"7 days"}))
\* The same title with another employer, and again with the first one.
Senior  == [Lead EXCEPT !.title = "analyst"]

DistinctRoles == {CV(<<Analyst, Lead>>), CV(<<Analyst, [Lead EXCEPT !.start = ""]>>)}
RepeatedTitle == {CV(<<Analyst, Senior>>)}

OwnTexts == {Text({"led"}, {"40 %"}), Text({"built"}, {"7 days"}),
             Text({"new"}, {})}
Texts == OwnTexts \cup {Text({"new"}, {"99 %"}), Blank}

TextFor(i, t) == [index |-> i, description |-> t, highlights |-> Blank]

\* Texts for the roles in either order, an index twice, a skill changed.
SomeAnswers(cv) ==
  [profile: {Text({"sql"}, {}), Text({"acme", "lead"}, {})},
   pairs: {{}},
   roles: {<<TextFor(1, t), TextFor(2, u)>> : t, u \in OwnTexts}
     \cup {<<TextFor(2, t), TextFor(i, u)>> : t, u \in OwnTexts, i \in 1..2},
   projects: {<<[index |-> 1, description |-> cv.projects[1].description]>>},
   skills: {<<"excel", "sql">>, <<"sql", "sap">>}]

SomeEdits(d) == Texts \cup {Text({"acme"}, {"7 days"})}

\* One fact of a document is another one.
SomeVariants(d) ==
  {[d EXCEPT !.claims["skill"] = s] : s \in SUBSET {"sql", "excel", "sap"}}
    \cup {[d EXCEPT !.roles[i].company = c] :
            i \in DOMAIN d.roles, c \in {"acme", "beta", "gamma"}}
    \cup {[d EXCEPT !.roles[i].title = t] :
            i \in DOMAIN d.roles, t \in {"analyst", "lead", "chief"}}
    \cup {[d EXCEPT !.roles[i].end = e] :
            i \in DOMAIN d.roles, e \in {"2019", "2020", "Present"}}
    \cup {[d EXCEPT !.roles = Append(@, Analyst)]}
    \cup {[d EXCEPT !.degrees[1].gpa = "4.0"],
          [d EXCEPT !.degrees[1].degree = "doctor"],
          [d EXCEPT !.projects[1].technologies = {"sql", "sap"}],
          [d EXCEPT !.projects[1].url = "u2"]}
    \cup {[d EXCEPT !.profile = Text({p[1], p[2]}, {}), !.pairs = {p}] :
            p \in {"analyst", "lead", "chief"} \X {"acme", "beta", "gamma"}}

=============================================================================
