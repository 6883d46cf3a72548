----------------------------- MODULE MCAccounts -----------------------------
(* Small instances of Accounts for TLC. *)
EXTENDS Accounts, TLC

CONSTANTS t1, t2, h1, h2, x, hx, u1, a1, a2, s1, s2, d1, d2, o1

TwoTabs   == (t1 :> "web") @@ (t2 :> "web")
TwoThreads == (h1 :> t1) @@ (h2 :> t2)
AllTabs == TwoTabs @@ (x :> "extension")
AllThreads == TwoThreads @@ (hx :> x)
Alike     == Permutations({a1, a2}) \cup Permutations({d1, d2})
Mirrored  == {p \in Permutations({t1, t2, h1, h2, d1, d2}) :
                /\ {p[t1], p[t2]} = {t1, t2} /\ {p[d1], p[d2]} = {d1, d2}
                /\ p[t1] = t1 <=> p[h1] = h1 /\ p[h1] \in {h1, h2}}
NoTabs    == [t \in {} |-> "web"]

-----------------------------------------------------------------------------
\* Bounds.  Many clients around one session, and one event ...
In(places) == {c \in Callers : call[c].pc \in places}

AmongClients ==
  /\ \A a \in Admins : user[a].status = "absent"
  /\ eventsLeft >= MaxEvents - 1
  /\ Cardinality(In(Working)) <= 2
  /\ Cardinality(In({"touch", "read", "act", "drop"})) <= 1
  /\ Cardinality({t \in Tabs : tab[t].leaving # "none"}) <= 1

\* ... or one tab, which does not log out, and the administrators.
AmongAdmins ==
  /\ \E a \in Admins : user[a].status # "absent"
  /\ \A c \in Callers \ {t1, h1} : call[c] = NoCall
  /\ \A t \in Tabs : tab[t].leaving = "none"
  /\ \A t \in Tabs \ {t1} : tab[t].refresh = "none"
  /\ \A h \in Threads \ {h1} : thread[h] = "idle"

Bounds == AmongClients \/ AmongAdmins

\* Only suspensions.
Suspensions == \A d \in Desks : desk[d] = Away \/ B(d).action = "suspend"

=============================================================================
