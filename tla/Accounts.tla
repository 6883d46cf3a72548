------------------------------ MODULE Accounts ------------------------------
(***************************************************************************)
(* Sessions under the clients that use them and the administrators that    *)
(* end them.                                                               *)
(***************************************************************************)
EXTENDS SessionClients, AdminCommands

vars == <<serverVars, clientVars, adminVars>>

Init == ServerInit /\ ClientInit /\ AdminInit

ServerNext(c) == (ServerStep(c) \/ ServerChoice(c))
                   /\ UNCHANGED <<clientVars, adminVars>>

Next ==
  \/ \E c \in Callers : ServerNext(c)
  \/ ServerEvent /\ UNCHANGED <<clientVars, adminVars>>
  \/ (\/ \E t \in Tabs : ClientStep(t)
      \/ \E h \in Threads : ThreadStep(h)
      \/ ClientChoice) /\ UNCHANGED adminVars
  \/ (AdminEvent \/ \E d \in Desks : DeskStep(d)) /\ UNCHANGED clientVars

Spec == Init /\ [][Next]_vars

-----------------------------------------------------------------------------
\* The rows, requests and clients hold values of their types.
TypeOK == ServerTypeOK /\ ClientTypeOK /\ AdminTypeOK

\* A refresh token is rotated once, and none goes unseen: as long as a session
\* may be used, every token before its current one is in the history, where a
\* second holder of it is recognised.  (Of two refreshes with one token at most
\* one succeeds.)
SupersededIsKnown ==
  \A s \in Sids : Fresh(s) =>
    \A n \in 0..session[s].gen : n < session[s].gen => <<s, n>> \in history

\* Logout ends the session, also when a refresh that was under way has
\* replaced the token that the logout presents.
LogoutEndsSession == \A s \in loggedOut : session[s].state = "ended"

\* A request is admitted only for a user who is active at that moment, also in
\* a session that a sign-in under way created after the suspension had ended
\* all sessions.
OnlyActiveAdmitted ==
  [][\A c \in Callers : call'[c].pc = "act" /\ ~At(c, "act") =>
       user[Owner(call[c].sid)].status = "active"]_vars

\* As long as no answer is lost, the tabs of a browser and the extension never
\* present a superseded token: nobody is signed out for his own refreshes.
ClientsNeverReuse == ~lost => detected = {}

\* A proof is spent exactly when its command and audit entry are committed.
SpentProofsAreAudited ==
  \A b \in Bindings : audited[b] = Cardinality(proof[b].used)

\* Where somebody administers the platform, the commands of the administrators
\* leave one: "The last platform administrator cannot be suspended"
\* (auth.service.ts).
AdministratorRemains ==
  (\A a \in Admins : user[a].status = "absent")
    \/ \E a \in Admins : user[a].status = "active"

\* Refresh and logout wait for each other, for the lock and for the server,
\* and never in vain: the lock is held by a request that will be answered, and
\* a request that waits for a refresh has one that is queued or sent.
NoClientIsStuck ==
  /\ lock # None => tab[lock].refresh = "sent" \/ tab[lock].leaving = "sent"
  /\ \A t \in Tabs : tab[t].refresh = "sent" \/ tab[t].leaving = "sent" =>
       ~At(t, "idle") /\ (Web(t) => lock = t)
  /\ \A h \in Threads :
       /\ thread[h] = "waiting" => tab[TabOf[h]].refresh # "none"
       /\ thread[h] \in {"sent", "again"} => ~At(h, "idle")

=============================================================================
