--------------------------- MODULE SessionClients ---------------------------
(***************************************************************************)
(* The clients that keep the tokens: the tabs of the dashboard (ApiClient) *)
(* share the refresh cookie of their browser and refresh under one lock of *)
(* it; the extension (AuthManager) keeps its own refresh token in one      *)
(* background worker.  Requests of a tab that meet a 401 share one refresh *)
(* and are then sent again.                                                *)
(***************************************************************************)
EXTENDS Sessions

CONSTANTS
  Tabs,     \* the tabs and the extension
  Threads,  \* requests a tab may have open at once
  KindOf,   \* web or extension, for each tab
  TabOf     \* the tab of each thread

ASSUME ClientConstants ==
  /\ KindOf \in [Tabs -> Kinds] /\ TabOf \in [Threads -> Tabs]
  /\ Tabs \cup Threads \subseteq Callers /\ Tabs \cap Threads = {}
  /\ None \notin Tabs
  /\ \A c, d \in Tabs :
       KindOf[c] = "extension" /\ KindOf[d] = "extension" => c = d

VARIABLES
  jar,       \* the cookie of the browser, the stored token of the extension
  lock,      \* the tab that holds navigator.locks "applyai-refresh-session"
  tab,       \* access token and pending refresh and logout of each tab
  thread,    \* where each request of a tab is
  lost       \* history: did a client miss an answer?

clientVars == <<jar, lock, tab, thread, lost>>

\* sid: the access token.  valid: it has not expired.  refresh: refreshPromise.
\* leaving: logout, while isLoggingOut is set.
Tab == [sid: Sids \cup {None}, valid: BOOLEAN,
        refresh: {"none", "queued", "sent"},
        leaving: {"none", "waits", "queued", "sent"}]

Thread == {"idle", "signing", "redirected", "sent", "waiting", "again"}

ClientTypeOK ==
  /\ jar \in [Kinds -> Tokens \cup {None}]
  /\ lock \in Tabs \cup {None}
  /\ tab \in [Tabs -> Tab] /\ thread \in [Threads -> Thread]
  /\ lost \in BOOLEAN

ClientInit ==
  /\ jar = [k \in Kinds |-> None] /\ lock = None
  /\ tab = [t \in Tabs |-> [sid |-> None, valid |-> FALSE, refresh |-> "none",
                            leaving |-> "none"]]
  /\ thread = [h \in Threads |-> "idle"]
  /\ lost = FALSE

-----------------------------------------------------------------------------
serverRest == <<accounts, families, notes>>

Jar(t)       == jar[KindOf[t]]
SetJar(t, x) == jar' = [jar EXCEPT ![KindOf[t]] = x]
Web(t)       == KindOf[t] = "web"
Ended(c)     == call[c].pc \in {"ok", "denied"}

\* The server starts on a request, or answers 401 without a valid token.
Send(c, pc, who, token, kind) ==
  call' = [call EXCEPT ![c] =
    IF token = None /\ pc \in {"find", "logout", "touch"}
      THEN [NoCall EXCEPT !.pc = IF pc = "logout" THEN "ok" ELSE "denied"]
      ELSE [pc |-> pc, who |-> who, kind |-> kind,
            sid |-> IF token = None THEN None ELSE token[1],
            gen |-> IF token = None THEN 0 ELSE token[2]]]

Access(t) == IF tab[t].valid /\ tab[t].sid # None THEN <<tab[t].sid, 0>>
             ELSE None

\* Bound: a session id is left for every sign-in under way.
SigningIn == {c \in Callers : call[c].pc \in
                {"register", "sign_up", "read_user", "password", "reset",
                 "linked", "exchange", "create"}}
SidLeft == Cardinality({s \in Sids : session[s].state = "unused"})
             > Cardinality(SigningIn)

-----------------------------------------------------------------------------
\* login, register, an OAuth redirect, exchangeHandoff: not under the lock.
SignIn(h) ==
  LET t == TabOf[h] IN
  /\ thread[h] = "idle" /\ tab[t].sid = None /\ tab[t].leaving = "none"
  /\ SidLeft
  /\ \E u \in Customers,
        pc \in IF Web(t) THEN {"register", "read_user", "linked"}
               ELSE {"exchange"} :
       /\ Send(h, pc, u, None, KindOf[t])
       /\ thread' = [thread EXCEPT ![h] =
            IF pc = "linked" THEN "redirected" ELSE "signing"]
  /\ UNCHANGED <<jar, lock, tab, lost, serverRest>>

\* The tokens are kept; after a redirect the page, which loads anew, has only
\* the cookie.
SignedIn(h) ==
  LET t == TabOf[h] IN
  /\ thread[h] \in {"signing", "redirected"} /\ Ended(h)
  /\ IF At(h, "ok") THEN SetJar(t, Token(h)) ELSE UNCHANGED jar
  /\ IF At(h, "ok") /\ thread[h] = "signing"
       THEN tab' = [tab EXCEPT ![t].sid = call[h].sid, ![t].valid = TRUE]
       ELSE UNCHANGED tab
  /\ thread' = [thread EXCEPT ![h] = "idle"]
  /\ call' = [call EXCEPT ![h] = NoCall]
  /\ UNCHANGED <<lock, lost, serverRest>>

\* request, getBlob, apiFetch.
Request(h) ==
  LET t == TabOf[h] IN
  /\ thread[h] = "idle" /\ tab[t].sid # None
  /\ Send(h, "touch", None, Access(t), KindOf[t])
  /\ thread' = [thread EXCEPT ![h] = "sent"]
  /\ UNCHANGED <<jar, lock, tab, lost, serverRest>>

\* refresh, refreshToken: one pending refresh is shared by all who ask.
Ask(t) == [tab EXCEPT ![t].refresh = IF @ = "none" THEN "queued" ELSE @]

\* initialize, when a page loads; apiFetch without an access token.
Load(h) ==
  LET t == TabOf[h] IN
  /\ thread[h] = "idle" /\ tab[t].sid = None /\ Jar(t) # None
  /\ tab[t].leaving = "none"
  /\ tab' = Ask(t)
  /\ thread' = [thread EXCEPT ![h] = "waiting"]
  /\ UNCHANGED <<jar, lock, lost, call, serverRest>>

\* The answer.  A 401 starts a refresh, unless it is the second one or the
\* user is logging out.
Answered(h) ==
  LET t == TabOf[h]
      again == At(h, "denied") /\ thread[h] = "sent" /\ tab[t].leaving = "none"
  IN
  /\ thread[h] \in {"sent", "again"} /\ Ended(h)
  /\ thread' = [thread EXCEPT ![h] = IF again THEN "waiting" ELSE "idle"]
  /\ tab' = IF again THEN Ask(t) ELSE tab
  /\ call' = [call EXCEPT ![h] = NoCall]
  /\ UNCHANGED <<jar, lock, lost, serverRest>>

\* Mutant: every tab refreshes on its own.
LockFreeAlways(t) == Web(t) \/ ~Web(t)

\* withSessionLock; the extension needs none.
LockFree(t) == Web(t) => lock = None

Take(t) == lock' = IF Web(t) THEN t ELSE lock

\* POST /auth/refresh, with the token the browser has by now.
SendRefresh(t) ==
  /\ tab[t].refresh = "queued" /\ LockFree(t)
  /\ Take(t)
  /\ Send(t, "find", None, Jar(t), KindOf[t])
  /\ tab' = [tab EXCEPT ![t].refresh = "sent"]
  /\ UNCHANGED <<jar, thread, lost, serverRest>>

Waiting(t) == {h \in Threads : TabOf[h] = t /\ thread[h] = "waiting"}

\* Mutant: the lock outlives its holder.
UnlockNever(t) == UNCHANGED lock

Unlock(t) == lock' = IF lock = t THEN None ELSE lock

\* The new tokens are kept, and the waiting requests are sent again.
Refreshed(t) ==
  /\ tab[t].refresh = "sent" /\ At(t, "ok")
  /\ SetJar(t, Token(t))
  /\ tab' = [tab EXCEPT ![t].sid = call[t].sid, ![t].valid = TRUE,
                        ![t].refresh = "none"]
  /\ call' = [c \in Callers |->
       IF c = t THEN NoCall
       ELSE IF c \in Waiting(t)
         THEN [NoCall EXCEPT !.pc = "touch", !.sid = call[t].sid]
         ELSE call[c]]
  /\ thread' = [h \in Threads |->
       IF h \in Waiting(t) THEN "again" ELSE thread[h]]
  /\ Unlock(t)
  /\ UNCHANGED <<lost, serverRest>>

\* The extension forgets a token the server refused, if it still has it.
Forgets(t) ==
  ~Web(t) /\ At(t, "denied") /\ call[t].sid # None /\ Jar(t) = Token(t)

\* The refresh failed: the waiting requests report an expired session.
GiveUp(t, forgets) ==
  /\ tab' = [tab EXCEPT ![t].refresh = "none",
       ![t].sid = IF (Web(t) /\ Waiting(t) # {}) \/ forgets THEN None ELSE @]
  /\ IF forgets THEN SetJar(t, None) ELSE UNCHANGED jar
  /\ thread' = [h \in Threads |->
       IF h \in Waiting(t) THEN "idle" ELSE thread[h]]
  /\ Unlock(t)

RefreshRefused(t) ==
  /\ tab[t].refresh = "sent" /\ At(t, "denied")
  /\ GiveUp(t, Forgets(t))
  /\ call' = [call EXCEPT ![t] = NoCall]
  /\ UNCHANGED <<lost, serverRest>>

Orphans == Callers \ (Tabs \cup Threads)

\* The connection breaks: the client hears nothing of the answer, while the
\* server goes on with the request.
RefreshLost(t) ==
  /\ Event /\ lost' = TRUE
  /\ tab[t].refresh = "sent"
  /\ GiveUp(t, FALSE)
  /\ \E o \in Orphans : call' = [call EXCEPT ![o] = call[t], ![t] = NoCall]
  /\ UNCHANGED <<accounts, families, loggedOut>>

-----------------------------------------------------------------------------
\* logout: no new refresh from here on; a pending one is awaited, then the
\* lock is taken.
Logout(t) ==
  /\ tab[t].leaving = "none" /\ tab[t].sid # None
  /\ tab' = [tab EXCEPT ![t].leaving = "waits"]
  /\ UNCHANGED <<jar, lock, thread, call, lost, serverRest>>

AwaitRefresh(t) ==
  /\ tab[t].leaving = "waits" /\ tab[t].refresh = "none"
  /\ tab' = [tab EXCEPT ![t].leaving = "queued"]
  /\ UNCHANGED <<jar, lock, thread, call, lost, serverRest>>

SendLogout(t) ==
  /\ tab[t].leaving = "queued" /\ LockFree(t)
  /\ Take(t)
  /\ Send(t, "logout", None, Jar(t), KindOf[t])
  /\ tab' = [tab EXCEPT ![t].leaving = "sent"]
  /\ UNCHANGED <<jar, thread, lost, serverRest>>

\* The cookie is cleared; the access token is dropped.
LoggedOut(t) ==
  /\ tab[t].leaving = "sent" /\ Ended(t)
  /\ SetJar(t, None)
  /\ tab' = [tab EXCEPT ![t].leaving = "none", ![t].sid = None]
  /\ call' = [call EXCEPT ![t] = NoCall]
  /\ Unlock(t)
  /\ UNCHANGED <<thread, lost, serverRest>>

\* The answer is lost: the cookie stays in the browser.
LogoutLost(t) ==
  /\ Event /\ lost' = TRUE
  /\ tab[t].leaving = "sent" /\ Ended(t)
  /\ IF Web(t) THEN UNCHANGED jar ELSE SetJar(t, None)
  /\ tab' = [tab EXCEPT ![t].leaving = "none", ![t].sid = None]
  /\ call' = [call EXCEPT ![t] = NoCall]
  /\ Unlock(t)
  /\ UNCHANGED <<thread, accounts, families, loggedOut>>

\* The fifteen minutes of an access token are over.  Bound: of the first one
\* of a session.
AccessExpires(t) ==
  /\ tab[t].valid /\ tab[t].sid # None /\ session[tab[t].sid].gen = 0
  /\ tab' = [tab EXCEPT ![t].valid = FALSE]
  /\ UNCHANGED <<jar, lock, thread, lost, call, serverRest>>

ClientStep(t) ==
  \/ SendRefresh(t) \/ Refreshed(t) \/ RefreshRefused(t)
  \/ AwaitRefresh(t) \/ SendLogout(t) \/ LoggedOut(t)

ThreadStep(h) == SignedIn(h) \/ Answered(h)

ClientChoice ==
  \/ \E h \in Threads : SignIn(h) \/ Request(h) \/ Load(h)
  \/ \E t \in Tabs :
       Logout(t) \/ AccessExpires(t) \/ RefreshLost(t) \/ LogoutLost(t)

=============================================================================
