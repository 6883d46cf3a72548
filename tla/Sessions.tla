------------------------------ MODULE Sessions ------------------------------
(***************************************************************************)
(* AuthService and JwtStrategy: the users, their sessions with rotating    *)
(* refresh tokens, and the history that recognises a superseded token.     *)
(*                                                                         *)
(* A refresh token is the session it was issued for and the number of      *)
(* rotations before it.  Every statement or transaction of a handler is a  *)
(* step of its own: other handlers commit between them.  How much time has *)
(* passed is left open, so that sessions and locks may run out between any *)
(* two steps.                                                              *)
(***************************************************************************)
EXTENDS Naturals, FiniteSets

CONSTANTS
  Customers, Admins,  \* the users
  Callers,            \* requests the clients may have in flight at once
  Sids,               \* session ids
  Threshold,          \* AUTH_LOGIN_LOCKOUT_THRESHOLD
  BetaSlots,          \* BETA_MAX_REGISTRATIONS
  MaxEvents,          \* bound: events outside the handlers
  None

Users  == Customers \cup Admins
Kinds  == {"web", "extension"}
Tokens == Sids \X Nat

ASSUME SessionConstants ==
  /\ Threshold \in Nat \ {0} /\ BetaSlots \in Nat
  /\ MaxEvents \in Nat
  /\ None \notin Users \cup Sids
  /\ None \notin Tokens

VARIABLES
  user,       \* rows of users, and whether the subscription pays for Pro
  slots,      \* beta_registration_gate.count
  session,    \* rows of sessions; gen is the rotation of the current token
  worn,       \* sessions whose idle or absolute time is over
  history,    \* refresh_token_history: superseded tokens
  handoff,    \* extension_auth_handoffs: the latest code of each user
  call,       \* position and memory of each request in the server
  detected,   \* history: tokens marked as reused
  loggedOut,  \* history: sessions whose logout was answered
  eventsLeft  \* events that may still happen

serverVars == <<user, slots, session, worn, history, handoff, call, detected,
                loggedOut, eventsLeft>>

User == [status: {"absent", "active", "suspended", "deleted"}, fails: Nat,
         lock: {"none", "on", "past"}, paid: BOOLEAN]

Session == [state: {"unused", "live", "ended"}, owner: Users \cup {None},
            gen: Nat, kind: Kinds]

Working == {"register", "sign_up", "read_user", "password", "count", "lock",
            "reset", "linked", "exchange", "create", "find", "history",
            "rotate", "reuse", "unpaid", "expired", "logout", "touch", "read",
            "drop", "act"}

Call == [pc: Working \cup {"idle", "ok", "denied"}, who: Users \cup {None},
         sid: Sids \cup {None}, gen: Nat, kind: Kinds]

ServerTypeOK ==
  /\ user \in [Users -> User] /\ slots \in 0..BetaSlots
  /\ session \in [Sids -> Session] /\ worn \subseteq Sids
  /\ history \subseteq Tokens /\ detected \subseteq Tokens
  /\ handoff \in [Users -> {"none", "open", "used"}]
  /\ call \in [Callers -> Call]
  /\ loggedOut \subseteq Sids /\ eventsLeft \in 0..MaxEvents

NoCall == [pc |-> "idle", who |-> None, sid |-> None, gen |-> 0, kind |-> "web"]

ServerInit ==
  /\ user \in [Users -> {[status |-> s, fails |-> 0, lock |-> "none",
                          paid |-> TRUE] : s \in {"absent", "active"}}]
  /\ slots = 0
  /\ session = [s \in Sids |-> [state |-> "unused", owner |-> None, gen |-> 0,
                                kind |-> "web"]]
  /\ worn = {} /\ history = {} /\ detected = {} /\ loggedOut = {}
  /\ handoff \in [Users -> {"none", "open"}]
  /\ \A u \in Users : handoff[u] = "open" =>
       u \in Customers /\ user[u].status = "active"
  /\ call = [c \in Callers |-> NoCall]
  /\ eventsLeft = MaxEvents

-----------------------------------------------------------------------------
At(c, pc)   == call[c].pc = pc
Goto(c, pc) == call' = [call EXCEPT ![c].pc = pc]

accounts == <<user, slots>>
families == <<session, worn, history, handoff, detected>>
notes    == <<loggedOut, eventsLeft>>

Live(s)   == session[s].state = "live"
Fresh(s)  == Live(s) /\ s \notin worn
Owner(s)  == session[s].owner

\* The session whose current token this call presented.
Holds(c) == LET s == call[c].sid IN Live(s) /\ session[s].gen = call[c].gen

\* deleteMany on sessions.
EndAll(gone) ==
  session' = [s \in Sids |-> IF s \in gone /\ Live(s)
                THEN [session[s] EXCEPT !.state = "ended"] ELSE session[s]]

\* isPaidExtensionSubscription, where the session is the extension's.
Unpaid(s) == session[s].kind = "extension" /\ ~user[Owner(s)].paid

-----------------------------------------------------------------------------
(* Sign-up and sign-in.                                                    *)

\* register, validateOAuthUser: is the address free?
RegisterRead(c) ==
  /\ At(c, "register")
  /\ Goto(c, IF user[call[c].who].status = "absent" THEN "sign_up"
             ELSE "denied")
  /\ UNCHANGED <<accounts, families, notes>>

\* The transaction: a beta slot, the user, the subscription, the usage row.
\* The unique address refuses a second one.
SignUp(c) ==
  /\ At(c, "sign_up")
  /\ IF user[call[c].who].status = "absent" /\ slots < BetaSlots
       THEN /\ user' = [user EXCEPT ![call[c].who] =
                 [status |-> "active", fails |-> 0, lock |-> "none",
                  paid |-> FALSE]]
            /\ slots' = slots + 1
            /\ Goto(c, "create")
       ELSE UNCHANGED accounts /\ Goto(c, "denied")
  /\ UNCHANGED <<families, notes>>

\* login: the account is read; a lock or a suspension refuses.
ReadUser(c) ==
  LET u == user[call[c].who] IN
  /\ At(c, "read_user")
  /\ Goto(c, IF u.status = "active" /\ u.lock # "on" THEN "password"
             ELSE "denied")
  /\ UNCHANGED <<accounts, families, notes>>

\* The password (and, for an administrator, the code) is right ...
RightPassword(c) ==
  /\ At(c, "password")
  /\ Goto(c, "reset")
  /\ UNCHANGED <<accounts, families, notes>>

\* ... or wrong.
WrongPassword(c) ==
  /\ At(c, "password") /\ eventsLeft > 0
  /\ eventsLeft' = eventsLeft - 1
  /\ Goto(c, "count")
  /\ UNCHANGED <<accounts, families, loggedOut>>

\* recordFailedLogin: counted unless a lock is in force.
CountFailure(c) ==
  LET u == call[c].who IN
  /\ At(c, "count")
  /\ IF user[u].lock # "on"
       THEN /\ user' = [user EXCEPT ![u].fails = @ + 1]
            /\ Goto(c, IF user[u].fails + 1 >= Threshold THEN "lock"
                       ELSE "denied")
       ELSE UNCHANGED user /\ Goto(c, "denied")
  /\ UNCHANGED <<slots, families, notes>>

\* The threshold is reached: locked, unless lockedUntil is set, even to a
\* time that has passed.
LockAccount(c) ==
  LET u == call[c].who IN
  /\ At(c, "lock")
  /\ user' = [user EXCEPT ![u].lock = IF @ = "none" THEN "on" ELSE @]
  /\ Goto(c, "denied")
  /\ UNCHANGED <<slots, families, notes>>

ResetFailures(c) ==
  LET u == call[c].who IN
  /\ At(c, "reset")
  /\ user' = [user EXCEPT ![u].fails = 0, ![u].lock = "none"]
  /\ Goto(c, "create")
  /\ UNCHANGED <<slots, families, notes>>

\* validateOAuthUser, a linked account: only a suspension refuses.
ReadLinked(c) ==
  /\ At(c, "linked")
  /\ Goto(c, IF user[call[c].who].status = "active" THEN "create"
             ELSE "denied")
  /\ UNCHANGED <<accounts, families, notes>>

\* generateTokens: the row refers to its user, who must still exist.
CreateSession(c) ==
  LET u == call[c].who IN
  /\ At(c, "create")
  /\ IF user[u].status \in {"active", "suspended"}
       THEN \E s \in Sids :
              /\ session[s].state = "unused"
              /\ session' = [session EXCEPT ![s] = [state |-> "live",
                   owner |-> u, gen |-> 0, kind |-> call[c].kind]]
              /\ call' = [call EXCEPT ![c] =
                   [@ EXCEPT !.pc = "ok", !.sid = s, !.gen = 0]]
       ELSE UNCHANGED session /\ Goto(c, "denied")
  /\ UNCHANGED <<accounts, worn, history, handoff, detected, notes>>

\* exchangeExtensionHandoff, its transaction: an open code of a paying user
\* is consumed.
Exchange(c) ==
  LET u == call[c].who IN
  /\ At(c, "exchange")
  /\ IF handoff[u] = "open" /\ user[u].paid
       THEN handoff' = [handoff EXCEPT ![u] = "used"] /\ Goto(c, "create")
       ELSE UNCHANGED handoff /\ Goto(c, "denied")
  /\ UNCHANGED <<accounts, session, worn, history, detected, notes>>

-----------------------------------------------------------------------------
(* Refresh and logout.                                                     *)

Token(c) == <<call[c].sid, call[c].gen>>

\* refreshToken: prune the history, find the session of the token.
FindSession(c) ==
  LET s == call[c].sid IN
  /\ At(c, "find")
  /\ Goto(c, CASE ~Holds(c)  -> "history"
               [] Unpaid(s)  -> "unpaid"
               [] s \in worn -> "expired"
               [] OTHER      -> "rotate")
  /\ UNCHANGED <<accounts, families, notes>>

\* No session has it: was it superseded?
LookUpHistory(c) ==
  /\ At(c, "history")
  /\ Goto(c, IF Token(c) \in history THEN "reuse" ELSE "denied")
  /\ UNCHANGED <<accounts, families, notes>>

DropUnpaid(c) ==
  /\ At(c, "unpaid")
  /\ EndAll({call[c].sid})
  /\ Goto(c, "denied")
  /\ UNCHANGED <<accounts, worn, history, handoff, detected, notes>>

DropExpired(c) ==
  /\ At(c, "expired")
  /\ IF Holds(c) THEN EndAll({call[c].sid}) ELSE UNCHANGED session
  /\ Goto(c, "denied")
  /\ UNCHANGED <<accounts, worn, history, handoff, detected, notes>>

\* Mutant: the update of rotateTokens does not ask for the presented token.
RotatableAny(c) == Fresh(call[c].sid)

\* The filter of the update in rotateTokens.
Rotatable(c) == Fresh(call[c].sid) /\ Holds(c)

\* rotateTokens: a new token replaces the presented one, which moves to the
\* history.
Rotate(c) ==
  LET s == call[c].sid IN
  /\ At(c, "rotate")
  /\ IF Rotatable(c)
       THEN /\ session' = [session EXCEPT ![s].gen = @ + 1]
            /\ history' = history \cup {Token(c)}
            /\ call' = [call EXCEPT ![c] =
                 [@ EXCEPT !.pc = "ok", !.gen = session[s].gen + 1]]
       ELSE UNCHANGED <<session, history>> /\ Goto(c, "reuse")
  /\ UNCHANGED <<accounts, worn, handoff, detected, notes>>

\* handleRefreshTokenReuse ends the session of the token.
Reuse(c) ==
  /\ At(c, "reuse")
  /\ detected' = detected \cup ({Token(c)} \cap history)
  /\ EndAll({call[c].sid})
  /\ Goto(c, "denied")
  /\ UNCHANGED <<accounts, worn, history, handoff, notes>>

\* Mutant: logout deletes by the token hash alone.
NamedByHash(c) == IF Holds(c) THEN {call[c].sid} ELSE {}

\* logoutByRefreshToken: the token is current, or names its session.
Named(c) == {call[c].sid}

LogoutByToken(c) ==
  /\ At(c, "logout")
  /\ EndAll(Named(c))
  /\ loggedOut' = loggedOut \cup {call[c].sid}
  /\ Goto(c, "ok")
  /\ UNCHANGED <<accounts, worn, history, handoff, detected, eventsLeft>>

-----------------------------------------------------------------------------
(* An authenticated request.                                               *)

\* JwtStrategy.validate: a conditional update of lastUsedAt ...
Touch(c) ==
  /\ At(c, "touch")
  /\ Goto(c, IF Fresh(call[c].sid) THEN "read" ELSE "denied")
  /\ UNCHANGED <<accounts, families, notes>>

\* Mutant: only the session is looked at.
UsableSession(s) == Live(s)

\* ... then the session is read with its user: both must be active.
Usable(s) == Live(s) /\ user[Owner(s)].status = "active" /\ ~Unpaid(s)

ReadSession(c) ==
  LET s == call[c].sid IN
  /\ At(c, "read")
  /\ Goto(c, CASE Usable(s) -> "act"
               [] ~Live(s)  -> "denied"
               [] OTHER     -> "drop")
  /\ UNCHANGED <<accounts, families, notes>>

DropSession(c) ==
  /\ At(c, "drop")
  /\ EndAll({call[c].sid})
  /\ Goto(c, "denied")
  /\ UNCHANGED <<accounts, worn, history, handoff, detected, notes>>

SessionsOf(u) == {s \in Sids : Owner(s) = u}

\* A request of the user that changes nothing here.
Use(c) ==
  /\ At(c, "act")
  /\ Goto(c, "ok")
  /\ UNCHANGED <<accounts, families, notes>>

\* revokeSession: one session of the same user, 404 if it is gone.
RevokeSession(c) ==
  LET u == Owner(call[c].sid) IN
  /\ At(c, "act") /\ eventsLeft > 0
  /\ eventsLeft' = eventsLeft - 1
  /\ \E s \in SessionsOf(u) : EndAll({s})
  /\ Goto(c, "ok")
  /\ UNCHANGED <<accounts, worn, history, handoff, detected, loggedOut>>

\* revokeOtherSessions.
RevokeOthers(c) ==
  /\ At(c, "act") /\ eventsLeft > 0
  /\ eventsLeft' = eventsLeft - 1
  /\ EndAll(SessionsOf(Owner(call[c].sid)) \ {call[c].sid})
  /\ Goto(c, "ok")
  /\ UNCHANGED <<accounts, worn, history, handoff, detected, loggedOut>>

\* createExtensionHandoff, behind PlanEntitlementGuard: a new code.  Bound: a
\* user has one open code at a time.
CreateHandoff(c) ==
  LET u == Owner(call[c].sid) IN
  /\ At(c, "act") /\ user[u].paid /\ handoff[u] # "open" /\ eventsLeft > 0
  /\ eventsLeft' = eventsLeft - 1
  /\ handoff' = [handoff EXCEPT ![u] = "open"]
  /\ Goto(c, "ok")
  /\ UNCHANGED <<accounts, session, worn, history, detected, loggedOut>>

\* deleteAccount, its last statement: sessions and codes cascade.  Who signs
\* up again is another user.
DeleteUser(c) ==
  LET u == Owner(call[c].sid) IN
  /\ At(c, "act") /\ u \in Customers /\ eventsLeft > 0
  /\ eventsLeft' = eventsLeft - 1
  /\ user' = [user EXCEPT ![u].status = "deleted"]
  /\ handoff' = [handoff EXCEPT ![u] = "none"]
  /\ EndAll(SessionsOf(u))
  /\ Goto(c, "ok")
  /\ UNCHANGED <<slots, worn, history, detected, loggedOut>>

-----------------------------------------------------------------------------
(* What happens outside the handlers.                                      *)

Event == eventsLeft > 0 /\ eventsLeft' = eventsLeft - 1

\* The idle or the absolute time of a session is over; with the latter its
\* history rows expire too.
Wear(s) ==
  /\ Event /\ session[s].state # "unused" /\ s \notin worn
  /\ worn' = worn \cup {s}
  /\ history' \in {history, {t \in history : t[1] # s}}
  /\ UNCHANGED <<accounts, session, handoff, call, detected, loggedOut>>

LockPasses(u) ==
  /\ user[u].lock = "on"
  /\ user' = [user EXCEPT ![u].lock = "past"]
  /\ UNCHANGED <<slots, families, call, notes>>

\* A webhook changes the plan.
ChangePlan(u) ==
  /\ Event /\ user[u].status = "active"
  /\ user' = [user EXCEPT ![u].paid = ~@]
  /\ UNCHANGED <<slots, families, call, loggedOut>>

\* The two minutes of a code are over.
HandoffExpires(u) ==
  /\ handoff[u] = "open"
  /\ handoff' = [handoff EXCEPT ![u] = "none"]
  /\ UNCHANGED <<accounts, session, worn, history, call, detected, notes>>

ServerStep(c) ==
  \/ RegisterRead(c) \/ SignUp(c) \/ ReadUser(c) \/ RightPassword(c)
  \/ CountFailure(c) \/ LockAccount(c) \/ ResetFailures(c) \/ ReadLinked(c)
  \/ CreateSession(c) \/ Exchange(c)
  \/ FindSession(c) \/ LookUpHistory(c) \/ DropUnpaid(c) \/ DropExpired(c)
  \/ Rotate(c) \/ Reuse(c) \/ LogoutByToken(c)
  \/ Touch(c) \/ ReadSession(c) \/ DropSession(c) \/ Use(c)

ServerChoice(c) ==
  \/ WrongPassword(c) \/ RevokeSession(c) \/ RevokeOthers(c)
  \/ CreateHandoff(c) \/ DeleteUser(c)

ServerEvent ==
  \/ \E s \in Sids : Wear(s)
  \/ \E u \in Users : LockPasses(u) \/ ChangePlan(u) \/ HandoffExpires(u)

=============================================================================
