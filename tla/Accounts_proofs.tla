--------------------------- MODULE Accounts_proofs ---------------------------
(***************************************************************************)
(* Accounts, for every set of users, sessions, tabs, threads and requests, *)
(* every limit and every number of events.                                 *)
(*                                                                         *)
(* The argument: to a client a step of the server is one of four moves: a  *)
(* request walks on within its handler, creates a session, or rotates one, *)
(* and what happens outside ends sessions (ServerMoves, OutsideMoves).     *)
(* The invariants are shown to survive these moves and each action of a    *)
(* client.                                                                 *)
(***************************************************************************)
EXTENDS Accounts, FiniteSetTheorems, TLAPS

Signing    == {"register", "sign_up", "read_user", "password", "count", "lock",
               "reset", "linked", "exchange", "create"}
Presenting == {"find", "history", "rotate", "reuse", "unpaid", "expired"}
Using      == {"touch", "read", "drop", "act"}
Answers    == {"ok", "denied"}

\* The handlers a request walks along; only a session that is created or
\* rotated answers a sign-in or a refresh with "ok".
Along(p, q) ==
  \/ p \in Signing /\ q \in Signing \cup {"denied"}
  \/ p \in Presenting /\ q \in Presenting \cup {"denied"}
  \/ p \in Using /\ q \in Using \cup Answers
  \/ p = "logout" /\ q = "ok"

\* Sessions may have ended; what left the history was of a worn one.
Ages ==
  /\ \E gone : EndAll(gone)
  /\ history' \subseteq history /\ worn \subseteq worn'
  /\ \A p \in history \ history' : p[1] \in worn'

Walks(c) ==
  /\ Ages
  /\ \E q : Along(call[c].pc, q) /\ Goto(c, q)
  /\ detected' \subseteq detected \cup
       (IF At(c, "reuse") THEN {Token(c)} \cap history ELSE {})
  /\ \A s \in loggedOut' \ loggedOut :
       /\ At(c, "logout") /\ s = call[c].sid
       /\ s \in Sids => session'[s].state # "live"

Creates(c) ==
  /\ At(c, "create")
  /\ \E s \in Sids :
       /\ session[s].state = "unused"
       /\ session' = [session EXCEPT ![s] = [state |-> "live",
            owner |-> call[c].who, gen |-> 0, kind |-> call[c].kind]]
       /\ call' = [call EXCEPT ![c] =
            [@ EXCEPT !.pc = "ok", !.sid = s, !.gen = 0]]
  /\ UNCHANGED <<worn, history, detected, loggedOut>>

Rotates(c) ==
  LET s == call[c].sid IN
  /\ At(c, "rotate") /\ Rotatable(c)
  /\ session' = [session EXCEPT ![s].gen = @ + 1]
  /\ history' = history \cup {Token(c)}
  /\ call' = [call EXCEPT ![c] =
       [@ EXCEPT !.pc = "ok", !.gen = session[s].gen + 1]]
  /\ UNCHANGED <<worn, detected, loggedOut>>

Outside == Ages /\ UNCHANGED <<call, detected, loggedOut>>

\* What EndAll leaves of a session.
LEMMA EndAllFacts ==
  ASSUME ServerTypeOK, NEW gone, EndAll(gone)
  PROVE  /\ session' \in [Sids -> Session]
         /\ \A s \in Sids :
              /\ session'[s].gen = session[s].gen
              /\ session'[s].kind = session[s].kind
              /\ session'[s].owner = session[s].owner
              /\ session'[s].state =
                   IF s \in gone /\ Live(s) THEN "ended" ELSE session[s].state
  BY DEF ServerTypeOK, EndAll, Session, Live

LEMMA EndNothing == ASSUME ServerTypeOK, UNCHANGED session PROVE EndAll({})
  BY DEF ServerTypeOK, EndAll

LEMMA StaysYoung ==
  ASSUME ServerTypeOK, NEW gone, EndAll(gone), UNCHANGED <<worn, history>>
  PROVE  Ages
  BY DEF Ages

\* A step of the server is a move.
LEMMA ServerMoves ==
  ASSUME ServerTypeOK, NEW c \in Callers, ServerStep(c) \/ ServerChoice(c)
  PROVE  Walks(c) \/ Creates(c) \/ Rotates(c)
<1> SUFFICES ASSUME ~Creates(c), ~Rotates(c)  PROVE Walks(c)
    OBVIOUS
<1> USE EndNothing, StaysYoung
        DEF Walks, Along, At, Goto, Signing, Presenting, Using, Answers,
            accounts, families, notes
<1>1. CASE RegisterRead(c)
  BY <1>1 DEF RegisterRead
<1>2. CASE SignUp(c)
  BY <1>2 DEF SignUp
<1>3. CASE ReadUser(c)
  BY <1>3 DEF ReadUser
<1>4. CASE RightPassword(c)
  BY <1>4 DEF RightPassword
<1>5. CASE CountFailure(c)
  BY <1>5 DEF CountFailure
<1>6. CASE LockAccount(c)
  BY <1>6 DEF LockAccount
<1>7. CASE ResetFailures(c)
  BY <1>7 DEF ResetFailures
<1>8. CASE ReadLinked(c)
  BY <1>8 DEF ReadLinked
<1>9. CASE CreateSession(c)
  BY <1>9 DEF CreateSession, Creates
<1>10. CASE Exchange(c)
  BY <1>10 DEF Exchange
<1>11. CASE FindSession(c)
  BY <1>11 DEF FindSession
<1>12. CASE LookUpHistory(c)
  BY <1>12 DEF LookUpHistory
<1>13. CASE DropUnpaid(c)
  BY <1>13 DEF DropUnpaid
<1>14. CASE DropExpired(c)
  BY <1>14 DEF DropExpired
<1>15. CASE Rotate(c)
  BY <1>15 DEF Rotate, Rotates
<1>16. CASE Reuse(c)
  BY <1>16 DEF Reuse
<1>17. CASE LogoutByToken(c)
  BY <1>17, EndAllFacts DEF LogoutByToken, Named, Live
<1>18. CASE Touch(c)
  BY <1>18 DEF Touch
<1>19. CASE ReadSession(c)
  BY <1>19 DEF ReadSession
<1>20. CASE DropSession(c)
  BY <1>20 DEF DropSession
<1>21. CASE Use(c)
  BY <1>21 DEF Use
<1>22. CASE WrongPassword(c)
  BY <1>22 DEF WrongPassword
<1>23. CASE RevokeSession(c)
  BY <1>23 DEF RevokeSession
<1>24. CASE RevokeOthers(c)
  BY <1>24 DEF RevokeOthers
<1>25. CASE CreateHandoff(c)
  BY <1>25 DEF CreateHandoff
<1>26. CASE DeleteUser(c)
  BY <1>26 DEF DeleteUser
<1> QED
  BY <1>1, <1>2, <1>3, <1>4, <1>5, <1>6, <1>7, <1>8, <1>9, <1>10, <1>11,
     <1>12, <1>13, <1>14, <1>15, <1>16, <1>17, <1>18, <1>19, <1>20, <1>21,
     <1>22, <1>23, <1>24, <1>25, <1>26 DEF ServerStep, ServerChoice

\* So is what happens outside the handlers, and the commit of a command.
LEMMA OutsideMoves ==
  ASSUME ServerTypeOK,
         \/ ServerEvent
         \/ AdminEvent \/ \E d \in Desks : DeskStep(d)
  PROVE  Outside
<1> USE EndNothing, StaysYoung DEF Outside, accounts, families, notes
<1>1. ASSUME NEW s \in Sids, Wear(s)  PROVE Outside
  BY <1>1 DEF Wear, Ages
<1>2. ASSUME NEW u \in Users, LockPasses(u) \/ ChangePlan(u) \/ HandoffExpires(u)
      PROVE  Outside
  BY <1>2 DEF LockPasses, ChangePlan, HandoffExpires
<1>3. ASSUME NEW d \in Desks, Commit(d)  PROVE Outside
  <2> USE <1>3 DEF Commit
  <2>1. CASE Applies(B(d))
    BY <2>1 DEF Effect
  <2>2. CASE ~Applies(B(d))
    BY <2>2
  <2> QED BY <2>1, <2>2
<1>4. ASSUME NEW d \in Desks, DeskStep(d) \/ Open(d)  PROVE Outside
  BY <1>3, <1>4 DEF DeskStep, CheckLock, Verify, RecordFailure, Issue, Consume,
                    Decide, Open, serverSame
<1>5. ASSUME NEW b \in Bindings, BackoffPasses(b) \/ ProofExpires(b)
      PROVE  Outside
  BY <1>5 DEF BackoffPasses, ProofExpires, serverSame
<1> QED
  BY <1>1, <1>2, <1>4, <1>5 DEF ServerEvent, AdminEvent

-----------------------------------------------------------------------------
(* What a move changes.                                                    *)

Created == {s \in Sids : session[s].state # "unused"}

\* Sessions keep who they are for; they end, and stay as they ended.
LEMMA AgesFacts ==
  ASSUME ServerTypeOK, Ages
  PROVE  /\ session' \in [Sids -> Session] /\ Created' = Created
         /\ \A s \in Sids :
              /\ session'[s].gen = session[s].gen
              /\ session'[s].kind = session[s].kind
              /\ session'[s].owner = session[s].owner
              /\ session[s].state = "ended" => session'[s].state = "ended"
              /\ session'[s].state = "live" => session[s].state = "live"
<1> PICK gone : EndAll(gone)
    BY DEF Ages
<1>1. /\ session' \in [Sids -> Session]
      /\ \A s \in Sids :
           /\ session'[s].gen = session[s].gen
           /\ session'[s].kind = session[s].kind
           /\ session'[s].owner = session[s].owner
           /\ session'[s].state =
                IF s \in gone /\ Live(s) THEN "ended" ELSE session[s].state
  BY EndAllFacts
<1>2. Created' = Created
  BY <1>1 DEF Created, Live
<1> QED BY <1>1, <1>2 DEF Live

\* A request that walks keeps what it remembers.
LEMMA WalksFacts ==
  ASSUME ServerTypeOK, NEW c \in Callers, Walks(c)
  PROVE  /\ Along(call[c].pc, call'[c].pc)
         /\ call' \in [Callers -> Call]
         /\ \A d \in Callers :
              /\ call'[d].who = call[d].who /\ call'[d].sid = call[d].sid
              /\ call'[d].gen = call[d].gen /\ call'[d].kind = call[d].kind
              /\ d # c => call'[d] = call[d]
<1> PICK q : Along(call[c].pc, q) /\ Goto(c, q)
    BY DEF Walks
<1>1. q \in Working \cup Answers
  BY DEF Along, Working, Answers, Signing, Presenting, Using
<1> QED
  BY <1>1 DEF ServerTypeOK, Goto, Call, Answers

\* A sign-in creates a session that nobody had.
LEMMA CreatesFacts ==
  ASSUME ServerTypeOK, NEW c \in Callers, Creates(c)
  PROVE  /\ session' \in [Sids -> Session] /\ call' \in [Callers -> Call]
         /\ call[c].pc = "create" /\ call'[c].pc = "ok"
         /\ call'[c].sid \in Sids \ Created /\ call'[c].gen = 0
         /\ call'[c].kind = call[c].kind
         /\ \A d \in Callers \ {c} : call'[d] = call[d]
         /\ session'[call'[c].sid] = [state |-> "live", owner |-> call[c].who,
                                      gen |-> 0, kind |-> call[c].kind]
         /\ \A s \in Sids \ {call'[c].sid} : session'[s] = session[s]
         /\ Created' = Created \cup {call'[c].sid}
         /\ UNCHANGED <<worn, history, detected, loggedOut>>
<1> PICK s \in Sids :
      /\ session[s].state = "unused"
      /\ session' = [session EXCEPT ![s] = [state |-> "live",
           owner |-> call[c].who, gen |-> 0, kind |-> call[c].kind]]
      /\ call' = [call EXCEPT ![c] =
           [@ EXCEPT !.pc = "ok", !.sid = s, !.gen = 0]]
    BY DEF Creates
<1>1. /\ call'[c].sid = s /\ call'[c].pc = "ok" /\ call'[c].gen = 0
      /\ call'[c].kind = call[c].kind
      /\ \A d \in Callers \ {c} : call'[d] = call[d]
      /\ call' \in [Callers -> Call]
  BY DEF ServerTypeOK, Call
<1>2. /\ session' \in [Sids -> Session]
      /\ session'[s] = [state |-> "live", owner |-> call[c].who,
                        gen |-> 0, kind |-> call[c].kind]
      /\ \A r \in Sids \ {s} : session'[r] = session[r]
  BY DEF ServerTypeOK, Session, Call
<1>3. Created' = Created \cup {s} /\ s \notin Created
  BY <1>2 DEF Created
<1> QED
  BY <1>1, <1>2, <1>3 DEF Creates, At

\* A refresh replaces the token it presented, which was the current one.
LEMMA RotatesFacts ==
  ASSUME ServerTypeOK, NEW c \in Callers, Rotates(c), call[c].sid \in Sids
  PROVE  /\ session' \in [Sids -> Session] /\ call' \in [Callers -> Call]
         /\ call[c].pc = "rotate" /\ call'[c].pc = "ok"
         /\ call'[c].sid = call[c].sid
         /\ call[c].gen = session[call[c].sid].gen
         /\ call'[c].gen = session[call[c].sid].gen + 1
         /\ call'[c].kind = call[c].kind
         /\ \A d \in Callers \ {c} : call'[d] = call[d]
         /\ session'[call[c].sid].gen = session[call[c].sid].gen + 1
         /\ \A s \in Sids :
              /\ session'[s].kind = session[s].kind
              /\ session'[s].state = session[s].state
              /\ session'[s].owner = session[s].owner
              /\ s # call[c].sid => session'[s] = session[s]
         /\ Created' = Created
         /\ Fresh(call[c].sid)
         /\ history' = history \cup {Token(c)}
         /\ UNCHANGED <<worn, detected, loggedOut>>
<1> DEFINE s == call[c].sid
<1>1. /\ session' \in [Sids -> Session]
      /\ session'[s].gen = session[s].gen + 1
      /\ \A r \in Sids :
           /\ session'[r].kind = session[r].kind
           /\ session'[r].state = session[r].state
           /\ session'[r].owner = session[r].owner
           /\ r # s => session'[r] = session[r]
  BY DEF ServerTypeOK, Rotates, Session
<1>2. /\ call' \in [Callers -> Call] /\ call'[c].pc = "ok"
      /\ call'[c].sid = s /\ call'[c].gen = session[s].gen + 1
      /\ call'[c].kind = call[c].kind
      /\ \A d \in Callers \ {c} : call'[d] = call[d]
  <2> DEFINE n == session[s].gen + 1
  <2>1. n \in Nat
    BY DEF ServerTypeOK, Session
  <2>2. call' = [call EXCEPT ![c] = [@ EXCEPT !.pc = "ok", !.gen = n]]
    BY DEF Rotates
  <2> HIDE DEF n
  <2>3. /\ call' \in [Callers -> Call] /\ call'[c].pc = "ok"
        /\ call'[c].sid = s /\ call'[c].gen = n /\ call'[c].kind = call[c].kind
        /\ \A d \in Callers \ {c} : call'[d] = call[d]
    BY <2>1, <2>2 DEF ServerTypeOK, Call
  <2> QED BY <2>3 DEF n
<1>3. Created' = Created
  BY <1>1 DEF Created
<1> QED
  BY <1>1, <1>2, <1>3 DEF Rotates, Rotatable, Holds, At

-----------------------------------------------------------------------------
(* The invariant: where requests are, and which sessions are spoken of.    *)

\* Where the request of a tab can be, given what the tab waits for.
TabPlace(t) ==
  /\ tab[t].refresh = "sent" => call[t].pc \in Presenting \cup Answers
  /\ tab[t].leaving = "sent" => call[t].pc \in {"logout", "ok"}
  /\ tab[t].refresh # "sent" /\ tab[t].leaving # "sent" => At(t, "idle")
  /\ tab[t].leaving \in {"queued", "sent"} => tab[t].refresh = "none"
  /\ Web(t) /\ (tab[t].refresh = "sent" \/ tab[t].leaving = "sent") => lock = t
  /\ lock = t => tab[t].refresh = "sent" \/ tab[t].leaving = "sent"

ThreadPlace(h) ==
  /\ thread[h] \in {"idle", "waiting"} => At(h, "idle")
  /\ thread[h] \in {"signing", "redirected"} =>
       call[h].pc \in Signing \cup Answers
  /\ thread[h] \in {"sent", "again"} => call[h].pc \in Using \cup Answers
  /\ thread[h] = "waiting" => tab[TabOf[h]].refresh # "none"

PlaceInv ==
  /\ \A t \in Tabs : TabPlace(t)
  /\ \A h \in Threads : ThreadPlace(h)
  /\ \A o \in Orphans : call[o].pc \in Presenting \cup Answers \cup {"idle"}

SignedUp(h) == thread[h] \in {"signing", "redirected"} /\ At(h, "ok")

\* Whoever speaks of a session speaks of one that was created; a request that
\* needs a session has one.
CallNames(c) ==
  /\ call[c].sid # None => call[c].sid \in Created
  /\ call[c].pc \in Presenting \cup Using => call[c].sid # None
  /\ At(c, "logout") => call[c].sid # None

NameInv ==
  /\ \A c \in Callers : CallNames(c)
  /\ \A h \in Threads : SignedUp(h) => call[h].sid # None
  /\ \A t \in Tabs : tab[t].refresh = "sent" /\ At(t, "ok") => call[t].sid # None
  /\ \A t \in Tabs : tab[t].sid # None => tab[t].sid \in Created
  /\ \A k \in Kinds : jar[k] # None => jar[k][1] \in Created
  /\ \A s \in Sids \ Created : session[s].gen = 0
  /\ \A p \in history : p[2] < session[p[1]].gen

BaseInv == TypeOK /\ PlaceInv /\ NameInv

-----------------------------------------------------------------------------
(* Types of the server.                                                    *)

RowTypes ==
  /\ user \in [Users -> User] /\ slots \in 0..BetaSlots /\ worn \subseteq Sids
  /\ handoff \in [Users -> {"none", "open", "used"}]
  /\ eventsLeft \in 0..MaxEvents

LEMMA EventTypes ==
  ASSUME eventsLeft \in 0..MaxEvents, eventsLeft > 0,
         eventsLeft' = eventsLeft - 1
  PROVE  eventsLeft' \in 0..MaxEvents
  BY SessionConstants

LEMMA PutUser ==
  ASSUME user \in [Users -> User], NEW u, NEW r,
         user' = [user EXCEPT ![u] = r], u \in Users => r \in User
  PROVE  user' \in [Users -> User]
  OBVIOUS

LEMMA ServerRows ==
  ASSUME ServerTypeOK, NEW c \in Callers, ServerStep(c) \/ ServerChoice(c)
  PROVE  RowTypes'
<1> USE SessionConstants
        DEF ServerTypeOK, RowTypes, accounts, families, notes
<1>1. ASSUME UNCHANGED <<user, slots, worn, handoff>>,
             eventsLeft' = eventsLeft \/ (eventsLeft > 0 /\ eventsLeft' = eventsLeft - 1)
      PROVE  RowTypes'
  BY <1>1, EventTypes
<1>2. CASE \/ RegisterRead(c) \/ ReadUser(c) \/ RightPassword(c)
           \/ ReadLinked(c) \/ CreateSession(c)
           \/ FindSession(c) \/ LookUpHistory(c) \/ DropUnpaid(c)
           \/ DropExpired(c) \/ Rotate(c) \/ Reuse(c) \/ LogoutByToken(c)
           \/ Touch(c) \/ ReadSession(c) \/ DropSession(c) \/ Use(c)
           \/ WrongPassword(c) \/ RevokeSession(c) \/ RevokeOthers(c)
  BY <1>1, <1>2
     DEF RegisterRead, ReadUser, RightPassword, ReadLinked, CreateSession,
         FindSession, LookUpHistory, DropUnpaid, DropExpired, Rotate, Reuse,
         LogoutByToken, Touch, ReadSession, DropSession, Use, WrongPassword,
         RevokeSession, RevokeOthers
<1>3. CASE SignUp(c)
  <2>1. slots' \in 0..BetaSlots
    BY <1>3 DEF SignUp
  <2> DEFINE r == [status |-> "active", fails |-> 0, lock |-> "none",
                   paid |-> FALSE]
  <2>2. r \in User
    BY DEF User
  <2>3. user' = user \/ user' = [user EXCEPT ![call[c].who] = r]
    BY <1>3 DEF SignUp
  <2> HIDE DEF r
  <2>4. user' \in [Users -> User]
    BY <2>2, <2>3, PutUser
  <2> QED BY <1>3, <2>1, <2>4 DEF SignUp
<1>4. CASE CountFailure(c)
  <2>1. user' \in [Users -> User]
    BY <1>4 DEF CountFailure, User
  <2> QED BY <1>4, <2>1 DEF CountFailure
<1>5. CASE LockAccount(c)
  <2> DEFINE u == call[c].who
             r == [user[u] EXCEPT !.lock = IF @ = "none" THEN "on" ELSE @]
  <2>1. u \in Users => r \in User
    BY DEF User
  <2>2. user' = [user EXCEPT ![u] = r]
    BY <1>5, Zenon DEF LockAccount
  <2> HIDE DEF u, r
  <2>3. user' \in [Users -> User]
    BY <2>1, <2>2, PutUser
  <2> QED BY <1>5, <2>3 DEF LockAccount
<1>6. CASE ResetFailures(c)
  <2> DEFINE u == call[c].who
             r == [user[u] EXCEPT !.fails = 0, !.lock = "none"]
  <2>1. u \in Users => r \in User
    <3>1. \A v \in User : [v EXCEPT !.fails = 0, !.lock = "none"] \in User
      BY DEF User
    <3> HIDE DEF u
    <3> QED BY <3>1
  <2>2. user' = [user EXCEPT ![u] = r]
    BY <1>6 DEF ResetFailures
  <2> HIDE DEF u, r
  <2>3. user' \in [Users -> User]
    BY <2>1, <2>2, PutUser
  <2> QED BY <1>6, <2>3 DEF ResetFailures
<1>7. CASE Exchange(c)
  BY <1>7 DEF Exchange
<1>8. CASE CreateHandoff(c)
  BY <1>8, EventTypes DEF CreateHandoff
<1>9. CASE DeleteUser(c)
  <2>1. user' \in [Users -> User]
    BY <1>9 DEF DeleteUser, User
  <2> QED BY <1>9, <2>1, EventTypes DEF DeleteUser
<1> QED
  BY <1>2, <1>3, <1>4, <1>5, <1>6, <1>7, <1>8, <1>9 DEF ServerStep, ServerChoice

LEMMA OutsideRows ==
  ASSUME ServerTypeOK,
         \/ ServerEvent
         \/ AdminEvent \/ \E d \in Desks : DeskStep(d)
  PROVE  RowTypes'
<1> USE DEF ServerTypeOK, RowTypes, accounts, families, notes, Event
<1>1. ASSUME NEW s \in Sids, Wear(s)  PROVE RowTypes'
  BY <1>1, EventTypes DEF Wear
<1>2. ASSUME NEW u \in Users, LockPasses(u)  PROVE RowTypes'
  <2>1. user' \in [Users -> User]
    BY <1>2 DEF LockPasses, User
  <2> QED BY <1>2, <2>1 DEF LockPasses
<1>3. ASSUME NEW u \in Users, ChangePlan(u)  PROVE RowTypes'
  <2>1. user' \in [Users -> User]
    BY <1>3 DEF ChangePlan, User
  <2> QED BY <1>3, <2>1, EventTypes DEF ChangePlan
<1>4. ASSUME NEW u \in Users, HandoffExpires(u)  PROVE RowTypes'
  BY <1>4 DEF HandoffExpires
<1>5. ASSUME NEW d \in Desks, Commit(d)  PROVE RowTypes'
  <2>1. user' \in [Users -> User]
    BY <1>5 DEF Commit, Effect, User
  <2> QED BY <1>5, <2>1 DEF Commit
<1>6. ASSUME NEW d \in Desks, DeskStep(d)  PROVE RowTypes'
  BY <1>5, <1>6 DEF DeskStep, CheckLock, Verify, RecordFailure, Issue, Consume,
                    Decide, serverSame
<1>7. ASSUME NEW d \in Desks, Open(d)  PROVE RowTypes'
  BY <1>7, EventTypes DEF Open
<1>8. ASSUME NEW b \in Bindings, BackoffPasses(b) \/ ProofExpires(b)
      PROVE  RowTypes'
  BY <1>8 DEF BackoffPasses, ProofExpires, serverSame
<1> QED
  BY <1>1, <1>2, <1>3, <1>4, <1>6, <1>7, <1>8 DEF ServerEvent, AdminEvent

\* Sessions, requests and tokens, from the moves.
FamilyTypes ==
  /\ session \in [Sids -> Session] /\ call \in [Callers -> Call]
  /\ history \subseteq Tokens /\ detected \subseteq Tokens
  /\ loggedOut \subseteq Sids

LEMMA ServerFamilies ==
  ASSUME ServerTypeOK, NEW c \in Callers, CallNames(c),
         Walks(c) \/ Creates(c) \/ Rotates(c)
  PROVE  FamilyTypes'
<1>1. CASE Walks(c)
  <2>1. session' \in [Sids -> Session] /\ call' \in [Callers -> Call]
    BY <1>1, AgesFacts, WalksFacts DEF Walks
  <2>2. history' \subseteq Tokens /\ detected' \subseteq Tokens
    BY <1>1 DEF Walks, Ages, ServerTypeOK
  <2>3. loggedOut' \subseteq Sids
    BY <1>1 DEF Walks, ServerTypeOK, CallNames, Created
  <2> QED BY <2>1, <2>2, <2>3 DEF FamilyTypes
<1>2. CASE Creates(c)
  BY <1>2, CreatesFacts DEF FamilyTypes, ServerTypeOK
<1>3. CASE Rotates(c)
  <2>1. call[c].sid \in Sids
    BY <1>3 DEF CallNames, Rotates, At, Presenting, Created
  <2>2. Token(c) \in Tokens
    BY <2>1 DEF Token, Tokens, ServerTypeOK, Call
  <2> QED
    BY <1>3, <2>1, <2>2, RotatesFacts DEF FamilyTypes, ServerTypeOK
<1> QED BY <1>1, <1>2, <1>3

LEMMA OutsideFamilies ==
  ASSUME ServerTypeOK, Outside
  PROVE  FamilyTypes'
  BY AgesFacts DEF Outside, Ages, FamilyTypes, ServerTypeOK

-----------------------------------------------------------------------------
(* What the clients change.                                                *)

\* Every tab but t stays as it was; of t, what the fields say.
OthersStay(t) ==
  tab' \in [Tabs -> Tab] /\ \A u \in Tabs \ {t} : tab'[u] = tab[u]

LEMMA TabRefresh ==
  ASSUME ClientTypeOK, NEW t \in Tabs, NEW x \in {"none", "queued", "sent"},
         tab' = [tab EXCEPT ![t].refresh = x]
  PROVE  /\ OthersStay(t)
         /\ tab'[t].refresh = x /\ tab'[t].leaving = tab[t].leaving
         /\ tab'[t].sid = tab[t].sid
  BY DEF ClientTypeOK, Tab, OthersStay

LEMMA TabLeaving ==
  ASSUME ClientTypeOK, NEW t \in Tabs,
         NEW x \in {"none", "waits", "queued", "sent"},
         tab' = [tab EXCEPT ![t].leaving = x]
  PROVE  /\ OthersStay(t)
         /\ tab'[t].leaving = x /\ tab'[t].refresh = tab[t].refresh
         /\ tab'[t].sid = tab[t].sid
  BY DEF ClientTypeOK, Tab, OthersStay

LEMMA TabLeft ==
  ASSUME ClientTypeOK, NEW t \in Tabs,
         tab' = [tab EXCEPT ![t].leaving = "none", ![t].sid = None]
  PROVE  /\ OthersStay(t)
         /\ tab'[t].leaving = "none" /\ tab'[t].refresh = tab[t].refresh
         /\ tab'[t].sid = None
  BY DEF ClientTypeOK, Tab, OthersStay

LEMMA TabValid ==
  ASSUME ClientTypeOK, NEW t \in Tabs, tab' = [tab EXCEPT ![t].valid = FALSE]
  PROVE  /\ OthersStay(t)
         /\ tab'[t].leaving = tab[t].leaving /\ tab'[t].refresh = tab[t].refresh
         /\ tab'[t].sid = tab[t].sid
  BY DEF ClientTypeOK, Tab, OthersStay

LEMMA TabSignedIn ==
  ASSUME ClientTypeOK, NEW t \in Tabs, NEW s \in Sids,
         tab' = [tab EXCEPT ![t].sid = s, ![t].valid = TRUE]
  PROVE  /\ OthersStay(t)
         /\ tab'[t].leaving = tab[t].leaving /\ tab'[t].refresh = tab[t].refresh
         /\ tab'[t].sid = s
  BY DEF ClientTypeOK, Tab, OthersStay

LEMMA TabRefreshed ==
  ASSUME ClientTypeOK, NEW t \in Tabs, NEW s \in Sids,
         tab' = [tab EXCEPT ![t].sid = s, ![t].valid = TRUE,
                            ![t].refresh = "none"]
  PROVE  /\ OthersStay(t)
         /\ tab'[t].leaving = tab[t].leaving /\ tab'[t].refresh = "none"
         /\ tab'[t].sid = s
  BY DEF ClientTypeOK, Tab, OthersStay

LEMMA TabStopped ==
  ASSUME ClientTypeOK, NEW t \in Tabs, NEW s \in Sids \cup {None},
         tab' = [tab EXCEPT ![t].refresh = "none", ![t].sid = s]
  PROVE  /\ OthersStay(t)
         /\ tab'[t].leaving = tab[t].leaving /\ tab'[t].refresh = "none"
         /\ tab'[t].sid = s
  BY DEF ClientTypeOK, Tab, OthersStay

LEMMA TabGivenUp ==
  ASSUME ClientTypeOK, NEW t \in Tabs, NEW forgets, GiveUp(t, forgets)
  PROVE  /\ OthersStay(t)
         /\ tab'[t].leaving = tab[t].leaving /\ tab'[t].refresh = "none"
         /\ tab'[t].sid \in {tab[t].sid, None}
<1> DEFINE gone == (Web(t) /\ Waiting(t) # {}) \/ forgets
<1>1. tab' = [tab EXCEPT ![t].refresh = "none",
                         ![t].sid = IF gone THEN None ELSE @]
  BY DEF GiveUp
<1> HIDE DEF gone
<1>2. PICK s \in {tab[t].sid, None} :
        tab' = [tab EXCEPT ![t].refresh = "none", ![t].sid = s]
  <2>1. CASE gone
    BY <1>1, <2>1
  <2>2. CASE ~gone
    BY <1>1, <2>2
  <2> QED BY <2>1, <2>2
<1>3. s \in Sids \cup {None}
  BY DEF ClientTypeOK, Tab
<1> QED BY <1>2, <1>3, TabStopped

\* A request that is sent remembers the session and the rotation of its token.
LEMMA SendFacts ==
  ASSUME ServerTypeOK, NEW c \in Callers, NEW pc \in Working,
         NEW who \in Users \cup {None}, NEW token \in Tokens \cup {None},
         NEW kind \in Kinds, Send(c, pc, who, token, kind)
  PROVE  /\ call' \in [Callers -> Call]
         /\ \A d \in Callers \ {c} : call'[d] = call[d]
         /\ token = None => call'[c].sid = None
         /\ token # None => /\ call'[c].sid = token[1] /\ token[1] \in Sids
                            /\ call'[c].gen = token[2] /\ token[2] \in Nat
         /\ token # None \/ pc \notin {"find", "logout", "touch"} =>
              call'[c].pc = pc /\ call'[c].kind = kind
         /\ token = None /\ pc \in {"find", "logout", "touch"} =>
              call'[c].pc = IF pc = "logout" THEN "ok" ELSE "denied"
<1>1. CASE token = None /\ pc \in {"find", "logout", "touch"}
  <2>1. call' = [call EXCEPT ![c] = [NoCall EXCEPT !.pc =
                   IF pc = "logout" THEN "ok" ELSE "denied"]]
    BY <1>1 DEF Send
  <2> QED BY <1>1, <2>1 DEF ServerTypeOK, NoCall, Call, Kinds
<1>2. CASE ~(token = None /\ pc \in {"find", "logout", "touch"})
  <2> DEFINE r == [pc |-> pc, who |-> who, kind |-> kind,
                   sid |-> IF token = None THEN None ELSE token[1],
                   gen |-> IF token = None THEN 0 ELSE token[2]]
  <2>1. call' = [call EXCEPT ![c] = r]
    BY <1>2 DEF Send
  <2>2. token # None => token[1] \in Sids /\ token[2] \in Nat
    BY DEF Tokens
  <2>3. r \in Call
    BY <2>2 DEF Call
  <2>4. /\ call' \in [Callers -> Call] /\ call'[c] = r
        /\ \A d \in Callers \ {c} : call'[d] = call[d]
    BY <2>1, <2>3 DEF ServerTypeOK
  <2> QED BY <1>2, <2>2, <2>4
<1> QED BY <1>1, <1>2

\* An answer that was read.
LEMMA ClearFacts ==
  ASSUME ServerTypeOK, NEW c \in Callers, call' = [call EXCEPT ![c] = NoCall]
  PROVE  /\ call' \in [Callers -> Call] /\ call'[c] = NoCall
         /\ \A d \in Callers \ {c} : call'[d] = call[d]
<1>1. NoCall \in Call
  BY DEF NoCall, Call, Kinds
<1> QED BY <1>1 DEF ServerTypeOK

LEMMA ClientFacts ==
  /\ Tabs \subseteq Callers /\ Threads \subseteq Callers
  /\ Tabs \cap Threads = {} /\ None \notin Tabs
  /\ \A t \in Tabs : KindOf[t] \in Kinds
  /\ \A h \in Threads : TabOf[h] \in Tabs
  /\ None \notin Sids /\ None \notin Tokens /\ None \notin Users
  BY ClientConstants, SessionConstants

-----------------------------------------------------------------------------
(* One lemma per action of a client: what it finds and what it leaves.     *)

Quiet == UNCHANGED <<session, worn, history, detected, loggedOut>>

\* The types of what clients and requests hold.
HeldTypes == ClientTypeOK /\ call \in [Callers -> Call]

\* Only thread h moves, to a place of the set.
ThreadMoves(h, from, to) ==
  /\ thread[h] \in from /\ thread'[h] \in to
  /\ \A i \in Threads \ {h} : thread'[i] = thread[i]

OnlyCall(c) == \A d \in Callers \ {c} : call'[d] = call[d]

\* The tabs wait for what they waited for.
TabsWait ==
  \A t \in Tabs : /\ tab'[t].refresh = tab[t].refresh
                  /\ tab'[t].leaving = tab[t].leaving

LEMMA SignInFacts ==
  ASSUME BaseInv, NEW h \in Threads, SignIn(h)
  PROVE  /\ HeldTypes' /\ Quiet /\ UNCHANGED <<jar, lock, tab, lost>>
         /\ ThreadMoves(h, {"idle"}, {"signing", "redirected"})
         /\ OnlyCall(h) /\ call'[h].sid = None
         /\ call'[h].pc \in Signing /\ call'[h].kind = KindOf[TabOf[h]]
<1> DEFINE t == TabOf[h]
<1>1. PICK u \in Customers, pc \in {"register", "read_user", "linked", "exchange"} :
        /\ Send(h, pc, u, None, KindOf[t])
        /\ thread' = [thread EXCEPT ![h] =
             IF pc = "linked" THEN "redirected" ELSE "signing"]
  BY DEF SignIn
<1>2. /\ h \in Callers /\ KindOf[t] \in Kinds /\ pc \in Working /\ u \in Users
      /\ pc \in Signing /\ pc \notin {"find", "logout", "touch"}
  BY ClientFacts DEF Working, Signing, Users
<1>3. /\ call' \in [Callers -> Call] /\ OnlyCall(h) /\ call'[h].sid = None
      /\ call'[h].pc = pc /\ call'[h].kind = KindOf[t]
  BY <1>1, <1>2, SendFacts DEF BaseInv, TypeOK, OnlyCall
<1>4. /\ thread' \in [Threads -> Thread]
      /\ ThreadMoves(h, {"idle"}, {"signing", "redirected"})
  BY <1>1 DEF SignIn, BaseInv, TypeOK, ClientTypeOK, Thread, ThreadMoves
<1>5. Quiet /\ UNCHANGED <<jar, lock, tab, lost>>
  BY DEF SignIn, Quiet, serverRest, families, notes
<1> QED
  BY <1>2, <1>3, <1>4, <1>5 DEF HeldTypes, BaseInv, TypeOK, ClientTypeOK

LEMMA SignedInFacts ==
  ASSUME BaseInv, NEW h \in Threads, SignedIn(h)
  PROVE  /\ HeldTypes' /\ Quiet /\ TabsWait /\ UNCHANGED <<lock, lost>>
         /\ ThreadMoves(h, {"signing", "redirected"}, {"idle"})
         /\ OnlyCall(h) /\ call'[h] = NoCall
         /\ At(h, "ok") => /\ call[h].sid \in Sids
                           /\ jar' = [jar EXCEPT ![KindOf[TabOf[h]]] = Token(h)]
         /\ ~At(h, "ok") => jar' = jar
         /\ \A t \in Tabs : tab'[t].sid \in {tab[t].sid, call[h].sid}
<1> DEFINE t == TabOf[h]
<1>1. t \in Tabs /\ h \in Callers /\ KindOf[t] \in Kinds
  BY ClientFacts
<1>2. /\ thread' \in [Threads -> Thread]
      /\ ThreadMoves(h, {"signing", "redirected"}, {"idle"})
  BY DEF SignedIn, BaseInv, TypeOK, ClientTypeOK, Thread, ThreadMoves
<1>3. call' \in [Callers -> Call] /\ OnlyCall(h) /\ call'[h] = NoCall
  BY <1>1, ClearFacts DEF SignedIn, BaseInv, TypeOK, OnlyCall
<1>4. At(h, "ok") => call[h].sid \in Sids
  BY <1>1, <1>2
     DEF BaseInv, NameInv, SignedUp, ThreadMoves, CallNames, Created
<1>5. /\ At(h, "ok") => jar' = [jar EXCEPT ![KindOf[t]] = Token(h)]
      /\ ~At(h, "ok") => jar' = jar
      /\ jar' \in [Kinds -> Tokens \cup {None}]
  <2>1. At(h, "ok") => Token(h) \in Tokens
    BY <1>1, <1>4 DEF Token, Tokens, BaseInv, TypeOK, ServerTypeOK, Call
  <2> QED
    BY <1>1, <2>1 DEF SignedIn, SetJar, BaseInv, TypeOK, ClientTypeOK
<1>6. /\ tab' \in [Tabs -> Tab] /\ TabsWait
      /\ \A u \in Tabs : tab'[u].sid \in {tab[u].sid, call[h].sid}
  <2>1. CASE At(h, "ok") /\ thread[h] = "signing"
    <3>1. tab' = [tab EXCEPT ![t].sid = call[h].sid, ![t].valid = TRUE]
      BY <2>1 DEF SignedIn
    <3> HIDE DEF t
    <3>2. /\ OthersStay(t) /\ tab'[t].sid = call[h].sid
          /\ tab'[t].leaving = tab[t].leaving /\ tab'[t].refresh = tab[t].refresh
      BY <1>1, <1>4, <2>1, <3>1, TabSignedIn DEF BaseInv, TypeOK
    <3> QED BY <3>2 DEF OthersStay, TabsWait
  <2>2. CASE ~(At(h, "ok") /\ thread[h] = "signing")
    BY <2>2 DEF SignedIn, BaseInv, TypeOK, ClientTypeOK, TabsWait
  <2> QED BY <2>1, <2>2
<1>7. Quiet /\ UNCHANGED <<lock, lost>>
  BY DEF SignedIn, Quiet, serverRest, families, notes
<1> QED
  BY <1>2, <1>3, <1>4, <1>5, <1>6, <1>7
     DEF HeldTypes, BaseInv, TypeOK, ClientTypeOK

LEMMA RequestFacts ==
  ASSUME BaseInv, NEW h \in Threads, Request(h)
  PROVE  /\ HeldTypes' /\ Quiet /\ UNCHANGED <<jar, lock, tab, lost>>
         /\ ThreadMoves(h, {"idle"}, {"sent"}) /\ OnlyCall(h)
         /\ \/ call'[h].pc = "denied" /\ call'[h].sid = None
            \/ call'[h].pc = "touch" /\ call'[h].sid = tab[TabOf[h]].sid
                 /\ tab[TabOf[h]].sid # None
<1> DEFINE t == TabOf[h]
           x == Access(t)
<1>1. t \in Tabs /\ h \in Callers /\ KindOf[t] \in Kinds /\ "touch" \in Working
  BY ClientFacts DEF Working
<1>2. x = None \/ (x = <<tab[t].sid, 0>> /\ tab[t].sid \in Sids)
  BY <1>1 DEF Access, BaseInv, TypeOK, ClientTypeOK, Tab
<1>3. x \in Tokens \cup {None}
  BY <1>2 DEF Tokens
<1>4. Send(h, "touch", None, x, KindOf[t])
  BY DEF Request
<1> HIDE DEF x
<1>5. /\ call' \in [Callers -> Call] /\ OnlyCall(h)
      /\ x = None => call'[h].sid = None /\ call'[h].pc = "denied"
      /\ x # None => call'[h].sid = x[1] /\ call'[h].pc = "touch"
  BY <1>1, <1>3, <1>4, SendFacts DEF BaseInv, TypeOK, OnlyCall
<1>6. x # None => x[1] = tab[t].sid /\ tab[t].sid # None
  BY <1>2, ClientFacts
<1>7. /\ thread' \in [Threads -> Thread]
      /\ ThreadMoves(h, {"idle"}, {"sent"})
  BY DEF Request, BaseInv, TypeOK, ClientTypeOK, Thread, ThreadMoves
<1>8. Quiet /\ UNCHANGED <<jar, lock, tab, lost>>
  BY DEF Request, Quiet, serverRest, families, notes
<1> QED
  BY <1>5, <1>6, <1>7, <1>8 DEF HeldTypes, BaseInv, TypeOK, ClientTypeOK

TabAsked(t) ==
  /\ OthersStay(t)
  /\ tab'[t].refresh =
       IF tab[t].refresh = "none" THEN "queued" ELSE tab[t].refresh
  /\ tab'[t].leaving = tab[t].leaving /\ tab'[t].sid = tab[t].sid

LEMMA AskFacts ==
  ASSUME ClientTypeOK, NEW t \in Tabs, tab' = Ask(t)
  PROVE  TabAsked(t)
<1>1. PICK x \in {"none", "queued", "sent"} :
        /\ x = IF tab[t].refresh = "none" THEN "queued" ELSE tab[t].refresh
        /\ tab' = [tab EXCEPT ![t].refresh = x]
  BY DEF Ask, ClientTypeOK, Tab
<1> QED BY <1>1, TabRefresh DEF TabAsked

LEMMA LoadFacts ==
  ASSUME BaseInv, NEW h \in Threads, Load(h)
  PROVE  /\ HeldTypes' /\ Quiet /\ UNCHANGED <<jar, lock, call, lost>>
         /\ ThreadMoves(h, {"idle"}, {"waiting"})
         /\ tab[TabOf[h]].leaving = "none" /\ TabAsked(TabOf[h])
<1>1. TabAsked(TabOf[h])
  BY ClientFacts, AskFacts DEF Load, BaseInv, TypeOK
<1>2. /\ thread' \in [Threads -> Thread]
      /\ ThreadMoves(h, {"idle"}, {"waiting"})
  BY DEF Load, BaseInv, TypeOK, ClientTypeOK, Thread, ThreadMoves
<1>3. /\ Quiet /\ UNCHANGED <<jar, lock, call, lost>>
      /\ tab[TabOf[h]].leaving = "none"
  BY DEF Load, Quiet, serverRest, families, notes
<1> QED
  BY <1>1, <1>2, <1>3
     DEF HeldTypes, BaseInv, TypeOK, ServerTypeOK, ClientTypeOK, TabAsked,
         OthersStay

LEMMA AnsweredFacts ==
  ASSUME BaseInv, NEW h \in Threads, Answered(h)
  PROVE  /\ HeldTypes' /\ Quiet /\ UNCHANGED <<jar, lock, lost>>
         /\ OnlyCall(h) /\ call'[h] = NoCall
         /\ \/ /\ ThreadMoves(h, {"sent", "again"}, {"waiting"})
               /\ tab[TabOf[h]].leaving = "none" /\ TabAsked(TabOf[h])
            \/ /\ ThreadMoves(h, {"sent", "again"}, {"idle"})
               /\ UNCHANGED tab
<1> DEFINE t == TabOf[h]
           again == At(h, "denied") /\ thread[h] = "sent" /\ tab[t].leaving = "none"
<1>1. /\ thread[h] \in {"sent", "again"}
      /\ thread' = [thread EXCEPT ![h] = IF again THEN "waiting" ELSE "idle"]
      /\ tab' = IF again THEN Ask(t) ELSE tab
      /\ call' = [call EXCEPT ![h] = NoCall]
  BY DEF Answered
<1>2. call' \in [Callers -> Call] /\ OnlyCall(h) /\ call'[h] = NoCall
  BY <1>1, ClientFacts, ClearFacts DEF BaseInv, TypeOK, OnlyCall
<1>3. Quiet /\ UNCHANGED <<jar, lock, lost>>
  BY DEF Answered, Quiet, serverRest, families, notes
<1>4. thread' \in [Threads -> Thread]
  BY <1>1 DEF BaseInv, TypeOK, ClientTypeOK, Thread
<1>5. CASE again
  <2>1. TabAsked(t)
    BY <1>1, <1>5, ClientFacts, AskFacts DEF BaseInv, TypeOK
  <2>2. ThreadMoves(h, {"sent", "again"}, {"waiting"})
    BY <1>1, <1>5 DEF BaseInv, TypeOK, ClientTypeOK, ThreadMoves
  <2> QED
    BY <1>2, <1>3, <1>4, <1>5, <2>1, <2>2
       DEF HeldTypes, BaseInv, TypeOK, ClientTypeOK, TabAsked, OthersStay
<1>6. CASE ~again
  <2>1. ThreadMoves(h, {"sent", "again"}, {"idle"}) /\ UNCHANGED tab
    BY <1>1, <1>6 DEF BaseInv, TypeOK, ClientTypeOK, ThreadMoves
  <2> QED
    BY <1>2, <1>3, <1>4, <2>1 DEF HeldTypes, BaseInv, TypeOK, ClientTypeOK
<1> QED BY <1>5, <1>6

\* A tab sends its cookie; for it, the tabs of a browser take turns.
JarSent(t, p, without) ==
  /\ HeldTypes' /\ Quiet /\ UNCHANGED <<jar, thread, lost>>
  /\ OthersStay(t) /\ tab'[t].sid = tab[t].sid
  /\ LockFree(t) /\ lock' = (IF Web(t) THEN t ELSE lock)
  /\ OnlyCall(t)
  /\ Jar(t) = None => call'[t].sid = None /\ call'[t].pc = without
  /\ Jar(t) # None => /\ call'[t].pc = p /\ call'[t].kind = KindOf[t]
                      /\ call'[t].sid = Jar(t)[1] /\ call'[t].gen = Jar(t)[2]

LEMMA JarSentFacts ==
  ASSUME BaseInv, NEW t \in Tabs, NEW p \in {"find", "logout"},
         Send(t, p, None, Jar(t), KindOf[t])
  PROVE  /\ call' \in [Callers -> Call] /\ OnlyCall(t)
         /\ Jar(t) = None => /\ call'[t].sid = None
                             /\ call'[t].pc = IF p = "logout" THEN "ok" ELSE "denied"
         /\ Jar(t) # None =>
              /\ call'[t].pc = p /\ call'[t].kind = KindOf[t]
              /\ call'[t].sid = Jar(t)[1] /\ call'[t].gen = Jar(t)[2]
<1> DEFINE x == Jar(t)
<1>1. x \in Tokens \cup {None} /\ KindOf[t] \in Kinds /\ t \in Callers
  BY ClientFacts DEF BaseInv, TypeOK, ClientTypeOK, Jar
<1>2. Send(t, p, None, x, KindOf[t]) /\ p \in Working
  BY DEF Working
<1> HIDE DEF x
<1>3. /\ call' \in [Callers -> Call] /\ OnlyCall(t)
      /\ x = None => /\ call'[t].sid = None
                     /\ call'[t].pc = IF p = "logout" THEN "ok" ELSE "denied"
      /\ x # None =>
           /\ call'[t].pc = p /\ call'[t].kind = KindOf[t]
           /\ call'[t].sid = x[1] /\ call'[t].gen = x[2]
  BY <1>1, <1>2, SendFacts DEF BaseInv, TypeOK, OnlyCall
<1> QED BY <1>3 DEF x

LEMMA SendRefreshFacts ==
  ASSUME BaseInv, NEW t \in Tabs, SendRefresh(t)
  PROVE  /\ JarSent(t, "find", "denied")
         /\ tab[t].refresh = "queued" /\ tab'[t].refresh = "sent"
         /\ tab'[t].leaving = tab[t].leaving
<1>1. /\ OthersStay(t) /\ tab'[t].sid = tab[t].sid
      /\ tab[t].refresh = "queued" /\ tab'[t].refresh = "sent"
      /\ tab'[t].leaving = tab[t].leaving
  BY TabRefresh DEF SendRefresh, BaseInv, TypeOK
<1>2. Send(t, "find", None, Jar(t), KindOf[t])
  BY DEF SendRefresh
<1>3. /\ Quiet /\ UNCHANGED <<jar, thread, lost>> /\ LockFree(t)
      /\ lock' = (IF Web(t) THEN t ELSE lock)
  BY DEF SendRefresh, Take, Quiet, serverRest, families, notes
<1> QED
  BY <1>1, <1>2, <1>3, JarSentFacts
     DEF JarSent, HeldTypes, BaseInv, TypeOK, ClientTypeOK, OthersStay

LEMMA SendLogoutFacts ==
  ASSUME BaseInv, NEW t \in Tabs, SendLogout(t)
  PROVE  /\ JarSent(t, "logout", "ok")
         /\ tab[t].leaving = "queued" /\ tab'[t].leaving = "sent"
         /\ tab'[t].refresh = tab[t].refresh
<1>1. /\ OthersStay(t) /\ tab'[t].sid = tab[t].sid
      /\ tab[t].leaving = "queued" /\ tab'[t].leaving = "sent"
      /\ tab'[t].refresh = tab[t].refresh
  BY TabLeaving DEF SendLogout, BaseInv, TypeOK
<1>2. Send(t, "logout", None, Jar(t), KindOf[t])
  BY DEF SendLogout
<1>3. /\ Quiet /\ UNCHANGED <<jar, thread, lost>> /\ LockFree(t)
      /\ lock' = (IF Web(t) THEN t ELSE lock)
  BY DEF SendLogout, Take, Quiet, serverRest, families, notes
<1> QED
  BY <1>1, <1>2, <1>3, JarSentFacts
     DEF JarSent, HeldTypes, BaseInv, TypeOK, ClientTypeOK, OthersStay

LEMMA RefreshedFacts ==
  ASSUME BaseInv, NEW t \in Tabs, Refreshed(t)
  PROVE  /\ HeldTypes' /\ Quiet /\ UNCHANGED lost
         /\ tab[t].refresh = "sent" /\ At(t, "ok") /\ call[t].sid \in Sids
         /\ OthersStay(t) /\ tab'[t].refresh = "none"
         /\ tab'[t].leaving = tab[t].leaving /\ tab'[t].sid = call[t].sid
         /\ jar' = [jar EXCEPT ![KindOf[t]] = Token(t)]
         /\ lock' = (IF lock = t THEN None ELSE lock)
         /\ call'[t] = NoCall
         /\ \A h \in Waiting(t) :
              /\ call'[h].pc = "touch" /\ call'[h].sid = call[t].sid
              /\ thread'[h] = "again"
         /\ \A c \in Callers \ ({t} \cup Waiting(t)) : call'[c] = call[c]
         /\ \A h \in Threads \ Waiting(t) : thread'[h] = thread[h]
<1>1. tab[t].refresh = "sent" /\ At(t, "ok")
  BY DEF Refreshed
<1>2. call[t].sid \in Sids
  BY <1>1, ClientFacts DEF BaseInv, NameInv, CallNames, Created
<1>3. /\ OthersStay(t) /\ tab'[t].refresh = "none"
      /\ tab'[t].leaving = tab[t].leaving /\ tab'[t].sid = call[t].sid
  BY <1>2, TabRefreshed DEF Refreshed, BaseInv, TypeOK
<1>4. /\ jar' = [jar EXCEPT ![KindOf[t]] = Token(t)]
      /\ jar' \in [Kinds -> Tokens \cup {None}]
  <2>1. Token(t) \in Tokens
    BY <1>2, ClientFacts DEF Token, Tokens, BaseInv, TypeOK, ServerTypeOK, Call
  <2> QED
    BY <2>1 DEF Refreshed, SetJar, BaseInv, TypeOK, ClientTypeOK
<1>5. /\ lock' = (IF lock = t THEN None ELSE lock)
      /\ Quiet /\ UNCHANGED lost
  BY DEF Refreshed, Unlock, Quiet, serverRest, families, notes
<1>6. /\ thread' \in [Threads -> Thread]
      /\ \A h \in Waiting(t) : thread'[h] = "again"
      /\ \A h \in Threads \ Waiting(t) : thread'[h] = thread[h]
  <2>1. thread' = [h \in Threads |->
          IF h \in Waiting(t) THEN "again" ELSE thread[h]]
    BY DEF Refreshed
  <2> QED
    BY <2>1 DEF Waiting, BaseInv, TypeOK, ClientTypeOK, Thread
<1>7. /\ call' \in [Callers -> Call] /\ call'[t] = NoCall
      /\ \A h \in Waiting(t) : call'[h].pc = "touch" /\ call'[h].sid = call[t].sid
      /\ \A c \in Callers \ ({t} \cup Waiting(t)) : call'[c] = call[c]
  <2> DEFINE r == [NoCall EXCEPT !.pc = "touch", !.sid = call[t].sid]
  <2>1. call' = [c \in Callers |-> IF c = t THEN NoCall
                  ELSE IF c \in Waiting(t) THEN r ELSE call[c]]
    BY DEF Refreshed
  <2>2. r \in Call /\ r.pc = "touch" /\ r.sid = call[t].sid /\ NoCall \in Call
    BY <1>2 DEF NoCall, Call, Working, Kinds
  <2> HIDE DEF r
  <2>3. Waiting(t) \subseteq Callers /\ t \notin Waiting(t) /\ t \in Callers
    BY ClientFacts DEF Waiting
  <2> QED BY <2>1, <2>2, <2>3 DEF BaseInv, TypeOK, ServerTypeOK
<1> QED
  BY <1>1, <1>2, <1>3, <1>4, <1>5, <1>6, <1>7
     DEF HeldTypes, BaseInv, TypeOK, ClientTypeOK, OthersStay

\* A tab without an answer: who waited for it reports an expired session.
GivenUp(t) ==
  /\ OthersStay(t) /\ tab'[t].refresh = "none"
  /\ tab'[t].leaving = tab[t].leaving
  /\ tab'[t].sid \in {tab[t].sid, None}
  /\ lock' = (IF lock = t THEN None ELSE lock)
  /\ thread' \in [Threads -> Thread]
  /\ \A h \in Waiting(t) : thread'[h] = "idle"
  /\ \A h \in Threads \ Waiting(t) : thread'[h] = thread[h]

LEMMA GiveUpFacts ==
  ASSUME ClientTypeOK, NEW t \in Tabs, NEW forgets, GiveUp(t, forgets)
  PROVE  GivenUp(t)
<1>1. thread' = [h \in Threads |->
        IF h \in Waiting(t) THEN "idle" ELSE thread[h]]
  BY DEF GiveUp
<1>2. /\ thread' \in [Threads -> Thread]
      /\ \A h \in Waiting(t) : thread'[h] = "idle"
      /\ \A h \in Threads \ Waiting(t) : thread'[h] = thread[h]
  BY <1>1 DEF Waiting, ClientTypeOK, Thread
<1>3. lock' = (IF lock = t THEN None ELSE lock)
  BY DEF GiveUp, Unlock
<1> QED BY <1>2, <1>3, TabGivenUp DEF GivenUp

LEMMA RefreshRefusedFacts ==
  ASSUME BaseInv, NEW t \in Tabs, RefreshRefused(t)
  PROVE  /\ HeldTypes' /\ Quiet /\ UNCHANGED lost /\ GivenUp(t)
         /\ tab[t].refresh = "sent" /\ At(t, "denied")
         /\ \A k \in Kinds : jar'[k] \in {jar[k], None}
         /\ OnlyCall(t) /\ call'[t] = NoCall
<1>1. GivenUp(t)
  BY GiveUpFacts DEF RefreshRefused, BaseInv, TypeOK
<1>2. /\ jar' \in [Kinds -> Tokens \cup {None}]
      /\ \A k \in Kinds : jar'[k] \in {jar[k], None}
  BY DEF RefreshRefused, GiveUp, SetJar, BaseInv, TypeOK, ClientTypeOK
<1>3. call' \in [Callers -> Call] /\ OnlyCall(t) /\ call'[t] = NoCall
  BY ClientFacts, ClearFacts DEF RefreshRefused, BaseInv, TypeOK, OnlyCall
<1>4. /\ Quiet /\ UNCHANGED lost /\ tab[t].refresh = "sent" /\ At(t, "denied")
  BY DEF RefreshRefused, Quiet, serverRest, families, notes
<1> QED
  BY <1>1, <1>2, <1>3, <1>4
     DEF HeldTypes, BaseInv, TypeOK, ClientTypeOK, GivenUp, OthersStay

LEMMA RefreshLostFacts ==
  ASSUME BaseInv, NEW t \in Tabs, RefreshLost(t)
  PROVE  /\ HeldTypes' /\ Quiet /\ lost' = TRUE /\ GivenUp(t)
         /\ tab[t].refresh = "sent" /\ jar' = jar
         /\ call'[t] = NoCall
         /\ \E o \in Orphans :
              /\ call'[o] = call[t]
              /\ \A c \in Callers \ {o, t} : call'[c] = call[c]
<1>1. GivenUp(t)
  BY GiveUpFacts DEF RefreshLost, BaseInv, TypeOK
<1>2. PICK o \in Orphans : call' = [call EXCEPT ![o] = call[t], ![t] = NoCall]
  BY DEF RefreshLost
<1>3. NoCall \in Call /\ t \in Callers /\ o \in Callers /\ o # t
  BY ClientFacts DEF NoCall, Call, Kinds, Orphans
<1>4. /\ call' \in [Callers -> Call] /\ call'[t] = NoCall /\ call'[o] = call[t]
      /\ \A c \in Callers \ {o, t} : call'[c] = call[c]
  BY <1>2, <1>3 DEF BaseInv, TypeOK, ServerTypeOK
<1>5. /\ Quiet /\ lost' = TRUE /\ tab[t].refresh = "sent" /\ jar' = jar
  BY DEF RefreshLost, GiveUp, Quiet, families
<1> QED
  BY <1>1, <1>4, <1>5
     DEF HeldTypes, BaseInv, TypeOK, ClientTypeOK, GivenUp, OthersStay

LEMMA LogoutFacts ==
  ASSUME BaseInv, NEW t \in Tabs, Logout(t) \/ AwaitRefresh(t)
  PROVE  /\ HeldTypes' /\ Quiet /\ UNCHANGED <<jar, lock, thread, call, lost>>
         /\ OthersStay(t) /\ tab'[t].sid = tab[t].sid
         /\ tab'[t].refresh = tab[t].refresh
         /\ \/ tab[t].leaving = "none" /\ tab'[t].leaving = "waits"
            \/ /\ tab[t].leaving = "waits" /\ tab'[t].leaving = "queued"
               /\ tab[t].refresh = "none"
<1>1. /\ OthersStay(t) /\ tab'[t].sid = tab[t].sid
      /\ tab'[t].refresh = tab[t].refresh
      /\ \/ tab[t].leaving = "none" /\ tab'[t].leaving = "waits"
         \/ /\ tab[t].leaving = "waits" /\ tab'[t].leaving = "queued"
            /\ tab[t].refresh = "none"
  BY TabLeaving DEF Logout, AwaitRefresh, BaseInv, TypeOK
<1>2. Quiet /\ UNCHANGED <<jar, lock, thread, call, lost>>
  BY DEF Logout, AwaitRefresh, Quiet, serverRest, families, notes
<1> QED
  BY <1>1, <1>2
     DEF HeldTypes, BaseInv, TypeOK, ServerTypeOK, ClientTypeOK, OthersStay

LEMMA LoggedOutFacts ==
  ASSUME BaseInv, NEW t \in Tabs, LoggedOut(t) \/ LogoutLost(t)
  PROVE  /\ HeldTypes' /\ Quiet /\ UNCHANGED thread /\ lost' \in {lost, TRUE}
         /\ tab[t].leaving = "sent"
         /\ OthersStay(t) /\ tab'[t].sid = None
         /\ tab'[t].refresh = tab[t].refresh /\ tab'[t].leaving = "none"
         /\ \A k \in Kinds : jar'[k] \in {jar[k], None}
         /\ lock' = (IF lock = t THEN None ELSE lock)
         /\ OnlyCall(t) /\ call'[t] = NoCall
<1>1. /\ OthersStay(t) /\ tab'[t].sid = None
      /\ tab'[t].refresh = tab[t].refresh /\ tab'[t].leaving = "none"
  BY TabLeft DEF LoggedOut, LogoutLost, BaseInv, TypeOK
<1>2. /\ jar' \in [Kinds -> Tokens \cup {None}]
      /\ \A k \in Kinds : jar'[k] \in {jar[k], None}
  BY DEF LoggedOut, LogoutLost, SetJar, BaseInv, TypeOK, ClientTypeOK
<1>3. call' \in [Callers -> Call] /\ OnlyCall(t) /\ call'[t] = NoCall
  BY ClientFacts, ClearFacts
     DEF LoggedOut, LogoutLost, BaseInv, TypeOK, OnlyCall
<1>4. /\ Quiet /\ UNCHANGED thread /\ lost' \in {lost, TRUE}
      /\ tab[t].leaving = "sent" /\ lock' = (IF lock = t THEN None ELSE lock)
  BY DEF LoggedOut, LogoutLost, Unlock, Quiet, serverRest, families, notes
<1> QED
  BY <1>1, <1>2, <1>3, <1>4
     DEF HeldTypes, BaseInv, TypeOK, ClientTypeOK, OthersStay

LEMMA AccessExpiresFacts ==
  ASSUME BaseInv, NEW t \in Tabs, AccessExpires(t)
  PROVE  /\ HeldTypes' /\ Quiet /\ UNCHANGED <<jar, lock, thread, call, lost>>
         /\ OthersStay(t) /\ tab'[t].sid = tab[t].sid
         /\ tab'[t].refresh = tab[t].refresh /\ tab'[t].leaving = tab[t].leaving
<1>1. /\ OthersStay(t) /\ tab'[t].sid = tab[t].sid
      /\ tab'[t].refresh = tab[t].refresh /\ tab'[t].leaving = tab[t].leaving
  BY TabValid DEF AccessExpires, BaseInv, TypeOK
<1>2. Quiet /\ UNCHANGED <<jar, lock, thread, call, lost>>
  BY DEF AccessExpires, Quiet, serverRest, families, notes
<1> QED
  BY <1>1, <1>2
     DEF HeldTypes, BaseInv, TypeOK, ServerTypeOK, ClientTypeOK, OthersStay

-----------------------------------------------------------------------------
(* Where requests are.                                                     *)

\* How far a move of the server takes a request.
Paces(p, q) ==
  \/ q = p \/ Along(p, q)
  \/ p = "create" /\ q = "ok"
  \/ p = "rotate" /\ q = "ok"

LEMMA ServerPaces ==
  ASSUME ServerTypeOK, NEW c \in Callers, CallNames(c),
         Walks(c) \/ Creates(c) \/ Rotates(c)
  PROVE  /\ \A d \in Callers : Paces(call[d].pc, call'[d].pc)
         /\ OnlyCall(c)
<1>1. CASE Walks(c)
  BY <1>1, WalksFacts DEF Paces, OnlyCall
<1>2. CASE Creates(c)
  BY <1>2, CreatesFacts DEF Paces, OnlyCall
<1>3. CASE Rotates(c)
  <2>1. call[c].sid \in Sids
    BY <1>3 DEF CallNames, Rotates, At, Presenting, Created
  <2> QED BY <1>3, <2>1, RotatesFacts DEF Paces, OnlyCall
<1> QED BY <1>1, <1>2, <1>3

LEMMA PlaceServer ==
  ASSUME BaseInv, NEW c \in Callers, Walks(c) \/ Creates(c) \/ Rotates(c),
         UNCHANGED clientVars
  PROVE  PlaceInv'
<1>1. \A d \in Callers : Paces(call[d].pc, call'[d].pc)
  BY ServerPaces DEF BaseInv, TypeOK, NameInv
<1> USE DEF Paces, Along, Signing, Presenting, Using, Answers
<1>2. ASSUME NEW t \in Tabs  PROVE TabPlace(t)'
  <2>1. TabPlace(t) /\ Paces(call[t].pc, call'[t].pc)
    BY <1>1, ClientFacts DEF BaseInv, PlaceInv
  <2> QED BY <2>1 DEF TabPlace, At, Web, clientVars
<1>3. ASSUME NEW h \in Threads  PROVE ThreadPlace(h)'
  <2>1. ThreadPlace(h) /\ Paces(call[h].pc, call'[h].pc)
    BY <1>1, ClientFacts DEF BaseInv, PlaceInv
  <2> QED BY <2>1 DEF ThreadPlace, At, clientVars
<1>4. ASSUME NEW o \in Orphans
      PROVE  call'[o].pc \in Presenting \cup Answers \cup {"idle"}
  <2>1. call[o].pc \in Presenting \cup Answers \cup {"idle"} /\ o \in Callers
    BY DEF BaseInv, PlaceInv, Orphans
  <2> QED BY <1>1, <2>1
<1> QED BY <1>2, <1>3, <1>4 DEF PlaceInv

LEMMA PlaceSame ==
  ASSUME PlaceInv, UNCHANGED <<call, clientVars>>
  PROVE  PlaceInv'
  BY DEF PlaceInv, TabPlace, ThreadPlace, At, Web, clientVars

\* A step of thread h.
LEMMA PlaceThread ==
  ASSUME BaseInv, NEW h \in Threads, OnlyCall(h), UNCHANGED lock,
         \A i \in Threads \ {h} : thread'[i] = thread[i],
         ThreadPlace(h)',
         \A t \in Tabs : TabAsked(t) \/ tab'[t] = tab[t]
           \/ (tab'[t].refresh = tab[t].refresh /\ tab'[t].leaving = tab[t].leaving),
         \A t \in Tabs : tab[t].refresh = "none" /\ tab'[t].refresh # "none"
                           => tab[t].leaving = "none"
  PROVE  PlaceInv'
<1>1. /\ \A t \in Tabs : call'[t] = call[t]
      /\ \A o \in Orphans : call'[o] = call[o]
      /\ \A i \in Threads \ {h} : call'[i] = call[i]
  BY ClientFacts DEF OnlyCall, Orphans
<1>2. ASSUME NEW t \in Tabs
      PROVE  /\ TabPlace(t)'
             /\ tab[t].refresh # "none" => tab'[t].refresh # "none"
  <2>1. TabPlace(t) /\ call'[t] = call[t]
    BY <1>1 DEF BaseInv, PlaceInv
  <2>2. /\ tab'[t].leaving = tab[t].leaving
        /\ tab'[t].refresh = tab[t].refresh
             \/ (tab[t].refresh = "none" /\ tab'[t].refresh = "queued")
    BY DEF TabAsked
  <2> QED BY <2>1, <2>2 DEF TabPlace, At, Web
<1>3. ASSUME NEW i \in Threads \ {h}  PROVE ThreadPlace(i)'
  BY <1>1, <1>2, ClientFacts DEF BaseInv, PlaceInv, ThreadPlace, At
<1>4. \A o \in Orphans : call'[o].pc \in Presenting \cup Answers \cup {"idle"}
  BY <1>1 DEF BaseInv, PlaceInv
<1> QED BY <1>2, <1>3, <1>4 DEF PlaceInv

LEMMA PlaceThreads ==
  ASSUME BaseInv, NEW h \in Threads,
         SignIn(h) \/ SignedIn(h) \/ Request(h) \/ Load(h) \/ Answered(h)
  PROVE  PlaceInv'
<1> USE DEF ThreadMoves
<1>1. CASE SignIn(h)
  <2>1. ThreadPlace(h)'
    BY <1>1, SignInFacts DEF ThreadPlace, Signing, Answers, At
  <2> QED BY <1>1, <2>1, SignInFacts, PlaceThread
<1>2. CASE SignedIn(h)
  <2>1. ThreadPlace(h)'
    BY <1>2, SignedInFacts DEF ThreadPlace, NoCall, At
  <2> QED BY <1>2, <2>1, SignedInFacts, PlaceThread DEF TabsWait
<1>3. CASE Request(h)
  <2>1. ThreadPlace(h)'
    BY <1>3, RequestFacts DEF ThreadPlace, Using, Answers, At
  <2> QED BY <1>3, <2>1, RequestFacts, PlaceThread
<1>4. CASE Load(h)
  <2>1. ThreadPlace(h)'
    BY <1>4, LoadFacts DEF ThreadPlace, TabAsked, At, BaseInv, PlaceInv
  <2> QED
    BY <1>4, <2>1, LoadFacts, PlaceThread DEF OnlyCall, TabAsked, OthersStay
<1>5. CASE Answered(h)
  <2>1. ThreadPlace(h)'
    BY <1>5, AnsweredFacts DEF ThreadPlace, TabAsked, NoCall, At
  <2> QED
    BY <1>5, <2>1, AnsweredFacts, PlaceThread DEF TabAsked, OthersStay
<1> QED BY <1>1, <1>2, <1>3, <1>4, <1>5

\* A step of tab t.
LEMMA PlaceTab ==
  ASSUME BaseInv, NEW t \in Tabs, OthersStay(t), TabPlace(t)',
         \A u \in Tabs \ {t} : call'[u] = call[u] /\ (lock' = u <=> lock = u),
         \A h \in Threads :
           \/ /\ call'[h] = call[h] /\ thread'[h] = thread[h]
              /\ thread[h] = "waiting" /\ TabOf[h] = t => tab'[t].refresh # "none"
           \/ ThreadPlace(h)',
         \A o \in Orphans : \/ call'[o] = call[o]
                            \/ call'[o].pc \in Presenting \cup Answers
  PROVE  PlaceInv'
<1>1. ASSUME NEW u \in Tabs \ {t}  PROVE TabPlace(u)'
  <2>1. TabPlace(u) /\ tab'[u] = tab[u] /\ call'[u] = call[u]
        /\ (lock' = u <=> lock = u)
    BY DEF BaseInv, PlaceInv, OthersStay
  <2> QED BY <2>1 DEF TabPlace, At, Web
<1>2. ASSUME NEW h \in Threads  PROVE ThreadPlace(h)'
  <2>1. ThreadPlace(h) /\ TabOf[h] \in Tabs
    BY ClientFacts DEF BaseInv, PlaceInv
  <2> QED BY <2>1 DEF ThreadPlace, At, OthersStay
<1>3. \A o \in Orphans : call'[o].pc \in Presenting \cup Answers \cup {"idle"}
  BY DEF BaseInv, PlaceInv
<1> QED BY <1>1, <1>2, <1>3 DEF PlaceInv

\* While one tab of the browser has the lock, no other is in the server.
LEMMA LockedOut ==
  ASSUME BaseInv, NEW t \in Tabs, LockFree(t)
  PROVE  \A u \in Tabs \ {t} :
           (IF Web(t) THEN t ELSE lock) = u <=> lock = u
  BY ClientFacts DEF LockFree

LEMMA CallsApart ==
  ASSUME NEW t \in Tabs, OnlyCall(t)
  PROVE  /\ \A u \in Tabs \ {t} : call'[u] = call[u]
         /\ \A h \in Threads : call'[h] = call[h]
         /\ \A o \in Orphans : call'[o] = call[o]
  BY ClientFacts DEF OnlyCall, Orphans

LEMMA PlaceTabs ==
  ASSUME BaseInv, NEW t \in Tabs,
         ClientStep(t) \/ Logout(t) \/ AccessExpires(t) \/ RefreshLost(t)
           \/ LogoutLost(t)
  PROVE  PlaceInv'
<1>0. TabPlace(t)
  BY DEF BaseInv, PlaceInv
<1> USE CallsApart
<1>1. CASE SendRefresh(t)
  <2>1. TabPlace(t)'
    BY <1>0, <1>1, SendRefreshFacts
       DEF TabPlace, JarSent, Presenting, Answers, At, Web
  <2> QED
    BY <1>1, <2>1, SendRefreshFacts, LockedOut, PlaceTab DEF JarSent
<1>2. CASE SendLogout(t)
  <2>1. TabPlace(t)'
    BY <1>0, <1>2, SendLogoutFacts DEF TabPlace, JarSent, At, Web
  <2>2. \A h \in Threads : thread'[h] = thread[h]
    BY <1>2, SendLogoutFacts DEF JarSent
  <2>3. \A h \in Threads : thread[h] = "waiting" /\ TabOf[h] = t =>
          tab'[t].refresh # "none"
    BY <1>2, SendLogoutFacts DEF BaseInv, PlaceInv, ThreadPlace
  <2> QED
    BY <1>2, <2>1, <2>2, <2>3, SendLogoutFacts, LockedOut, PlaceTab DEF JarSent
<1>3. CASE Refreshed(t)
  <2>1. TabPlace(t)'
    BY <1>0, <1>3, RefreshedFacts, ClientFacts DEF TabPlace, NoCall, At, Web
  <2>2. ASSUME NEW h \in Threads
        PROVE  \/ /\ call'[h] = call[h] /\ thread'[h] = thread[h]
                  /\ thread[h] = "waiting" /\ TabOf[h] = t =>
                       tab'[t].refresh # "none"
               \/ ThreadPlace(h)'
    <3>1. CASE h \in Waiting(t)
      BY <1>3, <3>1, RefreshedFacts DEF ThreadPlace, Using, At
    <3>2. CASE h \notin Waiting(t)
      BY <1>3, <3>2, RefreshedFacts, ClientFacts DEF Waiting
    <3> QED BY <3>1, <3>2
  <2>3. \A u \in Tabs \ {t} : call'[u] = call[u] /\ (lock' = u <=> lock = u)
    BY <1>3, RefreshedFacts, ClientFacts DEF Waiting
  <2>4. \A o \in Orphans : call'[o] = call[o]
    BY <1>3, RefreshedFacts, ClientFacts DEF Waiting, Orphans
  <2> QED BY <1>3, <2>1, <2>2, <2>3, <2>4, RefreshedFacts, PlaceTab
<1>4. CASE RefreshRefused(t)
  <2>1. TabPlace(t)'
    BY <1>0, <1>4, RefreshRefusedFacts, ClientFacts
       DEF TabPlace, GivenUp, NoCall, At, Web
  <2>2. ASSUME NEW h \in Threads
        PROVE  \/ /\ call'[h] = call[h] /\ thread'[h] = thread[h]
                  /\ thread[h] = "waiting" /\ TabOf[h] = t =>
                       tab'[t].refresh # "none"
               \/ ThreadPlace(h)'
    <3>0. ThreadPlace(h) /\ call'[h] = call[h]
      BY <1>4, RefreshRefusedFacts DEF BaseInv, PlaceInv
    <3>1. CASE h \in Waiting(t)
      BY <1>4, <3>0, <3>1, RefreshRefusedFacts
         DEF ThreadPlace, GivenUp, Waiting, At
    <3>2. CASE h \notin Waiting(t)
      BY <1>4, <3>0, <3>2, RefreshRefusedFacts DEF Waiting, GivenUp
    <3> QED BY <3>1, <3>2
  <2>3. \A u \in Tabs \ {t} : lock' = u <=> lock = u
    BY <1>4, RefreshRefusedFacts, ClientFacts DEF GivenUp
  <2> QED
    BY <1>4, <2>1, <2>2, <2>3, RefreshRefusedFacts, PlaceTab DEF GivenUp
<1>5. CASE RefreshLost(t)
  <2>5. /\ GivenUp(t) /\ tab[t].refresh = "sent" /\ call'[t] = NoCall
        /\ lock' = (IF lock = t THEN None ELSE lock)
    BY <1>5, RefreshLostFacts DEF GivenUp
  <2>1. TabPlace(t)'
    BY <1>0, <2>5, ClientFacts DEF TabPlace, GivenUp, NoCall, At, Web
  <2>0. PICK o \in Orphans : /\ call'[o] = call[t]
                             /\ \A c \in Callers \ {o, t} : call'[c] = call[c]
    BY <1>5, RefreshLostFacts
  <2>2. ASSUME NEW h \in Threads
        PROVE  \/ /\ call'[h] = call[h] /\ thread'[h] = thread[h]
                  /\ thread[h] = "waiting" /\ TabOf[h] = t =>
                       tab'[t].refresh # "none"
               \/ ThreadPlace(h)'
    <3>0. ThreadPlace(h) /\ call'[h] = call[h]
      BY <2>0, ClientFacts DEF BaseInv, PlaceInv, Orphans
    <3>1. CASE h \in Waiting(t)
      BY <1>5, <3>0, <3>1, RefreshLostFacts
         DEF ThreadPlace, GivenUp, Waiting, At
    <3>2. CASE h \notin Waiting(t)
      BY <1>5, <3>0, <3>2, RefreshLostFacts DEF Waiting, GivenUp
    <3> QED BY <3>1, <3>2
  <2>3. \A u \in Tabs \ {t} : call'[u] = call[u] /\ (lock' = u <=> lock = u)
    BY <2>0, <2>5, ClientFacts DEF Orphans
  <2>4. \A p \in Orphans : call'[p] = call[p]
                             \/ call'[p].pc \in Presenting \cup Answers
    BY <1>0, <1>5, <2>0, RefreshLostFacts DEF Orphans, TabPlace
  <2> QED
    BY <1>5, <2>1, <2>2, <2>3, <2>4, RefreshLostFacts, PlaceTab DEF GivenUp
<1>6. CASE Logout(t) \/ AwaitRefresh(t) \/ AccessExpires(t)
  <2>1. TabPlace(t)' /\ tab'[t].refresh = tab[t].refresh
    BY <1>0, <1>6, LogoutFacts, AccessExpiresFacts DEF TabPlace, At, Web
  <2>2. OthersStay(t) /\ UNCHANGED <<lock, thread, call>>
    BY <1>6, LogoutFacts, AccessExpiresFacts
  <2>3. \A h \in Threads : thread[h] = "waiting" /\ TabOf[h] = t =>
          tab'[t].refresh # "none"
    BY <2>1 DEF BaseInv, PlaceInv, ThreadPlace
  <2> QED BY <2>1, <2>2, <2>3, PlaceTab
<1>7. CASE LoggedOut(t) \/ LogoutLost(t)
  <2>0. /\ tab[t].leaving = "sent" /\ call'[t] = NoCall
        /\ tab'[t].refresh = tab[t].refresh /\ tab'[t].leaving = "none"
        /\ lock' = (IF lock = t THEN None ELSE lock)
    BY <1>7, LoggedOutFacts
  <2>1. TabPlace(t)'
    BY <1>0, <2>0, ClientFacts DEF TabPlace, NoCall, At, Web
  <2>2. \A h \in Threads : thread[h] = "waiting" /\ TabOf[h] = t =>
          tab'[t].refresh # "none"
    BY <1>7, LoggedOutFacts DEF BaseInv, PlaceInv, ThreadPlace
  <2>3. \A u \in Tabs \ {t} : lock' = u <=> lock = u
    BY <2>0, ClientFacts
  <2> QED BY <1>7, <2>1, <2>2, <2>3, LoggedOutFacts, PlaceTab
<1> QED
  BY <1>1, <1>2, <1>3, <1>4, <1>5, <1>6, <1>7 DEF ClientStep

-----------------------------------------------------------------------------
(* Which sessions are spoken of.                                           *)

\* A request that walks stays in its handler until that refuses it.
LEMMA WalksEnds ==
  ASSUME BaseInv, NEW c \in Callers, Walks(c)
  PROVE  /\ \A d \in Callers :
              /\ call'[d].pc \in Presenting => call[d].pc \in Presenting
              /\ call'[d].pc \in Using => call[d].pc \in Using
              /\ call'[d].pc \in Signing => call[d].pc \in Signing
              /\ call'[d].pc = "logout" => call[d].pc = "logout"
              /\ call'[d].pc = "create" => call[d].pc \in Signing
              /\ call'[d].pc = "idle" => call[d].pc = "idle"
              /\ call[d].pc = "idle" => call'[d].pc = "idle"
              /\ call[d].pc = "denied" => call'[d].pc = "denied"
         /\ \A h \in Threads :
              thread[h] \in {"signing", "redirected"} =>
                (call'[h].pc = "ok" <=> call[h].pc = "ok")
         /\ \A t \in Tabs :
              tab[t].refresh = "sent" => (call'[t].pc = "ok" <=> call[t].pc = "ok")
<1> USE DEF Along, Signing, Presenting, Using, Answers
<1>1. \A d \in Callers : call'[d].pc = call[d].pc \/ Along(call[d].pc, call'[d].pc)
  BY WalksFacts DEF BaseInv, TypeOK
<1>2. ASSUME NEW h \in Threads, thread[h] \in {"signing", "redirected"}
      PROVE  call'[h].pc = "ok" <=> call[h].pc = "ok"
  BY <1>1, <1>2, ClientFacts DEF BaseInv, PlaceInv, ThreadPlace
<1>3. ASSUME NEW t \in Tabs, tab[t].refresh = "sent"
      PROVE  call'[t].pc = "ok" <=> call[t].pc = "ok"
  BY <1>1, <1>3, ClientFacts DEF BaseInv, PlaceInv, TabPlace
<1> QED BY <1>1, <1>2, <1>3

LEMMA NameAges ==
  ASSUME BaseInv, Ages
  PROVE  /\ Created' = Created
         /\ \A s \in Sids \ Created : session'[s].gen = 0
         /\ \A p \in history' : p[2] < session'[p[1]].gen
<1>1. \A p \in history : p[1] \in Sids
  BY DEF BaseInv, TypeOK, ServerTypeOK, Tokens
<1> QED
  BY <1>1, AgesFacts DEF BaseInv, TypeOK, NameInv, Created, Ages

LEMMA NameWalks ==
  ASSUME BaseInv, NEW c \in Callers, Walks(c), UNCHANGED clientVars
  PROVE  NameInv'
<1>1. /\ Created' = Created
      /\ \A s \in Sids \ Created : session'[s].gen = 0
      /\ \A p \in history' : p[2] < session'[p[1]].gen
  BY NameAges DEF Walks
<1>2. \A d \in Callers : call'[d].sid = call[d].sid
  BY WalksFacts DEF BaseInv, TypeOK
<1>3. ASSUME NEW d \in Callers  PROVE CallNames(d)'
  BY <1>1, <1>2, WalksEnds DEF BaseInv, NameInv, CallNames, At
<1>4. ASSUME NEW h \in Threads, SignedUp(h)'  PROVE call'[h].sid # None
  BY <1>2, <1>4, WalksEnds, ClientFacts
     DEF BaseInv, NameInv, SignedUp, At, clientVars
<1>5. ASSUME NEW t \in Tabs, tab'[t].refresh = "sent", At(t, "ok")'
      PROVE  call'[t].sid # None
  BY <1>2, <1>5, WalksEnds, ClientFacts DEF BaseInv, NameInv, At, clientVars
<1> QED
  BY <1>1, <1>3, <1>4, <1>5 DEF BaseInv, NameInv, clientVars

LEMMA NameOutside ==
  ASSUME BaseInv, Outside, UNCHANGED clientVars
  PROVE  NameInv'
<1>1. /\ Created' = Created
      /\ \A s \in Sids \ Created : session'[s].gen = 0
      /\ \A p \in history' : p[2] < session'[p[1]].gen
  BY NameAges DEF Outside
<1> QED
  BY <1>1
     DEF Outside, BaseInv, NameInv, CallNames, SignedUp, At, clientVars

LEMMA NameCreates ==
  ASSUME BaseInv, NEW c \in Callers, Creates(c), UNCHANGED clientVars
  PROVE  NameInv'
<1> DEFINE s == call'[c].sid
<1>1. /\ s \in Sids \ Created /\ Created' = Created \cup {s}
      /\ session'[s].gen = 0 /\ call'[c].pc = "ok"
      /\ \A r \in Sids \ {s} : session'[r] = session[r]
      /\ \A d \in Callers \ {c} : call'[d] = call[d]
      /\ UNCHANGED history
  <2>1. ServerTypeOK
    BY DEF BaseInv, TypeOK
  <2>2. session'[s] = [state |-> "live", owner |-> call[c].who, gen |-> 0,
                       kind |-> call[c].kind]
    BY <2>1, CreatesFacts, Zenon
  <2>3. session'[s].gen = 0
    BY <2>2
  <2>4. /\ s \in Sids \ Created /\ Created' = Created \cup {s}
        /\ call'[c].pc = "ok"
        /\ \A r \in Sids \ {s} : session'[r] = session[r]
        /\ \A d \in Callers \ {c} : call'[d] = call[d]
        /\ history' = history
    BY <2>1, CreatesFacts, Zenon
  <2> QED BY <2>3, <2>4, Zenon
<1> HIDE DEF s
<1>2. ASSUME NEW d \in Callers  PROVE CallNames(d)'
  BY <1>1 DEF BaseInv, NameInv, CallNames, At, Presenting, Using, s
<1>3. ASSUME NEW h \in Threads, SignedUp(h)'  PROVE call'[h].sid # None
  BY <1>1, <1>3, ClientFacts DEF BaseInv, NameInv, SignedUp, At, clientVars, s
<1>4. ASSUME NEW t \in Tabs, tab'[t].refresh = "sent", At(t, "ok")'
      PROVE  call'[t].sid # None
  BY <1>1, <1>4, ClientFacts DEF BaseInv, NameInv, At, clientVars, s
<1>5. \A r \in Sids \ Created' : session'[r].gen = 0
  BY <1>1 DEF BaseInv, NameInv
<1>6. ASSUME NEW p \in history'  PROVE p[2] < session'[p[1]].gen
  <2>1. p \in Tokens /\ p[1] \in Sids /\ p[2] \in Nat /\ p[2] < session[p[1]].gen
    BY <1>1 DEF BaseInv, TypeOK, ServerTypeOK, Tokens, NameInv
  <2>2. p[1] # s
    BY <1>1, <2>1 DEF BaseInv, NameInv
  <2> QED BY <1>1, <2>1, <2>2
<1> QED
  BY <1>1, <1>2, <1>3, <1>4, <1>5, <1>6 DEF BaseInv, NameInv, clientVars

LEMMA NameRotates ==
  ASSUME BaseInv, NEW c \in Callers, Rotates(c), UNCHANGED clientVars
  PROVE  NameInv'
<1> DEFINE s == call[c].sid
<1>0. s \in Created /\ s \in Sids
  BY DEF BaseInv, NameInv, CallNames, Rotates, At, Presenting, Created
<1>1. /\ Created' = Created /\ call'[c].sid = s /\ call'[c].pc = "ok"
      /\ session'[s].gen = session[s].gen + 1 /\ call[c].gen = session[s].gen
      /\ \A r \in Sids \ {s} : session'[r] = session[r]
      /\ \A d \in Callers \ {c} : call'[d] = call[d]
      /\ history' = history \cup {<<s, call[c].gen>>}
  BY <1>0, RotatesFacts DEF BaseInv, TypeOK, Token
<1> HIDE DEF s
<1>2. ASSUME NEW d \in Callers  PROVE CallNames(d)'
  BY <1>0, <1>1 DEF BaseInv, NameInv, CallNames, At, Presenting, Using
<1>3. s # None
  BY <1>0, ClientFacts
<1>4. ASSUME NEW h \in Threads, SignedUp(h)'  PROVE call'[h].sid # None
  BY <1>1, <1>3, <1>4, ClientFacts DEF BaseInv, NameInv, SignedUp, At, clientVars
<1>5. ASSUME NEW t \in Tabs, tab'[t].refresh = "sent", At(t, "ok")'
      PROVE  call'[t].sid # None
  BY <1>1, <1>3, <1>5, ClientFacts DEF BaseInv, NameInv, At, clientVars
<1>6. \A r \in Sids \ Created' : session'[r].gen = 0
  BY <1>0, <1>1 DEF BaseInv, NameInv
<1>7. ASSUME NEW p \in history'  PROVE p[2] < session'[p[1]].gen
  <2>1. session[s].gen \in Nat
    BY <1>0 DEF BaseInv, TypeOK, ServerTypeOK, Session
  <2>2. CASE p \in history
    <3>1. p[1] \in Sids /\ p[2] \in Nat /\ p[2] < session[p[1]].gen
      BY <2>2 DEF BaseInv, TypeOK, ServerTypeOK, Tokens, NameInv
    <3> QED BY <1>1, <2>1, <3>1
  <2>3. CASE p = <<s, call[c].gen>>
    BY <1>1, <2>1, <2>3
  <2> QED BY <1>1, <2>2, <2>3
<1> QED
  BY <1>1, <1>2, <1>4, <1>5, <1>6, <1>7 DEF BaseInv, NameInv, clientVars

LEMMA NameQuiet ==
  ASSUME BaseInv, Quiet,
         \A c \in Callers : call'[c] = call[c] \/ CallNames(c)',
         \A h \in Threads : SignedUp(h)' => call'[h].sid # None,
         \A t \in Tabs : tab'[t].refresh = "sent" /\ At(t, "ok")'
                           => call'[t].sid # None,
         \A t \in Tabs : tab'[t].sid # None => tab'[t].sid \in Created,
         \A k \in Kinds : jar'[k] # None => jar'[k][1] \in Created
  PROVE  NameInv'
<1>1. Created' = Created
  BY DEF Quiet, Created
<1>2. \A c \in Callers : CallNames(c)'
  BY <1>1 DEF BaseInv, NameInv, CallNames, At
<1> QED
  BY <1>1, <1>2 DEF BaseInv, NameInv, Quiet

LEMMA NoCallNames ==
  ASSUME NEW c, call'[c] = NoCall
  PROVE  CallNames(c)' /\ ~At(c, "ok")'
  BY DEF CallNames, NoCall, At, Presenting, Using

LEMMA NameThreads ==
  ASSUME BaseInv, NEW h \in Threads,
         SignIn(h) \/ SignedIn(h) \/ Request(h) \/ Load(h) \/ Answered(h)
  PROVE  NameInv'
<1>0. h \in Callers /\ TabOf[h] \in Tabs /\ None \notin Sids
  BY ClientFacts
<1>1. /\ \A t \in Tabs : tab[t].sid # None => tab[t].sid \in Created
      /\ \A k \in Kinds : jar[k] # None => jar[k][1] \in Created
      /\ \A t \in Tabs : tab[t].refresh = "sent" /\ At(t, "ok") => call[t].sid # None
      /\ \A i \in Threads : SignedUp(i) => call[i].sid # None
  BY DEF BaseInv, NameInv
<1>2. ASSUME OnlyCall(h)
      PROVE  \A t \in Tabs : call'[t] = call[t]
  BY <1>2, ClientFacts DEF OnlyCall
<1>3. ASSUME OnlyCall(h), \A i \in Threads \ {h} : thread'[i] = thread[i],
             ~SignedUp(h)'
      PROVE  \A i \in Threads : SignedUp(i)' => call'[i].sid # None
  BY <1>1, <1>3, ClientFacts DEF OnlyCall, SignedUp, At
<1> USE DEF ThreadMoves
<1>4. CASE SignIn(h)
  <2>1. /\ Quiet /\ UNCHANGED <<jar, tab>> /\ OnlyCall(h)
        /\ call'[h].sid = None /\ call'[h].pc \in Signing
        /\ \A i \in Threads \ {h} : thread'[i] = thread[i]
    BY <1>4, SignInFacts
  <2>2. CallNames(h)' /\ ~SignedUp(h)'
    BY <2>1 DEF CallNames, Signing, Presenting, Using, At, SignedUp
  <2> QED BY <1>1, <1>2, <1>3, <2>1, <2>2, NameQuiet DEF OnlyCall, At
<1>5. CASE SignedIn(h)
  <2>1. /\ Quiet /\ TabsWait /\ OnlyCall(h) /\ call'[h] = NoCall
        /\ At(h, "ok") => /\ call[h].sid \in Sids
                          /\ jar' = [jar EXCEPT ![KindOf[TabOf[h]]] = Token(h)]
        /\ ~At(h, "ok") => jar' = jar
        /\ \A t \in Tabs : tab'[t].sid \in {tab[t].sid, call[h].sid}
        /\ \A i \in Threads \ {h} : thread'[i] = thread[i]
    BY <1>5, SignedInFacts
  <2>2. CallNames(h)' /\ ~SignedUp(h)'
    BY <2>1, NoCallNames DEF SignedUp
  <2>3. call[h].sid # None => call[h].sid \in Created
    BY <1>0 DEF BaseInv, NameInv, CallNames
  <2>4. \A k \in Kinds : jar'[k] # None => jar'[k][1] \in Created
    <3>1. At(h, "ok") => Token(h)[1] \in Created
      BY <1>0, <2>1, <2>3 DEF Token
    <3> QED
      BY <1>1, <2>1, <3>1 DEF BaseInv, TypeOK, ClientTypeOK
  <2>5. \A t \in Tabs : tab'[t].sid # None => tab'[t].sid \in Created
    BY <1>1, <2>1, <2>3
  <2>6. \A i \in Threads : SignedUp(i)' => call'[i].sid # None
    BY <1>3, <2>1, <2>2
  <2>7. \A t \in Tabs : tab'[t].refresh = "sent" /\ At(t, "ok")' => call'[t].sid # None
    BY <1>1, <1>2, <2>1 DEF TabsWait, At
  <2> QED
    BY <2>1, <2>2, <2>4, <2>5, <2>6, <2>7, NameQuiet DEF OnlyCall
<1>6. CASE Request(h)
  <2>1. /\ Quiet /\ UNCHANGED <<jar, tab>> /\ OnlyCall(h)
        /\ \/ call'[h].pc = "denied" /\ call'[h].sid = None
           \/ call'[h].pc = "touch" /\ call'[h].sid = tab[TabOf[h]].sid
                /\ tab[TabOf[h]].sid # None
        /\ \A i \in Threads \ {h} : thread'[i] = thread[i]
    BY <1>6, RequestFacts
  <2>2. Created' = Created
    BY <2>1 DEF Quiet, Created
  <2>3. CallNames(h)' /\ ~SignedUp(h)'
    BY <1>0, <1>1, <2>1, <2>2 DEF CallNames, Presenting, Using, At, SignedUp
  <2> QED BY <1>1, <1>2, <1>3, <2>1, <2>3, NameQuiet DEF OnlyCall, At
<1>7. CASE Load(h)
  <2>1. /\ Quiet /\ UNCHANGED <<jar, call>> /\ TabAsked(TabOf[h])
        /\ thread'[h] = "waiting"
        /\ \A i \in Threads \ {h} : thread'[i] = thread[i]
    BY <1>7, LoadFacts
  <2>2. \A t \in Tabs : tab'[t].sid = tab[t].sid
                          /\ (tab'[t].refresh = "sent" => tab[t].refresh = "sent")
    BY <1>0, <2>1 DEF TabAsked, OthersStay
  <2>3. \A i \in Threads : SignedUp(i)' => SignedUp(i)
    BY <2>1 DEF SignedUp, At
  <2> QED BY <1>1, <2>1, <2>2, <2>3, NameQuiet DEF At
<1>8. CASE Answered(h)
  <2>1. /\ Quiet /\ UNCHANGED jar /\ OnlyCall(h) /\ call'[h] = NoCall
        /\ TabAsked(TabOf[h]) \/ UNCHANGED tab
        /\ \A i \in Threads \ {h} : thread'[i] = thread[i]
    BY <1>8, AnsweredFacts
  <2>2. \A t \in Tabs : tab'[t].sid = tab[t].sid
                          /\ (tab'[t].refresh = "sent" => tab[t].refresh = "sent")
    BY <1>0, <2>1 DEF TabAsked, OthersStay
  <2>3. CallNames(h)' /\ ~SignedUp(h)'
    BY <2>1, NoCallNames DEF SignedUp
  <2> QED
    BY <1>1, <1>2, <1>3, <2>1, <2>2, <2>3, NameQuiet DEF OnlyCall, At
<1> QED BY <1>4, <1>5, <1>6, <1>7, <1>8

LEMMA NameTabs ==
  ASSUME BaseInv, NEW t \in Tabs,
         ClientStep(t) \/ Logout(t) \/ AccessExpires(t) \/ RefreshLost(t)
           \/ LogoutLost(t)
  PROVE  NameInv'
<1>0. t \in Callers /\ None \notin Sids /\ KindOf[t] \in Kinds
  BY ClientFacts
<1>1. /\ \A u \in Tabs : tab[u].sid # None => tab[u].sid \in Created
      /\ \A k \in Kinds : jar[k] # None => jar[k][1] \in Created
      /\ \A u \in Tabs : tab[u].refresh = "sent" /\ At(u, "ok") => call[u].sid # None
      /\ \A h \in Threads : SignedUp(h) => call[h].sid # None
      /\ \A c \in Callers : call[c].sid # None => call[c].sid \in Created
  BY DEF BaseInv, NameInv, CallNames
<1>2. ASSUME NEW p, NEW without \in Answers, JarSent(t, p, without),
             p \in {"find", "logout"},
             tab'[t].refresh = "sent" => without = "denied" /\ p = "find"
      PROVE  NameInv'
  <2>1. /\ Quiet /\ UNCHANGED <<jar, thread>> /\ OnlyCall(t) /\ OthersStay(t)
        /\ tab'[t].sid = tab[t].sid
        /\ Jar(t) = None => call'[t].sid = None /\ call'[t].pc = without
        /\ Jar(t) # None => call'[t].pc = p /\ call'[t].sid = Jar(t)[1]
    BY <1>2 DEF JarSent
  <2>2. Created' = Created
    BY <2>1 DEF Quiet, Created
  <2>3. Jar(t) # None => Jar(t)[1] \in Created /\ Jar(t)[1] # None
    BY <1>0, <1>1 DEF Jar, Created
  <2>4. CallNames(t)'
    BY <1>2, <2>1, <2>2, <2>3 DEF CallNames, Presenting, Using, Answers, At
  <2>5. tab'[t].refresh = "sent" /\ At(t, "ok")' => call'[t].sid # None
    BY <1>2, <2>1, <2>3 DEF At
  <2>6. \A h \in Threads : SignedUp(h)' => call'[h].sid # None
    BY <1>1, <2>1, CallsApart DEF SignedUp, At
  <2>7. \A u \in Tabs : tab'[u].refresh = "sent" /\ At(u, "ok")'
                          => call'[u].sid # None
    BY <1>1, <2>1, <2>5, CallsApart DEF OthersStay, At
  <2>8. \A u \in Tabs : tab'[u].sid = tab[u].sid
    BY <2>1 DEF OthersStay
  <2> QED
    BY <1>1, <2>1, <2>4, <2>6, <2>7, <2>8, NameQuiet DEF OnlyCall
<1>3. CASE SendRefresh(t)
  BY <1>2, <1>3, SendRefreshFacts DEF Answers
<1>4. CASE SendLogout(t)
  BY <1>2, <1>4, SendLogoutFacts DEF Answers, BaseInv, PlaceInv, TabPlace
<1>5. CASE Refreshed(t)
  <2>1. /\ Quiet /\ OthersStay(t) /\ tab'[t].refresh = "none"
        /\ tab'[t].sid = call[t].sid /\ call[t].sid \in Sids
        /\ jar' = [jar EXCEPT ![KindOf[t]] = Token(t)]
        /\ call'[t] = NoCall
        /\ \A h \in Waiting(t) :
             /\ call'[h].pc = "touch" /\ call'[h].sid = call[t].sid
             /\ thread'[h] = "again"
        /\ \A c \in Callers \ ({t} \cup Waiting(t)) : call'[c] = call[c]
        /\ \A h \in Threads \ Waiting(t) : thread'[h] = thread[h]
    BY <1>5, RefreshedFacts
  <2>2. Created' = Created
    BY <2>1 DEF Quiet, Created
  <2>3. call[t].sid # None /\ call[t].sid \in Created
    BY <1>0, <1>1, <2>1
  <2>4. \A c \in Callers : call'[c] = call[c] \/ CallNames(c)'
    BY <2>1, <2>2, <2>3, NoCallNames DEF CallNames, Presenting, Using, At
  <2>5. ASSUME NEW h \in Threads, SignedUp(h)'  PROVE call'[h].sid # None
    <3>1. h \notin Waiting(t)
      BY <2>1, <2>5 DEF SignedUp
    <3>2. call'[h] = call[h] /\ thread'[h] = thread[h]
      BY <2>1, <3>1, ClientFacts
    <3> QED BY <1>1, <2>5, <3>2 DEF SignedUp, At
  <2>6. ASSUME NEW u \in Tabs, tab'[u].refresh = "sent", At(u, "ok")'
        PROVE  call'[u].sid # None
    <3>1. u # t /\ u \notin Waiting(t) /\ u \in Callers
      BY <2>1, <2>6, ClientFacts DEF Waiting
    <3>2. call'[u] = call[u] /\ tab'[u] = tab[u]
      BY <2>1, <3>1 DEF OthersStay
    <3> QED BY <1>1, <2>6, <3>2 DEF At
  <2>7. \A u \in Tabs : tab'[u].sid # None => tab'[u].sid \in Created
    BY <1>1, <2>1, <2>3 DEF OthersStay
  <2>8. \A k \in Kinds : jar'[k] # None => jar'[k][1] \in Created
    BY <1>1, <2>1, <2>3 DEF Token, BaseInv, TypeOK, ClientTypeOK
  <2> QED BY <2>1, <2>4, <2>5, <2>6, <2>7, <2>8, NameQuiet
<1>6. CASE RefreshRefused(t) \/ LoggedOut(t) \/ LogoutLost(t)
  <2>1. /\ Quiet /\ OthersStay(t) /\ OnlyCall(t) /\ call'[t] = NoCall
        /\ tab'[t].sid \in {tab[t].sid, None}
        /\ \A k \in Kinds : jar'[k] \in {jar[k], None}
        /\ \A h \in Threads : thread'[h] \in {thread[h], "idle"}
    BY <1>6, RefreshRefusedFacts, LoggedOutFacts DEF GivenUp
  <2>2. \A c \in Callers : call'[c] = call[c] \/ CallNames(c)'
    BY <2>1, NoCallNames DEF OnlyCall
  <2>3. \A h \in Threads : SignedUp(h)' => call'[h].sid # None
    BY <1>1, <2>1, CallsApart DEF SignedUp, At
  <2>4. \A u \in Tabs : tab'[u].refresh = "sent" /\ At(u, "ok")'
                          => call'[u].sid # None
    BY <1>1, <2>1, CallsApart, NoCallNames DEF OthersStay, At
  <2>5. \A u \in Tabs : tab'[u].sid # None => tab'[u].sid \in Created
    BY <1>1, <2>1 DEF OthersStay
  <2>6. \A k \in Kinds : jar'[k] # None => jar'[k][1] \in Created
    BY <1>1, <2>1
  <2> QED BY <2>1, <2>2, <2>3, <2>4, <2>5, <2>6, NameQuiet
<1>7. CASE RefreshLost(t)
  <2>1. /\ Quiet /\ OthersStay(t) /\ call'[t] = NoCall /\ jar' = jar
        /\ tab'[t].sid \in {tab[t].sid, None}
        /\ tab'[t].refresh = "none" /\ tab[t].refresh = "sent"
        /\ \A h \in Threads : thread'[h] \in {thread[h], "idle"}
    BY <1>7, RefreshLostFacts DEF GivenUp
  <2>2. PICK o \in Orphans : /\ call'[o] = call[t]
                             /\ \A c \in Callers \ {o, t} : call'[c] = call[c]
    BY <1>7, RefreshLostFacts
  <2>3. /\ o \in Callers /\ o \notin Tabs /\ o \notin Threads
        /\ \A u \in Tabs \ {t} : call'[u] = call[u]
        /\ \A h \in Threads : call'[h] = call[h]
    BY <2>2, ClientFacts DEF Orphans
  <2>4. CallNames(o)'
    BY <1>0, <2>1, <2>2 DEF BaseInv, NameInv, CallNames, At, Quiet, Created
  <2>5. \A c \in Callers : call'[c] = call[c] \/ CallNames(c)'
    BY <2>1, <2>2, <2>4, NoCallNames
  <2>6. \A h \in Threads : SignedUp(h)' => call'[h].sid # None
    BY <1>1, <2>1, <2>3 DEF SignedUp, At
  <2>7. \A u \in Tabs : tab'[u].refresh = "sent" /\ At(u, "ok")'
                          => call'[u].sid # None
    BY <1>1, <2>1, <2>3 DEF OthersStay, At
  <2>8. \A u \in Tabs : tab'[u].sid # None => tab'[u].sid \in Created
    BY <1>1, <2>1 DEF OthersStay
  <2> QED BY <1>1, <2>1, <2>5, <2>6, <2>7, <2>8, NameQuiet
<1>8. CASE Logout(t) \/ AwaitRefresh(t) \/ AccessExpires(t)
  <2>1. /\ Quiet /\ UNCHANGED <<jar, thread, call>> /\ OthersStay(t)
        /\ tab'[t].sid = tab[t].sid /\ tab'[t].refresh = tab[t].refresh
    BY <1>8, LogoutFacts, AccessExpiresFacts
  <2>2. \A u \in Tabs : tab'[u].sid = tab[u].sid
                          /\ tab'[u].refresh = tab[u].refresh
    BY <2>1 DEF OthersStay
  <2> QED BY <1>1, <2>1, <2>2, NameQuiet DEF SignedUp, At
<1> QED
  BY <1>3, <1>4, <1>5, <1>6, <1>7, <1>8 DEF ClientStep

-----------------------------------------------------------------------------
(* The commands of administrators.                                         *)

Busy == {"command", "commit"}

\* A proof in use is open, and used by one request alone; a spent proof is
\* not open.
ProofInv ==
  /\ \A b \in Bindings :
       /\ proof[b].open \subseteq 1..proof[b].issued
       /\ proof[b].used \subseteq 1..proof[b].issued
       /\ proof[b].open \cap proof[b].used = {}
  /\ \A d \in Desks :
       /\ desk[d].pc # "idle" => B(d) \in Bindings
       /\ desk[d].pc \in Busy => N(d) \in proof[B(d)].open
  /\ \A d, e \in Desks :
       desk[d].pc \in Busy /\ desk[e].pc \in Busy
         /\ B(d) = B(e) /\ N(d) = N(e) => d = e

DeskInv == AdminTypeOK /\ ProofInv /\ SpentProofsAreAudited

DeskPcs == {"idle", "check", "verify", "issue", "fail", "consume", "command",
            "commit"}

LEMMA TurnFacts ==
  ASSUME AdminTypeOK, NEW d \in Desks, NEW pc \in DeskPcs, Turn(d, pc)
  PROVE  /\ desk' \in [Desks -> Desk]
         /\ desk'[d].pc = pc /\ desk'[d].binding = desk[d].binding
         /\ desk'[d].number = desk[d].number
         /\ \A e \in Desks \ {d} : desk'[e] = desk[e]
  BY DEF AdminTypeOK, Desk, DeskPcs, Turn

LEMMA LeaveFacts ==
  ASSUME AdminTypeOK, NEW d \in Desks, Leave(d)
  PROVE  /\ desk' \in [Desks -> Desk] /\ desk'[d].pc = "idle"
         /\ \A e \in Desks \ {d} : desk'[e] = desk[e]
<1>1. Away \in Desk /\ Away.pc = "idle"
  BY DEF Away, Desk
<1> QED BY <1>1 DEF AdminTypeOK, Leave

\* A request that leaves, or walks on and uses no proof that it did not use.
LEMMA DeskWalks ==
  ASSUME DeskInv, NEW d \in Desks, UNCHANGED <<proof, audited>>,
         desk' \in [Desks -> Desk],
         \A e \in Desks \ {d} : desk'[e] = desk[e],
         \/ desk'[d].pc = "idle"
         \/ /\ desk[d].pc # "idle" \/ desk'[d].binding \in Bindings
            /\ desk'[d].pc \notin Busy
            /\ desk'[d].binding = desk[d].binding \/ desk'[d].binding \in Bindings
         \/ /\ desk[d].pc \in Busy
            /\ desk'[d].binding = desk[d].binding
            /\ desk'[d].number = desk[d].number
  PROVE  ProofInv' /\ SpentProofsAreAudited'
<1>1. \A e \in Desks :
        /\ desk'[e].pc # "idle" => desk'[e].binding \in Bindings
        /\ desk'[e].pc \in Busy =>
             /\ desk[e].pc \in Busy /\ desk'[e].binding = desk[e].binding
             /\ desk'[e].number = desk[e].number
  BY DEF DeskInv, ProofInv, B, Busy
<1>2. ProofInv'
  BY <1>1 DEF DeskInv, ProofInv, B, N
<1> QED BY <1>2 DEF DeskInv, SpentProofsAreAudited

AttemptsTyped == attempts \in [Bindings -> [fails: 0..FailLimit, locked: BOOLEAN]]

\* The requests that leave the proofs alone.
LEMMA DeskPlain ==
  ASSUME DeskInv, NEW d \in Desks,
         CheckLock(d) \/ Verify(d) \/ RecordFailure(d) \/ Decide(d)
  PROVE  DeskInv'
<1>1. AdminTypeOK
  BY DEF DeskInv
<1>2. UNCHANGED <<proof, audited>>
  BY DEF CheckLock, Verify, RecordFailure, Decide
<1>3. \/ Leave(d)
      \/ /\ desk[d].pc = "check" /\ Turn(d, "verify")
      \/ /\ desk[d].pc = "verify" /\ (Turn(d, "issue") \/ Turn(d, "fail"))
      \/ /\ desk[d].pc = "command" /\ Turn(d, "commit")
  BY DEF CheckLock, Verify, RecordFailure, Decide, Sits
<1>4. /\ desk' \in [Desks -> Desk]
      /\ \A e \in Desks \ {d} : desk'[e] = desk[e]
      /\ \/ desk'[d].pc = "idle"
         \/ /\ desk[d].pc # "idle" /\ desk'[d].pc \notin Busy
            /\ desk'[d].binding = desk[d].binding
         \/ /\ desk[d].pc \in Busy
            /\ desk'[d].binding = desk[d].binding
            /\ desk'[d].number = desk[d].number
  BY <1>1, <1>3, TurnFacts, LeaveFacts DEF Busy, DeskPcs
<1>5. lastCode' \in [Admins -> 0..MaxCode]
  <2>1. lastCode' = lastCode \/ \E n \in 1..MaxCode :
          lastCode' = [lastCode EXCEPT ![Actor(d)] = n]
    BY DEF CheckLock, Verify, RecordFailure, Decide
  <2> QED BY <1>1, <2>1, AdminConstants DEF AdminTypeOK
<1>6. AttemptsTyped'
  <2>1. attempts' = attempts
          \/ attempts' = [attempts EXCEPT ![B(d)] = CountFailed(@)]
    BY DEF CheckLock, Verify, RecordFailure, Decide
  <2>2. \A a \in [fails: 0..FailLimit, locked: BOOLEAN] :
          CountFailed(a) \in [fails: 0..FailLimit, locked: BOOLEAN]
    BY AdminConstants DEF CountFailed
  <2> HIDE DEF CountFailed
  <2> QED BY <1>1, <2>1, <2>2 DEF AdminTypeOK, AttemptsTyped
<1>7. ProofInv' /\ SpentProofsAreAudited'
  BY <1>2, <1>4, DeskWalks
<1> QED
  BY <1>1, <1>2, <1>4, <1>5, <1>6, <1>7 DEF DeskInv, AdminTypeOK, AttemptsTyped

LEMMA PutIssued ==
  ASSUME AdminTypeOK, NEW b \in Bindings, NEW n \in Nat, NEW o \in SUBSET Nat,
         proof' = [proof EXCEPT ![b].issued = n, ![b].open = o]
  PROVE  /\ proof' \in [Bindings -> Proofs]
         /\ proof'[b].issued = n /\ proof'[b].open = o
         /\ proof'[b].used = proof[b].used
         /\ \A a \in Bindings \ {b} : proof'[a] = proof[a]
  BY DEF AdminTypeOK, Proofs

LEMMA PutSpent ==
  ASSUME AdminTypeOK, NEW b \in Bindings, NEW n \in Nat,
         proof' = [proof EXCEPT ![b].open = @ \ {n}, ![b].used = @ \cup {n}]
  PROVE  /\ proof' \in [Bindings -> Proofs]
         /\ proof'[b].issued = proof[b].issued
         /\ proof'[b].open = proof[b].open \ {n}
         /\ proof'[b].used = proof[b].used \cup {n}
         /\ \A a \in Bindings \ {b} : proof'[a] = proof[a]
  BY DEF AdminTypeOK, Proofs

\* A proof that is issued is a new one.
LEMMA DeskIssues ==
  ASSUME DeskInv, NEW d \in Desks, Issue(d)
  PROVE  DeskInv'
<1> DEFINE b == B(d)
<1>1. /\ AdminTypeOK /\ desk' \in [Desks -> Desk] /\ desk'[d].pc = "idle"
      /\ \A e \in Desks \ {d} : desk'[e] = desk[e]
      /\ UNCHANGED <<lastCode, audited>> /\ desk[d].pc = "issue"
  BY LeaveFacts DEF DeskInv, Issue, Sits
<1>2. b \in Bindings
  BY <1>1 DEF DeskInv, ProofInv
<1>3. CASE attempts[b].locked
  <2>1. UNCHANGED <<attempts, proof>>
    BY <1>3 DEF Issue
  <2> QED BY <1>1, <2>1, DeskWalks DEF DeskInv, AdminTypeOK
<1>4. CASE ~attempts[b].locked
  <2>1. /\ attempts' = [attempts EXCEPT ![b] = [fails |-> 0, locked |-> FALSE]]
        /\ proof' = [proof EXCEPT ![b].issued = @ + 1,
             ![b].open = @ \cup {proof[b].issued + 1}]
    BY <1>4 DEF Issue
  <2> HIDE DEF b
  <2>2. AttemptsTyped'
    BY <1>1, <1>2, <2>1, AdminConstants DEF AdminTypeOK, AttemptsTyped
  <2>3. /\ proof' \in [Bindings -> Proofs]
        /\ proof'[b].issued = proof[b].issued + 1
        /\ proof'[b].open = proof[b].open \cup {proof[b].issued + 1}
        /\ proof'[b].used = proof[b].used
        /\ \A a \in Bindings \ {b} : proof'[a] = proof[a]
    <3> DEFINE n == proof[b].issued + 1
               o == proof[b].open \cup {proof[b].issued + 1}
    <3>1. proof' = [proof EXCEPT ![b].issued = n, ![b].open = o]
      BY <2>1
    <3>2. n \in Nat /\ o \in SUBSET Nat
      BY <1>1, <1>2 DEF AdminTypeOK, Proofs
    <3> HIDE DEF n, o
    <3>3. /\ proof' \in [Bindings -> Proofs]
          /\ proof'[b].issued = n /\ proof'[b].open = o
          /\ proof'[b].used = proof[b].used
          /\ \A a \in Bindings \ {b} : proof'[a] = proof[a]
      BY <1>1, <1>2, <3>1, <3>2, PutIssued
    <3> QED BY <3>3 DEF n, o
  <2>4. ASSUME NEW a \in Bindings
        PROVE  /\ proof'[a].open \subseteq 1..proof'[a].issued
               /\ proof'[a].used \subseteq 1..proof'[a].issued
               /\ proof'[a].open \cap proof'[a].used = {}
               /\ proof[a].open \subseteq proof'[a].open
               /\ proof'[a].used = proof[a].used
    <3>1. /\ proof[a].open \subseteq 1..proof[a].issued
          /\ proof[a].used \subseteq 1..proof[a].issued
          /\ proof[a].open \cap proof[a].used = {}
          /\ proof[a].issued \in Nat
      BY <1>1 DEF DeskInv, ProofInv, AdminTypeOK, Proofs
    <3>2. CASE a = b
      BY <2>3, <3>1, <3>2
    <3>3. CASE a # b
      BY <2>3, <3>1, <3>3
    <3> QED BY <3>2, <3>3
  <2>5. ProofInv'
    BY <1>1, <2>4 DEF DeskInv, ProofInv, B, N, Busy
  <2>6. SpentProofsAreAudited'
    BY <1>1, <2>4 DEF DeskInv, SpentProofsAreAudited
  <2> QED
    BY <1>1, <2>2, <2>3, <2>5, <2>6 DEF DeskInv, AdminTypeOK, AttemptsTyped
<1> QED BY <1>3, <1>4

\* A proof that is taken is in nobody's hands.
LEMMA DeskConsumes ==
  ASSUME DeskInv, NEW d \in Desks, Consume(d)
  PROVE  DeskInv'
<1>1. /\ AdminTypeOK /\ desk[d].pc = "consume"
      /\ UNCHANGED <<lastCode, attempts, proof, audited>>
  BY DEF DeskInv, Consume, Sits
<1>2. CASE Leave(d)
  <2>1. /\ desk' \in [Desks -> Desk] /\ desk'[d].pc = "idle"
        /\ \A e \in Desks \ {d} : desk'[e] = desk[e]
    BY <1>1, <1>2, LeaveFacts
  <2> QED BY <1>1, <2>1, DeskWalks DEF DeskInv, AdminTypeOK
<1>3. CASE ProofUsable(d) /\ Turn(d, "command")
  <2>1. /\ desk' \in [Desks -> Desk] /\ desk'[d].pc = "command"
        /\ desk'[d].binding = desk[d].binding
        /\ desk'[d].number = desk[d].number
        /\ \A e \in Desks \ {d} : desk'[e] = desk[e]
    BY <1>1, <1>3, TurnFacts DEF DeskPcs
  <2>2. \A e \in Desks : desk[e].pc \in Busy =>
          ~(desk[e].binding = desk[d].binding /\ desk[e].number = desk[d].number)
    BY DEF Consume, RowLocked, B, N, Busy
  <2>3. /\ N(d) \in proof[B(d)].open /\ B(d) \in Bindings
    BY <1>1, <1>3 DEF ProofUsable, DeskInv, ProofInv
  <2>4. ASSUME NEW e \in Desks
        PROVE  /\ desk'[e].pc # "idle" => desk'[e].binding \in Bindings
               /\ desk'[e].pc \in Busy =>
                    desk'[e].number \in proof[desk'[e].binding].open
    BY <2>1, <2>3 DEF DeskInv, ProofInv, B, N
  <2>5. ASSUME NEW e \in Desks, NEW f \in Desks,
               desk'[e].pc \in Busy, desk'[f].pc \in Busy,
               desk'[e].binding = desk'[f].binding,
               desk'[e].number = desk'[f].number
        PROVE  e = f
    <3>1. CASE e # d /\ f # d
      BY <2>1, <2>5, <3>1 DEF DeskInv, ProofInv, B, N
    <3>2. CASE e = d \/ f = d
      BY <2>1, <2>2, <2>5, <3>2
    <3> QED BY <3>1, <3>2
  <2>6. ProofInv'
    <3>1. /\ \A b \in Bindings :
               /\ proof'[b].open \subseteq 1..proof'[b].issued
               /\ proof'[b].used \subseteq 1..proof'[b].issued
               /\ proof'[b].open \cap proof'[b].used = {}
      BY <1>1 DEF DeskInv, ProofInv
    <3> QED BY <1>1, <2>4, <2>5, <3>1 DEF ProofInv, B, N
  <2> QED
    BY <1>1, <2>1, <2>6 DEF DeskInv, AdminTypeOK, SpentProofsAreAudited
<1> QED BY <1>2, <1>3 DEF Consume

\* Finite sets of numbers grow by one.
LEMMA OneMore ==
  ASSUME NEW n \in Nat, NEW S, S \subseteq 1..n, NEW x, x \notin S
  PROVE  Cardinality(S \cup {x}) = Cardinality(S) + 1
<1>1. IsFiniteSet(1..n)
  BY FS_Interval
<1>2. IsFiniteSet(S)
  BY <1>1, FS_Subset
<1> QED BY <1>2, FS_AddElement

\* Proof, effect and audit entry are one.
LEMMA DeskCommits ==
  ASSUME DeskInv, NEW d \in Desks, Commit(d)
  PROVE  DeskInv'
<1> DEFINE b == B(d)
<1>1. /\ AdminTypeOK /\ desk[d].pc = "commit" /\ UNCHANGED <<lastCode, attempts>>
      /\ desk' \in [Desks -> Desk] /\ desk'[d].pc = "idle"
      /\ \A e \in Desks \ {d} : desk'[e] = desk[e]
  BY LeaveFacts DEF DeskInv, Commit, Sits
<1>2. b \in Bindings /\ N(d) \in proof[b].open
  BY <1>1 DEF DeskInv, ProofInv, Busy
<1>3. CASE ~Applies(b)
  <2>1. UNCHANGED <<proof, audited>>
    BY <1>3 DEF Commit, Spend
  <2> QED BY <1>1, <2>1, DeskWalks DEF DeskInv, AdminTypeOK
<1>4. CASE Applies(b)
  <2> DEFINE o == proof[b].open \ {N(d)}
             u == proof[b].used \cup {N(d)}
  <2>1. audited' = [audited EXCEPT ![b] = @ + 1]
    BY <1>4 DEF Commit
  <2>10. proof' = [proof EXCEPT ![b].open = @ \ {N(d)},
                               ![b].used = @ \cup {N(d)}]
    BY <1>4 DEF Commit, Spend, Spent
  <2>2. /\ o \in SUBSET Nat /\ u \in SUBSET Nat /\ proof[b].issued \in Nat
        /\ proof[b].open \subseteq 1..proof[b].issued
        /\ proof[b].used \subseteq 1..proof[b].issued
        /\ proof[b].open \cap proof[b].used = {}
    BY <1>1, <1>2 DEF DeskInv, ProofInv, AdminTypeOK, Proofs
  <2>3. /\ N(d) \notin proof[b].used /\ u \subseteq 1..proof[b].issued
        /\ o \subseteq 1..proof[b].issued /\ o \cap u = {}
    BY <1>2, <2>2
  <2>4. Cardinality(u) = Cardinality(proof[b].used) + 1
    BY <2>2, <2>3, OneMore
  <2>5. /\ proof' \in [Bindings -> Proofs]
        /\ proof'[b].issued = proof[b].issued
        /\ proof'[b].open = o /\ proof'[b].used = u
        /\ \A a \in Bindings \ {b} : proof'[a] = proof[a]
    <3>1. AdminTypeOK /\ b \in Bindings /\ N(d) \in Nat
      BY <1>1, <1>2, <2>2
    <3> QED BY <2>10, <3>1, PutSpent
  <2> HIDE DEF b, o, u
  <2>6. audited' \in [Bindings -> Nat]
    BY <1>1, <1>2, <2>1 DEF AdminTypeOK
  <2>7. SpentProofsAreAudited'
    <3>1. audited'[b] = audited[b] + 1
          /\ \A a \in Bindings \ {b} : audited'[a] = audited[a]
      BY <1>1, <1>2, <2>1 DEF AdminTypeOK
    <3> QED
      BY <1>2, <2>4, <2>5, <3>1 DEF DeskInv, SpentProofsAreAudited
  <2>8. ASSUME NEW e \in Desks, desk'[e].pc # "idle"
        PROVE  /\ desk'[e].binding \in Bindings
               /\ desk'[e].pc \in Busy =>
                    desk'[e].number \in proof'[desk'[e].binding].open
    <3>1. e # d /\ desk'[e] = desk[e] /\ desk[e].binding \in Bindings
      BY <1>1, <2>8 DEF DeskInv, ProofInv, B
    <3>2. CASE desk[e].pc \in Busy
      <4>1. desk[e].number \in proof[desk[e].binding].open
        BY <3>2 DEF DeskInv, ProofInv, B, N
      <4>2. CASE desk[e].binding = b
        <5>1. desk[e].number # N(d)
          BY <1>1, <3>1, <3>2, <4>2 DEF DeskInv, ProofInv, B, N, Busy, b
        <5> QED BY <2>5, <3>1, <4>1, <4>2, <5>1 DEF o
      <4>3. CASE desk[e].binding # b
        BY <2>5, <3>1, <4>1, <4>3
      <4> QED BY <4>2, <4>3
    <3> QED BY <3>1, <3>2
  <2>9. ProofInv'
    <3>1. \A a \in Bindings :
               /\ proof'[a].open \subseteq 1..proof'[a].issued
               /\ proof'[a].used \subseteq 1..proof'[a].issued
               /\ proof'[a].open \cap proof'[a].used = {}
      BY <2>3, <2>5 DEF DeskInv, ProofInv
    <3>2. \A e, f \in Desks :
            desk'[e].pc \in Busy /\ desk'[f].pc \in Busy
              /\ desk'[e].binding = desk'[f].binding
              /\ desk'[e].number = desk'[f].number => e = f
      BY <1>1 DEF DeskInv, ProofInv, B, N, Busy
    <3> QED BY <2>8, <3>1, <3>2 DEF ProofInv, B, N, Busy
  <2> QED
    BY <1>1, <2>5, <2>6, <2>7, <2>9 DEF DeskInv, AdminTypeOK
<1> QED BY <1>3, <1>4

\* A proof in use does not expire under its request.
LEMMA ProofsExpire ==
  ASSUME DeskInv, NEW b \in Bindings, ProofExpires(b)
  PROVE  DeskInv'
<1>1. AdminTypeOK /\ UNCHANGED <<lastCode, attempts, desk, audited>>
  BY DEF DeskInv, ProofExpires
<1>2. PICK n \in proof[b].open :
        ~RowLocked(b, n) /\ proof' = [proof EXCEPT ![b].open = @ \ {n}]
  BY DEF ProofExpires
<1>3. /\ proof' \in [Bindings -> Proofs]
      /\ proof'[b].open = proof[b].open \ {n}
      /\ proof'[b].issued = proof[b].issued /\ proof'[b].used = proof[b].used
      /\ \A a \in Bindings \ {b} : proof'[a] = proof[a]
  BY <1>1, <1>2 DEF AdminTypeOK, Proofs
<1>4. ASSUME NEW a \in Bindings
      PROVE  /\ proof'[a].open \subseteq 1..proof'[a].issued
             /\ proof'[a].used \subseteq 1..proof'[a].issued
             /\ proof'[a].open \cap proof'[a].used = {}
             /\ proof'[a].used = proof[a].used
  BY <1>3 DEF DeskInv, ProofInv
<1>5. ASSUME NEW e \in Desks, desk[e].pc \in Busy
      PROVE  desk[e].number \in proof'[desk[e].binding].open
  <2>1. /\ desk[e].number \in proof[desk[e].binding].open
        /\ desk[e].binding \in Bindings
    BY <1>5 DEF DeskInv, ProofInv, B, N, Busy
  <2>2. ~(desk[e].binding = b /\ desk[e].number = n)
    BY <1>2, <1>5 DEF RowLocked, B, N, Busy
  <2> QED BY <1>3, <2>1, <2>2
<1>6. ProofInv'
  BY <1>1, <1>4, <1>5 DEF DeskInv, ProofInv, B, N
<1> QED
  BY <1>1, <1>3, <1>4, <1>6 DEF DeskInv, AdminTypeOK, SpentProofsAreAudited

LEMMA DeskInits == AdminInit => DeskInv
<1> SUFFICES ASSUME AdminInit  PROVE DeskInv
    OBVIOUS
<1>1. AdminTypeOK
  BY AdminConstants DEF AdminInit, AdminTypeOK, Away, Desk, Proofs
<1>2. \A b \in Bindings : proof[b].used = {} /\ proof[b].open = {}
  BY DEF AdminInit
<1>3. ProofInv
  BY <1>2 DEF AdminInit, ProofInv, Away, Busy
<1>4. SpentProofsAreAudited
  BY <1>2, FS_EmptySet DEF AdminInit, SpentProofsAreAudited
<1> QED BY <1>1, <1>3, <1>4 DEF DeskInv

LEMMA DeskSteps ==
  ASSUME DeskInv, [Next]_vars
  PROVE  DeskInv'
<1>1. CASE UNCHANGED adminVars
  BY <1>1 DEF DeskInv, AdminTypeOK, ProofInv, SpentProofsAreAudited, adminVars,
              B, N
<1>2. ASSUME NEW d \in Desks, DeskStep(d)  PROVE DeskInv'
  BY <1>2, DeskPlain, DeskIssues, DeskConsumes, DeskCommits DEF DeskStep
<1>3. ASSUME NEW d \in Desks, Open(d)  PROVE DeskInv'
  <2>1. /\ AdminTypeOK /\ desk[d].pc = "idle"
        /\ UNCHANGED <<lastCode, attempts, proof, audited>>
    BY <1>3 DEF DeskInv, Open, Sits
  <2> PICK b \in Bindings : \E n \in 0..proof[b].issued :
          desk' = [desk EXCEPT ![d] = [binding |-> b, number |-> n,
            pc |-> IF n = 0 THEN "check" ELSE "consume"]]
    BY <1>3 DEF Open
  <2>2. PICK n \in 0..proof[b].issued :
          desk' = [desk EXCEPT ![d] = [binding |-> b, number |-> n,
            pc |-> IF n = 0 THEN "check" ELSE "consume"]]
    OBVIOUS
  <2>3. n \in Nat
    BY <2>1, <2>2 DEF AdminTypeOK, Proofs
  <2>4. /\ desk' \in [Desks -> Desk] /\ desk'[d].binding = b
        /\ desk'[d].pc \in {"check", "consume"}
        /\ \A e \in Desks \ {d} : desk'[e] = desk[e]
    BY <2>1, <2>2, <2>3 DEF AdminTypeOK, Desk
  <2>5. ProofInv' /\ SpentProofsAreAudited'
    BY <2>1, <2>4, DeskWalks DEF Busy
  <2> QED BY <2>1, <2>4, <2>5 DEF DeskInv, AdminTypeOK
<1>4. ASSUME NEW b \in Bindings, BackoffPasses(b)  PROVE DeskInv'
  <2>1. AdminTypeOK /\ UNCHANGED <<lastCode, proof, desk, audited>>
    BY <1>4 DEF DeskInv, BackoffPasses
  <2>2. AttemptsTyped'
    BY <1>4, <2>1, AdminConstants DEF BackoffPasses, AdminTypeOK, AttemptsTyped
  <2> QED
    BY <2>1, <2>2 DEF DeskInv, AdminTypeOK, AttemptsTyped, ProofInv,
                      SpentProofsAreAudited, B, N
<1>5. ASSUME NEW b \in Bindings, ProofExpires(b)  PROVE DeskInv'
  BY <1>5, ProofsExpire
<1> QED
  BY <1>1, <1>2, <1>3, <1>4, <1>5 DEF Next, ServerNext, AdminEvent, vars

\* A proof of a fresh second factor is spent exactly when the command it was
\* issued for and the audit entry of it are committed: neither twice for one
\* proof, nor a proof for nothing.
THEOREM SpentProofs == Spec => []SpentProofsAreAudited
<1>1. Init => DeskInv
  BY DeskInits DEF Init
<1>2. DeskInv /\ [Next]_vars => DeskInv'
  BY DeskSteps
<1>3. DeskInv => SpentProofsAreAudited
  BY DEF DeskInv
<1> QED BY <1>1, <1>2, <1>3, PTL DEF Spec

-----------------------------------------------------------------------------
(* The invariant holds.                                                    *)

LEMMA ServerParts ==
  ASSUME RowTypes', FamilyTypes'
  PROVE  ServerTypeOK'
  BY DEF RowTypes, FamilyTypes, ServerTypeOK

ThreadActs(h) == SignIn(h) \/ SignedIn(h) \/ Request(h) \/ Load(h) \/ Answered(h)

TabActs(t) == ClientStep(t) \/ Logout(t) \/ AccessExpires(t) \/ RefreshLost(t)
                \/ LogoutLost(t)

LEMMA ClientRows ==
  ASSUME BaseInv,
         \/ \E h \in Threads : ThreadActs(h)
         \/ \E t \in Tabs : TabActs(t)
  PROVE  RowTypes'
<1> USE DEF RowTypes, serverRest, accounts, families, notes
<1>0. RowTypes
  BY DEF BaseInv, TypeOK, ServerTypeOK
<1>1. ASSUME NEW h \in Threads, ThreadActs(h)  PROVE RowTypes'
  BY <1>0, <1>1 DEF ThreadActs, SignIn, SignedIn, Request, Load, Answered
<1>2. ASSUME NEW t \in Tabs, TabActs(t)  PROVE RowTypes'
  <2>1. CASE RefreshLost(t) \/ LogoutLost(t)
    BY <1>0, <2>1, EventTypes DEF RefreshLost, LogoutLost, Event
  <2>2. CASE ~(RefreshLost(t) \/ LogoutLost(t))
    BY <1>0, <1>2, <2>2
       DEF TabActs, ClientStep, SendRefresh, Refreshed, RefreshRefused,
           AwaitRefresh, SendLogout, LoggedOut, Logout, AccessExpires
  <2> QED BY <2>1, <2>2
<1> QED BY <1>1, <1>2

LEMMA ClientHeld ==
  ASSUME BaseInv,
         \/ \E h \in Threads : ThreadActs(h)
         \/ \E t \in Tabs : TabActs(t)
  PROVE  HeldTypes' /\ Quiet
<1>1. ASSUME NEW h \in Threads, ThreadActs(h)  PROVE HeldTypes' /\ Quiet
  BY <1>1, SignInFacts, SignedInFacts, RequestFacts, LoadFacts, AnsweredFacts
     DEF ThreadActs
<1>2. ASSUME NEW t \in Tabs, TabActs(t)  PROVE HeldTypes' /\ Quiet
  BY <1>2, SendRefreshFacts, SendLogoutFacts, RefreshedFacts,
     RefreshRefusedFacts, RefreshLostFacts, LogoutFacts, LoggedOutFacts,
     AccessExpiresFacts
     DEF TabActs, ClientStep, JarSent
<1> QED BY <1>1, <1>2

Inv == BaseInv /\ DeskInv

MoveOf(c) == Walks(c) \/ Creates(c) \/ Rotates(c)

\* What a step is.
LEMMA Steps ==
  ASSUME Inv, [Next]_vars
  PROVE  \/ (\E c \in Callers : /\ ServerStep(c) \/ ServerChoice(c)
                                /\ MoveOf(c)) /\ UNCHANGED clientVars
         \/ /\ Outside /\ UNCHANGED clientVars
            /\ ServerEvent \/ AdminEvent \/ \E d \in Desks : DeskStep(d)
         \/ \E h \in Threads : ThreadActs(h)
         \/ \E t \in Tabs : TabActs(t)
         \/ UNCHANGED vars
<1>0. ServerTypeOK
  BY DEF Inv, BaseInv, TypeOK
<1>1. ASSUME NEW c \in Callers, ServerStep(c) \/ ServerChoice(c)
      PROVE  MoveOf(c)
  BY <1>0, <1>1, ServerMoves DEF MoveOf
<1>2. ASSUME \/ ServerEvent
             \/ AdminEvent \/ \E d \in Desks : DeskStep(d)
      PROVE  Outside
  BY <1>0, <1>2, OutsideMoves
<1> QED
  BY <1>1, <1>2
     DEF Next, ServerNext, ThreadStep, ClientChoice, ThreadActs, TabActs

LEMMA BaseSteps ==
  ASSUME Inv, [Next]_vars
  PROVE  BaseInv'
<1> USE DEF Inv
<1>0. AdminTypeOK'
  BY DeskSteps DEF DeskInv
<1>1. CASE (\E c \in Callers : /\ ServerStep(c) \/ ServerChoice(c)
                               /\ MoveOf(c)) /\ UNCHANGED clientVars
  <2> PICK c \in Callers : (ServerStep(c) \/ ServerChoice(c)) /\ MoveOf(c)
    BY <1>1
  <2>1. ServerTypeOK /\ CallNames(c)
    BY DEF BaseInv, TypeOK, NameInv
  <2>2. ServerTypeOK'
    BY <2>1, ServerRows, ServerFamilies, ServerParts DEF MoveOf
  <2>3. ClientTypeOK'
    BY <1>1 DEF BaseInv, TypeOK, ClientTypeOK, clientVars
  <2>4. PlaceInv'
    BY <1>1, PlaceServer DEF MoveOf
  <2>5. NameInv'
    BY <1>1, NameWalks, NameCreates, NameRotates DEF MoveOf
  <2> QED BY <1>0, <2>2, <2>3, <2>4, <2>5 DEF BaseInv, TypeOK
<1>2. CASE /\ Outside /\ UNCHANGED clientVars
           /\ ServerEvent \/ AdminEvent \/ \E d \in Desks : DeskStep(d)
  <2>1. ServerTypeOK'
    BY <1>2, OutsideRows, OutsideFamilies, ServerParts DEF BaseInv, TypeOK
  <2>2. ClientTypeOK'
    BY <1>2 DEF BaseInv, TypeOK, ClientTypeOK, clientVars
  <2>3. PlaceInv' /\ NameInv'
    BY <1>2, PlaceSame, NameOutside DEF BaseInv, Outside
  <2> QED BY <1>0, <2>1, <2>2, <2>3 DEF BaseInv, TypeOK
<1>3. CASE \/ \E h \in Threads : ThreadActs(h)
           \/ \E t \in Tabs : TabActs(t)
  <2>1. RowTypes' /\ HeldTypes' /\ Quiet
    BY <1>3, ClientRows, ClientHeld
  <2>2. ServerTypeOK' /\ ClientTypeOK'
    BY <2>1 DEF BaseInv, TypeOK, ServerTypeOK, RowTypes, HeldTypes, Quiet
  <2>3. PlaceInv' /\ NameInv'
    BY <1>3, PlaceThreads, PlaceTabs, NameThreads, NameTabs
       DEF ThreadActs, TabActs
  <2> QED BY <1>0, <2>2, <2>3 DEF BaseInv, TypeOK
<1>4. CASE UNCHANGED vars
  <2>1. UNCHANGED <<call, clientVars>> /\ UNCHANGED serverVars
    BY <1>4 DEF vars, serverVars
  <2>2. ServerTypeOK' /\ ClientTypeOK'
    BY <2>1 DEF BaseInv, TypeOK, ServerTypeOK, ClientTypeOK, serverVars,
                clientVars
  <2>3. PlaceInv'
    BY <2>1, PlaceSame DEF BaseInv
  <2>4. NameInv'
    BY <2>1 DEF BaseInv, NameInv, CallNames, Created, SignedUp, At, serverVars,
                clientVars
  <2> QED BY <1>0, <2>2, <2>3, <2>4 DEF BaseInv, TypeOK
<1> QED BY <1>1, <1>2, <1>3, <1>4, Steps

LEMMA Inits == Init => Inv
<1> SUFFICES ASSUME Init  PROVE Inv
    OBVIOUS
<1>1. DeskInv
  BY DeskInits DEF Init
<1>2. /\ user \in [Users -> {[status |-> s, fails |-> 0, lock |-> "none",
                             paid |-> TRUE] : s \in {"absent", "active"}}]
      /\ slots = 0 /\ worn = {} /\ history = {} /\ detected = {}
      /\ loggedOut = {} /\ handoff \in [Users -> {"none", "open"}]
      /\ session = [s \in Sids |-> [state |-> "unused", owner |-> None,
                                    gen |-> 0, kind |-> "web"]]
      /\ call = [c \in Callers |-> NoCall] /\ eventsLeft = MaxEvents
  BY DEF Init, ServerInit
<1>3. user \in [Users -> User]
  <2>1. \A s \in {"absent", "active"} :
          [status |-> s, fails |-> 0, lock |-> "none", paid |-> TRUE] \in User
    BY DEF User
  <2>2. {[status |-> s, fails |-> 0, lock |-> "none", paid |-> TRUE] :
           s \in {"absent", "active"}} \subseteq User
    BY <2>1
  <2> QED BY <1>2, <2>2
<1>4. ServerTypeOK
  BY <1>2, <1>3, SessionConstants
     DEF ServerTypeOK, Session, Call, NoCall, Kinds
<1>5. ClientTypeOK
  BY DEF Init, ClientInit, ClientTypeOK, Tab, Thread
<1>6. PlaceInv
  BY <1>2, ClientFacts
     DEF Init, ClientInit, PlaceInv, TabPlace, ThreadPlace, At, NoCall, Orphans
<1>7. NameInv
  BY <1>2, ClientFacts
     DEF Init, ClientInit, NameInv, CallNames, SignedUp, Created, At, NoCall,
         Presenting, Using
<1> QED
  BY <1>1, <1>4, <1>5, <1>6, <1>7 DEF Inv, BaseInv, TypeOK, DeskInv

LEMMA Invariant == Spec => []Inv
<1>1. Inv /\ [Next]_vars => Inv'
  BY BaseSteps, DeskSteps DEF Inv
<1> QED BY <1>1, Inits, PTL DEF Spec

\* The rows, requests and clients hold values of their types.
THEOREM AccountTypes == Spec => []TypeOK
<1>1. Inv => TypeOK
  BY DEF Inv, BaseInv
<1> QED BY <1>1, Invariant, PTL

\* Refresh and logout never wait in vain: the lock is held by a tab whose
\* request is in the server, and who waits for a refresh has one.
THEOREM NobodyIsStuck == Spec => []NoClientIsStuck
<1>1. Inv => NoClientIsStuck
  BY DEF Inv, BaseInv, PlaceInv, TabPlace, ThreadPlace, NoClientIsStuck, At,
         TypeOK, ClientTypeOK, Signing, Presenting, Using, Answers
<1> QED BY <1>1, Invariant, PTL

-----------------------------------------------------------------------------
(* Who is admitted.                                                        *)

\* Only the read of a session with its user admits a request.
LEMMA OnlyReadAdmits ==
  ASSUME ServerTypeOK, NEW c \in Callers, ServerStep(c) \/ ServerChoice(c),
         ~At(c, "act"), call'[c].pc = "act"
  PROVE  ReadSession(c)
<1>1. \A pc : Goto(c, pc) => call'[c].pc = pc
  BY DEF ServerTypeOK, Goto, Call
<1>2. ~CreateSession(c)
  <2> SUFFICES ASSUME CreateSession(c)  PROVE FALSE
      OBVIOUS
  <2>1. CASE Goto(c, "denied")
    BY <1>1, <2>1
  <2>2. CASE ~Goto(c, "denied")
    <3>1. Creates(c)
      BY <2>2 DEF CreateSession, Creates, accounts, notes
    <3> QED BY <3>1, CreatesFacts
  <2> QED BY <2>1, <2>2
<1>3. ~Rotate(c)
  <2> SUFFICES ASSUME Rotate(c)  PROVE FALSE
      OBVIOUS
  <2>1. CASE Goto(c, "reuse")
    BY <1>1, <2>1
  <2>2. CASE ~Goto(c, "reuse")
    <3> DEFINE n == session[call[c].sid].gen + 1
    <3>1. call' = [call EXCEPT ![c] = [@ EXCEPT !.pc = "ok", !.gen = n]]
      BY <2>2 DEF Rotate
    <3> HIDE DEF n
    <3>2. call'[c].pc = "ok"
      BY <3>1 DEF ServerTypeOK, Call
    <3> QED BY <3>2
  <2> QED BY <2>1, <2>2
<1> HIDE DEF Goto
<1>4. ~(RegisterRead(c) \/ SignUp(c) \/ ReadUser(c) \/ RightPassword(c)
          \/ CountFailure(c) \/ LockAccount(c) \/ ResetFailures(c)
          \/ ReadLinked(c) \/ Exchange(c))
  BY <1>1 DEF RegisterRead, SignUp, ReadUser, RightPassword, CountFailure,
              LockAccount, ResetFailures, ReadLinked, Exchange
<1>5. ~(FindSession(c) \/ LookUpHistory(c) \/ DropUnpaid(c) \/ DropExpired(c)
          \/ Reuse(c) \/ LogoutByToken(c) \/ Touch(c) \/ DropSession(c)
          \/ Use(c))
  BY <1>1 DEF FindSession, LookUpHistory, DropUnpaid, DropExpired, Reuse,
              LogoutByToken, Touch, DropSession, Use
<1>6. ~ServerChoice(c)
  BY <1>1 DEF ServerChoice, WrongPassword, RevokeSession, RevokeOthers,
              CreateHandoff, DeleteUser
<1> QED BY <1>2, <1>3, <1>4, <1>5, <1>6 DEF ServerStep

LEMMA ClientsAdmitNobody ==
  ASSUME BaseInv, NEW c \in Callers, call'[c].pc = "act", ~At(c, "act"),
         \/ \E h \in Threads : ThreadActs(h)
         \/ \E t \in Tabs : TabActs(t)
  PROVE  FALSE
<1> USE DEF OnlyCall, NoCall, At, Signing, Presenting, Using, Answers
<1>1. ASSUME NEW h \in Threads, ThreadActs(h)  PROVE FALSE
  <2>1. CASE SignIn(h)
    BY <2>1, SignInFacts
  <2>2. CASE SignedIn(h)
    BY <2>2, SignedInFacts
  <2>3. CASE Request(h)
    BY <2>3, RequestFacts
  <2>4. CASE Load(h)
    BY <2>4, LoadFacts
  <2>5. CASE Answered(h)
    BY <2>5, AnsweredFacts
  <2> QED BY <1>1, <2>1, <2>2, <2>3, <2>4, <2>5 DEF ThreadActs
<1>2. ASSUME NEW t \in Tabs, TabActs(t)  PROVE FALSE
  <2>1. CASE SendRefresh(t)
    BY <2>1, SendRefreshFacts DEF JarSent
  <2>2. CASE SendLogout(t)
    BY <2>2, SendLogoutFacts DEF JarSent
  <2>3. CASE Refreshed(t)
    BY <2>3, RefreshedFacts
  <2>4. CASE RefreshRefused(t)
    BY <2>4, RefreshRefusedFacts
  <2>5. CASE RefreshLost(t)
    <3>1. PICK o \in Orphans : /\ call'[o] = call[t]
                               /\ \A d \in Callers \ {o, t} : call'[d] = call[d]
      BY <2>5, RefreshLostFacts
    <3>2. call'[t] = NoCall /\ call[t].pc # "act"
      BY <2>5, RefreshLostFacts DEF BaseInv, PlaceInv, TabPlace
    <3> QED BY <3>1, <3>2
  <2>6. CASE Logout(t) \/ AwaitRefresh(t)
    BY <2>6, LogoutFacts
  <2>7. CASE LoggedOut(t) \/ LogoutLost(t)
    <3>1. OnlyCall(t) /\ call'[t] = NoCall
      BY <2>7, LoggedOutFacts DEF BaseInv
    <3> QED BY <3>1
  <2>8. CASE AccessExpires(t)
    BY <2>8, AccessExpiresFacts
  <2> QED
    BY <1>2, <2>1, <2>2, <2>3, <2>4, <2>5, <2>6, <2>7, <2>8
       DEF TabActs, ClientStep
<1> QED BY <1>1, <1>2

\* A request is admitted only in a step that finds its user active, whatever
\* sessions a suspension has missed.
THEOREM ActiveUsersOnly == Spec => OnlyActiveAdmitted
<1>1. ASSUME Inv, [Next]_vars, NEW c \in Callers,
             call'[c].pc = "act", ~At(c, "act")
      PROVE  user[Owner(call[c].sid)].status = "active"
  <2>0. BaseInv /\ ServerTypeOK /\ c \in Callers
    BY <1>1 DEF Inv, BaseInv, TypeOK
  <2>1. CASE \E d \in Callers : (ServerStep(d) \/ ServerChoice(d)) /\ MoveOf(d)
    <3> PICK d \in Callers : (ServerStep(d) \/ ServerChoice(d)) /\ MoveOf(d)
      BY <2>1
    <3>1. OnlyCall(d)
      BY <2>0, ServerPaces DEF MoveOf, BaseInv, NameInv
    <3>2. c = d
      BY <1>1, <3>1 DEF OnlyCall, At
    <3>3. ReadSession(c)
      BY <1>1, <2>0, <3>2, OnlyReadAdmits
    <3>4. Goto(c, CASE Usable(call[c].sid) -> "act"
                    [] ~Live(call[c].sid) -> "denied" [] OTHER -> "drop")
      BY <3>3 DEF ReadSession
    <3>5. Usable(call[c].sid)
      BY <1>1, <2>0, <3>4 DEF Goto, ServerTypeOK, Call
    <3> QED BY <3>5 DEF Usable
  <2>2. CASE call' = call
    BY <1>1, <2>2 DEF At
  <2>3. CASE \/ \E h \in Threads : ThreadActs(h)
             \/ \E t \in Tabs : TabActs(t)
    BY <1>1, <2>0, <2>3, ClientsAdmitNobody
  <2> QED
    BY <1>1, <2>1, <2>2, <2>3, Steps DEF Outside, vars, serverVars
<1>2. Inv /\ [Next]_vars =>
        [\A c \in Callers : call'[c].pc = "act" /\ ~At(c, "act") =>
           user[Owner(call[c].sid)].status = "active"]_vars
  BY <1>1
<1> QED BY <1>2, Invariant, PTL DEF Spec, OnlyActiveAdmitted

-----------------------------------------------------------------------------
(* Superseded tokens and logouts.                                          *)

LEMMA SupersededAges ==
  ASSUME BaseInv, SupersededIsKnown, Ages
  PROVE  SupersededIsKnown'
<1> SUFFICES ASSUME NEW s \in Sids, Fresh(s)', NEW n \in 0..session'[s].gen,
                    n < session'[s].gen
             PROVE  <<s, n>> \in history'
    BY DEF SupersededIsKnown
<1>1. session'[s].gen = session[s].gen /\ Live(s)
  BY AgesFacts DEF BaseInv, TypeOK, Fresh, Live
<1>2. s \notin worn' /\ worn \subseteq worn'
  BY DEF Fresh, Ages
<1>3. <<s, n>> \in history
  BY <1>1, <1>2 DEF SupersededIsKnown, Fresh
<1>4. \A p \in history \ history' : p[1] \in worn'
  BY DEF Ages
<1> QED BY <1>2, <1>3, <1>4

LEMMA LogoutAges ==
  ASSUME BaseInv, LogoutEndsSession, Ages
  PROVE  \A s \in loggedOut : session'[s].state = "ended"
  BY AgesFacts DEF BaseInv, TypeOK, ServerTypeOK, LogoutEndsSession

LEMMA LogoutWalks ==
  ASSUME BaseInv, LogoutEndsSession, NEW c \in Callers, Walks(c)
  PROVE  LogoutEndsSession'
<1> SUFFICES ASSUME NEW s \in loggedOut', s \notin loggedOut
             PROVE  session'[s].state = "ended"
    BY LogoutAges DEF LogoutEndsSession, Walks
<1>1. At(c, "logout") /\ s = call[c].sid /\ (s \in Sids => session'[s].state # "live")
  BY DEF Walks
<1>2. s \in Created
  BY <1>1 DEF BaseInv, NameInv, CallNames
<1>3. s \in Sids /\ s \in Created' /\ session'[s] \in Session
  BY <1>2, AgesFacts DEF Walks, BaseInv, TypeOK, Created
<1> QED BY <1>1, <1>3 DEF Created, Session

LEMMA FamilyCreates ==
  ASSUME BaseInv, SupersededIsKnown, LogoutEndsSession, NEW c \in Callers,
         Creates(c)
  PROVE  SupersededIsKnown' /\ LogoutEndsSession'
<1> DEFINE s == call'[c].sid
<1>1. /\ s \in Sids \ Created
      /\ session'[s] = [state |-> "live", owner |-> call[c].who, gen |-> 0,
                        kind |-> call[c].kind]
      /\ \A r \in Sids \ {s} : session'[r] = session[r]
      /\ UNCHANGED <<worn, history, loggedOut>>
  BY CreatesFacts, Zenon DEF BaseInv, TypeOK
<1>2. session'[s].gen = 0
  BY <1>1
<1> HIDE DEF s
<1>3. SupersededIsKnown'
  <2> SUFFICES ASSUME NEW r \in Sids, Fresh(r)', NEW n \in 0..session'[r].gen,
                      n < session'[r].gen
               PROVE  <<r, n>> \in history'
      BY DEF SupersededIsKnown
  <2>1. r # s
    BY <1>2
  <2> QED BY <1>1, <2>1 DEF SupersededIsKnown, Fresh, Live
<1>4. LogoutEndsSession'
  BY <1>1 DEF LogoutEndsSession, Created, BaseInv, TypeOK, ServerTypeOK
<1> QED BY <1>3, <1>4

LEMMA FamilyRotates ==
  ASSUME BaseInv, SupersededIsKnown, LogoutEndsSession, NEW c \in Callers,
         Rotates(c)
  PROVE  SupersededIsKnown' /\ LogoutEndsSession'
<1> DEFINE s == call[c].sid
<1>0. s \in Sids
  BY DEF BaseInv, NameInv, CallNames, Rotates, At, Presenting, Created
<1>1. /\ Fresh(s) /\ session'[s].gen = session[s].gen + 1
      /\ \A r \in Sids : /\ session'[r].state = session[r].state
                         /\ r # s => session'[r] = session[r]
      /\ history' = history \cup {<<s, session[s].gen>>}
      /\ UNCHANGED <<worn, loggedOut>> /\ session[s].gen \in Nat
  BY <1>0, RotatesFacts DEF BaseInv, TypeOK, ServerTypeOK, Session, Token
<1> HIDE DEF s
<1>2. SupersededIsKnown'
  <2> SUFFICES ASSUME NEW r \in Sids, Fresh(r)', NEW n \in 0..session'[r].gen,
                      n < session'[r].gen
               PROVE  <<r, n>> \in history'
      BY DEF SupersededIsKnown
  <2>1. CASE r = s
    <3>1. n = session[s].gen \/ (n \in 0..session[s].gen /\ n < session[s].gen)
      BY <1>1, <2>1
    <3> QED BY <1>0, <1>1, <2>1, <3>1 DEF SupersededIsKnown
  <2>2. CASE r # s
    BY <1>1, <2>2 DEF SupersededIsKnown, Fresh, Live
  <2> QED BY <2>1, <2>2
<1>3. LogoutEndsSession'
  BY <1>1 DEF LogoutEndsSession, BaseInv, TypeOK, ServerTypeOK
<1> QED BY <1>2, <1>3

LEMMA FamilySteps ==
  ASSUME Inv, SupersededIsKnown, LogoutEndsSession, [Next]_vars
  PROVE  SupersededIsKnown' /\ LogoutEndsSession'
<1>0. BaseInv
  BY DEF Inv
<1>1. CASE \E c \in Callers : (ServerStep(c) \/ ServerChoice(c)) /\ MoveOf(c)
  <2> PICK c \in Callers : MoveOf(c)
    BY <1>1
  <2>1. CASE Walks(c)
    BY <1>0, <2>1, SupersededAges, LogoutWalks DEF Walks
  <2> QED BY <1>0, <2>1, FamilyCreates, FamilyRotates DEF MoveOf
<1>2. CASE Outside
  BY <1>0, <1>2, SupersededAges, LogoutAges DEF Outside, LogoutEndsSession
<1>3. CASE Quiet
  BY <1>3 DEF Quiet, SupersededIsKnown, LogoutEndsSession, Fresh, Live
<1>4. ASSUME UNCHANGED vars  PROVE Quiet
  BY <1>4 DEF vars, serverVars, Quiet
<1> QED BY <1>0, <1>1, <1>2, <1>3, <1>4, Steps, ClientHeld

LEMMA FamilyInvariant == Spec => [](SupersededIsKnown /\ LogoutEndsSession)
<1>1. Init => SupersededIsKnown /\ LogoutEndsSession
  BY DEF Init, ServerInit, SupersededIsKnown, LogoutEndsSession, Fresh, Live
<1>2. /\ Inv /\ SupersededIsKnown /\ LogoutEndsSession /\ [Next]_vars
      => (SupersededIsKnown /\ LogoutEndsSession)'
  BY FamilySteps
<1> QED BY <1>1, <1>2, Invariant, PTL DEF Spec

\* A superseded token is recognised as long as its session may be used:
\* rotation leaves it in the history, and only the end of a session removes it.
THEOREM SupersededTokensAreKnown == Spec => []SupersededIsKnown
<1>1. SupersededIsKnown /\ LogoutEndsSession => SupersededIsKnown
  OBVIOUS
<1> QED BY <1>1, FamilyInvariant, PTL

\* An answered logout has ended its session, whatever refresh was under way.
THEOREM LogoutsEnd == Spec => []LogoutEndsSession
<1>1. SupersededIsKnown /\ LogoutEndsSession => LogoutEndsSession
  OBVIOUS
<1> QED BY <1>1, FamilyInvariant, PTL

-----------------------------------------------------------------------------
(* The clients keep up with their own refreshes.                           *)

\* A refresh that may still succeed, or has.
Refreshing(t) ==
  tab[t].refresh = "sent" /\ call[t].pc \in Presenting \cup {"ok"}

\* It presents the current token of a session of its kind, or has got it.
RefreshHolds(t) ==
  Refreshing(t) =>
    /\ session[call[t].sid].kind = KindOf[t]
    /\ session[call[t].sid].gen = call[t].gen

\* The kept token is the current one, or a refresh is about to replace it.
Replaces(t, k) ==
  /\ KindOf[t] = k /\ tab[t].refresh = "sent"
  /\ At(t, "ok") /\ call[t].sid = jar[k][1]

JarHolds(k) ==
  jar[k] # None =>
    /\ session[jar[k][1]].kind = k
    /\ session[jar[k][1]].gen = jar[k][2] \/ \E t \in Tabs : Replaces(t, k)

\* A new session is known to the request that made it alone.
SignedUpAlone(h) ==
  SignedUp(h) =>
    /\ call[h].gen = 0 /\ session[call[h].sid].gen = 0
    /\ session[call[h].sid].kind = KindOf[TabOf[h]]
    /\ \A k \in Kinds : jar[k] # None => jar[k][1] # call[h].sid
    /\ \A t \in Tabs : call[t].sid # call[h].sid
    /\ \A i \in Threads \ {h} : SignedUp(i) => call[i].sid # call[h].sid

KindKept(h) ==
  thread[h] \in {"signing", "redirected"} =>
    call[h].kind = KindOf[TabOf[h]] \/ At(h, "denied")

Keep ==
  /\ \A t \in Tabs : RefreshHolds(t)
  /\ \A k \in Kinds : JarHolds(k)
  /\ \A h \in Threads : SignedUpAlone(h) /\ KindKept(h)
  /\ \A o \in Orphans : At(o, "idle")
  /\ detected = {}

KeepInv == ~lost => Keep

\* Of the tabs of one kind, one refreshes or logs out at a time: the lock of
\* the browser sees to it, and there is one extension.
LEMMA OneAtATime ==
  ASSUME BaseInv, NEW t \in Tabs, NEW u \in Tabs, KindOf[t] = KindOf[u],
         tab[t].refresh = "sent", tab[u].refresh = "sent"
  PROVE  t = u
<1>1. KindOf[t] \in {"web", "extension"}
  BY ClientFacts DEF Kinds
<1>2. CASE KindOf[t] = "web"
  BY <1>2 DEF BaseInv, PlaceInv, TabPlace, Web
<1>3. CASE KindOf[t] = "extension"
  BY <1>3, ClientConstants
<1> QED BY <1>1, <1>2, <1>3

\* Who presents a token, and who creates a session.
LEMMA WhoIsWhere ==
  ASSUME BaseInv, Keep, NEW c \in Callers
  PROVE  /\ call[c].pc \in Presenting =>
              c \in Tabs /\ tab[c].refresh = "sent" /\ call[c].sid \in Sids
         /\ At(c, "create") =>
              c \in Threads /\ thread[c] \in {"signing", "redirected"}
<1> USE DEF Presenting, Signing, Using, Answers, At
<1>1. CASE c \in Tabs
  <2>1. TabPlace(c)
    BY <1>1 DEF BaseInv, PlaceInv
  <2>2. call[c].pc \in Presenting => call[c].sid \in Sids
    BY DEF BaseInv, NameInv, CallNames, Created
  <2> QED BY <1>1, <2>1, <2>2 DEF TabPlace
<1>2. CASE c \in Threads
  <2>1. ThreadPlace(c) /\ thread[c] \in Thread
    BY <1>2 DEF BaseInv, PlaceInv, TypeOK, ClientTypeOK
  <2> QED BY <1>2, <2>1 DEF ThreadPlace, Thread
<1>3. CASE c \in Orphans
  BY <1>3 DEF Keep
<1> QED BY <1>1, <1>2, <1>3 DEF Orphans

\* What leaves the tokens and the sessions alone.
LEMMA KeepFrame ==
  ASSUME BaseInv, Keep, jar' = jar, detected' = {},
         \A s \in Sids : /\ session'[s].gen = session[s].gen
                         /\ session'[s].kind = session[s].kind,
         \A t \in Tabs : /\ tab'[t].refresh = "sent" <=> tab[t].refresh = "sent"
                         /\ call'[t].sid = call[t].sid
                         /\ call'[t].gen = call[t].gen
                         /\ tab[t].refresh = "sent" =>
                              /\ At(t, "ok")' <=> At(t, "ok")
                              /\ call'[t].pc \in Presenting =>
                                   call[t].pc \in Presenting,
         \A h \in Threads : /\ KindKept(h)'
                            /\ SignedUp(h)' =>
                                 /\ SignedUp(h) /\ call'[h].sid = call[h].sid
                                 /\ call'[h].gen = call[h].gen,
         \A o \in Orphans : At(o, "idle")'
  PROVE  Keep'
<1>1. ASSUME NEW t \in Tabs  PROVE RefreshHolds(t)'
  <2> SUFFICES ASSUME Refreshing(t)'
               PROVE  /\ session'[call'[t].sid].kind = KindOf[t]
                      /\ session'[call'[t].sid].gen = call'[t].gen
      BY DEF RefreshHolds
  <2>1. Refreshing(t) /\ t \in Callers
    BY ClientFacts DEF Refreshing, At
  <2>2. call[t].sid \in Sids
    BY <2>1 DEF Refreshing, At, BaseInv, NameInv, CallNames, Created
  <2> QED BY <2>1, <2>2 DEF Keep, RefreshHolds
<1>2. ASSUME NEW k \in Kinds  PROVE JarHolds(k)'
  <2>1. jar[k] # None => jar[k][1] \in Sids
    BY DEF BaseInv, NameInv, Created
  <2>2. \A t \in Tabs : Replaces(t, k) => Replaces(t, k)'
    BY DEF Replaces
  <2> QED BY <2>1, <2>2 DEF Keep, JarHolds
<1>3. ASSUME NEW h \in Threads  PROVE SignedUpAlone(h)'
  <2> SUFFICES ASSUME SignedUp(h)'  PROVE SignedUpAlone(h)'
      BY DEF SignedUpAlone
  <2>1. SignedUp(h) /\ h \in Callers
    BY ClientFacts
  <2>2. call[h].sid \in Sids
    BY <2>1 DEF BaseInv, NameInv, CallNames, Created
  <2> QED BY <2>1, <2>2 DEF Keep, SignedUpAlone
<1> QED BY <1>1, <1>2, <1>3 DEF Keep

LEMMA KeepWalks ==
  ASSUME BaseInv, Keep, NEW c \in Callers, Walks(c), UNCHANGED clientVars
  PROVE  Keep'
<1>1. \A s \in Sids : /\ session'[s].gen = session[s].gen
                      /\ session'[s].kind = session[s].kind
  BY AgesFacts DEF Walks, BaseInv, TypeOK
<1>2. \A d \in Callers : /\ call'[d].sid = call[d].sid
                         /\ call'[d].gen = call[d].gen
                         /\ call'[d].kind = call[d].kind
  BY WalksFacts DEF BaseInv, TypeOK
<1>3. detected' = {}
  <2>1. CASE At(c, "reuse")
    <3>1. c \in Tabs /\ Refreshing(c) /\ call[c].sid \in Sids
      BY <2>1, WhoIsWhere DEF At, Presenting, Refreshing
    <3>2. session[call[c].sid].gen = call[c].gen
      BY <3>1 DEF Keep, RefreshHolds
    <3>3. call[c].gen \in Nat
      BY DEF BaseInv, TypeOK, ServerTypeOK, Call
    <3>4. Token(c) \notin history
      <4> SUFFICES ASSUME Token(c) \in history  PROVE FALSE
          OBVIOUS
      <4>1. Token(c)[2] < session[Token(c)[1]].gen
        BY DEF BaseInv, NameInv
      <4> QED BY <3>2, <3>3, <4>1 DEF Token
    <3> QED BY <3>4 DEF Walks, Keep
  <2>2. CASE ~At(c, "reuse")
    BY <2>2 DEF Walks, Keep
  <2> QED BY <2>1, <2>2
<1>4. ASSUME NEW t \in Tabs
      PROVE  /\ tab'[t].refresh = "sent" <=> tab[t].refresh = "sent"
             /\ call'[t].sid = call[t].sid /\ call'[t].gen = call[t].gen
             /\ tab[t].refresh = "sent" =>
                  /\ At(t, "ok")' <=> At(t, "ok")
                  /\ call'[t].pc \in Presenting => call[t].pc \in Presenting
  BY <1>2, WalksEnds, ClientFacts DEF clientVars, At
<1>5. ASSUME NEW h \in Threads
      PROVE  /\ KindKept(h)'
             /\ SignedUp(h)' => /\ SignedUp(h) /\ call'[h].sid = call[h].sid
                                /\ call'[h].gen = call[h].gen
  <2>1. /\ thread' = thread /\ h \in Callers
        /\ call[h].pc = "denied" => call'[h].pc = "denied"
        /\ thread[h] \in {"signing", "redirected"} =>
             (call'[h].pc = "ok" <=> call[h].pc = "ok")
    BY WalksEnds, ClientFacts DEF clientVars
  <2> QED BY <1>2, <2>1 DEF Keep, KindKept, SignedUp, At
<1>6. \A o \in Orphans : At(o, "idle")'
  BY WalksEnds DEF Keep, Orphans, At
<1> QED BY <1>1, <1>3, <1>4, <1>5, <1>6, KeepFrame DEF clientVars

LEMMA KeepCreates ==
  ASSUME BaseInv, Keep, NEW c \in Callers, Creates(c), UNCHANGED clientVars
  PROVE  Keep'
<1> DEFINE s == call'[c].sid
<1>1. /\ s \in Sids \ Created /\ call'[c].pc = "ok" /\ call'[c].gen = 0
      /\ call'[c].kind = call[c].kind
      /\ \A r \in Sids \ {s} : session'[r] = session[r]
      /\ \A d \in Callers \ {c} : call'[d] = call[d]
      /\ At(c, "create") /\ UNCHANGED detected
  BY CreatesFacts, Zenon DEF BaseInv, TypeOK, At
<1>2. session'[s] = [state |-> "live", owner |-> call[c].who, gen |-> 0,
                     kind |-> call[c].kind]
  BY CreatesFacts, Zenon DEF BaseInv, TypeOK
<1>3. session'[s].gen = 0 /\ session'[s].kind = call[c].kind
  BY <1>2
<1>4. call'[c].sid = s /\ s \in Sids /\ s \notin Created /\ s # None
  BY <1>1, ClientFacts
<1> HIDE DEF s
<1>5. c \in Threads /\ thread[c] \in {"signing", "redirected"} /\ c \notin Tabs
  BY <1>1, WhoIsWhere, ClientFacts
<1>6. call[c].kind = KindOf[TabOf[c]]
  BY <1>1, <1>5 DEF Keep, KindKept, At
<1>7. /\ \A d \in Callers : call[d].sid # s
      /\ \A k \in Kinds : jar[k] # None => jar[k][1] # s /\ jar[k][1] \in Sids
  BY <1>4 DEF BaseInv, NameInv, CallNames, Created
<1>8. \A t \in Tabs : call'[t] = call[t]
  BY <1>1, <1>5, ClientFacts
<1>9. ASSUME NEW t \in Tabs  PROVE RefreshHolds(t)'
  <2> SUFFICES ASSUME Refreshing(t)'
               PROVE  /\ session'[call[t].sid].kind = KindOf[t]
                      /\ session'[call[t].sid].gen = call[t].gen
      BY <1>8 DEF RefreshHolds
  <2>1. Refreshing(t) /\ t \in Callers
    BY <1>8, ClientFacts DEF Refreshing, clientVars
  <2>2. call[t].sid \in Sids
    BY <2>1 DEF Refreshing, At, BaseInv, NameInv, CallNames, Created
  <2>3. session'[call[t].sid] = session[call[t].sid]
    BY <1>1, <1>7, <2>1, <2>2
  <2> QED BY <2>1, <2>3 DEF Keep, RefreshHolds
<1>10. ASSUME NEW k \in Kinds  PROVE JarHolds(k)'
  <2>1. \A t \in Tabs : Replaces(t, k) => Replaces(t, k)'
    BY <1>8 DEF Replaces, At, clientVars
  <2>2. jar' = jar /\ (jar[k] # None => session'[jar[k][1]] = session[jar[k][1]])
    BY <1>1, <1>7 DEF clientVars
  <2> QED BY <2>1, <2>2 DEF Keep, JarHolds
<1>11. ASSUME NEW h \in Threads  PROVE SignedUpAlone(h)' /\ KindKept(h)'
  <2>0. UNCHANGED <<jar, tab, thread>>
    BY DEF clientVars
  <2>1. CASE h = c
    <3>1. SignedUpAlone(h)'
      BY <1>1, <1>3, <1>4, <1>6, <1>7, <1>8, <2>0, <2>1, ClientFacts
         DEF SignedUpAlone, SignedUp, At
    <3> QED BY <1>1, <1>6, <2>0, <2>1, <3>1 DEF KindKept
  <2>2. CASE h # c
    <3>1. call'[h] = call[h] /\ h \in Callers
      BY <1>1, <2>2, ClientFacts
    <3>2. SignedUp(h) => call[h].sid \in Sids /\ call[h].sid # s
      BY <1>7, <3>1 DEF BaseInv, NameInv, CallNames, Created
    <3>3. \A i \in Threads \ {h, c} : call'[i] = call[i]
      BY <1>1, ClientFacts
    <3>4. SignedUpAlone(h)'
      BY <1>1, <1>4, <1>8, <2>0, <3>1, <3>2, <3>3
         DEF Keep, SignedUpAlone, SignedUp, At
    <3> QED BY <2>0, <3>1, <3>4 DEF Keep, KindKept, At
  <2> QED BY <2>1, <2>2
<1>12. \A o \in Orphans : At(o, "idle")'
  BY <1>1, <1>5 DEF Keep, Orphans, At
<1> QED BY <1>1, <1>9, <1>10, <1>11, <1>12 DEF Keep

LEMMA KeepRotates ==
  ASSUME BaseInv, Keep, NEW c \in Callers, Rotates(c), UNCHANGED clientVars
  PROVE  Keep'
<1> DEFINE s == call[c].sid
<1>1. c \in Tabs /\ Refreshing(c) /\ s \in Sids /\ c \notin Threads
  BY WhoIsWhere, ClientFacts DEF Rotates, At, Presenting, Refreshing
<1>2. /\ call[c].pc = "rotate" /\ call'[c].pc = "ok" /\ call'[c].sid = s
      /\ call'[c].gen = session[s].gen + 1
      /\ session'[s].gen = session[s].gen + 1 /\ session'[s].kind = session[s].kind
      /\ \A r \in Sids \ {s} : session'[r] = session[r]
      /\ \A d \in Callers \ {c} : call'[d] = call[d]
      /\ UNCHANGED detected
  BY <1>1, RotatesFacts DEF BaseInv, TypeOK
<1>3. session[s].kind = KindOf[c]
  BY <1>1 DEF Keep, RefreshHolds
<1>4. call[c].sid = s
  OBVIOUS
<1> HIDE DEF s
<1>5. UNCHANGED <<jar, tab, thread>>
  BY DEF clientVars
<1>6. ASSUME NEW t \in Tabs  PROVE RefreshHolds(t)'
  <2>1. CASE t = c
    BY <1>2, <1>3, <2>1 DEF RefreshHolds
  <2>2. CASE t # c
    <3>1. call'[t] = call[t] /\ t \in Callers
      BY <1>2, <2>2, ClientFacts
    <3>2. Refreshing(t) => call[t].sid \in Sids /\ call[t].sid # s
      <4> SUFFICES ASSUME Refreshing(t)
                   PROVE  call[t].sid \in Sids /\ call[t].sid # s
          OBVIOUS
      <4>1. call[t].sid \in Sids
        BY <3>1 DEF Refreshing, At, BaseInv, NameInv, CallNames, Created
      <4>2. KindOf[t] # KindOf[c]
        BY <1>1, <2>2, OneAtATime DEF Refreshing
      <4> QED BY <1>3, <4>1, <4>2 DEF Keep, RefreshHolds
    <3> QED BY <1>2, <1>5, <3>1, <3>2 DEF Keep, RefreshHolds, Refreshing
  <2> QED BY <2>1, <2>2
<1>7. ASSUME NEW k \in Kinds  PROVE JarHolds(k)'
  <2> SUFFICES ASSUME jar[k] # None  PROVE JarHolds(k)'
      BY <1>5 DEF JarHolds
  <2>1. jar[k][1] \in Sids /\ session[jar[k][1]].kind = k
    BY DEF BaseInv, NameInv, Created, Keep, JarHolds
  <2>2. CASE jar[k][1] = s
    <3>1. Replaces(c, k)'
      BY <1>1, <1>2, <1>3, <1>5, <2>1, <2>2 DEF Replaces, Refreshing, At
    <3> QED BY <1>1, <1>2, <1>5, <2>1, <2>2, <3>1 DEF JarHolds
  <2>3. CASE jar[k][1] # s
    <3>1. \A t \in Tabs : Replaces(t, k) => Replaces(t, k)'
      BY <1>2, <1>5, ClientFacts DEF Replaces, At
    <3>2. session'[jar[k][1]] = session[jar[k][1]]
      BY <1>2, <2>1, <2>3
    <3> QED BY <1>5, <3>1, <3>2 DEF Keep, JarHolds
  <2> QED BY <2>2, <2>3
<1>8. ASSUME NEW h \in Threads  PROVE SignedUpAlone(h)' /\ KindKept(h)'
  <2>1. \A i \in Threads : call'[i] = call[i] /\ i \in Callers
    BY <1>1, <1>2, ClientFacts
  <2>2. \A t \in Tabs : call'[t].sid = call[t].sid
    BY <1>2, <1>4, ClientFacts
  <2>3. SignedUp(h) => call[h].sid \in Sids /\ call[h].sid # s
    BY <1>1, <1>4, <2>1
       DEF BaseInv, NameInv, CallNames, Created, Keep, SignedUpAlone
  <2>4. SignedUpAlone(h)'
    BY <1>2, <1>5, <2>1, <2>2, <2>3 DEF Keep, SignedUpAlone, SignedUp, At
  <2> QED BY <1>5, <2>1, <2>4 DEF Keep, KindKept, At
<1>9. \A o \in Orphans : At(o, "idle")'
  BY <1>1, <1>2 DEF Keep, Orphans, At
<1> QED BY <1>2, <1>6, <1>7, <1>8, <1>9 DEF Keep

\* A thread that sends a request, waits, or has its answer: no session is new
\* to it.
LEMMA KeepThread ==
  ASSUME BaseInv, Keep, NEW h \in Threads, Quiet, jar' = jar, OnlyCall(h),
         \A t \in Tabs : tab'[t].refresh = "sent" <=> tab[t].refresh = "sent",
         \A i \in Threads \ {h} : thread'[i] = thread[i],
         ~SignedUp(h)', KindKept(h)'
  PROVE  Keep'
<1>1. /\ \A t \in Tabs : call'[t] = call[t]
      /\ \A o \in Orphans : call'[o] = call[o]
      /\ \A i \in Threads \ {h} : call'[i] = call[i]
  BY ClientFacts DEF OnlyCall, Orphans
<1>2. ASSUME NEW i \in Threads
      PROVE  /\ KindKept(i)'
             /\ SignedUp(i)' => /\ SignedUp(i) /\ call'[i].sid = call[i].sid
                                /\ call'[i].gen = call[i].gen
  BY <1>1 DEF Keep, KindKept, SignedUp, At
<1>3. session' = session /\ detected' = {}
  BY DEF Quiet, Keep
<1>4. ASSUME NEW t \in Tabs
      PROVE  /\ tab'[t].refresh = "sent" <=> tab[t].refresh = "sent"
             /\ call'[t].sid = call[t].sid /\ call'[t].gen = call[t].gen
             /\ tab[t].refresh = "sent" =>
                  /\ At(t, "ok")' <=> At(t, "ok")
                  /\ call'[t].pc \in Presenting => call[t].pc \in Presenting
  BY <1>1 DEF At
<1>5. \A o \in Orphans : At(o, "idle")'
  BY <1>1 DEF Keep, At
<1> QED BY <1>2, <1>3, <1>4, <1>5, KeepFrame

LEMMA KeepSignedIn ==
  ASSUME BaseInv, Keep, NEW h \in Threads, SignedIn(h)
  PROVE  Keep'
<1> DEFINE k0 == KindOf[TabOf[h]]
<1>1. /\ Quiet /\ TabsWait /\ OnlyCall(h) /\ call'[h] = NoCall
      /\ At(h, "ok") => jar' = [jar EXCEPT ![k0] = Token(h)]
      /\ ~At(h, "ok") => jar' = jar
      /\ thread[h] \in {"signing", "redirected"} /\ thread'[h] = "idle"
      /\ \A i \in Threads \ {h} : thread'[i] = thread[i]
  BY SignedInFacts DEF ThreadMoves
<1>2. k0 \in Kinds /\ h \in Callers /\ jar \in [Kinds -> Tokens \cup {None}]
  BY ClientFacts DEF BaseInv, TypeOK, ClientTypeOK
<1> HIDE DEF k0
<1>3. ~SignedUp(h)' /\ KindKept(h)'
  BY <1>1 DEF SignedUp, KindKept
<1>4. \A t \in Tabs : tab'[t].refresh = tab[t].refresh
  BY <1>1 DEF TabsWait
<1>5. CASE ~At(h, "ok")
  BY <1>1, <1>3, <1>4, <1>5, KeepThread
<1>6. CASE At(h, "ok")
  <2>1. /\ jar'[k0] = Token(h)
        /\ \A k \in Kinds \ {k0} : jar'[k] = jar[k]
    BY <1>1, <1>2, <1>6
  <2>2. SignedUp(h) /\ SignedUpAlone(h)
    BY <1>1, <1>6 DEF SignedUp, Keep
  <2>3. /\ session[call[h].sid].gen = call[h].gen
        /\ session[call[h].sid].kind = k0
    BY <2>2 DEF SignedUpAlone, k0
  <2>4. /\ \A t \in Tabs : call'[t] = call[t]
        /\ \A o \in Orphans : call'[o] = call[o]
        /\ \A i \in Threads \ {h} : call'[i] = call[i] /\ thread'[i] = thread[i]
        /\ session' = session /\ detected' = detected
    BY <1>1, ClientFacts DEF OnlyCall, Orphans, Quiet
  <2>5. ASSUME NEW t \in Tabs  PROVE RefreshHolds(t)'
    BY <1>4, <2>4 DEF Keep, RefreshHolds, Refreshing
  <2>6. ASSUME NEW k \in Kinds  PROVE JarHolds(k)'
    <3>1. CASE k = k0
      BY <2>1, <2>3, <2>4, <3>1 DEF JarHolds, Token
    <3>2. CASE k # k0
      <4>1. jar'[k] = jar[k]
        BY <2>1, <3>2
      <4>2. \A t \in Tabs : Replaces(t, k) => Replaces(t, k)'
        BY <1>4, <2>4, <4>1 DEF Replaces, At
      <4> QED BY <2>4, <4>1, <4>2 DEF Keep, JarHolds
    <3> QED BY <3>1, <3>2
  <2>7. ASSUME NEW i \in Threads  PROVE SignedUpAlone(i)' /\ KindKept(i)'
    <3>1. CASE i = h
      BY <1>3, <3>1 DEF SignedUpAlone
    <3>2. CASE i # h
      <4>1. SignedUp(i)' => SignedUp(i) /\ call[h].sid # call[i].sid
        BY <2>2, <2>4, <3>2 DEF SignedUp, At, SignedUpAlone
      <4>2. \A k \in Kinds : jar'[k] = jar[k] \/ jar'[k][1] = call[h].sid
        BY <2>1 DEF Token
      <4>3. \A j \in Threads \ {i} : SignedUp(j)' => SignedUp(j) /\ call'[j] = call[j]
        BY <1>3, <2>4 DEF SignedUp, At
      <4>4. SignedUpAlone(i)'
        <5> SUFFICES ASSUME SignedUp(i)'  PROVE SignedUpAlone(i)'
            BY DEF SignedUpAlone
        <5>1. SignedUpAlone(i) /\ SignedUp(i) /\ call'[i] = call[i]
          BY <2>4, <3>2, <4>1 DEF Keep
        <5> QED BY <2>4, <4>1, <4>2, <4>3, <5>1 DEF SignedUpAlone
      <4> QED BY <2>4, <3>2, <4>4 DEF Keep, KindKept, At
    <3> QED BY <3>1, <3>2
  <2>8. \A o \in Orphans : At(o, "idle")'
    BY <2>4 DEF Keep, At
  <2> QED BY <2>4, <2>5, <2>6, <2>7, <2>8 DEF Keep
<1> QED BY <1>5, <1>6

LEMMA KeepThreads ==
  ASSUME BaseInv, Keep, NEW h \in Threads, ThreadActs(h)
  PROVE  Keep'
<1> USE DEF ThreadMoves
<1>1. CASE SignIn(h)
  <2>1. /\ Quiet /\ UNCHANGED <<jar, tab>> /\ OnlyCall(h)
        /\ call'[h].pc \in Signing /\ call'[h].kind = KindOf[TabOf[h]]
        /\ \A i \in Threads \ {h} : thread'[i] = thread[i]
    BY <1>1, SignInFacts
  <2>2. ~SignedUp(h)' /\ KindKept(h)'
    BY <2>1 DEF SignedUp, KindKept, At, Signing
  <2> QED BY <2>1, <2>2, KeepThread
<1>2. CASE Request(h)
  <2>1. /\ Quiet /\ UNCHANGED <<jar, tab>> /\ OnlyCall(h) /\ thread'[h] = "sent"
        /\ \A i \in Threads \ {h} : thread'[i] = thread[i]
    BY <1>2, RequestFacts
  <2>2. ~SignedUp(h)' /\ KindKept(h)'
    BY <2>1 DEF SignedUp, KindKept
  <2> QED BY <2>1, <2>2, KeepThread
<1>3. CASE Load(h) \/ Answered(h)
  <2>1. /\ Quiet /\ UNCHANGED jar /\ OnlyCall(h) /\ thread'[h] \in {"idle", "waiting"}
        /\ \A i \in Threads \ {h} : thread'[i] = thread[i]
        /\ TabAsked(TabOf[h]) \/ UNCHANGED tab
    BY <1>3, LoadFacts, AnsweredFacts DEF OnlyCall
  <2>2. \A t \in Tabs : tab'[t].refresh = "sent" <=> tab[t].refresh = "sent"
    BY <2>1, ClientFacts DEF TabAsked, OthersStay
  <2>3. ~SignedUp(h)' /\ KindKept(h)'
    BY <2>1 DEF SignedUp, KindKept
  <2> QED BY <2>1, <2>2, <2>3, KeepThread
<1> QED BY <1>1, <1>2, <1>3, KeepSignedIn DEF ThreadActs

\* A tab sends its token: a refresh finds it current.
LEMMA KeepSent ==
  ASSUME BaseInv, Keep, NEW t \in Tabs, SendRefresh(t) \/ SendLogout(t)
  PROVE  Keep'
<1>1. /\ Quiet /\ UNCHANGED <<jar, thread>> /\ OthersStay(t) /\ OnlyCall(t)
      /\ LockFree(t) /\ tab[t].refresh # "sent"
      /\ tab'[t].refresh = "sent" =>
           call'[t].pc = "denied" \/ (Jar(t) # None /\ call'[t].gen = Jar(t)[2])
      /\ call'[t].sid = IF Jar(t) = None THEN None ELSE Jar(t)[1]
  <2>1. CASE SendRefresh(t)
    BY <2>1, SendRefreshFacts DEF JarSent
  <2>2. CASE SendLogout(t)
    <3>1. tab[t].refresh = "none"
      BY <2>2 DEF SendLogout, BaseInv, PlaceInv, TabPlace
    <3> QED BY <2>2, <3>1, SendLogoutFacts DEF JarSent
  <2> QED BY <2>1, <2>2
<1>2. /\ session' = session /\ detected' = {}
      /\ \A u \in Tabs \ {t} : call'[u] = call[u] /\ tab'[u] = tab[u]
      /\ \A h \in Threads : call'[h] = call[h]
      /\ \A o \in Orphans : call'[o] = call[o]
  BY <1>1, CallsApart DEF Quiet, Keep, OthersStay
<1>3. KindOf[t] \in Kinds /\ t \in Callers
  BY ClientFacts
<1>4. ASSUME NEW u \in Tabs, KindOf[u] = KindOf[t]
      PROVE  tab[u].refresh # "sent"
  <2> SUFFICES ASSUME tab[u].refresh = "sent"  PROVE FALSE
      OBVIOUS
  <2>1. u # t
    BY <1>1
  <2>2. CASE Web(t)
    BY <1>1, <1>4, <2>2, ClientFacts
       DEF BaseInv, PlaceInv, TabPlace, Web, LockFree
  <2>3. CASE ~Web(t)
    BY <1>3, <1>4, <2>1, <2>3, ClientConstants DEF Web, Kinds
  <2> QED BY <2>2, <2>3
<1>5. Jar(t) # None => /\ session[Jar(t)[1]].kind = KindOf[t]
                       /\ session[Jar(t)[1]].gen = Jar(t)[2]
  <2>1. JarHolds(KindOf[t])
    BY <1>3 DEF Keep
  <2>2. \A u \in Tabs : ~Replaces(u, KindOf[t])
    BY <1>4 DEF Replaces
  <2> QED BY <2>1, <2>2 DEF JarHolds, Jar
<1>6. ASSUME NEW u \in Tabs  PROVE RefreshHolds(u)'
  <2>1. CASE u = t
    <3> SUFFICES ASSUME Refreshing(t)'
                 PROVE  /\ session[call'[t].sid].kind = KindOf[t]
                        /\ session[call'[t].sid].gen = call'[t].gen
        BY <1>2, <2>1 DEF RefreshHolds
    <3>1. Jar(t) # None /\ call'[t].gen = Jar(t)[2]
      BY <1>1 DEF Refreshing, Presenting
    <3> QED BY <1>1, <1>5, <3>1
  <2>2. CASE u # t
    BY <1>2, <2>2 DEF Keep, RefreshHolds, Refreshing
  <2> QED BY <2>1, <2>2
<1>7. ASSUME NEW k \in Kinds  PROVE JarHolds(k)'
  <2>1. \A u \in Tabs : Replaces(u, k) => Replaces(u, k)'
    BY <1>1, <1>2 DEF Replaces, At
  <2> QED BY <1>1, <1>2, <2>1 DEF Keep, JarHolds
<1>8. ASSUME NEW h \in Threads  PROVE SignedUpAlone(h)' /\ KindKept(h)'
  <2>1. SignedUp(h) => call[h].sid # None
    BY DEF BaseInv, NameInv
  <2>2. SignedUp(h) => call'[t].sid # call[h].sid
    BY <1>1, <1>3, <2>1 DEF Keep, SignedUpAlone, Jar
  <2>3. SignedUpAlone(h)'
    BY <1>1, <1>2, <2>2 DEF Keep, SignedUpAlone, SignedUp, At
  <2> QED BY <1>1, <1>2, <2>3 DEF Keep, KindKept, At
<1>9. \A o \in Orphans : At(o, "idle")'
  BY <1>2 DEF Keep, At
<1> QED BY <1>2, <1>6, <1>7, <1>8, <1>9 DEF Keep

LEMMA KeepRefreshed ==
  ASSUME BaseInv, Keep, NEW t \in Tabs, Refreshed(t)
  PROVE  Keep'
<1> DEFINE k0 == KindOf[t]
<1>1. /\ Quiet /\ tab[t].refresh = "sent" /\ At(t, "ok")
      /\ OthersStay(t) /\ tab'[t].refresh = "none"
      /\ jar' = [jar EXCEPT ![k0] = Token(t)]
      /\ call'[t] = NoCall
      /\ \A h \in Waiting(t) : thread'[h] = "again"
      /\ \A c \in Callers \ ({t} \cup Waiting(t)) : call'[c] = call[c]
      /\ \A h \in Threads \ Waiting(t) : thread'[h] = thread[h]
  BY RefreshedFacts
<1>2. k0 \in Kinds /\ t \in Callers /\ jar \in [Kinds -> Tokens \cup {None}]
  BY ClientFacts DEF BaseInv, TypeOK, ClientTypeOK
<1>3. jar'[k0] = Token(t) /\ \A k \in Kinds \ {k0} : jar'[k] = jar[k]
  BY <1>1, <1>2
<1>4. k0 = KindOf[t]
  OBVIOUS
<1> HIDE DEF k0
<1>5. /\ session' = session /\ detected' = {}
      /\ \A u \in Tabs \ {t} : call'[u] = call[u] /\ tab'[u] = tab[u]
      /\ \A o \in Orphans : call'[o] = call[o]
      /\ \A h \in Threads : \/ call'[h] = call[h] /\ thread'[h] = thread[h]
                            \/ thread'[h] = "again"
  BY <1>1, ClientFacts DEF Quiet, Keep, OthersStay, Orphans, Waiting
<1>6. ASSUME NEW u \in Tabs  PROVE RefreshHolds(u)'
  <2>1. CASE u = t
    BY <1>1, <2>1 DEF RefreshHolds, Refreshing
  <2>2. CASE u # t
    BY <1>5, <2>2 DEF Keep, RefreshHolds, Refreshing
  <2> QED BY <2>1, <2>2
<1>7. ASSUME NEW k \in Kinds  PROVE JarHolds(k)'
  <2>1. CASE k = k0
    <3>1. Refreshing(t) /\ RefreshHolds(t)
      BY <1>1 DEF Refreshing, At, Keep
    <3> QED BY <1>3, <1>4, <1>5, <2>1, <3>1 DEF RefreshHolds, JarHolds, Token
  <2>2. CASE k # k0
    <3>1. \A u \in Tabs : Replaces(u, k) => Replaces(u, k)'
      BY <1>3, <1>4, <1>5, <2>2 DEF Replaces, At
    <3> QED BY <1>3, <1>5, <2>2, <3>1 DEF Keep, JarHolds
  <2> QED BY <2>1, <2>2
<1>8. ASSUME NEW h \in Threads  PROVE SignedUpAlone(h)' /\ KindKept(h)'
  <2>1. CASE thread'[h] = "again"
    BY <2>1 DEF SignedUpAlone, SignedUp, KindKept
  <2>2. CASE call'[h] = call[h] /\ thread'[h] = thread[h]
    <3>1. SignedUp(h) => call[h].sid # None /\ call[t].sid # call[h].sid
      BY DEF BaseInv, NameInv, Keep, SignedUpAlone
    <3>2. \A k \in Kinds : jar'[k] = jar[k] \/ jar'[k][1] = call[t].sid
      BY <1>3 DEF Token
    <3>3. call'[t].sid = None
      BY <1>1 DEF NoCall
    <3>4. \A i \in Threads : SignedUp(i)' => SignedUp(i) /\ call'[i] = call[i]
      BY <1>5 DEF SignedUp, At
    <3>5. SignedUpAlone(h)'
      <4> SUFFICES ASSUME SignedUp(h)'  PROVE SignedUpAlone(h)'
          BY DEF SignedUpAlone
      <4>1. SignedUp(h) /\ SignedUpAlone(h)
        BY <3>4 DEF Keep
      <4> QED
        BY <1>5, <2>2, <3>1, <3>2, <3>3, <3>4, <4>1 DEF SignedUpAlone
    <3> QED BY <2>2, <3>5 DEF Keep, KindKept, At
  <2> QED BY <1>5, <2>1, <2>2
<1>9. \A o \in Orphans : At(o, "idle")'
  BY <1>5 DEF Keep, At
<1> QED BY <1>5, <1>6, <1>7, <1>8, <1>9 DEF Keep

\* A tab that was refused, or has logged out.
LEMMA KeepClosed ==
  ASSUME BaseInv, Keep, NEW t \in Tabs,
         RefreshRefused(t) \/ LoggedOut(t) \/ LogoutLost(t)
  PROVE  Keep'
<1>1. /\ Quiet /\ OthersStay(t) /\ OnlyCall(t) /\ call'[t] = NoCall
      /\ tab'[t].refresh # "sent"
      /\ tab[t].refresh = "sent" => At(t, "denied")
      /\ \A k \in Kinds : jar'[k] \in {jar[k], None}
      /\ \A h \in Threads : thread'[h] \in {thread[h], "idle"}
  <2>1. CASE RefreshRefused(t)
    BY <2>1, RefreshRefusedFacts DEF GivenUp
  <2>2. CASE LoggedOut(t) \/ LogoutLost(t)
    <3>1. tab[t].leaving = "sent" /\ tab'[t].refresh = tab[t].refresh
      BY <2>2, LoggedOutFacts
    <3>2. tab[t].refresh = "none"
      BY <3>1 DEF BaseInv, PlaceInv, TabPlace
    <3> QED BY <2>2, <3>1, <3>2, LoggedOutFacts
  <2> QED BY <2>1, <2>2
<1>2. /\ session' = session /\ detected' = {}
      /\ \A u \in Tabs \ {t} : call'[u] = call[u] /\ tab'[u] = tab[u]
      /\ \A h \in Threads : call'[h] = call[h]
      /\ \A o \in Orphans : call'[o] = call[o]
      /\ call'[t].sid = None
  BY <1>1, CallsApart DEF Quiet, Keep, OthersStay, NoCall
<1>3. ASSUME NEW u \in Tabs  PROVE RefreshHolds(u)'
  <2>1. CASE u = t
    BY <1>1, <2>1 DEF RefreshHolds, Refreshing
  <2>2. CASE u # t
    BY <1>2, <2>2 DEF Keep, RefreshHolds, Refreshing
  <2> QED BY <2>1, <2>2
<1>4. ASSUME NEW k \in Kinds  PROVE JarHolds(k)'
  <2> SUFFICES ASSUME jar'[k] # None  PROVE JarHolds(k)'
      BY DEF JarHolds
  <2>1. jar'[k] = jar[k]
    BY <1>1
  <2>2. \A u \in Tabs : Replaces(u, k) => Replaces(u, k)'
    BY <1>1, <1>2, <2>1 DEF Replaces, At
  <2> QED BY <1>2, <2>1, <2>2 DEF Keep, JarHolds
<1>5. ASSUME NEW h \in Threads  PROVE SignedUpAlone(h)' /\ KindKept(h)'
  <2>1. \A i \in Threads : SignedUp(i)' => SignedUp(i)
    BY <1>1, <1>2 DEF SignedUp, At
  <2>2. SignedUp(h) => call[h].sid # None
    BY DEF BaseInv, NameInv
  <2>3. SignedUpAlone(h)'
    <3> SUFFICES ASSUME SignedUp(h)'  PROVE SignedUpAlone(h)'
        BY DEF SignedUpAlone
    <3>1. SignedUp(h) /\ SignedUpAlone(h) /\ call'[h] = call[h]
      BY <1>2, <2>1 DEF Keep
    <3> QED BY <1>1, <1>2, <2>1, <2>2, <3>1 DEF SignedUpAlone
  <2> QED BY <1>1, <1>2, <2>3 DEF Keep, KindKept, At
<1>6. \A o \in Orphans : At(o, "idle")'
  BY <1>2 DEF Keep, At
<1> QED BY <1>2, <1>3, <1>4, <1>5, <1>6 DEF Keep

\* A step that leaves requests, tokens and refreshes alone.
LEMMA KeepSame ==
  ASSUME BaseInv, Keep, UNCHANGED <<jar, call, thread, detected>>,
         \A s \in Sids : /\ session'[s].gen = session[s].gen
                         /\ session'[s].kind = session[s].kind,
         \A t \in Tabs : tab'[t].refresh = tab[t].refresh
  PROVE  Keep'
<1>1. /\ \A h \in Threads : KindKept(h)' /\ (SignedUp(h)' => SignedUp(h))
      /\ \A o \in Orphans : At(o, "idle")'
      /\ detected' = {}
  BY DEF Keep, KindKept, SignedUp, At
<1>2. ASSUME NEW t \in Tabs
      PROVE  /\ tab'[t].refresh = "sent" <=> tab[t].refresh = "sent"
             /\ call'[t].sid = call[t].sid /\ call'[t].gen = call[t].gen
             /\ tab[t].refresh = "sent" =>
                  /\ At(t, "ok")' <=> At(t, "ok")
                  /\ call'[t].pc \in Presenting => call[t].pc \in Presenting
  BY DEF At
<1> QED BY <1>1, <1>2, KeepFrame

LEMMA KeepTabs ==
  ASSUME BaseInv, Keep, NEW t \in Tabs, TabActs(t), ~RefreshLost(t)
  PROVE  Keep'
<1>1. CASE Logout(t) \/ AwaitRefresh(t) \/ AccessExpires(t)
  <2>1. /\ Quiet /\ UNCHANGED <<jar, thread, call>> /\ OthersStay(t)
        /\ tab'[t].refresh = tab[t].refresh
    BY <1>1, LogoutFacts, AccessExpiresFacts
  <2>2. \A u \in Tabs : tab'[u].refresh = tab[u].refresh
    BY <2>1 DEF OthersStay
  <2> QED BY <2>1, <2>2, KeepSame DEF Quiet
<1> QED
  BY <1>1, KeepSent, KeepRefreshed, KeepClosed DEF TabActs, ClientStep

LEMMA KeepSteps ==
  ASSUME Inv, Keep, [Next]_vars, ~lost'
  PROVE  Keep'
<1>0. BaseInv
  BY DEF Inv
<1>1. CASE (\E c \in Callers : /\ ServerStep(c) \/ ServerChoice(c)
                               /\ MoveOf(c)) /\ UNCHANGED clientVars
  BY <1>0, <1>1, KeepWalks, KeepCreates, KeepRotates DEF MoveOf
<1>2. CASE Outside /\ UNCHANGED clientVars
  <2>1. \A s \in Sids : /\ session'[s].gen = session[s].gen
                        /\ session'[s].kind = session[s].kind
    BY <1>0, <1>2, AgesFacts DEF Outside, BaseInv, TypeOK
  <2> QED BY <1>0, <1>2, <2>1, KeepSame DEF Outside, clientVars
<1>3. ASSUME NEW h \in Threads, ThreadActs(h)  PROVE Keep'
  BY <1>0, <1>3, KeepThreads
<1>4. ASSUME NEW t \in Tabs, TabActs(t)  PROVE Keep'
  <2>1. ~RefreshLost(t)
    BY DEF RefreshLost
  <2> QED BY <1>0, <1>4, <2>1, KeepTabs
<1>5. ASSUME UNCHANGED vars  PROVE Keep'
  <2>1. UNCHANGED <<jar, call, thread, detected, session, tab>>
    BY <1>5 DEF vars, serverVars, clientVars
  <2> QED BY <1>0, <2>1, KeepSame
<1> QED BY <1>1, <1>2, <1>3, <1>4, <1>5, Steps

\* An answer that is lost stays lost.
LEMMA LostStays ==
  ASSUME Inv, [Next]_vars, lost
  PROVE  lost'
<1>0. BaseInv
  BY DEF Inv
<1>1. ASSUME NEW h \in Threads, ThreadActs(h)  PROVE lost'
  BY <1>0, <1>1, SignInFacts, SignedInFacts, RequestFacts, LoadFacts,
     AnsweredFacts DEF ThreadActs
<1>2. ASSUME NEW t \in Tabs, TabActs(t)  PROVE lost'
  BY <1>0, <1>2, SendRefreshFacts, SendLogoutFacts, RefreshedFacts,
     RefreshRefusedFacts, RefreshLostFacts, LogoutFacts, LoggedOutFacts,
     AccessExpiresFacts DEF TabActs, ClientStep, JarSent
<1> QED BY <1>1, <1>2, Steps DEF vars, clientVars

LEMMA KeepInits == Init => Keep
  BY ClientFacts
     DEF Init, ServerInit, ClientInit, Keep, RefreshHolds, Refreshing, JarHolds,
         SignedUpAlone, SignedUp, KindKept, At, NoCall, Orphans

\* As long as no answer is lost, no client presents a superseded token.
THEOREM NoFalseReuse == Spec => []ClientsNeverReuse
<1>1. Init => KeepInv
  BY KeepInits DEF KeepInv
<1>2. Inv /\ KeepInv /\ [Next]_vars => KeepInv'
  BY KeepSteps, LostStays DEF KeepInv
<1>3. KeepInv => ClientsNeverReuse
  BY DEF KeepInv, Keep, ClientsNeverReuse
<1> QED BY <1>1, <1>2, <1>3, Invariant, PTL DEF Spec

=============================================================================
