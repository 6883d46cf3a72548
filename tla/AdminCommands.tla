---------------------------- MODULE AdminCommands ----------------------------
(***************************************************************************)
(* Commands of platform administrators.  AdminStepUpMfaService verifies a  *)
(* fresh code and issues a proof for one command; AdminMutationExecutor    *)
(* then consumes the proof, runs the command and writes its audit entry in *)
(* one transaction, at READ COMMITTED: others commit between the           *)
(* statements.                                                             *)
(***************************************************************************)
EXTENDS Sessions

CONSTANTS
  Desks,      \* requests of administrators in progress at once
  MaxCode,    \* bound: one-time codes, numbered by their time step
  FailLimit   \* failed verifications of one window

ASSUME AdminConstants == MaxCode \in Nat /\ FailLimit \in Nat \ {0}

Actions == {"suspend", "reactivate", "revoke", "revoke_all"}

\* StepUpBinding.  A session is revoked by its id, the rest is about a user.
Bindings == [actor: Admins, action: Actions, target: Users \cup Sids]

VARIABLES
  lastCode,  \* users.mfaLastUsedStep
  attempts,  \* admin_step_up_mfa_attempts: failures, and is it locked?
  proof,     \* admin_step_up_mfa_proofs: the proofs of each binding, numbered
  desk,      \* position and memory of each request
  audited    \* activity_logs: commands written, for each binding

adminVars == <<lastCode, attempts, proof, desk, audited>>

Desk == [pc: {"idle", "check", "verify", "issue", "fail", "consume",
              "command", "commit"},
         binding: Bindings \cup {None}, number: Nat]

Proofs == [issued: Nat, open: SUBSET Nat, used: SUBSET Nat]

AdminTypeOK ==
  /\ lastCode \in [Admins -> 0..MaxCode]
  /\ attempts \in [Bindings -> [fails: 0..FailLimit, locked: BOOLEAN]]
  /\ proof \in [Bindings -> Proofs]
  /\ desk \in [Desks -> Desk]
  /\ audited \in [Bindings -> Nat]

Away == [pc |-> "idle", binding |-> None, number |-> 0]

AdminInit ==
  /\ lastCode = [a \in Admins |-> 0]
  /\ attempts = [b \in Bindings |-> [fails |-> 0, locked |-> FALSE]]
  /\ proof = [b \in Bindings |-> [issued |-> 0, open |-> {}, used |-> {}]]
  /\ desk = [d \in Desks |-> Away]
  /\ audited = [b \in Bindings |-> 0]

-----------------------------------------------------------------------------
Sits(d, pc)  == desk[d].pc = pc
Turn(d, pc)  == desk' = [desk EXCEPT ![d].pc = pc]
Leave(d)     == desk' = [desk EXCEPT ![d] = Away]
B(d)         == desk[d].binding
Actor(d)     == B(d).actor
Target(d)    == B(d).target

serverSame == <<accounts, families, call, notes>>

\* The guards admit an active administrator to issue or to use a proof.
Open(d) ==
  /\ Event /\ Sits(d, "idle")
  /\ \E b \in Bindings :
       /\ user[b.actor].status = "active"
       /\ b.target \in IF b.action = "revoke" THEN Sids ELSE Users
       /\ \E n \in 0..proof[b].issued :
            desk' = [desk EXCEPT ![d] = [binding |-> b, number |-> n,
              pc |-> IF n = 0 THEN "check" ELSE "consume"]]
  /\ UNCHANGED <<lastCode, attempts, proof, audited, accounts, families, call,
                 loggedOut>>

\* issue: a locked binding is refused before the code is looked at.
CheckLock(d) ==
  /\ Sits(d, "check")
  /\ IF attempts[B(d)].locked THEN Leave(d) ELSE Turn(d, "verify")
  /\ UNCHANGED <<lastCode, attempts, proof, audited, serverSame>>

\* verifyAndConsumeEncryptedSecret: a code is good once, and no older one is
\* good after it.  Which codes are in the window of time is left open.
Verify(d) ==
  /\ Sits(d, "verify")
  /\ \/ \E n \in 1..MaxCode :
          /\ lastCode[Actor(d)] < n
          /\ lastCode' = [lastCode EXCEPT ![Actor(d)] = n]
          /\ Turn(d, "issue")
     \/ UNCHANGED lastCode /\ Turn(d, "fail")
  /\ UNCHANGED <<attempts, proof, audited, serverSame>>

\* The limit of one window is not exceeded.
CountFailed(a) ==
  IF a.fails < FailLimit THEN [fails |-> a.fails + 1, locked |-> TRUE] ELSE a

\* The serializable transaction after a wrong code: the failure is counted
\* although another request may have locked the binding meanwhile.
RecordFailure(d) ==
  /\ Sits(d, "fail")
  /\ attempts' = [attempts EXCEPT ![B(d)] = CountFailed(@)]
  /\ Leave(d)
  /\ UNCHANGED <<lastCode, proof, audited, serverSame>>

\* The one after a right code.
Issue(d) ==
  LET b == B(d) IN
  /\ Sits(d, "issue")
  /\ IF attempts[b].locked
       THEN UNCHANGED <<attempts, proof>>
       ELSE /\ attempts' = [attempts EXCEPT ![b] =
                 [fails |-> 0, locked |-> FALSE]]
            /\ proof' = [proof EXCEPT ![b].issued = @ + 1,
                 ![b].open = @ \cup {proof[b].issued + 1}]
  /\ Leave(d)
  /\ UNCHANGED <<lastCode, audited, serverSame>>

-----------------------------------------------------------------------------
N(d) == desk[d].number

\* A transaction that updated the row of a proof keeps others out of it.
RowLocked(b, n) ==
  \E e \in Desks :
    B(e) = b /\ N(e) = n /\ desk[e].pc \in {"command", "commit"}

\* The filter of consume: the proof is unused and has not expired.
ProofUsable(d) == N(d) \in proof[B(d)].open

Consume(d) ==
  /\ Sits(d, "consume") /\ ~RowLocked(B(d), N(d))
  /\ IF ProofUsable(d) THEN Turn(d, "command") ELSE Leave(d)
  /\ UNCHANGED <<lastCode, attempts, proof, audited, serverSame>>

OtherActiveAdmins(u) == {a \in Admins \ {u} : user[a].status = "active"}

\* The reads of the command.  A refusal rolls the transaction back.
Allowed(b) ==
  CASE b.action = "suspend" ->
         /\ b.actor # b.target /\ user[b.target].status = "active"
         /\ b.target \in Admins => OtherActiveAdmins(b.target) # {}
    [] b.action = "reactivate" -> b.actor # b.target
    [] b.action = "revoke" -> Live(b.target)
    [] b.action = "revoke_all" -> user[b.target].status # "absent"

Decide(d) ==
  /\ Sits(d, "command")
  /\ IF Allowed(B(d)) THEN Turn(d, "commit") ELSE Leave(d)
  /\ UNCHANGED <<lastCode, attempts, proof, audited, serverSame>>

\* The conditional update of the command still finds its row.
Applies(b) ==
  CASE b.action = "suspend"    -> user[b.target].status = "active"
    [] b.action = "reactivate" -> user[b.target].status = "suspended"
    [] b.action = "revoke"     -> Live(b.target)
    [] OTHER                   -> TRUE

Effect(b) ==
  /\ user' = CASE b.action = "suspend" ->
                    [user EXCEPT ![b.target].status = "suspended"]
               [] b.action = "reactivate" ->
                    [user EXCEPT ![b.target].status = "active"]
               [] OTHER -> user
  /\ EndAll(CASE b.action = "revoke" -> {b.target}
              [] b.action \in {"suspend", "revoke_all"} -> SessionsOf(b.target)
              [] OTHER -> {})

Spent(d) == [proof EXCEPT ![B(d)].open = @ \ {N(d)},
                          ![B(d)].used = @ \cup {N(d)}]

\* Mutant: the proof is consumed outside the transaction of the command.
SpendAnyway(d) == Spent(d)

\* The proof as the transaction leaves it.
Spend(d) == IF Applies(B(d)) THEN Spent(d) ELSE proof

\* Proof, effect and audit entry commit together or not at all.
Commit(d) ==
  LET b == B(d) IN
  /\ Sits(d, "commit")
  /\ proof' = Spend(d)
  /\ IF Applies(b)
       THEN /\ Effect(b)
            /\ audited' = [audited EXCEPT ![b] = @ + 1]
       ELSE UNCHANGED <<user, session, audited>>
  /\ Leave(d)
  /\ UNCHANGED <<lastCode, attempts, slots, worn, history, handoff, detected,
                 call, notes>>

-----------------------------------------------------------------------------
\* The backoff of a lock passes, or the window of the failures.
BackoffPasses(b) ==
  /\ attempts[b].fails > 0
  /\ \E n \in {0, attempts[b].fails} :
       attempts' = [attempts EXCEPT ![b] = [fails |-> n, locked |-> FALSE]]
  /\ UNCHANGED <<lastCode, proof, desk, audited, serverSame>>

\* The five minutes of a proof are over.
ProofExpires(b) ==
  /\ \E n \in proof[b].open :
       /\ ~RowLocked(b, n)
       /\ proof' = [proof EXCEPT ![b].open = @ \ {n}]
  /\ UNCHANGED <<lastCode, attempts, desk, audited, serverSame>>

DeskStep(d) ==
  \/ CheckLock(d) \/ Verify(d) \/ RecordFailure(d) \/ Issue(d)
  \/ Consume(d) \/ Decide(d) \/ Commit(d)

AdminEvent ==
  \/ \E d \in Desks : Open(d)
  \/ \E b \in Bindings : BackoffPasses(b) \/ ProofExpires(b)

=============================================================================
