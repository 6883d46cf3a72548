--------------------------- MODULE ProviderCalls ---------------------------
(***************************************************************************)
(* One AI request of a user in one process of apps/api, from AIService     *)
(* through PlanAwareAiRouter and AIProviderFactory to the cost ledger: the *)
(* unit of quota, the entitlement read before and after it is reserved,    *)
(* the order of providers with the circuit breaker of the first one, the   *)
(* ledger's intent before every call and its price after it.               *)
(***************************************************************************)
EXTENDS CircuitBreaker

CONSTANT MaxCrashes  \* bound on the deaths of the process

ASSUME CrashBound == MaxCrashes \in Nat

VARIABLES
  plan,     \* the boundary of the user's subscription row, or "none"
  crashes,
  req       \* what each request remembers

reqVars == <<plan, crashes, req>>

Boundaries == {"free", "paid"}

\* expected: expectedBoundary, or "any".  at: the provider it is at or ended
\* at.  unit: its unit of ai_requests.  began: the start of
\* completeWithFallback.  answers, costed: the calls that were answered, and
\* those the ledger has priced.  row: its aIRequest row.
Idle == [pc |-> "idle", expected |-> "any", at |-> "none", unit |-> "none",
         began |-> 0, answers |-> 0, costed |-> 0,
         row |-> FALSE]

Steps == {"idle", "reserved", "next", "intent", "invoking", "finalizing",
          "answered", "failing"}

CallTypeOK ==
  /\ TypeOK
  /\ plan \in Boundaries \cup {"none"}
  /\ crashes \in 0..MaxCrashes
  /\ req \in [Calls ->
       [pc: Steps, expected: Boundaries \cup {"any"},
        at: {"none", "primary", "fallback", "glm"},
        unit: {"none", "held", "lost"}, began: Nat,
        answers: 0..2, costed: 0..2, row: BOOLEAN]]

CallInit ==
  /\ Init
  /\ plan = "paid" /\ crashes = 0
  /\ req = [c \in Calls |-> Idle]

-----------------------------------------------------------------------------
At(c, step) == req[c].pc = step

Set(c, r) ==
  /\ req' = [req EXCEPT ![c] = r]
  /\ UNCHANGED <<plan, crashes>>

Goto(c, step) == Set(c, [req[c] EXCEPT !.pc = step])

\* What is left of a request that is over.
Over(c) == [Idle EXCEPT !.unit = req[c].unit]

\* A request in the breaker leaves it by `outcome`; another one is not in it.
Leaves(c, outcome) ==
  IF req[c].at = "primary" THEN outcome ELSE UNCHANGED vars

\* complete: with the consent and a first entitlement, one unit of the quota
\* is reserved; a request that does not get it ends here.
Ask(c) ==
  /\ At(c, "idle") /\ plan # "none"
  /\ \E e \in Boundaries \cup {"any"} :
       Set(c, [Idle EXCEPT !.pc = "reserved", !.expected = e, !.unit = "held"])
  /\ UNCHANGED vars

\* Mutant: the boundary is taken from the entitlement alone.
Allowed(c) == plan # "none"

\* The second entitlement: trusted, and of the boundary the caller signed.
Executable(c) ==
  plan # "none" /\ (req[c].expected = "any" \/ req[c].expected = plan)

Refused(c) ==
  /\ At(c, "reserved") /\ ~Executable(c)
  /\ Goto(c, "failing") /\ UNCHANGED vars

\* A free user's request goes to GLM, unless it is not ready.
RouteFree(c) ==
  /\ At(c, "reserved") /\ Executable(c) /\ plan = "free"
  /\ \/ Set(c, [req[c] EXCEPT !.pc = "intent", !.at = "glm", !.began = clock])
     \/ Goto(c, "failing")
  /\ UNCHANGED vars

\* A paid one goes to the first provider of the order, unless its breaker or
\* its configuration refuses the call.
RoutePaid(c) ==
  /\ At(c, "reserved") /\ Executable(c) /\ plan = "paid"
  /\ \/ Begin(c) /\ Set(c, [req[c] EXCEPT !.pc = "intent", !.at = "primary",
                                           !.began = clock])
     \/ UNCHANGED vars /\ Set(c, [req[c] EXCEPT !.pc = "next", !.at = "primary",
                                                !.began = clock])

\* The next provider, unless the deadline has passed, the estimated cost is
\* over the budget, or its own breaker or configuration refuses it.
Fallback(c) ==
  /\ At(c, "next")
  /\ \/ /\ clock < req[c].began + Timeout
        /\ Set(c, [req[c] EXCEPT !.pc = "intent", !.at = "fallback"])
     \/ Goto(c, "failing")
  /\ UNCHANGED vars

\* beginAttempt: the intent is durable before the provider is called.
OpenIntent(c) ==
  /\ At(c, "intent")
  /\ \/ Goto(c, "invoking") /\ UNCHANGED vars
     \/ Goto(c, "failing") /\ Leaves(c, LeaveAlone(c))

ProviderAnswers(c) ==
  /\ At(c, "invoking")
  /\ Set(c, [req[c] EXCEPT !.pc = "finalizing", !.answers = @ + 1])
  /\ UNCHANGED vars

\* The provider fails or is aborted: the next one is tried after the first.
ProviderFails(c) ==
  /\ At(c, "invoking")
  /\ Goto(c, IF req[c].at = "primary" THEN "next" ELSE "failing")
  /\ Leaves(c, Fail(c))

\* Mutant: a ledger that fails is taken for a provider that fails.
AfterRecordingAny(c) == IF req[c].at = "primary" THEN "next" ELSE "failing"

\* AiAttemptRecordingError is rethrown past the other providers.
AfterRecordingError(c) == "failing"

\* finalizeAttempt: the answer's price is recorded, or the call fails.
Price(c) ==
  /\ At(c, "finalizing")
  /\ \/ /\ Set(c, [req[c] EXCEPT !.pc = "answered", !.costed = @ + 1])
        /\ Leaves(c, Succeed(c))
     \/ Goto(c, AfterRecordingError(c)) /\ Leaves(c, LeaveAlone(c))

\* aIRequest.create: the answer is returned, or the request fails after all.
Record(c) ==
  /\ At(c, "answered")
  /\ \/ Set(c, [Over(c) EXCEPT !.row = TRUE, !.costed = req[c].costed])
     \/ Goto(c, "failing")
  /\ UNCHANGED vars

\* Mutant: a request that a provider has answered keeps its unit.
UnitUnanswered(c) == IF req[c].answers = 0 THEN "none" ELSE req[c].unit

UnitAfter(c) == "none"

\* The catch block: the unit is given back, or that fails as well.
GiveBack(c) ==
  /\ At(c, "failing")
  /\ \/ Set(c, [Over(c) EXCEPT !.unit = UnitAfter(c)])
     \/ Set(c, [Over(c) EXCEPT !.unit = "lost"])
  /\ UNCHANGED vars

\* Billing writes the subscription row.
PlanChanges ==
  /\ plan' \in (Boundaries \cup {"none"}) \ {plan}
  /\ UNCHANGED <<vars, crashes, req>>

\* The process dies: its breakers start closed, its requests keep their unit.
Crash ==
  /\ crashes < MaxCrashes /\ crashes' = crashes + 1
  /\ failures' = 0 /\ openUntil' = 0 /\ probing' = FALSE
  /\ call' = [c \in Calls |-> [pc |-> "idle", started |-> 0, probe |-> FALSE]]
  /\ req' = [c \in Calls |->
       IF At(c, "idle") THEN req[c]
       ELSE [Over(c) EXCEPT !.unit = IF @ = "held" THEN "lost" ELSE @]]
  /\ UNCHANGED <<policy, clock, plan>>

\* Every provider call is aborted at the request's deadline.
CallTick ==
  /\ Tick
  /\ \A c \in Calls : At(c, "invoking") => clock < req[c].began + Timeout
  /\ UNCHANGED reqVars

RequestStep(c) ==
  \/ Ask(c) \/ Refused(c) \/ RouteFree(c) \/ RoutePaid(c)
  \/ Fallback(c) \/ OpenIntent(c) \/ ProviderAnswers(c) \/ ProviderFails(c)
  \/ Price(c) \/ Record(c) \/ GiveBack(c)

CallNext == CallTick \/ PlanChanges \/ Crash \/ \E c \in Calls : RequestStep(c)

allVars == <<vars, reqVars>>

\* The steps that end what a request is waiting for: the ledger's statements
\* settle, and the client aborts the call at its deadline.
Settle(c) == OpenIntent(c) \/ ProviderAnswers(c) \/ ProviderFails(c) \/ Price(c)

CallSpec ==
  /\ CallInit /\ [][CallNext]_allVars
  /\ \A c \in Calls : WF_allVars(Settle(c))

-----------------------------------------------------------------------------
\* No request is answered, or paid for, twice, and an answer reaches its caller
\* only with its price on the ledger: when the ledger fails after a provider has
\* answered, the request neither asks another one nor succeeds.
AnsweredOnce ==
  \A c \in Calls : req[c].answers <= 1 /\ (req[c].row => req[c].costed = 1)

\* A request that is over has kept its unit exactly if it returned an answer;
\* a unit is lost only by a failed release or a crash.
UnitsPayForAnswers ==
  \A c \in Calls : At(c, "idle") => (req[c].unit = "held" <=> req[c].row)

\* A job signed for one boundary is never sent to the providers of the other,
\* however the subscription changes while it waits: "so it cannot silently
\* cross from its signed queue into another provider path"
\* (ai.service.ts:93-96).
BoundaryIsKept ==
  \A c \in Calls : req[c].at # "none" /\ req[c].expected # "any" =>
    (req[c].at = "glm" <=> req[c].expected = "free")

============================================================================
