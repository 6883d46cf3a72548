-------------------------- MODULE CircuitBreaker --------------------------
(***************************************************************************)
(* The circuit breakers apps/api keeps in the memory of one process around *)
(* the calls to one external service: AIProviderFactory (one per paid      *)
(* provider), PartnerApiClient (one per host) and DahlCareerChatProvider.  *)
(* They differ in a policy, chosen when the process starts.  The check      *)
(* before a call and the bookkeeping after it each run without an await,   *)
(* so each is one action; calls overlap between them.                      *)
(***************************************************************************)
EXTENDS Integers

CONSTANTS
  Calls,     \* calls that may be in flight at once
  Policies,  \* the policies of the breakers under study
  MaxClock   \* bound: the clock stops here

\* threshold: *_CIRCUIT_BREAKER_FAILURE_THRESHOLD.  reset:
\* *_CIRCUIT_BREAKER_RESET_MS.  timeout: the longest a call may take before it
\* is aborted.  fromStart: does the cooldown count from the start of the
\* failed call (AIProviderFactory) or from its end (the others)?  singleProbe:
\* is a tripped service tried by one call at a time (AIProviderFactory) or by
\* all (the others)?
Policy == [threshold: Nat \ {0}, reset: Nat \ {0}, timeout: Nat,
           fromStart: BOOLEAN, singleProbe: BOOLEAN]

ASSUME ConstantsAssumption == Policies \subseteq Policy /\ MaxClock \in Nat

VARIABLES
  policy,     \* the policy of this breaker
  clock,      \* Date.now()
  failures,   \* state.failures, consecutiveFailures
  openUntil,  \* state.openUntil, circuitOpenedAt + reset; 0 when closed
  probing,    \* state.probeInFlight
  call        \* what each call remembers

vars == <<policy, clock, failures, openUntil, probing, call>>

\* started: `now` of executeWithCircuitBreaker.  probe: did it set probing?
Call == [pc: {"idle", "calling"}, started: Int, probe: BOOLEAN]

TypeOK ==
  /\ policy \in Policies
  /\ clock \in Nat /\ failures \in Nat /\ openUntil \in Int
  /\ probing \in BOOLEAN
  /\ call \in [Calls -> Call]

Init ==
  /\ policy \in Policies
  /\ clock = 0 /\ failures = 0 /\ openUntil = 0 /\ probing = FALSE
  /\ call = [c \in Calls |-> [pc |-> "idle", started |-> 0, probe |-> FALSE]]

-----------------------------------------------------------------------------
InFlight(c) == call[c].pc = "calling"

Threshold   == policy.threshold
Reset       == policy.reset
Timeout     == policy.timeout
SingleProbe == policy.singleProbe

Tripped == failures >= Threshold

\* The check before a call: the circuit is closed or its cooldown has passed,
\* and a tripped service is not already being probed.
Admits ==
  /\ openUntil <= clock
  /\ ~(SingleProbe /\ Tripped /\ probing)

Begin(c) ==
  /\ ~InFlight(c)
  /\ Admits
  /\ call' = [call EXCEPT ![c] =
       [pc |-> "calling", started |-> clock, probe |-> SingleProbe /\ Tripped]]
  /\ probing' = (probing \/ (SingleProbe /\ Tripped))
  /\ UNCHANGED <<policy, clock, failures, openUntil>>

\* A call ends; the probe, if it was one, is over (finally).
Finish(c) ==
  /\ InFlight(c)
  /\ call' = [call EXCEPT ![c] =
                [pc |-> "idle", started |-> 0, probe |-> FALSE]]
  /\ probing' = (probing /\ ~call[c].probe)

Succeed(c) ==
  /\ Finish(c)
  /\ failures' = 0
  /\ openUntil' = 0
  /\ UNCHANGED <<policy, clock>>

\* The end of the cooldown that this failure leaves.
Cooldown(c) ==
  IF failures + 1 >= Threshold
    THEN (IF policy.fromStart THEN call[c].started ELSE clock) + Reset
    ELSE openUntil

Fail(c) ==
  /\ Finish(c)
  /\ failures' = failures + 1
  /\ openUntil' = Cooldown(c)
  /\ UNCHANGED <<policy, clock>>

\* Mutant: the probe flag is cleared by counted outcomes only.
LeaveAloneProbing(c) ==
  /\ InFlight(c)
  /\ call' = [call EXCEPT ![c] =
                [pc |-> "idle", started |-> 0, probe |-> FALSE]]
  /\ UNCHANGED <<policy, clock, failures, openUntil, probing>>

\* An end that says nothing about the service: the cost ledger failed
\* (AiAttemptRecordingError), the chat's token budget or the request was
\* refused.
LeaveAlone(c) ==
  /\ Finish(c)
  /\ UNCHANGED <<policy, clock, failures, openUntil>>

\* Time passes; a call that reached its timeout ends first.
Tick ==
  /\ clock < MaxClock
  /\ \A c \in Calls : InFlight(c) => clock - call[c].started < Timeout
  /\ clock' = clock + 1
  /\ UNCHANGED <<policy, failures, openUntil, probing, call>>

End(c) == Succeed(c) \/ Fail(c) \/ LeaveAlone(c)

Next == Tick \/ \E c \in Calls : Begin(c) \/ End(c)

Spec == Init /\ [][Next]_vars

\* Every call ends: the client aborts it at its timeout.
FairSpec == Spec /\ \A c \in Calls : WF_vars(End(c))

-----------------------------------------------------------------------------
\* At most one call probes a tripped service, and the flag that says so is up
\* exactly while one does, however calls from before and after the trip
\* succeed and fail around it.
ProbeIsSingle ==
  /\ probing <=> \E c \in Calls : InFlight(c) /\ call[c].probe
  /\ \A c, d \in Calls : call[c].probe /\ call[d].probe => c = d

\* A failure at or above the threshold leaves the circuit open: "the breaker
\* opens after a defined failure threshold, requests fail fast"
\* (docs/PRODUCT_SPEC.md).
OpensAtThreshold ==
  [][failures' > failures /\ failures' >= Threshold => openUntil' > clock]_vars

\* Where the cooldown counts from the end of the failed call, only a success
\* ends it early: the failure of an older call never shortens it.
CooldownIsKept ==
  [][~policy.fromStart /\ openUntil' < openUntil => failures' = 0]_vars

\* A probe never leaves the service locked out.
ProbeEnds == probing ~> ~probing

============================================================================
