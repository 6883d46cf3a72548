----------------------- MODULE ProviderCalls_proofs -----------------------
(***************************************************************************)
(* Proofs about a circuit breaker and the two kinds of calls behind one,   *)
(* AI requests and answers of the career chat, for any number of           *)
(* overlapping calls and any policy.                                       *)
(***************************************************************************)
EXTENDS ProviderCalls, ChatCalls, FiniteSetTheorems, TLAPS

-----------------------------------------------------------------------------
(* The breaker.                                                            *)

\* A call in flight has not outlived its timeout; an idle one is no probe.
CallInv ==
  \A c \in Calls :
    /\ InFlight(c) => call[c].started <= clock
                        /\ clock - call[c].started <= Timeout
    /\ call[c].probe => InFlight(c)

\* The circuit is never open for longer than one cooldown from now.
WindowInv == openUntil <= clock + Reset

BreakerInv == TypeOK /\ CallInv /\ ProbeIsSingle /\ WindowInv

\* What the policy of a breaker may be.
LEMMA PolicyValues ==
  ASSUME policy \in Policies
  PROVE  /\ Threshold \in Nat \ {0} /\ Reset \in Nat \ {0} /\ Timeout \in Nat
         /\ SingleProbe \in BOOLEAN /\ policy.fromStart \in BOOLEAN
<1>1. policy \in Policy
  BY ConstantsAssumption
<1> QED
  BY <1>1 DEF Policy, Threshold, Reset, Timeout, SingleProbe

LEMMA InitBreaker == Init => BreakerInv
<1> SUFFICES ASSUME Init PROVE BreakerInv
  OBVIOUS
<1>1. TypeOK
  <2> DEFINE idle == [pc |-> "idle", started |-> 0, probe |-> FALSE]
  <2>1. idle \in Call
    BY DEF Call
  <2> HIDE DEF idle
  <2>2. call = [c \in Calls |-> idle]
    BY DEF Init, idle
  <2>3. call \in [Calls -> Call]
    BY <2>1, <2>2
  <2>4. policy \in Policies /\ clock \in Nat /\ failures \in Nat /\ openUntil \in Int
    BY DEF Init
  <2>5. probing \in BOOLEAN
    BY DEF Init
  <2> QED
    BY <2>3, <2>4, <2>5 DEF TypeOK
<1>2. \A c \in Calls : ~InFlight(c) /\ ~call[c].probe
  BY DEF Init, InFlight
<1>3. WindowInv
  BY PolicyValues DEF Init, WindowInv
<1> QED
  BY <1>1, <1>2, <1>3 DEF Init, BreakerInv, CallInv, ProbeIsSingle

\* What the end of a call does to the calls and to the probe flag.
LEMMA FinishCalls ==
  ASSUME BreakerInv, NEW c \in Calls, Finish(c), UNCHANGED <<policy, clock>>
  PROVE  /\ call' \in [Calls -> Call] /\ probing' \in BOOLEAN
         /\ CallInv' /\ ProbeIsSingle'
<1> USE DEF BreakerInv, TypeOK
<1>1. call' \in [Calls -> Call] /\ probing' \in BOOLEAN
  BY DEF Finish, Call
<1>2. CallInv'
  <2>1. Timeout' = Timeout
    BY DEF Timeout
  <2> QED
    BY <2>1 DEF Finish, CallInv, InFlight
<1>3. ProbeIsSingle'
  <2>1. \A d \in Calls \ {c} : call'[d] = call[d]
    BY DEF Finish
  <2>2. ~call'[c].probe
    BY DEF Finish
  <2>3. probing' = (probing /\ ~call[c].probe)
    BY DEF Finish
  <2> QED
    BY <2>1, <2>2, <2>3 DEF ProbeIsSingle, CallInv, InFlight
<1> QED BY <1>1, <1>2, <1>3

LEMMA CooldownBounds ==
  ASSUME BreakerInv, NEW c \in Calls, InFlight(c)
  PROVE  Cooldown(c) \in Int /\ Cooldown(c) <= clock + Reset
BY PolicyValues
   DEF BreakerInv, TypeOK, CallInv, WindowInv, Cooldown, Call

LEMMA NextBreaker == BreakerInv /\ [Next]_vars => BreakerInv'
<1> SUFFICES ASSUME BreakerInv, [Next]_vars PROVE BreakerInv'
  OBVIOUS
<1>0. /\ Threshold \in Nat \ {0} /\ Reset \in Nat \ {0} /\ Timeout \in Nat
      /\ SingleProbe \in BOOLEAN /\ policy.fromStart \in BOOLEAN
  BY PolicyValues DEF BreakerInv, TypeOK
<1>a. policy' = policy
  BY DEF Next, Tick, Begin, End, Succeed, Fail, LeaveAlone, vars
<1>b. Threshold' = Threshold /\ Reset' = Reset /\ Timeout' = Timeout
  BY <1>a DEF Threshold, Reset, Timeout
<1> USE <1>0, <1>a, <1>b
<1>1. CASE Tick
  BY <1>1 DEF Tick, BreakerInv, TypeOK, CallInv, ProbeIsSingle, InFlight,
              WindowInv, Call
<1>2. ASSUME NEW c \in Calls, Begin(c) PROVE BreakerInv'
  <2> DEFINE probe == SingleProbe /\ Tripped
             new   == [pc |-> "calling", started |-> clock, probe |-> probe]
  <2>1. probe \in BOOLEAN /\ (probe => ~probing)
    BY <1>2 DEF Begin, Admits
  <2>2. /\ call' = [call EXCEPT ![c] = new]
        /\ probing' = (probing \/ probe)
        /\ UNCHANGED <<clock, failures, openUntil>>
        /\ ~InFlight(c)
    BY <1>2 DEF Begin
  <2> HIDE DEF probe
  <2>3. call' \in [Calls -> Call] /\ probing' \in BOOLEAN
    BY <2>1, <2>2 DEF BreakerInv, TypeOK, Call
  <2>4. CallInv'
    BY <2>1, <2>2 DEF BreakerInv, TypeOK, CallInv, InFlight
  <2>5. ProbeIsSingle'
    <3>1. \A d \in Calls \ {c} : call'[d] = call[d]
      BY <2>2 DEF BreakerInv, TypeOK
    <3>2. call'[c].probe = probe /\ call'[c].pc = "calling"
      BY <2>2 DEF BreakerInv, TypeOK
    <3> QED
      BY <2>1, <2>2, <3>1, <3>2
         DEF BreakerInv, TypeOK, ProbeIsSingle, CallInv, InFlight
  <2> QED
    BY <2>2, <2>3, <2>4, <2>5 DEF BreakerInv, TypeOK, WindowInv
<1>3. ASSUME NEW c \in Calls, End(c) PROVE BreakerInv'
  <2>1. /\ call' \in [Calls -> Call] /\ probing' \in BOOLEAN
        /\ CallInv' /\ ProbeIsSingle'
    BY <1>3, FinishCalls DEF End, Succeed, Fail, LeaveAlone
  <2>2. openUntil' \in Int /\ openUntil' <= clock + Reset /\ clock' = clock
    <3>1. CASE Fail(c)
      BY <3>1, CooldownBounds DEF Fail, Finish
    <3>2. CASE Succeed(c)
      BY <3>2, <2>1 DEF Succeed, Finish, CallInv, BreakerInv, TypeOK, InFlight,
                        Call, WindowInv
    <3>3. CASE LeaveAlone(c)
      BY <3>3 DEF LeaveAlone, BreakerInv, TypeOK, WindowInv
    <3> QED BY <1>3, <3>1, <3>2, <3>3 DEF End
  <2>3. failures' \in Nat
    BY <1>3 DEF End, Succeed, Fail, LeaveAlone, BreakerInv, TypeOK
  <2> QED
    BY <2>1, <2>2, <2>3 DEF BreakerInv, TypeOK, WindowInv
<1>4. CASE UNCHANGED vars
  BY <1>4 DEF vars, BreakerInv, TypeOK, CallInv, ProbeIsSingle, InFlight,
              WindowInv
<1> QED
  BY <1>1, <1>2, <1>3, <1>4 DEF Next

LEMMA BreakerHolds == Spec => []BreakerInv
<1> QED BY InitBreaker, NextBreaker, PTL DEF Spec

-----------------------------------------------------------------------------
\* One probe at a time, for any number of overlapping calls.
THEOREM SingleProbes == Spec => []ProbeIsSingle
<1>1. BreakerInv => ProbeIsSingle
  BY DEF BreakerInv
<1> QED BY <1>1, BreakerHolds, PTL

\* The breaker opens at its threshold whenever its cooldown is longer than the
\* timeout of a call, or counts from the end of the call.
THEOREM Opens ==
  ASSUME \A p \in Policies : p.fromStart => p.timeout < p.reset
  PROVE  Spec => OpensAtThreshold
<1>1. BreakerInv /\ [Next]_vars =>
        [failures' > failures /\ failures' >= Threshold
           => openUntil' > clock]_vars
  <2> SUFFICES ASSUME BreakerInv, Next, failures' > failures,
                      failures' >= Threshold
               PROVE  openUntil' > clock
    OBVIOUS
  <2>1. PICK c \in Calls : Fail(c)
    BY DEF Next, Tick, Begin, End, Succeed, LeaveAlone, BreakerInv, TypeOK
  <2>2. policy \in Policies /\ (policy.fromStart => Timeout < Reset)
    BY DEF BreakerInv, TypeOK, Timeout, Reset
  <2> QED
    BY <2>1, <2>2, PolicyValues
       DEF Fail, Finish, Cooldown, BreakerInv, TypeOK, CallInv, Call, InFlight
<1> QED BY <1>1, BreakerHolds, PTL DEF Spec, OpensAtThreshold

\* A cooldown that counts from the end of the call is never shortened.
THEOREM Cooldowns == Spec => CooldownIsKept
<1>1. BreakerInv /\ [Next]_vars =>
        [~policy.fromStart /\ openUntil' < openUntil => failures' = 0]_vars
  <2> SUFFICES ASSUME BreakerInv, Next, ~policy.fromStart,
                      openUntil' < openUntil
               PROVE  failures' = 0
    OBVIOUS
  <2>1. PICK c \in Calls : Fail(c) \/ Succeed(c)
    BY DEF Next, Tick, Begin, End, LeaveAlone, BreakerInv, TypeOK
  <2>2. CASE Fail(c)
    BY <2>2, PolicyValues
       DEF Fail, Cooldown, BreakerInv, TypeOK, WindowInv
  <2>3. CASE Succeed(c)
    BY <2>3 DEF Succeed
  <2> QED BY <2>1, <2>2, <2>3
<1> QED BY <1>1, BreakerHolds, PTL DEF Spec, CooldownIsKept

-----------------------------------------------------------------------------
(* AI requests.                                                            *)

Counts == 0..2

ReqType == [pc: Steps, expected: Boundaries \cup {"any"},
            at: {"none", "primary", "fallback", "glm"},
            unit: {"none", "held", "lost"}, began: Nat,
            answers: Counts, costed: Counts, row: BOOLEAN]

\* What a request has had where it is: one answer and one price at most, and
\* its unit until it is over.
CountsFollow(r) ==
  /\ r.pc \in {"reserved", "next", "intent", "invoking"} => r.answers = 0 /\ r.costed = 0
  /\ r.pc = "finalizing" => r.answers = 1 /\ r.costed = 0
  /\ r.pc = "answered" => r.answers = 1 /\ r.costed = 1
  /\ r.answers <= 1 /\ (r.row => r.costed = 1)
  /\ r.pc # "idle" => r.unit = "held" /\ ~r.row
  /\ r.pc = "idle" => (r.unit = "held" <=> r.row)

\* Where a request may be sent.
RouteFollows(r) ==
  /\ r.pc \in {"idle", "reserved"} => r.at = "none"
  /\ r.pc = "next" => r.at = "primary"
  /\ r.at # "none" /\ r.expected # "any" => (r.at = "glm" <=> r.expected = "free")

GoodRequest(r) == r \in ReqType /\ CountsFollow(r) /\ RouteFollows(r)

RequestInv == /\ BreakerInv /\ plan \in Boundaries \cup {"none"}
              /\ crashes \in 0..MaxCrashes
              /\ req \in [Calls -> ReqType] /\ \A c \in Calls : GoodRequest(req[c])

LEMMA IdleIsGood == GoodRequest(Idle) /\ Idle \in ReqType
BY DEF GoodRequest, Idle, ReqType, CountsFollow, RouteFollows, Steps, Boundaries,
       Counts

\* What is left of a request is good: its unit is lost or given back, or its
\* row is there.
LEMMA OverIsGood ==
  ASSUME NEW c \in Calls, GoodRequest(req[c])
  PROVE  /\ \A unit \in {"none", "lost"} : GoodRequest([Over(c) EXCEPT !.unit = unit])
         /\ At(c, "answered") =>
              GoodRequest([Over(c) EXCEPT !.row = TRUE, !.costed = req[c].costed])
<1>1. /\ Over(c) \in ReqType /\ Over(c).pc = "idle" /\ Over(c).at = "none"
      /\ Over(c).expected = "any" /\ Over(c).unit = req[c].unit
      /\ Over(c).answers = 0 /\ Over(c).costed = 0 /\ Over(c).row = FALSE
  <2>1. req[c].unit \in {"none", "held", "lost"}
    BY DEF GoodRequest, ReqType
  <2>2. /\ Idle \in ReqType /\ Idle.pc = "idle" /\ Idle.at = "none"
        /\ Idle.expected = "any" /\ Idle.answers = 0 /\ Idle.costed = 0
        /\ Idle.row = FALSE
    BY IdleIsGood DEF Idle
  <2> QED BY <2>1, <2>2 DEF Over, ReqType
<1>2. ASSUME NEW unit \in {"none", "lost"}
      PROVE  GoodRequest([Over(c) EXCEPT !.unit = unit])
  <2>1. PICK r : r = [Over(c) EXCEPT !.unit = unit]
    OBVIOUS
  <2>2. /\ r \in ReqType /\ r.pc = "idle" /\ r.at = "none" /\ r.expected = "any"
        /\ r.unit = unit /\ r.answers = 0 /\ r.costed = 0 /\ r.row = FALSE
    BY <1>1, <2>1 DEF ReqType
  <2>3. GoodRequest(r)
    BY <2>2 DEF GoodRequest, CountsFollow, RouteFollows
  <2> QED BY <2>1, <2>3, Zenon
<1>3. ASSUME At(c, "answered")
      PROVE  GoodRequest([Over(c) EXCEPT !.row = TRUE, !.costed = req[c].costed])
  <2>1. req[c].unit = "held" /\ req[c].costed = 1
    BY <1>3 DEF GoodRequest, CountsFollow, At
  <2>2. PICK r : r = [Over(c) EXCEPT !.row = TRUE, !.costed = req[c].costed]
    OBVIOUS
  <2>3. /\ r \in ReqType /\ r.pc = "idle" /\ r.at = "none" /\ r.expected = "any"
        /\ r.unit = "held" /\ r.answers = 0 /\ r.costed = 1 /\ r.row = TRUE
    <3>1. req[c].costed \in Counts
      BY <2>1 DEF Counts
    <3> QED BY <1>1, <2>1, <2>2, <3>1 DEF ReqType
  <2>4. GoodRequest(r)
    BY <2>3 DEF GoodRequest, CountsFollow, RouteFollows
  <2> QED BY <2>2, <2>4, Zenon
<1> QED BY <1>2, <1>3

\* A step of one request makes a good request of it.
LEMMA RequestSteps ==
  ASSUME RequestInv, NEW c \in Calls, RequestStep(c)
  PROVE  /\ \E r : GoodRequest(r) /\ req' = [req EXCEPT ![c] = r]
         /\ UNCHANGED <<plan, crashes>>
         /\ [Next]_vars
<1> DEFINE R == req[c]
<1>0. /\ GoodRequest(R) /\ clock \in Nat /\ plan \in Boundaries \cup {"none"}
      /\ R \in ReqType /\ CountsFollow(R) /\ RouteFollows(R)
  BY DEF RequestInv, BreakerInv, TypeOK, GoodRequest
<1>1. UNCHANGED <<plan, crashes>>
  BY DEF RequestStep, Ask, Refused, RouteFree, RoutePaid, Fallback, OpenIntent,
     ProviderAnswers, ProviderFails, Price, Record, GiveBack, Goto, Set
<1>2. [Next]_vars
  BY DEF RequestStep, Ask, Refused, RouteFree, RoutePaid, Fallback, OpenIntent,
     ProviderAnswers, ProviderFails, Price, Record, GiveBack, Leaves, Next, End
<1> DEFINE Done == \E r : GoodRequest(r) /\ req' = [req EXCEPT ![c] = r]
<1> SUFFICES Done
  BY <1>1, <1>2
<1> DEFINE Put(r) == req' = [req EXCEPT ![c] = r]
<1>3. ASSUME NEW r, GoodRequest(r), Put(r) PROVE Done
  BY <1>3
<1> DEFINE Keeps(r) == /\ r.expected = R.expected /\ r.unit = R.unit /\ r.row = R.row
<1>4. ASSUME R.pc # "idle", Put([R EXCEPT !.pc = "failing"]) PROVE Done
  <2>1. PICK r : r = [R EXCEPT !.pc = "failing"] /\ Put(r)
    BY <1>4, Zenon
  <2>2. /\ Put(r) /\ r \in ReqType /\ r.pc = "failing" /\ r.at = R.at /\ Keeps(r)
        /\ r.answers = R.answers /\ r.costed = R.costed
    BY <1>0, <2>1 DEF ReqType, Steps
  <2>3. GoodRequest(r)
    <3>1. R.pc # "idle"
      BY <1>4
    <3> QED BY <1>0, <2>2, <3>1 DEF GoodRequest, CountsFollow, RouteFollows
  <2> QED BY <1>3, <2>2, <2>3
<1>5. CASE Ask(c)
  <2>1. PICK e \in Boundaries \cup {"any"} :
          Put([Idle EXCEPT !.pc = "reserved", !.expected = e, !.unit = "held"])
    BY <1>5 DEF Ask, Set
  <2>2. PICK r : Put(r) /\
          r = [Idle EXCEPT !.pc = "reserved", !.expected = e, !.unit = "held"]
    BY <2>1, Zenon
  <2>3. /\ Put(r) /\ r \in ReqType /\ r.pc = "reserved" /\ r.at = "none" /\ r.unit = "held"
        /\ r.answers = 0 /\ r.costed = 0 /\ r.row = FALSE
    <3>1. /\ Idle \in ReqType /\ Idle.at = "none" /\ Idle.answers = 0
          /\ Idle.costed = 0 /\ Idle.row = FALSE
      BY IdleIsGood DEF Idle
    <3> QED BY <2>2, <3>1 DEF ReqType, Steps
  <2>4. GoodRequest(r)
    BY <2>3 DEF GoodRequest, CountsFollow, RouteFollows
  <2> QED BY <1>3, <2>3, <2>4
<1>6. CASE Refused(c)
  BY <1>4, <1>6 DEF Refused, At, Goto, Set
<1>7. CASE RouteFree(c)
  <2>1. CASE Put([R EXCEPT !.pc = "failing"])
    <3>1. R.pc # "idle"
      BY <1>7 DEF RouteFree, Executable, At
    <3> QED BY <1>4, <2>1, <3>1, Zenon
  <2>2. R.pc = "reserved" /\ (R.expected = "any" \/ R.expected = "free")
    BY <1>7 DEF RouteFree, Executable, At
  <2>3. CASE Put([R EXCEPT !.pc = "intent", !.at = "glm", !.began = clock])
    <3>1. PICK r : r = [R EXCEPT !.pc = "intent", !.at = "glm", !.began = clock] /\ Put(r)
      BY <2>3, Zenon
    <3>2. /\ r \in ReqType /\ Keeps(r) /\ Put(r)
          /\ r.pc = "intent" /\ r.at = "glm" /\ r.answers = R.answers /\ r.costed = R.costed
      BY <1>0, <2>2, <3>1 DEF ReqType, Steps
    <3>3. GoodRequest(r)
      BY <1>0, <2>2, <3>2 DEF GoodRequest, CountsFollow, RouteFollows, Boundaries
    <3> QED BY <1>3, <3>2, <3>3
  <2> QED BY <1>7, <2>1, <2>2, <2>3 DEF RouteFree, Executable, At, Goto, Set
<1>8. CASE RoutePaid(c)
  <2>1. PICK pc \in {"intent", "next"} :
          Put([R EXCEPT !.pc = pc, !.at = "primary", !.began = clock])
    BY <1>8 DEF RoutePaid, Set
  <2>2. R.pc = "reserved" /\ (R.expected = "any" \/ R.expected = "paid")
    BY <1>8 DEF RoutePaid, Executable, At
  <2>3. PICK r : Put(r) /\
          r = [R EXCEPT !.pc = pc, !.at = "primary", !.began = clock]
    BY <2>1, Zenon
  <2>4. /\ Put(r) /\ r \in ReqType /\ Keeps(r)
        /\ r.pc = pc /\ r.at = "primary" /\ r.answers = R.answers /\ r.costed = R.costed
    BY <1>0, <2>3 DEF ReqType, Steps
  <2>5. GoodRequest(r)
    BY <1>0, <2>2, <2>4 DEF GoodRequest, CountsFollow, RouteFollows
  <2> QED BY <1>3, <2>4, <2>5
<1>9. CASE Fallback(c)
  <2>1. CASE Put([R EXCEPT !.pc = "failing"])
    <3>1. R.pc # "idle"
      BY <1>9 DEF Fallback, At
    <3> QED BY <1>4, <2>1, <3>1, Zenon
  <2>2. R.pc = "next"
    BY <1>9 DEF Fallback, At
  <2>3. CASE Put([R EXCEPT !.pc = "intent", !.at = "fallback"])
    <3>1. PICK r : r = [R EXCEPT !.pc = "intent", !.at = "fallback"] /\ Put(r)
      BY <2>3, Zenon
    <3>2. /\ r \in ReqType /\ Keeps(r) /\ Put(r)
          /\ r.pc = "intent" /\ r.at = "fallback" /\ r.answers = R.answers /\ r.costed = R.costed
      BY <1>0, <2>2, <3>1 DEF ReqType, Steps
    <3>3. GoodRequest(r)
      BY <1>0, <2>2, <3>2 DEF GoodRequest, CountsFollow, RouteFollows, Boundaries
    <3> QED BY <1>3, <3>2, <3>3
  <2> QED BY <1>9, <2>1, <2>2, <2>3 DEF Fallback, At, Goto, Set
<1>10. CASE OpenIntent(c)
  <2>1. CASE Put([R EXCEPT !.pc = "failing"])
    <3>1. R.pc # "idle"
      BY <1>10 DEF OpenIntent, At
    <3> QED BY <1>4, <2>1, <3>1, Zenon
  <2>2. R.pc = "intent"
    BY <1>10 DEF OpenIntent, At
  <2>3. CASE Put([R EXCEPT !.pc = "invoking"])
    <3>1. PICK r : r = [R EXCEPT !.pc = "invoking"] /\ Put(r)
      BY <2>3, Zenon
    <3>2. /\ r \in ReqType /\ Keeps(r) /\ Put(r)
          /\ r.pc = "invoking" /\ r.at = R.at /\ r.answers = R.answers /\ r.costed = R.costed
      BY <1>0, <2>2, <3>1 DEF ReqType, Steps
    <3>3. GoodRequest(r)
      BY <1>0, <2>2, <3>2 DEF GoodRequest, CountsFollow, RouteFollows, Boundaries
    <3> QED BY <1>3, <3>2, <3>3
  <2> QED BY <1>10, <2>1, <2>2, <2>3 DEF OpenIntent, At, Goto, Set
<1>11. CASE ProviderAnswers(c)
  <2>2. R.pc = "invoking" /\ R.answers = 0
    BY <1>0, <1>11 DEF ProviderAnswers, At, CountsFollow
  <2>3. CASE Put([R EXCEPT !.pc = "finalizing", !.answers = @ + 1])
    <3>0. R.answers + 1 = 1 /\ 1 \in Counts
      BY <2>2 DEF Counts
    <3>1. PICK r : r = [R EXCEPT !.pc = "finalizing", !.answers = 1] /\ Put(r)
      BY <2>3, <3>0, Zenon
    <3>2. /\ r \in ReqType /\ Keeps(r) /\ Put(r)
          /\ r.pc = "finalizing" /\ r.at = R.at /\ r.answers = 1 /\ r.costed = R.costed
      BY <1>0, <2>2, <3>0, <3>1 DEF ReqType, Steps
    <3>3. GoodRequest(r)
      BY <1>0, <2>2, <3>2 DEF GoodRequest, CountsFollow, RouteFollows, Boundaries
    <3> QED BY <1>3, <3>2, <3>3
  <2> QED BY <1>11, <2>2, <2>3 DEF ProviderAnswers, At, Goto, Set
<1>12. CASE ProviderFails(c)
  <2>1. CASE Put([R EXCEPT !.pc = "failing"])
    <3>1. R.pc # "idle"
      BY <1>12 DEF ProviderFails, At
    <3> QED BY <1>4, <2>1, <3>1, Zenon
  <2>2. R.pc = "invoking"
    BY <1>12 DEF ProviderFails, At
  <2>3. CASE Put([R EXCEPT !.pc = "next"]) /\ R.at = "primary"
    <3>1. PICK r : r = [R EXCEPT !.pc = "next"] /\ Put(r)
      BY <2>3, Zenon
    <3>2. /\ r \in ReqType /\ Keeps(r) /\ Put(r)
          /\ r.pc = "next" /\ r.at = R.at /\ r.answers = R.answers /\ r.costed = R.costed
      BY <1>0, <2>2, <3>1 DEF ReqType, Steps
    <3>3. GoodRequest(r)
      BY <1>0, <2>2, <2>3, <3>2 DEF GoodRequest, CountsFollow, RouteFollows, Boundaries
    <3> QED BY <1>3, <3>2, <3>3
  <2> QED BY <1>12, <2>1, <2>2, <2>3 DEF ProviderFails, At, Goto, Set
<1>13. CASE Price(c)
  <2>1. CASE Put([R EXCEPT !.pc = "failing"])
    <3>1. R.pc # "idle"
      BY <1>13 DEF Price, AfterRecordingError, At
    <3> QED BY <1>4, <2>1, <3>1, Zenon
  <2>2. R.pc = "finalizing" /\ R.costed = 0
    BY <1>0, <1>13 DEF Price, AfterRecordingError, At, CountsFollow
  <2>3. CASE Put([R EXCEPT !.pc = "answered", !.costed = @ + 1])
    <3>0. R.costed + 1 = 1 /\ 1 \in Counts
      BY <2>2 DEF Counts
    <3>1. PICK r : r = [R EXCEPT !.pc = "answered", !.costed = 1] /\ Put(r)
      BY <2>3, <3>0, Zenon
    <3>2. /\ r \in ReqType /\ Keeps(r) /\ Put(r)
          /\ r.pc = "answered" /\ r.at = R.at /\ r.answers = R.answers /\ r.costed = 1
      BY <1>0, <2>2, <3>0, <3>1 DEF ReqType, Steps
    <3>3. GoodRequest(r)
      BY <1>0, <2>2, <3>2 DEF GoodRequest, CountsFollow, RouteFollows, Boundaries
    <3> QED BY <1>3, <3>2, <3>3
  <2> QED BY <1>13, <2>1, <2>2, <2>3 DEF Price, AfterRecordingError, At, Goto, Set
<1>14. CASE Record(c)
  <2>1. CASE Put([R EXCEPT !.pc = "failing"])
    <3>1. R.pc # "idle"
      BY <1>14 DEF Record, At
    <3> QED BY <1>4, <2>1, <3>1, Zenon
  <2>2. CASE Put([Over(c) EXCEPT !.row = TRUE, !.costed = req[c].costed])
    <3>1. GoodRequest([Over(c) EXCEPT !.row = TRUE, !.costed = req[c].costed])
      BY <1>0, <1>14, OverIsGood, Zenon DEF Record
    <3> QED BY <1>3, <2>2, <3>1, Zenon
  <2> QED BY <1>14, <2>1, <2>2 DEF Record, Goto, Set
<1>15. CASE GiveBack(c)
  <2>1. PICK unit \in {"none", "lost"} : Put([Over(c) EXCEPT !.unit = unit])
    BY <1>15 DEF GiveBack, UnitAfter, Set
  <2>2. GoodRequest([Over(c) EXCEPT !.unit = unit])
    BY <1>0, OverIsGood, Zenon
  <2> QED BY <1>3, <2>1, <2>2, Zenon
<1> QED
  BY <1>5, <1>6, <1>7, <1>8, <1>9, <1>10, <1>11, <1>12, <1>13, <1>14, <1>15 DEF RequestStep

LEMMA InitRequests == CallInit => RequestInv
<1> SUFFICES ASSUME CallInit PROVE RequestInv
  OBVIOUS
<1>1. BreakerInv
  BY InitBreaker DEF CallInit
<1>2. crashes \in 0..MaxCrashes /\ plan \in Boundaries
  BY CrashBound DEF CallInit, Boundaries
<1>3. req = [c \in Calls |-> Idle]
  BY DEF CallInit
<1>4. req \in [Calls -> ReqType] /\ \A c \in Calls : GoodRequest(req[c])
  BY <1>3, IdleIsGood, Zenon
<1> QED BY <1>1, <1>2, <1>4 DEF RequestInv

\* A process that starts again finds its breakers closed and idle.
LEMMA CrashedBreaker == ASSUME RequestInv, Crash PROVE BreakerInv'
<1> DEFINE idle == [pc |-> "idle", started |-> 0, probe |-> FALSE]
<1>1. idle \in Call
  BY DEF Call
<1> HIDE DEF idle
<1>2. /\ policy' = policy /\ clock' = clock /\ failures' = 0 /\ openUntil' = 0
      /\ probing' = FALSE /\ call' = [c \in Calls |-> idle]
  BY DEF Crash, idle
<1>3. policy \in Policies /\ clock \in Nat
  BY DEF RequestInv, BreakerInv, TypeOK
<1>4. TypeOK'
  <2>1. call' \in [Calls -> Call]
    BY <1>1, <1>2
  <2>2. probing' \in BOOLEAN
    BY <1>2
  <2>3. policy' \in Policies /\ clock' \in Nat /\ failures' \in Nat /\ openUntil' \in Int
    BY <1>2, <1>3
  <2> QED BY <2>1, <2>2, <2>3 DEF TypeOK
<1>5. \A c \in Calls : call'[c].pc = "idle" /\ call'[c].probe = FALSE
  BY <1>2 DEF idle
<1>6. WindowInv'
  BY <1>2, <1>3, PolicyValues DEF WindowInv, Reset
<1> QED BY <1>2, <1>4, <1>5, <1>6 DEF BreakerInv, CallInv, ProbeIsSingle, InFlight

\* A process that dies takes the units of its requests with it.
LEMMA CrashedRequests ==
  ASSUME RequestInv, Crash
  PROVE  req' \in [Calls -> ReqType] /\ \A c \in Calls : GoodRequest(req'[c])
<1>1. ASSUME NEW c \in Calls PROVE GoodRequest(req'[c])
  <2>1. GoodRequest(req[c])
    BY DEF RequestInv
  <2>2. CASE At(c, "idle")
    BY <2>1, <2>2 DEF Crash
  <2>3. CASE ~At(c, "idle")
    <3>1. req[c].unit = "held"
      BY <2>1, <2>3 DEF GoodRequest, CountsFollow, At
    <3>2. Over(c).unit = "held"
      <4>1. Idle.unit = "none" /\ Idle \in ReqType
        BY IdleIsGood DEF Idle
      <4> QED BY <3>1, <4>1 DEF Over, ReqType
    <3>3. req'[c] = [Over(c) EXCEPT !.unit = IF @ = "held" THEN "lost" ELSE @]
      BY <2>3, Zenon DEF Crash
    <3>4. req'[c] = [Over(c) EXCEPT !.unit = "lost"]
      BY <3>2, <3>3, Zenon
    <3> QED BY <2>1, <3>4, OverIsGood, Zenon
  <2> QED BY <2>2, <2>3
<1>2. DOMAIN req' = Calls /\ req' = [c \in Calls |-> req'[c]]
  BY DEF Crash
<1> QED BY <1>1, <1>2, Zenon DEF GoodRequest

LEMMA NextRequests == RequestInv /\ [CallNext]_allVars => RequestInv'
<1> SUFFICES ASSUME RequestInv, [CallNext]_allVars PROVE RequestInv'
  OBVIOUS
<1>1. CASE \E c \in Calls : RequestStep(c)
  <2>1. PICK c \in Calls : RequestStep(c)
    BY <1>1
  <2>2. PICK r : GoodRequest(r) /\ req' = [req EXCEPT ![c] = r]
    BY <2>1, RequestSteps
  <2>3. plan' = plan /\ crashes' = crashes /\ [Next]_vars
    BY <2>1, RequestSteps
  <2>4. BreakerInv'
    BY <2>3, NextBreaker DEF RequestInv
  <2>5. r \in ReqType /\ req \in [Calls -> ReqType] /\ \A d \in Calls : GoodRequest(req[d])
    BY <2>2 DEF GoodRequest, RequestInv
  <2>6. req' \in [Calls -> ReqType] /\ \A d \in Calls : GoodRequest(req'[d])
    BY <2>2, <2>5, Zenon
  <2> QED BY <2>3, <2>4, <2>6 DEF RequestInv
<1>2. CASE CallTick \/ PlanChanges \/ UNCHANGED allVars
  <2>1. [Next]_vars /\ req' = req /\ crashes' = crashes
        /\ plan' \in Boundaries \cup {"none"}
    BY <1>2 DEF CallTick, PlanChanges, allVars, reqVars, Next, RequestInv
  <2>2. BreakerInv'
    BY <2>1, NextBreaker DEF RequestInv
  <2> QED BY <2>1, <2>2 DEF RequestInv
<1>3. CASE Crash
  <2>1. crashes' \in 0..MaxCrashes /\ plan' = plan
    BY <1>3, CrashBound DEF Crash, RequestInv
  <2> QED BY <1>3, <2>1, CrashedBreaker, CrashedRequests DEF RequestInv
<1> QED BY <1>1, <1>2, <1>3 DEF CallNext

LEMMA RequestsHold == CallSpec => []RequestInv
<1>1. CallSpec => CallInit /\ [][CallNext]_allVars
  BY PTL DEF CallSpec
<1> QED BY <1>1, InitRequests, NextRequests, PTL

\* Every record of a request is well formed, for any number of requests and
\* crashes.
THEOREM CallTypes == CallSpec => []CallTypeOK
<1>1. RequestInv => CallTypeOK
  BY DEF RequestInv, BreakerInv, CallTypeOK, ReqType, Counts
<1> QED BY <1>1, RequestsHold, PTL

\* One answer and one price for a request: after a provider has answered, no
\* other one is asked, whatever the ledger, the database or the process do.
THEOREM AnsweredAtMostOnce == CallSpec => []AnsweredOnce
<1>1. RequestInv => AnsweredOnce
  BY DEF RequestInv, GoodRequest, CountsFollow, AnsweredOnce
<1> QED BY <1>1, RequestsHold, PTL

\* A request that is over holds its unit exactly if its row is there.
THEOREM UnitsArePaidByAnswers == CallSpec => []UnitsPayForAnswers
<1>1. RequestInv => UnitsPayForAnswers
  BY DEF RequestInv, GoodRequest, CountsFollow, UnitsPayForAnswers, At
<1> QED BY <1>1, RequestsHold, PTL

\* A job signed for one boundary never reaches the providers of the other, for
\* any sequence of plan changes while it waits.
THEOREM BoundaryIsNotCrossed == CallSpec => []BoundaryIsKept
<1>1. RequestInv => BoundaryIsKept
  BY DEF RequestInv, GoodRequest, RouteFollows, BoundaryIsKept
<1> QED BY <1>1, RequestsHold, PTL

\* One probe at a time behind the requests, across restarts of the process.
THEOREM SingleProbesOfRequests == CallSpec => []ProbeIsSingle
<1>1. RequestInv => ProbeIsSingle
  BY DEF RequestInv, BreakerInv
<1> QED BY <1>1, RequestsHold, PTL

-----------------------------------------------------------------------------
(* The budgets of the career chat.                                         *)

Attempts == 0..MaxRetries

ChatType == [pc: {"idle", "reserving", "sending", "waiting"}, day: Days,
             attempt: Attempts]

\* The attempts an answer has reserved and not sent yet.
Pending(r, i) == \/ r.pc = "sending" /\ r.attempt <= i
                 \/ r.pc = "waiting" /\ r.attempt < i

\* Those of all the answers in `chats` that were reserved on day d.
Slots(chats, d) ==
  {p \in Calls \X Attempts : chats[p[1]].day = d /\ Pending(chats[p[1]], p[2])}

ChatTypes == /\ BreakerInv /\ clock <= MaxClock
             /\ used \in [Days -> Nat] /\ usedInMonth \in [Months -> Nat]
             /\ spent \in [Days -> Nat] /\ chat \in [Calls -> ChatType]

\* What was sent and what may still be sent stay within what was reserved.
SlotsFit ==
  \A d \in Days : /\ spent[d] + Cardinality(Slots(chat, d)) <= used[d]
                  /\ used[d] <= DailyLimit

\* The key of a month is what the keys of its days add up to.
MonthsFit ==
  \A m \in Months : /\ usedInMonth[m] = Cardinality(UnitsIn(used, m))
                    /\ usedInMonth[m] <= MonthlyLimit

ChatInv == ChatTypes /\ SlotsFit /\ MonthsFit

LEMMA SlotsAreFinite ==
  /\ IsFiniteSet(Calls \X Attempts)
  /\ \A chats, d : /\ IsFiniteSet(Slots(chats, d))
                   /\ Cardinality(Slots(chats, d)) \in Nat
<1>1. IsFiniteSet(Attempts)
  BY FS_Interval, ChatConstants DEF Attempts
<1>2. IsFiniteSet(Calls \X Attempts)
  BY <1>1, FS_Product, ChatConstants
<1>3. ASSUME NEW chats, NEW d
      PROVE  IsFiniteSet(Slots(chats, d)) /\ Cardinality(Slots(chats, d)) \in Nat
  <2>1. Slots(chats, d) \in SUBSET (Calls \X Attempts)
    BY DEF Slots
  <2>2. IsFiniteSet(Slots(chats, d))
    BY <1>2, <2>1, FS_Subset
  <2> QED BY <2>2, FS_CardinalityType
<1> QED BY <1>2, <1>3

\* The attempts of one answer.
LEMMA OneAnswer ==
  ASSUME NEW c \in Calls
  PROVE  /\ IsFiniteSet({c} \X Attempts)
         /\ Cardinality({c} \X Attempts) = MaxRetries + 1
<1>1. IsFiniteSet(Attempts) /\ Cardinality(Attempts) = MaxRetries + 1
  BY FS_Interval, ChatConstants DEF Attempts
<1>2. IsFiniteSet({c}) /\ Cardinality({c}) = 1
  BY FS_EmptySet, FS_AddElement
<1>3. Cardinality({c} \X Attempts) = 1 * (MaxRetries + 1)
  BY <1>1, <1>2, FS_Product
<1> QED BY <1>1, <1>2, <1>3, FS_Product, ChatConstants

LEMMA DayIsADay ==
  ASSUME clock \in Nat, clock <= MaxClock PROVE Day \in Days
<1>1. clock \div DayLength \in Nat /\ MaxClock \div DayLength \in Nat
  BY ConstantsAssumption, ChatConstants
<1>2. clock \div DayLength <= MaxClock \div DayLength
  BY ConstantsAssumption, ChatConstants
<1> QED BY <1>1, <1>2 DEF Day, Days

\* The day lies in its month.
LEMMA MonthIsAMonth ==
  ASSUME clock \in Nat, clock <= MaxClock
  PROVE  /\ Month \in Months /\ Day \in DaysOf(Month)
         /\ \A m \in Months \ {Month} : Day \notin DaysOf(m)
<1> DEFINE last == MaxClock \div DayLength
<1>1. Day \in Days /\ last \in Nat /\ Days = 0..last
  BY DayIsADay, ConstantsAssumption, ChatConstants DEF Days
<1> HIDE DEF last
<1>2. Day \in Nat /\ Day <= last
  BY <1>1
<1>3. Day \div MonthLength \in Nat /\ last \div MonthLength \in Nat
      /\ Day \div MonthLength <= last \div MonthLength
  BY <1>1, <1>2, ChatConstants
<1>4. Months = 0..(last \div MonthLength)
  BY DEF Months, last
<1> QED BY <1>1, <1>3, <1>4 DEF Month, DaysOf

\* What is counted on the days of a month is finite, and no less than a part.
LEMMA UnitsAreFinite ==
  ASSUME NEW counts, NEW limit \in Nat, \A d \in Days : counts[d] <= limit,
         \A d \in Days : counts[d] \in Nat, NEW m
  PROVE  IsFiniteSet(UnitsIn(counts, m))
<1>1. IsFiniteSet(1..limit)
  BY FS_Interval
<1>2. IsFiniteSet(Days)
  BY FS_Interval, ConstantsAssumption, ChatConstants DEF Days
<1>3. IsFiniteSet(Days \X (1..limit))
  BY <1>1, <1>2, FS_Product
<1>4. UnitsIn(counts, m) \subseteq Days \X (1..limit)
  BY DEF UnitsIn, DaysOf
<1> QED BY <1>3, <1>4, FS_Subset

\* What is counted on one day is added to its month.
LEMMA UnitsAdd ==
  ASSUME NEW counts \in [Days -> Nat], NEW m, IsFiniteSet(UnitsIn(counts, m)),
         NEW d \in DaysOf(m), NEW n \in Nat, NEW later,
         later = [counts EXCEPT ![d] = counts[d] + n]
  PROVE  Cardinality(UnitsIn(later, m)) = Cardinality(UnitsIn(counts, m)) + n
<1> DEFINE new == (counts[d] + 1)..(counts[d] + n)
           own == {d} \X new
<1>0. d \in Days /\ counts[d] \in Nat
  BY DEF DaysOf
<1>1. IsFiniteSet(new) /\ Cardinality(new) = n
  <2>1. PICK a \in Int, b \in Int : a = counts[d] + 1 /\ b = counts[d] + n
    BY <1>0
  <2>2. IsFiniteSet(a..b) /\ Cardinality(a..b) = IF a > b THEN 0 ELSE b - a + 1
    BY FS_Interval
  <2>3. new = a..b
    BY <2>1
  <2> QED BY <1>0, <2>1, <2>2, <2>3
<1>2. 1..(counts[d] + n) = (1..counts[d]) \cup new /\ (1..counts[d]) \cap new = {}
  BY <1>0
<1> HIDE DEF new
<1>3. IsFiniteSet({d}) /\ Cardinality({d}) = 1
  BY FS_Singleton
<1>4. IsFiniteSet(own) /\ Cardinality(own) = n
  <2>1. IsFiniteSet(own) /\ Cardinality(own) = Cardinality({d}) * Cardinality(new)
    BY <1>1, <1>3, FS_Product
  <2> QED BY <1>1, <1>3, <2>1
<1>5. \A e \in DaysOf(m) : e \in Days /\ (e # d => later[e] = counts[e])
  BY DEF DaysOf
<1>6. later[d] = counts[d] + n
  BY <1>0
<1>7. UnitsIn(later, m) = UnitsIn(counts, m) \cup own
  <2>1. \A p : p \in UnitsIn(later, m) <=>
          \E e \in DaysOf(m) : \E i \in 1..later[e] : p = <<e, i>>
    BY DEF UnitsIn
  <2>2. \A p : p \in UnitsIn(counts, m) <=>
          \E e \in DaysOf(m) : \E i \in 1..counts[e] : p = <<e, i>>
    BY DEF UnitsIn
  <2>3. \A p : p \in own <=> \E i \in new : p = <<d, i>>
    OBVIOUS
  <2> HIDE DEF own
  <2>4. ASSUME NEW p \in UnitsIn(later, m) PROVE p \in UnitsIn(counts, m) \cup own
    <3>1. PICK e \in DaysOf(m) : \E i \in 1..later[e] : p = <<e, i>>
      BY <2>1, <2>4
    <3>2. PICK i \in 1..later[e] : p = <<e, i>>
      BY <3>1
    <3>3. CASE e # d
      BY <1>5, <2>2, <3>2, <3>3
    <3>4. CASE e = d
      <4>1. i \in 1..counts[d] \/ i \in new
        BY <1>2, <1>6, <3>2, <3>4
      <4> QED BY <2>2, <2>3, <3>2, <3>4, <4>1
    <3> QED BY <3>3, <3>4
  <2>5. ASSUME NEW p \in UnitsIn(counts, m) PROVE p \in UnitsIn(later, m)
    BY <1>2, <1>5, <1>6, <2>1, <2>2
  <2>6. ASSUME NEW p \in own PROVE p \in UnitsIn(later, m)
    BY <1>2, <1>6, <2>1, <2>3
  <2> QED BY <2>4, <2>5, <2>6
<1>8. UnitsIn(counts, m) \cap own = {}
  BY <1>2 DEF UnitsIn
<1> HIDE DEF own
<1>9. /\ Cardinality(UnitsIn(counts, m) \cup own)
           = Cardinality(UnitsIn(counts, m)) + Cardinality(own) - Cardinality({})
      /\ Cardinality(UnitsIn(counts, m)) \in Nat
  BY <1>4, <1>8, FS_Union, FS_CardinalityType, Zenon
<1>10. Cardinality({}) = 0
  BY FS_EmptySet
<1>11. /\ Cardinality(UnitsIn(later, m)) = Cardinality(UnitsIn(counts, m)) + n - 0
       /\ Cardinality(UnitsIn(counts, m)) \in Nat
  BY <1>4, <1>7, <1>9, <1>10, Zenon
<1> QED BY <1>11

LEMMA ChatRecords ==
  /\ NoChat \in ChatType /\ NoChat.pc = "idle"
  /\ \A d \in Days : [pc |-> "sending", day |-> d, attempt |-> 0] \in ChatType
<1>1. 0 \in Attempts
  BY ChatConstants DEF Attempts
<1>2. 0 \in Days
  <2>1. MaxClock \div DayLength \in Nat
    BY ConstantsAssumption, ChatConstants
  <2> QED BY <2>1 DEF Days
<1> QED BY <1>1, <1>2 DEF NoChat, ChatType

LEMMA InitChat == ChatInit => ChatInv
<1> SUFFICES ASSUME ChatInit PROVE ChatInv
  OBVIOUS
<1>1. BreakerInv /\ clock <= MaxClock
  BY InitBreaker, ConstantsAssumption DEF ChatInit, Init
<1>2. chat = [c \in Calls |-> NoChat]
  BY DEF ChatInit
<1>3. chat \in [Calls -> ChatType] /\ \A c \in Calls : chat[c].pc = "idle"
  BY <1>2, ChatRecords
<1>4. used \in [Days -> Nat] /\ spent \in [Days -> Nat]
      /\ \A d \in Days : used[d] = 0 /\ spent[d] = 0
  BY DEF ChatInit
<1>5. ASSUME NEW d \in Days PROVE Cardinality(Slots(chat, d)) = 0
  <2>1. Slots(chat, d) = {}
    BY <1>3 DEF Slots, Pending
  <2> QED BY <2>1, FS_EmptySet
<1>6. SlotsFit
  BY <1>4, <1>5, ChatConstants DEF SlotsFit
<1>7. /\ usedInMonth \in [Months -> Nat]
      /\ \A m \in Months : usedInMonth[m] = 0 /\ UnitsIn(used, m) = {}
  BY DEF ChatInit, UnitsIn, DaysOf
<1>8. MonthsFit
  BY <1>7, FS_EmptySet, ChatConstants DEF MonthsFit
<1> QED BY <1>1, <1>3, <1>4, <1>6, <1>7, <1>8 DEF ChatInv, ChatTypes

\* What a step of one answer does to the chats.
ChatStep(c) == Open(c) \/ Reserve(c) \/ NotReserved(c) \/ Send(c) \/ Retry(c) \/ Close(c)

LEMMA ChatStepTypes ==
  ASSUME ChatTypes, NEW c \in Calls, ChatStep(c) PROVE ChatTypes'
<1>1. [Next]_vars /\ clock' = clock
  BY DEF ChatStep, Open, Reserve, NotReserved, Send, Retry, Close, Next, End, Begin,
         Succeed, Fail, LeaveAlone, vars
<1>2. BreakerInv' /\ clock' <= MaxClock
  BY <1>1, NextBreaker DEF ChatTypes
<1>3. Day \in Days /\ Requested \in Nat
  BY DayIsADay, ChatConstants DEF ChatTypes, BreakerInv, TypeOK, Requested
<1>4. used' \in [Days -> Nat] /\ usedInMonth' \in [Months -> Nat]
  <2>1. CASE Count
    BY <1>3, <2>1, MonthIsAMonth DEF ChatTypes, BreakerInv, TypeOK, Count
  <2>2. CASE UNCHANGED <<used, usedInMonth>>
    BY <2>2 DEF ChatTypes
  <2> QED BY <2>1, <2>2 DEF ChatStep, Open, Reserve, NotReserved, Send, Retry, Close
<1>5. chat[c] \in ChatType /\ chat \in [Calls -> ChatType] /\ spent \in [Days -> Nat]
  BY DEF ChatTypes
<1>6. spent' \in [Days -> Nat]
  <2>1. CASE Send(c)
    <3>1. chat[c].day \in Days
      BY <1>5 DEF ChatType
    <3> QED BY <1>5, <2>1, <3>1 DEF Send
  <2>2. CASE ~Send(c)
    BY <1>5, <2>2 DEF ChatStep, Open, Reserve, NotReserved, Retry, Close
  <2> QED BY <2>1, <2>2
<1> DEFINE Put(r) == chat' = [chat EXCEPT ![c] = r]
<1>7. ASSUME NEW r \in ChatType, Put(r) PROVE chat' \in [Calls -> ChatType]
  BY <1>5, <1>7
<1>8. CASE Open(c)
  <2>1. PICK r : Put(r) /\ r = [chat[c] EXCEPT !.pc = "reserving"]
    BY <1>8, Zenon DEF Open
  <2>2. r \in ChatType /\ Put(r)
    BY <1>5, <2>1 DEF ChatType
  <2>3. chat' \in [Calls -> ChatType]
    BY <1>7, <2>2
  <2> QED BY <1>2, <1>4, <1>6, <2>3 DEF ChatTypes
<1>9. CASE Reserve(c) \/ NotReserved(c) \/ Close(c)
  <2>1. chat' \in [Calls -> ChatType]
    BY <1>3, <1>7, <1>9, ChatRecords DEF Reserve, NotReserved, Close
  <2> QED BY <1>2, <1>4, <1>6, <2>1 DEF ChatTypes
<1>10. CASE Send(c)
  <2>1. PICK r : Put(r) /\ r = [chat[c] EXCEPT !.pc = "waiting"]
    BY <1>10, Zenon DEF Send
  <2>2. r \in ChatType /\ Put(r)
    BY <1>5, <2>1 DEF ChatType
  <2>3. chat' \in [Calls -> ChatType]
    BY <1>7, <2>2
  <2> QED BY <1>2, <1>4, <1>6, <2>3 DEF ChatTypes
<1>11. CASE Retry(c)
  <2>1. PICK n : n = chat[c].attempt + 1
    OBVIOUS
  <2>2. n \in Attempts
    <3>1. chat[c].attempt \in Attempts
      BY <1>5 DEF ChatType
    <3> QED BY <1>11, <2>1, <3>1, ChatConstants DEF Retry, RetriesLeft, Attempts
  <2>3. PICK r : Put(r) /\ r = [chat[c] EXCEPT !.pc = "sending", !.attempt = n]
    BY <1>11, <2>1, Zenon DEF Retry
  <2>4. r \in ChatType /\ Put(r)
    BY <1>5, <2>2, <2>3 DEF ChatType
  <2>5. chat' \in [Calls -> ChatType]
    BY <1>7, <2>4
  <2> QED BY <1>2, <1>4, <1>6, <2>5 DEF ChatTypes
<1> QED BY <1>8, <1>9, <1>10, <1>11 DEF ChatStep

\* Where no attempt is added, none is counted.
LEMMA FewerSlots ==
  ASSUME NEW chats, NEW later, NEW d, Slots(later, d) \subseteq Slots(chats, d)
  PROVE  Cardinality(Slots(later, d)) <= Cardinality(Slots(chats, d))
BY SlotsAreFinite, FS_Subset

\* The fields of an answer after a step, and the other answers unchanged.
LEMMA ChatFields ==
  ASSUME ChatTypes, NEW c \in Calls, ChatStep(c)
  PROVE  /\ \A e \in Calls \ {c} : chat'[e] = chat[e]
         /\ Open(c) => chat'[c].pc = "reserving"
         /\ NotReserved(c) \/ Close(c) => chat'[c].pc = "idle"
         /\ Reserve(c) => chat'[c] = [pc |-> "sending", day |-> Day, attempt |-> 0]
         /\ Send(c) => /\ chat'[c].pc = "waiting" /\ chat'[c].day = chat[c].day
                       /\ chat'[c].attempt = chat[c].attempt
         /\ Retry(c) => /\ chat'[c].pc = "sending" /\ chat'[c].day = chat[c].day
                        /\ chat'[c].attempt = chat[c].attempt + 1
<1>1. chat \in [Calls -> ChatType] /\ chat[c] \in ChatType
  BY DEF ChatTypes
<1>2. \A e \in Calls \ {c} : chat'[e] = chat[e]
  BY <1>1, Zenon DEF ChatStep, Open, Reserve, NotReserved, Send, Retry, Close
<1>3. Open(c) => chat'[c] = [chat[c] EXCEPT !.pc = "reserving"]
  BY <1>1, Zenon DEF Open
<1>4. NotReserved(c) \/ Close(c) => chat'[c] = NoChat
  BY <1>1 DEF NotReserved, Close
<1>5. Reserve(c) => chat'[c] = [pc |-> "sending", day |-> Day, attempt |-> 0]
  BY <1>1, Zenon DEF Reserve
<1>6. Send(c) => chat'[c] = [chat[c] EXCEPT !.pc = "waiting"]
  BY <1>1, Zenon DEF Send
<1>7. Retry(c) => chat'[c] = [chat[c] EXCEPT !.pc = "sending", !.attempt = chat[c].attempt + 1]
  BY <1>1, Zenon DEF Retry
<1>8. Open(c) => chat'[c].pc = "reserving"
  BY <1>1, <1>3 DEF ChatType
<1>9. Send(c) => /\ chat'[c].pc = "waiting" /\ chat'[c].day = chat[c].day
                 /\ chat'[c].attempt = chat[c].attempt
  BY <1>1, <1>6 DEF ChatType
<1>10. Retry(c) => /\ chat'[c].pc = "sending" /\ chat'[c].day = chat[c].day
                   /\ chat'[c].attempt = chat[c].attempt + 1
  BY <1>1, <1>7 DEF ChatType
<1> QED BY <1>2, <1>4, <1>5, <1>8, <1>9, <1>10, ChatRecords

LEMMA ChatStepSlots ==
  ASSUME ChatInv, NEW c \in Calls, ChatStep(c) PROVE SlotsFit'
<1> SUFFICES ASSUME NEW d \in Days
             PROVE  /\ spent'[d] + Cardinality(Slots(chat', d)) <= used'[d]
                    /\ used'[d] <= DailyLimit
  BY DEF SlotsFit
<1>1. /\ used \in [Days -> Nat] /\ spent \in [Days -> Nat] /\ chat \in [Calls -> ChatType]
      /\ Day \in Days /\ Requested = MaxRetries + 1 /\ MaxRetries \in Nat
      /\ DailyLimit \in Nat
  BY DayIsADay, ChatConstants
     DEF ChatInv, ChatTypes, BreakerInv, TypeOK, Requested
<1>2. /\ spent[d] + Cardinality(Slots(chat, d)) <= used[d] /\ used[d] <= DailyLimit
      /\ Cardinality(Slots(chat, d)) \in Nat /\ Cardinality(Slots(chat', d)) \in Nat
  BY SlotsAreFinite DEF ChatInv, SlotsFit
<1>3. \A e \in Calls \ {c} : chat'[e] = chat[e]
  BY ChatFields DEF ChatInv
<1>4. ASSUME Open(c) \/ NotReserved(c) \/ Close(c) \/ Retry(c) \/ (Reserve(c) /\ d # Day)
             \/ (Send(c) /\ d # chat[c].day)
      PROVE  Cardinality(Slots(chat', d)) <= Cardinality(Slots(chat, d))
  <2>1. ASSUME NEW i \in Attempts, chat'[c].day = d, Pending(chat'[c], i)
        PROVE  chat[c].day = d /\ Pending(chat[c], i)
    <3>1. CASE Retry(c)
      <4>1. chat[c].pc = "waiting" /\ chat[c].attempt \in Attempts
        BY <1>1, <3>1 DEF Retry, ChatAt, ChatType
      <4>2. /\ chat'[c].pc = "sending"
            /\ chat'[c].day = chat[c].day /\ chat'[c].attempt = chat[c].attempt + 1
        BY <3>1, ChatFields DEF ChatInv
      <4> QED BY <2>1, <4>1, <4>2, ChatConstants DEF Pending, Attempts
    <3>2. CASE ~Retry(c)
      BY <1>4, <2>1, <3>2, ChatFields DEF ChatInv, Pending
    <3> QED BY <3>1, <3>2
  <2>2. Slots(chat', d) \subseteq Slots(chat, d)
    BY <1>3, <2>1 DEF Slots
  <2> QED BY <2>2, FewerSlots
<1>5. CASE Open(c) \/ Close(c) \/ Retry(c)
  <2>1. used' = used /\ spent' = spent
    BY <1>5 DEF Open, Close, Retry
  <2> QED BY <1>1, <1>2, <1>4, <1>5, <2>1
<1>6. CASE NotReserved(c)
  <2>1. spent' = spent /\ used[d] <= used'[d] /\ used'[d] <= DailyLimit /\ used'[d] \in Nat
    BY <1>1, <1>2, <1>6 DEF NotReserved, FitsBudget, Count
  <2> QED BY <1>1, <1>2, <1>4, <1>6, <2>1
<1>7. CASE Reserve(c)
  <2>1. CASE d # Day
    <3>1. spent' = spent /\ used'[d] = used[d]
      BY <1>1, <1>7, <2>1 DEF Reserve, Count
    <3> QED BY <1>1, <1>2, <1>4, <1>7, <2>1, <3>1
  <2>2. CASE d = Day
    <3>1. spent' = spent /\ used'[d] = used[d] + MaxRetries + 1 /\ used'[d] <= DailyLimit
      BY <1>1, <1>7, <2>2 DEF Reserve, FitsBudget, Count
    <3>2. Slots(chat', d) \subseteq Slots(chat, d) \cup ({c} \X Attempts)
      BY <1>3 DEF Slots
    <3>3. /\ IsFiniteSet(Slots(chat, d) \cup ({c} \X Attempts))
          /\ Cardinality(Slots(chat, d) \cup ({c} \X Attempts))
               <= Cardinality(Slots(chat, d)) + MaxRetries + 1
      <4>1. IsFiniteSet(Slots(chat, d)) /\ IsFiniteSet({c} \X Attempts)
        BY SlotsAreFinite, OneAnswer
      <4>2. IsFiniteSet(Slots(chat, d) \cap ({c} \X Attempts))
        BY <4>1, FS_Subset
      <4>3. Cardinality(Slots(chat, d) \cap ({c} \X Attempts)) \in Nat
        BY <4>2, FS_CardinalityType
      <4>4. /\ IsFiniteSet(Slots(chat, d) \cup ({c} \X Attempts))
            /\ Cardinality(Slots(chat, d) \cup ({c} \X Attempts))
                 = Cardinality(Slots(chat, d)) + Cardinality({c} \X Attempts)
                     - Cardinality(Slots(chat, d) \cap ({c} \X Attempts))
        BY <4>1, FS_Union
      <4>5. Cardinality({c} \X Attempts) = MaxRetries + 1
        BY OneAnswer
      <4>6. \A all, a, b, both \in Nat : all = a + b - both => all <= a + b
        OBVIOUS
      <4>7. Cardinality(Slots(chat, d) \cup ({c} \X Attempts)) \in Nat
        BY <4>4, FS_CardinalityType
      <4>8. Cardinality(Slots(chat, d) \cup ({c} \X Attempts))
              <= Cardinality(Slots(chat, d)) + (MaxRetries + 1)
        BY <1>1, <1>2, <4>3, <4>4, <4>5, <4>6, <4>7
      <4> QED BY <1>1, <1>2, <4>4, <4>8
    <3>4. Cardinality(Slots(chat', d)) <= Cardinality(Slots(chat, d) \cup ({c} \X Attempts))
      BY <3>2, <3>3, FS_Subset
    <3>5. Cardinality(Slots(chat, d) \cup ({c} \X Attempts)) \in Nat
      BY <3>3, FS_CardinalityType
    <3> QED BY <1>1, <1>2, <3>1, <3>3, <3>4, <3>5
  <2> QED BY <2>1, <2>2
<1>8. CASE Send(c)
  <2>1. CASE d # chat[c].day
    <3>1. used' = used /\ spent'[d] = spent[d]
      BY <1>1, <1>8, <2>1 DEF Send
    <3> QED BY <1>1, <1>2, <1>4, <1>8, <2>1, <3>1
  <2>2. CASE d = chat[c].day
    <3>1. used' = used /\ spent'[d] = spent[d] + 1
      BY <1>1, <1>8, <2>2 DEF Send
    <3> DEFINE now == <<c, chat[c].attempt>>
    <3>2. chat[c].attempt \in Attempts /\ chat[c].pc = "sending"
      BY <1>1, <1>8 DEF ChatType, Send, ChatAt
    <3>3. now \in Slots(chat, d)
      BY <2>2, <3>2, ChatConstants DEF Slots, Pending, Attempts
    <3>4. Slots(chat', d) \subseteq Slots(chat, d) \ {now}
      <4>1. /\ chat'[c].pc = "waiting" /\ chat'[c].day = d
            /\ chat'[c].attempt = chat[c].attempt
        BY <1>8, <2>2, ChatFields DEF ChatInv
      <4>2. ASSUME NEW i \in Attempts, Pending(chat'[c], i)
            PROVE  Pending(chat[c], i) /\ i # chat[c].attempt
        BY <3>2, <4>1, <4>2, ChatConstants DEF Pending, Attempts
      <4> QED BY <1>3, <2>2, <4>1, <4>2 DEF Slots
    <3>5. /\ IsFiniteSet(Slots(chat, d) \ {now})
          /\ Cardinality(Slots(chat, d) \ {now}) = Cardinality(Slots(chat, d)) - 1
      BY <3>3, SlotsAreFinite, FS_RemoveElement
    <3>6. Cardinality(Slots(chat', d)) <= Cardinality(Slots(chat, d)) - 1
      BY <3>4, <3>5, FS_Subset
    <3> QED BY <1>1, <1>2, <3>1, <3>6
  <2> QED BY <2>1, <2>2
<1> QED BY <1>5, <1>6, <1>7, <1>8 DEF ChatStep

LEMMA ChatStepMonths ==
  ASSUME ChatInv, NEW c \in Calls, ChatStep(c) PROVE MonthsFit'
<1> SUFFICES ASSUME NEW m \in Months
             PROVE  /\ usedInMonth'[m] = Cardinality(UnitsIn(used', m))
                    /\ usedInMonth'[m] <= MonthlyLimit
  BY DEF MonthsFit
<1>1. /\ used \in [Days -> Nat] /\ usedInMonth \in [Months -> Nat]
      /\ clock \in Nat /\ clock <= MaxClock /\ Requested \in Nat
      /\ usedInMonth[m] = Cardinality(UnitsIn(used, m))
      /\ usedInMonth[m] <= MonthlyLimit
  BY ChatConstants
     DEF ChatInv, ChatTypes, BreakerInv, TypeOK, Requested, MonthsFit
<1>2. Day \in Days /\ Month \in Months /\ Day \in DaysOf(Month)
      /\ (m # Month => Day \notin DaysOf(m))
  BY <1>1, DayIsADay, MonthIsAMonth
<1>3. IsFiniteSet(UnitsIn(used, m))
  BY <1>1, UnitsAreFinite, ChatConstants DEF ChatInv, SlotsFit
<1>4. CASE UNCHANGED <<used, usedInMonth>>
  BY <1>1, <1>4
<1>5. CASE FitsBudget /\ Count
  <2>1. /\ used' = [used EXCEPT ![Day] = used[Day] + Requested]
        /\ usedInMonth' = [usedInMonth EXCEPT ![Month] = usedInMonth[Month] + Requested]
        /\ usedInMonth[Month] + Requested <= MonthlyLimit
    BY <1>5 DEF FitsBudget, Count
  <2>2. CASE m = Month
    <3>1. Cardinality(UnitsIn(used', m)) = Cardinality(UnitsIn(used, m)) + Requested
      BY <1>1, <1>2, <1>3, <2>1, <2>2, UnitsAdd
    <3>2. usedInMonth'[m] = usedInMonth[m] + Requested
      BY <1>1, <1>2, <2>1, <2>2
    <3> QED BY <1>1, <2>1, <2>2, <3>1, <3>2
  <2>3. CASE m # Month
    <3>1. \A d \in DaysOf(m) : used'[d] = used[d]
      BY <1>1, <1>2, <2>1, <2>3 DEF DaysOf
    <3>2. UnitsIn(used', m) = UnitsIn(used, m)
      BY <3>1 DEF UnitsIn
    <3>3. usedInMonth'[m] = usedInMonth[m]
      BY <1>1, <2>1, <2>3
    <3> QED BY <1>1, <3>2, <3>3
  <2> QED BY <2>2, <2>3
<1> QED BY <1>4, <1>5 DEF ChatStep, Open, Reserve, NotReserved, Send, Retry, Close

LEMMA NextChat == ChatInv /\ [ChatNext]_<<vars, chatVars>> => ChatInv'
<1> SUFFICES ASSUME ChatInv, [ChatNext]_<<vars, chatVars>> PROVE ChatInv'
  OBVIOUS
<1>1. CASE \E c \in Calls : ChatStep(c)
  BY <1>1, ChatStepTypes, ChatStepSlots, ChatStepMonths DEF ChatInv
<1>2. CASE (Tick \/ UNCHANGED vars) /\ UNCHANGED chatVars
  <2>1. BreakerInv'
    BY <1>2, NextBreaker DEF ChatInv, ChatTypes, Next
  <2>2. clock' <= MaxClock
    BY <1>2, ConstantsAssumption DEF Tick, vars, ChatInv, ChatTypes, BreakerInv, TypeOK
  <2> QED BY <1>2, <2>1, <2>2 DEF chatVars, ChatInv, ChatTypes, SlotsFit, MonthsFit
<1> QED BY <1>1, <1>2 DEF ChatNext, ChatStep

\* On no day and in no month are more requests sent upstream than were
\* reserved, nor more reserved than the budgets allow, for any number of
\* answers, retries, failures and lost replies of Redis.
THEOREM SpendFits == ChatSpec => []SpendIsReserved
<1>1. ChatInv => SpendFitsDays
  <2> SUFFICES ASSUME ChatInv, NEW d \in Days
               PROVE  spent[d] <= used[d] /\ used[d] <= DailyLimit
    BY DEF SpendFitsDays
  <2>1. Cardinality(Slots(chat, d)) \in Nat /\ spent[d] \in Nat /\ used[d] \in Nat
    BY SlotsAreFinite DEF ChatInv, ChatTypes
  <2> QED BY <2>1 DEF ChatInv, SlotsFit
<1>2. ChatInv => SpendFitsMonths
  <2> SUFFICES ASSUME ChatInv, NEW m \in Months
               PROVE  Cardinality(UnitsIn(spent, m)) <= Cardinality(UnitsIn(used, m))
    BY DEF SpendFitsMonths, ChatInv, MonthsFit
  <2>1. \A d \in Days : /\ spent[d] \in Nat /\ used[d] \in Nat
                        /\ spent[d] <= used[d] /\ used[d] <= DailyLimit
    BY <1>1 DEF ChatInv, ChatTypes, SpendFitsDays
  <2>2. UnitsIn(spent, m) \subseteq UnitsIn(used, m)
    BY <2>1 DEF UnitsIn, DaysOf
  <2>3. IsFiniteSet(UnitsIn(used, m))
    BY <2>1, UnitsAreFinite, ChatConstants
  <2> QED BY <2>2, <2>3, FS_Subset
<1> QED BY <1>1, <1>2, InitChat, NextChat, PTL DEF ChatSpec, SpendIsReserved

============================================================================
