--------------------------- MODULE Metering_proofs ---------------------------
(***************************************************************************)
(* Proofs about what the system meters: the periodic usage counters of     *)
(* Quota, for any number of calls, any limits and any faults; and the cost *)
(* ledger of AiCostLedger, for any attempts, readers, prices and lengths   *)
(* of a day; and the rows of MatchCache, for any readings, offers and      *)
(* requests, from what MatchScore computes.                                *)
(***************************************************************************)
EXTENDS AiCostLedger, Quota, MatchCache, FiniteSetTheorems,
        FunctionTheorems, TLAPS

-----------------------------------------------------------------------------
(* The usage counters.  UsageIsExact is not inductive: a release must only *)
(* find its own unit in the counter.  CallInv says why it does: a call is  *)
(* charged in the period it read or in a later one, and never in a period  *)
(* that is yet to come.                                                    *)

Charged == {c \in Calls : call[c].charged = usage.resetAt}

\* The limits that calls remember have been in force.
LimitInv ==
  /\ limit <= peak
  /\ \A c \in Calls : call[c].limit <= peak

\* Where a call is charged, by where it is.
CallInv ==
  /\ usage.resetAt > 0
  /\ \A c \in Calls :
       /\ 0 <= call[c].charged /\ call[c].charged <= usage.resetAt
       /\ call[c].resetAt <= usage.resetAt
       /\ call[c].pc \in {"new", "refused"} \cup Reserving => call[c].charged = 0
       /\ Where(c, "held") =>
            0 < call[c].resetAt /\ call[c].resetAt <= call[c].charged
       /\ Where(c, "increment") => 0 < call[c].resetAt
       /\ Where(c, "released") /\ call[c].charged = usage.resetAt =>
            call[c].resetAt < call[c].charged
       /\ 0 <= call[c].now

QuotaInv == QuotaTypeOK /\ LimitInv /\ CallInv /\ UsageIsExact /\ UsageWithinPlans

\* The next reset lies after the time it is computed from.
LEMMA NextResetIsLater ==
  ASSUME NEW when \in Nat
  PROVE  NextReset(when) \in Int /\ NextReset(when) > when
<1> DEFINE q == when \div Month
<1>1. q \in Int /\ when < (q + 1) * Month
  BY QuotaConstants
<1> QED BY <1>1, QuotaConstants DEF NextReset

\* The unit of a call in the current counter is its own, and it is one.
LEMMA ChargedIsFinite ==
  /\ IsFiniteSet(Charged)
  /\ Cardinality(Charged) \in Nat
  /\ UsageIsExact <=> usage.used = Cardinality(Charged)
<1>1. IsFiniteSet(Charged)
  BY FS_Subset, QuotaConstants DEF Charged
<1> QED BY <1>1, FS_CardinalityType DEF Charged, UsageIsExact

LEMMA BlankIsTyped ==
  ASSUME NEW pc \in {"new", "refused"} \cup Reserving, NEW when \in Int
  PROVE  Blank(pc, when) \in Call
BY DEF Blank, Call, Ended

LEMMA ReservedIsTyped ==
  ASSUME NEW pc \in {"held", "released"}, NEW resetAt \in Int,
         NEW charged \in Int
  PROVE  Reserved(pc, resetAt, charged) \in Call
BY DEF Reserved, Call, Ended

LEMMA InitQuota == QuotaInit => QuotaInv
<1> SUFFICES ASSUME QuotaInit PROVE QuotaInv
  OBVIOUS
<1>2. NextReset(0) \in Int /\ NextReset(0) > 0
  BY NextResetIsLater
<1>3. call = [c \in Calls |-> Blank("new", 0)]
  BY DEF QuotaInit
<1>4. \A c \in Calls : /\ call[c].charged = 0 /\ call[c].resetAt = 0
                       /\ call[c].limit = 0 /\ call[c].now = 0
                       /\ call[c].pc = "new"
  BY <1>3 DEF Blank
<1>5. usage = [used |-> 0, resetAt |-> NextReset(0)]
  BY DEF QuotaInit
<1>6. usage \in Usage /\ usage.used = 0 /\ usage.resetAt = NextReset(0)
  BY <1>2, <1>5 DEF Usage
<1>7. QuotaTypeOK
  BY <1>3, <1>6, BlankIsTyped, QuotaConstants DEF QuotaInit, QuotaTypeOK
<1>8. LimitInv
  BY <1>4, QuotaConstants DEF QuotaInit, LimitInv
<1>9. CallInv
  BY <1>2, <1>4, <1>6 DEF CallInv, Where
<1>10. Charged = {}
  BY <1>2, <1>4, <1>6 DEF Charged
<1>11. UsageIsExact
  BY <1>6, <1>10, ChargedIsFinite, FS_EmptySet
<1>12. UsageWithinPlans
  BY <1>6, QuotaConstants DEF QuotaInit, UsageWithinPlans
<1> QED BY <1>7, <1>8, <1>9, <1>11, <1>12 DEF QuotaInv

-----------------------------------------------------------------------------
\* A step that moves one call and leaves the row and the charges alone.
LEMMA MoveCall ==
  ASSUME QuotaInv, NEW c \in Calls, NEW new \in Call,
         call' = [call EXCEPT ![c] = new], new.charged = call[c].charged,
         UNCHANGED <<date, limit, peak, usage>>, faultsLeft' \in Nat,
         new.limit <= peak, 0 <= new.now, new.resetAt <= usage.resetAt,
         new.pc \in {"new", "refused"} \cup Reserving => new.charged = 0,
         new.pc = "held" => 0 < new.resetAt /\ new.resetAt <= new.charged,
         new.pc = "increment" => 0 < new.resetAt,
         new.pc = "released" /\ new.charged = usage.resetAt =>
           new.resetAt < new.charged
  PROVE  QuotaInv'
<1> USE DEF QuotaInv, QuotaTypeOK
<1>1. QuotaTypeOK'
  OBVIOUS
<1>2. LimitInv'
  BY DEF LimitInv
<1>3. CallInv'
  BY DEF CallInv, Where
<1>4. Charged' = Charged
  BY DEF Charged
<1>5. UsageIsExact' /\ UsageWithinPlans'
  BY <1>4 DEF UsageIsExact, UsageWithinPlans, Charged
<1> QED BY <1>1, <1>2, <1>3, <1>5

\* The steps of a call that leave the row alone.
LEMMA QuietSteps ==
  ASSUME QuotaInv, NEW c \in Calls,
         \/ Arrive(c) \/ SkipReset(c) \/ Check(c) \/ ReadReset(c) \/ Keep(c)
         \/ Lose(c)
         \/ ReserveAfterReset(c) /\ UNCHANGED usage
         \/ Increment(c) /\ UNCHANGED usage
         \/ Release(c) /\ UNCHANGED usage
  PROVE  QuotaInv'
<1> USE DEF QuotaInv, QuotaTypeOK
<1>0. call[c] \in Call /\ usage.resetAt \in Int /\ limit \in Int /\ peak \in Int
  BY QuotaConstants DEF Usage
<1>1. ASSUME NEW pc \in {"refused"} \cup (Reserving \ {"increment"}),
             NEW when \in Nat, call' = [call EXCEPT ![c] = Blank(pc, when)],
             call[c].charged = 0,
             UNCHANGED <<date, limit, peak, usage, faultsLeft>>
      PROVE  QuotaInv'
  <2>1. Blank(pc, when) \in Call
    BY BlankIsTyped
  <2>2. /\ Blank(pc, when).pc = pc /\ Blank(pc, when).now = when
        /\ Blank(pc, when).limit = 0 /\ Blank(pc, when).resetAt = 0
        /\ Blank(pc, when).charged = 0
    BY DEF Blank
  <2>3. 0 <= peak /\ 0 <= usage.resetAt
    BY <1>0, QuotaConstants DEF CallInv
  <2> DEFINE new == Blank(pc, when)
  <2> HIDE DEF new
  <2>4. new \in Call /\ call' = [call EXCEPT ![c] = new]
    BY <1>1, <2>1 DEF new
  <2>5. /\ new.charged = call[c].charged
        /\ UNCHANGED <<date, limit, peak, usage>> /\ faultsLeft' \in Nat
        /\ new.limit <= peak /\ 0 <= new.now /\ new.resetAt <= usage.resetAt
        /\ new.charged = 0 /\ new.pc = pc
    BY <1>1, <2>2, <2>3 DEF new
  <2>6. new.pc # "held" /\ new.pc # "increment" /\ new.pc # "released"
    BY <2>5 DEF Reserving
  <2> QED
    BY <2>4, <2>5, <2>6, MoveCall
<1>2. CASE Arrive(c) \/ SkipReset(c)
  BY <1>1, <1>2 DEF Arrive, SkipReset, Where, CallInv, Reserving
<1>3. CASE Check(c) /\ ~Where(c, "refused")'
  <2> DEFINE new == [call[c] EXCEPT !.pc = "readReset", !.limit = limit]
  <2>1. new \in Call /\ new.charged = call[c].charged /\ new.pc = "readReset"
        /\ new.now = call[c].now /\ new.limit = limit
        /\ new.resetAt = call[c].resetAt
    BY <1>0 DEF Call, Reserving
  <2>2. ~Refuse(c)
    BY <1>3 DEF Refuse, Where, Blank
  <2>3. call' = [call EXCEPT ![c] = new] /\ call[c].charged = 0
    BY <1>3, <2>2 DEF Check, Where, CallInv, Reserving
  <2> HIDE DEF new
  <2>4. /\ UNCHANGED <<date, limit, peak, usage>> /\ faultsLeft' \in Nat
        /\ new.limit <= peak /\ 0 <= new.now /\ new.resetAt <= usage.resetAt
    BY <1>3, <2>1 DEF Check, CallInv, LimitInv
  <2> QED
    BY <2>1, <2>3, <2>4, MoveCall
<1>4. CASE ReadReset(c)
  <2> DEFINE new == [call[c] EXCEPT !.pc = "increment",
                                    !.resetAt = usage.resetAt]
  <2>1. new \in Call /\ new.charged = call[c].charged /\ new.pc = "increment"
        /\ new.now = call[c].now /\ new.limit = call[c].limit
        /\ new.resetAt = usage.resetAt
    BY <1>0 DEF Call, Reserving
  <2>2. call' = [call EXCEPT ![c] = new] /\ call[c].charged = 0
    BY <1>4 DEF ReadReset, Where, CallInv, Reserving
  <2> HIDE DEF new
  <2>3. /\ UNCHANGED <<date, limit, peak, usage>> /\ faultsLeft' \in Nat
        /\ new.limit <= peak /\ 0 <= new.now /\ 0 < new.resetAt
        /\ new.resetAt <= usage.resetAt
    BY <1>0, <1>4, <2>1 DEF ReadReset, CallInv, LimitInv
  <2> QED
    BY <2>1, <2>2, <2>3, MoveCall
<1>5. ASSUME NEW pc \in {"kept", "lost", "released"}, Where(c, "held"),
             Proceed(c, pc), UNCHANGED <<date, limit, peak, usage>>,
             faultsLeft' \in Nat,
             pc = "released" => call[c].resetAt < usage.resetAt
      PROVE  QuotaInv'
  <2> DEFINE new == [call[c] EXCEPT !.pc = pc]
  <2>1. new \in Call /\ new.charged = call[c].charged /\ new.pc = pc
        /\ new.now = call[c].now /\ new.limit = call[c].limit
        /\ new.resetAt = call[c].resetAt
    BY <1>0 DEF Call, Ended
  <2>2. call' = [call EXCEPT ![c] = new]
    BY <1>5 DEF Proceed
  <2> HIDE DEF new
  <2> QED
    BY <1>5, <2>1, <2>2, MoveCall DEF CallInv, LimitInv, Reserving
<1>6. CASE Keep(c)
  BY <1>5, <1>6 DEF Keep
<1>7. CASE Lose(c)
  BY <1>5, <1>7 DEF Lose
<1>8. ASSUME Refuse(c), call[c].pc \in Reserving,
             UNCHANGED <<date, limit, peak, usage, faultsLeft>>
      PROVE  QuotaInv'
  BY <1>1, <1>8 DEF Refuse, CallInv
<1>9. CASE Check(c) /\ Where(c, "refused")'
  <2>1. [call EXCEPT ![c] = [call[c] EXCEPT !.pc = "readReset",
                                           !.limit = limit]][c].pc # "refused"
    BY <1>0 DEF Call
  <2>2. Refuse(c)
    BY <1>9, <2>1 DEF Check, Where
  <2> QED
    BY <1>8, <1>9, <2>2 DEF Check, Where, Reserving
<1>10. CASE ReserveAfterReset(c) /\ UNCHANGED usage
  <2>1. NextReset(call[c].now) > usage.resetAt
    BY <1>0, <1>10, NextResetIsLater
       DEF ReserveAfterReset, ResetDue, CallInv, Call
  <2>2. NextReset(call[c].now) # usage.resetAt
    BY <1>0, <1>10, <2>1, NextResetIsLater DEF ReserveAfterReset, CallInv, Call
  <2>3. Refuse(c)
    <3>1. SUFFICES ASSUME usage = [used |-> 1, resetAt |-> NextReset(call[c].now)]
                   PROVE  FALSE
      BY <1>10 DEF ReserveAfterReset
    <3>2. usage.resetAt = NextReset(call[c].now)
      BY <3>1
    <3> QED BY <2>2, <3>2
  <2> QED
    BY <1>8, <1>10, <2>3 DEF ReserveAfterReset, Where, Reserving
<1>11. CASE Increment(c) /\ UNCHANGED usage
  <2>1. [usage EXCEPT !.used = usage.used + 1].used # usage.used
    BY DEF Usage
  <2> QED
    BY <1>8, <1>11, <2>1 DEF Increment, Where, Reserving
<1>12. CASE Release(c) /\ UNCHANGED usage
  <2>1. [usage EXCEPT !.used = usage.used - 1].used # usage.used
    BY DEF Usage
  <2>2. ~Releasable(c) /\ Proceed(c, "released") /\ Where(c, "held")
    BY <1>12, <2>1 DEF Release
  <2>3. call[c].resetAt < usage.resetAt
    <3>1. CASE usage.resetAt # call[c].resetAt
      BY <1>0, <3>1 DEF CallInv, Call
    <3>2. CASE usage.resetAt = call[c].resetAt
      <4>1. call[c].charged = usage.resetAt
        BY <1>0, <2>2, <3>2 DEF CallInv, Call
      <4>2. Charged # {}
        BY <4>1 DEF Charged
      <4>3. usage.used >= 1
        BY <4>2, ChargedIsFinite, FS_EmptySet
      <4> QED BY <2>2, <3>2, <4>3 DEF Releasable
    <3> QED BY <3>1, <3>2
  <2> QED
    BY <1>5, <1>12, <2>2, <2>3 DEF Release
<1> QED
  BY <1>2, <1>3, <1>4, <1>6, <1>7, <1>9, <1>10, <1>11, <1>12

-----------------------------------------------------------------------------
\* A call that reserves a unit in the period resetAt of the row: the row becomes
\* row, which lies in the same period or opens a later one with nothing in it.
LEMMA ChargeCall ==
  ASSUME QuotaInv, NEW c \in Calls, NEW new \in Call, NEW row \in Usage,
         call' = [call EXCEPT ![c] = new], usage' = row,
         UNCHANGED <<date, limit, peak, faultsLeft>>,
         new.pc = "held", new.charged = row.resetAt, new.limit = 0,
         0 <= new.now, 0 < new.resetAt, new.resetAt <= row.resetAt,
         call[c].charged = 0, row.used <= peak,
         \/ row.resetAt = usage.resetAt /\ row.used = usage.used + 1
         \/ row.resetAt > usage.resetAt /\ row.used = 1
  PROVE  QuotaInv'
<1> USE DEF QuotaInv
<1>1. usage.resetAt \in Int /\ usage.used \in Int /\ usage.resetAt > 0
  BY DEF QuotaTypeOK, Usage, CallInv
<1>2. row.resetAt \in Int /\ row.used \in Int /\ row.resetAt >= usage.resetAt
      /\ row.used >= 0
  BY <1>1 DEF Usage, QuotaTypeOK
<1>3. QuotaTypeOK'
  BY <1>2 DEF QuotaTypeOK
<1>4. LimitInv'
  BY QuotaConstants DEF LimitInv, QuotaTypeOK
<1>5. CallInv'
  <2>1. \A d \in Calls : call[d] \in Call /\ d # c => call'[d] = call[d]
    BY DEF QuotaTypeOK
  <2>2. call'[c] = new
    BY DEF QuotaTypeOK
  <2>3. \A d \in Calls : /\ call[d].charged \in Int /\ call[d].resetAt \in Int
                         /\ call[d].now \in Int
    BY DEF QuotaTypeOK, Call
  <2> QED
    BY <1>1, <1>2, <2>1, <2>2, <2>3 DEF CallInv, Where, Call, Reserving, QuotaTypeOK
<1>6. CASE row.resetAt = usage.resetAt /\ row.used = usage.used + 1
  <2>1. Charged' = Charged \cup {c} /\ c \notin Charged
    BY <1>1, <1>6 DEF Charged, QuotaTypeOK
  <2>2. Cardinality(Charged') = Cardinality(Charged) + 1
    BY <2>1, ChargedIsFinite, FS_AddElement
  <2> QED
    BY <1>3, <1>4, <1>5, <1>6, <2>2, ChargedIsFinite
       DEF UsageIsExact, UsageWithinPlans, Charged
<1>7. CASE row.resetAt > usage.resetAt /\ row.used = 1
  <2>1. Charged' = {c}
    BY <1>1, <1>2, <1>7 DEF Charged, QuotaTypeOK, CallInv, Call
  <2>2. Cardinality(Charged') = 1
    BY <2>1, FS_Singleton
  <2> QED
    BY <1>3, <1>4, <1>5, <1>7, <2>2 DEF UsageIsExact, UsageWithinPlans, Charged
<1> QED BY <1>6, <1>7

\* The first reservation of a month, which resets the row.
LEMMA FirstReservation ==
  ASSUME QuotaInv, NEW c \in Calls, ReserveAfterReset(c)
  PROVE  QuotaInv'
<1> USE DEF QuotaInv
<1>1. CASE UNCHANGED usage
  BY <1>1, QuietSteps
<1>2. CASE usage' # usage
  <2> DEFINE next == NextReset(call[c].now)
             new  == Reserved("held", next, next)
             row  == [used |-> 1, resetAt |-> next]
  <2>1. call[c].now \in Nat /\ usage.resetAt \in Int /\ usage.resetAt > 0
    BY DEF QuotaTypeOK, CallInv, Call, Usage
  <2>2. next \in Int /\ next > call[c].now
    BY <2>1, NextResetIsLater
  <2> HIDE DEF next
  <2>3. usage.resetAt < call[c].now /\ call[c].charged = 0
    BY DEF ReserveAfterReset, ResetDue, Where, CallInv, Reserving
  <2>4. usage' = row /\ call' = [call EXCEPT ![c] = new]
        /\ (limit = Unlimited \/ limit >= 1)
    BY <1>2 DEF ReserveAfterReset, next
  <2>5. next > usage.resetAt /\ next > 0
    BY <2>1, <2>2, <2>3
  <2>6. new \in Call /\ row \in Usage
    BY <2>2, ReservedIsTyped DEF Usage
  <2>7. /\ new.pc = "held" /\ new.charged = row.resetAt /\ new.limit = 0
        /\ new.now = 0 /\ new.resetAt = next /\ row.resetAt = next
        /\ row.used = 1
    BY DEF Reserved
  <2>8. row.used <= peak
    <3>1. Cardinality(Calls) >= 1
      <4>1. Calls # {}
        OBVIOUS
      <4> QED BY <4>1, FS_EmptySet, FS_CardinalityType, QuotaConstants
    <3>2. Unlimited >= 1
      BY <3>1, FS_CardinalityType, QuotaConstants
    <3> QED
      BY <2>4, <2>7, <3>2, QuotaConstants DEF LimitInv, QuotaTypeOK
  <2>9. UNCHANGED <<date, limit, peak, faultsLeft>>
    BY DEF ReserveAfterReset
  <2> HIDE DEF new, row
  <2>10. /\ new.pc = "held" /\ new.charged = row.resetAt /\ new.limit = 0
         /\ 0 <= new.now /\ 0 < new.resetAt /\ new.resetAt <= row.resetAt
         /\ row.resetAt > usage.resetAt /\ row.used = 1
    BY <2>2, <2>5, <2>7
  <2> QED
    BY <2>3, <2>4, <2>6, <2>8, <2>9, <2>10, ChargeCall
<1> QED BY <1>1, <1>2

\* The conditional increment.
LEMMA CountedReservation ==
  ASSUME QuotaInv, NEW c \in Calls, Increment(c)
  PROVE  QuotaInv'
<1> USE DEF QuotaInv
<1>1. CASE UNCHANGED usage
  BY <1>1, QuietSteps
<1>2. CASE usage' # usage
  <2> DEFINE new == Reserved("held", call[c].resetAt, usage.resetAt)
             row == [usage EXCEPT !.used = usage.used + 1]
  <2>1. call[c] \in Call /\ usage \in Usage /\ usage.resetAt > 0
        /\ usage.used \in Nat
    BY DEF QuotaTypeOK, CallInv, Usage
  <2>2. usage' = row /\ call' = [call EXCEPT ![c] = new] /\ Fits(c)
    BY <1>2 DEF Increment
  <2>3. /\ call[c].charged = 0 /\ 0 < call[c].resetAt /\ 0 <= call[c].now
        /\ call[c].resetAt <= usage.resetAt /\ call[c].limit <= peak
    BY DEF Increment, Where, CallInv, LimitInv, Reserving
  <2>4. new \in Call /\ row \in Usage
    <3>1. row \in Usage
      BY <2>1 DEF Usage
    <3>2. call[c].resetAt \in Int /\ usage.resetAt \in Int
      BY <2>1 DEF Call, Usage
    <3> QED BY <3>1, <3>2, ReservedIsTyped
  <2>5. /\ new.pc = "held" /\ new.charged = row.resetAt /\ new.limit = 0
        /\ new.now = 0 /\ new.resetAt = call[c].resetAt
        /\ row.resetAt = usage.resetAt /\ row.used = usage.used + 1
    BY <2>1 DEF Reserved, Usage
  <2>6. row.used <= peak
    <3>1. CASE call[c].limit = Unlimited
      <4>1. c \notin Charged /\ Charged \cup {c} \subseteq Calls
        BY <2>1, <2>3 DEF Charged
      <4>2. Cardinality(Charged \cup {c}) = Cardinality(Charged) + 1
        BY <4>1, ChargedIsFinite, FS_AddElement
      <4>3. Cardinality(Charged \cup {c}) <= Cardinality(Calls)
        BY <4>1, FS_Subset, QuotaConstants
      <4>4. row.used <= Cardinality(Calls)
        BY <2>5, <4>2, <4>3, ChargedIsFinite
      <4>5. Cardinality(Calls) \in Nat /\ row.used \in Int /\ peak \in Nat
        BY <2>4, FS_CardinalityType, QuotaConstants DEF Usage, QuotaTypeOK
      <4> QED
        BY <2>3, <3>1, <4>4, <4>5, QuotaConstants
    <3>2. CASE usage.used <= call[c].limit - 1
      BY <2>1, <2>3, <2>5, <3>2, QuotaConstants DEF Call, QuotaTypeOK
    <3> QED BY <2>2, <3>1, <3>2 DEF Fits
  <2>7. UNCHANGED <<date, limit, peak, faultsLeft>>
    BY DEF Increment
  <2> HIDE DEF new, row
  <2>8. 0 <= new.now /\ 0 < new.resetAt /\ new.resetAt <= row.resetAt
    BY <2>3, <2>5
  <2> QED
    BY <2>2, <2>3, <2>4, <2>5, <2>6, <2>7, <2>8, ChargeCall
<1> QED BY <1>1, <1>2

\* The guarded decrement: the unit it takes back is the call's own.
LEMMA GuardedRelease ==
  ASSUME QuotaInv, NEW c \in Calls, Release(c)
  PROVE  QuotaInv'
<1> USE DEF QuotaInv
<1>1. CASE UNCHANGED usage
  BY <1>1, QuietSteps
<1>2. CASE usage' # usage
  <2> DEFINE new == Reserved("released", call[c].resetAt, 0)
             row == [usage EXCEPT !.used = usage.used - 1]
  <2>1. call[c] \in Call /\ usage \in Usage /\ usage.resetAt > 0
        /\ usage.resetAt \in Int /\ usage.used \in Int /\ peak \in Int
    BY QuotaConstants DEF QuotaTypeOK, CallInv, Usage
  <2>2. usage' = row /\ call' = [call EXCEPT ![c] = new]
        /\ usage.resetAt = call[c].resetAt /\ usage.used >= 1 /\ Where(c, "held")
        /\ UNCHANGED <<date, limit, peak, faultsLeft>>
    BY <1>2 DEF Release, Releasable
  <2>3. new \in Call /\ new.pc = "released" /\ new.charged = 0
        /\ new.now = 0 /\ new.limit = 0 /\ new.resetAt = call[c].resetAt
    <3>1. call[c].resetAt \in Int
      BY <2>1 DEF Call
    <3> QED BY <3>1, ReservedIsTyped DEF Reserved
  <2>4. row \in Usage /\ row.resetAt = usage.resetAt
        /\ row.used = usage.used - 1
    BY <2>1 DEF Usage
  <2> HIDE DEF new, row
  <2>5. call'[c] = new /\ \A d \in Calls : d # c => call'[d] = call[d]
    BY <2>2 DEF QuotaTypeOK
  <2>6. QuotaTypeOK'
    BY <2>1, <2>2, <2>3, <2>4 DEF QuotaTypeOK
  <2>7. LimitInv'
    BY <2>1, <2>2, <2>3, <2>5, QuotaConstants DEF LimitInv, QuotaTypeOK
  <2>8. CallInv'
    <3>1. usage'.resetAt = usage.resetAt
      BY <2>2, <2>4
    <3> QED BY <2>1, <2>3, <2>5, <3>1 DEF CallInv, Where, Reserving
  <2>9. Charged' = Charged \ {c} /\ c \in Charged
    <3>1. call[c].charged = usage.resetAt
      BY <2>1, <2>2 DEF CallInv, Call
    <3> QED BY <2>1, <2>2, <2>3, <2>4, <2>5, <3>1 DEF Charged
  <2>10. Cardinality(Charged') = Cardinality(Charged) - 1
    BY <2>9, ChargedIsFinite, FS_RemoveElement
  <2>11. UsageIsExact'
    BY <2>2, <2>4, <2>10, ChargedIsFinite DEF UsageIsExact, Charged
  <2>12. UsageWithinPlans'
    BY <2>1, <2>2, <2>4 DEF UsageWithinPlans
  <2> QED BY <2>6, <2>7, <2>8, <2>11, <2>12
<1> QED BY <1>1, <1>2

\* A reset that another reservation, or a reader, commits: every unit belongs to
\* a period that is over.
LEMMA ForeignReset ==
  ASSUME QuotaInv, ResetByOther
  PROVE  QuotaInv'
<1> USE DEF QuotaInv
<1> DEFINE next == NextReset(date)
<1>1. next \in Int /\ next > date
  BY NextResetIsLater DEF QuotaTypeOK
<1>2. usage.resetAt \in Int /\ usage.resetAt > 0 /\ usage.resetAt < date
      /\ date \in Nat
  BY DEF QuotaTypeOK, Usage, CallInv, ResetByOther, ResetDue
<1>3. usage' = [used |-> 0, resetAt |-> next]
      /\ UNCHANGED <<date, limit, peak, call, faultsLeft>>
  BY DEF ResetByOther
<1> HIDE DEF next
<1>4. usage' \in Usage /\ usage'.used = 0 /\ usage'.resetAt = next
      /\ next > usage.resetAt
  BY <1>1, <1>2, <1>3 DEF Usage
<1>5. \A c \in Calls : call[c] \in Call /\ call[c].charged < next
                       /\ call[c].resetAt < next
  BY <1>1, <1>2, <1>4 DEF CallInv, QuotaTypeOK, Call
<1>6. QuotaTypeOK'
  BY <1>3, <1>4 DEF QuotaTypeOK
<1>7. LimitInv'
  BY <1>3 DEF LimitInv
<1>8. CallInv'
  BY <1>1, <1>2, <1>3, <1>4, <1>5 DEF CallInv, Where, Call
<1>9. Charged' = {}
  BY <1>1, <1>3, <1>4, <1>5 DEF Charged, Call
<1>10. UsageIsExact'
  BY <1>4, <1>9, FS_EmptySet DEF UsageIsExact, Charged
<1>11. UsageWithinPlans'
  BY <1>3, <1>4, QuotaConstants DEF UsageWithinPlans, QuotaTypeOK
<1> QED BY <1>6, <1>7, <1>8, <1>10, <1>11

\* Every step keeps QuotaInv.
LEMMA NextQuota == QuotaInv /\ [QuotaNext]_quotaVars => QuotaInv'
<1> SUFFICES ASSUME QuotaInv, [QuotaNext]_quotaVars PROVE QuotaInv'
  OBVIOUS
<1>1. CASE UNCHANGED <<limit, peak, usage, call, faultsLeft>> /\ date' \in Nat
  BY <1>1 DEF QuotaInv, QuotaTypeOK, LimitInv, CallInv, Where, UsageIsExact,
              UsageWithinPlans
<1>2. CASE DatePasses
  BY <1>1, <1>2 DEF DatePasses, QuotaInv, QuotaTypeOK
<1>3. CASE ChangeLimit
  <2>1. limit' \in Limits /\ peak' \in Limits /\ limit' <= peak'
        /\ peak <= peak' /\ UNCHANGED <<date, usage, call, faultsLeft>>
    BY <1>3, QuotaConstants DEF ChangeLimit, QuotaInv, QuotaTypeOK
  <2>2. peak \in Int /\ peak' \in Int /\ usage.used \in Int
        /\ \A c \in Calls : call[c].limit \in Int
    BY <2>1, QuotaConstants DEF QuotaInv, QuotaTypeOK, Call, Usage
  <2>3. QuotaTypeOK'
    BY <2>1 DEF QuotaInv, QuotaTypeOK
  <2>4. LimitInv' /\ UsageWithinPlans'
    BY <2>1, <2>2 DEF QuotaInv, LimitInv, UsageWithinPlans
  <2>5. CallInv' /\ UsageIsExact'
    BY <2>1 DEF QuotaInv, CallInv, Where, UsageIsExact
  <2> QED BY <2>3, <2>4, <2>5 DEF QuotaInv
<1>4. CASE ResetByOther
  BY <1>4, ForeignReset
<1>5. ASSUME NEW c \in Calls, Reserve(c) \/ Keep(c) \/ Release(c) \/ Lose(c)
      PROVE  QuotaInv'
  BY <1>5, QuietSteps, FirstReservation, CountedReservation, GuardedRelease
     DEF Reserve
<1>6. CASE UNCHANGED quotaVars
  BY <1>1, <1>6 DEF quotaVars, QuotaInv, QuotaTypeOK
<1> QED
  BY <1>2, <1>3, <1>4, <1>5, <1>6 DEF QuotaNext

-----------------------------------------------------------------------------
LEMMA QuotaHolds == QuotaSpec => []QuotaInv
BY InitQuota, NextQuota, PTL DEF QuotaSpec

\* The counter is a natural number in every state: no release, however late,
\* decrements it below zero.
THEOREM CounterIsTyped == QuotaSpec => []QuotaTypeOK
<1>1. QuotaInv => QuotaTypeOK
  BY DEF QuotaInv
<1> QED BY <1>1, QuotaHolds, PTL

\* The counter is exactly the number of calls charged in its period, for any
\* number of calls that reserve, release and fail across resets.
THEOREM CounterIsExact == QuotaSpec => []UsageIsExact
<1>1. QuotaInv => UsageIsExact
  BY DEF QuotaInv
<1> QED BY <1>1, QuotaHolds, PTL

\* No race of reservations takes the counter past the highest limit in force.
THEOREM CounterWithinPlans == QuotaSpec => []UsageWithinPlans
<1>1. QuotaInv => UsageWithinPlans
  BY DEF QuotaInv
<1> QED BY <1>1, QuotaHolds, PTL

\* Only a reset inside its reservation leaves a failed call charged.
THEOREM RefundMissesOnlyAtReset == QuotaSpec => []RefundMissesOnlyRollover
<1>1. QuotaInv => RefundMissesOnlyRollover
  BY DEF QuotaInv, CallInv, RefundMissesOnlyRollover
<1> QED BY <1>1, QuotaHolds, PTL

-----------------------------------------------------------------------------
(* What is known of one attempt.                                           *)

Answered(a) == attempt[a].effectiveAt # 0

\* An intent is written by its own attempt, one step at a time.
IntentFollows(a) ==
  /\ attempt[a].pc \in {"new", "activate", "create"} =>
       intents[a].state = "absent" /\ ~Answered(a)
  /\ attempt[a].pc = "calling" => intents[a].state = "pending" /\ ~Answered(a)
  /\ attempt[a].pc \in {"finalize", "done"} => Answered(a)
  /\ Answered(a) => intents[a].state # "absent"
  /\ intents[a].state # "absent" => intents[a].startedAt = attempt[a].startedAt
  /\ intents[a].state \in {"uncosted", "costed"} =>
       intents[a].effectiveAt = attempt[a].effectiveAt /\ Answered(a)
  /\ intents[a].state \in {"absent", "pending"} => intents[a].effectiveAt = 0

\* An attempt begins, activates the capture and is answered in this order.
TimesFollow(a) ==
  /\ attempt[a].pc # "new" => 1 <= attempt[a].startedAt
  /\ attempt[a].startedAt <= clock /\ attempt[a].effectiveAt <= clock
  /\ attempt[a].pc \in {"create", "calling", "finalize", "done"} \/ Answered(a) =>
       activatedAt # 0 /\ MetricsStart <= attempt[a].startedAt
  /\ Answered(a) => /\ attempt[a].startedAt <= attempt[a].effectiveAt
                    /\ activatedAt <= attempt[a].effectiveAt

AttemptInv ==
  /\ activatedAt <= clock
  /\ \A a \in Attempts : IntentFollows(a) /\ TimesFollow(a)

\* The tables are as their types say, the counters of a day included: no
\* decrement goes below zero because the counters match.
LedgerInv ==
  /\ TablesOK /\ AttemptInv /\ DailyCounts /\ OnePricePerAttempt
  /\ DailyAmounts /\ IsFiniteSet(Units(events))

-----------------------------------------------------------------------------
(* Days and counters.                                                      *)

LEMMA TimeIsNat == Times \subseteq Nat \ {0}
BY ConstantsAssumption DEF Times

LEMMA DayInDays ==
  ASSUME NEW t \in Nat, t <= MaxClock
  PROVE  Day(t) \in Days
<1>1. t \div DayLength \in Nat /\ MaxClock \div DayLength \in Nat
  BY ConstantsAssumption
<1>2. t \div DayLength <= MaxClock \div DayLength
  BY ConstantsAssumption
<1> QED BY <1>1, <1>2 DEF Day, Days

\* A time lies on the day whose bounds it lies between.
LEMMA DayBounds ==
  ASSUME NEW t \in Nat, NEW d \in Nat
  PROVE  Day(t) = d <=> d * DayLength <= t /\ t < (d + 1) * DayLength
<1> DEFINE q == t \div DayLength
<1>1. q \in Nat /\ q * DayLength <= t /\ t < (q + 1) * DayLength
  BY ConstantsAssumption
<1>2. DayLength \in Nat /\ DayLength > 0
  BY ConstantsAssumption
<1>3. Day(t) = q
  BY DEF Day
<1> HIDE DEF q
<1>4. ASSUME NEW i \in Nat, NEW j \in Nat, i < j
      PROVE  (i + 1) * DayLength <= j * DayLength
  BY <1>2, <1>4
<1> QED
  <2>1. CASE q = d
    BY <1>1, <1>3, <2>1
  <2>2. CASE q < d
    BY <1>1, <1>2, <1>3, <1>4, <2>2
  <2>3. CASE d < q
    BY <1>1, <1>2, <1>3, <1>4, <2>3
  <2> QED BY <1>1, <2>1, <2>2, <2>3

LEMMA RecordedIsFinite ==
  ASSUME NEW state, NEW d
  PROVE  IsFiniteSet(Recorded(state, d)) /\ Cardinality(Recorded(state, d)) \in Nat
<1>1. Recorded(state, d) \subseteq Attempts
  BY DEF Recorded
<1>2. IsFiniteSet(Recorded(state, d))
  BY <1>1, FS_Subset, ConstantsAssumption
<1> QED BY <1>2, FS_CardinalityType

\* The intents of the others are left alone.
OthersStay(a) == \A b \in Attempts \ {a} : intents'[b] = intents[b]

\* An intent that enters a state of a day adds one to it.
LEMMA RecordedGains ==
  ASSUME NEW a \in Attempts, OthersStay(a), NEW state, NEW d,
         a \notin Recorded(state, d),
         intents'[a].state = state, Day(intents'[a].effectiveAt) = d
  PROVE  Cardinality(Recorded(state, d)') = Cardinality(Recorded(state, d)) + 1
<1>1. Recorded(state, d)' = Recorded(state, d) \cup {a}
  BY DEF Recorded, OthersStay
<1> QED BY <1>1, RecordedIsFinite, FS_AddElement

\* One that leaves it takes one.
LEMMA RecordedLoses ==
  ASSUME NEW a \in Attempts, OthersStay(a), NEW state, NEW d,
         a \in Recorded(state, d), intents'[a].state # state
  PROVE  /\ Cardinality(Recorded(state, d)') = Cardinality(Recorded(state, d)) - 1
         /\ Cardinality(Recorded(state, d)) >= 1
<1>1. Recorded(state, d)' = Recorded(state, d) \ {a}
  BY DEF Recorded, OthersStay
<1>2. Cardinality(Recorded(state, d) \ {a}) = Cardinality(Recorded(state, d)) - 1
      /\ Cardinality(Recorded(state, d) \ {a}) \in Nat
  BY RecordedIsFinite, FS_RemoveElement, FS_CardinalityType
<1> QED BY <1>1, <1>2, RecordedIsFinite

\* The other states and days keep what they have.
LEMMA RecordedStays ==
  ASSUME NEW a \in Attempts, OthersStay(a), NEW state, NEW d,
         a \notin Recorded(state, d),
         intents'[a].state # state \/ Day(intents'[a].effectiveAt) # d
  PROVE  Recorded(state, d)' = Recorded(state, d)
BY DEF Recorded, OthersStay

-----------------------------------------------------------------------------
(* Sums of amounts.                                                        *)

LEMMA UnitsOfPart ==
  ASSUME NEW E, IsFiniteSet(Units(E)), NEW P \in SUBSET E
  PROVE  IsFiniteSet(Units(P)) /\ SumOf(P) \in Nat
<1>1. Units(P) \subseteq Units(E)
  BY DEF Units
<1>2. IsFiniteSet(Units(P))
  BY <1>1, FS_Subset
<1> QED BY <1>2, FS_CardinalityType DEF SumOf

\* An event adds its amount to the sum of others.
LEMMA SumAdds ==
  ASSUME NEW E, IsFiniteSet(Units(E)), NEW new, new \notin E, new.amount \in Nat
  PROVE  /\ IsFiniteSet(Units(E \cup {new}))
         /\ SumOf(E \cup {new}) = SumOf(E) + new.amount
<1>0. PICK n \in Nat : n = new.amount
  OBVIOUS
<1> DEFINE own == {new} \X (1..n)
<1>1. IsFiniteSet(1..n) /\ Cardinality(1..n) = n
  BY FS_Interval
<1>2. IsFiniteSet({new}) /\ Cardinality({new}) = 1
  BY FS_Singleton
<1>3. IsFiniteSet(own) /\ Cardinality(own) = n
  <2>1. IsFiniteSet(own) /\ Cardinality(own) = Cardinality({new}) * Cardinality(1..n)
    BY <1>1, <1>2, FS_Product
  <2> QED BY <1>1, <1>2, <2>1
<1>4. Units(E \cup {new}) = Units(E) \cup own
  BY <1>0 DEF Units
<1>5. Units(E) \cap own = {}
  BY DEF Units
<1> HIDE DEF own
<1>6. SumOf(E) = Cardinality(Units(E)) /\ SumOf(E) \in Nat
  BY FS_CardinalityType DEF SumOf
<1>7. Cardinality({}) = 0
  BY FS_EmptySet
<1>8. /\ IsFiniteSet(Units(E) \cup own)
      /\ Cardinality(Units(E) \cup own)
           = Cardinality(Units(E)) + Cardinality(own) - Cardinality({})
  BY <1>3, <1>5, FS_Union, Zenon
<1>9. /\ IsFiniteSet(Units(E \cup {new}))
      /\ SumOf(E \cup {new}) = SumOf(E) + n - 0
  BY <1>3, <1>4, <1>6, <1>7, <1>8, Zenon DEF SumOf
<1> QED BY <1>0, <1>6, <1>9

\* Amounts that are added up part by part, one part for every member of D, are
\* the amounts of all events: each of them lies in one part.
InParts(E, D, Part, total) ==
  /\ \A d \in D : /\ Part[d] \subseteq E
                  /\ total[d] \in Nat /\ total[d] = SumOf(Part[d])
  /\ \A e \in E : \E d \in D : e \in Part[d]
  /\ \A c, d \in D : \A e \in E : e \in Part[c] /\ e \in Part[d] => c = d

LEMMA PartsAddUp ==
  ASSUME NEW E, IsFiniteSet(Units(E)), NEW D, NEW total, NEW Part,
         InParts(E, D, Part, total)
  PROVE  Cardinality(UNION {{d} \X (1..total[d]) : d \in D}) = SumOf(E)
<1> DEFINE A == UNION {{d} \X (1..total[d]) : d \in D}
           place == [d \in D |->
             CHOOSE f \in Bijection(1..total[d], Units(Part[d])) : TRUE]
           unit == [p \in A |-> place[p[1]][p[2]]]
<1> USE DEF InParts
<1>1. ASSUME NEW d \in D
      PROVE  place[d] \in Bijection(1..total[d], Units(Part[d]))
  <2>1. Units(Part[d]) \subseteq Units(E)
    BY DEF Units
  <2>2. IsFiniteSet(Units(Part[d]))
    BY <2>1, FS_Subset
  <2>3. ExistsBijection(1..Cardinality(Units(Part[d])), Units(Part[d]))
    BY <2>2, FS_CardinalityType
  <2>4. Bijection(1..total[d], Units(Part[d])) # {}
    BY <2>3 DEF ExistsBijection, SumOf
  <2> QED BY <2>4
<1> HIDE DEF place
<1>2. \A p : p \in A <=> \E d \in D : \E n \in 1..total[d] : p = <<d, n>>
  OBVIOUS
<1>3. \A p \in A : /\ p[1] \in D /\ p[2] \in 1..total[p[1]]
                   /\ p = <<p[1], p[2]>>
  BY <1>2
<1>4. \A d \in D : \A n \in 1..total[d] : <<d, n>> \in A
  BY <1>2
<1> HIDE DEF A
<1>5. ASSUME NEW P PROVE \A u : u \in Units(P) <=>
         \E e \in P : \E n \in 1..e.amount : u = <<e, n>>
  BY DEF Units
<1>6. ASSUME NEW d \in D
      PROVE  /\ \A n \in 1..total[d] : place[d][n] \in Units(Part[d])
             /\ \A m, n \in 1..total[d] : place[d][m] = place[d][n] => m = n
             /\ \A u \in Units(Part[d]) : \E n \in 1..total[d] : place[d][n] = u
  BY <1>1, Fun_BijectionProperties
<1>7. \A p \in A : unit[p] = place[p[1]][p[2]] /\ unit[p] \in Units(Part[p[1]])
  BY <1>3, <1>6
<1>8. unit \in [A -> Units(E)]
  <2>1. \A d \in D : Units(Part[d]) \subseteq Units(E)
    BY DEF Units
  <2> QED BY <1>3, <1>7, <2>1
<1>9. \A p, q \in A : unit[p] = unit[q] => p = q
  <2> SUFFICES ASSUME NEW p \in A, NEW q \in A, unit[p] = unit[q] PROVE p = q
    OBVIOUS
  <2>1. PICK e \in Part[p[1]] : \E n \in 1..e.amount : unit[p] = <<e, n>>
    BY <1>5, <1>7
  <2>2. PICK f \in Part[q[1]] : \E n \in 1..f.amount : unit[p] = <<f, n>>
    BY <1>5, <1>7
  <2>3. e = f /\ e \in E
    BY <1>3, <2>1, <2>2
  <2>4. p[1] = q[1]
    BY <1>3, <2>1, <2>2, <2>3
  <2>5. p[2] = q[2]
    BY <1>3, <1>6, <1>7, <2>4
  <2> QED BY <1>3, <2>4, <2>5
<1>10. \A u \in Units(E) : \E p \in A : unit[p] = u
  <2> SUFFICES ASSUME NEW u \in Units(E) PROVE \E p \in A : unit[p] = u
    OBVIOUS
  <2>1. PICK e \in E : \E n \in 1..e.amount : u = <<e, n>>
    BY <1>5
  <2>2. PICK d \in D : e \in Part[d]
    BY <2>1
  <2>3. u \in Units(Part[d])
    BY <1>5, <2>1, <2>2
  <2>4. PICK n \in 1..total[d] : place[d][n] = u
    BY <1>6, <2>3
  <2>5. <<d, n>> \in A /\ <<d, n>>[1] = d /\ <<d, n>>[2] = n
    BY <1>4
  <2> QED BY <1>7, <2>4, <2>5
<1> HIDE DEF unit
<1>11. unit \in Bijection(A, Units(E))
  BY <1>8, <1>9, <1>10, Fun_IsBij
<1>12. ExistsBijection(Units(E), A)
  <2>1. ExistsBijection(A, Units(E))
    BY <1>11 DEF ExistsBijection
  <2> QED BY <2>1, Fun_ExistsBijSymmetric
<1>13. Cardinality(A) = Cardinality(Units(E))
  BY <1>12, FS_Bijection
<1> QED BY <1>13 DEF SumOf, A
\* A price is added to the metric of its day, and to no other.
LEMMA AmountsKeep ==
  ASSUME DailyAmounts, IsFiniteSet(Units(events)), NEW d \in Days,
         NEW new, new \notin events, new.amount \in Nat,
         Day(new.effectiveAt) = d, events' = events \cup {new},
         daily'[d].estimated = daily[d].estimated + new.amount,
         \A e \in Days \ {d} : daily'[e].estimated = daily[e].estimated
  PROVE  DailyAmounts' /\ IsFiniteSet(Units(events'))
<1>1. IsFiniteSet(Units(events'))
  BY SumAdds
<1>2. EventsOn(d)' = EventsOn(d) \cup {new} /\ new \notin EventsOn(d)
  BY DEF EventsOn
<1>3. \A e \in Days \ {d} : EventsOn(e)' = EventsOn(e)
  BY DEF EventsOn
<1>4. IsFiniteSet(Units(EventsOn(d)))
  BY UnitsOfPart DEF EventsOn
<1>5. SumOf(EventsOn(d)') = SumOf(EventsOn(d)) + new.amount
  BY <1>2, <1>4, SumAdds
<1>6. ASSUME NEW e \in Days PROVE daily'[e].estimated = SumOf(EventsOn(e)')
  <2>1. CASE e = d
    BY <1>5, <2>1 DEF DailyAmounts
  <2>2. CASE e # d
    BY <1>3, <2>2 DEF DailyAmounts
  <2> QED BY <2>1, <2>2
<1>7. DailyAmounts'
  BY <1>6, Zenon DEF DailyAmounts, SumOf, Units, EventsOn
<1> QED BY <1>1, <1>7

\* What adds no event and leaves the sums of the days alone.
LEMMA AmountsStay ==
  ASSUME DailyAmounts, IsFiniteSet(Units(events)), UNCHANGED events,
         \A e \in Days : daily'[e].estimated = daily[e].estimated
  PROVE  DailyAmounts' /\ IsFiniteSet(Units(events'))
BY DEF DailyAmounts, EventsOn

-----------------------------------------------------------------------------
LEMMA InitLedger == Init => LedgerInv
<1> SUFFICES ASSUME Init PROVE LedgerInv
  OBVIOUS
<1>1. TablesOK
  <2>1. clock \in Times /\ activatedAt \in Nat /\ events \subseteq Event
    BY ConstantsAssumption DEF Init, Times
  <2>2. intents \in [Attempts -> Intent]
    BY DEF Init, Intent
  <2>3. daily \in [Days -> Metric]
    BY DEF Init, Metric
  <2>4. attempt \in [Attempts -> Attempt]
    BY DEF Init, Attempt
  <2> QED BY <2>1, <2>2, <2>3, <2>4 DEF TablesOK
<1>2. AttemptInv
  BY DEF Init, AttemptInv, IntentFollows, TimesFollow, Answered
<1>3. \A state \in {"costed", "uncosted"}, d \in Days : Recorded(state, d) = {}
  BY DEF Init, Recorded
<1>4. DailyCounts
  <2>1. \A d \in Days : daily[d].costed = 0 /\ daily[d].uncosted = 0
    BY DEF Init
  <2> QED BY <1>3, <2>1, FS_EmptySet DEF DailyCounts
<1>5. OnePricePerAttempt
  BY DEF Init, OnePricePerAttempt
<1>6. events = {} /\ Units({}) = {} /\ SumOf({}) = 0
  BY FS_EmptySet DEF Init, Units, SumOf
<1>7. DailyAmounts
  <2>1. \A d \in Days : daily[d].estimated = 0 /\ EventsOn(d) = {}
    BY DEF Init, EventsOn
  <2> QED BY <1>6, <2>1 DEF DailyAmounts
<1> QED BY <1>1, <1>2, <1>4, <1>5, <1>6, <1>7, FS_EmptySet DEF LedgerInv

\* What changes neither intents nor events nor metrics.
LEMMA TablesStay ==
  ASSUME LedgerInv, TablesOK', AttemptInv', UNCHANGED <<intents, events, daily>>
  PROVE  LedgerInv'
<1>1. \A state \in {"costed", "uncosted"}, d \in Days :
        Recorded(state, d)' = Recorded(state, d)
  BY DEF Recorded
<1>2. DailyCounts'
  BY <1>1 DEF LedgerInv, DailyCounts
<1>3. OnePricePerAttempt'
  BY DEF LedgerInv, OnePricePerAttempt
<1> QED BY <1>2, <1>3, AmountsStay DEF LedgerInv

\* The steps of an attempt before and after the ledger's transactions.
LEMMA AttemptKeeps ==
  ASSUME LedgerInv, NEW a \in Attempts,
         \/ Begin(a) \/ Activate(a) \/ TransportFails(a) \/ FinalizeFails(a)
         \/ Redeliver(a) \/ \E price \in Estimates \cup {Unknown} : Answer(a, price)
  PROVE  LedgerInv'
<1> USE DEF LedgerInv, TablesOK, AttemptInv, IntentFollows, TimesFollow, Answered,
            At, Goto
<1>0. /\ attempt[a] \in Attempt /\ clock \in Nat \ {0} /\ MetricsStart \in Nat \ {0}
      /\ \A b \in Attempts : attempt[b] \in Attempt
  BY TimeIsNat, ConstantsAssumption
<1>1. CASE Begin(a)
  <2>1. attempt'[a] = [attempt[a] EXCEPT !.pc = "activate", !.startedAt = clock]
        /\ \A b \in Attempts \ {a} : attempt'[b] = attempt[b]
    BY <1>1, <1>0 DEF Begin, Attempt
  <2>2. attempt' \in [Attempts -> Attempt]
    BY <1>1, <1>0 DEF Begin, Attempt
  <2>3. /\ attempt'[a].pc = "activate" /\ attempt'[a].startedAt = clock
        /\ attempt'[a].effectiveAt = attempt[a].effectiveAt
    BY <1>0, <2>1 DEF Attempt
  <2>4. TablesOK' /\ AttemptInv'
    BY <1>0, <1>1, <2>1, <2>2, <2>3 DEF Begin
  <2> QED BY <1>1, <2>4, TablesStay DEF Begin
<1>2. CASE Activate(a)
  <2>1. PICK pc \in {"failed", "create"} :
          /\ attempt' = [attempt EXCEPT ![a].pc = pc]
          /\ pc = "failed" => activatedAt' = activatedAt
          /\ pc = "create" => /\ MetricsStart <= attempt[a].startedAt
                              /\ activatedAt' = Activation(a)
    BY <1>0, <1>2 DEF Activate, Attempt
  <2>2. /\ attempt'[a].pc = pc /\ attempt'[a].startedAt = attempt[a].startedAt
        /\ attempt'[a].effectiveAt = attempt[a].effectiveAt
        /\ \A b \in Attempts \ {a} : attempt'[b] = attempt[b]
        /\ attempt' \in [Attempts -> Attempt]
    BY <1>0, <2>1 DEF Attempt
  <2>3. /\ activatedAt' \in Nat /\ activatedAt' <= clock
        /\ activatedAt # 0 => activatedAt' = activatedAt
        /\ pc = "create" => activatedAt' # 0
    BY <1>0, <1>2, <2>1 DEF Activation, Activate, Attempt
  <2>4. TablesOK' /\ AttemptInv'
    BY <1>0, <1>2, <2>1, <2>2, <2>3 DEF Activate, Attempt
  <2> QED BY <1>2, <2>4, TablesStay DEF Activate
<1>3. CASE TransportFails(a) \/ FinalizeFails(a) \/ Redeliver(a)
  <2>1. PICK pc \in {"failed", "finalize"} :
          /\ attempt' = [attempt EXCEPT ![a].pc = pc]
          /\ pc = "finalize" => attempt[a].pc = "done"
    BY <1>3 DEF TransportFails, FinalizeFails, Redeliver
  <2>2. /\ attempt'[a].pc = pc /\ attempt'[a].startedAt = attempt[a].startedAt
        /\ attempt'[a].effectiveAt = attempt[a].effectiveAt
        /\ \A b \in Attempts \ {a} : attempt'[b] = attempt[b]
        /\ attempt' \in [Attempts -> Attempt]
    BY <1>0, <2>1 DEF Attempt
  <2>3. UNCHANGED <<clock, activatedAt, intents, events, daily>>
    BY <1>3 DEF TransportFails, FinalizeFails, Redeliver
  <2>4. attempt[a].pc # "new"
    BY <1>3 DEF TransportFails, FinalizeFails, Redeliver
  <2>5. TablesOK' /\ AttemptInv'
    BY <1>0, <2>1, <2>2, <2>3, <2>4
  <2> QED BY <2>3, <2>5, TablesStay
<1>4. ASSUME NEW price \in Estimates \cup {Unknown}, Answer(a, price)
      PROVE  LedgerInv'
  <2>1. /\ attempt'[a].pc = "finalize" /\ attempt'[a].startedAt = attempt[a].startedAt
        /\ attempt'[a].effectiveAt = clock
        /\ \A b \in Attempts \ {a} : attempt'[b] = attempt[b]
    BY <1>0, <1>4 DEF Answer, Attempt
  <2>2. attempt' \in [Attempts -> Attempt]
    BY <1>0, <1>4 DEF Answer, Attempt
  <2>3. UNCHANGED <<clock, activatedAt, intents, events, daily>>
    BY <1>4 DEF Answer
  <2>4. TablesOK'
    BY <2>2, <2>3
  <2>5. attempt[a].pc = "calling" /\ attempt[a].startedAt \in Nat
    BY <1>0, <1>4 DEF Answer, Attempt
  <2>6. IntentFollows(a)' /\ TimesFollow(a)'
    BY <1>0, <2>1, <2>3, <2>5
  <2>7. \A b \in Attempts \ {a} : IntentFollows(b)' /\ TimesFollow(b)'
    BY <1>0, <2>1, <2>3
  <2>8. AttemptInv'
    BY <2>3, <2>6, <2>7
  <2> QED BY <2>3, <2>4, <2>8, TablesStay
<1> QED BY <1>1, <1>2, <1>3, <1>4

LEMMA CreateKeeps ==
  ASSUME LedgerInv, NEW a \in Attempts, CreateIntent(a)
  PROVE  LedgerInv'
<1>0. /\ attempt[a] \in Attempt /\ intents[a] \in Intent /\ TablesOK /\ AttemptInv
      /\ attempt[a].pc = "create"
      /\ \A b \in Attempts : IntentFollows(b) /\ TimesFollow(b)
  BY DEF LedgerInv, TablesOK, AttemptInv, CreateIntent, At
<1>1. UNCHANGED <<clock, activatedAt, events, daily>>
  BY DEF CreateIntent
<1>2. /\ attempt'[a].pc = "calling" /\ attempt'[a].startedAt = attempt[a].startedAt
      /\ attempt'[a].effectiveAt = attempt[a].effectiveAt
      /\ \A b \in Attempts \ {a} : attempt'[b] = attempt[b]
      /\ attempt' \in [Attempts -> Attempt]
  BY <1>0 DEF CreateIntent, Goto, Attempt, TablesOK
<1>3. /\ intents'[a] = [intents[a] EXCEPT !.state = "pending",
                                          !.startedAt = attempt[a].startedAt]
      /\ OthersStay(a)
  BY <1>0 DEF CreateIntent, TablesOK, Intent, OthersStay
<1>4. /\ intents'[a] \in Intent /\ intents'[a].state = "pending"
      /\ intents'[a].startedAt = attempt[a].startedAt
      /\ intents'[a].effectiveAt = intents[a].effectiveAt
  BY <1>0, <1>3 DEF Intent, Attempt
<1>5. intents' \in [Attempts -> Intent]
  <2>1. intents' = [intents EXCEPT ![a] = intents'[a]]
    BY <1>0, <1>3 DEF CreateIntent, TablesOK, Intent
  <2> QED BY <1>0, <1>4, <2>1 DEF TablesOK
<1>6. TablesOK'
  BY <1>0, <1>1, <1>2, <1>5 DEF TablesOK
<1>7. IntentFollows(a)' /\ TimesFollow(a)'
  BY <1>0, <1>1, <1>2, <1>4 DEF IntentFollows, TimesFollow, Answered
<1>8. \A b \in Attempts \ {a} : IntentFollows(b)' /\ TimesFollow(b)'
  BY <1>0, <1>1, <1>2, <1>3 DEF IntentFollows, TimesFollow, Answered, OthersStay
<1>9. AttemptInv'
  BY <1>0, <1>1, <1>7, <1>8 DEF AttemptInv
<1>10. intents[a].state = "absent"
  BY <1>0 DEF IntentFollows
<1>11. \A state \in {"costed", "uncosted"}, d \in Days :
         Recorded(state, d)' = Recorded(state, d)
  BY <1>3, <1>4, <1>10 DEF Recorded, OthersStay
<1>12. DailyCounts'
  BY <1>1, <1>11 DEF LedgerInv, DailyCounts
<1>13. OnePricePerAttempt'
  <2>1. \A b \in Attempts :
          /\ intents'[b].state = "costed" <=> intents[b].state = "costed"
          /\ intents'[b].effectiveAt = intents[b].effectiveAt
    BY <1>3, <1>4, <1>10 DEF OthersStay
  <2> QED BY <1>1, <2>1 DEF LedgerInv, OnePricePerAttempt
<1> QED BY <1>1, <1>6, <1>9, <1>12, <1>13, AmountsStay DEF LedgerInv

\* An outcome is recorded on the day of the answer: what finalizeInTransaction
\* and resolveUncosted write about the intent of a.
LEMMA PriceKeeps ==
  ASSUME LedgerInv, TablesOK', AttemptInv', NEW a \in Attempts, OthersStay(a),
         intents[a].state \in {"pending", "uncosted"},
         intents'[a].state = "costed",
         NEW kind, NEW amount,
         events' = events \cup
           {[intent |-> a, kind |-> kind, amount |-> amount,
             effectiveAt |-> intents'[a].effectiveAt]}
  PROVE  OnePricePerAttempt'
<1> DEFINE new == [intent |-> a, kind |-> kind, amount |-> amount,
                   effectiveAt |-> intents'[a].effectiveAt]
<1>1. {e \in events : e.intent = a} = {}
  BY DEF LedgerInv, OnePricePerAttempt
<1>2. /\ new.intent = a /\ new.effectiveAt = intents'[a].effectiveAt
      /\ events' = events \cup {new}
  OBVIOUS
<1> HIDE DEF new
<1>3. {e \in events' : e.intent = a} = {new}
  BY <1>1, <1>2
<1>4. \A b \in Attempts \ {a} :
        {e \in events' : e.intent = b} = {e \in events : e.intent = b}
  BY <1>2
<1>5. ASSUME NEW b \in Attempts
      PROVE  LET own == {e \in events' : e.intent = b} IN
             IF intents'[b].state = "costed"
               THEN \E e \in own : own = {e} /\ e.effectiveAt = intents'[b].effectiveAt
               ELSE own = {}
  <2>1. CASE b = a
    BY <1>2, <1>3, <2>1
  <2>2. CASE b # a
    BY <1>4, <2>2 DEF LedgerInv, OnePricePerAttempt, OthersStay
  <2> QED BY <2>1, <2>2
<1> QED BY <1>5 DEF OnePricePerAttempt

LEMMA FinalizeKeeps ==
  ASSUME LedgerInv, NEW a \in Attempts, Finalize(a)
  PROVE  LedgerInv'
<1>0. /\ attempt[a] \in Attempt /\ intents[a] \in Intent /\ TablesOK /\ AttemptInv
      /\ attempt[a].pc = "finalize" /\ clock \in Times
      /\ \A b \in Attempts : IntentFollows(b) /\ TimesFollow(b)
  BY DEF LedgerInv, TablesOK, AttemptInv, Finalize, At
<1>1. UNCHANGED <<clock, activatedAt>>
  BY DEF Finalize
<1>3. PICK at \in Times, d \in Days :
        /\ at = attempt[a].effectiveAt /\ d = Day(attempt[a].effectiveAt)
        /\ at \in Nat \ {0}
  <2> DEFINE t == attempt[a].effectiveAt
  <2>1. t # 0 /\ t <= clock /\ t \in Nat /\ clock \in Nat /\ clock <= MaxClock
    BY <1>0, ConstantsAssumption DEF IntentFollows, TimesFollow, Answered, Attempt, Times
  <2>2. t \in Nat \ {0} /\ t <= MaxClock
    BY <2>1, ConstantsAssumption
  <2> HIDE DEF t
  <2>3. t \in Times /\ Day(t) \in Days
    BY <2>2, DayInDays, ConstantsAssumption DEF Times
  <2> QED BY <2>2, <2>3 DEF t
<1>2. /\ attempt'[a].pc = "done" /\ attempt'[a].startedAt = attempt[a].startedAt
      /\ attempt'[a].effectiveAt = at
      /\ \A b \in Attempts \ {a} : attempt'[b] = attempt[b]
      /\ attempt' \in [Attempts -> Attempt]
  BY <1>0, <1>3 DEF Finalize, Goto, Attempt, TablesOK
<1>4. CASE ~Unfinalized(a)
  <2>1. UNCHANGED <<intents, events, daily>>
    BY <1>4 DEF Finalize
  <2>2. TablesOK'
    BY <1>0, <1>1, <1>2, <2>1 DEF TablesOK
  <2>3. \A b \in Attempts : IntentFollows(b)' /\ TimesFollow(b)'
    BY <1>0, <1>1, <1>2, <1>3, <2>1 DEF IntentFollows, TimesFollow, Answered
  <2>4. AttemptInv'
    BY <1>0, <1>1, <2>3 DEF AttemptInv
  <2> QED BY <2>1, <2>2, <2>4, TablesStay
<1>5. ASSUME Unfinalized(a), NEW state \in {"costed", "uncosted"},
             intents' = [intents EXCEPT ![a].state = state, ![a].effectiveAt = at]
      PROVE  /\ intents' \in [Attempts -> Intent] /\ AttemptInv' /\ OthersStay(a)
             /\ intents'[a].state = state /\ intents'[a].effectiveAt = at
             /\ intents[a].state = "pending"
  <2>1. /\ intents'[a] = [intents[a] EXCEPT !.state = state, !.effectiveAt = at]
        /\ OthersStay(a)
    BY <1>0, <1>5 DEF TablesOK, Intent, OthersStay
  <2>2. /\ intents'[a] \in Intent /\ intents'[a].state = state
        /\ intents'[a].effectiveAt = at /\ intents'[a].startedAt = intents[a].startedAt
    BY <1>0, <1>3, <2>1 DEF Intent
  <2>3. intents' \in [Attempts -> Intent]
    <3>1. intents' = [intents EXCEPT ![a] = intents'[a]]
      BY <1>0, <1>5, <2>1 DEF TablesOK, Intent
    <3> QED BY <1>0, <2>2, <3>1 DEF TablesOK
  <2>4. intents[a].state = "pending"
    BY <1>5 DEF Unfinalized
  <2>5. IntentFollows(a)' /\ TimesFollow(a)'
    BY <1>0, <1>1, <1>2, <1>3, <2>2, <2>4 DEF IntentFollows, TimesFollow, Answered
  <2>6. \A b \in Attempts \ {a} : IntentFollows(b)' /\ TimesFollow(b)'
    BY <1>0, <1>1, <1>2, <2>1 DEF IntentFollows, TimesFollow, Answered, OthersStay
  <2>7. AttemptInv'
    BY <1>0, <1>1, <2>5, <2>6 DEF AttemptInv
  <2> QED BY <2>1, <2>2, <2>3, <2>4, <2>7
<1>6. CASE Unfinalized(a) /\ attempt[a].price = Unknown
  <2>1. /\ intents' = [intents EXCEPT ![a].state = "uncosted", ![a].effectiveAt = at]
        /\ daily' = [daily EXCEPT ![d].uncosted = daily[d].uncosted + 1]
        /\ UNCHANGED events
    BY <1>3, <1>6 DEF Finalize, MetricDay
  <2>2. /\ intents' \in [Attempts -> Intent] /\ AttemptInv' /\ OthersStay(a)
        /\ intents'[a].state = "uncosted" /\ intents'[a].effectiveAt = at
        /\ intents[a].state = "pending"
    BY <1>5, <1>6, <2>1
  <2>3. /\ daily[d] \in Metric
        /\ daily'[d] = [daily[d] EXCEPT !.uncosted = daily[d].uncosted + 1]
        /\ \A e \in Days \ {d} : daily'[e] = daily[e]
    BY <1>0, <1>3, <2>1 DEF TablesOK
  <2>4. /\ daily'[d] \in Metric /\ daily'[d].uncosted = daily[d].uncosted + 1
        /\ daily'[d].costed = daily[d].costed
    BY <2>3 DEF Metric
  <2>5. daily' \in [Days -> Metric]
    <3>1. daily' = [daily EXCEPT ![d] = daily'[d]]
      BY <1>0, <1>3, <2>1, <2>3 DEF TablesOK
    <3> QED BY <1>0, <2>4, <3>1 DEF TablesOK
  <2>6. TablesOK'
    BY <1>0, <1>1, <1>2, <2>1, <2>2, <2>5 DEF TablesOK
  <2>7. DailyCounts'
    <3>1. \A e \in Days : Recorded("costed", e)' = Recorded("costed", e)
      BY <2>2 DEF Recorded, OthersStay
    <3>2. \A e \in Days \ {d} : Recorded("uncosted", e)' = Recorded("uncosted", e)
      BY <1>3, <2>2 DEF Recorded, OthersStay
    <3>3. a \notin Recorded("uncosted", d)
      BY <2>2 DEF Recorded
    <3>4. Cardinality(Recorded("uncosted", d)') = Cardinality(Recorded("uncosted", d)) + 1
      BY <1>3, <2>2, <3>3, RecordedGains
    <3> QED
      BY <2>3, <2>4, <3>1, <3>2, <3>4 DEF LedgerInv, DailyCounts
  <2>8. OnePricePerAttempt'
    BY <2>1, <2>2 DEF LedgerInv, OnePricePerAttempt, OthersStay
  <2>9. \A e \in Days : daily'[e].estimated = daily[e].estimated
    BY <2>3 DEF Metric
  <2> QED BY <2>1, <2>2, <2>6, <2>7, <2>8, <2>9, AmountsStay DEF LedgerInv
<1>7. CASE Unfinalized(a) /\ attempt[a].price # Unknown
  <2> DEFINE price == attempt[a].price
             new   == [intent |-> a, kind |-> "estimate", amount |-> price,
                       effectiveAt |-> at]
  <2>0. price \in Estimates /\ price \in Nat
    BY <1>0, <1>7, ConstantsAssumption DEF Attempt
  <2>1. /\ intents' = [intents EXCEPT ![a].state = "costed", ![a].effectiveAt = at]
        /\ daily' = [daily EXCEPT ![d].estimated = daily[d].estimated + price,
                                  ![d].costed = daily[d].costed + 1]
        /\ events' = events \cup {new}
    BY <1>3, <1>7 DEF Finalize, MetricDay
  <2>2. /\ intents' \in [Attempts -> Intent] /\ AttemptInv' /\ OthersStay(a)
        /\ intents'[a].state = "costed" /\ intents'[a].effectiveAt = at
        /\ intents[a].state = "pending"
    BY <1>5, <1>7, <2>1
  <2>3. /\ daily[d] \in Metric
        /\ daily'[d] = [daily[d] EXCEPT !.estimated = daily[d].estimated + price,
                                        !.costed = daily[d].costed + 1]
        /\ \A e \in Days \ {d} : daily'[e] = daily[e]
    BY <1>0, <1>3, <2>1 DEF TablesOK, Metric
  <2>4. /\ daily'[d] \in Metric /\ daily'[d].costed = daily[d].costed + 1
        /\ daily'[d].uncosted = daily[d].uncosted
        /\ daily'[d].estimated = daily[d].estimated + price
    <3>1. /\ daily[d].estimated \in Nat /\ daily[d].costed \in Nat
          /\ daily[d].uncosted \in Nat
      BY <2>3 DEF Metric
    <3>2. /\ daily[d].estimated + price \in Nat /\ daily[d].costed + 1 \in Nat
      BY <2>0, <3>1
    <3> HIDE DEF price
    <3> QED BY <2>3, <3>1, <3>2 DEF Metric
  <2>5. daily' \in [Days -> Metric]
    <3>1. daily' = [daily EXCEPT ![d] = daily'[d]]
      BY <1>0, <1>3, <2>1, <2>3 DEF TablesOK, Metric
    <3> QED BY <1>0, <2>4, <3>1 DEF TablesOK
  <2>6. events' \subseteq Event
    BY <1>0, <1>3, <2>0, <2>1 DEF TablesOK, Event
  <2>7. TablesOK'
    BY <1>0, <1>1, <1>2, <2>2, <2>5, <2>6 DEF TablesOK
  <2>8. DailyCounts'
    <3>1. \A e \in Days : Recorded("uncosted", e)' = Recorded("uncosted", e)
      BY <2>2 DEF Recorded, OthersStay
    <3>2. \A e \in Days \ {d} : Recorded("costed", e)' = Recorded("costed", e)
      BY <1>3, <2>2 DEF Recorded, OthersStay
    <3>3. a \notin Recorded("costed", d)
      BY <2>2 DEF Recorded
    <3>4. Cardinality(Recorded("costed", d)') = Cardinality(Recorded("costed", d)) + 1
      BY <1>3, <2>2, <3>3, RecordedGains
    <3> QED
      BY <2>3, <2>4, <3>1, <3>2, <3>4 DEF LedgerInv, DailyCounts
  <2>9. OnePricePerAttempt'
    BY <2>1, <2>2, <2>7, PriceKeeps
  <2>10. DailyAmounts' /\ IsFiniteSet(Units(events'))
    <3>1. new \notin events
      BY <2>2 DEF LedgerInv, OnePricePerAttempt
    <3>2. new.amount = price /\ new.effectiveAt = at /\ Day(at) = d
      BY <1>3
    <3> HIDE DEF new, price
    <3>3. \A e \in Days \ {d} : daily'[e].estimated = daily[e].estimated
      BY <2>3
    <3> QED BY <2>0, <2>1, <2>4, <3>1, <3>2, <3>3, AmountsKeep DEF LedgerInv
  <2> QED BY <2>2, <2>7, <2>8, <2>9, <2>10 DEF LedgerInv
<1> QED BY <1>4, <1>6, <1>7

LEMMA ResolveKeeps ==
  ASSUME LedgerInv, NEW a \in Attempts, NEW amount \in Estimates, Resolve(a, amount)
  PROVE  LedgerInv'
<1>0. /\ intents[a] \in Intent /\ TablesOK /\ AttemptInv
      /\ intents[a].state = "uncosted" /\ clock \in Times
      /\ \A b \in Attempts : IntentFollows(b) /\ TimesFollow(b)
  BY DEF LedgerInv, TablesOK, AttemptInv, Resolve, Resolvable
<1>1. UNCHANGED <<clock, activatedAt, attempt>>
  BY DEF Resolve
<1>2. PICK at \in Times, d \in Days :
        /\ at = intents[a].effectiveAt /\ d = Day(intents[a].effectiveAt)
        /\ at \in Nat \ {0}
  <2> DEFINE t == intents[a].effectiveAt
  <2>1. t # 0 /\ t <= clock /\ t \in Nat /\ clock \in Nat /\ clock <= MaxClock
    BY <1>0, ConstantsAssumption DEF IntentFollows, TimesFollow, Answered, Intent, Times
  <2>2. t \in Nat \ {0} /\ t <= MaxClock
    BY <2>1, ConstantsAssumption
  <2> HIDE DEF t
  <2>3. t \in Times /\ Day(t) \in Days
    BY <2>2, DayInDays, ConstantsAssumption DEF Times
  <2> QED BY <2>2, <2>3 DEF t
<1>3. /\ intents'[a] = [intents[a] EXCEPT !.state = "costed"] /\ OthersStay(a)
      /\ intents' = [intents EXCEPT ![a] = intents'[a]]
  BY <1>0 DEF Resolve, TablesOK, Intent, OthersStay
<1>4. /\ intents'[a] \in Intent /\ intents'[a].state = "costed"
      /\ intents'[a].effectiveAt = at /\ intents'[a].startedAt = intents[a].startedAt
  BY <1>0, <1>2, <1>3 DEF Intent
<1>5. intents' \in [Attempts -> Intent]
  BY <1>0, <1>3, <1>4 DEF TablesOK
<1>6. IntentFollows(a)' /\ TimesFollow(a)'
  BY <1>0, <1>1, <1>2, <1>4 DEF IntentFollows, TimesFollow, Answered
<1>7. \A b \in Attempts \ {a} : IntentFollows(b)' /\ TimesFollow(b)'
  BY <1>0, <1>1, <1>3 DEF IntentFollows, TimesFollow, Answered, OthersStay
<1>8. AttemptInv'
  BY <1>0, <1>1, <1>6, <1>7 DEF AttemptInv
<1>9. /\ daily' = [daily EXCEPT ![d].estimated = daily[d].estimated + amount,
                                ![d].costed = daily[d].costed + 1,
                                ![d].uncosted = daily[d].uncosted - 1]
      /\ events' = events \cup
           {[intent |-> a, kind |-> "resolution", amount |-> amount,
             effectiveAt |-> at]}
  BY <1>2 DEF Resolve
<1>10. /\ daily[d] \in Metric
       /\ daily'[d] = [daily[d] EXCEPT !.estimated = daily[d].estimated + amount,
                                       !.costed = daily[d].costed + 1,
                                       !.uncosted = daily[d].uncosted - 1]
       /\ \A e \in Days \ {d} : daily'[e] = daily[e]
       /\ daily' = [daily EXCEPT ![d] = daily'[d]]
  BY <1>0, <1>9 DEF TablesOK, Metric
<1>11. a \in Recorded("uncosted", d) /\ a \notin Recorded("costed", d)
  BY <1>0, <1>2 DEF Recorded
<1>12. /\ Cardinality(Recorded("uncosted", d)') = Cardinality(Recorded("uncosted", d)) - 1
       /\ Cardinality(Recorded("uncosted", d)) >= 1
  BY <1>3, <1>4, <1>11, RecordedLoses
<1>13. Cardinality(Recorded("costed", d)') = Cardinality(Recorded("costed", d)) + 1
  <2>1. Day(intents'[a].effectiveAt) = d
    BY <1>2, <1>4 DEF Day
  <2> QED BY <1>3, <1>4, <1>11, <2>1, RecordedGains
<1>14. daily[d].uncosted >= 1
  BY <1>12 DEF LedgerInv, DailyCounts
<1>15. /\ daily'[d] \in Metric /\ daily'[d].costed = daily[d].costed + 1
       /\ daily'[d].uncosted = daily[d].uncosted - 1
       /\ daily'[d].estimated = daily[d].estimated + amount
  <2>1. /\ daily[d].estimated \in Nat /\ daily[d].costed \in Nat
        /\ daily[d].uncosted \in Nat /\ amount \in Nat
    BY <1>10, ConstantsAssumption DEF Metric
  <2>2. /\ daily[d].estimated + amount \in Nat /\ daily[d].costed + 1 \in Nat
        /\ daily[d].uncosted - 1 \in Nat
    BY <1>14, <2>1
  <2> QED BY <1>10, <2>1, <2>2 DEF Metric
<1>16. TablesOK'
  <2>1. daily' \in [Days -> Metric]
    BY <1>0, <1>10, <1>15 DEF TablesOK
  <2>2. events' \subseteq Event
    BY <1>0, <1>2, <1>9 DEF TablesOK, Event
  <2> QED BY <1>0, <1>1, <1>5, <2>1, <2>2 DEF TablesOK
<1>17. DailyCounts'
  <2>1. \A e \in Days \ {d}, state \in {"costed", "uncosted"} :
          Recorded(state, e)' = Recorded(state, e)
    <3>1. Day(intents'[a].effectiveAt) = d /\ Day(intents[a].effectiveAt) = d
      BY <1>2, <1>4 DEF Day
    <3> QED BY <1>3, <3>1 DEF Recorded, OthersStay
  <2>2. ASSUME NEW e \in Days
        PROVE  /\ daily'[e].costed = Cardinality(Recorded("costed", e)')
               /\ daily'[e].uncosted = Cardinality(Recorded("uncosted", e)')
    <3>1. CASE e = d
      BY <1>12, <1>13, <1>15, <3>1 DEF LedgerInv, DailyCounts
    <3>2. CASE e # d
      BY <1>10, <2>1, <3>2 DEF LedgerInv, DailyCounts
    <3> QED BY <3>1, <3>2
  <2> QED BY <2>2 DEF DailyCounts
<1>18. OnePricePerAttempt'
  BY <1>0, <1>3, <1>4, <1>8, <1>9, <1>16, PriceKeeps
<1>19. DailyAmounts' /\ IsFiniteSet(Units(events'))
  <2> DEFINE new == [intent |-> a, kind |-> "resolution", amount |-> amount,
                     effectiveAt |-> at]
  <2>1. new \notin events
    BY <1>0 DEF LedgerInv, OnePricePerAttempt
  <2>2. new.amount = amount /\ new.effectiveAt = at /\ Day(at) = d
    BY <1>2
  <2>3. events' = events \cup {new} /\ amount \in Nat
    BY <1>9, ConstantsAssumption
  <2> HIDE DEF new
  <2>4. \A e \in Days \ {d} : daily'[e].estimated = daily[e].estimated
    BY <1>10
  <2> QED BY <1>15, <2>1, <2>2, <2>3, <2>4, AmountsKeep DEF LedgerInv
<1> QED BY <1>8, <1>16, <1>17, <1>18, <1>19 DEF LedgerInv

LEMMA NextLedger == LedgerInv /\ [Next]_vars => LedgerInv'
<1> SUFFICES ASSUME LedgerInv, [Next]_vars PROVE LedgerInv'
  OBVIOUS
<1>1. CASE Tick
  <2>1. clock \in Times /\ clock' = clock + 1 /\ clock < MaxClock
        /\ UNCHANGED <<activatedAt, intents, events, daily, attempt>>
    BY <1>1 DEF Tick, LedgerInv, TablesOK
  <2>2. TablesOK'
    BY <2>1, ConstantsAssumption DEF LedgerInv, TablesOK, Times
  <2>3. \A a \in Attempts : attempt[a].startedAt \in Nat /\ attempt[a].effectiveAt \in Nat
    BY DEF LedgerInv, TablesOK, Attempt
  <2>4. AttemptInv'
    BY <2>1, <2>3, TimeIsNat
       DEF LedgerInv, TablesOK, AttemptInv, IntentFollows, TimesFollow, Answered
  <2> QED BY <2>1, <2>2, <2>4, TablesStay
<1>2. CASE UNCHANGED <<clock, activatedAt, intents, events, daily, attempt>>
  <2>1. TablesOK'
    BY <1>2 DEF LedgerInv, TablesOK
  <2>2. AttemptInv'
    BY <1>2 DEF LedgerInv, AttemptInv, IntentFollows, TimesFollow, Answered
  <2> QED BY <1>2, <2>1, <2>2, TablesStay
<1>3. ASSUME NEW r \in Readers, ReportNext(r) PROVE LedgerInv'
  BY <1>2, <1>3 DEF ReportNext, AskWindow, ReadWindow
<1>4. CASE UNCHANGED vars
  BY <1>2, <1>4 DEF vars
<1>5. ASSUME NEW a \in Attempts, AttemptNext(a) PROVE LedgerInv'
  BY <1>5, AttemptKeeps, CreateKeeps, FinalizeKeeps, ResolveKeeps DEF AttemptNext
<1> QED BY <1>1, <1>3, <1>4, <1>5 DEF Next

LEMMA LedgerHolds == Spec => []LedgerInv
BY InitLedger, NextLedger, PTL DEF Spec

\* The tables of the ledger keep their types, unsigned counters included, for
\* any attempts, prices and days.
THEOREM LedgerTypes == Spec => []TablesOK
<1> QED BY LedgerHolds, PTL DEF LedgerInv

\* No attempt is priced twice and none without its outcome, however outcomes
\* are delivered again and resolutions come in between.
THEOREM OnePrice == Spec => []OnePricePerAttempt
<1> QED BY LedgerHolds, PTL DEF LedgerInv

\* The metric of every day is what its intents and events add up to: the
\* counters are the outcomes recorded on it, the amount is the sum of its
\* events, whatever outcomes, replays and resolutions cross.
THEOREM DailyIsLedger == Spec => []DailyMatchesLedger
<1>1. LedgerInv => DailyMatchesLedger
  BY DEF LedgerInv, DailyMatchesLedger
<1> QED BY <1>1, LedgerHolds, PTL

\* Nothing is recorded before the time from which capture counts as active.
THEOREM ActivationIsFirst == Spec => []NothingBeforeActivation
<1>1. LedgerInv => NothingBeforeActivation
  <2> SUFFICES ASSUME LedgerInv, NEW a \in Attempts, intents[a].effectiveAt # 0
               PROVE  activatedAt # 0 /\ intents[a].effectiveAt >= ActiveFrom
    BY DEF NothingBeforeActivation
  <2>0. /\ intents[a] \in Intent /\ attempt[a] \in Attempt /\ activatedAt \in Nat
        /\ IntentFollows(a) /\ TimesFollow(a)
    BY DEF LedgerInv, TablesOK, AttemptInv
  <2>1. /\ intents[a].effectiveAt = attempt[a].effectiveAt /\ Answered(a)
    BY <2>0 DEF IntentFollows, Intent
  <2> QED
    BY <2>0, <2>1, ConstantsAssumption DEF TimesFollow, ActiveFrom, Later, Attempt
<1> QED BY <1>1, LedgerHolds, PTL

-----------------------------------------------------------------------------
(* Reports.                                                                *)

\* A window is cut to what is recorded and to the time of the request.
WindowsAreCut ==
  /\ DOMAIN report = Readers
  /\ \A r \in Readers :
       /\ report[r].from \in Nat /\ report[r].to \in Nat /\ report[r].to <= clock
       /\ report[r].pc \in {"reading", "complete"} => report[r].from # 0

ReportInv == LedgerInv /\ WindowsAreCut /\ ReportCountsEveryCall

\* What is known of an event that an attempt may still add: no complete report
\* has its time in its window.
LEMMA OpenIsOutside ==
  ASSUME ReportInv, NEW r \in Readers, report[r].pc = "complete", NEW a \in Attempts,
         intents[a].state # "costed"
  PROVE  ~Within(attempt[a].effectiveAt, report[r].from, report[r].to)
<1> SUFFICES ASSUME Within(attempt[a].effectiveAt, report[r].from, report[r].to)
             PROVE  FALSE
  OBVIOUS
<1>1. PICK e \in EventsIn(report[r].from, report[r].to) : e.intent = a
  BY DEF ReportInv, ReportCountsEveryCall
<1>2. e \in {f \in events : f.intent = a}
  BY <1>1 DEF EventsIn
<1>3. {f \in events : f.intent = a} = {}
  BY DEF ReportInv, LedgerInv, OnePricePerAttempt
<1> QED BY <1>2, <1>3

\* A report that stays as it is, while events are added and answers come.
LEMMA CompleteStays ==
  ASSUME ReportInv, LedgerInv', events \subseteq events', NEW r \in Readers,
         report'[r] = report[r], report[r].pc = "complete",
         \A a \in Attempts :
           \/ attempt'[a].effectiveAt = attempt[a].effectiveAt
           \/ attempt'[a].effectiveAt = clock
  PROVE  \A a \in Attempts :
           Within(attempt'[a].effectiveAt, report[r].from, report[r].to)
             => \E e \in events' :
                  e.intent = a /\ Within(e.effectiveAt, report[r].from, report[r].to)
<1> SUFFICES ASSUME NEW a \in Attempts,
                    Within(attempt'[a].effectiveAt, report[r].from, report[r].to)
             PROVE  \E e \in events' :
                      e.intent = a /\ Within(e.effectiveAt, report[r].from, report[r].to)
  OBVIOUS
<1>1. attempt'[a].effectiveAt # clock
  BY TimeIsNat DEF Within, ReportInv, WindowsAreCut, LedgerInv, TablesOK
<1>2. PICK e \in EventsIn(report[r].from, report[r].to) : e.intent = a
  BY <1>1 DEF ReportInv, ReportCountsEveryCall
<1> QED BY <1>2 DEF EventsIn

LEMMA NextReport == ReportInv /\ [Next]_vars => ReportInv'
<1> SUFFICES ASSUME ReportInv, [Next]_vars PROVE WindowsAreCut' /\ ReportCountsEveryCall'
  BY NextLedger DEF ReportInv
<1>0. /\ LedgerInv /\ LedgerInv' /\ TablesOK /\ TablesOK' /\ AttemptInv /\ WindowsAreCut
      /\ clock \in Nat \ {0} /\ clock' \in Nat \ {0}
  BY NextLedger, TimeIsNat DEF ReportInv, LedgerInv, TablesOK
<1>1. CASE /\ UNCHANGED report /\ events \subseteq events' /\ clock <= clock'
           /\ \A a \in Attempts :
                \/ attempt'[a].effectiveAt = attempt[a].effectiveAt
                \/ attempt'[a].effectiveAt = clock
  <2>1. WindowsAreCut'
    BY <1>0, <1>1 DEF WindowsAreCut
  <2>2. \A r \in Readers : report[r].pc = "complete" =>
          \A a \in Attempts :
            Within(attempt'[a].effectiveAt, report[r].from, report[r].to)
             => \E e \in events' :
                  e.intent = a /\ Within(e.effectiveAt, report[r].from, report[r].to)
    BY <1>0, <1>1, CompleteStays
  <2>3. ReportCountsEveryCall'
    BY <1>1, <2>2 DEF ReportCountsEveryCall, EventsIn
  <2> QED BY <2>1, <2>3
<1>2. CASE UNCHANGED vars
  BY <1>0, <1>1, <1>2 DEF vars
<1>3. CASE Tick
  BY <1>0, <1>1, <1>3 DEF Tick
<1>4. ASSUME NEW a \in Attempts, AttemptNext(a)
      PROVE  WindowsAreCut' /\ ReportCountsEveryCall'
  <2>1. /\ UNCHANGED <<clock, report>> /\ events \subseteq events'
    BY <1>4 DEF AttemptNext, Begin, Activate, CreateIntent, Answer, TransportFails,
       Finalize, FinalizeFails, Redeliver, Resolve
  <2>2. \A b \in Attempts : \/ attempt'[b].effectiveAt = attempt[b].effectiveAt
                            \/ attempt'[b].effectiveAt = clock
    <3>1. \A b \in Attempts : attempt[b] \in Attempt
      BY <1>0 DEF TablesOK
    <3>2. \/ \E pc \in {"failed", "create", "calling", "done", "finalize"} :
               attempt' = [attempt EXCEPT ![a].pc = pc]
          \/ attempt' = [attempt EXCEPT ![a].pc = "activate", ![a].startedAt = clock]
          \/ attempt' = attempt
          \/ \E price \in Estimates \cup {Unknown} : Answer(a, price)
      BY <1>4 DEF AttemptNext, Begin, Activate, CreateIntent, TransportFails,
         Finalize, FinalizeFails, Redeliver, Resolve, Goto
    <3>3. CASE \E price \in Estimates \cup {Unknown} : Answer(a, price)
      BY <1>0, <3>1, <3>3 DEF TablesOK, Attempt, Answer
    <3>4. CASE attempt' = [attempt EXCEPT ![a].pc = "activate", ![a].startedAt = clock]
      BY <1>0, <3>1, <3>4 DEF TablesOK, Attempt
    <3>5. ASSUME NEW pc, attempt' = [attempt EXCEPT ![a].pc = pc]
          PROVE  \A b \in Attempts : attempt'[b].effectiveAt = attempt[b].effectiveAt
      BY <1>0, <3>1, <3>5 DEF TablesOK, Attempt
    <3> QED BY <3>2, <3>3, <3>4, <3>5
  <2> QED BY <1>0, <1>1, <2>1, <2>2
<1>5. ASSUME NEW r \in Readers, NEW from \in Times, NEW to \in Times,
             AskWindow(r, from, to)
      PROVE  WindowsAreCut' /\ ReportCountsEveryCall'
  <2> DEFINE start == Later(from, ActiveFrom)
             end   == Earlier(to, clock)
  <2>1. start \in Nat \ {0} /\ end \in Nat /\ end <= clock
    BY <1>0, TimeIsNat, ConstantsAssumption
       DEF Later, Earlier, ActiveFrom, TablesOK
  <2>2. /\ UNCHANGED <<clock, events, attempt>>
        /\ DOMAIN report' = Readers
        /\ \A q \in Readers \ {r} : report'[q] = report[q]
        /\ \/ report'[r] = [pc |-> "reading", from |-> start, to |-> end, total |-> 0]
           \/ report'[r] = [pc |-> "unavailable", from |-> 0, to |-> 0, total |-> 0]
    BY <1>0, <1>5 DEF AskWindow, WindowsAreCut
  <2> HIDE DEF start, end
  <2>3. WindowsAreCut'
    BY <1>0, <2>1, <2>2 DEF WindowsAreCut
  <2>4. \A q \in Readers : report'[q].pc = "complete" =>
          report'[q] = report[q] /\ report[q].pc = "complete"
    BY <2>2
  <2>5. \A q \in Readers : report'[q].pc = "complete" =>
          \A a \in Attempts :
            Within(attempt'[a].effectiveAt, report[q].from, report[q].to)
             => \E e \in events' :
                  e.intent = a /\ Within(e.effectiveAt, report[q].from, report[q].to)
    BY <1>0, <2>2, <2>4, CompleteStays
  <2>6. ReportCountsEveryCall'
    BY <2>2, <2>4, <2>5 DEF ReportCountsEveryCall, EventsIn
  <2> QED BY <2>3, <2>6
<1>6. ASSUME NEW r \in Readers, ReadWindow(r)
      PROVE  WindowsAreCut' /\ ReportCountsEveryCall'
  <2> DEFINE from == report[r].from
             to   == report[r].to
  <2>0. from \in Nat \ {0} /\ to \in Nat /\ to <= clock
    BY <1>0, <1>6 DEF WindowsAreCut, ReadWindow
  <2>1. /\ UNCHANGED <<clock, events, attempt, intents>>
        /\ DOMAIN report' = Readers
        /\ \A q \in Readers \ {r} : report'[q] = report[q]
        /\ \/ report'[r] = [pc |-> "unresolved", from |-> from, to |-> to, total |-> 0]
           \/ /\ Unresolved(from, to) = {}
              /\ report'[r] = [pc |-> "complete", from |-> from, to |-> to,
                               total |-> WindowTotal(from, to)]
    BY <1>0, <1>6 DEF ReadWindow, WindowsAreCut
  <2>2. report'[r].from = from /\ report'[r].to = to
    BY <2>1
  <2>3. WindowsAreCut'
    BY <1>0, <2>0, <2>1, <2>2 DEF WindowsAreCut
  <2>4. ASSUME report'[r].pc = "complete", NEW a \in Attempts,
               Within(attempt[a].effectiveAt, from, to)
        PROVE  \E e \in events : e.intent = a /\ Within(e.effectiveAt, from, to)
    <3>0. /\ intents[a] \in Intent /\ attempt[a] \in Attempt
          /\ IntentFollows(a) /\ TimesFollow(a)
      BY <1>0 DEF TablesOK, AttemptInv
    <3>1. Answered(a)
      BY <2>0, <2>4, <3>0 DEF Within, Answered, Attempt
    <3>2. intents[a].state # "absent" /\ intents[a].startedAt < to
      BY <2>0, <2>4, <3>0, <3>1 DEF IntentFollows, TimesFollow, Within, Attempt
    <3>3. a \notin Unresolved(from, to)
      BY <2>1, <2>4
    <3>4. intents[a].state = "costed"
      BY <2>4, <3>0, <3>2, <3>3 DEF Unresolved, IntentFollows, Intent
    <3>5. intents[a].effectiveAt = attempt[a].effectiveAt
      BY <3>0, <3>4 DEF IntentFollows
    <3>6. PICK e \in {f \in events : f.intent = a} :
            e.effectiveAt = intents[a].effectiveAt
      BY <1>0, <3>4 DEF LedgerInv, OnePricePerAttempt
    <3> QED BY <2>4, <3>5, <3>6
  <2>5. \A q \in Readers \ {r} : report'[q].pc = "complete" =>
          \A a \in Attempts :
            Within(attempt'[a].effectiveAt, report[q].from, report[q].to)
             => \E e \in events' :
                  e.intent = a /\ Within(e.effectiveAt, report[q].from, report[q].to)
    BY <1>0, <2>1, CompleteStays
  <2>6. ASSUME NEW q \in Readers, report'[q].pc = "complete", NEW a \in Attempts,
               Within(attempt'[a].effectiveAt, report'[q].from, report'[q].to)
        PROVE  \E e \in events' : /\ e.intent = a
                                  /\ Within(e.effectiveAt, report'[q].from, report'[q].to)
    <3>1. CASE q = r
      BY <2>1, <2>2, <2>4, <2>6, <3>1
    <3>2. CASE q # r
      BY <2>1, <2>5, <2>6, <3>2
    <3> QED BY <3>1, <3>2
  <2>7. ReportCountsEveryCall'
    BY <2>6 DEF ReportCountsEveryCall, EventsIn
  <2> QED BY <2>3, <2>7
<1> QED BY <1>2, <1>3, <1>4, <1>5, <1>6 DEF Next, ReportNext

LEMMA ReportHolds == Spec => []ReportInv
<1>1. Init => WindowsAreCut /\ ReportCountsEveryCall
  BY DEF Init, WindowsAreCut, ReportCountsEveryCall
<1>2. Init => ReportInv
  BY <1>1, InitLedger DEF ReportInv
<1> QED BY <1>2, NextReport, PTL DEF Spec

\* A window that is reported as complete holds the price of every call answered
\* in it, from then on, for any attempts, readers, windows and days.
THEOREM ReportsAreWhole == Spec => []ReportCountsEveryCall
<1> QED BY ReportHolds, PTL DEF ReportInv

\* No step adds an event to a complete window, or takes one from it.
LEMMA ClosedStays ==
  ASSUME ReportInv, [Next]_vars, NEW r \in Readers, report[r].pc = "complete"
  PROVE  {e \in events' : Within(e.effectiveAt, report[r].from, report[r].to)}
           = {e \in events : Within(e.effectiveAt, report[r].from, report[r].to)}
<1> SUFFICES ASSUME Next, events' # events
             PROVE  {e \in events' : Within(e.effectiveAt, report[r].from, report[r].to)}
                      = {e \in events : Within(e.effectiveAt, report[r].from, report[r].to)}
  BY DEF vars
<1>1. PICK a \in Attempts : Finalize(a) \/ \E amount \in Estimates : Resolve(a, amount)
  BY DEF Next, Tick, AttemptNext, Begin, Activate, CreateIntent, Answer,
     TransportFails, FinalizeFails, Redeliver, ReportNext, AskWindow, ReadWindow
<1>2. PICK new : /\ events' = events \cup {new}
                 /\ new.effectiveAt = attempt[a].effectiveAt
                 /\ intents[a].state # "costed"
  <2>1. CASE Finalize(a)
    <3>1. intents[a].state = "pending"
      BY <2>1 DEF Finalize, Unfinalized
    <3> QED BY <2>1, <3>1 DEF Finalize
  <2>2. ASSUME NEW amount \in Estimates, Resolve(a, amount)
        PROVE  \E new : /\ events' = events \cup {new}
                        /\ new.effectiveAt = attempt[a].effectiveAt
                        /\ intents[a].state # "costed"
    <3>1. /\ intents[a].state = "uncosted"
          /\ intents[a].effectiveAt = attempt[a].effectiveAt
      BY <2>2 DEF Resolve, Resolvable, ReportInv, LedgerInv, AttemptInv, IntentFollows
    <3> QED BY <2>2, <3>1 DEF Resolve
  <2> QED BY <1>1, <2>1, <2>2
<1>3. ~Within(new.effectiveAt, report[r].from, report[r].to)
  BY <1>2, OpenIsOutside
<1> QED BY <1>2, <1>3

\* ... and no step adds an event to it, or takes one from it.
THEOREM CompleteWindowsAreClosed == Spec => CompleteIsClosed
<1>1. ReportInv /\ [Next]_vars =>
        [\A r \in Readers :
           report[r].pc = "complete" =>
             LET own(E) == {e \in E : Within(e.effectiveAt, report[r].from, report[r].to)}
             IN own(events') = own(events)]_vars
  BY ClosedStays
<1> QED BY <1>1, ReportHolds, PTL DEF Spec, CompleteIsClosed

\* The days of a window, whole ones from the metrics and cut ones from the
\* events, add up to its events.
LEMMA WindowIsSum ==
  ASSUME TablesOK, DailyAmounts, IsFiniteSet(Units(events)),
         NEW from \in Nat, NEW to \in Nat, to <= MaxClock
  PROVE  WindowTotal(from, to) = SumOf(EventsIn(from, to))
<1> DEFINE D     == Day(from)..Day(to - 1)
           E     == EventsIn(from, to)
           part  == [d \in D |-> {e \in E : Day(e.effectiveAt) = d}]
           total == [d \in D |-> DayTotal(d, from, to)]
<1>0. DayLength \in Nat \ {0} /\ MaxClock \in Nat
  BY ConstantsAssumption
<1>1. \A e \in events : e.effectiveAt \in Nat
  BY TimeIsNat DEF TablesOK, Event
<1>2. ASSUME NEW e \in E PROVE Day(e.effectiveAt) \in D
  <2>1. /\ e.effectiveAt \in Nat /\ from <= e.effectiveAt
        /\ e.effectiveAt <= to - 1 /\ to - 1 \in Nat
    BY <1>1 DEF EventsIn, Within
  <2>2. Day(from) <= Day(e.effectiveAt) /\ Day(e.effectiveAt) <= Day(to - 1)
    BY <1>0, <2>1 DEF Day
  <2>3. Day(from) \in Int /\ Day(to - 1) \in Int /\ Day(e.effectiveAt) \in Int
    BY <1>0, <2>1 DEF Day
  <2> QED BY <2>2, <2>3
<1>3. ASSUME NEW d \in D PROVE d \in Days /\ d \in Nat
  <2>0. Day(from) \in Nat /\ Day(to - 1) \in Int /\ Day(from) <= d /\ d <= Day(to - 1)
        /\ d \in Nat
    BY <1>0 DEF Day
  <2>1. to - 1 \in Int /\ to - 1 <= MaxClock
    BY <1>0
  <2>2. Day(to - 1) <= MaxClock \div DayLength /\ MaxClock \div DayLength \in Nat
    BY <1>0, <2>1 DEF Day
  <2> QED BY <2>0, <2>2 DEF Days
<1>4. ASSUME NEW d \in D
      PROVE  /\ part[d] \subseteq E
             /\ total[d] \in Nat /\ total[d] = SumOf(part[d])
  <2>0. part[d] \subseteq E /\ total[d] = DayTotal(d, from, to)
        /\ part[d] = {e \in EventsIn(from, to) : Day(e.effectiveAt) = d}
    OBVIOUS
  <2>1. d \in Days /\ d \in Nat /\ d * DayLength \in Nat /\ (d + 1) * DayLength \in Nat
    BY <1>0, <1>3
  <2> HIDE DEF part, total, D, E
  <2>2. \A e \in events : Day(e.effectiveAt) = d <=>
           d * DayLength <= e.effectiveAt /\ e.effectiveAt < (d + 1) * DayLength
    BY <1>1, <2>1, DayBounds
  <2>3. CASE IsWhole(d, from, to)
    <3>1. EventsOn(d) = part[d]
      BY <1>1, <2>0, <2>1, <2>2, <2>3 DEF EventsOn, EventsIn, Within, IsWhole
    <3>2. total[d] = SumOf(EventsOn(d))
      BY <2>0, <2>1, <2>3 DEF DayTotal, DailyAmounts
    <3> QED BY <2>0, <3>1, <3>2, UnitsOfPart DEF EventsOn
  <2>4. CASE ~IsWhole(d, from, to)
    <3>1. EventsIn(Later(from, d * DayLength), Earlier(to, (d + 1) * DayLength))
            = part[d]
      BY <1>1, <2>0, <2>1, <2>2 DEF EventsIn, Within, Later, Earlier
    <3>2. total[d] = SumOf(part[d])
      BY <2>0, <2>4, <3>1 DEF DayTotal
    <3>3. part[d] \subseteq events
      BY <2>0 DEF EventsIn
    <3> QED BY <2>0, <3>2, <3>3, UnitsOfPart
  <2> QED BY <2>3, <2>4
<1>5. \A e \in E : \E d \in D : e \in part[d]
  BY <1>2
<1>6. \A c, d \in D : \A e \in E : e \in part[c] /\ e \in part[d] => c = d
  OBVIOUS
<1>7. IsFiniteSet(Units(E))
  BY UnitsOfPart DEF EventsIn
<1>8. DayUnits(from, to) = UNION {{d} \X (1..total[d]) : d \in D}
  BY DEF DayUnits
<1> HIDE DEF D, E, part, total
<1>9. InParts(E, D, part, total)
  BY <1>4, <1>5, <1>6 DEF InParts
<1>10. Cardinality(UNION {{d} \X (1..total[d]) : d \in D}) = SumOf(E)
  BY <1>7, <1>9, PartsAddUp
<1> QED BY <1>8, <1>10, Zenon DEF WindowTotal, E
LEMMA TotalsStay == ReportInv /\ ReportIsFinal /\ [Next]_vars => ReportIsFinal'
<1> SUFFICES ASSUME ReportInv, ReportIsFinal, [Next]_vars,
                    NEW r \in Readers, report'[r].pc = "complete"
             PROVE  report'[r].total =
                      SumOf({e \in events' : Within(e.effectiveAt, report'[r].from,
                                                    report'[r].to)})
  BY DEF ReportIsFinal, EventsIn
<1>0. /\ TablesOK /\ DailyAmounts /\ IsFiniteSet(Units(events))
      /\ DOMAIN report = Readers /\ clock \in Times
      /\ report[r].from \in Nat /\ report[r].to \in Nat /\ report[r].to <= clock
  BY DEF ReportInv, LedgerInv, WindowsAreCut, TablesOK
<1>1. CASE report'[r] = report[r]
  <2>1. {e \in events' : Within(e.effectiveAt, report[r].from, report[r].to)}
          = EventsIn(report[r].from, report[r].to)
    BY <1>1, ClosedStays DEF EventsIn
  <2> QED BY <1>1, <2>1 DEF ReportIsFinal
<1>2. CASE ReadWindow(r)
  <2>1. /\ report'[r] = [pc |-> "complete", from |-> report[r].from, to |-> report[r].to,
                         total |-> WindowTotal(report[r].from, report[r].to)]
        /\ UNCHANGED events
    BY <1>0, <1>2 DEF ReadWindow
  <2>2. report[r].to <= MaxClock
    BY <1>0, ConstantsAssumption DEF Times
  <2>3. WindowTotal(report[r].from, report[r].to)
          = SumOf(EventsIn(report[r].from, report[r].to))
    BY <1>0, <2>2, WindowIsSum
  <2>4. /\ {e \in events' : Within(e.effectiveAt, report[r].from, report[r].to)}
             = EventsIn(report[r].from, report[r].to)
        /\ report'[r].from = report[r].from /\ report'[r].to = report[r].to
    BY <2>1 DEF EventsIn
  <2> QED BY <2>1, <2>3, <2>4
<1>3. report'[r] = report[r] \/ ReadWindow(r)
  <2>1. ASSUME NEW q \in Readers, NEW from \in Times, NEW to \in Times,
               AskWindow(q, from, to)
        PROVE  report'[r] = report[r]
    BY <1>0, <2>1 DEF AskWindow
  <2>2. ASSUME NEW q \in Readers, ReadWindow(q), q # r
        PROVE  report'[r] = report[r]
    BY <1>0, <2>2 DEF ReadWindow
  <2>3. ASSUME NEW a \in Attempts, AttemptNext(a) PROVE report' = report
    BY <2>3 DEF AttemptNext, Begin, Activate, CreateIntent, Answer, TransportFails,
       Finalize, FinalizeFails, Redeliver, Resolve
  <2>4. CASE Tick
    BY <2>4 DEF Tick
  <2>5. CASE UNCHANGED vars
    BY <2>5 DEF vars
  <2> QED BY <2>1, <2>2, <2>3, <2>4, <2>5 DEF Next, ReportNext
<1> QED BY <1>1, <1>2, <1>3

\* The total of a complete report is the sum of the events of its window, at
\* the time it is given and for ever: whole days, read from the metrics, and
\* cut ones, read from the events, leave no gap and overlap nowhere.
THEOREM TotalsAreFinal == Spec => []ReportIsFinal
<1>1. Init => ReportIsFinal
  BY DEF Init, ReportIsFinal
<1> QED BY <1>1, TotalsStay, ReportHolds, PTL DEF Spec

-----------------------------------------------------------------------------
(* What a CV says more, and time, never lower a score.                     *)

\* The table holds what the algorithm computes.
LEMMA ScoreIs ==
  ASSUME NEW c \in Scorable, NEW o \in Offers, NEW m \in FirstMonth..LastMonth
  PROVE  Score(c, o, m) = calculateMatchScore(c, o, m)
BY DEF Score, Table

-----------------------------------------------------------------------------
(* Numbers.                                                                *)

\* Rounding keeps the order, and 100 * a / b, a <= b, is a percentage.
LEMMA RoundGrows ==
  ASSUME NEW a \in Nat, NEW c \in Nat, NEW b \in Nat \ {0}, a <= c
  PROVE  Round(a, b) \in Nat /\ Round(c, b) \in Nat /\ Round(a, b) <= Round(c, b)
BY DEF Round

LEMMA RoundFull ==
  ASSUME NEW a \in Nat, NEW b \in Nat \ {0}, a <= b
  PROVE  Round(100 * a, b) \in 0..100
<1>1. 100 * a \in Nat /\ 100 * b \in Nat /\ 100 * a <= 100 * b
  OBVIOUS
<1>2. Round(100 * a, b) \in Nat /\ Round(100 * a, b) <= Round(100 * b, b)
  BY <1>1, RoundGrows
<1>3. Round(100 * b, b) = 100
  <2>1. 2 * (100 * b) + b = 100 * (2 * b) + b /\ b < 2 * b /\ 2 * b \in Nat \ {0}
    OBVIOUS
  <2>2. ASSUME NEW d \in Nat \ {0}, NEW r \in Nat, r < d
        PROVE  (100 * d + r) \div d = 100
    BY <2>2
  <2> QED BY <2>1, <2>2 DEF Round
<1> QED BY <1>2, <1>3

\* A set of naturals has a least member, and one of percentages a greatest.
LEMMA LeastIs ==
  ASSUME NEW S \in SUBSET Nat, S # {}
  PROVE  Min(S) \in S /\ \A x \in S : Min(S) <= x
<1> DEFINE R == OpToRel(<, Nat)
<1>1. \E x \in S : \A y \in S : ~(<<y, x>> \in R)
  <2>1. IsWellFoundedOn(R, Nat)
    BY NatLessThanWellFounded
  <2> HIDE DEF R
  <2> QED BY <2>1, WFMin
<1>2. ASSUME NEW x \in Nat, NEW y \in Nat, y < x
      PROVE  <<y, x>> \in R
  <2>1. <<y, x>> \in Nat \X Nat /\ <<y, x>>[1] < <<y, x>>[2]
    BY <1>2
  <2> QED BY <2>1 DEF OpToRel
<1> HIDE DEF R
<1>3. PICK x \in S : \A y \in S : ~(<<y, x>> \in R)
  BY <1>1
<1>4. \A y \in S : ~(y < x) /\ x \in Nat /\ y \in Nat
  BY <1>2, <1>3
<1>5. \A y \in S : x <= y
  BY <1>4
<1> QED BY <1>5 DEF Min

LEMMA GreatestIs ==
  ASSUME NEW S \in SUBSET (0..100), S # {}
  PROVE  Max(S) \in S /\ \A x \in S : x <= Max(S)
<1> DEFINE T == {n \in Nat : \E x \in S : n = 100 - x}
<1>1. T # {} /\ T \in SUBSET Nat
  <2>1. PICK x \in S : TRUE
    OBVIOUS
  <2>2. 100 - x \in Nat
    BY <2>1
  <2>3. 100 - x \in T
    BY <2>2
  <2> QED BY <2>3
<1>2. Min(T) \in T /\ \A n \in T : Min(T) <= n
  BY <1>1, LeastIs
<1>3. PICK x \in S : Min(T) = 100 - x
  BY <1>2
<1>4. \A y \in S : 100 - y \in T /\ y \in Int
  OBVIOUS
<1>5. \A y \in S : x >= y
  BY <1>2, <1>3, <1>4
<1> QED BY <1>5 DEF Max

\* A part of a set, and how large it is.
LEMMA ShareGrows ==
  ASSUME NEW S, IsFiniteSet(S), S # {}, NEW P \in SUBSET S, NEW Q \in SUBSET S,
         P \subseteq Q
  PROVE  Share(P, S) \in 0..100 /\ Share(Q, S) \in 0..100 /\ Share(P, S) <= Share(Q, S)
<1>1. /\ Cardinality(P) \in Nat /\ Cardinality(Q) \in Nat
      /\ Cardinality(S) \in Nat \ {0}
      /\ Cardinality(P) <= Cardinality(Q) /\ Cardinality(Q) <= Cardinality(S)
  <2>1. IsFiniteSet(Q) /\ IsFiniteSet(P)
    BY FS_Subset
  <2> QED BY <2>1, FS_Subset, FS_CardinalityType, FS_EmptySet
<1>2. /\ 100 * Cardinality(P) \in Nat /\ 100 * Cardinality(Q) \in Nat
      /\ 100 * Cardinality(P) <= 100 * Cardinality(Q)
  BY <1>1
<1>3. Cardinality(P) <= Cardinality(S)
  BY <1>1
<1> QED BY <1>1, <1>2, <1>3, RoundGrows, RoundFull DEF Share

-----------------------------------------------------------------------------
(* What a CV says more lowers no component of its score.                   *)

\* What the offer does not ask for is scored for nobody.
Grows(s, t) ==
  \/ s = NotAsked /\ t = NotAsked
  \/ s \in Nat /\ t \in Nat /\ s <= t

Weights(text, terms) == UNION {{t} \X (1..Weight(text, t)) : t \in terms}

LEMMA WeightsAreFinite ==
  ASSUME NEW text, NEW terms, IsFiniteSet(terms), NEW part \in SUBSET terms
  PROVE  /\ IsFiniteSet(Weights(text, part))
         /\ Cardinality(Weights(text, part)) \in Nat
         /\ part # {} => Cardinality(Weights(text, part)) # 0
<1>1. \A t : Weight(text, t) \in {65, 100, 135}
  BY DEF Weight
<1>2. Weights(text, part) \subseteq terms \X (1..135)
  BY <1>1 DEF Weights
<1>3. IsFiniteSet(1..135)
  <2>1. 1 \in Int /\ 135 \in Int
    OBVIOUS
  <2> QED BY <2>1, FS_Interval
<1>4. IsFiniteSet(Weights(text, part))
  BY <1>2, <1>3, FS_Product, FS_Subset
<1>5. ASSUME NEW t \in part PROVE Weights(text, part) # {}
  <2>1. 1 \in 1..Weight(text, t)
    BY <1>1
  <2>2. <<t, 1>> \in Weights(text, part)
    BY <2>1 DEF Weights
  <2> QED BY <2>2
<1> QED BY <1>4, <1>5, FS_CardinalityType, FS_EmptySet

LEMMA TermsGrow ==
  ASSUME NEW table, IsFiniteSet(table), NEW cv, NEW more, NEW offer,
         cv.words \subseteq more.words
  PROVE  /\ Grows(scoreTerms(table, cv, offer), scoreTerms(table, more, offer))
         /\ Hard(table, more, offer) \subseteq Hard(table, cv, offer)
<1> DEFINE asked == Asked(table, offer)
           known(c) == asked \ Lacking(table, c, offer)
           sum(S) == Cardinality(Weights(offer.text, S))
<1>1. \A t : Has(cv.words, t) => Has(more.words, t)
  BY DEF Has
<1>2. Hard(table, more, offer) \subseteq Hard(table, cv, offer)
  BY <1>1 DEF Hard, Lacking
<1>3. known(cv) \subseteq known(more) /\ known(more) \subseteq asked
  BY <1>1 DEF Lacking
<1>4. IsFiniteSet(asked)
  BY FS_Subset DEF Asked
<1>5. ASSUME NEW c
      PROVE  scoreTerms(table, c, offer) =
               IF asked = {} THEN NotAsked
               ELSE Round(100 * Cardinality(Weights(offer.text, known(c))),
                          Cardinality(Weights(offer.text, asked)))
  BY Zenon DEF scoreTerms, Total, Weights
<1> HIDE DEF asked, known
<1>6. CASE asked = {}
  BY <1>2, <1>5, <1>6 DEF Grows
<1>7. CASE asked # {}
  <2> DEFINE whole == Cardinality(Weights(offer.text, asked))
             less  == Cardinality(Weights(offer.text, known(cv)))
             most  == Cardinality(Weights(offer.text, known(more)))
  <2>1. /\ whole \in Nat \ {0} /\ less \in Nat /\ most \in Nat
        /\ IsFiniteSet(Weights(offer.text, known(more)))
    <3>1. known(cv) \in SUBSET asked
      BY <1>3
    <3>2. less \in Nat
      BY <1>4, <3>1, WeightsAreFinite
    <3>3. most \in Nat /\ IsFiniteSet(Weights(offer.text, known(more)))
      BY <1>3, <1>4, WeightsAreFinite
    <3>4. whole \in Nat /\ whole # 0
      BY <1>4, <1>7, WeightsAreFinite
    <3> QED BY <3>2, <3>3, <3>4
  <2>2. Weights(offer.text, known(cv)) \subseteq Weights(offer.text, known(more))
    BY <1>3 DEF Weights
  <2>3. less <= most
    BY <2>1, <2>2, FS_Subset
  <2>4. /\ scoreTerms(table, cv, offer) = Round(100 * less, whole)
        /\ scoreTerms(table, more, offer) = Round(100 * most, whole)
    BY <1>5, <1>7
  <2> HIDE DEF whole, less, most
  <2>5. 100 * less \in Nat /\ 100 * most \in Nat /\ 100 * less <= 100 * most
    BY <2>1, <2>3
  <2>6. /\ Round(100 * less, whole) \in Nat /\ Round(100 * most, whole) \in Nat
        /\ Round(100 * less, whole) <= Round(100 * most, whole)
    BY <2>1, <2>5, RoundGrows
  <2> QED BY <1>2, <2>4, <2>6 DEF Grows
<1> QED BY <1>6, <1>7

\* More months are verified, and more are declared.
LEMMA TenthsGrow ==
  ASSUME NEW cv, NEW more, IsReading(cv), IsReading(more), Supplements(cv, more),
         NEW today \in Nat, NEW later \in Nat, today <= later
  PROVE  /\ ExperienceTenths(cv, today) \in Nat /\ ExperienceTenths(more, later) \in Nat
         /\ ExperienceTenths(cv, today) <= ExperienceTenths(more, later)
<1>1. ASSUME NEW d \in Dates, NEW when \in Nat
      PROVE  /\ parseMonth(d, when) \in Nat
             /\ parseMonth(d, when) = parseMonth(d, 0)
             /\ FirstVerified(d, when) = FirstVerified(d, 0)
             /\ FirstVerified(d, 0) \in Nat /\ FirstVerified(d, 0) <= 26000
  <2>1. /\ d.year \in Nat /\ 1900 <= d.year /\ d.year <= 2099
        /\ d.month \in Nat /\ d.month <= 12
    <3>1. d.year \in 1900..2099 /\ d.month \in 0..12
      BY DEF Dates
    <3>2. ASSUME NEW a \in Nat, NEW b \in Nat, NEW x \in a..b
          PROVE  x \in Nat /\ a <= x /\ x <= b
      OBVIOUS
    <3> QED BY <3>1, <3>2
  <2>2. d # Present
    BY <2>1 DEF Present
  <2>3. PICK m \in Int : m = d.month - 1
    BY <2>1
  <2>4. Max({m, 0}) \in Nat /\ Max({m, 0}) <= 11
    BY <2>1, <2>3 DEF Max
  <2>5. PICK k \in Nat : k = Max({d.month - 1, 0}) /\ k <= 11
    BY <2>3, <2>4
  <2>6. \A w : parseMonth(d, w) = 12 * d.year + k
    BY <2>2, <2>5 DEF parseMonth
  <2>7. \A w : FirstVerified(d, w) =
                 parseMonth(d, w) + (IF d.month = 0 THEN 11 ELSE 0)
    BY <2>2 DEF FirstVerified
  <2> QED BY <2>1, <2>5, <2>6, <2>7
<1>2. ASSUME NEW a \in Int, NEW b \in Int
      PROVE  Min({a, b}) \in {a, b} /\ Min({a, b}) <= a /\ Min({a, b}) <= b
  BY DEF Min
<1>3. ASSUME NEW c, IsReading(c), NEW when \in Nat, NEW p \in c.periods
      PROVE  /\ p.start \in Dates /\ p.end \in Dates \cup {Present}
             /\ parseMonth(p.end, when) \in Nat
             /\ MonthsOf(p, when) =
                  {m \in Nat : /\ FirstVerified(p.start, 0) <= m
                               /\ m <= parseMonth(p.end, when)
                               /\ m <= FirstVerified(p.start, 0) + 1200}
  <2>1. p.start \in Dates /\ p.end \in Dates \cup {Present}
    BY <1>3 DEF IsReading
  <2>2. parseMonth(p.end, when) \in Nat
    <3>1. parseMonth(Present, when) = when
      BY DEF parseMonth
    <3> QED BY <1>1, <2>1, <3>1
  <2>3. PICK first \in Nat : first = FirstVerified(p.start, 0)
    BY <1>1, <2>1
  <2>4. FirstVerified(p.start, when) = first
    BY <1>1, <2>1, <2>3
  <2>5. PICK end \in Nat : end = parseMonth(p.end, when)
    BY <2>2
  <2>6. PICK far \in Nat : far = first + 1200
    OBVIOUS
  <2>7. MonthsOf(p, when) = first..Min({end, far})
    BY <2>4, <2>5, <2>6 DEF MonthsOf
  <2>8. PICK last \in Nat : last = Min({end, far})
    <3>1. Min({end, far}) \in {end, far}
      BY <1>2
    <3>2. Min({end, far}) \in Nat
      BY <3>1
    <3> QED BY <3>2
  <2>9. last \in {end, far} /\ last <= end /\ last <= far
    BY <1>2, <2>8
  <2>10. first..last = {m \in Nat : first <= m /\ m <= end /\ m <= far}
    BY <2>9
  <2>11. MonthsOf(p, when) = {m \in Nat : first <= m /\ m <= end /\ m <= far}
    BY <2>7, <2>8, <2>10
  <2> QED BY <2>1, <2>2, <2>3, <2>5, <2>6, <2>11
<1>4. Months(cv, today) \subseteq Months(more, later)
  <2> SUFFICES ASSUME NEW p \in cv.periods
               PROVE  p \in more.periods /\ MonthsOf(p, today) \subseteq MonthsOf(p, later)
    BY DEF Months
  <2>1. p \in more.periods
    BY DEF Supplements
  <2>2. parseMonth(p.end, today) <= parseMonth(p.end, later)
    <3>1. \A w : parseMonth(Present, w) = w
      BY DEF parseMonth
    <3>2. ASSUME p.end \in Dates
          PROVE  /\ parseMonth(p.end, today) = parseMonth(p.end, later)
                 /\ parseMonth(p.end, later) \in Nat
      BY <1>1, <3>2
    <3> QED BY <1>3, <3>1, <3>2
  <2> QED BY <1>3, <2>1, <2>2
<1>5. IsFiniteSet(Months(more, later))
  <2>1. ASSUME NEW p \in more.periods, NEW m \in MonthsOf(p, later)
        PROVE  m \in Nat /\ m <= 27200
    <3>1. FirstVerified(p.start, 0) \in Nat /\ FirstVerified(p.start, 0) <= 26000
      BY <1>1, <1>3
    <3>2. m \in Nat /\ m <= FirstVerified(p.start, 0) + 1200
      BY <1>3
    <3> QED BY <3>1, <3>2
  <2>2. PICK last \in Nat : last = 27200
    OBVIOUS
  <2>3. Months(more, later) \subseteq 0..last
    <3> SUFFICES ASSUME NEW m \in Months(more, later)
                 PROVE  m \in 0..last
      OBVIOUS
    <3>1. PICK p \in more.periods : m \in MonthsOf(p, later)
      BY DEF Months
    <3>2. m \in Nat /\ m <= 27200
      BY <2>1, <3>1
    <3>3. m \in Nat /\ m <= last
      BY <2>2, <3>2
    <3> QED BY <3>3
  <2>4. IsFiniteSet(0..last)
    BY FS_Interval
  <2> QED BY <2>3, <2>4, FS_Subset
<1>6. IsFiniteSet(Months(cv, today))
  BY <1>4, <1>5, FS_Subset
<1>7. /\ Cardinality(Months(cv, today)) \in Nat /\ Cardinality(Months(more, later)) \in Nat
      /\ Cardinality(Months(cv, today)) <= Cardinality(Months(more, later))
  BY <1>4, <1>5, <1>6, FS_Subset, FS_CardinalityType
<1> DEFINE a == Round(10 * Cardinality(Months(cv, today)), 12)
           b == Round(10 * Cardinality(Months(more, later)), 12)
<1>8. a \in Nat /\ b \in Nat /\ a <= b
  BY <1>7, RoundGrows
<1>9. cv.declared \in Nat /\ more.declared \in Nat /\ cv.declared <= more.declared
  BY DEF IsReading, Supplements
<1>10. ExperienceTenths(cv, today) = Max({a, 10 * cv.declared})
       /\ ExperienceTenths(more, later) = Max({b, 10 * more.declared})
  BY DEF ExperienceTenths
<1> HIDE DEF a, b
<1>11. ASSUME NEW x \in Nat, NEW y \in Nat
       PROVE  /\ Max({x, y}) \in Nat /\ x <= Max({x, y}) /\ y <= Max({x, y})
              /\ Max({x, y}) = x \/ Max({x, y}) = y
  BY DEF Max
<1> QED BY <1>8, <1>9, <1>10, <1>11

LEMMA Products ==
  ASSUME NEW a \in Nat, NEW b \in Nat, NEW c \in Nat, a <= b
  PROVE  /\ a * c \in Nat /\ b * c \in Nat /\ a * c <= b * c
         /\ a # 0 /\ c # 0 => a * c # 0
OBVIOUS

LEMMA RoleGrows ==
  ASSUME NEW cv, NEW more, Supplements(cv, more), NEW offer, IsOffer(offer),
         RoleTokens(offer.title) # {}
  PROVE  /\ RoleScore(cv, offer) \in 0..100 /\ RoleScore(more, offer) \in 0..100
         /\ RoleScore(cv, offer) <= RoleScore(more, offer)
<1> DEFINE title == RoleTokens(offer.title)
           share(t) == Share(title \cap RoleTokens(t), title)
<1>1. title # {} /\ IsFiniteSet(title)
  BY FS_Subset DEF IsOffer, RoleTokens
<1>2. ASSUME NEW s, NEW t, s \subseteq t
      PROVE  share(s) \in 0..100 /\ share(t) \in 0..100 /\ share(s) <= share(t)
  <2>1. /\ title \cap RoleTokens(s) \in SUBSET title
        /\ title \cap RoleTokens(t) \in SUBSET title
        /\ title \cap RoleTokens(s) \subseteq title \cap RoleTokens(t)
    BY <1>2 DEF RoleTokens
  <2> HIDE DEF title
  <2> QED BY <1>1, <2>1, ShareGrows
<1>3. ASSUME NEW c
      PROVE  TitleShares(c, offer) =
               {share(t) : t \in IF c.titles = {} THEN {c.words} ELSE c.titles}
  BY Zenon DEF TitleShares
<1> HIDE DEF title, share
<1>4. ASSUME NEW c
      PROVE  TitleShares(c, offer) \in SUBSET (0..100) /\ TitleShares(c, offer) # {}
  <2>1. ASSUME NEW t PROVE share(t) \in 0..100
    BY <1>2
  <2>2. PICK titles : titles = IF c.titles = {} THEN {c.words} ELSE c.titles
    OBVIOUS
  <2>3. titles # {} /\ TitleShares(c, offer) = {share(t) : t \in titles}
    BY <1>3, <2>2
  <2> QED BY <2>1, <2>3
<1>5. ASSUME NEW c
      PROVE  /\ RoleScore(c, offer) \in TitleShares(c, offer)
             /\ \A x \in TitleShares(c, offer) : x <= RoleScore(c, offer)
  BY <1>4, GreatestIs DEF RoleScore
<1>6. \A x \in TitleShares(cv, offer) : \E y \in TitleShares(more, offer) : x <= y
  BY <1>2, <1>3 DEF Supplements
<1>7. PICK y \in TitleShares(more, offer) : RoleScore(cv, offer) <= y
  BY <1>5, <1>6
<1>8. RoleScore(cv, offer) \in 0..100 /\ RoleScore(more, offer) \in 0..100 /\ y \in 0..100
  BY <1>4, <1>5
<1> QED BY <1>5, <1>7, <1>8

LEMMA YearsGrow ==
  ASSUME NEW cv, NEW more, IsReading(cv), IsReading(more), Supplements(cv, more),
         NEW today \in Nat, NEW later \in Nat, today <= later,
         NEW offer, IsOffer(offer), offer.years # 0
  PROVE  /\ YearsScore(cv, offer, today) \in Nat /\ YearsScore(more, offer, later) \in Nat
         /\ YearsScore(cv, offer, today) <= YearsScore(more, offer, later)
<1>1. PICK a \in Nat : a = ExperienceTenths(cv, today)
  BY TenthsGrow
<1>2. PICK b \in Nat : b = ExperienceTenths(more, later) /\ a <= b
  BY <1>1, TenthsGrow
<1>3. PICK y \in Nat \ {0} : y = 10 * offer.years
  BY DEF IsOffer
<1>4. 100 * a \in Nat /\ 100 * b \in Nat /\ 100 * a <= 100 * b
  BY <1>2
<1>5. PICK s \in Nat : s = Round(100 * a, y)
  BY <1>3, <1>4, RoundGrows
<1>6. PICK t \in Nat : t = Round(100 * b, y) /\ s <= t
  BY <1>3, <1>4, <1>5, RoundGrows
<1>7. YearsScore(cv, offer, today) = Min({100, s})
      /\ YearsScore(more, offer, later) = Min({100, t})
  BY <1>1, <1>2, <1>3, <1>5, <1>6 DEF YearsScore
<1>8. ASSUME NEW x \in Nat
      PROVE  Min({100, x}) = IF x <= 100 THEN x ELSE 100
  BY DEF Min
<1> QED BY <1>6, <1>7, <1>8

LEMMA ExperienceGrows ==
  ASSUME NEW cv, NEW more, IsReading(cv), IsReading(more), Supplements(cv, more),
         NEW today \in Nat, NEW later \in Nat, today <= later,
         NEW offer, IsOffer(offer)
  PROVE  Grows(scoreExperience(cv, offer, today), scoreExperience(more, offer, later))
<1>1. CASE offer.years # 0 /\ RoleTokens(offer.title) # {}
  <2>1. PICK a \in Nat : a = YearsScore(cv, offer, today)
    BY <1>1, YearsGrow
  <2>2. PICK b \in Nat : b = YearsScore(more, offer, later) /\ a <= b
    BY <1>1, <2>1, YearsGrow
  <2>3. PICK x \in 0..100 : x = RoleScore(cv, offer)
    BY <1>1, RoleGrows
  <2>4. PICK y \in 0..100 : y = RoleScore(more, offer) /\ x <= y
    BY <1>1, <2>3, RoleGrows
  <2>5. /\ scoreExperience(cv, offer, today) = Round(7 * a + 3 * x, 10)
        /\ scoreExperience(more, offer, later) = Round(7 * b + 3 * y, 10)
    BY <1>1, <2>1, <2>2, <2>3, <2>4 DEF scoreExperience
  <2>6. 7 * a + 3 * x \in Nat /\ 7 * b + 3 * y \in Nat /\ 7 * a + 3 * x <= 7 * b + 3 * y
    BY <2>2, <2>4
  <2>7. 10 \in Nat \ {0}
    OBVIOUS
  <2> QED BY <2>5, <2>6, <2>7, RoundGrows DEF Grows
<1>2. CASE offer.years # 0 /\ RoleTokens(offer.title) = {}
  BY <1>2, YearsGrow DEF scoreExperience, Grows
<1>3. CASE offer.years = 0 /\ RoleTokens(offer.title) # {}
  <2>1. scoreExperience(cv, offer, today) = RoleScore(cv, offer)
        /\ scoreExperience(more, offer, later) = RoleScore(more, offer)
    BY <1>3 DEF scoreExperience
  <2> QED BY <1>3, <2>1, RoleGrows DEF Grows
<1>4. CASE offer.years = 0 /\ RoleTokens(offer.title) = {}
  <2>1. scoreExperience(cv, offer, today) = NotAsked
        /\ scoreExperience(more, offer, later) = NotAsked
    BY <1>4 DEF scoreExperience
  <2> QED BY <2>1 DEF Grows
<1> QED BY <1>1, <1>2, <1>3, <1>4

LEMMA EducationGrows ==
  ASSUME NEW cv, NEW more, IsReading(cv), IsReading(more), Supplements(cv, more),
         NEW offer, IsOffer(offer)
  PROVE  Grows(scoreEducation(cv, offer), scoreEducation(more, offer))
<1> DEFINE base(c) == CASE offer.level - c.level <= 0 -> 100
                        [] offer.level - c.level = 1 -> 55
                        [] offer.level - c.level = 2 -> 20
                        [] OTHER -> 0
<1>1. /\ cv.level \in Nat /\ more.level \in Nat /\ offer.level \in Nat
      /\ cv.level <= more.level
  BY DEF IsReading, Supplements, IsOffer
<1>2. base(cv) \in Nat /\ base(more) \in Nat /\ base(cv) <= base(more)
  BY <1>1
<1>3. ASSUME NEW c
      PROVE  scoreEducation(c, offer) =
               IF offer.level = 0 THEN NotAsked
               ELSE IF offer.equivalent THEN Max({base(c), 70}) ELSE base(c)
  BY Zenon DEF scoreEducation
<1>4. ASSUME NEW x \in Nat
      PROVE  Max({x, 70}) = IF x < 70 THEN 70 ELSE x
  BY DEF Max
<1>5. PICK a \in Nat : a = base(cv)
  BY <1>2
<1>6. PICK b \in Nat : b = base(more) /\ a <= b
  BY <1>2, <1>5
<1> HIDE DEF base
<1>7. CASE offer.level = 0
  BY <1>3, <1>7 DEF Grows
<1>8. CASE offer.level # 0 /\ offer.equivalent
  <2>1. /\ scoreEducation(cv, offer) = Max({a, 70})
        /\ scoreEducation(more, offer) = Max({b, 70})
    BY <1>3, <1>5, <1>6, <1>8
  <2> QED BY <1>4, <1>6, <2>1 DEF Grows
<1>9. CASE offer.level # 0 /\ ~offer.equivalent
  BY <1>3, <1>5, <1>6, <1>9 DEF Grows
<1> QED BY <1>7, <1>8, <1>9

LEMMA TextIsFinite ==
  ASSUME NEW offer, IsOffer(offer)
  PROVE  IsFiniteSet(ToSet(offer.text))
<1> DEFINE S == DOMAIN offer.text
           f == [i \in S |-> offer.text[i]]
<1>1. f \in Surjection(S, ToSet(offer.text))
  BY DEF Surjection, ToSet
<1>2. IsFiniteSet(S)
  BY DEF IsOffer
<1> HIDE DEF S, f
<1> QED BY <1>1, <1>2, FS_Surjection

LEMMA TablesAreFinite ==
  /\ IsFiniteSet(SKILLS) /\ IsFiniteSet(LANGUAGES) /\ IsFiniteSet(CERTIFICATIONS)
  /\ IsFiniteSet(RESPONSIBILITY_CONCEPTS)
<1>1. ASSUME NEW a PROVE IsFiniteSet({a})
  BY FS_Singleton
<1>2. ASSUME NEW a, NEW b PROVE IsFiniteSet({a, b})
  <2>1. IsFiniteSet({a} \cup {b})
    BY <1>1, FS_AddElement
  <2>2. {a} \cup {b} = {a, b}
    OBVIOUS
  <2> QED BY <2>1, <2>2, Zenon
<1>3. ASSUME NEW a, NEW b, NEW c, NEW d, NEW e PROVE IsFiniteSet({a, b, c, d, e})
  <2>1. IsFiniteSet({a, b} \cup {c, d})
    BY <1>2, FS_Union
  <2>2. IsFiniteSet(({a, b} \cup {c, d}) \cup {e})
    BY <2>1, FS_AddElement
  <2>3. ({a, b} \cup {c, d}) \cup {e} = {a, b, c, d, e}
    OBVIOUS
  <2> QED BY <2>2, <2>3, Zenon
<1> QED BY <1>1, <1>2, <1>3 DEF SKILLS, LANGUAGES, CERTIFICATIONS, RESPONSIBILITY_CONCEPTS

LEMMA ResponsibilitiesGrow ==
  ASSUME NEW cv, NEW more, cv.words \subseteq more.words,
         NEW offer, IsOffer(offer)
  PROVE  Grows(scoreResponsibilities(cv, offer), scoreResponsibilities(more, offer))
<1> DEFINE asked == Asked(RESPONSIBILITY_CONCEPTS, offer)
           known(c) == {t \in asked : Has(c.words, t)}
           terms == Important(offer)
           said(c) == terms \cap c.words
<1>1. IsFiniteSet(asked) /\ IsFiniteSet(terms)
  <2>1. IsFiniteSet(asked)
    BY TablesAreFinite, FS_Subset DEF Asked
  <2>2. IsFiniteSet(terms)
    BY TextIsFinite, FS_Subset DEF Important
  <2> QED BY <2>1, <2>2
<1>2. /\ known(cv) \subseteq known(more) /\ known(more) \subseteq asked
      /\ said(cv) \subseteq said(more) /\ said(more) \subseteq terms
  BY DEF Has
<1>3. ASSUME NEW c
      PROVE  scoreResponsibilities(c, offer) =
               IF asked = {}
                 THEN IF Cardinality(terms) < 3 THEN NotAsked
                      ELSE Share(said(c), terms)
               ELSE IF terms = {} THEN Share(known(c), asked)
               ELSE Round(65 * Cardinality(known(c)) * Cardinality(terms)
                            + 35 * Cardinality(said(c)) * Cardinality(asked),
                          Cardinality(asked) * Cardinality(terms))
  BY Zenon DEF scoreResponsibilities
<1> HIDE DEF asked, known, terms, said
<1>4. CASE asked = {} /\ Cardinality(terms) < 3
  BY <1>3, <1>4 DEF Grows
<1>5. CASE asked = {} /\ ~(Cardinality(terms) < 3)
  <2>1. terms # {}
    BY <1>5, FS_EmptySet
  <2> QED BY <1>1, <1>2, <1>3, <1>5, <2>1, ShareGrows DEF Grows
<1>6. CASE asked # {} /\ terms = {}
  <2>1. known(cv) \in SUBSET asked
    BY <1>2
  <2> QED BY <1>1, <1>2, <1>3, <1>6, <2>1, ShareGrows DEF Grows
<1>7. CASE asked # {} /\ terms # {}
  <2>1. PICK a \in Nat : a = Cardinality(asked) /\ a # 0
    BY <1>1, <1>7, FS_CardinalityType, FS_EmptySet
  <2>2. PICK t \in Nat : t = Cardinality(terms) /\ t # 0
    BY <1>1, <1>7, FS_CardinalityType, FS_EmptySet
  <2>3. IsFiniteSet(known(more)) /\ IsFiniteSet(said(more))
    BY <1>1, <1>2, FS_Subset
  <2>4. PICK k2 \in Nat : k2 = Cardinality(known(more))
    BY <2>3, FS_CardinalityType
  <2>5. PICK s2 \in Nat : s2 = Cardinality(said(more))
    BY <2>3, FS_CardinalityType
  <2>6. PICK k \in Nat : k = Cardinality(known(cv)) /\ k <= k2
    BY <1>2, <2>3, <2>4, FS_Subset, FS_CardinalityType
  <2>7. PICK s \in Nat : s = Cardinality(said(cv)) /\ s <= s2
    BY <1>2, <2>3, <2>5, FS_Subset, FS_CardinalityType
  <2>8. PICK kt \in Nat : kt = 65 * k * t
    BY Products
  <2>9. PICK sa \in Nat : sa = 35 * s * a
    BY Products
  <2>10. PICK kt2 \in Nat : kt2 = 65 * k2 * t /\ kt <= kt2
    <3>1. 65 * k \in Nat /\ 65 * k2 \in Nat /\ 65 * k <= 65 * k2
      BY <2>6
    <3> QED BY <2>8, <3>1, Products
  <2>11. PICK sa2 \in Nat : sa2 = 35 * s2 * a /\ sa <= sa2
    <3>1. 35 * s \in Nat /\ 35 * s2 \in Nat /\ 35 * s <= 35 * s2
      BY <2>7
    <3> QED BY <2>9, <3>1, Products
  <2>12. PICK d \in Nat \ {0} : d = a * t
    <3>1. a * t \in Nat /\ a * t # 0
      BY <2>1, <2>2, Products
    <3> QED BY <3>1
  <2>13. /\ scoreResponsibilities(cv, offer) = Round(kt + sa, d)
         /\ scoreResponsibilities(more, offer) = Round(kt2 + sa2, d)
    BY <1>3, <1>7, <2>1, <2>2, <2>4, <2>5, <2>6, <2>7, <2>8, <2>9, <2>10, <2>11, <2>12
  <2>14. kt + sa \in Nat /\ kt2 + sa2 \in Nat /\ kt + sa <= kt2 + sa2
    BY <2>10, <2>11
  <2> QED BY <2>13, <2>14, RoundGrows DEF Grows
<1> QED BY <1>4, <1>5, <1>6, <1>7

-----------------------------------------------------------------------------
(* The weighted mean and the caps.                                         *)

Parts(f, S) == UNION {{x} \X (1..f[x]) : x \in S}

LEMMA PartsGrow ==
  ASSUME NEW S, IsFiniteSet(S), NEW f, NEW g,
         \A x \in S : f[x] \in Nat /\ g[x] \in Nat /\ f[x] <= g[x]
  PROVE  /\ Cardinality(Parts(f, S)) \in Nat /\ Cardinality(Parts(g, S)) \in Nat
         /\ Cardinality(Parts(f, S)) <= Cardinality(Parts(g, S))
         /\ S # {} /\ (\A x \in S : g[x] # 0) => Cardinality(Parts(g, S)) # 0
<1>1. IsFiniteSet(Parts(g, S))
  <2> DEFINE part(x) == {x} \X (1..g[x])
             all == {part(x) : x \in S}
             h == [x \in S |-> part(x)]
  <2>1. ASSUME NEW x \in S PROVE IsFiniteSet(part(x))
    <3>1. PICK n \in Nat : n = g[x]
      OBVIOUS
    <3>2. IsFiniteSet(1..n)
      BY FS_Interval
    <3>3. IsFiniteSet({x})
      BY FS_Singleton
    <3> QED BY <3>1, <3>2, <3>3, FS_Product
  <2> HIDE DEF part
  <2>2. h \in Surjection(S, all)
    BY DEF Surjection
  <2> HIDE DEF h
  <2>3. IsFiniteSet(all)
    <3> HIDE DEF all
    <3> QED BY <2>2, FS_Surjection
  <2>4. \A T \in all : IsFiniteSet(T)
    BY <2>1
  <2> HIDE DEF all
  <2>5. IsFiniteSet(UNION all)
    BY <2>3, <2>4, FS_UNION
  <2>6. Parts(g, S) = UNION all
    BY DEF Parts, all, part
  <2> QED BY <2>5, <2>6
<1>2. Parts(f, S) \subseteq Parts(g, S)
  <2> SUFFICES ASSUME NEW x \in S
               PROVE  1..f[x] \subseteq 1..g[x]
    BY DEF Parts
  <2> QED OBVIOUS
<1>3. S # {} /\ (\A x \in S : g[x] # 0) => Parts(g, S) # {}
  <2> SUFFICES ASSUME NEW x \in S, g[x] # 0
               PROVE  Parts(g, S) # {}
    OBVIOUS
  <2>1. 1 \in 1..g[x]
    OBVIOUS
  <2>2. <<x, 1>> \in Parts(g, S)
    BY <2>1 DEF Parts
  <2> QED BY <2>2
<1>4. IsFiniteSet(Parts(f, S))
  BY <1>1, <1>2, FS_Subset
<1>5. Cardinality(Parts(f, S)) <= Cardinality(Parts(g, S))
  BY <1>1, <1>2, FS_Subset
<1>6. Cardinality(Parts(g, S)) = 0 => Parts(g, S) = {}
  BY <1>1, FS_EmptySet
<1> QED BY <1>1, <1>3, <1>4, <1>5, <1>6, FS_CardinalityType

Categories ==
  {"skills", "experience", "responsibilities", "education", "languages",
   "certifications"}

LEMMA ComponentsGrow ==
  ASSUME NEW cv, NEW more, IsReading(cv), IsReading(more), Supplements(cv, more),
         NEW today \in Nat, NEW later \in Nat, today <= later,
         NEW offer, IsOffer(offer)
  PROVE  /\ DOMAIN Components(cv, offer, today) = Categories
         /\ DOMAIN Components(more, offer, later) = Categories
         /\ \A c \in Categories :
              Grows(Components(cv, offer, today)[c], Components(more, offer, later)[c])
<1>1. cv.words \subseteq more.words
  BY DEF Supplements
<1>2. /\ Grows(scoreTerms(SKILLS, cv, offer), scoreTerms(SKILLS, more, offer))
      /\ Grows(scoreTerms(LANGUAGES, cv, offer), scoreTerms(LANGUAGES, more, offer))
      /\ Grows(scoreTerms(CERTIFICATIONS, cv, offer),
               scoreTerms(CERTIFICATIONS, more, offer))
  BY <1>1, TablesAreFinite, TermsGrow
<1>3. Grows(scoreExperience(cv, offer, today), scoreExperience(more, offer, later))
  BY ExperienceGrows
<1>4. Grows(scoreResponsibilities(cv, offer), scoreResponsibilities(more, offer))
  BY <1>1, ResponsibilitiesGrow
<1>5. Grows(scoreEducation(cv, offer), scoreEducation(more, offer))
  BY EducationGrows
<1> QED BY <1>2, <1>3, <1>4, <1>5 DEF Components, Categories

LEMMA CapsGrow ==
  ASSUME NEW cv, NEW more, IsReading(cv), IsReading(more), Supplements(cv, more),
         NEW today \in Nat, NEW later \in Nat, today <= later,
         NEW offer, IsOffer(offer), NEW s, NEW t,
         Grows(s.skills, t.skills), Grows(s.experience, t.experience),
         Grows(s.education, t.education), Grows(s.languages, t.languages),
         NEW y \in Caps(t, more, offer, later)
  PROVE  /\ \E x \in Caps(s, cv, offer, today) : x <= y
         /\ y \in Nat
<1>1. /\ Hard(SKILLS, more, offer) \subseteq Hard(SKILLS, cv, offer)
      /\ Hard(LANGUAGES, more, offer) \subseteq Hard(LANGUAGES, cv, offer)
  BY TablesAreFinite, TermsGrow DEF Supplements
<1>2. Cardinality(Hard(SKILLS, more, offer)) >= 3
        => Cardinality(Hard(SKILLS, cv, offer)) >= 3
  <2>1. IsFiniteSet(Hard(SKILLS, cv, offer))
    BY TablesAreFinite, FS_Subset DEF Hard, Lacking, Asked
  <2>2. IsFiniteSet(Hard(SKILLS, more, offer))
    BY <1>1, <2>1, FS_Subset
  <2>3. Cardinality(Hard(SKILLS, more, offer)) <= Cardinality(Hard(SKILLS, cv, offer))
    BY <1>1, <2>1, FS_Subset
  <2> QED BY <2>1, <2>2, <2>3, FS_CardinalityType
<1>3. YearsLacking(more, offer, later) => YearsLacking(cv, offer, today)
  <2>1. PICK a \in Nat : a = ExperienceTenths(cv, today)
    BY TenthsGrow
  <2>2. PICK b \in Nat : b = ExperienceTenths(more, later) /\ a <= b
    BY <2>1, TenthsGrow
  <2>3. offer.years \in Nat
    BY DEF IsOffer
  <2> QED BY <2>1, <2>2, <2>3 DEF YearsLacking
<1>4. ASSUME NEW n \in Nat, NEW a, NEW b, Grows(a, b), b \in 0..n
      PROVE  a \in 0..n
  BY <1>4 DEF Grows, NotAsked
<1>5. CASE y = 100
  BY <1>5 DEF Caps
<1>6. CASE y = 45 /\ t.skills \in 0..24 /\ Cardinality(Hard(SKILLS, more, offer)) >= 3
  <2>1. s.skills \in 0..24
    BY <1>4, <1>6
  <2> QED BY <1>2, <1>6, <2>1 DEF Caps
<1>7. CASE y = 65 /\ t.skills \in 0..49
  <2>1. s.skills \in 0..49
    BY <1>4, <1>7
  <2>2. 45 \in Caps(s, cv, offer, today) \/ 65 \in Caps(s, cv, offer, today)
    BY <2>1 DEF Caps
  <2> QED BY <1>7, <2>2
<1>8. CASE y = 60 /\ t.experience \in 0..39 /\ YearsLacking(more, offer, later)
  <2>1. s.experience \in 0..39
    BY <1>4, <1>8
  <2> QED BY <1>3, <1>8, <2>1 DEF Caps
<1>9. CASE y = 70 /\ t.education \in 0..19
  <2>1. s.education \in 0..19
    BY <1>4, <1>9
  <2> QED BY <1>9, <2>1 DEF Caps
<1>10. CASE y = 75 /\ t.languages = 0 /\ Hard(LANGUAGES, more, offer) # {}
  <2>1. s.languages = 0
    BY <1>10 DEF Grows, NotAsked
  <2>2. Hard(LANGUAGES, cv, offer) # {}
    BY <1>1, <1>10
  <2> QED BY <1>10, <2>1, <2>2 DEF Caps
<1> QED BY <1>5, <1>6, <1>7, <1>8, <1>9, <1>10 DEF Caps

\* The mean of what applies, before the caps.
Mean(s, applicable) ==
  LET weighted == [c \in Categories |-> s[c] * CATEGORY_WEIGHTS[c]]
  IN  Round(Cardinality(Parts(weighted, applicable)),
            Cardinality(Parts(CATEGORY_WEIGHTS, applicable)))

LEMMA MeanIs ==
  ASSUME NEW c, NEW offer, NEW when, DOMAIN Components(c, offer, when) = Categories
  PROVE  LET s == Components(c, offer, when)
             applicable == {k \in Categories : s[k] # NotAsked}
         IN  calculateMatchScore(c, offer, when) =
               IF applicable = {} THEN 0
               ELSE Min({Mean(s, applicable)} \cup Caps(s, c, offer, when))
<1> DEFINE s == Components(c, offer, when)
           applicable == {k \in Categories : s[k] # NotAsked}
           weighted(k) == s[k] * CATEGORY_WEIGHTS[k]
           weight(k) == CATEGORY_WEIGHTS[k]
<1>1. calculateMatchScore(c, offer, when) =
        IF applicable = {} THEN 0
        ELSE Min({Round(Cardinality(UNION {{x} \X (1..weighted(x)) : x \in applicable}),
                        Cardinality(UNION {{x} \X (1..weight(x)) : x \in applicable}))}
                 \cup Caps(s, c, offer, when))
  BY Zenon DEF calculateMatchScore, Total
<1>2. UNION {{x} \X (1..weight(x)) : x \in applicable}
        = Parts(CATEGORY_WEIGHTS, applicable)
  BY Zenon DEF Parts
<1>3. UNION {{x} \X (1..weighted(x)) : x \in applicable}
        = Parts([k \in Categories |-> weighted(k)], applicable)
  <2> DEFINE f == [k \in Categories |-> weighted(k)]
  <2>1. \A x \in applicable : f[x] = weighted(x)
    OBVIOUS
  <2> HIDE DEF f, weighted, applicable
  <2>2. {{x} \X (1..weighted(x)) : x \in applicable}
          = {{x} \X (1..f[x]) : x \in applicable}
    BY <2>1
  <2> QED BY <2>2, Zenon DEF Parts, f
<1> QED BY <1>1, <1>2, <1>3, Zenon DEF Mean

\* What a CV says more, and the months that pass, never lower its score.
LEMMA ScoreGrows ==
  ASSUME NEW cv, NEW more, IsReading(cv), IsReading(more), Supplements(cv, more),
         NEW today \in Nat, NEW later \in Nat, today <= later,
         NEW offer, IsOffer(offer)
  PROVE  calculateMatchScore(cv, offer, today)
           <= calculateMatchScore(more, offer, later)
<1> DEFINE s == Components(cv, offer, today)
           t == Components(more, offer, later)
           applicable == {k \in Categories : s[k] # NotAsked}
           caps == Caps(s, cv, offer, today)
           later_caps == Caps(t, more, offer, later)
<1>1. /\ DOMAIN s = Categories /\ DOMAIN t = Categories
      /\ \A c \in Categories : Grows(s[c], t[c])
  BY ComponentsGrow
<1>2. applicable = {k \in Categories : t[k] # NotAsked}
  BY <1>1 DEF Grows, NotAsked
<1>3. calculateMatchScore(cv, offer, today) =
        IF applicable = {} THEN 0 ELSE Min({Mean(s, applicable)} \cup caps)
  BY <1>1, MeanIs, Zenon
<1>4. calculateMatchScore(more, offer, later) =
        IF applicable = {} THEN 0 ELSE Min({Mean(t, applicable)} \cup later_caps)
  <2> DEFINE asked == {k \in Categories : t[k] # NotAsked}
  <2>1. calculateMatchScore(more, offer, later) =
          IF asked = {} THEN 0 ELSE Min({Mean(t, asked)} \cup later_caps)
    BY <1>1, MeanIs, Zenon
  <2>2. asked = applicable
    BY <1>2, Zenon
  <2> HIDE DEF asked, applicable, t, later_caps
  <2> QED BY <2>1, <2>2
<1>5. applicable \subseteq Categories
  OBVIOUS
<1>6. \A c \in applicable : s[c] \in Nat /\ t[c] \in Nat /\ s[c] <= t[c]
  BY <1>1 DEF Grows
<1>7. \A y \in later_caps : y \in Nat /\ \E x \in caps : x <= y
  <2>1. /\ Grows(s.skills, t.skills) /\ Grows(s.experience, t.experience)
        /\ Grows(s.education, t.education) /\ Grows(s.languages, t.languages)
    BY <1>1 DEF Categories
  <2> HIDE DEF s, t
  <2> QED BY <2>1, CapsGrow
<1>8. 100 \in later_caps /\ caps \subseteq Nat
  BY DEF Caps
<1> HIDE DEF s, t, caps, later_caps
<1>9. IsFiniteSet(applicable)
  <2>1. IsFiniteSet(Categories)
    <3>1. IsFiniteSet(({"skills", "experience", "responsibilities"})
                        \cup {"education", "languages", "certifications"})
      <4>1. ASSUME NEW a, NEW b, NEW c PROVE IsFiniteSet({a, b, c})
        <5>1. IsFiniteSet(({a} \cup {b}) \cup {c})
          BY FS_Singleton, FS_AddElement
        <5>2. ({a} \cup {b}) \cup {c} = {a, b, c}
          OBVIOUS
        <5> QED BY <5>1, <5>2, Zenon
      <4> QED BY <4>1, FS_Union
    <3>2. ({"skills", "experience", "responsibilities"})
             \cup {"education", "languages", "certifications"} = Categories
      BY DEF Categories
    <3> QED BY <3>1, <3>2, Zenon
  <2> QED BY <1>5, <2>1, FS_Subset
<1> HIDE DEF applicable
<1>10. CASE applicable = {}
  BY <1>3, <1>4, <1>10
<1>11. CASE applicable # {}
  <2>1. \A c \in applicable : CATEGORY_WEIGHTS[c] \in Nat \ {0}
    BY <1>5 DEF CATEGORY_WEIGHTS, Categories
  <2> DEFINE f == [c \in Categories |-> s[c] * CATEGORY_WEIGHTS[c]]
             g == [c \in Categories |-> t[c] * CATEGORY_WEIGHTS[c]]
  <2>2. \A x \in applicable : f[x] \in Nat /\ g[x] \in Nat /\ f[x] <= g[x]
    <3> SUFFICES ASSUME NEW x \in applicable
                 PROVE  f[x] \in Nat /\ g[x] \in Nat /\ f[x] <= g[x]
      OBVIOUS
    <3>1. PICK w \in Nat : w = CATEGORY_WEIGHTS[x]
      BY <2>1
    <3>2. f[x] = s[x] * w /\ g[x] = t[x] * w
      BY <1>5, <3>1
    <3>3. s[x] * w \in Nat /\ t[x] * w \in Nat /\ s[x] * w <= t[x] * w
      BY <1>6, Products
    <3> QED BY <3>2, <3>3
  <2> HIDE DEF f, g
  <2>3. PICK a \in Nat : a = Cardinality(Parts(f, applicable))
    BY <1>9, <2>2, PartsGrow
  <2>4. PICK b \in Nat : b = Cardinality(Parts(g, applicable)) /\ a <= b
    BY <1>9, <2>2, <2>3, PartsGrow
  <2>5. PICK d \in Nat \ {0} : d = Cardinality(Parts(CATEGORY_WEIGHTS, applicable))
    BY <1>9, <1>11, <2>1, PartsGrow
  <2>6. Mean(s, applicable) = Round(a, d) /\ Mean(t, applicable) = Round(b, d)
    BY <2>3, <2>4, <2>5, Zenon DEF Mean, f, g
  <2>7. PICK m \in Nat : m = Mean(s, applicable)
    BY <2>4, <2>6, RoundGrows
  <2>8. PICK n \in Nat : n = Mean(t, applicable) /\ m <= n
    BY <2>4, <2>6, <2>7, RoundGrows
  <2> DEFINE S == {m} \cup caps
             T == {n} \cup later_caps
  <2>9. /\ calculateMatchScore(cv, offer, today) = Min(S)
        /\ calculateMatchScore(more, offer, later) = Min(T)
    BY <1>3, <1>4, <1>11, <2>7, <2>8
  <2>10. S \in SUBSET Nat /\ S # {} /\ T \in SUBSET Nat /\ T # {}
    BY <1>7, <1>8
  <2>11. \A y \in T : \E x \in S : x <= y
    BY <1>7, <2>8
  <2> HIDE DEF S, T
  <2>12. Min(S) \in S /\ \A x \in S : Min(S) <= x
    BY <2>10, LeastIs
  <2>13. Min(T) \in T
    BY <2>10, LeastIs
  <2>14. PICK x \in S : x <= Min(T)
    BY <2>11, <2>13
  <2>15. x \in Nat /\ Min(S) \in Nat /\ Min(T) \in Nat /\ Min(S) <= x
    BY <2>10, <2>12, <2>13
  <2> QED BY <2>9, <2>14, <2>15
<1> QED BY <1>10, <1>11

LEMMA ScoresNeverFall ==
  ASSUME NEW c \in Contents, NEW o \in Offers,
         NEW m \in FirstMonth..LastMonth, NEW later \in m..LastMonth
  PROVE  Score(c, o, m) <= Score(c, o, later)
<1>1. /\ m \in Nat /\ later \in Nat /\ m <= later /\ later \in FirstMonth..LastMonth
      /\ c \in Scorable
  BY TimeIsOrdered DEF Scorable
<1>2. IsReading(c) /\ IsOffer(o)
  BY TextsAreRead
<1>3. Supplements(c, c)
  BY <1>2 DEF Supplements, IsReading
<1>4. calculateMatchScore(c, o, m) <= calculateMatchScore(c, o, later)
  BY <1>1, <1>2, <1>3, ScoreGrows
<1> QED BY <1>1, <1>4, ScoreIs

LEMMA MoreScoresMore ==
  ASSUME NEW c \in Contents, NEW more \in More(c), NEW o \in Offers,
         NEW m \in FirstMonth..LastMonth
  PROVE  Score(c, o, m) <= Score(more, o, m)
<1>1. m \in Nat /\ c \in Scorable /\ more \in Scorable
  BY TimeIsOrdered DEF Scorable
<1>2. IsReading(c) /\ IsReading(more) /\ Supplements(c, more) /\ IsOffer(o)
  BY TextsAreRead
<1>3. calculateMatchScore(c, o, m) <= calculateMatchScore(more, o, m)
  BY <1>1, <1>2, ScoreGrows
<1> QED BY <1>1, <1>3, ScoreIs

-----------------------------------------------------------------------------
(* The kept match scores.                                                  *)

\* Months that come take no score from a row.
LEMMA ScoredLater ==
  ASSUME now \in FirstMonth..LastMonth, now' \in FirstMonth..LastMonth,
         now <= now', NEW row, Scored(row)
  PROVE  Scored(row)'
<1>1. FirstMonth..now \subseteq FirstMonth..now'
  BY TimeIsOrdered
<1> QED
  BY <1>1 DEF Scored

LEMMA ComputedIsScored ==
  ASSUME CacheInv, NEW c \in Contents, NEW offers \in SUBSET Offers
  PROVE  /\ {row.offer : row \in Computed(c, offers)} = offers
         /\ \A row \in Computed(c, offers) : Scored(row) /\ row.content = c
<1>1. now \in FirstMonth..now
  BY TimeIsOrdered DEF CacheInv
<1>2. ASSUME NEW row \in Computed(c, offers)
      PROVE  Scored(row) /\ row.content = c /\ row.offer \in offers
  <2>1. PICK o \in offers :
          row = [content |-> c, offer |-> o, score |-> Score(c, o, now)]
    BY DEF Computed
  <2> QED
    BY <1>1, <2>1 DEF Scored
<1>3. ASSUME NEW o \in offers
      PROVE  \E row \in Computed(c, offers) : row.offer = o
  <2> DEFINE row == [content |-> c, offer |-> o, score |-> Score(c, o, now)]
  <2>1. row \in Computed(c, offers) /\ row.offer = o
    BY DEF Computed
  <2> QED
    BY <2>1
<1> QED
  BY <1>2, <1>3

\* A step that leaves the time, the content and the rows, and moves a request.
LEMMA RequestMoves ==
  ASSUME CacheInv, NEW r \in Requests, NEW q, RequestInv(q),
         request' = [request EXCEPT ![r] = q],
         UNCHANGED <<now, content, cache>>
  PROVE  CacheInv'
<1>1. \A s \in Requests : RequestInv(request[s])'
  BY DEF CacheInv, RequestInv, Scored
<1> QED
  BY <1>1 DEF CacheInv, Scored

LEMMA AskKeeps ==
  ASSUME CacheInv, NEW r \in Requests, Ask(r)
  PROVE  CacheInv'
<1>1. PICK offers \in SUBSET Offers \ {{}} :
        request' = [request EXCEPT ![r] =
          [pc |-> "look", content |-> content, offers |-> offers,
           result |-> {}]]
  BY DEF Ask
<1>2. content \in Contents
  BY DEF Ask, CacheInv
<1>3. RequestInv([pc |-> "look", content |-> content, offers |-> offers,
                  result |-> {}])
  BY <1>2 DEF RequestInv
<1> QED
  BY <1>1, <1>3, RequestMoves DEF Ask

\* A request that is asking has offers to ask about and what it read.
LEMMA RequestAsks ==
  ASSUME CacheInv, NEW r \in Requests, request[r].pc # "idle"
  PROVE  request[r].content \in Contents /\ request[r].offers \in SUBSET Offers
BY DEF CacheInv, RequestInv

\* What a look-up reads, and all it returns.
Found(c, offers)  == {o \in offers : Stored(c, o) # {}}
Rows(c, offers)   == UNION {Stored(c, o) : o \in Found(c, offers)}
Result(c, offers) ==
  Rows(c, offers) \cup Computed(c, offers \ Found(c, offers))

\* The rows of a look-up, read or computed, are those of the offers.
LEMMA FoundRows ==
  ASSUME CacheInv, NEW c \in Contents, NEW offers \in SUBSET Offers
  PROVE  /\ {row.offer : row \in Result(c, offers)} = offers
         /\ \A row \in Result(c, offers) : Scored(row) /\ row.content = c
<1> DEFINE found == Found(c, offers)
           read  == Rows(c, offers)
           new   == Computed(c, offers \ found)
<1>1. /\ {row.offer : row \in new} = offers \ found
      /\ \A row \in new : Scored(row) /\ row.content = c
  BY ComputedIsScored
<1>2. ASSUME NEW row \in read
      PROVE  Scored(row) /\ row.content = c /\ row.offer \in found
  BY DEF Rows, Stored, CacheInv
<1>3. ASSUME NEW o \in found
      PROVE  \E row \in read : row.offer = o
  BY DEF Rows, Found, Stored
<1>4. found \subseteq offers /\ Result(c, offers) = read \cup new
  BY DEF Found, Result
<1> HIDE DEF found, read, new
<1>5. \A row \in new : row.offer \in offers \ found
  BY <1>1
<1>6. \A o \in offers \ found : \E row \in new : row.offer = o
  BY <1>1
<1>7. \A row \in Result(c, offers) :
        Scored(row) /\ row.content = c /\ row.offer \in offers
  BY <1>1, <1>2, <1>4, <1>5
<1>8. \A o \in offers : \E row \in Result(c, offers) : row.offer = o
  BY <1>3, <1>4, <1>6
<1> QED
  BY <1>7, <1>8

LEMMA LookUpKeeps ==
  ASSUME CacheInv, NEW r \in Requests, LookUp(r)
  PROVE  CacheInv'
<1> DEFINE q      == request[r]
           found  == Found(q.content, q.offers)
           result == Result(q.content, q.offers)
           next   == [q EXCEPT !.result = result,
                               !.pc = IF q.offers \ found = {} THEN "answered"
                                      ELSE "store"]
<1>1. q.pc = "look" /\ q.content \in Contents /\ q.offers \in SUBSET Offers
  BY RequestAsks DEF LookUp, Sits
<1>2. /\ {row.offer : row \in result} = q.offers
      /\ \A row \in result : Scored(row) /\ row.content = q.content
  BY <1>1, FoundRows
<1>3. request' = [request EXCEPT ![r] = next]
  BY DEF LookUp, CacheInv, Found, Rows, Result
<1>4. /\ next.pc \in {"answered", "store"} /\ next.content = q.content
      /\ next.offers = q.offers /\ next.result = result
  OBVIOUS
<1> HIDE DEF next, result
<1>5. RequestInv(next)
  BY <1>1, <1>2, <1>4 DEF RequestInv
<1> QED
  BY <1>3, <1>5, RequestMoves DEF LookUp

LEMMA StoreKeeps ==
  ASSUME CacheInv, NEW r \in Requests, Store(r)
  PROVE  CacheInv'
<1>1. /\ request[r].pc = "store"
      /\ \A row \in request[r].result : Scored(row)
  BY DEF Store, Sits, CacheInv, RequestInv
<1>2. \A row \in cache' : Scored(row)
  BY <1>1 DEF Store, CacheInv
<1>3. UNCHANGED <<now, content>>
  BY DEF Store
<1> DEFINE next == [request[r] EXCEPT !.pc = "answered"]
<1>4. request' = [request EXCEPT ![r] = next]
  BY DEF Store, Turn
<1>5. /\ next.pc = "answered" /\ next.content = request[r].content
      /\ next.offers = request[r].offers /\ next.result = request[r].result
  OBVIOUS
<1> HIDE DEF next
<1>6. RequestInv(next)
  BY <1>1, <1>5 DEF CacheInv, RequestInv
<1>7. \A s \in Requests : RequestInv(request[s])'
  BY <1>3, <1>4, <1>6 DEF CacheInv, RequestInv, Scored
<1> QED
  BY <1>2, <1>3, <1>4, <1>7 DEF CacheInv, Scored

LEMMA AfreshKeeps ==
  ASSUME CacheInv, NEW r \in Requests, Afresh(r)
  PROVE  CacheInv'
<1> DEFINE q      == request[r]
           result == Computed(q.content, q.offers)
           next   == [q EXCEPT !.pc = "answered", !.result = result]
<1>1. q.content \in Contents /\ q.offers \in SUBSET Offers
  BY RequestAsks DEF Afresh
<1>2. /\ {row.offer : row \in result} = q.offers
      /\ \A row \in result : Scored(row) /\ row.content = q.content
  BY <1>1, ComputedIsScored
<1>3. request' = [request EXCEPT ![r] = next]
  BY DEF Afresh, CacheInv
<1>4. /\ next.pc = "answered" /\ next.content = q.content
      /\ next.offers = q.offers /\ next.result = result
  OBVIOUS
<1> HIDE DEF next, result
<1>5. RequestInv(next)
  BY <1>1, <1>2, <1>4 DEF RequestInv
<1> QED
  BY <1>3, <1>5, RequestMoves DEF Afresh

LEMMA ReturnKeeps ==
  ASSUME CacheInv, NEW r \in Requests, Return(r)
  PROVE  CacheInv'
<1>1. RequestInv(Nobody)
  BY DEF RequestInv, Nobody
<1> QED
  BY <1>1, RequestMoves DEF Return

LEMMA OutsideKeeps ==
  ASSUME CacheInv, Reparse \/ Delete \/ MonthPasses
  PROVE  CacheInv'
<1>1. /\ now' \in FirstMonth..LastMonth /\ now <= now'
      /\ content' \in Contents \cup {Gone}
      /\ cache' \subseteq cache /\ UNCHANGED request
  BY TimeIsOrdered DEF Reparse, Delete, MonthPasses, CacheInv
<1>2. now \in FirstMonth..LastMonth
  BY DEF CacheInv
<1>3. ASSUME NEW row, Scored(row)
      PROVE  Scored(row)'
  BY <1>1, <1>2, <1>3, ScoredLater
<1>4. ASSUME NEW r \in Requests
      PROVE  RequestInv(request[r])'
  <2>1. RequestInv(request[r])
    BY DEF CacheInv
  <2> QED
    BY <1>1, <1>3, <2>1 DEF RequestInv
<1> QED
  BY <1>1, <1>3, <1>4 DEF CacheInv

LEMMA CacheStarts == CacheInit => CacheInv
BY TimeIsOrdered DEF CacheInit, CacheInv, RequestInv, Nobody

LEMMA CacheKeeps == CacheInv /\ [CacheNext]_cacheVars => CacheInv'
<1> SUFFICES ASSUME CacheInv, [CacheNext]_cacheVars
             PROVE  CacheInv'
  OBVIOUS
<1>1. CASE UNCHANGED cacheVars
  BY <1>1 DEF CacheInv, RequestInv, Scored, cacheVars
<1> QED
  BY <1>1, AskKeeps, LookUpKeeps, StoreKeeps, AfreshKeeps, ReturnKeeps,
     OutsideKeeps
  DEF CacheNext

\* For any readings, offers, requests, parses, deletions and months: a request
\* is told a score that what it read has had for the offer, and that is not
\* more than it has now (CachedNeverOverstates).
THEOREM ScoresAreEarned == CacheSpec => []CachedNeverOverstates
<1>1. CacheInit => CacheInv
  BY CacheStarts
<1>2. CacheInv /\ [CacheNext]_cacheVars => CacheInv'
  BY CacheKeeps
<1>3. CacheInv => CachedNeverOverstates
  <2> SUFFICES ASSUME CacheInv, NEW r \in Requests, Sits(r, "answered")
               PROVE  /\ {row.offer : row \in request[r].result}
                           = request[r].offers
                      /\ \A row \in request[r].result :
                           /\ \E m \in FirstMonth..now : row.score
                                = Score(request[r].content, row.offer, m)
                           /\ row.score
                                <= Score(request[r].content, row.offer, now)
    BY DEF CachedNeverOverstates
  <2>1. /\ {row.offer : row \in request[r].result} = request[r].offers
        /\ \A row \in request[r].result :
             Scored(row) /\ row.content = request[r].content
    BY DEF CacheInv, RequestInv, Sits
  <2>2. ASSUME NEW row \in request[r].result
        PROVE  /\ \E m \in FirstMonth..now :
                    row.score = Score(request[r].content, row.offer, m)
               /\ row.score <= Score(request[r].content, row.offer, now)
    <3>1. PICK m \in FirstMonth..now :
            row.score = Score(request[r].content, row.offer, m)
      BY <2>1 DEF Scored
    <3>2. /\ request[r].content \in Contents /\ row.offer \in Offers
          /\ m \in FirstMonth..LastMonth /\ now \in m..LastMonth
      BY <2>1, TimeIsOrdered DEF Scored, CacheInv
    <3> QED
      BY <3>1, <3>2, ScoresNeverFall
  <2> QED
    BY <2>1, <2>2
<1> QED
  BY <1>1, <1>2, <1>3, PTL DEF CacheSpec

\* For any reading of the resume, any offer and any month: a word, period, title
\* beside others, declared year or degree that a CV says more never lowers its
\* score, through all weights, roundings and caps (MoreEvidenceNeverLowers).
THEOREM MoreIsNeverLess == CacheSpec => []MoreEvidenceNeverLowers
<1>1. CacheInit => CacheInv
  BY CacheStarts
<1>2. CacheInv /\ [CacheNext]_cacheVars => CacheInv'
  BY CacheKeeps
<1>3. CacheInv => MoreEvidenceNeverLowers
  <2> SUFFICES ASSUME CacheInv, content # Gone,
                      NEW more \in More(content), NEW o \in Offers
               PROVE  Score(content, o, now) <= Score(more, o, now)
    BY DEF MoreEvidenceNeverLowers
  <2>1. content \in Contents /\ now \in FirstMonth..LastMonth
    BY DEF CacheInv
  <2> QED
    BY <2>1, MoreScoresMore
<1> QED
  BY <1>1, <1>2, <1>3, PTL DEF CacheSpec

=============================================================================
