-------------------------------- MODULE Quota --------------------------------
(***************************************************************************)
(* The periodic usage counters of BillingQuotaService: one user's row of   *)
(* usage_limits, seen through one category (AI requests, resume            *)
(* optimizations, job discoveries or applications), and the calls that     *)
(* reserve a unit of it, work, and give the unit back when they fail.      *)
(*                                                                         *)
(* A reservation is a transaction at READ COMMITTED: other transactions    *)
(* commit between its statements until it has updated the row, whose lock  *)
(* it then holds until it commits.  All amounts are 1, as in the callers.  *)
(***************************************************************************)
EXTENDS Integers, FiniteSets

CONSTANTS
  Calls,      \* calls that need a unit
  Limits,     \* effective limits that plans and grants may give
  Unlimited,  \* UNLIMITED_PLAN_LIMIT: no limit, no usage is larger
  Month,      \* length of a month on the clock
  MaxDate,    \* bound: the clock stops here
  MaxFaults   \* bound: crashes and failing releases in a behaviour

ASSUME QuotaConstants ==
  /\ IsFiniteSet(Calls) /\ Cardinality(Calls) <= Unlimited
  /\ Limits \subseteq Nat /\ Unlimited \in Nat
  /\ \A n \in Limits : n <= Unlimited
  /\ Month \in Nat \ {0} /\ MaxDate \in Nat /\ MaxFaults \in Nat

VARIABLES
  date,       \* the time
  limit,      \* the effective limit: plan and active grants
  peak,       \* history: the highest limit there has been
  usage,      \* the row: the counter and the time of its next reset
  call,       \* where each call is
  faultsLeft  \* faults the environment may still inject

quotaVars == <<date, limit, peak, usage, call, faultsLeft>>

Usage == [used: Int, resetAt: Int]

Reserving == {"reset", "check", "readReset", "increment"}
Ended     == {"kept", "released", "refused", "lost"}

\* now: the time the call passed in.  limit: the effective limit it checked.
\* resetAt: the period it believes it reserved in.  Each is 0 when it is not
\* needed (any more).  charged: history, the period whose counter holds its
\* unit, 0 for none.
Call == [pc: {"new", "held"} \cup Reserving \cup Ended,
         now: Int, limit: Int, resetAt: Int, charged: Int]

QuotaTypeOK ==
  /\ date \in Nat
  /\ limit \in Limits /\ peak \in Limits
  /\ usage \in Usage /\ usage.used >= 0
  /\ call \in [Calls -> Call]
  /\ faultsLeft \in Nat

\* A call that has reserved nothing yet.
Blank(pc, now) ==
  [pc |-> pc, now |-> now, limit |-> 0, resetAt |-> 0, charged |-> 0]

\* A call that has reserved a unit.
Reserved(pc, resetAt, charged) ==
  [pc |-> pc, now |-> 0, limit |-> 0, resetAt |-> resetAt, charged |-> charged]

\* nextMonthlyReset: the first instant of the next month.
NextReset(now) == (now \div Month + 1) * Month

QuotaInit ==
  /\ date = 0
  /\ limit \in Limits /\ peak = limit
  /\ usage = [used |-> 0, resetAt |-> NextReset(0)]
  /\ call = [c \in Calls |-> Blank("new", 0)]
  /\ faultsLeft = MaxFaults

-----------------------------------------------------------------------------
Where(c, pc)   == call[c].pc = pc
Proceed(c, pc) == call' = [call EXCEPT ![c].pc = pc]

\* The limit is reached: ForbiddenException.
Refuse(c) == call' = [call EXCEPT ![c] = Blank("refused", 0)]

\* The filter of resetPeriodicUsageInTransaction.
ResetDue(now) == usage.resetAt < now

Arrive(c) ==
  /\ Where(c, "new")
  /\ call' = [call EXCEPT ![c] = Blank("reset", date)]
  /\ UNCHANGED <<date, limit, peak, usage, faultsLeft>>

\* The reset matches: the call holds the row from here on, so that the rest of
\* its transaction is one step.  A refusal rolls the reset back.
ReserveAfterReset(c) ==
  LET next == NextReset(call[c].now) IN
  /\ Where(c, "reset")
  /\ ResetDue(call[c].now)
  /\ IF limit = Unlimited \/ limit >= 1
       THEN /\ usage' = [used |-> 1, resetAt |-> next]
            /\ call' = [call EXCEPT ![c] = Reserved("held", next, next)]
       ELSE UNCHANGED usage /\ Refuse(c)
  /\ UNCHANGED <<date, limit, peak, faultsLeft>>

SkipReset(c) ==
  /\ Where(c, "reset")
  /\ ~ResetDue(call[c].now)
  /\ call' = [call EXCEPT ![c] = Blank("check", 0)]
  /\ UNCHANGED <<date, limit, peak, usage, faultsLeft>>

\* effectiveQuotaInTransaction, and the check of what remains.
Check(c) ==
  /\ Where(c, "check")
  /\ IF limit = Unlimited \/ limit - usage.used >= 1
       THEN call' = [call EXCEPT ![c] =
              [call[c] EXCEPT !.pc = "readReset", !.limit = limit]]
       ELSE Refuse(c)
  /\ UNCHANGED <<date, limit, peak, usage, faultsLeft>>

ReadReset(c) ==
  /\ Where(c, "readReset")
  /\ call' = [call EXCEPT ![c] =
       [call[c] EXCEPT !.pc = "increment", !.resetAt = usage.resetAt]]
  /\ UNCHANGED <<date, limit, peak, usage, faultsLeft>>

\* Mutant: the counter is incremented whatever it is by now.
FitsAlways(c) == call[c].limit >= 0

\* The filter of the conditional increment.
Fits(c) == call[c].limit = Unlimited \/ usage.used <= call[c].limit - 1

Increment(c) ==
  /\ Where(c, "increment")
  /\ IF Fits(c)
       THEN /\ usage' = [usage EXCEPT !.used = usage.used + 1]
            /\ call' = [call EXCEPT ![c] =
                 Reserved("held", call[c].resetAt, usage.resetAt)]
       ELSE UNCHANGED usage /\ Refuse(c)
  /\ UNCHANGED <<date, limit, peak, faultsLeft>>

\* The work succeeded: the unit is spent.
Keep(c) ==
  /\ Where(c, "held")
  /\ Proceed(c, "kept")
  /\ UNCHANGED <<date, limit, peak, usage, faultsLeft>>

\* Mutant: the period of the reservation does not matter.
ReleasableAnyPeriod(c) == call[c].resetAt > 0 /\ usage.used >= 1

\* Mutant: gt for gte.
ReleasableAboveOne(c) == usage.resetAt = call[c].resetAt /\ usage.used > 1

\* The filter of releaseInTransaction.
Releasable(c) == usage.resetAt = call[c].resetAt /\ usage.used >= 1

\* The work failed: give the unit back, unless its period is over.
Release(c) ==
  /\ Where(c, "held")
  /\ IF Releasable(c)
       THEN /\ usage' = [usage EXCEPT !.used = usage.used - 1]
            /\ call' = [call EXCEPT ![c] =
                 Reserved("released", call[c].resetAt, 0)]
       ELSE UNCHANGED usage /\ Proceed(c, "released")
  /\ UNCHANGED <<date, limit, peak, faultsLeft>>

-----------------------------------------------------------------------------
DatePasses ==
  /\ date < MaxDate
  /\ date' = date + 1
  /\ UNCHANGED <<limit, peak, usage, call, faultsLeft>>

\* A plan change, or a grant that is made or expires.
ChangeLimit ==
  /\ limit' \in Limits \ {limit}
  /\ peak' = IF limit' > peak THEN limit' ELSE peak
  /\ UNCHANGED <<date, usage, call, faultsLeft>>

\* A reservation of another category, or currentQuota, resets all counters.
ResetByOther ==
  /\ ResetDue(date)
  /\ usage' = [used |-> 0, resetAt |-> NextReset(date)]
  /\ UNCHANGED <<date, limit, peak, call, faultsLeft>>

\* The process dies while it holds a unit, or the release itself fails.
Lose(c) ==
  /\ faultsLeft > 0
  /\ Where(c, "held")
  /\ faultsLeft' = faultsLeft - 1
  /\ Proceed(c, "lost")
  /\ UNCHANGED <<date, limit, peak, usage>>

Reserve(c) ==
  \/ Arrive(c) \/ ReserveAfterReset(c) \/ SkipReset(c) \/ Check(c)
  \/ ReadReset(c) \/ Increment(c)

QuotaNext ==
  \/ DatePasses \/ ChangeLimit \/ ResetByOther
  \/ \E c \in Calls : Reserve(c) \/ Keep(c) \/ Release(c) \/ Lose(c)

QuotaSpec == QuotaInit /\ [][QuotaNext]_quotaVars

-----------------------------------------------------------------------------
\* TypeOK: "the counter cannot become negative" (docs/FREE_BETA_EXECUTION.md).

\* The counter is the number of calls that hold or spent a unit in its period:
\* no release takes back the unit of another call, no reset keeps one, and
\* none is counted twice, however reservations, releases and resets cross.
UsageIsExact ==
  usage.used = Cardinality({c \in Calls : call[c].charged = usage.resetAt})

\* Calls that race for the last unit never take more than the highest limit
\* that plans and grants gave.
UsageWithinPlans == usage.used <= peak

\* A failed call stays charged only when a reset fell inside its reservation.
RefundMissesOnlyRollover ==
  \A c \in Calls :
    Where(c, "released") /\ call[c].charged = usage.resetAt
      => call[c].resetAt < call[c].charged

=============================================================================
