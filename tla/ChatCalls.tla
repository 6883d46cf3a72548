----------------------------- MODULE ChatCalls -----------------------------
(***************************************************************************)
(* One answer of the career chat: DahlCareerChatProvider.complete, with    *)
(* its circuit breaker, its retries, and the token budget of the UTC day   *)
(* and month that CareerChatUsageLimiter keeps in Redis for every process. *)
(***************************************************************************)
EXTENDS CircuitBreaker, FiniteSets

CONSTANTS
  MaxRetries,   \* DAHL_CAREER_CHAT_MAX_RETRIES
  DayLength,    \* ticks in a UTC day
  MonthLength,  \* days in a month
  DailyLimit,   \* DAHL_CAREER_CHAT_DAILY_TOKEN_BUDGET, in attempts
  MonthlyLimit  \* DAHL_CAREER_CHAT_MONTHLY_TOKEN_BUDGET, in attempts

ASSUME ChatConstants ==
  /\ IsFiniteSet(Calls) /\ MaxRetries \in Nat /\ DayLength \in Nat \ {0}
  /\ MonthLength \in Nat \ {0} /\ DailyLimit \in Nat /\ MonthlyLimit \in Nat

Day    == clock \div DayLength
Days   == 0..MaxClock \div DayLength
Month  == Day \div MonthLength
Months == 0..(MaxClock \div DayLength) \div MonthLength

VARIABLES
  used,         \* the day keys in Redis
  usedInMonth,  \* the month keys
  spent,        \* requests sent upstream, by the day they were reserved on
  chat          \* what each answer remembers

chatVars == <<used, usedInMonth, spent, chat>>

NoChat == [pc |-> "idle", day |-> 0, attempt |-> 0]

ChatTypeOK ==
  /\ TypeOK
  /\ used \in [Days -> Nat] /\ usedInMonth \in [Months -> Nat]
  /\ spent \in [Days -> Nat]
  /\ chat \in [Calls -> [pc: {"idle", "reserving", "sending", "waiting"},
                         day: Days, attempt: 0..MaxRetries]]

ChatInit ==
  /\ Init
  /\ used = [d \in Days |-> 0] /\ usedInMonth = [m \in Months |-> 0]
  /\ spent = [d \in Days |-> 0]
  /\ chat = [c \in Calls |-> NoChat]

-----------------------------------------------------------------------------
ChatAt(c, step) == chat[c].pc = step

\* complete up to assertCircuitAvailable.
Open(c) ==
  /\ ChatAt(c, "idle") /\ Begin(c)
  /\ chat' = [chat EXCEPT ![c].pc = "reserving"]
  /\ UNCHANGED <<used, usedInMonth, spent>>

\* Mutant: the retries are not reserved.
RequestedOnce == 1

Requested == MaxRetries + 1

FitsBudget ==
  /\ used[Day] + Requested <= DailyLimit
  /\ usedInMonth[Month] + Requested <= MonthlyLimit

\* The script adds to both keys.
Count ==
  /\ used' = [used EXCEPT ![Day] = @ + Requested]
  /\ usedInMonth' = [usedInMonth EXCEPT ![Month] = @ + Requested]

\* reserve: the worst case of every attempt, in one script.
Reserve(c) ==
  /\ ChatAt(c, "reserving") /\ FitsBudget /\ Count
  /\ chat' = [chat EXCEPT ![c] = [pc |-> "sending", day |-> Day, attempt |-> 0]]
  /\ UNCHANGED <<vars, spent>>

\* The budget refuses the answer, Redis fails, or its reply is lost after the
\* script has run: no request was sent, and the breaker is left alone.
NotReserved(c) ==
  /\ ChatAt(c, "reserving") /\ LeaveAlone(c)
  /\ UNCHANGED <<used, usedInMonth>> \/ (FitsBudget /\ Count)
  /\ chat' = [chat EXCEPT ![c] = NoChat]
  /\ UNCHANGED spent

Send(c) ==
  /\ ChatAt(c, "sending")
  /\ spent' = [spent EXCEPT ![chat[c].day] = @ + 1]
  /\ chat' = [chat EXCEPT ![c].pc = "waiting"]
  /\ UNCHANGED <<vars, used, usedInMonth>>

RetriesLeft(c) == chat[c].attempt < MaxRetries

\* 429, a server error or a network failure: the next attempt after a pause.
Retry(c) ==
  /\ ChatAt(c, "waiting") /\ RetriesLeft(c)
  /\ chat' = [chat EXCEPT ![c].pc = "sending", ![c].attempt = @ + 1]
  /\ UNCHANGED <<vars, used, usedInMonth, spent>>

\* The answer; a failure of the service, or its timeout at any point after the
\* reservation; a refusal (4xx) that does not count towards the circuit.
Close(c) ==
  /\ \/ ChatAt(c, "waiting") /\ (Succeed(c) \/ LeaveAlone(c))
     \/ (ChatAt(c, "waiting") \/ ChatAt(c, "sending")) /\ Fail(c)
  /\ chat' = [chat EXCEPT ![c] = NoChat]
  /\ UNCHANGED <<used, usedInMonth, spent>>

ChatNext ==
  \/ Tick /\ UNCHANGED chatVars
  \/ \E c \in Calls : Open(c) \/ Reserve(c) \/ NotReserved(c) \/ Send(c)
                        \/ Retry(c) \/ Close(c)

ChatSpec == ChatInit /\ [][ChatNext]_<<vars, chatVars>>

-----------------------------------------------------------------------------
SpendFitsDays == \A d \in Days : spent[d] <= used[d] /\ used[d] <= DailyLimit

DaysOf(m) == {d \in Days : d \div MonthLength = m}

\* The counts of a month's days, as the number of their units.
UnitsIn(counts, m) == UNION {{d} \X (1..counts[d]) : d \in DaysOf(m)}

SpendFitsMonths ==
  \A m \in Months : /\ Cardinality(UnitsIn(spent, m)) <= usedInMonth[m]
                    /\ usedInMonth[m] <= MonthlyLimit

\* However answers overlap, retry and fail, and whatever becomes of Redis's
\* replies, no more requests are sent than the budgets allow: "Failed requests
\* are not refunded, so provider usage can never exceed the configured local
\* budget" (career-chat-usage-limiter.service.ts:46-51).  A request counts on
\* the day and in the month its answer was reserved.
SpendIsReserved == SpendFitsDays /\ SpendFitsMonths

============================================================================
