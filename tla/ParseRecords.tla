--------------------------- MODULE ParseRecords ---------------------------
(***************************************************************************)
(* The durable state of the resume-parse pipeline of apps/api: the rows of *)
(* PostgreSQL (one resume, its executions, their claims) and the BullMQ    *)
(* job of each execution.  The modules ParseWorker and ParseRequeue extend *)
(* this one; ResumePipeline composes them.                                 *)
(*                                                                         *)
(* Time is abstracted.  A lease (leaseExpiresAt) is "none" (NULL), "live"  *)
(* (in the future) or "expired" (in the past).  A job lock is the worker   *)
(* that renews it, or None once nobody does.                               *)
(***************************************************************************)
EXTENDS Integers, FiniteSets

CONSTANTS
  Workers,          \* concurrent deliveries: a worker process and its slot
  MaxAttempts,      \* min(max(execution.maxAttempts, 1), 3): 3 in the code
  JobAttempts,      \* job.opts.attempts of the BullMQ job: 3 in the code
  MaxStalledCount,  \* BullMQ: stalled deliveries before the job is failed (1)
  ParseFailures,    \* the failure categories the parser may raise here
  Entitlements,     \* the entitlements the candidate's plan may move between
  DedicatedWorkers, \* does AI_EXECUTION_ROLE pin each worker to one boundary?
  Faults,           \* the kinds of fault the environment may inject
  MaxFaults,        \* how many faults it may inject in a behaviour
  LockMayLapseFirst,\* may a job be redelivered while its lease is live?
  None              \* no worker

VARIABLES
  resume,      \* resumes.parseStatus
  execution,   \* resume_parse_executions, by generation
  claim,       \* resume_parse_execution_claims, by execution
  job,         \* the BullMQ job of each execution
  deadLetters, \* generations with an entry in resume-parse-dead-letter
  entitlement, \* the trusted subscription, relative to the job's queue
  charged,     \* provider completions paid for, by generation (history)
  faultsLeft   \* faults the environment may still inject

records == <<resume, execution, claim, job, deadLetters, entitlement, charged,
             faultsLeft>>

-----------------------------------------------------------------------------
(* Data types.                                                             *)

Generations == {0, 1}

ResumeStatus == {"pending", "processing", "ready", "failed"}

\* "absent" is the row that does not exist.
ExecutionStatus ==
  {"absent", "requeue_requested", "queued", "processing", "retrying",
   "succeeded", "failed_requeueable", "failed_permanent"}

Terminal == {"succeeded", "failed_requeueable", "failed_permanent"}

\* The statuses from which a claim may start an attempt.
Claimable == {"requeue_requested", "queued", "processing", "retrying"}

\* document_empty, provider_response_invalid and record_missing are handled
\* like document_unreadable and are not told apart from it.
FailureCategory ==
  {"none", "provider_transient", "storage_transient", "worker_crash",
   "internal_unknown", "provider_configuration", "document_unreadable",
   "authorization", "entitlement_changed"}

\* Failures that may be tried again (isRetryableFailure) ...
Retryable == {"provider_transient", "storage_transient", "internal_unknown"}

\* ... and failures an administrator may requeue once they are final.
Requeueable == {"provider_transient", "storage_transient", "worker_crash"}

\* The subscription entitles to the boundary of the queue, to the other one, or
\* to none (missing, canceled, untrusted).
Entitlement == {"queue", "other", "none"}

\* A process dies; an await that the code does not handle throws; a process
\* stays alive but stops renewing its lock or its lease.
FaultKind == {"crash", "throw", "lapse"}

Lease == {"none", "live", "expired"}

Execution ==
  [status: ExecutionStatus, category: FailureCategory, attemptCount: Nat]

\* attempt 0 is the claim that does not exist yet; retryAuthorized 0 is NULL.
Claim == [attempt: Nat, retryAuthorized: Nat, version: Nat, lease: Lease]

Job ==
  [state: {"none", "waiting", "active", "delayed", "completed", "failed"},
   attemptsMade: Nat, stalls: Nat, lock: Workers \cup {None}]

NoExecution == [status |-> "absent", category |-> "none", attemptCount |-> 0]
NoClaim     == [attempt |-> 0, retryAuthorized |-> 0, version |-> 0,
                lease |-> "none"]
NoJob       == [state |-> "none", attemptsMade |-> 0, stalls |-> 0,
                lock |-> None]

ASSUME ConstantsAssumption ==
  /\ MaxAttempts \in Nat \ {0}
  /\ JobAttempts \in Nat \ {0}
  /\ MaxStalledCount \in Nat
  /\ ParseFailures \subseteq FailureCategory \ {"none"}
  /\ Entitlements \subseteq Entitlement
  /\ DedicatedWorkers \in BOOLEAN
  /\ Faults \subseteq FaultKind
  /\ MaxFaults \in Nat
  /\ LockMayLapseFirst \in BOOLEAN
  /\ None \notin Workers

RecordsTypeOK ==
  /\ resume \in ResumeStatus
  /\ execution \in [Generations -> Execution]
  /\ claim \in [Generations -> Claim]
  /\ job \in [Generations -> Job]
  /\ deadLetters \in SUBSET Generations
  /\ entitlement \in Entitlement
  /\ charged \in [Generations -> Nat]
  /\ faultsLeft \in Nat

\* The state after a successful upload: the resume and its execution of
\* generation 0 are committed and the job is in its queue.
RecordsInit ==
  /\ resume = "pending"
  /\ execution = [g \in Generations |->
                    IF g = 0 THEN [NoExecution EXCEPT !.status = "queued"]
                             ELSE NoExecution]
  /\ claim = [g \in Generations |-> NoClaim]
  /\ job = [g \in Generations |->
              IF g = 0 THEN [NoJob EXCEPT !.state = "waiting"] ELSE NoJob]
  /\ deadLetters = {}
  /\ entitlement = "queue"
  /\ charged = [g \in Generations |-> 0]
  /\ faultsLeft = MaxFaults

-----------------------------------------------------------------------------
(* Updates of one row.  Each is the `data` of an updateMany.               *)

SetStatus(g, s) == execution' = [execution EXCEPT ![g].status = s]

SetFailed(g, category) ==
  execution' = [execution EXCEPT ![g] =
    [execution[g] EXCEPT
       !.status = IF category \in Requeueable THEN "failed_requeueable"
                                              ELSE "failed_permanent",
       !.category = category]]

\* A claim that admits no further attempt by itself.
CloseClaim(g) ==
  claim' = [claim EXCEPT ![g] = [claim[g] EXCEPT !.lease = "none",
                                          !.retryAuthorized = 0]]

\* `where` of every fenced write: this claim, this lease version, lease live.
FenceHolds(g, version) ==
  claim[g].version = version /\ claim[g].lease = "live"

SpendFault(kind) ==
  /\ kind \in Faults
  /\ faultsLeft > 0
  /\ faultsLeft' = faultsLeft - 1

\* Billing changes the candidate's plan, at any time.
ChangeEntitlement ==
  /\ entitlement' \in Entitlements \ {entitlement}
  /\ UNCHANGED <<resume, execution, claim, job, deadLetters, charged,
                 faultsLeft>>

-----------------------------------------------------------------------------
(* BullMQ and the clock, as the code in src uses them.                     *)

\* queue.add with a deterministic jobId: ignored while that job exists.
QueueAdd(g) ==
  job' = IF job[g].state = "none"
           THEN [job EXCEPT ![g].state = "waiting"] ELSE job

\* The backoff of a failed attempt has passed.
PromoteDelayed(g) ==
  /\ job[g].state = "delayed"
  /\ job' = [job EXCEPT ![g].state = "waiting"]
  /\ UNCHANGED <<resume, execution, claim, deadLetters, entitlement, charged,
                 faultsLeft>>

\* The lock of an active job and the lease of its claim are renewed by
\* different timers (lockDuration / 2 and EXECUTION_HEARTBEAT_MS), so after a
\* crash the lock may lapse while the lease is still live.  The runs that set
\* LockMayLapseFirst to FALSE show what holds if it never did.
RedeliveryAllowed(g) == claim[g].lease = "live" => LockMayLapseFirst

\* The stalled-job sweep puts an unlocked active job back in its queue.
\* The delivery does not count as an attempt.
Redeliver(g) ==
  /\ job[g].state = "active"
  /\ job[g].lock = None
  /\ job[g].stalls < MaxStalledCount
  /\ RedeliveryAllowed(g)
  /\ job' = [job EXCEPT ![g] =
               [job[g] EXCEPT !.state = "waiting",
                              !.stalls = job[g].stalls + 1]]
  /\ UNCHANGED <<resume, execution, claim, deadLetters, entitlement, charged,
                 faultsLeft>>

============================================================================
