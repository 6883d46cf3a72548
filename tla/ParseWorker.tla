---------------------------- MODULE ParseWorker ----------------------------
(***************************************************************************)
(* The BullMQ consumer of the resume-parse queues: ResumeParseWorker and   *)
(* the fenced ResumeService.parse it runs.  Each worker handles one        *)
(* delivery at a time; an action is one await of processJob, so that the   *)
(* deliveries of one job interleave between any two database calls.        *)
(***************************************************************************)
EXTENDS ParseRecords

VARIABLE worker

\* Awaits of a delivery before its claim, while it holds a fence, and after
\* processJob has returned or thrown.
Admitting == {"getResume", "ensure", "readClaim", "claim"}
Holding   == {"resolve", "announce", "document", "provider", "commit",
              "recordDone", "caught", "markFailed", "report"}
Settling  == {"complete", "retry", "fail", "classify", "deadLetter"}
WorkerPc  == {"idle"} \cup Admitting \cup Holding \cup Settling

\* generation, attempt: of the delivery.  mode and version: how the claim row
\* read by readClaim may be taken, and its leaseVersion; once the claim is
\* taken, version is the fence.  category: the failure being handled.
WorkerState ==
  [pc: WorkerPc, generation: Generations, attempt: Nat,
   mode: {"none", "recovery", "retry"}, version: Nat,
   category: FailureCategory]

Idle == [pc |-> "idle", generation |-> 0, attempt |-> 0, mode |-> "none",
         version |-> 0, category |-> "none"]

WorkerTypeOK == worker \in [Workers -> WorkerState]

WorkerInit == worker = [w \in Workers |-> Idle]

-----------------------------------------------------------------------------
(* Control flow of one delivery.                                           *)

At(w, pc) == worker[w].pc = pc
GenOf(w)  == worker[w].generation

Goto(w, pc) == worker' = [worker EXCEPT ![w].pc = pc]

\* The catch block of processJob entered with an error of this category.
Catch(w, category) ==
  worker' = [worker EXCEPT ![w] =
               [worker[w] EXCEPT !.pc = "caught", !.category = category]]

Release(w) == worker' = [worker EXCEPT ![w] = Idle]

Fenced(w) == FenceHolds(GenOf(w), worker[w].version)

-----------------------------------------------------------------------------
(* Admission: identity, terminal check, attempt limit and claim.           *)

\* BullMQ gives a waiting job to a free worker.
Deliver(w, g) ==
  /\ At(w, "idle")
  /\ job[g].state = "waiting"
  /\ job' = [job EXCEPT ![g] = [job[g] EXCEPT !.state = "active", !.lock = w]]
  /\ worker' = [worker EXCEPT ![w] =
       [Idle EXCEPT !.pc = "getResume", !.generation = g,
                    !.attempt = job[g].attemptsMade + 1]]
  /\ UNCHANGED <<resume, execution, claim, deadLetters, entitlement, charged,
                 faultsLeft>>

\* A resume that is already parsed completes the job at once.
GetResume(w) ==
  /\ At(w, "getResume")
  /\ Goto(w, IF resume = "ready" THEN "complete" ELSE "ensure")
  /\ UNCHANGED records

\* ensureExecution (its row exists: the upload committed it), the terminal
\* check and the attempt limit.
Ensure(w) ==
  /\ At(w, "ensure")
  /\ Goto(w, IF \/ execution[GenOf(w)].status \in Terminal
                \/ worker[w].attempt > MaxAttempts
               THEN "fail" ELSE "readClaim")
  /\ UNCHANGED records

\* claimExecution finds or creates the claim row and decides how to take it.
ReadClaim(w) ==
  LET g == GenOf(w)
      n == worker[w].attempt
      row == IF claim[g].attempt = 0 THEN [NoClaim EXCEPT !.attempt = n]
                                     ELSE claim[g]
      mode == IF row.attempt = n /\ row.lease # "live" THEN "recovery"
              ELSE IF row.attempt = n - 1 /\ row.retryAuthorized = n
                THEN "retry" ELSE "none"
  IN /\ At(w, "readClaim")
     /\ claim' = [claim EXCEPT ![g] = row]
     /\ worker' = [worker EXCEPT ![w] =
          [worker[w] EXCEPT !.pc = IF mode = "none" THEN "fail" ELSE "claim",
                    !.mode = mode, !.version = row.version]]
     /\ UNCHANGED <<resume, execution, job, deadLetters, entitlement, charged,
                    faultsLeft>>

\* The `where` of the compare-and-set on the claim row.
ClaimUnchanged(w) ==
  LET row == claim[GenOf(w)] IN
  /\ row.version = worker[w].version
  /\ \/ /\ worker[w].mode = "recovery"
        /\ row.attempt = worker[w].attempt
        /\ row.lease # "live"
     \/ /\ worker[w].mode = "retry"
        /\ row.attempt = worker[w].attempt - 1
        /\ row.retryAuthorized = worker[w].attempt

\* The execution row still admits an attempt.
ExecutionAdmits(g) ==
  /\ execution[g].status \in Claimable
  /\ execution[g].attemptCount <= MaxAttempts

\* Mutant: the claim keeps the attempt it was created for.
TakeClaimKeepsAttempt(w) ==
  LET g == GenOf(w) IN
  /\ At(w, "claim")
  /\ ClaimUnchanged(w)
  /\ ExecutionAdmits(g)
  /\ claim' = [claim EXCEPT ![g] =
       [attempt |-> claim[g].attempt, retryAuthorized |-> 0,
        version |-> worker[w].version + 1, lease |-> "live"]]
  /\ execution' = [execution EXCEPT ![g] =
       [status |-> "processing", category |-> "none",
        attemptCount |-> worker[w].attempt]]
  /\ resume' = "processing"
  /\ worker' = [worker EXCEPT ![w] =
       [worker[w] EXCEPT !.pc = "resolve", !.mode = "none",
                            !.version = worker[w].version + 1]]
  /\ UNCHANGED <<job, deadLetters, entitlement, charged, faultsLeft>>

\* The claim transaction: a new lease version, the execution and the resume
\* are processing.
TakeClaim(w) ==
  LET g == GenOf(w) IN
  /\ At(w, "claim")
  /\ ClaimUnchanged(w)
  /\ ExecutionAdmits(g)
  /\ claim' = [claim EXCEPT ![g] =
       [attempt |-> worker[w].attempt, retryAuthorized |-> 0,
        version |-> worker[w].version + 1, lease |-> "live"]]
  /\ execution' = [execution EXCEPT ![g] =
       [status |-> "processing", category |-> "none",
        attemptCount |-> worker[w].attempt]]
  /\ resume' = "processing"
  /\ worker' = [worker EXCEPT ![w] =
       [worker[w] EXCEPT !.pc = "resolve", !.mode = "none",
                            !.version = worker[w].version + 1]]
  /\ UNCHANGED <<job, deadLetters, entitlement, charged, faultsLeft>>

\* The row moved on since it was read, or the execution is terminal: nothing
\* is written and the delivery is refused.
RefuseClaim(w) ==
  /\ At(w, "claim")
  /\ ~(ClaimUnchanged(w) /\ ExecutionAdmits(GenOf(w)))
  /\ Goto(w, "fail")
  /\ UNCHANGED records

-----------------------------------------------------------------------------
(* The attempt: entitlement, activity, document, provider, commit.         *)

\* PlanAwareAiRouter.resolve still yields the boundary of the queue.
ResolveRoute(w) ==
  /\ At(w, "resolve")
  /\ entitlement = "queue"
  /\ Goto(w, "announce")
  /\ UNCHANGED records

\* No trusted entitlement any more, or one of the other boundary that this
\* worker may serve as well.
EntitlementChanged(w) ==
  /\ At(w, "resolve")
  /\ entitlement = "none" \/ (entitlement = "other" /\ ~DedicatedWorkers)
  /\ worker' = [worker EXCEPT ![w] =
       [worker[w] EXCEPT !.pc = "markFailed",
                         !.category = "entitlement_changed"]]
  /\ UNCHANGED records

\* assertExecutionRole: a worker pinned to one boundary cannot resolve the
\* other.  Its 503 is not a ForbiddenException and leaves processJob.
RouteUnavailable(w) ==
  /\ At(w, "resolve")
  /\ entitlement = "other" /\ DedicatedWorkers
  /\ Goto(w, "retry")
  /\ UNCHANGED records

\* writeActivity resume_parse_started.
Announce(w) ==
  /\ At(w, "announce")
  /\ Goto(w, "document")
  /\ UNCHANGED records

\* parse: a ready resume is returned as it is; otherwise the file is
\* downloaded and its text extracted.
ReadDocument(w) ==
  /\ At(w, "document")
  /\ \/ /\ resume = "ready"
        /\ Goto(w, "recordDone")
     \/ /\ resume # "ready"
        /\ \/ Goto(w, "provider")
           \/ \E category \in ParseFailures \cap
                 {"storage_transient", "document_unreadable",
                  "internal_unknown"} : Catch(w, category)
  /\ UNCHANGED records

\* resumeParser.parse: AIService resolves the entitlement once more; then the
\* provider answers, and is paid, or the call fails.
CallProvider(w) ==
  /\ At(w, "provider")
  /\ entitlement = "queue"
  /\ \/ /\ charged' = [charged EXCEPT ![GenOf(w)] = @ + 1]
        /\ Goto(w, "commit")
     \/ /\ \E category \in ParseFailures \cap
              {"provider_transient", "provider_configuration",
               "internal_unknown"} : Catch(w, category)
        /\ UNCHANGED charged
  /\ UNCHANGED <<resume, execution, claim, job, deadLetters, entitlement,
                 faultsLeft>>

\* AIService refuses: a 403 for a boundary that changed, or the retryable 503
\* of a worker that is pinned to the other boundary.
ProviderRefused(w) ==
  /\ At(w, "provider")
  /\ entitlement # "queue"
  /\ Catch(w, IF entitlement = "other" /\ DedicatedWorkers
                THEN "provider_transient" ELSE "authorization")
  /\ UNCHANGED records

\* Mutant: the commit does not release the claim.
CommitKeepsLease(w) ==
  LET g == GenOf(w) IN
  /\ At(w, "commit")
  /\ Fenced(w)
  /\ execution[g].status = "processing"
  /\ execution' = [execution EXCEPT ![g] =
       [execution[g] EXCEPT !.status = "succeeded", !.category = "none"]]
  /\ resume' = "ready"
  /\ Goto(w, "recordDone")
  /\ UNCHANGED <<claim, job, deadLetters, entitlement, charged, faultsLeft>>

\* The fenced commit: claim, execution and resume in one transaction.
Commit(w) ==
  LET g == GenOf(w) IN
  /\ At(w, "commit")
  /\ Fenced(w)
  /\ execution[g].status = "processing"
  /\ claim' = [claim EXCEPT ![g].lease = "none"]
  /\ execution' = [execution EXCEPT ![g] =
       [execution[g] EXCEPT !.status = "succeeded", !.category = "none"]]
  /\ resume' = "ready"
  /\ Goto(w, "recordDone")
  /\ UNCHANGED <<job, deadLetters, entitlement, charged, faultsLeft>>

\* StaleResumeParseExecutionError: another delivery owns the execution.
CommitStale(w) ==
  /\ At(w, "commit")
  /\ ~(Fenced(w) /\ execution[GenOf(w)].status = "processing")
  /\ Goto(w, "fail")
  /\ UNCHANGED records

\* writeActivity resume_parse_completed, inside the try block.
RecordDone(w) ==
  /\ At(w, "recordDone")
  /\ Goto(w, "complete")
  /\ UNCHANGED records

-----------------------------------------------------------------------------
(* The catch block: authorize one retry or make the execution terminal.    *)

MayRetry(w) ==
  worker[w].category \in Retryable /\ worker[w].attempt < MaxAttempts

\* `where` of authorizeRetry.
RetryGranted(w) ==
  LET row == claim[GenOf(w)] IN
  /\ Fenced(w)
  /\ row.attempt = worker[w].attempt
  /\ row.retryAuthorized = 0

\* Mutant: only the claim records the authorized retry.
AuthorizeRetryOnClaim(w) ==
  LET g == GenOf(w) IN
  /\ At(w, "caught")
  /\ MayRetry(w)
  /\ RetryGranted(w)
  /\ claim' = [claim EXCEPT ![g] =
       [claim[g] EXCEPT !.retryAuthorized = worker[w].attempt + 1,
                        !.lease = "none"]]
  /\ IF execution[g].status = "processing"
       THEN UNCHANGED execution /\ Goto(w, "retry")
       ELSE UNCHANGED execution /\ Goto(w, "markFailed")
  /\ UNCHANGED <<resume, job, deadLetters, entitlement, charged, faultsLeft>>

\* authorizeRetry: release the lease and admit exactly the next attempt.  If
\* the execution is not processing the authorization is kept, but the caller
\* treats the failure as terminal.
AuthorizeRetry(w) ==
  LET g == GenOf(w) IN
  /\ At(w, "caught")
  /\ MayRetry(w)
  /\ RetryGranted(w)
  /\ claim' = [claim EXCEPT ![g] =
       [claim[g] EXCEPT !.retryAuthorized = worker[w].attempt + 1,
                        !.lease = "none"]]
  /\ IF execution[g].status = "processing"
       THEN SetStatus(g, "retrying") /\ Goto(w, "retry")
       ELSE UNCHANGED execution /\ Goto(w, "markFailed")
  /\ UNCHANGED <<resume, job, deadLetters, entitlement, charged, faultsLeft>>

\* The failure is not retryable, was the last attempt, or lost its fence.
GiveUp(w) ==
  /\ At(w, "caught")
  /\ ~(MayRetry(w) /\ RetryGranted(w))
  /\ Goto(w, "markFailed")
  /\ UNCHANGED records

\* Mutant: the resume fails even when the fence is lost.
MarkFailedUnfenced(w) ==
  LET g == GenOf(w) IN
  /\ At(w, "markFailed")
  /\ IF Fenced(w)
       THEN /\ CloseClaim(g)
            /\ IF execution[g].status = "processing"
                 THEN SetFailed(g, worker[w].category) /\ resume' = "failed"
                 ELSE UNCHANGED <<execution, resume>>
       ELSE resume' = "failed" /\ UNCHANGED <<claim, execution>>
  /\ Goto(w, "report")
  /\ UNCHANGED <<job, deadLetters, entitlement, charged, faultsLeft>>

\* markExecutionFailed: fenced; a delivery that lost its fence writes nothing.
MarkFailed(w) ==
  LET g == GenOf(w) IN
  /\ At(w, "markFailed")
  /\ IF Fenced(w)
       THEN /\ CloseClaim(g)
            /\ IF execution[g].status = "processing"
                 THEN SetFailed(g, worker[w].category) /\ resume' = "failed"
                 ELSE UNCHANGED <<execution, resume>>
       ELSE UNCHANGED <<claim, execution, resume>>
  /\ Goto(w, "report")
  /\ UNCHANGED <<job, deadLetters, entitlement, charged, faultsLeft>>

\* writeActivity resume_parse_failed, then an UnrecoverableError.
Report(w) ==
  /\ At(w, "report")
  /\ Goto(w, "fail")
  /\ UNCHANGED records

-----------------------------------------------------------------------------
(* Settling the job.  A worker that lost the job lock changes nothing.     *)

OwnsJob(w) == job[GenOf(w)].lock = w

Complete(w) ==
  LET g == GenOf(w) IN
  /\ At(w, "complete")
  /\ job' = IF OwnsJob(w)
              THEN [job EXCEPT ![g] =
                     [job[g] EXCEPT !.state = "completed", !.lock = None]]
              ELSE job
  /\ Release(w)
  /\ UNCHANGED <<resume, execution, claim, deadLetters, entitlement, charged,
                 faultsLeft>>

\* A plain Error: BullMQ counts the attempt and delays the job until its
\* attempts are used up; then the failure is terminal (isTerminalFailure).
Retry(w) ==
  LET g == GenOf(w)
      made == job[g].attemptsMade + 1
  IN /\ At(w, "retry")
     /\ IF OwnsJob(w)
          THEN /\ job' = [job EXCEPT ![g] =
                    [state |-> IF made < JobAttempts THEN "delayed"
                                                     ELSE "failed",
                     attemptsMade |-> made, stalls |-> job[g].stalls,
                     lock |-> None]]
               /\ IF made < JobAttempts THEN Release(w)
                                        ELSE Goto(w, "classify")
          ELSE Release(w) /\ UNCHANGED job
     /\ UNCHANGED <<resume, execution, claim, deadLetters, entitlement, charged,
                    faultsLeft>>

\* An UnrecoverableError: the job fails at once.
Fail(w) ==
  LET g == GenOf(w) IN
  /\ At(w, "fail")
  /\ IF OwnsJob(w)
       THEN /\ job' = [job EXCEPT ![g] =
                 [job[g] EXCEPT !.state = "failed",
                                !.attemptsMade = job[g].attemptsMade + 1,
                           !.lock = None]]
            /\ Goto(w, "classify")
       ELSE Release(w) /\ UNCHANGED job
  /\ UNCHANGED <<resume, execution, claim, deadLetters, entitlement, charged,
                 faultsLeft>>

\* A job that stalled too often is failed without running the processor.
FailStalled(w, g) ==
  /\ At(w, "idle")
  /\ job[g].state = "active"
  /\ job[g].lock = None
  /\ job[g].stalls >= MaxStalledCount
  /\ RedeliveryAllowed(g)
  /\ job' = [job EXCEPT ![g] =
       [job[g] EXCEPT !.state = "failed",
                      !.attemptsMade = job[g].attemptsMade + 1]]
  /\ worker' = [worker EXCEPT ![w] =
                  [Idle EXCEPT !.pc = "classify", !.generation = g]]
  /\ UNCHANGED <<resume, execution, claim, deadLetters, entitlement, charged,
                 faultsLeft>>

\* markTerminalWorkerCrash acts only on an attempt whose lease has expired.
CrashEvident(g) ==
  /\ claim[g].lease = "expired"
  /\ execution[g].status \in {"processing", "retrying"}

\* Mutant: a job that left no crash evidence is not dead-lettered.
ClassifyOrReturn(w) ==
  LET g == GenOf(w) IN
  /\ At(w, "classify")
  /\ IF CrashEvident(g)
       THEN /\ CloseClaim(g)
            /\ SetFailed(g, "worker_crash")
            /\ resume' = "failed"
            /\ Goto(w, "deadLetter")
       ELSE UNCHANGED <<claim, execution, resume>> /\ Release(w)
  /\ UNCHANGED <<job, deadLetters, entitlement, charged, faultsLeft>>

Classify(w) ==
  LET g == GenOf(w) IN
  /\ At(w, "classify")
  /\ IF CrashEvident(g)
       THEN /\ CloseClaim(g)
            /\ SetFailed(g, "worker_crash")
            /\ resume' = "failed"
       ELSE UNCHANGED <<claim, execution, resume>>
  /\ Goto(w, "deadLetter")
  /\ UNCHANGED <<job, deadLetters, entitlement, charged, faultsLeft>>

\* routeToDeadLetter: one entry per job, whose id is its jobId.
DeadLetter(w) ==
  /\ At(w, "deadLetter")
  /\ deadLetters' = deadLetters \cup {GenOf(w)}
  /\ Release(w)
  /\ UNCHANGED <<resume, execution, claim, job, charged, faultsLeft,
                 entitlement>>

-----------------------------------------------------------------------------
(* Time and faults.                                                        *)

\* Some delivery still runs under the current fence of g and heartbeats it.
Heartbeating(g) ==
  \E w \in Workers : /\ worker[w].pc \in Holding
                     /\ GenOf(w) = g
                     /\ worker[w].version = claim[g].version

\* Five minutes pass after the last renewal: the holder is gone, or it is alive
\* and did not renew in time ("lapse"; only parsing is wrapped in heartbeats,
\* so a slow await before or after it counts too).
LeaseExpires(g) ==
  /\ claim[g].lease = "live"
  /\ \/ ~Heartbeating(g) /\ UNCHANGED faultsLeft
     \/ Heartbeating(g) /\ SpendFault("lapse")
  /\ claim' = [claim EXCEPT ![g].lease = "expired"]
  /\ UNCHANGED <<resume, execution, job, deadLetters, entitlement, charged,
                 worker>>

\* A live worker fails to renew its job lock.
LockLapses(g) ==
  /\ SpendFault("lapse")
  /\ job[g].state = "active"
  /\ job[g].lock # None
  /\ job' = [job EXCEPT ![g].lock = None]
  /\ UNCHANGED <<resume, execution, claim, deadLetters, entitlement, charged,
                 worker>>

\* The worker process dies; nobody renews its locks and leases any more.
Crash(w) ==
  /\ SpendFault("crash")
  /\ ~At(w, "idle")
  /\ job' = [g \in Generations |->
               IF job[g].lock = w THEN [job[g] EXCEPT !.lock = None]
                                  ELSE job[g]]
  /\ Release(w)
  /\ UNCHANGED <<resume, execution, claim, deadLetters, entitlement, charged>>

\* An await outside the try block rejects (a database error, a 503 of the
\* router): the error leaves processJob as it is, and no row is written.
ThrowRaw(w) ==
  /\ SpendFault("throw")
  /\ worker[w].pc \in Admitting \cup
       {"resolve", "announce", "caught", "markFailed", "report"}
  /\ Goto(w, "retry")
  /\ UNCHANGED <<resume, execution, claim, job, deadLetters, entitlement,
                 charged>>

\* An await inside the try block rejects: the catch block sees it.
ThrowCaught(w) ==
  /\ SpendFault("throw")
  /\ worker[w].pc \in {"commit", "recordDone"}
  /\ Catch(w, "internal_unknown")
  /\ UNCHANGED <<resume, execution, claim, job, deadLetters, entitlement,
                 charged>>

\* handleTerminalFailure swallows a failing classification; a failing write
\* to the dead-letter queue is only logged.
ThrowHandler(w) ==
  /\ SpendFault("throw")
  /\ \/ At(w, "classify") /\ Goto(w, "deadLetter")
     \/ At(w, "deadLetter") /\ Release(w)
  /\ UNCHANGED <<resume, execution, claim, job, deadLetters, entitlement,
                 charged>>

-----------------------------------------------------------------------------
\* The steps the program takes by itself, per delivery ...
WorkerStep(w) ==
  \/ GetResume(w) \/ Ensure(w) \/ ReadClaim(w)
  \/ TakeClaim(w) \/ RefuseClaim(w)
  \/ ResolveRoute(w) \/ EntitlementChanged(w) \/ RouteUnavailable(w)
  \/ Announce(w)
  \/ ReadDocument(w) \/ CallProvider(w) \/ ProviderRefused(w)
  \/ Commit(w) \/ CommitStale(w) \/ RecordDone(w)
  \/ AuthorizeRetry(w) \/ GiveUp(w) \/ MarkFailed(w) \/ Report(w)
  \/ Complete(w) \/ Retry(w) \/ Fail(w)
  \/ Classify(w) \/ DeadLetter(w)

\* ... the deliveries BullMQ makes ...
Delivery(g) == \E w \in Workers : Deliver(w, g) \/ FailStalled(w, g)

QueueStep(g) == (PromoteDelayed(g) \/ Redeliver(g)) /\ UNCHANGED worker

\* ... and what the environment does to them.
WorkerFault(w) == Crash(w) \/ ThrowRaw(w) \/ ThrowCaught(w) \/ ThrowHandler(w)

============================================================================
