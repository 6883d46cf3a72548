--------------------------- MODULE ResumePipeline ---------------------------
(***************************************************************************)
(* The resume-parse pipeline: the queue workers of ParseWorker and the     *)
(* requeue command and outbox of ParseRequeue over the shared rows and     *)
(* jobs of ParseRecords.                                                   *)
(***************************************************************************)
EXTENDS ParseWorker, ParseRequeue

vars == <<records, worker, requeueVars>>

Init == RecordsInit /\ WorkerInit /\ RequeueInit

WorkerNext ==
  /\ \/ \E w \in Workers : WorkerStep(w) \/ WorkerFault(w)
     \/ \E g \in Generations :
          Delivery(g) \/ QueueStep(g) \/ LeaseExpires(g) \/ LockLapses(g)
     \/ ChangeEntitlement /\ UNCHANGED worker
  /\ UNCHANGED requeueVars

RequeueNext ==
  /\ \/ \E c \in Calls : CallStep(c) \/ RefuseWithoutConsent(c)
     \/ \E d \in Dispatchers : DispatcherStep(d) \/ RequeueFault(d)
     \/ DispatchLeaseExpires
  /\ UNCHANGED worker

Next == WorkerNext \/ RequeueNext

Spec == Init /\ [][Next]_vars

\* Node runs every started delivery on; BullMQ delivers waiting jobs, promotes
\* delayed ones and sweeps stalled ones; clocks advance; the dispatcher polls
\* every two seconds.  Faults are never fair.
Fairness ==
  /\ \A w \in Workers : WF_vars(WorkerStep(w) /\ UNCHANGED requeueVars)
  /\ \A g \in Generations :
       /\ WF_vars(Delivery(g) /\ UNCHANGED requeueVars)
       /\ WF_vars(QueueStep(g) /\ UNCHANGED requeueVars)
       /\ WF_vars(LeaseExpires(g) /\ ~Heartbeating(g)
                    /\ UNCHANGED requeueVars)
  /\ \A c \in Calls : WF_vars(CallStep(c) /\ UNCHANGED worker)
  /\ \A d \in Dispatchers : WF_vars(DispatcherStep(d) /\ UNCHANGED worker)
  /\ WF_vars(DispatchLeaseExpires /\ UNCHANGED worker)

FairSpec == Spec /\ Fairness

-----------------------------------------------------------------------------
\* The rows, jobs and processes hold values of their types.
TypeOK == RecordsTypeOK /\ WorkerTypeOK /\ RequeueTypeOK

\* A lease that was not released, live or expired, always guards an execution
\* that is processing, whichever of the claim, retry, failure, commit and crash
\* transactions ran last.
HeldLeaseIsProcessing ==
  \A g \in Generations :
    claim[g].lease # "none" => execution[g].status = "processing"

\* Two deliveries that hold a fence of one execution never hold the same
\* lease version, and none holds a version the row has not reached: at most
\* one of them can still write.
FencesAreDistinct ==
  \A v, w \in Workers :
    (worker[v].pc \in Holding) =>
      /\ worker[v].version <= claim[GenOf(v)].version
      /\ (v # w /\ worker[w].pc \in Holding /\ GenOf(v) = GenOf(w))
           => worker[v].version # worker[w].version

LatestGeneration == IF execution[1].status = "absent" THEN 0 ELSE 1

\* What the owner of a resume sees for each status of its latest execution.
ShownAs(status) ==
  CASE status = "queued" -> "pending"
    [] status \in {"processing", "retrying"} -> "processing"
    [] status = "succeeded" -> "ready"
    [] OTHER -> "failed"

\* The status shown on the resume always mirrors its latest execution, however
\* worker, requeue and dispatcher transactions interleave.
ResumeMirrorsExecution ==
  resume = ShownAs(execution[LatestGeneration].status)

\* A successor exists only for an initial execution that failed in a way an
\* administrator may requeue.
SuccessorOfRequeueable ==
  execution[1].status # "absent" => execution[0].status = "failed_requeueable"

\* A terminal execution keeps its status and category for ever: no late
\* delivery, dispatcher or crash classification reopens it.
TerminalIsFinal ==
  [][\A g \in Generations : execution[g].status \in Terminal =>
       /\ execution'[g].status = execution[g].status
       /\ execution'[g].category = execution[g].category]_vars

\* The claim moves to a later attempt only by consuming the authorization a
\* real failure left for exactly that attempt (schema.prisma, the comment on
\* ResumeParseExecutionClaim).
AttemptNeedsAuthorization ==
  [][\A g \in Generations :
       (claim[g].attempt # 0 /\ claim'[g].attempt # claim[g].attempt) =>
         /\ claim'[g].attempt = claim[g].attempt + 1
         /\ execution[g].status = "retrying"]_vars

\* The provider is paid at most once per attempt, plus once per delivery that
\* the stalled-job sweep repeated.
ChargesAreBounded ==
  \A g \in Generations : charged[g] <= claim[g].attempt + job[g].stalls

\* Only the request stored on the successor is ever accepted: of two
\* administrators with different keys or reasons at most one succeeds.
OnlyOwnerAccepted ==
  \A c \in Calls : call[c] = "accepted" => owner = RequestOf(c)

\* Once a request owns the successor, an exact duplicate of it is never
\* answered with a conflict.
DuplicateNeverRefused ==
  [][\A c \in Calls :
       (owner = RequestOf(c) /\ call[c] # "conflict")
         => call'[c] # "conflict"]_vars

\* The resume and the statuses of its executions live as ParseLifecycle says.
Lifecycle == INSTANCE ParseLifecycle
               WITH status <- [g \in Generations |-> execution[g].status]

\* Every step of the pipeline is a step of the lifecycle or leaves it alone.
ImplementsLifecycle == Lifecycle!LifecycleSpec

Unattended(g) == \A w \in Workers : At(w, "idle") \/ GenOf(w) # g

\* A job BullMQ gave up on, and no delivery is still working on, has left its
\* execution in a terminal status.
FailedJobIsClassified ==
  \A g \in Generations :
    job[g].state = "failed" /\ Unattended(g) =>
      execution[g].status \in Terminal

\* Every execution that is waiting for its job ends in a terminal status.
EveryExecutionSettles ==
  \A g \in Generations :
    (execution[g].status \in Claimable) ~> (execution[g].status \in Terminal)

\* A queued job whose entitlement changes does not stay unsettled: "the
\* document is marked failed so it cannot remain indefinitely pending"
\* (docs/FREE_BETA_EXECUTION.md).
PlanChangeSettles ==
  \A g \in Generations :
    (entitlement # "queue" /\ execution[g].status \in Claimable)
      ~> (execution[g].status \in Terminal)

\* Every job that fails for good gets its dead-letter entry, unless a process
\* died: only the failed event of the worker writes it.
FailedJobsReachDeadLetter ==
  \A g \in Generations :
    (job[g].state = "failed") ~> (g \in deadLetters \/ faultsLeft < MaxFaults)

============================================================================
