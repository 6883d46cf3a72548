------------------------ MODULE PipelineSafety_proofs ------------------------
(***************************************************************************)
(* The safety of ResumePipeline: what the statuses, the leases and the     *)
(* fences mean, and that the pipeline implements ParseLifecycle; for every *)
(* set of workers, dispatchers and calls, every attempt limit and every    *)
(* kind and number of faults.                                              *)
(*                                                                         *)
(* The argument: a step either leaves statuses and leases alone or is one  *)
(* of six moves of a single execution (Moves).  Every property is then a   *)
(* short case split over the moves, from the invariant CoreInv.            *)
(***************************************************************************)
EXTENDS ResumePipeline, FiniteSetTheorems, TLAPS

-----------------------------------------------------------------------------
(* Types.                                                                  *)

\* The initial state is well typed.
LEMMA InitTypes == Init => TypeOK
  BY ConstantsAssumption, RequeueAssumption
     DEF Init, RecordsInit, WorkerInit, RequeueInit, TypeOK, RecordsTypeOK,
         WorkerTypeOK, RequeueTypeOK, Generations, NoExecution, NoClaim, NoJob,
         Idle, Execution, Claim, Job, WorkerState, ResumeStatus,
         ExecutionStatus, FailureCategory, Lease, Entitlement, WorkerPc,
         CallPc, Owners, DispatchRow, DispatcherPc

\* Moving a delivery to another await keeps its type ...
LEMMA GotoTypes ==
  ASSUME WorkerTypeOK, NEW w \in Workers, NEW pc \in WorkerPc, Goto(w, pc)
  PROVE  WorkerTypeOK'
  BY DEF WorkerTypeOK, WorkerState, Goto

\* ... so does entering the catch block with a known category ...
LEMMA CatchTypes ==
  ASSUME WorkerTypeOK, NEW w \in Workers, NEW category \in FailureCategory,
         Catch(w, category)
  PROVE  WorkerTypeOK'
  <1>1. "caught" \in WorkerPc
    BY DEF WorkerPc, Holding
  <1> QED
    BY <1>1 DEF WorkerTypeOK, WorkerState, Catch

\* ... and any update of all that a delivery knows.
LEMMA PutTypes ==
  ASSUME WorkerTypeOK, NEW w \in Workers, NEW r \in WorkerState,
         worker' = [worker EXCEPT ![w] = r]
  PROVE  WorkerTypeOK'
  BY DEF WorkerTypeOK

\* The updates of one row preserve its type.
LEMMA StatusTypes ==
  ASSUME execution \in [Generations -> Execution], NEW g \in Generations,
         NEW s \in ExecutionStatus, SetStatus(g, s)
  PROVE  execution' \in [Generations -> Execution]
  BY DEF SetStatus, Execution

LEMMA FailedTypes ==
  ASSUME execution \in [Generations -> Execution], NEW g \in Generations,
         NEW category \in FailureCategory, SetFailed(g, category)
  PROVE  execution' \in [Generations -> Execution]
  BY DEF SetFailed, Execution, ExecutionStatus

LEMMA CloseTypes ==
  ASSUME claim \in [Generations -> Claim], NEW g \in Generations, CloseClaim(g)
  PROVE  claim' \in [Generations -> Claim]
  BY DEF CloseClaim, Claim, Lease

\* What a delivery knows is well typed.
LEMMA WorkerFacts ==
  ASSUME WorkerTypeOK, NEW w \in Workers
  PROVE  /\ GenOf(w) \in Generations
         /\ worker[w] \in WorkerState
         /\ worker[w].attempt \in Nat
         /\ worker[w].version \in Nat
         /\ worker[w].category \in FailureCategory
  BY DEF WorkerTypeOK, WorkerState, GenOf

\* An idle worker is well typed.
LEMMA IdleTypes == Idle \in WorkerState
  BY DEF Idle, WorkerState, WorkerPc, Generations, FailureCategory

\* The steps of a delivery preserve the types of the rows and jobs ...
LEMMA WorkerStepRecords ==
  ASSUME TypeOK, NEW w \in Workers, WorkerStep(w)
  PROVE  RecordsTypeOK'
  <1> USE ConstantsAssumption DEF TypeOK, RecordsTypeOK
  <1>0. /\ GenOf(w) \in Generations
        /\ worker[w].attempt \in Nat
        /\ worker[w].version \in Nat
        /\ worker[w].category \in FailureCategory
        /\ claim[GenOf(w)] \in Claim
        /\ execution[GenOf(w)] \in Execution
        /\ job[GenOf(w)] \in Job
    BY WorkerFacts
  <1> USE <1>0
  <1>1. CASE TakeClaim(w)
    BY <1>1 DEF TakeClaim, Claim, Lease, Execution, ExecutionStatus,
           FailureCategory, ResumeStatus
  <1>2. CASE ReadClaim(w)
    <2> DEFINE n == worker[w].attempt
               row == IF claim[GenOf(w)].attempt = 0
                        THEN [NoClaim EXCEPT !.attempt = n] ELSE claim[GenOf(w)]
    <2>1. row \in Claim
      <3>1. claim[GenOf(w)] \in Claim
        OBVIOUS
      <3>2. [NoClaim EXCEPT !.attempt = n] \in Claim
        BY DEF Claim, NoClaim, Lease
      <3> QED
        BY <3>1, <3>2
    <2>2. claim' = [claim EXCEPT ![GenOf(w)] = row]
      BY <1>2 DEF ReadClaim
    <2> HIDE DEF row
    <2>3. claim' \in [Generations -> Claim]
      BY <2>1, <2>2
    <2> QED
      BY <1>2, <2>3 DEF ReadClaim
  <1>3. CASE CallProvider(w)
    BY <1>3 DEF CallProvider
  <1>4. CASE Commit(w)
    <2> DEFINE r == [execution[GenOf(w)] EXCEPT !.status = "succeeded",
                                                !.category = "none"]
    <2>1. r \in Execution
      BY DEF Execution, ExecutionStatus, FailureCategory
    <2>2. execution' = [execution EXCEPT ![GenOf(w)] = r]
      BY <1>4 DEF Commit
    <2>3. claim' \in [Generations -> Claim]
      BY <1>4 DEF Commit, Claim, Lease
    <2> HIDE DEF r
    <2>4. execution' \in [Generations -> Execution]
      BY <2>1, <2>2
    <2> QED
      BY <1>4, <2>3, <2>4 DEF Commit, ResumeStatus
  <1>5. CASE AuthorizeRetry(w)
    <2> DEFINE n == worker[w].attempt + 1
               r == [claim[GenOf(w)] EXCEPT !.retryAuthorized = n,
                                            !.lease = "none"]
    <2>3. r \in Claim
      <3>1. n \in Nat
        OBVIOUS
      <3> HIDE DEF n
      <3> QED
        BY <3>1 DEF Claim, Lease
    <2>4. claim' = [claim EXCEPT ![GenOf(w)] = r]
      BY <1>5 DEF AuthorizeRetry
    <2> HIDE DEF r
    <2>1. claim' \in [Generations -> Claim]
      BY <2>3, <2>4
    <2>2. execution' \in [Generations -> Execution]
      BY <1>5, StatusTypes DEF AuthorizeRetry, ExecutionStatus
    <2> QED
      BY <1>5, <2>1, <2>2 DEF AuthorizeRetry
  <1>6. CASE MarkFailed(w)
    <2>1. claim' \in [Generations -> Claim]
      BY <1>6, CloseTypes DEF MarkFailed
    <2>2. execution' \in [Generations -> Execution]
      BY <1>6, FailedTypes DEF MarkFailed
    <2>3. resume' \in ResumeStatus
      BY <1>6 DEF MarkFailed, ResumeStatus
    <2> QED
      BY <1>6, <2>1, <2>2, <2>3 DEF MarkFailed
  <1>7. CASE Complete(w)
    BY <1>7 DEF Complete, OwnsJob, Job
  <1>8. CASE Retry(w)
    BY <1>8 DEF Retry, OwnsJob, Job
  <1>9. CASE Fail(w)
    <2> DEFINE n == job[GenOf(w)].attemptsMade + 1
               r == [job[GenOf(w)] EXCEPT !.state = "failed",
                                          !.attemptsMade = n, !.lock = None]
    <2>1. r \in Job
      <3>1. n \in Nat
        BY DEF Job
      <3> HIDE DEF n
      <3> QED
        BY <3>1 DEF Job
    <2>2. UNCHANGED job \/ job' = [job EXCEPT ![GenOf(w)] = r]
      BY <1>9 DEF Fail
    <2> HIDE DEF r
    <2>3. job' \in [Generations -> Job]
      BY <2>1, <2>2
    <2> QED
      BY <1>9, <2>3 DEF Fail
  <1>10. CASE Classify(w)
    <2>1. claim' \in [Generations -> Claim]
      BY <1>10, CloseTypes DEF Classify
    <2>2. execution' \in [Generations -> Execution]
      BY <1>10, FailedTypes DEF Classify, FailureCategory
    <2>3. resume' \in ResumeStatus
      BY <1>10 DEF Classify, ResumeStatus
    <2> QED
      BY <1>10, <2>1, <2>2, <2>3 DEF Classify
  <1>11. CASE DeadLetter(w)
    BY <1>11 DEF DeadLetter
  <1>12. CASE UNCHANGED records
    BY <1>12 DEF records
  <1> QED
    BY <1>1, <1>2, <1>3, <1>4, <1>5, <1>6, <1>7, <1>8, <1>9, <1>10, <1>11, <1>12
       DEF WorkerStep, GetResume, Ensure, RefuseClaim, ResolveRoute,
       EntitlementChanged, RouteUnavailable, Announce, ReadDocument,
       ProviderRefused, CommitStale, RecordDone, GiveUp, Report

\* ... and of what the delivery knows.
LEMMA WorkerStepWorker ==
  ASSUME TypeOK, NEW w \in Workers, WorkerStep(w)
  PROVE  WorkerTypeOK'
  <1> USE DEF TypeOK
  <1>0. worker[w] \in WorkerState /\ GenOf(w) \in Generations
    BY WorkerFacts
  <1> USE <1>0
  <1>1. CASE \E pc \in WorkerPc : Goto(w, pc)
    BY <1>1, GotoTypes
  <1>2. CASE \E category \in FailureCategory : Catch(w, category)
    BY <1>2, CatchTypes
  <1>3. CASE Release(w)
    BY <1>3, IdleTypes, PutTypes DEF Release
  <1>4. CASE GetResume(w)
    <2>1. \E pc \in WorkerPc : Goto(w, pc)
      BY <1>4 DEF GetResume, WorkerPc, Admitting, Holding, Settling
    <2> QED
      BY <2>1, <1>1
  <1>5. CASE Ensure(w)
    <2>1. \E pc \in WorkerPc : Goto(w, pc)
      BY <1>5 DEF Ensure, WorkerPc, Admitting, Holding, Settling
    <2> QED
      BY <2>1, <1>1
  <1>6. CASE RefuseClaim(w)
    <2>1. \E pc \in WorkerPc : Goto(w, pc)
      BY <1>6 DEF RefuseClaim, WorkerPc, Admitting, Holding, Settling
    <2> QED
      BY <2>1, <1>1
  <1>7. CASE ResolveRoute(w)
    <2>1. \E pc \in WorkerPc : Goto(w, pc)
      BY <1>7 DEF ResolveRoute, WorkerPc, Admitting, Holding, Settling
    <2> QED
      BY <2>1, <1>1
  <1>8. CASE RouteUnavailable(w)
    <2>1. \E pc \in WorkerPc : Goto(w, pc)
      BY <1>8 DEF RouteUnavailable, WorkerPc, Admitting, Holding, Settling
    <2> QED
      BY <2>1, <1>1
  <1>9. CASE Announce(w)
    <2>1. \E pc \in WorkerPc : Goto(w, pc)
      BY <1>9 DEF Announce, WorkerPc, Admitting, Holding, Settling
    <2> QED
      BY <2>1, <1>1
  <1>10. CASE Commit(w)
    <2>1. \E pc \in WorkerPc : Goto(w, pc)
      BY <1>10 DEF Commit, WorkerPc, Admitting, Holding, Settling
    <2> QED
      BY <2>1, <1>1
  <1>11. CASE CommitStale(w)
    <2>1. \E pc \in WorkerPc : Goto(w, pc)
      BY <1>11 DEF CommitStale, WorkerPc, Admitting, Holding, Settling
    <2> QED
      BY <2>1, <1>1
  <1>12. CASE RecordDone(w)
    <2>1. \E pc \in WorkerPc : Goto(w, pc)
      BY <1>12 DEF RecordDone, WorkerPc, Admitting, Holding, Settling
    <2> QED
      BY <2>1, <1>1
  <1>13. CASE AuthorizeRetry(w)
    <2>1. \E pc \in WorkerPc : Goto(w, pc)
      BY <1>13 DEF AuthorizeRetry, WorkerPc, Admitting, Holding, Settling
    <2> QED
      BY <2>1, <1>1
  <1>14. CASE GiveUp(w)
    <2>1. \E pc \in WorkerPc : Goto(w, pc)
      BY <1>14 DEF GiveUp, WorkerPc, Admitting, Holding, Settling
    <2> QED
      BY <2>1, <1>1
  <1>15. CASE MarkFailed(w)
    <2>1. \E pc \in WorkerPc : Goto(w, pc)
      BY <1>15 DEF MarkFailed, WorkerPc, Admitting, Holding, Settling
    <2> QED
      BY <2>1, <1>1
  <1>16. CASE Report(w)
    <2>1. \E pc \in WorkerPc : Goto(w, pc)
      BY <1>16 DEF Report, WorkerPc, Admitting, Holding, Settling
    <2> QED
      BY <2>1, <1>1
  <1>17. CASE Classify(w)
    <2>1. \E pc \in WorkerPc : Goto(w, pc)
      BY <1>17 DEF Classify, WorkerPc, Admitting, Holding, Settling
    <2> QED
      BY <2>1, <1>1
  <1>18. CASE ReadDocument(w)
    <2>1. \/ \E pc \in WorkerPc : Goto(w, pc)
          \/ \E category \in FailureCategory : Catch(w, category)
      BY <1>18 DEF ReadDocument, FailureCategory, WorkerPc, Admitting, Holding,
             Settling
    <2> QED
      BY <2>1, <1>1, <1>2
  <1>19. CASE CallProvider(w)
    <2>1. \/ \E pc \in WorkerPc : Goto(w, pc)
          \/ \E category \in FailureCategory : Catch(w, category)
      BY <1>19 DEF CallProvider, FailureCategory, WorkerPc, Admitting, Holding,
             Settling
    <2> QED
      BY <2>1, <1>1, <1>2
  <1>20. CASE ProviderRefused(w)
    <2>1. \/ \E pc \in WorkerPc : Goto(w, pc)
          \/ \E category \in FailureCategory : Catch(w, category)
      BY <1>20 DEF ProviderRefused, FailureCategory, WorkerPc, Admitting, Holding,
             Settling
    <2> QED
      BY <2>1, <1>1, <1>2
  <1>21. CASE Complete(w)
    <2>1. Release(w) \/ \E pc \in WorkerPc : Goto(w, pc)
      BY <1>21 DEF Complete, WorkerPc, Admitting, Holding, Settling
    <2> QED
      BY <2>1, <1>1, <1>3
  <1>22. CASE Retry(w)
    <2>1. Release(w) \/ \E pc \in WorkerPc : Goto(w, pc)
      BY <1>22 DEF Retry, WorkerPc, Admitting, Holding, Settling
    <2> QED
      BY <2>1, <1>1, <1>3
  <1>23. CASE Fail(w)
    <2>1. Release(w) \/ \E pc \in WorkerPc : Goto(w, pc)
      BY <1>23 DEF Fail, WorkerPc, Admitting, Holding, Settling
    <2> QED
      BY <2>1, <1>1, <1>3
  <1>24. CASE DeadLetter(w)
    <2>1. Release(w) \/ \E pc \in WorkerPc : Goto(w, pc)
      BY <1>24 DEF DeadLetter, WorkerPc, Admitting, Holding, Settling
    <2> QED
      BY <2>1, <1>1, <1>3
  <1>25. CASE EntitlementChanged(w)
    <2> DEFINE r == [worker[w] EXCEPT !.pc = "markFailed", !.category = "entitlement_changed"]
    <2>1. r \in WorkerState
      BY DEF WorkerState, FailureCategory, WorkerPc, Admitting, Holding, Settling
    <2>2. worker' = [worker EXCEPT ![w] = r]
      BY <1>25 DEF EntitlementChanged
    <2> QED
      BY <2>1, <2>2, PutTypes
  <1>26. CASE TakeClaim(w)
    <2> DEFINE n == worker[w].version + 1
               r == [worker[w] EXCEPT !.pc = "resolve", !.mode = "none",
                                      !.version = n]
    <2>1. r \in WorkerState
      <3>1. n \in Nat
        BY DEF WorkerState
      <3> HIDE DEF n
      <3> QED
        BY <3>1 DEF WorkerState, WorkerPc, Holding
    <2>2. worker' = [worker EXCEPT ![w] = r]
      BY <1>26 DEF TakeClaim
    <2> QED
      BY <2>1, <2>2, PutTypes
  <1>27. CASE ReadClaim(w)
    <2>1. PICK pc \in {"fail", "claim"}, mode \in {"none", "recovery", "retry"},
               version \in Nat :
            worker' = [worker EXCEPT ![w] =
              [worker[w] EXCEPT !.pc = pc, !.mode = mode, !.version = version]]
      <3> DEFINE row == IF claim[GenOf(w)].attempt = 0
                          THEN [NoClaim EXCEPT !.attempt = worker[w].attempt]
                          ELSE claim[GenOf(w)]
      <3>1. claim[GenOf(w)] \in Claim
        BY DEF RecordsTypeOK
      <3>2. row.version \in Nat
        BY <3>1 DEF Claim, NoClaim
      <3> QED
        BY <1>27, <3>2 DEF ReadClaim
    <2> DEFINE r ==
          [worker[w] EXCEPT !.pc = pc, !.mode = mode, !.version = version]
    <2>2. r \in WorkerState
      BY DEF WorkerState, WorkerPc, Admitting, Holding, Settling
    <2>3. worker' = [worker EXCEPT ![w] = r]
      BY <2>1
    <2> QED
      BY <2>2, <2>3, PutTypes
  <1> QED
    BY <1>1, <1>2, <1>3, <1>4, <1>5, <1>6, <1>7, <1>8, <1>9, <1>10, <1>11, <1>12,
       <1>13, <1>14, <1>15, <1>16, <1>17, <1>18, <1>19, <1>20, <1>21,
       <1>22, <1>23, <1>24, <1>25, <1>26, <1>27 DEF WorkerStep

\* Deliveries, the queue, the clock and the plan preserve types ...
LEMMA QueueTypes ==
  ASSUME TypeOK, NEW g \in Generations, UNCHANGED requeueVars,
         \/ Delivery(g) \/ QueueStep(g) \/ LeaseExpires(g) \/ LockLapses(g)
         \/ ChangeEntitlement /\ UNCHANGED worker
  PROVE  TypeOK'
  <1> USE ConstantsAssumption DEF TypeOK, RecordsTypeOK
  <1>0. RequeueTypeOK'
    BY DEF RequeueTypeOK, requeueVars
  <1>1. CASE Delivery(g)
    <2>1. PICK w \in Workers : Deliver(w, g) \/ FailStalled(w, g)
      BY <1>1 DEF Delivery
    <2> DEFINE n == job[g].attemptsMade + 1
    <2>2. n \in Nat
      BY DEF Job
    <2> HIDE DEF n
    <2>3. CASE Deliver(w, g)
      <3> DEFINE r == [Idle EXCEPT !.pc = "getResume", !.generation = g,
                                   !.attempt = n]
      <3>1. r \in WorkerState
        BY <2>2, IdleTypes DEF WorkerState, WorkerPc, Admitting
      <3>2. worker' = [worker EXCEPT ![w] = r]
        BY <2>3 DEF Deliver, n
      <3>3. WorkerTypeOK'
        BY <3>1, <3>2, PutTypes
      <3> QED
        BY <1>0, <2>3, <3>3 DEF Deliver, Job
    <2>4. CASE FailStalled(w, g)
      <3> DEFINE r == [Idle EXCEPT !.pc = "classify", !.generation = g]
                 q == [job[g] EXCEPT !.state = "failed", !.attemptsMade = n]
      <3>1. r \in WorkerState
        BY IdleTypes DEF WorkerState, WorkerPc, Settling
      <3>2. worker' = [worker EXCEPT ![w] = r]
        BY <2>4 DEF FailStalled
      <3>3. WorkerTypeOK'
        BY <3>1, <3>2, PutTypes
      <3>4. q \in Job
        BY <2>2 DEF Job
      <3>5. job' = [job EXCEPT ![g] = q]
        BY <2>4 DEF FailStalled, n
      <3> HIDE DEF q
      <3>6. job' \in [Generations -> Job]
        BY <3>4, <3>5
      <3> QED
        BY <1>0, <2>4, <3>3, <3>6 DEF FailStalled
    <2> QED
      BY <2>1, <2>3, <2>4
  <1>2. CASE QueueStep(g)
    <2>1. CASE PromoteDelayed(g)
      BY <1>0, <1>2, <2>1 DEF QueueStep, PromoteDelayed, Job, WorkerTypeOK
    <2>2. CASE Redeliver(g)
      <3> DEFINE n == job[g].stalls + 1
                 q == [job[g] EXCEPT !.state = "waiting", !.stalls = n]
      <3>1. n \in Nat
        BY DEF Job
      <3>2. job' = [job EXCEPT ![g] = q]
        BY <2>2 DEF Redeliver
      <3> HIDE DEF n
      <3>3. q \in Job
        BY <3>1 DEF Job
      <3> HIDE DEF q
      <3>4. job' \in [Generations -> Job]
        BY <3>2, <3>3
      <3> QED
        BY <1>0, <1>2, <2>2, <3>4 DEF QueueStep, Redeliver, WorkerTypeOK
    <2> QED
      BY <1>2, <2>1, <2>2 DEF QueueStep
  <1>3. CASE LeaseExpires(g)
    BY <1>0, <1>3 DEF LeaseExpires, SpendFault, Claim, Lease, WorkerTypeOK
  <1>4. CASE LockLapses(g)
    BY <1>0, <1>4 DEF LockLapses, SpendFault, Job, WorkerTypeOK
  <1>5. CASE ChangeEntitlement /\ UNCHANGED worker
    BY <1>0, <1>5 DEF ChangeEntitlement, WorkerTypeOK
  <1> QED
    BY <1>1, <1>2, <1>3, <1>4, <1>5

\* ... and so do faults.
LEMMA WorkerFaultTypes ==
  ASSUME TypeOK, NEW w \in Workers, WorkerFault(w), UNCHANGED requeueVars
  PROVE  TypeOK'
  <1> USE ConstantsAssumption DEF TypeOK, RecordsTypeOK
  <1>0. RequeueTypeOK'
    BY DEF RequeueTypeOK, requeueVars
  <1>1. CASE Crash(w)
    <2>1. \A g \in Generations : [job[g] EXCEPT !.lock = None] \in Job
      BY DEF Job
    <2>2. job' \in [Generations -> Job]
      BY <1>1, <2>1 DEF Crash
    <2>3. WorkerTypeOK'
      BY <1>1, IdleTypes, PutTypes DEF Crash, Release
    <2> QED
      BY <1>0, <1>1, <2>2, <2>3 DEF Crash, SpendFault
  <1>2. CASE ThrowRaw(w)
    <2>1. WorkerTypeOK'
      BY <1>2, GotoTypes DEF ThrowRaw, WorkerPc, Settling
    <2> QED
      BY <1>0, <1>2, <2>1 DEF ThrowRaw, SpendFault
  <1>3. CASE ThrowCaught(w)
    <2>1. WorkerTypeOK'
      BY <1>3, CatchTypes DEF ThrowCaught, FailureCategory
    <2> QED
      BY <1>0, <1>3, <2>1 DEF ThrowCaught, SpendFault
  <1>4. CASE ThrowHandler(w)
    <2>1. Goto(w, "deadLetter") \/ Release(w)
      BY <1>4 DEF ThrowHandler
    <2>2. WorkerTypeOK'
      BY <2>1, GotoTypes, IdleTypes, PutTypes DEF Release, WorkerPc, Settling
    <2> QED
      BY <1>0, <1>4, <2>2 DEF ThrowHandler, SpendFault
  <1> QED
    BY <1>1, <1>2, <1>3, <1>4 DEF WorkerFault

\* The requeue command, the dispatcher and their faults preserve types.
LEMMA RequeueTypes ==
  ASSUME TypeOK, RequeueNext
  PROVE  TypeOK'
  <1> USE ConstantsAssumption
  <1> USE DEF TypeOK, RecordsTypeOK, RequeueTypeOK, records, CallPc,
              DispatcherPc, DispatchRow, Lease
  <1>0. WorkerTypeOK'
    BY DEF RequeueNext, WorkerTypeOK
  <1>1. ASSUME NEW c \in Calls, CallStep(c) \/ RefuseWithoutConsent(c)
        PROVE  TypeOK'
    <2>1. CASE CheckRequeue(c)
      BY <1>0, <2>1 DEF CheckRequeue, CallTo
    <2>2. CASE CreateSuccessor(c)
      <3> DEFINE r == [NoExecution EXCEPT !.status = "requeue_requested"]
      <3>1. r \in Execution
        BY DEF NoExecution, Execution, ExecutionStatus, FailureCategory
      <3>2. UNCHANGED execution \/ execution' = [execution EXCEPT ![1] = r]
        BY <2>2 DEF CreateSuccessor
      <3> HIDE DEF r
      <3>3. execution' \in [Generations -> Execution]
        BY <3>1, <3>2
      <3>4. owner' \in Owners
        BY <2>2 DEF CreateSuccessor, Owners
      <3> QED
        BY <1>0, <2>2, <3>3, <3>4 DEF CreateSuccessor, CallTo
    <2>3. CASE ResolveReplay(c)
      BY <1>0, <2>3 DEF ResolveReplay, CallTo
    <2>4. CASE RefuseWithoutConsent(c)
      BY <1>0, <2>4 DEF RefuseWithoutConsent, CallTo
    <2> QED
      BY <1>1, <2>1, <2>2, <2>3, <2>4 DEF CallStep
  <1>2. ASSUME NEW d \in Dispatchers, DispatcherStep(d) \/ RequeueFault(d)
        PROVE  TypeOK'
    <2>1. CASE ClaimDispatch(d)
      BY <1>0, <2>1 DEF ClaimDispatch, DispatcherTo
    <2>2. CASE AddJob(d)
      BY <1>0, <2>2 DEF AddJob, QueueAdd, DispatcherTo, Job, Generations
    <2>3. CASE RecordDispatch(d)
      <3>1. execution' \in [Generations -> Execution]
        BY <2>3, StatusTypes DEF RecordDispatch, Generations, ExecutionStatus
      <3>2. resume' \in ResumeStatus
        BY <2>3 DEF RecordDispatch, ResumeStatus
      <3> QED
        BY <1>0, <2>3, <3>1, <3>2 DEF RecordDispatch, DispatcherTo
    <2>4. CASE BackOff(d)
      BY <1>0, <2>4 DEF BackOff, DispatcherTo
    <2>5. CASE DispatchThrows(d)
      BY <1>0, <2>5 DEF DispatchThrows, DispatcherTo, SpendFault
    <2>6. CASE DispatcherCrash(d)
      BY <1>0, <2>6 DEF DispatcherCrash, DispatcherTo, SpendFault
    <2> QED
      BY <1>2, <2>1, <2>2, <2>3, <2>4, <2>5, <2>6
         DEF DispatcherStep, RequeueFault
  <1>3. CASE DispatchLeaseExpires
    BY <1>0, <1>3 DEF DispatchLeaseExpires
  <1> QED
    BY <1>1, <1>2, <1>3 DEF RequeueNext

\* Every step preserves types.
LEMMA NextTypes == TypeOK /\ [Next]_vars => TypeOK'
  <1> SUFFICES ASSUME TypeOK, [Next]_vars PROVE TypeOK'
    OBVIOUS
  <1>1. CASE WorkerNext
    <2>1. ASSUME NEW w \in Workers, WorkerStep(w), UNCHANGED requeueVars
          PROVE  TypeOK'
      BY <2>1, WorkerStepRecords, WorkerStepWorker
         DEF TypeOK, RequeueTypeOK, requeueVars
    <2>2. 0 \in Generations
      BY DEF Generations
    <2> QED
      BY <1>1, <2>1, <2>2, QueueTypes, WorkerFaultTypes DEF WorkerNext
  <1>2. CASE RequeueNext
    BY <1>2, RequeueTypes
  <1>3. CASE UNCHANGED vars
    BY <1>3 DEF vars, records, requeueVars, TypeOK, RecordsTypeOK,
                WorkerTypeOK, RequeueTypeOK
  <1> QED
    BY <1>1, <1>2, <1>3 DEF Next

\* Rows, jobs and processes hold values of their types in every behaviour.
THEOREM TypeCorrect == Spec => []TypeOK
  BY InitTypes, NextTypes, PTL DEF Spec

-----------------------------------------------------------------------------
(* Safety.                                                                 *)

\* A requeue command that has passed its checks still finds its predecessor
\* as it read it: a terminal execution never changes.
CheckedPredecessor ==
  \A c \in Calls :
    call[c] = "create" => execution[0].status = "failed_requeueable"

\* The inductive invariant.  The mirror alone is not inductive: that a stale
\* delivery of generation 0 cannot write once there is a successor needs
\* SuccessorOfRequeueable, which needs CheckedPredecessor; that a fenced write
\* meets a processing execution needs HeldLeaseIsProcessing.
CoreInv ==
  /\ TypeOK
  /\ HeldLeaseIsProcessing
  /\ ResumeMirrorsExecution
  /\ SuccessorOfRequeueable
  /\ CheckedPredecessor

-----------------------------------------------------------------------------
(* The moves of an execution.                                              *)

\* Only the row of g and its claim may change.
OnlyMoves(g) ==
  /\ \A h \in Generations \ {g} :
       execution'[h] = execution[h] /\ claim'[h].lease = claim[h].lease
  /\ call' = call

Started(g) ==
  /\ OnlyMoves(g)
  /\ execution[g].status \in Claimable
  /\ execution'[g].status = "processing"
  /\ resume' = "processing"

Retried(g) ==
  /\ OnlyMoves(g)
  /\ execution[g].status = "processing"
  /\ execution'[g].status = "retrying"
  /\ claim'[g].lease = "none"
  /\ resume' = resume

Succeeded(g) ==
  /\ OnlyMoves(g)
  /\ execution[g].status = "processing"
  /\ execution'[g].status = "succeeded"
  /\ claim'[g].lease = "none"
  /\ resume' = "ready"

Failed(g) ==
  /\ OnlyMoves(g)
  /\ execution[g].status = "processing"
  /\ execution'[g].status \in {"failed_requeueable", "failed_permanent"}
  /\ claim'[g].lease = "none"
  /\ resume' = "failed"

Requested ==
  /\ \E c \in Calls : call[c] = "create"
  /\ \A c \in Calls : call'[c] = "create" => call[c] = "create"
  /\ execution[1].status = "absent"
  /\ execution'[1].status = "requeue_requested"
  /\ execution'[0] = execution[0]
  /\ UNCHANGED <<claim, resume>>

Enqueued ==
  /\ OnlyMoves(1)
  /\ execution[1].status = "requeue_requested"
  /\ execution'[1].status = "queued"
  /\ claim' = claim
  /\ resume' = IF resume = "failed" THEN "pending" ELSE resume

Quiet ==
  /\ UNCHANGED <<resume, execution>>
  /\ \A g \in Generations :
       claim'[g].lease # "none" => claim[g].lease # "none"
  /\ \A c \in Calls :
       call'[c] = "create" =>
         call[c] = "create" \/ execution[0].status = "failed_requeueable"

Move ==
  \/ Quiet
  \/ \E g \in Generations :
       Started(g) \/ Retried(g) \/ Succeeded(g) \/ Failed(g)
  \/ Requested
  \/ Enqueued

\* A step of a delivery is a move.
LEMMA WorkerMoves ==
  ASSUME TypeOK, HeldLeaseIsProcessing, NEW w \in Workers, WorkerStep(w),
         UNCHANGED requeueVars
  PROVE  Move
  <1> DEFINE g == GenOf(w)
  <1>0. /\ g \in Generations
        /\ execution \in [Generations -> Execution]
        /\ claim \in [Generations -> Claim]
        /\ call' = call
    BY WorkerFacts DEF TypeOK, RecordsTypeOK, requeueVars
  <1>1. CASE TakeClaim(w)
    <2>1. Started(g)
      BY <1>0, <1>1 DEF TakeClaim, Started, OnlyMoves, ExecutionAdmits
    <2> QED
      BY <1>0, <2>1 DEF Move
  <1>2. CASE ReadClaim(w)
    <2>1. UNCHANGED <<resume, execution>>
      BY <1>2 DEF ReadClaim
    <2>2. \A h \in Generations : claim'[h].lease # "none" => claim[h].lease # "none"
      BY <1>0, <1>2 DEF ReadClaim, NoClaim
    <2> QED
      BY <1>0, <2>1, <2>2 DEF Move, Quiet
  <1>3. CASE Commit(w)
    <2>1. Succeeded(g)
      BY <1>0, <1>3 DEF Commit, Succeeded, OnlyMoves, Execution, Claim
    <2> QED
      BY <1>0, <2>1 DEF Move
  <1>4. CASE AuthorizeRetry(w)
    <2>1. execution[g].status = "processing"
      BY <1>0, <1>4 DEF AuthorizeRetry, RetryGranted, Fenced, FenceHolds,
                        HeldLeaseIsProcessing
    <2>2. Retried(g)
      BY <1>0, <1>4, <2>1
         DEF AuthorizeRetry, SetStatus, Retried, OnlyMoves, Execution, Claim
    <2> QED
      BY <1>0, <2>2 DEF Move
  <1>5. CASE MarkFailed(w)
    <2>1. CASE Fenced(w)
      <3>1. execution[g].status = "processing"
        BY <1>0, <2>1 DEF Fenced, FenceHolds, HeldLeaseIsProcessing
      <3>2. Failed(g)
        BY <1>0, <1>5, <2>1, <3>1
           DEF MarkFailed, CloseClaim, SetFailed, Failed, OnlyMoves, Execution,
               Claim
      <3> QED
        BY <1>0, <3>2 DEF Move
    <2>2. CASE ~Fenced(w)
      BY <1>0, <1>5, <2>2 DEF MarkFailed, Move, Quiet
    <2> QED
      BY <2>1, <2>2
  <1>6. CASE Classify(w)
    <2>1. CASE CrashEvident(g)
      <3>1. execution[g].status = "processing"
        BY <1>0, <2>1 DEF CrashEvident, HeldLeaseIsProcessing
      <3>2. Failed(g)
        BY <1>0, <1>6, <2>1, <3>1
           DEF Classify, CloseClaim, SetFailed, Failed, OnlyMoves, Execution,
               Claim
      <3> QED
        BY <1>0, <3>2 DEF Move
    <2>2. CASE ~CrashEvident(g)
      BY <1>0, <1>6, <2>2 DEF Classify, Move, Quiet
    <2> QED
      BY <2>1, <2>2
  <1>7. CASE UNCHANGED <<resume, execution, claim>>
    BY <1>0, <1>7 DEF Move, Quiet
  <1> QED
    BY <1>1, <1>2, <1>3, <1>4, <1>5, <1>6, <1>7
       DEF WorkerStep, records, GetResume, Ensure, RefuseClaim, ResolveRoute,
           EntitlementChanged, RouteUnavailable, Announce, ReadDocument,
           CallProvider, ProviderRefused, CommitStale, RecordDone, GiveUp,
           Report, Complete, Retry, Fail, DeadLetter

\* Every step of the pipeline is a move.
LEMMA Moves ==
  ASSUME TypeOK, HeldLeaseIsProcessing, [Next]_vars
  PROVE  Move
  <1>0. /\ execution \in [Generations -> Execution]
        /\ claim \in [Generations -> Claim]
        /\ call \in [Calls -> CallPc]
    BY DEF TypeOK, RecordsTypeOK, RequeueTypeOK
  <1>1. CASE WorkerNext
    <2>1. ASSUME NEW g \in Generations, LeaseExpires(g), UNCHANGED requeueVars
          PROVE  Move
      BY <1>0, <2>1 DEF LeaseExpires, Claim, requeueVars, Move, Quiet
    <2>2. CASE UNCHANGED <<resume, execution, claim, call>>
      BY <2>2 DEF Move, Quiet
    <2> QED
      BY <1>1, <2>1, <2>2, WorkerMoves
         DEF WorkerNext, requeueVars, Delivery, Deliver, FailStalled, QueueStep,
             PromoteDelayed, Redeliver, LockLapses, ChangeEntitlement,
             WorkerFault, Crash, ThrowRaw, ThrowCaught, ThrowHandler
  <1>2. CASE RequeueNext
    <2>1. ASSUME NEW c \in Calls, CheckRequeue(c)
          PROVE  Move
      BY <1>0, <2>1
         DEF CheckRequeue, CallTo, EligibleForRequeue, records, Move, Quiet
    <2>2. ASSUME NEW c \in Calls, CreateSuccessor(c)
          PROVE  Move
      <3>1. CASE execution[1].status = "absent"
        <4>1. Requested
          BY <1>0, <2>2, <3>1
             DEF CreateSuccessor, CallTo, Requested, Generations, NoExecution
        <4> QED
          BY <4>1 DEF Move
      <3>2. CASE execution[1].status # "absent"
        BY <1>0, <2>2, <3>2 DEF CreateSuccessor, CallTo, Move, Quiet
      <3> QED
        BY <3>1, <3>2
    <2>3. ASSUME NEW c \in Calls, ResolveReplay(c) \/ RefuseWithoutConsent(c)
          PROVE  Move
      BY <1>0, <2>3
         DEF ResolveReplay, RefuseWithoutConsent, CallTo, records, Move, Quiet
    <2>4. ASSUME NEW d \in Dispatchers, RecordDispatch(d)
          PROVE  Move
      <3>1. CASE execution[1].status = "requeue_requested"
        <4>1. Enqueued
          BY <1>0, <2>4, <3>1
             DEF RecordDispatch, SetStatus, Enqueued, OnlyMoves, Generations,
                 Execution
        <4> QED
          BY <4>1 DEF Move
      <3>2. CASE execution[1].status # "requeue_requested"
        BY <2>4, <3>2 DEF RecordDispatch, Move, Quiet
      <3> QED
        BY <3>1, <3>2
    <2>5. CASE UNCHANGED <<resume, execution, claim, call>>
      BY <2>5 DEF Move, Quiet
    <2> QED
      BY <1>2, <2>1, <2>2, <2>3, <2>4, <2>5
         DEF RequeueNext, CallStep, DispatcherStep, RequeueFault, records,
             ClaimDispatch, AddJob, BackOff, DispatchThrows, DispatcherCrash,
             DispatchLeaseExpires
  <1>3. CASE UNCHANGED vars
    BY <1>3 DEF vars, records, requeueVars, Move, Quiet
  <1> QED
    BY <1>1, <1>2, <1>3 DEF Next

-----------------------------------------------------------------------------
(* The invariant.                                                          *)

LEMMA InitCore == Init => CoreInv
  <1> SUFFICES ASSUME Init PROVE CoreInv
    OBVIOUS
  <1>1. execution[0].status = "queued" /\ execution[1].status = "absent"
    BY DEF Init, RecordsInit, Generations, NoExecution
  <1>2. HeldLeaseIsProcessing
    BY DEF Init, RecordsInit, NoClaim, HeldLeaseIsProcessing
  <1>3. ResumeMirrorsExecution
    BY <1>1 DEF Init, RecordsInit, ResumeMirrorsExecution, LatestGeneration,
                ShownAs
  <1>4. SuccessorOfRequeueable /\ CheckedPredecessor
    BY <1>1 DEF Init, RequeueInit, SuccessorOfRequeueable, CheckedPredecessor
  <1> QED
    BY <1>2, <1>3, <1>4, InitTypes DEF CoreInv

\* Work is only ever done on the latest execution.
LEMMA ActiveIsLatest ==
  ASSUME SuccessorOfRequeueable, NEW g \in Generations,
         execution[g].status \in Claimable
  PROVE  /\ g = LatestGeneration
         /\ g = 0 => execution[1].status = "absent"
  BY DEF SuccessorOfRequeueable, Generations, Claimable, LatestGeneration

\* A move preserves the invariant.
LEMMA MoveCore ==
  ASSUME CoreInv, TypeOK', Move
  PROVE  CoreInv'
  <1> USE DEF CoreInv, Claimable
  <1>1. CASE Quiet
    <2>1. HeldLeaseIsProcessing'
      BY <1>1 DEF Quiet, HeldLeaseIsProcessing
    <2>2. ResumeMirrorsExecution' /\ SuccessorOfRequeueable'
      BY <1>1 DEF Quiet, ResumeMirrorsExecution, LatestGeneration, ShownAs,
                  SuccessorOfRequeueable
    <2>3. CheckedPredecessor'
      BY <1>1 DEF Quiet, CheckedPredecessor
    <2> QED
      BY <2>1, <2>2, <2>3
  <1>2. ASSUME NEW g \in Generations,
               Started(g) \/ Retried(g) \/ Succeeded(g) \/ Failed(g)
        PROVE  CoreInv'
    <2>0. /\ OnlyMoves(g)
          /\ execution[g].status \in Claimable
          /\ g = LatestGeneration
          /\ g = 0 => execution[1].status = "absent"
      BY <1>2, ActiveIsLatest DEF Started, Retried, Succeeded, Failed
    <2>1. HeldLeaseIsProcessing'
      BY <1>2, <2>0 DEF Started, Retried, Succeeded, Failed, OnlyMoves,
                        HeldLeaseIsProcessing
    <2>2. ResumeMirrorsExecution'
      <3>1. LatestGeneration' = g
        BY <1>2, <2>0 DEF LatestGeneration, OnlyMoves, Generations,
                          Started, Retried, Succeeded, Failed
      <3> QED
        BY <1>2, <2>0, <3>1 DEF Started, Retried, Succeeded, Failed,
                                ResumeMirrorsExecution, ShownAs
    <2>3. SuccessorOfRequeueable'
      BY <2>0 DEF OnlyMoves, Generations, SuccessorOfRequeueable
    <2>4. CheckedPredecessor'
      BY <2>0 DEF OnlyMoves, Generations, CheckedPredecessor
    <2> QED
      BY <2>1, <2>2, <2>3, <2>4
  <1>3. CASE Requested
    <2>1. execution[0].status = "failed_requeueable"
      BY <1>3 DEF Requested, CheckedPredecessor
    <2>2. HeldLeaseIsProcessing'
      BY <1>3 DEF Requested, HeldLeaseIsProcessing, Generations
    <2>3. ResumeMirrorsExecution'
      BY <1>3, <2>1
         DEF Requested, ResumeMirrorsExecution, LatestGeneration, ShownAs
    <2>4. SuccessorOfRequeueable' /\ CheckedPredecessor'
      BY <1>3, <2>1 DEF Requested, SuccessorOfRequeueable, CheckedPredecessor
    <2> QED
      BY <2>2, <2>3, <2>4
  <1>4. CASE Enqueued
    <2>1. HeldLeaseIsProcessing'
      BY <1>4 DEF Enqueued, OnlyMoves, HeldLeaseIsProcessing, Generations
    <2>2. ResumeMirrorsExecution'
      BY <1>4 DEF Enqueued, ResumeMirrorsExecution, LatestGeneration, ShownAs
    <2>3. SuccessorOfRequeueable' /\ CheckedPredecessor'
      BY <1>4 DEF Enqueued, OnlyMoves, Generations, SuccessorOfRequeueable,
                  CheckedPredecessor
    <2> QED
      BY <2>1, <2>2, <2>3
  <1> QED
    BY <1>1, <1>2, <1>3, <1>4 DEF Move

LEMMA NextCore == CoreInv /\ [Next]_vars => CoreInv'
  BY NextTypes, Moves, MoveCore DEF CoreInv

THEOREM CoreSafety == Spec => []CoreInv
  BY InitCore, NextCore, PTL DEF Spec

\* A lease that was not released guards an execution that is processing.
THEOREM HeldLease == Spec => []HeldLeaseIsProcessing
  BY CoreSafety, PTL DEF CoreInv

\* The status shown on the resume mirrors its latest execution, however many
\* workers, dispatchers and administrators interleave, crash and stall.
THEOREM Mirrors == Spec => []ResumeMirrorsExecution
  BY CoreSafety, PTL DEF CoreInv

\* Only a requeueable failure ever has a successor.
THEOREM Successor == Spec => []SuccessorOfRequeueable
  BY CoreSafety, PTL DEF CoreInv

\* No step reopens a terminal execution.
LEMMA MoveKeepsTerminal ==
  ASSUME CoreInv, [Next]_vars, NEW g \in Generations,
         execution[g].status \in Terminal
  PROVE  /\ execution'[g].status = execution[g].status
         /\ execution'[g].category = execution[g].category
  <1>1. Move
    BY Moves DEF CoreInv
  <1> QED
    BY <1>1 DEF Move, Quiet, OnlyMoves, Started, Retried, Succeeded, Failed,
                Requested, Enqueued, Terminal, Claimable, Generations

\* A terminal execution is never reopened, by any delivery, dispatcher or crash
\* classification.
THEOREM TerminalNeverReopened == Spec => TerminalIsFinal
  <1>1. CoreInv /\ [Next]_vars =>
          [\A g \in Generations : execution[g].status \in Terminal =>
             /\ execution'[g].status = execution[g].status
             /\ execution'[g].category = execution[g].category]_vars
    BY MoveKeepsTerminal
  <1> QED
    BY <1>1, CoreSafety, PTL DEF Spec, TerminalIsFinal

-----------------------------------------------------------------------------
(* Implementation: under the mapping of ResumePipeline!Lifecycle the       *)
(* initial states are initial, and every move is a step of the lifecycle    *)
(* or a stutter.                                                           *)

\* The refinement mapping.
Shown == [g \in Generations |-> execution[g].status]

LEMMA ShownFacts ==
  /\ \A g \in Generations : Shown[g] = execution[g].status
  /\ \A g \in Generations : Shown'[g] = execution'[g].status
  BY DEF Shown

LEMMA InitImplements == Init => Lifecycle!LifecycleInit
  BY DEF Init, RecordsInit, Lifecycle!LifecycleInit, Generations, NoExecution

\* A move of g changes the shown status of g alone.
LEMMA ShownMoves ==
  ASSUME NEW g \in Generations, NEW s, execution'[g].status = s,
         \A h \in Generations \ {g} : execution'[h] = execution[h]
  PROVE  Shown' = [Shown EXCEPT ![g] = s]
  BY DEF Shown

LEMMA MoveImplements ==
  ASSUME CoreInv, Move
  PROVE  [Lifecycle!LifecycleNext]_(Lifecycle!lifecycleVars)
  <1> USE DEF CoreInv
  <1>1. CASE Quiet
    BY <1>1 DEF Quiet, Lifecycle!lifecycleVars
  <1>2. ASSUME NEW g \in Generations,
               Started(g) \/ Retried(g) \/ Succeeded(g) \/ Failed(g)
        PROVE  Lifecycle!LifecycleNext
    <2>0. /\ execution[g].status \in Claimable
          /\ OnlyMoves(g)
          /\ g = LatestGeneration
      BY <1>2, ActiveIsLatest
         DEF Started, Retried, Succeeded, Failed, Claimable
    <2>1. Shown' = [Shown EXCEPT ![g] = execution'[g].status]
      BY <2>0, ShownMoves DEF OnlyMoves
    <2>2. Lifecycle!Current(g)
      BY <2>0 DEF Lifecycle!Current, LatestGeneration, Generations
    <2>3. CASE Started(g)
      <3>1. Lifecycle!StartAttempt(g)
        BY <2>1, <2>2, <2>3
           DEF Started, Claimable, Shown, Lifecycle!StartAttempt
      <3> QED
        BY <3>1 DEF Lifecycle!LifecycleNext, Generations
    <2>4. CASE Retried(g)
      <3>1. Lifecycle!AwaitRetry(g)
        BY <2>1, <2>2, <2>4 DEF Retried, Shown, Lifecycle!AwaitRetry
      <3> QED
        BY <3>1 DEF Lifecycle!LifecycleNext, Generations
    <2>5. CASE Succeeded(g)
      <3>1. Lifecycle!Succeed(g)
        BY <2>1, <2>2, <2>5 DEF Succeeded, Shown, Lifecycle!Succeed
      <3> QED
        BY <3>1 DEF Lifecycle!LifecycleNext, Generations
    <2>6. CASE Failed(g)
      <3>1. Lifecycle!FailFor(g)
        BY <2>1, <2>2, <2>6 DEF Failed, Shown, Lifecycle!FailFor
      <3> QED
        BY <3>1 DEF Lifecycle!LifecycleNext, Generations
    <2> QED
      BY <1>2, <2>3, <2>4, <2>5, <2>6
  <1>3. CASE Requested
    <2>1. execution[0].status = "failed_requeueable"
      BY <1>3 DEF Requested, CheckedPredecessor
    <2>2. resume = "failed"
      BY <1>3, <2>1
         DEF Requested, ResumeMirrorsExecution, LatestGeneration, ShownAs
    <2>3. Shown' = [Shown EXCEPT ![1] = "requeue_requested"]
      BY <1>3, ShownMoves DEF Requested, Generations
    <2>4. Lifecycle!RequestSuccessor
      BY <1>3, <2>1, <2>2, <2>3
         DEF Requested, Shown, Generations, Lifecycle!RequestSuccessor
    <2> QED
      BY <2>4 DEF Lifecycle!LifecycleNext
  <1>4. CASE Enqueued
    <2>1. resume = "failed"
      BY <1>4 DEF Enqueued, ResumeMirrorsExecution, LatestGeneration, ShownAs
    <2>2. Shown' = [Shown EXCEPT ![1] = "queued"]
      BY <1>4, ShownMoves DEF Enqueued, OnlyMoves, Generations
    <2>3. Lifecycle!Enqueue
      BY <1>4, <2>1, <2>2 DEF Enqueued, Shown, Generations, Lifecycle!Enqueue
    <2> QED
      BY <2>3 DEF Lifecycle!LifecycleNext
  <1> QED
    BY <1>1, <1>2, <1>3, <1>4 DEF Move

LEMMA NextImplements ==
  CoreInv /\ [Next]_vars => [Lifecycle!LifecycleNext]_(Lifecycle!lifecycleVars)
  BY Moves, MoveImplements DEF CoreInv

\* Every behaviour of the pipeline, faults included, is a life of the resume
\* and its executions as ParseLifecycle describes it.
THEOREM Implements == Spec => ImplementsLifecycle
  BY InitImplements, NextImplements, CoreSafety, PTL
     DEF Spec, ImplementsLifecycle, Lifecycle!LifecycleSpec

-----------------------------------------------------------------------------
(* Requeue requests.  The request stored on the successor is written once,  *)
(* with the successor, and every answer is compared with it.               *)

\* The successor and the request it stores are one insert.
OwnerOfSuccessor == owner = <<>> <=> execution[1].status = "absent"

RequestInv == TypeOK /\ OwnerOfSuccessor /\ OnlyOwnerAccepted

LEMMA RequestIsNotEmpty == \A c \in Calls : RequestOf(c) # <<>>
  BY DEF RequestOf

\* What a step does with the calls and the stored request.
LEMMA RequestMoves ==
  ASSUME [Next]_vars
  PROVE  \/ UNCHANGED <<call, owner>>
         \/ \E c \in Calls : CheckRequeue(c) \/ RefuseWithoutConsent(c)
                               \/ CreateSuccessor(c) \/ ResolveReplay(c)
  <1>1. CASE WorkerNext
    BY <1>1 DEF WorkerNext, requeueVars
  <1>2. CASE RequeueNext
    BY <1>2 DEF RequeueNext, CallStep, DispatcherStep, RequeueFault,
                ClaimDispatch, AddJob, RecordDispatch, BackOff, DispatchThrows,
                DispatcherCrash, DispatchLeaseExpires
  <1>3. CASE UNCHANGED vars
    BY <1>3 DEF vars, requeueVars
  <1> QED
    BY <1>1, <1>2, <1>3 DEF Next

\* Only CreateSuccessor makes a successor, and nothing removes it.
LEMMA SuccessorAppears ==
  ASSUME CoreInv, [Next]_vars
  PROVE  \/ execution'[1].status = "absent" <=> execution[1].status = "absent"
         \/ \E c \in Calls :
              CreateSuccessor(c) /\ execution[1].status = "absent"
  <1>1. Move
    BY Moves DEF CoreInv
  <1>2. CASE ~Requested
    BY <1>1, <1>2 DEF Move, Quiet, OnlyMoves, Started, Retried, Succeeded,
                      Failed, Enqueued, Claimable, Generations
  <1>3. CASE Requested
    <2>1. CASE \E c \in Calls : CreateSuccessor(c)
      BY <1>3, <2>1 DEF Requested
    <2>2. CASE \E c \in Calls : CheckRequeue(c) \/ RefuseWithoutConsent(c)
                                  \/ ResolveReplay(c)
      BY <2>2 DEF CheckRequeue, RefuseWithoutConsent, ResolveReplay, records
    <2>3. CASE UNCHANGED <<call, owner>>
      <3>1. execution[0].status = "failed_requeueable"
        BY <1>3 DEF Requested, CoreInv, CheckedPredecessor
      <3>2. CASE WorkerNext
        <4>1. ASSUME NEW w \in Workers, WorkerStep(w)
              PROVE  execution'[1].status # "requeue_requested"
                       \/ execution'[1] = execution[1]
          <5>1. execution \in [Generations -> Execution]
            BY DEF CoreInv, TypeOK, RecordsTypeOK
          <5>2. GenOf(w) \in Generations
            BY WorkerFacts DEF CoreInv, TypeOK
          <5>3. CASE TakeClaim(w)
            BY <5>1, <5>2, <5>3 DEF TakeClaim, Generations
          <5>4. CASE Commit(w)
            BY <5>1, <5>2, <5>4 DEF Commit, Generations, Execution
          <5>5. CASE AuthorizeRetry(w)
            BY <5>1, <5>2, <5>5
               DEF AuthorizeRetry, SetStatus, Generations, Execution
          <5>6. CASE MarkFailed(w)
            BY <5>1, <5>2, <5>6
               DEF MarkFailed, SetFailed, Generations, Execution
          <5>7. CASE Classify(w)
            BY <5>1, <5>2, <5>7
               DEF Classify, SetFailed, Generations, Execution
          <5>8. CASE UNCHANGED execution
            BY <5>8
          <5> QED
            BY <4>1, <5>3, <5>4, <5>5, <5>6, <5>7, <5>8
               DEF WorkerStep, records, GetResume, Ensure, ReadClaim,
                   RefuseClaim, ResolveRoute, EntitlementChanged,
                   RouteUnavailable, Announce, ReadDocument, CallProvider,
                   ProviderRefused, CommitStale, RecordDone, GiveUp, Report,
                   Complete, Retry, Fail, DeadLetter
        <4> QED
          BY <1>3, <3>2, <4>1
             DEF Requested, WorkerNext, Delivery, Deliver, FailStalled,
                 QueueStep, PromoteDelayed, Redeliver, LeaseExpires, LockLapses,
                 ChangeEntitlement, WorkerFault, Crash, ThrowRaw, ThrowCaught,
                 ThrowHandler
      <3>3. CASE RequeueNext
        <4>1. execution \in [Generations -> Execution]
          BY DEF CoreInv, TypeOK, RecordsTypeOK
        <4> QED
          BY <1>3, <2>3, <3>3, <4>1
             DEF Requested, RequeueNext, CallStep, CheckRequeue,
                 CreateSuccessor, ResolveReplay, RefuseWithoutConsent,
                 DispatcherStep, RequeueFault, ClaimDispatch, AddJob,
                 RecordDispatch, SetStatus, BackOff, DispatchThrows,
                 DispatcherCrash, DispatchLeaseExpires, records, Generations
      <3>4. CASE UNCHANGED vars
        BY <1>3, <3>4 DEF Requested, vars, records
      <3> QED
        BY <3>2, <3>3, <3>4 DEF Next
    <2> QED
      BY <2>1, <2>2, <2>3, RequestMoves
  <1> QED
    BY <1>2, <1>3

\* No step changes a stored request, and every accepted call is its owner.
LEMMA RequestStep ==
  ASSUME CoreInv, RequestInv, [Next]_vars
  PROVE  RequestInv'
  <1> USE DEF RequestInv
  <1>0. TypeOK' /\ call \in [Calls -> CallPc] /\ TypeOK
    BY NextTypes DEF CoreInv, TypeOK, RequeueTypeOK
  <1>1. CASE \E c \in Calls :
               CreateSuccessor(c) /\ execution[1].status = "absent"
    <2>1. PICK c \in Calls :
            CreateSuccessor(c) /\ execution[1].status = "absent"
      BY <1>1
    <2>2. /\ owner' = RequestOf(c)
          /\ call' = [call EXCEPT ![c] = "accepted"]
          /\ execution'[1].status = "requeue_requested"
          /\ owner = <<>>
      BY <2>1 DEF CreateSuccessor, CallTo, OwnerOfSuccessor, NoExecution,
                  Generations, CoreInv, TypeOK, RecordsTypeOK
    <2>3. \A b \in Calls : call[b] # "accepted"
      BY <2>2, RequestIsNotEmpty DEF OnlyOwnerAccepted
    <2>4. OwnerOfSuccessor'
      BY <2>2, RequestIsNotEmpty DEF OwnerOfSuccessor
    <2>5. OnlyOwnerAccepted'
      BY <1>0, <2>2, <2>3 DEF OnlyOwnerAccepted, RequestOf
    <2> QED
      BY <1>0, <2>4, <2>5
  <1>2. CASE ~\E c \in Calls :
               CreateSuccessor(c) /\ execution[1].status = "absent"
    <2>1. owner' = owner
      BY <1>2, RequestMoves DEF CheckRequeue, RefuseWithoutConsent,
                                CreateSuccessor, ResolveReplay
    <2>2. OwnerOfSuccessor'
      BY <1>2, <2>1, SuccessorAppears DEF OwnerOfSuccessor
    <2>3. OnlyOwnerAccepted'
      <3>1. \A c \in Calls : call'[c] = "accepted" =>
              call[c] = "accepted" \/ owner = RequestOf(c)
        BY <1>0, <1>2, RequestMoves
           DEF CheckRequeue, RefuseWithoutConsent, CreateSuccessor,
               ResolveReplay, CallTo
      <3> QED
        BY <2>1, <3>1 DEF OnlyOwnerAccepted, RequestOf
    <2> QED
      BY <1>0, <2>2, <2>3
  <1> QED
    BY <1>1, <1>2

LEMMA InitRequest == Init => RequestInv
  BY InitTypes DEF Init, RequeueInit, RecordsInit, RequestInv, Generations,
                   NoExecution, OwnerOfSuccessor, OnlyOwnerAccepted

\* Of administrators with different keys or reasons at most one succeeds: an
\* accepted call is the request the successor stores.
THEOREM OneRequestSucceeds == Spec => []OnlyOwnerAccepted
  BY InitRequest, RequestStep, CoreSafety, PTL DEF Spec, RequestInv

\* The duplicate of the stored request is resolved, never refused.
LEMMA DuplicateStep ==
  ASSUME TypeOK, [Next]_vars, NEW c \in Calls,
         owner = RequestOf(c), call[c] # "conflict"
  PROVE  call'[c] # "conflict"
  <1>0. call \in [Calls -> CallPc]
    BY DEF TypeOK, RequeueTypeOK
  <1>1. KeyUsed(c)
    BY RequestIsNotEmpty DEF KeyUsed, RequestOf
  <1> QED
    BY <1>0, <1>1, RequestMoves
       DEF CheckRequeue, RefuseWithoutConsent, CreateSuccessor, ResolveReplay,
           CallTo

\* Once a request owns the successor, an exact duplicate of it is never
\* answered with a conflict, however the calls interleave with the parse.
THEOREM DuplicatesResolve == Spec => DuplicateNeverRefused
  <1>1. TypeOK /\ [Next]_vars =>
          [\A c \in Calls :
             (owner = RequestOf(c) /\ call[c] # "conflict")
               => call'[c] # "conflict"]_vars
    BY DuplicateStep
  <1> QED
    BY <1>1, TypeCorrect, PTL DEF Spec, DuplicateNeverRefused

-----------------------------------------------------------------------------
(* Fences.  Every claim takes a lease version of its own, and a later       *)
(* attempt is claimed only with the authorization a failure left.          *)

\* A claim row that does not exist has no history ...
NoClaimYet ==
  \A g \in Generations : claim[g].attempt = 0 => claim[g].version = 0

\* ... a delivery that has not claimed yet knows its attempt ...
AttemptsAreNumbered ==
  \A w \in Workers : worker[w].pc \in Admitting => worker[w].attempt # 0

\* ... and a retry is authorized exactly while the execution waits for it.
AuthorizedIsRetrying ==
  \A g \in Generations :
    claim[g].retryAuthorized # 0 => execution[g].status = "retrying"

FenceInv ==
  /\ FencesAreDistinct
  /\ NoClaimYet
  /\ AttemptsAreNumbered
  /\ AuthorizedIsRetrying

\* No delivery gains a fence, and each keeps the one it holds.
FencesKept ==
  \A w \in Workers :
    /\ worker'[w].pc \in Holding =>
         /\ worker[w].pc \in Holding
         /\ worker'[w].generation = worker[w].generation
         /\ worker'[w].version = worker[w].version
    /\ worker'[w].pc \in Admitting => worker'[w].attempt # 0

\* No claim row changes its version or loses its attempt.
ClaimsKept ==
  \A g \in Generations :
    /\ claim'[g].version = claim[g].version
    /\ claim'[g].attempt = 0 => claim[g].attempt = 0

AuthorizedKept ==
  \A g \in Generations :
    claim'[g].retryAuthorized # 0 => execution'[g].status = "retrying"

LEMMA PcSets ==
  /\ Holding \cap Admitting = {}
  /\ Holding \cap Settling = {}
  /\ Admitting \cap Settling = {}
  /\ "idle" \notin Holding \cup Admitting
  BY DEF Holding, Admitting, Settling

\* An update of what one delivery knows that gives it no fence.
LEMMA PutKeeps ==
  ASSUME WorkerTypeOK, AttemptsAreNumbered, NEW w \in Workers, NEW r,
         worker' = [worker EXCEPT ![w] = r],
         r.pc \in Holding => /\ worker[w].pc \in Holding
                             /\ r.generation = worker[w].generation
                             /\ r.version = worker[w].version,
         r.pc \in Admitting => r.attempt # 0
  PROVE  FencesKept
  BY DEF WorkerTypeOK, FencesKept, AttemptsAreNumbered

\* Moving on within the awaits that hold a fence, or out of them.
LEMMA GotoKeeps ==
  ASSUME WorkerTypeOK, AttemptsAreNumbered, NEW w \in Workers, NEW pc,
         Goto(w, pc), pc \in Holding => worker[w].pc \in Holding,
         pc \in Admitting => worker[w].pc \in Admitting
  PROVE  FencesKept
  <1> DEFINE r == [worker[w] EXCEPT !.pc = pc]
  <1>1. worker' = [worker EXCEPT ![w] = r]
    BY DEF Goto
  <1>2. /\ r.pc = pc
        /\ r.generation = worker[w].generation
        /\ r.version = worker[w].version
        /\ r.attempt = worker[w].attempt
    BY DEF WorkerTypeOK, WorkerState
  <1> HIDE DEF r
  <1> QED
    BY <1>1, <1>2, PutKeeps DEF AttemptsAreNumbered

\* The catch block runs under the fence of the try block.
LEMMA CatchKeeps ==
  ASSUME WorkerTypeOK, AttemptsAreNumbered, NEW w \in Workers, NEW category,
         Catch(w, category), worker[w].pc \in Holding
  PROVE  FencesKept
  <1> DEFINE r == [worker[w] EXCEPT !.pc = "caught", !.category = category]
  <1>1. worker' = [worker EXCEPT ![w] = r]
    BY DEF Catch
  <1>2. /\ r.pc = "caught"
        /\ r.generation = worker[w].generation
        /\ r.version = worker[w].version
    BY DEF WorkerTypeOK, WorkerState
  <1> HIDE DEF r
  <1> QED
    BY <1>1, <1>2, PutKeeps, PcSets DEF Holding

LEMMA ReleaseKeeps ==
  ASSUME WorkerTypeOK, AttemptsAreNumbered, NEW w \in Workers, Release(w)
  PROVE  FencesKept
  BY PutKeeps, PcSets DEF Release, Idle

\* Every step of a delivery but the claim keeps the fences.
LEMMA StepKeepsFences ==
  ASSUME TypeOK, AttemptsAreNumbered, NEW w \in Workers,
         WorkerStep(w), ~TakeClaim(w)
  PROVE  FencesKept
  <1> USE DEF At, TypeOK
  <1>1. ASSUME NEW pc, Goto(w, pc), pc \in Settling
        PROVE  FencesKept
    BY <1>1, GotoKeeps, PcSets
  <1>2. ASSUME NEW pc, Goto(w, pc), worker[w].pc \in Holding, pc \in Holding
        PROVE  FencesKept
    BY <1>2, GotoKeeps, PcSets
  <1>3. ASSUME NEW pc, Goto(w, pc), worker[w].pc \in Admitting,
               pc \in Admitting
        PROVE  FencesKept
    BY <1>3, GotoKeeps, PcSets
  <1>4. CASE GetResume(w)
    BY <1>4, <1>1, <1>3 DEF GetResume, Admitting, Settling
  <1>5. CASE Ensure(w)
    BY <1>5, <1>1, <1>3 DEF Ensure, Admitting, Settling
  <1>6. CASE ReadClaim(w)
    <2>1. PICK pc \in {"fail", "claim"}, mode \in {"none", "recovery", "retry"},
               version \in Nat :
            worker' = [worker EXCEPT ![w] =
              [worker[w] EXCEPT !.pc = pc, !.mode = mode, !.version = version]]
      <3> DEFINE row == IF claim[GenOf(w)].attempt = 0
                          THEN [NoClaim EXCEPT !.attempt = worker[w].attempt]
                          ELSE claim[GenOf(w)]
      <3>1. claim[GenOf(w)] \in Claim
        BY WorkerFacts DEF TypeOK, RecordsTypeOK
      <3>2. row.version \in Nat
        BY <3>1 DEF Claim, NoClaim
      <3> QED
        BY <1>6, <3>2 DEF ReadClaim
    <2> DEFINE r ==
          [worker[w] EXCEPT !.pc = pc, !.mode = mode, !.version = version]
    <2>2. worker' = [worker EXCEPT ![w] = r]
      BY <2>1
    <2>3. r.pc = pc /\ r.attempt = worker[w].attempt
      BY DEF WorkerTypeOK, WorkerState
    <2>4. worker[w].attempt # 0
      BY <1>6 DEF ReadClaim, AttemptsAreNumbered, Admitting
    <2>5. r.pc \notin Holding
      BY <2>3 DEF Holding
    <2> HIDE DEF r
    <2> QED
      BY <2>2, <2>3, <2>4, <2>5, PutKeeps
  <1>7. CASE RefuseClaim(w)
    BY <1>7, <1>1 DEF RefuseClaim, Settling
  <1>8. CASE ResolveRoute(w)
    BY <1>8, <1>2 DEF ResolveRoute, Holding
  <1>9. CASE EntitlementChanged(w)
    <2> DEFINE r == [worker[w] EXCEPT !.pc = "markFailed",
                                      !.category = "entitlement_changed"]
    <2>1. worker' = [worker EXCEPT ![w] = r] /\ worker[w].pc \in Holding
      BY <1>9 DEF EntitlementChanged, Holding
    <2>2. /\ r.pc = "markFailed"
          /\ r.generation = worker[w].generation
          /\ r.version = worker[w].version
      BY DEF WorkerTypeOK, WorkerState
    <2> HIDE DEF r
    <2> QED
      BY <2>1, <2>2, PutKeeps DEF Admitting
  <1>10. CASE RouteUnavailable(w)
    BY <1>10, <1>1 DEF RouteUnavailable, Settling
  <1>11. CASE Announce(w)
    BY <1>11, <1>2 DEF Announce, Holding
  <1>12. CASE ReadDocument(w)
    BY <1>12, <1>2, CatchKeeps DEF ReadDocument, Holding
  <1>13. CASE CallProvider(w)
    BY <1>13, <1>2, CatchKeeps DEF CallProvider, Holding
  <1>14. CASE ProviderRefused(w)
    BY <1>14, CatchKeeps DEF ProviderRefused, Holding
  <1>15. CASE Commit(w)
    BY <1>15, <1>2 DEF Commit, Holding
  <1>16. CASE CommitStale(w)
    BY <1>16, <1>1 DEF CommitStale, Settling
  <1>17. CASE RecordDone(w)
    BY <1>17, <1>1 DEF RecordDone, Settling
  <1>18. CASE AuthorizeRetry(w)
    BY <1>18, <1>1, <1>2 DEF AuthorizeRetry, Holding, Settling
  <1>19. CASE GiveUp(w)
    BY <1>19, <1>2 DEF GiveUp, Holding
  <1>20. CASE MarkFailed(w)
    BY <1>20, <1>2 DEF MarkFailed, Holding
  <1>21. CASE Report(w)
    BY <1>21, <1>1 DEF Report, Settling
  <1>22. CASE Complete(w)
    BY <1>22, ReleaseKeeps DEF Complete
  <1>23. CASE Retry(w)
    BY <1>23, <1>1, ReleaseKeeps DEF Retry, Settling
  <1>24. CASE Fail(w)
    BY <1>24, <1>1, ReleaseKeeps DEF Fail, Settling
  <1>25. CASE Classify(w)
    BY <1>25, <1>1 DEF Classify, Settling
  <1>26. CASE DeadLetter(w)
    BY <1>26, ReleaseKeeps DEF DeadLetter
  <1> QED
    BY <1>4, <1>5, <1>6, <1>7, <1>8, <1>9, <1>10, <1>11, <1>12, <1>13, <1>14,
       <1>15, <1>16, <1>17, <1>18, <1>19, <1>20, <1>21, <1>22, <1>23, <1>24,
       <1>25, <1>26 DEF WorkerStep

\* Deliveries and faults keep the fences as well.
LEMMA OthersKeepFences ==
  ASSUME TypeOK, AttemptsAreNumbered, NEW w \in Workers, NEW g \in Generations,
         Deliver(w, g) \/ FailStalled(w, g) \/ WorkerFault(w)
  PROVE  FencesKept
  <1> USE DEF TypeOK, At
  <1>1. CASE Deliver(w, g)
    <2> DEFINE n == job[g].attemptsMade + 1
               r == [Idle EXCEPT !.pc = "getResume", !.generation = g,
                                 !.attempt = n]
    <2>1. n # 0
      BY DEF RecordsTypeOK, Job
    <2>2. worker' = [worker EXCEPT ![w] = r]
      BY <1>1 DEF Deliver
    <2> HIDE DEF n
    <2>3. r.pc = "getResume" /\ r.attempt # 0
      BY <2>1 DEF Idle
    <2> HIDE DEF r
    <2> QED
      BY <2>2, <2>3, PutKeeps DEF Holding
  <1>2. CASE FailStalled(w, g)
    BY <1>2, PutKeeps, PcSets DEF FailStalled, Idle, Settling
  <1>3. CASE Crash(w)
    BY <1>3, ReleaseKeeps DEF Crash
  <1>4. CASE ThrowRaw(w)
    BY <1>4, GotoKeeps, PcSets DEF ThrowRaw, Settling
  <1>5. CASE ThrowCaught(w)
    BY <1>5, CatchKeeps DEF ThrowCaught, Holding
  <1>6. CASE ThrowHandler(w)
    BY <1>6, GotoKeeps, ReleaseKeeps, PcSets DEF ThrowHandler, Settling
  <1> QED
    BY <1>1, <1>2, <1>3, <1>4, <1>5, <1>6 DEF WorkerFault

\* A step that keeps fences and claims keeps what is known of them.
LEMMA KeptFences ==
  ASSUME TypeOK, FenceInv, FencesKept, ClaimsKept, AuthorizedKept
  PROVE  FenceInv'
  <1> USE DEF FenceInv
  <1>0. \A v \in Workers : GenOf(v) \in Generations
    BY WorkerFacts DEF TypeOK
  <1>1. FencesAreDistinct'
    BY <1>0 DEF FencesAreDistinct, FencesKept, ClaimsKept, GenOf
  <1>2. NoClaimYet'
    BY DEF NoClaimYet, ClaimsKept
  <1>3. AttemptsAreNumbered'
    BY DEF FencesKept, AttemptsAreNumbered
  <1>4. AuthorizedIsRetrying'
    BY DEF AuthorizedIsRetrying, AuthorizedKept
  <1> QED
    BY <1>1, <1>2, <1>3, <1>4

\* The claim transaction: the new fence is above every other one.
LEMMA TakenFence ==
  ASSUME TypeOK, FenceInv, NEW w \in Workers, TakeClaim(w)
  PROVE  FenceInv'
  <1> USE DEF FenceInv
  <1> DEFINE g == GenOf(w)
             n == worker[w].version + 1
  <1>0. /\ g \in Generations
        /\ worker \in [Workers -> WorkerState]
        /\ claim \in [Generations -> Claim]
        /\ execution \in [Generations -> Execution]
        /\ worker[w].attempt # 0
        /\ claim[g].version = worker[w].version
        /\ \A v \in Workers : worker[v].version \in Nat /\ GenOf(v) \in Generations
        /\ \A h \in Generations : claim[h].version \in Nat
    BY WorkerFacts
       DEF TypeOK, RecordsTypeOK, WorkerTypeOK, Claim, TakeClaim, At,
           ClaimUnchanged, AttemptsAreNumbered, Admitting
  <1>1. /\ claim'[g].version = n
        /\ claim'[g].attempt = worker[w].attempt
        /\ claim'[g].retryAuthorized = 0
        /\ \A h \in Generations \ {g} : claim'[h] = claim[h]
        /\ \A h \in Generations \ {g} : execution'[h] = execution[h]
    BY <1>0 DEF TakeClaim
  <1>2. /\ worker'[w].pc = "resolve"
        /\ worker'[w].version = n
        /\ worker'[w].generation = g
        /\ \A v \in Workers \ {w} : worker'[v] = worker[v]
    BY <1>0 DEF TakeClaim, WorkerState, GenOf
  <1>3. FencesAreDistinct'
    <2>1. \A v \in Workers \ {w} :
            worker[v].pc \in Holding /\ GenOf(v) = g => worker[v].version < n
      BY <1>0 DEF FencesAreDistinct
    <2> HIDE DEF n
    <2>2. n \in Nat
      BY <1>0 DEF n
    <2>3. \A v \in Workers : worker'[v].pc \in Holding =>
            worker'[v].version <= claim'[GenOf(v)'].version
      BY <1>0, <1>1, <1>2, <2>1, <2>2 DEF FencesAreDistinct, GenOf
    <2>4. \A u, v \in Workers :
            (u # v /\ worker'[u].pc \in Holding /\ worker'[v].pc \in Holding
               /\ GenOf(u)' = GenOf(v)')
              => worker'[u].version # worker'[v].version
      BY <1>0, <1>2, <2>1, <2>2 DEF FencesAreDistinct, GenOf
    <2> QED
      BY <2>3, <2>4 DEF FencesAreDistinct
  <1>4. NoClaimYet'
    BY <1>0, <1>1 DEF NoClaimYet
  <1>5. AttemptsAreNumbered'
    BY <1>2, PcSets DEF AttemptsAreNumbered, Admitting
  <1>6. AuthorizedIsRetrying'
    BY <1>1 DEF AuthorizedIsRetrying
  <1> QED
    BY <1>3, <1>4, <1>5, <1>6

\* A closed claim keeps its attempt and its version.
LEMMA CloseFacts ==
  ASSUME claim \in [Generations -> Claim], NEW g \in Generations, CloseClaim(g)
  PROVE  /\ claim'[g].attempt = claim[g].attempt
         /\ claim'[g].version = claim[g].version
         /\ claim'[g].retryAuthorized = 0
         /\ \A h \in Generations \ {g} : claim'[h] = claim[h]
  BY DEF CloseClaim, Claim

\* Every other step of a delivery keeps claims and authorizations.
LEMMA StepKeepsClaims ==
  ASSUME CoreInv, FenceInv, NEW w \in Workers, WorkerStep(w), ~TakeClaim(w)
  PROVE  ClaimsKept /\ AuthorizedKept
  <1> DEFINE g == GenOf(w)
  <1> USE DEF CoreInv, FenceInv
  <1>0. /\ g \in Generations
        /\ claim \in [Generations -> Claim]
        /\ execution \in [Generations -> Execution]
        /\ \A h \in Generations :
             claim[h].retryAuthorized # 0 => execution[h].status = "retrying"
    BY WorkerFacts DEF TypeOK, RecordsTypeOK, AuthorizedIsRetrying
  <1>1. CASE ReadClaim(w)
    <2>1. worker[w].attempt # 0
      BY <1>1 DEF ReadClaim, At, AttemptsAreNumbered, Admitting
    <2> DEFINE row == IF claim[g].attempt = 0
                        THEN [NoClaim EXCEPT !.attempt = worker[w].attempt]
                        ELSE claim[g]
    <2>2. /\ row.version = claim[g].version
          /\ row.attempt # 0
          /\ row.retryAuthorized # 0 => execution[g].status = "retrying"
      BY <1>0, <2>1 DEF NoClaimYet, NoClaim
    <2>3. claim' = [claim EXCEPT ![g] = row] /\ execution' = execution
      BY <1>1 DEF ReadClaim
    <2> HIDE DEF row
    <2> QED
      BY <1>0, <2>2, <2>3 DEF ClaimsKept, AuthorizedKept
  <1>2. CASE Commit(w)
    <2>1. execution[g].status = "processing"
      BY <1>2 DEF Commit
    <2> QED
      BY <1>0, <1>2, <2>1 DEF Commit, Claim, Execution, ClaimsKept,
                              AuthorizedKept
  <1>3. CASE AuthorizeRetry(w)
    <2>1. execution[g].status = "processing"
      BY <1>0, <1>3 DEF AuthorizeRetry, RetryGranted, Fenced, FenceHolds,
                        HeldLeaseIsProcessing
    <2> QED
      BY <1>0, <1>3, <2>1 DEF AuthorizeRetry, SetStatus, Claim, Execution,
                              ClaimsKept, AuthorizedKept
  <1>4. CASE MarkFailed(w)
    <2>1. CASE Fenced(w)
      <3>1. /\ CloseClaim(g)
            /\ \A h \in Generations \ {g} : execution'[h] = execution[h]
        BY <1>0, <1>4, <2>1 DEF MarkFailed, SetFailed
      <3> QED
        BY <1>0, <3>1, CloseFacts DEF ClaimsKept, AuthorizedKept
    <2>2. CASE ~Fenced(w)
      BY <1>0, <1>4, <2>2 DEF MarkFailed, ClaimsKept, AuthorizedKept
    <2> QED
      BY <2>1, <2>2
  <1>5. CASE Classify(w)
    <2>1. CASE CrashEvident(g)
      <3>1. /\ CloseClaim(g)
            /\ \A h \in Generations \ {g} : execution'[h] = execution[h]
        BY <1>0, <1>5, <2>1 DEF Classify, SetFailed
      <3> QED
        BY <1>0, <3>1, CloseFacts DEF ClaimsKept, AuthorizedKept
    <2>2. CASE ~CrashEvident(g)
      BY <1>0, <1>5, <2>2 DEF Classify, ClaimsKept, AuthorizedKept
    <2> QED
      BY <2>1, <2>2
  <1>6. CASE UNCHANGED <<execution, claim>>
    BY <1>0, <1>6 DEF ClaimsKept, AuthorizedKept
  <1> QED
    BY <1>1, <1>2, <1>3, <1>4, <1>5, <1>6
       DEF WorkerStep, records, GetResume, Ensure, RefuseClaim, ResolveRoute,
           EntitlementChanged, RouteUnavailable, Announce, ReadDocument,
           CallProvider, ProviderRefused, CommitStale, RecordDone, GiveUp,
           Report, Complete, Retry, Fail, DeadLetter

\* The steps of the command and the dispatcher leave the claims alone, and
\* move an execution that has none authorized.
LEMMA RequeueKeepsClaims ==
  ASSUME CoreInv, FenceInv, RequeueNext
  PROVE  ClaimsKept /\ AuthorizedKept /\ FencesKept
  <1> USE DEF CoreInv, FenceInv
  <1>0. /\ execution \in [Generations -> Execution]
        /\ claim' = claim
        /\ worker' = worker
    BY DEF TypeOK, RecordsTypeOK, RequeueNext, CallStep, CheckRequeue,
           CreateSuccessor, ResolveReplay, RefuseWithoutConsent,
           DispatcherStep, RequeueFault, ClaimDispatch, AddJob, RecordDispatch,
           BackOff, DispatchThrows, DispatcherCrash, DispatchLeaseExpires,
           records
  <1>1. \A g \in Generations : execution[g].status = "retrying" =>
          execution'[g].status = "retrying"
    BY <1>0
       DEF RequeueNext, CallStep, CheckRequeue, CreateSuccessor, ResolveReplay,
           RefuseWithoutConsent, DispatcherStep, RequeueFault, ClaimDispatch,
           AddJob, RecordDispatch, SetStatus, BackOff, DispatchThrows,
           DispatcherCrash, DispatchLeaseExpires, records, Generations
  <1> QED
    BY <1>0, <1>1 DEF ClaimsKept, AuthorizedKept, AuthorizedIsRetrying,
                      FencesKept, AttemptsAreNumbered

\* Every step but a claim keeps fences, claims and authorizations.
LEMMA FenceStep ==
  ASSUME CoreInv, FenceInv, [Next]_vars
  PROVE  \/ \E w \in Workers : TakeClaim(w)
         \/ FencesKept /\ ClaimsKept /\ AuthorizedKept
  <1> USE DEF CoreInv, FenceInv
  <1>0. \/ \E w \in Workers : TakeClaim(w)
        \/ \E w \in Workers : WorkerStep(w) /\ ~TakeClaim(w)
        \/ /\ UNCHANGED <<execution, claim>>
           /\ \/ \E w \in Workers, g \in Generations :
                   Deliver(w, g) \/ FailStalled(w, g) \/ WorkerFault(w)
              \/ UNCHANGED worker
        \/ \E g \in Generations : LeaseExpires(g)
        \/ RequeueNext
    BY DEF Next, WorkerNext, Delivery, Deliver, FailStalled, QueueStep,
           PromoteDelayed, Redeliver, LockLapses, ChangeEntitlement,
           WorkerFault, Crash, ThrowRaw, ThrowCaught, ThrowHandler, vars,
           records, Generations
  <1>1. CASE \E w \in Workers : WorkerStep(w) /\ ~TakeClaim(w)
    BY <1>1, StepKeepsFences, StepKeepsClaims
  <1>2. CASE /\ UNCHANGED <<execution, claim>>
             /\ \/ \E w \in Workers, g \in Generations :
                     Deliver(w, g) \/ FailStalled(w, g) \/ WorkerFault(w)
                \/ UNCHANGED worker
    <2>1. ClaimsKept /\ AuthorizedKept
      BY <1>2 DEF ClaimsKept, AuthorizedKept, AuthorizedIsRetrying
    <2>2. CASE UNCHANGED worker
      BY <2>1, <2>2 DEF FencesKept, AttemptsAreNumbered
    <2> QED
      BY <1>2, <2>1, <2>2, OthersKeepFences
  <1>3. CASE \E g \in Generations : LeaseExpires(g)
    <2>1. PICK g \in Generations : LeaseExpires(g)
      BY <1>3
    <2>2. ClaimsKept /\ AuthorizedKept
      BY <2>1 DEF LeaseExpires, TypeOK, RecordsTypeOK, Claim, ClaimsKept,
                  AuthorizedKept, AuthorizedIsRetrying
    <2> QED
      BY <2>1, <2>2 DEF LeaseExpires, FencesKept, AttemptsAreNumbered
  <1>4. CASE RequeueNext
    BY <1>4, RequeueKeepsClaims
  <1> QED
    BY <1>0, <1>1, <1>2, <1>3, <1>4

LEMMA InitFence == Init => FenceInv
  BY PcSets DEF Init, RecordsInit, WorkerInit, NoClaim, NoExecution, Idle,
                FenceInv, FencesAreDistinct, NoClaimYet, AttemptsAreNumbered,
                AuthorizedIsRetrying

LEMMA NextFence == CoreInv /\ FenceInv /\ [Next]_vars => FenceInv'
  BY FenceStep, TakenFence, KeptFences DEF CoreInv

THEOREM FenceSafety == Spec => []FenceInv
  BY InitFence, NextFence, CoreSafety, PTL DEF Spec

\* Two deliveries that hold a fence of one execution never hold the same
\* lease version: at most one of them can still write.
THEOREM OneHolder == Spec => []FencesAreDistinct
  BY FenceSafety, PTL DEF FenceInv

\* A claim that exists changes its attempt only when it is taken for the next
\* one, which a failure has authorized.
LEMMA AttemptStep ==
  ASSUME CoreInv, FenceInv, [Next]_vars, NEW g \in Generations,
         claim[g].attempt # 0, claim'[g].attempt # claim[g].attempt
  PROVE  /\ claim'[g].attempt = claim[g].attempt + 1
         /\ execution[g].status = "retrying"
  <1> USE DEF CoreInv, FenceInv
  <1>0. claim \in [Generations -> Claim]
    BY DEF TypeOK, RecordsTypeOK
  <1>1. \E w \in Workers : TakeClaim(w) /\ GenOf(w) = g
    <2>1. CASE WorkerNext
      <3>1. ASSUME NEW w \in Workers, WorkerStep(w)
            PROVE  TakeClaim(w) /\ GenOf(w) = g
        <4>1. CASE TakeClaim(w)
          BY <1>0, <4>1 DEF TakeClaim
        <4>2. CASE ReadClaim(w)
          BY <1>0, <4>2 DEF ReadClaim
        <4>3. CASE Commit(w) \/ AuthorizeRetry(w)
          <5>1. GenOf(w) \in Generations
            BY WorkerFacts DEF TypeOK
          <5>2. CASE Commit(w)
            BY <1>0, <5>1, <5>2 DEF Commit, Claim
          <5>3. CASE AuthorizeRetry(w)
            BY <1>0, <5>1, <5>3 DEF AuthorizeRetry, Claim
          <5> QED
            BY <4>3, <5>2, <5>3
        <4>4. CASE MarkFailed(w) \/ Classify(w)
          <5>1. UNCHANGED claim \/ CloseClaim(GenOf(w))
            BY <4>4 DEF MarkFailed, Classify
          <5>2. GenOf(w) \in Generations
            BY WorkerFacts DEF TypeOK
          <5>3. claim'[g].attempt = claim[g].attempt
            BY <1>0, <5>1, <5>2, CloseFacts
          <5> QED
            BY <5>3
        <4>5. CASE UNCHANGED claim
          BY <4>5
        <4> QED
          BY <3>1, <4>1, <4>2, <4>3, <4>4, <4>5
             DEF WorkerStep, records, GetResume, Ensure, RefuseClaim,
                 ResolveRoute, EntitlementChanged, RouteUnavailable, Announce,
                 ReadDocument, CallProvider, ProviderRefused, CommitStale,
                 RecordDone, GiveUp, Report, Complete, Retry, Fail, DeadLetter
      <3>2. ASSUME NEW h \in Generations, LeaseExpires(h)
            PROVE  FALSE
        BY <1>0, <3>2 DEF LeaseExpires, Claim
      <3>3. CASE UNCHANGED claim
        BY <3>3
      <3> QED
        BY <2>1, <3>1, <3>2, <3>3
           DEF WorkerNext, Delivery, Deliver, FailStalled, QueueStep,
               PromoteDelayed, Redeliver, LockLapses, ChangeEntitlement,
               WorkerFault, Crash, ThrowRaw, ThrowCaught, ThrowHandler
    <2>2. CASE RequeueNext
      BY <2>2
         DEF RequeueNext, CallStep, CheckRequeue, CreateSuccessor,
             ResolveReplay, RefuseWithoutConsent, DispatcherStep, RequeueFault,
             ClaimDispatch, AddJob, RecordDispatch, BackOff, DispatchThrows,
             DispatcherCrash, DispatchLeaseExpires, records
    <2>3. CASE UNCHANGED vars
      BY <2>3 DEF vars, records
    <2> QED
      BY <2>1, <2>2, <2>3 DEF Next
  <1>2. PICK w \in Workers : TakeClaim(w) /\ GenOf(w) = g
    BY <1>1
  <1>3. /\ claim'[g].attempt = worker[w].attempt
        /\ worker[w].attempt # 0
        /\ worker[w].attempt \in Nat
        /\ claim[g].attempt \in Nat
        /\ ClaimUnchanged(w)
    BY <1>0, <1>2, WorkerFacts
       DEF TypeOK, TakeClaim, At, AttemptsAreNumbered, Admitting, Claim
  <1>4. /\ claim[g].attempt = worker[w].attempt - 1
        /\ claim[g].retryAuthorized = worker[w].attempt
    BY <1>2, <1>3 DEF ClaimUnchanged
  <1> QED
    BY <1>3, <1>4 DEF AuthorizedIsRetrying

\* The claim moves to a later attempt only by consuming the authorization a
\* real failure left for exactly that attempt.
THEOREM AttemptsAreAuthorized == Spec => AttemptNeedsAuthorization
  <1>1. CoreInv /\ FenceInv /\ [Next]_vars =>
          [\A g \in Generations :
             (claim[g].attempt # 0 /\ claim'[g].attempt # claim[g].attempt) =>
               /\ claim'[g].attempt = claim[g].attempt + 1
               /\ execution[g].status = "retrying"]_vars
    BY AttemptStep
  <1> QED
    BY <1>1, CoreSafety, FenceSafety, PTL DEF Spec, AttemptNeedsAuthorization

-----------------------------------------------------------------------------
(* Charges.  Each delivery calls the provider once at most, and for each    *)
(* attempt there is one delivery, and one more for each stall.             *)

Working == {"resolve", "announce", "document", "provider"}
Paying  == Admitting \cup Working

\* The deliveries of an attempt up to m that may still call the provider,
Charging(g, m) ==
  {w \in Workers : /\ worker[w].pc \in Paying /\ worker[w].generation = g
                   /\ worker[w].attempt <= m}

\* whether there is one to come without another failure or stall,
Pending(g, m) ==
  IF job[g].state \in {"none", "waiting", "delayed"} /\ job[g].attemptsMade < m
    THEN 1 ELSE 0

\* and the number of the attempts that the job has begun.
Begun(g, m) ==
  IF m <= job[g].attemptsMade THEN m ELSE job[g].attemptsMade + 1

ChargesFit(g, m) ==
  /\ IsFiniteSet(Charging(g, m))
  /\ charged[g] + Cardinality(Charging(g, m)) + Pending(g, m)
       <= job[g].stalls + Begun(g, m)

WorksOnClaimed ==
  \A w \in Workers : worker[w].pc \in Working =>
    worker[w].attempt <= claim[worker[w].generation].attempt

LockedIsActive ==
  \A g \in Generations : job[g].lock # None => job[g].state = "active"

ChargeInv ==
  /\ WorksOnClaimed
  /\ LockedIsActive
  /\ \A g \in Generations, m \in Nat :
       claim[g].attempt <= m => ChargesFit(g, m)

\* No delivery begins to work, or works on, but on the attempt it has claimed.
PaysKept ==
  \A w \in Workers : worker'[w].pc \in Paying =>
    /\ worker[w].pc \in Paying
    /\ worker'[w].generation = worker[w].generation
    /\ worker'[w].attempt = worker[w].attempt
    /\ worker'[w].pc \in Working =>
         \/ worker[w].pc \in Working
         \/ worker[w].attempt <= claim'[worker[w].generation].attempt

ClaimsGrow == \A g \in Generations : claim[g].attempt <= claim'[g].attempt

\* What becomes of a job beside its delivery.
JobMoves(g) ==
  /\ job'[g].lock # None => job'[g].state = "active"
  /\ \/ /\ job'[g].stalls = job[g].stalls
        /\ job'[g].attemptsMade = job[g].attemptsMade
        /\ \/ job'[g].state = job[g].state
           \/ job[g].state \in {"none", "delayed"} /\ job'[g].state = "waiting"
           \/ job'[g].state \in {"completed", "failed"}
     \/ /\ job'[g].stalls = job[g].stalls
        /\ job'[g].attemptsMade = job[g].attemptsMade + 1
        /\ job[g].state = "active" /\ job'[g].state \in {"delayed", "failed"}
     \/ /\ job'[g].stalls = job[g].stalls + 1
        /\ job'[g].attemptsMade = job[g].attemptsMade
        /\ job[g].state = "active" /\ job'[g].state = "waiting"

LEMMA CalmKeepsCharges ==
  ASSUME TypeOK, TypeOK', ChargeInv, PaysKept, ClaimsGrow, UNCHANGED charged,
         \A g \in Generations : JobMoves(g)
  PROVE  ChargeInv'
<1>0. /\ \A w \in Workers : worker[w].generation \in Generations
      /\ \A g \in Generations : /\ claim[g].attempt \in Nat
                                /\ claim'[g].attempt \in Nat
                                /\ job[g] \in Job /\ job'[g] \in Job
                                /\ charged[g] \in Nat
      /\ \A w \in Workers : worker[w].attempt \in Nat
  BY DEF TypeOK, RecordsTypeOK, WorkerTypeOK, WorkerState, Claim
<1>1. WorksOnClaimed'
  <2> SUFFICES ASSUME NEW w \in Workers, worker'[w].pc \in Working
               PROVE  worker'[w].attempt <= claim'[worker'[w].generation].attempt
    BY DEF WorksOnClaimed
  <2>1. /\ worker'[w].generation = worker[w].generation
        /\ worker'[w].attempt = worker[w].attempt
        /\ \/ worker[w].pc \in Working
           \/ worker[w].attempt <= claim'[worker[w].generation].attempt
    BY DEF PaysKept, Paying
  <2>2. CASE worker[w].pc \in Working
    <3>1. worker[w].attempt <= claim[worker[w].generation].attempt
      BY <2>2 DEF ChargeInv, WorksOnClaimed
    <3> QED BY <1>0, <2>1, <3>1 DEF ClaimsGrow
  <2> QED BY <2>1, <2>2
<1>2. LockedIsActive'
  BY DEF LockedIsActive, JobMoves
<1>3. ASSUME NEW g \in Generations, NEW m \in Nat, claim'[g].attempt <= m
      PROVE  ChargesFit(g, m)'
  <2>1. claim[g].attempt <= m
    BY <1>0, <1>3 DEF ClaimsGrow
  <2>2. ChargesFit(g, m)
    BY <2>1 DEF ChargeInv
  <2>3. Charging(g, m)' \subseteq Charging(g, m)
    BY DEF Charging, PaysKept
  <2>4. /\ IsFiniteSet(Charging(g, m)')
        /\ Cardinality(Charging(g, m)') <= Cardinality(Charging(g, m))
        /\ Cardinality(Charging(g, m)') \in Nat /\ Cardinality(Charging(g, m)) \in Nat
    BY <2>2, <2>3, FS_Subset, FS_CardinalityType DEF ChargesFit
  <2>5. /\ Pending(g, m)' \in Nat /\ Begun(g, m)' \in Nat /\ job'[g].stalls \in Nat
        /\ Pending(g, m) \in Nat /\ Begun(g, m) \in Nat /\ job[g].stalls \in Nat
        /\ Pending(g, m)' + job[g].stalls + Begun(g, m)
             <= Pending(g, m) + job'[g].stalls + Begun(g, m)'
    <3>1. PICK made \in Nat : made = job[g].attemptsMade
      BY <1>0 DEF Job
    <3>2. PICK more \in Nat : more = job'[g].attemptsMade
      BY <1>0 DEF Job
    <3>3. JobMoves(g)
      OBVIOUS
    <3>4. job[g].stalls \in Nat /\ job'[g].stalls \in Nat
      BY <1>0 DEF Job
    <3> QED BY <3>1, <3>2, <3>3, <3>4 DEF JobMoves, Pending, Begun
  <2> QED BY <1>0, <2>2, <2>4, <2>5 DEF ChargesFit
<1> QED BY <1>1, <1>2, <1>3 DEF ChargeInv

\* A delivery takes the place of the one to come.
LEMMA DeliveryKeepsCharges ==
  ASSUME TypeOK, TypeOK', ChargeInv, NEW w \in Workers, NEW d \in Generations,
         Deliver(w, d)
  PROVE  ChargeInv'
<1> DEFINE n == job[d].attemptsMade + 1
<1>0. /\ worker \in [Workers -> WorkerState] /\ job \in [Generations -> Job]
      /\ \A g \in Generations : job[g] \in Job /\ job'[g] \in Job /\ charged[g] \in Nat
      /\ \A v \in Workers : worker[v].attempt \in Nat
      /\ None # w /\ claim' = claim /\ charged' = charged
  BY ConstantsAssumption
  DEF TypeOK, RecordsTypeOK, WorkerTypeOK, WorkerState, Deliver
<1>1. /\ worker[w].pc = "idle"
      /\ worker'[w].pc = "getResume" /\ worker'[w].generation = d
      /\ worker'[w].attempt = n
      /\ \A v \in Workers \ {w} : worker'[v] = worker[v]
  BY <1>0 DEF Deliver, At, Idle
<1>2. /\ job[d].state = "waiting" /\ job'[d].state = "active"
      /\ job'[d].attemptsMade = job[d].attemptsMade
      /\ job'[d].stalls = job[d].stalls
      /\ \A g \in Generations \ {d} : job'[g] = job[g]
  BY <1>0 DEF Deliver, Job
<1>3. WorksOnClaimed'
  BY <1>0, <1>1 DEF ChargeInv, WorksOnClaimed, Working
<1>4. LockedIsActive'
  BY <1>2 DEF ChargeInv, LockedIsActive
<1>5. ASSUME NEW g \in Generations, NEW m \in Nat, claim'[g].attempt <= m
      PROVE  ChargesFit(g, m)'
  <2>1. ChargesFit(g, m)
    BY <1>0, <1>5 DEF ChargeInv
  <2>2. w \notin Charging(g, m)
    BY <1>1 DEF Charging, Paying, Admitting, Working
  <2>3. CASE g = d /\ n <= m
    <3>1. Charging(g, m)' = Charging(g, m) \cup {w}
      BY <1>1, <2>3 DEF Charging, Paying, Admitting
    <3>2. /\ IsFiniteSet(Charging(g, m)')
          /\ Cardinality(Charging(g, m)') = Cardinality(Charging(g, m)) + 1
          /\ Cardinality(Charging(g, m)) \in Nat
      BY <2>1, <2>2, <3>1, FS_AddElement, FS_CardinalityType DEF ChargesFit
    <3>3. /\ Pending(g, m) = 1 /\ Pending(g, m)' = 0
          /\ Begun(g, m)' = Begun(g, m) /\ Begun(g, m) \in Nat
          /\ job[g].stalls \in Nat
      BY <1>0, <1>2, <2>3 DEF Pending, Begun, Job
    <3> QED BY <1>0, <1>2, <2>1, <2>3, <3>2, <3>3 DEF ChargesFit
  <2>4. CASE ~(g = d /\ n <= m)
    <3>1. Charging(g, m)' = Charging(g, m)
      BY <1>1, <2>2, <2>4 DEF Charging
    <3>2. Pending(g, m)' = Pending(g, m) /\ Begun(g, m)' = Begun(g, m)
      BY <1>0, <1>2, <2>4 DEF Pending, Begun, Job
    <3> QED BY <1>0, <1>2, <2>1, <2>4, <3>1, <3>2 DEF ChargesFit
  <2> QED BY <2>3, <2>4
<1> QED BY <1>3, <1>4, <1>5 DEF ChargeInv

\* A call that was paid is not made again by this delivery.
LEMMA PaidKeepsCharges ==
  ASSUME TypeOK, TypeOK', ChargeInv, NEW w \in Workers,
         worker[w].pc = "provider", Goto(w, "commit"),
         charged' = [charged EXCEPT ![GenOf(w)] = @ + 1],
         UNCHANGED <<claim, job>>
  PROVE  ChargeInv'
<1> DEFINE d == worker[w].generation
<1>0. /\ worker \in [Workers -> WorkerState] /\ d \in Generations
      /\ \A g \in Generations : job[g] \in Job /\ charged[g] \in Nat
      /\ charged \in [Generations -> Nat]
      /\ \A g \in Generations : claim[g].attempt \in Nat
      /\ worker[w].attempt \in Nat
  BY DEF TypeOK, RecordsTypeOK, WorkerTypeOK, WorkerState, Claim
<1>1. /\ worker'[w].pc = "commit"
      /\ \A v \in Workers \ {w} : worker'[v] = worker[v]
  BY <1>0 DEF Goto, WorkerState
<1>2. /\ charged'[d] = charged[d] + 1
      /\ \A g \in Generations \ {d} : charged'[g] = charged[g]
  BY <1>0 DEF GenOf
<1>3. WorksOnClaimed' /\ LockedIsActive'
  BY <1>1 DEF ChargeInv, WorksOnClaimed, LockedIsActive, Working
<1>4. ASSUME NEW g \in Generations, NEW m \in Nat, claim'[g].attempt <= m
      PROVE  ChargesFit(g, m)'
  <2>1. ChargesFit(g, m) /\ claim[g].attempt <= m
    BY <1>4 DEF ChargeInv
  <2>2. Pending(g, m)' = Pending(g, m) /\ Begun(g, m)' = Begun(g, m)
    BY DEF Pending, Begun
  <2>3. Pending(g, m) \in Nat /\ Begun(g, m) \in Nat /\ job[g].stalls \in Nat
    BY <1>0 DEF Pending, Begun, Job
  <2>4. CASE g = d
    <3>1. worker[w].attempt <= claim[d].attempt
      BY DEF ChargeInv, WorksOnClaimed, Working
    <3>2. w \in Charging(g, m)
      BY <1>0, <2>1, <2>4, <3>1 DEF Charging, Paying, Working
    <3>3. Charging(g, m)' = Charging(g, m) \ {w}
      BY <1>1 DEF Charging, Paying, Admitting, Working
    <3>4. /\ IsFiniteSet(Charging(g, m)')
          /\ Cardinality(Charging(g, m)') = Cardinality(Charging(g, m)) - 1
          /\ Cardinality(Charging(g, m)) \in Nat
      BY <2>1, <3>2, <3>3, FS_RemoveElement, FS_CardinalityType DEF ChargesFit
    <3> QED BY <1>0, <1>2, <2>1, <2>2, <2>3, <2>4, <3>4 DEF ChargesFit
  <2>5. CASE g # d
    <3>1. Charging(g, m)' = Charging(g, m)
      BY <1>0, <1>1, <2>5 DEF Charging, Paying, Admitting, Working
    <3> QED BY <1>2, <2>1, <2>2, <2>5, <3>1 DEF ChargesFit
  <2> QED BY <2>4, <2>5
<1> QED BY <1>3, <1>4 DEF ChargeInv

LEMMA ClaimsGrowAlways ==
  ASSUME CoreInv, FenceInv, TypeOK', [Next]_vars
  PROVE  ClaimsGrow
<1> SUFFICES ASSUME NEW g \in Generations
             PROVE  claim[g].attempt <= claim'[g].attempt
  BY DEF ClaimsGrow
<1>1. claim[g].attempt \in Nat /\ claim'[g].attempt \in Nat
  BY DEF CoreInv, TypeOK, RecordsTypeOK, Claim
<1>2. CASE claim[g].attempt = 0
  BY <1>1, <1>2
<1>3. CASE claim[g].attempt # 0
  BY <1>1, <1>3, AttemptStep
<1> QED BY <1>2, <1>3

LEMMA PutPays ==
  ASSUME WorkerTypeOK, NEW w \in Workers, NEW r,
         worker' = [worker EXCEPT ![w] = r],
         r.pc \in Paying =>
           /\ worker[w].pc \in Paying
           /\ r.generation = worker[w].generation
           /\ r.attempt = worker[w].attempt
           /\ r.pc \in Working =>
                \/ worker[w].pc \in Working
                \/ worker[w].attempt <= claim'[worker[w].generation].attempt
  PROVE  PaysKept
BY DEF WorkerTypeOK, PaysKept

LEMMA GotoPays ==
  ASSUME WorkerTypeOK, NEW w \in Workers, NEW pc, Goto(w, pc),
         pc \in Paying => worker[w].pc \in Paying,
         pc \in Working => worker[w].pc \in Working
  PROVE  PaysKept
<1> DEFINE r == [worker[w] EXCEPT !.pc = pc]
<1>1. worker' = [worker EXCEPT ![w] = r]
  BY DEF Goto
<1>2. r.pc = pc /\ r.generation = worker[w].generation /\ r.attempt = worker[w].attempt
  BY DEF WorkerTypeOK, WorkerState
<1> HIDE DEF r
<1> QED BY <1>1, <1>2, PutPays

LEMMA EndPays ==
  ASSUME WorkerTypeOK, NEW w \in Workers,
         Release(w) \/ \E category : Catch(w, category)
  PROVE  PaysKept
<1>1. PICK r : worker' = [worker EXCEPT ![w] = r] /\ r.pc \in {"idle", "caught"}
  <2>1. Idle.pc = "idle"
    BY DEF Idle
  <2>2. ASSUME NEW category
        PROVE  [worker[w] EXCEPT !.pc = "caught", !.category = category].pc = "caught"
    BY DEF WorkerTypeOK, WorkerState
  <2> QED BY <2>1, <2>2 DEF Release, Catch
<1>2. r.pc \notin Paying
  BY <1>1 DEF Paying, Admitting, Working
<1> QED BY <1>1, <1>2, PutPays

\* Every step of a delivery, but a call that is paid, is calm.
LEMMA StepPays ==
  ASSUME TypeOK, NEW w \in Workers, WorkerStep(w)
  PROVE  \/ PaysKept /\ UNCHANGED charged
         \/ /\ worker[w].pc = "provider" /\ Goto(w, "commit")
            /\ charged' = [charged EXCEPT ![GenOf(w)] = @ + 1]
            /\ UNCHANGED <<claim, job>>
<1> USE DEF At, TypeOK, records
<1>1. ASSUME NEW pc, Goto(w, pc), pc \notin Paying
      PROVE  PaysKept
  BY <1>1, GotoPays DEF Paying
<1>2. ASSUME NEW pc, Goto(w, pc), worker[w].pc \in Paying, pc \notin Working
      PROVE  PaysKept
  BY <1>2, GotoPays
<1>3. ASSUME NEW pc, Goto(w, pc), worker[w].pc \in Working
      PROVE  PaysKept
  BY <1>3, GotoPays DEF Paying
<1>4. CASE GetResume(w) \/ Ensure(w) \/ RefuseClaim(w)
  BY <1>4, <1>2 DEF GetResume, Ensure, RefuseClaim, Paying, Admitting, Working
<1>5. CASE ReadClaim(w)
  <2>1. PICK pc \in {"fail", "claim"} : \E mode, version :
          worker' = [worker EXCEPT ![w] =
            [worker[w] EXCEPT !.pc = pc, !.mode = mode, !.version = version]]
    BY <1>5 DEF ReadClaim
  <2>5. PICK mode, version :
          worker' = [worker EXCEPT ![w] =
            [worker[w] EXCEPT !.pc = pc, !.mode = mode, !.version = version]]
    BY <2>1
  <2> DEFINE r == [worker[w] EXCEPT !.pc = pc, !.mode = mode, !.version = version]
  <2>2. worker' = [worker EXCEPT ![w] = r]
    BY <2>5
  <2>3. /\ r.pc = pc /\ r.generation = worker[w].generation
        /\ r.attempt = worker[w].attempt
    BY DEF WorkerTypeOK, WorkerState
  <2>4. worker[w].pc \in Paying /\ UNCHANGED charged /\ r.pc \notin Working
    BY <1>5, <2>3 DEF ReadClaim, Paying, Admitting, Working
  <2> HIDE DEF r
  <2> QED BY <2>2, <2>3, <2>4, PutPays
<1>6. CASE TakeClaim(w)
  <2> DEFINE r == [worker[w] EXCEPT !.pc = "resolve", !.mode = "none",
                                    !.version = worker[w].version + 1]
  <2>1. worker' = [worker EXCEPT ![w] = r] /\ UNCHANGED charged
    BY <1>6 DEF TakeClaim
  <2>2. r.generation = worker[w].generation /\ r.attempt = worker[w].attempt
    BY DEF WorkerTypeOK, WorkerState
  <2>3. claim'[worker[w].generation].attempt = worker[w].attempt
    BY <1>6, WorkerFacts DEF TakeClaim, GenOf, RecordsTypeOK
  <2>4. /\ worker[w].pc \in Paying
        /\ worker[w].attempt <= claim'[worker[w].generation].attempt
    <3>1. worker[w].attempt \in Nat
      BY WorkerFacts
    <3>2. worker[w].pc \in Paying
      BY <1>6 DEF TakeClaim, Paying, Admitting
    <3> QED BY <2>3, <3>1, <3>2
  <2> HIDE DEF r
  <2> QED BY <2>1, <2>2, <2>3, <2>4, PutPays
<1>7. CASE EntitlementChanged(w)
  <2> DEFINE r == [worker[w] EXCEPT !.pc = "markFailed",
                                    !.category = "entitlement_changed"]
  <2>1. worker' = [worker EXCEPT ![w] = r] /\ UNCHANGED charged
    BY <1>7 DEF EntitlementChanged
  <2>2. r.pc \notin Paying
    BY DEF WorkerTypeOK, WorkerState, Paying, Admitting, Working
  <2> HIDE DEF r
  <2> QED BY <2>1, <2>2, PutPays
<1>8. CASE ResolveRoute(w) \/ RouteUnavailable(w) \/ Announce(w)
  BY <1>8, <1>3 DEF ResolveRoute, RouteUnavailable, Announce, Working
<1>9. CASE ReadDocument(w)
  BY <1>9, <1>3, EndPays DEF ReadDocument, Working
<1>10. CASE CallProvider(w)
  BY <1>10, EndPays DEF CallProvider
<1>11. CASE ProviderRefused(w)
  BY <1>11, EndPays DEF ProviderRefused
<1>12. CASE Commit(w) \/ CommitStale(w) \/ RecordDone(w) \/ AuthorizeRetry(w)
              \/ GiveUp(w) \/ MarkFailed(w) \/ Report(w) \/ Classify(w)
  BY <1>12, <1>1 DEF Commit, CommitStale, RecordDone, AuthorizeRetry, GiveUp,
                    MarkFailed, Report, Classify, Paying, Admitting, Working
<1>13. CASE Complete(w) \/ Retry(w) \/ Fail(w) \/ DeadLetter(w)
  BY <1>13, <1>1, EndPays DEF Complete, Retry, Fail, DeadLetter, Paying,
                             Admitting, Working
<1> QED
  BY <1>4, <1>5, <1>6, <1>7, <1>8, <1>9, <1>10, <1>11, <1>12, <1>13 DEF WorkerStep

\* What a step of a delivery does to the jobs.
LEMMA StepMovesJobs ==
  ASSUME TypeOK, LockedIsActive, NEW w \in Workers, WorkerStep(w)
  PROVE  \A g \in Generations : JobMoves(g)
<1>0. /\ job \in [Generations -> Job] /\ GenOf(w) \in Generations /\ w # None
      /\ \A g \in Generations : job[g].lock # None => job[g].state = "active"
  BY WorkerFacts, ConstantsAssumption DEF TypeOK, RecordsTypeOK, LockedIsActive
<1>1. CASE UNCHANGED job
  BY <1>0, <1>1 DEF JobMoves
<1>2. ASSUME NEW r, OwnsJob(w), job' = [job EXCEPT ![GenOf(w)] = r],
             r.lock = None, r.stalls = job[GenOf(w)].stalls,
             \/ /\ r.state \in {"completed", "failed"}
                /\ r.attemptsMade = job[GenOf(w)].attemptsMade
             \/ /\ r.state \in {"delayed", "failed"}
                /\ r.attemptsMade = job[GenOf(w)].attemptsMade + 1
      PROVE  \A g \in Generations : JobMoves(g)
  <2>1. job[GenOf(w)].state = "active"
    BY <1>0, <1>2 DEF OwnsJob
  <2>2. /\ job'[GenOf(w)] = r
        /\ \A g \in Generations : g # GenOf(w) => job'[g] = job[g]
    BY <1>0, <1>2
  <2> QED BY <1>0, <1>2, <2>1, <2>2 DEF JobMoves
<1>3. job[GenOf(w)] \in Job
  BY <1>0
<1>4. CASE Complete(w)
  <2> DEFINE r == [job[GenOf(w)] EXCEPT !.state = "completed", !.lock = None]
  <2>1. /\ r.lock = None /\ r.stalls = job[GenOf(w)].stalls
        /\ r.state = "completed" /\ r.attemptsMade = job[GenOf(w)].attemptsMade
    BY <1>3 DEF Job
  <2>2. ~OwnsJob(w) => UNCHANGED job
    BY <1>4 DEF Complete
  <2>3. OwnsJob(w) => job' = [job EXCEPT ![GenOf(w)] = r]
    BY <1>4 DEF Complete
  <2> HIDE DEF r
  <2> QED BY <1>1, <1>2, <2>1, <2>2, <2>3
<1>5. CASE Retry(w)
  <2> DEFINE made == job[GenOf(w)].attemptsMade + 1
             r == [state |-> IF made < JobAttempts THEN "delayed" ELSE "failed",
                   attemptsMade |-> made, stalls |-> job[GenOf(w)].stalls,
                   lock |-> None]
  <2>1. /\ r.lock = None /\ r.stalls = job[GenOf(w)].stalls
        /\ r.state \in {"delayed", "failed"} /\ r.attemptsMade = made
    OBVIOUS
  <2>2. ~OwnsJob(w) => UNCHANGED job
    BY <1>5 DEF Retry
  <2>3. OwnsJob(w) => job' = [job EXCEPT ![GenOf(w)] = r]
    BY <1>5 DEF Retry
  <2> HIDE DEF r
  <2> QED BY <1>1, <1>2, <2>1, <2>2, <2>3
<1>6. CASE Fail(w)
  <2> DEFINE made == job[GenOf(w)].attemptsMade + 1
             r == [job[GenOf(w)] EXCEPT !.state = "failed", !.attemptsMade = made,
                                        !.lock = None]
  <2>2. ~OwnsJob(w) => UNCHANGED job
    BY <1>6 DEF Fail
  <2>3. OwnsJob(w) => job' = [job EXCEPT ![GenOf(w)] = r]
    BY <1>6 DEF Fail
  <2>1. /\ r.lock = None /\ r.stalls = job[GenOf(w)].stalls
        /\ r.state = "failed" /\ r.attemptsMade = made
    <3> HIDE DEF made
    <3> QED BY <1>3 DEF Job
  <2> HIDE DEF r
  <2> QED BY <1>1, <1>2, <2>1, <2>2, <2>3
<1>9. Complete(w) \/ Retry(w) \/ Fail(w) \/ UNCHANGED job
  BY DEF WorkerStep, records, GetResume, Ensure, ReadClaim, TakeClaim, RefuseClaim,
         ResolveRoute, EntitlementChanged, RouteUnavailable, Announce, ReadDocument,
         CallProvider, ProviderRefused, Commit, CommitStale, RecordDone,
         AuthorizeRetry, GiveUp, MarkFailed, Report, Classify, DeadLetter
<1> QED BY <1>1, <1>4, <1>5, <1>6, <1>9

\* ... what the queue, the clock and the faults do to the jobs and deliveries ...
LEMMA OtherIsCalm ==
  ASSUME TypeOK, LockedIsActive,
         \/ \E w \in Workers : WorkerFault(w)
         \/ \E g \in Generations : \/ QueueStep(g) \/ LeaseExpires(g) \/ LockLapses(g)
                                  \/ \E w \in Workers : FailStalled(w, g)
         \/ ChangeEntitlement /\ UNCHANGED worker
         \/ RequeueNext
         \/ UNCHANGED vars
  PROVE  PaysKept /\ UNCHANGED charged /\ \A g \in Generations : JobMoves(g)
<1>0. /\ WorkerTypeOK /\ job \in [Generations -> Job]
      /\ \A g \in Generations :
           /\ job[g] \in Job
           /\ job[g].lock # None => job[g].state = "active"
  BY DEF TypeOK, RecordsTypeOK, LockedIsActive
<1>1. UNCHANGED job => \A g \in Generations : JobMoves(g)
  BY <1>0 DEF JobMoves
<1>2. UNCHANGED worker => PaysKept
  BY DEF PaysKept
<1>3. ASSUME NEW w \in Workers, WorkerFault(w)
      PROVE  PaysKept /\ UNCHANGED charged /\ \A g \in Generations : JobMoves(g)
  <2>1. CASE Crash(w)
    <3>1. PaysKept /\ UNCHANGED charged
      BY <1>0, <2>1, EndPays DEF Crash
    <3>2. \A g \in Generations :
            \/ job'[g] = job[g]
            \/ job[g].lock = w /\ job'[g] = [job[g] EXCEPT !.lock = None]
      BY <2>1 DEF Crash
    <3> QED BY <1>0, <3>1, <3>2 DEF JobMoves, Job
  <2>2. CASE ThrowRaw(w)
    <3>1. PaysKept
      BY <1>0, <2>2, GotoPays DEF ThrowRaw, Paying, Admitting, Working
    <3> QED BY <1>1, <2>2, <3>1 DEF ThrowRaw
  <2>3. CASE ThrowCaught(w)
    BY <1>0, <1>1, <2>3, EndPays DEF ThrowCaught
  <2>4. CASE ThrowHandler(w)
    <3>1. PaysKept
      BY <1>0, <2>4, GotoPays, EndPays DEF ThrowHandler, Paying, Admitting, Working
    <3> QED BY <1>1, <2>4, <3>1 DEF ThrowHandler
  <2> QED BY <1>3, <2>1, <2>2, <2>3, <2>4 DEF WorkerFault
<1>4. ASSUME NEW g \in Generations, QueueStep(g)
      PROVE  PaysKept /\ UNCHANGED charged /\ \A h \in Generations : JobMoves(h)
  <2>1. UNCHANGED worker /\ UNCHANGED charged
    BY <1>4 DEF QueueStep, PromoteDelayed, Redeliver
  <2>2. CASE PromoteDelayed(g)
    <3>1. /\ job'[g].state = "waiting" /\ job'[g].stalls = job[g].stalls
          /\ job'[g].attemptsMade = job[g].attemptsMade /\ job'[g].lock = job[g].lock
          /\ job[g].state = "delayed"
          /\ \A h \in Generations : h # g => job'[h] = job[h]
      BY <1>0, <2>2 DEF PromoteDelayed, Job
    <3> QED BY <1>0, <1>2, <2>1, <3>1 DEF JobMoves
  <2>3. CASE Redeliver(g)
    <3> DEFINE n == job[g].stalls + 1
               r == [job[g] EXCEPT !.state = "waiting", !.stalls = n]
    <3>1. job' = [job EXCEPT ![g] = r] /\ job[g].state = "active" /\ job[g].lock = None
      BY <2>3 DEF Redeliver
    <3>2. /\ r.state = "waiting" /\ r.stalls = n
          /\ r.attemptsMade = job[g].attemptsMade /\ r.lock = job[g].lock
      <4> HIDE DEF n
      <4> QED BY <1>0 DEF Job
    <3> HIDE DEF r
    <3>3. job'[g] = r /\ \A h \in Generations : h # g => job'[h] = job[h]
      BY <1>0, <3>1
    <3> QED BY <1>0, <1>2, <2>1, <3>1, <3>2, <3>3 DEF JobMoves
  <2> QED BY <1>4, <2>2, <2>3 DEF QueueStep
<1>5. ASSUME NEW g \in Generations, LeaseExpires(g) \/ LockLapses(g)
      PROVE  PaysKept /\ UNCHANGED charged /\ \A h \in Generations : JobMoves(h)
  BY <1>0, <1>1, <1>2, <1>5 DEF LeaseExpires, LockLapses, JobMoves, Job
<1>6. ASSUME NEW w \in Workers, NEW g \in Generations, FailStalled(w, g)
      PROVE  PaysKept /\ UNCHANGED charged /\ \A h \in Generations : JobMoves(h)
  <2>1. PaysKept /\ UNCHANGED charged
    <3> DEFINE r == [Idle EXCEPT !.pc = "classify", !.generation = g]
    <3>1. worker' = [worker EXCEPT ![w] = r] /\ UNCHANGED charged
      BY <1>6 DEF FailStalled
    <3>2. r.pc \notin Paying
      BY DEF Idle, Paying, Admitting, Working
    <3> HIDE DEF r
    <3> QED BY <1>0, <3>1, <3>2, PutPays
  <2> DEFINE n == job[g].attemptsMade + 1
             q == [job[g] EXCEPT !.state = "failed", !.attemptsMade = n]
  <2>2. job' = [job EXCEPT ![g] = q] /\ job[g].state = "active" /\ job[g].lock = None
    BY <1>6 DEF FailStalled
  <2>3. /\ q.state = "failed" /\ q.stalls = job[g].stalls
        /\ q.attemptsMade = n /\ q.lock = job[g].lock
    <3> HIDE DEF n
    <3> QED BY <1>0 DEF Job
  <2> HIDE DEF q
  <2>4. job'[g] = q /\ \A h \in Generations : h # g => job'[h] = job[h]
    BY <1>0, <2>2
  <2> QED BY <1>0, <2>1, <2>2, <2>3, <2>4 DEF JobMoves
<1>7. CASE ChangeEntitlement /\ UNCHANGED worker
  BY <1>1, <1>2, <1>7 DEF ChangeEntitlement
<1>8. CASE RequeueNext
  <2>1. UNCHANGED <<worker, charged>> /\ (UNCHANGED job \/ QueueAdd(1))
    BY <1>8 DEF RequeueNext, CallStep, CheckRequeue, CreateSuccessor, ResolveReplay,
                RefuseWithoutConsent, DispatcherStep, RequeueFault, ClaimDispatch,
                AddJob, RecordDispatch, BackOff, DispatchThrows, DispatcherCrash,
                DispatchLeaseExpires, records
  <2>2. CASE QueueAdd(1)
    <3>1. \A g \in Generations :
            \/ job'[g] = job[g]
            \/ /\ job[g].state = "none" /\ job'[g].state = "waiting"
               /\ job'[g].lock = job[g].lock /\ job'[g].stalls = job[g].stalls
               /\ job'[g].attemptsMade = job[g].attemptsMade
      BY <1>0, <2>2 DEF QueueAdd, Job, Generations
    <3> QED BY <1>0, <1>2, <2>1, <3>1 DEF JobMoves
  <2> QED BY <1>1, <1>2, <2>1, <2>2
<1>9. CASE UNCHANGED vars
  BY <1>1, <1>2, <1>9 DEF vars, records
<1> QED BY <1>3, <1>4, <1>5, <1>6, <1>7, <1>8, <1>9

LEMMA InitCharge == Init => ChargeInv
<1> SUFFICES ASSUME Init
             PROVE  ChargeInv
  OBVIOUS
<1>1. /\ \A w \in Workers : worker[w].pc = "idle"
      /\ \A g \in Generations : /\ charged[g] = 0 /\ job[g].attemptsMade = 0
                                /\ job[g].stalls = 0 /\ job[g].lock = None
  BY DEF Init, WorkerInit, RecordsInit, Idle, NoJob
<1>2. WorksOnClaimed /\ LockedIsActive
  BY <1>1 DEF WorksOnClaimed, LockedIsActive, Working
<1>3. ASSUME NEW g \in Generations, NEW m \in Nat
      PROVE  ChargesFit(g, m)
  <2>1. Charging(g, m) = {}
    BY <1>1 DEF Charging, Paying, Admitting, Working
  <2>2. IsFiniteSet(Charging(g, m)) /\ Cardinality(Charging(g, m)) = 0
    BY <2>1, FS_EmptySet
  <2>3. Pending(g, m) <= Begun(g, m) /\ Pending(g, m) \in Nat /\ Begun(g, m) \in Nat
    BY <1>1 DEF Pending, Begun
  <2> QED BY <1>1, <2>2, <2>3 DEF ChargesFit
<1> QED BY <1>2, <1>3 DEF ChargeInv

LEMMA NextCharge ==
  ASSUME CoreInv, FenceInv, ChargeInv, [Next]_vars
  PROVE  ChargeInv'
<1>1. TypeOK /\ TypeOK' /\ LockedIsActive
  BY NextTypes DEF CoreInv, ChargeInv
<1>2. ClaimsGrow
  BY <1>1, ClaimsGrowAlways
<1>3. ASSUME NEW w \in Workers, WorkerStep(w)
      PROVE  ChargeInv'
  <2>1. \A g \in Generations : JobMoves(g)
    BY <1>1, <1>3, StepMovesJobs
  <2> QED BY <1>1, <1>2, <1>3, <2>1, StepPays, CalmKeepsCharges, PaidKeepsCharges
<1>4. ASSUME NEW w \in Workers, NEW g \in Generations, Deliver(w, g)
      PROVE  ChargeInv'
  BY <1>1, <1>4, DeliveryKeepsCharges
<1>5. \/ \E w \in Workers : WorkerStep(w)
      \/ \E w \in Workers, g \in Generations : Deliver(w, g)
      \/ \E w \in Workers : WorkerFault(w)
      \/ \E g \in Generations : \/ QueueStep(g) \/ LeaseExpires(g) \/ LockLapses(g)
                               \/ \E w \in Workers : FailStalled(w, g)
      \/ ChangeEntitlement /\ UNCHANGED worker
      \/ RequeueNext
      \/ UNCHANGED vars
  BY DEF Next, WorkerNext, Delivery
<1> QED BY <1>1, <1>2, <1>3, <1>4, <1>5, OtherIsCalm, CalmKeepsCharges

\* The calls paid and those to come stay within the attempts and the stalls.
THEOREM ChargeSafety == Spec => []ChargeInv
  BY InitCharge, NextCharge, CoreSafety, FenceSafety, PTL DEF Spec

\* The provider is paid at most once for each attempt that was claimed, and
\* once more for each delivery that the stalled-job sweep repeated.
THEOREM ChargesBounded == Spec => []ChargesAreBounded
<1>1. CoreInv /\ ChargeInv => ChargesAreBounded
  <2> SUFFICES ASSUME CoreInv, ChargeInv, NEW g \in Generations
               PROVE  charged[g] <= claim[g].attempt + job[g].stalls
    BY DEF ChargesAreBounded
  <2>1. /\ claim[g].attempt \in Nat /\ charged[g] \in Nat /\ job[g] \in Job
    BY DEF CoreInv, TypeOK, RecordsTypeOK, Claim
  <2>2. PICK m \in Nat : m = claim[g].attempt
    BY <2>1
  <2>3. ChargesFit(g, m)
    BY <2>2 DEF ChargeInv
  <2>4. Cardinality(Charging(g, m)) \in Nat
    BY <2>3, FS_CardinalityType DEF ChargesFit
  <2>5. /\ Pending(g, m) \in Nat /\ Begun(g, m) \in Nat /\ Begun(g, m) <= m
        /\ job[g].stalls \in Nat
    BY <2>1 DEF Pending, Begun, Job
  <2> QED BY <2>1, <2>2, <2>3, <2>4, <2>5 DEF ChargesFit
<1> QED BY <1>1, CoreSafety, ChargeSafety, PTL

=============================================================================
