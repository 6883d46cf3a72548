---------------------------- MODULE ParseRequeue ----------------------------
(***************************************************************************)
(* The administrator's requeue of a failed parse: the command of           *)
(* ResumeRequeueCommandService (with the AdminResumesService boundary that *)
(* calls it) and the transactional outbox ResumeParseDispatcher drains.    *)
(* The successor is the execution of generation 1; there is at most one.   *)
(***************************************************************************)
EXTENDS ParseRecords

CONSTANTS
  Calls,       \* requeue requests of administrators
  KeyOf,       \* the Idempotency-Key of each call
  ReasonOf,    \* the reason each call submits
  Dispatchers  \* running dispatchPending loops

VARIABLES
  call,       \* where each call is, and its answer
  owner,      \* <<key, reason>> stored on the generation-1 row, or <<>>
  dispatch,   \* the outbox row: resume_parse_dispatches
  dispatcher  \* where each dispatcher loop is

requeueVars == <<call, owner, dispatch, dispatcher>>

CallPc == {"new", "create", "resolve", "accepted", "conflict"}

DispatcherPc == {"idle", "add", "record", "backoff"}

DispatchRow ==
  [status: {"none", "pending", "dispatching", "dispatched"}, lease: Lease]

RequeueReason == {"provider_recovered", "storage_recovered", "worker_recovery"}

ASSUME RequeueAssumption ==
  /\ ReasonOf \in [Calls -> RequeueReason]
  /\ DOMAIN KeyOf = Calls

\* The identity of a logical request: its key and its fingerprint (the actor
\* and the resume are the same for every call here).
RequestOf(c) == <<KeyOf[c], ReasonOf[c]>>

Owners == {<<>>} \cup {RequestOf(c) : c \in Calls}

RequeueTypeOK ==
  /\ call \in [Calls -> CallPc]
  /\ owner \in Owners
  /\ dispatch \in DispatchRow
  /\ dispatcher \in [Dispatchers -> DispatcherPc]

RequeueInit ==
  /\ call = [c \in Calls |-> "new"]
  /\ owner = <<>>
  /\ dispatch = [status |-> "none", lease |-> "none"]
  /\ dispatcher = [d \in Dispatchers |-> "idle"]

-----------------------------------------------------------------------------
(* The command.  Reads and insert are two steps of one transaction that    *)
(* runs at READ COMMITTED, so another transaction may commit in between.   *)

CallTo(c, pc) == call' = [call EXCEPT ![c] = pc]

\* REQUEUE_REASON_BY_FAILURE; "none" for a failure that has no reason.
RequiredReason(category) ==
  CASE category = "provider_transient" -> "provider_recovered"
    [] category = "storage_transient" -> "storage_recovered"
    [] category = "worker_crash" -> "worker_recovery"
    [] OTHER -> "none"

EligibleForRequeue(c) ==
  /\ resume = "failed"
  /\ execution[0].status = "failed_requeueable"
  /\ ReasonOf[c] = RequiredReason(execution[0].category)

KeyUsed(c) == owner # <<>> /\ owner[1] = KeyOf[c]

\* An exact replay and a second successor leave the transaction with a marker
\* that the boundary resolves; every other refusal is a conflict.
CheckRequeue(c) ==
  /\ call[c] = "new"
  /\ CallTo(c, IF KeyUsed(c)
                 THEN IF owner = RequestOf(c) THEN "resolve" ELSE "conflict"
               ELSE IF execution[1].status # "absent" THEN "resolve"
               ELSE IF EligibleForRequeue(c) THEN "create" ELSE "conflict")
  /\ UNCHANGED <<owner, dispatch, dispatcher>>
  /\ UNCHANGED records

\* The candidate has withdrawn the data-processing consent.
RefuseWithoutConsent(c) ==
  /\ call[c] = "new"
  /\ ~KeyUsed(c)
  /\ execution[1].status = "absent"
  /\ CallTo(c, "conflict")
  /\ UNCHANGED <<owner, dispatch, dispatcher>>
  /\ UNCHANGED records

\* Mutant: losing the race for the unique index is a conflict.
CreateSuccessorOrConflict(c) ==
  /\ call[c] = "create"
  /\ IF execution[1].status = "absent"
       THEN /\ execution' = [execution EXCEPT ![1] =
                 [NoExecution EXCEPT !.status = "requeue_requested"]]
            /\ owner' = RequestOf(c)
            /\ dispatch' = [status |-> "pending", lease |-> "none"]
            /\ CallTo(c, "accepted")
       ELSE /\ CallTo(c, "conflict")
            /\ UNCHANGED <<execution, owner, dispatch>>
  /\ UNCHANGED dispatcher
  /\ UNCHANGED <<resume, claim, job, deadLetters, entitlement, charged,
                 faultsLeft>>

\* The successor and its outbox row, in one insert; the unique index on
\* (resumeId, generation) refuses the second of two concurrent winners.
CreateSuccessor(c) ==
  /\ call[c] = "create"
  /\ IF execution[1].status = "absent"
       THEN /\ execution' = [execution EXCEPT ![1] =
                 [NoExecution EXCEPT !.status = "requeue_requested"]]
            /\ owner' = RequestOf(c)
            /\ dispatch' = [status |-> "pending", lease |-> "none"]
            /\ CallTo(c, "accepted")
       ELSE /\ CallTo(c, "resolve")
            /\ UNCHANGED <<execution, owner, dispatch>>
  /\ UNCHANGED dispatcher
  /\ UNCHANGED <<resume, claim, job, deadLetters, entitlement, charged,
                 faultsLeft>>

\* resolveIdempotentResult: the committed successor answers its own request
\* and no other.
ResolveReplay(c) ==
  /\ call[c] = "resolve"
  /\ CallTo(c, IF owner = RequestOf(c) THEN "accepted" ELSE "conflict")
  /\ UNCHANGED <<owner, dispatch, dispatcher>>
  /\ UNCHANGED records

-----------------------------------------------------------------------------
(* The dispatcher.                                                         *)

DispatcherTo(d, pc) == dispatcher' = [dispatcher EXCEPT ![d] = pc]

\* claimNextDispatch: read and compare-and-set on (status, leaseExpiresAt),
\* whose timestamps never repeat, is one step; losing the race changes nothing.
\* The backoff (availableAt) only delays and is not modelled.
ClaimDispatch(d) ==
  /\ dispatcher[d] = "idle"
  /\ execution[1].status \in {"requeue_requested", "queued"}
  /\ \/ dispatch.status = "pending"
     \/ dispatch.status = "dispatching" /\ dispatch.lease = "expired"
  /\ dispatch' = [status |-> "dispatching", lease |-> "live"]
  /\ DispatcherTo(d, "add")
  /\ UNCHANGED <<call, owner>>
  /\ UNCHANGED records

\* Mutant: the job is never added.
AddJobLost(d) ==
  /\ dispatcher[d] = "add"
  /\ job' = job
  /\ DispatcherTo(d, "record")
  /\ UNCHANGED <<call, owner, dispatch>>
  /\ UNCHANGED <<resume, execution, claim, deadLetters, entitlement, charged,
                 faultsLeft>>

\* queue.add of the signed job of the successor.
AddJob(d) ==
  /\ dispatcher[d] = "add"
  /\ QueueAdd(1)
  /\ DispatcherTo(d, "record")
  /\ UNCHANGED <<call, owner, dispatch>>
  /\ UNCHANGED <<resume, execution, claim, deadLetters, entitlement, charged,
                 faultsLeft>>

\* Mutant: the execution is queued although a worker took the job.
RecordDispatchAlways(d) ==
  /\ dispatcher[d] = "record"
  /\ SetStatus(1, "queued")
  /\ resume' = IF resume = "failed" THEN "pending" ELSE resume
  /\ dispatch' = [status |-> "dispatched", lease |-> "none"]
  /\ DispatcherTo(d, "idle")
  /\ UNCHANGED <<call, owner>>
  /\ UNCHANGED <<claim, job, deadLetters, entitlement, charged,
                 faultsLeft>>

\* The transaction after queue.add.  The worker may have claimed the job in
\* between: then only the outbox row is written.
RecordDispatch(d) ==
  /\ dispatcher[d] = "record"
  /\ IF execution[1].status = "requeue_requested"
       THEN /\ SetStatus(1, "queued")
            /\ resume' = IF resume = "failed" THEN "pending" ELSE resume
       ELSE UNCHANGED <<execution, resume>>
  /\ dispatch' = [status |-> "dispatched", lease |-> "none"]
  /\ DispatcherTo(d, "idle")
  /\ UNCHANGED <<call, owner>>
  /\ UNCHANGED <<claim, job, deadLetters, entitlement, charged,
                 faultsLeft>>

\* Redis or the database fails: the row becomes pending again, unless another
\* dispatcher has finished it.
DispatchThrows(d) ==
  /\ SpendFault("throw")
  /\ dispatcher[d] \in {"add", "record"}
  /\ DispatcherTo(d, "backoff")
  /\ UNCHANGED <<call, owner, dispatch>>
  /\ UNCHANGED <<resume, execution, claim, job, deadLetters, entitlement,
                 charged>>

BackOff(d) ==
  /\ dispatcher[d] = "backoff"
  /\ dispatch' = IF dispatch.status = "dispatching"
                   THEN [status |-> "pending", lease |-> "none"] ELSE dispatch
  /\ DispatcherTo(d, "idle")
  /\ UNCHANGED <<call, owner>>
  /\ UNCHANGED records

DispatcherCrash(d) ==
  /\ SpendFault("crash")
  /\ dispatcher[d] # "idle"
  /\ DispatcherTo(d, "idle")
  /\ UNCHANGED <<call, owner, dispatch>>
  /\ UNCHANGED <<resume, execution, claim, job, deadLetters, entitlement,
                 charged>>

\* Thirty seconds pass, whether or not the dispatcher that holds the row is
\* still at work: nothing renews this lease.
DispatchLeaseExpires ==
  /\ dispatch.lease = "live"
  /\ dispatch' = [dispatch EXCEPT !.lease = "expired"]
  /\ UNCHANGED <<call, owner, dispatcher>>
  /\ UNCHANGED records

-----------------------------------------------------------------------------
CallStep(c) == CheckRequeue(c) \/ CreateSuccessor(c) \/ ResolveReplay(c)

DispatcherStep(d) ==
  ClaimDispatch(d) \/ AddJob(d) \/ RecordDispatch(d) \/ BackOff(d)

RequeueFault(d) == DispatchThrows(d) \/ DispatcherCrash(d)

============================================================================
