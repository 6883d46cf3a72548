--------------------------- MODULE ParseLifecycle ---------------------------
(***************************************************************************)
(* What the pipeline promises the owner of a resume and the administrator, *)
(* without workers, leases, queues or outbox: the life of the resume's     *)
(* status and of its two executions.  ResumePipeline implements it.        *)
(***************************************************************************)

VARIABLES
  resume,  \* the status shown to the owner
  status   \* the status of the initial execution and of its successor

lifecycleVars == <<resume, status>>

\* Work happens on one execution at a time: the successor once it exists.
Current(g) == g = IF status[1] = "absent" THEN 0 ELSE 1

LifecycleInit ==
  /\ resume = "pending"
  /\ status = [g \in {0, 1} |-> IF g = 0 THEN "queued" ELSE "absent"]

\* An attempt starts: the first one, a retry, or one that takes over.
StartAttempt(g) ==
  /\ Current(g)
  /\ status[g] \in {"requeue_requested", "queued", "processing", "retrying"}
  /\ status' = [status EXCEPT ![g] = "processing"]
  /\ resume' = "processing"

AwaitRetry(g) ==
  /\ Current(g)
  /\ status[g] = "processing"
  /\ status' = [status EXCEPT ![g] = "retrying"]
  /\ UNCHANGED resume

\* The parsed content and the success of its execution appear together.
Succeed(g) ==
  /\ Current(g)
  /\ status[g] = "processing"
  /\ status' = [status EXCEPT ![g] = "succeeded"]
  /\ resume' = "ready"

FailFor(g) ==
  /\ Current(g)
  /\ status[g] = "processing"
  /\ \E s \in {"failed_requeueable", "failed_permanent"} :
       status' = [status EXCEPT ![g] = s]
  /\ resume' = "failed"

\* One successor, and only of a failure that may be requeued.
RequestSuccessor ==
  /\ status[0] = "failed_requeueable"
  /\ status[1] = "absent"
  /\ resume = "failed"
  /\ status' = [status EXCEPT ![1] = "requeue_requested"]
  /\ UNCHANGED resume

Enqueue ==
  /\ status[1] = "requeue_requested"
  /\ status' = [status EXCEPT ![1] = "queued"]
  /\ resume' = "pending"

LifecycleNext ==
  \/ \E g \in {0, 1} :
       StartAttempt(g) \/ AwaitRetry(g) \/ Succeed(g) \/ FailFor(g)
  \/ RequestSuccessor
  \/ Enqueue

LifecycleSpec == LifecycleInit /\ [][LifecycleNext]_lifecycleVars

============================================================================
