---------------------------- MODULE ResumeStorage ----------------------------
(***************************************************************************)
(* The resumes of one account in three systems that no transaction spans:  *)
(* rows and usage in the database, files in the object store, parse jobs   *)
(* in the queue.  Uploads, deletions, the parse and the deletion of the    *)
(* account write them one after the other; any of these writes may fail,   *)
(* and the process may die between two of them.                            *)
(***************************************************************************)
EXTENDS Naturals, FiniteSets

CONSTANTS
  Files,       \* uploads, each with an opaque object key of its own
  Size,        \* file.size of each
  Deletions,   \* calls of deleteResume
  MaxResumes,  \* effective limits of the plan
  MaxBytes,
  MaxBreaks    \* bound: failing writes and dying calls

\* What a deletion that has read no row remembers.
NoFile == {}

ASSUME StorageConstants ==
  /\ IsFiniteSet(Files) /\ NoFile \notin Files /\ Size \in [Files -> Nat]
  /\ MaxResumes \in Nat /\ MaxBytes \in Nat /\ MaxBreaks \in Nat

VARIABLES
  account,    \* the user: is there one, may his data be processed?
  row,        \* resumes, with their initial execution
  stored,     \* usage_limits.resumesUsed, storageBytesUsed
  object,     \* what the bucket holds
  job,        \* jobs of the parse queue that no worker has taken
  parsed,     \* resumes.parseStatus of each row that is ready or failed
  upload,     \* where each upload is
  deletion,   \* where each deletion is, and the row it has read
  closing,    \* where deleteAccount is, and the files it has read
  breaksLeft  \* faults the environment may still inject

storageVars == <<account, row, stored, object, job, parsed, upload, deletion,
                 closing, breaksLeft>>

Upload == {"new", "put", "create", "clean", "enqueue", "undo_both",
           "undo_row", "undo_object", "accepted", "failed"}

StorageTypeOK ==
  /\ account \in {"new", "consented", "gone"}
  /\ row \subseteq Files /\ object \subseteq Files /\ job \subseteq Files
  /\ stored \in [resumes: Nat, bytes: Nat]
  /\ parsed \in [Files -> {"no", "ready", "failed"}]
  /\ upload \in [Files -> Upload]
  /\ deletion \in [Deletions -> [pc: {"new", "object", "row", "done"},
                                 file: Files \cup {NoFile}]]
  /\ closing \in [pc: {"open", "objects", "broken", "done"}, left: SUBSET Files]
  /\ breaksLeft \in 0..MaxBreaks

StorageInit ==
  /\ account \in {"new", "consented"}
  /\ row = {} /\ object = {} /\ job = {}
  /\ stored = [resumes |-> 0, bytes |-> 0]
  /\ parsed = [f \in Files |-> "no"]
  /\ upload = [f \in Files |-> "new"]
  /\ deletion = [d \in Deletions |-> [pc |-> "new", file |-> NoFile]]
  /\ closing = [pc |-> "open", left |-> {}]
  /\ breaksLeft = MaxBreaks

-----------------------------------------------------------------------------
AtStep(f, pc)   == upload[f] = pc
StepTo(f, pc)   == upload' = [upload EXCEPT ![f] = pc]
Fault           == breaksLeft > 0 /\ breaksLeft' = breaksLeft - 1

others == <<deletion, closing>>

\* upload: consent is needed, and a plan that can be routed.
BeginUpload(f) ==
  /\ AtStep(f, "new") /\ account # "gone"
  /\ StepTo(f, IF account = "consented" THEN "put" ELSE "failed")
  /\ UNCHANGED <<account, row, stored, object, job, parsed, others, breaksLeft>>

Put(f) ==
  /\ AtStep(f, "put")
  /\ object' = object \cup {f}
  /\ StepTo(f, "create")
  /\ UNCHANGED <<account, row, stored, job, parsed, others, breaksLeft>>

\* reserveResumeStorageInTransaction.
HasRoom(f) == /\ stored.resumes + 1 <= MaxResumes
              /\ stored.bytes + Size[f] <= MaxBytes

\* createResumeWithQuota: one serializable transaction.
Create(f) ==
  /\ AtStep(f, "create")
  /\ IF account # "gone" /\ HasRoom(f)
       THEN /\ stored' = [resumes |-> stored.resumes + 1,
                         bytes |-> stored.bytes + Size[f]]
            /\ row' = row \cup {f}
            /\ StepTo(f, "enqueue")
       ELSE StepTo(f, "clean") /\ UNCHANGED <<stored, row>>
  /\ UNCHANGED <<account, object, job, parsed, others, breaksLeft>>

\* It conflicts three times, or the database cannot be reached.
CreateFails(f) ==
  /\ AtStep(f, "create") /\ Fault
  /\ StepTo(f, "clean")
  /\ UNCHANGED <<account, row, stored, object, job, parsed, others>>

\* Mutant: the removal takes every object of the user.
CleanEvery(f) ==
  /\ AtStep(f, "clean")
  /\ object' = {}
  /\ StepTo(f, "failed")
  /\ UNCHANGED <<account, row, stored, job, parsed, others, breaksLeft>>

\* Mutant: the object of a refused upload is not removed.
CleanNothing(f) ==
  /\ AtStep(f, "clean")
  /\ StepTo(f, "failed")
  /\ UNCHANGED <<account, row, stored, object, job, parsed, others, breaksLeft>>

Clean(f) ==
  /\ AtStep(f, "clean")
  /\ object' = object \ {f}
  /\ StepTo(f, "failed")
  /\ UNCHANGED <<account, row, stored, job, parsed, others, breaksLeft>>

Enqueue(f) ==
  /\ AtStep(f, "enqueue")
  /\ job' = job \cup {f}
  /\ StepTo(f, "accepted")
  /\ UNCHANGED <<account, row, stored, object, parsed, others, breaksLeft>>

\* queue.add rejects, perhaps after the queue has the job.
EnqueueFails(f) ==
  /\ AtStep(f, "enqueue") /\ Fault
  /\ job' \in {job, job \cup {f}}
  /\ StepTo(f, "undo_both")
  /\ UNCHANGED <<account, row, stored, object, parsed, others>>

-----------------------------------------------------------------------------
\* Mutant: the transaction of a deletion does not ask for its row.
FoundAlways(f) == account # "gone"

\* resume.delete: there is a row to delete, else the transaction is undone.
Found(f) == f \in row

\* releaseInTransaction, twice: each only if the counter allows it.
Released(f) ==
  [resumes |-> IF stored.resumes >= 1 THEN stored.resumes - 1 ELSE 0,
   bytes |-> IF stored.bytes >= Size[f] THEN stored.bytes - Size[f]
             ELSE stored.bytes]

\* deleteResumeRecord: row and stored in one transaction.
DeleteRecord(f) ==
  IF Found(f)
    THEN row' = row \ {f} /\ stored' = Released(f)
    ELSE UNCHANGED <<row, stored>>

\* Promise.allSettled: both removals run, in either order, and either may fail.
UndoRow(f) ==
  /\ upload[f] \in {"undo_both", "undo_row"}
  /\ DeleteRecord(f)
  /\ StepTo(f, IF AtStep(f, "undo_both") THEN "undo_object" ELSE "failed")
  /\ UNCHANGED <<account, object, job, parsed, others, breaksLeft>>

UndoObject(f) ==
  /\ upload[f] \in {"undo_both", "undo_object"}
  /\ object' = object \ {f}
  /\ StepTo(f, IF AtStep(f, "undo_both") THEN "undo_row" ELSE "failed")
  /\ UNCHANGED <<account, row, stored, job, parsed, others, breaksLeft>>

\* A write of the upload, or of its removal, fails, or the process dies.
UploadFails(f) ==
  /\ Fault
  /\ \/ upload[f] \in {"put", "clean", "enqueue", "undo_row", "undo_object"}
          /\ StepTo(f, "failed")
     \/ AtStep(f, "create") /\ StepTo(f, "failed")
     \/ AtStep(f, "undo_both") /\ \E pc \in {"undo_row", "undo_object"} : StepTo(f, pc)
  /\ object' \in IF AtStep(f, "put") THEN {object, object \cup {f}} ELSE {object}
  /\ UNCHANGED <<account, row, stored, job, parsed, others>>

-----------------------------------------------------------------------------
\* The worker takes the job; parse reads the row, then the object.
Parse(f) ==
  /\ f \in job
  /\ job' = job \ {f}
  /\ parsed' = [parsed EXCEPT ![f] =
       CASE f \notin row -> @
         [] f \in object -> "ready"
         [] OTHER        -> "failed"]
  /\ UNCHANGED <<account, row, stored, object, upload, others, breaksLeft>>

\* deleteResume: the row of the user is read, ...
ReadResume(d) ==
  /\ deletion[d].pc = "new"
  /\ \E f \in row :
       deletion' = [deletion EXCEPT ![d] = [pc |-> "object", file |-> f]]
  /\ UNCHANGED <<account, row, stored, object, job, parsed, upload, closing,
                 breaksLeft>>

\* ... its object is deleted, ...
DeleteObject(d) ==
  /\ deletion[d].pc = "object"
  /\ object' = object \ {deletion[d].file}
  /\ deletion' = [deletion EXCEPT ![d].pc = "row"]
  /\ UNCHANGED <<account, row, stored, job, parsed, upload, closing, breaksLeft>>

\* ... then the row, with its stored.
DeleteResume(d) ==
  /\ deletion[d].pc = "row"
  /\ DeleteRecord(deletion[d].file)
  /\ deletion' = [deletion EXCEPT ![d].pc = "done"]
  /\ UNCHANGED <<account, object, job, parsed, upload, closing, breaksLeft>>

DeletionFails(d) ==
  /\ deletion[d].pc \in {"object", "row"} /\ Fault
  /\ deletion' = [deletion EXCEPT ![d].pc = "done"]
  /\ UNCHANGED <<account, row, stored, object, job, parsed, upload, closing>>

-----------------------------------------------------------------------------
\* deleteAccount: the resumes are read (after the subscription was cancelled
\* at Stripe), ...
ReadAccount ==
  /\ closing.pc \in {"open", "broken"} /\ account # "gone"
  /\ closing' = [pc |-> "objects", left |-> row]
  /\ UNCHANGED <<account, row, stored, object, job, parsed, upload, deletion,
                 breaksLeft>>

\* ... their objects deleted one by one, ...
DeleteFile(f) ==
  /\ closing.pc = "objects" /\ f \in closing.left
  /\ object' = object \ {f}
  /\ closing' = [closing EXCEPT !.left = @ \ {f}]
  /\ UNCHANGED <<account, row, stored, job, parsed, upload, deletion, breaksLeft>>

\* ... and the user with all his rows.
DeleteUser ==
  /\ closing.pc = "objects" /\ closing.left = {}
  /\ account' = "gone" /\ row' = {} /\ stored' = [resumes |-> 0, bytes |-> 0]
  /\ closing' = [closing EXCEPT !.pc = "done"]
  /\ UNCHANGED <<object, job, parsed, upload, deletion, breaksLeft>>

ClosingFails ==
  /\ closing.pc = "objects" /\ Fault
  /\ closing' = [pc |-> "broken", left |-> {}]
  /\ UNCHANGED <<account, row, stored, object, job, parsed, upload, deletion>>

\* recordDataProcessingConsent.
Consent ==
  /\ account = "new"
  /\ account' = "consented"
  /\ UNCHANGED <<row, stored, object, job, parsed, upload, others, breaksLeft>>

UploadNext(f) ==
  \/ BeginUpload(f) \/ Put(f) \/ Create(f) \/ CreateFails(f) \/ Clean(f)
  \/ Enqueue(f) \/ EnqueueFails(f) \/ UndoRow(f) \/ UndoObject(f)
  \/ UploadFails(f) \/ Parse(f) \/ DeleteFile(f)

DeletionNext(d) ==
  ReadResume(d) \/ DeleteObject(d) \/ DeleteResume(d) \/ DeletionFails(d)

StorageNext ==
  \/ \E f \in Files : UploadNext(f)
  \/ \E d \in Deletions : DeletionNext(d)
  \/ ReadAccount \/ DeleteUser \/ ClosingFails \/ Consent

StorageSpec == StorageInit /\ [][StorageNext]_storageVars

-----------------------------------------------------------------------------
\* What the files hold, a byte being its file and its place in it.
Bytes(files) == UNION {{f} \X (1..Size[f]) : f \in files}

\* The counter of resumes is the number of rows.
ResumesMatchRows == stored.resumes = Cardinality(row)

\* The counter of bytes is what the files of the rows add up to.
BytesMatchRows == stored.bytes = Cardinality(Bytes(row))

\* Neither counter exceeds what the plan gives.
StaysInPlan == stored.resumes <= MaxResumes /\ stored.bytes <= MaxBytes

\* The counters of the plan are what the rows add up to, and never more than
\* the plan gives, whatever uploads, their removal and deletions of the same
\* resume cross and fail.
UsageMatchesRows == ResumesMatchRows /\ BytesMatchRows /\ StaysInPlan

Deleting(f) ==
  \/ \E d \in Deletions : deletion[d].file = f
  \/ closing.pc # "open"
  \/ upload[f] \in {"undo_row", "failed"}

\* A resume that is listed has its file, unless its owner, or the removal of its
\* failed upload, has begun to delete it: whatever fails, an upload never shows
\* a row before its file, nor takes the file of a row that stays.
ListedHasFile == \A f \in row : f \in object \/ Deleting(f)

\* Without faults the bucket holds no file that the database has forgotten,
\* once the uploads and deletions at work are through.
NoForgottenFile ==
  breaksLeft = MaxBreaks /\ account # "gone" =>
    \A f \in object \ row : upload[f] \in {"create", "clean", "undo_object"}

=============================================================================
