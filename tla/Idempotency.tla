---------------------------- MODULE Idempotency ----------------------------
(***************************************************************************)
(* IdempotencyService of apps/api: the requests that carry one             *)
(* Idempotency-Key of one user, the idempotency_records row of that key    *)
(* and the handlers the claims admit.  An action is one database call or   *)
(* one handler; requests of several API instances interleave between them. *)
(*                                                                         *)
(* A row is named after the request that inserted it (its id) and replays  *)
(* that request's response.  The fingerprint of a request stands for its   *)
(* operation and payload.  Rows of other keys share nothing with this one. *)
(***************************************************************************)
EXTENDS Integers

CONSTANTS
  Requests,      \* HTTP requests with this key
  Fingerprints,  \* hashes of the operations and payloads they may carry
  PendingTtl,    \* PENDING_TTL_MS: 15 minutes in the code
  CompletedTtl,  \* COMPLETED_TTL_MS: 24 hours in the code
  MaxClock,      \* bound: the clock stops here
  MaxFaults,     \* bound: crashes and failing writes in a behaviour
  None           \* no request

ASSUME ConstantsAssumption ==
  /\ PendingTtl \in Nat /\ CompletedTtl \in Nat
  /\ MaxClock \in Nat /\ MaxFaults \in Nat
  /\ None \notin Requests

VARIABLES
  clock,       \* the time, the same on every instance
  live,        \* the request whose row is in the table, or None
  row,         \* every row ever inserted, by the request that inserted it
  request,     \* where each request is
  faultsLeft   \* faults the environment may still inject

vars == <<clock, live, row, request, faultsLeft>>

-----------------------------------------------------------------------------
\* insertedAt and worked (the handler's side effects happened) are history.
Row == [status: {"none", "pending", "completed"}, expiresAt: Int,
        insertedAt: Int, worked: BOOLEAN]

Unclaimed == {"new", "prune", "insert", "find", "replace", "reinsert"}
Claimed   == {"handle", "store", "discard"}
Answer    == {"result", "replay", "conflict", "error"}

\* now: read when the request arrived.  seen, seenDone: the row that find
\* returned.  of: the request whose response was returned.
Request == [pc: Unclaimed \cup Claimed \cup Answer \cup {"crashed"},
            fingerprint: Fingerprints, now: Int,
            seen: Requests \cup {None}, seenDone: BOOLEAN,
            of: Requests \cup {None}]

TypeOK ==
  /\ clock \in Int
  /\ live \in Requests \cup {None}
  /\ row \in [Requests -> Row]
  /\ request \in [Requests -> Request]
  /\ faultsLeft \in Nat

Init ==
  /\ clock = 0
  /\ live = None
  /\ row = [r \in Requests |-> [status |-> "none", expiresAt |-> 0,
                                insertedAt |-> 0, worked |-> FALSE]]
  /\ request \in [Requests ->
       {[pc |-> "new", fingerprint |-> f, now |-> 0, seen |-> None,
         seenDone |-> FALSE, of |-> None] : f \in Fingerprints}]
  /\ faultsLeft = MaxFaults

-----------------------------------------------------------------------------
At(r, pc)   == request[r].pc = pc
Goto(r, pc) == request' = [request EXCEPT ![r].pc = pc]

\* Answered with the response that another request stored.
Replay(r, s) == request' = [request EXCEPT ![r] =
                  [request[r] EXCEPT !.pc = "replay", !.of = s]]

\* Mutant: a pending row counts as abandoned.
ExpiredOrPending(s, now) ==
  row[s].expiresAt <= now \/ row[s].status = "pending"

\* Expired for a request that arrived at this time (expiresAt <= now).
ExpiredFor(s, now) == row[s].expiresAt <= now

\* Mutant: the same key is enough.
SameKey(r, s) == s \in Requests

\* The fingerprint of the row is that of the request that inserted it.
SameFingerprint(r, s) == request[s].fingerprint = request[r].fingerprint

\* The insert succeeds: the row is pending and its request runs the handler.
Claim(r, now) ==
  /\ live' = r
  /\ row' = [row EXCEPT ![r] =
       [status |-> "pending", expiresAt |-> now + PendingTtl,
        insertedAt |-> clock, worked |-> FALSE]]
  /\ Goto(r, "handle")

Arrive(r) ==
  /\ At(r, "new")
  /\ request' = [request EXCEPT ![r] =
                   [request[r] EXCEPT !.pc = "prune", !.now = clock]]
  /\ UNCHANGED <<clock, live, row, faultsLeft>>

\* Opportunistic pruning of expired rows, whoever owns them.
Prune(r) ==
  /\ At(r, "prune")
  /\ live' = IF live # None /\ ExpiredFor(live, request[r].now)
               THEN None ELSE live
  /\ Goto(r, "insert")
  /\ UNCHANGED <<clock, row, faultsLeft>>

\* claim: the unique constraint on (userId, key) decides.
Insert(r) ==
  /\ At(r, "insert")
  /\ IF live = None
       THEN Claim(r, request[r].now)
       ELSE Goto(r, "find") /\ UNCHANGED <<live, row>>
  /\ UNCHANGED <<clock, faultsLeft>>

\* The row that won: gone again, of another request, expired, completed or
\* still pending.
Find(r) ==
  /\ At(r, "find")
  /\ \/ /\ live = None
        /\ Goto(r, "reinsert")
     \/ /\ live # None
        /\ ~SameFingerprint(r, live)
        /\ Goto(r, "conflict")
     \/ /\ live # None
        /\ SameFingerprint(r, live)
        /\ IF ExpiredFor(live, request[r].now)
             THEN request' = [request EXCEPT ![r] =
                    [request[r] EXCEPT !.pc = "replace", !.seen = live,
                       !.seenDone = (row[live].status = "completed")]]
             ELSE IF row[live].status = "completed"
                    THEN Replay(r, live) ELSE Goto(r, "conflict")
  /\ UNCHANGED <<clock, live, row, faultsLeft>>

\* Delete the expired row that find saw; if it is gone or was extended, the
\* request is answered from what it saw.
Replace(r) ==
  LET s == request[r].seen IN
  /\ At(r, "replace")
  /\ IF live = s /\ ExpiredFor(s, request[r].now)
       THEN live' = None /\ Goto(r, "reinsert")
       ELSE /\ UNCHANGED live
            /\ IF request[r].seenDone THEN Replay(r, s) ELSE Goto(r, "conflict")
  /\ UNCHANGED <<clock, row, faultsLeft>>

\* createClaimAfterRace: one more insert, with a new time.
Reinsert(r) ==
  /\ At(r, "reinsert")
  /\ IF live = None
       THEN Claim(r, clock)
       ELSE Goto(r, "conflict") /\ UNCHANGED <<live, row>>
  /\ UNCHANGED <<clock, faultsLeft>>

\* The handler did its work, or threw and did none.
Handle(r) ==
  /\ At(r, "handle")
  /\ \/ row' = [row EXCEPT ![r].worked = TRUE] /\ Goto(r, "store")
     \/ UNCHANGED row /\ Goto(r, "discard")
  /\ UNCHANGED <<clock, live, faultsLeft>>

\* Persist the response on the request's own row, if it is still there;
\* otherwise the client gets a 500 for work that was done.
Store(r) ==
  /\ At(r, "store")
  /\ IF live = r /\ row[r].status = "pending"
       THEN /\ row' = [row EXCEPT ![r] =
                 [row[r] EXCEPT !.status = "completed",
                                !.expiresAt = clock + CompletedTtl]]
            /\ request' = [request EXCEPT ![r] =
                 [request[r] EXCEPT !.pc = "result", !.of = r]]
       ELSE UNCHANGED row /\ Goto(r, "error")
  /\ UNCHANGED <<clock, live, faultsLeft>>

\* A failed handler deletes its own pending row and no successor's.
Discard(r) ==
  /\ At(r, "discard")
  /\ live' = IF live = r /\ row[r].status = "pending" THEN None ELSE live
  /\ Goto(r, "error")
  /\ UNCHANGED <<clock, row, faultsLeft>>

-----------------------------------------------------------------------------
Tick ==
  /\ clock < MaxClock
  /\ clock' = clock + 1
  /\ UNCHANGED <<live, row, request, faultsLeft>>

\* Mutant: a failing write of the response gives the key back.
WriteFailsReleasing(r) ==
  /\ faultsLeft > 0
  /\ request[r].pc \in {"store", "discard"}
  /\ faultsLeft' = faultsLeft - 1
  /\ live' = IF live = r THEN None ELSE live
  /\ Goto(r, "error")
  /\ UNCHANGED <<clock, row>>

\* The database refuses the last write: the pending row stays until it
\* expires.
WriteFails(r) ==
  /\ faultsLeft > 0
  /\ request[r].pc \in {"store", "discard"}
  /\ faultsLeft' = faultsLeft - 1
  /\ Goto(r, "error")
  /\ UNCHANGED <<clock, live, row>>

\* The API process dies while it serves the request.
Crash(r) ==
  /\ faultsLeft > 0
  /\ request[r].pc \in (Unclaimed \ {"new"}) \cup Claimed
  /\ faultsLeft' = faultsLeft - 1
  /\ Goto(r, "crashed")
  /\ UNCHANGED <<clock, live, row>>

Step(r) ==
  \/ Arrive(r) \/ Prune(r) \/ Insert(r) \/ Find(r) \/ Replace(r)
  \/ Reinsert(r) \/ Handle(r) \/ Store(r) \/ Discard(r)

Next == Tick \/ \E r \in Requests : Step(r) \/ WriteFails(r) \/ Crash(r)

Spec == Init /\ [][Next]_vars

-----------------------------------------------------------------------------
\* The work of one key is not done again within the retention window: a later
\* claim whose handler worked was inserted after the earlier one had expired
\* ("This protects repository writes and quota charges within the retention
\* window", docs/TECHNICAL.md), whatever crashed or failed in between.
WorkIsNotRepeated ==
  \A r, s \in Requests :
    r # s /\ row[r].worked /\ row[s].worked =>
      \/ row[s].insertedAt >= row[r].expiresAt
      \/ row[r].insertedAt >= row[s].expiresAt

\* A replayed response is one that was stored for the same operation and
\* payload by a handler that worked.
ReplayMatchesRequest ==
  \A r \in Requests : At(r, "replay") =>
    LET s == request[r].of IN
      /\ s \in Requests \ {r}
      /\ row[s].worked /\ row[s].status = "completed"
      /\ request[s].fingerprint = request[r].fingerprint

\* Two handlers run at once only when the claim of one of them has outlived
\* its fifteen minutes.
OverlapNeedsExpiry ==
  \A r, s \in Requests :
    r # s /\ At(r, "handle") /\ At(s, "handle") =>
      row[r].expiresAt <= clock \/ row[s].expiresAt <= clock

\* A row leaves the table only when it expired or when its own handler failed:
\* no failing request deletes its successor's claim.
RowIsKept ==
  [][\A r \in Requests : live = r /\ live' # r =>
       row[r].expiresAt <= clock \/ At(r, "discard")]_vars

============================================================================
