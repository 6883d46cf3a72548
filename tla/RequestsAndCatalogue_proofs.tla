--------------------- MODULE RequestsAndCatalogue_proofs ---------------------
(***************************************************************************)
(* Proofs about requests with an idempotency key and about the catalogue   *)
(* that the discoveries among them read: the claims of one key, for any    *)
(* set of requests, any retention times and any faults; and the job        *)
(* postings, for any boards, administrators and discoveries, any TTL, age  *)
(* and threshold.                                                          *)
(***************************************************************************)
EXTENDS Idempotency, JobCatalogue, SequenceTheorems, TLAPS

-----------------------------------------------------------------------------
(* The claims of one key.  WorkIsNotRepeated is not inductive: it speaks of *)
(* rows that may have left the table long ago.  ClaimInv adds what keeps   *)
(* it true: the row in the table was inserted when every earlier claim     *)
(* that can still count had expired, and a claim that lost its row has     *)
(* expired.                                                                *)

\* The claim of r has done its work or may still do it.
Counts(r) == row[r].worked \/ request[r].pc \in {"handle", "store"}

\* Where a request is decides what its row can be.
PlaceOf(r) ==
  /\ request[r].now <= clock
  /\ request[r].pc \in Unclaimed => row[r].status = "none"
  /\ request[r].pc \in Claimed => row[r].status = "pending"
  /\ request[r].pc \in {"handle", "discard"} => ~row[r].worked
  /\ At(r, "store") => row[r].worked
  /\ row[r].status = "none" => ~row[r].worked
  /\ row[r].status = "completed" => row[r].worked

PlaceInv == \A r \in Requests : PlaceOf(r)

\* The order in which the rows of the key replaced each other.
OrderInv ==
  /\ live # None => row[live].status # "none"
  /\ \A r \in Requests : Counts(r) /\ live # r => row[r].expiresAt <= clock
  /\ \A r, s \in Requests :
       live = r /\ r # s /\ Counts(s) => row[r].insertedAt >= row[s].expiresAt
  /\ \A r, s \in Requests :
       r # s /\ Counts(r) /\ Counts(s) =>
         \/ row[s].insertedAt >= row[r].expiresAt
         \/ row[r].insertedAt >= row[s].expiresAt

\* What a request learned from the table stays true.
AnswerInv ==
  /\ ReplayMatchesRequest
  /\ \A r \in Requests : At(r, "replace") =>
       /\ request[r].seen \in Requests \ {r}
       /\ request[request[r].seen].fingerprint = request[r].fingerprint
       /\ request[r].seenDone => row[request[r].seen].status = "completed"

ClaimInv == PlaceInv /\ OrderInv /\ AnswerInv

-----------------------------------------------------------------------------
(* Types.                                                                  *)

LEMMA InitTypes == Init => TypeOK
<1> SUFFICES ASSUME Init PROVE TypeOK
  OBVIOUS
<1>1. row \in [Requests -> Row]
  BY DEF Init, Row
<1>2. request \in [Requests -> Request]
  <2> DEFINE New == {[pc |-> "new", fingerprint |-> f, now |-> 0,
                      seen |-> None, seenDone |-> FALSE, of |-> None] :
                       f \in Fingerprints}
  <2>1. New \subseteq Request
    <3> SUFFICES ASSUME NEW f \in Fingerprints
                 PROVE  [pc |-> "new", fingerprint |-> f, now |-> 0,
                         seen |-> None, seenDone |-> FALSE, of |-> None]
                          \in Request
      OBVIOUS
    <3> QED BY DEF Request, Unclaimed
  <2>2. request \in [Requests -> New]
    BY DEF Init
  <2> QED BY <2>1, <2>2
<1> QED
  BY <1>1, <1>2, ConstantsAssumption DEF Init, TypeOK

LEMMA GotoTypes ==
  ASSUME request \in [Requests -> Request], NEW r \in Requests,
         NEW pc \in Unclaimed \cup Claimed \cup Answer \cup {"crashed"},
         Goto(r, pc)
  PROVE  request' \in [Requests -> Request]
BY DEF Goto, Request

LEMMA ReplayTypes ==
  ASSUME request \in [Requests -> Request], NEW r \in Requests,
         NEW s \in Requests, Replay(r, s)
  PROVE  request' \in [Requests -> Request]
BY DEF Replay, Request, Answer

LEMMA ClaimTypes ==
  ASSUME TypeOK, NEW r \in Requests, NEW now \in Int, Claim(r, now)
  PROVE  /\ live' \in Requests
         /\ row' \in [Requests -> Row]
         /\ request' \in [Requests -> Request]
<1> DEFINE new == [status |-> "pending", expiresAt |-> now + PendingTtl,
                   insertedAt |-> clock, worked |-> FALSE]
<1>1. new \in Row
  BY ConstantsAssumption DEF TypeOK, Row
<1>2. row' = [row EXCEPT ![r] = new]
  BY DEF Claim
<1> HIDE DEF new
<1>3. row' \in [Requests -> Row]
  BY <1>1, <1>2 DEF TypeOK
<1>4. request' \in [Requests -> Request]
  BY GotoTypes DEF Claim, TypeOK, Claimed
<1> QED BY <1>3, <1>4 DEF Claim

LEMMA StepTypes == ASSUME TypeOK, NEW r \in Requests, Step(r) PROVE TypeOK'
<1> USE DEF TypeOK
<1>1. CASE Arrive(r)
  BY <1>1 DEF Arrive, Request, Unclaimed
<1>2. CASE Prune(r)
  BY <1>2 DEF Prune, Goto, Request, Unclaimed
<1>0. request[r].now \in Int
  BY DEF Request
<1>3. CASE Insert(r)
  BY <1>3, <1>0, ClaimTypes, GotoTypes DEF Insert, Unclaimed
<1>4. CASE Find(r)
  <2> DEFINE done == row[live].status = "completed"
             next == [request[r] EXCEPT !.pc = "replace", !.seen = live,
                                        !.seenDone = done]
  <2>0. done \in BOOLEAN
    OBVIOUS
  <2>1. ASSUME live # None, request' = [request EXCEPT ![r] = next]
        PROVE  request' \in [Requests -> Request]
    <3> HIDE DEF done
    <3>1. next \in Request
      BY <2>0, <2>1 DEF Request, Unclaimed
    <3> HIDE DEF next
    <3> QED BY <2>1, <3>1
  <2> QED
    BY <1>4, <2>1, GotoTypes, ReplayTypes DEF Find, Unclaimed, Answer
<1>5. CASE Replace(r)
  <2>1. ASSUME Replay(r, request[r].seen), At(r, "replace")
        PROVE  request' \in [Requests -> Request]
    BY <2>1 DEF Replay, Request, Answer
  <2> QED
    BY <1>5, <2>1, GotoTypes DEF Replace, Unclaimed, Answer
<1>6. CASE Reinsert(r)
  BY <1>6, ClaimTypes, GotoTypes DEF Reinsert, Answer
<1>7. CASE Handle(r)
  <2>1. row' \in [Requests -> Row]
    BY <1>7 DEF Handle, Row
  <2> QED
    BY <1>7, <2>1, GotoTypes DEF Handle, Claimed
<1>8. CASE Store(r)
  <2> DEFINE until == clock + CompletedTtl
  <2>1. until \in Int
    BY ConstantsAssumption
  <2> DEFINE new  == [row[r] EXCEPT !.status = "completed",
                                    !.expiresAt = until]
             next == [request[r] EXCEPT !.pc = "result", !.of = r]
  <2>2. \/ UNCHANGED row /\ Goto(r, "error")
        \/ /\ row' = [row EXCEPT ![r] = new]
           /\ request' = [request EXCEPT ![r] = next]
    BY <1>8 DEF Store
  <2> HIDE DEF until
  <2>5. new \in Row
    BY <2>1 DEF Row
  <2>6. next \in Request
    BY DEF Request, Answer
  <2> HIDE DEF new, next
  <2>3. row' \in [Requests -> Row]
    BY <2>2, <2>5
  <2>4. request' \in [Requests -> Request]
    BY <2>2, <2>6, GotoTypes DEF Answer
  <2> QED
    BY <1>8, <2>3, <2>4 DEF Store
<1>9. CASE Discard(r)
  BY <1>9, GotoTypes DEF Discard, Answer
<1> QED
  BY <1>1, <1>2, <1>3, <1>4, <1>5, <1>6, <1>7, <1>8, <1>9 DEF Step

LEMMA NextTypes == TypeOK /\ [Next]_vars => TypeOK'
<1> SUFFICES ASSUME TypeOK, [Next]_vars PROVE TypeOK'
  OBVIOUS
<1>1. CASE Tick
  BY <1>1 DEF Tick, TypeOK
<1>2. ASSUME NEW r \in Requests, Step(r) PROVE TypeOK'
  BY <1>2, StepTypes
<1>3. ASSUME NEW r \in Requests, WriteFails(r) PROVE TypeOK'
  BY <1>3 DEF WriteFails, Goto, TypeOK, Request, Answer
<1>4. ASSUME NEW r \in Requests, Crash(r) PROVE TypeOK'
  BY <1>4 DEF Crash, Goto, TypeOK, Request
<1>5. CASE UNCHANGED vars
  BY <1>5 DEF vars, TypeOK
<1> QED
  BY <1>1, <1>2, <1>3, <1>4, <1>5 DEF Next

\* Requests and rows hold values of their types in every behaviour.
THEOREM IdempotencyTypes == Spec => []TypeOK
<1> QED BY InitTypes, NextTypes, PTL DEF Spec

-----------------------------------------------------------------------------
(* The invariant.                                                          *)

LEMMA InitClaims == Init => ClaimInv
BY DEF Init, ClaimInv, PlaceInv, PlaceOf, OrderInv, AnswerInv, ReplayMatchesRequest,
       Counts, At, Unclaimed, Claimed

\* The fields that the invariants read, with their types.
LEMMA Fields ==
  ASSUME TypeOK, NEW r \in Requests
  PROVE  /\ request[r].now \in Int /\ row[r].worked \in BOOLEAN
         /\ row[r].expiresAt \in Int /\ row[r].insertedAt \in Int
         /\ row[r].status \in {"none", "pending", "completed"}
BY DEF TypeOK, Row, Request

\* What moving a request, or answering it, leaves alone.
LEMMA GotoEffect ==
  ASSUME TypeOK, NEW r \in Requests, NEW pc, Goto(r, pc)
  PROVE  /\ request'[r].pc = pc
         /\ request'[r].now = request[r].now
         /\ request'[r].fingerprint = request[r].fingerprint
         /\ request'[r].seen = request[r].seen
         /\ request'[r].seenDone = request[r].seenDone
         /\ request'[r].of = request[r].of
         /\ \A q \in Requests \ {r} : request'[q] = request[q]
BY DEF TypeOK, Request, Goto

LEMMA ReplayEffect ==
  ASSUME TypeOK, NEW r \in Requests, NEW s, Replay(r, s)
  PROVE  /\ request'[r].pc = "replay" /\ request'[r].of = s
         /\ request'[r].now = request[r].now
         /\ request'[r].fingerprint = request[r].fingerprint
         /\ \A q \in Requests \ {r} : request'[q] = request[q]
BY DEF TypeOK, Request, Replay

\* What find makes of a request: it goes on to insert again, is refused,
\* remembers the expired row, or is answered.
LEMMA FindEffect ==
  ASSUME TypeOK, NEW r \in Requests, Find(r)
  PROVE  /\ request[r].pc = "find"
         /\ request'[r].now = request[r].now
         /\ request'[r].fingerprint = request[r].fingerprint
         /\ \A q \in Requests \ {r} : request'[q] = request[q]
         /\ UNCHANGED <<clock, live, row, faultsLeft>>
         /\ \/ request'[r].pc \in {"reinsert", "conflict"}
            \/ /\ request'[r].pc = "replace" /\ request'[r].seen = live
               /\ request'[r].seenDone = (row[live].status = "completed")
               /\ live # None /\ SameFingerprint(r, live)
            \/ /\ request'[r].pc = "replay" /\ request'[r].of = live
               /\ row[live].status = "completed"
               /\ live # None /\ SameFingerprint(r, live)
<1>1. CASE Goto(r, "reinsert") \/ Goto(r, "conflict")
  BY <1>1, GotoEffect DEF Find, At
<1>2. CASE Replay(r, live) /\ live # None /\ SameFingerprint(r, live)
             /\ row[live].status = "completed"
  BY <1>2, ReplayEffect DEF Find, At
<1>3. CASE /\ live # None /\ SameFingerprint(r, live)
           /\ request' = [request EXCEPT ![r] =
                [request[r] EXCEPT !.pc = "replace", !.seen = live,
                   !.seenDone = (row[live].status = "completed")]]
  <2> DEFINE done == row[live].status = "completed"
             next == [request[r] EXCEPT !.pc = "replace", !.seen = live,
                                        !.seenDone = done]
  <2>1. request' = [request EXCEPT ![r] = next]
    BY <1>3
  <2> HIDE DEF done
  <2>2. /\ next.pc = "replace" /\ next.seen = live /\ next.seenDone = done
        /\ next.now = request[r].now
        /\ next.fingerprint = request[r].fingerprint
    BY DEF TypeOK, Request
  <2> HIDE DEF next
  <2>3. request'[r] = next /\ \A q \in Requests \ {r} : request'[q] = request[q]
    BY <2>1 DEF TypeOK
  <2> QED
    BY <1>3, <2>2, <2>3 DEF Find, At, done
<1> QED
  BY <1>1, <1>2, <1>3 DEF Find

\* What replace makes of it.
LEMMA ReplaceEffect ==
  ASSUME TypeOK, NEW r \in Requests, Replace(r)
  PROVE  /\ request[r].pc = "replace"
         /\ request'[r].now = request[r].now
         /\ request'[r].fingerprint = request[r].fingerprint
         /\ \A q \in Requests \ {r} : request'[q] = request[q]
         /\ UNCHANGED <<clock, row, faultsLeft>>
         /\ \/ /\ live' = None /\ request'[r].pc = "reinsert"
               /\ live = request[r].seen /\ ExpiredFor(live, request[r].now)
            \/ /\ live' = live /\ request'[r].pc = "conflict"
            \/ /\ live' = live /\ request'[r].pc = "replay"
               /\ request'[r].of = request[r].seen /\ request[r].seenDone
<1>1. CASE live = request[r].seen /\ ExpiredFor(live, request[r].now)
  BY <1>1, GotoEffect DEF Replace, At
<1>2. CASE ~(live = request[r].seen /\ ExpiredFor(live, request[r].now))
  <2>1. \/ request[r].seenDone /\ Replay(r, request[r].seen)
        \/ Goto(r, "conflict")
    BY <1>2 DEF Replace
  <2> QED
    BY <1>2, <2>1, ReplayEffect, GotoEffect DEF Replace, At
<1> QED
  BY <1>1, <1>2

\* What the handler makes of its row.
LEMMA HandleEffect ==
  ASSUME TypeOK, NEW r \in Requests, Handle(r)
  PROVE  /\ request[r].pc = "handle"
         /\ request'[r].now = request[r].now
         /\ request'[r].fingerprint = request[r].fingerprint
         /\ \A q \in Requests \ {r} :
              request'[q] = request[q] /\ row'[q] = row[q]
         /\ UNCHANGED <<clock, live, faultsLeft>>
         /\ row'[r].status = row[r].status
         /\ row'[r].expiresAt = row[r].expiresAt
         /\ row'[r].insertedAt = row[r].insertedAt
         /\ \/ request'[r].pc = "store" /\ row'[r].worked
            \/ request'[r].pc = "discard" /\ row'[r] = row[r]
<1>1. CASE row' = [row EXCEPT ![r].worked = TRUE] /\ Goto(r, "store")
  <2>1. /\ row'[r].status = row[r].status
        /\ row'[r].expiresAt = row[r].expiresAt
        /\ row'[r].insertedAt = row[r].insertedAt
        /\ row'[r].worked
        /\ \A q \in Requests \ {r} : row'[q] = row[q]
    BY <1>1 DEF TypeOK, Row
  <2> QED
    BY <1>1, <2>1, GotoEffect DEF Handle, At
<1>2. CASE UNCHANGED row /\ Goto(r, "discard")
  BY <1>2, GotoEffect DEF Handle, At
<1> QED
  BY <1>1, <1>2 DEF Handle

\* What storing the response makes of it.
LEMMA StoreEffect ==
  ASSUME TypeOK, NEW r \in Requests, Store(r)
  PROVE  /\ request[r].pc = "store"
         /\ request'[r].now = request[r].now
         /\ request'[r].fingerprint = request[r].fingerprint
         /\ request'[r].pc \in {"result", "error"}
         /\ \A q \in Requests \ {r} :
              request'[q] = request[q] /\ row'[q] = row[q]
         /\ UNCHANGED <<clock, live, faultsLeft>>
         /\ row'[r].worked = row[r].worked
         /\ row'[r].insertedAt = row[r].insertedAt
         /\ \/ /\ live = r /\ row'[r].status = "completed"
               /\ row'[r].expiresAt = clock + CompletedTtl
            \/ row'[r] = row[r]
<1>1. CASE /\ live = r
           /\ row' = [row EXCEPT ![r] =
                [row[r] EXCEPT !.status = "completed",
                               !.expiresAt = clock + CompletedTtl]]
           /\ request' = [request EXCEPT ![r] =
                [request[r] EXCEPT !.pc = "result", !.of = r]]
  <2>1. /\ row'[r].status = "completed" /\ row'[r].worked = row[r].worked
        /\ row'[r].expiresAt = clock + CompletedTtl
        /\ row'[r].insertedAt = row[r].insertedAt
        /\ \A q \in Requests \ {r} : row'[q] = row[q]
    BY <1>1 DEF TypeOK, Row
  <2>2. /\ request'[r].now = request[r].now /\ request'[r].pc = "result"
        /\ request'[r].fingerprint = request[r].fingerprint
        /\ \A q \in Requests \ {r} : request'[q] = request[q]
    BY <1>1 DEF TypeOK, Request
  <2> QED
    BY <1>1, <2>1, <2>2 DEF Store, At
<1>2. CASE UNCHANGED row /\ Goto(r, "error")
  BY <1>2, GotoEffect DEF Store, At
<1> QED
  BY <1>1, <1>2 DEF Store

LEMMA NextPlaces == TypeOK /\ PlaceInv /\ [Next]_vars => PlaceInv'
<1> SUFFICES ASSUME TypeOK, PlaceInv, [Next]_vars, NEW q \in Requests
             PROVE  PlaceOf(q)'
  BY DEF PlaceInv
<1>q. PlaceOf(q)
  BY DEF PlaceInv
<1> USE DEF PlaceOf, At, Unclaimed, Claimed
<1>1. CASE Tick
  BY <1>1, <1>q, Fields DEF Tick, TypeOK
<1>2. ASSUME NEW r \in Requests, Step(r) PROVE PlaceOf(q)'
  <2>1. CASE Arrive(r)
    <3>1. /\ request'[r].pc = "prune" /\ request'[r].now = clock
          /\ \A p \in Requests \ {r} : request'[p] = request[p]
      BY <2>1 DEF Arrive, TypeOK, Request
    <3> QED
      BY <2>1, <3>1, <1>q DEF Arrive, TypeOK
  <2>2. CASE Prune(r)
    BY <2>2, <1>q, GotoEffect DEF Prune
  <2>3. CASE Insert(r)
    BY <2>3, <1>q, GotoEffect DEF Insert, Claim, TypeOK
  <2>4. CASE Find(r)
    BY <2>4, <1>q, FindEffect
  <2>5. CASE Replace(r)
    BY <2>5, <1>q, ReplaceEffect
  <2>6. CASE Reinsert(r)
    BY <2>6, <1>q, GotoEffect DEF Reinsert, Claim, TypeOK
  <2>7. CASE Handle(r)
    BY <2>7, <1>q, HandleEffect
  <2>8. CASE Store(r)
    BY <2>8, <1>q, StoreEffect
  <2>9. CASE Discard(r)
    BY <2>9, <1>q, GotoEffect DEF Discard
  <2> QED
    BY <1>2, <2>1, <2>2, <2>3, <2>4, <2>5, <2>6, <2>7, <2>8, <2>9 DEF Step
<1>3. ASSUME NEW r \in Requests, WriteFails(r) \/ Crash(r) PROVE PlaceOf(q)'
  BY <1>3, <1>q, GotoEffect DEF WriteFails, Crash
<1>4. CASE UNCHANGED vars
  BY <1>4, <1>q DEF vars
<1> QED
  BY <1>1, <1>2, <1>3, <1>4 DEF Next

\* A new claim starts after every claim that still counts has expired.
LEMMA ClaimOrders ==
  ASSUME TypeOK, PlaceInv, OrderInv, NEW r \in Requests, NEW now \in Int,
         live = None, request[r].pc \in {"insert", "reinsert"},
         Claim(r, now), UNCHANGED clock
  PROVE  OrderInv'
<1>1. \A s \in Requests : Counts(s) => row[s].expiresAt <= clock
  BY ConstantsAssumption DEF OrderInv
<1>2. /\ row'[r].insertedAt = clock /\ row'[r].status = "pending"
      /\ \A s \in Requests \ {r} :
           row'[s] = row[s] /\ request'[s] = request[s]
  BY DEF Claim, Goto, TypeOK
<1>3. \A s \in Requests \ {r} : Counts(s)' = Counts(s)
  BY <1>2 DEF Counts
<1> QED
  BY <1>1, <1>2, <1>3, ConstantsAssumption DEF OrderInv, Claim, TypeOK, Row

LEMMA NextOrder ==
  TypeOK /\ PlaceInv /\ OrderInv /\ [Next]_vars => OrderInv'
<1> SUFFICES ASSUME TypeOK, PlaceInv, OrderInv, [Next]_vars PROVE OrderInv'
  OBVIOUS
<1> USE ConstantsAssumption DEF TypeOK
\* Steps that leave the rows alone and let no further claim count.
<1>1. ASSUME UNCHANGED row, clock' = clock \/ clock' = clock + 1,
             \A s \in Requests : Counts(s)' => Counts(s),
             \/ live' = live
             \/ /\ live' = None
                /\ \A s \in Requests : live = s =>
                     row[s].expiresAt <= clock \/ ~Counts(s)'
      PROVE  OrderInv'
  BY <1>1 DEF OrderInv, Row
<1>2. CASE Tick
  BY <1>1, <1>2 DEF Tick, Counts
<1>3. ASSUME NEW r \in Requests, Step(r) PROVE OrderInv'
  <2>1. CASE Arrive(r)
    BY <1>1, <2>1 DEF Arrive, Counts
  <2>2. CASE Prune(r)
    <3>1. live' = live \/ (live' = None /\ row[live].expiresAt <= clock)
      BY <2>2, Fields DEF Prune, ExpiredFor, PlaceInv, PlaceOf
    <3> QED
      BY <1>1, <2>2, <3>1, GotoEffect DEF Prune, Counts, At
  <2>3. CASE Insert(r)
    <3>1. request[r].now \in Int
      BY Fields
    <3>2. CASE live = None
      BY <2>3, <3>1, <3>2, ClaimOrders DEF Insert, At
    <3>3. CASE live # None
      BY <1>1, <2>3, <3>3, GotoEffect DEF Insert, Counts
    <3> QED BY <3>2, <3>3
  <2>4. CASE Find(r)
    BY <1>1, <2>4, FindEffect DEF Counts
  <2>5. CASE Replace(r)
    <3>1. live' = live \/ (live' = None /\ row[live].expiresAt <= clock)
      BY <2>5, ReplaceEffect, Fields DEF ExpiredFor, PlaceInv, PlaceOf
    <3> QED
      BY <1>1, <2>5, <3>1, ReplaceEffect DEF Counts
  <2>6. CASE Reinsert(r)
    <3>1. CASE live = None
      BY <2>6, <3>1, ClaimOrders DEF Reinsert, At
    <3>2. CASE live # None
      BY <1>1, <2>6, <3>2, GotoEffect DEF Reinsert, Counts
    <3> QED BY <3>1, <3>2
  <2>7. CASE Handle(r)
    <3>1. \A s \in Requests : Counts(s)' => Counts(s)
      BY <2>7, HandleEffect DEF Counts
    <3>2. \A s \in Requests : /\ row'[s].expiresAt = row[s].expiresAt
                              /\ row'[s].insertedAt = row[s].insertedAt
                              /\ row'[s].status = row[s].status
      BY <2>7, HandleEffect
    <3>3. clock' = clock /\ live' = live
      BY <2>7, HandleEffect
    <3> QED
      BY <3>1, <3>2, <3>3 DEF OrderInv
  <2>8. CASE Store(r)
    <3>1. \A s \in Requests : Counts(s)' => Counts(s)
      BY <2>8, StoreEffect DEF Counts
    <3>2. clock' = clock /\ live' = live
      BY <2>8, StoreEffect
    <3>3. \A s \in Requests : row'[s].insertedAt = row[s].insertedAt
      BY <2>8, StoreEffect
    <3>4. \A s \in Requests \ {r} : row'[s] = row[s]
      BY <2>8, StoreEffect
    <3>5. CASE row'[r] = row[r]
      BY <3>1, <3>2, <3>4, <3>5 DEF OrderInv
    <3>6. CASE live = r /\ row'[r].status = "completed"
      <4>1. \A s \in Requests \ {r} : Counts(s) =>
              row[r].insertedAt >= row[s].expiresAt
        BY <3>6 DEF OrderInv
      <4> QED
        BY <3>1, <3>2, <3>3, <3>4, <3>6, <4>1 DEF OrderInv
    <3> QED BY <2>8, <3>5, <3>6, StoreEffect
  <2>9. CASE Discard(r)
    <3>1. live' = live \/ (live' = None /\ live = r)
      BY <2>9 DEF Discard
    <3>2. ~row[r].worked /\ request'[r].pc = "error"
      BY <2>9, GotoEffect DEF Discard, PlaceInv, PlaceOf, At
    <3> QED
      BY <1>1, <2>9, <3>1, <3>2, GotoEffect DEF Discard, Counts
  <2> QED
    BY <1>3, <2>1, <2>2, <2>3, <2>4, <2>5, <2>6, <2>7, <2>8, <2>9 DEF Step
<1>4. ASSUME NEW r \in Requests, WriteFails(r) \/ Crash(r) PROVE OrderInv'
  BY <1>1, <1>4, GotoEffect DEF WriteFails, Crash, Counts
<1>5. CASE UNCHANGED vars
  BY <1>1, <1>5 DEF vars, Counts
<1> QED
  BY <1>2, <1>3, <1>4, <1>5 DEF Next


\* A stored response is never taken back, and no request is renamed.
LEMMA ResponsesStay ==
  ASSUME TypeOK, PlaceInv, [Next]_vars
  PROVE  \A s \in Requests :
           /\ row[s].worked => row'[s].worked
           /\ row[s].status = "completed" => row'[s].status = "completed"
           /\ request'[s].fingerprint = request[s].fingerprint
<1> USE DEF TypeOK
<1>1. CASE Tick
  BY <1>1 DEF Tick
<1>2. ASSUME NEW r \in Requests, Step(r)
      PROVE  \A s \in Requests :
               /\ row[s].worked => row'[s].worked
               /\ row[s].status = "completed" => row'[s].status = "completed"
               /\ request'[s].fingerprint = request[s].fingerprint
  <2>1. CASE Arrive(r) \/ Prune(r) \/ Find(r) \/ Replace(r) \/ Discard(r)
    <3>1. UNCHANGED row
      BY <2>1 DEF Arrive, Prune, Find, Replace, Discard
    <3>2. \A s \in Requests : request'[s].fingerprint = request[s].fingerprint
      <4>1. CASE Arrive(r)
        BY <4>1 DEF Arrive, Request
      <4> QED
        BY <2>1, <4>1, GotoEffect, FindEffect, ReplaceEffect
           DEF Prune, Discard
    <3> QED BY <3>1, <3>2
  <2>2. CASE Insert(r) \/ Reinsert(r)
    <3>1. Goto(r, "handle") \/ Goto(r, "find") \/ Goto(r, "conflict")
      BY <2>2 DEF Insert, Reinsert, Claim
    <3>2. \A s \in Requests \ {r} : row'[s] = row[s]
      BY <2>2 DEF Insert, Reinsert, Claim
    <3>3. row[r].status = "none" /\ ~row[r].worked
      BY <2>2 DEF Insert, Reinsert, PlaceInv, PlaceOf, Unclaimed, At
    <3> QED BY <3>1, <3>2, <3>3, GotoEffect
  <2>3. CASE Handle(r) \/ Store(r)
    BY <2>3, HandleEffect, StoreEffect
  <2> QED
    BY <1>2, <2>1, <2>2, <2>3 DEF Step
<1>3. ASSUME NEW r \in Requests, WriteFails(r) \/ Crash(r)
      PROVE  UNCHANGED row /\ \A s \in Requests :
               request'[s].fingerprint = request[s].fingerprint
  BY <1>3, GotoEffect DEF WriteFails, Crash
<1>4. CASE UNCHANGED vars
  BY <1>4 DEF vars
<1> QED
  BY <1>1, <1>2, <1>3, <1>4 DEF Next

LEMMA NextAnswers ==
  TypeOK /\ ClaimInv /\ [Next]_vars => AnswerInv'
<1> SUFFICES ASSUME TypeOK, ClaimInv, [Next]_vars PROVE AnswerInv'
  OBVIOUS
<1> USE ConstantsAssumption DEF TypeOK, ClaimInv
<1>1. \A s \in Requests :
        /\ row[s].worked => row'[s].worked
        /\ row[s].status = "completed" => row'[s].status = "completed"
        /\ request'[s].fingerprint = request[s].fingerprint
  BY ResponsesStay
\* Requests whose place or memory did not change.
<1>2. ASSUME NEW s \in Requests,
             request'[s] = request[s] \/ request'[s].pc \notin
                                           {"replay", "replace"}
      PROVE  /\ At(s, "replay")' =>
                  LET t == request'[s].of IN
                    /\ t \in Requests \ {s}
                    /\ row'[t].worked /\ row'[t].status = "completed"
                    /\ request'[t].fingerprint = request'[s].fingerprint
             /\ At(s, "replace")' =>
                  /\ request'[s].seen \in Requests \ {s}
                  /\ request'[request'[s].seen].fingerprint
                       = request'[s].fingerprint
                  /\ request'[s].seenDone =>
                       row'[request'[s].seen].status = "completed"
  BY <1>1, <1>2 DEF AnswerInv, ReplayMatchesRequest, At
<1>3. ASSUME \A s \in Requests :
               request'[s] = request[s] \/ request'[s].pc \notin
                                             {"replay", "replace"}
      PROVE  AnswerInv'
  BY <1>2, <1>3 DEF AnswerInv, ReplayMatchesRequest
<1>4. CASE Tick
  BY <1>3, <1>4 DEF Tick
<1>5. ASSUME NEW r \in Requests, Step(r) PROVE AnswerInv'
  <2>1. CASE Arrive(r) \/ Prune(r) \/ Insert(r) \/ Reinsert(r) \/ Handle(r)
               \/ Store(r) \/ Discard(r)
    <3>1. \A s \in Requests \ {r} : request'[s] = request[s]
      <4>1. CASE Arrive(r)
        BY <4>1 DEF Arrive
      <4> QED
        BY <2>1, <4>1, GotoEffect, HandleEffect, StoreEffect
           DEF Prune, Insert, Reinsert, Claim, Discard
    <3>2. request'[r].pc \notin {"replay", "replace"}
      <4>1. CASE Arrive(r)
        BY <4>1 DEF Arrive, Request
      <4> QED
        BY <2>1, <4>1, GotoEffect, HandleEffect, StoreEffect
           DEF Prune, Insert, Reinsert, Claim, Discard
    <3> QED BY <1>3, <3>1, <3>2
  <2>2. CASE Find(r)
    <3>1. live # None => live \in Requests \ {r}
      BY <2>2 DEF Find, At, PlaceInv, PlaceOf, OrderInv, Unclaimed
    <3>2. \A s \in Requests \ {r} : request'[s] = request[s]
      BY <2>2, FindEffect
    <3>3. /\ At(r, "replay")' =>
               /\ live # None /\ request'[r].of = live
               /\ row'[live].worked /\ row'[live].status = "completed"
               /\ request[live].fingerprint = request[r].fingerprint
          /\ At(r, "replace")' =>
               /\ live # None /\ request'[r].seen = live
               /\ request'[r].seenDone => row'[live].status = "completed"
               /\ request[live].fingerprint = request[r].fingerprint
      BY <2>2, <3>1, FindEffect DEF At, SameFingerprint, PlaceInv, PlaceOf
    <3> QED
      BY <1>1, <1>2, <3>1, <3>2, <3>3
         DEF AnswerInv, ReplayMatchesRequest, At
  <2>3. CASE Replace(r)
    <3>1. \A s \in Requests \ {r} : request'[s] = request[s]
      BY <2>3, ReplaceEffect
    <3>2. /\ ~At(r, "replace")'
          /\ At(r, "replay")' =>
               /\ request'[r].of = request[r].seen
               /\ row[request[r].seen].status = "completed"
               /\ request[r].seen \in Requests \ {r}
               /\ request[request[r].seen].fingerprint = request[r].fingerprint
      BY <2>3, ReplaceEffect DEF At, AnswerInv
    <3> QED
      BY <1>1, <1>2, <3>1, <3>2
         DEF AnswerInv, ReplayMatchesRequest, At, PlaceInv, PlaceOf
  <2> QED
    BY <1>5, <2>1, <2>2, <2>3 DEF Step
<1>6. ASSUME NEW r \in Requests, WriteFails(r) \/ Crash(r) PROVE AnswerInv'
  BY <1>3, <1>6, GotoEffect DEF WriteFails, Crash
<1>7. CASE UNCHANGED vars
  BY <1>3, <1>7 DEF vars
<1> QED
  BY <1>4, <1>5, <1>6, <1>7 DEF Next

\* ClaimInv holds in every behaviour.
THEOREM Claims == Spec => [](TypeOK /\ ClaimInv)
<1>1. Init => TypeOK /\ ClaimInv
  BY InitTypes, InitClaims
<1>2. TypeOK /\ ClaimInv /\ [Next]_vars => TypeOK' /\ ClaimInv'
  BY NextTypes, NextPlaces, NextOrder, NextAnswers DEF ClaimInv
<1> QED BY <1>1, <1>2, PTL DEF Spec

-----------------------------------------------------------------------------
\* The work of a key is not repeated within the retention window, for every
\* number of requests, every retention time and every fault.
THEOREM NoRepeatedWork == Spec => []WorkIsNotRepeated
<1>1. ClaimInv => WorkIsNotRepeated
  BY DEF ClaimInv, OrderInv, Counts, WorkIsNotRepeated
<1> QED BY <1>1, Claims, PTL

\* A replay answers the request it was stored for.
THEOREM ReplaysMatch == Spec => []ReplayMatchesRequest
<1>1. ClaimInv => ReplayMatchesRequest
  BY DEF ClaimInv, AnswerInv
<1> QED BY <1>1, Claims, PTL

\* Overlapping handlers mean an expired claim.
THEOREM Overlaps == Spec => []OverlapNeedsExpiry
<1>1. TypeOK /\ ClaimInv => OverlapNeedsExpiry
  BY DEF ClaimInv, OrderInv, Counts, OverlapNeedsExpiry, At
<1> QED BY <1>1, Claims, PTL

\* No request deletes a claim that is neither expired nor its own failed one.
THEOREM RowsAreKept == Spec => RowIsKept
<1>1. TypeOK /\ ClaimInv /\ [Next]_vars =>
        [\A r \in Requests : live = r /\ live' # r =>
           row[r].expiresAt <= clock \/ At(r, "discard")]_vars
  <2> SUFFICES ASSUME TypeOK, ClaimInv, Next, NEW r \in Requests,
                      live = r, live' # r
               PROVE  row[r].expiresAt <= clock \/ At(r, "discard")
    OBVIOUS
  <2> USE ConstantsAssumption DEF TypeOK
  <2>1. PICK q \in Requests : Step(q)
    BY DEF Next, Tick, WriteFails, Crash
  <2>2. CASE Prune(q) \/ Replace(q)
    BY <2>2 DEF Prune, Replace, ExpiredFor, ClaimInv, PlaceInv, PlaceOf, Row, Request
  <2>3. CASE Discard(q)
    BY <2>3 DEF Discard
  <2> QED
    BY <2>1, <2>2, <2>3 DEF Step, Arrive, Insert, Find, Reinsert, Claim,
                            Handle, Store
<1> QED BY <1>1, Claims, PTL DEF Spec, RowIsKept

-----------------------------------------------------------------------------
(* The catalogue.  What a board withdrew disappears because each row was   *)
(* seen no later than its posting was listed, up to the time a write may   *)
(* take: the invariant follows a posting from the answer of the board      *)
(* (WorkOK) to the row that is written from it (SeenInv).                  *)

JobRow == [status: {"absent", "active", "deactivated"}, seen: Nat,
           by: Moderators \cup {NoOne}]

\* What a worker keeps in front: a board, or a posting it is about to write.
Item == ToSet(Boards) \cup Listings

Work == [pc: {"idle", "fetch", "sent", "find", "write", "written"},
         left: Seq(Item), batch: SUBSET Listings, creates: BOOLEAN, since: Nat]

CatalogueTypes ==
  /\ hour \in Nat
  /\ listed \in SUBSET Listings
  /\ lastListed \in [Listings -> Nat]
  /\ job \in [Postings -> JobRow]
  /\ ingest \in [Workers -> Work]
  /\ startedAt \in Nat /\ lastRefreshAt \in Nat

LEMMA Bounds ==
  /\ Ttl \in Nat /\ MaxAge \in Nat /\ Slow \in Nat
  /\ Boards \in Seq(Item)
  /\ \A b \in ToSet(Boards) : <<b>> \in Seq(Item)
  /\ Listings \cap Captures = {}
  <1>1. ToSet(Boards) \subseteq Item
    BY DEF Item
  <1> QED
    BY <1>1, CatalogueConstants

\* A worker at rest is well typed, and so is one that begins with some boards.
LEMMA RestingTypes ==
  /\ Resting \in Work
  /\ Resting.pc = "idle" /\ Resting.batch = {}
  BY DEF Resting, Work

LEMMA BeginTypes ==
  ASSUME NEW left \in Seq(Item)
  PROVE  LET r == [Resting EXCEPT !.pc = "fetch", !.left = left]
         IN  r \in Work /\ r.pc = "fetch" /\ r.batch = {} /\ r.left = left
  BY DEF Resting, Work

\* A posting in front of the boards that are left.
LEMMA InFront ==
  ASSUME NEW p \in Item, NEW left \in Seq(Item)
  PROVE  /\ <<p>> \o left \in Seq(Item)
         /\ <<p>> \o left # <<>>
         /\ Head(<<p>> \o left) = p
         /\ Tail(<<p>> \o left) = left
  <1>1. <<p>> \in Seq(Item)
    OBVIOUS
  <1>2. <<p>> \o left \in Seq(Item) /\ Len(<<p>> \o left) = 1 + Len(left)
    BY <1>1, ConcatProperties
  <1>3. <<p>> \o left # <<>> /\ Head(<<p>> \o left) = p
    BY <1>1, <1>2, ConcatProperties
  <1>4. Tail(<<p>> \o left) = left
    <2> DEFINE s == <<p>> \o left
               t == Tail(s)
    <2>1. /\ t \in Seq(Item) /\ Len(t) = Len(left)
          /\ \A i \in 1..Len(left) : t[i] = s[i + 1]
      BY <1>2, <1>3, HeadTailProperties
    <2>2. \A i \in 1..Len(left) : s[i + 1] = left[i]
      BY <1>1, ConcatProperties
    <2> HIDE DEF t, s
    <2> QED
      BY <2>1, <2>2, SeqEqual
  <1> QED
    BY <1>2, <1>3, <1>4

\* What follows a board is rest or the next one.
LEMMA NextBoardTypes ==
  ASSUME NEW w \in Workers, ingest[w] \in Work, ingest[w].left # <<>>
  PROVE  /\ NextBoard(w) \in Work
         /\ NextBoard(w).batch = {}
         /\ \/ NextBoard(w) = Resting
            \/ NextBoard(w).pc = "fetch" /\ NextBoard(w).left # <<>>
  <1>1. Tail(ingest[w].left) \in Seq(Item)
    BY DEF Work
  <1> QED
    BY <1>1, RestingTypes, BeginTypes DEF NextBoard

-----------------------------------------------------------------------------
(* The invariant.                                                          *)

\* While it works on a board, a worker has it in front of what is left, or
\* the posting it is about to write in front of it; and what it read was
\* listed when it was read, no longer than Slow ago.
WorkOK(r, now, when) ==
  /\ r.pc \in {"fetch", "sent", "find", "written"} => r.left # <<>>
  /\ r.pc = "write" => /\ r.left # <<>> /\ Tail(r.left) # <<>>
                       /\ Head(r.left) \in r.batch
  /\ r.batch # {} => /\ r.since <= now /\ now <= r.since + Slow
                     /\ \A p \in r.batch : r.since <= when[p]

WorkInv == \A w \in Workers : WorkOK(ingest[w], hour, lastListed)

\* What is listed now was listed last now, and nothing later.
ListedInv ==
  \A p \in Listings :
    lastListed[p] <= hour /\ (p \in listed => lastListed[p] = hour)

\* No row was seen later than its posting was listed, but for a slow write.
SeenInv == \A p \in Listings : job[p].seen <= lastListed[p] + Slow

\* Between two refreshes it is remembered when the last one began.
RestInv == Doing("refresh", "idle") => lastRefreshAt = startedAt

CatalogueInv ==
  /\ CatalogueTypes
  /\ WorkInv
  /\ ListedInv
  /\ SeenInv
  /\ RestInv

LEMMA RestingOK == \A now, when : WorkOK(Resting, now, when)
  BY RestingTypes DEF WorkOK

LEMMA InitCatalogue == CatalogueInit => CatalogueInv
  <1> SUFFICES ASSUME CatalogueInit PROVE CatalogueInv
    OBVIOUS
  <1> USE Bounds DEF CatalogueInit
  <1>1. CatalogueTypes
    BY RestingTypes DEF CatalogueTypes, Absent, JobRow
  <1>2. WorkInv
    BY RestingOK DEF WorkInv
  <1>3. ListedInv
    BY DEF ListedInv
  <1>4. SeenInv
    BY DEF SeenInv, Absent, Postings
  <1>5. RestInv
    BY DEF RestInv
  <1> QED
    BY <1>1, <1>2, <1>3, <1>4, <1>5 DEF CatalogueInv

\* A step of one worker that leaves the clock and the rows alone.
LEMMA PutWork ==
  ASSUME CatalogueInv, NEW w \in Workers, NEW r \in Work,
         WorkOK(r, hour, lastListed), ingest' = [ingest EXCEPT ![w] = r],
         UNCHANGED <<hour, listed, lastListed, startedAt>>,
         job' = job,
         lastRefreshAt' \in {lastRefreshAt, startedAt},
         w = "refresh" /\ r.pc = "idle" => lastRefreshAt' = startedAt,
         w # "refresh" => lastRefreshAt' = lastRefreshAt
  PROVE  CatalogueInv'
  <1> USE DEF CatalogueInv, CatalogueTypes
  <1>1. CatalogueTypes'
    OBVIOUS
  <1>2. WorkInv'
    BY DEF WorkInv
  <1>3. ListedInv' /\ SeenInv'
    BY DEF ListedInv, SeenInv
  <1>4. RestInv'
    BY DEF RestInv, Doing, Workers
  <1> QED
    BY <1>1, <1>2, <1>3, <1>4

\* The end of a board.
LEMMA LeaveInv ==
  ASSUME CatalogueInv, NEW w \in Workers, ingest[w].left # <<>>,
         LeaveBoard(w), UNCHANGED <<hour, listed, lastListed, startedAt, job>>
  PROVE  CatalogueInv'
  <1>1. ingest[w] \in Work
    BY DEF CatalogueInv, CatalogueTypes
  <1> DEFINE r == NextBoard(w)
  <1>2. /\ r \in Work
        /\ r.batch = {}
        /\ r = Resting \/ (r.pc = "fetch" /\ r.left # <<>>)
    BY <1>1, NextBoardTypes
  <1>3. WorkOK(r, hour, lastListed)
    BY <1>2, RestingOK DEF WorkOK
  <1>4. /\ ingest' = [ingest EXCEPT ![w] = r]
        /\ lastRefreshAt' = IF r = Resting /\ w = "refresh" THEN startedAt
                            ELSE lastRefreshAt
    BY DEF LeaveBoard, Remembered
  <1> HIDE DEF r
  <1> QED
    BY <1>2, <1>3, <1>4, PutWork

\* A worker that moves on within a board changes its own record only.
LEMMA MoveInv ==
  ASSUME CatalogueInv, NEW w \in Workers, NEW r \in Work,
         WorkOK(r, hour, lastListed), ingest' = [ingest EXCEPT ![w] = r],
         r.pc # "idle",
         UNCHANGED <<hour, listed, lastListed, startedAt, job, lastRefreshAt>>
  PROVE  CatalogueInv'
  BY PutWork

\* A row that is written was seen now; nothing else of an old one changes.
LEMMA RowWritten ==
  ASSUME CatalogueTypes, SeenInv, NEW p \in Postings,
         job' = [job EXCEPT ![p] = IF @ = Absent THEN Created ELSE Observed(@)],
         lastListed' = lastListed,
         p \in Listings => hour <= lastListed[p] + Slow
  PROVE  job' \in [Postings -> JobRow] /\ SeenInv'
  <1>1. Created \in JobRow /\ Created.seen = hour
    BY DEF Created, JobRow, CatalogueTypes
  <1>2. Observed(job[p]) \in JobRow /\ Observed(job[p]).seen = hour
    BY DEF Observed, JobRow, CatalogueTypes
  <1>3. /\ job'[p].seen = hour
        /\ \A q \in Postings \ {p} : job'[q] = job[q]
    BY <1>1, <1>2 DEF CatalogueTypes
  <1>4. job' \in [Postings -> JobRow]
    BY <1>1, <1>2 DEF CatalogueTypes
  <1>5. SeenInv'
    BY <1>3 DEF SeenInv, Postings
  <1> QED
    BY <1>4, <1>5

\* A step of a refresh or of a command.
LEMMA IngestInv ==
  ASSUME CatalogueInv, NEW w \in Workers, IngestStep(w)
  PROVE  CatalogueInv'
  <1> USE DEF Doing
  <1>0. /\ ingest[w] \in Work
        /\ ingest \in [Workers -> Work]
        /\ WorkOK(ingest[w], hour, lastListed)
        /\ ingest[w].pc \in {"fetch", "sent", "find", "written"}
             => ingest[w].left # <<>>
    BY DEF CatalogueInv, CatalogueTypes, WorkInv, WorkOK
  <1>1. CASE CircuitIsOpen(w) \/ Misread(w) \/ NoAnswer(w) \/ Written(w)
    <2>1. /\ LeaveBoard(w)
          /\ ingest[w].pc \in {"fetch", "sent", "written"}
          /\ UNCHANGED <<hour, listed, lastListed, startedAt, job>>
      BY <1>1 DEF CircuitIsOpen, Misread, NoAnswer, Written
    <2> QED
      BY <1>0, <2>1, LeaveInv
  <1>2. CASE Send(w)
    <2> DEFINE r == [ingest[w] EXCEPT !.pc = "sent"]
    <2>1. r \in Work /\ r.pc = "sent" /\ WorkOK(r, hour, lastListed)
      BY <1>0, <1>2 DEF Send, Work, WorkOK
    <2>2. ingest' = [ingest EXCEPT ![w] = r]
      BY <1>2 DEF Send
    <2> HIDE DEF r
    <2> QED
      BY <1>2, <2>1, <2>2, MoveInv DEF Send
  <1>3. CASE Receive(w)
    <2> DEFINE batch == {p \in listed : BoardOf[p] = Board(w)}
               r == [ingest[w] EXCEPT !.pc = "find", !.batch = batch,
                                      !.since = hour]
    <2>1. CASE batch = {}
      BY <1>0, <1>3, <2>1, LeaveInv DEF Receive
    <2>2. CASE batch # {}
      <3>1. batch \in SUBSET Listings /\ \A p \in batch : hour <= lastListed[p]
        BY DEF CatalogueInv, CatalogueTypes, ListedInv
      <3>2. ingest' = [ingest EXCEPT ![w] = r]
        BY <1>3, <2>2 DEF Receive
      <3>3. /\ ingest[w].left # <<>> /\ hour \in Nat /\ Slow \in Nat
            /\ UNCHANGED <<hour, listed, lastListed, startedAt, job,
                           lastRefreshAt>>
        BY <1>0, <1>3, <2>2, Bounds DEF Receive, CatalogueInv, CatalogueTypes
      <3> HIDE DEF batch
      <3>4. /\ r \in Work
            /\ r.pc = "find"
            /\ r.left = ingest[w].left
            /\ r.batch = batch
            /\ r.since = hour
        BY <1>0, <3>1, <3>3 DEF Work
      <3> HIDE DEF r
      <3>5. WorkOK(r, hour, lastListed)
        BY <3>1, <3>3, <3>4 DEF WorkOK
      <3> QED
        BY <3>2, <3>3, <3>4, <3>5, MoveInv
    <2> QED
      BY <2>1, <2>2
  <1>4. CASE FindRow(w)
    <2>1. PICK p \in ingest[w].batch :
            ingest' = [ingest EXCEPT ![w].pc = "write",
                                     ![w].creates = job[p] = Absent,
                                     ![w].left = <<p>> \o @]
      BY <1>4 DEF FindRow
    <2> DEFINE left == <<p>> \o ingest[w].left
               creates == job[p] = Absent
               r == [ingest[w] EXCEPT !.pc = "write", !.creates = creates,
                                      !.left = left]
    <2>2. ingest' = [ingest EXCEPT ![w] = r]
      BY <2>1
    <2>3. p \in Item /\ ingest[w].left \in Seq(Item) /\ ingest[w].left # <<>>
      BY <1>0, <1>4 DEF FindRow, Work, Item
    <2>4. /\ left \in Seq(Item) /\ left # <<>> /\ Head(left) = p
          /\ Tail(left) # <<>>
      BY <2>3, InFront
    <2>5. creates \in BOOLEAN
      OBVIOUS
    <2> HIDE DEF left, creates
    <2>6. /\ r \in Work
          /\ r.pc = "write" /\ r.left = left
          /\ r.batch = ingest[w].batch /\ r.since = ingest[w].since
      BY <1>0, <2>4, <2>5 DEF Work
    <2> HIDE DEF r
    <2>7. WorkOK(r, hour, lastListed)
      BY <1>0, <2>4, <2>6 DEF WorkOK
    <2> QED
      BY <1>4, <2>2, <2>6, <2>7, MoveInv DEF FindRow
  <1>5. CASE Clash(w)
    <2> DEFINE left == Tail(ingest[w].left)
               r == [ingest[w] EXCEPT !.left = left, !.creates = FALSE,
                                      !.pc = "written"]
    <2>1. ingest' = [ingest EXCEPT ![w] = r]
      BY <1>5 DEF Clash
    <2>2. left \in Seq(Item) /\ left # <<>>
      BY <1>0, <1>5 DEF Clash, WorkOK, Work
    <2> HIDE DEF left
    <2>3. /\ r \in Work
          /\ r.pc = "written" /\ r.left = left
          /\ r.batch = ingest[w].batch /\ r.since = ingest[w].since
      BY <1>0, <2>2 DEF Work
    <2> HIDE DEF r
    <2>4. WorkOK(r, hour, lastListed)
      BY <1>0, <2>2, <2>3 DEF WorkOK
    <2> QED
      BY <1>5, <2>1, <2>3, <2>4, MoveInv DEF Clash
  <1>6. CASE WriteRow(w)
    <2> DEFINE p == Head(ingest[w].left)
               rest == ingest[w].batch \ {p}
               left == Tail(ingest[w].left)
               pc == IF rest = {} THEN "written" ELSE "find"
               r == [ingest[w] EXCEPT !.left = left, !.batch = rest,
                                      !.creates = FALSE, !.pc = pc]
    <2>1. ingest' = [ingest EXCEPT ![w] = r]
      BY <1>6 DEF WriteRow
    <2>2. /\ left \in Seq(Item) /\ left # <<>>
          /\ p \in ingest[w].batch
          /\ p \in Listings
          /\ rest \in SUBSET Listings
          /\ pc \in {"written", "find"}
          /\ \A q \in rest : q \in ingest[w].batch
      BY <1>0, <1>6 DEF WriteRow, WorkOK, Work
    <2>3. /\ job' = [job EXCEPT ![p] = IF @ = Absent THEN Created ELSE Observed(@)]
          /\ UNCHANGED <<hour, listed, lastListed, startedAt, lastRefreshAt>>
      BY <1>6 DEF WriteRow
    <2>4. hour <= lastListed[p] + Slow
      BY <1>0, <2>2, Bounds DEF WorkOK, Work, CatalogueInv, CatalogueTypes
    <2> HIDE DEF left, rest, p, pc
    <2>5. /\ r \in Work
          /\ r.pc = pc /\ r.left = left
          /\ r.batch = rest /\ r.since = ingest[w].since
      BY <1>0, <2>2 DEF Work
    <2> HIDE DEF r
    <2>6. WorkOK(r, hour, lastListed)
      BY <1>0, <2>2, <2>5 DEF WorkOK
    <2>7. WorkInv' /\ ListedInv'
      BY <2>1, <2>3, <2>6 DEF CatalogueInv, CatalogueTypes, WorkInv, ListedInv
    <2>8. job' \in [Postings -> JobRow] /\ SeenInv'
      BY <2>2, <2>3, <2>4, RowWritten DEF CatalogueInv, Postings
    <2>9. CatalogueTypes'
      BY <2>1, <2>3, <2>5, <2>8 DEF CatalogueInv, CatalogueTypes
    <2>10. RestInv'
      BY <1>0, <2>1, <2>2, <2>3, <2>5
         DEF CatalogueInv, CatalogueTypes, RestInv, Workers
    <2> QED
      BY <2>7, <2>8, <2>9, <2>10 DEF CatalogueInv
  <1> QED
    BY <1>1, <1>2, <1>3, <1>4, <1>5, <1>6 DEF IngestStep

\* A row that a capture or an administrator changes is none that boards list,
\* or keeps when it was seen.
LEMMA RowsInv ==
  ASSUME CatalogueInv, NEW p \in Postings,
         \/ p \in Captures /\ Capture(p)
         \/ \E m \in Moderators : Deactivate(p, m)
  PROVE  CatalogueInv'
  <1> USE DEF CatalogueInv
  <1>0. UNCHANGED <<hour, listed, lastListed, ingest, startedAt, lastRefreshAt>>
    BY DEF Capture, Deactivate
  <1>1. job' \in [Postings -> JobRow] /\ SeenInv'
    <2>1. CASE p \in Captures /\ Capture(p)
      BY <1>0, <2>1, RowWritten, Bounds DEF Capture
    <2>2. ASSUME NEW m \in Moderators, Deactivate(p, m)
          PROVE  job' \in [Postings -> JobRow] /\ SeenInv'
      <3> DEFINE r == [job[p] EXCEPT !.status = "deactivated", !.by = m]
      <3>1. job' = [job EXCEPT ![p] = r] /\ job \in [Postings -> JobRow]
        BY <2>2 DEF Deactivate, CatalogueTypes
      <3>2. r \in JobRow /\ r.seen = job[p].seen
        BY <3>1 DEF JobRow
      <3> HIDE DEF r
      <3>3. job' \in [Postings -> JobRow]
        BY <3>1, <3>2
      <3>4. SeenInv'
        BY <1>0, <3>1, <3>2 DEF SeenInv, Postings
      <3> QED
        BY <3>3, <3>4
    <2> QED
      BY <2>1, <2>2
  <1>2. CatalogueTypes'
    BY <1>0, <1>1 DEF CatalogueTypes
  <1>3. WorkInv' /\ ListedInv' /\ RestInv'
    BY <1>0 DEF WorkInv, ListedInv, RestInv, Doing
  <1> QED
    BY <1>1, <1>2, <1>3

\* An administrator's command and a refresh begin with a board.
LEMMA BeginInv ==
  ASSUME CatalogueInv,
         \/ \E b \in ToSet(Boards) : Command(b)
         \/ \E d \in Discoveries : Refresh(d)
  PROVE  CatalogueInv'
  <1> USE DEF CatalogueInv
  <1>0. UNCHANGED <<hour, listed, lastListed, job, lastRefreshAt>>
    BY DEF Command, Refresh
  <1>1. CASE UNCHANGED <<ingest, startedAt>>
    BY <1>0, <1>1
       DEF CatalogueTypes, WorkInv, ListedInv, SeenInv, RestInv, Doing
  <1>2. ASSUME NEW w \in Workers, NEW left \in Seq(Item), left # <<>>,
               ingest' = [ingest EXCEPT ![w] =
                            [Resting EXCEPT !.pc = "fetch", !.left = left]],
               w # "refresh" => startedAt' = startedAt, startedAt' \in Nat
        PROVE  CatalogueInv'
    <2> DEFINE r == [Resting EXCEPT !.pc = "fetch", !.left = left]
    <2>1. r \in Work /\ r.pc = "fetch" /\ r.batch = {} /\ r.left = left
      BY BeginTypes
    <2>2. ingest' = [ingest EXCEPT ![w] = r]
      BY <1>2
    <2> HIDE DEF r
    <2>3. WorkOK(r, hour, lastListed)
      BY <1>2, <2>1 DEF WorkOK
    <2>4. CatalogueTypes' /\ ListedInv' /\ SeenInv'
      BY <1>0, <1>2, <2>1, <2>2 DEF CatalogueTypes, ListedInv, SeenInv
    <2>5. WorkInv'
      BY <1>0, <2>2, <2>3 DEF WorkInv, CatalogueTypes
    <2>6. RestInv'
      BY <1>0, <1>2, <2>1, <2>2 DEF RestInv, Doing, Workers, CatalogueTypes
    <2> QED
      BY <2>4, <2>5, <2>6
  <1>3. ASSUME NEW b \in ToSet(Boards), Command(b)
        PROVE  CatalogueInv'
    <2>1. <<b>> \in Seq(Item) /\ <<b>> # <<>> /\ "command" \in Workers
      BY Bounds DEF Workers
    <2>2. /\ startedAt' = startedAt
          /\ ingest' = [ingest EXCEPT !["command"] =
               [Resting EXCEPT !.pc = "fetch", !.left = <<b>>]]
      BY <1>3 DEF Command
    <2>3. startedAt' \in Nat
      BY <2>2 DEF CatalogueTypes
    <2> QED
      BY <1>2, <2>1, <2>2, <2>3
  <1>4. ASSUME NEW d \in Discoveries, Refresh(d), ~UNCHANGED <<ingest, startedAt>>
        PROVE  CatalogueInv'
    <2>1. Boards \in Seq(Item) /\ Boards # <<>> /\ "refresh" \in Workers
      BY <1>4, Bounds DEF Workers, Refresh, Due
    <2>2. /\ startedAt' = hour
          /\ ingest' = [ingest EXCEPT !["refresh"] =
               [Resting EXCEPT !.pc = "fetch", !.left = Boards]]
      BY <1>4 DEF Refresh
    <2>3. startedAt' \in Nat
      BY <2>2 DEF CatalogueTypes
    <2> QED
      BY <1>2, <2>1, <2>2, <2>3
  <1> QED
    BY <1>1, <1>3, <1>4

\* Time passes, and boards withdraw postings.
LEMMA TimeInv ==
  ASSUME CatalogueInv, HourPasses \/ Withdraw
  PROVE  CatalogueInv'
  <1> USE Bounds DEF CatalogueInv
  <1>1. CASE HourPasses
    <2>1. /\ hour' = hour + 1 /\ hour \in Nat
          /\ UNCHANGED <<listed, job, ingest, startedAt, lastRefreshAt>>
          /\ lastListed \in [Listings -> Nat]
          /\ lastListed' \in [Listings -> Nat]
          /\ \A p \in Listings :
               /\ lastListed[p] <= lastListed'[p]
               /\ lastListed'[p] <= hour'
               /\ p \in listed => lastListed'[p] = hour'
      BY <1>1 DEF HourPasses, CatalogueTypes, ListedInv
    <2>2. CatalogueTypes' /\ ListedInv'
      BY <2>1 DEF CatalogueTypes, ListedInv
    <2>3. SeenInv'
      BY <2>1 DEF SeenInv, CatalogueTypes, JobRow, Postings
    <2>4. WorkInv'
      <3> SUFFICES ASSUME NEW w \in Workers
                   PROVE  WorkOK(ingest[w], hour', lastListed')
        BY <2>1 DEF WorkInv
      <3>1. /\ ingest[w] \in Work
            /\ WorkOK(ingest[w], hour, lastListed)
            /\ ingest[w].batch # {} => hour < ingest[w].since + Slow
        BY <1>1 DEF CatalogueTypes, WorkInv, HourPasses
      <3>2. ingest[w].since \in Nat /\ ingest[w].batch \in SUBSET Listings
        BY <3>1 DEF Work
      <3> QED
        BY <2>1, <3>1, <3>2 DEF WorkOK
    <2>5. RestInv'
      BY <2>1 DEF RestInv, Doing
    <2> QED
      BY <2>2, <2>3, <2>4, <2>5
  <1>2. CASE Withdraw
    <2>1. /\ listed' \in SUBSET listed
          /\ UNCHANGED <<hour, lastListed, job, ingest, startedAt, lastRefreshAt>>
      BY <1>2 DEF Withdraw
    <2> QED
      BY <2>1
         DEF CatalogueTypes, WorkInv, ListedInv, SeenInv, RestInv, Doing
  <1> QED
    BY <1>1, <1>2

LEMMA NextCatalogue ==
  CatalogueInv /\ [CatalogueNext]_catalogueVars => CatalogueInv'
  <1> SUFFICES ASSUME CatalogueInv, [CatalogueNext]_catalogueVars
               PROVE  CatalogueInv'
    OBVIOUS
  <1>1. CASE UNCHANGED <<hour, listed, lastListed, job, ingest, startedAt,
                         lastRefreshAt>>
    BY <1>1 DEF CatalogueInv, CatalogueTypes, WorkInv, ListedInv, SeenInv,
                RestInv, Doing
  <1>2. ASSUME NEW d \in Discoveries,
               Reserve(d) \/ AnswerDiscovery(d) \/ Fail(d)
        PROVE  CatalogueInv'
    BY <1>1, <1>2 DEF Reserve, AnswerDiscovery, Fail
  <1>3. CASE UNCHANGED catalogueVars
    BY <1>1, <1>3 DEF catalogueVars
  <1>4. \A p \in Captures : p \in Postings
    BY DEF Postings
  <1> QED
    BY <1>2, <1>3, <1>4, IngestInv, RowsInv, BeginInv, TimeInv
       DEF CatalogueNext, DiscoveryStep

THEOREM CatalogueSafety == CatalogueSpec => []CatalogueInv
  BY InitCatalogue, NextCatalogue, PTL DEF CatalogueSpec

-----------------------------------------------------------------------------
(* The properties.                                                         *)

LEMMA AgedIsHidden == CatalogueInv => WithdrawnDisappears
  <1> SUFFICES ASSUME CatalogueInv, NEW p \in Listings, Visible(p)
               PROVE  hour - lastListed[p] <= MaxAge + Slow
    BY DEF WithdrawnDisappears
  <1>1. job[p].seen >= hour - MaxAge
    BY Bounds DEF Visible
  <1>2. job[p].seen <= lastListed[p] + Slow
    BY DEF CatalogueInv, SeenInv
  <1>3. /\ job[p].seen \in Nat /\ hour \in Nat /\ lastListed[p] \in Nat
        /\ MaxAge \in Nat /\ Slow \in Nat
    BY Bounds DEF CatalogueInv, CatalogueTypes, JobRow, Postings
  <1> QED
    BY <1>1, <1>2, <1>3

\* A posting that its board withdrew is no longer offered once it has aged,
\* however often it was refreshed, commanded or written late meanwhile.
THEOREM WithdrawnAge == CatalogueSpec => []WithdrawnDisappears
  BY CatalogueSafety, AgedIsHidden, PTL

\* A row that was taken down only gets a later time at which it was seen.
LEMMA DownStays ==
  ASSUME CatalogueInv, [CatalogueNext]_catalogueVars, NEW p \in Postings,
         job[p].status = "deactivated"
  PROVE  job'[p] = [job[p] EXCEPT !.seen = job'[p].seen]
  <1>0. job \in [Postings -> JobRow] /\ job[p] \in JobRow
    BY DEF CatalogueInv, CatalogueTypes
  <1>1. CASE job'[p] = job[p]
    BY <1>0, <1>1 DEF JobRow
  <1>2. ASSUME NEW q \in Postings,
               job' = [job EXCEPT ![q] = IF @ = Absent THEN Created
                                         ELSE Observed(@)]
        PROVE  job'[p] = [job[p] EXCEPT !.seen = job'[p].seen]
    <2>1. job[p] # Absent
      BY DEF Absent
    <2>2. job'[p] = job[p] \/ job'[p] = Observed(job[p])
      BY <1>0, <1>2, <2>1
    <2>3. CASE job'[p] = Observed(job[p])
      <3>1. job'[p] = [job[p] EXCEPT !.seen = hour] /\ job'[p].seen = hour
        BY <1>0, <2>3 DEF Observed, JobRow
      <3> QED
        BY <3>1
    <2> QED
      BY <1>1, <2>2, <2>3
  <1>3. ASSUME NEW w \in Workers, WriteRow(w)
        PROVE  \E q \in Postings :
                 job' = [job EXCEPT ![q] = IF @ = Absent THEN Created
                                           ELSE Observed(@)]
    BY <1>3 DEF WriteRow, Doing, CatalogueInv, CatalogueTypes, WorkInv, WorkOK,
                Work, Postings
  <1>4. ASSUME NEW q \in Captures, Capture(q)
        PROVE  q \in Postings
                 /\ job' = [job EXCEPT ![q] = IF @ = Absent THEN Created
                                              ELSE Observed(@)]
    BY <1>4 DEF Capture, Postings
  <1>5. ASSUME NEW q \in Postings, NEW m \in Moderators, Deactivate(q, m)
        PROVE  job'[p] = job[p]
    BY <1>0, <1>5 DEF Deactivate
  <1>6. CASE UNCHANGED job
    BY <1>1, <1>6
  <1> QED
    BY <1>1, <1>2, <1>3, <1>4, <1>5, <1>6
       DEF CatalogueNext, catalogueVars, HourPasses, Withdraw, IngestStep,
           CircuitIsOpen, Send, Receive, Misread, NoAnswer, FindRow, Written,
           Clash, Command, Reserve, DiscoveryStep, Refresh, AnswerDiscovery,
           Fail

\* What an administrator took down stays down, and stays his.
THEOREM TakenDownStays == CatalogueSpec => FirstDeactivationStands
  <1>1. CatalogueInv /\ [CatalogueNext]_catalogueVars =>
          [\A p \in Postings : job[p].status = "deactivated" =>
             job'[p] = [job[p] EXCEPT !.seen = job'[p].seen]]_catalogueVars
    BY DownStays
  <1> QED
    BY <1>1, CatalogueSafety, PTL DEF CatalogueSpec, FirstDeactivationStands

\* A refresh begins when none is under way and the last one began a TTL ago.
LEMMA RefreshBegins ==
  ASSUME CatalogueInv, [CatalogueNext]_catalogueVars, startedAt' # startedAt
  PROVE  Doing("refresh", "idle") /\ startedAt' >= startedAt + Ttl
  <1>1. PICK d \in Discoveries : Refresh(d)
    BY DEF CatalogueNext, catalogueVars, HourPasses, Withdraw, IngestStep,
           CircuitIsOpen, Send, Receive, Misread, NoAnswer, FindRow, WriteRow,
           Written, Clash, Command, Capture, Deactivate, Reserve,
           DiscoveryStep, AnswerDiscovery, Fail
  <1>2. Due /\ Doing("refresh", "idle") /\ startedAt' = hour
    BY <1>1 DEF Refresh
  <1>3. /\ startedAt = lastRefreshAt
        /\ hour \in Nat /\ startedAt \in Nat /\ Ttl \in Nat
    BY <1>2, Bounds DEF CatalogueInv, CatalogueTypes, RestInv
  <1> QED
    BY <1>2, <1>3 DEF Due

\* One refresh at a time in a process, and their starts are a TTL apart.
THEOREM RefreshesSpaced == CatalogueSpec => RefreshesAreSpaced
  <1>1. CatalogueInv /\ [CatalogueNext]_catalogueVars =>
          [startedAt' # startedAt =>
             Doing("refresh", "idle") /\ startedAt' >= startedAt + Ttl]_catalogueVars
    BY RefreshBegins
  <1> QED
    BY <1>1, CatalogueSafety, PTL DEF CatalogueSpec, RefreshesAreSpaced

=============================================================================
