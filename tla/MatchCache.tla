------------------------------ MODULE MatchCache ------------------------------
(***************************************************************************)
(* Scores are kept in rows of match_score_cache under a hash of algorithm, *)
(* resume, content of the resume and text of the offer                     *)
(* (match-score-cache.service.ts): read, computed where missing, written,  *)
(* by concurrent requests, while the resume is parsed again or deleted and *)
(* while time passes that "present" jobs count.  Without the cache the     *)
(* scores are computed afresh.                                             *)
(***************************************************************************)
EXTENDS MatchScore

CONSTANTS
  Contents,     \* what the parser may read in the resume
  Offers,       \* texts of job offers
  Requests,     \* requests in progress at once
  More(_),      \* contents with more evidence than one
  FirstMonth, LastMonth,  \* bound: the time, in months
  Gone          \* the resume is deleted

ASSUME TimeIsOrdered ==
  FirstMonth \in Nat /\ LastMonth \in Nat /\ FirstMonth <= LastMonth

ASSUME TextsAreRead ==
  /\ \A c \in Contents :
       IsReading(c) /\ \A more \in More(c) : IsReading(more) /\ Supplements(c, more)
  /\ \A o \in Offers : IsOffer(o)

VARIABLES
  now,      \* the month
  content,  \* resumes.parsedJson
  cache,    \* match_score_cache: rows [content, offer, score] of the resume
  request   \* position of each request, what it read and its results

cacheVars == <<now, content, cache, request>>

Nobody == [pc |-> "idle", content |-> Gone, offers |-> {}, result |-> {}]

CacheInit ==
  /\ now = FirstMonth /\ content \in Contents \cup {Gone} /\ cache = {}
  /\ request = [r \in Requests |-> Nobody]

Sits(r, pc) == request[r].pc = pc
Turn(r, pc) == request' = [request EXCEPT ![r].pc = pc]

\* The scores, as one table.
Scorable == Contents \cup UNION {More(c) : c \in Contents}
Table ==
  [c \in Scorable |-> [o \in Offers |-> [m \in FirstMonth..LastMonth |->
     calculateMatchScore(c, o, m)]]]
Score(c, o, m) == Table[c][o][m]

Computed(c, offers) ==
  {[content |-> c, offer |-> o, score |-> Score(c, o, now)] : o \in offers}

\* matchScore, matchScoreText, and the job list with many offers at once.
Ask(r) ==
  /\ Sits(r, "idle") /\ content # Gone
  /\ \E offers \in SUBSET Offers \ {{}} :
       request' = [request EXCEPT ![r] =
         [pc |-> "look", content |-> content, offers |-> offers, result |-> {}]]
  /\ UNCHANGED <<now, content, cache>>

\* Mutant: the hash leaves the content out.
AnyContent(c, o) == {row \in cache : row.offer = o}

\* The row under the hash of content and offer, if there is one.
Stored(c, o) == {row \in cache : row.content = c /\ row.offer = o}

\* readThroughCache: rows that exist, and scores for the rest.
LookUp(r) ==
  LET q     == request[r]
      found == {o \in q.offers : Stored(q.content, o) # {}}
      rest  == q.offers \ found
  IN
  /\ Sits(r, "look")
  /\ request' = [request EXCEPT
       ![r].result = (UNION {Stored(q.content, o) : o \in found})
                       \cup Computed(q.content, rest),
       ![r].pc = IF rest = {} THEN "answered" ELSE "store"]
  /\ UNCHANGED <<now, content, cache>>

\* createMany, skipDuplicates; the row refers to its resume.
Store(r) ==
  /\ Sits(r, "store") /\ content # Gone
  /\ cache' = cache \cup {row \in request[r].result :
                            Stored(row.content, row.offer) = {}}
  /\ Turn(r, "answered")
  /\ UNCHANGED <<now, content>>

\* The database fails, or the resume was deleted: all scores are computed.
Afresh(r) ==
  /\ request[r].pc \in {"look", "store"}
  /\ request' = [request EXCEPT ![r].pc = "answered",
       ![r].result = Computed(request[r].content, request[r].offers)]
  /\ UNCHANGED <<now, content, cache>>

Return(r) ==
  /\ Sits(r, "answered")
  /\ request' = [request EXCEPT ![r] = Nobody]
  /\ UNCHANGED <<now, content, cache>>

\* Another parse of the resume stores what it reads.
Reparse ==
  /\ content # Gone
  /\ content' \in Contents \ {content}
  /\ UNCHANGED <<now, cache, request>>

\* The rows go with the resume.
Delete ==
  /\ content' = Gone /\ cache' = {}
  /\ UNCHANGED <<now, request>>

MonthPasses ==
  /\ now < LastMonth /\ now' = now + 1
  /\ UNCHANGED <<content, cache, request>>

CacheNext ==
  \/ \E r \in Requests :
       Ask(r) \/ LookUp(r) \/ Store(r) \/ Afresh(r) \/ Return(r)
  \/ Reparse \/ Delete \/ MonthPasses

CacheSpec == CacheInit /\ [][CacheNext]_cacheVars

-----------------------------------------------------------------------------
\* A request is told, for each offer it asked about, a score that the content
\* it read once had; rows grow old, and then understate, never overstate.
CachedNeverOverstates ==
  \A r \in Requests : Sits(r, "answered") =>
    LET q == request[r] IN
    /\ {row.offer : row \in q.result} = q.offers
    /\ \A row \in q.result :
         /\ \E m \in FirstMonth..now : row.score = Score(q.content, row.offer, m)
         /\ row.score <= Score(q.content, row.offer, now)

\* Inductive: a row, in the table or in a result, has a score of its content and
\* offer in some month that has come.
Scored(row) ==
  /\ row.content \in Contents /\ row.offer \in Offers
  /\ \E m \in FirstMonth..now : row.score = Score(row.content, row.offer, m)

RequestInv(q) ==
  /\ q.pc \in {"idle", "look", "store", "answered"}
  /\ q.pc # "idle" => q.content \in Contents /\ q.offers \subseteq Offers
  /\ q.pc \in {"store", "answered"} =>
       /\ {row.offer : row \in q.result} = q.offers
       /\ \A row \in q.result : Scored(row) /\ row.content = q.content

CacheInv ==
  /\ now \in FirstMonth..LastMonth
  /\ content \in Contents \cup {Gone}
  /\ \A row \in cache : Scored(row)
  /\ DOMAIN request = Requests
  /\ \A r \in Requests : RequestInv(request[r])

\* What a CV says more than another never lowers its score: neither a skill, a
\* title beside others, a period, however it overlaps, nor a degree, whatever
\* weights and caps the offer brings in.
MoreEvidenceNeverLowers ==
  content # Gone =>
    \A more \in More(content), o \in Offers :
      Score(content, o, now) <= Score(more, o, now)

=============================================================================
