----------------------------- MODULE JobCatalogue -----------------------------
(***************************************************************************)
(* The catalogue of job postings: read from the boards of approved         *)
(* partners by a refresh that all discoveries of a process share, or at an *)
(* administrator's command; captured by a candidate's extension; taken     *)
(* down by administrators.  Boards list and withdraw postings at any time, *)
(* and do not always answer.                                               *)
(***************************************************************************)
EXTENDS Integers, FiniteSets, FiniteSetsExt, SequencesExt

CONSTANTS
  Boards,       \* JOB_DISCOVERY_SOURCES, in order; each at a host of its own
  Listings,     \* postings that boards may list
  BoardOf,      \* the board of each
  Captures,     \* pages that the candidate's extension captures
  Moderators,   \* administrators who take postings down
  Discoveries,  \* calls of discover
  Ttl,          \* JOB_DISCOVERY_REFRESH_TTL_MINUTES
  MaxAge,       \* JOB_DISCOVERY_MAX_JOB_AGE_HOURS
  Threshold,    \* PARTNER_API_CIRCUIT_BREAKER_FAILURE_THRESHOLD
  ResetAfter,   \* PARTNER_API_CIRCUIT_BREAKER_RESET_MS
  Slow,         \* bound: what was read from a board is written within it
  LastHour,     \* bound: the hour
  NoOne

\* The key of a posting tells what boards list from what a candidate captured.
ASSUME CatalogueConstants ==
  /\ Boards \in Seq(ToSet(Boards))
  /\ BoardOf \in [Listings -> ToSet(Boards)]
  /\ Listings \cap Captures = {}
  /\ {Ttl, MaxAge, Threshold, ResetAfter, Slow, LastHour} \subseteq Nat
  /\ Threshold > 0

VARIABLES
  hour,           \* the time
  listed,         \* what the boards list now
  lastListed,     \* when each posting was last listed (history)
  job,            \* rows of jobs: status, scrapedAt, deactivatedByUserId
  circuit,        \* PartnerApiClient.circuits of the process, by board
  ingest,         \* the two callers of JobIngestionService
  startedAt,      \* when the last refresh began
  lastRefreshAt,  \* JobDiscoveryService.lastRefreshAt
  discovery,      \* where each discovery is
  discoveries     \* units of job_discoveries used

catalogueVars == <<hour, listed, lastListed, job, circuit, ingest, startedAt,
                   lastRefreshAt, discovery, discoveries>>

Postings == Listings \cup Captures
Workers  == {"refresh", "command"}
Absent   == [status |-> "absent", seen |-> 0, by |-> NoOne]
Resting  == [pc |-> "idle", left |-> <<>>, batch |-> {}, creates |-> FALSE,
             since |-> 0]

CatalogueInit ==
  /\ hour = Ttl
  /\ listed \in SUBSET Listings
  /\ lastListed = [p \in Listings |-> Ttl]
  /\ job = [p \in Postings |-> Absent]
  /\ circuit = [b \in ToSet(Boards) |-> [failures |-> 0, openUntil |-> 0]]
  /\ ingest = [w \in Workers |-> Resting]
  /\ startedAt = 0 /\ lastRefreshAt = 0
  /\ discovery = [d \in Discoveries |-> "new"]
  /\ discoveries = 0

Doing(w, pc) == ingest[w].pc = pc

-----------------------------------------------------------------------------
(* PartnerApiClient.fetch and the adapters.                                *)

\* The next board, or the end of the work.
NextBoard(w) ==
  LET left == Tail(ingest[w].left)
  IN  IF left = <<>> THEN Resting
      ELSE [Resting EXCEPT !.pc = "fetch", !.left = left]

\* Mutant: a refresh that found a board out of order is not remembered.
IfAllAnswered(w) ==
  IF \A b \in DOMAIN circuit : circuit[b].failures = 0 THEN startedAt
  ELSE lastRefreshAt

\* performRefresh remembers when it began, however its boards answered.
Remembered(w) == startedAt

\* The end of a board; with the last one the refresh ends, and what waits for
\* it goes on.
LeaveBoard(w) ==
  LET next == NextBoard(w)
      ends == next = Resting /\ w = "refresh"
  IN
  /\ ingest' = [ingest EXCEPT ![w] = next]
  /\ lastRefreshAt' = IF ends THEN Remembered(w) ELSE lastRefreshAt
  /\ discovery' = [d \in Discoveries |->
       IF ends /\ discovery[d] = "wait" THEN "read" ELSE discovery[d]]

Board(w) == Head(ingest[w].left)

\* The circuit of the host is open: the board counts as failed.
CircuitIsOpen(w) ==
  /\ Doing(w, "fetch") /\ circuit[Board(w)].openUntil > hour
  /\ LeaveBoard(w)
  /\ UNCHANGED <<hour, listed, lastListed, job, circuit, startedAt, discoveries>>

\* The request is sent.
Send(w) ==
  /\ Doing(w, "fetch") /\ circuit[Board(w)].openUntil <= hour
  /\ ingest' = [ingest EXCEPT ![w].pc = "sent"]
  /\ UNCHANGED <<hour, listed, lastListed, job, circuit, startedAt,
                 lastRefreshAt, discovery, discoveries>>

Answers(b) == circuit' = [circuit EXCEPT ![b] = [failures |-> 0, openUntil |-> 0]]

\* The board answers with what it lists now.
Receive(w) ==
  LET batch == {p \in listed : BoardOf[p] = Board(w)} IN
  /\ Doing(w, "sent")
  /\ Answers(Board(w))
  /\ IF batch = {} THEN LeaveBoard(w)
     ELSE /\ ingest' = [ingest EXCEPT ![w].pc = "find", ![w].batch = batch,
                                      ![w].since = hour]
          /\ UNCHANGED <<lastRefreshAt, discovery>>
  /\ UNCHANGED <<hour, listed, lastListed, job, startedAt, discoveries>>

\* A status below 500, or a list that cannot be read: an answer to the circuit,
\* a failure to the adapter.
Misread(w) ==
  /\ Doing(w, "sent")
  /\ Answers(Board(w)) /\ LeaveBoard(w)
  /\ UNCHANGED <<hour, listed, lastListed, job, startedAt, discoveries>>

\* A status of 500 or more, or no answer in time.  Bound: failures beyond the
\* threshold are not counted.
NoAnswer(w) ==
  LET b == Board(w)
      failures == Min({circuit[b].failures + 1, Threshold})
  IN
  /\ Doing(w, "sent")
  /\ circuit' = [circuit EXCEPT
       ![b].failures = failures,
       ![b].openUntil = IF failures >= Threshold THEN hour + ResetAfter ELSE @]
  /\ LeaveBoard(w)
  /\ UNCHANGED <<hour, listed, lastListed, job, startedAt, discoveries>>

-----------------------------------------------------------------------------
(* JobService.ingestJob: an upsert by sourceKey that also connects or       *)
(* creates the company is a query and then a write.                         *)

Created == [status |-> "active", seen |-> hour, by |-> NoOne]

\* Mutant: seen again, a posting is offered again.
Reopened(row) == Created

\* What a board still lists was seen now; its status stays.
Observed(row) == [row EXCEPT !.seen = hour]

FindRow(w) ==
  /\ Doing(w, "find")
  /\ \E p \in ingest[w].batch :
       ingest' = [ingest EXCEPT ![w].pc = "write",
                                ![w].creates = job[p] = Absent,
                                ![w].left = <<p>> \o @]
  /\ UNCHANGED <<hour, listed, lastListed, job, circuit, startedAt,
                 lastRefreshAt, discovery, discoveries>>

WriteRow(w) ==
  LET p    == Head(ingest[w].left)
      rest == ingest[w].batch \ {p}
  IN
  /\ Doing(w, "write")
  /\ ingest[w].creates => job[p] = Absent
  /\ job' = [job EXCEPT ![p] = IF @ = Absent THEN Created ELSE Observed(@)]
  /\ ingest' = [ingest EXCEPT ![w].left = Tail(@), ![w].batch = rest,
       ![w].creates = FALSE, ![w].pc = IF rest = {} THEN "written" ELSE "find"]
  /\ UNCHANGED <<hour, listed, lastListed, circuit, startedAt, lastRefreshAt,
                 discovery, discoveries>>

Written(w) ==
  /\ Doing(w, "written")
  /\ LeaveBoard(w)
  /\ UNCHANGED <<hour, listed, lastListed, job, circuit, startedAt, discoveries>>

\* The other caller created the row since: the unique key rejects this one,
\* and with it the rest of the board.
Clash(w) ==
  /\ Doing(w, "write") /\ ingest[w].creates /\ job[Head(ingest[w].left)] # Absent
  /\ ingest' = [ingest EXCEPT ![w].left = Tail(@), ![w].creates = FALSE,
                              ![w].pc = "written"]
  /\ UNCHANGED <<hour, listed, lastListed, job, circuit, startedAt,
                 lastRefreshAt, discovery, discoveries>>

\* The administrator's ingestJobs, of one board.
Command(b) ==
  /\ Doing("command", "idle")
  /\ ingest' = [ingest EXCEPT !["command"] =
                 [Resting EXCEPT !.pc = "fetch", !.left = <<b>>]]
  /\ UNCHANGED <<hour, listed, lastListed, job, circuit, startedAt,
                 lastRefreshAt, discovery, discoveries>>

\* captureJob: refreshes the row, and tells nothing of one that was taken down.
Capture(p) ==
  /\ job' = [job EXCEPT ![p] = IF @ = Absent THEN Created ELSE Observed(@)]
  /\ UNCHANGED <<hour, listed, lastListed, circuit, ingest, startedAt,
                 lastRefreshAt, discovery, discoveries>>

\* deactivateInTransaction: only an active row changes.
Deactivate(p, m) ==
  /\ job[p].status = "active"
  /\ job' = [job EXCEPT ![p].status = "deactivated", ![p].by = m]
  /\ UNCHANGED <<hour, listed, lastListed, circuit, ingest, startedAt,
                 lastRefreshAt, discovery, discoveries>>

-----------------------------------------------------------------------------
(* JobDiscoveryService.discover.                                            *)

Reserve(d) ==
  /\ discovery[d] = "new"
  /\ discovery' = [discovery EXCEPT ![d] = "refresh"]
  /\ discoveries' = discoveries + 1
  /\ UNCHANGED <<hour, listed, lastListed, job, circuit, ingest, startedAt,
                 lastRefreshAt>>

\* There are sources, and they were not refreshed within the TTL.
Due == Boards # <<>> /\ hour - lastRefreshAt >= Ttl

\* refreshConfiguredSources: nothing is due, a refresh is under way, or it
\* begins here.
Refresh(d) ==
  /\ discovery[d] = "refresh"
  /\ \/ /\ ~Due
        /\ discovery' = [discovery EXCEPT ![d] = "read"]
        /\ UNCHANGED <<ingest, startedAt>>
     \/ /\ Due /\ discovery' = [discovery EXCEPT ![d] = "wait"]
        /\ IF Doing("refresh", "idle")
             THEN /\ startedAt' = hour
                  /\ ingest' = [ingest EXCEPT !["refresh"] =
                       [Resting EXCEPT !.pc = "fetch", !.left = Boards]]
             ELSE UNCHANGED <<ingest, startedAt>>
  /\ UNCHANGED <<hour, listed, lastListed, job, circuit, lastRefreshAt,
                 discoveries>>

\* The candidates are read, scored and ranked.
AnswerDiscovery(d) ==
  /\ discovery[d] = "read"
  /\ discovery' = [discovery EXCEPT ![d] = "answered"]
  /\ UNCHANGED <<hour, listed, lastListed, job, circuit, ingest, startedAt,
                 lastRefreshAt, discoveries>>

\* Any of it fails: the unit goes back, or is lost.
Fail(d) ==
  /\ discovery[d] = "read"
  /\ \/ /\ discovery' = [discovery EXCEPT ![d] = "failed"]
        /\ discoveries' = discoveries - 1
     \/ /\ discovery' = [discovery EXCEPT ![d] = "lost"]
        /\ UNCHANGED discoveries
  /\ UNCHANGED <<hour, listed, lastListed, job, circuit, ingest, startedAt,
                 lastRefreshAt>>

-----------------------------------------------------------------------------
HourPasses ==
  /\ hour < LastHour
  /\ \A w \in Workers : ingest[w].batch # {} => hour < ingest[w].since + Slow
  /\ hour' = hour + 1
  /\ lastListed' = [p \in Listings |->
                      IF p \in listed THEN hour + 1 ELSE lastListed[p]]
  /\ UNCHANGED <<listed, job, circuit, ingest, startedAt, lastRefreshAt,
                 discovery, discoveries>>

Withdraw ==
  /\ \E p \in listed : listed' = listed \ {p}
  /\ UNCHANGED <<hour, lastListed, job, circuit, ingest, startedAt,
                 lastRefreshAt, discovery, discoveries>>

IngestStep(w) ==
  \/ CircuitIsOpen(w) \/ Send(w) \/ Receive(w) \/ Misread(w) \/ NoAnswer(w)
  \/ FindRow(w) \/ WriteRow(w) \/ Written(w) \/ Clash(w)

DiscoveryStep(d) == Refresh(d) \/ AnswerDiscovery(d) \/ Fail(d)

CatalogueNext ==
  \/ HourPasses \/ Withdraw
  \/ \E w \in Workers : IngestStep(w)
  \/ \E b \in ToSet(Boards) : Command(b)
  \/ \E p \in Captures : Capture(p)
  \/ \E p \in Postings, m \in Moderators : Deactivate(p, m)
  \/ \E d \in Discoveries : Reserve(d) \/ DiscoveryStep(d)

CatalogueSpec == CatalogueInit /\ [][CatalogueNext]_catalogueVars

-----------------------------------------------------------------------------
\* Mutant: whatever is active is offered.
Active(p) == job[p].status = "active"

\* visibleJobSources: what a candidate is offered.
Visible(p) ==
  /\ job[p].status = "active"
  /\ p \in Captures \/ job[p].seen >= hour - MaxAge

\* A posting that its board withdrew is no longer offered once it has aged,
\* however often it was refreshed, captured or read late meanwhile.
WithdrawnDisappears ==
  \A p \in Listings : Visible(p) => hour - lastListed[p] <= MaxAge + Slow

\* What an administrator took down stays down, and stays his: neither a
\* refresh, nor a capture, nor another administrator changes that.
FirstDeactivationStands ==
  [][\A p \in Postings : job[p].status = "deactivated" =>
       job'[p] = [job[p] EXCEPT !.seen = job'[p].seen]]_catalogueVars

\* One refresh at a time in a process, and their starts are a TTL apart.
RefreshesAreSpaced ==
  [][startedAt' # startedAt =>
       Doing("refresh", "idle") /\ startedAt' >= startedAt + Ttl]_catalogueVars

=============================================================================
