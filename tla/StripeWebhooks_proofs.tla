------------------------ MODULE StripeWebhooks_proofs ------------------------
(***************************************************************************)
(* Whatever is delivered late, twice, out of order or at the same time, an  *)
(* effect is recorded and counted once and the verdicts on evidence are     *)
(* true; and unless two handlers of the subscription overlapped, its row is *)
(* Stripe's and its history explains it.                                    *)
(***************************************************************************)
EXTENDS StripeWebhooks, FiniteSetTheorems, TLAPS

CaseStates == {"none", "pending", "resolved_zero", "excluded",
               "excluded_duplicate", "resolved_effect"}
CaseRow == [state: CaseStates, attempts: Nat, fence: Nat,
            lease: {"none", "held", "lapsed"}]
CallRow == [pc: {"idle", "read", "begin", "commit", "evidence", "resolve"},
            event: Nat, reading: States \cup {{}}, seen: BOOLEAN,
            prior: [status: Statuses, plan: Plans, linked: BOOLEAN] \cup {{}},
            part: Parts, fence: Nat]
Claims  == [event: Nat, part: Parts, fence: Nat]
Events  == 1..Len(script)

CasesType  == case \in [Events -> [Parts -> CaseRow]]
EventTypes ==
  /\ script \in Scripts /\ script \in Seq(StripeEvent)
  /\ emitted \in Nat /\ emitted <= Len(script)
  /\ receipts \subseteq Emitted
CallTypes == call \in [Callers -> CallRow] /\ batch \in [Workers -> SUBSET Claims]
CountTypes == IsFiniteSet(effects) /\ counted \in [Kinds -> Nat]

-----------------------------------------------------------------------------
(* Evidence.                                                               *)

Open(e)    == \A p \in Needs(e) : case[e][p].state # "none"
Closing(c) == call[c].pc \in {"evidence", "resolve"}

\* A caller handles an event that Stripe has sent and whose cases are open; it
\* is in a transaction only for an event without a receipt, and looks evidence
\* up only for one with a receipt.
CallsInv ==
  \A c \in Callers :
    /\ ~At(c, "idle") => Event(c) \in Emitted /\ Open(Event(c))
    /\ Closing(c) => Event(c) \in receipts /\ call[c].part \in Needs(Event(c))
    /\ At(c, "commit") => Event(c) \notin receipts
    /\ At(c, "commit") => NotHeld(c)

BatchInv ==
  \A w \in Workers : \A x \in batch[w] :
    x.event \in Emitted /\ x.part \in Needs(x.event) /\ Open(x.event)

\* A case is opened with all the cases of its event, and closed with a receipt.
CasesInv ==
  \A e \in Events, p \in Parts :
    LET state == case[e][p].state IN
      /\ state # "none" => p \in Needs(e) /\ e \in Emitted /\ Open(e)
      /\ e \notin receipts => state \in {"none", "pending"}

\* An effect has the key of its event, which has a receipt.
EffectsInv ==
  \A x \in effects :
    x = [kind |-> x.kind, key |-> KeyOf(x.event, x.kind), event |-> x.event]
      /\ x.event \in receipts

EvidenceInv ==
  /\ EventTypes /\ CasesType /\ CallTypes /\ CountTypes
  /\ CallsInv /\ BatchInv /\ CasesInv /\ EffectsInv
  /\ EffectsAreCounted /\ EvidenceIsTrue

-----------------------------------------------------------------------------
LEMMA InitEvidence == Init => EvidenceInv
<1> SUFFICES ASSUME Init PROVE EvidenceInv
  OBVIOUS
<1> USE DEF Init
<1>1. EventTypes
  BY WebhookConstants DEF EventTypes, Emitted
<1>2. NoCase \in CaseRow /\ NoCase.state = "none"
  BY DEF NoCase, CaseRow, CaseStates
<1>3. CasesType
  BY <1>2 DEF CasesType, Events
<1>4. Idle \in CallRow /\ Idle.pc = "idle"
  BY DEF Idle, CallRow, Parts
<1>5. CallTypes
  BY <1>4 DEF CallTypes, Callers
<1>6. CountTypes
  BY FS_EmptySet DEF CountTypes
<1>7. CallsInv
  BY <1>4 DEF CallsInv, At, Closing
<1>8. BatchInv
  BY DEF BatchInv
<1>9. CasesInv
  BY <1>2 DEF CasesInv, Events
<1>10. EffectsInv /\ EvidenceIsTrue
  BY DEF EffectsInv, EvidenceIsTrue
<1>11. \A k \in Kinds : {x \in effects : x.kind = k} = {}
  OBVIOUS
<1>12. EffectsAreCounted
  BY <1>11, FS_EmptySet DEF EffectsAreCounted
<1> QED
  BY <1>1, <1>3, <1>5, <1>6, <1>7, <1>8, <1>9, <1>10, <1>12 DEF EvidenceInv

-----------------------------------------------------------------------------
(* Most steps write no receipt and no effect, and open cases or change who   *)
(* has leased them, but close none.                                          *)

LEMMA SomeParts == \A e : Needs(e) \subseteq Parts
  BY DEF Needs, Parts

LEMMA SomeEvents == EventTypes => Emitted \subseteq Events
  BY DEF EventTypes, Emitted, Events

LEMMA Rows ==
  ASSUME CasesType, NEW e \in Events, NEW p \in Parts
  PROVE  case[e][p] \in CaseRow /\ case[e][p].state \in CaseStates
  BY DEF CasesType, CaseRow

CasesGrow ==
  \A e \in Events, p \in Parts :
    \/ case'[e][p].state = case[e][p].state
    \/ /\ case[e][p].state = "none" /\ case'[e][p].state = "pending"
       /\ p \in Needs(e) /\ e \in Emitted /\ Open(e)'

RecordsKept == UNCHANGED <<script, emitted, receipts, effects, counted>>

LEMMA OpenStays ==
  ASSUME EventTypes, CasesType, UNCHANGED script, CasesGrow,
         NEW e \in Emitted, Open(e)
  PROVE  Open(e)'
<1>1. Needs(e)' = Needs(e) /\ e \in Events
  BY SomeEvents DEF Needs, Type
<1>2. ASSUME NEW p \in Needs(e) PROVE case'[e][p].state # "none"
  BY <1>1, <1>2, SomeParts DEF Open, CasesGrow
<1> QED
  BY <1>1, <1>2 DEF Open

LEMMA QuietKeeps ==
  ASSUME EvidenceInv, RecordsKept, CasesGrow, CasesType', CallTypes', CallsInv',
         BatchInv'
  PROVE  EvidenceInv'
<1> USE DEF RecordsKept
<1>0. EventTypes /\ CasesType /\ CasesInv
  BY DEF EvidenceInv
<1>1. Events' = Events /\ Emitted' = Emitted /\ \A e : Needs(e)' = Needs(e)
  BY DEF Events, Emitted, Needs, Type
<1>2. EventTypes' /\ CountTypes' /\ EffectsInv' /\ EffectsAreCounted'
  BY <1>1 DEF EvidenceInv, EventTypes, CountTypes, EffectsInv,
              EffectsAreCounted, KeyOf
<1>3. CasesInv'
  <2> SUFFICES ASSUME NEW e \in Events, NEW p \in Parts
               PROVE  LET state == case'[e][p].state IN
                        /\ state # "none" =>
                             p \in Needs(e) /\ e \in Emitted /\ Open(e)'
                        /\ e \notin receipts => state \in {"none", "pending"}
    BY <1>1 DEF CasesInv
  <2>1. CASE case'[e][p].state = case[e][p].state
    BY <1>0, <2>1, OpenStays DEF CasesInv
  <2>2. CASE case[e][p].state = "none" /\ case'[e][p].state = "pending"
             /\ p \in Needs(e) /\ e \in Emitted /\ Open(e)'
    BY <2>2
  <2> QED
    BY <2>1, <2>2 DEF CasesGrow
<1>4. EvidenceIsTrue'
  <2> SUFFICES ASSUME NEW e \in receipts, NEW p \in Needs(e)
               PROVE  case'[e][p].state = case[e][p].state
    BY <1>1, <1>2 DEF EvidenceInv, EvidenceIsTrue, Effective, Taken
  <2>1. e \in Events /\ p \in Parts
    BY <1>0, SomeEvents, SomeParts DEF EventTypes
  <2>2. case[e][p].state # "none"
    BY DEF EvidenceInv, EvidenceIsTrue
  <2> QED
    BY <2>1, <2>2 DEF CasesGrow
<1> QED
  BY <1>2, <1>3, <1>4 DEF EvidenceInv

\* The other callers keep what they have; c has a call that is in order.
LEMMA OneCaller ==
  ASSUME EvidenceInv, UNCHANGED <<script, emitted, receipts>>, CasesGrow,
         NEW c \in Callers, \A o \in Callers \ {c} : call'[o] = call[o],
         ~At(c, "idle")' => Event(c)' \in Emitted /\ Open(Event(c))',
         Closing(c)' => Event(c)' \in receipts
                        /\ call'[c].part \in Needs(Event(c)'),
         At(c, "commit")' => Event(c)' \notin receipts,
         At(c, "commit")' => NotHeld(c)'
  PROVE  CallsInv'
<1>1. Emitted' = Emitted /\ \A e : Needs(e)' = Needs(e)
  BY DEF Emitted, Needs, Type
<1>2. EventTypes /\ CasesType /\ CallsInv
  BY DEF EvidenceInv
<1>3. ASSUME NEW o \in Callers \ {c}
      PROVE  /\ ~At(o, "idle")' => Event(o)' \in Emitted /\ Open(Event(o))'
             /\ Closing(o)' => Event(o)' \in receipts
                               /\ call'[o].part \in Needs(Event(o)')
             /\ At(o, "commit")' => Event(o)' \notin receipts
             /\ At(o, "commit")' => NotHeld(o)'
  <2>1. call'[o] = call[o] /\ Event(o)' = Event(o)
    BY DEF Event
  <2>2. ~At(o, "idle")' => Event(o)' \in Emitted /\ Open(Event(o))'
    <3> SUFFICES ASSUME ~At(o, "idle") PROVE Event(o) \in Emitted /\ Open(Event(o))'
      BY <2>1 DEF At, Open, Needs, Type
    <3>1. Event(o) \in Emitted /\ Open(Event(o))
      BY <1>2 DEF CallsInv
    <3> QED
      BY <1>2, <3>1, OpenStays, <2>1 DEF Open, Event
  <2>3. Closing(o)' => Event(o)' \in receipts /\ call'[o].part \in Needs(Event(o)')
    BY <1>2, <2>1 DEF CallsInv, Closing
  <2>4. At(o, "commit")' => Event(o)' \notin receipts
    BY <1>2, <2>1 DEF CallsInv, At
  <2>5. ASSUME At(o, "commit")' PROVE NotHeld(o)'
    <3>1. At(o, "commit") /\ NotHeld(o)
      BY <1>2, <2>1, <2>5 DEF CallsInv, At
    <3>2. ASSUME NEW q \in Callers \ {o}, At(q, "commit")', Event(q)' = Event(o)'
          PROVE  FALSE
      <4>1. CASE q = c
        BY <2>5, <3>2, <4>1 DEF NotHeld
      <4>2. CASE q # c
        BY <2>1, <3>1, <3>2, <4>2 DEF NotHeld, At, Event
      <4> QED
        BY <4>1, <4>2
    <3> QED
      BY <3>2 DEF NotHeld
  <2> QED
    BY <2>2, <2>3, <2>4, <2>5
<1> QED
  BY <1>1, <1>3 DEF CallsInv

LEMMA BatchKeeps ==
  ASSUME EvidenceInv, UNCHANGED <<script, emitted>>, CasesGrow,
         \A w \in Workers : \A x \in batch'[w] :
           \/ x \in batch[w]
           \/ x.event \in Emitted /\ x.part \in Needs(x.event) /\ Open(x.event)
  PROVE  BatchInv'
<1>1. Emitted' = Emitted /\ \A e : Needs(e)' = Needs(e)
  BY DEF Emitted, Needs, Type
<1>2. EventTypes /\ CasesType /\ BatchInv
  BY DEF EvidenceInv
<1>3. ASSUME NEW w \in Workers, NEW x \in batch'[w]
      PROVE  x.event \in Emitted /\ x.part \in Needs(x.event) /\ Open(x.event)
  BY <1>2, <1>3 DEF BatchInv
<1>4. ASSUME NEW e \in Emitted, Open(e) PROVE Open(e)'
  BY <1>2, <1>4, OpenStays
<1>5. ASSUME NEW w \in Workers, NEW x \in batch'[w] PROVE Open(x.event)'
  <2> DEFINE e == x.event
  <2>1. e \in Emitted /\ Open(e)
    BY <1>3
  <2>2. Open(e)'
    BY <1>4, <2>1 DEF Open
  <2> QED
    BY <2>2
<1> QED
  BY <1>1, <1>3, <1>5 DEF BatchInv

-----------------------------------------------------------------------------
(* The quiet steps one by one.                                             *)

LEMMA StripeStep ==
  ASSUME EvidenceInv, StripeMoves \/ Booked
  PROVE  EvidenceInv'
<1> DEFINE Same == UNCHANGED <<script, rowVars, moneyVars, call, batch>>
<1>1. Same /\ emitted' \in Nat /\ emitted' <= Len(script) /\ emitted <= emitted'
  BY DEF StripeMoves, Booked, EvidenceInv, EventTypes, rowVars, moneyVars
<1>2. Emitted \subseteq Emitted' /\ Events' = Events /\ \A e : Needs(e)' = Needs(e)
  BY <1>1 DEF Emitted, Events, Needs, Type, EvidenceInv, EventTypes
<1>3. \A e : Open(e)' = Open(e)
  BY <1>1, <1>2 DEF Open, moneyVars
<1>4. EventTypes' /\ CasesType' /\ CallTypes' /\ CountTypes'
  BY <1>1, <1>2 DEF EvidenceInv, EventTypes, CasesType, CallTypes, CountTypes,
                    rowVars, moneyVars
<1>5. CallsInv' /\ BatchInv'
  BY <1>1, <1>2, <1>3 DEF EvidenceInv, CallsInv, BatchInv, At, Event, Closing,
                          NotHeld, rowVars
<1>6. CasesInv'
  BY <1>1, <1>2, <1>3 DEF EvidenceInv, CasesInv, moneyVars, rowVars
<1>7. EffectsInv' /\ EffectsAreCounted'
  BY <1>1 DEF EvidenceInv, EffectsInv, EffectsAreCounted, KeyOf, moneyVars, rowVars
<1>8. EvidenceIsTrue'
  BY <1>1, <1>2 DEF EvidenceInv, EvidenceIsTrue, Effective, Taken, moneyVars,
                    rowVars
<1> QED
  BY <1>4, <1>5, <1>6, <1>7, <1>8 DEF EvidenceInv

LEMMA SameCases == UNCHANGED case => CasesGrow
  BY DEF CasesGrow

LEMMA IdleCall == Idle \in CallRow /\ Idle.pc = "idle"
  BY DEF Idle, CallRow, Parts

LEMMA OpenedRows ==
  ASSUME EventTypes, CasesType, CasesInv, NEW e \in Emitted, case' = Opened(e),
         UNCHANGED <<script, emitted>>
  PROVE  CasesType' /\ CasesGrow /\ Open(e)'
<1>1. e \in Events /\ Events' = Events /\ \A x : Needs(x)' = Needs(x)
  BY SomeEvents DEF Events, Needs, Type
<1>2. [NoCase EXCEPT !.state = "pending"] \in CaseRow
      /\ [NoCase EXCEPT !.state = "pending"].state = "pending"
  BY DEF NoCase, CaseRow, CaseStates
<1>3. CasesType'
  BY <1>1, <1>2 DEF CasesType, Opened
<1>4. \A p \in Parts :
        case'[e][p] = IF p \in Needs(e) /\ case[e][p].state = "none"
                        THEN [NoCase EXCEPT !.state = "pending"] ELSE case[e][p]
  BY <1>1 DEF CasesType, Opened
<1>5. \A x \in Events : x # e => case'[x] = case[x]
  BY DEF CasesType, Opened
<1>6. Open(e)'
  BY <1>1, <1>2, <1>4, SomeParts DEF Open
<1>7. CasesGrow
  <2> SUFFICES ASSUME NEW x \in Events, NEW p \in Parts
               PROVE  \/ case'[x][p].state = case[x][p].state
                      \/ /\ case[x][p].state = "none"
                         /\ case'[x][p].state = "pending"
                         /\ p \in Needs(x) /\ x \in Emitted /\ Open(x)'
    BY DEF CasesGrow
  <2>1. CASE x = e
    BY <1>2, <1>4, <1>6, <2>1
  <2>2. CASE x # e
    BY <1>5, <2>2
  <2> QED
    BY <2>1, <2>2
<1> QED
  BY <1>3, <1>6, <1>7

LEMMA ReceiveStep ==
  ASSUME EvidenceInv, NEW d \in Deliveries, Receive(d)
  PROVE  EvidenceInv'
<1>0. d \in Callers
  BY DEF Callers
<1>1. PICK e \in Emitted \ receipts :
        /\ call' = [call EXCEPT ![d].pc = "read", ![d].event = e]
        /\ case' = Opened(e)
  BY DEF Receive
<1>2. RecordsKept /\ batch' = batch
  BY DEF Receive, RecordsKept, stripeVars, rowVars
<1>3. CasesType' /\ CasesGrow /\ Open(e)'
  BY <1>1, <1>2, OpenedRows DEF EvidenceInv, RecordsKept
<1>4. /\ call'[d] = [call[d] EXCEPT !.pc = "read", !.event = e]
      /\ \A o \in Callers \ {d} : call'[o] = call[o]
      /\ call[d] \in CallRow
  BY <1>0, <1>1 DEF EvidenceInv, CallTypes
<1>5. call'[d] \in CallRow /\ call'[d].pc = "read" /\ call'[d].event = e
  <2>1. e \in Nat
    BY <1>1 DEF Emitted, EvidenceInv, EventTypes
  <2> QED
    BY <1>4, <2>1 DEF CallRow
<1>6. CallTypes'
  BY <1>0, <1>1, <1>2, <1>4, <1>5 DEF EvidenceInv, CallTypes
<1>7. CallsInv'
  BY <1>0, <1>1, <1>2, <1>3, <1>4, <1>5, OneCaller
     DEF RecordsKept, At, Closing, Event
<1>8. BatchInv'
  BY <1>2, <1>3, BatchKeeps DEF RecordsKept
<1> QED
  BY <1>2, <1>3, <1>6, <1>7, <1>8, QuietKeeps

\* A caller goes on to another place of its call with the same event.
LEMMA WalkKeeps ==
  ASSUME EvidenceInv, RecordsKept, UNCHANGED <<case, batch>>, NEW c \in Callers,
         NEW r \in CallRow, call' = [call EXCEPT ![c] = r], ~At(c, "idle"),
         r.event = Event(c), r.part = call[c].part,
         r.pc \in {"evidence", "resolve"} => Closing(c),
         r.pc = "commit" => Event(c) \notin receipts /\ NotHeld(c)
  PROVE  EvidenceInv'
<1>1. CasesType' /\ CasesGrow
  BY SameCases DEF EvidenceInv, CasesType, Events, RecordsKept
<1>2. call'[c] = r /\ \A o \in Callers \ {c} : call'[o] = call[o]
  BY DEF EvidenceInv, CallTypes
<1>3. CallTypes'
  BY <1>2 DEF EvidenceInv, CallTypes
<1>4. Event(c) \in Emitted /\ Open(Event(c))
  BY DEF EvidenceInv, CallsInv
<1>5. Open(Event(c))'
  BY <1>1, <1>2, <1>4, OpenStays DEF EvidenceInv, RecordsKept, Open, Event
<1>6. Closing(c)' => Event(c) \in receipts /\ r.part \in Needs(Event(c))
  BY <1>2 DEF Closing, EvidenceInv, CallsInv
<1>7. r.pc = "commit" => NotHeld(c)'
  BY <1>2 DEF NotHeld, At, Event
<1>8. CallsInv'
  BY <1>1, <1>2, <1>4, <1>5, <1>6, <1>7, OneCaller DEF RecordsKept, At, Event
<1>9. BatchInv'
  BY <1>1, BatchKeeps DEF RecordsKept
<1> QED
  BY <1>1, <1>3, <1>8, <1>9, QuietKeeps

LEMMA ReadStep ==
  ASSUME EvidenceInv, NEW c \in Callers, Read(c)
  PROVE  EvidenceInv'
<1> DEFINE e == Event(c)
<1>1. call[c] \in CallRow /\ At(c, "read") /\ e \in Events /\ emitted \in Events
  <2>1. At(c, "read") /\ call[c] \in CallRow
    BY DEF Read, EvidenceInv, CallTypes
  <2>2. e \in Emitted
    BY <2>1 DEF EvidenceInv, CallsInv, At
  <2> QED
    BY <2>1, <2>2 DEF EvidenceInv, EventTypes, Emitted, Events
<1>2. \A i \in Events : script[i] \in StripeEvent
  BY DEF EvidenceInv, EventTypes, Events
<1>3. PICK new \in States \cup {{}} :
        new = CASE Type(e) = "deleted" -> script[e].to
                [] Type(e) \in OfSubscription -> Current
                [] OTHER -> call[c].reading
  BY <1>1, <1>2 DEF StripeEvent, Current, CallRow
<1>4. PICK shown \in BOOLEAN : shown = (Needs(e) # {} /\ script[e].tx \in visible)
  OBVIOUS
<1> DEFINE r == [call[c] EXCEPT !.pc = "begin", !.reading = new, !.seen = shown]
<1>5. r \in CallRow /\ r.event = e /\ r.part = call[c].part /\ r.pc = "begin"
  BY <1>1 DEF CallRow, Event
<1>6. call' = [call EXCEPT ![c] = r]
  <2>1. call' = [call EXCEPT ![c].pc = "begin", ![c].reading = new,
                             ![c].seen = shown]
    BY <1>3, <1>4 DEF Read
  <2> QED
    BY <2>1
<1>7. RecordsKept /\ UNCHANGED <<case, batch>>
  BY DEF Read, RecordsKept, stripeVars, rowVars, moneyVars
<1> QED
  BY <1>1, <1>5, <1>6, <1>7, WalkKeeps DEF At

LEMMA BeginStep ==
  ASSUME EvidenceInv, NEW c \in Callers, BeginTransaction(c),
         sub \in [status: Statuses, plan: Plans, linked: BOOLEAN]
  PROVE  EvidenceInv'
<1> DEFINE r == [call[c] EXCEPT !.pc = "commit",
             !.prior = IF Type(Event(c)) \in OfSubscription THEN sub
                       ELSE call[c].prior]
<1>1. call[c] \in CallRow /\ At(c, "begin")
  BY DEF BeginTransaction, EvidenceInv, CallTypes
<1>2. r \in CallRow /\ r.event = Event(c) /\ r.part = call[c].part
      /\ r.pc = "commit"
  BY <1>1 DEF CallRow, Event
<1>3. call' = [call EXCEPT ![c] = r]
  BY DEF BeginTransaction, EvidenceInv, CallTypes
<1>4. RecordsKept /\ UNCHANGED <<case, batch>>
  BY DEF BeginTransaction, RecordsKept, stripeVars, rowVars, moneyVars
<1> QED
  BY <1>1, <1>2, <1>3, <1>4, WalkKeeps DEF BeginTransaction, At

\* A caller gives up, or is done, and at most lets go of claims.
LEMMA LeaveKeeps ==
  ASSUME EvidenceInv, RecordsKept, CasesType', CasesGrow, NEW c \in Callers,
         call' = [call EXCEPT ![c] = Idle],
         batch' \in [Workers -> SUBSET Claims],
         \A w \in Workers : batch'[w] \subseteq batch[w]
  PROVE  EvidenceInv'
<1>1. call'[c] = Idle /\ \A o \in Callers \ {c} : call'[o] = call[o]
  BY DEF EvidenceInv, CallTypes
<1>2. CallTypes'
  BY IdleCall DEF EvidenceInv, CallTypes
<1>3. CallsInv'
  BY <1>1, IdleCall, OneCaller DEF RecordsKept, At, Closing
<1>4. BatchInv'
  BY BatchKeeps DEF RecordsKept
<1> QED
  BY <1>2, <1>3, <1>4, QuietKeeps

LEMMA ReleasedRows ==
  ASSUME EvidenceInv, UNCHANGED script, NEW w \in Workers, ~At(w, "idle"),
         case' = Released(w)
  PROVE  CasesType' /\ CasesGrow
<1> DEFINE e == Event(w)   p == call[w].part
<1>1. w \in Callers /\ e \in Events /\ p \in Parts
  <2>1. w \in Callers /\ call[w] \in CallRow
    BY DEF Callers, EvidenceInv, CallTypes
  <2>2. e \in Emitted
    BY <2>1 DEF EvidenceInv, CallsInv
  <2> QED
    BY <2>1, <2>2, SomeEvents DEF EvidenceInv, CallRow
<1>2. CasesType /\ Events' = Events
  BY DEF EvidenceInv, Events
<1> DEFINE r == [case[e][p] EXCEPT !.lease = "none"]
<1>3. case[e][p] \in CaseRow
  BY <1>1, <1>2, Rows
<1>4. r \in CaseRow /\ r.state = case[e][p].state
  BY <1>3 DEF CaseRow
<1>5. case' = case \/ case' = [case EXCEPT ![e] = [case[e] EXCEPT ![p] = r]]
  BY <1>1, <1>2 DEF Released, CasesType
<1> HIDE DEF r, e, p
<1>6. CASE case' = case
  BY <1>2, <1>6, SameCases DEF CasesType
<1>7. CASE case' = [case EXCEPT ![e] = [case[e] EXCEPT ![p] = r]]
  BY <1>1, <1>2, <1>4, <1>7 DEF CasesType, CasesGrow
<1> QED
  BY <1>5, <1>6, <1>7

LEMMA CasesStay ==
  ASSUME EvidenceInv, UNCHANGED <<script, case>>
  PROVE  CasesType' /\ CasesGrow
  BY SameCases DEF EvidenceInv, CasesType, Events

LEMMA BatchStays ==
  ASSUME EvidenceInv, UNCHANGED batch
  PROVE  /\ batch' \in [Workers -> SUBSET Claims]
         /\ \A w \in Workers : batch'[w] \subseteq batch[w]
  BY DEF EvidenceInv, CallTypes

LEMMA DuplicateStep ==
  ASSUME EvidenceInv, NEW c \in Callers, Duplicate(c)
  PROVE  EvidenceInv'
<1>1. RecordsKept /\ call' = [call EXCEPT ![c] = Idle] /\ UNCHANGED batch
  BY DEF Duplicate, Over, RecordsKept, stripeVars, rowVars
<1>2. CasesType' /\ CasesGrow
  <2>1. CASE c \in Workers
    BY <1>1, <2>1, ReleasedRows DEF Duplicate, At, RecordsKept
  <2>2. CASE c \notin Workers
    BY <1>1, <2>2, CasesStay DEF Duplicate, RecordsKept
  <2> QED
    BY <2>1, <2>2
<1> QED
  BY <1>1, <1>2, BatchStays, LeaveKeeps

LEMMA FailsStep ==
  ASSUME EvidenceInv, NEW c \in Callers, Fails(c)
  PROVE  EvidenceInv'
<1>1. RecordsKept /\ call' = [call EXCEPT ![c] = Idle]
  BY DEF Fails, RecordsKept, stripeVars, rowVars
<1>2. CasesType' /\ CasesGrow
  <2>1. case' = case \/ (c \in Workers /\ case' = Released(c))
    BY DEF Fails
  <2> QED
    BY <1>1, <2>1, ReleasedRows, CasesStay DEF Fails, RecordsKept
<1>3. /\ batch' \in [Workers -> SUBSET Claims]
      /\ \A w \in Workers : batch'[w] \subseteq batch[w]
  <2>1. CASE c \in Workers
    <3>1. PICK lost : batch' = [batch EXCEPT ![c] = batch[c] \ lost]
      BY <2>1 DEF Fails
    <3> QED
      BY <2>1, <3>1 DEF EvidenceInv, CallTypes
  <2>2. CASE c \notin Workers
    BY <2>2, BatchStays DEF Fails
  <2> QED
    BY <2>1, <2>2
<1> QED
  BY <1>1, <1>2, <1>3, LeaveKeeps

LEMMA ProcessStep ==
  ASSUME EvidenceInv, NEW w \in Workers, Process(w)
  PROVE  EvidenceInv'
<1>0. w \in Callers
  BY DEF Callers
<1>1. PICK x \in batch[w] :
        /\ batch' = [batch EXCEPT ![w] = @ \ {x}]
        /\ call' = [call EXCEPT ![w] = [Idle EXCEPT
             !.pc = IF x.event \in receipts THEN "evidence" ELSE "read",
             !.event = x.event, !.part = x.part, !.fence = x.fence]]
  BY DEF Process
<1>2. RecordsKept /\ UNCHANGED case
  BY DEF Process, RecordsKept, stripeVars, rowVars, moneyVars
<1>3. CasesType' /\ CasesGrow
  BY <1>2, CasesStay DEF RecordsKept
<1>4. x \in Claims /\ x.event \in Emitted /\ x.part \in Needs(x.event)
      /\ Open(x.event)
  BY DEF EvidenceInv, CallTypes, BatchInv
<1> DEFINE r == [Idle EXCEPT
             !.pc = IF x.event \in receipts THEN "evidence" ELSE "read",
             !.event = x.event, !.part = x.part, !.fence = x.fence]
<1>5. /\ r \in CallRow /\ r.event = x.event /\ r.part = x.part
      /\ r.pc \in {"evidence", "read"}
      /\ r.pc = "evidence" => x.event \in receipts
  BY <1>4 DEF Claims, Idle, CallRow
<1> HIDE DEF r
<1>6. call'[w] = r /\ \A o \in Callers \ {w} : call'[o] = call[o]
  BY <1>0, <1>1 DEF EvidenceInv, CallTypes, r
<1>7. CallTypes'
  BY <1>0, <1>1, <1>5 DEF EvidenceInv, CallTypes, r
<1>8. Open(x.event)'
  BY <1>2, <1>4 DEF Open, Needs, Type, RecordsKept
<1>9. CallsInv'
  <2>1. Event(w)' = x.event /\ Open(Event(w))'
    BY <1>5, <1>6, <1>8 DEF Event, Open
  <2> QED
    BY <1>0, <1>2, <1>3, <1>4, <1>5, <1>6, <2>1, OneCaller
       DEF RecordsKept, At, Closing
<1>10. BatchInv'
  <2>1. \A v \in Workers : batch'[v] \subseteq batch[v]
    BY <1>1 DEF EvidenceInv, CallTypes
  <2> QED
    BY <1>2, <1>3, <2>1, BatchKeeps DEF RecordsKept
<1> QED
  BY <1>2, <1>3, <1>7, <1>9, <1>10, QuietKeeps

LEMMA LookUpStep ==
  ASSUME EvidenceInv, NEW w \in Workers, LookUp(w)
  PROVE  EvidenceInv'
<1>1. RecordsKept /\ UNCHANGED batch /\ At(w, "evidence") /\ w \in Callers
  BY DEF LookUp, RecordsKept, stripeVars, rowVars, Callers
<1>2. CASE script[Event(w)].tx \in visible
  <2> DEFINE r == [call[w] EXCEPT !.pc = "resolve"]
  <2>1. call' = [call EXCEPT ![w] = r] /\ UNCHANGED case /\ call[w] \in CallRow
    BY <1>1, <1>2 DEF LookUp, Goto, EvidenceInv, CallTypes
  <2>2. r \in CallRow /\ r.event = Event(w) /\ r.part = call[w].part
        /\ r.pc = "resolve"
    BY <2>1 DEF CallRow, Event
  <2> QED
    BY <1>1, <2>1, <2>2, WalkKeeps DEF At, Closing
<1>3. CASE script[Event(w)].tx \notin visible
  <2>1. call' = [call EXCEPT ![w] = Idle] /\ case' = Released(w)
    BY <1>3 DEF LookUp
  <2> QED
    BY <1>1, <2>1, ReleasedRows, BatchStays, LeaveKeeps DEF At, RecordsKept
<1> QED
  BY <1>2, <1>3

LEMMA LapseStep ==
  ASSUME EvidenceInv, LeaseLapses
  PROVE  EvidenceInv'
<1>1. PICK e \in Emitted, p \in Parts :
        case' = [case EXCEPT ![e][p].lease = "lapsed"]
  BY DEF LeaseLapses
<1>2. RecordsKept /\ UNCHANGED <<call, batch>>
  BY DEF LeaseLapses, RecordsKept, stripeVars, rowVars
<1> DEFINE r == [case[e][p] EXCEPT !.lease = "lapsed"]
<1>3. e \in Events /\ CasesType /\ Events' = Events
  BY <1>2, SomeEvents DEF EvidenceInv, Events, RecordsKept
<1>4. r \in CaseRow /\ r.state = case[e][p].state
  BY <1>3, Rows DEF CaseRow
<1>5. case' = [case EXCEPT ![e] = [case[e] EXCEPT ![p] = r]]
  BY <1>1, <1>3 DEF CasesType
<1> HIDE DEF r
<1>6. CasesType' /\ CasesGrow
  BY <1>3, <1>4, <1>5 DEF CasesType, CasesGrow
<1>7. CallTypes' /\ BatchInv'
  BY <1>2, <1>6, BatchKeeps DEF EvidenceInv, CallTypes, RecordsKept
<1>8. ASSUME NEW c \in Callers PROVE CallsInv'
  <2>1. ~At(c, "idle") => Open(Event(c))'
    <3> SUFFICES ASSUME ~At(c, "idle") PROVE Open(Event(c))'
      OBVIOUS
    <3>1. Event(c) \in Emitted /\ Open(Event(c))
      BY DEF EvidenceInv, CallsInv
    <3> QED
      BY <1>2, <1>6, <3>1, OpenStays DEF EvidenceInv, RecordsKept, Open, Event
  <2> QED
    BY <1>2, <1>6, <2>1, OneCaller
       DEF EvidenceInv, CallsInv, RecordsKept, At, Closing, Event, NotHeld
<1>9. CallsInv'
  BY <1>8 DEF CallsInv
<1> QED
  BY <1>2, <1>6, <1>7, <1>9, QuietKeeps

LEMMA ClaimStep ==
  ASSUME EvidenceInv, NEW w \in Workers, Claim(w)
  PROVE  EvidenceInv'
<1>1. PICK claims \in SUBSET {x \in Emitted \X Parts : Due(x[1], x[2])} :
       /\ case' = [e \in DOMAIN case |-> [p \in Parts |->
            IF <<e, p>> \in claims
              THEN [case[e][p] EXCEPT !.attempts = @ + 1, !.fence = @ + 1,
                                      !.lease = "held"]
              ELSE case[e][p]]]
       /\ batch' = [batch EXCEPT ![w] =
            {[event |-> x[1], part |-> x[2], fence |-> case[x[1]][x[2]].fence + 1]
               : x \in claims}]
  BY DEF Claim
<1>2. RecordsKept /\ UNCHANGED call
  BY DEF Claim, RecordsKept, stripeVars, rowVars
<1>3. EventTypes /\ CasesType /\ Emitted \subseteq Events /\ Events' = Events
  BY <1>2, SomeEvents DEF EvidenceInv, Events, RecordsKept
<1>4. ASSUME NEW e \in Events, NEW p \in Parts
      PROVE  case'[e][p] \in CaseRow /\ case'[e][p].state = case[e][p].state
  <2> DEFINE r == [case[e][p] EXCEPT !.attempts = @ + 1, !.fence = @ + 1,
                                     !.lease = "held"]
  <2>1. case'[e][p] = IF <<e, p>> \in claims THEN r ELSE case[e][p]
    BY <1>1, <1>3 DEF CasesType
  <2>2. case[e][p] \in CaseRow
    BY <1>3, Rows
  <2>3. r \in CaseRow /\ r.state = case[e][p].state
    <3>1. PICK row \in CaseRow : row = case[e][p]
      BY <2>2
    <3>2. row.attempts + 1 \in Nat /\ row.fence + 1 \in Nat
      BY DEF CaseRow
    <3>3. [row EXCEPT !.attempts = row.attempts + 1, !.fence = row.fence + 1,
                      !.lease = "held"] \in CaseRow
      BY <3>2 DEF CaseRow
    <3>4. r.state = row.state
      BY <3>1 DEF CaseRow
    <3> QED
      BY <3>1, <3>3, <3>4
  <2> QED
    BY <2>1, <2>2, <2>3
<1>5. CasesType' /\ CasesGrow
  <2>1. \A e \in Events : case'[e] = [p \in Parts |-> case'[e][p]]
    BY <1>1, <1>3 DEF CasesType
  <2>2. case' = [e \in Events |-> case'[e]]
    BY <1>1, <1>3 DEF CasesType
  <2>3. \A e \in Events : case'[e] \in [Parts -> CaseRow]
    BY <1>4, <2>1
  <2> QED
    BY <1>3, <1>4, <2>2, <2>3 DEF CasesType, CasesGrow
<1>6. ASSUME NEW x \in claims
      PROVE  LET y == [event |-> x[1], part |-> x[2],
                       fence |-> case[x[1]][x[2]].fence + 1]
             IN  /\ y \in Claims /\ y.event \in Emitted
                 /\ y.part \in Needs(y.event) /\ Open(y.event)
  <2>1. x[1] \in Emitted /\ x[2] \in Parts /\ Due(x[1], x[2])
    BY <1>1
  <2>2. x[1] \in Events /\ x[1] \in Nat /\ case[x[1]][x[2]].fence \in Nat
    BY <1>3, <2>1, Rows DEF CaseRow, Events
  <2>3. x[2] \in Needs(x[1]) /\ Open(x[1])
    BY <2>1, <2>2 DEF Due, EvidenceInv, CasesInv
  <2> QED
    BY <2>1, <2>2, <2>3 DEF Claims
<1>7. \A y \in batch'[w] : /\ y \in Claims /\ y.event \in Emitted
                           /\ y.part \in Needs(y.event) /\ Open(y.event)
  <2>1. batch'[w] = {[event |-> x[1], part |-> x[2],
                      fence |-> case[x[1]][x[2]].fence + 1] : x \in claims}
    BY <1>1 DEF EvidenceInv, CallTypes
  <2> QED
    BY <1>6, <2>1
<1>8. \A v \in Workers : v # w => batch'[v] = batch[v]
  BY <1>1 DEF EvidenceInv, CallTypes
<1>9. CallTypes'
  <2>1. batch' \in [Workers -> SUBSET Claims]
    BY <1>1, <1>7, <1>8 DEF EvidenceInv, CallTypes
  <2> QED
    BY <1>2, <2>1 DEF EvidenceInv, CallTypes
<1>10. BatchInv'
  BY <1>2, <1>5, <1>7, <1>8, BatchKeeps DEF RecordsKept
<1>11. w \in Callers /\ call'[w] = call[w] /\ ~(At(w, "commit") \/ Closing(w))
  BY <1>2 DEF Callers, Claim, At, Closing
<1>12. CallsInv'
  BY <1>2, <1>5, <1>11, OneCaller DEF RecordsKept, At, Closing, Event, Claim
<1> QED
  BY <1>2, <1>5, <1>9, <1>10, <1>12, QuietKeeps

-----------------------------------------------------------------------------
(* Effects: each has a key that none of its kind had before, so that what is *)
(* inserted is what the counters count.                                     *)

LEMMA NewAreFinite ==
  ASSUME NEW e, NEW kinds \in SUBSET Kinds
  PROVE  IsFiniteSet(NewEffects(e, kinds))
<1> DEFINE row(k) == [kind |-> k, key |-> KeyOf(e, k), event |-> e]
           all == {row("revenue")} \cup {row("refund")} \cup {row("fee")}
                    \cup {row("movement")}
<1>1. IsFiniteSet(all)
  BY FS_Singleton, FS_Union
<1>2. NewEffects(e, kinds) \in SUBSET all
  BY DEF NewEffects, Kinds
<1> QED
  BY <1>1, <1>2, FS_Subset

LEMMA EffectsAdd ==
  ASSUME CountTypes, EffectsInv, EffectsAreCounted, UNCHANGED script,
         NEW e, NEW kinds \in SUBSET Kinds,
         effects' = effects \cup NewEffects(e, kinds),
         counted' = CountRows(NewEffects(e, kinds), kinds)
  PROVE  CountTypes' /\ EffectsAreCounted'
<1> DEFINE new == NewEffects(e, kinds)
<1>1. IsFiniteSet(new) /\ IsFiniteSet(effects')
  BY NewAreFinite, FS_Union DEF CountTypes
<1>2. /\ \A x \in new : ~Taken(x.kind, x.key)
      /\ \A x, y \in new : x.kind = y.kind => x = y
  BY DEF NewEffects
<1>3. \A x, y \in effects' : x.kind = y.kind /\ x.key = y.key => x = y
  <2>1. \A x \in effects, y \in new : ~(x.kind = y.kind /\ x.key = y.key)
    BY <1>2 DEF Taken
  <2>2. \A x, y \in effects : x.kind = y.kind /\ x.key = y.key => x = y
    BY DEF EffectsAreCounted
  <2> HIDE DEF new
  <2>3. effects' = effects \cup new
    BY DEF new
  <2> QED
    BY <1>2, <2>1, <2>2, <2>3
<1>4. ASSUME NEW k \in Kinds
      PROVE  /\ counted'[k] = Cardinality({x \in effects' : x.kind = k})
             /\ counted'[k] \in Nat
  <2> DEFINE A == {x \in effects : x.kind = k}
             B == {x \in new : x.kind = k}
             C == {x \in effects' : x.kind = k}
  <2>1. IsFiniteSet(A) /\ IsFiniteSet(B)
    BY <1>1, FS_Subset DEF CountTypes
  <2>2. A \cap B = {} /\ C = A \cup B
    BY <1>2 DEF Taken
  <2>3. counted'[k] = counted[k] + Cardinality(B) /\ counted[k] = Cardinality(A)
    BY DEF CountRows, EffectsAreCounted
  <2> HIDE DEF A, B, C
  <2>4. Cardinality(A) \in Nat /\ Cardinality(B) \in Nat
    BY <2>1, FS_CardinalityType
  <2>5. Cardinality(A \cup B) = Cardinality(A) + Cardinality(B)
    <3>1. Cardinality(A \cup B)
            = Cardinality(A) + Cardinality(B) - Cardinality(A \cap B)
      BY <2>1, FS_Union
    <3>2. Cardinality(A \cap B) = 0
      BY <2>2, FS_EmptySet
    <3> QED
      BY <2>4, <3>1, <3>2
  <2>6. counted'[k] = Cardinality(C) /\ counted'[k] \in Nat
    BY <2>2, <2>3, <2>4, <2>5
  <2> QED
    BY <2>6 DEF C
<1>5. counted' = [k \in Kinds |-> counted'[k]]
  BY DEF CountRows
<1> QED
  BY <1>1, <1>3, <1>4, <1>5 DEF CountTypes, EffectsAreCounted

\* An event is judged: of the parts in judged the verdict is written, with the
\* effects among them, and the receipt is there.
LEMMA Judged ==
  ASSUME EvidenceInv, UNCHANGED <<script, emitted>>,
         NEW e \in Emitted, Open(e), NEW kinds \in SUBSET Kinds,
         NEW judged \in SUBSET Needs(e),
         effects' = effects \cup NewEffects(e, kinds),
         receipts' = receipts \cup {e},
         \A p \in judged : /\ case[e][p].state = "pending"
                           /\ case'[e][p].state = Verdict(e, p)
                           /\ p \in kinds <=> Effective(e, p),
         \A p \in Parts \ judged : case'[e][p].state = case[e][p].state,
         \A p \in Needs(e) \ judged : p \notin kinds,
         \A x \in Events : x # e => case'[x] = case[x]
  PROVE  /\ CasesInv' /\ EffectsInv' /\ EvidenceIsTrue'
         /\ \A x \in Emitted : Open(x) => Open(x)'
<1> DEFINE new == NewEffects(e, kinds)
<1>1. /\ Events' = Events /\ Emitted' = Emitted /\ \A x : Needs(x)' = Needs(x)
      /\ \A x, p : Effective(x, p)' = Effective(x, p)
      /\ \A x, k : KeyOf(x, k)' = KeyOf(x, k)
  BY DEF Events, Emitted, Needs, Type, Effective, KeyOf
<1>2. Emitted \subseteq Events /\ EventTypes /\ CasesType
  BY SomeEvents DEF EvidenceInv
<1>3. \A p : Verdict(e, p) \notin {"none", "pending"}
  BY DEF Verdict
<1>4. ASSUME NEW x \in Events, NEW p \in Parts
      PROVE  \/ case'[x][p].state = case[x][p].state
             \/ /\ x = e /\ p \in judged /\ case[x][p].state = "pending"
                /\ case'[x][p].state \notin {"none", "pending"}
  BY <1>3
<1>5. ASSUME NEW x \in Events, Open(x) PROVE Open(x)'
  BY <1>1, <1>4, <1>5, SomeParts DEF Open
<1>6. CasesInv'
  <2> SUFFICES ASSUME NEW x \in Events, NEW p \in Parts
               PROVE  LET state == case'[x][p].state IN
                        /\ state # "none" =>
                             p \in Needs(x) /\ x \in Emitted /\ Open(x)'
                        /\ x \notin receipts' => state \in {"none", "pending"}
    BY <1>1 DEF CasesInv
  <2>1. CASE case'[x][p].state = case[x][p].state
    BY <1>5, <2>1 DEF EvidenceInv, CasesInv
  <2>2. CASE x = e /\ p \in judged
    BY <1>2, <1>5, <2>2
  <2> QED
    BY <1>4, <2>1, <2>2
<1>7. EffectsInv'
  BY <1>1 DEF EvidenceInv, EffectsInv, NewEffects
<1>8. ASSUME NEW p, NEW x, x # e
      PROVE  \A key : LET y == [kind |-> p, key |-> key, event |-> x]
                      IN  y \in effects' <=> y \in effects
  BY <1>8 DEF NewEffects
<1>9. ASSUME NEW p \in Parts
      PROVE  LET y == [kind |-> p, key |-> script[e].tx, event |-> e]
             IN  y \in new <=> p \in kinds /\ ~Taken(p, script[e].tx)
  BY <1>9 DEF NewEffects, KeyOf, Parts
<1>10. \A k, key : Taken(k, key) => Taken(k, key)'
  BY DEF Taken
<1>11. ASSUME NEW p \in Needs(e), p \in judged \/ e \notin receipts
       PROVE  /\ case[e][p].state = "pending"
              /\ [kind |-> p, key |-> script[e].tx, event |-> e] \notin effects
  <2>1. p \in Parts /\ case[e][p].state # "none"
    BY SomeParts DEF Open
  <2>2. case[e][p].state = "pending"
    BY <1>2, <1>11, <2>1 DEF EvidenceInv, CasesInv
  <2>3. CASE e \in receipts
    BY <2>2, <2>3 DEF EvidenceInv, EvidenceIsTrue
  <2>4. CASE e \notin receipts
    BY <2>2, <2>4 DEF EvidenceInv, EffectsInv
  <2> QED
    BY <2>2, <2>3, <2>4
<1>12. ASSUME NEW x \in receipts', NEW p \in Needs(x)
       PROVE  LET state == case'[x][p].state
                  y == [kind |-> p, key |-> script[x].tx, event |-> x]
              IN  /\ state # "none"
                  /\ state = "resolved_effect" <=> y \in effects'
                  /\ state # "pending" /\ Effective(x, p) =>
                       Taken(p, script[x].tx)'
  <2> DEFINE y == [kind |-> p, key |-> script[x].tx, event |-> x]
  <2>0. p \in Parts /\ x \in Events
    BY <1>2, SomeParts DEF EventTypes
  <2>1. CASE x # e
    BY <1>8, <1>10, <2>0, <2>1 DEF EvidenceInv, EvidenceIsTrue
  <2>2. CASE x = e /\ p \in judged
    <3>1. case'[e][p].state = Verdict(e, p) /\ y \notin effects
          /\ (p \in kinds <=> Effective(e, p))
      BY <1>11, <2>2
    <3>2. y \in effects' <=> Effective(e, p) /\ ~Taken(p, script[e].tx)
      BY <1>9, <2>0, <2>2, <3>1
    <3>3. y \in effects' => Taken(p, script[e].tx)'
      BY <2>2 DEF Taken
    <3>4. /\ Verdict(e, p) = "resolved_effect" <=>
               Effective(e, p) /\ ~Taken(p, script[e].tx)
          /\ Verdict(e, p) # "none"
      BY DEF Verdict
    <3> QED
      BY <1>10, <2>2, <3>1, <3>2, <3>3, <3>4
  <2>3. CASE x = e /\ p \notin judged
    <3>1. case'[e][p].state = case[e][p].state /\ p \notin kinds
      BY <2>0, <2>3
    <3>2. y \in effects' <=> y \in effects
      BY <1>9, <2>0, <2>3, <3>1
    <3>3. CASE e \in receipts
      BY <1>10, <2>3, <3>1, <3>2, <3>3 DEF EvidenceInv, EvidenceIsTrue
    <3>4. CASE e \notin receipts
      BY <1>11, <2>3, <3>1, <3>2, <3>4
    <3> QED
      BY <3>3, <3>4
  <2> QED
    BY <2>1, <2>2, <2>3
<1>13. EvidenceIsTrue'
  BY <1>1, <1>12 DEF EvidenceIsTrue
<1> QED
  BY <1>2, <1>5, <1>6, <1>7, <1>13

-----------------------------------------------------------------------------
(* The two steps that record effects.                                      *)

\* A caller that has recorded what it had to is done.
LEMMA DoneKeeps ==
  ASSUME EvidenceInv, UNCHANGED <<script, emitted, batch>>, NEW c \in Callers,
         ~At(c, "idle"), At(c, "commit") \/ Event(c) \in receipts,
         call' = [call EXCEPT ![c] = Idle],
         receipts' = receipts \cup {Event(c)},
         \A x \in Emitted : Open(x) => Open(x)'
  PROVE  EventTypes' /\ CallTypes' /\ CallsInv' /\ BatchInv'
<1>1. Emitted' = Emitted /\ \A x : Needs(x)' = Needs(x)
  BY DEF Emitted, Needs, Type
<1>2. call'[c] = Idle /\ \A o \in Callers \ {c} : call'[o] = call[o]
  BY DEF EvidenceInv, CallTypes
<1>3. CallTypes'
  BY IdleCall DEF EvidenceInv, CallTypes
<1>4. Event(c) \in Emitted
  BY DEF EvidenceInv, CallsInv
<1>5. EventTypes'
  BY <1>1, <1>4 DEF EvidenceInv, EventTypes
<1>6. ASSUME NEW o \in Callers
      PROVE  /\ ~At(o, "idle")' => Event(o)' \in Emitted /\ Open(Event(o))'
             /\ Closing(o)' => Event(o)' \in receipts'
                               /\ call'[o].part \in Needs(Event(o)')
             /\ At(o, "commit")' => Event(o)' \notin receipts'
             /\ At(o, "commit")' => NotHeld(o)'
  <2>1. CASE o = c
    BY <1>2, <2>1, IdleCall DEF At, Closing
  <2>2. CASE o # c
    <3>1. call'[o] = call[o] /\ Event(o)' = Event(o)
      BY <1>2, <2>2 DEF Event
    <3>2. ~At(o, "idle")' => Event(o)' \in Emitted /\ Open(Event(o))'
      <4> SUFFICES ASSUME ~At(o, "idle")
                   PROVE  Event(o) \in Emitted /\ Open(Event(o))'
        BY <3>1 DEF At
      <4>1. Event(o) \in Emitted /\ Open(Event(o))
        BY DEF EvidenceInv, CallsInv
      <4> QED
        BY <3>1, <4>1 DEF Open, Event
    <3>3. Closing(o)' => Event(o)' \in receipts' /\ call'[o].part \in Needs(Event(o)')
      BY <3>1 DEF EvidenceInv, CallsInv, Closing
    <3>4. At(o, "commit")' => Event(o)' \notin receipts'
      <4> SUFFICES ASSUME At(o, "commit") PROVE Event(o) # Event(c)
        BY <3>1 DEF EvidenceInv, CallsInv, At
      <4>1. Event(o) \notin receipts /\ NotHeld(o)
        BY DEF EvidenceInv, CallsInv
      <4> QED
        BY <2>2, <4>1 DEF NotHeld
    <3>5. At(o, "commit")' => NotHeld(o)'
      <4> SUFFICES ASSUME At(o, "commit") PROVE NotHeld(o)'
        BY <3>1 DEF At
      <4>1. NotHeld(o)
        BY DEF EvidenceInv, CallsInv
      <4>2. \A q \in Callers : At(q, "commit")' => call'[q] = call[q]
        BY <1>2, IdleCall DEF At
      <4> QED
        BY <3>1, <4>1, <4>2 DEF NotHeld, At, Event
    <3> QED
      BY <3>2, <3>3, <3>4, <3>5
  <2> QED
    BY <2>1, <2>2
<1>7. CallsInv'
  BY <1>1, <1>6 DEF CallsInv
<1>8. BatchInv'
  <2> SUFFICES ASSUME NEW w \in Workers, NEW x \in batch[w]
               PROVE  Open(x.event)'
    BY <1>1 DEF EvidenceInv, BatchInv
  <2> DEFINE e == x.event
  <2>1. e \in Emitted /\ Open(e)
    BY DEF EvidenceInv, BatchInv
  <2>2. Open(e)'
    BY <2>1 DEF Open
  <2> QED
    BY <2>2
<1> QED
  BY <1>3, <1>5, <1>7, <1>8

LEMMA VerdictStates == \A e, p : Verdict(e, p) \in CaseStates
  BY DEF Verdict, CaseStates

LEMMA CommitEvidence ==
  ASSUME EvidenceInv, NEW c \in Callers, Commit(c)
  PROVE  EvidenceInv'
<1> DEFINE e == Event(c)   kinds == KindsOf(c)
           judged == {p \in Needs(e) : call[c].seen}
<1>1. /\ UNCHANGED <<script, emitted, batch>> /\ At(c, "commit")
      /\ call' = [call EXCEPT ![c] = Idle] /\ receipts' = receipts \cup {e}
      /\ effects' = effects \cup NewEffects(e, kinds)
      /\ counted' = CountRows(NewEffects(e, kinds), kinds)
      /\ case' = Completed(c)
  BY DEF Commit, Over, stripeVars
<1>2. e \in Emitted /\ e \in Events /\ Open(e) /\ e \notin receipts
  BY <1>1, SomeEvents DEF EvidenceInv, CallsInv, At
<1>3. Needs(e) \subseteq Parts /\ Parts \subseteq Kinds
  BY SomeParts DEF Parts, Kinds
<1>4. kinds \in SUBSET Kinds
  BY <1>3 DEF KindsOf, Kinds
<1>5. \A p \in Needs(e) : case[e][p].state = "pending"
  BY <1>2, <1>3 DEF EvidenceInv, CasesInv, Open
<1>6. \A p \in Parts : p \in kinds <=> p \in judged /\ Effective(e, p)
  BY <1>3 DEF KindsOf, Parts
<1>7. ASSUME NEW p \in Parts
      PROVE  /\ case'[e][p] \in CaseRow
             /\ p \in judged => case'[e][p].state = Verdict(e, p)
             /\ p \notin judged => case'[e][p].state = case[e][p].state
  <2> DEFINE r == [case[e][p] EXCEPT !.state = Verdict(e, p), !.lease = "none"]
  <2>1. case'[e][p] = IF p \in judged THEN r ELSE case[e][p]
    BY <1>1, <1>2, <1>5 DEF Completed, EvidenceInv, CasesType
  <2>2. case[e][p] \in CaseRow
    BY <1>2, Rows DEF EvidenceInv
  <2>3. r \in CaseRow /\ r.state = Verdict(e, p)
    BY <2>2, VerdictStates DEF CaseRow
  <2> QED
    BY <2>1, <2>2, <2>3
<1>8. \A x \in Events : x # e => case'[x] = case[x]
  BY <1>1 DEF Completed, EvidenceInv, CasesType
<1>9. CasesType'
  <2>1. case' = [x \in Events |-> case'[x]] /\ Events' = Events
    BY <1>1 DEF Completed, EvidenceInv, CasesType, Events
  <2>2. case'[e] = [p \in Parts |-> case'[e][p]]
    BY <1>1, <1>2 DEF Completed, EvidenceInv, CasesType
  <2>3. \A x \in Events : case'[x] \in [Parts -> CaseRow]
    BY <1>7, <1>8, <2>2 DEF EvidenceInv, CasesType
  <2> QED
    BY <2>1, <2>3 DEF CasesType
<1>10. CountTypes' /\ EffectsAreCounted'
  BY <1>1, <1>4, EffectsAdd DEF EvidenceInv
<1>11. judged \in SUBSET Needs(e)
  OBVIOUS
<1>12. /\ \A p \in judged : /\ case[e][p].state = "pending"
                            /\ case'[e][p].state = Verdict(e, p)
                            /\ p \in kinds <=> Effective(e, p)
       /\ \A p \in Parts \ judged : case'[e][p].state = case[e][p].state
       /\ \A p \in Needs(e) \ judged : p \notin kinds
  BY <1>3, <1>5, <1>6, <1>7
<1> HIDE DEF e, kinds, judged
<1>13. /\ CasesInv' /\ EffectsInv' /\ EvidenceIsTrue'
       /\ \A x \in Emitted : Open(x) => Open(x)'
  BY <1>1, <1>2, <1>4, <1>8, <1>11, <1>12, Judged
<1>14. EventTypes' /\ CallTypes' /\ CallsInv' /\ BatchInv'
  BY <1>1, <1>13, DoneKeeps DEF At, e
<1> QED
  BY <1>9, <1>10, <1>13, <1>14 DEF EvidenceInv

LEMMA ResolveStep ==
  ASSUME EvidenceInv, NEW w \in Workers, Resolve(w)
  PROVE  EvidenceInv'
<1> DEFINE e == Event(w)   p == call[w].part
           kinds == IF Effective(e, p) THEN {p} ELSE {}
<1>1. /\ UNCHANGED <<script, emitted, receipts, batch>> /\ At(w, "resolve")
      /\ call' = [call EXCEPT ![w] = Idle] /\ w \in Callers
  BY DEF Resolve, Over, stripeVars, rowVars, Callers
<1>2. e \in Emitted /\ e \in Events /\ Open(e) /\ e \in receipts /\ p \in Needs(e)
  BY <1>1, SomeEvents DEF EvidenceInv, CallsInv, At, Closing
<1>3. CASE ~OwnsLease(w)
  <2>1. case' = Released(w) /\ RecordsKept
    BY <1>1, <1>3 DEF Resolve, RecordsKept
  <2> QED
    BY <1>1, <2>1, ReleasedRows, BatchStays, LeaveKeeps DEF At
<1>4. CASE OwnsLease(w)
  <2>1. /\ effects' = effects \cup NewEffects(e, kinds)
        /\ counted' = CountRows(NewEffects(e, kinds), kinds)
        /\ case' = [case EXCEPT ![e][p].state = Verdict(e, p),
                                ![e][p].lease = "none"]
    <3>1. NewEffects(e, {}) = {}
      BY DEF NewEffects
    <3> QED
      BY <1>4, <3>1 DEF Resolve
  <2>2. p \in Parts /\ case[e][p].state = "pending"
    BY <1>2, <1>4, SomeParts DEF OwnsLease
  <2> DEFINE r == [case[e][p] EXCEPT !.state = Verdict(e, p), !.lease = "none"]
  <2>3. r \in CaseRow /\ r.state = Verdict(e, p)
    <3>1. case[e][p] \in CaseRow
      BY <1>2, <2>2, Rows DEF EvidenceInv
    <3> QED
      BY <3>1, VerdictStates DEF CaseRow
  <2>4. case' = [case EXCEPT ![e] = [case[e] EXCEPT ![p] = r]]
    BY <1>2, <2>1, <2>2 DEF EvidenceInv, CasesType
  <2>5. kinds \in SUBSET Kinds /\ (p \in kinds <=> Effective(e, p))
        /\ \A q : q # p => q \notin kinds
    BY <2>2 DEF Parts, Kinds
  <2>6. CountTypes' /\ EffectsAreCounted'
    BY <1>1, <2>1, <2>5, EffectsAdd DEF EvidenceInv
  <2>7. receipts' = receipts \cup {e}
    BY <1>1, <1>2
  <2> HIDE DEF r, e, p, kinds
  <2>8. /\ CasesType'
        /\ \A x \in Events : x # e => case'[x] = case[x]
        /\ \A q \in Parts \ {p} : case'[e][q].state = case[e][q].state
        /\ case'[e][p].state = Verdict(e, p)
    BY <1>1, <1>2, <2>2, <2>3, <2>4 DEF EvidenceInv, CasesType, Events
  <2>9. {p} \in SUBSET Needs(e)
    BY <1>2
  <2>10. /\ CasesInv' /\ EffectsInv' /\ EvidenceIsTrue'
         /\ \A x \in Emitted : Open(x) => Open(x)'
    <3> DEFINE judged == {p}
    <3>1. judged \in SUBSET Needs(e)
      BY <2>9
    <3>2. /\ \A q \in judged : /\ case[e][q].state = "pending"
                               /\ case'[e][q].state = Verdict(e, q)
                               /\ q \in kinds <=> Effective(e, q)
          /\ \A q \in Parts \ judged : case'[e][q].state = case[e][q].state
          /\ \A q \in Needs(e) \ judged : q \notin kinds
      BY <2>2, <2>5, <2>8
    <3> HIDE DEF judged
    <3> QED
      BY <1>1, <1>2, <2>1, <2>5, <2>7, <2>8, <3>1, <3>2, Judged
  <2>11. EventTypes' /\ CallTypes' /\ CallsInv' /\ BatchInv'
    BY <1>1, <1>2, <2>7, <2>10, DoneKeeps DEF At, e
  <2> QED
    BY <2>6, <2>8, <2>10, <2>11 DEF EvidenceInv
<1> QED
  BY <1>3, <1>4

-----------------------------------------------------------------------------
(* The row of the subscription.                                            *)

Of(e)       == Type(e) \in OfSubscription
Handling(c) == call[c].pc \in {"begin", "commit"} /\ Of(Event(c))

\* The last that Stripe has told of the subscription.
Latest(e) == e \in Emitted /\ Of(e) /\ \A k \in e + 1 .. emitted : ~Of(k)
Settled   == \E e \in receipts : Latest(e)

Row == [status: Statuses, plan: Plans, linked: BOOLEAN]

RowTypes == sub \in Row /\ crossed \in BOOLEAN

\* Whoever has told of the subscription, something is the latest.
LatestInv == (\E e \in Emitted : Of(e)) => \E e \in Emitted : Latest(e)

\* A handler has read from Stripe, the latest event what Stripe still has.
ReadingInv ==
  \A c \in Callers : Handling(c) =>
    /\ call[c].reading \in States
    /\ Latest(Event(c)) => Target(c) = Entitlement(Current)

\* Until handlers overlap, the one in a transaction has the row before it ...
PriorInv == \A c \in Callers : At(c, "commit") /\ Handling(c) => call[c].prior = sub

\* ... and once the latest event has its receipt, the row is Stripe's, and so is
\* what a handler is about to write.
SettledInv ==
  Settled =>
    /\ sub.linked => State(sub) = Entitlement(Current)
    /\ \A c \in Callers : Handling(c) => Target(c) = Entitlement(Current)

LinkedInv == (\E e \in receipts : Type(e) = "checkout") => sub.linked

RowInv ==
  /\ RowTypes /\ LatestInv /\ ReadingInv /\ LinkedInv
  /\ ~crossed => PriorInv /\ SettledInv /\ limits = sub.plan

-----------------------------------------------------------------------------
LEMMA Entitled ==
  ASSUME NEW s \in States
  PROVE  /\ Entitlement(s) \in States
         /\ Entitlement(s).status = s.status
         /\ Entitlement(s).plan =
              IF s.status \in {"active", "trialing", "past_due"} THEN s.plan
              ELSE "free"
         /\ Entitlement(Entitlement(s)) = Entitlement(s)
  BY DEF Entitlement, States, Plans

Ended == [status |-> "canceled", plan |-> "free"]

LEMMA EndedIsEntitled == Ended \in States /\ Entitlement(Ended) = Ended
  BY DEF Ended, States, Statuses, Plans, Entitlement

LEMMA TargetIsEntitled ==
  ASSUME NEW c, call[c].reading \in States
  PROVE  Target(c) \in States /\ Entitlement(Target(c)) = Target(c)
  BY Entitled, EndedIsEntitled DEF Target, Ended

LEMMA ScriptTells ==
  ASSUME EventTypes, NEW i \in Emitted
  PROVE  /\ script[i] \in StripeEvent /\ emitted \in Emitted /\ Current \in States
         /\ Type(i) = "deleted" => Entitlement(Current) = Ended
<1>1. i \in 1..Len(script) /\ emitted \in 1..Len(script) /\ i <= emitted
      /\ emitted \in Emitted
  BY DEF EventTypes, Emitted
<1>2. script[i] \in StripeEvent /\ script[emitted] \in StripeEvent
  BY <1>1 DEF EventTypes
<1>3. Tells(script)
  BY WebhookConstants DEF EventTypes
<1>4. Type(i) = "deleted" => Current.status = "canceled"
  BY <1>1, <1>3 DEF Tells, Type, Current, EventTypes
<1>5. Current \in States
  BY <1>2 DEF Current, StripeEvent
<1>6. Current.status = "canceled" => Entitlement(Current) = Ended
  BY <1>5 DEF Entitlement, Ended, States
<1> QED
  BY <1>1, <1>2, <1>4, <1>5, <1>6

LEMMA InitRow == Init => RowInv
<1> SUFFICES ASSUME Init PROVE RowInv
  OBVIOUS
<1>1. sub \in Row /\ ~crossed /\ crossed \in BOOLEAN /\ sub.plan = "free"
  BY DEF Init, Row, Statuses, Plans
<1>2. Emitted = {} /\ receipts = {}
  BY DEF Init, Emitted
<1>3. \A c \in Callers : ~Handling(c) /\ ~At(c, "commit")
  BY IdleCall DEF Init, Handling, At
<1> QED
  BY <1>1, <1>2, <1>3
     DEF Init, RowInv, RowTypes, LatestInv, ReadingInv, LinkedInv, PriorInv,
         SettledInv, Settled

\* What Stripe emits does not touch the row; it is the latest, or Stripe still
\* has what it had.
LEMMA EmitRow ==
  ASSUME EvidenceInv, RowInv, StripeMoves
  PROVE  RowInv'
<1>0. PICK n \in Nat : n = emitted + 1
  BY DEF EvidenceInv, EventTypes
<1>1. /\ emitted' = emitted + 1 /\ emitted < Len(script)
      /\ UNCHANGED <<script, sub, limits, receipts, call, crossed>>
      /\ emitted \in Nat /\ EventTypes
  BY DEF StripeMoves, rowVars, EvidenceInv, EventTypes
<1>2. Emitted' = Emitted \cup {n} /\ n \notin Emitted /\ \A e : Of(e)' = Of(e)
  BY <1>0, <1>1 DEF Emitted, Of, Type
<1>3. \A c : /\ Handling(c)' = Handling(c) /\ At(c, "commit")' = At(c, "commit")
             /\ Event(c)' = Event(c) /\ Target(c)' = Target(c)
  BY <1>1 DEF Handling, At, Event, Target, Of, Type
<1>4. ASSUME Of(n), NEW e \in Emitted PROVE ~Latest(e)'
  <2>1. n \in e + 1 .. n /\ n = emitted'
    BY <1>0, <1>1, <1>4 DEF Emitted
  <2> QED
    BY <1>2, <1>4, <2>1 DEF Latest
<1>5. ASSUME ~Of(n)
      PROVE  /\ \A e \in Emitted : Latest(e)' <=> Latest(e)
             /\ ~Latest(n)'
             /\ Emitted # {} => Current' = Current
  <2>1. ASSUME NEW e \in Emitted PROVE Latest(e)' <=> Latest(e)
    <3>1. e + 1 .. emitted' = (e + 1 .. emitted) \cup {n}
      BY <1>0, <1>1, <2>1 DEF Emitted
    <3> QED
      BY <1>2, <1>5, <3>1 DEF Latest
  <2>2. ~Latest(n)'
    BY <1>2, <1>5 DEF Latest
  <2>3. ASSUME Emitted # {} PROVE Current' = Current
    <3>1. emitted \in DOMAIN script /\ n \in DOMAIN script /\ emitted <= n
      BY <1>0, <1>1, <2>3 DEF Emitted, EventTypes
    <3>2. \A k \in emitted + 1 .. n : script[k].type \notin OfSubscription
      BY <1>0, <1>1, <1>5 DEF Of, Type
    <3>3. Tells(script)
      BY <1>0, <1>1, WebhookConstants DEF EventTypes
    <3>4. script[n].to = script[emitted].to
      BY <3>1, <3>2, <3>3 DEF Tells
    <3> QED
      BY <1>0, <1>1, <3>4 DEF Current
  <2> QED
    BY <2>1, <2>2, <2>3
<1>6. LatestInv'
  <2>1. CASE Of(n)
    <3>1. \A k \in n + 1 .. n : FALSE
      BY <1>0, <1>1
    <3>2. Latest(n)'
      BY <1>0, <1>1, <1>2, <2>1, <3>1 DEF Latest
    <3> QED
      BY <1>2, <3>2 DEF LatestInv
  <2>2. CASE ~Of(n)
    BY <1>2, <1>5, <2>2 DEF LatestInv, RowInv
  <2> QED
    BY <2>1, <2>2
<1>7. \A c \in Callers : Handling(c) => Event(c) \in Emitted
  BY DEF EvidenceInv, CallsInv, Handling, At
<1>8. ReadingInv'
  <2> SUFFICES ASSUME NEW c \in Callers, Handling(c)
               PROVE  /\ call[c].reading \in States
                      /\ Latest(Event(c))' => Target(c) = Entitlement(Current')
    <3>1. ASSUME NEW c \in Callers, Handling(c)'
          PROVE  /\ call'[c].reading \in States
                 /\ Latest(Event(c))' => Target(c)' = Entitlement(Current)'
      BY <1>0, <1>1, <1>3, <3>1 DEF Entitlement
    <3> QED
      BY <3>1 DEF ReadingInv
  <2>1. Event(c) \in Emitted /\ Event(c)' = Event(c)
    BY <1>3, <1>7
  <2>2. CASE Of(n)
    <3>1. ~Latest(Event(c))'
      BY <1>4, <2>1, <2>2 DEF Latest
    <3> QED
      BY <3>1 DEF RowInv, ReadingInv
  <2>3. CASE ~Of(n)
    <3>1. Latest(Event(c))' => Latest(Event(c))
      BY <1>5, <2>1, <2>3 DEF Latest
    <3> QED
      BY <1>5, <2>1, <2>3, <3>1 DEF RowInv, ReadingInv
  <2> QED
    BY <2>2, <2>3
<1>9. ASSUME SettledInv PROVE SettledInv'
  <2> SUFFICES ASSUME Settled' PROVE SettledInv'
    BY DEF SettledInv
  <2>1. PICK e \in receipts : Latest(e)'
    BY <1>1 DEF Settled
  <2>2. e \in Emitted
    BY <1>1 DEF EventTypes
  <2>3. ~Of(n)
    BY <1>4, <2>1, <2>2
  <2>4. Settled /\ Current' = Current
    BY <1>5, <2>1, <2>2, <2>3 DEF Settled
  <2>5. Entitlement(Current)' = Entitlement(Current)
    BY <2>4 DEF Entitlement
  <2> QED
    BY <1>0, <1>1, <1>3, <1>9, <2>4, <2>5 DEF SettledInv, State
<1>10. PriorInv' = PriorInv /\ LinkedInv' = LinkedInv /\ RowTypes' = RowTypes
  BY <1>0, <1>1, <1>3 DEF PriorInv, LinkedInv, RowTypes, Type
<1> QED
  BY <1>0, <1>1, <1>6, <1>8, <1>9, <1>10 DEF RowInv

\* A handler keeps what it has read, and in a transaction its row, or it has
\* just read what Stripe has.
Keeps(c) ==
  /\ Handling(c) /\ Event(c)' = Event(c)
  /\ call'[c].reading = call[c].reading
  /\ At(c, "commit")' => \/ At(c, "commit") /\ call'[c].prior = call[c].prior
                         \/ call'[c].prior = sub
Reads(c) ==
  /\ At(c, "begin")' /\ call'[c].reading \in States
  /\ Target(c)' = Entitlement(Current)

RowKept ==
  /\ UNCHANGED <<script, emitted, sub, limits, crossed>>
  /\ receipts \subseteq receipts' /\ \A e \in receipts' \ receipts : ~Of(e)

LEMMA HandlersRow ==
  ASSUME EvidenceInv, RowInv, RowKept,
         \A c \in Callers : Handling(c)' => Keeps(c) \/ Reads(c)
  PROVE  RowInv'
<1> USE DEF RowKept
<1>1. /\ Emitted' = Emitted /\ \A e : Of(e)' = Of(e) /\ Latest(e)' = Latest(e)
      /\ \A e : Type(e)' = Type(e)
      /\ Entitlement(Current)' = Entitlement(Current)
  BY DEF Emitted, Of, Type, Latest, Current, Entitlement
<1>2. Settled' => Settled
  <2>1. \A e \in receipts' : Latest(e) => e \in receipts
    BY DEF Latest
  <2> QED
    BY <1>1, <2>1 DEF Settled
<1>3. ASSUME NEW c \in Callers, Keeps(c) PROVE Target(c)' = Target(c)
  BY <1>1, <1>3 DEF Keeps, Target, Event, Entitlement
<1>4. ASSUME NEW c \in Callers, Reads(c) PROVE ~At(c, "commit")'
  BY <1>4 DEF Reads, At
<1>5. ReadingInv'
  <2> SUFFICES ASSUME NEW c \in Callers, Handling(c)'
               PROVE  /\ call'[c].reading \in States
                      /\ Latest(Event(c))' => Target(c)' = Entitlement(Current)'
    BY DEF ReadingInv
  <2>1. CASE Keeps(c)
    <3>1. Latest(Event(c))' => Latest(Event(c))
      BY <1>1, <2>1 DEF Keeps, Latest, Of
    <3> QED
      BY <1>1, <1>3, <2>1, <3>1 DEF Keeps, RowInv, ReadingInv
  <2>2. CASE Reads(c)
    BY <1>1, <2>2 DEF Reads
  <2> QED
    BY <2>1, <2>2
<1>6. ASSUME PriorInv PROVE PriorInv'
  BY <1>4, <1>6 DEF PriorInv, Keeps
<1>7. ASSUME SettledInv PROVE SettledInv'
  <2> SUFFICES ASSUME Settled', NEW c \in Callers
               PROVE  /\ sub.linked => State(sub) = Entitlement(Current)
                      /\ Handling(c)' => Target(c)' = Entitlement(Current)
    BY <1>1, <1>2, <1>7 DEF SettledInv, State
  <2>1. Handling(c)' => Target(c)' = Entitlement(Current)
    BY <1>2, <1>3, <1>7 DEF SettledInv, Keeps, Reads
  <2> QED
    BY <1>2, <1>7, <2>1 DEF SettledInv
<1>8. LatestInv' /\ LinkedInv' /\ RowTypes'
  <2>1. \A e \in receipts' : Type(e) = "checkout" => e \in receipts
    BY DEF Of, OfSubscription
  <2> QED
    BY <1>1, <2>1 DEF RowInv, LatestInv, LinkedInv, RowTypes
<1> QED
  BY <1>5, <1>6, <1>7, <1>8 DEF RowInv

LEMMA OthersHandle ==
  ASSUME UNCHANGED script, NEW o \in Callers, call'[o] = call[o], Handling(o)'
  PROVE  Keeps(o)
  BY DEF Handling, Keeps, At, Event, Of, Type

\* One caller moves: it does not handle the subscription then, or as above.
LEMMA HandlerRow ==
  ASSUME EvidenceInv, RowInv, RowKept, NEW c \in Callers,
         \A o \in Callers \ {c} : call'[o] = call[o],
         Handling(c)' => Keeps(c) \/ Reads(c)
  PROVE  RowInv'
<1>1. ASSUME NEW o \in Callers, Handling(o)' PROVE Keeps(o) \/ Reads(o)
  BY <1>1, OthersHandle DEF RowKept
<1> QED
  BY <1>1, HandlersRow

\* A transaction writes the row.
LEMMA WriteRow ==
  ASSUME EvidenceInv, RowInv, NEW c \in Callers, Commit(c), Of(Event(c))
  PROVE  RowInv'
<1> DEFINE e == Event(c)
<1>1. /\ UNCHANGED <<script, emitted>> /\ At(c, "commit") /\ Handling(c)
      /\ call' = [call EXCEPT ![c] = Idle] /\ receipts' = receipts \cup {e}
      /\ WriteSubscription(c) /\ e \in Emitted
  <2>1. At(c, "commit") /\ Handling(c)
    BY DEF Commit, Handling, At
  <2> QED
    BY <2>1 DEF Commit, Over, stripeVars, EvidenceInv, CallsInv, At
<1>2. /\ Emitted' = Emitted /\ \A x : Of(x)' = Of(x) /\ Latest(x)' = Latest(x)
      /\ \A x : Type(x)' = Type(x)
      /\ Entitlement(Current)' = Entitlement(Current)
  BY <1>1 DEF Emitted, Of, Type, Latest, Current, Entitlement
<1>3. Target(c) \in States
  BY <1>1, TargetIsEntitled DEF RowInv, ReadingInv
<1>4. call'[c] = Idle /\ \A o \in Callers \ {c} : call'[o] = call[o]
  BY <1>1 DEF EvidenceInv, CallTypes
<1>5. /\ sub' = IF Type(e) = "checkout" \/ sub.linked
                  THEN [status |-> Target(c).status, plan |-> Target(c).plan,
                        linked |-> TRUE]
                  ELSE sub
      /\ crossed' = (crossed \/ \E o \in Callers \ {c} :
                       call[o].pc \in {"begin", "commit"} /\ Of(Event(o)))
      /\ limits' = IF Found(c) THEN Target(c).plan ELSE limits
  BY <1>1 DEF WriteSubscription, Of
<1>6. RowTypes'
  BY <1>3, <1>5 DEF RowInv, RowTypes, Row, States
<1>7. LatestInv'
  BY <1>2 DEF RowInv, LatestInv
<1>8. LinkedInv'
  BY <1>1, <1>2, <1>5 DEF RowInv, LinkedInv
<1>9. ASSUME NEW o \in Callers, Handling(o)'
      PROVE  o # c /\ Handling(o) /\ Event(o)' = Event(o) /\ Target(o)' = Target(o)
             /\ call'[o].reading = call[o].reading
  <2>1. o # c
    BY <1>4, <1>9, IdleCall DEF Handling
  <2> QED
    BY <1>1, <1>2, <1>4, <1>9, <2>1 DEF Handling, Event, Of, Target, Type
<1>10. ReadingInv'
  <2> SUFFICES ASSUME NEW o \in Callers, Handling(o)'
               PROVE  /\ call'[o].reading \in States
                      /\ Latest(Event(o))' => Target(o)' = Entitlement(Current)'
    BY DEF ReadingInv
  <2>1. Latest(Event(o))' => Latest(Event(o))
    BY <1>2, <1>9 DEF Latest, Of
  <2> QED
    BY <1>2, <1>9, <2>1 DEF RowInv, ReadingInv
<1>11. ASSUME ~crossed'
       PROVE  PriorInv' /\ SettledInv' /\ limits' = sub'.plan
  <2>1. ~crossed /\ PriorInv /\ SettledInv /\ limits = sub.plan
    BY <1>5, <1>11 DEF RowInv, RowTypes
  <2>2. \A o \in Callers : ~Handling(o)'
    BY <1>5, <1>9, <1>11 DEF Handling
  <2>3. Found(c) <=> Type(e) = "checkout" \/ sub.linked
    BY <1>1, <2>1 DEF PriorInv, Found
  <2>4. limits' = sub'.plan
    BY <1>5, <2>1, <2>3
  <2>5. ASSUME Settled' PROVE Target(c) = Entitlement(Current)
    <3>1. PICK x \in receipts' : Latest(x)
      BY <1>2, <2>5 DEF Settled
    <3>2. CASE x \in receipts
      BY <1>1, <2>1, <3>1, <3>2 DEF Settled, SettledInv
    <3>3. CASE x = e
      BY <1>1, <3>1, <3>3 DEF RowInv, ReadingInv
    <3> QED
      BY <1>1, <3>1, <3>2, <3>3
  <2>6. sub'.linked => State(sub') = Target(c)
    BY <1>3, <1>5 DEF State, States
  <2>7. SettledInv'
    BY <1>2, <2>2, <2>5, <2>6 DEF SettledInv, State
  <2> QED
    BY <2>2, <2>4, <2>7 DEF PriorInv
<1> QED
  BY <1>6, <1>7, <1>8, <1>10, <1>11 DEF RowInv

LEMMA ReadsCurrent ==
  ASSUME EvidenceInv, NEW c \in Callers, Read(c), Handling(c)'
  PROVE  Reads(c)
<1> DEFINE e == Event(c)
<1>1. /\ UNCHANGED <<script, emitted>> /\ At(c, "read") /\ call[c] \in CallRow
      /\ e \in Emitted
  <2>1. At(c, "read") /\ UNCHANGED <<script, emitted>> /\ call[c] \in CallRow
    BY DEF Read, stripeVars, EvidenceInv, CallTypes
  <2> QED
    BY <2>1 DEF EvidenceInv, CallsInv, At
<1>2. /\ call'[c].pc = "begin" /\ Event(c)' = e
      /\ call'[c].reading = CASE Type(e) = "deleted" -> script[e].to
                              [] Type(e) \in OfSubscription -> Current
                              [] OTHER -> call[c].reading
  BY <1>1 DEF Read, EvidenceInv, CallTypes, CallRow, Event
<1>3. Type(e) \in OfSubscription /\ Type(e)' = Type(e)
  BY <1>1, <1>2 DEF Handling, Of, Type
<1>4. script[e] \in StripeEvent /\ Current \in States
      /\ (Type(e) = "deleted" => Entitlement(Current) = Ended)
  BY <1>1, ScriptTells DEF EvidenceInv
<1>5. CASE Type(e) = "deleted"
  BY <1>2, <1>3, <1>4, <1>5 DEF Reads, At, Target, Ended, StripeEvent, Type, Event
<1>6. CASE Type(e) # "deleted"
  <2>1. call'[c].reading = Current
    BY <1>2, <1>3, <1>6
  <2>2. Target(c)' = Entitlement(Current)
    BY <1>2, <1>3, <1>6, <2>1 DEF Target, Type, Event, Entitlement
  <2> QED
    BY <1>2, <1>4, <2>1, <2>2 DEF Reads, At
<1> QED
  BY <1>5, <1>6

LEMMA BeginsWithRow ==
  ASSUME EvidenceInv, NEW c \in Callers, BeginTransaction(c), Handling(c)'
  PROVE  Keeps(c)
<1>1. UNCHANGED script /\ At(c, "begin") /\ call[c] \in CallRow
  BY DEF BeginTransaction, stripeVars, EvidenceInv, CallTypes
<1>2. /\ call'[c].pc = "commit" /\ Event(c)' = Event(c)
      /\ call'[c].reading = call[c].reading
      /\ Type(Event(c)) \in OfSubscription => call'[c].prior = sub
  BY <1>1 DEF BeginTransaction, EvidenceInv, CallTypes, CallRow, Event
<1>3. Of(Event(c))
  BY <1>1, <1>2 DEF Handling, Of, Type
<1> QED
  BY <1>1, <1>2, <1>3 DEF Keeps, Handling, At, Of

\* A caller that is idle, or looks evidence up, does not handle the subscription.
LEMMA OffHandling ==
  ASSUME EvidenceInv, RowInv, RowKept, NEW c \in Callers,
         \A o \in Callers \ {c} : call'[o] = call[o],
         call'[c].pc \notin {"begin", "commit"}
  PROVE  RowInv'
  BY HandlerRow DEF Handling

LEMMA DoneRow ==
  ASSUME EvidenceInv, RowInv, RowKept, NEW c \in Callers,
         call' = [call EXCEPT ![c] = Idle]
  PROVE  RowInv'
<1>1. call'[c] = Idle /\ \A o \in Callers \ {c} : call'[o] = call[o]
  BY DEF EvidenceInv, CallTypes
<1> QED
  BY <1>1, IdleCall, OffHandling

LEMMA HandleRow ==
  ASSUME EvidenceInv, RowInv, NEW c \in Callers, Handle(c)
  PROVE  RowInv'
<1>0. \A o \in Callers \ {c} : call'[o] = call[o]
  BY DEF Handle, Read, BeginTransaction, Duplicate, Commit, Fails, Over,
         EvidenceInv, CallTypes
<1>1. CASE Read(c)
  <2>1. RowKept
    BY <1>1 DEF Read, RowKept, stripeVars, rowVars
  <2> QED
    BY <1>0, <1>1, <2>1, ReadsCurrent, HandlerRow
<1>2. CASE BeginTransaction(c)
  <2>1. RowKept
    BY <1>2 DEF BeginTransaction, RowKept, stripeVars, rowVars
  <2> QED
    BY <1>0, <1>2, <2>1, BeginsWithRow, HandlerRow
<1>3. CASE Duplicate(c)
  <2>1. RowKept /\ call' = [call EXCEPT ![c] = Idle]
    BY <1>3 DEF Duplicate, Over, RowKept, stripeVars, rowVars
  <2> QED
    BY <2>1, DoneRow
<1>4. CASE Fails(c)
  <2>1. RowKept /\ call' = [call EXCEPT ![c] = Idle]
    BY <1>4 DEF Fails, RowKept, stripeVars, rowVars
  <2> QED
    BY <2>1, DoneRow
<1>5. CASE Commit(c) /\ Of(Event(c))
  BY <1>5, WriteRow
<1>6. CASE Commit(c) /\ ~Of(Event(c))
  <2>1. RowKept /\ call' = [call EXCEPT ![c] = Idle]
    BY <1>6 DEF Commit, Over, WriteSubscription, Of, RowKept, stripeVars
  <2> QED
    BY <2>1, DoneRow
<1> QED
  BY <1>1, <1>2, <1>3, <1>4, <1>5, <1>6 DEF Handle

LEMMA NextEvidence ==
  ASSUME EvidenceInv, sub \in Row, [Next]_vars
  PROVE  EvidenceInv'
<1>1. CASE StripeMoves \/ Booked
  BY <1>1, StripeStep
<1>2. CASE LeaseLapses
  BY <1>2, LapseStep
<1>3. ASSUME NEW c \in Callers, Handle(c) PROVE EvidenceInv'
  BY <1>3, ReadStep, BeginStep, DuplicateStep, CommitEvidence, FailsStep
     DEF Handle, Row
<1>4. ASSUME NEW d \in Deliveries, Receive(d) PROVE EvidenceInv'
  BY <1>4, ReceiveStep
<1>5. ASSUME NEW w \in Workers, Claim(w) \/ Process(w) \/ LookUp(w) \/ Resolve(w)
      PROVE  EvidenceInv'
  BY <1>5, ClaimStep, ProcessStep, LookUpStep, ResolveStep
<1>6. CASE UNCHANGED vars
  <2>1. RecordsKept /\ UNCHANGED <<case, call, batch>>
    BY <1>6 DEF vars, stripeVars, rowVars, moneyVars, RecordsKept
  <2>2. CasesType' /\ CasesGrow /\ CallTypes' /\ CallsInv' /\ BatchInv'
    BY <2>1, CasesStay
       DEF EvidenceInv, RecordsKept, CallTypes, CallsInv, BatchInv, At, Event,
           Closing, NotHeld, Open, Emitted, Needs, Type
  <2> QED
    BY <2>1, <2>2, QuietKeeps
<1> QED
  BY <1>1, <1>2, <1>3, <1>4, <1>5, <1>6 DEF Next

LEMMA NextRow ==
  ASSUME EvidenceInv, RowInv, [Next]_vars
  PROVE  RowInv'
<1>1. CASE StripeMoves
  BY <1>1, EmitRow
<1>2. CASE Booked \/ LeaseLapses \/ UNCHANGED vars
  <2>1. RowKept /\ UNCHANGED call
    BY <1>2 DEF Booked, LeaseLapses, vars, stripeVars, rowVars, RowKept
  <2> QED
    BY <2>1, OthersHandle, HandlersRow DEF RowKept
<1>3. ASSUME NEW c \in Callers, Handle(c) PROVE RowInv'
  BY <1>3, HandleRow
<1>4. ASSUME NEW d \in Deliveries, Receive(d) PROVE RowInv'
  <2>1. d \in Callers /\ RowKept
    BY <1>4 DEF Receive, Callers, RowKept, stripeVars, rowVars
  <2>2. call'[d].pc = "read" /\ \A o \in Callers \ {d} : call'[o] = call[o]
    BY <1>4, <2>1 DEF Receive, EvidenceInv, CallTypes, CallRow
  <2> QED
    BY <2>1, <2>2, OffHandling
<1>5. ASSUME NEW w \in Workers, Claim(w) PROVE RowInv'
  <2>1. RowKept /\ UNCHANGED call
    BY <1>5 DEF Claim, stripeVars, rowVars, RowKept
  <2> QED
    BY <2>1, OthersHandle, HandlersRow DEF RowKept
<1>6. ASSUME NEW w \in Workers, Process(w) \/ LookUp(w) \/ Resolve(w)
      PROVE  RowInv'
  <2>1. w \in Callers /\ RowKept
    BY <1>6 DEF Process, LookUp, Resolve, Callers, RowKept, stripeVars, rowVars
  <2>2. /\ call'[w].pc \notin {"begin", "commit"}
        /\ \A o \in Callers \ {w} : call'[o] = call[o]
    <3>1. call \in [Callers -> CallRow]
      BY DEF EvidenceInv, CallTypes
    <3>2. CASE Process(w)
      <4>1. PICK x \in batch[w] :
              call' = [call EXCEPT ![w] = [Idle EXCEPT
                !.pc = IF x.event \in receipts THEN "evidence" ELSE "read",
                !.event = x.event, !.part = x.part, !.fence = x.fence]]
        BY <3>2 DEF Process
      <4> QED
        BY <2>1, <3>1, <4>1 DEF Idle
    <3>3. CASE LookUp(w) \/ Resolve(w)
      <4>1. \/ call' = [call EXCEPT ![w] = Idle]
            \/ call' = [call EXCEPT ![w].pc = "resolve"]
        BY <3>3 DEF LookUp, Resolve, Over, Goto
      <4> QED
        BY <2>1, <3>1, <4>1, IdleCall DEF CallRow
    <3> QED
      BY <1>6, <3>2, <3>3
  <2> QED
    BY <2>1, <2>2, OffHandling
<1> QED
  BY <1>1, <1>2, <1>3, <1>4, <1>5, <1>6 DEF Next

-----------------------------------------------------------------------------
WebhookInv == EvidenceInv /\ RowInv

LEMMA Webhooks == Spec => []WebhookInv
<1>1. Init => WebhookInv
  BY InitEvidence, InitRow DEF WebhookInv
<1>2. WebhookInv /\ [Next]_vars => WebhookInv'
  BY NextEvidence, NextRow DEF WebhookInv, RowInv, RowTypes
<1> QED
  BY <1>1, <1>2, PTL DEF Spec

\* A refund or a balance transaction is recorded and counted once, however often
\* and by whomever it is told (billing-financial-metrics-recorder.service.ts).
THEOREM EffectsOnce == Spec => []EffectsAreCounted
<1>1. WebhookInv => EffectsAreCounted
  BY DEF WebhookInv, EvidenceInv
<1> QED
  BY <1>1, Webhooks, PTL

\* The verdicts on evidence are true
\* (billing-financial-evidence-completeness.service.ts).
THEOREM VerdictsAreTrue == Spec => []EvidenceIsTrue
<1>1. WebhookInv => EvidenceIsTrue
  BY DEF WebhookInv, EvidenceInv
<1> QED
  BY <1>1, Webhooks, PTL

\* Once every event has its receipt the row is what Stripe has, unless handlers
\* overlapped (billing.service.ts, handleWebhook).
THEOREM RowIsStripes == Spec => []RowFollowsStripe
<1>1. WebhookInv => RowFollowsStripe
  <2> SUFFICES ASSUME WebhookInv, NEW e \in Emitted, Type(e) = "checkout",
                      Emitted \subseteq receipts, ~crossed
               PROVE  State(sub) = Entitlement(Current) /\ limits = sub.plan
    BY DEF RowFollowsStripe
  <2>1. Of(e)
    BY DEF Of, OfSubscription
  <2>2. PICK l \in Emitted : Latest(l)
    BY <2>1 DEF WebhookInv, RowInv, LatestInv
  <2>3. Settled /\ sub.linked
    BY <2>2 DEF Settled, WebhookInv, RowInv, LinkedInv
  <2> QED
    BY <2>3 DEF WebhookInv, RowInv, SettledInv
<1> QED
  BY <1>1, Webhooks, PTL

-----------------------------------------------------------------------------
(* The history.  What the metrics count of a transition is the change of the *)
(* revenue, of whether it is paid, and at least that of being a customer.    *)

Fields == {"activePaid", "mrr", "newPaid", "expansion", "contraction", "churn",
           "churnedMrr", "reactivated"}
Categories ==
  {"subscription_deletion", "observation", "trial_start", "past_due_transition",
   "pause_transition", "unpaid_transition", "cancellation", "trial_conversion",
   "reactivation", "plan_upgrade", "plan_downgrade", "paid_activation",
   "override"}
Moved  == [prev: States, next: States, category: Categories]

Seen      == \A i \in DOMAIN lifecycle : ~Hidden(i)
OnTime    == \A i \in DOMAIN lifecycle : ~OverdueFirst(i)
ChainEnds == \A i \in DOMAIN lifecycle :
               lifecycle[i].next = IF i < Len(lifecycle)
                                     THEN lifecycle[i + 1].prev ELSE State(sub)
Balanced  ==
  Seen => /\ daily.mrr = Mrr(State(sub))
          /\ daily.activePaid = One(Mrr(State(sub)) > 0)
          /\ OnTime => One(Customer(State(sub))) + daily.churn
                         <= daily.newPaid + daily.reactivated

HistoryInv ==
  ~crossed =>
    /\ lifecycle \in Seq(Moved) /\ daily \in [Fields -> Int]
    /\ State(sub) = Entitlement(State(sub))
    /\ ChainEnds /\ Balanced

LEMMA MrrOf == ASSUME NEW s \in States PROVE Mrr(s) \in Nat
  BY DEF Mrr, Price

LEMMA DeltaFields ==
  ASSUME NEW s \in States, NEW t \in States, NEW category
  PROVE  /\ Delta(s, t, category) \in [Fields -> Int]
         /\ Delta(s, t, category).mrr = Mrr(t) - Mrr(s)
         /\ Delta(s, t, category).activePaid = One(Mrr(t) > 0) - One(Mrr(s) > 0)
  BY MrrOf DEF Delta, Fields, One

LEMMA PlusFields ==
  ASSUME NEW d \in [Fields -> Int], NEW more \in [Fields -> Int]
  PROVE  /\ Plus(d, more) \in [Fields -> Int]
         /\ \A f \in Fields : Plus(d, more)[f] = d[f] + more[f]
  BY DEF Plus, Fields

\* Nobody becomes a customer uncounted, unless the first payment is overdue.
LEMMA CustomersAreCounted ==
  ASSUME NEW s \in States, NEW t \in States, NEW deletion \in BOOLEAN,
         s = Entitlement(s), t = Entitlement(t), deletion => t = Ended,
         ~(t.status = "past_due" /\ ~Customer(s))
  PROVE  LET d == Delta(s, t, Category(s, t, deletion))
         IN  One(Customer(t)) - One(Customer(s)) + d.churn
               <= d.newPaid + d.reactivated
<1>1. /\ s.status \in Statuses /\ t.status \in Statuses
      /\ s.plan \in Plans /\ t.plan \in Plans
  BY DEF States
<1>2. s.status \in {"incomplete", "incomplete_expired", "canceled", "paused",
                    "unpaid"} => s.plan = "free"
  BY DEF Entitlement, States
<1> QED
  BY <1>1, <1>2, SMTT(60)
     DEF Delta, Category, Customer, One, Mrr, Price, IsPaid, Statuses, Plans,
         Enters, Ended

LEMMA InitHistory == Init => HistoryInv
<1> SUFFICES ASSUME Init PROVE HistoryInv
  OBVIOUS
<1>1. State(sub) = [status |-> "active", plan |-> "free"] /\ lifecycle = <<>>
      /\ daily = NoDelta
  BY DEF Init, State
<1>2. daily \in [Fields -> Int] /\ State(sub) = Entitlement(State(sub))
  BY <1>1 DEF NoDelta, Fields, Entitlement
<1>3. lifecycle \in Seq(Moved) /\ ChainEnds
  BY <1>1 DEF ChainEnds
<1>4. Balanced
  BY <1>1 DEF Balanced, NoDelta, Mrr, One, Price, Customer, IsPaid
<1> QED
  BY <1>2, <1>3, <1>4 DEF HistoryInv

LEMMA SameHistory ==
  ASSUME HistoryInv, UNCHANGED <<sub, lifecycle, daily, crossed>>
  PROVE  HistoryInv'
  BY DEF HistoryInv, ChainEnds, Balanced, Seen, OnTime, Hidden, OverdueFirst,
         State, Entitlement

\* A transaction that no other overlaps appends what it does to the row.
LEMMA WriteHistory ==
  ASSUME EvidenceInv, RowInv, HistoryInv, NEW c \in Callers, Commit(c),
         Of(Event(c)), ~crossed'
  PROVE  HistoryInv'
<1> DEFINE e == Event(c)   s == State(sub)   t == Target(c)
           m == Transition(c)   deletion == (Type(e) = "deleted")
<1>1. WriteSubscription(c) /\ At(c, "commit") /\ Handling(c)
  BY DEF Commit, Handling, At
<1>2. ~crossed /\ call[c].prior = sub
  BY <1>1 DEF WriteSubscription, Of, RowInv, RowTypes, PriorInv
<1>3. /\ lifecycle \in Seq(Moved) /\ daily \in [Fields -> Int]
      /\ s = Entitlement(s) /\ ChainEnds /\ Balanced
  BY <1>2 DEF HistoryInv
<1>4. CASE ~Found(c)
  <2>1. UNCHANGED <<sub, lifecycle, daily>>
    BY <1>1, <1>2, <1>4 DEF WriteSubscription, Found, Of
  <2> QED
    BY <1>2, <2>1, SameHistory
       DEF HistoryInv, ChainEnds, Balanced, Seen, OnTime, Hidden, OverdueFirst,
           State, Entitlement
<1>5. CASE Found(c)
  <2>1. s \in States /\ t \in States /\ t = Entitlement(t)
        /\ (deletion => t = Ended)
    <3>1. s \in States
      BY DEF RowInv, RowTypes, Row, State, States
    <3>2. t \in States /\ t = Entitlement(t)
      BY <1>1, TargetIsEntitled DEF RowInv, ReadingInv
    <3> QED
      BY <3>1, <3>2 DEF Target, Ended
  <2>2. /\ lifecycle' = Append(lifecycle, m)
        /\ daily' = Plus(daily, Counts(m))
        /\ sub' = [status |-> t.status, plan |-> t.plan, linked |-> TRUE]
    BY <1>1, <1>2, <1>5 DEF WriteSubscription, Found, Of
  <2>3. State(sub)' = t /\ Entitlement(State(sub))' = Entitlement(t)
    BY <2>1, <2>2 DEF State, States, Entitlement
  <2>4. /\ m \in Moved /\ m.prev = s /\ m.next = t
        /\ m.category = IF Override(c) THEN "override" ELSE Category(s, t, deletion)
    <3>1. m.prev = s /\ m.next = t
          /\ m.category = IF Override(c) THEN "override"
                          ELSE Category(s, t, deletion)
      BY <1>2 DEF Transition
    <3>2. m.category \in Categories
      BY <3>1 DEF Category, Categories
    <3> QED
      BY <2>1, <3>1, <3>2 DEF Transition, Moved
  <2>5. Category(s, t, deletion) # "override"
    BY DEF Category
  <2> HIDE DEF s, t, m, deletion
  <2>6. lifecycle' \in Seq(Moved)
    BY <1>3, <2>2, <2>4
  <2>7. /\ Len(lifecycle') = Len(lifecycle) + 1
        /\ \A i \in DOMAIN lifecycle : i \in DOMAIN lifecycle'
                                       /\ lifecycle'[i] = lifecycle[i]
        /\ Len(lifecycle') \in DOMAIN lifecycle' /\ lifecycle'[Len(lifecycle')] = m
        /\ \A i \in DOMAIN lifecycle' : i \in DOMAIN lifecycle \/ i = Len(lifecycle')
        /\ Len(lifecycle) \in Nat /\ DOMAIN lifecycle = 1..Len(lifecycle)
    BY <1>3, <2>2, <2>4
  <2>8. ChainEnds'
    <3> SUFFICES ASSUME NEW i \in DOMAIN lifecycle'
                 PROVE  lifecycle'[i].next = IF i < Len(lifecycle')
                          THEN lifecycle'[i + 1].prev ELSE t
      BY <2>3 DEF ChainEnds
    <3>1. CASE i = Len(lifecycle')
      BY <2>4, <2>7, <3>1
    <3>2. CASE i \in DOMAIN lifecycle /\ i < Len(lifecycle)
      BY <1>3, <2>7, <3>2 DEF ChainEnds
    <3>3. CASE i \in DOMAIN lifecycle /\ i = Len(lifecycle)
      BY <1>3, <2>4, <2>7, <3>3 DEF ChainEnds, s
    <3> QED
      BY <2>7, <3>1, <3>2, <3>3
  <2>9. Seen' => Seen /\ ~Override(c)
    <3>1. Seen' => Seen
      BY <2>7 DEF Seen, Hidden
    <3>2. Seen' => m.category # "override"
      BY <2>7 DEF Seen, Hidden
    <3> QED
      BY <2>4, <3>1, <3>2
  <2>10. OnTime' => OnTime /\ ~(t.status = "past_due" /\ ~Customer(s))
    <3>1. OnTime' => OnTime
      BY <2>7 DEF OnTime, OverdueFirst
    <3>2. OnTime' => ~(m.next.status = "past_due" /\ ~Customer(m.prev))
      BY <2>7 DEF OnTime, OverdueFirst
    <3> QED
      BY <2>4, <3>1, <3>2
  <2>11. Counts(m) \in [Fields -> Int]
    <3>1. NoDelta \in [Fields -> Int]
      BY DEF NoDelta, Fields
    <3> QED
      BY <2>1, <2>4, <3>1, DeltaFields DEF Counts
  <2>12. /\ daily' \in [Fields -> Int]
         /\ \A f \in Fields : daily'[f] = daily[f] + Counts(m)[f]
    BY <1>3, <2>2, <2>11, PlusFields
  <2>13. Balanced'
    <3> SUFFICES ASSUME Seen'
                 PROVE  /\ daily'.mrr = Mrr(t)
                        /\ daily'.activePaid = One(Mrr(t) > 0)
                        /\ OnTime' => One(Customer(t)) + daily'.churn
                                        <= daily'.newPaid + daily'.reactivated
      BY <2>3 DEF Balanced, Mrr, Customer
    <3> DEFINE d == Delta(s, t, Category(s, t, deletion))
    <3>1. Counts(m) = d
      BY <2>4, <2>5, <2>9 DEF Counts
    <3>2. daily.mrr = Mrr(s) /\ daily.activePaid = One(Mrr(s) > 0)
          /\ (OnTime => One(Customer(s)) + daily.churn
                          <= daily.newPaid + daily.reactivated)
      BY <1>3, <2>9 DEF Balanced, s
    <3>3. d.mrr = Mrr(t) - Mrr(s) /\ d.activePaid = One(Mrr(t) > 0) - One(Mrr(s) > 0)
          /\ d \in [Fields -> Int]
      BY <2>1, DeltaFields
    <3>4. OnTime' => One(Customer(t)) - One(Customer(s)) + d.churn
                       <= d.newPaid + d.reactivated
      BY <1>3, <2>1, <2>10, CustomersAreCounted DEF deletion, s
    <3>5. /\ daily'.mrr = daily.mrr + d.mrr
          /\ daily'.activePaid = daily.activePaid + d.activePaid
          /\ daily'.churn = daily.churn + d.churn
          /\ daily'.newPaid = daily.newPaid + d.newPaid
          /\ daily'.reactivated = daily.reactivated + d.reactivated
      BY <2>12, <3>1 DEF Fields
    <3>6. /\ daily.churn \in Int /\ daily.newPaid \in Int
          /\ daily.reactivated \in Int /\ d.churn \in Int /\ d.newPaid \in Int
          /\ d.reactivated \in Int /\ Mrr(s) \in Int /\ Mrr(t) \in Int
      BY <1>3, <2>1, <3>3, MrrOf DEF Fields
    <3>7. /\ One(Customer(s)) \in Int /\ One(Customer(t)) \in Int
          /\ One(Mrr(s) > 0) \in Int /\ One(Mrr(t) > 0) \in Int
      BY DEF One
    <3>8. daily'.mrr = Mrr(t) /\ daily'.activePaid = One(Mrr(t) > 0)
      BY <3>2, <3>3, <3>5, <3>6, <3>7
    <3>9. ASSUME OnTime' PROVE One(Customer(t)) + daily'.churn
                                 <= daily'.newPaid + daily'.reactivated
      <4> DEFINE a == One(Customer(s))   b == One(Customer(t))
      <4>1. a + daily.churn <= daily.newPaid + daily.reactivated
        BY <2>10, <3>2, <3>9
      <4>2. b - a + d.churn <= d.newPaid + d.reactivated
        BY <3>4, <3>9
      <4>3. a \in Int /\ b \in Int
        BY <3>7
      <4> HIDE DEF a, b, d
      <4>4. b + (daily.churn + d.churn)
              <= (daily.newPaid + d.newPaid) + (daily.reactivated + d.reactivated)
        BY <3>6, <4>1, <4>2, <4>3
      <4> QED
        BY <3>5, <4>4 DEF b
    <3> QED
      BY <3>8, <3>9
  <2> QED
    BY <2>1, <2>3, <2>6, <2>8, <2>12, <2>13 DEF HistoryInv
<1> QED
  BY <1>4, <1>5

LEMMA NextHistory ==
  ASSUME EvidenceInv, RowInv, HistoryInv, [Next]_vars
  PROVE  HistoryInv'
<1>1. ASSUME NEW c \in Callers, Commit(c), Of(Event(c)) PROVE HistoryInv'
  BY <1>1, WriteHistory DEF HistoryInv
<1>2. ASSUME NEW c \in Callers, Handle(c), ~(Commit(c) /\ Of(Event(c)))
      PROVE  UNCHANGED <<sub, lifecycle, daily, crossed>>
  BY <1>2 DEF Handle, Read, BeginTransaction, Duplicate, Commit, Fails,
              WriteSubscription, Of, rowVars
<1>3. CASE StripeMoves \/ Booked \/ LeaseLapses \/ UNCHANGED vars
  BY <1>3, SameHistory
     DEF StripeMoves, Booked, LeaseLapses, vars, rowVars
<1>4. ASSUME NEW d \in Deliveries, Receive(d) PROVE HistoryInv'
  BY <1>4, SameHistory DEF Receive, rowVars
<1>5. ASSUME NEW w \in Workers, Claim(w) \/ Process(w) \/ LookUp(w) \/ Resolve(w)
      PROVE  HistoryInv'
  BY <1>5, SameHistory DEF Claim, Process, LookUp, Resolve, rowVars
<1> QED
  BY <1>1, <1>2, <1>3, <1>4, <1>5, SameHistory DEF Next, Handle

\* Unless handlers overlapped, the recorded transitions end in the row and the
\* daily metrics add up to it (subscription-lifecycle.service.ts).
THEOREM HistoryIsComplete == Spec => []HistoryExplainsRow
<1>1. WebhookInv /\ HistoryInv => HistoryExplainsRow
  <2> SUFFICES ASSUME WebhookInv, HistoryInv, ~crossed PROVE HistoryExplainsRow
    BY DEF HistoryExplainsRow
  <2>1. ChainEnds /\ Balanced /\ daily \in [Fields -> Int]
    BY DEF HistoryInv
  <2>2. /\ One(Mrr(State(sub)) > 0) <= One(Customer(State(sub)))
        /\ One(Customer(State(sub))) \in Int
    <3>1. State(sub) \in States
      BY DEF WebhookInv, RowInv, RowTypes, Row, State, States
    <3> QED
      BY <3>1 DEF One, Mrr, Price, Customer, IsPaid, States, Plans
  <2>3. daily.churn \in Int /\ daily.newPaid + daily.reactivated \in Int
    BY <2>1 DEF Fields
  <2>4. Seen /\ OnTime => daily.activePaid + daily.churn
                            <= daily.newPaid + daily.reactivated
    <3> SUFFICES ASSUME Seen, OnTime
                 PROVE  daily.activePaid + daily.churn
                          <= daily.newPaid + daily.reactivated
      OBVIOUS
    <3>1. daily.activePaid = One(Mrr(State(sub)) > 0)
          /\ One(Customer(State(sub))) + daily.churn
               <= daily.newPaid + daily.reactivated
      BY <2>1 DEF Balanced
    <3>2. One(Mrr(State(sub)) > 0) \in Int
      BY DEF One
    <3> QED
      BY <2>2, <2>3, <3>1, <3>2
  <2> QED
    BY <2>1, <2>4 DEF HistoryExplainsRow, ChainEnds, Balanced, Seen, OnTime
<1>2. Init => WebhookInv /\ HistoryInv
  BY InitEvidence, InitRow, InitHistory DEF WebhookInv
<1>3. WebhookInv /\ HistoryInv /\ [Next]_vars => HistoryInv'
  BY NextHistory DEF WebhookInv
<1> QED
  BY <1>1, <1>2, <1>3, Webhooks, PTL DEF Spec

=============================================================================
