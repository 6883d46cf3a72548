-------------------------- MODULE MCProviderCalls --------------------------
(* The two services whose calls a process guards with a breaker: the paid  *)
(* providers and the career chat.  A behaviour is about one of them, the   *)
(* one whose policy it starts with; the other is never called.             *)
EXTENDS ProviderCalls, ChatCalls

\* A paid provider: its timeout is shorter than its cooldown.
PaidProvider == [threshold |-> 2, reset |-> 2, timeout |-> 1,
                 fromStart |-> TRUE, singleProbe |-> TRUE]

\* The career chat: an answer may outlast the cooldown.
CareerChat == [threshold |-> 2, reset |-> 1, timeout |-> 2,
               fromStart |-> FALSE, singleProbe |-> FALSE]

Services == {PaidProvider, CareerChat}

MCInit == CallInit /\ ChatInit

MCNext ==
  \/ policy = PaidProvider /\ CallNext /\ UNCHANGED chatVars
  \/ policy = CareerChat /\ ChatNext /\ UNCHANGED reqVars

MCSpec ==
  /\ MCInit /\ [][MCNext]_<<vars, reqVars, chatVars>>
  /\ \A c \in Calls :
       WF_<<vars, reqVars, chatVars>>(Settle(c) /\ UNCHANGED chatVars)

============================================================================
