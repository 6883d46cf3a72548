--------------------------- MODULE MCAiCostLedger ---------------------------
(* A behaviour is about the ledger of the calls to paid providers, about    *)
(* the rows that keep what can be computed without them, match scores, or   *)
(* about the counter of the units that calls spend.  Attempts are           *)
(* interchangeable, and so are match requests.                              *)
EXTENDS AiCostLedger, MCMatchCache, Quota

Symmetry == Permutations(Attempts) \cup Permutations(Requests)

VARIABLE about   \* which of the three

MCInit ==
  /\ about \in {"ledger", "scores", "units"}
  /\ Init /\ CacheInit /\ QuotaInit
  /\ (about = "scores") = (content # Gone)
  /\ about = "units" \/ limit = Unlimited

MCNext ==
  \/ about = "ledger" /\ Next /\ UNCHANGED <<about, cacheVars, quotaVars>>
  \/ about = "scores" /\ CacheNext /\ UNCHANGED <<about, vars, quotaVars>>
  \/ about = "units" /\ QuotaNext /\ UNCHANGED <<about, vars, cacheVars>>

MCSpec == MCInit /\ [][MCNext]_<<about, vars, cacheVars, quotaVars>>

=============================================================================
