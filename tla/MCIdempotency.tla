--------------------------- MODULE MCIdempotency ---------------------------
(* A behaviour is about requests with one key, or about what lies behind    *)
(* the discoveries that run under such keys: one board with one posting, or *)
(* one captured page.                                                        *)
EXTENDS Idempotency, JobCatalogue, TLC

CONSTANTS b1, p1

OneBoard == <<b1>>
Owner == (p1 :> b1)

Symmetry == Permutations(Requests) \cup Permutations(Fingerprints)

VARIABLE about   \* which of the two

MCInit ==
  /\ about \in {"requests", "catalogue"}
  /\ Init /\ CatalogueInit
  /\ IF about = "requests" THEN listed = {}
     ELSE \A r, s \in Requests : SameFingerprint(r, s)

MCNext ==
  \/ about = "requests" /\ Next /\ UNCHANGED <<about, catalogueVars>>
  \/ about = "catalogue" /\ CatalogueNext /\ UNCHANGED <<about, vars>>

MCSpec == MCInit /\ [][MCNext]_<<about, vars, catalogueVars>>

\* Bound: one row of the catalogue.
OneRow == Cardinality({p \in Postings : job[p] # Absent}) <= 1

============================================================================
