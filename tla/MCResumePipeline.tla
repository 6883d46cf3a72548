-------------------------- MODULE MCResumePipeline --------------------------
(* Small instances of ResumePipeline for TLC. *)
EXTENDS ResumePipeline, TLC

CONSTANTS w1, w2, d1, c1, c2, c3, k1

\* A call, its duplicate, and one that reuses their key for another reason.
ThreeKeys    == (c1 :> k1) @@ (c2 :> k1) @@ (c3 :> k1)
ThreeReasons == (c1 :> "provider_recovered") @@ (c2 :> "provider_recovered")
                  @@ (c3 :> "storage_recovered")
OneKey       == c1 :> k1
OneReason    == c1 :> "provider_recovered"
AnyFailure   == {"provider_transient", "storage_transient", "internal_unknown",
                 "provider_configuration", "document_unreadable"}
============================================================================
