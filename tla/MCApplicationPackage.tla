----------------------- MODULE MCApplicationPackage -----------------------
(* A behaviour is about the calls for one application, which are           *)
(* interchangeable, or about the text of its CV, once one was uploaded.    *)
EXTENDS ApplicationPackage, MCGeneratedDocuments, TLC

Symmetry == Permutations(Calls)

NoTexts == verified = NoDocument /\ document = NoDocument /\ sent = <<>>

MCInit == Init /\ (NoTexts \/ DocumentInit)

MCNext ==
  \/ verified = NoDocument /\ Next /\ UNCHANGED documentVars
  \/ verified # NoDocument /\ DocumentNext /\ UNCHANGED vars

MCSpec == MCInit /\ [][MCNext]_<<vars, documentVars>>

============================================================================
