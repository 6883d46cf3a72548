------------------------------ MODULE MCClients ------------------------------
(* What one person does from several pages.  A behaviour is about the tabs  *)
(* with the package of one application, about the page of jobs, about the   *)
(* extension on the pages of postings, or about uploads and deletions of    *)
(* resumes and of the account.                                              *)
EXTENDS ReviewPage, JobsPage, ExtensionPages, ResumeStorage, TLC

CONSTANTS d1, d2, f1, f2, f3

Sizes == (f1 :> 1) @@ (f2 :> 1) @@ (f3 :> 2)

AnyUrl == CHOOSE u \in Urls : TRUE

\* Bound: packages for one posting; one tab of the two is sent to another
\* posting or fills a form.
FewPages ==
  /\ \A s \in Sites : message[s].url \in {AnyUrl, Nobody} /\ overlay[s] \in {AnyUrl, Nobody}
  /\ \E s \in Sites : \A o \in Sites \ {s} : url[o] = AnyUrl /\ filling[o] = Nobody
  /\ "assistive" \notin filled /\ (settings.resume = Nobody => keysDrawn = 0)

\* Bound: two uploads at a time, one resume parsed, both deletions of one
\* resume; of deletions and of files that are alike, the first begins first.
FewUploads ==
  /\ Cardinality({f \in Files : upload[f] \notin {"new", "accepted", "failed"}}) <= 2
  /\ Cardinality({f \in Files : parsed[f] # "no"}) <= 1
  /\ deletion[d2].pc = "new" \/ deletion[d1].file = deletion[d2].file
  /\ AtStep(f2, "new") \/ ~AtStep(f1, "new")

VARIABLE about   \* which of the four

MCInit ==
  /\ about \in {"review", "jobs", "extension", "files"}
  /\ ReviewInit /\ JobsInit /\ ExtensionInit /\ StorageInit
  /\ about # "review" => ~pack.questionable
  /\ about # "jobs" => requested = NoChoice
  /\ about # "extension" => url = [s \in Sites |-> AnyUrl]
  /\ about # "files" => account = "new"

MCNext ==
  /\ UNCHANGED about
  /\ \/ /\ about = "review" /\ ReviewNext
        /\ UNCHANGED <<jobsVars, extensionVars, storageVars>>
     \/ /\ about = "jobs" /\ JobsNext
        /\ UNCHANGED <<reviewVars, extensionVars, storageVars>>
     \/ /\ about = "extension" /\ ExtensionNext
        /\ UNCHANGED <<reviewVars, jobsVars, storageVars>>
     \/ /\ about = "files" /\ StorageNext
        /\ UNCHANGED <<reviewVars, jobsVars, extensionVars>>

MCSpec == MCInit /\ [][MCNext]_<<about, reviewVars, jobsVars, extensionVars, storageVars>>

=============================================================================
