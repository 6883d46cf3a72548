--------------------------- MODULE ExtensionPages ---------------------------
(***************************************************************************)
(* The extension on the page of a posting: the content script with its     *)
(* overlay, the message router in the service worker, and what both keep   *)
(* in chrome.storage.  The browser may stop the service worker whenever it *)
(* likes; what a site changes without loading a page runs no script again. *)
(*                                                                         *)
(* Tokens and the refresh of a session are modelled in SessionClients.     *)
(***************************************************************************)
EXTENDS Naturals, FiniteSets

CONSTANTS
  Sites,        \* open tabs, each with a content script
  Urls,         \* postings
  Selectable,
  Nobody,       \* no resume, no posting, no tab
  MaxWishes,    \* bound: keys drawn, applications made
  MaxStops      \* bound: answers that are lost, service workers that stop

ASSUME ExtensionConstants ==
  /\ Nobody \notin Sites \cup Urls \cup Selectable
  /\ MaxWishes \in Nat /\ MaxStops \in Nat

VARIABLES
  url,        \* the posting each tab is on
  overlay,    \* the posting whose score each tab shows
  offered,    \* tabs whose overlay shows where the package is reviewed
  message,    \* the PREPARE_APPLICATION message of each tab
  filling,    \* the GET_APPROVED_PACKAGE message of each tab: its posting
  settings,   \* chrome.storage: selectedResume, autofillPreference
  storedKey,  \* chrome.storage: prepareIdempotency:<resume>:<job>
  keysDrawn,
  made,       \* the API: applications prepared, by key
  approved,   \* the API: postings that have an approved package
  told,       \* history: answers that the service worker had, by resume and posting
  crossed,    \* history: two calls looked for one key before either stored it
  filled,     \* history: the preferences under which a form was filled
  stopsLeft

extensionVars == <<url, overlay, offered, message, filling, settings, storedKey,
                   keysDrawn, made, approved, told, crossed, filled, stopsLeft>>

Wishes == Selectable \X Urls
Modes  == {"assistive", "auto-off"}

\* resume: what the router read; key: its idempotency key, 0 before.
Message == [at: {"idle", "capture", "store", "send", "sent", "answered"},
         resume: Selectable \cup {Nobody}, url: Urls \cup {Nobody}, key: 0..MaxWishes]

NoCall == [at |-> "idle", resume |-> Nobody, url |-> Nobody, key |-> 0]

ExtensionTypeOK ==
  /\ url \in [Sites -> Urls]
  /\ \A of \in {overlay, filling} : of \in [Sites -> Urls \cup {Nobody}]
  /\ message \in [Sites -> Message] /\ offered \subseteq Sites
  /\ settings \in [resume: Selectable \cup {Nobody}, autofill: Modes]
  /\ storedKey \in [Wishes -> 0..MaxWishes] /\ keysDrawn \in 0..MaxWishes
  /\ made \in [1..MaxWishes -> Wishes \cup {<<Nobody, Nobody>>}]
  /\ approved \subseteq Urls /\ told \in [Wishes -> Nat]
  /\ crossed \in BOOLEAN
  /\ filled \subseteq Modes
  /\ stopsLeft \in 0..MaxStops

ExtensionInit ==
  /\ url \in [Sites -> Urls]
  /\ overlay = [s \in Sites |-> Nobody]
  /\ offered = {} /\ message = [s \in Sites |-> NoCall] /\ filling = [s \in Sites |-> Nobody]
  /\ settings = [resume |-> Nobody, autofill |-> "assistive"]
  /\ storedKey = [w \in Wishes |-> 0] /\ keysDrawn = 0
  /\ made = [k \in 1..MaxWishes |-> <<Nobody, Nobody>>]
  /\ approved = {} /\ told = [w \in Wishes |-> 0]
  /\ crossed = FALSE /\ filled = {} /\ stopsLeft = MaxStops

-----------------------------------------------------------------------------
(* The options page.                                                       *)

storage == <<settings, storedKey>>
api     == <<keysDrawn, made, approved>>
tabs    == <<url, overlay, offered>>
seen == <<told, crossed, filled>>

\* handleSave; or, when the page is opened with a stored resume that is not
\* there any more, the first one or none.
SaveSettings ==
  /\ \E r \in Selectable \cup {Nobody}, mode \in Modes :
       settings' = [resume |-> r, autofill |-> mode]
  /\ settings' # settings
  /\ UNCHANGED <<tabs, message, filling, storedKey, api, seen, stopsLeft>>

-----------------------------------------------------------------------------
(* The content script.                                                     *)

\* analyzeCurrentPage, when the page is loaded or the popup asks for it: an
\* overlay for the posting of the page replaces the one there is.
AnalyzePage(s) ==
  /\ settings.resume # Nobody
  /\ overlay' = [overlay EXCEPT ![s] = url[s]]
  /\ offered' = offered \ {s}
  /\ UNCHANGED <<url, message, filling, storage, api, seen, stopsLeft>>

\* Another page is loaded: a new script, which the answer to what the old one
\* asked for does not reach.
Load(s) ==
  /\ \E u \in Urls \ {url[s]} : url' = [url EXCEPT ![s] = u]
  /\ overlay' = [overlay EXCEPT ![s] = Nobody]
  /\ filling' = [filling EXCEPT ![s] = Nobody]
  /\ offered' = offered \ {s}
  /\ UNCHANGED <<message, storage, api, seen, stopsLeft>>

\* The site moves to another posting by itself: script and overlay stay.
Navigate(s) ==
  /\ \E u \in Urls \ {url[s]} : url' = [url EXCEPT ![s] = u]
  /\ UNCHANGED <<overlay, offered, message, filling, storage, api, seen, stopsLeft>>

-----------------------------------------------------------------------------
(* handlePrepareApplication, in the service worker.                        *)

\* The selected resume is read, and the posting captured.
AskToPrepare(s) ==
  /\ overlay[s] # Nobody /\ s \notin offered
  /\ message[s].at = "idle" /\ settings.resume # Nobody
  /\ message' = [message EXCEPT ![s] = [at |-> "capture", resume |-> settings.resume,
                                  url |-> overlay[s], key |-> 0]]
  /\ UNCHANGED <<tabs, filling, storage, api, seen, stopsLeft>>

\* Mutant: every message draws a key.
FreshKey(wish) == keysDrawn + 1

\* The stored key, or a new one.
KeyFor(wish) == IF storedKey[wish] # 0 THEN storedKey[wish] ELSE keysDrawn + 1

WishOf(s) == <<message[s].resume, message[s].url>>

\* The key is looked for: a stored one is sent, a new one stored before.
FindKey(s) ==
  LET key == KeyFor(WishOf(s)) IN
  /\ message[s].at = "capture" /\ key <= MaxWishes
  /\ keysDrawn' = IF key > keysDrawn THEN key ELSE keysDrawn
  /\ message' = [message EXCEPT ![s].key = key,
                          ![s].at = IF storedKey[WishOf(s)] = key THEN "send" ELSE "store"]
  /\ crossed' = (crossed \/ \E o \in Sites \ {s} :
                   message[o].at = "store" /\ WishOf(o) = WishOf(s))
  /\ UNCHANGED <<tabs, filling, storage, made, approved, told, filled, stopsLeft>>

StoreKey(s) ==
  /\ message[s].at = "store"
  /\ storedKey' = [storedKey EXCEPT ![WishOf(s)] = message[s].key]
  /\ message' = [message EXCEPT ![s].at = "send"]
  /\ UNCHANGED <<tabs, filling, settings, api, seen, stopsLeft>>

\* prepare: an application for a new key, the one that is there for a known one.
PrepareOnce(s) ==
  /\ message[s].at = "send"
  /\ made' = [made EXCEPT ![message[s].key] = WishOf(s)]
  /\ message' = [message EXCEPT ![s].at = "sent"]
  /\ UNCHANGED <<tabs, filling, storage, keysDrawn, approved, seen, stopsLeft>>

\* The posting or the resume is refused, a part fails: an error for the tab.
PrepareFails(s) ==
  /\ message[s].at \in {"capture", "send"}
  /\ message' = [message EXCEPT ![s] = NoCall]
  /\ UNCHANGED <<tabs, filling, storage, api, seen, stopsLeft>>

\* The answer has arrived: the key is removed.
RemoveKey(s) ==
  /\ message[s].at = "sent"
  /\ storedKey' = [storedKey EXCEPT ![WishOf(s)] = 0]
  /\ told' = [told EXCEPT ![WishOf(s)] = @ + 1]
  /\ message' = [message EXCEPT ![s].at = "answered"]
  /\ UNCHANGED <<tabs, filling, settings, api, crossed, filled, stopsLeft>>

\* The overlay that asked shows where the package can be reviewed, and asks no
\* more.
ShowReview(s) ==
  /\ message[s].at = "answered"
  /\ message' = [message EXCEPT ![s] = NoCall]
  /\ offered' = IF overlay[s] = message[s].url THEN offered \cup {s} ELSE offered
  /\ UNCHANGED <<url, overlay, filling, storage, api, seen, stopsLeft>>

-----------------------------------------------------------------------------
(* handleGetApprovedPackage, and the form of the page.                     *)

\* The person approves the package of a posting in the dashboard.
ApprovePackage ==
  /\ \E u \in Urls : /\ \E k \in 1..MaxWishes : made[k][2] = u
                     /\ approved' = approved \cup {u}
  /\ approved' # approved
  /\ UNCHANGED <<tabs, message, filling, storage, keysDrawn, made, seen, stopsLeft>>

AskToFill(s) ==
  /\ overlay[s] # Nobody /\ filling[s] = Nobody
  /\ filling' = [filling EXCEPT ![s] = overlay[s]]
  /\ UNCHANGED <<tabs, message, storage, api, seen, stopsLeft>>

\* What the preference in the settings lets through: it is not read.
Allowed(mode) == TRUE

\* fillApprovedPackage: the approved package of the overlay's posting goes into
\* the form that the tab has now.
Fill(s) ==
  /\ filling[s] \in approved /\ Allowed(settings.autofill)
  /\ filled' = filled \cup {settings.autofill}
  /\ filling' = [filling EXCEPT ![s] = Nobody]
  /\ UNCHANGED <<tabs, message, storage, api, told, crossed, stopsLeft>>

\* There is none, it cannot be loaded, or the page has no form for it.
FillFails(s) ==
  /\ filling[s] # Nobody
  /\ filling' = [filling EXCEPT ![s] = Nobody]
  /\ UNCHANGED <<tabs, message, storage, api, seen, stopsLeft>>

-----------------------------------------------------------------------------

\* The service worker stops: the messages it worked on have no answer.  Or the
\* answer of the API to one of them is lost.
Stop ==
  /\ stopsLeft > 0 /\ stopsLeft' = stopsLeft - 1
  /\ \E S \in {Sites} \cup {{s} : s \in Sites} :
       /\ \E s \in S : message[s].at # "idle"
       /\ message' = [s \in Sites |-> IF s \in S THEN NoCall ELSE message[s]]
       /\ filling' = [s \in Sites |-> IF s \in S THEN Nobody ELSE filling[s]]
  /\ UNCHANGED <<tabs, storage, api, seen>>

ExtensionNext ==
  \/ SaveSettings \/ ApprovePackage \/ Stop
  \/ \E s \in Sites :
       \/ AnalyzePage(s) \/ Load(s) \/ Navigate(s)
       \/ AskToPrepare(s) \/ FindKey(s) \/ StoreKey(s) \/ PrepareOnce(s)
       \/ PrepareFails(s) \/ RemoveKey(s) \/ ShowReview(s)
       \/ AskToFill(s) \/ Fill(s) \/ FillFails(s)

ExtensionSpec == ExtensionInit /\ [][ExtensionNext]_extensionVars

-----------------------------------------------------------------------------
(* Properties.                                                             *)

\* A person who asks again because no answer came does not make a second
\* application: for one resume and posting there is at most one more than
\* answers reached the service worker, lost messages and stops included, as
\* long as two tabs do not look for the first key at the same time.
OneApplicationPerWish ==
  ~crossed => \A w \in Wishes :
    Cardinality({k \in 1..MaxWishes : made[k] = w}) <= told[w] + 1

\* "Off -- match scoring only" (OptionsApp): nothing is filled into a form while
\* the person has autofill turned off.
OffFillsNothing == "auto-off" \notin filled
=============================================================================
