--------------------------- MODULE SelfDescription ---------------------------
(***************************************************************************)
(* DynamicConnectorSelfDescription.java and the threads of                 *)
(* DescriptionRequestHandler.java that ask it for the connector's          *)
(* description, beside the change manager.                                 *)
(*                                                                         *)
(* getSelfDescription and setArtifacts are synchronized: lock is the       *)
(* thread that runs getSelfDescription for a request.  The change manager  *)
(* needs the lock to publish, not to change the index: the index may       *)
(* change under a thread that lists the artifacts, and the contract it has *)
(* read of one may be outdated when it enters it again.                    *)
(*                                                                         *)
(* place[r] says which call of getSelfDescription thread r is at:          *)
(*   idle   none, it waits for a request                                   *)
(*   search the one whose result is searched for the requested element     *)
(*   whole  the one that answers a request without such an element         *)
(*   id     the last one, of which only the connector's URI is used        *)
(***************************************************************************)
EXTENDS ArtifactChangeManager

CONSTANTS
  Readers,      \* threads that answer description requests
  MaxRequests   \* bound on the requests accepted

(* The connector and its catalogue are answered alike; resources are named *)
(* by the file of their description, whose text holds their URI.           *)
Element ==
  [kind : {"none", "catalogue", "example"}, of : {None}]
    \cup [kind : {"resource"}, of : OfKind("desc")]

Outcomes == {"description", "NOT_FOUND", "error"}

ASSUME ReadersAssumption ==
  /\ None \notin Readers \cup Element
  /\ None \notin Outcomes
  /\ MaxRequests \in Nat

VARIABLES
  serving,    \* the main thread has finished, requests are accepted
  requests,   \* how many requests have been accepted
  known,      \* setArtifacts has been called
  lock,       \* the thread that lists the artifacts, or None
  started,    \* the artifacts there were when its iterator was made
  upNext,     \* the artifact the iterator returns next, or None
  carried,    \* the contract it has read and not yet put back, or None
  resources,  \* what it has listed
  place,      \* where each thread is
  element,    \* what each thread was last asked for
  result,     \* what it answers
  outcome,    \* how its last request ended, or None
  seen,       \* history: entries listed right at some moment of its request
  kept        \* history: entries listed right at every moment of it

listVars == <<known, lock, started, upNext, carried, resources>>
readerVars == <<place, element, result, outcome>>
selfVars ==
  <<vars, serving, requests, listVars, readerVars, seen, kept>>

Places == {"idle", "search", "whole", "id"}

SelfTypeOK ==
  /\ TypeOK
  /\ serving \in BOOLEAN
  /\ requests \in 0..MaxRequests
  /\ known \in BOOLEAN
  /\ lock \in Readers \cup {None}
  /\ started \subseteq Artifact
  /\ upNext \in Artifact \cup {None}
  /\ carried \in [artifact : Artifact, offer : Offer] \cup {None}
  /\ resources \subseteq CatalogueEntry
  /\ place \in [Readers -> Places]
  /\ element \in [Readers -> Element \cup {None}]
  /\ result \in [Readers -> SUBSET CatalogueEntry]
  /\ outcome \in [Readers -> Outcomes \cup {None}]
  /\ seen \in [Readers -> SUBSET CatalogueEntry]
  /\ kept \in [Readers -> SUBSET CatalogueEntry]
  /\ lock = None => upNext = None /\ carried = None
  /\ lock # None => place[lock] # "idle"
  /\ \A r \in Readers : place[r] # "idle" => element[r] # None

SelfInit ==
  /\ Init
  /\ serving = FALSE
  /\ requests = 0
  /\ known = FALSE
  /\ lock = None
  /\ started = {}
  /\ upNext = None
  /\ carried = None
  /\ resources = {}
  /\ place = [r \in Readers |-> "idle"]
  /\ element = [r \in Readers |-> None]
  /\ result = [r \in Readers |-> {}]
  /\ outcome = [r \in Readers |-> None]
  /\ seen = [r \in Readers |-> {}]
  /\ kept = [r \in Readers |-> {}]

-----------------------------------------------------------------------------
(* The change manager beside a listing.                                    *)

(* All but notifyAdd of a description call setArtifacts when they publish. *)
SetsArtifacts ==
  \/ pc = "publishRemoval"
  \/ pc = "publish" /\ call.name \notin OfKind("desc")

(* setArtifacts without synchronized.                                      *)
NeedsLockForBroker == ~BrokerIgnore /\ pc \in {"publishRemoval", "publish"}

NeedsLock ==
  SetsArtifacts \/ (~BrokerIgnore /\ pc \in {"publishRemoval", "publish"})

(* The contract in the hands of a listing is one object with the stacked   *)
(* one: it is retargeted, and loses its place on the stack, with it.       *)
Handed(c) ==
  IF c = None THEN None
  ELSE IF /\ pc = "attach"
          /\ c.offer.stacked
          /\ c.offer.text = contractStack[BaseOf[call.name]]
    THEN [c EXCEPT !.offer.target = call.name]
  ELSE IF /\ Adding(OfKind("contract"))
          /\ disk[call.name] \in Text
          /\ Related(call.name) = {}
          /\ c.offer.text.of.base = call.name.base
    THEN [c EXCEPT !.offer.stacked = FALSE]
  ELSE c

Work ==
  /\ Manager
  /\ NeedsLock => lock = None
  /\ known' = (known \/ SetsArtifacts)
  /\ carried' = Handed(carried)
  /\ UNCHANGED <<lock, started, upNext, resources>>

Environs ==
  /\ User \/ Thread \/ StopWatching
  /\ UNCHANGED <<managerVars, listVars>>

Change ==
  /\ Environs \/ Work
  /\ serving' = (serving \/ phase' = "watching")
  /\ UNCHANGED <<requests, readerVars>>

-----------------------------------------------------------------------------
(* getSelfDescription.                                                     *)

(* What there is to list: nothing, before setArtifacts.                    *)
Listable == IF known THEN getAllArtifacts ELSE {}

(* The modification count is not the one the iterator was made with.       *)
Changed == started # Listable

Listed == {e.artifact : e \in resources}

(* The artifacts an iterator may return after those in past.  Past a       *)
(* change it may meet a removed artifact, or not meet an added one.        *)
Following(past) == (started \cup Listable) \ past

Over(past) == started \cap Listable \subseteq past

Enter(r) ==
  /\ lock = None
  /\ place[r] # "idle"
  /\ lock' = r
  /\ started' = Listable
  /\ upNext' \in IF Listable = {} THEN {None} ELSE Listable
  /\ UNCHANGED <<known, carried, resources, readerVars>>

(* The description last stacked for the artifact's base.                   *)
VisitStacked(r) ==
  /\ lock = r
  /\ upNext # None
  /\ carried = None
  /\ LET a == upNext
         past == Listed \cup {a} IN
       /\ resources' = resources \cup
            {[artifact |-> a, description |-> descriptionStack[BaseOf[a.file]]]}
       /\ carried' = IF hasContract(a)
                       THEN [artifact |-> a, offer |-> contractIndex[a]]
                       ELSE None
       /\ \/ upNext' \in Following(past)
          \/ Over(past) /\ upNext' = None
  /\ UNCHANGED <<known, lock, started, readerVars>>

(* The artifact's description and contract are read.  Without either, one  *)
(* is made up; the default contract is dropped.                            *)
Visit(r) ==
  /\ lock = r
  /\ upNext # None
  /\ carried = None
  /\ LET a == upNext
         past == Listed \cup {a} IN
       /\ resources' = resources \cup
            {[artifact |-> a, description |-> descriptionIndex[a]]}
       /\ carried' = IF hasContract(a)
                       THEN [artifact |-> a, offer |-> contractIndex[a]]
                       ELSE None
       /\ \/ upNext' \in Following(past)
          \/ Over(past) /\ upNext' = None
  /\ UNCHANGED <<known, lock, started, readerVars>>

PutBack(r) ==
  /\ lock = r
  /\ carried # None
  /\ addContract(carried.artifact, carried.offer)
  /\ carried' = None
  /\ UNCHANGED <<known, lock, started, upNext, resources, readerVars>>

Unlock ==
  /\ lock' = None
  /\ started' = {}
  /\ upNext' = None
  /\ resources' = {}
  /\ UNCHANGED <<known, carried>>

(* The iterator is exhausted.                                              *)
Listing(r, where) ==
  /\ lock = r
  /\ upNext = None
  /\ carried = None
  /\ place[r] = where

Fail(r, answer) ==
  /\ place' = [place EXCEPT ![r] = "idle"]
  /\ result' = [result EXCEPT ![r] = {}]
  /\ outcome' = [outcome EXCEPT ![r] = answer]
  /\ UNCHANGED element

(* The list so far will do.                                                *)
StopAtChange(r) ==
  /\ lock = r
  /\ upNext # None
  /\ carried = None
  /\ Changed
  /\ upNext' = None
  /\ UNCHANGED <<known, lock, started, carried, resources, readerVars>>

(* A ConcurrentModificationException, which synchronized lets pass.        *)
ThrowAtChange(r) ==
  /\ lock = r
  /\ upNext # None
  /\ carried = None
  /\ Changed
  /\ Unlock
  /\ Fail(r, "error")

-----------------------------------------------------------------------------
(* DescriptionRequestHandler.                                              *)

Receive(r) ==
  /\ serving
  /\ place[r] = "idle"
  /\ requests < MaxRequests
  /\ requests' = requests + 1
  /\ \E e \in Element : element' = [element EXCEPT ![r] = e]
  /\ place' = [place EXCEPT ![r] = "search"]
  /\ outcome' = [outcome EXCEPT ![r] = None]
  /\ result' = [result EXCEPT ![r] = {}]
  /\ UNCHANGED <<serving, listVars>>

(* Of several resources with one URI the last is answered.  A made up one  *)
(* has the URI of the catalogue, and is never found.                       *)
Matches(e) ==
  CASE e.kind = "catalogue" -> {resources}
    [] e.kind = "resource" ->
         {{entry} : entry \in {f \in resources : /\ f.description # None
                                                 /\ f.description.of = e.of}}
    [] e.kind = "example" -> IF resources = {} THEN {{}} ELSE {}
    [] OTHER -> {}

AnswerWith(r, entries) ==
  /\ result' = [result EXCEPT ![r] = entries]
  /\ place' = [place EXCEPT ![r] = "id"]
  /\ UNCHANGED <<element, outcome>>

(* Searched again until the element is there.                              *)
SearchAgain(r) ==
  /\ Listing(r, "search")
  /\ Unlock
  /\ \/ \E entries \in Matches(element[r]) : AnswerWith(r, entries)
     \/ /\ element[r].kind = "none"
        /\ place' = [place EXCEPT ![r] = "whole"]
        /\ UNCHANGED <<element, result, outcome>>
     \/ /\ element[r].kind # "none"
        /\ Matches(element[r]) = {}
        /\ UNCHANGED readerVars

Search(r) ==
  /\ Listing(r, "search")
  /\ Unlock
  /\ \/ \E entries \in Matches(element[r]) : AnswerWith(r, entries)
     \/ /\ element[r].kind = "none"
        /\ place' = [place EXCEPT ![r] = "whole"]
        /\ UNCHANGED <<element, result, outcome>>
     \/ /\ element[r].kind # "none"
        /\ Matches(element[r]) = {}
        /\ Fail(r, "NOT_FOUND")

Whole(r) ==
  /\ Listing(r, "whole")
  /\ Unlock
  /\ AnswerWith(r, resources)

(* The message of the answer needs a security token.                       *)
Answer(r) ==
  /\ Listing(r, "id")
  /\ Unlock
  /\ \/ /\ place' = [place EXCEPT ![r] = "idle"]
        /\ outcome' = [outcome EXCEPT ![r] = "description"]
        /\ UNCHANGED <<element, result>>
     \/ Fail(r, "error")

Describe(r) ==
  \/ Enter(r)
  \/ Visit(r)
  \/ ThrowAtChange(r)
  \/ Search(r)
  \/ Whole(r)
  \/ Answer(r)

Reader(r) ==
  \/ Receive(r) /\ UNCHANGED vars
  \/ /\ \/ Describe(r) /\ UNCHANGED contractIndex
        \/ PutBack(r)
     /\ UNCHANGED <<serving, requests, watcherVars, pc, index,
                    descriptionIndex, negotiationIndex, stackVars, brokerVars>>

-----------------------------------------------------------------------------
(* The catalogue as it should be listed.                                   *)
Shown == IF known THEN Catalogue ELSE {}

Witness ==
  /\ seen' = [r \in Readers |->
                IF place'[r] = "idle" THEN seen[r]
                ELSE (IF place[r] = "idle" THEN {} ELSE seen[r]) \cup Shown']
  /\ kept' = [r \in Readers |->
                IF place'[r] = "idle" THEN kept[r]
                ELSE IF place[r] = "idle" THEN Shown'
                ELSE kept[r] \cap Shown']

SelfNext ==
  /\ \/ Change
     \/ \E r \in Readers : Reader(r)
  /\ Witness

SelfSpec == SelfInit /\ [][SelfNext]_selfVars

(* Listings end, and the change manager goes on, once its lock is free.    *)
(* Monitors of the JVM are not fair, but requests are taken to pause.      *)
FairSelfSpec ==
  /\ SelfSpec
  /\ WF_vars(Work \/ (Thread /\ UNCHANGED managerVars))
  /\ \A r \in Readers :
       WF_<<listVars, place>>(Describe(r) \/ PutBack(r))

-----------------------------------------------------------------------------
(* A description lists only what the index held at some moment of the      *)
(* request, with a description it had then, although the index changes     *)
(* under the iterator of createResources.                                  *)
ListedWasThere ==
  \A r \in Readers :
    outcome[r] = "description" => result[r] \subseteq seen[r]

(* And what the index held all through the request is listed, or found     *)
(* when asked for by its URI; the example resource stands in only for an   *)
(* index that has been empty.                                              *)
KeptIsListed ==
  \A r \in Readers :
    /\ outcome[r] = "description" =>
         CASE element[r].kind \in {"none", "catalogue"} ->
                kept[r] \subseteq result[r]
           [] element[r].kind = "resource" -> result[r] # {}
           [] OTHER -> kept[r] = {}
    /\ outcome[r] = "NOT_FOUND" =>
         \/ /\ element[r].kind = "resource"
            /\ \A e \in kept[r] :
                 e.description # None => e.description.of # element[r].of
         \/ element[r].kind = "example" /\ seen[r] # {}

(* While a thread lists the artifacts the index changes at most once: who  *)
(* changed it must wait for the lock to call setArtifacts.                 *)
OneChangePerListing ==
  [][lock # None /\ lock' = lock /\ Changed => index' = index]_selfVars

(* Every request for a description is answered, also one whose listing the *)
(* change manager disturbs.                                                *)
RequestsAreAnswered ==
  \A r \in Readers : place[r] # "idle" ~> place[r] = "idle"
=============================================================================
