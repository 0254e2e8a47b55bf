----------------------- MODULE ArtifactChangeManager -----------------------
(***************************************************************************)
(* ArtifactChangeManager.java, the listener of DirectoryWatcher: it keeps  *)
(* the artifact index, and the catalogue registered at the broker, in step *)
(* with the artifact directory.                                            *)
(*                                                                         *)
(* One call of notifyAdd, notifyRemove or notifyChange is a sequence of    *)
(* steps, so that changes of the directory and reads of the index fall     *)
(* between its writes.  pc says where the call is:                         *)
(*   start          at its first statement                                 *)
(*   unlink         notifyRemove of an artifact, attachments removed       *)
(*   publishRemoval notifyRemove, about to update the broker               *)
(*   add            notifyChange, about to call notifyAdd                  *)
(*   attach         notifyAdd of an artifact, entered in the index         *)
(*   publish        notifyAdd, about to update the broker                  *)
(***************************************************************************)
EXTENDS DirectoryWatcher, ArtifactIndex

CONSTANT BrokerIgnore   \* the property broker.ignore

ASSUME BrokerAssumption == BrokerIgnore \in BOOLEAN

VARIABLES
  pc,
  contractStack,     \* base -> the contract kept for artifacts to come
  descriptionStack,
  negotiationStack,
  broker,            \* the catalogue last received by the broker
  brokerOk           \* whether the last update was answered with success

stackVars == <<contractStack, descriptionStack, negotiationStack>>
brokerVars == <<broker, brokerOk>>
managerVars == <<pc, indexVars, stackVars, brokerVars>>
vars == <<watcherVars, managerVars>>

PCs == {"start", "unlink", "publishRemoval", "add", "attach", "publish"}

(* What DynamicConnectorSelfDescription.createResources lists: contracts   *)
(* do not reach the resources.                                             *)
CatalogueEntry ==
  [artifact : Artifact, description : Text \cup {None}]

Catalogue ==
  {[artifact |-> a, description |-> descriptionIndex[a]] :
     a \in getAllArtifacts}

TypeOK ==
  /\ WatcherTypeOK
  /\ IndexTypeOK
  /\ pc \in PCs
  /\ contractStack \in [Bases -> Text \cup {None}]
  /\ descriptionStack \in [Bases -> Text \cup {None}]
  /\ negotiationStack \in [Bases -> Text \cup {None}]
  /\ broker \subseteq CatalogueEntry
  /\ brokerOk \in BOOLEAN

(* Main.setUp registers the empty catalogue, or goes on without a broker.  *)
Init ==
  /\ WatcherInit
  /\ IndexInit
  /\ pc = "start"
  /\ contractStack = [b \in Bases |-> None]
  /\ descriptionStack = [b \in Bases |-> None]
  /\ negotiationStack = [b \in Bases |-> None]
  /\ broker = {}
  /\ brokerOk \in BOOLEAN

-----------------------------------------------------------------------------
(* findRelatedArtifact: the first artifact, in the order of a HashMap,     *)
(* whose file name up to its first dot is the name asked about, cut at     *)
(* "-contract", or cut at "-desc", or cut at "-negotiation", whatever kind *)
(* of name that is.  A cut at a suffix the name does not have is the whole *)
(* name, which only matches if it has no dot.  So "demo-desc.ttl", an      *)
(* artifact file, is related to "demo.xml", and the description            *)
(* "my-contract-desc.jsonld" to "my.xml" and "my-contract.xml".            *)
SearchKeys(n) ==
  IF n \in MetaFiles THEN {n.base} \cup Cuts[n.base]
  ELSE IF n \in Dotless THEN {BaseOf[n]} \cup Cuts[BaseOf[n]]
  ELSE Cuts[BaseOf[n]]

(* Artifacts of any base.                                                  *)
RelatedToAnything(n) == {a \in getAllArtifacts : a.file \notin Api}

(* An artifact made for a ".api" file has no file name and is passed over. *)
Related(n) ==
  {a \in getAllArtifacts :
     a.file \notin Api /\ BaseOf[a.file] \in SearchKeys(n)}

-----------------------------------------------------------------------------
(* The shape of a call.                                                    *)

Removing(names) ==
  /\ call # None
  /\ call.name \in names
  /\ call.op \in {"remove", "change"}
  /\ pc = "start"

(* notifyChange without notifyRemove.                                      *)
AddingAtOnce(names) ==
  /\ call # None
  /\ call.name \in names
  /\ call.op \in {"add", "change"}
  /\ pc = "start"

Adding(names) ==
  /\ call # None
  /\ call.name \in names
  /\ \/ call.op = "add" /\ pc = "start"
     \/ pc = "add"

OfKind(kind) == {m \in MetaFiles : m.kind = kind}

Return == ListenerReturns /\ pc' = "start"

Goto(label) == pc' = label /\ UNCHANGED watcherVars

(* notifyChange is notifyRemove followed by notifyAdd.                     *)
RemovalDone ==
  \/ call.op = "remove" /\ Return
  \/ call.op = "change" /\ Goto("add")

-----------------------------------------------------------------------------
(* updateBroker: a failed update is logged and never repeated; the broker  *)
(* may have received it nevertheless.                                      *)
UpdateBroker ==
  \/ BrokerIgnore /\ UNCHANGED brokerVars
  \/ ~BrokerIgnore /\ broker' = Catalogue /\ brokerOk' = TRUE
  \/ ~BrokerIgnore /\ broker' \in {broker, Catalogue} /\ brokerOk' = FALSE

PublishRemoval ==
  /\ pc = "publishRemoval"
  /\ UpdateBroker
  /\ RemovalDone
  /\ UNCHANGED <<indexVars, stackVars>>

Publish ==
  /\ pc = "publish"
  /\ UpdateBroker
  /\ Return
  /\ UNCHANGED <<indexVars, stackVars>>

-----------------------------------------------------------------------------
(* notifyRemove.                                                           *)

RemoveContract ==
  /\ Removing(OfKind("contract"))
  /\ \/ \E a \in Related(call.name) :
          /\ hasContract(a)
          /\ removeContract(a)
          /\ Goto("publishRemoval")
     \/ /\ \/ Related(call.name) = {}
           \/ \E a \in Related(call.name) : ~hasContract(a)
        /\ RemovalDone
        /\ UNCHANGED contractIndex
  /\ UNCHANGED <<index, descriptionIndex, negotiationIndex,
                 stackVars, brokerVars>>

RemoveDescription ==
  /\ Removing(OfKind("desc"))
  /\ \/ \E a \in Related(call.name) :
          /\ hasDescription(a)
          /\ removeDescription(a)
          /\ Goto("publishRemoval")
     \/ /\ \/ Related(call.name) = {}
           \/ \E a \in Related(call.name) : ~hasDescription(a)
        /\ RemovalDone
        /\ UNCHANGED descriptionIndex
  /\ UNCHANGED <<index, contractIndex, negotiationIndex,
                 stackVars, brokerVars>>

(* Negotiation parameters are no part of the catalogue: no broker update.  *)
RemoveNegotiation ==
  /\ Removing(OfKind("negotiation"))
  /\ \/ \E a \in Related(call.name) : removeNegotiation(a)
     \/ Related(call.name) = {} /\ UNCHANGED negotiationIndex
  /\ RemovalDone
  /\ UNCHANGED <<index, contractIndex, descriptionIndex,
                 stackVars, brokerVars>>

RemoveAttachments ==
  /\ Removing(Files)
  /\ \/ \E a \in Related(call.name) :
          /\ removeContract(a)
          /\ removeNegotiation(a)
          /\ removeDescription(a)
     \/ /\ Related(call.name) = {}
        /\ UNCHANGED <<contractIndex, negotiationIndex, descriptionIndex>>
  /\ Goto("unlink")
  /\ UNCHANGED <<index, stackVars, brokerVars>>

RemoveArtifact ==
  /\ pc = "unlink"
  /\ removeArtifact(call.name)
  /\ Goto("publishRemoval")
  /\ UNCHANGED <<contractIndex, descriptionIndex, negotiationIndex,
                 stackVars, brokerVars>>

-----------------------------------------------------------------------------
(* notifyAdd of a metadata file.  What does not parse is not added.        *)

(* Offers that were on the stack of base b lose that place to a new one.   *)
Unstack(b) ==
  [a \in Artifact |->
     IF hasContract(a) /\ contractIndex[a].text.of.base = b
       THEN [contractIndex[a] EXCEPT !.stacked = FALSE]
       ELSE contractIndex[a]]

AddContract ==
  /\ Adding(OfKind("contract"))
  /\ LET text == disk[call.name] IN
       \/ /\ text \in Text
          /\ \E a \in Related(call.name) :
               addContract(a, [text |-> text, target |-> a.file,
                               stacked |-> FALSE])
          /\ Goto("publish")
          /\ UNCHANGED contractStack
       \/ /\ text \in Text
          /\ Related(call.name) = {}
          /\ contractStack' = [contractStack EXCEPT ![call.name.base] = text]
          /\ contractIndex' = Unstack(call.name.base)
          /\ Return
       \/ /\ text \notin Text
          /\ Return
          /\ UNCHANGED <<contractIndex, contractStack>>
  /\ UNCHANGED <<index, descriptionIndex, negotiationIndex,
                 descriptionStack, negotiationStack, brokerVars>>

(* A description stacked like a contract.                                  *)
AddDescriptionOnce ==
  /\ Adding(OfKind("desc"))
  /\ LET text == disk[call.name] IN
       \/ /\ text \in Text
          /\ \E a \in Related(call.name) : addDescription(a, text)
          /\ Goto("publish")
          /\ UNCHANGED descriptionStack
       \/ /\ text \in Text
          /\ Related(call.name) = {}
          /\ descriptionStack' =
               [descriptionStack EXCEPT ![call.name.base] = text]
          /\ Return
          /\ UNCHANGED descriptionIndex
       \/ /\ text \notin Text
          /\ Return
          /\ UNCHANGED <<descriptionIndex, descriptionStack>>
  /\ UNCHANGED <<index, contractIndex, negotiationIndex,
                 contractStack, negotiationStack, brokerVars>>

(* A description, unlike a contract, is stacked in either case.            *)
AddDescription ==
  /\ Adding(OfKind("desc"))
  /\ LET text == disk[call.name] IN
       \/ /\ text \in Text
          /\ descriptionStack' =
               [descriptionStack EXCEPT ![call.name.base] = text]
          /\ \/ /\ \E a \in Related(call.name) : addDescription(a, text)
                /\ Goto("publish")
             \/ /\ Related(call.name) = {}
                /\ Return
                /\ UNCHANGED descriptionIndex
       \/ /\ text \notin Text
          /\ Return
          /\ UNCHANGED <<descriptionIndex, descriptionStack>>
  /\ UNCHANGED <<index, contractIndex, negotiationIndex,
                 contractStack, negotiationStack, brokerVars>>

AddNegotiation ==
  /\ Adding(OfKind("negotiation"))
  /\ LET text == disk[call.name] IN
       \/ /\ text \in Text
          /\ \E a \in Related(call.name) : addNegotiation(a, text)
          /\ UNCHANGED negotiationStack
       \/ /\ text \in Text
          /\ Related(call.name) = {}
          /\ negotiationStack' =
               [negotiationStack EXCEPT ![call.name.base] = text]
          /\ UNCHANGED negotiationIndex
       \/ /\ text \notin Text \cup {NonObject}
          /\ UNCHANGED <<negotiationIndex, negotiationStack>>
  /\ Return
  /\ UNCHANGED <<index, contractIndex, descriptionIndex,
                 contractStack, descriptionStack, brokerVars>>

-----------------------------------------------------------------------------
(* notifyAdd of an artifact file.                                          *)

AlreadyIndexed ==
  /\ Adding(Files)
  /\ exists(call.name)
  /\ Return
  /\ UNCHANGED <<indexVars, stackVars, brokerVars>>

(* A cast to int, which truncates, for Math.toIntExact.                    *)
AddArtifactTruncating ==
  /\ Adding(Files)
  /\ ~exists(call.name)
  /\ addArtifact(call.name, [file |-> call.name, stamp |-> disk[call.name]])
  /\ Goto("attach")
  /\ UNCHANGED <<contractIndex, descriptionIndex, negotiationIndex,
                 stackVars, brokerVars>>

AddArtifact ==
  /\ Adding(Files)
  /\ ~exists(call.name)
  /\ disk[call.name] # Oversize
  /\ addArtifact(call.name, [file |-> call.name, stamp |-> disk[call.name]])
  /\ Goto("attach")
  /\ UNCHANGED <<contractIndex, descriptionIndex, negotiationIndex,
                 stackVars, brokerVars>>

(* The stacked offer is one object: attaching it to f sets its target to f *)
(* wherever it is attached already.                                        *)
AttachOffer(f) ==
  LET b == BaseOf[f] IN
    contractIndex' =
      [a \in Artifact |->
         IF a = index[f] /\ contractStack[b] # None
           THEN [text |-> contractStack[b], target |-> f, stacked |-> TRUE]
         ELSE IF /\ hasContract(a)
                 /\ contractIndex[a].stacked
                 /\ contractIndex[a].text = contractStack[b]
           THEN [contractIndex[a] EXCEPT !.target = f]
         ELSE contractIndex[a]]

(* What comes off the stacks is not published.                             *)
AttachQuietly ==
  /\ pc = "attach"
  /\ LET f == call.name
         b == BaseOf[f] IN
       /\ AttachOffer(f)
       /\ IF descriptionStack[b] # None
            THEN addDescription(index[f], descriptionStack[b])
            ELSE UNCHANGED descriptionIndex
       /\ IF negotiationStack[b] # None
            THEN addNegotiation(index[f], negotiationStack[b])
            ELSE UNCHANGED negotiationIndex
  /\ Return
  /\ UNCHANGED <<index, stackVars, brokerVars>>

(* The stacks keep what they hold.                                         *)
Attach ==
  /\ pc = "attach"
  /\ LET f == call.name
         b == BaseOf[f] IN
       /\ AttachOffer(f)
       /\ IF descriptionStack[b] # None
            THEN addDescription(index[f], descriptionStack[b])
            ELSE UNCHANGED descriptionIndex
       /\ IF negotiationStack[b] # None
            THEN addNegotiation(index[f], negotiationStack[b])
            ELSE UNCHANGED negotiationIndex
  /\ Goto("publish")
  /\ UNCHANGED <<index, stackVars, brokerVars>>

-----------------------------------------------------------------------------
(* Math.toIntExact on the length of an artifact file, and the cast of a    *)
(* parsed negotiation file, throw what nobody catches.                     *)
Throw ==
  /\ \/ /\ Adding(Files)
        /\ ~exists(call.name)
        /\ disk[call.name] = Oversize
     \/ /\ Adding(OfKind("negotiation"))
        /\ disk[call.name] = NonObject
  /\ ListenerThrows
  /\ UNCHANGED managerVars

-----------------------------------------------------------------------------
notifyRemove ==
  \/ RemoveContract
  \/ RemoveDescription
  \/ RemoveNegotiation
  \/ RemoveAttachments
  \/ RemoveArtifact
  \/ PublishRemoval

notifyAdd ==
  \/ AddContract
  \/ AddDescription
  \/ AddNegotiation
  \/ AlreadyIndexed
  \/ AddArtifact
  \/ Attach
  \/ Publish

Manager == notifyRemove \/ notifyAdd \/ Throw

Next ==
  \/ (User \/ Thread \/ StopWatching) /\ UNCHANGED managerVars
  \/ Manager

Spec == Init /\ [][Next]_vars

-----------------------------------------------------------------------------
(* Once the watcher has caught up, and unless its key dropped events,      *)
(* every file of the directory is in the index and no absent name is, in   *)
(* whatever order files came, changed and went, before or during startup   *)
(* (notifyAdd, notifyChange, notifyRemove with DirectoryWatcher.run).      *)
IndexTracksDirectory ==
  Quiescent /\ ~lost =>
    \A f \in Files :
      /\ IsFile(disk[f]) => exists(f)
      /\ disk[f] = Absent => ~exists(f)

(* And then an artifact describes the file as it is, not an earlier one    *)
(* (createArtifact runs at some moment of the call, and every later        *)
(* modification leads to another call).  False where files are renamed     *)
(* over existing ones.                                                     *)
IndexIsUpToDate ==
  Quiescent /\ ~lost =>
    \A f \in Files :
      IsFile(disk[f]) /\ exists(f) => index[f].stamp = disk[f]

(* File f has metadata file m, and no third name is mistaken for one of    *)
(* the two: none that m is related to, nor one, artifact file or of m's    *)
(* kind, that is related to f.                                             *)
Paired(f, m) ==
  /\ f \notin Api
  /\ m.base = BaseOf[f]
  /\ \A g \in Files : BaseOf[g] \in SearchKeys(m) => g = f
  /\ \A n \in Files \cup OfKind(m.kind) :
       BaseOf[f] \in SearchKeys(n) => n \in {f, m}

(* And then a file carries the description its "-desc.jsonld" file holds,  *)
(* whichever of the two came first and whichever was modified last:        *)
(* notifyAdd stacks descriptions whether or not their artifact is there.   *)
(* Not so where a third name may be mistaken for one of the two: removing  *)
(* "demo-desc.ttl" takes the description of "demo.xml" with it.            *)
DescriptionTracksFile ==
  Quiescent /\ ~lost =>
    \A f \in Files, m \in OfKind("desc") :
      /\ Paired(f, m)
      /\ exists(f)
      /\ disk[m] \in Text
      => descriptionIndex[index[f]] = disk[m]

(* Between two calls the broker holds the catalogue of the index, unless   *)
(* its last update failed: no change of what the catalogue lists goes      *)
(* unpublished (the calls of updateBroker).                                *)
BrokerInStep ==
  ~BrokerIgnore /\ brokerOk /\ call = None => broker = Catalogue

(* What is attached to an artifact was read from a metadata file of the    *)
(* same kind whose name, cut at one of the three suffixes, is the          *)
(* artifact's base, and what waits on a stack from one of just that base:  *)
(* neither a call that finds an artifact, nor one that finds it later by   *)
(* its base, nor a listing that puts a contract back, attaches what is for *)
(* another file.                                                           *)
MetaFile(kind, b) == [kind |-> kind, base |-> b]

IsFor(m, kind, a) == m \in OfKind(kind) /\ BaseOf[a.file] \in SearchKeys(m)

IndexIsOwn ==
  \A a \in Artifact :
    /\ hasContract(a) => IsFor(contractIndex[a].text.of, "contract", a)
    /\ hasDescription(a) => IsFor(descriptionIndex[a].of, "desc", a)
    /\ hasNegotiation(a) => IsFor(negotiationIndex[a].of, "negotiation", a)

StacksAreOwn ==
  \A b \in Bases :
    /\ contractStack[b] # None =>
         contractStack[b].of = MetaFile("contract", b)
    /\ descriptionStack[b] # None =>
         descriptionStack[b].of = MetaFile("desc", b)
    /\ negotiationStack[b] # None =>
         negotiationStack[b].of = MetaFile("negotiation", b)

AttachmentsAreOwn == IndexIsOwn /\ StacksAreOwn

(* The directory changes finitely often, so the connector catches up with  *)
(* it for good, unless its thread ended (FairSelfSpec of SelfDescription). *)
CatchesUp == <>[](Quiescent \/ phase = "stopped")

-----------------------------------------------------------------------------
(* What the documentation says, and the code does not do.                  *)

(* README.md:97: "if a Contract Offer is formed it is linked properly with *)
(* other resource".  A contract file that is there is attached ...         *)
ContractTracksFile ==
  Quiescent /\ ~lost =>
    \A f \in Files, m \in OfKind("contract") :
      /\ Paired(f, m)
      /\ exists(f)
      /\ disk[m] \in Text
      => hasContract(index[f]) /\ contractIndex[index[f]].text = disk[m]

(* ... and the offer of an artifact targets that artifact.                 *)
OfferTargetsItsArtifact ==
  \A a \in getAllArtifacts :
    hasContract(a) => contractIndex[a].target = a.file
=============================================================================
