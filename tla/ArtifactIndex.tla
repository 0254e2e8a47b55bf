---------------------------- MODULE ArtifactIndex ----------------------------
(***************************************************************************)
(* InMemoryArtifactIndex.java, without the signed contracts: the maps the  *)
(* change manager fills and the message handlers read.                     *)
(*                                                                         *)
(* An Artifact is the immutable description ArtifactFactory makes of a     *)
(* file: its name (which fixes its URI) and the stamp of the file at that  *)
(* time.  The maps from Artifact are keyed by value, as the map of signed  *)
(* contracts must be for its keys to be found again after a restart.       *)
(***************************************************************************)
EXTENDS ArtifactFiles

VARIABLES
  index,            \* File -> Artifact
  contractIndex,    \* Artifact -> the contract offer attached to it
  descriptionIndex, \* Artifact -> the resource description attached to it
  negotiationIndex  \* Artifact -> the negotiation parameters attached to it

indexVars == <<index, contractIndex, descriptionIndex, negotiationIndex>>

(* A directory met at startup, or a file gone before it was looked at, is  *)
(* described like a file.                                                  *)
Artifact == [file : Files, stamp : Stamps \cup NoFile]

(* A contract offer in memory: the text it was parsed from, the artifact   *)
(* its permissions and prohibitions target, and whether it is the very     *)
(* object that also lies on the contract stack.                            *)
Offer == [text : Text, target : Files, stacked : BOOLEAN]

ASSUME IndexAssumption == None \notin Artifact \cup Offer

IndexTypeOK ==
  /\ index \in [Files -> Artifact \cup {None}]
  /\ \A f \in Files : index[f] # None => index[f].file = f
  /\ contractIndex \in [Artifact -> Offer \cup {None}]
  /\ descriptionIndex \in [Artifact -> Text \cup {None}]
  /\ negotiationIndex \in [Artifact -> Text \cup {None}]

IndexInit ==
  /\ index = [f \in Files |-> None]
  /\ contractIndex = [a \in Artifact |-> None]
  /\ descriptionIndex = [a \in Artifact |-> None]
  /\ negotiationIndex = [a \in Artifact |-> None]

exists(f) == index[f] # None

getAllArtifacts == {index[f] : f \in {g \in Files : exists(g)}}

hasContract(a) == contractIndex[a] # None
hasDescription(a) == descriptionIndex[a] # None
hasNegotiation(a) == negotiationIndex[a] # None

addArtifact(f, a) == index' = [index EXCEPT ![f] = a]
removeArtifact(f) == index' = [index EXCEPT ![f] = None]

addContract(a, offer) == contractIndex' = [contractIndex EXCEPT ![a] = offer]
removeContract(a) == contractIndex' = [contractIndex EXCEPT ![a] = None]

addDescription(a, text) ==
  descriptionIndex' = [descriptionIndex EXCEPT ![a] = text]
removeDescription(a) ==
  descriptionIndex' = [descriptionIndex EXCEPT ![a] = None]

addNegotiation(a, text) ==
  negotiationIndex' = [negotiationIndex EXCEPT ![a] = text]
removeNegotiation(a) ==
  negotiationIndex' = [negotiationIndex EXCEPT ![a] = None]
=============================================================================
