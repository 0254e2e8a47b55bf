------------------------------ MODULE Connector ------------------------------
(***************************************************************************)
(* The whole connector, whose process may end at any moment and be started *)
(* again (Main.java).  What is in memory is gone then: the index, the      *)
(* stacks, the events not dispatched and the requests not answered.  The   *)
(* directory, what the broker has, and the file of signed contracts stay.  *)
(***************************************************************************)
EXTENDS MessageHandlers

CONSTANT MaxRestarts   \* bound on the restarts

ASSUME RestartsAssumption == MaxRestarts \in Nat

VARIABLES
  restarts,   \* how often the process was started again
  confirmed   \* history: agreements confirmed, by artifact and party, but
              \* for those a restart may have lost (Restart)

processVars == <<connectorVars, restarts, confirmed>>

ProcessTypeOK ==
  /\ ConnectorTypeOK
  /\ restarts \in 0..MaxRestarts
  /\ confirmed \subseteq Artifact \X Parties

ProcessInit ==
  /\ ConnectorInit
  /\ restarts = 0
  /\ confirmed = {}

Run ==
  /\ ConnectorNext
  /\ UNCHANGED restarts
  /\ confirmed' = confirmed \cup
       {<<adding[w].target, adding[w].party>> : w \in
          {v \in Workers : /\ adding[v] # None
                           /\ reply'[v] \in {"agreement", "success"}}}

WatcherStarts ==
  /\ UNCHANGED <<disk, edits>>
  /\ pending' = <<>>
  /\ batch' = <<>>
  /\ phase' = "registered"
  /\ toList' = {}
  /\ call' = None
  /\ told' = [n \in Names |-> FALSE]
  /\ lost' = FALSE

ManagerStarts ==
  /\ pc' = "start"
  /\ index' = [f \in Files |-> None]
  /\ contractIndex' = [a \in Artifact |-> None]
  /\ descriptionIndex' = [a \in Artifact |-> None]
  /\ negotiationIndex' = [a \in Artifact |-> None]
  /\ contractStack' = [b \in Bases |-> None]
  /\ descriptionStack' = [b \in Bases |-> None]
  /\ negotiationStack' = [b \in Bases |-> None]
  /\ \/ BrokerIgnore /\ UNCHANGED brokerVars
     \/ ~BrokerIgnore /\ broker' = {} /\ brokerOk' = TRUE
     \/ ~BrokerIgnore /\ broker' \in {broker, {}} /\ brokerOk' = FALSE

ReadersStart ==
  /\ serving' = FALSE
  /\ known' = FALSE
  /\ lock' = None
  /\ started' = {}
  /\ upNext' = None
  /\ carried' = None
  /\ resources' = {}
  /\ place' = [r \in Readers |-> "idle"]
  /\ element' = [r \in Readers |-> None]
  /\ result' = [r \in Readers |-> {}]
  /\ outcome' = [r \in Readers |-> None]
  /\ seen' = [r \in Readers |-> {}]
  /\ kept' = [r \in Readers |-> {}]

WorkersStart ==
  /\ job' = [w \in Workers |-> None]
  /\ step' = [w \in Workers |-> "idle"]
  /\ found' = [w \in Workers |-> None]
  /\ reply' = [w \in Workers |-> None]
  /\ reasons' = [w \in Workers |-> {}]
  /\ disturbed' = [w \in Workers |-> FALSE]

(* Nothing can be expected of the next process if the file of signed       *)
(* contracts is being written, or cannot be read back, or if a save failed *)
(* and none has made up for it since: save swallows the failure.           *)
Restart ==
  /\ restarts < MaxRestarts
  /\ restarts' = restarts + 1
  /\ WatcherStarts
  /\ ManagerStarts
  /\ ReadersStart
  /\ WorkersStart
  /\ Store!Restart
  /\ confirmed' = IF file = Torn \/ spoilt THEN {} ELSE confirmed
  /\ UNCHANGED <<requests, offered>>

ProcessNext == Run \/ Restart

ProcessSpec == ProcessInit /\ [][ProcessNext]_processVars

-----------------------------------------------------------------------------
(* An agreement that was confirmed to its consumer is held from then on,   *)
(* across restarts of the process, for the artifact of the same file,      *)
(* unless the process ends while the file of signed contracts is being     *)
(* written, or cannot be read back, or while a failed save is the last to  *)
(* have read the maps: an agreement confirmed after a save that failed is  *)
(* not persisted, but the next save that works persists it, too.  (With    *)
(* one thread: see ConfirmedAgreementIsHeld.)                              *)
ConfirmedStays ==
  \A c \in confirmed : Store!hasSignedContract(c[1], c[2])
=============================================================================
