------------------------ MODULE SignedContractStore ------------------------
(***************************************************************************)
(* The signed contracts of InMemoryArtifactIndex.java: a map from          *)
(* artifacts to a map from parties to agreements, written to a file after  *)
(* every addition and read back when the connector starts.                 *)
(*                                                                         *)
(* addSignedContract runs in the threads that answer requests, without a   *)
(* lock: every access to the maps and to the file is a step of its own.    *)
(* at[w] says where thread w is:                                           *)
(*   idle   not in addSignedContract                                       *)
(*   check  about to look whether the artifact has a map of its own        *)
(*   fresh  about to enter a new, empty map for it                         *)
(*   put    about to enter the agreement in the artifact's map             *)
(*   open   in save(), about to open the file                              *)
(*   write  in save(), with the file open, and emptied by that: about to   *)
(*          read the maps                                                  *)
(*   close  in save(), with what it has read not yet all in the file       *)
(*   done   about to return                                                *)
(*   failed about to throw                                                 *)
(* Every map is taken to stay within its first table of 16 slots.          *)
(***************************************************************************)
EXTENDS Naturals

CONSTANTS
  Targets,      \* the artifacts agreements are about
  Parties,      \* the consumers they are made with
  Agreements,   \* their contents
  Writers,      \* threads that may add an agreement
  DiskFails,    \* whether writing the file may fail
  Missing,      \* there is no file
  Torn,         \* a file that cannot be read back
  None          \* a missing map entry

VARIABLES
  signedContractIndex,  \* target -> None, or party -> agreement
  file,                 \* the file's contents
  at,                   \* where each thread is
  adding,               \* the arguments of each thread's call
  overlapped,           \* whether another save ran beside a thread's save
  writing,              \* what a thread's save has read, or Torn
  settled,              \* history: seen held, with no call about the target
  spoilt                \* history: see SettledIsSaved

saveVars == <<overlapped, writing, spoilt>>
storeVars ==
  <<signedContractIndex, file, at, adding, settled, saveVars>>

Bucket == [Parties -> Agreements \cup {None}]
Memory == [Targets -> Bucket \cup {None}]

(* With a call's arguments, for history, the agreement it replaces.        *)
Arguments ==
  [target : Targets, party : Parties, agreement : Agreements,
   old : Agreements \cup {None}]

ASSUME StoreAssumption ==
  /\ DiskFails \in BOOLEAN
  /\ None \notin Agreements \cup Bucket \cup Arguments
  /\ Missing # Torn
  /\ {Missing, Torn} \cap Memory = {}

Empty == [t \in Targets |-> None]
EmptyBucket == [p \in Parties |-> None]

StoreTypeOK ==
  /\ signedContractIndex \in Memory
  /\ file \in Memory \cup {Missing, Torn}
  /\ at \in [Writers -> {"idle", "check", "fresh", "put", "open", "write",
                         "close", "done", "failed"}]
  /\ adding \in [Writers -> Arguments \cup {None}]
  /\ \A w \in Writers : adding[w] = None <=> at[w] = "idle"
  /\ overlapped \in [Writers -> BOOLEAN]
  /\ writing \in [Writers -> Memory \cup {Torn}]
  /\ settled \in [Targets -> [Parties -> BOOLEAN]]
  /\ spoilt \in BOOLEAN

StoreInit ==
  /\ signedContractIndex = Empty
  /\ file = Missing
  /\ at = [w \in Writers |-> "idle"]
  /\ adding = [w \in Writers |-> None]
  /\ overlapped = [w \in Writers |-> FALSE]
  /\ writing = [w \in Writers |-> Torn]
  /\ settled = [t \in Targets |-> [p \in Parties |-> FALSE]]
  /\ spoilt = FALSE

Step(w, from, to) == at[w] = from /\ at' = [at EXCEPT ![w] = to]

-----------------------------------------------------------------------------
hasSignedContract(t, p) ==
  signedContractIndex[t] # None /\ signedContractIndex[t][p] # None

getSignedContract(t, p) ==
  IF hasSignedContract(t, p) THEN signedContractIndex[t][p] ELSE None

Busy(t) == {w \in Writers : adding[w] # None /\ adding[w].target = t}

(* addSignedContract.                                                      *)
addSignedContract(w, t, p, a) ==
  /\ Step(w, "idle", "check")
  /\ adding' = [adding EXCEPT ![w] =
                  [target |-> t, party |-> p, agreement |-> a,
                   old |-> getSignedContract(t, p)]]
  /\ settled' = [settled EXCEPT ![t] =
                   [q \in Parties |->
                      settled[t][q] \/ (Busy(t) = {} /\ hasSignedContract(t, q))]]
  /\ UNCHANGED <<signedContractIndex, file, saveVars>>

(* A new map for every agreement.                                          *)
CheckNothing(w) ==
  /\ Step(w, "check", "fresh")
  /\ UNCHANGED <<signedContractIndex, file, adding, settled, saveVars>>

Check(w) ==
  /\ \/ /\ Step(w, "check", "fresh")
        /\ signedContractIndex[adding[w].target] = None
     \/ /\ Step(w, "check", "put")
        /\ signedContractIndex[adding[w].target] # None
  /\ UNCHANGED <<signedContractIndex, file, adding, settled, saveVars>>

(* HashMap.put, while another put to the same map runs: either may get     *)
(* lost.                                                                   *)
Fresh(w) ==
  /\ Step(w, "fresh", "put")
  /\ \/ signedContractIndex' =
          [signedContractIndex EXCEPT ![adding[w].target] = EmptyBucket]
     \/ /\ \E v \in Writers \ {w} : at[v] = "fresh"
        /\ UNCHANGED signedContractIndex
  /\ UNCHANGED <<file, adding, settled, saveVars>>

(* Without save().                                                         *)
PutUnsaved(w) ==
  LET t == adding[w].target
      p == adding[w].party IN
    /\ Step(w, "put", "done")
    /\ signedContractIndex[t] # None
    /\ signedContractIndex' =
         [signedContractIndex EXCEPT ![t][p] = adding[w].agreement]
    /\ UNCHANGED <<file, adding, settled, saveVars>>

Put(w) ==
  LET t == adding[w].target
      p == adding[w].party IN
    /\ Step(w, "put", "open")
    /\ signedContractIndex[t] # None
    /\ \/ signedContractIndex' =
            [signedContractIndex EXCEPT ![t][p] = adding[w].agreement]
       \/ /\ \E v \in Busy(t) \ {w} : at[v] = "put"
          /\ UNCHANGED signedContractIndex
    /\ UNCHANGED <<file, adding, settled, saveVars>>

(* The new map got lost: a NullPointerException.                           *)
PutThrows(w) ==
  /\ Step(w, "put", "failed")
  /\ signedContractIndex[adding[w].target] = None
  /\ UNCHANGED <<signedContractIndex, file, adding, settled, saveVars>>

-----------------------------------------------------------------------------
(* save.  Whatever goes wrong is swallowed.                                *)

Saving == {w \in Writers : at[w] \in {"write", "close"}}

Open(w) ==
  /\ Step(w, "open", "write")
  /\ file' = Torn
  /\ overlapped' = [v \in Writers |->
                      IF v = w THEN Saving # {}
                      ELSE overlapped[v] \/ v \in Saving]
  /\ UNCHANGED <<signedContractIndex, adding, settled, writing, spoilt>>

OpenFails(w) ==
  /\ DiskFails
  /\ Step(w, "open", "done")
  /\ spoilt' = TRUE
  /\ UNCHANGED <<signedContractIndex, file, adding, settled, overlapped, writing>>

(* Maps read beside an addition may make what cannot be read back.         *)
Write(w) ==
  /\ Step(w, "write", "close")
  /\ \/ /\ writing' = [writing EXCEPT ![w] = signedContractIndex]
        /\ spoilt' = (spoilt /\ overlapped[w])
     \/ /\ DiskFails \/ \E v \in Writers : at[v] \in {"fresh", "put"}
        /\ writing' = [writing EXCEPT ![w] = Torn]
        /\ UNCHANGED spoilt
  /\ UNCHANGED <<signedContractIndex, file, adding, settled, overlapped>>

(* A save beside another one writes over what that one wrote, from the     *)
(* place it has come to: the file is its own, or cannot be read back.      *)
Close(w) ==
  /\ Step(w, "close", "done")
  /\ \/ file' = writing[w]
     \/ overlapped[w] /\ file' = Torn
  /\ overlapped' = [overlapped EXCEPT ![w] = FALSE]
  /\ writing' = [writing EXCEPT ![w] = Torn]
  /\ spoilt' = (spoilt \/ overlapped[w])
  /\ UNCHANGED <<signedContractIndex, adding, settled>>

Leave(w) ==
  /\ at[w] \in {"done", "failed"}
  /\ at' = [at EXCEPT ![w] = "idle"]
  /\ adding' = [adding EXCEPT ![w] = None]
  /\ UNCHANGED <<signedContractIndex, file, settled, saveVars>>

Add(w) ==
  \/ Check(w)
  \/ Fresh(w)
  \/ Put(w)
  \/ PutThrows(w)
  \/ Open(w)
  \/ OpenFails(w)
  \/ Write(w)
  \/ Close(w)
  \/ Leave(w)

-----------------------------------------------------------------------------
(* Whatever the file holds.                                                *)
LoadedBlindly(contents) == contents

(* load: a file that is missing, or cannot be read back, is passed over.   *)
Loaded(contents) ==
  IF contents \in {Missing, Torn} THEN Empty ELSE contents

(* The process ends, at any moment, and is started again.                  *)
Restart ==
  /\ signedContractIndex' = Loaded(file)
  /\ at' = [w \in Writers |-> "idle"]
  /\ adding' = [w \in Writers |-> None]
  /\ overlapped' = [w \in Writers |-> FALSE]
  /\ writing' = [w \in Writers |-> Torn]
  /\ settled' = [t \in Targets |-> [p \in Parties |-> FALSE]]
  /\ spoilt' = FALSE
  /\ UNCHANGED file

StoreNext ==
  \/ \E w \in Writers, t \in Targets, p \in Parties, a \in Agreements :
       addSignedContract(w, t, p, a)
  \/ \E w \in Writers : Add(w)
  \/ Restart

StoreSpec == StoreInit /\ [][StoreNext]_storeVars

-----------------------------------------------------------------------------
(* An agreement that was in the map while nobody was adding one about its  *)
(* artifact stays there until the process ends: the unlocked test for the  *)
(* artifact's map in addSignedContract can replace it, with all its        *)
(* agreements, only as long as the calls that may do so are in progress.   *)
SettledAgreementsStay ==
  \A t \in Targets, p \in Parties : settled[t][p] => hasSignedContract(t, p)

(* The strengthening that is inductive: no thread is on its way to replace *)
(* the map of a settled agreement.                                         *)
SettledInv ==
  /\ SettledAgreementsStay
  /\ \A t \in Targets, p \in Parties :
       settled[t][p] => \A w \in Busy(t) : at[w] # "fresh"

Covers(memory, t, p) == memory[t] # None /\ memory[t][p] # None

(* What is settled, or held about an artifact while nobody is adding an    *)
(* agreement about it, would be held again were the process to end at this *)
(* moment: addSignedContract saves before it returns, and a save that has  *)
(* read the maps before cannot be the last to write the file.  Two things  *)
(* excuse the store, and each of them shows: a file that cannot be read    *)
(* back, and saves that are spoilt: one could not open the file, or ran    *)
(* beside another (and left, it may be, what it had read long before), and *)
(* no save that ran alone has read the maps since.                         *)
SettledIsSaved ==
  \A t \in Targets, p \in Parties :
    /\ settled[t][p] \/ (Busy(t) = {} /\ hasSignedContract(t, p))
    /\ ~spoilt
    => file = Torn \/ Covers(Loaded(file), t, p)

(* What a restart would read covers what is settled, and what is held but  *)
(* for what a thread that adds about the same artifact is about to save.   *)
CoversHeld(memory) ==
  \A t \in Targets, p \in Parties :
    /\ settled[t][p] => Covers(memory, t, p)
    /\ hasSignedContract(t, p) =>
         Covers(memory, t, p) \/ \E w \in Busy(t) : at[w] = "open"

(* The strengthening that is inductive, with SettledInv.                   *)
SavedInv ==
  /\ ~spoilt /\ file # Torn => CoversHeld(Loaded(file))
  /\ \A w \in Saving : ~overlapped[w] =>
       /\ Saving = {w}
       /\ file = Torn
       /\ ~spoilt /\ at[w] = "close" /\ writing[w] # Torn =>
            CoversHeld(writing[w])

-----------------------------------------------------------------------------
(* One thread at a time, and a disk that works: AgreementRegister.         *)

Held ==
  [t \in Targets |-> [p \in Parties |-> getSignedContract(t, p)]]

InProgress ==
  IF \A w \in Writers : adding[w] = None
    THEN None
    ELSE adding[CHOOSE w \in Writers : adding[w] # None]

Register ==
  INSTANCE AgreementRegister WITH held <- Held, signing <- InProgress

(* An agreement whose addition has returned survives every restart that    *)
(* does not interrupt another addition; one that does loses nothing but    *)
(* the agreement being added, or everything, as when the file has been     *)
(* emptied and not been written yet (addSignedContract, save, load).       *)
IsRegister == Register!RegisterSpec
=============================================================================
