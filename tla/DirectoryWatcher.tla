-------------------------- MODULE DirectoryWatcher --------------------------
(***************************************************************************)
(* DirectoryWatcher.java: the artifact directory, the JDK watch key that   *)
(* queues its events, and the thread that turns events into listener calls.*)
(*                                                                         *)
(* The constructor registers the watch (phase "registered"); the main      *)
(* thread then notifies the listener of every name it lists (phase         *)
(* "listing") and submits the watcher thread (phase "watching"), which     *)
(* takes the key, drains its events into a batch and dispatches them one   *)
(* by one.  Anybody may change the directory at any moment.  A listener    *)
(* call is a step of its own, with steps of others in between; what it     *)
(* does is left open here and filled in by ArtifactChangeManager.          *)
(***************************************************************************)
EXTENDS ArtifactFiles

CONSTANTS
  MaxEvents,      \* events a key holds before it drops them (512 in the JDK)
  MaxEdits,       \* bound on the changes made to the directory
  AtomicReplace   \* whether files may be renamed over existing ones

ASSUME WatcherAssumption ==
  /\ MaxEvents \in Nat \ {0}
  /\ MaxEdits \in Nat
  /\ AtomicReplace \in BOOLEAN

VARIABLES
  disk,      \* the contents of the directory
  edits,     \* how many changes were made to it
  pending,   \* events queued in the watch key
  batch,     \* events drained by pollEvents() and not yet looked at
  phase,     \* where the main thread or the watcher thread is
  toList,    \* names of listFiles() still to be notified at startup
  call,      \* the listener call in progress, or None
  told,      \* history: the last call about n said that n is there
  lost       \* history: the key has dropped events

watcherVars ==
  <<disk, edits, pending, batch, phase, toList, call, told, lost>>

threadVars == <<batch, phase, toList, call, told>>

Overflow == [kind |-> "OVERFLOW", name |-> None]
Event == [kind : {"CREATE", "MODIFY", "DELETE"}, name : Names] \cup {Overflow}

Phases == {"registered", "listing", "watching", "stopped"}
Call == [op : {"add", "change", "remove"}, name : Names]

ASSUME CallAssumption == None \notin Call

WatcherTypeOK ==
  /\ disk \in [Names -> AllContents]
  /\ \A n \in Names : disk[n] \in Contents(n)
  /\ edits \in 0..MaxEdits
  /\ pending \in Seq(Event)
  /\ Len(pending) <= MaxEvents
  /\ batch \in Seq(Event)
  /\ Len(batch) <= MaxEvents
  /\ phase \in Phases
  /\ toList \subseteq Names
  /\ call \in Call \cup {None}
  /\ told \in [Names -> BOOLEAN]
  /\ lost \in BOOLEAN

WatcherInit ==
  /\ disk \in {d \in [Names -> AllContents] :
                  \A n \in Names : d[n] \in Contents(n)}
  /\ edits = 0
  /\ pending = <<>>
  /\ batch = <<>>
  /\ phase = "registered"
  /\ toList = {}
  /\ call = None
  /\ told = [n \in Names |-> FALSE]
  /\ lost = FALSE

-----------------------------------------------------------------------------
(* The watch key (JDK): a repetition of the last event, and a modification *)
(* of a name whose last queued event is a modification, are only counted;  *)
(* a full key drops everything it holds and keeps a single OVERFLOW event, *)
(* which absorbs every later one until the key is drained.                 *)

ModifyQueued(queue, n) ==
  \E i \in DOMAIN queue :
    /\ queue[i] = [kind |-> "MODIFY", name |-> n]
    /\ \A j \in DOMAIN queue : j > i => queue[j].name # n

Counted(queue, event) ==
  \/ queue # <<>> /\ queue[Len(queue)] \in {event, Overflow}
  \/ event.kind = "MODIFY" /\ ModifyQueued(queue, event.name)

Signal(queue, event) ==
  IF Counted(queue, event) THEN queue
  ELSE IF Len(queue) >= MaxEvents THEN <<Overflow>>
  ELSE Append(queue, event)

-----------------------------------------------------------------------------
(* Changes of the directory, by whoever has access to it.                  *)

Edit(n, content, kind) ==
  /\ edits < MaxEdits
  /\ edits' = edits + 1
  /\ disk' = [disk EXCEPT ![n] = content]
  /\ pending' = Signal(pending, [kind |-> kind, name |-> n])
  /\ lost' = (lost \/ pending' = <<Overflow>>)
  /\ UNCHANGED threadVars

(* A new file, or with content Directory a new directory.                  *)
Create(n) ==
  /\ disk[n] = Absent
  /\ \E c \in Contents(n) \ {Absent} : Edit(n, c, "CREATE")

Write(n) ==
  /\ IsFile(disk[n])
  /\ \E c \in Contents(n) \ NoFile : Edit(n, c, "MODIFY")

Delete(n) ==
  /\ disk[n] # Absent
  /\ Edit(n, Absent, "DELETE")

(* rename(2) over an existing file is seen as one ENTRY_CREATE.            *)
Replace(n) ==
  /\ AtomicReplace
  /\ IsFile(disk[n])
  /\ \E c \in Contents(n) \ NoFile : Edit(n, c, "CREATE")

User == \E n \in Names : Create(n) \/ Write(n) \/ Delete(n) \/ Replace(n)

-----------------------------------------------------------------------------
(* The main thread, and after it the watcher thread.                       *)

Notify(operation, n) ==
  /\ call' = [op |-> operation, name |-> n]
  /\ told' = [told EXCEPT ![n] = operation # "remove"]

ListDirectory ==
  /\ phase = "registered"
  /\ phase' = "listing"
  /\ toList' = {n \in Names : disk[n] # Absent}
  /\ UNCHANGED <<disk, edits, pending, batch, call, told, lost>>

ListNext ==
  /\ phase = "listing"
  /\ call = None
  /\ \E n \in toList :
       /\ toList' = toList \ {n}
       /\ Notify("add", n)
  /\ UNCHANGED <<disk, edits, pending, batch, phase, lost>>

(* Changes made during the listing go unnoticed.                           *)
StartWatchingAfresh ==
  /\ phase = "listing"
  /\ call = None
  /\ toList = {}
  /\ phase' = "watching"
  /\ pending' = <<>>
  /\ UNCHANGED <<disk, edits, batch, toList, call, told, lost>>

StartWatching ==
  /\ phase = "listing"
  /\ call = None
  /\ toList = {}
  /\ phase' = "watching"
  /\ UNCHANGED <<disk, edits, pending, batch, toList, call, told, lost>>

(* watchService.take() and key.pollEvents().                               *)
Poll ==
  /\ phase = "watching"
  /\ call = None
  /\ batch = <<>>
  /\ pending # <<>>
  /\ batch' = pending
  /\ pending' = <<>>
  /\ UNCHANGED <<disk, edits, phase, toList, call, told, lost>>

Operation ==
  [CREATE |-> "add", MODIFY |-> "change", DELETE |-> "remove"]

(* Deletions are looked at like the other events.                          *)
NotifiesFilesOnly(event) == event # Overflow /\ IsFile(disk[event.name])

(* Whether an event leads to a call is decided by the file found now, not  *)
(* by the one there was when the event was queued.                         *)
Notifies(event) ==
  \/ event.kind \in {"CREATE", "MODIFY"} /\ IsFile(disk[event.name])
  \/ event.kind = "DELETE"

(* An event whose file is gone is kept until the file comes back.          *)
DispatchPatiently ==
  /\ phase = "watching"
  /\ call = None
  /\ batch # <<>>
  /\ LET event == Head(batch) IN
       IF event = Overflow \/ Notifies(event)
         THEN /\ batch' = Tail(batch)
              /\ IF event = Overflow
                   THEN UNCHANGED <<call, told>>
                   ELSE Notify(Operation[event.kind], event.name)
         ELSE UNCHANGED <<batch, call, told>>
  /\ UNCHANGED <<disk, edits, pending, phase, toList, lost>>

Dispatch ==
  /\ phase = "watching"
  /\ call = None
  /\ batch # <<>>
  /\ batch' = Tail(batch)
  /\ LET event == Head(batch) IN
       IF Notifies(event)
         THEN Notify(Operation[event.kind], event.name)
         ELSE UNCHANGED <<call, told>>
  /\ UNCHANGED <<disk, edits, pending, phase, toList, lost>>

(* key.reset() returns false once the directory is no longer accessible.   *)
StopWatching ==
  /\ phase = "watching"
  /\ call = None
  /\ batch = <<>>
  /\ phase' = "stopped"
  /\ UNCHANGED <<disk, edits, pending, batch, toList, call, told, lost>>

ListenerReturns ==
  /\ call # None
  /\ call' = None
  /\ UNCHANGED <<disk, edits, pending, batch, phase, toList, told, lost>>

(* Only InfomodelFormalException and IOException are caught around a call: *)
(* any other exception ends the startup, or the watcher's thread.          *)
ListenerThrows ==
  /\ call # None
  /\ call' = None
  /\ phase' = "stopped"
  /\ UNCHANGED <<disk, edits, pending, batch, toList, told, lost>>

Thread == ListDirectory \/ ListNext \/ StartWatching \/ Poll \/ Dispatch

WatcherNext ==
  \/ User
  \/ Thread
  \/ StopWatching
  \/ ListenerReturns
  \/ ListenerThrows

WatcherSpec == WatcherInit /\ [][WatcherNext]_watcherVars

-----------------------------------------------------------------------------
Quiescent ==
  /\ phase = "watching"
  /\ call = None
  /\ batch = <<>>
  /\ pending = <<>>

(* Once the watcher has caught up, and unless its key has dropped events,  *)
(* the last word the listener was given about a name agrees with the       *)
(* directory: files are there, absent names are not.  No order of startup  *)
(* listing, coalesced and repeated events, or changes made between an      *)
(* event and its dispatch leaves a file unannounced or a deleted one       *)
(* announced (DirectoryWatcher.run, notifyListenersOfExistingFiles).       *)
LastWordIsTrue ==
  Quiescent /\ ~lost =>
    \A n \in Names :
      /\ IsFile(disk[n]) => told[n]
      /\ disk[n] = Absent => ~told[n]
=============================================================================
