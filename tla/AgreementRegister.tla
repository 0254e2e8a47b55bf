------------------------- MODULE AgreementRegister -------------------------
(***************************************************************************)
(* What a register of signed contract agreements promises, whose caller    *)
(* hands in one agreement at a time: an agreement handed in is held from   *)
(* the end of the call on, whatever crashes follow, unless the crash falls *)
(* into a call.  Such a crash may leave the agreement of that call in or   *)
(* out, and may also lose everything.                                      *)
(***************************************************************************)
CONSTANTS
  Targets,     \* the artifacts agreements are about
  Parties,     \* the consumers they are made with
  Agreements,  \* their contents
  None

VARIABLES
  held,     \* the agreement with a party about a target, or None
  signing   \* the call in progress, with what it replaces, or None

registerVars == <<held, signing>>

Nothing == [t \in Targets |-> [p \in Parties |-> None]]

Signing ==
  [target : Targets, party : Parties, agreement : Agreements,
   old : Agreements \cup {None}]

RegisterTypeOK ==
  /\ held \in [Targets -> [Parties -> Agreements \cup {None}]]
  /\ signing \in Signing \cup {None}

RegisterInit ==
  /\ held = Nothing
  /\ signing = None

With(agreement) ==
  [held EXCEPT ![signing.target][signing.party] = agreement]

Begin(t, p, a) ==
  /\ signing = None
  /\ signing' = [target |-> t, party |-> p, agreement |-> a,
                 old |-> held[t][p]]
  /\ UNCHANGED held

Sign ==
  /\ signing # None
  /\ held' = With(signing.agreement)
  /\ UNCHANGED signing

Finish ==
  /\ signing # None
  /\ held[signing.target][signing.party] = signing.agreement
  /\ signing' = None
  /\ UNCHANGED held

Crash ==
  /\ signing # None
  /\ signing' = None
  /\ held' \in {With(signing.agreement), With(signing.old), Nothing}

RegisterNext ==
  \/ \E t \in Targets, p \in Parties, a \in Agreements : Begin(t, p, a)
  \/ Sign
  \/ Finish
  \/ Crash

RegisterSpec == RegisterInit /\ [][RegisterNext]_registerVars
=============================================================================
