------------------------------ MODULE Registry ------------------------------
(***************************************************************************)
(* What the profile store promises of the registry and of the choice of    *)
(* the active profile (api/profile.go): a call changes either in one step  *)
(* or not at all, however many files it writes and wherever it fails.      *)
(* Module ProfileStore implements this specification.                      *)
(*                                                                         *)
(* The exceptions are part of the promise.  A call may take a registry     *)
(* that cannot be read for an empty one, and what it writes then is all    *)
(* there is.  Taking the name of a deleted profile out of the choice is a  *)
(* step of its own, which may not come.                                    *)
(***************************************************************************)
CONSTANTS
  Ids,    \* profile ids
  NoId,   \* "": no id
  Gone    \* the id of a profile deleted long ago

VARIABLES
  entries,   \* [Ids -> Meta or Unlisted]: what List gives
  chosen,    \* the active id
  misread    \* has the call under way failed to read the registry?

registry == <<entries, chosen, misread>>

Meta == [type : {"local", "remote", "merge"}, base : Ids \cup {NoId, Gone},
         managed : BOOLEAN, enabled : BOOLEAN]
Unlisted == [type |-> "none", base |-> NoId, managed |-> FALSE, enabled |-> FALSE]
Nobody == [i \in Ids |-> Unlisted]

Has(i) == entries[i].type # "none"

RegistryInit == entries = Nobody /\ chosen = NoId /\ misread = FALSE

-----------------------------------------------------------------------------
\* What Create, Duplicate and ImportFromURL may add, whoever else is there.
Acceptable(m) ==
  /\ m \in Meta
  /\ m.enabled
  /\ m.base \in {NoId, Gone} \cup {j \in Ids : Has(j)}
  /\ m.managed => m.type = "merge" /\ m.base # NoId

\* The visual editor has no overlay for b yet.
Unmanaged(b) ==
  \A j \in Ids : Has(j) /\ entries[j].managed => entries[j].base # b

Add(i) ==
  /\ ~misread /\ ~Has(i)
  /\ \E m \in Meta :
       /\ Acceptable(m)
       /\ m.managed => Unmanaged(m.base)
       /\ entries' = [entries EXCEPT ![i] = m]
  /\ UNCHANGED <<chosen, misread>>

\* Update; whatever else a call may change leaves the entry as it is.
Switch(i) ==
  /\ ~misread /\ Has(i)
  /\ \E on \in BOOLEAN : entries' = [entries EXCEPT ![i].enabled = on]
  /\ UNCHANGED <<chosen, misread>>

\* Delete, with everything scoped to the deleted profile.
Remove(i) ==
  /\ ~misread /\ Has(i)
  /\ entries' = [j \in Ids |-> IF j = i \/ entries[j].base = i THEN Unlisted
                                                              ELSE entries[j]]
  /\ UNCHANGED <<chosen, misread>>

\* SetActive, of a profile that is there and is no overlay.
Choose(i) ==
  /\ ~misread /\ Has(i) /\ entries[i].type # "merge"
  /\ chosen' = i
  /\ UNCHANGED <<entries, misread>>

\* ResetActive, or the end of the Delete of the active profile.
ChooseNone ==
  /\ ~misread
  /\ chosen' = NoId
  /\ UNCHANGED <<entries, misread>>

-----------------------------------------------------------------------------
(* A registry that cannot be read. *)

Misread == ~misread /\ misread' = TRUE /\ UNCHANGED <<entries, chosen>>

\* The call does not get as far as writing.
GiveUp == misread /\ misread' = FALSE /\ UNCHANGED <<entries, chosen>>

\* It writes what it takes for all: the profile it adds, if it adds one.
Overwrite ==
  /\ misread /\ misread' = FALSE
  /\ \/ entries' = Nobody
     \/ \E i \in Ids, m \in Meta :
          ~Has(i) /\ Acceptable(m) /\ entries' = [Nobody EXCEPT ![i] = m]
  /\ UNCHANGED chosen

RegistryNext ==
  \/ \E i \in Ids : Add(i) \/ Switch(i) \/ Remove(i) \/ Choose(i)
  \/ ChooseNone
  \/ Misread \/ GiveUp \/ Overwrite

RegistrySpec == RegistryInit /\ [][RegistryNext]_registry
=============================================================================
