--------------------------- MODULE AccountedEffect ---------------------------
(***************************************************************************)
(* The abstract promise of a durable mission: its external system is       *)
(* contacted at most once, never after an outcome is on record, and the    *)
(* outcome on record never changes.                                        *)
(***************************************************************************)
EXTENDS Naturals

CONSTANT Mission

VARIABLES
  contacts,  \* [Mission -> Nat]: contacts with the external system
  settled    \* [Mission -> {"none", "COMPLETED", "FAILED"}]

accountVars == <<contacts, settled>>

AccountInit ==
  /\ contacts = [m \in Mission |-> 0]
  /\ settled = [m \in Mission |-> "none"]

ContactOnce(m) ==
  /\ contacts[m] = 0
  /\ settled[m] = "none"
  /\ contacts' = [contacts EXCEPT ![m] = 1]
  /\ UNCHANGED settled

Settle(m) ==
  /\ settled[m] = "none"
  /\ \E o \in {"COMPLETED", "FAILED"} : settled' = [settled EXCEPT ![m] = o]
  /\ UNCHANGED contacts

AccountNext == \E m \in Mission : ContactOnce(m) \/ Settle(m)

AccountSpec == AccountInit /\ [][AccountNext]_accountVars
=============================================================================
