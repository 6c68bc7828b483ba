-------------------------- MODULE MCIncomingJournal --------------------------
(***************************************************************************)
(* The events of one conversation, which name a provider's epoch where     *)
(* there is one: always the same.                                          *)
(***************************************************************************)
EXTENDS IncomingJournal, TLC

MCOrderOf == [e \in Event |-> "chat"]

MCEpochOf == [e \in Event |-> IF Epoch = {} THEN Plain ELSE CHOOSE p \in Epoch : TRUE]

Twins == Permutations(Event)

(* The events that are in the intake or the table, or have left it.        *)
Arrived == {intake[i].event : i \in DOMAIN intake} \cup {e \in Event : row[e] # Absent}
           \cup expired

(* A context that can end is about, or its flight was the last.            *)
Bounded == bounded \/ last = "bounded"

(* A run of MaxUpsets = 2 has two events, two upsets or a context that can *)
(* end, but no two of these at once.                                       *)
OneHardship == /\ Cardinality(Arrived) > 1 => upsets <= 1 /\ ~Bounded
               /\ Bounded => upsets <= 1

(* With all callbacks made and no row pending, no effect can follow.       *)
Unsettled == \/ copies < MaxCopies \/ intake # <<>> \/ Pending(row) # {}
             \/ delivery # Nothing \/ detached # {}

Budget == OneHardship /\ Unsettled
=============================================================================
