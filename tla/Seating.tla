------------------------------ MODULE Seating ------------------------------
(***************************************************************************)
(* What the world promises about seats, whatever happens in its companies: *)
(* a profile holds one seat of the world or none, nobody else holds it,    *)
(* and a seat that was given once is never given again.  A slot is a seat  *)
(* of a company.  `used` holds the slots nobody can be given any more:     *)
(* those given once, and those of a company that is gone.  NoSlot is no    *)
(* slot.                                                                   *)
(***************************************************************************)
CONSTANTS Profiles, Slots, NoSlot

VARIABLES seat, used

seatingVars == <<seat, used>>

SeatingTypeOK ==
  /\ seat \in [Profiles -> Slots \cup {NoSlot}]
  /\ used \subseteq Slots

SeatingInit ==
  /\ seat = [p \in Profiles |-> NoSlot]
  /\ used = {}

Unseat(gone) == [p \in Profiles |-> IF p \in gone THEN NoSlot ELSE seat[p]]

\* The next seat of a company is one nobody was ever given.
IsFresh(slot) == slot \notin used

\* A free profile is given a fresh slot; the same step may unseat others.
Sit(p, slot, gone) ==
  /\ seat[p] = NoSlot
  /\ IsFresh(slot)
  /\ seat' = [Unseat(gone) EXCEPT ![p] = slot]
  /\ used' = used \cup {slot}

\* Profiles leave their slots: one of them, or a whole company.
Free(gone) ==
  /\ seat' = Unseat(gone)
  /\ used' = used

\* The slots of companies that are gone are not given to anybody.
Retire(slots) ==
  /\ used' = used \cup slots
  /\ seat' = seat

SeatingNext ==
  \E gone \in SUBSET Profiles :
    \/ \E p \in Profiles, slot \in Slots : Sit(p, slot, gone)
    \/ Free(gone)
    \/ \E slots \in SUBSET Slots : Retire(slots)

SeatingSpec == SeatingInit /\ [][SeatingNext]_seatingVars

-----------------------------------------------------------------------------
\* One live seat per profile, one profile per seat (the unique index of the
\* members table states the first half for the store).
OneHolder ==
  \A p, q \in Profiles : p # q /\ seat[p] # NoSlot => seat[p] # seat[q]

\* A seat somebody holds is never offered to anybody.
HeldIsUsed == \A p \in Profiles : seat[p] # NoSlot => seat[p] \in used
=============================================================================
