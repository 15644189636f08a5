---------------------------- MODULE Reservation ----------------------------
(***************************************************************************)
(* What the booking application promises, with no handlers, tables or      *)
(* answers in it: a client reserves rooms for a stay that no other         *)
(* reservation holds, pays for it or gives it up, and that is final, as    *)
(* long as nobody tells the application both of the same reservation.      *)
(***************************************************************************)
EXTENDS Integers

CONSTANTS
  Client,   \* who may reserve, once each
  Wish      \* the stays that may be asked for: rooms, start and end

VARIABLES
  state,     \* of each client's reservation
  stay,      \* the stay reserved, NoStay before
  disputed   \* the reservations said to be paid and said not to be

reservationVars == <<state, stay, disputed>>

NoStay == [rooms |-> {}, start |-> 0, end |-> 0]

Holds(c) == state[c] \in {"held", "paid"}

Together(s, t) == /\ s.rooms \cap t.rooms # {}
                  /\ s.start < t.end /\ t.start < s.end

ReservationInit ==
  /\ state = [c \in Client |-> "none"]
  /\ stay = [c \in Client |-> NoStay]
  /\ disputed = {}

\* A disputed reservation may come back at any time: it is not kept clear of.
Reserve(c, s) ==
  /\ state[c] = "none"
  /\ s.rooms # {} /\ s.start < s.end
  /\ \A d \in Client \ disputed : Holds(d) => ~Together(s, stay[d])
  /\ state' = [state EXCEPT ![c] = "held"]
  /\ stay' = [stay EXCEPT ![c] = s]
  /\ UNCHANGED disputed

Pay(c) ==
  /\ state[c] = "held"
  /\ state' = [state EXCEPT ![c] = "paid"]
  /\ UNCHANGED <<stay, disputed>>

GiveUp(c) ==
  /\ state[c] = "held"
  /\ state' = [state EXCEPT ![c] = "released"]
  /\ UNCHANGED <<stay, disputed>>

Dispute(c) ==
  /\ state[c] # "none"
  /\ disputed' = disputed \cup {c}
  /\ UNCHANGED <<state, stay>>

Settle(c, outcome) ==
  /\ c \in disputed
  /\ state' = [state EXCEPT ![c] = outcome]
  /\ UNCHANGED <<stay, disputed>>

ReservationNext ==
  \E c \in Client :
    \/ \E s \in Wish : Reserve(c, s)
    \/ Pay(c) \/ GiveUp(c) \/ Dispute(c)
    \/ \E outcome \in {"held", "paid", "released"} : Settle(c, outcome)

ReservationSpec == ReservationInit /\ [][ReservationNext]_reservationVars
=============================================================================
