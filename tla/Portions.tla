------------------------------ MODULE Portions -----------------------------
(***************************************************************************)
(* What the server promises of the portions it orders, whatever the        *)
(* database calls, sockets and timers behind: distribution (traitement.js: *)
(* 330-340) of a bowl is an order that is recorded once, then sent at most *)
(* once.  It may be given up anywhere, and a crash forgets every order.    *)
(***************************************************************************)
EXTENDS Integers, FiniteSets

CONSTANTS
  Gamelles,  \* the bowls
  Lieux,     \* places for the orders in progress
  Rien       \* no order

Commandes == [g : Gamelles, consignee : BOOLEAN]

\* What the proofs need of the places; a module that implements this one has it.
PlacesFinies == IsFiniteSet(Lieux) /\ Rien \notin Commandes

VARIABLES
  historique,  \* historique[g]: entries in the history of g
  commandes,   \* the orders in progress
  servis       \* servis[g]: orders that reached the device of g

vars == <<historique, commandes, servis>>

Init ==
  /\ historique \in [Gamelles -> Nat]
  /\ commandes = [t \in Lieux |-> Rien]
  /\ servis = [g \in Gamelles |-> 0]

\* A timer fires, or the web application has asked for a portion.
Commander(t, g) ==
  /\ commandes[t] = Rien
  /\ commandes' = [commandes EXCEPT ![t] = [g |-> g, consignee |-> FALSE]]
  /\ UNCHANGED <<historique, servis>>

\* The entry of an order is pushed to the history of its bowl.
Consigner(t) ==
  /\ commandes[t] # Rien /\ ~commandes[t].consignee
  /\ historique' = [historique EXCEPT ![commandes[t].g] = @ + 1]
  /\ commandes' = [commandes EXCEPT ![t] = [g |-> commandes[t].g, consignee |-> TRUE]]
  /\ UNCHANGED servis

\* Only a recorded order reaches a device, and it is done.
Servir(t) ==
  /\ commandes[t] # Rien /\ commandes[t].consignee
  /\ servis' = [servis EXCEPT ![commandes[t].g] = @ + 1]
  /\ commandes' = [commandes EXCEPT ![t] = Rien]
  /\ UNCHANGED historique

\* The device cannot be reached, or the database fails.
Abandonner(t) ==
  /\ commandes[t] # Rien
  /\ commandes' = [commandes EXCEPT ![t] = Rien]
  /\ UNCHANGED <<historique, servis>>

\* eatNow records what a device has served by itself, or a request for a portion.
Enregistrer(g) ==
  /\ historique' = [historique EXCEPT ![g] = @ + 1]
  /\ UNCHANGED <<commandes, servis>>

\* The process stops.
Oublier ==
  /\ commandes' = [t \in Lieux |-> Rien]
  /\ UNCHANGED <<historique, servis>>

Next ==
  \/ \E t \in Lieux : \/ \E g \in Gamelles : Commander(t, g)
                      \/ Consigner(t) \/ Servir(t) \/ Abandonner(t)
  \/ \E g \in Gamelles : Enregistrer(g)
  \/ Oublier

Spec == Init /\ [][Next]_vars

------------------------------------------------------------------------------
TypeOK ==
  /\ historique \in [Gamelles -> Nat]
  /\ commandes \in [Lieux -> Commandes \cup {Rien}]
  /\ servis \in [Gamelles -> Nat]

\* The history of a bowl covers what it was made to serve and the orders that
\* are recorded and may still reach it.
Consignees(g) ==
  {t \in Lieux : commandes[t] # Rien /\ commandes[t].g = g /\ commandes[t].consignee}
Couvert == \A g \in Gamelles : servis[g] + Cardinality(Consignees(g)) <= historique[g]
=============================================================================
