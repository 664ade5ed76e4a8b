------------------------------ MODULE MCServeur ----------------------------
(* Instances of the server for TLC. *)
EXTENDS ServeurProprietes, TLC

\* A server installed on an empty database.
BasesVides ==
  {[g \in Gamelles |-> [docs |-> 0, repas |-> {}, historique |-> 0]]}

\* A server whose bowls each have a meal at minute 1.
RepasUn == [id |-> 1, rang |-> 1, heure |-> 1, poids |-> 1]
BasesUnRepas ==
  {[g \in Gamelles |-> [docs |-> 1, repas |-> {RepasUn}, historique |-> 0]]}
BasesVideOuUnRepas == BasesVides \cup BasesUnRepas

\* No action looks at the identity of a socket or of a handler's place.
Sockets == Permutations(Connexions)
SocketsEtPlaces == Permutations(Connexions) \cup Permutations(Requetes)
ToutesSymetries == Sockets \cup Permutations(Gamelles)

\* The empty hour, which cron.js rejects.
HeureRefusee == {-1}
HeuresBonneOuRefusee == {-1, 1}

OpsPlanning == {"addMeal", "update", "deleteMeal"}
OpsPlanningEtLecture == OpsPlanning \cup {"nextMeal"}
=============================================================================
