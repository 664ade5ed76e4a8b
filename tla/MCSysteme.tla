----------------------------- MODULE MCSysteme -----------------------------
(* Instances of the page with the server for TLC. *)
EXTENDS Systeme

\* The first bowl has a meal, the others have none.
RepasUn == [id |-> 1, rang |-> 1, heure |-> 1, poids |-> 1]
BasesUnRepas ==
  {[g \in Gamelles |-> [docs |-> 1, historique |-> 0,
     repas |-> IF g = CHOOSE h \in Gamelles : TRUE THEN {RepasUn} ELSE {}]]}
=============================================================================
