------------------------------ MODULE Planning -----------------------------
(***************************************************************************)
(* The meals of a bowl: an array, kept as a set of records with a rank, an *)
(* hour and more, and the one nextMeal of src/serveur/traitement.js takes  *)
(* for the next.  ProchainRepas has its loops on the array itself.         *)
(***************************************************************************)
EXTENDS Integers

VARIABLE maintenant  \* the current minute

Premier(R) == CHOOSE r \in R : \A x \in R : r.rang <= x.rang
Dernier(R) == CHOOSE r \in R : \A x \in R : x.rang <= r.rang

\* Variant: a meal of the current minute is still to come.
ProchainEgal(R) ==
  LET restants == {r \in R : r.heure >= maintenant}
      plusTot(S) == {r \in S : \A x \in S : r.heure <= x.heure}
  IN  IF restants # {} THEN Premier(plusTot(restants)) ELSE Dernier(plusTot(R))

(* nextMeal: the earliest meal strictly later today, the first of the array *)
(* among equals; else the earliest of all, the last of the array.           *)
PlusTot(S) == {r \in S : \A x \in S : r.heure <= x.heure}
Prochain(R) ==
  LET restants == {r \in R : r.heure > maintenant}
  IN  IF restants # {} THEN Premier(PlusTot(restants)) ELSE Dernier(PlusTot(R))
=============================================================================
