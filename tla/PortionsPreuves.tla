--------------------------- MODULE PortionsPreuves -------------------------
(* Proofs about Portions, for every set of bowls and of places. *)
EXTENDS Portions, TLAPS, FiniteSetTheorems

\* An order is of one bowl: its place counts for that bowl only.
LEMMA ConsigneesFini ==
  ASSUME PlacesFinies, TypeOK, NEW g \in Gamelles
  PROVE  IsFiniteSet(Consignees(g)) /\ Cardinality(Consignees(g)) \in Nat
BY FS_Subset, FS_CardinalityType DEF Consignees, PlacesFinies

\* Places that leave the set, or none that enters it, make it no larger.
LEMMA Moins ==
  ASSUME NEW A, NEW B, IsFiniteSet(B), A \subseteq B
  PROVE  IsFiniteSet(A) /\ Cardinality(A) <= Cardinality(B)
BY FS_Subset

LEMMA TypageStable ==
  ASSUME TypeOK, [Next]_vars
  PROVE  TypeOK'
<1> USE DEF TypeOK, Commandes
<1>1. ASSUME NEW t \in Lieux, NEW g \in Gamelles, Commander(t, g) PROVE TypeOK'
  BY <1>1 DEF Commander
<1>2. ASSUME NEW t \in Lieux, Consigner(t) PROVE TypeOK'
  BY <1>2 DEF Consigner
<1>3. ASSUME NEW t \in Lieux, Servir(t) PROVE TypeOK'
  BY <1>3 DEF Servir
<1>4. ASSUME NEW t \in Lieux, Abandonner(t) PROVE TypeOK'
  BY <1>4 DEF Abandonner
<1>5. ASSUME NEW g \in Gamelles, Enregistrer(g) PROVE TypeOK'
  BY <1>5 DEF Enregistrer
<1>6. CASE Oublier
  BY <1>6 DEF Oublier
<1>7. CASE UNCHANGED vars
  BY <1>7 DEF vars
<1> QED BY <1>1, <1>2, <1>3, <1>4, <1>5, <1>6, <1>7 DEF Next

LEMMA CouvertStable ==
  ASSUME PlacesFinies, TypeOK, Couvert, [Next]_vars
  PROVE  Couvert'
<1> SUFFICES ASSUME NEW h \in Gamelles
             PROVE  (servis[h] + Cardinality(Consignees(h)) <= historique[h])'
  BY DEF Couvert
<1> DEFINE C == Consignees(h)
<1>1. /\ IsFiniteSet(C) /\ Cardinality(C) \in Nat
      /\ servis[h] \in Nat /\ historique[h] \in Nat
      /\ servis[h] + Cardinality(C) <= historique[h]
  BY ConsigneesFini DEF TypeOK, Couvert
\* No order becomes recorded, no portion is served.
<1>2. ASSUME C' \subseteq C, servis' = servis, historique'[h] >= historique[h],
             historique'[h] \in Nat
      PROVE  servis'[h] + Cardinality(C') <= historique'[h]
  <2>1. Cardinality(C') <= Cardinality(C) /\ Cardinality(C') \in Nat
    BY <1>1, <1>2, Moins, FS_CardinalityType
  <2> QED BY <2>1, <1>1, <1>2
<1>3. ASSUME NEW t \in Lieux, NEW g \in Gamelles, Commander(t, g)
      PROVE  servis'[h] + Cardinality(C') <= historique'[h]
  <2>1. C' \subseteq C
    BY <1>3 DEF Commander, Consignees, TypeOK
  <2> QED BY <2>1, <1>1, <1>2, <1>3 DEF Commander
<1>4. ASSUME NEW t \in Lieux, Consigner(t)
      PROVE  servis'[h] + Cardinality(C') <= historique'[h]
  <2>1. commandes[t] \in Commandes
    BY <1>4 DEF Consigner, TypeOK
  <2>2. CASE commandes[t].g = h
    <3>1. C' \subseteq C \cup {t} /\ t \notin C
      BY <1>4 DEF Consigner, Consignees, TypeOK
    <3>2. Cardinality(C \cup {t}) = Cardinality(C) + 1 /\ IsFiniteSet(C \cup {t})
      BY <1>1, <3>1, FS_AddElement
    <3>3. Cardinality(C') <= Cardinality(C) + 1 /\ Cardinality(C') \in Nat
      BY <3>1, <3>2, Moins, FS_CardinalityType
    <3>4. historique'[h] = historique[h] + 1 /\ servis' = servis
      BY <1>4, <2>2 DEF Consigner, TypeOK
    <3> QED BY <1>1, <3>3, <3>4
  <2>3. CASE commandes[t].g # h
    <3>1. C' \subseteq C
      BY <1>4, <2>3 DEF Consigner, Consignees, TypeOK
    <3>2. historique'[h] = historique[h] /\ servis' = servis
      BY <1>4, <2>3 DEF Consigner, TypeOK
    <3> QED BY <1>1, <1>2, <3>1, <3>2
  <2> QED BY <2>2, <2>3
<1>5. ASSUME NEW t \in Lieux, Servir(t)
      PROVE  servis'[h] + Cardinality(C') <= historique'[h]
  <2>1. CASE commandes[t].g = h
    <3>1. C' \subseteq C \ {t} /\ t \in C
      BY <1>5, <2>1 DEF Servir, Consignees, TypeOK, PlacesFinies
    <3>2. Cardinality(C \ {t}) = Cardinality(C) - 1 /\ IsFiniteSet(C \ {t})
      BY <1>1, <3>1, FS_RemoveElement
    <3>3. Cardinality(C') <= Cardinality(C) - 1 /\ Cardinality(C') \in Nat
      BY <3>1, <3>2, Moins, FS_CardinalityType
    <3>4. servis'[h] = servis[h] + 1 /\ historique' = historique
      BY <1>5, <2>1 DEF Servir, TypeOK
    <3> QED BY <1>1, <3>3, <3>4
  <2>2. CASE commandes[t].g # h
    <3>1. C' \subseteq C
      BY <1>5, <2>2 DEF Servir, Consignees, TypeOK, PlacesFinies
    <3>2. servis'[h] = servis[h] /\ historique' = historique
      BY <1>5, <2>2 DEF Servir, TypeOK
    <3>3. Cardinality(C') <= Cardinality(C) /\ Cardinality(C') \in Nat
      BY <1>1, <3>1, Moins, FS_CardinalityType
    <3> QED BY <1>1, <3>2, <3>3
  <2> QED BY <2>1, <2>2
<1>6. ASSUME NEW t \in Lieux, Abandonner(t)
      PROVE  servis'[h] + Cardinality(C') <= historique'[h]
  <2>1. C' \subseteq C
    BY <1>6 DEF Abandonner, Consignees, TypeOK, PlacesFinies
  <2> QED BY <2>1, <1>1, <1>2, <1>6 DEF Abandonner
<1>7. ASSUME NEW g \in Gamelles, Enregistrer(g)
      PROVE  servis'[h] + Cardinality(C') <= historique'[h]
  <2>1. C' = C
    BY <1>7 DEF Enregistrer, Consignees
  <2>2. historique'[h] >= historique[h] /\ historique'[h] \in Nat /\ servis' = servis
    BY <1>7 DEF Enregistrer, TypeOK
  <2> QED BY <2>1, <2>2, <1>2
<1>8. CASE Oublier
  <2>1. C' \subseteq C
    BY <1>8 DEF Oublier, Consignees, PlacesFinies
  <2> QED BY <2>1, <1>1, <1>2, <1>8 DEF Oublier
<1>9. CASE UNCHANGED vars
  <2>1. C' = C
    BY <1>9 DEF vars, Consignees
  <2> QED BY <2>1, <1>1, <1>2, <1>9 DEF vars
<1> QED BY <1>3, <1>4, <1>5, <1>6, <1>7, <1>8, <1>9 DEF Next

LEMMA CouvertInit ==
  ASSUME Init
  PROVE  TypeOK /\ Couvert
<1>1. TypeOK
  BY DEF Init, TypeOK
<1>2. ASSUME NEW g \in Gamelles
      PROVE  servis[g] + Cardinality(Consignees(g)) <= historique[g]
  <2>1. Consignees(g) = {}
    BY DEF Init, Consignees
  <2>2. Cardinality(Consignees(g)) = 0
    BY <2>1, FS_EmptySet
  <2> QED BY <2>2 DEF Init
<1> QED BY <1>1, <1>2 DEF Couvert

\* The promise of the abstract specification: no portion without its entry.
THEOREM ToujoursCouvert ==
  ASSUME PlacesFinies
  PROVE  Spec => []Couvert
<1>1. Init => TypeOK /\ Couvert
  BY CouvertInit
<1>2. TypeOK /\ Couvert /\ [Next]_vars => (TypeOK /\ Couvert)'
  BY PlacesFinies, TypageStable, CouvertStable
<1> QED BY <1>1, <1>2, PTL DEF Spec
=============================================================================
