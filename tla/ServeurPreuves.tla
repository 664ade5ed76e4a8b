---------------------------- MODULE ServeurPreuves -------------------------
(***************************************************************************)
(* Proofs about the server, for every set of bowls, sockets and handlers,  *)
(* every day length and limit, with or without failures of the database,   *)
(* and whatever the interleaving of the handlers: the types, what a device *)
(* may be sent, the bounds on the meals and documents of a bowl, and that  *)
(* the server implements Portions.                                         *)
(***************************************************************************)
EXTENDS ServeurProprietes, TLAPS, FiniteSetTheorems, NaturalsInduction,
        WellFoundedInduction

(* Facts about finite sets.  Induction is done on the least element of a set *)
(* of naturals.                                                              *)

\* A non-empty set of naturals has a least element.
LEMMA MinNat ==
  ASSUME NEW T \in SUBSET Nat, T # {}
  PROVE  \E x \in T : \A y \in T : x <= y
<1>1. PICK x \in T : \A y \in T : ~(<<y, x>> \in OpToRel(<, Nat))
  BY NatLessThanWellFounded, WFMin, Zenon
<1>2. \A y \in T : ~(y < x)
  BY <1>1, Zenon DEF OpToRel
<1> QED BY <1>2

\* A non-empty finite set of naturals has a greatest element.
LEMMA MaxFini ==
  ASSUME NEW T0 \in SUBSET Nat, IsFiniteSet(T0), T0 # {}
  PROVE  \E x \in T0 : \A y \in T0 : y <= x
<1> DEFINE AUnMax(S) == \E x \in S : \A y \in S : y <= x
           Contre == {S \in SUBSET T0 : S # {} /\ ~AUnMax(S)}
           Tailles == {Cardinality(S) : S \in Contre}
<1>1. SUFFICES ASSUME T0 \in Contre PROVE FALSE
  OBVIOUS
<1>2. \A S \in Contre : IsFiniteSet(S) /\ Cardinality(S) \in Nat
  BY FS_Subset, FS_CardinalityType
<1>3. Tailles \in SUBSET Nat /\ Tailles # {}
  BY <1>1, <1>2
<1>4. PICK n \in Tailles : \A m \in Tailles : n <= m
  <2> HIDE DEF Tailles
  <2> QED BY <1>3, MinNat
<1>5. PICK S \in Contre : n = Cardinality(S)
  BY <1>4
<1>6. PICK x \in S : TRUE
  BY <1>5
<1>7. Cardinality(S \ {x}) = n - 1 /\ n \in Nat
  <2>1. IsFiniteSet(S) /\ Cardinality(S) \in Nat
    BY <1>2, <1>5
  <2> HIDE DEF Tailles, Contre
  <2> QED BY <2>1, <1>5, <1>6, FS_RemoveElement
<1>8. S \ {x} \notin Contre
  <2>1. SUFFICES ASSUME S \ {x} \in Contre PROVE FALSE
    OBVIOUS
  <2>2. Cardinality(S \ {x}) \in Tailles
    <3> HIDE DEF Contre
    <3> QED BY <2>1
  <2> HIDE DEF Tailles, Contre
  <2> QED BY <2>2, <1>4, <1>7
<1>9. S \ {x} = {} \/ AUnMax(S \ {x})
  BY <1>8
<1>10. CASE S \ {x} = {}
  <2>1. \A y \in S : y = x
    BY <1>10
  <2> QED BY <2>1, <1>5, <1>6
<1>11. CASE AUnMax(S \ {x})
  <2>1. PICK m \in S \ {x} : \A y \in S \ {x} : y <= m
    BY <1>11
  <2>2. \A y \in S : y \in Nat
    BY <1>5
  <2>3. AUnMax(S)
    <3>1. CASE x <= m
      BY <2>1, <2>2, <3>1
    <3>2. CASE ~(x <= m)
      BY <2>1, <2>2, <3>2, <1>6
    <3> QED BY <3>1, <3>2
  <2> QED BY <2>3, <1>5
<1> QED BY <1>9, <1>10, <1>11

\* The image of a finite set by a function is finite, and no larger.
LEMMA ImageFinie ==
  ASSUME NEW S, IsFiniteSet(S), NEW f
  PROVE  /\ IsFiniteSet({f[x] : x \in S})
         /\ Cardinality({f[x] : x \in S}) <= Cardinality(S)
<1> DEFINE T == {f[x] : x \in S}
           h == [x \in S |-> f[x]]
<1>1. h \in Surjection(S, T)
  BY DEF Surjection
<1> QED BY <1>1, FS_Surjection

------------------------------------------------------------------------------
(* The operators. *)

\* Premier, Dernier and Prochain designate a meal of the document.
LEMMA PremierDedans ==
  ASSUME NEW R \in SUBSET Repas, R # {}
  PROVE  Premier(R) \in R
<1> DEFINE T == {r.rang : r \in R}
<1>1. T \in SUBSET Nat /\ T # {}
  BY DEF Repas
<1>2. PICK n \in T : \A m \in T : n <= m
  <2> HIDE DEF T
  <2> QED BY <1>1, MinNat
<1>3. PICK r \in R : \A x \in R : r.rang <= x.rang
  BY <1>2
<1> QED BY <1>3 DEF Premier

LEMMA DernierDedans ==
  ASSUME NEW R \in SUBSET Repas, IsFiniteSet(R), R # {}
  PROVE  Dernier(R) \in R
<1> DEFINE T == {r.rang : r \in R}
<1>1. T \in SUBSET Nat /\ T # {}
  BY DEF Repas
<1>2. IsFiniteSet(T)
  <2> DEFINE rangs == [r \in R |-> r.rang]
  <2>1. T = {rangs[r] : r \in R}
    OBVIOUS
  <2>2. IsFiniteSet({rangs[r] : r \in R})
    <3> HIDE DEF rangs
    <3> QED BY ImageFinie
  <2> QED BY <2>1, <2>2, Zenon
<1>3. PICK n \in T : \A m \in T : m <= n
  <2> HIDE DEF T
  <2> QED BY <1>1, <1>2, MaxFini
<1>4. PICK r \in R : \A x \in R : x.rang <= r.rang
  BY <1>3
<1> QED BY <1>4 DEF Dernier

LEMMA PlusTotNonVide ==
  ASSUME NEW S \in SUBSET Repas, S # {}
  PROVE  PlusTot(S) # {}
<1> DEFINE T == {r.heure + 1 : r \in S}
<1>1. T \in SUBSET Nat /\ T # {}
  BY DEF Repas, Heures
<1>2. PICK n \in T : \A m \in T : n <= m
  <2> HIDE DEF T
  <2> QED BY <1>1, MinNat
<1>3. PICK r \in S : n = r.heure + 1
  BY <1>2
<1>4. \A x \in S : r.heure <= x.heure
  <2> TAKE x \in S
  <2>1. x.heure + 1 \in T
    OBVIOUS
  <2>2. x.heure \in Int /\ r.heure \in Int
    BY DEF Repas, Heures
  <2> QED BY <2>1, <2>2, <1>2, <1>3
<1> QED BY <1>3, <1>4 DEF PlusTot

LEMMA ProchainDedans ==
  ASSUME NEW R \in SUBSET Repas, IsFiniteSet(R), R # {}
  PROVE  Prochain(R) \in R
<1> DEFINE restants == {r \in R : r.heure > maintenant}
<1>1. ASSUME NEW S \in SUBSET R, S # {}
      PROVE  PlusTot(S) \in SUBSET R /\ PlusTot(S) # {}
  <2>1. PlusTot(S) # {}
    BY <1>1, PlusTotNonVide
  <2> QED BY <2>1 DEF PlusTot
<1>2. ASSUME restants # {} PROVE Premier(PlusTot(restants)) \in R
  <2>1. restants \in SUBSET R
    OBVIOUS
  <2> HIDE DEF restants
  <2>2. PlusTot(restants) \in SUBSET R /\ PlusTot(restants) # {}
    BY <1>1, <1>2, <2>1
  <2> QED BY <2>2, PremierDedans
<1>3. ASSUME restants = {} PROVE Dernier(PlusTot(R)) \in R
  <2>1. PlusTot(R) \in SUBSET R /\ PlusTot(R) # {}
    BY <1>1
  <2>2. IsFiniteSet(PlusTot(R))
    BY <2>1, FS_Subset
  <2> QED BY <2>1, <2>2, DernierDedans
<1>4. restants # {} \/ restants = {}
  OBVIOUS
<1> QED BY <1>2, <1>3, <1>4 DEF Prochain

LEMMA ProchainType ==
  ASSUME NEW R \in SUBSET Repas, IsFiniteSet(R)
  PROVE  /\ ProchainOuRien(R) \in Affichage \cup {Rien}
         /\ R # {} => ProchainOuRien(R) \in Affichage
  BY ProchainDedans DEF ProchainOuRien, Affichage, Repas

\* The operators on the array of meals keep it a finite set of meals.
LEMMA RepasType ==
  ASSUME NEW R \in SUBSET Repas, IsFiniteSet(R), NEW id \in Nat,
         NEW heure \in Heures, NEW poids \in Nat
  PROVE  /\ Avec(R, id, heure, poids) \in SUBSET Repas
         /\ IsFiniteSet(Avec(R, id, heure, poids))
         /\ Modifies(R, id, heure, poids) \in SUBSET Repas
         /\ IsFiniteSet(Modifies(R, id, heure, poids))
         /\ Sans(R, id) \in SUBSET Repas
         /\ IsFiniteSet(Sans(R, id))
<1>1. Avec(R, id, heure, poids) \in SUBSET Repas
  BY DernierDedans DEF Avec, Repas
<1>2. IsFiniteSet(Avec(R, id, heure, poids))
  BY FS_AddElement DEF Avec
<1>3. Modifies(R, id, heure, poids) \in SUBSET Repas
  BY DEF Modifies, Repas
<1>4. IsFiniteSet(Modifies(R, id, heure, poids))
  <2> DEFINE f == [r \in R |-> IF r.id = id /\ EstPremier(r, R)
                     THEN [r EXCEPT !.heure = heure, !.poids = poids] ELSE r]
  <2>1. Modifies(R, id, heure, poids) = {f[r] : r \in R}
    BY DEF Modifies
  <2>2. IsFiniteSet({f[r] : r \in R})
    <3> HIDE DEF f
    <3> QED BY ImageFinie
  <2> QED BY <2>1, <2>2, Zenon
<1>5. Sans(R, id) \in SUBSET R
  BY DEF Sans
<1> QED BY <1>1, <1>2, <1>3, <1>4, <1>5, FS_Subset

\* The operators on the array of crontabs keep it a finite set of entries.
LEMMA CrontabsType ==
  ASSUME NEW C \in SUBSET Crontab, IsFiniteSet(C), NEW id \in Nat,
         NEW heure \in Heures, NEW poids \in Nat,
         NEW ws \in Connexions \cup {Rien}
  PROVE  /\ addCrontab(C, id, heure, poids, ws) \in SUBSET Crontab
         /\ IsFiniteSet(addCrontab(C, id, heure, poids, ws))
<1>1. Cardinality(DuRepas(C, id)) \in Nat
  <2>1. DuRepas(C, id) \in SUBSET C
    BY DEF DuRepas
  <2> QED BY <2>1, FS_Subset, FS_CardinalityType
<1>2. heure # -1 => heure \in 0..(Jour - 1)
  BY ConstantesAssumption DEF Heures
<1>3. addCrontab(C, id, heure, poids, ws) \in SUBSET Crontab
  <2>1. CASE heure = -1
    BY <2>1 DEF addCrontab
  <2>2. CASE heure # -1
    <3> DEFINE c == [repasId |-> id, rang |-> 1 + Cardinality(DuRepas(C, id)),
                     heure |-> heure, poids |-> poids, ws |-> ws, du |-> FALSE]
    <3>1. c \in Crontab
      BY <1>1, <1>2, <2>2 DEF Crontab
    <3>2. addCrontab(C, id, heure, poids, ws) = C \cup {c}
      BY <2>2 DEF addCrontab
    <3> HIDE DEF c
    <3> QED BY <3>1, <3>2
  <2> QED BY <2>1, <2>2
<1>4. IsFiniteSet(addCrontab(C, id, heure, poids, ws))
  BY FS_AddElement DEF addCrontab
<1> QED BY <1>3, <1>4

LEMMA DeleteCrontabType ==
  ASSUME NEW C \in SUBSET Crontab, IsFiniteSet(C), NEW id \in Nat
  PROVE  /\ deleteCrontab(C, id) \in SUBSET Crontab
         /\ IsFiniteSet(deleteCrontab(C, id))
<1> DEFINE D == {d \in C : d.repasId # id \/ d.rang > 1}
           f == [c \in D |->
                   [c EXCEPT !.rang = IF c.repasId = id THEN c.rang - 1 ELSE c.rang]]
<1>1. deleteCrontab(C, id) \in SUBSET Crontab
  BY DEF deleteCrontab, Crontab
<1>2. IsFiniteSet(D)
  BY FS_Subset
<1>3. deleteCrontab(C, id) = {f[c] : c \in D}
  BY DEF deleteCrontab
<1>4. IsFiniteSet({f[c] : c \in D})
  <2> HIDE DEF f, D
  <2> QED BY <1>2, ImageFinie
<1> QED BY <1>1, <1>3, <1>4, Zenon

LEMMA UpdateCrontabType ==
  ASSUME NEW C \in SUBSET Crontab, IsFiniteSet(C), NEW id \in Nat,
         NEW heure \in Heures, NEW poids \in Nat,
         NEW ws \in Connexions \cup {Rien}
  PROVE  /\ updateCrontab(C, id, heure, poids, ws) \in SUBSET Crontab
         /\ IsFiniteSet(updateCrontab(C, id, heure, poids, ws))
<1> DEFINE D == deleteCrontab(C, id)
<1>1. D \in SUBSET Crontab /\ IsFiniteSet(D)
  BY DeleteCrontabType
<1> HIDE DEF D
<1>2. /\ addCrontab(D, id, heure, poids, ws) \in SUBSET Crontab
      /\ IsFiniteSet(addCrontab(D, id, heure, poids, ws))
  BY <1>1, CrontabsType
<1> QED BY <1>2 DEF updateCrontab, D

LEMMA RestartCrontabsType ==
  ASSUME NEW C \in SUBSET Crontab, IsFiniteSet(C), NEW ws \in Connexions
  PROVE  /\ restartCrontabs(C, ws) \in SUBSET Crontab
         /\ IsFiniteSet(restartCrontabs(C, ws))
<1> DEFINE f == [c \in C |-> [c EXCEPT !.ws = ws, !.du = FALSE]]
<1>1. restartCrontabs(C, ws) \in SUBSET Crontab
  BY DEF restartCrontabs, Crontab
<1>2. restartCrontabs(C, ws) = {f[c] : c \in C}
  BY DEF restartCrontabs
<1>3. IsFiniteSet({f[c] : c \in C})
  <2> HIDE DEF f
  <2> QED BY ImageFinie
<1> QED BY <1>1, <1>2, <1>3, Zenon

LEMMA ChargesType ==
  ASSUME NEW C \in SUBSET Crontab, IsFiniteSet(C),
         NEW R \in SUBSET Repas, IsFiniteSet(R)
  PROVE  /\ Charges(C, R) \in SUBSET Crontab
         /\ IsFiniteSet(Charges(C, R))
<1> DEFINE valides == {r \in R : r.heure # -1}
           Avant(r) == {x \in valides : x.id = r.id /\ x.rang <= r.rang}
           f == [r \in valides |->
                  [repasId |-> r.id,
                   rang |-> Cardinality(DuRepas(C, r.id)) + Cardinality(Avant(r)),
                   heure |-> r.heure, poids |-> r.poids,
                   ws |-> Rien, du |-> FALSE]]
<1>1. \A r \in valides : f[r] \in Crontab
  <2> TAKE r \in valides
  <2>1. DuRepas(C, r.id) \in SUBSET C /\ Avant(r) \in SUBSET R
    BY DEF DuRepas
  <2>2. Cardinality(DuRepas(C, r.id)) \in Nat /\ Cardinality(Avant(r)) \in Nat
    <3> HIDE DEF Avant
    <3> QED BY <2>1, FS_Subset, FS_CardinalityType
  <2>3. r.heure \in 0..(Jour - 1) /\ r.id \in Nat /\ r.poids \in Nat
    BY ConstantesAssumption DEF Repas, Heures
  <2> HIDE DEF Avant
  <2> QED BY <2>2, <2>3 DEF Crontab
<1>2. Charges(C, R) = C \cup {f[r] : r \in valides}
  BY DEF Charges
<1>3. IsFiniteSet({f[r] : r \in valides})
  <2>1. IsFiniteSet(valides)
    BY FS_Subset
  <2> HIDE DEF f, valides
  <2> QED BY <2>1, ImageFinie
<1>4. {f[r] : r \in valides} \in SUBSET Crontab
  <2> HIDE DEF f, valides
  <2> QED BY <1>1
<1> HIDE DEF f, valides
<1> QED BY <1>2, <1>3, <1>4, FS_Union

------------------------------------------------------------------------------
(* Type correctness.  The sets of meals and of crontabs are finite: without   *)
(* it Dernier and Cardinality would not designate anything.                   *)

EnsemblesFinis ==
  /\ \A g \in Gamelles : /\ IsFiniteSet(bd[g].repas)
                         /\ IsFiniteSet(crontabs[g])
                         /\ IsFiniteSet(photo[g])
  /\ \A t \in Lieux : taches[t] # Rien => IsFiniteSet(taches[t].lu)

Typage == TypeOK /\ EnsemblesFinis

LEMMA TacheType ==
  ASSUME NEW tache \in Tache, NEW e \in Etapes
  PROVE  /\ Appel(tache, e) \in Tache /\ Appel(tache, e).lu = {}
         /\ DernierAppel(tache, e) \in Tache /\ DernierAppel(tache, e).lu = {}
<1> DEFINE a == Appel(tache, e)
<1>1. a \in Tache /\ a.lu = {}
  BY DEF Appel, Tache
<1>2. -1 \in Heures
  BY ConstantesAssumption DEF Heures
<1> HIDE DEF a
<1>3. [a EXCEPT !.repasId = 0, !.heure = -1, !.poids = 0] \in Tache
  BY <1>1, <1>2 DEF Tache
<1>4. [a EXCEPT !.repasId = 0, !.heure = -1, !.poids = 0].lu = {}
  BY <1>1 DEF Tache
<1> QED BY <1>1, <1>3, <1>4 DEF a, DernierAppel

\* A handler that moves to a new record, or ends, keeps taches well typed.
LEMMA DevenirType ==
  ASSUME Typage, NEW t \in Lieux, NEW tache \in Tache \cup {Rien},
         tache # Rien => IsFiniteSet(tache.lu), Devenir(t, tache)
  PROVE  /\ taches' \in [Lieux -> Tache \cup {Rien}]
         /\ \A x \in Lieux : taches'[x] # Rien => IsFiniteSet(taches'[x].lu)
  BY DEF Typage, TypeOK, EnsemblesFinis, Devenir

LEMMA FinirType ==
  ASSUME Typage, NEW t \in Lieux, Finir(t)
  PROVE  /\ taches' \in [Lieux -> Tache \cup {Rien}]
         /\ \A x \in Lieux : taches'[x] # Rien => IsFiniteSet(taches'[x].lu)
  BY DevenirType DEF Finir

LEMMA AppelType ==
  ASSUME Typage, NEW t \in Lieux, NEW tache \in Tache, NEW e \in Etapes,
         \/ Devenir(t, Appel(tache, e)) \/ Devenir(t, DernierAppel(tache, e))
  PROVE  /\ taches' \in [Lieux -> Tache \cup {Rien}]
         /\ \A x \in Lieux : taches'[x] # Rien => IsFiniteSet(taches'[x].lu)
  BY TacheType, DevenirType, FS_EmptySet

\* The socket a handler ends up with is a socket.
LEMMA isArduinoType ==
  ASSUME Typage, NEW w \in Connexions, NEW g \in Gamelles
  PROVE  isArduino(w, g) \in Connexions \cup {Rien}
  BY DEF isArduino, Typage, TypeOK

LEMMA AiguillerType ==
  ASSUME Typage, NEW t \in Lieux, taches[t] # Rien, Aiguiller(t)
  PROVE  /\ taches' \in [Lieux -> Tache \cup {Rien}]
         /\ \A x \in Lieux : taches'[x] # Rien => IsFiniteSet(taches'[x].lu)
<1> DEFINE tache == taches[t]
           cible == isArduino(tache.ws, tache.g)
<1>1. tache \in Tache
  BY DEF Typage, TypeOK
<1>2. CASE tache.op = "nextMeal"
  BY <1>1, <1>2, AppelType DEF Aiguiller, Etapes
<1>3. CASE tache.op \in {"requestData", "history", "eatNow"}
  BY <1>1, <1>3, AppelType DEF Aiguiller, Etapes
<1>4. CASE tache.op \notin {"nextMeal", "requestData", "history", "eatNow"}
  <2>1. cible \in Connexions \cup {Rien}
    BY <1>1, isArduinoType DEF Tache
  <2>2. CASE cible = Rien
    BY <1>4, <2>2, FinirType DEF Aiguiller
  <2>3. CASE cible # Rien
    <3>1. [tache EXCEPT !.ws = cible] \in Tache
      BY <1>1, <2>1, <2>3 DEF Tache
    <3>2. Devenir(t, Appel([tache EXCEPT !.ws = cible], "avant"))
      BY <1>4, <2>3 DEF Aiguiller
    <3> QED BY <3>1, <3>2, AppelType DEF Etapes
  <2> QED BY <2>2, <2>3
<1> QED BY <1>2, <1>3, <1>4

\* What the two lemmas above give is enough when nothing else changes.
TachesTypees == /\ taches \in [Lieux -> Tache \cup {Rien}]
                /\ \A x \in Lieux : taches[x] # Rien => IsFiniteSet(taches[x].lu)

LEMMA SansTachesType ==
  ASSUME Typage, TachesTypees', UNCHANGED sansTaches
  PROVE  Typage'
  BY DEF Typage, TypeOK, EnsemblesFinis, TachesTypees, sansTaches, memoire, reseau,
         processus, horloge, appareils

LEMMA ToutRienType ==
  ASSUME taches' = ToutRien
  PROVE  TachesTypees'
  BY DEF ToutRien, TachesTypees

LEMMA ArreterType ==
  ASSUME Typage, Arreter, UNCHANGED <<bd, maintenant, servis>>, pannes' \in Nat
  PROVE  Typage'
<1>1. TachesTypees'
  BY ToutRienType DEF Arreter
<1>2. TypeOK'
  BY <1>1 DEF Typage, TypeOK, Arreter, TachesTypees
<1>3. EnsemblesFinis'
  BY <1>1, FS_EmptySet DEF Typage, EnsemblesFinis, Arreter, TachesTypees
<1> QED BY <1>2, <1>3 DEF Typage

LEMMA PlanterType ==
  ASSUME Typage, Planter
  PROVE  Typage'
  BY ArreterType DEF Planter, horloge, Typage, TypeOK

LEMMA InitType == Init => Typage
<1> SUFFICES ASSUME Init PROVE Typage
  OBVIOUS
<1>1. bd \in [Gamelles -> Document] /\ \A g \in Gamelles : IsFiniteSet(bd[g].repas)
  BY BasesAssumption DEF Init
<1>2. TypeOK
  BY <1>1, ConstantesAssumption DEF Init, TypeOK, ToutRien
<1>3. EnsemblesFinis
  BY <1>1, FS_EmptySet DEF Init, EnsemblesFinis, ToutRien
<1> QED BY <1>2, <1>3 DEF Typage

LEMMA ClientsType ==
  ASSUME Typage, NEW w \in Connexions,
         \/ \E pair \in Gamelles \cup {Appli} : Connecter(w, pair)
         \/ Deconnecter(w)
  PROVE  Typage'
<1>1. TachesTypees' /\ EnsemblesFinis'
  BY DEF Typage, TypeOK, EnsemblesFinis, TachesTypees, Connecter, Deconnecter,
         processus
<1>2. TypeOK'
  <2>1. CASE \E pair \in Gamelles \cup {Appli} : Connecter(w, pair)
    BY <2>1 DEF Typage, TypeOK, Connecter, processus, horloge
  <2>2. CASE Deconnecter(w)
    BY <2>2 DEF Typage, TypeOK, Deconnecter, processus, horloge, appareils
  <2> QED BY <2>1, <2>2
<1> QED BY <1>1, <1>2 DEF Typage

LEMMA ProcessusType ==
  ASSUME Typage, Demarrer \/ LirePhoto \/ restartServer \/ EchecDemarrage \/ Panne
  PROVE  Typage'
<1>1. CASE Demarrer
  BY <1>1 DEF Typage, TypeOK, EnsemblesFinis, Demarrer, reseau, horloge, appareils
<1>2. CASE LirePhoto
  BY <1>2 DEF Typage, TypeOK, EnsemblesFinis, LirePhoto, reseau, horloge, appareils,
              Document
<1>3. CASE restartServer
  <2>1. \A g \in Gamelles : /\ crontabs'[g] \in SUBSET Crontab
                           /\ IsFiniteSet(crontabs'[g])
    <3> TAKE g \in Gamelles
    <3>1. crontabs'[g] = Charges(crontabs[g], photo[g])
      BY <1>3 DEF restartServer
    <3>2. /\ crontabs[g] \in SUBSET Crontab /\ IsFiniteSet(crontabs[g])
          /\ photo[g] \in SUBSET Repas /\ IsFiniteSet(photo[g])
      BY DEF Typage, TypeOK, EnsemblesFinis
    <3> QED BY <3>1, <3>2, ChargesType
  <2>2. crontabs' \in [Gamelles -> SUBSET Crontab]
    BY <1>3, <2>1 DEF restartServer
  <2>3. TypeOK'
    BY <1>3, <2>2 DEF Typage, TypeOK, restartServer, reseau, horloge, appareils
  <2>4. EnsemblesFinis'
    BY <1>3, <2>1, FS_EmptySet DEF Typage, EnsemblesFinis, restartServer
  <2> QED BY <2>3, <2>4 DEF Typage
<1>4. CASE EchecDemarrage
  BY <1>4, PlanterType DEF EchecDemarrage
<1>5. CASE Panne
  BY <1>5, ArreterType DEF Panne, Typage, TypeOK
<1> QED BY <1>1, <1>2, <1>3, <1>4, <1>5

\* The steps that change the crontabs of one bowl, or its document.
LEMMA CrontabsChangesType ==
  ASSUME Typage, TachesTypees', NEW g \in Gamelles, NEW C \in SUBSET Crontab,
         IsFiniteSet(C), crontabs' = [crontabs EXCEPT ![g] = C],
         UNCHANGED <<bd, reseau, processus, horloge, appareils>>
  PROVE  Typage'
<1>1. TypeOK'
  BY DEF Typage, TypeOK, TachesTypees, reseau, processus, horloge, appareils
<1>2. EnsemblesFinis'
  BY DEF Typage, TypeOK, EnsemblesFinis, TachesTypees, processus
<1> QED BY <1>1, <1>2 DEF Typage

LEMMA BaseChangeeType ==
  ASSUME Typage, TachesTypees', NEW g \in Gamelles, NEW d \in Document,
         IsFiniteSet(d.repas), bd' = [bd EXCEPT ![g] = d], UNCHANGED memoire
  PROVE  Typage'
<1>1. TypeOK'
  BY DEF Typage, TypeOK, TachesTypees, memoire, reseau, processus, horloge, appareils
<1>2. EnsemblesFinis'
  BY DEF Typage, TypeOK, EnsemblesFinis, TachesTypees, memoire, processus
<1> QED BY <1>1, <1>2 DEF Typage

\* The handler of a request.
LEMMA RequeteType ==
  ASSUME NEW g \in Gamelles, NEW w \in Connexions, NEW d \in Demandes(g, w)
  PROVE  [op |-> d.op, etape |-> "check", attend |-> TRUE, ok |-> FALSE,
          g |-> d.g, ws |-> d.ws, repasId |-> d.repasId, heure |-> d.heure,
          poids |-> d.poids, avant |-> Rien, lu |-> {}] \in Tache
<1>0. d.g \in Gamelles /\ d.ws \in Connexions
  BY DEF Demandes
<1>1. -1 \in Heures /\ HeuresSaisies \subseteq Heures
  BY ConstantesAssumption DEF Heures
<1>2. /\ d.op \in Ops /\ d.repasId \in Nat /\ d.heure \in Heures
      /\ d.poids \in Nat
  <2>1. /\ d.op \in Ops /\ d.repasId \in 0..MaxId /\ d.poids \in Poids \cup {0}
        /\ d.heure \in HeuresSaisies \cup {-1}
    BY DEF Demandes
  <2>2. Poids \subseteq Nat /\ MaxId \in Nat
    BY ConstantesAssumption
  <2>3. d.repasId \in Nat
    BY <2>1, <2>2
  <2>4. d.poids \in Nat
    <3>1. CASE d.poids \in Poids
      BY <3>1, <2>2, Zenon
    <3>2. CASE d.poids = 0
      BY <3>2
    <3> QED BY <2>1, <3>1, <3>2, Zenon
  <2>5. d.heure \in Heures
    BY <1>1, <2>1, Zenon
  <2> QED BY <2>1, <2>3, <2>4, <2>5
<1> QED BY <1>0, <1>2 DEF Tache, Etapes

LEMMA RecevoirType ==
  ASSUME Typage, NEW t \in Requetes, NEW w \in Connexions,
         NEW g \in IF connexions[w].pair = Appli THEN Gamelles
                   ELSE {connexions[w].pair},
         NEW d \in Demandes(g, w), Recevoir(t, d)
  PROVE  Typage'
<1> DEFINE tache == [op |-> d.op, etape |-> "check", attend |-> TRUE, ok |-> FALSE,
                     g |-> d.g, ws |-> d.ws, repasId |-> d.repasId,
                     heure |-> d.heure, poids |-> d.poids, avant |-> Rien,
                     lu |-> {}]
<1>1. g \in Gamelles
  BY DEF Typage, TypeOK
<1>2. d.g \in Gamelles /\ d.ws \in Connexions /\ t \in Lieux
  BY <1>1 DEF Demandes, Lieux
<1>3. tache \in Tache
  BY <1>1, RequeteType
<1>4. TachesTypees'
  <2>1. Devenir(t, tache) /\ IsFiniteSet(tache.lu)
    BY FS_EmptySet DEF Recevoir
  <2> HIDE DEF tache
  <2> QED BY <1>2, <1>3, <2>1, DevenirType DEF TachesTypees
<1>5. /\ bd' \in [Gamelles -> Document] /\ lastId' \in Nat
      /\ serveur' \in {"arret", "demande", "lu", "pret"}
      /\ photo' \in [Gamelles -> SUBSET Repas] /\ maintenant' \in 0..(Jour - 1)
      /\ pannes' \in Nat /\ servis' \in [Gamelles -> Nat]
      /\ annonce' \in [Gamelles -> [heure : Heures, poids : {-1} \cup Nat] \cup {Rien}]
      /\ \A h \in Gamelles : IsFiniteSet(bd'[h].repas) /\ IsFiniteSet(photo'[h])
  BY DEF Recevoir, Typage, TypeOK, EnsemblesFinis, processus, horloge, appareils
<1>6. CASE connexions[d.ws].pair # Appli /\ connexions[d.ws].premier
  <2> DEFINE C == restartCrontabs(crontabs[d.g], d.ws)
  <2>1. C \in SUBSET Crontab /\ IsFiniteSet(C)
    BY <1>2, RestartCrontabsType DEF Typage, TypeOK, EnsemblesFinis
  <2>2. crontabs' = [crontabs EXCEPT ![d.g] = C]
    BY <1>6 DEF Recevoir
  <2> HIDE DEF C
  <2>3. /\ crontabs' \in [Gamelles -> SUBSET Crontab]
        /\ \A h \in Gamelles : IsFiniteSet(crontabs'[h])
    BY <1>2, <2>1, <2>2 DEF Typage, TypeOK, EnsemblesFinis
  <2>4. /\ clients' \in [Gamelles -> Connexions \cup {Rien}]
        /\ connexions' \in [Connexions -> [ouverte : BOOLEAN,
                               pair : Gamelles \cup {Appli}, premier : BOOLEAN]]
    <3>1. /\ clients' = [clients EXCEPT ![d.g] = d.ws]
          /\ connexions' = [connexions EXCEPT ![d.ws].premier = FALSE]
      BY <1>6 DEF Recevoir
    <3>2. connexions[d.ws] \in [ouverte : BOOLEAN, pair : Gamelles \cup {Appli},
                                premier : BOOLEAN]
      BY <1>2 DEF Typage, TypeOK
    <3>3. [connexions[d.ws] EXCEPT !.premier = FALSE]
            \in [ouverte : BOOLEAN, pair : Gamelles \cup {Appli}, premier : BOOLEAN]
      BY <3>2
    <3> QED BY <1>2, <3>1, <3>3 DEF Typage, TypeOK
  <2> QED BY <1>4, <1>5, <2>3, <2>4 DEF Typage, TypeOK, EnsemblesFinis, TachesTypees
<1>7. CASE ~(connexions[d.ws].pair # Appli /\ connexions[d.ws].premier)
  BY <1>4, <1>5, <1>7 DEF Recevoir, Typage, TypeOK, EnsemblesFinis, TachesTypees,
     reseau
<1> QED BY <1>6, <1>7

LEMMA ExecuterType ==
  ASSUME Typage, NEW t \in Lieux, taches[t] # Rien, NEW ok \in BOOLEAN,
         NEW lu \in SUBSET Repas, IsFiniteSet(lu), Executer(t, ok, lu)
  PROVE  TachesTypees'
<1> DEFINE tache == [taches[t] EXCEPT !.attend = FALSE, !.ok = ok, !.lu = lu]
<1>1. tache \in Tache /\ tache.lu = lu
  BY DEF Typage, TypeOK, Tache
<1>2. Devenir(t, tache)
  BY DEF Executer
<1> HIDE DEF tache
<1> QED BY <1>1, <1>2, DevenirType DEF TachesTypees

LEMMA BaseType ==
  ASSUME Typage, NEW t \in Lieux, Base(t)
  PROVE  Typage'
<1> DEFINE tache == taches[t]
           g == taches[t].g
           doc == bd[g]
<1>1. taches[t] # Rien
  BY DEF Base, Trouver, TrouverRepas, Creer, Ajouter, Modifier, Retirer, Consigner,
         Attend
<1>2. /\ tache \in Tache /\ g \in Gamelles /\ tache.repasId \in Nat
      /\ tache.heure \in Heures /\ tache.poids \in Nat
  BY <1>1 DEF Typage, TypeOK, Tache
<1>3. /\ doc \in Document /\ IsFiniteSet(doc.repas) /\ doc.repas \in SUBSET Repas
      /\ doc.docs \in Nat /\ doc.historique \in Nat
  BY <1>2 DEF Typage, TypeOK, EnsemblesFinis, Document
<1>4. \A R \in SUBSET Repas : [doc EXCEPT !.repas = R] \in Document
  BY <1>3 DEF Document
<1>5. ASSUME Trouver(t) \/ TrouverRepas(t) PROVE Typage'
  <2>1. (doc.docs > 0) \in BOOLEAN
    BY <1>3
  <2>2. TachesTypees'
    <3>1. CASE Trouver(t)
      BY <3>1, <1>1, <2>1, FS_EmptySet, ExecuterType DEF Trouver
    <3>2. CASE TrouverRepas(t)
      BY <3>2, <1>1, <1>3, <2>1, ExecuterType DEF TrouverRepas
    <3> QED BY <1>5, <3>1, <3>2
  <2>3. UNCHANGED sansTaches
    BY <1>5 DEF Trouver, TrouverRepas, sansTaches
  <2> QED BY <2>2, <2>3, SansTachesType
<1>6. ASSUME Creer(t) \/ Ajouter(t) \/ Modifier(t) \/ Consigner(t)
      PROVE  TachesTypees' /\ UNCHANGED memoire
  BY <1>1, <1>6, FS_EmptySet, ExecuterType DEF Creer, Ajouter, Modifier, Consigner
<1>7. CASE Creer(t) \/ Consigner(t)
  <2>1. CASE Creer(t)
    <3>1. [doc EXCEPT !.docs = @ + 1] \in Document
      BY <1>3 DEF Document
    <3>2. [doc EXCEPT !.docs = @ + 1].repas = doc.repas
      BY <1>3 DEF Document
    <3>3. bd' = [bd EXCEPT ![g] = [doc EXCEPT !.docs = @ + 1]]
      BY <2>1, <1>2, <1>3 DEF Creer, Typage, TypeOK
    <3> QED BY <2>1, <1>2, <1>3, <1>6, <3>1, <3>2, <3>3, BaseChangeeType
  <2>2. CASE Consigner(t)
    <3>1. [doc EXCEPT !.historique = @ + 1] \in Document
      BY <1>3 DEF Document
    <3>2. [doc EXCEPT !.historique = @ + 1].repas = doc.repas
      BY <1>3 DEF Document
    <3>3. bd' = [bd EXCEPT ![g] = [doc EXCEPT !.historique = @ + 1]]
      BY <2>2, <1>2, <1>3 DEF Consigner, Typage, TypeOK
    <3> QED BY <2>2, <1>2, <1>3, <1>6, <3>1, <3>2, <3>3, BaseChangeeType
  <2> QED BY <1>7, <2>1, <2>2
<1>8. ASSUME NEW R \in SUBSET Repas, IsFiniteSet(R),
             bd' = [bd EXCEPT ![g].repas = R], TachesTypees', UNCHANGED memoire
      PROVE  Typage'
  <2>1. [doc EXCEPT !.repas = R] \in Document
    BY <1>4
  <2>2. [doc EXCEPT !.repas = R].repas = R
    BY <1>3 DEF Document
  <2>3. bd' = [bd EXCEPT ![g] = [doc EXCEPT !.repas = R]]
    BY <1>8, <1>2, <1>3 DEF Typage, TypeOK
  <2> QED BY <1>2, <1>8, <2>1, <2>2, <2>3, BaseChangeeType
<1>9. CASE Ajouter(t)
  <2> DEFINE R == Avec(doc.repas, tache.repasId, tache.heure, tache.poids)
  <2>1. R \in SUBSET Repas /\ IsFiniteSet(R)
    BY <1>2, <1>3, RepasType
  <2>2. bd' = [bd EXCEPT ![g].repas = R]
    BY <1>9 DEF Ajouter
  <2> HIDE DEF R
  <2> QED BY <1>6, <1>8, <1>9, <2>1, <2>2
<1>10. CASE Modifier(t)
  <2> DEFINE R == Modifies(doc.repas, tache.repasId, tache.heure, tache.poids)
  <2>1. R \in SUBSET Repas /\ IsFiniteSet(R)
    BY <1>2, <1>3, RepasType
  <2>2. bd' = [bd EXCEPT ![g].repas = R]
    BY <1>10 DEF Modifier
  <2> HIDE DEF R
  <2> QED BY <1>6, <1>8, <1>10, <2>1, <2>2
<1>11. CASE Retirer(t)
  <2> DEFINE R == Sans(doc.repas, tache.repasId)
  <2>1. R \in SUBSET Repas /\ IsFiniteSet(R)
    <3>1. R \in SUBSET doc.repas
      BY DEF Sans
    <3> HIDE DEF R
    <3> QED BY <1>3, <3>1, FS_Subset
  <2>2. bd' = [bd EXCEPT ![g].repas = R] /\ UNCHANGED memoire
    BY <1>11 DEF Retirer
  <2>3. TachesTypees'
    <3>1. Executer(t, R # doc.repas, {})
      BY <1>11 DEF Retirer
    <3> QED BY <3>1, <1>1, FS_EmptySet, ExecuterType
  <2> HIDE DEF R
  <2> QED BY <1>8, <2>1, <2>2, <2>3
<1> QED BY <1>5, <1>7, <1>9, <1>10, <1>11 DEF Base

LEMMA SuiteSansCrontabsType ==
  ASSUME Typage, NEW t \in Lieux,
         \/ SuiteCheck(t) \/ SuiteCreation(t) \/ SuiteLecture(t) \/ SuiteAvant(t)
         \/ SuiteRetrait(t) \/ SuiteEatNow(t) \/ SuiteEatNowEnregistre(t)
         \/ SuiteDistribution(t)
  PROVE  Typage'
<1> DEFINE tache == taches[t]
<1>1. taches[t] # Rien
  BY DEF SuiteCheck, SuiteCreation, SuiteLecture, SuiteAvant, SuiteRetrait,
         SuiteEatNow, SuiteEatNowEnregistre, SuiteDistribution, Pret
<1>2. tache \in Tache /\ IsFiniteSet(tache.lu) /\ tache.lu \in SUBSET Repas
  BY <1>1 DEF Typage, TypeOK, EnsemblesFinis, Tache
<1>3. SUFFICES ASSUME ~Planter PROVE TachesTypees' /\ UNCHANGED sansTaches
  BY PlanterType, SansTachesType
<1>4. CASE SuiteCheck(t)
  BY <1>1, <1>2, <1>4, AiguillerType, AppelType
     DEF SuiteCheck, TachesTypees, Etapes
<1>5. CASE SuiteCreation(t)
  BY <1>1, <1>5, AiguillerType DEF SuiteCreation, TachesTypees
<1>6. CASE SuiteLecture(t)
  BY <1>3, <1>6, FinirType DEF SuiteLecture, TachesTypees
<1>7. CASE SuiteAvant(t)
  <2> DEFINE r == ProchainOuRien(tache.lu)
             e == CASE tache.op = "update" -> "maj"
                    [] tache.op = "deleteMeal" -> "retrait"
                    [] OTHER -> "relecture"
  <2>1. Devenir(t, Appel([tache EXCEPT !.avant = r], e)) /\ UNCHANGED sansTaches
    BY <1>3, <1>7 DEF SuiteAvant
  <2>2. [tache EXCEPT !.avant = r] \in Tache
    <3>1. r \in Affichage \cup {Rien}
      BY <1>2, ProchainType
    <3> HIDE DEF r
    <3> QED BY <1>2, <3>1 DEF Tache
  <2>3. e \in Etapes
    BY DEF Etapes
  <2> HIDE DEF r, e
  <2> QED BY <2>1, <2>2, <2>3, AppelType DEF TachesTypees
<1>8. CASE SuiteRetrait(t)
  BY <1>2, <1>8, FinirType, AppelType DEF SuiteRetrait, TachesTypees, Etapes
<1>9. CASE SuiteEatNow(t)
  BY <1>2, <1>3, <1>9, AppelType DEF SuiteEatNow, TachesTypees, Etapes
<1>10. CASE SuiteEatNowEnregistre(t)
  <2> DEFINE cible == isArduino(tache.ws, tache.g)
  <2>1. cible \in Connexions \cup {Rien}
    BY <1>2, isArduinoType DEF Tache
  <2>2. cible # Rien => [tache EXCEPT !.ws = cible] \in Tache
    BY <1>2, <2>1 DEF Tache
  <2>3. /\ \/ Finir(t)
           \/ cible # Rien /\ Devenir(t, Appel([tache EXCEPT !.ws = cible], "distribution"))
        /\ UNCHANGED sansTaches
    BY <1>10 DEF SuiteEatNowEnregistre
  <2> HIDE DEF cible
  <2> QED BY <2>2, <2>3, FinirType, AppelType DEF TachesTypees, Etapes
<1>11. CASE SuiteDistribution(t)
  BY <1>2, <1>3, <1>11, FinirType, AppelType DEF SuiteDistribution, TachesTypees, Etapes
<1> QED BY <1>4, <1>5, <1>6, <1>7, <1>8, <1>9, <1>10, <1>11

LEMMA SuiteAvecCrontabsType ==
  ASSUME Typage, NEW t \in Lieux, SuiteAjout(t) \/ SuiteMaj(t) \/ SuiteVerif(t)
  PROVE  Typage'
<1> DEFINE tache == taches[t]
           g == tache.g
           C == crontabs[g]
<1>1. taches[t] # Rien
  BY DEF SuiteAjout, SuiteMaj, SuiteVerif, Pret
<1>2. /\ tache \in Tache /\ g \in Gamelles /\ tache.repasId \in Nat
      /\ tache.heure \in Heures /\ tache.poids \in Nat /\ tache.ws \in Connexions
  BY <1>1 DEF Typage, TypeOK, Tache
<1>3. C \in SUBSET Crontab /\ IsFiniteSet(C) /\ lastId \in Nat
  BY <1>2 DEF Typage, TypeOK, EnsemblesFinis
<1>4. UNCHANGED <<bd, reseau, processus, horloge, appareils>>
  BY DEF SuiteAjout, SuiteMaj, SuiteVerif
<1>5. TachesTypees'
  BY <1>2, AppelType, FinirType DEF SuiteAjout, SuiteMaj, SuiteVerif, TachesTypees, Etapes
<1>6. CASE SuiteAjout(t)
  <2> DEFINE D == addCrontab(C, lastId, tache.heure, tache.poids, tache.ws)
  <2>1. D \in SUBSET Crontab /\ IsFiniteSet(D)
    BY <1>2, <1>3, CrontabsType
  <2>2. crontabs' = [crontabs EXCEPT ![g] = D]
    BY <1>6 DEF SuiteAjout
  <2> HIDE DEF D
  <2> QED BY <1>2, <1>4, <1>5, <2>1, <2>2, CrontabsChangesType
<1>7. CASE SuiteMaj(t)
  <2> DEFINE D == updateCrontab(C, tache.repasId, tache.heure, tache.poids, tache.ws)
  <2>1. D \in SUBSET Crontab /\ IsFiniteSet(D)
    BY <1>2, <1>3, UpdateCrontabType
  <2>2. crontabs' = [crontabs EXCEPT ![g] = D]
    BY <1>7 DEF SuiteMaj
  <2> HIDE DEF D
  <2> QED BY <1>2, <1>4, <1>5, <2>1, <2>2, CrontabsChangesType
<1>8. CASE SuiteVerif(t)
  <2> DEFINE D == deleteCrontab(C, tache.repasId)
  <2>1. D \in SUBSET Crontab /\ IsFiniteSet(D)
    BY <1>2, <1>3, DeleteCrontabType
  <2>2. crontabs' = [crontabs EXCEPT ![g] = D]
    BY <1>8 DEF SuiteVerif
  <2> HIDE DEF D
  <2> QED BY <1>2, <1>4, <1>5, <2>1, <2>2, CrontabsChangesType
<1> QED BY <1>6, <1>7, <1>8

\* The steps that only tell a device something.
LEMMA AppareilsType ==
  ASSUME Typage, TachesTypees', UNCHANGED <<bd, crontabs, reseau, processus, horloge>>,
         annonce' \in [Gamelles -> [heure : Heures, poids : {-1} \cup Nat] \cup {Rien}],
         servis' \in [Gamelles -> Nat]
  PROVE  Typage'
<1>1. TypeOK'
  BY DEF Typage, TypeOK, TachesTypees, reseau, processus, horloge
<1>2. EnsemblesFinis'
  BY DEF Typage, EnsemblesFinis, TachesTypees, processus
<1> QED BY <1>1, <1>2 DEF Typage

LEMMA EnvoyerType ==
  ASSUME Typage, NEW w \in Connexions
  PROVE  /\ \A r \in Affichage \cup {Rien, AucunRepas} :
              EnvoyerProchain(w, r) =>
                annonce' \in [Gamelles -> [heure : Heures, poids : {-1} \cup Nat]
                                          \cup {Rien}]
         /\ EnvoyerEatNow(w) => servis' \in [Gamelles -> Nat]
<1>1. connexions[w].pair \in Gamelles \cup {Appli}
  BY DEF Typage, TypeOK
<1>2. ASSUME NEW r \in Affichage \cup {Rien, AucunRepas}, EnvoyerProchain(w, r)
      PROVE  annonce' \in [Gamelles -> [heure : Heures, poids : {-1} \cup Nat]
                                         \cup {Rien}]
  <2>1. r \in [heure : Heures, poids : {-1} \cup Nat] \cup {Rien}
    <3>1. -1 \in Heures
      BY ConstantesAssumption DEF Heures
    <3> QED BY <3>1 DEF Affichage, AucunRepas
  <2> QED BY <1>1, <1>2, <2>1 DEF EnvoyerProchain, Joint, Typage, TypeOK
<1>3. ASSUME EnvoyerEatNow(w) PROVE servis' \in [Gamelles -> Nat]
  BY <1>1, <1>3 DEF EnvoyerEatNow, Joint, Typage, TypeOK
<1> QED BY <1>2, <1>3

LEMMA SuiteEnvoiType ==
  ASSUME Typage, NEW t \in Lieux,
         SuiteApres(t) \/ SuiteNextMeal(t) \/ SuiteEnregistrement(t)
  PROVE  Typage'
<1> DEFINE tache == taches[t]
           r == ProchainOuRien(tache.lu)
<1>1. taches[t] # Rien
  BY DEF SuiteApres, SuiteNextMeal, SuiteEnregistrement, Pret
<1>2. /\ tache \in Tache /\ IsFiniteSet(tache.lu) /\ tache.lu \in SUBSET Repas
      /\ tache.ws \in Connexions
  BY <1>1 DEF Typage, TypeOK, EnsemblesFinis, Tache
<1>3. r \in Affichage \cup {Rien}
  BY <1>2, ProchainType
<1>4. /\ annonce \in [Gamelles -> [heure : Heures, poids : {-1} \cup Nat] \cup {Rien}]
      /\ servis \in [Gamelles -> Nat]
  BY DEF Typage, TypeOK
<1>5. SUFFICES ASSUME ~Planter PROVE Typage'
  BY PlanterType
<1>6. CASE SuiteApres(t)
  <2>1. /\ Finir(t) /\ UNCHANGED <<bd, crontabs, reseau, processus, horloge, servis>>
        /\ \/ EnvoyerProchain(tache.ws, r) \/ EnvoyerProchain(tache.ws, AucunRepas)
           \/ UNCHANGED annonce
    BY <1>5, <1>6, Zenon DEF SuiteApres
  <2> HIDE DEF r
  <2>2. annonce' \in [Gamelles -> [heure : Heures, poids : {-1} \cup Nat] \cup {Rien}]
    BY <1>2, <1>3, <1>4, <2>1, EnvoyerType
  <2> QED BY <1>4, <2>1, <2>2, FinirType, AppareilsType DEF TachesTypees
<1>7. CASE SuiteNextMeal(t)
  <2> DEFINE s == IF tache.lu = {} THEN AucunRepas ELSE r
  <2>1. /\ Finir(t) /\ UNCHANGED <<bd, crontabs, reseau, processus, horloge, servis>>
        /\ EnvoyerProchain(tache.ws, s)
    BY <1>5, <1>7 DEF SuiteNextMeal
  <2>2. s \in Affichage \cup {Rien, AucunRepas}
    BY <1>3
  <2> HIDE DEF r, s
  <2>3. annonce' \in [Gamelles -> [heure : Heures, poids : {-1} \cup Nat] \cup {Rien}]
    BY <1>2, <2>1, <2>2, EnvoyerType
  <2> QED BY <1>4, <2>1, <2>3, FinirType, AppareilsType DEF TachesTypees
<1>8. CASE SuiteEnregistrement(t)
  BY <1>2, <1>4, <1>8, EnvoyerType, AppelType, AppareilsType
     DEF SuiteEnregistrement, TachesTypees, Etapes
<1> QED BY <1>6, <1>7, <1>8

LEMMA SuiteRelectureType ==
  ASSUME Typage, NEW t \in Lieux, SuiteRelecture(t)
  PROVE  Typage'
<1> DEFINE tache == taches[t]
           id == NouvelId(tache.lu)
<1>1. tache \in Tache /\ IsFiniteSet(tache.lu) /\ tache.lu \in SUBSET Repas
  BY DEF SuiteRelecture, Pret, Typage, TypeOK, EnsemblesFinis, Tache
<1>2. id \in Nat
  BY <1>1, DernierDedans DEF Repas, NouvelId
<1>3. [tache EXCEPT !.repasId = id] \in Tache
  <2> HIDE DEF id
  <2> QED BY <1>1, <1>2 DEF Tache
<1>4. SUFFICES ASSUME ~Planter PROVE Typage'
  BY PlanterType
<1>5. CASE /\ lastId' = id /\ Devenir(t, Appel([tache EXCEPT !.repasId = id], "ajout"))
           /\ UNCHANGED <<bd, crontabs, reseau, serveur, photo, horloge, appareils>>
  <2> HIDE DEF id
  <2>1. TachesTypees'
    BY <1>3, <1>5, AppelType DEF TachesTypees, Etapes
  <2>2. TypeOK'
    BY <1>2, <1>5, <2>1 DEF Typage, TypeOK, TachesTypees, reseau, horloge, appareils
  <2>3. EnsemblesFinis'
    BY <1>5, <2>1 DEF Typage, EnsemblesFinis, TachesTypees
  <2> QED BY <2>2, <2>3 DEF Typage
<1>6. CASE Finir(t) /\ UNCHANGED sansTaches
  BY <1>6, FinirType, SansTachesType DEF TachesTypees
<1> QED BY <1>4, <1>5, <1>6 DEF SuiteRelecture

LEMMA EchecType ==
  ASSUME Typage, NEW t \in Lieux, Echec(t)
  PROVE  Typage'
<1>1. \/ (Aiguiller(t) \/ Finir(t)) /\ UNCHANGED sansTaches
      \/ Planter
  BY Zenon DEF Echec
<1>2. taches[t] # Rien
  BY DEF Echec
<1> QED BY <1>1, <1>2, AiguillerType, FinirType, PlanterType, SansTachesType
       DEF TachesTypees

LEMMA TempsType ==
  ASSUME Typage, Tic \/ \E t \in Minuteries, g \in Gamelles : Declencher(t, g)
  PROVE  Typage'
<1>1. ASSUME Tic PROVE Typage'
  <2> DEFINE f(g) == [c \in crontabs[g] |->
                [c EXCEPT !.du = (c.ws # Rien /\ c.heure = maintenant')]]
  <2>1. \A g \in Gamelles : /\ crontabs'[g] \in SUBSET Crontab
                           /\ IsFiniteSet(crontabs'[g])
    <3> TAKE g \in Gamelles
    <3>1. crontabs'[g] = {[c EXCEPT !.du = (c.ws # Rien /\ c.heure = maintenant')] :
                            c \in crontabs[g]}
      BY <1>1 DEF Tic
    <3>2. crontabs[g] \in SUBSET Crontab /\ IsFiniteSet(crontabs[g])
      BY DEF Typage, TypeOK, EnsemblesFinis
    <3>3. crontabs'[g] \in SUBSET Crontab
      BY <3>1, <3>2 DEF Crontab
    <3>4. crontabs'[g] = {f(g)[c] : c \in crontabs[g]}
      BY <3>1
    <3>5. IsFiniteSet({f(g)[c] : c \in crontabs[g]})
      <4> DEFINE h == f(g)
      <4> HIDE DEF f, h
      <4>1. IsFiniteSet({h[c] : c \in crontabs[g]})
        BY <3>2, ImageFinie
      <4> QED BY <4>1 DEF h
    <3> QED BY <3>3, <3>4, <3>5, Zenon
  <2>2. crontabs' \in [Gamelles -> SUBSET Crontab]
    BY <1>1, <2>1 DEF Tic
  <2>3. maintenant' \in 0..(Jour - 1)
    BY <1>1, ConstantesAssumption DEF Tic, Typage, TypeOK
  <2>4. TypeOK'
    BY <1>1, <2>2, <2>3 DEF Tic, Typage, TypeOK, reseau, processus, appareils
  <2>5. EnsemblesFinis'
    BY <1>1, <2>1 DEF Tic, Typage, EnsemblesFinis, processus
  <2> QED BY <2>4, <2>5 DEF Typage
<1>2. ASSUME NEW t \in Minuteries, NEW g \in Gamelles, Declencher(t, g) PROVE Typage'
  <2>1. PICK c \in crontabs[g] :
          /\ crontabs' = [crontabs EXCEPT ![g] = (@ \ {c}) \cup {[c EXCEPT !.du = FALSE]}]
          /\ Devenir(t, [op |-> "distribution", etape |-> "distribution",
                         attend |-> TRUE, ok |-> FALSE, g |-> g, ws |-> c.ws,
                         repasId |-> 0, heure |-> -1, poids |-> 0, avant |-> Rien,
                         lu |-> {}])
          /\ c.ws # Rien
    BY <1>2 DEF Declencher
  <2>2. crontabs[g] \in SUBSET Crontab /\ IsFiniteSet(crontabs[g]) /\ c \in Crontab
    BY DEF Typage, TypeOK, EnsemblesFinis
  <2> DEFINE C == (crontabs[g] \ {c}) \cup {[c EXCEPT !.du = FALSE]}
             tache == [op |-> "distribution", etape |-> "distribution",
                       attend |-> TRUE, ok |-> FALSE, g |-> g, ws |-> c.ws,
                       repasId |-> 0, heure |-> -1, poids |-> 0, avant |-> Rien,
                       lu |-> {}]
  <2>3. C \in SUBSET Crontab
    BY <2>2 DEF Crontab
  <2>4. IsFiniteSet(C)
    BY <2>2, FS_AddElement, FS_RemoveElement
  <2>5. tache \in Tache
    <3>1. -1 \in Heures
      BY ConstantesAssumption DEF Heures
    <3>2. c.ws \in Connexions
      BY <2>1, <2>2 DEF Crontab
    <3> QED BY <3>1, <3>2 DEF Tache, Etapes
  <2>6. TachesTypees'
    <3>1. Devenir(t, tache) /\ IsFiniteSet(tache.lu) /\ t \in Lieux
      BY <2>1, FS_EmptySet DEF Lieux
    <3> HIDE DEF tache
    <3> QED BY <2>5, <3>1, DevenirType DEF TachesTypees
  <2>7. crontabs' = [crontabs EXCEPT ![g] = C]
    BY <2>1
  <2>8. UNCHANGED <<bd, reseau, processus, horloge, appareils>>
    BY <1>2 DEF Declencher, reseau
  <2> HIDE DEF C
  <2> QED BY <2>3, <2>4, <2>6, <2>7, <2>8, CrontabsChangesType
<1> QED BY <1>1, <1>2

LEMMA TypageStable == Typage /\ [Next]_vars => Typage'
<1> SUFFICES ASSUME Typage, [Next]_vars PROVE Typage'
  OBVIOUS
<1>1. CASE UNCHANGED vars
  BY <1>1 DEF vars, memoire, reseau, processus, horloge, appareils, Typage, TypeOK,
              EnsemblesFinis
<1>2. ASSUME NEW t \in Lieux, Base(t) \/ Suite(t) \/ Echec(t) PROVE Typage'
  BY <1>2, BaseType, EchecType, SuiteSansCrontabsType, SuiteAvecCrontabsType,
     SuiteEnvoiType, SuiteRelectureType DEF Suite
<1>3. CASE \E w \in Connexions : \/ \E pair \in Gamelles \cup {Appli} : Connecter(w, pair)
                               \/ Deconnecter(w)
  BY <1>3, ClientsType
<1>4. CASE \E t \in Requetes, w \in Connexions :
             \E g \in IF connexions[w].pair = Appli THEN Gamelles
                      ELSE {connexions[w].pair} :
               \E d \in Demandes(g, w) : Recevoir(t, d)
  BY <1>4, RecevoirType
<1>5. CASE Demarrer \/ LirePhoto \/ restartServer \/ EchecDemarrage \/ Panne
  BY <1>5, ProcessusType
<1>6. CASE Tic \/ \E t \in Minuteries, g \in Gamelles : Declencher(t, g)
  BY <1>6, TempsType
<1> QED BY <1>1, <1>2, <1>3, <1>4, <1>5, <1>6 DEF Next

LEMMA TypageToujours == Spec => []Typage
BY InitType, TypageStable, PTL DEF Spec

\* Whatever the instance, every variable stays in its type: in particular the
\* number addMeal derives from the last meal of the array is a number, and no
\* timer ever has an hour that cron.js rejects.
THEOREM TypeCorrect == Spec => []TypeOK
<1>1. Typage => TypeOK
  BY DEF Typage
<1> QED BY <1>1, TypageToujours, PTL

------------------------------------------------------------------------------
(* Messages reach the right device.  BonDestinataire is inductive: what        *)
(* follows isArduino is part of it, and Connecter only reuses a socket that    *)
(* nothing refers to.                                                          *)

LEMMA DestinataireInit == Init => BonDestinataire
BY DEF Init, BonDestinataire, TacheBien, ClientBien, CrontabsBien, ToutRien

LEMMA DestinataireArreter ==
  ASSUME Arreter
  PROVE  BonDestinataire'
BY DEF Arreter, BonDestinataire, TacheBien, ClientBien, CrontabsBien, ToutRien

\* A handler moves on; sockets and clients are left alone.
LEMMA DestinataireTache ==
  ASSUME Typage, BonDestinataire, UNCHANGED <<connexions, clients>>,
         NEW t \in Lieux, NEW x, TacheBien(x), Devenir(t, x),
         \A g \in Gamelles : CrontabsBien(g)'
  PROVE  BonDestinataire'
<1>1. \A u \in Lieux : TacheBien(taches[u])'
  BY DEF Typage, TypeOK, BonDestinataire, Devenir, TacheBien
<1>2. \A g \in Gamelles : ClientBien(g)'
  BY DEF BonDestinataire, ClientBien
<1> QED BY <1>1, <1>2 DEF BonDestinataire

LEMMA DestinataireCrontabsInchanges ==
  ASSUME BonDestinataire, UNCHANGED <<connexions, crontabs>>
  PROVE  \A g \in Gamelles : CrontabsBien(g)'
BY DEF BonDestinataire, CrontabsBien

\* The handler keeps its bowl and its socket, and the step it moves to does not
\* ask for more than the one it leaves.
LEMMA DestinataireAppel ==
  ASSUME Typage, BonDestinataire, NEW t \in Lieux, taches[t] # Rien, NEW e \in Etapes,
         e \in EtapesReliees => taches[t].etape \in EtapesReliees
  PROVE  TacheBien(Appel(taches[t], e)) /\ TacheBien(DernierAppel(taches[t], e))
<1> DEFINE a == Appel(taches[t], e)
           d == DernierAppel(taches[t], e)
<1>1. taches[t] \in Tache /\ TacheBien(taches[t])
  BY DEF Typage, TypeOK, BonDestinataire
<1>2. a.g = taches[t].g /\ a.ws = taches[t].ws /\ a.etape = e /\ a \in Tache
  BY <1>1, TacheType DEF Appel, Tache
<1>3. d.g = a.g /\ d.ws = a.ws /\ d.etape = e
  <2> HIDE DEF a
  <2>1. d = [a EXCEPT !.repasId = 0, !.heure = -1, !.poids = 0]
    BY DEF DernierAppel, a
  <2> HIDE DEF d
  <2> QED BY <2>1, <1>2 DEF Tache
<1> HIDE DEF a, d
<1> QED BY <1>1, <1>2, <1>3 DEF TacheBien, a, d

\* What isArduino returns is the device of the bowl, and only that.
LEMMA DestinataireCible ==
  ASSUME Typage, BonDestinataire, NEW w \in Connexions, NEW g \in Gamelles,
         connexions[w].pair \in {Appli, g}, isArduino(w, g) # Rien
  PROVE  isArduino(w, g) \in Connexions /\ connexions[isArduino(w, g)].pair = g
<1>1. CASE connexions[w].pair = Appli
  BY <1>1 DEF isArduino, BonDestinataire, ClientBien, Typage, TypeOK
<1>2. CASE connexions[w].pair # Appli
  BY <1>2 DEF isArduino
<1> QED BY <1>1, <1>2

\* Past isArduino, the handler goes on with the device of its bowl.
LEMMA DestinataireRelie ==
  ASSUME Typage, BonDestinataire, NEW t \in Lieux, taches[t] # Rien, NEW e \in Etapes,
         isArduino(taches[t].ws, taches[t].g) # Rien
  PROVE  TacheBien(Appel([taches[t] EXCEPT !.ws = isArduino(@, taches[t].g)], e))
<1> DEFINE x == taches[t]
           w == isArduino(x.ws, x.g)
           y == [x EXCEPT !.ws = w]
           a == Appel(y, e)
<1>1. x \in Tache /\ TacheBien(x)
  BY DEF Typage, TypeOK, BonDestinataire
<1>2. w \in Connexions /\ connexions[w].pair = x.g
  BY <1>1, DestinataireCible DEF Tache, TacheBien
<1>3. y \in Tache /\ y.g = x.g /\ y.ws = w
  <2> HIDE DEF x, w
  <2> QED BY <1>1, <1>2 DEF Tache
<1>4. a.g = y.g /\ a.ws = y.ws
  <2> HIDE DEF y
  <2> QED BY <1>3 DEF Appel, Tache
<1>5. TacheBien(a)
  <2> HIDE DEF a, y, w, x
  <2> QED BY <1>2, <1>3, <1>4 DEF TacheBien
<1> QED BY <1>5 DEF Tache

LEMMA DestinataireAiguiller ==
  ASSUME Typage, BonDestinataire, NEW t \in Lieux, taches[t] # Rien, Aiguiller(t),
         UNCHANGED sansTaches
  PROVE  BonDestinataire'
<1>1. UNCHANGED <<connexions, clients>> /\ \A g \in Gamelles : CrontabsBien(g)'
  BY DestinataireCrontabsInchanges DEF sansTaches, memoire, reseau
<1>2. CASE taches[t].op = "nextMeal"
  <2>1. Devenir(t, DernierAppel(taches[t], "nextMeal"))
    BY <1>2 DEF Aiguiller
  <2>2. TacheBien(DernierAppel(taches[t], "nextMeal"))
    BY DestinataireAppel DEF Etapes, EtapesReliees
  <2> QED BY <1>1, <2>1, <2>2, DestinataireTache
<1>3. CASE taches[t].op \in {"requestData", "history", "eatNow"}
  <2>1. Devenir(t, Appel(taches[t], taches[t].op))
    BY <1>3 DEF Aiguiller
  <2>2. TacheBien(Appel(taches[t], taches[t].op))
    BY <1>3, DestinataireAppel DEF Etapes, EtapesReliees
  <2> QED BY <1>1, <2>1, <2>2, DestinataireTache
<1>4. CASE taches[t].op \notin {"nextMeal", "requestData", "history", "eatNow"}
  <2> DEFINE cible == isArduino(taches[t].ws, taches[t].g)
             y == Appel([taches[t] EXCEPT !.ws = cible], "avant")
  <2>1. CASE cible = Rien
    <3>1. Devenir(t, Rien) /\ TacheBien(Rien)
      BY <1>4, <2>1 DEF Aiguiller, Finir, TacheBien
    <3> QED BY <1>1, <3>1, DestinataireTache
  <2>2. CASE cible # Rien
    <3>1. Devenir(t, y)
      BY <1>4, <2>2 DEF Aiguiller
    <3>2. TacheBien(y)
      BY <2>2, DestinataireRelie DEF Etapes
    <3> HIDE DEF y
    <3> QED BY <1>1, <3>1, <3>2, DestinataireTache
  <2> QED BY <2>1, <2>2
<1> QED BY <1>2, <1>3, <1>4

\* The handler ends.
LEMMA DestinataireFinir ==
  ASSUME Typage, BonDestinataire, UNCHANGED <<connexions, clients>>,
         NEW t \in Lieux, Finir(t), \A g \in Gamelles : CrontabsBien(g)'
  PROVE  BonDestinataire'
BY DestinataireTache DEF Finir, TacheBien

\* The database answers: the handler keeps its bowl, its socket and its step.
LEMMA DestinataireBase ==
  ASSUME Typage, BonDestinataire, NEW t \in Lieux, Base(t)
  PROVE  BonDestinataire'
<1>1. UNCHANGED <<connexions, clients, crontabs>> /\ taches[t] # Rien
  BY DEF Base, Trouver, TrouverRepas, Creer, Ajouter, Modifier, Retirer, Consigner,
         Attend, memoire, reseau
<1>2. PICK ok, lu : Executer(t, ok, lu)
  BY DEF Base, Trouver, TrouverRepas, Creer, Ajouter, Modifier, Retirer, Consigner
<1> DEFINE y == [taches[t] EXCEPT !.attend = FALSE, !.ok = ok, !.lu = lu]
<1>3. taches[t] \in Tache /\ TacheBien(taches[t])
  BY <1>1 DEF Typage, TypeOK, BonDestinataire
<1>4. y.g = taches[t].g /\ y.ws = taches[t].ws /\ y.etape = taches[t].etape
  BY <1>3 DEF Tache
<1>5. TacheBien(y) /\ Devenir(t, y)
  <2>1. Devenir(t, y)
    BY <1>2 DEF Executer
  <2> HIDE DEF y
  <2> QED BY <1>1, <1>3, <1>4, <2>1 DEF TacheBien
<1> HIDE DEF y
<1> QED BY <1>1, <1>5, DestinataireTache, DestinataireCrontabsInchanges

\* The operators on crontabs bind entries to no other socket than the one given.
LEMMA DestinataireOperateurs ==
  ASSUME NEW C \in SUBSET Crontab, NEW id, NEW heure, NEW poids, NEW ws, NEW V,
         ws \in V, \A c \in C : c.ws \in V
  PROVE  /\ \A c \in addCrontab(C, id, heure, poids, ws) : c.ws \in V
         /\ \A c \in deleteCrontab(C, id) : c.ws \in V
         /\ \A c \in updateCrontab(C, id, heure, poids, ws) : c.ws \in V
<1>1. ASSUME NEW D, \A c \in D : c.ws \in V
      PROVE  \A c \in addCrontab(D, id, heure, poids, ws) : c.ws \in V
  BY <1>1 DEF addCrontab
<1>2. \A c \in deleteCrontab(C, id) : c.ws \in V
  BY DEF deleteCrontab, Crontab
<1>3. \A c \in addCrontab(deleteCrontab(C, id), id, heure, poids, ws) : c.ws \in V
  BY <1>1, <1>2
<1> QED BY <1>1, <1>2, <1>3 DEF updateCrontab

\* CrontabsBien, said with the set of the sockets that suit the bowl.
Convenables(g) == {w \in Connexions : connexions[w].pair = g} \cup {Rien}
LEMMA CrontabsConvenables ==
  ASSUME TypeOK, NEW g \in Gamelles
  PROVE  CrontabsBien(g) <=> \A c \in crontabs[g] : c.ws \in Convenables(g)
BY DEF TypeOK, CrontabsBien, Convenables, Crontab

\* A handler past isArduino changes the crontabs of its bowl only, and binds
\* what it adds to its own socket.
LEMMA DestinataireCrontabs ==
  ASSUME Typage, BonDestinataire, NEW t \in Lieux, NEW C,
         Typage', UNCHANGED connexions,
         taches[t] # Rien, taches[t].etape \in EtapesReliees,
         crontabs' = [crontabs EXCEPT ![taches[t].g] = C],
         \/ C = deleteCrontab(crontabs[taches[t].g], taches[t].repasId)
         \/ \E id \in Nat :
              \/ C = addCrontab(crontabs[taches[t].g], id, taches[t].heure,
                               taches[t].poids, taches[t].ws)
              \/ C = updateCrontab(crontabs[taches[t].g], id, taches[t].heure,
                                  taches[t].poids, taches[t].ws)
  PROVE  \A g \in Gamelles : CrontabsBien(g)'
<1> DEFINE x == taches[t]
<1>1. x \in Tache /\ TacheBien(x) /\ TypeOK /\ TypeOK'
  BY DEF Typage, TypeOK, BonDestinataire
<1>2. x.ws \in Convenables(x.g) /\ x.g \in Gamelles
  BY <1>1 DEF TacheBien, Convenables, Tache
<1>3. \A c \in crontabs[x.g] : c.ws \in Convenables(x.g)
  BY <1>1, <1>2, CrontabsConvenables DEF BonDestinataire
<1>4. crontabs[x.g] \in SUBSET Crontab /\ Rien \in Convenables(x.g)
  BY <1>1, <1>2 DEF TypeOK, Convenables
<1>5. \A c \in C : c.ws \in Convenables(x.g)
  <2> DEFINE V == Convenables(x.g)
             D == crontabs[x.g]
             w == x.ws
             n == x.repasId
             h == x.heure
             q == x.poids
  <2>1. /\ D \in SUBSET Crontab /\ Rien \in V /\ w \in V
        /\ \A c \in D : c.ws \in V
    BY <1>2, <1>3, <1>4
  <2>2. \/ C = deleteCrontab(D, n)
        \/ \E id \in Nat : \/ C = addCrontab(D, id, h, q, w)
                          \/ C = updateCrontab(D, id, h, q, w)
    OBVIOUS
  <2>3. \A c \in deleteCrontab(D, n) : c.ws \in V
    <3> HIDE DEF V, D, w, n
    <3> QED BY <2>1, DestinataireOperateurs
  <2>4. ASSUME NEW id \in Nat
        PROVE  /\ \A c \in addCrontab(D, id, h, q, w) : c.ws \in V
               /\ \A c \in updateCrontab(D, id, h, q, w) : c.ws \in V
    <3> HIDE DEF V, D, w, h, q
    <3> QED BY <2>1, DestinataireOperateurs
  <2> HIDE DEF V, D, w, n, h, q
  <2>5. \A c \in C : c.ws \in V
    BY <2>2, <2>3, <2>4
  <2> QED BY <2>5 DEF V
<1>6. \A g \in Gamelles : \A c \in crontabs'[g] : c.ws \in Convenables(g)
  BY <1>1, <1>2, <1>5, CrontabsConvenables DEF BonDestinataire, TypeOK
<1>7. \A g \in Gamelles : \A c \in crontabs'[g] :
        c.ws # Rien => connexions'[c.ws].pair = g
  BY <1>6 DEF Convenables
<1> QED BY <1>7 DEF CrontabsBien

\* The continuations that leave the crontabs alone.
LEMMA DestinataireSuite ==
  ASSUME Typage, BonDestinataire, NEW t \in Lieux,
         \/ SuiteCheck(t) \/ SuiteCreation(t) \/ SuiteLecture(t) \/ SuiteRetrait(t)
         \/ SuiteApres(t) \/ SuiteNextMeal(t) \/ SuiteEatNow(t)
         \/ SuiteDistribution(t) \/ SuiteEnregistrement(t)
  PROVE  BonDestinataire'
<1>1. SUFFICES ASSUME ~Planter PROVE BonDestinataire'
  BY DestinataireArreter DEF Planter
<1>2. taches[t] # Rien
  BY DEF SuiteCheck, SuiteCreation, SuiteLecture, SuiteRetrait, SuiteApres,
         SuiteNextMeal, SuiteEatNow, SuiteDistribution, SuiteEnregistrement, Pret
<1>3. UNCHANGED <<connexions, clients>> /\ \A g \in Gamelles : CrontabsBien(g)'
  <2>1. UNCHANGED <<connexions, clients, crontabs>>
    BY <1>1 DEF SuiteCheck, SuiteCreation, SuiteLecture, SuiteRetrait, SuiteApres,
         SuiteNextMeal, SuiteEatNow, SuiteDistribution, SuiteEnregistrement,
         sansTaches, memoire, reseau
  <2> QED BY <2>1, DestinataireCrontabsInchanges
<1>4. CASE Finir(t)
  BY <1>3, <1>4, DestinataireFinir
<1>5. CASE SuiteCheck(t) \/ SuiteCreation(t)
  <2>1. CASE Aiguiller(t) /\ UNCHANGED sansTaches
    BY <1>2, <2>1, DestinataireAiguiller
  <2>2. CASE Devenir(t, Appel(taches[t], "creation"))
    <3>1. TacheBien(Appel(taches[t], "creation"))
      BY <1>2, DestinataireAppel DEF Etapes, EtapesReliees
    <3> QED BY <1>3, <2>2, <3>1, DestinataireTache
  <2> QED BY <1>5, <2>1, <2>2 DEF SuiteCheck, SuiteCreation
<1>6. CASE SuiteRetrait(t)
  <2>1. TacheBien(Appel(taches[t], "verif"))
    BY <1>2, <1>6, DestinataireAppel DEF Etapes, EtapesReliees, SuiteRetrait, Pret
  <2> QED BY <1>3, <1>4, <1>6, <2>1, DestinataireTache DEF SuiteRetrait
<1>7. CASE SuiteEatNow(t)
  <2>1. TacheBien(Appel(taches[t], "eatNowEnregistre"))
    BY <1>2, DestinataireAppel DEF Etapes, EtapesReliees
  <2> QED BY <1>1, <1>3, <1>7, <2>1, DestinataireTache DEF SuiteEatNow
<1>8. CASE SuiteDistribution(t)
  <2>1. TacheBien(Appel(taches[t], "enregistrement"))
    BY <1>2, <1>8, DestinataireAppel DEF Etapes, EtapesReliees, SuiteDistribution, Pret
  <2> QED BY <1>1, <1>3, <1>4, <1>8, <2>1, DestinataireTache DEF SuiteDistribution
<1>9. CASE SuiteEnregistrement(t)
  <2>1. TacheBien(DernierAppel(taches[t], "nextMeal"))
    BY <1>2, DestinataireAppel DEF Etapes, EtapesReliees
  <2> QED BY <1>3, <1>9, <2>1, DestinataireTache DEF SuiteEnregistrement
<1>10. CASE SuiteLecture(t) \/ SuiteApres(t) \/ SuiteNextMeal(t)
  BY <1>1, <1>4, <1>10 DEF SuiteLecture, SuiteApres, SuiteNextMeal
<1> QED BY <1>5, <1>6, <1>7, <1>8, <1>9, <1>10

\* Those that compute what the handler goes on with.
LEMMA DestinataireSuiteLue ==
  ASSUME Typage, BonDestinataire, NEW t \in Lieux,
         SuiteAvant(t) \/ SuiteRelecture(t) \/ SuiteEatNowEnregistre(t)
  PROVE  BonDestinataire'
<1>1. SUFFICES ASSUME ~Planter PROVE BonDestinataire'
  BY DestinataireArreter DEF Planter
<1>2. taches[t] \in Tache /\ TacheBien(taches[t]) /\ taches[t] # Rien
  BY DEF SuiteAvant, SuiteRelecture, SuiteEatNowEnregistre, Pret, Typage, TypeOK,
         BonDestinataire
<1>3. UNCHANGED <<connexions, clients>> /\ \A g \in Gamelles : CrontabsBien(g)'
  <2>1. UNCHANGED <<connexions, clients, crontabs>>
    BY <1>1 DEF SuiteAvant, SuiteRelecture, SuiteEatNowEnregistre, sansTaches,
         memoire, reseau
  <2> QED BY <2>1, DestinataireCrontabsInchanges
<1>4. ASSUME NEW y, NEW e, y.g = taches[t].g, y.ws = taches[t].ws,
             DOMAIN y = DOMAIN taches[t],
             taches[t].etape \in EtapesReliees
      PROVE  TacheBien(Appel(y, e))
  <2>1. Appel(y, e).g = y.g /\ Appel(y, e).ws = y.ws
    BY <1>2, <1>4 DEF Appel, Tache
  <2> QED BY <1>2, <1>4, <2>1 DEF TacheBien
<1>5. CASE SuiteAvant(t)
  <2> DEFINE y == [taches[t] EXCEPT !.avant = ProchainOuRien(taches[t].lu)]
  <2>1. y.g = taches[t].g /\ y.ws = taches[t].ws /\ DOMAIN y = DOMAIN taches[t]
    BY <1>2 DEF Tache
  <2>2. taches[t].etape \in EtapesReliees
    BY <1>5 DEF SuiteAvant, Pret, EtapesReliees
  <2>3. PICK e : Devenir(t, Appel(y, e))
    BY <1>1, <1>5 DEF SuiteAvant
  <2> HIDE DEF y
  <2>4. TacheBien(Appel(y, e))
    BY <1>4, <2>1, <2>2
  <2> QED BY <1>3, <2>3, <2>4, DestinataireTache
<1>6. CASE SuiteRelecture(t)
  <2>1. CASE Finir(t)
    BY <1>3, <2>1, DestinataireFinir
  <2>2. CASE ~Finir(t)
    <3>1. PICK id : Devenir(t, Appel([taches[t] EXCEPT !.repasId = id], "ajout"))
      BY <1>1, <1>6, <2>2 DEF SuiteRelecture
    <3> DEFINE y == [taches[t] EXCEPT !.repasId = id]
    <3>2. y.g = taches[t].g /\ y.ws = taches[t].ws /\ DOMAIN y = DOMAIN taches[t]
      BY <1>2 DEF Tache
    <3>3. taches[t].etape \in EtapesReliees
      BY <1>6 DEF SuiteRelecture, Pret, EtapesReliees
    <3>4. Devenir(t, Appel(y, "ajout"))
      BY <3>1
    <3> HIDE DEF y
    <3>5. TacheBien(Appel(y, "ajout"))
      BY <1>4, <3>2, <3>3
    <3> QED BY <1>3, <3>4, <3>5, DestinataireTache
  <2> QED BY <2>1, <2>2
<1>7. CASE SuiteEatNowEnregistre(t)
  <2>1. CASE Finir(t)
    BY <1>3, <2>1, DestinataireFinir
  <2>2. CASE ~Finir(t)
    <3> DEFINE cible == isArduino(taches[t].ws, taches[t].g)
               y == Appel([taches[t] EXCEPT !.ws = cible], "distribution")
    <3>1. cible # Rien /\ Devenir(t, y)
      BY <1>7, <2>2 DEF SuiteEatNowEnregistre
    <3>2. TacheBien(y)
      BY <1>2, <3>1, DestinataireRelie DEF Etapes
    <3> HIDE DEF y
    <3> QED BY <1>3, <3>1, <3>2, DestinataireTache
  <2> QED BY <2>1, <2>2
<1> QED BY <1>5, <1>6, <1>7

\* Those that change the crontabs.
LEMMA DestinataireSuiteCrontabs ==
  ASSUME Typage, Typage', BonDestinataire, NEW t \in Lieux,
         SuiteAjout(t) \/ SuiteMaj(t) \/ SuiteVerif(t)
  PROVE  BonDestinataire'
<1> DEFINE x == taches[t]
<1>1. UNCHANGED <<connexions, clients>> /\ x # Rien /\ x.etape \in EtapesReliees
  BY DEF SuiteAjout, SuiteMaj, SuiteVerif, Pret, reseau, EtapesReliees
<1>2. x.repasId \in Nat /\ lastId \in Nat
  BY <1>1 DEF Typage, TypeOK, Tache
<1>3. \A g \in Gamelles : CrontabsBien(g)'
  <2>1. CASE SuiteAjout(t)
    BY <1>1, <1>2, <2>1, DestinataireCrontabs DEF SuiteAjout
  <2>2. CASE SuiteMaj(t)
    BY <1>1, <1>2, <2>2, DestinataireCrontabs DEF SuiteMaj
  <2>3. CASE SuiteVerif(t)
    BY <1>1, <1>2, <2>3, DestinataireCrontabs DEF SuiteVerif
  <2> QED BY <2>1, <2>2, <2>3
<1>4. CASE Finir(t)
  BY <1>1, <1>3, <1>4, DestinataireFinir
<1>5. CASE Devenir(t, DernierAppel(taches[t], "apres"))
  <2>1. TacheBien(DernierAppel(taches[t], "apres"))
    BY <1>1, DestinataireAppel DEF Etapes
  <2> QED BY <1>1, <1>3, <1>5, <2>1, DestinataireTache
<1> QED BY <1>4, <1>5 DEF SuiteAjout, SuiteMaj, SuiteVerif

\* A socket that is opened again is one that nothing in memory refers to.
LEMMA DestinataireClients ==
  ASSUME Typage, BonDestinataire, NEW w \in Connexions,
         \/ \E pair \in Gamelles \cup {Appli} : Connecter(w, pair)
         \/ Deconnecter(w)
  PROVE  BonDestinataire'
<1>1. UNCHANGED <<taches, clients, crontabs>>
  BY DEF Connecter, Deconnecter
<1>2. ASSUME NEW v \in Connexions, \/ connexions[v].pair # connexions'[v].pair
      PROVE  v = w /\ ~Reference(w)
  <2>1. CASE Deconnecter(w)
    BY <1>2, <2>1 DEF Deconnecter, Typage, TypeOK
  <2>2. CASE \E pair \in Gamelles \cup {Appli} : Connecter(w, pair)
    BY <1>2, <2>2 DEF Connecter, Typage, TypeOK
  <2> QED BY <2>1, <2>2
<1>3. ASSUME NEW t \in Lieux PROVE TacheBien(taches[t])'
  <2>1. CASE taches[t] = Rien
    BY <1>1, <2>1 DEF TacheBien
  <2>2. CASE taches[t] # Rien
    <3>1. taches[t].ws \in Connexions /\ TacheBien(taches[t])
      BY <2>2 DEF Typage, TypeOK, Tache, BonDestinataire
    <3>2. connexions[taches[t].ws].pair = connexions'[taches[t].ws].pair
      BY <1>2, <2>2, <3>1 DEF Reference
    <3> QED BY <1>1, <3>1, <3>2 DEF TacheBien
  <2> QED BY <2>1, <2>2
<1>4. ASSUME NEW g \in Gamelles PROVE ClientBien(g)' /\ CrontabsBien(g)'
  <2>1. ClientBien(g) /\ CrontabsBien(g)
    BY DEF BonDestinataire
  <2>2. ClientBien(g)'
    BY <1>1, <1>2, <2>1 DEF ClientBien, Reference, Typage, TypeOK
  <2>3. ASSUME NEW c \in crontabs[g], c.ws # Rien PROVE connexions'[c.ws].pair = g
    <3>1. c.ws \in Connexions
      BY <2>3 DEF Typage, TypeOK, Crontab
    <3>2. Reference(c.ws)
      BY <2>3 DEF Reference
    <3> QED BY <1>2, <2>1, <2>3, <3>1, <3>2 DEF CrontabsBien
  <2> QED BY <1>1, <2>2, <2>3 DEF CrontabsBien
<1> QED BY <1>3, <1>4 DEF BonDestinataire

\* A message only speaks of the bowl of its device; the first one registers the
\* socket for that bowl, and binds the crontabs of that bowl to it.
LEMMA DestinataireRecevoir ==
  ASSUME Typage, BonDestinataire, NEW t \in Requetes, NEW w \in Connexions,
         NEW g \in IF connexions[w].pair = Appli THEN Gamelles ELSE {connexions[w].pair},
         NEW d \in Demandes(g, w), Recevoir(t, d)
  PROVE  BonDestinataire'
<1>1. d.g = g /\ d.ws = w /\ g \in Gamelles /\ connexions[w].pair \in {Appli, g}
  BY DEF Demandes, Typage, TypeOK
<1>2. \A v \in Connexions : connexions'[v].pair = connexions[v].pair
  BY DEF Recevoir, reseau, Typage, TypeOK
<1>3. ASSUME NEW u \in Lieux PROVE TacheBien(taches[u])'
  <2>1. CASE u # t
    <3>1. taches'[u] = taches[u]
      BY <2>1 DEF Recevoir, Devenir, Typage, TypeOK
    <3>2. taches[u] # Rien => taches[u].ws \in Connexions
      BY DEF Typage, TypeOK, Tache
    <3> QED BY <1>2, <3>1, <3>2 DEF TacheBien, BonDestinataire
  <2>2. CASE u = t
    <3>1. /\ taches'[u].ws = w /\ taches'[u].g = g /\ taches'[u].etape = "check"
      BY <1>1, <2>2 DEF Recevoir, Devenir, Typage, TypeOK
    <3> QED BY <1>1, <1>2, <3>1 DEF TacheBien, EtapesReliees
  <2> QED BY <2>1, <2>2
<1>4. ASSUME NEW h \in Gamelles PROVE ClientBien(h)' /\ CrontabsBien(h)'
  <2>1. ClientBien(h) /\ CrontabsBien(h)
    BY DEF BonDestinataire
  <2>2. \A c \in crontabs[h] : c \in Crontab
    BY DEF Typage, TypeOK
  <2>3. clients[h] \in Connexions \cup {Rien}
    BY DEF Typage, TypeOK
  <2>4. CASE connexions[w].pair # Appli /\ h = g
               /\ clients' = [clients EXCEPT ![g] = w]
               /\ crontabs' = [crontabs EXCEPT ![g] = restartCrontabs(@, w)]
    <3>1. clients'[h] = w /\ crontabs'[h] = restartCrontabs(crontabs[h], w)
      BY <2>4 DEF Typage, TypeOK
    <3>2. connexions'[w].pair = h
      BY <1>1, <1>2, <2>4
    <3>3. \A c \in restartCrontabs(crontabs[h], w) : c.ws = w
      BY <2>2 DEF restartCrontabs, Crontab
    <3> QED BY <3>1, <3>2, <3>3 DEF ClientBien, CrontabsBien
  <2>5. CASE clients'[h] = clients[h] /\ crontabs'[h] = crontabs[h]
    BY <1>2, <2>1, <2>2, <2>3, <2>5 DEF ClientBien, CrontabsBien, Crontab
  <2> QED BY <1>1, <2>4, <2>5 DEF Recevoir, reseau, Typage, TypeOK
<1> QED BY <1>3, <1>4 DEF BonDestinataire

LEMMA DestinataireProcessus ==
  ASSUME Typage, BonDestinataire,
         Demarrer \/ LirePhoto \/ restartServer \/ EchecDemarrage \/ Panne
  PROVE  BonDestinataire'
<1>1. CASE EchecDemarrage \/ Panne
  BY <1>1, DestinataireArreter DEF EchecDemarrage, Panne, Planter
<1>2. CASE Demarrer \/ LirePhoto
  BY <1>2 DEF Demarrer, LirePhoto, reseau, BonDestinataire, TacheBien, ClientBien,
              CrontabsBien
<1>3. CASE restartServer
  <2>1. \A g \in Gamelles : \A c \in crontabs'[g] : c \in crontabs[g] \/ c.ws = Rien
    <3> TAKE g \in Gamelles
    <3>1. crontabs'[g] = Charges(crontabs[g], photo[g])
      BY <1>3 DEF restartServer
    <3>2. ASSUME NEW C, NEW R, NEW c \in Charges(C, R) PROVE c \in C \/ c.ws = Rien
      <4>1. CASE c \in C
        BY <4>1
      <4>2. CASE c \notin C
        <5>1. PICK r \in {r \in R : r.heure # -1} : \E n :
                c = [repasId |-> r.id, rang |-> n, heure |-> r.heure,
                     poids |-> r.poids, ws |-> Rien, du |-> FALSE]
          BY <3>2, <4>2 DEF Charges
        <5> QED BY <5>1
      <4> QED BY <4>1, <4>2
    <3> QED BY <3>1, <3>2
  <2>2. UNCHANGED <<connexions, clients, taches>>
    BY <1>3 DEF restartServer, reseau
  <2> QED BY <2>1, <2>2 DEF BonDestinataire, TacheBien, ClientBien, CrontabsBien
<1> QED BY <1>1, <1>2, <1>3

LEMMA DestinataireEchec ==
  ASSUME Typage, BonDestinataire, NEW t \in Lieux, Echec(t)
  PROVE  BonDestinataire'
<1>1. \/ (Aiguiller(t) \/ Finir(t)) /\ UNCHANGED sansTaches
      \/ Planter
  BY Zenon DEF Echec
<1>2. taches[t] # Rien
  BY DEF Echec
<1>3. CASE Finir(t) /\ UNCHANGED sansTaches
  BY <1>3, DestinataireFinir, DestinataireCrontabsInchanges
     DEF sansTaches, memoire, reseau
<1> QED BY <1>1, <1>2, <1>3, DestinataireAiguiller, DestinataireArreter DEF Planter

\* A distribution is started with the socket of its crontab.
LEMMA DestinataireTemps ==
  ASSUME Typage, BonDestinataire,
         Tic \/ \E t \in Minuteries, g \in Gamelles : Declencher(t, g)
  PROVE  BonDestinataire'
<1>1. ASSUME Tic PROVE BonDestinataire'
  <2>1. \A g \in Gamelles : \A c \in crontabs'[g] : \E b \in crontabs[g] : c.ws = b.ws
    <3> TAKE g \in Gamelles
    <3>1. crontabs[g] \in SUBSET Crontab
      BY DEF Typage, TypeOK
    <3> QED BY <1>1, <3>1 DEF Tic, Crontab
  <2>2. UNCHANGED <<connexions, clients, taches>>
    BY <1>1 DEF Tic, reseau
  <2> QED BY <2>1, <2>2 DEF BonDestinataire, TacheBien, ClientBien, CrontabsBien
<1>2. ASSUME NEW t \in Minuteries, NEW g \in Gamelles, Declencher(t, g)
      PROVE  BonDestinataire'
  <2>1. PICK c \in crontabs[g] :
          /\ crontabs' = [crontabs EXCEPT ![g] = (@ \ {c}) \cup {[c EXCEPT !.du = FALSE]}]
          /\ Devenir(t, [op |-> "distribution", etape |-> "distribution",
                         attend |-> TRUE, ok |-> FALSE, g |-> g, ws |-> c.ws,
                         repasId |-> 0, heure |-> -1, poids |-> 0, avant |-> Rien,
                         lu |-> {}])
          /\ c.ws # Rien
    BY <1>2 DEF Declencher
  <2> DEFINE d == [c EXCEPT !.du = FALSE]
             x == [op |-> "distribution", etape |-> "distribution",
                   attend |-> TRUE, ok |-> FALSE, g |-> g, ws |-> c.ws,
                   repasId |-> 0, heure |-> -1, poids |-> 0, avant |-> Rien,
                   lu |-> {}]
  <2>2. UNCHANGED <<connexions, clients>>
    BY <1>2 DEF Declencher, reseau
  <2>3. connexions[c.ws].pair = g
    BY <2>1 DEF BonDestinataire, CrontabsBien
  <2>4. d.ws = c.ws
    BY DEF Typage, TypeOK, Crontab
  <2>5. TacheBien(x) /\ Devenir(t, x) /\ t \in Lieux
    BY <2>1, <2>3 DEF TacheBien, Lieux
  <2>6. \A h \in Gamelles : CrontabsBien(h)'
    <3>1. crontabs' = [crontabs EXCEPT ![g] = (@ \ {c}) \cup {d}]
      BY <2>1
    <3> HIDE DEF d, x
    <3>2. \A h \in Gamelles : \A b \in crontabs'[h] :
            b \in crontabs[h] \/ (h = g /\ b = d)
      BY <3>1 DEF Typage, TypeOK
    <3> QED BY <2>2, <2>3, <2>4, <3>2 DEF BonDestinataire, CrontabsBien
  <2> HIDE DEF x
  <2> QED BY <2>2, <2>5, <2>6, DestinataireTache
<1> QED BY <1>1, <1>2

LEMMA DestinataireStable ==
  Typage /\ Typage' /\ BonDestinataire /\ [Next]_vars => BonDestinataire'
<1> SUFFICES ASSUME Typage, Typage', BonDestinataire, [Next]_vars
             PROVE  BonDestinataire'
  OBVIOUS
<1>1. CASE UNCHANGED vars
  BY <1>1 DEF vars, memoire, reseau, BonDestinataire, TacheBien, ClientBien, CrontabsBien
<1>2. ASSUME NEW t \in Lieux, Base(t) \/ Suite(t) \/ Echec(t) PROVE BonDestinataire'
  BY <1>2, DestinataireBase, DestinataireEchec, DestinataireSuite,
     DestinataireSuiteLue, DestinataireSuiteCrontabs DEF Suite
<1>3. CASE \E w \in Connexions : \/ \E pair \in Gamelles \cup {Appli} : Connecter(w, pair)
                               \/ Deconnecter(w)
  BY <1>3, DestinataireClients
<1>4. CASE \E t \in Requetes, w \in Connexions :
             \E g \in IF connexions[w].pair = Appli THEN Gamelles
                      ELSE {connexions[w].pair} :
               \E d \in Demandes(g, w) : Recevoir(t, d)
  BY <1>4, DestinataireRecevoir
<1>5. CASE Demarrer \/ LirePhoto \/ restartServer \/ EchecDemarrage \/ Panne
  BY <1>5, DestinataireProcessus
<1>6. CASE Tic \/ \E t \in Minuteries, g \in Gamelles : Declencher(t, g)
  BY <1>6, DestinataireTemps
<1> QED BY <1>1, <1>2, <1>3, <1>4, <1>5, <1>6 DEF Next

\* Messages reach the right device: whatever the interleaving of the handlers,
\* the disconnections, the restarts and the failures of the database, no handler,
\* timer or registration of a bowl holds the socket of another bowl's device.
THEOREM Destinataires == Spec => []BonDestinataire
BY DestinataireInit, DestinataireStable, TypageToujours, PTL DEF Spec

------------------------------------------------------------------------------
(* The bounds.  They, and the refinement of Portions, only look at the       *)
(* database, at the place a handler has reached and at what devices were     *)
(* sent.  Pas says what a step does to these: the thirty actions of the      *)
(* server are ten kinds of steps.                                            *)

EtapesMinuterie == {"distribution", "enregistrement", "nextMeal"}

\* The steps a handler may go on to, from what it has reached.
Suit(u, e) ==
  /\ e = "creation" => u.etape = "check" /\ ~u.attend /\ ~u.ok
  /\ e = "ajout" => u.etape = "relecture" /\ ~u.attend /\ PlaceLibre(u.lu)
  /\ e = "distribution" => u.etape = "eatNowEnregistre"
  /\ e = "enregistrement" => u.etape = "distribution"
  /\ u.etape \in EtapesMinuterie => e \in EtapesMinuterie

\* Its calls that read: what the reply says is what the database holds.
EtapesLecture == {"check", "requestData", "history", "avant", "relecture", "verif",
                  "apres", "nextMeal", "eatNow", "distribution"}
Lecture(t) ==
  /\ taches[t] # Rien /\ taches[t].attend /\ taches[t].etape \in EtapesLecture
  /\ \E ok \in BOOLEAN, lu \in SUBSET Repas :
       /\ Executer(t, ok, lu)
       /\ taches[t].etape = "check" => ok = (bd[taches[t].g].docs > 0)
       /\ taches[t].etape = "relecture" => lu = bd[taches[t].g].repas
  /\ UNCHANGED <<bd, servis>>

Enchainement(t) ==
  /\ taches[t] # Rien
  /\ \E x \in Tache : /\ Devenir(t, x)
                      /\ x.attend /\ x.g = taches[t].g /\ Suit(taches[t], x.etape)
                      /\ x.etape = "ajout" => x.repasId = NouvelId(taches[t].lu)
  /\ UNCHANGED <<bd, servis>>

Fin(t) == taches[t] # Rien /\ Finir(t) /\ UNCHANGED <<bd, servis>>

Debut(t) ==
  /\ taches[t] = Rien
  /\ t \in Requetes /\ UnALaFois => taches = ToutRien
  /\ \E x \in Tache : /\ Devenir(t, x) /\ x.attend
                      /\ \/ t \in Requetes /\ x.etape = "check"
                         \/ t \in Minuteries /\ x.etape = "distribution"
  /\ UNCHANGED <<bd, servis>>

Oubli == taches' = ToutRien /\ UNCHANGED <<bd, servis>>
Immobile == UNCHANGED <<taches, bd, servis>>

PasTache(t) ==
  \/ Lecture(t) \/ Creer(t) \/ Ajouter(t) \/ Modifier(t) \/ Retirer(t) \/ Consigner(t)
  \/ Enchainement(t) \/ Fin(t) \/ Debut(t) \/ SuiteEnregistrement(t)

------------------------------------------------------------------------------
LEMMA AppelChamps ==
  ASSUME NEW y \in Tache, NEW e \in Etapes
  PROVE  /\ Appel(y, e) \in Tache /\ Appel(y, e).g = y.g
         /\ Appel(y, e).etape = e /\ Appel(y, e).attend
         /\ Appel(y, e).repasId = y.repasId
         /\ DernierAppel(y, e) \in Tache /\ DernierAppel(y, e).g = y.g
         /\ DernierAppel(y, e).etape = e /\ DernierAppel(y, e).attend
<1> DEFINE a == Appel(y, e)
           d == DernierAppel(y, e)
<1>1. a \in Tache /\ d \in Tache
  BY TacheType
<1>2. a.g = y.g /\ a.etape = e /\ a.attend /\ a.repasId = y.repasId
  BY DEF Appel, Tache
<1>3. d.g = a.g /\ d.etape = a.etape /\ d.attend = a.attend
  <2> HIDE DEF a
  <2>1. d = [a EXCEPT !.repasId = 0, !.heure = -1, !.poids = 0]
    BY DEF DernierAppel, a
  <2> HIDE DEF d
  <2> QED BY <2>1, <1>1 DEF Tache
<1> HIDE DEF a, d
<1> QED BY <1>1, <1>2, <1>3 DEF a, d

\* A handler that issues its next call goes on.
LEMMA PasAppel ==
  ASSUME NEW t \in Lieux, taches[t] # Rien, NEW y \in Tache, y.g = taches[t].g,
         NEW e \in Etapes, Suit(taches[t], e),
         Devenir(t, Appel(y, e)) \/ (Devenir(t, DernierAppel(y, e)) /\ e # "ajout"),
         e = "ajout" => y.repasId = NouvelId(taches[t].lu),
         UNCHANGED <<bd, servis>>
  PROVE  Enchainement(t)
<1>1. PICK x \in Tache :
        /\ Devenir(t, x) /\ x.g = y.g /\ x.etape = e /\ x.attend
        /\ x.etape = "ajout" => x.repasId = y.repasId
  BY AppelChamps
<1> QED BY <1>1 DEF Enchainement

LEMMA PasAiguiller ==
  ASSUME Typage, NEW t \in Lieux, taches[t] # Rien,
         taches[t].etape \in {"check", "creation"}, Aiguiller(t), UNCHANGED <<bd, servis>>
  PROVE  Enchainement(t) \/ Fin(t)
<1> DEFINE tache == taches[t]
           cible == isArduino(tache.ws, tache.g)
<1>1. tache \in Tache
  BY DEF Typage, TypeOK
<1>2. \A e \in {"nextMeal", "requestData", "history", "eatNow", "avant"} :
        e \in Etapes /\ Suit(tache, e)
  BY DEF Suit, Etapes, EtapesMinuterie
<1>3. CASE tache.op = "nextMeal"
  BY <1>1, <1>2, <1>3, PasAppel DEF Aiguiller
<1>4. CASE tache.op \in {"requestData", "history", "eatNow"}
  <2>1. Devenir(t, Appel(tache, tache.op))
    BY <1>4 DEF Aiguiller
  <2> QED BY <1>1, <1>2, <1>4, <2>1, PasAppel
<1>5. CASE tache.op \notin {"nextMeal", "requestData", "history", "eatNow"}
  <2>1. CASE cible = Rien
    BY <1>5, <2>1 DEF Aiguiller, Fin
  <2>2. CASE cible # Rien
    <3> DEFINE y == [tache EXCEPT !.ws = cible]
    <3>1. Devenir(t, Appel(y, "avant"))
      BY <1>5, <2>2 DEF Aiguiller
    <3>2. cible \in Connexions
      BY <1>1, <2>2, isArduinoType DEF Tache
    <3>3. y \in Tache /\ y.g = tache.g
      <4> HIDE DEF cible, tache
      <4> QED BY <1>1, <3>2 DEF Tache
    <3> HIDE DEF y
    <3> QED BY <1>2, <3>1, <3>3, PasAppel
  <2> QED BY <2>1, <2>2
<1> QED BY <1>3, <1>4, <1>5

LEMMA PasOubli ==
  ASSUME Planter \/ EchecDemarrage \/ Panne
  PROVE  Oubli
BY DEF Planter, EchecDemarrage, Panne, Arreter, Oubli, horloge

\* The continuations.
LEMMA PasSuite ==
  ASSUME Typage, NEW t \in Lieux, Suite(t)
  PROVE  Oubli \/ PasTache(t)
<1> DEFINE tache == taches[t]
<1>1. ASSUME ~SuiteEnregistrement(t), ~Planter
      PROVE  Enchainement(t) \/ Fin(t)
  <2>1. tache # Rien /\ ~tache.attend
    BY <1>1 DEF Suite, SuiteCheck, SuiteCreation, SuiteLecture, SuiteAvant,
       SuiteRelecture, SuiteAjout, SuiteMaj, SuiteRetrait, SuiteVerif, SuiteApres,
       SuiteNextMeal, SuiteEatNow, SuiteEatNowEnregistre, SuiteDistribution, Pret
  <2>2. tache \in Tache
    BY <2>1 DEF Typage, TypeOK
  <2>3. ASSUME UNCHANGED sansTaches PROVE UNCHANGED <<bd, servis>>
    BY <2>3 DEF sansTaches, memoire, appareils
  <2>4. CASE SuiteCheck(t)
    <3>1. tache.etape = "check" /\ UNCHANGED <<bd, servis>>
      BY <2>3, <2>4 DEF SuiteCheck, Pret
    <3>2. CASE tache.ok
      BY <2>1, <2>4, <3>1, <3>2, PasAiguiller DEF SuiteCheck
    <3>3. CASE ~tache.ok
      <4>1. Devenir(t, Appel(tache, "creation"))
        BY <2>4, <3>3 DEF SuiteCheck
      <4>2. Suit(tache, "creation") /\ "creation" \in Etapes
        BY <2>1, <3>1, <3>3 DEF Suit, EtapesMinuterie, Etapes
      <4> QED BY <2>1, <2>2, <3>1, <4>1, <4>2, PasAppel
    <3> QED BY <3>2, <3>3
  <2>5. CASE SuiteCreation(t)
    <3>1. tache.etape = "creation" /\ UNCHANGED <<bd, servis>> /\ Aiguiller(t)
      BY <2>3, <2>5 DEF SuiteCreation, Pret
    <3> QED BY <2>1, <3>1, PasAiguiller
  <2>6. CASE SuiteLecture(t) \/ SuiteApres(t) \/ SuiteNextMeal(t)
    BY <1>1, <2>1, <2>3, <2>6 DEF SuiteLecture, SuiteApres, SuiteNextMeal, Fin
  <2>7. CASE SuiteAvant(t)
    <3> DEFINE y == [tache EXCEPT !.avant = ProchainOuRien(tache.lu)]
               e == CASE tache.op = "update" -> "maj"
                      [] tache.op = "deleteMeal" -> "retrait"
                      [] OTHER -> "relecture"
    <3>1. Devenir(t, Appel(y, e)) /\ UNCHANGED sansTaches /\ tache.etape = "avant"
      BY <1>1, <2>7 DEF SuiteAvant, Pret
    <3>2. y \in Tache /\ y.g = tache.g
      <4>1. ProchainOuRien(tache.lu) \in Affichage \cup {Rien}
        BY <2>1, <2>2, ProchainType DEF Typage, EnsemblesFinis, Tache
      <4> HIDE DEF tache
      <4> QED BY <2>2, <4>1 DEF Tache
    <3>3. e \in {"maj", "retrait", "relecture"}
      OBVIOUS
    <3> HIDE DEF y, e
    <3>4. Suit(tache, e) /\ e \in Etapes
      BY <3>1, <3>3 DEF Suit, EtapesMinuterie, Etapes
    <3> QED BY <2>1, <2>3, <3>1, <3>2, <3>3, <3>4, PasAppel
  <2>8. CASE SuiteRelecture(t)
    <3> DEFINE id == NouvelId(tache.lu)
               y == [tache EXCEPT !.repasId = id]
    <3>1. tache.etape = "relecture" /\ UNCHANGED <<bd, servis>>
      BY <1>1, <2>3, <2>8 DEF SuiteRelecture, Pret, appareils
    <3>2. CASE PlaceLibre(tache.lu)
      <4>1. Devenir(t, Appel(y, "ajout"))
        BY <1>1, <2>8, <3>2 DEF SuiteRelecture
      <4>2. id \in Nat
        BY <2>1, <2>2, DernierDedans
           DEF NouvelId, Typage, EnsemblesFinis, Tache, Repas
      <4>3. y \in Tache /\ y.g = tache.g /\ y.repasId = id
        <5> HIDE DEF tache, id
        <5> QED BY <2>2, <4>2 DEF Tache
      <4>4. Suit(tache, "ajout") /\ "ajout" \in Etapes
        BY <2>1, <3>1, <3>2 DEF Suit, EtapesMinuterie, Etapes
      <4> HIDE DEF y
      <4> QED BY <2>1, <3>1, <4>1, <4>3, <4>4, PasAppel
    <3>3. CASE ~PlaceLibre(tache.lu)
      BY <1>1, <2>1, <2>8, <3>1, <3>3 DEF SuiteRelecture, Fin
    <3> QED BY <3>2, <3>3
  <2>9. CASE SuiteAjout(t) \/ SuiteMaj(t) \/ SuiteVerif(t)
    <3>1. /\ tache.etape \in {"ajout", "maj", "verif"} /\ UNCHANGED <<bd, servis>>
          /\ Finir(t) \/ Devenir(t, DernierAppel(tache, "apres"))
      BY <2>9 DEF SuiteAjout, SuiteMaj, SuiteVerif, Pret, appareils
    <3>2. Suit(tache, "apres") /\ "apres" \in Etapes
      BY <3>1 DEF Suit, EtapesMinuterie, Etapes
    <3> QED BY <2>1, <2>2, <3>1, <3>2, PasAppel DEF Fin
  <2>10. CASE SuiteRetrait(t)
    <3>1. /\ tache.etape = "retrait" /\ UNCHANGED <<bd, servis>>
          /\ Finir(t) \/ Devenir(t, Appel(tache, "verif"))
      BY <2>3, <2>10 DEF SuiteRetrait, Pret
    <3>2. Suit(tache, "verif") /\ "verif" \in Etapes
      BY <3>1 DEF Suit, EtapesMinuterie, Etapes
    <3> QED BY <2>1, <2>2, <3>1, <3>2, PasAppel DEF Fin
  <2>11. CASE SuiteEatNow(t)
    <3>1. /\ tache.etape = "eatNow" /\ UNCHANGED <<bd, servis>>
          /\ Devenir(t, Appel(tache, "eatNowEnregistre"))
      BY <1>1, <2>3, <2>11 DEF SuiteEatNow, Pret
    <3>2. Suit(tache, "eatNowEnregistre") /\ "eatNowEnregistre" \in Etapes
      BY <3>1 DEF Suit, EtapesMinuterie, Etapes
    <3> QED BY <2>1, <2>2, <3>1, <3>2, PasAppel
  <2>12. CASE SuiteEatNowEnregistre(t)
    <3> DEFINE cible == isArduino(tache.ws, tache.g)
               y == [tache EXCEPT !.ws = cible]
    <3>1. /\ tache.etape = "eatNowEnregistre" /\ UNCHANGED <<bd, servis>>
          /\ Finir(t) \/ (cible # Rien /\ Devenir(t, Appel(y, "distribution")))
      BY <2>3, <2>12 DEF SuiteEatNowEnregistre, Pret
    <3>2. cible # Rien => y \in Tache /\ y.g = tache.g
      <4>1. cible \in Connexions \cup {Rien}
        BY <2>2, isArduinoType DEF Tache
      <4> HIDE DEF tache, cible
      <4> QED BY <2>2, <4>1 DEF Tache
    <3>3. Suit(tache, "distribution") /\ "distribution" \in Etapes
      BY <3>1 DEF Suit, EtapesMinuterie, Etapes
    <3> HIDE DEF y, cible
    <3> QED BY <2>1, <3>1, <3>2, <3>3, PasAppel DEF Fin
  <2>13. CASE SuiteDistribution(t)
    <3>1. /\ tache.etape = "distribution" /\ UNCHANGED <<bd, servis>>
          /\ Finir(t) \/ Devenir(t, Appel(tache, "enregistrement"))
      BY <1>1, <2>3, <2>13 DEF SuiteDistribution, Pret
    <3>2. Suit(tache, "enregistrement") /\ "enregistrement" \in Etapes
      BY <3>1 DEF Suit, EtapesMinuterie, Etapes
    <3> QED BY <2>1, <2>2, <3>1, <3>2, PasAppel DEF Fin
  <2> QED BY <1>1, <2>4, <2>5, <2>6, <2>7, <2>8, <2>9, <2>10, <2>11, <2>12, <2>13
          DEF Suite
<1> QED BY <1>1, PasOubli DEF PasTache

\* The database executes what a handler sent.
LEMMA PasBase ==
  ASSUME Typage, NEW t \in Lieux, Base(t)
  PROVE  PasTache(t)
<1>1. ASSUME Trouver(t) \/ TrouverRepas(t) PROVE Lecture(t)
  <2> DEFINE g == taches[t].g
  <2>1. /\ taches[t] # Rien /\ taches[t].attend /\ taches[t].etape \in EtapesLecture
        /\ UNCHANGED <<bd, servis>>
    BY <1>1 DEF Trouver, TrouverRepas, Attend, EtapesLecture, memoire, appareils
  <2>2. bd[g].repas \in SUBSET Repas
    BY <2>1 DEF Typage, TypeOK, Tache, Document
  <2>3. CASE Trouver(t)
    <3>1. Executer(t, bd[g].docs > 0, {}) /\ taches[t].etape # "relecture"
      BY <2>3 DEF Trouver, Attend
    <3>2. (bd[g].docs > 0) \in BOOLEAN /\ {} \in SUBSET Repas
      OBVIOUS
    <3>3. \E ok \in BOOLEAN, lu \in SUBSET Repas :
            /\ Executer(t, ok, lu)
            /\ taches[t].etape = "check" => ok = (bd[g].docs > 0)
            /\ taches[t].etape = "relecture" => lu = bd[g].repas
      BY <3>1, <3>2, Zenon
    <3> QED BY <2>1, <3>3 DEF Lecture
  <2>4. CASE TrouverRepas(t)
    <3>1. Executer(t, bd[g].docs > 0, bd[g].repas) /\ taches[t].etape # "check"
      BY <2>4 DEF TrouverRepas, Attend
    <3>2. (bd[g].docs > 0) \in BOOLEAN
      OBVIOUS
    <3>3. \E ok \in BOOLEAN, lu \in SUBSET Repas :
            /\ Executer(t, ok, lu)
            /\ taches[t].etape = "check" => ok = (bd[g].docs > 0)
            /\ taches[t].etape = "relecture" => lu = bd[g].repas
      BY <2>2, <3>1, <3>2, Zenon
    <3> QED BY <2>1, <3>3 DEF Lecture
  <2> QED BY <1>1, <2>3, <2>4
<1> QED BY <1>1 DEF Base, PasTache

LEMMA PasEchec ==
  ASSUME Typage, NEW t \in Lieux, Echec(t)
  PROVE  Oubli \/ PasTache(t)
<1>1. taches[t] # Rien
  BY DEF Echec
<1>2. \/ /\ taches[t].etape \in {"check", "creation"} /\ Aiguiller(t)
         /\ UNCHANGED sansTaches
      \/ Finir(t) /\ UNCHANGED sansTaches
      \/ Planter
  BY Zenon DEF Echec
<1>3. UNCHANGED sansTaches => UNCHANGED <<bd, servis>>
  BY DEF sansTaches, memoire, appareils
<1> QED BY <1>1, <1>2, <1>3, PasAiguiller, PasOubli DEF PasTache, Fin

\* A message that arrives, a timer that fires: a handler starts.
LEMMA PasRecevoir ==
  ASSUME Typage, NEW t \in Requetes, NEW w \in Connexions, NEW g \in Gamelles,
         NEW d \in Demandes(g, w), Recevoir(t, d)
  PROVE  Debut(t)
<1> DEFINE x == [op |-> d.op, etape |-> "check", attend |-> TRUE, ok |-> FALSE,
                 g |-> d.g, ws |-> d.ws, repasId |-> d.repasId,
                 heure |-> d.heure, poids |-> d.poids, avant |-> Rien,
                 lu |-> {}]
<1>1. /\ taches[t] = Rien /\ Devenir(t, x) /\ UNCHANGED <<bd, servis>>
      /\ UnALaFois => taches = ToutRien
  BY DEF Recevoir, appareils
<1>2. x \in Tache
  BY RequeteType
<1>3. x.attend /\ x.etape = "check"
  OBVIOUS
<1> HIDE DEF x
<1> QED BY <1>1, <1>2, <1>3 DEF Debut

LEMMA PasDeclencher ==
  ASSUME Typage, NEW t \in Minuteries, NEW g \in Gamelles, Declencher(t, g)
  PROVE  Debut(t)
<1>1. PICK c \in crontabs[g] :
        /\ c.ws # Rien
        /\ Devenir(t, [op |-> "distribution", etape |-> "distribution",
                      attend |-> TRUE, ok |-> FALSE, g |-> g, ws |-> c.ws,
                      repasId |-> 0, heure |-> -1, poids |-> 0, avant |-> Rien,
                      lu |-> {}])
  BY DEF Declencher
<1> DEFINE x == [op |-> "distribution", etape |-> "distribution",
                 attend |-> TRUE, ok |-> FALSE, g |-> g, ws |-> c.ws,
                 repasId |-> 0, heure |-> -1, poids |-> 0, avant |-> Rien,
                 lu |-> {}]
<1>2. c.ws \in Connexions
  BY <1>1 DEF Typage, TypeOK, Crontab
<1>3. x \in Tache
  BY <1>2, ConstantesAssumption DEF Tache, Etapes, Heures
<1>4. x.attend /\ x.etape = "distribution" /\ Devenir(t, x)
  BY <1>1
<1>5. taches[t] = Rien /\ UNCHANGED <<bd, servis>>
  BY DEF Declencher, appareils
<1>6. t \notin Requetes
  BY ConstantesAssumption
<1> HIDE DEF x
<1> QED BY <1>3, <1>4, <1>5, <1>6 DEF Debut

\* What a step of the server does to handlers, database and devices.
LEMMA Pas ==
  ASSUME Typage, [Next]_vars
  PROVE  Immobile \/ Oubli \/ \E t \in Lieux : PasTache(t)
<1>1. CASE Demarrer \/ LirePhoto \/ restartServer \/ Tic
  BY <1>1 DEF Demarrer, LirePhoto, restartServer, Tic, Immobile, appareils
<1>2. CASE EchecDemarrage \/ Panne
  BY <1>2, PasOubli
<1>3. ASSUME NEW w \in Connexions,
             (\E pair \in Gamelles \cup {Appli} : Connecter(w, pair)) \/ Deconnecter(w)
      PROVE  Immobile
  BY <1>3 DEF Connecter, Deconnecter, Immobile, appareils
<1>4. ASSUME NEW t \in Requetes, NEW w \in Connexions,
             NEW g \in (IF connexions[w].pair = Appli THEN Gamelles
                       ELSE {connexions[w].pair}),
             NEW d \in Demandes(g, w), Recevoir(t, d)
      PROVE  PasTache(t)
  <2>1. g \in Gamelles
    BY <1>4 DEF Typage, TypeOK
  <2> QED BY <1>4, <2>1, PasRecevoir DEF PasTache
<1>5. ASSUME NEW t \in Lieux, Base(t) \/ Suite(t) \/ Echec(t)
      PROVE  Oubli \/ PasTache(t)
  BY <1>5, PasBase, PasSuite, PasEchec
<1>6. ASSUME NEW t \in Minuteries, NEW g \in Gamelles, Declencher(t, g)
      PROVE  PasTache(t)
  BY <1>6, PasDeclencher DEF PasTache
<1>7. CASE UNCHANGED vars
  BY <1>7 DEF vars, memoire, appareils, Immobile
<1>8. Requetes \subseteq Lieux /\ Minuteries \subseteq Lieux
  BY DEF Lieux
<1> QED BY <1>1, <1>2, <1>3, <1>4, <1>5, <1>6, <1>7, <1>8 DEF Next

------------------------------------------------------------------------------
(* The invariant.  A handler is committed from the moment it has read that  *)
(* there is room, or no document, until its command was executed: what the  *)
(* database holds and the handlers committed to add to it are bounded       *)
(* together, since a read that commits one more finds it below the limit.   *)

MinuteriesBien ==
  \A t \in Minuteries : taches[t] # Rien => taches[t].etape \in EtapesMinuterie

AjoutEngage(u) == \/ u.etape = "ajout" /\ u.attend
                  \/ u.etape = "relecture" /\ ~u.attend /\ PlaceLibre(u.lu)
Ajoutant(g) ==
  {t \in Requetes : taches[t] # Rien /\ taches[t].g = g /\ AjoutEngage(taches[t])}

CreationEngagee(u) == \/ u.etape = "creation" /\ u.attend
                      \/ u.etape = "check" /\ ~u.attend /\ ~u.ok
Creant(g) ==
  {t \in Requetes : taches[t] # Rien /\ taches[t].g = g /\ CreationEngagee(taches[t])}

RepasBornes ==
  \A g \in Gamelles :
    Cardinality(bd[g].repas) + Cardinality(Ajoutant(g))
      <= MaxRepas - 1 + Cardinality(Requetes)
CreationsBornees ==
  \A g \in Gamelles : bd[g].docs + Cardinality(Creant(g)) <= Cardinality(Requetes)
Bornes == Typage /\ MinuteriesBien /\ RepasBornes /\ CreationsBornees

\* What a step may do to the count n and to the committed E.
LEMMA Ajustement ==
  ASSUME NEW B, IsFiniteSet(B), NEW E \in SUBSET B, NEW F \in SUBSET B,
         NEW n \in Nat, NEW m \in Nat, NEW s \in Nat,
         n + Cardinality(E) <= s + Cardinality(B),
         \/ m <= n /\ F \subseteq E
         \/ m <= s
         \/ m <= n + 1 /\ \E t \in E : F \subseteq E \ {t}
  PROVE  m + Cardinality(F) <= s + Cardinality(B)
<1>1. /\ IsFiniteSet(E) /\ IsFiniteSet(F)
      /\ Cardinality(E) \in Nat /\ Cardinality(F) \in Nat /\ Cardinality(B) \in Nat
      /\ Cardinality(F) <= Cardinality(B)
  BY FS_Subset, FS_CardinalityType
<1>2. CASE m <= n /\ F \subseteq E
  <2>1. Cardinality(F) <= Cardinality(E)
    BY <1>1, <1>2, FS_Subset
  <2> QED BY <1>1, <1>2, <2>1
<1>3. CASE m <= s
  BY <1>1, <1>3
<1>4. CASE m <= n + 1 /\ \E t \in E : F \subseteq E \ {t}
  <2>1. PICK t \in E : F \subseteq E \ {t}
    BY <1>4
  <2>2. IsFiniteSet(E \ {t}) /\ Cardinality(E \ {t}) = Cardinality(E) - 1
    BY <1>1, FS_RemoveElement
  <2>3. Cardinality(F) <= Cardinality(E \ {t})
    BY <2>1, <2>2, FS_Subset
  <2> QED BY <1>1, <1>4, <2>2, <2>3
<1> QED BY <1>2, <1>3, <1>4

\* $push adds at most one meal; "repas.$" and $pull none.
LEMMA Tailles ==
  ASSUME NEW R, IsFiniteSet(R), NEW id, NEW heure, NEW poids
  PROVE  /\ Cardinality(R) \in Nat
         /\ Cardinality(Avec(R, id, heure, poids)) \in Nat
         /\ Cardinality(Avec(R, id, heure, poids)) <= Cardinality(R) + 1
         /\ Cardinality(Modifies(R, id, heure, poids)) \in Nat
         /\ Cardinality(Modifies(R, id, heure, poids)) <= Cardinality(R)
         /\ Cardinality(Sans(R, id)) \in Nat
         /\ Cardinality(Sans(R, id)) <= Cardinality(R)
<1>1. Cardinality(R) \in Nat
  BY FS_CardinalityType
<1>2. /\ Cardinality(Avec(R, id, heure, poids)) \in Nat
      /\ Cardinality(Avec(R, id, heure, poids)) <= Cardinality(R) + 1
  BY <1>1, FS_AddElement DEF Avec
<1>3. /\ Cardinality(Modifies(R, id, heure, poids)) \in Nat
      /\ Cardinality(Modifies(R, id, heure, poids)) <= Cardinality(R)
  <2> DEFINE f == [r \in R |-> IF r.id = id /\ EstPremier(r, R)
                     THEN [r EXCEPT !.heure = heure, !.poids = poids] ELSE r]
             T == {f[r] : r \in R}
  <2>1. Modifies(R, id, heure, poids) = T
    BY DEF Modifies
  <2>2. IsFiniteSet(T) /\ Cardinality(T) <= Cardinality(R)
    <3> HIDE DEF f
    <3> QED BY ImageFinie
  <2> HIDE DEF T
  <2> QED BY <2>1, <2>2, FS_CardinalityType
<1>4. Sans(R, id) \subseteq R
  BY DEF Sans
<1> QED BY <1>1, <1>2, <1>3, <1>4, FS_Subset, FS_CardinalityType

\* The record of a handler, before and after.
LEMMA ExecuterChamps ==
  ASSUME Typage, NEW t \in Lieux, taches[t] # Rien, NEW ok \in BOOLEAN,
         NEW lu \in SUBSET Repas, Executer(t, ok, lu)
  PROVE  \E x \in Tache :
           /\ Devenir(t, x) /\ x.g = taches[t].g /\ x.etape = taches[t].etape
           /\ ~x.attend /\ x.ok = ok /\ x.lu = lu
<1> DEFINE x == [taches[t] EXCEPT !.attend = FALSE, !.ok = ok, !.lu = lu]
<1>1. taches[t] \in Tache
  BY DEF Typage, TypeOK
<1>2. x \in Tache
  BY <1>1 DEF Tache
<1>3. x.g = taches[t].g /\ x.etape = taches[t].etape /\ ~x.attend /\ x.ok = ok /\ x.lu = lu
  BY <1>1 DEF Tache
<1>4. Devenir(t, x)
  BY DEF Executer
<1> HIDE DEF x
<1> QED BY <1>2, <1>3, <1>4

\* Commands that write: the handler's place, and what becomes of the document.
LEMMA EcritureChamps ==
  ASSUME Typage, NEW t \in Lieux,
         Creer(t) \/ Ajouter(t) \/ Modifier(t) \/ Retirer(t) \/ Consigner(t)
  PROVE  /\ taches[t] \in Tache /\ taches[t].g \in Gamelles /\ taches[t].attend
         /\ taches[t].etape \in {"creation", "ajout", "maj", "retrait",
                                 "eatNowEnregistre", "enregistrement"}
         /\ \E x \in Tache : /\ Devenir(t, x) /\ x.g = taches[t].g /\ x.ok \in BOOLEAN
                             /\ x.etape = taches[t].etape /\ ~x.attend
<1>1. /\ taches[t] # Rien /\ taches[t].attend
      /\ taches[t].etape \in {"creation", "ajout", "maj", "retrait",
                              "eatNowEnregistre", "enregistrement"}
  BY DEF Creer, Ajouter, Modifier, Retirer, Consigner, Attend
<1>2. taches[t] \in Tache
  BY <1>1 DEF Typage, TypeOK
<1>3. \E ok \in BOOLEAN : Executer(t, ok, {})
  BY DEF Creer, Ajouter, Modifier, Retirer, Consigner
<1>4. PICK ok \in BOOLEAN : Executer(t, ok, {})
  BY <1>3
<1>5. {} \in SUBSET Repas
  OBVIOUS
<1>6. PICK x \in Tache :
        /\ Devenir(t, x) /\ x.g = taches[t].g /\ x.etape = taches[t].etape
        /\ ~x.attend
  BY <1>1, <1>4, <1>5, ExecuterChamps
<1> QED BY <1>1, <1>2, <1>6 DEF Tache

LEMMA EnregistrementChamps ==
  ASSUME Typage, NEW t \in Lieux, SuiteEnregistrement(t)
  PROVE  /\ taches[t] # Rien /\ taches[t].etape = "enregistrement" /\ ~taches[t].attend
         /\ UNCHANGED bd
         /\ \E x \in Tache : /\ Devenir(t, x) /\ x.g = taches[t].g
                             /\ x.etape = "nextMeal" /\ x.attend
<1>1. taches[t] # Rien /\ taches[t].etape = "enregistrement" /\ ~taches[t].attend /\ UNCHANGED bd
  BY DEF SuiteEnregistrement, Pret
<1>2. taches[t] \in Tache /\ "nextMeal" \in Etapes
  BY <1>1 DEF Typage, TypeOK, Etapes
<1> QED BY <1>1, <1>2, AppelChamps DEF SuiteEnregistrement

\* A timer's handler only goes through distribution.
LEMMA MinuteriesStable ==
  ASSUME Typage, MinuteriesBien, NEW t \in Lieux, PasTache(t)
  PROVE  MinuteriesBien'
<1>1. \E x \in Tache \cup {Rien} :
        /\ Devenir(t, x)
        /\ t \in Minuteries /\ x # Rien => x.etape \in EtapesMinuterie
  <2>1. CASE Lecture(t)
    <3>1. PICK ok \in BOOLEAN, lu \in SUBSET Repas : Executer(t, ok, lu)
      BY <2>1 DEF Lecture
    <3>2. taches[t] # Rien
      BY <2>1 DEF Lecture
    <3>3. PICK x \in Tache : Devenir(t, x) /\ x.etape = taches[t].etape
      BY <3>1, <3>2, ExecuterChamps
    <3> QED BY <3>2, <3>3 DEF MinuteriesBien
  <2>2. CASE Creer(t) \/ Ajouter(t) \/ Modifier(t) \/ Retirer(t) \/ Consigner(t)
    <3>1. taches[t] # Rien
      BY <2>2 DEF Creer, Ajouter, Modifier, Retirer, Consigner, Attend
    <3> QED BY <2>2, <3>1, EcritureChamps DEF MinuteriesBien
  <2>3. CASE Enchainement(t)
    BY <2>3 DEF Enchainement, Suit, MinuteriesBien
  <2>4. CASE Fin(t)
    BY <2>4 DEF Fin, Finir
  <2>5. CASE Debut(t)
    BY <2>5, ConstantesAssumption DEF Debut, EtapesMinuterie
  <2>6. CASE SuiteEnregistrement(t)
    BY <2>6, EnregistrementChamps DEF EtapesMinuterie
  <2> QED BY <2>1, <2>2, <2>3, <2>4, <2>5, <2>6 DEF PasTache
<1>2. PICK x \in Tache \cup {Rien} :
        /\ Devenir(t, x)
        /\ t \in Minuteries /\ x # Rien => x.etape \in EtapesMinuterie
  BY <1>1
<1> SUFFICES ASSUME NEW u \in Minuteries, taches'[u] # Rien
             PROVE  taches'[u].etape \in EtapesMinuterie
  BY DEF MinuteriesBien
<1> u \in Lieux
  BY DEF Lieux
<1>3. taches'[u] = IF u = t THEN x ELSE taches[u]
  BY <1>2 DEF Devenir, Typage, TypeOK
<1> QED BY <1>2, <1>3 DEF MinuteriesBien

\* The committed handlers after a step of t.
LEMMA EngagesApres ==
  ASSUME Typage, NEW t \in Lieux, NEW x \in Tache \cup {Rien}, Devenir(t, x), NEW h
  PROVE  /\ (x = Rien \/ x.g # h \/ ~AjoutEngage(x))
              => Ajoutant(h)' \subseteq Ajoutant(h) \ {t}
         /\ t \in Ajoutant(h) => Ajoutant(h)' \subseteq Ajoutant(h)
         /\ (x = Rien \/ x.g # h \/ ~CreationEngagee(x))
              => Creant(h)' \subseteq Creant(h) \ {t}
         /\ t \in Creant(h) => Creant(h)' \subseteq Creant(h)
<1>1. \A u \in Requetes : taches'[u] = IF u = t THEN x ELSE taches[u]
  BY DEF Devenir, Typage, TypeOK, Lieux
<1>2. \A u : /\ u \in Ajoutant(h)' => /\ u \in Requetes /\ taches'[u] # Rien
                                       /\ taches'[u].g = h /\ AjoutEngage(taches'[u])
             /\ u \in Creant(h)' => /\ u \in Requetes /\ taches'[u] # Rien
                                     /\ taches'[u].g = h /\ CreationEngagee(taches'[u])
  BY DEF Ajoutant, Creant, AjoutEngage, CreationEngagee
<1> QED BY <1>1, <1>2, Zenon DEF Ajoutant, Creant

LEMMA RepasBornesStable ==
  ASSUME Typage, Typage', MinuteriesBien, RepasBornes, NEW t \in Lieux, PasTache(t)
  PROVE  RepasBornes'
<1> SUFFICES ASSUME NEW h \in Gamelles
             PROVE  Cardinality(bd'[h].repas) + Cardinality(Ajoutant(h)')
                      <= MaxRepas - 1 + Cardinality(Requetes)
  BY DEF RepasBornes
<1> DEFINE E == Ajoutant(h)
           F == Ajoutant(h)'
           n == Cardinality(bd[h].repas)
           m == Cardinality(bd'[h].repas)
<1>1. /\ E \in SUBSET Requetes /\ F \in SUBSET Requetes
      /\ n \in Nat /\ m \in Nat /\ MaxRepas - 1 \in Nat /\ IsFiniteSet(Requetes)
      /\ n + Cardinality(E) <= MaxRepas - 1 + Cardinality(Requetes)
  <2>1. E \in SUBSET Requetes /\ F \in SUBSET Requetes
    BY DEF Ajoutant
  <2>2. IsFiniteSet(bd[h].repas) /\ IsFiniteSet(bd'[h].repas)
    BY DEF Typage, EnsemblesFinis
  <2>3. IsFiniteSet(Requetes) /\ MaxRepas - 1 \in Nat
    BY FS_Subset, ConstantesAssumption DEF Lieux
  <2> QED BY <2>1, <2>2, <2>3, FS_CardinalityType DEF RepasBornes
<1>2. SUFFICES \/ m <= n /\ F \subseteq E
               \/ m <= MaxRepas - 1
               \/ m <= n + 1 /\ \E u \in E : F \subseteq E \ {u}
  <2> HIDE DEF E, F, n, m
  <2> SUFFICES m + Cardinality(F) <= MaxRepas - 1 + Cardinality(Requetes)
    BY DEF m, F
  <2> QED BY <1>1, <1>2, Ajustement
<1>3. CASE Lecture(t)
  <2>1. /\ taches[t] # Rien /\ taches[t].attend /\ taches[t].etape \in EtapesLecture
        /\ UNCHANGED bd
    BY <1>3 DEF Lecture
  <2>2. PICK ok \in BOOLEAN, lu \in SUBSET Repas :
               /\ Executer(t, ok, lu)
               /\ taches[t].etape = "relecture" => lu = bd[taches[t].g].repas
    BY <1>3 DEF Lecture
  <2>3. PICK x \in Tache : /\ Devenir(t, x) /\ x.g = taches[t].g
                          /\ x.etape = taches[t].etape /\ ~x.attend /\ x.lu = lu
    BY <2>1, <2>2, ExecuterChamps
  <2>4. CASE x.g # h \/ ~AjoutEngage(x)
    BY <1>1, <2>1, <2>3, <2>4, EngagesApres
  <2>5. CASE x.g = h /\ AjoutEngage(x)
    <3>1. PlaceLibre(bd[h].repas)
      BY <2>2, <2>3, <2>5 DEF AjoutEngage
    <3>2. n < MaxRepas /\ m = n
      BY <2>1, <3>1 DEF PlaceLibre
    <3> QED BY <1>1, <3>2, ConstantesAssumption
  <2> QED BY <2>4, <2>5
<1>4. CASE Creer(t) \/ Modifier(t) \/ Retirer(t) \/ Consigner(t)
  <2>1. taches[t].g \in Gamelles /\ taches[t] \in Tache
    BY <1>4, EcritureChamps
  <2>2. PICK x \in Tache : Devenir(t, x) /\ ~x.attend /\ x.etape = taches[t].etape
    BY <1>4, EcritureChamps
  <2>3. x.etape \notin {"ajout", "relecture"}
    BY <1>4, <2>2 DEF Creer, Modifier, Retirer, Consigner, Attend
  <2>4. F \subseteq E
    BY <2>2, <2>3, EngagesApres DEF AjoutEngage
  <2>5. m <= n
    <3>1. bd[h] \in Document /\ IsFiniteSet(bd[h].repas)
      BY DEF Typage, TypeOK, EnsemblesFinis
    <3>2. \/ bd'[h].repas = bd[h].repas
          \/ \E id, heure, poids : bd'[h].repas = Modifies(bd[h].repas, id, heure, poids)
          \/ \E id : bd'[h].repas = Sans(bd[h].repas, id)
      <4> USE <2>1 DEF Typage, TypeOK, Document
      <4>1. CASE Creer(t)
        BY <4>1 DEF Creer
      <4>2. CASE Modifier(t)
        BY <4>2 DEF Modifier
      <4>3. CASE Retirer(t)
        BY <4>3 DEF Retirer
      <4>4. CASE Consigner(t)
        BY <4>4 DEF Consigner
      <4> QED BY <1>4, <4>1, <4>2, <4>3, <4>4
    <3> QED BY <1>1, <3>1, <3>2, Tailles
  <2> QED BY <2>4, <2>5
<1>5. CASE Ajouter(t)
  <2>1. /\ taches[t].g \in Gamelles /\ taches[t] # Rien
        /\ taches[t].etape = "ajout" /\ taches[t].attend
    BY <1>5, EcritureChamps DEF Ajouter, Attend
  <2>2. PICK x \in Tache : Devenir(t, x) /\ ~x.attend /\ x.etape = taches[t].etape
    BY <1>5, EcritureChamps
  <2>3. F \subseteq E \ {t}
    BY <2>1, <2>2, EngagesApres DEF AjoutEngage
  <2>4. CASE taches[t].g = h
    <3>1. t \in E
      BY <2>1, <2>4 DEF Ajoutant, AjoutEngage, MinuteriesBien, EtapesMinuterie, Lieux
    <3>2. bd'[h].repas = Avec(bd[h].repas, taches[t].repasId, taches[t].heure,
                              taches[t].poids)
      BY <1>5, <2>4 DEF Ajouter, Typage, TypeOK, Document
    <3>3. IsFiniteSet(bd[h].repas)
      BY DEF Typage, EnsemblesFinis
    <3> QED BY <2>3, <3>1, <3>2, <3>3, Tailles
  <2>5. CASE taches[t].g # h
    <3>1. bd'[h] = bd[h]
      BY <1>5, <2>5 DEF Ajouter, Typage, TypeOK
    <3> QED BY <1>1, <2>3, <3>1
  <2> QED BY <2>4, <2>5
<1>6. CASE Enchainement(t)
  <2>1. PICK x \in Tache : /\ Devenir(t, x) /\ x.attend /\ x.g = taches[t].g
                          /\ Suit(taches[t], x.etape)
    BY <1>6 DEF Enchainement
  <2>2. UNCHANGED bd /\ taches[t] # Rien
    BY <1>6 DEF Enchainement
  <2>3. AjoutEngage(x) => AjoutEngage(taches[t])
    BY <2>1 DEF AjoutEngage, Suit
  <2>4. CASE x.g # h \/ ~AjoutEngage(x)
    BY <1>1, <2>1, <2>2, <2>4, EngagesApres
  <2>5. CASE x.g = h /\ AjoutEngage(x)
    <3>1. x.etape = "ajout"
      BY <2>1, <2>5 DEF AjoutEngage
    <3>2. t \in E
      BY <2>1, <2>2, <2>3, <2>5, <3>1
         DEF Ajoutant, MinuteriesBien, EtapesMinuterie, Lieux, Suit
    <3> QED BY <1>1, <2>1, <2>2, <3>2, EngagesApres
  <2> QED BY <2>4, <2>5
<1>7. CASE Fin(t)
  BY <1>1, <1>7, EngagesApres DEF Fin, Finir
<1>8. CASE Debut(t)
  BY <1>1, <1>8, EngagesApres DEF Debut, AjoutEngage
<1>9. CASE SuiteEnregistrement(t)
  BY <1>1, <1>9, EnregistrementChamps, EngagesApres DEF AjoutEngage
<1> QED BY <1>3, <1>4, <1>5, <1>6, <1>7, <1>8, <1>9 DEF PasTache

LEMMA CreationsBorneesStable ==
  ASSUME Typage, Typage', MinuteriesBien, CreationsBornees, NEW t \in Lieux, PasTache(t)
  PROVE  CreationsBornees'
<1> SUFFICES ASSUME NEW h \in Gamelles
             PROVE  bd'[h].docs + Cardinality(Creant(h)') <= Cardinality(Requetes)
  BY DEF CreationsBornees
<1> DEFINE E == Creant(h)
           F == Creant(h)'
           n == bd[h].docs
           m == bd'[h].docs
<1>1. /\ E \in SUBSET Requetes /\ F \in SUBSET Requetes
      /\ n \in Nat /\ m \in Nat /\ IsFiniteSet(Requetes)
      /\ n + Cardinality(E) <= Cardinality(Requetes)
  <2>1. E \in SUBSET Requetes /\ F \in SUBSET Requetes
    BY DEF Creant
  <2>2. bd[h] \in Document /\ bd'[h] \in Document
    BY DEF Typage, TypeOK
  <2>3. IsFiniteSet(Requetes)
    BY FS_Subset, ConstantesAssumption DEF Lieux
  <2> QED BY <2>1, <2>2, <2>3 DEF CreationsBornees, Document
<1>2. SUFFICES \/ m <= n /\ F \subseteq E
               \/ m <= 0
               \/ m <= n + 1 /\ \E u \in E : F \subseteq E \ {u}
  <2> HIDE DEF E, F, n, m
  <2> SUFFICES m + Cardinality(F) <= Cardinality(Requetes)
    BY DEF m, F
  <2>1. Cardinality(Requetes) \in Nat /\ Cardinality(E) \in Nat /\ Cardinality(F) \in Nat
    BY <1>1, FS_CardinalityType, FS_Subset
  <2>2. n + Cardinality(E) <= 0 + Cardinality(Requetes)
    BY <1>1, <2>1
  <2>3. m + Cardinality(F) <= 0 + Cardinality(Requetes)
    BY <1>1, <1>2, <2>2, Ajustement
  <2> QED BY <1>1, <2>1, <2>3
<1>3. CASE Lecture(t)
  <2>1. /\ taches[t] # Rien /\ taches[t].attend /\ taches[t].etape \in EtapesLecture
        /\ UNCHANGED bd
    BY <1>3 DEF Lecture
  <2>2. PICK ok \in BOOLEAN, lu \in SUBSET Repas :
               /\ Executer(t, ok, lu)
               /\ taches[t].etape = "check" => ok = (bd[taches[t].g].docs > 0)
    BY <1>3 DEF Lecture
  <2>3. PICK x \in Tache : /\ Devenir(t, x) /\ x.g = taches[t].g
                          /\ x.etape = taches[t].etape /\ ~x.attend /\ x.ok = ok
    BY <2>1, <2>2, ExecuterChamps
  <2>4. CASE x.g # h \/ ~CreationEngagee(x)
    BY <1>1, <2>1, <2>3, <2>4, EngagesApres
  <2>5. CASE x.g = h /\ CreationEngagee(x)
    <3>1. ~(bd[h].docs > 0)
      BY <2>2, <2>3, <2>5 DEF CreationEngagee
    <3> QED BY <1>1, <2>1, <3>1
  <2> QED BY <2>4, <2>5
<1>4. CASE Ajouter(t) \/ Modifier(t) \/ Retirer(t) \/ Consigner(t)
  <2>1. taches[t].g \in Gamelles
    BY <1>4, EcritureChamps
  <2>2. PICK x \in Tache : Devenir(t, x) /\ ~x.attend /\ x.etape = taches[t].etape
    BY <1>4, EcritureChamps
  <2>3. x.etape \notin {"creation", "check"}
    BY <1>4, <2>2 DEF Ajouter, Modifier, Retirer, Consigner, Attend
  <2>4. F \subseteq E
    BY <2>2, <2>3, EngagesApres DEF CreationEngagee
  <2>5. m = n
    <3> USE <2>1 DEF Typage, TypeOK, Document
    <3>1. CASE Ajouter(t)
      BY <3>1 DEF Ajouter
    <3>2. CASE Modifier(t)
      BY <3>2 DEF Modifier
    <3>3. CASE Retirer(t)
      BY <3>3 DEF Retirer
    <3>4. CASE Consigner(t)
      BY <3>4 DEF Consigner
    <3> QED BY <1>4, <3>1, <3>2, <3>3, <3>4
  <2> QED BY <1>1, <2>4, <2>5
<1>5. CASE Creer(t)
  <2>1. /\ taches[t].g \in Gamelles /\ taches[t] # Rien
        /\ taches[t].etape = "creation" /\ taches[t].attend
    BY <1>5, EcritureChamps DEF Creer, Attend
  <2>2. PICK x \in Tache : Devenir(t, x) /\ ~x.attend /\ x.etape = taches[t].etape
    BY <1>5, EcritureChamps
  <2>3. F \subseteq E \ {t}
    BY <2>1, <2>2, EngagesApres DEF CreationEngagee
  <2>4. CASE taches[t].g = h
    <3>1. t \in E
      BY <2>1, <2>4 DEF Creant, CreationEngagee, MinuteriesBien, EtapesMinuterie, Lieux
    <3>2. m = n + 1
      BY <1>5, <2>4 DEF Creer, Typage, TypeOK, Document
    <3> QED BY <1>1, <2>3, <3>1, <3>2
  <2>5. CASE taches[t].g # h
    <3>1. bd'[h] = bd[h]
      BY <1>5, <2>5 DEF Creer, Typage, TypeOK
    <3> QED BY <1>1, <2>3, <3>1
  <2> QED BY <2>4, <2>5
<1>6. CASE Enchainement(t)
  <2>1. PICK x \in Tache : /\ Devenir(t, x) /\ x.attend /\ x.g = taches[t].g
                          /\ Suit(taches[t], x.etape)
    BY <1>6 DEF Enchainement
  <2>2. UNCHANGED bd /\ taches[t] # Rien
    BY <1>6 DEF Enchainement
  <2>3. CASE x.g # h \/ ~CreationEngagee(x)
    BY <1>1, <2>1, <2>2, <2>3, EngagesApres
  <2>4. CASE x.g = h /\ CreationEngagee(x)
    <3>1. x.etape = "creation"
      BY <2>1, <2>4 DEF CreationEngagee
    <3>2. t \in E
      BY <2>1, <2>2, <2>4, <3>1
         DEF Creant, CreationEngagee, MinuteriesBien, EtapesMinuterie, Lieux, Suit
    <3> QED BY <1>1, <2>1, <2>2, <3>2, EngagesApres
  <2> QED BY <2>3, <2>4
<1>7. CASE Fin(t)
  BY <1>1, <1>7, EngagesApres DEF Fin, Finir
<1>8. CASE Debut(t)
  BY <1>1, <1>8, EngagesApres DEF Debut, CreationEngagee
<1>9. CASE SuiteEnregistrement(t)
  BY <1>1, <1>9, EnregistrementChamps, EngagesApres DEF CreationEngagee
<1> QED BY <1>3, <1>4, <1>5, <1>6, <1>7, <1>8, <1>9 DEF PasTache

LEMMA BornesInit == Init => Bornes
<1> SUFFICES ASSUME Init PROVE Bornes
  OBVIOUS
<1>1. Typage /\ \A t \in Lieux : taches[t] = Rien
  BY InitType DEF Init, ToutRien
<1>2. MinuteriesBien
  BY <1>1 DEF MinuteriesBien, Lieux
<1>3. \A g \in Gamelles : Ajoutant(g) = {} /\ Creant(g) = {}
  BY <1>1 DEF Ajoutant, Creant, Lieux
<1>4. \A g \in Gamelles :
        /\ Cardinality(bd[g].repas) \in Nat /\ bd[g].docs \in Nat
        /\ Cardinality(bd[g].repas) <= MaxRepas - 1 + Cardinality(Requetes)
        /\ bd[g].docs <= Cardinality(Requetes)
  BY <1>1, BasesAssumption, FS_CardinalityType
     DEF Init, Typage, TypeOK, EnsemblesFinis, Document
<1>5. \A g \in Gamelles : Cardinality(Ajoutant(g)) = 0 /\ Cardinality(Creant(g)) = 0
  BY <1>3, FS_EmptySet
<1>6. RepasBornes
  BY <1>4, <1>5 DEF RepasBornes
<1>7. CreationsBornees
  BY <1>4, <1>5 DEF CreationsBornees
<1> QED BY <1>1, <1>2, <1>6, <1>7 DEF Bornes

LEMMA BornesStables == Bornes /\ [Next]_vars => Bornes'
<1> SUFFICES ASSUME Bornes, [Next]_vars PROVE Bornes'
  OBVIOUS
<1>1. Typage /\ Typage'
  BY TypageStable DEF Bornes
<1>2. CASE Immobile
  BY <1>1, <1>2 DEF Bornes, Immobile, MinuteriesBien, RepasBornes, CreationsBornees,
     Ajoutant, Creant, AjoutEngage, CreationEngagee
<1>3. CASE Oubli
  <2>1. \A t \in Lieux : taches'[t] = Rien
    BY <1>3 DEF Oubli, ToutRien
  <2>2. MinuteriesBien'
    BY <2>1 DEF MinuteriesBien, Lieux
  <2>3. \A g \in Gamelles : Ajoutant(g)' = {} /\ Creant(g)' = {}
    BY <2>1 DEF Ajoutant, Creant, Lieux
  <2>4. IsFiniteSet(Requetes)
    BY FS_Subset, ConstantesAssumption DEF Lieux
  <2>5. \A g \in Gamelles :
          /\ Cardinality(bd[g].repas) \in Nat /\ bd[g].docs \in Nat
          /\ Cardinality(Ajoutant(g)) \in Nat /\ Cardinality(Creant(g)) \in Nat
          /\ Ajoutant(g) \subseteq Requetes /\ Creant(g) \subseteq Requetes
    BY <1>1, <2>4, FS_Subset, FS_CardinalityType
       DEF Typage, TypeOK, EnsemblesFinis, Document, Ajoutant, Creant
  <2>6. UNCHANGED bd /\ RepasBornes /\ CreationsBornees
    BY <1>3 DEF Oubli, Bornes
  <2>7. \A g \in Gamelles : Cardinality(Ajoutant(g)') = 0 /\ Cardinality(Creant(g)') = 0
    BY <2>3, FS_EmptySet
  <2>8. Cardinality(Requetes) \in Nat /\ MaxRepas - 1 \in Nat
    BY <2>4, FS_CardinalityType, ConstantesAssumption
  <2>9. RepasBornes'
    <3> SUFFICES ASSUME NEW g \in Gamelles
                 PROVE  Cardinality(bd'[g].repas) + Cardinality(Ajoutant(g)')
                          <= MaxRepas - 1 + Cardinality(Requetes)
      BY DEF RepasBornes
    <3>1. Cardinality(bd[g].repas) + Cardinality(Ajoutant(g))
            <= MaxRepas - 1 + Cardinality(Requetes)
      BY <2>6 DEF RepasBornes
    <3> QED BY <2>5, <2>6, <2>7, <2>8, <3>1
  <2>10. CreationsBornees'
    <3> SUFFICES ASSUME NEW g \in Gamelles
                 PROVE  bd'[g].docs + Cardinality(Creant(g)') <= Cardinality(Requetes)
      BY DEF CreationsBornees
    <3>1. bd[g].docs + Cardinality(Creant(g)) <= Cardinality(Requetes)
      BY <2>6 DEF CreationsBornees
    <3> QED BY <2>5, <2>6, <2>7, <2>8, <3>1
  <2> QED BY <1>1, <2>2, <2>9, <2>10 DEF Bornes
<1>4. ASSUME NEW t \in Lieux, PasTache(t) PROVE Bornes'
  BY <1>1, <1>4, MinuteriesStable, RepasBornesStable, CreationsBorneesStable DEF Bornes
<1> QED BY <1>1, <1>2, <1>3, <1>4, Pas

LEMMA BornesToujours == Spec => []Bornes
<1>1. Init => Bornes
  BY BornesInit
<1>2. Bornes /\ [Next]_vars => Bornes'
  BY BornesStables
<1> QED BY <1>1, <1>2, PTL DEF Spec

LEMMA BornesSuffisent == Bornes => DepassementBorne /\ DocumentsBornes
<1> SUFFICES ASSUME Bornes, NEW g \in Gamelles
             PROVE  /\ Cardinality(bd[g].repas) <= MaxRepas - 1 + Cardinality(Requetes)
                    /\ bd[g].docs <= Cardinality(Requetes)
  BY DEF DepassementBorne, DocumentsBornes
<1>1. IsFiniteSet(Requetes)
  BY FS_Subset, ConstantesAssumption DEF Lieux
<1>2. Ajoutant(g) \subseteq Requetes /\ Creant(g) \subseteq Requetes
  BY DEF Ajoutant, Creant
<1>3. Cardinality(Ajoutant(g)) \in Nat /\ Cardinality(Creant(g)) \in Nat
  BY <1>1, <1>2, FS_Subset, FS_CardinalityType
<1>4. Cardinality(bd[g].repas) \in Nat /\ bd[g].docs \in Nat /\ Cardinality(Requetes) \in Nat
  BY <1>1, FS_CardinalityType DEF Bornes, Typage, TypeOK, EnsemblesFinis, Document
<1>5. MaxRepas - 1 \in Nat
  BY ConstantesAssumption
<1> QED BY <1>3, <1>4, <1>5 DEF Bornes, RepasBornes, CreationsBornees

\* A bowl never has more meals than the limit of addMeal and one more for each
\* other request that may be in flight, for any number of bowls, sockets,
\* requests and failures.
THEOREM RepasToujoursBornes == Spec => []DepassementBorne
BY BornesToujours, BornesSuffisent, PTL

\* check never makes more documents of a bowl than there are requests in flight.
THEOREM DocumentsToujoursBornes == Spec => []DocumentsBornes
BY BornesToujours, BornesSuffisent, PTL

------------------------------------------------------------------------------
(* The server implements Portions, and inherits what Portions guarantees.    *)

Portees == INSTANCE PortionsPreuves WITH
       historique <- [g \in Gamelles |-> bd[g].historique],
       commandes <- [t \in Lieux |-> Commande(taches[t])]

\* An instance has its own copy of what FiniteSets defines.
LEMMA MemesEnsembles ==
  \A S : /\ IsFiniteSet(S) <=> Portees!IsFiniteSet(S)
         /\ Cardinality(S) = Portees!Cardinality(S)
BY DEF IsFiniteSet, Cardinality, Portees!IsFiniteSet, Portees!Cardinality

LEMMA Couverture == PortionsPromises => []Portees!Couvert
<1>1. P!Init => Portees!Init
  BY DEF P!Init, Portees!Init
<1>2. [P!Next]_P!vars => [Portees!Next]_Portees!vars
  BY DEF P!Next, P!vars, P!Commander, P!Consigner, P!Servir, P!Abandonner, P!Enregistrer,
     P!Oublier, Portees!Next, Portees!vars, Portees!Commander, Portees!Consigner, Portees!Servir, Portees!Abandonner,
     Portees!Enregistrer, Portees!Oublier
<1>3. Portees!PlacesFinies
  BY RienCommandeAssumption, ConstantesAssumption, MemesEnsembles
     DEF P!Commandes, Portees!Commandes, Portees!PlacesFinies
<1>4. Portees!Init => Portees!TypeOK /\ Portees!Couvert
  BY <1>3, Portees!CouvertInit, Zenon
<1>5. Portees!TypeOK /\ Portees!Couvert /\ [Portees!Next]_Portees!vars => (Portees!TypeOK /\ Portees!Couvert)'
  BY <1>3, Portees!TypageStable, Portees!CouvertStable, Zenon
<1> QED BY <1>1, <1>2, <1>4, <1>5, PTL DEF PortionsPromises, P!Spec, Portees!Spec

------------------------------------------------------------------------------
(* Every step of the server is a step of Portions or leaves it unchanged. *)

historique == [g \in Gamelles |-> bd[g].historique]
commandes == [t \in Lieux |-> Commande(taches[t])]

LEMMA CommandeType ==
  ASSUME Typage, NEW t \in Lieux
  PROVE  /\ Commande(taches[t]) \in P!Commandes \cup {Rien}
         /\ Commande(taches[t]) # Rien <=>
              taches[t] # Rien /\ taches[t].etape \in {"distribution", "enregistrement"}
<1>1. taches[t] # Rien => taches[t].g \in Gamelles
  BY DEF Typage, TypeOK, Tache
<1> DEFINE b == taches[t].etape = "enregistrement" /\ ~taches[t].attend
           c == [g |-> taches[t].g, consignee |-> b]
<1>2. taches[t] # Rien => c \in P!Commandes /\ c # Rien
  <2>1. b \in BOOLEAN
    OBVIOUS
  <2> HIDE DEF b
  <2> QED BY <1>1, <2>1, RienCommandeAssumption DEF P!Commandes
<1>3. CASE taches[t] # Rien /\ taches[t].etape \in {"distribution", "enregistrement"}
  <2>1. Commande(taches[t]) = c
    BY <1>3 DEF Commande
  <2> HIDE DEF c
  <2> QED BY <1>2, <1>3, <2>1
<1>4. CASE ~(taches[t] # Rien /\ taches[t].etape \in {"distribution", "enregistrement"})
  BY <1>4 DEF Commande
<1> QED BY <1>3, <1>4

LEMMA CommandesApres ==
  ASSUME Typage, NEW t \in Lieux, NEW x \in Tache \cup {Rien}, Devenir(t, x)
  PROVE  commandes' = [commandes EXCEPT ![t] = Commande(x)]
<1>1. taches' = [taches EXCEPT ![t] = x] /\ taches \in [Lieux -> Tache \cup {Rien}]
  BY DEF Devenir, Typage, TypeOK
<1>2. commandes' = [u \in Lieux |-> Commande(taches'[u])]
  BY DEF commandes, Commande
<1>3. \A u \in Lieux : taches'[u] = IF u = t THEN x ELSE taches[u]
  BY <1>1
<1> QED BY <1>2, <1>3 DEF commandes

LEMMA HistoriqueInchange ==
  ASSUME UNCHANGED bd
  PROVE  historique' = historique
BY DEF historique

\* A step that changes neither what orders are in progress nor the histories.
LEMMA Begaie ==
  ASSUME commandes' = commandes, historique' = historique, servis' = servis
  PROVE  UNCHANGED P!vars
BY DEF P!vars, commandes, historique

LEMMA PortionsTache ==
  ASSUME Typage, BonDestinataire, NEW t \in Lieux, PasTache(t)
  PROVE  [P!Next]_P!vars
<1> DEFINE u == taches[t]
           k == Commande(u)
<1>1. commandes \in [Lieux -> P!Commandes \cup {Rien}] /\ commandes[t] = k
  BY CommandeType DEF commandes
<1>2. u # Rien => u \in Tache /\ u.g \in Gamelles
  BY DEF Typage, TypeOK, Tache
\* An order that is dropped, or a handler that is none.
<1>3. ASSUME NEW x \in Tache \cup {Rien}, Devenir(t, x), Commande(x) \in {Rien, k},
             UNCHANGED <<historique, servis>>
      PROVE  [P!Next]_P!vars
  <2>1. commandes' = [commandes EXCEPT ![t] = Commande(x)]
    BY <1>3, CommandesApres
  <2>2. CASE Commande(x) = k
    BY <1>1, <1>3, <2>1, <2>2, Begaie
  <2>3. CASE Commande(x) = Rien /\ k # Rien
    <3>1. P!Abandonner(t)
      BY <1>1, <1>3, <2>1, <2>3 DEF P!Abandonner, commandes, historique
    <3> QED BY <3>1 DEF P!Next
  <2> QED BY <1>3, <2>2, <2>3
\* An order that starts.
<1>4. ASSUME NEW x \in Tache, Devenir(t, x), x.etape = "distribution", k = Rien,
             UNCHANGED <<historique, servis>>
      PROVE  [P!Next]_P!vars
  <2>1. Commande(x) = [g |-> x.g, consignee |-> FALSE] /\ x.g \in Gamelles
    BY <1>4, RienTacheAssumption DEF Commande, Tache
  <2>2. commandes' = [commandes EXCEPT ![t] = [g |-> x.g, consignee |-> FALSE]]
    BY <1>4, <2>1, CommandesApres
  <2>3. P!Commander(t, x.g)
    BY <1>1, <1>4, <2>2 DEF P!Commander, commandes, historique
  <2> QED BY <2>1, <2>3 DEF P!Next
<1>5. CASE Lecture(t)
  <2>1. /\ u # Rien /\ u.attend /\ u.etape \in EtapesLecture
        /\ UNCHANGED <<historique, servis>>
    BY <1>5, HistoriqueInchange DEF Lecture
  <2>2. PICK ok \in BOOLEAN, lu \in SUBSET Repas : Executer(t, ok, lu)
    BY <1>5 DEF Lecture
  <2>3. PICK x \in Tache : Devenir(t, x) /\ x.g = u.g /\ x.etape = u.etape
    BY <2>1, <2>2, ExecuterChamps
  <2>4. Commande(x) = k
    BY <2>1, <2>3, RienTacheAssumption DEF Commande, EtapesLecture
  <2> QED BY <1>3, <2>1, <2>3, <2>4
<1>6. CASE Creer(t) \/ Ajouter(t) \/ Modifier(t) \/ Retirer(t)
  <2>1. u.g \in Gamelles /\ u.etape \in {"creation", "ajout", "maj", "retrait"}
    BY <1>6, EcritureChamps DEF Creer, Ajouter, Modifier, Retirer, Attend
  <2>2. historique' = historique /\ servis' = servis
    <3> USE <2>1 DEF Typage, TypeOK, Document, historique, memoire, appareils
    <3>1. CASE Creer(t)
      BY <3>1 DEF Creer
    <3>2. CASE Ajouter(t)
      BY <3>2 DEF Ajouter
    <3>3. CASE Modifier(t)
      BY <3>3 DEF Modifier
    <3>4. CASE Retirer(t)
      BY <3>4 DEF Retirer
    <3> QED BY <1>6, <3>1, <3>2, <3>3, <3>4
  <2>3. PICK x \in Tache : Devenir(t, x) /\ x.etape = u.etape
    BY <1>6, EcritureChamps
  <2>4. Commande(x) = Rien
    BY <2>1, <2>3 DEF Commande
  <2> QED BY <1>3, <2>2, <2>3, <2>4
<1>7. CASE Consigner(t)
  <2>1. /\ u \in Tache /\ u.g \in Gamelles /\ u.attend /\ u # Rien
        /\ u.etape \in {"eatNowEnregistre", "enregistrement"}
    BY <1>7, EcritureChamps DEF Consigner, Attend
  <2>2. PICK x \in Tache : /\ Devenir(t, x) /\ x.g = u.g /\ x.etape = u.etape
                          /\ ~x.attend
    BY <1>7, EcritureChamps
  <2>3. historique' = [historique EXCEPT ![u.g] = @ + 1] /\ servis' = servis
    BY <1>7, <2>1 DEF Consigner, Typage, TypeOK, Document, historique, memoire, appareils
  <2>4. commandes' = [commandes EXCEPT ![t] = Commande(x)]
    BY <2>2, CommandesApres
  <2>5. CASE u.etape = "eatNowEnregistre"
    <3>1. Commande(x) = Rien /\ k = Rien
      BY <2>2, <2>5 DEF Commande
    <3>2. commandes' = commandes
      BY <1>1, <2>4, <3>1
    <3>3. \E g \in Gamelles : P!Enregistrer(g)
      BY <2>1, <2>3, <3>2 DEF P!Enregistrer, commandes, historique
    <3> QED BY <3>3 DEF P!Next
  <2>6. CASE u.etape = "enregistrement"
    <3>1. /\ k = [g |-> u.g, consignee |-> FALSE]
          /\ Commande(x) = [g |-> u.g, consignee |-> TRUE]
      BY <2>1, <2>2, <2>6, RienTacheAssumption DEF Commande
    <3>2. k # Rien /\ k.g = u.g /\ ~k.consignee
      <4>1. k # Rien
        BY <2>1, <2>6, CommandeType
      <4> HIDE DEF k
      <4> QED BY <3>1, <4>1
    <3>3. P!Consigner(t)
      BY <1>1, <2>3, <2>4, <3>1, <3>2 DEF P!Consigner, commandes, historique
    <3> QED BY <3>3 DEF P!Next
  <2> QED BY <2>1, <2>5, <2>6
<1>8. CASE Enchainement(t)
  <2>1. PICK x \in Tache : /\ Devenir(t, x) /\ x.attend /\ x.g = u.g
                          /\ Suit(u, x.etape)
    BY <1>8 DEF Enchainement
  <2>2. u # Rien /\ UNCHANGED <<historique, servis>>
    BY <1>8, HistoriqueInchange DEF Enchainement
  <2>3. CASE x.etape = "distribution"
    <3>1. k = Rien
      BY <2>1, <2>3 DEF Commande, Suit
    <3> QED BY <1>4, <2>1, <2>2, <2>3, <3>1
  <2>4. CASE x.etape = "enregistrement"
    <3>1. Commande(x) = k
      BY <2>1, <2>2, <2>4, RienTacheAssumption DEF Commande, Suit
    <3> QED BY <1>3, <2>1, <2>2, <3>1
  <2>5. CASE x.etape \notin {"distribution", "enregistrement"}
    <3>1. Commande(x) = Rien
      BY <2>5 DEF Commande
    <3> QED BY <1>3, <2>1, <2>2, <3>1
  <2> QED BY <2>3, <2>4, <2>5
<1>9. CASE Fin(t)
  <2>1. Commande(Rien) = Rien
    BY DEF Commande
  <2> QED BY <1>3, <1>9, <2>1, HistoriqueInchange DEF Fin, Finir
<1>10. CASE Debut(t)
  <2>1. PICK x \in Tache : Devenir(t, x) /\ x.etape \in {"check", "distribution"}
    BY <1>10 DEF Debut
  <2>2. k = Rien /\ UNCHANGED <<historique, servis>>
    BY <1>10, HistoriqueInchange DEF Debut, Commande
  <2>3. CASE x.etape = "check"
    <3>1. Commande(x) = Rien
      BY <2>3 DEF Commande
    <3> QED BY <1>3, <2>1, <2>2, <3>1
  <2>4. CASE x.etape = "distribution"
    BY <1>4, <2>1, <2>2, <2>4
  <2> QED BY <2>1, <2>3, <2>4
<1>11. CASE SuiteEnregistrement(t)
  <2>1. /\ u # Rien /\ u.etape = "enregistrement" /\ ~u.attend
        /\ historique' = historique
    BY <1>11, EnregistrementChamps, HistoriqueInchange
  <2>2. PICK x \in Tache : Devenir(t, x) /\ x.etape = "nextMeal"
    BY <1>11, EnregistrementChamps
  <2>3. k = [g |-> u.g, consignee |-> TRUE] /\ Commande(x) = Rien
    BY <2>1, <2>2 DEF Commande
  <2>4. CASE Joint(u.ws)
    <3>1. connexions[u.ws].pair = u.g
      BY <2>1 DEF BonDestinataire, TacheBien, EtapesReliees
    <3>2. servis' = [servis EXCEPT ![u.g] = @ + 1]
      BY <1>11, <2>4, <3>1 DEF SuiteEnregistrement, EnvoyerEatNow
    <3>3. k # Rien /\ k.g = u.g /\ k.consignee
      <4>1. k # Rien
        BY <2>1, CommandeType
      <4> HIDE DEF k
      <4> QED BY <2>3, <4>1
    <3>4. commandes' = [commandes EXCEPT ![t] = Rien]
      BY <2>2, <2>3, CommandesApres
    <3>5. P!Servir(t)
      BY <1>1, <2>1, <3>2, <3>3, <3>4 DEF P!Servir, commandes, historique
    <3> QED BY <3>5 DEF P!Next
  <2>5. CASE ~Joint(u.ws)
    <3>1. servis' = servis
      BY <1>11, <2>5 DEF SuiteEnregistrement, EnvoyerEatNow
    <3> QED BY <1>3, <2>1, <2>2, <2>3, <3>1
  <2> QED BY <2>4, <2>5
<1> QED BY <1>5, <1>6, <1>7, <1>8, <1>9, <1>10, <1>11 DEF PasTache

LEMMA PortionsPas ==
  ASSUME Typage, BonDestinataire, [Next]_vars
  PROVE  [P!Next]_P!vars
<1>1. CASE Immobile
  BY <1>1 DEF Immobile, P!vars
<1>2. CASE Oubli
  <2>1. P!Oublier
    BY <1>2 DEF Oubli, ToutRien, P!Oublier, Commande
  <2> QED BY <2>1 DEF P!Next
<1> QED BY <1>1, <1>2, Pas, PortionsTache

LEMMA PortionsInit == Init => P!Init
<1> SUFFICES ASSUME Init PROVE P!Init
  OBVIOUS
<1>1. Typage
  BY InitType
<1>2. [g \in Gamelles |-> bd[g].historique] \in [Gamelles -> Nat]
  BY <1>1 DEF Typage, TypeOK, Document
<1>3. [t \in Lieux |-> Commande(taches[t])] = [t \in Lieux |-> Rien]
  BY DEF Init, ToutRien, Commande
<1> QED BY <1>2, <1>3 DEF P!Init, Init

\* The server implements Portions: an order is recorded once, then sent once to
\* the bowl it is for, or given up, whatever handlers, failures and kills do.
THEOREM PortionsTenues == Spec => PortionsPromises
BY TypageToujours, Destinataires, PortionsPas, PortionsInit, PTL
   DEF Spec, PortionsPromises, P!Spec

LEMMA CouvertureSuffit ==
  ASSUME Typage, Portees!Couvert
  PROVE  HistoriqueSuffisant
<1> SUFFICES ASSUME NEW g \in Gamelles
             PROVE  servis[g] + Cardinality(EnregistreNonServi(g)) <= bd[g].historique
  BY DEF HistoriqueSuffisant
<1>1. Portees!Consignees(g) = EnregistreNonServi(g)
  <2>1. \A t \in Lieux :
          commandes[t] # Rien /\ commandes[t].g = g /\ commandes[t].consignee
          <=> t \in EnregistreNonServi(g)
    <3> TAKE t \in Lieux
    <3>1. commandes[t] = Commande(taches[t])
      BY DEF commandes
    <3>2. CASE Commande(taches[t]) = Rien
      BY <3>1, <3>2, CommandeType DEF EnregistreNonServi, EnCours
    <3>3. CASE Commande(taches[t]) # Rien
      <4>1. taches[t] # Rien /\ taches[t].etape \in {"distribution", "enregistrement"}
        BY <3>3, CommandeType
      <4>2. /\ Commande(taches[t]).g = taches[t].g
            /\ Commande(taches[t]).consignee
                 <=> taches[t].etape = "enregistrement" /\ ~taches[t].attend
        BY <4>1 DEF Commande
      <4> QED BY <3>1, <3>3, <4>1, <4>2 DEF EnregistreNonServi, EnCours
    <3> QED BY <3>2, <3>3
  <2>2. Portees!Consignees(g)
          = {t \in Lieux : commandes[t] # Rien /\ commandes[t].g = g /\ commandes[t].consignee}
    BY DEF Portees!Consignees, commandes
  <2> QED BY <2>1, <2>2 DEF EnregistreNonServi, EnCours
<1>2. servis[g] + Portees!Cardinality(Portees!Consignees(g)) <= bd[g].historique
  BY DEF Portees!Couvert
<1>3. Portees!Cardinality(Portees!Consignees(g)) = Cardinality(EnregistreNonServi(g))
  BY <1>1, MemesEnsembles, Zenon
<1> QED BY <1>2, <1>3

\* No device is made to serve a portion that the history of its bowl lacks:
\* what Portions guarantees, read through the refinement.
THEOREM HistoriqueToujoursSuffisant == Spec => []HistoriqueSuffisant
BY TypageToujours, PortionsTenues, Couverture, CouvertureSuffit, PTL
=============================================================================
