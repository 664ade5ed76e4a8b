-------------------------- MODULE ServeurSequentiel -------------------------
(***************************************************************************)
(* Proofs of what holds when one message is handled at a time (UnALaFois): *)
(* the numbers of the meals, the sockets of the timers and the timers      *)
(* against the meals.  What a request has read is then still what the      *)
(* database holds, since the only other handlers are those of the timers,  *)
(* and they touch neither the meals nor the documents.  The invariants     *)
(* come one upon the other: Numeros; Eteint and Liens; Accord, which says  *)
(* what a request in progress still owes to the timers.  As in             *)
(* ServeurPreuves, only the ten kinds of steps of Pas have to be looked at.*)
(***************************************************************************)
EXTENDS ServeurPreuves

\* An array of meals in the order of their numbers, no two of them alike.
Ordonnes(R) ==
  /\ \A r, s \in R : r.rang < s.rang <=> r.id < s.id
  /\ \A r, s \in R : r.id = s.id => r = s

\* Databases a server that handles one message at a time may have left.
BasesNumerotees ==
  \A base \in BasesInitiales : \A g \in Gamelles :
    base[g].docs <= 1 /\ Ordonnes(base[g].repas)

------------------------------------------------------------------------------
(* The commands on an array keep its numbers in order. *)

LEMMA DernierMaximal ==
  ASSUME NEW R \in SUBSET Repas, IsFiniteSet(R), R # {}
  PROVE  Dernier(R) \in R /\ \A x \in R : x.rang <= Dernier(R).rang
<1> DEFINE T == {r.rang : r \in R}
<1>1. T \in SUBSET Nat /\ T # {}
  BY DEF Repas
<1>2. IsFiniteSet(T)
  <2> DEFINE rangs == [r \in R |-> r.rang]
  <2>1. T = {rangs[r] : r \in R}
    OBVIOUS
  <2>2. IsFiniteSet({rangs[r] : r \in R})
    <3> HIDE DEF rangs
    <3> QED BY ImageFinie
  <2> QED BY <2>1, <2>2, Zenon
<1>3. PICK n \in T : \A m \in T : m <= n
  <2> HIDE DEF T
  <2> QED BY <1>1, <1>2, MaxFini
<1>4. PICK r \in R : \A x \in R : x.rang <= r.rang
  BY <1>3
<1> QED BY <1>4 DEF Dernier

\* NouvelId is greater than every number of the array.
LEMMA NouvelIdNouveau ==
  ASSUME NEW R \in SUBSET Repas, IsFiniteSet(R), Ordonnes(R)
  PROVE  NouvelId(R) \in Nat /\ \A r \in R : r.id < NouvelId(R)
<1>1. CASE R = {}
  BY <1>1 DEF NouvelId
<1>2. CASE R # {}
  <2> DEFINE d == Dernier(R)
  <2>1. d \in R /\ \A x \in R : x.rang <= d.rang
    BY <1>2, DernierMaximal
  <2>2. NouvelId(R) = d.id + 1
    BY <1>2 DEF NouvelId
  <2> HIDE DEF d
  <2>3. d.id \in Nat
    BY <2>1 DEF Repas
  <2>4. ASSUME NEW r \in R PROVE r.id <= d.id
    <3>1. r.rang \in Nat /\ d.rang \in Nat /\ r.id \in Nat /\ r.rang <= d.rang
      BY <2>1 DEF Repas
    <3>2. d.rang < r.rang <=> d.id < r.id
      BY <2>1 DEF Ordonnes
    <3> QED BY <2>3, <3>1, <3>2
  <2>5. \A r \in R : r.id \in Nat
    BY DEF Repas
  <2> QED BY <2>2, <2>3, <2>4, <2>5
<1> QED BY <1>1, <1>2

LEMMA OrdonnesAvec ==
  ASSUME NEW R \in SUBSET Repas, IsFiniteSet(R), Ordonnes(R),
         NEW heure, NEW poids
  PROVE  Ordonnes(Avec(R, NouvelId(R), heure, poids))
<1> DEFINE rang == IF R = {} THEN 1 ELSE Dernier(R).rang + 1
           a == [id |-> NouvelId(R), rang |-> rang, heure |-> heure, poids |-> poids]
<1>1. NouvelId(R) \in Nat /\ \A r \in R : r.id < NouvelId(R)
  BY NouvelIdNouveau
<1>2. rang \in Nat /\ \A r \in R : r.rang < rang
  <2>1. CASE R = {}
    BY <2>1
  <2>2. CASE R # {}
    <3> DEFINE d == Dernier(R)
    <3>1. d \in R /\ \A x \in R : x.rang <= d.rang
      BY <2>2, DernierMaximal
    <3>2. rang = d.rang + 1
      BY <2>2
    <3>3. \A x \in R : x.rang \in Nat
      BY DEF Repas
    <3> HIDE DEF d, rang
    <3> QED BY <3>1, <3>2, <3>3
  <2> QED BY <2>1, <2>2
<1>3. Avec(R, NouvelId(R), heure, poids) = R \cup {a}
  BY DEF Avec
<1>4. a.id = NouvelId(R) /\ a.rang = rang
  OBVIOUS
<1>5. \A r \in R : r.id \in Nat /\ r.rang \in Nat
  BY DEF Repas
<1> HIDE DEF a, rang
<1>6. \A r \in R : r.id < a.id /\ r.rang < a.rang /\ ~(a.id < r.id) /\ ~(a.rang < r.rang)
                   /\ r.id # a.id
  BY <1>1, <1>2, <1>4, <1>5
<1>7. ~(a.id < a.id) /\ ~(a.rang < a.rang)
  BY <1>1, <1>2, <1>4
<1>8. ASSUME NEW r \in R \cup {a}, NEW s \in R \cup {a}
      PROVE  (r.rang < s.rang <=> r.id < s.id) /\ (r.id = s.id => r = s)
  <2>1. CASE r \in R /\ s \in R
    BY <2>1 DEF Ordonnes
  <2>2. CASE r \in R /\ s = a
    BY <1>6, <2>2
  <2>3. CASE r = a /\ s \in R
    BY <1>6, <2>3
  <2>4. CASE r = a /\ s = a
    BY <1>7, <2>4
  <2> QED BY <2>1, <2>2, <2>3, <2>4
<1> QED BY <1>3, <1>8 DEF Ordonnes

LEMMA OrdonnesModifies ==
  ASSUME NEW R \in SUBSET Repas, Ordonnes(R), NEW id, NEW heure, NEW poids
  PROVE  Ordonnes(Modifies(R, id, heure, poids))
<1> DEFINE f(r) == IF r.id = id /\ EstPremier(r, R)
                     THEN [r EXCEPT !.heure = heure, !.poids = poids] ELSE r
<1>1. Modifies(R, id, heure, poids) = {f(r) : r \in R}
  BY DEF Modifies
<1>2. \A r \in R : f(r).id = r.id /\ f(r).rang = r.rang
  BY DEF Repas
<1> HIDE DEF f
<1>3. ASSUME NEW x \in {f(r) : r \in R}, NEW y \in {f(r) : r \in R}
      PROVE  (x.rang < y.rang <=> x.id < y.id) /\ (x.id = y.id => x = y)
  <2>1. PICK r \in R : x = f(r)
    OBVIOUS
  <2>2. PICK s \in R : y = f(s)
    OBVIOUS
  <2>3. x.id = r.id /\ x.rang = r.rang /\ y.id = s.id /\ y.rang = s.rang
    BY <1>2, <2>1, <2>2
  <2>4. (r.rang < s.rang <=> r.id < s.id) /\ (r.id = s.id => r = s)
    BY DEF Ordonnes
  <2> QED BY <2>1, <2>2, <2>3, <2>4
<1> QED BY <1>1, <1>3 DEF Ordonnes

LEMMA OrdonnesSans ==
  ASSUME NEW R, Ordonnes(R), NEW id
  PROVE  Ordonnes(Sans(R, id))
BY DEF Ordonnes, Sans

------------------------------------------------------------------------------
(* The invariant: at most one request is being handled, and what it has read *)
(* is what the database still holds when it writes.                          *)

SeuleRequete ==
  \A t, u \in Requetes : taches[t] # Rien /\ taches[u] # Rien => t = u

LuAJour(x) ==
  /\ CreationEngagee(x) => bd[x.g].docs = 0
  /\ x.etape = "relecture" /\ ~x.attend => x.lu = bd[x.g].repas
  /\ x.etape = "ajout" /\ x.attend => x.repasId = NouvelId(bd[x.g].repas)

Numerotes == \A g \in Gamelles : bd[g].docs <= 1 /\ Ordonnes(bd[g].repas)

Numeros ==
  /\ Typage /\ MinuteriesBien /\ SeuleRequete /\ Numerotes
  /\ \A t \in Requetes : taches[t] # Rien => LuAJour(taches[t])

\* A step is that of one handler; the other requests are idle if it is a request.
LEMMA UnPas ==
  ASSUME Typage, NEW t \in Lieux, PasTache(t)
  PROVE  \E x \in Tache \cup {Rien} : Devenir(t, x)
<1>1. CASE Lecture(t)
  <2>1. PICK ok \in BOOLEAN, lu \in SUBSET Repas : Executer(t, ok, lu)
    BY <1>1 DEF Lecture
  <2>2. taches[t] # Rien
    BY <1>1 DEF Lecture
  <2> QED BY <2>1, <2>2, ExecuterChamps
<1>2. CASE Creer(t) \/ Ajouter(t) \/ Modifier(t) \/ Retirer(t) \/ Consigner(t)
  BY <1>2, EcritureChamps
<1>3. CASE Enchainement(t) \/ Fin(t) \/ Debut(t)
  BY <1>3 DEF Enchainement, Fin, Finir, Debut
<1>4. CASE SuiteEnregistrement(t)
  BY <1>4, EnregistrementChamps
<1> QED BY <1>1, <1>2, <1>3, <1>4 DEF PasTache

LEMMA AutresLibres ==
  ASSUME UnALaFois, Typage, SeuleRequete, NEW t \in Requetes, PasTache(t)
  PROVE  \A u \in Requetes \ {t} : taches'[u] = Rien
<1>1. t \in Lieux /\ Requetes \subseteq Lieux
  BY DEF Lieux
<1>2. PICK x : Devenir(t, x)
  BY <1>1, UnPas
<1>3. taches[t] # Rien \/ taches = ToutRien
  BY <1>1 DEF PasTache, Lecture, Creer, Ajouter, Modifier, Retirer, Consigner, Attend,
     Enchainement, Fin, Debut, SuiteEnregistrement, Pret
<1>4. \A u \in Requetes \ {t} : taches[u] = Rien
  BY <1>1, <1>3 DEF SeuleRequete, ToutRien
<1> QED BY <1>1, <1>2, <1>4 DEF Devenir, Typage, TypeOK

\* A timer's handler touches neither the documents, nor the meals, nor a request.
LEMMA MinuterieInerte ==
  ASSUME Numeros, NEW t \in Minuteries, PasTache(t)
  PROVE  /\ \A u \in Requetes : taches'[u] = taches[u]
         /\ \A g \in Gamelles : bd'[g].docs = bd[g].docs /\ bd'[g].repas = bd[g].repas
<1>1. t \in Lieux /\ Requetes \subseteq Lieux /\ t \notin Requetes /\ Typage
  BY ConstantesAssumption DEF Lieux, Numeros
<1>2. PICK x : Devenir(t, x)
  BY <1>1, UnPas
<1>3. \A u \in Requetes : taches'[u] = taches[u]
  BY <1>1, <1>2 DEF Devenir, Typage, TypeOK
<1>4. taches[t] # Rien => taches[t].etape \in EtapesMinuterie
  BY DEF Numeros, MinuteriesBien
<1>5. ~(Creer(t) \/ Ajouter(t) \/ Modifier(t) \/ Retirer(t))
  BY <1>4 DEF Creer, Ajouter, Modifier, Retirer, Attend, EtapesMinuterie
<1>6. CASE Consigner(t)
  <2>1. taches[t].g \in Gamelles
    BY <1>1, <1>6, EcritureChamps
  <2>2. bd \in [Gamelles -> Document]
    BY <1>1 DEF Typage, TypeOK
  <2>3. bd' = [bd EXCEPT ![taches[t].g].historique = @ + 1]
    BY <1>6 DEF Consigner
  <2>4. \A g \in Gamelles : bd'[g].docs = bd[g].docs /\ bd'[g].repas = bd[g].repas
    BY <2>1, <2>2, <2>3 DEF Document
  <2> QED BY <1>3, <2>4
<1>7. CASE UNCHANGED bd
  BY <1>3, <1>7
<1>8. Consigner(t) \/ UNCHANGED bd
  BY <1>1, <1>5, EnregistrementChamps DEF PasTache, Lecture, Enchainement, Fin, Debut
<1> QED BY <1>6, <1>7, <1>8

\* The step of the one request: what it writes, it chose on what is still there.
LEMMA RequeteSuit ==
  ASSUME Numeros, Typage', NEW t \in Requetes, PasTache(t)
  PROVE  Numerotes' /\ (taches'[t] # Rien => LuAJour(taches[t])')
<1> DEFINE Bien(x) ==
             /\ CreationEngagee(x) => bd'[x.g].docs = 0
             /\ x.etape = "relecture" /\ ~x.attend => x.lu = bd'[x.g].repas
             /\ x.etape = "ajout" /\ x.attend => x.repasId = NouvelId(bd'[x.g].repas)
<1>1. t \in Lieux /\ Typage /\ Numerotes /\ bd \in [Gamelles -> Document]
  BY DEF Lieux, Numeros, Typage, TypeOK
<1>2. ASSUME NEW x \in Tache, Devenir(t, x), Bien(x) PROVE LuAJour(taches[t])'
  <2>1. taches'[t] = x
    BY <1>1, <1>2 DEF Devenir, Typage, TypeOK
  <2> QED BY <1>2, <2>1 DEF LuAJour, CreationEngagee
<1>3. UNCHANGED bd => Numerotes'
  BY <1>1 DEF Numerotes
<1>4. taches[t] # Rien => LuAJour(taches[t]) /\ taches[t] \in Tache /\ taches[t].g \in Gamelles
  BY <1>1 DEF Numeros, Typage, TypeOK, Tache
<1>5. CASE Lecture(t)
  <2>1. /\ taches[t] # Rien /\ taches[t].attend /\ UNCHANGED bd
    BY <1>5 DEF Lecture
  <2>2. PICK ok \in BOOLEAN, lu \in SUBSET Repas :
               /\ Executer(t, ok, lu)
               /\ taches[t].etape = "check" => ok = (bd[taches[t].g].docs > 0)
               /\ taches[t].etape = "relecture" => lu = bd[taches[t].g].repas
    BY <1>5 DEF Lecture
  <2>3. PICK x \in Tache : /\ Devenir(t, x) /\ x.g = taches[t].g
                           /\ x.etape = taches[t].etape /\ ~x.attend
                           /\ x.ok = ok /\ x.lu = lu
    BY <1>1, <2>1, <2>2, ExecuterChamps
  <2>4. CreationEngagee(x) => bd'[x.g].docs = 0
    <3> SUFFICES ASSUME CreationEngagee(x) PROVE bd[x.g].docs = 0
      BY <2>1
    <3>1. ~(bd[x.g].docs > 0)
      BY <2>2, <2>3 DEF CreationEngagee
    <3>2. bd[x.g].docs \in Nat
      BY <1>1, <1>4, <2>1, <2>3 DEF Document
    <3> QED BY <3>1, <3>2
  <2>5. Bien(x)
    BY <2>1, <2>2, <2>3, <2>4
  <2> QED BY <1>2, <1>3, <2>1, <2>3, <2>5
<1>6. CASE Creer(t) \/ Ajouter(t) \/ Modifier(t) \/ Retirer(t) \/ Consigner(t)
  <2> DEFINE u == taches[t]
             h == taches[t].g
  <2>1. u # Rien /\ u.attend /\ u \in Tache /\ h \in Gamelles
    BY <1>1, <1>6, EcritureChamps DEF Creer, Ajouter, Modifier, Retirer, Consigner, Attend
  <2>2. PICK x \in Tache : /\ Devenir(t, x) /\ x.g = h /\ ~x.attend
                           /\ x.etape = u.etape
    BY <1>1, <1>6, EcritureChamps
  <2>3. Bien(x)
    <3>1. x.etape \notin {"check", "relecture"}
      BY <1>1, <1>6, <2>2, EcritureChamps
    <3> QED BY <2>2, <3>1 DEF CreationEngagee
  <2>4. /\ bd[h] \in Document /\ IsFiniteSet(bd[h].repas) /\ Ordonnes(bd[h].repas)
        /\ bd[h].docs \in Nat /\ bd[h].docs <= 1 /\ bd[h].repas \in SUBSET Repas
    BY <1>1, <2>1 DEF Numerotes, Typage, EnsemblesFinis, Document
  <2>5. ASSUME NEW g \in Gamelles
        PROVE  bd'[g].docs <= 1 /\ Ordonnes(bd'[g].repas)
    <3>1. CASE g # h
      <4>1. bd'[g] = bd[g]
        BY <1>1, <1>6, <3>1 DEF Creer, Ajouter, Modifier, Retirer, Consigner
      <4> QED BY <1>1, <4>1 DEF Numerotes
    <3>2. CASE g = h
      <4> USE <1>1, <2>1, <2>4, <3>2 DEF Document
      <4>1. CASE Creer(t)
        <5>1. bd[h].docs = 0
          BY <1>4, <4>1 DEF LuAJour, CreationEngagee, Creer, Attend
        <5>2. bd'[h].docs = bd[h].docs + 1 /\ bd'[h].repas = bd[h].repas
          BY <4>1 DEF Creer
        <5> QED BY <5>1, <5>2
      <4>2. CASE Ajouter(t)
        <5>1. u.repasId = NouvelId(bd[h].repas)
          BY <1>4, <4>2 DEF LuAJour, Ajouter, Attend
        <5>2. /\ bd'[h].docs = bd[h].docs
              /\ bd'[h].repas = Avec(bd[h].repas, u.repasId, u.heure, u.poids)
          BY <4>2 DEF Ajouter
        <5> QED BY <5>1, <5>2, OrdonnesAvec
      <4>3. CASE Modifier(t)
        <5>1. /\ bd'[h].docs = bd[h].docs
              /\ bd'[h].repas = Modifies(bd[h].repas, u.repasId, u.heure, u.poids)
          BY <4>3 DEF Modifier
        <5> QED BY <5>1, OrdonnesModifies
      <4>4. CASE Retirer(t)
        <5>1. /\ bd'[h].docs = bd[h].docs
              /\ bd'[h].repas = Sans(bd[h].repas, u.repasId)
          BY <4>4 DEF Retirer
        <5> QED BY <5>1, OrdonnesSans
      <4>5. CASE Consigner(t)
        <5>1. bd'[h].docs = bd[h].docs /\ bd'[h].repas = bd[h].repas
          BY <4>5 DEF Consigner
        <5> QED BY <5>1
      <4> QED BY <1>6, <4>1, <4>2, <4>3, <4>4, <4>5
    <3> QED BY <3>1, <3>2
  <2> QED BY <1>2, <2>2, <2>3, <2>5 DEF Numerotes
<1>7. CASE Enchainement(t)
  <2>1. PICK x \in Tache : /\ Devenir(t, x)
                           /\ x.attend /\ x.g = taches[t].g /\ Suit(taches[t], x.etape)
                           /\ x.etape = "ajout" => x.repasId = NouvelId(taches[t].lu)
    BY <1>7 DEF Enchainement
  <2>2. taches[t] # Rien /\ UNCHANGED bd
    BY <1>7 DEF Enchainement
  <2>3. CreationEngagee(x) => bd'[x.g].docs = 0
    BY <1>4, <2>1, <2>2 DEF LuAJour, CreationEngagee, Suit
  <2>4. ASSUME x.etape = "ajout" PROVE x.repasId = NouvelId(bd'[x.g].repas)
    <3>1. taches[t].etape = "relecture" /\ ~taches[t].attend
      BY <2>1, <2>4 DEF Suit
    <3>2. taches[t].lu = bd[taches[t].g].repas
      BY <1>4, <2>2, <3>1 DEF LuAJour
    <3> QED BY <2>1, <2>2, <2>4, <3>2
  <2>5. Bien(x)
    BY <2>1, <2>3, <2>4
  <2>6. Devenir(t, x) /\ UNCHANGED bd
    BY <2>1, <2>2
  <2> HIDE DEF Bien
  <2> QED BY <1>2, <1>3, <2>5, <2>6
<1>8. CASE Fin(t)
  BY <1>1, <1>3, <1>8 DEF Fin, Finir, Devenir, Typage, TypeOK
<1>9. CASE Debut(t)
  <2>1. PICK x \in Tache : Devenir(t, x) /\ x.attend /\ x.etape = "check"
    BY <1>9, ConstantesAssumption DEF Debut
  <2>2. UNCHANGED bd
    BY <1>9 DEF Debut
  <2>3. Bien(x)
    BY <2>1 DEF CreationEngagee
  <2> QED BY <1>2, <1>3, <2>1, <2>2, <2>3
<1>10. CASE SuiteEnregistrement(t)
  <2>1. PICK x \in Tache : Devenir(t, x) /\ x.attend /\ x.etape = "nextMeal"
    BY <1>1, <1>10, EnregistrementChamps
  <2>2. UNCHANGED bd
    BY <1>1, <1>10, EnregistrementChamps
  <2>3. Bien(x)
    BY <2>1 DEF CreationEngagee
  <2> QED BY <1>2, <1>3, <2>1, <2>2, <2>3
<1> QED BY <1>5, <1>6, <1>7, <1>8, <1>9, <1>10 DEF PasTache

------------------------------------------------------------------------------
LEMMA NumerosInit == BasesNumerotees /\ Init => Numeros
<1> SUFFICES ASSUME BasesNumerotees, Init PROVE Numeros
  OBVIOUS
<1>1. Typage /\ \A t \in Lieux : taches[t] = Rien
  BY InitType DEF Init, ToutRien
<1>2. Requetes \subseteq Lieux /\ Minuteries \subseteq Lieux
  BY DEF Lieux
<1>3. Numerotes
  BY DEF Init, BasesNumerotees, Numerotes
<1> QED BY <1>1, <1>2, <1>3 DEF Numeros, MinuteriesBien, SeuleRequete

LEMMA NumerosStables == UnALaFois /\ Numeros /\ [Next]_vars => Numeros'
<1> SUFFICES ASSUME UnALaFois, Numeros, [Next]_vars PROVE Numeros'
  OBVIOUS
<1>1. Typage /\ Typage' /\ MinuteriesBien /\ SeuleRequete
  BY TypageStable DEF Numeros
<1>2. CASE Immobile
  BY <1>1, <1>2 DEF Numeros, Immobile, MinuteriesBien, SeuleRequete, Numerotes, LuAJour,
     CreationEngagee
<1>3. CASE Oubli
  <2>1. \A t \in Lieux : taches'[t] = Rien
    BY <1>3 DEF Oubli, ToutRien
  <2>2. Numerotes'
    BY <1>3 DEF Oubli, Numeros, Numerotes
  <2> QED BY <1>1, <2>1, <2>2 DEF Numeros, MinuteriesBien, SeuleRequete, Lieux
<1>4. ASSUME NEW t \in Minuteries, PasTache(t) PROVE Numeros'
  <2>1. MinuteriesBien'
    BY <1>1, <1>4, MinuteriesStable DEF Lieux
  <2>2. /\ \A u \in Requetes : taches'[u] = taches[u]
        /\ \A g \in Gamelles : bd'[g].docs = bd[g].docs /\ bd'[g].repas = bd[g].repas
    BY <1>4, MinuterieInerte
  <2>3. SeuleRequete' /\ Numerotes'
    BY <2>2 DEF Numeros, SeuleRequete, Numerotes
  <2>4. ASSUME NEW u \in Requetes, taches'[u] # Rien PROVE LuAJour(taches[u])'
    <3>1. taches'[u] = taches[u] /\ taches[u] \in Tache /\ LuAJour(taches[u])
      BY <1>1, <2>2, <2>4 DEF Numeros, Typage, TypeOK, Lieux
    <3>2. taches[u].g \in Gamelles
      BY <3>1 DEF Tache
    <3> QED BY <2>2, <3>1, <3>2 DEF LuAJour, CreationEngagee
  <2> QED BY <1>1, <2>1, <2>3, <2>4 DEF Numeros
<1>5. ASSUME NEW t \in Requetes, PasTache(t) PROVE Numeros'
  <2>1. MinuteriesBien'
    BY <1>1, <1>5, MinuteriesStable DEF Lieux
  <2>2. \A u \in Requetes \ {t} : taches'[u] = Rien
    BY <1>1, <1>5, AutresLibres
  <2>3. Numerotes' /\ (taches'[t] # Rien => LuAJour(taches[t])')
    BY <1>1, <1>5, RequeteSuit
  <2>4. SeuleRequete'
    BY <2>2 DEF SeuleRequete
  <2>5. \A u \in Requetes : taches'[u] # Rien => LuAJour(taches[u])'
    BY <2>2, <2>3
  <2> QED BY <1>1, <2>1, <2>3, <2>4, <2>5 DEF Numeros
<1> QED BY <1>1, <1>2, <1>3, <1>4, <1>5, Pas DEF Lieux

\* Whatever the number of bowls, sockets and timers, and with calls to the
\* database that fail and a process that is killed at any step: when a message
\* waits for the handler before it, a bowl has one document at most, and its
\* meals have different numbers, in the order of the array.
THEOREM NumerosToujoursUniques ==
  ASSUME UnALaFois, BasesNumerotees
  PROVE  Spec => []NumerosUniques
<1>1. Init => Numeros
  BY NumerosInit
<1>2. Numeros /\ [Next]_vars => Numeros'
  BY NumerosStables
<1>3. Numeros => NumerosUniques
  BY DEF Numeros, Numerotes, Ordonnes, NumerosUniques
<1> QED BY <1>1, <1>2, <1>3, PTL DEF Spec

------------------------------------------------------------------------------
(* The memory of the process.  Until restartServer is done nobody is served  *)
(* (ConnexionPrecoce is FALSE) and there is nothing in it.                   *)

Eteint ==
  serveur # "pret" =>
    /\ \A g \in Gamelles : crontabs[g] = {} /\ clients[g] = Rien
    /\ \A w \in Connexions : ~connexions[w].ouverte
    /\ \A t \in Lieux : taches[t] = Rien

\* A device has one open socket at most; if it has spoken it is the registered
\* one, and so is the one a request goes on with; every timer has it.
Liens ==
  /\ \A v, w \in Connexions :
       /\ connexions[v].ouverte /\ connexions[w].ouverte
       /\ connexions[v].pair # Appli /\ connexions[v].pair = connexions[w].pair
       => v = w
  /\ \A w \in Connexions :
       connexions[w].ouverte /\ ~connexions[w].premier /\ connexions[w].pair # Appli
       => clients[connexions[w].pair] = w
  /\ \A t \in Requetes :
       taches[t] # Rien /\ connexions[taches[t].ws].pair # Appli
       => taches[t].ws = clients[taches[t].g]
  /\ \A g \in Gamelles : \A c \in crontabs[g] : c.ws = clients[g]

\* What a step of a handler leaves alone.
LEMMA TraitementReseau ==
  ASSUME NEW t \in Lieux, Base(t) \/ Suite(t) \/ Echec(t), ~Planter
  PROVE  /\ taches[t] # Rien
         /\ UNCHANGED <<clients, connexions, serveur, photo, maintenant>>
<1> USE DEF memoire, sansTaches, reseau, processus, horloge, appareils
<1>1. CASE Base(t)
  BY <1>1 DEF Base, Trouver, TrouverRepas, Creer, Ajouter, Modifier, Retirer,
     Consigner, Attend
<1>2. CASE Suite(t)
  <2>1. taches[t] # Rien
    BY <1>2 DEF Suite, SuiteCheck, SuiteCreation, SuiteLecture, SuiteAvant,
       SuiteRelecture, SuiteAjout, SuiteMaj, SuiteRetrait, SuiteVerif, SuiteApres,
       SuiteNextMeal, SuiteEatNow, SuiteEatNowEnregistre, SuiteDistribution,
       SuiteEnregistrement, Pret
  <2>2. CASE \/ SuiteCheck(t) \/ SuiteCreation(t) \/ SuiteLecture(t) \/ SuiteAvant(t)
             \/ SuiteRelecture(t) \/ SuiteAjout(t)
    BY <2>1, <2>2 DEF SuiteCheck, SuiteCreation, SuiteLecture, SuiteAvant,
       SuiteRelecture, SuiteAjout
  <2>3. CASE SuiteMaj(t) \/ SuiteRetrait(t) \/ SuiteVerif(t) \/ SuiteApres(t)
    BY <2>1, <2>3 DEF SuiteMaj, SuiteRetrait, SuiteVerif, SuiteApres
  <2>4. CASE \/ SuiteNextMeal(t) \/ SuiteEatNow(t) \/ SuiteEatNowEnregistre(t)
             \/ SuiteDistribution(t) \/ SuiteEnregistrement(t)
    BY <2>1, <2>4 DEF SuiteNextMeal, SuiteEatNow, SuiteEatNowEnregistre,
       SuiteDistribution, SuiteEnregistrement
  <2> QED BY <1>2, <2>2, <2>3, <2>4 DEF Suite
<1>3. CASE Echec(t)
  BY <1>3, Zenon DEF Echec
<1> QED BY <1>1, <1>2, <1>3

\* What a handler goes on with: from x to y, which asks for e.
Vers(x, y, e) ==
  /\ y.g = x.g /\ y.op = x.op /\ y.ws \in {x.ws, clients[x.g]} /\ e # "check"
  /\ e \in {"creation", "avant", "relecture", "ajout", "maj"} => y.heure = x.heure
  /\ e = "creation" => x.etape = "check"
  /\ e = "requestData" => x.op = "requestData"
  /\ e = "avant" => /\ x.etape \in {"check", "creation"}
                    /\ x.op \notin {"nextMeal", "requestData", "history", "eatNow"}
  /\ e \in {"relecture", "maj", "retrait"} => x.etape = "avant"
  /\ e \in {"relecture", "maj"} => x.op # "deleteMeal"
  /\ e = "ajout" => x.etape = "relecture" /\ y.repasId = lastId'
  /\ e = "verif" => x.etape = "retrait" /\ y.repasId = x.repasId
  /\ e = "apres" => x.etape \in {"ajout", "maj", "verif"}
Relais(x, y) == y.attend /\ Vers(x, y, y.etape)

LEMMA RelaisAppel ==
  ASSUME NEW x \in Tache, NEW y \in Tache, NEW e \in Etapes, Vers(x, y, e)
  PROVE  /\ Appel(y, e) \in Tache /\ Relais(x, Appel(y, e))
         /\ e \in {"apres", "nextMeal"} =>
              DernierAppel(y, e) \in Tache /\ Relais(x, DernierAppel(y, e))
<1> DEFINE a == Appel(y, e)
           d == DernierAppel(y, e)
<1>1. a \in Tache /\ d \in Tache
  BY TacheType
<1>2. /\ a.g = y.g /\ a.op = y.op /\ a.ws = y.ws /\ a.heure = y.heure
      /\ a.repasId = y.repasId /\ a.etape = e /\ a.attend
  BY DEF Appel, Tache
<1>3. d.g = a.g /\ d.op = a.op /\ d.ws = a.ws /\ d.etape = a.etape /\ d.attend = a.attend
  <2> HIDE DEF a
  <2>1. d = [a EXCEPT !.repasId = 0, !.heure = -1, !.poids = 0]
    BY DEF DernierAppel, a
  <2> HIDE DEF d
  <2> QED BY <2>1, <1>1 DEF Tache
<1> HIDE DEF a, d
<1>4. Relais(x, a)
  BY <1>2 DEF Relais, Vers
<1>5. e \in {"apres", "nextMeal"} => Relais(x, d)
  BY <1>2, <1>3 DEF Relais, Vers
<1> QED BY <1>1, <1>4, <1>5 DEF a, d

Avance(t) ==
  \/ Finir(t)
  \/ \E y \in Tache : Devenir(t, y) /\ Relais(taches[t], y)

LEMMA AiguillerAvance ==
  ASSUME Typage, NEW t \in Lieux, taches[t] # Rien,
         taches[t].etape \in {"check", "creation"}, Aiguiller(t)
  PROVE  Avance(t)
<1> DEFINE x == taches[t]
           cible == isArduino(x.ws, x.g)
           y == [x EXCEPT !.ws = cible]
<1>1. x \in Tache
  BY DEF Typage, TypeOK
<1>2. CASE x.op \in {"nextMeal", "requestData", "history", "eatNow"}
  <2>1. Vers(x, x, x.op) /\ x.op \in Etapes
    BY <1>2 DEF Vers, Etapes
  <2>2. Devenir(t, Appel(x, x.op)) \/ (x.op = "nextMeal" /\ Devenir(t, DernierAppel(x, "nextMeal")))
    BY <1>2 DEF Aiguiller
  <2> HIDE DEF x
  <2>3. \E z \in Tache : Devenir(t, z) /\ Relais(x, z)
    BY <1>1, <2>1, <2>2, RelaisAppel
  <2> QED BY <2>3 DEF Avance, x
<1>3. CASE x.op \notin {"nextMeal", "requestData", "history", "eatNow"}
  <2>1. CASE cible = Rien
    BY <1>3, <2>1 DEF Aiguiller, Avance
  <2>2. CASE cible # Rien
    <3>1. Devenir(t, Appel(y, "avant"))
      BY <1>3, <2>2 DEF Aiguiller
    <3>2. cible \in Connexions /\ cible \in {x.ws, clients[x.g]}
      <4>1. cible \in Connexions
        BY <1>1, <2>2, isArduinoType DEF Tache
      <4>2. cible \in {x.ws, clients[x.g]}
        BY DEF isArduino
      <4> QED BY <4>1, <4>2
    <3>3. y \in Tache /\ y.g = x.g /\ y.ws = cible /\ y.op = x.op /\ y.heure = x.heure
      <4> HIDE DEF cible, x
      <4> QED BY <1>1, <3>2 DEF Tache
    <3>4. Vers(x, y, "avant") /\ "avant" \in Etapes
      <4> HIDE DEF y, cible
      <4> QED BY <1>3, <3>2, <3>3 DEF Vers, Etapes
    <3> HIDE DEF y, cible
    <3>5. \E z \in Tache : Devenir(t, z) /\ Relais(x, z)
      BY <1>1, <3>1, <3>3, <3>4, RelaisAppel
    <3> QED BY <3>5 DEF Avance
  <2> QED BY <2>1, <2>2
<1> QED BY <1>2, <1>3

\* The stages that ask for the same thing of the same socket.
LEMMA MemeAvance ==
  ASSUME Typage, NEW t \in Lieux, taches[t] # Rien, NEW e \in Etapes,
         \/ e \in {"nextMeal", "eatNowEnregistre", "distribution", "enregistrement"}
         \/ e = "apres" /\ taches[t].etape \in {"ajout", "maj", "verif"}
         \/ e = "creation" /\ taches[t].etape = "check"
         \/ e = "verif" /\ taches[t].etape = "retrait",
         \/ Devenir(t, Appel(taches[t], e))
         \/ Devenir(t, DernierAppel(taches[t], e)) /\ e \in {"apres", "nextMeal"}
  PROVE  Avance(t)
<1>1. taches[t] \in Tache
  BY DEF Typage, TypeOK
<1>2. Vers(taches[t], taches[t], e)
  BY DEF Vers
<1> QED BY <1>1, <1>2, RelaisAppel DEF Avance

LEMMA SuiteAvance ==
  ASSUME Typage, NEW t \in Lieux, Suite(t) \/ Echec(t), ~Planter
  PROVE  Avance(t)
<1> DEFINE x == taches[t]
<1>1. x # Rien /\ x \in Tache
  BY TraitementReseau DEF Typage, TypeOK
<1>2. CASE Echec(t)
  <2>1. (x.etape \in {"check", "creation"} /\ Aiguiller(t)) \/ Finir(t)
    BY <1>2, Zenon DEF Echec
  <2> QED BY <1>1, <2>1, AiguillerAvance DEF Avance
<1>3. CASE SuiteCheck(t) \/ SuiteCreation(t)
  <2>1. /\ x.etape \in {"check", "creation"}
        /\ \/ Aiguiller(t)
           \/ x.etape = "check" /\ Devenir(t, Appel(x, "creation"))
    BY <1>3 DEF SuiteCheck, SuiteCreation, Pret
  <2>2. "creation" \in Etapes
    BY DEF Etapes
  <2> QED BY <1>1, <2>1, <2>2, AiguillerAvance, MemeAvance
<1>4. CASE SuiteLecture(t) \/ SuiteApres(t) \/ SuiteNextMeal(t)
  BY <1>4 DEF SuiteLecture, SuiteApres, SuiteNextMeal, Avance
<1>5. CASE SuiteAvant(t)
  <2> DEFINE y == [x EXCEPT !.avant = ProchainOuRien(x.lu)]
             e == CASE x.op = "update" -> "maj"
                    [] x.op = "deleteMeal" -> "retrait"
                    [] OTHER -> "relecture"
  <2>1. Devenir(t, Appel(y, e)) /\ x.etape = "avant"
    BY <1>5 DEF SuiteAvant, Pret
  <2>2. e \in {"maj", "retrait", "relecture"} /\ (x.op = "deleteMeal" => e = "retrait")
    OBVIOUS
  <2>3. ProchainOuRien(x.lu) \in Affichage \cup {Rien}
    BY <1>1, ProchainType DEF Typage, EnsemblesFinis, Tache
  <2>4. y \in Tache /\ y.g = x.g /\ y.ws = x.ws /\ y.op = x.op /\ y.heure = x.heure
    <3> HIDE DEF x
    <3> QED BY <1>1, <2>3 DEF Tache
  <2> HIDE DEF y, e
  <2>5. Vers(x, y, e) /\ e \in Etapes
    BY <2>1, <2>2, <2>4 DEF Vers, Etapes
  <2>6. \E z \in Tache : Devenir(t, z) /\ Relais(x, z)
    BY <1>1, <2>1, <2>4, <2>5, RelaisAppel
  <2> QED BY <2>6 DEF Avance
<1>6. CASE SuiteRelecture(t)
  <2> DEFINE id == NouvelId(x.lu)
             y == [x EXCEPT !.repasId = id]
  <2>1. CASE Finir(t)
    BY <2>1 DEF Avance
  <2>2. CASE ~Finir(t)
    <3>1. Devenir(t, Appel(y, "ajout")) /\ lastId' = id /\ x.etape = "relecture"
      BY <1>6, <2>2 DEF SuiteRelecture, Pret
    <3>2. id \in Nat
      BY <1>1, DernierDedans DEF NouvelId, Typage, EnsemblesFinis, Tache, Repas
    <3>3. /\ y \in Tache /\ y.g = x.g /\ y.ws = x.ws /\ y.op = x.op /\ y.heure = x.heure
          /\ y.repasId = id
      <4> HIDE DEF x, id
      <4> QED BY <1>1, <3>2 DEF Tache
    <3> HIDE DEF y, id
    <3>4. Vers(x, y, "ajout") /\ "ajout" \in Etapes
      BY <3>1, <3>3 DEF Vers, Etapes
    <3>5. \E z \in Tache : Devenir(t, z) /\ Relais(x, z)
      BY <1>1, <3>1, <3>3, <3>4, RelaisAppel
    <3> QED BY <3>5 DEF Avance
  <2> QED BY <2>1, <2>2
<1>7. CASE SuiteAjout(t) \/ SuiteMaj(t) \/ SuiteVerif(t)
  <2>1. /\ x.etape \in {"ajout", "maj", "verif"}
        /\ Finir(t) \/ Devenir(t, DernierAppel(x, "apres"))
    BY <1>7 DEF SuiteAjout, SuiteMaj, SuiteVerif, Pret
  <2>2. "apres" \in Etapes
    BY DEF Etapes
  <2> QED BY <1>1, <2>1, <2>2, MemeAvance DEF Avance
<1>8. CASE SuiteRetrait(t)
  <2>1. x.etape = "retrait" /\ (Finir(t) \/ Devenir(t, Appel(x, "verif")))
    BY <1>8 DEF SuiteRetrait, Pret
  <2>2. "verif" \in Etapes
    BY DEF Etapes
  <2> QED BY <1>1, <2>1, <2>2, MemeAvance DEF Avance
<1>9. CASE SuiteEatNow(t) \/ SuiteDistribution(t) \/ SuiteEnregistrement(t)
  <2>1. \/ Finir(t)
        \/ Devenir(t, Appel(x, "eatNowEnregistre"))
        \/ Devenir(t, Appel(x, "enregistrement"))
        \/ Devenir(t, DernierAppel(x, "nextMeal"))
    BY <1>9 DEF SuiteEatNow, SuiteDistribution, SuiteEnregistrement
  <2>2. {"eatNowEnregistre", "enregistrement", "nextMeal"} \subseteq Etapes
    BY DEF Etapes
  <2> QED BY <1>1, <2>1, <2>2, MemeAvance DEF Avance
<1>10. CASE SuiteEatNowEnregistre(t)
  <2> DEFINE cible == isArduino(x.ws, x.g)
             y == [x EXCEPT !.ws = cible]
  <2>1. CASE Finir(t)
    BY <2>1 DEF Avance
  <2>2. CASE ~Finir(t)
    <3>1. cible # Rien /\ Devenir(t, Appel(y, "distribution"))
      BY <1>10, <2>2 DEF SuiteEatNowEnregistre
    <3>2. cible \in Connexions
      BY <1>1, <3>1, isArduinoType DEF Tache
    <3>3. cible \in {x.ws, clients[x.g]}
      BY DEF isArduino
    <3>4. y \in Tache /\ y.g = x.g /\ y.ws = cible /\ y.op = x.op /\ y.heure = x.heure
      <4> HIDE DEF cible, x
      <4> QED BY <1>1, <3>2 DEF Tache
    <3> HIDE DEF y, cible
    <3>5. Vers(x, y, "distribution") /\ "distribution" \in Etapes
      BY <3>3, <3>4 DEF Vers, Etapes
    <3>6. \E z \in Tache : Devenir(t, z) /\ Relais(x, z)
      BY <1>1, <3>1, <3>4, <3>5, RelaisAppel
    <3> QED BY <3>6 DEF Avance
  <2> QED BY <2>1, <2>2
<1> QED BY <1>2, <1>3, <1>4, <1>5, <1>6, <1>7, <1>8, <1>9, <1>10 DEF Suite

\* The database answers: the handler only gets the reply.
LEMMA ExecuterAvance ==
  ASSUME Typage, NEW t \in Lieux, taches[t] # Rien, NEW ok \in BOOLEAN,
         NEW lu \in SUBSET Repas, Executer(t, ok, lu)
  PROVE  \E y \in Tache :
           /\ Devenir(t, y)
           /\ y.g = taches[t].g /\ y.ws = taches[t].ws /\ y.op = taches[t].op
           /\ y.etape = taches[t].etape /\ y.heure = taches[t].heure
           /\ y.poids = taches[t].poids /\ y.repasId = taches[t].repasId
           /\ ~y.attend /\ y.ok = ok /\ y.lu = lu /\ y.avant = taches[t].avant
<1> DEFINE y == [taches[t] EXCEPT !.attend = FALSE, !.ok = ok, !.lu = lu]
<1>1. taches[t] \in Tache
  BY DEF Typage, TypeOK
<1>2. y \in Tache /\ Devenir(t, y)
  BY <1>1 DEF Tache, Executer
<1>3. /\ y.g = taches[t].g /\ y.ws = taches[t].ws /\ y.op = taches[t].op
      /\ y.etape = taches[t].etape /\ y.heure = taches[t].heure
      /\ y.poids = taches[t].poids /\ y.repasId = taches[t].repasId
      /\ ~y.attend /\ y.ok = ok /\ y.lu = lu /\ y.avant = taches[t].avant
  BY <1>1 DEF Tache
<1> HIDE DEF y
<1> QED BY <1>2, <1>3

LEMMA BaseExecute ==
  ASSUME Typage, NEW t \in Lieux, Base(t)
  PROVE  /\ taches[t] # Rien /\ taches[t].attend /\ UNCHANGED memoire
         /\ \E ok \in BOOLEAN, lu \in SUBSET Repas : Executer(t, ok, lu)
<1>1. taches[t] # Rien /\ taches[t].attend /\ UNCHANGED memoire
  BY DEF Base, Trouver, TrouverRepas, Creer, Ajouter, Modifier, Retirer, Consigner, Attend
<1>2. bd[taches[t].g].repas \in SUBSET Repas
  BY <1>1 DEF Typage, TypeOK, Tache, Document
<1> DEFINE existe == bd[taches[t].g].docs > 0
           retire == Sans(bd[taches[t].g].repas, taches[t].repasId) # bd[taches[t].g].repas
<1>3. \/ Executer(t, existe, {}) \/ Executer(t, existe, bd[taches[t].g].repas)
      \/ Executer(t, TRUE, {}) \/ Executer(t, retire, {})
  BY DEF Base, Trouver, TrouverRepas, Creer, Ajouter, Modifier, Retirer, Consigner
<1>4. existe \in BOOLEAN /\ retire \in BOOLEAN /\ TRUE \in BOOLEAN /\ {} \in SUBSET Repas
  OBVIOUS
<1> HIDE DEF existe, retire
<1>5. \E ok \in BOOLEAN, lu \in SUBSET Repas : Executer(t, ok, lu)
  BY <1>2, <1>3, <1>4, Zenon
<1> QED BY <1>1, <1>5

\* A step of a handler: the bowl stays, the socket may become the registered one.
LEMMA MemeSocket ==
  ASSUME Typage, NEW t \in Lieux, Base(t) \/ Suite(t) \/ Echec(t), ~Planter
  PROVE  \E y \in Tache \cup {Rien} :
           /\ Devenir(t, y)
           /\ y # Rien => y.g = taches[t].g /\ y.ws \in {taches[t].ws, clients[taches[t].g]}
<1>1. CASE Base(t)
  <2>1. PICK ok \in BOOLEAN, lu \in SUBSET Repas : Executer(t, ok, lu)
    BY <1>1, BaseExecute
  <2>2. taches[t] # Rien
    BY <1>1, BaseExecute
  <2>3. PICK y \in Tache : Devenir(t, y) /\ y.g = taches[t].g /\ y.ws = taches[t].ws
    BY <2>1, <2>2, ExecuterAvance
  <2> QED BY <2>3
<1>2. CASE Suite(t) \/ Echec(t)
  <2>1. Avance(t)
    BY <1>2, SuiteAvance
  <2> QED BY <2>1 DEF Avance, Relais, Vers, Finir
<1> QED BY <1>1, <1>2

\* Only three continuations change the timers.
LEMMA CrontabsInchanges ==
  ASSUME NEW t \in Lieux, Base(t) \/ Suite(t) \/ Echec(t), ~Planter,
         ~SuiteAjout(t), ~SuiteMaj(t), ~SuiteVerif(t)
  PROVE  UNCHANGED crontabs
<1> USE DEF memoire, sansTaches
<1>1. CASE Base(t)
  BY <1>1 DEF Base, Trouver, TrouverRepas, Creer, Ajouter, Modifier, Retirer, Consigner
<1>2. CASE Suite(t)
  <2>1. CASE \/ SuiteCheck(t) \/ SuiteCreation(t) \/ SuiteLecture(t) \/ SuiteAvant(t)
             \/ SuiteRelecture(t) \/ SuiteRetrait(t) \/ SuiteApres(t)
    BY <2>1 DEF SuiteCheck, SuiteCreation, SuiteLecture, SuiteAvant, SuiteRelecture,
       SuiteRetrait, SuiteApres
  <2>2. CASE \/ SuiteNextMeal(t) \/ SuiteEatNow(t) \/ SuiteEatNowEnregistre(t)
             \/ SuiteDistribution(t) \/ SuiteEnregistrement(t)
    BY <2>2 DEF SuiteNextMeal, SuiteEatNow, SuiteEatNowEnregistre, SuiteDistribution,
       SuiteEnregistrement
  <2> QED BY <1>2, <2>1, <2>2 DEF Suite
<1>3. CASE Echec(t)
  BY <1>3, Zenon DEF Echec
<1> QED BY <1>1, <1>2, <1>3

\* A kill or a rejection nobody catches empties the memory.
LEMMA ArretVide ==
  ASSUME Planter \/ EchecDemarrage \/ Panne
  PROVE  /\ serveur' = "arret" /\ UNCHANGED bd
         /\ \A g \in Gamelles : crontabs'[g] = {} /\ clients'[g] = Rien
         /\ \A w \in Connexions : ~connexions'[w].ouverte
         /\ \A t \in Lieux : taches'[t] = Rien
BY DEF Planter, EchecDemarrage, Panne, Arreter, ToutRien

LEMMA EteintStable ==
  ASSUME Typage, Eteint, ~ConnexionPrecoce, [Next]_vars
  PROVE  Eteint'
<1>1. CASE EchecDemarrage \/ Panne
  BY <1>1, ArretVide DEF Eteint
<1>2. CASE Demarrer \/ LirePhoto \/ restartServer
  BY <1>2 DEF Demarrer, LirePhoto, restartServer, reseau, Eteint
<1>3. ASSUME NEW w \in Connexions, \E pair \in Gamelles \cup {Appli} : Connecter(w, pair)
      PROVE  Eteint'
  BY <1>3 DEF Connecter, processus, Eteint
<1>4. ASSUME NEW w \in Connexions, Deconnecter(w) PROVE Eteint'
  BY <1>4 DEF Deconnecter, processus, Eteint
<1>5. ASSUME NEW t \in Requetes, NEW w \in Connexions, NEW g, NEW d \in Demandes(g, w),
             Recevoir(t, d)
      PROVE  Eteint'
  <2>1. connexions[w].ouverte /\ UNCHANGED serveur
    BY <1>5 DEF Recevoir, Demandes, processus
  <2> QED BY <2>1 DEF Eteint
<1>6. ASSUME NEW t \in Lieux, Base(t) \/ Suite(t) \/ Echec(t) PROVE Eteint'
  <2>1. CASE Planter
    BY <2>1, ArretVide DEF Eteint
  <2>2. CASE ~Planter
    BY <1>6, <2>2, TraitementReseau DEF Eteint
  <2> QED BY <2>1, <2>2
<1>7. CASE Tic
  BY <1>7 DEF Tic, reseau, processus, Eteint
<1>8. ASSUME NEW t \in Minuteries, NEW g \in Gamelles, Declencher(t, g) PROVE Eteint'
  <2>1. crontabs[g] # {} /\ UNCHANGED serveur
    BY <1>8 DEF Declencher, processus
  <2> QED BY <2>1 DEF Eteint
<1>9. CASE UNCHANGED vars
  BY <1>9 DEF vars, memoire, reseau, processus, Eteint
<1> QED BY <1>1, <1>2, <1>3, <1>4, <1>5, <1>6, <1>7, <1>8, <1>9 DEF Next

\* The handlers: those that add a timer have the registered socket.
LEMMA LiensTraitement ==
  ASSUME Typage, Typage', MinuteriesBien, BonDestinataire, Liens, NEW t \in Lieux,
         Base(t) \/ Suite(t) \/ Echec(t)
  PROVE  Liens'
<1>1. SUFFICES ASSUME ~Planter PROVE Liens'
  BY ArretVide DEF Liens, Lieux
<1>2. taches[t] # Rien /\ UNCHANGED <<clients, connexions>>
  BY <1>1, TraitementReseau
<1> DEFINE x == taches[t]
<1>3. x \in Tache /\ x.g \in Gamelles /\ TacheBien(x)
  BY <1>2 DEF Typage, TypeOK, Tache, BonDestinataire
<1>4. PICK y \in Tache \cup {Rien} :
        /\ Devenir(t, y)
        /\ y # Rien => y.g = x.g /\ y.ws \in {x.ws, clients[x.g]}
  BY <1>1, MemeSocket
<1>5. ASSUME NEW u \in Requetes, taches'[u] # Rien, connexions'[taches'[u].ws].pair # Appli
      PROVE  taches'[u].ws = clients'[taches'[u].g]
  <2>1. CASE u = t
    <3>1. taches'[u] = y
      BY <1>4, <2>1 DEF Devenir, Typage, TypeOK
    <3> QED BY <1>2, <1>4, <1>5, <2>1, <3>1 DEF Liens
  <2>2. CASE u # t
    <3>1. taches'[u] = taches[u]
      BY <1>4, <2>2 DEF Devenir, Typage, TypeOK, Lieux
    <3> QED BY <1>2, <1>5, <3>1 DEF Liens
  <2> QED BY <2>1, <2>2
<1>6. ASSUME NEW g \in Gamelles PROVE \A c \in crontabs'[g] : c.ws = clients[g]
  <2>1. CASE UNCHANGED crontabs
    BY <2>1 DEF Liens
  <2>2. CASE SuiteAjout(t) \/ SuiteMaj(t) \/ SuiteVerif(t)
    <3> DEFINE C == crontabs[x.g]
               V == {clients[x.g]}
    <3>1. x.etape \in {"ajout", "maj", "verif"}
      BY <2>2 DEF SuiteAjout, SuiteMaj, SuiteVerif, Pret
    <3>2. t \in Requetes
      BY <1>2, <3>1 DEF MinuteriesBien, EtapesMinuterie, Lieux
    <3>3. x.ws = clients[x.g]
      <4>1. connexions[x.ws].pair = x.g
        BY <1>2, <1>3, <3>1 DEF TacheBien, EtapesReliees
      <4>2. connexions[x.ws].pair # Appli
        BY <1>3, <4>1, ConstantesAssumption
      <4> QED BY <1>2, <3>2, <4>2 DEF Liens
    <3>4. C \in SUBSET Crontab /\ x.ws \in V /\ \A c \in C : c.ws \in V
      BY <1>3, <3>3 DEF Liens, Typage, TypeOK
    <3>5. PICK D : /\ crontabs' = [crontabs EXCEPT ![x.g] = D]
                   /\ \/ D = deleteCrontab(C, x.repasId)
                      \/ D = addCrontab(C, lastId, x.heure, x.poids, x.ws)
                      \/ D = updateCrontab(C, x.repasId, x.heure, x.poids, x.ws)
      BY <2>2 DEF SuiteAjout, SuiteMaj, SuiteVerif
    <3>6. \A c \in D : c.ws \in V
      <4> DEFINE n == x.repasId
                 h == x.heure
                 q == x.poids
                 w == x.ws
      <4>1. /\ \A c \in addCrontab(C, lastId, h, q, w) : c.ws \in V
            /\ \A c \in deleteCrontab(C, n) : c.ws \in V
            /\ \A c \in updateCrontab(C, n, h, q, w) : c.ws \in V
        <5>1. C \in SUBSET Crontab /\ w \in V /\ \A c \in C : c.ws \in V
          BY <3>4
        <5> HIDE DEF C, V, n, h, q, w
        <5> QED BY <5>1, DestinataireOperateurs
      <4>2. \/ D = deleteCrontab(C, n) \/ D = addCrontab(C, lastId, h, q, w)
            \/ D = updateCrontab(C, n, h, q, w)
        BY <3>5
      <4> HIDE DEF C, V, n, h, q, w
      <4> QED BY <4>1, <4>2
    <3>7. CASE g = x.g
      BY <3>5, <3>6, <3>7 DEF Typage, TypeOK
    <3>8. CASE g # x.g
      BY <3>5, <3>8 DEF Liens, Typage, TypeOK
    <3> QED BY <3>7, <3>8
  <2> QED BY <1>1, <2>1, <2>2, CrontabsInchanges
<1> QED BY <1>2, <1>5, <1>6 DEF Liens

LEMMA LiensClients ==
  ASSUME Typage, Liens, NEW w \in Connexions,
         \/ \E pair \in Gamelles \cup {Appli} : Connecter(w, pair)
         \/ Deconnecter(w)
  PROVE  Liens'
<1>1. UNCHANGED <<taches, clients, crontabs>>
  BY DEF Connecter, Deconnecter
<1>2. CASE Deconnecter(w)
  <2>1. \A v \in Connexions :
          /\ connexions'[v].pair = connexions[v].pair
          /\ connexions'[v].premier = connexions[v].premier
          /\ connexions'[v].ouverte => connexions[v].ouverte
    BY <1>2 DEF Deconnecter, Typage, TypeOK
  <2>2. \A t \in Requetes : taches[t] # Rien => taches[t].ws \in Connexions
    BY DEF Typage, TypeOK, Tache, Lieux
  <2> QED BY <1>1, <2>1, <2>2 DEF Liens
<1>3. ASSUME NEW pair \in Gamelles \cup {Appli}, Connecter(w, pair) PROVE Liens'
  <2>1. /\ connexions'[w].premier /\ connexions'[w].pair = pair /\ ~Reference(w)
        /\ \A v \in Connexions \ {w} : connexions'[v] = connexions[v]
        /\ pair # Appli => \A v \in Connexions :
                             connexions[v].ouverte => connexions[v].pair # pair
    BY <1>3 DEF Connecter, Typage, TypeOK
  <2>2. \A t \in Requetes : taches[t] # Rien => taches[t].ws \in Connexions \ {w}
    BY <2>1 DEF Reference, Typage, TypeOK, Tache, Lieux
  <2>3. ASSUME NEW u \in Connexions, NEW v \in Connexions,
               connexions'[u].ouverte, connexions'[v].ouverte,
               connexions'[u].pair # Appli, connexions'[u].pair = connexions'[v].pair
        PROVE  u = v
    BY <2>1, <2>3 DEF Liens
  <2>4. \A v \in Connexions :
          connexions'[v].ouverte /\ ~connexions'[v].premier /\ connexions'[v].pair # Appli
          => clients[connexions'[v].pair] = v
    BY <2>1 DEF Liens
  <2>5. \A t \in Requetes :
          taches[t] # Rien /\ connexions'[taches[t].ws].pair # Appli
          => taches[t].ws = clients[taches[t].g]
    BY <2>1, <2>2 DEF Liens
  <2> QED BY <1>1, <2>3, <2>4, <2>5 DEF Liens
<1> QED BY <1>2, <1>3

\* A first message registers the socket and gives it to every timer of the bowl;
\* a later one finds its socket registered.
LEMMA LiensRecevoir ==
  ASSUME UnALaFois, Typage, Liens, NEW t \in Requetes, NEW w \in Connexions,
         NEW g \in IF connexions[w].pair = Appli THEN Gamelles ELSE {connexions[w].pair},
         NEW d \in Demandes(g, w), Recevoir(t, d)
  PROVE  Liens'
<1>1. /\ d.g = g /\ d.ws = w /\ g \in Gamelles
      /\ connexions[w].pair # Appli => connexions[w].pair = g
      /\ connexions[w].ouverte
  BY DEF Demandes, Typage, TypeOK, Recevoir
<1>2. /\ \A v \in Connexions : /\ connexions'[v].pair = connexions[v].pair
                               /\ connexions'[v].ouverte = connexions[v].ouverte
      /\ \A v \in Connexions \ {w} : connexions'[v] = connexions[v]
  <2>1. \/ connexions' = [connexions EXCEPT ![w].premier = FALSE]
        \/ UNCHANGED connexions
    BY <1>1 DEF Recevoir, reseau
  <2> QED BY <2>1 DEF Typage, TypeOK
<1>3. \A u \in Requetes \ {t} : taches'[u] = Rien
  BY DEF Recevoir, Devenir, ToutRien, Typage, TypeOK, Lieux
<1>4. taches'[t].ws = w /\ taches'[t].g = g
  BY <1>1 DEF Recevoir, Devenir, Typage, TypeOK, Lieux
<1>5. \A h \in Gamelles : \A c \in crontabs[h] : c \in Crontab
  BY DEF Typage, TypeOK
<1>6. CASE connexions[w].pair # Appli /\ connexions[w].premier
  <2>1. /\ clients' = [clients EXCEPT ![g] = w]
        /\ crontabs' = [crontabs EXCEPT ![g] = restartCrontabs(@, w)]
    BY <1>1, <1>6 DEF Recevoir
  <2>2. clients'[g] = w /\ \A h \in Gamelles \ {g} : clients'[h] = clients[h]
    BY <1>1, <2>1 DEF Typage, TypeOK
  <2>3. \A h \in Gamelles : \A c \in crontabs'[h] : c.ws = clients'[h]
    <3> TAKE h \in Gamelles
    <3>1. CASE h # g
      BY <2>1, <2>2, <3>1 DEF Liens, Typage, TypeOK
    <3>2. CASE h = g
      <4>1. crontabs'[h] = restartCrontabs(crontabs[h], w)
        BY <1>1, <2>1, <3>2 DEF Typage, TypeOK
      <4>2. \A c \in restartCrontabs(crontabs[h], w) : c.ws = w
        BY <1>5 DEF restartCrontabs, Crontab
      <4> QED BY <2>2, <3>2, <4>1, <4>2
    <3> QED BY <3>1, <3>2
  <2>4. ASSUME NEW v \in Connexions, connexions'[v].ouverte, ~connexions'[v].premier,
               connexions'[v].pair # Appli
        PROVE  clients'[connexions'[v].pair] = v
    <3>1. CASE v = w
      BY <1>1, <1>2, <1>6, <2>2, <3>1
    <3>2. CASE v # w
      <4>1. connexions[v].pair # g
        BY <1>1, <1>2, <1>6, <2>4, <3>2 DEF Liens
      <4>2. connexions[v].pair \in Gamelles
        BY <1>2, <2>4 DEF Typage, TypeOK
      <4> QED BY <1>2, <2>2, <2>4, <3>2, <4>1, <4>2 DEF Liens
    <3> QED BY <3>1, <3>2
  <2>5. \A u \in Requetes : taches'[u] # Rien => taches'[u].ws = clients'[taches'[u].g]
    BY <1>3, <1>4, <2>2
  <2>6. \A u, v \in Connexions :
          /\ connexions'[u].ouverte /\ connexions'[v].ouverte
          /\ connexions'[u].pair # Appli /\ connexions'[u].pair = connexions'[v].pair
          => u = v
    BY <1>2 DEF Liens
  <2> QED BY <2>3, <2>4, <2>5, <2>6 DEF Liens
<1>7. CASE ~(connexions[w].pair # Appli /\ connexions[w].premier)
  <2>1. UNCHANGED <<clients, connexions, crontabs>>
    BY <1>1, <1>7 DEF Recevoir, reseau
  <2>2. connexions[w].pair # Appli => w = clients[g]
    BY <1>1, <1>7 DEF Liens
  <2>3. \A u \in Requetes :
          taches'[u] # Rien /\ connexions'[taches'[u].ws].pair # Appli
          => taches'[u].ws = clients'[taches'[u].g]
    BY <1>3, <1>4, <2>1, <2>2
  <2> QED BY <2>1, <2>3 DEF Liens
<1> QED BY <1>6, <1>7

LEMMA LiensTemps ==
  ASSUME Typage, Liens, Tic \/ \E t \in Minuteries, g \in Gamelles : Declencher(t, g)
  PROVE  Liens'
<1>1. UNCHANGED <<clients, connexions>>
  BY DEF Tic, Declencher, reseau
<1>2. \A u \in Requetes : taches'[u] = taches[u]
  <2>1. CASE Tic
    BY <2>1 DEF Tic
  <2>2. CASE \E t \in Minuteries, g \in Gamelles : Declencher(t, g)
    BY <2>2, ConstantesAssumption DEF Declencher, Devenir, Typage, TypeOK, Lieux
  <2> QED BY <2>1, <2>2
<1>3. ASSUME NEW h \in Gamelles
      PROVE  \A c \in crontabs'[h] : \E b \in crontabs[h] : c.ws = b.ws
  <2>1. crontabs[h] \in SUBSET Crontab
    BY DEF Typage, TypeOK
  <2>2. CASE Tic
    BY <2>1, <2>2 DEF Tic, Crontab
  <2>3. ASSUME NEW t \in Minuteries, NEW g \in Gamelles, Declencher(t, g)
        PROVE  \A c \in crontabs'[h] : \E b \in crontabs[h] : c.ws = b.ws
    <3>1. PICK b \in crontabs[g] :
            crontabs' = [crontabs EXCEPT ![g] = (@ \ {b}) \cup {[b EXCEPT !.du = FALSE]}]
      BY <2>3 DEF Declencher
    <3>2. CASE h = g
      <4> DEFINE d == [b EXCEPT !.du = FALSE]
      <4>1. b \in Crontab
        BY <2>1, <3>2
      <4>2. d.ws = b.ws
        BY <4>1 DEF Crontab
      <4>3. crontabs'[h] = (crontabs[h] \ {b}) \cup {d}
        BY <3>1, <3>2 DEF Typage, TypeOK
      <4> HIDE DEF d
      <4> QED BY <3>2, <4>2, <4>3
    <3>3. CASE h # g
      BY <3>1, <3>3 DEF Typage, TypeOK
    <3> QED BY <3>2, <3>3
  <2> QED BY <2>2, <2>3
<1> QED BY <1>1, <1>2, <1>3 DEF Liens

LEMMA LiensProcessus ==
  ASSUME Eteint, Liens,
         Demarrer \/ LirePhoto \/ restartServer \/ EchecDemarrage \/ Panne
  PROVE  Liens'
<1>1. CASE EchecDemarrage \/ Panne
  BY <1>1, ArretVide DEF Liens, Lieux
<1>2. CASE Demarrer \/ LirePhoto
  BY <1>2 DEF Demarrer, LirePhoto, reseau, Liens
<1>3. CASE restartServer
  <2>1. \A g \in Gamelles : crontabs[g] = {} /\ clients[g] = Rien
    BY <1>3 DEF restartServer, Eteint
  <2>2. \A g \in Gamelles : \A c \in crontabs'[g] : c.ws = Rien
    <3> TAKE g \in Gamelles
    <3>1. crontabs'[g] = Charges({}, photo[g])
      BY <1>3, <2>1 DEF restartServer
    <3>2. ASSUME NEW R, NEW c \in Charges({}, R) PROVE c.ws = Rien
      <4>1. PICK r \in {r \in R : r.heure # -1} : \E n :
              c = [repasId |-> r.id, rang |-> n, heure |-> r.heure,
                   poids |-> r.poids, ws |-> Rien, du |-> FALSE]
        BY <3>2 DEF Charges
      <4> QED BY <4>1
    <3> QED BY <3>1, <3>2
  <2>3. UNCHANGED <<connexions, clients, taches>>
    BY <1>3 DEF restartServer, reseau
  <2> QED BY <2>1, <2>2, <2>3 DEF Liens
<1> QED BY <1>1, <1>2, <1>3

LEMMA LiensStables ==
  ASSUME UnALaFois, Typage, Typage', MinuteriesBien, BonDestinataire, Eteint, Liens,
         [Next]_vars
  PROVE  Liens'
<1>1. CASE UNCHANGED vars
  BY <1>1 DEF vars, memoire, reseau, Liens
<1> QED
  BY <1>1, LiensTraitement, LiensClients, LiensRecevoir, LiensTemps, LiensProcessus
     DEF Next

LEMMA LiensInit == Init => Eteint /\ Liens
BY DEF Init, Eteint, Liens, ToutRien, Lieux

\* When a message waits for the handler before it, and clients for restartServer,
\* no timer keeps a lost socket: each sends to the one its device registered last,
\* whatever the disconnections, the kills and the failures of the database.
THEOREM TimersToujoursRelies ==
  ASSUME UnALaFois, ~ConnexionPrecoce
  PROVE  Spec => []RelieAuDernier
<1> DEFINE Inv == Eteint /\ Liens
<1>1. Init => Inv
  BY LiensInit
<1>2. Bornes /\ Bornes' /\ BonDestinataire /\ Inv /\ [Next]_vars => Inv'
  BY EteintStable, LiensStables DEF Bornes
<1>3. Inv => RelieAuDernier
  BY DEF Liens, RelieAuDernier
<1> QED BY <1>1, <1>2, <1>3, BornesToujours, Destinataires, PTL DEF Spec

------------------------------------------------------------------------------
(* The timers and the meals.                                                 *)

\* One timer per number, the first of its number.
Simples(C) == /\ \A c \in C : c.rang = 1
              /\ \A c, d \in C : c.repasId = d.repasId => c = d

\* The timers say what the meals say.
Dit(c, r) == c.repasId = r.id /\ c.heure = r.heure /\ c.poids = r.poids
Memes(C, R) == /\ \A c \in C : \E r \in R : Dit(c, r)
               /\ \A r \in R : \E c \in C : Dit(c, r)
SaufRepas(C, id) == {c \in C : c.repasId # id}

\* A request whose command was executed still has to change one timer ...
EnDette(x) == \/ x.etape \in {"ajout", "maj", "retrait"} /\ ~x.attend
              \/ x.etape = "verif"

\* ... and the other timers are right.
Dette(x, C, R) ==
  /\ Memes(SaufRepas(C, x.repasId), Sans(R, x.repasId))
  /\ x.etape = "ajout" =>
       DuRepas(C, x.repasId) = {} /\ \E r \in R : r.id = x.repasId
  /\ x.etape = "maj" =>
       (DuRepas(C, x.repasId) = {} <=> \A r \in R : r.id # x.repasId)
  /\ x.etape \in {"ajout", "maj"} =>
       \A r \in R : r.id = x.repasId => r.heure = x.heure /\ r.poids = x.poids
  /\ x.etape \in {"retrait", "verif"} => \A r \in R : r.id # x.repasId
  /\ x.etape = "retrait" => (x.ok <=> DuRepas(C, x.repasId) # {})

LEMMA MemesSauf ==
  ASSUME NEW C, NEW R, Memes(C, R), NEW id
  PROVE  /\ Memes(SaufRepas(C, id), Sans(R, id))
         /\ DuRepas(C, id) = {} <=> \A r \in R : r.id # id
BY DEF Memes, Dit, SaufRepas, Sans, DuRepas

LEMMA MemesSans ==
  ASSUME NEW C, NEW R, NEW id, Memes(SaufRepas(C, id), Sans(R, id)),
         \A r \in R : r.id # id
  PROVE  Memes(SaufRepas(C, id), R) /\ (DuRepas(C, id) = {} => Memes(C, R))
BY DEF Memes, Dit, SaufRepas, Sans, DuRepas

\* What the timers of other meals say does not depend on the timer added.
LEMMA AjouterTimer ==
  ASSUME NEW C \in SUBSET Crontab, Simples(C), NEW R, NEW id \in Nat, NEW heure,
         heure # -1, NEW poids, NEW ws, DuRepas(C, id) = {},
         Memes(SaufRepas(C, id), Sans(R, id)), \E r \in R : r.id = id,
         \A r \in R : r.id = id => r.heure = heure /\ r.poids = poids
  PROVE  /\ Simples(addCrontab(C, id, heure, poids, ws))
         /\ Memes(addCrontab(C, id, heure, poids, ws), R)
<1> DEFINE a == [repasId |-> id, rang |-> 1 + Cardinality(DuRepas(C, id)),
                 heure |-> heure, poids |-> poids, ws |-> ws, du |-> FALSE]
<1>1. addCrontab(C, id, heure, poids, ws) = C \cup {a}
  BY DEF addCrontab
<1>2. a.repasId = id /\ a.heure = heure /\ a.poids = poids /\ a.rang = 1
  BY FS_EmptySet
<1> HIDE DEF a
<1>3. \A c \in C : c.repasId # id
  BY DEF DuRepas
<1>4. Simples(C \cup {a})
  BY <1>2, <1>3 DEF Simples
<1>5. Memes(C \cup {a}, R)
  <2>1. ASSUME NEW c \in C \cup {a} PROVE \E r \in R : Dit(c, r)
    BY <1>2, <1>3, <2>1 DEF Memes, Dit, SaufRepas, Sans
  <2>2. ASSUME NEW r \in R PROVE \E c \in C \cup {a} : Dit(c, r)
    <3>1. CASE r.id = id
      BY <1>2, <3>1 DEF Dit
    <3>2. CASE r.id # id
      BY <3>2 DEF Memes, SaufRepas, Sans
    <3> QED BY <3>1, <3>2
  <2> QED BY <2>1, <2>2 DEF Memes
<1> QED BY <1>1, <1>4, <1>5

LEMMA RetirerTimer ==
  ASSUME NEW C \in SUBSET Crontab, Simples(C), NEW id
  PROVE  /\ deleteCrontab(C, id) = SaufRepas(C, id)
         /\ SaufRepas(C, id) \in SUBSET Crontab /\ Simples(SaufRepas(C, id))
         /\ DuRepas(SaufRepas(C, id), id) = {}
         /\ SaufRepas(SaufRepas(C, id), id) = SaufRepas(C, id)
<1> DEFINE f(c) == [c EXCEPT !.rang = IF c.repasId = id THEN c.rang - 1 ELSE c.rang]
           D == {d \in C : d.repasId # id \/ d.rang > 1}
<1>1. D = SaufRepas(C, id)
  BY DEF Simples, SaufRepas
<1>2. \A c \in SaufRepas(C, id) : f(c) = c
  BY DEF SaufRepas, Crontab
<1>3. deleteCrontab(C, id) = {f(c) : c \in D}
  BY DEF deleteCrontab
<1>4. {f(c) : c \in D} = SaufRepas(C, id)
  <2> HIDE DEF D, f
  <2> QED BY <1>1, <1>2
<1> QED BY <1>3, <1>4 DEF Simples, SaufRepas, DuRepas

\* Entries changed in nothing that a meal says.
Repete(c, d) == d.repasId = c.repasId /\ d.heure = c.heure /\ d.poids = c.poids
Pareils(C, D) ==
  /\ Simples(D)
  /\ \A c \in C : \E d \in D : Repete(c, d)
  /\ \A d \in D : \E c \in C : Repete(c, d)

LEMMA ImagePareille ==
  ASSUME NEW C, NEW F, NEW D, D = {F[c] : c \in C}, Simples(C),
         \A c \in C : /\ F[c].rang = c.rang /\ F[c].repasId = c.repasId
                      /\ F[c].heure = c.heure /\ F[c].poids = c.poids
  PROVE  Pareils(C, D)
BY DEF Pareils, Simples, Repete

LEMMA PareilsMemes ==
  ASSUME NEW C, NEW D, Pareils(C, D), NEW R, Memes(C, R)
  PROVE  Memes(D, R)
<1>1. ASSUME NEW d \in D PROVE \E r \in R : Dit(d, r)
  <2>1. PICK c \in C : Repete(c, d)
    BY <1>1 DEF Pareils
  <2> QED BY <2>1 DEF Memes, Dit, Repete
<1>2. ASSUME NEW r \in R PROVE \E d \in D : Dit(d, r)
  <2>1. PICK c \in C : Dit(c, r)
    BY DEF Memes
  <2>2. PICK d \in D : Repete(c, d)
    BY <2>1 DEF Pareils
  <2> QED BY <2>1, <2>2 DEF Dit, Repete
<1> QED BY <1>1, <1>2 DEF Memes

\* restartServer's forEach on the meals of a bowl.
LEMMA ChargerTimers ==
  ASSUME NEW R \in SUBSET Repas, Ordonnes(R), \A r \in R : r.heure # -1
  PROVE  Simples(Charges({}, R)) /\ Memes(Charges({}, R), R)
<1> DEFINE valides == {r \in R : r.heure # -1}
           Avant(r) == {x \in valides : x.id = r.id /\ x.rang <= r.rang}
           f == [r \in R |->
                  [repasId |-> r.id,
                   rang |-> Cardinality(DuRepas({}, r.id)) + Cardinality(Avant(r)),
                   heure |-> r.heure, poids |-> r.poids, ws |-> Rien, du |-> FALSE]]
<1>1. valides = R
  OBVIOUS
<1>2. Charges({}, R) = {f[r] : r \in R}
  BY <1>1 DEF Charges
<1>3. \A r \in R : /\ f[r].repasId = r.id /\ f[r].rang = 1
                   /\ f[r].heure = r.heure /\ f[r].poids = r.poids
  <2> TAKE r \in R
  <2>1. Avant(r) = {r}
    BY DEF Ordonnes, Repas
  <2>2. DuRepas({}, r.id) = {}
    BY DEF DuRepas
  <2>3. Cardinality(DuRepas({}, r.id)) = 0 /\ Cardinality(Avant(r)) = 1
    BY <2>1, <2>2, FS_EmptySet, FS_Singleton
  <2> HIDE DEF Avant
  <2> QED BY <2>3
<1> HIDE DEF f
<1>4. Simples({f[r] : r \in R})
  BY <1>3 DEF Simples, Ordonnes
<1>5. Memes({f[r] : r \in R}, R)
  BY <1>3 DEF Memes, Dit
<1> QED BY <1>2, <1>4, <1>5

\* The commands, from meals the timers agree with.
LEMMA DetteAjout ==
  ASSUME NEW C, NEW R \in SUBSET Repas, IsFiniteSet(R), Ordonnes(R), Memes(C, R),
         NEW x \in Tache, x.etape = "ajout", x.repasId = NouvelId(R)
  PROVE  Dette(x, C, Avec(R, x.repasId, x.heure, x.poids))
<1> DEFINE id == x.repasId
           Q == Avec(R, id, x.heure, x.poids)
<1>1. \A r \in R : r.id # id
  <2>1. NouvelId(R) \in Nat /\ \A r \in R : r.id < NouvelId(R) /\ r.id \in Nat
    BY NouvelIdNouveau DEF Repas
  <2> QED BY <2>1
<1> DEFINE a == [id |-> id, rang |-> IF R = {} THEN 1 ELSE Dernier(R).rang + 1,
                 heure |-> x.heure, poids |-> x.poids]
<1>2. Q = R \cup {a} /\ a.id = id /\ a.heure = x.heure /\ a.poids = x.poids
  BY DEF Avec
<1> HIDE DEF a
<1>3. Sans(Q, id) = R /\ Sans(R, id) = R
  BY <1>1, <1>2 DEF Sans
<1>4. Memes(SaufRepas(C, id), Sans(R, id)) /\ DuRepas(C, id) = {}
  BY <1>1, MemesSauf
<1>5. \E r \in Q : r.id = id
  BY <1>2
<1>6. \A r \in Q : r.id = id => r.heure = x.heure /\ r.poids = x.poids
  BY <1>1, <1>2
<1> HIDE DEF Q
<1> QED BY <1>3, <1>4, <1>5, <1>6 DEF Dette, Q

LEMMA DetteMaj ==
  ASSUME NEW C, NEW R \in SUBSET Repas, Ordonnes(R), Memes(C, R),
         NEW x \in Tache, x.etape = "maj"
  PROVE  Dette(x, C, Modifies(R, x.repasId, x.heure, x.poids))
<1> DEFINE id == x.repasId
           f(r) == IF r.id = id /\ EstPremier(r, R)
                     THEN [r EXCEPT !.heure = x.heure, !.poids = x.poids] ELSE r
           Q == Modifies(R, id, x.heure, x.poids)
<1>1. Q = {f(r) : r \in R}
  BY DEF Modifies
<1>2. \A r \in R : r.id = id => EstPremier(r, R)
  BY DEF Ordonnes, EstPremier, Repas
<1>3. \A r \in R : /\ f(r).id = r.id
                   /\ r.id = id => f(r).heure = x.heure /\ f(r).poids = x.poids
                   /\ r.id # id => f(r) = r
  BY <1>2 DEF Repas
<1> HIDE DEF f, Q
<1>4. Sans(Q, id) = Sans(R, id)
  BY <1>1, <1>3 DEF Sans
<1>5. /\ Memes(SaufRepas(C, id), Sans(R, id))
      /\ DuRepas(C, id) = {} <=> \A r \in R : r.id # id
  BY MemesSauf
<1>6. (\A r \in Q : r.id # id) <=> (\A r \in R : r.id # id)
  BY <1>1, <1>3
<1>7. \A r \in Q : r.id = id => r.heure = x.heure /\ r.poids = x.poids
  BY <1>1, <1>3
<1> QED BY <1>4, <1>5, <1>6, <1>7 DEF Dette, Q

LEMMA DetteRetrait ==
  ASSUME NEW C, NEW R, Memes(C, R), NEW x \in Tache, x.etape = "retrait",
         x.ok <=> Sans(R, x.repasId) # R
  PROVE  Dette(x, C, Sans(R, x.repasId))
<1> DEFINE id == x.repasId
           Q == Sans(R, id)
<1>1. Sans(Q, id) = Q /\ \A r \in Q : r.id # id
  BY DEF Sans
<1>2. /\ Memes(SaufRepas(C, id), Q)
      /\ DuRepas(C, id) = {} <=> \A r \in R : r.id # id
  BY MemesSauf
<1>3. Q # R <=> \E r \in R : r.id = id
  BY DEF Sans
<1> HIDE DEF Q
<1> QED BY <1>1, <1>2, <1>3 DEF Dette, Q

LEMMA PareilsDette ==
  ASSUME NEW C, NEW D, Pareils(C, D), NEW x, NEW R, Dette(x, C, R)
  PROVE  Dette(x, D, R)
<1> DEFINE id == x.repasId
<1>1. Pareils(SaufRepas(C, id), SaufRepas(D, id))
  BY DEF Pareils, Simples, SaufRepas, Repete
<1>2. Memes(SaufRepas(D, id), Sans(R, id))
  BY <1>1, PareilsMemes DEF Dette
<1>3. DuRepas(C, id) = {} <=> DuRepas(D, id) = {}
  BY DEF Pareils, DuRepas, Repete
<1> QED BY <1>2, <1>3 DEF Dette

------------------------------------------------------------------------------
(* The invariant: between two requests the timers and the meals of a bowl say *)
(* the same, and what a request that has changed the meals still owes to the  *)
(* timers is in what it carries.                                              *)

\* What a request carries: an hour wherever one will be used, the number in lastId.
Saisie(x, n) ==
  /\ x.etape \in {"check", "creation", "avant"} /\ x.op \in {"addMeal", "update"}
     => x.heure # -1
  /\ x.etape \in {"check", "creation"} => x.op # "distribution"
  /\ x.etape = "avant" => x.op \in {"addMeal", "update", "deleteMeal"}
  /\ x.etape \in {"relecture", "ajout", "maj"} => x.heure # -1
  /\ x.etape = "ajout" => x.repasId = n

Solde(g) ==
  \A t \in Requetes : taches[t] # Rien /\ taches[t].g = g => ~EnDette(taches[t])

Accord ==
  /\ \A g \in Gamelles : Simples(crontabs[g]) /\ \A r \in bd[g].repas : r.heure # -1
  /\ \A t \in Requetes : taches[t] # Rien =>
       /\ Saisie(taches[t], lastId)
       /\ EnDette(taches[t]) =>
            Dette(taches[t], crontabs[taches[t].g], bd[taches[t].g].repas)
  /\ serveur = "lu" => \A g \in Gamelles : photo[g] = bd[g].repas
  /\ serveur = "pret" =>
       \A g \in Gamelles : Solde(g) => Memes(crontabs[g], bd[g].repas)

\* A request handled alone: only its bowl has to be looked at.
LEMMA AccordRequete ==
  ASSUME Numeros, Eteint, Accord, NEW t \in Requetes, taches[t] # Rien,
         UNCHANGED <<serveur, photo>>,
         NEW y \in Tache \cup {Rien}, Devenir(t, y),
         y # Rien => /\ y.g = taches[t].g /\ Saisie(y, lastId')
                     /\ EnDette(y) => Dette(y, crontabs'[y.g], bd'[y.g].repas),
         (y # Rien => ~EnDette(y)) =>
            Memes(crontabs'[taches[t].g], bd'[taches[t].g].repas),
         Simples(crontabs'[taches[t].g]),
         \A r \in bd'[taches[t].g].repas : r.heure # -1,
         \A g \in Gamelles \ {taches[t].g} :
           crontabs'[g] = crontabs[g] /\ bd'[g].repas = bd[g].repas
  PROVE  Accord'
<1> DEFINE h == taches[t].g
<1>1. Typage /\ t \in Lieux /\ h \in Gamelles
  BY DEF Numeros, Lieux, Typage, TypeOK, Tache
<1>2. serveur = "pret" /\ serveur' = "pret"
  BY <1>1 DEF Eteint
<1>3. taches'[t] = y /\ \A u \in Requetes \ {t} : taches[u] = Rien /\ taches'[u] = Rien
  <2>1. taches'[t] = y
    BY <1>1 DEF Devenir, Typage, TypeOK
  <2>2. \A u \in Requetes \ {t} : taches[u] = Rien
    BY DEF Numeros, SeuleRequete
  <2>3. \A u \in Requetes \ {t} : taches'[u] = taches[u]
    BY <1>1 DEF Devenir, Typage, TypeOK, Lieux
  <2> QED BY <2>1, <2>2, <2>3
<1>4. \A g \in Gamelles : Simples(crontabs'[g]) /\ \A r \in bd'[g].repas : r.heure # -1
  BY DEF Accord
<1>5. \A u \in Requetes : taches'[u] # Rien =>
        /\ Saisie(taches'[u], lastId')
        /\ EnDette(taches'[u]) =>
             Dette(taches'[u], crontabs'[taches'[u].g], bd'[taches'[u].g].repas)
  BY <1>3
<1>6. ASSUME NEW g \in Gamelles,
             \A u \in Requetes : taches'[u] # Rien /\ taches'[u].g = g => ~EnDette(taches'[u])
      PROVE  Memes(crontabs'[g], bd'[g].repas)
  <2>1. CASE g = h
    BY <1>3, <1>6, <2>1
  <2>2. CASE g # h
    <3>1. Solde(g)
      BY <1>3, <2>2 DEF Solde
    <3> QED BY <1>2, <2>2, <3>1 DEF Accord
  <2> QED BY <2>1, <2>2
<1> QED BY <1>2, <1>4, <1>5, <1>6 DEF Accord, Solde, EnDette, Dette, Saisie

\* The database executes a command of a request.
LEMMA AccordBase ==
  ASSUME Numeros, Eteint, Accord, NEW t \in Requetes, Base(t)
  PROVE  Accord'
<1> DEFINE x == taches[t]
           h == x.g
           C == crontabs[h]
           R == bd[h].repas
<1>1. /\ x # Rien /\ x.attend /\ UNCHANGED memoire /\ t \in Lieux /\ Typage
      /\ x \in Tache /\ h \in Gamelles
  BY BaseExecute DEF Numeros, Lieux, Typage, TypeOK, Tache
<1>2. UNCHANGED <<crontabs, lastId, serveur, photo>>
  BY <1>1 DEF memoire, processus
<1>3. /\ R \in SUBSET Repas /\ IsFiniteSet(R) /\ Ordonnes(R) /\ Simples(C)
      /\ \A r \in R : r.heure # -1
      /\ Saisie(x, lastId) /\ (EnDette(x) => Dette(x, C, R))
      /\ bd \in [Gamelles -> Document]
  BY <1>1 DEF Accord, Numeros, Numerotes, Typage, TypeOK, EnsemblesFinis, Document
<1>4. ~EnDette(x) => Memes(C, R)
  <2>1. serveur = "pret"
    BY <1>1 DEF Eteint
  <2>2. ~EnDette(x) => Solde(h)
    BY <1>1 DEF Numeros, SeuleRequete, Solde
  <2> QED BY <1>1, <2>1, <2>2 DEF Accord
<1>5. ASSUME NEW y \in Tache, Devenir(t, y), y.g = h, y.op = x.op, y.etape = x.etape,
             y.heure = x.heure, y.poids = x.poids, y.repasId = x.repasId, ~y.attend,
             EnDette(y) => Dette(y, C, bd'[h].repas),
             ~EnDette(y) => Memes(C, bd'[h].repas),
             \A r \in bd'[h].repas : r.heure # -1,
             \A g \in Gamelles \ {h} : bd'[g].repas = bd[g].repas
      PROVE  Accord'
  <2>1. Saisie(y, lastId)
    BY <1>3, <1>5 DEF Saisie
  <2>2. y # Rien
    BY RienTacheAssumption
  <2> QED BY <1>1, <1>2, <1>3, <1>5, <2>1, <2>2, AccordRequete
<1>6. ASSUME NEW ok \in BOOLEAN, NEW lu \in SUBSET Repas, Executer(t, ok, lu)
      PROVE  \E y \in Tache :
               /\ Devenir(t, y) /\ y.g = h /\ y.op = x.op /\ y.etape = x.etape
               /\ y.heure = x.heure /\ y.poids = x.poids /\ y.repasId = x.repasId
               /\ ~y.attend /\ y.ok = ok
  BY <1>1, <1>6, ExecuterAvance
<1>7. CASE Trouver(t) \/ TrouverRepas(t) \/ Creer(t) \/ Consigner(t)
  <2>1. PICK ok \in BOOLEAN, lu \in SUBSET Repas : Executer(t, ok, lu)
    BY <1>1, BaseExecute
  <2>2. PICK y \in Tache :
          /\ Devenir(t, y) /\ y.g = h /\ y.op = x.op /\ y.etape = x.etape
          /\ y.heure = x.heure /\ y.poids = x.poids /\ y.repasId = x.repasId
          /\ ~y.attend
    BY <1>6, <2>1
  <2>3. \A g \in Gamelles : bd'[g].repas = bd[g].repas
    <3>1. CASE Trouver(t) \/ TrouverRepas(t)
      BY <3>1 DEF Trouver, TrouverRepas
    <3>2. CASE Creer(t)
      <4>1. bd' = [bd EXCEPT ![h].docs = @ + 1]
        BY <3>2 DEF Creer
      <4> HIDE DEF h
      <4> QED BY <1>1, <1>3, <4>1 DEF Document
    <3>3. CASE Consigner(t)
      <4>1. bd' = [bd EXCEPT ![h].historique = @ + 1]
        BY <3>3 DEF Consigner
      <4> HIDE DEF h
      <4> QED BY <1>1, <1>3, <4>1 DEF Document
    <3> QED BY <1>7, <3>1, <3>2, <3>3
  <2>4. x.etape \notin {"ajout", "maj", "retrait"}
    BY <1>7 DEF Trouver, TrouverRepas, Creer, Consigner, Attend
  <2>5. EnDette(y) <=> EnDette(x)
    BY <2>2, <2>4 DEF EnDette
  <2>6. EnDette(y) => Dette(y, C, R)
    BY <1>3, <2>2, <2>4, <2>5 DEF Dette
  <2>7. EnDette(y) => Dette(y, C, bd'[h].repas)
    BY <1>1, <2>3, <2>6
  <2>8. ~EnDette(y) => Memes(C, bd'[h].repas)
    BY <1>1, <1>4, <2>3, <2>5
  <2>9. \A r \in bd'[h].repas : r.heure # -1
    BY <1>1, <1>3, <2>3
  <2> HIDE DEF x, h, C, R
  <2> QED BY <1>5, <2>2, <2>3, <2>7, <2>8, <2>9
<1>8. CASE Ajouter(t)
  <2> DEFINE Q == Avec(R, x.repasId, x.heure, x.poids)
  <2>1. PICK y \in Tache :
          /\ Devenir(t, y) /\ y.g = h /\ y.op = x.op /\ y.etape = x.etape
          /\ y.heure = x.heure /\ y.poids = x.poids /\ y.repasId = x.repasId
          /\ ~y.attend
    BY <1>6, <1>8 DEF Ajouter
  <2>2. x.etape = "ajout" /\ bd'[h].repas = Q
    BY <1>1, <1>3, <1>8 DEF Ajouter, Attend, Document
  <2>3. x.repasId = NouvelId(R)
    BY <1>1, <2>2 DEF Numeros, LuAJour
  <2>4. Memes(C, R)
    BY <1>1, <1>4, <2>2 DEF EnDette
  <2>5. Dette(y, C, Q)
    <3> HIDE DEF x, h, C, R, Q
    <3>1. Dette(y, C, Avec(R, y.repasId, y.heure, y.poids))
      BY <1>3, <2>1, <2>2, <2>3, <2>4, DetteAjout
    <3> QED BY <2>1, <3>1 DEF Q
  <2>6. \A g \in Gamelles \ {h} : bd'[g].repas = bd[g].repas
    BY <1>1, <1>3, <1>8 DEF Ajouter
  <2>7. \A r \in bd'[h].repas : r.heure # -1
    BY <1>3, <2>2 DEF Avec, Saisie
  <2>8. EnDette(y)
    BY <2>1, <2>2 DEF EnDette
  <2> HIDE DEF x, h, C, R, Q
  <2> QED BY <1>5, <2>1, <2>2, <2>5, <2>6, <2>7, <2>8
<1>9. CASE Modifier(t)
  <2> DEFINE Q == Modifies(R, x.repasId, x.heure, x.poids)
  <2>1. PICK y \in Tache :
          /\ Devenir(t, y) /\ y.g = h /\ y.op = x.op /\ y.etape = x.etape
          /\ y.heure = x.heure /\ y.poids = x.poids /\ y.repasId = x.repasId
          /\ ~y.attend
    BY <1>6, <1>9 DEF Modifier
  <2>2. x.etape = "maj" /\ bd'[h].repas = Q
    BY <1>1, <1>3, <1>9 DEF Modifier, Attend, Document
  <2>3. Memes(C, R)
    BY <1>1, <1>4, <2>2 DEF EnDette
  <2>4. Dette(y, C, Q)
    <3> HIDE DEF x, h, C, R, Q
    <3>1. Dette(y, C, Modifies(R, y.repasId, y.heure, y.poids))
      BY <1>3, <2>1, <2>2, <2>3, DetteMaj
    <3> QED BY <2>1, <3>1 DEF Q
  <2>5. \A g \in Gamelles \ {h} : bd'[g].repas = bd[g].repas
    BY <1>1, <1>3, <1>9 DEF Modifier
  <2>6. \A r \in bd'[h].repas : r.heure # -1
    BY <1>3, <2>2 DEF Modifies, Saisie, Repas
  <2>7. EnDette(y)
    BY <2>1, <2>2 DEF EnDette
  <2> HIDE DEF x, h, C, R, Q
  <2> QED BY <1>5, <2>1, <2>2, <2>4, <2>5, <2>6, <2>7
<1>10. CASE Retirer(t)
  <2> DEFINE Q == Sans(R, x.repasId)
             retire == Q # R
  <2>1. retire \in BOOLEAN /\ {} \in SUBSET Repas /\ Executer(t, retire, {})
    BY <1>10 DEF Retirer
  <2>2. PICK y \in Tache :
          /\ Devenir(t, y) /\ y.g = h /\ y.op = x.op /\ y.etape = x.etape
          /\ y.heure = x.heure /\ y.poids = x.poids /\ y.repasId = x.repasId
          /\ ~y.attend /\ y.ok = retire
    <3> HIDE DEF retire
    <3> QED BY <1>6, <2>1
  <2>3. x.etape = "retrait" /\ bd'[h].repas = Q
    BY <1>1, <1>3, <1>10 DEF Retirer, Attend, Document
  <2>4. Memes(C, R)
    BY <1>1, <1>4, <2>3 DEF EnDette
  <2>5. y.ok <=> Sans(R, y.repasId) # R
    BY <2>2, Zenon
  <2>6. Dette(y, C, Q)
    <3> HIDE DEF x, h, C, R, Q
    <3>1. Dette(y, C, Sans(R, y.repasId))
      BY <2>2, <2>3, <2>4, <2>5, DetteRetrait
    <3> QED BY <2>2, <3>1 DEF Q
  <2>7. \A g \in Gamelles \ {h} : bd'[g].repas = bd[g].repas
    BY <1>1, <1>3, <1>10 DEF Retirer
  <2>8. \A r \in bd'[h].repas : r.heure # -1
    BY <1>3, <2>3 DEF Sans
  <2>9. EnDette(y)
    BY <2>2, <2>3 DEF EnDette
  <2> HIDE DEF x, h, C, R, Q, retire
  <2> QED BY <1>5, <2>2, <2>3, <2>6, <2>7, <2>8, <2>9
<1> QED BY <1>7, <1>8, <1>9, <1>10 DEF Base

\* A handler that goes on carries what its next call needs, and owes nothing more
\* unless it still has to take the timer of a removed meal away.
LEMMA RelaisSaisie ==
  ASSUME NEW x \in Tache, NEW y \in Tache, Relais(x, y), Saisie(x, lastId)
  PROVE  /\ Saisie(y, lastId')
         /\ EnDette(y) => y.etape = "verif" /\ x.etape = "retrait" /\ y.repasId = x.repasId
<1>1. x.op \in Ops \cup {"distribution"}
  BY DEF Tache
<1>2. EnDette(y) => y.etape = "verif"
  BY DEF EnDette, Relais
<1>3. y.etape = "verif" => x.etape = "retrait" /\ y.repasId = x.repasId
  BY DEF Relais, Vers
<1>4. /\ y.etape # "check"
      /\ y.etape = "creation" /\ y.op \in {"addMeal", "update"} => y.heure # -1
      /\ y.etape = "creation" => y.op # "distribution"
  BY DEF Relais, Vers, Saisie
<1>5. y.etape = "avant" =>
        /\ y.op \in {"addMeal", "update", "deleteMeal"}
        /\ y.op \in {"addMeal", "update"} => y.heure # -1
  BY <1>1 DEF Relais, Vers, Saisie, Ops
<1>6. y.etape \in {"relecture", "ajout", "maj"} => y.heure # -1
  BY DEF Relais, Vers, Saisie
<1>7. y.etape = "ajout" => y.repasId = lastId'
  BY DEF Relais, Vers
<1> QED BY <1>2, <1>3, <1>4, <1>5, <1>6, <1>7 DEF Saisie

LEMMA SuiteNumero ==
  ASSUME NEW t \in Lieux, Suite(t), ~Planter
  PROVE  UNCHANGED bd /\ (~SuiteRelecture(t) => UNCHANGED lastId)
<1> USE DEF sansTaches, memoire, processus
<1>1. CASE \/ SuiteCheck(t) \/ SuiteCreation(t) \/ SuiteLecture(t) \/ SuiteAvant(t)
           \/ SuiteRelecture(t) \/ SuiteAjout(t)
  BY <1>1 DEF SuiteCheck, SuiteCreation, SuiteLecture, SuiteAvant, SuiteRelecture,
     SuiteAjout
<1>2. CASE SuiteMaj(t) \/ SuiteRetrait(t) \/ SuiteVerif(t) \/ SuiteApres(t)
  BY <1>2 DEF SuiteMaj, SuiteRetrait, SuiteVerif, SuiteApres
<1>3. CASE \/ SuiteNextMeal(t) \/ SuiteEatNow(t) \/ SuiteEatNowEnregistre(t)
           \/ SuiteDistribution(t) \/ SuiteEnregistrement(t)
  BY <1>3 DEF SuiteNextMeal, SuiteEatNow, SuiteEatNowEnregistre, SuiteDistribution,
     SuiteEnregistrement
<1> QED BY <1>1, <1>2, <1>3 DEF Suite

\* A continuation of a request pays what was owed.
LEMMA AccordSuite ==
  ASSUME Numeros, Eteint, Accord, NEW t \in Requetes, Suite(t), ~Planter
  PROVE  Accord'
<1> DEFINE x == taches[t]
           h == x.g
           id == x.repasId
           C == crontabs[h]
           R == bd[h].repas
<1>1. /\ x # Rien /\ t \in Lieux /\ Typage /\ x \in Tache /\ h \in Gamelles /\ id \in Nat
      /\ UNCHANGED <<serveur, photo>> /\ crontabs \in [Gamelles -> SUBSET Crontab]
  BY TraitementReseau DEF Numeros, Lieux, Typage, TypeOK, Tache
<1>2. UNCHANGED bd
  BY <1>1, SuiteNumero
<1>3. /\ C \in SUBSET Crontab /\ Simples(C) /\ Saisie(x, lastId)
      /\ (EnDette(x) => Dette(x, C, R)) /\ \A r \in R : r.heure # -1
  BY <1>1 DEF Accord
<1>4. ~EnDette(x) => Memes(C, R)
  <2>1. serveur = "pret"
    BY <1>1 DEF Eteint
  <2>2. ~EnDette(x) => Solde(h)
    BY <1>1 DEF Numeros, SeuleRequete, Solde
  <2> QED BY <1>1, <2>1, <2>2 DEF Accord
<1>5. PICK y \in Tache \cup {Rien} : Devenir(t, y) /\ (y # Rien => Relais(x, y))
  BY <1>1, SuiteAvance DEF Avance, Finir
<1>6. taches'[t] = y
  BY <1>1, <1>5 DEF Devenir, Typage, TypeOK
<1>7. y # Rien => /\ y.g = h /\ Saisie(y, lastId')
                  /\ EnDette(y) => /\ y.etape = "verif" /\ x.etape = "retrait"
                                   /\ y.repasId = id
  BY <1>1, <1>3, <1>5, RelaisSaisie DEF Relais, Vers
<1>8. ASSUME NEW D, Simples(D), crontabs' = [crontabs EXCEPT ![h] = D],
             y # Rien /\ EnDette(y) => Dette(y, D, R),
             (y # Rien => ~EnDette(y)) => Memes(D, R)
      PROVE  Accord'
  <2>1. crontabs'[h] = D /\ \A g \in Gamelles \ {h} : crontabs'[g] = crontabs[g]
    BY <1>1, <1>8
  <2> QED BY <1>1, <1>2, <1>3, <1>5, <1>7, <1>8, <2>1, AccordRequete
<1>9. UNCHANGED crontabs => crontabs' = [crontabs EXCEPT ![h] = C]
  BY <1>1
<1> HIDE DEF x, h, id, C, R
<1>10. CASE ~SuiteAjout(t) /\ ~SuiteMaj(t) /\ ~SuiteRetrait(t) /\ ~SuiteVerif(t)
  <2>1. UNCHANGED crontabs
    BY <1>1, <1>10, CrontabsInchanges
  <2>2. x.etape \notin {"ajout", "maj", "retrait", "verif"}
    BY <1>10 DEF x, Suite, SuiteCheck, SuiteCreation, SuiteLecture, SuiteAvant,
       SuiteRelecture, SuiteApres, SuiteNextMeal, SuiteEatNow, SuiteEatNowEnregistre,
       SuiteDistribution, SuiteEnregistrement, Pret
  <2>3. ~EnDette(x) /\ (y # Rien => ~EnDette(y))
    BY <1>7, <2>2 DEF EnDette
  <2> QED BY <1>3, <1>4, <1>8, <1>9, <2>1, <2>3
<1>11. CASE SuiteRetrait(t)
  <2>1. /\ x.etape = "retrait" /\ ~x.attend /\ UNCHANGED crontabs
        /\ IF x.ok THEN Devenir(t, Appel(x, "verif")) ELSE Finir(t)
    BY <1>11 DEF SuiteRetrait, Pret, sansTaches, memoire, x
  <2>2. Dette(x, C, R)
    BY <1>3, <2>1 DEF EnDette
  <2>3. Memes(SaufRepas(C, id), Sans(R, id)) /\ \A r \in R : r.id # id
    BY <2>1, <2>2 DEF Dette, id
  <2>4. CASE x.ok
    <3>1. y = Appel(x, "verif")
      BY <1>1, <1>6, <2>1, <2>4 DEF Devenir, Typage, TypeOK
    <3>2. y.etape = "verif" /\ y.repasId = id /\ y \in Tache /\ y # Rien
      <4>1. "verif" \in Etapes
        BY DEF Etapes
      <4> QED BY <1>1, <3>1, <4>1, AppelChamps, RienTacheAssumption DEF id
    <3>3. EnDette(y) /\ Dette(y, C, R)
      BY <2>3, <3>2 DEF EnDette, Dette
    <3> QED BY <1>3, <1>8, <1>9, <2>1, <3>2, <3>3
  <2>5. CASE ~x.ok
    <3>1. y = Rien
      BY <1>1, <1>6, <2>1, <2>5 DEF Finir, Devenir, Typage, TypeOK
    <3>2. DuRepas(C, id) = {}
      BY <2>1, <2>2, <2>5 DEF Dette, id
    <3>3. Memes(C, R)
      BY <2>3, <3>2, MemesSans
    <3> QED BY <1>3, <1>8, <1>9, <2>1, <3>1, <3>3
  <2> QED BY <2>4, <2>5
<1>12. CASE SuiteVerif(t)
  <2>1. /\ x.etape = "verif"
        /\ crontabs' = [crontabs EXCEPT ![h] = deleteCrontab(C, id)]
    BY <1>12 DEF SuiteVerif, Pret, x, h, id, C
  <2>2. Dette(x, C, R)
    BY <1>3, <2>1 DEF EnDette
  <2>3. Memes(SaufRepas(C, id), Sans(R, id)) /\ \A r \in R : r.id # id
    BY <2>1, <2>2 DEF Dette, id
  <2>4. y # Rien => ~EnDette(y)
    BY <1>7, <2>1
  <2>5. Memes(SaufRepas(C, id), R)
    BY <2>3, MemesSans
  <2>6. deleteCrontab(C, id) = SaufRepas(C, id) /\ Simples(SaufRepas(C, id))
    BY <1>3, RetirerTimer
  <2> QED BY <1>8, <2>1, <2>4, <2>5, <2>6
<1>13. CASE SuiteMaj(t)
  <2>1. /\ x.etape = "maj" /\ ~x.attend
        /\ crontabs' = [crontabs EXCEPT ![h] =
                          updateCrontab(C, id, x.heure, x.poids, x.ws)]
    BY <1>13 DEF SuiteMaj, Pret, x, h, id, C
  <2>2. Dette(x, C, R) /\ x.heure # -1
    BY <1>3, <2>1 DEF EnDette, Saisie
  <2>3. /\ Memes(SaufRepas(C, id), Sans(R, id))
        /\ DuRepas(C, id) = {} <=> \A r \in R : r.id # id
        /\ \A r \in R : r.id = id => r.heure = x.heure /\ r.poids = x.poids
    BY <2>1, <2>2 DEF Dette, id
  <2>4. y # Rien => ~EnDette(y)
    BY <1>7, <2>1
  <2>5. CASE DuRepas(C, id) = {}
    <3>1. updateCrontab(C, id, x.heure, x.poids, x.ws) = C
      BY <2>5 DEF updateCrontab
    <3>2. Memes(C, R)
      BY <2>3, <2>5, MemesSans
    <3> QED BY <1>3, <1>8, <2>1, <2>4, <3>1, <3>2
  <2>6. CASE DuRepas(C, id) # {}
    <3> DEFINE S == SaufRepas(C, id)
               D == addCrontab(S, id, x.heure, x.poids, x.ws)
    <3>1. /\ deleteCrontab(C, id) = S /\ S \in SUBSET Crontab /\ Simples(S)
          /\ DuRepas(S, id) = {} /\ SaufRepas(S, id) = S
      BY <1>3, RetirerTimer
    <3>2. updateCrontab(C, id, x.heure, x.poids, x.ws) = D
      BY <2>6, <3>1 DEF updateCrontab
    <3>3. Memes(SaufRepas(S, id), Sans(R, id)) /\ \E r \in R : r.id = id
      BY <2>3, <2>6, <3>1
    <3>4. Simples(D) /\ Memes(D, R)
      <4> HIDE DEF S
      <4> QED BY <1>1, <2>2, <2>3, <3>1, <3>3, AjouterTimer
    <3> HIDE DEF D
    <3> QED BY <1>8, <2>1, <2>4, <3>2, <3>4
  <2> QED BY <2>5, <2>6
<1>14. CASE SuiteAjout(t)
  <2> DEFINE D == addCrontab(C, lastId, x.heure, x.poids, x.ws)
  <2>1. x.etape = "ajout" /\ ~x.attend /\ crontabs' = [crontabs EXCEPT ![h] = D]
    BY <1>14 DEF SuiteAjout, Pret, x, h, C
  <2>2. Dette(x, C, R) /\ x.heure # -1 /\ id = lastId
    BY <1>3, <2>1 DEF EnDette, Saisie, id
  <2>3. /\ Memes(SaufRepas(C, id), Sans(R, id)) /\ DuRepas(C, id) = {}
        /\ \E r \in R : r.id = id
        /\ \A r \in R : r.id = id => r.heure = x.heure /\ r.poids = x.poids
    BY <2>1, <2>2 DEF Dette, id
  <2>4. y # Rien => ~EnDette(y)
    BY <1>7, <2>1
  <2>5. Simples(D) /\ Memes(D, R)
    BY <1>1, <1>3, <2>2, <2>3, AjouterTimer
  <2> HIDE DEF D
  <2> QED BY <1>8, <2>1, <2>4, <2>5
<1> QED BY <1>10, <1>11, <1>12, <1>13, <1>14

\* A step that keeps the meals, the requests and what the timers say.
LEMMA AccordPareil ==
  ASSUME Typage, Accord, UNCHANGED <<serveur, photo, lastId>>,
         \A u \in Requetes : taches'[u] = taches[u],
         \A g \in Gamelles : bd'[g].repas = bd[g].repas,
         UNCHANGED crontabs \/ \A g \in Gamelles : Pareils(crontabs[g], crontabs'[g])
  PROVE  Accord'
<1>1. \A u \in Requetes : taches[u] # Rien => taches[u].g \in Gamelles
  BY DEF Typage, TypeOK, Tache, Lieux
<1>2. CASE UNCHANGED crontabs
  BY <1>1, <1>2 DEF Accord, Solde, EnDette, Dette, Saisie
<1>3. CASE \A g \in Gamelles : Pareils(crontabs[g], crontabs'[g])
  <2>1. \A g \in Gamelles : Simples(crontabs'[g]) /\ \A r \in bd'[g].repas : r.heure # -1
    BY <1>3 DEF Pareils, Accord
  <2>2. \A g \in Gamelles : \A x :
          Dette(x, crontabs[g], bd[g].repas) => Dette(x, crontabs'[g], bd'[g].repas)
    BY <1>3, PareilsDette
  <2>3. \A u \in Requetes : taches'[u] # Rien =>
          /\ Saisie(taches'[u], lastId')
          /\ EnDette(taches'[u]) =>
               Dette(taches'[u], crontabs'[taches'[u].g], bd'[taches'[u].g].repas)
    BY <1>1, <2>2 DEF Accord
  <2>4. serveur' = "lu" => \A g \in Gamelles : photo'[g] = bd'[g].repas
    BY DEF Accord
  <2>5. ASSUME serveur' = "pret", NEW g \in Gamelles,
               \A u \in Requetes : taches'[u] # Rien /\ taches'[u].g = g => ~EnDette(taches'[u])
        PROVE  Memes(crontabs'[g], bd'[g].repas)
    <3>1. Solde(g)
      BY <2>5 DEF Solde
    <3>2. Memes(crontabs[g], bd[g].repas)
      BY <2>5, <3>1 DEF Accord
    <3> QED BY <1>3, <3>2, PareilsMemes
  <2> QED BY <2>1, <2>3, <2>4, <2>5 DEF Accord, Solde, EnDette, Dette, Saisie
<1> QED BY <1>2, <1>3

\* The handler of a timer.
LEMMA AccordMinuterie ==
  ASSUME Numeros, Accord, NEW t \in Minuteries, Base(t) \/ Suite(t), ~Planter
  PROVE  Accord'
<1>1. /\ Typage /\ t \in Lieux /\ taches[t] # Rien /\ UNCHANGED <<serveur, photo>>
      /\ taches[t].etape \in EtapesMinuterie
  BY TraitementReseau DEF Numeros, Lieux, MinuteriesBien
<1>2. PICK y : Devenir(t, y)
  BY <1>1, MemeSocket
<1>3. \A u \in Requetes : taches'[u] = taches[u]
  BY <1>1, <1>2, ConstantesAssumption DEF Devenir, Typage, TypeOK, Lieux
<1>4. UNCHANGED crontabs
  BY <1>1, CrontabsInchanges DEF EtapesMinuterie, SuiteAjout, SuiteMaj, SuiteVerif, Pret
<1>5. UNCHANGED lastId
  <2>1. CASE Base(t)
    BY <1>1, <2>1, BaseExecute DEF memoire, processus
  <2>2. CASE Suite(t)
    BY <1>1, <2>2, SuiteNumero DEF EtapesMinuterie, SuiteRelecture, Pret
  <2> QED BY <2>1, <2>2
<1>6. \A g \in Gamelles : bd'[g].repas = bd[g].repas
  BY <1>1, PasBase, MinuterieInerte, SuiteNumero
<1> QED BY <1>1, <1>3, <1>4, <1>5, <1>6, AccordPareil

\* A minute passes, a timer fires: only whether an entry is due changes.
LEMMA AccordTemps ==
  ASSUME Typage, Accord, Tic \/ \E t \in Minuteries, g \in Gamelles : Declencher(t, g)
  PROVE  Accord'
<1>1. UNCHANGED <<serveur, photo, lastId, bd>>
  BY DEF Tic, Declencher, processus
<1>2. \A u \in Requetes : taches'[u] = taches[u]
  <2>1. CASE Tic
    BY <2>1 DEF Tic
  <2>2. CASE \E t \in Minuteries, g \in Gamelles : Declencher(t, g)
    BY <2>2, ConstantesAssumption DEF Declencher, Devenir, Typage, TypeOK, Lieux
  <2> QED BY <2>1, <2>2
<1>3. \A g \in Gamelles : crontabs[g] \in SUBSET Crontab /\ Simples(crontabs[g])
  BY DEF Accord, Typage, TypeOK
<1>4. CASE Tic
  <2>1. ASSUME NEW g \in Gamelles PROVE Pareils(crontabs[g], crontabs'[g])
    <3> DEFINE du(c) == c.ws # Rien /\ c.heure = maintenant'
               F == [c \in crontabs[g] |-> [c EXCEPT !.du = du(c)]]
    <3>1. crontabs'[g] = {F[c] : c \in crontabs[g]}
      BY <1>4 DEF Tic
    <3> HIDE DEF du
    <3>2. \A c \in crontabs[g] : /\ F[c].rang = c.rang /\ F[c].repasId = c.repasId
                                 /\ F[c].heure = c.heure /\ F[c].poids = c.poids
      BY <1>3 DEF Crontab
    <3> HIDE DEF F
    <3> QED BY <1>3, <3>1, <3>2, ImagePareille
  <2> QED BY <1>1, <1>2, <2>1, AccordPareil
<1>5. ASSUME NEW t \in Minuteries, NEW h \in Gamelles, Declencher(t, h)
      PROVE  Accord'
  <2>1. PICK b \in crontabs[h] :
          crontabs' = [crontabs EXCEPT ![h] = (@ \ {b}) \cup {[b EXCEPT !.du = FALSE]}]
    BY <1>5 DEF Declencher
  <2> DEFINE a == [b EXCEPT !.du = FALSE]
  <2>2. a.rang = b.rang /\ a.repasId = b.repasId /\ a.heure = b.heure /\ a.poids = b.poids
    BY <1>3 DEF Crontab
  <2>3. ASSUME NEW g \in Gamelles PROVE Pareils(crontabs[g], crontabs'[g])
    <3> DEFINE F == [c \in crontabs[g] |-> IF g = h /\ c = b THEN a ELSE c]
    <3>1. crontabs'[g] = IF g = h THEN (crontabs[g] \ {b}) \cup {a} ELSE crontabs[g]
      BY <2>1 DEF Typage, TypeOK
    <3> HIDE DEF a
    <3>2. crontabs'[g] = {F[c] : c \in crontabs[g]}
      BY <3>1
    <3>3. \A c \in crontabs[g] : /\ F[c].rang = c.rang /\ F[c].repasId = c.repasId
                                 /\ F[c].heure = c.heure /\ F[c].poids = c.poids
      BY <2>2
    <3> HIDE DEF F
    <3> QED BY <1>3, <3>2, <3>3, ImagePareille
  <2> QED BY <1>1, <1>2, <2>3, AccordPareil
<1> QED BY <1>4, <1>5

\* A message: nothing else is in progress, and the timers only change sockets.
LEMMA AccordRecevoir ==
  ASSUME UnALaFois, -1 \notin HeuresSaisies, Numeros, Eteint, Accord, NEW t \in Requetes,
         NEW w \in Connexions, NEW g \in Gamelles, NEW d \in Demandes(g, w),
         Recevoir(t, d)
  PROVE  Accord'
<1> DEFINE x == [op |-> d.op, etape |-> "check", attend |-> TRUE, ok |-> FALSE,
                 g |-> d.g, ws |-> d.ws, repasId |-> d.repasId,
                 heure |-> d.heure, poids |-> d.poids, avant |-> Rien, lu |-> {}]
<1>1. /\ Typage /\ t \in Lieux /\ UNCHANGED <<serveur, photo, lastId, bd>>
      /\ taches = ToutRien /\ Devenir(t, x) /\ d.g = g /\ d.ws = w
  BY DEF Numeros, Recevoir, Demandes, processus, Lieux
<1>2. serveur = "pret"
  BY DEF Eteint, Recevoir, Demandes
<1>3. Saisie(x, lastId') /\ ~EnDette(x)
  <2>1. d.op \in {"addMeal", "update"} => d.heure # -1
    BY DEF Recevoir, BienFormee
  <2>2. d.op # "distribution"
    BY DEF Demandes, Ops
  <2> QED BY <2>1, <2>2 DEF Saisie, EnDette
<1>4. taches'[t] = x /\ \A u \in Requetes \ {t} : taches'[u] = Rien
  BY <1>1 DEF Devenir, ToutRien, Typage, TypeOK, Lieux
<1> HIDE DEF x
<1>5. ASSUME NEW h \in Gamelles
      PROVE  Simples(crontabs'[h]) /\ Memes(crontabs'[h], bd'[h].repas)
  <2>1. Simples(crontabs[h]) /\ crontabs[h] \in SUBSET Crontab
    BY <1>1 DEF Accord, Typage, TypeOK
  <2>2. Solde(h)
    BY <1>1 DEF Solde, ToutRien, Lieux
  <2>3. Memes(crontabs[h], bd[h].repas)
    BY <1>2, <2>2 DEF Accord
  <2>4. CASE crontabs'[h] = crontabs[h]
    BY <1>1, <2>1, <2>3, <2>4
  <2>5. CASE crontabs'[h] # crontabs[h]
    <3> DEFINE F == [c \in crontabs[h] |-> [c EXCEPT !.ws = w, !.du = FALSE]]
    <3>1. crontabs' = [crontabs EXCEPT ![g] = restartCrontabs(@, w)] \/ UNCHANGED crontabs
      BY <1>1 DEF Recevoir
    <3>2. crontabs'[h] = restartCrontabs(crontabs[h], w)
      BY <1>1, <2>5, <3>1 DEF Typage, TypeOK
    <3>3. crontabs'[h] = {F[c] : c \in crontabs[h]}
      BY <3>2 DEF restartCrontabs
    <3>4. \A c \in crontabs[h] : /\ F[c].rang = c.rang /\ F[c].repasId = c.repasId
                                 /\ F[c].heure = c.heure /\ F[c].poids = c.poids
      BY <2>1 DEF Crontab
    <3> HIDE DEF F
    <3>5. Pareils(crontabs[h], crontabs'[h])
      BY <2>1, <3>3, <3>4, ImagePareille
    <3> QED BY <1>1, <2>3, <3>5, PareilsMemes DEF Pareils
  <2> QED BY <2>4, <2>5
<1>6. \A h \in Gamelles : \A r \in bd'[h].repas : r.heure # -1
  BY <1>1 DEF Accord
<1> QED BY <1>1, <1>2, <1>3, <1>4, <1>5, <1>6 DEF Accord

\* The process stops, starts, and charges the timers of the meals it has read.
LEMMA AccordProcessus ==
  ASSUME Numeros, Eteint, Accord,
         \/ Demarrer \/ LirePhoto \/ restartServer
         \/ Planter \/ EchecDemarrage \/ Panne
  PROVE  Accord'
<1>1. CASE Planter \/ EchecDemarrage \/ Panne
  <2>1. /\ serveur' = "arret" /\ UNCHANGED bd
        /\ \A g \in Gamelles : crontabs'[g] = {}
        /\ \A t \in Requetes : taches'[t] = Rien
    BY <1>1, ArretVide DEF Lieux
  <2>2. Simples({})
    BY DEF Simples
  <2> QED BY <2>1, <2>2 DEF Accord
<1>2. CASE Demarrer \/ LirePhoto \/ restartServer
  <2>1. serveur # "pret" /\ UNCHANGED <<bd, taches, lastId>>
    BY <1>2 DEF Demarrer, LirePhoto, restartServer
  <2>2. (\A t \in Requetes : taches'[t] = Rien) /\ \A g \in Gamelles : crontabs[g] = {}
    BY <2>1 DEF Eteint, Lieux
  <2>3. CASE Demarrer \/ LirePhoto
    BY <2>1, <2>2, <2>3 DEF Demarrer, LirePhoto, Accord
  <2>4. CASE restartServer
    <3>1. ASSUME NEW g \in Gamelles
          PROVE  Simples(crontabs'[g]) /\ Memes(crontabs'[g], bd'[g].repas)
      <4>1. crontabs'[g] = Charges({}, bd[g].repas)
        BY <2>2, <2>4 DEF restartServer, Accord
      <4>2. /\ bd[g].repas \in SUBSET Repas /\ Ordonnes(bd[g].repas)
            /\ \A r \in bd[g].repas : r.heure # -1
        BY DEF Numeros, Numerotes, Accord, Typage, TypeOK, Document
      <4> QED BY <2>1, <4>1, <4>2, ChargerTimers
    <3>2. serveur' = "pret"
      BY <2>4 DEF restartServer
    <3> QED BY <2>1, <2>2, <3>1, <3>2 DEF Accord
  <2> QED BY <1>2, <2>3, <2>4
<1> QED BY <1>1, <1>2

LEMMA AccordStable ==
  ASSUME UnALaFois, BdFiable, -1 \notin HeuresSaisies, Numeros, Eteint, Accord,
         [Next]_vars
  PROVE  Accord'
<1>1. Typage
  BY DEF Numeros
<1>2. CASE Demarrer \/ LirePhoto \/ restartServer \/ EchecDemarrage \/ Panne
  BY <1>2, AccordProcessus
<1>3. CASE UNCHANGED vars \/ \E w \in Connexions :
               (\E pair \in Gamelles \cup {Appli} : Connecter(w, pair)) \/ Deconnecter(w)
  <2>1. UNCHANGED <<bd, taches, crontabs, serveur, photo, lastId>>
    BY <1>3 DEF vars, memoire, processus, Connecter, Deconnecter
  <2> QED BY <1>1, <2>1, AccordPareil
<1>4. ASSUME NEW t \in Requetes, NEW w \in Connexions,
             NEW g \in IF connexions[w].pair = Appli THEN Gamelles ELSE {connexions[w].pair},
             NEW d \in Demandes(g, w), Recevoir(t, d)
      PROVE  Accord'
  <2>1. g \in Gamelles
    BY <1>1, <1>4 DEF Typage, TypeOK
  <2> QED BY <1>4, <2>1, AccordRecevoir
<1>5. ASSUME NEW t \in Lieux, Base(t) \/ Suite(t) \/ Echec(t)
      PROVE  Accord'
  <2>1. ~Echec(t)
    BY DEF Echec
  <2>2. CASE Planter
    BY <2>2, AccordProcessus
  <2>3. CASE ~Planter
    BY <1>5, <2>1, <2>3, AccordBase, AccordSuite, AccordMinuterie DEF Lieux
  <2> QED BY <2>2, <2>3
<1>6. CASE Tic \/ \E t \in Minuteries, g \in Gamelles : Declencher(t, g)
  BY <1>1, <1>6, AccordTemps
<1> QED BY <1>2, <1>3, <1>4, <1>5, <1>6 DEF Next

\* Databases whose meals all have an hour that node-cron accepts.
BasesValides ==
  \A base \in BasesInitiales : \A g \in Gamelles :
    \A r \in base[g].repas : r.heure # -1

LEMMA AccordInit == BasesValides /\ Init => Accord
<1> SUFFICES ASSUME BasesValides, Init PROVE Accord
  OBVIOUS
<1>1. /\ serveur = "arret" /\ \A g \in Gamelles : crontabs[g] = {}
      /\ \A t \in Requetes : taches[t] = Rien
  BY DEF Init, ToutRien, Lieux
<1>2. \A g \in Gamelles : \A r \in bd[g].repas : r.heure # -1
  BY DEF Init, BasesValides
<1> QED BY <1>1, <1>2 DEF Accord, Simples

\* The agreement is that of PlanningFidele: the same triples, and as many timers.
LEMMA MemesNombre ==
  ASSUME NEW C, NEW R, IsFiniteSet(R), Simples(C), Ordonnes(R), Memes(C, R)
  PROVE  Cardinality(C) = Cardinality(R)
<1> DEFINE f == [c \in C |-> CHOOSE r \in R : Dit(c, r)]
<1>1. \A c \in C : f[c] \in R /\ Dit(c, f[c])
  BY DEF Memes
<1>2. f \in [C -> R]
  BY <1>1
<1> HIDE DEF f
<1>3. \A c, d \in C : f[c] = f[d] => c = d
  BY <1>1 DEF Simples, Dit
<1>4. \A r \in R : \E c \in C : f[c] = r
  <2> TAKE r \in R
  <2>1. PICK c \in C : Dit(c, r)
    BY DEF Memes
  <2>2. f[c] = r
    BY <1>1, <2>1 DEF Dit, Ordonnes
  <2> QED BY <2>2
<1>5. f \in Injection(C, R) /\ f \in Surjection(C, R)
  BY <1>2, <1>3, <1>4 DEF Injection, Surjection, IsInjective
<1> QED BY <1>5, FS_Injection

LEMMA AccordSuffit ==
  ASSUME Numeros, Accord
  PROVE  PlanningFidele
<1> SUFFICES ASSUME Repos, NEW g \in Gamelles
             PROVE  /\ {<<c.repasId, c.heure, c.poids>> : c \in crontabs[g]}
                         = {<<r.id, r.heure, r.poids>> : r \in Valides(g)}
                    /\ Cardinality(crontabs[g]) = Cardinality(Valides(g))
  BY DEF PlanningFidele
<1> DEFINE C == crontabs[g]
           R == bd[g].repas
<1>1. Valides(g) = R
  BY DEF Accord, Valides
<1>2. Memes(C, R) /\ Simples(C)
  BY DEF Accord, Repos, Solde
<1>3. IsFiniteSet(R) /\ Ordonnes(R)
  BY DEF Numeros, Numerotes, Typage, EnsemblesFinis
<1>4. {<<c.repasId, c.heure, c.poids>> : c \in C} = {<<r.id, r.heure, r.poids>> : r \in R}
  BY <1>2 DEF Memes, Dit
<1> HIDE DEF C, R
<1> QED BY <1>1, <1>2, <1>3, <1>4, MemesNombre DEF C, R

\* When a message waits for the handler before it, clients for restartServer, the
\* database answers and nobody gives an hour node-cron refuses: between two
\* requests each bowl has exactly one timer per meal, with its hour and portion,
\* whatever was added, changed and removed, and after any number of kills.
THEOREM PlanningToujoursFidele ==
  ASSUME UnALaFois, ~ConnexionPrecoce, BdFiable, -1 \notin HeuresSaisies,
         BasesNumerotees, BasesValides
  PROVE  Spec => []PlanningFidele
<1> DEFINE Inv == Numeros /\ Eteint /\ Accord
<1>1. Init => Inv
  BY NumerosInit, LiensInit, AccordInit
<1>2. Inv /\ [Next]_vars => Inv'
  BY NumerosStables, EteintStable, AccordStable DEF Numeros
<1>3. Inv => PlanningFidele
  BY AccordSuffit
<1> QED BY <1>1, <1>2, <1>3, PTL DEF Spec
=============================================================================
