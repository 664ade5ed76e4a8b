---------------------------- MODULE ServeurAnnonces ---------------------------
(***************************************************************************)
(* Proofs of what a request knows when one message is handled at a time,   *)
(* and of what it tells: no continuation reads a field of undefined, and a *)
(* connected device always shows its next meal.  Sains says what a request *)
(* knows of its bowl, Nouvelles what a device was told and what it is owed.*)
(***************************************************************************)
EXTENDS ServeurSequentiel

------------------------------------------------------------------------------
(* The rejections.  Past check a bowl has a document, so that no reply is     *)
(* null, and what a request knows of the meals is still true when it compares *)
(* the next meal with what it was before.                                     *)

SansDocument(g) == bd[g].docs = 0
Connus ==
  \A g \in Gamelles :
    SansDocument(g) => crontabs[g] = {} /\ bd[g].repas = {} /\ photo[g] = {}

\* The replies of a bowl that is known.
Reponse(x) ==
  /\ SansDocument(x.g) =>
       \/ x.etape = "check" /\ (x.attend \/ ~x.ok)
       \/ x.etape = "creation" /\ x.attend
  /\ x.etape \in EtapesLecture \ {"check"} /\ ~x.attend => x.ok

\* What addMeal, update and deleteMeal know of the meals R of their bowl.
Connait(x, R) ==
  /\ x.etape = "avant" /\ ~x.attend => x.lu = R
  /\ x.etape \in {"relecture", "ajout"} => x.op = "addMeal"
  /\ x.etape = "maj" => x.op = "update" /\ (x.avant = Rien => R = {})
  /\ x.etape \in {"retrait", "verif"} => x.op = "deleteMeal"
  /\ x.etape = "ajout" /\ ~x.attend => R # {}
  /\ x.etape = "apres" =>
       /\ x.op # "deleteMeal" => R # {} /\ (~x.attend => x.lu # {})
       /\ x.op = "update" => x.avant # Rien

Sains ==
  /\ Connus
  /\ \A t \in Lieux : taches[t] # Rien => Reponse(taches[t])
  /\ \A t \in Requetes : taches[t] # Rien => Connait(taches[t], bd[taches[t].g].repas)

\* A document is never removed.
LEMMA DocumentsRestent ==
  ASSUME Typage, [Next]_vars, NEW g \in Gamelles, SansDocument(g)'
  PROVE  SansDocument(g)
<1>1. CASE Immobile \/ Oubli
  BY <1>1 DEF Immobile, Oubli, SansDocument
<1>2. ASSUME NEW t \in Lieux, PasTache(t) PROVE SansDocument(g)
  <2>1. CASE Lecture(t) \/ Enchainement(t) \/ Fin(t) \/ Debut(t) \/ SuiteEnregistrement(t)
    BY <2>1, EnregistrementChamps
       DEF Lecture, Enchainement, Fin, Debut, SansDocument
  <2>2. CASE Creer(t) \/ Ajouter(t) \/ Modifier(t) \/ Retirer(t) \/ Consigner(t)
    <3>1. taches[t].g \in Gamelles
      BY <2>2, EcritureChamps
    <3> DEFINE h == taches[t].g
    <3>2. bd \in [Gamelles -> Document] /\ bd[g].docs \in Nat
      BY DEF Typage, TypeOK, Document
    <3>3. \/ bd' = [bd EXCEPT ![h].docs = @ + 1]
          \/ \E Q : bd' = [bd EXCEPT ![h].repas = Q]
          \/ bd' = [bd EXCEPT ![h].historique = @ + 1]
      BY <2>2 DEF Creer, Ajouter, Modifier, Retirer, Consigner
    <3>4. bd'[g].docs = bd[g].docs \/ bd'[g].docs = bd[g].docs + 1
      <4> HIDE DEF h
      <4> QED BY <3>1, <3>2, <3>3 DEF Document
    <3> QED BY <3>2, <3>4 DEF SansDocument
  <2> QED BY <1>2, <2>1, <2>2 DEF PasTache
<1> QED BY <1>1, <1>2, Pas

\* The handlers of timers are past check; what only requests do, timers do not.
LEMMA SainsBase ==
  ASSUME Numeros, Accord, Sains, [Next]_vars, NEW t \in Lieux, Base(t)
  PROVE  Sains'
<1> DEFINE x == taches[t]
           h == x.g
           R == bd[h].repas
<1>1. /\ x # Rien /\ x.attend /\ UNCHANGED memoire /\ Typage
      /\ x \in Tache /\ h \in Gamelles /\ bd \in [Gamelles -> Document]
      /\ Reponse(x) /\ UNCHANGED <<crontabs, photo>>
  BY BaseExecute DEF Numeros, Typage, TypeOK, Tache, memoire, processus, Sains
<1>2. \A g \in Gamelles : SansDocument(g)' => SansDocument(g)
  BY <1>1, DocumentsRestent
<1>3. \A g \in Gamelles \ {h} : bd'[g] = bd[g]
  BY <1>1 DEF Base, Trouver, TrouverRepas, Creer, Ajouter, Modifier, Retirer, Consigner
<1>4. Connus'
  <2>1. ASSUME NEW g \in Gamelles, SansDocument(g)', g = h
        PROVE  bd'[h].repas = {}
    <3>1. x.etape \in {"check", "creation"}
      BY <1>1, <1>2, <2>1 DEF Reponse
    <3>2. Trouver(t) \/ Creer(t)
      BY <3>1 DEF Base, Trouver, TrouverRepas, Creer, Ajouter, Modifier, Retirer,
         Consigner, Attend
    <3>3. bd'[h].repas = bd[h].repas
      <4>1. UNCHANGED bd \/ bd' = [bd EXCEPT ![h].docs = @ + 1]
        BY <3>2 DEF Trouver, Creer
      <4> HIDE DEF h
      <4> QED BY <1>1, <4>1 DEF Document
    <3> QED BY <1>2, <2>1, <3>3 DEF Sains, Connus
  <2> QED BY <1>1, <1>2, <1>3, <2>1 DEF Sains, Connus
<1>5. ASSUME NEW ok \in BOOLEAN, NEW lu \in SUBSET Repas, Executer(t, ok, lu),
             \/ x.etape \in EtapesLecture /\ UNCHANGED bd /\ (ok <=> bd[h].docs # 0)
             \/ x.etape = "creation" /\ bd'[h].docs # 0
             \/ x.etape \notin EtapesLecture \cup {"creation"},
             t \in Requetes => \A y \in Tache :
               /\ y.op = x.op /\ y.avant = x.avant /\ y.etape = x.etape
               /\ ~y.attend /\ y.lu = lu
               => Connait(y, bd'[h].repas)
      PROVE  Sains'
  <2>1. PICK y \in Tache :
          /\ Devenir(t, y) /\ y.g = h /\ y.op = x.op /\ y.etape = x.etape
          /\ ~y.attend /\ y.ok = ok /\ y.lu = lu /\ y.avant = x.avant
    BY <1>1, <1>5, ExecuterAvance
  <2>2. taches'[t] = y /\ \A u \in Lieux \ {t} : taches'[u] = taches[u]
    BY <1>1, <2>1 DEF Devenir, Typage, TypeOK
  <2>3. Reponse(taches[t])'
    <3>1. x.etape \in {"check", "creation"} \/ bd'[h].docs # 0
      BY <1>1, <1>2 DEF Reponse, SansDocument
    <3>2. UNCHANGED bd => (bd'[h].docs = 0 <=> bd[h].docs = 0)
      OBVIOUS
    <3>3. CASE x.etape \in EtapesLecture /\ UNCHANGED bd /\ (ok <=> bd[h].docs # 0)
      <4>1. bd'[h].docs = 0 => x.etape = "check" /\ ~ok
        BY <1>1, <3>2, <3>3 DEF Reponse, EtapesLecture, SansDocument
      <4>2. x.etape # "check" => ok
        BY <3>2, <3>3, <4>1
      <4> QED BY <2>1, <2>2, <4>1, <4>2, Zenon DEF Reponse, SansDocument
    <3>4. CASE x.etape \notin EtapesLecture
      <4>1. bd'[h].docs # 0
        BY <1>5, <3>1, <3>4 DEF EtapesLecture
      <4> QED BY <2>1, <2>2, <3>4, <4>1, Zenon DEF Reponse, SansDocument
    <3> QED BY <1>5, <3>3, <3>4 DEF EtapesLecture
  <2>4. ASSUME NEW u \in Lieux \ {t}, taches'[u] # Rien PROVE Reponse(taches[u])'
    <3>1. taches'[u] = taches[u] /\ Reponse(taches[u]) /\ taches[u].g \in Gamelles
      BY <1>1, <2>2, <2>4 DEF Sains, Typage, TypeOK, Tache
    <3> QED BY <1>2, <3>1 DEF Reponse, SansDocument
  <2>5. ASSUME NEW u \in Requetes, taches'[u] # Rien
        PROVE  Connait(taches[u], bd[taches[u].g].repas)'
    <3>1. CASE u = t
      BY <1>5, <2>1, <2>2, <3>1 DEF Connait
    <3>2. CASE u # t
      <4>1. taches'[u] = taches[u] /\ u \in Lieux
        BY <2>2, <3>2 DEF Lieux
      <4>2. t \in Minuteries
        BY <1>1, <2>5, <3>2, <4>1 DEF Numeros, SeuleRequete, Lieux
      <4>3. bd'[taches[u].g].repas = bd[taches[u].g].repas
        <5>1. taches[u].g \in Gamelles
          BY <1>1, <2>5, <4>1 DEF Typage, TypeOK, Tache
        <5> QED BY <1>1, <4>2, <5>1, PasBase, MinuterieInerte DEF Lieux
      <4> QED BY <2>5, <4>1, <4>3 DEF Sains, Connait
    <3> QED BY <3>1, <3>2
  <2> QED BY <1>4, <2>3, <2>4, <2>5 DEF Sains
<1>6. /\ bd[h].docs \in Nat /\ R \in SUBSET Repas
      /\ t \in Requetes => Connait(x, R)
  BY <1>1 DEF Sains, Document
<1>7. CASE Trouver(t) \/ TrouverRepas(t)
  <2> DEFINE existe == bd[h].docs > 0
  <2>1. UNCHANGED bd
    BY <1>7 DEF Trouver, TrouverRepas
  <2>2. existe \in BOOLEAN /\ (existe <=> bd[h].docs # 0) /\ {} \in SUBSET Repas
    BY <1>6
  <2>3. CASE Trouver(t)
    <3>1. /\ x.etape \in {"check", "history", "verif", "eatNow", "distribution"}
          /\ Executer(t, existe, {})
      BY <2>3 DEF Trouver, Attend
    <3>2. t \in Requetes => \A y \in Tache :
            y.op = x.op /\ y.etape = x.etape => Connait(y, bd'[h].repas)
      BY <1>6, <3>1 DEF Connait
    <3>3. x.etape \in EtapesLecture
      BY <3>1 DEF EtapesLecture
    <3> HIDE DEF existe
    <3> QED BY <1>5, <2>1, <2>2, <3>1, <3>2, <3>3
  <2>4. CASE TrouverRepas(t)
    <3>1. /\ x.etape \in {"requestData", "avant", "relecture", "apres", "nextMeal"}
          /\ Executer(t, existe, R)
      BY <2>4 DEF TrouverRepas, Attend
    <3>2. t \in Requetes => \A y \in Tache :
            y.op = x.op /\ y.avant = x.avant /\ y.etape = x.etape /\ y.lu = R
            => Connait(y, R)
      BY <1>6, <3>1 DEF Connait
    <3>3. x.etape \in EtapesLecture
      BY <3>1 DEF EtapesLecture
    <3> HIDE DEF existe
    <3> QED BY <1>5, <1>6, <2>1, <2>2, <3>1, <3>2, <3>3
  <2> QED BY <1>7, <2>3, <2>4
<1>8. CASE Creer(t)
  <2>1. x.etape = "creation" /\ Executer(t, TRUE, {})
        /\ bd' = [bd EXCEPT ![h].docs = @ + 1]
    BY <1>8 DEF Creer, Attend
  <2>2. bd'[h].docs = bd[h].docs + 1
    <3> HIDE DEF h
    <3> QED BY <1>1, <2>1 DEF Document
  <2>3. bd'[h].docs # 0
    BY <1>6, <2>2
  <2>4. \A y \in Tache : y.etape = x.etape => Connait(y, bd'[h].repas)
    BY <2>1 DEF Connait
  <2> QED BY <1>5, <2>1, <2>3, <2>4
<1>9. CASE Ajouter(t) \/ Modifier(t) \/ Retirer(t) \/ Consigner(t)
  <2>1. x.etape \in {"ajout", "maj", "retrait", "eatNowEnregistre", "enregistrement"}
    BY <1>9 DEF Ajouter, Modifier, Retirer, Consigner, Attend
  <2>2. t \in Requetes => \A y \in Tache :
          y.op = x.op /\ y.avant = x.avant /\ y.etape = x.etape /\ ~y.attend
          => Connait(y, bd'[h].repas)
    <3>1. CASE Ajouter(t)
      <4>1. x.etape = "ajout" /\ bd'[h].repas = Avec(R, x.repasId, x.heure, x.poids)
        BY <1>1, <3>1 DEF Ajouter, Attend, Document
      <4>2. bd'[h].repas # {}
        BY <4>1 DEF Avec
      <4> QED BY <1>6, <4>1, <4>2 DEF Connait
    <3>2. CASE Modifier(t)
      <4>1. x.etape = "maj" /\ bd'[h].repas = Modifies(R, x.repasId, x.heure, x.poids)
        BY <1>1, <3>2 DEF Modifier, Attend, Document
      <4>2. R = {} => bd'[h].repas = {}
        BY <4>1 DEF Modifies
      <4> QED BY <1>6, <4>1, <4>2 DEF Connait
    <3>3. CASE Retirer(t) \/ Consigner(t)
      <4>1. x.etape \in {"retrait", "eatNowEnregistre", "enregistrement"}
        BY <3>3 DEF Retirer, Consigner, Attend
      <4> QED BY <1>6, <4>1 DEF Connait
    <3> QED BY <1>9, <3>1, <3>2, <3>3
  <2>3. PICK ok \in BOOLEAN, lu \in SUBSET Repas : Executer(t, ok, lu)
    BY <1>1, BaseExecute DEF Numeros
  <2>4. x.etape \notin EtapesLecture \cup {"creation"}
    BY <2>1 DEF EtapesLecture
  <2> QED BY <1>5, <2>2, <2>3, <2>4
<1> QED BY <1>7, <1>8, <1>9 DEF Base

LEMMA AppelAvant ==
  ASSUME NEW y \in Tache, NEW e \in Etapes
  PROVE  Appel(y, e).avant = y.avant /\ DernierAppel(y, e).avant = y.avant
<1> DEFINE a == Appel(y, e)
<1>1. a \in Tache /\ a.avant = y.avant
  BY TacheType DEF Appel, Tache
<1>2. DernierAppel(y, e) = [a EXCEPT !.repasId = 0, !.heure = -1, !.poids = 0]
  BY DEF DernierAppel
<1> HIDE DEF a
<1>3. [a EXCEPT !.repasId = 0, !.heure = -1, !.poids = 0].avant = a.avant
  BY <1>1 DEF Tache
<1> QED BY <1>1, <1>2, <1>3 DEF a

\* What a continuation leaves to the next call of the handler.
LEMMA SainsSuite ==
  ASSUME Numeros, Accord, Sains, NEW t \in Lieux, Suite(t), ~Planter
  PROVE  Sains'
<1> DEFINE x == taches[t]
           h == x.g
           R == bd[h].repas
<1>1. /\ x # Rien /\ Typage /\ x \in Tache /\ h \in Gamelles /\ Reponse(x)
      /\ UNCHANGED <<bd, photo>> /\ R \in SUBSET Repas
  BY TraitementReseau, SuiteNumero DEF Numeros, Typage, TypeOK, Tache, Document, Sains
<1>2. PICK y \in Tache \cup {Rien} : Devenir(t, y) /\ (y # Rien => Relais(x, y))
  BY <1>1, SuiteAvance DEF Avance, Finir
<1>3. taches'[t] = y /\ \A u \in Lieux \ {t} : taches'[u] = taches[u]
  BY <1>1, <1>2 DEF Devenir, Typage, TypeOK
<1>4. Connus'
  <2>1. CASE ~SuiteAjout(t) /\ ~SuiteMaj(t) /\ ~SuiteVerif(t)
    <3>1. UNCHANGED crontabs
      BY <2>1, CrontabsInchanges
    <3> QED BY <1>1, <3>1 DEF Sains, Connus, SansDocument
  <2>2. CASE SuiteAjout(t) \/ SuiteMaj(t) \/ SuiteVerif(t)
    <3>1. ~SansDocument(h)
      BY <1>1, <2>2 DEF Reponse, SuiteAjout, SuiteMaj, SuiteVerif, Pret
    <3>2. \A g \in Gamelles \ {h} : crontabs'[g] = crontabs[g]
      BY <1>1, <2>2 DEF SuiteAjout, SuiteMaj, SuiteVerif, Typage, TypeOK
    <3> QED BY <1>1, <3>1, <3>2 DEF Sains, Connus, SansDocument
  <2> QED BY <2>1, <2>2
<1>5. y # Rien => Reponse(y)
  <2> SUFFICES ASSUME y # Rien PROVE Reponse(y)
    OBVIOUS
  <2>1. y.attend /\ y.g = h /\ y.etape # "check"
    BY <1>2 DEF Relais, Vers
  <2>2. CASE y.etape = "creation"
    BY <2>1, <2>2 DEF Reponse
  <2>3. CASE y.etape # "creation"
    <3>1. CASE SuiteCheck(t)
      <4>1. x.etape = "check" /\ ~x.attend /\ (x.ok \/ y = Appel(x, "creation"))
        BY <1>1, <1>2, <1>3, <3>1 DEF SuiteCheck, Pret, Devenir, Typage, TypeOK
      <4>2. x.ok
        <5>1. "creation" \in Etapes
          BY DEF Etapes
        <5> QED BY <1>1, <2>3, <4>1, <5>1, AppelChamps
      <4> QED BY <1>1, <2>1, <4>1, <4>2 DEF Reponse
    <3>2. CASE ~SuiteCheck(t)
      <4>1. x.etape # "check" /\ ~x.attend
        BY <3>2 DEF Suite, SuiteCreation, SuiteLecture, SuiteAvant, SuiteRelecture,
           SuiteAjout, SuiteMaj, SuiteRetrait, SuiteVerif, SuiteApres, SuiteNextMeal,
           SuiteEatNow, SuiteEatNowEnregistre, SuiteDistribution, SuiteEnregistrement,
           Pret
      <4> QED BY <1>1, <2>1, <4>1 DEF Reponse
    <3> QED BY <3>1, <3>2
  <2> QED BY <2>2, <2>3
<1>6. t \in Requetes /\ y # Rien => Connait(y, R)
  <2> SUFFICES ASSUME t \in Requetes, y # Rien PROVE Connait(y, R)
    OBVIOUS
  <2>1. /\ Connait(x, R) /\ Saisie(x, lastId) /\ (EnDette(x) => Dette(x, crontabs[h], R))
        /\ y.attend /\ y.op = x.op /\ y \in Tache
    BY <1>1, <1>2 DEF Sains, Accord, Relais, Vers
  <2>2. CASE SuiteAvant(t)
    <3> DEFINE p == ProchainOuRien(x.lu)
               e == CASE x.op = "update" -> "maj"
                      [] x.op = "deleteMeal" -> "retrait"
                      [] OTHER -> "relecture"
               z == [x EXCEPT !.avant = p]
    <3>1. /\ x.etape = "avant" /\ ~x.attend /\ taches'[t] = Appel(z, e)
      BY <1>1, <2>2 DEF SuiteAvant, Pret, Devenir, Typage, TypeOK, Reponse, EtapesLecture
    <3>2. /\ x.lu = R /\ x.op \in {"addMeal", "update", "deleteMeal"}
      BY <2>1, <3>1 DEF Connait, Saisie
    <3>3. p \in Affichage \cup {Rien} /\ (R # {} => p # Rien)
      BY <1>1, <3>2, ProchainType, RienAssumption DEF Typage, EnsemblesFinis
    <3>4. z \in Tache /\ z.avant = p
      <4> HIDE DEF p, x
      <4> QED BY <1>1, <3>3 DEF Tache
    <3>5. y.etape = e /\ y.avant = p
      <4>1. e \in Etapes
        BY DEF Etapes
      <4> HIDE DEF z, e, p
      <4> QED BY <1>3, <3>1, <3>4, <4>1, AppelChamps, AppelAvant
    <3>6. /\ e = "maj" => x.op = "update"
          /\ e = "retrait" => x.op = "deleteMeal"
          /\ e = "relecture" => x.op = "addMeal"
          /\ e \in {"maj", "retrait", "relecture"}
      BY <3>2
    <3> HIDE DEF e, p, z
    <3> QED BY <2>1, <3>3, <3>5, <3>6 DEF Connait
  <2>3. CASE SuiteAjout(t) \/ SuiteMaj(t) \/ SuiteVerif(t)
    <3>1. /\ x.etape \in {"ajout", "maj", "verif"}
          /\ x.etape \in {"ajout", "maj"} => ~x.attend
          /\ x.etape = "maj" => DuRepas(crontabs[h], x.repasId) # {}
          /\ y = DernierAppel(x, "apres")
      BY <1>1, <1>2, <1>3, <2>3
         DEF SuiteAjout, SuiteMaj, SuiteVerif, Pret, Finir, Devenir, Typage, TypeOK
    <3>2. y.etape = "apres" /\ y.avant = x.avant
      <4>1. "apres" \in Etapes
        BY DEF Etapes
      <4> QED BY <1>1, <3>1, <4>1, AppelChamps, AppelAvant
    <3>3. CASE x.etape = "maj"
      <4>1. R # {}
        BY <2>1, <3>1, <3>3 DEF EnDette, Dette
      <4> QED BY <2>1, <3>2, <3>3, <4>1 DEF Connait
    <3>4. CASE x.etape # "maj"
      BY <2>1, <3>1, <3>2, <3>4 DEF Connait
    <3> QED BY <3>3, <3>4
  <2>4. CASE ~SuiteAvant(t) /\ ~SuiteAjout(t) /\ ~SuiteMaj(t) /\ ~SuiteVerif(t)
    <3>1. x.etape \notin {"avant", "ajout", "maj", "verif"}
      BY <2>4 DEF Suite, SuiteCheck, SuiteCreation, SuiteLecture, SuiteRelecture,
         SuiteRetrait, SuiteApres, SuiteNextMeal, SuiteEatNow, SuiteEatNowEnregistre,
         SuiteDistribution, SuiteEnregistrement, Pret
    <3>2. /\ y.etape \notin {"relecture", "maj", "retrait", "apres"}
          /\ y.etape = "ajout" => x.etape = "relecture"
          /\ y.etape = "verif" => x.etape = "retrait"
      BY <1>2, <3>1 DEF Relais, Vers
    <3> QED BY <2>1, <3>2 DEF Connait
  <2> QED BY <2>2, <2>3, <2>4
<1>7. ASSUME NEW u \in Lieux, taches'[u] # Rien PROVE Reponse(taches[u])'
  BY <1>1, <1>3, <1>5, <1>7 DEF Sains, Reponse, SansDocument
<1>8. ASSUME NEW u \in Requetes, taches'[u] # Rien
      PROVE  Connait(taches[u], bd[taches[u].g].repas)'
  <2>1. CASE u = t
    <3>1. y # Rien /\ y.g = h
      BY <1>2, <1>3, <1>8, <2>1 DEF Relais, Vers
    <3> QED BY <1>1, <1>3, <1>6, <2>1, <3>1 DEF Connait
  <2>2. CASE u # t
    BY <1>1, <1>3, <1>8, <2>2 DEF Sains, Connait, Lieux
  <2> QED BY <2>1, <2>2
<1> QED BY <1>4, <1>7, <1>8 DEF Sains

\* No continuation reads a field of undefined.
LEMMA SansRejet ==
  ASSUME Numeros, Sains, NEW t \in Lieux, Suite(t)
  PROVE  UNCHANGED serveur
<1> USE DEF sansTaches, memoire, processus
<1> DEFINE x == taches[t]
<1>1. Typage
  BY DEF Numeros
<1>2. ASSUME x # Rien PROVE x \in Tache /\ Reponse(x)
  BY <1>1, <1>2 DEF Typage, TypeOK, Sains
<1>3. CASE \/ SuiteCheck(t) \/ SuiteCreation(t) \/ SuiteAjout(t) \/ SuiteMaj(t)
           \/ SuiteRetrait(t) \/ SuiteVerif(t) \/ SuiteEatNowEnregistre(t)
           \/ SuiteEnregistrement(t)
  BY <1>3 DEF SuiteCheck, SuiteCreation, SuiteAjout, SuiteMaj, SuiteRetrait, SuiteVerif,
     SuiteEatNowEnregistre, SuiteEnregistrement
<1>4. CASE SuiteLecture(t) \/ SuiteAvant(t) \/ SuiteRelecture(t)
  BY <1>2, <1>4 DEF SuiteLecture, SuiteAvant, SuiteRelecture, Pret, Reponse, EtapesLecture
<1>5. CASE SuiteNextMeal(t) \/ SuiteEatNow(t) \/ SuiteDistribution(t)
  BY <1>2, <1>5 DEF SuiteNextMeal, SuiteEatNow, SuiteDistribution, Pret, Reponse,
     EtapesLecture
<1>6. CASE SuiteApres(t)
  <2>1. x # Rien /\ x.etape = "apres" /\ ~x.attend
    BY <1>6 DEF SuiteApres, Pret
  <2>2. t \in Requetes
    BY <2>1 DEF Numeros, MinuteriesBien, EtapesMinuterie, Lieux
  <2>3. x.ok /\ Connait(x, bd[x.g].repas)
    BY <1>2, <2>1, <2>2 DEF Reponse, EtapesLecture, Sains
  <2>4. x.op # "deleteMeal" => ProchainOuRien(x.lu) # Rien
    <3>1. x.lu \in SUBSET Repas /\ IsFiniteSet(x.lu)
      BY <1>1, <1>2, <2>1 DEF Tache, Typage, EnsemblesFinis
    <3> QED BY <2>1, <2>3, <3>1, ProchainType, RienAssumption DEF Connait
  <2>5. ~Indefini(x.op, ProchainOuRien(x.lu), x.avant)
    BY <2>1, <2>3, <2>4 DEF Indefini, Connait
  <2> QED BY <1>6, <2>3, <2>5 DEF SuiteApres
<1> QED BY <1>3, <1>4, <1>5, <1>6 DEF Suite

LEMMA SainsStables ==
  ASSUME ~ConnexionPrecoce, BdFiable, Numeros, Eteint, Accord, Sains, [Next]_vars
  PROVE  Sains'
<1>1. Typage /\ \A g \in Gamelles : SansDocument(g)' => SansDocument(g)
  BY DocumentsRestent DEF Numeros
<1>2. CASE Planter \/ EchecDemarrage \/ Panne
  <2>1. \A g \in Gamelles : photo'[g] = {}
    BY <1>2 DEF Planter, EchecDemarrage, Panne, Arreter
  <2>2. /\ UNCHANGED bd /\ \A g \in Gamelles : crontabs'[g] = {}
        /\ \A t \in Lieux : taches'[t] = Rien
    BY <1>2, ArretVide
  <2> QED BY <2>1, <2>2 DEF Sains, Connus, SansDocument, Lieux
<1>3. ASSUME UNCHANGED <<bd, taches>>, Connus' PROVE Sains'
  BY <1>3 DEF Sains, Reponse, Connait, SansDocument
<1>4. CASE Demarrer \/ LirePhoto \/ restartServer
  <2>1. UNCHANGED <<bd, taches>>
    BY <1>4 DEF Demarrer, LirePhoto, restartServer
  <2>2. ASSUME NEW g \in Gamelles, SansDocument(g)'
        PROVE  crontabs'[g] = {} /\ bd'[g].repas = {} /\ photo'[g] = {}
    <3>1. crontabs[g] = {} /\ bd[g].repas = {} /\ photo[g] = {}
      BY <1>1, <2>2 DEF Sains, Connus
    <3>2. Charges({}, {}) = {}
      BY DEF Charges
    <3> QED BY <1>4, <2>1, <3>1, <3>2 DEF Demarrer, LirePhoto, restartServer
  <2> QED BY <1>3, <2>1, <2>2 DEF Connus
<1>5. CASE UNCHANGED vars \/ \E w \in Connexions :
               (\E pair \in Gamelles \cup {Appli} : Connecter(w, pair)) \/ Deconnecter(w)
  <2>1. UNCHANGED <<bd, taches, crontabs, photo>>
    BY <1>5 DEF vars, memoire, processus, Connecter, Deconnecter
  <2> QED BY <1>3, <2>1 DEF Sains, Connus, SansDocument
<1>6. CASE Tic
  <2>1. UNCHANGED <<bd, taches, photo>> /\ \A g \in Gamelles : crontabs[g] = {} => crontabs'[g] = {}
    BY <1>6 DEF Tic, processus
  <2> QED BY <1>3, <2>1 DEF Sains, Connus, SansDocument
<1>7. ASSUME NEW t \in Lieux, NEW x \in Tache, Devenir(t, x), Reponse(x),
             t \in Requetes => x.etape = "check", UNCHANGED <<bd, photo>>,
             \A g \in Gamelles : crontabs[g] = {} => crontabs'[g] = {}
      PROVE  Sains'
  <2>1. taches'[t] = x /\ \A u \in Lieux \ {t} : taches'[u] = taches[u]
    BY <1>1, <1>7 DEF Devenir, Typage, TypeOK
  <2>2. ASSUME NEW u \in Lieux, taches'[u] # Rien PROVE Reponse(taches[u])'
    BY <1>7, <2>1, <2>2 DEF Sains, Reponse, SansDocument
  <2>3. ASSUME NEW u \in Requetes, taches'[u] # Rien
        PROVE  Connait(taches[u], bd[taches[u].g].repas)'
    BY <1>7, <2>1, <2>3 DEF Sains, Connait, Lieux
  <2>4. Connus'
    BY <1>7 DEF Sains, Connus, SansDocument
  <2> QED BY <2>2, <2>3, <2>4 DEF Sains
<1>8. ASSUME NEW t \in Requetes, NEW w \in Connexions,
             NEW g \in IF connexions[w].pair = Appli THEN Gamelles ELSE {connexions[w].pair},
             NEW d \in Demandes(g, w), Recevoir(t, d)
      PROVE  Sains'
  <2> DEFINE x == [op |-> d.op, etape |-> "check", attend |-> TRUE, ok |-> FALSE,
                   g |-> d.g, ws |-> d.ws, repasId |-> d.repasId,
                   heure |-> d.heure, poids |-> d.poids, avant |-> Rien, lu |-> {}]
  <2>1. /\ Devenir(t, x) /\ UNCHANGED <<bd, photo>>
        /\ \/ UNCHANGED crontabs
           \/ crontabs' = [crontabs EXCEPT ![d.g] = restartCrontabs(@, d.ws)]
    BY <1>8 DEF Recevoir, processus
  <2>2. ASSUME NEW h \in Gamelles, crontabs[h] = {} PROVE crontabs'[h] = {}
    <3>1. restartCrontabs({}, d.ws) = {}
      BY DEF restartCrontabs
    <3>2. crontabs'[h] = crontabs[h] \/ crontabs'[h] = restartCrontabs(crontabs[h], d.ws)
      BY <1>1, <2>1 DEF Typage, TypeOK
    <3> QED BY <2>2, <3>1, <3>2
  <2>3. g \in Gamelles
    BY <1>1, <1>8 DEF Typage, TypeOK
  <2>4. x \in Tache
    BY <2>3, RequeteType
  <2>5. Reponse(x) /\ x.etape = "check" /\ t \in Lieux
    BY DEF Reponse, Lieux
  <2> HIDE DEF x
  <2> QED BY <1>7, <2>1, <2>2, <2>4, <2>5
<1>9. ASSUME NEW t \in Minuteries, NEW g \in Gamelles, Declencher(t, g) PROVE Sains'
  <2>1. PICK c \in crontabs[g] :
          /\ c.ws # Rien
          /\ crontabs' = [crontabs EXCEPT ![g] = (@ \ {c}) \cup {[c EXCEPT !.du = FALSE]}]
          /\ Devenir(t, [op |-> "distribution", etape |-> "distribution",
                         attend |-> TRUE, ok |-> FALSE, g |-> g, ws |-> c.ws,
                         repasId |-> 0, heure |-> -1, poids |-> 0, avant |-> Rien,
                         lu |-> {}])
    BY <1>9 DEF Declencher
  <2> DEFINE x == [op |-> "distribution", etape |-> "distribution",
                   attend |-> TRUE, ok |-> FALSE, g |-> g, ws |-> c.ws,
                   repasId |-> 0, heure |-> -1, poids |-> 0, avant |-> Rien,
                   lu |-> {}]
  <2>2. c.ws \in Connexions
    BY <1>1, <2>1 DEF Typage, TypeOK, Crontab
  <2>3. x \in Tache
    BY <2>2, ConstantesAssumption DEF Tache, Etapes, Heures
  <2>4. x.attend /\ x.g = g /\ x.etape = "distribution" /\ Devenir(t, x)
    BY <2>1
  <2>5. ~SansDocument(g)
    BY DEF Sains, Connus
  <2>6. Reponse(x) /\ t \in Lieux /\ t \notin Requetes
    <3> HIDE DEF x
    <3> QED BY <2>4, <2>5, ConstantesAssumption DEF Reponse, Lieux
  <2>7. UNCHANGED <<bd, photo>>
    BY <1>9 DEF Declencher, processus
  <2>8. \A h \in Gamelles : crontabs[h] = {} => crontabs'[h] = {}
    BY <1>1, <2>1 DEF Typage, TypeOK
  <2> HIDE DEF x
  <2> QED BY <1>7, <2>3, <2>4, <2>6, <2>7, <2>8
<1>10. ASSUME NEW t \in Lieux, Base(t) \/ Suite(t) \/ Echec(t) PROVE Sains'
  <2>1. ~Echec(t)
    BY DEF Echec
  <2> QED BY <1>2, <1>10, <2>1, SainsBase, SainsSuite
<1> QED BY <1>2, <1>4, <1>5, <1>6, <1>8, <1>9, <1>10 DEF Next

\* Databases in which a bowl that has meals has a document.
BasesConnues ==
  \A base \in BasesInitiales : \A g \in Gamelles :
    base[g].docs = 0 => base[g].repas = {}

LEMMA SainsInit == BasesConnues /\ Init => Sains
BY DEF Init, BasesConnues, Sains, Connus, SansDocument, ToutRien, Lieux

\* When a message waits for the handler before it, clients for restartServer, the
\* database answers and nobody gives an hour node-cron refuses, the process only
\* stops when it is killed: the continuations that nobody catches (89, 141, 198 of
\* traitement.js) never read a field of undefined.
THEOREM JamaisDePlantage ==
  ASSUME UnALaFois, ~ConnexionPrecoce, BdFiable, -1 \notin HeuresSaisies,
         BasesNumerotees, BasesValides, BasesConnues
  PROVE  Spec => SansPlantage
<1> DEFINE Inv == Numeros /\ Eteint /\ Accord /\ Sains
<1>1. Init => Inv
  BY NumerosInit, LiensInit, AccordInit, SainsInit
<1>2. Inv /\ [Next]_vars => Inv'
  BY NumerosStables, EteintStable, AccordStable, SainsStables DEF Numeros
<1>3. Inv /\ [Next]_vars
        => [serveur # "arret" /\ serveur' = "arret" => pannes' = pannes + 1]_vars
  <2> SUFFICES ASSUME Inv, Next, serveur # "arret", serveur' = "arret"
               PROVE  pannes' = pannes + 1
    OBVIOUS
  <2>1. ASSUME NEW t \in Lieux PROVE ~(Base(t) \/ Suite(t) \/ Echec(t))
    <3>1. ~Echec(t)
      BY DEF Echec
    <3>2. ~Base(t)
      BY BaseExecute DEF Numeros, memoire, processus
    <3> QED BY <3>1, <3>2, SansRejet
  <2>2. ~(Demarrer \/ LirePhoto \/ restartServer \/ EchecDemarrage \/ Tic)
    BY DEF Demarrer, LirePhoto, restartServer, EchecDemarrage, Tic, processus
  <2>3. UNCHANGED serveur \/ Panne
    BY <2>1, <2>2 DEF Next, Connecter, Deconnecter, Recevoir, Declencher, processus
  <2> QED BY <2>3 DEF Panne
<1> QED BY <1>1, <1>2, <1>3, PTL DEF Spec, SansPlantage

------------------------------------------------------------------------------
(* The next meal: how many minutes there are before an hour h, from the one   *)
(* after m, and the hour of the meals of R for which there are the fewest.    *)

Minutes == 0..(Jour - 1)
Attente(m, h) == (h - m - 1) % Jour
EstProchaine(m, R, h) ==
  IF R = {} THEN h = -1
  ELSE \E r \in R : r.heure = h /\ \A x \in R : Attente(m, h) <= Attente(m, x.heure)

Valable(R) == R \in SUBSET Repas /\ IsFiniteSet(R) /\ \A r \in R : r.heure # -1

\* Later today, or tomorrow; and a minute later.
LEMMA AttenteCalcul ==
  ASSUME NEW m \in Minutes, NEW h \in Minutes
  PROVE  /\ Attente(m, h) = IF h > m THEN h - m - 1 ELSE h - m - 1 + Jour
         /\ Attente(m, h) \in Minutes
<1> DEFINE a == h - m - 1
<1>1. /\ Jour \in Nat \ {0} /\ h \in Int /\ m \in Int /\ a \in Int
      /\ h >= 0 /\ h < Jour /\ m >= 0 /\ m < Jour
  BY ConstantesAssumption DEF Minutes
<1>2. CASE h > m
  <2>1. 0 <= a /\ a < Jour
    BY <1>1, <1>2
  <2> HIDE DEF a
  <2>2. a % Jour = a
    BY <1>1, <2>1
  <2> QED BY <1>1, <1>2, <2>1, <2>2 DEF Attente, a, Minutes
<1>3. CASE ~(h > m)
  <2>1. 0 <= a + Jour /\ a + Jour < Jour
    BY <1>1, <1>3
  <2> HIDE DEF a
  <2>2. a % Jour = a + Jour
    BY <1>1, <2>1
  <2> QED BY <1>1, <1>3, <2>1, <2>2 DEF Attente, a, Minutes
<1> QED BY <1>2, <1>3

\* Two hours at the same distance are the same.
LEMMA AttenteInjective ==
  ASSUME NEW m \in Minutes, NEW h \in Minutes, NEW k \in Minutes,
         Attente(m, h) = Attente(m, k)
  PROVE  h = k
<1>1. /\ Jour \in Nat \ {0} /\ h \in Int /\ k \in Int /\ m \in Int
      /\ 0 <= h /\ h < Jour /\ 0 <= k /\ k < Jour
  BY ConstantesAssumption DEF Minutes
<1>2. /\ Attente(m, h) = IF h > m THEN h - m - 1 ELSE h - m - 1 + Jour
      /\ Attente(m, k) = IF k > m THEN k - m - 1 ELSE k - m - 1 + Jour
  BY AttenteCalcul
<1>3. (IF h > m THEN h - m - 1 ELSE h - m - 1 + Jour)
        = (IF k > m THEN k - m - 1 ELSE k - m - 1 + Jour)
  BY <1>2
<1> QED BY <1>1, <1>3

LEMMA HeuresValables ==
  ASSUME NEW R, Valable(R)
  PROVE  /\ \A r \in R : r.heure \in Minutes
         /\ R \in SUBSET Repas /\ IsFiniteSet(R)
BY DEF Valable, Repas, Heures, Minutes

LEMMA ProchaineUnique ==
  ASSUME NEW m \in Minutes, NEW R, Valable(R), NEW h, NEW k,
         EstProchaine(m, R, h), EstProchaine(m, R, k)
  PROVE  h = k
<1>1. CASE R = {}
  BY <1>1 DEF EstProchaine
<1>2. CASE R # {}
  <2>1. /\ h \in Minutes /\ k \in Minutes
        /\ Attente(m, h) <= Attente(m, k) /\ Attente(m, k) <= Attente(m, h)
    BY <1>2, HeuresValables DEF EstProchaine
  <2>2. Attente(m, h) \in Int /\ Attente(m, k) \in Int
    BY <2>1, AttenteCalcul DEF Minutes
  <2>3. Attente(m, h) = Attente(m, k)
    BY <2>1, <2>2
  <2> QED BY <2>1, <2>3, AttenteInjective
<1> QED BY <1>1, <1>2

\* HeureProchaine, the reference of AnnonceAJour, is such an hour.
LEMMA HeureProchaineJuste ==
  ASSUME maintenant \in Minutes, NEW R, Valable(R)
  PROVE  EstProchaine(maintenant, R, HeureProchaine(R))
<1>1. CASE R = {}
  BY <1>1 DEF EstProchaine, HeureProchaine
<1>2. CASE R # {}
  <2> DEFINE T == {Attente(maintenant, r.heure) : r \in R}
  <2>1. T \in SUBSET Nat /\ T # {}
    BY <1>2, HeuresValables, AttenteCalcul DEF Minutes
  <2>2. PICK n \in T : \A k \in T : n <= k
    <3> HIDE DEF T
    <3> QED BY <2>1, MinNat
  <2>3. PICK r \in R : \A x \in R : Attente(maintenant, r.heure) <= Attente(maintenant, x.heure)
    BY <2>2
  <2>4. \A q \in R : Delai(q) = Attente(maintenant, q.heure)
    BY DEF Delai, Attente
  <2> DEFINE p == CHOOSE q \in R : \A x \in R : Delai(q) <= Delai(x)
  <2>5. p \in R /\ \A x \in R : Delai(p) <= Delai(x)
    BY <2>3, <2>4
  <2>6. HeureProchaine(R) = p.heure
    BY <1>2 DEF HeureProchaine
  <2> HIDE DEF p
  <2> QED BY <1>2, <2>4, <2>5, <2>6 DEF EstProchaine
<1> QED BY <1>1, <1>2

\* So is the hour of the meal that nextMeal chooses.
LEMMA ProchainJuste ==
  ASSUME maintenant \in Minutes, NEW R, Valable(R), R # {}
  PROVE  EstProchaine(maintenant, R, Prochain(R).heure)
<1> DEFINE m == maintenant
           restants == {r \in R : r.heure > m}
           p == Prochain(R)
<1>1. /\ R \in SUBSET Repas /\ IsFiniteSet(R) /\ \A r \in R : r.heure \in Minutes
      /\ Jour \in Nat \ {0}
  BY HeuresValables, ConstantesAssumption
<1>2. CASE restants # {}
  <2>1. PlusTot(restants) \in SUBSET Repas /\ PlusTot(restants) # {}
    <3>1. restants \in SUBSET Repas
      BY <1>1
    <3> HIDE DEF restants
    <3> QED BY <1>2, <3>1, PlusTotNonVide DEF PlusTot
  <2>2. p \in PlusTot(restants)
    <3>1. p = Premier(PlusTot(restants))
      BY <1>2 DEF Prochain
    <3> HIDE DEF restants
    <3> QED BY <2>1, <3>1, PremierDedans
  <2>3. p \in R /\ p.heure > m /\ \A x \in R : x.heure > m => p.heure <= x.heure
    BY <2>2 DEF PlusTot
  <2> HIDE DEF p, restants
  <2>4. ASSUME NEW x \in R PROVE Attente(m, p.heure) <= Attente(m, x.heure)
    <3>1. /\ Attente(m, p.heure) = IF p.heure > m THEN p.heure - m - 1 ELSE p.heure - m - 1 + Jour
          /\ Attente(m, x.heure) = IF x.heure > m THEN x.heure - m - 1 ELSE x.heure - m - 1 + Jour
      BY <1>1, <2>3, AttenteCalcul
    <3> QED BY <1>1, <2>3, <3>1 DEF Minutes
  <2> QED BY <1>2, <2>3, <2>4 DEF EstProchaine, p
<1>3. CASE restants = {}
  <2>1. PlusTot(R) \in SUBSET Repas /\ PlusTot(R) # {} /\ PlusTot(R) \subseteq R
    BY <1>1, PlusTotNonVide DEF PlusTot
  <2>2. p \in PlusTot(R)
    <3>1. p = Dernier(PlusTot(R))
      BY <1>3 DEF Prochain
    <3>2. IsFiniteSet(PlusTot(R))
      BY <1>1, <2>1, FS_Subset
    <3> QED BY <2>1, <3>1, <3>2, DernierDedans
  <2>3. p \in R /\ \A x \in R : p.heure <= x.heure /\ ~(x.heure > m)
    BY <1>3, <2>2 DEF PlusTot
  <2> HIDE DEF p, restants
  <2>4. ASSUME NEW x \in R PROVE Attente(m, p.heure) <= Attente(m, x.heure)
    <3>1. /\ Attente(m, p.heure) = IF p.heure > m THEN p.heure - m - 1 ELSE p.heure - m - 1 + Jour
          /\ Attente(m, x.heure) = IF x.heure > m THEN x.heure - m - 1 ELSE x.heure - m - 1 + Jour
      BY <1>1, <2>3, AttenteCalcul
    <3> QED BY <1>1, <2>3, <3>1 DEF Minutes
  <2> QED BY <2>3, <2>4 DEF EstProchaine, p
<1> QED BY <1>2, <1>3

HeureDe(a) == IF a = Rien THEN -1 ELSE a.heure

LEMMA ProchainOuRienJuste ==
  ASSUME maintenant \in Minutes, NEW R, Valable(R)
  PROVE  /\ EstProchaine(maintenant, R, HeureDe(ProchainOuRien(R)))
         /\ ProchainOuRien(R) = Rien <=> R = {}
<1>1. CASE R = {}
  BY <1>1 DEF EstProchaine, ProchainOuRien, HeureDe
<1>2. CASE R # {}
  <2>1. ProchainOuRien(R).heure = Prochain(R).heure
    BY <1>2 DEF ProchainOuRien
  <2>2. ProchainOuRien(R) # Rien
    BY <1>2, ProchainType, HeuresValables, RienAssumption
  <2> QED BY <1>2, <2>1, <2>2, ProchainJuste DEF HeureDe
<1> QED BY <1>1, <1>2

\* A minute later the next meal is the same, unless its time has come.
LEMMA ProchaineDure ==
  ASSUME NEW m \in Minutes, NEW R, Valable(R), NEW h, EstProchaine(m, R, h),
         \A r \in R : r.heure # (m + 1) % Jour
  PROVE  EstProchaine((m + 1) % Jour, R, h)
<1> DEFINE n == (m + 1) % Jour
<1>1. Jour \in Nat \ {0} /\ m \in Nat /\ m < Jour
  BY ConstantesAssumption DEF Minutes
<1>2. n = IF m = Jour - 1 THEN 0 ELSE m + 1
  <2>1. CASE m = Jour - 1
    BY <1>1, <2>1
  <2>2. CASE m < Jour - 1
    BY <1>1, <2>2
  <2> QED BY <1>1, <2>1, <2>2
<1>3. n \in Minutes
  BY <1>1, <1>2 DEF Minutes
<1> HIDE DEF n
<1>4. ASSUME NEW k \in Minutes, k # n
      PROVE  Attente(n, k) = Attente(m, k) - 1 /\ Attente(m, k) \in Int
  <2>1. /\ Attente(m, k) = IF k > m THEN k - m - 1 ELSE k - m - 1 + Jour
        /\ Attente(n, k) = IF k > n THEN k - n - 1 ELSE k - n - 1 + Jour
    BY <1>3, AttenteCalcul
  <2> QED BY <1>1, <1>2, <1>4, <2>1 DEF Minutes
<1>5. CASE R = {}
  BY <1>5 DEF EstProchaine
<1>6. CASE R # {}
  <2>1. PICK r \in R : r.heure = h /\ \A x \in R : Attente(m, h) <= Attente(m, x.heure)
    BY <1>6 DEF EstProchaine
  <2>2. \A x \in R : x.heure \in Minutes /\ x.heure # n
    BY HeuresValables DEF n
  <2>3. \A x \in R : Attente(n, h) <= Attente(n, x.heure)
    BY <1>4, <2>1, <2>2
  <2> QED BY <1>6, <2>1, <2>3 DEF EstProchaine, n
<1> QED BY <1>5, <1>6

------------------------------------------------------------------------------
(* The invariant.  A request runs alone, without a timer that fires; a device *)
(* that was told something is the registered one; what is about to be sent    *)
(* was read in the meals as they are; and a device that was told of its next  *)
(* meal was told of the right one, or of the one that was next before the     *)
(* change which a request (Tarde) or a distribution is about to tell it of.   *)

Exclusif ==
  \A t \in Requetes :
    taches[t] # Rien => AucunDu /\ \A u \in Minuteries : taches[u] = Rien

Ecoute ==
  \A w \in Connexions :
    /\ connexions[w].ouverte /\ connexions[w].pair # Appli
    /\ annonce[connexions[w].pair] # Rien
    => clients[connexions[w].pair] = w

Sonneries ==
  \A t \in Minuteries : taches[t] # Rien => taches[t].ws = clients[taches[t].g]

LuFrais(x, R) == x.etape \in {"nextMeal", "apres"} /\ ~x.attend => x.lu = R

\* What a request remembers of the next meal, in meals that are R now.
Souvient(x, R) ==
  /\ x.etape = "relecture" \/ (x.etape \in {"ajout", "maj", "retrait"} /\ x.attend)
     => /\ EstProchaine(maintenant, R, HeureDe(x.avant))
        /\ x.avant = Rien => R = {}
  /\ x.etape \in {"retrait", "verif", "apres"} /\ x.op = "deleteMeal" /\ x.avant = Rien
     => R = {}
  /\ x.etape = "apres" => x.op \in {"addMeal", "update", "deleteMeal"}

\* The meals were changed and the device is not told yet.
Retard(x, R) ==
  \/ x.etape \in {"verif", "apres"}
  \/ x.etape = "ajout" /\ ~x.attend
  \/ x.etape = "maj" /\ ~x.attend /\ \E r \in R : r.id = x.repasId
  \/ x.etape = "retrait" /\ ~x.attend /\ x.ok

\* What a device told of a, whose meals are R, is owed by the one request x.
Promise(x, R, a) ==
  IF x # Rien /\ Retard(x, R) THEN a.heure = HeureDe(x.avant)
  ELSE EstProchaine(maintenant, R, a.heure)

Suivi(g) == annonce[g] # Rien /\ clients[g] # Rien /\ connexions[clients[g]].ouverte
Muet(g) == /\ \A c \in crontabs[g] : ~c.du
           /\ \A t \in Minuteries : taches[t] # Rien => taches[t].g # g
Concerne(t, g) == taches[t] # Rien /\ taches[t].g = g
Annonces ==
  \A g \in Gamelles : Suivi(g) /\ Muet(g) =>
    /\ \A t \in Requetes : Concerne(t, g) => Promise(taches[t], bd[g].repas, annonce[g])
    /\ (\A t \in Requetes : ~Concerne(t, g)) => Promise(Rien, bd[g].repas, annonce[g])

Nouvelles ==
  /\ Exclusif /\ Ecoute /\ Sonneries /\ Annonces
  /\ \A t \in Lieux : taches[t] # Rien => LuFrais(taches[t], bd[taches[t].g].repas)
  /\ \A t \in Requetes : taches[t] # Rien => Souvient(taches[t], bd[taches[t].g].repas)

LEMMA RepasValables ==
  ASSUME Numeros, Accord, NEW g \in Gamelles
  PROVE  /\ Valable(bd[g].repas) /\ maintenant \in Minutes
         /\ Ordonnes(bd[g].repas)
BY DEF Numeros, Numerotes, Accord, Typage, TypeOK, EnsemblesFinis, Document, Valable,
   Minutes

\* A timer that a request adds is not due.
LEMMA AucunDuOperateurs ==
  ASSUME NEW C \in SUBSET Crontab, \A c \in C : ~c.du, NEW n, NEW id, NEW h, NEW q, NEW w
  PROVE  /\ \A c \in addCrontab(C, n, h, q, w) : ~c.du
         /\ \A c \in deleteCrontab(C, id) : ~c.du
         /\ \A c \in updateCrontab(C, id, h, q, w) : ~c.du
<1>1. ASSUME NEW D, \A c \in D : ~c.du, NEW k
      PROVE  \A c \in addCrontab(D, k, h, q, w) : ~c.du
  BY <1>1 DEF addCrontab
<1>2. \A c \in deleteCrontab(C, id) : ~c.du
  BY DEF deleteCrontab, Crontab
<1> QED BY <1>1, <1>2 DEF updateCrontab

LEMMA ResteMuet ==
  ASSUME Typage, NEW t \in Lieux, Base(t) \/ Suite(t) \/ Echec(t), ~Planter, AucunDu
  PROVE  AucunDu'
<1> DEFINE x == taches[t]
           C == crontabs[x.g]
<1>1. x # Rien /\ x \in Tache /\ x.g \in Gamelles /\ C \in SUBSET Crontab
  BY TraitementReseau DEF Typage, TypeOK, Tache
<1>2. CASE UNCHANGED crontabs
  BY <1>2 DEF AucunDu
<1>3. CASE SuiteAjout(t) \/ SuiteMaj(t) \/ SuiteVerif(t)
  <2>1. PICK D : /\ crontabs' = [crontabs EXCEPT ![x.g] = D]
                 /\ \/ D = deleteCrontab(C, x.repasId)
                    \/ D = addCrontab(C, lastId, x.heure, x.poids, x.ws)
                    \/ D = updateCrontab(C, x.repasId, x.heure, x.poids, x.ws)
    BY <1>3 DEF SuiteAjout, SuiteMaj, SuiteVerif
  <2>2. \A c \in C : ~c.du
    BY <1>1 DEF AucunDu
  <2>3. \A c \in D : ~c.du
    <3> DEFINE n == x.repasId
               h == x.heure
               q == x.poids
               w == x.ws
    <3>1. /\ \A c \in addCrontab(C, lastId, h, q, w) : ~c.du
          /\ \A c \in deleteCrontab(C, n) : ~c.du
          /\ \A c \in updateCrontab(C, n, h, q, w) : ~c.du
      <4> HIDE DEF C, n, h, q, w
      <4> QED BY <1>1, <2>2, AucunDuOperateurs
    <3>2. \/ D = deleteCrontab(C, n) \/ D = addCrontab(C, lastId, h, q, w)
          \/ D = updateCrontab(C, n, h, q, w)
      BY <2>1
    <3> HIDE DEF C, n, h, q, w
    <3> QED BY <3>1, <3>2
  <2>4. \A g \in Gamelles : crontabs'[g] = IF g = x.g THEN D ELSE crontabs[g]
    BY <2>1 DEF Typage, TypeOK
  <2> QED BY <2>3, <2>4 DEF AucunDu
<1> QED BY <1>2, <1>3, CrontabsInchanges

\* What a device is told, by a handler that has its socket.
LEMMA AnnonceEnvoyee ==
  ASSUME Typage, BonDestinataire, Liens, Sonneries, NEW t \in Lieux, taches[t] # Rien,
         NEW r, EnvoyerProchain(taches[t].ws, r)
  PROVE  \/ ~Joint(taches[t].ws) /\ UNCHANGED annonce
         \/ /\ Joint(taches[t].ws) /\ taches[t].ws = clients[taches[t].g]
            /\ annonce'[taches[t].g] = r
            /\ \A g \in Gamelles \ {taches[t].g} : annonce'[g] = annonce[g]
<1> DEFINE x == taches[t]
<1>1. x \in Tache /\ x.g \in Gamelles /\ TacheBien(x) /\ x.ws \in Connexions
  BY DEF Typage, TypeOK, Tache, BonDestinataire
<1>2. CASE ~Joint(x.ws)
  BY <1>2 DEF EnvoyerProchain
<1>3. CASE Joint(x.ws)
  <2>1. connexions[x.ws].pair = x.g /\ connexions[x.ws].pair # Appli
    BY <1>1, <1>3 DEF TacheBien, Joint
  <2>2. x.ws = clients[x.g]
    BY <2>1 DEF Liens, Sonneries, Lieux
  <2>3. annonce' = [annonce EXCEPT ![x.g] = r]
    BY <1>3, <2>1 DEF EnvoyerProchain
  <2>4. /\ annonce'[x.g] = r
        /\ \A g \in Gamelles \ {x.g} : annonce'[g] = annonce[g]
    BY <1>1, <2>3 DEF Typage, TypeOK
  <2> QED BY <1>3, <2>2, <2>4
<1> QED BY <1>2, <1>3

LEMMA AnnonceTraitement ==
  ASSUME NEW t \in Lieux, Base(t) \/ Suite(t), ~Planter
  PROVE  \/ UNCHANGED annonce
         \/ (SuiteApres(t) \/ SuiteNextMeal(t)) /\ \E r : EnvoyerProchain(taches[t].ws, r)
<1> USE DEF memoire, sansTaches, appareils
<1>1. CASE Base(t)
  BY <1>1 DEF Base, Trouver, TrouverRepas, Creer, Ajouter, Modifier, Retirer, Consigner
<1>2. CASE \/ SuiteCheck(t) \/ SuiteCreation(t) \/ SuiteLecture(t) \/ SuiteAvant(t)
           \/ SuiteRelecture(t) \/ SuiteAjout(t) \/ SuiteMaj(t) \/ SuiteRetrait(t)
           \/ SuiteVerif(t)
  BY <1>2 DEF SuiteCheck, SuiteCreation, SuiteLecture, SuiteAvant, SuiteRelecture,
     SuiteAjout, SuiteMaj, SuiteRetrait, SuiteVerif
<1>3. CASE SuiteEatNow(t) \/ SuiteEatNowEnregistre(t) \/ SuiteDistribution(t)
           \/ SuiteEnregistrement(t)
  BY <1>3 DEF SuiteEatNow, SuiteEatNowEnregistre, SuiteDistribution, SuiteEnregistrement
<1>4. CASE SuiteApres(t)
  BY <1>4, Zenon DEF SuiteApres
<1>5. CASE SuiteNextMeal(t)
  BY <1>5 DEF SuiteNextMeal
<1> QED BY <1>1, <1>2, <1>3, <1>4, <1>5 DEF Suite

LEMMA EcouteTraitement ==
  ASSUME Typage, BonDestinataire, Liens, Sonneries, Ecoute, NEW t \in Lieux,
         Base(t) \/ Suite(t), ~Planter
  PROVE  /\ Ecoute'
         /\ \A g \in Gamelles \ {taches[t].g} : annonce'[g] = annonce[g]
<1>1. taches[t] # Rien /\ UNCHANGED <<clients, connexions>>
  BY TraitementReseau
<1>2. CASE UNCHANGED annonce
  BY <1>1, <1>2 DEF Ecoute
<1>3. ASSUME NEW r, EnvoyerProchain(taches[t].ws, r), ~UNCHANGED annonce
      PROVE  /\ Ecoute'
             /\ \A g \in Gamelles \ {taches[t].g} : annonce'[g] = annonce[g]
  <2> DEFINE x == taches[t]
  <2>1. /\ Joint(x.ws) /\ x.ws = clients[x.g]
        /\ \A g \in Gamelles \ {x.g} : annonce'[g] = annonce[g]
    BY <1>1, <1>3, AnnonceEnvoyee
  <2>2. x.ws \in Connexions /\ connexions[x.ws].ouverte /\ connexions[x.ws].pair = x.g
    BY <1>1, <2>1 DEF Joint, BonDestinataire, TacheBien, Typage, TypeOK, Tache
  <2>3. ASSUME NEW w \in Connexions, connexions[w].ouverte, connexions[w].pair # Appli,
               annonce'[connexions[w].pair] # Rien
        PROVE  clients[connexions[w].pair] = w
    <3>1. connexions[w].pair \in Gamelles
      BY <2>3 DEF Typage, TypeOK
    <3>2. CASE connexions[w].pair = x.g
      BY <2>1, <2>2, <2>3, <3>2 DEF Liens
    <3>3. CASE connexions[w].pair # x.g
      BY <2>1, <2>3, <3>1, <3>3 DEF Ecoute
    <3> QED BY <3>2, <3>3
  <2> QED BY <1>1, <2>1, <2>3 DEF Ecoute
<1> QED BY <1>2, <1>3, AnnonceTraitement

\* A request, handled alone: only its bowl has to be looked at.
LEMMA NouvellesRequete ==
  ASSUME Numeros, BonDestinataire, Liens, Nouvelles, NEW t \in Requetes,
         Base(t) \/ Suite(t), ~Planter, NEW h \in Gamelles, h = taches[t].g,
         NEW y \in Tache \cup {Rien}, Devenir(t, y), y # Rien => y.g = h,
         \A g \in Gamelles \ {h} : bd'[g].repas = bd[g].repas,
         y # Rien => LuFrais(y, bd'[h].repas) /\ Souvient(y, bd'[h].repas),
         Suivi(h)' => Promise(y, bd'[h].repas, annonce'[h])
  PROVE  Nouvelles'
<1>1. /\ Typage /\ t \in Lieux /\ taches[t] # Rien
      /\ UNCHANGED <<clients, connexions, maintenant>>
  BY TraitementReseau DEF Numeros, Lieux, Typage, TypeOK, Tache
<1>2. /\ taches'[t] = y
      /\ \A u \in Requetes \ {t} : taches[u] = Rien /\ taches'[u] = Rien
      /\ \A u \in Minuteries : taches[u] = Rien /\ taches'[u] = Rien
  <2>1. taches'[t] = y /\ \A u \in Lieux \ {t} : taches'[u] = taches[u]
    BY <1>1 DEF Devenir, Typage, TypeOK
  <2>2. \A u \in Requetes \ {t} : taches[u] = Rien
    BY <1>1 DEF Numeros, SeuleRequete
  <2>3. \A u \in Minuteries : taches[u] = Rien
    BY <1>1 DEF Nouvelles, Exclusif
  <2> QED BY <2>1, <2>2, <2>3, ConstantesAssumption DEF Lieux
<1>3. AucunDu /\ AucunDu'
  <2>1. AucunDu
    BY <1>1 DEF Nouvelles, Exclusif
  <2> QED BY <1>1, <2>1, ResteMuet
<1>4. /\ Ecoute'
      /\ \A g \in Gamelles \ {h} : annonce'[g] = annonce[g]
  BY <1>1, EcouteTraitement DEF Nouvelles
<1>5. Exclusif' /\ Sonneries'
  BY <1>2, <1>3 DEF Exclusif, Sonneries
<1>6. ASSUME NEW u \in Lieux, taches'[u] # Rien
      PROVE  /\ LuFrais(taches'[u], bd'[taches'[u].g].repas)
             /\ Souvient(taches'[u], bd'[taches'[u].g].repas)
  <2>1. u = t
    BY <1>2, <1>6 DEF Lieux
  <2> QED BY <1>2, <1>6, <2>1
<1>7. ASSUME NEW g \in Gamelles, Suivi(g)'
      PROVE  /\ \A u \in Requetes : Concerne(u, g)' =>
                   Promise(taches'[u], bd'[g].repas, annonce'[g])
             /\ (\A u \in Requetes : ~Concerne(u, g)') =>
                   Promise(Rien, bd'[g].repas, annonce'[g])
  <2>1. CASE g = h
    BY <1>2, <1>7, <2>1 DEF Concerne, Promise
  <2>2. CASE g # h
    <3>1. \A u \in Requetes : ~Concerne(u, g) /\ ~Concerne(u, g)'
      BY <1>2, <2>2 DEF Concerne
    <3>2. Suivi(g) /\ Muet(g)
      BY <1>1, <1>2, <1>3, <1>4, <1>7, <2>2 DEF Suivi, Muet, AucunDu
    <3>3. Promise(Rien, bd[g].repas, annonce[g])
      BY <3>1, <3>2 DEF Nouvelles, Annonces
    <3> QED BY <1>4, <2>2, <3>1, <3>3
  <2> QED BY <2>1, <2>2
<1>8. Annonces'
  BY <1>1, <1>7 DEF Annonces, Promise
<1>9. \A u \in Lieux : taches'[u] # Rien => LuFrais(taches[u], bd[taches[u].g].repas)'
  BY <1>6 DEF LuFrais
<1>10. \A u \in Requetes : taches'[u] # Rien => Souvient(taches[u], bd[taches[u].g].repas)'
  BY <1>1, <1>6 DEF Lieux, Souvient
<1> QED BY <1>4, <1>5, <1>8, <1>9, <1>10 DEF Nouvelles

\* What is known before a step of a request.
LEMMA NouvellesAvant ==
  ASSUME Numeros, Accord, Liens, Nouvelles, NEW t \in Requetes, taches[t] # Rien
  PROVE  /\ taches[t] \in Tache /\ taches[t].g \in Gamelles /\ t \in Lieux /\ Typage
         /\ Valable(bd[taches[t].g].repas) /\ maintenant \in Minutes
         /\ LuFrais(taches[t], bd[taches[t].g].repas)
         /\ Souvient(taches[t], bd[taches[t].g].repas)
         /\ Suivi(taches[t].g) =>
              Promise(taches[t], bd[taches[t].g].repas, annonce[taches[t].g])
<1>1. taches[t] \in Tache /\ taches[t].g \in Gamelles /\ t \in Lieux /\ Typage
  BY DEF Numeros, Typage, TypeOK, Tache, Lieux
<1>2. Muet(taches[t].g) /\ Concerne(t, taches[t].g)
  BY <1>1 DEF Nouvelles, Exclusif, Muet, AucunDu, Concerne
<1> QED BY <1>1, <1>2, RepasValables DEF Nouvelles, Annonces

\* The database executes a command of a request: a command that changes the meals
\* finds the next meal to be the one the request remembers.
LEMMA NouvellesBase ==
  ASSUME Numeros, BonDestinataire, Liens, Accord, Nouvelles, NEW t \in Requetes, Base(t),
         ~Planter, NEW h \in Gamelles, h = taches[t].g
  PROVE  Nouvelles'
<1> DEFINE x == taches[t]
           R == bd[h].repas
           Q == bd'[h].repas
<1>1. /\ x # Rien /\ x.attend /\ x \in Tache /\ t \in Lieux /\ Typage
      /\ UNCHANGED <<annonce, clients, connexions>> /\ bd \in [Gamelles -> Document]
  BY BaseExecute DEF Numeros, Typage, TypeOK, Tache, Lieux, memoire, reseau, appareils
<1>2. /\ Valable(R) /\ maintenant \in Minutes /\ LuFrais(x, R) /\ Souvient(x, R)
      /\ Suivi(h) => Promise(x, R, annonce[h])
  BY <1>1, NouvellesAvant
<1>3. Suivi(h)' => Suivi(h)
  BY <1>1 DEF Suivi
<1>4. \A g \in Gamelles \ {h} : bd'[g] = bd[g]
  BY <1>1 DEF Base, Trouver, TrouverRepas, Creer, Ajouter, Modifier, Retirer, Consigner
<1>5. ASSUME NEW ok \in BOOLEAN, NEW lu \in SUBSET Repas, Executer(t, ok, lu),
             \A y \in Tache :
               /\ y.g = h /\ y.op = x.op /\ y.etape = x.etape /\ y.repasId = x.repasId
               /\ y.avant = x.avant /\ ~y.attend /\ y.ok = ok /\ y.lu = lu
               => /\ LuFrais(y, Q) /\ Souvient(y, Q)
                  /\ Suivi(h) => Promise(y, Q, annonce[h])
      PROVE  Nouvelles'
  <2>1. PICK y \in Tache :
          /\ Devenir(t, y) /\ y.g = h /\ y.op = x.op /\ y.etape = x.etape
          /\ y.repasId = x.repasId
          /\ y.avant = x.avant /\ ~y.attend /\ y.ok = ok /\ y.lu = lu
    BY <1>1, <1>5, ExecuterAvance
  <2>2. /\ LuFrais(y, Q) /\ Souvient(y, Q)
        /\ Suivi(h)' => Promise(y, Q, annonce'[h])
    BY <1>1, <1>3, <1>5, <2>1
  <2> QED BY <1>4, <2>1, <2>2, NouvellesRequete
\* The next meal before the change, remembered.
<1>6. ASSUME x.etape \in {"ajout", "maj", "retrait"}, Suivi(h)
      PROVE  /\ annonce[h].heure = HeureDe(x.avant)
             /\ EstProchaine(maintenant, R, annonce[h].heure)
  <2>1. EstProchaine(maintenant, R, HeureDe(x.avant))
    BY <1>1, <1>2, <1>6 DEF Souvient
  <2>2. ~Retard(x, R)
    BY <1>1, <1>6 DEF Retard
  <2>3. EstProchaine(maintenant, R, annonce[h].heure)
    BY <1>1, <1>2, <1>6, <2>2 DEF Promise
  <2> QED BY <1>2, <2>1, <2>3, ProchaineUnique
<1>7. CASE Trouver(t) \/ TrouverRepas(t) \/ Creer(t) \/ Consigner(t)
  <2>1. PICK ok \in BOOLEAN, lu \in SUBSET Repas : Executer(t, ok, lu)
    BY <1>1, BaseExecute
  <2>2. Q = R
    <3>1. \/ UNCHANGED bd \/ bd' = [bd EXCEPT ![h].docs = @ + 1]
          \/ bd' = [bd EXCEPT ![h].historique = @ + 1]
      BY <1>7 DEF Trouver, TrouverRepas, Creer, Consigner
    <3> QED BY <1>1, <3>1 DEF Document
  <2>3. x.etape \notin {"ajout", "maj", "retrait"}
    BY <1>7 DEF Trouver, TrouverRepas, Creer, Consigner, Attend
  <2>4. x.etape \in {"nextMeal", "apres"} => Executer(t, bd[h].docs > 0, R)
    BY <1>7 DEF Trouver, TrouverRepas, Creer, Consigner, Attend
  <2> DEFINE Bien(lv) ==
        \A y \in Tache :
          /\ y.g = h /\ y.op = x.op /\ y.etape = x.etape /\ y.repasId = x.repasId
          /\ y.avant = x.avant /\ ~y.attend /\ y.lu = lv
          => /\ LuFrais(y, Q) /\ Souvient(y, Q)
             /\ Suivi(h) => Promise(y, Q, annonce[h])
  <2>5. ASSUME NEW lv, x.etape \in {"nextMeal", "apres"} => lv = R PROVE Bien(lv)
    <3> SUFFICES ASSUME NEW y \in Tache, y.op = x.op, y.etape = x.etape,
                        y.repasId = x.repasId, y.avant = x.avant, ~y.attend, y.lu = lv
                 PROVE  /\ LuFrais(y, R) /\ Souvient(y, R)
                        /\ Suivi(h) => Promise(y, R, annonce[h])
      BY <2>2
    <3>1. LuFrais(y, R)
      BY <2>5 DEF LuFrais
    <3>2. Souvient(y, R)
      BY <1>2, <2>3 DEF Souvient
    <3>3. Retard(y, R) <=> Retard(x, R)
      BY <2>3 DEF Retard
    <3>4. y # Rien
      BY RienTacheAssumption
    <3> QED BY <1>1, <1>2, <3>1, <3>2, <3>3, <3>4 DEF Promise
  <2> HIDE DEF Bien
  <2>6. CASE x.etape \in {"nextMeal", "apres"}
    <3>1. (bd[h].docs > 0) \in BOOLEAN /\ R \in SUBSET Repas /\ Bien(R)
      BY <1>2, <2>5 DEF Valable
    <3> QED BY <1>5, <2>4, <2>6, <3>1 DEF Bien
  <2>7. CASE x.etape \notin {"nextMeal", "apres"}
    <3>1. Bien(lu)
      BY <2>5, <2>7
    <3> QED BY <1>5, <2>1, <3>1 DEF Bien
  <2> QED BY <2>6, <2>7
<1>8. CASE Ajouter(t)
  <2>1. x.etape = "ajout" /\ Executer(t, TRUE, {})
    BY <1>8 DEF Ajouter, Attend
  <2>2. ASSUME NEW y \in Tache, y.etape = x.etape, y.avant = x.avant, ~y.attend
        PROVE  /\ LuFrais(y, Q) /\ Souvient(y, Q)
               /\ Suivi(h) => Promise(y, Q, annonce[h])
    <3>1. LuFrais(y, Q) /\ Souvient(y, Q)
      BY <2>1, <2>2 DEF LuFrais, Souvient
    <3>2. Retard(y, Q) /\ y # Rien
      BY <2>1, <2>2, RienTacheAssumption DEF Retard
    <3> QED BY <1>6, <2>1, <2>2, <3>1, <3>2 DEF Promise
  <2> QED BY <1>5, <2>1, <2>2
<1>9. CASE Modifier(t)
  <2>1. x.etape = "maj" /\ Executer(t, TRUE, {})
    BY <1>9 DEF Modifier, Attend
  <2>2. Q = Modifies(R, x.repasId, x.heure, x.poids)
    BY <1>1, <1>9 DEF Modifier, Document
  <2>3. (\A r \in Q : r.id # x.repasId) => Q = R
    <3> DEFINE f(r) == IF r.id = x.repasId /\ EstPremier(r, R)
                         THEN [r EXCEPT !.heure = x.heure, !.poids = x.poids] ELSE r
    <3>1. Q = {f(r) : r \in R}
      BY <2>2 DEF Modifies
    <3>2. \A r \in R : f(r).id = r.id /\ (r.id # x.repasId => f(r) = r)
      BY <1>2 DEF Valable, Repas
    <3> HIDE DEF f, Q
    <3>3. ASSUME \A r \in Q : r.id # x.repasId PROVE \A r \in R : f(r) = r
      BY <3>1, <3>2, <3>3
    <3> QED BY <3>1, <3>3
  <2>4. ASSUME NEW y \in Tache, y.etape = x.etape, y.avant = x.avant, ~y.attend,
               y.repasId = x.repasId
        PROVE  /\ LuFrais(y, Q) /\ Souvient(y, Q)
               /\ Suivi(h) => Promise(y, Q, annonce[h])
    <3>1. LuFrais(y, Q) /\ Souvient(y, Q)
      BY <2>1, <2>4 DEF LuFrais, Souvient
    <3>2. ~Retard(y, Q) => Q = R
      BY <2>1, <2>3, <2>4 DEF Retard
    <3>3. y # Rien
      BY RienTacheAssumption
    <3> QED BY <1>6, <2>1, <2>4, <3>1, <3>2, <3>3 DEF Promise
  <2> QED BY <1>5, <2>1, <2>4
<1>10. CASE Retirer(t)
  <2> DEFINE reste == Sans(R, x.repasId) # R
  <2>1. x.etape = "retrait" /\ Executer(t, reste, {}) /\ reste \in BOOLEAN
    BY <1>10 DEF Retirer, Attend
  <2>2. Q = Sans(R, x.repasId)
    BY <1>1, <1>10 DEF Retirer, Document
  <2>3. x.avant = Rien => Q = {}
    BY <1>1, <1>2, <2>1, <2>2 DEF Souvient, Sans
  <2>4. ASSUME NEW y \in Tache, y.etape = x.etape, y.avant = x.avant, ~y.attend,
               y.ok = reste
        PROVE  /\ LuFrais(y, Q) /\ Souvient(y, Q)
               /\ Suivi(h) => Promise(y, Q, annonce[h])
    <3>1. LuFrais(y, Q) /\ Souvient(y, Q)
      BY <2>1, <2>3, <2>4 DEF LuFrais, Souvient
    <3>2. ~Retard(y, Q) => Q = R
      BY <2>1, <2>2, <2>4 DEF Retard
    <3>3. y # Rien
      BY RienTacheAssumption
    <3> QED BY <1>6, <2>1, <2>4, <3>1, <3>2, <3>3 DEF Promise
  <2> HIDE DEF reste
  <2> QED BY <1>5, <2>1, <2>4
<1> QED BY <1>7, <1>8, <1>9, <1>10 DEF Base

\* The message that ends addMeal, update and deleteMeal, when there is one, says
\* the next meal of R; when there is none, it is the one there was before.
LEMMA ComparaisonJuste ==
  ASSUME maintenant \in Minutes, NEW R, Valable(R), NEW x \in Tache, x.etape = "apres",
         Connait(x, R), Souvient(x, R), x.attend = FALSE, x.lu = R,
         NEW r, r = ProchainOuRien(R), ~Indefini(x.op, r, x.avant)
  PROVE  /\ \/ r # Rien /\ x.avant # Rien /\ r # x.avant
            \/ x.op = "addMeal" /\ x.avant = Rien
            => r # Rien /\ EstProchaine(maintenant, R, r.heure)
         /\ x.op = "deleteMeal" /\ r = Rien => EstProchaine(maintenant, R, -1)
         /\ ~(r # Rien /\ x.avant # Rien /\ r # x.avant)
            /\ ~(x.op = "addMeal" /\ x.avant = Rien) /\ ~(x.op = "deleteMeal" /\ r = Rien)
            => EstProchaine(maintenant, R, HeureDe(x.avant))
<1>1. EstProchaine(maintenant, R, HeureDe(r)) /\ (r = Rien <=> R = {})
  BY ProchainOuRienJuste
<1>2. x.op \in {"addMeal", "update", "deleteMeal"}
  BY DEF Souvient
<1>3. /\ x.op # "deleteMeal" => R # {}
      /\ x.op = "update" => x.avant # Rien
      /\ x.op = "deleteMeal" /\ x.avant = Rien => R = {}
  BY DEF Connait, Souvient
<1>4. r = Rien => x.op = "deleteMeal"
  BY <1>1, <1>2, <1>3
<1>5. r # Rien => HeureDe(r) = r.heure
  BY DEF HeureDe
<1>6. r = Rien => HeureDe(r) = -1
  BY DEF HeureDe
<1>7. ASSUME ~(r # Rien /\ x.avant # Rien /\ r # x.avant),
             ~(x.op = "addMeal" /\ x.avant = Rien), ~(x.op = "deleteMeal" /\ r = Rien)
      PROVE  r = x.avant
  BY <1>1, <1>2, <1>3, <1>4, <1>7
<1> QED BY <1>1, <1>3, <1>4, <1>5, <1>6, <1>7

\* A continuation of a request.
LEMMA NouvellesSuite ==
  ASSUME Numeros, BonDestinataire, Liens, Accord, Sains, Nouvelles, NEW t \in Requetes,
         Suite(t), ~Planter, NEW h \in Gamelles, h = taches[t].g
  PROVE  Nouvelles'
<1> DEFINE x == taches[t]
           R == bd[h].repas
<1>1. /\ x # Rien /\ x \in Tache /\ t \in Lieux /\ Typage
      /\ UNCHANGED <<clients, connexions, maintenant, bd>>
  BY TraitementReseau, SuiteNumero DEF Numeros, Typage, TypeOK, Lieux
<1>2. /\ Valable(R) /\ maintenant \in Minutes /\ LuFrais(x, R) /\ Souvient(x, R)
      /\ Suivi(h) => Promise(x, R, annonce[h])
      /\ Connait(x, R) /\ Reponse(x) /\ TacheBien(x)
  BY <1>1, NouvellesAvant DEF Sains, BonDestinataire
<1>3. PICK y \in Tache \cup {Rien} : Devenir(t, y) /\ (y # Rien => Relais(x, y))
  BY <1>1, SuiteAvance DEF Avance, Finir
<1>4. taches'[t] = y
  BY <1>1, <1>3 DEF Devenir, Typage, TypeOK
<1>5. y # Rien => y.attend /\ y.g = h /\ y.op = x.op /\ LuFrais(y, R)
  BY <1>3 DEF Relais, Vers, LuFrais
<1>6. ASSUME y # Rien => Souvient(y, R), Suivi(h)' => Promise(y, R, annonce'[h])
      PROVE  Nouvelles'
  BY <1>1, <1>3, <1>5, <1>6, NouvellesRequete
<1>7. ASSUME UNCHANGED annonce, y # Rien => Souvient(y, R),
             Promise(x, R, annonce[h]) => Promise(y, R, annonce[h])
      PROVE  Nouvelles'
  <2>1. Suivi(h)' => Suivi(h)
    BY <1>1, <1>7 DEF Suivi
  <2> QED BY <1>2, <1>6, <1>7, <2>1
<1>8. ASSUME UNCHANGED annonce, y # Rien => Souvient(y, R),
             y # Rien /\ Retard(y, R) => Retard(x, R) /\ y.avant = x.avant,
             Retard(x, R) => y # Rien /\ Retard(y, R)
      PROVE  Nouvelles'
  BY <1>1, <1>7, <1>8 DEF Promise
<1>9. ASSUME NEW r, EnvoyerProchain(x.ws, r), y = Rien
      PROVE  /\ \/ ~Joint(x.ws) /\ UNCHANGED annonce
                \/ annonce'[h] = r
             /\ connexions[x.ws].pair = h /\ Suivi(h)' => annonce'[h] = r
  <2>1. \/ ~Joint(x.ws) /\ UNCHANGED annonce
        \/ Joint(x.ws) /\ x.ws = clients[h] /\ annonce'[h] = r
    BY <1>1, <1>9, AnnonceEnvoyee DEF Nouvelles
  <2>2. connexions[x.ws].pair = h /\ Suivi(h)' => Joint(x.ws)
    BY <1>1, ConstantesAssumption DEF Suivi, Liens, Joint
  <2> QED BY <2>1, <2>2
<1> HIDE DEF x, R
<1>10. CASE \/ SuiteCheck(t) \/ SuiteCreation(t) \/ SuiteLecture(t) \/ SuiteEatNow(t)
            \/ SuiteEatNowEnregistre(t) \/ SuiteDistribution(t) \/ SuiteEnregistrement(t)
  <2>1. /\ x.etape \in {"check", "creation", "requestData", "history", "eatNow",
                         "eatNowEnregistre", "distribution", "enregistrement"}
        /\ ~SuiteApres(t) /\ ~SuiteNextMeal(t)
    BY <1>10 DEF SuiteCheck, SuiteCreation, SuiteLecture, SuiteEatNow,
       SuiteEatNowEnregistre, SuiteDistribution, SuiteEnregistrement, SuiteApres,
       SuiteNextMeal, Pret, x
  <2>2. UNCHANGED annonce
    BY <1>1, <2>1, AnnonceTraitement
  <2>3. y # Rien => y.etape \notin {"relecture", "ajout", "maj", "retrait", "verif", "apres"}
    BY <1>3, <2>1 DEF Relais, Vers
  <2>4. y # Rien => Souvient(y, R) /\ ~Retard(y, R)
    BY <2>3 DEF Souvient, Retard
  <2>5. ~Retard(x, R)
    BY <2>1 DEF Retard
  <2> QED BY <1>8, <2>2, <2>4, <2>5
<1>11. CASE SuiteRelecture(t)
  <2>1. /\ x.etape = "relecture" /\ UNCHANGED annonce
        /\ Finir(t) \/ \E id : id \in Nat /\ Devenir(t, Appel([x EXCEPT !.repasId = id], "ajout"))
    <3>1. x.etape = "relecture" /\ ~SuiteApres(t) /\ ~SuiteNextMeal(t)
      BY <1>11 DEF SuiteRelecture, SuiteApres, SuiteNextMeal, Pret, x
    <3>2. NouvelId(x.lu) \in Nat
      <4>1. x.lu = R
        BY <1>1, <1>11 DEF SuiteRelecture, Pret, Numeros, LuAJour, x, R
      <4>2. R \in SUBSET Repas /\ IsFiniteSet(R) /\ Ordonnes(R)
        BY <1>2, RepasValables DEF Valable, R
      <4> QED BY <4>1, <4>2, NouvelIdNouveau
    <3>3. Finir(t) \/ Devenir(t, Appel([x EXCEPT !.repasId = NouvelId(x.lu)], "ajout"))
      BY <1>11 DEF SuiteRelecture, x
    <3> QED BY <1>1, <3>1, <3>2, <3>3, AnnonceTraitement
  <2>2. ~Retard(x, R)
    BY <2>1 DEF Retard
  <2>3. CASE Finir(t)
    <3>1. y = Rien
      BY <1>1, <1>4, <2>3 DEF Finir, Devenir, Typage, TypeOK
    <3> QED BY <1>8, <2>1, <2>2, <3>1
  <2>4. ASSUME NEW id \in Nat, Devenir(t, Appel([x EXCEPT !.repasId = id], "ajout"))
        PROVE  Nouvelles'
    <3> DEFINE z == [x EXCEPT !.repasId = id]
    <3>1. z \in Tache /\ z.avant = x.avant
      BY <1>1 DEF Tache
    <3> HIDE DEF z
    <3>2. "ajout" \in Etapes
      BY DEF Etapes
    <3>3. y = Appel(z, "ajout")
      BY <1>1, <1>4, <2>4 DEF Devenir, Typage, TypeOK, z
    <3>4. y.etape = "ajout" /\ y.avant = x.avant /\ y.attend
      BY <3>1, <3>2, <3>3, AppelChamps, AppelAvant
    <3>5. Souvient(y, R)
      BY <1>2, <2>1, <3>4 DEF Souvient
    <3>6. ~Retard(y, R)
      BY <3>4 DEF Retard
    <3> QED BY <1>8, <2>1, <2>2, <3>5, <3>6
  <2> QED BY <2>1, <2>3, <2>4
<1>12. CASE SuiteAjout(t) \/ SuiteMaj(t) \/ SuiteVerif(t)
  <2>1. /\ x.etape \in {"ajout", "maj", "verif"}
        /\ x.etape \in {"ajout", "maj"} => ~x.attend
        /\ ~SuiteApres(t) /\ ~SuiteNextMeal(t)
        /\ IF x.etape = "maj" /\ DuRepas(crontabs[h], x.repasId) = {}
             THEN Finir(t) ELSE Devenir(t, DernierAppel(x, "apres"))
    BY <1>12 DEF SuiteAjout, SuiteMaj, SuiteVerif, SuiteApres, SuiteNextMeal, Pret, x
  <2>2. UNCHANGED annonce
    BY <1>1, <2>1, AnnonceTraitement
  <2>3. x.etape = "maj" =>
          (DuRepas(crontabs[h], x.repasId) = {} <=> \A r \in R : r.id # x.repasId)
    BY <1>1, <2>1 DEF Accord, EnDette, Dette, x, R
  <2>4. CASE x.etape = "maj" /\ DuRepas(crontabs[h], x.repasId) = {}
    <3>1. y = Rien
      BY <1>1, <1>4, <2>1, <2>4 DEF Finir, Devenir, Typage, TypeOK
    <3>2. ~Retard(x, R)
      BY <2>3, <2>4 DEF Retard
    <3> QED BY <1>8, <2>2, <3>1, <3>2
  <2>5. CASE ~(x.etape = "maj" /\ DuRepas(crontabs[h], x.repasId) = {})
    <3>1. y = DernierAppel(x, "apres")
      BY <1>1, <1>4, <2>1, <2>5 DEF Devenir, Typage, TypeOK
    <3>2. y.etape = "apres" /\ y.avant = x.avant
      <4>1. "apres" \in Etapes
        BY DEF Etapes
      <4> QED BY <1>1, <3>1, <4>1, AppelChamps, AppelAvant
    <3>3. Retard(x, R)
      BY <2>1, <2>3, <2>5 DEF Retard
    <3>4. y # Rien => Souvient(y, R)
      BY <1>2, <1>5, <2>1, <3>2 DEF Souvient, Connait
    <3>5. y # Rien /\ Retard(y, R)
      <4>1. x \in Tache /\ "apres" \in Etapes
        BY <1>1 DEF Etapes
      <4>2. y \in Tache
        BY <3>1, <4>1, TacheType
      <4> QED BY <3>2, <4>2, RienTacheAssumption DEF Retard
    <3> QED BY <1>8, <2>2, <3>2, <3>3, <3>4, <3>5
  <2> QED BY <2>4, <2>5
<1>13. CASE SuiteRetrait(t)
  <2>1. /\ x.etape = "retrait" /\ ~x.attend
        /\ ~SuiteApres(t) /\ ~SuiteNextMeal(t)
        /\ IF x.ok THEN Devenir(t, Appel(x, "verif")) ELSE Finir(t)
    BY <1>13 DEF SuiteRetrait, SuiteApres, SuiteNextMeal, Pret, x
  <2>2. UNCHANGED annonce
    BY <1>1, <2>1, AnnonceTraitement
  <2>3. CASE ~x.ok
    <3>1. y = Rien
      BY <1>1, <1>4, <2>1, <2>3 DEF Finir, Devenir, Typage, TypeOK
    <3>2. ~Retard(x, R)
      BY <2>1, <2>3 DEF Retard
    <3> QED BY <1>8, <2>2, <3>1, <3>2
  <2>4. CASE x.ok
    <3>1. y = Appel(x, "verif")
      BY <1>1, <1>4, <2>1, <2>4 DEF Devenir, Typage, TypeOK
    <3>2. y.etape = "verif" /\ y.avant = x.avant /\ y \in Tache
      <4>1. "verif" \in Etapes
        BY DEF Etapes
      <4> QED BY <1>1, <3>1, <4>1, AppelChamps, AppelAvant
    <3>3. Retard(x, R) /\ Retard(y, R) /\ y # Rien
      BY <2>1, <2>4, <3>2, RienTacheAssumption DEF Retard
    <3>4. Souvient(y, R)
      BY <1>2, <1>5, <2>1, <3>2, <3>3 DEF Souvient
    <3> QED BY <1>8, <2>2, <3>2, <3>3, <3>4
  <2> QED BY <2>3, <2>4
<1>14. CASE SuiteAvant(t)
  <2> DEFINE p == ProchainOuRien(R)
             e == CASE x.op = "update" -> "maj"
                    [] x.op = "deleteMeal" -> "retrait"
                    [] OTHER -> "relecture"
             z == [x EXCEPT !.avant = p]
  <2>1. /\ x.etape = "avant" /\ ~x.attend /\ x.lu = R
        /\ ~SuiteApres(t) /\ ~SuiteNextMeal(t)
    BY <1>2, <1>14 DEF SuiteAvant, SuiteApres, SuiteNextMeal, Pret, x, Connait
  <2>2. Devenir(t, Appel(z, e))
    BY <1>14, <2>1 DEF SuiteAvant, x
  <2>3. p \in Affichage \cup {Rien}
    BY <1>2, ProchainType DEF Valable
  <2>4. EstProchaine(maintenant, R, HeureDe(p)) /\ (p = Rien => R = {})
    BY <1>2, ProchainOuRienJuste
  <2>5. z \in Tache /\ z.avant = p
    <3> HIDE DEF p
    <3> QED BY <1>1, <2>3 DEF Tache
  <2>6. e \in {"maj", "retrait", "relecture"} /\ e \in Etapes
    BY DEF Etapes
  <2> HIDE DEF p, e, z
  <2>7. y = Appel(z, e)
    BY <1>1, <1>4, <2>2 DEF Devenir, Typage, TypeOK
  <2>8. y.etape = e /\ y.avant = p /\ y.attend
    BY <2>5, <2>6, <2>7, AppelChamps, AppelAvant
  <2>9. Souvient(y, R) /\ ~Retard(y, R)
    BY <2>4, <2>6, <2>8 DEF Souvient, Retard
  <2>10. UNCHANGED annonce /\ ~Retard(x, R)
    BY <1>1, <2>1, AnnonceTraitement DEF Retard
  <2> QED BY <1>8, <2>9, <2>10
<1>15. CASE SuiteNextMeal(t)
  <2> DEFINE m == IF x.lu = {} THEN AucunRepas ELSE ProchainOuRien(x.lu)
  <2>1. /\ x.etape = "nextMeal" /\ ~x.attend /\ EnvoyerProchain(x.ws, m) /\ Finir(t)
    BY <1>15 DEF SuiteNextMeal, Pret, x
  <2>2. y = Rien /\ x.lu = R
    BY <1>1, <1>2, <1>4, <2>1 DEF Finir, Devenir, Typage, TypeOK, LuFrais
  <2>3. EstProchaine(maintenant, R, m.heure)
    <3>1. CASE R = {}
      BY <2>2, <3>1 DEF EstProchaine, AucunRepas
    <3>2. CASE R # {}
      BY <1>2, <2>2, <3>2, ProchainOuRienJuste DEF HeureDe
    <3> QED BY <3>1, <3>2
  <2> HIDE DEF m
  <2>4. UNCHANGED annonce \/ annonce'[h] = m
    BY <1>9, <2>1, <2>2
  <2>5. CASE annonce'[h] = m
    BY <1>6, <2>2, <2>3, <2>5 DEF Promise
  <2>6. CASE UNCHANGED annonce
    <3>1. ~Retard(x, R)
      BY <2>1 DEF Retard
    <3> QED BY <1>8, <2>2, <2>6, <3>1
  <2> QED BY <2>4, <2>5, <2>6
<1>16. CASE SuiteApres(t)
  <2> DEFINE r == ProchainOuRien(x.lu)
             differe == r # Rien /\ x.avant # Rien /\ r # x.avant
             premier == x.op = "addMeal" /\ x.avant = Rien
             dernier == x.op = "deleteMeal" /\ r = Rien
  <2>1. x.etape = "apres" /\ ~x.attend /\ x \in Tache /\ x.lu = R
    BY <1>1, <1>2, <1>16 DEF SuiteApres, Pret, x, LuFrais
  <2>2. /\ ~Indefini(x.op, r, x.avant) /\ Finir(t)
        /\ \/ (differe \/ premier) /\ EnvoyerProchain(x.ws, r)
           \/ dernier /\ EnvoyerProchain(x.ws, AucunRepas)
           \/ ~differe /\ ~premier /\ ~dernier /\ UNCHANGED annonce
    BY <1>16, Zenon DEF SuiteApres, x
  <2>3. y = Rien
    BY <1>1, <1>4, <2>2 DEF Finir, Devenir, Typage, TypeOK
  <2>4. connexions[x.ws].pair = h
    BY <1>1, <1>2, <2>1 DEF TacheBien, EtapesReliees, x
  <2>5. /\ differe \/ premier => r # Rien /\ EstProchaine(maintenant, R, r.heure)
        /\ dernier => EstProchaine(maintenant, R, -1)
        /\ ~differe /\ ~premier /\ ~dernier => EstProchaine(maintenant, R, HeureDe(x.avant))
    <3>1. x.attend = FALSE
      BY <2>1 DEF Tache
    <3> QED BY <1>2, <2>1, <2>2, <3>1, ComparaisonJuste
  <2> HIDE DEF r, differe, premier, dernier
  <2>6. ASSUME NEW m, EnvoyerProchain(x.ws, m), EstProchaine(maintenant, R, m.heure)
        PROVE  Nouvelles'
    <3>1. Suivi(h)' => annonce'[h] = m
      BY <1>9, <2>3, <2>4, <2>6
    <3> QED BY <1>6, <2>3, <2>6, <3>1 DEF Promise
  <2>7. CASE (differe \/ premier) /\ EnvoyerProchain(x.ws, r)
    BY <2>5, <2>6, <2>7
  <2>8. CASE dernier /\ EnvoyerProchain(x.ws, AucunRepas)
    <3>1. AucunRepas.heure = -1
      BY DEF AucunRepas
    <3> QED BY <2>5, <2>6, <2>8, <3>1
  <2>9. CASE ~differe /\ ~premier /\ ~dernier /\ UNCHANGED annonce
    <3>1. Promise(x, R, annonce[h]) => EstProchaine(maintenant, R, annonce[h].heure)
      BY <1>1, <2>1, <2>5, <2>9 DEF Promise, Retard, x
    <3> QED BY <1>7, <2>3, <2>9, <3>1 DEF Promise
  <2> QED BY <2>2, <2>7, <2>8, <2>9
<1> QED BY <1>10, <1>11, <1>12, <1>13, <1>14, <1>15, <1>16 DEF Suite

\* The handler of a timer: no request is being handled, and the last thing it does
\* is to tell the device of its next meal.
LEMMA NouvellesMinuterie ==
  ASSUME Numeros, BonDestinataire, Liens, Accord, Sains, Nouvelles, NEW t \in Minuteries,
         Base(t) \/ Suite(t), ~Planter, NEW h \in Gamelles, h = taches[t].g
  PROVE  Nouvelles'
<1> DEFINE x == taches[t]
<1>1. /\ Typage /\ t \in Lieux /\ x # Rien /\ x \in Tache /\ x.etape \in EtapesMinuterie
      /\ UNCHANGED <<clients, connexions, maintenant>> /\ Reponse(x)
      /\ LuFrais(x, bd[h].repas) /\ x.ws = clients[h] /\ x.ws \in Connexions
  BY TraitementReseau
     DEF Numeros, Lieux, Typage, TypeOK, Tache, MinuteriesBien, Sains, Nouvelles, Sonneries
<1>2. PICK y \in Tache \cup {Rien} :
        Devenir(t, y) /\ (y # Rien => y.g = h /\ y.ws \in {x.ws, clients[h]})
  BY <1>1, MemeSocket
<1>3. taches'[t] = y /\ \A u \in Lieux \ {t} : taches'[u] = taches[u]
  BY <1>1, <1>2 DEF Devenir, Typage, TypeOK
<1>4. \A u \in Requetes : taches[u] = Rien /\ taches'[u] = Rien
  BY <1>1, <1>3, ConstantesAssumption DEF Nouvelles, Exclusif, Lieux
<1>5. UNCHANGED crontabs
  BY <1>1, CrontabsInchanges DEF EtapesMinuterie, SuiteAjout, SuiteMaj, SuiteVerif, Pret
<1>6. \A g \in Gamelles : bd'[g].repas = bd[g].repas
  BY <1>1, PasBase, MinuterieInerte, SuiteNumero
<1>7. /\ Ecoute'
      /\ \A g \in Gamelles \ {h} : annonce'[g] = annonce[g]
  BY <1>1, EcouteTraitement DEF Nouvelles
<1>8. Exclusif'
  BY <1>4 DEF Exclusif
<1>9. Sonneries'
  BY <1>1, <1>2, <1>3 DEF Nouvelles, Sonneries, Lieux
<1>10. ASSUME NEW u \in Lieux, taches'[u] # Rien
       PROVE  LuFrais(taches[u], bd[taches[u].g].repas)'
  <2>1. CASE u # t
    <3>1. taches'[u] = taches[u] /\ taches[u].g \in Gamelles
      BY <1>1, <1>3, <1>10, <2>1 DEF Typage, TypeOK, Tache
    <3> QED BY <1>6, <1>10, <3>1 DEF Nouvelles, LuFrais
  <2>2. CASE u = t
    <3>1. CASE Suite(t)
      <4>1. Avance(t)
        BY <1>1, <3>1, SuiteAvance
      <4>2. y # Rien => y.attend
        BY <1>1, <1>3, <4>1, RienTacheAssumption
           DEF Avance, Finir, Relais, Devenir, Typage, TypeOK
      <4> QED BY <1>3, <1>10, <2>2, <4>2 DEF LuFrais
    <3>2. CASE Base(t)
      <4>1. CASE x.etape = "nextMeal"
        <5>1. /\ bd[h].repas \in SUBSET Repas /\ (bd[h].docs > 0) \in BOOLEAN
          BY <1>1 DEF Typage, TypeOK, Document
        <5>2. Executer(t, bd[h].docs > 0, bd[h].repas)
          BY <1>1, <3>2, <4>1 DEF Base, Trouver, TrouverRepas, Creer, Ajouter, Modifier,
             Retirer, Consigner, Attend
        <5> DEFINE ok == bd[h].docs > 0
        <5>3. ok \in BOOLEAN /\ Executer(t, ok, bd[h].repas)
          BY <5>1, <5>2
        <5> HIDE DEF ok
        <5>4. PICK z \in Tache : Devenir(t, z) /\ z.g = x.g /\ z.lu = bd[h].repas
          BY <1>1, <5>1, <5>3, ExecuterAvance
        <5>5. taches'[t] = z
          BY <1>1, <5>4 DEF Devenir, Typage, TypeOK
        <5> QED BY <1>6, <2>2, <5>4, <5>5 DEF LuFrais
      <4>2. CASE x.etape # "nextMeal"
        <5>1. PICK ok \in BOOLEAN, lu \in SUBSET Repas : Executer(t, ok, lu)
          BY <1>1, <3>2, BaseExecute
        <5>2. PICK z \in Tache : Devenir(t, z) /\ z.etape = x.etape
          BY <1>1, <5>1, ExecuterAvance
        <5>3. taches'[t] = z
          BY <1>1, <5>2 DEF Devenir, Typage, TypeOK
        <5> QED BY <1>1, <2>2, <4>2, <5>2, <5>3 DEF LuFrais, EtapesMinuterie
      <4> QED BY <4>1, <4>2
    <3> QED BY <3>1, <3>2
  <2> QED BY <2>1, <2>2
<1>11. ASSUME NEW g \in Gamelles, Suivi(g)', Muet(g)'
       PROVE  Promise(Rien, bd'[g].repas, annonce'[g])
  <2>1. CASE g # h
    <3>1. Suivi(g)
      BY <1>1, <1>7, <1>11, <2>1 DEF Suivi
    <3>2. Muet(g)
      BY <1>1, <1>3, <1>5, <1>11, <2>1 DEF Muet, Lieux
    <3>3. \A u \in Requetes : ~Concerne(u, g)
      BY <1>4 DEF Concerne
    <3> QED BY <1>6, <1>7, <2>1, <3>1, <3>2, <3>3 DEF Nouvelles, Annonces
  <2>2. CASE g = h
    <3>1. y = Rien
      BY <1>2, <1>3, <1>11, <2>2 DEF Muet
    <3>2. Suite(t) /\ ~Base(t)
      <4>1. ASSUME Base(t) PROVE FALSE
        <5>1. PICK ok \in BOOLEAN, lu \in SUBSET Repas : Executer(t, ok, lu)
          BY <1>1, <4>1, BaseExecute
        <5>2. PICK z \in Tache : Devenir(t, z)
          BY <1>1, <5>1, ExecuterAvance
        <5> QED BY <1>1, <1>3, <3>1, <5>2, RienTacheAssumption DEF Devenir, Typage, TypeOK
      <4> QED BY <4>1
    <3>3. SuiteNextMeal(t)
      <4>1. ASSUME NEW e \in Etapes,
                   Devenir(t, Appel(x, e)) \/ Devenir(t, DernierAppel(x, e))
            PROVE  FALSE
        <5>1. Appel(x, e) \in Tache /\ DernierAppel(x, e) \in Tache
          BY <1>1, TacheType
        <5>2. Appel(x, e) # Rien /\ DernierAppel(x, e) # Rien
          BY <5>1, RienTacheAssumption
        <5> QED BY <1>1, <1>3, <3>1, <4>1, <5>2 DEF Devenir, Typage, TypeOK
      <4>2. "enregistrement" \in Etapes /\ "nextMeal" \in Etapes
        BY DEF Etapes
      <4>3. ~SuiteDistribution(t)
        BY <1>1, <4>1, <4>2 DEF SuiteDistribution, Pret, Reponse, EtapesLecture
      <4>4. ~SuiteEnregistrement(t)
        BY <4>1, <4>2 DEF SuiteEnregistrement
      <4> QED BY <1>1, <3>2, <4>3, <4>4
              DEF EtapesMinuterie, Suite, SuiteCheck, SuiteCreation, SuiteLecture,
              SuiteAvant, SuiteRelecture, SuiteAjout, SuiteMaj, SuiteRetrait, SuiteVerif,
              SuiteApres, SuiteEatNow, SuiteEatNowEnregistre, Pret
    <3> DEFINE m == IF x.lu = {} THEN AucunRepas ELSE ProchainOuRien(x.lu)
               R == bd[h].repas
    <3>4. EnvoyerProchain(x.ws, m) /\ x.lu = R
      BY <1>1, <3>3 DEF SuiteNextMeal, Pret, LuFrais
    <3>5. EstProchaine(maintenant, R, m.heure)
      <4>0. Valable(R) /\ maintenant \in Minutes
        BY RepasValables
      <4>1. CASE R = {}
        BY <3>4, <4>1 DEF EstProchaine, AucunRepas
      <4>2. CASE R # {}
        BY <3>4, <4>0, <4>2, ProchainOuRienJuste DEF HeureDe
      <4> QED BY <4>1, <4>2
    <3> HIDE DEF m
    <3>6. Joint(x.ws)
      <4>1. connexions[clients[h]].ouverte /\ clients[h] # Rien
        BY <1>1, <1>11, <2>2 DEF Suivi
      <4>2. connexions[clients[h]].pair = h
        BY <4>1 DEF BonDestinataire, ClientBien
      <4> QED BY <1>1, <4>1, <4>2, ConstantesAssumption DEF Joint
    <3>7. annonce'[h] = m
      BY <1>1, <3>4, <3>6, AnnonceEnvoyee DEF Nouvelles
    <3> QED BY <1>6, <2>2, <3>5, <3>7 DEF Promise
  <2> QED BY <2>1, <2>2
<1>12. Annonces'
  BY <1>1, <1>4, <1>11 DEF Annonces, Promise, Concerne
<1>13. \A u \in Requetes : taches'[u] # Rien => Souvient(taches[u], bd[taches[u].g].repas)'
  BY <1>4
<1> QED BY <1>7, <1>8, <1>9, <1>10, <1>12, <1>13 DEF Nouvelles

\* A minute passes: the next meal stays the same, or the timer of a meal whose
\* minute it is is due.
LEMMA NouvellesTic ==
  ASSUME UnALaFois, Numeros, Eteint, Liens, Accord, Nouvelles, Tic
  PROVE  Nouvelles'
<1>1. /\ Typage /\ AucunDu /\ \A t \in Lieux : taches[t] = Rien /\ taches'[t] = Rien
      /\ UNCHANGED <<bd, clients, connexions, annonce>>
      /\ maintenant' = (maintenant + 1) % Jour
  BY DEF Tic, Numeros, ToutRien, reseau, appareils
<1>2. ASSUME NEW g \in Gamelles, Suivi(g)', Muet(g)'
      PROVE  EstProchaine(maintenant', bd[g].repas, annonce[g].heure)
  <2> DEFINE R == bd[g].repas
  <2>1. Suivi(g) /\ Muet(g)
    BY <1>1, <1>2 DEF Suivi, Muet, AucunDu, Lieux
  <2>2. EstProchaine(maintenant, R, annonce[g].heure)
    BY <1>1, <2>1 DEF Nouvelles, Annonces, Concerne, Promise, Lieux
  <2>3. Memes(crontabs[g], R)
    <3>1. serveur = "pret"
      BY <2>1 DEF Suivi, Eteint
    <3>2. Solde(g)
      BY <1>1 DEF Solde, Lieux
    <3> QED BY <3>1, <3>2 DEF Accord
  <2>4. \A r \in R : r.heure # maintenant'
    <3> SUFFICES ASSUME NEW r \in R, r.heure = maintenant' PROVE FALSE
      OBVIOUS
    <3>1. PICK c \in crontabs[g] : c.heure = maintenant'
      BY <2>3 DEF Memes, Dit
    <3>2. c.ws # Rien
      BY <2>1 DEF Suivi, Liens
    <3> DEFINE du == c.ws # Rien /\ c.heure = maintenant'
               n == [c EXCEPT !.du = du]
    <3>3. n \in crontabs'[g]
      BY DEF Tic
    <3>4. n.du
      <4>1. c \in Crontab /\ du
        BY <1>1, <3>1, <3>2 DEF Typage, TypeOK
      <4> HIDE DEF du
      <4> QED BY <4>1 DEF Crontab
    <3> HIDE DEF n
    <3> QED BY <1>2, <3>3, <3>4 DEF Muet
  <2>5. Valable(R) /\ maintenant \in Minutes
    BY RepasValables
  <2> HIDE DEF R
  <2>6. EstProchaine((maintenant + 1) % Jour, R, annonce[g].heure)
    BY <1>1, <2>2, <2>4, <2>5, ProchaineDure
  <2> QED BY <1>1, <2>6 DEF R
<1>3. Annonces'
  BY <1>1, <1>2 DEF Annonces, Concerne, Promise, Lieux
<1>4. Ecoute'
  BY <1>1 DEF Nouvelles, Ecoute
<1>5. \A t \in Lieux : taches'[t] = Rien
  BY <1>1
<1> QED BY <1>3, <1>4, <1>5 DEF Nouvelles, Exclusif, Sonneries, Lieux

\* A timer fires: its bowl will be told once the portion is ordered.
LEMMA NouvellesDeclencher ==
  ASSUME Numeros, Liens, Nouvelles, NEW t \in Minuteries, NEW g \in Gamelles,
         Declencher(t, g)
  PROVE  Nouvelles'
<1>1. PICK c \in crontabs[g] :
        /\ c.du /\ c.ws # Rien
        /\ crontabs' = [crontabs EXCEPT ![g] = (@ \ {c}) \cup {[c EXCEPT !.du = FALSE]}]
        /\ Devenir(t, [op |-> "distribution", etape |-> "distribution",
                       attend |-> TRUE, ok |-> FALSE, g |-> g, ws |-> c.ws,
                       repasId |-> 0, heure |-> -1, poids |-> 0, avant |-> Rien,
                       lu |-> {}])
  BY DEF Declencher
<1> DEFINE x == [op |-> "distribution", etape |-> "distribution",
                 attend |-> TRUE, ok |-> FALSE, g |-> g, ws |-> c.ws,
                 repasId |-> 0, heure |-> -1, poids |-> 0, avant |-> Rien,
                 lu |-> {}]
<1>2. /\ Typage /\ t \in Lieux /\ UNCHANGED <<bd, clients, connexions, maintenant, annonce>>
      /\ c \in Crontab /\ c.ws = clients[g]
  BY DEF Declencher, Numeros, Typage, TypeOK, Lieux, reseau, horloge, appareils, Liens
<1>3. x \in Tache
  BY <1>1, <1>2, ConstantesAssumption DEF Tache, Etapes, Heures, Crontab
<1>4. x.g = g /\ x.ws = c.ws /\ x.etape = "distribution" /\ Devenir(t, x)
  BY <1>1
<1> HIDE DEF x
<1>5. taches'[t] = x /\ \A u \in Lieux \ {t} : taches'[u] = taches[u]
  BY <1>2, <1>4 DEF Devenir, Typage, TypeOK
<1>6. \A u \in Requetes : taches[u] = Rien /\ taches'[u] = Rien
  <2>1. ~AucunDu
    BY <1>1 DEF AucunDu
  <2> QED BY <1>2, <1>5, <2>1, ConstantesAssumption DEF Nouvelles, Exclusif, Lieux
<1>7. ASSUME NEW h \in Gamelles, Suivi(h)', Muet(h)'
      PROVE  Promise(Rien, bd[h].repas, annonce[h])
  <2>1. h # g
    BY <1>3, <1>4, <1>5, <1>7, RienTacheAssumption DEF Muet
  <2>2. crontabs'[h] = crontabs[h]
    BY <1>1, <1>2, <2>1 DEF Typage, TypeOK
  <2>3. \A u \in Minuteries : taches[u] # Rien => taches[u].g # h
    <3>1. taches[t] = Rien
      BY DEF Declencher
    <3> QED BY <1>5, <1>7, <3>1 DEF Muet, Lieux
  <2>4. Suivi(h) /\ Muet(h)
    BY <1>2, <1>7, <2>2, <2>3 DEF Suivi, Muet
  <2> QED BY <1>6, <2>4 DEF Nouvelles, Annonces, Concerne
<1>8. Annonces'
  BY <1>2, <1>6, <1>7 DEF Annonces, Promise, Concerne
<1>9. Sonneries'
  BY <1>2, <1>4, <1>5 DEF Nouvelles, Sonneries, Lieux
<1>10. ASSUME NEW u \in Lieux, taches'[u] # Rien
       PROVE  LuFrais(taches[u], bd[taches[u].g].repas)'
  <2>1. CASE u = t
    BY <1>4, <1>5, <2>1 DEF LuFrais
  <2>2. CASE u # t
    BY <1>2, <1>5, <1>10, <2>2 DEF Nouvelles, LuFrais
  <2> QED BY <2>1, <2>2
<1>11. Exclusif' /\ Ecoute'
  BY <1>2, <1>6 DEF Nouvelles, Exclusif, Ecoute
<1> QED BY <1>6, <1>8, <1>9, <1>10, <1>11 DEF Nouvelles

\* A message: nothing is in progress; a device that was told something is the one
\* that is registered already.
LEMMA NouvellesRecevoir ==
  ASSUME UnALaFois, Numeros, Liens, Nouvelles, NEW t \in Requetes, NEW w \in Connexions,
         NEW g \in IF connexions[w].pair = Appli THEN Gamelles ELSE {connexions[w].pair},
         NEW d \in Demandes(g, w), Recevoir(t, d)
  PROVE  Nouvelles'
<1> DEFINE x == [op |-> d.op, etape |-> "check", attend |-> TRUE, ok |-> FALSE,
                 g |-> d.g, ws |-> d.ws, repasId |-> d.repasId,
                 heure |-> d.heure, poids |-> d.poids, avant |-> Rien, lu |-> {}]
<1>1. /\ Typage /\ t \in Lieux /\ g \in Gamelles /\ d.g = g /\ d.ws = w
      /\ connexions[w].pair # Appli => connexions[w].pair = g
      /\ connexions[w].ouverte
      /\ UNCHANGED <<bd, maintenant, annonce>> /\ Devenir(t, x)
      /\ AucunDu /\ \A u \in Lieux : taches[u] = Rien
  BY DEF Recevoir, Numeros, Typage, TypeOK, Lieux, Demandes, horloge, appareils, ToutRien
<1>2. x.etape = "check"
  OBVIOUS
<1> HIDE DEF x
<1>3. /\ taches'[t] = x /\ t \notin Minuteries
      /\ \A u \in Lieux \ {t} : taches'[u] = Rien
  BY <1>1, ConstantesAssumption DEF Devenir, Typage, TypeOK
<1>4. \A v \in Connexions : /\ connexions'[v].pair = connexions[v].pair
                            /\ connexions'[v].ouverte = connexions[v].ouverte
  <2>1. \/ connexions' = [connexions EXCEPT ![w].premier = FALSE]
        \/ UNCHANGED connexions
    BY <1>1 DEF Recevoir, reseau
  <2> QED BY <1>1, <2>1 DEF Typage, TypeOK
<1>5. \/ UNCHANGED <<clients, crontabs>>
      \/ /\ connexions[w].pair = g /\ clients' = [clients EXCEPT ![g] = w]
         /\ connexions[w].pair # Appli
         /\ crontabs' = [crontabs EXCEPT ![g] = restartCrontabs(@, w)]
  BY <1>1 DEF Recevoir, reseau
<1>6. /\ \A h \in Gamelles \ {g} : clients'[h] = clients[h]
      /\ clients'[g] = clients[g] \/ (clients'[g] = w /\ connexions[w].pair = g)
  BY <1>1, <1>5 DEF Typage, TypeOK
<1>7. AucunDu'
  <2>1. ASSUME NEW h \in Gamelles PROVE \A c \in crontabs'[h] : ~c.du
    <3>1. crontabs[h] \in SUBSET Crontab /\ \A c \in crontabs[h] : ~c.du
      BY <1>1 DEF Typage, TypeOK, AucunDu
    <3>2. \A c \in restartCrontabs(crontabs[h], w) : ~c.du
      BY <3>1 DEF restartCrontabs, Crontab
    <3>3. crontabs'[h] \in {crontabs[h], restartCrontabs(crontabs[h], w)}
      BY <1>1, <1>5 DEF Typage, TypeOK
    <3> QED BY <3>1, <3>2, <3>3
  <2> QED BY <2>1 DEF AucunDu
<1>8. Ecoute'
  <2> SUFFICES ASSUME NEW v \in Connexions, connexions[v].ouverte,
                      connexions[v].pair # Appli, annonce[connexions[v].pair] # Rien
               PROVE  clients'[connexions[v].pair] = v
    BY <1>1, <1>4 DEF Ecoute
  <2>1. clients[connexions[v].pair] = v /\ connexions[v].pair \in Gamelles
    BY <1>1 DEF Nouvelles, Ecoute, Typage, TypeOK
  <2>2. connexions[w].pair = g /\ connexions[v].pair = g => v = w
    BY <1>1 DEF Liens
  <2> QED BY <1>6, <2>1, <2>2
<1>9. ASSUME NEW h \in Gamelles, Suivi(h)' PROVE Suivi(h)
  <2>1. CASE clients'[h] = clients[h]
    <3>1. clients[h] \in Connexions
      BY <1>1, <1>9, <2>1 DEF Suivi, Typage, TypeOK
    <3> QED BY <1>1, <1>4, <1>9, <2>1, <3>1 DEF Suivi
  <2>2. CASE clients'[h] # clients[h]
    <3>1. h = g /\ connexions[w].pair = g /\ connexions[w].pair # Appli
      BY <1>1, <1>5, <1>6, <2>2
    <3>2. annonce[g] # Rien
      BY <1>1, <1>9, <3>1 DEF Suivi
    <3>3. clients[g] = w
      BY <1>1, <3>1, <3>2 DEF Nouvelles, Ecoute
    <3> QED BY <1>1, <3>1, <3>2, <3>3, ConstantesAssumption DEF Suivi
  <2> QED BY <2>1, <2>2
<1>10. Annonces'
  <2>1. ASSUME NEW h \in Gamelles, Suivi(h)'
        PROVE  EstProchaine(maintenant, bd[h].repas, annonce[h].heure)
    <3>1. Muet(h) /\ \A u \in Requetes : ~Concerne(u, h)
      BY <1>1 DEF Muet, AucunDu, Concerne, Lieux
    <3> QED BY <1>9, <2>1, <3>1 DEF Nouvelles, Annonces, Promise
  <2>2. \A R : ~Retard(x, R)
    BY <1>2 DEF Retard
  <2>3. \A u \in Requetes, h \in Gamelles : Concerne(u, h)' => taches'[u] = x
    BY <1>3 DEF Concerne, Lieux
  <2> QED BY <1>1, <2>1, <2>2, <2>3 DEF Annonces, Promise
<1>11. Exclusif'
  BY <1>3, <1>7 DEF Exclusif, Lieux
<1>12. Sonneries'
  BY <1>3 DEF Sonneries, Lieux
<1>13. \A u \in Lieux : taches'[u] # Rien => LuFrais(taches[u], bd[taches[u].g].repas)'
  BY <1>2, <1>3 DEF LuFrais
<1>14. \A u \in Requetes : taches'[u] # Rien => Souvient(taches[u], bd[taches[u].g].repas)'
  BY <1>2, <1>3 DEF Souvient, Lieux
<1> QED BY <1>8, <1>10, <1>11, <1>12, <1>13, <1>14 DEF Nouvelles

\* A device opens a socket before it is told anything on it.
LEMMA NouvellesClients ==
  ASSUME Numeros, Nouvelles, NEW w \in Connexions,
         \/ \E pair \in Gamelles \cup {Appli} : Connecter(w, pair)
         \/ Deconnecter(w)
  PROVE  Nouvelles'
<1>1. UNCHANGED <<bd, taches, clients, crontabs, maintenant>> /\ Typage
  BY DEF Connecter, Deconnecter, horloge, Numeros
<1>2. ASSUME Ecoute', \A g \in Gamelles : Suivi(g)' => Suivi(g) /\ annonce'[g] = annonce[g]
      PROVE  Nouvelles'
  <2>1. Exclusif' /\ Sonneries'
    BY <1>1 DEF Nouvelles, Exclusif, Sonneries, AucunDu
  <2>2. Annonces'
    BY <1>1, <1>2 DEF Nouvelles, Annonces, Concerne, Muet, Promise
  <2>3. /\ \A t \in Lieux : taches'[t] # Rien => LuFrais(taches[t], bd[taches[t].g].repas)'
        /\ \A t \in Requetes :
             taches'[t] # Rien => Souvient(taches[t], bd[taches[t].g].repas)'
    BY <1>1 DEF Nouvelles, LuFrais, Souvient
  <2> QED BY <1>2, <2>1, <2>2, <2>3 DEF Nouvelles
<1>3. CASE Deconnecter(w)
  <2>1. /\ UNCHANGED annonce
        /\ \A v \in Connexions : /\ connexions'[v].pair = connexions[v].pair
                                 /\ connexions'[v].ouverte => connexions[v].ouverte
    BY <1>1, <1>3 DEF Deconnecter, Typage, TypeOK, appareils
  <2>2. Ecoute'
    BY <1>1, <2>1 DEF Nouvelles, Ecoute
  <2>3. ASSUME NEW g \in Gamelles, Suivi(g)' PROVE Suivi(g)
    <3>1. clients[g] \in Connexions
      BY <1>1, <2>3 DEF Suivi, Typage, TypeOK
    <3> QED BY <1>1, <2>1, <2>3, <3>1 DEF Suivi
  <2> QED BY <1>2, <2>1, <2>2, <2>3
<1>4. ASSUME NEW pair \in Gamelles \cup {Appli}, Connecter(w, pair) PROVE Nouvelles'
  <2>1. /\ connexions'[w].pair = pair /\ ~Reference(w)
        /\ \A v \in Connexions \ {w} : connexions'[v] = connexions[v]
        /\ \A g \in Gamelles : annonce'[g] = IF g = pair THEN Rien ELSE annonce[g]
    BY <1>1, <1>4 DEF Connecter, Typage, TypeOK
  <2>2. ASSUME NEW v \in Connexions, connexions'[v].ouverte, connexions'[v].pair # Appli,
               annonce'[connexions'[v].pair] # Rien
        PROVE  clients'[connexions'[v].pair] = v
    <3>1. connexions'[v].pair \in Gamelles
      <4>1. CASE v = w
        BY <2>1, <2>2, <4>1
      <4>2. CASE v # w
        BY <1>1, <2>1, <2>2, <4>2 DEF Typage, TypeOK
      <4> QED BY <4>1, <4>2
    <3>2. connexions'[v].pair # pair
      BY <2>1, <2>2, <3>1
    <3>3. v # w
      BY <2>1, <3>2
    <3> QED BY <1>1, <2>1, <2>2, <3>1, <3>2, <3>3 DEF Nouvelles, Ecoute
  <2>3. ASSUME NEW g \in Gamelles, Suivi(g)' PROVE Suivi(g) /\ annonce'[g] = annonce[g]
    <3>1. clients[g] \in Connexions \ {w}
      BY <1>1, <2>1, <2>3 DEF Suivi, Typage, TypeOK, Reference
    <3> QED BY <1>1, <2>1, <2>3, <3>1 DEF Suivi
  <2>4. Ecoute'
    BY <2>2 DEF Ecoute
  <2> QED BY <1>2, <2>3, <2>4
<1> QED BY <1>3, <1>4

\* No device is registered when the process has just stopped, or starts.
LEMMA NouvellesProcessus ==
  ASSUME Eteint,
         \/ Demarrer \/ LirePhoto \/ restartServer
         \/ Planter \/ EchecDemarrage \/ Panne
  PROVE  Nouvelles'
<1>1. /\ \A g \in Gamelles : clients'[g] = Rien
      /\ \A w \in Connexions : ~connexions'[w].ouverte
      /\ \A t \in Lieux : taches'[t] = Rien
  <2>1. CASE Planter \/ EchecDemarrage \/ Panne
    BY <2>1, ArretVide
  <2>2. CASE Demarrer \/ LirePhoto \/ restartServer
    <3>1. serveur # "pret" /\ UNCHANGED <<taches, clients, connexions>>
      BY <2>2 DEF Demarrer, LirePhoto, restartServer, reseau
    <3> QED BY <3>1 DEF Eteint
  <2> QED BY <2>1, <2>2
<1>2. Exclusif' /\ Sonneries' /\ Ecoute' /\ Annonces'
  BY <1>1 DEF Exclusif, Sonneries, Ecoute, Annonces, Suivi, Lieux
<1> QED BY <1>1, <1>2 DEF Nouvelles, Lieux

LEMMA NouvellesStables ==
  ASSUME UnALaFois, BdFiable, Numeros, BonDestinataire, Eteint, Liens, Accord, Sains,
         Nouvelles, [Next]_vars
  PROVE  Nouvelles'
<1>1. CASE UNCHANGED vars
  BY <1>1 DEF vars, memoire, reseau, horloge, appareils, Nouvelles, Exclusif, Ecoute,
     Sonneries, Annonces, Suivi, Muet, Concerne, Promise, AucunDu, LuFrais, Souvient
<1>2. ASSUME NEW t \in Lieux, Base(t) \/ Suite(t) \/ Echec(t)
      PROVE  Nouvelles'
  <2>1. ~Echec(t)
    BY DEF Echec
  <2>2. CASE Planter
    BY <2>2, NouvellesProcessus
  <2>3. CASE ~Planter
    <3>1. PICK h \in Gamelles : h = taches[t].g
      BY <1>2, <2>3, TraitementReseau DEF Numeros, Typage, TypeOK, Tache
    <3> QED BY <1>2, <2>1, <2>3, <3>1, NouvellesBase, NouvellesSuite, NouvellesMinuterie
            DEF Lieux
  <2> QED BY <2>2, <2>3
<1> QED BY <1>1, <1>2, NouvellesTic, NouvellesDeclencher, NouvellesRecevoir,
           NouvellesClients, NouvellesProcessus DEF Next

LEMMA NouvellesInit == Init => Nouvelles
BY DEF Init, ToutRien, Lieux, Nouvelles, Exclusif, Ecoute, Sonneries, Annonces, Suivi

LEMMA NouvellesSuffisent ==
  ASSUME Numeros, Accord, Nouvelles
  PROVE  AnnonceAJour
<1> SUFFICES ASSUME serveur = "pret", taches = ToutRien, AucunDu, NEW g \in Gamelles,
                    annonce[g] # Rien, clients[g] # Rien, connexions[clients[g]].ouverte
             PROVE  annonce[g].heure = HeureProchaine(bd[g].repas)
  BY DEF AnnonceAJour
<1>1. Suivi(g) /\ Muet(g) /\ \A t \in Requetes : ~Concerne(t, g)
  BY DEF Suivi, Muet, AucunDu, Concerne, ToutRien, Lieux
<1>2. EstProchaine(maintenant, bd[g].repas, annonce[g].heure)
  BY <1>1 DEF Nouvelles, Annonces, Promise
<1>3. Valable(bd[g].repas) /\ maintenant \in Minutes
  BY RepasValables
<1>4. EstProchaine(maintenant, bd[g].repas, HeureProchaine(bd[g].repas))
  BY <1>3, HeureProchaineJuste
<1> QED BY <1>2, <1>3, <1>4, ProchaineUnique

\* Under the same conditions, a connected device that was ever told of its next
\* meal shows the right hour whenever nothing is in progress: each of addMeal,
\* update, deleteMeal and distribution tells it when, and only when, it must (the
\* comparisons at the end of the three first in traitement.js), and neither the
\* minutes that pass nor a device that comes back undo it.
THEOREM AnnonceToujoursAJour ==
  ASSUME UnALaFois, ~ConnexionPrecoce, BdFiable, -1 \notin HeuresSaisies,
         BasesNumerotees, BasesValides, BasesConnues
  PROVE  Spec => []AnnonceAJour
<1> DEFINE Inv == Numeros /\ Eteint /\ Liens /\ Accord /\ Sains /\ Nouvelles
<1>1. Init => Inv
  BY NumerosInit, LiensInit, AccordInit, SainsInit, NouvellesInit
<1>2. BonDestinataire /\ Inv /\ [Next]_vars => Inv'
  <2> SUFFICES ASSUME BonDestinataire, Inv, [Next]_vars PROVE Inv'
    OBVIOUS
  <2>1. Numeros' /\ Typage /\ Typage' /\ MinuteriesBien
    BY NumerosStables DEF Numeros
  <2> QED BY <2>1, EteintStable, LiensStables, AccordStable, SainsStables, NouvellesStables
<1>3. Inv => AnnonceAJour
  BY NouvellesSuffisent
<1> QED BY <1>1, <1>2, <1>3, Destinataires, PTL DEF Spec
==============================================================================
