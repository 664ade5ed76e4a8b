--------------------------- MODULE SystemePreuves --------------------------
(***************************************************************************)
(* Proofs about the page with the server: what the two do together is an   *)
(* execution of the server, and a user who waits for each list sees and    *)
(* changes the meals of his bowl.                                          *)
(***************************************************************************)
EXTENDS Systeme, ServeurSequentiel, SequenceTheorems

------------------------------------------------------------------------------
(* The page. *)

Message == [op : Ops, g : Gamelles, repasId : Nat \cup {SansChoix},
            heure : HeuresSaisies \cup {-1}, poids : Poids \cup {0}]

PageTypee ==
  /\ socket \in {"connecting", "open", "closed"}
  /\ id \in Gamelles \cup {Rien} /\ listRepas \in SUBSET Repas
  /\ promesse \in {"aucune", "attendue", "tenue"}
  /\ emis \in Seq(Message) /\ recus \in Seq((SUBSET Repas) \cup {Rien})
  /\ patient \in BOOLEAN

\* A list is only asked for, and the page only shown, for a bowl that was chosen.
Choisie == /\ promesse # "aucune" => id \in Gamelles
           /\ promesse = "aucune" => "corps" \notin vues

\* The server's end is that of an open socket of a page; nothing is under way
\* without one.
Prise ==
  /\ prise \in Connexions \cup {Rien}
  /\ socket = "open" <=> prise # Rien
  /\ prise # Rien => connexions[prise].pair = Appli
  /\ socket # "open" => emis = <<>> /\ recus = <<>>
  /\ socket = "connecting" => promesse = "aucune"

PageBien == PageTypee /\ Choisie /\ Prise

------------------------------------------------------------------------------
(* The handlers. *)

Modifs == {"update", "addMeal", "deleteMeal"}

Coherente(x) ==
  /\ x.op \in Ops
  /\ x.op = "requestData" => x.etape \in {"check", "creation", "requestData"}
  /\ x.etape = "requestData" => x.op = "requestData"
  /\ x.etape \in {"avant", "relecture", "ajout", "maj", "retrait"} => x.op \in Modifs

SeulTraitement == \A t, u \in Lieux : taches[t] # Rien /\ taches[u] # Rien => t = u

TraitementsBien ==
  /\ SeulTraitement
  /\ \A t \in Lieux : taches[t] # Rien => Coherente(taches[t])

------------------------------------------------------------------------------
(* What a user who waits has under way. *)

\* No handler changes meals; none is to answer the page.
SansModification == \A t \in Lieux : taches[t] # Rien => taches[t].op \notin Modifs
Demandeur(x) == x.op = "requestData" /\ x.ws = prise
SansReponse == \A t \in Lieux : taches[t] # Rien => ~Demandeur(taches[t])

\* The list is that of the database.
Vue == listRepas = bd[id].repas

Question(m) == m.op = "requestData" /\ m.g = id
Ordre(m) == m.op # "requestData" /\ m.g = id

\* An order and the question are on their way; the question alone; it is being
\* answered, or never will be; the answer is on its way.
OrdreEnRoute ==
  /\ \E m, q \in Message : emis = <<m, q>> /\ Ordre(m) /\ Question(q)
  /\ recus = <<>> /\ SansModification /\ SansReponse /\ Vue
QuestionEnRoute ==
  /\ \E q \in Message : emis = <<q>> /\ Question(q)
  /\ recus = <<>> /\ SansReponse
Examen(x) == /\ x.g = id
             /\ x.etape = "requestData" /\ ~x.attend /\ x.ok => x.lu = bd[id].repas
QuestionsBonnes ==
  \A t \in Lieux : taches[t] # Rien /\ Demandeur(taches[t]) => Examen(taches[t])
QuestionPosee ==
  /\ emis = <<>> /\ recus = <<>> /\ SansModification
  /\ QuestionsBonnes
ReponseEnRoute ==
  /\ emis = <<>> /\ SansModification /\ SansReponse
  /\ recus = <<Rien>> \/ recus = <<bd[id].repas>>

Conduite ==
  /\ promesse = "aucune" => emis = <<>> /\ recus = <<>> /\ SansReponse
  /\ promesse = "tenue" => /\ emis = <<>> /\ recus = <<>>
                           /\ SansModification /\ SansReponse /\ Vue
  /\ promesse = "attendue" =>
       OrdreEnRoute \/ QuestionEnRoute \/ QuestionPosee \/ ReponseEnRoute

Attentif == patient /\ socket = "open" => Conduite

------------------------------------------------------------------------------
(* The page with the server is an execution of the server. *)

LEMMA QuestionType ==
  ASSUME NEW g \in Gamelles
  PROVE  /\ W!Requete("requestData", g, 0, -1, 0) \in Message
         /\ W!Requete("requestData", g, 0, -1, 0).op = "requestData"
         /\ W!Requete("requestData", g, 0, -1, 0).g = g
BY DEF W!Requete, Message, Ops

\* A click that sends: what it puts under way.
LEMMA DemanderPage ==
  ASSUME PageTypee, NEW g \in Gamelles, NEW R \in Seq(Message), W!Demander(g, R)
  PROVE  /\ emis' \in Seq(Message) /\ promesse' = "attendue" /\ patient' \in BOOLEAN
         /\ patient' => patient /\ promesse # "attendue"
         /\ IF socket = "open"
            THEN emis' = Append(emis \o R, W!Requete("requestData", g, 0, -1, 0))
            ELSE emis' = emis
<1> DEFINE q == W!Requete("requestData", g, 0, -1, 0)
<1>1. q \in Message
  BY QuestionType
<1>2. /\ promesse' = "attendue" /\ patient' = (patient /\ promesse # "attendue")
      /\ emis' = IF socket = "open" THEN Append(emis \o R, q) ELSE emis
  BY DEF W!Demander
<1> HIDE DEF q
<1>3. emis \in Seq(Message) /\ patient \in BOOLEAN
  BY DEF PageTypee
<1>4. emis \o R \in Seq(Message)
  BY <1>3
<1>5. emis' \in Seq(Message)
  BY <1>1, <1>2, <1>3, <1>4
<1> QED BY <1>2, <1>3, <1>5 DEF q

\* What a click that changes the planning, or serves, asks for.
LEMMA OrdreType ==
  ASSUME PageTypee, id \in Gamelles, "corps" \in vues,
         NEW op \in {"deleteMeal", "addMeal", "update", "eatNow"},
         NEW k \in W!Choix \cup {0}, NEW h \in HeuresSaisies \cup {-1},
         NEW p \in Poids \cup {0}
  PROVE  /\ W!Requete(op, id, k, h, p) \in Message
         /\ W!Requete(op, id, k, h, p).op = op
         /\ W!Requete(op, id, k, h, p).g = id
         /\ <<W!Requete(op, id, k, h, p)>> \in Seq(Message)
<1>1. k \in Nat \cup {SansChoix}
  BY DEF W!Choix, PageTypee, Repas
<1>2. op \in Ops
  BY DEF Ops
<1>3. W!Requete(op, id, k, h, p) \in Message
  BY <1>1, <1>2 DEF W!Requete, Message
<1> QED BY <1>3 DEF W!Requete

\* The clicks, by what they send: a list, an order then a list, nothing.
Ouvre(g) ==
  /\ id' = g /\ vues' \subseteq vues
  /\ IF socket = "connecting" THEN UNCHANGED <<emis, promesse, patient>>
     ELSE W!Demander(g, <<>>)
  /\ UNCHANGED <<socket, listRepas, recus>>
Ordonne ==
  /\ "corps" \in vues
  /\ \E op \in {"deleteMeal", "addMeal", "update", "eatNow"}, k \in W!Choix \cup {0},
        h \in HeuresSaisies \cup {-1}, p \in Poids \cup {0} :
       W!Demander(id, <<W!Requete(op, id, k, h, p)>>)
  /\ UNCHANGED <<socket, id, listRepas, recus>>
Montre ==
  /\ "corps" \in vues' => "corps" \in vues
  /\ UNCHANGED <<socket, id, listRepas, recus, emis, promesse, patient>>

LEMMA Clics ==
  ASSUME W!Clic
  PROVE  Ordonne \/ Montre \/ W!recharger \/ \E g \in Gamelles : Ouvre(g)
<1>1. ASSUME NEW g \in Gamelles, W!connexion(g) PROVE Ouvre(g)
  BY <1>1 DEF W!connexion, W!echanges, Ouvre
<1>2. CASE W!deconnexion \/ W!checkWebSocket \/ \E mode \in {-1, 0, 1} : W!ouvrirFormulaire(mode)
  BY <1>2 DEF W!deconnexion, W!checkWebSocket, W!ouvrirFormulaire, W!echanges, Montre
<1>3. CASE W!supprimer
  <2>1. PICK k \in W!Choix : W!Demander(id, <<W!Requete("deleteMeal", id, k, -1, 0)>>)
    BY <1>3 DEF W!supprimer
  <2>2. "corps" \in vues /\ UNCHANGED <<socket, id, listRepas, recus>>
    BY <1>3 DEF W!supprimer
  <2> QED BY <2>1, <2>2 DEF Ordonne
<1>4. CASE W!creationRepas
  <2>1. PICK h \in HeuresSaisies, p \in Poids :
          \/ W!Demander(id, <<W!Requete("addMeal", id, 0, h, p)>>)
          \/ \E k \in W!Choix : W!Demander(id, <<W!Requete("update", id, k, h, p)>>)
          \/ W!Demander(id, <<W!Requete("eatNow", id, 0, -1, p)>>)
    BY <1>4 DEF W!creationRepas
  <2>2. "corps" \in vues /\ UNCHANGED <<socket, id, listRepas, recus>>
    BY <1>4 DEF W!creationRepas, W!ecran
  <2> QED BY <2>1, <2>2 DEF Ordonne
<1> QED BY <1>1, <1>2, <1>3, <1>4 DEF W!Clic

LEMMA ClicPage ==
  ASSUME PageBien, Clic
  PROVE  PageBien'
<1>1. /\ PageTypee /\ Choisie /\ Prise /\ W!Clic
      /\ prise' = prise /\ connexions' = connexions
  BY DEF PageBien, Clic, vars, memoire, reseau
<1>2. ASSUME NEW g \in Gamelles, Ouvre(g) PROVE PageBien'
  <2>1. <<>> \in Seq(Message)
    OBVIOUS
  <2>2. CASE socket = "connecting"
    BY <1>1, <1>2, <2>2 DEF Ouvre, PageBien, PageTypee, Choisie, Prise
  <2>3. CASE socket # "connecting"
    <3>1. /\ emis' \in Seq(Message) /\ promesse' = "attendue" /\ patient' \in BOOLEAN
          /\ socket # "open" => emis' = emis
      BY <1>1, <1>2, <2>1, <2>3, DemanderPage DEF Ouvre
    <3> QED BY <1>1, <1>2, <2>3, <3>1 DEF Ouvre, PageBien, PageTypee, Choisie, Prise
  <2> QED BY <2>2, <2>3
<1>3. CASE Ordonne
  <2>1. id \in Gamelles /\ "corps" \in vues
    BY <1>1, <1>3 DEF Ordonne, Choisie
  <2>2. PICK op \in {"deleteMeal", "addMeal", "update", "eatNow"}, k \in W!Choix \cup {0},
             h \in HeuresSaisies \cup {-1}, p \in Poids \cup {0} :
               W!Demander(id, <<W!Requete(op, id, k, h, p)>>)
    BY <1>3 DEF Ordonne
  <2>3. <<W!Requete(op, id, k, h, p)>> \in Seq(Message)
    BY <1>1, <2>1, OrdreType
  <2>4. /\ emis' \in Seq(Message) /\ promesse' = "attendue" /\ patient' \in BOOLEAN
        /\ socket # "open" => emis' = emis
    BY <1>1, <2>1, <2>2, <2>3, DemanderPage
  <2>5. socket # "connecting"
    BY <1>1, <2>1 DEF Choisie, Prise
  <2> QED BY <1>1, <1>3, <2>1, <2>4, <2>5 DEF Ordonne, PageBien, PageTypee, Choisie, Prise
<1>4. CASE Montre
  BY <1>1, <1>4 DEF Montre, PageBien, PageTypee, Choisie, Prise
<1>5. CASE W!recharger
  <2>1. /\ socket = "closed" /\ socket' = "connecting" /\ id' = Rien /\ listRepas' = {}
        /\ vues' = {"login", "modifier"} /\ promesse' = "aucune" /\ patient' = TRUE
        /\ UNCHANGED <<emis, recus>>
    BY <1>5 DEF W!recharger
  <2>2. "corps" \notin vues'
    BY <2>1
  <2>3. PageTypee' /\ Choisie'
    BY <1>1, <2>1, <2>2 DEF PageTypee, Choisie
  <2>4. Prise'
    BY <1>1, <2>1 DEF Prise
  <2> QED BY <2>3, <2>4 DEF PageBien
<1> QED BY <1>1, <1>2, <1>3, <1>4, <1>5, Clics

LEMMA EvenementPage ==
  ASSUME PageBien, Evenement
  PROVE  PageBien'
<1>1. /\ PageTypee /\ Choisie /\ Prise /\ W!onmessage
      /\ prise' = prise /\ connexions' = connexions
  BY DEF PageBien, Evenement, vars, memoire, reseau
<1>2. Head(recus) \in (SUBSET Repas) \cup {Rien} /\ recus' \in Seq((SUBSET Repas) \cup {Rien})
  <2>1. recus \in Seq((SUBSET Repas) \cup {Rien}) /\ recus # <<>> /\ recus' = Tail(recus)
    BY <1>1 DEF PageTypee, W!onmessage
  <2> QED BY <2>1
<1>3. UNCHANGED <<socket, id, emis, patient>> /\ socket = "open"
  BY <1>1 DEF W!onmessage, Prise
<1>4. CASE promesse = "attendue" /\ Head(recus) # Rien
  <2>1. promesse' = "tenue" /\ listRepas' = Head(recus)
    BY <1>1, <1>4 DEF W!onmessage
  <2>2. listRepas' \in SUBSET Repas /\ id' \in Gamelles
    <3>1. listRepas' \in SUBSET Repas
      BY <1>2, <1>4, <2>1
    <3>2. id' = id /\ promesse # "aucune"
      BY <1>3, <1>4
    <3> QED BY <1>1, <3>1, <3>2 DEF Choisie
  <2>3. PageTypee' /\ Choisie'
    BY <1>1, <1>2, <1>3, <2>1, <2>2 DEF PageTypee, Choisie
  <2>4. Prise'
    BY <1>1, <1>3 DEF Prise
  <2> QED BY <2>3, <2>4 DEF PageBien
<1>5. CASE ~(promesse = "attendue" /\ Head(recus) # Rien)
  <2>1. UNCHANGED <<promesse, listRepas, vues>>
    BY <1>1, <1>5 DEF W!onmessage
  <2> QED BY <1>1, <1>2, <1>3, <2>1 DEF PageBien, PageTypee, Choisie, Prise
<1> QED BY <1>4, <1>5

\* The socket of the page opens, or its close event comes.
LEMMA PrisePage ==
  ASSUME PageBien, Typage, Fermer \/ \E w \in Connexions : Ouvrir(w)
  PROVE  PageBien' /\ [Next]_vars
<1>1. PageTypee /\ Choisie /\ Prise
  BY DEF PageBien
<1>2. CASE Fermer
  <2>1. /\ socket' = "closed" /\ vues' = vues \ {"corps"} /\ emis' = <<>> /\ recus' = <<>>
        /\ UNCHANGED <<id, listRepas, promesse, patient>>
        /\ prise' = Rien /\ UNCHANGED vars
    BY <1>2 DEF Fermer, W!onclose
  <2>2. PageTypee' /\ Choisie'
    BY <1>1, <2>1 DEF PageTypee, Choisie
  <2>3. Prise'
    BY <1>1, <2>1 DEF Prise
  <2> QED BY <2>1, <2>2, <2>3 DEF PageBien
<1>3. ASSUME NEW w \in Connexions, Ouvrir(w) PROVE PageBien' /\ [Next]_vars
  <2>1. Connecter(w, Appli) /\ W!onopen /\ prise' = w
    BY <1>3 DEF Ouvrir
  <2>2. /\ socket = "connecting" /\ socket' = "open"
        /\ UNCHANGED <<id, listRepas, vues, recus, emis, promesse, patient>>
    BY <2>1 DEF W!onopen, W!ecran, W!echanges
  <2>3. connexions'[w].pair = Appli
    BY <2>1 DEF Connecter, Typage, TypeOK
  <2>4. PageTypee' /\ Choisie'
    BY <1>1, <2>2 DEF PageTypee, Choisie
  <2>5. w # Rien
    BY ConstantesAssumption
  <2>6. Prise'
    BY <1>1, <2>1, <2>2, <2>3, <2>5 DEF Prise
  <2>7. Next
    BY <2>1 DEF Next
  <2> QED BY <2>4, <2>6, <2>7 DEF PageBien
<1> QED BY <1>2, <1>3

\* The page keeps its socket while the server works.
LEMMA ServeurPage ==
  ASSUME PageBien, UNCHANGED <<socket, id, listRepas, vues, promesse, patient, prise>>,
         emis' \in Seq(Message), recus' \in Seq((SUBSET Repas) \cup {Rien}),
         socket # "open" => emis' = emis /\ recus' = recus,
         prise # Rien => connexions'[prise].pair = Appli
  PROVE  PageBien'
<1>1. PageTypee' /\ Choisie'
  BY DEF PageBien, PageTypee, Choisie
<1>2. Prise'
  BY DEF PageBien, Prise
<1> QED BY <1>1, <1>2 DEF PageBien

\* What the page sends is something a client may send.
LEMMA LivrerServeur ==
  ASSUME PageBien, Typage, NEW t \in Requetes, Livrer(t)
  PROVE  /\ \E d \in Demandes(Head(emis).g, prise) :
              /\ Recevoir(t, d)
              /\ d.op = Head(emis).op /\ d.g = Head(emis).g /\ d.ws = prise
         /\ prise \in Connexions /\ Head(emis) \in Message
         /\ connexions[prise].pair = Appli
         /\ Next
<1> DEFINE m == Head(emis)
           d == [op |-> m.op, g |-> m.g, ws |-> prise, repasId |-> m.repasId,
                 heure |-> m.heure, poids |-> m.poids]
<1>1. d \in Demandes(m.g, prise) /\ Recevoir(t, d) /\ prise # Rien /\ emis # <<>>
  BY DEF Livrer, PriseOuverte
<1>2. d.op = m.op /\ d.g = m.g /\ d.ws = prise
  OBVIOUS
<1>3. m \in Message
  BY <1>1 DEF PageBien, PageTypee
<1>4. prise \in Connexions /\ connexions[prise].pair = Appli
  BY <1>1 DEF PageBien, Prise
<1>5. m.g \in Gamelles
  BY <1>3 DEF Message
<1> HIDE DEF d, m
<1>6. Next
  BY <1>1, <1>4, <1>5 DEF Next
<1> QED BY <1>1, <1>2, <1>3, <1>4, <1>6 DEF m

LEMMA LivrerPage ==
  ASSUME PageBien, Typage, NEW t \in Requetes, Livrer(t)
  PROVE  PageBien'
<1>1. PICK d \in Demandes(Head(emis).g, prise) :
        Recevoir(t, d) /\ d.ws = prise /\ prise \in Connexions /\ connexions[prise].pair = Appli
  BY LivrerServeur
<1>2. /\ emis' = Tail(emis) /\ emis # <<>> /\ prise # Rien
      /\ UNCHANGED <<socket, id, listRepas, vues, promesse, recus, patient, prise>>
  BY DEF Livrer, PriseOuverte
<1>3. socket = "open" /\ emis' \in Seq(Message) /\ recus' \in Seq((SUBSET Repas) \cup {Rien})
  BY <1>2 DEF PageBien, PageTypee, Prise
<1>4. connexions'[prise].pair = Appli
  BY <1>1 DEF Recevoir, reseau, Typage, TypeOK
<1> QED BY <1>2, <1>3, <1>4, ServeurPage

\* A socket keeps its peer, or is forgotten, or is a new one.
LEMMA PairSuite ==
  ASSUME Typage, NEW t \in Lieux, Suite(t), NEW w \in Connexions,
         connexions[w].pair = Appli
  PROVE  connexions'[w].pair = Appli
<1>1. CASE Planter
  BY <1>1 DEF Planter, Arreter
<1>2. CASE ~Planter
  BY <1>2, TraitementReseau DEF reseau
<1> QED BY <1>1, <1>2

LEMMA SuivrePage ==
  ASSUME PageBien, Typage, NEW t \in Lieux, Suivre(t)
  PROVE  PageBien' /\ Next
<1>1. Suite(t) /\ Next
  BY DEF Suivre, Next
<1>2. UNCHANGED <<socket, id, listRepas, vues, promesse, emis, patient, prise>>
  BY DEF Suivre
<1>3. CASE recus' = recus
  <2>1. recus' \in Seq((SUBSET Repas) \cup {Rien}) /\ emis' \in Seq(Message)
    BY <1>2, <1>3 DEF PageBien, PageTypee
  <2>2. prise # Rien => connexions'[prise].pair = Appli
    BY <1>1, PairSuite DEF PageBien, Prise
  <2> QED BY <1>1, <1>2, <1>3, <2>1, <2>2, ServeurPage
<1>4. CASE recus' # recus
  <2>1. /\ recus' = Append(recus, IF taches[t].ok THEN taches[t].lu ELSE Rien)
        /\ taches[t] # Rien /\ prise # Rien
    BY <1>4 DEF Suivre, Pret, PriseOuverte
  <2>2. taches[t].lu \in SUBSET Repas
    BY <2>1 DEF Typage, TypeOK, Tache
  <2>3. recus' \in Seq((SUBSET Repas) \cup {Rien}) /\ emis' \in Seq(Message)
    <3> DEFINE S == (SUBSET Repas) \cup {Rien}
               x == IF taches[t].ok THEN taches[t].lu ELSE Rien
    <3>1. x \in S /\ recus \in Seq(S) /\ emis' \in Seq(Message)
      BY <1>2, <2>2 DEF PageBien, PageTypee
    <3> HIDE DEF S, x
    <3>2. Append(recus, x) \in Seq(S)
      BY <3>1
    <3> QED BY <2>1, <3>1, <3>2 DEF S, x
  <2>4. socket = "open" /\ connexions'[prise].pair = Appli
    BY <1>1, <2>1, PairSuite DEF PageBien, Prise
  <2> QED BY <1>1, <1>2, <2>3, <2>4, ServeurPage
<1> QED BY <1>3, <1>4

LEMMA SeulPage ==
  ASSUME PageBien, Typage, Seul, UNCHANGED <<laPage, prise>>
  PROVE  PageBien' /\ Next
<1>1. /\ UNCHANGED <<socket, id, listRepas, vues, promesse, emis, recus, patient, prise>>
      /\ emis' \in Seq(Message) /\ recus' \in Seq((SUBSET Repas) \cup {Rien})
  BY DEF laPage, PageBien, PageTypee
<1>2. prise # Rien => prise \in Connexions /\ connexions[prise].pair = Appli
  BY DEF PageBien, Prise
<1> SUFFICES Next /\ (prise # Rien => connexions'[prise].pair = Appli)
  BY <1>1, ServeurPage
<1>3. CASE Demarrer \/ LirePhoto \/ restartServer \/ \E t \in Lieux : Base(t)
  <2>1. connexions' = connexions
    BY <1>3, BaseExecute DEF Demarrer, LirePhoto, restartServer, memoire, reseau
  <2> QED BY <1>2, <1>3, <2>1 DEF Next
<1>4. ASSUME NEW w \in {prise} \ {Rien}, Deconnecter(w)
      PROVE  Next /\ (prise # Rien => connexions'[prise].pair = Appli)
  <2>1. w \in Connexions
    BY <1>2
  <2>2. connexions'[w].pair = Appli
    BY <1>2, <1>4 DEF Deconnecter, Typage, TypeOK
  <2> QED BY <1>4, <2>1, <2>2 DEF Next
<1>5. ASSUME NEW w \in Connexions \ {prise}, NEW g \in Allumees, Connecter(w, g)
      PROVE  Next /\ (prise # Rien => connexions'[prise].pair = Appli)
  BY <1>2, <1>5, AllumeesAssumption DEF Next, Connecter, Typage, TypeOK
<1>6. ASSUME NEW t \in Requetes, NEW w \in Connexions,
             NEW g \in {connexions[w].pair} \ {Appli}, NEW d \in Demandes(g, w),
             Recevoir(t, d)
      PROVE  Next /\ (prise # Rien => connexions'[prise].pair = Appli)
  <2>1. Next
    BY <1>6 DEF Next
  <2>2. prise # Rien => connexions'[prise].pair = Appli
    BY <1>2, <1>6 DEF Recevoir, reseau, Typage, TypeOK
  <2> QED BY <2>1, <2>2
<1> QED BY <1>3, <1>4, <1>5, <1>6 DEF Seul

\* Every step of the two is one of the server, or leaves the server as it is.
LEMMA SystemePas ==
  ASSUME PageBien, Typage, [SystemeNext]_toutes
  PROVE  PageBien' /\ [Next]_vars
<1>1. CASE Fermer \/ \E w \in Connexions : Ouvrir(w)
  BY <1>1, PrisePage
<1>2. CASE Clic \/ Evenement
  <2>1. UNCHANGED vars
    BY <1>2 DEF Clic, Evenement
  <2> QED BY <1>2, <2>1, ClicPage, EvenementPage
<1>3. CASE \E t \in Requetes : Livrer(t)
  BY <1>3, LivrerPage, LivrerServeur
<1>4. CASE \E t \in Lieux : Suivre(t)
  BY <1>4, SuivrePage
<1>5. CASE Seul /\ UNCHANGED <<laPage, prise>>
  BY <1>5, SeulPage
<1>6. CASE UNCHANGED toutes
  BY <1>6 DEF toutes, laPage, vars, memoire, reseau, PageBien, PageTypee, Choisie, Prise
<1> QED BY <1>1, <1>2, <1>3, <1>4, <1>5, <1>6 DEF SystemeNext

LEMMA SystemePageInit == SystemeInit => PageBien /\ Init
<1> SUFFICES ASSUME SystemeInit PROVE PageBien /\ Init
  OBVIOUS
<1>1. Init /\ W!Init /\ prise = Rien
  BY DEF SystemeInit
<1>2. PageTypee /\ Choisie
  BY <1>1 DEF W!Init, PageTypee, Choisie
<1>3. Prise
  BY <1>1 DEF W!Init, Prise
<1> QED BY <1>1, <1>2, <1>3 DEF PageBien

LEMMA SystemeTypage == SystemeSpec => [](PageBien /\ Typage)
<1>1. SystemeInit => PageBien /\ Typage
  BY SystemePageInit, InitType
<1>2. (PageBien /\ Typage) /\ [SystemeNext]_toutes => (PageBien /\ Typage)'
  BY SystemePas, TypageStable
<1> QED BY <1>1, <1>2, PTL DEF SystemeSpec

\* The page with the server behaves as the server alone may: whatever the page
\* and its user do, what is proved of Serveur holds of the two together.
THEOREM SystemeExecuteServeur == SystemeSpec => Spec
<1>1. SystemeInit => Init
  BY DEF SystemeInit
<1>2. (PageBien /\ Typage) /\ [SystemeNext]_toutes => [Next]_vars
  BY SystemePas
<1> QED BY <1>1, <1>2, SystemeTypage, PTL DEF Spec, SystemeSpec

------------------------------------------------------------------------------
(* What a step of a handler changes that the page may see. *)

\* The database answers requestData with its meals; only an order changes them.
LEMMA BasePourPage ==
  ASSUME Typage, NEW t \in Lieux, Base(t), Coherente(taches[t])
  PROVE  /\ taches[t] # Rien /\ UNCHANGED memoire
         /\ \E y \in Tache :
              /\ Devenir(t, y) /\ y.g = taches[t].g /\ y.ws = taches[t].ws
              /\ y.op = taches[t].op /\ y.etape = taches[t].etape
              /\ y.etape = "requestData" /\ y.ok => y.lu = bd[y.g].repas
         /\ taches[t].op \notin Modifs
              => \A g \in Gamelles : bd'[g].repas = bd[g].repas
<1> DEFINE x == taches[t]
<1>1. x # Rien /\ UNCHANGED memoire /\ x \in Tache
  BY BaseExecute DEF Typage, TypeOK
<1>2. bd \in [Gamelles -> Document] /\ x.g \in Gamelles /\ bd[x.g].repas \in SUBSET Repas
  BY <1>1 DEF Typage, TypeOK, Tache, Document
<1>3. CASE x.etape = "requestData"
  <2> DEFINE ok == bd[x.g].docs > 0
  <2>1. Executer(t, ok, bd[x.g].repas) /\ UNCHANGED bd
    BY <1>3 DEF Base, Trouver, TrouverRepas, Creer, Ajouter, Modifier, Retirer, Consigner,
       Attend
  <2>2. ok \in BOOLEAN
    OBVIOUS
  <2> HIDE DEF ok, x
  <2>3. \E y \in Tache : /\ Devenir(t, y) /\ y.g = x.g /\ y.ws = x.ws /\ y.op = x.op
                         /\ y.etape = x.etape /\ y.lu = bd[x.g].repas
    BY <1>1, <1>2, <2>1, <2>2, ExecuterAvance DEF x
  <2> QED BY <1>1, <2>1, <2>3 DEF x
<1>4. CASE x.etape # "requestData"
  <2>1. PICK ok \in BOOLEAN, lu \in SUBSET Repas : Executer(t, ok, lu)
    BY BaseExecute
  <2>2. \E y \in Tache : /\ Devenir(t, y) /\ y.g = x.g /\ y.ws = x.ws /\ y.op = x.op
                         /\ y.etape = x.etape
    BY <1>1, <2>1, ExecuterAvance
  <2>3. ASSUME x.op \notin Modifs PROVE \A g \in Gamelles : bd'[g].repas = bd[g].repas
    <3>1. x.etape \notin {"ajout", "maj", "retrait"}
      BY <2>3 DEF Coherente
    <3>2. \/ UNCHANGED bd
          \/ bd' = [bd EXCEPT ![x.g].docs = @ + 1]
          \/ bd' = [bd EXCEPT ![x.g].historique = @ + 1]
      BY <3>1 DEF Base, Trouver, TrouverRepas, Creer, Ajouter, Modifier, Retirer,
         Consigner, Attend
    <3> HIDE DEF x
    <3> QED BY <1>2, <3>2 DEF Document
  <2> QED BY <1>1, <1>4, <2>2, <2>3
<1> QED BY <1>3, <1>4

\* A question stays one, of the same socket, until it is answered.
LEMMA QuestionAvance ==
  ASSUME Typage, NEW t \in Lieux, Suite(t), ~Planter, taches[t].op = "requestData",
         Coherente(taches[t])
  PROVE  \/ Finir(t)
         \/ \E y \in Tache : /\ Devenir(t, y) /\ y.g = taches[t].g /\ y.ws = taches[t].ws
                             /\ y.op = "requestData" /\ y.attend /\ Coherente(y)
<1> DEFINE x == taches[t]
<1>1. x # Rien /\ x \in Tache
  BY TraitementReseau DEF Typage, TypeOK
<1>2. x.op = "requestData" /\ x.etape \in {"check", "creation", "requestData"}
  BY DEF Coherente
<1>3. \/ Finir(t)
      \/ \E e \in {"creation", "requestData"} : Devenir(t, Appel(x, e))
  <2>1. SuiteCheck(t) \/ SuiteCreation(t) \/ SuiteLecture(t)
    BY <1>2 DEF Suite, SuiteAvant, SuiteRelecture, SuiteAjout, SuiteMaj, SuiteRetrait,
       SuiteVerif, SuiteApres, SuiteNextMeal, SuiteEatNow, SuiteEatNowEnregistre,
       SuiteDistribution, SuiteEnregistrement, Pret
  <2>2. Aiguiller(t) => Devenir(t, Appel(x, "requestData"))
    BY <1>2 DEF Aiguiller
  <2> QED BY <2>1, <2>2 DEF SuiteCheck, SuiteCreation, SuiteLecture
<1>4. ASSUME NEW e \in {"creation", "requestData"}
      PROVE  /\ Appel(x, e) \in Tache /\ Appel(x, e).g = x.g /\ Appel(x, e).ws = x.ws
             /\ Appel(x, e).op = "requestData" /\ Appel(x, e).attend
             /\ Appel(x, e).etape = e
  <2>1. e \in Etapes
    BY DEF Etapes
  <2> HIDE DEF x
  <2> QED BY <1>1, <1>2, <2>1 DEF Appel, Tache
<1>5. ASSUME NEW e \in {"creation", "requestData"} PROVE Coherente(Appel(x, e))
  <2> DEFINE y == Appel(x, e)
  <2>1. y.op = "requestData" /\ y.etape = e
    BY <1>4
  <2>2. "requestData" \in Ops
    BY DEF Ops
  <2> HIDE DEF y
  <2> QED BY <2>1, <2>2 DEF Coherente, y
<1> HIDE DEF x
<1> QED BY <1>3, <1>4, <1>5 DEF x

LEMMA SuitePourPage ==
  ASSUME Typage, NEW t \in Lieux, Suite(t), ~Planter, Coherente(taches[t])
  PROVE  /\ taches[t] # Rien
         /\ \/ Finir(t)
            \/ \E y \in Tache :
                 /\ Devenir(t, y) /\ y.g = taches[t].g /\ y.op = taches[t].op
                 /\ y.attend /\ Coherente(y)
                 /\ y.op = "requestData" => y.ws = taches[t].ws
<1>1. taches[t] # Rien
  BY TraitementReseau
<1>2. CASE taches[t].op = "requestData"
  BY <1>1, <1>2, QuestionAvance
<1>3. CASE taches[t].op # "requestData"
  <2>1. CASE Finir(t)
    BY <1>1, <2>1
  <2>2. CASE ~Finir(t)
    <3>1. PICK y \in Tache : Devenir(t, y) /\ Relais(taches[t], y)
      BY <2>2, SuiteAvance DEF Avance
    <3>2. y.g = taches[t].g /\ y.op = taches[t].op /\ y.attend
      BY <3>1 DEF Relais, Vers
    <3>3. Coherente(y)
      BY <1>3, <3>1, <3>2 DEF Relais, Vers, Coherente, Modifs, Ops
    <3> QED BY <1>1, <1>3, <3>1, <3>2, <3>3
  <2> QED BY <2>1, <2>2
<1> QED BY <1>2, <1>3

\* No continuation writes to the database.
LEMMA SuiteBase ==
  ASSUME NEW t \in Lieux, Suite(t)
  PROVE  bd' = bd
<1>1. CASE Planter
  BY <1>1 DEF Planter
<1>2. CASE ~Planter
  BY <1>2 DEF Suite, SuiteCheck, SuiteCreation, SuiteLecture, SuiteAvant, SuiteRelecture,
     SuiteAjout, SuiteMaj, SuiteRetrait, SuiteVerif, SuiteApres, SuiteNextMeal,
     SuiteEatNow, SuiteEatNowEnregistre, SuiteDistribution, SuiteEnregistrement,
     sansTaches
<1> QED BY <1>1, <1>2

\* The message handler starts when nothing else runs.
LEMMA RecevoirPourPage ==
  ASSUME Typage, UnALaFois, NEW t \in Requetes, NEW g \in Gamelles,
         NEW w \in Connexions, NEW d \in Demandes(g, w), Recevoir(t, d)
  PROVE  /\ taches = ToutRien /\ bd' = bd
         /\ \E y \in Tache : /\ Devenir(t, y) /\ y.g = g /\ y.ws = w /\ y.op = d.op
                             /\ y.etape = "check" /\ y.attend /\ Coherente(y)
<1> DEFINE y == [op |-> d.op, etape |-> "check", attend |-> TRUE, ok |-> FALSE,
                 g |-> d.g, ws |-> d.ws, repasId |-> d.repasId,
                 heure |-> d.heure, poids |-> d.poids, avant |-> Rien,
                 lu |-> {}]
<1>1. taches = ToutRien /\ bd' = bd /\ Devenir(t, y)
  BY DEF Recevoir
<1>2. d.g = g /\ d.ws = w /\ d.op \in Ops
  BY DEF Demandes
<1>3. y \in Tache
  BY RequeteType
<1>4. y.g = g /\ y.ws = w /\ y.op = d.op /\ y.etape = "check" /\ y.attend
  BY <1>2
<1> HIDE DEF y
<1>5. Coherente(y)
  BY <1>2, <1>4 DEF Coherente
<1> QED BY <1>1, <1>3, <1>4, <1>5

------------------------------------------------------------------------------
(* The invariant of one who waits. *)

\* The page as it is, apart from what is on its way.
PageInchangee == UNCHANGED <<socket, id, listRepas, promesse, emis, recus, patient, prise>>

\* A handler goes on, begins or ends: no other runs.
LEMMA UnSeul ==
  ASSUME Typage, TraitementsBien, NEW t \in Lieux, taches[t] # Rien \/ taches = ToutRien,
         NEW y \in Tache \cup {Rien}, Devenir(t, y), y # Rien => Coherente(y)
  PROVE  /\ taches'[t] = y /\ \A u \in Lieux : u # t => taches'[u] = Rien
         /\ TraitementsBien'
<1>1. taches'[t] = y /\ \A u \in Lieux : u # t => taches'[u] = taches[u]
  BY DEF Devenir, Typage, TypeOK
<1>2. \A u \in Lieux : u # t => taches[u] = Rien
  BY DEF TraitementsBien, SeulTraitement, ToutRien
<1>3. \A u \in Lieux : u # t => taches'[u] = Rien
  BY <1>1, <1>2
<1>4. SeulTraitement'
  BY <1>3 DEF SeulTraitement
<1>5. \A u \in Lieux : taches'[u] # Rien => Coherente(taches'[u])
  BY <1>1, <1>3
<1>6. (\A u \in Lieux : taches[u] # Rien => Coherente(taches[u]))'
  BY <1>5 DEF Coherente
<1> QED BY <1>1, <1>3, <1>4, <1>6 DEF TraitementsBien

LEMMA AttentifGarde ==
  ASSUME Attentif, Choisie, PageInchangee,
         SansModification => SansModification' /\ \A g \in Gamelles : bd'[g].repas = bd[g].repas,
         SansReponse => SansReponse',
         SansModification /\ QuestionsBonnes => QuestionsBonnes'
  PROVE  Attentif'
<1> SUFFICES ASSUME patient', socket' = "open" PROVE Conduite'
  BY DEF Attentif
<1>1. Conduite /\ PageInchangee
  BY DEF Attentif, PageInchangee
<1>2. promesse' = "aucune" => emis' = <<>> /\ recus' = <<>> /\ SansReponse'
  BY <1>1 DEF Conduite, PageInchangee
<1>3. (promesse # "aucune" => id \in Gamelles) /\ id' = id /\ promesse' = promesse
  BY <1>1 DEF Choisie, PageInchangee
<1>4. promesse' = "tenue" => /\ emis' = <<>> /\ recus' = <<>>
                             /\ SansModification' /\ SansReponse' /\ Vue'
  BY <1>1, <1>3 DEF Conduite, PageInchangee, Vue
<1>5. ASSUME promesse' = "attendue"
      PROVE  (OrdreEnRoute \/ QuestionEnRoute \/ QuestionPosee \/ ReponseEnRoute)'
  <2>1. CASE OrdreEnRoute
    BY <1>1, <1>3, <1>5, <2>1 DEF PageInchangee, OrdreEnRoute, Ordre, Question, Vue
  <2>2. CASE QuestionEnRoute
    BY <1>1, <1>3, <1>5, <2>2 DEF PageInchangee, QuestionEnRoute, Question
  <2>3. CASE QuestionPosee
    BY <1>1, <1>3, <1>5, <2>3 DEF PageInchangee, QuestionPosee
  <2>4. CASE ReponseEnRoute
    BY <1>1, <1>3, <1>5, <2>4 DEF PageInchangee, ReponseEnRoute
  <2> QED BY <1>1, <1>3, <1>5, <2>1, <2>2, <2>3, <2>4 DEF Conduite
<1> QED BY <1>2, <1>4, <1>5 DEF Conduite

\* No handler is left: a kill, or the only one ends.
LEMMA AttentifVide ==
  ASSUME Attentif, Choisie, PageInchangee, \A u \in Lieux : taches'[u] = Rien, bd' = bd
  PROVE  Attentif'
<1>1. SansModification' /\ SansReponse' /\ QuestionsBonnes'
  BY DEF SansModification, SansReponse, QuestionsBonnes
<1> QED BY <1>1, AttentifGarde

\* A handler goes on.
LEMMA AttentifTraitement ==
  ASSUME Typage, TraitementsBien, Attentif, Choisie, PageInchangee,
         NEW t \in Lieux, taches[t] # Rien,
         NEW y \in Tache, Devenir(t, y), Coherente(y),
         y.op = taches[t].op, y.g = taches[t].g,
         y.op = "requestData" => y.ws = taches[t].ws,
         y.op \notin Modifs => \A g \in Gamelles : bd'[g].repas = bd[g].repas,
         y.etape = "requestData" /\ ~y.attend /\ y.ok => y.lu = bd[y.g].repas
  PROVE  Attentif'
<1> DEFINE x == taches[t]
<1>1. taches'[t] = y /\ \A u \in Lieux : u # t => taches'[u] = Rien
  BY UnSeul
<1>2. y # Rien /\ prise' = prise /\ id' = id
  BY RienTacheAssumption DEF PageInchangee
<1>3. ASSUME SansModification
      PROVE  SansModification' /\ \A g \in Gamelles : bd'[g].repas = bd[g].repas
  <2>1. y.op \notin Modifs
    BY <1>3 DEF SansModification
  <2> QED BY <1>1, <2>1 DEF SansModification
<1>4. Demandeur(y)' => Demandeur(x)
  BY <1>2 DEF Demandeur
<1>5. SansReponse => SansReponse'
  BY <1>1, <1>4 DEF SansReponse, Demandeur
<1>6. ASSUME SansModification, QuestionsBonnes PROVE QuestionsBonnes'
  <2>1. ASSUME Demandeur(y)' PROVE Examen(y)'
    <3>1. x.g = id
      BY <1>4, <1>6, <2>1 DEF QuestionsBonnes, Examen
    <3>2. y.g = id /\ y.g \in Gamelles
      BY <3>1 DEF Tache
    <3>3. bd'[y.g].repas = bd[y.g].repas
      BY <1>3, <1>6, <3>2
    <3> QED BY <1>2, <3>2, <3>3 DEF Examen
  <2>2. \A u \in Lieux : taches'[u] # Rien => u = t /\ taches'[u] = y
    BY <1>1
  <2> QED BY <2>1, <2>2 DEF QuestionsBonnes, Demandeur, Examen
<1> QED BY <1>3, <1>5, <1>6, AttentifGarde

\* A step of the server that starts, runs and ends no handler, and writes nothing.
LEMMA AttentifCalme ==
  ASSUME TraitementsBien, Attentif, Choisie, PageInchangee, taches' = taches, bd' = bd
  PROVE  TraitementsBien' /\ Attentif'
<1>1. TraitementsBien'
  BY DEF TraitementsBien, SeulTraitement, Coherente
<1>2. prise' = prise /\ id' = id
  BY DEF PageInchangee
<1>3. /\ SansModification => SansModification'
      /\ SansReponse => SansReponse'
      /\ QuestionsBonnes => QuestionsBonnes'
  BY <1>2 DEF SansModification, SansReponse, QuestionsBonnes, Demandeur, Examen
<1> QED BY <1>1, <1>3, AttentifGarde

\* The process stops, or the handler ends.
LEMMA FinPourPage ==
  ASSUME Typage, TraitementsBien, NEW t \in Lieux, taches[t] # Rien, Planter \/ Finir(t)
  PROVE  TraitementsBien' /\ \A u \in Lieux : taches'[u] = Rien
<1>1. CASE Planter
  BY <1>1 DEF Planter, Arreter, ToutRien, TraitementsBien, SeulTraitement
<1>2. CASE Finir(t)
  <2>1. Devenir(t, Rien)
    BY <1>2 DEF Finir
  <2> QED BY <2>1, UnSeul
<1> QED BY <1>1, <1>2

LEMMA AttentifBase ==
  ASSUME Typage, TraitementsBien, Attentif, Choisie, PageInchangee,
         NEW t \in Lieux, Base(t)
  PROVE  TraitementsBien' /\ Attentif'
<1> DEFINE x == taches[t]
<1>1. x # Rien
  BY BaseExecute
<1>2. Coherente(x)
  BY <1>1 DEF TraitementsBien
<1>3. PICK y \in Tache :
        /\ Devenir(t, y) /\ y.g = x.g /\ y.ws = x.ws /\ y.op = x.op /\ y.etape = x.etape
        /\ y.etape = "requestData" /\ y.ok => y.lu = bd[y.g].repas
  BY <1>2, BasePourPage
<1>4. Coherente(y)
  BY <1>2, <1>3 DEF Coherente
<1>5. y.op \notin Modifs => \A g \in Gamelles : bd'[g].repas = bd[g].repas
  BY <1>2, <1>3, BasePourPage
<1> HIDE DEF x
<1>6. TraitementsBien'
  BY <1>1, <1>3, <1>4, UnSeul DEF x
<1>7. Attentif'
  BY <1>1, <1>3, <1>4, <1>5, AttentifTraitement DEF x
<1> QED BY <1>6, <1>7

\* The reply to the page: the handler was the only one, the answer is what it read.
LEMMA AttentifReponse ==
  ASSUME Typage, TraitementsBien, Attentif, Choisie, PageTypee,
         NEW t \in Lieux, Suivre(t), recus' # recus
  PROVE  TraitementsBien' /\ Attentif'
<1> DEFINE x == taches[t]
<1>1. /\ Suite(t) /\ x # Rien /\ x.etape = "requestData" /\ ~x.attend /\ x.ws = prise
      /\ recus' = Append(recus, IF x.ok THEN x.lu ELSE Rien)
  BY DEF Suivre, Pret, RepondA
<1>2. UNCHANGED <<socket, id, listRepas, emis, promesse, patient, prise>> /\ bd' = bd
  BY <1>1, SuiteBase DEF Suivre
<1>3. Demandeur(x)
  BY <1>1 DEF TraitementsBien, Coherente, Demandeur
<1>4. Finir(t)
  <2>1. SuiteLecture(t)
    BY <1>1 DEF Suite, SuiteCheck, SuiteCreation, SuiteAvant, SuiteRelecture, SuiteAjout,
       SuiteMaj, SuiteRetrait, SuiteVerif, SuiteApres, SuiteNextMeal, SuiteEatNow,
       SuiteEatNowEnregistre, SuiteDistribution, SuiteEnregistrement, Pret
  <2> QED BY <1>1, <2>1 DEF SuiteLecture, Pret
<1>5. TraitementsBien' /\ \A u \in Lieux : taches'[u] = Rien
  BY <1>1, <1>4, FinPourPage
<1>6. SansModification' /\ SansReponse'
  BY <1>5 DEF SansModification, SansReponse
<1>7. SUFFICES ASSUME patient, socket = "open" PROVE Conduite'
  BY <1>2, <1>5 DEF Attentif
<1>8. ~SansReponse
  BY <1>1, <1>3 DEF SansReponse
<1>9. promesse = "attendue" /\ QuestionPosee
  <2>1. promesse \in {"aucune", "tenue"} => FALSE
    BY <1>7, <1>8 DEF Attentif, Conduite
  <2>2. promesse = "attendue"
    BY <2>1 DEF PageTypee
  <2> QED BY <1>7, <1>8, <2>2 DEF Attentif, Conduite, OrdreEnRoute, QuestionEnRoute,
       ReponseEnRoute
<1>10. x.ok => x.lu = bd[id].repas
  BY <1>1, <1>3, <1>9 DEF QuestionPosee, QuestionsBonnes, Examen
<1>11. recus' = <<Rien>> \/ recus' = <<bd[id].repas>>
  <2>1. recus = <<>>
    BY <1>9 DEF QuestionPosee
  <2> QED BY <1>1, <1>10, <2>1
<1>12. ReponseEnRoute'
  BY <1>2, <1>6, <1>9, <1>11 DEF ReponseEnRoute, QuestionPosee
<1> QED BY <1>2, <1>9, <1>12 DEF Conduite

LEMMA AttentifSuite ==
  ASSUME Typage, TraitementsBien, Attentif, Choisie, PageTypee,
         NEW t \in Lieux, Suivre(t)
  PROVE  TraitementsBien' /\ Attentif'
<1> DEFINE x == taches[t]
<1>1. Suite(t) /\ bd' = bd
  BY SuiteBase DEF Suivre
<1>2. CASE recus' # recus
  BY <1>2, AttentifReponse
<1>3. CASE recus' = recus
  <2>1. PageInchangee
    BY <1>3 DEF Suivre, PageInchangee
  <2>2. x # Rien
    BY <1>1 DEF Suite, SuiteCheck, SuiteCreation, SuiteLecture, SuiteAvant,
       SuiteRelecture, SuiteAjout, SuiteMaj, SuiteRetrait, SuiteVerif, SuiteApres,
       SuiteNextMeal, SuiteEatNow, SuiteEatNowEnregistre, SuiteDistribution,
       SuiteEnregistrement, Pret
  <2>3. CASE Planter \/ Finir(t)
    <3>1. TraitementsBien' /\ \A u \in Lieux : taches'[u] = Rien
      BY <2>2, <2>3, FinPourPage
    <3> QED BY <1>1, <2>1, <3>1, AttentifVide
  <2>4. CASE ~(Planter \/ Finir(t))
    <3>1. Coherente(x)
      BY <2>2 DEF TraitementsBien
    <3>2. PICK y \in Tache :
            /\ Devenir(t, y) /\ y.g = x.g /\ y.op = x.op /\ y.attend /\ Coherente(y)
            /\ y.op = "requestData" => y.ws = x.ws
      BY <1>1, <2>4, <3>1, SuitePourPage
    <3> HIDE DEF x
    <3>3. TraitementsBien'
      BY <2>2, <3>2, UnSeul DEF x
    <3>4. Attentif'
      BY <1>1, <2>1, <2>2, <3>2, AttentifTraitement DEF x
    <3> QED BY <3>3, <3>4
  <2> QED BY <2>3, <2>4
<1> QED BY <1>2, <1>3

\* The server takes the order, then the question.
LEMMA AttentifLivrer ==
  ASSUME Typage, UnALaFois, PageBien, TraitementsBien, Attentif,
         NEW t \in Requetes, Livrer(t)
  PROVE  TraitementsBien' /\ Attentif'
<1> DEFINE m == Head(emis)
<1>1. PICK d \in Demandes(m.g, prise) :
        /\ Recevoir(t, d) /\ d.op = m.op /\ d.g = m.g /\ d.ws = prise
  BY LivrerServeur
<1>2. prise \in Connexions /\ m \in Message /\ t \in Lieux /\ m.g \in Gamelles
  BY LivrerServeur DEF Lieux, Message
<1> HIDE DEF m
<1>3. /\ taches = ToutRien /\ bd' = bd
      /\ \E y \in Tache : /\ Devenir(t, y) /\ y.g = m.g /\ y.ws = prise /\ y.op = m.op
                          /\ y.etape = "check" /\ y.attend /\ Coherente(y)
  BY <1>1, <1>2, RecevoirPourPage
<1>4. PICK y \in Tache : /\ Devenir(t, y) /\ y.g = m.g /\ y.ws = prise /\ y.op = m.op
                         /\ y.etape = "check" /\ y.attend /\ Coherente(y)
  BY <1>3
<1>5. /\ taches'[t] = y /\ \A u \in Lieux : u # t => taches'[u] = Rien
      /\ TraitementsBien'
  BY <1>2, <1>3, <1>4, UnSeul
<1>6. /\ emis # <<>> /\ emis' = Tail(emis)
      /\ UNCHANGED <<socket, id, listRepas, promesse, recus, patient, prise>>
  BY DEF Livrer
<1>7. SUFFICES ASSUME patient, socket = "open" PROVE Conduite'
  BY <1>5, <1>6 DEF Attentif
<1>8. promesse = "attendue" /\ (OrdreEnRoute \/ QuestionEnRoute)
  <2>1. promesse \in {"aucune", "attendue", "tenue"}
    BY DEF PageBien, PageTypee
  <2> QED BY <1>6, <1>7, <2>1 DEF Attentif, Conduite, QuestionPosee, ReponseEnRoute
<1>9. CASE OrdreEnRoute
  <2>1. PICK o \in Message, q \in Message : emis = <<o, q>> /\ Ordre(o) /\ Question(q)
    BY <1>9 DEF OrdreEnRoute
  <2>2. m = o /\ emis' = <<q>>
    BY <1>6, <2>1 DEF m
  <2>3. y.op # "requestData"
    BY <1>4, <2>1, <2>2 DEF Ordre
  <2>4. SansReponse'
    BY <1>5, <2>3 DEF SansReponse, Demandeur
  <2>5. QuestionEnRoute'
    BY <1>6, <1>9, <2>1, <2>2, <2>4 DEF OrdreEnRoute, QuestionEnRoute, Question
  <2> QED BY <1>6, <1>8, <2>5 DEF Conduite
<1>10. CASE QuestionEnRoute
  <2>1. PICK q \in Message : emis = <<q>> /\ Question(q)
    BY <1>10 DEF QuestionEnRoute
  <2>2. m = q /\ emis' = <<>>
    BY <1>6, <2>1 DEF m
  <2>3. y.op = "requestData" /\ y.g = id
    BY <1>4, <2>1, <2>2 DEF Question
  <2>4. SansModification' /\ QuestionsBonnes'
    BY <1>4, <1>5, <1>6, <2>3 DEF SansModification, Modifs, QuestionsBonnes, Examen
  <2>5. QuestionPosee'
    BY <1>6, <1>10, <2>2, <2>4 DEF QuestionEnRoute, QuestionPosee
  <2> QED BY <1>6, <1>8, <2>5 DEF Conduite
<1> QED BY <1>8, <1>9, <1>10

\* The first message of a device, which changes no meal and is none of the page.
LEMMA AttentifAppareil ==
  ASSUME Typage, UnALaFois, OpsGamelle \cap Modifs = {}, PageBien, TraitementsBien,
         Attentif, PageInchangee,
         NEW t \in Requetes, NEW w \in Connexions,
         NEW g \in {connexions[w].pair} \ {Appli}, NEW d \in Demandes(g, w), Recevoir(t, d)
  PROVE  TraitementsBien' /\ Attentif'
<1>1. g \in Gamelles /\ t \in Lieux
  BY DEF Typage, TypeOK, Lieux
<1>2. PICK y \in Tache : /\ Devenir(t, y) /\ y.g = g /\ y.ws = w /\ y.op = d.op
                         /\ y.etape = "check" /\ y.attend /\ Coherente(y)
  BY <1>1, RecevoirPourPage
<1>3. taches = ToutRien /\ bd' = bd
  BY <1>1, RecevoirPourPage
<1>4. /\ taches'[t] = y /\ \A u \in Lieux : u # t => taches'[u] = Rien
      /\ TraitementsBien'
  BY <1>1, <1>2, <1>3, UnSeul
<1>5. d.ws = w /\ connexions[w].pair # Appli
  BY DEF Demandes
<1>6. y.op \notin Modifs
  BY <1>2, <1>5 DEF Recevoir, BienFormee
<1>7. prise' = prise /\ y.ws # prise
  BY <1>2, <1>5, ConstantesAssumption DEF PageInchangee, PageBien, Prise
<1>8. SansModification' /\ SansReponse' /\ QuestionsBonnes'
  BY <1>4, <1>6, <1>7 DEF SansModification, SansReponse, QuestionsBonnes, Demandeur
<1>9. Attentif'
  BY <1>3, <1>8, AttentifGarde DEF PageBien
<1> QED BY <1>4, <1>9

LEMMA AttentifSeul ==
  ASSUME Typage, UnALaFois, OpsGamelle \cap Modifs = {}, PageBien, TraitementsBien,
         Attentif, Seul, UNCHANGED <<laPage, prise>>
  PROVE  TraitementsBien' /\ Attentif'
<1>1. PageInchangee /\ Choisie
  BY DEF PageInchangee, laPage, PageBien
<1>2. CASE Demarrer \/ LirePhoto \/ restartServer
  BY <1>1, <1>2, AttentifCalme DEF Demarrer, LirePhoto, restartServer
<1>3. CASE \E t \in Lieux : Base(t)
  BY <1>1, <1>3, AttentifBase
<1>4. CASE \/ \E w \in {prise} \ {Rien} : Deconnecter(w)
           \/ \E w \in Connexions \ {prise}, g \in Allumees : Connecter(w, g)
  BY <1>1, <1>4, AttentifCalme DEF Deconnecter, Connecter
<1>5. CASE \E t \in Requetes, w \in Connexions : \E g \in {connexions[w].pair} \ {Appli} :
             \E d \in Demandes(g, w) : connexions[w].premier /\ Recevoir(t, d)
  BY <1>1, <1>5, AttentifAppareil
<1> QED BY <1>2, <1>3, <1>4, <1>5 DEF Seul

\* Two messages, one after the other.
LEMMA Paire ==
  ASSUME NEW S, NEW m \in S, NEW q \in S
  PROVE  Append(<<m>>, q) = <<m, q>>
<1> DEFINE a == <<m>>
           s == Append(a, q)
           p == <<m, q>>
<1>1. a \in Seq(S) /\ Len(a) = 1 /\ a[1] = m
  OBVIOUS
<1>2. p \in Seq(S) /\ Len(p) = 2 /\ p[1] = m /\ p[2] = q
  OBVIOUS
<1> HIDE DEF a, p
<1>3. s \in Seq(S)
  BY <1>1, AppendProperties
<1>4. Len(s) = 2
  <2>1. Len(s) = Len(a) + 1
    BY <1>1, AppendProperties, Zenon
  <2> HIDE DEF s
  <2> QED BY <1>1, <2>1
<1>5. s[1] = m
  BY <1>1, AppendProperties
<1>6. s[2] = q
  BY <1>1, AppendProperties
<1> HIDE DEF s
<1>7. \A i \in 1..2 : s[i] = p[i]
  BY <1>2, <1>5, <1>6
<1>8. s = p
  BY <1>2, <1>3, <1>4, <1>7, SeqEqual
<1> QED BY <1>8 DEF s, a, p

\* A click: who waits has nothing under way when he sends.
LEMMA AttentifClic ==
  ASSUME PageBien, TraitementsBien, Attentif, Clic
  PROVE  TraitementsBien' /\ Attentif'
<1>1. PageTypee /\ Choisie /\ Prise /\ W!Clic
  BY DEF PageBien, Clic
<1>2. taches' = taches /\ bd' = bd /\ prise' = prise
  BY DEF Clic, vars
<1>3. TraitementsBien'
  BY <1>2 DEF TraitementsBien, SeulTraitement, Coherente
<1>4. /\ SansModification => SansModification' /\ (SansReponse => SansReponse')
  BY <1>2 DEF SansModification, SansReponse, Demandeur
<1>5. SansReponse => SansReponse'
  BY <1>2 DEF SansReponse, Demandeur
<1>6. SUFFICES ASSUME patient', socket' = "open" PROVE Conduite'
  BY <1>3 DEF Attentif
<1>7. ASSUME NEW g \in Gamelles, Ouvre(g) PROVE Conduite'
  <2> DEFINE q == W!Requete("requestData", g, 0, -1, 0)
  <2>1. W!Demander(g, <<>>) /\ socket = "open" /\ <<>> \in Seq(Message)
    <3>1. socket = "open"
      BY <1>6, <1>7 DEF Ouvre
    <3>2. W!Demander(g, <<>>)
      BY <1>7, <3>1 DEF Ouvre
    <3> QED BY <3>1, <3>2
  <2>2. /\ patient /\ promesse # "attendue" /\ promesse' = "attendue"
        /\ emis' = Append(emis \o <<>>, q)
    BY <1>1, <1>6, <2>1, DemanderPage
  <2>3. q \in Message /\ q.op = "requestData" /\ q.g = g
    BY QuestionType
  <2>4. emis = <<>> /\ recus = <<>> /\ SansReponse
    BY <1>1, <2>1, <2>2 DEF Attentif, Conduite, PageTypee
  <2> HIDE DEF q
  <2>5. emis' = <<q>> /\ id' = g /\ recus' = <<>>
    BY <1>7, <2>2, <2>4 DEF Ouvre
  <2>6. QuestionEnRoute'
    BY <1>5, <2>3, <2>4, <2>5 DEF QuestionEnRoute, Question
  <2> QED BY <2>2, <2>6 DEF Conduite
<1>8. CASE Ordonne
  <2>1. id \in Gamelles /\ "corps" \in vues /\ promesse # "aucune"
    BY <1>1, <1>8 DEF Ordonne, Choisie
  <2>2. PICK op \in {"deleteMeal", "addMeal", "update", "eatNow"}, k \in W!Choix \cup {0},
             h \in HeuresSaisies \cup {-1}, p \in Poids \cup {0} :
               W!Demander(id, <<W!Requete(op, id, k, h, p)>>)
    BY <1>8 DEF Ordonne
  <2>3. UNCHANGED <<socket, id, listRepas, recus>> /\ socket = "open"
    BY <1>6, <1>8 DEF Ordonne
  <2>4. PICK m \in Message, q \in Message :
          /\ Ordre(m) /\ Question(q)
          /\ patient /\ promesse # "attendue" /\ promesse' = "attendue"
          /\ emis' = Append(emis \o <<m>>, q)
    <3> DEFINE n == W!Requete(op, id, k, h, p)
               r == W!Requete("requestData", id, 0, -1, 0)
    <3>1. n \in Message /\ n.op = op /\ n.g = id /\ <<n>> \in Seq(Message)
      BY <1>1, <2>1, OrdreType
    <3>2. r \in Message /\ r.op = "requestData" /\ r.g = id
      BY <2>1, QuestionType
    <3>3. /\ patient /\ promesse # "attendue" /\ promesse' = "attendue"
          /\ emis' = Append(emis \o <<n>>, r)
      BY <1>1, <1>6, <2>1, <2>2, <2>3, <3>1, DemanderPage
    <3> HIDE DEF n, r
    <3>4. Ordre(n) /\ Question(r)
      BY <3>1, <3>2 DEF Ordre, Question
    <3> QED BY <3>1, <3>2, <3>3, <3>4
  <2>5. promesse = "tenue"
    BY <1>1, <2>1, <2>4 DEF PageTypee
  <2>6. emis = <<>> /\ recus = <<>> /\ SansModification /\ SansReponse /\ Vue
    BY <1>6, <2>3, <2>4, <2>5 DEF Attentif, Conduite
  <2>7. emis' = <<m, q>>
    <3>1. <<>> \o <<m>> = <<m>>
      BY <<m>> \in Seq(Message)
    <3>2. Append(<<m>>, q) = <<m, q>>
      BY Paire
    <3>3. emis \o <<m>> = <<m>>
      BY <2>6, <3>1
    <3>4. emis' = Append(<<m>>, q)
      BY <2>4, <3>3
    <3> QED BY <3>2, <3>4
  <2>8. Ordre(m)' /\ Question(q)'
    BY <2>3, <2>4 DEF Ordre, Question
  <2>9. SansModification' /\ SansReponse' /\ Vue' /\ recus' = <<>>
    BY <1>2, <1>4, <1>5, <2>3, <2>6 DEF Vue
  <2>10. OrdreEnRoute'
    BY <2>7, <2>8, <2>9 DEF OrdreEnRoute
  <2> QED BY <2>4, <2>10 DEF Conduite
<1>9. CASE Montre
  <2>1. PageInchangee
    BY <1>2, <1>9 DEF Montre, PageInchangee
  <2> QED BY <1>1, <1>2, <1>6, <2>1, AttentifCalme DEF Attentif
<1>10. CASE W!recharger
  BY <1>6, <1>10 DEF W!recharger
<1> QED BY <1>1, <1>7, <1>8, <1>9, <1>10, Clics

\* The answer comes: the promise is kept with the meals of the database, or, with
\* the document null, never will be.
LEMMA AttentifEvenement ==
  ASSUME PageBien, TraitementsBien, Attentif, Evenement
  PROVE  TraitementsBien' /\ Attentif'
<1>1. PageTypee /\ W!onmessage
  BY DEF PageBien, Evenement
<1>2. taches' = taches /\ bd' = bd /\ prise' = prise
  BY DEF Evenement, vars
<1>3. TraitementsBien'
  BY <1>2 DEF TraitementsBien, SeulTraitement, Coherente
<1>4. /\ recus # <<>> /\ recus' = Tail(recus)
      /\ UNCHANGED <<socket, id, emis, patient>>
  BY <1>1 DEF W!onmessage
<1>5. SUFFICES ASSUME patient, socket = "open" PROVE Conduite'
  BY <1>3, <1>4 DEF Attentif
<1>6. promesse = "attendue" /\ ReponseEnRoute
  BY <1>1, <1>4, <1>5 DEF PageTypee, Attentif, Conduite, OrdreEnRoute, QuestionEnRoute,
     QuestionPosee
<1>7. /\ recus' = <<>> /\ emis' = <<>>
      /\ Head(recus) = Rien \/ Head(recus) = bd[id].repas
  <2>1. PICK x : recus = <<x>> /\ (x = Rien \/ x = bd[id].repas)
    BY <1>6 DEF ReponseEnRoute
  <2>2. Head(recus) = x /\ recus' = <<>>
    BY <1>4, <2>1
  <2> QED BY <1>4, <1>6, <2>1, <2>2 DEF ReponseEnRoute
<1>8. SansModification' /\ SansReponse'
  BY <1>2, <1>6 DEF ReponseEnRoute, SansModification, SansReponse, Demandeur
<1>9. CASE Head(recus) # Rien
  <2>1. promesse' = "tenue" /\ listRepas' = Head(recus)
    BY <1>1, <1>6, <1>9 DEF W!onmessage
  <2>2. Vue'
    BY <1>2, <1>4, <1>7, <1>9, <2>1 DEF Vue
  <2> QED BY <1>7, <1>8, <2>1, <2>2 DEF Conduite
<1>10. CASE Head(recus) = Rien
  <2>1. promesse' = promesse
    BY <1>1, <1>10 DEF W!onmessage
  <2>2. QuestionPosee'
    BY <1>7, <1>8 DEF QuestionPosee, QuestionsBonnes, SansReponse
  <2> QED BY <1>6, <2>1, <2>2 DEF Conduite
<1> QED BY <1>9, <1>10

\* A new socket has no handler to answer it; without one there is nothing to show.
LEMMA AttentifPrise ==
  ASSUME PageBien, TraitementsBien, Attentif, Fermer \/ \E w \in Connexions : Ouvrir(w)
  PROVE  TraitementsBien' /\ Attentif'
<1>1. CASE Fermer
  BY <1>1 DEF Fermer, W!onclose, vars, TraitementsBien, SeulTraitement, Coherente, Attentif
<1>2. ASSUME NEW w \in Connexions, Ouvrir(w) PROVE TraitementsBien' /\ Attentif'
  <2>1. Connecter(w, Appli) /\ W!onopen /\ prise' = w
    BY <1>2 DEF Ouvrir
  <2>2. /\ socket = "connecting" /\ UNCHANGED <<id, recus, emis, promesse, patient>>
    BY <2>1 DEF W!onopen, W!ecran, W!echanges
  <2>3. promesse = "aucune" /\ emis = <<>> /\ recus = <<>>
    BY <2>2 DEF PageBien, Prise
  <2>4. taches' = taches /\ \A t \in Lieux : taches[t] # Rien => taches[t].ws # w
    BY <2>1 DEF Connecter, Reference
  <2>5. TraitementsBien'
    BY <2>4 DEF TraitementsBien, SeulTraitement, Coherente
  <2>6. SansReponse'
    BY <2>1, <2>4 DEF SansReponse, Demandeur
  <2>7. Conduite'
    BY <2>2, <2>3, <2>6 DEF Conduite
  <2> QED BY <2>5, <2>7 DEF Attentif
<1> QED BY <1>1, <1>2

LEMMA AttentifStable ==
  ASSUME UnALaFois, OpsGamelle \cap Modifs = {}, Typage, PageBien, TraitementsBien,
         Attentif, [SystemeNext]_toutes
  PROVE  TraitementsBien' /\ Attentif'
<1>1. PageTypee /\ Choisie
  BY DEF PageBien
<1>2. CASE Fermer \/ \E w \in Connexions : Ouvrir(w)
  BY <1>2, AttentifPrise
<1>3. CASE Clic \/ Evenement
  BY <1>3, AttentifClic, AttentifEvenement
<1>4. CASE \E t \in Requetes : Livrer(t)
  BY <1>4, AttentifLivrer
<1>5. CASE \E t \in Lieux : Suivre(t)
  BY <1>1, <1>5, AttentifSuite
<1>6. CASE Seul /\ UNCHANGED <<laPage, prise>>
  BY <1>6, AttentifSeul
<1>7. CASE UNCHANGED toutes
  BY <1>1, <1>7, AttentifCalme DEF toutes, laPage, vars, PageInchangee
<1> QED BY <1>2, <1>3, <1>4, <1>5, <1>6, <1>7 DEF SystemeNext

LEMMA AttentifInit == SystemeInit => TraitementsBien /\ Attentif
<1> SUFFICES ASSUME SystemeInit PROVE TraitementsBien /\ Attentif
  OBVIOUS
<1>1. taches = ToutRien /\ socket = "connecting"
  BY DEF SystemeInit, Init, W!Init
<1> QED BY <1>1 DEF ToutRien, TraitementsBien, SeulTraitement, Attentif

LEMMA AttentifSuffit == Attentif /\ PageBien => ListeAJour /\ VuEtVise
<1> SUFFICES ASSUME Attentif, PageBien PROVE ListeAJour /\ VuEtVise
  OBVIOUS
<1>1. ListeAJour
  <2> SUFFICES ASSUME patient, PriseOuverte, promesse = "tenue" PROVE listRepas = bd[id].repas
    BY DEF ListeAJour
  <2>1. socket = "open"
    BY DEF PriseOuverte, PageBien, Prise
  <2> QED BY <2>1 DEF Attentif, Conduite, Vue
<1>2. VuEtVise
  <2> SUFFICES ASSUME patient, NEW i \in 1..Len(emis),
                      emis[i].op \in {"update", "deleteMeal"}
               PROVE  {r \in listRepas : r.id = emis[i].repasId} \subseteq bd[emis[i].g].repas
    BY DEF VuEtVise
  <2>1. emis # <<>> /\ socket = "open" /\ promesse \in {"aucune", "attendue", "tenue"}
    <3>1. emis # <<>>
      OBVIOUS
    <3> QED BY <3>1 DEF PageBien, PageTypee, Prise
  <2>2. OrdreEnRoute \/ QuestionEnRoute
    BY <2>1 DEF Attentif, Conduite, QuestionPosee, ReponseEnRoute
  <2>3. CASE OrdreEnRoute
    <3>1. PICK m \in Message, q \in Message : emis = <<m, q>> /\ Ordre(m) /\ Question(q)
      BY <2>3 DEF OrdreEnRoute
    <3>2. emis[i] = m
      BY <3>1 DEF Question
    <3> QED BY <2>3, <3>1, <3>2 DEF OrdreEnRoute, Ordre, Vue
  <2>4. CASE QuestionEnRoute
    <3>1. PICK q \in Message : emis = <<q>> /\ Question(q)
      BY <2>4 DEF QuestionEnRoute
    <3> QED BY <3>1 DEF Question
  <2> QED BY <2>2, <2>3, <2>4
<1> QED BY <1>1, <1>2

\* The invariant with all it needs.
LEMMA AttentifToujours ==
  ASSUME UnALaFois, OpsGamelle \cap Modifs = {}
  PROVE  SystemeSpec => [](Attentif /\ PageBien)
<1>1. SystemeInit => TraitementsBien /\ Attentif
  BY AttentifInit
<1>2. (Typage /\ PageBien) /\ (TraitementsBien /\ Attentif) /\ [SystemeNext]_toutes
        => (TraitementsBien /\ Attentif)'
  BY AttentifStable
<1> QED BY <1>1, <1>2, SystemeTypage, PTL DEF SystemeSpec

\* A user who waits for each list sees the meals of the bowl whose number he typed
\* (getAllMeal, showMenuSelect), however many bowls, sockets and meals there are and
\* however often he changes bowl, loses the link and loads the page again.
THEOREM ListeToujoursAJour ==
  ASSUME UnALaFois, OpsGamelle \cap Modifs = {}
  PROVE  SystemeSpec => []ListeAJour
BY AttentifToujours, AttentifSuffit, PTL

\* What he removes or changes is the meal he has seen (script.js, supprimer and
\* creationRepas).
THEOREM ToujoursVuEtVise ==
  ASSUME UnALaFois, OpsGamelle \cap Modifs = {}
  PROVE  SystemeSpec => []VuEtVise
BY AttentifToujours, AttentifSuffit, PTL

=============================================================================
