------------------------------ MODULE Serveur ------------------------------
(***************************************************************************)
(* The Node.js server of the connected bowls: src/serveur/server.js,       *)
(* traitement.js and cron.js.                                              *)
(*                                                                         *)
(* A bowl ("gamelle") has one document in MongoDB; for each of its meals   *)
(* the server keeps a crontab in memory, bound by a closure to the web     *)
(* socket of the device that will be told to serve.  A request is handled  *)
(* by an asynchronous function: every await (or .then) on the database is  *)
(* a point where handlers interleave.  A handler is a record of taches; its*)
(* field etape names the database call it is suspended on.  A call is three*)
(* steps: the handler issues it (attend = TRUE), the database executes it  *)
(* (attend = FALSE, ok and lu hold the reply), and the continuation runs,  *)
(* atomically, up to the next call.                                        *)
(*                                                                         *)
(* A definition marked "Variant" is a plausible mistake in the one below   *)
(* it, and no action uses it: put in its place, it makes a property fail.  *)
(***************************************************************************)
EXTENDS Planning, FiniteSets

CONSTANTS
  Gamelles,          \* the bowls, one per id
  Connexions,        \* web socket objects of the server
  Requetes,          \* places for the handlers of client messages (bound)
  Minuteries,        \* places for the distributions node-cron starts (bound)
  Appli,             \* the peer of a socket opened by the web application
  Rien,              \* undefined: no socket, no meal, no handler
  Poids,             \* portions a client may ask for
  Jour,              \* number of minutes in a day: minutes are 0..Jour-1
  HeuresSaisies,     \* hours clients send; -1: the empty one, which cron.js rejects
  MaxRepas,          \* the 6 of addMeal (traitement.js:130)
  MaxId,             \* bound on the meal identifiers handed out
  MaxHistorique,     \* bound on the entries of a bowl's history
  MaxPannes,         \* bound on the kills of the server process
  BasesInitiales,    \* what the database may hold when the server first starts
  OpsGamelle,        \* actions the devices send
  OpsAppli,          \* actions the web application sends
  ConnexionPrecoce,  \* may clients be served before restartServer is done?
  BdFiable,          \* FALSE: calls to the database may fail
  UnALaFois          \* TRUE: a message or a minute waits for the handler before it

Ops == {"requestData", "update", "deleteMeal", "addMeal",
        "nextMeal", "eatNow", "history"}

Etapes == {"check", "creation", "requestData", "history", "avant", "relecture",
           "ajout", "maj", "retrait", "verif", "apres", "nextMeal", "eatNow",
           "eatNowEnregistre", "distribution", "enregistrement"}

Heures == -1..(Jour - 1)
Repas == [id : Nat, rang : Nat, heure : Heures, poids : Nat]
Document == [docs : Nat, repas : SUBSET Repas, historique : Nat]
Affichage == [heure : Heures, poids : Nat]
AucunRepas == [heure |-> -1, poids |-> -1]
Lieux == Requetes \cup Minuteries

ASSUME ConstantesAssumption ==
  /\ Appli \notin Gamelles
  /\ Rien \notin Connexions
  /\ Requetes \cap Minuteries = {}
  /\ IsFiniteSet(Lieux) /\ Requetes # {}
  /\ Jour \in Nat \ {0}
  /\ MaxRepas \in Nat \ {0}
  /\ MaxId \in Nat /\ MaxHistorique \in Nat /\ MaxPannes \in Nat
  /\ Poids \subseteq Nat
  /\ HeuresSaisies \subseteq Heures
  /\ OpsGamelle \subseteq Ops /\ OpsAppli \subseteq Ops
  /\ {ConnexionPrecoce, BdFiable, UnALaFois} \subseteq BOOLEAN

\* A database some earlier execution of the server may have left, with as many
\* meals and documents of a bowl as concurrent requests can make.
ASSUME BasesAssumption ==
  \A base \in BasesInitiales :
    /\ base \in [Gamelles -> Document]
    /\ \A g \in Gamelles :
         /\ IsFiniteSet(base[g].repas)
         /\ Cardinality(base[g].repas) <= MaxRepas - 1 + Cardinality(Requetes)
         /\ base[g].docs <= Cardinality(Requetes)

ASSUME RienAssumption == Rien \notin Affichage

VARIABLES
  bd,          \* bd[g]: documents of g, meals and history of the first one
  crontabs,    \* crontabs[g]: the entries of the array crontabs for bowl g
  clients,     \* clients[g]: the socket registered for g, or Rien
  connexions,  \* state of each socket
  taches,      \* the suspended handlers; Rien where the place is free
  lastId,      \* the undeclared, hence global, lastId of addMeal
  serveur,     \* "arret", "demande" (find sent), "lu" (find read), "pret"
  photo,       \* the meals restartServer's find returned
  pannes,      \* how many times the process was killed
  annonce,     \* annonce[g]: last newNextMeal that reached device g
  servis       \* servis[g]: eatNow messages that reached device g

processus == <<serveur, photo, lastId>>
reseau == <<clients, connexions>>
horloge == <<maintenant, pannes>>
appareils == <<annonce, servis>>
memoire == <<crontabs, reseau, processus, horloge, appareils>>
vars == <<bd, taches, memoire>>

------------------------------------------------------------------------------
(* The meals of a document: what the database does to the array of Planning. *)

Avec(R, id, heure, poids) ==
  R \cup {[id |-> id, rang |-> IF R = {} THEN 1 ELSE Dernier(R).rang + 1,
           heure |-> heure, poids |-> poids]}

\* Variants: one meal too many, numbers taken from the length of the array.
PlaceLibreEgal(R) == Cardinality(R) <= MaxRepas
NouvelIdLongueur(R) == Cardinality(R) + 1

\* addMeal's limit, and the number of a new meal: one more than the last one's.
PlaceLibre(R) == Cardinality(R) < MaxRepas
NouvelId(R) == IF R = {} THEN 1 ELSE Dernier(R).id + 1

\* $set on "repas.$": the first element of the array that has the id.
EstPremier(r, R) == \A x \in R : x.id = r.id => r.rang <= x.rang
Modifies(R, id, heure, poids) ==
  {IF r.id = id /\ EstPremier(r, R)
     THEN [r EXCEPT !.heure = heure, !.poids = poids] ELSE r : r \in R}

\* $pull: every element that has the id.
Sans(R, id) == {r \in R : r.id # id}

\* The two fields of the result that its callers compare and send.
ProchainOuRien(R) ==
  IF R = {} THEN Rien
  ELSE [heure |-> Prochain(R).heure, poids |-> Prochain(R).poids]

------------------------------------------------------------------------------
(* The array crontabs.  Its order only matters between entries of the same  *)
(* bowl and meal: rang counts them.  ws = Rien is the empty callback of     *)
(* restartServer, du says that its minute came and it has not run yet.      *)

Crontab == [repasId : Nat, rang : Int, heure : 0..(Jour - 1), poids : Nat,
            ws : Connexions \cup {Rien}, du : BOOLEAN]

DuRepas(C, id) == {c \in C : c.repasId = id}

\* addCrontab: nothing is scheduled when node-cron rejects the hour.
addCrontab(C, id, heure, poids, ws) ==
  IF heure = -1 THEN C
  ELSE C \cup {[repasId |-> id, rang |-> 1 + Cardinality(DuRepas(C, id)),
                heure |-> heure, poids |-> poids, ws |-> ws, du |-> FALSE]}

\* Variant: the task is stopped and left in the array.
deleteCrontabArrete(C, id) == C

\* deleteCrontab: the first entry of that meal, if there is one.
deleteCrontab(C, id) ==
  {[c EXCEPT !.rang = IF c.repasId = id THEN c.rang - 1 ELSE c.rang] :
     c \in {d \in C : d.repasId # id \/ d.rang > 1}}

updateCrontab(C, id, heure, poids, ws) ==
  IF DuRepas(C, id) = {} THEN C
  ELSE addCrontab(deleteCrontab(C, id), id, heure, poids, ws)

\* Variants: only the entries with an empty callback, only the others.
restartCrontabsVides(C, ws) ==
  {IF c.ws = Rien THEN [c EXCEPT !.ws = ws, !.du = FALSE] ELSE c : c \in C}
restartCrontabsLies(C, ws) ==
  {IF c.ws # Rien THEN [c EXCEPT !.ws = ws, !.du = FALSE] ELSE c : c \in C}

\* restartCrontabs: every entry of the bowl is deleted and scheduled again,
\* in the same order, with a callback that sends to the new socket.
restartCrontabs(C, ws) == {[c EXCEPT !.ws = ws, !.du = FALSE] : c \in C}

\* Variant: the meals that are still to come today.
ChargesDuJour(C, R) ==
  C \cup {[repasId |-> r.id, rang |-> 1, heure |-> r.heure, poids |-> r.poids,
           ws |-> Rien, du |-> FALSE] : r \in {x \in R : x.heure > maintenant}}

\* restartServer's forEach: an entry with an empty callback per meal read.
Charges(C, R) ==
  LET valides == {r \in R : r.heure # -1}
      Avant(r) == {x \in valides : x.id = r.id /\ x.rang <= r.rang}
  IN  C \cup {[repasId |-> r.id,
               rang |-> Cardinality(DuRepas(C, r.id)) + Cardinality(Avant(r)),
               heure |-> r.heure, poids |-> r.poids,
               ws |-> Rien, du |-> FALSE] : r \in valides}

------------------------------------------------------------------------------
(* Handlers. *)

Tache == [op : Ops \cup {"distribution"}, etape : Etapes, attend : BOOLEAN,
          ok : BOOLEAN, g : Gamelles, ws : Connexions, repasId : Nat,
          heure : Heures, poids : Nat, avant : Affichage \cup {Rien},
          lu : SUBSET Repas]

ASSUME RienTacheAssumption == Rien \notin Tache

Attend(t, etape) ==
  taches[t] # Rien /\ taches[t].etape = etape /\ taches[t].attend
Pret(t, etape) ==
  taches[t] # Rien /\ taches[t].etape = etape /\ ~taches[t].attend

\* The handler issues its next call to the database.
Appel(tache, etape) ==
  [tache EXCEPT !.etape = etape, !.attend = TRUE, !.ok = FALSE, !.lu = {}]
\* Same, for a last call: what the request asked for is no longer used.
DernierAppel(tache, etape) ==
  [Appel(tache, etape) EXCEPT !.repasId = 0, !.heure = -1, !.poids = 0]

Devenir(t, tache) == taches' = [taches EXCEPT ![t] = tache]
Finir(t) == Devenir(t, Rien)

\* Variants: the entry of clients and not its socket; the web application itself.
isArduinoClient(ws, g) ==
  IF connexions[ws].pair # Appli THEN ws
  ELSE IF clients[g] = Rien THEN Rien ELSE [id |-> g, ws |-> clients[g]]
isArduinoDirect(ws, g) == ws

\* isArduino: the socket itself for a device, else the bowl's registered one.
isArduino(ws, g) == IF connexions[ws].pair = Appli THEN clients[g] ELSE ws

\* ws.send: lost without an error when the connection is closed.
Joint(ws) == connexions[ws].ouverte /\ connexions[ws].pair # Appli
EnvoyerProchain(ws, r) ==
  annonce' = IF Joint(ws) THEN [annonce EXCEPT ![connexions[ws].pair] = r]
             ELSE annonce
EnvoyerEatNow(ws) ==
  servis' = IF Joint(ws) THEN [servis EXCEPT ![connexions[ws].pair] = @ + 1]
            ELSE servis

AucunDu == \A g \in Gamelles : \A c \in crontabs[g] : ~c.du
EnCours(g) == {t \in Lieux : taches[t] # Rien /\ taches[t].g = g}
ToutRien == [t \in Lieux |-> Rien]

\* The process dies: an unhandled rejection, or a kill.  What is in memory is
\* lost, and so is every connection.
Arreter ==
  /\ serveur' = "arret"
  /\ taches' = ToutRien
  /\ crontabs' = [g \in Gamelles |-> {}]
  /\ clients' = [g \in Gamelles |-> Rien]
  /\ photo' = [g \in Gamelles |-> {}]
  /\ lastId' = 0
  /\ connexions' = [w \in Connexions |->
                      [ouverte |-> FALSE, pair |-> Appli, premier |-> TRUE]]
  /\ annonce' = [g \in Gamelles |-> Rien]

Planter == Arreter /\ UNCHANGED <<bd, horloge, servis>>

----------------------------------------------------------------------------
Init ==
  /\ bd \in BasesInitiales
  /\ crontabs = [g \in Gamelles |-> {}]
  /\ clients = [g \in Gamelles |-> Rien]
  /\ connexions = [w \in Connexions |->
                     [ouverte |-> FALSE, pair |-> Appli, premier |-> TRUE]]
  /\ taches = ToutRien
  /\ lastId = 0
  /\ serveur = "arret"
  /\ photo = [g \in Gamelles |-> {}]
  /\ maintenant = 0
  /\ pannes = 0
  /\ annonce = [g \in Gamelles |-> Rien]
  /\ servis = [g \in Gamelles |-> 0]

------------------------------------------------------------------------------
(* The process and its clients. *)

\* docker-compose's restart: always; server.js:7 sends the find.
Demarrer ==
  /\ serveur = "arret"
  /\ serveur' = "demande"
  /\ UNCHANGED <<bd, taches, crontabs, reseau, photo, lastId, horloge, appareils>>

\* The database answers the find of restartServer.
LirePhoto ==
  /\ serveur = "demande"
  /\ serveur' = "lu"
  /\ photo' = [g \in Gamelles |-> bd[g].repas]
  /\ UNCHANGED <<bd, taches, crontabs, reseau, lastId, horloge, appareils>>

\* The continuation of restartServer.
restartServer ==
  /\ serveur = "lu"
  /\ serveur' = "pret"
  /\ crontabs' = [g \in Gamelles |-> Charges(crontabs[g], photo[g])]
  /\ photo' = [g \in Gamelles |-> {}]
  /\ UNCHANGED <<bd, taches, reseau, lastId, horloge, appareils>>

\* Nobody catches the rejection of restartServer.
EchecDemarrage == ~BdFiable /\ serveur = "demande" /\ Planter

Panne ==
  /\ serveur # "arret" /\ pannes < MaxPannes
  /\ pannes' = pannes + 1
  /\ Arreter
  /\ UNCHANGED <<bd, maintenant, servis>>

Reference(w) ==
  \/ \E t \in Lieux : taches[t] # Rien /\ taches[t].ws = w
  \/ \E g \in Gamelles : clients[g] = w \/ \E c \in crontabs[g] : c.ws = w

\* A device opens a new socket only when it has lost the previous one.
Connecter(w, pair) ==
  /\ serveur = "pret" \/ (ConnexionPrecoce /\ serveur # "arret")
  /\ ~connexions[w].ouverte /\ ~Reference(w)
  /\ pair # Appli => \A v \in Connexions :
                       connexions[v].ouverte => connexions[v].pair # pair
  /\ connexions' = [connexions EXCEPT ![w] =
                      [ouverte |-> TRUE, pair |-> pair, premier |-> TRUE]]
  /\ annonce' = [g \in Gamelles |-> IF g = pair THEN Rien ELSE annonce[g]]
  /\ UNCHANGED <<bd, taches, crontabs, clients, processus, horloge, servis>>

\* The link is lost; the server is not told, and no code of its own asks.
Deconnecter(w) ==
  /\ connexions[w].ouverte
  /\ connexions' = [connexions EXCEPT ![w].ouverte = FALSE]
  /\ UNCHANGED <<bd, taches, crontabs, clients, processus, horloge, appareils>>

\* Bounds on what may still be added to the database.
PeutAjouter(g) ==
  LET ajouts == {t \in EnCours(g) : taches[t].op = "addMeal"}
      numeros == {r.id : r \in bd[g].repas} \cup {taches[t].repasId : t \in ajouts}
  IN  \A n \in numeros \cup {0} : n + Cardinality(ajouts) < MaxId
PeutConsigner(g, n) ==
  LET repas == {t \in EnCours(g) : taches[t].op \in {"eatNow", "distribution"}}
      dus == {c \in crontabs[g] : c.du}
  IN  bd[g].historique + 2 * Cardinality(repas) + Cardinality(dus) + n
        <= MaxHistorique

\* What a client may fill in; an identifier may be that of a meal since removed.
Demandes(g, ws) ==
  [op : Ops, g : {g}, ws : {ws}, repasId : 0..MaxId,
   heure : HeuresSaisies \cup {-1}, poids : Poids \cup {0}]
BienFormee(d) ==
  /\ d.op \in IF connexions[d.ws].pair = Appli THEN OpsAppli ELSE OpsGamelle
  /\ d.repasId = 0 <=> d.op \notin {"update", "deleteMeal"}
  /\ IF d.op \in {"update", "addMeal"} THEN d.heure \in HeuresSaisies
     ELSE d.heure = -1
  /\ IF d.op \in {"update", "addMeal", "eatNow"} THEN d.poids \in Poids
     ELSE d.poids = 0
  /\ d.op = "addMeal" => PeutAjouter(d.g)
  /\ d.op = "eatNow" => PeutConsigner(d.g, 2)

\* The message handler: the first message of a device registers its socket and
\* binds the crontabs of the bowl to it, then check sends its findOne.
Recevoir(t, d) ==
  /\ taches[t] = Rien /\ connexions[d.ws].ouverte /\ BienFormee(d)
  /\ UnALaFois => taches = ToutRien /\ AucunDu
  /\ Devenir(t, [op |-> d.op, etape |-> "check", attend |-> TRUE, ok |-> FALSE,
                 g |-> d.g, ws |-> d.ws, repasId |-> d.repasId,
                 heure |-> d.heure, poids |-> d.poids, avant |-> Rien,
                 lu |-> {}])
  /\ IF connexions[d.ws].pair # Appli /\ connexions[d.ws].premier
       THEN /\ clients' = [clients EXCEPT ![d.g] = d.ws]
            /\ crontabs' = [crontabs EXCEPT ![d.g] = restartCrontabs(@, d.ws)]
            /\ connexions' = [connexions EXCEPT ![d.ws].premier = FALSE]
       ELSE UNCHANGED <<crontabs, reseau>>
  /\ UNCHANGED <<bd, processus, horloge, appareils>>

------------------------------------------------------------------------------
(* The database executes a command. *)

Executer(t, ok, lu) ==
  Devenir(t, [taches[t] EXCEPT !.attend = FALSE, !.ok = ok, !.lu = lu])

\* findOne.  The meals of the reply are kept only where they are looked at.
Trouver(t) ==
  /\ \E e \in {"check", "history", "verif", "eatNow", "distribution"} :
       Attend(t, e)
  /\ Executer(t, bd[taches[t].g].docs > 0, {})
  /\ UNCHANGED <<bd, memoire>>
TrouverRepas(t) ==
  /\ \E e \in {"requestData", "avant", "relecture", "apres", "nextMeal"} :
       Attend(t, e)
  /\ Executer(t, bd[taches[t].g].docs > 0, bd[taches[t].g].repas)
  /\ UNCHANGED <<bd, memoire>>

\* save of creerGamelle: one more document, whatever was there.
Creer(t) ==
  /\ Attend(t, "creation")
  /\ bd' = [bd EXCEPT ![taches[t].g].docs = @ + 1]
  /\ Executer(t, TRUE, {})
  /\ UNCHANGED memoire

\* $push of a meal; the number was chosen when the command was sent.
Ajouter(t) ==
  /\ Attend(t, "ajout")
  /\ bd' = [bd EXCEPT ![taches[t].g].repas =
              Avec(@, taches[t].repasId, taches[t].heure, taches[t].poids)]
  /\ Executer(t, TRUE, {})
  /\ UNCHANGED memoire

Modifier(t) ==
  /\ Attend(t, "maj")
  /\ bd' = [bd EXCEPT ![taches[t].g].repas =
              Modifies(@, taches[t].repasId, taches[t].heure, taches[t].poids)]
  /\ Executer(t, TRUE, {})
  /\ UNCHANGED memoire

\* $pull; ok is modifiedCount != 0.
Retirer(t) ==
  /\ Attend(t, "retrait")
  /\ LET R == bd[taches[t].g].repas
         reste == Sans(R, taches[t].repasId)
     IN  /\ bd' = [bd EXCEPT ![taches[t].g].repas = reste]
         /\ Executer(t, reste # R, {})
  /\ UNCHANGED memoire

\* $push of an entry of the history.
Consigner(t) ==
  /\ Attend(t, "eatNowEnregistre") \/ Attend(t, "enregistrement")
  /\ bd' = [bd EXCEPT ![taches[t].g].historique = @ + 1]
  /\ Executer(t, TRUE, {})
  /\ UNCHANGED memoire

------------------------------------------------------------------------------
(* The continuations of the handlers. *)

\* traitement's switch, once check has resolved (or failed: it catches).
Aiguiller(t) ==
  LET tache == taches[t]
      cible == isArduino(tache.ws, tache.g)
  IN  CASE tache.op = "nextMeal" -> Devenir(t, DernierAppel(tache, "nextMeal"))
        [] tache.op \in {"requestData", "history", "eatNow"} ->
             Devenir(t, Appel(tache, tache.op))
        [] OTHER ->
             IF cible = Rien THEN Finir(t)
             ELSE Devenir(t, Appel([tache EXCEPT !.ws = cible], "avant"))

sansTaches == <<bd, memoire>>

\* Variant: a bowl gets a document without a look at the reply.
SuiteCheckToujours(t) ==
  /\ Pret(t, "check")
  /\ Devenir(t, Appel(taches[t], "creation"))
  /\ UNCHANGED sansTaches

\* check: a bowl unknown when findOne ran gets a document.
SuiteCheck(t) ==
  /\ Pret(t, "check")
  /\ IF taches[t].ok THEN Aiguiller(t)
     ELSE Devenir(t, Appel(taches[t], "creation"))
  /\ UNCHANGED sansTaches

SuiteCreation(t) ==
  /\ Pret(t, "creation") /\ Aiguiller(t) /\ UNCHANGED sansTaches

\* requestData sends the document, null included; history needs a document.
SuiteLecture(t) ==
  \/ Pret(t, "requestData") /\ Finir(t) /\ UNCHANGED sansTaches
  \/ Pret(t, "history") /\ taches[t].ok /\ Finir(t) /\ UNCHANGED sansTaches
  \/ Pret(t, "history") /\ ~taches[t].ok /\ Planter

\* update, addMeal and deleteMeal remember the next meal, then go on.
SuiteAvant(t) ==
  /\ Pret(t, "avant")
  /\ IF ~taches[t].ok THEN Planter
     ELSE /\ Devenir(t, Appel([taches[t] EXCEPT !.avant =
                                 ProchainOuRien(taches[t].lu)],
                              CASE taches[t].op = "update" -> "maj"
                                [] taches[t].op = "deleteMeal" -> "retrait"
                                [] OTHER -> "relecture"))
          /\ UNCHANGED sansTaches

\* addMeal: the limit is tested and the number chosen on what was read.
SuiteRelecture(t) ==
  /\ Pret(t, "relecture")
  /\ LET R == taches[t].lu
         id == NouvelId(R)
     IN  IF ~taches[t].ok THEN Planter
         ELSE IF PlaceLibre(R)
         THEN /\ lastId' = id
              /\ Devenir(t, Appel([taches[t] EXCEPT !.repasId = id], "ajout"))
              /\ UNCHANGED <<bd, crontabs, reseau, serveur, photo, horloge,
                             appareils>>
         ELSE Finir(t) /\ UNCHANGED sansTaches

\* addMeal's .then: the number of the crontab is the global as it is now.
SuiteAjout(t) ==
  /\ Pret(t, "ajout")
  /\ LET tache == taches[t]
     IN  crontabs' = [crontabs EXCEPT ![tache.g] =
                        addCrontab(@, lastId, tache.heure, tache.poids, tache.ws)]
  /\ Devenir(t, DernierAppel(taches[t], "apres"))
  /\ UNCHANGED <<bd, reseau, processus, horloge, appareils>>

SuiteMaj(t) ==
  /\ Pret(t, "maj")
  /\ LET tache == taches[t]
         C == crontabs[tache.g]
     IN  /\ crontabs' = [crontabs EXCEPT ![tache.g] =
              updateCrontab(C, tache.repasId, tache.heure, tache.poids, tache.ws)]
         /\ IF DuRepas(C, tache.repasId) = {} THEN Finir(t)
            ELSE Devenir(t, DernierAppel(tache, "apres"))
  /\ UNCHANGED <<bd, reseau, processus, horloge, appareils>>

\* Variant: nothing is done when the meal was not there.
SuiteRetraitMuet(t) ==
  /\ Pret(t, "retrait") /\ taches[t].ok
  /\ Devenir(t, Appel(taches[t], "verif"))
  /\ UNCHANGED sansTaches

SuiteRetrait(t) ==
  /\ Pret(t, "retrait")
  /\ IF taches[t].ok THEN Devenir(t, Appel(taches[t], "verif")) ELSE Finir(t)
  /\ UNCHANGED sansTaches

SuiteVerif(t) ==
  /\ Pret(t, "verif")
  /\ crontabs' = [crontabs EXCEPT ![taches[t].g] =
                    deleteCrontab(@, taches[t].repasId)]
  /\ Devenir(t, DernierAppel(taches[t], "apres"))
  /\ UNCHANGED <<bd, reseau, processus, horloge, appareils>>

\* Variant: addMeal does not test that there was a next meal.
IndefiniAjout(op, r, avant) == op # "deleteMeal" /\ (r = Rien \/ avant = Rien)

\* The comparison of r and repas reads fields of undefined in these cases.
Indefini(op, r, avant) ==
  \/ op = "update" /\ (r = Rien \/ avant = Rien)
  \/ op = "addMeal" /\ r = Rien /\ avant # Rien

\* The device is told of its next meal when the operation changed it.
SuiteApres(t) ==
  /\ Pret(t, "apres")
  /\ LET tache == taches[t]
         avant == tache.avant
         r == ProchainOuRien(tache.lu)
         differe == r # Rien /\ avant # Rien /\ r # avant
     IN  IF ~tache.ok \/ Indefini(tache.op, r, avant) THEN Planter
         ELSE /\ CASE differe \/ (tache.op = "addMeal" /\ avant = Rien) ->
                        EnvoyerProchain(tache.ws, r)
                   [] tache.op = "deleteMeal" /\ r = Rien ->
                        EnvoyerProchain(tache.ws, AucunRepas)
                   [] OTHER -> UNCHANGED annonce
              /\ Finir(t)
              /\ UNCHANGED <<bd, crontabs, reseau, processus, horloge, servis>>

SuiteNextMeal(t) ==
  /\ Pret(t, "nextMeal")
  /\ LET R == taches[t].lu
     IN  IF ~taches[t].ok THEN Planter
         ELSE /\ EnvoyerProchain(taches[t].ws,
                   IF R = {} THEN AucunRepas ELSE ProchainOuRien(R))
              /\ Finir(t)
              /\ UNCHANGED <<bd, crontabs, reseau, processus, horloge, servis>>

SuiteEatNow(t) ==
  /\ Pret(t, "eatNow")
  /\ IF taches[t].ok THEN Devenir(t, Appel(taches[t], "eatNowEnregistre"))
                          /\ UNCHANGED sansTaches
     ELSE Planter

\* A device has served already; for the web application the device is told to.
SuiteEatNowEnregistre(t) ==
  /\ Pret(t, "eatNowEnregistre")
  /\ LET tache == taches[t]
         cible == isArduino(tache.ws, tache.g)
     IN  IF connexions[tache.ws].pair # Appli \/ cible = Rien THEN Finir(t)
         ELSE Devenir(t, Appel([tache EXCEPT !.ws = cible], "distribution"))
  /\ UNCHANGED sansTaches

\* Variant: the order to serve is sent before the entry is recorded.
SuiteDistributionAvant(t) ==
  /\ Pret(t, "distribution") /\ taches[t].ok
  /\ EnvoyerEatNow(taches[t].ws)
  /\ Devenir(t, Appel(taches[t], "enregistrement"))
  /\ UNCHANGED <<bd, crontabs, reseau, processus, horloge, annonce>>

\* distribution reads a field of g: node-cron catches the rejection.
SuiteDistribution(t) ==
  /\ Pret(t, "distribution")
  /\ IF taches[t].ok THEN Devenir(t, Appel(taches[t], "enregistrement"))
                          /\ UNCHANGED sansTaches
     ELSE IF t \in Minuteries THEN Finir(t) /\ UNCHANGED sansTaches
     ELSE Planter

SuiteEnregistrement(t) ==
  /\ Pret(t, "enregistrement")
  /\ EnvoyerEatNow(taches[t].ws)
  /\ Devenir(t, DernierAppel(taches[t], "nextMeal"))
  /\ UNCHANGED <<bd, crontabs, reseau, processus, horloge, annonce>>

\* Variant: a rejected entry of the history is sent again.
EchecRejoue(t) ==
  /\ ~BdFiable /\ taches[t] # Rien /\ taches[t].etape = "enregistrement"
  /\ Devenir(t, Appel(taches[t], "enregistrement"))
  /\ UNCHANGED sansTaches

\* A call to the database is rejected (whether or not it was executed).
Echec(t) ==
  /\ ~BdFiable /\ taches[t] # Rien
  /\ LET etape == taches[t].etape
         surveillee == t \in Minuteries /\ etape \in {"distribution", "enregistrement"}
     IN  CASE etape \in {"check", "creation"} -> Aiguiller(t) /\ UNCHANGED sansTaches
           [] etape \in {"requestData", "ajout", "maj", "retrait"} \/ surveillee ->
                Finir(t) /\ UNCHANGED sansTaches
           [] OTHER -> Planter

------------------------------------------------------------------------------
(* Time. *)

\* A minute ends: the tasks of node-cron whose minute comes are due.  Those
\* of restartServer have an empty callback.
Tic ==
  /\ AucunDu
  /\ UnALaFois => taches = ToutRien
  /\ maintenant' = (maintenant + 1) % Jour
  /\ \A g \in Gamelles :
       PeutConsigner(g, Cardinality({c \in crontabs[g] : c.heure = maintenant'}))
  /\ crontabs' = [g \in Gamelles |->
       {[c EXCEPT !.du = (c.ws # Rien /\ c.heure = maintenant')] : c \in crontabs[g]}]
  /\ UNCHANGED <<bd, taches, reseau, processus, pannes, appareils>>

\* node-cron calls distribution with the data and the socket of the closure.
Declencher(t, g) ==
  /\ taches[t] = Rien
  /\ \E c \in crontabs[g] :
       /\ c.du /\ c.ws # Rien
       /\ crontabs' = [crontabs EXCEPT ![g] = (@ \ {c}) \cup {[c EXCEPT !.du = FALSE]}]
       /\ Devenir(t, [op |-> "distribution", etape |-> "distribution",
                      attend |-> TRUE, ok |-> FALSE, g |-> g, ws |-> c.ws,
                      repasId |-> 0, heure |-> -1, poids |-> 0, avant |-> Rien,
                      lu |-> {}])
  /\ UNCHANGED <<bd, reseau, processus, horloge, appareils>>

------------------------------------------------------------------------------
Base(t) == \/ Trouver(t) \/ TrouverRepas(t) \/ Creer(t) \/ Ajouter(t)
           \/ Modifier(t) \/ Retirer(t) \/ Consigner(t)

Suite(t) == \/ SuiteCheck(t) \/ SuiteCreation(t) \/ SuiteLecture(t)
            \/ SuiteAvant(t) \/ SuiteRelecture(t) \/ SuiteAjout(t)
            \/ SuiteMaj(t) \/ SuiteRetrait(t) \/ SuiteVerif(t)
            \/ SuiteApres(t) \/ SuiteNextMeal(t) \/ SuiteEatNow(t)
            \/ SuiteEatNowEnregistre(t) \/ SuiteDistribution(t)
            \/ SuiteEnregistrement(t)

Next ==
  \/ Demarrer \/ LirePhoto \/ restartServer \/ EchecDemarrage \/ Panne
  \/ \E w \in Connexions : \/ \E pair \in Gamelles \cup {Appli} : Connecter(w, pair)
                           \/ Deconnecter(w)
  \/ \E t \in Requetes, w \in Connexions :
       \E g \in IF connexions[w].pair = Appli THEN Gamelles ELSE {connexions[w].pair} :
         \E d \in Demandes(g, w) : Recevoir(t, d)
  \/ \E t \in Lieux : Base(t) \/ Suite(t) \/ Echec(t)
  \/ Tic
  \/ \E t \in Minuteries, g \in Gamelles : Declencher(t, g)

Spec == Init /\ [][Next]_vars

\* The database answers, the event loop runs what is ready, docker restarts
\* the process, minutes pass and node-cron's timers fire.  Nothing is assumed of
\* the clients: they may never connect, speak or come back.
Equite ==
  /\ \A t \in Lieux : WF_vars(Base(t)) /\ WF_vars(Suite(t))
  /\ WF_vars(Demarrer) /\ WF_vars(LirePhoto) /\ WF_vars(restartServer)
  /\ WF_vars(Tic)
  /\ \A t \in Minuteries, g \in Gamelles : WF_vars(Declencher(t, g))

SpecVivace == Spec /\ Equite

=============================================================================
