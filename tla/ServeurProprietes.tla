--------------------------- MODULE ServeurProprietes -----------------------
(***************************************************************************)
(* What the server promises.  The first group holds whatever the handlers' *)
(* interleaving; the second when one client message is handled at a time   *)
(* (UnALaFois), which is how the code was written and tried.               *)
(***************************************************************************)
EXTENDS Serveur

TypeOK ==
  /\ bd \in [Gamelles -> Document]
  /\ crontabs \in [Gamelles -> SUBSET Crontab]
  /\ clients \in [Gamelles -> Connexions \cup {Rien}]
  /\ connexions \in [Connexions -> [ouverte : BOOLEAN, pair : Gamelles \cup {Appli},
                                    premier : BOOLEAN]]
  /\ taches \in [Lieux -> Tache \cup {Rien}]
  /\ lastId \in Nat
  /\ serveur \in {"arret", "demande", "lu", "pret"}
  /\ photo \in [Gamelles -> SUBSET Repas]
  /\ maintenant \in 0..(Jour - 1)
  /\ pannes \in Nat
  /\ annonce \in [Gamelles -> [heure : Heures, poids : {-1} \cup Nat] \cup {Rien}]
  /\ servis \in [Gamelles -> Nat]

------------------------------------------------------------------------------
(* Whatever the interleaving. *)

\* A device is only ever sent what concerns its own bowl: no handler, crontab
\* or registered client of a bowl holds the socket of another bowl's device, and
\* past isArduino none holds that of the web application (updateClients,
\* isArduino, restartCrontabs and the closures of distribution).
EtapesReliees == {"avant", "relecture", "ajout", "maj", "retrait", "verif", "apres",
                  "distribution", "enregistrement"}
TacheBien(x) ==
  x # Rien => /\ connexions[x.ws].pair \in {Appli, x.g}
              /\ x.etape \in EtapesReliees => connexions[x.ws].pair = x.g
ClientBien(g) == clients[g] # Rien => connexions[clients[g]].pair = g
CrontabsBien(g) == \A c \in crontabs[g] : c.ws # Rien => connexions[c.ws].pair = g
BonDestinataire == /\ \A t \in Lieux : TacheBien(taches[t])
                   /\ \A g \in Gamelles : ClientBien(g) /\ CrontabsBien(g)

\* addMeal tests the limit on a read that is stale when the $push runs; the
\* excess is at most one meal per other handler in flight.
DepassementBorne ==
  \A g \in Gamelles :
    Cardinality(bd[g].repas) <= MaxRepas - 1 + Cardinality(Requetes)

\* check tests on a read that is stale when creerGamelle saves, and nothing makes
\* the id of a bowl unique: a bowl has at most one document per handler.
DocumentsBornes == \A g \in Gamelles : bd[g].docs <= Cardinality(Requetes)

\* distribution records a portion before it orders it: the history of a bowl
\* never has fewer entries than portions the server made it serve, across
\* crashes, lost messages and concurrent distributions.
EnregistreNonServi(g) ==
  {t \in EnCours(g) : taches[t].etape = "enregistrement" /\ ~taches[t].attend}
HistoriqueSuffisant ==
  \A g \in Gamelles :
    servis[g] + Cardinality(EnregistreNonServi(g)) <= bd[g].historique

\* The server seen as orders to serve: a handler that has reached distribution is
\* an order in progress, recorded once its $push was executed.
Commande(x) ==
  IF x # Rien /\ x.etape \in {"distribution", "enregistrement"}
  THEN [g |-> x.g, consignee |-> x.etape = "enregistrement" /\ ~x.attend]
  ELSE Rien
P == INSTANCE Portions WITH
       historique <- [g \in Gamelles |-> bd[g].historique],
       commandes <- [t \in Lieux |-> Commande(taches[t])]

ASSUME RienCommandeAssumption == Rien \notin P!Commandes

\* Whatever the handlers, timers, failures and kills do, orders are recorded once,
\* then sent once or given up, to the bowl they are for (distribution, eatNow).
PortionsPromises == P!Spec

------------------------------------------------------------------------------
(* One client message at a time. *)

Repos == serveur = "pret" /\ \A t \in Requetes : taches[t] = Rien

Valides(g) == {r \in bd[g].repas : r.heure # -1}

\* Between two requests the timers of a bowl are exactly its meals: one entry
\* of crontabs per meal of the database, with its hour and its portion.
PlanningFidele ==
  Repos => \A g \in Gamelles :
    /\ {<<c.repasId, c.heure, c.poids>> : c \in crontabs[g]}
         = {<<r.id, r.heure, r.poids>> : r \in Valides(g)}
    /\ Cardinality(crontabs[g]) = Cardinality(Valides(g))

\* Between two requests every timer of a bowl sends to the socket its device
\* registered last (or does nothing while none has, after a restart).
RelieAuDernier ==
  Repos => \A g \in Gamelles : \A c \in crontabs[g] : c.ws = clients[g]

\* Meal numbers identify meals, in the order of the array, and a bowl has a
\* single document: findOne, "repas.id" and $pull designate what is meant.
NumerosUniques ==
  \A g \in Gamelles :
    /\ bd[g].docs <= 1
    /\ \A r, s \in bd[g].repas : r.rang < s.rang <=> r.id < s.id
    /\ \A r, s \in bd[g].repas : r.id = s.id => r = s

\* When nothing is in progress, a connected device that was ever told of its
\* next meal was told of the right hour: each operation and each distribution
\* sends newNextMeal whenever it has to.  (The portion may be that of another
\* meal of the same hour: nextMeal takes the first of them while it is still to
\* come today and the last once it is for tomorrow.)
Delai(r) == (r.heure - maintenant - 1) % Jour
HeureProchaine(R) ==
  IF R = {} THEN -1
  ELSE (CHOOSE r \in R : \A x \in R : Delai(r) <= Delai(x)).heure
AnnonceAJour ==
  (serveur = "pret" /\ taches = ToutRien /\ AucunDu)
  => \A g \in Gamelles :
       annonce[g] # Rien /\ clients[g] # Rien /\ connexions[clients[g]].ouverte
       => annonce[g].heure = HeureProchaine(bd[g].repas)

\* The process only ever stops because it is killed: no continuation reads a
\* field of undefined outside of a catch.
SansPlantage ==
  [][serveur # "arret" /\ serveur' = "arret" => pannes' = pannes + 1]_vars

------------------------------------------------------------------------------
(* What comments of the code say, and it does not do. *)

\* traitement.js:71, "modifier les parametres de la gamelle : heure de distribution
\* et poids": once a meal has a good hour, it has a timer of that hour, whatever
\* hour it had before (cron.js:8 gives a meal 10h00 in place of a bad one).
HeureModifieeServie ==
  Repos => \A g \in Gamelles : \A r \in Valides(g) :
             \E c \in crontabs[g] : c.repasId = r.id /\ c.heure = r.heure

------------------------------------------------------------------------------
(* Under fairness. *)

\* Every handler settles, whatever the others do: none waits for ever.
TraitementsFinissent ==
  \A t \in Lieux : taches[t] # Rien ~> taches[t] = Rien

\* After a crash, wherever it fell, the server comes back with a timer for
\* every meal that has a valid hour.
RepriseComplete ==
  serveur = "arret" ~>
    /\ serveur = "pret"
    /\ \A g \in Gamelles : \A r \in Valides(g) :
         \E c \in crontabs[g] : c.repasId = r.id /\ c.heure = r.heure

\* A device that is connected and has spoken before the minute of a meal gets
\* its portion, unless the meal is removed or moved, its link or the server is
\* lost, or a request caught in a reconnection left a timer with a lost socket.
\* (Stated for the first portion: MaxHistorique stops the clock later on.)
Relie(g) == /\ serveur = "pret" /\ clients[g] # Rien
            /\ connexions[clients[g]].ouverte
            /\ \A c \in crontabs[g] : c.ws \in {clients[g], Rien}
Prevu(g, heure) == \E r \in Valides(g) : r.heure = heure
RepasDistribue ==
  \A g \in Gamelles, heure \in 0..(Jour - 1) :
    (/\ Relie(g) /\ Prevu(g, heure) /\ heure = (maintenant + 1) % Jour
     /\ bd[g].historique = 0)
    ~> (servis[g] = 1 \/ ~Relie(g) \/ ~Prevu(g, heure))

=============================================================================
