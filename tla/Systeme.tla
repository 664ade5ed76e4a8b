------------------------------ MODULE Systeme ------------------------------
(***************************************************************************)
(* The page and the server together: what the page sends is what Serveur   *)
(* receives on its socket, and the reply of requestData (traitement.js:64) *)
(* is what the page gets.  Time stands still: no timer fires, nothing of   *)
(* the page depends on the clock.                                          *)
(***************************************************************************)
EXTENDS ServeurProprietes, Sequences

CONSTANTS SansChoix, MaxEnvois, Allumees  \* the bowls whose device is switched on

ASSUME AllumeesAssumption == Allumees \subseteq Gamelles

VARIABLES socket, id, updateCreateDistrib, listRepas, vues, promesse, emis, recus,
          envois, patient,  \* see Page
          prise             \* the server's end of the socket of the page

W == INSTANCE Page
laPage == <<socket, id, updateCreateDistrib, listRepas, vues, promesse, emis, recus,
            envois, patient>>
toutes == <<vars, laPage, prise>>

SystemeInit == Init /\ W!Init /\ prise = Rien

PriseOuverte == prise # Rien /\ connexions[prise].ouverte

\* The page's socket is accepted.
Ouvrir(w) ==
  /\ Connecter(w, Appli) /\ W!onopen
  /\ prise' = w

\* Its close event: the connection is refused, or the link was lost some time ago.
Fermer ==
  /\ ~PriseOuverte /\ W!onclose
  /\ prise' = Rien
  /\ UNCHANGED vars

Clic == W!Clic /\ UNCHANGED <<vars, prise>>
Evenement == W!onmessage /\ UNCHANGED <<vars, prise>>

\* The server takes the next message of the page; Demandes bounds its number.
Livrer(t) ==
  /\ PriseOuverte /\ emis # <<>>
  /\ LET m == Head(emis)
         d == [op |-> m.op, g |-> m.g, ws |-> prise, repasId |-> m.repasId,
               heure |-> m.heure, poids |-> m.poids]
     IN  d \in Demandes(m.g, prise) /\ Recevoir(t, d)
  /\ emis' = Tail(emis)
  /\ UNCHANGED <<socket, id, updateCreateDistrib, listRepas, vues, promesse, recus,
                 envois, patient, prise>>

\* Variant: the socket of the device, as in the other functions.
RepondAGamelle(t) == isArduino(taches[t].ws, taches[t].g)

\* requestData replies on the socket the request came from.
RepondA(t) == taches[t].ws

\* A continuation; that of requestData sends the document.
Suivre(t) ==
  /\ Suite(t)
  /\ recus' = IF Pret(t, "requestData") /\ RepondA(t) = prise /\ PriseOuverte
              THEN Append(recus, IF taches[t].ok THEN taches[t].lu ELSE Rien)
              ELSE recus
  /\ UNCHANGED <<socket, id, updateCreateDistrib, listRepas, vues, emis, promesse, envois, patient, prise>>

\* Steps of the server the page takes no part in.  A device that is switched on
\* says its first message and no more, and keeps its link: what else it says and
\* loses changes nothing the page sees.  Only the link of the page is lost.
Seul ==
  \/ Demarrer \/ LirePhoto \/ restartServer
  \/ \E t \in Lieux : Base(t)
  \/ \E w \in {prise} \ {Rien} : Deconnecter(w)
  \/ \E w \in Connexions \ {prise}, g \in Allumees : Connecter(w, g)
  \/ \E t \in Requetes, w \in Connexions :
       \E g \in {connexions[w].pair} \ {Appli} :
         \E d \in Demandes(g, w) : connexions[w].premier /\ Recevoir(t, d)

SystemeNext ==
  \/ \E w \in Connexions : Ouvrir(w)
  \/ Fermer \/ Clic \/ Evenement
  \/ \E t \in Requetes : Livrer(t)
  \/ \E t \in Lieux : Suivre(t)
  \/ Seul /\ UNCHANGED <<laPage, prise>>

\* The network delivers, the database answers, the event loops run.  Nothing is
\* assumed of the user nor of the devices.
SystemeEquite ==
  /\ WF_toutes(Evenement)
  /\ WF_toutes(\E t \in Requetes : Livrer(t))
  /\ \A t \in Lieux : /\ WF_toutes(Suivre(t))
                      /\ WF_toutes(Base(t) /\ UNCHANGED <<laPage, prise>>)

SystemeSpec == SystemeInit /\ [][SystemeNext]_toutes /\ SystemeEquite

------------------------------------------------------------------------------
\* Nothing is under way between the page, the server and the database.
Calme == emis = <<>> /\ recus = <<>> /\ Repos

\* A user who waits for each list sees the meals of the bowl whose number he
\* typed, as the database has them, however he went from a bowl to another, lost
\* the link and loaded the page again (getAllMeal, showMenuSelect).
ListeAJour ==
  (patient /\ PriseOuverte /\ promesse = "tenue" /\ "corps" \in vues /\ Calme)
    => listRepas = bd[id].repas

\* What such a user removes or changes is the meal he has seen: until the server
\* takes the request, the meal of that number in his list is in the database, for
\* the bowl of the request.
VuEtVise ==
  patient =>
    \A i \in 1..Len(emis) :
      emis[i].op \in {"update", "deleteMeal"}
        => {r \in listRepas : r.id = emis[i].repasId} \subseteq bd[emis[i].g].repas

\* A list that is asked for comes, however many are: the promise is kept unless
\* the link or the server is lost.
ListeObtenue ==
  (promesse = "attendue" /\ PriseOuverte) ~> (promesse # "attendue" \/ ~PriseOuverte)
=============================================================================
