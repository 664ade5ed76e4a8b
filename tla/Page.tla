-------------------------------- MODULE Page -------------------------------
(***************************************************************************)
(* The web page of a bowl, src/appli/script.js.  Every operation is a      *)
(* click; it sends its request, waits 200 ms without giving way, asks for  *)
(* the list of the meals and puts a new handler in place of onmessage,     *)
(* whose promise redraws the list.  Replies carry nothing that says which  *)
(* request they answer: the handler in place takes the first that comes.   *)
(*                                                                         *)
(* A definition marked "Variant" is a plausible mistake in the one below   *)
(* it, and no action uses it.                                              *)
(***************************************************************************)
EXTENDS Integers, Sequences

CONSTANTS
  Gamelles,       \* the bowls whose number the user may type
  Rien,           \* no bowl; the document null
  HeuresSaisies,  \* what #time may hold (-1: nothing)
  Poids,          \* what #poids may hold
  SansChoix,      \* the value null of an empty #listRepas
  MaxEnvois       \* bound on the clicks that send

VARIABLES
  socket,               \* its readyState: "connecting", "open", "closed"
  id,                   \* the bowl of the last connexion
  updateCreateDistrib,  \* what #creationRepas does
  listRepas,            \* the meals in the list
  vues,                 \* the parts of the page that are not hidden
  promesse,             \* the promise of the handler in place
  emis, recus,          \* the messages under way, to the server and from it
  envois,               \* counts the clicks that send
  patient               \* has the user waited for each list so far?

ecran == <<id, updateCreateDistrib, listRepas, vues>>
echanges == <<emis, promesse, envois, patient>>
page == <<socket, ecran, recus, echanges>>

Init == /\ socket = "connecting"
        /\ id = Rien /\ updateCreateDistrib = -2 /\ listRepas = {}
        /\ vues = {"login", "modifier"} /\ promesse = "aucune"
        /\ emis = <<>> /\ recus = <<>> /\ envois = 0 /\ patient = TRUE

Requete(op, g, repasId, heure, poids) ==
  [op |-> op, g |-> g, repasId |-> repasId, heure |-> heure, poids |-> poids]

\* Variant: the list is asked before the request is sent.
DemanderAvant(g, requetes) ==
  /\ envois < MaxEnvois
  /\ emis' = IF socket = "open"
             THEN (emis \o <<Requete("requestData", g, 0, -1, 0)>>) \o requetes ELSE emis
  /\ promesse' = "attendue"
  /\ envois' = envois + 1
  /\ patient' = (patient /\ promesse # "attendue")

\* A request, then that of getAllMeal: a closed socket discards both.
Demander(g, requetes) ==
  /\ envois < MaxEnvois
  /\ emis' = IF socket = "open"
             THEN Append(emis \o requetes, Requete("requestData", g, 0, -1, 0)) ELSE emis
  /\ promesse' = "attendue"
  /\ envois' = envois + 1
  /\ patient' = (patient /\ promesse # "attendue")

------------------------------------------------------------------------------
(* Clicks. *)

\* Variant: the page is shown again with the list it had.
connexionSansListe(g) ==
  /\ "login" \in vues
  /\ id' = g
  /\ vues' = (vues \ {"login"}) \cup (IF listRepas # {} THEN {"corps"} ELSE {})
  /\ IF socket # "connecting" /\ listRepas = {} THEN Demander(g, <<>>)
     ELSE UNCHANGED echanges
  /\ UNCHANGED <<socket, updateCreateDistrib, listRepas, recus>>

\* #connexion: send throws while the socket is not open yet.
connexion(g) ==
  /\ "login" \in vues
  /\ id' = g
  /\ vues' = vues \ (IF socket = "closed" THEN {"login", "formulaire"} ELSE {"login"})
  /\ IF socket = "connecting" THEN UNCHANGED echanges ELSE Demander(g, <<>>)
  /\ UNCHANGED <<socket, updateCreateDistrib, listRepas, recus>>

\* #deconnexion forgets neither the bowl, nor the list, nor the form.
deconnexion ==
  /\ "login" \notin vues
  /\ vues' = (vues \cup {"login"}) \ {"corps"}
  /\ UNCHANGED <<socket, id, updateCreateDistrib, listRepas, recus, echanges>>

\* #distribuer, #goCreation, and #modifier, which is hidden with an empty list.
ouvrirFormulaire(mode) ==
  /\ "corps" \in vues
  /\ mode = 0 => "modifier" \in vues
  /\ updateCreateDistrib' = mode
  /\ vues' = vues \cup {"formulaire"}
  /\ UNCHANGED <<socket, id, listRepas, recus, echanges>>

\* listRepas.val(): the meal the user has chosen, null if there is none.
Choix == IF listRepas = {} THEN {SansChoix} ELSE {r.id : r \in listRepas}

supprimer ==
  /\ {"corps", "modifier"} \subseteq vues
  /\ \E repasId \in Choix : Demander(id, <<Requete("deleteMeal", id, repasId, -1, 0)>>)
  /\ vues' = vues \ {"formulaire"}
  /\ updateCreateDistrib' = -2
  /\ UNCHANGED <<socket, id, listRepas, recus>>

creationRepas ==
  /\ {"corps", "formulaire"} \subseteq vues
  /\ \E heure \in HeuresSaisies, poids \in Poids :
       \/ /\ updateCreateDistrib = 1
          /\ Demander(id, <<Requete("addMeal", id, 0, heure, poids)>>)
       \/ /\ updateCreateDistrib = 0
          /\ \E repasId \in Choix :
               Demander(id, <<Requete("update", id, repasId, heure, poids)>>)
       \/ /\ updateCreateDistrib = -1
          /\ Demander(id, <<Requete("eatNow", id, 0, -1, poids)>>)
  /\ UNCHANGED <<socket, ecran, recus>>

------------------------------------------------------------------------------
(* Events. *)

\* The handler of getAllMeal: reading a field of null throws and its promise
\* stays; once the promise is kept, what else comes is ignored.
onmessage ==
  /\ recus # <<>>
  /\ recus' = Tail(recus)
  /\ IF promesse = "attendue" /\ Head(recus) # Rien
     THEN /\ promesse' = "tenue"
          /\ listRepas' = Head(recus)
          /\ vues' = (vues \ {"modifier"}) \cup {"corps"}
                       \cup (IF Head(recus) = {} THEN {} ELSE {"modifier"})
     ELSE UNCHANGED <<promesse, listRepas, vues>>
  /\ UNCHANGED <<socket, id, updateCreateDistrib, emis, envois, patient>>

onopen == socket = "connecting" /\ socket' = "open" /\ UNCHANGED <<ecran, recus, echanges>>

\* onclose: what was under way is lost; nothing opens another socket.
onclose ==
  /\ socket # "closed" /\ socket' = "closed"
  /\ vues' = vues \ {"corps"}
  /\ emis' = <<>> /\ recus' = <<>>
  /\ UNCHANGED <<id, updateCreateDistrib, listRepas, promesse, envois, patient>>

\* The timer of checkWebSocket, every 30 s once a connexion went through.
checkWebSocket ==
  /\ socket = "closed" /\ id # Rien
  /\ vues' = vues \ {"formulaire"}
  /\ UNCHANGED <<socket, id, updateCreateDistrib, listRepas, recus, echanges>>

\* The user loads the page again.
recharger ==
  /\ socket = "closed" /\ socket' = "connecting"
  /\ id' = Rien /\ updateCreateDistrib' = -2 /\ listRepas' = {}
  /\ vues' = {"login", "modifier"} /\ promesse' = "aucune"
  /\ patient' = TRUE
  /\ UNCHANGED <<emis, recus, envois>>

Clic ==
  \/ \E g \in Gamelles : connexion(g)
  \/ deconnexion \/ supprimer \/ creationRepas
  \/ \E mode \in {-1, 0, 1} : ouvrirFormulaire(mode)
  \/ checkWebSocket \/ recharger
=============================================================================
