------------------------------ MODULE Gamelle ------------------------------
(***************************************************************************)
(* The bowl's firmware and its link with the server: src/Gamelle/src/      *)
(* main.cpp, webSocket.cpp and the menus of traitement.cpp.                *)
(*                                                                         *)
(* The program is sequential and every call blocks: what the bowl has left *)
(* to do before it is back in loop() is a sequence of instructions, and    *)
(* one action runs the first of them.  What is typed in a menu is abstract *)
(* here (module Clavier has it); the server is the one of module Serveur,  *)
(* seen from one device: it answers requests in order and sends messages   *)
(* of its own to the socket that spoke last.                               *)
(* A definition marked "Variant" is no part of the model: it is what its   *)
(* neighbour would be with a mistake the properties must notice.           *)
(***************************************************************************)
EXTENDS Integers, Sequences, FiniteSets

CONSTANTS
  Menus,        \* the keys of the main menu the user may press
  MaxVersions,  \* bound on the changes of the next meal
  MaxOrdres,    \* bound on the eatNow messages of the server
  MaxCoupures,  \* bound on the losses of the link
  MaxDemandes   \* bound on the requests under way: sendMessage waits for room

Touches == {"A", "B", "C", "D", "*"}

ASSUME ConstantesAssumption ==
  /\ Menus \subseteq Touches
  /\ MaxVersions \in Nat /\ MaxOrdres \in Nat /\ MaxCoupures \in Nat
  /\ MaxDemandes \in Nat \ {0}

VARIABLES
  reste,     \* the instructions left before loop() starts over
  lien,      \* what client.connected() returns
  entrants,  \* messages on their way to the bowl
  demandes,  \* requests on their way to the server
  relie,     \* does the server send to the current socket of the bowl?
  prochain,  \* version of the next meal, at the server
  affiche,   \* version shown on the main menu; Nul: anything else
  ordres,    \* eatNow messages the server sent
  servis,    \* those the bowl obeyed
  coupures

vars == <<reste, lien, entrants, demandes, relie, prochain, affiche, ordres,
          servis, coupures>>
appareil == <<reste, affiche, servis>>
reseau == <<lien, entrants, demandes>>
service == <<relie, prochain, ordres>>

Nul == -1
Requetes == {"nextMeal", "requestData", "addMeal", "deleteMeal", "update", "eatNow"}
Message == [action : {"newNextMeal", "eatNow", "document"}, version : 0..MaxVersions]
\* Variant: the next meal as it was before the change.
NouveauProchainAvant(n) == [action |-> "newNextMeal", version |-> n - 1]
NouveauProchain(n) == [action |-> "newNextMeal", version |-> n]
EatNow == [action |-> "eatNow", version |-> 0]
\* Anything without an action: the meals, or "nombre de repas trop élevé".
Document == [action |-> "document", version |-> 0]

------------------------------------------------------------------------------
(* The program. *)

Instruction ==
  [faire : {"connecter", "image", "lire", "clavier", "saisir", "confirmer"}, quoi : {""}]
    \cup [faire : {"envoyer", "attendre"}, quoi : Requetes]
I(faire) == [faire |-> faire, quoi |-> ""]
Envoyer(r) == [faire |-> "envoyer", quoi |-> r]

\* requestData of webSocket.cpp: a request, then the wait for its reply.
requestData(r) == <<Envoyer(r), [faire |-> "attendre", quoi |-> r]>>

\* Variant: the wait comes before the request.
nextMealInverse == <<I("lire"), [faire |-> "attendre", quoi |-> "nextMeal"],
                     Envoyer("nextMeal")>>
nextMeal == <<I("lire")>> \o requestData("nextMeal")
\* Variant: the menu is drawn and its next meal left blank.
mainMenuSansRepas == <<I("image")>>
mainMenu == <<I("image")>> \o nextMeal
setup == <<I("connecter")>> \o mainMenu \o nextMeal
loop == <<I("lire"), I("clavier")>>

\* traitementClavier: what each menu goes through, given up or not.
traitementAjout ==
  {<<I("saisir")>> \o mainMenu,
   <<I("saisir")>> \o mainMenu \o mainMenu,
   <<I("saisir"), Envoyer("addMeal")>> \o mainMenu}
afficherMenu == <<I("image")>> \o requestData("requestData")
traitementSuppression ==
  {afficherMenu \o <<I("saisir")>> \o mainMenu,
   afficherMenu \o <<I("saisir"), Envoyer("deleteMeal")>> \o mainMenu}
traitementUpdate ==
  {<<I("image"), I("saisir")>> \o mainMenu,
   <<I("image"), I("saisir"), I("confirmer"), I("saisir"), Envoyer("update")>>}
traitementModification ==
  {afficherMenu \o <<I("saisir")>> \o suite \o mainMenu :
     suite \in traitementUpdate \cup {<<>>}}
traitementDistribution ==
  {<<I("saisir")>> \o mainMenu, <<I("saisir"), Envoyer("eatNow")>> \o mainMenu}
traitementAppairage == {<<I("saisir")>> \o mainMenu}

traitementClavier(touche) ==
  CASE touche = "A" -> traitementAjout
    [] touche = "B" -> traitementSuppression
    [] touche = "C" -> traitementModification
    [] touche = "D" -> traitementDistribution
    [] touche = "*" -> traitementAppairage

Init ==
  /\ reste = setup
  /\ lien = FALSE /\ entrants = <<>> /\ demandes = <<>>
  /\ relie = FALSE /\ prochain = 0 /\ ordres = 0
  /\ affiche = Nul /\ servis = 0
  /\ coupures = 0

------------------------------------------------------------------------------
(* The bowl. *)

Courante(faire) == reste # <<>> /\ Head(reste).faire = faire
Suivante == reste' = Tail(reste)

\* initSocket, from setup or from checkConnection, which only sendMessage and
\* waitMessage call.  What was sent on the previous socket is lost.
initSocket ==
  /\ ~lien
  /\ \E faire \in {"connecter", "envoyer", "attendre"} : Courante(faire)
  /\ lien' = TRUE
  /\ reste' = IF Courante("connecter") THEN Tail(reste) ELSE reste
  /\ UNCHANGED <<entrants, demandes, service, affiche, servis, coupures>>

Boucler ==
  /\ reste = <<>>
  /\ reste' = loop
  /\ UNCHANGED <<reseau, service, affiche, servis, coupures>>

\* A full screen bitmap: what was written on it is erased.
afficherImage ==
  /\ Courante("image") \/ Courante("saisir")
  /\ affiche' = Nul
  /\ Suivante
  /\ UNCHANGED <<reseau, service, servis, coupures>>

\* Variant: the message is read and stays in the buffer.
checkMessageSansRetrait ==
  /\ Courante("lire")
  /\ Suivante
  /\ servis' = IF entrants # <<>> /\ Head(entrants).action = "eatNow"
               THEN servis + 1 ELSE servis
  /\ UNCHANGED <<lien, entrants, demandes, affiche, service, coupures>>
\* checkMessage: at most one message, obeyed according to its action.
checkMessage ==
  /\ Courante("lire")
  /\ Suivante
  /\ IF entrants = <<>> THEN UNCHANGED <<entrants, affiche, servis>>
     ELSE LET m == Head(entrants)
          IN  /\ entrants' = Tail(entrants)
              /\ servis' = IF m.action = "eatNow" THEN servis + 1 ELSE servis
              /\ affiche' = IF m.action = "newNextMeal" THEN m.version ELSE affiche
  /\ UNCHANGED <<lien, demandes, service, coupures>>

checkKeypad ==
  /\ Courante("clavier")
  /\ \/ Suivante
     \/ \E touche \in Menus : reste' \in traitementClavier(touche)
  /\ UNCHANGED <<reseau, service, affiche, servis, coupures>>

\* The loop of traitementUpdate that waits for a key and nothing else.
Confirmer ==
  /\ Courante("confirmer")
  /\ Suivante
  /\ UNCHANGED <<reseau, service, affiche, servis, coupures>>

sendMessage ==
  /\ Courante("envoyer") /\ lien /\ Len(demandes) < MaxDemandes
  /\ demandes' = Append(demandes, Head(reste).quoi)
  /\ Suivante
  /\ UNCHANGED <<lien, entrants, service, affiche, servis, coupures>>

\* waitMessage: the next message, whatever it is, is taken for the reply;
\* nextMeal shows it, afficherMenu lists its meals.
waitMessage ==
  /\ Courante("attendre") /\ entrants # <<>>
  /\ LET m == Head(entrants)
     IN  affiche' = IF Head(reste).quoi # "nextMeal" THEN affiche
                    ELSE IF m.action = "newNextMeal" THEN m.version ELSE Nul
  /\ entrants' = Tail(entrants)
  /\ Suivante
  /\ UNCHANGED <<lien, demandes, service, servis, coupures>>

------------------------------------------------------------------------------
(* The server and the network. *)

\* Messages to a socket that was lost, or that has not spoken, do not arrive.
Pousser(messages) ==
  entrants' = IF relie /\ lien THEN entrants \o messages ELSE entrants

\* The server handles the next request: it answers on the socket it came from;
\* an operation that changes the next meal is followed by newNextMeal.
Repondre ==
  /\ demandes # <<>>
  /\ demandes' = Tail(demandes)
  /\ relie' = TRUE
  /\ LET r == Head(demandes)
     IN  \/ /\ r = "nextMeal" /\ prochain' = prochain
            /\ entrants' = Append(entrants, NouveauProchain(prochain))
         \/ /\ r = "requestData" /\ prochain' = prochain
            /\ entrants' = Append(entrants, Document)
         \/ /\ r = "addMeal" /\ prochain' = prochain
            /\ entrants' = Append(entrants, Document)
         \/ /\ r \in {"addMeal", "deleteMeal", "update", "eatNow"}
            /\ UNCHANGED <<prochain, entrants>>
         \/ /\ r \in {"addMeal", "deleteMeal", "update"} /\ prochain < MaxVersions
            /\ prochain' = prochain + 1
            /\ entrants' = Append(entrants, NouveauProchain(prochain'))
  /\ UNCHANGED <<lien, ordres, coupures, appareil>>

\* The web application changes the planning.
Changer ==
  /\ prochain < MaxVersions
  /\ prochain' = prochain + 1
  /\ Pousser(<<NouveauProchain(prochain')>>)
  /\ UNCHANGED <<lien, demandes, relie, ordres, coupures, appareil>>

\* distribution of the server: the minute of a meal comes, or the web
\* application asks for a portion; the next meal follows.
Ordonner ==
  /\ relie /\ lien /\ ordres < MaxOrdres
  /\ ordres' = ordres + 1
  /\ Pousser(<<EatNow, NouveauProchain(prochain)>>)
  /\ UNCHANGED <<lien, demandes, relie, prochain, coupures, appareil>>

Couper ==
  /\ lien /\ coupures < MaxCoupures
  /\ lien' = FALSE
  /\ entrants' = <<>> /\ demandes' = <<>>
  /\ relie' = FALSE
  /\ coupures' = coupures + 1
  /\ UNCHANGED <<prochain, ordres, appareil>>

------------------------------------------------------------------------------
Bol == \/ initSocket \/ Boucler \/ afficherImage \/ checkMessage \/ checkKeypad
       \/ sendMessage \/ waitMessage

Next == Bol \/ Confirmer \/ Repondre \/ Changer \/ Ordonner \/ Couper

\* The program runs (but for the loop that waits for a key, Confirmer), access
\* points come back and the server answers.  Nothing is assumed of the user.
Spec == Init /\ [][Next]_vars /\ WF_vars(Bol) /\ WF_vars(Repondre)

------------------------------------------------------------------------------
TypeOK ==
  /\ reste \in Seq(Instruction)
  /\ lien \in BOOLEAN /\ relie \in BOOLEAN
  /\ entrants \in Seq(Message) /\ demandes \in Seq(Requetes)
  /\ prochain \in 0..MaxVersions /\ affiche \in {Nul} \cup 0..MaxVersions
  /\ ordres \in 0..MaxOrdres /\ servis \in Nat
  /\ coupures \in 0..MaxCoupures

\* An order to serve is obeyed at most once, whatever is lost or mistaken for a
\* reply (checkMessage and waitMessage consume what they read, and what was on
\* its way when the link broke is not delivered by the next one).
EnRoute(messages) == {i \in 1..Len(messages) : messages[i].action = "eatNow"}
JamaisDeuxFois == servis + Cardinality(EnRoute(entrants)) <= ordres

\* A bowl that waits for a reply gets a message, as long as its link holds.
Attend == Courante("attendre")
AttenteFinie == Attend ~> (~Attend \/ coupures > 0)

\* Once the user leaves the bowl alone, the main menu ends up showing the next
\* meal of the planning for good, whatever messages were taken for the replies
\* of others, as long as the link held (nextMeal, showNextMeal, checkMessage).
Occupe == Courante("saisir") \/ Courante("confirmer")
AffichageAJour ==
  \A n \in 0..MaxVersions :
    <>[](prochain = n /\ ~Occupe) /\ [](coupures = 0) => <>[](affiche = n)

------------------------------------------------------------------------------
(* What comments of the code say, and it does not do. *)

\* webSocket.cpp:163: a wait goes on until the message comes, and survives the
\* loss of the connection.
AttenteToujoursFinie == Attend ~> ~Attend

\* traitement.js:324: distribution tells the bowl to serve, and it serves.
PortionsServies ==
  \A n \in 1..MaxOrdres :
    ordres = n ~> (servis = n \/ coupures > 0 \/ Courante("confirmer"))
=============================================================================
