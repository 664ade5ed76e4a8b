------------------------------ MODULE Clavier ------------------------------
(***************************************************************************)
(* The menus of the bowl, key by key: the loops of src/Gamelle/src/        *)
(* traitement.cpp that read the keypad every 20 ms and give up after       *)
(* Patience turns.  One action is one turn of the loop that runs, with all *)
(* that follows it up to the next read.                                    *)
(*                                                                         *)
(* Two locals are read before they are written: chiffre[0] of getPoids     *)
(* when A comes first, and minutes of checkMinute.  Their values are in    *)
(* Octets and Entiers.  On the board of platformio.ini a char is unsigned. *)
(* The screen and the messages received meanwhile are in module Gamelle;   *)
(* the list of meals is left out, a meal is the number typed for it.       *)
(* A definition marked "Variant" is no part of the model: it is what its   *)
(* neighbour would be with a mistake the properties must notice.           *)
(***************************************************************************)
EXTENDS Integers, Sequences

CONSTANTS
  Patience,   \* turns before a loop gives up: 9999
  Chiffres,   \* the digits the user may type
  Octets,     \* what an uninitialised char may hold
  Entiers     \* what an uninitialised int may hold

ASSUME ConstantesAssumption ==
  /\ Patience \in Nat \ {0}
  /\ Chiffres \subseteq 0..9
  /\ Octets \subseteq 0..255
  /\ Entiers \subseteq Int

Aucune == -1
A == 10
B == 11
C == 12
D == 13
Etoile == 14
Touches == Chiffres \cup {Aucune, A, B, C, D, Etoile}
Menus == {"ajout", "suppression", "modification", "distribution", "appairage"}

Inchange == -2     \* traitementUpdate: the weight of the meal as it was
Illisible == <<-1>> \* the string "-1" of getHeure
InchangeH == <<>>
MaxPoids == 300

VARIABLES
  menu,    \* the menu that runs, "" in loop()
  etape,   \* the loop that reads the keypad
  boucle,  \* its locals: tours (compteur), n (digits read), valeur, puissance
  tape,    \* the digits typed since the menu was entered, by loop
  poids, heure, \* the locals of the caller
  essais,  \* compteur of traitementDistribution
  envoi,   \* the request the last menu sent, Rien: none
  actif    \* was a key pressed in the last turn?

vars == <<menu, etape, boucle, tape, poids, heure, essais, envoi, actif>>

Etapes == {"veille", "getPoids", "checkHeure", "checkMinute", "getMenu",
           "choisir", "confirmer", "appairage"}
Requete(action, repas, p, h) ==
  [action |-> action, repas |-> repas, poids |-> p, heure |-> h]
Rien == Requete("", 0, 0, InchangeH)

PasDeBoucle == [tours |-> 0, n |-> 0, valeur |-> 0, puissance |-> 10]
Vierge == [getPoids |-> <<>>, checkHeure |-> <<>>, getMenu |-> <<>>]

Init ==
  /\ menu = "" /\ etape = "veille" /\ envoi = Rien /\ actif = FALSE
  /\ boucle = PasDeBoucle /\ tape = Vierge
  /\ poids = 0 /\ heure = InchangeH /\ essais = 0

------------------------------------------------------------------------------
tour == boucle.tours + 1
Epuise == tour = Patience

\* One more turn of the loop, with b for its other locals.
Encore(b) ==
  /\ boucle' = [b EXCEPT !.tours = tour]
  /\ UNCHANGED <<menu, etape, poids, heure, essais, envoi>>

\* The next loop starts; minutes is not initialised.
Entrer(e) ==
  /\ etape' = e
  /\ boucle' \in [tours : {0}, n : {0}, puissance : {10},
                  valeur : IF e = "checkMinute" THEN Entiers ELSE {0}]
  /\ UNCHANGED <<menu, envoi>>

\* Back to loop(), a request sent or not.
Rentrer(r) ==
  /\ menu' = "" /\ etape' = "veille" /\ boucle' = PasDeBoucle
  /\ envoi' = r
  /\ poids' = 0 /\ heure' = InchangeH /\ essais' = 0

Taper(t, b) ==
  [b EXCEPT !.valeur = @ + t * b.puissance, !.puissance = @ \div 10, !.n = @ + 1]
\* What was typed, and the key just read.
Suivis(s, t) == IF t \in Chiffres THEN Append(s, t) ELSE s

------------------------------------------------------------------------------
\* checkKeypad and traitementClavier.
traitementClavier(t) ==
  /\ etape = "veille"
  /\ \/ /\ t \notin {A, B, C, D, Etoile}
        /\ UNCHANGED <<menu, etape, boucle, tape, poids, heure, essais, envoi>>
     \/ /\ \/ t = A /\ menu' = "ajout" /\ etape' = "getPoids"
           \/ t = B /\ menu' = "suppression" /\ etape' = "getMenu"
           \/ t = C /\ menu' = "modification" /\ etape' = "getMenu"
           \/ t = D /\ menu' = "distribution" /\ etape' = "getPoids"
           \/ t = Etoile /\ menu' = "appairage" /\ etape' = "appairage"
        /\ essais' = IF t = D THEN 1 ELSE 0
        /\ boucle' = PasDeBoucle /\ tape' = Vierge /\ envoi' = Rien
        /\ UNCHANGED <<poids, heure>>

\* getPoids weighs each digit by its place, but when there is only one.
tabDizaine == <<1, 10, 100>>
Valeur(chiffre) ==
  IF Len(chiffre) = 1 THEN chiffre[1]
  ELSE IF Len(chiffre) = 2
  THEN chiffre[1] * tabDizaine[2] + chiffre[2] * tabDizaine[1]
  ELSE chiffre[1] * tabDizaine[3] + chiffre[2] * tabDizaine[2]
       + chiffre[3] * tabDizaine[1]

\* What getPoids returns once its loop is over.
PoidsLus(t, chiffre) ==
  IF t = B \/ Epuise THEN {-1}
  ELSE IF Len(chiffre) = 0 THEN Octets
  ELSE {Valeur(chiffre)}

\* Variant: the limit is compared with tenths of a gram.
TropLourdDixiemes(p) == p > 10 * MaxPoids
TropLourd(p) == p > MaxPoids

\* What each menu does with the weight.
ApresPoids(p, chiffre) ==
  \/ /\ menu = "ajout" /\ TropLourd(p)
     /\ Entrer("getPoids") /\ tape' = Vierge
     /\ UNCHANGED <<poids, heure, essais>>
  \/ /\ menu = "ajout" /\ p # -1 /\ ~TropLourd(p)
     /\ poids' = p
     /\ Entrer("checkHeure") /\ tape' = [tape EXCEPT !.getPoids = chiffre]
     /\ UNCHANGED <<heure, essais>>
  \/ /\ menu = "distribution" /\ TropLourd(p) /\ essais < Patience
     /\ essais' = essais + 1
     /\ Entrer("getPoids") /\ tape' = Vierge
     /\ UNCHANGED <<poids, heure>>
  \/ /\ menu = "distribution" /\ p # -1 /\ ~TropLourd(p) /\ essais < Patience
     /\ Rentrer(Requete("eatNow", 0, p, InchangeH))
     /\ tape' = [tape EXCEPT !.getPoids = chiffre]
  \/ /\ \/ menu = "ajout" /\ p = -1
        \/ menu = "distribution" /\ (p = -1 \/ essais = Patience)
     /\ Rentrer(Rien) /\ tape' = Vierge
  \/ /\ menu = "modification"
     /\ Rentrer(Requete("update", tape.getMenu[1], p, InchangeH))
     /\ tape' = [tape EXCEPT !.getPoids = chiffre]

getPoids(t) ==
  /\ etape = "getPoids"
  /\ LET chiffre == Suivis(tape.getPoids, t)
         fini == t \in {A, B} \/ Len(chiffre) = 3 \/ Epuise
     IN  \/ /\ ~fini
            /\ Encore(boucle) /\ tape' = [tape EXCEPT !.getPoids = chiffre]
         \/ /\ fini
            /\ \E p \in PoidsLus(t, chiffre) : ApresPoids(p, chiffre)

\* getHeure returns an hour, or "-1", which only traitementAjout tests.
ApresHeure(h) ==
  \/ menu = "modification" /\ Rentrer(Requete("update", tape.getMenu[1], Inchange, h))
  \/ menu = "ajout" /\ Rentrer(Requete("addMeal", 0, poids, h))
SansHeure ==
  \/ menu = "modification" /\ Rentrer(Requete("update", tape.getMenu[1], Inchange, Illisible))
  \/ menu = "ajout" /\ Rentrer(Rien)

\* Variant: as in checkMinute, the power of ten is not set back.
HeureRefuseeSansPuissance(b) == [b EXCEPT !.n = 0, !.valeur = 0]
\* Variant: the digits read are not forgotten.
HeureRefuseeSansCompte(b) == [b EXCEPT !.valeur = 0, !.puissance = 10]
HeureRefusee(b) == [PasDeBoucle EXCEPT !.tours = b.tours]

checkHeure(t) ==
  /\ etape = "checkHeure"
  /\ tape' = [tape EXCEPT !.checkHeure = Suivis(@, t)]
  /\ LET b == IF t \in Chiffres THEN Taper(t, boucle) ELSE boucle
         deux == t \in Chiffres /\ b.n = 2
     IN  \/ /\ t = B \/ Epuise
            /\ SansHeure
         \/ /\ t # B /\ ~Epuise /\ ~deux
            /\ Encore(b)
         \/ /\ ~Epuise /\ deux /\ b.valeur >= 24
            /\ Encore(HeureRefusee(b))
         \/ /\ ~Epuise /\ deux /\ b.valeur < 24
            /\ Entrer("checkMinute")
            /\ heure' = <<b.valeur>> /\ UNCHANGED <<poids, essais>>

MinutesRefusees(b) == b.valeur >= 60

checkMinute(t) ==
  /\ etape = "checkMinute"
  /\ UNCHANGED tape
  /\ LET b == IF t \in Chiffres THEN Taper(t, boucle) ELSE boucle
         deux == t \in Chiffres /\ b.n = 2
     IN  \/ /\ t = B \/ Epuise
            /\ SansHeure
         \/ /\ t # B /\ ~Epuise /\ ~deux
            /\ Encore(b)
         \/ /\ ~Epuise /\ deux /\ MinutesRefusees(b)
            /\ Encore([tours |-> b.tours, n |-> 0, valeur |-> 0, puissance |-> b.puissance])
         \/ /\ ~Epuise /\ deux /\ ~MinutesRefusees(b) /\ b.valeur = -1
            /\ SansHeure
         \/ /\ ~Epuise /\ deux /\ ~MinutesRefusees(b) /\ b.valeur # -1
            /\ ApresHeure(<<heure[1], b.valeur>>)

\* The number of a meal, and what traitementUpdateDelete does with it.
getMenu(t) ==
  /\ etape = "getMenu"
  /\ tape' = [tape EXCEPT !.getMenu = Suivis(@, t)]
  /\ \/ /\ t \in Chiffres /\ menu = "suppression"
        /\ Rentrer(Requete("deleteMeal", t, Inchange, InchangeH))
     \/ /\ t \in Chiffres /\ menu = "modification"
        /\ Entrer("choisir") /\ UNCHANGED <<poids, heure, essais>>
     \/ /\ t \notin Chiffres /\ (t = B \/ Epuise)
        /\ Rentrer(Rien)
     \/ /\ t \notin Chiffres \cup {B} /\ ~Epuise
        /\ Encore(boucle)

\* traitementUpdate, first loop.  Its time over, input is (char) -1, that is 255:
\* the test against -1 that follows is of no effect, even for a last B.
choisir(t) ==
  /\ etape = "choisir"
  /\ UNCHANGED tape
  /\ \/ /\ t \in {C, D} \/ Epuise
        /\ Entrer("confirmer") /\ UNCHANGED <<poids, heure, essais>>
     \/ /\ t = B /\ ~Epuise
        /\ Rentrer(Rien)
     \/ /\ t \notin {B, C, D} /\ ~Epuise
        /\ Encore(boucle)

\* Second loop: C or D once more, without any limit of time.
confirmer(t) ==
  /\ etape = "confirmer"
  /\ UNCHANGED tape
  /\ \/ t = D /\ Entrer("getPoids") /\ UNCHANGED <<poids, heure, essais>>
     \/ t = C /\ Entrer("checkHeure") /\ UNCHANGED <<poids, heure, essais>>
     \/ /\ t \notin {C, D}
        /\ UNCHANGED <<menu, etape, boucle, poids, heure, essais, envoi>>

\* Variant: the turns are not counted.
AppairageSansFin(t) ==
  /\ etape = "appairage"
  /\ UNCHANGED tape
  /\ \/ t = B /\ Rentrer(Rien)
     \/ t # B /\ UNCHANGED <<menu, etape, boucle, poids, heure, essais, envoi>>
traitementAppairage(t) ==
  /\ etape = "appairage"
  /\ UNCHANGED tape
  /\ \/ (t = B \/ Epuise) /\ Rentrer(Rien)
     \/ t # B /\ ~Epuise /\ Encore(boucle)

------------------------------------------------------------------------------
Tour(t) ==
  /\ actif' = (t # Aucune)
  /\ \/ traitementClavier(t) \/ getPoids(t) \/ checkHeure(t) \/ checkMinute(t)
     \/ getMenu(t) \/ choisir(t) \/ confirmer(t) \/ traitementAppairage(t)

Next == \E t \in Touches : Tour(t)

\* The loop that runs goes on by itself.  Nothing is assumed of the user, not even
\* a key some day: fairness is that of a turn which reads none.
Spec == Init /\ [][Next]_vars /\ WF_vars(Tour(Aucune))

------------------------------------------------------------------------------
Tapes == [getPoids : Seq(Chiffres), checkHeure : Seq(Chiffres), getMenu : Seq(Chiffres)]
TypeOK ==
  /\ menu \in Menus \cup {""} /\ etape \in Etapes
  /\ boucle \in [tours : 0..(Patience - 1), n : 0..1, valeur : Int, puissance : {0, 1, 10}]
  /\ tape \in Tapes
  /\ poids \in Nat
  /\ heure \in {InchangeH} \cup {<<h>> : h \in 0..23}
  /\ essais \in 0..Patience
  /\ envoi.action \in {"", "addMeal", "deleteMeal", "update", "eatNow"}
  /\ actif \in BOOLEAN

\* A number of at most three digits as it reads, and the last two digits typed.
Nombre(s) == IF Len(s) = 1 THEN s[1]
             ELSE IF Len(s) = 2 THEN 10 * s[1] + s[2]
             ELSE 10 * (10 * s[1] + s[2]) + s[3]
DeuxDerniers(s) == 10 * s[Len(s) - 1] + s[Len(s)]

\* A new meal or a portion served now weighs what was typed, and at most 300 g,
\* even when nothing was typed (getPoids, traitementAjout, traitementDistribution).
PoidsFidele ==
  envoi.action \in {"addMeal", "eatNow"} =>
    /\ envoi.poids \in 0..MaxPoids
    /\ tape.getPoids # <<>> => envoi.poids = Nombre(tape.getPoids)

\* An hour that is sent is the last one typed and a real one, whatever was typed
\* and refused before; its minutes are below 60, whatever they started from
\* (checkHeure, checkMinute).
HeureFidele ==
  Len(envoi.heure) = 2 => /\ envoi.heure[1] \in 0..23
                          /\ envoi.heure[1] = DeuxDerniers(tape.checkHeure)
                          /\ envoi.heure[2] < 60

\* A menu the user leaves goes back to loop(), where messages are read, but from
\* the second loop of traitementUpdate.
MenuAbandonne == <>[]~actif => <>[](etape \in {"veille", "confirmer"})
=============================================================================
