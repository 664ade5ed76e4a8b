--------------------------- MODULE ClavierPreuves --------------------------
(***************************************************************************)
(* Proofs about the keypad menus, for every patience, every keypad and     *)
(* every value of the variables that are read before they are written.     *)
(***************************************************************************)
EXTENDS Clavier, TLAPS

------------------------------------------------------------------------------
(* The inductive invariant. *)

\* A request is sent on the way back to loop() and forgotten by the next menu.
SansEnvoi == etape # "veille" => envoi = Rien

\* getPoids has room for a digit.
AvantPoids == {"getPoids", "getMenu", "choisir", "confirmer"}
PlacePoids == etape \in AvantPoids => Len(tape.getPoids) \in 0..2

\* traitementAjout keeps a weight that is typed and allowed while it asks the hour.
Typee(p) == /\ p \in 0..MaxPoids
            /\ tape.getPoids # <<>> => p = Nombre(tape.getPoids)
PoidsGarde == menu = "ajout" /\ etape \in {"checkHeure", "checkMinute"} => Typee(poids)

\* checkHeure: the power of ten says how many digits count.
Dizaine == Len(tape.checkHeure) > 0
           /\ boucle.valeur = 10 * tape.checkHeure[Len(tape.checkHeure)]
HeureEnCours ==
  etape = "checkHeure" =>
    \/ boucle.n = 0 /\ boucle.puissance = 10 /\ boucle.valeur = 0
    \/ boucle.n = 1 /\ boucle.puissance = 1 /\ Dizaine

\* checkMinute: the hour is the last one typed.
HeureGardee ==
  etape = "checkMinute" =>
    \E h \in 0..23 : heure = <<h>> /\ h = DeuxDerniers(tape.checkHeure)

\* The choice of a weight or an hour is no part of traitementAjout.
Choix == etape \in {"choisir", "confirmer"} => menu # "ajout"

Invariant == /\ TypeOK /\ SansEnvoi /\ PlacePoids /\ PoidsGarde /\ HeureEnCours
             /\ HeureGardee /\ Choix /\ PoidsFidele /\ HeureFidele

------------------------------------------------------------------------------
(* The operators. *)

\* Weighing the digits by their place gives the number they read as.
LEMMA ValeurNombre ==
  ASSUME NEW c \in Seq(Chiffres), Len(c) \in 1..3
  PROVE  Valeur(c) = Nombre(c) /\ Valeur(c) \in Nat
<1>0. Chiffres \subseteq 0..9
  BY ConstantesAssumption
<1>1. \A i \in 1..Len(c) : c[i] \in 0..9
  <2> TAKE i \in 1..Len(c)
  <2>1. c[i] \in Chiffres
    OBVIOUS
  <2> QED BY <1>0, <2>1
<1>2. tabDizaine[1] = 1 /\ tabDizaine[2] = 10 /\ tabDizaine[3] = 100
  BY DEF tabDizaine
<1>3. CASE Len(c) = 1
  BY <1>1, <1>2, <1>3 DEF Valeur, Nombre
<1>4. CASE Len(c) = 2
  BY <1>1, <1>2, <1>4 DEF Valeur, Nombre
<1>5. CASE Len(c) = 3
  <2>1. Valeur(c) = c[1] * 100 + c[2] * 10 + c[3] * 1
    BY <1>2, <1>5 DEF Valeur
  <2>2. Nombre(c) = 10 * (10 * c[1] + c[2]) + c[3]
    BY <1>5 DEF Nombre
  <2>3. c[1] \in 0..9 /\ c[2] \in 0..9 /\ c[3] \in 0..9
    BY <1>1, <1>5
  <2>4. \A x, y, z \in 0..9 : /\ x * 100 + y * 10 + z * 1 = 10 * (10 * x + y) + z
                              /\ 10 * (10 * x + y) + z \in Nat
    OBVIOUS
  <2>5. /\ c[1] * 100 + c[2] * 10 + c[3] * 1 = 10 * (10 * c[1] + c[2]) + c[3]
        /\ 10 * (10 * c[1] + c[2]) + c[3] \in Nat
    BY <2>3, <2>4, Zenon
  <2> QED BY <2>1, <2>2, <2>5, Zenon
<1> QED BY <1>3, <1>4, <1>5

\* What getPoids returns: -1, or a weight that reads as typed.
LEMMA PoidsLusType ==
  ASSUME NEW t \in Touches, NEW c \in Seq(Chiffres), Len(c) \in 0..3,
         NEW p \in PoidsLus(t, c)
  PROVE  p = -1 \/ (p \in Nat /\ (c # <<>> => p = Nombre(c)))
<1>1. CASE t = B \/ Epuise
  BY <1>1 DEF PoidsLus
<1>2. CASE ~(t = B \/ Epuise) /\ Len(c) = 0
  BY <1>2, ConstantesAssumption DEF PoidsLus
<1>3. CASE ~(t = B \/ Epuise) /\ Len(c) # 0
  <2>1. p = Valeur(c)
    BY <1>3 DEF PoidsLus
  <2> QED BY <1>3, <2>1, ValeurNombre
<1> QED BY <1>1, <1>2, <1>3

\* A key adds at most its digit to what was typed.
LEMMA SuivisType ==
  ASSUME NEW s \in Seq(Chiffres), NEW t \in Touches
  PROVE  /\ Suivis(s, t) \in Seq(Chiffres)
         /\ Len(Suivis(s, t)) \in {Len(s), Len(s) + 1}
         /\ t \in Chiffres => Len(Suivis(s, t)) > 0 /\ Suivis(s, t)[Len(Suivis(s, t))] = t
         /\ t \in Chiffres /\ Len(s) > 0 =>
              Suivis(s, t)[Len(Suivis(s, t)) - 1] = s[Len(s)]
<1>1. CASE t \in Chiffres
  <2>1. Suivis(s, t) = Append(s, t)
    BY <1>1 DEF Suivis
  <2> QED BY <1>1, <2>1
<1>2. CASE t \notin Chiffres
  BY <1>2 DEF Suivis
<1> QED BY <1>1, <1>2

------------------------------------------------------------------------------
(* The steps. *)

LEMMA PatiencePositive == Patience \in Nat /\ 0 \in 0..(Patience - 1) /\ 1 \in 0..Patience
BY ConstantesAssumption

\* The empty request.
LEMMA RienChamps == Rien.action \notin {"addMeal", "eatNow"} /\ Len(Rien.heure) # 2
<1>1. Rien.action = "" /\ Rien.heure = <<>>
  BY DEF Rien, Requete, InchangeH
<1>2. Len(<<>>) # 2
  OBVIOUS
<1> QED BY <1>1, <1>2

LEMMA InitInvariant == Init => Invariant
<1> SUFFICES ASSUME Init PROVE Invariant
  OBVIOUS
<1>1. TypeOK
  <2>0. boucle = PasDeBoucle /\ tape = Vierge /\ essais = 0
    BY DEF Init
  <2>1. boucle \in [tours : 0..(Patience - 1), n : 0..1, valeur : Int, puissance : {0, 1, 10}]
    BY <2>0, PatiencePositive DEF PasDeBoucle
  <2>2. tape \in Tapes
    BY <2>0 DEF Vierge, Tapes
  <2>3. essais \in 0..Patience
    BY <2>0, PatiencePositive
  <2>4. envoi.action = ""
    BY DEF Init, Rien, Requete
  <2> QED BY <2>1, <2>2, <2>3, <2>4 DEF Init, TypeOK, Menus, Etapes
<1>2. SansEnvoi /\ PlacePoids /\ PoidsGarde /\ HeureEnCours /\ HeureGardee /\ Choix
  BY DEF Init, SansEnvoi, PlacePoids, AvantPoids, PoidsGarde, HeureEnCours, HeureGardee, Choix
<1>3. PoidsFidele /\ HeureFidele
  <2>1. envoi = Rien
    BY DEF Init
  <2> QED BY <2>1, RienChamps, Zenon DEF PoidsFidele, HeureFidele
<1> QED BY <1>1, <1>2, <1>3 DEF Invariant

\* No request, nothing to be faithful to.
LEMMA RienFidele == envoi' = Rien => PoidsFidele' /\ HeureFidele'
<1> SUFFICES ASSUME envoi' = Rien PROVE PoidsFidele' /\ HeureFidele'
  OBVIOUS
<1> QED BY RienChamps, Zenon DEF PoidsFidele, HeureFidele

\* Back in loop(), only the request matters.
Actions == {"", "addMeal", "deleteMeal", "update", "eatNow"}
LEMMA RentrerInvariant ==
  ASSUME NEW r, Rentrer(r), r.action \in Actions, tape' \in Tapes, actif' \in BOOLEAN,
         PoidsFidele', HeureFidele'
  PROVE  Invariant'
<1>1. TypeOK'
  <2>0. boucle' = PasDeBoucle /\ essais' = 0
    BY DEF Rentrer
  <2>1. boucle' \in [tours : 0..(Patience - 1), n : 0..1, valeur : Int, puissance : {0, 1, 10}]
    BY <2>0, PatiencePositive DEF PasDeBoucle
  <2>2. essais' \in 0..Patience
    BY <2>0, PatiencePositive
  <2> QED BY <2>1, <2>2 DEF Rentrer, TypeOK, Actions, Menus, Etapes
<1>2. (SansEnvoi /\ PlacePoids /\ PoidsGarde /\ HeureEnCours /\ HeureGardee /\ Choix)'
  BY DEF Rentrer, SansEnvoi, PlacePoids, AvantPoids, PoidsGarde, HeureEnCours, HeureGardee, Choix
<1> QED BY <1>1, <1>2 DEF Invariant

\* A loop that starts.
LEMMA EntrerInvariant ==
  ASSUME Invariant, NEW e \in Etapes \ {"veille", "checkMinute"}, Entrer(e), etape # "veille",
         tape' \in Tapes, actif' \in BOOLEAN, poids' \in Nat, essais' \in 0..Patience,
         heure' \in {InchangeH} \cup {<<h>> : h \in 0..23},
         PlacePoids', PoidsGarde', Choix'
  PROVE  Invariant'
<1>1. /\ etape' = e /\ menu' = menu /\ envoi' = envoi
      /\ boucle' = [tours |-> 0, n |-> 0, puissance |-> 10, valeur |-> 0]
  BY DEF Entrer
<1>2. TypeOK'
  <2>1. boucle' \in [tours : 0..(Patience - 1), n : 0..1, valeur : Int, puissance : {0, 1, 10}]
    BY <1>1, PatiencePositive
  <2> QED BY <1>1, <2>1 DEF Invariant, TypeOK
<1>3. envoi' = Rien
  BY <1>1 DEF Invariant, SansEnvoi
<1>4. (SansEnvoi /\ HeureEnCours /\ HeureGardee)'
  BY <1>1, <1>3 DEF SansEnvoi, HeureEnCours, HeureGardee
<1> QED BY <1>2, <1>3, <1>4, RienFidele DEF Invariant

\* The same, for checkMinute, where minutes may be anything.
LEMMA EntrerMinute ==
  ASSUME Invariant, Entrer("checkMinute"), etape = "checkHeure", NEW h \in 0..23,
         tape' \in Tapes, tape'.getPoids = tape.getPoids, actif' \in BOOLEAN,
         UNCHANGED <<poids, essais>>, heure' = <<h>>, HeureGardee'
  PROVE  Invariant'
<1>1. /\ etape' = "checkMinute" /\ menu' = menu /\ envoi' = envoi
      /\ boucle' \in [tours : {0}, n : {0}, puissance : {10}, valeur : Entiers]
  BY DEF Entrer
<1>2. boucle' \in [tours : 0..(Patience - 1), n : 0..1, valeur : Int, puissance : {0, 1, 10}]
  <2>1. PICK v \in Entiers :
          boucle' = [tours |-> 0, n |-> 0, puissance |-> 10, valeur |-> v]
    BY <1>1
  <2>2. v \in Int
    BY ConstantesAssumption
  <2> QED BY <2>1, <2>2, PatiencePositive
<1>3. TypeOK'
  BY <1>1, <1>2 DEF Invariant, TypeOK, Etapes
<1>4. envoi' = Rien
  BY <1>1 DEF Invariant, SansEnvoi
<1>5. (SansEnvoi /\ PlacePoids /\ HeureEnCours /\ Choix)'
  BY <1>1, <1>4 DEF SansEnvoi, PlacePoids, AvantPoids, HeureEnCours, Choix
<1>6. PoidsGarde'
  BY <1>1 DEF Invariant, PoidsGarde, Typee
<1> QED BY <1>3, <1>4, <1>5, <1>6, RienFidele DEF Invariant

\* One more turn of a loop.
LEMMA EncoreInvariant ==
  ASSUME Invariant, NEW b, Encore(b), ~Epuise, etape # "veille", actif' \in BOOLEAN,
         b \in [tours : 0..(Patience - 1), n : 0..1, valeur : Int, puissance : {0, 1, 10}],
         tape' \in Tapes, PlacePoids', PoidsGarde', HeureEnCours', HeureGardee'
  PROVE  Invariant'
<1>1. /\ etape' = etape /\ menu' = menu /\ envoi' = envoi /\ poids' = poids
      /\ heure' = heure /\ essais' = essais
      /\ boucle' = [b EXCEPT !.tours = boucle.tours + 1]
  BY DEF Encore, tour
<1>2. boucle.tours + 1 \in 0..(Patience - 1)
  <2>1. boucle.tours \in 0..(Patience - 1)
    BY DEF Invariant, TypeOK
  <2>2. boucle.tours + 1 # Patience
    BY DEF Epuise, tour
  <2> QED BY <2>1, <2>2, PatiencePositive
<1>3. TypeOK'
  BY <1>1, <1>2 DEF Invariant, TypeOK
<1>4. envoi' = Rien
  BY <1>1 DEF Invariant, SansEnvoi
<1>5. (SansEnvoi /\ Choix)'
  BY <1>1, <1>4 DEF Invariant, SansEnvoi, Choix
<1> QED BY <1>3, <1>4, <1>5, RienFidele DEF Invariant

LEMMA ViergeType == Vierge \in Tapes /\ Len(Vierge.getPoids) \in 0..2
BY DEF Vierge, Tapes

\* Back in loop() without a request.
LEMMA RentrerSansEnvoi ==
  ASSUME Rentrer(Rien), tape' \in Tapes, actif' \in BOOLEAN
  PROVE  Invariant'
<1>1. Rien.action \in Actions
  BY DEF Rien, Requete, Actions
<1>2. PoidsFidele' /\ HeureFidele'
  BY RienFidele DEF Rentrer
<1> QED BY <1>1, <1>2, RentrerInvariant

\* A request that carries neither a weight that is bounded nor an hour.
LEMMA RentrerSansHeure ==
  ASSUME NEW r, Rentrer(r), tape' \in Tapes, actif' \in BOOLEAN,
         r.action \in {"deleteMeal", "update"}, r.heure \in {InchangeH, Illisible}
  PROVE  Invariant'
<1>1. r.action \in Actions /\ r.action \notin {"addMeal", "eatNow"}
  BY DEF Actions
<1>2. Len(r.heure) # 2
  BY DEF InchangeH, Illisible
<1>3. envoi' = r
  BY DEF Rentrer
<1>4. PoidsFidele' /\ HeureFidele'
  BY <1>1, <1>2, <1>3, Zenon DEF PoidsFidele, HeureFidele
<1> QED BY <1>1, <1>4, RentrerInvariant

\* A turn in which nothing happens.
LEMMA ImmobileInvariant ==
  ASSUME Invariant, UNCHANGED <<menu, etape, boucle, tape, poids, heure, essais, envoi>>,
         actif' \in BOOLEAN
  PROVE  Invariant'
<1>1. TypeOK'
  BY DEF Invariant, TypeOK
<1>2. (SansEnvoi /\ PlacePoids /\ PoidsGarde /\ HeureEnCours /\ HeureGardee /\ Choix)'
  BY DEF Invariant, SansEnvoi, PlacePoids, PoidsGarde, Typee, HeureEnCours, Dizaine,
         HeureGardee, Choix
<1>3. (PoidsFidele /\ HeureFidele)'
  BY DEF Invariant, PoidsFidele, HeureFidele
<1> QED BY <1>1, <1>2, <1>3 DEF Invariant

LEMMA VeilleInvariant ==
  ASSUME Invariant, NEW t \in Touches, traitementClavier(t), actif' \in BOOLEAN
  PROVE  Invariant'
<1>1. CASE UNCHANGED <<menu, etape, boucle, tape, poids, heure, essais, envoi>>
  BY <1>1, ImmobileInvariant
<1>2. CASE /\ menu' \in Menus /\ etape' \in {"getPoids", "getMenu", "appairage"}
           /\ essais' \in {0, 1} /\ boucle' = PasDeBoucle /\ tape' = Vierge /\ envoi' = Rien
           /\ UNCHANGED <<poids, heure>>
  <2>1. boucle' \in [tours : 0..(Patience - 1), n : 0..1, valeur : Int, puissance : {0, 1, 10}]
    BY <1>2, PatiencePositive DEF PasDeBoucle
  <2>2. essais' \in 0..Patience
    BY <1>2, PatiencePositive
  <2>3. envoi'.action = ""
    BY <1>2 DEF Rien, Requete
  <2>4. TypeOK'
    BY <1>2, <2>1, <2>2, <2>3, ViergeType DEF Invariant, TypeOK, Etapes
  <2>5. (SansEnvoi /\ PlacePoids /\ PoidsGarde /\ HeureEnCours /\ HeureGardee /\ Choix)'
    BY <1>2, ViergeType DEF SansEnvoi, PlacePoids, PoidsGarde, HeureEnCours, HeureGardee, Choix
  <2>6. (PoidsFidele /\ HeureFidele)'
    BY <1>2, RienFidele
  <2> QED BY <2>4, <2>5, <2>6 DEF Invariant
<1> QED BY <1>1, <1>2 DEF traitementClavier, Menus

\* What each menu does with what getPoids returns.
LEMMA ApresPoidsInvariant ==
  ASSUME Invariant, etape = "getPoids", actif' \in BOOLEAN,
         NEW c \in Seq(Chiffres), NEW p,
         p = -1 \/ (p \in Nat /\ (c # <<>> => p = Nombre(c))),
         ApresPoids(p, c)
  PROVE  Invariant'
<1> DEFINE garde == [tape EXCEPT !.getPoids = c]
<1>0. garde \in Tapes /\ garde.getPoids = c
  BY DEF Invariant, TypeOK, Tapes
<1> HIDE DEF garde
<1>1. CASE /\ TropLourd(p) /\ Entrer("getPoids") /\ tape' = Vierge
           /\ essais' \in 0..Patience /\ UNCHANGED <<poids, heure>>
  <2>1. etape' = "getPoids"
    BY <1>1 DEF Entrer
  <2>2. PlacePoids' /\ PoidsGarde' /\ Choix'
    BY <1>1, <2>1, ViergeType DEF PlacePoids, PoidsGarde, Choix
  <2>3. "getPoids" \in Etapes \ {"veille", "checkMinute"}
    BY DEF Etapes
  <2>4. poids' \in Nat /\ heure' \in {InchangeH} \cup {<<h>> : h \in 0..23}
    BY <1>1 DEF Invariant, TypeOK
  <2> QED BY <1>1, <2>2, <2>3, <2>4, ViergeType, EntrerInvariant
<1>2. CASE /\ p # -1 /\ ~TropLourd(p) /\ poids' = p /\ Entrer("checkHeure") /\ tape' = garde
           /\ UNCHANGED <<heure, essais>>
  <2>1. etape' = "checkHeure"
    BY <1>2 DEF Entrer
  <2>2. p \in 0..MaxPoids /\ (c # <<>> => p = Nombre(c))
    <3>1. p \in Nat /\ (c # <<>> => p = Nombre(c))
      BY <1>2, Zenon
    <3>2. ~(p > 300)
      BY <1>2 DEF TropLourd, MaxPoids
    <3>3. p \in 0..MaxPoids
      BY <3>1, <3>2 DEF MaxPoids
    <3> QED BY <3>1, <3>3
  <2>3. PlacePoids' /\ PoidsGarde' /\ Choix'
    BY <1>0, <1>2, <2>1, <2>2 DEF PlacePoids, AvantPoids, PoidsGarde, Typee, Choix
  <2>4. "checkHeure" \in Etapes \ {"veille", "checkMinute"}
    BY DEF Etapes
  <2>5. /\ poids' \in Nat /\ heure' \in {InchangeH} \cup {<<h>> : h \in 0..23}
        /\ essais' \in 0..Patience
    BY <1>2, <2>2 DEF Invariant, TypeOK
  <2> QED BY <1>0, <1>2, <2>3, <2>4, <2>5, EntrerInvariant
<1>3. CASE /\ p # -1 /\ ~TropLourd(p) /\ Rentrer(Requete("eatNow", 0, p, InchangeH))
           /\ tape' = garde
  <2> DEFINE r == Requete("eatNow", 0, p, InchangeH)
  <2>1. r.action = "eatNow" /\ r.poids = p /\ r.heure = <<>>
    BY DEF Requete, InchangeH
  <2>2. Rentrer(r)
    BY <1>3
  <2> HIDE DEF r
  <2>3. envoi' = r
    BY <2>2 DEF Rentrer
  <2>4. p \in 0..MaxPoids /\ (c # <<>> => p = Nombre(c))
    <3>1. p \in Nat /\ (c # <<>> => p = Nombre(c))
      BY <1>3, Zenon
    <3>2. ~(p > 300)
      BY <1>3 DEF TropLourd, MaxPoids
    <3>3. p \in 0..MaxPoids
      BY <3>1, <3>2 DEF MaxPoids
    <3> QED BY <3>1, <3>3
  <2>5. PoidsFidele'
    BY <1>0, <1>3, <2>1, <2>3, <2>4 DEF PoidsFidele
  <2>6. Len(r.heure) # 2
    BY <2>1
  <2>7. HeureFidele'
    BY <2>3, <2>6, Zenon DEF HeureFidele
  <2>8. r.action \in Actions
    BY <2>1 DEF Actions
  <2> QED BY <1>0, <1>3, <2>2, <2>5, <2>7, <2>8, RentrerInvariant
<1>4. CASE Rentrer(Rien) /\ tape' = Vierge
  BY <1>4, ViergeType, RentrerSansEnvoi
<1>5. CASE Rentrer(Requete("update", tape.getMenu[1], p, InchangeH)) /\ tape' = garde
  <2> DEFINE r == Requete("update", tape.getMenu[1], p, InchangeH)
  <2>1. r.action = "update" /\ r.heure = InchangeH
    BY DEF Requete
  <2>2. Rentrer(r)
    BY <1>5
  <2> HIDE DEF r
  <2> QED BY <1>0, <1>5, <2>1, <2>2, RentrerSansHeure
<1>6. essais \in 0..Patience
  BY DEF Invariant, TypeOK
<1>7. essais < Patience => essais + 1 \in 0..Patience
  BY <1>6, PatiencePositive
<1> QED BY <1>1, <1>2, <1>3, <1>4, <1>5, <1>6, <1>7 DEF ApresPoids, garde

LEMMA GetPoidsInvariant ==
  ASSUME Invariant, NEW t \in Touches, getPoids(t), actif' \in BOOLEAN
  PROVE  Invariant'
<1> DEFINE c == Suivis(tape.getPoids, t)
<1>1. /\ etape = "getPoids" /\ tape \in Tapes /\ tape.getPoids \in Seq(Chiffres)
      /\ Len(tape.getPoids) \in 0..2
  BY DEF getPoids, Invariant, PlacePoids, AvantPoids, TypeOK, Tapes
<1>2. c \in Seq(Chiffres) /\ Len(c) \in 0..3
  <2>1. c \in Seq(Chiffres) /\ Len(c) \in {Len(tape.getPoids), Len(tape.getPoids) + 1}
    BY <1>1, SuivisType
  <2>2. \A l \in 0..2 : \A m \in {l, l + 1} : m \in 0..3
    OBVIOUS
  <2> HIDE DEF c
  <2> QED BY <1>1, <2>1, <2>2, Zenon
<1>3. CASE /\ ~(t \in {A, B} \/ Len(c) = 3 \/ Epuise)
           /\ Encore(boucle) /\ tape' = [tape EXCEPT !.getPoids = c]
  <2> HIDE DEF c
  <2>1. tape' \in Tapes /\ tape'.getPoids = c
    BY <1>1, <1>2, <1>3 DEF Tapes
  <2>2. etape' = etape
    BY <1>3 DEF Encore
  <2>3. Len(c) \in 0..2
    BY <1>2, <1>3
  <2>4. (PlacePoids /\ PoidsGarde /\ HeureEnCours /\ HeureGardee)'
    BY <1>1, <2>1, <2>2, <2>3 DEF PlacePoids, PoidsGarde, HeureEnCours, HeureGardee
  <2>5. boucle \in [tours : 0..(Patience - 1), n : 0..1, valeur : Int, puissance : {0, 1, 10}]
    BY DEF Invariant, TypeOK
  <2> QED BY <1>1, <1>3, <2>1, <2>4, <2>5, EncoreInvariant
<1>4. CASE \E p \in PoidsLus(t, c) : ApresPoids(p, c)
  <2> HIDE DEF c
  <2> PICK p \in PoidsLus(t, c) : ApresPoids(p, c)
    BY <1>4
  <2>1. p = -1 \/ (p \in Nat /\ (c # <<>> => p = Nombre(c)))
    BY <1>2, PoidsLusType
  <2> QED BY <1>1, <1>2, <2>1, ApresPoidsInvariant
<1> QED BY <1>3, <1>4 DEF getPoids

\* An hour that is under way, after one more digit.
LEMMA TaperType ==
  ASSUME TypeOK, HeureEnCours, etape = "checkHeure", NEW t \in Chiffres
  PROVE  LET b == Taper(t, boucle)
         IN  \/ b.n = 1 /\ b.puissance = 1 /\ b.valeur = 10 * t
             \/ /\ b.n = 2 /\ Len(tape.checkHeure) > 0
                /\ b.valeur = 10 * tape.checkHeure[Len(tape.checkHeure)] + t
                /\ b.valeur \in Nat
<1>0. t \in 0..9 /\ tape.checkHeure \in Seq(Chiffres) /\ Chiffres \subseteq 0..9
  BY ConstantesAssumption DEF TypeOK, Tapes
<1> DEFINE b == Taper(t, boucle)
           dernier == tape.checkHeure[Len(tape.checkHeure)]
<1>1. /\ b.n = boucle.n + 1 /\ b.puissance = boucle.puissance \div 10
      /\ b.valeur = boucle.valeur + t * boucle.puissance
  BY DEF Taper, TypeOK
<1>2. CASE boucle.n = 0 /\ boucle.puissance = 10 /\ boucle.valeur = 0
  <2>1. /\ 0 + t * 10 = 10 * t /\ 10 \div 10 = 1 /\ 0 + 1 = 1
    BY <1>0
  <2> QED BY <1>1, <1>2, <2>1, Zenon
<1>3. CASE boucle.n = 1 /\ boucle.puissance = 1 /\ Dizaine
  <2>1. dernier \in 0..9
    <3>1. Len(tape.checkHeure) \in 1..Len(tape.checkHeure)
      BY <1>0, <1>3 DEF Dizaine
    <3>2. dernier \in Chiffres
      BY <1>0, <3>1
    <3> QED BY <1>0, <3>2
  <2>2. boucle.valeur = 10 * dernier /\ Len(tape.checkHeure) > 0
    BY <1>3, Zenon DEF Dizaine
  <2>3. \A x, y \in 0..9 : 10 * x + y * 1 = 10 * x + y /\ 10 * x + y \in Nat
    OBVIOUS
  <2>4. 10 * dernier + t * 1 = 10 * dernier + t /\ 10 * dernier + t \in Nat /\ 1 + 1 = 2
    <3>1. 1 + 1 = 2
      OBVIOUS
    <3> QED BY <1>0, <2>1, <2>3, <3>1, Zenon
  <2> QED BY <1>1, <1>3, <2>2, <2>4, Zenon
<1> QED BY <1>2, <1>3 DEF HeureEnCours

\* A refused hour leaves nothing but the count of turns.
LEMMA HeureRefuseeChamps ==
  ASSUME NEW u
  PROVE  HeureRefusee(u) = [tours |-> u.tours, n |-> 0, valeur |-> 0, puissance |-> 10]
BY DEF HeureRefusee, PasDeBoucle

\* What follows getHeure when it returns "-1".
LEMMA SansHeureInvariant ==
  ASSUME Invariant, SansHeure, tape' \in Tapes, actif' \in BOOLEAN
  PROVE  Invariant'
<1>1. CASE Rentrer(Rien)
  BY <1>1, RentrerSansEnvoi
<1>2. CASE Rentrer(Requete("update", tape.getMenu[1], Inchange, Illisible))
  <2> DEFINE r == Requete("update", tape.getMenu[1], Inchange, Illisible)
  <2>1. r.action = "update" /\ r.heure = Illisible
    BY DEF Requete
  <2>2. Rentrer(r)
    BY <1>2
  <2> HIDE DEF r
  <2> QED BY <2>1, <2>2, RentrerSansHeure
<1> QED BY <1>1, <1>2 DEF SansHeure

LEMMA CheckHeureInvariant ==
  ASSUME Invariant, NEW t \in Touches, checkHeure(t), actif' \in BOOLEAN
  PROVE  Invariant'
<1> DEFINE s == tape.checkHeure
           b == IF t \in Chiffres THEN Taper(t, boucle) ELSE boucle
           suite == Suivis(s, t)
<1>1. /\ etape = "checkHeure" /\ tape \in Tapes /\ s \in Seq(Chiffres) /\ TypeOK
      /\ HeureEnCours
  BY DEF checkHeure, Invariant, TypeOK, Tapes
<1>2. tape' = [tape EXCEPT !.checkHeure = suite]
  BY DEF checkHeure
<1>3. suite \in Seq(Chiffres)
  BY <1>1, SuivisType
<1>4. tape' \in Tapes /\ tape'.getPoids = tape.getPoids /\ tape'.checkHeure = suite
  <2> HIDE DEF suite
  <2> QED BY <1>1, <1>2, <1>3 DEF Tapes
<1>5. boucle \in [tours : 0..(Patience - 1), n : 0..1, valeur : Int, puissance : {0, 1, 10}]
  BY <1>1 DEF TypeOK
<1>6. CASE SansHeure
  BY <1>4, <1>6, SansHeureInvariant
<1>7. ASSUME NEW x, Encore(x), ~Epuise,
             x \in [tours : 0..(Patience - 1), n : 0..1, valeur : Int, puissance : {0, 1, 10}],
             \/ x.n = 0 /\ x.puissance = 10 /\ x.valeur = 0
             \/ x.n = 1 /\ x.puissance = 1 /\ Len(suite) > 0 /\ x.valeur = 10 * suite[Len(suite)]
      PROVE  Invariant'
  <2> HIDE DEF suite, s
  <2>1. etape' = etape /\ menu' = menu /\ poids' = poids
    BY <1>7 DEF Encore
  <2>2. boucle'.n = x.n /\ boucle'.puissance = x.puissance /\ boucle'.valeur = x.valeur
    BY <1>7 DEF Encore
  <2>3. PlacePoids' /\ HeureGardee'
    BY <1>1, <2>1 DEF PlacePoids, AvantPoids, HeureGardee
  <2>4. PoidsGarde'
    BY <1>1, <1>4, <2>1 DEF Invariant, PoidsGarde, Typee
  <2>5. HeureEnCours'
    BY <1>4, <1>7, <2>2 DEF HeureEnCours, Dizaine
  <2> QED BY <1>1, <1>4, <1>7, <2>3, <2>4, <2>5, EncoreInvariant
<1>8. CASE t \notin Chiffres /\ ~Epuise /\ Encore(boucle)
  <2>1. suite = s
    BY <1>8 DEF Suivis
  <2>2. \/ boucle.n = 0 /\ boucle.puissance = 10 /\ boucle.valeur = 0
        \/ boucle.n = 1 /\ boucle.puissance = 1 /\ Len(suite) > 0
           /\ boucle.valeur = 10 * suite[Len(suite)]
    BY <1>1, <2>1 DEF HeureEnCours, Dizaine
  <2> QED BY <1>5, <1>7, <1>8, <2>2
<1>9. t \in Chiffres =>
        /\ Len(suite) > 0 /\ suite[Len(suite)] = t
        /\ Len(s) > 0 => suite[Len(suite) - 1] = s[Len(s)]
  BY <1>1, SuivisType
<1>10. t \in Chiffres =>
         /\ b = Taper(t, boucle)
         /\ \/ b.n = 1 /\ b.puissance = 1 /\ b.valeur = 10 * t
            \/ b.n = 2 /\ Len(s) > 0 /\ b.valeur = 10 * s[Len(s)] + t /\ b.valeur \in Nat
  BY <1>1, TaperType
<1>11. t \in Chiffres => b.tours \in 0..(Patience - 1)
  BY <1>5 DEF Taper
<1>12. CASE t \in Chiffres /\ b.n # 2 /\ ~Epuise /\ Encore(b)
  <2>1. b.n = 1 /\ b.puissance = 1 /\ b.valeur = 10 * t
    BY <1>10, <1>12
  <2>2. b \in [tours : 0..(Patience - 1), n : 0..1, valeur : Int, puissance : {0, 1, 10}]
    <3>1. t \in 0..9
      BY <1>12, ConstantesAssumption
    <3>2. b.valeur \in Int /\ b.n \in 0..1 /\ b.puissance \in {0, 1, 10}
      BY <2>1, <3>1
    <3>3. b = [tours |-> b.tours, n |-> b.n, valeur |-> b.valeur, puissance |-> b.puissance]
      BY <1>5, <1>12 DEF Taper
    <3> HIDE DEF b
    <3> QED BY <1>11, <1>12, <3>2, <3>3
  <2> HIDE DEF b, suite
  <2> QED BY <1>7, <1>9, <1>12, <2>1, <2>2
<1>13. CASE t \in Chiffres /\ ~Epuise /\ Encore(HeureRefusee(b))
  <2> DEFINE x == HeureRefusee(b)
  <2>0. x = [tours |-> b.tours, n |-> 0, valeur |-> 0, puissance |-> 10]
    BY HeureRefuseeChamps
  <2> HIDE DEF x, b
  <2>1. x \in [tours : 0..(Patience - 1), n : 0..1, valeur : Int, puissance : {0, 1, 10}]
    BY <1>11, <1>13, <2>0
  <2>2. x.n = 0 /\ x.puissance = 10 /\ x.valeur = 0
    BY <2>0
  <2> QED BY <1>7, <1>13, <2>1, <2>2 DEF x, b
<1>14. CASE /\ t \in Chiffres /\ b.n = 2 /\ b.valeur < 24
            /\ Entrer("checkMinute") /\ heure' = <<b.valeur>> /\ UNCHANGED <<poids, essais>>
  <2>1. b.valeur = 10 * s[Len(s)] + t /\ Len(s) > 0 /\ b.valeur \in 0..23
    <3> HIDE DEF b, s
    <3>1. b.valeur = 10 * s[Len(s)] + t /\ Len(s) > 0 /\ b.valeur \in Nat
      BY <1>10, <1>14
    <3>2. \A n \in Nat : n < 24 => n \in 0..23
      OBVIOUS
    <3> QED BY <1>14, <3>1, <3>2, Zenon
  <2>2. b.valeur = DeuxDerniers(suite)
    <3> HIDE DEF b, suite, s
    <3> QED BY <1>9, <1>14, <2>1 DEF DeuxDerniers
  <2> HIDE DEF b, suite, s
  <2>3. HeureGardee'
    BY <1>4, <1>14, <2>1, <2>2 DEF HeureGardee
  <2> QED BY <1>1, <1>4, <1>14, <2>1, <2>3, EntrerMinute
<1> QED BY <1>6, <1>8, <1>12, <1>13, <1>14, <1>10 DEF checkHeure

\* What follows getHeure when it returns an hour.
LEMMA ApresHeureInvariant ==
  ASSUME Invariant, etape = "checkMinute", NEW v \in Int, v < 60,
         ApresHeure(<<heure[1], v>>), UNCHANGED tape, actif' \in BOOLEAN
  PROVE  Invariant'
<1>1. PICK h \in 0..23 : heure = <<h>> /\ h = DeuxDerniers(tape.checkHeure)
  BY DEF Invariant, HeureGardee
<1>2. <<heure[1], v>> = <<h, v>>
  BY <1>1
<1>3. tape' \in Tapes
  BY DEF Invariant, TypeOK
<1>4. ASSUME NEW r, Rentrer(r), r.heure = <<h, v>>
      PROVE  HeureFidele'
  <2>1. envoi' = r
    BY <1>4 DEF Rentrer
  <2>2. <<h, v>>[1] = h /\ <<h, v>>[2] = v
    OBVIOUS
  <2>3. DeuxDerniers(tape.checkHeure)' = DeuxDerniers(tape.checkHeure)
    BY DEF DeuxDerniers
  <2> QED BY <1>1, <1>4, <2>1, <2>2, <2>3, Zenon DEF HeureFidele
<1>5. CASE Rentrer(Requete("update", tape.getMenu[1], Inchange, <<h, v>>))
  <2> DEFINE r == Requete("update", tape.getMenu[1], Inchange, <<h, v>>)
  <2>1. r.action = "update" /\ r.heure = <<h, v>>
    BY DEF Requete
  <2>2. Rentrer(r)
    BY <1>5
  <2> HIDE DEF r
  <2>3. PoidsFidele'
    BY <2>1, <2>2 DEF Rentrer, PoidsFidele
  <2>4. HeureFidele'
    BY <1>4, <2>1, <2>2
  <2>5. r.action \in Actions
    BY <2>1 DEF Actions
  <2> QED BY <1>3, <2>2, <2>3, <2>4, <2>5, RentrerInvariant
<1>6. CASE menu = "ajout" /\ Rentrer(Requete("addMeal", 0, poids, <<h, v>>))
  <2> DEFINE r == Requete("addMeal", 0, poids, <<h, v>>)
  <2>1. r.action = "addMeal" /\ r.poids = poids /\ r.heure = <<h, v>>
    BY DEF Requete
  <2>2. Rentrer(r)
    BY <1>6
  <2> HIDE DEF r
  <2>3. Typee(poids)
    BY <1>6 DEF Invariant, PoidsGarde
  <2>4. PoidsFidele'
    BY <2>1, <2>2, <2>3 DEF Rentrer, PoidsFidele, Typee
  <2>5. HeureFidele'
    BY <1>4, <2>1, <2>2
  <2>6. r.action \in Actions
    BY <2>1 DEF Actions
  <2> QED BY <1>3, <2>2, <2>4, <2>5, <2>6, RentrerInvariant
<1> QED BY <1>2, <1>5, <1>6 DEF ApresHeure

LEMMA CheckMinuteInvariant ==
  ASSUME Invariant, NEW t \in Touches, checkMinute(t), actif' \in BOOLEAN
  PROVE  Invariant'
<1> DEFINE b == IF t \in Chiffres THEN Taper(t, boucle) ELSE boucle
           Locals == [tours : 0..(Patience - 1), n : 0..1, valeur : Int, puissance : {0, 1, 10}]
<1>1. etape = "checkMinute" /\ tape' = tape /\ tape' \in Tapes /\ boucle \in Locals
  BY DEF checkMinute, Invariant, TypeOK
<1>2. /\ b.tours \in 0..(Patience - 1) /\ b.n \in 0..2 /\ b.valeur \in Int
      /\ b.puissance \in {0, 1, 10}
      /\ b = [tours |-> b.tours, n |-> b.n, valeur |-> b.valeur, puissance |-> b.puissance]
  <2>1. CASE t \notin Chiffres
    BY <1>1, <2>1
  <2>2. CASE t \in Chiffres
    <3>1. /\ b.tours = boucle.tours /\ b.n = boucle.n + 1
          /\ b.valeur = boucle.valeur + t * boucle.puissance
          /\ b.puissance = boucle.puissance \div 10
          /\ b = [tours |-> b.tours, n |-> b.n, valeur |-> b.valeur, puissance |-> b.puissance]
      BY <1>1, <2>2 DEF Taper
    <3>2. t \in 0..9
      BY <2>2, ConstantesAssumption
    <3>3. /\ boucle.tours \in 0..(Patience - 1) /\ boucle.n \in 0..1 /\ boucle.valeur \in Int
          /\ boucle.puissance \in {0, 1, 10}
      BY <1>1
    <3>4. \A x \in Int, y \in 0..9, z \in {0, 1, 10} :
             x + y * z \in Int /\ z \div 10 \in {0, 1, 10}
      OBVIOUS
    <3>5. \A n \in 0..1 : n + 1 \in 0..2
      OBVIOUS
    <3> HIDE DEF b
    <3> QED BY <3>1, <3>2, <3>3, <3>4, <3>5, Zenon
  <2> QED BY <2>1, <2>2
<1>3. ASSUME NEW x \in Locals, Encore(x), ~Epuise
      PROVE  Invariant'
  <2>1. etape' = etape /\ menu' = menu /\ poids' = poids /\ heure' = heure
    BY <1>3 DEF Encore
  <2>2. (PlacePoids /\ HeureEnCours)'
    BY <1>1, <2>1 DEF PlacePoids, AvantPoids, HeureEnCours
  <2>3. (PoidsGarde /\ HeureGardee)'
    BY <1>1, <2>1 DEF Invariant, PoidsGarde, Typee, HeureGardee, DeuxDerniers
  <2> QED BY <1>1, <1>3, <2>2, <2>3, EncoreInvariant
<1>4. CASE SansHeure
  BY <1>1, <1>4, SansHeureInvariant
<1>5. CASE ~Epuise /\ Encore(b) /\ ~(t \in Chiffres /\ b.n = 2)
  <2>1. b.n \in 0..1
    <3>1. CASE t \in Chiffres
      <4> HIDE DEF b
      <4> QED BY <1>2, <1>5, <3>1
    <3>2. CASE t \notin Chiffres
      BY <1>1, <3>2
    <3> QED BY <3>1, <3>2
  <2>2. b \in Locals
    <3> HIDE DEF b
    <3> QED BY <1>2, <2>1
  <2> HIDE DEF b, Locals
  <2> QED BY <1>3, <1>5, <2>2
<1>6. CASE ~Epuise /\ Encore([tours |-> b.tours, n |-> 0, valeur |-> 0, puissance |-> b.puissance])
  <2> HIDE DEF b
  <2>1. [tours |-> b.tours, n |-> 0, valeur |-> 0, puissance |-> b.puissance] \in Locals
    BY <1>2
  <2> HIDE DEF Locals
  <2> QED BY <1>3, <1>6, <2>1
<1>7. CASE ~MinutesRefusees(b) /\ ApresHeure(<<heure[1], b.valeur>>)
  <2> HIDE DEF b
  <2>1. b.valeur < 60
    BY <1>2, <1>7 DEF MinutesRefusees
  <2> QED BY <1>1, <1>2, <1>7, <2>1, ApresHeureInvariant
<1> QED BY <1>4, <1>5, <1>6, <1>7 DEF checkMinute

\* The turn of a loop that reads nothing of use, but for the digits typed.
LEMMA EncoreBoucle ==
  ASSUME Invariant, Encore(boucle), ~Epuise, actif' \in BOOLEAN, tape' \in Tapes,
         etape \notin {"veille", "checkHeure", "checkMinute"},
         Len(tape'.getPoids) = Len(tape.getPoids)
  PROVE  Invariant'
<1>1. etape' = etape
  BY DEF Encore
<1>2. PlacePoids'
  BY <1>1 DEF Invariant, PlacePoids, AvantPoids
<1>3. (PoidsGarde /\ HeureEnCours /\ HeureGardee)'
  BY <1>1 DEF PoidsGarde, HeureEnCours, HeureGardee
<1>4. boucle \in [tours : 0..(Patience - 1), n : 0..1, valeur : Int, puissance : {0, 1, 10}]
  BY DEF Invariant, TypeOK
<1> QED BY <1>2, <1>3, <1>4, EncoreInvariant

\* The next loop starts, nothing else changes.
LEMMA EntrerBoucle ==
  ASSUME Invariant, NEW e \in {"getPoids", "checkHeure", "choisir", "confirmer"}, Entrer(e),
         etape \in {"getMenu", "choisir", "confirmer"}, menu # "ajout",
         actif' \in BOOLEAN, tape' \in Tapes, Len(tape'.getPoids) = Len(tape.getPoids),
         UNCHANGED <<poids, heure, essais>>
  PROVE  Invariant'
<1>1. etape' = e /\ menu' = menu
  BY DEF Entrer
<1>2. PlacePoids'
  BY <1>1 DEF Invariant, PlacePoids, AvantPoids
<1>3. PoidsGarde' /\ Choix'
  BY <1>1 DEF PoidsGarde, Choix
<1>4. e \in Etapes \ {"veille", "checkMinute"} /\ etape # "veille"
  BY DEF Etapes
<1>5. /\ poids' \in Nat /\ essais' \in 0..Patience
      /\ heure' \in {InchangeH} \cup {<<h>> : h \in 0..23}
  BY DEF Invariant, TypeOK
<1> QED BY <1>2, <1>3, <1>4, <1>5, EntrerInvariant

LEMMA GetMenuInvariant ==
  ASSUME Invariant, NEW t \in Touches, getMenu(t), actif' \in BOOLEAN
  PROVE  Invariant'
<1>1. etape = "getMenu" /\ tape \in Tapes
  BY DEF getMenu, Invariant, TypeOK
<1>2. tape' \in Tapes /\ tape'.getPoids = tape.getPoids
  <2> DEFINE c == Suivis(tape.getMenu, t)
  <2>1. tape' = [tape EXCEPT !.getMenu = c]
    BY DEF getMenu
  <2>2. c \in Seq(Chiffres)
    BY <1>1, SuivisType DEF Tapes
  <2> HIDE DEF c
  <2> QED BY <1>1, <2>1, <2>2 DEF Tapes
<1>3. CASE Rentrer(Requete("deleteMeal", t, Inchange, InchangeH))
  <2> DEFINE r == Requete("deleteMeal", t, Inchange, InchangeH)
  <2>1. r.action = "deleteMeal" /\ r.heure = InchangeH
    BY DEF Requete
  <2>2. Rentrer(r)
    BY <1>3
  <2> HIDE DEF r
  <2> QED BY <1>2, <2>1, <2>2, RentrerSansHeure
<1>4. CASE menu = "modification" /\ Entrer("choisir") /\ UNCHANGED <<poids, heure, essais>>
  BY <1>1, <1>2, <1>4, EntrerBoucle
<1>5. CASE Rentrer(Rien)
  BY <1>2, <1>5, RentrerSansEnvoi
<1>6. CASE ~Epuise /\ Encore(boucle)
  BY <1>1, <1>2, <1>6, EncoreBoucle
<1> QED BY <1>3, <1>4, <1>5, <1>6 DEF getMenu

LEMMA ChoisirInvariant ==
  ASSUME Invariant, NEW t \in Touches, choisir(t), actif' \in BOOLEAN
  PROVE  Invariant'
<1>1. /\ etape = "choisir" /\ menu # "ajout"
      /\ tape' \in Tapes /\ Len(tape'.getPoids) = Len(tape.getPoids)
  BY DEF choisir, Invariant, TypeOK, Choix
<1>2. CASE Entrer("confirmer") /\ UNCHANGED <<poids, heure, essais>>
  BY <1>1, <1>2, EntrerBoucle
<1>3. CASE Rentrer(Rien)
  BY <1>1, <1>3, RentrerSansEnvoi
<1>4. CASE ~Epuise /\ Encore(boucle)
  BY <1>1, <1>4, EncoreBoucle
<1> QED BY <1>2, <1>3, <1>4 DEF choisir

LEMMA ConfirmerInvariant ==
  ASSUME Invariant, NEW t \in Touches, confirmer(t), actif' \in BOOLEAN
  PROVE  Invariant'
<1>1. /\ etape = "confirmer" /\ menu # "ajout"
      /\ tape' \in Tapes /\ Len(tape'.getPoids) = Len(tape.getPoids)
  BY DEF confirmer, Invariant, TypeOK, Choix
<1>2. CASE Entrer("getPoids") /\ UNCHANGED <<poids, heure, essais>>
  BY <1>1, <1>2, EntrerBoucle
<1>3. CASE Entrer("checkHeure") /\ UNCHANGED <<poids, heure, essais>>
  BY <1>1, <1>3, EntrerBoucle
<1>4. CASE UNCHANGED <<menu, etape, boucle, tape, poids, heure, essais, envoi>>
  BY <1>4, ImmobileInvariant
<1>5. UNCHANGED tape
  BY DEF confirmer
<1> QED BY <1>2, <1>3, <1>4, <1>5 DEF confirmer

LEMMA AppairageInvariant ==
  ASSUME Invariant, NEW t \in Touches, traitementAppairage(t), actif' \in BOOLEAN
  PROVE  Invariant'
<1>1. /\ etape = "appairage"
      /\ tape' \in Tapes /\ Len(tape'.getPoids) = Len(tape.getPoids)
  BY DEF traitementAppairage, Invariant, TypeOK
<1>2. CASE Rentrer(Rien)
  BY <1>1, <1>2, RentrerSansEnvoi
<1>3. CASE ~Epuise /\ Encore(boucle)
  BY <1>1, <1>3, EncoreBoucle
<1> QED BY <1>2, <1>3 DEF traitementAppairage

LEMMA TourInvariant == Invariant /\ [Next]_vars => Invariant'
<1> SUFFICES ASSUME Invariant, [Next]_vars PROVE Invariant'
  OBVIOUS
<1>1. CASE Next
  <2> PICK t \in Touches : Tour(t)
    BY <1>1 DEF Next
  <2>1. actif' \in BOOLEAN
    BY Zenon DEF Tour
  <2>2. CASE traitementClavier(t)
    BY <2>1, <2>2, VeilleInvariant
  <2>3. CASE getPoids(t)
    BY <2>1, <2>3, GetPoidsInvariant
  <2>4. CASE checkHeure(t)
    BY <2>1, <2>4, CheckHeureInvariant
  <2>5. CASE checkMinute(t)
    BY <2>1, <2>5, CheckMinuteInvariant
  <2>6. CASE getMenu(t)
    BY <2>1, <2>6, GetMenuInvariant
  <2>7. CASE choisir(t)
    BY <2>1, <2>7, ChoisirInvariant
  <2>8. CASE confirmer(t)
    BY <2>1, <2>8, ConfirmerInvariant
  <2>9. CASE traitementAppairage(t)
    BY <2>1, <2>9, AppairageInvariant
  <2> QED BY <2>2, <2>3, <2>4, <2>5, <2>6, <2>7, <2>8, <2>9 DEF Tour
<1>2. CASE UNCHANGED vars
  <2>1. UNCHANGED <<menu, etape, boucle, tape, poids, heure, essais, envoi>> /\ actif' = actif
    BY <1>2 DEF vars
  <2>2. actif' \in BOOLEAN
    BY <2>1 DEF Invariant, TypeOK
  <2> QED BY <2>1, <2>2, ImmobileInvariant
<1> QED BY <1>1, <1>2

------------------------------------------------------------------------------
(* The theorems. *)

LEMMA InvariantToujours == Spec => []Invariant
BY InitInvariant, TourInvariant, PTL DEF Spec

\* Every reachable state is well typed: in particular no loop outlives its Patience
\* turns, and the hour that is kept is one of 0..23 (traitement.cpp).
THEOREM ClavierTypeCorrect == Spec => []TypeOK
<1>1. Invariant => TypeOK
  BY DEF Invariant
<1> QED BY <1>1, InvariantToujours, PTL

\* The weight of a new meal or of a portion served now is the one typed and at most
\* 300 g, for every patience and whatever the uninitialised digit holds (getPoids).
THEOREM PoidsToujoursFidele == Spec => []PoidsFidele
<1>1. Invariant => PoidsFidele
  BY DEF Invariant
<1> QED BY <1>1, InvariantToujours, PTL

\* An hour that is sent is the last one typed and a real one, whatever was refused
\* before and whatever the uninitialised minutes held (checkHeure, checkMinute).
THEOREM HeureToujoursFidele == Spec => []HeureFidele
<1>1. Invariant => HeureFidele
  BY DEF Invariant
<1> QED BY <1>1, InvariantToujours, PTL
=============================================================================
