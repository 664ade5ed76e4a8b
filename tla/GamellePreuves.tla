--------------------------- MODULE GamellePreuves --------------------------
(***************************************************************************)
(* Proofs about Gamelle: types, and that no order to serve is obeyed twice *)
(* however many menus, messages and losses of the link there are.          *)
(***************************************************************************)
EXTENDS Gamelle, TLAPS, FiniteSetTheorems, SequenceTheorems

------------------------------------------------------------------------------
(* Every menu is a list of instructions. *)

Programme == Seq(Instruction)

LEMMA Enchainer ==
  ASSUME NEW p \in Programme, NEW q \in Programme
  PROVE  p \o q \in Programme
BY ConcatProperties DEF Programme

LEMMA Instructions ==
  /\ \A faire \in {"connecter", "image", "lire", "clavier", "saisir", "confirmer"} :
       I(faire) \in Instruction
  /\ \A r \in Requetes : /\ Envoyer(r) \in Instruction
                          /\ [faire |-> "attendre", quoi |-> r] \in Instruction
BY DEF I, Envoyer, Instruction

LEMMA Suites ==
  ASSUME NEW i \in Instruction, NEW j \in Instruction
  PROVE  <<i>> \in Programme /\ <<i, j>> \in Programme
BY DEF Programme

LEMMA Elementaires ==
  /\ \A faire \in {"connecter", "image", "lire", "clavier", "saisir", "confirmer"} :
       <<I(faire)>> \in Programme
  /\ \A r \in Requetes : /\ <<I("saisir"), Envoyer(r)>> \in Programme
                          /\ requestData(r) \in Programme
  /\ <<I("image"), I("saisir")>> \in Programme
  /\ <<I("image"), I("saisir"), I("confirmer"), I("saisir"), Envoyer("update")>> \in Programme
  /\ loop \in Programme
<1>1. \A faire \in {"connecter", "image", "lire", "clavier", "saisir", "confirmer"} :
        <<I(faire)>> \in Programme
  BY Instructions, Suites
<1>2. ASSUME NEW r \in Requetes
      PROVE  <<I("saisir"), Envoyer(r)>> \in Programme /\ requestData(r) \in Programme
  BY Instructions, Suites DEF requestData
<1>3. <<I("image"), I("saisir")>> \in Programme /\ loop \in Programme
  BY Instructions, Suites DEF loop
<1>4. ASSUME NEW a \in Instruction, NEW b \in Instruction, NEW c \in Instruction,
             NEW e \in Instruction, NEW f \in Instruction
      PROVE  <<a, b, c, e, f>> \in Programme
  BY DEF Programme
<1>5. "update" \in Requetes
  BY DEF Requetes
<1>6. <<I("image"), I("saisir"), I("confirmer"), I("saisir"), Envoyer("update")>> \in Programme
  BY <1>4, <1>5, Instructions
<1> QED BY <1>1, <1>2, <1>3, <1>6

LEMMA Menu ==
  /\ nextMeal \in Programme /\ mainMenu \in Programme /\ setup \in Programme
  /\ afficherMenu \in Programme
<1>1. "nextMeal" \in Requetes /\ "requestData" \in Requetes
  BY DEF Requetes
<1>2. nextMeal \in Programme
  BY <1>1, Elementaires, Enchainer DEF nextMeal
<1>3. mainMenu \in Programme
  BY <1>2, Elementaires, Enchainer DEF mainMenu
<1>4. setup \in Programme
  BY <1>2, <1>3, Elementaires, Enchainer DEF setup
<1>5. afficherMenu \in Programme
  BY <1>1, Elementaires, Enchainer DEF afficherMenu
<1> QED BY <1>2, <1>3, <1>4, <1>5

LEMMA ToutMenu ==
  ASSUME NEW touche \in Touches
  PROVE  traitementClavier(touche) \subseteq Programme
<1> DEFINE s == <<I("saisir")>>
<1>1. /\ s \in Programme /\ mainMenu \in Programme /\ afficherMenu \in Programme
      /\ <<>> \in Programme
  BY Elementaires, Menu, EmptySeq DEF Programme
<1>2. s \o mainMenu \in Programme /\ (s \o mainMenu) \o mainMenu \in Programme
  <2> HIDE DEF s
  <2> QED BY <1>1, Enchainer
<1>3. ASSUME NEW r \in Requetes
      PROVE  <<I("saisir"), Envoyer(r)>> \in Programme
  BY Elementaires
<1>4. {"addMeal", "deleteMeal", "update", "eatNow"} \subseteq Requetes
  BY DEF Requetes
<1>5. ASSUME NEW r \in Requetes
      PROVE  <<I("saisir"), Envoyer(r)>> \o mainMenu \in Programme
  BY <1>1, <1>3, Enchainer
<1>6. traitementAjout \subseteq Programme /\ traitementAppairage \subseteq Programme
  BY <1>2, <1>4, <1>5 DEF traitementAjout, traitementAppairage
<1>7. traitementDistribution \subseteq Programme
  BY <1>2, <1>4, <1>5 DEF traitementDistribution
<1>8. traitementSuppression \subseteq Programme
  <2>1. (afficherMenu \o s) \o mainMenu \in Programme
    <3> HIDE DEF s
    <3> QED BY <1>1, Enchainer
  <2>2. (afficherMenu \o <<I("saisir"), Envoyer("deleteMeal")>>) \o mainMenu \in Programme
    BY <1>1, <1>3, <1>4, Enchainer
  <2> QED BY <2>1, <2>2 DEF traitementSuppression
<1>9. traitementModification \subseteq Programme
  <2>1. <<I("image"), I("saisir")>> \o mainMenu \in Programme
    BY <1>1, Elementaires, Enchainer
  <2>4. traitementUpdate \cup {<<>>} \subseteq Programme
    BY <1>1, <2>1, Elementaires DEF traitementUpdate
  <2>5. ASSUME NEW suite \in Programme
        PROVE  ((afficherMenu \o s) \o suite) \o mainMenu \in Programme
    <3> HIDE DEF s
    <3> QED BY <1>1, <2>5, Enchainer
  <2> QED BY <2>4, <2>5 DEF traitementModification
<1> QED BY <1>6, <1>7, <1>8, <1>9 DEF traitementClavier, Touches
------------------------------------------------------------------------------
(* Orders to serve under way. *)

LEMMA EnRouteFini ==
  ASSUME NEW s \in Seq(Message)
  PROVE  IsFiniteSet(EnRoute(s)) /\ Cardinality(EnRoute(s)) \in Nat
<1>1. IsFiniteSet(1..Len(s))
  BY LenProperties, FS_Interval
<1> QED BY <1>1, FS_Subset, FS_CardinalityType DEF EnRoute

LEMMA Moins ==
  ASSUME NEW A, NEW B, IsFiniteSet(B), A \subseteq B
  PROVE  IsFiniteSet(A) /\ Cardinality(A) <= Cardinality(B)
BY FS_Subset

\* The first message is read: if it is an order, one less is under way.
LEMMA EnRouteTail ==
  ASSUME NEW s \in Seq(Message), s # <<>>
  PROVE  Cardinality(EnRoute(Tail(s))) + (IF Head(s).action = "eatNow" THEN 1 ELSE 0)
           <= Cardinality(EnRoute(s))
<1> DEFINE A == EnRoute(Tail(s))
           B == EnRoute(s) \ {1}
           f == [i \in A |-> i + 1]
<1>1. Tail(s) \in Seq(Message) /\ Len(Tail(s)) = Len(s) - 1 /\ Len(s) \in Nat \ {0}
  BY HeadTailProperties, EmptySeq, LenProperties
<1>2. \A i \in 1..Len(Tail(s)) : Tail(s)[i] = s[i + 1]
  BY HeadTailProperties
<1>3. f \in Injection(A, B)
  <2>1. ASSUME NEW i \in A PROVE i \in Int /\ i + 1 \in B
    BY <1>1, <1>2 DEF EnRoute
  <2> QED BY <2>1 DEF Injection, IsInjective
<1>4. IsFiniteSet(EnRoute(s)) /\ Cardinality(EnRoute(s)) \in Nat
  BY EnRouteFini
<1>5. IsFiniteSet(B) /\ Cardinality(B) <= Cardinality(EnRoute(s))
  BY <1>4, Moins
<1>6. Cardinality(A) <= Cardinality(B) /\ Cardinality(A) \in Nat /\ Cardinality(B) \in Nat
  BY <1>1, <1>3, <1>5, EnRouteFini, FS_Injection, FS_CardinalityType
<1>7. CASE Head(s).action = "eatNow"
  <2>1. 1 \in EnRoute(s)
    BY <1>1, <1>7 DEF EnRoute
  <2>2. Cardinality(B) = Cardinality(EnRoute(s)) - 1
    BY <1>4, <2>1, FS_RemoveElement
  <2> QED BY <1>4, <1>6, <1>7, <2>2
<1>8. CASE Head(s).action # "eatNow"
  BY <1>4, <1>5, <1>6, <1>8
<1> QED BY <1>7, <1>8

\* A message more is at most an order more.
LEMMA EnRouteAppend ==
  ASSUME NEW s \in Seq(Message), NEW m \in Message
  PROVE  Cardinality(EnRoute(Append(s, m)))
           <= Cardinality(EnRoute(s)) + (IF m.action = "eatNow" THEN 1 ELSE 0)
<1>1. /\ Append(s, m) \in Seq(Message) /\ Len(Append(s, m)) = Len(s) + 1
      /\ \A i \in 1..Len(s) : Append(s, m)[i] = s[i]
      /\ Append(s, m)[Len(s) + 1] = m /\ Len(s) \in Nat
  BY AppendProperties, LenProperties
<1>2. IsFiniteSet(EnRoute(s)) /\ Cardinality(EnRoute(s)) \in Nat
  BY EnRouteFini
<1>3. EnRoute(Append(s, m)) \subseteq EnRoute(s) \cup {Len(s) + 1}
  BY <1>1 DEF EnRoute
<1>4. CASE m.action = "eatNow"
  <2>1. Len(s) + 1 \notin EnRoute(s)
    BY <1>1 DEF EnRoute
  <2>2. /\ IsFiniteSet(EnRoute(s) \cup {Len(s) + 1})
        /\ Cardinality(EnRoute(s) \cup {Len(s) + 1}) = Cardinality(EnRoute(s)) + 1
    BY <1>2, <2>1, FS_AddElement
  <2>3. Cardinality(EnRoute(Append(s, m))) <= Cardinality(EnRoute(s) \cup {Len(s) + 1})
    BY <1>3, <2>2, Moins
  <2> QED BY <1>4, <2>2, <2>3
<1>5. CASE m.action # "eatNow"
  <2>1. EnRoute(Append(s, m)) \subseteq EnRoute(s)
    BY <1>1, <1>3, <1>5 DEF EnRoute
  <2>2. Cardinality(EnRoute(Append(s, m))) <= Cardinality(EnRoute(s))
    BY <1>2, <2>1, Moins
  <2> QED BY <1>2, <1>5, <2>2
<1> QED BY <1>4, <1>5
------------------------------------------------------------------------------
(* Types. *)

LEMMA Messages ==
  /\ EatNow \in Message /\ Document \in Message
  /\ \A n \in 0..MaxVersions : NouveauProchain(n) \in Message
BY ConstantesAssumption DEF EatNow, Document, NouveauProchain, Message

\* What Pousser adds is a message, or an order and the next meal.
LEMMA EnvoiType ==
  ASSUME NEW s \in Seq(Message), NEW a \in Message, NEW b \in Message
  PROVE  /\ s \o <<a>> = Append(s, a) /\ s \o <<a>> \in Seq(Message)
         /\ s \o <<a, b>> = Append(Append(s, a), b) /\ s \o <<a, b>> \in Seq(Message)
<1>1. <<a>> \in Seq(Message) /\ <<a, b>> = <<a>> \o <<b>> /\ <<b>> \in Seq(Message)
  <2>1. <<a>> \in Seq(Message) /\ <<b>> \in Seq(Message) /\ <<a, b>> \in Seq(Message)
    OBVIOUS
  <2>2. Len(<<a>>) = 1 /\ Len(<<b>>) = 1 /\ Len(<<a, b>>) = 2
    OBVIOUS
  <2>3. <<a>>[1] = a /\ <<b>>[1] = b /\ <<a, b>>[1] = a /\ <<a, b>>[2] = b
    OBVIOUS
  <2> DEFINE x == <<a>> y == <<b>> z == <<a, b>>
  <2>4. /\ x \in Seq(Message) /\ y \in Seq(Message) /\ z \in Seq(Message)
        /\ Len(x) = 1 /\ Len(y) = 1 /\ Len(z) = 2
        /\ x[1] = a /\ y[1] = b /\ z[1] = a /\ z[2] = b
    BY <2>1, <2>2, <2>3
  <2> HIDE DEF x, y, z
  <2>5. /\ x \o y \in Seq(Message) /\ Len(x \o y) = 2
        /\ \A i \in 1..2 : (x \o y)[i] = IF i <= 1 THEN x[i] ELSE y[i - 1]
    <3>1. /\ x \o y \in Seq(Message) /\ Len(x \o y) = Len(x) + Len(y)
          /\ \A i \in 1..(Len(x) + Len(y)) :
               (x \o y)[i] = IF i <= Len(x) THEN x[i] ELSE y[i - Len(x)]
      BY <2>4, ConcatProperties
    <3>2. Len(x) + Len(y) = 2
      BY <2>4
    <3> QED BY <2>4, <3>1, <3>2
  <2>6. \A i \in 1..2 : (x \o y)[i] = z[i]
    BY <2>4, <2>5
  <2>7. x \o y = z
    BY <2>4, <2>5, <2>6, SeqEqual
  <2> QED BY <2>1, <2>7 DEF x, y, z
<1>2. s \o <<a>> = Append(s, a) /\ s \o <<a>> \in Seq(Message)
  BY AppendIsConcat, AppendProperties
<1>3. (s \o <<a>>) \o <<b>> = s \o <<a, b>>
  BY <1>1, ConcatAssociative
<1> QED BY <1>2, <1>3, AppendIsConcat, AppendProperties

LEMMA TypeInit == Init => TypeOK
<1> SUFFICES ASSUME Init PROVE TypeOK
  OBVIOUS
<1>1. reste \in Seq(Instruction)
  BY Menu DEF Init, Programme
<1>2. entrants \in Seq(Message) /\ demandes \in Seq(Requetes)
  BY EmptySeq DEF Init
<1>3. lien \in BOOLEAN /\ relie \in BOOLEAN
  BY DEF Init
<1>4. /\ prochain \in 0..MaxVersions /\ affiche \in {Nul} \cup 0..MaxVersions
      /\ ordres \in 0..MaxOrdres /\ servis \in Nat /\ coupures \in 0..MaxCoupures
  <2>1. 0 \in 0..MaxVersions /\ 0 \in 0..MaxOrdres /\ 0 \in 0..MaxCoupures
    BY ConstantesAssumption
  <2> QED BY <2>1 DEF Init
<1> QED BY <1>1, <1>2, <1>3, <1>4 DEF TypeOK

\* The instruction that runs, and what follows it.
LEMMA Executee ==
  ASSUME TypeOK, NEW faire, Courante(faire)
  PROVE  /\ reste # <<>> /\ Head(reste).faire = faire
         /\ Head(reste) \in Instruction /\ Tail(reste) \in Seq(Instruction)
BY HeadTailProperties DEF TypeOK, Courante

LEMMA TypeProgramme ==
  ASSUME TypeOK, initSocket \/ Boucler \/ afficherImage \/ checkKeypad \/ Confirmer
  PROVE  TypeOK'
<1>1. CASE initSocket
  <2>1. reste' \in Seq(Instruction)
    BY <1>1, Executee DEF initSocket, TypeOK
  <2> QED BY <1>1, <2>1 DEF initSocket, TypeOK, service
<1>2. CASE Boucler
  <2>1. reste' \in Seq(Instruction)
    BY <1>2, Elementaires DEF Boucler, Programme
  <2> QED BY <1>2, <2>1 DEF Boucler, TypeOK, reseau, service
<1>3. CASE afficherImage
  <2>1. reste' \in Seq(Instruction)
    BY <1>3, Executee DEF afficherImage, Suivante
  <2> QED BY <1>3, <2>1 DEF afficherImage, TypeOK, reseau, service
<1>4. CASE checkKeypad
  <2>1. CASE Suivante
    BY <1>4, <2>1, Executee DEF checkKeypad, Suivante, TypeOK, reseau, service
  <2>2. ASSUME NEW touche \in Menus, reste' \in traitementClavier(touche)
        PROVE  TypeOK'
    <3>1. reste' \in Seq(Instruction)
      BY <2>2, ToutMenu, ConstantesAssumption DEF Programme
    <3> QED BY <1>4, <3>1 DEF checkKeypad, TypeOK, reseau, service
  <2> QED BY <1>4, <2>1, <2>2 DEF checkKeypad
<1>5. CASE Confirmer
  <2>1. reste' \in Seq(Instruction)
    BY <1>5, Executee DEF Confirmer, Suivante
  <2> QED BY <1>5, <2>1 DEF Confirmer, TypeOK, reseau, service
<1> QED BY <1>1, <1>2, <1>3, <1>4, <1>5

LEMMA TypeMessages ==
  ASSUME TypeOK, checkMessage \/ sendMessage \/ waitMessage
  PROVE  TypeOK'
<1>1. ASSUME entrants # <<>>
      PROVE  /\ Head(entrants) \in Message /\ Tail(entrants) \in Seq(Message)
             /\ Head(entrants).version \in 0..MaxVersions
  <2>1. entrants \in Seq(Message)
    BY DEF TypeOK
  <2>2. Head(entrants) \in Message /\ Tail(entrants) \in Seq(Message)
    BY <1>1, <2>1, HeadTailProperties
  <2>3. \A m \in Message : m.version \in 0..MaxVersions
    BY DEF Message
  <2> QED BY <2>2, <2>3
<1>2. CASE checkMessage
  <2>1. reste' \in Seq(Instruction)
    BY <1>2, Executee DEF checkMessage, Suivante
  <2>2. /\ entrants' \in Seq(Message)
        /\ servis' \in Nat
        /\ affiche' \in {Nul} \cup 0..MaxVersions
    <3>1. CASE entrants = <<>>
      BY <1>2, <3>1 DEF checkMessage, TypeOK
    <3>2. CASE entrants # <<>>
      <4>1. entrants' = Tail(entrants) /\ servis' \in {servis, servis + 1}
        BY <1>2, <3>2 DEF checkMessage
      <4>2. affiche' \in {Head(entrants).version, affiche}
        BY <1>2, <3>2 DEF checkMessage
      <4> QED BY <1>1, <3>2, <4>1, <4>2 DEF TypeOK
    <3> QED BY <3>1, <3>2
  <2> QED BY <1>2, <2>1, <2>2 DEF checkMessage, TypeOK, service
<1>3. CASE sendMessage
  <2>1. Head(reste).quoi \in Requetes /\ reste' \in Seq(Instruction)
    <3>1. Head(reste) \in Instruction /\ Head(reste).faire = "envoyer"
      BY <1>3, Executee DEF sendMessage
    <3>2. Head(reste).quoi \in Requetes
      BY <3>1 DEF Instruction
    <3> QED BY <1>3, <3>2, Executee DEF sendMessage, Suivante
  <2>2. demandes' \in Seq(Requetes)
    BY <1>3, <2>1, AppendProperties DEF sendMessage, TypeOK
  <2> QED BY <1>3, <2>1, <2>2 DEF sendMessage, TypeOK, service
<1>4. CASE waitMessage
  <2>1. reste' \in Seq(Instruction)
    BY <1>4, Executee DEF waitMessage, Suivante
  <2>2. /\ entrants' \in Seq(Message)
        /\ affiche' \in {Nul} \cup 0..MaxVersions
    BY <1>1, <1>4 DEF waitMessage, TypeOK
  <2> QED BY <1>4, <2>1, <2>2 DEF waitMessage, TypeOK, service
<1> QED BY <1>2, <1>3, <1>4

LEMMA TypeServeur ==
  ASSUME TypeOK, Repondre \/ Changer \/ Ordonner \/ Couper
  PROVE  TypeOK'
<1>1. entrants \in Seq(Message) /\ prochain \in 0..MaxVersions
  BY DEF TypeOK
<1>2. ASSUME NEW n \in 0..MaxVersions
      PROVE  Append(entrants, NouveauProchain(n)) \in Seq(Message)
  BY <1>1, Messages, AppendProperties
<1>3. Append(entrants, Document) \in Seq(Message)
  BY <1>1, Messages, AppendProperties
<1>4. prochain < MaxVersions => prochain + 1 \in 0..MaxVersions
  BY <1>1, ConstantesAssumption
<1>5. CASE Repondre
  <2>1. demandes' \in Seq(Requetes)
    BY <1>5, HeadTailProperties DEF Repondre, TypeOK
  <2>2. prochain' \in 0..MaxVersions /\ entrants' \in Seq(Message)
    BY <1>1, <1>2, <1>3, <1>4, <1>5 DEF Repondre
  <2> QED BY <1>5, <2>1, <2>2 DEF Repondre, TypeOK, appareil
<1>6. CASE Changer
  <2>1. prochain' \in 0..MaxVersions
    BY <1>4, <1>6 DEF Changer
  <2>2. entrants' \in Seq(Message)
    BY <1>1, <1>6, <2>1, Messages, EnvoiType DEF Changer, Pousser
  <2> QED BY <1>6, <2>1, <2>2 DEF Changer, TypeOK, appareil
<1>7. CASE Ordonner
  <2>1. entrants' \in Seq(Message)
    BY <1>1, <1>7, Messages, EnvoiType DEF Ordonner, Pousser
  <2>2. ordres' \in 0..MaxOrdres
    BY <1>7, ConstantesAssumption DEF Ordonner, TypeOK
  <2> QED BY <1>7, <2>1, <2>2 DEF Ordonner, TypeOK, appareil
<1>8. CASE Couper
  <2>1. entrants' \in Seq(Message) /\ demandes' \in Seq(Requetes)
    BY <1>8, EmptySeq DEF Couper
  <2>2. coupures' \in 0..MaxCoupures
    BY <1>8, ConstantesAssumption DEF Couper, TypeOK
  <2> QED BY <1>8, <2>1, <2>2 DEF Couper, TypeOK, appareil
<1> QED BY <1>5, <1>6, <1>7, <1>8

\* The program is always a list of its instructions, a request is always one the
\* server knows, and what is shown is a version of the next meal.
THEOREM GamelleTypeCorrect == Spec => []TypeOK
<1>1. TypeOK /\ [Next]_vars => TypeOK'
  <2>1. TypeOK /\ UNCHANGED vars => TypeOK'
    BY DEF TypeOK, vars
  <2> QED BY <2>1, TypeProgramme, TypeMessages, TypeServeur DEF Next, Bol
<1> QED BY <1>1, TypeInit, PTL DEF Spec

------------------------------------------------------------------------------
(* Orders. *)

LEMMA UneFoisPas ==
  ASSUME TypeOK, JamaisDeuxFois, [Next]_vars
  PROVE  JamaisDeuxFois'
<1> DEFINE n == Cardinality(EnRoute(entrants))
           apres == Cardinality(EnRoute(entrants'))
<1>1. /\ entrants \in Seq(Message) /\ servis \in Nat /\ ordres \in Nat
      /\ n \in Nat /\ servis + n <= ordres
  BY EnRouteFini DEF TypeOK, JamaisDeuxFois
<1>2. ASSUME apres <= n, apres \in Nat, servis' = servis, ordres' = ordres
      PROVE  servis' + apres <= ordres'
  BY <1>1, <1>2
<1>3. entrants' \in Seq(Message) /\ apres \in Nat
  <2>1. TypeOK'
    <3>1. CASE UNCHANGED vars
      BY <3>1 DEF TypeOK, vars
    <3> QED BY <3>1, TypeProgramme, TypeMessages, TypeServeur DEF Next, Bol
  <2>2. entrants' \in Seq(Message)
    BY <2>1 DEF TypeOK
  <2> QED BY <2>2, EnRouteFini
<1> SUFFICES servis' + apres <= ordres'
  BY DEF JamaisDeuxFois
<1>4. CASE UNCHANGED <<entrants, servis, ordres>>
  BY <1>1, <1>4
<1>5. ASSUME NEW m \in Message, m.action # "eatNow", entrants' = Append(entrants, m),
             UNCHANGED <<servis, ordres>>
      PROVE  servis' + apres <= ordres'
  <2>1. apres <= n
    BY <1>1, <1>3, <1>5, EnRouteAppend
  <2> QED BY <1>2, <1>3, <1>5, <2>1
<1>6. ASSUME entrants # <<>>, entrants' = Tail(entrants), UNCHANGED ordres,
             servis' = servis \/ (Head(entrants).action = "eatNow" /\ servis' = servis + 1)
      PROVE  servis' + apres <= ordres'
  <2>1. apres + (IF Head(entrants).action = "eatNow" THEN 1 ELSE 0) <= n
    BY <1>1, <1>6, EnRouteTail
  <2>2. n \in Nat /\ apres \in Nat /\ servis \in Nat /\ ordres \in Nat /\ servis + n <= ordres
    BY <1>1, <1>3
  <2> HIDE DEF n, apres
  <2>3. CASE Head(entrants).action = "eatNow"
    <3>1. apres + 1 <= n
      BY <2>1, <2>3
    <3> QED BY <1>6, <2>2, <3>1
  <2>4. CASE Head(entrants).action # "eatNow"
    <3>1. apres + 0 <= n
      BY <2>1, <2>4
    <3> QED BY <1>6, <2>2, <2>4, <3>1
  <2> QED BY <2>3, <2>4
<1>7. CASE UNCHANGED vars
  BY <1>4, <1>7 DEF vars
<1>8. CASE initSocket \/ Boucler \/ afficherImage \/ checkKeypad \/ Confirmer \/ sendMessage
  BY <1>4, <1>8 DEF initSocket, Boucler, afficherImage, checkKeypad, Confirmer,
     sendMessage, reseau, service
<1>9. CASE checkMessage
  <2>1. CASE entrants = <<>>
    BY <1>4, <1>9, <2>1 DEF checkMessage, service
  <2>2. CASE entrants # <<>>
    BY <1>6, <1>9, <2>2 DEF checkMessage, service
  <2> QED BY <2>1, <2>2
<1>10. CASE waitMessage
  BY <1>6, <1>10 DEF waitMessage, service
<1>11. CASE Repondre
  <2>1. servis' = servis /\ ordres' = ordres
    BY <1>11 DEF Repondre, appareil
  <2>2. PICK m \in Message \cup {Nul} :
          \/ entrants' = entrants
          \/ m \in Message /\ m.action # "eatNow" /\ entrants' = Append(entrants, m)
    <3>1. prochain' \in 0..MaxVersions
      BY <1>11, ConstantesAssumption DEF Repondre, TypeOK
    <3>2. NouveauProchain(prochain') \in Message /\ Document \in Message
      BY <3>1, Messages
    <3>3. NouveauProchain(prochain').action # "eatNow" /\ Document.action # "eatNow"
      BY DEF NouveauProchain, Document
    <3>4. \/ entrants' = entrants \/ entrants' = Append(entrants, Document)
          \/ entrants' = Append(entrants, NouveauProchain(prochain'))
      BY <1>11 DEF Repondre
    <3> QED BY <3>2, <3>3, <3>4
  <2> QED BY <1>4, <1>5, <2>1, <2>2
<1>12. CASE Changer
  <2>1. prochain' \in 0..MaxVersions
    BY <1>12, ConstantesAssumption DEF Changer, TypeOK
  <2>2. NouveauProchain(prochain') \in Message
    BY <2>1, Messages
  <2>3. NouveauProchain(prochain').action # "eatNow"
    BY DEF NouveauProchain
  <2>4. entrants' = entrants \/ entrants' = Append(entrants, NouveauProchain(prochain'))
    BY <1>1, <1>12, <2>2, EnvoiType DEF Changer, Pousser
  <2> QED BY <1>4, <1>5, <1>12, <2>2, <2>3, <2>4 DEF Changer, appareil
<1>13. CASE Ordonner
  <2> DEFINE s == Append(entrants, EatNow)
             p == NouveauProchain(prochain)
  <2>1. p \in Message /\ EatNow \in Message /\ p.action # "eatNow"
    BY Messages DEF TypeOK, NouveauProchain
  <2>2. entrants' = entrants \/ entrants' = Append(s, p)
    BY <1>1, <1>13, <2>1, EnvoiType DEF Ordonner, Pousser
  <2>3. s \in Seq(Message) /\ Cardinality(EnRoute(s)) <= n + 1
    <3>1. EatNow.action = "eatNow"
      BY DEF EatNow
    <3>2. s \in Seq(Message)
      BY <1>1, <2>1, AppendProperties
    <3>3. Cardinality(EnRoute(s)) <= n + (IF EatNow.action = "eatNow" THEN 1 ELSE 0)
      BY <1>1, <2>1, EnRouteAppend
    <3> QED BY <3>1, <3>2, <3>3
  <2>4. Cardinality(EnRoute(Append(s, p))) <= Cardinality(EnRoute(s))
    <3> HIDE DEF s, p
    <3>1. Cardinality(EnRoute(s)) \in Nat
      BY <2>3, EnRouteFini
    <3> QED BY <2>1, <2>3, <3>1, EnRouteAppend
  <2>5. Cardinality(EnRoute(s)) \in Nat
    BY <2>3, EnRouteFini
  <2>6. apres <= n + 1
    <3>1. CASE entrants' = entrants
      BY <1>1, <3>1
    <3>2. CASE entrants' = Append(s, p)
      <4>1. apres = Cardinality(EnRoute(Append(s, p)))
        BY <3>2
      <4> HIDE DEF n, apres, s, p
      <4> QED BY <1>1, <1>3, <2>3, <2>4, <2>5, <4>1
    <3> QED BY <2>2, <3>1, <3>2
  <2>7. servis' = servis /\ ordres' = ordres + 1
    BY <1>13 DEF Ordonner, appareil
  <2>8. n \in Nat /\ apres \in Nat /\ servis \in Nat /\ ordres \in Nat /\ servis + n <= ordres
    BY <1>1, <1>3
  <2> HIDE DEF n, apres
  <2> QED BY <2>6, <2>7, <2>8
<1>14. CASE Couper
  <2>1. EnRoute(entrants') = {}
    BY <1>14 DEF Couper, EnRoute
  <2>2. apres = 0
    BY <2>1, FS_EmptySet
  <2> QED BY <1>1, <1>14, <2>2 DEF Couper, appareil
<1> QED BY <1>7, <1>8, <1>9, <1>10, <1>11, <1>12, <1>13, <1>14 DEF Next, Bol

\* An order to serve is obeyed at most once, whatever the menus, the messages
\* taken for replies and the losses of the link (checkMessage, waitMessage).
THEOREM OrdresUneFois == Spec => []JamaisDeuxFois
<1>1. Init => JamaisDeuxFois
  <2> SUFFICES ASSUME Init PROVE JamaisDeuxFois
    OBVIOUS
  <2>1. EnRoute(entrants) = {}
    BY DEF Init, EnRoute
  <2>2. Cardinality(EnRoute(entrants)) = 0
    BY <2>1, FS_EmptySet
  <2> QED BY <2>2 DEF Init, JamaisDeuxFois
<1> QED BY <1>1, GamelleTypeCorrect, UneFoisPas, PTL DEF Spec
=============================================================================
