---------------------------- MODULE ProchainRepas --------------------------
(***************************************************************************)
(* nextMeal of traitement.js on the array itself: the forEach that looks   *)
(* for the earliest meal later today, then the reduce over all of them, as *)
(* the code goes through them.  The result is the meal that the operator   *)
(* Prochain of Planning, which Serveur calls, designates.                  *)
(*                                                                         *)
(* A definition marked "Variant" is a plausible mistake in the one below   *)
(* it, and no action uses it.                                              *)
(***************************************************************************)
EXTENDS Integers, Sequences, SequencesExt

CONSTANTS
  HeuresJour,    \* hours in a day
  MinutesHeure,  \* minutes in an hour
  MaxRepas       \* the limit of addMeal

\* parseInt of a refused hour is -1 or NaN: it is never later today.  Compared as
\* a string it comes before every digit, and it has no minutes.
Refusee == [h |-> -1, m |-> 0]
Heures == [h : 0..(HeuresJour - 1), m : 0..(MinutesHeure - 1)]

ASSUME JourAssumption ==
  HeuresJour \in Nat \ {0} /\ MinutesHeure \in Nat \ {0} /\ MaxRepas \in Nat

VARIABLES
  repas,  \* g.repas: the hours of the meals, in the order of the array
  now     \* heureNow and minuteNow

vars == <<repas, now>>

------------------------------------------------------------------------------
\* Variants: a meal of the current minute, the last of two equal meals.
PlusTardEgal(r) == r.h > now.h \/ (r.h = now.h /\ r.m >= now.m)
MieuxEgal(r, min) == r.h < min.h \/ (r.h = min.h /\ r.m <= min.m)

\* forEach: the guard on the current hour and minute, then on the best so far.
PlusTard(r) == r.h > now.h \/ (r.h = now.h /\ r.m > now.m)
Mieux(r, min) == r.h < min.h \/ (r.h = min.h /\ r.m < min.m)
Parcourir(min, i) ==
  IF PlusTard(repas[i]) /\ Mieux(repas[i], min)
  THEN [h |-> repas[i].h, m |-> repas[i].m, index |-> i] ELSE min
Parcours[n \in 0..Len(repas)] ==
  IF n = 0 THEN [h |-> HeuresJour + 1, m |-> MinutesHeure, index |-> -1]
  ELSE Parcourir(Parcours[n - 1], n)
PlusProche == Parcours[Len(repas)]

\* Variant: the minutes are not compared.
ReduireHeures(i, j) == IF repas[i].h <= repas[j].h THEN i ELSE j

\* reduce: r1 stays if its hour is less, or equal with fewer minutes.
Reduire(i, j) ==
  IF \/ repas[i].h < repas[j].h
     \/ repas[i].h = repas[j].h /\ repas[i].m < repas[j].m
  THEN i ELSE j
Reduction[n \in 1..Len(repas)] ==
  IF n = 1 THEN 1 ELSE Reduire(Reduction[n - 1], n)
PremierDemain == Reduction[Len(repas)]

\* Variant: what follows the last meal of the day is forgotten.
nextMealDuJour == IF repas = <<>> THEN 0 ELSE PlusProche.index

\* The index of the next meal; 0 stands for the message -1, -1 of an empty array.
nextMeal == IF repas = <<>> THEN 0
            ELSE IF PlusProche.index = -1 THEN PremierDemain ELSE PlusProche.index

------------------------------------------------------------------------------
Init ==
  /\ repas \in SeqOf(Heures \cup {Refusee}, MaxRepas)
  /\ now \in Heures

Minute ==
  /\ now' = IF now.m < MinutesHeure - 1 THEN [now EXCEPT !.m = @ + 1]
            ELSE [h |-> (now.h + 1) % HeuresJour, m |-> 0]
  /\ UNCHANGED repas

Next == Minute
Spec == Init /\ [][Next]_vars

------------------------------------------------------------------------------
TypeOK == nextMeal \in DOMAIN repas \cup {0}

Instant(r) == r.h * MinutesHeure + r.m
Reste == {i \in DOMAIN repas : Instant(repas[i]) > Instant(now)}
Tot(S) == {i \in S : \A j \in S : Instant(repas[i]) <= Instant(repas[j])}

\* What the two loops compute: the earliest meal strictly later today, the first
\* of the array among equals; when there is none, the earliest of all, the last
\* among equals (a refused hour comes before any other).
ProchainJuste ==
  repas # <<>> =>
    IF Reste # {}
    THEN nextMeal \in Tot(Reste) /\ \A j \in Tot(Reste) : nextMeal <= j
    ELSE LET avant(i) == IF repas[i] = Refusee THEN -1 ELSE Instant(repas[i])
         IN  \A j \in DOMAIN repas :
               \/ avant(nextMeal) < avant(j)
               \/ avant(nextMeal) = avant(j) /\ j <= nextMeal

\* The array as Serveur keeps it: a set of records, hours as minutes of the day.
PlanningDuJour ==
  {[rang |-> i, heure |-> IF repas[i] = Refusee THEN -1 ELSE Instant(repas[i])]
     : i \in DOMAIN repas}
Jour == INSTANCE Planning WITH maintenant <- Instant(now)

\* The two loops end on the meal that Prochain designates: what Serveur takes for
\* nextMeal is what the code computes.
ProchainDuServeur ==
  repas # <<>> => Jour!Prochain(PlanningDuJour).rang = nextMeal

\* While no meal has a refused hour, what the device shows stays right by itself
\* until the minute it shows: nextMeal gives another hour only when that of the
\* last answer has come, midnight included.  The server counts on it, since only
\* distribution tells the device of the following meal.
ChangeALHeure ==
  [][ (repas # <<>> /\ \A i \in DOMAIN repas : repas[i] # Refusee)
      => \/ repas'[nextMeal'] = repas[nextMeal]
         \/ now' = repas[nextMeal] ]_vars
=============================================================================
