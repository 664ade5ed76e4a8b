--------------------------- MODULE ProchainPreuves -------------------------
(***************************************************************************)
(* Proofs about nextMeal for every array of meals and every day.  The two  *)
(* loops are functions of the number of turns; induction over the turns is *)
(* done on the least turn that fails, a set of naturals, so that no lemma  *)
(* takes an operator.                                                      *)
(***************************************************************************)
EXTENDS ProchainRepas, TLAPS, NaturalsInduction, WellFoundedInduction,
        SequenceTheorems

\* What holds at turn a and goes on from a turn to the next holds up to turn N.
LEMMA DeTourEnTour ==
  ASSUME NEW a \in Nat, NEW N \in Nat, NEW S,
         a \in S, \A n \in a..N : n \in S /\ n < N => n + 1 \in S
  PROVE  \A n \in a..N : n \in S
<1> DEFINE Contre == (a..N) \ S
<1>1. SUFFICES ASSUME Contre # {} PROVE FALSE
  OBVIOUS
<1>2. Contre \subseteq Nat
  OBVIOUS
<1>3. PICK x \in Contre : \A y \in Contre : ~(<<y, x>> \in OpToRel(<, Nat))
  <2> HIDE DEF Contre
  <2> QED BY <1>1, <1>2, NatLessThanWellFounded, WFMin, Zenon
<1>4. \A y \in Contre : ~(y < x)
  <2> HIDE DEF Contre
  <2> QED BY <1>2, <1>3, Zenon DEF OpToRel
<1>5. x \in a..N /\ x \notin S /\ x # a
  OBVIOUS
<1>6. x - 1 \in a..N /\ x - 1 < x /\ x - 1 < N
  BY <1>5
<1>7. x - 1 \in S
  BY <1>4, <1>6
<1> QED BY <1>5, <1>6, <1>7

\* The functions on the turns from a to N that start at init and go on with op.
Suites(T, a, N, init, op) ==
  {f \in [a..N -> T] :
     f[a] = init /\ \A n \in (a + 1)..N : f[n] = op[<<f[n - 1], n>>]}

\* There is one: a function may be defined turn after turn.
LEMMA Recurrence ==
  ASSUME NEW T, NEW a \in Nat, NEW N \in Nat, a <= N, NEW init \in T,
         NEW op \in [T \X (a..N) -> T]
  PROVE  Suites(T, a, N, init, op) # {}
<1> DEFINE Suit(f, k) == /\ f \in [a..k -> T] /\ f[a] = init
                         /\ \A n \in (a + 1)..k : f[n] = op[<<f[n - 1], n>>]
           S == {k \in a..N : \E f : Suit(f, k)}
<1>1. a \in S
  <2>1. Suit([n \in a..a |-> init], a)
    OBVIOUS
  <2> HIDE DEF Suit
  <2> QED BY <2>1
<1>2. ASSUME NEW k \in a..N, k \in S, k < N PROVE k + 1 \in S
  <2>1. PICK f : Suit(f, k)
    <3> HIDE DEF Suit
    <3> QED BY <1>2
  <2> DEFINE h == [n \in a..(k + 1) |->
                     IF n = k + 1 THEN op[<<f[k], k + 1>>] ELSE f[n]]
  <2>2. k + 1 \in a..N /\ k \in Nat /\ k >= a /\ f[k] \in T
    <3>1. k + 1 \in a..N /\ k \in Nat /\ k >= a /\ k \in a..k
      BY <1>2
    <3> QED BY <2>1, <3>1
  <2>3. op[<<f[k], k + 1>>] \in T
    BY <2>2
  <2>4. h \in [a..(k + 1) -> T]
    <3>1. \A n \in a..(k + 1) : n = k + 1 \/ n \in a..k
      BY <2>2
    <3> QED BY <2>1, <2>3, <3>1
  <2>5. h[a] = init
    BY <2>1, <2>2
  <2>6. ASSUME NEW n \in (a + 1)..(k + 1) PROVE h[n] = op[<<h[n - 1], n>>]
    <3>1. n - 1 \in a..k /\ h[n - 1] = f[n - 1]
      BY <2>2
    <3>2. CASE n = k + 1
      <4>1. n - 1 = k /\ h[n] = op[<<f[k], n>>]
        BY <2>2, <3>2
      <4> HIDE DEF h, Suit
      <4> QED BY <3>1, <4>1
    <3>3. CASE n # k + 1
      <4>1. n \in (a + 1)..k /\ h[n] = f[n]
        BY <2>2, <3>3
      <4>2. f[n] = op[<<f[n - 1], n>>]
        BY <2>1, <4>1
      <4> HIDE DEF h, Suit
      <4> QED BY <3>1, <4>1, <4>2
    <3> QED BY <3>2, <3>3
  <2>7. Suit(h, k + 1)
    <3> HIDE DEF h
    <3> QED BY <2>4, <2>5, <2>6
  <2> HIDE DEF Suit
  <2> QED BY <2>2, <2>7
<1>3. N \in S
  <2>1. \A n \in a..N : n \in S /\ n < N => n + 1 \in S
    BY <1>2
  <2>2. N \in a..N
    OBVIOUS
  <2> HIDE DEF S
  <2> QED BY <1>1, <2>1, <2>2, DeTourEnTour
<1>4. PICK f : Suit(f, N)
  <2> HIDE DEF Suit
  <2> QED BY <1>3
<1> QED BY <1>4 DEF Suites

------------------------------------------------------------------------------
(* Instants of the day. *)

LEMMA Produit ==
  ASSUME NEW x \in Int, NEW y \in Int, NEW M \in Nat
  PROVE  /\ x * M \in Int
         /\ x > y => x * M >= y * M + M
<1>1. ASSUME x > y PROVE x * M >= y * M + M
  <2>1. x = y + (x - y) /\ x - y >= 1
    BY <1>1
  <2> QED BY <2>1
<1> QED BY <1>1

\* Minutes of the day order the hours as the loops compare them.
LEMMA InstantsOrdonnes ==
  ASSUME NEW r \in Heures \cup {Refusee}, NEW s \in Heures \cup {Refusee}
  PROVE  /\ Instant(r) \in Int /\ Instant(s) \in Int
         /\ Instant(r) < Instant(s) <=> r.h < s.h \/ (r.h = s.h /\ r.m < s.m)
         /\ Instant(r) = Instant(s) <=> r = s
<1>1. /\ r.h \in Int /\ s.h \in Int /\ r.m \in Nat /\ s.m \in Nat
      /\ r.m < MinutesHeure /\ s.m < MinutesHeure /\ MinutesHeure \in Nat
      /\ r = [h |-> r.h, m |-> r.m] /\ s = [h |-> s.h, m |-> s.m]
  BY JourAssumption DEF Heures, Refusee
<1>2. /\ Instant(r) = r.h * MinutesHeure + r.m
      /\ Instant(s) = s.h * MinutesHeure + s.m
  BY DEF Instant
<1>3. /\ r.h * MinutesHeure \in Int /\ s.h * MinutesHeure \in Int
      /\ r.h > s.h => r.h * MinutesHeure >= s.h * MinutesHeure + MinutesHeure
      /\ s.h > r.h => s.h * MinutesHeure >= r.h * MinutesHeure + MinutesHeure
  BY <1>1, Produit
<1>4. Instant(r) \in Int /\ Instant(s) \in Int
  BY <1>1, <1>2, <1>3
<1>5. CASE r.h < s.h
  BY <1>1, <1>2, <1>3, <1>5
<1>6. CASE s.h < r.h
  BY <1>1, <1>2, <1>3, <1>6
<1>7. CASE r.h = s.h
  BY <1>1, <1>2, <1>3, <1>7
<1> QED BY <1>1, <1>4, <1>5, <1>6, <1>7

------------------------------------------------------------------------------
(* The loops. *)

Etats == /\ repas \in Seq(Heures \cup {Refusee})
         /\ now \in Heures

Depart == [h |-> HeuresJour + 1, m |-> MinutesHeure, index |-> -1]

LEMMA Tableau ==
  ASSUME Etats
  PROVE  /\ Len(repas) \in Nat /\ DOMAIN repas = 1..Len(repas)
         /\ \A i \in 1..Len(repas) : repas[i] \in Heures \cup {Refusee}
         /\ repas # <<>> <=> Len(repas) >= 1
<1>1. /\ Len(repas) \in Nat /\ DOMAIN repas = 1..Len(repas)
      /\ repas \in [1..Len(repas) -> Heures \cup {Refusee}]
  BY LenProperties DEF Etats
<1>2. repas # <<>> <=> Len(repas) >= 1
  BY <1>1, EmptySeq DEF Etats
<1> QED BY <1>1, <1>2

\* The forEach, turn by turn.
LEMMA ParcoursDefini ==
  ASSUME Etats
  PROVE  /\ Parcours[0] = Depart
         /\ \A n \in 1..Len(repas) : Parcours[n] = Parcourir(Parcours[n - 1], n)
<1> DEFINE N == Len(repas)
           T == [h : Int, m : Int, index : Int]
           op == [p \in T \X (0..N) |-> IF p[2] = 0 THEN Depart ELSE Parcourir(p[1], p[2])]
<1>1. N \in Nat /\ Depart \in T
  BY Tableau, JourAssumption DEF Depart
<1>2. ASSUME NEW x \in T, NEW n \in 1..N PROVE Parcourir(x, n) \in T
  <2>1. repas[n] \in Heures \cup {Refusee}
    BY Tableau
  <2>2. repas[n].h \in Int /\ repas[n].m \in Int
    BY <2>1, JourAssumption DEF Heures, Refusee
  <2> QED BY <1>1, <2>2 DEF Parcourir
<1>3. op \in [T \X (0..N) -> T]
  <2>1. ASSUME NEW p \in T \X (0..N)
        PROVE  (IF p[2] = 0 THEN Depart ELSE Parcourir(p[1], p[2])) \in T
    <3>1. p[1] \in T /\ p[2] \in 0..N
      BY <2>1
    <3>2. p[2] = 0 \/ p[2] \in 1..N
      BY <1>1, <3>1
    <3> HIDE DEF T, N
    <3> QED BY <1>1, <1>2, <3>1, <3>2
  <2> HIDE DEF T, N
  <2> QED BY <2>1
<1>4. PICK f \in [0..N -> T] :
        f[0] = Depart /\ \A n \in 1..N : f[n] = op[<<f[n - 1], n>>]
  <2>1. 0 <= N
    BY <1>1
  <2> HIDE DEF T, N, op
  <2>2. Suites(T, 0, N, Depart, op) # {}
    BY <1>1, <1>3, <2>1, Recurrence
  <2>3. PICK f \in Suites(T, 0, N, Depart, op) : TRUE
    BY <2>2
  <2>4. f \in [0..N -> T] /\ f[0] = Depart /\ \A n \in 1..N : f[n] = op[<<f[n - 1], n>>]
    BY <2>3 DEF Suites
  <2> QED BY <2>4
<1>5. ASSUME NEW n \in 1..N
      PROVE  op[<<f[n - 1], n>>] = Parcourir(f[n - 1], n)
  <2>1. f[n - 1] \in T
    <3>1. n - 1 \in 0..N
      BY <1>1, <1>5
    <3> QED BY <3>1
  <2>2. <<f[n - 1], n>> \in T \X (0..N)
    BY <2>1
  <2> HIDE DEF T, N
  <2> QED BY <1>5, <2>2
<1>6. f = [n \in 0..N |-> IF n = 0 THEN Depart ELSE Parcourir(f[n - 1], n)]
  <2>1. \A n \in 0..N : n = 0 \/ n \in 1..N
    BY <1>1
  <2> HIDE DEF T, N, op
  <2> QED BY <1>4, <1>5, <2>1
<1>7. Parcours = [n \in 0..N |-> IF n = 0 THEN Depart ELSE Parcourir(Parcours[n - 1], n)]
  <2> HIDE DEF T, op
  <2> QED BY <1>6, Zenon DEF Parcours, Depart
<1>8. ASSUME NEW n \in 0..N
      PROVE  Parcours[n] = IF n = 0 THEN Depart ELSE Parcourir(Parcours[n - 1], n)
  <2> HIDE DEF T, op, N
  <2> QED BY <1>7, Zenon
<1> QED BY <1>1, <1>8

\* The reduce, turn by turn; reduce of an empty array is not reached.
LEMMA ReductionDefinie ==
  ASSUME Etats, repas # <<>>
  PROVE  /\ Reduction[1] = 1
         /\ \A n \in 2..Len(repas) : Reduction[n] = Reduire(Reduction[n - 1], n)
<1> DEFINE N == Len(repas)
           T == 1..N
           op == [p \in T \X (1..N) |-> Reduire(p[1], p[2])]
<1>1. N \in Nat /\ 1 <= N /\ 1 \in T /\ 1 \in Nat
  BY Tableau
<1>2. ASSUME NEW x \in T, NEW n \in 1..N PROVE Reduire(x, n) \in T
  BY DEF Reduire
<1>3. op \in [T \X (1..N) -> T]
  <2>1. ASSUME NEW p \in T \X (1..N) PROVE Reduire(p[1], p[2]) \in T
    <3>1. p[1] \in T /\ p[2] \in 1..N
      BY <2>1
    <3> HIDE DEF T, N
    <3> QED BY <1>2, <3>1
  <2> HIDE DEF T, N
  <2> QED BY <2>1
<1>4. PICK f \in [1..N -> T] :
        f[1] = 1 /\ \A n \in 2..N : f[n] = op[<<f[n - 1], n>>]
  <2> HIDE DEF T, N, op
  <2>1. Suites(T, 1, N, 1, op) # {}
    BY <1>1, <1>3, Recurrence
  <2>2. PICK f \in Suites(T, 1, N, 1, op) : TRUE
    BY <2>1
  <2>3. f \in [1..N -> T] /\ f[1] = 1 /\ \A n \in 2..N : f[n] = op[<<f[n - 1], n>>]
    BY <2>2 DEF Suites
  <2> QED BY <2>3
<1>5. ASSUME NEW n \in 2..N
      PROVE  op[<<f[n - 1], n>>] = Reduire(f[n - 1], n)
  <2>1. n - 1 \in 1..N /\ n \in 1..N
    BY <1>1, <1>5
  <2>2. f[n - 1] \in T
    BY <2>1
  <2>3. <<f[n - 1], n>> \in T \X (1..N)
    BY <2>1, <2>2
  <2> HIDE DEF T, N
  <2> QED BY <1>5, <2>3
<1>6. f = [n \in 1..N |-> IF n = 1 THEN 1 ELSE Reduire(f[n - 1], n)]
  <2>1. \A n \in 1..N : n = 1 \/ n \in 2..N
    BY <1>1
  <2> HIDE DEF T, N, op
  <2> QED BY <1>4, <1>5, <2>1
<1>7. Reduction = [n \in 1..N |-> IF n = 1 THEN 1 ELSE Reduire(Reduction[n - 1], n)]
  <2> HIDE DEF T, op
  <2> QED BY <1>6, Zenon DEF Reduction
<1>8. ASSUME NEW n \in 1..N
      PROVE  Reduction[n] = IF n = 1 THEN 1 ELSE Reduire(Reduction[n - 1], n)
  <2> HIDE DEF T, op, N
  <2> QED BY <1>7, Zenon
<1> QED BY <1>1, <1>8

\* After n turns of the forEach: the first of the earliest meals later today.
Trouve(n) ==
  LET p == Parcours[n]
  IN  \/ p = Depart /\ \A j \in 1..n : ~PlusTard(repas[j])
      \/ /\ p.index \in 1..n /\ p.h = repas[p.index].h /\ p.m = repas[p.index].m
         /\ PlusTard(repas[p.index])
         /\ \A j \in 1..n : PlusTard(repas[j]) =>
              \/ Instant(repas[p.index]) < Instant(repas[j])
              \/ Instant(repas[p.index]) = Instant(repas[j]) /\ p.index <= j

LEMMA ParcoursTrouve ==
  ASSUME Etats
  PROVE  Trouve(Len(repas))
<1> DEFINE N == Len(repas)
           S == {n \in 0..N : Trouve(n)}
<1>1. N \in Nat /\ 0 \in Nat /\ N \in 0..N /\ 0 \in 0..N
  BY Tableau
<1>2. 0 \in S
  <2>1. Trouve(0)
    BY ParcoursDefini DEF Trouve
  <2> QED BY <1>1, <2>1
<1>3. ASSUME NEW n \in 0..N, n \in S, n < N PROVE n + 1 \in S
  <2> DEFINE i == n + 1
             p == Parcours[n]
  <2>1. i \in 1..N /\ i \in 0..N /\ i - 1 = n /\ \A j \in 1..i : j = i \/ j \in 1..n
    BY <1>1, <1>3
  <2>2. Parcours[i] = Parcourir(p, i)
    <3>1. Parcours[i] = Parcourir(Parcours[i - 1], i)
      BY <2>1, ParcoursDefini
    <3> QED BY <2>1, <3>1
  <2>3. /\ \A j \in 1..N : repas[j] \in Heures \cup {Refusee} /\ Instant(repas[j]) \in Int
        /\ \A j, k \in 1..N :
             /\ Instant(repas[j]) < Instant(repas[k])
                  <=> \/ repas[j].h < repas[k].h
                      \/ repas[j].h = repas[k].h /\ repas[j].m < repas[k].m
             /\ Instant(repas[j]) = Instant(repas[k]) <=> repas[j] = repas[k]
    BY Tableau, InstantsOrdonnes
  <2>4. Trouve(n)
    BY <1>3
  <2>5. Trouve(i)
    <3>1. CASE ~PlusTard(repas[i])
      <4>1. Parcours[i] = p
        BY <2>2, <3>1 DEF Parcourir
      <4>2. p.index \in 1..n => p.index \in 1..i
        BY <1>1, <2>1
      <4> HIDE DEF i, p
      <4> QED BY <2>1, <2>4, <3>1, <4>1, <4>2 DEF Trouve, p
    <3>2. CASE PlusTard(repas[i]) /\ p = Depart /\ \A j \in 1..n : ~PlusTard(repas[j])
      <4>1. repas[i].h < HeuresJour + 1
        BY <2>1, <2>3, JourAssumption DEF Heures, Refusee
      <4>2. Mieux(repas[i], p)
        BY <3>2, <4>1 DEF Mieux, Depart
      <4>3. Parcours[i] = [h |-> repas[i].h, m |-> repas[i].m, index |-> i]
        BY <2>2, <3>2, <4>2 DEF Parcourir
      <4>4. i \in 1..i /\ i <= i
        BY <2>1
      <4> HIDE DEF i, p
      <4> QED BY <2>1, <3>2, <4>3, <4>4 DEF Trouve
    <3>3. ASSUME PlusTard(repas[i]), p.index \in 1..n,
                 p.h = repas[p.index].h /\ p.m = repas[p.index].m,
                 PlusTard(repas[p.index]),
                 \A j \in 1..n : PlusTard(repas[j]) =>
                   \/ Instant(repas[p.index]) < Instant(repas[j])
                   \/ Instant(repas[p.index]) = Instant(repas[j]) /\ p.index <= j
          PROVE  Trouve(i)
      <4> DEFINE k == p.index
      <4>1. k \in 1..N /\ k \in 1..i /\ k < i /\ \A j \in 1..i : j \in 1..N /\ j <= i
        BY <1>1, <1>3, <2>1, <3>3
      <4>2. Mieux(repas[i], p) <=> Instant(repas[i]) < Instant(repas[k])
        BY <2>1, <2>3, <3>3, <4>1 DEF Mieux
      <4>3. CASE Instant(repas[i]) < Instant(repas[k])
        <5>1. Parcours[i] = [h |-> repas[i].h, m |-> repas[i].m, index |-> i]
          BY <2>2, <3>3, <4>2, <4>3 DEF Parcourir
        <5>2. ASSUME NEW j \in 1..i, PlusTard(repas[j])
              PROVE  \/ Instant(repas[i]) < Instant(repas[j])
                     \/ Instant(repas[i]) = Instant(repas[j]) /\ i <= j
          <6>1. CASE j = i
            BY <2>1, <6>1
          <6>2. CASE j \in 1..n
            <7>1. Instant(repas[k]) <= Instant(repas[j])
              BY <2>3, <3>3, <4>1, <5>2, <6>2
            <7> HIDE DEF k, i
            <7> QED BY <2>1, <2>3, <4>1, <4>3, <7>1
          <6> QED BY <2>1, <6>1, <6>2
        <5>3. i \in 1..i
          BY <2>1
        <5> HIDE DEF i, p, k
        <5> QED BY <3>3, <5>1, <5>2, <5>3 DEF Trouve
      <4>4. CASE ~(Instant(repas[i]) < Instant(repas[k]))
        <5>1. Parcours[i] = p
          BY <2>2, <4>2, <4>4 DEF Parcourir
        <5>2. ASSUME NEW j \in 1..i, PlusTard(repas[j])
              PROVE  \/ Instant(repas[k]) < Instant(repas[j])
                     \/ Instant(repas[k]) = Instant(repas[j]) /\ k <= j
          <6>1. CASE j = i
            BY <2>1, <2>3, <4>1, <4>4, <6>1
          <6>2. CASE j \in 1..n
            BY <3>3, <5>2, <6>2
          <6> QED BY <2>1, <6>1, <6>2
        <5> HIDE DEF i, p
        <5> QED BY <3>3, <4>1, <5>1, <5>2 DEF Trouve
      <4> QED BY <4>3, <4>4
    <3> QED BY <2>4, <3>1, <3>2, <3>3 DEF Trouve
  <2> QED BY <2>1, <2>5
<1>4. \A n \in 0..N : n \in S
  <2> HIDE DEF S, N
  <2> QED BY <1>1, <1>2, <1>3, DeTourEnTour
<1> QED BY <1>1, <1>4

\* After the turn of meal n, the reduce holds the last of the earliest meals.
Reduit(n) ==
  LET k == Reduction[n]
  IN  /\ k \in 1..n
      /\ \A j \in 1..n : \/ Instant(repas[k]) < Instant(repas[j])
                         \/ Instant(repas[k]) = Instant(repas[j]) /\ j <= k

LEMMA ReductionReduit ==
  ASSUME Etats, repas # <<>>
  PROVE  Reduit(Len(repas))
<1> DEFINE N == Len(repas)
           S == {n \in 1..N : Reduit(n)}
<1>1. N \in Nat /\ 1 \in Nat /\ N \in 1..N /\ 1 \in 1..N
  BY Tableau
<1>2. 1 \in S
  <2>1. \A j \in 1..1 : j = 1
    OBVIOUS
  <2>2. Reduit(1)
    BY <2>1, ReductionDefinie DEF Reduit
  <2> QED BY <1>1, <2>2
<1>3. ASSUME NEW n \in 1..N, n \in S, n < N PROVE n + 1 \in S
  <2> DEFINE i == n + 1
             k == Reduction[n]
  <2>1. /\ i \in 2..N /\ i \in 1..N /\ i - 1 = n
        /\ \A j \in 1..i : (j = i \/ j \in 1..n) /\ j \in 1..N
    BY <1>1, <1>3
  <2>2. Reduction[i] = Reduire(k, i)
    <3>1. Reduction[i] = Reduire(Reduction[i - 1], i)
      BY <2>1, ReductionDefinie
    <3> QED BY <2>1, <3>1
  <2>3. /\ k \in 1..n
        /\ \A j \in 1..n : \/ Instant(repas[k]) < Instant(repas[j])
                           \/ Instant(repas[k]) = Instant(repas[j]) /\ j <= k
    BY <1>3 DEF Reduit
  <2>4. k \in 1..N /\ k \in 1..i /\ k < i /\ i \in 1..i
    BY <1>1, <1>3, <2>1, <2>3
  <2>5. /\ \A j \in 1..N : Instant(repas[j]) \in Int
        /\ Instant(repas[k]) < Instant(repas[i])
             <=> \/ repas[k].h < repas[i].h
                 \/ repas[k].h = repas[i].h /\ repas[k].m < repas[i].m
    BY <2>1, <2>4, Tableau, InstantsOrdonnes
  <2>6. Reduction[i] = IF Instant(repas[k]) < Instant(repas[i]) THEN k ELSE i
    BY <2>2, <2>5 DEF Reduire
  <2>7. Reduit(i)
    <3>1. CASE Instant(repas[k]) < Instant(repas[i])
      <4>1. Reduction[i] = k
        BY <2>6, <3>1
      <4>2. ASSUME NEW j \in 1..i
            PROVE  \/ Instant(repas[k]) < Instant(repas[j])
                   \/ Instant(repas[k]) = Instant(repas[j]) /\ j <= k
        BY <2>1, <2>3, <3>1
      <4> HIDE DEF i, k
      <4> QED BY <2>4, <4>1, <4>2 DEF Reduit
    <3>2. CASE ~(Instant(repas[k]) < Instant(repas[i]))
      <4>1. Reduction[i] = i
        BY <2>6, <3>2
      <4>2. ASSUME NEW j \in 1..i
            PROVE  \/ Instant(repas[i]) < Instant(repas[j])
                   \/ Instant(repas[i]) = Instant(repas[j]) /\ j <= i
        <5>1. CASE j = i
          BY <2>1, <5>1
        <5>2. CASE j \in 1..n
          <6>1. Instant(repas[k]) <= Instant(repas[j]) /\ j <= i
            BY <2>1, <2>3, <2>4, <2>5, <5>2
          <6> HIDE DEF i, k
          <6> QED BY <2>1, <2>4, <2>5, <3>2, <6>1
        <5> QED BY <2>1, <5>1, <5>2
      <4> HIDE DEF i, k
      <4> QED BY <2>4, <4>1, <4>2 DEF Reduit
    <3> QED BY <3>1, <3>2
  <2> QED BY <2>1, <2>7
<1>4. \A n \in 1..N : n \in S
  <2> HIDE DEF S, N
  <2> QED BY <1>1, <1>2, <1>3, DeTourEnTour
<1> QED BY <1>1, <1>4

------------------------------------------------------------------------------
(* What nextMeal answers, for an array and a minute. *)

\* The characterisation of ProchainJuste with instants only: a refused hour is
\* before midnight.
Exacte ==
  /\ nextMeal \in 1..Len(repas)
  /\ Reste # {} =>
       /\ nextMeal \in Reste
       /\ \A j \in Reste : \/ Instant(repas[nextMeal]) < Instant(repas[j])
                           \/ /\ Instant(repas[nextMeal]) = Instant(repas[j])
                              /\ nextMeal <= j
  /\ Reste = {} =>
       \A j \in 1..Len(repas) :
         \/ Instant(repas[nextMeal]) < Instant(repas[j])
         \/ Instant(repas[nextMeal]) = Instant(repas[j]) /\ j <= nextMeal

LEMMA Reponse == Etats /\ repas # <<>> => Exacte
<1> SUFFICES ASSUME Etats, repas # <<>> PROVE Exacte
  OBVIOUS
<1> DEFINE N == Len(repas)
           p == Parcours[N]
<1>1. /\ N \in Nat /\ DOMAIN repas = 1..N
      /\ \A i \in 1..N : repas[i] \in Heures \cup {Refusee}
  BY Tableau
<1>2. ASSUME NEW i \in 1..N PROVE i \in Reste <=> PlusTard(repas[i])
  <2>1. /\ Instant(now) < Instant(repas[i])
             <=> now.h < repas[i].h \/ (now.h = repas[i].h /\ now.m < repas[i].m)
        /\ Instant(now) \in Int /\ Instant(repas[i]) \in Int
    BY <1>1, InstantsOrdonnes DEF Etats
  <2>2. now.h \in Int /\ now.m \in Int /\ repas[i].h \in Int /\ repas[i].m \in Int
    BY <1>1, JourAssumption DEF Etats, Heures, Refusee
  <2> QED BY <1>1, <2>1, <2>2 DEF Reste, PlusTard
<1>3. Reste \subseteq 1..N
  BY <1>1 DEF Reste
<1>4. PlusProche = p /\ PremierDemain = Reduction[N]
  BY DEF PlusProche, PremierDemain
<1>5. CASE p = Depart /\ \A j \in 1..N : ~PlusTard(repas[j])
  <2>1. Reste = {}
    BY <1>2, <1>3, <1>5
  <2>2. nextMeal = Reduction[N]
    BY <1>4, <1>5 DEF nextMeal, Depart
  <2> QED BY <2>1, <2>2, ReductionReduit DEF Reduit, Exacte
<1>6. CASE /\ p.index \in 1..N /\ PlusTard(repas[p.index])
           /\ \A j \in 1..N : PlusTard(repas[j]) =>
                \/ Instant(repas[p.index]) < Instant(repas[j])
                \/ Instant(repas[p.index]) = Instant(repas[j]) /\ p.index <= j
  <2>1. nextMeal = p.index
    BY <1>1, <1>4, <1>6 DEF nextMeal
  <2>2. nextMeal \in Reste
    BY <1>2, <1>6, <2>1
  <2> HIDE DEF p, N
  <2> QED BY <1>2, <1>3, <1>6, <2>1, <2>2 DEF N, Exacte
<1>7. Trouve(N)
  BY ParcoursTrouve
<1> QED BY <1>5, <1>6, <1>7 DEF Trouve

LEMMA EtatsInit == Init => Etats
<1> SUFFICES ASSUME Init PROVE Etats
  OBVIOUS
<1>1. PICK n \in 0..MaxRepas : repas \in [1..n -> Heures \cup {Refusee}]
  BY DEF Init, SeqOf
<1>2. n \in Nat
  BY JourAssumption
<1> QED BY <1>1, <1>2, SeqDef DEF Init, Etats

LEMMA EtatsStables == Etats /\ [Next]_vars => Etats'
<1> SUFFICES ASSUME Etats, [Next]_vars PROVE Etats'
  OBVIOUS
<1>1. CASE Minute
  <2>1. now.h \in 0..(HeuresJour - 1) /\ now.m \in 0..(MinutesHeure - 1)
    BY DEF Etats, Heures
  <2>2. (now.h + 1) % HeuresJour \in 0..(HeuresJour - 1)
    BY <2>1, JourAssumption
  <2>3. [h |-> (now.h + 1) % HeuresJour, m |-> 0] \in Heures
    BY <2>2, JourAssumption DEF Heures
  <2>4. CASE now.m < MinutesHeure - 1
    BY <1>1, <2>1, <2>4, JourAssumption DEF Minute, Etats, Heures
  <2>5. CASE ~(now.m < MinutesHeure - 1)
    BY <1>1, <2>3, <2>5 DEF Minute, Etats
  <2> QED BY <2>4, <2>5
<1>2. CASE UNCHANGED vars
  BY <1>2 DEF vars, Etats
<1> QED BY <1>1, <1>2 DEF Next

\* Whatever the array and the minute, nextMeal answers an index of the array, or
\* says that it is empty.
THEOREM ReponseToujoursIndex == Spec => []TypeOK
<1>1. Etats => TypeOK
  <2> SUFFICES ASSUME Etats PROVE TypeOK
    OBVIOUS
  <2>1. CASE repas = <<>>
    BY <2>1 DEF TypeOK, nextMeal
  <2>2. CASE repas # <<>>
    BY <2>2, Tableau, Reponse DEF TypeOK, Exacte
  <2> QED BY <2>1, <2>2
<1> QED BY <1>1, EtatsInit, EtatsStables, PTL DEF Spec

LEMMA ReponseJuste == Etats => ProchainJuste
<1> SUFFICES ASSUME Etats, repas # <<>> PROVE ProchainJuste
  BY DEF ProchainJuste
<1> DEFINE N == Len(repas)
           avant(i) == IF repas[i] = Refusee THEN -1 ELSE Instant(repas[i])
<1>1. /\ N \in Nat /\ DOMAIN repas = 1..N /\ nextMeal \in 1..N
      /\ \A i \in 1..N : repas[i] \in Heures \cup {Refusee} /\ Instant(repas[i]) \in Int
  BY Tableau, Reponse, InstantsOrdonnes DEF Exacte
<1>2. Reste \subseteq 1..N
  BY <1>1 DEF Reste
<1>3. ASSUME Reste # {}
      PROVE  nextMeal \in Tot(Reste) /\ \A j \in Tot(Reste) : nextMeal <= j
  <2>1. \A j \in Reste : \/ Instant(repas[nextMeal]) < Instant(repas[j])
                         \/ /\ Instant(repas[nextMeal]) = Instant(repas[j])
                            /\ nextMeal <= j
    BY <1>3, Reponse DEF Exacte
  <2>2. nextMeal \in Reste
    BY <1>3, Reponse DEF Exacte
  <2> HIDE DEF N
  <2> QED BY <1>1, <1>2, <2>1, <2>2 DEF Tot
<1>4. ASSUME Reste = {}, NEW j \in 1..N
      PROVE  \/ avant(nextMeal) < avant(j)
             \/ avant(nextMeal) = avant(j) /\ j <= nextMeal
  <2>1. \/ Instant(repas[nextMeal]) < Instant(repas[j])
        \/ Instant(repas[nextMeal]) = Instant(repas[j]) /\ j <= nextMeal
    BY <1>4, Reponse DEF Exacte
  <2>2. ASSUME NEW i \in 1..N, repas[i] # Refusee PROVE Instant(repas[i]) >= 0
    <3>1. repas[i].h \in Nat /\ repas[i].m \in Nat
      BY <1>1, <2>2 DEF Heures
    <3>2. repas[i].h * MinutesHeure \in Nat
      BY <3>1, JourAssumption
    <3> QED BY <3>1, <3>2 DEF Instant
  <2>3. Instant(Refusee) < 0
    BY JourAssumption DEF Instant, Refusee
  <2> HIDE DEF N
  <2> QED BY <1>1, <2>1, <2>2, <2>3
<1> QED BY <1>1, <1>3, <1>4 DEF ProchainJuste

\* Whatever the array and the minute, the two loops of nextMeal compute the earliest
\* meal strictly later today, the first of the array among equals; when there is
\* none, the earliest of all, the last among equals.
THEOREM ProchainToujoursJuste == Spec => []ProchainJuste
BY ReponseJuste, EtatsInit, EtatsStables, PTL DEF Spec

\* The same meal in the set of records that Serveur keeps: a rank is that of one
\* meal only.
LEMMA ReponseDuServeur == Etats => ProchainDuServeur
<1> SUFFICES ASSUME Etats, repas # <<>>
             PROVE  Jour!Prochain(PlanningDuJour).rang = nextMeal
  BY DEF ProchainDuServeur
<1> DEFINE N == Len(repas)
           k == nextMeal
           maintenant == Instant(now)
           avant(i) == IF repas[i] = Refusee THEN -1 ELSE Instant(repas[i])
           Repas(i) == [rang |-> i, heure |-> avant(i)]
           R == PlanningDuJour
           restants == {r \in R : r.heure > maintenant}
<1>1. /\ N \in Nat /\ DOMAIN repas = 1..N /\ k \in 1..N
      /\ \A i \in 1..N : repas[i] \in Heures \cup {Refusee} /\ Instant(repas[i]) \in Int
      /\ now \in Heures /\ maintenant \in Int
  BY Tableau, Reponse, InstantsOrdonnes DEF Exacte, Etats
<1>2. ASSUME NEW r \in Heures PROVE Instant(r) >= 0
  <2>1. r.h \in Nat /\ r.m \in Nat
    BY <1>2 DEF Heures
  <2>2. r.h * MinutesHeure \in Nat
    BY <2>1, JourAssumption
  <2> QED BY <2>1, <2>2 DEF Instant
<1>3. Instant(Refusee) < 0 /\ maintenant >= 0
  BY <1>1, <1>2, JourAssumption DEF Instant, Refusee
<1>4. /\ \A i \in 1..N : avant(i) \in Int
      /\ \A i \in 1..N : avant(i) > maintenant <=> i \in Reste
  BY <1>1, <1>3 DEF Reste
<1>5. \A r : r \in R <=> \E i \in 1..N : r = Repas(i)
  BY <1>1 DEF PlanningDuJour
<1>6. \A i \in 1..N : Repas(i).rang = i /\ Repas(i).heure = avant(i)
  OBVIOUS
<1>7. ProchainJuste /\ Reste \subseteq 1..N
  BY <1>1, ReponseJuste DEF Reste
<1>8. Jour!Prochain(R) = IF restants # {} THEN Jour!Premier(Jour!PlusTot(restants))
                         ELSE Jour!Dernier(Jour!PlusTot(R))
  BY Zenon DEF Jour!Prochain
<1>9. \A r : r \in restants <=> \E i \in Reste : r = Repas(i)
  <2> HIDE DEF R, N, maintenant, avant, Repas
  <2> QED BY <1>4, <1>5, <1>6, <1>7
<1>10. CASE Reste # {}
  <2> DEFINE S == Jour!PlusTot(restants)
  <2>1. /\ k \in Reste
        /\ \A j \in Reste : avant(k) <= avant(j)
        /\ \A j \in Reste : (\A x \in Reste : avant(j) <= avant(x)) => k <= j
    <3>1. \A j \in Reste : avant(j) = Instant(repas[j])
      BY <1>1, <1>3, <1>7 DEF Reste
    <3> QED BY <1>7, <1>10, <3>1 DEF ProchainJuste, Tot
  <2>2. S = {r \in restants : \A x \in restants : r.heure <= x.heure}
    BY Zenon DEF Jour!PlusTot
  <2>3. Jour!Premier(S) = CHOOSE r \in S : \A x \in S : r.rang <= x.rang
    BY Zenon DEF Jour!Premier
  <2> HIDE DEF R, N, maintenant, avant, Repas, k, restants, S
  <2>4. \A r : r \in S <=> \E i \in Reste : /\ r = Repas(i)
                                            /\ \A x \in Reste : avant(i) <= avant(x)
    BY <1>6, <1>7, <1>9, <2>2
  <2>5. Repas(k) \in S
    BY <2>1, <2>4
  <2>6. \A x \in S : Repas(k).rang <= x.rang
    BY <1>6, <1>7, <2>1, <2>4
  <2>7. Jour!Premier(S) \in S /\ \A x \in S : Jour!Premier(S).rang <= x.rang
    BY <2>3, <2>5, <2>6, Zenon
  <2>8. PICK i \in Reste : Jour!Premier(S) = Repas(i) /\ k <= i
    BY <2>1, <2>4, <2>7
  <2>9. Jour!Premier(S).rang = k
    <3>1. i <= k
      BY <1>6, <1>7, <2>1, <2>5, <2>7, <2>8
    <3> QED BY <1>1, <1>6, <1>7, <2>8, <3>1
  <2>10. restants # {}
    BY <1>9, <2>1
  <2> QED BY <1>8, <2>9, <2>10 DEF S, k, R
<1>11. CASE Reste = {}
  <2> DEFINE S == Jour!PlusTot(R)
  <2>1. \A j \in 1..N : avant(k) < avant(j) \/ (avant(k) = avant(j) /\ j <= k)
    BY <1>1, <1>7, <1>11 DEF ProchainJuste
  <2>2. S = {r \in R : \A x \in R : r.heure <= x.heure}
    BY Zenon DEF Jour!PlusTot
  <2>3. Jour!Dernier(S) = CHOOSE r \in S : \A x \in S : x.rang <= r.rang
    BY Zenon DEF Jour!Dernier
  <2>4. restants = {}
    BY <1>9, <1>11
  <2> HIDE DEF R, N, maintenant, avant, Repas, k, restants, S
  <2>5. \A r : r \in S <=> \E i \in 1..N : /\ r = Repas(i)
                                           /\ \A x \in 1..N : avant(i) <= avant(x)
    BY <1>5, <1>6, <2>2
  <2>6. Repas(k) \in S
    BY <1>1, <1>4, <2>1, <2>5
  <2>7. ASSUME NEW i \in 1..N, Repas(i) \in S PROVE i <= k
    <3>1. \A x \in 1..N : avant(i) <= avant(x)
      BY <1>5, <1>6, <2>2, <2>7
    <3> QED BY <1>1, <1>4, <2>1, <3>1
  <2>8. \A x \in S : x.rang <= Repas(k).rang
    BY <1>1, <1>6, <2>5, <2>7
  <2>9. Jour!Dernier(S) \in S /\ \A x \in S : x.rang <= Jour!Dernier(S).rang
    BY <2>3, <2>6, <2>8, Zenon
  <2>10. PICK i \in 1..N : Jour!Dernier(S) = Repas(i) /\ i <= k
    BY <2>5, <2>7, <2>9
  <2>11. Jour!Dernier(S).rang = k
    <3>1. k <= i
      BY <1>1, <1>6, <2>6, <2>9, <2>10
    <3> QED BY <1>1, <1>6, <2>10, <3>1
  <2> QED BY <1>8, <2>4, <2>11 DEF S, k, R
<1> QED BY <1>10, <1>11

\* Whatever the array and the minute, the two loops end on the meal that the operator
\* Prochain designates: Serveur and the theorems about it may call Prochain where the
\* code runs its loops.
THEOREM ProchainToujoursDuServeur == Spec => []ProchainDuServeur
BY ReponseDuServeur, EtatsInit, EtatsStables, PTL DEF Spec

------------------------------------------------------------------------------
\* A minute later in the day, or midnight.
LEMMA MinuteSuivante ==
  ASSUME Etats, Minute
  PROVE  \/ Instant(now') = Instant(now) + 1
         \/ /\ Instant(now') = 0
            /\ \A r \in Heures : Instant(r) <= Instant(now)
<1> DEFINE M == MinutesHeure
<1>1. /\ now.h \in 0..(HeuresJour - 1) /\ now.m \in 0..(M - 1)
      /\ HeuresJour \in Nat \ {0} /\ M \in Nat \ {0} /\ now \in Heures
  BY JourAssumption DEF Etats, Heures
<1>2. CASE now.m < M - 1
  <2>1. now'.h = now.h /\ now'.m = now.m + 1
    BY <1>1, <1>2 DEF Minute, Etats, Heures
  <2>2. now.h * M \in Int
    BY <1>1
  <2> QED BY <1>1, <2>1, <2>2 DEF Instant
<1>3. CASE now.m = M - 1 /\ now.h < HeuresJour - 1
  <2>1. (now.h + 1) % HeuresJour = now.h + 1
    BY <1>1, <1>3
  <2>2. now'.h = now.h + 1 /\ now'.m = 0
    BY <1>1, <1>3, <2>1 DEF Minute
  <2>3. (now.h + 1) * M = now.h * M + M /\ now.h * M \in Int
    BY <1>1
  <2> HIDE DEF M
  <2> QED BY <1>1, <1>3, <2>2, <2>3 DEF Instant, M
<1>4. CASE now.m = M - 1 /\ now.h = HeuresJour - 1
  <2>1. (now.h + 1) % HeuresJour = 0
    BY <1>1, <1>4
  <2>2. now'.h = 0 /\ now'.m = 0
    BY <1>1, <1>4, <2>1 DEF Minute
  <2>3. Instant(now') = 0
    BY <1>1, <2>2 DEF Instant
  <2>4. ASSUME NEW r \in Heures PROVE Instant(r) <= Instant(now)
    <3>1. ~(now.h < r.h \/ (now.h = r.h /\ now.m < r.m))
      BY <1>1, <1>4 DEF Heures
    <3>2. ~(Instant(now) < Instant(r)) /\ Instant(now) \in Int /\ Instant(r) \in Int
      BY <1>1, <3>1, InstantsOrdonnes
    <3> QED BY <3>2
  <2> QED BY <2>3, <2>4
<1> QED BY <1>1, <1>2, <1>3, <1>4

\* What a minute does to the answer, while no hour is refused.
LEMMA ReponseTient ==
  ASSUME Etats, Minute, repas # <<>>, \A i \in DOMAIN repas : repas[i] # Refusee
  PROVE  repas'[nextMeal'] = repas[nextMeal] \/ now' = repas[nextMeal]
<1> DEFINE N == Len(repas)
           k == nextMeal
           l == nextMeal'
<1>1. repas' = repas /\ Etats'
  BY EtatsStables DEF Minute, Next
<1>2. /\ N \in Nat /\ DOMAIN repas = 1..N /\ now \in Heures /\ now' \in Heures
      /\ \A i \in 1..N : repas[i] \in Heures
  BY <1>1, Tableau DEF Etats
<1>3. /\ Instant(now) \in Int /\ Instant(now') \in Int
      /\ \A i \in 1..N : Instant(repas[i]) \in Int
      /\ \A i, j \in 1..N : Instant(repas[i]) = Instant(repas[j]) => repas[i] = repas[j]
      /\ \A i \in 1..N : Instant(repas[i]) = Instant(now') => repas[i] = now'
  BY <1>2, InstantsOrdonnes
<1>4. Exacte
  BY Reponse
<1>5. Exacte'
  <2>1. (Etats /\ repas # <<>> => Exacte)'
    BY Reponse, PTL
  <2> QED BY <1>1, <2>1
<1>6. /\ Reste = {i \in 1..N : Instant(repas[i]) > Instant(now)}
      /\ Reste' = {i \in 1..N : Instant(repas[i]) > Instant(now')}
  BY <1>1, <1>2 DEF Reste
<1>7. /\ k \in 1..N
      /\ Reste # {} => /\ k \in Reste
                       /\ \A j \in Reste : \/ Instant(repas[k]) < Instant(repas[j])
                                           \/ Instant(repas[k]) = Instant(repas[j]) /\ k <= j
      /\ Reste = {} => \A j \in 1..N : \/ Instant(repas[k]) < Instant(repas[j])
                                       \/ Instant(repas[k]) = Instant(repas[j]) /\ j <= k
  BY <1>4 DEF Exacte
<1>8. /\ l \in 1..N
      /\ Reste' # {} => /\ l \in Reste'
                        /\ \A j \in Reste' : \/ Instant(repas[l]) < Instant(repas[j])
                                             \/ Instant(repas[l]) = Instant(repas[j]) /\ l <= j
      /\ Reste' = {} => \A j \in 1..N : \/ Instant(repas[l]) < Instant(repas[j])
                                        \/ Instant(repas[l]) = Instant(repas[j]) /\ j <= l
  BY <1>1, <1>5 DEF Exacte
<1>9. Instant(repas[k]) # Instant(now') => Instant(repas[l]) = Instant(repas[k])
  <2>1. CASE Instant(now') = Instant(now) + 1 /\ Reste # {}
    \* The meal is later than the new minute too.
    <3>1. SUFFICES ASSUME Instant(repas[k]) # Instant(now')
                   PROVE  Instant(repas[l]) = Instant(repas[k])
      OBVIOUS
    <3> HIDE DEF k, l, N
    <3>2. Reste' = Reste
      <4>1. \A i \in Reste : Instant(repas[i]) > Instant(now')
        BY <1>3, <1>6, <1>7, <2>1, <3>1
      <4> QED BY <1>3, <1>6, <2>1, <4>1
    <3>3. k \in Reste /\ l \in Reste
      BY <1>7, <1>8, <2>1, <3>2
    <3>4. Instant(repas[k]) <= Instant(repas[l]) /\ Instant(repas[l]) <= Instant(repas[k])
      BY <1>3, <1>7, <1>8, <2>1, <3>2, <3>3
    <3> QED BY <1>3, <1>7, <1>8, <3>4
  <2>2. CASE Instant(now') = Instant(now) + 1 /\ Reste = {}
    \* None later today, a minute ago as now: the earliest of all.
    <3> HIDE DEF k, l, N
    <3>1. Reste' = {}
      BY <1>3, <1>6, <2>2
    <3>2. Instant(repas[k]) <= Instant(repas[l]) /\ Instant(repas[l]) <= Instant(repas[k])
      BY <1>3, <1>7, <1>8, <2>2, <3>1
    <3> QED BY <1>3, <1>7, <1>8, <3>2
  <2>3. CASE Instant(now') = 0 /\ \A r \in Heures : Instant(r) <= Instant(now)
    \* Midnight: every meal but those of midnight is later today.
    <3>1. SUFFICES ASSUME Instant(repas[k]) # Instant(now')
                   PROVE  Instant(repas[l]) = Instant(repas[k])
      OBVIOUS
    <3>2. \A i \in 1..N : Instant(repas[i]) >= 0
      <4>1. ASSUME NEW r \in Heures PROVE Instant(r) >= 0
        <5>1. r.h \in Nat /\ r.m \in Nat
          BY <4>1 DEF Heures
        <5>2. r.h * MinutesHeure \in Nat
          BY <5>1, JourAssumption
        <5> QED BY <5>1, <5>2 DEF Instant
      <4> QED BY <1>2, <4>1
    <3> HIDE DEF k, l, N
    <3>3. Reste = {}
      BY <1>2, <1>3, <1>6, <2>3
    <3>4. \A j \in 1..N : Instant(repas[k]) <= Instant(repas[j])
      BY <1>3, <1>7, <3>3
    <3>5. Reste' = 1..N
      BY <1>3, <1>6, <1>7, <2>3, <3>1, <3>2, <3>4
    <3>6. Instant(repas[k]) <= Instant(repas[l]) /\ Instant(repas[l]) <= Instant(repas[k])
      BY <1>3, <1>7, <1>8, <3>4, <3>5
    <3> QED BY <1>3, <1>7, <1>8, <3>6
  <2> QED BY <2>1, <2>2, <2>3, MinuteSuivante
<1>10. repas[l] = repas[k] \/ now' = repas[k]
  <2> HIDE DEF k, l, N
  <2> QED BY <1>3, <1>7, <1>8, <1>9
<1> QED BY <1>1, <1>10

\* Whatever the array and the day, while no hour is refused nextMeal gives another
\* hour only when that of the last answer has come, midnight included: the device
\* need not be told in between.
THEOREM ReponseChangeALHeure == Spec => ChangeALHeure
<1>1. Etats /\ [Next]_vars
        => [ (repas # <<>> /\ \A i \in DOMAIN repas : repas[i] # Refusee)
             => \/ repas'[nextMeal'] = repas[nextMeal]
                \/ now' = repas[nextMeal] ]_vars
  BY ReponseTient DEF Next
<1> QED BY <1>1, EtatsInit, EtatsStables, PTL DEF Spec, ChangeALHeure
==============================================================================
