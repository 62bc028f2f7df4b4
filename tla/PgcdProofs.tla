----------------------------- MODULE PgcdProofs -----------------------------
(***************************************************************************)
(* The loop of PGCD returns the greatest common divisor of its arguments,  *)
(* whatever they are, and never returns when exactly one of them is 0.     *)
(***************************************************************************)
EXTENDS Pgcd, TLAPS

LEMMA DiviseDifference ==
  ASSUME NEW d \in Nat, NEW m \in Nat, NEW n \in Nat, n <= m,
         Divise(d, m), Divise(d, n)
  PROVE  Divise(d, m - n)
<1>1. PICK k \in Nat : m = d * k
  BY DEF Divise
<1>2. PICK l \in Nat : n = d * l
  BY DEF Divise
<1>3. CASE l <= k
  <2>1. k - l \in Nat /\ m - n = d * (k - l)
    BY <1>1, <1>2, <1>3
  <2> QED BY <2>1 DEF Divise
<1>4. CASE k < l
  <2>1. m = n
    <3>1. PICK e \in Nat : l = k + e
      BY <1>4
    <3>2. n = m + d * e /\ d * e \in Nat
      BY <1>1, <1>2, <3>1
    <3> QED BY <3>2
  <2>2. m - n = d * 0
    BY <2>1
  <2> QED BY <2>2 DEF Divise
<1> QED BY <1>3, <1>4

LEMMA DiviseSomme ==
  ASSUME NEW d \in Nat, NEW m \in Nat, NEW n \in Nat,
         Divise(d, m), Divise(d, n)
  PROVE  Divise(d, m + n)
<1>1. PICK k \in Nat : m = d * k
  BY DEF Divise
<1>2. PICK l \in Nat : n = d * l
  BY DEF Divise
<1>3. k + l \in Nat /\ m + n = d * (k + l)
  BY <1>1, <1>2
<1> QED BY <1>3 DEF Divise

(***************************************************************************)
(* A subtraction keeps the common divisors.                                *)
(***************************************************************************)
LEMMA MemesDiviseurs ==
  ASSUME NEW m \in Nat, NEW n \in Nat, n <= m, NEW d \in Nat
  PROVE  Divise(d, m - n) /\ Divise(d, n) <=> Divise(d, m) /\ Divise(d, n)
<1>1. ASSUME Divise(d, m), Divise(d, n) PROVE Divise(d, m - n)
  BY <1>1, DiviseDifference
<1>2. ASSUME Divise(d, m - n), Divise(d, n) PROVE Divise(d, m)
  <2>1. m - n \in Nat /\ (m - n) + n = m
    OBVIOUS
  <2> QED BY <1>2, <2>1, DiviseSomme
<1> QED BY <1>1, <1>2

LEMMA TourCommuns == Communs /\ [Next]_vars => Communs'
<1> SUFFICES ASSUME Communs, [Next]_vars PROVE Communs'
  OBVIOUS
<1>1. CASE UNCHANGED vars
  BY <1>1 DEF vars, Communs
<1>2. CASE Tour
  <2>1. /\ a \in Nat /\ b \in Nat /\ a' = ApresA /\ b' = ApresB
        /\ a0' = a0 /\ b0' = b0
    BY <1>2 DEF Tour, Communs
  <2>2. ApresA \in Nat /\ ApresB \in Nat
    BY <2>1 DEF ApresA, ApresB
  <2>3. ASSUME NEW d \in Nat
        PROVE  Divise(d, ApresA) /\ Divise(d, b) <=> Divise(d, a) /\ Divise(d, b)
    BY <2>1, MemesDiviseurs DEF ApresA
  <2>4. ASSUME NEW d \in Nat
        PROVE  Divise(d, ApresB) /\ Divise(d, ApresA) <=> Divise(d, b) /\ Divise(d, ApresA)
    BY <2>1, <2>2, MemesDiviseurs DEF ApresB
  <2>5. ASSUME NEW d \in Nat
        PROVE  Divise(d, ApresA) /\ Divise(d, ApresB) <=> Divise(d, a0) /\ Divise(d, b0)
    BY <2>3, <2>4 DEF Communs
  <2> QED BY <2>1, <2>2, <2>5 DEF Communs
<1> QED BY <1>1, <1>2 DEF Next

(***************************************************************************)
(* Along the whole loop the common divisors are those of the arguments.    *)
(***************************************************************************)
LEMMA CommunsToujours == Spec => []Communs
<1>1. Init => Communs
  BY ValeursAssumption DEF Init, Communs
<1> QED BY <1>1, TourCommuns, PTL DEF Spec

(***************************************************************************)
(* Partial correctness of PGCD: when the loop stops, its result divides    *)
(* both arguments, and every common divisor of them divides it.            *)
(***************************************************************************)
PlusGrandCommun ==
  a = b => /\ Divise(a, a0) /\ Divise(a, b0)
           /\ \A d \in Nat : Divise(d, a0) /\ Divise(d, b0) => Divise(d, a)

THEOREM PgcdPartiel == Spec => []PlusGrandCommun
<1>1. Communs => PlusGrandCommun
  <2> SUFFICES ASSUME Communs, a = b PROVE PlusGrandCommun
    BY DEF PlusGrandCommun
  <2>1. a \in Nat /\ Divise(a, a)
    <3>1. a \in Nat /\ a = a * 1
      BY DEF Communs
    <3> QED BY <3>1 DEF Divise
  <2> QED BY <2>1 DEF Communs, PlusGrandCommun
<1> QED BY <1>1, CommunsToujours, PTL

LEMMA ResteNul ==
  ASSUME NEW d \in Nat, d > 0, NEW n \in Nat
  PROVE  n % d = 0 <=> Divise(d, n)
<1>1. ASSUME n % d = 0 PROVE Divise(d, n)
  <2>1. n = d * (n \div d) /\ n \div d \in Nat
    BY <1>1, SMTT(60)
  <2> QED BY <2>1 DEF Divise
<1>2. ASSUME Divise(d, n) PROVE n % d = 0
  <2>1. PICK k \in Nat : n = d * k
    BY <1>2 DEF Divise
  <2>2. (d * k) % d = 0
    BY SMTT(60)
  <2> QED BY <2>1, <2>2
<1> QED BY <1>1, <1>2

LEMMA DiviseBorne ==
  ASSUME NEW d \in Nat, NEW n \in Nat, n > 0, Divise(d, n)
  PROVE  d \in 1 .. n
<1>1. PICK k \in Nat : n = d * k
  BY DEF Divise
<1>2. d > 0 /\ k > 0
  BY <1>1
<1>3. PICK l \in Nat : k = 1 + l
  BY <1>2
<1>4. n = d + d * l /\ d * l \in Nat
  BY <1>1, <1>3
<1> QED BY <1>2, <1>4

(***************************************************************************)
(* What characterises the greatest common divisor is what PGCD chooses.    *)
(***************************************************************************)
LEMMA PgcdUnique ==
  ASSUME NEW m \in Nat, m > 0, NEW n \in Nat, n > 0, NEW g \in Nat,
         Divise(g, m), Divise(g, n),
         \A d \in Nat : Divise(d, m) /\ Divise(d, n) => Divise(d, g)
  PROVE  g = PGCD(m, n)
<1> DEFINE P(d) == /\ m % d = 0 /\ n % d = 0
                   /\ \A e \in d + 1 .. m : ~ (m % e = 0 /\ n % e = 0)
<1>1. g \in 1 .. m
  BY DiviseBorne
<1>2. ASSUME NEW e \in 1 .. m, m % e = 0, n % e = 0 PROVE e <= g
  <2>1. Divise(e, m) /\ Divise(e, n)
    BY <1>2, ResteNul
  <2>2. Divise(e, g)
    BY <2>1
  <2> QED BY <1>1, <2>2, DiviseBorne
<1>3. m % g = 0 /\ n % g = 0
  BY <1>1, ResteNul
<1>4. P(g)
  <2>1. ASSUME NEW e \in g + 1 .. m, m % e = 0, n % e = 0 PROVE FALSE
    <3>1. e \in 1 .. m /\ e > g
      BY <1>1
    <3> QED BY <1>1, <2>1, <3>1, <1>2
  <2> QED BY <1>3, <2>1
<1>5. ASSUME NEW d \in 1 .. m, P(d) PROVE d = g
  <2>1. d <= g
    BY <1>2, <1>5
  <2>2. ~(d < g)
    <3>1. SUFFICES ASSUME d < g PROVE FALSE
      OBVIOUS
    <3>2. g \in d + 1 .. m
      BY <1>1, <3>1
    <3> QED BY <1>3, <1>5, <3>2
  <2> QED BY <1>1, <2>1, <2>2
<1>6. PGCD(m, n) = CHOOSE d \in 1 .. m : P(d)
  BY DEF PGCD
<1> HIDE DEF P
<1>7. (CHOOSE d \in 1 .. m : P(d)) = g
  BY <1>1, <1>4, <1>5
<1> QED BY <1>6, <1>7

(***************************************************************************)
(* An argument 0 beside one that is not: the loop never comes to an end    *)
(* (the hazard of a segment loaded at address 0, Etap11.c:115).            *)
(***************************************************************************)
Sterile == ~PgcdTermine(a0, b0) => a = a0 /\ b = b0 /\ a # b

THEOREM ZeroSansFin == Spec => [](~PgcdTermine(a0, b0) => a # b)
<1> DEFINE Inv == /\ a0 \in Nat /\ b0 \in Nat
                  /\ Sterile
<1>1. Init => Inv
  BY ValeursAssumption DEF Init, Sterile, PgcdTermine
<1>2. Inv /\ [Next]_vars => Inv'
  <2> SUFFICES ASSUME Inv, [Next]_vars PROVE Inv'
    OBVIOUS
  <2>1. CASE UNCHANGED vars
    BY <2>1 DEF vars, Sterile, PgcdTermine
  <2>2. CASE Tour
    BY <2>2 DEF Tour, ApresA, ApresB, Sterile, PgcdTermine
  <2> QED BY <2>1, <2>2 DEF Next
<1>3. Inv => (~PgcdTermine(a0, b0) => a # b)
  BY DEF Sterile
<1> QED BY <1>1, <1>2, <1>3, PTL DEF Spec

(***************************************************************************)
(* Whatever the arguments, a value PGCD returns is their greatest common   *)
(* divisor.                                                                *)
(***************************************************************************)
THEOREM PgcdExact == Spec => []ResultatExact
<1> DEFINE Inv == /\ a0 \in Nat /\ b0 \in Nat /\ a \in Nat
                  /\ PlusGrandCommun
                  /\ (~PgcdTermine(a0, b0) => a # b)
<1>1. Inv => ResultatExact
  <2> SUFFICES ASSUME Inv, a = b PROVE a = PGCD(a0, b0)
    BY DEF ResultatExact
  <2>1. /\ Divise(a, a0) /\ Divise(a, b0)
        /\ \A d \in Nat : Divise(d, a0) /\ Divise(d, b0) => Divise(d, a)
    BY DEF PlusGrandCommun
  <2>2. CASE a0 = 0
    <3>1. b0 = 0
      BY <2>2 DEF PgcdTermine
    <3>2. Divise(a + 1, 0)
      <4>1. a + 1 \in Nat /\ 0 = (a + 1) * 0
        OBVIOUS
      <4> QED BY <4>1 DEF Divise
    <3>3. Divise(a + 1, a)
      BY <2>1, <2>2, <3>1, <3>2
    <3>4. a = 0
      BY <3>3, DiviseBorne
    <3> QED BY <2>2, <3>4 DEF PGCD
  <2>3. CASE a0 > 0
    <3>1. b0 > 0
      BY <2>3 DEF PgcdTermine
    <3> QED BY <2>1, <2>3, <3>1, PgcdUnique
  <2> QED BY <2>2, <2>3
<1>2. Spec => [](a0 \in Nat /\ b0 \in Nat)
  <2>1. Init => a0 \in Nat /\ b0 \in Nat
    BY ValeursAssumption DEF Init
  <2>2. (a0 \in Nat /\ b0 \in Nat) /\ [Next]_vars => (a0 \in Nat /\ b0 \in Nat)'
    BY DEF Next, Tour, vars
  <2> QED BY <2>1, <2>2, PTL DEF Spec
<1>3. Communs => a \in Nat
  BY DEF Communs
<1> QED BY <1>1, <1>2, <1>3, CommunsToujours, PgcdPartiel, ZeroSansFin, PTL
=============================================================================
