---------------------------- MODULE Phase1Proofs ----------------------------
(***************************************************************************)
(* The displays of phase 1, for objects and command lines of any size:     *)
(* where the file has what, that every field is turned round as it should  *)
(* be, and that each display shows what the object is.                     *)
(***************************************************************************)
EXTENDS Phase1, TLAPS, FiniteSetTheorems, WellFoundedInduction, SequenceTheorems

(***************************************************************************)
(* Induction over numbers and functions defined by recursion.  What holds  *)
(* is given as a set, because no prover here instantiates an operator.     *)
(***************************************************************************)
LEMMA Premier ==
  ASSUME NEW T, T \subseteq Nat, T # {}
  PROVE  \E x \in T : \A y \in T : x <= y
<1>1. PICK x \in T : \A y \in T : ~(<<y, x>> \in OpToRel(<, Nat))
  BY NatLessThanWellFounded, WFMin, Zenon
<1>2. ASSUME NEW y \in T PROVE x <= y
  <2>1. x \in Nat /\ y \in Nat
    OBVIOUS
  <2>2. ~(y < x)
    BY <1>1, <2>1 DEF OpToRel
  <2> QED
    BY <2>1, <2>2
<1> QED
  BY <1>2

LEMMA DeProcheEnProche ==
  ASSUME NEW m \in Nat, NEW n \in Nat, NEW T, m \in T,
         \A k \in m .. n : k \in T /\ k < n => k + 1 \in T
  PROVE  \A k \in m .. n : k \in T
<1> SUFFICES ASSUME NEW z \in m .. n, z \notin T
             PROVE  FALSE
  OBVIOUS
<1> DEFINE H == {k \in m .. n : k \notin T}
<1>1. PICK x \in H : \A y \in H : x <= y
  <2>1. H \subseteq Nat /\ H # {}
    OBVIOUS
  <2> QED
    BY <2>1, Premier
<1>2. x \in m .. n /\ x # m
  BY <1>1
<1>3. x - 1 \in m .. n /\ x - 1 \notin H
  BY <1>1, <1>2
<1> QED
  BY <1>1, <1>2, <1>3

Stable(n, S, G) == \A x \in S, j \in 1 .. n : G[<<x, j>>] \in S

Existe1(n, S, a, G) ==
  \E f \in [1 .. n -> S] : f = [j \in 1 .. n |-> IF j = 1 THEN a ELSE G[<<f[j - 1], j>>]]

LEMMA Definie ==
  ASSUME NEW n \in Nat, NEW S, NEW a \in S, NEW G, Stable(n, S, G)
  PROVE  Existe1(n, S, a, G)
<1> USE DEF Stable, Existe1
<1> DEFINE Bonne(f, m) == \A j \in 1 .. m : f[j] = IF j = 1 THEN a ELSE G[<<f[j - 1], j>>]
           T == {m \in Nat : \E f \in [1 .. m -> S] : Bonne(f, m)}
<1>1. 0 \in T
  <2>1. [j \in 1 .. 0 |-> a] \in [1 .. 0 -> S] /\ Bonne([j \in 1 .. 0 |-> a], 0)
    OBVIOUS
  <2> QED
    BY <2>1
<1>2. ASSUME NEW m \in 0 .. n, m \in T, m < n
      PROVE  m + 1 \in T
  <2>1. PICK f \in [1 .. m -> S] : Bonne(f, m)
    BY <1>2
  <2> DEFINE v == IF m = 0 THEN a ELSE G[<<f[m], m + 1>>]
             g == [j \in 1 .. m + 1 |-> IF j <= m THEN f[j] ELSE v]
  <2>2. v \in S
    <3>1. CASE m = 0
      BY <3>1
    <3>2. CASE m # 0
      <4>1. f[m] \in S /\ m + 1 \in 1 .. n
        BY <1>2, <2>1, <3>2
      <4> QED
        BY <3>2, <4>1
    <3> QED
      BY <3>1, <3>2
  <2>3. g \in [1 .. m + 1 -> S]
    <3> HIDE DEF v
    <3> QED
      BY <2>1, <2>2
  <2>4. ASSUME NEW j \in 1 .. m + 1
        PROVE  g[j] = IF j = 1 THEN a ELSE G[<<g[j - 1], j>>]
    <3>1. CASE j <= m
      <4>1. j \in 1 .. m /\ (j = 1 \/ j - 1 \in 1 .. m)
        BY <3>1
      <4>2. g[j] = f[j] /\ (j = 1 \/ g[j - 1] = f[j - 1])
        BY <3>1, <4>1
      <4> QED
        BY <2>1, <4>1, <4>2
    <3>2. CASE j = m + 1
      <4>1. g[m + 1] = v /\ (m # 0 => g[m] = f[m])
        OBVIOUS
      <4> HIDE DEF g
      <4>2. CASE m = 0
        BY <3>2, <4>1, <4>2
      <4>3. CASE m # 0
        <5>1. j # 1 /\ j - 1 = m
          BY <3>2, <4>3
        <5> QED
          BY <3>2, <4>1, <4>3, <5>1
      <4> QED
        BY <4>2, <4>3
    <3> QED
      BY <3>1, <3>2
  <2>5. Bonne(g, m + 1)
    BY <2>4
  <2>6. m + 1 \in Nat
    OBVIOUS
  <2> HIDE DEF g, Bonne
  <2> QED
    BY <2>3, <2>5, <2>6
<1>3. n \in T
  <2> HIDE DEF T
  <2>1. 0 \in Nat /\ n \in 0 .. n
    OBVIOUS
  <2> QED
    BY <1>1, <1>2, <2>1, DeProcheEnProche
<1>4. PICK f \in [1 .. n -> S] : Bonne(f, n)
  BY <1>3
<1> QED
  BY <1>4
-----------------------------------------------------------------------------
(***************************************************************************)
(* The sections of an object are sequences of units.                       *)
(***************************************************************************)
LEMMA Sections ==
  ASSUME NEW o, ObjetOK(o)
  PROVE  /\ Nombre(o) \in Nat \ {0, 1}
         /\ DOMAIN o.sections = 1 .. Nombre(o)
         /\ \A k \in 1 .. Nombre(o) : /\ SectionOK(o.sections[k])
                                      /\ o.sections[k].type = 0 <=> k = 1
<1> DEFINE s == o.sections
<1>1. s \in Seq(Range(s)) /\ \A k \in DOMAIN s : SectionOK(s[k]) /\ (s[k].type = 0 <=> k = 1)
  BY DEF ObjetOK
<1>2. PICK k \in DOMAIN s : s[k].nom = ".shstrtab"
  BY DEF ObjetOK
<1>3. s[k].type = STRTAB
  BY <1>1, <1>2 DEF SectionOK
<1>4. k # 1
  BY <1>1, <1>3 DEF STRTAB
<1>5. Len(s) \in Nat /\ DOMAIN s = 1 .. Len(s)
  BY <1>1
<1> HIDE DEF s
<1>6. Len(s) \in Nat \ {0, 1}
  BY <1>2, <1>4, <1>5
<1> QED
  BY <1>1, <1>5, <1>6 DEF Nombre, s

LEMMA SymbolesDe ==
  ASSUME NEW o, ObjetOK(o)
  PROVE  /\ \A k \in 1 .. Nombre(o) : o.sections[k].type = SYMTAB => Symboles(o) = o.sections[k].donnees
         /\ (\A k \in 1 .. Nombre(o) : o.sections[k].type # SYMTAB) => Symboles(o) = <<>>
         /\ Symboles(o) \in Seq(Range(Symboles(o)))
<1> DEFINE n == {k \in DOMAIN o.sections : o.sections[k].type = SYMTAB}
<1>1. /\ DOMAIN o.sections = 1 .. Nombre(o)
      /\ \A k \in 1 .. Nombre(o) : SectionOK(o.sections[k])
  BY Sections
<1>2. CASE n = {}
  <2>1. Symboles(o) = <<>>
    BY <1>2 DEF Symboles
  <2>2. <<>> \in Seq(Range(<<>>))
    OBVIOUS
  <2> QED
    BY <1>1, <1>2, <2>1, <2>2
<1>3. CASE n # {}
  <2>1. PICK k \in n : k = CHOOSE l \in n : TRUE
    BY <1>3, Zenon
  <2>2. Symboles(o) = o.sections[k].donnees
    BY <1>3, <2>1 DEF Symboles
  <2>3. \A l \in n : l = k
    BY <2>1 DEF ObjetOK
  <2>4. o.sections[k].donnees \in Seq(Range(o.sections[k].donnees))
    BY <1>1, <2>1 DEF SectionOK
  <2> QED
    BY <1>1, <2>1, <2>2, <2>3, <2>4
<1> QED
  BY <1>2, <1>3

LEMMA Suite ==
  ASSUME NEW U, NEW m \in Nat, NEW f \in [1 .. m -> U]
  PROVE  f \in Seq(U) /\ Len(f) = m /\ DOMAIN f = 1 .. m
OBVIOUS

LEMMA UnitesSelon ==
  ASSUME NEW o, ObjetOK(o), NEW k \in 1 .. Nombre(o), NEW s, s = o.sections[k]
  PROVE  /\ s.nom = ".shstrtab" =>
              Unites(o, k) = [j \in 1 .. Nombre(o) |-> [nom |-> o.sections[j].nom]]
         /\ s.nom = ".strtab" =>
              Unites(o, k) = [j \in 1 .. Len(Symboles(o)) |-> [nom |-> Symboles(o)[j].nom]]
         /\ s.type = SYMTAB =>
              Unites(o, k) = [j \in 1 .. Len(s.donnees) |->
                                [st_name |-> j - 1, st_value |-> s.donnees[j].valeur,
                                 st_info |-> s.donnees[j].info, st_shndx |-> s.donnees[j].ndx]]
         /\ s.type \in {REL, RELA} =>
              Unites(o, k) = [j \in 1 .. Len(s.donnees) |->
                                [r_offset |-> s.donnees[j].offset,
                                 r_info |-> <<s.donnees[j].sym, s.donnees[j].type>>]]
         /\ s.type \notin {STRTAB, SYMTAB, REL, RELA} => Unites(o, k) = s.donnees
<1>1. /\ Nombre(o) \in Nat /\ DOMAIN o.sections = 1 .. Nombre(o) /\ SectionOK(s)
  BY Sections
<1>2. Len(s.donnees) \in Nat /\ DOMAIN s.donnees = 1 .. Len(s.donnees)
  <2>1. s.donnees \in Seq(Range(s.donnees))
    BY <1>1 DEF SectionOK
  <2> QED
    BY <2>1
<1>3. Len(Symboles(o)) \in Nat /\ DOMAIN Symboles(o) = 1 .. Len(Symboles(o))
  BY SymbolesDe
<1>4. s.nom \in {".shstrtab", ".strtab"} => s.type = STRTAB
  BY <1>1 DEF SectionOK
<1>5. CASE s.nom = ".shstrtab"
  <2>1. /\ s.nom # ".strtab"
        /\ s.type \notin {SYMTAB, REL, RELA} /\ s.type \in {STRTAB, SYMTAB, REL, RELA}
    BY <1>4, <1>5 DEF STRTAB, SYMTAB, REL, RELA
  <2>2. Unites(o, k) = [j \in DOMAIN o.sections |-> [nom |-> o.sections[j].nom]]
    BY <1>5, <2>1 DEF Unites
  <2> QED
    BY <1>1, <2>1, <2>2
<1>6. CASE s.nom = ".strtab"
  <2>1. /\ s.nom # ".shstrtab"
        /\ s.type \notin {SYMTAB, REL, RELA} /\ s.type \in {STRTAB, SYMTAB, REL, RELA}
    BY <1>4, <1>6 DEF STRTAB, SYMTAB, REL, RELA
  <2>2. Unites(o, k) = [j \in DOMAIN Symboles(o) |-> [nom |-> Symboles(o)[j].nom]]
    BY <1>6, <2>1 DEF Unites
  <2> QED
    BY <1>3, <2>1, <2>2
<1>7. CASE s.nom \notin {".shstrtab", ".strtab"} /\ s.type = SYMTAB
  <2>1. s.type \notin {REL, RELA}
    BY <1>7 DEF SYMTAB, REL, RELA
  <2>2. Unites(o, k) = [j \in DOMAIN s.donnees |->
                          [st_name |-> j - 1, st_value |-> s.donnees[j].valeur,
                           st_info |-> s.donnees[j].info, st_shndx |-> s.donnees[j].ndx]]
    BY <1>7, <2>1 DEF Unites
  <2> QED
    BY <1>2, <1>7, <2>1, <2>2
<1>8. CASE s.nom \notin {".shstrtab", ".strtab"} /\ s.type \in {REL, RELA}
  <2>1. s.type # SYMTAB
    BY <1>8 DEF SYMTAB, REL, RELA
  <2>2. Unites(o, k) = [j \in DOMAIN s.donnees |->
                          [r_offset |-> s.donnees[j].offset,
                           r_info |-> <<s.donnees[j].sym, s.donnees[j].type>>]]
    BY <1>8, <2>1 DEF Unites
  <2> QED
    BY <1>2, <1>8, <2>1, <2>2
<1>9. CASE s.nom \notin {".shstrtab", ".strtab"} /\ s.type \notin {SYMTAB, REL, RELA}
  BY <1>9 DEF Unites, STRTAB, SYMTAB, REL, RELA
<1>10. \/ s.nom = ".shstrtab" \/ s.nom = ".strtab"
       \/ s.nom \notin {".shstrtab", ".strtab"} /\ s.type = SYMTAB
       \/ s.nom \notin {".shstrtab", ".strtab"} /\ s.type \in {REL, RELA}
       \/ s.nom \notin {".shstrtab", ".strtab"} /\ s.type \notin {SYMTAB, REL, RELA}
  OBVIOUS
<1> QED
  BY <1>5, <1>6, <1>7, <1>8, <1>9, <1>10, Zenon

LEMMA UnitesDe ==
  ASSUME NEW o, ObjetOK(o), NEW k \in 1 .. Nombre(o)
  PROVE  /\ Len(Unites(o, k)) \in Nat
         /\ DOMAIN Unites(o, k) = 1 .. Len(Unites(o, k))
         /\ Unites(o, k) \in [1 .. Len(Unites(o, k)) -> Range(Unites(o, k))]
<1> DEFINE s == o.sections[k]
           u == Unites(o, k)
<1>1. Nombre(o) \in Nat /\ SectionOK(s)
  BY Sections
<1>2. Len(Symboles(o)) \in Nat
  BY SymbolesDe
<1>3. s.donnees \in Seq(Range(s.donnees))
  BY <1>1 DEF SectionOK
<1>4. Len(s.donnees) \in Nat /\ s.donnees = [j \in 1 .. Len(s.donnees) |-> s.donnees[j]]
  BY <1>3
<1>5. \E m \in Nat : \E f : u = [j \in 1 .. m |-> f[j]]
  <2>1. CASE s.nom = ".shstrtab"
    BY <1>1, <2>1, UnitesSelon
  <2>2. CASE s.nom = ".strtab"
    BY <1>2, <2>2, UnitesSelon
  <2>3. CASE s.type = SYMTAB
    BY <1>4, <2>3, UnitesSelon
  <2>4. CASE s.type \in {REL, RELA}
    BY <1>4, <2>4, UnitesSelon
  <2>5. CASE s.type \notin {STRTAB, SYMTAB, REL, RELA}
    <3>1. u = s.donnees
      BY <2>5, UnitesSelon
    <3> QED
      BY <1>4, <3>1
  <2>6. CASE s.nom \notin {".shstrtab", ".strtab"} /\ s.type = STRTAB
    <3>1. u = s.donnees
      BY <2>6 DEF Unites, STRTAB, SYMTAB, REL, RELA
    <3> QED
      BY <1>4, <3>1
  <2> QED
    BY <2>1, <2>2, <2>3, <2>4, <2>5, <2>6
<1> HIDE DEF u
<1>6. PICK m \in Nat : \E f : u = [j \in 1 .. m |-> f[j]]
  BY <1>5
<1>7. DOMAIN u = 1 .. m /\ u \in [1 .. m -> Range(u)]
  BY <1>6 DEF Range
<1>8. Len(u) = m
  BY <1>7
<1> QED
  BY <1>7, <1>8 DEF u

-----------------------------------------------------------------------------
(***************************************************************************)
(* The layout: a section begins where the one before ends.                 *)
(***************************************************************************)
LEMMA Places ==
  ASSUME NEW o, ObjetOK(o)
  PROVE  \E d \in [1 .. Nombre(o) -> Nat] :
           /\ d[1] = 1
           /\ \A k \in 1 .. Nombre(o) - 1 : d[k + 1] = d[k] + Len(Unites(o, k))
           /\ \A k \in 2 .. Nombre(o) : Place(o, k) = d[k]
<1> PICK n : n = Nombre(o)
  OBVIOUS
<1>1. n \in Nat \ {0, 1}
  BY Sections
<1> DEFINE l == [k \in 1 .. n |-> Len(Unites(o, k))]
           G == [y \in Nat \X (1 .. n) |-> IF y[2] = 1 THEN 0 ELSE y[1] + l[y[2] - 1]]
<1>2. \A k \in 1 .. n : l[k] \in Nat /\ l[k] = Len(Unites(o, k))
  BY UnitesDe
<1> HIDE DEF l
<1>3. \A x \in Nat, j \in 1 .. n : G[<<x, j>>] = IF j = 1 THEN 0 ELSE x + l[j - 1]
  <2> SUFFICES ASSUME NEW x \in Nat, NEW j \in 1 .. n
               PROVE  G[<<x, j>>] = IF j = 1 THEN 0 ELSE x + l[j - 1]
    OBVIOUS
  <2>1. <<x, j>> \in Nat \X (1 .. n) /\ <<x, j>>[1] = x /\ <<x, j>>[2] = j
    OBVIOUS
  <2> QED
    BY <2>1
<1>4. \A x \in Nat, j \in 1 .. n : G[<<x, j>>] \in Nat
  <2> HIDE DEF G
  <2> SUFFICES ASSUME NEW x \in Nat, NEW j \in 1 .. n
               PROVE  G[<<x, j>>] \in Nat
    OBVIOUS
  <2>1. CASE j = 1
    BY <1>3, <2>1
  <2>2. CASE j # 1
    <3>1. j - 1 \in 1 .. n
      BY <1>1, <2>2
    <3>2. l[j - 1] \in Nat
      BY <1>2, <3>1
    <3> QED
      BY <1>3, <2>2, <3>2
  <2> QED
    BY <2>1, <2>2
<1>5. PICK d \in [1 .. n -> Nat] :
        d = [j \in 1 .. n |-> IF j = 1 THEN 1 ELSE G[<<d[j - 1], j>>]]
  <2> HIDE DEF G
  <2>1. n \in Nat /\ 1 \in Nat /\ Stable(n, Nat, G)
    BY <1>1, <1>4 DEF Stable
  <2>2. Existe1(n, Nat, 1, G)
    BY <2>1, Definie
  <2> QED
    BY <2>2 DEF Existe1
<1>6. d[1] = 1 /\ \A k \in 1 .. n - 1 : d[k + 1] = d[k] + Len(Unites(o, k))
  <2> HIDE DEF G
  <2>1. d[1] = 1
    BY <1>1, <1>5
  <2>2. ASSUME NEW k \in 1 .. n - 1
        PROVE  d[k + 1] = d[k] + Len(Unites(o, k))
    <3>1. k \in 1 .. n /\ k + 1 \in 1 .. n /\ k + 1 # 1 /\ (k + 1) - 1 = k
      BY <1>1
    <3>2. d[k + 1] = G[<<d[k], k + 1>>]
      BY <1>5, <3>1
    <3>3. d[k] \in Nat
      BY <1>5, <3>1
    <3>4. G[<<d[k], k + 1>>] = d[k] + l[k]
      BY <1>3, <3>1, <3>3
    <3> QED
      BY <1>2, <3>1, <3>2, <3>4
  <2> QED
    BY <2>1, <2>2
<1>7. ASSUME NEW k \in 2 .. n
      PROVE  Place(o, k) = d[k]
  <2> DEFINE p[j \in 1 .. k] == IF j = 1 THEN 1 ELSE p[j - 1] + Len(Unites(o, j - 1))
             q == [j \in 1 .. k |-> d[j]]
  <2>1. q = [j \in 1 .. k |-> IF j = 1 THEN 1 ELSE q[j - 1] + Len(Unites(o, j - 1))]
    <3>1. ASSUME NEW j \in 1 .. k
          PROVE  q[j] = IF j = 1 THEN 1 ELSE q[j - 1] + Len(Unites(o, j - 1))
      <4>1. CASE j = 1
        BY <1>6, <4>1
      <4>2. CASE j # 1
        <5>1. j - 1 \in 1 .. k /\ j - 1 \in 1 .. n - 1 /\ (j - 1) + 1 = j
          BY <1>1, <4>2
        <5>2. q[j] = d[j] /\ q[j - 1] = d[j - 1]
          BY <5>1
        <5>3. d[j] = d[j - 1] + Len(Unites(o, j - 1))
          BY <1>6, <5>1
        <5> HIDE DEF q
        <5> QED
          BY <4>2, <5>2, <5>3
      <4> QED
        BY <4>1, <4>2
    <3> QED
      BY <3>1
  <2>2. p = [j \in 1 .. k |-> IF j = 1 THEN 1 ELSE p[j - 1] + Len(Unites(o, j - 1))]
    <3> HIDE DEF q
    <3> QED
      BY <2>1, Zenon DEF p
  <2>3. Place(o, k) = p[k]
    <3>1. k \in 1 .. Nombre(o) /\ k # 1
      BY <1>1
    <3>2. o.sections[k].type # 0
      BY <3>1, Sections
    <3> QED
      BY <3>2 DEF Place
  <2> HIDE DEF p
  <2> DEFINE T == {j \in 1 .. k : p[j] = d[j]}
  <2>4. 1 \in T
    BY <1>6, <2>2
  <2>5. ASSUME NEW j \in 1 .. k, j \in T, j < k
        PROVE  j + 1 \in T
    <3>1. j + 1 \in 1 .. k /\ j + 1 # 1 /\ (j + 1) - 1 = j
      BY <2>5
    <3>4. j \in 1 .. n - 1
      BY <1>1, <2>5
    <3>2. p[j + 1] = p[j] + Len(Unites(o, j))
      BY <2>2, <3>1
    <3> QED
      BY <1>6, <2>5, <3>1, <3>2, <3>4
  <2>6. k \in T
    <3> HIDE DEF T
    <3>1. 1 \in Nat /\ k \in Nat /\ k \in 1 .. k
      OBVIOUS
    <3> QED
      BY <2>4, <2>5, <3>1, DeProcheEnProche
  <2> QED
    BY <2>3, <2>6
<1> QED
  BY <1>5, <1>6, <1>7

Colle(a, b) ==
  /\ Len(a \o b) = Len(a) + Len(b)
  /\ \A d, l \in Nat : d >= 1 /\ d + l <= Len(a) + 1 =>
       \A j \in 1 .. l : (a \o b)[d - 1 + j] = a[d - 1 + j]
  /\ \A j \in 1 .. Len(b) : (a \o b)[Len(a) + j] = b[j]

LEMMA Bout ==
  ASSUME NEW U, NEW a \in Seq(U), NEW b \in Seq(U)
  PROVE  a \o b \in Seq(U) /\ Colle(a, b)
<1>1. /\ a \o b \in Seq(U) /\ Len(a \o b) = Len(a) + Len(b)
      /\ \A x \in 1 .. Len(a) + Len(b) : (a \o b)[x] = IF x <= Len(a) THEN a[x] ELSE b[x - Len(a)]
      /\ Len(a) \in Nat /\ Len(b) \in Nat
  BY ConcatProperties
<1>2. ASSUME NEW d \in Nat, NEW l \in Nat, d >= 1, d + l <= Len(a) + 1, NEW j \in 1 .. l
      PROVE  (a \o b)[d - 1 + j] = a[d - 1 + j]
  <2>1. d - 1 + j \in 1 .. Len(a) + Len(b) /\ d - 1 + j <= Len(a)
    BY <1>1, <1>2
  <2> QED
    BY <1>1, <2>1
<1>3. ASSUME NEW j \in 1 .. Len(b)
      PROVE  (a \o b)[Len(a) + j] = b[j]
  <2>1. Len(a) + j \in 1 .. Len(a) + Len(b) /\ ~(Len(a) + j <= Len(a)) /\ (Len(a) + j) - Len(a) = j
    BY <1>1
  <2> QED
    BY <1>1, <2>1
<1> QED
  BY <1>1, <1>2, <1>3 DEF Colle

EstAplatie(f, s, d, n) ==
  /\ Len(f) = d[n] - 1 + Len(s[n])
  /\ \A k \in 1 .. n : /\ d[k] >= 1
                       /\ d[k] + Len(s[k]) <= d[n] + Len(s[n])
                       /\ \A j \in 1 .. Len(s[k]) : f[d[k] - 1 + j] = s[k][j]

Contigus(d, s, n) == d[1] = 1 /\ \A k \in 1 .. n - 1 : d[k + 1] = d[k] + Len(s[k])

LEMMA Aplatie ==
  ASSUME NEW U, NEW n \in Nat \ {0}, NEW s \in [1 .. n -> Seq(U)],
         NEW d \in [1 .. n -> Nat], Contigus(d, s, n)
  PROVE  FlattenSeq(s) \in Seq(U) /\ EstAplatie(FlattenSeq(s), s, d, n)
<1> DEFINE G == [y \in Seq(U) \X (1 .. n) |-> y[1] \o s[y[2]]]
           f[j \in 1 .. Len(s)] == IF j = 1 THEN s[j] ELSE f[j - 1] \o s[j]
<1>1. Len(s) = n /\ 1 \in 1 .. n /\ \A k \in 1 .. n : s[k] \in Seq(U) /\ Len(s[k]) \in Nat
  BY Suite
<1>2. \A x \in Seq(U), j \in 1 .. n : G[<<x, j>>] = x \o s[j]
  OBVIOUS
<1>3. \A x \in Seq(U), j \in 1 .. n : G[<<x, j>>] \in Seq(U)
  <2> HIDE DEF G
  <2> SUFFICES ASSUME NEW x \in Seq(U), NEW j \in 1 .. n
               PROVE  x \o s[j] \in Seq(U)
    BY <1>2
  <2> QED
    BY <1>1, ConcatProperties
<1>4. PICK g \in [1 .. n -> Seq(U)] :
        g = [j \in 1 .. n |-> IF j = 1 THEN s[1] ELSE G[<<g[j - 1], j>>]]
  <2> HIDE DEF G
  <2> QED
    <3>1. s[1] \in Seq(U) /\ n \in Nat /\ Stable(n, Seq(U), G)
      BY <1>1, <1>3 DEF Stable
    <3>2. Existe1(n, Seq(U), s[1], G)
      BY <3>1, Definie
    <3> QED
      BY <3>2 DEF Existe1
<1>5. g = [j \in 1 .. Len(s) |-> IF j = 1 THEN s[j] ELSE g[j - 1] \o s[j]]
  <2> HIDE DEF G
  <2>1. ASSUME NEW j \in 1 .. n
        PROVE  g[j] = IF j = 1 THEN s[j] ELSE g[j - 1] \o s[j]
    <3>1. CASE j = 1
      BY <1>4, <3>1
    <3>2. CASE j # 1
      <4>1. j - 1 \in 1 .. n
        BY <3>2
      <4>2. g[j - 1] \in Seq(U)
        BY <4>1
      <4>3. g[j] = G[<<g[j - 1], j>>]
        BY <1>4, <3>2
      <4> QED
        BY <1>2, <3>2, <4>2, <4>3
    <3> QED
      BY <3>1, <3>2
  <2>2. g = [j \in 1 .. n |-> g[j]]
    OBVIOUS
  <2> QED
    BY <1>1, <2>1, <2>2
<1>6. f = [j \in 1 .. Len(s) |-> IF j = 1 THEN s[j] ELSE f[j - 1] \o s[j]]
  BY <1>5, Zenon DEF f
<1>7. FlattenSeq(s) = f[n]
  BY <1>1 DEF FlattenSeq
<1> HIDE DEF f, G
<1> DEFINE Bien(m) ==
      /\ f[m] \in Seq(U) /\ Len(f[m]) = d[m] - 1 + Len(s[m])
      /\ \A k \in 1 .. m : /\ d[k] >= 1
                           /\ d[k] + Len(s[k]) <= d[m] + Len(s[m])
                           /\ \A j \in 1 .. Len(s[k]) : f[m][d[k] - 1 + j] = s[k][j]
           T == {m \in 1 .. n : Bien(m)}
<1>8. 1 \in T
  <2>1. f[1] = s[1]
    BY <1>1, <1>6
  <2>2. \A k \in 1 .. 1 : k = 1
    OBVIOUS
  <2>3. Bien(1)
    BY <1>1, <2>1, <2>2 DEF Contigus
  <2> QED
    BY <1>1, <2>3
<1>9. ASSUME NEW m \in 1 .. n, m \in T, m < n
      PROVE  m + 1 \in T
  <2>1. Bien(m) /\ m + 1 \in 1 .. n /\ m + 1 # 1 /\ (m + 1) - 1 = m /\ m \in 1 .. n - 1
    BY <1>9
  <2>14. /\ f[m] \in Seq(U) /\ Len(f[m]) = d[m] - 1 + Len(s[m])
         /\ \A k \in 1 .. m : /\ d[k] >= 1
                              /\ d[k] + Len(s[k]) <= d[m] + Len(s[m])
                              /\ \A j \in 1 .. Len(s[k]) : f[m][d[k] - 1 + j] = s[k][j]
    BY <2>1
  <2> HIDE DEF T, Bien
  <2>2. f[m + 1] = f[m] \o s[m + 1]
    BY <1>1, <1>6, <2>1
  <2>3. d[m + 1] = d[m] + Len(s[m]) /\ d[m] \in Nat /\ d[m + 1] \in Nat
    BY <2>1 DEF Contigus
  <2>4. s[m + 1] \in Seq(U) /\ Len(s[m + 1]) \in Nat /\ Len(s[m]) \in Nat /\ f[m] \in Seq(U)
    BY <1>1, <2>1, <2>14
  <2> PICK a : a = f[m]
    OBVIOUS
  <2> PICK b : b = s[m + 1]
    OBVIOUS
  <2> PICK e : e = d[m + 1]
    OBVIOUS
  <2>5. a \in Seq(U) /\ b \in Seq(U) /\ f[m + 1] = a \o b /\ e \in Nat /\ Len(b) \in Nat
    BY <2>2, <2>3, <2>4
  <2>6. a \o b \in Seq(U) /\ Colle(a, b)
    BY <2>5, Bout
  <2>7. Len(a) = e - 1 /\ e = d[m] + Len(s[m]) /\ Len(b) = Len(s[m + 1])
    BY <2>3, <2>4, <2>14
  <2>8. ASSUME NEW k \in 1 .. m
        PROVE  /\ d[k] >= 1 /\ d[k] + Len(s[k]) <= e + Len(b)
               /\ \A j \in 1 .. Len(s[k]) : (a \o b)[d[k] - 1 + j] = s[k][j]
    <3> PICK x : x = d[k]
      OBVIOUS
    <3> PICK y : y = Len(s[k])
      OBVIOUS
    <3>1. x >= 1 /\ x + y <= e /\ \A j \in 1 .. y : a[x - 1 + j] = s[k][j]
      BY <2>7, <2>14
    <3>2. k \in 1 .. n
      OBVIOUS
    <3>3. x \in Nat /\ y \in Nat
      BY <1>1, <3>2
    <3>4. x + y <= Len(a) + 1 /\ x + y <= e + Len(b)
      <4>1. \A v, w, z, l \in Nat : v + w <= z => v + w <= (z - 1) + 1 /\ v + w <= z + l
        OBVIOUS
      <4>2. x + y <= (e - 1) + 1 /\ x + y <= e + Len(b)
        BY <2>5, <3>1, <3>3, <4>1, Zenon
      <4> QED
        BY <2>7, <4>2, Zenon
    <3>5. \A j \in 1 .. y : (a \o b)[x - 1 + j] = a[x - 1 + j]
      BY <2>6, <3>1, <3>3, <3>4 DEF Colle
    <3> QED
      BY <3>1, <3>4, <3>5
  <2>9. ASSUME NEW j \in 1 .. Len(b)
        PROVE  (a \o b)[e - 1 + j] = b[j]
    BY <2>6, <2>7 DEF Colle
  <2>10. e >= 1 /\ Len(a \o b) = e - 1 + Len(b)
    <3>1. Len(a) \in Nat
      BY <2>5
    <3> QED
      BY <2>5, <2>6, <2>7, <3>1 DEF Colle
  <2>11. \A k \in 1 .. m + 1 : k \in 1 .. m \/ k = m + 1
    OBVIOUS
  <2>12. e + Len(b) <= e + Len(b)
    BY <2>5
  <2>13. /\ f[m + 1] \in Seq(U) /\ Len(f[m + 1]) = e - 1 + Len(b)
         /\ \A k \in 1 .. m + 1 : /\ d[k] >= 1
                                  /\ d[k] + Len(s[k]) <= e + Len(b)
                                  /\ \A j \in 1 .. Len(s[k]) : f[m + 1][d[k] - 1 + j] = s[k][j]
    <3> SUFFICES ASSUME NEW k \in 1 .. m + 1
                 PROVE  /\ d[k] >= 1
                        /\ d[k] + Len(s[k]) <= e + Len(b)
                        /\ \A j \in 1 .. Len(s[k]) : f[m + 1][d[k] - 1 + j] = s[k][j]
      BY <2>5, <2>6, <2>10
    <3>1. CASE k \in 1 .. m
      BY <2>5, <2>8, <3>1
    <3>2. CASE k = m + 1
      BY <2>5, <2>9, <2>10, <2>12, <3>2
    <3> QED
      BY <2>11, <3>1, <3>2
  <2>15. Bien(m + 1)
    BY <2>13 DEF Bien
  <2> QED
    BY <2>1, <2>15 DEF T
<1>10. n \in T
  <2> HIDE DEF T
  <2>1. 1 \in Nat /\ n \in Nat /\ n \in 1 .. n
    OBVIOUS
  <2> QED
    BY <1>8, <1>9, <2>1, DeProcheEnProche
<1>11. Bien(n)
  BY <1>10
<1> QED
  BY <1>7, <1>11 DEF EstAplatie

(***************************************************************************)
(* The file: the header, the sections where Place says, the table.         *)
(***************************************************************************)
Occupe(im, p, u) == \A j \in 1 .. Len(u) : im[p + j] = u[j]

LEMMA ImageDe ==
  ASSUME NEW o, ObjetOK(o), NEW e, e = Entete(o).e_shoff
  PROVE  /\ e \in Nat /\ e >= 1 /\ Len(Image(o)) = e + Nombre(o)
         /\ Image(o)[1] = Entete(o)
         /\ \A k \in 1 .. Nombre(o) : Image(o)[e + k] = EntreeTable(o, k)
         /\ \A k \in 2 .. Nombre(o) : /\ Place(o, k) \in Nat /\ Place(o, k) >= 1
                                      /\ Place(o, k) + Len(Unites(o, k)) <= e
                                      /\ Occupe(Image(o), Place(o, k), Unites(o, k))
<1> PICK n : n = Nombre(o)
  OBVIOUS
<1>1. n \in Nat \ {0, 1} /\ DOMAIN o.sections = 1 .. n
  BY Sections
<1> PICK d \in [1 .. n -> Nat] :
      /\ d[1] = 1
      /\ \A k \in 1 .. n - 1 : d[k + 1] = d[k] + Len(Unites(o, k))
      /\ \A k \in 2 .. n : Place(o, k) = d[k]
  BY Places
<1> DEFINE c == [k \in 1 .. n |-> Unites(o, k)]
           t == [k \in 1 .. n |-> EntreeTable(o, k)]
           h == <<Entete(o)>>
           U == (UNION {Range(Unites(o, k)) : k \in 1 .. n})
                  \union {EntreeTable(o, k) : k \in 1 .. n} \union {Entete(o)}
           fl == FlattenSeq(c)
<1>2. c \in [1 .. n -> Seq(U)]
  <2>1. ASSUME NEW k \in 1 .. n
        PROVE  Unites(o, k) \in Seq(U)
    <3>1. /\ Len(Unites(o, k)) \in Nat
          /\ Unites(o, k) \in [1 .. Len(Unites(o, k)) -> Range(Unites(o, k))]
      BY UnitesDe
    <3>2. Range(Unites(o, k)) \subseteq U
      OBVIOUS
    <3> HIDE DEF U
    <3>3. Unites(o, k) \in [1 .. Len(Unites(o, k)) -> U]
      BY <3>1, <3>2
    <3> QED
      BY <3>1, <3>3, Suite
  <2> HIDE DEF U
  <2> QED
    BY <2>1
<1>3. t \in Seq(U) /\ Len(t) = n /\ \A k \in 1 .. n : t[k] = EntreeTable(o, k)
  <2>1. \A k \in 1 .. n : EntreeTable(o, k) \in U
    OBVIOUS
  <2> HIDE DEF U
  <2>2. t \in [1 .. n -> U] /\ \A k \in 1 .. n : t[k] = EntreeTable(o, k)
    BY <2>1
  <2> HIDE DEF t
  <2> QED
    BY <1>1, <2>2, Suite
<1>4. h \in Seq(U) /\ Len(h) = 1 /\ h[1] = Entete(o)
  <2>1. Entete(o) \in U
    OBVIOUS
  <2> HIDE DEF U
  <2> QED
    BY <2>1
<1> HIDE DEF U
<1>5. \A k \in 1 .. n : c[k] = Unites(o, k) /\ Len(Unites(o, k)) \in Nat
  BY UnitesDe
<1>6. Contigus(d, c, n)
  <2>1. \A k \in 1 .. n - 1 : d[k + 1] = d[k] + Len(c[k])
    BY <1>1
  <2> QED
    BY <2>1 DEF Contigus
<1> HIDE DEF c
<1>7. /\ fl \in Seq(U) /\ Len(fl) = d[n] - 1 + Len(c[n])
      /\ \A k \in 1 .. n : /\ d[k] >= 1
                           /\ d[k] + Len(c[k]) <= d[n] + Len(c[n])
                           /\ \A j \in 1 .. Len(c[k]) : fl[d[k] - 1 + j] = c[k][j]
  <2>1. FlattenSeq(c) \in Seq(U) /\ EstAplatie(FlattenSeq(c), c, d, n)
    BY <1>1, <1>2, <1>6, Aplatie
  <2> QED
    BY <2>1 DEF EstAplatie
<1> HIDE DEF fl, t, h
<1>8. e = d[n] + Len(c[n]) /\ e \in Nat /\ e >= 1 /\ Len(fl) = e - 1
  <2>1. n \in 2 .. n /\ n \in 1 .. n
    BY <1>1
  <2>2. e = Place(o, n) + Len(Unites(o, n))
    BY DEF Entete
  <2>3. e = d[n] + Len(c[n]) /\ d[n] \in Nat /\ Len(c[n]) \in Nat /\ d[n] >= 1
    BY <1>5, <1>7, <2>1, <2>2
  <2> QED
    BY <1>7, <2>3
<1> PICK ab : ab = h \o fl
  OBVIOUS
<1>9. Image(o) = ab \o t
  BY <1>1 DEF Image, h, fl, c, t
<1>10. ab \in Seq(U) /\ Colle(h, fl)
  BY <1>4, <1>7, Bout
<1>11. ab \o t \in Seq(U) /\ Colle(ab, t)
  BY <1>3, <1>10, Bout
<1>12. Len(ab) = e /\ Len(ab \o t) = e + n
  <2>1. Len(ab) = Len(h) + Len(fl)
    BY <1>10 DEF Colle
  <2>2. Len(ab \o t) = Len(ab) + Len(t)
    BY <1>11 DEF Colle
  <2> QED
    BY <1>1, <1>3, <1>4, <1>8, <2>1, <2>2
<1>13. ab[1] = Entete(o) /\ \A j \in 1 .. e - 1 : ab[1 + j] = fl[j]
  <2>1. \A x, y \in Nat : x >= 1 /\ x + y <= Len(h) + 1 =>
          \A j \in 1 .. y : ab[x - 1 + j] = h[x - 1 + j]
    BY <1>10 DEF Colle
  <2>2. 1 \in Nat /\ 1 >= 1 /\ 1 + 1 <= Len(h) + 1 /\ 1 \in 1 .. 1 /\ 1 - 1 + 1 = 1
    BY <1>4
  <2>3. ab[1] = h[1]
    BY <2>1, <2>2
  <2>4. \A j \in 1 .. Len(fl) : ab[Len(h) + j] = fl[j]
    BY <1>10 DEF Colle
  <2> QED
    BY <1>4, <1>8, <2>3, <2>4
<1>14. \A k \in 1 .. n : (ab \o t)[e + k] = EntreeTable(o, k)
  <2>1. \A k \in 1 .. Len(t) : (ab \o t)[Len(ab) + k] = t[k]
    BY <1>11 DEF Colle
  <2> QED
    BY <1>3, <1>12, <2>1
<1>15. \A j \in 1 .. e : (ab \o t)[j] = ab[j]
  <2>1. \A x, y \in Nat : x >= 1 /\ x + y <= Len(ab) + 1 =>
          \A j \in 1 .. y : (ab \o t)[x - 1 + j] = ab[x - 1 + j]
    BY <1>11 DEF Colle
  <2>2. 1 \in Nat /\ 1 >= 1 /\ 1 + e <= Len(ab) + 1
    BY <1>8, <1>12
  <2>3. \A j \in 1 .. e : (ab \o t)[1 - 1 + j] = ab[1 - 1 + j]
    BY <1>8, <2>1, <2>2
  <2>4. \A j \in 1 .. e : 1 - 1 + j = j
    BY <1>8
  <2> QED
    BY <2>3, <2>4
<1>16. ASSUME NEW k \in 2 .. n
       PROVE  /\ Place(o, k) \in Nat /\ Place(o, k) >= 1
              /\ Place(o, k) + Len(Unites(o, k)) <= e
              /\ Occupe(ab \o t, Place(o, k), Unites(o, k))
  <2>1. k \in 1 .. n /\ Place(o, k) = d[k]
    OBVIOUS
  <2> PICK p : p = d[k]
    OBVIOUS
  <2> PICK l : l = Len(Unites(o, k))
    OBVIOUS
  <2>2. p \in Nat /\ l \in Nat /\ c[k] = Unites(o, k)
    BY <1>5, <2>1
  <2>3. p >= 1 /\ p + l <= e /\ \A j \in 1 .. l : fl[p - 1 + j] = Unites(o, k)[j]
    BY <1>7, <1>8, <2>1, <2>2
  <2>4. ASSUME NEW j \in 1 .. l
        PROVE  (ab \o t)[p + j] = Unites(o, k)[j]
    <3>1. p + j \in 1 .. e /\ p - 1 + j \in 1 .. e - 1 /\ 1 + (p - 1 + j) = p + j
      BY <1>8, <2>2, <2>3, SMTT(30)
    <3>2. (ab \o t)[p + j] = ab[1 + (p - 1 + j)]
      BY <1>15, <3>1
    <3> QED
      BY <1>13, <2>3, <3>1, <3>2
  <2> QED
    BY <2>1, <2>2, <2>3, <2>4 DEF Occupe
<1> PICK im : im = ab \o t
  OBVIOUS
<1>17. Image(o) = im /\ n = Nombre(o)
  BY <1>9
<1>18. im[1] = Entete(o) /\ e \in Nat /\ e >= 1 /\ Len(im) = e + n
  BY <1>8, <1>12, <1>13, <1>15
<1> QED
  BY <1>14, <1>16, <1>17, <1>18

-----------------------------------------------------------------------------
(***************************************************************************)
(* inverse_data: the turns of its loop begin where the fields do.          *)
(***************************************************************************)
LEMMA LargeurBorne == \A str, x : Largeur(str, x) \in 1 .. 4
BY DEF Largeur

ToursDepuis(t, str, size) ==
  t = [x \in 0 .. size + 3 |-> IF x >= size THEN {} ELSE {x} \union t[x + Largeur(str, x)]]

LEMMA ToursDefinis ==
  ASSUME NEW str, NEW size \in Nat
  PROVE  \E t : ToursDepuis(t, str, size) /\ Tours(str, size) = t[0]
<1> DEFINE Vaut(t, x) == t[x] = IF x >= size THEN {} ELSE {x} \union t[x + Largeur(str, x)]
           T == {m \in Nat : \E t \in [0 .. size + 3 -> SUBSET Nat] :
                               \A x \in size - m .. size + 3 : x >= 0 => Vaut(t, x)}
<1>1. 0 \in T
  <2> DEFINE t == [x \in 0 .. size + 3 |-> {}]
  <2>1. t \in [0 .. size + 3 -> SUBSET Nat]
    OBVIOUS
  <2>2. \A x \in size - 0 .. size + 3 : x >= 0 => Vaut(t, x)
    OBVIOUS
  <2> HIDE DEF t, Vaut
  <2> QED
    BY <2>1, <2>2
<1>2. ASSUME NEW m \in 0 .. size, m \in T, m < size
      PROVE  m + 1 \in T
  <2>1. PICK t \in [0 .. size + 3 -> SUBSET Nat] :
               \A x \in size - m .. size + 3 : x >= 0 => Vaut(t, x)
    BY <1>2
  <2> PICK y \in Nat : y = size - (m + 1)
    BY <1>2
  <2> PICK l \in 1 .. 4 : l = Largeur(str, y)
    BY LargeurBorne
  <2> DEFINE u == [t EXCEPT ![y] = {y} \union t[y + l]]
  <2>2. y < size /\ y \in 0 .. size + 3 /\ y + l \in 0 .. size + 3 /\ y + l # y
    BY <1>2
  <2>3. u \in [0 .. size + 3 -> SUBSET Nat]
    <3>1. t[y + l] \in SUBSET Nat
      BY <2>2
    <3> QED
      BY <2>2, <3>1
  <2>4. u[y] = {y} \union t[y + l] /\ \A x \in 0 .. size + 3 : x # y => u[x] = t[x]
    BY <2>2
  <2> HIDE DEF u
  <2>5. Vaut(u, y)
    BY <2>2, <2>4
  <2>6. ASSUME NEW x \in size - m .. size + 3
        PROVE  Vaut(u, x)
    <3>1. x \in 0 .. size + 3 /\ x > y /\ x >= 0
      BY <1>2
    <3>2. Vaut(t, x)
      BY <2>1, <3>1
    <3>3. CASE x >= size
      BY <2>4, <3>1, <3>2, <3>3
    <3>4. CASE x < size
      <4> PICK z \in 1 .. 4 : z = Largeur(str, x)
        BY LargeurBorne
      <4>2. x + z \in 0 .. size + 3 /\ x + z # y /\ x # y /\ ~(x >= size)
        BY <3>1, <3>4
      <4>3. t[x] = {x} \union t[x + z]
        BY <3>2, <4>2
      <4>4. u[x] = t[x] /\ u[x + z] = t[x + z]
        BY <2>4, <3>1, <4>2
      <4> QED
        BY <4>2, <4>3, <4>4
    <3> QED
      BY <3>1, <3>3, <3>4
  <2>7. \A x \in size - (m + 1) .. size + 3 : x >= 0 => Vaut(u, x)
    <3>1. \A x \in size - (m + 1) .. size + 3 : x = y \/ x \in size - m .. size + 3
      BY <1>2
    <3> HIDE DEF Vaut
    <3> QED
      BY <2>5, <2>6, <3>1
  <2> HIDE DEF Vaut
  <2> QED
    BY <1>2, <2>3, <2>7
<1>3. size \in T
  <2> HIDE DEF T
  <2>1. 0 \in Nat /\ size \in Nat /\ size \in 0 .. size
    OBVIOUS
  <2> QED
    BY <1>1, <1>2, <2>1, DeProcheEnProche
<1>4. PICK t \in [0 .. size + 3 -> SUBSET Nat] :
             \A x \in size - size .. size + 3 : x >= 0 => Vaut(t, x)
  BY <1>3
<1>5. ToursDepuis(t, str, size)
  <2>1. \A x \in 0 .. size + 3 : x \in size - size .. size + 3 /\ x >= 0
    OBVIOUS
  <2>2. \A x \in 0 .. size + 3 : Vaut(t, x)
    BY <1>4, <2>1
  <2> QED
    BY <2>2 DEF ToursDepuis
<1> DEFINE p[x \in 0 .. size + 3] ==
      IF x >= size THEN {} ELSE {x} \union p[x + Largeur(str, x)]
<1>6. ToursDepuis(p, str, size)
  BY <1>5, Zenon DEF ToursDepuis, p
<1>7. Tours(str, size) = p[0]
  BY DEF Tours
<1> HIDE DEF p
<1> QED
  BY <1>6, <1>7

(***************************************************************************)
(* n fields of which field c is at D[c], and takes what a turn there takes.*)
(***************************************************************************)
Decoupe(D, n, str, size) ==
  /\ D \in [1 .. n + 1 -> 0 .. size + 3]
  /\ D[1] = 0 /\ D[n + 1] >= size
  /\ \A c \in 1 .. n : D[c] < size /\ D[c + 1] = D[c] + Largeur(str, D[c])

LEMMA ToursDe ==
  ASSUME NEW D, NEW n \in Nat, NEW str, NEW size \in Nat, Decoupe(D, n, str, size)
  PROVE  Tours(str, size) = {D[c] : c \in 1 .. n}
<1> PICK t : ToursDepuis(t, str, size) /\ Tours(str, size) = t[0]
  BY ToursDefinis
<1> DEFINE T == {m \in Nat : m <= n => t[D[n + 1 - m]] = {D[c] : c \in n + 1 - m .. n}}
<1>1. 0 \in T
  <2>1. n + 1 \in 1 .. n + 1 /\ n + 1 - 0 = n + 1
    OBVIOUS
  <2>2. D[n + 1] \in 0 .. size + 3 /\ D[n + 1] >= size
    BY <2>1 DEF Decoupe
  <2>3. t[D[n + 1]] = {}
    BY <2>2 DEF ToursDepuis
  <2>4. {D[c] : c \in n + 1 .. n} = {}
    OBVIOUS
  <2> QED
    BY <2>1, <2>3, <2>4
<1>2. ASSUME NEW m \in 0 .. n, m \in T, m < n
      PROVE  m + 1 \in T
  <2> PICK k : k = n - m
    OBVIOUS
  <2>1. k \in 1 .. n /\ k \in 1 .. n + 1 /\ n + 1 - m = k + 1 /\ n + 1 - (m + 1) = k
    BY <1>2
  <2>2. t[D[k + 1]] = {D[c] : c \in k + 1 .. n}
    BY <1>2, <2>1
  <2>3. D[k] \in 0 .. size + 3 /\ D[k] < size /\ D[k + 1] = D[k] + Largeur(str, D[k])
    BY <2>1 DEF Decoupe
  <2>4. t[D[k]] = {D[k]} \union t[D[k + 1]]
    <3>1. \A x \in 0 .. size + 3 :
            t[x] = IF x >= size THEN {} ELSE {x} \union t[x + Largeur(str, x)]
      BY Zenon DEF ToursDepuis
    <3>2. ~(D[k] >= size)
      <4>1. \A y \in 0 .. size + 3 : y < size => ~(y >= size)
        OBVIOUS
      <4> QED
        BY <2>3, <4>1, Zenon
    <3> QED
      BY <2>3, <3>1, <3>2, Zenon
  <2>5. \A c : c \in k .. n <=> c = k \/ c \in k + 1 .. n
    BY <2>1
  <2>6. t[D[k]] = {D[c] : c \in k .. n}
    BY <2>2, <2>4, <2>5
  <2> QED
    BY <1>2, <2>1, <2>6
<1>3. n \in T
  <2> HIDE DEF T
  <2>1. 0 \in Nat /\ n \in Nat /\ n \in 0 .. n
    OBVIOUS
  <2> QED
    BY <1>1, <1>2, <2>1, DeProcheEnProche
<1>4. n + 1 - n = 1
  OBVIOUS
<1>5. D[1] = 0
  BY DEF Decoupe
<1> QED
  BY <1>3, <1>4, <1>5

LEMMA Croissants ==
  ASSUME NEW D, NEW n \in Nat, NEW str, NEW size \in Nat, Decoupe(D, n, str, size),
         NEW c \in 1 .. n, NEW k \in 1 .. n, c < k
  PROVE  D[c] + Largeur(str, D[c]) <= D[k]
<1> DEFINE T == {m \in Nat : m <= n => D[c + 1] <= D[m]}
<1>1. \A m \in 1 .. n + 1 : D[m] \in Nat
  BY DEF Decoupe
<1>2. c + 1 \in T /\ c + 1 \in 1 .. n + 1 /\ D[c + 1] = D[c] + Largeur(str, D[c])
  <2>1. c + 1 \in 1 .. n + 1 /\ c + 1 \in Nat
    OBVIOUS
  <2> QED
    BY <1>1, <2>1 DEF Decoupe
<1>3. ASSUME NEW m \in c + 1 .. n, m \in T, m < n
      PROVE  m + 1 \in T
  <2>1. m \in 1 .. n /\ m \in 1 .. n + 1 /\ m + 1 \in 1 .. n + 1 /\ m + 1 \in Nat
    BY <1>3
  <2>2. D[m + 1] = D[m] + Largeur(str, D[m]) /\ Largeur(str, D[m]) \in 1 .. 4
    BY <2>1, LargeurBorne DEF Decoupe
  <2>3. D[m] \in Nat /\ D[m + 1] \in Nat /\ D[c + 1] \in Nat /\ D[c + 1] <= D[m]
    BY <1>1, <1>2, <1>3, <2>1
  <2>4. D[c + 1] <= D[m + 1]
    BY <2>2, <2>3
  <2> QED
    BY <2>1, <2>4
<1>4. k \in T
  <2> HIDE DEF T
  <2>1. c + 1 \in Nat /\ n \in Nat /\ k \in c + 1 .. n
    OBVIOUS
  <2> QED
    BY <1>2, <1>3, <2>1, DeProcheEnProche
<1> QED
  BY <1>2, <1>4

LEMMA InverseDe ==
  ASSUME NEW D, NEW n \in Nat, NEW str, NEW size \in Nat, Decoupe(D, n, str, size),
         NEW c \in 1 .. n, NEW j \in 0 .. size - 1, D[c] <= j, j < D[c] + Largeur(str, D[c])
  PROVE  inverse_data(str, size)[j] = 2 * D[c] + Largeur(str, D[c]) - 1 - j
<1> DEFINE tours == Tours(str, size)
           Sur(y) == y <= j /\ j < y + Largeur(str, y)
           Tour == CHOOSE y \in tours : Sur(y)
<1>1. tours = {D[k] : k \in 1 .. n}
  BY ToursDe
<1>2. \A k \in 1 .. n : D[k] \in Nat
  BY DEF Decoupe
<1>3. D[c] \in tours /\ Sur(D[c])
  BY <1>1
<1>4. ASSUME NEW y \in tours, Sur(y)
      PROVE  y = D[c]
  <2>1. PICK k \in 1 .. n : y = D[k]
    BY <1>1
  <2>2. Largeur(str, D[k]) \in 1 .. 4 /\ Largeur(str, D[c]) \in 1 .. 4
    BY LargeurBorne
  <2>3. CASE k < c
    <3>1. D[k] + Largeur(str, D[k]) <= D[c]
      BY <2>3, Croissants
    <3> QED
      BY <1>2, <1>4, <2>1, <2>2, <3>1
  <2>4. CASE c < k
    <3>1. D[c] + Largeur(str, D[c]) <= D[k]
      BY <2>4, Croissants
    <3> QED
      BY <1>2, <1>4, <2>1, <2>2, <3>1
  <2> QED
    BY <2>1, <2>3, <2>4
<1>5. Tour = D[c]
  <2> HIDE DEF Sur, tours
  <2> QED
    BY <1>3, <1>4
<1>6. inverse_data(str, size)[j] = inverse_tab(j, Tour, Largeur(str, Tour))
  BY DEF inverse_data
<1> HIDE DEF Tour
<1>7. Largeur(str, D[c]) \in 1 .. 4 /\ D[c] \in Nat
  BY <1>2, LargeurBorne
<1> QED
  BY <1>5, <1>6, <1>7 DEF inverse_tab

(***************************************************************************)
(* Where the fields of the structures are.                                 *)
(***************************************************************************)
Ou ==
  [ehdr |-> [c \in 1 .. 30 |-> IF c <= 17 THEN c - 1 ELSE IF c <= 19 THEN 2 * c - 18
                               ELSE IF c <= 24 THEN 4 * c - 56 ELSE 2 * c - 8],
   shdr |-> [c \in 1 .. 11 |-> 4 * c - 4],
   Symbol |-> [c \in 1 .. 7 |-> IF c <= 4 THEN 4 * c - 4 ELSE IF c <= 6 THEN c + 8 ELSE 16],
   Relocation |-> [c \in 1 .. 3 |-> 4 * c - 4],
   Relocation_a |-> [c \in 1 .. 4 |-> 4 * c - 4]]

LesStructures == {"ehdr", "shdr", "Symbol", "Relocation", "Relocation_a"}

Cumul(d, w) == d = [c \in 1 .. Len(w) + 1 |-> IF c = 1 THEN 0 ELSE d[c - 1] + w[c - 1]]

Nombres == [ehdr |-> 29, shdr |-> 10, Symbol |-> 6, Relocation |-> 2, Relocation_a |-> 3]

LEMMA ChampsDe ==
  ASSUME NEW str \in LesStructures
  PROVE  Len(Champs[str]) = Nombres[str] /\ Nombres[str] \in Nat
<1>1. CASE str = "ehdr"
  BY <1>1 DEF Champs, Nombres
<1>2. CASE str = "shdr"
  BY <1>2 DEF Champs, Nombres
<1>3. CASE str = "Symbol"
  BY <1>3 DEF Champs, Nombres
<1>4. CASE str = "Relocation"
  BY <1>4 DEF Champs, Nombres
<1>5. CASE str = "Relocation_a"
  BY <1>5 DEF Champs, Nombres
<1> QED
  BY <1>1, <1>2, <1>3, <1>4, <1>5 DEF LesStructures

LEMMA CumulOu ==
  ASSUME NEW str \in LesStructures
  PROVE  Cumul(Ou[str], Champs[str])
<1>1. CASE str = "ehdr"
  BY <1>1 DEF Champs, Ou, Cumul
<1>2. CASE str = "shdr"
  BY <1>2 DEF Champs, Ou, Cumul
<1>3. CASE str = "Symbol"
  BY <1>3 DEF Champs, Ou, Cumul
<1>4. CASE str = "Relocation"
  BY <1>4 DEF Champs, Ou, Cumul
<1>5. CASE str = "Relocation_a"
  BY <1>5 DEF Champs, Ou, Cumul
<1> QED
  BY <1>1, <1>2, <1>3, <1>4, <1>5 DEF LesStructures

LEMMA CumulUnique ==
  ASSUME NEW w, NEW d, NEW e, Len(w) \in Nat, Cumul(d, w), Cumul(e, w)
  PROVE  d = e
<1> PICK n \in Nat : n = Len(w)
  OBVIOUS
<1> DEFINE T == {m \in Nat : d[m] = e[m]}
<1>1. 1 \in T
  BY DEF Cumul
<1>2. ASSUME NEW m \in 1 .. n + 1, m \in T, m < n + 1
      PROVE  m + 1 \in T
  <2>1. m + 1 \in 1 .. n + 1 /\ m + 1 # 1 /\ m + 1 - 1 = m /\ m + 1 \in Nat
    BY <1>2
  <2>2. d[m + 1] = d[m] + w[m] /\ e[m + 1] = e[m] + w[m]
    BY <2>1 DEF Cumul
  <2> QED
    BY <1>2, <2>1, <2>2
<1>3. ASSUME NEW m \in 1 .. n + 1
      PROVE  d[m] = e[m]
  <2> HIDE DEF T
  <2>1. 1 \in Nat /\ n + 1 \in Nat /\ m \in 1 .. n + 1
    OBVIOUS
  <2>2. m \in T
    BY <1>1, <1>2, <2>1, DeProcheEnProche
  <2> QED
    BY <2>2 DEF T
<1> QED
  BY <1>3 DEF Cumul

LEMMA DebutDe ==
  ASSUME NEW str \in LesStructures
  PROVE  Debut(str) = Ou[str] /\ Sizeof(str) = Ou[str][Nombres[str] + 1]
<1> DEFINE w == Champs[str]
           p[c \in 1 .. Len(Champs[str]) + 1] ==
             IF c = 1 THEN 0 ELSE p[c - 1] + Champs[str][c - 1]
<1>1. Cumul(p, w)
  <2>1. Cumul(Ou[str], w)
    BY CumulOu
  <2> QED
    BY <2>1, Zenon DEF Cumul, p
<1>2. p = Ou[str]
  <2> HIDE DEF p
  <2> QED
    BY <1>1, CumulOu, CumulUnique, ChampsDe
<1>3. str \in DOMAIN Champs
  BY DEF Champs, LesStructures
<1>4. Debuts[str] = [c \in DOMAIN p |-> p[c]]
  BY <1>3 DEF Debuts
<1>5. DOMAIN Ou[str] = DOMAIN [c \in 1 .. Len(w) + 1 |-> 0] /\ Ou[str] = [c \in DOMAIN Ou[str] |-> Ou[str][c]]
  BY CumulOu DEF Cumul
<1> HIDE DEF p
<1>6. Debuts[str] = Ou[str]
  BY <1>2, <1>4, <1>5
<1> QED
  BY <1>6, ChampsDe DEF Debut, Sizeof

(***************************************************************************)
(* The branches of inverse_data, one by one.                               *)
(***************************************************************************)
LEMMA LargeurEntete ==
  \A x \in Nat : Largeur("ehdr", x) =
                   IF x < 16 THEN 1 ELSE IF x = 16 \/ x = 18 \/ x >= 40 THEN 2 ELSE 4
<1> SUFFICES ASSUME NEW x \in Nat
             PROVE  Largeur("ehdr", x) =
                      IF x < 16 THEN 1 ELSE IF x = 16 \/ x = 18 \/ x >= 40 THEN 2 ELSE 4
  OBVIOUS
<1>1. CASE x < 16
  BY <1>1 DEF Largeur
<1>2. CASE ~(x < 16) /\ (x = 16 \/ x = 18 \/ x >= 40)
  BY <1>2 DEF Largeur
<1>3. CASE ~(x < 16) /\ ~(x = 16 \/ x = 18 \/ x >= 40)
  BY <1>3 DEF Largeur
<1> QED
  BY <1>1, <1>2, <1>3

LEMMA LargeurSymbole ==
  \A x \in Nat : Largeur("Symbol", x) =
                   IF x \in {12, 13} THEN 1 ELSE IF x > 13 THEN 2 ELSE 4
<1> SUFFICES ASSUME NEW x \in Nat
             PROVE  Largeur("Symbol", x) =
                      IF x \in {12, 13} THEN 1 ELSE IF x > 13 THEN 2 ELSE 4
  OBVIOUS
<1>1. CASE x \in {12, 13}
  BY <1>1 DEF Largeur
<1>2. CASE ~(x \in {12, 13}) /\ x > 13
  BY <1>2 DEF Largeur
<1>3. CASE ~(x \in {12, 13}) /\ ~(x > 13)
  BY <1>3 DEF Largeur
<1> QED
  BY <1>1, <1>2, <1>3

LEMMA LargeurMot ==
  \A str : str \notin {"ehdr", "Symbol"} => \A x : Largeur(str, x) = 4
BY DEF Largeur

Justes(str) ==
  \A c \in 1 .. Nombres[str] : Largeur(str, Ou[str][c]) = Champs[str][c]

Bornes(str) ==
  /\ \A c \in 1 .. Nombres[str] + 1 : Ou[str][c] \in 0 .. Ou[str][Nombres[str] + 1]
  /\ \A c \in 1 .. Nombres[str] : Ou[str][c] < Ou[str][Nombres[str] + 1]
  /\ Ou[str][1] = 0 /\ Ou[str][Nombres[str] + 1] \in Nat
  /\ \A c \in 1 .. Nombres[str] : Champs[str][c] \in 1 .. 4

LEMMA JustesDe ==
  ASSUME NEW str \in LesStructures
  PROVE  Justes(str) /\ Bornes(str)
<1>1. CASE str = "ehdr"
  <2>1. Ou[str] = [c \in 1 .. 30 |-> IF c <= 17 THEN c - 1 ELSE IF c <= 19 THEN 2 * c - 18
                                     ELSE IF c <= 24 THEN 4 * c - 56 ELSE 2 * c - 8]
    BY <1>1 DEF Ou
  <2>2. Champs[str] = [c \in 1 .. 29 |-> IF c <= 16 THEN 1 ELSE IF c \in 19 .. 23 THEN 4 ELSE 2]
    BY <1>1 DEF Champs
  <2>3. Nombres[str] = 29
    BY <1>1 DEF Nombres
  <2>4. ASSUME NEW c \in 1 .. 29
        PROVE  Largeur(str, Ou[str][c]) = Champs[str][c]
    <3> PICK x : x = Ou[str][c]
      OBVIOUS
    <3>1. x = IF c <= 17 THEN c - 1 ELSE IF c <= 19 THEN 2 * c - 18
              ELSE IF c <= 24 THEN 4 * c - 56 ELSE 2 * c - 8
      BY <2>1
    <3>2. Champs[str][c] = IF c <= 16 THEN 1 ELSE IF c \in 19 .. 23 THEN 4 ELSE 2
      BY <2>2
    <3>3. x \in Nat
      BY <3>1
    <3>4. Largeur(str, x) = IF x < 16 THEN 1 ELSE IF x = 16 \/ x = 18 \/ x >= 40 THEN 2 ELSE 4
      BY <1>1, <3>3, LargeurEntete
    <3>5. c = 17 \/ c = 18 \/ c <= 16 \/ c \in 19 .. 23 \/ c >= 24
      OBVIOUS
    <3>6. Largeur(str, x) = Champs[str][c]
      BY <3>1, <3>2, <3>4, <3>5
    <3> QED
      BY <3>6
  <2>5. Bornes(str)
    BY <2>1, <2>2, <2>3 DEF Bornes
  <2> QED
    BY <2>3, <2>4, <2>5 DEF Justes
<1>2. CASE str \in {"shdr", "Relocation", "Relocation_a"}
  <2>1. Nombres[str] \in {2, 3, 10} /\ Ou[str] = [c \in 1 .. Nombres[str] + 1 |-> 4 * c - 4]
    <3>1. CASE str = "shdr"
      BY <3>1 DEF Ou, Nombres
    <3>2. CASE str = "Relocation"
      BY <3>2 DEF Ou, Nombres
    <3>3. CASE str = "Relocation_a"
      BY <3>3 DEF Ou, Nombres
    <3> QED
      BY <1>2, <3>1, <3>2, <3>3
  <2>2. \A c \in 1 .. Nombres[str] : Champs[str][c] = 4
    <3>1. CASE str = "shdr"
      BY <3>1 DEF Nombres, Champs
    <3>2. CASE str = "Relocation"
      BY <3>2 DEF Nombres, Champs
    <3>3. CASE str = "Relocation_a"
      BY <3>3 DEF Nombres, Champs
    <3> QED
      BY <1>2, <3>1, <3>2, <3>3
  <2>3. \A x : Largeur(str, x) = 4
    BY <1>2, LargeurMot
  <2>4. Justes(str)
    BY <2>2, <2>3 DEF Justes
  <2>5. Bornes(str)
    <3>1. PICK n \in {2, 3, 10} : n = Nombres[str]
      BY <2>1
    <3>2. \A c \in 1 .. n + 1 : Ou[str][c] = 4 * c - 4
      BY <2>1, <3>1
    <3>3. \A c \in 1 .. n + 1 : Ou[str][c] \in 0 .. Ou[str][n + 1]
      BY <3>2
    <3>4. \A c \in 1 .. n : Ou[str][c] < Ou[str][n + 1]
      BY <3>2
    <3>5. Ou[str][1] = 0 /\ Ou[str][n + 1] \in Nat
      BY <3>2
    <3> QED
      BY <2>2, <3>1, <3>3, <3>4, <3>5 DEF Bornes
  <2> QED
    BY <2>4, <2>5
<1>3. CASE str = "Symbol"
  <2>1. Ou[str] = [c \in 1 .. 7 |-> IF c <= 4 THEN 4 * c - 4 ELSE IF c <= 6 THEN c + 8 ELSE 16]
    BY <1>3 DEF Ou
  <2>2. Champs[str] = <<4, 4, 4, 1, 1, 2>>
    BY <1>3 DEF Champs
  <2>3. Nombres[str] = 6
    BY <1>3 DEF Nombres
  <2>4. ASSUME NEW c \in 1 .. 6
        PROVE  Largeur(str, Ou[str][c]) = Champs[str][c]
    <3>1. Ou[str][c] \in Nat
      BY <2>1
    <3>2. Ou[str][c] = IF c <= 4 THEN 4 * c - 4 ELSE c + 8
      BY <2>1
    <3>3. Largeur(str, Ou[str][c]) = IF c \in {4, 5} THEN 1 ELSE IF c = 6 THEN 2 ELSE 4
      BY <1>3, <3>1, <3>2, LargeurSymbole
    <3> QED
      BY <2>2, <3>3
  <2>5. Bornes(str)
    BY <2>1, <2>2, <2>3 DEF Bornes
  <2> QED
    BY <2>3, <2>4, <2>5 DEF Justes
<1> QED
  BY <1>1, <1>2, <1>3 DEF LesStructures

LEMMA DecoupeDe ==
  ASSUME NEW str \in LesStructures
  PROVE  Decoupe(Ou[str], Nombres[str], str, Sizeof(str))
<1> PICK n \in Nat : n = Nombres[str]
  BY ChampsDe
<1> PICK D : D = Ou[str]
  OBVIOUS
<1>1. D = [c \in 1 .. n + 1 |-> IF c = 1 THEN 0 ELSE D[c - 1] + Champs[str][c - 1]]
  BY CumulOu, ChampsDe DEF Cumul
<1>2. Sizeof(str) = D[n + 1]
  BY DebutDe
<1>3. /\ \A c \in 1 .. n + 1 : D[c] \in 0 .. D[n + 1]
      /\ \A c \in 1 .. n : D[c] < D[n + 1]
      /\ D[1] = 0 /\ D[n + 1] \in Nat
  BY JustesDe DEF Bornes
<1>4. ASSUME NEW c \in 1 .. n
      PROVE  D[c + 1] = D[c] + Largeur(str, D[c])
  <2>1. c + 1 \in 1 .. n + 1 /\ c + 1 # 1 /\ c + 1 - 1 = c
    OBVIOUS
  <2>2. D[c + 1] = D[c] + Champs[str][c]
    BY <1>1, <2>1
  <2> QED
    BY <2>2, JustesDe DEF Justes
<1>5. D \in [1 .. n + 1 -> 0 .. D[n + 1] + 3]
  <2>1. \A c \in 1 .. n + 1 : D[c] \in 0 .. D[n + 1] + 3
    BY <1>3
  <2>2. D = [c \in 1 .. n + 1 |-> D[c]]
    BY <1>1
  <2> QED
    BY <2>1, <2>2
<1>6. D[n + 1] >= D[n + 1]
  BY <1>3
<1> QED
  BY <1>2, <1>3, <1>4, <1>5, <1>6 DEF Decoupe

(***************************************************************************)
(* Every byte is in a field; a field that is whole is written end for end, *)
(* and turned back.                                                        *)
(***************************************************************************)
LEMMA ChampDe ==
  ASSUME NEW D, NEW n \in Nat, NEW str, NEW size \in Nat, Decoupe(D, n, str, size),
         NEW j \in 0 .. size - 1
  PROVE  \E c \in 1 .. n : D[c] <= j /\ j < D[c] + Largeur(str, D[c])
<1> DEFINE T == {c \in 1 .. n + 1 : D[c] > j}
<1>1. D[1] = 0 /\ D[n + 1] >= size /\ \A c \in 1 .. n + 1 : D[c] \in Nat
  BY DEF Decoupe
<1>2. n + 1 \in T /\ T \subseteq Nat
  BY <1>1
<1>3. PICK x \in T : \A y \in T : x <= y
  BY <1>2, Premier, Zenon
<1>4. x - 1 \in 1 .. n /\ x - 1 \in 1 .. n + 1 /\ x - 1 \notin T /\ x - 1 + 1 = x
  BY <1>1, <1>3
<1>5. D[x] = D[x - 1] + Largeur(str, D[x - 1])
  BY <1>4 DEF Decoupe
<1>6. D[x - 1] <= j /\ j < D[x]
  BY <1>1, <1>3, <1>4
<1> QED
  BY <1>4, <1>5, <1>6

LEMMA UnSeulChamp ==
  ASSUME NEW D, NEW n \in Nat, NEW str, NEW size \in Nat, Decoupe(D, n, str, size),
         NEW c \in 1 .. n, NEW k \in 1 .. n, NEW j \in Nat,
         D[c] <= j, j < D[c] + Largeur(str, D[c]), D[k] <= j, j < D[k] + Largeur(str, D[k])
  PROVE  c = k
<1> PICK lc \in 1 .. 4 : lc = Largeur(str, D[c])
  BY LargeurBorne
<1> PICK lk \in 1 .. 4 : lk = Largeur(str, D[k])
  BY LargeurBorne
<1>a. D[c] \in Nat /\ D[k] \in Nat
  BY DEF Decoupe
<1> PICK dc \in Nat : dc = D[c]
  BY <1>a
<1> PICK dk \in Nat : dk = D[k]
  BY <1>a
<1>1. c < k => dc + lc <= dk
  BY Croissants
<1>2. k < c => dk + lk <= dc
  BY Croissants
<1> QED
  BY <1>1, <1>2

LEMMA Miroir ==
  ASSUME NEW a \in Nat, NEW z \in Nat, NEW s \in Nat, NEW b \in Nat, NEW g,
         a <= b, b < a + z, a + z <= s, g = 2 * a + z - 1 - b
  PROVE  g \in 0 .. s - 1 /\ a <= g /\ g < a + z /\ g < s /\ 2 * a + z - 1 - g = b
OBVIOUS

LEMMA EnPlace ==
  ASSUME NEW a \in Nat, NEW z \in Nat, NEW s \in Nat, NEW b \in 0 .. z - 1, NEW g,
         a + z <= s, g = a + b
  PROVE  /\ g \in 0 .. s - 1 /\ a <= g /\ g < a + z
         /\ 2 * a + z - 1 - g = a + z - 1 - b
OBVIOUS

LEMMA InverseEn ==
  ASSUME NEW D, NEW n \in Nat, NEW str, NEW size \in Nat, Decoupe(D, n, str, size),
         NEW c \in 1 .. n, NEW y, NEW l, y = D[c], l = Largeur(str, D[c]),
         NEW j \in 0 .. size - 1, y <= j, j < y + l
  PROVE  inverse_data(str, size)[j] = 2 * y + l - 1 - j
BY InverseDe

LEMMA CopieDe ==
  ASSUME NEW D, NEW n \in Nat, NEW str, NEW size \in Nat, Decoupe(D, n, str, size),
         NEW c \in 1 .. n, NEW j \in 0 .. size - 1, D[c] <= j, j < D[c] + Largeur(str, D[c]),
         D[c] + Largeur(str, D[c]) <= size
  PROVE  /\ my_write(str, size).ecrit[j] = 2 * D[c] + Largeur(str, D[c]) - 1 - j
         /\ my_write(str, size).ecrit[2 * D[c] + Largeur(str, D[c]) - 1 - j] = j
         /\ my_write(str, size).reste[j] = j
<1>a. PICK un : un = inverse_data(str, size)
  OBVIOUS
<1>b. PICK l \in 1 .. 4 : l = Largeur(str, D[c])
  BY LargeurBorne
<1>c. PICK y \in Nat : y = D[c]
  BY DEF Decoupe
<1>d. PICK h : h = 2 * y + l - 1 - j
  OBVIOUS
<1>1. h \in 0 .. size - 1 /\ y <= h /\ h < y + l /\ h < size /\ 2 * y + l - 1 - h = j
  <2>1. y <= j /\ j < y + l /\ y + l <= size
    BY <1>b, <1>c
  <2>2. j \in Nat /\ y \in Nat /\ l \in Nat
    BY <1>b, <1>c
  <2> QED
    BY <1>d, <2>1, <2>2, Miroir
<1>2. un[j] = h
  BY <1>a, <1>b, <1>c, <1>d, InverseDe
<1>3. un[h] = j
  BY <1>1, <1>a, <1>b, <1>c, InverseEn
<1>4. my_write(str, size).ecrit = un
  BY <1>a DEF my_write
<1>5. my_write(str, size).reste[j] = IF un[j] < size THEN un[un[j]] ELSE un[j]
  BY <1>a DEF my_write
<1>6. 2 * D[c] + Largeur(str, D[c]) - 1 - j = h
  BY <1>b, <1>c, <1>d
<1> QED
  BY <1>1, <1>2, <1>3, <1>4, <1>5, <1>6

(***************************************************************************)
(* Every field of every structure is turned end for end by inverse_data:   *)
(* what the program reads of a big-endian file are the numbers it holds.   *)
(***************************************************************************)
LEMMA ToutRetourne ==
  ASSUME NEW str \in LesStructures, NEW c \in 1 .. Nombres[str]
  PROVE  Retourne[str][c]
<1>a. PICK D : D = Ou[str]
  OBVIOUS
<1>b. PICK n \in Nat : n = Nombres[str]
  BY ChampsDe
<1>c. PICK size : size = Sizeof(str)
  OBVIOUS
<1>d. PICK l \in 1 .. 4 : l = Champs[str][c]
  BY JustesDe DEF Bornes
<1>e. PICK y : y = D[c]
  OBVIOUS
<1>1. Decoupe(D, n, str, size) /\ c \in 1 .. n /\ c + 1 \in 1 .. n + 1
  BY <1>a, <1>b, <1>c, DecoupeDe
<1>2. size = D[n + 1] /\ size \in Nat
  BY <1>a, <1>b, <1>c, DebutDe, JustesDe DEF Bornes
<1>3. l = Largeur(str, D[c])
  BY <1>a, <1>d, JustesDe DEF Justes
<1>4. y \in Nat /\ y + l <= size
  <2>1. \A k \in 1 .. n + 1 : D[k] \in Nat /\ D[k] <= D[n + 1]
    BY <1>a, <1>b, JustesDe DEF Bornes
  <2>2. D[c + 1] = D[c] + l
    BY <1>1, <1>3 DEF Decoupe
  <2>3. D[c] \in Nat /\ D[c + 1] <= D[n + 1]
    BY <1>1, <2>1
  <2> QED
    BY <1>2, <1>e, <2>2, <2>3
<1>f. PICK inv : inv = inverse_data(str, size)
  OBVIOUS
<1>5. ASSUME NEW k \in 0 .. l - 1
      PROVE  inv[y + k] = y + l - 1 - k
  <2>a. PICK j : j = y + k
    OBVIOUS
  <2>1. l \in Nat
    BY <1>d
  <2>2. j \in 0 .. size - 1 /\ y <= j /\ j < y + l /\ 2 * y + l - 1 - j = y + l - 1 - k
    BY <1>2, <1>4, <2>1, <2>a, EnPlace
  <2>3. inverse_data(str, size)[j] = 2 * y + l - 1 - j
    <3>1. n \in Nat /\ size \in Nat /\ Decoupe(D, n, str, size) /\ c \in 1 .. n
      BY <1>1, <1>2, <1>b
    <3>2. y = D[c] /\ l = Largeur(str, D[c])
      BY <1>3, <1>e
    <3>3. j \in 0 .. size - 1 /\ y <= j /\ j < y + l
      BY <2>2
    <3> QED
      BY <3>1, <3>2, <3>3, InverseEn
  <2> QED
    BY <1>f, <2>2, <2>3, <2>a
<1>6. Debut(str) = D /\ Len(Champs[str]) = n
  BY <1>a, <1>b, DebutDe, ChampsDe
<1>7. str \in DOMAIN Champs
  BY DEF Champs, LesStructures
<1>8. Retourne[str][c] = \A k \in 0 .. l - 1 : inv[y + k] = y + l - 1 - k
  BY <1>1, <1>6, <1>7, <1>c, <1>d, <1>e, <1>f DEF Retourne
<1> QED
  BY <1>5, <1>8

LEMMA StructuresExactes == Structures = Miroirs
<1>1. DOMAIN Champs = LesStructures
  BY DEF Champs, LesStructures
<1>2. ASSUME NEW str \in LesStructures
      PROVE  my_write(str, Sizeof(str)) = Miroirs[str]
  <2> PICK D : D = Ou[str]
    OBVIOUS
  <2> PICK n \in Nat : n = Nombres[str]
    BY ChampsDe
  <2> PICK size : size = Sizeof(str)
    OBVIOUS
  <2>1. Decoupe(D, n, str, size)
    BY DecoupeDe
  <2>2. size = D[n + 1] /\ size \in Nat
    BY DebutDe, JustesDe DEF Bornes
  <2>3. Debut(str) = D /\ DOMAIN Champs[str] = 1 .. n
    <3>1. DOMAIN Champs[str] = 1 .. Nombres[str]
      <4>1. CASE str = "ehdr"
        BY <4>1 DEF Champs, Nombres
      <4>2. CASE str = "shdr"
        BY <4>2 DEF Champs, Nombres
      <4>3. CASE str = "Symbol"
        BY <4>3 DEF Champs, Nombres
      <4>4. CASE str = "Relocation"
        BY <4>4 DEF Champs, Nombres
      <4>5. CASE str = "Relocation_a"
        BY <4>5 DEF Champs, Nombres
      <4> QED
        BY <4>1, <4>2, <4>3, <4>4, <4>5 DEF LesStructures
    <3> QED
      BY <3>1, DebutDe
  <2> DEFINE Sur(c, j) == D[c] <= j /\ j < D[c + 1]
             Le(j) == CHOOSE c \in 1 .. n : Sur(c, j)
  <2>4. Miroirs[str] = [ecrit |-> [j \in 0 .. size - 1 |-> D[Le(j)] + D[Le(j) + 1] - 1 - j],
                        reste |-> [j \in 0 .. size - 1 |-> j]]
    <3>1. str \in DOMAIN Champs
      BY <1>1
    <3>2. Miroirs[str] =
            [ecrit |->
               [j \in 0 .. Sizeof(str) - 1 |->
                  LET c == CHOOSE c \in DOMAIN Champs[str] : Debut(str)[c] <= j /\ j < Debut(str)[c + 1]
                  IN Debut(str)[c] + Debut(str)[c + 1] - 1 - j],
             reste |-> [j \in 0 .. Sizeof(str) - 1 |-> j]]
      BY <3>1, Zenon DEF Miroirs
    <3> DEFINE M(d, S, z) ==
            [ecrit |->
               [j \in 0 .. z - 1 |->
                  LET c == CHOOSE c \in S : d[c] <= j /\ j < d[c + 1]
                  IN d[c] + d[c + 1] - 1 - j],
             reste |-> [j \in 0 .. z - 1 |-> j]]
    <3>3. Miroirs[str] = M(Debut(str), DOMAIN Champs[str], Sizeof(str))
      BY <3>2
    <3> HIDE DEF M
    <3>4. Miroirs[str] = M(D, 1 .. n, size)
      BY <2>3, <3>3
    <3> QED
      BY <3>4, Zenon DEF M
  <2>5. ASSUME NEW j \in 0 .. size - 1
        PROVE  /\ my_write(str, size).ecrit[j] = D[Le(j)] + D[Le(j) + 1] - 1 - j
               /\ my_write(str, size).reste[j] = j
    <3>1. PICK c \in 1 .. n : D[c] <= j /\ j < D[c] + Largeur(str, D[c])
      BY <2>1, <2>2, ChampDe
    <3>2. \A k \in 1 .. n : D[k + 1] = D[k] + Largeur(str, D[k])
      BY <2>1 DEF Decoupe
    <3>3. Sur(c, j)
      BY <3>1, <3>2
    <3>4. ASSUME NEW k \in 1 .. n, Sur(k, j)
          PROVE  k = c
      <4>1. j \in Nat /\ D[k] <= j /\ j < D[k] + Largeur(str, D[k])
        BY <2>2, <3>2, <3>4
      <4> QED
        BY <2>1, <2>2, <3>1, <4>1, UnSeulChamp
    <3>5. Le(j) = c
      <4> HIDE DEF Sur
      <4> QED
        BY <3>3, <3>4
    <3>6. D[c] + Largeur(str, D[c]) <= size
      <4>1. c + 1 \in 1 .. n + 1
        OBVIOUS
      <4>2. D[c + 1] <= D[n + 1]
        BY <4>1, JustesDe DEF Bornes
      <4> QED
        BY <2>2, <3>2, <4>2
    <3>7. /\ my_write(str, size).ecrit[j] = 2 * D[c] + Largeur(str, D[c]) - 1 - j
          /\ my_write(str, size).reste[j] = j
      BY <2>1, <2>2, <3>1, <3>6, CopieDe
    <3>8. D[c] \in Nat /\ Largeur(str, D[c]) \in 1 .. 4
      <4>1. c \in 1 .. n + 1
        OBVIOUS
      <4>2. D[c] \in Nat
        BY <2>2, <4>1, JustesDe DEF Bornes
      <4>3. Largeur(str, D[c]) \in 1 .. 4
        BY LargeurBorne, Zenon
      <4> QED
        BY <4>2, <4>3
    <3>9. D[c] + D[c + 1] - 1 - j = 2 * D[c] + Largeur(str, D[c]) - 1 - j
      BY <2>2, <3>2, <3>8
    <3> HIDE DEF Le
    <3> QED
      BY <3>5, <3>7, <3>9
  <2> DEFINE w == my_write(str, size)
  <2>6. w = [ecrit |-> [j \in 0 .. size - 1 |-> w.ecrit[j]],
             reste |-> [j \in 0 .. size - 1 |-> w.reste[j]]]
    <3> DEFINE un == inverse_data(str, size)
    <3>5. DOMAIN un = 0 .. size - 1 /\ un = [j \in DOMAIN un |-> un[j]]
      BY DEF inverse_data
    <3> HIDE DEF un
    <3>6. un = [j \in 0 .. size - 1 |-> un[j]]
      BY <3>5
    <3>1. w.ecrit = un
      BY DEF my_write, un
    <3> DEFINE deux == [j \in 0 .. size - 1 |-> IF un[j] < size THEN un[un[j]] ELSE un[j]]
    <3>2. w.reste = deux /\ w = [ecrit |-> un, reste |-> deux]
      BY Zenon DEF my_write, un
    <3>3. deux = [j \in 0 .. size - 1 |-> deux[j]]
      BY Zenon
    <3> HIDE DEF w, deux
    <3> QED
      BY <3>1, <3>2, <3>3, <3>6, Zenon
  <2> HIDE DEF w, Le
  <2>7. \A j \in 0 .. size - 1 : w.ecrit[j] = D[Le(j)] + D[Le(j) + 1] - 1 - j /\ w.reste[j] = j
    BY <2>5 DEF w
  <2>8. [j \in 0 .. size - 1 |-> w.ecrit[j]] = [j \in 0 .. size - 1 |-> D[Le(j)] + D[Le(j) + 1] - 1 - j]
    BY <2>7
  <2>9. [j \in 0 .. size - 1 |-> w.reste[j]] = [j \in 0 .. size - 1 |-> j]
    BY <2>7
  <2>10. w = Miroirs[str]
    BY <2>4, <2>6, <2>8, <2>9, Zenon
  <2> QED
    BY <2>10 DEF w
<1>3. Miroirs = [str \in LesStructures |-> Miroirs[str]]
  BY <1>1 DEF Miroirs
<1> QED
  BY <1>1, <1>2, <1>3 DEF Structures

LEMMA CopieMot ==
  ASSUME NEW D, NEW n \in Nat, NEW size \in Nat, Decoupe(D, n, "normal", size),
         NEW c \in 1 .. n, NEW j \in 0 .. size - 1, Largeur("normal", D[c]) = 4,
         D[c] <= j, j < D[c] + 4, D[c] + 4 <= size
  PROVE  /\ my_write("normal", size).ecrit[j] = 2 * D[c] + 4 - 1 - j
         /\ my_write("normal", size).ecrit[2 * D[c] + 4 - 1 - j] = j
         /\ my_write("normal", size).reste[j] = j
BY CopieDe

(***************************************************************************)
(* The whole words of a section of any size: turned twice they are the     *)
(* bytes of the file, and my_write leaves them as they were.               *)
(***************************************************************************)
THEOREM MotsEntiers ==
  ASSUME NEW size \in Nat, NEW j \in 0 .. 4 * (size \div 4) - 1
  PROVE  /\ my_write("normal", size).ecrit[my_write("normal", size).ecrit[j]] = j
         /\ my_write("normal", size).reste[j] = j
<1> PICK n \in Nat : n = (size + 3) \div 4
  OBVIOUS
<1> PICK q \in Nat : q = size \div 4
  OBVIOUS
<1>1. size <= 4 * n /\ 4 * n <= size + 3 /\ 4 * q <= size /\ size <= 4 * q + 3
  OBVIOUS
<1>2. \A x : Largeur("normal", x) = 4
  BY LargeurMot
<1>3. PICK D : Decoupe(D, n, "normal", size) /\ \A c \in 1 .. n + 1 : D[c] = 4 * c - 4
  <2> DEFINE D == [c \in 1 .. n + 1 |-> 4 * c - 4]
  <2>1. D \in [1 .. n + 1 -> 0 .. size + 3]
    <3>1. \A c \in 1 .. n + 1 : 4 * c - 4 \in 0 .. size + 3
      BY <1>1
    <3> QED
      BY <3>1
  <2>2. D[1] = 0 /\ D[n + 1] >= size
    BY <1>1
  <2>3. ASSUME NEW c \in 1 .. n
        PROVE  D[c] < size /\ D[c + 1] = D[c] + 4
    BY <1>1
  <2>4. \A c \in 1 .. n + 1 : D[c] = 4 * c - 4
    OBVIOUS
  <2> HIDE DEF D
  <2>5. Decoupe(D, n, "normal", size)
    BY <1>2, <2>1, <2>2, <2>3 DEF Decoupe
  <2> QED
    BY <2>4, <2>5
<1>4. PICK c \in 1 .. n : /\ c \in 1 .. n + 1 /\ 4 * c - 4 <= j /\ j < 4 * c
                         /\ 4 * c <= size /\ j \in 0 .. size - 1
  <2> PICK c : c = j \div 4 + 1
    OBVIOUS
  <2>1. j \in 0 .. 4 * q - 1
    OBVIOUS
  <2>2. j \in Nat /\ j < 4 * q
    BY <2>1
  <2>3. \A a, b \in Nat : a < 4 * b => LET m == a \div 4 + 1
                                       IN  m \in 1 .. b /\ 4 * m - 4 <= a /\ a < 4 * m
    OBVIOUS
  <2>4. c \in 1 .. q /\ 4 * c - 4 <= j /\ j < 4 * c
    BY <2>2, <2>3
  <2>5. /\ c \in 1 .. n /\ c \in 1 .. n + 1 /\ 4 * c - 4 <= j /\ j < 4 * c
        /\ 4 * c <= size /\ j \in 0 .. size - 1
    BY <1>1, <2>2, <2>4
  <2> QED
    BY <2>5, Zenon
<1>5. D[c] = 4 * c - 4
  BY <1>3, <1>4
<1>6. Largeur("normal", D[c]) = 4 /\ D[c] <= j /\ j < D[c] + 4 /\ D[c] + 4 <= size
  BY <1>2, <1>4, <1>5
<1>7. /\ my_write("normal", size).ecrit[j] = 2 * D[c] + 4 - 1 - j
      /\ my_write("normal", size).ecrit[2 * D[c] + 4 - 1 - j] = j
      /\ my_write("normal", size).reste[j] = j
  BY <1>3, <1>4, <1>6, CopieMot, ZenonT(40)
<1> QED
  BY <1>7

(***************************************************************************)
(* my_write writes what was read, whatever the structure, and of a section *)
(* of any size the whole words.                                            *)
(***************************************************************************)
THEOREM CopieToujoursExacte == Spec => []CopieExacte
<1>1. Relues = Intactes
  <2>1. ASSUME NEW size \in TaillesSection
        PROVE  Relues[size] = Intactes[size]
    <3> PICK w : w = my_write("normal", size)
      OBVIOUS
    <3>1. size \in Nat
      BY DEF TaillesSection
    <3>2. \A j \in 0 .. 4 * (size \div 4) - 1 : w.ecrit[w.ecrit[j]] = j /\ w.reste[j] = j
      BY <3>1, MotsEntiers
    <3>3. Relues[size] = [j \in 0 .. 4 * (size \div 4) - 1 |-> <<w.ecrit[w.ecrit[j]], w.reste[j]>>]
      BY DEF Relues
    <3>4. Intactes[size] = [j \in 0 .. 4 * (size \div 4) - 1 |-> <<j, j>>]
      BY DEF Intactes
    <3>5. \A j \in 0 .. 4 * (size \div 4) - 1 : <<w.ecrit[w.ecrit[j]], w.reste[j]>> = <<j, j>>
      BY <3>2, Zenon
    <3> QED
      BY <3>3, <3>4, <3>5
  <2>2. Relues = [size \in TaillesSection |-> Relues[size]]
    BY DEF Relues
  <2>3. Intactes = [size \in TaillesSection |-> Intactes[size]]
    BY DEF Intactes
  <2> QED
    BY <2>1, <2>2, <2>3
<1>2. CopieExacte
  BY <1>1, StructuresExactes DEF CopieExacte
<1> QED
  BY <1>2, PTL

-----------------------------------------------------------------------------
(***************************************************************************)
(* The inductive invariant: what the readers hold is the object's own      *)
(* table and names, the answers so far are one for each option obeyed, and *)
(* etap5 has shown the relocation sections up to i.                        *)
(***************************************************************************)
Table(o) == [k \in 1 .. Nombre(o) |-> EntreeTable(o, k)]

Noms(o) == [k \in 1 .. Nombre(o) |-> [nom |-> o.sections[k].nom]]

EstSuite(s) == Len(s) \in Nat /\ s = [k \in 1 .. Len(s) |-> s[k]]

EnCours == {"entete", "table", "noms", "etape"}

Pilote ==
  /\ objet \in Objets /\ commande \in Commandes
  /\ pc \in {"ouverture", "options", "entete", "table", "noms", "etape", "fini"}
  /\ code \in {"marche", "0", "1", "assert", "signal"}
  /\ pc = "fini" <=> code # "marche"
  /\ optind \in 1 .. Len(commande.options) + 1
  /\ etape \in Options \union {"aucune"}
  /\ pc = "ouverture" => optind = 1
  /\ pc \in EnCours => /\ optind >= 2 /\ etape = commande.options[optind - 1].opt
                       /\ etape \in {"h", "S", "x", "s", "r"}
                       /\ pc # "entete" => etape # "h"

Lus ==
  /\ flag \in {0, 1} /\ fp \in 0 .. Len(Image(objet))
  /\ pc \in EnCours \union {"options"} => flag = Drapeau /\ objet.genre = "elf"
  /\ pc \in EnCours \ {"entete"} => ehdr = Entete(objet)
  /\ shdr \in {<<>>, Table(objet)}
  /\ pc \in {"noms", "etape"} => shdr = Table(objet)
  /\ pc = "etape" => shstrtab = Noms(objet)

TablesFaites(o, t, n) ==
  /\ Len(t) = Cardinality({l \in SectionsDeReimplantation(o) : l <= n})
  /\ \A k \in SectionsDeReimplantation(o) : k <= n => RelocationsExactes(o, t[Rang(o, k)], k)

Boucle ==
  /\ i \in 0 .. Len(shdr) /\ EstSuite(tables) /\ Len(tables) <= i
  /\ pc = "etape" => TablesFaites(objet, tables, i)

Repondu(s, opts, o) ==
  \A k \in 1 .. Len(s) : Repond(s[k], opts[k]) /\ AffichageExact(o, s[k], opts[k].arg)

Montre ==
  /\ EstSuite(sortie) /\ Repondu(sortie, commande.options, objet)
  /\ pc \in {"ouverture", "options"} => Len(sortie) = optind - 1
  /\ pc \in EnCours => Len(sortie) = optind - 2
  /\ Len(sortie) <= Len(commande.options)
  /\ \A k \in 1 .. Len(sortie) : commande.options[k].opt = "?" => code = "1" /\ k = Len(sortie)
  /\ code = "0" => objet.genre = "elf" /\ Len(sortie) = Len(commande.options)
  /\ code = "1" => \/ objet.genre # "elf" /\ sortie = <<>>
                   \/ sortie # <<>> /\ commande.options[Len(sortie)].opt = "?"

P1Inv == Pilote /\ Lus /\ Boucle /\ Montre /\ AbandonsExpliques

-----------------------------------------------------------------------------
(***************************************************************************)
(* The readers, when flag is that of the file.                             *)
(***************************************************************************)
LEMMA ObjetDe ==
  ASSUME Pilote
  PROVE  ObjetOK(objet) /\ Images[objet] = Image(objet)
BY ObjetsAssumption DEF Pilote, Images

LEMMA LuDe ==
  ASSUME NEW p \in Nat, NEW n \in Nat, Pilote
  PROVE  Lu(p, n) = [k \in 1 .. n |-> Image(objet)[p + k]]
<1>1. Lu(p, n) = SubSeq(Image(objet), p + 1, p + n)
  BY ObjetDe DEF Lu
<1> PICK im : im = Image(objet)
  OBVIOUS
<1>2. SubSeq(im, p + 1, p + n) = [k \in 1 .. n |-> im[p + k]]
  OBVIOUS
<1> QED
  BY <1>1, <1>2

NumeroDe(str) == DOMAIN NumeroChamp[str]

LEMMA VuJuste ==
  ASSUME Pilote, flag = Drapeau, NEW str \in LesStructures, NEW c \in NumeroDe(str)
  PROVE  EnOrdre(str, c)
<1>1. NumeroChamp[str][c] \in 1 .. Nombres[str]
  <2>1. CASE str = "ehdr"
    BY <2>1 DEF Nombres, NumeroChamp, NumeroDe
  <2>2. CASE str = "shdr"
    BY <2>2 DEF Nombres, NumeroChamp, NumeroDe
  <2>3. CASE str = "Symbol"
    BY <2>3 DEF Nombres, NumeroChamp, NumeroDe
  <2>4. CASE str = "Relocation"
    BY <2>4 DEF Nombres, NumeroChamp, NumeroDe
  <2>5. CASE str = "Relocation_a"
    BY <2>5 DEF Nombres, NumeroChamp, NumeroDe
  <2> QED
    BY <2>1, <2>2, <2>3, <2>4, <2>5 DEF LesStructures
<1>2. Retourne[str][NumeroChamp[str][c]]
  BY <1>1, ToutRetourne
<1>3. objet.ordre \in {"grand", "petit"}
  BY ObjetDe DEF ObjetOK
<1> QED
  BY <1>2, <1>3 DEF EnOrdre, Drapeau

LEMMA VuDe ==
  ASSUME Pilote, flag = Drapeau, NEW str \in LesStructures, NEW s,
         DOMAIN s \subseteq NumeroDe(str), s = [c \in DOMAIN s |-> s[c]]
  PROVE  Vu(str, s) = s
<1>1. \A c \in DOMAIN s : EnOrdre(str, c)
  BY VuJuste
<1>2. [c \in DOMAIN s |-> IF EnOrdre(str, c) THEN s[c] ELSE Brouille] = [c \in DOMAIN s |-> s[c]]
  BY <1>1
<1> QED
  BY <1>2 DEF Vu

(***************************************************************************)
(* What lies at p is a sequence u of structures: that is what is read.     *)
(***************************************************************************)
Lisibles(str, u) ==
  \A k \in 1 .. Len(u) : DOMAIN u[k] \subseteq NumeroDe(str) /\ u[k] = [c \in DOMAIN u[k] |-> u[k][c]]

LEMMA LuCommeDe ==
  ASSUME Pilote, flag = Drapeau, NEW str \in LesStructures, NEW p \in Nat, NEW u,
         EstSuite(u), Occupe(Image(objet), p, u), Lisibles(str, u)
  PROVE  Lu(p, Len(u)) = u /\ LuComme(str, p, Len(u)) = u
<1> PICK n \in Nat : n = Len(u)
  BY DEF EstSuite
<1>1. Lu(p, n) = [k \in 1 .. n |-> Image(objet)[p + k]]
  BY LuDe
<1>2. u = [k \in 1 .. n |-> u[k]]
  BY DEF EstSuite
<1>3. \A k \in 1 .. n : Image(objet)[p + k] = u[k]
  BY DEF Occupe
<1>4. Lu(p, n) = u
  BY <1>1, <1>2, <1>3
<1>5. \A k \in 1 .. n : Vu(str, u[k]) = u[k]
  BY VuDe DEF Lisibles
<1>6. LuComme(str, p, n) = [k \in 1 .. n |-> Vu(str, u[k])]
  BY <1>4 DEF LuComme
<1> QED
  BY <1>2, <1>4, <1>5, <1>6

LEMMA ObjetFaits ==
  ASSUME NEW o, ObjetOK(o)
  PROVE  /\ Nombre(o) \in Nat \ {0, 1}
         /\ Entete(o).e_shnum = Nombre(o) /\ Entete(o).e_machine = o.machine
         /\ Entete(o).e_shstrndx \in 1 .. Nombre(o) - 1
         /\ o.sections[Entete(o).e_shstrndx + 1].nom = ".shstrtab"
         /\ o.sections[1].nom = ""
<1> PICK n : n = Nombre(o)
  OBVIOUS
<1>1. n \in Nat \ {0, 1} /\ DOMAIN o.sections = 1 .. n
  BY Sections
<1> DEFINE z == CHOOSE k \in 0 .. n - 1 : o.sections[k + 1].nom = ".shstrtab"
<1>2. Entete(o).e_shnum = n /\ Entete(o).e_machine = o.machine /\ Entete(o).e_shstrndx = z
  BY DEF Entete
<1>3. o.sections[1].nom = "" /\ \E k \in 1 .. n : o.sections[k].nom = ".shstrtab"
  BY <1>1 DEF ObjetOK
<1>4. \E k \in 0 .. n - 1 : o.sections[k + 1].nom = ".shstrtab"
  <2>1. PICK k \in 1 .. n : o.sections[k].nom = ".shstrtab"
    BY <1>3
  <2>2. k - 1 \in 0 .. n - 1 /\ k - 1 + 1 = k
    BY <1>1
  <2> QED
    BY <2>1, <2>2
<1>5. z \in 0 .. n - 1 /\ o.sections[z + 1].nom = ".shstrtab"
  BY <1>4
<1> HIDE DEF z
<1> PICK y : y = z
  OBVIOUS
<1>6. y \in 0 .. n - 1 /\ o.sections[y + 1].nom = ".shstrtab" /\ Entete(o).e_shstrndx = y
  BY <1>2, <1>5
<1>7. y # 0
  <2>1. CASE y = 0
    <3>1. o.sections[0 + 1].nom = ".shstrtab" /\ 0 + 1 = 1
      BY <1>6, <2>1
    <3> QED
      BY <1>3, <3>1
  <2> QED
    BY <2>1
<1>8. y \in 1 .. n - 1
  BY <1>1, <1>6, <1>7
<1>9. Entete(o).e_shstrndx \in 1 .. n - 1
  BY <1>6, <1>8, Zenon
<1>10. o.sections[Entete(o).e_shstrndx + 1].nom = ".shstrtab"
  BY <1>6, Zenon
<1> QED
  BY <1>1, <1>2, <1>3, <1>9, <1>10

LEMMA TableDe ==
  ASSUME NEW o, ObjetOK(o)
  PROVE  /\ EstSuite(Table(o)) /\ Len(Table(o)) = Nombre(o) /\ DOMAIN Table(o) = 1 .. Nombre(o)
         /\ Lisibles("shdr", Table(o))
         /\ \A k \in 1 .. Nombre(o) : /\ Table(o)[k].sh_name = k - 1
                                      /\ Table(o)[k].sh_type = o.sections[k].type
                                      /\ Table(o)[k].sh_offset = Place(o, k)
                                      /\ Table(o)[k].sh_size = Taille(o, k)
                                      /\ Table(o)[k].sh_entsize = o.sections[k].entsize
<1> PICK n \in Nat : n = Nombre(o)
  BY Sections
<1>1. Len(Table(o)) = n /\ DOMAIN Table(o) = 1 .. n
  BY DEF Table
<1>2. EstSuite(Table(o))
  BY <1>1 DEF EstSuite, Table
<1>3. ASSUME NEW k \in 1 .. n
      PROVE  /\ DOMAIN Table(o)[k] \subseteq NumeroDe("shdr")
             /\ Table(o)[k] = [c \in DOMAIN Table(o)[k] |-> Table(o)[k][c]]
  <2>1. Table(o)[k] = EntreeTable(o, k)
    BY DEF Table
  <2> QED
    BY <2>1 DEF EntreeTable, NumeroDe, NumeroChamp
<1>4. Lisibles("shdr", Table(o))
  BY <1>1, <1>3 DEF Lisibles
<1>5. ASSUME NEW k \in 1 .. n
      PROVE  /\ Table(o)[k].sh_name = k - 1
             /\ Table(o)[k].sh_type = o.sections[k].type
             /\ Table(o)[k].sh_offset = Place(o, k)
             /\ Table(o)[k].sh_size = Taille(o, k)
             /\ Table(o)[k].sh_entsize = o.sections[k].entsize
  <2>1. Table(o)[k] = EntreeTable(o, k)
    BY DEF Table
  <2> QED
    BY <2>1 DEF EntreeTable
<1> QED
  BY <1>1, <1>2, <1>4, <1>5

LEMMA EnteteLu ==
  ASSUME Pilote, flag = Drapeau
  PROVE  LuComme("ehdr", 0, 1)[1] = Entete(objet)
<1> PICK h : h = Entete(objet)
  OBVIOUS
<1> DEFINE u == <<h>>
<1>1. EstSuite(u) /\ Len(u) = 1
  BY DEF EstSuite
<1>2. Occupe(Image(objet), 0, u)
  BY ObjetDe, ImageDe DEF Occupe
<1>3. DOMAIN h \subseteq NumeroDe("ehdr") /\ h = [c \in DOMAIN h |-> h[c]]
  BY DEF Entete, NumeroDe, NumeroChamp
<1>4. Lisibles("ehdr", u)
  BY <1>1, <1>3 DEF Lisibles
<1>5. "ehdr" \in LesStructures
  BY DEF LesStructures
<1>6. LuComme("ehdr", 0, Len(u)) = u
  <2> HIDE DEF u
  <2> QED
    BY <1>1, <1>2, <1>4, <1>5, LuCommeDe
<1> QED
  BY <1>1, <1>6

LEMMA TableLue ==
  ASSUME Pilote, flag = Drapeau, ehdr = Entete(objet)
  PROVE  /\ LuComme("shdr", ehdr.e_shoff, ehdr.e_shnum) = Table(objet)
         /\ ehdr.e_shoff \in Nat /\ ehdr.e_shoff >= 1
         /\ ehdr.e_shoff + ehdr.e_shnum = Len(Image(objet)) /\ Len(Image(objet)) \in Nat
<1> PICK e : e = Entete(objet).e_shoff
  OBVIOUS
<1> PICK n : n = Nombre(objet)
  OBVIOUS
<1>1. /\ e \in Nat /\ e >= 1 /\ Len(Image(objet)) = e + n
      /\ \A k \in 1 .. n : Image(objet)[e + k] = EntreeTable(objet, k)
  BY ObjetDe, ImageDe
<1>2. /\ EstSuite(Table(objet)) /\ Len(Table(objet)) = n /\ Lisibles("shdr", Table(objet))
  BY ObjetDe, TableDe
<1>3. ehdr.e_shoff = e /\ ehdr.e_shnum = n /\ n \in Nat
  BY ObjetDe, ObjetFaits
<1>4. Occupe(Image(objet), e, Table(objet))
  <2>1. \A k \in 1 .. n : Table(objet)[k] = EntreeTable(objet, k)
    BY DEF Table
  <2> QED
    BY <1>1, <1>2, <2>1 DEF Occupe
<1>5. "shdr" \in LesStructures
  BY DEF LesStructures
<1>6. LuComme("shdr", e, Len(Table(objet))) = Table(objet)
  BY <1>1, <1>2, <1>4, <1>5, LuCommeDe
<1> QED
  BY <1>1, <1>2, <1>3, <1>6

(***************************************************************************)
(* The bytes of a section, and the structures of a table.                  *)
(***************************************************************************)
LEMMA SectionLue ==
  ASSUME Pilote, NEW k \in 2 .. Nombre(objet), objet.sections[k].type # NOBITS
  PROVE  /\ Lu(Place(objet, k), Taille(objet, k)) = Unites(objet, k)
         /\ Place(objet, k) \in Nat /\ Taille(objet, k) = Len(Unites(objet, k))
         /\ Len(Unites(objet, k)) \in Nat
         /\ Place(objet, k) + Taille(objet, k) <= Len(Image(objet))
<1> PICK e : e = Entete(objet).e_shoff
  OBVIOUS
<1> PICK u : u = Unites(objet, k)
  OBVIOUS
<1> PICK p : p = Place(objet, k)
  OBVIOUS
<1> PICK n : n = Nombre(objet)
  OBVIOUS
<1>1. n \in Nat \ {0, 1} /\ k \in 1 .. n
  BY ObjetDe, Sections
<1>2. Len(u) \in Nat /\ u \in [1 .. Len(u) -> Range(u)]
  BY <1>1, ObjetDe, UnitesDe
<1>3. /\ e \in Nat /\ Len(Image(objet)) = e + n /\ p \in Nat /\ p + Len(u) <= e
      /\ Occupe(Image(objet), p, u)
  BY ObjetDe, ImageDe
<1>4. Taille(objet, k) = Len(u)
  BY DEF Taille
<1>5. Lu(p, Len(u)) = u
  <2>1. Lu(p, Len(u)) = [j \in 1 .. Len(u) |-> Image(objet)[p + j]]
    BY <1>2, <1>3, LuDe
  <2>2. \A j \in 1 .. Len(u) : Image(objet)[p + j] = u[j]
    BY <1>3 DEF Occupe
  <2> QED
    BY <1>2, <2>1, <2>2
<1> QED
  BY <1>1, <1>2, <1>3, <1>4, <1>5

LEMMA StructuresLues ==
  ASSUME Pilote, flag = Drapeau, NEW k \in 2 .. Nombre(objet), objet.sections[k].type # NOBITS,
         NEW str \in LesStructures, Lisibles(str, Unites(objet, k))
  PROVE  LuComme(str, Place(objet, k), Taille(objet, k)) = Unites(objet, k)
<1> PICK u : u = Unites(objet, k)
  OBVIOUS
<1>1. Nombre(objet) \in Nat /\ k \in 1 .. Nombre(objet)
  BY ObjetDe, Sections
<1>2. Len(u) \in Nat /\ u \in [1 .. Len(u) -> Range(u)]
  BY <1>1, ObjetDe, UnitesDe
<1>3. EstSuite(u)
  BY <1>2 DEF EstSuite
<1>4. Occupe(Image(objet), Place(objet, k), u) /\ Place(objet, k) \in Nat
  BY ObjetDe, ImageDe
<1>5. LuComme(str, Place(objet, k), Len(u)) = u
  BY <1>3, <1>4, LuCommeDe
<1> QED
  BY <1>5, SectionLue

Pret == Pilote /\ flag = Drapeau /\ ehdr = Entete(objet) /\ shdr = Table(objet)

Nomme == Pret /\ shstrtab = Noms(objet)

LEMMA UnitesNoms ==
  ASSUME NEW o, ObjetOK(o), NEW k \in 1 .. Nombre(o), o.sections[k].nom = ".shstrtab"
  PROVE  Unites(o, k) = Noms(o)
BY UnitesSelon DEF Noms

LEMMA UnitesStrtab ==
  ASSUME NEW o, ObjetOK(o), NEW k \in 1 .. Nombre(o), o.sections[k].nom = ".strtab"
  PROVE  Unites(o, k) = [j \in 1 .. Len(Symboles(o)) |-> [nom |-> Symboles(o)[j].nom]]
BY UnitesSelon

UnSymbole(d, j) ==
  [st_name |-> j - 1, st_value |-> d[j].valeur, st_info |-> d[j].info, st_shndx |-> d[j].ndx]

LEMMA UnitesSymtab ==
  ASSUME NEW o, ObjetOK(o), NEW k \in 1 .. Nombre(o), NEW d, d = o.sections[k].donnees,
         o.sections[k].type = SYMTAB
  PROVE  /\ Len(d) \in Nat /\ Len(Unites(o, k)) = Len(d)
         /\ Unites(o, k) = [j \in 1 .. Len(d) |-> UnSymbole(d, j)]
         /\ Lisibles("Symbol", Unites(o, k))
<1>1. SectionOK(o.sections[k])
  BY Sections
<1> PICK u : u = Unites(o, k)
  OBVIOUS
<1>2. Len(d) \in Nat
  BY <1>1 DEF SectionOK
<1>3. u = [j \in 1 .. Len(d) |-> UnSymbole(d, j)]
  BY UnitesSelon DEF UnSymbole
<1>4. Len(u) = Len(d)
  BY <1>2, <1>3
<1>5. \A j \in 1 .. Len(u) : u[j] = UnSymbole(d, j)
  BY <1>3, <1>4
<1>6. \A j : /\ DOMAIN UnSymbole(d, j) \subseteq NumeroDe("Symbol")
             /\ UnSymbole(d, j) = [c \in DOMAIN UnSymbole(d, j) |-> UnSymbole(d, j)[c]]
  BY DEF UnSymbole, NumeroDe, NumeroChamp
<1>7. Lisibles("Symbol", u)
  BY <1>5, <1>6 DEF Lisibles
<1> QED
  BY <1>2, <1>3, <1>4, <1>7

UneRelocation(d, j) == [r_offset |-> d[j].offset, r_info |-> <<d[j].sym, d[j].type>>]

LEMMA UnitesRel ==
  ASSUME NEW o, ObjetOK(o), NEW k \in 1 .. Nombre(o), NEW d, d = o.sections[k].donnees,
         o.sections[k].type \in {REL, RELA}
  PROVE  /\ Len(d) \in Nat /\ Len(Unites(o, k)) = Len(d)
         /\ Unites(o, k) = [j \in 1 .. Len(d) |-> UneRelocation(d, j)]
         /\ Lisibles("Relocation", Unites(o, k)) /\ Lisibles("Relocation_a", Unites(o, k))
<1>1. SectionOK(o.sections[k])
  BY Sections
<1> PICK u : u = Unites(o, k)
  OBVIOUS
<1>2. Len(d) \in Nat
  BY <1>1 DEF SectionOK
<1>3. u = [j \in 1 .. Len(d) |-> UneRelocation(d, j)]
  BY UnitesSelon DEF UneRelocation
<1>4. Len(u) = Len(d)
  BY <1>2, <1>3
<1>5. \A j \in 1 .. Len(u) : u[j] = UneRelocation(d, j)
  BY <1>3, <1>4
<1>6. \A j : /\ DOMAIN UneRelocation(d, j) \subseteq NumeroDe("Relocation")
             /\ DOMAIN UneRelocation(d, j) \subseteq NumeroDe("Relocation_a")
             /\ UneRelocation(d, j) = [c \in DOMAIN UneRelocation(d, j) |-> UneRelocation(d, j)[c]]
  BY DEF UneRelocation, NumeroDe, NumeroChamp
<1>7. Lisibles("Relocation", u) /\ Lisibles("Relocation_a", u)
  BY <1>5, <1>6 DEF Lisibles
<1> QED
  BY <1>2, <1>3, <1>4, <1>7

LEMMA NomsPleins ==
  ASSUME NEW t, SectionOK(t), t.nom = ".shstrtab"
  PROVE  t.type # NOBITS
BY DEF SectionOK, STRTAB, NOBITS

LEMMA NomsLus ==
  ASSUME Pret, NEW s, s = shdr[ehdr.e_shstrndx + 1]
  PROVE  /\ Lu(s.sh_offset, s.sh_size) = Noms(objet)
         /\ s.sh_offset + s.sh_size \in 0 .. Len(Image(objet))
<1> PICK o : o = objet
  OBVIOUS
<1>1. ObjetOK(o) /\ Pilote
  BY ObjetDe DEF Pret
<1> PICK n : n = Nombre(o)
  OBVIOUS
<1> PICK k : k = Entete(o).e_shstrndx + 1
  OBVIOUS
<1>2. /\ n \in Nat \ {0, 1} /\ Entete(o).e_shstrndx \in 1 .. n - 1
      /\ o.sections[k].nom = ".shstrtab"
  BY <1>1, ObjetFaits
<1>3. k \in 2 .. n /\ k \in 1 .. n
  BY <1>2
<1>4. s = Table(o)[k]
  BY DEF Pret
<1>5. s.sh_offset = Place(o, k) /\ s.sh_size = Taille(o, k)
  BY <1>1, <1>3, <1>4, TableDe
<1>6. o.sections[k].type # NOBITS
  <2>1. SectionOK(o.sections[k])
    BY <1>1, <1>3, Sections
  <2> QED
    BY <1>2, <2>1, NomsPleins, Zenon
<1>7. Unites(o, k) = Noms(o)
  BY <1>1, <1>2, <1>3, UnitesNoms
<1>8. /\ Lu(Place(o, k), Taille(o, k)) = Unites(o, k)
      /\ Place(o, k) \in Nat /\ Taille(o, k) \in Nat
      /\ Place(o, k) + Taille(o, k) <= Len(Image(o))
  BY <1>1, <1>3, <1>6, SectionLue
<1>9. Len(Image(o)) \in Nat
  BY <1>1, TableLue DEF Pret
<1> QED
  BY <1>5, <1>7, <1>8, <1>9

LEMMA NommeDe ==
  ASSUME Nomme
  PROVE  /\ Nombre(objet) \in Nat \ {0, 1} /\ ehdr.e_shnum = Nombre(objet)
         /\ DOMAIN shdr = 1 .. Nombre(objet) /\ Len(shdr) = Nombre(objet)
         /\ \A k \in 1 .. Nombre(objet) :
              /\ shstrtab[shdr[k].sh_name + 1].nom = objet.sections[k].nom
              /\ shdr[k].sh_type = objet.sections[k].type
              /\ shdr[k].sh_offset = Place(objet, k)
              /\ shdr[k].sh_size = Taille(objet, k)
              /\ shdr[k].sh_entsize = objet.sections[k].entsize
<1>1. ObjetOK(objet) /\ ehdr = Entete(objet) /\ shdr = Table(objet) /\ shstrtab = Noms(objet)
  BY ObjetDe DEF Pret, Nomme
<1> PICK n \in Nat \ {0, 1} : n = Nombre(objet)
  BY <1>1, Sections
<1>2. ASSUME NEW k \in 1 .. n
      PROVE  shstrtab[shdr[k].sh_name + 1].nom = objet.sections[k].nom
  <2>1. shdr[k].sh_name = k - 1
    BY <1>1, TableDe
  <2>2. shdr[k].sh_name + 1 = k
    BY <2>1
  <2>3. Noms(objet)[k].nom = objet.sections[k].nom
    BY DEF Noms
  <2> QED
    BY <1>1, <2>2, <2>3
<1> QED
  BY <1>1, <1>2, TableDe, ObjetFaits

LEMMA ChercheDe ==
  ASSUME Nomme, NEW nom
  PROVE  \/ /\ chercher_index_de_section(nom) = -1
            /\ \A k \in 1 .. Nombre(objet) : objet.sections[k].nom # nom
         \/ /\ chercher_index_de_section(nom) \in 0 .. Nombre(objet) - 1
            /\ objet.sections[chercher_index_de_section(nom) + 1].nom = nom
<1> PICK n \in Nat : n = Nombre(objet)
  BY NommeDe
<1> PICK v : v = [k \in 0 .. n - 1 |-> shstrtab[shdr[k + 1].sh_name + 1].nom]
  OBVIOUS
<1>1. \A k \in 0 .. n - 1 : v[k] = objet.sections[k + 1].nom
  <2>1. \A k \in 0 .. n - 1 : k + 1 \in 1 .. n
    OBVIOUS
  <2> QED
    BY <2>1, NommeDe
<1> DEFINE S == {k \in 0 .. n - 1 : v[k] = nom}
           c == CHOOSE k \in S : \A l \in S : k <= l
<1>2. chercher_index_de_section(nom) = IF S = {} THEN -1 ELSE c
  <2> DEFINE R == {k \in 0 .. ehdr.e_shnum - 1 : shstrtab[shdr[k + 1].sh_name + 1].nom = nom}
  <2>1. chercher_index_de_section(nom) =
          IF R = {} THEN -1 ELSE CHOOSE k \in R : \A l \in R : k <= l
    BY DEF chercher_index_de_section
  <2>2. ehdr.e_shnum = n
    BY NommeDe
  <2>3. R = S
    BY <2>2
  <2> HIDE DEF R, S
  <2> QED
    BY <2>1, <2>3
<1>3. CASE S = {}
  <2>1. ASSUME NEW k \in 1 .. n
        PROVE  objet.sections[k].nom # nom
    <3>1. k - 1 \in 0 .. n - 1 /\ k - 1 + 1 = k
      OBVIOUS
    <3>2. v[k - 1] = objet.sections[k].nom
      BY <1>1, <3>1
    <3> QED
      BY <1>3, <3>1, <3>2
  <2> QED
    BY <1>2, <1>3, <2>1
<1>4. CASE S # {}
  <2>1. S \subseteq Nat
    OBVIOUS
  <2>2. \E k \in S : \A l \in S : k <= l
    BY <1>4, <2>1, Premier, Zenon
  <2>3. c \in S
    BY <2>2, Zenon
  <2>4. c \in 0 .. n - 1 /\ objet.sections[c + 1].nom = nom
    BY <1>1, <2>3
  <2> HIDE DEF c
  <2> QED
    BY <1>2, <1>4, <2>4
<1> QED
  BY <1>3, <1>4

-----------------------------------------------------------------------------
(***************************************************************************)
(* Each display shows what the object is.                                  *)
(***************************************************************************)
LEMMA AfficheEntete ==
  ASSUME NEW o, NEW arg, NEW a, a = [opt |-> "h", entete |-> Entete(o)]
  PROVE  AffichageExact(o, a, arg)
BY DEF AffichageExact

LEMMA AfficheReste ==
  ASSUME NEW o, NEW arg, NEW a, a \in {[opt |-> "usage"], [opt |-> "H"]}
  PROVE  AffichageExact(o, a, arg)
BY DEF AffichageExact

LEMMA GroupeVu ==
  ASSUME Nomme, NEW k \in 1 .. Nombre(objet), objet.ordre = "petit",
         objet.sections[k].type = GROUP
  PROVE  OctetUn(Place(objet, k))
<1> PICK n \in Nat : n = Nombre(objet)
  BY NommeDe
<1>1. ObjetOK(objet) /\ Pilote
  BY ObjetDe DEF Nomme, Pret
<1>2. SectionOK(objet.sections[k]) /\ k # 1
  BY <1>1, Sections DEF GROUP
<1>3. k \in 2 .. n /\ objet.sections[k].type # NOBITS
  BY <1>2 DEF GROUP, NOBITS
<1> PICK d : d = objet.sections[k].donnees
  OBVIOUS
<1>4. d # <<>> /\ d[1] = [mot |-> 1] /\ Len(d) \in Nat /\ d \in Seq(Range(d))
  BY <1>2 DEF SectionOK
<1>5. Len(d) >= 1
  BY <1>4
<1>6. Unites(objet, k) = d
  BY <1>1, UnitesSelon DEF GROUP, STRTAB, SYMTAB, REL, RELA
<1> PICK p \in Nat : p = Place(objet, k)
  BY <1>1, <1>3, SectionLue
<1>7. p + Len(d) <= Len(Image(objet)) /\ Occupe(Image(objet), p, d) /\ Len(Image(objet)) \in Nat
  <2>1. p + Len(d) <= Len(Image(objet))
    BY <1>1, <1>3, <1>6, SectionLue
  <2>2. Occupe(Image(objet), p, d)
    BY <1>1, <1>3, <1>6, ImageDe
  <2>3. Len(Image(objet)) \in Nat
    BY <1>1, TableLue DEF Nomme, Pret
  <2> QED
    BY <2>1, <2>2, <2>3
<1>8. p < Len(Image(objet)) /\ Image(objet)[p + 1] = [mot |-> 1]
  BY <1>4, <1>5, <1>7 DEF Occupe
<1> PICK u : u = Image(objet)[p + 1]
  OBVIOUS
<1>9. "mot" \in DOMAIN u /\ u["mot"] % 256 = 1
  <2>1. u = [mot |-> 1] /\ 1 % 256 = 1
    BY <1>8, SMT
  <2> QED
    BY <2>1, SMT
<1>10. \E c \in Mots \intersect DOMAIN u : u[c] % 256 = 1
  BY <1>9, SMT DEF Mots
<1>11. Images[objet] = Image(objet)
  BY <1>1, ObjetDe
<1> QED
  BY <1>8, <1>10, <1>11, SMT DEF OctetUn

LEMMA AfficheSections ==
  ASSUME Nomme, NEW arg, NEW a,
         a = [opt |-> "S",
              lignes |-> [k \in DOMAIN shdr |->
                            [nom |-> shstrtab[shdr[k].sh_name + 1].nom, taille |-> shdr[k].sh_size,
                             type |-> TypeAffiche(shdr[k]), offset |-> shdr[k].sh_offset]]]
  PROVE  AffichageExact(objet, a, arg)
<1> PICK n \in Nat : n = Nombre(objet)
  BY NommeDe
<1>1. ObjetOK(objet)
  BY ObjetDe DEF Nomme, Pret
<1>2. DOMAIN shdr = 1 .. n /\ DOMAIN objet.sections = 1 .. n
  BY <1>1, NommeDe, Sections
<1>3. ASSUME NEW k \in 1 .. n, NEW l,
             l = [nom |-> shstrtab[shdr[k].sh_name + 1].nom, taille |-> shdr[k].sh_size,
                  type |-> TypeAffiche(shdr[k]), offset |-> shdr[k].sh_offset]
      PROVE  LigneExacte(objet, l, k)
  <2>1. /\ l.nom = objet.sections[k].nom /\ l.taille = Taille(objet, k)
        /\ l.offset = Place(objet, k)
    BY <1>3, NommeDe
  <2>2. /\ l.type.type = objet.sections[k].type
        /\ l.type.groupe = (objet.sections[k].type \notin TypesNommes /\ OctetUn(Place(objet, k)))
    BY <1>3, NommeDe DEF TypeAffiche
  <2>3. GROUP \notin TypesNommes
    BY SMT DEF GROUP, TypesNommes, LOPROC, HIPROC, LOUSER, HIUSER, GNU_HASH, GNU_verneed, GNU_versym
  <2>4. objet.ordre = "petit" /\ l.type.type = GROUP => l.type.groupe
    BY <2>2, <2>3, GroupeVu
  <2> QED
    BY <2>1, <2>2, <2>4 DEF LigneExacte
<1>4. a.opt = "S" /\ DOMAIN a.lignes = DOMAIN objet.sections
  BY <1>2
<1>5. ASSUME NEW k \in DOMAIN a.lignes
      PROVE  LigneExacte(objet, a.lignes[k], k)
  BY <1>2, <1>3
<1> QED
  BY <1>4, <1>5 DEF AffichageExact

LEMMA PlaceTaille ==
  ASSUME Pilote, NEW k \in 1 .. Nombre(objet)
  PROVE  /\ Place(objet, k) \in Nat /\ Taille(objet, k) \in Nat
         /\ Place(objet, k) <= Len(Image(objet)) /\ Len(Image(objet)) \in Nat
         /\ k = 1 => Taille(objet, k) = 0 /\ Unites(objet, k) = <<>>
<1> PICK o : o = objet /\ ObjetOK(o)
  BY ObjetDe
<1> PICK n \in Nat : n = Nombre(o)
  BY Sections
<1>1. SectionOK(o.sections[k]) /\ (o.sections[k].type = 0 <=> k = 1)
  BY Sections
<1>2. Len(Unites(o, k)) \in Nat
  BY UnitesDe
<1>3. Taille(o, k) \in Nat
  BY <1>1, <1>2 DEF Taille, SectionOK
<1>4. CASE k = 1
  <2>1. o.sections[k].type = 0
    BY <1>1, <1>4
  <2>2. Unites(o, k) = <<>>
    <3>1. Unites(o, k) = o.sections[k].donnees
      BY <2>1, UnitesSelon DEF STRTAB, SYMTAB, REL, RELA
    <3>2. o.sections[k].donnees = <<>>
      BY <1>1, <2>1 DEF SectionOK
    <3> QED
      BY <3>1, <3>2
  <2>3. Taille(o, k) = 0
    BY <2>1, <2>2 DEF Taille, NOBITS
  <2>4. Place(o, k) = 0
    BY <2>1 DEF Place
  <2>5. Len(Image(o)) \in Nat
    <3>1. Entete(o).e_shoff \in Nat /\ Len(Image(o)) = Entete(o).e_shoff + n
      BY ImageDe
    <3> QED
      BY <3>1
  <2> QED
    BY <2>2, <2>3, <2>4, <2>5
<1>5. CASE k # 1
  <2>1. k \in 2 .. n
    BY <1>5
  <2> PICK e : e = Entete(o).e_shoff
    OBVIOUS
  <2>2. /\ e \in Nat /\ Len(Image(o)) = e + n
        /\ Place(o, k) \in Nat /\ Place(o, k) + Len(Unites(o, k)) <= e
    BY <2>1, ImageDe
  <2> QED
    BY <1>2, <1>3, <1>5, <2>2
<1> QED
  BY <1>4, <1>5

LEMMA LisibleSi ==
  ASSUME Pilote, NEW k \in 1 .. Nombre(objet), objet.sections[k].type # NOBITS,
         Taille(objet, k) # 0
  PROVE  /\ Lisible(Place(objet, k), Taille(objet, k)) /\ k \in 2 .. Nombre(objet)
         /\ Lu(Place(objet, k), Taille(objet, k)) = Unites(objet, k)
<1>1. k \in 2 .. Nombre(objet)
  <2>1. Nombre(objet) \in Nat /\ k # 1
    BY PlaceTaille, ObjetDe, Sections
  <2> QED
    BY <2>1
<1>2. /\ Place(objet, k) + Taille(objet, k) <= Len(Image(objet))
      /\ Lu(Place(objet, k), Taille(objet, k)) = Unites(objet, k)
  BY <1>1, SectionLue
<1>3. Taille(objet, k) > 0
  BY PlaceTaille
<1> QED
  BY <1>1, <1>2, <1>3, ObjetDe DEF Lisible

LEMMA FinLisible ==
  ASSUME Pilote, NEW k \in 1 .. Nombre(objet), Lisible(Place(objet, k), Taille(objet, k))
  PROVE  /\ Place(objet, k) + Taille(objet, k) \in 0 .. Len(Image(objet))
         /\ k \in 2 .. Nombre(objet) /\ Taille(objet, k) # 0
<1>1. Taille(objet, k) > 0 /\ Place(objet, k) + Taille(objet, k) <= Len(Image(objet))
  BY ObjetDe DEF Lisible
<1>2. Place(objet, k) \in Nat /\ Taille(objet, k) \in Nat /\ Len(Image(objet)) \in Nat
  BY PlaceTaille
<1>3. Nombre(objet) \in Nat /\ k # 1
  BY <1>1, PlaceTaille, ObjetDe, Sections
<1> QED
  BY <1>1, <1>2, <1>3

LEMMA NumeroExact ==
  ASSUME Nomme, Optarg.valeur \in Nat
  PROVE  /\ Existe => /\ numero + 1 \in 1 .. Nombre(objet)
                      /\ numero + 1 \in Demandees(objet, Optarg)
                      /\ NomAffiche = IF ParIndex THEN objet.sections[numero + 1].nom ELSE ""
         /\ ~Existe => Demandees(objet, Optarg) = {}
<1> PICK n \in Nat \ {0, 1} : n = Nombre(objet)
  BY NommeDe
<1> PICK v \in Nat : v = Optarg.valeur
  OBVIOUS
<1>1. ObjetOK(objet) /\ DOMAIN objet.sections = 1 .. n /\ objet.sections[1].nom = ""
  BY ObjetDe, Sections, ObjetFaits DEF Nomme, Pret
<1>2. ehdr.e_shnum = n
  BY NommeDe
<1>3. Demandees(objet, Optarg) =
        {k \in 1 .. n : IF ParIndex THEN k = v + 1 ELSE objet.sections[k].nom = Optarg.nom}
  BY <1>1 DEF Demandees, ParIndex
<1>4. CASE ParIndex
  <2>1. numero = v
    BY <1>4 DEF numero
  <2>2. Existe <=> v <= n - 1
    BY <1>2, <2>1 DEF Existe
  <2>3. ASSUME v <= n - 1
        PROVE  NomAffiche = objet.sections[v + 1].nom /\ v + 1 \in 1 .. n
    <3>1. v + 1 \in 1 .. n
      BY <2>3
    <3>2. NomAffiche = shstrtab[shdr[v + 1].sh_name + 1].nom
      BY <1>4, <2>1 DEF NomAffiche
    <3> QED
      BY <3>1, <3>2, NommeDe
  <2>4. v <= n - 1 => v + 1 \in Demandees(objet, Optarg)
    BY <1>3, <1>4, <2>3
  <2>5. ~(v <= n - 1) => Demandees(objet, Optarg) = {}
    BY <1>3, <1>4
  <2> QED
    BY <1>4, <2>1, <2>2, <2>3, <2>4, <2>5
<1>5. CASE ~ParIndex
  <2> PICK c : c = chercher_index_de_section(Optarg.nom)
    OBVIOUS
  <2>1. numero = c
    BY <1>5 DEF numero
  <2>2. \/ c = -1 /\ \A k \in 1 .. n : objet.sections[k].nom # Optarg.nom
        \/ c \in 0 .. n - 1 /\ objet.sections[c + 1].nom = Optarg.nom
    BY ChercheDe
  <2>3. Existe <=> c \in 0 .. n - 1
    BY <1>2, <2>1 DEF Existe
  <2>4. NomAffiche = ""
    <3>1. NomAffiche = shstrtab[1].nom
      BY <1>5 DEF NomAffiche
    <3>2. shstrtab[1].nom = objet.sections[1].nom
      <4>1. 1 \in 1 .. Nombre(objet) /\ shstrtab = Noms(objet)
        BY DEF Nomme
      <4>2. Noms(objet)[1] = [nom |-> objet.sections[1].nom]
        BY <4>1 DEF Noms
      <4> QED
        BY <4>1, <4>2
    <3> QED
      BY <1>1, <3>1, <3>2
  <2>5. CASE c \in 0 .. n - 1
    <3>1. c + 1 \in 1 .. n /\ objet.sections[c + 1].nom = Optarg.nom
      BY <2>2, <2>5
    <3>2. c + 1 \in Demandees(objet, Optarg)
      BY <1>3, <1>5, <3>1
    <3> QED
      BY <1>5, <2>1, <2>3, <2>4, <2>5, <3>1, <3>2
  <2>6. CASE ~(c \in 0 .. n - 1)
    <3>1. Demandees(objet, Optarg) = {}
      BY <1>3, <1>5, <2>2, <2>6
    <3> QED
      BY <2>3, <2>6, <3>1
  <2> QED
    BY <2>5, <2>6
<1> QED
  BY <1>4, <1>5

LEMMA AfficheContenu ==
  ASSUME Nomme, Optarg.valeur \in Nat, Existe, NEW s, s = shdr[numero + 1],
         Lisible(s.sh_offset, s.sh_size), NEW a,
         a = [opt |-> "x", nom |-> NomAffiche, offset |-> s.sh_offset, taille |-> s.sh_size,
              contenu |-> Lu(s.sh_offset, s.sh_size)]
  PROVE  /\ AffichageExact(objet, a, Optarg)
         /\ s.sh_offset + s.sh_size \in 0 .. Len(Image(objet))
<1> PICK k \in 1 .. Nombre(objet) : k = numero + 1
  BY NumeroExact
<1>1. /\ Pilote /\ k \in Demandees(objet, Optarg)
      /\ NomAffiche = IF ParIndex THEN objet.sections[k].nom ELSE ""
  BY NumeroExact DEF Nomme, Pret
<1>2. s.sh_offset = Place(objet, k) /\ s.sh_size = Taille(objet, k)
  BY NommeDe
<1>3. Lisible(Place(objet, k), Taille(objet, k))
  BY <1>2
<1>4. /\ Place(objet, k) + Taille(objet, k) \in 0 .. Len(Image(objet))
      /\ k \in 2 .. Nombre(objet) /\ Taille(objet, k) # 0
  BY <1>1, <1>3, FinLisible
<1>5. objet.sections[k].type = NOBITS \/ a.contenu = Unites(objet, k)
  <2>1. a.contenu = Lu(Place(objet, k), Taille(objet, k))
    BY <1>2
  <2>2. objet.sections[k].type # NOBITS => Lu(Place(objet, k), Taille(objet, k)) = Unites(objet, k)
    BY <1>1, <1>4, SectionLue
  <2> QED
    BY <2>1, <2>2
<1>6. /\ a.taille = Taille(objet, k) /\ a.opt = "x"
      /\ a.nom = IF ParIndex THEN objet.sections[k].nom ELSE ""
  BY <1>1, <1>2
<1>7. ContenuExact(objet, a, Optarg)
  BY <1>1, <1>5, <1>6 DEF ContenuExact, ParIndex
<1>8. AffichageExact(objet, a, Optarg)
  BY <1>6, <1>7 DEF AffichageExact
<1> QED
  BY <1>2, <1>4, <1>8

LEMMA ContenuAbsent ==
  ASSUME Nomme, Optarg.valeur \in Nat, ~Existe
  PROVE  /\ AffichageExact(objet, [opt |-> "x", nom |-> "indefini"], Optarg)
         /\ Demandees(objet, Optarg) = {}
<1> PICK a : a = [opt |-> "x", nom |-> "indefini"]
  OBVIOUS
<1>1. Demandees(objet, Optarg) = {}
  BY NumeroExact
<1>2. a.opt = "x" /\ ContenuExact(objet, a, Optarg)
  BY <1>1 DEF ContenuExact
<1> QED
  BY <1>1, <1>2 DEF AffichageExact

LEMMA ContenuRefuse ==
  ASSUME Nomme, Optarg.valeur \in Nat, Existe,
         ~Lisible(shdr[numero + 1].sh_offset, shdr[numero + 1].sh_size)
  PROVE  \E k \in Demandees(objet, Optarg) : Taille(objet, k) = 0 \/ objet.sections[k].type = NOBITS
<1> PICK k \in 1 .. Nombre(objet) : k = numero + 1
  BY NumeroExact
<1>1. Pilote /\ k \in Demandees(objet, Optarg)
  BY NumeroExact DEF Nomme, Pret
<1>2. shdr[k].sh_offset = Place(objet, k) /\ shdr[k].sh_size = Taille(objet, k)
  BY NommeDe
<1>3. Taille(objet, k) = 0 \/ objet.sections[k].type = NOBITS
  BY <1>1, <1>2, LisibleSi
<1> QED
  BY <1>1, <1>3

(***************************************************************************)
(* etap4.                                                                  *)
(***************************************************************************)
LEMMA IndexTables ==
  ASSUME Nomme
  PROVE  /\ index_SymTab # -1 => /\ index_SymTab + 1 \in 1 .. Nombre(objet)
                                 /\ objet.sections[index_SymTab + 1].type = SYMTAB
                                 /\ objet.sections[index_SymTab + 1].donnees = Symboles(objet)
         /\ index_StrTab # -1 => /\ index_StrTab + 1 \in 1 .. Nombre(objet)
                                 /\ objet.sections[index_StrTab + 1].nom = ".strtab"
                                 /\ objet.sections[index_StrTab + 1].type = STRTAB
         /\ index_SymTab = -1 \/ index_StrTab = -1 => Symboles(objet) = <<>>
<1> PICK n \in Nat : n = Nombre(objet)
  BY NommeDe
<1>1. ObjetOK(objet) /\ DOMAIN objet.sections = 1 .. n
  BY ObjetDe, Sections DEF Nomme, Pret
<1>2. \A k \in 1 .. n : /\ objet.sections[k].nom = ".symtab" <=> objet.sections[k].type = SYMTAB
                        /\ objet.sections[k].nom = ".strtab" => objet.sections[k].type = STRTAB
  BY <1>1, Sections DEF SectionOK
<1> PICK y : y = index_SymTab
  OBVIOUS
<1> PICK z : z = index_StrTab
  OBVIOUS
<1>3. \/ y = -1 /\ \A k \in 1 .. n : objet.sections[k].nom # ".symtab"
      \/ y \in 0 .. n - 1 /\ objet.sections[y + 1].nom = ".symtab"
  BY ChercheDe DEF index_SymTab
<1>4. \/ z = -1 /\ \A k \in 1 .. n : objet.sections[k].nom # ".strtab"
      \/ z \in 0 .. n - 1 /\ objet.sections[z + 1].nom = ".strtab"
  BY ChercheDe DEF index_StrTab
<1>5. ASSUME y # -1
      PROVE  /\ y + 1 \in 1 .. n /\ objet.sections[y + 1].type = SYMTAB
             /\ objet.sections[y + 1].donnees = Symboles(objet)
  <2>1. y + 1 \in 1 .. n /\ objet.sections[y + 1].nom = ".symtab"
    BY <1>3, <1>5
  <2>2. objet.sections[y + 1].type = SYMTAB
    BY <1>2, <2>1
  <2> QED
    BY <1>1, <2>1, <2>2, SymbolesDe
<1>6. ASSUME z # -1
      PROVE  /\ z + 1 \in 1 .. n /\ objet.sections[z + 1].nom = ".strtab"
             /\ objet.sections[z + 1].type = STRTAB
  <2>1. z + 1 \in 1 .. n /\ objet.sections[z + 1].nom = ".strtab"
    BY <1>4, <1>6
  <2> QED
    BY <1>2, <2>1
<1>7. ASSUME y = -1 \/ z = -1
      PROVE  Symboles(objet) = <<>>
  <2>1. CASE y = -1
    <3>1. \A k \in 1 .. n : objet.sections[k].nom # ".symtab"
      BY <1>3, <2>1
    <3>2. \A k \in 1 .. n : objet.sections[k].type # SYMTAB
      BY <1>2, <3>1
    <3> QED
      BY <1>1, <3>2, SymbolesDe
  <2>2. CASE z = -1
    <3>1. \A k \in 1 .. n : objet.sections[k].nom # ".strtab"
      BY <1>4, <2>2
    <3>2. \A k \in 1 .. n : objet.sections[k].type # SYMTAB
      BY <1>1, <3>1 DEF ObjetOK
    <3> QED
      BY <1>1, <3>2, SymbolesDe
  <2> QED
    BY <1>7, <2>1, <2>2
<1> QED
  BY <1>5, <1>6, <1>7

Symboliser(t, strtab, sym) ==
  [j \in 1 .. t.sh_size \div t.sh_entsize |->
     [nom |-> strtab[sym[j].st_name + 1].nom, valeur |-> sym[j].st_value,
      info |-> sym[j].st_info, ndx |-> sym[j].st_shndx]]

LEMMA AfficheSymboles ==
  ASSUME Nomme, TablesPresentes, NEW arg, NEW t, t = shdr[index_SymTab + 1], NEW strtab,
         strtab = Lu(shdr[index_StrTab + 1].sh_offset, shdr[index_StrTab + 1].sh_size),
         NEW sym, sym = LuComme("Symbol", t.sh_offset, t.sh_size), NEW a,
         a = [opt |-> "s", symboles |-> Symboliser(t, strtab, sym)]
  PROVE  /\ AffichageExact(objet, a, arg)
         /\ t.sh_offset + t.sh_size \in 0 .. Len(Image(objet))
<1>1. /\ index_SymTab # -1 /\ index_StrTab # -1
      /\ Lisible(shdr[index_StrTab + 1].sh_offset, shdr[index_StrTab + 1].sh_size)
      /\ shdr[index_SymTab + 1].sh_entsize # 0
      /\ Lisible(shdr[index_SymTab + 1].sh_offset, shdr[index_SymTab + 1].sh_size)
  BY DEF TablesPresentes
<1> PICK y \in 1 .. Nombre(objet) : y = index_SymTab + 1
  BY <1>1, IndexTables
<1> PICK z \in 1 .. Nombre(objet) : z = index_StrTab + 1
  BY <1>1, IndexTables
<1> PICK d : d = Symboles(objet)
  OBVIOUS
<1>2. Pilote /\ flag = Drapeau /\ ObjetOK(objet)
  BY ObjetDe DEF Nomme, Pret
<1>3. /\ objet.sections[y].type = SYMTAB /\ objet.sections[y].donnees = d
      /\ objet.sections[z].nom = ".strtab" /\ objet.sections[z].type = STRTAB
  BY <1>1, IndexTables
<1>4. /\ t.sh_offset = Place(objet, y) /\ t.sh_size = Taille(objet, y)
      /\ t.sh_entsize = objet.sections[y].entsize
      /\ shdr[z].sh_offset = Place(objet, z) /\ shdr[z].sh_size = Taille(objet, z)
  BY NommeDe
<1>5. /\ y \in 2 .. Nombre(objet) /\ z \in 2 .. Nombre(objet)
      /\ Place(objet, y) + Taille(objet, y) \in 0 .. Len(Image(objet))
  BY <1>1, <1>2, <1>4, FinLisible
<1>6. /\ Len(d) \in Nat /\ Len(Unites(objet, y)) = Len(d)
      /\ Unites(objet, y) = [j \in 1 .. Len(d) |-> UnSymbole(d, j)]
      /\ Lisibles("Symbol", Unites(objet, y))
  BY <1>2, <1>3, UnitesSymtab
<1>7. SYMTAB # NOBITS /\ STRTAB # NOBITS /\ "Symbol" \in LesStructures
  BY DEF SYMTAB, STRTAB, NOBITS, LesStructures
<1>8. sym = [j \in 1 .. Len(d) |-> UnSymbole(d, j)]
  BY <1>2, <1>3, <1>4, <1>5, <1>6, <1>7, StructuresLues
<1>9. strtab = [j \in 1 .. Len(d) |-> [nom |-> d[j].nom]]
  <2>1. strtab = Unites(objet, z)
    BY <1>2, <1>3, <1>4, <1>5, <1>7, SectionLue
  <2> QED
    BY <1>2, <1>3, <2>1, UnitesStrtab
<1>10. t.sh_size \div t.sh_entsize = Len(d)
  <2>1. SectionOK(objet.sections[y])
    BY <1>2, Sections
  <2>2. objet.sections[y].entsize \in {0, 1}
    BY <1>3, <2>1 DEF SectionOK
  <2>3. t.sh_entsize = 1
    BY <1>1, <1>4, <2>2
  <2>4. t.sh_size = Len(d)
    BY <1>2, <1>3, <1>4, <1>5, <1>6, <1>7, SectionLue
  <2> QED
    BY <1>6, <2>3, <2>4
<1>11. ASSUME NEW j \in 1 .. Len(d)
       PROVE  [nom |-> strtab[sym[j].st_name + 1].nom, valeur |-> sym[j].st_value,
               info |-> sym[j].st_info, ndx |-> sym[j].st_shndx] = d[j]
  <2>1. sym[j] = UnSymbole(d, j)
    BY <1>8
  <2>2. /\ sym[j].st_name = j - 1 /\ sym[j].st_value = d[j].valeur
        /\ sym[j].st_info = d[j].info /\ sym[j].st_shndx = d[j].ndx
    BY <2>1 DEF UnSymbole
  <2>3. sym[j].st_name + 1 = j
    <3> PICK x : x = sym[j].st_name
      OBVIOUS
    <3>1. x = j - 1
      BY <2>2
    <3>2. x + 1 = j
      BY <3>1
    <3> QED
      BY <3>2
  <2>4. strtab[sym[j].st_name + 1].nom = d[j].nom
    <3>1. strtab[j] = [nom |-> d[j].nom]
      BY <1>9
    <3> QED
      BY <2>3, <3>1
  <2>5. d[j] = [nom |-> d[j].nom, valeur |-> d[j].valeur, info |-> d[j].info, ndx |-> d[j].ndx]
    <3>1. SectionOK(objet.sections[y])
      BY <1>2, Sections
    <3>2. j \in DOMAIN objet.sections[y].donnees
      <4>1. d \in Seq(Range(d))
        BY <1>3, <3>1 DEF SectionOK
      <4> QED
        BY <1>3, <4>1
    <3> QED
      BY <1>3, <3>1, <3>2 DEF SectionOK
  <2> QED
    BY <2>2, <2>4, <2>5
<1>12. a.opt = "s" /\ a.symboles = d
  <2> DEFINE f(m) == [j \in 1 .. m |->
                       [nom |-> strtab[sym[j].st_name + 1].nom, valeur |-> sym[j].st_value,
                        info |-> sym[j].st_info, ndx |-> sym[j].st_shndx]]
  <2>1. a.opt = "s" /\ a.symboles = f(t.sh_size \div t.sh_entsize)
    BY DEF Symboliser
  <2>2. f(Len(d)) = [j \in 1 .. Len(d) |-> d[j]]
    BY <1>11
  <2> HIDE DEF f
  <2>3. a.symboles = [j \in 1 .. Len(d) |-> d[j]]
    BY <1>10, <2>1, <2>2
  <2>4. d \in Seq(Range(d))
    BY <1>2, SymbolesDe
  <2>5. d = [j \in 1 .. Len(d) |-> d[j]]
    BY <2>4
  <2> QED
    BY <2>1, <2>3, <2>5
<1> QED
  BY <1>4, <1>5, <1>12 DEF AffichageExact

LEMMA SymbolesRefuses ==
  ASSUME Nomme, ~TablesPresentes
  PROVE  \/ Symboles(objet) = <<>>
         \/ \E k \in DOMAIN objet.sections :
              objet.sections[k].type = SYMTAB /\ objet.sections[k].entsize = 0
<1>1. Pilote /\ ObjetOK(objet) /\ DOMAIN objet.sections = 1 .. Nombre(objet)
  BY ObjetDe, Sections DEF Nomme, Pret
<1>2. CASE index_SymTab = -1 \/ index_StrTab = -1
  BY <1>2, IndexTables
<1>3. CASE ~(index_SymTab = -1 \/ index_StrTab = -1)
  <2> PICK y \in 1 .. Nombre(objet) : y = index_SymTab + 1
    BY <1>3, IndexTables
  <2> PICK z \in 1 .. Nombre(objet) : z = index_StrTab + 1
    BY <1>3, IndexTables
  <2> PICK d : d = Symboles(objet)
    OBVIOUS
  <2>1. /\ objet.sections[y].type = SYMTAB /\ objet.sections[y].donnees = d
        /\ objet.sections[z].nom = ".strtab" /\ objet.sections[z].type = STRTAB
    BY <1>3, IndexTables
  <2>2. /\ shdr[y].sh_offset = Place(objet, y) /\ shdr[y].sh_size = Taille(objet, y)
        /\ shdr[y].sh_entsize = objet.sections[y].entsize
        /\ shdr[z].sh_offset = Place(objet, z) /\ shdr[z].sh_size = Taille(objet, z)
    BY NommeDe
  <2>3. SYMTAB # NOBITS /\ STRTAB # NOBITS
    BY DEF SYMTAB, STRTAB, NOBITS
  <2>4. \/ ~Lisible(Place(objet, z), Taille(objet, z)) \/ objet.sections[y].entsize = 0
        \/ ~Lisible(Place(objet, y), Taille(objet, y))
    BY <1>3, <2>2 DEF TablesPresentes
  <2>5. \/ Taille(objet, z) = 0 \/ objet.sections[y].entsize = 0 \/ Taille(objet, y) = 0
    BY <1>1, <2>1, <2>3, <2>4, LisibleSi
  <2>6. Taille(objet, y) = Len(d) /\ Taille(objet, z) = Len(d) /\ Len(d) \in Nat
    <3>1. Len(d) \in Nat /\ Len(Unites(objet, y)) = Len(d)
      BY <1>1, <2>1, UnitesSymtab
    <3>2. Unites(objet, z) = [j \in 1 .. Len(d) |-> [nom |-> d[j].nom]]
      BY <1>1, <2>1, UnitesStrtab
    <3>3. Len(Unites(objet, z)) = Len(d)
      BY <3>1, <3>2
    <3> QED
      BY <2>1, <2>3, <3>1, <3>3 DEF Taille
  <2>7. d \in Seq(Range(d))
    BY <1>1, SymbolesDe
  <2>8. Len(d) = 0 => d = <<>>
    BY <2>7
  <2> QED
    BY <1>1, <2>1, <2>5, <2>6, <2>8
<1> QED
  BY <1>2, <1>3

(***************************************************************************)
(* etap5.                                                                  *)
(***************************************************************************)
LEMMA RelocationsLues ==
  ASSUME Nomme, NEW k \in 1 .. Nombre(objet), NEW s, s = shdr[k], AReimplantation(s),
         calcul_nombre_entrees(s), Lisible(s.sh_offset, s.sh_size)
  PROVE  /\ RelocationsExactes(objet, Relocations(s), k)
         /\ s.sh_offset + s.sh_size \in 0 .. Len(Image(objet))
<1> PICK d : d = objet.sections[k].donnees
  OBVIOUS
<1>1. Pilote /\ flag = Drapeau /\ ObjetOK(objet)
  BY ObjetDe DEF Nomme, Pret
<1>2. /\ s.sh_offset = Place(objet, k) /\ s.sh_size = Taille(objet, k)
      /\ s.sh_type = objet.sections[k].type /\ s.sh_entsize = objet.sections[k].entsize
      /\ shstrtab[s.sh_name + 1].nom = objet.sections[k].nom
  BY NommeDe
<1>3. objet.sections[k].type \in {REL, RELA} /\ objet.sections[k].type # NOBITS
  BY <1>2 DEF AReimplantation, REL, RELA, NOBITS
<1>4. /\ Place(objet, k) + Taille(objet, k) \in 0 .. Len(Image(objet))
      /\ k \in 2 .. Nombre(objet)
  BY <1>1, <1>2, FinLisible
<1>5. /\ Len(d) \in Nat /\ Len(Unites(objet, k)) = Len(d)
      /\ Unites(objet, k) = [j \in 1 .. Len(d) |-> UneRelocation(d, j)]
      /\ Lisibles("Relocation", Unites(objet, k)) /\ Lisibles("Relocation_a", Unites(objet, k))
  BY <1>1, <1>3, UnitesRel
<1> PICK str : str = IF s.sh_type = RELA THEN "Relocation_a" ELSE "Relocation"
  OBVIOUS
<1>6. str \in LesStructures /\ Lisibles(str, Unites(objet, k))
  BY <1>5 DEF LesStructures
<1> PICK r : r = LuComme(str, s.sh_offset, s.sh_size)
  OBVIOUS
<1>7. r = [j \in 1 .. Len(d) |-> UneRelocation(d, j)]
  <2>1. LuComme(str, Place(objet, k), Taille(objet, k)) = Unites(objet, k)
    BY <1>1, <1>3, <1>4, <1>6, StructuresLues, Zenon
  <2> QED
    BY <1>2, <1>5, <2>1, Zenon
<1>8. s.sh_size \div s.sh_entsize = Len(d)
  <2>1. SectionOK(objet.sections[k])
    BY <1>1, Sections
  <2>2. objet.sections[k].entsize \in {0, 1}
    BY <1>3, <2>1 DEF SectionOK
  <2>3. s.sh_entsize = 1
    BY <1>2, <2>2 DEF calcul_nombre_entrees
  <2>4. s.sh_size = Len(d)
    BY <1>1, <1>2, <1>3, <1>4, <1>5, SectionLue
  <2>5. \A x \in Nat : x \div 1 = x
    OBVIOUS
  <2>6. s.sh_size \in Nat
    BY <1>5, <2>4, Zenon
  <2>7. s.sh_size \div s.sh_entsize = s.sh_size
    BY <2>3, <2>5, <2>6, Zenon
  <2> QED
    BY <2>4, <2>7, Zenon
<1> DEFINE f(m) == [j \in 1 .. m |-> [offset |-> r[j].r_offset, info |-> r[j].r_info]]
           g == [j \in 1 .. Len(d) |-> [offset |-> d[j].offset, info |-> <<d[j].sym, d[j].type>>]]
<1>9. f(Len(d)) = g
  <2>1. ASSUME NEW j \in 1 .. Len(d)
        PROVE  /\ r[j].r_offset = d[j].offset
               /\ r[j].r_info = <<d[j].sym, d[j].type>>
    <3>1. r[j] = UneRelocation(d, j)
      BY <1>7, Zenon
    <3> QED
      BY <3>1 DEF UneRelocation
  <2> QED
    BY <2>1
<1> PICK x : x = Relocations(s)
  OBVIOUS
<1>10. x = [nom |-> shstrtab[s.sh_name + 1].nom, offset |-> s.sh_offset, famille |-> Famille,
            entrees |-> f(s.sh_size \div s.sh_entsize)]
  BY DEF Relocations
<1> HIDE DEF f
<1>11. x.nom = objet.sections[k].nom /\ x.famille = Famille /\ x.entrees = g
  <2>1. /\ x.nom = shstrtab[s.sh_name + 1].nom /\ x.famille = Famille
        /\ x.entrees = f(s.sh_size \div s.sh_entsize)
    BY <1>10
  <2> QED
    BY <1>2, <1>8, <1>9, <2>1, Zenon
<1>12. Famille = IF objet.machine = 40 THEN "ARM" ELSE "386"
  <2>1. ehdr.e_machine = objet.machine
    BY <1>1, ObjetFaits DEF Nomme, Pret
  <2> QED
    BY <2>1 DEF Famille
<1>13. DOMAIN d = 1 .. Len(d)
  <2>1. SectionOK(objet.sections[k])
    BY <1>1, Sections
  <2> QED
    BY <2>1 DEF SectionOK
<1>14. RelocationsExactes(objet, x, k)
  BY <1>11, <1>12, <1>13 DEF RelocationsExactes
<1> QED
  BY <1>2, <1>4, <1>14

LEMMA RelocationsRefusees ==
  ASSUME Nomme, NEW k \in 1 .. Nombre(objet), AReimplantation(shdr[k]),
         ~calcul_nombre_entrees(shdr[k]) \/ ~Lisible(shdr[k].sh_offset, shdr[k].sh_size)
  PROVE  \E l \in DOMAIN objet.sections :
           /\ objet.sections[l].type \in {REL, RELA}
           /\ objet.sections[l].entsize = 0 \/ Taille(objet, l) = 0
<1>1. Pilote /\ DOMAIN objet.sections = 1 .. Nombre(objet)
  BY ObjetDe, Sections DEF Nomme, Pret
<1>2. /\ shdr[k].sh_offset = Place(objet, k) /\ shdr[k].sh_size = Taille(objet, k)
      /\ shdr[k].sh_type = objet.sections[k].type /\ shdr[k].sh_entsize = objet.sections[k].entsize
  BY NommeDe
<1>3. objet.sections[k].type \in {REL, RELA} /\ objet.sections[k].type # NOBITS
  BY <1>2 DEF AReimplantation, REL, RELA, NOBITS
<1>4. objet.sections[k].entsize = 0 \/ Taille(objet, k) = 0
  BY <1>1, <1>2, <1>3, LisibleSi DEF calcul_nombre_entrees
<1> QED
  BY <1>1, <1>3, <1>4

Jusque(o, n) == {l \in SectionsDeReimplantation(o) : l <= n}

LEMMA JusqueDe ==
  ASSUME NEW o, ObjetOK(o)
  PROVE  /\ \A n : IsFiniteSet(Jusque(o, n)) /\ Cardinality(Jusque(o, n)) \in Nat
         /\ \A n \in 0 .. Nombre(o) - 1 :
              n + 1 \in SectionsDeReimplantation(o) =>
                Cardinality(Jusque(o, n + 1)) = Cardinality(Jusque(o, n)) + 1
         /\ \A n \in 0 .. Nombre(o) - 1 :
              n + 1 \notin SectionsDeReimplantation(o) => Jusque(o, n + 1) = Jusque(o, n)
         /\ Jusque(o, 0) = {} /\ Jusque(o, Nombre(o)) = SectionsDeReimplantation(o)
         /\ \A k \in SectionsDeReimplantation(o), n \in Nat :
              k <= n => Rang(o, k) \in 1 .. Cardinality(Jusque(o, n))
<1> PICK N \in Nat : N = Nombre(o)
  BY Sections
<1>1. SectionsDeReimplantation(o) \subseteq 1 .. N
  BY Sections DEF SectionsDeReimplantation
<1> PICK R : R = SectionsDeReimplantation(o)
  OBVIOUS
<1>2. IsFiniteSet(1 .. N)
  BY FS_Interval
<1>3. ASSUME NEW n
      PROVE  IsFiniteSet(Jusque(o, n)) /\ Cardinality(Jusque(o, n)) \in Nat
  <2>1. Jusque(o, n) \subseteq 1 .. N
    BY <1>1 DEF Jusque
  <2>2. IsFiniteSet(Jusque(o, n))
    BY <1>2, <2>1, FS_Subset
  <2> QED
    BY <2>2, FS_CardinalityType
<1>4. ASSUME NEW n \in 0 .. N - 1, n + 1 \in R
      PROVE  Cardinality(Jusque(o, n + 1)) = Cardinality(Jusque(o, n)) + 1
  <2>1. Jusque(o, n + 1) = Jusque(o, n) \union {n + 1}
    BY <1>1, <1>4 DEF Jusque
  <2>2. n + 1 \notin Jusque(o, n)
    BY DEF Jusque
  <2>3. Cardinality(Jusque(o, n) \union {n + 1}) = Cardinality(Jusque(o, n)) + 1
    BY <1>3, <2>2, FS_AddElement
  <2> QED
    BY <2>1, <2>3
<1>5. ASSUME NEW n \in 0 .. N - 1, n + 1 \notin R
      PROVE  Jusque(o, n + 1) = Jusque(o, n)
  <2>1. \A l \in R : l <= n + 1 <=> l <= n
    BY <1>1, <1>5
  <2> QED
    BY <2>1 DEF Jusque
<1>6. Jusque(o, 0) = {} /\ Jusque(o, N) = R
  BY <1>1 DEF Jusque
<1>7. ASSUME NEW k \in R, NEW n \in Nat, k <= n
      PROVE  Rang(o, k) \in 1 .. Cardinality(Jusque(o, n))
  <2>1. Rang(o, k) = Cardinality(Jusque(o, k))
    BY DEF Rang, Jusque
  <2>2. k \in Jusque(o, k) /\ Jusque(o, k) \subseteq Jusque(o, n)
    BY <1>1, <1>7 DEF Jusque
  <2>3. Cardinality(Jusque(o, k)) <= Cardinality(Jusque(o, n))
    BY <1>3, <2>2, FS_Subset
  <2>4. Cardinality(Jusque(o, k)) # 0
    BY <1>3, <2>2, FS_EmptySet
  <2> PICK a \in Nat : a = Cardinality(Jusque(o, k))
    BY <1>3
  <2> PICK b \in Nat : b = Cardinality(Jusque(o, n))
    BY <1>3
  <2>5. a \in 1 .. b
    BY <2>3, <2>4
  <2> QED
    BY <2>1, <2>5
<1> QED
  BY <1>3, <1>4, <1>5, <1>6, <1>7

LEMMA EstSuiteDe ==
  ASSUME NEW S, NEW t \in Seq(S)
  PROVE  EstSuite(t)
BY DEF EstSuite

LEMMA Ajoute ==
  ASSUME NEW s, EstSuite(s), NEW x
  PROVE  /\ EstSuite(Append(s, x)) /\ Len(Append(s, x)) = Len(s) + 1
         /\ \A k \in 1 .. Len(s) : Append(s, x)[k] = s[k]
         /\ Append(s, x)[Len(s) + 1] = x
<1> DEFINE S == {s[k] : k \in 1 .. Len(s)} \union {x}
<1> PICK n \in Nat : n = Len(s)
  BY DEF EstSuite
<1>1. s = [k \in 1 .. n |-> s[k]] /\ \A k \in 1 .. n : s[k] \in S
  BY DEF EstSuite
<1>2. x \in S
  OBVIOUS
<1> HIDE DEF S
<1>3. s \in Seq(S)
  <2>1. s \in [1 .. n -> S]
    BY <1>1
  <2> QED
    BY <2>1
<1> PICK t : t = Append(s, x)
  OBVIOUS
<1>4. /\ t \in Seq(S) /\ Len(t) = n + 1
      /\ \A k \in 1 .. n : t[k] = s[k]
      /\ t[n + 1] = x
  BY <1>2, <1>3
<1>5. EstSuite(t)
  BY <1>4, EstSuiteDe
<1> QED
  BY <1>4, <1>5

LEMMA TableDePlus ==
  ASSUME NEW o, ObjetOK(o), NEW n \in 0 .. Nombre(o) - 1, NEW t, EstSuite(t), TablesFaites(o, t, n),
         n + 1 \in SectionsDeReimplantation(o), NEW x, RelocationsExactes(o, x, n + 1)
  PROVE  TablesFaites(o, Append(t, x), n + 1)
<1> PICK R : R = SectionsDeReimplantation(o)
  OBVIOUS
<1>1. R \subseteq 1 .. Nombre(o) /\ Nombre(o) \in Nat
  BY Sections DEF SectionsDeReimplantation
<1>2. Len(t) = Cardinality(Jusque(o, n)) /\ Len(t) \in Nat
  BY JusqueDe DEF TablesFaites, Jusque
<1>3. \A k \in R : k <= n => RelocationsExactes(o, t[Rang(o, k)], k)
  BY DEF TablesFaites
<1> PICK u : u = Append(t, x)
  OBVIOUS
<1>4. /\ Len(u) = Len(t) + 1 /\ \A k \in 1 .. Len(t) : u[k] = t[k]
      /\ u[Len(t) + 1] = x
  BY Ajoute
<1>5. Cardinality(Jusque(o, n + 1)) = Len(t) + 1
  BY <1>2, JusqueDe
<1>6. ASSUME NEW k \in R, k <= n + 1
      PROVE  RelocationsExactes(o, u[Rang(o, k)], k)
  <2>1. CASE k <= n
    <3>1. Rang(o, k) \in 1 .. Len(t)
      <4>1. n \in Nat
        OBVIOUS
      <4> QED
        BY <1>2, <2>1, <4>1, JusqueDe
    <3>2. u[Rang(o, k)] = t[Rang(o, k)]
      BY <1>4, <3>1
    <3> QED
      BY <1>3, <2>1, <3>2
  <2>2. CASE k = n + 1
    <3>1. Rang(o, k) = Len(t) + 1
      BY <1>5, <2>2 DEF Rang, Jusque
    <3> QED
      BY <1>4, <2>2, <3>1
  <2>3. k <= n \/ k = n + 1
    BY <1>1, <1>6
  <2> QED
    BY <2>1, <2>2, <2>3
<1> QED
  BY <1>4, <1>5, <1>6 DEF TablesFaites, Jusque

LEMMA TableDeMoins ==
  ASSUME NEW o, ObjetOK(o), NEW n \in 0 .. Nombre(o) - 1, NEW t, TablesFaites(o, t, n),
         n + 1 \notin SectionsDeReimplantation(o)
  PROVE  TablesFaites(o, t, n + 1)
<1>1. Jusque(o, n + 1) = Jusque(o, n)
  BY JusqueDe
<1>2. Cardinality(Jusque(o, n + 1)) = Len(t)
  BY <1>1 DEF TablesFaites, Jusque
<1>3. ASSUME NEW k \in SectionsDeReimplantation(o), k <= n + 1
      PROVE  RelocationsExactes(o, t[Rang(o, k)], k)
  <2>1. k \in Jusque(o, n)
    BY <1>1, <1>3 DEF Jusque
  <2> QED
    BY <2>1 DEF TablesFaites, Jusque
<1> QED
  BY <1>2, <1>3 DEF TablesFaites, Jusque

LEMMA TableVide ==
  ASSUME NEW o, ObjetOK(o)
  PROVE  TablesFaites(o, <<>>, 0)
<1>1. Jusque(o, 0) = {}
  BY JusqueDe
<1>2. Cardinality(Jusque(o, 0)) = 0
  BY <1>1, FS_EmptySet
<1>3. \A k \in SectionsDeReimplantation(o) : ~(k <= 0)
  BY <1>1 DEF Jusque
<1> QED
  BY <1>2, <1>3 DEF TablesFaites, Jusque

LEMMA AfficheRelocations ==
  ASSUME NEW o, ObjetOK(o), NEW t, TablesFaites(o, t, Nombre(o)), NEW arg, NEW a,
         a = [opt |-> "r", tables |-> t]
  PROVE  AffichageExact(o, a, arg)
<1>1. Jusque(o, Nombre(o)) = SectionsDeReimplantation(o)
  BY JusqueDe
<1>2. Len(t) = Cardinality(SectionsDeReimplantation(o))
  BY <1>1 DEF TablesFaites, Jusque
<1>3. \A k \in SectionsDeReimplantation(o) : RelocationsExactes(o, t[Rang(o, k)], k)
  BY <1>1 DEF TablesFaites, Jusque
<1> QED
  BY <1>2, <1>3 DEF AffichageExact

-----------------------------------------------------------------------------
(***************************************************************************)
(* The steps.                                                              *)
(***************************************************************************)
LEMMA CommandeDe ==
  ASSUME Pilote
  PROVE  /\ Len(commande.options) \in Nat /\ DOMAIN commande.options = 1 .. Len(commande.options)
         /\ \A k \in 1 .. Len(commande.options) : /\ commande.options[k].opt \in Options
                                                  /\ commande.options[k].arg.valeur \in Nat
<1>1. commande \in Commandes
  BY DEF Pilote
<1>2. commande.options \in Seq(Range(commande.options))
  BY <1>1, CommandesAssumption
<1>3. Len(commande.options) \in Nat /\ DOMAIN commande.options = 1 .. Len(commande.options)
  BY <1>2
<1> QED
  BY <1>1, <1>3, CommandesAssumption

Fixe == objet' = objet /\ commande' = commande

LEMMA ReponduPlus ==
  ASSUME NEW s, NEW opts, NEW o, NEW a, EstSuite(s), Repondu(s, opts, o),
         Repond(a, opts[Len(s) + 1]), AffichageExact(o, a, opts[Len(s) + 1].arg)
  PROVE  Repondu(Append(s, a), opts, o)
<1> PICK t : t = Append(s, a)
  OBVIOUS
<1> PICK n \in Nat : n = Len(s)
  BY DEF EstSuite
<1>1. Len(t) = n + 1 /\ (\A k \in 1 .. n : t[k] = s[k]) /\ t[n + 1] = a
  BY Ajoute
<1>2. ASSUME NEW k \in 1 .. n + 1
      PROVE  Repond(t[k], opts[k]) /\ AffichageExact(o, t[k], opts[k].arg)
  <2>1. CASE k \in 1 .. n
    BY <1>1, <2>1 DEF Repondu
  <2>2. CASE k = n + 1
    BY <1>1, <2>2
  <2>3. k \in 1 .. n \/ k = n + 1
    OBVIOUS
  <2> QED
    BY <2>1, <2>2, <2>3
<1> QED
  BY <1>1, <1>2 DEF Repondu

LEMMA MontreReste ==
  ASSUME Montre, Fixe, sortie' = sortie, code' = code,
         pc' \in {"ouverture", "options"} => Len(sortie) = optind' - 1,
         pc' \in EnCours => Len(sortie) = optind' - 2
  PROVE  Montre'
BY DEF Montre, Fixe, EnCours

LEMMA MontreFin ==
  ASSUME Montre, Fixe, code = "marche", pc' = "fini", sortie' = sortie,
         \/ code' \in {"assert", "signal"}
         \/ code' = "0" /\ objet.genre = "elf" /\ Len(sortie) = Len(commande.options)
         \/ code' = "1" /\ objet.genre # "elf" /\ sortie = <<>>
  PROVE  Montre'
<1>1. \A k \in 1 .. Len(sortie) : commande.options[k].opt # "?"
  BY DEF Montre
<1> QED
  BY <1>1 DEF Montre, Fixe, EnCours

LEMMA MontreAffiche ==
  ASSUME Pilote, Montre, Fixe, code = "marche", NEW a, Affiche(a), optind' = Len(sortie) + 2,
         NEW k, k = Len(sortie) + 1, k <= Len(commande.options), commande.options[k].opt # "?",
         Repond(a, commande.options[k]), AffichageExact(objet, a, commande.options[k].arg)
  PROVE  Montre'
<1> PICK n \in Nat : n = Len(sortie)
  BY DEF Montre, EstSuite
<1>1. sortie' = Append(sortie, a) /\ pc' = "options" /\ code' = "marche"
  BY DEF Affiche
<1>2. /\ EstSuite(sortie') /\ Len(sortie') = n + 1
  BY <1>1, Ajoute DEF Montre
<1>3. Repondu(sortie', commande.options, objet)
  BY <1>1, ReponduPlus DEF Montre
<1>4. Len(sortie') = optind' - 1
  BY <1>2
<1>5. \A j \in 1 .. n : commande.options[j].opt # "?"
  BY DEF Montre
<1>6. \A j \in 1 .. n + 1 : commande.options[j].opt # "?"
  <2>1. \A j \in 1 .. n + 1 : j \in 1 .. n \/ j = k
    OBVIOUS
  <2> QED
    BY <1>5, <2>1
<1>7. Len(sortie') <= Len(commande.options)
  BY <1>2
<1> QED
  BY <1>1, <1>2, <1>3, <1>4, <1>6, <1>7 DEF Montre, Fixe, EnCours

LEMMA MontreInconnue ==
  ASSUME Pilote, Montre, Fixe, code = "marche", NEW a, sortie' = Append(sortie, a),
         pc' = "fini", code' = "1",
         NEW k, k = Len(sortie) + 1, k <= Len(commande.options), commande.options[k].opt = "?",
         Repond(a, commande.options[k]), AffichageExact(objet, a, commande.options[k].arg)
  PROVE  Montre'
<1> PICK n \in Nat : n = Len(sortie)
  BY DEF Montre, EstSuite
<1>2. /\ EstSuite(sortie') /\ Len(sortie') = n + 1
  BY Ajoute DEF Montre
<1>3. Repondu(sortie', commande.options, objet)
  BY ReponduPlus DEF Montre
<1>5. \A j \in 1 .. n : commande.options[j].opt # "?"
  BY DEF Montre
<1>6. \A j \in 1 .. n + 1 : commande.options[j].opt = "?" => j = n + 1
  <2>1. \A j \in 1 .. n + 1 : j \in 1 .. n \/ j = n + 1
    OBVIOUS
  <2> QED
    BY <1>5, <2>1
<1>7. Len(sortie') <= Len(commande.options)
  BY <1>2
<1>8. sortie' # <<>>
  BY <1>2
<1>9. commande.options[Len(sortie')].opt = "?"
  BY <1>2
<1> QED
  BY <1>2, <1>3, <1>6, <1>7, <1>8, <1>9 DEF Montre, Fixe, EnCours

LEMMA EtapeAffiche ==
  ASSUME P1Inv, pc \in EnCours, NEW a, Affiche(a), a.opt = etape, Fixe, optind' = optind, etape' = etape,
         AffichageExact(objet, a, Optarg)
  PROVE  Montre' /\ Pilote'
<1>1. Pilote /\ Montre /\ code = "marche"
  BY DEF P1Inv, Pilote, EnCours
<1> PICK k : k = optind - 1
  OBVIOUS
<1>2. /\ optind \in 1 .. Len(commande.options) + 1 /\ optind >= 2
      /\ Len(commande.options) \in Nat /\ etape = commande.options[k].opt
      /\ etape \in {"h", "S", "x", "s", "r"}
  BY <1>1, CommandeDe DEF Pilote
<1>3. Len(sortie) = optind - 2
  BY <1>1 DEF Montre
<1>4. /\ k = Len(sortie) + 1 /\ optind' = Len(sortie) + 2 /\ k <= Len(commande.options)
      /\ commande.options[k].opt # "?"
  BY <1>2, <1>3
<1>5. Repond(a, commande.options[k]) /\ AffichageExact(objet, a, commande.options[k].arg)
  BY <1>2 DEF Repond, Optarg
<1>6. Montre'
  BY <1>1, <1>4, <1>5, MontreAffiche
<1>7. pc' = "options" /\ code' = code
  BY DEF Affiche
<1>8. Pilote'
  BY <1>1, <1>7 DEF Fixe, Pilote, EnCours
<1> QED
  BY <1>6, <1>8

LEMMA SansAbandon == ASSUME code' \in {"marche", "0", "1"} PROVE AbandonsExpliques'
BY DEF AbandonsExpliques

LEMMA P1Init == Init => P1Inv
<1> SUFFICES ASSUME Init
             PROVE  P1Inv
  OBVIOUS
<1> USE DEF Init
<1>1. Pilote
  <2>1. commande.options \in Seq(Range(commande.options))
    BY CommandesAssumption
  <2>2. Len(commande.options) \in Nat
    BY <2>1
  <2> QED
    BY <2>2 DEF Pilote, EnCours
<1>2. Lus
  <2>1. Len(Image(objet)) \in Nat
    <3>1. Entete(objet).e_shoff \in Nat /\ Len(Image(objet)) = Entete(objet).e_shoff + Nombre(objet)
      BY <1>1, ObjetDe, ImageDe
    <3>2. Nombre(objet) \in Nat
      BY <1>1, ObjetDe, Sections
    <3> QED
      BY <3>1, <3>2
  <2> QED
    BY <2>1 DEF Lus, EnCours
<1>3. Boucle
  BY DEF Boucle, EstSuite
<1>4. Montre
  <2>1. Len(commande.options) \in Nat
    BY <1>1, CommandeDe
  <2> QED
    BY <2>1 DEF Montre, EstSuite, Repondu, EnCours
<1>5. AbandonsExpliques
  BY DEF AbandonsExpliques
<1> QED
  BY <1>1, <1>2, <1>3, <1>4, <1>5 DEF P1Inv

LEMMA PasOuverture ==
  ASSUME P1Inv, OuvertureEchoue \/ Ouvre
  PROVE  P1Inv'
<1>1. Pilote /\ Lus /\ Boucle /\ Montre /\ pc = "ouverture" /\ code = "marche" /\ optind = 1
  BY DEF P1Inv, Pilote, OuvertureEchoue, Ouvre
<1>2. Fixe /\ UNCHANGED <<optind, etape, locaux, sortie>>
  BY DEF OuvertureEchoue, Ouvre, entree, Fixe
<1>3. Len(sortie) = 0
  BY <1>1 DEF Montre
<1>4. CASE OuvertureEchoue
  <2>1. pc' = "fini" /\ code' = "1" /\ objet.genre # "elf" /\ flag' = flag /\ fp' = fp
    BY <1>4 DEF OuvertureEchoue, Sort
  <2>2. Pilote'
    BY <1>1, <1>2, <2>1 DEF Pilote, EnCours, Fixe
  <2>3. Lus'
    BY <1>1, <1>2, <2>1 DEF Lus, EnCours, Fixe, locaux
  <2>4. Boucle'
    BY <1>1, <1>2, <2>1 DEF Boucle, Fixe, locaux
  <2>5. sortie = <<>>
    BY <1>1, <1>3 DEF Montre, EstSuite
  <2>6. Montre'
    BY <1>1, <1>2, <2>1, <2>5, MontreFin
  <2>7. AbandonsExpliques'
    BY <2>1, SansAbandon
  <2> QED
    BY <2>2, <2>3, <2>4, <2>6, <2>7 DEF P1Inv
<1>5. CASE Ouvre
  <2>1. /\ pc' = "options" /\ code' = code /\ objet.genre = "elf" /\ flag' = Drapeau /\ fp' = 1
    BY <1>5 DEF Ouvre
  <2>2. Pilote'
    BY <1>1, <1>2, <2>1 DEF Pilote, EnCours, Fixe
  <2>3. Lus'
    <3>1. 1 \in 0 .. Len(Image(objet))
      <4>1. 1 \in 1 .. Nombre(objet)
        BY <1>1, ObjetDe, Sections
      <4>2. /\ Entete(objet).e_shoff \in Nat /\ Entete(objet).e_shoff >= 1
            /\ Len(Image(objet)) = Entete(objet).e_shoff + Nombre(objet) /\ Nombre(objet) \in Nat
        BY <1>1, ObjetDe, ImageDe, Sections
      <4> QED
        BY <4>1, <4>2
    <3>2. Drapeau' = Drapeau /\ Drapeau \in {0, 1}
      BY <1>2 DEF Drapeau, Fixe
    <3> QED
      BY <1>1, <1>2, <2>1, <3>1, <3>2 DEF Lus, EnCours, Fixe, locaux
  <2>4. Boucle'
    BY <1>1, <1>2, <2>1 DEF Boucle, Fixe, locaux
  <2>5. Montre'
    BY <1>1, <1>2, <1>3, <2>1, MontreReste DEF EnCours
  <2>6. AbandonsExpliques'
    BY <1>1, <2>1, SansAbandon
  <2> QED
    BY <2>2, <2>3, <2>4, <2>5, <2>6 DEF P1Inv
<1> QED
  BY <1>4, <1>5

LEMMA PasOption ==
  ASSUME P1Inv, OptionEtape \/ Usage \/ Aide \/ OptionInconnue \/ FinOptions
  PROVE  P1Inv'
<1> USE DEF Lue
<1>1. Pilote /\ Lus /\ Boucle /\ Montre /\ pc = "options" /\ code = "marche"
  BY DEF P1Inv, Pilote, OptionEtape, Usage, Aide, OptionInconnue, FinOptions
<1>2. Fixe /\ UNCHANGED <<flag, fp, locaux>>
  BY DEF OptionEtape, Usage, Aide, OptionInconnue, FinOptions, entree, Fixe
<1>3. /\ Len(sortie) = optind - 1 /\ optind \in 1 .. Len(commande.options) + 1
      /\ Len(commande.options) \in Nat
  BY <1>1, CommandeDe DEF Montre, Pilote
<1>4. pc' # "entete" => Lus'
  BY <1>1, <1>2 DEF OptionEtape, Usage, Aide, OptionInconnue, FinOptions, Affiche, Sort,
                    SuiteInconnue, Lus, EnCours, Fixe, locaux, Drapeau
<1>5. Boucle'
  BY <1>1, <1>2 DEF OptionEtape, Usage, Aide, OptionInconnue, FinOptions, Affiche, Sort,
                    SuiteInconnue, Boucle, Fixe, locaux
<1>6. CASE OptionEtape
  <2>1. /\ pc' = "entete" /\ code' = code /\ sortie' = sortie /\ optind' = optind + 1
        /\ etape' = commande.options[optind].opt /\ etape' \in {"h", "S", "x", "s", "r"}
        /\ optind <= Len(commande.options)
    BY <1>6 DEF OptionEtape
  <2>2. Pilote'
    BY <1>1, <1>2, <1>3, <2>1 DEF Pilote, EnCours, Fixe, Options
  <2>3. Lus'
    BY <1>1, <1>2, <2>1 DEF Lus, EnCours, Fixe, locaux, Drapeau
  <2>4. Montre'
    BY <1>1, <1>2, <1>3, <2>1, MontreReste
  <2>5. AbandonsExpliques'
    BY <1>1, <2>1, SansAbandon
  <2> QED
    BY <1>5, <2>2, <2>3, <2>4, <2>5 DEF P1Inv
<1>7. CASE Usage \/ Aide
  <2> PICK a : /\ Affiche(a) /\ a \in {[opt |-> "usage"], [opt |-> "H"]}
               /\ a = [opt |-> "usage"] => commande.options[optind].opt = "x"
               /\ a = [opt |-> "H"] => commande.options[optind].opt = "H"
    BY <1>7 DEF Usage, Aide
  <2>1. /\ pc' = "options" /\ code' = code /\ optind' = optind + 1 /\ etape' = etape
        /\ optind <= Len(commande.options) /\ commande.options[optind].opt \in {"x", "H"}
    BY <1>7 DEF Usage, Aide, Affiche
  <2>2. Pilote'
    BY <1>1, <1>2, <1>3, <2>1 DEF Pilote, EnCours, Fixe
  <2>3. Repond(a, commande.options[optind])
    BY DEF Repond
  <2>4. AffichageExact(objet, a, commande.options[optind].arg)
    BY AfficheReste
  <2>5. Montre'
    <3>1. optind = Len(sortie) + 1 /\ optind' = Len(sortie) + 2
      BY <1>3, <2>1
    <3> QED
      BY <1>1, <1>2, <2>1, <2>3, <2>4, <3>1, MontreAffiche
  <2>6. AbandonsExpliques'
    BY <1>1, <2>1, SansAbandon
  <2> QED
    BY <1>4, <1>5, <2>1, <2>2, <2>5, <2>6 DEF P1Inv
<1>8. CASE OptionInconnue
  <2> PICK a : a = [opt |-> "usage"]
    OBVIOUS
  <2>1. /\ pc' = "fini" /\ code' = "1" /\ optind' = optind + 1 /\ etape' = etape
        /\ optind <= Len(commande.options) /\ commande.options[optind].opt = "?"
        /\ sortie' = Append(sortie, a)
    BY <1>8 DEF OptionInconnue, SuiteInconnue, Sort
  <2>2. Pilote'
    BY <1>1, <1>2, <1>3, <2>1 DEF Pilote, EnCours, Fixe
  <2>3. Repond(a, commande.options[optind])
    BY <2>1 DEF Repond
  <2>4. AffichageExact(objet, a, commande.options[optind].arg)
    BY AfficheReste
  <2>5. Montre'
    <3>1. optind = Len(sortie) + 1
      BY <1>3
    <3> QED
      BY <1>1, <1>2, <2>1, <2>3, <2>4, <3>1, MontreInconnue
  <2>6. AbandonsExpliques'
    BY <2>1, SansAbandon
  <2> QED
    BY <1>4, <1>5, <2>1, <2>2, <2>5, <2>6 DEF P1Inv
<1>9. CASE FinOptions
  <2>1. /\ pc' = "fini" /\ code' = "0" /\ sortie' = sortie /\ optind' = optind /\ etape' = etape
        /\ optind > Len(commande.options)
    BY <1>9 DEF FinOptions, Sort
  <2>2. Pilote'
    BY <1>1, <1>2, <1>3, <2>1 DEF Pilote, EnCours, Fixe
  <2>3. Len(sortie) = Len(commande.options) /\ objet.genre = "elf"
    BY <1>1, <1>3, <2>1 DEF Lus
  <2>4. Montre'
    BY <1>1, <1>2, <2>1, <2>3, MontreFin
  <2>5. AbandonsExpliques'
    BY <2>1, SansAbandon
  <2> QED
    BY <1>4, <1>5, <2>1, <2>2, <2>4, <2>5 DEF P1Inv
<1> QED
  BY <1>6, <1>7, <1>8, <1>9

LEMMA PasLecture ==
  ASSUME P1Inv, etap1 \/ LitEntete \/ read_Section_header \/ read_sh_str_tab
  PROVE  P1Inv'
<1>1. Pilote /\ Lus /\ Boucle /\ Montre /\ pc \in EnCours /\ code = "marche" /\ flag = Drapeau
  BY DEF P1Inv, Pilote, Lus, etap1, LitEntete, read_header_ELF, read_Section_header,
         read_sh_str_tab, EnCours
<1>2. Fixe /\ UNCHANGED <<optind, etape, flag>> /\ code' = code /\ Drapeau' = Drapeau
  BY DEF etap1, LitEntete, read_Section_header, read_sh_str_tab, entree, Fixe, Affiche, Drapeau
<1>3. AbandonsExpliques'
  BY <1>1, <1>2, SansAbandon
<1>4. Len(sortie) = optind - 2
  BY <1>1 DEF Montre
<1>5. 1 \in 0 .. Len(Image(objet)) /\ Len(Image(objet)) \in Nat
  <2>1. /\ Entete(objet).e_shoff \in Nat /\ Entete(objet).e_shoff >= 1
        /\ Len(Image(objet)) = Entete(objet).e_shoff + Nombre(objet) /\ Nombre(objet) \in Nat
    BY <1>1, ObjetDe, ImageDe, Sections
  <2> QED
    BY <2>1
<1>6. CASE etap1
  <2>1. /\ pc' = "options" /\ fp' = 1 /\ UNCHANGED <<shdr, shstrtab, i, tables>>
        /\ etape = "h" /\ pc = "entete"
    BY <1>6 DEF etap1, read_header_ELF, Affiche
  <2> PICK a : a = [opt |-> "h", entete |-> Entete(objet)]
    OBVIOUS
  <2>2. Affiche(a)
    BY <1>1, <1>6, EnteteLu DEF etap1, read_header_ELF
  <2>3. AffichageExact(objet, a, Optarg) /\ a.opt = etape
    BY <2>1, AfficheEntete
  <2>4. Montre' /\ Pilote'
    BY <1>1, <1>2, <2>2, <2>3, EtapeAffiche
  <2>5. Lus'
    BY <1>1, <1>2, <1>5, <2>1 DEF Lus, EnCours, Fixe
  <2>6. Boucle'
    BY <1>1, <1>2, <2>1 DEF Boucle, Fixe
  <2> QED
    BY <1>3, <2>4, <2>5, <2>6 DEF P1Inv
<1>7. CASE LitEntete
  <2>1. /\ pc' = "table" /\ fp' = 1 /\ UNCHANGED <<shdr, shstrtab, i, tables, sortie>>
        /\ etape # "h" /\ pc = "entete" /\ ehdr' = Entete(objet)
    BY <1>1, <1>7, EnteteLu DEF LitEntete, read_header_ELF
  <2>2. Pilote'
    BY <1>1, <1>2, <2>1 DEF Pilote, EnCours, Fixe
  <2>3. Lus'
    BY <1>1, <1>2, <1>5, <2>1 DEF Lus, EnCours, Fixe
  <2>4. Boucle'
    BY <1>1, <1>2, <2>1 DEF Boucle, Fixe
  <2>5. Montre'
    BY <1>1, <1>2, <1>4, <2>1, MontreReste
  <2> QED
    BY <1>3, <2>2, <2>3, <2>4, <2>5 DEF P1Inv
<1>8. CASE read_Section_header
  <2>1. /\ pc' = "noms" /\ UNCHANGED <<ehdr, shstrtab, i, tables, sortie>> /\ pc = "table"
        /\ shdr' = LuComme("shdr", ehdr.e_shoff, ehdr.e_shnum)
        /\ fp' = ehdr.e_shoff + ehdr.e_shnum
    BY <1>8 DEF read_Section_header
  <2>2. ehdr = Entete(objet)
    BY <1>1, <2>1 DEF Lus, EnCours
  <2>3. shdr' = Table(objet) /\ fp' = Len(Image(objet))
    BY <1>1, <2>1, <2>2, TableLue
  <2>4. Pilote'
    BY <1>1, <1>2, <2>1 DEF Pilote, EnCours, Fixe
  <2>5. Lus'
    BY <1>1, <1>2, <1>5, <2>1, <2>2, <2>3 DEF Lus, EnCours, Fixe
  <2>6. Boucle'
    <3>1. Len(Table(objet)) \in Nat
      BY <1>1, ObjetDe, TableDe, Sections
    <3>2. i \in 0 .. Len(Table(objet))
      <4>1. shdr = <<>> \/ shdr = Table(objet)
        BY <1>1 DEF Lus
      <4>2. shdr = <<>> => i = 0
        BY <1>1 DEF Boucle
      <4>3. i \in 0 .. Len(shdr)
        BY <1>1 DEF Boucle
      <4> QED
        BY <3>1, <4>1, <4>2, <4>3
    <3> QED
      BY <1>1, <1>2, <2>1, <2>3, <3>2 DEF Boucle, Fixe
  <2>7. Montre'
    BY <1>1, <1>2, <1>4, <2>1, MontreReste
  <2> QED
    BY <1>3, <2>4, <2>5, <2>6, <2>7 DEF P1Inv
<1>9. CASE read_sh_str_tab
  <2> PICK s : s = shdr[ehdr.e_shstrndx + 1]
    OBVIOUS
  <2>1. /\ pc' = "etape" /\ UNCHANGED <<ehdr, shdr, sortie>> /\ pc = "noms"
        /\ shstrtab' = Lu(s.sh_offset, s.sh_size) /\ fp' = s.sh_offset + s.sh_size
        /\ i' = 0 /\ tables' = <<>>
    BY <1>9 DEF read_sh_str_tab
  <2>2. Pret /\ ehdr = Entete(objet) /\ shdr = Table(objet)
    BY <1>1, <2>1 DEF Lus, EnCours, Pret
  <2>3. shstrtab' = Noms(objet) /\ fp' \in 0 .. Len(Image(objet))
    BY <2>1, <2>2, NomsLus
  <2>4. Pilote'
    BY <1>1, <1>2, <2>1 DEF Pilote, EnCours, Fixe
  <2>5. Lus'
    BY <1>1, <1>2, <2>1, <2>2, <2>3 DEF Lus, EnCours, Fixe
  <2>6. Boucle'
    <3>1. Len(shdr) \in Nat
      BY <1>1, <2>2, ObjetDe, TableDe, Sections
    <3>2. TablesFaites(objet, <<>>, 0)
      BY <1>1, ObjetDe, TableVide
    <3> QED
      BY <1>2, <2>1, <3>1, <3>2 DEF Boucle, Fixe, EstSuite
  <2>7. Montre'
    BY <1>1, <1>2, <1>4, <2>1, MontreReste
  <2> QED
    BY <1>3, <2>4, <2>5, <2>6, <2>7 DEF P1Inv
<1> QED
  BY <1>6, <1>7, <1>8, <1>9

LEMMA LusReste ==
  ASSUME Lus, Fixe, UNCHANGED <<flag, ehdr, shdr, shstrtab>>, pc = "etape",
         pc' \in {"options", "etape", "fini"}, fp' \in 0 .. Len(Image(objet))
  PROVE  Lus'
<1>1. Drapeau' = Drapeau
  BY DEF Fixe, Drapeau
<1> QED
  BY <1>1 DEF Lus, Fixe, EnCours

LEMMA BoucleReste ==
  ASSUME Boucle, Fixe, UNCHANGED <<shdr, i, tables>>, pc' \in {"options", "fini"}
  PROVE  Boucle'
BY DEF Boucle, Fixe

LEMMA EtapePrete ==
  ASSUME P1Inv, pc = "etape"
  PROVE  /\ Nomme /\ Pilote /\ Lus /\ Boucle /\ Montre /\ code = "marche" /\ pc \in EnCours
         /\ Optarg.valeur \in Nat /\ fp \in 0 .. Len(Image(objet)) /\ Len(Image(objet)) \in Nat
<1>1. Pilote /\ Lus /\ Boucle /\ Montre /\ code = "marche" /\ pc \in EnCours
  BY DEF P1Inv, Pilote, EnCours
<1>2. Nomme
  BY <1>1 DEF Nomme, Pret, Lus, EnCours
<1>3. Optarg.valeur \in Nat
  <2>1. optind - 1 \in 1 .. Len(commande.options)
    BY <1>1, CommandeDe DEF Pilote
  <2> QED
    BY <1>1, <2>1, CommandeDe DEF Optarg
<1>4. Len(Image(objet)) \in Nat
  BY <1>1, <1>2, TableLue DEF Nomme, Pret
<1> QED
  BY <1>1, <1>2, <1>3, <1>4 DEF Lus

LEMMA Dernier ==
  ASSUME NEW n \in Nat, NEW T, T \subseteq 1 .. n, T # {}
  PROVE  \E x \in T : \A y \in T : y <= x
<1> DEFINE H == {n - y : y \in T}
<1>1. H \subseteq Nat /\ H # {}
  <2>1. \A y \in T : n - y \in Nat /\ n - y \in H
    OBVIOUS
  <2>2. \A h \in H : \E y \in T : h = n - y
    OBVIOUS
  <2> HIDE DEF H
  <2> QED
    BY <2>1, <2>2
<1>2. PICK h \in H : \A g \in H : h <= g
  BY <1>1, Premier, Zenon
<1>3. PICK x \in T : h = n - x
  OBVIOUS
<1>4. ASSUME NEW y \in T
      PROVE  y <= x
  <2>1. n - y \in H
    OBVIOUS
  <2>2. n - x <= n - y
    BY <1>2, <1>3, <2>1
  <2> QED
    BY <2>2
<1> QED
  BY <1>4

LEMMA PasEtap2 ==
  ASSUME P1Inv, etap2
  PROVE  P1Inv'
<1>1. pc = "etape" /\ etape = "S"
  BY DEF etap2, Etape
<1>2. /\ Nomme /\ Pilote /\ Lus /\ Boucle /\ Montre /\ code = "marche" /\ pc \in EnCours
      /\ fp \in 0 .. Len(Image(objet)) /\ Len(Image(objet)) \in Nat
  BY <1>1, EtapePrete
<1>3. Fixe /\ UNCHANGED <<optind, etape, flag, ehdr, shdr, shstrtab, i, tables, code>> /\ pc' = "options"
  BY DEF etap2, entree, locaux, Fixe, Affiche
<1> PICK a : a = [opt |-> "S",
                  lignes |-> [k \in DOMAIN shdr |->
                                [nom |-> shstrtab[shdr[k].sh_name + 1].nom, taille |-> shdr[k].sh_size,
                                 type |-> TypeAffiche(shdr[k]), offset |-> shdr[k].sh_offset]]]
  OBVIOUS
<1>4. Affiche(a) /\ a.opt = etape
  BY <1>1 DEF etap2
<1>5. AffichageExact(objet, a, Optarg)
  BY <1>2, AfficheSections
<1>6. Montre' /\ Pilote'
  BY <1>2, <1>3, <1>4, <1>5, EtapeAffiche
<1>7. fp' \in 0 .. Len(Image(objet))
  <2> DEFINE c == CHOOSE k \in Inconnues : \A l \in Inconnues : l <= k
  <2>1. fp' = IF Inconnues = {} THEN fp ELSE shdr[c].sh_offset
    BY DEF etap2
  <2>2. Inconnues \subseteq 1 .. Nombre(objet) /\ Nombre(objet) \in Nat
    BY <1>2, NommeDe DEF Inconnues
  <2>3. Inconnues # {} => c \in Inconnues
    <3>1. ASSUME Inconnues # {}
          PROVE  \E k \in Inconnues : \A l \in Inconnues : l <= k
      BY <2>2, <3>1, Dernier, Zenon
    <3> QED
      BY <3>1, Zenon
  <2> HIDE DEF c
  <2>4. ASSUME Inconnues # {}
        PROVE  shdr[c].sh_offset \in 0 .. Len(Image(objet))
    <3>1. c \in 1 .. Nombre(objet)
      BY <2>2, <2>3, <2>4
    <3>2. shdr[c].sh_offset = Place(objet, c)
      BY <1>2, <3>1, NommeDe
    <3>3. /\ Place(objet, c) \in Nat /\ Place(objet, c) <= Len(Image(objet))
      BY <1>2, <3>1, PlaceTaille
    <3> QED
      BY <1>2, <3>2, <3>3
  <2> QED
    BY <1>2, <2>1, <2>4
<1>8. Lus'
  BY <1>1, <1>2, <1>3, <1>7, LusReste
<1>9. Boucle'
  BY <1>2, <1>3, BoucleReste
<1> QED
  BY <1>2, <1>3, <1>6, <1>8, <1>9, SansAbandon DEF P1Inv

LEMMA PasEtap3 ==
  ASSUME P1Inv, etap3
  PROVE  P1Inv'
<1>1. pc = "etape" /\ etape = "x"
  BY DEF etap3, Etape
<1>2. /\ Nomme /\ Pilote /\ Lus /\ Boucle /\ Montre /\ code = "marche" /\ pc \in EnCours
      /\ Optarg.valeur \in Nat
  BY <1>1, EtapePrete
<1>3. Fixe /\ UNCHANGED <<optind, etape, flag, ehdr, shdr, shstrtab, i, tables, code>> /\ pc' = "options"
  BY DEF etap3, entree, locaux, Fixe, Affiche
<1> PICK s : s = shdr[numero + 1]
  OBVIOUS
<1> PICK a : a = [opt |-> "x", nom |-> NomAffiche, offset |-> s.sh_offset, taille |-> s.sh_size,
                  contenu |-> Lu(s.sh_offset, s.sh_size)]
  OBVIOUS
<1>4. /\ Affiche(a) /\ a.opt = etape /\ Existe /\ Lisible(s.sh_offset, s.sh_size)
      /\ fp' = s.sh_offset + s.sh_size
  BY <1>1 DEF etap3
<1>5. AffichageExact(objet, a, Optarg) /\ fp' \in 0 .. Len(Image(objet))
  BY <1>2, <1>4, AfficheContenu
<1>6. Montre' /\ Pilote'
  BY <1>2, <1>3, <1>4, <1>5, EtapeAffiche
<1>8. Lus'
  BY <1>1, <1>2, <1>3, <1>5, LusReste
<1>9. Boucle'
  BY <1>2, <1>3, BoucleReste
<1> QED
  BY <1>2, <1>3, <1>6, <1>8, <1>9, SansAbandon DEF P1Inv

LEMMA PasEtap4 ==
  ASSUME P1Inv, etap4
  PROVE  P1Inv'
<1>1. pc = "etape" /\ etape = "s"
  BY DEF etap4, Etape
<1>2. /\ Nomme /\ Pilote /\ Lus /\ Boucle /\ Montre /\ code = "marche" /\ pc \in EnCours
  BY <1>1, EtapePrete
<1>3. Fixe /\ UNCHANGED <<optind, etape, flag, ehdr, shdr, shstrtab, i, tables, code>> /\ pc' = "options"
  BY DEF etap4, entree, locaux, Fixe, Affiche
<1> PICK t : t = shdr[index_SymTab + 1]
  OBVIOUS
<1> PICK strtab : strtab = Lu(shdr[index_StrTab + 1].sh_offset, shdr[index_StrTab + 1].sh_size)
  OBVIOUS
<1> PICK sym : sym = LuComme("Symbol", t.sh_offset, t.sh_size)
  OBVIOUS
<1> PICK a : a = [opt |-> "s", symboles |-> Symboliser(t, strtab, sym)]
  OBVIOUS
<1>4. Affiche(a) /\ a.opt = etape /\ TablesPresentes /\ fp' = t.sh_offset + t.sh_size
  BY <1>1 DEF etap4, Symboliser
<1>5. AffichageExact(objet, a, Optarg) /\ fp' \in 0 .. Len(Image(objet))
  BY <1>2, <1>4, AfficheSymboles
<1>6. Montre' /\ Pilote'
  BY <1>2, <1>3, <1>4, <1>5, EtapeAffiche
<1>8. Lus'
  BY <1>1, <1>2, <1>3, <1>5, LusReste
<1>9. Boucle'
  BY <1>2, <1>3, BoucleReste
<1> QED
  BY <1>2, <1>3, <1>6, <1>8, <1>9, SansAbandon DEF P1Inv


LEMMA PasEtap5Section ==
  ASSUME P1Inv, etap5_section
  PROVE  P1Inv'
<1>1. pc = "etape" /\ etape = "r" /\ i < ehdr.e_shnum /\ i' = i + 1
  BY DEF etap5_section, Etape
<1>2. /\ Nomme /\ Pilote /\ Lus /\ Boucle /\ Montre /\ code = "marche" /\ pc \in EnCours
      /\ fp \in 0 .. Len(Image(objet))
  BY <1>1, EtapePrete
<1>3. Fixe /\ UNCHANGED <<pc, optind, etape, flag, ehdr, shdr, shstrtab, sortie, code>>
  BY DEF etap5_section, entree, Fixe
<1>4. Pilote'
  BY <1>2, <1>3 DEF Pilote, Fixe, EnCours
<1>5. Montre'
  BY <1>2, <1>3, MontreReste DEF Montre
<1>6. ObjetOK(objet)
  BY <1>2, ObjetDe
<1> PICK n \in Nat : n = Nombre(objet) /\ n = ehdr.e_shnum /\ n = Len(shdr)
  BY <1>2, NommeDe
<1> PICK y \in 0 .. n - 1 : y = i
  BY <1>1, <1>2 DEF Boucle
<1>7. /\ EstSuite(tables) /\ Len(tables) <= y /\ TablesFaites(objet, tables, y)
      /\ Len(tables) \in Nat
  BY <1>1, <1>2 DEF Boucle, EstSuite
<1>8. y + 1 \in 1 .. n /\ y + 1 \in 0 .. n /\ y + 1 = i'
  BY <1>1
<1> PICK s : s = shdr[y + 1]
  OBVIOUS
<1>9. AReimplantation(s) <=> y + 1 \in SectionsDeReimplantation(objet)
  <2>1. s.sh_type = objet.sections[y + 1].type
    BY <1>2, <1>8, NommeDe
  <2>2. y + 1 \in DOMAIN objet.sections
    BY <1>6, <1>8, Sections
  <2> QED
    BY <2>1, <2>2 DEF AReimplantation, SectionsDeReimplantation
<1>10. CASE AReimplantation(s)
  <2>1. /\ calcul_nombre_entrees(s) /\ Lisible(s.sh_offset, s.sh_size)
        /\ tables' = Append(tables, Relocations(s)) /\ fp' = s.sh_offset + s.sh_size
    BY <1>10 DEF etap5_section
  <2>2. /\ RelocationsExactes(objet, Relocations(s), y + 1)
        /\ fp' \in 0 .. Len(Image(objet))
    BY <1>2, <1>8, <1>10, <2>1, RelocationsLues
  <2>3. TablesFaites(objet, tables', y + 1)
    BY <1>6, <1>7, <1>9, <1>10, <2>1, <2>2, TableDePlus
  <2>4. EstSuite(tables') /\ Len(tables') = Len(tables) + 1
    BY <1>7, <2>1, Ajoute
  <2>5. Len(tables') <= y + 1
    BY <1>7, <2>4
  <2>6. Boucle'
    BY <1>3, <1>8, <2>3, <2>4, <2>5 DEF Boucle, Fixe
  <2>7. Lus'
    BY <1>1, <1>2, <1>3, <2>2, LusReste
  <2> QED
    BY <1>2, <1>3, <1>4, <1>5, <2>6, <2>7, SansAbandon DEF P1Inv
<1>11. CASE ~AReimplantation(s)
  <2>1. tables' = tables /\ fp' = fp
    BY <1>11 DEF etap5_section
  <2>2. TablesFaites(objet, tables, y + 1)
    BY <1>6, <1>7, <1>9, <1>11, TableDeMoins
  <2>3. Len(tables) <= y + 1
    BY <1>7
  <2>4. Boucle'
    BY <1>3, <1>7, <1>8, <2>1, <2>2, <2>3 DEF Boucle, Fixe
  <2>5. Lus'
    BY <1>1, <1>2, <1>3, <2>1, LusReste
  <2> QED
    BY <1>2, <1>3, <1>4, <1>5, <2>4, <2>5, SansAbandon DEF P1Inv
<1> QED
  BY <1>10, <1>11

LEMMA PasEtap5Fin ==
  ASSUME P1Inv, etap5_fin
  PROVE  P1Inv'
<1>1. pc = "etape" /\ etape = "r" /\ i = ehdr.e_shnum
  BY DEF etap5_fin, Etape
<1>2. /\ Nomme /\ Pilote /\ Lus /\ Boucle /\ Montre /\ code = "marche" /\ pc \in EnCours
      /\ fp \in 0 .. Len(Image(objet))
  BY <1>1, EtapePrete
<1>3. Fixe /\ UNCHANGED <<optind, etape, flag, ehdr, shdr, shstrtab, i, tables, code, fp>> /\ pc' = "options"
  BY DEF etap5_fin, entree, locaux, Fixe, Affiche
<1> PICK a : a = [opt |-> "r", tables |-> tables]
  OBVIOUS
<1>4. Affiche(a) /\ a.opt = etape
  BY <1>1 DEF etap5_fin
<1>5. AffichageExact(objet, a, Optarg)
  <2>1. TablesFaites(objet, tables, Nombre(objet))
    BY <1>1, <1>2, NommeDe DEF Boucle
  <2>2. ObjetOK(objet)
    BY <1>2, ObjetDe
  <2> QED
    BY <2>1, <2>2, AfficheRelocations
<1>6. Montre' /\ Pilote'
  BY <1>2, <1>3, <1>4, <1>5, EtapeAffiche
<1>8. Lus'
  BY <1>1, <1>2, <1>3, LusReste
<1>9. Boucle'
  BY <1>2, <1>3, BoucleReste
<1> QED
  BY <1>2, <1>3, <1>6, <1>8, <1>9, SansAbandon DEF P1Inv

Cause(o, e, arg) ==
  \/ e = "x" /\ \/ Demandees(o, arg) = {}
                \/ \E k \in Demandees(o, arg) : Taille(o, k) = 0 \/ o.sections[k].type = NOBITS
  \/ e = "s" /\ \/ Symboles(o) = <<>>
                \/ \E k \in DOMAIN o.sections : o.sections[k].type = SYMTAB /\ o.sections[k].entsize = 0
  \/ e = "r" /\ \E k \in DOMAIN o.sections :
                  /\ o.sections[k].type \in {REL, RELA}
                  /\ o.sections[k].entsize = 0 \/ Taille(o, k) = 0

(***************************************************************************)
(* A step that ends the program in the middle of a display.                *)
(***************************************************************************)
LEMMA PasFin ==
  ASSUME P1Inv, pc = "etape", Fixe, Cause(objet, etape, Optarg), pc' = "fini",
         code' \in {"assert", "signal"}, UNCHANGED <<optind, etape, flag, fp, locaux, sortie>>
  PROVE  P1Inv'
<1>1. /\ Pilote /\ Lus /\ Boucle /\ Montre /\ code = "marche"
      /\ fp \in 0 .. Len(Image(objet))
  BY EtapePrete
<1>2. Pilote'
  BY <1>1 DEF Pilote, Fixe, EnCours
<1>3. Lus'
  BY <1>1, LusReste DEF locaux
<1>4. Boucle'
  BY <1>1, BoucleReste DEF locaux
<1>5. Montre'
  BY <1>1, MontreFin
<1>6. Cause(objet', etape', Optarg')
  <2>1. Optarg' = Optarg
    BY DEF Optarg, Fixe
  <2> QED
    BY <2>1 DEF Fixe
<1>7. AbandonsExpliques'
  BY <1>6 DEF AbandonsExpliques, Cause
<1> QED
  BY <1>2, <1>3, <1>4, <1>5, <1>7 DEF P1Inv

LEMMA PasIndefini ==
  ASSUME P1Inv, etap3_indefini
  PROVE  P1Inv'
<1>1. pc = "etape" /\ etape = "x" /\ ~Existe
  BY DEF etap3_indefini, Etape
<1>2. /\ Nomme /\ Pilote /\ Lus /\ Boucle /\ Montre /\ code = "marche" /\ pc \in EnCours
      /\ fp \in 0 .. Len(Image(objet)) /\ Optarg.valeur \in Nat
  BY <1>1, EtapePrete
<1>3. Fixe /\ UNCHANGED <<optind, etape, flag, locaux>>
  BY DEF etap3_indefini, entree, Fixe
<1>4. UNCHANGED <<flag, ehdr, shdr, shstrtab, i, tables>>
  BY <1>3 DEF locaux
<1> PICK a : a = [opt |-> "x", nom |-> "indefini"]
  OBVIOUS
<1>5. AffichageExact(objet, a, Optarg) /\ Demandees(objet, Optarg) = {}
  BY <1>1, <1>2, ContenuAbsent
<1>6. CASE fp' \in 0 .. Len(Image(objet)) /\ Affiche(a)
  <2>1. Montre' /\ Pilote'
    BY <1>1, <1>2, <1>3, <1>5, <1>6, EtapeAffiche
  <2>2. pc' = "options" /\ code' = code
    BY <1>6 DEF Affiche
  <2>3. Lus'
    BY <1>1, <1>2, <1>3, <1>4, <1>6, <2>2, LusReste
  <2>4. Boucle'
    BY <1>2, <1>3, <1>4, <2>2, BoucleReste
  <2> QED
    BY <1>2, <2>1, <2>2, <2>3, <2>4, SansAbandon DEF P1Inv
<1>7. CASE \E c \in {"assert", "signal"} : Sort(c) /\ UNCHANGED <<fp, sortie>>
  <2>1. pc' = "fini" /\ code' \in {"assert", "signal"} /\ sortie' = sortie /\ fp' = fp
    BY <1>7 DEF Sort
  <2>2. Cause(objet, etape, Optarg)
    BY <1>1, <1>5 DEF Cause
  <2> QED
    BY <1>1, <1>3, <2>1, <2>2, PasFin
<1>8. Images[objet] = Image(objet)
  BY <1>2, ObjetDe
<1> QED
  BY <1>6, <1>7, <1>8 DEF etap3_indefini

LEMMA PasAbandonne ==
  ASSUME P1Inv, Abandonne
  PROVE  P1Inv'
<1>1. pc = "etape"
  BY DEF Abandonne, Etape
<1>2. Nomme /\ Optarg.valeur \in Nat /\ Boucle
  BY <1>1, EtapePrete
<1>3. Fixe /\ UNCHANGED <<optind, etape, flag, fp, locaux, sortie>> /\ pc' = "fini" /\ code' = "assert"
  BY DEF Abandonne, entree, Fixe, Sort
<1>4. ASSUME etape = "x", Existe, ~Lisible(shdr[numero + 1].sh_offset, shdr[numero + 1].sh_size)
      PROVE  Cause(objet, etape, Optarg)
  BY <1>2, <1>4, ContenuRefuse DEF Cause
<1>5. ASSUME etape = "s", ~TablesPresentes
      PROVE  Cause(objet, etape, Optarg)
  BY <1>2, <1>5, SymbolesRefuses DEF Cause
<1>6. ASSUME etape = "r", i < ehdr.e_shnum, AReimplantation(shdr[i + 1]),
             \/ ~calcul_nombre_entrees(shdr[i + 1])
             \/ ~Lisible(shdr[i + 1].sh_offset, shdr[i + 1].sh_size)
      PROVE  Cause(objet, etape, Optarg)
  <2>1. i + 1 \in 1 .. Nombre(objet)
    BY <1>2, <1>6, NommeDe DEF Boucle
  <2> QED
    BY <1>2, <1>6, <2>1, RelocationsRefusees DEF Cause
<1>7. Cause(objet, etape, Optarg)
  BY <1>4, <1>5, <1>6 DEF Abandonne, Etape
<1> QED
  BY <1>1, <1>3, <1>7, PasFin

LEMMA P1Pas == P1Inv /\ [Next]_vars => P1Inv'
<1> SUFFICES ASSUME P1Inv, [Next]_vars
             PROVE  P1Inv'
  OBVIOUS
<1>1. CASE OuvertureEchoue \/ Ouvre
  BY <1>1, PasOuverture
<1>2. CASE OptionEtape \/ Usage \/ Aide \/ OptionInconnue \/ FinOptions
  BY <1>2, PasOption
<1>3. CASE etap1 \/ LitEntete \/ read_Section_header \/ read_sh_str_tab
  BY <1>3, PasLecture
<1>4. CASE etap2
  BY <1>4, PasEtap2
<1>5. CASE etap3
  BY <1>5, PasEtap3
<1>6. CASE etap3_indefini
  BY <1>6, PasIndefini
<1>7. CASE etap4
  BY <1>7, PasEtap4
<1>8. CASE etap5_section
  BY <1>8, PasEtap5Section
<1>9. CASE etap5_fin
  BY <1>9, PasEtap5Fin
<1>10. CASE Abandonne
  BY <1>10, PasAbandonne
<1>11. CASE UNCHANGED vars
  <2>1. /\ Fixe /\ UNCHANGED <<pc, optind, etape, flag, fp, ehdr, shdr, shstrtab, i, tables,
                               sortie, code>>
    BY <1>11 DEF vars, entree, locaux, Fixe
  <2>2. Pilote' /\ Boucle' /\ Montre'
    BY <2>1 DEF P1Inv, Pilote, Boucle, Montre, Fixe
  <2>3. Lus'
    BY <2>1 DEF P1Inv, Lus, Drapeau, Fixe
  <2>4. AbandonsExpliques'
    <3>1. code \in {"assert", "signal"} => Cause(objet, etape, Optarg)
      BY DEF P1Inv, AbandonsExpliques, Cause
    <3>2. Optarg' = Optarg
      BY <2>1 DEF Optarg, Fixe
    <3>3. code' \in {"assert", "signal"} => Cause(objet', etape', Optarg')
      BY <2>1, <3>1, <3>2 DEF Fixe
    <3> QED
      BY <3>3 DEF AbandonsExpliques, Cause
  <2> QED
    BY <2>2, <2>3, <2>4 DEF P1Inv
<1> QED
  BY <1>1, <1>2, <1>3, <1>4, <1>5, <1>6, <1>7, <1>8, <1>9, <1>10, <1>11 DEF Next

(***************************************************************************)
(* The inductive invariant of Phase1: the options are obeyed one by one    *)
(* (Pilote), what was read of the file is what is in it (Lus), the tables  *)
(* etap5 has printed are those of the sections before i (Boucle), and the  *)
(* displays so far are right and answer the options so far (Montre).       *)
(***************************************************************************)
THEOREM P1InvToujours == Spec => []P1Inv
<1> QED
  BY P1Init, P1Pas, PTL DEF Spec

(***************************************************************************)
(* Types: fp stays inside the file whatever the display before left, and   *)
(* the numbers read of the tables are numbers of the file (Pharse1.c,      *)
(* read_data_auxiliaries.c of phase 1).                                    *)
(***************************************************************************)
THEOREM P1TypeToujours == Spec => []TypeOK
<1>1. ASSUME P1Inv
      PROVE  TypeOK
  <2>1. Pilote /\ Lus /\ Boucle
    BY <1>1 DEF P1Inv
  <2>2. Images[objet] = Image(objet) /\ ObjetOK(objet)
    BY <2>1, ObjetDe
  <2>3. pc \in {"table", "noms", "etape"} => ehdr.e_shoff + ehdr.e_shnum = Len(Image(objet))
    BY <2>1, TableLue DEF Lus, EnCours
  <2>4. ASSUME pc \in {"noms", "etape"}
        PROVE  \A k \in DOMAIN shdr : shdr[k].sh_name \in 0 .. ehdr.e_shnum - 1
    <3>1. ehdr = Entete(objet) /\ shdr = Table(objet)
      BY <2>1, <2>4 DEF Lus, EnCours
    <3> PICK n \in Nat : n = Nombre(objet)
      BY <2>2, Sections
    <3>2. ehdr.e_shnum = n
      BY <2>2, <3>1, ObjetFaits
    <3>3. DOMAIN shdr = 1 .. n /\ \A k \in 1 .. n : shdr[k].sh_name = k - 1
      BY <2>2, <3>1, TableDe
    <3>4. \A k \in 1 .. n : k - 1 \in 0 .. n - 1
      OBVIOUS
    <3> QED
      BY <3>2, <3>3, <3>4
  <2> QED
    BY <2>1, <2>2, <2>3, <2>4 DEF TypeOK, Pilote, Lus, Boucle
<1> QED
  BY <1>1, P1InvToujours, PTL

(***************************************************************************)
(* Whatever the object, the byte order, the options and their order: every *)
(* display shows what the object is, wherever the displays before left the *)
(* stream they share (etape1 to etap5, on the readers and inverse_data).   *)
(***************************************************************************)
THEOREM AffichagesToujoursExacts == Spec => []AffichagesExacts
<1>1. ASSUME P1Inv
      PROVE  AffichagesExacts
  <2>1. DOMAIN sortie = 1 .. Len(sortie)
    BY <1>1 DEF P1Inv, Montre, EstSuite
  <2>2. \A k \in 1 .. Len(sortie) : AffichageExact(objet, sortie[k], commande.options[k].arg)
    BY <1>1 DEF P1Inv, Montre, Repondu
  <2> QED
    BY <2>1, <2>2 DEF AffichagesExacts
<1> QED
  BY <1>1, P1InvToujours, PTL

(***************************************************************************)
(* Whatever the object and the command line: every option is answered by   *)
(* one display, in their order, and the exit status tells whether all were *)
(* (the loop over getopt of Pharse1.c, with its test of argc for -x).      *)
(***************************************************************************)
THEOREM ToutToujoursAffiche == Spec => []ToutAffiche
<1>1. ASSUME P1Inv
      PROVE  ToutAffiche
  <2>1. DOMAIN sortie = 1 .. Len(sortie)
    BY <1>1 DEF P1Inv, Montre, EstSuite
  <2>2. Montre /\ Pilote
    BY <1>1 DEF P1Inv
  <2>3. \A k \in 1 .. Len(sortie) : Repond(sortie[k], commande.options[k])
    BY <2>2 DEF Montre, Repondu
  <2>4. DOMAIN commande.options = 1 .. Len(commande.options)
    BY <2>2, CommandeDe
  <2>5. code = "0" => \A k \in 1 .. Len(sortie) : commande.options[k].opt # "?"
    BY <2>2 DEF Montre
  <2> QED
    BY <2>1, <2>2, <2>3, <2>4, <2>5 DEF ToutAffiche, Montre
<1> QED
  BY <1>1, P1InvToujours, PTL

(***************************************************************************)
(* Whatever the object and the command line: an assertion fails, or a      *)
(* signal comes, only for -x of a section that is empty, without bytes in  *)
(* the file or absent, -s without symbols, and -r at a relocation section  *)
(* that is empty or does not say how long its entries are (the assertions  *)
(* of the readers, Etap3.c:17, Etap4.c:18-28, Etap5.c:82).                 *)
(***************************************************************************)
THEOREM AbandonsToujoursExpliques == Spec => []AbandonsExpliques
<1>1. P1Inv => AbandonsExpliques
  BY DEF P1Inv
<1> QED
  BY <1>1, P1InvToujours, PTL
=============================================================================
