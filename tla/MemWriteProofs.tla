--------------------------- MODULE MemWriteProofs ---------------------------
(***************************************************************************)
(* gdb_write_memory for blocks, addresses and packet sizes of any value:   *)
(* the loop that should cut a block never cuts one, how long a block can   *)
(* be without being written behind gdb->packet, and that what is sent      *)
(* reads, with its escapes, as the block.                                  *)
(***************************************************************************)
EXTENDS MemWrite, TLAPS, WellFoundedInduction

(***************************************************************************)
(* Two characters for a byte at most, so twice the length of the block is  *)
(* room enough; one at least, so what has been sent did fit.               *)
(***************************************************************************)
Tient ==
  /\ Len(envois) <= 1
  /\ etape = "deborde" => 2 * Len(bloc) > Place
  /\ envois # <<>> => Len(bloc) <= Place

Compteurs ==
  /\ bloc \in Seq(Octet) /\ envois \in Seq([address : Int, nb : Nat, data : Seq(Octet)])
  /\ address \in Int
  /\ size \in Nat /\ bytes_copied \in Nat /\ buffer_size \in Nat
  /\ dest_buffer \in Seq(Octet) /\ Len(dest_buffer) = buffer_size

(***************************************************************************)
(* The block is either whole or gone: nothing of it has been sent, or all  *)
(* of it in one packet.                                                    *)
(***************************************************************************)
MInv ==
  /\ Compteurs
  /\ src_buffer = (Len(bloc) - size) + bytes_copied
  /\ bytes_copied <= size
  /\ bytes_copied <= buffer_size /\ buffer_size <= 2 * bytes_copied
  /\ \/ envois = <<>> /\ size = Len(bloc)
     \/ Len(envois) = 1 /\ size = 0
  /\ Tient

LEMMA EchappeTient ==
  ASSUME NEW b \in Octet
  PROVE  Echappe(b) \in Seq(Octet) /\ Len(Echappe(b)) \in 1 .. 2
<1>1. CASE b \in {36, 35, 125}
  <2>1. b \in Nat /\ Xor20(b) \in Octet
    <3>1. b = 36 \/ b = 35 \/ b = 125
      BY <1>1
    <3> QED
      BY <3>1 DEF Xor20, Octet
  <2>2. Echappe(b) = <<125, Xor20(b)>>
    BY <1>1 DEF Echappe
  <2>3. 125 \in Octet
    BY DEF Octet
  <2> QED
    BY <2>1, <2>2, <2>3
<1>2. CASE b \notin {36, 35, 125}
  <2>1. Echappe(b) = <<b>>
    BY <1>2 DEF Echappe
  <2> QED
    BY <2>1
<1> QED
  BY <1>1, <1>2

(***************************************************************************)
(* The arithmetic of a character that would stand behind gdb->packet.      *)
(***************************************************************************)
LEMMA TropLong ==
  ASSUME NEW n \in Nat, NEW lus \in Nat, NEW ecrits \in Nat, NEW k \in 1 .. 2,
         lus < n, ecrits <= 2 * lus, Debut + ecrits + k > MAX_PACKET_SIZE
  PROVE  2 * n > Place
BY BlocsAssumption DEF Place, Debut, Fin

LEMMA UnDePlus ==
  ASSUME NEW lus \in Nat, NEW ecrits \in Nat, NEW k \in 1 .. 2,
         lus <= ecrits, ecrits <= 2 * lus
  PROVE  lus + 1 <= ecrits + k /\ ecrits + k <= 2 * (lus + 1)
OBVIOUS

LEMMA MInit == Init => MInv
BY BlocsAssumption DEF Init, MInv, Compteurs, Tient

LEMMA MCopier ==
  ASSUME MInv, Copier
  PROVE  MInv'
<1>1. PICK c : c = Echappe(bloc[src_buffer + 1])
  OBVIOUS
<1>2. src_buffer + 1 \in 1 .. Len(bloc)
  BY DEF MInv, Compteurs, Copier
<1>3. bloc[src_buffer + 1] \in Octet
  BY <1>2 DEF MInv, Compteurs
<1>4. c \in Seq(Octet) /\ Len(c) \in 1 .. 2
  BY <1>1, <1>3, EchappeTient
<1>5. bytes_copied < size /\ envois = <<>> /\ size = Len(bloc)
  BY DEF MInv, Compteurs, Copier
<1>6. CASE Debut + buffer_size + Len(c) > MAX_PACKET_SIZE
  <2>1. Deborde
    BY <1>1, <1>6 DEF Copier
  <2>2. 2 * Len(bloc) > Place
    <3>1. /\ Len(bloc) \in Nat /\ bytes_copied < Len(bloc)
          /\ bytes_copied \in Nat /\ buffer_size \in Nat /\ buffer_size <= 2 * bytes_copied
      BY <1>5 DEF MInv, Compteurs
    <3> QED
      BY <3>1, <1>4, <1>6, TropLong
  <2> QED
    BY <2>1, <2>2 DEF Deborde, MInv, Compteurs, Tient, Place
<1>7. CASE ~(Debut + buffer_size + Len(c) > MAX_PACKET_SIZE)
  <2>1. /\ dest_buffer' = dest_buffer \o c
        /\ buffer_size' = buffer_size + Len(c)
        /\ bytes_copied' = bytes_copied + 1
        /\ src_buffer' = src_buffer + 1
        /\ UNCHANGED <<bloc, base, address, size, etape, envois>>
    BY <1>1, <1>7 DEF Copier
  <2>2. Compteurs'
    <3>1. dest_buffer' \in Seq(Octet) /\ Len(dest_buffer') = buffer_size'
      <4>1. dest_buffer \in Seq(Octet) /\ Len(dest_buffer) = buffer_size
        BY DEF MInv, Compteurs
      <4> HIDE DEF MInv
      <4> QED
        BY <2>1, <1>4, <4>1
    <3>2. Len(c) \in Nat
      BY <1>4
    <3> QED
      BY <2>1, <3>1, <3>2 DEF MInv, Compteurs
  <2>3. /\ src_buffer' = (Len(bloc') - size') + bytes_copied'
        /\ bytes_copied' <= size'
        /\ bytes_copied' <= buffer_size' /\ buffer_size' <= 2 * bytes_copied'
    <3>1. /\ Len(bloc) \in Nat /\ size \in Nat /\ bytes_copied \in Nat /\ buffer_size \in Nat
          /\ src_buffer = (Len(bloc) - size) + bytes_copied
          /\ bytes_copied <= buffer_size /\ buffer_size <= 2 * bytes_copied
      BY DEF MInv, Compteurs
    <3>2. src_buffer' = (Len(bloc') - size') + bytes_copied'
      <4>1. bloc' = bloc /\ size' = size
        BY <2>1
      <4>2. src_buffer + 1 = (Len(bloc) - size) + (bytes_copied + 1)
        BY <3>1
      <4> QED
        BY <2>1, <4>1, <4>2
    <3>3. bytes_copied' <= size'
      BY <2>1, <1>5, <3>1
    <3>4. bytes_copied' <= buffer_size' /\ buffer_size' <= 2 * bytes_copied'
      BY <2>1, <3>1, <1>4, UnDePlus
    <3> QED
      BY <3>2, <3>3, <3>4
  <2> QED
    BY <2>1, <2>2, <2>3 DEF MInv, Tient, Place
<1> QED
  BY <1>6, <1>7

(***************************************************************************)
(* A packet is sent only when it fits (else the model stops), and then the *)
(* buffer is not full yet in the sense of the code: all of the block is in *)
(* it.                                                                     *)
(***************************************************************************)
LEMMA MEnvoyer ==
  ASSUME MInv, Envoyer
  PROVE  MInv'
<1>1. envois = <<>> /\ size = Len(bloc)
  BY DEF MInv, Compteurs, Envoyer
<1>2. CASE Debut + buffer_size + Fin > MAX_PACKET_SIZE
  <2>1. Deborde
    BY <1>2 DEF Envoyer
  <2>2. 2 * Len(bloc) > Place
    BY <1>1, <1>2, BlocsAssumption DEF MInv, Compteurs, Place, Debut, Fin
  <2> QED
    BY <2>1, <2>2 DEF Deborde, MInv, Compteurs, Tient, Place
<1>3. CASE ~(Debut + buffer_size + Fin > MAX_PACKET_SIZE)
  <2> DEFINE p == [address |-> address, nb |-> bytes_copied,
                   data |-> SubSeq(dest_buffer, 1, buffer_size)]
  <2>1. /\ envois' = Append(envois, p)
        /\ address' = (address + bytes_copied) % Espace
        /\ size' = size - bytes_copied
        /\ bytes_copied' = 0 /\ buffer_size' = 0 /\ dest_buffer' = <<>>
        /\ UNCHANGED <<bloc, base, src_buffer, etape>>
    BY <1>3 DEF Envoyer
  <2>2. ~Plein
    BY <1>3, BlocsAssumption DEF Plein, MAX_BUFFER_SIZE, Debut, Fin, MInv, Compteurs
  <2>3. bytes_copied = size
    BY <2>2 DEF Envoyer, MInv, Compteurs
  <2>4. p \in [address : Int, nb : Nat, data : Seq(Octet)]
    BY DEF MInv, Compteurs
  <2>5. envois' = <<p>>
    BY <2>1, <1>1
  <2>6. Len(bloc) <= Place
    BY <1>1, <1>3, <2>3, BlocsAssumption DEF MInv, Compteurs, Place, Debut, Fin
  <2> HIDE DEF p
  <2>7. envois' \in Seq([address : Int, nb : Nat, data : Seq(Octet)]) /\ Len(envois') = 1
    BY <2>4, <2>5
  <2>8. address' \in Int
    BY <2>1, BlocsAssumption DEF MInv, Compteurs
  <2>9. Compteurs' /\ size' = 0
    BY <2>1, <2>3, <2>7, <2>8 DEF MInv, Compteurs
  <2>10. Tient'
    BY <2>1, <2>6, <2>7 DEF Tient, Place, Envoyer
  <2> QED
    BY <2>1, <2>3, <2>7, <2>9, <2>10 DEF MInv, Compteurs
<1> QED
  BY <1>2, <1>3

LEMMA MInvToujours == Spec => []MInv
<1>1. MInv /\ Next => MInv'
  <2> SUFFICES ASSUME MInv, Next
               PROVE  MInv'
    OBVIOUS
  <2>1. CASE Copier
    BY <2>1, MCopier
  <2>2. CASE Envoyer
    BY <2>2, MEnvoyer
  <2>3. CASE Retour
    BY <2>3 DEF Retour, MInv, Compteurs, Tient, Place
  <2> QED
    BY <2>1, <2>2, <2>3 DEF Next
<1>2. MInv /\ UNCHANGED vars => MInv'
  BY DEF vars, MInv, Compteurs, Tient, Place
<1> QED
  BY <1>1, <1>2, MInit, PTL DEF Spec

(***************************************************************************)
(* For every block, address and size of gdb->packet: at most one packet is *)
(* sent, so the test against MAX_BUFFER_SIZE - 1 never cuts a block; only  *)
(* a block of more than half the room of a packet is written behind        *)
(* gdb->packet; one that was sent is no longer than that room.             *)
(***************************************************************************)
THEOREM BlocTientToujours == Spec => []Tient
BY MInvToujours, PTL DEF MInv

-----------------------------------------------------------------------------
(***************************************************************************)
(* Induction over numbers, and functions defined by recursion over them.   *)
(***************************************************************************)
LEMMA Premier ==
  ASSUME NEW T, T \subseteq Nat, T # {}
  PROVE  \E x \in T : \A y \in T : x <= y
<1>1. PICK x \in T : \A y \in T : ~(<<y, x>> \in OpToRel(<, Nat))
  BY NatLessThanWellFounded, WFMin, Zenon
<1>2. ASSUME NEW y \in T PROVE x <= y
  <2>1. x \in Nat /\ y \in Nat
    OBVIOUS
  <2>2. ~(y < x)
    BY <1>1, <2>1 DEF OpToRel
  <2> QED
    BY <2>1, <2>2
<1> QED
  BY <1>2

LEMMA DeProcheEnProche ==
  ASSUME NEW m \in Nat, NEW n \in Nat, NEW T, m \in T,
         \A k \in m .. n : k \in T /\ k < n => k + 1 \in T
  PROVE  \A k \in m .. n : k \in T
<1> SUFFICES ASSUME NEW z \in m .. n, z \notin T
             PROVE  FALSE
  OBVIOUS
<1> DEFINE H == {k \in m .. n : k \notin T}
<1>1. PICK x \in H : \A y \in H : x <= y
  <2>1. H \subseteq Nat /\ H # {}
    OBVIOUS
  <2> QED
    BY <2>1, Premier
<1>2. x \in m .. n /\ x # m
  BY <1>1
<1>3. x - 1 \in m .. n /\ x - 1 \notin H
  BY <1>1, <1>2
<1> QED
  BY <1>1, <1>2, <1>3

Stable(n, S, G) == \A x \in S, j \in 1 .. n : G[<<x, j>>] \in S

Recursive(f, n, a, G) == f = [j \in 0 .. n |-> IF j = 0 THEN a ELSE G[<<f[j - 1], j>>]]

LEMMA Definie ==
  ASSUME NEW n \in Nat, NEW S, NEW a \in S, NEW G, Stable(n, S, G)
  PROVE  \E f \in [0 .. n -> S] : Recursive(f, n, a, G)
<1> DEFINE T == {m \in Nat : \E f \in [0 .. m -> S] : Recursive(f, m, a, G)}
<1>1. 0 \in T
  <2> DEFINE g == [j \in 0 .. 0 |-> a]
  <2>1. g \in [0 .. 0 -> S] /\ Recursive(g, 0, a, G)
    BY DEF Recursive
  <2> QED
    BY <2>1
<1>2. ASSUME NEW m \in 0 .. n, m \in T, m < n
      PROVE  m + 1 \in T
  <2>1. PICK f \in [0 .. m -> S] : Recursive(f, m, a, G)
    BY <1>2
  <2>2. \A j \in 0 .. m : f[j] = IF j = 0 THEN a ELSE G[<<f[j - 1], j>>]
    BY <2>1 DEF Recursive
  <2> DEFINE v == G[<<f[m], m + 1>>]
             g == [j \in 0 .. m + 1 |-> IF j <= m THEN f[j] ELSE v]
  <2>3. v \in S
    BY <1>2, <2>1 DEF Stable
  <2>4. g \in [0 .. m + 1 -> S]
    <3> HIDE DEF v
    <3> QED
      BY <2>1, <2>3
  <2>5. ASSUME NEW j \in 0 .. m + 1
        PROVE  g[j] = IF j = 0 THEN a ELSE G[<<g[j - 1], j>>]
    <3>1. CASE j <= m
      <4>1. j \in 0 .. m /\ (j = 0 \/ j - 1 \in 0 .. m)
        BY <3>1
      <4>2. g[j] = f[j] /\ (j = 0 \/ g[j - 1] = f[j - 1])
        BY <3>1, <4>1
      <4> QED
        BY <2>2, <4>1, <4>2
    <3>2. CASE j = m + 1
      <4>1. g[m + 1] = v /\ g[m] = f[m] /\ j # 0 /\ j - 1 = m
        BY <3>2
      <4> HIDE DEF g
      <4> QED
        BY <3>2, <4>1
    <3> QED
      BY <3>1, <3>2
  <2>6. g = [j \in 0 .. m + 1 |-> g[j]]
    OBVIOUS
  <2> HIDE DEF g
  <2>7. Recursive(g, m + 1, a, G)
    BY <2>5, <2>6 DEF Recursive
  <2> QED
    BY <2>4, <2>7
<1>3. n \in T
  <2> HIDE DEF T
  <2>1. 0 \in Nat /\ n \in 0 .. n
    OBVIOUS
  <2> QED
    BY <1>1, <1>2, <2>1, DeProcheEnProche
<1> QED
  BY <1>3

-----------------------------------------------------------------------------
(***************************************************************************)
(* The place where the code of each byte ends.                             *)
(***************************************************************************)
Speciaux == {36, 35, 125}

Poids(b) == IF b \in Speciaux THEN 2 ELSE 1

Longueurs(b) ==
  LET f[i \in 0 .. Len(b)] ==
        IF i = 0 THEN 0
        ELSE f[i - 1] + IF b[i] \in {36, 35, 125} THEN 2 ELSE 1
  IN  f

LEMMA LongueursDe ==
  ASSUME NEW b \in Seq(Octet), NEW L, L = Longueurs(b)
  PROVE  /\ L \in [0 .. Len(b) -> Nat] /\ L[0] = 0
         /\ \A i \in 1 .. Len(b) : L[i] = L[i - 1] + Poids(b[i])
<1> PICK n \in Nat : n = Len(b)
  OBVIOUS
<1> DEFINE G == [x \in Nat \X (1 .. n) |-> x[1] + IF b[x[2]] \in {36, 35, 125} THEN 2 ELSE 1]
<1>1. \A x \in Nat, j \in 1 .. n :
        G[<<x, j>>] = x + IF b[j] \in {36, 35, 125} THEN 2 ELSE 1
  OBVIOUS
<1> HIDE DEF G
<1>2. Stable(n, Nat, G)
  <2>1. ASSUME NEW x \in Nat, NEW j \in 1 .. n
        PROVE  G[<<x, j>>] \in Nat
    <3>1. G[<<x, j>>] = x + IF b[j] \in {36, 35, 125} THEN 2 ELSE 1
      BY <1>1
    <3> QED
      BY <3>1
  <2> QED
    BY <2>1 DEF Stable
<1>3. PICK g \in [0 .. n -> Nat] : Recursive(g, n, 0, G)
  BY <1>2, Definie
<1>4. ASSUME NEW j \in 0 .. n
      PROVE  g[j] = IF j = 0 THEN 0 ELSE g[j - 1] + IF b[j] \in {36, 35, 125} THEN 2 ELSE 1
  <2>1. g[j] = IF j = 0 THEN 0 ELSE G[<<g[j - 1], j>>]
    BY <1>3 DEF Recursive
  <2>2. CASE j = 0
    BY <2>1, <2>2
  <2>3. CASE j # 0
    <3>1. j \in 1 .. n /\ g[j - 1] \in Nat
      BY <2>3
    <3> QED
      BY <1>1, <2>1, <2>3, <3>1
  <2> QED
    BY <2>2, <2>3
<1> DEFINE f[i \in 0 .. Len(b)] ==
        IF i = 0 THEN 0
        ELSE f[i - 1] + IF b[i] \in {36, 35, 125} THEN 2 ELSE 1
<1>5. \E h : h = [i \in 0 .. Len(b) |->
                    IF i = 0 THEN 0 ELSE h[i - 1] + IF b[i] \in {36, 35, 125} THEN 2 ELSE 1]
  <2>1. g = [i \in 0 .. Len(b) |->
               IF i = 0 THEN 0 ELSE g[i - 1] + IF b[i] \in {36, 35, 125} THEN 2 ELSE 1]
    BY <1>4
  <2> QED
    BY <2>1
<1>6. f = [i \in 0 .. Len(b) |->
             IF i = 0 THEN 0 ELSE f[i - 1] + IF b[i] \in {36, 35, 125} THEN 2 ELSE 1]
  BY <1>5, Zenon DEF f
<1>7. L = f
  BY DEF Longueurs
<1> HIDE DEF f
<1>8. \A j \in 0 .. n :
        L[j] = IF j = 0 THEN 0 ELSE L[j - 1] + IF b[j] \in {36, 35, 125} THEN 2 ELSE 1
  BY <1>6, <1>7
<1>9. \A j \in 0 .. n : L[j] \in Nat
  <2> DEFINE T == {j \in 0 .. n : L[j] \in Nat}
  <2>1. 0 \in T
    BY <1>8
  <2>2. ASSUME NEW j \in 0 .. n, j \in T, j < n
        PROVE  j + 1 \in T
    <3>a. PICK k : k = j + 1
      OBVIOUS
    <3>1. k \in 0 .. n /\ k # 0 /\ k - 1 = j
      BY <2>2, <3>a
    <3>2. L[k] = L[k - 1] + IF b[k] \in {36, 35, 125} THEN 2 ELSE 1
      BY <1>8, <3>1
    <3>3. L[j] \in Nat
      BY <2>2
    <3>4. (IF b[k] \in {36, 35, 125} THEN 2 ELSE 1) \in Nat
      OBVIOUS
    <3>5. L[k] \in Nat
      BY <3>1, <3>2, <3>3, <3>4
    <3> QED
      BY <3>1, <3>5, <3>a
  <2> HIDE DEF T
  <2>3. \A j \in 0 .. n : j \in T
    BY <2>1, <2>2, DeProcheEnProche
  <2> QED
    BY <2>3 DEF T
<1>10. L \in [0 .. Len(b) -> Nat]
  BY <1>6, <1>7, <1>9
<1>11. \A i \in 1 .. n : L[i] = L[i - 1] + Poids(b[i])
  BY <1>8 DEF Poids, Speciaux
<1> QED
  BY <1>8, <1>10, <1>11

LEMMA Croissent ==
  ASSUME NEW b \in Seq(Octet), NEW L, L = Longueurs(b),
         NEW n \in 0 .. Len(b), NEW i \in 0 .. n
  PROVE  L[i] <= L[n]
<1> DEFINE T == {j \in i .. n : L[i] <= L[j]}
<1>1. /\ \A j \in 0 .. Len(b) : L[j] \in Nat
      /\ \A j \in 1 .. Len(b) : L[j] = L[j - 1] + Poids(b[j])
  BY LongueursDe
<1>2. i \in T
  BY <1>1
<1>3. ASSUME NEW j \in i .. n, j \in T, j < n
      PROVE  j + 1 \in T
  <2>1. L[j + 1] = L[j] + Poids(b[j + 1]) /\ L[j] \in Nat /\ L[i] \in Nat
    <3>1. j + 1 \in 1 .. Len(b) /\ j + 1 - 1 = j /\ i \in 0 .. Len(b) /\ j \in 0 .. Len(b)
      BY <1>3
    <3> QED
      BY <1>1, <3>1
  <2>2. Poids(b[j + 1]) \in {1, 2}
    BY DEF Poids
  <2> QED
    BY <1>3, <2>1, <2>2
<1> HIDE DEF T
<1>4. \A j \in i .. n : j \in T
  <2>1. i \in Nat /\ n \in Nat
    OBVIOUS
  <2> QED
    BY <1>2, <1>3, <2>1, DeProcheEnProche
<1> QED
  BY <1>4 DEF T

-----------------------------------------------------------------------------
(***************************************************************************)
(* Reading back what was escaped.                                          *)
(***************************************************************************)
LEMMA XorDe ==
  ASSUME NEW x \in Speciaux
  PROVE  /\ Xor20(x) \in Octet /\ Xor20(x) \notin Speciaux
         /\ Xor20(Xor20(x)) = x
<1>1. Xor20(36) = 4 /\ Xor20(35) = 3 /\ Xor20(125) = 93
  BY DEF Xor20
<1>2. Xor20(4) = 36 /\ Xor20(3) = 35 /\ Xor20(93) = 125
  BY DEF Xor20
<1>3. x = 36 \/ x = 35 \/ x = 125
  BY DEF Speciaux
<1> QED
  BY <1>1, <1>2, <1>3 DEF Speciaux, Octet

Codee(d, L, b, k) ==   \* the code of byte k is where it should be
  /\ b[k] \in Speciaux => d[L[k] - 1] = 125 /\ d[L[k]] = Xor20(b[k])
  /\ b[k] \notin Speciaux => d[L[k]] = b[k]

LEMMA UnDePlusLu ==
  ASSUME NEW b \in Seq(Octet), NEW k \in Nat, k < Len(b)
  PROVE  SubSeq(b, 1, k + 1) = Append(SubSeq(b, 1, k), b[k + 1])
<1>1. SubSeq(b, 1, k) \in Seq(Octet) /\ Len(SubSeq(b, 1, k)) = k
  OBVIOUS
<1>2. SubSeq(b, 1, k + 1) \in Seq(Octet) /\ Len(SubSeq(b, 1, k + 1)) = k + 1
  OBVIOUS
<1>3. b[k + 1] \in Octet
  OBVIOUS
<1>4. \A j \in 1 .. k : SubSeq(b, 1, k)[j] = b[j]
  OBVIOUS
<1>5. \A j \in 1 .. k + 1 : SubSeq(b, 1, k + 1)[j] = b[j]
  OBVIOUS
<1> PICK s \in Seq(Octet) : s = SubSeq(b, 1, k)
  BY <1>1
<1>6. Append(s, b[k + 1]) \in Seq(Octet) /\ Len(Append(s, b[k + 1])) = k + 1
  BY <1>1, <1>3
<1>7. \A j \in 1 .. k + 1 : Append(s, b[k + 1])[j] = b[j]
  BY <1>1, <1>3, <1>4
<1> QED
  BY <1>2, <1>5, <1>6, <1>7

(***************************************************************************)
(* The function Lu reads by.                                               *)
(***************************************************************************)
Suivant(d, x, p) ==   \* what has been read behind place p + 1 when it was x behind p
  IF p > 0 /\ d[p] = 125 THEN Append(x, Xor20(d[p + 1]))
  ELSE IF d[p + 1] = 125 THEN x
  ELSE Append(x, d[p + 1])

LEMMA LuParPlace ==
  ASSUME NEW d \in Seq(Octet)
  PROVE  \E f : /\ Lu(d) = f[Len(d)] /\ f[0] = <<>>
                /\ \A p \in 0 .. Len(d) - 1 : f[p + 1] = Suivant(d, f[p], p)
<1> PICK n \in Nat : n = Len(d)
  OBVIOUS
<1> DEFINE G == [x \in Seq(Int) \X (1 .. n) |-> Suivant(d, x[1], x[2] - 1)]
<1>1. ASSUME NEW x \in Seq(Int), NEW j \in 1 .. n
      PROVE  G[<<x, j>>] = Suivant(d, x, j - 1) /\ Suivant(d, x, j - 1) \in Seq(Int)
  <2>1. d[j] \in Int
    <3>1. d[j] \in Octet
      OBVIOUS
    <3>2. \A o \in Octet : o \in Int
      BY DEF Octet
    <3> QED
      BY <3>1, <3>2, Zenon
  <2>2. Xor20(d[j]) \in Int
    BY <2>1 DEF Xor20
  <2>3. Append(x, Xor20(d[j])) \in Seq(Int) /\ Append(x, d[j]) \in Seq(Int)
    BY <2>1, <2>2
  <2>4. Suivant(d, x, j - 1) \in Seq(Int)
    <3>1. j - 1 + 1 = j
      OBVIOUS
    <3> QED
      BY <2>3, <3>1 DEF Suivant
  <2>5. <<x, j>> \in Seq(Int) \X (1 .. n)
    OBVIOUS
  <2> QED
    BY <2>4, <2>5
<1> HIDE DEF G
<1>2. Stable(n, Seq(Int), G)
  BY <1>1 DEF Stable
<1>3. <<>> \in Seq(Int)
  OBVIOUS
<1>4. PICK g \in [0 .. n -> Seq(Int)] : Recursive(g, n, <<>>, G)
  BY <1>2, <1>3, Definie
<1>5. ASSUME NEW i \in 0 .. n
      PROVE  g[i] = IF i = 0 THEN <<>>
                    ELSE IF i > 1 /\ d[i - 1] = 125 THEN Append(g[i - 1], Xor20(d[i]))
                    ELSE IF d[i] = 125 THEN g[i - 1]
                    ELSE Append(g[i - 1], d[i])
  <2>1. g[i] = IF i = 0 THEN <<>> ELSE G[<<g[i - 1], i>>]
    BY <1>4 DEF Recursive
  <2>2. CASE i = 0
    BY <2>1, <2>2
  <2>3. CASE i # 0
    <3>1. i \in 1 .. n /\ g[i - 1] \in Seq(Int)
      BY <2>3
    <3>2. g[i] = Suivant(d, g[i - 1], i - 1)
      BY <1>1, <2>1, <2>3, <3>1
    <3>3. i - 1 + 1 = i /\ (i - 1 > 0 <=> i > 1)
      BY <2>3
    <3> QED
      BY <2>3, <3>2, <3>3 DEF Suivant
  <2> QED
    BY <2>2, <2>3
<1> DEFINE f[i \in 0 .. Len(d)] ==
        IF i = 0 THEN <<>>
        ELSE IF i > 1 /\ d[i - 1] = 125 THEN Append(f[i - 1], Xor20(d[i]))
        ELSE IF d[i] = 125 THEN f[i - 1]
        ELSE Append(f[i - 1], d[i])
<1>6. \E h : h = [i \in 0 .. Len(d) |->
                    IF i = 0 THEN <<>>
                    ELSE IF i > 1 /\ d[i - 1] = 125 THEN Append(h[i - 1], Xor20(d[i]))
                    ELSE IF d[i] = 125 THEN h[i - 1]
                    ELSE Append(h[i - 1], d[i])]
  <2>1. g = [i \in 0 .. Len(d) |->
               IF i = 0 THEN <<>>
               ELSE IF i > 1 /\ d[i - 1] = 125 THEN Append(g[i - 1], Xor20(d[i]))
               ELSE IF d[i] = 125 THEN g[i - 1]
               ELSE Append(g[i - 1], d[i])]
    BY <1>5
  <2> QED
    BY <2>1
<1>7. f = [i \in 0 .. Len(d) |->
             IF i = 0 THEN <<>>
             ELSE IF i > 1 /\ d[i - 1] = 125 THEN Append(f[i - 1], Xor20(d[i]))
             ELSE IF d[i] = 125 THEN f[i - 1]
             ELSE Append(f[i - 1], d[i])]
  BY <1>6, Zenon DEF f
<1>8. Lu(d) = f[Len(d)]
  BY Zenon DEF Lu
<1> HIDE DEF f
<1>9. f[0] = <<>>
  <2>1. 0 \in 0 .. Len(d)
    OBVIOUS
  <2> QED
    BY <1>7, <2>1
<1>10. ASSUME NEW p \in 0 .. Len(d) - 1
       PROVE  f[p + 1] = Suivant(d, f[p], p)
  <2>a. PICK i : i = p + 1
    OBVIOUS
  <2>1. i \in 0 .. Len(d) /\ i # 0 /\ i - 1 = p /\ (i > 1 <=> p > 0)
    BY <2>a
  <2>2. f[i] = IF i > 1 /\ d[i - 1] = 125 THEN Append(f[i - 1], Xor20(d[i]))
               ELSE IF d[i] = 125 THEN f[i - 1]
               ELSE Append(f[i - 1], d[i])
    BY <1>7, <2>1
  <2>3. f[i] = IF p > 0 /\ d[p] = 125 THEN Append(f[p], Xor20(d[i]))
               ELSE IF d[i] = 125 THEN f[p]
               ELSE Append(f[p], d[i])
    BY <2>1, <2>2
  <2> QED
    BY <2>3, <2>a DEF Suivant
<1> QED
  BY <1>8, <1>9, <1>10

LEMMA LuDe ==
  ASSUME NEW b \in Seq(Octet), NEW n \in 0 .. Len(b), NEW L, L = Longueurs(b),
         NEW d \in Seq(Octet), Len(d) = L[n], \A k \in 1 .. n : Codee(d, L, b, k)
  PROVE  Lu(d) = SubSeq(b, 1, n)
<1> PICK f : /\ Lu(d) = f[Len(d)] /\ f[0] = <<>>
             /\ \A p \in 0 .. Len(d) - 1 : f[p + 1] = Suivant(d, f[p], p)
  BY LuParPlace
<1> DEFINE T == {k \in 0 .. n : f[L[k]] = SubSeq(b, 1, k)}
<1>1. /\ \A j \in 0 .. Len(b) : L[j] \in Nat
      /\ L[0] = 0
      /\ \A j \in 1 .. Len(b) : L[j] = L[j - 1] + Poids(b[j])
  BY LongueursDe
<1>2. 0 \in T
  <2>1. SubSeq(b, 1, 0) = <<>>
    OBVIOUS
  <2>2. f[L[0]] = <<>>
    BY <1>1, Zenon
  <2>3. f[L[0]] = SubSeq(b, 1, 0)
    BY <2>1, <2>2, Zenon
  <2>4. 0 \in 0 .. n
    OBVIOUS
  <2> QED
    BY <2>3, <2>4, Zenon
<1>3. ASSUME NEW k \in 0 .. n, k \in T, k < n
      PROVE  k + 1 \in T
  <2>a. PICK x : x = b[k + 1]
    OBVIOUS
  <2>b. PICK l : l = L[k]
    OBVIOUS
  <2>c. PICK m : m = L[k + 1]
    OBVIOUS
  <2>1. l \in Nat /\ m = l + Poids(x) /\ m <= Len(d) /\ k \in Nat /\ k < Len(b)
    <3>1. k + 1 \in 1 .. Len(b) /\ k + 1 - 1 = k /\ k \in 0 .. Len(b) /\ k + 1 <= n
      BY <1>3
    <3>2. L[k + 1] = L[k] + Poids(b[k + 1]) /\ L[k] \in Nat
      BY <1>1, <3>1
    <3>3. L[k + 1] <= L[n]
      <4>1. k + 1 \in 0 .. n
        BY <1>3
      <4> QED
        BY <4>1, Croissent
    <3> QED
      BY <2>a, <2>b, <2>c, <3>1, <3>2, <3>3
  <2>2. l > 0 => d[l] # 125
    <3>1. CASE k = 0
      BY <1>1, <2>b, <3>1
    <3>2. CASE k # 0
      <4>1. k \in 1 .. n
        BY <3>2
      <4>2. Codee(d, L, b, k)
        BY <4>1
      <4>3. CASE b[k] \in Speciaux
        <5>1. Xor20(b[k]) \notin Speciaux
          BY <4>3, XorDe
        <5> QED
          BY <2>b, <4>2, <4>3, <5>1 DEF Codee, Speciaux
      <4>4. CASE b[k] \notin Speciaux
        BY <2>b, <4>2, <4>4 DEF Codee, Speciaux
      <4> QED
        BY <4>3, <4>4
    <3> QED
      BY <3>1, <3>2
  <2>3. Codee(d, L, b, k + 1)
    <3>1. k + 1 \in 1 .. n
      BY <1>3
    <3> QED
      BY <3>1
  <2>4. f[m] = Append(f[l], x)
    <3>1. CASE x \in Speciaux
      <4>a. PICK q : q = l + 1
        OBVIOUS
      <4>1. m = l + 2 /\ l \in 0 .. Len(d) - 1 /\ q \in 0 .. Len(d) - 1 /\ q > 0 /\ m = q + 1
        BY <2>1, <3>1, <4>a DEF Poids
      <4>2. d[q] = 125 /\ d[m] = Xor20(x)
        <5>1. d[m - 1] = 125 /\ d[m] = Xor20(x)
          BY <2>3, <2>a, <2>c, <3>1 DEF Codee
        <5>2. m - 1 = q
          BY <4>1
        <5> QED
          BY <5>1, <5>2
      <4>3. f[q] = Suivant(d, f[l], l) /\ f[m] = Suivant(d, f[q], q)
        <5>1. f[l + 1] = Suivant(d, f[l], l)
          BY <4>1
        <5>2. f[q + 1] = Suivant(d, f[q], q)
          BY <4>1
        <5> QED
          BY <5>1, <5>2, <4>1, <4>a, Zenon
      <4>4. f[q] = f[l]
        BY <2>2, <4>2, <4>3, <4>a DEF Suivant
      <4>5. f[m] = Append(f[q], Xor20(d[m]))
        <5>1. q > 0 /\ d[q] = 125
          BY <4>1, <4>2
        <5>2. Suivant(d, f[q], q) = Append(f[q], Xor20(d[q + 1]))
          BY <5>1, Zenon DEF Suivant
        <5> QED
          BY <4>1, <4>3, <5>2, Zenon
      <4>6. Xor20(Xor20(x)) = x
        BY <3>1, XorDe
      <4> QED
        BY <4>2, <4>4, <4>5, <4>6
    <3>2. CASE x \notin Speciaux
      <4>1. m = l + 1 /\ l \in 0 .. Len(d) - 1
        BY <2>1, <3>2 DEF Poids
      <4>2. d[l + 1] = x
        BY <2>3, <2>a, <2>c, <3>2, <4>1 DEF Codee
      <4>3. f[l + 1] = Suivant(d, f[l], l)
        BY <4>1
      <4>4. ~(l > 0 /\ d[l] = 125) /\ d[l + 1] # 125
        BY <2>2, <3>2, <4>2 DEF Speciaux
      <4> QED
        BY <4>1, <4>2, <4>3, <4>4 DEF Suivant
    <3> QED
      BY <3>1, <3>2
  <2>5. SubSeq(b, 1, k + 1) = Append(SubSeq(b, 1, k), b[k + 1])
    BY <2>1, UnDePlusLu
  <2>6. f[l] = SubSeq(b, 1, k)
    BY <1>3, <2>b
  <2>7. f[L[k + 1]] = SubSeq(b, 1, k + 1)
    BY <2>4, <2>5, <2>6, <2>a, <2>c
  <2> QED
    BY <1>3, <2>7
<1>4. n \in T
  <2> HIDE DEF T
  <2>1. 0 \in Nat /\ n \in Nat /\ n \in 0 .. n
    OBVIOUS
  <2> QED
    BY <1>2, <1>3, <2>1, DeProcheEnProche
<1> QED
  BY <1>4

-----------------------------------------------------------------------------
(***************************************************************************)
(* What is in the buffer is the code of the bytes copied so far, and what  *)
(* has been sent reads as the block.                                       *)
(***************************************************************************)
Neutre(d) == \A i \in DOMAIN d : d[i] \notin {36, 35}

Codage(d, b, n) ==   \* d is the code of the first n bytes of b
  /\ Len(d) = Longueurs(b)[n] /\ Neutre(d)
  /\ \A k \in 1 .. n : Codee(d, Longueurs(b), b, k)

Bout(e, d, c) ==   \* e is d with c behind it
  /\ Len(e) = Len(d) + Len(c)
  /\ \A i \in 1 .. Len(d) : e[i] = d[i]
  /\ \A i \in 1 .. Len(c) : e[Len(d) + i] = c[i]

EnCopie ==
  envois = <<>> => address = base /\ Codage(dest_buffer, bloc, src_buffer)

Parti ==
  envois # <<>> =>
    /\ envois[1].address = base /\ envois[1].nb = Len(bloc)
    /\ Lu(envois[1].data) = bloc /\ Neutre(envois[1].data)
    /\ LongueurCodee <= Place

EInv ==
  /\ base \in Bases /\ EnCopie /\ Parti
  /\ etape = "deborde" => LongueurCodee > Place
  /\ etape = "fini" => size = 0

LEMMA CodeeDe ==
  LongueurCodee = Longueurs(bloc)[Len(bloc)]
BY Zenon DEF LongueurCodee, Longueurs

LEMMA EInit == Init => EInv
<1> SUFFICES ASSUME Init PROVE EInv
  OBVIOUS
<1>1. bloc \in Seq(Octet)
  BY BlocsAssumption DEF Init
<1>2. Longueurs(bloc)[0] = 0
  BY <1>1, LongueursDe
<1>3. src_buffer = 0 /\ dest_buffer = <<>> /\ address = base /\ base \in Bases /\ envois = <<>>
  BY DEF Init
<1>4. EnCopie
  BY <1>2, <1>3 DEF EnCopie, Codage, Neutre
<1>5. Parti /\ etape = "copie"
  BY <1>3 DEF Parti, Init
<1> QED
  BY <1>3, <1>4, <1>5 DEF EInv

LEMMA Dedans ==
  ASSUME NEW u \in Nat, NEW v, NEW l \in Nat, NEW q \in 1 .. 2, v = u + q, v <= l
  PROVE  v \in 1 .. l /\ (q = 2 => v - 1 \in 1 .. l)
OBVIOUS

LEMMA MisBout ==
  ASSUME NEW d \in Seq(Octet), NEW c \in Seq(Octet)
  PROVE  d \o c \in Seq(Octet) /\ Bout(d \o c, d, c)
<1>a. PICK l \in Nat : l = Len(d)
  OBVIOUS
<1>b. PICK p \in Nat : p = Len(c)
  OBVIOUS
<1>1. d \o c \in Seq(Octet)
  OBVIOUS
<1>2. Len(d \o c) = l + p
  BY <1>a, <1>b
<1>3. ASSUME NEW i \in 1 .. l
      PROVE  (d \o c)[i] = d[i]
  BY <1>a
<1>4. ASSUME NEW i \in 1 .. p
      PROVE  (d \o c)[l + i] = c[i]
  BY <1>a, <1>b
<1> QED
  BY <1>1, <1>2, <1>3, <1>4, <1>a, <1>b, Zenon DEF Bout

LEMMA CodageAjoute ==
  ASSUME NEW b \in Seq(Octet), NEW d \in Seq(Octet), NEW n \in Nat, n < Len(b),
         Codage(d, b, n), NEW e, Bout(e, d, Echappe(b[n + 1])), e \in Seq(Octet)
  PROVE  Codage(e, b, n + 1)
<1>c. PICK L : L = Longueurs(b)
  OBVIOUS
<1>d. PICK c : c = Echappe(b[n + 1])
  OBVIOUS
<1>a. PICK x \in Octet : x = b[n + 1]
  OBVIOUS
<1>1. /\ \A j \in 0 .. Len(b) : L[j] \in Nat
      /\ \A j \in 1 .. Len(b) : L[j] = L[j - 1] + Poids(b[j])
  BY <1>c, LongueursDe
<1>b. PICK l \in Nat : l = L[n]
  BY <1>1
<1>e. PICK p : p = Poids(x)
  OBVIOUS
<1>2. L[n + 1] = l + p
  <2>1. n + 1 \in 1 .. Len(b) /\ n + 1 - 1 = n
    OBVIOUS
  <2> QED
    BY <1>1, <1>a, <1>b, <1>e, <2>1
<1>3. Len(c) = p /\ p \in 1 .. 2
  BY <1>a, <1>d, <1>e DEF Echappe, Poids, Speciaux
<1>f. /\ Len(d) = l /\ Neutre(d)
      /\ \A k \in 1 .. n : Codee(d, L, b, k)
  BY <1>b, <1>c DEF Codage
<1>4. /\ Len(e) = l + p
      /\ \A i \in 1 .. l : e[i] = d[i]
      /\ \A i \in 1 .. p : e[l + i] = c[i]
  BY <1>d, <1>3, <1>f DEF Bout
<1>5. x \in Speciaux => p = 2 /\ c[1] = 125 /\ c[2] = Xor20(x) /\ Xor20(x) \notin Speciaux
  BY <1>a, <1>d, <1>e, XorDe DEF Echappe, Poids, Speciaux
<1>6. x \notin Speciaux => p = 1 /\ c[1] = x
  BY <1>a, <1>d, <1>e DEF Echappe, Poids, Speciaux
<1>7. Neutre(e)
  <2>1. ASSUME NEW i \in 1 .. l
        PROVE  e[i] \notin {36, 35}
    <3>1. i \in DOMAIN d /\ e[i] = d[i]
      BY <1>f, <1>4
    <3> QED
      BY <1>f, <3>1 DEF Neutre
  <2>2. ASSUME NEW i \in 1 .. p
        PROVE  e[l + i] \notin {36, 35}
    <3>1. i = 1 \/ (i = 2 /\ p = 2)
      BY <1>3
    <3>2. c[i] \notin {36, 35}
      BY <1>5, <1>6, <3>1 DEF Speciaux
    <3> QED
      BY <1>4, <3>2
  <2>3. ASSUME NEW i \in 1 .. l + p, i \notin 1 .. l
        PROVE  i - l \in 1 .. p /\ i = l + (i - l)
    BY <1>3, <2>3
  <2>4. ASSUME NEW i \in 1 .. l + p
        PROVE  e[i] \notin {36, 35}
    BY <2>1, <2>2, <2>3
  <2> QED
    BY <1>4, <2>4 DEF Neutre
<1>8. ASSUME NEW k \in 1 .. n
      PROVE  Codee(e, L, b, k)
  <2>1. Codee(d, L, b, k)
    BY <1>f
  <2>2. L[k] \in 1 .. l /\ (b[k] \in Speciaux => L[k] - 1 \in 1 .. l)
    <3>1. k \in 1 .. Len(b) /\ k - 1 \in 0 .. Len(b) /\ n \in 0 .. Len(b) /\ k \in 0 .. n
      OBVIOUS
    <3>2. L[k] = L[k - 1] + Poids(b[k]) /\ L[k - 1] \in Nat
      BY <1>1, <3>1
    <3>3. L[k] <= L[n]
      BY <1>c, <3>1, Croissent
    <3>4. Poids(b[k]) \in 1 .. 2 /\ (b[k] \in Speciaux => Poids(b[k]) = 2)
      BY DEF Poids
    <3>5. L[k] <= l
      BY <1>b, <3>3
    <3>6. L[k] \in 1 .. l /\ (Poids(b[k]) = 2 => L[k] - 1 \in 1 .. l)
      BY <3>2, <3>4, <3>5, Dedans
    <3> QED
      BY <3>4, <3>6
  <2> QED
    BY <1>4, <2>1, <2>2 DEF Codee
<1>9. Codee(e, L, b, n + 1)
  <2>1. CASE x \in Speciaux
    <3>1. e[l + 1] = 125 /\ e[l + 2] = Xor20(x)
      BY <1>3, <1>4, <1>5, <2>1
    <3>2. L[n + 1] = l + 2 /\ L[n + 1] - 1 = l + 1
      BY <1>2, <1>5, <2>1
    <3> QED
      BY <1>a, <2>1, <3>1, <3>2 DEF Codee
  <2>2. CASE x \notin Speciaux
    <3>1. e[l + 1] = x
      BY <1>3, <1>4, <1>6, <2>2
    <3>2. L[n + 1] = l + 1
      BY <1>2, <1>6, <2>2
    <3> QED
      BY <1>a, <2>2, <3>1, <3>2 DEF Codee
  <2> QED
    BY <2>1, <2>2
<1>10. \A k \in 1 .. n + 1 : k \in 1 .. n \/ k = n + 1
  OBVIOUS
<1> QED
  BY <1>2, <1>4, <1>7, <1>8, <1>9, <1>10, <1>c DEF Codage

(***************************************************************************)
(* The code of the first bytes is no longer than that of the block.        *)
(***************************************************************************)
LEMMA PartieCodee ==
  ASSUME bloc \in Seq(Octet), NEW k \in 0 .. Len(bloc)
  PROVE  /\ Longueurs(bloc)[k] \in Nat /\ LongueurCodee \in Nat
         /\ Longueurs(bloc)[k] <= LongueurCodee
<1> PICK L : L = Longueurs(bloc)
  OBVIOUS
<1>1. \A j \in 0 .. Len(bloc) : L[j] \in Nat
  BY LongueursDe
<1>2. Len(bloc) \in 0 .. Len(bloc)
  OBVIOUS
<1>3. L[k] <= L[Len(bloc)]
  BY <1>2, Croissent
<1>4. LongueurCodee = L[Len(bloc)]
  BY CodeeDe, Zenon
<1> QED
  BY <1>1, <1>2, <1>3, <1>4

LEMMA LongueurStable ==
  ASSUME UNCHANGED bloc
  PROVE  LongueurCodee' = LongueurCodee /\ Place' = Place
<1>1. LongueurCodee' = LongueurCodee
  BY DEF LongueurCodee
<1>2. Place' = Place
  BY DEF Place
<1> QED
  BY <1>1, <1>2

LEMMA EDeborde ==
  ASSUME EInv, Deborde, LongueurCodee > Place
  PROVE  EInv'
<1>1. LongueurCodee' = LongueurCodee /\ Place' = Place
  BY LongueurStable DEF Deborde
<1>2. EnCopie'
  BY DEF EInv, Deborde, EnCopie
<1>3. Parti'
  BY <1>1 DEF EInv, Deborde, Parti, Neutre
<1> QED
  BY <1>1, <1>2, <1>3 DEF EInv, Deborde

LEMMA ECopier ==
  ASSUME MInv, EInv, Copier
  PROVE  EInv'
<1>a. PICK n : n = src_buffer
  OBVIOUS
<1>b. PICK c : c = Echappe(bloc[n + 1])
  OBVIOUS
<1>c. PICK d : d = dest_buffer
  OBVIOUS
<1>1. /\ bloc \in Seq(Octet) /\ n \in Nat /\ n < Len(bloc)
      /\ envois = <<>> /\ d \in Seq(Octet) /\ Len(d) = buffer_size
      /\ etape = "copie"
  BY <1>a, <1>c DEF MInv, Compteurs, Copier
<1>2. address = base /\ base \in Bases /\ Codage(d, bloc, n)
  BY <1>1, <1>a, <1>c DEF EInv, EnCopie
<1>3. c \in Seq(Octet)
  <2>1. bloc[n + 1] \in Octet
    BY <1>1
  <2> QED
    BY <1>b, <2>1, EchappeTient
<1>d. PICK e : e = d \o c
  OBVIOUS
<1>4. e \in Seq(Octet) /\ Bout(e, d, c)
  BY <1>1, <1>3, <1>d, MisBout
<1>5. Codage(e, bloc, n + 1)
  BY <1>1, <1>2, <1>4, <1>b, CodageAjoute
<1>6. CASE Debut + buffer_size + Len(c) > MAX_PACKET_SIZE
  <2>1. Deborde
    BY <1>a, <1>b, <1>6 DEF Copier
  <2>2. LongueurCodee > Place
    <3>1. n + 1 \in 0 .. Len(bloc)
      BY <1>1
    <3>2. Longueurs(bloc)[n + 1] <= LongueurCodee /\ LongueurCodee \in Nat
      BY <1>1, <3>1, PartieCodee
    <3>3. Len(e) = buffer_size + Len(c) /\ buffer_size \in Nat /\ Len(c) \in Nat
      BY <1>1, <1>3, <1>4 DEF Bout
    <3>4. Longueurs(bloc)[n + 1] > Place
      <4>1. Longueurs(bloc)[n + 1] = Len(e)
        BY <1>5 DEF Codage
      <4> QED
        BY <1>6, <3>3, <4>1, BlocsAssumption DEF Place, Debut, Fin
    <3>5. Place \in Int
      BY BlocsAssumption DEF Place, Debut, Fin
    <3> QED
      BY <1>4, <1>5, <3>2, <3>4, <3>5 DEF Codage
  <2> QED
    BY <2>1, <2>2, EDeborde
<1>7. CASE ~(Debut + buffer_size + Len(c) > MAX_PACKET_SIZE)
  <2>1. /\ dest_buffer' = e
        /\ src_buffer' = n + 1
        /\ UNCHANGED <<bloc, base, address, size, etape, envois>>
    BY <1>a, <1>b, <1>c, <1>d, <1>7 DEF Copier
  <2>2. EnCopie'
    BY <1>2, <1>5, <2>1 DEF EnCopie
  <2>3. Parti'
    BY <1>1, <2>1 DEF Parti
  <2> QED
    BY <1>1, <1>2, <2>1, <2>2, <2>3 DEF EInv
<1> QED
  BY <1>6, <1>7

LEMMA EEnvoyer ==
  ASSUME MInv, EInv, Envoyer
  PROVE  EInv'
<1>c. PICK L : L = Longueurs(bloc)
  OBVIOUS
<1>1. /\ bloc \in Seq(Octet) /\ envois = <<>> /\ size = Len(bloc)
      /\ src_buffer = bytes_copied /\ bytes_copied \in 0 .. Len(bloc)
      /\ dest_buffer \in Seq(Octet) /\ Len(dest_buffer) = buffer_size
      /\ buffer_size \in Nat /\ etape = "copie"
  <2>1. /\ bloc \in Seq(Octet) /\ dest_buffer \in Seq(Octet)
        /\ Len(dest_buffer) = buffer_size /\ buffer_size \in Nat /\ etape = "copie"
    BY DEF MInv, Compteurs, Envoyer
  <2>2. envois = <<>> /\ size = Len(bloc)
    BY DEF MInv, Compteurs, Envoyer
  <2>3. /\ Len(bloc) \in Nat /\ bytes_copied \in Nat /\ bytes_copied <= size
        /\ src_buffer = (Len(bloc) - size) + bytes_copied
    BY <2>1 DEF MInv, Compteurs
  <2>4. src_buffer = bytes_copied /\ bytes_copied \in 0 .. Len(bloc)
    BY <2>2, <2>3
  <2> QED
    BY <2>1, <2>2, <2>4
<1>2. /\ address = base /\ base \in Bases /\ Len(dest_buffer) = L[src_buffer]
      /\ \A k \in 1 .. src_buffer : Codee(dest_buffer, L, bloc, k)
      /\ Neutre(dest_buffer)
  BY <1>1, <1>c DEF EInv, EnCopie, Codage
<1>3. Place \in Int /\ (Debut + buffer_size + Fin > MAX_PACKET_SIZE <=> buffer_size > Place)
  BY <1>1, BlocsAssumption DEF Place, Debut, Fin
<1>4. CASE Debut + buffer_size + Fin > MAX_PACKET_SIZE
  <2>1. Deborde
    BY <1>4 DEF Envoyer
  <2>2. LongueurCodee > Place
    <3>1. L[src_buffer] \in Nat /\ LongueurCodee \in Nat /\ L[src_buffer] <= LongueurCodee
      BY <1>1, <1>c, PartieCodee
    <3> QED
      BY <1>1, <1>2, <1>3, <1>4, <3>1
  <2> QED
    BY <2>1, <2>2, EDeborde
<1>5. CASE ~(Debut + buffer_size + Fin > MAX_PACKET_SIZE)
  <2>1. ~Plein
    BY <1>1, <1>5, BlocsAssumption DEF Plein, MAX_BUFFER_SIZE, Debut, Fin
  <2>2. bytes_copied = Len(bloc)
    BY <1>1, <2>1 DEF Envoyer
  <2>3. SubSeq(dest_buffer, 1, buffer_size) = dest_buffer
    BY <1>1
  <2>a. PICK p : p = [address |-> address, nb |-> bytes_copied, data |-> dest_buffer]
    OBVIOUS
  <2>4. /\ envois' = Append(envois, p) /\ size' = size - bytes_copied
        /\ UNCHANGED <<bloc, base, src_buffer, etape>>
    BY <1>5, <2>3, <2>a DEF Envoyer
  <2>5. p.address = base /\ p.nb = Len(bloc) /\ p.data = dest_buffer
    BY <1>2, <2>2, <2>a
  <2>6. envois' = <<p>>
    BY <1>1, <2>4
  <2>7. Lu(dest_buffer) = bloc
    <3>1. Len(bloc) \in 0 .. Len(bloc) /\ Len(dest_buffer) = L[Len(bloc)]
      BY <1>1, <1>2, <2>2
    <3>2. \A k \in 1 .. Len(bloc) : Codee(dest_buffer, L, bloc, k)
      BY <1>1, <1>2, <2>2
    <3>3. Lu(dest_buffer) = SubSeq(bloc, 1, Len(bloc))
      BY <1>1, <1>c, <3>1, <3>2, LuDe
    <3>4. SubSeq(bloc, 1, Len(bloc)) = bloc
      BY <1>1
    <3> QED
      BY <3>3, <3>4
  <2>8. LongueurCodee <= Place
    <3>1. LongueurCodee = L[Len(bloc)]
      BY <1>c, CodeeDe, Zenon
    <3>2. LongueurCodee = buffer_size
      BY <1>1, <1>2, <2>2, <3>1
    <3> QED
      BY <1>1, <1>3, <1>5, <3>2
  <2>9. LongueurCodee' = LongueurCodee /\ Place' = Place
    BY <2>4, LongueurStable
  <2>10. Parti'
    <3>1. envois'[1] = p
      BY <2>6
    <3> QED
      BY <1>2, <2>4, <2>5, <2>7, <2>8, <2>9, <3>1 DEF Parti, Neutre
  <2>11. envois' # <<>>
    BY <2>6
  <2>12. EnCopie'
    BY <2>11 DEF EnCopie
  <2> QED
    BY <1>1, <1>2, <2>4, <2>10, <2>12 DEF EInv
<1> QED
  BY <1>4, <1>5

LEMMA EReste ==
  ASSUME EInv, Retour \/ UNCHANGED vars
  PROVE  EInv'
<1>1. UNCHANGED <<bloc, base, address, size, src_buffer, dest_buffer, envois>>
  BY DEF Retour, vars
<1>2. LongueurCodee' = LongueurCodee /\ Place' = Place
  BY <1>1, LongueurStable
<1>3. EnCopie'
  BY <1>1 DEF EInv, EnCopie
<1>4. Parti'
  BY <1>1, <1>2 DEF EInv, Parti, Neutre
<1>5. etape' = "deborde" => etape = "deborde"
  BY DEF Retour, vars
<1>6. etape' = "fini" => size' = 0
  BY <1>1 DEF Retour, vars, EInv
<1> QED
  BY <1>1, <1>2, <1>3, <1>4, <1>5, <1>6 DEF EInv

LEMMA EInvToujours == Spec => [](MInv /\ EInv)
<1>1. MInv /\ EInv /\ [Next]_vars => EInv'
  BY ECopier, EEnvoyer, EReste DEF Next
<1> QED
  BY <1>1, EInit, MInvToujours, PTL DEF Spec

-----------------------------------------------------------------------------
(***************************************************************************)
(* The packets, at most one, and where each begins in the block.           *)
(***************************************************************************)
LEMMA Exacts ==
  ASSUME MInv, EInv
  PROVE  EnvoisExacts
<1> DEFINE avant[k \in 0 .. Len(envois)] ==
        IF k = 0 THEN 0 ELSE avant[k - 1] + envois[k].nb
<1>1. /\ envois \in Seq([address : Int, nb : Nat, data : Seq(Octet)])
      /\ bloc \in Seq(Octet) /\ base \in Bases
      /\ \/ envois = <<>> /\ size = Len(bloc)
         \/ Len(envois) = 1 /\ size = 0
  BY DEF MInv, Compteurs, EInv
<1>0. Len(envois) = 1 => envois[1].nb = Len(bloc)
  <2>1. Len(envois) = 1 => envois # <<>>
    BY <1>1
  <2> QED
    BY <2>1 DEF EInv, Parti
<1>2. \E h : h = [k \in 0 .. Len(envois) |-> IF k = 0 THEN 0 ELSE h[k - 1] + envois[k].nb]
  <2> DEFINE g == [k \in 0 .. Len(envois) |-> IF k = 0 THEN 0 ELSE envois[1].nb]
  <2>0. Len(envois) = 0 \/ Len(envois) = 1
    BY <1>1
  <2>1. \A k \in 0 .. Len(envois) : k = 0 \/ (k = 1 /\ Len(envois) = 1)
    <3>a. PICK m : m = Len(envois)
      OBVIOUS
    <3>1. m = 0 \/ m = 1
      BY <2>0, <3>a
    <3>2. \A k \in 0 .. m : k = 0 \/ (k = 1 /\ m = 1)
      BY <3>1
    <3> QED
      BY <3>2, <3>a
  <2>2. Len(envois) = 1 => envois[1].nb \in Nat
    BY <1>1, <1>0
  <2>3. ASSUME NEW k \in 0 .. Len(envois)
        PROVE  g[k] = IF k = 0 THEN 0 ELSE g[k - 1] + envois[k].nb
    BY <2>1, <2>2
  <2>4. g = [k \in 0 .. Len(envois) |-> g[k]]
    OBVIOUS
  <2> HIDE DEF g
  <2>5. g = [k \in 0 .. Len(envois) |-> IF k = 0 THEN 0 ELSE g[k - 1] + envois[k].nb]
    BY <2>3, <2>4
  <2> QED
    BY <2>5
<1>3. avant = [k \in 0 .. Len(envois) |-> IF k = 0 THEN 0 ELSE avant[k - 1] + envois[k].nb]
  BY <1>2, Zenon DEF avant
<1> HIDE DEF avant
<1>4. avant[0] = 0
  <2>1. 0 \in 0 .. Len(envois)
    BY <1>1
  <2> QED
    BY <1>3, <2>1
<1>5. Len(envois) = 1 => avant[1] = Len(bloc)
  <2> HAVE Len(envois) = 1
  <2>1. 1 \in 0 .. Len(envois)
    OBVIOUS
  <2>2. avant[1] = avant[0] + envois[1].nb
    BY <1>3, <2>1
  <2>3. envois[1].nb = Len(bloc)
    BY <1>0
  <2> QED
    BY <1>1, <1>4, <2>2, <2>3
<1>6. avant[Len(envois)] = Len(bloc) - size
  <2>1. CASE envois = <<>> /\ size = Len(bloc)
    BY <1>1, <1>4, <2>1
  <2>2. CASE Len(envois) = 1 /\ size = 0
    BY <1>1, <1>5, <2>2
  <2> QED
    BY <1>1, <2>1, <2>2
<1>7. ASSUME NEW k \in DOMAIN envois
      PROVE  /\ envois[k].address = (base + avant[k - 1]) % Espace
             /\ Lu(envois[k].data) = SubSeq(bloc, avant[k - 1] + 1, avant[k])
             /\ \A i \in DOMAIN envois[k].data : envois[k].data[i] \notin {36, 35}
  <2>1. k = 1 /\ Len(envois) = 1 /\ envois # <<>>
    BY <1>1
  <2>2. /\ envois[1].address = base /\ Lu(envois[1].data) = bloc
        /\ Neutre(envois[1].data)
    BY <2>1 DEF EInv, Parti
  <2>3. avant[k - 1] = 0 /\ avant[k] = Len(bloc)
    BY <1>4, <1>5, <2>1
  <2>4. (base + 0) % Espace = base
    <3>1. base \in 0 .. Espace - 1
      BY <1>1, BlocsAssumption
    <3> QED
      BY <3>1, BlocsAssumption
  <2>5. SubSeq(bloc, 1, Len(bloc)) = bloc
    BY <1>1
  <2>6. envois[k].address = (base + avant[k - 1]) % Espace
    BY <2>1, <2>2, <2>3, <2>4
  <2>7. Lu(envois[k].data) = SubSeq(bloc, avant[k - 1] + 1, avant[k])
    <3>1. avant[k - 1] + 1 = 1
      BY <2>3
    <3> QED
      BY <2>1, <2>2, <2>3, <2>5, <3>1
  <2> QED
    BY <2>1, <2>2, <2>6, <2>7 DEF Neutre
<1> QED
  BY <1>6, <1>7 DEF EnvoisExacts, avant

(***************************************************************************)
(* For every block, address and size of gdb->packet: what has been sent    *)
(* reads, with its escapes, as the part of the block that is gone, at the  *)
(* address it belongs to, with its number of bytes, and no byte of it      *)
(* begins or ends a packet.                                                *)
(***************************************************************************)
THEOREM EnvoisToujoursExacts == Spec => []EnvoisExacts
BY EInvToujours, Exacts, PTL

LEMMA UnSeul ==
  ASSUME MInv, EInv
  PROVE  UnPaquet
<1>1. etape = "deborde" => LongueurCodee > Place
  BY DEF EInv
<1>2. ASSUME etape = "fini"
      PROVE  LongueurCodee <= Place /\ Len(envois) <= 1
  <2>1. CASE envois = <<>>
    <3>1. bloc \in Seq(Octet) /\ Len(bloc) = 0
      BY <1>2, <2>1 DEF MInv, Compteurs, EInv
    <3>2. LongueurCodee = 0
      <4>1. Longueurs(bloc)[0] = 0
        BY <3>1, LongueursDe
      <4> QED
        BY <3>1, <4>1, CodeeDe, Zenon
    <3>3. 0 <= Place
      BY BlocsAssumption DEF Place, Debut, Fin
    <3> QED
      BY <2>1, <3>2, <3>3
  <2>2. CASE envois # <<>>
    BY <2>2 DEF MInv, EInv, Parti, Tient
  <2> QED
    BY <2>1, <2>2
<1> QED
  BY <1>1, <1>2 DEF UnPaquet

(***************************************************************************)
(* For every block, address and size of gdb->packet: what is written       *)
(* behind gdb->packet is a block whose code does not fit one packet, and   *)
(* a block that was sent to its end did fit and went in one packet, or in  *)
(* none when it is empty.                                                  *)
(***************************************************************************)
THEOREM UnPaquetToujours == Spec => []UnPaquet
BY EInvToujours, UnSeul, PTL
=============================================================================
