--------------------------- MODULE ScannerProofs ---------------------------
(***************************************************************************)
(* For every stream, every size of the buffers and every way read(2) cuts  *)
(* the stream: yylex keeps to yy_ch_buf and to the error buffer, the texts *)
(* of its tokens are the bytes of the stream, one behind the other, it     *)
(* never waits for more while it holds a token, and it complains about     *)
(* what no rule matches, no less and no more.                              *)
(***************************************************************************)
EXTENDS Scanner, TLAPS, FiniteSetTheorems

Finals == {3, 4, 5, 6, 7, 8, 12}   \* the states that accept

Etats == (1 .. 13) \ {2}

-----------------------------------------------------------------------------
(***************************************************************************)
(* The entries of the tables.                                              *)
(***************************************************************************)
LEMMA Acceptations ==
  /\ \A q \in Etats : yy_accept[q] # 0 <=> q \in Finals
  /\ \A q \in Etats : yy_accept[q] = 6 <=> q = 3
BY SMT DEF yy_accept, DepuisZero, Finals, Etats

LEMMA Regles ==
  /\ yy_accept[3] = 6 /\ yy_accept[4] = 4 /\ yy_accept[5] = 5 /\ yy_accept[6] = 4
  /\ yy_accept[7] = 1 /\ yy_accept[8] = 2 /\ yy_accept[12] = 3
BY SMT DEF yy_accept, DepuisZero

LEMMA Bases ==
  /\ yy_base[1] = 0 /\ yy_base[3] = 13 /\ yy_base[6] = 9 /\ yy_base[9] = 8
  /\ yy_base[10] = 3 /\ yy_base[11] = 2 /\ yy_base[14] = 7
  /\ \A q \in {4, 5, 7, 8, 12, 13} : yy_base[q] = 14
BY SMT DEF yy_base, DepuisZero

LEMMA Defauts ==
  /\ yy_def[6] = 14 /\ yy_def[9] = 14
  /\ \A q \in {1, 3, 4, 5, 7, 8, 10, 11, 12, 14} : yy_def[q] = 13
BY SMT DEF yy_def, DepuisZero

LEMMA Verifications ==
  /\ yy_chk[0] = 0 /\ \A k \in 1 .. 7 : yy_chk[k] = 1
  /\ yy_chk[8] = 14 /\ yy_chk[9] = 11 /\ yy_chk[10] = 10 /\ yy_chk[11] = 9
  /\ yy_chk[12] = 6 /\ yy_chk[13] = 3 /\ \A k \in 14 .. 21 : yy_chk[k] = 13
BY SMT DEF yy_chk, DepuisZero

LEMMA Suivants ==
  /\ yy_nxt[0] = 0 /\ yy_nxt[1] = 4 /\ yy_nxt[2] = 5 /\ yy_nxt[3] = 4
  /\ yy_nxt[4] = 6 /\ yy_nxt[5] = 7 /\ yy_nxt[6] = 8 /\ yy_nxt[7] = 4
  /\ yy_nxt[8] = 9 /\ yy_nxt[9] = 12 /\ yy_nxt[10] = 11 /\ yy_nxt[11] = 10
  /\ yy_nxt[12] = 10 /\ yy_nxt[13] = 13 /\ yy_nxt[14] = 3
  /\ \A k \in 15 .. 21 : yy_nxt[k] = 13
BY SMT DEF yy_nxt, DepuisZero

LEMMA Metas ==
  yy_meta[0] = 0 /\ yy_meta[4] = 2 /\ \A c \in Classe \ {0, 4} : yy_meta[c] = 1
BY SMT DEF yy_meta, DepuisZero, Classe

(***************************************************************************)
(* The loop over the tables takes no turn, one or two.                     *)
(***************************************************************************)
LEMMA SansSaut ==
  ASSUME NEW q, NEW c, yy_chk[yy_base[q] + c] = q
  PROVE  Suivant(q, c) = yy_nxt[yy_base[q] + c]
BY DEF Suivant, Saut

LEMMA UnSaut ==
  ASSUME NEW q, NEW c, NEW r, NEW k,
         yy_chk[yy_base[q] + c] # q,
         r = yy_def[q], k = IF r >= 14 THEN yy_meta[c] ELSE c,
         yy_chk[yy_base[r] + k] = r
  PROVE  Suivant(q, c) = yy_nxt[yy_base[r] + k]
<1>1. Saut([q |-> q, c |-> c]) = [q |-> r, c |-> k]
  BY DEF Saut
<1>2. Saut([q |-> r, c |-> k]) = [q |-> r, c |-> k]
  BY DEF Saut
<1> QED  BY <1>1, <1>2 DEF Suivant

LEMMA DeuxSauts ==
  ASSUME NEW q, NEW c, NEW r, NEW k,
         yy_chk[yy_base[q] + c] # q,
         r = yy_def[q], k = IF r >= 14 THEN yy_meta[c] ELSE c,
         yy_chk[yy_base[r] + k] # r, yy_def[r] = 13
  PROVE  Suivant(q, c) = yy_nxt[yy_base[13] + k]
<1>1. Saut([q |-> q, c |-> c]) = [q |-> r, c |-> k]
  BY DEF Saut
<1>2. Saut([q |-> r, c |-> k]) = [q |-> 13, c |-> k]
  BY DEF Saut
<1> QED  BY <1>1, <1>2 DEF Suivant

(***************************************************************************)
(* The automaton they stand for: from the first character, inside a        *)
(* packet, and from the states nothing leads out of.  A NUL always leads   *)
(* to state 3, but from state 3.                                           *)
(***************************************************************************)
LEMMA SansSuite ==
  \A c \in Classe :
    /\ \A q \in {4, 5, 7, 8, 12, 13} : Suivant(q, c) = IF c = NUL THEN 3 ELSE 13
    /\ Suivant(3, c) = 13
<1> SUFFICES ASSUME NEW c \in 0 .. 7
             PROVE  /\ \A q \in {4, 5, 7, 8, 12, 13} : Suivant(q, c) = IF c = 0 THEN 3 ELSE 13
                    /\ Suivant(3, c) = 13
  BY DEF Classe, NUL
<1>1. /\ yy_base[13] = 14 /\ yy_chk[yy_base[13] + c] = 13
      /\ yy_nxt[yy_base[13] + c] = IF c = 0 THEN 3 ELSE 13
  BY Bases, Verifications, Suivants
<1>2. Suivant(13, c) = IF c = 0 THEN 3 ELSE 13
  BY <1>1, SansSaut
<1>3. ASSUME NEW q \in {4, 5, 7, 8, 12} PROVE Suivant(q, c) = IF c = 0 THEN 3 ELSE 13
  <2>1. yy_chk[yy_base[q] + c] # q /\ yy_def[q] = 13
    BY <1>1, <1>3, Bases, Defauts
  <2> QED  BY <1>1, <2>1, UnSaut
<1>4. Suivant(3, c) = 13
  <2>1. CASE c = 0
    <3>1. yy_chk[yy_base[3] + c] = 3 /\ yy_nxt[yy_base[3] + c] = 13
      BY <2>1, Bases, Verifications, Suivants
    <3> QED  BY <3>1, SansSaut
  <2>2. CASE c # 0
    <3>1. yy_chk[yy_base[3] + c] # 3 /\ yy_def[3] = 13
      BY <2>2, Bases, Defauts, Verifications
    <3> QED  BY <1>1, <2>2, <3>1, UnSaut
  <2> QED  BY <2>1, <2>2
<1> QED  BY <1>2, <1>3, <1>4

LEMMA DuDebut ==
  /\ Suivant(1, NUL) = 3 /\ Suivant(1, 1) = 4 /\ Suivant(1, Ligne) = 5
  /\ Suivant(1, Diese) = 4 /\ Suivant(1, Dollar) = 6 /\ Suivant(1, Plus) = 7
  /\ Suivant(1, Moins) = 8 /\ Suivant(1, Hexa) = 4
<1>1. Suivant(1, 0) = 3
  <2>1. yy_chk[yy_base[1] + 0] # 1 /\ yy_def[1] = 13
    BY Bases, Defauts, Verifications
  <2>2. yy_chk[yy_base[13] + 0] = 13 /\ yy_nxt[yy_base[13] + 0] = 3
    BY Bases, Verifications, Suivants
  <2> QED  BY <2>1, <2>2, UnSaut
<1>2. ASSUME NEW c \in 1 .. 7 PROVE Suivant(1, c) = yy_nxt[c]
  <2>1. yy_base[1] + c = c /\ yy_chk[c] = 1
    BY Bases, Verifications
  <2> QED  BY <2>1, SansSaut
<1> QED  BY <1>1, <1>2, Suivants DEF NUL, Ligne, Diese, Dollar, Plus, Moins, Hexa

LEMMA DansLePaquet ==
  \A c \in Classe :
    /\ \A q \in {6, 9} :
         Suivant(q, c) = IF c = NUL THEN 3 ELSE IF c = Dollar THEN 13
                         ELSE IF c = Diese THEN 10 ELSE 9
    /\ Suivant(10, c) = IF c = NUL THEN 3 ELSE IF c = Hexa THEN 11 ELSE 13
    /\ Suivant(11, c) = IF c = NUL THEN 3 ELSE IF c = Hexa THEN 12 ELSE 13
<1> SUFFICES ASSUME NEW c \in 0 .. 7
             PROVE  /\ \A q \in {6, 9} :
                         Suivant(q, c) = IF c = 0 THEN 3 ELSE IF c = 4 THEN 13
                                         ELSE IF c = 3 THEN 10 ELSE 9
                    /\ Suivant(10, c) = IF c = 0 THEN 3 ELSE IF c = 7 THEN 11 ELSE 13
                    /\ Suivant(11, c) = IF c = 0 THEN 3 ELSE IF c = 7 THEN 12 ELSE 13
  BY DEF Classe, NUL, Diese, Dollar, Hexa
<1>1. /\ yy_chk[yy_base[13] + c] = 13
      /\ yy_nxt[yy_base[13] + c] = IF c = 0 THEN 3 ELSE 13
  BY Bases, Verifications, Suivants
<1>2. ASSUME NEW q \in {6, 9}
      PROVE  Suivant(q, c) = IF c = 0 THEN 3 ELSE IF c = 4 THEN 13
                             ELSE IF c = 3 THEN 10 ELSE 9
  <2>1. CASE c = 3
    <3>1. yy_chk[yy_base[q] + c] = q /\ yy_nxt[yy_base[q] + c] = 10
      BY <1>2, <2>1, Bases, Verifications, Suivants
    <3> QED  BY <2>1, <3>1, SansSaut
  <2>2. CASE c # 3
    <3>1. yy_chk[yy_base[q] + c] # q /\ yy_def[q] = 14
      BY <1>2, <2>2, Bases, Verifications, Defauts
    <3>2. yy_meta[c] = IF c = 0 THEN 0 ELSE IF c = 4 THEN 2 ELSE 1
      BY Metas DEF Classe
    <3>3. CASE c = 0 \/ c = 4
      <4>1. yy_chk[yy_base[14] + yy_meta[c]] # 14 /\ yy_def[14] = 13
        BY <3>2, <3>3, Bases, Verifications, Defauts
      <4>2. yy_nxt[yy_base[13] + yy_meta[c]] = IF c = 0 THEN 3 ELSE 13
        BY <3>2, <3>3, Bases, Suivants
      <4> QED  BY <2>2, <3>1, <3>3, <4>1, <4>2, DeuxSauts
    <3>4. CASE ~(c = 0 \/ c = 4)
      <4>1. yy_chk[yy_base[14] + yy_meta[c]] = 14 /\ yy_nxt[yy_base[14] + yy_meta[c]] = 9
        BY <3>2, <3>4, Bases, Verifications, Suivants
      <4> QED  BY <2>2, <3>1, <3>4, <4>1, UnSaut
    <3> QED  BY <3>3, <3>4
  <2> QED  BY <2>1, <2>2
<1>3. ASSUME NEW q \in {10, 11}
      PROVE  Suivant(q, c) = IF c = 0 THEN 3 ELSE IF c = 7 THEN q + 1 ELSE 13
  <2>1. CASE c = 7
    <3>1. yy_chk[yy_base[q] + c] = q /\ yy_nxt[yy_base[q] + c] = q + 1
      BY <1>3, <2>1, Bases, Verifications, Suivants
    <3> QED  BY <2>1, <3>1, SansSaut
  <2>2. CASE c # 7
    <3>1. yy_chk[yy_base[q] + c] # q /\ yy_def[q] = 13
      BY <1>3, <2>2, Bases, Verifications, Defauts
    <3> QED  BY <1>1, <2>2, <3>1, UnSaut
  <2> QED  BY <2>1, <2>2
<1> QED  BY <1>2, <1>3

LEMMA Transitions ==
  ASSUME NEW q \in Etats, NEW c \in Classe
  PROVE  /\ Suivant(q, c) \in Etats \ {1}
         /\ Suivant(q, c) = 3 => c = NUL
         /\ c = NUL => Suivant(q, c) \in {3, 13}
         /\ c = NUL /\ q # 3 => Suivant(q, c) = 3
         /\ q = 1 => Suivant(q, c) \in Finals
         /\ q = 3 => Suivant(q, c) = 13
         /\ q = 1 /\ c = 1 => Suivant(q, c) # Jam
BY SMT, DuDebut, DansLePaquet, SansSuite
DEF Etats, Classe, Finals, Jam, NUL, Ligne, Diese, Dollar, Plus, Moins, Hexa

-----------------------------------------------------------------------------
(***************************************************************************)
(* Where the automaton may stop: state q, reached in front of place p, has *)
(* a rule to obey.  Only the end of the buffer may be met one place behind *)
(* what was read.                                                          *)
(***************************************************************************)
Arret(q, p) ==
  /\ q \in Finals /\ yytext < p
  /\ p <= Len(tampon) + 1 /\ (q # 3 => p <= Len(tampon))

(***************************************************************************)
(* While a token is scanned: a state that accepts nothing has behind it    *)
(* one that did, in this token.                                            *)
(***************************************************************************)
EnJeton ==
  /\ yy_current_state \in Etats /\ yytext <= yy_cp
  /\ yy_current_state = 1 <=> yy_cp = yytext
  /\ yy_current_state \in Finals => Arret(yy_current_state, yy_cp)
  /\ yy_current_state \notin Finals \union {1} =>
       Arret(yy_last_accepting_state, yy_last_accepting_cpos)

Balayage == pc \in {"automate", "action", "relecture"} => EnJeton

(***************************************************************************)
(* The character at the last place is a NUL; what yy_c_buf_p is from one   *)
(* part of yylex to the next.                                              *)
(***************************************************************************)
Lecture ==
  /\ pc = "automate" /\ yy_cp > Len(tampon) => yy_current_state = 3
  /\ pc = "action" => yy_current_state # 1
  /\ pc = "lecture" => yy_c_buf_p = Len(tampon) + 1
  /\ pc = "relecture" =>
       /\ yy_current_state # 3 /\ yy_cp <= yy_c_buf_p /\ yy_c_buf_p <= Len(tampon)
       /\ reprise = "nul" => yy_c_buf_p < Len(tampon)
       /\ reprise = "find" => yytext < yy_c_buf_p
  /\ pc \in {"neuf", "repos"} => yy_c_buf_p = yytext
  /\ pc = "neuf" => tampon = <<>>

IInv == TypeOK /\ Balayage /\ Lecture

-----------------------------------------------------------------------------
LEMMA Initialement == Init => IInv
<1> SUFFICES ASSUME Init PROVE IInv
  OBVIOUS
<1> USE ScannerAssumption
<1>1. TypeOK
  <2>1. flot \in Seq(Classe) /\ lus \in 0 .. Len(flot)
    BY DEF Init
  <2>2. tampon \in Seq(Classe) /\ Len(tampon) = 0
    BY DEF Init
  <2>3. 0 \in 0 .. MAX_ERROR_SIZE - 1
    OBVIOUS
  <2>4. yy_buf_size \in Nat /\ Len(tampon) <= yy_buf_size /\ Len(tampon) <= lus
    BY <2>2 DEF Init
  <2>5. /\ yytext \in 0 .. Len(tampon) /\ yy_cp \in Nat /\ yy_c_buf_p \in Nat
        /\ yy_current_state \in 1 .. 13 /\ yy_last_accepting_state \in 0 .. 12
        /\ yy_last_accepting_cpos \in Nat /\ len \in 0 .. MAX_ERROR_SIZE - 1
    BY <2>2, <2>3 DEF Init
  <2> QED  BY <2>1, <2>2, <2>4, <2>5 DEF Init, TypeOK, Lieux
<1>2. Balayage /\ Lecture
  BY DEF Init, Balayage, Lecture, EnCours
<1> QED  BY <1>1, <1>2 DEF IInv

(***************************************************************************)
(* The byte the automaton looks at.                                        *)
(***************************************************************************)
LEMMA OctetLu ==
  ASSUME TypeOK, NEW i \in Nat
  PROVE  /\ Octet(i) \in Classe /\ OctetNonNul(i) \in Classe \ {NUL}
         /\ i >= Len(tampon) => Octet(i) = NUL
<1>1. CASE i < Len(tampon)
  <2>1. tampon[i + 1] \in Classe
    BY <1>1 DEF TypeOK
  <2> QED  BY <1>1, <2>1 DEF Octet, OctetNonNul, yy_n_chars, Classe, NUL
<1>2. CASE ~ (i < Len(tampon))
  BY <1>2 DEF Octet, OctetNonNul, yy_n_chars, Classe, NUL
<1> QED  BY <1>1, <1>2

(***************************************************************************)
(* One character: the state before it is remembered when it accepts.       *)
(***************************************************************************)
LEMMA UnCaractere ==
  ASSUME TypeOK, EnJeton, NEW c \in Classe, NEW p \in Nat, p = yy_cp,
         Memorise(p), yy_current_state' = Suivant(yy_current_state, c), yy_cp' = p + 1,
         tampon' = tampon, yytext' = yytext,
         p >= Len(tampon) => c = NUL, p > Len(tampon) => yy_current_state = 3
  PROVE  /\ EnJeton' /\ yy_current_state' # 1
         /\ yy_last_accepting_state' \in 0 .. 12 /\ yy_last_accepting_cpos' \in Nat
<1>1. PICK q \in Etats : q = yy_current_state
  BY DEF EnJeton
<1>2. PICK n \in Nat : n = Len(tampon)
  BY DEF TypeOK
<1>3. PICK r : r = yy_current_state'
  OBVIOUS
<1>4. /\ r \in Etats \ {1} /\ (r = 3 => c = NUL) /\ (c = NUL => r \in {3, 13})
      /\ q = 1 => r \in Finals
      /\ q = 3 => r = 13
  BY <1>1, <1>3, Transitions
<1>5. yytext \in Nat /\ yytext <= p
  BY DEF TypeOK, EnJeton
<1>6. r \in Finals => /\ p + 1 <= n + 1 /\ (r # 3 => p + 1 <= n)
  BY <1>1, <1>2, <1>4, <1>5 DEF Finals
<1>7. r \in Finals => Arret(r, p + 1)'
  BY <1>2, <1>5, <1>6 DEF Arret
<1>8. CASE q \in Finals
  <2>1. yy_last_accepting_state' = q /\ yy_last_accepting_cpos' = p
    BY <1>1, <1>8, Acceptations DEF Memorise
  <2>2. Arret(q, p)
    BY <1>1, <1>8 DEF EnJeton
  <2>3. Arret(q, p)' /\ q \in 0 .. 12
    BY <2>2, <1>8 DEF Arret, Finals
  <2> QED  BY <1>3, <1>4, <1>5, <1>7, <2>1, <2>3 DEF EnJeton
<1>9. CASE q \notin Finals
  <2>1. /\ yy_last_accepting_state' = yy_last_accepting_state
        /\ yy_last_accepting_cpos' = yy_last_accepting_cpos
    BY <1>1, <1>9, Acceptations DEF Memorise
  <2>2. /\ yy_last_accepting_state' \in 0 .. 12 /\ yy_last_accepting_cpos' \in Nat
    BY <2>1 DEF TypeOK
  <2>3. r \notin Finals => Arret(yy_last_accepting_state, yy_last_accepting_cpos)'
    BY <1>1, <1>4, <1>9, <2>1 DEF Arret, EnJeton
  <2> QED  BY <1>3, <1>4, <1>5, <1>7, <2>2, <2>3 DEF EnJeton
<1> QED  BY <1>8, <1>9

-----------------------------------------------------------------------------
(***************************************************************************)
(* Every action of yylex keeps the invariant.                              *)
(***************************************************************************)
LEMMA AutomateConserve ==
  ASSUME IInv, Automate
  PROVE  IInv'
<1>1. /\ pc = "automate" /\ UNCHANGED <<flux, yy_buffer_state, yytext, yy_c_buf_p, reprise, retour, parser_data>>
      /\ yy_cp' = yy_cp + 1 /\ Memorise(yy_cp)
      /\ yy_current_state' = Suivant(yy_current_state, Octet(yy_cp))
      /\ pc' = IF yy_base[yy_current_state'] # SansIssue THEN "automate" ELSE "action"
  BY DEF Automate
<1>2. /\ TypeOK /\ EnJeton /\ yy_cp \in Nat /\ Len(tampon) \in Nat
      /\ yy_cp > Len(tampon) => yy_current_state = 3
  BY <1>1 DEF IInv, TypeOK, Balayage, Lecture
<1>3. PICK c \in Classe : c = Octet(yy_cp) /\ (yy_cp >= Len(tampon) => c = NUL)
  BY <1>2, OctetLu
<1>4. /\ EnJeton' /\ yy_current_state' # 1
      /\ yy_last_accepting_state' \in 0 .. 12 /\ yy_last_accepting_cpos' \in Nat
  BY <1>1, <1>2, <1>3, UnCaractere DEF yy_buffer_state
<1>5. pc' = "automate" => /\ yy_cp' <= Len(tampon) + 1
                          /\ yy_cp' > Len(tampon) => yy_current_state' = 3
  <2>1. SUFFICES ASSUME pc' = "automate", yy_cp >= Len(tampon)
                 PROVE  yy_cp = Len(tampon) /\ yy_current_state' = 3
    BY <1>1, <1>2
  <2>2. yy_current_state' # 13
    BY <1>1, <2>1, Bases DEF SansIssue
  <2>3. yy_current_state \in Etats /\ c = NUL
    BY <1>2, <1>3, <2>1 DEF EnJeton
  <2>4. yy_current_state' = 3 /\ yy_current_state # 3
    BY <1>1, <1>3, <2>2, <2>3, Transitions
  <2> QED  BY <1>2, <2>1, <2>4
<1>6. TypeOK'
  <2>1. yy_current_state' \in 1 .. 13
    BY <1>4 DEF EnJeton, Etats
  <2>2. pc' \in {"automate", "action"}
    BY <1>1
  <2> QED
    BY <1>1, <1>2, <1>4, <1>5, <2>1, <2>2
    DEF TypeOK, flux, yy_buffer_state, parser_data, Lieux
<1>7. Balayage'
  BY <1>4 DEF Balayage
<1>8. Lecture'
  BY <1>1, <1>4, <1>5 DEF Lecture, yy_buffer_state
<1> QED  BY <1>6, <1>7, <1>8 DEF IInv

LEMMA ReculeConserve ==
  ASSUME IInv, Recule
  PROVE  IInv'
<1>1. /\ pc = "action" /\ yy_accept[yy_current_state] = 0
      /\ yy_cp' = yy_last_accepting_cpos /\ yy_current_state' = yy_last_accepting_state
      /\ UNCHANGED <<flux, yy_buffer_state, yytext, yy_c_buf_p, yy_last_accepting_state,
                     yy_last_accepting_cpos, reprise, pc, retour, parser_data>>
  BY DEF Recule
<1>2. TypeOK /\ EnJeton /\ yy_current_state \in Etats \ {1}
  BY <1>1 DEF IInv, Balayage, Lecture, EnJeton
<1>3. yy_current_state \notin Finals
  BY <1>1, <1>2, Acceptations
<1>4. Arret(yy_last_accepting_state, yy_last_accepting_cpos)
  BY <1>2, <1>3 DEF EnJeton
<1>5. /\ yy_current_state' \in Finals /\ yytext < yy_cp' /\ Arret(yy_current_state, yy_cp)'
  BY <1>1, <1>4 DEF Arret, yy_buffer_state
<1>6. EnJeton'
  <2>1. yytext \in Nat /\ yy_cp' \in Nat /\ yytext' = yytext
    BY <1>1, <1>2 DEF TypeOK
  <2>2. yy_current_state' \in Etats /\ yy_current_state' # 1
    BY <1>5 DEF Finals, Etats
  <2> QED  BY <1>5, <2>1, <2>2 DEF EnJeton
<1>7. TypeOK'
  <2>1. yy_current_state' \in 1 .. 13
    BY <1>5 DEF Finals
  <2> QED  BY <1>1, <1>2, <2>1 DEF TypeOK, flux, yy_buffer_state, parser_data
<1>8. Balayage' /\ Lecture'
  BY <1>1, <1>5, <1>6 DEF Balayage, Lecture, Finals
<1> QED  BY <1>7, <1>8 DEF IInv
(***************************************************************************)
(* A new token begins where the last one ended.                            *)
(***************************************************************************)
LEMMA RegleConserve ==
  ASSUME IInv, NEW r \in 1 .. 5, Regle(r), DebutJeton(yy_cp),
         pc' \in {"automate", "repos"}, retour' \in {"aucun", "PACKET", "EOF"},
         len' \in 0 .. MAX_ERROR_SIZE - 1
  PROVE  IInv'
<1>1. /\ pc = "action" /\ yy_accept[yy_current_state] = r
      /\ yy_c_buf_p' = yy_cp /\ UNCHANGED <<flux, yy_buffer_state>>
      /\ yytext' = yy_cp /\ yy_cp' = yy_cp /\ yy_current_state' = 1
      /\ UNCHANGED <<yy_last_accepting_state, yy_last_accepting_cpos, reprise>>
  BY DEF Regle, DebutJeton
<1>2. TypeOK /\ EnJeton /\ yy_cp \in Nat /\ Len(tampon) \in Nat
  BY <1>1 DEF IInv, Balayage, TypeOK
<1>3. yy_current_state \in Finals /\ yy_current_state # 3
  BY <1>1, <1>2, Acceptations DEF EnJeton
<1>4. yy_cp <= Len(tampon)
  BY <1>2, <1>3 DEF EnJeton, Arret
<1>5. TypeOK'
  BY <1>1, <1>2, <1>4 DEF TypeOK, flux, yy_buffer_state, Lieux
<1>6. EnJeton'
  BY <1>1, <1>2 DEF EnJeton, Etats, Finals
<1>7. Balayage' /\ Lecture'
  BY <1>1, <1>2, <1>4, <1>6 DEF Balayage, Lecture, yy_buffer_state
<1> QED  BY <1>5, <1>7 DEF IInv

LEMMA ReglesConservent ==
  ASSUME IInv,
         RegleAccuse \/ RegleDemande \/ ReglePaquet \/ RegleErreur \/ RegleEcho
  PROVE  IInv'
<1>1. /\ retour \in {"aucun", "PACKET", "EOF"} /\ MAX_ERROR_SIZE \in Nat
      /\ MAX_ERROR_SIZE >= 2 /\ len \in 0 .. MAX_ERROR_SIZE - 1
  BY ScannerAssumption DEF IInv, TypeOK
<1>2. CASE RegleAccuse
  BY <1>1, <1>2, RegleConserve DEF RegleAccuse
<1>3. CASE RegleDemande
  BY <1>1, <1>3, RegleConserve DEF RegleDemande
<1>4. CASE ReglePaquet
  <2>1. Regle(3) /\ DebutJeton(yy_cp) /\ len' = 0
    BY <1>4 DEF ReglePaquet
  <2>2. pc' \in {"automate", "repos"} /\ retour' \in {"aucun", "PACKET", "EOF"}
    BY <1>1, <1>4 DEF ReglePaquet
  <2> QED  BY <1>1, <2>1, <2>2, RegleConserve
<1>5. CASE RegleErreur
  <2>1. Regle(4) /\ DebutJeton(yy_cp) /\ pc' = "automate" /\ retour' = retour
    BY <1>5 DEF RegleErreur
  <2>2. len' \in 0 .. MAX_ERROR_SIZE - 1
    BY <1>1, <1>5 DEF RegleErreur, Plein
  <2> QED  BY <1>1, <2>1, <2>2, RegleConserve
<1>6. CASE RegleEcho
  BY <1>1, <1>6, RegleConserve DEF RegleEcho
<1> QED  BY <1>2, <1>3, <1>4, <1>5, <1>6

(***************************************************************************)
(* State 3 in front of the end of what was read has met a NUL of the       *)
(* stream; otherwise the buffer is used up, and the scan stands one place  *)
(* behind it.                                                              *)
(***************************************************************************)
LEMMA FinTamponConserve ==
  ASSUME IInv, VraiNul \/ TamponVide
  PROVE  IInv'
<1>1. /\ pc = "action" /\ yy_accept[yy_current_state] = 6
      /\ UNCHANGED <<flux, tampon, yy_buf_size, yytext, yy_last_accepting_state,
                     yy_last_accepting_cpos, retour, parser_data>>
      /\ yy_buffer_status' = IF yy_buffer_status = "neuf" THEN "normal" ELSE yy_buffer_status
  BY DEF VraiNul, TamponVide, FinTampon
<1>2. TypeOK /\ EnJeton /\ yy_cp \in Nat /\ Len(tampon) \in Nat /\ yytext \in Nat
  BY <1>1 DEF IInv, Balayage, TypeOK
<1>3. Arret(3, yy_cp) /\ yy_current_state = 3
  BY <1>1, <1>2, Acceptations DEF EnJeton, Finals
<1>4. yytext < yy_cp /\ yy_cp <= Len(tampon) + 1
  BY <1>3 DEF Arret
<1>5. yy_buffer_status' \in {"neuf", "normal", "fin"}
  BY <1>1, <1>2 DEF TypeOK
<1>6. CASE VraiNul
  <2>1. /\ yy_cp <= Len(tampon) /\ yy_c_buf_p' = yy_cp - 1
        /\ pc' = "relecture" /\ reprise' = "nul"
        /\ yy_cp' = yytext /\ yy_current_state' = 1
    BY <1>6 DEF VraiNul, FinTampon, yy_n_chars
  <2>2. TypeOK'
    BY <1>1, <1>2, <1>4, <1>5, <2>1 DEF TypeOK, flux, parser_data, Lieux
  <2>3. EnJeton'
    BY <1>1, <1>2, <2>1 DEF EnJeton, Etats, Finals
  <2>4. Balayage' /\ Lecture'
    BY <1>1, <1>2, <1>4, <2>1, <2>3 DEF Balayage, Lecture
  <2> QED  BY <2>2, <2>4 DEF IInv
<1>7. CASE TamponVide
  <2>1. /\ yy_cp > Len(tampon) /\ yy_c_buf_p' = yy_cp /\ pc' = "lecture"
        /\ UNCHANGED <<yy_cp, yy_current_state, reprise>>
    BY <1>2, <1>7 DEF TamponVide, FinTampon, yy_n_chars
  <2>2. TypeOK'
    BY <1>1, <1>2, <1>5, <2>1 DEF TypeOK, flux, parser_data, Lieux
  <2>3. Balayage' /\ Lecture'
    BY <1>1, <1>2, <1>4, <2>1 DEF Balayage, Lecture
  <2> QED  BY <2>2, <2>3 DEF IInv
<1> QED  BY <1>6, <1>7
(***************************************************************************)
(* What stands in the buffer after read(2) returned k bytes.               *)
(***************************************************************************)
LEMMA DeplaceExact ==
  ASSUME TypeOK, yy_c_buf_p = Len(tampon) + 1, NEW k \in Nat, lus + k <= Len(flot)
  PROVE  /\ number_to_move = Len(tampon) - yytext /\ number_to_move \in 0 .. Len(tampon)
         /\ Deplace(k) \in Seq(Classe) /\ Len(Deplace(k)) = number_to_move + k
<1>1. PICK m : m = number_to_move
  OBVIOUS
<1>2. /\ m = Len(tampon) - yytext /\ m \in 0 .. Len(tampon)
      /\ Len(tampon) \in Nat /\ yytext \in 0 .. Len(tampon)
      /\ lus \in Nat /\ Len(flot) \in Nat
      /\ tampon \in Seq(Classe) /\ flot \in Seq(Classe)
  BY <1>1, ScannerAssumption DEF TypeOK, number_to_move
<1>3. ASSUME NEW i \in 1 .. m + k
      PROVE  (IF i <= m THEN tampon[yytext + i] ELSE flot[lus + i - m]) \in Classe
  <2>1. CASE i <= m
    <3>1. yytext + i \in 1 .. Len(tampon)
      BY <1>2, <2>1
    <3>2. tampon[yytext + i] \in Classe
      BY <1>2, <3>1
    <3> QED  BY <2>1, <3>2
  <2>2. CASE ~ (i <= m)
    <3>1. lus + i - m \in 1 .. Len(flot)
      BY <1>2, <2>2
    <3>2. flot[lus + i - m] \in Classe
      BY <1>2, <3>1
    <3> QED  BY <2>2, <3>2
  <2> QED  BY <2>1, <2>2
<1>4. Deplace(k) = [i \in 1 .. m + k |-> IF i <= m THEN tampon[yytext + i] ELSE flot[lus + i - m]]
  BY <1>1 DEF Deplace
<1>5. m + k \in Nat
  BY <1>2
<1>6. Deplace(k) \in Seq(Classe) /\ Len(Deplace(k)) = m + k
  BY <1>3, <1>4, <1>5
<1> QED  BY <1>1, <1>2, <1>6

LEMMA RelectureConserve ==
  ASSUME IInv, pc = "lecture", NEW k \in Nat, Relecture(k),
         lus' = lus + k, lus + k <= Len(flot),
         number_to_move + k <= yy_buf_size, k = 0 => number_to_move > 0,
         yy_buffer_status' \in {"neuf", "normal", "fin"}
  PROVE  IInv'
<1>1. TypeOK /\ yy_c_buf_p = Len(tampon) + 1
  BY DEF IInv, Lecture
<1>2. PICK m : m = number_to_move
  OBVIOUS
<1>3. /\ m \in 0 .. Len(tampon) /\ Deplace(k) \in Seq(Classe) /\ Len(Deplace(k)) = m + k
  BY <1>1, <1>2, DeplaceExact
<1>4. /\ tampon' = Deplace(k) /\ yytext' = 0 /\ yy_cp' = 0 /\ yy_current_state' = 1
      /\ yy_c_buf_p' = m /\ pc' = "relecture" /\ reprise' = Reprend(k)
      /\ UNCHANGED <<flot, clos, yy_buf_size, yy_last_accepting_state,
                     yy_last_accepting_cpos, retour, parser_data>>
  BY <1>2 DEF Relecture
<1>5. PICK n \in Nat : n = Len(tampon)
  BY <1>1 DEF TypeOK
<1>6. PICK n1 : n1 = Len(tampon')
  OBVIOUS
<1>7. n1 = m + k /\ m \in 0 .. n /\ n <= lus /\ lus \in Nat
  BY <1>1, <1>3, <1>4, <1>5, <1>6 DEF TypeOK
<1>8. /\ reprise' \in {"match", "find"}
      /\ reprise' = "find" => 0 < m
  BY <1>2, <1>4 DEF Reprend
<1>9. TypeOK'
  <2>1. /\ tampon' \in Seq(Classe) /\ Len(tampon') <= yy_buf_size' /\ Len(tampon') <= lus'
        /\ yytext' \in 0 .. Len(tampon') /\ lus' \in 0 .. Len(flot')
    BY <1>1, <1>2, <1>3, <1>4, <1>6, <1>7 DEF TypeOK
  <2>2. yy_c_buf_p' \in Nat /\ yy_cp' \in Nat /\ yy_current_state' \in 1 .. 13
    BY <1>4, <1>7
  <2> QED
    BY <1>1, <1>4, <1>8, <2>1, <2>2 DEF TypeOK, parser_data, Lieux
<1>10. EnJeton'
  BY <1>4 DEF EnJeton, Etats, Finals
<1>11. Balayage' /\ Lecture'
  BY <1>4, <1>6, <1>7, <1>8, <1>10 DEF Balayage, Lecture
<1> QED  BY <1>9, <1>11 DEF IInv

LEMMA LectureConserve ==
  ASSUME IInv, Lit \/ DernierJeton \/ Agrandit \/ FinFlot
  PROVE  IInv'
<1>1. TypeOK /\ pc = "lecture" /\ yy_c_buf_p = Len(tampon) + 1
  <2>1. pc = "lecture"
    BY DEF Lit, DernierJeton, Agrandit, FinFlot, Epuise
  <2> QED  BY <2>1 DEF IInv, Lecture
<1>2. /\ lus \in 0 .. Len(flot) /\ Len(tampon) \in Nat /\ Len(tampon) <= yy_buf_size
      /\ Len(flot) \in Nat /\ yy_buf_size \in Nat
      /\ yy_buffer_status \in {"neuf", "normal", "fin"}
  BY <1>1, ScannerAssumption DEF TypeOK
<1>3. number_to_move \in 0 .. Len(tampon)
  BY <1>1, <1>2, DeplaceExact
<1>4. CASE Lit
  <2>1. PICK k \in 1 .. YY_READ_BUF_SIZE :
          k <= num_to_read /\ lus + k <= Len(flot) /\ lus' = lus + k /\ Relecture(k)
    BY <1>4 DEF Lit
  <2>2. k \in Nat /\ k # 0 /\ number_to_move + k <= yy_buf_size
    BY <1>2, <1>3, <2>1, ScannerAssumption DEF num_to_read
  <2>3. yy_buffer_status' = yy_buffer_status
    BY <1>4 DEF Lit
  <2> QED  BY <1>1, <1>2, <2>1, <2>2, <2>3, RelectureConserve
<1>5. CASE DernierJeton
  <2>1. Relecture(0) /\ number_to_move > 0 /\ yy_buffer_status' = "fin" /\ lus' = lus
    BY <1>5 DEF DernierJeton
  <2>2. lus' = lus + 0 /\ lus + 0 <= Len(flot) /\ number_to_move + 0 <= yy_buf_size
    BY <1>2, <1>3, <2>1
  <2> QED  BY <1>1, <2>1, <2>2, RelectureConserve
<1>6. CASE Agrandit
  <2>1. /\ yy_buf_size' = 2 * yy_buf_size
        /\ UNCHANGED <<flux, tampon, yy_buffer_status, yyguts_t, pc, retour, parser_data>>
    BY <1>6 DEF Agrandit
  <2>2. yy_buf_size' \in Nat /\ Len(tampon) <= yy_buf_size'
    BY <1>2, <2>1
  <2>3. TypeOK'
    BY <1>1, <2>1, <2>2 DEF TypeOK, flux, yyguts_t, automate, parser_data
  <2>4. Balayage' /\ Lecture'
    BY <1>1, <2>1 DEF Balayage, Lecture, yyguts_t
  <2> QED  BY <2>3, <2>4 DEF IInv
<1>7. CASE FinFlot
  <2>1. /\ tampon' = <<>> /\ yy_buffer_status' = "neuf" /\ yytext' = 0 /\ yy_c_buf_p' = 0
        /\ len' = 0 /\ pc' = "repos" /\ retour' = "EOF"
        /\ UNCHANGED <<flux, yy_buf_size, yy_cp, automate, reprise>>
    BY <1>7 DEF FinFlot, yyrestart, yy_flush_buffer, yy_load_buffer_state
  <2>2. tampon' \in Seq(Classe) /\ Len(tampon') = 0 /\ 0 \in 0 .. MAX_ERROR_SIZE - 1
    BY <2>1, ScannerAssumption
  <2>3. TypeOK'
    BY <1>1, <1>2, <2>1, <2>2 DEF TypeOK, flux, automate, Lieux
  <2>4. Balayage' /\ Lecture'
    BY <2>1 DEF Balayage, Lecture
  <2> QED  BY <2>3, <2>4 DEF IInv
<1> QED  BY <1>4, <1>5, <1>6, <1>7
(***************************************************************************)
(* Running over the token again.                                           *)
(***************************************************************************)
LEMMA RelitConserve ==
  ASSUME IInv, Relit
  PROVE  IInv'
<1>1. /\ pc = "relecture" /\ yy_cp < yy_c_buf_p /\ Memorise(yy_cp)
      /\ yy_current_state' = Suivant(yy_current_state, OctetNonNul(yy_cp))
      /\ yy_cp' = yy_cp + 1
      /\ UNCHANGED <<flux, yy_buffer_state, yytext, yy_c_buf_p, reprise, pc, retour, parser_data>>
  BY DEF Relit
<1>2. /\ TypeOK /\ EnJeton /\ yy_cp \in Nat /\ yy_c_buf_p \in Nat /\ Len(tampon) \in Nat
      /\ yy_cp < Len(tampon)
  BY <1>1 DEF IInv, TypeOK, Balayage, Lecture
<1>3. PICK c \in Classe \ {NUL} : c = OctetNonNul(yy_cp)
  BY <1>2, OctetLu
<1>4. /\ EnJeton' /\ yy_current_state' # 1
      /\ yy_last_accepting_state' \in 0 .. 12 /\ yy_last_accepting_cpos' \in Nat
  BY <1>1, <1>2, <1>3, UnCaractere DEF yy_buffer_state
<1>5. yy_current_state' # 3
  BY <1>1, <1>2, <1>3, Transitions DEF EnJeton
<1>6. TypeOK'
  <2>1. yy_current_state' \in 1 .. 13
    BY <1>4 DEF EnJeton, Etats
  <2> QED
    BY <1>1, <1>2, <1>4, <2>1 DEF TypeOK, flux, yy_buffer_state, parser_data
<1>7. Balayage'
  BY <1>4 DEF Balayage
<1>8. Lecture'
  <2>1. /\ yy_c_buf_p <= Len(tampon) /\ (reprise = "nul" => yy_c_buf_p < Len(tampon))
        /\ reprise = "find" => yytext < yy_c_buf_p
    BY <1>1 DEF IInv, Lecture
  <2> QED  BY <1>1, <1>2, <1>5, <2>1 DEF Lecture, yy_buffer_state
<1> QED  BY <1>6, <1>7, <1>8 DEF IInv

LEMMA FinRelectureConserve ==
  ASSUME IInv, FinRelecture
  PROVE  IInv'
<1>1. /\ pc = "relecture" /\ yy_cp >= yy_c_buf_p /\ reprise # "nul"
      /\ pc' = IF reprise = "match" THEN "automate" ELSE "action"
      /\ UNCHANGED <<flux, yy_buffer_state, yyguts_t, retour, parser_data>>
  BY DEF FinRelecture
<1>2. /\ TypeOK /\ EnJeton /\ yy_cp \in Nat /\ yy_c_buf_p \in Nat /\ Len(tampon) \in Nat
      /\ yy_cp = yy_c_buf_p /\ yy_cp <= Len(tampon) /\ yytext \in Nat
      /\ reprise = "find" => yytext < yy_c_buf_p
      /\ reprise \in {"match", "find"}
  BY <1>1 DEF IInv, TypeOK, Balayage, Lecture
<1>3. pc' = "action" => yy_current_state # 1
  BY <1>1, <1>2 DEF EnJeton
<1>4. TypeOK'
  BY <1>1, <1>2 DEF TypeOK, flux, yy_buffer_state, yyguts_t, automate, parser_data, Lieux
<1>5. EnJeton'
  BY <1>1, <1>2 DEF EnJeton, Arret, yy_buffer_state, yyguts_t, automate
<1>6. Balayage' /\ Lecture'
  BY <1>1, <1>2, <1>3, <1>5 DEF Balayage, Lecture, yy_buffer_state, yyguts_t, automate
<1> QED  BY <1>4, <1>6 DEF IInv

LEMMA EssaieNulConserve ==
  ASSUME IInv, EssaieNul
  PROVE  IInv'
<1>1. /\ pc = "relecture" /\ yy_cp >= yy_c_buf_p /\ reprise = "nul" /\ Memorise(yy_c_buf_p)
      /\ UNCHANGED <<flux, yy_buffer_state, yytext, reprise, retour, parser_data>>
  BY DEF EssaieNul
<1>2. /\ TypeOK /\ EnJeton /\ yy_cp \in Nat /\ Len(tampon) \in Nat
      /\ yy_cp = yy_c_buf_p /\ yy_cp < Len(tampon) /\ yytext \in Nat /\ yytext <= yy_cp
      /\ yy_current_state # 3 /\ yy_current_state \in Etats
  BY <1>1 DEF IInv, TypeOK, Balayage, Lecture, EnJeton
<1>3. 1 \in Classe /\ 1 # NUL
  BY DEF Classe, NUL
<1>4. CASE yy_try_NUL_trans # Jam
  <2>1. /\ yy_current_state' = Suivant(yy_current_state, 1)
        /\ yy_c_buf_p' = yy_c_buf_p + 1 /\ yy_cp' = yy_c_buf_p + 1 /\ pc' = "automate"
    BY <1>4 DEF EssaieNul, yy_try_NUL_trans
  <2>2. /\ EnJeton' /\ yy_current_state' # 1
        /\ yy_last_accepting_state' \in 0 .. 12 /\ yy_last_accepting_cpos' \in Nat
    BY <1>1, <1>2, <1>3, <2>1, UnCaractere DEF yy_buffer_state
  <2>3. yy_current_state' \in 1 .. 13
    BY <2>2 DEF EnJeton, Etats
  <2>4. TypeOK'
    BY <1>1, <1>2, <2>1, <2>2, <2>3 DEF TypeOK, flux, yy_buffer_state, parser_data, Lieux
  <2>5. Balayage' /\ Lecture'
    BY <1>1, <1>2, <2>1, <2>2 DEF Balayage, Lecture, yy_buffer_state
  <2> QED  BY <2>4, <2>5 DEF IInv
<1>5. CASE yy_try_NUL_trans = Jam
  <2>1. pc' = "action" /\ UNCHANGED <<yy_current_state, yy_c_buf_p, yy_cp>>
    BY <1>5 DEF EssaieNul
  <2>2. yy_current_state # 1
    BY <1>3, <1>5, Transitions DEF yy_try_NUL_trans, Etats
  <2>3. /\ yy_last_accepting_state' \in 0 .. 12 /\ yy_last_accepting_cpos' \in Nat
        /\ yy_current_state \notin Finals =>
              /\ yy_last_accepting_state' = yy_last_accepting_state
              /\ yy_last_accepting_cpos' = yy_last_accepting_cpos
    <3>1. CASE yy_current_state \in Finals
      <4>1. yy_last_accepting_state' = yy_current_state /\ yy_last_accepting_cpos' = yy_c_buf_p
        BY <1>1, <1>2, <3>1, Acceptations DEF Memorise
      <4> QED  BY <1>2, <3>1, <4>1 DEF Finals
    <3>2. CASE yy_current_state \notin Finals
      <4>1. /\ yy_last_accepting_state' = yy_last_accepting_state
            /\ yy_last_accepting_cpos' = yy_last_accepting_cpos
        BY <1>1, <1>2, <3>2, Acceptations DEF Memorise
      <4> QED  BY <1>2, <4>1 DEF TypeOK
    <3> QED  BY <3>1, <3>2
  <2>4. EnJeton'
    BY <1>1, <1>2, <2>1, <2>3 DEF EnJeton, Arret, yy_buffer_state
  <2>5. TypeOK'
    BY <1>1, <1>2, <2>1, <2>3 DEF TypeOK, flux, yy_buffer_state, parser_data, Lieux
  <2>6. Balayage' /\ Lecture'
    BY <1>1, <1>2, <2>1, <2>2, <2>4 DEF Balayage, Lecture, yy_buffer_state
  <2> QED  BY <2>5, <2>6 DEF IInv
<1> QED  BY <1>4, <1>5

(***************************************************************************)
(* The calls.                                                              *)
(***************************************************************************)
LEMMA AppelsConservent ==
  ASSUME IInv, PremierAppel \/ Appel
  PROVE  IInv'
<1>1. /\ TypeOK /\ yy_c_buf_p = yytext /\ yytext \in 0 .. Len(tampon) /\ Len(tampon) \in Nat
      /\ pc' = "automate" /\ DebutJeton(yy_c_buf_p)
      /\ UNCHANGED <<flux, yy_c_buf_p, retour, parser_data>>
  BY DEF PremierAppel, Appel, IInv, Lecture, TypeOK
<1>2. /\ tampon' = tampon /\ yy_buf_size' \in Nat /\ Len(tampon) <= yy_buf_size'
      /\ yy_buffer_status' \in {"neuf", "normal", "fin"}
  <2>1. CASE PremierAppel
    <3>1. tampon = <<>> /\ tampon' = <<>> /\ yy_buffer_status' = "neuf"
          /\ yy_buf_size' = YY_BUF_SIZE
      BY <2>1 DEF PremierAppel, yy_create_buffer, yy_flush_buffer, IInv, Lecture
    <3>2. Len(tampon) = 0
      BY <3>1
    <3> QED  BY <3>1, <3>2, ScannerAssumption
  <2>2. CASE Appel
    BY <1>1, <2>2 DEF Appel, yy_buffer_state, TypeOK
  <2> QED  BY <2>1, <2>2
<1>3. /\ yytext' = yytext /\ yy_cp' = yytext /\ yy_current_state' = 1
      /\ UNCHANGED <<yy_last_accepting_state, yy_last_accepting_cpos, reprise>>
  BY <1>1 DEF DebutJeton
<1>4. TypeOK'
  BY <1>1, <1>2, <1>3 DEF TypeOK, flux, parser_data, Lieux
<1>5. EnJeton'
  BY <1>1, <1>3 DEF EnJeton, Etats, Finals
<1>6. Balayage' /\ Lecture'
  BY <1>1, <1>2, <1>3, <1>5 DEF Balayage, Lecture
<1> QED  BY <1>4, <1>6 DEF IInv

LEMMA FinsConservent ==
  ASSUME IInv, Detruit \/ CreationEchoue \/ LitErreur
  PROVE  IInv'
<1>1. TypeOK
  BY DEF IInv
<1>2. CASE Detruit
  <2>1. /\ pc' = "detruit" /\ yy_buf_size' = 0 /\ tampon' = <<>> /\ yy_buffer_status' = yy_buffer_status
        /\ yy_c_buf_p' = 0 /\ yytext' = 0
        /\ UNCHANGED <<flux, yy_cp, automate, reprise, retour, parser_data>>
    BY <1>2 DEF Detruit, yy_delete_buffer
  <2>2. tampon' \in Seq(Classe) /\ Len(tampon') = 0
    BY <2>1
  <2>3. lus \in Nat
    BY <1>1 DEF TypeOK
  <2>4. TypeOK'
    BY <1>1, <2>1, <2>2, <2>3 DEF TypeOK, flux, automate, parser_data, Lieux
  <2> QED  BY <2>1, <2>4 DEF IInv, Balayage, Lecture
<1>3. CASE CreationEchoue \/ LitErreur
  <2>1. /\ pc' = "erreur"
        /\ UNCHANGED <<flux, yy_buffer_state, yyguts_t, retour, parser_data>>
    BY <1>3 DEF CreationEchoue, LitErreur, yy_fatal_error
  <2>2. TypeOK'
    BY <1>1, <2>1 DEF TypeOK, flux, yy_buffer_state, yyguts_t, automate, parser_data, Lieux
  <2> QED  BY <2>1, <2>2 DEF IInv, Balayage, Lecture
<1> QED  BY <1>2, <1>3

LEMMA PasConserve == IInv /\ [Next]_vars => IInv'
<1> SUFFICES ASSUME IInv, [Next]_vars PROVE IInv'
  OBVIOUS
<1>1. CASE Clore \/ UNCHANGED vars
  <2>1. UNCHANGED <<flot, lus, yy_buffer_state, yyguts_t, pc, retour, parser_data>> /\ clos' \in BOOLEAN
    BY <1>1 DEF Clore, vars, flux, IInv, TypeOK
  <2>2. TypeOK'
    BY <2>1 DEF IInv, TypeOK, yy_buffer_state, yyguts_t, automate, parser_data
  <2>3. EnJeton' = EnJeton
    BY <2>1 DEF EnJeton, Arret, yy_buffer_state, yyguts_t, automate
  <2>4. Balayage' /\ Lecture'
    BY <2>1, <2>3 DEF IInv, Balayage, Lecture, yy_buffer_state, yyguts_t, automate
  <2> QED  BY <2>2, <2>4 DEF IInv
<1>2. CASE Yylex
  BY <1>2, AutomateConserve, ReculeConserve, ReglesConservent, FinTamponConserve,
     LectureConserve, RelitConserve, FinRelectureConserve, EssaieNulConserve, FinsConservent
  DEF Yylex
<1>3. CASE PremierAppel \/ CreationEchoue \/ Appel \/ Detruit
  BY <1>3, AppelsConservent, FinsConservent
<1> QED  BY <1>1, <1>2, <1>3 DEF Next

LEMMA Invariant == Spec => []IInv
BY Initialement, PasConserve, PTL DEF Spec

-----------------------------------------------------------------------------
(***************************************************************************)
(* yylex (scanner.c:740-944) never leaves its buffers: what read(2)        *)
(* returned fits yy_ch_buf, the automaton stops at the second character    *)
(* behind it at the latest, a token never begins behind it, and the error  *)
(* buffer keeps its last place, for every size of them and every stream.   *)
(***************************************************************************)
THEOREM TypesDuScanner == Spec => []TypeOK
<1>1. IInv => TypeOK
  BY DEF IInv
<1> QED  BY <1>1, Invariant, PTL
-----------------------------------------------------------------------------
(***************************************************************************)
(* What a packet of n characters behind place d of the stream is, and that *)
(* none begins there.                                                      *)
(***************************************************************************)
PaquetA(d, n) ==
  /\ n >= 4 /\ flot[d + 1] = Dollar
  /\ \A k \in 2 .. n - 3 : flot[d + k] \notin {Dollar, Diese}
  /\ flot[d + (n - 2)] = Diese /\ flot[d + (n - 1)] = Hexa /\ flot[d + n] = Hexa

Casse(d) == \A n \in Nat : d + n <= Len(flot) => ~ PaquetA(d, n)

(***************************************************************************)
(* What the first n characters behind d are when they lead to state q.     *)
(***************************************************************************)
Dedans(d, i, j) == \A k \in i .. j : flot[d + k] \notin {Dollar, Diese}

Sens(d, q, n) ==
  /\ q \in 4 .. 8 => n = 1
  /\ q = 3 /\ d + n <= lus => flot[d + n] = NUL
  /\ q = 4 => flot[d + 1] \notin {Plus, Moins, Ligne, Dollar}
  /\ q = 5 => flot[d + 1] = Ligne
  /\ q = 7 => flot[d + 1] = Plus
  /\ q = 8 => flot[d + 1] = Moins
  /\ q \in {6, 9, 10, 11, 12} => flot[d + 1] = Dollar
  /\ q = 9 => n >= 2 /\ Dedans(d, 2, n)
  /\ q = 10 => n >= 2 /\ Dedans(d, 2, n - 1) /\ flot[d + n] = Diese
  /\ q = 11 => /\ n >= 3 /\ Dedans(d, 2, n - 2)
                /\ flot[d + (n - 1)] = Diese /\ flot[d + n] = Hexa
  /\ q = 12 => PaquetA(d, n)

LEMMA PaquetLu ==
  ASSUME flot \in Seq(Classe), NEW d \in Nat, NEW n \in Nat, d + n <= Len(flot)
  PROVE  EstPaquet(SubSeq(flot, d + 1, d + n)) <=> PaquetA(d, n)
<1>1. PICK s : s = SubSeq(flot, d + 1, d + n)
  OBVIOUS
<1>2. Len(s) = n /\ \A k \in 1 .. n : s[k] = flot[d + k]
  <2>1. s \in Seq(Classe) /\ Len(s) = n
    BY <1>1
  <2>2. ASSUME NEW k \in 1 .. n PROVE s[k] = flot[d + k]
    BY <1>1
  <2> QED  BY <2>1, <2>2
<1>3. CASE n < 4
  BY <1>1, <1>2, <1>3 DEF EstPaquet, PaquetA
<1>4. CASE n >= 4
  <2>1. /\ s[1] = flot[d + 1] /\ s[n - 2] = flot[d + (n - 2)]
        /\ s[n - 1] = flot[d + (n - 1)] /\ s[n] = flot[d + n]
    BY <1>2, <1>4
  <2>2. \A k \in 2 .. n - 3 : s[k] = flot[d + k]
    BY <1>2, <1>4
  <2>3. Corps(s, 2, n - 3) <=> \A k \in 2 .. n - 3 : flot[d + k] \notin {Dollar, Diese}
    BY <2>2 DEF Corps
  <2>4. EstPaquet(s) <=> /\ s[1] = Dollar /\ Corps(s, 2, n - 3)
                         /\ s[n - 2] = Diese /\ s[n - 1] = Hexa /\ s[n] = Hexa
    BY <1>2, <1>4 DEF EstPaquet
  <2> QED  BY <1>1, <1>4, <2>1, <2>3, <2>4 DEF PaquetA
<1> QED  BY <1>3, <1>4

LEMMA CassePasPaquet ==
  ASSUME flot \in Seq(Classe), NEW d \in Nat, Casse(d)
  PROVE  ~ PaquetEn(d)
<1> SUFFICES ASSUME NEW f \in d + 1 .. Len(flot), EstPaquet(SubSeq(flot, d + 1, f))
             PROVE  FALSE
  BY DEF PaquetEn
<1>1. f - d \in Nat /\ d + (f - d) = f
  OBVIOUS
<1>2. PaquetA(d, f - d)
  BY <1>1, PaquetLu
<1> QED  BY <1>1, <1>2 DEF Casse

(***************************************************************************)
(* A '$' is no packet when something else than the next part of a packet   *)
(* follows what looked like one, or the stream ends.                       *)
(***************************************************************************)
LEMMA SuiteCassee ==
  ASSUME flot \in Seq(Classe), NEW d \in Nat, NEW n \in Nat, NEW q \in {6, 9, 10, 11},
         Sens(d, q, n),
         \/ d + n = Len(flot)
         \/ q \in {6, 9} /\ flot[d + (n + 1)] = Dollar
         \/ q \in {10, 11} /\ flot[d + (n + 1)] # Hexa
  PROVE  Casse(d)
<1> SUFFICES ASSUME NEW m \in Nat, d + m <= Len(flot), PaquetA(d, m)
             PROVE  FALSE
  BY DEF Casse
<1>1. /\ m >= 4 /\ flot[d + (m - 2)] = Diese /\ flot[d + (m - 1)] = Hexa /\ flot[d + m] = Hexa
      /\ \A k \in 2 .. m - 3 : flot[d + k] # Dollar /\ flot[d + k] # Diese
      /\ Len(flot) \in Nat
  BY SMTT(30) DEF PaquetA
<1>2. CASE q = 6
  <2>1. n = 1
    BY <1>2 DEF Sens
  <2> QED  BY <1>1, <1>2, <2>1 DEF Dollar, Diese
<1>3. CASE q = 9
  <2>1. n >= 2 /\ \A k \in 2 .. n : flot[d + k] # Diese
    BY <1>3 DEF Sens, Dedans
  <2>2. m - 2 > n
    BY SMTT(30), <1>1, <2>1
  <2>3. flot[d + (n + 1)] = Dollar
    BY <1>1, <1>3, <2>2
  <2> QED  BY SMTT(30), <1>1, <2>1, <2>2, <2>3 DEF Dollar, Diese
<1>4. CASE q = 10
  <2>1. n >= 2 /\ flot[d + n] = Diese /\ \A k \in 2 .. n - 1 : flot[d + k] # Diese
    BY <1>4 DEF Sens, Dedans
  <2>2. m - 2 = n
    <3>1. m - 2 \notin 2 .. n - 1
      BY <1>1, <2>1
    <3>2. n \notin 2 .. m - 3
      BY <1>1, <2>1
    <3> QED  BY <1>1, <2>1, <3>1, <3>2
  <2>3. flot[d + (n + 1)] # Hexa
    BY <1>1, <1>4, <2>2
  <2>4. m - 1 = n + 1
    BY <2>2
  <2> QED  BY <1>1, <2>3, <2>4
<1>5. CASE q = 11
  <2>1. /\ n >= 3 /\ flot[d + (n - 1)] = Diese
        /\ \A k \in 2 .. n - 2 : flot[d + k] # Diese
    BY <1>5 DEF Sens, Dedans
  <2>2. m - 2 = n - 1
    <3>1. m - 2 \notin 2 .. n - 2
      BY <1>1, <2>1
    <3>2. n - 1 \notin 2 .. m - 3
      BY <1>1, <2>1
    <3> QED  BY <1>1, <2>1, <3>1, <3>2
  <2>3. flot[d + (n + 1)] # Hexa
    BY <1>1, <1>5, <2>2
  <2>4. m = n + 1
    BY <2>2
  <2> QED  BY <1>1, <2>3, <2>4
<1> QED  BY <1>2, <1>3, <1>4, <1>5

(***************************************************************************)
(* One character of the stream; a NUL may have been taken for class 1.     *)
(***************************************************************************)
LEMMA UnSens ==
  ASSUME flot \in Seq(Classe), NEW d \in Nat, NEW n \in Nat, NEW q \in Etats,
         NEW c \in Classe, Sens(d, q, n), q = 1 <=> n = 0,
         c = flot[d + (n + 1)] \/ (flot[d + (n + 1)] = NUL /\ c = 1)
  PROVE  /\ Sens(d, Suivant(q, c), n + 1)
         /\ q \in {6, 9, 10, 11} /\ Suivant(q, c) = 13 => Casse(d)
<1>1. PICK b : b = flot[d + (n + 1)]
  OBVIOUS
<1>2. \A x \in {Ligne, Diese, Dollar, Plus, Moins, Hexa} : c = x <=> b = x
  BY <1>1 DEF Classe, NUL, Ligne, Diese, Dollar, Plus, Moins, Hexa
<1>3. c = NUL => b = NUL
  BY <1>1 DEF NUL
<1>4. CASE q \in {3, 4, 5, 7, 8, 12, 13}
  <2>1. Suivant(q, c) = 13 \/ (Suivant(q, c) = 3 /\ c = NUL)
    BY <1>4, SansSuite
  <2>2. Sens(d, 13, n + 1)
    BY DEF Sens
  <2>3. c = NUL => Sens(d, 3, n + 1)
    BY <1>1, <1>3 DEF Sens
  <2>4. q \notin {6, 9, 10, 11}
    BY <1>4
  <2> QED  BY <2>1, <2>2, <2>3, <2>4
<1>5. CASE q = 1
  <2>1. n = 0
    BY <1>5
  <2>2. b = flot[d + 1]
    BY <1>1, <2>1
  <2>3. \/ c = NUL /\ Suivant(1, c) = 3
        \/ c \in {1, Diese, Hexa} /\ Suivant(1, c) = 4
        \/ c = Ligne /\ Suivant(1, c) = 5
        \/ c = Dollar /\ Suivant(1, c) = 6
        \/ c = Plus /\ Suivant(1, c) = 7
        \/ c = Moins /\ Suivant(1, c) = 8
    BY DuDebut DEF Classe, NUL, Ligne, Diese, Dollar, Plus, Moins, Hexa
  <2>4. c \in {1, Diese, Hexa} => b \notin {Plus, Moins, Ligne, Dollar}
    BY <1>2 DEF Ligne, Diese, Dollar, Plus, Moins, Hexa
  <2>5. c \in {Ligne, Dollar, Plus, Moins} => b = c
    BY <1>2
  <2> QED  BY <1>1, <1>3, <1>5, <2>1, <2>2, <2>3, <2>4, <2>5 DEF Sens
<1>6. CASE q \in {6, 9}
  <2>1. Suivant(q, c) = IF c = NUL THEN 3 ELSE IF c = Dollar THEN 13
                        ELSE IF c = Diese THEN 10 ELSE 9
    BY <1>6, DansLePaquet
  <2>2. n >= 1 /\ flot[d + 1] = Dollar /\ Dedans(d, 2, n)
    BY <1>6 DEF Sens, Dedans
  <2>3. CASE c = NUL
    BY <1>1, <1>3, <2>1, <2>3 DEF Sens
  <2>4. CASE c = Dollar
    <3>1. Suivant(q, c) = 13
      BY <2>1, <2>4 DEF NUL, Dollar
    <3>2. flot[d + (n + 1)] = Dollar
      BY <1>1, <1>2, <2>4
    <3>3. Casse(d)
      BY <1>6, <3>2, SuiteCassee
    <3> QED  BY <3>1, <3>3 DEF Sens
  <2>5. CASE c = Diese
    <3>1. Suivant(q, c) = 10
      BY <2>1, <2>5 DEF NUL, Dollar, Diese
    <3>2. flot[d + (n + 1)] = Diese
      BY <1>1, <1>2, <2>5
    <3>3. (n + 1) - 1 = n /\ n + 1 >= 2
      BY <2>2
    <3> QED  BY <2>2, <3>1, <3>2, <3>3 DEF Sens
  <2>6. CASE c \notin {NUL, Dollar, Diese}
    <3>1. Suivant(q, c) = 9
      BY <2>1, <2>6
    <3>2. flot[d + (n + 1)] \notin {Dollar, Diese}
      BY <1>1, <1>2, <2>6
    <3>3. \A k \in 2 .. n + 1 : k \in 2 .. n \/ k = n + 1
      BY <2>2
    <3>4. Dedans(d, 2, n + 1) /\ n + 1 >= 2
      BY <2>2, <3>2, <3>3 DEF Dedans
    <3> QED  BY <2>2, <3>1, <3>4 DEF Sens
  <2> QED  BY <2>3, <2>4, <2>5, <2>6
<1>7. CASE q = 10
  <2>1. Suivant(q, c) = IF c = NUL THEN 3 ELSE IF c = Hexa THEN 11 ELSE 13
    BY <1>7, DansLePaquet
  <2>2. n >= 2 /\ flot[d + 1] = Dollar /\ Dedans(d, 2, n - 1) /\ flot[d + n] = Diese
    BY <1>7 DEF Sens
  <2>3. CASE c = NUL
    BY <1>1, <1>3, <2>1, <2>3 DEF Sens
  <2>4. CASE c = Hexa
    <3>1. Suivant(q, c) = 11
      BY <2>1, <2>4 DEF NUL, Hexa
    <3>2. flot[d + (n + 1)] = Hexa
      BY <1>1, <1>2, <2>4
    <3>3. (n + 1) - 1 = n /\ (n + 1) - 2 = n - 1 /\ n + 1 >= 3
      BY <2>2
    <3> QED  BY <2>2, <3>1, <3>2, <3>3 DEF Sens
  <2>5. CASE c \notin {NUL, Hexa}
    <3>1. Suivant(q, c) = 13
      BY <2>1, <2>5
    <3>2. flot[d + (n + 1)] # Hexa
      BY <1>1, <1>2, <2>5
    <3>3. Casse(d)
      BY <1>7, <3>2, SuiteCassee
    <3> QED  BY <3>1, <3>3 DEF Sens
  <2> QED  BY <2>3, <2>4, <2>5
<1>8. CASE q = 11
  <2>1. Suivant(q, c) = IF c = NUL THEN 3 ELSE IF c = Hexa THEN 12 ELSE 13
    BY <1>8, DansLePaquet
  <2>2. /\ n >= 3 /\ flot[d + 1] = Dollar /\ Dedans(d, 2, n - 2)
        /\ flot[d + (n - 1)] = Diese /\ flot[d + n] = Hexa
    BY <1>8 DEF Sens
  <2>3. CASE c = NUL
    BY <1>1, <1>3, <2>1, <2>3 DEF Sens
  <2>4. CASE c = Hexa
    <3>1. Suivant(q, c) = 12
      BY <2>1, <2>4 DEF NUL, Hexa
    <3>2. flot[d + (n + 1)] = Hexa
      BY <1>1, <1>2, <2>4
    <3>3. (n + 1) - 1 = n /\ (n + 1) - 2 = n - 1 /\ (n + 1) - 3 = n - 2 /\ n + 1 >= 4
      BY <2>2
    <3>4. PaquetA(d, n + 1)
      BY <2>2, <3>2, <3>3 DEF PaquetA, Dedans
    <3> QED  BY <2>2, <3>1, <3>4 DEF Sens
  <2>5. CASE c \notin {NUL, Hexa}
    <3>1. Suivant(q, c) = 13
      BY <2>1, <2>5
    <3>2. flot[d + (n + 1)] # Hexa
      BY <1>1, <1>2, <2>5
    <3>3. Casse(d)
      BY <1>8, <3>2, SuiteCassee
    <3> QED  BY <3>1, <3>3 DEF Sens
  <2> QED  BY <2>3, <2>4, <2>5
<1> QED  BY <1>4, <1>5, <1>6, <1>7, <1>8 DEF Etats
-----------------------------------------------------------------------------
(***************************************************************************)
(* The buffer is the part of the stream read last, and every state of the  *)
(* automaton means what it says of the token.                              *)
(***************************************************************************)
Memoire == \A i \in 1 .. Len(tampon) : tampon[i] = flot[lus - Len(tampon) + i]

SensJeton ==
  /\ Sens(Position, yy_current_state, yy_cp - yytext)
  /\ yy_current_state \notin Finals \union {1} =>
       Sens(Position, yy_last_accepting_state, yy_last_accepting_cpos - yytext)
  /\ yy_current_state = 13 /\ yy_last_accepting_state = 6 => Casse(Position)

Suite ==
  /\ pc \in {"automate", "action", "relecture"} => SensJeton
  /\ /\ pc = "action"
     /\ \/ yy_current_state = 6
        \/ yy_current_state \notin Finals /\ yy_last_accepting_state = 6
     => Casse(Position)
  /\ pc = "relecture" /\ reprise = "nul" =>
       flot[Position + (yy_c_buf_p - yytext + 1)] = NUL
  /\ pc = "relecture" /\ reprise = "find" => yy_c_buf_p = Len(tampon) /\ lus = Len(flot)
  /\ yy_buffer_status = "fin" => lus = Len(flot)

Entree == [regle : 0 .. 5, debut : Nat, texte : Seq(Classe)]

SInv == IInv /\ Memoire /\ Suite /\ journal \in Seq(Entree) /\ JetonsExacts

-----------------------------------------------------------------------------
LEMMA PositionDuJeton ==
  ASSUME TypeOK
  PROVE  /\ Position = lus - Len(tampon) + yytext /\ Position \in Nat
         /\ Len(tampon) \in Nat /\ lus \in Nat /\ Len(flot) \in Nat /\ lus <= Len(flot)
         /\ flot \in Seq(Classe) /\ yytext \in Nat /\ yytext <= Len(tampon)
BY ScannerAssumption DEF TypeOK, Position, yy_n_chars

(***************************************************************************)
(* The byte behind a token so far, read through the buffer.                *)
(***************************************************************************)
LEMMA OctetDuFlot ==
  ASSUME TypeOK, Memoire, NEW p \in Nat, p < Len(tampon)
  PROVE  Octet(p) = flot[Position + (p - yytext + 1)]
<1>1. /\ Position = lus - Len(tampon) + yytext /\ Len(tampon) \in Nat /\ lus \in Nat
      /\ yytext \in Nat
  BY PositionDuJeton
<1>2. tampon[p + 1] = flot[lus - Len(tampon) + (p + 1)]
  BY <1>1 DEF Memoire
<1>3. lus - Len(tampon) + (p + 1) = Position + (p - yytext + 1)
  BY <1>1
<1> QED  BY <1>2, <1>3 DEF Octet, yy_n_chars

LEMMA UnCaractereDeSens ==
  ASSUME TypeOK, EnJeton, SensJeton,
         NEW c \in Classe, NEW p \in Nat, p = yy_cp, Memorise(p),
         yy_current_state' = Suivant(yy_current_state, c), yy_cp' = p + 1,
         UNCHANGED <<flot, lus, tampon, yytext>>,
         \/ c = flot[Position + (p - yytext + 1)]
         \/ flot[Position + (p - yytext + 1)] = NUL /\ c = 1
         \/ p >= Len(tampon) /\ c = NUL
  PROVE  SensJeton'
<1>1. PICK q \in Etats : q = yy_current_state
  BY DEF EnJeton
<1>2. PICK d \in Nat : d = Position
  BY PositionDuJeton
<1>3. PICK n \in Nat : n = p - yytext
  BY PositionDuJeton DEF EnJeton
<1>4. PICK r : r = Suivant(q, c)
  OBVIOUS
<1>5. Position' = d /\ yy_cp' - yytext' = n + 1 /\ yy_current_state' = r
  <2>1. Position' = Position
    BY DEF Position, yy_n_chars
  <2>2. (p + 1) - yytext = n + 1
    BY <1>3, PositionDuJeton
  <2> QED  BY <1>1, <1>2, <1>4, <2>1, <2>2
<1>6. Sens(d, q, n) /\ (q = 1 <=> n = 0)
  <2>1. q = 1 <=> n = 0
    BY SMTT(30), <1>1, <1>3, PositionDuJeton DEF EnJeton
  <2> QED  BY <1>1, <1>2, <1>3, <2>1 DEF SensJeton
<1>7. Sens(d, r, n + 1) /\ (q \in {6, 9, 10, 11} /\ r = 13 => Casse(d))
  <2>1. CASE p >= Len(tampon) /\ c = NUL
    <3>1. d + (n + 1) > lus
      BY SMTT(30), <1>2, <1>3, <2>1, PositionDuJeton
    <3>2. r \in {3, 13} /\ (q # 3 => r = 3)
      BY <1>4, <2>1, Transitions
    <3>3. Sens(d, r, n + 1)
      BY SMTT(30), <1>2, <1>3, <3>1, <3>2, PositionDuJeton DEF Sens
    <3> QED  BY <3>2, <3>3
  <2>2. CASE c = flot[d + (n + 1)] \/ (flot[d + (n + 1)] = NUL /\ c = 1)
    BY <1>4, <1>6, <2>2, UnSens, PositionDuJeton
  <2> QED  BY <1>2, <1>3, <2>1, <2>2, PositionDuJeton
<1>8. Sens(d, r, n + 1)'
  BY <1>7 DEF Sens, PaquetA, Dedans
<1>9. CASE q \in Finals
  <2>1. yy_last_accepting_state' = q /\ yy_last_accepting_cpos' = p
    BY <1>1, <1>9, Acceptations DEF Memorise
  <2>2. yy_last_accepting_cpos' - yytext' = n
    BY <1>3, <2>1
  <2>3. Sens(d, q, n)'
    BY <1>6 DEF Sens, PaquetA, Dedans
  <2>4. q = 6 /\ r = 13 => Casse(d)'
    BY <1>7 DEF Casse, PaquetA
  <2> QED  BY <1>5, <1>8, <2>1, <2>2, <2>3, <2>4 DEF SensJeton
<1>10. CASE q = 1
  <2>1. r \in Finals /\ r # 13
    BY <1>4, <1>10, Transitions DEF Finals
  <2> QED  BY <1>5, <1>8, <2>1 DEF SensJeton
<1>11. CASE q \notin Finals \union {1}
  <2>1. /\ yy_last_accepting_state' = yy_last_accepting_state
        /\ yy_last_accepting_cpos' = yy_last_accepting_cpos
    BY <1>1, <1>11, Acceptations DEF Memorise
  <2>2. PICK l : l = yy_last_accepting_state
    OBVIOUS
  <2>3. PICK m : m = yy_last_accepting_cpos - yytext
    OBVIOUS
  <2>4. Sens(d, l, m)
    BY <1>1, <1>2, <1>11, <2>2, <2>3 DEF SensJeton
  <2>5. Sens(d, l, m)'
    BY <2>4 DEF Sens, PaquetA, Dedans
  <2>6. r = 13 /\ l = 6 => Casse(d)
    <3>1. q \in {6, 9, 10, 11} \/ q = 13
      BY <1>11 DEF Etats, Finals
    <3>2. q = 13 /\ l = 6 => Casse(d)
      BY <1>1, <1>2, <2>2 DEF SensJeton
    <3> QED  BY <1>7, <3>1, <3>2
  <2>7. r = 13 /\ l = 6 => Casse(d)'
    BY <2>6 DEF Casse, PaquetA
  <2> QED  BY <1>5, <1>8, <2>1, <2>2, <2>3, <2>5, <2>7 DEF SensJeton
<1> QED  BY <1>9, <1>10, <1>11
-----------------------------------------------------------------------------
(***************************************************************************)
(* The journal: an entry that begins where the last one ended, and is what *)
(* stands there, may be added.                                             *)
(***************************************************************************)
FinDe(j, k) == IF k = 0 THEN 0 ELSE j[k].debut + Len(j[k].texte)

Juste(j, k) ==
  /\ j[k].debut = FinDe(j, k - 1)
  /\ j[k].texte = SubSeq(flot, FinDe(j, k - 1) + 1, FinDe(j, k))
  /\ TexteJuste(j[k])

Tenu(j, d) ==
  /\ j \in Seq(Entree) /\ FinDe(j, Len(j)) = d
  /\ \A k \in 1 .. Len(j) : Juste(j, k)

LEMMA EntreeAjoutee ==
  ASSUME NEW d \in Nat, NEW j, Tenu(j, d), NEW e \in Entree, e.debut = d,
         e.texte = SubSeq(flot, d + 1, d + Len(e.texte)), TexteJuste(e)
  PROVE  Tenu(Append(j, e), d + Len(e.texte))
<1>1. j \in Seq(Entree) /\ FinDe(j, Len(j)) = d /\ \A k \in 1 .. Len(j) : Juste(j, k)
  BY DEF Tenu
<1>2. PICK n \in Nat : n = Len(j)
  BY <1>1
<1>3. PICK a : a = Append(j, e)
  OBVIOUS
<1>4. /\ a \in Seq(Entree) /\ Len(a) = n + 1 /\ a[n + 1] = e
      /\ \A k \in 1 .. n : a[k] = j[k]
  BY <1>1, <1>2, <1>3
<1>5. ASSUME NEW k \in 0 .. n PROVE FinDe(a, k) = FinDe(j, k)
  BY <1>4 DEF FinDe
<1>6. ASSUME NEW k \in 1 .. n PROVE Juste(a, k)
  <2>1. k - 1 \in 0 .. n /\ k \in 0 .. n
    BY <1>2
  <2>2. FinDe(a, k - 1) = FinDe(j, k - 1) /\ FinDe(a, k) = FinDe(j, k) /\ a[k] = j[k]
    BY <1>4, <1>5, <2>1
  <2>3. Juste(j, k)
    BY <1>1, <1>2
  <2> QED  BY <2>2, <2>3 DEF Juste
<1>7. FinDe(a, n + 1) = d + Len(e.texte)
  BY <1>2, <1>4 DEF FinDe
<1>8. Juste(a, n + 1)
  <2>1. (n + 1) - 1 = n /\ FinDe(a, n) = d
    BY <1>1, <1>2, <1>5
  <2> QED  BY <1>4, <1>7, <2>1 DEF Juste
<1>9. \A k \in 1 .. n + 1 : Juste(a, k)
  <2>1. \A k \in 1 .. n + 1 : k \in 1 .. n \/ k = n + 1
    BY <1>2
  <2> QED  BY <1>6, <1>8, <2>1
<1> QED  BY <1>3, <1>4, <1>7, <1>9 DEF Tenu

LEMMA JournalTenu ==
  ASSUME SInv, pc \notin {"detruit", "erreur"}
  PROVE  Tenu(journal, Position)
<1>1. journal \in Seq(Entree) /\ JetonsExacts
  BY DEF SInv
<1>2. \A k : FinDe(journal, k) = Fin(k)
  BY DEF FinDe, Fin
<1>3. DOMAIN journal = 1 .. Len(journal)
  BY <1>1
<1> QED  BY <1>1, <1>2, <1>3 DEF JetonsExacts, Tenu, Juste

LEMMA TenuSuffit ==
  ASSUME flot' = flot, journal' \in Seq(Entree),
         \A k \in 1 .. Len(journal') : Juste(journal', k),
         pc' \notin {"detruit", "erreur"} => FinDe(journal', Len(journal')) = Position'
  PROVE  JetonsExacts'
<1>1. \A k : Fin(k)' = FinDe(journal', k)
  BY DEF FinDe, Fin
<1>2. DOMAIN journal' = 1 .. Len(journal')
  OBVIOUS
<1>3. \A e : PaquetEn(e)' = PaquetEn(e)
  BY DEF PaquetEn
<1>4. ASSUME NEW k \in 1 .. Len(journal')
      PROVE  TexteJuste(journal[k])'
  <2>1. TexteJuste(journal'[k])
    BY <1>4 DEF Juste
  <2> QED  BY <1>3, <2>1 DEF TexteJuste
<1> QED  BY <1>1, <1>2, <1>4 DEF JetonsExacts, Juste
LEMMA JournalInchange ==
  ASSUME SInv, UNCHANGED <<flot, journal>>,
         pc' \notin {"detruit", "erreur"} =>
           pc \notin {"detruit", "erreur"} /\ Position' = Position
  PROVE  journal' \in Seq(Entree) /\ JetonsExacts'
<1>1. journal \in Seq(Entree) /\ JetonsExacts
  BY DEF SInv
<1>2. \A k : FinDe(journal, k) = Fin(k)
  BY DEF FinDe, Fin
<1>3. DOMAIN journal = 1 .. Len(journal)
  BY <1>1
<1>4. \A k \in 1 .. Len(journal) : Juste(journal, k)
  BY <1>1, <1>2, <1>3 DEF JetonsExacts, Juste
<1>5. pc' \notin {"detruit", "erreur"} => FinDe(journal, Len(journal)) = Position'
  BY JournalTenu DEF Tenu
<1> QED  BY <1>1, <1>4, <1>5, TenuSuffit

(***************************************************************************)
(* Steps that leave stream, buffer and token where they are.               *)
(***************************************************************************)
LEMMA SurPlace ==
  ASSUME UNCHANGED <<flot, lus, tampon, yytext>>
  PROVE  /\ Position' = Position
         /\ Memoire => Memoire'
         /\ Casse(Position) => Casse(Position)'
         /\ \A q, n : Sens(Position, q, n)' <=> Sens(Position, q, n)
<1>1. Position' = Position
  BY DEF Position, yy_n_chars
<1>2. Memoire => Memoire'
  BY DEF Memoire
<1>3. Casse(Position) => Casse(Position)'
  BY <1>1 DEF Casse, PaquetA
<1>4. \A q, n : Sens(Position, q, n)' <=> Sens(Position, q, n)
  BY <1>1 DEF Sens, PaquetA, Dedans
<1> QED  BY <1>1, <1>2, <1>3, <1>4

LEMMA AutomateExact ==
  ASSUME SInv, IInv', Automate
  PROVE  SInv'
<1>1. /\ pc = "automate" /\ UNCHANGED <<flux, yy_buffer_state, yytext, yy_c_buf_p, reprise, retour, parser_data>>
      /\ yy_cp' = yy_cp + 1 /\ Memorise(yy_cp)
      /\ yy_current_state' = Suivant(yy_current_state, Octet(yy_cp))
      /\ pc' = IF yy_base[yy_current_state'] # SansIssue THEN "automate" ELSE "action"
  BY DEF Automate
<1>2. /\ TypeOK /\ EnJeton /\ SensJeton /\ Memoire /\ yy_cp \in Nat
      /\ yy_buffer_status = "fin" => lus = Len(flot)
  BY <1>1 DEF SInv, IInv, Balayage, Suite, TypeOK
<1>3. UNCHANGED <<flot, lus, tampon, yytext, journal, yy_buffer_status>>
  BY <1>1 DEF flux, yy_buffer_state, parser_data
<1>4. PICK c \in Classe : c = Octet(yy_cp) /\ (yy_cp >= Len(tampon) => c = NUL)
  BY <1>2, OctetLu
<1>5. c = flot[Position + (yy_cp - yytext + 1)] \/ (yy_cp >= Len(tampon) /\ c = NUL)
  BY <1>2, <1>4, OctetDuFlot, PositionDuJeton
<1>6. SensJeton'
  BY <1>1, <1>2, <1>3, <1>4, <1>5, UnCaractereDeSens
<1>7. pc' = "action" => yy_current_state' \in Finals \union {13} /\ yy_current_state' # 6
  <2>1. pc' = "action" => yy_base[yy_current_state'] = 14
    BY <1>1 DEF SansIssue
  <2>2. yy_current_state' \in Etats
    BY <1>1 DEF IInv, Balayage, EnJeton
  <2> QED  BY <2>1, <2>2, Bases DEF Etats, Finals
<1>8. Suite'
  BY <1>1, <1>2, <1>3, <1>6, <1>7 DEF Suite, SensJeton
<1>9. Memoire' /\ journal' \in Seq(Entree) /\ JetonsExacts'
  BY <1>1, <1>2, <1>3, SurPlace, JournalInchange
<1> QED  BY <1>8, <1>9 DEF SInv

LEMMA ReculeExact ==
  ASSUME SInv, IInv', Recule
  PROVE  SInv'
<1>1. /\ pc = "action" /\ yy_accept[yy_current_state] = 0
      /\ yy_cp' = yy_last_accepting_cpos /\ yy_current_state' = yy_last_accepting_state
      /\ UNCHANGED <<flot, lus, tampon, yytext, journal, yy_buffer_status>> /\ pc' = pc
      /\ UNCHANGED <<yy_last_accepting_state, yy_last_accepting_cpos>>
  BY DEF Recule, flux, yy_buffer_state, parser_data
<1>2. /\ yy_current_state \in Etats \ {1} /\ SensJeton /\ Memoire /\ EnJeton
      /\ yy_buffer_status = "fin" => lus = Len(flot)
  BY <1>1 DEF SInv, IInv, Balayage, Lecture, EnJeton, Suite
<1>3. yy_current_state \notin Finals
  BY <1>1, <1>2, Acceptations
<1>4. yy_current_state' \in Finals
  BY <1>1, <1>2, <1>3 DEF EnJeton, Arret
<1>5. Sens(Position, yy_last_accepting_state, yy_last_accepting_cpos - yytext)
  BY <1>2, <1>3 DEF SensJeton
<1>6. SensJeton'
  <2>1. PICK q : q = yy_last_accepting_state
    OBVIOUS
  <2>2. PICK n : n = yy_last_accepting_cpos - yytext
    OBVIOUS
  <2>3. Sens(Position, q, n)'
    BY <1>1, <1>5, <2>1, <2>2, SurPlace
  <2> QED  BY <1>1, <1>4, <2>1, <2>2, <2>3 DEF SensJeton, Finals
<1>7. yy_current_state' = 6 => Casse(Position)'
  <2>1. yy_current_state' = 6 => Casse(Position)
    BY <1>1, <1>3 DEF SInv, Suite
  <2> QED  BY <1>1, <2>1, SurPlace
<1>8. Suite'
  BY <1>1, <1>2, <1>4, <1>6, <1>7 DEF Suite
<1>9. Memoire' /\ journal' \in Seq(Entree) /\ JetonsExacts'
  BY <1>1, <1>2, SurPlace, JournalInchange
<1> QED  BY <1>8, <1>9 DEF SInv

LEMMA FinTamponExact ==
  ASSUME SInv, IInv', VraiNul \/ TamponVide
  PROVE  SInv'
<1>1. /\ pc = "action" /\ yy_accept[yy_current_state] = 6
      /\ UNCHANGED <<flot, lus, tampon, yytext, journal>>
      /\ yy_buffer_status' = IF yy_buffer_status = "neuf" THEN "normal" ELSE yy_buffer_status
  BY DEF VraiNul, TamponVide, FinTampon, flux, parser_data
<1>2. /\ TypeOK /\ EnJeton /\ SensJeton /\ Memoire /\ yy_cp \in Nat
      /\ yy_buffer_status = "fin" => lus = Len(flot)
  BY <1>1 DEF SInv, IInv, Balayage, Suite, TypeOK
<1>3. yy_current_state = 3
  BY <1>1, <1>2, Acceptations DEF EnJeton
<1>4. yy_buffer_status' = "fin" => lus' = Len(flot')
  BY <1>1, <1>2
<1>5. Memoire'
  BY <1>1, <1>2, SurPlace
<1>6. Position' = Position
  BY <1>1, SurPlace
<1>7. CASE VraiNul
  <2>1. /\ yy_cp <= Len(tampon) /\ yy_c_buf_p' = yy_cp - 1
        /\ pc' = "relecture" /\ reprise' = "nul"
        /\ yy_cp' = yytext /\ yy_current_state' = 1
    BY <1>7 DEF VraiNul, FinTampon, yy_n_chars
  <2>2. flot[Position + (yy_cp - yytext)] = NUL
    <3>1. Position + (yy_cp - yytext) <= lus
      BY <1>2, <2>1, PositionDuJeton
    <3> QED  BY <1>2, <1>3, <3>1 DEF SensJeton, Sens
  <2>3. flot'[Position' + (yy_c_buf_p' - yytext' + 1)] = NUL
    <3>1. (yy_cp - 1) - yytext + 1 = yy_cp - yytext
      BY <1>2, PositionDuJeton
    <3> QED  BY <1>1, <1>6, <2>1, <2>2, <3>1
  <2>4. SensJeton'
    <3>1. yytext' - yytext' = 0
      BY <1>1, <1>2, PositionDuJeton
    <3> QED  BY <1>1, <2>1, <3>1 DEF SensJeton, Sens
  <2>5. Suite'
    BY <1>4, <2>1, <2>3, <2>4 DEF Suite
  <2>6. journal' \in Seq(Entree) /\ JetonsExacts'
    BY <1>1, <1>6, <2>1, JournalInchange
  <2> QED  BY <1>5, <2>5, <2>6 DEF SInv
<1>8. CASE TamponVide
  <2>1. pc' = "lecture"
    BY <1>8 DEF TamponVide
  <2>2. Suite'
    BY <1>4, <2>1 DEF Suite
  <2>3. journal' \in Seq(Entree) /\ JetonsExacts'
    BY <1>1, <1>6, <2>1, JournalInchange
  <2> QED  BY <1>5, <2>2, <2>3 DEF SInv
<1> QED  BY <1>7, <1>8
(***************************************************************************)
(* Moving the token and reading behind it changes its place in the buffer, *)
(* not its place in the stream.                                            *)
(***************************************************************************)
LEMMA RelectureExacte ==
  ASSUME SInv, pc = "lecture", NEW k \in Nat, Relecture(k),
         lus' = lus + k, lus + k <= Len(flot),
         k = 0 => yy_buffer_status' = "fin",
         yy_buffer_status' = "fin" => k = 0 /\ lus = Len(flot)
  PROVE  Memoire' /\ Suite' /\ journal' \in Seq(Entree) /\ JetonsExacts'
<1>1. TypeOK /\ yy_c_buf_p = Len(tampon) + 1 /\ Memoire
  BY DEF SInv, IInv, Lecture
<1>2. PICK m : m = number_to_move
  OBVIOUS
<1>3. PICK n \in Nat : n = Len(tampon)
  BY <1>1, PositionDuJeton
<1>4. /\ m = n - yytext /\ m \in Nat /\ Deplace(k) \in Seq(Classe) /\ Len(Deplace(k)) = m + k
      /\ Position = lus - n + yytext /\ lus \in Nat /\ yytext \in Nat
  BY <1>1, <1>2, <1>3, DeplaceExact, PositionDuJeton
<1>5. /\ tampon' = Deplace(k) /\ yytext' = 0 /\ yy_cp' = 0 /\ yy_current_state' = 1
      /\ yy_c_buf_p' = m /\ pc' = "relecture" /\ reprise' = Reprend(k)
      /\ UNCHANGED <<flot, journal>>
  BY <1>2 DEF Relecture, parser_data
<1>6. Len(tampon') = m + k
  BY <1>4, <1>5
<1>7. Position' = Position
  <2>1. Position' = lus' - Len(tampon') + yytext'
    BY DEF Position, yy_n_chars
  <2>2. (lus + k) - (m + k) + 0 = lus - n + yytext
    BY <1>4
  <2> QED  BY <1>4, <1>5, <1>6, <2>1, <2>2
<1>8. Memoire'
  <2> SUFFICES ASSUME NEW i \in 1 .. m + k
               PROVE  Deplace(k)[i] = flot[(lus + k) - (m + k) + i]
    BY <1>5, <1>6 DEF Memoire
  <2>1. Deplace(k)[i] = IF i <= m THEN tampon[yytext + i] ELSE flot[lus + i - m]
    BY <1>2 DEF Deplace
  <2>2. CASE i <= m
    <3>1. yytext + i \in 1 .. n /\ lus - n + (yytext + i) = (lus + k) - (m + k) + i
      BY <1>4, <2>2
    <3>2. tampon[yytext + i] = flot[lus - n + (yytext + i)]
      BY <1>1, <1>3, <3>1 DEF Memoire
    <3> QED  BY <2>1, <2>2, <3>1, <3>2
  <2>3. CASE ~ (i <= m)
    <3>1. lus + i - m = (lus + k) - (m + k) + i
      BY <1>4
    <3> QED  BY <2>1, <2>3, <3>1
  <2> QED  BY <2>2, <2>3
<1>9. SensJeton'
  <2>1. yytext' - yytext' = 0
    BY <1>5
  <2> QED  BY <1>5, <2>1 DEF SensJeton, Sens
<1>10. reprise' = "find" => yy_c_buf_p' = Len(tampon') /\ lus' = Len(flot')
  <2>1. SUFFICES ASSUME reprise' = "find" PROVE yy_c_buf_p' = Len(tampon') /\ lus' = Len(flot')
    OBVIOUS
  <2>2. k = 0
    BY <1>5, <2>1 DEF Reprend
  <2> QED  BY <1>4, <1>5, <1>6, <2>2
<1>11. Suite'
  <2>1. reprise' # "nul"
    BY <1>5 DEF Reprend
  <2>2. yy_buffer_status' = "fin" => lus' = Len(flot')
    BY <1>4, <1>5
  <2> QED  BY <1>5, <1>9, <1>10, <2>1, <2>2 DEF Suite
<1>12. journal' \in Seq(Entree) /\ JetonsExacts'
  BY <1>5, <1>7, JournalInchange
<1> QED  BY <1>8, <1>11, <1>12

LEMMA LectureExacte ==
  ASSUME SInv, IInv', Lit \/ DernierJeton \/ Agrandit
  PROVE  SInv'
<1>1. TypeOK /\ pc = "lecture" /\ Memoire /\ (yy_buffer_status = "fin" => lus = Len(flot))
  <2>1. pc = "lecture"
    BY DEF Lit, DernierJeton, Agrandit, Epuise
  <2> QED  BY <2>1 DEF SInv, IInv, Suite
<1>2. lus \in Nat /\ lus <= Len(flot) /\ Len(flot) \in Nat
  BY <1>1, PositionDuJeton
<1>3. CASE Lit
  <2>1. PICK k \in 1 .. YY_READ_BUF_SIZE :
          k <= num_to_read /\ lus + k <= Len(flot) /\ lus' = lus + k /\ Relecture(k)
    BY <1>3 DEF Lit
  <2>2. k \in Nat /\ k # 0 /\ yy_buffer_status' # "fin"
    BY <1>3, <2>1, ScannerAssumption DEF Lit
  <2> QED  BY <1>1, <2>1, <2>2, RelectureExacte DEF SInv
<1>4. CASE DernierJeton
  <2>1. Relecture(0) /\ yy_buffer_status' = "fin" /\ lus' = lus /\ lus = Len(flot)
    BY <1>1, <1>4 DEF DernierJeton, Epuise
  <2>2. lus' = lus + 0 /\ lus + 0 <= Len(flot)
    BY <1>2, <2>1
  <2> QED  BY <1>1, <2>1, <2>2, RelectureExacte DEF SInv
<1>5. CASE Agrandit
  <2>1. UNCHANGED <<flot, lus, tampon, yytext, journal, pc, yy_buffer_status>>
    BY <1>5 DEF Agrandit, flux, yyguts_t, parser_data
  <2>2. Memoire' /\ Suite'
    BY <1>1, <2>1, SurPlace DEF Suite
  <2>3. journal' \in Seq(Entree) /\ JetonsExacts'
    BY <1>1, <2>1, SurPlace, JournalInchange
  <2> QED  BY <2>2, <2>3 DEF SInv
<1> QED  BY <1>3, <1>4, <1>5

(***************************************************************************)
(* Running over the token again finds what it meant before.                *)
(***************************************************************************)
LEMMA RelitExact ==
  ASSUME SInv, IInv', Relit
  PROVE  SInv'
<1>1. /\ pc = "relecture" /\ yy_cp < yy_c_buf_p /\ Memorise(yy_cp)
      /\ yy_current_state' = Suivant(yy_current_state, OctetNonNul(yy_cp))
      /\ yy_cp' = yy_cp + 1
      /\ UNCHANGED <<flot, lus, tampon, yytext, journal, yy_buffer_status, yy_c_buf_p,
                     reprise, pc>>
  BY DEF Relit, flux, yy_buffer_state, parser_data
<1>2. /\ TypeOK /\ EnJeton /\ SensJeton /\ Memoire /\ yy_cp \in Nat
      /\ yy_c_buf_p \in Nat /\ yy_cp < Len(tampon)
  BY <1>1, PositionDuJeton DEF SInv, IInv, Balayage, Lecture, Suite, TypeOK
<1>3. OctetNonNul(yy_cp) \in Classe
  BY <1>2, OctetLu
<1>4. Octet(yy_cp) = flot[Position + (yy_cp - yytext + 1)]
  BY <1>2, OctetDuFlot
<1>5. \/ OctetNonNul(yy_cp) = flot[Position + (yy_cp - yytext + 1)]
      \/ flot[Position + (yy_cp - yytext + 1)] = NUL /\ OctetNonNul(yy_cp) = 1
  BY <1>4 DEF OctetNonNul
<1>6. SensJeton'
  BY <1>1, <1>2, <1>3, <1>5, UnCaractereDeSens
<1>7. Position' = Position /\ Memoire'
  BY <1>1, <1>2, SurPlace
<1>8. Suite'
  BY <1>1, <1>6, <1>7 DEF SInv, Suite
<1>9. journal' \in Seq(Entree) /\ JetonsExacts'
  BY <1>1, <1>7, JournalInchange
<1> QED  BY <1>7, <1>8, <1>9 DEF SInv

LEMMA FinRelectureExacte ==
  ASSUME SInv, IInv', FinRelecture
  PROVE  SInv'
<1>1. /\ pc = "relecture" /\ yy_cp >= yy_c_buf_p /\ reprise # "nul"
      /\ pc' = IF reprise = "match" THEN "automate" ELSE "action"
      /\ UNCHANGED <<flot, lus, tampon, yytext, journal, yy_buffer_status, yy_cp,
                     yy_current_state, yy_last_accepting_state, yy_last_accepting_cpos>>
  BY DEF FinRelecture, flux, yy_buffer_state, yyguts_t, automate, parser_data
<1>2. /\ TypeOK /\ EnJeton /\ SensJeton /\ Memoire /\ yy_cp \in Nat /\ yy_cp = yy_c_buf_p
      /\ reprise \in {"match", "find"}
      /\ reprise = "find" => yy_c_buf_p = Len(tampon) /\ lus = Len(flot)
      /\ yy_buffer_status = "fin" => lus = Len(flot)
  BY <1>1 DEF SInv, IInv, Balayage, Lecture, Suite, TypeOK
<1>3. PICK q \in Etats : q = yy_current_state
  BY <1>2 DEF EnJeton
<1>4. PICK n : n = yy_cp - yytext
  OBVIOUS
<1>5. Position' = Position /\ Memoire' /\ (Casse(Position) => Casse(Position)')
  BY <1>1, <1>2, SurPlace
<1>6. SensJeton'
  <2>1. \A r, i : Sens(Position, r, i)' <=> Sens(Position, r, i)
    BY <1>1, SurPlace
  <2>2. PICK l : l = yy_last_accepting_state
    OBVIOUS
  <2>3. PICK i : i = yy_last_accepting_cpos - yytext
    OBVIOUS
  <2>4. Sens(Position, q, n) /\ (q \notin Finals \union {1} => Sens(Position, l, i))
    BY <1>2, <1>3, <1>4, <2>2, <2>3 DEF SensJeton
  <2>5. Sens(Position, q, n)' /\ (q \notin Finals \union {1} => Sens(Position, l, i)')
    BY <2>1, <2>4
  <2>6. q = 13 /\ l = 6 => Casse(Position)'
    BY <1>2, <1>3, <1>5, <2>2 DEF SensJeton
  <2> QED  BY <1>1, <1>3, <1>4, <2>2, <2>3, <2>5, <2>6 DEF SensJeton
<1>7. /\ pc' = "action"
      /\ q = 6 \/ (q \notin Finals /\ yy_last_accepting_state = 6)
      => Casse(Position)
  <2>1. SUFFICES ASSUME pc' = "action",
                        q = 6 \/ (q \notin Finals /\ yy_last_accepting_state = 6)
                 PROVE  Casse(Position)
    OBVIOUS
  <2>2. yy_cp = Len(tampon) /\ lus = Len(flot)
    BY <1>1, <1>2, <2>1
  <2>3. q # 1
    BY <1>1, <1>3, <2>1 DEF IInv, Lecture
  <2>4. q \in {6, 9, 10, 11} \/ q = 13
    BY <2>1, <2>3 DEF Finals, Etats
  <2>5. CASE q \in {6, 9, 10, 11}
    <3>1. n \in Nat /\ Position + n = Len(flot) /\ Position \in Nat
      BY <1>2, <1>4, <2>2, PositionDuJeton DEF EnJeton
    <3>2. Sens(Position, q, n)
      BY <1>2, <1>3, <1>4 DEF SensJeton
    <3>3. flot \in Seq(Classe)
      BY <1>2, PositionDuJeton
    <3> QED  BY <2>5, <3>1, <3>2, <3>3, SuiteCassee
  <2>6. CASE q = 13
    BY <1>2, <1>3, <2>1, <2>6 DEF SensJeton
  <2> QED  BY <2>4, <2>5, <2>6
<1>8. Suite'
  <2>1. pc' # "relecture"
    BY <1>1
  <2> QED  BY <1>1, <1>2, <1>3, <1>5, <1>6, <1>7, <2>1 DEF Suite
<1>9. journal' \in Seq(Entree) /\ JetonsExacts'
  BY <1>1, <1>5, JournalInchange
<1> QED  BY <1>5, <1>8, <1>9 DEF SInv

LEMMA EssaieNulExact ==
  ASSUME SInv, IInv', EssaieNul
  PROVE  SInv'
<1>1. /\ pc = "relecture" /\ yy_cp >= yy_c_buf_p /\ reprise = "nul" /\ Memorise(yy_c_buf_p)
      /\ UNCHANGED <<flot, lus, tampon, yytext, journal, yy_buffer_status>>
  BY DEF EssaieNul, flux, yy_buffer_state, parser_data
<1>2. /\ TypeOK /\ EnJeton /\ SensJeton /\ Memoire /\ yy_cp \in Nat /\ yy_cp = yy_c_buf_p
      /\ flot[Position + (yy_cp - yytext + 1)] = NUL
      /\ yy_buffer_status = "fin" => lus = Len(flot)
  BY SMTT(30), <1>1 DEF SInv, IInv, Balayage, Lecture, Suite, TypeOK
<1>3. 1 \in Classe
  BY DEF Classe
<1>4. Position' = Position /\ Memoire' /\ (Casse(Position) => Casse(Position)')
  BY <1>1, <1>2, SurPlace
<1>5. SensJeton' /\ Suite'
  <2>1. CASE yy_try_NUL_trans # Jam
    <3>1. /\ yy_current_state' = Suivant(yy_current_state, 1)
          /\ yy_cp' = yy_cp + 1 /\ pc' = "automate"
      BY <1>2, <2>1 DEF EssaieNul, yy_try_NUL_trans
    <3>2. SensJeton'
      BY <1>1, <1>2, <1>3, <3>1, UnCaractereDeSens
    <3> QED  BY <1>1, <1>2, <3>1, <3>2 DEF Suite
  <2>2. CASE yy_try_NUL_trans = Jam
    <3>1. pc' = "action" /\ UNCHANGED <<yy_current_state, yy_c_buf_p, yy_cp>>
      BY <2>2 DEF EssaieNul
    <3>2. PICK q \in Etats : q = yy_current_state /\ Suivant(q, 1) = 13 /\ q # 1
      <4>1. yy_current_state # 1
        BY <3>1 DEF IInv, Lecture
      <4> QED  BY <1>2, <2>2, <4>1 DEF EnJeton, yy_try_NUL_trans, Jam
    <3>3. q \notin {6, 9}
      BY <1>3, <3>2, DansLePaquet DEF NUL, Dollar, Diese
    <3>4. PICK n : n = yy_cp - yytext
      OBVIOUS
    <3>5. Sens(Position, q, n) /\ Sens(Position, q, n)'
      BY <1>1, <1>2, <3>2, <3>4, SurPlace DEF SensJeton
    <3>6. q \notin Finals =>
            /\ yy_last_accepting_state' = yy_last_accepting_state
            /\ yy_last_accepting_cpos' = yy_last_accepting_cpos
      BY <1>1, <3>2, Acceptations DEF Memorise
    <3>7. q \notin Finals /\ yy_last_accepting_state' = 6 => Casse(Position)
      <4>1. SUFFICES ASSUME q \notin Finals, yy_last_accepting_state = 6
                     PROVE  Casse(Position)
        BY <3>6
      <4>2. CASE q = 13
        BY <1>2, <3>2, <4>1, <4>2 DEF SensJeton
      <4>3. CASE q \in {10, 11}
        <5>1. n \in Nat /\ Position \in Nat /\ flot \in Seq(Classe)
          BY SMTT(30), <1>2, <3>4, PositionDuJeton DEF EnJeton
        <5>2. flot[Position + (n + 1)] # Hexa
          BY <1>2, <3>4 DEF NUL, Hexa
        <5> QED  BY <3>5, <4>3, <5>1, <5>2, SuiteCassee
      <4> QED  BY <3>2, <3>3, <4>1, <4>2, <4>3 DEF Etats, Finals
    <3>8. SensJeton'
      <4>1. PICK l : l = yy_last_accepting_state
        OBVIOUS
      <4>2. PICK i : i = yy_last_accepting_cpos - yytext
        OBVIOUS
      <4>3. q \notin Finals => Sens(Position, l, i)
        BY <1>2, <3>2, <4>1, <4>2 DEF SensJeton
      <4>4. q \notin Finals => Sens(Position, l, i)'
        BY <1>1, <4>3, SurPlace
      <4>5. q = 13 /\ yy_last_accepting_state' = 6 => Casse(Position)'
        BY <1>4, <3>7 DEF Finals
      <4> QED
        BY <1>1, <3>1, <3>2, <3>4, <3>5, <3>6, <4>1, <4>2, <4>4, <4>5 DEF SensJeton
    <3>9. Suite'
      BY <1>1, <1>2, <1>4, <3>1, <3>2, <3>3, <3>7, <3>8 DEF Suite
    <3> QED  BY <3>8, <3>9
  <2> QED  BY <2>1, <2>2
<1>6. journal' \in Seq(Entree) /\ JetonsExacts'
  <2>1. pc' \in {"automate", "action"}
    BY DEF EssaieNul
  <2> QED  BY <1>1, <1>4, <2>1, JournalInchange
<1> QED  BY <1>4, <1>5, <1>6 DEF SInv
(***************************************************************************)
(* A complaint, and the text of a rule, fit behind the journal.            *)
(***************************************************************************)
LEMMA PlainteExacte ==
  ASSUME SInv, pc \notin {"detruit", "erreur"}
  PROVE  Tenu(handle_error, Position) /\ Tenu(journal, Position)
<1>1. Tenu(journal, Position) /\ Position \in Nat /\ flot \in Seq(Classe)
  BY JournalTenu, PositionDuJeton DEF SInv, IInv
<1>2. PICK e : e = Plainte
  OBVIOUS
<1>3. e.regle = 0 /\ e.debut = Position /\ e.texte = <<>> /\ e \in Entree
  BY <1>1, <1>2 DEF Plainte, Entree
<1>4. Len(e.texte) = 0 /\ Position + Len(e.texte) = Position
  BY <1>1, <1>3
<1>5. e.texte = SubSeq(flot, Position + 1, Position + Len(e.texte))
  BY <1>1, <1>3, <1>4
<1>6. TexteJuste(e)
  BY <1>3 DEF TexteJuste
<1>7. Tenu(Append(journal, e), Position)
  BY <1>1, <1>3, <1>4, <1>5, <1>6, EntreeAjoutee
<1> QED  BY <1>1, <1>2, <1>7 DEF handle_error

LEMMA JetonExact ==
  ASSUME SInv, NEW r \in 1 .. 5, Regle(r)
  PROVE  /\ yy_cp - yytext \in Nat
         /\ Jeton(r) \in Entree /\ Jeton(r).debut = Position
         /\ Len(Jeton(r).texte) = yy_cp - yytext
         /\ Jeton(r).texte = SubSeq(flot, Position + 1, Position + (yy_cp - yytext))
         /\ TexteJuste(Jeton(r))
<1>1. /\ TypeOK /\ EnJeton /\ SensJeton /\ Memoire /\ pc = "action"
      /\ yy_accept[yy_current_state] = r
      /\ yy_current_state = 6 => Casse(Position)
  BY DEF Regle, SInv, IInv, Balayage, Suite
<1>2. PICK q \in Etats : q = yy_current_state
  BY <1>1 DEF EnJeton
<1>3. q \in Finals \ {3}
  BY <1>1, <1>2, Acceptations
<1>4. yytext < yy_cp /\ yy_cp <= Len(tampon) /\ yy_cp \in Nat
  BY <1>1, <1>2, <1>3 DEF EnJeton, Arret, TypeOK
<1>5. PICK d \in Nat : d = Position
  BY <1>1, PositionDuJeton
<1>6. PICK n \in Nat : n = yy_cp - yytext /\ n >= 1
  BY <1>1, <1>4, PositionDuJeton
<1>7. /\ flot \in Seq(Classe) /\ d + n <= Len(flot) /\ tampon \in Seq(Classe)
      /\ yytext \in Nat /\ Len(tampon) \in Nat /\ d = lus - Len(tampon) + yytext
      /\ lus \in Nat
  BY <1>1, <1>4, <1>5, <1>6, PositionDuJeton DEF TypeOK
<1>8. PICK t : t = SubSeq(tampon, yytext + 1, yy_cp)
  OBVIOUS
<1>9. /\ t \in Seq(Classe) /\ Len(t) = n
      /\ \A k \in 1 .. n : t[k] = flot[d + k]
  <2>1. t \in Seq(Classe) /\ Len(t) = n
    BY <1>4, <1>6, <1>7, <1>8
  <2>2. ASSUME NEW k \in 1 .. n PROVE t[k] = flot[d + k]
    <3>1. t[k] = tampon[yytext + k] /\ yytext + k \in 1 .. Len(tampon)
      BY <1>4, <1>6, <1>7, <1>8
    <3>2. lus - Len(tampon) + (yytext + k) = d + k
      BY <1>7
    <3> QED  BY <1>1, <3>1, <3>2 DEF Memoire
  <2> QED  BY <2>1, <2>2
<1>10. t = SubSeq(flot, d + 1, d + n)
  <2>1. PICK u : u = SubSeq(flot, d + 1, d + n)
    OBVIOUS
  <2>2. u \in Seq(Classe) /\ Len(u) = n
    BY <1>7, <2>1
  <2>3. \A k \in 1 .. n : u[k] = flot[d + k]
    BY <1>7, <2>1
  <2> QED  BY <1>9, <2>1, <2>2, <2>3
<1>11. PICK e : e = Jeton(r)
  OBVIOUS
<1>12. e.regle = r /\ e.debut = d /\ e.texte = t /\ e \in Entree
  <2>1. e = [regle |-> r, debut |-> d, texte |-> t]
    BY <1>5, <1>8, <1>11 DEF Jeton
  <2>2. r \in 0 .. 5 /\ d \in Nat /\ t \in Seq(Classe)
    BY <1>9
  <2> QED  BY <2>1, <2>2 DEF Entree
<1>13. Sens(d, q, n)
  BY <1>1, <1>2, <1>5, <1>6 DEF SensJeton
<1>14. TexteJuste(e)
  <2>1. q \in {4, 5, 6, 7, 8} => n = 1 /\ t[1] = flot[d + 1]
    BY <1>9, <1>13 DEF Sens
  <2>2. CASE q = 4
    <3>1. r = 4 /\ t[1] \notin {Plus, Moins, Ligne, Dollar} /\ Len(t) = 1
      BY <1>1, <1>2, <1>9, <1>13, <2>1, <2>2, Regles DEF Sens
    <3> QED  BY <1>12, <3>1 DEF TexteJuste
  <2>3. CASE q = 6
    <3>1. r = 4 /\ t[1] = Dollar /\ Len(t) = 1
      BY <1>1, <1>2, <1>9, <1>13, <2>1, <2>3, Regles DEF Sens
    <3>2. ~ PaquetEn(d)
      BY <1>1, <1>2, <1>5, <1>7, <2>3, CassePasPaquet
    <3>3. t[1] \notin {Plus, Moins, Ligne}
      BY <3>1 DEF Plus, Moins, Ligne, Dollar
    <3> QED  BY <1>12, <3>1, <3>2, <3>3 DEF TexteJuste
  <2>4. CASE q = 5
    <3>1. r = 5 /\ t[1] = Ligne /\ Len(t) = 1
      BY <1>1, <1>2, <1>9, <1>13, <2>1, <2>4, Regles DEF Sens
    <3>2. t = <<Ligne>>
      BY <1>9, <3>1
    <3> QED  BY <1>12, <3>1, <3>2 DEF TexteJuste
  <2>5. CASE q = 7
    <3>1. r = 1 /\ t[1] = Plus /\ Len(t) = 1
      BY <1>1, <1>2, <1>9, <1>13, <2>1, <2>5, Regles DEF Sens
    <3>2. t = <<Plus>>
      BY <1>9, <3>1
    <3> QED  BY <1>12, <3>1, <3>2 DEF TexteJuste
  <2>6. CASE q = 8
    <3>1. r = 2 /\ t[1] = Moins /\ Len(t) = 1
      BY <1>1, <1>2, <1>9, <1>13, <2>1, <2>6, Regles DEF Sens
    <3>2. t = <<Moins>>
      BY <1>9, <3>1
    <3> QED  BY <1>12, <3>1, <3>2 DEF TexteJuste
  <2>7. CASE q = 12
    <3>1. r = 3 /\ PaquetA(d, n)
      BY <1>1, <1>2, <1>13, <2>7, Regles DEF Sens
    <3>2. EstPaquet(t)
      BY <1>7, <1>10, <3>1, PaquetLu
    <3> QED  BY <1>12, <3>1, <3>2 DEF TexteJuste
  <2> QED  BY <1>3, <2>2, <2>3, <2>4, <2>5, <2>6, <2>7 DEF Finals
<1> QED  BY <1>5, <1>6, <1>9, <1>10, <1>11, <1>12, <1>14

LEMMA RegleExacte ==
  ASSUME SInv, NEW r \in 1 .. 5, Regle(r), DebutJeton(yy_cp),
         pc' \in {"automate", "repos"}, NEW j, Tenu(j, Position), journal' = Append(j, Jeton(r))
  PROVE  Memoire' /\ Suite' /\ journal' \in Seq(Entree) /\ JetonsExacts'
<1>1. /\ pc = "action" /\ UNCHANGED <<flot, lus, tampon, yy_buffer_status>>
      /\ yytext' = yy_cp /\ yy_cp' = yy_cp /\ yy_current_state' = 1
  BY DEF Regle, DebutJeton, flux, yy_buffer_state
<1>2. /\ TypeOK /\ Memoire /\ yy_cp \in Nat
      /\ yy_buffer_status = "fin" => lus = Len(flot)
  BY DEF SInv, IInv, TypeOK, Suite
<1>3. PICK n : n = yy_cp - yytext
  OBVIOUS
<1>4. Position' = Position + n /\ Position \in Nat
  <2>1. Position' = lus - Len(tampon) + yy_cp
    BY <1>1 DEF Position, yy_n_chars
  <2> QED  BY <1>2, <1>3, <2>1, PositionDuJeton
<1>5. PICK e : e = Jeton(r)
  OBVIOUS
<1>6. /\ e \in Entree /\ e.debut = Position /\ Len(e.texte) = n
      /\ e.texte = SubSeq(flot, Position + 1, Position + n) /\ TexteJuste(e)
  BY <1>3, <1>5, JetonExact
<1>7. Tenu(journal', Position')
  BY <1>4, <1>5, <1>6, EntreeAjoutee
<1>8. journal' \in Seq(Entree) /\ JetonsExacts'
  BY <1>1, <1>7, TenuSuffit DEF Tenu
<1>9. Memoire'
  BY <1>1, <1>2 DEF Memoire
<1>10. SensJeton'
  <2>1. yytext' - yytext' = 0 /\ yy_cp' = yytext'
    BY <1>1, <1>2
  <2> QED  BY <1>1, <2>1 DEF SensJeton, Sens
<1>11. Suite'
  BY <1>1, <1>2, <1>10 DEF Suite
<1> QED  BY <1>8, <1>9, <1>11

LEMMA ReglesExactes ==
  ASSUME SInv, IInv',
         RegleAccuse \/ RegleDemande \/ ReglePaquet \/ RegleErreur \/ RegleEcho
  PROVE  SInv'
<1>1. Tenu(handle_error, Position) /\ Tenu(journal, Position)
  <2>1. pc = "action"
    BY DEF RegleAccuse, RegleDemande, ReglePaquet, RegleErreur, RegleEcho, Regle
  <2> QED  BY <2>1, PlainteExacte
<1>2. CASE RegleAccuse
  BY <1>1, <1>2, RegleExacte DEF RegleAccuse, SInv
<1>3. CASE RegleDemande
  BY <1>1, <1>3, RegleExacte DEF RegleDemande, SInv
<1>4. CASE ReglePaquet
  <2>1. pc' \in {"automate", "repos"} /\ Regle(3) /\ DebutJeton(yy_cp)
        /\ journal' = Append(handle_error, Jeton(3))
    BY <1>4 DEF ReglePaquet
  <2> QED  BY <1>1, <2>1, RegleExacte DEF SInv
<1>5. CASE RegleErreur
  <2>1. PICK j : j = IF Plein THEN handle_error ELSE journal
    OBVIOUS
  <2>2. /\ pc' = "automate" /\ Regle(4) /\ DebutJeton(yy_cp)
        /\ journal' = Append(j, Jeton(4))
    BY <1>5, <2>1 DEF RegleErreur
  <2>3. Tenu(j, Position)
    BY <1>1, <2>1
  <2> QED  BY <2>2, <2>3, RegleExacte DEF SInv
<1>6. CASE RegleEcho
  BY <1>1, <1>6, RegleExacte DEF RegleEcho, SInv
<1> QED  BY <1>2, <1>3, <1>4, <1>5, <1>6

LEMMA FinFlotExact ==
  ASSUME SInv, IInv', FinFlot
  PROVE  SInv'
<1>1. /\ pc = "lecture" /\ number_to_move = 0
      /\ tampon' = <<>> /\ yy_buffer_status' = "neuf" /\ yytext' = 0
      /\ journal' = handle_error /\ pc' = "repos" /\ UNCHANGED <<flot, lus>>
  BY DEF FinFlot, Epuise, yyrestart, yy_flush_buffer, yy_load_buffer_state, flux
<1>2. TypeOK /\ yy_c_buf_p = Len(tampon) + 1
  BY <1>1 DEF SInv, IInv, Lecture
<1>3. Len(tampon') = 0
  BY <1>1
<1>4. Position' = Position
  <2>1. Position' = lus' - Len(tampon') + yytext'
    BY DEF Position, yy_n_chars
  <2> QED  BY <1>1, <1>2, <1>3, <2>1, PositionDuJeton DEF number_to_move
<1>5. Tenu(journal', Position')
  BY <1>1, <1>4, PlainteExacte
<1>6. journal' \in Seq(Entree) /\ JetonsExacts'
  BY <1>1, <1>5, TenuSuffit DEF Tenu
<1>7. Memoire' /\ Suite'
  BY <1>1, <1>3 DEF Memoire, Suite
<1> QED  BY <1>6, <1>7 DEF SInv

LEMMA AppelsExacts ==
  ASSUME SInv, IInv', PremierAppel \/ Appel
  PROVE  SInv'
<1>1. /\ TypeOK /\ Memoire /\ pc \in {"neuf", "repos"} /\ yy_c_buf_p = yytext
      /\ pc' = "automate" /\ DebutJeton(yy_c_buf_p) /\ UNCHANGED <<flot, lus, journal>>
  BY DEF PremierAppel, Appel, SInv, IInv, Lecture, flux, parser_data
<1>2. /\ tampon' = tampon
      /\ yy_buffer_status' = "fin" => lus = Len(flot)
  <2>1. CASE PremierAppel
    BY <2>1 DEF PremierAppel, yy_create_buffer, yy_flush_buffer, SInv, IInv, Lecture
  <2>2. CASE Appel
    BY <2>2 DEF Appel, yy_buffer_state, SInv, Suite
  <2> QED  BY <2>1, <2>2
<1>3. yytext' = yytext /\ yy_cp' = yytext /\ yy_current_state' = 1
  BY <1>1 DEF DebutJeton
<1>4. Position' = Position /\ Memoire'
  BY <1>1, <1>2, <1>3, SurPlace
<1>5. SensJeton'
  <2>1. yytext' - yytext' = 0 /\ yy_cp' = yytext'
    BY <1>1, <1>3, PositionDuJeton
  <2> QED  BY <1>3, <2>1 DEF SensJeton, Sens
<1>6. Suite'
  BY <1>1, <1>2, <1>5 DEF Suite
<1>7. journal' \in Seq(Entree) /\ JetonsExacts'
  BY <1>1, <1>4, JournalInchange
<1> QED  BY <1>4, <1>6, <1>7 DEF SInv

LEMMA FinsExactes ==
  ASSUME SInv, IInv', Detruit \/ CreationEchoue \/ LitErreur
  PROVE  SInv'
<1>1. /\ pc' \in {"detruit", "erreur"} /\ UNCHANGED <<flot, lus, journal, yy_buffer_status>>
      /\ tampon' = tampon \/ tampon' = <<>>
  BY DEF Detruit, CreationEchoue, LitErreur, yy_fatal_error, yy_delete_buffer, flux,
    parser_data, yy_buffer_state
<1>2. Memoire'
  <2>1. CASE tampon' = tampon
    BY <1>1, <2>1 DEF SInv, Memoire
  <2>2. CASE tampon' = <<>>
    BY <2>2 DEF Memoire
  <2> QED  BY <1>1, <2>1, <2>2
<1>3. Suite'
  BY <1>1 DEF SInv, Suite
<1>4. journal' \in Seq(Entree) /\ JetonsExacts'
  BY <1>1, JournalInchange
<1> QED  BY <1>2, <1>3, <1>4 DEF SInv

LEMMA PasExact == SInv /\ [Next]_vars => SInv'
<1> SUFFICES ASSUME SInv, [Next]_vars PROVE SInv'
  OBVIOUS
<1>1. IInv'
  BY PasConserve DEF SInv
<1>2. CASE Clore \/ UNCHANGED vars
  <2>1. /\ UNCHANGED <<flot, lus, tampon, yytext, journal, pc, yy_buffer_status, yy_cp,
                       yy_c_buf_p, reprise, yy_current_state, yy_last_accepting_state,
                       yy_last_accepting_cpos>>
    BY <1>2 DEF Clore, vars, flux, yy_buffer_state, yyguts_t, automate, parser_data
  <2>2. Position' = Position /\ Memoire' /\ (Casse(Position)' <=> Casse(Position))
    BY <2>1, SurPlace DEF SInv, Casse, PaquetA
  <2>3. SensJeton => SensJeton'
    <3>1. \A q, n : Sens(Position, q, n)' <=> Sens(Position, q, n)
      BY <2>1, SurPlace
    <3>2. PICK m : m = yy_cp - yytext
      OBVIOUS
    <3>3. PICK i : i = yy_last_accepting_cpos - yytext
      OBVIOUS
    <3>4. PICK q : q = yy_current_state
      OBVIOUS
    <3>5. PICK l : l = yy_last_accepting_state
      OBVIOUS
    <3>6. (Sens(Position, q, m)' <=> Sens(Position, q, m)) /\ (Sens(Position, l, i)' <=> Sens(Position, l, i))
      BY <3>1
    <3> QED  BY <2>1, <2>2, <3>2, <3>3, <3>4, <3>5, <3>6 DEF SensJeton
  <2>4. Suite'
    BY <2>1, <2>2, <2>3 DEF SInv, Suite
  <2>5. journal' \in Seq(Entree) /\ JetonsExacts'
    BY <2>1, <2>2, JournalInchange
  <2> QED  BY <1>1, <2>2, <2>4, <2>5 DEF SInv
<1>3. CASE Yylex
  BY <1>1, <1>3, AutomateExact, ReculeExact, ReglesExactes, FinTamponExact,
     LectureExacte, FinFlotExact, RelitExact, FinRelectureExacte, EssaieNulExact, FinsExactes
  DEF Yylex
<1>4. CASE PremierAppel \/ CreationEchoue \/ Appel \/ Detruit
  BY <1>1, <1>4, AppelsExacts, FinsExactes
<1> QED  BY <1>2, <1>3, <1>4 DEF Next

LEMMA InitialementExact == Init => SInv
<1> SUFFICES ASSUME Init PROVE SInv
  OBVIOUS
<1>1. IInv
  BY Initialement
<1>2. /\ Len(tampon) = 0 /\ Len(journal) = 0 /\ DOMAIN journal = {}
      /\ journal \in Seq(Entree) /\ lus = 0 /\ yytext = 0
  BY DEF Init
<1>3. Memoire
  BY <1>2 DEF Memoire
<1>4. Suite
  BY DEF Init, Suite
<1>5. JetonsExacts
  <2>1. Fin(Len(journal)) = 0 /\ Position = 0
    BY <1>2 DEF Fin, Position, yy_n_chars
  <2> QED  BY <1>2, <2>1 DEF JetonsExacts
<1> QED  BY <1>1, <1>2, <1>3, <1>4, <1>5 DEF SInv

(***************************************************************************)
(* However read(2) cuts the stream, the texts of the rules of yylex are    *)
(* its bytes, in order and without a gap, each what its rule says, and a   *)
(* '$' is taken for an error only where no packet begins                   *)
(* (scanner.c:761-841, over the buffer of yy_get_next_buffer): for every   *)
(* stream, however long, and every size of the buffers.                    *)
(***************************************************************************)
THEOREM JetonsToujoursExacts == Spec => []JetonsExacts
<1>1. SInv => JetonsExacts
  BY DEF SInv
<1>2. Spec => []SInv
  BY InitialementExact, PasExact, PTL DEF Spec
<1> QED  BY <1>1, <1>2, PTL
-----------------------------------------------------------------------------
(***************************************************************************)
(* What the automaton holds when it runs into the end of the buffer: the   *)
(* beginning of a packet, a NUL, or nothing.                               *)
(***************************************************************************)
Entame(d, m) ==
  /\ m >= 1 /\ flot[d + 1] = Dollar
  /\ \/ Dedans(d, 2, m)
     \/ m >= 2 /\ Dedans(d, 2, m - 1) /\ flot[d + m] = Diese
     \/ m >= 3 /\ Dedans(d, 2, m - 2) /\ flot[d + (m - 1)] = Diese /\ flot[d + m] = Hexa

Tient(d, m) ==
  m = 0 \/ (m = 1 /\ flot[d + 1] = NUL) \/ Entame(d, m)

EnSuspens ==   \* no whole token is behind the automaton
  \/ yy_current_state \in {1, 6, 9, 10, 11}
  \/ yy_current_state = 4 /\ flot[Position + 1] = NUL

Reste == Len(tampon) - yytext

Retenue ==
  /\ pc = "automate" => EnSuspens \/ yy_current_state = 3
  /\ pc = "relecture" /\ reprise # "nul" => EnSuspens /\ Tient(Position, yy_c_buf_p - yytext)
  /\ /\ pc \in {"automate", "action", "relecture"}
     /\ \/ yy_current_state = 3 /\ yy_cp = Len(tampon) + 1
        \/ /\ yy_current_state \notin Finals \union {1}
           /\ yy_last_accepting_state = 3 /\ yy_last_accepting_cpos = Len(tampon) + 1
     => Tient(Position, Reste)
  /\ pc = "lecture" => Tient(Position, Reste)
  /\ pc = "repos" /\ retour = "EOF" => lus = Len(flot) /\ Reste = 0

RInv == SInv /\ Retenue

(***************************************************************************)
(* A state in suspense has read the beginning of something; the characters *)
(* of a beginning lead to states in suspense.                              *)
(***************************************************************************)
LEMMA SuspensTient ==
  ASSUME NEW d \in Nat, NEW n \in Nat, NEW q, Sens(d, q, n), q = 1 <=> n = 0,
         q \in {1, 6, 9, 10, 11} \/ (q = 4 /\ flot[d + 1] = NUL)
  PROVE  Tient(d, n)
<1>1. CASE q = 1
  BY <1>1 DEF Tient
<1>2. CASE q = 4
  BY <1>2 DEF Sens, Tient
<1>3. CASE q = 6
  BY <1>3 DEF Sens, Tient, Entame, Dedans
<1>4. CASE q = 9
  BY <1>4 DEF Sens, Tient, Entame
<1>5. CASE q = 10
  BY <1>5 DEF Sens, Tient, Entame
<1>6. CASE q = 11
  BY <1>6 DEF Sens, Tient, Entame
<1> QED  BY <1>1, <1>2, <1>3, <1>4, <1>5, <1>6

LEMMA EntameSuit ==
  ASSUME NEW d \in Nat, NEW m \in Nat, NEW n \in Nat, n < m, Tient(d, m),
         NEW q \in Etats, Sens(d, q, n), q = 1 <=> n = 0,
         q \in {1, 6, 9, 10, 11} \/ (q = 4 /\ flot[d + 1] = NUL),
         NEW c \in Classe,
         c = flot[d + (n + 1)] \/ (flot[d + (n + 1)] = NUL /\ c = 1), c # NUL
  PROVE  \/ Suivant(q, c) \in {6, 9, 10, 11}
         \/ Suivant(q, c) = 4 /\ flot[d + 1] = NUL
<1>1. CASE q = 1
  <2>1. n = 0 /\ d + (n + 1) = d + 1
    BY <1>1
  <2>2. CASE flot[d + 1] = NUL
    <3>1. c = 1
      BY <2>1, <2>2
    <3> QED  BY <1>1, <2>2, <3>1, DuDebut
  <2>3. CASE flot[d + 1] # NUL
    <3>1. c = Dollar
      BY <2>1, <2>3 DEF Tient, Entame
    <3> QED  BY <1>1, <3>1, DuDebut
  <2> QED  BY <2>2, <2>3
<1>2. CASE q = 4
  <2>1. n = 1 /\ m >= 2 /\ flot[d + 1] = NUL
    BY <1>2 DEF Sens
  <2> QED  BY <2>1 DEF Tient, Entame, NUL, Dollar
<1>3. CASE q \in {6, 9, 10, 11}
  <2>1. n >= 1 /\ m >= 2 /\ flot[d + 1] = Dollar
    BY <1>3 DEF Sens
  <2>2. Entame(d, m)
    BY <2>1 DEF Tient, NUL, Dollar
  <2>3. c \in {Dollar, Diese, Hexa} \/ flot[d + (n + 1)] \in {Dollar, Diese, Hexa} =>
          c = flot[d + (n + 1)]
    BY DEF NUL, Dollar, Diese, Hexa
  <2>4. flot[d + (n + 1)] # Dollar
    <3>1. CASE Dedans(d, 2, m)
      BY <2>1, <3>1 DEF Dedans
    <3>2. CASE Dedans(d, 2, m - 1) /\ flot[d + m] = Diese
      <4>1. n + 1 \in 2 .. m - 1 \/ n + 1 = m
        BY <2>1
      <4> QED  BY <3>2, <4>1 DEF Dedans, Dollar, Diese
    <3>3. CASE Dedans(d, 2, m - 2) /\ flot[d + (m - 1)] = Diese /\ flot[d + m] = Hexa
      <4>1. n + 1 \in 2 .. m - 2 \/ n + 1 = m - 1 \/ n + 1 = m
        BY <2>1
      <4> QED  BY <3>3, <4>1 DEF Dedans, Dollar, Diese, Hexa
    <3> QED  BY <2>2, <3>1, <3>2, <3>3 DEF Entame
  <2>5. CASE q \in {6, 9}
    <3>1. c # Dollar
      BY <2>3, <2>4
    <3> QED  BY <2>5, <3>1, DansLePaquet
  <2>6. CASE q = 10
    <3>1. n >= 2 /\ flot[d + n] = Diese
      BY <2>6 DEF Sens
    <3>2. ~ Dedans(d, 2, m) /\ ~ Dedans(d, 2, m - 1)
      BY <3>1 DEF Dedans
    <3>3. m >= 3 /\ Dedans(d, 2, m - 2) /\ flot[d + m] = Hexa
      BY <2>2, <3>2 DEF Entame
    <3>4. n \notin 2 .. m - 2
      BY <3>1, <3>3 DEF Dedans
    <3>5. n + 1 = m
      BY <3>1, <3>4
    <3>6. c = Hexa
      BY <2>3, <3>3, <3>5
    <3> QED  BY <2>6, <3>6, DansLePaquet DEF NUL, Hexa
  <2>7. CASE q = 11
    <3>1. n >= 3 /\ flot[d + (n - 1)] = Diese
      BY <2>7 DEF Sens
    <3>2. n - 1 \in 2 .. m - 2
      BY <3>1
    <3>3. ~ Dedans(d, 2, m) /\ ~ Dedans(d, 2, m - 1) /\ ~ Dedans(d, 2, m - 2)
      BY <3>1, <3>2 DEF Dedans
    <3> QED  BY <2>2, <3>3 DEF Entame
  <2> QED  BY <1>3, <2>5, <2>6, <2>7
<1> QED  BY <1>1, <1>2, <1>3

LEMMA TientSurPlace ==
  ASSUME UNCHANGED <<flot, lus, tampon, yytext>>
  PROVE  /\ Position' = Position /\ Reste' = Reste
         /\ \A m : Tient(Position, m)' <=> Tient(Position, m)
         /\ Tient(Position, Reste)' <=> Tient(Position, Reste)
<1>1. Position' = Position /\ Reste' = Reste
  BY DEF Position, Reste, yy_n_chars
<1> QED  BY <1>1 DEF Tient, Entame, Dedans
(***************************************************************************)
(* What the token in the buffer holds back is kept by one more character.  *)
(***************************************************************************)
EnFace ==   \* the automaton has run into the end of the buffer, or will back up to it
  \/ yy_current_state = 3 /\ yy_cp = Len(tampon) + 1
  \/ /\ yy_current_state \notin Finals \union {1}
     /\ yy_last_accepting_state = 3 /\ yy_last_accepting_cpos = Len(tampon) + 1

LEMMA EnFaceVient ==
  ASSUME SInv, pc \in {"automate", "relecture"}, NEW c \in Classe, Memorise(yy_cp),
         yy_current_state' = Suivant(yy_current_state, c), yy_cp' = yy_cp + 1,
         UNCHANGED <<flot, lus, tampon, yytext>>, EnFace',
         yy_cp = Len(tampon) /\ Suivant(yy_current_state, c) = 3 => EnSuspens
  PROVE  Tient(Position, Reste) \/ EnFace
<1>1. /\ TypeOK /\ EnJeton /\ SensJeton /\ yy_cp \in Nat /\ Len(tampon) \in Nat
      /\ Position \in Nat /\ yytext \in Nat
  BY PositionDuJeton DEF SInv, IInv, TypeOK, Balayage, Suite
<1>2. PICK q \in Etats : q = yy_current_state
  BY <1>1 DEF EnJeton
<1>3. CASE yy_current_state' = 3 /\ yy_cp' = Len(tampon) + 1
  <2>1. yy_cp = Len(tampon) /\ EnSuspens
    BY <1>1, <1>3
  <2>2. PICK n \in Nat : n = yy_cp - yytext /\ n = Reste
    <3>1. yytext <= yy_cp /\ Reste = yy_cp - yytext
      BY <1>1, <2>1 DEF EnJeton, Reste
    <3>2. yy_cp - yytext \in Nat
      BY <1>1, <3>1
    <3> QED  BY <3>1, <3>2
  <2>3. Sens(Position, q, n) /\ (q = 1 <=> n = 0)
    BY <1>1, <1>2, <2>2 DEF SensJeton, EnJeton
  <2>4. Tient(Position, n)
    BY <1>1, <1>2, <2>1, <2>3, SuspensTient DEF EnSuspens
  <2> QED  BY <2>2, <2>4
<1>4. CASE /\ yy_current_state' \notin Finals \union {1}
           /\ yy_last_accepting_state' = 3 /\ yy_last_accepting_cpos' = Len(tampon) + 1
  <2>1. q # 1
    BY <1>2, <1>4, Transitions
  <2>2. CASE q \in Finals
    BY <1>1, <1>2, <1>4, <2>2, Acceptations DEF Memorise, EnFace
  <2>3. CASE q \notin Finals
    BY <1>2, <1>4, <2>1, <2>3, Acceptations DEF Memorise, EnFace
  <2> QED  BY <2>2, <2>3
<1> QED  BY <1>3, <1>4 DEF EnFace

LEMMA AutomateRetient ==
  ASSUME RInv, SInv', Automate
  PROVE  Retenue'
<1>1. /\ pc = "automate" /\ yy_cp' = yy_cp + 1 /\ Memorise(yy_cp)
      /\ yy_current_state' = Suivant(yy_current_state, Octet(yy_cp))
      /\ pc' = IF yy_base[yy_current_state'] # SansIssue THEN "automate" ELSE "action"
      /\ UNCHANGED <<flot, lus, tampon, yytext>>
  BY DEF Automate, flux, yy_buffer_state
<1>2. TypeOK /\ EnJeton /\ yy_cp \in Nat /\ (EnSuspens \/ yy_current_state = 3)
  BY <1>1 DEF RInv, SInv, IInv, Balayage, TypeOK, Retenue
<1>3. Octet(yy_cp) \in Classe
  BY <1>2, OctetLu
<1>4. pc' = "automate" => yy_current_state' \in {3, 6, 9, 10, 11}
  <2>1. pc' = "automate" => yy_base[yy_current_state'] # 14
    BY <1>1 DEF SansIssue
  <2>2. yy_current_state' \in Etats /\ yy_current_state' # 1
    BY <1>1, <1>2, <1>3, Transitions DEF EnJeton
  <2> QED  BY <2>1, <2>2, Bases DEF Etats
<1>5. EnFace' => Tient(Position, Reste)'
  <2>1. SUFFICES ASSUME EnFace' PROVE Tient(Position, Reste)'
    OBVIOUS
  <2>2. Suivant(yy_current_state, Octet(yy_cp)) = 3 => EnSuspens
    BY <1>2, <1>3, Transitions DEF EnJeton
  <2>3. Tient(Position, Reste) \/ EnFace
    BY <1>1, <1>3, <2>1, <2>2, EnFaceVient DEF RInv
  <2>4. Tient(Position, Reste)
    BY <1>1, <2>3 DEF RInv, Retenue, EnFace
  <2> QED  BY <1>1, <2>4, TientSurPlace
<1> QED  BY <1>1, <1>4, <1>5 DEF Retenue, EnSuspens, EnFace

LEMMA RelitRetient ==
  ASSUME RInv, SInv', Relit
  PROVE  Retenue'
<1>1. /\ pc = "relecture" /\ yy_cp < yy_c_buf_p /\ Memorise(yy_cp)
      /\ yy_current_state' = Suivant(yy_current_state, OctetNonNul(yy_cp))
      /\ yy_cp' = yy_cp + 1
      /\ UNCHANGED <<flot, lus, tampon, yytext, yy_c_buf_p, reprise, pc>>
  BY DEF Relit, flux, yy_buffer_state
<1>2. /\ TypeOK /\ EnJeton /\ SensJeton /\ Memoire /\ yy_cp \in Nat /\ yytext \in Nat
      /\ yy_c_buf_p \in Nat /\ yy_cp < Len(tampon) /\ Len(tampon) \in Nat /\ Position \in Nat
  BY <1>1, PositionDuJeton DEF RInv, SInv, IInv, Balayage, Lecture, Suite, TypeOK
<1>3. PICK c \in Classe \ {NUL} : c = OctetNonNul(yy_cp)
  BY <1>2, OctetLu
<1>4. Octet(yy_cp) = flot[Position + (yy_cp - yytext + 1)]
  BY <1>2, OctetDuFlot
<1>5. EnFace' => Tient(Position, Reste)'
  <2>1. SUFFICES ASSUME EnFace' PROVE Tient(Position, Reste)'
    OBVIOUS
  <2>2. yy_cp # Len(tampon)
    BY <1>2
  <2>3. Tient(Position, Reste) \/ EnFace
    BY <1>1, <1>3, <2>1, <2>2, EnFaceVient DEF RInv
  <2>4. Tient(Position, Reste)
    BY <1>1, <2>3 DEF RInv, Retenue, EnFace
  <2> QED  BY <1>1, <2>4, TientSurPlace
<1>6. reprise # "nul" => EnSuspens' /\ Tient(Position, yy_c_buf_p - yytext)'
  <2>1. SUFFICES ASSUME reprise # "nul"
                 PROVE  EnSuspens' /\ Tient(Position, yy_c_buf_p - yytext)'
    OBVIOUS
  <2>2. EnSuspens /\ Tient(Position, yy_c_buf_p - yytext)
    BY <1>1, <2>1 DEF RInv, Retenue
  <2>3. PICK m \in Nat : m = yy_c_buf_p - yytext
    BY <1>1, <1>2 DEF EnJeton
  <2>4. PICK n \in Nat : n = yy_cp - yytext /\ n < m
    BY <1>1, <1>2, <2>3 DEF EnJeton
  <2>5. PICK q \in Etats : q = yy_current_state
    BY <1>2 DEF EnJeton
  <2>6. Sens(Position, q, n) /\ (q = 1 <=> n = 0)
    BY <1>2, <2>4, <2>5 DEF SensJeton, EnJeton
  <2>7. c = flot[Position + (n + 1)] \/ (flot[Position + (n + 1)] = NUL /\ c = 1)
    BY <1>3, <1>4, <2>4 DEF OctetNonNul
  <2>8. Tient(Position, m)
    BY <2>2, <2>3
  <2>9. q \in {1, 6, 9, 10, 11} \/ (q = 4 /\ flot[Position + 1] = NUL)
    BY <2>2, <2>5 DEF EnSuspens
  <2>10. \/ Suivant(q, c) \in {6, 9, 10, 11}
         \/ Suivant(q, c) = 4 /\ flot[Position + 1] = NUL
    BY <1>2, <1>3, <2>4, <2>6, <2>7, <2>8, <2>9, EntameSuit
  <2>11. EnSuspens'
    BY <1>1, <1>3, <2>5, <2>10, TientSurPlace DEF EnSuspens
  <2>12. Tient(Position, m)'
    BY <1>1, <2>8, TientSurPlace
  <2> QED  BY <1>1, <2>3, <2>11, <2>12
<1> QED  BY <1>1, <1>5, <1>6 DEF Retenue, EnFace

LEMMA FinRelectureRetient ==
  ASSUME RInv, SInv', FinRelecture
  PROVE  Retenue'
<1>1. /\ pc = "relecture" /\ reprise # "nul" /\ pc' \in {"automate", "action"}
      /\ UNCHANGED <<flot, lus, tampon, yytext, yy_cp, yy_current_state,
                     yy_last_accepting_state, yy_last_accepting_cpos>>
  BY DEF FinRelecture, flux, yy_buffer_state, yyguts_t, automate
<1>2. EnSuspens'
  BY <1>1, TientSurPlace DEF RInv, Retenue, EnSuspens
<1>3. EnFace' => Tient(Position, Reste)'
  <2>1. EnFace' => EnFace
    BY <1>1 DEF EnFace
  <2>2. EnFace => Tient(Position, Reste)
    BY <1>1 DEF RInv, Retenue, EnFace
  <2> QED  BY <1>1, <2>1, <2>2, TientSurPlace
<1> QED  BY <1>1, <1>2, <1>3 DEF Retenue, EnFace

LEMMA EssaieNulRetient ==
  ASSUME RInv, SInv', EssaieNul
  PROVE  Retenue'
<1>1. /\ pc = "relecture" /\ yy_cp >= yy_c_buf_p /\ reprise = "nul" /\ Memorise(yy_c_buf_p)
      /\ UNCHANGED <<flot, lus, tampon, yytext>>
  BY DEF EssaieNul, flux, yy_buffer_state
<1>2. /\ TypeOK /\ EnJeton /\ SensJeton /\ yy_cp \in Nat /\ yy_cp = yy_c_buf_p
      /\ yy_cp < Len(tampon) /\ Position \in Nat /\ Len(tampon) \in Nat /\ yytext \in Nat
      /\ flot[Position + (yy_cp - yytext + 1)] = NUL
  <2>1. /\ TypeOK /\ EnJeton /\ SensJeton /\ yy_cp <= yy_c_buf_p /\ yy_c_buf_p < Len(tampon)
        /\ flot[Position + (yy_c_buf_p - yytext + 1)] = NUL
    BY <1>1 DEF RInv, SInv, IInv, Balayage, Lecture, Suite
  <2>2. yy_cp \in Nat /\ yy_c_buf_p \in Nat
    BY <2>1 DEF TypeOK
  <2>3. yy_cp = yy_c_buf_p
    BY <1>1, <2>1, <2>2
  <2> QED  BY <2>1, <2>2, <2>3, PositionDuJeton
<1>3. 1 \in Classe
  BY DEF Classe
<1>4. PICK q \in Etats : q = yy_current_state
  BY <1>2 DEF EnJeton
<1>5. CASE yy_try_NUL_trans # Jam
  <2>1. /\ yy_current_state' = Suivant(yy_current_state, 1)
        /\ yy_cp' = yy_cp + 1 /\ pc' = "automate"
    BY <1>2, <1>5 DEF EssaieNul, yy_try_NUL_trans
  <2>2. EnFace' => Tient(Position, Reste)'
    <3>1. SUFFICES ASSUME EnFace' PROVE Tient(Position, Reste)'
      OBVIOUS
    <3>2. yy_cp # Len(tampon)
      BY <1>2
    <3>3. Tient(Position, Reste) \/ EnFace
      BY <1>1, <1>2, <1>3, <2>1, <3>1, <3>2, EnFaceVient DEF RInv
    <3>4. Tient(Position, Reste)
      BY <1>1, <3>3 DEF RInv, Retenue, EnFace
    <3> QED  BY <1>1, <3>4, TientSurPlace
  <2>3. EnSuspens'
    <3>1. CASE q = 1
      <4>1. yy_cp - yytext = 0 /\ Position + (yy_cp - yytext + 1) = Position + 1
        BY <1>2, <1>4, <3>1 DEF EnJeton
      <4>2. flot'[Position' + 1] = NUL
        BY <1>1, <1>2, <4>1, TientSurPlace
      <4> QED  BY <1>4, <2>1, <3>1, <4>2, DuDebut DEF EnSuspens
    <3>2. CASE q \in {6, 9}
      BY <1>3, <1>4, <2>1, <3>2, DansLePaquet DEF EnSuspens, NUL, Dollar, Diese
    <3>3. CASE q \in {10, 11}
      BY <1>3, <1>4, <1>5, <3>3, DansLePaquet DEF yy_try_NUL_trans, Jam, NUL, Hexa
    <3>4. CASE q \in {3, 4, 5, 7, 8, 12, 13}
      BY <1>3, <1>4, <1>5, <3>4, SansSuite DEF yy_try_NUL_trans, Jam, NUL
    <3> QED  BY <3>1, <3>2, <3>3, <3>4 DEF Etats
  <2> QED  BY <2>1, <2>2, <2>3 DEF Retenue, EnFace
<1>6. CASE yy_try_NUL_trans = Jam
  <2>1. pc' = "action" /\ UNCHANGED <<yy_current_state, yy_cp>>
    BY <1>6 DEF EssaieNul
  <2>2. EnFace' => Tient(Position, Reste)'
    <3>1. q \notin Finals => /\ yy_last_accepting_state' = yy_last_accepting_state
                             /\ yy_last_accepting_cpos' = yy_last_accepting_cpos
      BY <1>1, <1>4, Acceptations DEF Memorise
    <3>2. EnFace' => EnFace
      BY <1>1, <1>2, <1>4, <2>1, <3>1 DEF EnFace
    <3>3. EnFace => Tient(Position, Reste)
      BY <1>1 DEF RInv, Retenue, EnFace
    <3> QED  BY <1>1, <3>2, <3>3, TientSurPlace
  <2> QED  BY <2>1, <2>2 DEF Retenue, EnFace
<1> QED  BY <1>5, <1>6

LEMMA ActionRetient ==
  ASSUME RInv, SInv', Recule \/ VraiNul \/ TamponVide
  PROVE  Retenue'
<1>1. /\ pc = "action" /\ UNCHANGED <<flot, lus, tampon, yytext>>
      /\ EnJeton /\ TypeOK /\ yy_cp \in Nat /\ Len(tampon) \in Nat
      /\ EnFace => Tient(Position, Reste)
  <2>1. pc = "action" /\ UNCHANGED <<flot, lus, tampon, yytext>>
    BY DEF Recule, VraiNul, TamponVide, FinTampon, flux, yy_buffer_state
  <2> QED  BY <2>1 DEF RInv, SInv, IInv, TypeOK, Balayage, Retenue, EnFace
<1>2. CASE Recule
  <2>1. /\ pc' = "action" /\ yy_accept[yy_current_state] = 0
        /\ yy_cp' = yy_last_accepting_cpos /\ yy_current_state' = yy_last_accepting_state
        /\ UNCHANGED <<yy_last_accepting_state, yy_last_accepting_cpos>>
    BY <1>1, <1>2 DEF Recule
  <2>2. yy_current_state \notin Finals \union {1}
    BY <1>1, <2>1, Acceptations DEF EnJeton, RInv, SInv, IInv, Lecture
  <2>3. yy_current_state' \in Finals
    BY <1>1, <2>1, <2>2 DEF EnJeton, Arret
  <2>4. EnFace' => EnFace
    BY <1>1, <2>1, <2>2, <2>3 DEF EnFace
  <2>5. EnFace' => Tient(Position, Reste)'
    BY <1>1, <2>4, TientSurPlace
  <2> QED  BY <2>1, <2>5 DEF Retenue, EnFace
<1>3. CASE VraiNul
  BY <1>3 DEF VraiNul, Retenue, Finals
<1>4. CASE TamponVide
  <2>1. pc' = "lecture" /\ yy_cp > Len(tampon) /\ yy_accept[yy_current_state] = 6
    BY <1>1, <1>4 DEF TamponVide, FinTampon, yy_n_chars
  <2>2. yy_current_state = 3
    BY <1>1, <2>1, Acceptations DEF EnJeton
  <2>3. yy_cp = Len(tampon) + 1
    BY <1>1, <2>1, <2>2 DEF EnJeton, Arret, Finals
  <2>4. Tient(Position, Reste)'
    BY <1>1, <2>2, <2>3, TientSurPlace DEF EnFace
  <2> QED  BY <2>1, <2>4 DEF Retenue
<1> QED  BY <1>2, <1>3, <1>4
LEMMA LectureRetient ==
  ASSUME RInv, SInv', Lit \/ DernierJeton \/ Agrandit \/ FinFlot
  PROVE  Retenue'
<1>1. /\ pc = "lecture" /\ TypeOK /\ yy_c_buf_p = Len(tampon) + 1 /\ Tient(Position, Reste)
      /\ yy_buffer_status = "fin" => lus = Len(flot)
  <2>1. pc = "lecture"
    BY DEF Lit, DernierJeton, Agrandit, FinFlot, Epuise
  <2> QED  BY <2>1 DEF RInv, SInv, IInv, Lecture, Suite, Retenue
<1>2. ASSUME NEW k \in Nat, Relecture(k), lus' = lus + k, lus + k <= Len(flot)
      PROVE  Retenue'
  <2>1. PICK m : m = number_to_move
    OBVIOUS
  <2>2. /\ m = Reste /\ m \in Nat /\ Len(Deplace(k)) = m + k
        /\ Position = lus - m /\ lus \in Nat
    BY <1>1, <1>2, <2>1, DeplaceExact, PositionDuJeton DEF Reste
  <2>3. /\ tampon' = Deplace(k) /\ yytext' = 0 /\ yy_current_state' = 1
        /\ yy_c_buf_p' = m /\ pc' = "relecture" /\ flot' = flot
    BY <1>2, <2>1 DEF Relecture
  <2>4. Position' = Position
    <3>1. Position' = lus' - Len(tampon') + yytext'
      BY DEF Position, yy_n_chars
    <3> QED  BY <1>2, <2>2, <2>3, <3>1
  <2>5. Tient(Position, m)'
    BY <1>1, <2>2, <2>3, <2>4 DEF Tient, Entame, Dedans
  <2>6. yy_c_buf_p' - yytext' = m
    BY <2>2, <2>3
  <2> QED  BY <2>3, <2>5, <2>6 DEF Retenue, EnSuspens, Finals
<1>3. CASE Lit
  <2>1. PICK k \in 1 .. YY_READ_BUF_SIZE :
          lus + k <= Len(flot) /\ lus' = lus + k /\ Relecture(k)
    BY <1>3 DEF Lit
  <2>2. k \in Nat
    BY <2>1, ScannerAssumption
  <2> QED  BY <1>2, <2>1, <2>2
<1>4. CASE DernierJeton
  <2>1. Relecture(0) /\ lus' = lus + 0 /\ lus + 0 <= Len(flot)
    BY <1>1, <1>4, PositionDuJeton DEF DernierJeton
  <2> QED  BY <1>2, <2>1
<1>5. CASE Agrandit
  <2>1. UNCHANGED <<flot, lus, tampon, yytext, pc>>
    BY <1>5 DEF Agrandit, flux, yyguts_t
  <2> QED  BY <1>1, <2>1, TientSurPlace DEF Retenue
<1>6. CASE FinFlot
  <2>1. lus = Len(flot) /\ tampon' = <<>> /\ yytext' = 0 /\ pc' = "repos" /\ UNCHANGED <<flot, lus>>
    BY <1>1, <1>6 DEF FinFlot, Epuise, yyrestart, yy_flush_buffer, yy_load_buffer_state, flux
  <2>2. Reste' = 0
    BY <2>1 DEF Reste
  <2> QED  BY <2>1, <2>2 DEF Retenue
<1> QED  BY <1>3, <1>4, <1>5, <1>6

LEMMA PasRetient == RInv /\ [Next]_vars => RInv'
<1> SUFFICES ASSUME RInv, [Next]_vars PROVE RInv'
  OBVIOUS
<1>1. SInv'
  BY PasExact DEF RInv
<1>2. CASE Clore \/ UNCHANGED vars
  <2>1. UNCHANGED <<flot, lus, tampon, yytext, pc, retour, yy_cp, yy_c_buf_p, reprise,
                   yy_current_state, yy_last_accepting_state, yy_last_accepting_cpos>>
    BY <1>2 DEF Clore, vars, flux, yy_buffer_state, yyguts_t, automate
  <2>2. (EnSuspens' <=> EnSuspens) /\ (EnFace' <=> EnFace)
    BY <2>1, TientSurPlace DEF EnSuspens, EnFace
  <2>3. PICK m : m = yy_c_buf_p - yytext
    OBVIOUS
  <2>4. Tient(Position, m)' <=> Tient(Position, m)
    BY <2>1, TientSurPlace
  <2>5. Retenue'
    BY <2>1, <2>2, <2>3, <2>4, TientSurPlace DEF RInv, Retenue, EnFace
  <2> QED  BY <1>1, <2>5 DEF RInv
<1>3. CASE RegleAccuse \/ RegleDemande \/ ReglePaquet \/ RegleErreur \/ RegleEcho
           \/ PremierAppel \/ Appel
  <2>1. /\ pc' \in {"automate", "repos"} /\ (pc' = "repos" => retour' # "EOF")
        /\ yy_current_state' = 1
    BY <1>3 DEF RegleAccuse, RegleDemande, ReglePaquet, RegleErreur, RegleEcho,
      PremierAppel, Appel, DebutJeton
  <2> QED  BY <1>1, <2>1 DEF RInv, Retenue, EnSuspens, Finals
<1>4. CASE Detruit \/ CreationEchoue \/ LitErreur
  <2>1. pc' \in {"detruit", "erreur"}
    BY <1>4 DEF Detruit, CreationEchoue, LitErreur, yy_fatal_error
  <2> QED  BY <1>1, <2>1 DEF RInv, Retenue
<1>5. CASE Automate \/ Relit \/ FinRelecture \/ EssaieNul
  BY <1>1, <1>5, AutomateRetient, RelitRetient, FinRelectureRetient, EssaieNulRetient DEF RInv
<1>6. CASE Recule \/ VraiNul \/ TamponVide
  BY <1>1, <1>6, ActionRetient DEF RInv
<1>7. CASE Lit \/ DernierJeton \/ Agrandit \/ FinFlot
  BY <1>1, <1>7, LectureRetient DEF RInv
<1> QED  BY <1>2, <1>3, <1>4, <1>5, <1>6, <1>7 DEF Next, Yylex

(***************************************************************************)
(* What is held back, as SansRetard says it of the buffer.                 *)
(***************************************************************************)
LEMMA TientEnMain ==
  ASSUME TypeOK, Memoire, Tient(Position, Reste)
  PROVE  EnMain = <<>> \/ EnMain = <<NUL>> \/ DebutPaquet(EnMain)
<1>1. PICK m \in Nat : m = Reste
  BY PositionDuJeton DEF Reste
<1>2. PICK d \in Nat : d = Position
  BY PositionDuJeton
<1>3. PICK s : s = EnMain
  OBVIOUS
<1>4. /\ tampon \in Seq(Classe) /\ Len(tampon) \in Nat /\ yytext \in Nat
      /\ m = Len(tampon) - yytext /\ d = lus - Len(tampon) + yytext /\ lus \in Nat
  BY <1>1, <1>2, PositionDuJeton DEF TypeOK, Reste
<1>5. s \in Seq(Classe) /\ Len(s) = m
  BY <1>3, <1>4 DEF EnMain, yy_n_chars
<1>6. ASSUME NEW k \in 1 .. m PROVE s[k] = flot[d + k]
  <2>1. s[k] = tampon[yytext + k] /\ yytext + k \in 1 .. Len(tampon)
    BY <1>3, <1>4 DEF EnMain, yy_n_chars
  <2>2. lus - Len(tampon) + (yytext + k) = d + k
    BY <1>4
  <2> QED  BY <2>1, <2>2 DEF Memoire
<1>7. CASE m = 0
  BY <1>3, <1>5, <1>7
<1>8. CASE m = 1 /\ flot[d + 1] = NUL
  <2>1. s[1] = NUL
    BY <1>6, <1>8
  <2>2. s = <<NUL>>
    BY <1>5, <1>8, <2>1
  <2> QED  BY <1>3, <2>2
<1>9. CASE Entame(d, m)
  <2>1. m >= 1 /\ s # <<>> /\ s[1] = Dollar
    BY <1>5, <1>6, <1>9 DEF Entame
  <2>2. ASSUME NEW j \in 1 .. m, Dedans(d, 2, j) PROVE Corps(s, 2, j)
    BY <1>6, <2>2 DEF Corps, Dedans
  <2>3. CASE Dedans(d, 2, m)
    BY <1>3, <1>5, <2>1, <2>2, <2>3 DEF DebutPaquet
  <2>4. CASE m >= 2 /\ Dedans(d, 2, m - 1) /\ flot[d + m] = Diese
    <3>1. Corps(s, 2, m - 1) /\ s[m] = Diese
      BY <1>6, <2>2, <2>4
    <3> QED  BY <1>3, <1>5, <2>1, <2>4, <3>1 DEF DebutPaquet
  <2>5. CASE /\ m >= 3 /\ Dedans(d, 2, m - 2)
             /\ flot[d + (m - 1)] = Diese /\ flot[d + m] = Hexa
    <3>1. Corps(s, 2, m - 2) /\ s[m - 1] = Diese /\ s[m] = Hexa
      BY <1>6, <2>2, <2>5
    <3> QED  BY <1>3, <1>5, <2>1, <2>5, <3>1 DEF DebutPaquet
  <2> QED  BY <1>9, <2>3, <2>4, <2>5 DEF Entame
<1> QED  BY <1>1, <1>2, <1>7, <1>8, <1>9 DEF Tient

(***************************************************************************)
(* yylex never calls read(2) while it holds a token it could obey or       *)
(* return (scanner.c:893-942, 993-1077): in a stop-and-wait protocol it    *)
(* would wait for ever for an answer to what it has not said.  And it      *)
(* reports the end of the stream only when every byte was obeyed.          *)
(***************************************************************************)
THEOREM JamaisDeRetard == Spec => []SansRetard
<1>1. RInv => SansRetard
  <2> SUFFICES ASSUME RInv PROVE SansRetard
    OBVIOUS
  <2>1. TypeOK /\ Memoire
    BY DEF RInv, SInv, IInv
  <2>2. pc = "lecture" => EnMain = <<>> \/ EnMain = <<NUL>> \/ DebutPaquet(EnMain)
    BY <2>1, TientEnMain DEF RInv, Retenue
  <2>3. pc = "repos" /\ retour = "EOF" => lus = Len(flot) /\ EnMain = <<>>
    <3>1. SUFFICES ASSUME Reste = 0 PROVE EnMain = <<>>
      BY DEF RInv, Retenue
    <3>2. /\ tampon \in Seq(Classe) /\ Len(tampon) \in Nat /\ yytext = Len(tampon)
      BY <2>1, <3>1, PositionDuJeton DEF Reste, TypeOK
    <3> QED  BY <3>2 DEF EnMain, yy_n_chars
  <2> QED  BY <2>2, <2>3 DEF SansRetard
<1>2. Init => RInv
  <2>1. Init => SInv
    BY InitialementExact
  <2>2. Init => Retenue
    BY DEF Init, Retenue
  <2> QED  BY <2>1, <2>2 DEF RInv
<1>3. Spec => []RInv
  BY <1>2, PasRetient, PTL DEF Spec
<1> QED  BY <1>1, <1>3, PTL

-----------------------------------------------------------------------------
(***************************************************************************)
(* Errors and complaints.  Attend is EnAttente, of any journal.            *)
(***************************************************************************)
Erreurs(j, S) == {i \in S : j[i].regle = 4 /\ \A l \in S : j[l].regle = 0 => l < i}

Attend(j, k) == Erreurs(j, 1 .. k - 1)

Alors(j, k) ==   \* PlaintesJustes, of entry k
  /\ j[k].regle \in {1, 2, 3} => Attend(j, k) = {}
  /\ j[k].regle = 0 =>
       /\ Cardinality(Attend(j, k)) \in 1 .. MAX_ERROR_SIZE - 1
       /\ \/ Cardinality(Attend(j, k)) = MAX_ERROR_SIZE - 1
          \/ k = Len(j)
          \/ j[k + 1].regle \in {1, 2, 3}

Suivie(j, n) ==   \* a journal with n errors nobody complained about yet
  /\ j \in Seq(Entree)
  /\ \A k \in 1 .. Len(j) : Alors(j, k)
  /\ IsFiniteSet(Attend(j, Len(j) + 1)) /\ Cardinality(Attend(j, Len(j) + 1)) = n

Continue(j) ==   \* anything may follow its last entry
  Len(j) # 0 /\ j[Len(j)].regle = 0 => Cardinality(Attend(j, Len(j))) = MAX_ERROR_SIZE - 1

LEMMA ErreursLues ==
  ASSUME NEW S, NEW j, NEW a, \A i \in S : a[i] = j[i]
  PROVE  Erreurs(a, S) = Erreurs(j, S)
<1>1. ASSUME NEW i \in S
      PROVE  i \in Erreurs(a, S) <=> i \in Erreurs(j, S)
  BY DEF Erreurs
<1>2. Erreurs(a, S) \subseteq S /\ Erreurs(j, S) \subseteq S
  BY DEF Erreurs
<1> QED
  BY <1>1, <1>2

Allonge(a, j, n, e) ==   \* a is j, of length n, and e behind it
  /\ j \in Seq(Entree) /\ n = Len(j) /\ e \in Entree
  /\ a \in Seq(Entree) /\ Len(a) = n + 1
  /\ a[n + 1] = e /\ \A i \in 1 .. n : a[i] = j[i]

LEMMA Ajoutee ==
  ASSUME NEW j \in Seq(Entree), NEW e \in Entree
  PROVE  Len(j) \in Nat /\ Allonge(Append(j, e), j, Len(j), e)
<1>a. PICK n \in Nat : n = Len(j)
  OBVIOUS
<1>b. PICK a : a = Append(j, e)
  OBVIOUS
<1>1. a \in Seq(Entree) /\ Len(a) = n + 1 /\ a[n + 1] = e /\ \A i \in 1 .. n : a[i] = j[i]
  BY <1>a, <1>b
<1>2. Allonge(a, j, n, e)
  BY <1>1, <1>a DEF Allonge
<1> QED
  BY <1>2, <1>a, <1>b

LEMMA AttendAvant ==
  ASSUME NEW j, NEW e, NEW n \in Nat, NEW a, Allonge(a, j, n, e)
  PROVE  \A k \in 1 .. n + 1 : Attend(a, k) = Attend(j, k)
<1>1. \A i \in 1 .. n : a[i] = j[i]
  BY DEF Allonge
<1>2. ASSUME NEW k \in 1 .. n + 1
      PROVE  Attend(a, k) = Attend(j, k)
  <2>1. \A i \in 1 .. k - 1 : a[i] = j[i]
    BY <1>1
  <2>2. Erreurs(a, 1 .. k - 1) = Erreurs(j, 1 .. k - 1)
    BY <2>1, ErreursLues, Zenon
  <2> QED
    BY <2>2 DEF Attend
<1> QED
  BY <1>2

LEMMA AlorsAvant ==
  ASSUME NEW j, NEW e, NEW n \in Nat, NEW a, Allonge(a, j, n, e),
         \A k \in 1 .. n : Alors(j, k), Alors(a, n + 1),
         e.regle \in {1, 2, 3} \/ Continue(j)
  PROVE  \A k \in 1 .. n + 1 : Alors(a, k)
<1>1. Len(j) = n /\ Len(a) = n + 1 /\ a[n + 1] = e /\ \A i \in 1 .. n : a[i] = j[i]
  BY DEF Allonge
<1>2. ASSUME NEW k \in 1 .. n
      PROVE  Alors(a, k)
  <2>1. Attend(a, k) = Attend(j, k)
    <3>1. k \in 1 .. n + 1
      OBVIOUS
    <3> QED
      BY <3>1, AttendAvant
  <2>2. Alors(j, k) /\ a[k] = j[k]
    BY <1>1
  <2>3. CASE k < n
    <3>1. a[k + 1] = j[k + 1] /\ k # Len(j)
      BY <1>1, <2>3
    <3> QED
      BY <2>1, <2>2, <3>1 DEF Alors
  <2>4. CASE k = n
    <3>1. a[k + 1] = e /\ n # 0
      BY <1>1, <2>4
    <3>2. CASE e.regle \in {1, 2, 3}
      BY <2>1, <2>2, <3>1, <3>2 DEF Alors
    <3>3. CASE Continue(j)
      <4>1. j[k].regle = 0 => Cardinality(Attend(j, k)) = MAX_ERROR_SIZE - 1
        BY <1>1, <2>4, <3>1, <3>3 DEF Continue
      <4> QED
        BY <2>1, <2>2, <4>1 DEF Alors
    <3> QED
      BY <3>2, <3>3
  <2> QED
    BY <2>3, <2>4
<1>3. \A k \in 1 .. n + 1 : k \in 1 .. n \/ k = n + 1
  OBVIOUS
<1> QED
  BY <1>2, <1>3

(***************************************************************************)
(* What waits behind one more entry: as before, one more, or nothing.      *)
(***************************************************************************)
LEMMA AttendApres ==
  ASSUME NEW j, NEW e, NEW n \in Nat, NEW a, Allonge(a, j, n, e)
  PROVE  /\ e.regle \in {1, 2, 3, 5} => Attend(a, n + 2) = Attend(j, n + 1)
         /\ e.regle = 4 => Attend(a, n + 2) = Attend(j, n + 1) \union {n + 1}
         /\ e.regle = 0 => Attend(a, n + 2) = {}
<1>1. a[n + 1] = e /\ \A i \in 1 .. n : a[i] = j[i]
  BY DEF Allonge
<1>2. 1 .. (n + 2) - 1 = (1 .. n) \union {n + 1} /\ 1 .. (n + 1) - 1 = 1 .. n
  OBVIOUS
<1>3. Attend(j, n + 1) = Erreurs(j, 1 .. n)
  BY <1>2 DEF Attend
<1>4. Attend(a, n + 2) = Erreurs(a, (1 .. n) \union {n + 1})
  BY <1>2 DEF Attend
<1>5. \A i \in 1 .. n : ~ (n + 1 < i) /\ i < n + 1 /\ i # n + 1
  OBVIOUS
<1>6. ASSUME NEW i \in 1 .. n, e.regle # 0
      PROVE  i \in Erreurs(a, (1 .. n) \union {n + 1}) <=> i \in Erreurs(j, 1 .. n)
  BY <1>1, <1>6, Zenon DEF Erreurs
<1>7. /\ Erreurs(j, 1 .. n) \subseteq 1 .. n
      /\ Erreurs(a, (1 .. n) \union {n + 1}) \subseteq (1 .. n) \union {n + 1}
  BY DEF Erreurs
<1>8. ASSUME e.regle \in {1, 2, 3, 5}
      PROVE  Attend(a, n + 2) = Attend(j, n + 1)
  <2>1. n + 1 \notin Erreurs(a, (1 .. n) \union {n + 1})
    BY <1>1, <1>8 DEF Erreurs
  <2>2. e.regle # 0
    BY <1>8
  <2>3. Erreurs(a, (1 .. n) \union {n + 1}) = Erreurs(j, 1 .. n)
    BY <1>6, <1>7, <2>1, <2>2, Zenon
  <2> QED
    BY <1>3, <1>4, <2>3, Zenon
<1>9. ASSUME e.regle = 4
      PROVE  Attend(a, n + 2) = Attend(j, n + 1) \union {n + 1}
  <2>1. n + 1 \in Erreurs(a, (1 .. n) \union {n + 1})
    BY <1>1, <1>5, <1>9 DEF Erreurs
  <2>2. e.regle # 0
    BY <1>9
  <2>3. Erreurs(a, (1 .. n) \union {n + 1}) = Erreurs(j, 1 .. n) \union {n + 1}
    BY <1>6, <1>7, <2>1, <2>2, Zenon
  <2> QED
    BY <1>3, <1>4, <2>3, Zenon
<1>10. ASSUME e.regle = 0
      PROVE  Attend(a, n + 2) = {}
  BY <1>1, <1>4, <1>5, <1>10 DEF Erreurs
<1> QED
  BY <1>8, <1>9, <1>10

LEMMA PlainteSuit ==
  ASSUME NEW n \in 1 .. MAX_ERROR_SIZE - 1, NEW j, Suivie(j, n),
         NEW e \in Entree, e.regle = 0
  PROVE  /\ Suivie(Append(j, e), 0)
         /\ n = MAX_ERROR_SIZE - 1 => Continue(Append(j, e))
<1>1. /\ j \in Seq(Entree) /\ \A k \in 1 .. Len(j) : Alors(j, k)
      /\ IsFiniteSet(Attend(j, Len(j) + 1)) /\ Cardinality(Attend(j, Len(j) + 1)) = n
  BY DEF Suivie
<1>a. PICK m \in Nat : m = Len(j)
  BY <1>1
<1>b. PICK a : a = Append(j, e)
  OBVIOUS
<1>c. Allonge(a, j, m, e)
  BY <1>1, <1>a, <1>b, Ajoutee
<1>2. a \in Seq(Entree) /\ Len(a) = m + 1 /\ a[m + 1] = e
  BY <1>c DEF Allonge
<1>3. Attend(a, m + 1) = Attend(j, m + 1)
  <2>1. m + 1 \in 1 .. m + 1
    OBVIOUS
  <2> QED
    BY <1>c, <2>1, AttendAvant
<1>4. Alors(a, m + 1)
  BY <1>1, <1>a, <1>2, <1>3 DEF Alors
<1>5. Continue(j)
  <2> SUFFICES ASSUME m # 0, j[m].regle = 0
               PROVE  FALSE
    BY <1>a DEF Continue
  <2>1. Attend(j, m + 1) = {}
    <3>1. m \in 1 .. (m + 1) - 1 /\ \A i \in 1 .. (m + 1) - 1 : ~ (m < i)
      OBVIOUS
    <3> QED
      BY <3>1 DEF Attend, Erreurs
  <2> QED
    BY <1>1, <1>a, <2>1, FS_EmptySet
<1>6. \A k \in 1 .. m + 1 : Alors(a, k)
  BY <1>1, <1>a, <1>c, <1>4, <1>5, AlorsAvant
<1>7. Attend(a, m + 2) = {}
  BY <1>c, AttendApres
<1>8. Suivie(a, 0)
  <2>1. Attend(a, Len(a) + 1) = {}
    <3>1. Len(a) + 1 = m + 2
      BY <1>2
    <3> QED
      BY <1>7, <3>1
  <2> QED
    BY <1>2, <1>6, <2>1, FS_EmptySet DEF Suivie
<1>9. n = MAX_ERROR_SIZE - 1 => Continue(a)
  BY <1>1, <1>a, <1>2, <1>3 DEF Continue
<1> QED
  BY <1>8, <1>9, <1>b

LEMMA JetonSuit ==
  ASSUME NEW n \in Nat, NEW j, Suivie(j, n), NEW e \in Entree, e.regle \in 1 .. 5,
         e.regle \in {1, 2, 3} => n = 0,
         e.regle \in {4, 5} => Continue(j)
  PROVE  Suivie(Append(j, e), IF e.regle = 4 THEN n + 1 ELSE n)
<1>1. /\ j \in Seq(Entree) /\ \A k \in 1 .. Len(j) : Alors(j, k)
      /\ IsFiniteSet(Attend(j, Len(j) + 1)) /\ Cardinality(Attend(j, Len(j) + 1)) = n
  BY DEF Suivie
<1>a. PICK m \in Nat : m = Len(j)
  BY <1>1
<1>b. PICK a : a = Append(j, e)
  OBVIOUS
<1>c. Allonge(a, j, m, e)
  BY <1>1, <1>a, <1>b, Ajoutee
<1>2. a \in Seq(Entree) /\ Len(a) = m + 1 /\ a[m + 1] = e
  BY <1>c DEF Allonge
<1>3. Attend(a, m + 1) = Attend(j, m + 1)
  <2>1. m + 1 \in 1 .. m + 1
    OBVIOUS
  <2> QED
    BY <1>c, <2>1, AttendAvant
<1>4. Alors(a, m + 1)
  <2>1. n = 0 => Attend(j, m + 1) = {}
    BY <1>1, <1>a, FS_EmptySet
  <2> QED
    BY <1>2, <1>3, <2>1 DEF Alors
<1>5. \A k \in 1 .. m + 1 : Alors(a, k)
  <2>1. e.regle \in {1, 2, 3} \/ Continue(j)
    OBVIOUS
  <2> QED
    BY <1>1, <1>a, <1>c, <1>4, <2>1, AlorsAvant
<1>d. PICK S : S = Attend(j, m + 1)
  OBVIOUS
<1>6. IsFiniteSet(S) /\ Cardinality(S) = n
  BY <1>1, <1>a, <1>d
<1>7. Len(a) + 1 = m + 2
  BY <1>2
<1>8. CASE e.regle = 4
  <2>1. m + 1 \notin S
    BY <1>d DEF Attend, Erreurs
  <2>2. IsFiniteSet(S \union {m + 1}) /\ Cardinality(S \union {m + 1}) = n + 1
    BY <1>6, <2>1, FS_AddElement
  <2>3. Attend(a, Len(a) + 1) = S \union {m + 1}
    <3>1. Attend(a, m + 2) = Attend(j, m + 1) \union {m + 1}
      BY <1>c, <1>8, AttendApres
    <3> QED
      BY <3>1, <1>7, <1>d, Zenon
  <2> QED
    BY <1>2, <1>5, <1>8, <1>b, <2>2, <2>3 DEF Suivie
<1>9. CASE e.regle # 4
  <2>1. Attend(a, Len(a) + 1) = S
    <3>1. e.regle \in {1, 2, 3, 5}
      BY <1>9
    <3>2. Attend(a, m + 2) = Attend(j, m + 1)
      BY <1>c, <3>1, AttendApres
    <3> QED
      BY <3>2, <1>7, <1>d, Zenon
  <2> QED
    BY <1>2, <1>5, <1>6, <1>9, <1>b, <2>1 DEF Suivie
<1> QED
  BY <1>8, <1>9

-----------------------------------------------------------------------------
(***************************************************************************)
(* The error buffer holds what waits; a complaint made at the end of the   *)
(* stream is the last entry there will be.                                 *)
(***************************************************************************)
Scellee ==
  Len(journal) # 0 /\ journal[Len(journal)].regle = 0 => Fin(Len(journal)) = Len(flot)

PInv ==
  /\ RInv /\ Suivie(journal, len) /\ Scellee
  /\ pc = "repos" => len = 0

LEMMA Poursuit ==
  ASSUME PInv, SInv', NEW r \in {4, 5}, Regle(r), UNCHANGED flot, pc' = "automate",
         DebutJeton(yy_cp)
  PROVE  Continue(journal)
<1>1. pc = "action" /\ TypeOK /\ TypeOK' /\ JetonsExacts /\ UNCHANGED <<lus, tampon>>
      /\ yytext' = yy_cp
  BY DEF PInv, RInv, SInv, IInv, Regle, DebutJeton, flux, yy_buffer_state
<1>2. Fin(Len(journal)) = Position
  BY <1>1 DEF JetonsExacts
<1>3. yytext < yy_cp
  <2>a. PICK e : e = Jeton(r)
    OBVIOUS
  <2>1. yy_cp - yytext \in Nat /\ Len(e.texte) = yy_cp - yytext /\ TexteJuste(e)
    <3>1. r \in 1 .. 5 /\ SInv
      BY DEF PInv, RInv
    <3> QED
      BY <2>a, <3>1, JetonExact
  <2>2. e.regle = r
    BY <2>a DEF Jeton
  <2>3. Len(e.texte) = 1
    <3>1. CASE r = 4
      BY <2>1, <2>2, <3>1 DEF TexteJuste
    <3>2. CASE r = 5
      <4>1. e.texte = <<Ligne>>
        BY <2>1, <2>2, <3>2 DEF TexteJuste
      <4> QED
        BY <4>1
    <3> QED
      BY <3>1, <3>2
  <2>4. yy_cp \in Nat /\ yytext \in Nat
    BY <1>1, PositionDuJeton DEF TypeOK
  <2> QED
    BY <2>1, <2>3, <2>4
<1>4. Position < Len(flot)
  <2>1. yy_cp <= Len(tampon) /\ yy_cp \in Nat
    BY <1>1 DEF TypeOK
  <2> QED
    BY <1>1, <1>3, <2>1, PositionDuJeton
<1>5. Position \in Nat /\ Len(flot) \in Nat
  BY <1>1, PositionDuJeton
<1>6. ~ (Len(journal) # 0 /\ journal[Len(journal)].regle = 0)
  BY <1>2, <1>4, <1>5 DEF PInv, Scellee
<1> QED
  BY <1>6 DEF Continue

LEMMA PlainteFaite ==
  ASSUME PInv
  PROVE  /\ Suivie(handle_error, 0)
         /\ Plein => len > 0 /\ Continue(handle_error)
<1>1. len \in 0 .. MAX_ERROR_SIZE - 1 /\ Position \in Nat
  BY PositionDuJeton DEF PInv, RInv, SInv, IInv, TypeOK
<1>2. Plainte \in Entree /\ Plainte.regle = 0
  BY <1>1 DEF Plainte, Entree
<1>3. Suivie(journal, len)
  BY DEF PInv
<1>4. CASE len > 0
  <2>1. len \in 1 .. MAX_ERROR_SIZE - 1
    BY <1>1, <1>4
  <2>2. /\ Suivie(Append(journal, Plainte), 0)
        /\ len = MAX_ERROR_SIZE - 1 => Continue(Append(journal, Plainte))
    BY <1>2, <1>3, <2>1, PlainteSuit
  <2>3. Plein => len = MAX_ERROR_SIZE - 1
    BY <1>1, ScannerAssumption DEF Plein
  <2> QED
    BY <1>4, <2>2, <2>3 DEF handle_error
<1>5. CASE ~ (len > 0)
  <2>1. len = 0
    BY <1>1, <1>5
  <2>2. ~ Plein
    BY <2>1, ScannerAssumption DEF Plein
  <2> QED
    BY <1>3, <1>5, <2>1, <2>2 DEF handle_error
<1> QED
  BY <1>4, <1>5

LEMMA PasDeFin ==
  ASSUME NEW j, NEW r \in 1 .. 5, j \in Seq(Entree), Jeton(r) \in Entree,
         journal' = Append(j, Jeton(r))
  PROVE  Scellee'
<1>1. PICK e \in Entree : e = Jeton(r)
  OBVIOUS
<1>2. e.regle = r
  BY <1>1 DEF Jeton
<1>3. journal'[Len(journal')] = e
  BY <1>1
<1> QED
  BY <1>2, <1>3 DEF Scellee

LEMMA ReglesComptent ==
  ASSUME PInv, RInv',
         RegleAccuse \/ RegleDemande \/ ReglePaquet \/ RegleErreur \/ RegleEcho
  PROVE  PInv'
<1>1. SInv /\ SInv' /\ Suivie(journal, len) /\ len \in Nat
  BY DEF PInv, RInv, SInv, IInv, TypeOK
<1>2. Suivie(handle_error, 0) /\ (Plein => Continue(handle_error))
  BY PlainteFaite
<1>3. ASSUME NEW r \in {1, 2, 3}, Regle(r),
             journal' = Append(handle_error, Jeton(r)), len' = 0
      PROVE  PInv'
  <2>1. Jeton(r) \in Entree /\ Jeton(r).regle = r
    <3>1. r \in 1 .. 5
      OBVIOUS
    <3>2. Jeton(r) \in Entree
      BY <1>1, <1>3, <3>1, JetonExact
    <3> QED
      BY <3>2 DEF Jeton
  <2>2. Suivie(Append(handle_error, Jeton(r)), 0)
    BY <1>2, <2>1, JetonSuit
  <2>3. Scellee'
    BY <1>2, <1>3, <2>1, PasDeFin DEF Suivie
  <2> QED
    BY <1>3, <2>2, <2>3 DEF PInv
<1>4. CASE RegleAccuse
  BY <1>3, <1>4 DEF RegleAccuse
<1>5. CASE RegleDemande
  BY <1>3, <1>5 DEF RegleDemande
<1>6. CASE ReglePaquet
  BY <1>3, <1>6 DEF ReglePaquet
<1>7. ASSUME NEW r \in {4, 5}, Regle(r), pc' = "automate", DebutJeton(yy_cp),
             NEW j, NEW n \in Nat, Suivie(j, n), Continue(j),
             journal' = Append(j, Jeton(r)), len' = IF r = 4 THEN n + 1 ELSE n
      PROVE  PInv'
  <2>1. Jeton(r) \in Entree /\ Jeton(r).regle = r
    <3>1. r \in 1 .. 5
      OBVIOUS
    <3>2. Jeton(r) \in Entree
      BY <1>1, <1>7, <3>1, JetonExact
    <3> QED
      BY <3>2 DEF Jeton
  <2>2. Suivie(Append(j, Jeton(r)), IF r = 4 THEN n + 1 ELSE n)
    BY <1>7, <2>1, JetonSuit
  <2>3. Scellee'
    BY <1>7, <2>1, PasDeFin DEF Suivie
  <2> QED
    BY <1>7, <2>2, <2>3 DEF PInv
<1>8. CASE RegleErreur
  <2>1. /\ Regle(4) /\ pc' = "automate" /\ DebutJeton(yy_cp) /\ UNCHANGED flot
        /\ journal' = Append(IF Plein THEN handle_error ELSE journal, Jeton(4))
        /\ len' = IF Plein THEN 1 ELSE len + 1
    BY <1>8 DEF RegleErreur, Regle, flux
  <2>2. CASE Plein
    <3>1. journal' = Append(handle_error, Jeton(4)) /\ len' = 0 + 1
      BY <2>1, <2>2
    <3> QED
      BY <1>2, <1>7, <2>1, <2>2, <3>1
  <2>3. CASE ~ Plein
    <3>1. journal' = Append(journal, Jeton(4)) /\ len' = len + 1
      BY <2>1, <2>3
    <3>2. Continue(journal)
      BY <1>1, <2>1, Poursuit
    <3> QED
      BY <1>1, <1>7, <2>1, <3>1, <3>2
  <2> QED
    BY <2>2, <2>3
<1>9. CASE RegleEcho
  <2>1. /\ Regle(5) /\ pc' = "automate" /\ DebutJeton(yy_cp) /\ UNCHANGED flot
        /\ journal' = Append(journal, Jeton(5)) /\ len' = len
    BY <1>9 DEF RegleEcho, Regle, flux
  <2>2. Continue(journal)
    BY <1>1, <2>1, Poursuit
  <2> QED
    BY <1>1, <1>7, <2>1, <2>2
<1> QED
  BY <1>4, <1>5, <1>6, <1>8, <1>9

LEMMA FinFlotCompte ==
  ASSUME PInv, RInv', FinFlot
  PROVE  PInv'
<1>1. journal' = handle_error /\ len' = 0 /\ pc' = "repos" /\ retour' = "EOF"
  BY DEF FinFlot
<1>2. Suivie(journal', len')
  BY <1>1, PlainteFaite
<1>3. /\ TypeOK' /\ JetonsExacts' /\ Reste' = 0 /\ lus' = Len(flot')
  BY <1>1 DEF RInv, SInv, IInv, Retenue
<1>4. Fin(Len(journal))' = Position'
  BY <1>1, <1>3 DEF JetonsExacts
<1>5. Position' = Len(flot')
  <2>1. Position' = lus' - Len(tampon') + yytext' /\ Len(tampon') - yytext' = 0
    BY <1>3 DEF Position, yy_n_chars, Reste
  <2>2. lus' \in Nat /\ Len(tampon') \in Nat /\ yytext' \in Nat
    BY <1>3 DEF TypeOK
  <2> QED
    BY <1>3, <2>1, <2>2
<1>6. Scellee'
  BY <1>4, <1>5 DEF Scellee
<1> QED
  BY <1>1, <1>2, <1>6 DEF PInv

LEMMA PasCompte == PInv /\ [Next]_vars => PInv'
<1> SUFFICES ASSUME PInv, [Next]_vars
             PROVE  PInv'
  OBVIOUS
<1>1. RInv'
  BY PasRetient DEF PInv
<1>2. CASE RegleAccuse \/ RegleDemande \/ ReglePaquet \/ RegleErreur \/ RegleEcho
  BY <1>1, <1>2, ReglesComptent
<1>3. CASE FinFlot
  BY <1>1, <1>3, FinFlotCompte
<1>4. CASE UNCHANGED <<journal, len, flot>> /\ (pc' = "repos" => pc = "repos")
  <2>1. Scellee'
    BY <1>4 DEF PInv, Scellee, Fin
  <2> QED
    BY <1>1, <1>4, <2>1 DEF PInv
<1>5. CASE Clore \/ UNCHANGED vars \/ PremierAppel \/ Appel \/ Detruit
           \/ CreationEchoue \/ LitErreur
  BY <1>4, <1>5 DEF Clore, vars, PremierAppel, Appel, Detruit, CreationEchoue, LitErreur,
    yy_fatal_error, flux, parser_data
<1>6. CASE Automate \/ Recule \/ VraiNul \/ TamponVide \/ Agrandit \/ Relit
           \/ FinRelecture \/ EssaieNul
  BY <1>4, <1>6 DEF Automate, Recule, VraiNul, TamponVide, FinTampon, Agrandit, Relit,
    FinRelecture, EssaieNul, flux, parser_data
<1>7. CASE Lit \/ DernierJeton
  BY <1>4, <1>7 DEF Lit, DernierJeton, Relecture, parser_data
<1> QED
  BY <1>2, <1>3, <1>5, <1>6, <1>7 DEF Next, Yylex

(***************************************************************************)
(* handle_error (scanner.l), for every stream and every size of the error  *)
(* buffer: every character no rule matches is complained about before the  *)
(* next token or the end is reported, and one "-" stands for a run of      *)
(* them, or for as many as the error buffer holds.                         *)
(***************************************************************************)
THEOREM PlaintesToujoursJustes == Spec => []PlaintesJustes
<1>1. PInv => PlaintesJustes
  <2> SUFFICES ASSUME PInv
               PROVE  PlaintesJustes
    OBVIOUS
  <2>1. \A k : EnAttente(k) = Attend(journal, k)
    BY DEF EnAttente, Plaintes, Attend, Erreurs
  <2>2. /\ journal \in Seq(Entree) /\ \A k \in 1 .. Len(journal) : Alors(journal, k)
        /\ IsFiniteSet(Attend(journal, Len(journal) + 1))
        /\ Cardinality(Attend(journal, Len(journal) + 1)) = len
    BY DEF PInv, Suivie
  <2>3. DOMAIN journal = 1 .. Len(journal)
    BY <2>2
  <2>4. pc = "repos" => Attend(journal, Len(journal) + 1) = {}
    BY <2>2, FS_EmptySet DEF PInv
  <2> QED
    BY <2>1, <2>2, <2>3, <2>4 DEF PlaintesJustes, Alors
<1>2. Init => PInv
  <2> SUFFICES ASSUME Init
               PROVE  PInv
    OBVIOUS
  <2>1. RInv
    <3>1. SInv
      BY InitialementExact
    <3>2. Retenue
      BY DEF Init, Retenue
    <3> QED
      BY <3>1, <3>2 DEF RInv
  <2>2. journal = <<>> /\ len = 0 /\ pc = "neuf"
    BY DEF Init
  <2>3. Attend(<<>>, Len(<<>>) + 1) = {}
    BY DEF Attend, Erreurs
  <2>4. Suivie(journal, len)
    BY <2>2, <2>3, FS_EmptySet DEF Suivie
  <2> QED
    BY <2>1, <2>2, <2>4 DEF PInv, Scellee
<1> QED
  BY <1>1, <1>2, PasCompte, PTL DEF Spec
=============================================================================
