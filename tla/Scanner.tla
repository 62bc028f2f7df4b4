------------------------------ MODULE Scanner ------------------------------
(***************************************************************************)
(* yylex, the scanner flex made of scanner.l (elf_linker-1.0/scanner.c):   *)
(* it cuts the bytes of the simulator into the tokens GdbClient is about.  *)
(* read(2) returns what has arrived, in pieces of any size, so that every  *)
(* token may be cut anywhere: the scanner then moves the beginning it has  *)
(* to the front of its buffer, reads on behind it, and runs its automaton  *)
(* over the beginning once more.                                           *)
(*                                                                         *)
(* One action per turn of a loop and per case of the switch of yylex.  A   *)
(* byte is the class yy_ec gives it; positions in the buffer are offsets   *)
(* in yy_ch_buf.  Names of the code are kept.                              *)
(***************************************************************************)
EXTENDS Integers, Sequences, FiniteSets

CONSTANTS
  Flots,             \* the streams considered
  YY_BUF_SIZE,       \* initial size of the buffer (16384)
  YY_READ_BUF_SIZE,  \* most bytes asked of one read (8192)
  MAX_ERROR_SIZE     \* room for characters no rule matches (1024)

Classe == 0 .. 7     \* NUL, any other, newline, '#', '$', '+', '-', hexadecimal

NUL    == 0
Ligne  == 2
Diese  == 3
Dollar == 4
Plus   == 5
Moins  == 6
Hexa   == 7

ASSUME ScannerAssumption ==
  /\ Flots \subseteq Seq(Classe)
  /\ YY_BUF_SIZE \in Nat \ {0} /\ YY_READ_BUF_SIZE \in Nat \ {0}
  /\ MAX_ERROR_SIZE \in Nat /\ MAX_ERROR_SIZE >= 2

VARIABLES
  flot, clos, lus,     \* the stream, whether it ends there, how much read(2) returned
  tampon,              \* yy_ch_buf: its yy_n_chars bytes, two NULs stand behind them
  yy_buf_size, yy_buffer_status,
  yytext,              \* where the token begins
  yy_cp,               \* the next byte to look at
  yy_c_buf_p,          \* where the call before stopped, or the scan is to resume
  yy_current_state, yy_last_accepting_state, yy_last_accepting_cpos,
  reprise,             \* what follows yy_get_previous_state
  pc,                  \* where yylex is
  retour,              \* what the last call returned
  len,                 \* data.len: characters in the error buffer
  journal              \* the rules obeyed and the complaints sent, in order

flux            == <<flot, clos, lus>>
yy_buffer_state == <<tampon, yy_buf_size, yy_buffer_status>>
automate        == <<yy_current_state, yy_last_accepting_state, yy_last_accepting_cpos>>
yyguts_t        == <<yytext, yy_cp, yy_c_buf_p, automate, reprise>>
parser_data     == <<len, journal>>
vars == <<flux, yy_buffer_state, yyguts_t, pc, retour, parser_data>>

Lieux == {"neuf", "repos", "automate", "action", "lecture", "relecture",
          "erreur", "detruit"}

-----------------------------------------------------------------------------
(***************************************************************************)
(* The tables of the automaton.  It starts in state 1; 3 is reached by a   *)
(* NUL, 13 is the jam, and a state with yy_base 14 has no way out.         *)
(***************************************************************************)
DepuisZero(s) == [i \in 0 .. Len(s) - 1 |-> s[i + 1]]

yy_accept == DepuisZero(<<0, 0, 0, 6, 4, 5, 4, 1, 2, 0, 0, 0, 3, 0>>)

yy_meta == DepuisZero(<<0, 1, 1, 1, 2, 1, 1, 1>>)

BaseFautive ==   \* state 12, a whole packet, looks at one more character
  DepuisZero(<<0, 0, 0, 13, 14, 14, 9, 14, 14, 8, 3, 2, 13, 14, 7>>)

yy_base == DepuisZero(<<0, 0, 0, 13, 14, 14, 9, 14, 14, 8, 3, 2, 14, 14, 7>>)

yy_def == DepuisZero(<<0, 13, 1, 13, 13, 13, 14, 13, 13, 14, 13, 13, 13, 0, 13>>)

yy_nxt == DepuisZero(<<0, 4, 5, 4, 6, 7, 8, 4, 9, 12, 11, 10, 10, 13, 3,
                       13, 13, 13, 13, 13, 13, 13>>)

yy_chk == DepuisZero(<<0, 1, 1, 1, 1, 1, 1, 1, 14, 11, 10, 9, 6, 3, 13,
                       13, 13, 13, 13, 13, 13, 13>>)

Jam == 13
SansIssue == 14   \* yy_base of the states no character leads out of

(***************************************************************************)
(* One turn of "while (yy_chk[...] != yy_current_state)"; in these tables  *)
(* the loop makes two turns at most.                                       *)
(***************************************************************************)
Saut(e) ==
  IF yy_chk[yy_base[e.q] + e.c] = e.q THEN e
  ELSE [q |-> yy_def[e.q], c |-> IF yy_def[e.q] >= 14 THEN yy_meta[e.c] ELSE e.c]

Suivant(q, c) ==
  LET e == Saut(Saut([q |-> q, c |-> c])) IN yy_nxt[yy_base[e.q] + e.c]

ASSUME DeuxSautsSuffisent ==
  \A q \in 1 .. 12, c \in Classe :
    LET e == Saut(Saut([q |-> q, c |-> c])) IN Saut(e) = e

(***************************************************************************)
(* The byte at an offset: behind the bytes read stand the end-of-buffer    *)
(* characters.                                                             *)
(***************************************************************************)
yy_n_chars == Len(tampon)

Octet(i) == IF i < yy_n_chars THEN tampon[i + 1] ELSE NUL

OctetNonNul(i) == IF Octet(i) = NUL THEN 1 ELSE Octet(i)

Memorise(i) ==   \* the last accepting state, and where it was left
  IF yy_accept[yy_current_state] # 0
    THEN /\ yy_last_accepting_state' = yy_current_state
         /\ yy_last_accepting_cpos' = i
    ELSE UNCHANGED <<yy_last_accepting_state, yy_last_accepting_cpos>>

-----------------------------------------------------------------------------
(***************************************************************************)
(* init_gdb_scanner: the scanner exists, it has no buffer yet.             *)
(***************************************************************************)
Init ==
  /\ flot \in Flots /\ clos = FALSE /\ lus = 0
  /\ tampon = <<>> /\ yy_buf_size = 0 /\ yy_buffer_status = "neuf"
  /\ yytext = 0 /\ yy_cp = 0 /\ yy_c_buf_p = 0
  /\ yy_current_state = 1
  /\ yy_last_accepting_state = 0 /\ yy_last_accepting_cpos = 0
  /\ reprise = "match" /\ pc = "neuf" /\ retour = "aucun"
  /\ len = 0 /\ journal = <<>>

(***************************************************************************)
(* The simulator closes its end; what it sent before can still be read.    *)
(***************************************************************************)
Clore ==
  /\ ~clos /\ clos' = TRUE
  /\ UNCHANGED <<flot, lus, yy_buffer_state, yyguts_t, pc, retour, parser_data>>

(***************************************************************************)
(* A buffer emptied; the scanner at its beginning.                         *)
(***************************************************************************)
yy_flush_buffer == tampon' = <<>> /\ yy_buffer_status' = "neuf"

yy_load_buffer_state == yytext' = 0 /\ yy_c_buf_p' = 0

yy_delete_buffer == yy_buf_size' = 0 /\ tampon' = <<>> /\ UNCHANGED yy_buffer_status

yy_create_buffer == yy_buf_size' = YY_BUF_SIZE /\ yy_flush_buffer

yyrestart == yy_flush_buffer /\ yy_load_buffer_state

yy_fatal_error ==   \* exit(2)
  /\ pc' = "erreur"
  /\ UNCHANGED <<flux, yy_buffer_state, yyguts_t, retour, parser_data>>

DebutJeton(p) ==
  /\ yytext' = p /\ yy_cp' = p /\ yy_current_state' = 1
  /\ UNCHANGED <<yy_last_accepting_state, yy_last_accepting_cpos, reprise>>

(***************************************************************************)
(* gdb_get_packet; the first call creates the buffer.                      *)
(***************************************************************************)
PremierAppel ==
  /\ pc = "neuf"
  /\ yy_create_buffer
  /\ pc' = "automate" /\ DebutJeton(yy_c_buf_p)
  /\ UNCHANGED <<flux, yy_c_buf_p, retour, parser_data>>

Appel ==
  /\ pc = "repos"
  /\ pc' = "automate" /\ DebutJeton(yy_c_buf_p)
  /\ UNCHANGED <<flux, yy_buffer_state, yy_c_buf_p, retour, parser_data>>

(***************************************************************************)
(* destroy_gdb_scanner.                                                    *)
(***************************************************************************)
Detruit ==
  /\ pc \in {"neuf", "repos"}
  /\ pc' = "detruit"
  /\ yy_delete_buffer /\ yy_c_buf_p' = 0 /\ yytext' = 0
  /\ UNCHANGED <<flux, yy_cp, automate, reprise, retour, parser_data>>

(***************************************************************************)
(* yy_match, one character.                                                *)
(***************************************************************************)
Automate ==
  /\ pc = "automate"
  /\ Memorise(yy_cp)
  /\ yy_current_state' = Suivant(yy_current_state, Octet(yy_cp))
  /\ yy_cp' = yy_cp + 1
  /\ pc' = IF yy_base[yy_current_state'] # SansIssue THEN "automate" ELSE "action"
  /\ UNCHANGED <<flux, yy_buffer_state, yytext, yy_c_buf_p, reprise, retour, parser_data>>

(***************************************************************************)
(* yy_find_action: back up when the state accepts nothing.                 *)
(***************************************************************************)
Recule ==
  /\ pc = "action" /\ yy_accept[yy_current_state] = 0
  /\ yy_cp' = yy_last_accepting_cpos
  /\ yy_current_state' = yy_last_accepting_state
  /\ UNCHANGED <<flux, yy_buffer_state, yytext, yy_c_buf_p, yy_last_accepting_state,
                 yy_last_accepting_cpos, reprise, pc, retour, parser_data>>

-----------------------------------------------------------------------------
(***************************************************************************)
(* The rules.  A journal entry says which rule was obeyed, where in the    *)
(* stream its text begins, and the text (yytext, yyleng); handle_error     *)
(* leaves an entry when it sends a "-".                                    *)
(***************************************************************************)
Position == lus - yy_n_chars + yytext   \* in the stream, of the token

Plainte == [regle |-> 0, debut |-> Position, texte |-> <<>>]

Jeton(r) == [regle |-> r, debut |-> Position, texte |-> SubSeq(tampon, yytext + 1, yy_cp)]

handle_error_fautif == IF len > 1 THEN Append(journal, Plainte) ELSE journal

handle_error == IF len > 0 THEN Append(journal, Plainte) ELSE journal

Regle(r) ==
  /\ pc = "action" /\ yy_accept[yy_current_state] = r
  /\ yy_c_buf_p' = yy_cp
  /\ UNCHANGED <<flux, yy_buffer_state>>

RegleAccuse ==
  /\ Regle(1)
  /\ journal' = Append(handle_error, Jeton(1)) /\ len' = 0
  /\ pc' = "automate" /\ DebutJeton(yy_cp) /\ UNCHANGED retour

RegleDemande ==
  /\ Regle(2)
  /\ journal' = Append(handle_error, Jeton(2)) /\ len' = 0
  /\ pc' = "automate" /\ DebutJeton(yy_cp) /\ UNCHANGED retour

(***************************************************************************)
(* yylex returns a packet gdb_packet_check accepts and goes on after one   *)
(* it refuses; which, GdbClient says.                                      *)
(***************************************************************************)
ReglePaquet ==
  /\ Regle(3)
  /\ journal' = Append(handle_error, Jeton(3)) /\ len' = 0
  /\ \/ pc' = "repos" /\ retour' = "PACKET"
     \/ pc' = "automate" /\ UNCHANGED retour
  /\ DebutJeton(yy_cp)

Plein == len > MAX_ERROR_SIZE - 2

RegleErreur ==
  /\ Regle(4)
  /\ journal' = Append(IF Plein THEN handle_error ELSE journal, Jeton(4))
  /\ len' = IF Plein THEN 1 ELSE len + 1
  /\ pc' = "automate" /\ DebutJeton(yy_cp) /\ UNCHANGED retour

RegleEcho ==
  /\ Regle(5)
  /\ journal' = Append(journal, Jeton(5))
  /\ pc' = "automate" /\ DebutJeton(yy_cp) /\ UNCHANGED <<len, retour>>

-----------------------------------------------------------------------------
(***************************************************************************)
(* YY_END_OF_BUFFER: the automaton met a NUL.  It was a byte of the stream *)
(* when it stands in front of the end of what was read; then the automaton *)
(* runs over the token again, up to it.                                    *)
(***************************************************************************)
FinTampon(vraiNul) ==
  /\ pc = "action" /\ yy_accept[yy_current_state] = 6
  /\ vraiNul <=> yy_cp <= yy_n_chars
  /\ yy_buffer_status' = IF yy_buffer_status = "neuf" THEN "normal" ELSE yy_buffer_status
  /\ UNCHANGED <<flux, tampon, yy_buf_size, yytext, yy_last_accepting_state,
                 yy_last_accepting_cpos, retour, parser_data>>

VraiNul ==
  /\ FinTampon(TRUE)
  /\ yy_c_buf_p' = yy_cp - 1
  /\ pc' = "relecture" /\ reprise' = "nul"
  /\ yy_cp' = yytext /\ yy_current_state' = 1

TamponVide ==
  /\ FinTampon(FALSE)
  /\ yy_c_buf_p' = yy_cp
  /\ pc' = "lecture"
  /\ UNCHANGED <<yy_cp, yy_current_state, reprise>>

(***************************************************************************)
(* yy_get_next_buffer.                                                     *)
(***************************************************************************)
number_to_move == yy_c_buf_p - yytext - 1

PlaceFautive == yy_buf_size - number_to_move + 1

num_to_read == yy_buf_size - number_to_move - 1

Agrandit ==
  /\ pc = "lecture" /\ yy_buffer_status # "fin" /\ num_to_read <= 0
  /\ yy_buf_size' = 2 * yy_buf_size
  /\ UNCHANGED <<flux, tampon, yy_buffer_status, yyguts_t, pc, retour, parser_data>>

DeplaceFautif(k) ==   \* the source of the move is not the token
  [i \in 1 .. number_to_move + k |->
     IF i <= number_to_move THEN tampon[i] ELSE flot[lus + i - number_to_move]]

Deplace(k) ==   \* the token so far, and k bytes behind it
  [i \in 1 .. number_to_move + k |->
     IF i <= number_to_move THEN tampon[yytext + i] ELSE flot[lus + i - number_to_move]]

ReprendFautif(n) == IF n = 0 THEN "match" ELSE "match"   \* EOB_ACT_CONTINUE_SCAN always

Reprend(n) == IF n = 0 THEN "find" ELSE "match"

Relecture(n) ==   \* read(2) returned n: run over the token again
  /\ tampon' = Deplace(n)
  /\ yytext' = 0 /\ yy_cp' = 0 /\ yy_current_state' = 1
  /\ yy_c_buf_p' = number_to_move
  /\ pc' = "relecture" /\ reprise' = Reprend(n)
  /\ UNCHANGED <<flot, clos, yy_buf_size, yy_last_accepting_state,
                 yy_last_accepting_cpos, retour, parser_data>>

Lit ==
  /\ pc = "lecture" /\ yy_buffer_status # "fin"
  /\ \E n \in 1 .. YY_READ_BUF_SIZE :
       /\ n <= num_to_read /\ lus + n <= Len(flot)
       /\ lus' = lus + n
       /\ Relecture(n)
  /\ UNCHANGED yy_buffer_status

(***************************************************************************)
(* The end of the stream, read or remembered.  A token begun before is     *)
(* brought to an end first.                                                *)
(***************************************************************************)
Epuise ==
  /\ pc = "lecture"
  /\ yy_buffer_status = "fin" \/ (clos /\ lus = Len(flot) /\ num_to_read > 0)

DernierJeton ==
  /\ Epuise /\ number_to_move > 0
  /\ Relecture(0)
  /\ yy_buffer_status' = "fin" /\ UNCHANGED lus

FinFlot ==   \* yyrestart, yywrap, and the rule <<EOF>>
  /\ Epuise /\ number_to_move = 0
  /\ yyrestart
  /\ journal' = handle_error /\ len' = 0
  /\ pc' = "repos" /\ retour' = "EOF"
  /\ UNCHANGED <<flux, yy_buf_size, yy_cp, automate, reprise>>

(***************************************************************************)
(* There is no memory for the buffer, or read(2) fails (EINTR apart: then  *)
(* it is called again).                                                    *)
(***************************************************************************)
CreationEchoue == pc = "neuf" /\ yy_fatal_error

LitErreur == pc = "lecture" /\ yy_buffer_status # "fin" /\ yy_fatal_error

(***************************************************************************)
(* yy_get_previous_state, one character, and what yylex does with the      *)
(* state: goes on, finds the action, or tries the NUL.                     *)
(***************************************************************************)
Relit ==
  /\ pc = "relecture" /\ yy_cp < yy_c_buf_p
  /\ Memorise(yy_cp)
  /\ yy_current_state' = Suivant(yy_current_state, OctetNonNul(yy_cp))
  /\ yy_cp' = yy_cp + 1
  /\ UNCHANGED <<flux, yy_buffer_state, yytext, yy_c_buf_p, reprise, pc, retour, parser_data>>

FinRelecture ==
  /\ pc = "relecture" /\ yy_cp >= yy_c_buf_p /\ reprise # "nul"
  /\ pc' = IF reprise = "match" THEN "automate" ELSE "action"
  /\ UNCHANGED <<flux, yy_buffer_state, yyguts_t, retour, parser_data>>

yy_try_NUL_trans == Suivant(yy_current_state, 1)

EssaieNul ==
  /\ pc = "relecture" /\ yy_cp >= yy_c_buf_p /\ reprise = "nul"
  /\ Memorise(yy_c_buf_p)
  /\ IF yy_try_NUL_trans # Jam
       THEN /\ yy_current_state' = yy_try_NUL_trans
            /\ yy_c_buf_p' = yy_c_buf_p + 1 /\ yy_cp' = yy_c_buf_p + 1
            /\ pc' = "automate"
       ELSE /\ pc' = "action"
            /\ UNCHANGED <<yy_current_state, yy_c_buf_p, yy_cp>>
  /\ UNCHANGED <<flux, yy_buffer_state, yytext, reprise, retour, parser_data>>

-----------------------------------------------------------------------------
Yylex ==
  \/ Automate \/ Recule
  \/ RegleAccuse \/ RegleDemande \/ ReglePaquet \/ RegleErreur \/ RegleEcho
  \/ VraiNul \/ TamponVide
  \/ Agrandit \/ Lit \/ DernierJeton \/ FinFlot \/ LitErreur
  \/ Relit \/ FinRelecture \/ EssaieNul

Next == Clore \/ PremierAppel \/ CreationEchoue \/ Appel \/ Detruit \/ Yylex

Spec == Init /\ [][Next]_vars

(***************************************************************************)
(* A call of yylex goes on when it can.  Nobody owes it bytes, the end of  *)
(* the stream, or another call.                                            *)
(***************************************************************************)
FairSpec == Spec /\ WF_vars(Yylex)

-----------------------------------------------------------------------------
(***************************************************************************)
(* Types, and the bounds of the buffers: the bytes read fit yy_ch_buf, the *)
(* automaton never looks behind the second end-of-buffer character, and    *)
(* the error buffer keeps room for the end of the string.                  *)
(***************************************************************************)
TypeOK ==
  /\ flot \in Flots /\ clos \in BOOLEAN /\ lus \in 0 .. Len(flot)
  /\ tampon \in Seq(Classe) /\ yy_buf_size \in Nat
  /\ Len(tampon) <= yy_buf_size /\ Len(tampon) <= lus
  /\ yy_buffer_status \in {"neuf", "normal", "fin"}
  /\ yytext \in 0 .. Len(tampon) /\ yy_c_buf_p \in Nat /\ yy_cp \in Nat
  /\ yy_current_state \in 1 .. 13
  /\ yy_last_accepting_state \in 0 .. 12 /\ yy_last_accepting_cpos \in Nat
  /\ reprise \in {"match", "find", "nul"} /\ pc \in Lieux
  /\ retour \in {"aucun", "PACKET", "EOF"}
  /\ len \in 0 .. MAX_ERROR_SIZE - 1
  /\ pc = "automate" => yy_cp <= Len(tampon) + 1

(***************************************************************************)
(* What the rules of scanner.l say of a text, and what they leave open.    *)
(***************************************************************************)
Corps(s, i, j) == \A k \in i .. j : s[k] \notin {Dollar, Diese}

EstPaquet(s) ==
  /\ Len(s) >= 4 /\ s[1] = Dollar /\ Corps(s, 2, Len(s) - 3)
  /\ s[Len(s) - 2] = Diese /\ s[Len(s) - 1] = Hexa /\ s[Len(s)] = Hexa

DebutPaquet(s) ==   \* a packet cut short
  /\ s # <<>> /\ s[1] = Dollar
  /\ \/ Corps(s, 2, Len(s))
     \/ Len(s) >= 2 /\ Corps(s, 2, Len(s) - 1) /\ s[Len(s)] = Diese
     \/ Len(s) >= 3 /\ Corps(s, 2, Len(s) - 2) /\ s[Len(s) - 1] = Diese /\ s[Len(s)] = Hexa

PaquetEn(d) == \E f \in d + 1 .. Len(flot) : EstPaquet(SubSeq(flot, d + 1, f))

TexteJuste(j) ==
  CASE j.regle = 0 -> j.texte = <<>>
    [] j.regle = 1 -> j.texte = <<Plus>>
    [] j.regle = 2 -> j.texte = <<Moins>>
    [] j.regle = 3 -> EstPaquet(j.texte)
    [] j.regle = 4 -> /\ Len(j.texte) = 1 /\ j.texte[1] \notin {Plus, Moins, Ligne}
                      /\ j.texte[1] = Dollar => ~PaquetEn(j.debut)
    [] j.regle = 5 -> j.texte = <<Ligne>>
    [] OTHER -> FALSE

(***************************************************************************)
(* However read(2) cuts the stream, the tokens are its bytes, all of them  *)
(* and in order, and each is what the rules make of the stream: a '$' is   *)
(* an error only where no packet begins.  (This leaves one way to cut a    *)
(* stream into tokens.)                                                    *)
(***************************************************************************)
Fin(k) == IF k = 0 THEN 0 ELSE journal[k].debut + Len(journal[k].texte)

JetonsExacts ==
  /\ pc \notin {"detruit", "erreur"} => Fin(Len(journal)) = Position
  /\ \A k \in DOMAIN journal :
       /\ journal[k].debut = Fin(k - 1)
       /\ journal[k].texte = SubSeq(flot, Fin(k - 1) + 1, Fin(k))
       /\ TexteJuste(journal[k])

(***************************************************************************)
(* The protocol is stop-and-wait: a call that waits for more bytes while   *)
(* it holds a whole token would wait for ever.  It holds nothing, or the   *)
(* beginning of a packet, or a NUL (the one token that needs a look        *)
(* ahead).  And it reports the end when nothing is left.                   *)
(***************************************************************************)
EnMain == SubSeq(tampon, yytext + 1, yy_n_chars)

SansRetard ==
  /\ pc = "lecture" /\ yy_buffer_status # "fin" =>
       EnMain = <<>> \/ EnMain = <<NUL>> \/ DebutPaquet(EnMain)
  /\ pc = "repos" /\ retour = "EOF" => lus = Len(flot) /\ EnMain = <<>>

(***************************************************************************)
(* Every character no rule matches is complained about before the next     *)
(* token or the end is reported, and nothing else is: one "-" for a run of *)
(* them, or for as many as the error buffer holds.                         *)
(***************************************************************************)
Plaintes(k) == {l \in 1 .. k - 1 : journal[l].regle = 0}

EnAttente(k) ==   \* the errors before entry k nobody complained about yet
  {i \in 1 .. k - 1 : journal[i].regle = 4 /\ \A l \in Plaintes(k) : l < i}

PlaintesJustes ==
  /\ \A k \in DOMAIN journal :
       /\ journal[k].regle \in {1, 2, 3} => EnAttente(k) = {}
       /\ journal[k].regle = 0 =>
            /\ Cardinality(EnAttente(k)) \in 1 .. MAX_ERROR_SIZE - 1
            /\ \/ Cardinality(EnAttente(k)) = MAX_ERROR_SIZE - 1
               \/ k = Len(journal)
               \/ journal[k + 1].regle \in {1, 2, 3}
  /\ pc = "repos" => EnAttente(Len(journal) + 1) = {}

(***************************************************************************)
(* Once the simulator has closed its end, every call comes back.           *)
(***************************************************************************)
EnCours == pc \in {"automate", "action", "lecture", "relecture"}

Revient == clos /\ EnCours ~> ~EnCours
=============================================================================
