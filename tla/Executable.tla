----------------------------- MODULE Executable -----------------------------
(***************************************************************************)
(* What produ_executable (Etap11.c) computes from the section table before *)
(* it writes the executable: the entry point, the program headers and the  *)
(* new section offsets.                                                    *)
(***************************************************************************)
EXTENDS ElfTables

TailleEhdr == 52
TaillePhdr == 32

index_sec_data(shdr) == chercher_index_de_section(shdr, Data)
index_sec_text(shdr) == chercher_index_de_section(shdr, Text)

SansSegment(shdr) == index_sec_data(shdr) = -1 /\ index_sec_text(shdr) = -1

(***************************************************************************)
(* The section the segment starts with, and the other one of .text and     *)
(* .data (-1 when there is only one).                                      *)
(***************************************************************************)
index_sec_entry(shdr) ==
  LET d == index_sec_data(shdr)
      t == index_sec_text(shdr)
  IN  IF t = -1 THEN d
      ELSE IF d = -1 THEN t
      ELSE IF shdr[t].offset < shdr[d].offset THEN t ELSE d

index_sec_autre(shdr) ==
  LET d == index_sec_data(shdr)
      t == index_sec_text(shdr)
  IN  IF d = -1 \/ t = -1 THEN -1
      ELSE IF index_sec_entry(shdr) = d THEN t ELSE d

(***************************************************************************)
(* .text and .data are neighbours in the table, or only one of them exists:*)
(* one program header.  Otherwise two.                                     *)
(***************************************************************************)
UnSeulSegment(shdr) ==
  \/ index_sec_autre(shdr) = -1
  \/ index_sec_data(shdr) - index_sec_text(shdr) \in {-1, 1}

NbSegments(shdr) == IF UnSeulSegment(shdr) THEN 1 ELSE 2

offset_decal(shdr) == NbSegments(shdr) * TaillePhdr

(***************************************************************************)
(* The sections program headers begin with: init_phdr is called for .text  *)
(* and for .data.                                                          *)
(***************************************************************************)
Debuts(shdr) == IF UnSeulSegment(shdr) THEN {index_sec_entry(shdr)}
                ELSE {index_sec_text(shdr), index_sec_data(shdr)}

(***************************************************************************)
(* e_entry: the value of the last symbol called main, the old e_entry when *)
(* there is none.                                                          *)
(***************************************************************************)
PointEntree(sym, ancien) ==
  LET mains == {k \in DOMAIN sym : sym[k].name = Main}
  IN  IF mains = {} THEN ancien
      ELSE sym[CHOOSE k \in mains : \A m \in mains : m <= k].value

(***************************************************************************)
(* PGCD by repeated subtraction.  It comes to an end when both numbers are *)
(* positive or both are 0 (module Pgcd models the loop itself).            *)
(***************************************************************************)
PgcdFautif(a, b) == a >= b   \* a loop without its second "if"

PgcdTermine(a, b) == (a = 0) <=> (b = 0)

AlignementsTrouves(shdr) ==   \* p_align of every program header
  \A i \in Debuts(shdr) : PgcdTermine(shdr[i].addr, shdr[i].offset + offset_decal(shdr))

PGCD(a, b) ==
  IF a = 0 THEN 0
  ELSE CHOOSE d \in 1 .. a :
         /\ a % d = 0 /\ b % d = 0
         /\ \A e \in d + 1 .. a : ~ (a % e = 0 /\ b % e = 0)

(***************************************************************************)
(* The program header of the one-header branch.                            *)
(***************************************************************************)
OffsetFautif(shdr) == shdr[index_sec_entry(shdr)].offset   \* before the move

SegmentOffset(shdr) == shdr[index_sec_entry(shdr)].offset + TaillePhdr
SegmentVaddr(shdr)  == shdr[index_sec_entry(shdr)].addr

Segment(shdr) ==
  LET e == index_sec_entry(shdr)
      a == index_sec_autre(shdr)
      d == index_sec_data(shdr)
      filesz == IF a = -1 THEN shdr[e].size
                ELSE shdr[a].offset - shdr[e].offset + shdr[a].size
  IN  [offset |-> SegmentOffset(shdr), vaddr |-> SegmentVaddr(shdr),
       filesz |-> filesz, memsz |-> filesz,
       flags  |-> CASE a # -1 /\ shdr[d].size # 0 -> {"R", "W", "X"}
                    [] index_sec_text(shdr) # -1 /\ (a = -1 \/ shdr[d].size = 0) -> {"R", "X"}
                    [] OTHER -> {"R", "W"},
       align  |-> PGCD(SegmentVaddr(shdr), SegmentOffset(shdr))]

(***************************************************************************)
(* Every section but the null one moves behind the program headers.        *)
(***************************************************************************)
DecaleFautif(shdr) ==   \* the second program header is forgotten
  [i \in DOMAIN shdr |->
     IF i = 0 THEN shdr[i] ELSE [shdr[i] EXCEPT !.offset = @ + TaillePhdr]]

Decale(shdr) ==
  [i \in DOMAIN shdr |->
     IF i = 0 THEN shdr[i]
     ELSE [shdr[i] EXCEPT !.offset = @ + offset_decal(shdr)]]
=============================================================================
