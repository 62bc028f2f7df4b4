------------------------------ MODULE ElfTables ------------------------------
(***************************************************************************)
(* The tables of an ELF32 object file as read_data_auxiliaries.c hands     *)
(* them to the steps of Phase2, and the look-ups every step makes in them. *)
(*                                                                         *)
(* A section header table is a function on 0 .. e_shnum - 1, like the      *)
(* Elf32_Shdr array of the code.  A header is a record                     *)
(*   [body, name, type, link, info, addr, offset, size, entsize]           *)
(* where "body" names the contents the header describes (sh_offset, which  *)
(* no step before the executable changes, is what identifies it in the     *)
(* file) and "name" is the string sh_name points at: a sequence of parts,  *)
(* so that ".rel" in front of a name is one more part.                     *)
(* A symbol is a record [name, shndx, value, func, inverse]; "inverse"     *)
(* tells that st_name and st_value were stored with their bytes reversed.  *)
(***************************************************************************)
EXTENDS Integers, Sequences

SHT_RELA == 4
SHT_REL  == 9
SHN_ABS  == 65521   \* 0xfff1
SHN_HIRESERVE == 65535   \* the largest st_shndx, 0xffff

Text   == <<".text">>
Data   == <<".data">>
Group  == <<".group">>
Symtab == <<".symtab">>
Strtab == <<".strtab">>
Shstrtab == <<".shstrtab">>
Main   == <<"main">>

get_nom_rel_corre(nom) == <<".rel">> \o nom

(***************************************************************************)
(* The section a relocation section is named after: strtok drops the       *)
(* ".rel" part.                                                            *)
(***************************************************************************)
nom_section_correspondant(nom) == Tail(nom)

(***************************************************************************)
(* The first header with the given name, -1 if there is none.              *)
(***************************************************************************)
chercher_index_de_section(shdr, nom) ==
  LET hits == {i \in DOMAIN shdr : shdr[i].name = nom}
  IN  IF hits = {} THEN -1
      ELSE CHOOSE i \in hits : \A k \in hits : i <= k

HasSectionInfo(h) == h.type \in {SHT_RELA, SHT_REL}

(***************************************************************************)
(* The assertions of the readers: read_section, read_sh_str_tab,           *)
(* read_sym_tab and read_rel_tab fread one object of sh_size bytes, which  *)
(* returns 0 when that is none; calcul_nombre_entrees, called before the   *)
(* tables are read, divides by sh_entsize.                                 *)
(***************************************************************************)
NonVide(h) == h.size # 0

calcul_nombre_entrees(h) == h.entsize # 0

EntreesLisibles(h) == calcul_nombre_entrees(h) /\ NonVide(h)

(***************************************************************************)
(* Definitions named "...Fautif" are plausible mistakes in the definition  *)
(* below them.  No specification uses them: they are put in its place to   *)
(* see that a property notices.                                            *)
(***************************************************************************)
RenumeroFautif(index, del) ==   \* the section right behind the removed one is missed
  IF index = del THEN 0 ELSE IF index > del + 1 THEN index - 1 ELSE index

(***************************************************************************)
(* The index a section has once section del is gone; references to del     *)
(* itself become 0, the null section.                                      *)
(***************************************************************************)
renumero_index_section(index, del) ==
  IF index = del THEN 0 ELSE IF index > del THEN index - 1 ELSE index

HeaderFautif(h, del) == [h EXCEPT !.link = renumero_index_section(@, del)]

(***************************************************************************)
(* The header table without entry del: the entries behind it move down one *)
(* slot, and sh_link (always) and sh_info (of SHT_RELA and SHT_REL) follow.*)
(***************************************************************************)
HeaderAfter(h, del) ==
  [h EXCEPT !.link = renumero_index_section(@, del),
            !.info = IF HasSectionInfo(h)
                       THEN renumero_index_section(@, del) ELSE @]

TableFautive(shdr, shnum, del) ==
  [i \in 0 .. shnum - 2 |-> HeaderAfter(shdr[IF i <= del THEN i ELSE i + 1], del)]

TableAfter(shdr, shnum, del) ==
  [i \in 0 .. shnum - 2 |-> HeaderAfter(shdr[IF i < del THEN i ELSE i + 1], del)]

(***************************************************************************)
(* A word of a section group: the loop over .group goes byte by byte, with *)
(* the index in the low byte of a word.                                    *)
(***************************************************************************)
GroupByteFautif(b, del) == IF b >= del THEN b - 1 ELSE b

GroupByteAfter(b, del) ==
  IF b > del THEN b - 1 ELSE IF b = del THEN 0 ELSE b

GroupWordAfter(w, del) ==
  256 * GroupByteAfter(w \div 256, del) + GroupByteAfter(w % 256, del)

(***************************************************************************)
(* inverse_data on a 16-bit field.                                         *)
(***************************************************************************)
Swap16(x) == 256 * (x % 256) + x \div 256
=============================================================================
