# Verification of the ELF linker PROJ-TP-G13

TLA+ models of the programs of `Proj-PROG5`: phase 1, which displays an object
file, phase 2, which loads, relocates and rewrites it into an executable, and
the client for an ARM simulator (`elf_linker-1.0`) with the scanner that reads
its answers. TLC configurations and TLAPS proofs go with them. Names in the
modules are the names of the code, which is in French.

## 1. Inventory

| Part | State | Operations | Interacts through |
|---|---|---|---|
| `Phase2.c` main | option index, `str_section`, `adresse_donnee`, `fp_sortie`, loop counters | `getopt_long` cases, `init_new_file`, the sequence of steps | calls; the file `temp` |
| `Etap6.c` | header, section table and `.group` in `temp` | `supprimer_une_section` | returns the removed index to main |
| `Etap7.c` | symbol table in `temp`; `sh_addr` | `addr_charge`, `corrige_ndx` | takes that index from main |
| `Etap8_9.c` | contents of `.text` and `.data`; `new_addr` carried from entry to entry | `proc_reimplants` | reads the values and addresses `addr_charge` wrote |
| `Etap11.c` | executable | `produ_executable`, `PGCD`, `init_phdr` | reads everything the steps before wrote |
| `read_data_auxiliaries.c` | none | readers, `my_write`, `inverse_data`, look-ups | called by every step |
| `gdb_protocol.c`, `scanner.l` | `packet`, `len`, `answer`; error buffer | send, acknowledge, check, retransmit, read until an answer | socket |
| `scanner.c` (made by flex, kept in the repository) | `yy_ch_buf` and its status, `yytext_ptr`, `yy_c_buf_p`, automaton state, last accepting state and place | match, back up, refill, grow, rules, end of stream | `read(2)`; calls back into the protocol |
| `arm_simulator_interface.c` | session | connect, write, run, step, clean up | calls the protocol |
| `ARM_runner_example.c` | program counter of `sample_run` | connect, load, set PC, run | calls the interface |
| `debug.c` | sorted table of 64 names | add, look up | option loop, `debug` macro |
| Phase 1 (`Pharse1.c`, `Etap1.c`-`Etap5.c`) | option index, `flag`, position of the one stream; what a display has read | options `-h -S -x -s -r -H`, five displays | readers |
| `arm_simulator` | (binary, external) | answers the client | socket |

What is hard:

* **Section numbers go stale.** Every step of phase 2 opens the file anew and
  knows a section only by its position in the table. A removal renumbers all
  positions behind it, in five kinds of places (`e_shstrndx`, `sh_link`,
  `sh_info`, `.group`, `st_shndx`), and in two calls: headers in
  `supprimer_une_section`, symbols in `corrige_ndx`, with an inconsistent file
  in between. What happens depends on the order of the sections in the file,
  and the four examples of the repository have one order.
* **Order of the steps.** Relocation uses symbol values and section addresses
  that must be final by then; nothing may move them afterwards.
* **Readers that assert.** Every step reads the section names, and most the
  symbols, with readers that fail an assertion on a section without bytes. Which
  tables are read, and when, depends on what the steps before have removed.
* **Sequential reads, copies by value, buffers of a fixed block, locals nobody
  assigned, a loop that may not end**: see "hazards" in PROJECT.json, each at
  its line.
* **A stream cut anywhere.** `read(2)` returns any number of bytes. A token that
  is not whole is moved to the front of the buffer, which may have to grow
  first, and the automaton runs over it again; a NUL of the stream and the end
  of the buffer look the same to the automaton; the place to back up to was
  noted before the token moved. And the scanner may not ask for one byte more
  than it needs, because nobody sends any before it answers.
* **One stream for all displays.** Phase 1 obeys the options in their order, and
  each leaves the stream, which the next one uses, somewhere else. Every field
  is turned round in place, by a loop over fixed places, in six structures.
* **Stop-and-wait without numbers.** The client and the simulator run
  concurrently. Packets carry no number, a retransmission sends whatever the
  buffer holds now, text between packets is complained about late, nothing has
  a timeout, and the end of the stream is reported by one call in three.

What makes each part correct: symbols, headers, group members and values follow
their sections (etapes 6, 7); words are what the final addresses call for
(8, 9); exactly the relocation sections of the loaded sections disappear; the
segment contains what the table says and `PGCD` ends with the right divisor
(11); main stops and reads only what it assigned; the simulator carries out the
commands in order and once, and the client does not get ahead of it; tokens are
the bytes of the stream, all of them and in order, and are obeyed as soon as
they are there; a display shows what the object is, whatever was shown before.

## 2. Modules

| Module | Models | Correspondence |
|---|---|---|
| `ElfTables` | look-ups and renumbering | functions on tables; a table is a function on `0 .. e_shnum - 1`, a header a record, its contents a model value `body`, which is how sections are told apart when their numbers change |
| `Reimplants` | arithmetic of `proc_reimplants` | a word is byte 3 and the low 24 bits, as the code splits it; `Attendu` is the ARM rule it is compared with |
| `Executable` | computations of `produ_executable` | operators on a section table |
| `Phase2` | main and the steps | variables are the tables of `temp` and the locals that live from step to step; one action per call, per option, and per turn of the relocation loops; `etape` is the point main has reached; failed assertions (those of the readers included), `exit(1)`, endless loop, and use of an unassigned local or a null pointer are the values `abandon`, `erreur`, `boucle`, `indefini` |
| `EditionLiens` | what the pipeline promises | a linker that holds sections by identity, with `Charger`, `Retirer`, `Produire` and no renumbering |
| `Phase2Raffine` | refinement | reads every index of `Phase2` through the table it counts in; between `supprimer_une_section` and `corrige_ndx` the symbols count in the table before the removal, and `corrige_ndx` is a stuttering step |
| `Pgcd` | the loop of `PGCD` | one step per turn; `Executable!PGCD` and `PgcdTermine` are what it is compared with |
| `GdbClient` | protocol, scanner, interface, `sample_run` | one action per rule of the scanner, per packet sent and per connection attempt; a write on a reset connection may end the program |
| `SessionGdb` | composition with the simulator and the line (external) | two sequences of tokens, damage bounded by `MaxAlterations` |
| `RendezVous` | what a session promises | calls in lock-step with the simulator until it is gone |
| `MemWrite` | `gdb_write_memory` | one action per byte copied and per packet sent; "deborde" when a write falls behind `gdb->packet`; what the packets mean is read back by `Lu` |
| `DebugFiles` | table of `debug.c` | insertion as one action, one action per turn of the binary search; names are numbers ordered as `strcmp` orders them |
| `Scanner` | `yylex` | the tables are the tables of `scanner.c`, over classes of bytes; pointers are offsets in `yy_ch_buf`; one action per character, rule, end-of-buffer case, growth and read, with the read of any length; `journal` is what was obeyed or complained about, and where in the stream |
| `Inversion` | `inverse_data`, `inverse_tab`, `my_write` | a call is the function that tells from which place each byte comes; the widths of the fields of `elf.h` (external) are what it is compared with |
| `Phase1` | main of phase 1, the five displays and their readers | one action per option, per read and per turn of `etap5`; an object is given by what it means and `Image` lays it out as an assembler would (external), in units: a header, an entry, a name, a byte; a field in the wrong byte order is `Brouille` |
| `MCPhase2`, `MCPgcd`, `MCSession`, `MCMemWrite`, `MCScanner`, `MCPhase1` | instances for TLC | object files built from an order of sections, command lines, programs, streams |
| `Phase2Proofs` (with the facts about `Reimplants` and `ElfTables`), `EditionProofs`, `Phase1Proofs`, `PgcdProofs`, `DebugFilesProofs`, `ScannerProofs`, `MemWriteProofs`, `SessionProofs` | theorems | section 5 |

`GdbClient` works on the tokens `Scanner` delivers. The two are not composed
state by state: what `GdbClient` assumes of the scanner (tokens whole, in order,
none held back, errors in the buffer as the rules say) is what the properties of
`Scanner` state, for every stream and every way it is cut.

Definitions called `...Fautif` or `...Fautive` are plausible mistakes in the
definition they stand before. No specification uses them; each is put in its
place to see that a property notices.

Abstractions. Names are sequences of parts, so that ".rel" in front of a name
is one part more. Data without a relocation is not modelled; a relocated word
is. The last operand is the file; other operands are ignored by the programs and
left out. The byte order appears where it matters: `flag`, and the inversion
`corrige_ndx` makes whatever the flag is. Memory that was never written (fresh
symbols, program headers, locals) is a choice from a small set (`SymResidus`,
`SegResidus`, `Residus`). The checksum of a packet is right or wrong.

## 3. Runs

`phase2_ordres` asks whether anything goes astray: all 720 orders of the six
sections the removals touch or refer to, with the tables of strings behind
them, and three command lines (both sections in either order of the options,
and one section that does not exist). Sections before, between and behind the
removed ones all occur, and so do removals in both orders, which is what
renumbering depends on; more sections repeat these positions. The files have a
symbol per kind of section, a reserved index, a branch, absolute words in
`.text` and `.data`, and a group. It checks all invariants of following and the
refinement of `EditionLiens`.

`phase2_options` asks what main does with any command line: every sequence of
up to four options from five (both loaded sections, an absent one, an ill-formed
value, `-o`), and of up to two with an unknown option or a value that is missing
altogether, on twenty-three files, all but one of them out of the ordinary (no
`.data`, no `.text`, neither, no `.symtab`, no `.strtab`; `.data`, a relocation
section, `.group` or one of the three tables empty; a table whose entries have
no size; sections apart; a file that cannot be opened, is not ELF or is
little-endian; sizes the copy loops stumble over). Four options are one more
than a complete line, so a third section overflows the arrays. It checks that a
complete line and a sound file are enough for main to succeed (`Reussite`) and,
under fairness, that main stops or is caught in `PGCD`: with `.text` and `.data`
apart, a single one of them at address 0 is enough for that.

`pgcd` takes every pair of arguments below 25, zero included.

`debug_files` has a table of four places, five names and up to six calls, so
that the table fills, a name is dropped behind it and one overruns it, with
repeated names and searches (for absent names too) after any call.

`mem_write` writes every block of up to six bytes that are `$`, the byte `$`
becomes when escaped, or the escape, into a packet with room for four. Both
bounds of the code depend on the size of the packet in the same way for every
size: the buffer counts as full 17 places behind the last one that can be used,
so the loop that cuts a block into packets never gets to a second one. That is
why one packet stands for the command "X" in `GdbClient`, and why `UnPaquet`
makes "the data fit one packet" the exact condition for a sound write (1000
bytes of packet in the code, less one for every escape).

`gdb_tcp` is a line that loses and damages nothing, three addresses, a
simulator that may come late and die at any time: lock-step with the simulator
(refinement of `RendezVous`) and complete sessions. `gdb_bruit` lets the line
damage up to four tokens of five kinds: enough for two independent losses in
each direction, which is what it takes to get ahead of the simulator and then
lose the packet that is no longer in the buffer. `gdb_tampon` has packets longer
than the error buffer (four characters here, 1024 in the code), so that losing
the first character of a packet fills it.

`scanner` runs `yylex` over every stream of up to three pieces from eleven (each
class of byte, an empty packet, a packet that never gets its checksum) and over
four longer ones that make the buffer grow twice or the error buffer fill. Every
length of every read is tried, so each token is cut at every place, and the end
of the stream comes at any time. The buffer starts with 3 bytes, a read returns
at most 3 and the error buffer holds 4 (16384, 8192 and 1024 in the code): small
enough that every token meets both ends of the buffer. Nothing depends on the
sizes themselves, which is what the theorems about `Scanner` say; only
`PlaintesJustes` and `Revient` rest on these bounds.

`phase1` gives all pairs of seventeen options, and two longer command lines, to
eight regular and irregular objects in both byte orders (a `.data` without
bytes, a `.bss`, a group, sections of types etape 2 has no name for and one of
ELF for ARM, a table whose entries have no size, no symbols), to a
little-endian ARM object and to two files that are none. Two options are
enough: what a display can take over from before is the position of the stream,
`flag` and the header it read, and every display reads the last again.
`CopieExacte` compares `inverse_data` and `my_write` with the fields of `elf.h`
over all five structures and section sizes 1 to 9; the loop treats a section
word by word.

Runs named `v_...` show where the program does not do what a document or a
comment says; see "findings" in PROJECT.json.

| Run | Disagreement |
|---|---|
| `v_petit_boutiste` | `corrige_ndx` inverts the symbols of little-endian files |
| `v_symbole_retire` | a symbol in a removed section costs the table its last symbol |

Other places where the code differs from what its documents say are in the
models, and each is a value or a branch there, but has no run of its own: the
single segment puts `.data` at the distance it has in the file, not at its
address (`Segment`, beside `ExecutableCorrect`, which says what does hold), and
an empty `.text` at the offset of `.data` makes it a segment of no bytes
(`Disposition`); a
carry out of the low 24 bits or a negative addend leaves byte 3 of an absolute
word wrong (theorem `AbsolueExacte` has the exact condition); an
`STT_FUNC` symbol contributes 1 and not its value (`NouvelleAdresse`); the two
program headers of files whose `.text` and `.data` are apart are never assigned
(`SegResidus`), but the alignment of both is looked for; a section at address 0
that begins a program header keeps `PGCD` going for ever, in either branch
(`Termine`, `AlignementsTrouves`, theorem `ZeroSansFin`); an incomplete command line makes main use locals nobody
assigned, `-s .text` without a value follows a null pointer, an empty table or
relocation section fails the assertion of its reader, and a file of whole blocks
that of a copy loop (all are preconditions of `Reussite`); a section given twice moves its symbols twice
(the runs' command lines for `ValeursSuivent` name each section once). In phase
1: `-x 0` looks for a section called "0", and an index past the table or a name
that is not found reads an entry outside it (`etap3_indefini`); a section found
by name is shown with the empty name, though one found by its number has its own
(`NomAffiche`, and `AffichagesExacts` says so); a section without bytes in the
file is shown with those of the next, and an empty one fails an assertion; a
group is told by the first byte of its contents, so those of big-endian files
are missed, and any section of a type without a name that begins with a byte 1
is called one (`OctetUn`; `AffichagesExacts` leaves that open); `-x.text` in one word is refused for want of arguments
(`Usage`).

Bounds: `Espace` is 2^28 instead of 2^32 (TLC computes with 32-bit signed
numbers; the proofs take any multiple of 2^26); `e_shnum` at most 255, so that
an index fits the byte `.group` is corrected by (files of more sections are
left out: the code is wrong for them); `BLOC` 1024 as in the code;
`MaxAlterations`, `Trame` and `MAX_ERROR_SIZE` as above.

## 4. Fairness

Main is sequential and never waits, so `WF_vars(Next)` says only that the
processor goes on. In a session, client and simulator are processes of their
own that run when they can: `WF` on each, and on the simulator's start. The line
owes nothing: no fairness on damage, on its absence, or on the simulator's
death. In `Scanner`, `WF` on `Yylex` alone: a call goes on when it can, but
nobody owes it bytes, the end of the stream or another call; `Revient` therefore
speaks of a stream that was closed. `Phase1` is sequential and has no liveness
property: all its loops are bounded by the tables. `Termine` names the one way main may not stop (in `PGCD`,
because a program header begins with a section at address 0: the first section
when `.text` and `.data` share a header, either of them when they have one
each), `SessionTermine` the one way a client may not (both
sides silent with text one of them has not complained about).

## 5. Proofs

All constants are parameters; the assumptions are `ImagesAssumption` (object
files are well-formed, `ImageOK`: an assumption about the input, which translates
no code; empty tables, entries without a size, missing sections are among the
files it admits), `CorpsAssumption` (contents are told
apart from reserved section numbers), `LignesAssumption`, `ResidusAssumption`, `EspaceAssumption`
(a multiple of 2^26), `ValeursAssumption`, `ObjetsAssumption` (the objects phase
1 is given are ones an assembler writes, `ObjetOK`: a null section first, the
tables of strings a symbol table needs, at most one symbol table),
`CommandesAssumption`, `ScannerAssumption` (buffers of at least one byte, room
for one error), `ProgrammeAssumption` (at least one command, one address and room
for one error) and `LigneAssumption`.

Phase 2 (`Phase2Proofs` for what each step keeps, `EditionProofs` for what the
whole pipeline does):

* `Spec => []TypeOK` (`TypeCorrecte`). `TypeOK` is not inductive: the null
  section must never be removed, which needs that the name of what is removed
  starts with ".rel" while the null section has no name (`NomsConnus`), and
  contents must stay distinct and come from the object file (`CorpsOK`).
  `IInv` joins these, with one lemma per action.
* `Spec => [](Regulier => SymbolesSuivent)`. `Regulier` says big-endian and no
  symbol in a section that is removed: without either the runs above show the
  failure. `SuiviInv` adds that after a removal every section keeps its contents
  at the renumbered place and that no symbol is in the section about to be
  removed.
* `Spec => [](Regulier /\ NomsDistincts => ValeursSuivent)`: the addresses
  are added once, when the two names of the command line differ.
* `Spec /\ []Regulier => ValeursFigees`: from the same invariant; `corrige_ndx`
  writes every symbol it has read, so only its index can change.
* `Spec => []TableSuit`: for every file, without `Regulier`.
* `Spec => [](UnSeulGroupe => GroupeSuit)`: with one group, whatever the
  options. `GroupeInv` adds that the members are sections still in the table
  (`MembresOK`). The byte loop is a renumbering of the words because the indices
  stay below 256; a file of several groups is the hazard it leaves.
* `Spec => [](NomsUniques => SectionsExactes)`. A turn of the loop removes one
  section of the name, so no name to remove may be borne by two (`NomsUniques`).
  Each section left has its size and, but for the null section, its offset moved
  by the room of the program headers that are written, as `e_shoff` is
  (`Etendues`, `Deplacee`). `OteInv` follows the loop: the order of the file is kept (`Ordonne`), only what
  has to go is gone (`RienDePlus`), and after a turn nothing of its name is left
  (`RienDeMoins`), also between removal and correction.
* `Spec /\ []Regulier => RaffineEditionLiens` (`PipelineRaffine`): every step of
  the pipeline is a step of `EditionLiens` or a stutter. `Lecture` gives the
  mapping in terms of positions, and one lemma per action compares the abstract
  variables before and after; for a removal all of them are read through the
  renumbering, and `corrige_ndx` must change none. The `[]Regulier` is about the
  file only, which no step changes.
* `Spec => [](Regulier => Reussite)`. `Reussite` has the precondition that makes
  main succeed (complete line, sound file) past each of its exits and every
  assertion of the steps and of the readers; `Regulier` is needed because the
  readers find the tables by names the removals could have spoilt. `ReuInv`
  adds what each step needs of the ones before: as many names as options
  read (`OptionsLues`, by counting), the table as it was in the file until the
  first removal, no symbol in the wrong byte order; and `LuDImage`, `TableGardee`
  carry what the readers need (bytes in the tables, a size of their entries) from
  the object file to a table from which sections are gone. The precondition is exact in
  one place where it was not: the second copy loop writes what is left behind
  the ELF header, so both sizes must suit it (`FichierSain`).
* `Spec => [](Regulier /\ NomsDistincts /\ Disposition => ExecutableCorrect)`.
  `Disposition`: one `main`, in a section; one `.text` and one `.data`, which do
  not overlap; and when both are at the same offset `.data` is the empty one. The
  last condition was found by the proof: an assembler puts an empty `.text`
  there, and then the segment gets size 0 (hazard at `Etap11.c:67`).
* `Spec => [](Regulier /\ EntreesSimples /\ AdressesSures => Reimplante)`.
  `MotsInv`: a word no entry that was applied points at is the file's, one that
  an entry was applied to is what this entry makes of the file's word and of the
  symbol and section addresses now (which `ValeursFigees` keeps), and later the
  words only move with their section. `EntreesSimples` leaves out what the code
  does wrong or not at all (a symbol `STT_FUNC`, other relocation types, two
  entries for one place: the second would read the word of the first);
  `AdressesSures` leaves out values the format cannot express (`AbsolueExacte`,
  `BrancheExacte`).
* `BrancheExacte`, `AbsolueExacte`: what the relocation arithmetic computes
  against the ARM rule, with the conditions under which it is right.
* `PgcdExact`, `PgcdPartiel`, `ZeroSansFin`: the loop keeps the common divisors
  (`Communs`), so what it returns is the greatest; with one argument 0 it
  returns nothing.

* `RechercheToujoursExacte`, `TableToujoursComplete`, `TypesCorrects` (debug
  table): the table is sorted (`Triee`, by `InsertionOrdonnee`) and a search
  keeps the name it looks for between `from` and `to` (`Entoure`).

* `TypesDuScanner`, `JetonsToujoursExacts`, `JamaisDeRetard`,
  `PlaintesToujoursJustes` (scanner), for
  every stream and every size of the buffers, in four layers. The tables are
  first read off entry by entry, and from them the automaton they stand for
  (`Transitions`, `DansLePaquet`). `IInv` adds to the types what each point of
  `yylex` knows of the places: the scan is inside what was read or just behind
  it, and the second run over a token ends where the first one did. `SInv` adds
  what a state means of the text read since the token began (`Sens`), that the
  place to back up to was noted for this very text (`Memoire`; it points into
  the buffer as it was before the token moved, and is noted anew by the second
  run before it is used), and that no packet begins where the automaton jammed
  (`Casse`). `RInv` adds what may be in hand at the end of the buffer
  (`Retenue`): nothing, the beginning of a packet, or a NUL. `PInv` counts:
  `data.len` is the number of errors in the journal no complaint followed
  (`Suivie`), and a complaint made at the end of the stream is the last entry
  there will be (`Scellee`), because every token takes at least one byte and none
  is left; only so is a complaint never followed by an error of the same run,
  unless the error buffer was full.

* Sessions (`SessionProofs`), for every program, number of addresses, size of the
  error buffer and amount of damage:
  * `TypesDeSession`.
  * `AttenteToujoursExpliquee`. `EnVie`: while the client waits, one side has
    something to read that it will answer, or text to complain about.
    `reponse # 0` enters because a simulator without an answer reads a "-" and
    says nothing.
  * `SessionToujoursComplete` (for programs with at most one "c", the last
    command; a second command after "c" is not issued by `sample_run`),
    `RendezVousMalgreLaLigne` and, from it, `RendezVousTenu` (no damage at all).
    `Rythme` lists the situations a round can be in while every "+" and "-"
    arrives (`Sain`): command on its way, damaged, asked for again, answer on
    its way, damaged, asked for again, running, over; and what is left of them
    once the simulator is gone. What retransmission repairs is invisible to the
    application: the same lock-step holds with and without damaged packets.
  * `ChaqueCommandeUneFois`: the other half (damage on the way back only) has any
    number of copies on their way; `Aller` says that those to the simulator are
    good, in ascending order and exactly the commands not yet carried out.
  * `ReponsesAvecLeursCommandes` (`Avance`). Nothing orders the tokens any more,
    so `Compte` counts them. The answers that came back, those on their way and
    those a "-" or a complaint will bring (`Retour`) are paid for three times:
    by the commands carried out; by those up to any good command on its way; and,
    when what will still become a command counts too (`Route`), by all commands
    sent. Each damaged "+" or "-" is one more that is not paid for. The second
    is what the step that carries out a command needs, the third what makes the
    second true of a packet just sent.
  * The last two suppose `Trame < MAX_ERROR_SIZE`. Without it both are false:
    TLC finds a damaged packet that fills the error buffer and is complained
    about twice. Answers of the simulator are shorter than the 1024 characters
    of the buffer.

* Phase 1 (`Phase1Proofs`), for every object, byte order and command line:
  * `CopieToujoursExacte`, `MotsEntiers`: the turns of `inverse_data` are the
    fields of the structure (`Decoupe`, shown for each structure of `elf.h` and
    for sections of any size), each byte is in one field only (`UnSeulChamp`),
    and turning a field twice is nothing.
  * `ImageDe`: where each section lies in the file the assembler writes, whatever
    the number of sections and their sizes; from it, what every reader returns
    when the stream stands anywhere and `flag` is that of the file
    (`StructuresLues`, `NomsLus`, `AfficheSymboles`, `RelocationsLues`).
  * `P1InvToujours`, `AffichagesToujoursExacts`, `ToutToujoursAffiche`,
    `AbandonsToujoursExpliques`, `P1TypeToujours`. `P1Inv` says that the options
    are obeyed one by one (`Pilote`), that what has been read is what is in the
    file (`Lus`), that `etap5` has read the sections before `i` and no other
    (`Boucle`), and that the displays so far are right and answer the options so
    far (`Montre`). TLC checked it on `phase1` before.

* `Spec => []Tient` (`MemWrite`): `MInv` says that a block is either whole or
  gone. A packet is sent only while its data end before `gdb->packet` does, and
  there `MAX_BUFFER_SIZE - 1` is not reached yet, so the inner loop has stopped
  at the end of the block. A byte takes one character or two.
* `EnvoisToujoursExacts`, `UnPaquetToujours` (`MemWrite`). `EInv` says of the
  buffer that it is the code of the bytes copied so far, each ending where the
  lengths of those before it add up to (`Codage`); one more byte keeps that
  (`CodageAjoute`), and `Lu` reads such a buffer as those bytes (`LuDe`), because
  no code ends in 0x7d. What was written behind `gdb->packet` would have been the
  code of a part of the block, which is no longer than that of all of it. From
  `BlocsAssumption`: `gdb->packet` has room for a packet without data (1024
  characters in the code, 24 needed).

The provers cannot instantiate an induction theorem that takes an operator, but
they can use one that takes a set. Where a recursive function or a count over all
numbers up to `n` is reasoned about (`ImageDe`, `Definie`, `LuDe`,
`DeProcheEnProche`), the set of the numbers the claim fails for is shown to have no
least element.

Every invariant and every refinement a run checks is proved. Only model-checked:
liveness under fairness (`Termine`, `SessionTermine`, `RechercheFinit`, `Revient`,
and the half of `ArretExact` that says the PGCD loop stops), which is out of the
prover's reach.

## 6. Not modelled, and the plan

Not modelled for good: the text that is printed, and the names phase 1 prints
for numbers; build files, scripts and samples; `util.c`, one constant test of
the host; the CSAPP wrappers but `Rio_writen`, which no program calls; the
copies of both phases in `elf_linker-1.0` (the same files but for a few lines);
what an overrun of a heap block does to its neighbours. Of `scanner.c`: the
functions no program calls (`yy_scan_*`, `input`, buffer switching, accessors),
the branch taken when doubling the buffer overflows (at 2^30 bytes), and the
extension by half, which is never taken because no more is read than there is
room for. Of `ARM_runner_example.c`: the options that store a name.

Next: what makes the loops end, as far as it is not liveness. For each of the four
liveness properties a quantity that every step makes smaller (`to - from` in the
search, `a + b` in the PGCD loop, the bytes not read and the place of the scan in
`yylex`, the sections, entries and options left in `main`), as a property of every
step. With weak fairness of the step, which TLC checks, nothing else is needed.
