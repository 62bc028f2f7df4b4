------------------------------ MODULE MemWrite ------------------------------
(***************************************************************************)
(* gdb_write_memory (gdb_protocol.c): a block of memory is copied byte by  *)
(* byte into gdb->packet behind "$X<address>,<length>:", with an escape    *)
(* before the bytes the protocol gives a meaning to, and sent as one       *)
(* packet each time the buffer is taken to be full.  In GdbClient this is  *)
(* the command "X", one packet.                                            *)
(*                                                                         *)
(* A byte is a number; the characters of the header and of the checksum    *)
(* are only counted.                                                       *)
(***************************************************************************)
EXTENDS Integers, Sequences

CONSTANTS
  Blocs,            \* the blocks of memory considered
  Bases,            \* the addresses they are written to
  Espace,           \* size of the address space (2^32)
  MAX_PACKET_SIZE   \* size of gdb->packet (1024)

Octet == 0 .. 255

MAX_BUFFER_SIZE == MAX_PACKET_SIZE - 6

Debut == 20   \* where the data start in gdb->packet: "$X", 8 digits, ",", 8 digits, ":"
Fin   == 4    \* "#", two digits, and the '\0' sprintf writes

ASSUME BlocsAssumption ==
  /\ Blocs \subseteq Seq(Octet)
  /\ Espace \in Nat \ {0} /\ Bases \subseteq 0 .. Espace - 1
  /\ MAX_PACKET_SIZE \in Nat /\ MAX_PACKET_SIZE >= Debut + Fin

VARIABLES
  bloc,          \* the block; never changes
  base,          \* its address; never changes
  address, size, \* of what is not sent yet
  src_buffer,    \* how many bytes of the block have been read
  dest_buffer,   \* the data in gdb->packet
  bytes_copied, buffer_size,
  etape,         \* "copie", "fini", or "deborde": written behind gdb->packet
  envois         \* the packets sent, in order

vars == <<bloc, base, address, size, src_buffer, dest_buffer, bytes_copied,
          buffer_size, etape, envois>>

-----------------------------------------------------------------------------
Init ==
  /\ bloc \in Blocs /\ base \in Bases
  /\ address = base /\ size = Len(bloc)
  /\ src_buffer = 0 /\ dest_buffer = <<>>
  /\ bytes_copied = 0 /\ buffer_size = 0
  /\ etape = "copie" /\ envois = <<>>

Xor20(b) == IF (b \div 32) % 2 = 1 THEN b - 32 ELSE b + 32

EchappeFautif(b) == IF b \in {36, 35} THEN <<125, Xor20(b)>> ELSE <<b>>   \* no case 0x7d

EchappeControles(b) ==   \* control characters escaped as well
  IF b < 32 \/ b \in {36, 35, 125} THEN <<125, Xor20(b)>> ELSE <<b>>

(***************************************************************************)
(* '$', '#' and 0x7d are escaped.                                          *)
(***************************************************************************)
Echappe(b) == IF b \in {36, 35, 125} THEN <<125, Xor20(b)>> ELSE <<b>>

Plein == buffer_size >= MAX_BUFFER_SIZE - 1

(***************************************************************************)
(* Writing behind gdb->packet changes the fields of gdb that follow it;    *)
(* what comes then is undefined.                                           *)
(***************************************************************************)
Deborde ==
  /\ etape' = "deborde"
  /\ UNCHANGED <<bloc, base, address, size, src_buffer, dest_buffer,
                 bytes_copied, buffer_size, envois>>

Copier ==
  /\ etape = "copie" /\ ~Plein /\ bytes_copied < size
  /\ LET c == Echappe(bloc[src_buffer + 1]) IN
       IF Debut + buffer_size + Len(c) > MAX_PACKET_SIZE THEN Deborde
       ELSE /\ dest_buffer' = dest_buffer \o c
            /\ buffer_size' = buffer_size + Len(c)
            /\ bytes_copied' = bytes_copied + 1
            /\ src_buffer' = src_buffer + 1
            /\ UNCHANGED <<bloc, base, address, size, etape, envois>>

(***************************************************************************)
(* gdb_send_buffer, gdb_get_answer (whose result is not used), and the     *)
(* next turn of the outer loop.                                            *)
(***************************************************************************)
Envoyer ==
  /\ etape = "copie" /\ size > 0
  /\ Plein \/ bytes_copied >= size
  /\ IF Debut + buffer_size + Fin > MAX_PACKET_SIZE THEN Deborde
     ELSE /\ envois' = Append(envois, [address |-> address, nb |-> bytes_copied,
                                       data |-> SubSeq(dest_buffer, 1, buffer_size)])
          /\ address' = (address + bytes_copied) % Espace
          /\ size' = size - bytes_copied
          /\ bytes_copied' = 0 /\ buffer_size' = 0 /\ dest_buffer' = <<>>
          /\ UNCHANGED <<bloc, base, src_buffer, etape>>

Retour ==
  /\ etape = "copie" /\ size = 0
  /\ etape' = "fini"
  /\ UNCHANGED <<bloc, base, address, size, src_buffer, dest_buffer,
                 bytes_copied, buffer_size, envois>>

Next == Copier \/ Envoyer \/ Retour

Spec == Init /\ [][Next]_vars

-----------------------------------------------------------------------------
(***************************************************************************)
(* What a packet means to the other side: after 0x7d the next byte is      *)
(* taken with 0x20 flipped.  '$' and '#' never stand in the data.          *)
(***************************************************************************)
Lu(data) ==
  LET f[i \in 0 .. Len(data)] ==
        IF i = 0 THEN <<>>
        ELSE IF i > 1 /\ data[i - 1] = 125 THEN Append(f[i - 1], Xor20(data[i]))
        ELSE IF data[i] = 125 THEN f[i - 1]
        ELSE Append(f[i - 1], data[i])
  IN  f[Len(data)]

(***************************************************************************)
(* Everything the simulator has been told to write, in order, is the part  *)
(* of the block that has been sent, at the addresses it belongs to, and    *)
(* each packet says how many bytes it brings.                              *)
(***************************************************************************)
EnvoisExacts ==
  LET avant[k \in 0 .. Len(envois)] ==   \* bytes in the first k packets
        IF k = 0 THEN 0 ELSE avant[k - 1] + envois[k].nb
  IN  /\ avant[Len(envois)] = Len(bloc) - size
      /\ \A k \in DOMAIN envois :
           /\ envois[k].address = (base + avant[k - 1]) % Espace
           /\ Lu(envois[k].data) = SubSeq(bloc, avant[k - 1] + 1, avant[k])
           /\ \A i \in DOMAIN envois[k].data : envois[k].data[i] \notin {36, 35}

(***************************************************************************)
(* A block overruns gdb->packet exactly when its data do not fit one       *)
(* packet: the buffer is declared full (MAX_BUFFER_SIZE - 1) behind the    *)
(* end of gdb->packet, so cutting a block in two never happens.            *)
(***************************************************************************)
Place == MAX_PACKET_SIZE - Debut - Fin

LongueurCodee ==
  LET f[i \in 0 .. Len(bloc)] ==
        IF i = 0 THEN 0
        ELSE f[i - 1] + IF bloc[i] \in {36, 35, 125} THEN 2 ELSE 1
  IN  f[Len(bloc)]

UnPaquet ==
  /\ etape = "deborde" => LongueurCodee > Place
  /\ etape = "fini" => LongueurCodee <= Place /\ Len(envois) <= 1
=============================================================================
