-------------------------------- MODULE Uuid --------------------------------
(***************************************************************************)
(* The identifiers of pkg/uuid: a UUIDv7 is the block time in milliseconds *)
(* (48 bits), the sequence number of the module (12 bits) and a hash of    *)
(* header, chain, module and sequence (62 bits).  Nobody checks that a new *)
(* identifier is free.  The hash is any number here: what is shown does    *)
(* not rest on it.  Identifiers are compared byte by byte, the most        *)
(* significant first, so the parts decide one after the other.             *)
(***************************************************************************)
EXTENDS Naturals

GenerateUUIDv7WithEntropy(ms, sequence, hash) ==
  [time |-> ms % 281474976710656, sequence |-> sequence % 4096,
   node |-> hash % 4611686018427387904]

ComesBefore(u, v) ==
  \/ u.time < v.time
  \/ u.time = v.time /\ u.sequence < v.sequence
  \/ u.time = v.time /\ u.sequence = v.sequence /\ u.node < v.node
=============================================================================
