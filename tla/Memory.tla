-------------------------------- MODULE Memory --------------------------------
(***************************************************************************)
(* The bytes of a packet and what lies behind them in the program's memory. *)
(* The code indexes a std::vector or a pointer without a check of its own,  *)
(* so an index behind the end gives whatever is there: the outcome is       *)
(* undefined, and any content is possible.  It is chosen anew for every     *)
(* packet.                                                                  *)
(***************************************************************************)
EXTENDS Integers, Sequences

CONSTANT Memories   \* what may lie behind a packet, over and over again

Byte == 0..255

ASSUME MemoryAssumption == Memories \subseteq Seq(Byte) \ {<<>>}

VARIABLE memory     \* what lies behind the packet that is in work

\* The byte at position i, counted from zero, of what begins with p.
ByteAt(p, i) == IF i < Len(p) THEN p[i + 1]
                              ELSE memory[((i - Len(p)) % Len(memory)) + 1]
=============================================================================
