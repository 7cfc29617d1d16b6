------------------------------ MODULE FlowKey ------------------------------
(***************************************************************************)
(* FiveTuple of include/types.h: the identity of a flow, its canonical form *)
(* and its hash, on which all routing of packets to threads rests.          *)
(* Addresses and ports are naturals: the code only compares and copies them.*)
(***************************************************************************)
EXTENDS Naturals

CONSTANTS Addr,      \* the IP addresses, as unsigned integers
          Port,      \* the ports
          Protocol,  \* the transport protocols
          HashOf     \* what FiveTupleHash mixes out of a canonical tuple

FiveTuple == [src_ip : Addr, dst_ip : Addr, src_port : Port, dst_port : Port,
              protocol : Protocol]

ASSUME FlowKeyAssumption == /\ Addr \subseteq Nat
                            /\ Port \subseteq Nat
                            /\ HashOf \in [FiveTuple -> Nat]

reverse(t) == [src_ip |-> t.dst_ip, dst_ip |-> t.src_ip,
               src_port |-> t.dst_port, dst_port |-> t.src_port,
               protocol |-> t.protocol]

\* Variant: only the addresses decide, so the ports of a flow between two
\* sockets of one host keep their order.
canonicalByAddress(t) == IF t.src_ip <= t.dst_ip THEN t ELSE reverse(t)

\* The lower endpoint first: by address, then by port.
canonical(t) ==
    IF \/ t.src_ip < t.dst_ip
       \/ t.src_ip = t.dst_ip /\ t.src_port <= t.dst_port
    THEN t
    ELSE reverse(t)

\* FiveTupleHash: a hash of the canonical form.
FiveTupleHash(t) == HashOf[canonical(t)]

\* Two packets are of one flow when their tuples are equal or each other's
\* reverse; stated without canonical().
SameFlow(t, u) == t = u \/ t = reverse(u)
=============================================================================
