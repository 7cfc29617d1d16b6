----------------------------- MODULE MCFastPath -----------------------------
(***************************************************************************)
(* Instances of FastPath for TLC: a TCP flow between addresses 0 and 1 in   *)
(* both directions, a UDP flow between them and, where addresses 2 and 3    *)
(* exist, an IPv6 flow between these.                                       *)
(***************************************************************************)
EXTENDS FastPath

MCHashOf == [t \in FiveTuple |-> 0]

\* A name found as SNI, and as HTTP host or DNS query.
MCPayload == {NoPayload, Opaque,
              [kind |-> "found", app |-> "TLS", sni |-> "a", host |-> NoDomain],
              [kind |-> "found", app |-> "UNKNOWN", sni |-> NoDomain, host |-> "a"]}

MCTuples == {t \in FiveTuple : /\ t.src_ip # t.dst_ip
                               /\ {t.src_ip, t.dst_ip} \in {{0, 1}, {2, 3}}
                               /\ t.protocol = 17 => t.src_ip \in {0, 3}
                               /\ t.src_ip \in {2, 3} => t.protocol = 17}

MCOpaque == {Opaque}

MCFewFlagSets == {{}, {"SYN"}, {"SYN", "ACK"}, {"RST"}}

MCFlagSets == {{}, {"SYN"}, {"SYN", "ACK"}, {"ACK"}, {"FIN", "ACK"}, {"RST"}}
=============================================================================
