----------------------------- MODULE MCPipeline -----------------------------
(***************************************************************************)
(* Instances of Pipeline for TLC.  Addresses and ports are 0 and 1.         *)
(***************************************************************************)
EXTENDS Pipeline

Tuple(sip, dip, sport, dport) ==
    [src_ip |-> sip, dst_ip |-> dip, src_port |-> sport, dst_port |-> dport,
     protocol |-> "tcp"]

\* A hash under which the flows below use different load balancers.
MCHashOf == [t \in FiveTuple |-> t.src_ip + 2 * t.dst_ip + t.src_port + 2 * t.dst_port]

\* A flow inside one host, in both directions (1, 2, 5), a packet of a flow
\* that goes to the other load balancer, and one more.
MCTupleOf == [p \in Packet |->
                CASE p = 1 -> Tuple(0, 0, 0, 1)
                  [] p = 2 -> Tuple(0, 0, 1, 0)
                  [] p = 3 -> Tuple(1, 0, 0, 1)
                  [] p = 4 -> Tuple(1, 1, 0, 0)
                  [] OTHER -> Tuple(0, 0, 0, 1)]
=============================================================================
