-------------------------- MODULE ConnectionTracker --------------------------
(***************************************************************************)
(* ConnectionTracker (src/connection_tracker.cpp), the flow table of one    *)
(* fast path, with the TCP flag handling of its only caller.  One thread    *)
(* uses a table: its operations are operators that the actions of           *)
(* FastPath.tla put together.  Statistics are left out, and so is the       *)
(* reassembler a connection carries (TCPReassembler.tla).                   *)
(*                                                                          *)
(* Time is counted in the unit of the half-open timeout; a connection's age *)
(* is the time since last_seen.                                             *)
(***************************************************************************)
EXTENDS FlowKey, Functions, FiniteSets

CONSTANTS MaxConnections,  \* max_connections_
          App,             \* AppType, "UNKNOWN" among them
          Domain,          \* server names
          NoDomain,        \* the empty string
          PacketLimit,     \* 10: packets after which a flow is UNKNOWN
          HalfOpenTimeout, \* 60 s: TCP flows that are not established
          DatagramTimeout, \* 120 s: flows that are not TCP
          DefaultTimeout   \* 300 s: established and classified TCP flows

\* Ages beyond every timeout are not told apart.
MaxAge == DefaultTimeout + 1

ASSUME TrackerAssumption ==
    /\ MaxConnections \in Nat \ {0}
    /\ "UNKNOWN" \in App
    /\ NoDomain \notin Domain
    /\ PacketLimit \in Nat
    /\ HalfOpenTimeout \in Nat /\ DatagramTimeout \in Nat /\ DefaultTimeout \in Nat
    /\ HalfOpenTimeout <= DefaultTimeout /\ DatagramTimeout <= DefaultTimeout

Key == {canonical(t) : t \in FiveTuple}

ConnectionState == {"NEW", "ESTABLISHED", "CLASSIFIED", "BLOCKED", "CLOSED"}

\* packets is packets_in + packets_out, of which only "more than PacketLimit"
\* matters; host is http_host of a TCP flow and dns_query of a UDP flow;
\* opener, history, is the key of the flow's first packet.
Connection == [state : ConnectionState,
               app_type : App,
               sni : Domain \cup {NoDomain},
               host : Domain \cup {NoDomain},
               original_is_canonical : BOOLEAN,
               packets : 0..(PacketLimit + 1),
               syn_seen : BOOLEAN,
               fin_seen : BOOLEAN,
               age : 0..MaxAge,
               opener : FiveTuple]

VARIABLE connections_

TrackerTypeOK == /\ DOMAIN connections_ \subseteq Key
                 /\ \A k \in DOMAIN connections_ : connections_[k] \in Connection

-----------------------------------------------------------------------------

\* Variant: the direction of the first packet is not recorded.
NewConnectionNoDirection(key) ==
    [state |-> "NEW", app_type |-> "UNKNOWN", sni |-> NoDomain,
     host |-> NoDomain, original_is_canonical |-> TRUE,
     packets |-> 0, syn_seen |-> FALSE, fin_seen |-> FALSE, age |-> 0,
     opener |-> key]

NewConnection(key) ==
    [state |-> "NEW", app_type |-> "UNKNOWN", sni |-> NoDomain,
     host |-> NoDomain, original_is_canonical |-> (key = canonical(key)),
     packets |-> 0, syn_seen |-> FALSE, fin_seen |-> FALSE, age |-> 0,
     opener |-> key]

\* The name the rules are applied to: SNI before HTTP host and DNS query.
bestDomain(conn) == IF conn.sni # NoDomain THEN conn.sni ELSE conn.host

\* The table f with connection c under key k.
Put(f, k, c) == [j \in DOMAIN f \cup {k} |-> IF j = k THEN c ELSE f[j]]

\* The connections evictOldest may choose.
Oldest == {k \in DOMAIN connections_ :
             \A j \in DOMAIN connections_ :
                connections_[j].age <= connections_[k].age}

\* Variant: the table is full one connection later.
TableFullLate == Cardinality(DOMAIN connections_) > MaxConnections

TableFull == Cardinality(DOMAIN connections_) >= MaxConnections

\* The table f without the connections in S.
Without(f, S) == Restrict(f, DOMAIN f \ S)

\* getOrCreateConnection: the tables it may leave.  A new connection takes the
\* place of one of the oldest when the table is full.
getOrCreateConnection(key) ==
    LET k == canonical(key)
        tables == IF TableFull THEN {Without(connections_, {old}) : old \in Oldest}
                               ELSE {connections_}
    IN  IF k \in DOMAIN connections_
        THEN {connections_}
        ELSE {Put(table, k, NewConnection(key)) : table \in tables}

\* updateConnection, with the packet count cut off where it stops to matter.
updateConnection(conn) ==
    [conn EXCEPT !.age = 0,
                 !.packets = IF @ > PacketLimit THEN @ ELSE @ + 1]

\* FastPathProcessor::processPacket's is_client.
isClient(conn, key) == conn.original_is_canonical <=> (canonical(key) = key)

\* Variant: every SYN starts the connection over.
updateTCPStateRestart(conn, flags) ==
    IF "SYN" \in flags THEN [conn EXCEPT !.state = "NEW", !.syn_seen = TRUE]
                       ELSE conn

\* FastPathProcessor::updateTCPState with closeConnection.
updateTCPState(conn, flags) ==
    CASE {"SYN", "ACK"} \subseteq flags ->
            [conn EXCEPT !.state = IF conn.syn_seen THEN "ESTABLISHED" ELSE @]
      [] "SYN" \in flags /\ "ACK" \notin flags -> [conn EXCEPT !.syn_seen = TRUE]
      [] "SYN" \notin flags /\ "FIN" \in flags -> [conn EXCEPT !.fin_seen = TRUE]
      [] flags \cap {"SYN", "FIN", "RST"} = {"RST"} ->
            [conn EXCEPT !.state = "CLOSED"]
      [] OTHER -> conn

\* classifyConnection: an empty name leaves the one stored before.
classifyConnection(conn, app, sni, host) ==
    [conn EXCEPT !.app_type = IF conn.state # "CLASSIFIED" THEN app ELSE @,
                 !.state = "CLASSIFIED",
                 !.sni = IF sni # NoDomain THEN sni ELSE @,
                 !.host = IF host # NoDomain THEN host ELSE @]

blockConnection(conn) == [conn EXCEPT !.state = "BLOCKED"]

\* Variant: only TCP flows time out.
staleTCPOnly(k, conn) ==
    \/ conn.state = "CLOSED"
    \/ k.protocol = 6 /\ conn.age > DefaultTimeout

\* Variant: a closed connection waits for its timeout.
staleClosedWaits(k, conn) ==
    conn.age > IF k.protocol = 6 THEN DefaultTimeout ELSE DatagramTimeout

\* cleanupStale's should_remove.
stale(k, conn) ==
    \/ conn.state = "CLOSED"
    \/ conn.age > IF k.protocol # 6 THEN DatagramTimeout
                  ELSE IF conn.state \in {"ESTABLISHED", "CLASSIFIED"}
                  THEN DefaultTimeout
                  ELSE HalfOpenTimeout

\* The table after cleanupStale.
cleanupStale == Without(connections_, {k \in DOMAIN connections_ :
                                         stale(k, connections_[k])})

\* The table a unit of time later.
Aged == [k \in DOMAIN connections_ |->
            [connections_[k] EXCEPT !.age = IF @ < MaxAge THEN @ + 1 ELSE @]]
=============================================================================
