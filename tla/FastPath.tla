------------------------------- MODULE FastPath -------------------------------
(***************************************************************************)
(* One FastPathProcessor (src/fast_path.cpp): processPacket with its flow   *)
(* table, while another thread changes the rules.                           *)
(*                                                                          *)
(* RuleManager guards each kind of rule with a lock of its own, taken for   *)
(* one query at a time: processPacket is one action per query, and a rule   *)
(* may come or go between any two.  What the protocol extractors find in a  *)
(* payload is an input.  The domain rules are exact ones, about names none  *)
(* of which is a subdomain of another; wildcard patterns are left out.      *)
(***************************************************************************)
EXTENDS ConnectionTracker

CONSTANTS Tuples,      \* the tuples of the packets that come
          IPv6Addr,    \* the addresses that are IPv6
          Payload,     \* their payloads: the two below, what extractors find
          FlagSets,    \* the TCP flag combinations on them
          RuleIPs, RuleApps, RuleDomains  \* what rules are made about

\* No payload; a payload in which no extractor finds anything.
NoPayload == [kind |-> "none"]
Opaque == [kind |-> "opaque"]

\* An extractor found an application and at most one name.
Found == [kind : {"found"}, app : App, sni : Domain \cup {NoDomain},
          host : Domain \cup {NoDomain}]

ASSUME FastPathAssumption ==
    /\ Tuples \subseteq FiveTuple
    /\ IPv6Addr \subseteq Addr
    /\ Payload \subseteq {NoPayload, Opaque} \cup Found
    /\ FlagSets \subseteq SUBSET {"SYN", "ACK", "FIN", "RST"}
    /\ RuleIPs \subseteq Addr /\ RuleApps \subseteq App /\ RuleDomains \subseteq Domain

Job == [key : Tuples, flags : FlagSets, payload : Payload]

NoJob == [key |-> <<>>]

VARIABLES pc,         \* where processPacket is
          job,        \* the packet in hand
          verdict,    \* the PacketAction given to handleAction
          ips,        \* blocked_ips_
          apps,       \* blocked_apps_
          domains,    \* blocked_domains_
          steady,     \* history: the rules in force since the packet was taken
          cleanupDue  \* more than 10 s have passed since the last cleanup

rules == <<ips, apps, domains>>
vars == <<connections_, pc, job, verdict, rules, steady, cleanupDue>>

RuleSet == [ips : SUBSET RuleIPs, apps : SUBSET RuleApps,
            domains : SUBSET RuleDomains]

NoRules == [ips |-> {}, apps |-> {}, domains |-> {}]

TypeOK == /\ TrackerTypeOK
          /\ pc \in {"idle", "src", "dst", "inspect", "app", "domain", "done",
                  "terminated"}
          /\ job \in Job \cup {NoJob}
          /\ verdict \in {"NONE", "FORWARD", "DROP"}
          /\ ips \in SUBSET RuleIPs
          /\ apps \in SUBSET RuleApps
          /\ domains \in SUBSET RuleDomains
          /\ steady \in RuleSet
          /\ cleanupDue \in BOOLEAN

Init == /\ connections_ = [k \in {} |-> NoJob]
        /\ pc = "idle" /\ job = NoJob /\ verdict = "NONE"
        /\ ips = {} /\ apps = {} /\ domains = {}
        /\ steady = NoRules
        /\ cleanupDue = FALSE

-----------------------------------------------------------------------------
(* processPacket                                                             *)

CurrentKey == canonical(job.key)

Current == connections_[CurrentKey]

\* handleAction, the last thing processPacket does.
handleAction(action) == verdict' = action /\ pc' = "done"

\* Variant: the blocked connection is filed under the key as seen.
BlockAsSeen ==
    /\ connections_' = Put(connections_, job.key, blockConnection(Current))
    /\ handleAction("DROP")

\* A rule applies: blockConnection, then DROP.
BlockAndDrop ==
    /\ connections_' = Put(connections_, CurrentKey, blockConnection(Current))
    /\ handleAction("DROP")

\* The lookup and update of the connection and, for TCP, of its state.  A
\* packet of a blocked connection is dropped at once.
Track(key, flags, payload) ==
    LET k == canonical(key)
        after(table) == LET conn == updateConnection(table[k])
                        IN  IF key.protocol = 6 THEN updateTCPState(conn, flags)
                                                ELSE conn
    IN  /\ pc = "idle"
        /\ job' = [key |-> key, flags |-> flags, payload |-> payload]
        /\ steady' = [ips |-> ips, apps |-> apps, domains |-> domains]
        /\ \E table \in getOrCreateConnection(key) :
              /\ connections_' = Put(table, k, after(table))
              /\ IF after(table).state = "BLOCKED"
                 THEN handleAction("DROP")
                 ELSE pc' = "src" /\ UNCHANGED verdict
        /\ UNCHANGED <<rules, cleanupDue>>

\* std::get<IPv4Addr> of an IPv6 address throws, and nothing catches it: the
\* process ends.
BadVariantAccess ==
    /\ pc = "src"
    /\ CurrentKey.src_ip \in IPv6Addr
    /\ pc' = "terminated"
    /\ UNCHANGED <<connections_, verdict, job, rules, steady, cleanupDue>>

\* isIPBlocked of the canonical source address.
CheckSource ==
    /\ pc = "src"
    /\ CurrentKey.src_ip \notin IPv6Addr
    /\ \/ CurrentKey.src_ip \in ips /\ BlockAndDrop
       \/ /\ CurrentKey.src_ip \notin ips
          /\ pc' = "dst"
          /\ UNCHANGED <<connections_, verdict>>
    /\ UNCHANGED <<job, rules, steady, cleanupDue>>

\* Variant: the destination is not looked up.
CheckDestinationNot ==
    /\ pc = "dst"
    /\ pc' = "inspect"
    /\ UNCHANGED <<connections_, verdict, job, rules, steady, cleanupDue>>

\* isIPBlocked of the canonical destination address.
CheckDestination ==
    /\ pc = "dst"
    /\ \/ CurrentKey.dst_ip \in ips /\ BlockAndDrop
       \/ /\ CurrentKey.dst_ip \notin ips
          /\ pc' = "inspect"
          /\ UNCHANGED <<connections_, verdict>>
    /\ UNCHANGED <<job, rules, steady, cleanupDue>>

\* inspectPayload.  Of a TCP flow only the client's payloads are looked at.
\* When nothing was found in more than PacketLimit packets, the flow counts as
\* classified.
inspectPayload(conn) ==
    LET payload == job.payload
        looked == \/ CurrentKey.protocol = 17
                  \/ CurrentKey.protocol = 6 /\ isClient(conn, job.key)
    IN  IF payload = NoPayload THEN conn
        ELSE IF looked /\ payload # Opaque
        THEN classifyConnection(conn, payload.app, payload.sni, payload.host)
        ELSE IF conn.packets > PacketLimit
        THEN classifyConnection(conn, "UNKNOWN", NoDomain, NoDomain)
        ELSE conn

\* The inspection, and the way on: only a classified flow has more rules.
Inspect ==
    LET conn == IF Current.state \in {"NEW", "ESTABLISHED"}
                THEN inspectPayload(Current)
                ELSE Current
    IN  /\ pc = "inspect"
        /\ connections_' = Put(connections_, CurrentKey, conn)
        /\ IF conn.state = "CLASSIFIED" THEN pc' = "app" /\ UNCHANGED verdict
                                        ELSE handleAction("FORWARD")
        /\ UNCHANGED <<job, rules, steady, cleanupDue>>

CheckApp ==
    /\ pc = "app"
    /\ \/ Current.app_type \in apps /\ BlockAndDrop
       \/ /\ Current.app_type \notin apps
          /\ pc' = "domain"
          /\ UNCHANGED <<connections_, verdict>>
    /\ UNCHANGED <<job, rules, steady, cleanupDue>>

\* Variant: only the SNI is looked up.
CheckDomainSniOnly ==
    /\ pc = "domain"
    /\ \/ Current.sni \in domains /\ BlockAndDrop
       \/ /\ Current.sni \notin domains
          /\ handleAction("FORWARD")
          /\ UNCHANGED connections_
    /\ UNCHANGED <<job, rules, steady, cleanupDue>>

\* isDomainBlocked; no rule covers the empty name.
CheckDomain ==
    /\ pc = "domain"
    /\ \/ bestDomain(Current) \in domains /\ BlockAndDrop
       \/ /\ bestDomain(Current) \notin domains
          /\ handleAction("FORWARD")
          /\ UNCHANGED connections_
    /\ UNCHANGED <<job, rules, steady, cleanupDue>>

-----------------------------------------------------------------------------
(* run(): the end of the loop's body, after a packet or an empty wait        *)

EndOfLoop ==
    /\ pc \in {"idle", "done"}
    /\ pc = "done" \/ cleanupDue
    /\ connections_' = IF cleanupDue THEN cleanupStale ELSE connections_
    /\ cleanupDue' = FALSE
    /\ pc' = "idle" /\ job' = NoJob /\ verdict' = "NONE" /\ steady' = NoRules
    /\ UNCHANGED rules

\* A unit of time, longer than the 10 s between cleanups, passes.
Tick == /\ connections_' = Aged
        /\ cleanupDue' = TRUE
        /\ UNCHANGED <<pc, job, verdict, rules, steady>>

-----------------------------------------------------------------------------
(* RuleManager's updates, by another thread                                  *)

BlockIP(ip) == /\ ips' = ips \cup {ip}
               /\ UNCHANGED <<connections_, pc, job, verdict, apps, domains,
                              steady, cleanupDue>>

UnblockIP(ip) == /\ ips' = ips \ {ip}
                 /\ steady' = [steady EXCEPT !.ips = @ \ {ip}]
                 /\ UNCHANGED <<connections_, pc, job, verdict, apps, domains,
                                cleanupDue>>

BlockApp(app) == /\ apps' = apps \cup {app}
                 /\ UNCHANGED <<connections_, pc, job, verdict, ips, domains,
                                steady, cleanupDue>>

UnblockApp(app) == /\ apps' = apps \ {app}
                   /\ steady' = [steady EXCEPT !.apps = @ \ {app}]
                   /\ UNCHANGED <<connections_, pc, job, verdict, ips, domains,
                                  cleanupDue>>

BlockDomain(d) == /\ domains' = domains \cup {d}
                  /\ UNCHANGED <<connections_, pc, job, verdict, ips, apps,
                                 steady, cleanupDue>>

UnblockDomain(d) == /\ domains' = domains \ {d}
                    /\ steady' = [steady EXCEPT !.domains = @ \ {d}]
                    /\ UNCHANGED <<connections_, pc, job, verdict, ips, apps,
                                   cleanupDue>>

-----------------------------------------------------------------------------

\* Only TCP packets have flags.
Receive == \E key \in Tuples, payload \in Payload :
              \E flags \in FlagSets :
                 /\ key.protocol # 6 => flags = {}
                 /\ Track(key, flags, payload)

Check == \/ CheckSource \/ BadVariantAccess
         \/ CheckDestination
         \/ Inspect
         \/ CheckApp
         \/ CheckDomain

RuleChange == \/ \E ip \in RuleIPs : BlockIP(ip) \/ UnblockIP(ip)
              \/ \E app \in RuleApps : BlockApp(app) \/ UnblockApp(app)
              \/ \E d \in RuleDomains : BlockDomain(d) \/ UnblockDomain(d)

\* Once terminated, the process does nothing.
Terminated == pc = "terminated" /\ UNCHANGED vars

Next == \/ Receive
        \/ Check
        \/ EndOfLoop
        \/ pc # "terminated" /\ (Tick \/ RuleChange)
        \/ Terminated

\* The thread runs and time passes; packets and rule changes may stop.
Fairness == /\ WF_vars(Check)
            /\ WF_vars(EndOfLoop)
            /\ WF_vars(pc # "terminated" /\ Tick)

Spec == Init /\ [][Next]_vars

FairSpec == Spec /\ Fairness

-----------------------------------------------------------------------------
(* Properties                                                                *)

\* The flow table never holds more than max_connections_ connections, whatever
\* the interleaving of creation, eviction and cleanup.
TableBounded == Cardinality(DOMAIN connections_) <= MaxConnections

\* A packet is forwarded only when no IP rule that was in force all the time
\* from its arrival to the verdict names one of its ends; in particular for a
\* flow whose blocked state was lost to a handshake, an eviction or a timeout.
IPRuleEnforced ==
    verdict = "FORWARD" => {CurrentKey.src_ip, CurrentKey.dst_ip}
                              \cap steady.ips = {}

\* A packet of a classified flow is forwarded only when neither its application
\* nor its best name was under a rule all the time since its arrival: a rule
\* added after the classification applies to the flow's next packet.
ClassRuleEnforced ==
    verdict = "FORWARD" /\ Current.state = "CLASSIFIED" =>
        /\ Current.app_type \notin steady.apps
        /\ bestDomain(Current) \notin steady.domains

\* The end that sent a flow's first packet is the client for all its packets,
\* in the order of the canonical key or against it.
ClientIsOpener ==
    job # NoJob /\ reverse(job.key) # job.key =>
        (isClient(Current, job.key) <=> job.key = Current.opener)

\* A blocked connection is let go only by a packet with SYN and ACK that follows
\* a SYN, by an RST, or by leaving the table.
BlockedIsKept ==
    [][\A k \in DOMAIN connections_ \cap DOMAIN connections_' :
          connections_[k].state = "BLOCKED" /\ connections_'[k].state # "BLOCKED"
          => /\ job' # NoJob /\ canonical(job'.key) = k
             /\ \/ {"SYN", "ACK"} \subseteq job'.flags /\ connections_[k].syn_seen
                \/ "RST" \in job'.flags]_vars

\* A flow that has no more packets leaves the table, whatever its state.
IdleFlowIsRemoved ==
    \A k \in Key : []<>(\/ k \notin DOMAIN connections_
                        \/ job # NoJob /\ canonical(job.key) = k)

\* A closed connection leaves the table or is reopened, even when packets of
\* its flow keep coming.
ClosedIsRemoved ==
    \A k \in Key :
        (k \in DOMAIN connections_ /\ connections_[k].state = "CLOSED")
        ~> (k \in DOMAIN connections_ => connections_[k].state # "CLOSED")

-----------------------------------------------------------------------------
(* What the documentation says                                               *)

\* README.md:54, the engine "Parses Ethernet, IPv4, IPv6, TCP, UDP, ICMP": a
\* packet of a family the parser accepts does not end the process.
SurvivesEveryPacket == pc # "terminated"
=============================================================================
