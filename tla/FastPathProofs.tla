---------------------------- MODULE FastPathProofs ----------------------------
(***************************************************************************)
(* The flow table and processPacket, for any set of addresses, names and    *)
(* rules and any size of the table.                                         *)
(***************************************************************************)
EXTENDS FastPath, FiniteSetTheorems, TLAPS

-----------------------------------------------------------------------------
(* Flow identity                                                             *)

\* A tuple and its reverse are all the tuples of a flow.
LEMMA ReverseTwice ==
  ASSUME NEW t \in FiveTuple
  PROVE  reverse(t) \in FiveTuple /\ reverse(reverse(t)) = t
  BY DEF reverse, FiveTuple

\* The canonical form of a tuple is the tuple or its reverse.
LEMMA CanonicalForm ==
  ASSUME NEW t \in FiveTuple
  PROVE  canonical(t) \in FiveTuple /\ canonical(t) \in {t, reverse(t)}
  BY ReverseTwice DEF canonical

\* Two tuples with one canonical form are equal or each other's reverse.
LEMMA SameCanonical ==
  ASSUME NEW t \in FiveTuple, NEW u \in FiveTuple, canonical(t) = canonical(u)
  PROVE  t = u \/ t = reverse(u)
  BY CanonicalForm, ReverseTwice

-----------------------------------------------------------------------------
(* The flow table                                                            *)

\* What is true of a connection under its key, besides its type: it is filed
\* under the canonical form of the first packet's key, and remembers whether
\* that one was canonical.
ConnOK(k, c) == /\ c \in Connection
                /\ canonical(c.opener) = k
                /\ c.original_is_canonical = (c.opener = k)

TableOK(t) == /\ DOMAIN t \subseteq Key
              /\ \A k \in DOMAIN t : ConnOK(k, t[k])
              /\ IsFiniteSet(DOMAIN t)
              /\ Cardinality(DOMAIN t) <= MaxConnections

\* A connection is replaced by one that changed.
LEMMA PutExisting ==
  ASSUME NEW t, NEW k \in DOMAIN t, NEW c
  PROVE  /\ DOMAIN Put(t, k, c) = DOMAIN t
         /\ Put(t, k, c)[k] = c
         /\ \A j \in DOMAIN t : j # k => Put(t, k, c)[j] = t[j]
  BY DEF Put

LEMMA PutKeepsTable ==
  ASSUME NEW t, TableOK(t), NEW k \in DOMAIN t, NEW c, ConnOK(k, c)
  PROVE  TableOK(Put(t, k, c))
  BY PutExisting DEF TableOK

\* What changes a connection leaves alone: where it is filed, and why there.
SameFiling(c, d) == /\ d \in Connection
                    /\ d.opener = c.opener
                    /\ d.original_is_canonical = c.original_is_canonical

LEMMA SameFilingOK ==
  ASSUME NEW k, NEW c, ConnOK(k, c), NEW d, SameFiling(c, d)
  PROVE  ConnOK(k, d)
  BY DEF ConnOK, SameFiling

LEMMA UpdateConnection ==
  ASSUME NEW c \in Connection
  PROVE  /\ SameFiling(c, updateConnection(c))
         /\ updateConnection(c).state = c.state
         /\ updateConnection(c).syn_seen = c.syn_seen
  <1> DEFINE age == 0
             packets == IF c.packets > PacketLimit THEN c.packets ELSE c.packets + 1
  <1>1. packets \in 0..(PacketLimit + 1) /\ age \in 0..MaxAge
    BY TrackerAssumption DEF Connection, MaxAge
  <1>2. updateConnection(c) = [c EXCEPT !.age = age, !.packets = packets]
    BY DEF updateConnection, Connection
  <1> HIDE DEF age, packets
  <1> QED
    BY <1>1, <1>2 DEF Connection, SameFiling

\* The packet that takes a connection out of BLOCKED: a SYN and ACK after a
\* SYN, or an RST.
LEMMA UpdateTCPState ==
  ASSUME NEW c \in Connection, NEW flags
  PROVE  /\ SameFiling(c, updateTCPState(c, flags))
         /\ \/ updateTCPState(c, flags).state = c.state
            \/ {"SYN", "ACK"} \subseteq flags /\ c.syn_seen
            \/ "RST" \in flags
  <1>1. CASE {"SYN", "ACK"} \subseteq flags
    BY <1>1 DEF Connection, ConnectionState, updateTCPState, SameFiling
  <1>2. CASE "SYN" \in flags /\ "ACK" \notin flags
    <2>1. updateTCPState(c, flags) = [c EXCEPT !.syn_seen = TRUE]
      BY <1>2 DEF updateTCPState
    <2> QED
      BY <2>1 DEF Connection, SameFiling
  <1>3. CASE "SYN" \notin flags /\ "FIN" \in flags
    <2>1. flags \cap {"SYN", "FIN", "RST"} # {"RST"}
      BY <1>3
    <2>2. updateTCPState(c, flags) = [c EXCEPT !.fin_seen = TRUE]
      BY <1>3, <2>1 DEF updateTCPState
    <2> QED
      BY <2>2 DEF Connection, SameFiling
  <1>4. CASE "SYN" \notin flags /\ "FIN" \notin flags /\ "RST" \in flags
    <2>1. flags \cap {"SYN", "FIN", "RST"} = {"RST"}
      BY <1>4
    <2>2. updateTCPState(c, flags) = [c EXCEPT !.state = "CLOSED"]
      BY <1>4, <2>1 DEF updateTCPState
    <2> QED
      BY <1>4, <2>2 DEF Connection, ConnectionState, SameFiling
  <1>5. CASE "SYN" \notin flags /\ "FIN" \notin flags /\ "RST" \notin flags
    <2>1. flags \cap {"SYN", "FIN", "RST"} # {"RST"}
      BY <1>5
    <2>2. updateTCPState(c, flags) = c
      BY <1>5, <2>1 DEF updateTCPState
    <2> QED
      BY <2>2 DEF SameFiling
  <1> QED
    BY <1>1, <1>2, <1>3, <1>4, <1>5

LEMMA BlockConnection ==
  ASSUME NEW c \in Connection
  PROVE  SameFiling(c, blockConnection(c)) /\ blockConnection(c).state = "BLOCKED"
  BY DEF Connection, ConnectionState, blockConnection, SameFiling

LEMMA ClassifyConnection ==
  ASSUME NEW c \in Connection, NEW app \in App,
         NEW sni \in Domain \cup {NoDomain}, NEW host \in Domain \cup {NoDomain}
  PROVE  SameFiling(c, classifyConnection(c, app, sni, host))
  BY DEF Connection, ConnectionState, classifyConnection, SameFiling

LEMMA NewConnectionOK ==
  ASSUME NEW key \in FiveTuple
  PROVE  ConnOK(canonical(key), NewConnection(key))
  <1>1. NewConnection(key) \in Connection
    BY TrackerAssumption DEF NewConnection, Connection, ConnectionState, MaxAge
  <1>2. /\ NewConnection(key).opener = key
        /\ NewConnection(key).original_is_canonical = (key = canonical(key))
    BY DEF NewConnection
  <1> QED
    BY <1>1, <1>2 DEF ConnOK

\* A table without some of its connections.
LEMMA WithoutKeepsTable ==
  ASSUME NEW t, TableOK(t), NEW S
  PROVE  /\ TableOK(Without(t, S))
         /\ DOMAIN Without(t, S) = DOMAIN t \ S
         /\ \A k \in DOMAIN t \ S : Without(t, S)[k] = t[k]
  <1>1. /\ DOMAIN Without(t, S) = DOMAIN t \ S
        /\ \A k \in DOMAIN t \ S : Without(t, S)[k] = t[k]
    BY DEF Without, Restrict
  <1>2. /\ IsFiniteSet(DOMAIN t \ S)
        /\ Cardinality(DOMAIN t \ S) <= Cardinality(DOMAIN t)
    BY FS_Subset DEF TableOK
  <1>3. /\ Cardinality(DOMAIN t \ S) \in Nat
        /\ Cardinality(DOMAIN t) \in Nat
    BY <1>2, FS_CardinalityType DEF TableOK
  <1> QED
    BY <1>1, <1>2, <1>3, TrackerAssumption DEF TableOK

\* A connection that is added to a table with room for it.
LEMMA PutNew ==
  ASSUME NEW t, TableOK(t), NEW k \in Key, k \notin DOMAIN t,
         Cardinality(DOMAIN t) < MaxConnections, NEW c, ConnOK(k, c)
  PROVE  /\ TableOK(Put(t, k, c))
         /\ DOMAIN Put(t, k, c) = DOMAIN t \cup {k}
         /\ \A j \in DOMAIN t : Put(t, k, c)[j] = t[j]
  <1>1. /\ DOMAIN Put(t, k, c) = DOMAIN t \cup {k}
        /\ Put(t, k, c)[k] = c
        /\ \A j \in DOMAIN t : Put(t, k, c)[j] = t[j]
    BY DEF Put
  <1>2. /\ IsFiniteSet(DOMAIN t \cup {k})
        /\ Cardinality(DOMAIN t \cup {k}) = Cardinality(DOMAIN t) + 1
    BY FS_AddElement DEF TableOK
  <1>3. Cardinality(DOMAIN t) \in Nat
    BY FS_CardinalityType DEF TableOK
  <1>4. Cardinality(DOMAIN Put(t, k, c)) <= MaxConnections
    BY <1>1, <1>2, <1>3, TrackerAssumption
  <1> QED
    BY <1>1, <1>2, <1>4 DEF TableOK

\* getOrCreateConnection never leaves the table overfull, files the connection
\* under the canonical key and touches no other connection but to evict it.
LEMMA GetOrCreate ==
  ASSUME TableOK(connections_), NEW key \in FiveTuple,
         NEW table \in getOrCreateConnection(key)
  PROVE  /\ TableOK(table)
         /\ canonical(key) \in DOMAIN table
         /\ canonical(key) \in DOMAIN connections_ => table = connections_
         /\ \A j \in DOMAIN table : j # canonical(key) =>
               j \in DOMAIN connections_ /\ table[j] = connections_[j]
  <1> DEFINE k == canonical(key)
  <1>k. k \in Key
    BY DEF Key
  <1>n. ConnOK(k, NewConnection(key))
    BY NewConnectionOK
  <1>1. CASE k \in DOMAIN connections_
    BY <1>1 DEF getOrCreateConnection
  <1>2. CASE k \notin DOMAIN connections_ /\ ~TableFull
    <2>1. table = Put(connections_, k, NewConnection(key))
      BY <1>2 DEF getOrCreateConnection
    <2>2. Cardinality(DOMAIN connections_) < MaxConnections
      <3>1. Cardinality(DOMAIN connections_) \in Nat
        BY FS_CardinalityType DEF TableOK
      <3> QED
        BY <3>1, <1>2, TrackerAssumption DEF TableFull
    <2> HIDE DEF k
    <2>3. k \notin DOMAIN connections_
      BY <1>2
    <2>4. /\ TableOK(table)
          /\ DOMAIN table = DOMAIN connections_ \cup {k}
          /\ \A j \in DOMAIN connections_ : table[j] = connections_[j]
      <3> DEFINE put == Put(connections_, k, NewConnection(key))
      <3>1. /\ TableOK(put)
            /\ DOMAIN put = DOMAIN connections_ \cup {k}
            /\ \A j \in DOMAIN connections_ : put[j] = connections_[j]
        BY <1>k, <1>n, <2>2, <2>3, PutNew
      <3> QED
        BY <2>1, <3>1
    <2> QED
      BY <2>3, <2>4 DEF k
  <1>3. CASE k \notin DOMAIN connections_ /\ TableFull
    <2>1. PICK old \in Oldest :
             table = Put(Without(connections_, {old}), k, NewConnection(key))
      BY <1>3 DEF getOrCreateConnection
    <2> DEFINE rest == Without(connections_, {old})
    <2>2. /\ TableOK(rest)
          /\ DOMAIN rest = DOMAIN connections_ \ {old}
          /\ \A j \in DOMAIN rest : rest[j] = connections_[j]
      <3>1. /\ TableOK(Without(connections_, {old}))
            /\ DOMAIN Without(connections_, {old}) = DOMAIN connections_ \ {old}
            /\ \A j \in DOMAIN connections_ \ {old} :
                  Without(connections_, {old})[j] = connections_[j]
        BY WithoutKeepsTable
      <3> QED
        BY <3>1
    <2>3. Cardinality(DOMAIN rest) < MaxConnections
      <3>1. old \in DOMAIN connections_
        BY DEF Oldest
      <3>2. Cardinality(DOMAIN connections_ \ {old}) = Cardinality(DOMAIN connections_) - 1
        BY <3>1, FS_RemoveElement DEF TableOK
      <3>3. Cardinality(DOMAIN connections_) \in Nat
        BY FS_CardinalityType DEF TableOK
      <3> QED
        BY <2>2, <3>2, <3>3, TrackerAssumption DEF TableOK
    <2> HIDE DEF k, rest
    <2>4. k \notin DOMAIN rest
      BY <1>3, <2>2
    <2>5. table = Put(rest, k, NewConnection(key))
      BY <2>1 DEF rest
    <2>6. /\ TableOK(table)
          /\ DOMAIN table = DOMAIN rest \cup {k}
          /\ \A j \in DOMAIN rest : table[j] = rest[j]
      <3>1. TableOK(rest)
        BY <2>2
      <3> QED
        BY <1>k, <1>n, <2>3, <2>4, <2>5, <3>1, PutNew
    <2> QED
      BY <1>3, <2>2, <2>6 DEF k
  <1> QED
    BY <1>1, <1>2, <1>3

-----------------------------------------------------------------------------
(* The inductive invariant                                                   *)

\* The packet in hand has its connection in the table until its verdict is
\* given; only then is there a verdict.
HandOK == /\ pc \in {"idle", "src", "dst", "inspect", "app", "domain", "done",
                     "terminated"}
          /\ verdict \in {"NONE", "FORWARD", "DROP"}
          /\ verdict # "NONE" => pc = "done"
          /\ pc = "idle" => job = NoJob
          /\ pc # "idle" => job \in Job /\ CurrentKey \in DOMAIN connections_

\* A rule that counts as steady is in force now.
RulesOK == /\ ips \in SUBSET RuleIPs
           /\ apps \in SUBSET RuleApps
           /\ domains \in SUBSET RuleDomains
           /\ steady \in RuleSet
           /\ steady.ips \subseteq ips
           /\ steady.apps \subseteq apps
           /\ steady.domains \subseteq domains
           /\ cleanupDue \in BOOLEAN

\* The checks that are behind the packet found no steady rule.
PassedIPs ==
    /\ pc \in {"dst", "inspect", "app", "domain"} \/ verdict = "FORWARD"
          => CurrentKey.src_ip \notin steady.ips
    /\ pc \in {"inspect", "app", "domain"} \/ verdict = "FORWARD"
          => CurrentKey.dst_ip \notin steady.ips

PassedClass ==
    /\ pc = "domain" => Current.app_type \notin steady.apps
    /\ ClassRuleEnforced

IInv == /\ TableOK(connections_)
        /\ HandOK
        /\ RulesOK
        /\ PassedIPs
        /\ PassedClass

\* The connection of the packet in hand.
LEMMA CurrentOK ==
  ASSUME IInv, pc # "idle"
  PROVE  /\ CurrentKey \in DOMAIN connections_
         /\ ConnOK(CurrentKey, Current)
         /\ Current \in Connection
         /\ job \in Job
  BY DEF IInv, HandOK, TableOK, ConnOK, Current

\* A step that finishes the packet with DROP, or moves it on, has the
\* invariant when it keeps the table's and the hand's part.
LEMMA BlockKeeps ==
  ASSUME IInv, pc \in {"src", "dst", "app", "domain"}, BlockAndDrop,
         UNCHANGED <<job, rules, steady, cleanupDue>>
  PROVE  IInv'
  <1>1. /\ connections_' = Put(connections_, CurrentKey, blockConnection(Current))
        /\ pc' = "done" /\ verdict' = "DROP"
        /\ job' = job /\ steady' = steady /\ ips' = ips /\ apps' = apps
        /\ domains' = domains /\ cleanupDue' = cleanupDue
    BY DEF BlockAndDrop, handleAction, rules
  <1>2. CurrentKey' = CurrentKey
    BY <1>1 DEF CurrentKey
  <1>3. TableOK(connections_')
    <2>1. ConnOK(CurrentKey, blockConnection(Current))
      BY CurrentOK, BlockConnection, SameFilingOK
    <2> QED
      BY <1>1, <2>1, CurrentOK, PutKeepsTable DEF IInv
  <1>4. DOMAIN connections_' = DOMAIN connections_
    BY <1>1, CurrentOK, PutExisting
  <1>5. HandOK'
    BY <1>1, <1>2, <1>4, CurrentOK DEF HandOK
  <1>6. RulesOK'
    BY <1>1 DEF IInv, RulesOK
  <1>7. PassedIPs' /\ PassedClass'
    BY <1>1 DEF PassedIPs, PassedClass, ClassRuleEnforced
  <1> QED
    BY <1>3, <1>5, <1>6, <1>7 DEF IInv

\* The check of an address, an application or a name that is not under a rule.
LEMMA CheckSourceKeeps ==
  ASSUME IInv, CheckSource
  PROVE  IInv'
  <1>1. CASE BlockAndDrop
    BY <1>1, BlockKeeps DEF CheckSource
  <1>2. CASE /\ CurrentKey.src_ip \notin ips
             /\ pc' = "dst"
             /\ UNCHANGED <<connections_, verdict>>
    <2> /\ pc = "src"
        /\ UNCHANGED <<job, ips, apps, domains, steady, cleanupDue>>
      BY DEF CheckSource, rules
    <2> CurrentKey' = CurrentKey
      BY DEF CurrentKey
    <2>1. HandOK'
      BY <1>2 DEF IInv, HandOK
    <2>2. PassedIPs'
      BY <1>2 DEF IInv, HandOK, RulesOK, PassedIPs
    <2>3. PassedClass'
      BY <1>2 DEF IInv, HandOK, PassedClass, ClassRuleEnforced
    <2> QED
      BY <1>2, <2>1, <2>2, <2>3 DEF IInv, RulesOK
  <1> QED
    BY <1>1, <1>2 DEF CheckSource

LEMMA CheckDestinationKeeps ==
  ASSUME IInv, CheckDestination
  PROVE  IInv'
  <1>1. CASE BlockAndDrop
    BY <1>1, BlockKeeps DEF CheckDestination
  <1>2. CASE /\ CurrentKey.dst_ip \notin ips
             /\ pc' = "inspect"
             /\ UNCHANGED <<connections_, verdict>>
    <2> /\ pc = "dst"
        /\ UNCHANGED <<job, ips, apps, domains, steady, cleanupDue>>
      BY DEF CheckDestination, rules
    <2> CurrentKey' = CurrentKey
      BY DEF CurrentKey
    <2>1. HandOK'
      BY <1>2 DEF IInv, HandOK
    <2>2. PassedIPs'
      BY <1>2 DEF IInv, HandOK, RulesOK, PassedIPs
    <2>3. PassedClass'
      BY <1>2 DEF IInv, HandOK, PassedClass, ClassRuleEnforced
    <2> QED
      BY <1>2, <2>1, <2>2, <2>3 DEF IInv, RulesOK
  <1> QED
    BY <1>1, <1>2 DEF CheckDestination

LEMMA CheckAppKeeps ==
  ASSUME IInv, CheckApp
  PROVE  IInv'
  <1>1. CASE BlockAndDrop
    BY <1>1, BlockKeeps DEF CheckApp
  <1>2. CASE /\ Current.app_type \notin apps
             /\ pc' = "domain"
             /\ UNCHANGED <<connections_, verdict>>
    <2> /\ pc = "app"
        /\ UNCHANGED <<job, ips, apps, domains, steady, cleanupDue>>
      BY DEF CheckApp, rules
    <2> CurrentKey' = CurrentKey /\ Current' = Current
      BY <1>2 DEF CurrentKey, Current
    <2>1. HandOK'
      BY <1>2 DEF IInv, HandOK
    <2>2. PassedIPs'
      BY <1>2 DEF IInv, HandOK, PassedIPs
    <2>3. PassedClass'
      BY <1>2 DEF IInv, HandOK, RulesOK, PassedClass, ClassRuleEnforced
    <2> QED
      BY <1>2, <2>1, <2>2, <2>3 DEF IInv, RulesOK
  <1> QED
    BY <1>1, <1>2 DEF CheckApp

LEMMA CheckDomainKeeps ==
  ASSUME IInv, CheckDomain
  PROVE  IInv'
  <1>1. CASE BlockAndDrop
    BY <1>1, BlockKeeps DEF CheckDomain
  <1>2. CASE /\ bestDomain(Current) \notin domains
             /\ handleAction("FORWARD")
             /\ UNCHANGED connections_
    <2> /\ pc = "domain" /\ pc' = "done" /\ verdict' = "FORWARD"
        /\ UNCHANGED <<job, ips, apps, domains, steady, cleanupDue>>
      BY <1>2 DEF CheckDomain, handleAction, rules
    <2>0. CurrentKey' = CurrentKey /\ Current' = Current
      BY <1>2 DEF CurrentKey, Current
    <2>1. HandOK'
      BY <1>2, <2>0 DEF IInv, HandOK
    <2>2. PassedIPs'
      BY <2>0 DEF IInv, PassedIPs
    <2>3. PassedClass'
      <3>1. bestDomain(Current') = bestDomain(Current)
        BY <2>0
      <3> QED
        BY <1>2, <2>0, <3>1 DEF IInv, RulesOK, PassedClass, ClassRuleEnforced
    <2> QED
      BY <1>2, <2>1, <2>2, <2>3 DEF IInv, RulesOK
  <1> QED
    BY <1>1, <1>2 DEF CheckDomain

LEMMA BadVariantAccessKeeps ==
  ASSUME IInv, BadVariantAccess
  PROVE  IInv'
  <1> /\ pc = "src" /\ pc' = "terminated"
      /\ UNCHANGED <<connections_, verdict, job, ips, apps, domains, steady,
                     cleanupDue>>
    BY DEF BadVariantAccess, rules
  <1>0. CurrentKey' = CurrentKey
    BY DEF CurrentKey
  <1>1. HandOK'
    BY <1>0 DEF IInv, HandOK
  <1>2. PassedIPs' /\ PassedClass'
    BY DEF IInv, HandOK, PassedIPs, PassedClass, ClassRuleEnforced
  <1> QED
    BY <1>1, <1>2 DEF IInv, RulesOK

\* What inspectPayload makes of a connection.
LEMMA InspectPayload ==
  ASSUME NEW c \in Connection, job \in Job
  PROVE  SameFiling(c, inspectPayload(c))
  <1>1. \/ inspectPayload(c) = c
        \/ /\ job.payload \notin {NoPayload, Opaque}
           /\ inspectPayload(c) = classifyConnection(c, job.payload.app,
                                     job.payload.sni, job.payload.host)
        \/ inspectPayload(c) = classifyConnection(c, "UNKNOWN", NoDomain, NoDomain)
    BY DEF inspectPayload
  <1>2. job.payload \notin {NoPayload, Opaque} => job.payload \in Found
    BY FastPathAssumption DEF Job
  <1>3. job.payload \in Found => /\ job.payload.app \in App
                                 /\ job.payload.sni \in Domain \cup {NoDomain}
                                 /\ job.payload.host \in Domain \cup {NoDomain}
    BY DEF Found
  <1>4. SameFiling(c, c)
    BY DEF SameFiling
  <1> QED
    BY <1>1, <1>2, <1>3, <1>4, ClassifyConnection, TrackerAssumption

LEMMA InspectKeeps ==
  ASSUME IInv, Inspect
  PROVE  IInv'
  <1> DEFINE conn == IF Current.state \in {"NEW", "ESTABLISHED"}
                     THEN inspectPayload(Current) ELSE Current
  <1>1. /\ pc = "inspect"
        /\ connections_' = Put(connections_, CurrentKey, conn)
        /\ \/ conn.state = "CLASSIFIED" /\ pc' = "app" /\ verdict' = verdict
           \/ conn.state # "CLASSIFIED" /\ pc' = "done" /\ verdict' = "FORWARD"
        /\ UNCHANGED <<job, ips, apps, domains, steady, cleanupDue>>
    BY DEF Inspect, handleAction, rules
  <1>2. ConnOK(CurrentKey, conn)
    <2>1. SameFiling(Current, conn)
      BY <1>1, CurrentOK, InspectPayload DEF SameFiling
    <2> QED
      BY <1>1, <2>1, CurrentOK, SameFilingOK
  <1> HIDE DEF conn
  <1>3. TableOK(connections_')
    BY <1>1, <1>2, CurrentOK, PutKeepsTable DEF IInv
  <1>4. /\ DOMAIN connections_' = DOMAIN connections_
        /\ connections_'[CurrentKey] = conn
    BY <1>1, CurrentOK, PutExisting
  <1>5. CurrentKey' = CurrentKey /\ Current' = conn
    BY <1>1, <1>4 DEF CurrentKey, Current
  <1>6. HandOK'
    BY <1>1, <1>4, <1>5 DEF IInv, HandOK
  <1>7. PassedIPs'
    BY <1>1, <1>5 DEF IInv, HandOK, PassedIPs
  <1>8. PassedClass'
    BY <1>1, <1>5 DEF IInv, HandOK, PassedClass, ClassRuleEnforced
  <1>9. RulesOK'
    BY <1>1 DEF IInv, RulesOK
  <1> QED
    BY <1>3, <1>6, <1>7, <1>8, <1>9 DEF IInv

\* A packet that arrives: what Track does to the table.  Only the connection
\* of the packet's flow changes, and only its flags take it out of BLOCKED.
LEMMA TrackTable ==
  ASSUME IInv, NEW key \in Tuples, NEW flags \in FlagSets, NEW payload \in Payload,
         Track(key, flags, payload)
  PROVE  /\ TableOK(connections_')
         /\ canonical(key) \in DOMAIN connections_'
         /\ \A j \in DOMAIN connections_' : j # canonical(key) =>
               j \in DOMAIN connections_ /\ connections_'[j] = connections_[j]
         /\ canonical(key) \in DOMAIN connections_ =>
               \/ connections_'[canonical(key)].state = connections_[canonical(key)].state
               \/ {"SYN", "ACK"} \subseteq flags /\ connections_[canonical(key)].syn_seen
               \/ "RST" \in flags
  <1> DEFINE k == canonical(key)
             conn(t) == updateConnection(t[k])
             after(t) == IF key.protocol = 6 THEN updateTCPState(conn(t), flags)
                                             ELSE conn(t)
  <1>1. PICK table \in getOrCreateConnection(key) :
           connections_' = Put(table, k, after(table))
    BY DEF Track
  <1>2. /\ TableOK(table)
        /\ k \in DOMAIN table
        /\ k \in DOMAIN connections_ => table = connections_
        /\ \A j \in DOMAIN table : j # k =>
              j \in DOMAIN connections_ /\ table[j] = connections_[j]
    BY GetOrCreate, FastPathAssumption DEF IInv
  <1>3. ConnOK(k, table[k]) /\ table[k] \in Connection
    BY <1>2 DEF TableOK, ConnOK
  <1>4. /\ SameFiling(table[k], conn(table))
        /\ conn(table).state = table[k].state
        /\ conn(table).syn_seen = table[k].syn_seen
    BY <1>3, UpdateConnection
  <1>5. conn(table) \in Connection
    BY <1>4 DEF SameFiling
  <1> HIDE DEF conn
  <1>6. /\ SameFiling(conn(table), after(table))
        /\ \/ after(table).state = conn(table).state
           \/ {"SYN", "ACK"} \subseteq flags /\ conn(table).syn_seen
           \/ "RST" \in flags
    BY <1>5, UpdateTCPState DEF SameFiling
  <1> HIDE DEF after, k
  <1>7. ConnOK(k, after(table))
    BY <1>3, <1>4, <1>6, SameFilingOK
  <1>8. TableOK(connections_')
    BY <1>1, <1>2, <1>7, PutKeepsTable
  <1>9. /\ DOMAIN connections_' = DOMAIN table
        /\ connections_'[k] = after(table)
        /\ \A j \in DOMAIN table : j # k => connections_'[j] = table[j]
    BY <1>1, <1>2, PutExisting
  <1>10. \A j \in DOMAIN connections_' : j # k =>
            j \in DOMAIN connections_ /\ connections_'[j] = connections_[j]
    BY <1>2, <1>9
  <1>11. k \in DOMAIN connections_ =>
            \/ connections_'[k].state = connections_[k].state
            \/ {"SYN", "ACK"} \subseteq flags /\ connections_[k].syn_seen
            \/ "RST" \in flags
    BY <1>2, <1>4, <1>6, <1>9
  <1> QED
    BY <1>2, <1>8, <1>9, <1>10, <1>11 DEF k

LEMMA TrackKeeps ==
  ASSUME IInv, NEW key \in Tuples, NEW flags \in FlagSets, NEW payload \in Payload,
         Track(key, flags, payload)
  PROVE  IInv'
  <1>1. /\ pc = "idle"
        /\ job' = [key |-> key, flags |-> flags, payload |-> payload]
        /\ steady' = [ips |-> ips, apps |-> apps, domains |-> domains]
        /\ \/ pc' = "done" /\ verdict' = "DROP"
           \/ pc' = "src" /\ verdict' = verdict
        /\ UNCHANGED <<ips, apps, domains, cleanupDue>>
    BY DEF Track, handleAction, rules
  <1>2. verdict = "NONE"
    BY <1>1 DEF IInv, HandOK
  <1>3. CurrentKey' = canonical(key)
    BY <1>1 DEF CurrentKey
  <1>4. HandOK'
    BY <1>1, <1>2, <1>3, TrackTable DEF HandOK, Job
  <1>5. RulesOK'
    BY <1>1 DEF IInv, RulesOK, RuleSet
  <1>6. PassedIPs' /\ PassedClass'
    BY <1>1, <1>2 DEF PassedIPs, PassedClass, ClassRuleEnforced
  <1> QED
    BY <1>4, <1>5, <1>6, TrackTable DEF IInv

\* The cleanup, and a packet that is done with.
LEMMA EndOfLoopTable ==
  ASSUME IInv, EndOfLoop
  PROVE  /\ TableOK(connections_')
         /\ \A k \in DOMAIN connections_' :
               k \in DOMAIN connections_ /\ connections_'[k] = connections_[k]
  <1>1. CASE connections_' = connections_
    BY <1>1 DEF IInv
  <1>2. CASE connections_' = cleanupStale
    <2> DEFINE old == {k \in DOMAIN connections_ : stale(k, connections_[k])}
    <2>1. connections_' = Without(connections_, old)
      BY <1>2 DEF cleanupStale
    <2> HIDE DEF old
    <2>2. TableOK(connections_)
      BY DEF IInv
    <2>3. /\ TableOK(Without(connections_, old))
          /\ DOMAIN Without(connections_, old) = DOMAIN connections_ \ old
          /\ \A k \in DOMAIN connections_ \ old :
                Without(connections_, old)[k] = connections_[k]
      BY <2>2, WithoutKeepsTable
    <2> QED
      BY <2>1, <2>3
  <1> QED
    BY <1>1, <1>2 DEF EndOfLoop

LEMMA EndOfLoopKeeps ==
  ASSUME IInv, EndOfLoop
  PROVE  IInv'
  <1>1. /\ pc' = "idle" /\ job' = NoJob /\ verdict' = "NONE" /\ steady' = NoRules
        /\ cleanupDue' = FALSE
        /\ UNCHANGED <<ips, apps, domains>>
    BY DEF EndOfLoop, rules
  <1>2. HandOK'
    BY <1>1 DEF HandOK
  <1>3. RulesOK'
    BY <1>1 DEF IInv, RulesOK, RuleSet, NoRules
  <1>4. PassedIPs' /\ PassedClass'
    BY <1>1 DEF PassedIPs, PassedClass, ClassRuleEnforced
  <1> QED
    BY <1>2, <1>3, <1>4, EndOfLoopTable DEF IInv

\* Time passes: connections grow older and do not change otherwise.
LEMMA AgedTable ==
  ASSUME IInv, connections_' = Aged
  PROVE  /\ TableOK(connections_')
         /\ DOMAIN connections_' = DOMAIN connections_
         /\ \A k \in DOMAIN connections_ :
               /\ connections_'[k].state = connections_[k].state
               /\ connections_'[k].app_type = connections_[k].app_type
               /\ connections_'[k].sni = connections_[k].sni
               /\ connections_'[k].host = connections_[k].host
  <1> DEFINE older(c) == IF c.age < MaxAge THEN c.age + 1 ELSE c.age
  <1>1. /\ DOMAIN connections_' = DOMAIN connections_
        /\ \A k \in DOMAIN connections_ :
              connections_'[k] = [connections_[k] EXCEPT !.age = older(connections_[k])]
    BY DEF Aged
  <1>2. \A c \in Connection : older(c) \in 0..MaxAge
    BY TrackerAssumption DEF MaxAge, Connection
  <1> HIDE DEF older
  <1>3. ASSUME NEW k \in DOMAIN connections_
        PROVE  /\ SameFiling(connections_[k], connections_'[k])
               /\ ConnOK(k, connections_[k])
               /\ connections_'[k].state = connections_[k].state
               /\ connections_'[k].app_type = connections_[k].app_type
               /\ connections_'[k].sni = connections_[k].sni
               /\ connections_'[k].host = connections_[k].host
    <2>1. connections_[k] \in Connection /\ ConnOK(k, connections_[k])
      BY DEF IInv, TableOK, ConnOK
    <2>2. older(connections_[k]) \in 0..MaxAge
      BY <2>1, <1>2
    <2> QED
      BY <1>1, <2>1, <2>2 DEF Connection, SameFiling
  <1>4. \A k \in DOMAIN connections_ : ConnOK(k, connections_'[k])
    BY <1>3, SameFilingOK
  <1>5. TableOK(connections_')
    BY <1>1, <1>4 DEF IInv, TableOK
  <1> QED
    BY <1>1, <1>3, <1>5

LEMMA TickKeeps ==
  ASSUME IInv, Tick
  PROVE  IInv'
  <1>1. /\ connections_' = Aged /\ cleanupDue' = TRUE
        /\ UNCHANGED <<pc, job, verdict, ips, apps, domains, steady>>
    BY DEF Tick, rules
  <1>2. CurrentKey' = CurrentKey
    BY <1>1 DEF CurrentKey
  <1>3. HandOK'
    BY <1>1, <1>2, AgedTable DEF IInv, HandOK
  <1>4. RulesOK'
    BY <1>1 DEF IInv, RulesOK
  <1>5. PassedIPs'
    BY <1>1, <1>2 DEF IInv, PassedIPs
  <1>6. PassedClass'
    <2>1. CASE pc = "idle"
      BY <1>1, <2>1 DEF IInv, HandOK, PassedClass, ClassRuleEnforced
    <2>2. CASE pc # "idle"
      <3>1. /\ Current'.state = Current.state
            /\ Current'.app_type = Current.app_type
            /\ bestDomain(Current') = bestDomain(Current)
        BY <1>1, <1>2, <2>2, CurrentOK, AgedTable DEF Current, bestDomain
      <3> QED
        BY <1>1, <3>1 DEF IInv, PassedClass, ClassRuleEnforced
    <2> QED
      BY <2>1, <2>2
  <1> QED
    BY <1>1, <1>3, <1>4, <1>5, <1>6, AgedTable DEF IInv

\* A rule that comes is not steady; one that goes is not any more.
LEMMA RuleChangeKeeps ==
  ASSUME IInv, RuleChange
  PROVE  IInv'
  <1>1. UNCHANGED <<connections_, pc, job, verdict, cleanupDue>>
    BY DEF RuleChange, BlockIP, UnblockIP, BlockApp, UnblockApp, BlockDomain,
           UnblockDomain
  <1>2. /\ RulesOK'
        /\ steady'.ips \subseteq steady.ips
        /\ steady'.apps \subseteq steady.apps
        /\ steady'.domains \subseteq steady.domains
    <2> USE DEF IInv, RulesOK, RuleSet
    <2>1. ASSUME NEW ip \in RuleIPs, BlockIP(ip) \/ UnblockIP(ip) PROVE <1>2!:
      BY <1>1, <2>1 DEF BlockIP, UnblockIP
    <2>2. ASSUME NEW app \in RuleApps, BlockApp(app) \/ UnblockApp(app) PROVE <1>2!:
      BY <1>1, <2>2 DEF BlockApp, UnblockApp
    <2>3. ASSUME NEW d \in RuleDomains, BlockDomain(d) \/ UnblockDomain(d) PROVE <1>2!:
      BY <1>1, <2>3 DEF BlockDomain, UnblockDomain
    <2> QED
      BY <2>1, <2>2, <2>3 DEF RuleChange
  <1>3. CurrentKey' = CurrentKey /\ Current' = Current
    BY <1>1 DEF CurrentKey, Current
  <1>4. HandOK'
    BY <1>1, <1>3 DEF IInv, HandOK
  <1>5. PassedIPs'
    BY <1>1, <1>2, <1>3 DEF IInv, PassedIPs
  <1>6. PassedClass'
    <2>1. bestDomain(Current') = bestDomain(Current)
      BY <1>3
    <2> QED
      BY <1>1, <1>2, <1>3, <2>1 DEF IInv, PassedClass, ClassRuleEnforced
  <1> QED
    BY <1>1, <1>2, <1>4, <1>5, <1>6 DEF IInv

LEMMA InvariantKept ==
  ASSUME IInv, [Next]_vars
  PROVE  IInv'
  <1>1. CASE Receive
    BY <1>1, TrackKeeps DEF Receive
  <1>2. CASE Check
    BY <1>2, CheckSourceKeeps, BadVariantAccessKeeps, CheckDestinationKeeps,
       InspectKeeps, CheckAppKeeps, CheckDomainKeeps DEF Check
  <1>3. CASE UNCHANGED vars
    BY <1>3 DEF vars, rules, IInv, HandOK, RulesOK, PassedIPs, PassedClass,
                ClassRuleEnforced, CurrentKey, Current
  <1> QED
    BY <1>1, <1>2, <1>3, EndOfLoopKeeps, TickKeeps, RuleChangeKeeps
       DEF Next, Terminated

LEMMA InitOK ==
  ASSUME Init
  PROVE  IInv
  <1>1. DOMAIN connections_ = {}
    BY DEF Init
  <1>2. TableOK(connections_)
    BY <1>1, FS_EmptySet, TrackerAssumption DEF TableOK
  <1> QED
    BY <1>2 DEF Init, IInv, HandOK, RulesOK, RuleSet, NoRules, PassedIPs,
                PassedClass, ClassRuleEnforced

LEMMA Invariance == Spec => []IInv
  BY InitOK, InvariantKept, PTL DEF Spec

-----------------------------------------------------------------------------
(* Theorems                                                                  *)

\* The variables of the fast path keep their types: no operation of the flow
\* table, in any order, leaves a connection with a field out of range.
THEOREM FastPathTypeCorrect ==
  Spec => []TypeOK
  <1>1. IInv => TypeOK
    BY DEF IInv, TableOK, ConnOK, HandOK, RulesOK, TypeOK, TrackerTypeOK
  <1> QED
    BY <1>1, Invariance, PTL

\* The flow table never holds more than max_connections_ connections.
THEOREM TableStaysBounded ==
  Spec => []TableBounded
  <1>1. IInv => TableBounded
    BY DEF IInv, TableOK, TableBounded
  <1> QED
    BY <1>1, Invariance, PTL

\* No packet is forwarded past an IP rule that was in force from its arrival to
\* its verdict, whatever rules come and go meanwhile.
THEOREM IPRulesAreEnforced ==
  Spec => []IPRuleEnforced
  <1>1. IInv => IPRuleEnforced
    BY DEF IInv, PassedIPs, IPRuleEnforced
  <1> QED
    BY <1>1, Invariance, PTL

\* No packet of a classified flow is forwarded past a rule about its application
\* or its name that was in force from its arrival to its verdict.
THEOREM ClassRulesAreEnforced ==
  Spec => []ClassRuleEnforced
  <1>1. IInv => ClassRuleEnforced
    BY DEF IInv, PassedClass
  <1> QED
    BY <1>1, Invariance, PTL

\* is_client of processPacket is true exactly of the packets from the end that
\* opened the flow.
THEOREM ClientIsTheOpener ==
  Spec => []ClientIsOpener
  <1>1. ASSUME IInv
        PROVE  ClientIsOpener
    <2> SUFFICES ASSUME job # NoJob, reverse(job.key) # job.key
                 PROVE  isClient(Current, job.key) <=> job.key = Current.opener
      BY DEF ClientIsOpener
    <2>1. pc # "idle"
      BY <1>1 DEF IInv, HandOK
    <2>2. job.key \in FiveTuple
      BY <1>1, <2>1, CurrentOK, FastPathAssumption DEF Job
    <2> DEFINE k == CurrentKey
    <2>3. /\ canonical(Current.opener) = k /\ canonical(job.key) = k
          /\ Current.original_is_canonical = (Current.opener = k)
          /\ Current.opener \in FiveTuple
      BY <1>1, <2>1, CurrentOK DEF ConnOK, Connection, CurrentKey
    <2>4. \/ job.key = Current.opener
          \/ job.key = reverse(Current.opener)
      BY <2>2, <2>3, SameCanonical
    <2>5. k \in {job.key, reverse(job.key)} /\ k \in {Current.opener, reverse(Current.opener)}
      BY <2>2, <2>3, CanonicalForm
    <2>6. isClient(Current, job.key) <=> ((Current.opener = k) <=> (job.key = k))
      BY <2>3 DEF isClient
    <2> HIDE DEF k
    <2>7. CASE job.key = Current.opener
      BY <2>6, <2>7
    <2>8. CASE job.key # Current.opener /\ job.key = reverse(Current.opener)
      BY <2>3, <2>5, <2>6, <2>8, ReverseTwice
    <2> QED
      BY <2>4, <2>7, <2>8
  <1> QED
    BY <1>1, Invariance, PTL

\* Once blocked, a connection is let go only by a SYN and ACK after a SYN, by an
\* RST, or by leaving the table.
THEOREM BlockedStaysBlocked ==
  Spec => BlockedIsKept
  <1> DEFINE Kept ==
        \A k \in DOMAIN connections_ \cap DOMAIN connections_' :
          connections_[k].state = "BLOCKED" /\ connections_'[k].state # "BLOCKED"
          => /\ job' # NoJob /\ canonical(job'.key) = k
             /\ \/ {"SYN", "ACK"} \subseteq job'.flags /\ connections_[k].syn_seen
                \/ "RST" \in job'.flags
  <1>1. ASSUME IInv, [Next]_vars
        PROVE  [Kept]_vars
    <2>1. ASSUME NEW key \in Tuples, NEW flags \in FlagSets, NEW payload \in Payload,
                 Track(key, flags, payload)
          PROVE  Kept
      <3>1. job' = [key |-> key, flags |-> flags, payload |-> payload]
        BY <2>1 DEF Track
      <3>2. job' # NoJob /\ job'.key = key /\ job'.flags = flags
        <4>1. DOMAIN job' # DOMAIN NoJob
          BY <3>1 DEF NoJob
        <4> QED
          BY <3>1, <4>1
      <3> QED
        BY <1>1, <2>1, <3>2, TrackTable
    <2>2. CASE BlockAndDrop /\ pc # "idle"
      <3>1. connections_' = Put(connections_, CurrentKey, blockConnection(Current))
        BY <2>2 DEF BlockAndDrop
      <3>2. blockConnection(Current).state = "BLOCKED"
        BY <1>1, <2>2, CurrentOK, BlockConnection
      <3> QED
        BY <1>1, <2>2, <3>1, <3>2, CurrentOK, PutExisting
    <2>3. CASE Inspect
      <3> DEFINE conn == IF Current.state \in {"NEW", "ESTABLISHED"}
                         THEN inspectPayload(Current) ELSE Current
      <3>1. pc # "idle" /\ connections_' = Put(connections_, CurrentKey, conn)
        BY <2>3 DEF Inspect
      <3>2. Current.state = "BLOCKED" => conn.state = "BLOCKED"
        OBVIOUS
      <3> HIDE DEF conn
      <3> QED
        BY <1>1, <3>1, <3>2, CurrentOK, PutExisting DEF Current
    <2>4. CASE EndOfLoop
      BY <1>1, <2>4, EndOfLoopTable
    <2>5. CASE Tick
      BY <1>1, <2>5, AgedTable DEF Tick
    <2>6. CASE connections_' = connections_
      BY <2>6
    <2>7. RuleChange \/ BadVariantAccess \/ Terminated \/ UNCHANGED vars
             => connections_' = connections_
      BY DEF RuleChange, BlockIP, UnblockIP, BlockApp, UnblockApp, BlockDomain,
             UnblockDomain, BadVariantAccess, Terminated, vars
    <2>8. CheckSource \/ CheckDestination \/ CheckApp \/ CheckDomain
             => (BlockAndDrop /\ pc # "idle") \/ connections_' = connections_
      BY DEF CheckSource, CheckDestination, CheckApp, CheckDomain
    <2> HIDE DEF Kept
    <2> QED
      BY <1>1, <2>1, <2>2, <2>3, <2>4, <2>5, <2>6, <2>7, <2>8
         DEF Next, Receive, Check
  <1> QED
    BY <1>1, Invariance, PTL DEF Spec, BlockedIsKept
=============================================================================
