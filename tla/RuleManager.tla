----------------------------- MODULE RuleManager -----------------------------
(***************************************************************************)
(* RuleManager (src/rule_manager.cpp): the four kinds of rules, each under  *)
(* a lock of its own.  saveRules, loadRules and clearAll take the locks one *)
(* after the other, and another thread's updates come in between: an action *)
(* is one critical section.  One of the three is in progress at a time.     *)
(*                                                                          *)
(* A file is its sequence of rule lines, each with the section it is in.    *)
(* Decimal numerals stand for themselves; addresses, application names and  *)
(* domain names are converted as the code does.                             *)
(***************************************************************************)
EXTENDS DomainRules, FiniteSetsExt

CONSTANTS Base,         \* 256: values of an octet
          IPTexts,      \* the addresses given to blockIP, as their octets
          AppName,      \* appTypeToString, in the order of AppType
          AppTexts,     \* the names given to blockApp
          DomainTexts,  \* the names and patterns given to blockDomain
          Ports,        \* the ports given to blockPort
          Names,        \* the names given to isDomainBlocked
          MaxCalls      \* bound: calls that change or save rules

Octet == 0..(Base - 1)

\* The value of a byte of an address, from the lowest to the highest.
Weight == <<1, Base, Base * Base, Base * Base * Base>>

Address == 0..(Base * Weight[4] - 1)

App == DOMAIN AppName

\* Ends a line of a file, and begins a section's header.
LineFeed == "\n"
Bracket == "["

\* No two applications have one name.  Texts that are no names at all ("", "a..",
\* two lines) are left out.
ASSUME RuleAssumption ==
    /\ Base \in Nat \ {0}
    /\ IPTexts \subseteq [1..4 -> Octet]
    /\ AppName \in Seq(STRING)
    /\ \A a, b \in App : AppName[a] = AppName[b] => a = b
    /\ AppTexts \subseteq STRING
    /\ LineFeed \notin Char
    /\ \A t \in DomainTexts : /\ t \in Seq(Char)
                              /\ normalize(t) = normalize(normalize(t))
                              /\ normalize(t) # <<>>
    /\ Ports \subseteq Nat
    /\ Names \subseteq Seq(Char)
    /\ MaxCalls \in Nat

VARIABLES blocked_ips_, blocked_apps_,
          blocked_domains_, domain_patterns_,
          blocked_ports_,
          file,    \* the rules file
          pc,      \* where saveRules, loadRules or clearAll is
          line,    \* the line loadRules reads next
          calls,   \* calls made so far
          start,   \* history: the rules in force when it was called
          added,   \* history: rules another thread has blocked since
          removed  \* history: rules another thread has unblocked since

sets == <<blocked_ips_, blocked_apps_, blocked_domains_, domain_patterns_,
          blocked_ports_>>
history == <<start, added, removed>>
vars == <<sets, file, pc, line, calls, history>>

Rule == ({"ip"} \X Address) \cup ({"app"} \X App)
        \cup ({"domain"} \X Seq(Char)) \cup ({"port"} \X Ports)

Line == [kind : {"ip"}, text : [1..4 -> Octet]]
        \cup [kind : {"app"}, text : Range(AppName)]
        \cup [kind : {"domain"}, text : Seq(Char)]
        \cup [kind : {"port"}, text : Ports]

TypeOK == /\ blocked_ips_ \subseteq Address
          /\ blocked_apps_ \subseteq App
          /\ blocked_domains_ \subseteq Seq(Char)
          /\ domain_patterns_ \in Seq(Seq(Char))
          /\ blocked_ports_ \subseteq Ports
          /\ file \in Seq(Line)
          /\ pc \in {"idle", "load", "saveApps", "saveDomains", "savePorts",
                     "clearApps", "clearDomains", "clearPorts"}
          /\ line \in 1..(Len(file) + 1)
          /\ calls \in 0..MaxCalls
          /\ \A s \in {start, added, removed} : \A r \in s : r \in Rule

Init == /\ blocked_ips_ = {} /\ blocked_apps_ = {} /\ blocked_ports_ = {}
        /\ blocked_domains_ = {} /\ domain_patterns_ = <<>>
        /\ file = <<>>
        /\ pc = "idle" /\ line = 1 /\ calls = 0
        /\ start = {} /\ added = {} /\ removed = {}

\* The rules in force.
InForce == ({"ip"} \X blocked_ips_) \cup ({"app"} \X blocked_apps_)
           \cup ({"domain"} \X (blocked_domains_ \cup Range(domain_patterns_)))
           \cup ({"port"} \X blocked_ports_)

isDomainBlocked(name) ==
    matches(name, blocked_domains_, Range(domain_patterns_))

-----------------------------------------------------------------------------
(* Conversions                                                               *)

\* parseIPv4Address: the first octet is the lowest byte.
parseIP(text) == (text[1] * Weight[1]) + (text[2] * Weight[2])
                 + (text[3] * Weight[3]) + (text[4] * Weight[4])

\* Variant: a byte is not masked.
ipToStringUnmasked(ip) == [i \in 1..4 |-> ip \div Weight[i]]

ipToString(ip) == [i \in 1..4 |-> (ip \div Weight[i]) % Base]

\* The search for the AppType of a name: the first one, or none.
appOfName(name) == LET found == {i \in App : AppName[i] = name}
                   IN  IF found = {} THEN {} ELSE {Min(found)}

-----------------------------------------------------------------------------
(* What the updates do to the rules                                          *)

addIP(ip) == /\ blocked_ips_' = blocked_ips_ \cup {ip}
             /\ UNCHANGED <<blocked_apps_, blocked_domains_, domain_patterns_,
                            blocked_ports_>>

addApps(apps) == /\ blocked_apps_' = blocked_apps_ \cup apps
                 /\ UNCHANGED <<blocked_ips_, blocked_domains_, domain_patterns_,
                                blocked_ports_>>

\* blockDomain of a normalised name.
addDomain(rule) ==
    /\ IF isWildcard(rule)
       THEN /\ domain_patterns_' = Append(domain_patterns_, rule)
            /\ UNCHANGED blocked_domains_
       ELSE /\ blocked_domains_' = blocked_domains_ \cup {rule}
            /\ UNCHANGED domain_patterns_
    /\ UNCHANGED <<blocked_ips_, blocked_apps_, blocked_ports_>>

addPort(port) == /\ blocked_ports_' = blocked_ports_ \cup {port}
                 /\ UNCHANGED <<blocked_ips_, blocked_apps_, blocked_domains_,
                                domain_patterns_>>

-----------------------------------------------------------------------------
(* The calls of another thread                                               *)

\* History: rules come and go while a save, load or clear is in progress.
Adds(rules) == /\ added' = IF pc = "idle" THEN {} ELSE added \cup rules
               /\ UNCHANGED <<start, removed>>

Removes(rules) == /\ removed' = IF pc = "idle" THEN {} ELSE removed \cup rules
                  /\ UNCHANGED <<start, added>>

Call == /\ calls < MaxCalls
        /\ calls' = calls + 1

Update == Call /\ UNCHANGED <<file, pc, line>>

blockIP(text) == /\ Update
                 /\ addIP(parseIP(text))
                 /\ Adds({<<"ip", parseIP(text)>>})

unblockIP(text) ==
    /\ Update
    /\ blocked_ips_' = blocked_ips_ \ {parseIP(text)}
    /\ Removes({<<"ip", parseIP(text)>>})
    /\ UNCHANGED <<blocked_apps_, blocked_domains_, domain_patterns_,
                   blocked_ports_>>

\* DPIEngine::blockApp: an unknown name changes nothing.
blockApp(name) == /\ Update
                  /\ addApps(appOfName(name))
                  /\ Adds({"app"} \X appOfName(name))

unblockApp(name) ==
    /\ Update
    /\ blocked_apps_' = blocked_apps_ \ appOfName(name)
    /\ Removes({"app"} \X appOfName(name))
    /\ UNCHANGED <<blocked_ips_, blocked_domains_, domain_patterns_,
                   blocked_ports_>>

blockDomain(text) == /\ Update
                     /\ addDomain(normalize(text))
                     /\ Adds({<<"domain", normalize(text)>>})

\* One occurrence of a pattern goes; a pattern blocked twice stays.
unblockDomain(text) ==
    LET rule == normalize(text)
    IN  /\ Update
        /\ IF isWildcard(rule)
           THEN /\ domain_patterns_' = RemoveFirst(domain_patterns_, rule)
                /\ UNCHANGED blocked_domains_
           ELSE /\ blocked_domains_' = blocked_domains_ \ {rule}
                /\ UNCHANGED domain_patterns_
        /\ Removes({<<"domain", rule>>})
        /\ UNCHANGED <<blocked_ips_, blocked_apps_, blocked_ports_>>

blockPort(port) == /\ Update
                   /\ addPort(port)
                   /\ Adds({<<"port", port>>})

unblockPort(port) ==
    /\ Update
    /\ blocked_ports_' = blocked_ports_ \ {port}
    /\ Removes({<<"port", port>>})
    /\ UNCHANGED <<blocked_ips_, blocked_apps_, blocked_domains_,
                   domain_patterns_>>

-----------------------------------------------------------------------------
(* saveRules, loadRules, clearAll                                            *)

\* One of the three is called; none is in progress.
Begin == /\ pc = "idle"
         /\ Call
         /\ start' = InForce /\ added' = {} /\ removed' = {}

\* It goes on, or returns.
Continue(from, to) ==
    /\ pc = from
    /\ pc' = to
    /\ IF to = "idle" THEN start' = {} /\ added' = {} /\ removed' = {}
                      ELSE UNCHANGED history
    /\ UNCHANGED calls

\* The lines of a section, in any order of the unordered set.
LinesOf(kind, texts) == {[i \in DOMAIN s |-> [kind |-> kind, text |-> s[i]]] :
                            s \in texts}

\* The file is truncated and the first section written.
saveIPs == /\ Begin
           /\ pc' = "saveApps"
           /\ file' \in LinesOf("ip", SetToSeqs({ipToString(ip) : ip \in blocked_ips_}))
           /\ line' = 1
           /\ UNCHANGED sets

saveApps == /\ Continue("saveApps", "saveDomains")
            /\ \E lines \in LinesOf("app", SetToSeqs({AppName[a] : a \in blocked_apps_})) :
                  file' = file \o lines
            /\ UNCHANGED <<sets, line>>

\* Variant: the patterns are forgotten.
getBlockedDomainsExact == SetToSeqs(blocked_domains_)

getBlockedDomains == {s \o domain_patterns_ : s \in SetToSeqs(blocked_domains_)}

saveDomains == /\ Continue("saveDomains", "savePorts")
               /\ \E lines \in LinesOf("domain", getBlockedDomains) :
                     file' = file \o lines
               /\ UNCHANGED <<sets, line>>

savePorts == /\ Continue("savePorts", "idle")
             /\ \E lines \in LinesOf("port", SetToSeqs(blocked_ports_)) :
                   file' = file \o lines
             /\ UNCHANGED <<sets, line>>

loadBegin == /\ Begin
             /\ pc' = "load"
             /\ line' = 1
             /\ UNCHANGED <<sets, file>>

\* Variant: the section of the ports is not known.
addLineNoPorts(l) ==
    CASE l.kind = "ip" -> addIP(parseIP(l.text))
      [] l.kind = "app" -> addApps(appOfName(l.text))
      [] l.kind = "domain" -> addDomain(normalize(l.text))
      [] l.kind = "port" -> UNCHANGED sets

\* A line goes to the block function of its section.
addLine(l) ==
    CASE l.kind = "ip" -> addIP(parseIP(l.text))
      [] l.kind = "app" -> addApps(appOfName(l.text))
      [] l.kind = "domain" -> addDomain(normalize(l.text))
      [] l.kind = "port" -> addPort(l.text)

\* loadRules tests the first character of a line before it looks at its section.
\* The texts of the other kinds have no such character in front.
IsHeader(text) == text # <<>> /\ text[1] = Bracket

\* A domain that is taken for a header, or comes behind one that is: no section is
\* called like it.  The next section's header is behind the domains.
Swallowed(i) ==
    /\ file[i].kind = "domain"
    /\ \E j \in 1..i : file[j].kind = "domain" /\ IsHeader(file[j].text)

loadLine == /\ pc = "load"
            /\ line <= Len(file)
            /\ IF Swallowed(line) THEN UNCHANGED sets ELSE addLine(file[line])
            /\ line' = line + 1
            /\ UNCHANGED <<file, pc, calls, history>>

loadEnd == /\ line > Len(file)
           /\ Continue("load", "idle")
           /\ line' = 1
           /\ UNCHANGED <<sets, file>>

clearIPs == /\ Begin
            /\ pc' = "clearApps"
            /\ blocked_ips_' = {}
            /\ UNCHANGED <<blocked_apps_, blocked_domains_, domain_patterns_,
                           blocked_ports_, file, line>>

clearApps == /\ Continue("clearApps", "clearDomains")
             /\ blocked_apps_' = {}
             /\ UNCHANGED <<blocked_ips_, blocked_domains_, domain_patterns_,
                            blocked_ports_, file, line>>

\* Variant: the patterns stay.
clearDomainsExact ==
    /\ Continue("clearDomains", "clearPorts")
    /\ blocked_domains_' = {}
    /\ UNCHANGED <<blocked_ips_, blocked_apps_, domain_patterns_,
                   blocked_ports_, file, line>>

clearDomains == /\ Continue("clearDomains", "clearPorts")
                /\ blocked_domains_' = {} /\ domain_patterns_' = <<>>
                /\ UNCHANGED <<blocked_ips_, blocked_apps_, blocked_ports_,
                               file, line>>

clearPorts == /\ Continue("clearPorts", "idle")
              /\ blocked_ports_' = {}
              /\ UNCHANGED <<blocked_ips_, blocked_apps_, blocked_domains_,
                             domain_patterns_, file, line>>

-----------------------------------------------------------------------------

RuleUpdate == \/ \E text \in IPTexts : blockIP(text) \/ unblockIP(text)
              \/ \E name \in AppTexts : blockApp(name) \/ unblockApp(name)
              \/ \E text \in DomainTexts : blockDomain(text) \/ unblockDomain(text)
              \/ \E port \in Ports : blockPort(port) \/ unblockPort(port)

Save == saveIPs \/ saveApps \/ saveDomains \/ savePorts
Load == loadBegin \/ loadLine \/ loadEnd
Clear == clearIPs \/ clearApps \/ clearDomains \/ clearPorts

\* The bound is reached.
Finished == calls = MaxCalls /\ pc = "idle" /\ UNCHANGED vars

Next == RuleUpdate \/ Save \/ Load \/ Clear \/ Finished

Spec == Init /\ [][Next]_vars

-----------------------------------------------------------------------------
(* Properties                                                                *)

\* The well-formed names with their labels.
LabelledNames == {n \in {<<name, LabelsOfName(name)>> : name \in Names} :
                    WellFormed(n[2])}

\* A name is blocked exactly when a rule's labels are its last labels,
\* whatever the case and with or without the final dot: never because of the
\* characters before a label's end ("notevil.com"), and never missed.
MatchesByLabels ==
    LET rules == {Labels(lowered(rule)) :
                    rule \in blocked_domains_ \cup Range(domain_patterns_)}
    IN  \A n \in LabelledNames :
           isDomainBlocked(n[1]) <=> \E rule \in rules : Covers(rule, n[2])

\* The rule a line of the file stands for.
Loaded(l) == CASE l.kind = "ip" -> <<"ip", parseIP(l.text)>>
               [] l.kind = "app" -> <<"app", CHOOSE a \in appOfName(l.text) : TRUE>>
               [] l.kind = "domain" -> <<"domain", l.text>>
               [] l.kind = "port" -> <<"port", l.text>>

\* The rules that the file holds for loadRules.
FileRules == {Loaded(file[i]) : i \in {i \in DOMAIN file : ~Swallowed(i)}}

\* Domain rules that begin with a bracket, as an IPv6 address in a URL does.
Bracketed(rules) == {r \in rules : r[1] = "domain" /\ IsHeader(r[2])}

\* saveRules is no snapshot, but what it writes, read back, has every rule that
\* was in force all the time and no rule that never was.  Only domains get lost,
\* and only when one of them begins with a bracket.
SaveIsFaithful ==
    [][pc = "savePorts" /\ pc' = "idle" =>
          /\ \A r \in start \ removed :
                \/ r \in FileRules'
                \/ r[1] = "domain" /\ Bracketed(start \cup added) # {}
          /\ FileRules' \subseteq start \cup added]_vars

\* When loadRules returns, the rules that the file holds for it and those from
\* before are in force, but for what another thread has unblocked meanwhile, and
\* no others.
LoadRestores ==
    [][pc = "load" /\ pc' = "idle" =>
          /\ (start \cup FileRules) \ removed \subseteq InForce'
          /\ InForce' \subseteq start \cup added \cup FileRules]_vars

\* When clearAll returns, only rules that another thread has blocked meanwhile
\* are in force.
ClearForgets ==
    [][pc = "clearPorts" /\ pc' = "idle" => InForce' \subseteq added]_vars
=============================================================================
