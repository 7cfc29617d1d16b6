-------------------------- MODULE RuleManagerProofs --------------------------
(***************************************************************************)
(* What saveRules, loadRules and clearAll do to the rules, for any rules    *)
(* and whatever another thread blocks and unblocks between two of their     *)
(* critical sections, and that the tests of isDomainBlocked on the text of  *)
(* a name amount to a comparison of labels.                                 *)
(***************************************************************************)
EXTENDS RuleManager, DomainRulesProofs

-----------------------------------------------------------------------------
(* Addresses and their octets                                                *)

\* Quotient and remainder are what they were made of.
LEMMA DivMod ==
  ASSUME NEW b \in Nat \ {0}, NEW q \in Nat, NEW a \in 0..(b - 1)
  PROVE  (a + b * q) \div b = q /\ (a + b * q) % b = a
  <1> DEFINE x == a + b * q
             d == x \div b
             m == x % b
  <1>1. b * q \in Nat /\ x \in Nat
    OBVIOUS
  <1>2. d \in Int /\ m \in 0..(b - 1) /\ x = b * d + m
    BY <1>1
  <1> HIDE DEF d, m
  <1>3. b * (q - d) = m - a
    BY <1>2
  <1>4. ~(q - d >= 1)
    <2> SUFFICES ASSUME q - d >= 1 PROVE FALSE
      OBVIOUS
    <2>1. b * (q - d) >= b
      BY <1>2
    <2> QED
      BY <2>1, <1>2, <1>3
  <1>5. ~(q - d <= -1)
    <2> SUFFICES ASSUME q - d <= -1 PROVE FALSE
      OBVIOUS
    <2>1. b * (q - d) <= -b
      BY <1>2
    <2> QED
      BY <2>1, <1>2, <1>3
  <1>6. q = d
    BY <1>2, <1>4, <1>5
  <1>7. m = a
    BY <1>2, <1>6
  <1> QED
    BY <1>6, <1>7 DEF d, m

\* One more digit.
LEMMA DigitBound ==
  ASSUME NEW b \in Nat \ {0}, NEW n \in Nat \ {0}, NEW a \in 0..(b - 1), NEW y \in 0..(n - 1)
  PROVE  a + b * y \in 0..(b * n - 1)
  <1>1. b * y \in Nat /\ b * n \in Nat
    OBVIOUS
  <1>2. b * (n - 1 - y) >= 0
    OBVIOUS
  <1>3. b * n - b * y >= b
    BY <1>2
  <1> QED
    BY <1>1, <1>3

\* The address of four octets, written out, has these octets again.
LEMMA AddressOfText ==
  ASSUME NEW t \in [1..4 -> Octet]
  PROVE  parseIP(t) \in Address /\ ipToString(parseIP(t)) = t
  <1> DEFINE b == Base
             p == t[1]
             q == t[2]
             r == t[3]
             s == t[4]
             x == parseIP(t)
  <1>digits. /\ b \in Nat \ {0} /\ p \in 0..(b - 1) /\ q \in 0..(b - 1)
        /\ r \in 0..(b - 1) /\ s \in 0..(b - 1)
    BY RuleAssumption DEF Octet
  <1>value. x = p * 1 + q * b + r * (b * b) + s * (b * b * b)
    BY DEF parseIP, Weight
  <1> HIDE DEF b, p, q, r, s, x
  <1>1. b * b \in Nat \ {0} /\ b * b * b \in Nat \ {0} /\ b * (b * b) = b * b * b
    BY <1>digits
  <1> DEFINE u == r + b * s
             v == q + b * u
             w == p + b * q
             z == p + b * (q + b * r)
  <1>2. u \in 0..(b * b - 1) /\ w \in 0..(b * b - 1)
    BY <1>digits, DigitBound
  <1>3. q + b * r \in 0..(b * b - 1)
    BY <1>digits, DigitBound
  <1>4. v \in 0..(b * (b * b) - 1)
    BY <1>digits, <1>1, <1>2, DigitBound
  <1>5. z \in 0..(b * b * b - 1)
    <2>1. z \in 0..(b * (b * b) - 1)
      BY <1>digits, <1>1, <1>3, DigitBound
    <2> QED
      BY <2>1, <1>1
  <1>6. x = p + b * v
    BY <1>digits, <1>value
  <1>7. x = w + (b * b) * u
    BY <1>digits, <1>value
  <1>8. x = z + (b * b * b) * s
    BY <1>digits, <1>value
  <1>9. p + b * v \in 0..(b * (b * b * b) - 1)
    <2>1. v \in 0..(b * b * b - 1)
      BY <1>4, <1>1
    <2> QED
      BY <1>digits, <2>1, <1>1, DigitBound
  <1>a. x \in Nat /\ u \in Nat /\ v \in Nat
    BY <1>digits, <1>1, <1>2, <1>4, <1>6, <1>9
  <1> HIDE DEF u, v, w, z
  <1>b. x \div b = v /\ x % b = p
    BY <1>6, <1>a, DivMod, <1>digits
  <1>c. x \div 1 = x
    BY <1>a, <1>digits
  <1>d. v % b = q
    <2>1. v = q + b * u
      BY DEF v
    <2> QED
      BY <2>1, <1>a, DivMod, <1>digits
  <1>e. x \div (b * b) = u
    <2> DEFINE c == b * b
    <2>1. c \in Nat \ {0} /\ w \in 0..(c - 1) /\ x = w + c * u
      BY <1>1, <1>2, <1>7
    <2> HIDE DEF c
    <2>2. x \div c = u
      BY <2>1, <1>a, DivMod, <1>digits
    <2> QED
      BY <2>2 DEF c
  <1>f. u % b = r
    <2>1. u = r + b * s
      BY DEF u
    <2> QED
      BY <2>1, DivMod, <1>digits
  <1>g. x \div (b * b * b) = s
    <2> DEFINE c == b * b * b
    <2>1. c \in Nat \ {0} /\ z \in 0..(c - 1) /\ x = z + c * s
      BY <1>1, <1>5, <1>8
    <2> HIDE DEF c
    <2>2. x \div c = s
      BY <2>1, DivMod, <1>digits
    <2> QED
      BY <2>2 DEF c
  <1>h. s % b = s
    BY <1>digits
  <1>i. x \in 0..(b * (b * b * b) - 1)
    BY <1>6, <1>9
  <1>j. x \in Address
    BY <1>i DEF Address, Weight, b
  <1>k. \A i \in 1..4 : (x \div Weight[i]) % Base = t[i]
    BY <1>b, <1>c, <1>d, <1>e, <1>f, <1>g, <1>h DEF Weight, b, p, q, r, s
  <1>l. ipToString(x) = [i \in 1..4 |-> t[i]]
    BY <1>k DEF ipToString
  <1> QED
    BY <1>j, <1>l DEF x

\* Every address has octets, and read again they are the address.
LEMMA TextOfAddress ==
  ASSUME NEW x \in Address
  PROVE  ipToString(x) \in [1..4 -> Octet] /\ parseIP(ipToString(x)) = x
  <1> DEFINE b == Base
             d1 == x \div b
             d2 == d1 \div b
             d3 == d2 \div b
             t == <<x % b, d1 % b, d2 % b, d3>>
  <1>1. b \in Nat \ {0}
    BY RuleAssumption
  <1>2. x \in 0..(b * (b * b * b) - 1) /\ x \in Nat
    BY <1>1 DEF Address, Weight
  <1>3. ASSUME NEW y \in Nat PROVE y = b * (y \div b) + (y % b) /\ y % b \in 0..(b - 1) /\ y \div b \in Nat
    BY <1>1
  <1>4. d1 \in Nat /\ d2 \in Nat /\ d3 \in Nat
    BY <1>2, <1>3
  <1>5. x = b * d1 + (x % b) /\ d1 = b * d2 + (d1 % b) /\ d2 = b * d3 + (d2 % b)
    BY <1>2, <1>3, <1>4
  <1>6. x % b \in 0..(b - 1) /\ d1 % b \in 0..(b - 1) /\ d2 % b \in 0..(b - 1)
    BY <1>2, <1>3, <1>4
  <1> HIDE DEF d1, d2, d3, b
  <1>7. d3 \in 0..(b - 1)
    <2> SUFFICES ASSUME d3 >= b PROVE FALSE
      BY <1>1, <1>4
    <2>1. b * d3 >= b * b
      BY <1>1, <1>4
    <2>2. d2 >= b * b
      BY <1>1, <1>4, <1>5, <1>6, <2>1
    <2>3. b * d2 >= b * (b * b)
      BY <1>1, <1>4, <2>2
    <2>4. d1 >= b * (b * b)
      BY <1>1, <1>4, <1>5, <1>6, <2>3
    <2>5. b * d1 >= b * (b * (b * b))
      BY <1>1, <1>4, <2>4
    <2> QED
      BY <1>1, <1>2, <1>4, <1>5, <1>6, <2>5
  <1>8. t \in [1..4 -> Octet]
    BY <1>6, <1>7 DEF Octet, b
  <1>9. x = t[1] * 1 + t[2] * b + t[3] * (b * b) + t[4] * (b * b * b)
    <2> DEFINE m == x % b
               m1 == d1 % b
               m2 == d2 % b
    <2>1. m \in Int /\ m1 \in Int /\ m2 \in Int /\ x \in Int
      BY <1>1, <1>2, <1>6
    <2>2. x = b * d1 + m /\ d1 = b * d2 + m1 /\ d2 = b * d3 + m2
      BY <1>5
    <2> HIDE DEF m, m1, m2
    <2>3. x = m * 1 + m1 * b + m2 * (b * b) + d3 * (b * b * b)
      BY <2>1, <2>2, <1>1, <1>4
    <2> QED
      BY <2>3 DEF m, m1, m2
  <1>a. parseIP(t) = x
    BY <1>9 DEF parseIP, Weight, b
  <1> HIDE DEF t
  <1> QED
    BY <1>8, <1>a, AddressOfText

-----------------------------------------------------------------------------
(* Sequences                                                                 *)

\* A vector filled from a set has every element of the set and no others.
LEMMA ListedAll ==
  ASSUME NEW S, IsFiniteSet(S), NEW s \in SetToSeqs(S)
  PROVE  s \in Seq(S) /\ Range(s) = S
  <1> DEFINE n == Cardinality(S)
  <1>1. n \in Nat
    BY FS_CardinalityType
  <1>2. s \in [1..n -> S] /\ \A i, j \in 1..n : i # j => s[i] # s[j]
    BY DEF SetToSeqs
  <1>3. s \in Injection(1..n, S)
    BY <1>2 DEF Injection, IsInjective
  <1>4. Cardinality(1..n) = n
    BY <1>1, FS_Interval
  <1>5. s \in Surjection(1..n, S)
    BY <1>3, <1>4, FS_Injection
  <1>6. Range(s) = S
    BY <1>2, <1>5 DEF Surjection, Range
  <1> QED
    BY <1>1, <1>2, <1>6

\* Taking the first occurrence of a pattern out takes no other pattern out.
LEMMA RemoveFirstKeepsOthers ==
  ASSUME NEW S, NEW s \in Seq(S), NEW e
  PROVE  /\ RemoveFirst(s, e) \in Seq(S)
         /\ Range(RemoveFirst(s, e)) \subseteq Range(s)
         /\ Range(s) \ {e} \subseteq Range(RemoveFirst(s, e))
  <1>1. CASE ~ \E i \in 1..Len(s) : s[i] = e
    BY <1>1 DEF RemoveFirst
  <1>2. CASE \E i \in 1..Len(s) : s[i] = e
    <2> DEFINE I == {i \in 1..Len(s) : s[i] = e}
               k == Min(I)
               h == SubSeq(s, 1, k - 1)
               t == SubSeq(s, k + 1, Len(s))
    <2>1. RemoveFirst(s, e) = h \o t
      BY <1>2 DEF RemoveFirst, RemoveAt, SelectInSeq
    <2>2. k \in I
      <3>1. I \subseteq Nat /\ I # {}
        BY <1>2
      <3> HIDE DEF I
      <3> QED
        BY <3>1, LeastNumber
    <2> HIDE DEF k
    <2>3. k \in 1..Len(s) /\ s[k] = e
      BY <2>2
    <2>4. h \in Seq(S) /\ Len(h) = k - 1 /\ \A i \in 1..(k - 1) : h[i] = s[i]
      BY <2>3
    <2>5. t \in Seq(S) /\ Len(t) = Len(s) - k /\ \A i \in 1..(Len(s) - k) : t[i] = s[k + i]
      BY <2>3
    <2> HIDE DEF h, t
    <2>6. /\ h \o t \in Seq(S) /\ Len(h \o t) = Len(s) - 1
          /\ \A i \in 1..(k - 1) : (h \o t)[i] = s[i]
          /\ \A i \in k..(Len(s) - 1) : (h \o t)[i] = s[i + 1]
      <3>0. /\ h \o t \in Seq(S) /\ Len(h \o t) = Len(h) + Len(t)
            /\ \A i \in 1..(Len(h) + Len(t)) :
                  (h \o t)[i] = IF i <= Len(h) THEN h[i] ELSE t[i - Len(h)]
        BY <2>4, <2>5, ConcatProperties
      <3>1. h \o t \in Seq(S) /\ Len(h \o t) = Len(s) - 1
        BY <2>3, <2>4, <2>5, <3>0
      <3>2. ASSUME NEW i \in 1..(k - 1) PROVE (h \o t)[i] = s[i]
        BY <2>3, <2>4, <2>5, <3>0
      <3>3. ASSUME NEW i \in k..(Len(s) - 1) PROVE (h \o t)[i] = s[i + 1]
        <4>1. (h \o t)[i] = t[i - (k - 1)]
          BY <2>3, <2>4, <2>5, <3>0
        <4> QED
          BY <4>1, <2>3, <2>5
      <3> QED
        BY <3>1, <3>2, <3>3
    <2> DEFINE g == h \o t
    <2> HIDE DEF g
    <2>7. /\ g \in Seq(S) /\ Len(g) = Len(s) - 1
          /\ \A i \in 1..(k - 1) : g[i] = s[i]
          /\ \A i \in k..(Len(s) - 1) : g[i] = s[i + 1]
      BY <2>6 DEF g
    <2>8. Range(g) \subseteq Range(s)
      <3> SUFFICES ASSUME NEW i \in 1..(Len(s) - 1) PROVE \E j \in 1..Len(s) : g[i] = s[j]
        BY <2>7 DEF Range
      <3>1. CASE i < k
        BY <3>1, <2>3, <2>7
      <3>2. CASE i >= k
        <4>1. g[i] = s[i + 1] /\ i + 1 \in 1..Len(s)
          BY <3>2, <2>3, <2>7
        <4> QED
          BY <4>1
      <3> QED
        BY <3>1, <3>2, <2>3
    <2>9. Range(s) \ {e} \subseteq Range(g)
      <3> SUFFICES ASSUME NEW j \in 1..Len(s), s[j] # e
                   PROVE  \E i \in 1..(Len(s) - 1) : g[i] = s[j]
        BY <2>7 DEF Range
      <3>1. CASE j < k
        BY <3>1, <2>3, <2>7
      <3>2. CASE j > k
        <4>1. g[j - 1] = s[j] /\ j - 1 \in 1..(Len(s) - 1)
          <5>1. j - 1 \in k..(Len(s) - 1)
            BY <3>2, <2>3
          <5>2. g[j - 1] = s[(j - 1) + 1]
            BY <5>1, <2>7
          <5> QED
            BY <5>1, <5>2, <2>3
        <4> QED
          BY <4>1
      <3> QED
        BY <3>1, <3>2, <2>3
    <2> QED
      BY <2>1, <2>7, <2>8, <2>9 DEF g
  <1> QED
    BY <1>1, <1>2

\* What a sequence has after an element was appended.
LEMMA RangeOfAppend ==
  ASSUME NEW S, NEW s \in Seq(S), NEW e \in S
  PROVE  Range(Append(s, e)) = Range(s) \cup {e}
  <1> DEFINE g == Append(s, e)
             n == Len(s)
  <1>1. /\ n \in Nat /\ DOMAIN s = 1..n /\ DOMAIN g = 1..(n + 1)
        /\ g[n + 1] = e /\ \A i \in 1..n : g[i] = s[i]
    OBVIOUS
  <1> HIDE DEF g, n
  <1>2. \A i \in 1..(n + 1) : i \in 1..n \/ i = n + 1
    BY <1>1
  <1>3. \A i \in 1..n : i \in 1..(n + 1)
    BY <1>1
  <1>4. n + 1 \in 1..(n + 1)
    BY <1>1
  <1>5. Range(g) = Range(s) \cup {e}
    BY <1>1, <1>2, <1>3, <1>4 DEF Range
  <1> QED
    BY <1>5 DEF g

\* The name of an application leads back to it, and any other name to none.
LEMMA AppOfName ==
  /\ \A name : appOfName(name) \subseteq App
  /\ \A a \in App : appOfName(AppName[a]) = {a}
  <1>1. \A a, b \in App : AppName[a] = AppName[b] => a = b
    BY RuleAssumption
  <1>2. App \subseteq Nat
    BY RuleAssumption DEF App
  <1>3. ASSUME NEW a \in App PROVE Min({a}) = a
    BY <1>2 DEF Min
  <1>4. ASSUME NEW a \in App PROVE {i \in App : AppName[i] = AppName[a]} = {a}
    BY <1>1
  <1>5. ASSUME NEW a \in App PROVE appOfName(AppName[a]) = {a}
    BY <1>3, <1>4 DEF appOfName
  <1>6. ASSUME NEW name PROVE appOfName(name) \subseteq App
    <2>1. CASE \E a \in App : AppName[a] = name
      BY <2>1, <1>5
    <2>2. CASE ~ \E a \in App : AppName[a] = name
      BY <2>2 DEF appOfName
    <2> QED
      BY <2>1, <2>2
  <1> QED
    BY <1>5, <1>6

-----------------------------------------------------------------------------
(* What the updates do to the rules in force                                 *)

\* A rule in force, by its kind.
LEMMA InForceByKind ==
  \A r : r \in InForce <=> \/ \E x \in blocked_ips_ : r = <<"ip", x>>
                           \/ \E x \in blocked_apps_ : r = <<"app", x>>
                           \/ \E x \in blocked_domains_ \cup Range(domain_patterns_) :
                                 r = <<"domain", x>>
                           \/ \E x \in blocked_ports_ : r = <<"port", x>>
  BY DEF InForce

LEMMA InForceByKindNext ==
  \A r : r \in InForce' <=> \/ \E x \in blocked_ips_' : r = <<"ip", x>>
                            \/ \E x \in blocked_apps_' : r = <<"app", x>>
                            \/ \E x \in blocked_domains_' \cup Range(domain_patterns_') :
                                  r = <<"domain", x>>
                            \/ \E x \in blocked_ports_' : r = <<"port", x>>
  BY DEF InForce

LEMMA AddIPEffect ==
  ASSUME NEW ip, addIP(ip)
  PROVE  InForce' = InForce \cup {<<"ip", ip>>}
  BY InForceByKind, InForceByKindNext DEF addIP

LEMMA AddAppsEffect ==
  ASSUME NEW apps, addApps(apps)
  PROVE  InForce' = InForce \cup ({"app"} \X apps)
  BY InForceByKind, InForceByKindNext DEF addApps

LEMMA AddPortEffect ==
  ASSUME NEW port, addPort(port)
  PROVE  InForce' = InForce \cup {<<"port", port>>}
  BY InForceByKind, InForceByKindNext DEF addPort

\* A pattern is appended, an exact name inserted: in force it is either way.
LEMMA AddDomainEffect ==
  ASSUME NEW rule \in Seq(Char), domain_patterns_ \in Seq(Seq(Char)), addDomain(rule)
  PROVE  /\ blocked_domains_' \cup Range(domain_patterns_') =
               blocked_domains_ \cup Range(domain_patterns_) \cup {rule}
         /\ InForce' = InForce \cup {<<"domain", rule>>}
  <1>1. Range(Append(domain_patterns_, rule)) = Range(domain_patterns_) \cup {rule}
    BY RangeOfAppend
  <1>2. blocked_domains_' \cup Range(domain_patterns_') =
          blocked_domains_ \cup Range(domain_patterns_) \cup {rule}
    BY <1>1 DEF addDomain
  <1>3. UNCHANGED <<blocked_ips_, blocked_apps_, blocked_ports_>>
    BY DEF addDomain
  <1> QED
    BY <1>2, <1>3, InForceByKind, InForceByKindNext

\* The rules of a line come into force.
LEMMA AddLineEffect ==
  ASSUME NEW l \in Line, domain_patterns_ \in Seq(Seq(Char)),
         l.kind = "domain" => normalize(l.text) = l.text, addLine(l)
  PROVE  InForce' = InForce \cup {Loaded(l)}
  <1>1. CASE l.kind = "ip"
    <2>1. addIP(parseIP(l.text)) /\ Loaded(l) = <<"ip", parseIP(l.text)>>
      BY <1>1 DEF addLine, Loaded
    <2> QED
      BY <2>1, AddIPEffect
  <1>2. CASE l.kind = "app"
    <2>1. addApps(appOfName(l.text)) /\ Loaded(l) = <<"app", CHOOSE a \in appOfName(l.text) : TRUE>>
      BY <1>2 DEF addLine, Loaded
    <2>2. l.text \in Range(AppName)
      BY <1>2 DEF Line
    <2>3. PICK a \in App : l.text = AppName[a]
      BY <2>2 DEF Range, App
    <2>4. appOfName(l.text) = {a}
      BY <2>3, AppOfName
    <2>5. Loaded(l) = <<"app", a>>
      BY <2>1, <2>4
    <2>6. {"app"} \X {a} = {<<"app", a>>}
      OBVIOUS
    <2> QED
      BY <2>1, <2>4, <2>5, <2>6, AddAppsEffect
  <1>3. CASE l.kind = "domain"
    <2>1. addDomain(l.text) /\ Loaded(l) = <<"domain", l.text>>
      BY <1>3 DEF addLine, Loaded
    <2>2. l.text \in Seq(Char)
      BY <1>3 DEF Line
    <2> QED
      BY <2>1, <2>2, AddDomainEffect
  <1>4. CASE l.kind = "port"
    <2>1. addPort(l.text) /\ Loaded(l) = <<"port", l.text>>
      BY <1>4 DEF addLine, Loaded
    <2> QED
      BY <2>1, AddPortEffect
  <1>5. l.kind \in {"ip", "app", "domain", "port"}
    BY DEF Line
  <1> QED
    BY <1>1, <1>2, <1>3, <1>4, <1>5

\* A call of another thread brings rules into force, or takes no others out.
Grows(rules) == /\ InForce' = InForce \cup rules
                /\ rules \subseteq Rule
                /\ Adds(rules)
                /\ UNCHANGED <<file, pc, line>>

Shrinks(rules) == /\ InForce \ rules \subseteq InForce'
                  /\ InForce' \subseteq InForce
                  /\ rules \subseteq Rule
                  /\ Removes(rules)
                  /\ UNCHANGED <<file, pc, line>>

LEMMA UpdateEffect ==
  ASSUME domain_patterns_ \in Seq(Seq(Char)), RuleUpdate
  PROVE  \E rules : Grows(rules) \/ Shrinks(rules)
  <1>1. ASSUME NEW text \in IPTexts, blockIP(text)
        PROVE  Grows({<<"ip", parseIP(text)>>})
    <2>1. parseIP(text) \in Address
      BY RuleAssumption, AddressOfText
    <2> QED
      BY <1>1, <2>1, AddIPEffect DEF blockIP, Update, Grows, Rule
  <1>2. ASSUME NEW text \in IPTexts, unblockIP(text)
        PROVE  Shrinks({<<"ip", parseIP(text)>>})
    <2>1. parseIP(text) \in Address
      BY RuleAssumption, AddressOfText
    <2> QED
      BY <1>2, <2>1, InForceByKind, InForceByKindNext DEF unblockIP, Update, Shrinks, Rule
  <1>3. ASSUME NEW name \in AppTexts, blockApp(name)
        PROVE  Grows({"app"} \X appOfName(name))
    BY <1>3, AppOfName, AddAppsEffect DEF blockApp, Update, Grows, Rule
  <1>4. ASSUME NEW name \in AppTexts, unblockApp(name)
        PROVE  Shrinks({"app"} \X appOfName(name))
    BY <1>4, AppOfName, InForceByKind, InForceByKindNext DEF unblockApp, Update, Shrinks, Rule
  <1>5. ASSUME NEW text \in DomainTexts, blockDomain(text)
        PROVE  Grows({<<"domain", normalize(text)>>})
    <2>1. normalize(text) \in Seq(Char)
      BY RuleAssumption, NormalType
    <2> QED
      BY <1>5, <2>1, AddDomainEffect DEF blockDomain, Update, Grows, Rule
  <1>6. ASSUME NEW text \in DomainTexts, unblockDomain(text)
        PROVE  Shrinks({<<"domain", normalize(text)>>})
    <2> DEFINE rule == normalize(text)
    <2>1. rule \in Seq(Char)
      BY RuleAssumption, NormalType
    <2> HIDE DEF rule
    <2>2. /\ Range(RemoveFirst(domain_patterns_, rule)) \subseteq Range(domain_patterns_)
          /\ Range(domain_patterns_) \ {rule} \subseteq Range(RemoveFirst(domain_patterns_, rule))
      BY RemoveFirstKeepsOthers
    <2>3. /\ IF isWildcard(rule)
             THEN /\ domain_patterns_' = RemoveFirst(domain_patterns_, rule)
                  /\ UNCHANGED blocked_domains_
             ELSE /\ blocked_domains_' = blocked_domains_ \ {rule}
                  /\ UNCHANGED domain_patterns_
          /\ Removes({<<"domain", rule>>})
          /\ UNCHANGED <<blocked_ips_, blocked_apps_, blocked_ports_, file, pc, line>>
      BY <1>6 DEF unblockDomain, Update, rule
    <2> DEFINE now == blocked_domains_ \cup Range(domain_patterns_)
               then == blocked_domains_' \cup Range(domain_patterns_')
    <2>4. then \subseteq now /\ now \ {rule} \subseteq then
      BY <2>2, <2>3
    <2>5. InForce \ {<<"domain", rule>>} \subseteq InForce' /\ InForce' \subseteq InForce
      BY <2>3, <2>4, InForceByKind, InForceByKindNext
    <2> QED
      BY <2>1, <2>3, <2>5 DEF Shrinks, Rule, rule
  <1>7. ASSUME NEW port \in Ports, blockPort(port)
        PROVE  Grows({<<"port", port>>})
    BY <1>7, AddPortEffect DEF blockPort, Update, Grows, Rule
  <1>8. ASSUME NEW port \in Ports, unblockPort(port)
        PROVE  Shrinks({<<"port", port>>})
    BY <1>8, InForceByKind, InForceByKindNext DEF unblockPort, Update, Shrinks, Rule
  <1> QED
    BY <1>1, <1>2, <1>3, <1>4, <1>5, <1>6, <1>7, <1>8 DEF RuleUpdate

-----------------------------------------------------------------------------
(* What is written to the file                                               *)

NormalLine == {l \in Line : l.kind = "domain" => l.text \in Normal}

\* The rules that the lines of a file stand for.
RulesIn(lines) == {Loaded(l) : l \in Range(lines)}

\* All rules in the file, also those that loadRules misses.
WrittenRules == {Loaded(file[i]) : i \in DOMAIN file}

LEMMA WrittenAreRulesIn ==
  WrittenRules = RulesIn(file) /\ WrittenRules' = RulesIn(file')
  BY DEF WrittenRules, RulesIn, Range, Loaded

\* A rule that is written but not held for loadRules is a domain, and a domain
\* that begins with a bracket is written too.
LEMMA OnlyDomainsSwallowed ==
  ASSUME file' \in Seq(NormalLine)
  PROVE  /\ FileRules' \subseteq WrittenRules'
         /\ \A r \in WrittenRules' \ FileRules' :
               r[1] = "domain" /\ Bracketed(WrittenRules') # {}
  <1> DEFINE f == file'
             Unread(i) == /\ f[i].kind = "domain"
                          /\ \E j \in 1..i : f[j].kind = "domain" /\ IsHeader(f[j].text)
  <1>1. FileRules' = {Loaded(f[i]) : i \in {i \in DOMAIN f : ~Unread(i)}}
    BY DEF FileRules, Swallowed, Loaded, IsHeader
  <1>2. WrittenRules' = {Loaded(f[i]) : i \in DOMAIN f}
    BY DEF WrittenRules, Loaded
  <1>3. f \in Seq(NormalLine)
    OBVIOUS
  <1> HIDE DEF f
  <1>4. ASSUME NEW i \in DOMAIN f, Unread(i)
        PROVE  Loaded(f[i])[1] = "domain" /\ Bracketed(WrittenRules') # {}
    <2>1. Loaded(f[i]) = <<"domain", f[i].text>>
      BY <1>4 DEF Loaded
    <2>2. PICK j \in 1..i : f[j].kind = "domain" /\ IsHeader(f[j].text)
      BY <1>4
    <2>3. Loaded(f[j]) = <<"domain", f[j].text>>
      BY <2>2 DEF Loaded
    <2>4. j \in DOMAIN f
      BY <1>3, <1>4
    <2>5. Loaded(f[j]) \in Bracketed(WrittenRules')
      BY <1>2, <2>2, <2>3, <2>4 DEF Bracketed
    <2> QED
      BY <2>1, <2>5
  <1> QED
    BY <1>1, <1>2, <1>4

LEMMA RulesInConcat ==
  ASSUME NEW f \in Seq(NormalLine), NEW g \in Seq(NormalLine)
  PROVE  f \o g \in Seq(NormalLine) /\ RulesIn(f \o g) = RulesIn(f) \cup RulesIn(g)
  <1>1. f \o g \in Seq(NormalLine)
    BY ConcatProperties
  <1>2. Range(f \o g) = Range(f) \cup Range(g)
    BY RangeConcatenation
  <1> QED
    BY <1>1, <1>2 DEF RulesIn

\* One line for each text.
LEMMA LinesForAll ==
  ASSUME NEW kind, NEW T, NEW Q, \A s \in Q : s \in Seq(T) /\ Range(s) = T,
         NEW lines \in LinesOf(kind, Q)
  PROVE  /\ lines \in Seq({[kind |-> kind, text |-> x] : x \in T})
         /\ Range(lines) = {[kind |-> kind, text |-> x] : x \in T}
  <1>1. PICK s \in Q : lines = [i \in DOMAIN s |-> [kind |-> kind, text |-> s[i]]]
    BY DEF LinesOf
  <1>2. s \in Seq(T) /\ Range(s) = T
    OBVIOUS
  <1> DEFINE n == Len(s)
             R(x) == [kind |-> kind, text |-> x]
             W == {R(x) : x \in T}
  <1>3. n \in Nat /\ DOMAIN s = 1..n /\ \A i \in 1..n : s[i] \in T
    BY <1>2
  <1>4. lines = [i \in 1..n |-> R(s[i])]
    BY <1>1, <1>3
  <1>5. \A x \in T : \E i \in 1..n : s[i] = x
    BY <1>2, <1>3 DEF Range
  <1> HIDE DEF n, R
  <1>6. lines \in [1..n -> W]
    BY <1>3, <1>4
  <1>7. lines \in Seq(W)
    BY <1>3, <1>6
  <1>8. Range(lines) = W
    BY <1>3, <1>4, <1>5 DEF Range
  <1> QED
    BY <1>7, <1>8 DEF R

\* The rules of these lines.
LEMMA RulesForAll ==
  ASSUME NEW kind, NEW T, NEW lines, Range(lines) = {[kind |-> kind, text |-> x] : x \in T},
         NEW Q, \A x \in T : Loaded([kind |-> kind, text |-> x]) \in Q,
         \A r \in Q : \E x \in T : r = Loaded([kind |-> kind, text |-> x])
  PROVE  RulesIn(lines) = Q
  <1> DEFINE L(x) == [kind |-> kind, text |-> x]
  <1>1. \A x \in T : L(x) \in Range(lines)
    OBVIOUS
  <1>2. \A l \in Range(lines) : \E x \in T : l = L(x)
    OBVIOUS
  <1>3. (\A x \in T : Loaded(L(x)) \in Q) /\ (\A r \in Q : \E x \in T : r = Loaded(L(x)))
    OBVIOUS
  <1> HIDE DEF L
  <1>4. ASSUME NEW r \in RulesIn(lines) PROVE r \in Q
    <2>1. PICK l \in Range(lines) : r = Loaded(l)
      BY DEF RulesIn
    <2>2. PICK x \in T : l = L(x)
      BY <1>2
    <2>3. Loaded(L(x)) \in Q
      BY <1>3
    <2> QED
      BY <2>1, <2>2, <2>3, Zenon
  <1>5. ASSUME NEW r \in Q PROVE r \in RulesIn(lines)
    <2>1. PICK x \in T : r = Loaded(L(x))
      BY <1>3
    <2>2. L(x) \in Range(lines)
      BY <1>1
    <2> QED
      BY <2>1, <2>2 DEF RulesIn
  <1> QED
    BY <1>4, <1>5

\* The image of a finite set, as a set of texts, is finite.
LEMMA FiniteImage ==
  ASSUME NEW S, IsFiniteSet(S), NEW f, DOMAIN f = S
  PROVE  IsFiniteSet({f[x] : x \in S})
  <1> DEFINE T == {f[x] : x \in S}
             g == [x \in S |-> f[x]]
  <1>1. g \in Surjection(S, T)
    BY DEF Surjection
  <1> QED
    BY <1>1, FS_Surjection

LEMMA SavedIPs ==
  ASSUME blocked_ips_ \subseteq Address,
         NEW lines \in LinesOf("ip", SetToSeqs({ipToString(ip) : ip \in blocked_ips_}))
  PROVE  lines \in Seq(NormalLine) /\ RulesIn(lines) = {"ip"} \X blocked_ips_
  <1> DEFINE T == {ipToString(ip) : ip \in blocked_ips_}
             f == [ip \in blocked_ips_ |-> ipToString(ip)]
             W == {[kind |-> "ip", text |-> x] : x \in T}
  <1>1. IsFiniteSet(blocked_ips_)
    <2>1. Base * Weight[4] - 1 \in Int
      BY RuleAssumption DEF Weight
    <2>2. IsFiniteSet(Address)
      BY <2>1, FS_Interval DEF Address
    <2> QED
      BY <2>2, FS_Subset
  <1>2. IsFiniteSet(T)
    <2>1. T = {f[ip] : ip \in blocked_ips_} /\ DOMAIN f = blocked_ips_
      OBVIOUS
    <2> HIDE DEF f, T
    <2> QED
      BY <2>1, <1>1, FiniteImage
  <1>3. \A x \in T : x \in [1..4 -> Octet]
    BY TextOfAddress
  <1>4. \A ip \in blocked_ips_ : parseIP(ipToString(ip)) = ip
    BY TextOfAddress
  <1> HIDE DEF T
  <1>5. \A s \in SetToSeqs(T) : s \in Seq(T) /\ Range(s) = T
    BY <1>2, ListedAll
  <1>6. lines \in LinesOf("ip", SetToSeqs(T))
    BY DEF T
  <1>7. lines \in Seq(W) /\ Range(lines) = W
    BY <1>5, <1>6, LinesForAll
  <1>8. W \subseteq NormalLine
    BY <1>3 DEF NormalLine, Line
  <1> DEFINE Q == {"ip"} \X blocked_ips_
  <1>9. \A x : Loaded([kind |-> "ip", text |-> x]) = <<"ip", parseIP(x)>>
    BY DEF Loaded
  <1>b. ASSUME NEW x \in T PROVE Loaded([kind |-> "ip", text |-> x]) \in Q
    <2>1. Loaded([kind |-> "ip", text |-> x]) = <<"ip", parseIP(x)>>
      BY <1>9
    <2>2. PICK ip \in blocked_ips_ : x = ipToString(ip)
      BY DEF T
    <2>3. parseIP(x) = ip
      BY <2>2, <1>4
    <2> QED
      BY <2>1, <2>3
  <1>c. \A r \in Q : \E x \in T : r = Loaded([kind |-> "ip", text |-> x])
    BY <1>9, <1>4 DEF T
  <1> HIDE DEF Q
  <1>a. RulesIn(lines) = Q
    BY <1>7, <1>b, <1>c, RulesForAll
  <1> USE DEF Q
  <1> QED
    BY <1>7, <1>8, <1>a

LEMMA SavedApps ==
  ASSUME blocked_apps_ \subseteq App,
         NEW lines \in LinesOf("app", SetToSeqs({AppName[a] : a \in blocked_apps_}))
  PROVE  lines \in Seq(NormalLine) /\ RulesIn(lines) = {"app"} \X blocked_apps_
  <1> DEFINE T == {AppName[a] : a \in blocked_apps_}
             f == [a \in blocked_apps_ |-> AppName[a]]
             W == {[kind |-> "app", text |-> x] : x \in T}
  <1>1. IsFiniteSet(blocked_apps_)
    <2>1. App = 1..Len(AppName) /\ Len(AppName) \in Nat
      BY RuleAssumption DEF App
    <2>2. IsFiniteSet(App)
      <3> DEFINE n == Len(AppName)
      <3>1. n \in Int
        BY <2>1
      <3> HIDE DEF n
      <3>2. IsFiniteSet(1..n)
        BY <3>1, FS_Interval
      <3> QED
        BY <2>1, <3>2 DEF n
    <2> QED
      BY <2>2, FS_Subset
  <1>2. IsFiniteSet(T)
    <2>1. T = {f[a] : a \in blocked_apps_} /\ DOMAIN f = blocked_apps_
      OBVIOUS
    <2> HIDE DEF f, T
    <2> QED
      BY <2>1, <1>1, FiniteImage
  <1>3. \A x \in T : x \in Range(AppName)
    BY DEF Range, App
  <1>4. \A a \in blocked_apps_ : appOfName(AppName[a]) = {a}
    BY AppOfName
  <1> HIDE DEF T
  <1>5. \A s \in SetToSeqs(T) : s \in Seq(T) /\ Range(s) = T
    BY <1>2, ListedAll
  <1>6. lines \in LinesOf("app", SetToSeqs(T))
    BY DEF T
  <1>7. lines \in Seq(W) /\ Range(lines) = W
    BY <1>5, <1>6, LinesForAll
  <1>8. W \subseteq NormalLine
    BY <1>3 DEF NormalLine, Line
  <1>9. \A a \in blocked_apps_ : Loaded([kind |-> "app", text |-> AppName[a]]) = <<"app", a>>
    BY <1>4 DEF Loaded
  <1> DEFINE Q == {"app"} \X blocked_apps_
  <1>a. \A x \in T : Loaded([kind |-> "app", text |-> x]) \in Q
    BY <1>9 DEF T
  <1>c. ASSUME NEW r \in Q PROVE \E x \in T : r = Loaded([kind |-> "app", text |-> x])
    <2>1. PICK a \in blocked_apps_ : r = <<"app", a>>
      OBVIOUS
    <2>2. Loaded([kind |-> "app", text |-> AppName[a]]) = r /\ AppName[a] \in T
      BY <2>1, <1>9 DEF T
    <2> QED
      BY <2>2
  <1> HIDE DEF Q
  <1>b. RulesIn(lines) = Q
    BY <1>7, <1>a, <1>c, RulesForAll
  <1> USE DEF Q
  <1> QED
    BY <1>7, <1>8, <1>b

LEMMA SavedDomains ==
  ASSUME IsFiniteSet(blocked_domains_), blocked_domains_ \subseteq Normal,
         domain_patterns_ \in Seq(Normal),
         NEW lines \in LinesOf("domain", getBlockedDomains)
  PROVE  /\ lines \in Seq(NormalLine)
         /\ RulesIn(lines) = {"domain"} \X (blocked_domains_ \cup Range(domain_patterns_))
  <1> DEFINE T == blocked_domains_ \cup Range(domain_patterns_)
             W == {[kind |-> "domain", text |-> x] : x \in T}
  <1>1. Range(domain_patterns_) \subseteq Normal
    BY RangeOfSeq
  <1>2. ASSUME NEW s \in getBlockedDomains PROVE s \in Seq(T) /\ Range(s) = T
    <2>1. PICK e \in SetToSeqs(blocked_domains_) : s = e \o domain_patterns_
      BY DEF getBlockedDomains
    <2>2. e \in Seq(blocked_domains_) /\ Range(e) = blocked_domains_
      BY ListedAll
    <2>3. domain_patterns_ \in Seq(Range(domain_patterns_))
      BY SeqOfRange
    <2>4. e \in Seq(T) /\ domain_patterns_ \in Seq(T)
      BY <2>2, <2>3
    <2> HIDE DEF T
    <2>5. s \in Seq(T) /\ Range(s) = Range(e) \cup Range(domain_patterns_)
      BY <2>1, <2>4, ConcatProperties, RangeConcatenation
    <2> QED
      BY <2>2, <2>5 DEF T
  <1>3. T \subseteq Normal /\ T \subseteq Seq(Char)
    BY <1>1 DEF Normal
  <1> HIDE DEF T
  <1>4. lines \in Seq(W) /\ Range(lines) = W
    BY <1>2, LinesForAll
  <1>5. W \subseteq NormalLine
    BY <1>3 DEF NormalLine, Line
  <1> DEFINE Q == {"domain"} \X T
  <1>7. \A x : Loaded([kind |-> "domain", text |-> x]) = <<"domain", x>>
    BY DEF Loaded
  <1>8. ASSUME NEW x \in T PROVE Loaded([kind |-> "domain", text |-> x]) \in Q
    <2>1. Loaded([kind |-> "domain", text |-> x]) = <<"domain", x>>
      BY <1>7
    <2> QED
      BY <2>1
  <1>9. \A r \in Q : \E x \in T : r = Loaded([kind |-> "domain", text |-> x])
    BY <1>7
  <1> HIDE DEF Q
  <1>6. RulesIn(lines) = Q
    BY <1>4, <1>8, <1>9, RulesForAll
  <1> USE DEF Q
  <1> QED
    BY <1>4, <1>5, <1>6 DEF T

LEMMA SavedPorts ==
  ASSUME IsFiniteSet(blocked_ports_), blocked_ports_ \subseteq Ports,
         NEW lines \in LinesOf("port", SetToSeqs(blocked_ports_))
  PROVE  lines \in Seq(NormalLine) /\ RulesIn(lines) = {"port"} \X blocked_ports_
  <1> DEFINE W == {[kind |-> "port", text |-> x] : x \in blocked_ports_}
  <1>1. \A s \in SetToSeqs(blocked_ports_) : s \in Seq(blocked_ports_) /\ Range(s) = blocked_ports_
    BY ListedAll
  <1>2. lines \in Seq(W) /\ Range(lines) = W
    BY <1>1, LinesForAll
  <1>3. W \subseteq NormalLine
    BY DEF NormalLine, Line
  <1> DEFINE Q == {"port"} \X blocked_ports_
  <1>5. \A x : Loaded([kind |-> "port", text |-> x]) = <<"port", x>>
    BY DEF Loaded
  <1>6. ASSUME NEW x \in blocked_ports_ PROVE Loaded([kind |-> "port", text |-> x]) \in Q
    <2>1. Loaded([kind |-> "port", text |-> x]) = <<"port", x>>
      BY <1>5
    <2> QED
      BY <2>1
  <1>7. \A r \in Q : \E x \in blocked_ports_ : r = Loaded([kind |-> "port", text |-> x])
    BY <1>5
  <1> HIDE DEF Q
  <1>4. RulesIn(lines) = Q
    BY <1>2, <1>6, <1>7, RulesForAll
  <1> USE DEF Q
  <1> QED
    BY <1>2, <1>3, <1>4

-----------------------------------------------------------------------------
(* The inductive invariant                                                   *)

SetsOK == /\ blocked_ips_ \subseteq Address
          /\ blocked_apps_ \subseteq App
          /\ blocked_domains_ \subseteq Normal /\ IsFiniteSet(blocked_domains_)
          /\ domain_patterns_ \in Seq(Normal)
          /\ blocked_ports_ \subseteq Ports /\ IsFiniteSet(blocked_ports_)

FileOK == /\ file \in Seq(NormalLine)
          /\ line \in 1..(Len(file) + 1)

HistoryOK == start \subseteq Rule /\ added \subseteq Rule /\ removed \subseteq Rule

PlaceOK == /\ pc \in {"idle", "load", "saveApps", "saveDomains", "savePorts",
                      "clearApps", "clearDomains", "clearPorts"}
           /\ calls \in 0..MaxCalls

Sound == SetsOK /\ FileOK /\ HistoryOK /\ PlaceOK

\* The kinds of rules that saveRules has written, clearAll has cleared.
Done == IF pc \in {"saveApps", "clearApps"} THEN {"ip"}
        ELSE IF pc \in {"saveDomains", "clearDomains"} THEN {"ip", "app"}
        ELSE {"ip", "app", "domain"}

\* While rules are saved, those in force are the ones from the start but for
\* the other thread's calls, and what is written of a kind is no worse.
SaveInv == pc \in {"saveApps", "saveDomains", "savePorts"} =>
              /\ start \ removed \subseteq InForce
              /\ InForce \subseteq start \cup added
              /\ \A r \in start \ removed : r[1] \in Done => r \in WrittenRules
              /\ WrittenRules \subseteq start \cup added

\* The lines read so far, but for the swallowed ones, are in force.
LoadInv == pc = "load" =>
              /\ start \ removed \subseteq InForce
              /\ InForce \subseteq start \cup added \cup FileRules
              /\ \A i \in 1..(line - 1) :
                    ~Swallowed(i) => Loaded(file[i]) \in InForce \cup removed

\* What is in force of a kind already cleared came in meanwhile.
ClearInv == pc \in {"clearApps", "clearDomains", "clearPorts"} =>
               \A r \in InForce : r[1] \in Done => r \in added

RuleInv == Sound /\ SaveInv /\ LoadInv /\ ClearInv

LEMMA SetsTyped ==
  ASSUME SetsOK
  PROVE  /\ blocked_domains_ \subseteq Seq(Char)
         /\ domain_patterns_ \in Seq(Seq(Char))
         /\ Range(domain_patterns_) \subseteq Normal
  <1>1. Normal \subseteq Seq(Char)
    BY DEF Normal
  <1>2. domain_patterns_ \in Seq(Normal)
    BY DEF SetsOK
  <1>3. Range(domain_patterns_) \subseteq Normal
    BY <1>2, RangeOfSeq
  <1> HIDE DEF Normal
  <1>4. domain_patterns_ \in Seq(Seq(Char))
    BY <1>1, <1>2
  <1> QED
    BY <1>1, <1>3, <1>4 DEF SetsOK

LEMMA LinesTyped ==
  ASSUME FileOK
  PROVE  /\ file \in Seq(Line) /\ Len(file) \in Nat
         /\ \A i \in 1..Len(file) : file[i] \in Line
         /\ \A i \in 1..Len(file) : file[i].kind = "domain" => file[i].text \in Normal
  <1>1. NormalLine \subseteq Line
    BY DEF NormalLine
  <1>2. \A l \in NormalLine : l.kind = "domain" => l.text \in Normal
    BY DEF NormalLine
  <1>3. file \in Seq(NormalLine)
    BY DEF FileOK
  <1> HIDE DEF NormalLine
  <1> QED
    BY <1>1, <1>2, <1>3

LEMMA SoundIsTyped ==
  Sound => TypeOK
  <1> SUFFICES ASSUME Sound PROVE TypeOK
    OBVIOUS
  <1>1. SetsOK /\ FileOK /\ HistoryOK /\ PlaceOK
    BY DEF Sound
  <1>2. /\ blocked_ips_ \subseteq Address /\ blocked_apps_ \subseteq App
        /\ blocked_ports_ \subseteq Ports
    BY <1>1 DEF SetsOK
  <1>3. \A s \in {start, added, removed} : \A r \in s : r \in Rule
    BY <1>1 DEF HistoryOK
  <1>4. line \in 1..(Len(file) + 1)
    BY <1>1 DEF FileOK
  <1> QED
    BY <1>1, <1>2, <1>3, <1>4, SetsTyped, LinesTyped DEF TypeOK, PlaceOK

\* The block functions, of a line too, keep the sets.
LEMMA AddIPKeepsSets ==
  ASSUME SetsOK, NEW ip \in Address, addIP(ip)
  PROVE  SetsOK'
  BY DEF SetsOK, addIP

LEMMA AddAppsKeepsSets ==
  ASSUME SetsOK, NEW apps \in SUBSET App, addApps(apps)
  PROVE  SetsOK'
  BY DEF SetsOK, addApps

LEMMA AddPortKeepsSets ==
  ASSUME SetsOK, NEW port \in Ports, addPort(port)
  PROVE  SetsOK'
  <1>1. IsFiniteSet(blocked_ports_ \cup {port})
    BY FS_AddElement DEF SetsOK
  <1> QED
    BY <1>1 DEF SetsOK, addPort

LEMMA AddDomainKeepsSets ==
  ASSUME SetsOK, NEW rule \in Normal, addDomain(rule)
  PROVE  SetsOK'
  <1>1. IsFiniteSet(blocked_domains_ \cup {rule})
    BY FS_AddElement DEF SetsOK
  <1>2. Append(domain_patterns_, rule) \in Seq(Normal)
    BY AppendProperties DEF SetsOK
  <1> HIDE DEF Normal
  <1>3. domain_patterns_' \in Seq(Normal)
    BY <1>2 DEF SetsOK, addDomain
  <1>4. blocked_domains_' \subseteq Normal /\ IsFiniteSet(blocked_domains_')
    BY <1>1 DEF SetsOK, addDomain
  <1> QED
    BY <1>3, <1>4 DEF SetsOK, addDomain

\* A text given to blockDomain becomes a name that normalisation leaves alone.
LEMMA NormalRule ==
  ASSUME NEW text \in DomainTexts
  PROVE  normalize(text) \in Normal
  <1>1. normalize(text) \in Seq(Char)
    BY RuleAssumption, NormalType
  <1>2. normalize(normalize(text)) = normalize(text)
    BY RuleAssumption
  <1> QED
    BY <1>1, <1>2 DEF Normal

LEMMA UpdateKeepsSets ==
  ASSUME SetsOK, RuleUpdate
  PROVE  SetsOK'
  <1>1. ASSUME NEW text \in IPTexts, blockIP(text) PROVE SetsOK'
    BY <1>1, RuleAssumption, AddressOfText, AddIPKeepsSets DEF blockIP
  <1>2. ASSUME NEW text \in IPTexts, unblockIP(text) PROVE SetsOK'
    BY <1>2 DEF unblockIP, SetsOK
  <1>3. ASSUME NEW name \in AppTexts, blockApp(name) PROVE SetsOK'
    BY <1>3, AppOfName, AddAppsKeepsSets DEF blockApp
  <1>4. ASSUME NEW name \in AppTexts, unblockApp(name) PROVE SetsOK'
    BY <1>4 DEF unblockApp, SetsOK
  <1>5. ASSUME NEW text \in DomainTexts, blockDomain(text) PROVE SetsOK'
    BY <1>5, NormalRule, AddDomainKeepsSets DEF blockDomain
  <1>6. ASSUME NEW text \in DomainTexts, unblockDomain(text) PROVE SetsOK'
    <2> DEFINE rule == normalize(text)
    <2>1. RemoveFirst(domain_patterns_, rule) \in Seq(Normal)
      BY RemoveFirstKeepsOthers DEF SetsOK
    <2>2. IsFiniteSet(blocked_domains_ \ {rule})
      BY FS_RemoveElement DEF SetsOK
    <2>3. domain_patterns_' \in Seq(Normal)
      BY <1>6, <2>1 DEF unblockDomain, SetsOK
    <2>4. blocked_domains_' \subseteq Normal /\ IsFiniteSet(blocked_domains_')
      BY <1>6, <2>2 DEF unblockDomain, SetsOK
    <2> QED
      BY <1>6, <2>3, <2>4 DEF unblockDomain, SetsOK
  <1>7. ASSUME NEW port \in Ports, blockPort(port) PROVE SetsOK'
    BY <1>7, AddPortKeepsSets DEF blockPort
  <1>8. ASSUME NEW port \in Ports, unblockPort(port) PROVE SetsOK'
    <2>1. IsFiniteSet(blocked_ports_ \ {port})
      BY FS_RemoveElement DEF SetsOK
    <2> QED
      BY <1>8, <2>1 DEF unblockPort, SetsOK
  <1> QED
    BY <1>1, <1>2, <1>3, <1>4, <1>5, <1>6, <1>7, <1>8 DEF RuleUpdate

\* So does a line of the file.
LEMMA LineKeepsSets ==
  ASSUME SetsOK, NEW l \in NormalLine, addLine(l)
  PROVE  SetsOK'
  <1>1. l.kind \in {"ip", "app", "domain", "port"} /\ l \in Line
    BY DEF NormalLine, Line
  <1>2. CASE l.kind = "ip"
    <2>1. l.text \in [1..4 -> Octet]
      BY <1>1, <1>2 DEF Line
    <2>2. addIP(parseIP(l.text))
      BY <1>2 DEF addLine
    <2> QED
      BY <2>1, <2>2, AddressOfText, AddIPKeepsSets
  <1>3. CASE l.kind = "app"
    <2>1. addApps(appOfName(l.text))
      BY <1>3 DEF addLine
    <2> QED
      BY <2>1, AppOfName, AddAppsKeepsSets
  <1>4. CASE l.kind = "domain"
    <2>1. l.text \in Normal
      BY <1>4 DEF NormalLine
    <2>2. addDomain(normalize(l.text)) /\ normalize(l.text) = l.text
      BY <1>4, <2>1 DEF addLine, Normal
    <2> QED
      BY <2>1, <2>2, AddDomainKeepsSets
  <1>5. CASE l.kind = "port"
    <2>1. l.text \in Ports
      BY <1>1, <1>5 DEF Line
    <2>2. addPort(l.text)
      BY <1>5 DEF addLine
    <2> QED
      BY <2>1, <2>2, AddPortKeepsSets
  <1> QED
    BY <1>1, <1>2, <1>3, <1>4, <1>5

-----------------------------------------------------------------------------
(* The steps of saveRules                                                    *)

LEMMA SameRules ==
  UNCHANGED sets => InForce' = InForce /\ (SetsOK => SetsOK')
  BY DEF sets, InForce, SetsOK

LEMMA SaveIPsEffect ==
  ASSUME SetsOK, saveIPs
  PROVE  file' \in Seq(NormalLine) /\ WrittenRules' = {"ip"} \X blocked_ips_
  <1>1. blocked_ips_ \subseteq Address
    BY DEF SetsOK
  <1>2. file' \in LinesOf("ip", SetToSeqs({ipToString(ip) : ip \in blocked_ips_}))
    BY DEF saveIPs
  <1>3. file' \in Seq(NormalLine) /\ RulesIn(file') = {"ip"} \X blocked_ips_
    BY <1>1, <1>2, SavedIPs
  <1> QED
    BY <1>3, WrittenAreRulesIn

\* Lines of rules are added to the file.
Writes(rules) == /\ file' \in Seq(NormalLine)
                 /\ Len(file') >= Len(file)
                 /\ WrittenRules' = WrittenRules \cup rules

LEMMA AppendEffect ==
  ASSUME FileOK, NEW lines \in Seq(NormalLine), file' = file \o lines
  PROVE  Writes(RulesIn(lines))
  <1>1. file \in Seq(NormalLine)
    BY DEF FileOK
  <1>2. file' \in Seq(NormalLine) /\ RulesIn(file') = RulesIn(file) \cup RulesIn(lines)
    BY <1>1, RulesInConcat
  <1>3. Len(file') = Len(file) + Len(lines)
    BY <1>1, ConcatProperties
  <1>4. Len(file) \in Nat /\ Len(lines) \in Nat
    BY <1>1
  <1>5. Len(file') >= Len(file)
    BY <1>3, <1>4
  <1> QED
    BY <1>2, <1>5, WrittenAreRulesIn DEF Writes

LEMMA SaveAppsEffect ==
  ASSUME SetsOK, FileOK, saveApps
  PROVE  Writes({"app"} \X blocked_apps_)
  <1>1. blocked_apps_ \subseteq App
    BY DEF SetsOK
  <1>2. PICK lines \in LinesOf("app", SetToSeqs({AppName[a] : a \in blocked_apps_})) :
               file' = file \o lines
    BY DEF saveApps
  <1>3. lines \in Seq(NormalLine) /\ RulesIn(lines) = {"app"} \X blocked_apps_
    BY <1>1, SavedApps
  <1>4. Writes(RulesIn(lines))
    BY <1>2, <1>3, AppendEffect
  <1> QED
    BY <1>3, <1>4

LEMMA SaveDomainsEffect ==
  ASSUME SetsOK, FileOK, saveDomains
  PROVE  Writes({"domain"} \X (blocked_domains_ \cup Range(domain_patterns_)))
  <1>1. /\ IsFiniteSet(blocked_domains_) /\ blocked_domains_ \subseteq Normal
        /\ domain_patterns_ \in Seq(Normal)
    BY DEF SetsOK
  <1>2. PICK lines \in LinesOf("domain", getBlockedDomains) : file' = file \o lines
    BY DEF saveDomains
  <1>3. /\ lines \in Seq(NormalLine)
        /\ RulesIn(lines) = {"domain"} \X (blocked_domains_ \cup Range(domain_patterns_))
    BY <1>1, SavedDomains
  <1>4. Writes(RulesIn(lines))
    BY <1>2, <1>3, AppendEffect
  <1> QED
    BY <1>3, <1>4

LEMMA SavePortsEffect ==
  ASSUME SetsOK, FileOK, savePorts
  PROVE  Writes({"port"} \X blocked_ports_)
  <1>1. IsFiniteSet(blocked_ports_) /\ blocked_ports_ \subseteq Ports
    BY DEF SetsOK
  <1>2. PICK lines \in LinesOf("port", SetToSeqs(blocked_ports_)) : file' = file \o lines
    BY DEF savePorts
  <1>3. lines \in Seq(NormalLine) /\ RulesIn(lines) = {"port"} \X blocked_ports_
    BY <1>1, SavedPorts
  <1>4. Writes(RulesIn(lines))
    BY <1>2, <1>3, AppendEffect
  <1> QED
    BY <1>3, <1>4

\* The rules of a kind already written were enough, and no more than the rules
\* from the start and of the other thread; so are those of one more kind.
LEMMA OneMoreKind ==
  ASSUME NEW S, NEW A, NEW R, NEW I, NEW F, NEW G, NEW D, NEW kind, NEW X,
         S \ R \subseteq I, I \subseteq S \cup A, F \subseteq S \cup A,
         \A r \in S \ R : r[1] \in D => r \in F,
         \A r \in I : r[1] = kind => r \in X, X \subseteq I,
         G = F \cup X
  PROVE  /\ \A r \in S \ R : r[1] \in D \cup {kind} => r \in G
         /\ G \subseteq S \cup A
  OBVIOUS

\* The rules in force of each kind.
LEMMA KindsInForce ==
  /\ \A r \in InForce : r[1] = "ip" => r \in {"ip"} \X blocked_ips_
  /\ \A r \in InForce : r[1] = "app" => r \in {"app"} \X blocked_apps_
  /\ \A r \in InForce : r[1] = "domain" =>
        r \in {"domain"} \X (blocked_domains_ \cup Range(domain_patterns_))
  /\ \A r \in InForce : r[1] = "port" => r \in {"port"} \X blocked_ports_
  /\ \A r \in InForce : r[1] \in {"ip", "app", "domain", "port"}
  /\ {"ip"} \X blocked_ips_ \subseteq InForce
  /\ {"app"} \X blocked_apps_ \subseteq InForce
  /\ {"domain"} \X (blocked_domains_ \cup Range(domain_patterns_)) \subseteq InForce
  /\ {"port"} \X blocked_ports_ \subseteq InForce
  BY DEF InForce

-----------------------------------------------------------------------------
(* The invariant is inductive                                                *)

LEMMA InForceTyped ==
  ASSUME SetsOK
  PROVE  InForce \subseteq Rule
  <1>1. blocked_domains_ \cup Range(domain_patterns_) \subseteq Seq(Char)
    BY SetsTyped DEF Normal
  <1> QED
    BY <1>1 DEF InForce, Rule, SetsOK

LEMMA SoundStep ==
  ASSUME Sound, [Next]_vars
  PROVE  Sound'
  <1>0. SetsOK /\ FileOK /\ HistoryOK /\ PlaceOK
    BY DEF Sound
  <1>1. Len(file) \in Nat /\ line \in 1..(Len(file) + 1) /\ file \in Seq(NormalLine)
    BY <1>0, LinesTyped DEF FileOK
  <1>c. calls < MaxCalls /\ calls' = calls + 1 => calls' \in 0..MaxCalls
    BY <1>0, RuleAssumption DEF PlaceOK
  <1>i. InForce \subseteq Rule
    BY <1>0, InForceTyped
  <1>2. CASE RuleUpdate
    <2>1. SetsOK'
      BY <1>0, <1>2, UpdateKeepsSets
    <2>2. PICK rules : Grows(rules) \/ Shrinks(rules)
      BY <1>0, <1>2, SetsTyped, UpdateEffect
    <2>3. HistoryOK'
      BY <1>0, <2>2 DEF HistoryOK, Grows, Shrinks, Adds, Removes
    <2>4. FileOK' /\ pc' = pc
      BY <1>0, <2>2 DEF FileOK, Grows, Shrinks
    <2>5. calls < MaxCalls /\ calls' = calls + 1
      BY <1>2 DEF RuleUpdate, blockIP, unblockIP, blockApp, unblockApp, blockDomain,
                  unblockDomain, blockPort, unblockPort, Update, Call
    <2> QED
      BY <1>0, <1>c, <2>1, <2>3, <2>4, <2>5 DEF Sound, PlaceOK
  <1>3. CASE saveIPs
    <2>1. SetsOK'
      BY <1>0, <1>3, SameRules DEF saveIPs
    <2>2. FileOK'
      <3>1. file' \in Seq(NormalLine) /\ line' = 1
        BY <1>0, <1>3, SaveIPsEffect DEF saveIPs
      <3>2. Len(file') \in Nat
        BY <3>1
      <3> QED
        BY <3>1, <3>2 DEF FileOK
    <2>3. HistoryOK' /\ PlaceOK'
      BY <1>3, <1>c, <1>i DEF saveIPs, Begin, Call, HistoryOK, PlaceOK
    <2> QED
      BY <2>1, <2>2, <2>3 DEF Sound
  <1>w. ASSUME NEW rules, Writes(rules), line' = line PROVE FileOK'
    <2>1. Len(file') \in Nat /\ Len(file') >= Len(file)
      BY <1>w DEF Writes
    <2> QED
      BY <1>w, <1>1, <2>1 DEF Writes, FileOK
  <1>h. ASSUME NEW from, NEW to, Continue(from, to),
               to \in {"saveDomains", "savePorts", "idle", "clearDomains", "clearPorts"}
        PROVE  HistoryOK' /\ PlaceOK'
    BY <1>0, <1>h DEF Continue, HistoryOK, PlaceOK, history
  <1>4. CASE saveApps
    BY <1>0, <1>4, <1>w, <1>h, SameRules, SaveAppsEffect DEF saveApps, Sound
  <1>5. CASE saveDomains
    BY <1>0, <1>5, <1>w, <1>h, SameRules, SaveDomainsEffect DEF saveDomains, Sound
  <1>6. CASE savePorts
    BY <1>0, <1>6, <1>w, <1>h, SameRules, SavePortsEffect DEF savePorts, Sound
  <1>7. CASE loadBegin
    <2>1. SetsOK'
      BY <1>0, <1>7, SameRules DEF loadBegin
    <2>2. FileOK'
      BY <1>1, <1>7 DEF loadBegin, FileOK
    <2>3. HistoryOK' /\ PlaceOK'
      BY <1>7, <1>c, <1>i DEF loadBegin, Begin, Call, HistoryOK, PlaceOK
    <2> QED
      BY <2>1, <2>2, <2>3 DEF Sound
  <1>8. CASE loadLine
    <2>1. SetsOK'
      <3>1. CASE Swallowed(line)
        BY <1>0, <1>8, <3>1, SameRules DEF loadLine
      <3>2. CASE ~Swallowed(line)
        <4>1. file[line] \in NormalLine /\ addLine(file[line])
          BY <1>1, <1>8, <3>2 DEF loadLine
        <4> QED
          BY <1>0, <4>1, LineKeepsSets
      <3> QED
        BY <3>1, <3>2
    <2>2. FileOK'
      BY <1>1, <1>8 DEF loadLine, FileOK
    <2>3. HistoryOK' /\ PlaceOK'
      BY <1>0, <1>8 DEF loadLine, history, HistoryOK, PlaceOK
    <2> QED
      BY <2>1, <2>2, <2>3 DEF Sound
  <1>9. CASE loadEnd
    <2>1. SetsOK'
      BY <1>0, <1>9, SameRules DEF loadEnd
    <2>2. FileOK'
      BY <1>1, <1>9 DEF loadEnd, FileOK
    <2> QED
      BY <1>9, <1>h, <2>1, <2>2 DEF Sound, loadEnd
  <1>a. CASE clearIPs
    <2>1. SetsOK'
      BY <1>0, <1>a DEF clearIPs, SetsOK
    <2>2. FileOK'
      BY <1>1, <1>a DEF clearIPs, FileOK
    <2>3. HistoryOK' /\ PlaceOK'
      BY <1>a, <1>c, <1>i DEF clearIPs, Begin, Call, HistoryOK, PlaceOK
    <2> QED
      BY <2>1, <2>2, <2>3 DEF Sound
  <1>b. CASE clearApps
    <2>1. SetsOK' /\ FileOK'
      BY <1>0, <1>b DEF clearApps, SetsOK, FileOK
    <2> QED
      BY <1>b, <1>h, <2>1 DEF Sound, clearApps
  <1>d. CASE clearDomains
    <2>1. IsFiniteSet({}) /\ <<>> \in Seq(Normal)
      BY FS_EmptySet
    <2>2. SetsOK' /\ FileOK'
      BY <1>0, <1>d, <2>1 DEF clearDomains, SetsOK, FileOK
    <2> QED
      BY <1>d, <1>h, <2>2 DEF Sound, clearDomains
  <1>e. CASE clearPorts
    <2>1. SetsOK' /\ FileOK'
      BY <1>0, <1>e, FS_EmptySet DEF clearPorts, SetsOK, FileOK
    <2> QED
      BY <1>e, <1>h, <2>1 DEF Sound, clearPorts
  <1>f. CASE UNCHANGED vars
    BY <1>0, <1>f, SameRules DEF vars, Sound, FileOK, HistoryOK, history, PlaceOK
  <1> QED
    BY <1>2, <1>3, <1>4, <1>5, <1>6, <1>7, <1>8, <1>9, <1>a, <1>b, <1>d, <1>e, <1>f
    DEF Next, Save, Load, Clear, Finished

\* Wherever saveRules is: no other call than its own changes the file.
LEMMA SaveStep ==
  ASSUME Sound, SaveInv, [Next]_vars
  PROVE  SaveInv'
  <1>0. SetsOK /\ FileOK /\ domain_patterns_ \in Seq(Seq(Char))
    BY SetsTyped DEF Sound
  <1> DEFINE Saving(p) == p \in {"saveApps", "saveDomains", "savePorts"}
  <1> SUFFICES ASSUME Saving(pc')
               PROVE  /\ start' \ removed' \subseteq InForce'
                      /\ InForce' \subseteq start' \cup added'
                      /\ \A r \in start' \ removed' : r[1] \in Done' => r \in WrittenRules'
                      /\ WrittenRules' \subseteq start' \cup added'
    BY DEF SaveInv
  <1>1. CASE RuleUpdate
    <2>1. PICK rules : Grows(rules) \/ Shrinks(rules)
      BY <1>0, <1>1, UpdateEffect
    <2>2. pc' = pc /\ pc # "idle" /\ WrittenRules' = WrittenRules /\ Done' = Done
      BY <2>1, WrittenAreRulesIn DEF Grows, Shrinks, Done
    <2>3. /\ start \ removed \subseteq InForce
          /\ InForce \subseteq start \cup added
          /\ \A r \in start \ removed : r[1] \in Done => r \in WrittenRules
          /\ WrittenRules \subseteq start \cup added
      BY <2>2 DEF SaveInv
    <2>4. CASE Grows(rules)
      <3>1. start' = start /\ removed' = removed /\ added' = added \cup rules
            /\ InForce' = InForce \cup rules
        BY <2>2, <2>4 DEF Grows, Adds
      <3> QED
        BY <2>2, <2>3, <3>1
    <2>5. CASE Shrinks(rules)
      <3>1. start' = start /\ added' = added /\ removed' = removed \cup rules
            /\ InForce \ rules \subseteq InForce' /\ InForce' \subseteq InForce
        BY <2>2, <2>5 DEF Shrinks, Removes
      <3> QED
        BY <2>2, <2>3, <3>1
    <2> QED
      BY <2>1, <2>4, <2>5
  <1>2. CASE saveIPs
    <2>1. start' = InForce /\ added' = {} /\ removed' = {} /\ Done' = {"ip"}
      BY <1>2 DEF saveIPs, Begin, Done
    <2>2. InForce' = InForce
      BY <1>2, SameRules DEF saveIPs
    <2>3. WrittenRules' = {"ip"} \X blocked_ips_
      BY <1>0, <1>2, SaveIPsEffect
    <2> QED
      BY <2>1, <2>2, <2>3, KindsInForce
  <1>3. CASE saveApps
    <2>1. /\ Done = {"ip"} /\ Done' = Done \cup {"app"}
          /\ start' = start /\ added' = added /\ removed' = removed
      BY <1>3 DEF saveApps, Continue, Done, history
    <2>2. InForce' = InForce
      BY <1>3, SameRules DEF saveApps
    <2>3. WrittenRules' = WrittenRules \cup ({"app"} \X blocked_apps_)
      BY <1>0, <1>3, SaveAppsEffect DEF Writes
    <2>4. /\ start \ removed \subseteq InForce
          /\ InForce \subseteq start \cup added
          /\ \A r \in start \ removed : r[1] \in Done => r \in WrittenRules
          /\ WrittenRules \subseteq start \cup added
      BY <1>3 DEF SaveInv, saveApps, Continue
    <2>5. /\ \A r \in start \ removed : r[1] \in Done \cup {"app"} => r \in WrittenRules'
          /\ WrittenRules' \subseteq start \cup added
      BY <2>3, <2>4, KindsInForce, OneMoreKind
    <2> QED
      BY <2>1, <2>2, <2>4, <2>5
  <1>4. CASE saveDomains
    <2>1. /\ Done = {"ip", "app"} /\ Done' = Done \cup {"domain"}
          /\ start' = start /\ added' = added /\ removed' = removed
      BY <1>4 DEF saveDomains, Continue, Done, history
    <2>2. InForce' = InForce
      BY <1>4, SameRules DEF saveDomains
    <2>3. WrittenRules' = WrittenRules \cup ({"domain"} \X (blocked_domains_ \cup Range(domain_patterns_)))
      BY <1>0, <1>4, SaveDomainsEffect DEF Writes
    <2>4. /\ start \ removed \subseteq InForce
          /\ InForce \subseteq start \cup added
          /\ \A r \in start \ removed : r[1] \in Done => r \in WrittenRules
          /\ WrittenRules \subseteq start \cup added
      BY <1>4 DEF SaveInv, saveDomains, Continue
    <2>5. /\ \A r \in start \ removed : r[1] \in Done \cup {"domain"} => r \in WrittenRules'
          /\ WrittenRules' \subseteq start \cup added
      BY <2>3, <2>4, KindsInForce, OneMoreKind
    <2> QED
      BY <2>1, <2>2, <2>4, <2>5
  <1>5. CASE savePorts \/ Load \/ Clear
    <2>1. ~Saving(pc')
      BY <1>5 DEF savePorts, Load, loadBegin, loadLine, loadEnd, Clear, clearIPs, clearApps,
                  clearDomains, clearPorts, Continue
    <2> QED
      BY <2>1
  <1>6. CASE UNCHANGED vars
    <2>1. InForce' = InForce /\ WrittenRules' = WrittenRules /\ Done' = Done
      BY <1>6, SameRules, WrittenAreRulesIn DEF vars, Done
    <2>2. start' = start /\ added' = added /\ removed' = removed /\ pc' = pc
      BY <1>6 DEF vars, history
    <2> QED
      BY <2>1, <2>2 DEF SaveInv
  <1> QED
    BY <1>1, <1>2, <1>3, <1>4, <1>5, <1>6 DEF Next, Save, Finished

\* When saveRules returns the file is faithful.
LEMMA SaveEnds ==
  ASSUME Sound, SaveInv, Next, pc = "savePorts", pc' = "idle"
  PROVE  /\ \A r \in start \ removed :
               \/ r \in FileRules'
               \/ r[1] = "domain" /\ Bracketed(start \cup added) # {}
         /\ FileRules' \subseteq start \cup added
  <1>0. SetsOK /\ FileOK /\ HistoryOK /\ domain_patterns_ \in Seq(Seq(Char))
    BY SetsTyped DEF Sound
  <1>1. ~RuleUpdate
    <2> SUFFICES ASSUME RuleUpdate PROVE FALSE
      OBVIOUS
    <2>1. PICK rules : Grows(rules) \/ Shrinks(rules)
      BY <1>0, UpdateEffect
    <2> QED
      BY <2>1 DEF Grows, Shrinks
  <1>2. savePorts
    BY <1>1 DEF Next, Save, saveIPs, saveApps, saveDomains, Load, loadBegin, loadLine, loadEnd,
                Clear, clearIPs, clearApps, clearDomains, clearPorts, Continue, Begin, Finished
  <1>3. WrittenRules' = WrittenRules \cup ({"port"} \X blocked_ports_)
    BY <1>0, <1>2, SavePortsEffect DEF Writes
  <1>4. /\ start \ removed \subseteq InForce
        /\ InForce \subseteq start \cup added
        /\ \A r \in start \ removed : r[1] \in {"ip", "app", "domain"} => r \in WrittenRules
        /\ WrittenRules \subseteq start \cup added
    BY DEF SaveInv, Done
  <1>5. /\ \A r \in start \ removed : r[1] \in {"ip", "app", "domain"} \cup {"port"} => r \in WrittenRules'
        /\ WrittenRules' \subseteq start \cup added
    BY <1>3, <1>4, KindsInForce, OneMoreKind
  <1>6. \A r \in start \ removed : r[1] \in {"ip", "app", "domain"} \cup {"port"}
    BY <1>4, KindsInForce
  <1>7. file' \in Seq(NormalLine)
    BY <1>0, <1>2, SavePortsEffect DEF Writes
  <1>8. Bracketed(WrittenRules') \subseteq Bracketed(start \cup added)
    BY <1>5 DEF Bracketed
  <1> QED
    BY <1>5, <1>6, <1>7, <1>8, OnlyDomainsSwallowed

\* Wherever loadRules is.
LEMMA LoadStep ==
  ASSUME Sound, LoadInv, [Next]_vars
  PROVE  LoadInv'
  <1>0. SetsOK /\ FileOK /\ domain_patterns_ \in Seq(Seq(Char))
    BY SetsTyped DEF Sound
  <1>n. Len(file) \in Nat /\ line \in 1..(Len(file) + 1)
    BY <1>0, LinesTyped DEF FileOK
  <1> SUFFICES ASSUME pc' = "load"
               PROVE  /\ start' \ removed' \subseteq InForce'
                      /\ InForce' \subseteq start' \cup added' \cup FileRules'
                      /\ \A i \in 1..(line' - 1) :
                            ~Swallowed(i)' => Loaded(file'[i]) \in InForce' \cup removed'
    BY DEF LoadInv, Loaded
  <1>i. pc = "load" =>
          /\ start \ removed \subseteq InForce
          /\ InForce \subseteq start \cup added \cup FileRules
          /\ \A i \in 1..(line - 1) :
                ~Swallowed(i) => Loaded(file[i]) \in InForce \cup removed
    BY DEF LoadInv
  <1>f. file' = file => FileRules' = FileRules /\ \A i : Swallowed(i)' <=> Swallowed(i)
    BY DEF FileRules, Swallowed, Loaded, IsHeader
  <1>1. CASE RuleUpdate
    <2>1. PICK rules : Grows(rules) \/ Shrinks(rules)
      BY <1>0, <1>1, UpdateEffect
    <2>2. pc = "load" /\ FileRules' = FileRules /\ file' = file /\ line' = line
      BY <2>1, <1>f DEF Grows, Shrinks
    <2>3. CASE Grows(rules)
      <3>1. start' = start /\ removed' = removed /\ added' = added \cup rules
            /\ InForce' = InForce \cup rules
        BY <2>2, <2>3 DEF Grows, Adds
      <3> QED
        BY <1>f, <1>i, <2>2, <3>1
    <2>4. CASE Shrinks(rules)
      <3>1. start' = start /\ added' = added /\ removed' = removed \cup rules
            /\ InForce \ rules \subseteq InForce' /\ InForce' \subseteq InForce
        BY <2>2, <2>4 DEF Shrinks, Removes
      <3>2. InForce \cup removed \subseteq InForce' \cup removed'
        BY <3>1
      <3> QED
        BY <1>f, <1>i, <2>2, <3>1, <3>2
    <2> QED
      BY <2>1, <2>3, <2>4
  <1>2. CASE loadBegin
    <2>1. start' = InForce /\ added' = {} /\ removed' = {} /\ line' = 1
      BY <1>2 DEF loadBegin, Begin
    <2>2. InForce' = InForce
      BY <1>2, SameRules DEF loadBegin
    <2> QED
      BY <2>1, <2>2
  <1>3. CASE loadLine
    <2> DEFINE l == file[line]
    <2>1. pc = "load" /\ line \in 1..Len(file) /\ line' = line + 1 /\ file' = file
          /\ start' = start /\ added' = added /\ removed' = removed
      BY <1>3, <1>n DEF loadLine, history
    <2>2. l \in Line /\ (l.kind = "domain" => normalize(l.text) = l.text)
      BY <1>0, <2>1, LinesTyped DEF Normal
    <2>3. FileRules' = FileRules
      BY <1>f, <2>1
    <2>4. IF Swallowed(line) THEN InForce' = InForce ELSE InForce' = InForce \cup {Loaded(l)}
      <3>1. CASE Swallowed(line)
        BY <1>3, <3>1, SameRules DEF loadLine
      <3>2. CASE ~Swallowed(line)
        <4>1. addLine(l)
          BY <1>3, <3>2 DEF loadLine
        <4> HIDE DEF l
        <4> QED
          BY <1>0, <2>2, <3>2, <4>1, AddLineEffect
      <3> QED
        BY <3>1, <3>2
    <2>5. ~Swallowed(line) => Loaded(l) \in FileRules
      <3>1. DOMAIN file = 1..Len(file)
        BY <1>0 DEF FileOK
      <3> QED
        BY <2>1, <3>1 DEF FileRules
    <2>6. ASSUME NEW i \in 1..line, ~Swallowed(i)
          PROVE  Loaded(file[i]) \in InForce' \cup removed
      <3>1. CASE i = line
        BY <2>4, <2>6, <3>1
      <3>2. CASE i # line
        <4>1. i \in 1..(line - 1)
          BY <3>2, <1>n
        <4> QED
          BY <4>1, <1>i, <2>1, <2>4, <2>6
      <3> QED
        BY <3>1, <3>2
    <2>7. line' - 1 = line
      BY <1>n, <2>1
    <2> HIDE DEF l
    <2> QED
      BY <1>f, <1>i, <2>1, <2>3, <2>4, <2>5, <2>6, <2>7
  <1>4. CASE loadEnd \/ Save \/ Clear
    <2>1. pc' # "load"
      BY <1>4 DEF loadEnd, Save, saveIPs, saveApps, saveDomains, savePorts, Clear, clearIPs,
                  clearApps, clearDomains, clearPorts, Continue
    <2> QED
      BY <2>1
  <1>5. CASE UNCHANGED vars
    <2>1. InForce' = InForce /\ FileRules' = FileRules
      BY <1>5, <1>f, SameRules DEF vars
    <2>2. /\ start' = start /\ added' = added /\ removed' = removed /\ pc' = pc
          /\ line' = line /\ file' = file
      BY <1>5 DEF vars, history
    <2> QED
      BY <1>f, <1>i, <2>1, <2>2
  <1> QED
    BY <1>1, <1>2, <1>3, <1>4, <1>5 DEF Next, Load, Finished

\* When loadRules returns the rules are those of the file and from before.
LEMMA LoadEnds ==
  ASSUME Sound, LoadInv, Next, pc = "load", pc' = "idle"
  PROVE  /\ (start \cup FileRules) \ removed \subseteq InForce'
         /\ InForce' \subseteq start \cup added \cup FileRules
  <1>0. SetsOK /\ FileOK /\ domain_patterns_ \in Seq(Seq(Char))
    BY SetsTyped DEF Sound
  <1>1. ~RuleUpdate
    <2> SUFFICES ASSUME RuleUpdate PROVE FALSE
      OBVIOUS
    <2>1. PICK rules : Grows(rules) \/ Shrinks(rules)
      BY <1>0, UpdateEffect
    <2> QED
      BY <2>1 DEF Grows, Shrinks
  <1>2. loadEnd
    BY <1>1 DEF Next, Save, saveIPs, saveApps, saveDomains, savePorts, Load, loadBegin, loadLine,
                Clear, clearIPs, clearApps, clearDomains, clearPorts, Continue, Begin, Finished
  <1>3. InForce' = InForce
    BY <1>2, SameRules DEF loadEnd
  <1>4. line = Len(file) + 1 /\ Len(file) \in Nat /\ DOMAIN file = 1..Len(file)
    BY <1>0, <1>2, LinesTyped DEF loadEnd, FileOK
  <1>5. /\ start \ removed \subseteq InForce
        /\ InForce \subseteq start \cup added \cup FileRules
        /\ \A i \in 1..(line - 1) :
              ~Swallowed(i) => Loaded(file[i]) \in InForce \cup removed
    BY DEF LoadInv
  <1>6. line - 1 = Len(file)
    BY <1>4
  <1>7. FileRules \subseteq InForce \cup removed
    BY <1>4, <1>5, <1>6 DEF FileRules
  <1> QED
    BY <1>3, <1>5, <1>7

\* Wherever clearAll is.
LEMMA ClearStep ==
  ASSUME Sound, ClearInv, [Next]_vars
  PROVE  ClearInv'
  <1>0. SetsOK /\ domain_patterns_ \in Seq(Seq(Char))
    BY SetsTyped DEF Sound
  <1> DEFINE Clearing(p) == p \in {"clearApps", "clearDomains", "clearPorts"}
  <1> SUFFICES ASSUME Clearing(pc'), NEW r \in InForce', r[1] \in Done'
               PROVE  r \in added'
    BY DEF ClearInv
  <1>i. Clearing(pc) => \A q \in InForce : q[1] \in Done => q \in added
    BY DEF ClearInv
  <1>1. CASE RuleUpdate
    <2>1. PICK rules : Grows(rules) \/ Shrinks(rules)
      BY <1>0, <1>1, UpdateEffect
    <2>2. pc' = pc /\ pc # "idle" /\ Done' = Done
      BY <2>1 DEF Grows, Shrinks, Done
    <2>3. CASE Grows(rules)
      BY <1>i, <2>2, <2>3 DEF Grows, Adds
    <2>4. CASE Shrinks(rules)
      BY <1>i, <2>2, <2>4 DEF Shrinks, Removes
    <2> QED
      BY <2>1, <2>3, <2>4
  <1>2. CASE clearIPs
    <2>1. blocked_ips_' = {} /\ Done' = {"ip"}
      BY <1>2 DEF clearIPs, Done
    <2> QED
      BY <2>1, InForceByKindNext
  <1>3. CASE clearApps
    <2>1. blocked_apps_' = {} /\ Done' = Done \cup {"app"} /\ Clearing(pc) /\ added' = added
      BY <1>3 DEF clearApps, Continue, Done, history
    <2>2. r \in InForce /\ r[1] # "app"
      BY <1>3, <2>1, InForceByKind, InForceByKindNext DEF clearApps
    <2> QED
      BY <1>i, <2>1, <2>2
  <1>4. CASE clearDomains
    <2>1. /\ Done' = Done \cup {"domain"} /\ Clearing(pc) /\ added' = added
          /\ blocked_domains_' \cup Range(domain_patterns_') = {}
      BY <1>4 DEF clearDomains, Continue, Done, history, Range
    <2>2. r \in InForce /\ r[1] # "domain"
      BY <1>4, <2>1, InForceByKind, InForceByKindNext DEF clearDomains
    <2> QED
      BY <1>i, <2>1, <2>2
  <1>5. CASE clearPorts \/ Save \/ Load
    <2>1. ~Clearing(pc')
      BY <1>5 DEF clearPorts, Load, loadBegin, loadLine, loadEnd, Save, saveIPs, saveApps,
                  saveDomains, savePorts, Continue
    <2> QED
      BY <2>1
  <1>6. CASE UNCHANGED vars
    BY <1>i, <1>6, SameRules DEF vars, Done, history
  <1> QED
    BY <1>1, <1>2, <1>3, <1>4, <1>5, <1>6 DEF Next, Clear, Finished

\* When clearAll returns nothing from before is in force.
LEMMA ClearEnds ==
  ASSUME Sound, ClearInv, Next, pc = "clearPorts", pc' = "idle"
  PROVE  InForce' \subseteq added
  <1>0. domain_patterns_ \in Seq(Seq(Char))
    BY SetsTyped DEF Sound
  <1>1. ~RuleUpdate
    <2> SUFFICES ASSUME RuleUpdate PROVE FALSE
      OBVIOUS
    <2>1. PICK rules : Grows(rules) \/ Shrinks(rules)
      BY <1>0, UpdateEffect
    <2> QED
      BY <2>1 DEF Grows, Shrinks
  <1>2. clearPorts
    BY <1>1 DEF Next, Save, saveIPs, saveApps, saveDomains, savePorts, Load, loadBegin, loadLine,
                loadEnd, Clear, clearIPs, clearApps, clearDomains, Continue, Begin, Finished
  <1>3. ASSUME NEW r \in InForce' PROVE r \in InForce /\ r[1] \in Done
    BY <1>2, InForceByKind, InForceByKindNext DEF clearPorts, Done
  <1>4. \A r \in InForce : r[1] \in Done => r \in added
    BY DEF ClearInv
  <1> QED
    BY <1>3, <1>4

-----------------------------------------------------------------------------
(* The theorems                                                              *)

LEMMA RuleInvInit ==
  Init => RuleInv
  <1> SUFFICES ASSUME Init PROVE RuleInv
    OBVIOUS
  <1>1. SetsOK
    BY FS_EmptySet DEF Init, SetsOK
  <1>2. FileOK
    BY DEF Init, FileOK
  <1>3. HistoryOK /\ PlaceOK
    BY RuleAssumption DEF Init, HistoryOK, PlaceOK
  <1>4. SaveInv /\ LoadInv /\ ClearInv
    BY DEF Init, SaveInv, LoadInv, ClearInv
  <1> QED
    BY <1>1, <1>2, <1>3, <1>4 DEF RuleInv, Sound

LEMMA RuleInvStep ==
  RuleInv /\ [Next]_vars => RuleInv'
  BY SoundStep, SaveStep, LoadStep, ClearStep DEF RuleInv

LEMMA RuleInvHolds ==
  Spec => []RuleInv
  BY RuleInvInit, RuleInvStep, PTL DEF Spec

\* The four sets of rules, the file and the history keep their types: every
\* address is the value of four octets, every line of the file can be read.
THEOREM RulesTypeCorrect ==
  Spec => []TypeOK
  <1>1. RuleInv => TypeOK
    BY SoundIsTyped DEF RuleInv
  <1> QED
    BY <1>1, RuleInvHolds, PTL

\* saveRules is no snapshot, but what it writes has, read back by loadRules, every
\* rule that was in force all the time and none that never was, whatever other
\* threads block and unblock between its sections.  If a domain rule begins with
\* a bracket, and only then, loadRules may miss domain rules, but no others.
THEOREM SavingIsFaithful ==
  Spec => SaveIsFaithful
  <1>1. RuleInv /\ [Next]_vars =>
          [pc = "savePorts" /\ pc' = "idle" =>
              /\ \A r \in start \ removed :
                    \/ r \in FileRules'
                    \/ r[1] = "domain" /\ Bracketed(start \cup added) # {}
              /\ FileRules' \subseteq start \cup added]_vars
    BY SaveEnds DEF RuleInv
  <1> QED
    BY <1>1, RuleInvHolds, PTL DEF Spec, SaveIsFaithful

\* When loadRules returns, the rules of the file and those from before are in
\* force, but for what was unblocked meanwhile, and no others.  The rules of the
\* file are those of the lines before the first domain that begins with a bracket
\* and of the sections behind the domains.
THEOREM LoadingRestores ==
  Spec => LoadRestores
  <1>1. RuleInv /\ [Next]_vars =>
          [pc = "load" /\ pc' = "idle" =>
              /\ (start \cup FileRules) \ removed \subseteq InForce'
              /\ InForce' \subseteq start \cup added \cup FileRules]_vars
    BY LoadEnds DEF RuleInv
  <1> QED
    BY <1>1, RuleInvHolds, PTL DEF Spec, LoadRestores

\* When clearAll returns, only rules blocked meanwhile are in force.
THEOREM ClearingForgets ==
  Spec => ClearForgets
  <1>1. RuleInv /\ [Next]_vars =>
          [pc = "clearPorts" /\ pc' = "idle" => InForce' \subseteq added]_vars
    BY ClearEnds DEF RuleInv
  <1> QED
    BY <1>1, RuleInvHolds, PTL DEF Spec, ClearForgets

-----------------------------------------------------------------------------
(* isDomainBlocked                                                           *)

\* The patterns, and only they, have a *.
KindsOK == /\ \A d \in blocked_domains_ : ~isWildcard(d)
           /\ \A p \in Range(domain_patterns_) : isWildcard(p)

LEMMA AddDomainKeepsKinds ==
  ASSUME KindsOK, domain_patterns_ \in Seq(Seq(Char)), NEW rule \in Seq(Char),
         addDomain(rule)
  PROVE  KindsOK'
  <1>1. CASE isWildcard(rule)
    <2>1. /\ domain_patterns_' = Append(domain_patterns_, rule)
          /\ blocked_domains_' = blocked_domains_
      BY <1>1 DEF addDomain
    <2>2. Range(domain_patterns_') = Range(domain_patterns_) \cup {rule}
      BY <2>1, RangeOfAppend
    <2> QED
      BY <1>1, <2>1, <2>2 DEF KindsOK
  <1>2. CASE ~isWildcard(rule)
    BY <1>2 DEF addDomain, KindsOK
  <1> QED
    BY <1>1, <1>2

LEMMA KindsStep ==
  ASSUME Sound, KindsOK, [Next]_vars
  PROVE  KindsOK'
  <1>1. /\ SetsOK /\ file \in Seq(NormalLine)
        /\ Len(file) \in Nat /\ line \in 1..(Len(file) + 1)
    BY LinesTyped DEF Sound, FileOK
  <1>2. domain_patterns_ \in Seq(Seq(Char))
    BY <1>1, SetsTyped
  <1>u. ASSUME UNCHANGED <<blocked_domains_, domain_patterns_>> PROVE KindsOK'
    BY <1>u DEF KindsOK
  <1>3. CASE RuleUpdate
    <2>1. ASSUME NEW text \in IPTexts, blockIP(text) \/ unblockIP(text) PROVE KindsOK'
      BY <2>1, <1>u DEF blockIP, unblockIP, addIP
    <2>2. ASSUME NEW name \in AppTexts, blockApp(name) \/ unblockApp(name) PROVE KindsOK'
      BY <2>2, <1>u DEF blockApp, unblockApp, addApps
    <2>3. ASSUME NEW text \in DomainTexts, blockDomain(text) PROVE KindsOK'
      <3>1. normalize(text) \in Seq(Char) /\ addDomain(normalize(text))
        BY <2>3, NormalRule DEF blockDomain, Normal
      <3> QED
        BY <3>1, <1>2, AddDomainKeepsKinds
    <2>4. ASSUME NEW text \in DomainTexts, unblockDomain(text) PROVE KindsOK'
      <3> DEFINE rule == normalize(text)
      <3>1. Range(RemoveFirst(domain_patterns_, rule)) \subseteq Range(domain_patterns_)
        BY <1>2, RemoveFirstKeepsOthers
      <3>2. /\ blocked_domains_' \subseteq blocked_domains_
            /\ Range(domain_patterns_') \subseteq Range(domain_patterns_)
        BY <2>4, <3>1 DEF unblockDomain
      <3> QED
        BY <3>2 DEF KindsOK
    <2>5. ASSUME NEW port \in Ports, blockPort(port) \/ unblockPort(port) PROVE KindsOK'
      BY <2>5, <1>u DEF blockPort, unblockPort, addPort
    <2> QED
      BY <1>3, <2>1, <2>2, <2>3, <2>4, <2>5 DEF RuleUpdate
  <1>4. CASE Save
    BY <1>4, <1>u DEF Save, saveIPs, saveApps, saveDomains, savePorts, sets
  <1>5. CASE loadBegin \/ loadEnd
    BY <1>5, <1>u DEF loadBegin, loadEnd, sets
  <1>6. CASE loadLine
    <2> DEFINE l == file[line]
    <2>1. CASE Swallowed(line)
      BY <1>6, <1>u, <2>1 DEF loadLine, sets
    <2>2. CASE ~Swallowed(line)
      <3>1. l \in NormalLine /\ addLine(l)
        BY <1>1, <1>6, <2>2 DEF loadLine
      <3> HIDE DEF l
      <3>2. l.kind \in {"ip", "app", "domain", "port"}
        BY <3>1 DEF NormalLine, Line
      <3>3. CASE l.kind = "domain"
        <4>1. l.text \in Seq(Char) /\ addDomain(l.text)
          BY <3>1, <3>3 DEF addLine, NormalLine, Normal
        <4> QED
          BY <4>1, <1>2, AddDomainKeepsKinds
      <3>4. CASE l.kind # "domain"
        BY <3>1, <3>2, <3>4, <1>u DEF addLine, addIP, addApps, addPort
      <3> QED
        BY <3>3, <3>4
    <2> QED
      BY <2>1, <2>2
  <1>7. CASE clearIPs \/ clearApps \/ clearPorts
    BY <1>7, <1>u DEF clearIPs, clearApps, clearPorts
  <1>8. CASE clearDomains
    <2>1. blocked_domains_' = {} /\ domain_patterns_' = <<>>
      BY <1>8 DEF clearDomains
    <2>2. Range(<<>>) = {}
      BY DEF Range
    <2> QED
      BY <2>1, <2>2 DEF KindsOK
  <1>9. CASE UNCHANGED vars
    BY <1>9, <1>u DEF vars, sets
  <1> QED
    BY <1>3, <1>4, <1>5, <1>6, <1>7, <1>8, <1>9 DEF Next, Load, Clear, Finished

LEMMA KindsHold ==
  Spec => []KindsOK
  <1>1. Init => KindsOK
    <2>1. Range(<<>>) = {}
      BY DEF Range
    <2> QED
      BY <2>1 DEF Init, KindsOK
  <1>2. RuleInv /\ KindsOK /\ [Next]_vars => KindsOK'
    BY KindsStep DEF RuleInv
  <1> QED
    BY <1>1, <1>2, RuleInvHolds, PTL DEF Spec

\* Whatever rules come and go: a well-formed name is blocked exactly when a rule
\* in force has its last labels, in whatever case and with or without a final
\* dot, and never because of the characters before a label's end.
THEOREM NamesMatchByLabels ==
  Spec => []MatchesByLabels
  <1>1. Sound /\ KindsOK => MatchesByLabels
    <2> SUFFICES ASSUME Sound, KindsOK PROVE MatchesByLabels
      OBVIOUS
    <2> DEFINE exact == blocked_domains_
               patterns == Range(domain_patterns_)
    <2>1. exact \subseteq Normal /\ patterns \subseteq Normal
      BY SetsTyped DEF Sound, SetsOK
    <2>2. (\A d \in exact : ~isWildcard(d)) /\ (\A p \in patterns : isWildcard(p))
      BY DEF KindsOK
    <2>3. ASSUME NEW n \in LabelledNames
          PROVE  isDomainBlocked(n[1]) <=>
                    \E rule \in {Labels(lowered(d)) : d \in exact \cup patterns} :
                       Covers(rule, n[2])
      <3>1. PICK name \in Names : n = <<name, LabelsOfName(name)>> /\ WellFormed(n[2])
        BY DEF LabelledNames
      <3>2. name \in Seq(Char) /\ n[1] = name /\ n[2] = LabelsOfName(name)
        BY <3>1, RuleAssumption
      <3>3. WellFormed(LabelsOfName(name))
        BY <3>1, <3>2
      <3>4. matches(name, exact, patterns) <=>
               \E rule \in {Labels(lowered(d)) : d \in exact \cup patterns} :
                  Covers(rule, LabelsOfName(name))
        BY <2>1, <2>2, <3>2, <3>3, MatchesLabels
      <3> QED
        BY <3>2, <3>4 DEF isDomainBlocked
    <2> QED
      BY <2>3 DEF MatchesByLabels
  <1>2. RuleInv => Sound
    BY DEF RuleInv
  <1> QED
    BY <1>1, <1>2, RuleInvHolds, KindsHold, PTL
=============================================================================
