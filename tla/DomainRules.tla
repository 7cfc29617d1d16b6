----------------------------- MODULE DomainRules -----------------------------
(***************************************************************************)
(* How RuleManager (src/rule_manager.cpp) normalises names and matches them *)
(* with rules.  The property is about the text, so a name is a sequence of  *)
(* characters here.                                                         *)
(***************************************************************************)
EXTENDS Naturals, SequencesExt

CONSTANTS Char,   \* the characters of names
          Lower   \* std::tolower

Dot == "."
Star == "*"

ASSUME CharAssumption ==
    /\ {Dot, Star} \subseteq Char
    /\ Lower \in [Char -> Char]
    /\ \A c \in Char : /\ Lower[Lower[c]] = Lower[c]
                       /\ Lower[c] = Dot <=> c = Dot
                       /\ Lower[c] = Star <=> c = Star

lowered(text) == [i \in DOMAIN text |-> Lower[text[i]]]

\* Lower case, without the final dot of a fully qualified name.
normalize(text) ==
    LET low == lowered(text)
    IN  IF low # <<>> /\ Last(low) = Dot THEN Front(low) ELSE low

isWildcard(rule) == Star \in Range(rule)

\* std::string::compare with the end of the name.
EndsWith(name, s) ==
    /\ Len(name) >= Len(s)
    /\ SubSeq(name, Len(name) - Len(s) + 1, Len(name)) = s

\* Variant: the end of the name is compared, not what stands before it.
isSubdomainOfText(name, entry) == Len(name) > Len(entry) /\ EndsWith(name, entry)

\* The second test of isDomainBlocked.
isSubdomainOf(name, entry) ==
    /\ Len(name) > Len(entry) + 1
    /\ name[Len(name) - Len(entry)] = Dot
    /\ EndsWith(name, entry)

domainMatchesPattern(name, pattern) ==
    /\ Len(pattern) >= 2
    /\ pattern[1] = Star /\ pattern[2] = Dot
    /\ \/ EndsWith(name, Tail(pattern))
       \/ name = Tail(Tail(pattern))

\* isDomainBlocked, with the exact rules and the patterns.
matches(name, exact, patterns) ==
    LET low == normalize(name)
    IN  /\ name # <<>>
        /\ \/ low \in exact
           \/ \E entry \in exact : isSubdomainOf(low, entry)
           \/ \E p \in patterns : domainMatchesPattern(low, lowered(p))

-----------------------------------------------------------------------------
(* The reference: names and rules are sequences of labels                    *)

\* The stretches between the dots, the k-th one up to the k-th end.
Labels(text) ==
    LET ends == {i \in DOMAIN text : text[i] = Dot} \cup {0, Len(text) + 1}
        End(k) == CHOOSE e \in ends : Cardinality({d \in ends : d < e}) = k
    IN  [k \in 1..(Cardinality(ends) - 1) |-> SubSeq(text, End(k - 1) + 1, End(k) - 1)]

\* The labels of a name, whatever its case, without the empty one that a final
\* dot makes.
LabelsOfName(text) ==
    LET labels == Labels(lowered(text))
    IN  IF Len(labels) > 1 /\ Last(labels) = <<>> THEN Front(labels) ELSE labels

\* A rule covers a name that ends with its labels.  A first label * does not
\* count; a * anywhere else stands for nothing, and the rule covers no name.
Covers(rule, name) ==
    IF Len(rule) > 1 /\ rule[1] = <<Star>>
    THEN IsSuffix(Tail(rule), name)
    ELSE /\ \A i \in DOMAIN rule : Star \notin Range(rule[i])
         /\ IsSuffix(rule, name)

\* A name as the DNS has it, but for the case and a final dot.
WellFormed(labels) == \A i \in DOMAIN labels : labels[i] # <<>>
=============================================================================
