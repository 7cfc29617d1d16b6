---------------------------- MODULE MCRuleManager ----------------------------
(***************************************************************************)
(* An instance of RuleManager for TLC: octets of one bit, one rule of each  *)
(* kind but domains, of which there are an exact one in mixed case with a   *)
(* final dot, a wildcard for one of its parents, a pattern whose * is not   *)
(* in front and matches nothing, and a text that begins with a bracket.     *)
(***************************************************************************)
EXTENDS RuleManager

MCChar == {"a", "A", ".", "*", "["}

MCLower == [c \in MCChar |-> IF c = "A" THEN "a" ELSE c]

MCIPTexts == {<<1, 0, 1, 0>>}

MCAppName == <<"Unknown", "TLS">>

MCAppTexts == {"TLS", "none"}

MCDomainTexts ==
    {<<"A", ".", "a", ".">>, <<"*", ".", "a">>, <<"[", "a">>, <<"a", ".", "*">>}

MCNames == UNION {[1..n -> {"a", "A", "."}] : n \in 0..5}
           \cup UNION {[1..n -> MCChar \ {"A"}] : n \in 1..3}
=============================================================================
