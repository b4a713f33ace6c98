----------------------------- MODULE MCRuleBook -----------------------------
(***************************************************************************)
(* Small instances of RuleBook for TLC.                                    *)
(***************************************************************************)
EXTENDS RuleBook, FiniteSets, TLC

\* A file without rules, files with one enabled rule, and the file with a rule of
\* each name that is disabled and has no secret.
MCFiles ==
    {f \in ImportFiles :
        \/ Cardinality(DOMAIN f) \in {0, 1} /\ \A n \in DOMAIN f : f[n].enabled
        \/ DOMAIN f = Names /\ \A n \in Names : ~ f[n].enabled /\ f[n].secret = NoSecret}

Symmetry ==
    Permutations(Requests) \cup Permutations(Names) \cup Permutations(Secrets)
        \cup Permutations(Deliveries)
=============================================================================
