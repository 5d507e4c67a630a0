------------------------------ MODULE HeavyMC ------------------------------
(* Small instances of HeavyPipeline for TLC. *)
EXTENDS HeavyPipeline, TLC

\* Every store quotes in the one currency of the instance.
OneCurrency == [s \in STORES |-> CHOOSE c \in CURRENCIES : TRUE]

\* One release: everything costs the least there is but 0.
OnePrice == {[p \in SKUS |-> Min(USD \ {0})]}

\* A release with one of the products, at 100 USD, and one with all, at 110.
TwoReleases ==
    {[p \in {CHOOSE q \in SKUS : TRUE} |-> 100], [p \in SKUS |-> 110]}

Symmetry == Permutations(Runs)

=============================================================================
