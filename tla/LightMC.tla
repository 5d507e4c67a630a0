------------------------------ MODULE LightMC ------------------------------
(* Small instances of LightPipeline for TLC. *)
EXTENDS LightRefinement, TLC

\* One sku, always listed; a failed fetch stands for the empty list.
OnePrice == [SKUS -> PRICES]

\* Every list of skus, the empty one included.
AnyPrices == UNION {[S -> PRICES] : S \in SUBSET SKUS}

\* The catalog's skus, or every sku: one the catalog does not know among them.
WithUnknownSku ==
    [Catalog -> PRICES] \cup {[i \in SKUS |-> p] : p \in PRICES \ {0}}

AnyRates == [QUOTE_CURRENCIES -> RATES]

Symmetry == Permutations(Runs)

=============================================================================
