------------------------------- MODULE Catalog -------------------------------
(***************************************************************************)
(* The catalogue of products and stores: mock_woocommerce/data.py, which   *)
(* the mock store lists and the seeder inserts, each from the image it was *)
(* built into, and the tables app.products and app.stores, which an        *)
(* operator edits, the raw tables refer to and the heavy flow reads.       *)
(***************************************************************************)
EXTENDS Integers

CONSTANTS STORES,       \* data.STORES, which no release changes
          SKUS, USD,    \* the skus and the prices there may be
          RELEASES,     \* what data.PRODUCTS may say: sku -> USD
          MaxEdits      \* bounds the operator's edits

PriceList == UNION {[S -> USD] : S \in SUBSET SKUS}

ASSUME CatalogConstants ==
    /\ USD \subseteq Nat
    /\ RELEASES \subseteq PriceList
    /\ MaxEdits \in Nat

VARIABLES data_products,     \* data.PRODUCTS of the seeder: sku -> canonical_price_usd
          mock_products,     \* and of the mock's image
          products, stores,  \* the tables, by primary key
          edits

catalog == <<data_products, mock_products, products, stores, edits>>

ProductRow == [canonical_price_usd : USD, is_active : BOOLEAN]

\* The tables as the migration leaves them, both images built from one checkout.
CatalogInit ==
    /\ data_products \in RELEASES /\ mock_products = data_products
    /\ products = [p \in {} |-> 0]
    /\ stores = [s \in {} |-> TRUE]
    /\ edits = 0

\* A faulty seeder: nothing once the table has rows.
InsertIfEmpty(table, rows) == IF DOMAIN table = {} THEN rows ELSE table

\* INSERT ... ON CONFLICT DO NOTHING
InsertNew(table, rows) ==
    [k \in DOMAIN table \cup DOMAIN rows |->
        IF k \in DOMAIN table THEN table[k] ELSE rows[k]]

\* seed(): the rows of both tables in one transaction.
Seed ==
    /\ products' = InsertNew(products,
          [p \in DOMAIN data_products |->
              [canonical_price_usd |-> data_products[p], is_active |-> TRUE]])
    /\ stores' = InsertNew(stores, [s \in STORES |-> TRUE])
    /\ UNCHANGED <<data_products, mock_products, edits>>

\* One of the two images is built anew, from a checkout with another data.py.
Release ==
    /\ \/ data_products' \in RELEASES \ {data_products} /\ UNCHANGED mock_products
       \/ mock_products' \in RELEASES \ {mock_products} /\ UNCHANGED data_products
    /\ UNCHANGED <<products, stores, edits>>

\* An operator updates a price, or takes a product or a store in or out.
EditCatalog ==
    /\ edits < MaxEdits /\ edits' = edits + 1
    /\ \/ \E p \in DOMAIN products, row \in ProductRow :
             /\ row # products[p]
             /\ products' = [products EXCEPT ![p] = row]
             /\ UNCHANGED stores
       \/ \E s \in DOMAIN stores :
             /\ stores' = [stores EXCEPT ![s] = ~stores[s]]
             /\ UNCHANGED products
    /\ UNCHANGED <<data_products, mock_products>>

\* What the heavy flow reads: the rows with is_active = true.
ActiveProducts ==
    [p \in {q \in DOMAIN products : products[q].is_active} |->
        products[p].canonical_price_usd]
ActiveStores == {s \in DOMAIN stores : stores[s]}

\* The foreign keys of the raw tables admit all that list_products answers.
Accepted ==
    /\ DOMAIN mock_products \subseteq DOMAIN products
    /\ STORES \subseteq DOMAIN stores

CatalogTypeOK ==
    /\ data_products \in PriceList /\ mock_products \in PriceList
    /\ products \in UNION {[S -> ProductRow] : S \in SUBSET SKUS}
    /\ stores \in UNION {[S -> BOOLEAN] : S \in SUBSET STORES}
    /\ edits \in 0..MaxEdits

=============================================================================
