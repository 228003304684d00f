--------------------------------- MODULE Shop ---------------------------------
(***************************************************************************)
(* The catalogue with its prices: the base price of a product, the price   *)
(* of a variant that overrides it, and the prices agreed with a client.    *)
(* Two services compute the price of a variant for a client: the quotation *)
(* of ClientsService and the lines of a sales order.                       *)
(***************************************************************************)
EXTENDS Catalogue

CONSTANTS Variant, Price, NoPrice

ASSUME PriceAssumption == NoPrice \notin Price /\ None \notin Variant

VARIABLES
    clientType,     \* B2B or B2C
    base,           \* basePrice of each product
    variant,        \* rows: state, product, priceOverride
    agreed          \* ClientVariantPrice: by client and variant

priceVars == <<clientType, base, variant, agreed>>
shopVars == <<catalogueVars, priceVars>>

Type == {"B2B", "B2C"}
VariantRow == [state : {"none", "present", "gone"}, product : Product \cup {None},
               override : Price \cup {NoPrice}]
NoVariant(state) == [state |-> state, product |-> None, override |-> NoPrice]

ShopInit ==
    /\ CatalogueInit
    /\ clientType \in [Client -> Type]
    /\ base \in {[p \in Product |-> b] : b \in Price}
    /\ variant = [v \in Variant |-> NoVariant("none")]
    /\ agreed = [cv \in Client \X Variant |-> NoPrice]

VariantPresent(v) == variant[v].state = "present"

-----------------------------------------------------------------------------
(* Edits of prices *)

\* PATCH of a product with a base price.
EditBase(p, b) ==
    /\ Present(p)
    /\ base' = [base EXCEPT ![p] = b]
    /\ UNCHANGED <<clientType, variant, agreed>>

\* PATCH of a product with variants: the old ones are deleted, and what was agreed
\* for them with them.
ReplaceVariants(p, v, o) ==
    /\ Present(p)
    /\ variant[v].state = "none"
    /\ variant' = [w \in Variant |->
          IF w = v THEN [state |-> "present", product |-> p, override |-> o]
          ELSE IF variant[w].product = p THEN NoVariant("gone")
          ELSE variant[w]]
    /\ agreed' = [cv \in Client \X Variant |->
          IF variant[cv[2]].product = p THEN NoPrice ELSE agreed[cv]]
    /\ UNCHANGED <<clientType, base>>

EditClient(cl, type) ==
    /\ clientType' = [clientType EXCEPT ![cl] = type]
    /\ UNCHANGED <<base, variant, agreed>>

\* The type and the variant are read outside the transaction; a type that changes
\* in between leaves what a change right after the upsert leaves.
UpsertAgreement(cl, v, price) ==
    /\ clientType[cl] = "B2B"
    /\ VariantPresent(v)
    /\ agreed' = [agreed EXCEPT ![<<cl, v>>] = price]
    /\ UNCHANGED <<clientType, base, variant>>

RemoveAgreement(cl, v) ==
    /\ agreed[<<cl, v>>] # NoPrice
    /\ agreed' = [agreed EXCEPT ![<<cl, v>>] = NoPrice]
    /\ UNCHANGED <<clientType, base, variant>>

PriceEdit ==
    \/ \E p \in Product, b \in Price : EditBase(p, b)
    \/ \E p \in Product, v \in Variant, o \in Price \cup {NoPrice} : ReplaceVariants(p, v, o)
    \/ \E cl \in Client, type \in Type : EditClient(cl, type)
    \/ \E cl \in Client, v \in Variant : RemoveAgreement(cl, v)
    \/ \E cl \in Client, v \in Variant, price \in Price : UpsertAgreement(cl, v, price)

\* A product leaves with its variants only when it has none.
Unvaried == \A v \in Variant : VariantPresent(v) => product'[variant[v].product].state = "present"

ShopNext ==
    \/ CatalogueNext /\ Unvaried /\ UNCHANGED priceVars
    \/ PriceEdit /\ Single /\ UNCHANGED <<category, locked, product, share, typed, drawn, peak>>

ShopSpec == ShopInit /\ [][ShopNext]_shopVars

-----------------------------------------------------------------------------
(* Prices *)

\* Mutant: the override of a variant is forgotten.
BasePrice(v) == base[variant[v].product]

CatalogPrice(v) ==
    IF variant[v].override # NoPrice THEN variant[v].override ELSE base[variant[v].product]

\* ClientsService.resolvePrice: source and price.
Quote(cl, v) ==
    CASE clientType[cl] = "B2C" -> <<"CATALOG", CatalogPrice(v)>>
      [] clientType[cl] = "B2B" /\ agreed[<<cl, v>>] # NoPrice -> <<"AGREEMENT", agreed[<<cl, v>>]>>
      [] OTHER -> <<"MANUAL_REQUIRED", NoPrice>>

\* SalesOrdersService: whether a line may name the product.
Usable(p, cl) == Present(p) /\ product[p].owner \in {Company, cl}

\* resolveCatalogPrice, of a variant or of a product; NoPrice when it throws.
LineCatalogPrice(p, v) ==
    CASE v # None /\ p \in {None, variant[v].product} ->
            IF variant[v].override # NoPrice THEN variant[v].override
            ELSE base[variant[v].product]
      [] v = None /\ p # None /\ Present(p) -> base[p]
      [] OTHER -> NoPrice

\* resolveOrderItemPrice: a price given by hand, the catalogue's for B2C, what was
\* agreed for B2B; NoPrice when the order is refused.
LinePrice(cl, type, p, v, manual) ==
    CASE manual # NoPrice -> manual
      [] manual = NoPrice /\ type = "B2C" -> LineCatalogPrice(p, v)
      [] manual = NoPrice /\ type = "B2B" /\ v # None -> agreed[<<cl, v>>]
      [] OTHER -> NoPrice

\* prepareOrderItems: the line of a product the client may order, and its price.
OrderLine(cl, type, p, v, manual) ==
    IF p # None /\ ~Usable(p, cl) THEN NoPrice ELSE LinePrice(cl, type, p, v, manual)

-----------------------------------------------------------------------------
(* Properties *)

\* Rows and memories have their types.
ShopTypeOK ==
    /\ CatalogueTypeOK
    /\ clientType \in [Client -> Type]
    /\ base \in [Product -> Price]
    /\ variant \in [Variant -> VariantRow]
    /\ agreed \in [Client \X Variant -> Price \cup {NoPrice}]

\* For a product a client may order, the quotation shown to the client and the line
\* of an order of the client's own type give one price, or both ask for a price by
\* hand, whatever was agreed before the type of the client or the variants changed.
QuoteAgreesWithOrder ==
    \A cl \in Client, v \in Variant :
        VariantPresent(v) /\ Usable(variant[v].product, cl) =>
            OrderLine(cl, clientType[cl], variant[v].product, v, NoPrice) = Quote(cl, v)[2]
===============================================================================
