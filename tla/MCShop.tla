-------------------------------- MODULE MCShop --------------------------------
EXTENDS Shop, TLC

Symmetry == Permutations(Product) \cup Permutations(Category) \cup Permutations(Share)
                \cup Permutations(Call) \cup Permutations(Variant) \cup Permutations(Prefix)
===============================================================================
