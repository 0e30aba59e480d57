--------------------------- MODULE MCAzureBackend ---------------------------
EXTENDS AzureBackend, TLC

Lengths == ("small" :> 5) @@ ("medium" :> 7) @@ ("large" :> 9)
           @@ ("smallSealed" :> 4) @@ ("sealed" :> 6)

ClientLists == {<<1>>, <<2, 1>>}

Symmetric == Permutations(Request) \cup Permutations(Upload)

=============================================================================
