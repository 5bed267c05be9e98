----------------------------- MODULE MCKeyChain -----------------------------
EXTENDS KeyChain, TLC

CONSTANTS b1, b2, h1, h2, h3, virtual, keyA, keyEnd

TwoBoards == (h1 :> b1) @@ (h2 :> b1) @@ (h3 :> b2) @@ (virtual :> Ignored)
Siblings == Permutations({h1, h2})
Rebound == {<<<<keyA, keyA>>>>, <<<<>>, <<keyEnd, keyA>>>>}
NoChains == {<<>>}
=============================================================================
