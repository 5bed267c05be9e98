---------------------------- MODULE MCToolsHost ----------------------------
EXTENDS ToolsHost

CONSTANTS clicker, autopot, timer, keychain
NoOthers == <<>>
KeyChainOnly == <<keychain>>
AutoPotOnly == <<autopot>>
TimerOnly == <<timer>>
TimerAndKeyChain == <<timer, keychain>>

\* What OneOfAKind would be if no run were loose; two Stops and a Start break it.
OneAlive == \A t \in Tools : \A i, j \in Ids : Alive(t, i) /\ Alive(t, j) => i = j
=============================================================================
