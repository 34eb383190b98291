----------------------------- MODULE MCSwapSync -----------------------------
(* Small instances of SwapSync: each swap is named by its direction.       *)
EXTENDS SwapSync

MCDirection ==
  [s \in Swaps |->
     CASE s = "lightning" -> LightningToStarknet
       [] s = "bitcoin"   -> BitcoinToStarknet
       [] s = "reverse"   -> StarknetToBitcoin]
=============================================================================
