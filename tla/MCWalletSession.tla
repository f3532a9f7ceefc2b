-------------------------- MODULE MCWalletSession --------------------------
(* WalletSession for TLC: symmetry over wallet addresses, and a bound that    *)
(* tells apart whether the page takes part.                                 *)
EXTENDS WalletSession, TLC

CONSTANT PageBound   \* bound: events and challenges once the page takes part

(* As long as the page does nothing, other clients, the clock and restarts may *)
(* fill several windows of the rate limit.                                    *)
OthersOnly == page'.status = "detecting" /\ wallet' = wallet

Bounded == happened' + issued' <= PageBound \/ OthersOnly

Symmetry == Permutations(Wallets)
=============================================================================
