--------------------------- MODULE MCTokenization ---------------------------
(***************************************************************************)
(* Small instances of Tokenization: values for the constants of its runs.  *)
(***************************************************************************)
EXTENDS Tokenization, TLC

CONSTANTS Issuer1, Holder

OneName == {<<65>>}
OneDescription == {<<1>>}
OneLayout == {<<0>>}
OneField == {[count |-> 1, bytes |-> 5]}
OneDatum == {<<7>>}
OneList == {<<Issuer1>>}

(* Nonces only tell attestations apart.                                    *)
NonceSymmetry == Permutations(Nonce)

=============================================================================
