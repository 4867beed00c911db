------------------------ MODULE MCTransactionRunner ------------------------
(* TransactionRunner for TLC; liveness is checked, so without symmetry.    *)
EXTENDS TransactionInvariant
=============================================================================
