------------------------------ MODULE MCStore ------------------------------
(* Small instance of Store for TLC.                                        *)
EXTENDS Store, TLC

MCSha256 == [m \in Message |-> <<"sha256", m>>]

Symmetric == Permutations(Key) \cup Permutations(Message)
=============================================================================
