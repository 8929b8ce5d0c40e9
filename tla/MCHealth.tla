------------------------------ MODULE MCHealth ------------------------------
(* One task, and a prefix of four bytes. *)
EXTENDS Health, TLC

FourBytes == <<7, 7, 7, 7>>
OneTask == <<[name |-> <<65>>, hwm |-> <<8>>, stack |-> <<9>>]>>
OneByte == {0}
=============================================================================
