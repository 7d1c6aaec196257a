------------------------------ MODULE MCCryptoPing ------------------------------
(* Instances of CryptoPing for TLC. *)
EXTENDS CryptoPing
=============================================================================
