-------------------------------- MODULE MCCsim --------------------------------
(* An instance of Csim for TLC. *)
EXTENDS CsimProps

\* Four blocks of set 0 and two of set 1, one address off a block's start
SmallAddresses == {0, 1, 4, 8, 12} \cup {2, 7}
=============================================================================
