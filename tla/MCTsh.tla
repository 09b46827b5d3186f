-------------------------------- MODULE MCTsh --------------------------------
(* Instances of Tsh for TLC. *)
EXTENDS TshProps, TLC

\* Garbage in sigchld_handler's sigset that matters: with and without SIGCHLD.
GarbageMasks == {{}, {"CHLD"}}
AllGarbage == {{}, {"CHLD"}, {"INT", "TSTP"}}
PIDSymmetry == Permutations(PID)
NoGarbage == {{}}
=============================================================================
