-------------------------------- MODULE Y64Tools --------------------------------
(***************************************************************************)
(* The tools of lab4 and lab5 together, as their Makefiles call them: the  *)
(* assembler makes a .bin file of a source file, and the simulator runs    *)
(* whatever .bin file is there.                                            *)
(***************************************************************************)
EXTENDS Y64Asm, Y64Sim

vars == <<asmvars, simvars>>

Init == AsmInit /\ SimInit

Assemble == AsmNext /\ UNCHANGED simvars

\* make runs y64sim once y64asm is over; an assembler that failed half way
\* leaves its .bin file, which the next make takes for a good one.
Simulate ==
  /\ phase \in {"done", "failed"} /\ file # NoFile
  /\ Load(file) \/ nexti \/ Report
  /\ UNCHANGED asmvars

Next == Assemble \/ Simulate

\* Two programs without a wait: the operating system lets them go on.
Spec == Init /\ [][Next]_vars /\ WF_vars(Next)

TypeOK == AsmTypeOK /\ SimTypeOK
=============================================================================
