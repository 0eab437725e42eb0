------------------------------ MODULE MCOooCore ------------------------------
(* The instructions the traces of the core's runs are made of: producers and  *)
(* consumers of two registers on every kind of unit, memory operations on one *)
(* and the same block and on another, a store that also writes a register     *)
(* (the x86 push of core.cpp:273-282) and a branch that may be mispredicted.  *)
EXTENDS OooCore

Inst(op, dest, src1, src2, block) ==
    [op |-> op, dest |-> dest, src |-> <<src1, src2>>, block |-> block]

MCInsts == {Inst("Alu", 1, 1, 2, NoBlock), Inst("Mul", 2, 1, NoReg, NoBlock),
            Inst("Load", 1, NoReg, 2, 1), Inst("Load", 2, NoReg, NoReg, 2),
            Inst("Store", 2, 2, 1, 1), Inst("Branch", NoReg, 1, NoReg, NoBlock)}
=============================================================================
