----------------------------- MODULE MCMachine ------------------------------
(***************************************************************************)
(* Small programs to execute: two instructions after each other, choices   *)
(* and moves under every condition, loops, and calls with and without a    *)
(* stack frame.                                                            *)
(***************************************************************************)
EXTENDS Machine, Bitwise

Base == 10          \* address of .text; instructions have two bytes

At(k) == Imm(Base + 2 * (k - 1))      \* the address of the k-th instruction

Unit(mnemonic, op_str) ==
  [ byte0    |-> IF mnemonic = "push" /\ op_str = << Reg("rbp") >> THEN 85 ELSE 0,
    mnemonic |-> mnemonic, op_str |-> op_str ]

rax == Reg("rax")
rbx == Reg("rbx")
rsp == Reg("rsp")
rbp == Reg("rbp")

\* Places in the frame, and places that other instructions write.
Local == Mem("rbp", NoReg, 1, -8)
StackTop == Mem("rsp", NoReg, 1, 0)
Indexed == Mem("rbp", "rbx", 2, -8)

Ret == Unit("ret", << >>)
Nop == Unit("nop", << >>)
CallOf(k) == Unit("call", << At(k) >>)
Enter == << Unit("push", << rbp >>), Unit("mov", << rbp, rsp >>) >>
Exit2 == << Unit("leave", << >>), Ret >>

Carried ==
  { Nop,
    Unit("mov", << rax, rbx >>),        Unit("mov", << rax, Local >>),
    Unit("mov", << Local, rax >>),      Unit("mov", << StackTop, Imm(5) >>),
    Unit("mov", << rax, Indexed >>),    Unit("lea", << rbx, Indexed >>),
    Unit("mov", << rax, Mem("rax", NoReg, 1, 4) >>), Unit("mov", << rax, Imm(32) >>),
    Unit("add", << rax, rbx >>),        Unit("sub", << rbx, rax >>),
    Unit("imul", << rax, rbx, Imm(3) >>), Unit("and", << rax, Imm(6) >>),
    Unit("or", << rax, Local >>),       Unit("xor", << rbx, rbx >>),
    Unit("shl", << rax, Imm(1) >>),     Unit("shr", << rax, Imm(2) >>),
    Unit("neg", << rax >>),             Unit("not", << rbx >>),
    Unit("inc", << rax >>),             Unit("push", << rax >>),
    Unit("push", << Local >>),          Unit("pop", << rbx >>),
    Unit("sub", << rsp, Imm(8) >>) }

NotCarried ==
  { Unit("add", << Local, rax >>),      Unit("pop", << Local >>),
    Unit("dec", << StackTop >>),        Unit("lea", << rax, Mem("rip", NoReg, 1, 8) >>),
    Unit("push", << rsp >>),            Unit("push", << StackTop >>),
    Unit("pop", << rsp >>),
    Unit("sar", << rax, Imm(1) >>),     Unit("mul", << rbx >>),
    Unit("imul", << rbx >>),
    Unit("xchg", << rax, rbx >>),       Unit("neg", << Local >>) }

Instructions == Carried \cup NotCarried

\* One instruction after another, the second possibly a trap.
Leaves == { << x, y, Ret >> : x \in Instructions, y \in Instructions } \cup { << x, Unit("ud2", << >>) >> : x \in Instructions }

Compares ==
  { Unit("cmp", << rax, rbx >>), Unit("test", << rax, rbx >>), Unit("cmp", << rax, Local >>),
    Unit("dec", << rax >>) }

Choices ==
  { << x, Unit(j, << At(4) >>), Unit("mov", << rbx, Imm(7) >>), Ret >> : x \in Compares, j \in Jumps }
    \cup { << x, Unit(v, << rax, rbx >>), Ret >> : x \in Compares, v \in Moves }

\* A loop that counts down, with the comparison that the jump needs or without;
\* and one that jumps into its middle.
Loops ==
  { << x, y, Unit("jne", << At(1) >>), Ret >> :
      x \in { Unit("shr", << rax, Imm(1) >>), Unit("dec", << rax >>) },
      y \in { Unit("test", << rax, rax >>), Unit("cmp", << rax, Imm(0) >>), Nop } }
    \cup { << Unit("jmp", << At(3) >>), Unit("shr", << rax, Imm(1) >>),
              Unit("cmp", << rax, Imm(0) >>), Unit("ja", << At(2) >>), Ret >> }

InFrame ==
  { Unit("mov", << Local, rax >>), Unit("add", << rax, Local >>), Unit("push", << rbx >>),
    Unit("pop", << rbx >>), Unit("mov", << rax, StackTop >>) }

Callee == { Unit("inc", << rax >>), Unit("pop", << rbx >>), Unit("ud2", << >>) }

\* A call in a frame, without a frame, of a function with a frame, and on to the
\* function behind; and one that loses both a store and the stack.
Calls ==
  { Enter \o << x, CallOf(7) >> \o << y, Unit("leave", << >>), Ret, z, Ret >> :
      x \in InFrame, y \in InFrame, z \in Callee }
    \cup { << CallOf(4), x, Ret, y, Ret >> : x \in InFrame, y \in Callee }
    \cup { Enter \o << CallOf(6) >> \o Exit2 \o Enter \o << x >> \o Exit2 : x \in InFrame }
    \cup { << x, Unit("inc", << rax >>), Ret, CallOf(2), Ret >> : x \in InFrame }
    \cup { << CallOf(5), Unit("sub", << Mem("rbp", NoReg, 1, -16), rax >>), Unit("push", << rbx >>), Ret, Unit("inc", << rax >>), Ret >> }

Layout(units) ==
  [ i \in DOMAIN units |->
      [ off |-> 2 * (i - 1), size |-> 2, byte0 |-> units[i].byte0,
        mnemonic |-> units[i].mnemonic, op_str |-> units[i].op_str ] ]

Text(units) ==
  [ name |-> ".text", addr |-> Base, size |-> 2 * Len(units), len |-> 2 * Len(units),
    code |-> Layout(units), data_ok |-> TRUE ]

SmallPrograms ==
  { [ readable |-> TRUE, parses |-> TRUE, entry |-> Base, sections |-> << Text(units) >>,
      symbols |-> << >> ] : units \in Leaves \cup Choices \cup Loops \cup Calls }

\* Values that are equal, that signed and unsigned comparison order the other
\* way round, and whose difference overflows.
SomeInputs ==
  { [ b \in GeneralRegisters |->
        CASE b = "RAX" -> x [] b = "RBX" -> y [] b = "RSP" -> 56 [] b = "RBP" -> 48 [] OTHER -> 0 ] :
      x \in { 3, 20, 40 }, y \in { 3, 40 } }

\* Values for the configurations.
Ands(x, y) == x & y
Ors(x, y) == x | y
Xors(x, y) == x ^^ y
StackAndStore == { "stack", "store" }
=============================================================================
