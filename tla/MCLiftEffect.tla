---------------------------- MODULE MCLiftEffect ----------------------------
(***************************************************************************)
(* The graphs of MCLift, and every kind of instruction that the machine is *)
(* followed in, one at a time, from states that tell equal, signed and     *)
(* unsigned comparison apart.                                              *)
(***************************************************************************)
EXTENDS MCLift, LiftEffect, Bitwise, TLC

rax == Reg("rax")
rbx == Reg("rbx")
rsp == Reg("rsp")
rbp == Reg("rbp")

Local == Mem("rbp", NoReg, 1, -8)
StackTop == Mem("rsp", NoReg, 1, 0)
Indexed == Mem("rbp", "rbx", 2, -8)
Scaled == Mem(NoReg, "rbx", 4, 8)

Destinations == { rax, rsp, Local, StackTop }

Sources == { rax, rbx, rsp, Imm(5), Imm(-1), Local, StackTop, Indexed, Scaled, Mem("rip", NoReg, 1, 4) }

Binaries ==
  { Body(m, << x, y >>) :
      m \in { "mov", "cmp", "test", "cmovle" } \cup Arithmetic, x \in Destinations, y \in Sources }

Others ==
  { Body(m, << x >>) :
      m \in { "inc", "dec", "neg", "not", "mul", "imul", "push", "pop" }, x \in Destinations \cup { rbx, rbp } }
    \cup { Body(m, << Imm(20) >>) : m \in Jumps \cup { "jmp", "call" } }
    \cup { Body(m, << rax, rbx >>) : m \in Moves }
    \cup { Body(m, << >>) : m \in { "nop", "leave", "ret", "ud2" } }
    \cup { Body("lea", << x, y >>) : x \in { rax, rsp }, y \in { Local, StackTop, Scaled } }
    \cup { Body("imul", << rax, rbx, Imm(3) >>), Body("xchg", << rax, rbx >>), Body("xchg", << rsp, rbx >>) }

OneByOne == { << Layout(Base, << b >>) >> : b \in Binaries \cup Others }

LiftedCfgs == SmallCfgs \cup OneByOne

Comparisons ==
  { FlagsOfSub("cmp", x, y) : x \in { 3, 40 }, y \in { 3, 40, 20 } }
    \cup { FlagsOfLogic("test", x) : x \in { 0, 40 } }
    \cup { FlagsOfSub("other", 3, 40) }

\* Values in rax and rbx, and what is in memory.
Worlds == { << 3, 40, << >> >>, << 40, 2, (40 :> 7) @@ (56 :> 63) >> }

Cpus ==
  { [ regs  |-> [ b \in GeneralRegisters |->
                    CASE b = "RAX" -> w[1] [] b = "RBX" -> w[2] [] b = "RSP" -> 56 [] b = "RBP" -> 48 [] OTHER -> 0 ],
      mem   |-> w[3], flags |-> f, lost |-> l ] :
      w \in Worlds, f \in Comparisons, l \in BOOLEAN }

\* cpu.rflags after a comparison; whatever was there before, after anything else.
RFlagsOf(f) == CHOOSE n \in 0 .. 7 : FlagsAgree(f, n)

\* The C that a machine agrees with: rsp is eight lower where it was lost.
COf(s) ==
  [ regs |-> [ b \in VarBase |->
                 CASE b = "RFlags"           -> RFlagsOf(s.flags)
                   [] b = "RSP" /\ s.lost    -> Word(s.regs[b] - 8)
                   [] OTHER                  -> s.regs[b] ],
    mem  |-> s.mem ]

SomePairs == { [ machine |-> s, c |-> COf(s) ] : s \in Cpus }

Ands(x, y) == x & y
Ors(x, y) == x | y
Xors(x, y) == x ^^ y
=============================================================================
