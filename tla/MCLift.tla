------------------------------- MODULE MCLift -------------------------------
(***************************************************************************)
(* Small graphs for the lifter: every block of up to MaxAny instructions   *)
(* over the whole menu, every block of up to MaxCore over the instructions *)
(* that read and write the same few registers, and graphs of two blocks.   *)
(***************************************************************************)
EXTENDS Lift

CONSTANTS
  MaxAny,           \* longest block over the menu
  MaxCore           \* longest block over the core

Base == 10          \* address of the first instruction

Body(m, ops) == [mnemonic |-> m, op_str |-> ops]

AtRax == Mem("rax", NoReg, 1, 8)
Table == Mem("rbx", "ecx", 4, 0)
AtRip == Mem("rip", NoReg, 1, 32)

\* Instructions whose operands and results meet in rax, rbx, rsp and rbp.
Core ==
  { Body("mov", << Reg("rax"), AtRax >>),       Body("mov", << AtRax, Reg("rbx") >>),
    Body("mov", << Reg("eax"), Reg("bl") >>),   Body("lea", << Reg("rbx"), Table >>),
    Body("add", << Reg("rax"), Reg("rbx") >>),  Body("add", << AtRax, Reg("rbx") >>),
    Body("imul", << Reg("rbx"), Reg("rax"), Imm(3) >>),
    Body("pop", << Reg("rbp") >>),              Body("leave", << >>),
    Body("dec", << Reg("rax") >>),              Body("cmovne", << Reg("rbx"), AtRax >>) }

Menu ==
  Core \cup
  { Body("endbr64", << >>),                     Body("movq", << Reg("xmm0"), Reg("rax") >>),
    Body("imul", << Reg("rcx") >>),             Body("mul", << Reg("rcx") >>),
    Body("mul", << >>),
    Body("not", << Reg("rax") >>),              Body("neg", << AtRax >>),
    Body("cmp", << Reg("rax"), Imm(5) >>),      Body("test", << Reg("al"), Reg("al") >>),
    Body("push", << AtRip >>),                  Body("call", << AtRip >>),
    Body("call", << Reg("rax") >>),             Body("call", << Imm(40) >>),
    Body("call", << Reg("st(0)") >>),           Body("ret", << >>),
    Body("jmp", << Imm(12) >>),                 Body("jmp", << Reg("rax") >>),
    Body("jmp", << Table >>),                   Body("lock add", << AtRax, Imm(1) >>),
    Body("lock xadd", << AtRax, Reg("rbx") >>), Body("lock inc", << AtRax >>),
    Body("setle", << Reg("al") >>),             Body("jle", << Imm(12) >>),
    Body("jrcxz", << Imm(12) >>),               Body("inc", << AtRax >>),
    Body("ud2", << >>),                         Body("syscall", << >>),
    Body("xchg", << Reg("rax"), Reg("rbx") >>), Body("rep movsb", << >>) }

Layout(start, bodies) ==
  [ start_addr   |-> start,
    instructions |->
      [ i \in DOMAIN bodies |->
          [ addr |-> start + 2 * (i - 1), size |-> 2, byte0 |-> 0,
            mnemonic |-> bodies[i].mnemonic, op_str |-> bodies[i].op_str ] ] ]

Bodies(menu, n) == UNION { [ 1 .. k -> menu ] : k \in 1 .. n }

SmallCfgs ==
  { << Layout(Base, b) >> : b \in Bodies(Menu, MaxAny) \cup Bodies(Core, MaxCore) }
    \cup { << Layout(Base, b), Layout(Base + 2, c) >> : b \in Bodies(Menu, 1), c \in Bodies(Core, 1) }
    \cup { << >> }
=============================================================================
