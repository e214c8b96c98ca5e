-------------------------------- MODULE Insn --------------------------------
(***************************************************************************)
(* Disassembled instructions as every stage of dEXE sees them              *)
(* (frontend::DisassembledInsn) and the textual classifications that more  *)
(* than one stage makes of them.                                           *)
(*                                                                         *)
(* Capstone delivers an instruction as an address, a size, its bytes, a    *)
(* mnemonic and an operand string.  Of the bytes the code looks at the     *)
(* first only.  Mnemonics keep their names, because the code               *)
(* matches on them.  An operand string is the sequence of its              *)
(* comma-separated operands, each one a record that keeps what the parsers *)
(* in cfg.rs, frontend.rs and ir.rs can find out about the text.           *)
(***************************************************************************)
EXTENDS Integers, Sequences

CONSTANT NoAddr     \* Option::None where the code has an Option<u64>

ASSUME NoAddrAssumption == NoAddr \notin Int

-----------------------------------------------------------------------------
(* Operands.  A register operand is its name in any width, an immediate its
   value, a memory operand the terms between its brackets.                 *)

Reg(name) == [kind |-> "reg", name |-> name]

Imm(value) == [kind |-> "imm", value |-> value]

\* [base + index * scale + disp]; NoReg where a part is missing.
NoReg == "none"

Mem(base, index, scale, disp) ==
  [kind |-> "mem", base |-> base, index |-> index, scale |-> scale, disp |-> disp]

Operand ==
  [kind : {"reg"}, name : STRING]
    \cup [kind : {"imm"}, value : Int]
    \cup [kind : {"mem"}, base : STRING, index : STRING, scale : Nat, disp : Int]

DisassembledInsn ==
  [addr : Nat, size : Nat, byte0 : Nat, mnemonic : STRING, op_str : Seq(Operand)]

(* u64::from_str_radix of the whole operand string: only a lone immediate
   that is not negative parses; a register, a bracketed operand and a list
   of operands do not.                                                     *)
parse_hex_target(op_str) ==
  IF Len(op_str) = 1 /\ op_str[1].kind = "imm" /\ op_str[1].value >= 0
    THEN op_str[1].value
    ELSE NoAddr

-----------------------------------------------------------------------------
(* The registers that ir.rs knows.                                         *)

SubRegisters ==
  [ RAX |-> {"rax", "eax", "ax", "al", "ah"},  RBX |-> {"rbx", "ebx", "bx", "bl", "bh"},
    RCX |-> {"rcx", "ecx", "cx", "cl", "ch"},  RDX |-> {"rdx", "edx", "dx", "dl", "dh"},
    RSI |-> {"rsi", "esi", "si", "sil"},       RDI |-> {"rdi", "edi", "di", "dil"},
    RSP |-> {"rsp", "esp", "sp", "spl"},       RBP |-> {"rbp", "ebp", "bp", "bpl"},
    R8  |-> {"r8", "r8d", "r8w", "r8b"},       R9  |-> {"r9", "r9d", "r9w", "r9b"},
    R10 |-> {"r10", "r10d", "r10w", "r10b"},   R11 |-> {"r11", "r11d", "r11w", "r11b"},
    R12 |-> {"r12", "r12d", "r12w", "r12b"},   R13 |-> {"r13", "r13d", "r13w", "r13b"},
    R14 |-> {"r14", "r14d", "r14w", "r14b"},   R15 |-> {"r15", "r15d", "r15w", "r15b"},
    RFlags |-> {"rflags", "eflags", "flags"} ]

VarBase == DOMAIN SubRegisters

\* Every width of a register is its 64-bit parent; xmm0, rip, st(0) are none.
IsRegister(name) == \E b \in VarBase : name \in SubRegisters[b]

-----------------------------------------------------------------------------
(* The classes of mnemonics that cfg.rs tells apart.                       *)

COND_JUMPS ==
  { "je", "jne", "jz", "jnz", "jg", "jge", "jl", "jle", "ja", "jae", "jb",
    "jbe", "jo", "jno", "js", "jns", "jp", "jnp" }

HALT_MNEMONICS == { "hlt", "int3", "ud2" }

RET_MNEMONICS == { "ret", "retn" }

IsCondJump(insn) == insn.mnemonic \in COND_JUMPS

IsJump(insn) == insn.mnemonic = "jmp" \/ IsCondJump(insn)

IsCall(insn) == insn.mnemonic = "call"

IsRet(insn) == insn.mnemonic \in RET_MNEMONICS

IsHalt(insn) == insn.mnemonic \in HALT_MNEMONICS

=============================================================================
