-------------------------------- MODULE Lift --------------------------------
(***************************************************************************)
(* ir::lift_function: the instructions of every basic block of a graph     *)
(* become IR, and every register an IR instruction defines gets an SSA     *)
(* version that is counted per block.                                      *)
(*                                                                         *)
(* One action per arm of the code's match on the mnemonic.  The order of   *)
(* the arms is part of their guards: an arm written with a condition       *)
(* applies only where no earlier arm does.  What matters most is WHEN an   *)
(* operand is read: before the destination gets its new version or after.  *)
(***************************************************************************)
EXTENDS Insn, FiniteSets

CONSTANT Cfgs       \* graphs to lift: a graph is the sequence of its blocks

\* A block has a start address and its instructions.
BasicBlock == [start_addr : Nat, instructions : Seq(DisassembledInsn)]

ASSUME CfgsAssumption == \A c \in Cfgs : c \in Seq(BasicBlock)

\* build_cfg cuts the blocks out of one sweep, which goes up.
Ascends(c) ==
  \A b \in DOMAIN c : \A j, k \in DOMAIN c[b].instructions :
    j < k => c[b].instructions[j].addr <= c[b].instructions[k].addr

ASSUME CfgsAscend == \A c \in Cfgs : Ascends(c)

VARIABLES
  cfg,              \* the blocks, in the order of their ids
  pc,
  blk,              \* the block being lifted
  idx,              \* the instruction being lifted
  versions,         \* VarBase -> latest version, 0 when never written
  ir_instructions,  \* the IR of the block so far
  ir_blocks         \* the IR of the finished blocks

vars == << cfg, pc, blk, idx, versions, ir_instructions, ir_blocks >>

-----------------------------------------------------------------------------
(* Registers and operands.                                                 *)

parse_register(name) == CHOOSE b \in VarBase : name \in SubRegisters[b]

VarId == [base : VarBase, version : Nat]

NoVar == [base |-> NoReg, version |-> 0]

\* Variant for mutation: the version before the latest is read.
previous_var(vs, base) == [base |-> base, version |-> IF vs[base] = 0 THEN 0 ELSE vs[base] - 1]

current_var(vs, base) == [base |-> base, version |-> vs[base]]

new_version(base) == [base |-> base, version |-> versions[base] + 1]

\* Variant for mutation: the counter runs the wrong way.
CountDown(base) == [ versions EXCEPT ![base] = @ - 1 ]

Bump(base) == [ versions EXCEPT ![base] = @ + 1 ]

(* Terms without a scale fill the base, then the index; a scaled register is
   the index; a name that is no register is passed over.                   *)
parse_memory_operand(op, vs) ==
  LET var(name) == IF IsRegister(name) THEN current_var(vs, parse_register(name)) ELSE NoVar
      scaled    == op.scale # 1
      first     == IsRegister(op.base)
  IN  [ kind  |-> "mem",
        base  |-> IF first \/ scaled THEN var(op.base) ELSE var(op.index),
        index |-> IF first \/ scaled THEN var(op.index) ELSE NoVar,
        scale |-> op.scale, disp |-> op.disp ]

is_memory_operand(op) == op.kind = "mem"

\* What cannot be parsed is the immediate 0.
parse_single_operand(op, vs) ==
  CASE is_memory_operand(op) -> parse_memory_operand(op, vs)
    [] op.kind = "reg" /\ IsRegister(op.name) ->
         [kind |-> "var", var |-> current_var(vs, parse_register(op.name))]
    [] op.kind = "imm" -> op
    [] OTHER -> Imm(0)

\* The register an instruction writes; RAX when its destination is none.
dst_base(op) ==
  IF op.kind = "reg" /\ IsRegister(op.name) THEN parse_register(op.name) ELSE "RAX"

-----------------------------------------------------------------------------
(* Mnemonics, by arm.                                                      *)

NOP_LIKE == { "nop", "endbr64", "endbr32", "fnop", "pause" }
MOV_FAMILY == { "mov", "movabs", "movzx", "movsx", "movsxd", "movq", "movd" }
BINARY_ALU == { "add", "sub", "imul", "and", "or", "xor", "shl", "sal", "shr", "sar" }
LIFTED_AS_RET == { "ret", "retn", "retf" }
TRAPS == { "int3", "ud2", "hlt", "int" }

ConditionOf ==
  [ Equal   |-> {"je", "jz", "cmove", "sete"},   NotEqual     |-> {"jne", "jnz", "cmovne", "setne"},
    Less    |-> {"jl", "cmovl", "setl"},         LessEqual    |-> {"jle", "cmovle", "setle"},
    Greater |-> {"jg", "cmovg", "setg"},         GreaterEqual |-> {"jge", "cmovge", "setge"},
    Below   |-> {"jb", "cmovb", "setb"},         BelowEqual   |-> {"jbe", "cmovbe", "setbe"},
    Above   |-> {"ja", "cmova", "seta"},         AboveEqual   |-> {"jae", "cmovae", "setae"},
    Sign    |-> {"js", "cmovs", "sets"},         NotSign      |-> {"jns", "cmovns", "setns"},
    Overflow |-> {"jo", "cmovo", "seto"},        NotOverflow  |-> {"jno", "cmovno", "setno"},
    Parity  |-> {"jp", "cmovp", "setp"},         NotParity    |-> {"jnp", "cmovnp", "setnp"} ]

\* A suffix that is not known (rcxz) is taken for Equal.
parse_condition_suffix(m) ==
  IF \E c \in DOMAIN ConditionOf : m \in ConditionOf[c]
    THEN CHOOSE c \in DOMAIN ConditionOf : m \in ConditionOf[c]
    ELSE "Equal"

\* Every other mnemonic that begins with j.
JCC == COND_JUMPS \cup { "jcxz", "jecxz", "jrcxz" }

CMOVCC ==
  { "cmove", "cmovne", "cmovl", "cmovle", "cmovg", "cmovge", "cmovb", "cmovbe",
    "cmova", "cmovae", "cmovs", "cmovns", "cmovo", "cmovno", "cmovp", "cmovnp" }

SETCC ==
  { "sete", "setne", "setl", "setle", "setg", "setge", "setb", "setbe", "seta",
    "setae", "sets", "setns", "seto", "setno", "setp", "setnp" }

\* Capstone puts a lock prefix into the mnemonic; the lifter takes it off.
Unlocked ==
  [ m \in { "lock add", "lock sub", "lock and", "lock or", "lock xor", "lock not",
            "lock neg", "lock inc", "lock dec", "lock xadd", "lock cmpxchg",
            "lock xchg", "lock adc", "lock sbb", "lock bts", "lock btr", "lock btc" } |->
      CASE m = "lock add" -> "add" [] m = "lock sub" -> "sub" [] m = "lock and" -> "and"
        [] m = "lock or"  -> "or"  [] m = "lock xor" -> "xor" [] m = "lock not" -> "not"
        [] m = "lock neg" -> "neg" [] m = "lock inc" -> "inc" [] m = "lock dec" -> "dec"
        [] m = "lock xadd" -> "xadd" [] m = "lock cmpxchg" -> "cmpxchg"
        [] m = "lock xchg" -> "xchg" [] m = "lock adc" -> "adc" [] m = "lock sbb" -> "sbb"
        [] m = "lock bts" -> "bts" [] m = "lock btr" -> "btr" [] OTHER -> "btc" ]

insn == cfg[blk].instructions[idx]

is_lock == insn.mnemonic \in DOMAIN Unlocked

mnemonic == IF is_lock THEN Unlocked[insn.mnemonic] ELSE insn.mnemonic

operands == insn.op_str

\* The arms above the one for the lock prefix.
PLAIN_ARMS ==
  NOP_LIKE \cup MOV_FAMILY \cup BINARY_ALU \cup LIFTED_AS_RET
    \cup { "lea", "mul", "not", "neg", "cmp", "test", "push", "pop", "call", "jmp" }

LockArm == is_lock /\ mnemonic \notin PLAIN_ARMS

\* The unconditional arms below it.
LATE_ARMS == TRAPS \cup { "inc", "dec", "leave", "syscall" }

-----------------------------------------------------------------------------
(* IR instructions: the variable they define, if any, and the operands they
   read; jumps and calls have targets besides.                             *)

Opcode(op, dst, srcs) == [op |-> op, dst |-> dst, srcs |-> srcs]

Reads(op, srcs) == Opcode(op, NoVar, srcs)

Unknown == Reads("Unknown", << >>)

Jmp(target) == [op |-> "Jmp", dst |-> NoVar, srcs |-> << >>, target |-> target]

Jcc(condition, target, fallthrough) ==
  [op |-> "Jcc", dst |-> NoVar, srcs |-> << >>, condition |-> condition,
   target |-> target, fallthrough |-> fallthrough]

Conditional(op, condition, dst, srcs) ==
  [op |-> op, dst |-> dst, srcs |-> srcs, condition |-> condition]

Direct(target, fallthrough) ==
  [op |-> "Call", dst |-> NoVar, srcs |-> << >>, callee |-> "Direct",
   target |-> target, fallthrough |-> fallthrough]

Indirect(operand, fallthrough) ==
  [op |-> "Call", dst |-> NoVar, srcs |-> << operand >>, callee |-> "Indirect",
   fallthrough |-> fallthrough]

External(name, fallthrough) ==
  [op |-> "Call", dst |-> NoVar, srcs |-> << >>, callee |-> "External",
   name |-> name, fallthrough |-> fallthrough]

NextAddr == insn.addr + insn.size

Operand1 == parse_single_operand(operands[1], versions)

Operand2 == parse_single_operand(operands[2], versions)

Current(base) == [kind |-> "var", var |-> current_var(versions, base)]

-----------------------------------------------------------------------------
(* One step of the loop over the instructions of a block.                  *)

Init ==
  /\ cfg \in Cfgs
  /\ pc = "block"
  /\ blk = 1
  /\ idx = 1
  /\ versions = [ b \in VarBase |-> 0 ]
  /\ ir_instructions = << >>
  /\ ir_blocks = << >>

Arm(mnemonics) ==
  /\ pc = "lift"
  /\ idx <= Len(cfg[blk].instructions)
  /\ mnemonic \in mnemonics

LateArm(mnemonics) == Arm(mnemonics) /\ ~ LockArm

At(opcode) == [addr |-> insn.addr, opcode |-> opcode]

Push(irs) ==
  /\ ir_instructions' = ir_instructions \o irs
  /\ idx' = idx + 1
  /\ UNCHANGED << cfg, pc, blk, ir_blocks >>

Emit(opcode) == Push(<< At(opcode) >>) /\ UNCHANGED versions

\* The opcode defines the next version of the base.
Define(base, opcode) == Push(<< At(opcode) >>) /\ versions' = Bump(base)

\* Variant for mutation: an instruction without its operands is left out.
DropMalformed(n, step) ==
  IF Len(operands) >= n THEN step ELSE Push(<< >>) /\ UNCHANGED versions

IfOperands(n, step) == IF Len(operands) >= n THEN step ELSE Emit(Unknown)

LiftNop == Arm(NOP_LIKE) /\ Emit(Reads("Nop", << >>))

(* lift_mov: a store reads its operands; a load and a move give the
   destination its new version first and read the source then.             *)
lift_mov ==
  LET base == dst_base(operands[1])
      dst  == new_version(base)
  IN  CASE is_memory_operand(operands[1]) /\ ~ is_memory_operand(operands[2]) ->
             Emit(Reads("Store", << Operand1, Operand2 >>))
        [] ~ is_memory_operand(operands[1]) /\ is_memory_operand(operands[2]) ->
             Define(base, Opcode("Load", dst, << parse_memory_operand(operands[2], Bump(base)) >>))
        [] OTHER ->
             Define(base, Opcode("Mov", dst, << parse_single_operand(operands[2], Bump(base)) >>))

LiftMov == Arm(MOV_FAMILY) /\ IfOperands(2, lift_mov)

LiftLea ==
  /\ Arm({"lea"})
  /\ LET base == dst_base(operands[1])
     IN  IfOperands(2,
           Define(base, Opcode("Lea", new_version(base),
                               << parse_memory_operand(operands[2], Bump(base)) >>)))

AluOp(m) ==
  CASE m = "add" -> "Add" [] m = "sub" -> "Sub" [] m = "imul" -> "Mul"
    [] m = "and" -> "And" [] m = "or" -> "Or" [] m = "xor" -> "Xor"
    [] m \in {"shl", "sal"} -> "Shl" [] OTHER -> "Shr"

\* The operands are read before the destination gets its version; a third
\* operand is imul's and makes the second one the left-hand side.
lift_binary_alu(m) ==
  LET base == dst_base(operands[1])
      rhs  == parse_single_operand(operands[Len(operands)], versions)
      lhs  == IF Len(operands) >= 3 THEN Operand2 ELSE Operand1
  IN  Define(base, Opcode(AluOp(m), new_version(base), << lhs, rhs >>))

LiftBinaryAlu == Arm(BINARY_ALU) /\ IfOperands(2, lift_binary_alu(mnemonic))

\* Variant for mutation: the product goes to rdx only.
MulIntoRdx ==
  /\ Arm({"mul"})
  /\ IF Len(operands) = 1
       THEN Define("RDX", Opcode("Mul", new_version("RDX"), << Current("RAX"), Operand1 >>))
       ELSE IfOperands(2, lift_binary_alu("imul"))

LiftMul ==
  /\ Arm({"mul"})
  /\ IF Len(operands) = 1
       THEN Define("RAX", Opcode("Mul", new_version("RAX"), << Current("RAX"), Operand1 >>))
       ELSE IfOperands(2, lift_binary_alu("imul"))

\* not and neg of memory are not lifted.
LiftUnary ==
  /\ Arm({"not", "neg"})
  /\ LET base == dst_base(operands[1])
         op   == IF mnemonic = "not" THEN "Not" ELSE "Neg"
     IN  IfOperands(1,
           IF is_memory_operand(operands[1])
             THEN Emit(Unknown)
             ELSE Define(base, Opcode(op, new_version(base), << Current(base) >>)))

LiftCompare ==
  /\ Arm({"cmp", "test"})
  /\ IfOperands(2, Emit(Reads(IF mnemonic = "cmp" THEN "Cmp" ELSE "Test", << Operand1, Operand2 >>)))

LiftPush == Arm({"push"}) /\ IfOperands(1, Emit(Reads("Push", << Operand1 >>)))

LiftPop ==
  /\ Arm({"pop"})
  /\ LET base == dst_base(operands[1])
     IN  IfOperands(1, Define(base, Opcode("Pop", new_version(base), << >>)))

\* A call through a register gets the return address 0, one through memory its own.
lift_call(op) ==
  CASE is_memory_operand(op) -> Indirect(Operand1, NextAddr)
    [] op.kind = "reg" /\ IsRegister(op.name) -> Indirect(Operand1, 0)
    [] op.kind = "imm" -> Direct(op.value, NextAddr)
    [] OTHER -> External(<< op.name >>, NextAddr)

LiftCall == Arm({"call"}) /\ IfOperands(1, Emit(lift_call(operands[1])))

LiftRet == Arm(LIFTED_AS_RET) /\ Emit(Reads("Ret", << >>))

\* An indirect jump becomes an indirect call.
lift_jmp(op) ==
  CASE op.kind = "imm" -> Jmp(op.value)
    [] is_memory_operand(op) \/ (op.kind = "reg" /\ IsRegister(op.name)) -> Indirect(Operand1, 0)
    [] OTHER -> Jmp(0)

LiftJmp == Arm({"jmp"}) /\ IfOperands(1, Emit(lift_jmp(operands[1])))

LiftAtomic ==
  /\ Arm(STRING)
  /\ LockArm
  /\ IfOperands(2, Emit(Reads("AtomicRMW", << Operand1, Operand2 >>)))

LiftCmov ==
  /\ LateArm(CMOVCC)
  /\ LET base == dst_base(operands[1])
     IN  IfOperands(2,
           Define(base, Conditional("Cmovcc", parse_condition_suffix(mnemonic),
                                    new_version(base), << Operand2 >>)))

LiftSetcc ==
  /\ LateArm(SETCC)
  /\ LET base == dst_base(operands[1])
     IN  IfOperands(1,
           Define(base, Conditional("Setcc", parse_condition_suffix(mnemonic), new_version(base), << >>)))

LiftJcc ==
  /\ LateArm(JCC)
  /\ LET target == IF operands # << >> /\ operands[1].kind = "imm" THEN operands[1].value ELSE 0
     IN  Emit(Jcc(parse_condition_suffix(mnemonic), target, NextAddr))

LiftIncDec ==
  /\ LateArm({"inc", "dec"})
  /\ LET base == dst_base(operands[1])
         op   == IF mnemonic = "inc" THEN "Add" ELSE "Sub"
     IN  IfOperands(1, Define(base, Opcode(op, new_version(base), << Current(base), Imm(1) >>)))

\* Variant for mutation: leave does not count the version it gives to rsp.
LeaveForgetsRsp ==
  /\ LateArm({"leave"})
  /\ Push(<< At(Opcode("Mov", new_version("RSP"), << Current("RBP") >>)),
             At(Opcode("Pop", new_version("RBP"), << >>)) >>)
  /\ versions' = Bump("RBP")

\* leave is two instructions: rsp from rbp, and a pop of rbp.
LiftLeave ==
  /\ LateArm({"leave"})
  /\ Push(<< At(Opcode("Mov", new_version("RSP"), << Current("RBP") >>)),
             At(Opcode("Pop", new_version("RBP"), << >>)) >>)
  /\ versions' = [ versions EXCEPT !["RSP"] = @ + 1, !["RBP"] = @ + 1 ]

LiftTrap == LateArm(TRAPS) /\ Emit(Reads("Ret", << >>))

LiftSyscall == LateArm({"syscall"}) /\ Emit(External(<< "syscall" >>, NextAddr))

\* xchg, the sign extensions, and whatever has no arm.
LiftUnknown ==
  /\ LateArm(STRING)
  /\ mnemonic \notin PLAIN_ARMS \cup LATE_ARMS \cup CMOVCC \cup SETCC \cup JCC
  /\ Emit(Unknown)

LiftInsn ==
  \/ LiftNop \/ LiftMov \/ LiftLea \/ LiftBinaryAlu \/ LiftMul \/ LiftUnary
  \/ LiftCompare \/ LiftPush \/ LiftPop \/ LiftCall \/ LiftRet \/ LiftJmp
  \/ LiftAtomic \/ LiftCmov \/ LiftSetcc \/ LiftJcc \/ LiftIncDec \/ LiftLeave
  \/ LiftTrap \/ LiftSyscall \/ LiftUnknown

-----------------------------------------------------------------------------
(* The loop over the blocks.                                               *)

\* The versions are counted per block.
BeginBlock ==
  /\ pc = "block"
  /\ blk <= Len(cfg)
  /\ versions' = [ b \in VarBase |-> 0 ]
  /\ ir_instructions' = << >>
  /\ idx' = 1
  /\ pc' = "lift"
  /\ UNCHANGED << cfg, blk, ir_blocks >>

EndBlock ==
  /\ pc = "lift"
  /\ idx > Len(cfg[blk].instructions)
  /\ ir_blocks' = Append(ir_blocks, [ start_addr   |-> cfg[blk].start_addr,
                                      instructions |-> ir_instructions ])
  /\ blk' = blk + 1
  /\ pc' = "block"
  /\ UNCHANGED << cfg, idx, versions, ir_instructions >>

Finish ==
  /\ pc = "block"
  /\ blk > Len(cfg)
  /\ pc' = "done"
  /\ UNCHANGED << cfg, blk, idx, versions, ir_instructions, ir_blocks >>

Terminated == pc = "done" /\ UNCHANGED vars

Next == BeginBlock \/ LiftInsn \/ EndBlock \/ Finish \/ Terminated

Spec == Init /\ [][Next]_vars

-----------------------------------------------------------------------------
(* Properties.                                                             *)

Dst(irs, k) == irs[k].opcode.dst

\* The variables an operand reads.
OperandVars(o) ==
  CASE o.kind = "var" -> { o.var }
    [] o.kind = "mem" -> { o.base, o.index } \ { NoVar }
    [] OTHER          -> {}

VarsRead(irs, k) ==
  UNION { OperandVars(irs[k].opcode.srcs[j]) : j \in DOMAIN irs[k].opcode.srcs }

\* Types of the variables.
TypeOK ==
  /\ pc \in { "block", "lift", "done" }
  /\ blk \in 1 .. Len(cfg) + 1
  /\ idx \in Nat
  /\ versions \in [ VarBase -> Nat ]
  /\ \A k \in DOMAIN ir_instructions : Dst(ir_instructions, k) \in VarId \cup { NoVar }

\* No version of a register is assigned twice in a block, the assignments of a
\* register come in the order of their versions, and no version is left out:
\* every call of new_version ends up as the destination of one instruction.
SingleAssignment ==
  pc = "lift" =>
    /\ \A j, k \in DOMAIN ir_instructions :
         LET x == Dst(ir_instructions, j)
             y == Dst(ir_instructions, k)
         IN  j < k /\ x # NoVar /\ x.base = y.base => x.version < y.version
    /\ \A b \in VarBase : \A v \in 1 .. versions[b] :
         \E k \in DOMAIN ir_instructions : Dst(ir_instructions, k) = [base |-> b, version |-> v]

\* The opcodes whose destination gets its version before the operands are read.
VersionFirst == { "Mov", "Load", "Lea" }

ReadsItself(opcode, x) == opcode.op \in VersionFirst /\ x.base = opcode.dst.base

\* An instruction reads a register in the version the block has on entry, or in
\* the last one that an EARLIER instruction assigns.  The exception is exact: a
\* move, load or lea that reads the register it writes reads the version that it
\* assigns itself, and no other instruction ever does.
ReadsLatest ==
  pc = "lift" =>
    \A k \in DOMAIN ir_instructions : \A x \in VarsRead(ir_instructions, k) :
      IF ReadsItself(ir_instructions[k].opcode, x)
        THEN x = Dst(ir_instructions, k)
        ELSE /\ x.version > 0 => \E j \in 1 .. k - 1 : Dst(ir_instructions, j) = x
             /\ \A j \in 1 .. k - 1 :
                  Dst(ir_instructions, j).base = x.base => Dst(ir_instructions, j).version <= x.version

\* "typed, SSA-versioned": a version that is read is one of the block's entry, or
\* it is assigned by an instruction before.
UsesFollowDefinitions ==
  pc = "lift" =>
    \A k \in DOMAIN ir_instructions : \A x \in VarsRead(ir_instructions, k) :
      x.version > 0 => \E j \in 1 .. k - 1 : Dst(ir_instructions, j) = x

\* The IR of a finished block covers the block: each of its instructions, in
\* order, becomes one IR instruction, and leave becomes two.
EveryInsnLifted ==
  \A b \in DOMAIN ir_blocks :
    LET src == cfg[b].instructions
        irs == ir_blocks[b].instructions
    IN  /\ \A k \in DOMAIN src : \E j \in DOMAIN irs : irs[j].addr = src[k].addr
        /\ Len(irs) = Len(src) + Cardinality({ k \in DOMAIN src : src[k].mnemonic = "leave" })
        /\ \A j \in 1 .. Len(irs) - 1 : irs[j].addr <= irs[j + 1].addr

\* "Atomic RMW (lock prefix)": an instruction with a lock prefix and two operands
\* becomes an atomic read-modify-write.
LockIsAtomic ==
  \A b \in DOMAIN ir_blocks : \A k \in DOMAIN cfg[b].instructions :
    LET i == cfg[b].instructions[k]
    IN  i.mnemonic \in DOMAIN Unlocked /\ Len(i.op_str) = 2 =>
          \E j \in DOMAIN ir_blocks[b].instructions :
            /\ ir_blocks[b].instructions[j].addr = i.addr
            /\ ir_blocks[b].instructions[j].opcode.op = "AtomicRMW"
=============================================================================
