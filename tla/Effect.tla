------------------------------- MODULE Effect -------------------------------
(***************************************************************************)
(* What an instruction does to the machine, and what a statement of the    *)
(* emitted C does to cpu and memory.                                       *)
(*                                                                         *)
(* Words have W bits.  Memory is read and written in words at an address,  *)
(* 0 where nothing was written; two accesses overlap only where their      *)
(* addresses are equal.  A state s of the machine has its registers, its   *)
(* memory, its flags with the kind of instruction that has set them, and   *)
(* whether a call has come back since rsp was last loaded; a state t of    *)
(* the C has the fields of cpu and all other memory.  No register narrower *)
(* than a word is followed.                                                *)
(***************************************************************************)
EXTENDS Insn

CONSTANTS
  W,                \* bits of a word
  BitAnd(_, _), BitOr(_, _), BitXor(_, _)        \* the bitwise operators of two words

Top == 2 ^ W

Words == 0 .. Top - 1

\* What is taken for granted of powers of two, and of the bitwise operators.
ASSUME WordAssumption ==
  /\ W \in Nat
  /\ Top \in Nat /\ Top > 0 /\ Top % 2 = 0
  /\ \A n \in 0 .. W : 2 ^ n \in Nat \ {0}

ASSUME BitwiseAssumption ==
  \A x, y \in Words : BitAnd(x, y) \in Words /\ BitOr(x, y) \in Words /\ BitXor(x, y) \in Words

GeneralRegisters == VarBase \ {"RFlags"}

Word(x) == x % Top

Negative(x) == x >= Top \div 2

Signed(x) == IF Negative(x) THEN x - Top ELSE x

ReadMem(mem, a) == IF a \in DOMAIN mem THEN mem[a] ELSE 0

Written(mem, a, v) == [ x \in DOMAIN mem \cup { a } |-> IF x = a THEN v ELSE mem[x] ]

\* Left and right shifts by less than the width.
ShiftedLeft(x, n) == Word(x * 2 ^ n)

ShiftedRight(x, n) == x \div 2 ^ n

Complement(x) == Top - 1 - x

\* A state with another value in a register, or at an address.
WithReg(s, b, v) == [ s EXCEPT !.regs[b] = v ]

WithMem(s, a, v) == [ s EXCEPT !.mem = Written(@, a, v) ]

-----------------------------------------------------------------------------
(* x86-64: operands.                                                       *)

FullWidth ==
  { "rax", "rbx", "rcx", "rdx", "rsi", "rdi", "rsp", "rbp", "r8", "r9", "r10",
    "r11", "r12", "r13", "r14", "r15" }

Register(name) == CHOOSE b \in GeneralRegisters : name \in SubRegisters[b]

NextIp(i) == i.addr + i.size

IsReg(op) == op.kind = "reg"
IsImm(op) == op.kind = "imm"
IsMem(op) == op.kind = "mem"

FollowedOperand(op) ==
  /\ IsReg(op) => op.name \in FullWidth
  /\ IsMem(op) => /\ op.base \in FullWidth \cup { NoReg, "rip" }
                  /\ op.index \in FullWidth \cup { NoReg }
                  /\ op.scale \in { 1, 2, 4, 8 }

AddressPart(s, i, name) ==
  CASE name = NoReg -> 0
    [] name = "rip" -> NextIp(i)
    [] OTHER        -> s.regs[Register(name)]

Address(s, i, op) ==
  Word(AddressPart(s, i, op.base) + AddressPart(s, i, op.index) * op.scale + op.disp)

Value(s, i, op) ==
  CASE IsReg(op) -> s.regs[Register(op.name)]
    [] IsImm(op) -> Word(op.value)
    [] OTHER     -> ReadMem(s.mem, Address(s, i, op))

\* The machine with a value in the place that an operand names.
Put(s, i, op, v) ==
  IF IsReg(op) THEN WithReg(s, Register(op.name), v) ELSE WithMem(s, Address(s, i, op), v)

-----------------------------------------------------------------------------
(* x86-64: flags, and by what kind of instruction they were set.           *)

Flags(from, r, cf, of) == [from |-> from, zf |-> r = 0, sf |-> Negative(r), cf |-> cf, of |-> of]

FlagsOfSub(from, x, y) ==
  Flags(from, Word(x - y), x < y, Signed(x) - Signed(y) # Signed(Word(x - y)))

FlagsOfAdd(from, x, y) ==
  Flags(from, Word(x + y), x + y >= Top, Signed(x) + Signed(y) # Signed(Word(x + y)))

FlagsOfLogic(from, r) == Flags(from, r, FALSE, FALSE)

WithFlags(s, flags) == [ s EXCEPT !.flags = flags ]

\* The meaning of a condition.
Holds(mnemonic, f) ==
  CASE mnemonic \in {"je", "cmove"}   -> f.zf
    [] mnemonic \in {"jne", "cmovne"} -> ~ f.zf
    [] mnemonic \in {"jb", "cmovb"}   -> f.cf
    [] mnemonic \in {"jae", "cmovae"} -> ~ f.cf
    [] mnemonic \in {"jbe", "cmovbe"} -> f.cf \/ f.zf
    [] mnemonic \in {"ja", "cmova"}   -> ~ f.cf /\ ~ f.zf
    [] mnemonic \in {"jl", "cmovl"}   -> f.sf # f.of
    [] mnemonic \in {"jge", "cmovge"} -> f.sf = f.of
    [] mnemonic \in {"jle", "cmovle"} -> f.zf \/ f.sf # f.of
    [] mnemonic \in {"jg", "cmovg"}   -> ~ f.zf /\ f.sf = f.of
    [] mnemonic \in {"js", "cmovs"}   -> f.sf
    [] mnemonic \in {"jns", "cmovns"} -> ~ f.sf

ByEquality == { "je", "cmove", "jne", "cmovne" }
Unsigned == { "jb", "cmovb", "jae", "cmovae", "jbe", "cmovbe", "ja", "cmova" }
BySign == { "jl", "cmovl", "jge", "cmovge", "jle", "cmovle", "jg", "cmovg" }
Jumps == { "je", "jne", "jb", "jae", "jbe", "ja", "jl", "jge", "jle", "jg", "js", "jns" }
Moves == { "cmove", "cmovne", "cmovb", "cmovae", "cmovbe", "cmova", "cmovl", "cmovge",
           "cmovle", "cmovg", "cmovs", "cmovns" }

-----------------------------------------------------------------------------
(* x86-64: instructions.                                                   *)

Moved(s, i) == Put(s, i, i.op_str[1], Value(s, i, i.op_str[2]))

Addressed(s, i) == Put(s, i, i.op_str[1], Address(s, i, i.op_str[2]))

Shifts == { "shl", "shr", "sar" }

Arithmetic == { "add", "sub", "imul", "and", "or", "xor" } \cup Shifts

\* With one operand, mul and imul multiply it by rax into rdx and rax.
Multiplies(i) == i.mnemonic = "mul" \/ (i.mnemonic = "imul" /\ Len(i.op_str) = 1)

\* The operands that the mnemonics take.  ret n, which pops more, is not followed.
FollowedForm(i) ==
  LET n   == Len(i.op_str)
      dst == i.op_str[1]
      src == i.op_str[2]
  IN  \/ i.mnemonic \in { "nop", "ud2", "hlt" }
      \/ i.mnemonic \in { "leave", "ret" } /\ n = 0
      \/ i.mnemonic = "push" /\ n = 1
      \/ i.mnemonic \in { "inc", "dec", "neg", "not", "mul", "imul" } /\ n = 1 /\ ~ IsImm(dst)
      \/ i.mnemonic = "pop" /\ n = 1 /\ ~ IsImm(dst) /\ ~ (IsMem(dst) /\ "rsp" \in { dst.base, dst.index })
      \/ i.mnemonic \in { "call", "jmp" } \cup Jumps /\ n = 1 /\ IsImm(dst)
      \/ i.mnemonic \in { "mov" } \cup (Arithmetic \ {"imul"}) /\ n = 2 /\ ~ IsImm(dst) /\ ~ (IsMem(dst) /\ IsMem(src))
      \/ i.mnemonic = "imul" /\ n \in { 2, 3 } /\ IsReg(dst)
      \/ i.mnemonic = "lea" /\ n = 2 /\ IsReg(dst) /\ IsMem(src)
      \/ i.mnemonic \in { "cmp", "test" } /\ n = 2
      \/ i.mnemonic \in Moves /\ n = 2 /\ IsReg(dst)
      \/ i.mnemonic = "xchg" /\ n = 2 /\ IsReg(dst) /\ IsReg(src)

\* The operands that a result is computed from: the last two.
Left(s, i) == Value(s, i, i.op_str[Len(i.op_str) - 1])

Right(s, i) == Value(s, i, i.op_str[Len(i.op_str)])

\* The instruction is one of those that are followed.  A shift by the width or
\* more is not: the machine takes part of the count only.
FollowedInsn(s, i) ==
  /\ FollowedForm(i)
  /\ \A k \in DOMAIN i.op_str : FollowedOperand(i.op_str[k])
  /\ i.mnemonic \in Shifts => Right(s, i) < W

Binary(mnemonic, x, y) ==
  CASE mnemonic = "add"  -> Word(x + y)
    [] mnemonic = "sub"  -> Word(x - y)
    [] mnemonic = "imul" -> Word(x * y)
    [] mnemonic = "and"  -> BitAnd(x, y)
    [] mnemonic = "or"   -> BitOr(x, y)
    [] mnemonic = "xor"  -> BitXor(x, y)
    [] mnemonic = "shl"  -> ShiftedLeft(x, y)
    [] mnemonic = "shr"  -> ShiftedRight(x, y)
    [] mnemonic = "sar"  -> Word(Signed(x) \div 2 ^ y)

Undefined(flags) == [ flags EXCEPT !.from = "undefined" ]

FlagsAfter(s, mnemonic, x, y) ==
  CASE mnemonic = "add" -> FlagsOfAdd("other", x, y)
    [] mnemonic = "sub" -> FlagsOfSub("other", x, y)
    [] mnemonic \in {"and", "or", "xor"} -> FlagsOfLogic("other", Binary(mnemonic, x, y))
    [] OTHER -> Undefined(s.flags)

Computed(s, i) ==
  LET x == Left(s, i)
      y == Right(s, i)
  IN  WithFlags(Put(s, i, i.op_str[1], Binary(i.mnemonic, x, y)), FlagsAfter(s, i.mnemonic, x, y))

UnaryResult(mnemonic, x) ==
  CASE mnemonic = "inc" -> Word(x + 1)
    [] mnemonic = "dec" -> Word(x - 1)
    [] mnemonic = "neg" -> Word(0 - x)
    [] mnemonic = "not" -> Complement(x)

\* inc and dec leave the carry flag alone, not leaves them all.
FlagsAfterUnary(s, mnemonic, x) ==
  CASE mnemonic = "inc" -> [ FlagsOfAdd("other", x, 1) EXCEPT !.cf = s.flags.cf ]
    [] mnemonic = "dec" -> [ FlagsOfSub("other", x, 1) EXCEPT !.cf = s.flags.cf ]
    [] mnemonic = "neg" -> FlagsOfSub("other", 0, x)
    [] mnemonic = "not" -> s.flags

ComputedUnary(s, i) ==
  LET x == Value(s, i, i.op_str[1])
  IN  WithFlags(Put(s, i, i.op_str[1], UnaryResult(i.mnemonic, x)),
                FlagsAfterUnary(s, i.mnemonic, x))

Multiplied(s, i) ==
  LET x       == s.regs["RAX"]
      y       == Value(s, i, i.op_str[1])
      product == IF i.mnemonic = "mul" THEN x * y ELSE Signed(x) * Signed(y)
  IN  WithFlags(WithReg(WithReg(s, "RAX", Word(product)), "RDX", Word(product \div Top)),
                Undefined(s.flags))

Compared(s, i) ==
  LET x == Value(s, i, i.op_str[1])
      y == Value(s, i, i.op_str[2])
  IN  WithFlags(s, IF i.mnemonic = "cmp" THEN FlagsOfSub("cmp", x, y)
                                         ELSE FlagsOfLogic("test", BitAnd(x, y)))

Exchanged(s, i) ==
  LET x == i.op_str[1]
      y == i.op_str[2]
  IN  Put(Put(s, i, x, Value(s, i, y)), i, y, Value(s, i, x))

Lowered(s) == WithReg(s, "RSP", Word(s.regs["RSP"] - 8))

Raised(s) == WithReg(s, "RSP", Word(s.regs["RSP"] + 8))

Pushed(s, v) == WithMem(Lowered(s), Lowered(s).regs["RSP"], v)

\* The operand is read before rsp changes.
PushedOperand(s, i) == Pushed(s, Value(s, i, i.op_str[1]))

\* The operand is written after rsp has changed.
Popped(s, i) == Put(Raised(s), i, i.op_str[1], ReadMem(s.mem, s.regs["RSP"]))

LeftFrame(s) ==
  LET rbp == s.regs["RBP"]
  IN  WithReg(WithReg(s, "RSP", Word(rbp + 8)), "RBP", ReadMem(s.mem, rbp))

CalledFrom(s, i) == Pushed(s, Word(NextIp(i)))

MovedIf(s, i) == IF Holds(i.mnemonic, s.flags) THEN Moved(s, i) ELSE s

-----------------------------------------------------------------------------
(* Departures: what the translation is known not to carry over.            *)

Uses(op, name) ==
  \/ IsReg(op) /\ op.name = name
  \/ IsMem(op) /\ name \in { op.base, op.index }

Mentions(i, name) == { k \in DOMAIN i.op_str : Uses(i.op_str[k], name) }

\* rsp is written and not read.
ReloadsRsp(i) ==
  \/ i.mnemonic = "leave"
  \/ i.mnemonic \in {"mov", "lea"} /\ Mentions(i, "rsp") = {1} /\ ~ IsMem(i.op_str[1])

UsesRsp(i) ==
  \/ i.mnemonic \in { "push", "pop", "call", "ret" }
  \/ Mentions(i, "rsp") # {} /\ ~ ReloadsRsp(i)

\* A call that comes back loses rsp, until it is loaded anew.
LostAfter(s, i) == i.mnemonic = "ret" \/ (s.lost /\ ~ ReloadsRsp(i))

FlagsCarried(s, i) ==
  \/ s.flags.from \in {"cmp", "test"} /\ i.mnemonic \in ByEquality \cup Unsigned
  \/ s.flags.from = "cmp" /\ i.mnemonic \in BySign

(* stack:    rsp is used after a call has come back: the C has not popped
             the return address (until rsp is loaded anew)
   store:    the result goes to memory, by another instruction than mov
   flags:    a condition that cpu.rflags does not hold
   rip:      an address relative to rip
   push:     an operand of push or pop that depends on rsp
   sign:     sar, which is taken for shr
   wide:     mul, of whose result the upper half is lost
   overflow: neg of the word that is its own negative, which C leaves
             undefined
   unlifted: an instruction without IR                                     *)
DepartsBy(reason, s, i) ==
  CASE reason = "stack"    -> s.lost /\ UsesRsp(i)
    [] reason = "store"    -> /\ i.mnemonic \in { "add", "sub", "and", "or", "xor", "pop", "inc", "dec" } \cup Shifts
                              /\ IsMem(i.op_str[1])
    [] reason = "flags"    -> i.mnemonic \in Jumps \cup Moves /\ ~ FlagsCarried(s, i)
    [] reason = "rip"      -> Mentions(i, "rip") # {}
    [] reason = "push"     -> i.mnemonic \in {"push", "pop"} /\ Mentions(i, "rsp") # {}
    [] reason = "sign"     -> i.mnemonic = "sar"
    [] reason = "wide"     -> i.mnemonic = "mul"
    [] reason = "overflow" -> /\ i.mnemonic = "neg" /\ IsReg(i.op_str[1])
                              /\ Value(s, i, i.op_str[1]) = Top \div 2
    [] reason = "unlifted" -> \/ i.mnemonic = "xchg"
                              \/ i.mnemonic = "imul" /\ Multiplies(i)
                              \/ i.mnemonic \in {"neg", "not"} /\ IsMem(i.op_str[1])

Reasons == { "stack", "store", "flags", "rip", "push", "sign", "wide", "overflow", "unlifted" }

Departures(s, i) == { r \in Reasons : DepartsBy(r, s, i) }

-----------------------------------------------------------------------------
(* The C: expressions.                                                     *)

var_name(t, var) == t.regs[var.base]

\* base + index * scale + disp, of the parts there are.
build_mem_addr_expr(t, op) ==
  LET base  == IF op.base.base = NoReg THEN 0 ELSE var_name(t, op.base)
      index == IF op.index.base = NoReg THEN 0 ELSE var_name(t, op.index)
  IN  Word(base + (IF op.scale > 1 THEN index * op.scale ELSE index) + op.disp)

emit_operand(t, op) ==
  CASE op.kind = "var" -> var_name(t, op.var)
    [] op.kind = "imm" -> Word(op.value)
    [] op.kind = "mem" -> ReadMem(t.mem, build_mem_addr_expr(t, op))

emit_mem_addr(t, op) ==
  IF op.kind = "mem" THEN build_mem_addr_expr(t, op) ELSE emit_operand(t, op)

(* cpu.rflags: 1 for equal, 2 for below, 4 for less.                        *)
HasFlag(t, bit) == (t.regs["RFlags"] \div bit) % 2 = 1

\* Variant for mutation: greater is not less.
GreaterIsNotLess(t, condition) ==
  CASE condition = "Greater"  -> ~ HasFlag(t, 4)
    [] condition = "Equal"    -> HasFlag(t, 1)
    [] condition = "NotEqual" -> ~ HasFlag(t, 1)
    [] OTHER                  -> FALSE

get_cond_expr(t, condition) ==
  CASE condition = "Equal"        -> HasFlag(t, 1)
    [] condition = "NotEqual"     -> ~ HasFlag(t, 1)
    [] condition = "Less"         -> HasFlag(t, 4)
    [] condition = "GreaterEqual" -> ~ HasFlag(t, 4)
    [] condition = "Below"        -> HasFlag(t, 2)
    [] condition = "AboveEqual"   -> ~ HasFlag(t, 2)
    [] condition = "Greater"      -> ~ HasFlag(t, 1) /\ ~ HasFlag(t, 4)
    [] condition = "LessEqual"    -> HasFlag(t, 1) \/ HasFlag(t, 4)
    [] condition = "Above"        -> ~ HasFlag(t, 1) /\ ~ HasFlag(t, 2)
    [] condition = "BelowEqual"   -> HasFlag(t, 1) \/ HasFlag(t, 2)
    [] condition \in { "Sign", "Overflow", "Parity" }          -> t.regs["RFlags"] # 0
    [] condition \in { "NotSign", "NotOverflow", "NotParity" } -> t.regs["RFlags"] = 0

-----------------------------------------------------------------------------
(* The C: statements.                                                      *)

Assignments ==
  { "Mov", "Load", "Lea", "Add", "Sub", "Mul", "And", "Or", "Xor", "Shl", "Shr",
    "Not", "Neg", "Cmovcc", "Setcc" }

\* The value that an assignment gives to its variable.
Assigned(t, o) ==
  LET x == emit_operand(t, o.srcs[1])
      y == emit_operand(t, o.srcs[2])
  IN  CASE o.op = "Mov"  -> x
        [] o.op = "Load" -> ReadMem(t.mem, emit_mem_addr(t, o.srcs[1]))
        [] o.op = "Lea"  -> emit_mem_addr(t, o.srcs[1])
        [] o.op = "Add"  -> Word(x + y)
        [] o.op = "Sub"  -> Word(x - y)
        [] o.op = "Mul"  -> Word(x * y)
        [] o.op = "And"  -> BitAnd(x, y)
        [] o.op = "Or"   -> BitOr(x, y)
        [] o.op = "Xor"  -> BitXor(x, y)
        [] o.op = "Shl"  -> ShiftedLeft(x, y)
        [] o.op = "Shr"  -> ShiftedRight(x, y)
        [] o.op = "Not"  -> Complement(x)
        [] o.op = "Neg"  -> Word(0 - x)
        [] o.op = "Cmovcc" -> IF get_cond_expr(t, o.condition) THEN x ELSE var_name(t, o.dst)
        [] o.op = "Setcc"  -> IF get_cond_expr(t, o.condition) THEN 1 ELSE 0

\* A shift by the width or more is undefined, and -(int64_t)x of the least x.
IsUndefined(t, o) ==
  \/ o.op \in {"Shl", "Shr"} /\ emit_operand(t, o.srcs[2]) >= W
  \/ o.op = "Neg" /\ emit_operand(t, o.srcs[1]) = Top \div 2

AfterAssign(t, o) == WithReg(t, o.dst.base, Assigned(t, o))

AfterStore(t, o) == WithMem(t, emit_mem_addr(t, o.srcs[1]), emit_operand(t, o.srcs[2]))

AfterCompare(t, o) ==
  LET l == emit_operand(t, o.srcs[1])
      r == emit_operand(t, o.srcs[2])
      flag(b, bit) == IF b THEN bit ELSE 0
  IN  WithReg(t, "RFlags", IF o.op = "Cmp"
                             THEN flag(l = r, 1) + flag(l < r, 2) + flag(Signed(l) < Signed(r), 4)
                             ELSE flag(BitAnd(l, r) = 0, 1))

\* Variant for mutation: the operand of a push is stored above the stack pointer.
StoreThenLower(t, o) == WithMem(Lowered(t), t.regs["RSP"], emit_operand(t, o.srcs[1]))

\* cpu.rsp -= 8; then the store, of an expression in the lowered rsp.
AfterPush(t, o) == Pushed(t, emit_operand(Lowered(t), o.srcs[1]))

AfterPop(t, o) == Raised(WithReg(t, o.dst.base, ReadMem(t.mem, t.regs["RSP"])))

\* The return address is pushed, and no return pops it.
AfterCall(t, pushed) == Pushed(t, Word(pushed))
=============================================================================
