---------------------------- MODULE EffectProofs ----------------------------
(***************************************************************************)
(* The IR of an instruction that is carried over has the effect of the     *)
(* instruction, for every width of a word, every block and every two       *)
(* states that agree.                                                      *)
(*                                                                         *)
(* An operand has the same value on both sides as long as it does not read *)
(* rsp after a call has come back (OperandAgrees), and what is written to  *)
(* the same place on both sides leaves them alike (the section on          *)
(* writing); then every arm of the lifter is a lemma of its own.           *)
(***************************************************************************)
EXTENDS LiftEffect, LiftProofs, SequenceTheorems

-----------------------------------------------------------------------------
(* Registers.                                                              *)

\* A full-width name belongs to one register.
LEMMA FullNames ==
  ASSUME NEW name \in FullWidth
  PROVE  \E b \in GeneralRegisters :
           /\ \A c \in VarBase : name \in SubRegisters[c] <=> c = b
           /\ b = "RSP" <=> name = "rsp"
<1> USE DEF GeneralRegisters, VarBase, SubRegisters
<1>1. CASE name = "rax"
  BY <1>1
<1>2. CASE name = "rbx"
  BY <1>2
<1>3. CASE name = "rcx"
  BY <1>3
<1>4. CASE name = "rdx"
  BY <1>4
<1>5. CASE name = "rsi"
  BY <1>5
<1>6. CASE name = "rdi"
  BY <1>6
<1>7. CASE name = "rsp"
  BY <1>7
<1>8. CASE name = "rbp"
  BY <1>8
<1>9. CASE name \in { "r8", "r9", "r10", "r11" }
  BY <1>9
<1>10. CASE name \in { "r12", "r13", "r14", "r15" }
  BY <1>10
<1>. QED BY <1>1, <1>2, <1>3, <1>4, <1>5, <1>6, <1>7, <1>8, <1>9, <1>10 DEF FullWidth

\* It is the register that both sides take the name for.
LEMMA RegisterOf ==
  ASSUME NEW name \in FullWidth
  PROVE  /\ Register(name) \in GeneralRegisters
         /\ IsRegister(name)
         /\ parse_register(name) = Register(name)
         /\ Register(name) = "RSP" <=> name = "rsp"
<1>1. PICK b \in GeneralRegisters :
        /\ \A c \in VarBase : name \in SubRegisters[c] <=> c = b
        /\ b = "RSP" <=> name = "rsp"
  BY FullNames
<1>2. b \in VarBase /\ GeneralRegisters \subseteq VarBase
  BY DEF GeneralRegisters
<1>3. Register(name) = b
  BY <1>1, <1>2 DEF Register
<1>4. parse_register(name) = b
  BY <1>1, <1>2 DEF parse_register
<1>. QED BY <1>1, <1>2, <1>3, <1>4 DEF IsRegister

\* What is no register.
LEMMA NotRegisters == ~ IsRegister(NoReg) /\ ~ IsRegister("rip") /\ NoReg \notin FullWidth /\ "rip" \notin FullWidth
<1>1. NoReg \notin FullWidth /\ "rip" \notin FullWidth
  BY DEF NoReg, FullWidth
<1>2. \A b \in VarBase : NoReg \notin SubRegisters[b] /\ "rip" \notin SubRegisters[b]
  BY DEF NoReg, VarBase, SubRegisters
<1>. QED BY <1>1, <1>2 DEF IsRegister

\* The registers of the machine and of the C.
LEMMA RegisterNames ==
  /\ GeneralRegisters \subseteq VarBase /\ "RFlags" \in VarBase /\ "RFlags" \notin GeneralRegisters
  /\ { "RAX", "RSP", "RBP" } \subseteq GeneralRegisters
  /\ NoReg \notin VarBase
BY DEF GeneralRegisters, VarBase, SubRegisters, NoReg

-----------------------------------------------------------------------------
(* Words.                                                                  *)

LEMMA TopIs == /\ Top \in Nat /\ Top > 1 /\ 0 \in Words /\ 1 \in Words
               /\ \E h \in Nat : Top = 2 * h /\ h > 0 /\ Top \div 2 = h
<1>1. Top \in Nat /\ Top > 0 /\ Top % 2 = 0
  BY WordAssumption
<1>2. ASSUME NEW x \in Nat, x > 0, x % 2 = 0
      PROVE  x \div 2 \in Nat /\ x = 2 * (x \div 2) /\ x \div 2 > 0
  BY <1>2
<1>3. \E h \in Nat : Top = 2 * h /\ h > 0 /\ Top \div 2 = h
  BY <1>1, <1>2
<1>4. Top > 1
  BY <1>1, <1>3
<1>. QED BY <1>1, <1>3, <1>4 DEF Words

LEMMA WordIsWord == ASSUME NEW x \in Int PROVE Word(x) \in Words
BY TopIs DEF Word, Words

LEMMA WordOfWord == ASSUME NEW x \in Words PROVE Word(x) = x
BY TopIs DEF Word, Words

\* A difference of words is off by a whole turn at most.
LEMMA Difference ==
  ASSUME NEW x \in Words, NEW y \in Words
  PROVE  Word(x - y) = IF x < y THEN x - y + Top ELSE x - y
<1>1. \A n \in Nat, a \in Int : n > 0 /\ a < 0 /\ a >= 0 - n => a % n = (IF a = 0 - n THEN 0 ELSE a + n)
  OBVIOUS
<1>2. x \in Int /\ y \in Int /\ x >= 0 /\ y >= 0 /\ x < Top /\ y < Top
  BY TopIs DEF Words
<1>3. CASE x < y
  BY <1>1, <1>2, <1>3, TopIs DEF Word
<1>4. CASE ~ x < y
  <2>1. x - y \in Words
    BY <1>2, <1>4, TopIs DEF Words
  <2>. QED BY <1>4, <2>1, WordOfWord
<1>. QED BY <1>3, <1>4

\* After a comparison the flags say how the words compare, unsigned and signed:
\* the sign of the difference is wrong exactly where it overflows.
LEMMA ComparisonFlags ==
  ASSUME NEW x \in Words, NEW y \in Words, NEW from
  PROVE  LET f == FlagsOfSub(from, x, y)
         IN  /\ f.from = from
             /\ f.zf <=> x = y
             /\ f.cf <=> x < y
             /\ (f.sf # f.of) <=> Signed(x) < Signed(y)
<1> DEFINE f == FlagsOfSub(from, x, y)
           r == Word(x - y)
<1>1. PICK h \in Nat : Top = 2 * h /\ h > 0 /\ Top \div 2 = h
  BY TopIs
<1>2. x \in 0 .. 2 * h - 1 /\ y \in 0 .. 2 * h - 1
  BY <1>1 DEF Words
<1>3. r = IF x < y THEN x - y + 2 * h ELSE x - y
  BY <1>1, Difference
<1> HIDE DEF r
<1>4. /\ f.from = from /\ f.zf = (r = 0) /\ f.cf = (x < y) /\ f.sf = Negative(r)
      /\ f.of = (Signed(x) - Signed(y) # Signed(r))
  BY DEF FlagsOfSub, Flags, r
<1>5. \A z : /\ Negative(z) = (z >= h)
             /\ Signed(z) = IF z >= h THEN z - 2 * h ELSE z
  BY <1>1 DEF Negative, Signed
<1>6. (r = 0) <=> (x = y)
  BY <1>2, <1>3
<1>7. ((r >= h) # (Signed(x) - Signed(y) # Signed(r))) <=> Signed(x) < Signed(y)
  <2>1. CASE x < y
    BY <1>2, <1>3, <1>5, <2>1
  <2>2. CASE ~ x < y
    BY <1>2, <1>3, <1>5, <2>2
  <2>. QED BY <2>1, <2>2
<1> HIDE DEF f
<1>. QED BY <1>4, <1>5, <1>6, <1>7 DEF f

-----------------------------------------------------------------------------
(* Reading.                                                                *)

\* A machine and a C that are alike; rsp may differ when l says so.
Alike(s, t, l) ==
  /\ \A b \in GeneralRegisters : (b = "RSP" /\ l) \/ t.regs[b] = s.regs[b]
  /\ t.mem = s.mem
  /\ FlagsAgree(s.flags, t.regs["RFlags"])

\* An operand that both sides read alike.
Readable(op, l) ==
  /\ op \in Operand
  /\ FollowedOperand(op)
  /\ ~ Uses(op, "rip")
  /\ l => ~ Uses(op, "rsp")

LEMMA ReadsWord ==
  ASSUME NEW mem, IsMemory(mem), NEW a
  PROVE  ReadMem(mem, a) \in Words
BY TopIs DEF IsMemory, ReadMem

\* A register that is read.
LEMMA RegisterAgrees ==
  ASSUME NEW s, NEW t, NEW l, IsMachine(s), Alike(s, t, l),
         NEW name \in FullWidth, l => name # "rsp"
  PROVE  /\ t.regs[parse_register(name)] = s.regs[Register(name)]
         /\ s.regs[Register(name)] \in Words
BY RegisterOf DEF IsMachine, Alike

\* A part of an address, a register or none.
LEMMA PartAgrees ==
  ASSUME NEW s, NEW t, NEW l, IsMachine(s), Alike(s, t, l), NEW i, NEW vs,
         NEW name \in FullWidth \cup { NoReg }, l => name # "rsp",
         NEW var, var = IF IsRegister(name) THEN current_var(vs, parse_register(name)) ELSE NoVar
  PROVE  /\ AddressPart(s, i, name) \in Words
         /\ AddressPart(s, i, name) = IF var.base = NoReg THEN 0 ELSE var_name(t, var)
         /\ IsRegister(name) <=> name # NoReg
         /\ name = NoReg => AddressPart(s, i, name) = 0
<1>1. CASE name = NoReg
  <2>1. var.base = NoReg
    BY <1>1, NotRegisters DEF NoVar
  <2>2. AddressPart(s, i, name) = 0
    BY <1>1 DEF AddressPart, NoReg
  <2>3. ~ IsRegister(name)
    BY <1>1, NotRegisters
  <2>4. 0 \in Words
    BY TopIs
  <2>. QED BY <1>1, <2>1, <2>2, <2>3, <2>4
<1>2. CASE name \in FullWidth
  <2>1. name # NoReg /\ name # "rip"
    BY <1>2, NotRegisters
  <2>2. IsRegister(name) /\ Register(name) \in GeneralRegisters /\ parse_register(name) = Register(name)
    BY <1>2, RegisterOf
  <2>3. var.base = parse_register(name) /\ var.base # NoReg
    BY <2>2, RegisterNames DEF current_var
  <2>4. AddressPart(s, i, name) = s.regs[Register(name)]
    BY <2>1 DEF AddressPart
  <2>. QED BY <1>2, <2>1, <2>2, <2>3, <2>4, RegisterAgrees DEF var_name
<1>. QED BY <1>1, <1>2

\* An address: the C adds up the parts that there are.
LEMMA AddressAgrees ==
  ASSUME NEW s, NEW t, NEW l, IsMachine(s), Alike(s, t, l), NEW i, NEW vs,
         NEW op, Readable(op, l), IsMem(op)
  PROVE  /\ build_mem_addr_expr(t, parse_memory_operand(op, vs)) = Address(s, i, op)
         /\ Address(s, i, op) \in Words
<1> DEFINE var(name) == IF IsRegister(name) THEN current_var(vs, parse_register(name)) ELSE NoVar
           part(v)   == IF v.base = NoReg THEN 0 ELSE var_name(t, v)
           o         == parse_memory_operand(op, vs)
           base      == AddressPart(s, i, op.base)
           index     == AddressPart(s, i, op.index)
<1>1. /\ op.base \in FullWidth \cup { NoReg } /\ op.index \in FullWidth \cup { NoReg }
      /\ op.scale \in { 1, 2, 4, 8 }
      /\ l => op.base # "rsp" /\ op.index # "rsp"
  BY DEF Readable, FollowedOperand, Uses, IsMem
<1>2. op.disp \in Int
  BY DEF Readable, Operand, IsMem
<1>3. /\ base \in Words /\ base = part(var(op.base))
      /\ IsRegister(op.base) <=> op.base # NoReg
      /\ op.base = NoReg => base = 0
  BY <1>1, PartAgrees
<1>4. index \in Words /\ index = part(var(op.index))
  BY <1>1, PartAgrees
<1>5. /\ o.scale = op.scale /\ o.disp = op.disp
      /\ IsRegister(op.base) \/ op.scale # 1 => o.base = var(op.base) /\ o.index = var(op.index)
      /\ ~ (IsRegister(op.base) \/ op.scale # 1) => o.base = var(op.index) /\ o.index = NoVar
  BY DEF parse_memory_operand
<1>6. build_mem_addr_expr(t, o)
        = Word(part(o.base) + (IF o.scale > 1 THEN part(o.index) * o.scale ELSE part(o.index)) + o.disp)
  BY DEF build_mem_addr_expr
<1>7. Address(s, i, op) = Word(base + index * op.scale + op.disp)
  BY DEF Address
<1>8. part(NoVar) = 0
  BY DEF NoVar
<1>w. \A w \in Words : w \in Int
  BY DEF Words
<1> HIDE DEF var, part, o, base, index
<1>9. base + index * op.scale + op.disp \in Int
  BY <1>1, <1>2, <1>3, <1>4, <1>w
<1>10. part(o.base) + (IF o.scale > 1 THEN part(o.index) * o.scale ELSE part(o.index)) + o.disp
         = base + index * op.scale + op.disp
  <2>1. CASE IsRegister(op.base) \/ op.scale # 1
    <3>1. part(o.base) = base /\ part(o.index) = index
      BY <1>3, <1>4, <1>5, <2>1
    <3>2. (IF op.scale > 1 THEN index * op.scale ELSE index) = index * op.scale
      BY <1>1, <1>4, <1>w
    <3>. QED BY <1>5, <3>1, <3>2
  <2>2. CASE ~ (IsRegister(op.base) \/ op.scale # 1)
    <3>1. part(o.base) = index /\ part(o.index) = 0 /\ base = 0 /\ op.scale = 1 /\ o.scale = 1
      BY <1>3, <1>4, <1>5, <1>8, <2>2
    <3>. QED BY <1>2, <1>4, <1>5, <1>w, <3>1
  <2>. QED BY <2>1, <2>2
<1>. QED BY <1>6, <1>7, <1>9, <1>10, WordIsWord DEF o

\* A value: what is read of an operand is the same word on both sides.
LEMMA OperandAgrees ==
  ASSUME NEW s, NEW t, NEW l, IsMachine(s), Alike(s, t, l), NEW i, NEW vs,
         NEW op, Readable(op, l)
  PROVE  /\ emit_operand(t, parse_single_operand(op, vs)) = Value(s, i, op)
         /\ Value(s, i, op) \in Words
<1> DEFINE o == parse_single_operand(op, vs)
<1>1. CASE IsMem(op)
  <2>1. o = parse_memory_operand(op, vs)
    BY <1>1 DEF parse_single_operand, is_memory_operand, IsMem
  <2>2. o.kind = "mem"
    BY <2>1 DEF parse_memory_operand
  <2>3. emit_operand(t, o) = ReadMem(t.mem, build_mem_addr_expr(t, o))
    BY <2>2 DEF emit_operand
  <2>4. Value(s, i, op) = ReadMem(s.mem, Address(s, i, op))
    BY <1>1 DEF Value, IsMem, IsReg, IsImm
  <2>5. IsMemory(s.mem) /\ t.mem = s.mem
    BY DEF IsMachine, Alike
  <2>. QED BY <1>1, <2>1, <2>3, <2>4, <2>5, AddressAgrees, ReadsWord
<1>2. CASE IsReg(op)
  <2>1. op.name \in FullWidth /\ (l => op.name # "rsp")
    BY <1>2 DEF Readable, FollowedOperand, Uses
  <2>2. IsRegister(op.name)
    BY <2>1, RegisterOf
  <2>3. o = [kind |-> "var", var |-> current_var(vs, parse_register(op.name))]
    BY <1>2, <2>2 DEF parse_single_operand, is_memory_operand, IsReg
  <2>4. emit_operand(t, o) = t.regs[parse_register(op.name)]
    BY <2>3 DEF emit_operand, var_name, current_var
  <2>5. Value(s, i, op) = s.regs[Register(op.name)]
    BY <1>2 DEF Value, IsReg, IsImm
  <2>. QED BY <2>1, <2>4, <2>5, RegisterAgrees
<1>3. CASE IsImm(op)
  <2>1. op.value \in Int
    BY <1>3 DEF Readable, Operand, IsImm
  <2>2. o = op
    BY <1>3 DEF parse_single_operand, is_memory_operand, IsImm
  <2>3. emit_operand(t, o) = Word(op.value) /\ Value(s, i, op) = Word(op.value)
    BY <1>3, <2>2 DEF emit_operand, Value, IsImm, IsReg
  <2>. QED BY <2>1, <2>3, WordIsWord
<1>. QED BY <1>1, <1>2, <1>3 DEF Readable, Operand, IsMem, IsReg, IsImm

-----------------------------------------------------------------------------
(* Writing.                                                                *)

\* A machine and a C, both of the right shape and alike.
Paired(s, t, l) == IsMachine(s) /\ IsC(t) /\ Alike(s, t, l)

\* A machine with another value in a register.
LEMMA MachineWithReg ==
  ASSUME NEW s, IsMachine(s), NEW b \in GeneralRegisters, NEW v \in Words
  PROVE  /\ IsMachine(WithReg(s, b, v))
         /\ WithReg(s, b, v).regs = [ s.regs EXCEPT ![b] = v ]
         /\ WithReg(s, b, v).mem = s.mem
         /\ WithReg(s, b, v).flags = s.flags
         /\ WithReg(s, b, v).lost = s.lost
<1> DEFINE r == WithReg(s, b, v)
<1>1. /\ DOMAIN r = DOMAIN s
      /\ r.regs = [ s.regs EXCEPT ![b] = v ]
      /\ r.mem = s.mem /\ r.flags = s.flags /\ r.lost = s.lost
  BY DEF WithReg, IsMachine, Fields
<1>2. r.regs \in [ GeneralRegisters -> Words ]
  BY <1>1 DEF IsMachine
<1> HIDE DEF r
<1>3. IsMachine(r)
  BY <1>1, <1>2 DEF IsMachine, Fields
<1>. QED BY <1>1, <1>3 DEF r

\* A C with another value in a register.
LEMMA CWithReg ==
  ASSUME NEW t, IsC(t), NEW b \in VarBase, NEW v
  PROVE  /\ IsC(WithReg(t, b, v))
         /\ WithReg(t, b, v).regs = [ t.regs EXCEPT ![b] = v ]
         /\ WithReg(t, b, v).mem = t.mem
<1> DEFINE r == WithReg(t, b, v)
<1>1. /\ DOMAIN r = DOMAIN t
      /\ r.regs = [ t.regs EXCEPT ![b] = v ]
      /\ r.mem = t.mem
  BY DEF WithReg, IsC, Fields
<1>2. DOMAIN r.regs = VarBase
  BY <1>1 DEF IsC
<1> HIDE DEF r
<1>3. IsC(r)
  BY <1>1, <1>2 DEF IsC, Fields
<1>. QED BY <1>1, <1>3 DEF r

\* The same value in the same register leaves them alike; if it is rsp, rsp is
\* the same from then on.
LEMMA PairedReg ==
  ASSUME NEW s, NEW t, NEW l, Paired(s, t, l), NEW b \in GeneralRegisters, NEW v \in Words
  PROVE  Paired(WithReg(s, b, v), WithReg(t, b, v), l /\ b # "RSP")
<1> DEFINE s2 == WithReg(s, b, v)
           t2 == WithReg(t, b, v)
<1>1. IsMachine(s) /\ IsC(t) /\ Alike(s, t, l)
  BY DEF Paired
<1>2. b \in VarBase /\ b # "RFlags" /\ "RFlags" \in VarBase
  BY RegisterNames
<1>3. /\ IsMachine(s2) /\ s2.regs = [ s.regs EXCEPT ![b] = v ]
      /\ s2.mem = s.mem /\ s2.flags = s.flags
  BY <1>1, MachineWithReg
<1>4. IsC(t2) /\ t2.regs = [ t.regs EXCEPT ![b] = v ] /\ t2.mem = t.mem
  BY <1>1, <1>2, CWithReg
<1> HIDE DEF s2, t2
<1>5. DOMAIN s.regs = GeneralRegisters /\ DOMAIN t.regs = VarBase /\ GeneralRegisters \subseteq VarBase
  BY <1>1, RegisterNames DEF IsMachine, IsC
<1>6. ASSUME NEW c \in GeneralRegisters
      PROVE  (c = "RSP" /\ (l /\ b # "RSP")) \/ t2.regs[c] = s2.regs[c]
  <2>1. CASE c = b
    BY <1>2, <1>3, <1>4, <1>5, <2>1
  <2>2. CASE c # b
    <3>1. t2.regs[c] = t.regs[c] /\ s2.regs[c] = s.regs[c]
      BY <1>3, <1>4, <1>5, <2>2
    <3>. QED BY <1>1, <2>2, <3>1 DEF Alike
  <2>. QED BY <2>1, <2>2
<1>7. t2.regs["RFlags"] = t.regs["RFlags"]
  BY <1>2, <1>4, <1>5
<1>8. Alike(s2, t2, l /\ b # "RSP")
  BY <1>1, <1>3, <1>4, <1>6, <1>7 DEF Alike
<1>. QED BY <1>3, <1>4, <1>8 DEF Paired, s2, t2

\* What is alike in rsp too is alike without.
LEMMA PairedLess ==
  ASSUME NEW s, NEW t, NEW l, NEW l2, Paired(s, t, l), l => l2
  PROVE  Paired(s, t, l2)
BY DEF Paired, Alike

\* Memory with one more word.
LEMMA MemoryWith ==
  ASSUME NEW mem, IsMemory(mem), NEW a \in Words, NEW v \in Words
  PROVE  IsMemory(Written(mem, a, v))
BY DEF IsMemory, Written

\* The same word at the same address leaves them alike.
LEMMA PairedMem ==
  ASSUME NEW s, NEW t, NEW l, Paired(s, t, l), NEW a \in Words, NEW v \in Words
  PROVE  Paired(WithMem(s, a, v), WithMem(t, a, v), l)
<1> DEFINE s2 == WithMem(s, a, v)
           t2 == WithMem(t, a, v)
           mem == Written(s.mem, a, v)
<1>1. IsMachine(s) /\ IsC(t) /\ Alike(s, t, l)
  BY DEF Paired
<1>2. IsMemory(mem)
  BY <1>1, MemoryWith DEF IsMachine
<1> HIDE DEF mem
<1>3. /\ DOMAIN s2 = DOMAIN s
      /\ s2.mem = mem /\ s2.regs = s.regs /\ s2.flags = s.flags /\ s2.lost = s.lost
  BY <1>1 DEF WithMem, IsMachine, Fields, mem
<1>4. t.mem = s.mem
  BY <1>1 DEF Alike
<1>5. DOMAIN t2 = DOMAIN t /\ t2.mem = mem /\ t2.regs = t.regs
  BY <1>1, <1>4 DEF WithMem, IsC, Fields, mem
<1> HIDE DEF s2, t2
<1>6. IsMachine(s2)
  BY <1>1, <1>2, <1>3 DEF IsMachine, Fields
<1>7. IsC(t2)
  BY <1>1, <1>2, <1>5 DEF IsC, Fields
<1>8. Alike(s2, t2, l)
  BY <1>1, <1>3, <1>5 DEF Alike
<1>. QED BY <1>6, <1>7, <1>8 DEF Paired, s2, t2

\* Flags that the C does not take over leave them alike.
LEMMA PairedFlags ==
  ASSUME NEW s, NEW t, NEW l, Paired(s, t, l), NEW f \in SomeFlags, f.from \notin { "cmp", "test" }
  PROVE  Paired(WithFlags(s, f), t, l)
<1> DEFINE s2 == WithFlags(s, f)
<1>1. IsMachine(s) /\ IsC(t) /\ Alike(s, t, l)
  BY DEF Paired
<1>2. /\ DOMAIN s2 = DOMAIN s
      /\ s2.flags = f /\ s2.regs = s.regs /\ s2.mem = s.mem /\ s2.lost = s.lost
  BY <1>1 DEF WithFlags, IsMachine, Fields
<1> HIDE DEF s2
<1>3. IsMachine(s2)
  BY <1>1, <1>2 DEF IsMachine, Fields
<1>4. Alike(s2, t, l)
  BY <1>1, <1>2 DEF Alike, FlagsAgree
<1>. QED BY <1>1, <1>3, <1>4 DEF Paired, s2

\* A comparison: the flags of the machine, and cpu.rflags that say the same.
LEMMA PairedComparison ==
  ASSUME NEW s, NEW t, NEW l, Paired(s, t, l), NEW f \in SomeFlags, NEW n, FlagsAgree(f, n)
  PROVE  Paired(WithFlags(s, f), WithReg(t, "RFlags", n), l)
<1> DEFINE s2 == WithFlags(s, f)
           t2 == WithReg(t, "RFlags", n)
<1>1. IsMachine(s) /\ IsC(t) /\ Alike(s, t, l)
  BY DEF Paired
<1>2. /\ DOMAIN s2 = DOMAIN s
      /\ s2.flags = f /\ s2.regs = s.regs /\ s2.mem = s.mem /\ s2.lost = s.lost
  BY <1>1 DEF WithFlags, IsMachine, Fields
<1>3. IsC(t2) /\ t2.regs = [ t.regs EXCEPT !["RFlags"] = n ] /\ t2.mem = t.mem
  BY <1>1, RegisterNames, CWithReg
<1> HIDE DEF s2, t2
<1>4. IsMachine(s2)
  BY <1>1, <1>2 DEF IsMachine, Fields
<1>5. DOMAIN t.regs = VarBase
  BY <1>1 DEF IsC
<1>6. t2.regs["RFlags"] = n /\ \A b \in GeneralRegisters : t2.regs[b] = t.regs[b]
  BY <1>3, <1>5, RegisterNames
<1>7. Alike(s2, t2, l)
  BY <1>1, <1>2, <1>3, <1>6 DEF Alike
<1>. QED BY <1>3, <1>4, <1>7 DEF Paired, s2, t2

-----------------------------------------------------------------------------
(* An instruction that is carried over.                                    *)

Starts(s, t, i) ==
  /\ i \in DisassembledInsn
  /\ Paired(s, t, s.lost)
  /\ IsCarried(s, i)

\* What is to be shown of the opcode that the lifter gives.
Good(s, t, i, o) ==
  /\ Paired(Executed(s, i), Statement(t, o), LostAfter(s, i))
  /\ ~ IsUndefined(t, o)
  /\ SameWay(s, t, i, o)

Leaving == Jumps \cup { "jmp", "call", "ret", "ud2", "hlt" }

\* Which most opcodes can be seen to keep from going elsewhere.
LEMMA Plain ==
  ASSUME NEW s, NEW t, NEW i, NEW o, i.mnemonic \notin Leaving,
         o.op \notin { "Shl", "Shr", "Neg" } \/ ~ IsUndefined(t, o),
         Paired(Executed(s, i), Statement(t, o), LostAfter(s, i))
  PROVE  Good(s, t, i, o)
BY DEF Good, Leaving, SameWay, SameTargets, IsUndefined

\* The operands are in the range of what is followed; rsp after a call that has
\* come back is not among those that are read.
LEMMA CarriedOperand ==
  ASSUME NEW s, NEW t, NEW i, Starts(s, t, i), NEW k \in DOMAIN i.op_str
  PROVE  /\ i.op_str[k] \in Operand /\ FollowedOperand(i.op_str[k])
         /\ Readable(i.op_str[k], s.lost)
              \/ (ReloadsRsp(i) /\ i.mnemonic \in { "mov", "lea" } /\ k = 1 /\ IsReg(i.op_str[1]))
<1> DEFINE op == i.op_str[k]
<1>1. op \in Operand
  <2>1. i.op_str \in Seq(Operand)
    BY DEF Starts, DisassembledInsn
  <2>. QED BY <2>1, ElementOfSeq, LenProperties
<1>2. FollowedOperand(op) /\ FollowedForm(i)
  BY DEF Starts, IsCarried, IsFollowed, FollowedInsn
<1>3. ~ DepartsBy("rip", s, i) /\ ~ DepartsBy("stack", s, i)
  BY DEF Starts, IsCarried, Departures, Reasons
<1>4. ~ Uses(op, "rip")
  BY <1>3 DEF DepartsBy, Mentions
<1>5. ASSUME s.lost, Uses(op, "rsp")
      PROVE  ReloadsRsp(i) /\ i.mnemonic \in { "mov", "lea" } /\ k = 1 /\ IsReg(i.op_str[1])
  <2>1. k \in Mentions(i, "rsp") /\ ~ UsesRsp(i)
    BY <1>3, <1>5 DEF DepartsBy, Mentions
  <2>2. ReloadsRsp(i)
    BY <2>1 DEF UsesRsp
  <2>3. i.mnemonic # "leave"
    <3>1. CASE i.mnemonic = "leave"
      <4>1. Len(i.op_str) = 0
        BY <1>2, <3>1 DEF FollowedForm, Jumps, Moves, Arithmetic, Shifts
      <4>2. DOMAIN i.op_str = 1 .. 0
        BY <4>1, LenProperties DEF Starts, DisassembledInsn
      <4>. QED BY <4>2
    <3>. QED BY <3>1
  <2>4. i.mnemonic \in { "mov", "lea" } /\ k = 1 /\ ~ IsMem(op)
    BY <2>1, <2>2, <2>3 DEF ReloadsRsp
  <2>. QED BY <1>5, <2>2, <2>4 DEF Uses
<1>. QED BY <1>1, <1>2, <1>4, <1>5 DEF Readable

\* The destination is a register that both sides take it for.
LEMMA Destination ==
  ASSUME NEW op, FollowedOperand(op), IsReg(op)
  PROVE  /\ dst_base(op) \in GeneralRegisters
         /\ dst_base(op) = Register(op.name)
         /\ \A s, i, v : Put(s, i, op, v) = WithReg(s, dst_base(op), v)
<1>1. op.name \in FullWidth
  BY DEF FollowedOperand
<1>2. /\ IsRegister(op.name) /\ parse_register(op.name) = Register(op.name)
      /\ Register(op.name) \in GeneralRegisters
  BY <1>1, RegisterOf
<1>. QED BY <1>2 DEF dst_base, IsReg, Put

\* What has been loaded into rsp is the same on both sides.
LEMMA PairedLoad ==
  ASSUME NEW s, NEW t, NEW i, Starts(s, t, i), i.mnemonic # "leave", i.mnemonic # "ret",
         1 \in DOMAIN i.op_str, IsReg(i.op_str[1]), NEW v \in Words
  PROVE  Paired(Put(s, i, i.op_str[1], v), WithReg(t, dst_base(i.op_str[1]), v), LostAfter(s, i))
<1> DEFINE b == dst_base(i.op_str[1])
<1>1. FollowedOperand(i.op_str[1])
  BY CarriedOperand
<1>2. /\ b \in GeneralRegisters /\ b = Register(i.op_str[1].name)
      /\ Put(s, i, i.op_str[1], v) = WithReg(s, b, v)
      /\ b = "RSP" <=> i.op_str[1].name = "rsp"
  BY <1>1, Destination, RegisterOf DEF FollowedOperand
<1>3. Paired(WithReg(s, b, v), WithReg(t, b, v), s.lost /\ b # "RSP")
  BY <1>2, PairedReg DEF Starts
<1>4. s.lost /\ b # "RSP" => LostAfter(s, i)
  <2> SUFFICES ASSUME ReloadsRsp(i) PROVE b = "RSP"
    BY DEF LostAfter
  <2>1. 1 \in Mentions(i, "rsp")
    BY DEF ReloadsRsp
  <2>2. Uses(i.op_str[1], "rsp")
    BY <2>1 DEF Mentions
  <2>. QED BY <1>2, <2>2 DEF Uses, IsReg, IsMem
<1> HIDE DEF b
<1>5. Paired(WithReg(s, b, v), WithReg(t, b, v), LostAfter(s, i))
  BY <1>3, <1>4, PairedLess
<1>. QED BY <1>2, <1>5 DEF b

\* Operands that are there, all but a register that mov or lea loads.
LEMMA SourcesReadable ==
  ASSUME NEW s, NEW t, NEW i, Starts(s, t, i)
  PROVE  /\ DOMAIN i.op_str = 1 .. Len(i.op_str) /\ Len(i.op_str) \in Nat
         /\ \A k \in DOMAIN i.op_str :
              k # 1 \/ i.mnemonic \notin { "mov", "lea" } \/ ~ IsReg(i.op_str[1])
                => Readable(i.op_str[k], s.lost)
         /\ IsMachine(s) /\ IsC(t) /\ Alike(s, t, s.lost)
         /\ FollowedForm(i)
<1>1. DOMAIN i.op_str = 1 .. Len(i.op_str) /\ Len(i.op_str) \in Nat
  BY LenProperties DEF Starts, DisassembledInsn
<1>. QED BY <1>1, CarriedOperand DEF Starts, Paired, IsCarried, IsFollowed, FollowedInsn

\* A value at an address, read alike.
LEMMA PairedStore ==
  ASSUME NEW s, NEW t, NEW i, Starts(s, t, i), NEW op, Readable(op, s.lost), IsMem(op), NEW v \in Words, NEW vs
  PROVE  Paired(Put(s, i, op, v), WithMem(t, build_mem_addr_expr(t, parse_memory_operand(op, vs)), v), s.lost)
<1>1. IsMachine(s) /\ Alike(s, t, s.lost) /\ Paired(s, t, s.lost)
  BY DEF Starts, Paired
<1>2. /\ build_mem_addr_expr(t, parse_memory_operand(op, vs)) = Address(s, i, op)
      /\ Address(s, i, op) \in Words
  BY <1>1, AddressAgrees
<1>3. Put(s, i, op, v) = WithMem(s, Address(s, i, op), v)
  BY DEF Put, IsMem, IsReg
<1>. QED BY <1>1, <1>2, <1>3, PairedMem

-----------------------------------------------------------------------------
(* The arms, one by one.                                                   *)

\* What the machine does, by mnemonic.
LEMMA ExecutedIs ==
  ASSUME NEW s, NEW i
  PROVE  /\ i.mnemonic = "mov" => Executed(s, i) = Moved(s, i)
         /\ i.mnemonic = "lea" => Executed(s, i) = Addressed(s, i)
         /\ i.mnemonic \in Arithmetic /\ ~ Multiplies(i) => Executed(s, i) = Computed(s, i)
         /\ i.mnemonic \in { "inc", "dec", "neg", "not" } => Executed(s, i) = ComputedUnary(s, i)
         /\ i.mnemonic \in { "cmp", "test" } => Executed(s, i) = Compared(s, i)
         /\ i.mnemonic = "push" => Executed(s, i) = PushedOperand(s, i)
         /\ i.mnemonic = "pop" => Executed(s, i) = Popped(s, i)
         /\ i.mnemonic = "leave" => Executed(s, i) = LeftFrame(s)
         /\ i.mnemonic = "call" => Executed(s, i) = CalledFrom(s, i)
         /\ i.mnemonic = "ret" => Executed(s, i) = Raised(s)
         /\ i.mnemonic \in Moves => Executed(s, i) = MovedIf(s, i)
         /\ i.mnemonic \in Jumps \cup { "nop", "jmp", "ud2", "hlt" } => Executed(s, i) = s
BY DEF Executed, Arithmetic, Shifts, Moves, Jumps, Multiplies

\* mov: a store, a load, a move.
LEMMA MovGood ==
  ASSUME NEW s, NEW t, NEW i, Starts(s, t, i), i.mnemonic = "mov", NEW vs,
         NEW dst, dst.base = dst_base(i.op_str[1])
  PROVE  LET op1 == i.op_str[1]
             op2 == i.op_str[2]
         IN  /\ Len(i.op_str) = 2
             /\ IsMem(op1) /\ ~ IsMem(op2) =>
                  Good(s, t, i, Reads("Store", << parse_single_operand(op1, vs), parse_single_operand(op2, vs) >>))
             /\ ~ IsMem(op1) /\ IsMem(op2) =>
                  Good(s, t, i, Opcode("Load", dst, << parse_memory_operand(op2, vs) >>))
             /\ ~ (IsMem(op1) /\ IsMem(op2))
             /\ ~ IsMem(op1) /\ ~ IsMem(op2) =>
                  Good(s, t, i, Opcode("Mov", dst, << parse_single_operand(op2, vs) >>))
<1> DEFINE op1 == i.op_str[1]
           op2 == i.op_str[2]
           v   == Value(s, i, op2)
<1>1. Len(i.op_str) = 2 /\ ~ IsImm(op1) /\ ~ (IsMem(op1) /\ IsMem(op2))
  BY SourcesReadable DEF FollowedForm, Arithmetic, Shifts, Jumps, Moves
<1>2. 1 \in DOMAIN i.op_str /\ 2 \in DOMAIN i.op_str
  BY <1>1, SourcesReadable
<1>3. Readable(op2, s.lost)
  BY <1>2, SourcesReadable
<1>4. IsMachine(s) /\ Alike(s, t, s.lost)
  BY SourcesReadable
<1>5. emit_operand(t, parse_single_operand(op2, vs)) = v /\ v \in Words
  BY <1>3, <1>4, OperandAgrees
<1>6. Executed(s, i) = Put(s, i, op1, v)
  BY ExecutedIs DEF Moved
<1>7. i.mnemonic \notin Leaving
  BY DEF Leaving, Jumps
<1>8. op1 \in Operand
  BY <1>2, CarriedOperand
<1>9. CASE IsMem(op1) /\ ~ IsMem(op2)
  <2> DEFINE o == Reads("Store", << parse_single_operand(op1, vs), parse_single_operand(op2, vs) >>)
  <2>1. Readable(op1, s.lost)
    BY <1>2, <1>9, SourcesReadable DEF IsMem, IsReg
  <2>2. parse_single_operand(op1, vs) = parse_memory_operand(op1, vs) /\ parse_memory_operand(op1, vs).kind = "mem"
    BY <1>9 DEF parse_single_operand, parse_memory_operand, is_memory_operand, IsMem
  <2>3. /\ o.op = "Store" /\ o.srcs[1] = parse_memory_operand(op1, vs)
        /\ o.srcs[2] = parse_single_operand(op2, vs)
    BY <2>2 DEF Reads, Opcode
  <2> HIDE DEF o
  <2>4. Statement(t, o) = WithMem(t, build_mem_addr_expr(t, parse_memory_operand(op1, vs)), v)
    BY <1>5, <2>2, <2>3 DEF Statement, AfterStore, emit_mem_addr, Assignments
  <2>5. LostAfter(s, i) = s.lost
    BY <1>9, SourcesReadable DEF LostAfter, ReloadsRsp, IsMachine
  <2>6. Paired(Executed(s, i), Statement(t, o), LostAfter(s, i))
    BY <1>5, <1>6, <1>9, <2>1, <2>4, <2>5, PairedStore
  <2>7. Good(s, t, i, o)
    BY <1>7, <2>3, <2>6, Plain
  <2>. QED BY <1>1, <1>9, <2>7 DEF o
<1>10. CASE ~ IsMem(op1) /\ IsMem(op2)
  <2> DEFINE o == Opcode("Load", dst, << parse_memory_operand(op2, vs) >>)
  <2>1. IsReg(op1)
    BY <1>1, <1>8, <1>10 DEF Operand, IsReg, IsMem, IsImm
  <2>2. parse_single_operand(op2, vs) = parse_memory_operand(op2, vs) /\ parse_memory_operand(op2, vs).kind = "mem"
    BY <1>10 DEF parse_single_operand, parse_memory_operand, is_memory_operand, IsMem
  <2>3. o.op = "Load" /\ o.dst = dst /\ o.srcs[1] = parse_memory_operand(op2, vs)
    BY DEF Opcode
  <2> HIDE DEF o
  <2>4. ReadMem(t.mem, emit_mem_addr(t, o.srcs[1])) = v
    BY <1>5, <2>2, <2>3 DEF emit_mem_addr, emit_operand
  <2>5. Statement(t, o) = WithReg(t, dst_base(op1), v)
    BY <2>3, <2>4 DEF Statement, AfterAssign, Assigned, Assignments
  <2>6. Paired(Executed(s, i), Statement(t, o), LostAfter(s, i))
    BY <1>2, <1>5, <1>6, <2>1, <2>5, PairedLoad
  <2>7. Good(s, t, i, o)
    BY <1>7, <2>3, <2>6, Plain
  <2>. QED BY <1>1, <1>10, <2>7 DEF o
<1>11. CASE ~ IsMem(op1) /\ ~ IsMem(op2)
  <2> DEFINE o == Opcode("Mov", dst, << parse_single_operand(op2, vs) >>)
  <2>1. IsReg(op1)
    BY <1>1, <1>8, <1>11 DEF Operand, IsReg, IsMem, IsImm
  <2>3. o.op = "Mov" /\ o.dst = dst /\ o.srcs[1] = parse_single_operand(op2, vs)
    BY DEF Opcode
  <2> HIDE DEF o
  <2>5. Statement(t, o) = WithReg(t, dst_base(op1), v)
    BY <1>5, <2>3 DEF Statement, AfterAssign, Assigned, Assignments
  <2>6. Paired(Executed(s, i), Statement(t, o), LostAfter(s, i))
    BY <1>2, <1>5, <1>6, <2>1, <2>5, PairedLoad
  <2>7. Good(s, t, i, o)
    BY <1>7, <2>3, <2>6, Plain
  <2>. QED BY <1>1, <1>11, <2>7 DEF o
<1>. QED BY <1>1, <1>9, <1>10, <1>11

\* lea.
LEMMA LeaGood ==
  ASSUME NEW s, NEW t, NEW i, Starts(s, t, i), i.mnemonic = "lea", NEW vs,
         NEW dst, dst.base = dst_base(i.op_str[1])
  PROVE  /\ Len(i.op_str) = 2
         /\ Good(s, t, i, Opcode("Lea", dst, << parse_memory_operand(i.op_str[2], vs) >>))
<1> DEFINE op1 == i.op_str[1]
           op2 == i.op_str[2]
           v   == Address(s, i, op2)
           o   == Opcode("Lea", dst, << parse_memory_operand(op2, vs) >>)
<1>1. Len(i.op_str) = 2 /\ IsReg(op1) /\ IsMem(op2)
  BY SourcesReadable DEF FollowedForm, Arithmetic, Shifts, Jumps, Moves
<1>2. 1 \in DOMAIN i.op_str /\ 2 \in DOMAIN i.op_str
  BY <1>1, SourcesReadable
<1>3. Readable(op2, s.lost)
  BY <1>2, SourcesReadable
<1>4. IsMachine(s) /\ Alike(s, t, s.lost)
  BY SourcesReadable
<1>5. build_mem_addr_expr(t, parse_memory_operand(op2, vs)) = v /\ v \in Words
  BY <1>1, <1>3, <1>4, AddressAgrees
<1>6. Executed(s, i) = Put(s, i, op1, v)
  BY ExecutedIs DEF Addressed
<1>7. i.mnemonic \notin Leaving
  BY DEF Leaving, Jumps
<1>8. o.op = "Lea" /\ o.dst = dst /\ o.srcs[1] = parse_memory_operand(op2, vs) /\ o.srcs[1].kind = "mem"
  BY DEF Opcode, parse_memory_operand
<1> HIDE DEF o, v
<1>9. Statement(t, o) = WithReg(t, dst_base(op1), v)
  BY <1>5, <1>8 DEF Statement, AfterAssign, Assigned, Assignments, emit_mem_addr
<1>10. Paired(Executed(s, i), Statement(t, o), LostAfter(s, i))
  BY <1>1, <1>2, <1>5, <1>6, <1>9, PairedLoad
<1>. QED BY <1>1, <1>7, <1>8, <1>10, Plain DEF o

\* A result of an instruction with two operands is a word.
LEMMA BinaryWord ==
  ASSUME NEW mn \in Arithmetic, mn # "sar", NEW x \in Words, NEW y \in Words, mn \in Shifts => y < W
  PROVE  Binary(mn, x, y) \in Words
<1>1. x \in Int /\ y \in Int /\ x >= 0 /\ y >= 0 /\ x < Top /\ W \in Nat
  BY TopIs, WordAssumption DEF Words
<1>2. CASE mn \in { "add", "sub", "imul" }
  <2>1. Word(x + y) \in Words /\ Word(x - y) \in Words
    BY <1>1, WordIsWord
  <2>2. Word(x * y) \in Words
    <3>1. x * y \in Int
      BY <1>1
    <3>. QED BY <3>1, WordIsWord
  <2>. QED BY <1>2, <2>1, <2>2 DEF Binary
<1>3. CASE mn \in { "and", "or", "xor" }
  BY <1>3, BitwiseAssumption DEF Binary
<1>4. CASE mn \in { "shl", "shr" }
  <2>1. 2 ^ y \in Nat \ {0}
    BY <1>1, <1>4, WordAssumption DEF Shifts
  <2>2. ShiftedLeft(x, y) \in Words
    <3>1. x * 2 ^ y \in Int
      BY <1>1, <2>1
    <3>. QED BY <3>1, WordIsWord DEF ShiftedLeft
  <2>3. ShiftedRight(x, y) \in Words
    <3>1. \A n \in Nat : n > 0 => x \div n \in Int /\ x \div n >= 0 /\ x \div n <= x
      BY <1>1
    <3>2. x \div 2 ^ y \in Int /\ x \div 2 ^ y >= 0 /\ x \div 2 ^ y <= x
      BY <2>1, <3>1
    <3>. QED BY <1>1, <3>2, TopIs DEF ShiftedRight, Words
  <2>. QED BY <1>4, <2>2, <2>3 DEF Binary
<1>. QED BY <1>2, <1>3, <1>4 DEF Arithmetic, Shifts

\* Flags that an instruction sets are of the right shape.
LEMMA FlagsShape ==
  ASSUME NEW from \in { "cmp", "test", "other", "undefined" }, NEW r,
         NEW cf \in BOOLEAN, NEW of \in BOOLEAN
  PROVE  Flags(from, r, cf, of) \in SomeFlags /\ Flags(from, r, cf, of).from = from
BY DEF Flags, SomeFlags, Negative

\* Nothing else changes in flags that become undefined, or in the carry flag.
LEMMA FlagsWith ==
  ASSUME NEW f \in SomeFlags, NEW cf \in BOOLEAN
  PROVE  /\ Undefined(f) \in SomeFlags /\ Undefined(f).from = "undefined"
         /\ [ f EXCEPT !.cf = cf ] \in SomeFlags /\ [ f EXCEPT !.cf = cf ].from = f.from
BY DEF Undefined, SomeFlags

LEMMA DifferenceFlags ==
  ASSUME NEW x \in Int, NEW y \in Int
  PROVE  /\ FlagsOfSub("cmp", x, y) \in SomeFlags /\ FlagsOfSub("cmp", x, y).from = "cmp"
         /\ FlagsOfSub("other", x, y) \in SomeFlags /\ FlagsOfSub("other", x, y).from = "other"
         /\ FlagsOfAdd("other", x, y) \in SomeFlags /\ FlagsOfAdd("other", x, y).from = "other"
<1> DEFINE r  == Word(x - y)
           cf == x < y
           of == Signed(x) - Signed(y) # Signed(r)
           r2  == Word(x + y)
           cf2 == x + y >= Top
           of2 == Signed(x) + Signed(y) # Signed(r2)
<1>1. cf \in BOOLEAN /\ of \in BOOLEAN /\ cf2 \in BOOLEAN /\ of2 \in BOOLEAN
  BY TopIs
<1>2. /\ FlagsOfSub("cmp", x, y) = Flags("cmp", r, cf, of)
      /\ FlagsOfSub("other", x, y) = Flags("other", r, cf, of)
      /\ FlagsOfAdd("other", x, y) = Flags("other", r2, cf2, of2)
  BY DEF FlagsOfSub, FlagsOfAdd
<1> HIDE DEF r, cf, of, r2, cf2, of2
<1>. QED BY <1>1, <1>2, FlagsShape

LEMMA ArithmeticFlags ==
  ASSUME NEW s, IsMachine(s), NEW mn, NEW x \in Int, NEW y \in Int
  PROVE  /\ FlagsAfter(s, mn, x, y) \in SomeFlags
         /\ FlagsAfter(s, mn, x, y).from \notin { "cmp", "test" }
<1>1. Undefined(s.flags) \in SomeFlags /\ Undefined(s.flags).from = "undefined"
  BY FlagsWith DEF IsMachine
<1>2. \A r : FlagsOfLogic("other", r) \in SomeFlags /\ FlagsOfLogic("other", r).from = "other"
  BY FlagsShape DEF FlagsOfLogic
<1>3. \E f \in { FlagsOfAdd("other", x, y), FlagsOfSub("other", x, y),
                  FlagsOfLogic("other", Binary(mn, x, y)), Undefined(s.flags) } : FlagsAfter(s, mn, x, y) = f
  BY DEF FlagsAfter
<1>. QED BY <1>1, <1>2, <1>3, DifferenceFlags

\* Both sides compute the same from the same operands.
LEMMA AluSame ==
  ASSUME NEW t, NEW mn \in Arithmetic, mn # "sar", NEW o, o.op = AluOp(mn),
         NEW x, x = emit_operand(t, o.srcs[1]), NEW y, y = emit_operand(t, o.srcs[2])
  PROVE  /\ o.op \in Assignments
         /\ Assigned(t, o) = Binary(mn, x, y)
         /\ o.op \in { "Shl", "Shr" } => mn \in Shifts
<1>1. CASE mn = "add"
  BY <1>1 DEF AluOp, Assignments, Assigned, Binary
<1>2. CASE mn = "sub"
  BY <1>2 DEF AluOp, Assignments, Assigned, Binary
<1>3. CASE mn = "imul"
  BY <1>3 DEF AluOp, Assignments, Assigned, Binary
<1>4. CASE mn = "and"
  BY <1>4 DEF AluOp, Assignments, Assigned, Binary
<1>5. CASE mn = "or"
  BY <1>5 DEF AluOp, Assignments, Assigned, Binary
<1>6. CASE mn = "xor"
  BY <1>6 DEF AluOp, Assignments, Assigned, Binary
<1>7. CASE mn = "shl"
  BY <1>7 DEF AluOp, Assignments, Assigned, Binary, Shifts
<1>8. CASE mn = "shr"
  BY <1>8 DEF AluOp, Assignments, Assigned, Binary, Shifts
<1>. QED BY <1>1, <1>2, <1>3, <1>4, <1>5, <1>6, <1>7, <1>8 DEF Arithmetic, Shifts

LEMMA TwoOrThree ==
  ASSUME NEW n \in { 2, 3 }
  PROVE  /\ 1 \in 1 .. n /\ n \in 1 .. n /\ n - 1 \in 1 .. n /\ n >= 2
         /\ (n >= 3 /\ n - 1 = 2) \/ (~ n >= 3 /\ n - 1 = 1)
OBVIOUS

\* add, sub, imul, and, or, xor, shl, shr: the operands are the last two.
LEMMA AluGood ==
  ASSUME NEW s, NEW t, NEW i, Starts(s, t, i), i.mnemonic \in Arithmetic, NEW vs,
         NEW dst, dst.base = dst_base(i.op_str[1]),
         NEW n, n = Len(i.op_str),
         NEW rhs, rhs = parse_single_operand(i.op_str[n], vs),
         NEW lhs, lhs = IF n >= 3 THEN parse_single_operand(i.op_str[2], vs)
                                  ELSE parse_single_operand(i.op_str[1], vs)
  PROVE  /\ n >= 2
         /\ Good(s, t, i, Opcode(AluOp(i.mnemonic), dst, << lhs, rhs >>))
<1> DEFINE op1 == i.op_str[1]
           o   == Opcode(AluOp(i.mnemonic), dst, << lhs, rhs >>)
           x   == Left(s, i)
           y   == Right(s, i)
           v   == Binary(i.mnemonic, x, y)
<1>1. n \in { 2, 3 } /\ ~ IsImm(op1)
  <2>1. FollowedForm(i)
    BY SourcesReadable
  <2>2. CASE i.mnemonic = "imul"
    <3>1. n # 1
      BY <2>2 DEF Starts, IsCarried, Departures, Reasons, DepartsBy, Multiplies
    <3>. QED BY <2>1, <2>2, <3>1 DEF FollowedForm, Arithmetic, Shifts, Jumps, Moves, IsReg, IsImm
  <2>3. CASE i.mnemonic # "imul"
    BY <2>1, <2>3 DEF FollowedForm, Arithmetic, Shifts, Jumps, Moves
  <2>. QED BY <2>2, <2>3
<1>2. 1 \in DOMAIN i.op_str /\ n \in DOMAIN i.op_str /\ n - 1 \in DOMAIN i.op_str
  <2>1. DOMAIN i.op_str = 1 .. n
    BY SourcesReadable
  <2>2. 1 \in 1 .. n /\ n \in 1 .. n /\ n - 1 \in 1 .. n
    BY <1>1, TwoOrThree
  <2>. QED BY <2>1, <2>2
<1>3. i.mnemonic # "sar" /\ ~ (i.mnemonic # "imul" /\ IsMem(op1))
  BY DEF Starts, IsCarried, Departures, Reasons, DepartsBy, Arithmetic, Shifts
<1>4. IsReg(op1)
  <2>0. i.mnemonic = "imul" => IsReg(op1)
    <3>1. FollowedForm(i) /\ Len(i.op_str) # 1
      BY <1>1, SourcesReadable
    <3>. QED BY <3>1 DEF FollowedForm, Arithmetic, Shifts, Jumps, Moves
  <2>1. op1 \in Operand
    BY <1>2, CarriedOperand
  <2>. QED BY <1>1, <1>3, <2>0, <2>1 DEF Operand, IsReg, IsMem, IsImm
<1>5. IsMachine(s) /\ Alike(s, t, s.lost)
  BY SourcesReadable
<1>6. i.mnemonic \notin { "mov", "lea", "ret", "leave" } /\ i.mnemonic \notin Leaving
  BY DEF Arithmetic, Shifts, Leaving, Jumps
<1>7. Readable(i.op_str[n], s.lost) /\ Readable(i.op_str[n - 1], s.lost)
  BY <1>2, <1>6, SourcesReadable
<1>8. emit_operand(t, rhs) = y /\ y \in Words
  BY <1>5, <1>7, OperandAgrees DEF Right
<1>9. emit_operand(t, lhs) = x /\ x \in Words
  <2>1. lhs = parse_single_operand(i.op_str[n - 1], vs)
    <3>1. (n >= 3 /\ n - 1 = 2) \/ (~ n >= 3 /\ n - 1 = 1)
      BY <1>1, TwoOrThree
    <3>. QED BY <3>1
  <2>. QED BY <1>5, <1>7, <2>1, OperandAgrees DEF Left
<1>10. i.mnemonic \in Shifts => y < W
  BY DEF Starts, IsCarried, IsFollowed, FollowedInsn
<1>11. o.op = AluOp(i.mnemonic) /\ o.dst = dst /\ o.srcs[1] = lhs /\ o.srcs[2] = rhs
  BY DEF Opcode
<1>12. v \in Words
  BY <1>3, <1>8, <1>9, <1>10, BinaryWord
<1>13. Executed(s, i) = WithFlags(Put(s, i, op1, v), FlagsAfter(s, i.mnemonic, x, y))
  <2>1. ~ Multiplies(i)
    BY <1>1 DEF Multiplies, Arithmetic, Shifts
  <2>. QED BY <2>1, ExecutedIs DEF Computed
<1> HIDE DEF o, x, y
<1>14. o.op \in Assignments /\ Assigned(t, o) = v /\ (o.op \in { "Shl", "Shr" } => i.mnemonic \in Shifts)
  BY <1>3, <1>8, <1>9, <1>11, AluSame
<1>21. o.op # "Neg"
  BY <1>11 DEF AluOp, Arithmetic, Shifts
<1> HIDE DEF v
<1>15. Statement(t, o) = WithReg(t, dst_base(op1), v)
  BY <1>11, <1>14 DEF Statement, AfterAssign, Assignments
<1>16. Paired(Put(s, i, op1, v), Statement(t, o), LostAfter(s, i))
  BY <1>2, <1>4, <1>6, <1>12, <1>15, PairedLoad
<1>17. /\ FlagsAfter(s, i.mnemonic, x, y) \in SomeFlags
       /\ FlagsAfter(s, i.mnemonic, x, y).from \notin { "cmp", "test" }
  <2>1. x \in Int /\ y \in Int
    BY <1>8, <1>9 DEF Words
  <2>. QED BY <1>5, <2>1, ArithmeticFlags
<1>18. Paired(Executed(s, i), Statement(t, o), LostAfter(s, i))
  BY <1>13, <1>16, <1>17, PairedFlags
<1>19. ~ IsUndefined(t, o)
  <2>1. y \in Int /\ W \in Int
    BY <1>8, WordAssumption DEF Words
  <2>. QED BY <1>8, <1>10, <1>11, <1>14, <1>21, <2>1 DEF IsUndefined
<1>20. Good(s, t, i, o)
  BY <1>6, <1>18, <1>19 DEF Good, SameWay, SameTargets, Leaving
<1>. QED BY <1>1, <1>20, TwoOrThree DEF o

\* The register of an operand that is one, read before it is written.
LEMMA OwnRegister ==
  ASSUME NEW s, NEW t, NEW i, Starts(s, t, i), i.mnemonic \notin { "mov", "lea" },
         1 \in DOMAIN i.op_str, IsReg(i.op_str[1])
  PROVE  /\ t.regs[dst_base(i.op_str[1])] = Value(s, i, i.op_str[1])
         /\ Value(s, i, i.op_str[1]) \in Words
<1> DEFINE op1 == i.op_str[1]
<1>1. Readable(op1, s.lost) /\ IsMachine(s) /\ Alike(s, t, s.lost)
  BY SourcesReadable
<1>2. op1.name \in FullWidth /\ (s.lost => op1.name # "rsp")
  BY <1>1 DEF Readable, FollowedOperand, Uses
<1>3. dst_base(op1) = parse_register(op1.name)
  BY <1>2, RegisterOf DEF dst_base, IsReg
<1>4. Value(s, i, op1) = s.regs[Register(op1.name)]
  BY DEF Value, IsReg, IsImm
<1>. QED BY <1>1, <1>2, <1>3, <1>4, RegisterAgrees

\* A machine is what it is with its own flags.
LEMMA PairedSameFlags ==
  ASSUME NEW s, NEW t, NEW l, Paired(s, t, l)
  PROVE  Paired(WithFlags(s, s.flags), t, l)
<1> DEFINE s2 == WithFlags(s, s.flags)
<1>1. IsMachine(s) /\ IsC(t) /\ Alike(s, t, l)
  BY DEF Paired
<1>2. /\ DOMAIN s2 = DOMAIN s
      /\ s2.flags = s.flags /\ s2.regs = s.regs /\ s2.mem = s.mem /\ s2.lost = s.lost
  BY <1>1 DEF WithFlags, IsMachine, Fields
<1> HIDE DEF s2
<1>3. IsMachine(s2)
  BY <1>1, <1>2 DEF IsMachine, Fields
<1>4. Alike(s2, t, l)
  BY <1>1, <1>2 DEF Alike
<1>. QED BY <1>1, <1>3, <1>4 DEF Paired, s2

\* The results of the instructions with one operand are words.
LEMMA UnaryWords ==
  ASSUME NEW x \in Words
  PROVE  /\ Word(x + 1) \in Words /\ Word(x - 1) \in Words /\ Word(0 - x) \in Words
         /\ Complement(x) \in Words /\ x \in Int /\ Word(1) = 1
<1>1. x \in Int /\ x >= 0 /\ x < Top
  BY TopIs DEF Words
<1>2. Word(x + 1) \in Words /\ Word(x - 1) \in Words /\ Word(0 - x) \in Words
  BY <1>1, WordIsWord
<1>3. Complement(x) \in Words
  BY <1>1, TopIs DEF Complement, Words
<1>4. Word(1) = 1
  BY TopIs, WordOfWord
<1>. QED BY <1>1, <1>2, <1>3, <1>4

\* The flags of an instruction with one operand are none that the C takes over,
\* or the ones there were.
LEMMA UnaryFlags ==
  ASSUME NEW s, IsMachine(s), NEW x \in Int
  PROVE  /\ \A mn \in { "inc", "dec", "neg" } :
              /\ FlagsAfterUnary(s, mn, x) \in SomeFlags
              /\ FlagsAfterUnary(s, mn, x).from \notin { "cmp", "test" }
         /\ FlagsAfterUnary(s, "not", x) = s.flags
<1>1. s.flags.cf \in BOOLEAN
  BY DEF IsMachine, SomeFlags
<1> DEFINE add == FlagsOfAdd("other", x, 1)
           sub == FlagsOfSub("other", x, 1)
           cf  == s.flags.cf
<1>2. add \in SomeFlags /\ add.from = "other" /\ sub \in SomeFlags /\ sub.from = "other"
  BY DifferenceFlags
<1>3. FlagsOfSub("other", 0, x) \in SomeFlags /\ FlagsOfSub("other", 0, x).from = "other"
  BY DifferenceFlags
<1>4. /\ FlagsAfterUnary(s, "inc", x) = [ add EXCEPT !.cf = cf ]
      /\ FlagsAfterUnary(s, "dec", x) = [ sub EXCEPT !.cf = cf ]
      /\ FlagsAfterUnary(s, "neg", x) = FlagsOfSub("other", 0, x)
      /\ FlagsAfterUnary(s, "not", x) = s.flags
  BY DEF FlagsAfterUnary
<1> HIDE DEF add, sub, cf
<1>5. cf \in BOOLEAN
  BY <1>1 DEF cf
<1>6. [ add EXCEPT !.cf = cf ] \in SomeFlags /\ [ add EXCEPT !.cf = cf ].from = "other"
  BY <1>2, <1>5, FlagsWith
<1>7. [ sub EXCEPT !.cf = cf ] \in SomeFlags /\ [ sub EXCEPT !.cf = cf ].from = "other"
  BY <1>2, <1>5, FlagsWith
<1>. QED BY <1>3, <1>4, <1>6, <1>7

\* not, neg, inc and dec: of the register that they write.
LEMMA UnaryGood ==
  ASSUME NEW s, NEW t, NEW i, Starts(s, t, i), i.mnemonic \in { "not", "neg", "inc", "dec" },
         NEW dst, dst.base = dst_base(i.op_str[1]),
         NEW cur, cur.kind = "var", cur.var.base = dst_base(i.op_str[1])
  PROVE  /\ Len(i.op_str) = 1 /\ ~ IsMem(i.op_str[1])
         /\ i.mnemonic = "not" => Good(s, t, i, Opcode("Not", dst, << cur >>))
         /\ i.mnemonic = "neg" => Good(s, t, i, Opcode("Neg", dst, << cur >>))
         /\ i.mnemonic = "inc" => Good(s, t, i, Opcode("Add", dst, << cur, Imm(1) >>))
         /\ i.mnemonic = "dec" => Good(s, t, i, Opcode("Sub", dst, << cur, Imm(1) >>))
<1> DEFINE op1 == i.op_str[1]
           x   == Value(s, i, op1)
           v   == UnaryResult(i.mnemonic, x)
<1>1. Len(i.op_str) = 1 /\ ~ IsImm(op1)
  BY SourcesReadable DEF FollowedForm, Arithmetic, Shifts, Jumps, Moves
<1>2. 1 \in DOMAIN i.op_str
  BY <1>1, SourcesReadable
<1>3. ~ IsMem(op1)
  BY DEF Starts, IsCarried, Departures, Reasons, DepartsBy
<1>4. IsReg(op1)
  <2>1. op1 \in Operand
    BY <1>2, CarriedOperand
  <2>. QED BY <1>1, <1>3, <2>1 DEF Operand, IsReg, IsMem, IsImm
<1>5. IsMachine(s) /\ t.regs[dst_base(op1)] = x /\ x \in Words
  BY <1>2, <1>4, OwnRegister, SourcesReadable
<1>6. i.mnemonic \notin { "leave", "ret" } /\ i.mnemonic \notin Leaving
  BY DEF Leaving, Jumps
<1>7. Executed(s, i) = WithFlags(Put(s, i, op1, v), FlagsAfterUnary(s, i.mnemonic, x))
  BY ExecutedIs DEF ComputedUnary
<1> HIDE DEF x
<1>8. v \in Words
  BY <1>5, UnaryWords DEF UnaryResult
<1>9. emit_operand(t, cur) = x
  BY <1>5 DEF emit_operand, var_name
<1>10. emit_operand(t, Imm(1)) = 1
  BY <1>5, UnaryWords DEF emit_operand, Imm
<1> HIDE DEF v
<1>11. ASSUME NEW o, o.op \in { "Not", "Neg", "Add", "Sub" }, o.dst = dst, Assigned(t, o) = v,
              o.op = "Neg" => ~ IsUndefined(t, o)
       PROVE  Good(s, t, i, o)
  <2>1. Statement(t, o) = WithReg(t, dst_base(op1), v)
    BY <1>11 DEF Statement, AfterAssign, Assignments
  <2>2. Paired(Put(s, i, op1, v), Statement(t, o), LostAfter(s, i))
    BY <1>2, <1>4, <1>6, <1>8, <2>1, PairedLoad
  <2>3. Paired(Executed(s, i), Statement(t, o), LostAfter(s, i))
    <3>1. CASE i.mnemonic = "not"
      <4>1. Put(s, i, op1, v).flags = s.flags
        <5>1. Put(s, i, op1, v) = WithReg(s, dst_base(op1), v) /\ dst_base(op1) \in GeneralRegisters
          BY <1>2, <1>4, CarriedOperand, Destination
        <5>2. \A b \in GeneralRegisters : WithReg(s, b, v).flags = s.flags
          BY <1>5, <1>8, MachineWithReg
        <5>. QED BY <5>1, <5>2
      <4>2. FlagsAfterUnary(s, i.mnemonic, x) = Put(s, i, op1, v).flags
        BY <1>5, <3>1, <4>1, UnaryWords, UnaryFlags
      <4>. QED BY <1>7, <2>2, <4>2, PairedSameFlags
    <3>2. CASE i.mnemonic # "not"
      <4>1. /\ FlagsAfterUnary(s, i.mnemonic, x) \in SomeFlags
            /\ FlagsAfterUnary(s, i.mnemonic, x).from \notin { "cmp", "test" }
        BY <1>5, <3>2, UnaryWords, UnaryFlags
      <4>. QED BY <1>7, <2>2, <4>1, PairedFlags
    <3>. QED BY <3>1, <3>2
  <2>4. o.op \notin { "Shl", "Shr", "Neg" } \/ ~ IsUndefined(t, o)
    BY <1>11
  <2>. QED BY <1>6, <2>3, <2>4, Plain
<1>12. i.mnemonic = "not" => Good(s, t, i, Opcode("Not", dst, << cur >>))
  <2> DEFINE o == Opcode("Not", dst, << cur >>)
  <2>1. o.op = "Not" /\ o.dst = dst /\ o.srcs[1] = cur
    BY DEF Opcode
  <2> HIDE DEF o
  <2>2. i.mnemonic = "not" => Assigned(t, o) = v
    BY <1>9, <2>1 DEF Assigned, UnaryResult, v
  <2>. QED BY <1>11, <2>1, <2>2 DEF o
<1>13. i.mnemonic = "neg" => Good(s, t, i, Opcode("Neg", dst, << cur >>))
  <2> DEFINE o == Opcode("Neg", dst, << cur >>)
  <2>1. o.op = "Neg" /\ o.dst = dst /\ o.srcs[1] = cur
    BY DEF Opcode
  <2> HIDE DEF o
  <2>2. i.mnemonic = "neg" => Assigned(t, o) = v
    BY <1>9, <2>1 DEF Assigned, UnaryResult, v
  <2>3. i.mnemonic = "neg" => x # Top \div 2
    BY <1>4 DEF Starts, IsCarried, Departures, Reasons, DepartsBy, x
  <2>4. i.mnemonic = "neg" => ~ IsUndefined(t, o)
    BY <1>9, <2>1, <2>3 DEF IsUndefined
  <2>. QED BY <1>11, <2>1, <2>2, <2>4 DEF o
<1>14. i.mnemonic = "inc" => Good(s, t, i, Opcode("Add", dst, << cur, Imm(1) >>))
  <2> DEFINE o == Opcode("Add", dst, << cur, Imm(1) >>)
  <2>1. o.op = "Add" /\ o.dst = dst /\ o.srcs[1] = cur /\ o.srcs[2] = Imm(1)
    BY DEF Opcode
  <2> HIDE DEF o
  <2>2. i.mnemonic = "inc" => Assigned(t, o) = v
    BY <1>9, <1>10, <2>1 DEF Assigned, UnaryResult, v
  <2>. QED BY <1>11, <2>1, <2>2 DEF o
<1>15. i.mnemonic = "dec" => Good(s, t, i, Opcode("Sub", dst, << cur, Imm(1) >>))
  <2> DEFINE o == Opcode("Sub", dst, << cur, Imm(1) >>)
  <2>1. o.op = "Sub" /\ o.dst = dst /\ o.srcs[1] = cur /\ o.srcs[2] = Imm(1)
    BY DEF Opcode
  <2> HIDE DEF o
  <2>2. i.mnemonic = "dec" => Assigned(t, o) = v
    BY <1>9, <1>10, <2>1 DEF Assigned, UnaryResult, v
  <2>. QED BY <1>11, <2>1, <2>2 DEF o
<1>. QED BY <1>1, <1>3, <1>12, <1>13, <1>14, <1>15

\* A test sets the flags of a bitwise and; cpu.rflags gets the first of them.
LEMMA TestFlags ==
  ASSUME NEW r \in Words, NEW n, n = IF r = 0 THEN 1 ELSE 0
  PROVE  FlagsOfLogic("test", r) \in SomeFlags /\ FlagsAgree(FlagsOfLogic("test", r), n)
<1> DEFINE f == FlagsOfLogic("test", r)
<1>1. f \in SomeFlags /\ f.from = "test"
  BY FlagsShape DEF FlagsOfLogic
<1>2. f.zf = (r = 0) /\ f.cf = FALSE
  BY DEF FlagsOfLogic, Flags
<1> HIDE DEF f
<1>3. FlagsAgree(f, n)
  BY <1>1, <1>2 DEF FlagsAgree
<1>. QED BY <1>1, <1>3 DEF f

\* A cmp sets the flags of a difference; cpu.rflags gets what they say.
LEMMA CmpFlags ==
  ASSUME NEW x \in Words, NEW y \in Words, NEW n,
         n = (IF x = y THEN 1 ELSE 0) + (IF x < y THEN 2 ELSE 0) + (IF Signed(x) < Signed(y) THEN 4 ELSE 0)
  PROVE  FlagsOfSub("cmp", x, y) \in SomeFlags /\ FlagsAgree(FlagsOfSub("cmp", x, y), n)
<1> DEFINE f == FlagsOfSub("cmp", x, y)
<1>1. x \in Int /\ y \in Int
  BY DEF Words
<1>2. f \in SomeFlags /\ f.from = "cmp"
  BY <1>1, DifferenceFlags
<1>3. (f.zf <=> x = y) /\ (f.cf <=> x < y) /\ (f.sf # f.of <=> Signed(x) < Signed(y))
  BY ComparisonFlags
<1> HIDE DEF f
<1>4. /\ (IF f.zf THEN 1 ELSE 0) = (IF x = y THEN 1 ELSE 0)
      /\ (IF f.cf THEN 2 ELSE 0) = (IF x < y THEN 2 ELSE 0)
      /\ (IF f.sf # f.of THEN 4 ELSE 0) = (IF Signed(x) < Signed(y) THEN 4 ELSE 0)
  BY <1>3
<1>5. FlagsAgree(f, n)
  BY <1>2, <1>4 DEF FlagsAgree
<1>. QED BY <1>2, <1>5 DEF f

\* cmp and test.
LEMMA CompareGood ==
  ASSUME NEW s, NEW t, NEW i, Starts(s, t, i), i.mnemonic \in { "cmp", "test" }, NEW vs,
         NEW lhs, lhs = parse_single_operand(i.op_str[1], vs),
         NEW rhs, rhs = parse_single_operand(i.op_str[2], vs)
  PROVE  /\ Len(i.op_str) = 2
         /\ i.mnemonic = "cmp" => Good(s, t, i, Reads("Cmp", << lhs, rhs >>))
         /\ i.mnemonic = "test" => Good(s, t, i, Reads("Test", << lhs, rhs >>))
<1> DEFINE x == Value(s, i, i.op_str[1])
           y == Value(s, i, i.op_str[2])
           cmp  == (IF x = y THEN 1 ELSE 0) + (IF x < y THEN 2 ELSE 0) + (IF Signed(x) < Signed(y) THEN 4 ELSE 0)
           test == IF BitAnd(x, y) = 0 THEN 1 ELSE 0
<1>1. Len(i.op_str) = 2
  BY SourcesReadable DEF FollowedForm, Arithmetic, Shifts, Jumps, Moves
<1>2. 1 \in DOMAIN i.op_str /\ 2 \in DOMAIN i.op_str
  BY <1>1, SourcesReadable
<1>3. Readable(i.op_str[1], s.lost) /\ Readable(i.op_str[2], s.lost) /\ IsMachine(s) /\ Alike(s, t, s.lost)
  BY <1>2, SourcesReadable
<1>4. emit_operand(t, lhs) = x /\ x \in Words /\ emit_operand(t, rhs) = y /\ y \in Words
  BY <1>3, OperandAgrees
<1>5. LostAfter(s, i) = s.lost /\ i.mnemonic \notin Leaving
  BY <1>3 DEF LostAfter, ReloadsRsp, IsMachine, Leaving, Jumps
<1>6. /\ i.mnemonic = "cmp" => Executed(s, i) = WithFlags(s, FlagsOfSub("cmp", x, y))
      /\ i.mnemonic = "test" => Executed(s, i) = WithFlags(s, FlagsOfLogic("test", BitAnd(x, y)))
  BY ExecutedIs DEF Compared
<1> HIDE DEF x, y
<1>7. Paired(s, t, s.lost)
  BY DEF Starts
<1>8. i.mnemonic = "cmp" => Good(s, t, i, Reads("Cmp", << lhs, rhs >>))
  <2> SUFFICES ASSUME i.mnemonic = "cmp" PROVE Good(s, t, i, Reads("Cmp", << lhs, rhs >>))
    OBVIOUS
  <2> DEFINE o == Reads("Cmp", << lhs, rhs >>)
  <2>1. o.op = "Cmp" /\ o.srcs[1] = lhs /\ o.srcs[2] = rhs
    BY DEF Reads, Opcode
  <2> HIDE DEF o
  <2>2. Statement(t, o) = AfterCompare(t, o)
    BY <2>1 DEF Statement, Assignments
  <2>3. AfterCompare(t, o) = WithReg(t, "RFlags", cmp)
    BY <1>4, <2>1 DEF AfterCompare
  <2>4. FlagsOfSub("cmp", x, y) \in SomeFlags /\ FlagsAgree(FlagsOfSub("cmp", x, y), cmp)
    BY <1>4, CmpFlags
  <2> HIDE DEF cmp
  <2>5. Paired(Executed(s, i), Statement(t, o), LostAfter(s, i))
    BY <1>5, <1>6, <1>7, <2>2, <2>3, <2>4, PairedComparison
  <2>. QED BY <1>5, <2>1, <2>5, Plain DEF o
<1>9. i.mnemonic = "test" => Good(s, t, i, Reads("Test", << lhs, rhs >>))
  <2> SUFFICES ASSUME i.mnemonic = "test" PROVE Good(s, t, i, Reads("Test", << lhs, rhs >>))
    OBVIOUS
  <2> DEFINE o == Reads("Test", << lhs, rhs >>)
             r == BitAnd(x, y)
  <2>1. o.op = "Test" /\ o.srcs[1] = lhs /\ o.srcs[2] = rhs
    BY DEF Reads, Opcode
  <2> HIDE DEF o
  <2>2. Statement(t, o) = AfterCompare(t, o)
    BY <2>1 DEF Statement, Assignments
  <2>3. AfterCompare(t, o) = WithReg(t, "RFlags", test)
    BY <1>4, <2>1 DEF AfterCompare
  <2>4. FlagsOfLogic("test", r) \in SomeFlags /\ FlagsAgree(FlagsOfLogic("test", r), test)
    <3>1. r \in Words
      BY <1>4, BitwiseAssumption
    <3>. QED BY <3>1, TestFlags
  <2> HIDE DEF test
  <2>5. Paired(Executed(s, i), Statement(t, o), LostAfter(s, i))
    BY <1>5, <1>6, <1>7, <2>2, <2>3, <2>4, PairedComparison
  <2>. QED BY <1>5, <2>1, <2>5, Plain DEF o
<1>. QED BY <1>1, <1>8, <1>9

\* Without an operation on the stack rsp is one of those that are read.
LEMMA StackFound ==
  ASSUME NEW s, NEW t, NEW i, Starts(s, t, i), i.mnemonic \in { "push", "pop", "call", "ret" }
  PROVE  /\ s.lost = FALSE
         /\ t.regs["RSP"] = s.regs["RSP"] /\ s.regs["RSP"] \in Words
         /\ i.mnemonic \in { "push", "pop" } => Mentions(i, "rsp") = {}
         /\ i.mnemonic # "ret" => LostAfter(s, i) = FALSE
<1>1. ~ DepartsBy("stack", s, i) /\ ~ DepartsBy("push", s, i)
  BY DEF Starts, IsCarried, Departures, Reasons
<1>2. IsMachine(s) /\ Alike(s, t, s.lost)
  BY SourcesReadable
<1>3. s.lost = FALSE
  BY <1>1, <1>2 DEF DepartsBy, UsesRsp, IsMachine
<1>4. i.mnemonic \in { "push", "pop" } => Mentions(i, "rsp") = {}
  BY <1>1 DEF DepartsBy
<1>5. t.regs["RSP"] = s.regs["RSP"] /\ s.regs["RSP"] \in Words
  BY <1>2, <1>3, RegisterNames DEF Alike, IsMachine
<1>. QED BY <1>3, <1>4, <1>5 DEF LostAfter

\* With rsp lower or higher on both sides.
LEMMA StackMoves ==
  ASSUME NEW s, NEW t, Paired(s, t, FALSE)
  PROVE  /\ Paired(Lowered(s), Lowered(t), FALSE)
         /\ Paired(Raised(s), Raised(t), FALSE)
         /\ Lowered(s).regs["RSP"] = Lowered(t).regs["RSP"] /\ Lowered(s).regs["RSP"] \in Words
<1>1. IsMachine(s) /\ IsC(t) /\ Alike(s, t, FALSE) /\ "RSP" \in GeneralRegisters
  BY RegisterNames DEF Paired
<1>2. t.regs["RSP"] = s.regs["RSP"] /\ s.regs["RSP"] \in Int
  BY <1>1 DEF Alike, IsMachine, Words
<1> DEFINE low  == Word(s.regs["RSP"] - 8)
           high == Word(s.regs["RSP"] + 8)
<1>3. low \in Words /\ high \in Words
  BY <1>2, WordIsWord
<1>4. /\ Lowered(s) = WithReg(s, "RSP", low) /\ Lowered(t) = WithReg(t, "RSP", low)
      /\ Raised(s) = WithReg(s, "RSP", high) /\ Raised(t) = WithReg(t, "RSP", high)
  BY <1>2 DEF Lowered, Raised
<1> HIDE DEF low, high
<1>5. Paired(Lowered(s), Lowered(t), FALSE) /\ Paired(Raised(s), Raised(t), FALSE)
  BY <1>1, <1>3, <1>4, PairedReg
<1>6. Lowered(s).regs["RSP"] = Lowered(t).regs["RSP"] /\ Lowered(s).regs["RSP"] \in Words
  BY <1>1, <1>5 DEF Paired, Alike, IsMachine
<1>. QED BY <1>5, <1>6

\* The same word pushed on both sides.
LEMMA PairedPush ==
  ASSUME NEW s, NEW t, Paired(s, t, FALSE), NEW v \in Words
  PROVE  Paired(Pushed(s, v), Pushed(t, v), FALSE)
BY StackMoves, PairedMem DEF Pushed

\* push: its operand is read after rsp is lowered, and does not read rsp.
LEMMA PushGood ==
  ASSUME NEW s, NEW t, NEW i, Starts(s, t, i), i.mnemonic = "push", NEW vs,
         NEW src, src = parse_single_operand(i.op_str[1], vs)
  PROVE  /\ Len(i.op_str) = 1
         /\ Good(s, t, i, Reads("Push", << src >>))
<1> DEFINE op1 == i.op_str[1]
           v   == Value(s, i, op1)
           o   == Reads("Push", << src >>)
<1>1. Len(i.op_str) = 1
  BY SourcesReadable DEF FollowedForm, Arithmetic, Shifts, Jumps, Moves
<1>2. 1 \in DOMAIN i.op_str
  BY <1>1, SourcesReadable
<1>3. IsMachine(s) /\ IsC(t) /\ Alike(s, t, s.lost)
  BY SourcesReadable
<1>4. Readable(op1, TRUE)
  <2>1. ~ Uses(op1, "rsp")
    BY <1>2, StackFound DEF Mentions
  <2>2. Readable(op1, s.lost)
    BY <1>2, SourcesReadable
  <2>. QED BY <2>1, <2>2 DEF Readable
<1>5. Alike(s, Lowered(t), TRUE)
  <2> DEFINE t2  == Lowered(t)
             low == Word(t.regs["RSP"] - 8)
  <2>1. "RSP" \in VarBase /\ GeneralRegisters \subseteq VarBase /\ "RFlags" \in VarBase
    BY RegisterNames
  <2>2. t2.regs = [ t.regs EXCEPT !["RSP"] = low ] /\ t2.mem = t.mem
    BY <1>3, <2>1, CWithReg DEF Lowered
  <2> HIDE DEF t2, low
  <2>3. \A b \in VarBase : b # "RSP" => t2.regs[b] = t.regs[b]
    BY <1>3, <2>2 DEF IsC
  <2>. QED BY <1>3, <2>1, <2>2, <2>3 DEF Alike, t2
<1>6. emit_operand(Lowered(t), src) = v /\ v \in Words
  <2> DEFINE l == TRUE
  <2>1. Readable(op1, l) /\ Alike(s, Lowered(t), l)
    BY <1>4, <1>5
  <2> HIDE DEF l
  <2>. QED BY <1>3, <2>1, OperandAgrees
<1>7. Executed(s, i) = Pushed(s, v)
  BY ExecutedIs DEF PushedOperand
<1>8. o.op = "Push" /\ o.srcs[1] = src
  BY DEF Reads, Opcode
<1> HIDE DEF o, v
<1>9. Statement(t, o) = Pushed(t, v)
  BY <1>6, <1>8 DEF Statement, AfterPush, Assignments
<1>10. Paired(s, t, FALSE) /\ LostAfter(s, i) = FALSE
  BY StackFound DEF Starts
<1>11. Paired(Executed(s, i), Statement(t, o), LostAfter(s, i))
  BY <1>6, <1>7, <1>9, <1>10, PairedPush
<1>12. i.mnemonic \notin Leaving
  BY DEF Leaving, Jumps
<1>. QED BY <1>1, <1>8, <1>11, <1>12, Plain DEF o

\* Two registers that are written, on one side in this order and on the other in
\* the other one.
LEMMA PairedTwice ==
  ASSUME NEW s, NEW t, Paired(s, t, FALSE),
         NEW b \in GeneralRegisters, NEW v \in Words, NEW c \in GeneralRegisters, NEW w \in Words, b # c
  PROVE  Paired(WithReg(WithReg(s, b, v), c, w), WithReg(WithReg(t, c, w), b, v), FALSE)
<1> DEFINE s1 == WithReg(s, b, v)
           s2 == WithReg(s1, c, w)
           t1 == WithReg(t, c, w)
           t2 == WithReg(t1, b, v)
<1>1. IsMachine(s) /\ IsC(t) /\ Alike(s, t, FALSE)
  BY DEF Paired
<1>2. b \in VarBase /\ c \in VarBase /\ b # "RFlags" /\ c # "RFlags" /\ "RFlags" \in VarBase
      /\ GeneralRegisters \subseteq VarBase
  BY RegisterNames
<1>3. /\ IsMachine(s1) /\ s1.regs = [ s.regs EXCEPT ![b] = v ]
      /\ s1.mem = s.mem /\ s1.flags = s.flags
  BY <1>1, MachineWithReg
<1>4. IsC(t1) /\ t1.regs = [ t.regs EXCEPT ![c] = w ] /\ t1.mem = t.mem
  BY <1>1, <1>2, CWithReg
<1> HIDE DEF s1, t1
<1>5. /\ IsMachine(s2) /\ s2.regs = [ s1.regs EXCEPT ![c] = w ]
      /\ s2.mem = s1.mem /\ s2.flags = s1.flags
  BY <1>3, MachineWithReg
<1>6. IsC(t2) /\ t2.regs = [ t1.regs EXCEPT ![b] = v ] /\ t2.mem = t1.mem
  BY <1>2, <1>4, CWithReg
<1> HIDE DEF s2, t2
<1>7. DOMAIN s.regs = GeneralRegisters /\ DOMAIN t.regs = VarBase
  BY <1>1 DEF IsMachine, IsC
<1>8. ASSUME NEW a \in GeneralRegisters PROVE t2.regs[a] = s2.regs[a]
  <2>1. t.regs[a] = s.regs[a]
    BY <1>1 DEF Alike
  <2>. QED BY <1>2, <1>3, <1>4, <1>5, <1>6, <1>7, <2>1
<1>9. t2.regs["RFlags"] = t.regs["RFlags"]
  BY <1>2, <1>4, <1>6, <1>7
<1>10. Paired(s2, t2, FALSE)
  <2>1. s2.mem = s.mem /\ s2.flags = s.flags /\ t2.mem = t.mem
    BY <1>3, <1>4, <1>5, <1>6
  <2>. QED BY <1>1, <1>5, <1>6, <1>8, <1>9, <2>1 DEF Paired, Alike
<1>. QED BY <1>10 DEF s1, s2, t1, t2

\* pop: the register is written first in the C, rsp first in the machine.
LEMMA PopGood ==
  ASSUME NEW s, NEW t, NEW i, Starts(s, t, i), i.mnemonic = "pop",
         NEW dst, dst.base = dst_base(i.op_str[1])
  PROVE  /\ Len(i.op_str) = 1
         /\ Good(s, t, i, Opcode("Pop", dst, << >>))
<1> DEFINE op1  == i.op_str[1]
           b    == dst_base(op1)
           o    == Opcode("Pop", dst, << >>)
           w    == ReadMem(s.mem, s.regs["RSP"])
           high == Word(s.regs["RSP"] + 8)
<1>1. Len(i.op_str) = 1 /\ ~ IsImm(op1)
  BY SourcesReadable DEF FollowedForm, Arithmetic, Shifts, Jumps, Moves
<1>2. 1 \in DOMAIN i.op_str
  BY <1>1, SourcesReadable
<1>3. IsMachine(s) /\ IsC(t) /\ Alike(s, t, s.lost)
  BY SourcesReadable
<1>4. ~ IsMem(op1)
  BY DEF Starts, IsCarried, Departures, Reasons, DepartsBy
<1>5. IsReg(op1) /\ FollowedOperand(op1)
  <2>1. op1 \in Operand /\ FollowedOperand(op1)
    BY <1>2, CarriedOperand
  <2>. QED BY <1>1, <1>4, <2>1 DEF Operand, IsReg, IsMem, IsImm
<1>6. b \in GeneralRegisters /\ b # "RSP"
  <2>1. ~ Uses(op1, "rsp")
    BY <1>2, StackFound DEF Mentions
  <2>2. op1.name # "rsp" /\ op1.name \in FullWidth
    BY <1>5, <2>1 DEF Uses, FollowedOperand
  <2>. QED BY <1>5, <2>2, Destination, RegisterOf
<1>7. Paired(s, t, FALSE) /\ LostAfter(s, i) = FALSE /\ t.regs["RSP"] = s.regs["RSP"] /\ s.regs["RSP"] \in Words
  BY StackFound DEF Starts
<1>8. w \in Words /\ high \in Words
  <2>1. s.regs["RSP"] + 8 \in Int
    BY <1>7 DEF Words
  <2>. QED BY <1>3, <2>1, ReadsWord, WordIsWord DEF IsMachine
<1>9. Executed(s, i) = WithReg(WithReg(s, "RSP", high), b, w)
  BY <1>5, ExecutedIs, Destination DEF Popped, Raised
<1>10. o.op = "Pop" /\ o.dst = dst
  BY DEF Opcode
<1> HIDE DEF o, high
<1>11. Statement(t, o) = Raised(WithReg(t, b, w))
  BY <1>3, <1>7, <1>10 DEF Statement, AfterPop, Assignments, Alike
<1> HIDE DEF w
<1>12. WithReg(t, b, w).regs["RSP"] = s.regs["RSP"]
  <2>1. WithReg(t, b, w).regs = [ t.regs EXCEPT ![b] = w ]
    BY <1>3, <1>6, RegisterNames, CWithReg
  <2>2. "RSP" \in DOMAIN t.regs
    BY <1>3, RegisterNames DEF IsC
  <2>. QED BY <1>6, <1>7, <2>1, <2>2
<1>13. Statement(t, o) = WithReg(WithReg(t, b, w), "RSP", high)
  BY <1>11, <1>12 DEF Raised, high
<1> HIDE DEF b
<1>14. Paired(Executed(s, i), Statement(t, o), LostAfter(s, i))
  BY <1>6, <1>7, <1>8, <1>9, <1>13, RegisterNames, PairedTwice
<1>15. i.mnemonic \notin Leaving
  BY DEF Leaving, Jumps
<1>. QED BY <1>1, <1>10, <1>14, <1>15, Plain DEF o

\* What is written twice is written last.
LEMMA PairedOver ==
  ASSUME NEW s, IsMachine(s), NEW b \in GeneralRegisters, NEW v \in Words, NEW w \in Words,
         NEW c \in GeneralRegisters, NEW x \in Words, NEW t, NEW l,
         Paired(WithReg(WithReg(WithReg(s, b, v), b, w), c, x), t, l)
  PROVE  Paired(WithReg(WithReg(s, b, w), c, x), t, l)
<1> DEFINE s1 == WithReg(s, b, v)
           s2 == WithReg(s1, b, w)
           s3 == WithReg(s, b, w)
           e2 == WithReg(s2, c, x)
           e3 == WithReg(s3, c, x)
<1>1. IsMachine(s1) /\ s1.regs = [ s.regs EXCEPT ![b] = v ] /\ s1.mem = s.mem /\ s1.flags = s.flags
  BY MachineWithReg
<1> HIDE DEF s1
<1>2. IsMachine(s2) /\ s2.regs = [ s1.regs EXCEPT ![b] = w ] /\ s2.mem = s1.mem /\ s2.flags = s1.flags
  BY <1>1, MachineWithReg
<1>3. IsMachine(s3) /\ s3.regs = [ s.regs EXCEPT ![b] = w ] /\ s3.mem = s.mem /\ s3.flags = s.flags
  BY MachineWithReg
<1> HIDE DEF s2, s3
<1>4. e2.regs = [ s2.regs EXCEPT ![c] = x ] /\ e2.mem = s2.mem /\ e2.flags = s2.flags
  BY <1>2, MachineWithReg
<1>5. IsMachine(e3) /\ e3.regs = [ s3.regs EXCEPT ![c] = x ] /\ e3.mem = s3.mem /\ e3.flags = s3.flags
  BY <1>3, MachineWithReg
<1>6. Alike(e2, t, l) /\ IsC(t)
  BY DEF Paired, s1, s2
<1> HIDE DEF e2, e3
<1>7. DOMAIN s.regs = GeneralRegisters
  BY DEF IsMachine
<1>8. \A a \in GeneralRegisters : e3.regs[a] = e2.regs[a]
  BY <1>1, <1>2, <1>3, <1>4, <1>5, <1>7
<1>9. Alike(e3, t, l)
  BY <1>1, <1>2, <1>3, <1>4, <1>5, <1>6, <1>8 DEF Alike
<1>. QED BY <1>5, <1>6, <1>9 DEF Paired, e3, s3

\* leave: rsp from rbp, and a pop of rbp.
LEMMA LeaveGood ==
  ASSUME NEW s, NEW t, NEW i, Starts(s, t, i), i.mnemonic = "leave",
         NEW rsp, rsp.base = "RSP", NEW rbp, rbp.base = "RBP",
         NEW cur, cur.kind = "var", cur.var.base = "RBP",
         NEW o1, o1 = Opcode("Mov", rsp, << cur >>), NEW o2, o2 = Opcode("Pop", rbp, << >>)
  PROVE  /\ Paired(Executed(s, i), Statement(Statement(t, o1), o2), LostAfter(s, i))
         /\ ~ IsUndefined(t, o1) /\ ~ IsUndefined(t, o2)
         /\ SameWay(s, t, i, o1)
<1> DEFINE v    == s.regs["RBP"]
           high == Word(v + 8)
           x    == ReadMem(s.mem, v)
           s1   == WithReg(s, "RSP", v)
           t1   == WithReg(t, "RSP", v)
<1>1. IsMachine(s) /\ IsC(t) /\ Alike(s, t, s.lost) /\ Paired(s, t, s.lost)
  BY SourcesReadable DEF Starts
<1>2. "RSP" \in GeneralRegisters /\ "RBP" \in GeneralRegisters
  BY RegisterNames
<1>3. t.regs["RBP"] = v /\ v \in Words /\ t.mem = s.mem
  BY <1>1, <1>2 DEF Alike, IsMachine
<1>4. high \in Words /\ x \in Words
  <2>1. v + 8 \in Int
    BY <1>3 DEF Words
  <2>. QED BY <1>1, <2>1, ReadsWord, WordIsWord DEF IsMachine
<1>5. o1.op = "Mov" /\ o1.dst = rsp /\ o1.srcs[1] = cur /\ o2.op = "Pop" /\ o2.dst = rbp
  BY DEF Opcode
<1>6. Executed(s, i) = WithReg(WithReg(s, "RSP", high), "RBP", x)
  BY ExecutedIs DEF LeftFrame
<1>7. Statement(t, o1) = t1
  BY <1>3, <1>5 DEF Statement, AfterAssign, Assigned, Assignments, emit_operand, var_name
<1>8. Paired(s1, t1, FALSE)
  <2>1. Paired(s1, t1, s.lost /\ "RSP" # "RSP")
    BY <1>1, <1>2, <1>3, PairedReg
  <2>. QED BY <2>1, PairedLess
<1>9. t1.regs = [ t.regs EXCEPT !["RSP"] = v ] /\ t1.mem = s.mem /\ IsC(t1)
  BY <1>1, <1>2, <1>3, RegisterNames, CWithReg
<1>10. t1.regs["RSP"] = v
  BY <1>1, <1>2, <1>9, RegisterNames DEF IsC
<1> HIDE DEF v, x, high, s1, t1
<1>11. Statement(t1, o2) = Raised(WithReg(t1, "RBP", x))
  BY <1>5, <1>9, <1>10 DEF Statement, AfterPop, Assignments, x
<1>12. WithReg(t1, "RBP", x).regs["RSP"] = v
  <2>1. WithReg(t1, "RBP", x).regs = [ t1.regs EXCEPT !["RBP"] = x ]
    BY <1>2, <1>9, RegisterNames, CWithReg
  <2>. QED BY <1>2, <1>9, <1>10, <2>1, RegisterNames DEF IsC
<1>13. Statement(t1, o2) = WithReg(WithReg(t1, "RBP", x), "RSP", high)
  BY <1>11, <1>12 DEF Raised, high
<1>14. Paired(WithReg(WithReg(s1, "RSP", high), "RBP", x), Statement(t1, o2), FALSE)
  BY <1>2, <1>4, <1>8, <1>13, PairedTwice
<1>15. Paired(Executed(s, i), Statement(t1, o2), FALSE)
  BY <1>1, <1>2, <1>3, <1>4, <1>6, <1>14, PairedOver DEF s1
<1>16. LostAfter(s, i) = FALSE
  BY DEF LostAfter, ReloadsRsp
<1>17. SameWay(s, t, i, o1)
  BY DEF SameWay, SameTargets, Jumps
<1>. QED BY <1>5, <1>7, <1>15, <1>16, <1>17 DEF IsUndefined

\* call: the return address is pushed on both sides.
LEMMA CallGood ==
  ASSUME NEW s, NEW t, NEW i, Starts(s, t, i), i.mnemonic = "call"
  PROVE  /\ Len(i.op_str) = 1 /\ IsImm(i.op_str[1])
         /\ Good(s, t, i, Direct(i.op_str[1].value, NextIp(i)))
<1> DEFINE o == Direct(i.op_str[1].value, NextIp(i))
           v == Word(NextIp(i))
<1>1. Len(i.op_str) = 1 /\ IsImm(i.op_str[1])
  BY SourcesReadable DEF FollowedForm, Arithmetic, Shifts, Jumps, Moves
<1>2. v \in Words
  <2>1. NextIp(i) \in Int
    BY DEF Starts, DisassembledInsn, NextIp
  <2>. QED BY <2>1, WordIsWord
<1>3. Executed(s, i) = Pushed(s, v)
  BY ExecutedIs DEF CalledFrom
<1>4. o.op = "Call" /\ o.fallthrough = NextIp(i)
  BY DEF Direct
<1>5. SameWay(s, t, i, o)
  BY DEF SameWay, SameTargets, Jumps
<1> HIDE DEF o
<1>6. Statement(t, o) = Pushed(t, v)
  BY <1>4 DEF Statement, AfterCall, Assignments
<1> HIDE DEF v
<1>7. Paired(s, t, FALSE) /\ LostAfter(s, i) = FALSE
  BY StackFound DEF Starts
<1>8. Paired(Executed(s, i), Statement(t, o), LostAfter(s, i))
  BY <1>2, <1>3, <1>6, <1>7, PairedPush
<1>. QED BY <1>1, <1>4, <1>5, <1>8 DEF Good, IsUndefined, o

\* ret: the machine pops the return address, the C does not, and rsp is lost.
LEMMA RetGood ==
  ASSUME NEW s, NEW t, NEW i, Starts(s, t, i), i.mnemonic = "ret"
  PROVE  Good(s, t, i, Reads("Ret", << >>))
<1> DEFINE o == Reads("Ret", << >>)
           high == Word(s.regs["RSP"] + 8)
<1>1. IsMachine(s) /\ IsC(t) /\ Alike(s, t, s.lost) /\ "RSP" \in GeneralRegisters
  BY SourcesReadable, RegisterNames
<1>2. o.op = "Ret"
  BY DEF Reads, Opcode
<1> HIDE DEF o
<1>3. Statement(t, o) = t
  BY <1>2 DEF Statement, Assignments
<1>4. Executed(s, i) = WithReg(s, "RSP", high)
  BY ExecutedIs DEF Raised
<1>5. high \in Words
  <2>1. s.regs["RSP"] + 8 \in Int
    BY <1>1 DEF IsMachine, Words
  <2>. QED BY <2>1, WordIsWord
<1> HIDE DEF high
<1> DEFINE s2 == WithReg(s, "RSP", high)
<1>6. /\ IsMachine(s2) /\ s2.regs = [ s.regs EXCEPT !["RSP"] = high ]
      /\ s2.mem = s.mem /\ s2.flags = s.flags
  BY <1>1, <1>5, MachineWithReg
<1> HIDE DEF s2
<1>7. \A b \in GeneralRegisters : b = "RSP" \/ t.regs[b] = s2.regs[b]
  BY <1>1, <1>6 DEF Alike, IsMachine
<1>8. Paired(s2, t, TRUE)
  BY <1>1, <1>6, <1>7 DEF Paired, Alike
<1>9. LostAfter(s, i) = TRUE
  BY DEF LostAfter
<1>10. SameWay(s, t, i, o)
  BY <1>2 DEF SameWay, SameTargets, Jumps
<1>. QED BY <1>2, <1>3, <1>4, <1>8, <1>9, <1>10 DEF Good, IsUndefined, o, s2

\* A condition that is followed belongs to one condition of the IR.
LEMMA OneCondition ==
  ASSUME NEW c \in DOMAIN ConditionOf, NEW m \in ConditionOf[c],
         \A d \in DOMAIN ConditionOf : m \in ConditionOf[d] => d = c
  PROVE  parse_condition_suffix(m) = c
BY DEF parse_condition_suffix

LEMMA Suffixes ==
  /\ \A m \in { "je", "cmove" } : parse_condition_suffix(m) = "Equal"
  /\ \A m \in { "jne", "cmovne" } : parse_condition_suffix(m) = "NotEqual"
  /\ \A m \in { "jl", "cmovl" } : parse_condition_suffix(m) = "Less"
  /\ \A m \in { "jle", "cmovle" } : parse_condition_suffix(m) = "LessEqual"
  /\ \A m \in { "jg", "cmovg" } : parse_condition_suffix(m) = "Greater"
  /\ \A m \in { "jge", "cmovge" } : parse_condition_suffix(m) = "GreaterEqual"
  /\ \A m \in { "jb", "cmovb" } : parse_condition_suffix(m) = "Below"
  /\ \A m \in { "jbe", "cmovbe" } : parse_condition_suffix(m) = "BelowEqual"
  /\ \A m \in { "ja", "cmova" } : parse_condition_suffix(m) = "Above"
  /\ \A m \in { "jae", "cmovae" } : parse_condition_suffix(m) = "AboveEqual"
<1> USE DEF ConditionOf
<1>1. ASSUME NEW m \in { "je", "cmove" } PROVE parse_condition_suffix(m) = "Equal"
  <2>1. "Equal" \in DOMAIN ConditionOf /\ m \in ConditionOf["Equal"]
    OBVIOUS
  <2>2. \A d \in DOMAIN ConditionOf : m \in ConditionOf[d] => d = "Equal"
    OBVIOUS
  <2>. QED BY <2>1, <2>2, OneCondition
<1>2. ASSUME NEW m \in { "jne", "cmovne" } PROVE parse_condition_suffix(m) = "NotEqual"
  <2>1. "NotEqual" \in DOMAIN ConditionOf /\ m \in ConditionOf["NotEqual"]
    OBVIOUS
  <2>2. \A d \in DOMAIN ConditionOf : m \in ConditionOf[d] => d = "NotEqual"
    OBVIOUS
  <2>. QED BY <2>1, <2>2, OneCondition
<1>3. ASSUME NEW m \in { "jl", "cmovl" } PROVE parse_condition_suffix(m) = "Less"
  <2>1. "Less" \in DOMAIN ConditionOf /\ m \in ConditionOf["Less"]
    OBVIOUS
  <2>2. \A d \in DOMAIN ConditionOf : m \in ConditionOf[d] => d = "Less"
    OBVIOUS
  <2>. QED BY <2>1, <2>2, OneCondition
<1>4. ASSUME NEW m \in { "jle", "cmovle" } PROVE parse_condition_suffix(m) = "LessEqual"
  <2>1. "LessEqual" \in DOMAIN ConditionOf /\ m \in ConditionOf["LessEqual"]
    OBVIOUS
  <2>2. \A d \in DOMAIN ConditionOf : m \in ConditionOf[d] => d = "LessEqual"
    OBVIOUS
  <2>. QED BY <2>1, <2>2, OneCondition
<1>5. ASSUME NEW m \in { "jg", "cmovg" } PROVE parse_condition_suffix(m) = "Greater"
  <2>1. "Greater" \in DOMAIN ConditionOf /\ m \in ConditionOf["Greater"]
    OBVIOUS
  <2>2. \A d \in DOMAIN ConditionOf : m \in ConditionOf[d] => d = "Greater"
    OBVIOUS
  <2>. QED BY <2>1, <2>2, OneCondition
<1>6. ASSUME NEW m \in { "jge", "cmovge" } PROVE parse_condition_suffix(m) = "GreaterEqual"
  <2>1. "GreaterEqual" \in DOMAIN ConditionOf /\ m \in ConditionOf["GreaterEqual"]
    OBVIOUS
  <2>2. \A d \in DOMAIN ConditionOf : m \in ConditionOf[d] => d = "GreaterEqual"
    OBVIOUS
  <2>. QED BY <2>1, <2>2, OneCondition
<1>7. ASSUME NEW m \in { "jb", "cmovb" } PROVE parse_condition_suffix(m) = "Below"
  <2>1. "Below" \in DOMAIN ConditionOf /\ m \in ConditionOf["Below"]
    OBVIOUS
  <2>2. \A d \in DOMAIN ConditionOf : m \in ConditionOf[d] => d = "Below"
    OBVIOUS
  <2>. QED BY <2>1, <2>2, OneCondition
<1>8. ASSUME NEW m \in { "jbe", "cmovbe" } PROVE parse_condition_suffix(m) = "BelowEqual"
  <2>1. "BelowEqual" \in DOMAIN ConditionOf /\ m \in ConditionOf["BelowEqual"]
    OBVIOUS
  <2>2. \A d \in DOMAIN ConditionOf : m \in ConditionOf[d] => d = "BelowEqual"
    OBVIOUS
  <2>. QED BY <2>1, <2>2, OneCondition
<1>9. ASSUME NEW m \in { "ja", "cmova" } PROVE parse_condition_suffix(m) = "Above"
  <2>1. "Above" \in DOMAIN ConditionOf /\ m \in ConditionOf["Above"]
    OBVIOUS
  <2>2. \A d \in DOMAIN ConditionOf : m \in ConditionOf[d] => d = "Above"
    OBVIOUS
  <2>. QED BY <2>1, <2>2, OneCondition
<1>10. ASSUME NEW m \in { "jae", "cmovae" } PROVE parse_condition_suffix(m) = "AboveEqual"
  <2>1. "AboveEqual" \in DOMAIN ConditionOf /\ m \in ConditionOf["AboveEqual"]
    OBVIOUS
  <2>2. \A d \in DOMAIN ConditionOf : m \in ConditionOf[d] => d = "AboveEqual"
    OBVIOUS
  <2>. QED BY <2>1, <2>2, OneCondition
<1>. QED BY <1>1, <1>2, <1>3, <1>4, <1>5, <1>6, <1>7, <1>8, <1>9, <1>10

\* The bits of cpu.rflags, from what it agrees with.
LEMMA FlagBits ==
  ASSUME NEW s, NEW t, NEW l, IsMachine(s), Alike(s, t, l), s.flags.from \in { "cmp", "test" }
  PROVE  /\ HasFlag(t, 1) <=> s.flags.zf
         /\ HasFlag(t, 2) <=> s.flags.cf
         /\ s.flags.from = "cmp" => (HasFlag(t, 4) <=> s.flags.sf # s.flags.of)
<1> DEFINE f  == s.flags
           n  == t.regs["RFlags"]
           zf == IF f.zf THEN 1 ELSE 0
           cf == IF f.cf THEN 2 ELSE 0
           lt == IF f.sf # f.of THEN 4 ELSE 0
<1>1. /\ f.from = "cmp" => n = zf + cf + lt
      /\ f.from = "test" => ~ f.cf /\ n = zf
  BY DEF Alike, FlagsAgree
<1>2. /\ zf \in { 0, 1 } /\ (zf = 1 <=> f.zf)
      /\ cf \in { 0, 2 } /\ (cf = 2 <=> f.cf)
      /\ lt \in { 0, 4 } /\ (lt = 4 <=> f.sf # f.of)
  OBVIOUS
<1>3. /\ HasFlag(t, 1) <=> (n \div 1) % 2 = 1
      /\ HasFlag(t, 2) <=> (n \div 2) % 2 = 1
      /\ HasFlag(t, 4) <=> (n \div 4) % 2 = 1
  BY DEF HasFlag
<1> HIDE DEF f, n, zf, cf, lt
<1>4. \A a \in { 0, 1 }, b \in { 0, 2 }, c \in { 0, 4 } :
        /\ ((a + b + c) \div 1) % 2 = 1 <=> a = 1
        /\ ((a + b + c) \div 2) % 2 = 1 <=> b = 2
        /\ ((a + b + c) \div 4) % 2 = 1 <=> c = 4
  OBVIOUS
<1>5. CASE f.from = "cmp"
  BY <1>1, <1>2, <1>3, <1>4, <1>5 DEF f
<1>6. CASE f.from = "test"
  <2>1. n = zf + 0 + 0 /\ zf \in { 0, 1 }
    BY <1>1, <1>2, <1>6
  <2>. QED BY <1>1, <1>2, <1>3, <1>4, <1>6, <2>1 DEF f
<1>. QED BY <1>5, <1>6 DEF f

\* A condition that is carried over means the same on both sides.
LEMMA Conditions ==
  ASSUME NEW s, NEW t, NEW i, Starts(s, t, i), i.mnemonic \in Jumps \cup Moves
  PROVE  get_cond_expr(t, parse_condition_suffix(i.mnemonic)) <=> Holds(i.mnemonic, s.flags)
<1> DEFINE c == parse_condition_suffix(i.mnemonic)
           f == s.flags
<1>1. ~ DepartsBy("flags", s, i)
  BY DEF Starts, IsCarried, Departures, Reasons
<1>2. \/ f.from \in {"cmp", "test"} /\ i.mnemonic \in ByEquality \cup Unsigned
      \/ f.from = "cmp" /\ i.mnemonic \in BySign
  BY <1>1 DEF DepartsBy, FlagsCarried
<1>3. IsMachine(s) /\ Alike(s, t, s.lost)
  BY SourcesReadable
<1>4. /\ HasFlag(t, 1) <=> f.zf
      /\ HasFlag(t, 2) <=> f.cf
      /\ f.from = "cmp" => (HasFlag(t, 4) <=> f.sf # f.of)
  BY <1>2, <1>3, FlagBits
<1>5. f.sf \in BOOLEAN /\ f.of \in BOOLEAN
  BY <1>3 DEF IsMachine, SomeFlags
<1> HIDE DEF f
<1>6. CASE i.mnemonic \in { "je", "cmove" }
  <2>1. c = "Equal"
    BY <1>6, Suffixes
  <2>2. Holds(i.mnemonic, f) <=> f.zf
    BY <1>6 DEF Holds
  <2>. QED BY <1>4, <2>1, <2>2 DEF get_cond_expr, f
<1>7. CASE i.mnemonic \in { "jne", "cmovne" }
  <2>1. c = "NotEqual"
    BY <1>7, Suffixes
  <2>2. Holds(i.mnemonic, f) <=> ~ f.zf
    BY <1>7 DEF Holds
  <2>. QED BY <1>4, <2>1, <2>2 DEF get_cond_expr, f
<1>8. CASE i.mnemonic \in { "jb", "cmovb" }
  <2>1. c = "Below"
    BY <1>8, Suffixes
  <2>2. Holds(i.mnemonic, f) <=> f.cf
    BY <1>8 DEF Holds
  <2>. QED BY <1>4, <2>1, <2>2 DEF get_cond_expr, f
<1>9. CASE i.mnemonic \in { "jae", "cmovae" }
  <2>1. c = "AboveEqual"
    BY <1>9, Suffixes
  <2>2. Holds(i.mnemonic, f) <=> ~ f.cf
    BY <1>9 DEF Holds
  <2>. QED BY <1>4, <2>1, <2>2 DEF get_cond_expr, f
<1>10. CASE i.mnemonic \in { "jbe", "cmovbe" }
  <2>1. c = "BelowEqual"
    BY <1>10, Suffixes
  <2>2. Holds(i.mnemonic, f) <=> f.cf \/ f.zf
    BY <1>10 DEF Holds
  <2>. QED BY <1>4, <2>1, <2>2 DEF get_cond_expr, f
<1>11. CASE i.mnemonic \in { "ja", "cmova" }
  <2>1. c = "Above"
    BY <1>11, Suffixes
  <2>2. Holds(i.mnemonic, f) <=> ~ f.cf /\ ~ f.zf
    BY <1>11 DEF Holds
  <2>. QED BY <1>4, <2>1, <2>2 DEF get_cond_expr, f
<1>12. CASE i.mnemonic \in { "jl", "cmovl" }
  <2>1. c = "Less"
    BY <1>12, Suffixes
  <2>2. Holds(i.mnemonic, f) <=> f.sf # f.of
    BY <1>12 DEF Holds
  <2>3. f.from = "cmp"
    BY <1>2, <1>12 DEF ByEquality, Unsigned
  <2>. QED BY <1>4, <1>5, <2>1, <2>2, <2>3 DEF get_cond_expr, f
<1>13. CASE i.mnemonic \in { "jge", "cmovge" }
  <2>1. c = "GreaterEqual"
    BY <1>13, Suffixes
  <2>2. Holds(i.mnemonic, f) <=> f.sf = f.of
    BY <1>13 DEF Holds
  <2>3. f.from = "cmp"
    BY <1>2, <1>13 DEF ByEquality, Unsigned
  <2>. QED BY <1>4, <1>5, <2>1, <2>2, <2>3 DEF get_cond_expr, f
<1>14. CASE i.mnemonic \in { "jle", "cmovle" }
  <2>1. c = "LessEqual"
    BY <1>14, Suffixes
  <2>2. Holds(i.mnemonic, f) <=> f.zf \/ f.sf # f.of
    BY <1>14 DEF Holds
  <2>3. f.from = "cmp"
    BY <1>2, <1>14 DEF ByEquality, Unsigned
  <2>. QED BY <1>4, <1>5, <2>1, <2>2, <2>3 DEF get_cond_expr, f
<1>15. CASE i.mnemonic \in { "jg", "cmovg" }
  <2>1. c = "Greater"
    BY <1>15, Suffixes
  <2>2. Holds(i.mnemonic, f) <=> ~ f.zf /\ f.sf = f.of
    BY <1>15 DEF Holds
  <2>3. f.from = "cmp"
    BY <1>2, <1>15 DEF ByEquality, Unsigned
  <2>. QED BY <1>4, <1>5, <2>1, <2>2, <2>3 DEF get_cond_expr, f
<1>. QED BY <1>2, <1>6, <1>7, <1>8, <1>9, <1>10, <1>11, <1>12, <1>13, <1>14, <1>15 DEF ByEquality, Unsigned, BySign

\* Jumps, nop and traps leave both sides as they are.
LEMMA StillGood ==
  ASSUME NEW s, NEW t, NEW i, Starts(s, t, i),
         i.mnemonic \in Jumps \cup { "jmp", "nop", "ud2", "hlt" },
         NEW o, o.op \in { "Jcc", "Jmp", "Nop", "Ret" }, SameWay(s, t, i, o)
  PROVE  Good(s, t, i, o)
<1>1. Executed(s, i) = s
  BY ExecutedIs
<1>2. Statement(t, o) = t
  BY DEF Statement, Assignments
<1>3. IsMachine(s) /\ Paired(s, t, s.lost)
  BY SourcesReadable DEF Starts
<1>4. LostAfter(s, i) = s.lost
  BY <1>3 DEF LostAfter, ReloadsRsp, Jumps, IsMachine
<1>. QED BY <1>1, <1>2, <1>3, <1>4 DEF Good, IsUndefined

LEMMA JccGood ==
  ASSUME NEW s, NEW t, NEW i, Starts(s, t, i), i.mnemonic \in Jumps
  PROVE  /\ Len(i.op_str) = 1 /\ IsImm(i.op_str[1])
         /\ Good(s, t, i, Jcc(parse_condition_suffix(i.mnemonic), i.op_str[1].value, NextIp(i)))
<1> DEFINE c == parse_condition_suffix(i.mnemonic)
           o == Jcc(c, i.op_str[1].value, NextIp(i))
<1>1. Len(i.op_str) = 1 /\ IsImm(i.op_str[1])
  BY SourcesReadable DEF FollowedForm, Arithmetic, Shifts, Jumps, Moves
<1>2. get_cond_expr(t, c) <=> Holds(i.mnemonic, s.flags)
  BY Conditions
<1> HIDE DEF c
<1>3. o.op = "Jcc" /\ o.condition = c /\ o.target = i.op_str[1].value /\ o.fallthrough = NextIp(i)
  BY DEF Jcc
<1> HIDE DEF o
<1>4. i.mnemonic \notin { "jmp", "call", "ret", "ud2", "hlt" }
  BY DEF Jumps
<1>5. SameWay(s, t, i, o)
  BY <1>2, <1>3, <1>4 DEF SameWay, SameTargets
<1>6. Good(s, t, i, o)
  BY <1>3, <1>5, StillGood
<1>. QED BY <1>1, <1>6 DEF o, c

LEMMA JmpGood ==
  ASSUME NEW s, NEW t, NEW i, Starts(s, t, i), i.mnemonic = "jmp"
  PROVE  /\ Len(i.op_str) = 1 /\ IsImm(i.op_str[1])
         /\ Good(s, t, i, Jmp(i.op_str[1].value))
<1> DEFINE o == Jmp(i.op_str[1].value)
<1>1. Len(i.op_str) = 1 /\ IsImm(i.op_str[1])
  BY SourcesReadable DEF FollowedForm, Arithmetic, Shifts, Jumps, Moves
<1>2. SameWay(s, t, i, o)
  BY DEF SameWay, SameTargets, Jumps
<1>3. o.op = "Jmp"
  BY DEF Jmp
<1>. QED BY <1>1, <1>2, <1>3, StillGood

\* nop does nothing; a trap is taken for a return.
LEMMA NopGood ==
  ASSUME NEW s, NEW t, NEW i, Starts(s, t, i)
  PROVE  /\ i.mnemonic = "nop" => Good(s, t, i, Reads("Nop", << >>))
         /\ i.mnemonic \in { "ud2", "hlt" } => Good(s, t, i, Reads("Ret", << >>))
<1>1. Reads("Nop", << >>).op = "Nop" /\ Reads("Ret", << >>).op = "Ret"
  BY DEF Reads, Opcode
<1>2. i.mnemonic = "nop" => SameWay(s, t, i, Reads("Nop", << >>))
  BY DEF SameWay, SameTargets, Jumps
<1>3. i.mnemonic \in { "ud2", "hlt" } => SameWay(s, t, i, Reads("Ret", << >>))
  BY <1>1 DEF SameWay, SameTargets, Jumps
<1>. QED BY <1>1, <1>2, <1>3, StillGood

\* A move that is not made keeps the register.
LEMMA KeptRegister ==
  ASSUME NEW s, NEW t, NEW l, Paired(s, t, l), NEW b \in GeneralRegisters
  PROVE  Paired(s, WithReg(t, b, t.regs[b]), l)
<1> DEFINE t2 == WithReg(t, b, t.regs[b])
<1>1. IsMachine(s) /\ IsC(t) /\ Alike(s, t, l)
  BY DEF Paired
<1>2. b \in VarBase /\ GeneralRegisters \subseteq VarBase /\ "RFlags" \in VarBase
  BY RegisterNames
<1>3. IsC(t2) /\ t2.regs = [ t.regs EXCEPT ![b] = t.regs[b] ] /\ t2.mem = t.mem
  BY <1>1, <1>2, CWithReg
<1> HIDE DEF t2
<1>4. \A c \in VarBase : t2.regs[c] = t.regs[c]
  BY <1>1, <1>3 DEF IsC
<1>5. Alike(s, t2, l)
  BY <1>1, <1>2, <1>3, <1>4 DEF Alike
<1>. QED BY <1>1, <1>3, <1>5 DEF Paired, t2

\* cmov: the register gets the value, or its own.
LEMMA CmovGood ==
  ASSUME NEW s, NEW t, NEW i, Starts(s, t, i), i.mnemonic \in Moves, NEW vs,
         NEW dst, dst.base = dst_base(i.op_str[1]),
         NEW src, src = parse_single_operand(i.op_str[2], vs)
  PROVE  /\ Len(i.op_str) = 2
         /\ Good(s, t, i, Conditional("Cmovcc", parse_condition_suffix(i.mnemonic), dst, << src >>))
<1> DEFINE op1 == i.op_str[1]
           c == parse_condition_suffix(i.mnemonic)
           o == Conditional("Cmovcc", c, dst, << src >>)
           v == Value(s, i, i.op_str[2])
           b == dst_base(op1)
<1>1. Len(i.op_str) = 2 /\ IsReg(op1)
  <2>1. FollowedForm(i)
    BY SourcesReadable
  <2>2. i.mnemonic \notin { "nop", "ud2", "hlt", "leave", "ret", "push", "inc", "dec", "neg", "not", "mul", "pop",
                            "call", "jmp", "mov", "imul", "lea", "cmp", "test", "xchg" }
    BY DEF Moves
  <2>3. i.mnemonic \notin Jumps
    BY DEF Moves, Jumps
  <2>4. i.mnemonic \notin Arithmetic
    BY DEF Moves, Arithmetic, Shifts
  <2>. QED BY <2>1, <2>2, <2>3, <2>4 DEF FollowedForm
<1>2. 1 \in DOMAIN i.op_str /\ 2 \in DOMAIN i.op_str
  BY <1>1, SourcesReadable
<1>3. IsMachine(s) /\ Alike(s, t, s.lost) /\ Paired(s, t, s.lost) /\ Readable(i.op_str[2], s.lost)
  <2>1. Readable(i.op_str[2], s.lost) /\ IsMachine(s) /\ Alike(s, t, s.lost)
    BY <1>2, SourcesReadable
  <2>. QED BY <2>1 DEF Starts
<1>4. get_cond_expr(t, c) <=> Holds(i.mnemonic, s.flags)
  BY Conditions
<1>5. emit_operand(t, src) = v /\ v \in Words
  BY <1>3, OperandAgrees
<1>6. i.mnemonic \notin { "mov", "lea", "ret", "leave" } /\ i.mnemonic \notin Leaving
  BY DEF Moves, Leaving, Jumps
<1>7. b \in GeneralRegisters
  BY <1>1, <1>2, CarriedOperand, Destination
<1>8. Executed(s, i) = IF Holds(i.mnemonic, s.flags) THEN Put(s, i, op1, v) ELSE s
  BY ExecutedIs DEF MovedIf, Moved
<1> HIDE DEF c
<1>9. o.op = "Cmovcc" /\ o.condition = c /\ o.dst = dst /\ o.srcs[1] = src
  BY DEF Conditional
<1> HIDE DEF o, v
<1>10. Statement(t, o) = WithReg(t, b, IF get_cond_expr(t, c) THEN v ELSE t.regs[b])
  BY <1>5, <1>9 DEF Statement, AfterAssign, Assigned, Assignments, var_name
<1>11. LostAfter(s, i) = s.lost
  BY <1>3, <1>6 DEF LostAfter, ReloadsRsp, IsMachine
<1>12. CASE Holds(i.mnemonic, s.flags)
  <2>1. Executed(s, i) = Put(s, i, op1, v) /\ Statement(t, o) = WithReg(t, b, v)
    BY <1>4, <1>8, <1>10, <1>12
  <2>2. Paired(Executed(s, i), Statement(t, o), LostAfter(s, i))
    BY <1>1, <1>2, <1>5, <1>6, <2>1, PairedLoad
  <2>. QED BY <1>1, <1>6, <1>9, <2>2, Plain DEF o, c
<1>13. CASE ~ Holds(i.mnemonic, s.flags)
  <2>1. Executed(s, i) = s /\ Statement(t, o) = WithReg(t, b, t.regs[b])
    BY <1>4, <1>8, <1>10, <1>13
  <2> HIDE DEF b
  <2>2. Paired(Executed(s, i), Statement(t, o), LostAfter(s, i))
    BY <1>3, <1>7, <1>11, <2>1, KeptRegister
  <2>. QED BY <1>1, <1>6, <1>9, <2>2, Plain DEF o, c
<1>. QED BY <1>12, <1>13

-----------------------------------------------------------------------------
(* What a step of the lifter adds.                                         *)

\* The IR of the instruction, one or two, is as it is to be.
Lifted(s, t) ==
  \/ \E o : ir_instructions' = ir_instructions \o << At(o) >> /\ Good(s, t, insn, o)
  \/ \E o1, o2 :
       /\ ir_instructions' = ir_instructions \o << At(o1), At(o2) >>
       /\ Paired(Executed(s, insn), Statement(Statement(t, o1), o2), LostAfter(s, insn))
       /\ ~ IsUndefined(t, o1) /\ ~ IsUndefined(t, o2)
       /\ SameWay(s, t, insn, o1)

LEMMA Emitted == ASSUME NEW s, NEW t, NEW o, Emit(o), Good(s, t, insn, o) PROVE Lifted(s, t)
BY DEF Lifted, Emit, Push

LEMMA Defined == ASSUME NEW s, NEW t, NEW b, NEW o, Define(b, o), Good(s, t, insn, o) PROVE Lifted(s, t)
BY DEF Lifted, Define, Push

\* The mnemonics that are followed; none has a lock prefix.
Followed ==
  { "nop", "ud2", "hlt", "leave", "ret", "push", "inc", "dec", "neg", "not", "mul", "pop", "call", "jmp",
    "mov", "lea", "cmp", "test", "xchg" } \cup Jumps \cup Arithmetic \cup Moves

LEMMA MnemonicKept ==
  ASSUME NEW s, NEW t, Starts(s, t, insn)
  PROVE  /\ insn.mnemonic \in Followed
         /\ mnemonic = insn.mnemonic /\ ~ is_lock /\ operands = insn.op_str /\ NextAddr = NextIp(insn)
<1>1. FollowedForm(insn)
  BY SourcesReadable
<1>2. insn.mnemonic \in Followed
  <2> DEFINE m == insn.mnemonic
  <2>1. \/ m \in { "nop", "ud2", "hlt", "leave", "ret", "push", "inc", "dec", "neg", "not", "mul", "pop", "call", "jmp",
                    "mov", "lea", "cmp", "test", "xchg" }
        \/ m \in Jumps \/ m \in Arithmetic \/ m \in Moves \/ m = "imul"
    BY <1>1 DEF FollowedForm
  <2>2. "imul" \in Arithmetic
    BY DEF Arithmetic
  <2> HIDE DEF m
  <2>. QED BY <2>1, <2>2 DEF Followed, m
<1>3. Followed \cap DOMAIN Unlocked = {}
  BY DEF Followed, Jumps, Arithmetic, Shifts, Moves, Unlocked
<1>4. ~ is_lock
  BY <1>2, <1>3 DEF is_lock
<1>. QED BY <1>2, <1>4 DEF mnemonic, operands, NextAddr, NextIp

\* A version of a register is a version of this register.
LEMMA VersionBase ==
  ASSUME NEW b
  PROVE  new_version(b).base = b /\ Current(b).kind = "var" /\ Current(b).var.base = b
BY DEF new_version, Current, current_var

LEMMA MovArm ==
  ASSUME NEW s, NEW t, Starts(s, t, insn), LiftMov
  PROVE  Lifted(s, t)
<1> DEFINE b   == dst_base(operands[1])
           m1  == is_memory_operand(operands[1])
           m2  == is_memory_operand(operands[2])
           dst == new_version(b)
<1>1. insn.mnemonic = "mov"
  BY MnemonicKept DEF LiftMov, Arm, MOV_FAMILY, Followed, Jumps, Arithmetic, Shifts, Moves
<1>2. operands = insn.op_str
  BY MnemonicKept
<1>3. dst.base = dst_base(insn.op_str[1])
  BY <1>2, VersionBase
<1>4. /\ m1 <=> IsMem(insn.op_str[1])
      /\ m2 <=> IsMem(insn.op_str[2])
  BY <1>2 DEF is_memory_operand, IsMem
<1>5. Len(operands) >= 2 /\ ~ (m1 /\ m2)
  <2>1. Len(insn.op_str) = 2 /\ ~ (IsMem(insn.op_str[1]) /\ IsMem(insn.op_str[2]))
    BY <1>1, SourcesReadable DEF FollowedForm, Arithmetic, Shifts, Jumps, Moves
  <2>. QED BY <1>2, <1>4, <2>1
<1>6. lift_mov
  BY <1>5 DEF LiftMov, IfOperands
<1>7. CASE m1 /\ ~ m2
  <2>1. Emit(Reads("Store", << Operand1, Operand2 >>))
    BY <1>6, <1>7 DEF lift_mov
  <2>2. Good(s, t, insn, Reads("Store", << Operand1, Operand2 >>))
    BY <1>1, <1>2, <1>3, <1>4, <1>7, MovGood DEF Operand1, Operand2
  <2>. QED BY <2>1, <2>2, Emitted
<1>8. CASE ~ m1 /\ m2
  <2> DEFINE o == Opcode("Load", dst, << parse_memory_operand(operands[2], Bump(b)) >>)
  <2>1. Define(b, o)
    BY <1>6, <1>8 DEF lift_mov
  <2>2. Good(s, t, insn, o)
    BY <1>1, <1>2, <1>3, <1>4, <1>8, MovGood
  <2>. QED BY <2>1, <2>2, Defined
<1>9. CASE ~ m1 /\ ~ m2
  <2> DEFINE o == Opcode("Mov", dst, << parse_single_operand(operands[2], Bump(b)) >>)
  <2>1. Define(b, o)
    BY <1>6, <1>9 DEF lift_mov
  <2>2. Good(s, t, insn, o)
    BY <1>1, <1>2, <1>3, <1>4, <1>9, MovGood
  <2>. QED BY <2>1, <2>2, Defined
<1>. QED BY <1>5, <1>7, <1>8, <1>9

LEMMA LeaArm ==
  ASSUME NEW s, NEW t, Starts(s, t, insn), LiftLea
  PROVE  Lifted(s, t)
<1> DEFINE b == dst_base(operands[1])
           o == Opcode("Lea", new_version(b), << parse_memory_operand(operands[2], Bump(b)) >>)
<1>1. insn.mnemonic = "lea" /\ operands = insn.op_str
  BY MnemonicKept DEF LiftLea, Arm
<1>2. new_version(b).base = dst_base(insn.op_str[1])
  BY <1>1, VersionBase
<1>3. Len(operands) >= 2 /\ Good(s, t, insn, o)
  BY <1>1, <1>2, LeaGood
<1>4. Define(b, o)
  BY <1>3 DEF LiftLea, IfOperands
<1>. QED BY <1>3, <1>4, Defined

LEMMA AluArm ==
  ASSUME NEW s, NEW t, Starts(s, t, insn), LiftBinaryAlu
  PROVE  Lifted(s, t)
<1> DEFINE b   == dst_base(operands[1])
           rhs == parse_single_operand(operands[Len(operands)], versions)
           lhs == IF Len(operands) >= 3 THEN Operand2 ELSE Operand1
           o   == Opcode(AluOp(mnemonic), new_version(b), << lhs, rhs >>)
<1>1. insn.mnemonic \in Arithmetic /\ mnemonic = insn.mnemonic /\ operands = insn.op_str
  BY MnemonicKept DEF LiftBinaryAlu, Arm, BINARY_ALU, Arithmetic, Shifts, Followed, Jumps, Moves
<1>2. new_version(b).base = dst_base(insn.op_str[1])
  BY <1>1, VersionBase
<1>3. /\ rhs = parse_single_operand(insn.op_str[Len(insn.op_str)], versions)
      /\ lhs = IF Len(insn.op_str) >= 3 THEN parse_single_operand(insn.op_str[2], versions)
                                        ELSE parse_single_operand(insn.op_str[1], versions)
  BY <1>1 DEF Operand1, Operand2
<1>4. Len(insn.op_str) >= 2 => lift_binary_alu(mnemonic)
  BY <1>1 DEF LiftBinaryAlu, IfOperands
<1>5. lift_binary_alu(mnemonic) => Define(b, o)
  BY DEF lift_binary_alu
<1> HIDE DEF rhs, lhs
<1>6. Len(insn.op_str) >= 2 /\ Good(s, t, insn, o)
  BY <1>1, <1>2, <1>3, AluGood
<1>. QED BY <1>4, <1>5, <1>6, Defined

LEMMA UnaryArm ==
  ASSUME NEW s, NEW t, Starts(s, t, insn), LiftUnary \/ LiftIncDec
  PROVE  Lifted(s, t)
<1> DEFINE b    == dst_base(operands[1])
           not  == Opcode("Not", new_version(b), << Current(b) >>)
           neg  == Opcode("Neg", new_version(b), << Current(b) >>)
           inc  == Opcode("Add", new_version(b), << Current(b), Imm(1) >>)
           dec  == Opcode("Sub", new_version(b), << Current(b), Imm(1) >>)
<1>1. /\ insn.mnemonic \in { "not", "neg", "inc", "dec" }
      /\ mnemonic = insn.mnemonic /\ operands = insn.op_str
  BY MnemonicKept DEF LiftUnary, LiftIncDec, Arm, LateArm
<1>2. /\ new_version(b).base = dst_base(insn.op_str[1])
      /\ Current(b).kind = "var" /\ Current(b).var.base = dst_base(insn.op_str[1])
  BY <1>1, VersionBase
<1>3. /\ Len(operands) >= 1 /\ ~ is_memory_operand(operands[1])
      /\ mnemonic = "not" => Good(s, t, insn, not)
      /\ mnemonic = "neg" => Good(s, t, insn, neg)
      /\ mnemonic = "inc" => Good(s, t, insn, inc)
      /\ mnemonic = "dec" => Good(s, t, insn, dec)
  BY <1>1, <1>2, UnaryGood DEF is_memory_operand, IsMem
<1>4. /\ LiftUnary => \/ mnemonic = "not" /\ Define(b, not)
                      \/ mnemonic = "neg" /\ Define(b, neg)
      /\ LiftIncDec => \/ mnemonic = "inc" /\ Define(b, inc)
                       \/ mnemonic = "dec" /\ Define(b, dec)
  BY <1>3 DEF LiftUnary, LiftIncDec, IfOperands, Arm, LateArm
<1> HIDE DEF not, neg, inc, dec
<1>. QED BY <1>3, <1>4, Defined

LEMMA CompareArm ==
  ASSUME NEW s, NEW t, Starts(s, t, insn), LiftCompare
  PROVE  Lifted(s, t)
<1> DEFINE cmp  == Reads("Cmp", << Operand1, Operand2 >>)
           test == Reads("Test", << Operand1, Operand2 >>)
<1>1. insn.mnemonic \in { "cmp", "test" } /\ mnemonic = insn.mnemonic /\ operands = insn.op_str
  BY MnemonicKept DEF LiftCompare, Arm
<1>2. /\ Operand1 = parse_single_operand(insn.op_str[1], versions)
      /\ Operand2 = parse_single_operand(insn.op_str[2], versions)
  BY <1>1 DEF Operand1, Operand2
<1>3. /\ Len(operands) >= 2
      /\ mnemonic = "cmp" => Good(s, t, insn, cmp)
      /\ mnemonic = "test" => Good(s, t, insn, test)
  BY <1>1, <1>2, CompareGood
<1>4. (mnemonic = "cmp" /\ Emit(cmp)) \/ (mnemonic = "test" /\ Emit(test))
  BY <1>1, <1>3 DEF LiftCompare, IfOperands
<1>. QED BY <1>3, <1>4, Emitted

LEMMA PushArm ==
  ASSUME NEW s, NEW t, Starts(s, t, insn), LiftPush
  PROVE  Lifted(s, t)
<1> DEFINE o == Reads("Push", << Operand1 >>)
<1>1. insn.mnemonic = "push" /\ operands = insn.op_str
  BY MnemonicKept DEF LiftPush, Arm
<1>2. Operand1 = parse_single_operand(insn.op_str[1], versions)
  BY <1>1 DEF Operand1
<1>3. Len(operands) >= 1 /\ Good(s, t, insn, o)
  BY <1>1, <1>2, PushGood
<1>4. Emit(o)
  BY <1>3 DEF LiftPush, IfOperands
<1>. QED BY <1>3, <1>4, Emitted

LEMMA PopArm ==
  ASSUME NEW s, NEW t, Starts(s, t, insn), LiftPop
  PROVE  Lifted(s, t)
<1> DEFINE b == dst_base(operands[1])
           o == Opcode("Pop", new_version(b), << >>)
<1>1. insn.mnemonic = "pop" /\ operands = insn.op_str
  BY MnemonicKept DEF LiftPop, Arm
<1>2. new_version(b).base = dst_base(insn.op_str[1])
  BY <1>1, VersionBase
<1>3. Len(operands) >= 1 /\ Good(s, t, insn, o)
  BY <1>1, <1>2, PopGood
<1>4. Define(b, o)
  BY <1>3 DEF LiftPop, IfOperands
<1>. QED BY <1>3, <1>4, Defined

LEMMA CmovArm ==
  ASSUME NEW s, NEW t, Starts(s, t, insn), LiftCmov
  PROVE  Lifted(s, t)
<1> DEFINE b == dst_base(operands[1])
           o == Conditional("Cmovcc", parse_condition_suffix(mnemonic), new_version(b), << Operand2 >>)
<1>1. mnemonic = insn.mnemonic /\ operands = insn.op_str /\ mnemonic \in Followed /\ mnemonic \in CMOVCC
  BY MnemonicKept DEF LiftCmov, LateArm, Arm
<1>2. insn.mnemonic \in Moves
  BY <1>1 DEF CMOVCC, Followed, Jumps, Arithmetic, Shifts, Moves
<1>3. new_version(b).base = dst_base(insn.op_str[1])
  BY <1>1, VersionBase
<1>4. Operand2 = parse_single_operand(insn.op_str[2], versions)
  BY <1>1 DEF Operand2
<1>5. Len(operands) >= 2 /\ Good(s, t, insn, o)
  BY <1>1, <1>2, <1>3, <1>4, CmovGood
<1>6. Define(b, o)
  BY <1>5 DEF LiftCmov, IfOperands
<1>. QED BY <1>5, <1>6, Defined

\* call and the jumps.
LEMMA TransferArms ==
  ASSUME NEW s, NEW t, Starts(s, t, insn), LiftCall \/ LiftJmp \/ LiftJcc
  PROVE  Lifted(s, t)
<1> DEFINE target == insn.op_str[1].value
           cond   == parse_condition_suffix(mnemonic)
<1>1. /\ insn.mnemonic \in Followed
      /\ mnemonic = insn.mnemonic /\ operands = insn.op_str /\ NextAddr = NextIp(insn)
  BY MnemonicKept
<1>2. CASE LiftCall
  <2>1. insn.mnemonic = "call"
    BY <1>1, <1>2 DEF LiftCall, Arm
  <2>2. /\ Len(operands) = 1 /\ IsImm(operands[1])
        /\ Good(s, t, insn, Direct(target, NextAddr))
    BY <1>1, <2>1, CallGood
  <2>3. Emit(lift_call(operands[1]))
    BY <1>2, <2>2 DEF LiftCall, IfOperands
  <2>4. lift_call(operands[1]) = Direct(target, NextAddr)
    BY <1>1, <2>2 DEF lift_call, IsImm, is_memory_operand
  <2>. QED BY <2>2, <2>3, <2>4, Emitted
<1>3. CASE LiftJmp
  <2>1. insn.mnemonic = "jmp"
    BY <1>1, <1>3 DEF LiftJmp, Arm
  <2>2. Len(operands) = 1 /\ IsImm(operands[1]) /\ Good(s, t, insn, Jmp(target))
    BY <1>1, <2>1, JmpGood
  <2>3. Emit(lift_jmp(operands[1]))
    BY <1>3, <2>2 DEF LiftJmp, IfOperands
  <2>4. lift_jmp(operands[1]) = Jmp(target)
    BY <1>1, <2>2 DEF lift_jmp, IsImm, is_memory_operand
  <2>. QED BY <2>2, <2>3, <2>4, Emitted
<1>4. CASE LiftJcc
  <2>1. mnemonic \in JCC
    BY <1>4 DEF LiftJcc, LateArm, Arm
  <2>2. insn.mnemonic \in Jumps
    BY <1>1, <2>1 DEF JCC, COND_JUMPS, Followed, Jumps, Arithmetic, Shifts, Moves
  <2>3. /\ Len(operands) = 1 /\ IsImm(operands[1])
        /\ Good(s, t, insn, Jcc(cond, target, NextAddr))
    BY <1>1, <2>2, JccGood
  <2>4. operands # << >> /\ operands[1].kind = "imm"
    BY <2>3 DEF IsImm
  <2>5. Emit(Jcc(cond, target, NextAddr))
    BY <1>1, <1>4, <2>4 DEF LiftJcc
  <2>. QED BY <2>3, <2>5, Emitted
<1>. QED BY <1>2, <1>3, <1>4

\* nop, ret and the traps.
LEMMA QuietArms ==
  ASSUME NEW s, NEW t, Starts(s, t, insn), LiftNop \/ LiftRet \/ LiftTrap
  PROVE  Lifted(s, t)
<1>1. mnemonic = insn.mnemonic /\ mnemonic \in Followed
  BY MnemonicKept
<1>2. CASE LiftNop
  <2>1. insn.mnemonic = "nop" /\ Emit(Reads("Nop", << >>))
    BY <1>1, <1>2 DEF LiftNop, Arm, NOP_LIKE, Followed, Jumps, Arithmetic, Shifts, Moves
  <2>. QED BY <2>1, NopGood, Emitted
<1>3. CASE LiftRet
  <2>1. insn.mnemonic = "ret" /\ Emit(Reads("Ret", << >>))
    BY <1>1, <1>3 DEF LiftRet, Arm, LIFTED_AS_RET, Followed, Jumps, Arithmetic, Shifts, Moves
  <2>. QED BY <2>1, RetGood, Emitted
<1>4. CASE LiftTrap
  <2>1. insn.mnemonic \in { "ud2", "hlt" } /\ Emit(Reads("Ret", << >>))
    BY <1>1, <1>4 DEF LiftTrap, LateArm, Arm, TRAPS, Followed, Jumps, Arithmetic, Shifts, Moves
  <2>. QED BY <2>1, NopGood, Emitted
<1>. QED BY <1>2, <1>3, <1>4

LEMMA LeaveArm ==
  ASSUME NEW s, NEW t, Starts(s, t, insn), LiftLeave
  PROVE  Lifted(s, t)
<1> DEFINE o1 == Opcode("Mov", new_version("RSP"), << Current("RBP") >>)
           o2 == Opcode("Pop", new_version("RBP"), << >>)
<1>1. insn.mnemonic = "leave"
  BY MnemonicKept DEF LiftLeave, LateArm, Arm
<1>2. /\ new_version("RSP").base = "RSP" /\ new_version("RBP").base = "RBP"
      /\ Current("RBP").kind = "var" /\ Current("RBP").var.base = "RBP"
  BY VersionBase
<1>3. /\ Paired(Executed(s, insn), Statement(Statement(t, o1), o2), LostAfter(s, insn))
      /\ ~ IsUndefined(t, o1) /\ ~ IsUndefined(t, o2)
      /\ SameWay(s, t, insn, o1)
  BY <1>1, <1>2, LeaveGood
<1>4. ir_instructions' = ir_instructions \o << At(o1), At(o2) >>
  BY DEF LiftLeave, Push
<1> HIDE DEF o1, o2
<1>. QED BY <1>3, <1>4 DEF Lifted

\* The other arms take nothing that is carried over.
LEMMA NoOtherArm ==
  ASSUME NEW s, NEW t, Starts(s, t, insn)
  PROVE  ~ LiftMul /\ ~ LiftAtomic /\ ~ LiftSetcc /\ ~ LiftSyscall /\ ~ LiftUnknown
<1>1. mnemonic = insn.mnemonic /\ mnemonic \in Followed /\ ~ is_lock
  BY MnemonicKept
<1>2. ~ DepartsBy("wide", s, insn) /\ ~ DepartsBy("unlifted", s, insn)
  BY DEF Starts, IsCarried, Departures, Reasons
<1>3. mnemonic # "mul" /\ mnemonic # "xchg"
  BY <1>1, <1>2 DEF DepartsBy
<1>4. Followed \cap (SETCC \cup { "syscall" }) = {}
  BY DEF SETCC, Followed, Jumps, Arithmetic, Shifts, Moves
<1>5. Followed \ { "xchg" } \subseteq PLAIN_ARMS \cup LATE_ARMS \cup CMOVCC \cup JCC
  <2>1. Jumps \subseteq JCC
    BY DEF Jumps, JCC, COND_JUMPS
  <2>2. Moves \subseteq CMOVCC
    BY DEF Moves, CMOVCC
  <2>3. Arithmetic \subseteq PLAIN_ARMS
    BY DEF Arithmetic, Shifts, PLAIN_ARMS, BINARY_ALU
  <2>4. { "nop", "ret", "not", "neg", "mul", "push", "pop", "call", "jmp", "mov", "lea", "cmp", "test" } \subseteq PLAIN_ARMS
    BY DEF PLAIN_ARMS, NOP_LIKE, LIFTED_AS_RET, MOV_FAMILY
  <2>5. { "ud2", "hlt", "leave", "inc", "dec" } \subseteq LATE_ARMS
    BY DEF LATE_ARMS, TRAPS
  <2>. QED BY <2>1, <2>2, <2>3, <2>4, <2>5 DEF Followed
<1>6. ~ LiftMul /\ ~ LiftSetcc /\ ~ LiftSyscall
  BY <1>1, <1>3, <1>4 DEF LiftMul, LiftSetcc, LiftSyscall, LateArm, Arm
<1>7. ~ LiftAtomic
  BY <1>1 DEF LiftAtomic, LockArm
<1>8. ~ LiftUnknown
  BY <1>1, <1>3, <1>5 DEF LiftUnknown
<1>. QED BY <1>6, <1>7, <1>8

\* Whatever arm takes it, an instruction that is carried over is lifted right.
LEMMA EveryArm ==
  ASSUME NEW s, NEW t, Starts(s, t, insn), LiftInsn
  PROVE  Lifted(s, t)
BY MovArm, LeaArm, AluArm, UnaryArm, CompareArm, PushArm, PopArm, CmovArm, TransferArms,
   QuietArms, LeaveArm, NoOtherArm
   DEF LiftInsn

-----------------------------------------------------------------------------
(* The theorem.                                                            *)

\* The instruction that a step takes is one of the block's.
LEMMA InsnIsDisassembled ==
  ASSUME IInv, CoverInv, LiftInsn
  PROVE  /\ insn \in DisassembledInsn
         /\ Len(ir_instructions) \in Nat /\ DOMAIN ir_instructions = 1 .. Len(ir_instructions)
<1>1. pc = "lift" /\ idx <= Len(cfg[blk].instructions)
  BY PassesOne
<1>2. cfg \in Seq(BasicBlock) /\ blk \in 1 .. Len(cfg)
  BY <1>1, CfgsAssumption DEF IInv, CtlInv
<1>3. cfg[blk] \in BasicBlock
  BY <1>2, ElementOfSeq
<1>4. cfg[blk].instructions \in Seq(DisassembledInsn)
  BY <1>3 DEF BasicBlock
<1>5. /\ idx \in 1 .. Len(cfg[blk].instructions) + 1
      /\ Covered(ir_instructions, cfg[blk].instructions, idx - 1)
  BY <1>1 DEF CoverInv
<1>6. idx \in 1 .. Len(cfg[blk].instructions)
  BY <1>1, <1>4, <1>5, LenProperties
<1>7. insn \in DisassembledInsn
  BY <1>4, <1>6, ElementOfSeq DEF insn
<1>. QED BY <1>5, <1>7 DEF Covered

\* What has been added, one or two.
LEMMA AddedOne ==
  ASSUME NEW irs, Len(irs) \in Nat, DOMAIN irs = 1 .. Len(irs), NEW a, NEW irs2, irs2 = irs \o << a >>,
         NEW new, new = SubSeq(irs2, Len(irs) + 1, Len(irs2))
  PROVE  Len(new) = 1 /\ DOMAIN new = { 1 } /\ new[1] = a
<1>1. PICK l \in Nat : l = Len(irs) /\ DOMAIN irs = 1 .. l
  OBVIOUS
<1>2. Len(irs2) = l + 1 /\ irs2[l + 1] = a
  BY <1>1
<1>3. new = SubSeq(irs2, l + 1, l + 1)
  BY <1>1, <1>2
<1>. QED BY <1>1, <1>2, <1>3

LEMMA AddedTwo ==
  ASSUME NEW irs, Len(irs) \in Nat, DOMAIN irs = 1 .. Len(irs), NEW a, NEW b, NEW irs2, irs2 = irs \o << a, b >>,
         NEW new, new = SubSeq(irs2, Len(irs) + 1, Len(irs2))
  PROVE  Len(new) = 2 /\ DOMAIN new = { 1, 2 } /\ new[1] = a /\ new[2] = b
<1>1. PICK l \in Nat : l = Len(irs) /\ DOMAIN irs = 1 .. l
  OBVIOUS
<1>2. Len(irs2) = l + 2 /\ irs2[l + 1] = a /\ irs2[l + 2] = b
  BY <1>1
<1>3. new = SubSeq(irs2, l + 1, l + 2)
  BY <1>1, <1>2
<1>. QED BY <1>1, <1>2, <1>3

\* What has been shown of the registers, the memory and the flags, with lost.
LEMMA EffectOf ==
  ASSUME NEW s, NEW i, NEW u, Paired(Executed(s, i), u, LostAfter(s, i))
  PROVE  Agrees(After(s, i), u) /\ IsMachine(After(s, i)) /\ IsC(u)
<1> DEFINE e == Executed(s, i)
           l == LostAfter(s, i)
           a == After(s, i)
<1>1. IsMachine(e) /\ IsC(u) /\ Alike(e, u, l)
  BY DEF Paired
<1>2. l \in BOOLEAN
  BY DEF LostAfter
<1>3. a = [ e EXCEPT !.lost = l ]
  BY DEF After
<1> HIDE DEF e, l, a
<1>4. DOMAIN a = DOMAIN e /\ a.regs = e.regs /\ a.mem = e.mem /\ a.flags = e.flags /\ a.lost = l
  BY <1>1, <1>3 DEF IsMachine, Fields
<1>5. IsMachine(a)
  BY <1>1, <1>2, <1>4 DEF IsMachine, Fields
<1>6. Agrees(a, u)
  BY <1>1, <1>4 DEF Agrees, Alike
<1>. QED BY <1>1, <1>5, <1>6 DEF a

\* A step keeps the effect.
LEMMA StepKeeps ==
  ASSUME IInv, CoverInv, LiftInsn, NEW p \in Pairs, Agrees(p.machine, p.c), IsCarried(p.machine, insn)
  PROVE  SameEffectOf(p.machine, p.c, insn, NewIrs)
<1> DEFINE s == p.machine
           t == p.c
<1>1. Starts(s, t, insn)
  <2>1. IsMachine(s) /\ IsC(t)
    BY PairsAssumption
  <2>2. Alike(s, t, s.lost)
    BY DEF Agrees, Alike
  <2>. QED BY <2>1, <2>2, InsnIsDisassembled DEF Starts, Paired
<1> HIDE DEF s, t
<1>2. Lifted(s, t)
  BY <1>1, EveryArm
<1>3. Len(ir_instructions) \in Nat /\ DOMAIN ir_instructions = 1 .. Len(ir_instructions)
  BY InsnIsDisassembled
<1> DEFINE irs == NewIrs
<1>4. irs = SubSeq(ir_instructions', Len(ir_instructions) + 1, Len(ir_instructions'))
  BY DEF NewIrs
<1> HIDE DEF irs
<1>5. \A o : At(o).opcode = o
  BY DEF At
<1>6. CASE \E o : ir_instructions' = ir_instructions \o << At(o) >> /\ Good(s, t, insn, o)
  <2>1. PICK o : ir_instructions' = ir_instructions \o << At(o) >> /\ Good(s, t, insn, o)
    BY <1>6
  <2>2. Len(irs) = 1 /\ DOMAIN irs = { 1 } /\ irs[1] = At(o)
    BY <1>3, <1>4, <2>1, AddedOne
  <2>3. irs[1].opcode = o /\ Statements(t, irs) = Statement(t, o)
    BY <1>5, <2>2 DEF Statements
  <2>4. Agrees(After(s, insn), Statements(t, irs)) /\ IsMachine(After(s, insn)) /\ IsC(Statements(t, irs))
    BY <2>1, <2>3, EffectOf DEF Good
  <2>5. /\ \A k \in DOMAIN irs : ~ IsUndefined(t, irs[k].opcode)
        /\ SameWay(s, t, insn, irs[1].opcode)
    BY <2>1, <2>2, <2>3 DEF Good
  <2>. QED BY <2>4, <2>5 DEF SameEffectOf, IsDefined, s, t, irs
<1>7. CASE \E o1, o2 :
             /\ ir_instructions' = ir_instructions \o << At(o1), At(o2) >>
             /\ Paired(Executed(s, insn), Statement(Statement(t, o1), o2), LostAfter(s, insn))
             /\ ~ IsUndefined(t, o1) /\ ~ IsUndefined(t, o2)
             /\ SameWay(s, t, insn, o1)
  <2>1. PICK o1, o2 :
          /\ ir_instructions' = ir_instructions \o << At(o1), At(o2) >>
          /\ Paired(Executed(s, insn), Statement(Statement(t, o1), o2), LostAfter(s, insn))
          /\ ~ IsUndefined(t, o1) /\ ~ IsUndefined(t, o2)
          /\ SameWay(s, t, insn, o1)
    BY <1>7
  <2>2. Len(irs) = 2 /\ DOMAIN irs = { 1, 2 } /\ irs[1] = At(o1) /\ irs[2] = At(o2)
    BY <1>3, <1>4, <2>1, AddedTwo
  <2>3. /\ irs[1].opcode = o1 /\ irs[2].opcode = o2
        /\ Statements(t, irs) = Statement(Statement(t, o1), o2)
    BY <1>5, <2>2 DEF Statements
  <2>4. Agrees(After(s, insn), Statements(t, irs)) /\ IsMachine(After(s, insn)) /\ IsC(Statements(t, irs))
    BY <2>1, <2>3, EffectOf
  <2>5. /\ \A k \in DOMAIN irs : ~ IsUndefined(t, irs[k].opcode)
        /\ SameWay(s, t, insn, irs[1].opcode)
    BY <2>1, <2>2, <2>3
  <2>. QED BY <2>4, <2>5 DEF SameEffectOf, IsDefined, s, t, irs
<1>. QED BY <1>2, <1>6, <1>7 DEF Lifted

\* For words of every width, every graph and every two states that agree: the IR
\* that lift_function gives for an instruction that is carried over, as backend.rs
\* writes it, does to cpu and memory what the instruction does to the machine, and
\* goes where the instruction goes.
THEOREM EffectKeptCorrect == Spec => EffectKept
<1>1. ASSUME IInv, CoverInv, [Next]_vars
      PROVE  [ LiftInsn =>
                 \A p \in Pairs : IsCarried(p.machine, insn) /\ Agrees(p.machine, p.c)
                                    => SameEffectOf(p.machine, p.c, insn, NewIrs) ]_vars
  BY <1>1, StepKeeps
<1>2. (IInv /\ CoverInv) /\ [Next]_vars
        => [ LiftInsn =>
               \A p \in Pairs : IsCarried(p.machine, insn) /\ Agrees(p.machine, p.c)
                                  => SameEffectOf(p.machine, p.c, insn, NewIrs) ]_vars
  BY <1>1
<1>. QED BY <1>2, CoverInvariant, PTL DEF Spec, EffectKept
=============================================================================
