----------------------------- MODULE LiftProofs -----------------------------
(***************************************************************************)
(* Within a block the lifter's versions are right for every graph: a       *)
(* version is assigned once, the assignments of a register ascend without  *)
(* a gap, and an instruction reads the latest version there is before it,  *)
(* or, in a move, load or lea, the one that it assigns itself.             *)
(* And the lifter loses no instruction, makes up none and keeps their      *)
(* order.                                                                  *)
(*                                                                         *)
(* Whatever the mnemonic, an instruction does one of three things: it      *)
(* emits IR that defines nothing, it defines the next version of one       *)
(* register, or it is leave and defines two.  Lemma ArmShape says so; the  *)
(* invariant is proved from these three cases.                             *)
(***************************************************************************)
EXTENDS Lift, TLAPS, FiniteSetTheorems

\* The variables that are read from a version map.
Currents(vs) == { current_var(vs, b) : b \in VarBase }

\* The variables that an opcode reads are the current ones of a version map.
ReadsIn(opcode, vs) ==
  \A j \in DOMAIN opcode.srcs : \A x \in OperandVars(opcode.srcs[j]) :
    x \in Currents(vs)

\* When an opcode that defines a register reads: after or before it does.
ReadsWhen(opcode, before, after) ==
  IF opcode.op \in VersionFirst THEN ReadsIn(opcode, after) ELSE ReadsIn(opcode, before)

CtlInv ==
  /\ cfg \in Cfgs
  /\ pc \in { "block", "lift", "done" }
  /\ blk \in 1 .. Len(cfg) + 1
  /\ idx \in Nat
  /\ pc = "lift" => blk \in 1 .. Len(cfg)

\* What is assigned is not ahead of the version map.
Bounded(irs, vs) ==
  \A k \in DOMAIN irs :
    Dst(irs, k) = NoVar \/ (Dst(irs, k) \in VarId /\ Dst(irs, k).version <= vs[Dst(irs, k).base])

Ascending(irs) ==
  \A j, k \in DOMAIN irs :
    j < k /\ Dst(irs, j) # NoVar /\ Dst(irs, j).base = Dst(irs, k).base
      => Dst(irs, j).version < Dst(irs, k).version

Dense(irs, vs) ==
  \A b \in VarBase : \A v \in 1 .. vs[b] :
    \E k \in DOMAIN irs : Dst(irs, k) = [base |-> b, version |-> v]

\* The variable is the last of its register above position k, if there is one.
LatestBefore(irs, k, x) ==
  /\ x.version > 0 => \E j \in 1 .. k - 1 : Dst(irs, j) = x
  /\ \A j \in 1 .. k - 1 : Dst(irs, j).base = x.base => Dst(irs, j).version <= x.version

Latest(irs) ==
  \A k \in DOMAIN irs : \A x \in VarsRead(irs, k) :
    /\ x \in VarId
    /\ IF ReadsItself(irs[k].opcode, x) THEN x = Dst(irs, k) ELSE LatestBefore(irs, k, x)

\* What holds of the IR of a block and the version map it leads to.
Versioned(irs, vs) ==
  /\ vs \in [ VarBase -> Nat ]
  /\ \E n \in Nat : n = Len(irs) /\ DOMAIN irs = 1 .. n
  /\ Bounded(irs, vs)
  /\ Ascending(irs)
  /\ Dense(irs, vs)
  /\ Latest(irs)

IInv == CtlInv /\ Versioned(ir_instructions, versions)

-----------------------------------------------------------------------------
(* Registers and operands.                                                 *)

\* The registers that instructions name by themselves.
LEMMA NamedBases ==
  "RAX" \in VarBase /\ "RSP" \in VarBase /\ "RBP" \in VarBase /\ NoReg \notin VarBase
BY DEF VarBase, SubRegisters, NoReg

\* A register that is recognised has a base.
LEMMA ParseRegister ==
  ASSUME NEW name, IsRegister(name)
  PROVE  parse_register(name) \in VarBase
BY DEF IsRegister, parse_register

\* Whatever the destination operand is, some register is defined.
LEMMA DstBase ==
  ASSUME NEW op
  PROVE  dst_base(op) \in VarBase
BY ParseRegister, NamedBases DEF dst_base

\* A memory operand is parsed to current variables.
LEMMA ParseMemory ==
  ASSUME NEW op, NEW vs
  PROVE  \A x \in OperandVars(parse_memory_operand(op, vs)) :
           x \in Currents(vs)
<1> DEFINE m == parse_memory_operand(op, vs)
           IsCurrent(x) == x \in Currents(vs)
<1>1. m.kind = "mem"
  BY DEF parse_memory_operand
<1>2. \A name : IsRegister(name) => IsCurrent(current_var(vs, parse_register(name)))
  BY ParseRegister DEF Currents
<1>3. m.base = NoVar \/ IsCurrent(m.base)
  BY <1>2 DEF parse_memory_operand
<1>4. m.index = NoVar \/ IsCurrent(m.index)
  BY <1>2 DEF parse_memory_operand
<1>5. OperandVars(m) = { m.base, m.index } \ { NoVar }
  BY <1>1 DEF OperandVars
<1>. QED BY <1>3, <1>4, <1>5

\* So is any operand.
LEMMA ParseOperand ==
  ASSUME NEW op, NEW vs
  PROVE  \A x \in OperandVars(parse_single_operand(op, vs)) :
           x \in Currents(vs)
<1> DEFINE o == parse_single_operand(op, vs)
<1>1. CASE is_memory_operand(op)
  <2>1. o = parse_memory_operand(op, vs)
    BY <1>1 DEF parse_single_operand, is_memory_operand
  <2>. QED BY <2>1, ParseMemory
<1>2. CASE ~ is_memory_operand(op) /\ op.kind = "reg" /\ IsRegister(op.name)
  <2>1. o = [kind |-> "var", var |-> current_var(vs, parse_register(op.name))]
    BY <1>2 DEF parse_single_operand, is_memory_operand
  <2>2. OperandVars(o) = { current_var(vs, parse_register(op.name)) }
    BY <2>1 DEF OperandVars
  <2>. QED BY <1>2, <2>2, ParseRegister DEF Currents
<1>3. CASE ~ is_memory_operand(op) /\ ~ (op.kind = "reg" /\ IsRegister(op.name))
  <2>1. o.kind = "imm"
    BY <1>3 DEF parse_single_operand, is_memory_operand, Imm
  <2>2. OperandVars(o) = {}
    BY <2>1 DEF OperandVars
  <2>. QED BY <2>2
<1>. QED BY <1>1, <1>2, <1>3

-----------------------------------------------------------------------------
(* What an arm can do.                                                     *)

EmitsOnly == \E o : Emit(o) /\ o.dst = NoVar /\ ReadsIn(o, versions)

DefinesOne ==
  \E b \in VarBase : \E o :
    /\ Define(b, o)
    /\ o.dst = new_version(b)
    /\ ReadsWhen(o, versions, Bump(b))

\* An instruction that is not understood reads and defines nothing.
LEMMA UnknownEmits == Emit(Unknown) => EmitsOnly
BY DEF EmitsOnly, Unknown, Reads, Opcode, ReadsIn

\* Opcodes without a destination.
LEMMA EmitReads ==
  ASSUME NEW op, NEW srcs, Emit(Reads(op, srcs)),
         \A j \in DOMAIN srcs : \A x \in OperandVars(srcs[j]) :
           x \in Currents(versions)
  PROVE  EmitsOnly
BY DEF EmitsOnly, Reads, Opcode, ReadsIn

\* The operands of the instruction, read before anything is defined.
LEMMA OwnOperands ==
  /\ \A x \in OperandVars(Operand1) : x \in Currents(versions)
  /\ \A x \in OperandVars(Operand2) : x \in Currents(versions)
  /\ \A b \in VarBase : \A x \in OperandVars(Current(b)) :
       x \in Currents(versions)
  /\ \A n : OperandVars(Imm(n)) = {}
<1>1. \A b \in VarBase : OperandVars(Current(b)) = { current_var(versions, b) }
  BY DEF OperandVars, Current
<1>2. \A n : OperandVars(Imm(n)) = {}
  BY DEF OperandVars, Imm
<1>. QED BY <1>1, <1>2, ParseOperand DEF Operand1, Operand2, Currents

\* An opcode that defines a register.
LEMMA DefineOne ==
  ASSUME NEW b \in VarBase, NEW o, Define(b, o), o.dst = new_version(b),
         ReadsWhen(o, versions, Bump(b))
  PROVE  DefinesOne
BY DEF DefinesOne

\* mov, in its three forms.
LEMMA MovShape == LiftMov => EmitsOnly \/ DefinesOne
<1> SUFFICES ASSUME lift_mov PROVE EmitsOnly \/ DefinesOne
  BY UnknownEmits DEF LiftMov, IfOperands
<1> DEFINE b == dst_base(operands[1])
           m1 == is_memory_operand(operands[1])
           m2 == is_memory_operand(operands[2])
<1>0. b \in VarBase
  BY DstBase
<1>1. CASE m1 /\ ~ m2
  <2>1. Emit(Reads("Store", << Operand1, Operand2 >>))
    BY <1>1 DEF lift_mov
  <2>. QED BY <2>1, EmitReads, OwnOperands
<1>2. CASE ~ m1 /\ m2
  <2> DEFINE o == Opcode("Load", new_version(b), << parse_memory_operand(operands[2], Bump(b)) >>)
  <2>1. Define(b, o)
    BY <1>2 DEF lift_mov
  <2>2. o.dst = new_version(b) /\ ReadsIn(o, Bump(b))
    BY ParseMemory DEF Opcode, ReadsIn
  <2>3. o.op \in VersionFirst
    BY DEF Opcode, VersionFirst
  <2>. QED BY <1>0, <2>1, <2>2, <2>3, DefineOne DEF ReadsWhen
<1>3. CASE ~ (m1 /\ ~ m2) /\ ~ (~ m1 /\ m2)
  <2> DEFINE o == Opcode("Mov", new_version(b), << parse_single_operand(operands[2], Bump(b)) >>)
  <2>1. Define(b, o)
    BY <1>3 DEF lift_mov
  <2>2. o.dst = new_version(b) /\ ReadsIn(o, Bump(b))
    BY ParseOperand DEF Opcode, ReadsIn
  <2>3. o.op \in VersionFirst
    BY DEF Opcode, VersionFirst
  <2>. QED BY <1>0, <2>1, <2>2, <2>3, DefineOne DEF ReadsWhen
<1>. QED BY <1>1, <1>2, <1>3

\* lea.
LEMMA LeaShape == LiftLea => EmitsOnly \/ DefinesOne
<1> DEFINE b == dst_base(operands[1])
           o == Opcode("Lea", new_version(b), << parse_memory_operand(operands[2], Bump(b)) >>)
<1>1. b \in VarBase
  BY DstBase
<1>2. o.dst = new_version(b) /\ ReadsWhen(o, versions, Bump(b))
  BY ParseMemory DEF Opcode, ReadsIn, ReadsWhen, VersionFirst
<1>3. LiftLea => Define(b, o) \/ Emit(Unknown)
  BY DEF LiftLea, IfOperands
<1>. QED BY <1>1, <1>2, <1>3, DefineOne, UnknownEmits

\* The two-operand and three-operand arithmetic.
LEMMA AluShape ==
  ASSUME NEW m, lift_binary_alu(m)
  PROVE  DefinesOne
<1> DEFINE b   == dst_base(operands[1])
           rhs == parse_single_operand(operands[Len(operands)], versions)
           lhs == IF Len(operands) >= 3 THEN Operand2 ELSE Operand1
           o   == Opcode(AluOp(m), new_version(b), << lhs, rhs >>)
<1>1. b \in VarBase /\ Define(b, o)
  BY DstBase DEF lift_binary_alu
<1>2. /\ \A x \in OperandVars(lhs) : x \in Currents(versions)
      /\ \A x \in OperandVars(rhs) : x \in Currents(versions)
  BY ParseOperand, OwnOperands
<1>3. o.dst = new_version(b) /\ o.srcs = << lhs, rhs >> /\ o.op \notin VersionFirst
  BY DEF Opcode, AluOp, VersionFirst
<1> HIDE DEF o, lhs, rhs
<1>4. ReadsIn(o, versions)
  BY <1>2, <1>3 DEF ReadsIn
<1>. QED BY <1>1, <1>3, <1>4, DefineOne DEF ReadsWhen

\* mul.
LEMMA MulShape == LiftMul => EmitsOnly \/ DefinesOne
<1> DEFINE o == Opcode("Mul", new_version("RAX"), << Current("RAX"), Operand1 >>)
<1>1. LiftMul => Define("RAX", o) \/ lift_binary_alu("imul") \/ Emit(Unknown)
  BY DEF LiftMul, IfOperands
<1>2. o.dst = new_version("RAX") /\ ReadsWhen(o, versions, Bump("RAX"))
  BY NamedBases, OwnOperands DEF Opcode, ReadsIn, ReadsWhen, VersionFirst
<1>. QED BY <1>1, <1>2, NamedBases, AluShape, DefineOne, UnknownEmits

\* not, neg, inc and dec read the register that they write.
LEMMA UnaryShape == LiftUnary \/ LiftIncDec => EmitsOnly \/ DefinesOne
<1> DEFINE b    == dst_base(operands[1])
           not  == IF mnemonic = "not" THEN "Not" ELSE "Neg"
           inc  == IF mnemonic = "inc" THEN "Add" ELSE "Sub"
           uno  == Opcode(not, new_version(b), << Current(b) >>)
           step == Opcode(inc, new_version(b), << Current(b), Imm(1) >>)
<1>1. b \in VarBase
  BY DstBase
<1>2. LiftUnary => Define(b, uno) \/ Emit(Unknown)
  BY DEF LiftUnary, IfOperands
<1>3. LiftIncDec => Define(b, step) \/ Emit(Unknown)
  BY DEF LiftIncDec, IfOperands
<1>4. uno.dst = new_version(b) /\ ReadsWhen(uno, versions, Bump(b))
  BY <1>1, OwnOperands DEF Opcode, ReadsIn, ReadsWhen, VersionFirst
<1>5. step.dst = new_version(b) /\ ReadsWhen(step, versions, Bump(b))
  BY <1>1, OwnOperands DEF Opcode, ReadsIn, ReadsWhen, VersionFirst
<1>. QED BY <1>1, <1>2, <1>3, <1>4, <1>5, DefineOne, UnknownEmits

\* pop, setcc and cmovcc define their destination.
LEMMA DestinationShape == LiftPop \/ LiftSetcc \/ LiftCmov => EmitsOnly \/ DefinesOne
<1> DEFINE b    == dst_base(operands[1])
           cond == parse_condition_suffix(mnemonic)
           pop  == Opcode("Pop", new_version(b), << >>)
           set  == Conditional("Setcc", cond, new_version(b), << >>)
           cmov == Conditional("Cmovcc", cond, new_version(b), << Operand2 >>)
<1>1. b \in VarBase
  BY DstBase
<1>2. /\ LiftPop => Define(b, pop) \/ Emit(Unknown)
      /\ LiftSetcc => Define(b, set) \/ Emit(Unknown)
      /\ LiftCmov => Define(b, cmov) \/ Emit(Unknown)
  BY DEF LiftPop, LiftSetcc, LiftCmov, IfOperands
<1>3. /\ pop.dst = new_version(b) /\ ReadsWhen(pop, versions, Bump(b))
      /\ set.dst = new_version(b) /\ ReadsWhen(set, versions, Bump(b))
      /\ cmov.dst = new_version(b) /\ ReadsWhen(cmov, versions, Bump(b))
  BY OwnOperands DEF Opcode, Conditional, ReadsIn, ReadsWhen, VersionFirst
<1>. QED BY <1>1, <1>2, <1>3, DefineOne, UnknownEmits

\* Calls and jumps define nothing.
LEMMA TransferShape ==
  LiftCall \/ LiftJmp \/ LiftJcc \/ LiftSyscall => EmitsOnly
<1>1. \A target : Emit(Jmp(target)) => EmitsOnly
  BY DEF EmitsOnly, Jmp, ReadsIn
<1>2. \A c, t, f : Emit(Jcc(c, t, f)) => EmitsOnly
  BY DEF EmitsOnly, Jcc, ReadsIn
<1>3. \A t, f : Emit(Direct(t, f)) \/ Emit(External(t, f)) => EmitsOnly
  BY DEF EmitsOnly, Direct, External, ReadsIn
<1>4. \A f : Emit(Indirect(Operand1, f)) => EmitsOnly
  BY OwnOperands DEF EmitsOnly, Indirect, ReadsIn
<1>5. LiftCall => EmitsOnly
  BY <1>3, <1>4, UnknownEmits DEF LiftCall, IfOperands, lift_call
<1>6. LiftJmp => EmitsOnly
  BY <1>1, <1>4, UnknownEmits DEF LiftJmp, IfOperands, lift_jmp
<1>. QED BY <1>2, <1>3, <1>5, <1>6 DEF LiftJcc, LiftSyscall

\* The arms that only read their operands, if anything.
LEMMA ReadShape ==
  LiftNop \/ LiftCompare \/ LiftPush \/ LiftRet \/ LiftAtomic \/ LiftTrap \/ LiftUnknown => EmitsOnly
<1>1. \A op : Emit(Reads(op, << >>)) => EmitsOnly
  BY DEF EmitsOnly, Reads, Opcode, ReadsIn
<1>2. \A op : Emit(Reads(op, << Operand1 >>)) => EmitsOnly
  BY EmitReads, OwnOperands
<1>3. \A op : Emit(Reads(op, << Operand1, Operand2 >>)) => EmitsOnly
  BY EmitReads, OwnOperands
<1>. QED BY <1>1, <1>2, <1>3, UnknownEmits
         DEF LiftNop, LiftCompare, LiftPush, LiftRet, LiftAtomic, LiftTrap, LiftUnknown, IfOperands

\* Every arm emits, defines one register, or is leave.
LEMMA ArmShape == LiftInsn => EmitsOnly \/ DefinesOne \/ LiftLeave
BY MovShape, LeaShape, AluShape, MulShape, UnaryShape, DestinationShape, TransferShape,
   ReadShape, UnknownEmits
   DEF LiftInsn, LiftBinaryAlu, IfOperands

-----------------------------------------------------------------------------
(* One more IR instruction.                                                *)

\* The sequence irs2 is irs with the opcode o at its end.
Longer(irs, irs2, o) ==
  \E n \in Nat :
    /\ n = Len(irs) /\ DOMAIN irs = 1 .. n
    /\ n + 1 = Len(irs2) /\ DOMAIN irs2 = 1 .. n + 1
    /\ \A k \in 1 .. n : irs2[k] = irs[k]
    /\ irs2[n + 1].opcode = o

\* Appending an instruction makes a sequence longer by its opcode.
LEMMA AppendOne ==
  ASSUME NEW irs, \E n \in Nat : n = Len(irs) /\ DOMAIN irs = 1 .. n, NEW o
  PROVE  Longer(irs, irs \o << At(o) >>, o)
<1>1. PICK n \in Nat : n = Len(irs) /\ DOMAIN irs = 1 .. n
  OBVIOUS
<1>2. At(o).opcode = o
  BY DEF At
<1> HIDE DEF At
<1> DEFINE irs2 == irs \o << At(o) >>
<1>3. /\ Len(irs2) = n + 1 /\ DOMAIN irs2 = 1 .. n + 1
      /\ \A k \in 1 .. n : irs2[k] = irs[k]
      /\ irs2[n + 1] = At(o)
  BY <1>1
<1>. QED BY <1>1, <1>2, <1>3 DEF Longer

\* A current variable has the last version there is.
LEMMA CurrentIsLatest ==
  ASSUME NEW irs, NEW vs, Versioned(irs, vs), NEW x \in Currents(vs)
  PROVE  /\ x \in VarId
         /\ x.version > 0 => \E j \in DOMAIN irs : Dst(irs, j) = x
         /\ \A j \in DOMAIN irs : Dst(irs, j).base = x.base => Dst(irs, j).version <= x.version
<1>1. PICK b \in VarBase : x = [base |-> b, version |-> vs[b]]
  BY DEF Currents, current_var
<1>2. vs[b] \in Nat
  BY DEF Versioned
<1>3. x \in VarId
  BY <1>1, <1>2 DEF VarId
<1>4. x.version > 0 => \E j \in DOMAIN irs : Dst(irs, j) = x
  BY <1>1, <1>2 DEF Versioned, Dense
<1>5. ASSUME NEW j \in DOMAIN irs, Dst(irs, j).base = x.base
      PROVE  Dst(irs, j).version <= x.version
  <2>1. Dst(irs, j) # NoVar
    BY <1>1, <1>5, NamedBases DEF NoVar
  <2>. QED BY <1>1, <1>5, <2>1 DEF Versioned, Bounded
<1>. QED BY <1>3, <1>4, <1>5

\* An instruction that defines nothing keeps the versions in order.
LEMMA QuietVersioned ==
  ASSUME NEW irs, NEW irs2, NEW vs, NEW o, Versioned(irs, vs), Longer(irs, irs2, o),
         o.dst = NoVar, ReadsIn(o, vs)
  PROVE  Versioned(irs2, vs)
<1>1. PICK n \in Nat :
        /\ n = Len(irs) /\ DOMAIN irs = 1 .. n
        /\ n + 1 = Len(irs2) /\ DOMAIN irs2 = 1 .. n + 1
        /\ \A k \in 1 .. n : irs2[k] = irs[k]
        /\ irs2[n + 1].opcode = o
  BY DEF Longer
<1>2. /\ \A k \in 1 .. n : Dst(irs2, k) = Dst(irs, k) /\ VarsRead(irs2, k) = VarsRead(irs, k)
      /\ Dst(irs2, n + 1) = NoVar
  BY <1>1 DEF Dst, VarsRead
<1>3. \A b \in VarBase : vs[b] \in Nat
  BY DEF Versioned
<1>4. Bounded(irs2, vs)
  BY <1>1, <1>2 DEF Versioned, Bounded
<1>5. Ascending(irs2)
  <2> SUFFICES ASSUME NEW j \in DOMAIN irs2, NEW k \in DOMAIN irs2, j < k,
                      Dst(irs2, j) # NoVar, Dst(irs2, j).base = Dst(irs2, k).base
               PROVE  Dst(irs2, j).version < Dst(irs2, k).version
    BY DEF Ascending
  <2>1. j \in 1 .. n
    BY <1>1
  <2>2. Dst(irs2, j) \in VarId
    BY <1>1, <1>2, <2>1 DEF Versioned, Bounded
  <2>3. k # n + 1
    BY <1>2, <2>2, NamedBases DEF NoVar, VarId
  <2>. QED BY <1>1, <1>2, <2>1, <2>3 DEF Versioned, Ascending
<1>6. Dense(irs2, vs)
  BY <1>1, <1>2 DEF Versioned, Dense
<1>7. Latest(irs2)
  <2> SUFFICES ASSUME NEW k \in DOMAIN irs2, NEW x \in VarsRead(irs2, k)
               PROVE  /\ x \in VarId
                      /\ IF ReadsItself(irs2[k].opcode, x) THEN x = Dst(irs2, k)
                                                          ELSE LatestBefore(irs2, k, x)
    BY DEF Latest
  <2>1. CASE k \in 1 .. n
    BY <1>1, <1>2, <2>1 DEF Versioned, Latest, LatestBefore
  <2>2. CASE k = n + 1
    <3>1. x \in Currents(vs)
      BY <1>1, <2>2 DEF VarsRead, ReadsIn
    <3>2. x \in VarId /\ LatestBefore(irs2, k, x)
      BY <1>1, <1>2, <2>2, <3>1, CurrentIsLatest DEF LatestBefore
    <3>3. ~ ReadsItself(irs2[k].opcode, x)
      BY <1>1, <2>2, <3>2, NamedBases DEF ReadsItself, VarId, NoVar
    <3>. QED BY <3>2, <3>3
  <2>. QED BY <1>1, <2>1, <2>2
<1>. QED BY <1>1, <1>4, <1>5, <1>6, <1>7 DEF Versioned

\* An instruction that defines the next version of a register keeps them in order.
LEMMA DefineVersioned ==
  ASSUME NEW irs, NEW irs2, NEW vs, NEW vs2, NEW o, NEW b \in VarBase,
         Versioned(irs, vs), Longer(irs, irs2, o),
         vs2 = [ vs EXCEPT ![b] = @ + 1 ],
         o.dst = [base |-> b, version |-> vs[b] + 1],
         ReadsWhen(o, vs, vs2)
  PROVE  Versioned(irs2, vs2)
<1>1. PICK n \in Nat :
        /\ n = Len(irs) /\ DOMAIN irs = 1 .. n
        /\ n + 1 = Len(irs2) /\ DOMAIN irs2 = 1 .. n + 1
        /\ \A k \in 1 .. n : irs2[k] = irs[k]
        /\ irs2[n + 1].opcode = o
  BY DEF Longer
<1>2. /\ \A k \in 1 .. n : Dst(irs2, k) = Dst(irs, k) /\ VarsRead(irs2, k) = VarsRead(irs, k)
      /\ Dst(irs2, n + 1) = [base |-> b, version |-> vs[b] + 1]
  BY <1>1 DEF Dst, VarsRead
<1>3. /\ vs \in [ VarBase -> Nat ] /\ vs2 \in [ VarBase -> Nat ]
      /\ vs2[b] = vs[b] + 1 /\ vs[b] \in Nat
      /\ \A c \in VarBase : c # b => vs2[c] = vs[c]
  BY DEF Versioned
<1>4. ASSUME NEW j \in 1 .. n, Dst(irs, j) # NoVar
      PROVE  /\ Dst(irs, j) \in VarId
             /\ Dst(irs, j).base \in VarBase /\ Dst(irs, j).version \in Nat
             /\ Dst(irs, j).version <= vs[Dst(irs, j).base]
  BY <1>1, <1>4 DEF Versioned, Bounded, VarId
<1>5. Bounded(irs2, vs2)
  <2> SUFFICES ASSUME NEW k \in DOMAIN irs2, Dst(irs2, k) # NoVar
               PROVE  Dst(irs2, k) \in VarId /\ Dst(irs2, k).version <= vs2[Dst(irs2, k).base]
    BY DEF Bounded
  <2>1. CASE k \in 1 .. n
    <3>1. /\ Dst(irs2, k) = Dst(irs, k) /\ Dst(irs, k) # NoVar
      BY <1>2, <2>1
    <3>2. vs[Dst(irs, k).base] <= vs2[Dst(irs, k).base] /\ vs[Dst(irs, k).base] \in Nat
          /\ vs2[Dst(irs, k).base] \in Nat
      BY <1>3, <1>4, <2>1, <3>1
    <3>. QED BY <1>4, <2>1, <3>1, <3>2
  <2>2. CASE k = n + 1
    BY <1>2, <1>3, <2>2 DEF VarId
  <2>. QED BY <1>1, <2>1, <2>2
<1>6. Ascending(irs2)
  <2> SUFFICES ASSUME NEW j \in DOMAIN irs2, NEW k \in DOMAIN irs2, j < k,
                      Dst(irs2, j) # NoVar, Dst(irs2, j).base = Dst(irs2, k).base
               PROVE  Dst(irs2, j).version < Dst(irs2, k).version
    BY DEF Ascending
  <2>1. j \in 1 .. n /\ Dst(irs2, j) = Dst(irs, j)
    BY <1>1, <1>2
  <2>2. CASE k \in 1 .. n
    BY <1>1, <1>2, <2>1, <2>2 DEF Versioned, Ascending
  <2>3. CASE k = n + 1
    BY <1>2, <1>3, <1>4, <2>1, <2>3
  <2>. QED BY <1>1, <2>2, <2>3
<1>7. Dense(irs2, vs2)
  <2> SUFFICES ASSUME NEW c \in VarBase, NEW v \in 1 .. vs2[c]
               PROVE  \E k \in DOMAIN irs2 : Dst(irs2, k) = [base |-> c, version |-> v]
    BY DEF Dense
  <2>1. CASE v \in 1 .. vs[c]
    BY <1>1, <1>2, <2>1 DEF Versioned, Dense
  <2>2. CASE v \notin 1 .. vs[c]
    <3>1. vs[c] \in Nat /\ vs2[c] \in Nat
      BY <1>3
    <3>2. c = b /\ v = vs[b] + 1
      BY <1>3, <2>2, <3>1
    <3>. QED BY <1>1, <1>2, <3>2
  <2>. QED BY <2>1, <2>2
<1>8. Latest(irs2)
  <2> SUFFICES ASSUME NEW k \in DOMAIN irs2, NEW x \in VarsRead(irs2, k)
               PROVE  /\ x \in VarId
                      /\ IF ReadsItself(irs2[k].opcode, x) THEN x = Dst(irs2, k)
                                                          ELSE LatestBefore(irs2, k, x)
    BY DEF Latest
  <2>1. CASE k \in 1 .. n
    <3>1. /\ irs2[k] = irs[k] /\ k \in DOMAIN irs /\ x \in VarsRead(irs, k)
          /\ \A j \in 1 .. k : Dst(irs2, j) = Dst(irs, j)
      BY <1>1, <1>2, <2>1
    <3>2. /\ x \in VarId
          /\ IF ReadsItself(irs[k].opcode, x) THEN x = Dst(irs, k) ELSE LatestBefore(irs, k, x)
      BY <3>1 DEF Versioned, Latest
    <3>. QED BY <2>1, <3>1, <3>2 DEF LatestBefore
  <2>2. CASE k = n + 1
    <3>0. \A vs3 : ReadsIn(o, vs3) => x \in Currents(vs3)
      BY <1>1, <2>2 DEF VarsRead, ReadsIn
    <3>1. CASE ReadsItself(o, x)
      <4>1. x \in Currents(vs2) /\ x.base = b
        BY <3>0, <3>1 DEF ReadsWhen, ReadsItself
      <4>2. x = [base |-> b, version |-> vs[b] + 1]
        BY <1>3, <4>1 DEF Currents, current_var
      <4>. QED BY <1>1, <1>2, <1>3, <2>2, <3>1, <4>2 DEF VarId
    <3>2. CASE ~ ReadsItself(o, x)
      <4>1. x \in Currents(vs)
        <5>1. CASE o.op \in VersionFirst
          <6>1. PICK c \in VarBase : x = current_var(vs2, c)
            BY <3>0, <5>1 DEF ReadsWhen, Currents
          <6>2. c # b
            BY <3>2, <5>1, <6>1 DEF ReadsItself, current_var
          <6>. QED BY <1>3, <6>1, <6>2 DEF Currents, current_var
        <5>2. CASE o.op \notin VersionFirst
          BY <3>0, <5>2 DEF ReadsWhen
        <5>. QED BY <5>1, <5>2
      <4>2. /\ x \in VarId
            /\ x.version > 0 => \E j \in 1 .. n : Dst(irs, j) = x
            /\ \A j \in 1 .. n : Dst(irs, j).base = x.base => Dst(irs, j).version <= x.version
        BY <1>1, <4>1, CurrentIsLatest
      <4>3. LatestBefore(irs2, k, x)
        BY <1>2, <2>2, <4>2 DEF LatestBefore
      <4>. QED BY <1>1, <2>2, <3>2, <4>2, <4>3
    <3>. QED BY <3>1, <3>2
  <2>. QED BY <1>1, <2>1, <2>2
<1>. QED BY <1>1, <1>3, <1>5, <1>6, <1>7, <1>8 DEF Versioned

-----------------------------------------------------------------------------
(* The steps preserve the invariant.                                       *)

\* The arms of the match.
LEMMA LiftInsnIInv == IInv /\ LiftInsn => IInv'
<1> SUFFICES ASSUME IInv, LiftInsn PROVE IInv'
  OBVIOUS
<1> DEFINE irs == ir_instructions
<1>0. Versioned(irs, versions) /\ \E n \in Nat : n = Len(irs) /\ DOMAIN irs = 1 .. n
  BY DEF IInv, Versioned
<1>1. /\ pc = "lift" /\ UNCHANGED << cfg, pc, blk >> /\ idx' = idx + 1
  BY DEF LiftInsn, LiftNop, LiftMov, LiftLea, LiftBinaryAlu, LiftMul, LiftUnary, LiftCompare,
         LiftPush, LiftPop, LiftCall, LiftRet, LiftJmp, LiftAtomic, LiftCmov, LiftSetcc,
         LiftJcc, LiftIncDec, LiftLeave, LiftTrap, LiftSyscall, LiftUnknown,
         lift_mov, lift_binary_alu, IfOperands, LateArm, Arm, Emit, Define, Push
<1>2. CtlInv'
  BY <1>1 DEF IInv, CtlInv
<1>3. CASE EmitsOnly
  <2>1. PICK o : Emit(o) /\ o.dst = NoVar /\ ReadsIn(o, versions)
    BY <1>3 DEF EmitsOnly
  <2>2. irs' = irs \o << At(o) >> /\ versions' = versions
    BY <2>1 DEF Emit, Push
  <2>3. Longer(irs, irs', o)
    BY <1>0, <2>2, AppendOne
  <2>. QED BY <1>0, <1>2, <2>1, <2>2, <2>3, QuietVersioned DEF IInv
<1>4. CASE DefinesOne
  <2>0. PICK b \in VarBase :
          \E o : /\ Define(b, o)
                 /\ o.dst = new_version(b)
                 /\ ReadsWhen(o, versions, Bump(b))
    BY <1>4 DEF DefinesOne
  <2>1. PICK o :
          /\ Define(b, o)
          /\ o.dst = new_version(b)
          /\ ReadsWhen(o, versions, Bump(b))
    BY <2>0
  <2>2. irs' = irs \o << At(o) >> /\ versions' = Bump(b)
    BY <2>1 DEF Define, Push
  <2>3. Longer(irs, irs', o)
    BY <1>0, <2>2, AppendOne
  <2>. QED BY <1>0, <1>2, <2>1, <2>2, <2>3, DefineVersioned DEF IInv, new_version, Bump
<1>5. CASE LiftLeave
  <2> DEFINE o1   == Opcode("Mov", new_version("RSP"), << Current("RBP") >>)
             o2   == Opcode("Pop", new_version("RBP"), << >>)
             mid  == irs \o << At(o1) >>
             vs1  == Bump("RSP")
  <2>1. /\ irs' = irs \o << At(o1), At(o2) >>
        /\ versions' = [ versions EXCEPT !["RSP"] = @ + 1, !["RBP"] = @ + 1 ]
    BY <1>5 DEF LiftLeave, Push
  <2>2. /\ o1.dst = [base |-> "RSP", version |-> versions["RSP"] + 1]
        /\ ReadsWhen(o1, versions, vs1)
    <3>1. OperandVars(Current("RBP")) = { current_var(versions, "RBP") }
      BY DEF OperandVars, Current
    <3>2. current_var(versions, "RBP") \in Currents(vs1)
      BY <1>0, NamedBases DEF Versioned, Bump, Currents, current_var
    <3>. QED BY <3>1, <3>2 DEF Opcode, new_version, ReadsIn, ReadsWhen, VersionFirst
  <2>3. Longer(irs, mid, o1)
    BY <1>0, AppendOne
  <2>4. Versioned(mid, vs1)
    BY <1>0, <2>2, <2>3, NamedBases, DefineVersioned DEF Bump
  <2>5. /\ o2.dst = [base |-> "RBP", version |-> versions["RBP"] + 1]
        /\ ReadsWhen(o2, vs1, versions')
    BY DEF Opcode, new_version, ReadsIn, ReadsWhen
  <2>6. versions \in [ VarBase -> Nat ] /\ "RSP" # "RBP"
    BY <1>0 DEF Versioned
  <2>7. vs1["RBP"] = versions["RBP"] /\ versions' = [ vs1 EXCEPT !["RBP"] = @ + 1 ]
    BY <2>1, <2>6, NamedBases DEF Bump
  <2>8. Longer(mid, irs', o2)
    <3>1. PICK n \in Nat : n = Len(irs) /\ DOMAIN irs = 1 .. n
      BY <1>0
    <3>2. At(o2).opcode = o2
      BY DEF At
    <3> HIDE DEF At, o1, o2
    <3>3. /\ Len(mid) = n + 1 /\ DOMAIN mid = 1 .. n + 1
          /\ \A k \in 1 .. n : mid[k] = irs[k]
          /\ mid[n + 1] = At(o1)
      BY <3>1
    <3>4. /\ Len(irs') = n + 2 /\ DOMAIN irs' = 1 .. n + 2
          /\ \A k \in 1 .. n : irs'[k] = irs[k]
          /\ irs'[n + 1] = At(o1) /\ irs'[n + 2] = At(o2)
      BY <2>1, <3>1
    <3> HIDE DEF mid
    <3>5. \A k \in 1 .. n + 1 : irs'[k] = mid[k]
      BY <3>1, <3>3, <3>4
    <3>. QED BY <3>1, <3>2, <3>3, <3>4, <3>5 DEF Longer
  <2> HIDE DEF o1, o2, mid, vs1
  <2>. QED BY <1>2, <2>4, <2>5, <2>7, <2>8, NamedBases, DefineVersioned DEF IInv
<1>. QED BY <1>3, <1>4, <1>5, ArmShape

\* A block begins with no versions and no IR.
LEMMA EmptyVersioned == Versioned(<< >>, [ b \in VarBase |-> 0 ])
<1>1. Len(<< >>) = 0 /\ DOMAIN << >> = 1 .. 0
  OBVIOUS
<1>2. \A b \in VarBase : 1 .. [ c \in VarBase |-> 0 ][b] = {}
  OBVIOUS
<1>. QED BY <1>1, <1>2 DEF Versioned, Bounded, Ascending, Dense, Latest

\* The initial state.
LEMMA InitIInv == Init => IInv
<1> SUFFICES ASSUME Init PROVE IInv
  OBVIOUS
<1>1. CtlInv
  BY CfgsAssumption DEF Init, CtlInv
<1>. QED BY <1>1, EmptyVersioned DEF Init, IInv

\* The loop over the blocks.
LEMMA LoopIInv == IInv /\ (BeginBlock \/ EndBlock \/ Finish \/ Terminated \/ UNCHANGED vars) => IInv'
<1> SUFFICES ASSUME IInv, BeginBlock \/ EndBlock \/ Finish \/ Terminated \/ UNCHANGED vars
             PROVE  IInv'
  OBVIOUS
<1>0. Len(cfg) \in Nat
  BY CfgsAssumption DEF IInv, CtlInv
<1>1. CASE BeginBlock
  BY <1>0, <1>1, EmptyVersioned DEF BeginBlock, IInv, CtlInv
<1>2. CASE EndBlock
  BY <1>0, <1>2 DEF EndBlock, IInv, CtlInv
<1>3. CASE Finish
  BY <1>0, <1>3 DEF Finish, IInv, CtlInv
<1>4. CASE Terminated \/ UNCHANGED vars
  BY <1>4 DEF Terminated, vars, IInv, CtlInv
<1>. QED BY <1>1, <1>2, <1>3, <1>4

-----------------------------------------------------------------------------
(* The theorems.                                                           *)

\* The inductive invariant of the lifter.
THEOREM VersionsInvariant == Spec => []IInv
<1>1. IInv /\ [Next]_vars => IInv'
  BY LiftInsnIInv, LoopIInv DEF Next
<1>. QED BY InitIInv, <1>1, PTL DEF Spec

\* The variables of the lifter have their types.
THEOREM TypeCorrect == Spec => []TypeOK
<1>1. IInv => TypeOK
  BY DEF IInv, CtlInv, Versioned, Bounded, TypeOK
<1>. QED BY <1>1, VersionsInvariant, PTL

\* In every block of every graph new_version hands out each version once and
\* in order, and the IR instruction that was to get it does get it.
THEOREM AssignedOnce == Spec => []SingleAssignment
<1>1. IInv => SingleAssignment
  BY DEF IInv, Versioned, Ascending, Dense, SingleAssignment
<1>. QED BY <1>1, VersionsInvariant, PTL

\* Whatever the operands of an instruction, it reads the version that was
\* current before it, no lost and no later one; but a move, load or lea, when it
\* reads the register that it writes, reads the version that it assigns.
THEOREM ReadsAreLatest == Spec => []ReadsLatest
<1>1. IInv => ReadsLatest
  BY DEF IInv, Versioned, Latest, LatestBefore, ReadsLatest
<1>. QED BY <1>1, VersionsInvariant, PTL

-----------------------------------------------------------------------------
(* The IR covers the code: every instruction of a block that is lifted has
   its IR, in the order of the addresses, and nothing else is there.

   The number of IR instructions is the number of instructions passed and
   one more for each leave among them, so the invariant counts leaves with
   Cardinality.  It keeps the origin of every IR instruction too: without
   it the address order of the new ones could not be told.                 *)

Leaves(src, n) == { k \in 1 .. n : src[k].mnemonic = "leave" }

\* The IR of the first n instructions of a block.
Covered(irs, src, n) ==
  /\ Len(irs) \in Nat /\ DOMAIN irs = 1 .. Len(irs)
  /\ \A k \in 1 .. n : \E j \in DOMAIN irs : irs[j].addr = src[k].addr
  /\ \A j \in DOMAIN irs : \E k \in 1 .. n : irs[j].addr = src[k].addr
  /\ \A i, j \in DOMAIN irs : i < j => irs[i].addr <= irs[j].addr
  /\ Len(irs) = n + Cardinality(Leaves(src, n))

CoverInv ==
  /\ Len(ir_blocks) = blk - 1 /\ DOMAIN ir_blocks = 1 .. blk - 1
  /\ pc = "lift" =>
       /\ idx \in 1 .. Len(cfg[blk].instructions) + 1
       /\ Covered(ir_instructions, cfg[blk].instructions, idx - 1)
  /\ \A b \in DOMAIN ir_blocks :
       /\ ir_blocks[b].start_addr = cfg[b].start_addr
       /\ Covered(ir_blocks[b].instructions, cfg[b].instructions, Len(cfg[b].instructions))
-----------------------------------------------------------------------------
(* Counting.                                                               *)

LEMMA CountLeaves ==
  ASSUME NEW src, NEW n \in Nat
  PROVE  /\ Cardinality(Leaves(src, n)) \in Nat
         /\ Cardinality(Leaves(src, n + 1))
              = Cardinality(Leaves(src, n)) + (IF src[n + 1].mnemonic = "leave" THEN 1 ELSE 0)
<1>1. IsFiniteSet(Leaves(src, n))
  <2>1. IsFiniteSet(1 .. n)
    BY FS_Interval
  <2>2. Leaves(src, n) \subseteq 1 .. n
    BY DEF Leaves
  <2>. QED BY <2>1, <2>2, FS_Subset
<1>2. Cardinality(Leaves(src, n)) \in Nat
  BY <1>1, FS_CardinalityType
<1>3. CASE src[n + 1].mnemonic = "leave"
  <2>1. Leaves(src, n + 1) = Leaves(src, n) \cup { n + 1 } /\ n + 1 \notin Leaves(src, n)
    BY <1>3 DEF Leaves
  <2>2. Cardinality(Leaves(src, n) \cup { n + 1 }) = Cardinality(Leaves(src, n)) + 1
    BY <1>1, <2>1, FS_AddElement
  <2>. QED BY <1>2, <1>3, <2>1, <2>2
<1>4. CASE src[n + 1].mnemonic # "leave"
  <2>1. Leaves(src, n + 1) = Leaves(src, n)
    BY <1>4 DEF Leaves
  <2>. QED BY <1>2, <1>4, <2>1
<1>. QED BY <1>2, <1>3, <1>4

\* The sequence irs2 is irs and m IR instructions more, all at one address.
Grown(irs, irs2, addr, m) ==
  \E l \in Nat :
    /\ l = Len(irs) /\ DOMAIN irs = 1 .. l
    /\ l + m = Len(irs2) /\ DOMAIN irs2 = 1 .. l + m
    /\ \A k \in 1 .. l : irs2[k] = irs[k]
    /\ \A k \in l + 1 .. l + m : irs2[k].addr = addr

\* One instruction more of the block, one IR instruction more or, for leave, two.
LEMMA CoveredNext ==
  ASSUME NEW src, NEW n \in Nat, NEW irs, NEW irs2, NEW m \in { 1, 2 },
         Covered(irs, src, n), Grown(irs, irs2, src[n + 1].addr, m),
         m = IF src[n + 1].mnemonic = "leave" THEN 2 ELSE 1,
         \A j \in 1 .. n + 1 : src[j].addr \in Nat,
         \A j, k \in 1 .. n + 1 : j < k => src[j].addr <= src[k].addr
  PROVE  Covered(irs2, src, n + 1)
<1> DEFINE last == src[n + 1].addr
<1>1. PICK l \in Nat :
        /\ l = Len(irs) /\ DOMAIN irs = 1 .. l
        /\ l + m = Len(irs2) /\ DOMAIN irs2 = 1 .. l + m
        /\ \A k \in 1 .. l : irs2[k] = irs[k]
        /\ \A k \in l + 1 .. l + m : irs2[k].addr = last
  BY DEF Grown
<1>2. /\ \A k \in 1 .. n : \E j \in 1 .. l : irs[j].addr = src[k].addr
      /\ \A j \in 1 .. l : \E k \in 1 .. n : irs[j].addr = src[k].addr
      /\ \A i, j \in 1 .. l : i < j => irs[i].addr <= irs[j].addr
      /\ l = n + Cardinality(Leaves(src, n))
  BY <1>1 DEF Covered
<1>3. last \in Nat /\ \A k \in 1 .. n : src[k].addr <= last /\ src[k].addr \in Nat
  OBVIOUS
<1>i. \A k : k \in 1 .. n + 1 => k \in 1 .. n \/ k = n + 1
  OBVIOUS
<1>j. /\ \A j : j \in 1 .. l => j \in 1 .. l + m
      /\ l + 1 \in 1 .. l + m /\ l + 1 \in l + 1 .. l + m
      /\ \A j : j \in 1 .. l + m => j \in 1 .. l \/ j \in l + 1 .. l + m
      /\ \A k : k \in 1 .. n => k \in 1 .. n + 1
      /\ n + 1 \in 1 .. n + 1
  OBVIOUS
<1>4. ASSUME NEW k \in 1 .. n + 1
      PROVE  \E j \in DOMAIN irs2 : irs2[j].addr = src[k].addr
  <2>1. CASE k \in 1 .. n
    BY <1>1, <1>2, <1>j, <2>1
  <2>2. CASE k = n + 1
    BY <1>1, <1>j, <2>2
  <2>. QED BY <1>i, <2>1, <2>2
<1>5. ASSUME NEW j \in DOMAIN irs2
      PROVE  \E k \in 1 .. n + 1 : irs2[j].addr = src[k].addr
  <2>1. CASE j \in 1 .. l
    <3>1. irs2[j] = irs[j]
      BY <1>1, <2>1
    <3>2. PICK k \in 1 .. n : irs[j].addr = src[k].addr
      BY <1>2, <2>1
    <3>. QED BY <1>j, <3>1, <3>2
  <2>2. CASE j \in l + 1 .. l + m
    BY <1>1, <1>j, <2>2
  <2>. QED BY <1>1, <1>j, <2>1, <2>2
<1>6. ASSUME NEW i \in DOMAIN irs2, NEW j \in DOMAIN irs2, i < j
      PROVE  irs2[i].addr <= irs2[j].addr
  <2>1. i \in Nat /\ j \in Nat
    BY <1>1
  <2>2. CASE j \in 1 .. l
    <3>1. i \in 1 .. l
      BY <1>1, <1>6, <2>1, <2>2
    <3>. QED BY <1>1, <1>2, <1>6, <2>2, <3>1
  <2>3. CASE j \in l + 1 .. l + m
    <3>1. irs2[j].addr = last
      BY <1>1, <2>3
    <3>2. CASE i \in 1 .. l
      <4>1. PICK k \in 1 .. n : irs[i].addr = src[k].addr
        BY <1>2, <3>2
      <4>2. irs2[i] = irs[i]
        BY <1>1, <3>2
      <4>. QED BY <1>3, <3>1, <4>1, <4>2
    <3>3. CASE i \in l + 1 .. l + m
      BY <1>1, <1>3, <3>1, <3>3
    <3>. QED BY <1>1, <1>j, <3>2, <3>3
  <2>. QED BY <1>1, <1>j, <2>2, <2>3
<1>7. Len(irs2) = n + 1 + Cardinality(Leaves(src, n + 1))
  <2>1. /\ Cardinality(Leaves(src, n)) \in Nat
        /\ Cardinality(Leaves(src, n + 1))
             = Cardinality(Leaves(src, n)) + (IF src[n + 1].mnemonic = "leave" THEN 1 ELSE 0)
    BY CountLeaves
  <2>. QED BY <1>1, <1>2, <2>1
<1>8. Len(irs2) \in Nat /\ DOMAIN irs2 = 1 .. Len(irs2)
  BY <1>1
<1>. QED BY <1>4, <1>5, <1>6, <1>7, <1>8 DEF Covered

LEMMA CoveredNone ==
  ASSUME NEW src
  PROVE  Covered(<< >>, src, 0)
<1>1. Len(<< >>) = 0 /\ DOMAIN << >> = 1 .. 0 /\ 1 .. 0 = {}
  OBVIOUS
<1>2. Cardinality(Leaves(src, 0)) = 0
  BY FS_EmptySet, <1>1 DEF Leaves
<1>. QED BY <1>1, <1>2 DEF Covered

-----------------------------------------------------------------------------
(* What a step adds.                                                       *)

\* No prefixed mnemonic is leave, with the prefix or without.
LEMMA LeaveIsNoArm ==
  /\ "leave" \notin PLAIN_ARMS \cup CMOVCC \cup SETCC \cup JCC \cup TRAPS \cup { "inc", "dec", "syscall" }
  /\ "leave" \in LATE_ARMS
BY DEF PLAIN_ARMS, NOP_LIKE, MOV_FAMILY, BINARY_ALU, LIFTED_AS_RET, CMOVCC, SETCC, JCC, COND_JUMPS,
       TRAPS, LATE_ARMS

LEMMA UnlockedIsNoLeave ==
  "leave" \notin DOMAIN Unlocked /\ \A m \in DOMAIN Unlocked : Unlocked[m] # "leave"
BY DEF Unlocked

LEMMA MnemonicOfLeave == mnemonic = "leave" <=> insn.mnemonic = "leave"
BY UnlockedIsNoLeave DEF mnemonic, is_lock

\* Only the arm for leave takes leave.
LEMMA OtherArms == LiftInsn => LiftLeave \/ insn.mnemonic # "leave"
<1>1. LiftAtomic => mnemonic # "leave"
  <2>1. LiftAtomic => is_lock
    BY DEF LiftAtomic, LockArm
  <2>2. is_lock => mnemonic # "leave"
    BY UnlockedIsNoLeave DEF is_lock, mnemonic
  <2>. QED BY <2>1, <2>2
<1>2. LiftInsn => LiftLeave \/ LiftAtomic \/ mnemonic # "leave"
  BY LeaveIsNoArm
     DEF LiftInsn, LiftNop, LiftMov, LiftLea, LiftBinaryAlu, LiftMul, LiftUnary, LiftCompare,
         LiftPush, LiftPop, LiftCall, LiftRet, LiftJmp, LiftCmov, LiftSetcc, LiftJcc, LiftIncDec,
         LiftTrap, LiftSyscall, LiftUnknown, LateArm, Arm, PLAIN_ARMS
<1>. QED BY <1>1, <1>2, MnemonicOfLeave

\* A step of the match passes one instruction.
LEMMA PassesOne ==
  LiftInsn => /\ pc = "lift" /\ idx <= Len(cfg[blk].instructions)
              /\ idx' = idx + 1 /\ UNCHANGED << cfg, pc, blk, ir_blocks >>
BY DEF LiftInsn, LiftNop, LiftMov, LiftLea, LiftBinaryAlu, LiftMul, LiftUnary, LiftCompare,
       LiftPush, LiftPop, LiftCall, LiftRet, LiftJmp, LiftAtomic, LiftCmov, LiftSetcc,
       LiftJcc, LiftIncDec, LiftLeave, LiftTrap, LiftSyscall, LiftUnknown,
       lift_mov, lift_binary_alu, IfOperands, LateArm, Arm, Emit, Define, Push

LEMMA GrowsByOne ==
  ASSUME NEW irs, Len(irs) \in Nat, DOMAIN irs = 1 .. Len(irs), NEW a, NEW irs2, irs2 = irs \o << a >>
  PROVE  Grown(irs, irs2, a.addr, 1)
<1>1. PICK l \in Nat : l = Len(irs) /\ DOMAIN irs = 1 .. l
  OBVIOUS
<1>2. Len(irs2) = l + 1 /\ DOMAIN irs2 = 1 .. l + 1
  BY <1>1
<1>3. \A k \in 1 .. l : irs2[k] = irs[k]
  BY <1>1
<1>4. irs2[l + 1] = a
  BY <1>1
<1>5. \A k \in l + 1 .. l + 1 : k = l + 1
  OBVIOUS
<1>6. \A k \in l + 1 .. l + 1 : irs2[k].addr = a.addr
  BY <1>4, <1>5
<1>. QED BY <1>1, <1>2, <1>3, <1>6 DEF Grown

LEMMA GrowsByTwo ==
  ASSUME NEW irs, Len(irs) \in Nat, DOMAIN irs = 1 .. Len(irs), NEW a, NEW b, a.addr = b.addr,
         NEW irs2, irs2 = irs \o << a, b >>
  PROVE  Grown(irs, irs2, a.addr, 2)
<1>1. PICK l \in Nat : l = Len(irs) /\ DOMAIN irs = 1 .. l
  OBVIOUS
<1>2. Len(irs2) = l + 2 /\ DOMAIN irs2 = 1 .. l + 2
  BY <1>1
<1>3. \A k \in 1 .. l : irs2[k] = irs[k]
  BY <1>1
<1>4. irs2[l + 1] = a /\ irs2[l + 2] = b
  BY <1>1
<1>5. \A k \in l + 1 .. l + 2 : k = l + 1 \/ k = l + 2
  OBVIOUS
<1>6. \A k \in l + 1 .. l + 2 : irs2[k].addr = a.addr
  BY <1>4, <1>5
<1>. QED BY <1>1, <1>2, <1>3, <1>6 DEF Grown

\* A step of the match adds the IR of the instruction.
LEMMA StepGrows ==
  ASSUME LiftInsn, Len(ir_instructions) \in Nat, DOMAIN ir_instructions = 1 .. Len(ir_instructions)
  PROVE  \E m \in { 1, 2 } :
           /\ m = IF insn.mnemonic = "leave" THEN 2 ELSE 1
           /\ Grown(ir_instructions, ir_instructions', insn.addr, m)
<1>a. \A o : At(o).addr = insn.addr
  BY DEF At
<1>1. CASE LiftLeave
  <2>1. insn.mnemonic = "leave"
    BY <1>1, MnemonicOfLeave DEF LiftLeave, LateArm, Arm
  <2>2. PICK o1, o2 : ir_instructions' = ir_instructions \o << At(o1), At(o2) >>
    BY <1>1 DEF LiftLeave, Push
  <2>. DEFINE a == At(o1)
             b == At(o2)
  <2>3. a.addr = insn.addr /\ b.addr = insn.addr /\ ir_instructions' = ir_instructions \o << a, b >>
    BY <1>a, <2>2
  <2>. HIDE DEF a, b
  <2>4. Grown(ir_instructions, ir_instructions', a.addr, 2)
    BY <2>3, GrowsByTwo
  <2>. QED BY <2>1, <2>3, <2>4
<1>2. CASE ~ LiftLeave
  <2>1. insn.mnemonic # "leave"
    BY <1>2, OtherArms
  <2>2. EmitsOnly \/ DefinesOne
    BY <1>2, ArmShape
  <2>3. \E o : ir_instructions' = ir_instructions \o << At(o) >>
    BY <2>2 DEF EmitsOnly, DefinesOne, Emit, Define, Push
  <2>4. PICK o : ir_instructions' = ir_instructions \o << At(o) >>
    BY <2>3
  <2>5. Grown(ir_instructions, ir_instructions', At(o).addr, 1)
    BY <2>4, GrowsByOne
  <2>. QED BY <1>a, <2>1, <2>5
<1>. QED BY <1>1, <1>2

-----------------------------------------------------------------------------
(* The steps preserve the invariant.                                       *)

\* A graph and the blocks in it.
LEMMA BlockOfCfg ==
  ASSUME cfg \in Cfgs
  PROVE  /\ Len(cfg) \in Nat /\ DOMAIN cfg = 1 .. Len(cfg)
         /\ \A b \in DOMAIN cfg :
              /\ Len(cfg[b].instructions) \in Nat
              /\ DOMAIN cfg[b].instructions = 1 .. Len(cfg[b].instructions)
              /\ \A k \in DOMAIN cfg[b].instructions : cfg[b].instructions[k].addr \in Nat
              /\ \A j, k \in DOMAIN cfg[b].instructions :
                   j < k => cfg[b].instructions[j].addr <= cfg[b].instructions[k].addr
<1>1. cfg \in Seq(BasicBlock)
  BY CfgsAssumption
<1>2. Len(cfg) \in Nat /\ DOMAIN cfg = 1 .. Len(cfg) /\ \A b \in DOMAIN cfg : cfg[b] \in BasicBlock
  BY <1>1
<1>3. ASSUME NEW b \in DOMAIN cfg
      PROVE  /\ Len(cfg[b].instructions) \in Nat
             /\ DOMAIN cfg[b].instructions = 1 .. Len(cfg[b].instructions)
             /\ \A k \in DOMAIN cfg[b].instructions : cfg[b].instructions[k].addr \in Nat
  <2>1. cfg[b].instructions \in Seq(DisassembledInsn)
    BY <1>2, <1>3 DEF BasicBlock
  <2>2. \A i \in DisassembledInsn : i.addr \in Nat
    BY DEF DisassembledInsn
  <2>. QED BY <2>1, <2>2
<1>. QED BY <1>2, <1>3, CfgsAscend DEF Ascends

LEMMA InitCoverInv == Init => CoverInv
BY DEF Init, CoverInv

LEMMA LiftInsnCoverInv == IInv /\ CoverInv /\ LiftInsn => CoverInv'
<1> SUFFICES ASSUME IInv, CoverInv, LiftInsn PROVE CoverInv'
  OBVIOUS
<1> DEFINE src == cfg[blk].instructions
           n   == idx - 1
<1>1. /\ pc = "lift" /\ idx <= Len(src)
      /\ pc' = pc /\ cfg' = cfg /\ blk' = blk /\ idx' = idx + 1 /\ ir_blocks' = ir_blocks
  BY PassesOne
<1>2. cfg \in Cfgs /\ blk \in DOMAIN cfg /\ blk \in Nat
  BY <1>1, BlockOfCfg DEF IInv, CtlInv
<1>3. /\ Len(src) \in Nat /\ DOMAIN src = 1 .. Len(src)
      /\ \A k \in DOMAIN src : src[k].addr \in Nat
      /\ \A j, k \in DOMAIN src : j < k => src[j].addr <= src[k].addr
  BY <1>2, BlockOfCfg
<1>4. idx \in 1 .. Len(src) + 1 /\ Covered(ir_instructions, src, n)
  BY <1>1 DEF CoverInv
<1>5. insn = src[idx]
  BY DEF insn
<1> HIDE DEF src
<1>6. n \in Nat /\ n + 1 = idx /\ 1 .. n + 1 \subseteq DOMAIN src
  BY <1>1, <1>3, <1>4
<1> HIDE DEF n
<1>7. PICK m \in { 1, 2 } :
        /\ m = IF src[n + 1].mnemonic = "leave" THEN 2 ELSE 1
        /\ Grown(ir_instructions, ir_instructions', src[n + 1].addr, m)
  <2>1. Len(ir_instructions) \in Nat /\ DOMAIN ir_instructions = 1 .. Len(ir_instructions)
    BY <1>4 DEF Covered
  <2>2. insn = src[n + 1]
    BY <1>5, <1>6
  <2>. QED BY <2>1, <2>2, StepGrows
<1>8. /\ \A j \in 1 .. n + 1 : src[j].addr \in Nat
      /\ \A j, k \in 1 .. n + 1 : j < k => src[j].addr <= src[k].addr
  BY <1>3, <1>6
<1>9. Covered(ir_instructions', src, n + 1)
  BY <1>4, <1>6, <1>7, <1>8, CoveredNext
<1>10. src' = src
  BY <1>1 DEF src
<1>11. idx' \in 1 .. Len(src) + 1 /\ idx' - 1 = n + 1
  BY <1>1, <1>3, <1>4, <1>6
<1>12. /\ idx' \in 1 .. Len(cfg'[blk'].instructions) + 1
       /\ Covered(ir_instructions', cfg'[blk'].instructions, idx' - 1)
  BY <1>1, <1>9, <1>10, <1>11 DEF src
<1>. QED BY <1>1, <1>12 DEF CoverInv

\* The block that is done joins the others.
LEMMA EndBlockCoverInv == IInv /\ CoverInv /\ EndBlock => CoverInv'
<1> SUFFICES ASSUME IInv, CoverInv, EndBlock PROVE CoverInv'
  OBVIOUS
<1> DEFINE block == [ start_addr |-> cfg[blk].start_addr, instructions |-> ir_instructions ]
<1>1. /\ pc = "lift" /\ idx > Len(cfg[blk].instructions) /\ pc' = "block"
      /\ cfg' = cfg /\ blk' = blk + 1 /\ ir_blocks' = Append(ir_blocks, block)
  BY DEF EndBlock
<1>2. cfg \in Cfgs /\ blk \in DOMAIN cfg /\ blk \in Nat /\ blk >= 1
  BY <1>1, BlockOfCfg DEF IInv, CtlInv
<1>3. Covered(ir_instructions, cfg[blk].instructions, Len(cfg[blk].instructions))
  <2>1. Len(cfg[blk].instructions) \in Nat
    BY <1>2, BlockOfCfg
  <2>2. /\ idx \in 1 .. Len(cfg[blk].instructions) + 1
        /\ Covered(ir_instructions, cfg[blk].instructions, idx - 1)
    BY <1>1 DEF CoverInv
  <2>3. idx - 1 = Len(cfg[blk].instructions)
    BY <1>1, <2>1, <2>2
  <2>. QED BY <2>2, <2>3
<1>4. block.start_addr = cfg[blk].start_addr /\ block.instructions = ir_instructions
  OBVIOUS
<1> HIDE DEF block
<1>5. Len(ir_blocks) = blk - 1 /\ DOMAIN ir_blocks = 1 .. blk - 1
  BY DEF CoverInv
<1>6. /\ Len(ir_blocks') = blk /\ DOMAIN ir_blocks' = 1 .. blk
      /\ \A b \in 1 .. blk - 1 : ir_blocks'[b] = ir_blocks[b]
      /\ ir_blocks'[blk] = block
  BY <1>1, <1>2, <1>5
<1>7. ASSUME NEW b \in 1 .. blk
      PROVE  /\ ir_blocks'[b].start_addr = cfg[b].start_addr
             /\ Covered(ir_blocks'[b].instructions, cfg[b].instructions, Len(cfg[b].instructions))
  <2>1. CASE b = blk
    BY <1>3, <1>4, <1>6, <2>1
  <2>2. CASE b \in 1 .. blk - 1
    BY <1>5, <1>6, <2>2 DEF CoverInv
  <2>. QED BY <1>2, <2>1, <2>2
<1>8. blk' - 1 = blk
  BY <1>1, <1>2
<1>. QED BY <1>1, <1>6, <1>7, <1>8 DEF CoverInv

LEMMA LoopCoverInv ==
  IInv /\ CoverInv /\ (BeginBlock \/ Finish \/ Terminated \/ UNCHANGED vars) => CoverInv'
<1> SUFFICES ASSUME IInv, CoverInv, BeginBlock \/ Finish \/ Terminated \/ UNCHANGED vars
             PROVE  CoverInv'
  OBVIOUS
<1>1. CASE BeginBlock
  <2>1. /\ pc' = "lift" /\ idx' = 1 /\ ir_instructions' = << >>
        /\ cfg' = cfg /\ blk' = blk /\ ir_blocks' = ir_blocks /\ blk <= Len(cfg)
    BY <1>1 DEF BeginBlock
  <2>2. Len(cfg[blk].instructions) \in Nat
    <3>1. cfg \in Cfgs /\ blk \in 1 .. Len(cfg) + 1
      BY DEF IInv, CtlInv
    <3>2. blk \in DOMAIN cfg
      BY <2>1, <3>1, BlockOfCfg
    <3>. QED BY <3>1, <3>2, BlockOfCfg
  <2>3. idx' \in 1 .. Len(cfg'[blk'].instructions) + 1 /\ idx' - 1 = 0
    BY <2>1, <2>2
  <2>4. Covered(ir_instructions', cfg'[blk'].instructions, idx' - 1)
    BY <2>1, <2>3, CoveredNone
  <2>. QED BY <2>1, <2>3, <2>4 DEF CoverInv
<1>2. CASE Finish
  BY <1>2 DEF Finish, CoverInv
<1>3. CASE Terminated \/ UNCHANGED vars
  BY <1>3 DEF Terminated, vars, CoverInv
<1>. QED BY <1>1, <1>2, <1>3

-----------------------------------------------------------------------------
(* The theorems.                                                           *)

\* The inductive invariant of the coverage, on top of the one of the versions.
THEOREM CoverInvariant == Spec => [](IInv /\ CoverInv)
<1>1. Init => IInv /\ CoverInv
  BY InitIInv, InitCoverInv
<1>2. IInv /\ CoverInv /\ [Next]_vars => (IInv /\ CoverInv)'
  BY LiftInsnIInv, LoopIInv, LiftInsnCoverInv, EndBlockCoverInv, LoopCoverInv DEF Next
<1>. QED BY <1>1, <1>2, PTL DEF Spec

\* lift_function loses no instruction of any block of any graph, makes up none,
\* and keeps their order, whichever arm of the match takes them.
THEOREM AllLifted == Spec => []EveryInsnLifted
<1>1. ASSUME IInv, CoverInv PROVE EveryInsnLifted
  <2> SUFFICES ASSUME NEW b \in DOMAIN ir_blocks
               PROVE  LET src == cfg[b].instructions
                          irs == ir_blocks[b].instructions
                      IN  /\ \A k \in DOMAIN src : \E j \in DOMAIN irs : irs[j].addr = src[k].addr
                          /\ Len(irs) = Len(src)
                               + Cardinality({ k \in DOMAIN src : src[k].mnemonic = "leave" })
                          /\ \A j \in 1 .. Len(irs) - 1 : irs[j].addr <= irs[j + 1].addr
    BY DEF EveryInsnLifted
  <2> DEFINE src == cfg[b].instructions
             irs == ir_blocks[b].instructions
             n   == Len(src)
  <2>1. b \in DOMAIN cfg /\ cfg \in Cfgs
    <3>1. cfg \in Cfgs /\ blk \in 1 .. Len(cfg) + 1
      BY <1>1 DEF IInv, CtlInv
    <3>2. Len(cfg) \in Nat /\ DOMAIN cfg = 1 .. Len(cfg) /\ DOMAIN ir_blocks = 1 .. blk - 1
      BY <1>1, <3>1, BlockOfCfg DEF CoverInv
    <3>. QED BY <3>1, <3>2
  <2>2. n \in Nat /\ DOMAIN src = 1 .. n
    BY <2>1, BlockOfCfg
  <2>3. Covered(irs, src, n)
    BY <1>1 DEF CoverInv
  <2> HIDE DEF src, irs, n
  <2>4. Leaves(src, n) = { k \in DOMAIN src : src[k].mnemonic = "leave" }
    BY <2>2 DEF Leaves
  <2>5. \A k \in DOMAIN src : \E j \in DOMAIN irs : irs[j].addr = src[k].addr
    BY <2>2, <2>3 DEF Covered
  <2>6. Len(irs) = n + Cardinality({ k \in DOMAIN src : src[k].mnemonic = "leave" })
    BY <2>3, <2>4 DEF Covered
  <2>7. ASSUME NEW j \in 1 .. Len(irs) - 1
        PROVE  irs[j].addr <= irs[j + 1].addr
    <3>1. /\ Len(irs) \in Nat /\ DOMAIN irs = 1 .. Len(irs)
          /\ \A i, k \in DOMAIN irs : i < k => irs[i].addr <= irs[k].addr
      BY <2>3 DEF Covered
    <3>2. j \in DOMAIN irs /\ j + 1 \in DOMAIN irs /\ j < j + 1
      BY <3>1
    <3>. QED BY <3>1, <3>2
  <2>. QED BY <2>5, <2>6, <2>7 DEF src, irs, n
<1>. QED BY <1>1, CoverInvariant, PTL
=============================================================================
