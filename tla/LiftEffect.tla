----------------------------- MODULE LiftEffect -----------------------------
(***************************************************************************)
(* Lift beside the meaning of the instructions: whenever lift_function     *)
(* takes an instruction, the statements that become of its IR do to cpu    *)
(* and memory what the instruction does to the machine.                    *)
(***************************************************************************)
EXTENDS Lift, Effect

CONSTANT Pairs      \* states of the machine and of the C to begin with

Fields(s, names) == names \subseteq DOMAIN s

IsMemory(mem) == DOMAIN mem \subseteq Words /\ \A a \in DOMAIN mem : mem[a] \in Words

SomeFlags ==
  [ from : { "cmp", "test", "other", "undefined" }, zf : BOOLEAN, sf : BOOLEAN, cf : BOOLEAN, of : BOOLEAN ]

IsMachine(s) ==
  /\ Fields(s, { "regs", "mem", "flags", "lost" })
  /\ s.regs \in [ GeneralRegisters -> Words ]
  /\ IsMemory(s.mem)
  /\ s.flags \in SomeFlags
  /\ s.lost \in BOOLEAN

IsC(t) ==
  /\ Fields(t, { "regs", "mem" })
  /\ DOMAIN t.regs = VarBase
  /\ IsMemory(t.mem)

ASSUME PairsAssumption == \A p \in Pairs : IsMachine(p.machine) /\ IsC(p.c)

\* cpu.rflags holds a comparison.
FlagsAgree(f, rflags) ==
  /\ f.from = "cmp" =>
       rflags = (IF f.zf THEN 1 ELSE 0) + (IF f.cf THEN 2 ELSE 0) + (IF f.sf # f.of THEN 4 ELSE 0)
  /\ f.from = "test" => ~ f.cf /\ rflags = IF f.zf THEN 1 ELSE 0

\* The C has the registers and the memory of the machine; but rsp only until a
\* call has come back, and only the flags of a comparison.
Agrees(s, t) ==
  /\ \A b \in GeneralRegisters : (b = "RSP" /\ s.lost) \/ t.regs[b] = s.regs[b]
  /\ t.mem = s.mem
  /\ FlagsAgree(s.flags, t.regs["RFlags"])

-----------------------------------------------------------------------------
(* An instruction and its IR.                                              *)

Executed(s, i) ==
  CASE i.mnemonic = "mov"   -> Moved(s, i)
    [] i.mnemonic = "lea"   -> Addressed(s, i)
    [] Multiplies(i)        -> Multiplied(s, i)
    [] i.mnemonic \in Arithmetic /\ ~ Multiplies(i) -> Computed(s, i)
    [] i.mnemonic \in { "inc", "dec", "neg", "not" } -> ComputedUnary(s, i)
    [] i.mnemonic \in { "cmp", "test" } -> Compared(s, i)
    [] i.mnemonic = "push"  -> PushedOperand(s, i)
    [] i.mnemonic = "pop"   -> Popped(s, i)
    [] i.mnemonic = "leave" -> LeftFrame(s)
    [] i.mnemonic = "call"  -> CalledFrom(s, i)
    [] i.mnemonic = "ret"   -> Raised(s)
    [] i.mnemonic = "xchg"  -> Exchanged(s, i)
    [] i.mnemonic \in Moves -> MovedIf(s, i)
    [] OTHER -> s

After(s, i) == [ Executed(s, i) EXCEPT !.lost = LostAfter(s, i) ]

\* What becomes of an IR instruction, without the going elsewhere.
Statement(t, o) ==
  CASE o.op \in Assignments      -> AfterAssign(t, o)
    [] o.op = "Store"            -> AfterStore(t, o)
    [] o.op \in { "Cmp", "Test" } -> AfterCompare(t, o)
    [] o.op = "Push"             -> AfterPush(t, o)
    [] o.op = "Pop"              -> AfterPop(t, o)
    [] o.op = "Call"             -> AfterCall(t, o.fallthrough)
    [] OTHER -> t

\* An instruction becomes one IR instruction, leave becomes two.
Statements(t, irs) ==
  IF Len(irs) = 1 THEN Statement(t, irs[1].opcode)
                  ELSE Statement(Statement(t, irs[1].opcode), irs[2].opcode)

\* The C can go where the machine can go.
SameTargets(i, o) ==
  /\ i.mnemonic \in Jumps =>
       o.op = "Jcc" /\ o.target = i.op_str[1].value /\ o.fallthrough = NextIp(i)
  /\ i.mnemonic = "jmp" => o = Jmp(i.op_str[1].value)
  /\ i.mnemonic = "call" => o = Direct(i.op_str[1].value, NextIp(i))
  /\ i.mnemonic \in { "ret", "ud2", "hlt" } => o.op = "Ret"

\* The C goes where the machine goes.
SameWay(s, t, i, o) ==
  /\ SameTargets(i, o)
  /\ i.mnemonic \in Jumps => (get_cond_expr(t, o.condition) <=> Holds(i.mnemonic, s.flags))

IsDefined(t, irs) == \A k \in DOMAIN irs : ~ IsUndefined(t, irs[k].opcode)

SameEffectOf(s, t, i, irs) ==
  /\ Agrees(After(s, i), Statements(t, irs))
  /\ IsMachine(After(s, i)) /\ IsC(Statements(t, irs))
  /\ IsDefined(t, irs)
  /\ SameWay(s, t, i, irs[1].opcode)

\* The machine can be followed.
IsFollowed(s, i) ==
  /\ FollowedInsn(s, i)
  /\ i.mnemonic \in Jumps \cup Moves => s.flags.from # "undefined"

\* ... and the translation is said to carry it over.
IsCarried(s, i) == IsFollowed(s, i) /\ Departures(s, i) = {}

\* The IR that a step adds.
NewIrs == SubSeq(ir_instructions', Len(ir_instructions) + 1, Len(ir_instructions'))

-----------------------------------------------------------------------------
(* An instruction that departs.                                            *)

\* The registers that an instruction writes, but for what push, pop, call and
\* ret do to rsp.
WrittenRegisters(i) ==
  CASE Multiplies(i)         -> { "RAX", "RDX" }
    [] i.mnemonic = "xchg"   -> { Register(i.op_str[k].name) : k \in {1, 2} }
    [] i.mnemonic \in { "mov", "lea", "inc", "dec", "neg", "not", "pop" } \cup Arithmetic \cup Moves
         /\ ~ Multiplies(i) -> { Register(op.name) : op \in { x \in { i.op_str[1] } : IsReg(x) } }
    [] OTHER                 -> {}

\* Those that a departure leaves wrong: rax in place of memory; rdx where it is
\* only the upper half that is lost; else what the instruction writes.
WrongRegisters(i, reasons) ==
  (IF "store" \in reasons THEN { "RAX" } ELSE {})
    \cup CASE reasons \subseteq {"store"} -> {}
           [] reasons = {"wide"}          -> { "RDX" }
           [] OTHER                       -> WrittenRegisters(i)

StoresInC(i) == i.mnemonic \in { "push", "call" } \/ (i.mnemonic = "mov" /\ IsMem(i.op_str[1]))

ConfinedTo(wrong, s, t, i, irs) ==
  LET s2 == After(s, i)
      t2 == Statements(t, irs)
  IN  /\ \A b \in GeneralRegisters \ wrong : (b = "RSP" /\ s2.lost) \/ t2.regs[b] = s2.regs[b]
      /\ ~ StoresInC(i) => t2.mem = t.mem
      /\ i.mnemonic \notin { "cmp", "test" } => FlagsAgree(s2.flags, t2.regs["RFlags"])
      /\ SameTargets(i, irs[1].opcode)

-----------------------------------------------------------------------------
(* Properties.                                                             *)

\* The header comment of backend.rs, "The output models x86 semantics", for one
\* instruction at a time: from every two states that agree, an instruction that
\* is carried over and the statements that become of its IR lead to states that
\* agree again, and to the same place.
EffectKept ==
  [][ LiftInsn =>
        \A p \in Pairs : IsCarried(p.machine, insn) /\ Agrees(p.machine, p.c)
                           => SameEffectOf(p.machine, p.c, insn, NewIrs) ]_vars

\* How far the listed departures go: from every two states that agree, the C of
\* an instruction that departs leaves no register wrong but those named, writes
\* memory only for a mov, push or call, keeps the flags (all but a comparison of
\* wrong operands), and can go only where the machine can.
DamageConfined ==
  [][ LiftInsn =>
        \A p \in Pairs :
          LET s == p.machine
              d == Departures(s, insn)
          IN  IsFollowed(s, insn) /\ d # {} /\ Agrees(s, p.c) /\ IsDefined(p.c, NewIrs)
                => ConfinedTo(WrongRegisters(insn, d), s, p.c, insn, NewIrs) ]_vars
=============================================================================
