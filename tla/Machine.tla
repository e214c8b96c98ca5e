------------------------------- MODULE Machine -------------------------------
(***************************************************************************)
(* What the emitted C does, beside what the machine code does.             *)
(*                                                                         *)
(* After a run of dEXE that delivered a unit, the decoded text is executed *)
(* by the meaning of x86-64 instructions, and then the C of the unit by    *)
(* the meaning of its statements, both from the same registers and the     *)
(* same memory, from the first function to its return.  At the end their   *)
(* registers and memories should agree.                                    *)
(*                                                                         *)
(* What an instruction and what a statement does is said in Effect; here   *)
(* is where control goes.  The C starts with cpu set to the registers of   *)
(* the machine.  There is no indirect call and no call that leaves the     *)
(* text: an execution that comes to one is not followed.                   *)
(***************************************************************************)
EXTENDS Pipeline, Effect

CONSTANTS
  Inputs,           \* registers to start with
  MaxSteps,         \* instructions that an execution is followed for
  Tolerated         \* the departures of the executions that are compared

VARIABLES
  phase,            \* "off", "machine", "c", or how the comparison ended
  steps,
  m,                \* the machine
  c,                \* the C program
  departs           \* how the instructions executed depart from what is translated

xvars == << phase, steps, m, c, departs >>

-----------------------------------------------------------------------------
(* Where the machine is, and how it departs by going elsewhere.             *)

DecodedAt(a) == { i \in DOMAIN all_insns : all_insns[i].addr = a }

insn == all_insns[CHOOSE i \in DecodedAt(m.ip) : TRUE]

FunctionAt(a) ==
  { f \in DOMAIN functions : \E i \in functions[f].instructions : all_insns[i].addr = a }

(* trap:     an instruction that does not go on, below the first function
   fall:     control runs on into the next function                        *)
GoesBy(reason, ip) ==
  CASE reason = "trap"     -> insn.mnemonic \in { "ud2", "hlt" } /\ m.frames > 0
    [] reason = "fall"     -> /\ insn.mnemonic \notin { "call", "ret" }
                              /\ FunctionAt(ip) # FunctionAt(insn.addr)

-----------------------------------------------------------------------------
(* The machine executes.                                                   *)

Cpu(regs) ==
  [ ip     |-> functions[1].start_addr, regs |-> regs, mem |-> EmptyMap, frames |-> 0,
    flags  |-> Flags("undefined", 1, FALSE, FALSE),
    lost   |-> FALSE ]

\* The C before the first line of the first function: cpu as the machine has it.
CStart(regs) ==
  [ f       |-> 1, line |-> 1, mem |-> EmptyMap, callers |-> << >>,
    regs    |-> [ b \in VarBase |-> IF b = "RFlags" THEN 0 ELSE regs[b] ] ]

CpuOff == [ip |-> 0]

MachineInit ==
  /\ Init
  /\ phase = "off"
  /\ steps = 0
  /\ m = CpuOff
  /\ c = CpuOff
  /\ departs = {}

Decompile ==
  /\ Next
  /\ UNCHANGED xvars

\* A unit was delivered, and a C compiler takes it.
Start ==
  /\ phase = "off"
  /\ file.content = "complete"
  /\ B!Compilable
  /\ functions # << >>
  /\ \E regs \in Inputs : m' = Cpu(regs) /\ c' = CStart(regs)
  /\ phase' = "machine"
  /\ UNCHANGED << vars, steps, departs >>

Followed ==
  /\ DecodedAt(m.ip) # {}
  /\ steps < MaxSteps
  /\ FollowedInsn(m, insn)

Executes(mnemonics) ==
  /\ phase = "machine"
  /\ Followed
  /\ insn.mnemonic \in mnemonics
  /\ steps' = steps + 1
  /\ UNCHANGED << vars, c >>

Departing(ip) ==
  departs' = departs \cup Departures(m, insn) \cup { r \in { "trap", "fall" } : GoesBy(r, ip) }

GoTo(ip, new) ==
  /\ m' = [ new EXCEPT !.ip = ip, !.lost = LostAfter(m, insn) ]
  /\ Departing(ip)
  /\ UNCHANGED phase

GoOn(new) == GoTo(NextIp(insn), new)

MachineNop == Executes({"nop"}) /\ GoOn(m)

MachineMov == Executes({"mov"}) /\ GoOn(Moved(m, insn))

MachineLea == Executes({"lea"}) /\ GoOn(Addressed(m, insn))

MachineBinary == Executes(Arithmetic) /\ ~ Multiplies(insn) /\ GoOn(Computed(m, insn))

MachineUnary == Executes({ "inc", "dec", "neg", "not" }) /\ GoOn(ComputedUnary(m, insn))

MachineMul == Executes({ "mul", "imul" }) /\ Multiplies(insn) /\ GoOn(Multiplied(m, insn))

MachineCompare == Executes({ "cmp", "test" }) /\ GoOn(Compared(m, insn))

MachineXchg == Executes({"xchg"}) /\ GoOn(Exchanged(m, insn))

MachinePush == Executes({"push"}) /\ GoOn(PushedOperand(m, insn))

MachinePop == Executes({"pop"}) /\ GoOn(Popped(m, insn))

MachineLeave == Executes({"leave"}) /\ GoOn(LeftFrame(m))

Target == insn.op_str[1].value

MachineCall ==
  /\ Executes({"call"})
  /\ DecodedAt(Target) # {}
  /\ GoTo(Target, [ CalledFrom(m, insn) EXCEPT !.frames = @ + 1 ])

\* The caller finds the stack as it was before the call.
MachineRet ==
  /\ Executes({"ret"})
  /\ m.frames > 0
  /\ GoTo(ReadMem(m.mem, m.regs["RSP"]), [ Raised(m) EXCEPT !.frames = @ - 1 ])

MachineJump == Executes({"jmp"}) /\ GoTo(Target, m)

ConditionKnown == m.flags.from # "undefined"

MachineCondJump ==
  /\ Executes(Jumps)
  /\ ConditionKnown
  /\ GoTo(IF Holds(insn.mnemonic, m.flags) THEN Target ELSE NextIp(insn), m)

MachineCmov == Executes(Moves) /\ ConditionKnown /\ GoOn(MovedIf(m, insn))

(* The execution ends where the first function returns, or with a trap.     *)
Ends(mnemonics) ==
  /\ phase = "machine"
  /\ Followed
  /\ insn.mnemonic \in mnemonics
  /\ Departing(m.ip)
  /\ phase' = "c"
  /\ steps' = 0
  /\ UNCHANGED << vars, m, c >>

MachineReturns == Ends({"ret"}) /\ m.frames = 0

MachineTraps == Ends({ "ud2", "hlt" })

-----------------------------------------------------------------------------
(* The C executes.                                                         *)

CLine == bodies[c.f].lines[c.line]

Runs(kinds) ==
  /\ phase = "c"
  /\ steps < 4 * MaxSteps
  /\ CLine.kind \in kinds
  /\ steps' = steps + 1
  /\ UNCHANGED << vars, m, departs >>

RunsOp(opcodes) == Runs({"statement"}) /\ CLine.opcode.op \in opcodes

NextLine(new) == c' = [ new EXCEPT !.line = @ + 1 ] /\ UNCHANGED phase

CLabel == Runs({"label"}) /\ NextLine(c)

CAssign ==
  /\ RunsOp(Assignments)
  /\ ~ IsUndefined(c, CLine.opcode)
  /\ NextLine(AfterAssign(c, CLine.opcode))

\* What C leaves undefined, the program need not survive.
CUndefined ==
  /\ RunsOp(Assignments)
  /\ IsUndefined(c, CLine.opcode)
  /\ phase' = "undefined"
  /\ UNCHANGED c

CStore == RunsOp({"Store"}) /\ NextLine(AfterStore(c, CLine.opcode))

CCompare == RunsOp({ "Cmp", "Test" }) /\ NextLine(AfterCompare(c, CLine.opcode))

CPush == RunsOp({"Push"}) /\ NextLine(AfterPush(c, CLine.opcode))

CPop == RunsOp({"Pop"}) /\ NextLine(AfterPop(c, CLine.opcode))

\* Comments, and the comma expression of an atomic operation that is not known.
CNothing == RunsOp({ "Nop", "Unknown", "AtomicRMW" }) /\ NextLine(c)

LineOfLabel(f, addr) ==
  CHOOSE i \in DOMAIN bodies[f].lines : bodies[f].lines[i] = B!Label(addr)

CGoto ==
  /\ Runs({ "goto", "if" })
  /\ IF CLine.kind = "goto" \/ get_cond_expr(c, CLine.condition)
       THEN c' = [ c EXCEPT !.line = LineOfLabel(c.f, CLine.addr) ] /\ UNCHANGED phase
       ELSE NextLine(c)

CCall ==
  /\ Runs({"call"})
  /\ \E f \in DOMAIN bodies :
       /\ bodies[f].name = CLine.callee
       /\ c' = [ AfterCall(c, CLine.pushed) EXCEPT
                    !.callers = Append(@, [f |-> c.f, line |-> c.line + 1]), !.f = f, !.line = 1 ]
  /\ UNCHANGED phase

CReturn ==
  /\ Runs({"return"})
  /\ IF c.callers = << >>
       THEN phase' = "compared" /\ UNCHANGED c
       ELSE LET caller == c.callers[Len(c.callers)]
            IN  /\ c' = [ c EXCEPT !.f = caller.f, !.line = caller.line,
                                   !.callers = SubSeq(@, 1, Len(@) - 1) ]
                /\ UNCHANGED phase

\* The C does not come to an end within a bound that is ample for the machine.
CRunsOn ==
  /\ phase = "c"
  /\ steps >= 4 * MaxSteps
  /\ phase' = "lost"
  /\ UNCHANGED << vars, steps, m, c, departs >>

MachineNext ==
  \/ Decompile
  \/ Start
  \/ MachineNop \/ MachineMov \/ MachineLea \/ MachineBinary \/ MachineUnary \/ MachineMul
  \/ MachineCompare \/ MachineXchg \/ MachinePush \/ MachinePop \/ MachineLeave
  \/ MachineCall \/ MachineRet \/ MachineJump \/ MachineCondJump \/ MachineCmov
  \/ MachineReturns \/ MachineTraps
  \/ CLabel \/ CAssign \/ CUndefined \/ CStore \/ CCompare \/ CPush \/ CPop \/ CNothing \/ CGoto
  \/ CCall \/ CReturn \/ CRunsOn

MachineSpec == MachineInit /\ [][MachineNext]_<< vars, xvars >>

-----------------------------------------------------------------------------
(* Properties.                                                             *)

\* The header comment of backend.rs: "The output models x86 semantics via a
\* register-per-variable approach with a simulated stack."  Of the executions that
\* depart just so from what is translated (with no tolerated departure: those that
\* do not), the C is defined and ends, with the registers and the memory of the
\* machine.
SameEffect ==
  departs = Tolerated =>
    /\ phase \notin { "lost", "undefined" }
    /\ phase = "compared" =>
         /\ \A b \in GeneralRegisters : c.regs[b] = m.regs[b]
         /\ \A a \in DOMAIN c.mem \cup DOMAIN m.mem : ReadMem(c.mem, a) = ReadMem(m.mem, a)
=============================================================================
