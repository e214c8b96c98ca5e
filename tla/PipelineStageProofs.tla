------------------------ MODULE PipelineStageProofs -------------------------
(***************************************************************************)
(* The stages of main run in their order, each to its end, whatever the    *)
(* binary is: every function gets one graph, every graph one lifted        *)
(* function, and every lifted function one body before a file is written   *)
(* (TypeCorrect).  And every stage gets what its own theorems take for     *)
(* granted.                                                                *)
(*                                                                         *)
(* For the first, the inductive invariant counts what each loop has        *)
(* produced: a call in progress stands for one result that is still        *)
(* missing, so that the call that returns does not overrun.                *)
(*                                                                         *)
(* For the second, the proof puts the stages' inductive invariants         *)
(* together: Frontend's holds from the start to the end of the program,    *)
(* Cfg's for the function whose graph is being built, where the functions  *)
(* Cfg is about are all those that satisfy DisassembledFunction.  What is  *)
(* new lies between the stages: that the instructions of a discovered      *)
(* function, cut out of the decoded ones, are a function that build_cfg    *)
(* can take, that its graph is one that lift_function can take, and that   *)
(* the lifted functions are a program that emit_c can take.                *)
(***************************************************************************)
EXTENDS Pipeline, TLAPS, SequenceTheorems, FiniteSetTheorems

IsVec(s) == \E S : s \in Seq(S)

StageInv ==
  /\ stage \in { "args", "frontend", "cfg", "lift", "emit", "output", "write", "exited" }
  /\ exit_code \in { NoCode, 0, 1, 2 }
  /\ stage = "exited" <=> exit_code # NoCode
  /\ stage \in { "cfg", "lift", "emit", "output", "write" } => fpc = "done"
  /\ stage \in { "output", "write" } => bpc = "done"

VecInv == IsVec(functions) /\ IsVec(cfgs) /\ IsVec(ir_functions) /\ IsVec(bodies)

\* A stage that has not begun has left nothing.
UntouchedInv ==
  /\ stage \in { "args", "frontend" } => cfgs = << >> /\ cpc = "idle"
  /\ stage \in { "args", "frontend", "cfg" } => ir_functions = << >> /\ lpc = "idle"
  /\ stage \in { "args", "frontend", "cfg", "lift" } => bodies = << >>

CfgCount ==
  /\ stage = "cfg" => /\ Len(cfgs) <= Len(functions)
                      /\ cpc # "idle" => Len(cfgs) < Len(functions)
  /\ stage \in { "lift", "emit", "output", "write" } => Len(cfgs) = Len(functions)

LiftCount ==
  /\ stage = "lift" => /\ Len(ir_functions) <= Len(cfgs)
                       /\ lpc # "idle" => Len(ir_functions) < Len(cfgs)
  /\ stage \in { "emit", "output", "write" } =>
       /\ Len(ir_functions) = Len(functions)
       /\ program.functions = ir_functions

\* A body in the making is one that is missing.
BodiesFit ==
  /\ Len(bodies) <= Len(program.functions)
  /\ bpc = "block" => Len(bodies) < Len(program.functions)
  /\ bpc = "done" => Len(bodies) = Len(program.functions)

EmitCount == stage \in { "emit", "output", "write" } => BodiesFit

IInv == StageInv /\ VecInv /\ UntouchedInv /\ CfgCount /\ LiftCount /\ EmitCount

-----------------------------------------------------------------------------
(* Facts the steps rest on.                                                *)

LEMMA EmptyVec == IsVec(<< >>) /\ Len(<< >>) = 0
BY EmptySeq DEF IsVec

LEMMA VecLen ==
  ASSUME NEW s, IsVec(s)
  PROVE  Len(s) \in Nat
<1>1. PICK S : s \in Seq(S)
  BY DEF IsVec
<1>. QED BY <1>1, LenProperties

LEMMA AppendVec ==
  ASSUME NEW s, NEW e, IsVec(s)
  PROVE  IsVec(Append(s, e)) /\ Len(Append(s, e)) = Len(s) + 1
<1>1. PICK S : s \in Seq(S)
  BY DEF IsVec
<1>. DEFINE T == S \cup {e}
<1>2. s \in Seq(T)
  <2>1. s \in [1 .. Len(s) -> S] /\ Len(s) \in Nat
    BY <1>1, LenProperties
  <2>2. s \in [1 .. Len(s) -> T]
    BY <2>1
  <2>. QED BY <2>1, <2>2, SeqDef
<1>3. e \in T
  OBVIOUS
<1>. HIDE DEF T
<1>4. Append(s, e) \in Seq(T) /\ Len(Append(s, e)) = Len(s) + 1
  BY <1>2, <1>3, AppendProperties
<1>. QED BY <1>4 DEF IsVec

\* Of the frontend's steps one makes a function, behind those there are.
LEMMA FrontendStep ==
  ASSUME F!Next, IsVec(functions)
  PROVE  IsVec(functions')
<1>1. functions' = functions \/ \E e : functions' = Append(functions, e)
  <2>1. CASE F!BuildFunction
    BY <2>1 DEF F!BuildFunction
  <2>2. CASE ~ F!BuildFunction
    BY <2>2 DEF F!Next, F!LoadFails, F!find_text_section, F!CollectSymbol, F!LoadEnds,
      F!DisasmFails, F!Disassemble, F!SeedStarts, F!Finish, F!Terminated, F!vars
  <2>. QED BY <2>1, <2>2
<1>. QED BY <1>1, AppendVec

\* emit_c keeps its program and makes one body for every function of it.
LEMMA BackendStep ==
  ASSUME B!Next, IsVec(bodies), Len(program.functions) \in Nat, BodiesFit
  PROVE  IsVec(bodies') /\ program' = program /\ BodiesFit'
<1>1. Len(bodies) \in Nat
  BY VecLen
<1>2. CASE B!BeginFunction
  BY <1>1, <1>2 DEF B!BeginFunction, B!functions, BodiesFit
<1>3. CASE B!EmitBlock
  BY <1>1, <1>3 DEF B!EmitBlock, BodiesFit
<1>4. CASE B!EndFunction
  <2>1. PICK e : bodies' = Append(bodies, e)
    BY <1>4 DEF B!EndFunction
  <2>2. IsVec(bodies') /\ Len(bodies') = Len(bodies) + 1
    BY <2>1, AppendVec
  <2>3. program' = program /\ bpc = "block" /\ bpc' = "function"
    BY <1>4 DEF B!EndFunction
  <2>. QED BY <1>1, <2>2, <2>3 DEF BodiesFit
<1>5. CASE B!Finish
  BY <1>1, <1>5 DEF B!Finish, B!functions, BodiesFit
<1>6. CASE B!Terminated
  BY <1>6 DEF B!Terminated, B!vars, BodiesFit
<1>7. CASE B!Collect \/ B!DeclareLibc \/ B!EndLibc \/ B!DeclareStub \/ B!EndStubs
             \/ B!DeclareTarget \/ B!EndTargets
  <2>1. program' = program /\ bodies' = bodies /\ bpc' \notin { "block", "done" }
    BY <1>7 DEF B!Collect, B!DeclareLibc, B!EndLibc, B!DeclareStub, B!EndStubs,
      B!DeclareTarget, B!EndTargets
  <2>. QED BY <2>1 DEF BodiesFit
<1>. QED BY <1>2, <1>3, <1>4, <1>5, <1>6, <1>7 DEF B!Next

-----------------------------------------------------------------------------
(* The invariant.                                                          *)

LEMMA InitIInv == Init => IInv
<1>. SUFFICES ASSUME Init PROVE IInv
  OBVIOUS
<1>1. functions = << >>
  BY DEF Init, F!Init
<1>. QED BY <1>1, EmptyVec
  DEF Init, IInv, StageInv, VecInv, UntouchedInv, CfgCount, LiftCount, EmitCount, NoCode

LEMMA NextIInv == IInv /\ [Next]_vars => IInv'
<1>. SUFFICES ASSUME IInv, [Next]_vars PROVE IInv'
  OBVIOUS
<1>. USE DEF IInv
<1>l. /\ Len(functions) \in Nat /\ Len(cfgs) \in Nat
      /\ Len(ir_functions) \in Nat /\ Len(bodies) \in Nat
  BY VecLen DEF VecInv
<1>1. CASE ArgsEndRun
  BY <1>1 DEF ArgsEndRun, Exit, NoCode, StageInv, VecInv, UntouchedInv, CfgCount, LiftCount,
    EmitCount, fvars, bvars
<1>2. CASE ParseArgs
  BY <1>2 DEF ParseArgs, StageInv, VecInv, UntouchedInv, CfgCount, LiftCount, EmitCount,
    fvars, cvars, lvars, bvars
<1>3. CASE RunFrontend
  <2>1. IsVec(functions')
    BY <1>3, FrontendStep DEF RunFrontend, VecInv
  <2>. QED BY <1>3, <2>1 DEF RunFrontend, mvars, cvars, lvars, bvars, StageInv, VecInv,
    UntouchedInv, CfgCount, LiftCount, EmitCount
<1>4. CASE FrontendFailed
  BY <1>4 DEF FrontendFailed, Exit, NoCode, StageInv, VecInv, UntouchedInv, CfgCount,
    LiftCount, EmitCount, fvars, bvars
<1>5. CASE FrontendDone
  BY <1>5, <1>l, EmptyVec DEF FrontendDone, StageInv, VecInv, UntouchedInv, CfgCount, LiftCount,
    EmitCount, fvars, cvars, lvars, bvars
<1>6. CASE CallBuildCfg
  BY <1>6 DEF CallBuildCfg, StageInv, VecInv, UntouchedInv, CfgCount, LiftCount, EmitCount,
    mvars, fvars, lvars, bvars
<1>7. CASE RunBuildCfg
  BY <1>7 DEF RunBuildCfg, StageInv, VecInv, UntouchedInv, CfgCount, LiftCount, EmitCount,
    mvars, fvars, lvars, bvars
<1>8. CASE BuildCfgReturns
  <2>1. IsVec(cfgs') /\ Len(cfgs') = Len(cfgs) + 1
    BY <1>8, AppendVec DEF BuildCfgReturns, VecInv
  <2>2. Len(cfgs') <= Len(functions)
    BY <1>8, <1>l, <2>1 DEF BuildCfgReturns, CfgCount
  <2>3. /\ UNCHANGED << stage, exit_code, functions, fpc, ir_functions, lpc, bodies, bpc, program >>
        /\ stage = "cfg" /\ cpc' = "idle"
    BY <1>8 DEF BuildCfgReturns, fvars, lvars, bvars
  <2>. QED BY <2>1, <2>2, <2>3 DEF StageInv, VecInv, UntouchedInv, CfgCount, LiftCount, EmitCount
<1>9. CASE CfgsDone
  BY <1>9, <1>l, EmptyVec DEF CfgsDone, StageInv, VecInv, UntouchedInv, CfgCount, LiftCount,
    EmitCount, fvars, cvars, lvars, bvars
<1>10. CASE CallLiftFunction
  BY <1>10 DEF CallLiftFunction, StageInv, VecInv, UntouchedInv, CfgCount, LiftCount, EmitCount,
    mvars, fvars, cvars, bvars
<1>11. CASE RunLiftFunction
  BY <1>11 DEF RunLiftFunction, StageInv, VecInv, UntouchedInv, CfgCount, LiftCount, EmitCount,
    mvars, fvars, cvars, bvars
<1>12. CASE LiftFunctionReturns
  <2>1. IsVec(ir_functions') /\ Len(ir_functions') = Len(ir_functions) + 1
    BY <1>12, AppendVec DEF LiftFunctionReturns, VecInv
  <2>2. Len(ir_functions') <= Len(cfgs)
    BY <1>12, <1>l, <2>1 DEF LiftFunctionReturns, LiftCount
  <2>3. /\ UNCHANGED << stage, exit_code, functions, fpc, cfgs, cpc, bodies, bpc, program >>
        /\ stage = "lift" /\ lpc' = "idle"
    BY <1>12 DEF LiftFunctionReturns, fvars, cvars, bvars
  <2>. QED BY <2>1, <2>2, <2>3 DEF StageInv, VecInv, UntouchedInv, CfgCount, LiftCount, EmitCount
<1>13. CASE LiftDone
  <2>1. /\ UNCHANGED << exit_code, functions, fpc, cfgs, ir_functions, bodies >>
        /\ stage = "lift" /\ stage' = "emit" /\ bpc' = "collect"
        /\ program' = [functions |-> ir_functions, symbols |-> symbols]
        /\ Len(ir_functions) >= Len(cfgs)
    BY <1>13 DEF LiftDone, fvars, cvars
  <2>2. Len(ir_functions) = Len(functions) /\ bodies = << >>
    BY <1>l, <2>1 DEF CfgCount, LiftCount, UntouchedInv
  <2>3. program'.functions = ir_functions'
    BY <2>1
  <2>4. EmitCount'
    BY <1>l, <2>1, <2>2, <2>3, EmptyVec DEF EmitCount, BodiesFit
  <2>. QED BY <2>1, <2>2, <2>3, <2>4 DEF StageInv, VecInv, UntouchedInv, CfgCount, LiftCount
<1>14. CASE RunEmitC
  <2>1. /\ stage = "emit" /\ B!Next
        /\ UNCHANGED << stage, exit_code, functions, fpc, cfgs, ir_functions >>
    BY <1>14 DEF RunEmitC, mvars, fvars
  <2>2. Len(program.functions) \in Nat /\ BodiesFit /\ program.functions = ir_functions
    BY <1>l, <2>1 DEF LiftCount, EmitCount
  <2>3. IsVec(bodies') /\ program' = program /\ BodiesFit'
    BY <2>1, <2>2, BackendStep DEF VecInv
  <2>. QED BY <2>1, <2>2, <2>3 DEF StageInv, VecInv, UntouchedInv, CfgCount, LiftCount, EmitCount
<1>15. CASE EmitCReturns
  BY <1>15 DEF EmitCReturns, StageInv, VecInv, UntouchedInv, CfgCount, LiftCount, EmitCount,
    BodiesFit, fvars, cvars, lvars, bvars
<1>16. CASE CreateFails
  BY <1>16 DEF CreateFails, Exit, NoCode, StageInv, VecInv, UntouchedInv, CfgCount, LiftCount,
    EmitCount, fvars, bvars
<1>17. CASE CreateFile
  BY <1>17 DEF CreateFile, StageInv, VecInv, UntouchedInv, CfgCount, LiftCount, EmitCount,
    BodiesFit, fvars, cvars, lvars, bvars
<1>18. CASE WriteFails
  BY <1>18 DEF WriteFails, Exit, NoCode, StageInv, VecInv, UntouchedInv, CfgCount, LiftCount,
    EmitCount, fvars, bvars
<1>19. CASE WriteFile
  BY <1>19 DEF WriteFile, Exit, NoCode, StageInv, VecInv, UntouchedInv, CfgCount, LiftCount,
    EmitCount, fvars, bvars
<1>20. CASE Exited \/ UNCHANGED vars
  BY <1>20 DEF Exited, vars, mvars, fvars, cvars, lvars, bvars, StageInv, VecInv, UntouchedInv,
    CfgCount, LiftCount, EmitCount, BodiesFit
<1>. QED BY <1>1, <1>2, <1>3, <1>4, <1>5, <1>6, <1>7, <1>8, <1>9, <1>10, <1>11, <1>12, <1>13,
  <1>14, <1>15, <1>16, <1>17, <1>18, <1>19, <1>20 DEF Next

LEMMA IInvTypeOK == IInv => TypeOK
<1>. SUFFICES ASSUME IInv PROVE TypeOK
  OBVIOUS
<1>1. ASSUME stage = "write"
      PROVE  bpc = "done" /\ Len(bodies) = Len(functions)
  BY <1>1 DEF IInv, StageInv, LiftCount, EmitCount, BodiesFit
<1>. QED BY <1>1 DEF IInv, StageInv, CfgCount, LiftCount, TypeOK

\* main runs a stage only when the stages before it have run to their end, and
\* its loops give every function one graph, one lifted function and one body.
THEOREM TypeCorrect == Spec => []TypeOK
<1>1. Spec => []IInv
  BY InitIInv, NextIInv, PTL DEF Spec
<1>. QED BY <1>1, IInvTypeOK, PTL

-----------------------------------------------------------------------------
(* What the stages get.                                                    *)

\* The functions that the theorems about build_cfg are about.
CfgArguments ==
  { f \in [start_addr : Nat, instructions : Seq(DisassembledInsn)] : C!DisassembledFunction(f) }

FP == INSTANCE FrontendProofs WITH pc <- fpc, idx <- fidx
CP == INSTANCE CfgProofs WITH Funcs <- CfgArguments, pc <- cpc, idx <- cidx

-----------------------------------------------------------------------------
(* The invariant.                                                          *)

FrontInv ==
  /\ FP!IInv
  /\ all_insns \in Seq(DisassembledInsn)
  /\ \A a \in DOMAIN symbols : B!IsSeq(symbols[a])

\* A graph that lift_function can take: of its blocks no two begin at one address.
IsGraph(g) ==
  /\ g \in Seq(L!BasicBlock) /\ L!Ascends(g)
  /\ \A b, c \in DOMAIN g : b # c => g[b].start_addr # g[c].start_addr

BuildInv ==
  /\ func \in CfgArguments
  /\ cpc # "idle" => CP!IInv
  /\ \A k \in DOMAIN cfgs : IsGraph(cfgs[k])

\* An external function that is called has a name.
Named(o) == B!IsExternal(o) => B!IsSeq(o.name)

IrOK(irs) == IsVec(irs) /\ \A k \in DOMAIN irs : Named(irs[k].opcode)

\* The IR of the first n blocks of a graph.
IrOfGraph(irbs, g, n) ==
  /\ IsVec(irbs) /\ Len(irbs) = n /\ n <= Len(g)
  /\ \A b \in DOMAIN irbs :
       irbs[b].start_addr = g[b].start_addr /\ IrOK(irbs[b].instructions)

\* The IR of a graph, or of the beginning of one.
Lowered(irbs) == \E g : IsGraph(g) /\ IrOfGraph(irbs, g, Len(irbs))

LiftingInv ==
  /\ lpc \in { "block", "lift", "done" }
  /\ blk \in Nat
  /\ lpc = "lift" => blk <= Len(cfg)
  /\ IrOK(ir_instructions)
  /\ IrOfGraph(ir_blocks, cfg, blk - 1)

LiftedInv ==
  \A k \in DOMAIN ir_functions :
    ir_functions[k].addr = functions[k].start_addr /\ Lowered(ir_functions[k].blocks)

LiftInv ==
  /\ IsGraph(cfg)
  /\ lpc # "idle" => LiftingInv
  /\ LiftedInv

StagesInv == FrontInv /\ BuildInv /\ LiftInv /\ B!IsProgram(program)

-----------------------------------------------------------------------------
(* Vectors.                                                                *)

\* An element more.
LEMMA AppendShape ==
  ASSUME NEW s, NEW e, NEW t, IsVec(s), t = Append(s, e)
  PROVE  \E n \in Nat :
           /\ n = Len(s) /\ DOMAIN s = 1 .. n
           /\ DOMAIN t = 1 .. n + 1
           /\ \A k \in 1 .. n : t[k] = s[k]
           /\ t[n + 1] = e
<1>1. PICK S : s \in Seq(S)
  BY DEF IsVec
<1>. DEFINE T == S \cup {e}
<1>2. /\ Len(s) \in Nat /\ DOMAIN s = 1 .. Len(s)
      /\ \A k \in 1 .. Len(s) : s[k] \in T
  BY <1>1, LenProperties
<1>3. s \in Seq(T)
  <2>1. s = [ k \in 1 .. Len(s) |-> s[k] ]
    BY <1>1, LenProperties
  <2>. HIDE DEF T
  <2>. QED BY <1>2, <2>1, IsASeq
<1>4. e \in T
  OBVIOUS
<1>. HIDE DEF T
<1>5. /\ t \in Seq(T) /\ Len(t) = Len(s) + 1
      /\ \A k \in 1 .. Len(s) : t[k] = s[k]
      /\ t[Len(s) + 1] = e
  BY <1>3, <1>4, AppendProperties
<1>6. DOMAIN t = 1 .. Len(t)
  BY <1>5, LenProperties
<1>7. DOMAIN t = 1 .. Len(s) + 1
  BY <1>5, <1>6
<1>. QED BY <1>2, <1>5, <1>7

\* A vector is a sequence.
LEMMA VecIsSeq ==
  ASSUME NEW s, IsVec(s)
  PROVE  B!IsSeq(s)
<1>1. PICK S : s \in Seq(S)
  BY DEF IsVec
<1>2. Len(s) \in Nat /\ s \in [ 1 .. Len(s) -> S ]
  BY <1>1, LenProperties
<1>. QED BY <1>2 DEF B!IsSeq

-----------------------------------------------------------------------------
(* The stages as their proofs know them.                                   *)

LEMMA FrontendNext == F!Next => FP!Next
BY DEF
       F!Bad, F!vars, F!sections, F!text_start, F!text_end, F!InText, F!LoadFails, F!Named,
       F!Spanning, F!TextCandidates, F!find_text_section, F!CollectSymbol, F!LoadEnds,
       F!DisasmFails, F!SweepEndsAt, F!insn_to_owned, F!Disassemble, F!Decoded, F!SymbolStarts,
       F!EntryStart, F!Mentions, F!IsPrologue, F!PrologueStarts, F!CallTargets, F!CallStarts,
       F!SeedStarts, F!EndOf, F!InRange, F!NameOf, F!BuildFunction, F!Finish, F!Terminated,
       F!Next, F!parse_hex_target, F!IsCall, F!Hex, F!func_name,
       FP!Bad, FP!vars, FP!sections, FP!text_start, FP!text_end, FP!InText, FP!LoadFails,
       FP!Named, FP!Spanning, FP!TextCandidates, FP!find_text_section, FP!CollectSymbol,
       FP!LoadEnds, FP!DisasmFails, FP!SweepEndsAt, FP!insn_to_owned, FP!Disassemble,
       FP!Decoded, FP!SymbolStarts, FP!EntryStart, FP!Mentions, FP!IsPrologue,
       FP!PrologueStarts, FP!CallTargets, FP!CallStarts, FP!SeedStarts, FP!EndOf, FP!InRange,
       FP!NameOf, FP!BuildFunction, FP!Finish, FP!Terminated, FP!Next, FP!parse_hex_target,
       FP!IsCall, FP!Hex, FP!func_name

LEMMA CfgNext == C!Next => CP!Next
BY DEF
       C!vars, C!insns, C!valid_addrs, C!BlockIds, C!Return, C!Halt, C!Jump, C!Fallthrough,
       C!ConditionalJump, C!Call, C!Resolves, C!resolve_jump_target, C!HasNext, C!Ends,
       C!EndsInJmp, C!EndsInCondJump, C!EndsInCall, C!EndsInOther, C!Classify, C!EmptyFunction,
       C!SeedLeaders, C!EndsBlock, C!LeaderAfter, C!LeaderTarget, C!ScanInsn, C!EndScan,
       C!NumberLeader, C!EndNumber, C!DealInsn, C!EndDeal, C!FirstInsn, C!LastInsn,
       C!BasicBlock, C!EdgesFrom, C!ClassifyBlock, C!Finish, C!Terminated, C!Next,
       C!parse_hex_target, C!COND_JUMPS, C!HALT_MNEMONICS, C!RET_MNEMONICS, C!IsCondJump,
       C!IsJump, C!IsCall, C!IsRet, C!IsHalt,
       CP!vars, CP!insns, CP!valid_addrs, CP!BlockIds, CP!Return, CP!Halt, CP!Jump,
       CP!Fallthrough, CP!ConditionalJump, CP!Call, CP!Resolves, CP!resolve_jump_target,
       CP!HasNext, CP!Ends, CP!EndsInJmp, CP!EndsInCondJump, CP!EndsInCall, CP!EndsInOther,
       CP!Classify, CP!EmptyFunction, CP!SeedLeaders, CP!EndsBlock, CP!LeaderAfter,
       CP!LeaderTarget, CP!ScanInsn, CP!EndScan, CP!NumberLeader, CP!EndNumber, CP!DealInsn,
       CP!EndDeal, CP!FirstInsn, CP!LastInsn, CP!BasicBlock, CP!EdgesFrom, CP!ClassifyBlock,
       CP!Finish, CP!Terminated, CP!Next, CP!parse_hex_target, CP!COND_JUMPS,
       CP!HALT_MNEMONICS, CP!RET_MNEMONICS, CP!IsCondJump, CP!IsJump, CP!IsCall, CP!IsRet,
       CP!IsHalt

LEMMA CfgArgumentsFit == \A f \in CfgArguments : CP!DisassembledFunction(f)
BY DEF CfgArguments, C!DisassembledFunction, CP!DisassembledFunction, C!DisassembledInsn,
  CP!DisassembledInsn, C!Operand, CP!Operand

LEMMA FilesFit == \A x \in Binaries : FP!IsBinary(x)
BY FilesAssumption DEF F!IsBinary, FP!IsBinary, F!Unit, FP!Unit, F!IsSeq, FP!IsSeq, F!Operand, FP!Operand

LEMMA FrontendKeeps == FP!IInv /\ FP!Next => FP!IInv'
BY NoAddrAssumption, FilesFit, FP!LoadIInv, FP!DisassembleIInv, FP!SeedStartsIInv, FP!BuildFunctionIInv,
   FP!FinishIInv DEF FP!Next

LEMMA FrontendStays == FP!IInv /\ UNCHANGED fvars => FP!IInv'
BY NoAddrAssumption, FilesFit, FP!FinishIInv DEF FP!vars, fvars

LEMMA CfgKeeps == CP!IInv /\ CP!Next => CP!IInv'
BY NoAddrAssumption, CfgArgumentsFit, CP!EmptyFunctionIInv, CP!SeedLeadersIInv, CP!ScanInsnIInv, CP!EndScanIInv,
   CP!NumberLeaderIInv, CP!EndNumberIInv, CP!DealInsnIInv, CP!EndDealIInv, CP!ClassifyBlockIInv,
   CP!FinishIInv, CP!StutterIInv DEF CP!Next, CP!Terminated

LEMMA CfgStays == CP!IInv /\ UNCHANGED cvars => CP!IInv'
BY NoAddrAssumption, CfgArgumentsFit, CP!StutterIInv DEF CP!vars, cvars

LEMMA CfgBegins == CP!Init' => CP!IInv'
<1>1. CP!Init => CP!IInv
  BY NoAddrAssumption, CfgArgumentsFit, CP!InitIInv
<1>. QED BY <1>1, PTL

-----------------------------------------------------------------------------
(* From the frontend to build_cfg.                                         *)

\* What is decoded are instructions, and what is collected are names.
LEMMA FrontendData ==
  ASSUME FrontInv, F!Next
  PROVE  FrontInv'
<1>1. FP!IInv'
  BY FrontendNext, FrontendKeeps DEF FrontInv
<1>2. binary \in Binaries /\ F!IsBinary(binary)
  BY FilesAssumption DEF FrontInv, FP!IInv, FP!LoadInv
<1>3. all_insns' \in Seq(DisassembledInsn)
  <2>1. CASE F!Disassemble
    <3>. DEFINE code  == binary.sections[text].code
                start == binary.sections[text].addr
    <3>1. text \in DOMAIN binary.sections
      BY <2>1 DEF F!Disassemble, FrontInv, FP!IInv, FP!LoadInv, FP!Loaded, FP!sections
    <3>2. start \in Nat /\ code \in Seq(F!Unit)
      BY <1>2, <3>1 DEF F!IsBinary
    <3>3. PICK n \in 0 .. Len(code) : all_insns' = [ k \in 1 .. n |-> F!insn_to_owned(code[k]) ]
      BY <2>1 DEF F!Disassemble, F!sections
    <3>4. \A unit \in F!Unit : F!insn_to_owned(unit) \in DisassembledInsn
      BY <3>2 DEF F!Unit, F!insn_to_owned, F!text_start, F!sections, F!Operand, DisassembledInsn, Operand
    <3>. HIDE DEF code, start
    <3>5. Len(code) \in Nat /\ \A k \in 1 .. Len(code) : code[k] \in F!Unit
      BY <3>2
    <3>6. n \in Nat /\ \A k \in 1 .. n : F!insn_to_owned(code[k]) \in DisassembledInsn
      BY <3>4, <3>5
    <3>7. [ k \in 1 .. n |-> F!insn_to_owned(code[k]) ] \in Seq(DisassembledInsn)
      BY <3>6, IsASeq
    <3>. QED BY <3>3, <3>7
  <2>2. CASE ~ F!Disassemble
    <3>1. all_insns' = all_insns
      BY <2>2 DEF F!Next, F!LoadFails, F!find_text_section, F!CollectSymbol, F!LoadEnds,
        F!DisasmFails, F!SeedStarts, F!BuildFunction, F!Finish, F!Terminated, F!vars
    <3>. QED BY <3>1 DEF FrontInv
  <2>. QED BY <2>1, <2>2
<1>4. \A a \in DOMAIN symbols' : B!IsSeq(symbols'[a])
  <2>1. CASE F!CollectSymbol
    <3>. DEFINE sym == binary.symbols[fidx]
    <3>1. fidx \in DOMAIN binary.symbols
      BY <1>2, <2>1 DEF F!CollectSymbol, F!IsBinary, FrontInv, FP!IInv, FP!LoadInv
    <3>2. sym.name # NoName => B!IsSeq(sym.name)
      BY <1>2, <3>1 DEF F!IsBinary, F!IsSeq, B!IsSeq
    <3>3. symbols' = IF sym.kind = "Text" /\ sym.name # NoName
                       THEN [ a \in DOMAIN symbols \cup {sym.addr} |->
                                IF a = sym.addr THEN sym.name ELSE symbols[a] ]
                       ELSE symbols
      BY <2>1 DEF F!CollectSymbol
    <3>. HIDE DEF sym
    <3>. QED BY <3>2, <3>3 DEF FrontInv
  <2>2. CASE ~ F!CollectSymbol
    <3>1. symbols' = symbols
      BY <2>2 DEF F!Next, F!LoadFails, F!find_text_section, F!Disassemble, F!LoadEnds,
        F!DisasmFails, F!SeedStarts, F!BuildFunction, F!Finish, F!Terminated, F!vars
    <3>. QED BY <3>1 DEF FrontInv
  <2>. QED BY <2>1, <2>2
<1>. QED BY <1>1, <1>3, <1>4 DEF FrontInv

LEMMA FrontendFrame ==
  ASSUME FrontInv, UNCHANGED fvars
  PROVE  FrontInv'
BY FrontendStays DEF FrontInv, fvars

\* A nonempty set of positions has a last one.
LEMMA LastExists ==
  ASSUME NEW n \in Nat, NEW S, S \subseteq 1 .. n, S # {}
  PROVE  \E e \in S : \A s \in S : s <= e
<1>. DEFINE T == { n - s : s \in S }
<1>1. T \subseteq Nat /\ T # {}
  <2>1. \A s \in S : n - s \in Nat
    OBVIOUS
  <2>2. PICK e \in S : TRUE
    OBVIOUS
  <2>3. n - e \in T
    BY <2>2
  <2>. QED BY <2>1, <2>3
<1>. HIDE DEF T
<1>2. PICK t \in T : \A u \in T : t <= u
  BY <1>1, NoAddrAssumption, FilesFit, FP!LeastExists
<1>. USE DEF T
<1>3. PICK e \in S : t = n - e
  BY <1>2
<1>4. \A s \in S : n - e <= n - s
  BY <1>2, <1>3
<1>. QED BY <1>4

\* A range of positions without a gap is an interval.
LEMMA PositionsOf ==
  ASSUME NEW n \in Nat, NEW S, S \subseteq 1 .. n, S # {},
         \A i, j \in S : \A k \in 1 .. n : i <= k /\ k <= j => k \in S
  PROVE  \E l, h \in 1 .. n :
           l <= h /\ S = l .. h /\ Cardinality(S) = h - l + 1
<1>1. S \subseteq Nat
  OBVIOUS
<1>2. PICK l \in S : \A s \in S : l <= s
  BY <1>1, NoAddrAssumption, FilesFit, FP!LeastExists
<1>3. PICK h \in S : \A s \in S : s <= h
  BY LastExists
<1>4. l \in 1 .. n /\ h \in 1 .. n /\ l <= h
  BY <1>2, <1>3
<1>5. S = l .. h
  <2>1. ASSUME NEW k \in S PROVE k \in l .. h
    BY <1>1, <1>2, <1>3, <1>4
  <2>2. ASSUME NEW k \in l .. h PROVE k \in S
    <3>1. k \in 1 .. n /\ l <= k /\ k <= h
      BY <1>4
    <3>. QED BY <1>2, <1>3, <3>1
  <2>. QED BY <2>1, <2>2
<1>6. Cardinality(l .. h) = h - l + 1
  BY <1>4, FS_Interval
<1>. QED BY <1>4, <1>5, <1>6

\* A discovered function has a run of the decoded instructions, from its start.
LEMMA FunctionPositions ==
  ASSUME FrontInv, NEW f \in DOMAIN functions
  PROVE  \E n \in Nat : \E l \in 1 .. n, h \in 1 .. n :
           /\ DOMAIN all_insns = 1 .. n /\ l <= h
           /\ functions[f].instructions = l .. h
           /\ InsnsOf(f) = [ k \in 1 .. h - l + 1 |-> all_insns[l + k - 1] ]
           /\ functions[f].start_addr \in Nat
           /\ \A i \in 1 .. n : all_insns[i] \in DisassembledInsn /\ all_insns[i].addr \in Nat
           /\ \A i, j \in 1 .. n : i < j => all_insns[i].addr < all_insns[j].addr
           /\ \A i \in l .. h : functions[f].start_addr <= all_insns[i].addr
<1>. DEFINE P     == functions[f].instructions
            start == functions[f].start_addr
            end   == functions[f].end_addr
<1>1. /\ start \in Nat /\ end \in Nat /\ P # {}
      /\ P = { i \in DOMAIN all_insns : all_insns[i].addr >= start /\ all_insns[i].addr < end }
  <2>1. start \in FP!Cut /\ end \in Nat /\ P = FP!InRange(start, end) /\ P # {}
    BY DEF FrontInv, FP!IInv, FP!CutInv
  <2>2. FP!Seeded
    BY <2>1 DEF FrontInv, FP!IInv, FP!SeedInv, FP!Cut
  <2>3. start \in Nat
    BY <2>1, <2>2 DEF FrontInv, FP!IInv, FP!SeedInv, FP!Cut
  <2>. QED BY <2>1, <2>3 DEF FP!InRange
<1>2. PICK n \in Nat : DOMAIN all_insns = 1 .. n
  BY DEF FrontInv, FP!IInv, FP!SweepInv
<1>3. /\ \A i \in 1 .. n : all_insns[i] \in DisassembledInsn /\ all_insns[i].addr \in Nat
      /\ \A i, j \in 1 .. n : i < j => all_insns[i].addr < all_insns[j].addr
  <2>1. \A i \in 1 .. n : all_insns[i] \in DisassembledInsn
    BY <1>2, ElementOfSeq DEF FrontInv
  <2>2. \A i \in DisassembledInsn : i.addr \in Nat
    BY DEF DisassembledInsn
  <2>3. \A i, j \in 1 .. n : i < j => all_insns[i].addr < all_insns[j].addr
    BY <1>2 DEF FrontInv, FP!IInv, FP!SweepInv
  <2>. QED BY <2>1, <2>2, <2>3
<1>. HIDE DEF P, start, end
<1>4. P \subseteq 1 .. n
  BY <1>1, <1>2
<1>5. ASSUME NEW i \in P, NEW j \in P, NEW k \in 1 .. n, i <= k, k <= j
      PROVE  k \in P
  <2>1. i \in 1 .. n /\ j \in 1 .. n /\ all_insns[i].addr >= start /\ all_insns[j].addr < end
    BY <1>1, <1>4
  <2>2. all_insns[i].addr <= all_insns[k].addr /\ all_insns[k].addr <= all_insns[j].addr
    BY <1>3, <1>5, <2>1
  <2>3. all_insns[k].addr >= start /\ all_insns[k].addr < end
    BY <1>1, <1>3, <2>1, <2>2
  <2>. QED BY <1>1, <1>2, <2>3
<1>. DEFINE first == CHOOSE i \in P : \A j \in P : i <= j
<1>6. PICK l \in 1 .. n, h \in 1 .. n :
        l <= h /\ P = l .. h /\ Cardinality(P) = h - l + 1 /\ first = l
  <2>1. \A i, j \in P : \A k \in 1 .. n : i <= k /\ k <= j => k \in P
    BY <1>5
  <2>2. P # {}
    BY <1>1
  <2>3. PICK l \in 1 .. n, h \in 1 .. n : l <= h /\ P = l .. h /\ Cardinality(P) = h - l + 1
    BY <1>4, <2>1, <2>2, PositionsOf
  <2>4. l \in P /\ \A j \in P : l <= j
    BY <2>3
  <2>5. first \in P /\ \A j \in P : first <= j
    BY <2>4
  <2>. HIDE DEF first
  <2>6. first = l
    BY <2>3, <2>4, <2>5
  <2>. QED BY <2>3, <2>6
<1>7. InsnsOf(f) = [ k \in 1 .. h - l + 1 |-> all_insns[l + k - 1] ]
  <2>1. InsnsOf(f) = [ k \in 1 .. Cardinality(P) |-> all_insns[first + k - 1] ]
    BY DEF InsnsOf, P
  <2>. HIDE DEF first
  <2>. QED BY <1>6, <2>1
<1>. HIDE DEF first
<1>8. \A i \in l .. h : start <= all_insns[i].addr
  BY <1>1, <1>3, <1>6
<1>. QED BY <1>1, <1>2, <1>3, <1>6, <1>7, <1>8 DEF P, start

\* The instructions of a discovered function are what build_cfg expects.
LEMMA FunctionFits ==
  ASSUME FrontInv, NEW f \in DOMAIN functions
  PROVE  FunctionToBuild(f) \in CfgArguments
<1>. DEFINE start == functions[f].start_addr
<1>a. PICK n \in Nat : \E l \in 1 .. n, h \in 1 .. n :
        /\ DOMAIN all_insns = 1 .. n /\ l <= h
        /\ InsnsOf(f) = [ k \in 1 .. h - l + 1 |-> all_insns[l + k - 1] ]
        /\ start \in Nat
        /\ \A i \in 1 .. n : all_insns[i] \in DisassembledInsn /\ all_insns[i].addr \in Nat
        /\ \A i, j \in 1 .. n : i < j => all_insns[i].addr < all_insns[j].addr
        /\ \A i \in l .. h : start <= all_insns[i].addr
  BY FunctionPositions
<1>1. PICK l \in 1 .. n, h \in 1 .. n :
        /\ DOMAIN all_insns = 1 .. n /\ l <= h
        /\ InsnsOf(f) = [ k \in 1 .. h - l + 1 |-> all_insns[l + k - 1] ]
        /\ start \in Nat
        /\ \A i \in 1 .. n : all_insns[i] \in DisassembledInsn /\ all_insns[i].addr \in Nat
        /\ \A i, j \in 1 .. n : i < j => all_insns[i].addr < all_insns[j].addr
        /\ \A i \in l .. h : start <= all_insns[i].addr
  BY <1>a
<1>. HIDE DEF start
<1>. DEFINE m == h - l + 1
            s == [ k \in 1 .. m |-> all_insns[l + k - 1] ]
<1>2. m \in Nat /\ \A k \in 1 .. m : l + k - 1 \in l .. h /\ l + k - 1 \in 1 .. n
  BY <1>1
<1>3. \A j, k \in 1 .. m : j < k => l + j - 1 < l + k - 1
  BY <1>1, <1>2
<1>4. InsnsOf(f) = s
  BY <1>1
<1>. HIDE DEF m
<1>5. DOMAIN s = 1 .. m /\ \A k \in 1 .. m : s[k] = all_insns[l + k - 1]
  OBVIOUS
<1>6. s \in Seq(DisassembledInsn)
  BY <1>1, <1>2, IsASeq
<1>7. \A j, k \in 1 .. m : j < k => s[j].addr < s[k].addr
  BY <1>1, <1>2, <1>3, <1>5
<1>8. \A k \in 1 .. m : start <= s[k].addr
  BY <1>1, <1>2, <1>5
<1>. HIDE DEF s
<1>9. FunctionToBuild(f) = [start_addr |-> start, instructions |-> s]
  BY <1>4 DEF FunctionToBuild, start
<1>10. C!DisassembledInsn = DisassembledInsn
  BY DEF C!DisassembledInsn, DisassembledInsn, C!Operand, Operand
<1>. DEFINE g == [start_addr |-> start, instructions |-> s]
<1>11. g \in [start_addr : Nat, instructions : Seq(DisassembledInsn)]
  BY <1>1, <1>6
<1>12. g.start_addr = start /\ g.instructions = s
  OBVIOUS
<1>. HIDE DEF g
<1>13. C!DisassembledFunction(g)
  BY <1>1, <1>5, <1>6, <1>7, <1>8, <1>10, <1>12 DEF C!DisassembledFunction
<1>. QED BY <1>9, <1>11, <1>13 DEF CfgArguments, g

-----------------------------------------------------------------------------
(* From build_cfg to lift_function.                                        *)

\* Positions that follow each other go up.
LEMMA Consecutive ==
  ASSUME NEW n \in Nat, NEW s, \A k \in 1 .. n : s[k] \in Nat,
         \A k \in 1 .. n : k > 1 => s[k] = s[k - 1] + 1
  PROVE  \A j, k \in 1 .. n : j < k => s[j] < s[k]
<1>. DEFINE Off == { k \in 1 .. n : s[k] # s[1] + k - 1 }
<1>1. ASSUME Off # {} PROVE FALSE
  <2>1. PICK e \in Off : \A k \in Off : e <= k
    <3>1. Off \subseteq Nat
      OBVIOUS
    <3>. HIDE DEF Off
    <3>. QED BY <1>1, <3>1, NoAddrAssumption, FilesFit, FP!LeastExists
  <2>2. e \in 1 .. n /\ s[e] # s[1] + e - 1
    BY <2>1
  <2>3. e # 1
    BY <2>2
  <2>4. e - 1 \in 1 .. n /\ e - 1 \notin Off
    BY <2>1, <2>2, <2>3
  <2>5. s[e - 1] = s[1] + (e - 1) - 1 /\ s[1] \in Nat
    BY <2>4
  <2>6. s[e] = s[e - 1] + 1
    BY <2>2, <2>3
  <2>. QED BY <2>2, <2>5, <2>6
<1>2. ASSUME NEW j \in 1 .. n, NEW k \in 1 .. n, j < k PROVE s[j] < s[k]
  <2>1. s[j] = s[1] + j - 1 /\ s[k] = s[1] + k - 1 /\ s[1] \in Nat
    BY <1>1
  <2>. QED BY <1>2, <2>1
<1>. QED BY <1>2

\* build_cfg begins with a function that it can take.
LEMMA BuildBegins ==
  ASSUME FrontInv, IInv, CallBuildCfg
  PROVE  func' \in CfgArguments /\ CP!IInv'
<1>1. Len(cfgs) + 1 \in DOMAIN functions
  <2>1. \E n \in Nat : n = Len(functions) /\ DOMAIN functions = 1 .. n
    BY DEF FrontInv, FP!IInv, FP!CutInv
  <2>2. Len(cfgs) \in Nat /\ Len(cfgs) < Len(functions)
    BY VecLen DEF IInv, VecInv, CallBuildCfg
  <2>. QED BY <2>1, <2>2
<1>2. func' \in CfgArguments
  BY <1>1, FunctionFits DEF CallBuildCfg
<1>3. CP!Init'
  BY <1>2 DEF CallBuildCfg, CP!Init, CP!EmptyMap, EmptyMap
<1>. QED BY <1>2, <1>3, CfgBegins

\* The finished graph: its blocks begin at the leaders, and their instructions
\* are those that were dealt to them.
LEMMA GraphShape ==
  ASSUME CP!IInv, cpc = "done"
  PROVE  \E n \in Nat :
           /\ DOMAIN blocks = 0 .. n - 1
           /\ DOMAIN GraphBuilt = 1 .. n
           /\ \A k \in 1 .. n :
                GraphBuilt[k] =
                  [ start_addr   |-> leader_vec[k],
                    instructions |-> [ j \in DOMAIN block_insns[k - 1] |->
                                         func.instructions[block_insns[k - 1][j]] ] ]
<1>1. PICK n \in Nat : n = Len(leader_vec)
  BY NoAddrAssumption, CfgArgumentsFit, CP!LeaderFacts
<1>2. CP!BlockIds = 0 .. n - 1
  BY <1>1 DEF CP!BlockIds
<1>3. DOMAIN blocks = 0 .. n - 1
  BY <1>2, NoAddrAssumption, CfgArgumentsFit, CP!FinishedBlocks
<1>4. Cardinality(DOMAIN blocks) = n
  <2>1. Cardinality(0 .. n - 1) = n
    BY FS_Interval
  <2>. QED BY <1>3, <2>1
<1>5. DOMAIN GraphBuilt = 1 .. n
  BY <1>4 DEF GraphBuilt
<1>6. ASSUME NEW k \in 1 .. n
      PROVE  GraphBuilt[k] =
               [ start_addr   |-> leader_vec[k],
                 instructions |-> [ j \in DOMAIN block_insns[k - 1] |->
                                      func.instructions[block_insns[k - 1][j]] ] ]
  <2>1. k - 1 \in CP!BlockIds /\ (k - 1) + 1 = k
    BY <1>2
  <2>2. blocks[k - 1] = CP!BasicBlock(k - 1) /\ CP!insns[CP!FirstInsn(k - 1)].addr = leader_vec[k]
    BY <2>1, NoAddrAssumption, CfgArgumentsFit, CP!FinishedBlocks
  <2>3. /\ blocks[k - 1].start_addr = leader_vec[k]
        /\ blocks[k - 1].instructions = block_insns[k - 1]
    BY <2>2 DEF CP!BasicBlock
  <2>. QED BY <1>4, <2>3 DEF GraphBuilt
<1>. QED BY <1>3, <1>5, <1>6

\* It is a graph that lift_function can take.
LEMMA GraphFits ==
  ASSUME CP!IInv, cpc = "done"
  PROVE  IsGraph(GraphBuilt)
<1>1. PICK n \in Nat :
        /\ DOMAIN blocks = 0 .. n - 1
        /\ DOMAIN GraphBuilt = 1 .. n
        /\ \A k \in 1 .. n :
             GraphBuilt[k] =
               [ start_addr   |-> leader_vec[k],
                 instructions |-> [ j \in DOMAIN block_insns[k - 1] |->
                                      func.instructions[block_insns[k - 1][j]] ] ]
  BY GraphShape
<1>2. /\ func.instructions \in Seq(DisassembledInsn)
      /\ \A i, j \in DOMAIN func.instructions :
           i < j => func.instructions[i].addr < func.instructions[j].addr
      /\ \A i \in DOMAIN func.instructions :
           func.instructions[i] \in DisassembledInsn /\ func.instructions[i].addr \in Nat
  <2>1. func \in CfgArguments
    BY DEF CP!IInv, CP!BoundsInv
  <2>2. \A i \in DisassembledInsn : i.addr \in Nat
    BY DEF DisassembledInsn
  <2>3. func.instructions \in Seq(DisassembledInsn)
    BY <2>1 DEF CfgArguments
  <2>4. \A i \in DOMAIN func.instructions : func.instructions[i] \in DisassembledInsn
    BY <2>3, ElementOfSeq
  <2>. QED BY <2>1, <2>2, <2>3, <2>4 DEF CfgArguments, C!DisassembledFunction
<1>3. CP!BlockIds = 0 .. n - 1
  BY <1>1, NoAddrAssumption, CfgArgumentsFit, CP!FinishedBlocks
<1>4. \A k \in 1 .. n : k - 1 \in CP!BlockIds /\ (k - 1) + 1 = k
  BY <1>3
<1>5. /\ \A k \in 1 .. n : leader_vec[k] \in Nat
      /\ \A j, k \in 1 .. n : j < k => leader_vec[j] < leader_vec[k]
  <2>1. /\ \A b \in CP!BlockIds : leader_vec[b + 1] \in Nat
        /\ \A b, c \in CP!BlockIds : b < c => leader_vec[b + 1] < leader_vec[c + 1]
    BY NoAddrAssumption, CfgArgumentsFit, CP!LeaderFacts
  <2>2. \A j, k \in 1 .. n : j < k => j - 1 < k - 1
    OBVIOUS
  <2>. QED BY <1>4, <2>1, <2>2
<1>6. ASSUME NEW k \in 1 .. n
      PROVE  /\ GraphBuilt[k] \in L!BasicBlock
             /\ GraphBuilt[k].start_addr = leader_vec[k]
             /\ \A i, j \in DOMAIN GraphBuilt[k].instructions :
                  i < j => GraphBuilt[k].instructions[i].addr <= GraphBuilt[k].instructions[j].addr
  <2>. DEFINE dealt == block_insns[k - 1]
              taken == [ j \in DOMAIN dealt |-> func.instructions[dealt[j]] ]
  <2>1. PICK m \in Nat :
          /\ DOMAIN dealt = 1 .. m
          /\ \A j \in 1 .. m : dealt[j] \in DOMAIN func.instructions
    BY <1>4, NoAddrAssumption, CfgArgumentsFit, CP!FinishedBlocks DEF CP!insns
  <2>2. \A j \in 1 .. m : dealt[j] \in Nat
    <3>1. DOMAIN func.instructions = 1 .. Len(func.instructions)
      BY <1>2, LenProperties
    <3>. QED BY <2>1, <3>1
  <2>3. \A j \in 1 .. m : j > 1 => dealt[j] = dealt[j - 1] + 1
    BY <1>4, <2>1 DEF CP!IInv, CP!DealInv
  <2>. HIDE DEF dealt
  <2>4. \A i, j \in 1 .. m : i < j => dealt[i] < dealt[j]
    BY <2>2, <2>3, Consecutive
  <2>5. DOMAIN taken = 1 .. m /\ \A j \in 1 .. m : taken[j] = func.instructions[dealt[j]]
    BY <2>1
  <2>6. taken \in Seq(DisassembledInsn)
    BY <1>2, <2>1, IsASeq
  <2>7. \A i, j \in 1 .. m : i < j => taken[i].addr <= taken[j].addr
    BY <1>2, <2>1, <2>4, <2>5
  <2>8. GraphBuilt[k] = [start_addr |-> leader_vec[k], instructions |-> taken]
    BY <1>1 DEF dealt
  <2>9. L!BasicBlock = [start_addr : Nat, instructions : Seq(DisassembledInsn)]
    BY DEF L!BasicBlock, L!DisassembledInsn, DisassembledInsn, L!Operand, Operand
  <2>. HIDE DEF taken
  <2>10. GraphBuilt[k].start_addr = leader_vec[k] /\ GraphBuilt[k].instructions = taken
    BY <2>8
  <2>11. GraphBuilt[k] \in L!BasicBlock
    BY <1>5, <2>6, <2>8, <2>9
  <2>. QED BY <2>5, <2>7, <2>10, <2>11
<1>7. GraphBuilt \in Seq(L!BasicBlock)
  <2>1. GraphBuilt = [ k \in 1 .. n |-> GraphBuilt[k] ]
    BY <1>1 DEF GraphBuilt
  <2>. QED BY <1>6, <2>1, IsASeq
<1>8. L!Ascends(GraphBuilt)
  BY <1>1, <1>6 DEF L!Ascends
<1>9. \A b, c \in 1 .. n : b # c => GraphBuilt[b].start_addr # GraphBuilt[c].start_addr
  <2>1. \A b, c \in 1 .. n : b # c => b < c \/ c < b
    OBVIOUS
  <2>2. \A b, c \in 1 .. n : b # c => leader_vec[b] # leader_vec[c]
    BY <1>5, <2>1
  <2>. QED BY <1>6, <2>2
<1>. QED BY <1>1, <1>7, <1>8, <1>9 DEF IsGraph

\* What is left of a graph when nothing of build_cfg changes.
LEMMA BuildFrame ==
  ASSUME BuildInv, UNCHANGED cvars, cfgs' = cfgs
  PROVE  BuildInv'
<1>1. cpc' = cpc /\ func' = func
  BY DEF cvars
<1>2. cpc # "idle" => CP!IInv'
  BY CfgStays DEF BuildInv
<1>. QED BY <1>1, <1>2 DEF BuildInv

\* The loop over the functions.
LEMMA BuildSteps ==
  ASSUME FrontInv, IInv, BuildInv, CallBuildCfg \/ RunBuildCfg \/ BuildCfgReturns
  PROVE  BuildInv'
<1>1. CASE CallBuildCfg
  <2>1. cfgs' = cfgs
    BY <1>1 DEF CallBuildCfg, mvars
  <2>. QED BY <1>1, <2>1, BuildBegins DEF BuildInv
<1>2. CASE RunBuildCfg
  <2>1. cfgs' = cfgs /\ CP!IInv'
    BY <1>2, CfgNext, CfgKeeps DEF RunBuildCfg, mvars, BuildInv
  <2>2. func' \in CfgArguments
    BY <2>1 DEF CP!IInv, CP!BoundsInv
  <2>. QED BY <2>1, <2>2 DEF BuildInv
<1>3. CASE BuildCfgReturns
  <2>1. cfgs' = Append(cfgs, GraphBuilt) /\ func' = func /\ cpc' = "idle" /\ cpc = "done"
    BY <1>3 DEF BuildCfgReturns
  <2>. DEFINE g == GraphBuilt
  <2>2. IsGraph(g) /\ cfgs' = Append(cfgs, g)
    BY <2>1, GraphFits DEF BuildInv
  <2>. HIDE DEF g
  <2>3. PICK n \in Nat :
          /\ DOMAIN cfgs = 1 .. n /\ DOMAIN cfgs' = 1 .. n + 1
          /\ \A k \in 1 .. n : cfgs'[k] = cfgs[k]
          /\ cfgs'[n + 1] = g
    BY <2>2, AppendShape DEF IInv, VecInv
  <2>4. \A k \in DOMAIN cfgs' : IsGraph(cfgs'[k])
    <3>1. \A k \in 1 .. n + 1 : k \in 1 .. n \/ k = n + 1
      OBVIOUS
    <3>. QED BY <2>2, <2>3, <3>1 DEF BuildInv
  <2>. QED BY <2>1, <2>4 DEF BuildInv
<1>. QED BY <1>1, <1>2, <1>3

-----------------------------------------------------------------------------
(* From lift_function to emit_c.                                           *)

\* A step of lift_function adds IR whose external calls have names.
Adds == \E s : IrOK(s) /\ ir_instructions' = ir_instructions \o s

LEMMA NoIr == IrOK(<< >>)
BY EmptyVec DEF IrOK

LEMMA OneIr ==
  ASSUME NEW a, Named(a.opcode)
  PROVE  IrOK(<< a >>)
<1>1. << a >> \in Seq({a})
  OBVIOUS
<1>2. DOMAIN << a >> = { 1 } /\ << a >>[1] = a
  OBVIOUS
<1>. QED BY <1>1, <1>2 DEF IrOK, IsVec

LEMMA TwoIr ==
  ASSUME NEW a, NEW b, Named(a.opcode), Named(b.opcode)
  PROVE  IrOK(<< a, b >>)
<1>1. << a, b >> \in Seq({a, b})
  OBVIOUS
<1>2. DOMAIN << a, b >> = { 1, 2 } /\ << a, b >>[1] = a /\ << a, b >>[2] = b
  OBVIOUS
<1>. QED BY <1>1, <1>2 DEF IrOK, IsVec

LEMMA MoreIr ==
  ASSUME NEW irs, NEW s, NEW t, IrOK(irs), IrOK(s), t = irs \o s
  PROVE  IrOK(t)
<1>1. PICK S : irs \in Seq(S)
  BY DEF IrOK, IsVec
<1>2. PICK T : s \in Seq(T)
  BY DEF IrOK, IsVec
<1>. DEFINE U == S \cup T
<1>3. irs \in Seq(U) /\ s \in Seq(U)
  BY <1>1, <1>2, SeqMonotonic
<1>. HIDE DEF U
<1>4. /\ t \in Seq(U) /\ Len(t) = Len(irs) + Len(s)
      /\ \A k \in 1 .. Len(irs) + Len(s) :
           t[k] = IF k <= Len(irs) THEN irs[k] ELSE s[k - Len(irs)]
  BY <1>3, ConcatProperties
<1>5. /\ Len(irs) \in Nat /\ DOMAIN irs = 1 .. Len(irs)
      /\ Len(s) \in Nat /\ DOMAIN s = 1 .. Len(s)
      /\ DOMAIN t = 1 .. Len(t)
  BY <1>3, <1>4, LenProperties
<1>6. ASSUME NEW k \in DOMAIN t PROVE Named(t[k].opcode)
  <2>1. CASE k <= Len(irs)
    <3>1. k \in DOMAIN irs /\ t[k] = irs[k]
      BY <1>4, <1>5, <2>1
    <3>. QED BY <3>1 DEF IrOK
  <2>2. CASE ~ (k <= Len(irs))
    <3>1. k - Len(irs) \in DOMAIN s /\ t[k] = s[k - Len(irs)]
      BY <1>4, <1>5, <2>2
    <3>. QED BY <3>1 DEF IrOK
  <2>. QED BY <2>1, <2>2
<1>. QED BY <1>4, <1>6 DEF IrOK, IsVec

\* Of the opcodes only External has to have a name, and has one.
LEMMA NamedForms ==
  /\ \A op, dst, srcs : op # "Call" => Named(L!Opcode(op, dst, srcs))
  /\ \A op, srcs : op # "Call" => Named(L!Reads(op, srcs))
  /\ \A op, c, dst, srcs : op # "Call" => Named(L!Conditional(op, c, dst, srcs))
  /\ Named(L!Unknown)
  /\ \A t : Named(L!Jmp(t))
  /\ \A c, t, f : Named(L!Jcc(c, t, f))
  /\ \A t, f : Named(L!Direct(t, f))
  /\ \A o, f : Named(L!Indirect(o, f))
  /\ \A x, f : Named(L!External(<< x >>, f))
<1>1. \A x : B!IsSeq(<< x >>)
  BY DEF B!IsSeq
<1>2. \A x, f : L!External(<< x >>, f).name = << x >>
  BY DEF L!External
<1>3. \A x, f : Named(L!External(<< x >>, f))
  BY <1>1, <1>2 DEF Named
<1>. QED BY <1>3 DEF Named, B!IsExternal, L!Opcode, L!Reads, L!Conditional, L!Unknown, L!Jmp,
  L!Jcc, L!Direct, L!Indirect

LEMMA EmitAdds ==
  ASSUME NEW o, Named(o), L!Emit(o)
  PROVE  Adds
<1>1. L!At(o).opcode = o
  BY DEF L!At
<1>2. ir_instructions' = ir_instructions \o << L!At(o) >>
  BY DEF L!Emit, L!Push
<1>. QED BY <1>1, <1>2, OneIr DEF Adds

LEMMA DefineAdds ==
  ASSUME NEW o, NEW b, Named(o), L!Define(b, o)
  PROVE  Adds
<1>1. L!At(o).opcode = o
  BY DEF L!At
<1>2. ir_instructions' = ir_instructions \o << L!At(o) >>
  BY DEF L!Define, L!Push
<1>. QED BY <1>1, <1>2, OneIr DEF Adds

LEMMA UnknownAdds == L!Emit(L!Unknown) => Adds
BY EmitAdds, NamedForms

LEMMA ReadersAdd ==
  L!LiftNop \/ L!LiftCompare \/ L!LiftPush \/ L!LiftRet \/ L!LiftAtomic \/ L!LiftTrap
    \/ L!LiftUnknown => Adds
<1>1. \A op, srcs : op # "Call" /\ L!Emit(L!Reads(op, srcs)) => Adds
  BY EmitAdds, NamedForms
<1>. QED BY <1>1, UnknownAdds
  DEF L!LiftNop, L!LiftCompare, L!LiftPush, L!LiftRet, L!LiftAtomic, L!LiftTrap, L!LiftUnknown,
      L!IfOperands

LEMMA TransfersAdd == L!LiftCall \/ L!LiftJmp \/ L!LiftJcc \/ L!LiftSyscall => Adds
<1>1. \A op : Named(L!lift_call(op))
  BY NamedForms DEF L!lift_call
<1>2. \A op : Named(L!lift_jmp(op))
  BY NamedForms DEF L!lift_jmp
<1>3. L!LiftCall => Adds
  BY <1>1, EmitAdds, UnknownAdds DEF L!LiftCall, L!IfOperands
<1>4. L!LiftJmp => Adds
  BY <1>2, EmitAdds, UnknownAdds DEF L!LiftJmp, L!IfOperands
<1>5. L!LiftJcc => Adds
  BY EmitAdds, NamedForms DEF L!LiftJcc
<1>6. L!LiftSyscall => Adds
  BY EmitAdds, NamedForms DEF L!LiftSyscall
<1>. QED BY <1>3, <1>4, <1>5, <1>6

LEMMA DefinersAdd ==
  L!LiftMov \/ L!LiftLea \/ L!LiftBinaryAlu \/ L!LiftMul \/ L!LiftUnary \/ L!LiftPop
    \/ L!LiftCmov \/ L!LiftSetcc \/ L!LiftIncDec => Adds
<1>1. \A b, op, dst, srcs : op # "Call" /\ L!Define(b, L!Opcode(op, dst, srcs)) => Adds
  BY DefineAdds, NamedForms
<1>2. \A b, op, c, dst, srcs : op # "Call" /\ L!Define(b, L!Conditional(op, c, dst, srcs)) => Adds
  BY DefineAdds, NamedForms
<1>3. \A srcs : L!Emit(L!Reads("Store", srcs)) => Adds
  BY EmitAdds, NamedForms
<1>4. L!LiftMov => Adds
  BY <1>1, <1>3, UnknownAdds DEF L!LiftMov, L!lift_mov, L!IfOperands
<1>5. L!LiftLea => Adds
  BY <1>1, UnknownAdds DEF L!LiftLea, L!IfOperands
<1>6. \A m : L!lift_binary_alu(m) => Adds
  <2>1. \A m : L!AluOp(m) # "Call"
    BY DEF L!AluOp
  <2>. QED BY <1>1, <2>1 DEF L!lift_binary_alu
<1>7. L!LiftBinaryAlu \/ L!LiftMul => Adds
  BY <1>1, <1>6, UnknownAdds DEF L!LiftBinaryAlu, L!LiftMul, L!IfOperands
<1>8. L!LiftUnary \/ L!LiftIncDec \/ L!LiftPop => Adds
  BY <1>1, UnknownAdds DEF L!LiftUnary, L!LiftIncDec, L!LiftPop, L!IfOperands
<1>9. L!LiftCmov \/ L!LiftSetcc => Adds
  BY <1>2, UnknownAdds DEF L!LiftCmov, L!LiftSetcc, L!IfOperands
<1>. QED BY <1>4, <1>5, <1>7, <1>8, <1>9

LEMMA LeaveAdds == L!LiftLeave => Adds
<1>. DEFINE o1 == L!Opcode("Mov", L!new_version("RSP"), << L!Current("RBP") >>)
            o2 == L!Opcode("Pop", L!new_version("RBP"), << >>)
<1>1. Named(o1) /\ Named(o2)
  BY NamedForms
<1>2. L!LiftLeave => ir_instructions' = ir_instructions \o << L!At(o1), L!At(o2) >>
  BY DEF L!LiftLeave, L!Push
<1>. HIDE DEF o1, o2
<1>3. L!At(o1).opcode = o1 /\ L!At(o2).opcode = o2
  BY DEF L!At
<1>. QED BY <1>1, <1>2, <1>3, TwoIr DEF Adds

LEMMA ArmsAdd == L!LiftInsn => Adds
BY ReadersAdd, TransfersAdd, DefinersAdd, LeaveAdds DEF L!LiftInsn

LEMMA ArmsPass ==
  L!LiftInsn => lpc = "lift" /\ UNCHANGED << cfg, lpc, blk, ir_blocks >>
BY DEF L!LiftInsn, L!LiftNop, L!LiftMov, L!LiftLea, L!LiftBinaryAlu, L!LiftMul, L!LiftUnary,
       L!LiftCompare, L!LiftPush, L!LiftPop, L!LiftCall, L!LiftRet, L!LiftJmp, L!LiftAtomic,
       L!LiftCmov, L!LiftSetcc, L!LiftJcc, L!LiftIncDec, L!LiftLeave, L!LiftTrap, L!LiftSyscall,
       L!LiftUnknown, L!lift_mov, L!lift_binary_alu, L!IfOperands, L!LateArm, L!Arm, L!Emit,
       L!Define, L!Push

\* One step of lift_function.
LEMMA LifterStep ==
  ASSUME IsGraph(cfg), LiftingInv, L!Next, lpc # "done"
  PROVE  LiftingInv' /\ cfg' = cfg
<1>1. CASE L!BeginBlock
  <2>1. /\ lpc' = "lift" /\ blk <= Len(cfg) /\ ir_instructions' = << >>
        /\ cfg' = cfg /\ blk' = blk /\ ir_blocks' = ir_blocks
    BY <1>1 DEF L!BeginBlock
  <2>. QED BY <2>1, NoIr DEF LiftingInv
<1>2. CASE L!LiftInsn
  <2>1. cfg' = cfg /\ lpc' = lpc /\ blk' = blk /\ ir_blocks' = ir_blocks
    BY <1>2, ArmsPass
  <2>2. PICK s : IrOK(s) /\ ir_instructions' = ir_instructions \o s
    BY <1>2, ArmsAdd DEF Adds
  <2>3. IrOK(ir_instructions')
    BY <2>2, MoreIr DEF LiftingInv
  <2>. QED BY <2>1, <2>3 DEF LiftingInv
<1>3. CASE L!EndBlock
  <2>. DEFINE irb == [ start_addr |-> cfg[blk].start_addr, instructions |-> ir_instructions ]
  <2>1. /\ lpc = "lift" /\ lpc' = "block" /\ ir_blocks' = Append(ir_blocks, irb) /\ blk' = blk + 1
        /\ cfg' = cfg /\ ir_instructions' = ir_instructions
    BY <1>3 DEF L!EndBlock
  <2>2. irb.start_addr = cfg[blk].start_addr /\ irb.instructions = ir_instructions
    OBVIOUS
  <2>. HIDE DEF irb
  <2>3. /\ IsVec(ir_blocks) /\ Len(ir_blocks) = blk - 1 /\ blk \in Nat /\ blk <= Len(cfg)
        /\ IrOK(ir_instructions)
        /\ \A b \in DOMAIN ir_blocks :
             ir_blocks[b].start_addr = cfg[b].start_addr /\ IrOK(ir_blocks[b].instructions)
    BY <2>1 DEF LiftingInv, IrOfGraph
  <2>4. PICK n \in Nat :
          /\ n = Len(ir_blocks) /\ DOMAIN ir_blocks = 1 .. n /\ DOMAIN ir_blocks' = 1 .. n + 1
          /\ \A b \in 1 .. n : ir_blocks'[b] = ir_blocks[b]
          /\ ir_blocks'[n + 1] = irb
    BY <2>1, <2>3, AppendShape
  <2>5. IsVec(ir_blocks') /\ Len(ir_blocks') = Len(ir_blocks) + 1
    BY <2>1, <2>3, AppendVec
  <2>6. n + 1 = blk /\ blk' - 1 = blk /\ blk' \in Nat
    BY <2>1, <2>3, <2>4
  <2>7. ASSUME NEW b \in DOMAIN ir_blocks'
        PROVE  ir_blocks'[b].start_addr = cfg[b].start_addr /\ IrOK(ir_blocks'[b].instructions)
    <3>1. b \in 1 .. n \/ b = n + 1
      BY <2>4
    <3>. QED BY <2>2, <2>3, <2>4, <2>6, <3>1
  <2>8. IrOfGraph(ir_blocks', cfg', blk' - 1)
    BY <2>1, <2>3, <2>4, <2>5, <2>6, <2>7 DEF IrOfGraph
  <2>. QED BY <2>1, <2>3, <2>6, <2>8 DEF LiftingInv
<1>4. CASE L!Finish
  <2>1. /\ lpc' = "done" /\ cfg' = cfg /\ blk' = blk /\ ir_instructions' = ir_instructions
        /\ ir_blocks' = ir_blocks
    BY <1>4 DEF L!Finish
  <2>. QED BY <2>1 DEF LiftingInv
<1>. QED BY <1>1, <1>2, <1>3, <1>4 DEF L!Next, L!Terminated

LEMMA LiftFrame ==
  ASSUME LiftInv, UNCHANGED << lvars, ir_functions >>,
         functions' = functions \/ ir_functions = << >>
  PROVE  LiftInv'
<1>1. /\ cfg' = cfg /\ lpc' = lpc /\ blk' = blk /\ ir_instructions' = ir_instructions
      /\ ir_blocks' = ir_blocks /\ ir_functions' = ir_functions
  BY DEF lvars
<1>2. IsGraph(cfg') /\ (lpc' # "idle" => LiftingInv')
  BY <1>1 DEF LiftInv, LiftingInv
<1>3. LiftedInv'
  BY <1>1 DEF LiftInv, LiftedInv
<1>. QED BY <1>2, <1>3 DEF LiftInv

\* The loop over the graphs.
LEMMA LiftSteps ==
  ASSUME IInv, BuildInv, LiftInv, CallLiftFunction \/ RunLiftFunction \/ LiftFunctionReturns
  PROVE  LiftInv'
<1>1. CASE CallLiftFunction
  <2>1. /\ cfg' = cfgs[Len(ir_functions) + 1] /\ Len(ir_functions) < Len(cfgs)
        /\ lpc' = "block" /\ blk' = 1 /\ ir_instructions' = << >> /\ ir_blocks' = << >>
        /\ ir_functions' = ir_functions /\ functions' = functions
    BY <1>1 DEF CallLiftFunction, mvars, fvars
  <2>2. Len(ir_functions) + 1 \in DOMAIN cfgs
    <3>1. PICK S : cfgs \in Seq(S)
      BY DEF IInv, VecInv, IsVec
    <3>2. Len(cfgs) \in Nat /\ DOMAIN cfgs = 1 .. Len(cfgs) /\ Len(ir_functions) \in Nat
      BY <3>1, LenProperties, VecLen DEF IInv, VecInv
    <3>. QED BY <2>1, <3>2
  <2>3. IsGraph(cfg')
    BY <2>1, <2>2 DEF BuildInv
  <2>4. Len(cfg') \in Nat
    <3>1. cfg' \in Seq(L!BasicBlock)
      BY <2>3 DEF IsGraph
    <3>. QED BY <3>1, LenProperties
  <2>5. IrOfGraph(ir_blocks', cfg', blk' - 1)
    BY <2>1, <2>4, EmptyVec DEF IrOfGraph
  <2>6. LiftingInv'
    BY <2>1, <2>5, NoIr DEF LiftingInv
  <2>. QED BY <2>1, <2>3, <2>6 DEF LiftInv, LiftedInv
<1>2. CASE RunLiftFunction
  <2>1. /\ lpc \notin { "idle", "done" } /\ L!Next
        /\ ir_functions' = ir_functions /\ functions' = functions
    BY <1>2 DEF RunLiftFunction, mvars, fvars
  <2>2. LiftingInv' /\ cfg' = cfg
    BY <2>1, LifterStep DEF LiftInv
  <2>. QED BY <2>1, <2>2 DEF LiftInv, LiftedInv
<1>3. CASE LiftFunctionReturns
  <2>. DEFINE new == FunctionLifted(Len(ir_functions) + 1)
  <2>1. /\ lpc = "done" /\ lpc' = "idle" /\ ir_functions' = Append(ir_functions, new)
        /\ cfg' = cfg /\ functions' = functions
    BY <1>3 DEF LiftFunctionReturns, fvars
  <2>2. new.addr = functions[Len(ir_functions) + 1].start_addr /\ new.blocks = ir_blocks
    BY DEF FunctionLifted
  <2>. HIDE DEF new
  <2>3. Lowered(ir_blocks)
    <3>1. IsGraph(cfg) /\ IrOfGraph(ir_blocks, cfg, blk - 1)
      BY <2>1 DEF LiftInv, LiftingInv
    <3>2. Len(ir_blocks) = blk - 1
      BY <3>1 DEF IrOfGraph
    <3>. QED BY <3>1, <3>2 DEF Lowered
  <2>4. PICK n \in Nat :
          /\ n = Len(ir_functions) /\ DOMAIN ir_functions = 1 .. n
          /\ DOMAIN ir_functions' = 1 .. n + 1
          /\ \A k \in 1 .. n : ir_functions'[k] = ir_functions[k]
          /\ ir_functions'[n + 1] = new
    BY <2>1, AppendShape DEF IInv, VecInv
  <2>5. ASSUME NEW k \in DOMAIN ir_functions'
        PROVE  /\ ir_functions'[k].addr = functions'[k].start_addr
               /\ Lowered(ir_functions'[k].blocks)
    <3>1. k \in 1 .. n \/ k = n + 1
      BY <2>4
    <3>. QED BY <2>1, <2>2, <2>3, <2>4, <3>1 DEF LiftInv, LiftedInv
  <2>6. LiftedInv'
    BY <2>5 DEF LiftedInv
  <2>. QED BY <2>1, <2>6 DEF LiftInv
<1>. QED BY <1>1, <1>2, <1>3

\* The IR of a graph is what emit_c expects of a function.
LEMMA LoweredFits ==
  ASSUME NEW irbs, Lowered(irbs)
  PROVE  /\ B!IsSeq(irbs)
         /\ \A b \in DOMAIN irbs : B!IsBlock(irbs[b])
         /\ \A b, c \in DOMAIN irbs : b # c => irbs[b].start_addr # irbs[c].start_addr
<1>1. PICK g : IsGraph(g) /\ IrOfGraph(irbs, g, Len(irbs))
  BY DEF Lowered
<1>2. /\ Len(irbs) \in Nat /\ DOMAIN irbs = 1 .. Len(irbs)
  <2>1. PICK S : irbs \in Seq(S)
    BY <1>1 DEF IrOfGraph, IsVec
  <2>. QED BY <2>1, LenProperties
<1>3. Len(g) \in Nat /\ DOMAIN g = 1 .. Len(g) /\ g \in Seq(L!BasicBlock)
  BY <1>1, LenProperties DEF IsGraph
<1>4. \A b \in DOMAIN irbs : b \in DOMAIN g
  BY <1>1, <1>2, <1>3 DEF IrOfGraph
<1>5. \A b \in DOMAIN g : g[b].start_addr \in Nat
  <2>1. \A b \in DOMAIN g : g[b] \in L!BasicBlock
    BY <1>3, ElementOfSeq
  <2>. QED BY <2>1 DEF L!BasicBlock
<1>6. \A b \in DOMAIN irbs :
        irbs[b].start_addr = g[b].start_addr /\ IrOK(irbs[b].instructions)
  BY <1>1 DEF IrOfGraph
<1>7. B!IsSeq(irbs)
  BY <1>1, VecIsSeq DEF IrOfGraph
<1>8. ASSUME NEW b \in DOMAIN irbs
      PROVE  B!IsBlock(irbs[b])
  <2>1. irbs[b].start_addr \in Nat
    BY <1>4, <1>5, <1>6
  <2>2. B!IsSeq(irbs[b].instructions)
    BY <1>6, VecIsSeq DEF IrOK
  <2>. QED BY <1>6, <2>1, <2>2 DEF B!IsBlock, IrOK, Named
<1>. QED BY <1>1, <1>4, <1>6, <1>7, <1>8 DEF IsGraph

\* The discovered functions come in the order of their starts.
LEMMA FunctionsAscend ==
  ASSUME FrontInv
  PROVE  /\ DOMAIN functions = 1 .. Len(functions)
         /\ \A f \in DOMAIN functions : functions[f].start_addr \in Nat
         /\ \A f, g \in DOMAIN functions :
              f < g => functions[f].start_addr < functions[g].start_addr
<1>1. /\ DOMAIN functions = 1 .. Len(functions)
      /\ \A f \in DOMAIN functions :
           /\ functions[f].start_addr \in FP!Cut /\ functions[f].end_addr \in Nat
           /\ functions[f].instructions = FP!InRange(functions[f].start_addr, functions[f].end_addr)
           /\ functions[f].instructions # {}
      /\ \A f, g \in DOMAIN functions : f < g => functions[f].end_addr <= functions[g].start_addr
  BY DEF FrontInv, FP!IInv, FP!CutInv
<1>2. ASSUME NEW f \in DOMAIN functions
      PROVE  functions[f].start_addr \in Nat /\ functions[f].start_addr < functions[f].end_addr
  <2>1. FP!Seeded /\ functions[f].start_addr \in Nat
    BY <1>1 DEF FrontInv, FP!IInv, FP!SeedInv, FP!Cut
  <2>2. PICK i \in DOMAIN all_insns :
          functions[f].start_addr <= all_insns[i].addr /\ all_insns[i].addr < functions[f].end_addr
    BY <1>1, <2>1 DEF FP!InRange
  <2>3. all_insns[i].addr \in Nat
    BY <2>1 DEF FrontInv, FP!IInv, FP!SweepInv, FP!Swept, FP!Seeded
  <2>. QED BY <1>1, <2>1, <2>2, <2>3
<1>. QED BY <1>1, <1>2

\* All functions together are what emit_c expects.
LEMMA ProgramFits ==
  ASSUME FrontInv, IInv, LiftInv, LiftDone
  PROVE  B!IsProgram(program')
<1>1. program'.functions = ir_functions /\ program'.symbols = symbols /\ stage = "lift"
  BY DEF LiftDone
<1>2. /\ DOMAIN ir_functions = 1 .. Len(ir_functions)
      /\ Len(ir_functions) \in Nat /\ Len(functions) \in Nat
      /\ Len(ir_functions) <= Len(functions)
  <2>1. PICK S : ir_functions \in Seq(S)
    BY DEF IInv, VecInv, IsVec
  <2>2. DOMAIN ir_functions = 1 .. Len(ir_functions) /\ Len(ir_functions) \in Nat
    BY <2>1, LenProperties
  <2>. QED BY <1>1, <2>2, VecLen DEF IInv, VecInv, CfgCount, LiftCount
<1>3. \A f \in DOMAIN ir_functions : f \in DOMAIN functions
  BY <1>2, FunctionsAscend
<1>4. \A f \in DOMAIN ir_functions :
        ir_functions[f].addr = functions[f].start_addr /\ Lowered(ir_functions[f].blocks)
  BY DEF LiftInv, LiftedInv
<1>5. B!IsSeq(ir_functions)
  BY VecIsSeq DEF IInv, VecInv
<1>6. \A f \in DOMAIN ir_functions :
        /\ ir_functions[f].addr \in Nat
        /\ B!IsSeq(ir_functions[f].blocks)
        /\ \A b \in DOMAIN ir_functions[f].blocks : B!IsBlock(ir_functions[f].blocks[b])
        /\ \A b, c \in DOMAIN ir_functions[f].blocks :
             b # c => ir_functions[f].blocks[b].start_addr # ir_functions[f].blocks[c].start_addr
  BY <1>3, <1>4, FunctionsAscend, LoweredFits
<1>7. \A f, g \in DOMAIN ir_functions : f < g => ir_functions[f].addr < ir_functions[g].addr
  BY <1>3, <1>4, FunctionsAscend
<1>8. \A a \in DOMAIN symbols : B!IsSeq(symbols[a])
  BY DEF FrontInv
<1>. QED BY <1>1, <1>5, <1>6, <1>7, <1>8 DEF B!IsProgram

-----------------------------------------------------------------------------
(* The invariant.                                                          *)

LEMMA InitStages == Init => StagesInv
<1>. SUFFICES ASSUME Init PROVE StagesInv
  OBVIOUS
<1>1. FrontInv
  <2>1. FP!Init
    BY DEF Init, F!Init, FP!Init, F!EmptyMap, FP!EmptyMap
  <2>2. FP!IInv
    BY <2>1, NoAddrAssumption, FilesFit, FP!InitIInv
  <2>3. all_insns = << >> /\ DOMAIN symbols = {}
    BY DEF Init, F!Init, F!EmptyMap
  <2>. QED BY <2>2, <2>3 DEF FrontInv
<1>2. BuildInv
  <2>1. NoFunction \in CfgArguments
    <3>1. NoFunction \in [start_addr : Nat, instructions : Seq(DisassembledInsn)]
      BY DEF NoFunction
    <3>2. << >> \in Seq(C!DisassembledInsn) /\ DOMAIN << >> = {}
      OBVIOUS
    <3>3. NoFunction.start_addr = 0 /\ NoFunction.instructions = << >>
      BY DEF NoFunction
    <3>4. C!DisassembledFunction(NoFunction)
      BY <3>2, <3>3 DEF C!DisassembledFunction
    <3>. QED BY <3>1, <3>4 DEF CfgArguments
  <2>. QED BY <2>1 DEF Init, BuildInv
<1>3. LiftInv
  BY DEF Init, LiftInv, LiftedInv, IsGraph, L!Ascends
<1>4. B!IsProgram(program)
  <2>1. B!IsSeq(<< >>)
    BY DEF B!IsSeq
  <2>2. /\ program.functions = << >> /\ DOMAIN program.functions = {}
        /\ DOMAIN program.symbols = {}
    BY DEF Init, NoProgram, EmptyMap
  <2>. QED BY <2>1, <2>2 DEF B!IsProgram
<1>. QED BY <1>1, <1>2, <1>3, <1>4 DEF StagesInv

\* emit_c keeps its argument.
LEMMA EmitKeepsProgram ==
  ASSUME IInv, RunEmitC
  PROVE  program' = program
<1>1. stage = "emit" /\ B!Next
  BY DEF RunEmitC
<1>2. Len(program.functions) \in Nat /\ BodiesFit
  BY <1>1, VecLen DEF IInv, VecInv, LiftCount, EmitCount
<1>. QED BY <1>1, <1>2, BackendStep DEF IInv, VecInv

\* What the steps of main leave alone.
LEMMA StagesFrame ==
  ASSUME StagesInv, UNCHANGED << fvars, cvars, lvars, cfgs, ir_functions, program >>
  PROVE  StagesInv'
<1>1. FrontInv'
  BY FrontendFrame DEF StagesInv
<1>2. BuildInv'
  BY BuildFrame DEF StagesInv
<1>3. functions' = functions
  BY DEF fvars
<1>4. LiftInv'
  BY <1>3, LiftFrame DEF StagesInv
<1>. QED BY <1>1, <1>2, <1>4 DEF StagesInv

LEMMA NextStages == IInv /\ StagesInv /\ [Next]_vars => StagesInv'
<1>. SUFFICES ASSUME IInv, StagesInv, [Next]_vars PROVE StagesInv'
  OBVIOUS
<1>1. CASE ArgsEndRun \/ ParseArgs \/ FrontendFailed \/ FrontendDone \/ CfgsDone \/ EmitCReturns
             \/ CreateFails \/ CreateFile \/ WriteFails \/ WriteFile \/ Exited \/ UNCHANGED vars
  <2>1. UNCHANGED << fvars, cvars, lvars, cfgs, ir_functions, program >>
    BY <1>1 DEF ArgsEndRun, ParseArgs, FrontendFailed, FrontendDone, CfgsDone, EmitCReturns,
      CreateFails, CreateFile, WriteFails, WriteFile, Exited, vars, mvars, bvars
  <2>. QED BY <2>1, StagesFrame
<1>2. CASE RunFrontend
  <2>1. F!Next /\ UNCHANGED << mvars, cvars, lvars, bvars >> /\ stage = "frontend"
    BY <1>2 DEF RunFrontend
  <2>2. cfgs' = cfgs /\ ir_functions' = ir_functions /\ program' = program /\ ir_functions = << >>
    BY <2>1 DEF mvars, bvars, IInv, UntouchedInv
  <2>3. FrontInv'
    BY <2>1, FrontendData DEF StagesInv
  <2>4. BuildInv'
    BY <2>1, <2>2, BuildFrame DEF StagesInv
  <2>5. LiftInv'
    BY <2>1, <2>2, LiftFrame DEF StagesInv
  <2>. QED BY <2>2, <2>3, <2>4, <2>5 DEF StagesInv
<1>3. CASE CallBuildCfg \/ RunBuildCfg \/ BuildCfgReturns
  <2>1. UNCHANGED << fvars, lvars, bvars, ir_functions >>
    BY <1>3 DEF CallBuildCfg, RunBuildCfg, BuildCfgReturns, mvars
  <2>2. FrontInv'
    BY <2>1, FrontendFrame DEF StagesInv
  <2>3. BuildInv'
    BY <1>3, BuildSteps DEF StagesInv
  <2>4. functions' = functions /\ program' = program
    BY <2>1 DEF fvars, bvars
  <2>5. LiftInv'
    BY <2>1, <2>4, LiftFrame DEF StagesInv
  <2>. QED BY <2>2, <2>3, <2>4, <2>5 DEF StagesInv
<1>4. CASE CallLiftFunction \/ RunLiftFunction \/ LiftFunctionReturns
  <2>1. UNCHANGED << fvars, cvars, bvars, cfgs >>
    BY <1>4 DEF CallLiftFunction, RunLiftFunction, LiftFunctionReturns, mvars
  <2>2. FrontInv'
    BY <2>1, FrontendFrame DEF StagesInv
  <2>3. BuildInv'
    BY <2>1, BuildFrame DEF StagesInv
  <2>4. LiftInv'
    BY <1>4, LiftSteps DEF StagesInv
  <2>5. program' = program
    BY <2>1 DEF bvars
  <2>. QED BY <2>2, <2>3, <2>4, <2>5 DEF StagesInv
<1>5. CASE LiftDone
  <2>1. UNCHANGED << fvars, cvars, lvars, cfgs, ir_functions >>
    BY <1>5 DEF LiftDone
  <2>2. FrontInv'
    BY <2>1, FrontendFrame DEF StagesInv
  <2>3. BuildInv'
    BY <2>1, BuildFrame DEF StagesInv
  <2>4. functions' = functions
    BY <2>1 DEF fvars
  <2>5. LiftInv'
    BY <2>1, <2>4, LiftFrame DEF StagesInv
  <2>6. B!IsProgram(program')
    BY <1>5, ProgramFits DEF StagesInv
  <2>. QED BY <2>2, <2>3, <2>5, <2>6 DEF StagesInv
<1>6. CASE RunEmitC
  <2>1. UNCHANGED << fvars, cvars, lvars, cfgs, ir_functions >>
    BY <1>6 DEF RunEmitC, mvars
  <2>2. program' = program
    BY <1>6, EmitKeepsProgram
  <2>. QED BY <2>1, <2>2, StagesFrame
<1>. QED BY <1>1, <1>2, <1>3, <1>4, <1>5, <1>6 DEF Next

\* The arguments that the stages get stay what the stages can take, in every run.
THEOREM StagesInvariant == Spec => [](IInv /\ StagesInv)
<1>1. Init => IInv /\ StagesInv
  BY InitIInv, InitStages
<1>2. IInv /\ StagesInv /\ [Next]_vars => IInv' /\ StagesInv'
  BY NextIInv, NextStages
<1>. QED BY <1>1, <1>2, PTL DEF Spec

\* For every set of binaries each stage gets what it takes for granted: what the
\* theorems about the stages assume of their arguments is so in the program.
THEOREM StageInputsCorrect == Spec => []StageInputs
<1>1. StagesInv => StageInputs
  BY DEF StagesInv, BuildInv, LiftInv, IsGraph, CfgArguments, StageInputs
<1>. QED BY <1>1, StagesInvariant, PTL

-----------------------------------------------------------------------------
(* The promise of Decompiler, all but the text that is delivered.          *)

\* Nothing is looked at before the command line is.
ArgsInv == stage = "args" => fpc = "load"

\* What Deliver promises, without what the unit is (PipelinePromiseProofs).
Delivered ==
  /\ Progress = "writing" /\ Progress' = "over"
  /\ exit_code' = 0
  /\ FileSeen'.content = "complete"
  /\ UNCHANGED ImageFound

Kept ==
  D!Decline \/ D!Discover \/ D!Fail \/ D!Create \/ D!FailToWrite \/ Delivered

LEMMA NextArgs == ArgsInv /\ [Next]_vars => ArgsInv'
BY DEF ArgsInv, Next, ArgsEndRun, ParseArgs, RunFrontend, FrontendFailed, FrontendDone, CallBuildCfg,
       RunBuildCfg, BuildCfgReturns, CfgsDone, CallLiftFunction, RunLiftFunction,
       LiftFunctionReturns, LiftDone, RunEmitC, EmitCReturns, CreateFails, CreateFile, WriteFails,
       WriteFile, Exited, Exit, mvars, fvars, vars

\* Before the discovery and after it nothing of it is seen to change.
LEMMA FrontendSeen ==
  ASSUME FrontInv, F!Next, fpc \notin { "done", "failed" }
  PROVE  \/ fpc = "seed" /\ fpc' = "slice"
         \/ ~ Discovered /\ ~ Discovered'
         \/ Discovered /\ Discovered' /\ UNCHANGED << all_insns, func_starts, symbols >>
BY DEF F!Next, F!LoadFails, F!find_text_section, F!CollectSymbol, F!LoadEnds, F!DisasmFails,
       F!Disassemble, F!SeedStarts, F!BuildFunction, F!Finish, F!Terminated, Discovered

\* What is discovered is an image.
LEMMA ImageFits ==
  ASSUME FrontInv', fpc' = "slice"
  PROVE  D!IsImage(ImageFound')
<1>1. /\ ImageFound'.code = all_insns' /\ ImageFound'.starts = func_starts'
      /\ ImageFound'.symbols = symbols'
  BY DEF ImageFound, Discovered
<1>2. /\ \A i, j \in DOMAIN all_insns' : i < j => all_insns'[i].addr < all_insns'[j].addr
      /\ func_starts' \subseteq Nat
      /\ DOMAIN symbols' \subseteq Nat
  BY DEF FrontInv, FP!IInv, FP!LoadInv, FP!SweepInv, FP!Swept, FP!SeedInv, FP!Seeded
<1>. QED BY <1>1, <1>2 DEF D!IsImage

\* A step that leaves alone what is seen of the run.
LEMMA NothingSeen ==
  ASSUME UNCHANGED << fpc, all_insns, func_starts, symbols, exit_code, file >>, Progress' = Progress
  PROVE  UNCHANGED D!vars
<1>1. ImageFound' = ImageFound
  BY DEF ImageFound, Discovered
<1>2. FileSeen' = FileSeen
  BY DEF FileSeen
<1>. QED BY <1>1, <1>2 DEF D!vars

LEMMA NextKept == IInv /\ StagesInv /\ ArgsInv /\ [Next]_vars => [Kept]_(D!vars)
<1>. SUFFICES ASSUME IInv, StagesInv, ArgsInv, [Next]_vars PROVE Kept \/ UNCHANGED D!vars
  OBVIOUS
<1>1. CASE ArgsEndRun
  <2>1. /\ stage = "args" /\ stage' = "exited" /\ exit_code' \in { 0, 2 } /\ file' = file
        /\ UNCHANGED << fpc, all_insns, func_starts, symbols >> /\ fpc = "load"
    BY <1>1 DEF ArgsEndRun, Exit, fvars, ArgsInv
  <2>2. Progress = "loading" /\ Progress' = "over"
    BY <2>1 DEF Progress, Discovered
  <2>3. ImageFound' = ImageFound /\ FileSeen' = FileSeen
    BY <2>1 DEF ImageFound, Discovered, FileSeen
  <2>. QED BY <2>1, <2>2, <2>3 DEF Kept, D!Decline
<1>2. CASE RunFrontend
  <2>1. /\ stage = "frontend" /\ stage' = stage /\ F!Next /\ fpc \notin { "done", "failed" }
        /\ UNCHANGED << exit_code, file >>
    BY <1>2 DEF RunFrontend, mvars
  <2>2. FileSeen' = FileSeen
    BY <2>1 DEF FileSeen
  <2>3. CASE fpc = "seed" /\ fpc' = "slice"
    <3>1. Progress = "loading" /\ Progress' = "discovered"
      BY <2>1, <2>3 DEF Progress, Discovered
    <3>2. FrontInv'
      BY <2>1, FrontendData DEF StagesInv
    <3>3. D!IsImage(ImageFound')
      BY <2>3, <3>2, ImageFits
    <3>. QED BY <2>1, <2>2, <3>1, <3>3 DEF Kept, D!Discover
  <2>4. CASE ~ Discovered /\ ~ Discovered'
    <3>1. Progress' = Progress /\ ImageFound' = ImageFound
      BY <2>1, <2>4 DEF Progress, ImageFound
    <3>. QED BY <2>1, <2>2, <3>1 DEF D!vars
  <2>5. CASE Discovered /\ Discovered' /\ UNCHANGED << all_insns, func_starts, symbols >>
    <3>1. Progress' = Progress /\ ImageFound' = ImageFound
      BY <2>1, <2>5 DEF Progress, ImageFound
    <3>. QED BY <2>1, <2>2, <3>1 DEF D!vars
  <2>. QED BY <2>1, <2>3, <2>4, <2>5, FrontendSeen DEF StagesInv
<1>3. CASE FrontendFailed
  <2>1. /\ stage = "frontend" /\ stage' = "exited" /\ exit_code' = 1 /\ file' = file
        /\ UNCHANGED << fpc, all_insns, func_starts, symbols >>
    BY <1>3 DEF FrontendFailed, Exit, fvars
  <2>2. Progress \in { "loading", "discovered" } /\ Progress' = "over"
    BY <2>1 DEF Progress
  <2>3. ImageFound' = ImageFound /\ FileSeen' = FileSeen
    BY <2>1 DEF ImageFound, Discovered, FileSeen
  <2>. QED BY <2>1, <2>2, <2>3 DEF Kept, D!Fail
<1>4. CASE CreateFails \/ WriteFails
  <2>1. /\ stage \in { "output", "write" } /\ stage' = "exited" /\ exit_code' = 1 /\ file' = file
        /\ UNCHANGED << fpc, all_insns, func_starts, symbols >>
    BY <1>4 DEF CreateFails, WriteFails, Exit, fvars
  <2>2. fpc = "done"
    BY <2>1 DEF IInv, StageInv
  <2>3. /\ Progress = IF stage = "write" THEN "writing" ELSE "discovered"
        /\ Progress' = "over"
    BY <2>1, <2>2 DEF Progress, Discovered
  <2>4. ImageFound' = ImageFound /\ FileSeen' = FileSeen
    BY <2>1 DEF ImageFound, Discovered, FileSeen
  <2>. QED BY <2>1, <2>3, <2>4 DEF Kept, D!Fail, D!FailToWrite
<1>5. CASE CreateFile
  <2>1. /\ stage = "output" /\ stage' = "write" /\ file' = PartOfFile
        /\ UNCHANGED << exit_code, fpc, all_insns, func_starts, symbols >>
    BY <1>5 DEF CreateFile, fvars
  <2>2. fpc = "done"
    BY <2>1 DEF IInv, StageInv
  <2>3. Progress = "discovered" /\ Progress' = "writing"
    BY <2>1, <2>2 DEF Progress, Discovered
  <2>4. ImageFound' = ImageFound
    BY <2>1 DEF ImageFound, Discovered
  <2>5. FileSeen' = D!PartOfFile
    BY <2>1 DEF FileSeen, PartOfFile, D!PartOfFile
  <2>. QED BY <2>1, <2>3, <2>4, <2>5 DEF Kept, D!Create
<1>6. CASE WriteFile
  <2>1. /\ stage = "write" /\ stage' = "exited" /\ exit_code' = 0 /\ file'.content = "complete"
        /\ UNCHANGED << fpc, all_insns, func_starts, symbols >>
    BY <1>6 DEF WriteFile, Exit, fvars, NewFile
  <2>2. Progress = "writing" /\ Progress' = "over"
    BY <2>1 DEF Progress
  <2>3. ImageFound' = ImageFound
    BY <2>1 DEF ImageFound, Discovered
  <2>4. FileSeen'.content = "complete"
    BY <2>1 DEF FileSeen, NewFile
  <2>. QED BY <2>1, <2>2, <2>3, <2>4 DEF Kept, Delivered
<1>7. CASE ParseArgs \/ FrontendDone \/ CfgsDone \/ LiftDone \/ EmitCReturns
             \/ CallBuildCfg \/ RunBuildCfg \/ BuildCfgReturns
             \/ CallLiftFunction \/ RunLiftFunction \/ LiftFunctionReturns \/ RunEmitC
             \/ Exited \/ UNCHANGED vars
  <2>1. /\ UNCHANGED << fpc, all_insns, func_starts, symbols, exit_code, file >>
        /\ \/ stage' = stage
           \/ stage \notin { "write", "exited" } /\ stage' \notin { "write", "exited" }
    BY <1>7 DEF ParseArgs, FrontendDone, CfgsDone, LiftDone, EmitCReturns, CallBuildCfg, RunBuildCfg,
      BuildCfgReturns, CallLiftFunction, RunLiftFunction, LiftFunctionReturns, RunEmitC, Exited,
      vars, mvars, fvars
  <2>2. Progress' = Progress
    BY <2>1 DEF Progress, Discovered
  <2>. QED BY <2>1, <2>2, NothingSeen
<1>. QED BY <1>1, <1>2, <1>3, <1>4, <1>5, <1>6, <1>7 DEF Next

LEMMA InitKept == Init => D!Init /\ ArgsInv
<1>. SUFFICES ASSUME Init PROVE D!Init /\ ArgsInv
  OBVIOUS
<1>1. /\ stage = "args" /\ fpc = "load" /\ exit_code = NoCode /\ file = OldFile
  BY DEF Init, F!Init
<1>2. ImageFound = D!EmptyImage /\ Progress = "loading"
  BY <1>1 DEF ImageFound, Discovered, Progress, D!EmptyImage
<1>3. FileSeen = D!OldFile
  BY <1>1 DEF FileSeen, OldFile, D!OldFile
<1>. QED BY <1>1, <1>2, <1>3 DEF D!Init, ArgsInv, NoCode, D!NoCode
=============================================================================
