------------------------------ MODULE Pipeline ------------------------------
(***************************************************************************)
(* main: the four stages of dEXE run one after the other, each on what the *)
(* one before it has left.                                                 *)
(*                                                                         *)
(* The stages are the modules Frontend, Cfg, Lift and Backend, whole.      *)
(* build_cfg runs once for every function and lift_function once for every *)
(* graph; the variables of these stages are those of the call in progress, *)
(* and pc "idle" is between two calls.                                     *)
(***************************************************************************)
EXTENDS Insn, FiniteSets

CONSTANTS
  Binaries,         \* the files to run on
  NoName            \* a symbol name that is empty or cannot be read

VARIABLES
  \* main
  stage,            \* how far the program is
  exit_code,        \* NoCode while it runs
  file,             \* the output file
  cfgs,             \* the graphs
  ir_functions,     \* the lifted functions
  \* load_binary, discover_functions
  binary, fpc, text, symbols, fidx, all_insns, func_starts, pending, functions,
  \* build_cfg
  func, cpc, cidx, leaders, leader_vec, addr_to_block, current_block,
  block_insns, blocks, edges, entry_block,
  \* lift_function
  cfg, lpc, blk, lidx, versions, ir_instructions, ir_blocks,
  \* emit_c
  program, bpc, extern_targets, extern_names, declared_names, todo, externs,
  forwards, bodies, lines

F == INSTANCE Frontend WITH pc <- fpc, idx <- fidx
C == INSTANCE Cfg WITH Funcs <- {}, pc <- cpc, idx <- cidx
L == INSTANCE Lift WITH Cfgs <- {}, pc <- lpc, idx <- lidx
B == INSTANCE Backend WITH Programs <- {}, pc <- bpc

\* What the object crate reports of a file (Frontend).
ASSUME FilesAssumption == \A x \in Binaries : F!IsBinary(x)

mvars == << stage, exit_code, file, cfgs, ir_functions >>

fvars == << binary, fpc, text, symbols, fidx, all_insns, func_starts, pending, functions >>

cvars == << func, cpc, cidx, leaders, leader_vec, addr_to_block, current_block,
            block_insns, blocks, edges, entry_block >>

lvars == << cfg, lpc, blk, lidx, versions, ir_instructions, ir_blocks >>

bvars == << program, bpc, extern_targets, extern_names, declared_names, todo, externs,
            forwards, bodies, lines >>

vars == << mvars, fvars, cvars, lvars, bvars >>

-----------------------------------------------------------------------------
(* The output file.                                                        *)

NoCode == -1

OldFile == [content |-> "old", unit |-> << >>]

PartOfFile == [content |-> "partial", unit |-> << >>]

NewFile(unit) == [content |-> "complete", unit |-> unit]

c_source == [externs |-> externs, forwards |-> forwards, bodies |-> bodies]

-----------------------------------------------------------------------------
(* Data that goes from one stage to the next.                              *)

EmptyMap == [ x \in {} |-> x ]

NoFunction == [start_addr |-> 0, instructions |-> << >>]

NoProgram == [functions |-> << >>, symbols |-> EmptyMap]

\* The instructions of a discovered function: a run of the decoded ones.
InsnsOf(f) ==
  LET P     == functions[f].instructions
      first == CHOOSE i \in P : \A j \in P : i <= j
  IN  [ k \in 1 .. Cardinality(P) |-> all_insns[first + k - 1] ]

FunctionToBuild(f) == [start_addr |-> functions[f].start_addr, instructions |-> InsnsOf(f)]

\* What lift_function walks over: the blocks by their ids, which count from 0.
GraphBuilt ==
  [ k \in 1 .. Cardinality(DOMAIN blocks) |->
      LET b == blocks[k - 1]
      IN  [ start_addr   |-> b.start_addr,
            instructions |-> [ j \in DOMAIN b.instructions |-> func.instructions[b.instructions[j]] ] ] ]

\* A lifted function keeps the name and the start of its graph.
FunctionLifted(k) ==
  [name |-> functions[k].name, addr |-> functions[k].start_addr, blocks |-> ir_blocks]

-----------------------------------------------------------------------------
(* The command line, and the frontend.                                     *)

Init ==
  /\ F!Init
  /\ stage = "args" /\ exit_code = NoCode /\ file = OldFile
  /\ cfgs = << >> /\ ir_functions = << >>
  /\ func = NoFunction /\ cpc = "idle" /\ cidx = 1 /\ leaders = {} /\ leader_vec = << >>
  /\ addr_to_block = EmptyMap /\ current_block = 0 /\ block_insns = EmptyMap
  /\ blocks = EmptyMap /\ edges = << >> /\ entry_block = 0
  /\ cfg = << >> /\ lpc = "idle" /\ blk = 1 /\ lidx = 1 /\ versions = [ b \in L!VarBase |-> 0 ]
  /\ ir_instructions = << >> /\ ir_blocks = << >>
  /\ program = NoProgram /\ bpc = "idle" /\ extern_targets = {} /\ extern_names = {}
  /\ declared_names = {} /\ todo = {} /\ externs = << >> /\ forwards = << >>
  /\ bodies = << >> /\ lines = << >>

Exit(code) == stage' = "exited" /\ exit_code' = code

\* Help or the version is asked for, or an option is missing or unknown.
ArgsEndRun ==
  /\ stage = "args"
  /\ Exit(0) \/ Exit(2)
  /\ UNCHANGED << file, cfgs, ir_functions, fvars, cvars, lvars, bvars >>

ParseArgs ==
  /\ stage = "args"
  /\ stage' = "frontend"
  /\ UNCHANGED << exit_code, file, cfgs, ir_functions, fvars, cvars, lvars, bvars >>

RunFrontend ==
  /\ stage = "frontend"
  /\ fpc \notin { "done", "failed" }
  /\ F!Next
  /\ UNCHANGED << mvars, cvars, lvars, bvars >>

FrontendFailed ==
  /\ stage = "frontend"
  /\ fpc = "failed"
  /\ Exit(1)
  /\ UNCHANGED << file, cfgs, ir_functions, fvars, cvars, lvars, bvars >>

FrontendDone ==
  /\ stage = "frontend"
  /\ fpc = "done"
  /\ stage' = "cfg"
  /\ UNCHANGED << exit_code, file, cfgs, ir_functions, fvars, cvars, lvars, bvars >>

-----------------------------------------------------------------------------
(* A graph for every function.                                             *)

CallBuildCfg ==
  /\ stage = "cfg"
  /\ cpc = "idle"
  /\ Len(cfgs) < Len(functions)
  /\ func' = FunctionToBuild(Len(cfgs) + 1)
  /\ cpc' = "start" /\ cidx' = 1 /\ leaders' = {} /\ leader_vec' = << >>
  /\ addr_to_block' = EmptyMap /\ current_block' = 0 /\ block_insns' = EmptyMap
  /\ blocks' = EmptyMap /\ edges' = << >> /\ entry_block' = 0
  /\ UNCHANGED << mvars, fvars, lvars, bvars >>

RunBuildCfg ==
  /\ stage = "cfg"
  /\ cpc \notin { "idle", "done" }
  /\ C!Next
  /\ UNCHANGED << mvars, fvars, lvars, bvars >>

BuildCfgReturns ==
  /\ stage = "cfg"
  /\ cpc = "done"
  /\ cfgs' = Append(cfgs, GraphBuilt)
  /\ cpc' = "idle"
  /\ UNCHANGED << stage, exit_code, file, ir_functions, fvars, func, cidx, leaders,
                  leader_vec, addr_to_block, current_block, block_insns, blocks, edges,
                  entry_block, lvars, bvars >>

\* Variant for mutation: the last function gets no graph.
CfgsDoneEarly ==
  /\ stage = "cfg"
  /\ cpc = "idle"
  /\ Len(cfgs) + 1 >= Len(functions)
  /\ stage' = "lift"
  /\ UNCHANGED << exit_code, file, cfgs, ir_functions, fvars, cvars, lvars, bvars >>

CfgsDone ==
  /\ stage = "cfg"
  /\ cpc = "idle"
  /\ Len(cfgs) >= Len(functions)
  /\ stage' = "lift"
  /\ UNCHANGED << exit_code, file, cfgs, ir_functions, fvars, cvars, lvars, bvars >>

-----------------------------------------------------------------------------
(* IR for every graph.                                                     *)

CallLiftFunction ==
  /\ stage = "lift"
  /\ lpc = "idle"
  /\ Len(ir_functions) < Len(cfgs)
  /\ cfg' = cfgs[Len(ir_functions) + 1]
  /\ lpc' = "block" /\ blk' = 1 /\ lidx' = 1 /\ versions' = [ b \in L!VarBase |-> 0 ]
  /\ ir_instructions' = << >> /\ ir_blocks' = << >>
  /\ UNCHANGED << mvars, fvars, cvars, bvars >>

RunLiftFunction ==
  /\ stage = "lift"
  /\ lpc \notin { "idle", "done" }
  /\ L!Next
  /\ UNCHANGED << mvars, fvars, cvars, bvars >>

LiftFunctionReturns ==
  /\ stage = "lift"
  /\ lpc = "done"
  /\ ir_functions' = Append(ir_functions, FunctionLifted(Len(ir_functions) + 1))
  /\ lpc' = "idle"
  /\ UNCHANGED << stage, exit_code, file, cfgs, fvars, cvars, cfg, blk, lidx, versions,
                  ir_instructions, ir_blocks, bvars >>

\* All functions are lifted: emit_c is called.
LiftDone ==
  /\ stage = "lift"
  /\ lpc = "idle"
  /\ Len(ir_functions) >= Len(cfgs)
  /\ stage' = "emit"
  /\ program' = [functions |-> ir_functions, symbols |-> symbols]
  /\ bpc' = "collect"
  /\ UNCHANGED << exit_code, file, cfgs, ir_functions, fvars, cvars, lvars,
                  extern_targets, extern_names, declared_names, todo, externs, forwards,
                  bodies, lines >>

-----------------------------------------------------------------------------
(* The text, and the output file.                                          *)

RunEmitC ==
  /\ stage = "emit"
  /\ bpc # "done"
  /\ B!Next
  /\ UNCHANGED << mvars, fvars, cvars, lvars >>

EmitCReturns ==
  /\ stage = "emit"
  /\ bpc = "done"
  /\ stage' = "output"
  /\ UNCHANGED << exit_code, file, cfgs, ir_functions, fvars, cvars, lvars, bvars >>

(* fs::write creates or truncates the file and then writes all of it; the
   one and the other can fail.                                             *)
CreateFails ==
  /\ stage = "output"
  /\ Exit(1)
  /\ UNCHANGED << file, cfgs, ir_functions, fvars, cvars, lvars, bvars >>

CreateFile ==
  /\ stage = "output"
  /\ file' = PartOfFile
  /\ stage' = "write"
  /\ UNCHANGED << exit_code, cfgs, ir_functions, fvars, cvars, lvars, bvars >>

\* Variant for mutation: a write that failed is tried again.
RetryWrite ==
  /\ stage = "write"
  /\ stage' = "output"
  /\ UNCHANGED << exit_code, file, cfgs, ir_functions, fvars, cvars, lvars, bvars >>

WriteFails ==
  /\ stage = "write"
  /\ Exit(1)
  /\ UNCHANGED << file, cfgs, ir_functions, fvars, cvars, lvars, bvars >>

WriteFile ==
  /\ stage = "write"
  /\ file' = NewFile(c_source)
  /\ Exit(0)
  /\ UNCHANGED << cfgs, ir_functions, fvars, cvars, lvars, bvars >>

Exited == stage = "exited" /\ UNCHANGED vars

Next ==
  \/ ArgsEndRun \/ ParseArgs
  \/ RunFrontend \/ FrontendFailed \/ FrontendDone
  \/ CallBuildCfg \/ RunBuildCfg \/ BuildCfgReturns \/ CfgsDone
  \/ CallLiftFunction \/ RunLiftFunction \/ LiftFunctionReturns \/ LiftDone
  \/ RunEmitC \/ EmitCReturns
  \/ CreateFails \/ CreateFile \/ WriteFails \/ WriteFile
  \/ Exited

Spec == Init /\ [][Next]_vars

\* The program is one thread that runs to its end.
FairSpec == Spec /\ WF_vars(Next)

-----------------------------------------------------------------------------
(* The promise: the module Decompiler, with what a stage has found, how far
   the program is, and of the C lines what Decompiler says of them.        *)

LineSeen(line) ==
  CASE line.kind \in { "label", "goto", "if" } -> [kind |-> line.kind, addr |-> line.addr]
    [] line.kind = "call" -> [kind |-> "call", callee |-> line.callee, args |-> line.args]
    [] OTHER              -> [kind |-> line.kind]

BodySeen(body) ==
  [name |-> body.name, lines |-> [ i \in DOMAIN body.lines |-> LineSeen(body.lines[i]) ]]

FileSeen ==
  IF file.content = "complete"
    THEN NewFile([ f \in DOMAIN file.unit.bodies |-> BodySeen(file.unit.bodies[f]) ])
    ELSE file

\* The image is known when the starts are.
Discovered == fpc \in { "slice", "done" }

ImageFound ==
  IF Discovered
    THEN [code |-> all_insns, starts |-> func_starts, symbols |-> symbols]
    ELSE [code |-> << >>, starts |-> {}, symbols |-> << >>]

Progress ==
  CASE stage = "exited" -> "over"
    [] stage = "write"  -> "writing"
    [] OTHER            -> IF Discovered THEN "discovered" ELSE "loading"

D == INSTANCE Decompiler WITH image <- ImageFound, progress <- Progress, file <- FileSeen

-----------------------------------------------------------------------------
(* Properties.                                                             *)

\* Types of the variables of main: a stage runs only when those before it have
\* run to their end.
TypeOK ==
  /\ stage \in { "args", "frontend", "cfg", "lift", "emit", "output", "write", "exited" }
  /\ exit_code \in { NoCode, 0, 1, 2 }
  /\ stage = "exited" <=> exit_code # NoCode
  /\ stage \in { "cfg", "lift", "emit", "output", "write" } => fpc = "done"
  /\ stage \in { "lift", "emit", "output", "write" } => Len(cfgs) = Len(functions)
  /\ stage \in { "emit", "output", "write" } => Len(ir_functions) = Len(functions)
  /\ stage = "write" => bpc = "done" /\ Len(bodies) = Len(functions)

\* Each stage gets what it takes for granted, which the theorems about it
\* assume: a function whose instructions ascend from its start, a graph of
\* blocks that ascend, functions in address order with names and blocks.
StageInputs ==
  /\ C!DisassembledFunction(func)
  /\ cfg \in Seq(L!BasicBlock) /\ L!Ascends(cfg)
  /\ B!IsProgram(program)

\* The calls of a function whose target is written in the instruction, and
\* the lines of its body that call without arguments.
DirectCalls(f) ==
  { k \in DOMAIN InsnsOf(f) :
      LET insn == InsnsOf(f)[k]
      IN  IsCall(insn) /\ insn.op_str # << >> /\ insn.op_str[1].kind = "imm" }

DirectCallLines(f) ==
  { i \in DOMAIN bodies[f].lines : bodies[f].lines[i].kind = "call" /\ bodies[f].lines[i].args = 0 }

\* Body g opens with a label of this address.
OpensAt(g, addr) == bodies[g].lines[1].kind = "label" /\ bodies[g].lines[1].addr = addr

\* Through all stages: the direct calls of a function in the binary are the
\* direct calls of its body in the C, one for one and in the same order, and
\* if the target of one was decoded, the C has a function of the name that it
\* calls which begins with the label of the target.
CallsLand ==
  file.content = "complete" =>
    \A f \in DOMAIN functions : \E at \in [ DirectCalls(f) -> DirectCallLines(f) ] :
      /\ { at[k] : k \in DirectCalls(f) } = DirectCallLines(f)
      /\ \A j, k \in DirectCalls(f) : j < k => at[j] < at[k]
      /\ \A k \in DirectCalls(f), i \in DOMAIN all_insns :
           parse_hex_target(InsnsOf(f)[k].op_str) = all_insns[i].addr =>
             \E g \in DOMAIN bodies :
               /\ bodies[g].name = bodies[f].lines[at[k]].callee
               /\ OpensAt(g, all_insns[i].addr)

\* The stages together keep the promise of Decompiler: the file is what the
\* image calls for, line by line, it is delivered only with exit code 0, and a
\* run that fails leaves the old file or, while it writes, a part of the new.
KeepsPromise == D!Spec

\* Every run ends, with one exit code or another.
Termination == <>(stage = "exited")
=============================================================================
