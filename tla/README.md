# TLA+ model of dEXE

dEXE reads an x86-64 ELF or PE binary and writes a C99 file. It is one
sequential program of four stages, each a pure function of the result of the one
before it:

```
file --load_binary--> BinaryInfo --discover_functions--> [DisassembledFunction]
     --build_cfg--> [ControlFlowGraph] --lift_function--> [IRFunction] --emit_c--> C99 text
```

There are no threads, no messages, and nothing is persisted but the output
file. What is hard to get right is data flow over many steps: the order in which
passes run, what an earlier pass leaves for a later one, ids that must follow
addresses, what is read before and what after an update, and inputs that are
unlike what the author had in mind (targets between instructions, code that
ends without a return, undecodable bytes).

## Inventory

| component | source | state it keeps | operations | hard parts | what makes it correct |
|---|---|---|---|---|---|
| frontend | `src/src/frontend.rs` | `SymbolTable`, `all_insns`, `func_starts`, `functions` | `load_binary`, `find_text_section`, `discover_functions` | first match among sections, errors, linear sweep that can stop early, four sources of starts, cutting at the next start | functions tile the decoded text; a decoded call target begins a function; what `build_cfg` gets is a nonempty contiguous stretch |
| cfg | `src/src/cfg.rs` | `leaders`, `addr_to_block`, `block_insns`, `blocks`, `edges` | `build_cfg` | targets backward, between and outside instructions; `id + 1`; two records of the edges | blocks partition the function, are straight-line and maximal; edges are the control flow; terminators agree with edges |
| ir | `src/src/ir.rs` | `versions`, `ir_instructions`, `ir_blocks` | `lift_function` with an arm per mnemonic, operand parsing | read before or after the new version; arm order; instructions that become two | versions are assigned once, densely and in order; reads see the latest version of an earlier instruction; no instruction is lost |
| backend | `src/src/backend.rs` | the output text, declared names | `emit_c`, `emit_function`, `emit_instruction`, `resolve_call_name`, `sanitise_c_ident` | labels of other functions, name collisions, the simulated stack and flags | the unit compiles; the C does what the machine code does |
| main | `src/src/main.rs` | the results of the stages, the output file | `Args::parse`, the stages in order, exit codes, the write | an error in a stage, a failing write | each stage gets what it takes for granted; output is written only after all stages; exit code 0 means a complete file |
| not the program | `src/examples`, `src/manifests`, `*.c` | | | | example inputs and outputs, package metadata |

Shared between components: `DisassembledInsn` (frontend to cfg to ir), the
`SymbolTable` (frontend to backend), `BlockId` (cfg to ir), and the classes of
mnemonics. Interaction is by calls and return values only.

## Modules

| module | models | proofs | TLC |
|---|---|---|---|
| `Insn` | `DisassembledInsn`, operand strings, `parse_hex_target`, mnemonic classes of `cfg.rs` | | |
| `Cfg` | `build_cfg` | `CfgProofs` | `MCCfg` |
| `Frontend` | `load_binary`, `find_text_section`, `discover_functions` | `FrontendProofs` | `MCFrontend` |
| `Lift` | `lift_function` and its helpers | `LiftProofs` | `MCLift`, `MCLiftEffect` |
| `Names` | function names, stub names, `sanitise_c_ident` | | |
| `Backend` | `emit_c`, `emit_function`, `emit_instruction`, `resolve_call_name` | `BackendProofs` | `MCBackend` |
| `Decompiler` | nothing of the code: what a run of dEXE promises, without its stages | `PipelinePromiseProofs` | as a property of `MCPipeline` |
| `Pipeline` | `main`, with `Frontend`, `Cfg`, `Lift` and `Backend` as instances | `PipelineStageProofs`, `PipelineLiftProofs`, `PipelinePromiseProofs` | `MCPipeline` |
| `Effect` | what an x86-64 instruction does, and what a C statement that `emit_instruction` writes does | | |
| `LiftEffect` | `Lift` with `Effect`: the IR of an instruction beside its meaning | `EffectProofs` | `MCLiftEffect` (extends `MCLift`) |
| `Machine` | the text executed, and the C of a unit executed | | `MCMachine` |

Variables have the names of the code's locals, actions those of its functions or
of the loop body they stand for; a loop is modelled iteration by iteration. `pc`
is the place in the function. A definition whose comment begins with "Variant
for mutation" is a plausible bug in the definition after it; nothing uses it but
the mutation runs that `PROJECT.json` lists.

**Insn.** An operand string is the sequence of its operands, each a record with
what the parsers can find out: a register name in any width, an immediate, or a
memory operand with base, index, scale and displacement. Mnemonics keep their
names because the code matches on them. The spellings of conditions that
capstone does not produce (`jc`, `cmovnge`, ...) are left out.

**Cfg.** The four passes are `ScanInsn`, `NumberLeader`, `DealInsn` and
`ClassifyBlock`, one iteration each. Nothing in the actions says that ids follow
addresses or that no block is empty; that is what the properties establish.
`FlowSucc` is the control flow of the machine code, read off one instruction.

**Frontend.** A binary is what the object crate reports of it. The bytes of a
section are the instructions in them with their offsets; bytes that are no
instruction are a unit with the mnemonic `Bad`. `Disassemble` is the linear
sweep of capstone, which ends before the first such unit. Capstone can also fail
outright (`DisasmFails`). Functions hold the positions of their instructions.

**Lift.** One action per arm of the match. The order of the arms is in the
guards: `PLAIN_ARMS` are those above the arm for the lock prefix, `LateArm` is
for those below. An IR instruction is its opcode, the variable it defines
(`NoVar` if none) and the operands it reads. `parse_single_operand` takes the
version map as a parameter, because some arms read before and some after they
take the new version.

**Names, Backend.** A name is the sequence of its parts, runs of letters and
digits or single other characters, so that two names can become one identifier.
The C text is what a compiler makes of it: extern declarations (identifier and
type), forward declarations, and for each function its lines (labels, gotos,
calls, returns, opaque statements). The collecting pass, each of the three
declaring loops and the loop over the blocks are actions of their own. The blocks
of a lifted function ascend with their ids already, so the sort of `emit_function`
has nothing to do; it is not exercised. A
prototype is the number of its parameters, whether there can be more, and
whether it returns an integer, a pointer or nothing.

**Decompiler.** The abstract specification. Its state is the image of the binary
(the decoded instructions, the starts of functions, the symbols), how far the
run is, the exit code and the output file. It has no stages: `IsUnit(img, bodies)`
says in closed form what the file of an image is. A function is the instructions
from its start to the next start, and it is at the place of its start among the
starts. Each instruction becomes a chunk of lines: a label if control can enter
there from elsewhere (`Enterable`), and what the instruction itself becomes
(`Lines`). A jump that `build_cfg` does not know (`jrcxz`, `loop`) and a jump through
a register or memory make no label: their targets have one only if they have it
for another reason. `IsBody` says that the chunk of an instruction is as many lines down as
the instructions above it become (`Height`), and that a return follows the last
one. Calls are named by symbol, by address if there is a function, or as a stub.
All of this is a relation and not a construction, so that it can be reasoned
about without induction; it determines the unit all the same. A file is delivered
only by the step that sets exit code 0; a failing run leaves the old file or a
part of the new one.

**Pipeline.** `F`, `C`, `L` and `B` are the stage modules with their variables;
`stage` is where `main` is. `RunFrontend`, `RunBuildCfg`, `RunLiftFunction` and
`RunEmitC` take a whole step of a stage; the actions around them are the calls
and returns, with the data that is handed on (`FunctionToBuild`, `GraphBuilt`,
`FunctionLifted`). `fs::write` is two steps, because the file is truncated
before it is written, and either can fail. The refinement mapping to
`Decompiler`: the image is what discovery has found once the starts are known
(`ImageFound`), the progress is read off `stage` (`Progress`), and of the C lines
only what a jump or a call can tell apart is kept (`LineSeen`). Every step of a
stage is a stutter of `Decompiler` but the one that completes `func_starts`
(`Discover`), the exits, and the two steps of the write.

**Effect.** Operators without variables. A state of the machine has its
registers, memory and flags; a state of the C has the fields of `cpu` and memory.
The first half is x86-64: the value of an operand, the place it names, and for
each kind of instruction the state after it. The second half is the C: the
expressions (`emit_operand`, `build_mem_addr_expr`, `get_cond_expr`) have their
values, the statements the state after them (`AfterAssign`, `AfterPush`, ...).
Words have `W` bits and the bitwise operators are constants, so that theorems can
be about them. Followed are the instructions with the operands that their
mnemonics take (`FollowedForm`), with full-width registers and scales of 1, 2, 4
and 8, and shifts by less than a word; not `ret n`.

The translation does not carry everything over. `DepartsBy` lists nine ways in
which the C of an instruction departs from it, each with the condition under
which it does; `Machine` adds two that lie in where control goes (`GoesBy`):

| departure | what the C does | code |
|---|---|---|
| `stack` | rsp is used after a call has come back: the return address is still on the stack, until rsp is loaded anew | `backend.rs:335`, `:352` |
| `store` | the result of an arithmetic instruction or pop on memory goes to RAX | `ir.rs:454`, `:583` |
| `flags` | a condition that `cpu.rflags` does not hold: after other instructions than cmp and test, a signed one after test, the sign flag | `backend.rs:292-304`, `:530` |
| `rip` | a rip-relative address is a small constant | `ir.rs:346` |
| `push` | the operand of push (pop) is evaluated after (before) rsp has changed | `backend.rs:354-364` |
| `sign` | sar shifts in zeros | `ir.rs:465` |
| `wide` | RDX is not assigned by mul | `ir.rs:533` |
| `overflow` | `-(int64_t)x` of the most negative word is undefined, where neg gives that word again | `backend.rs:278` |
| `unlifted` | xchg, one-operand imul, and neg or not of memory, do nothing | `ir.rs:698`, `:439`, `:814` |
| `trap` | a trap below the first function returns to its caller | `ir.rs:708` |
| `fall` | a function that runs on into the next one returns | `backend.rs:219` |

**LiftEffect.** Extends `Lift` and `Effect`, and has no variables of its own.
`EffectKept` is an action property of the lifter. Two states agree (`Agrees`) if
registers and memory are the same, but rsp only until a call has come back, and if
`cpu.rflags` holds the last comparison, if there was one. Whenever `lift_function`
takes an instruction, then from every two states of `Pairs` that agree, if the
instruction is followed and does not depart, the statements that become of the IR
which this step adds lead to a state that agrees with the one the instruction
leads to; the C goes the same way (the condition of a jump, its two targets, the
callee and the return address of a call); and it does nothing that C leaves
undefined: no shift by the width of a word or more, no negation of the most
negative word. `DamageConfined` is about the instructions that depart. From the
same pairs, the C leaves wrong at most the registers that `WrongRegisters` names
for the departure (RAX in place of memory, RDX for a mul, otherwise the destination),
writes memory only where a mov, push or call does, keeps what `cpu.rflags` says, and
can go only where the machine can. It says nothing of statements that C leaves
undefined, nor of what a mov, push or call stores where its operands depart.

**Machine.** Extends `Pipeline` and `Effect`. When a run has delivered a unit that
a C compiler takes, the decoded text is executed from the first function (variable
`m`), and then the C (variable `c`: the globals of the unit, memory, the line, the
callers), from the same registers. `SameEffect` compares registers and memory when
both have come to their end. `departs` is how the instructions executed depart.
The constant `Tolerated` is the departures of the executions that are compared:
none in the run `machine`. Each of the eleven, tolerated alone, makes TLC find a
program with another effect, so none is in the list in vain; for the two that
touch nearly every real program, `stack` and `store`, there is the run
`machine_departs`, whose behaviour shows both.

## Runs

| run | expects | shows |
|---|---|---|
| `cfg` | pass | safety of `build_cfg` on every function of up to 4 instructions |
| `frontend` | pass | safety of loading and discovery |
| `lift` | pass | safety of the lifter; for one instruction at a time, the C of its IR has its effect, or departs from it no further than is listed |
| `backend` | pass | what is called is declared, once or consistently, and is the function at the target; blocks are in address order |
| `cfg_jrcxz` | violation | `jrcxz` and `loop` do not end a block |
| `frontend_sweep` | violation | a decodable instruction behind undecodable bytes is not disassembled |
| `pipeline` | pass | the whole program: each stage gets what it assumes, direct calls land, every run ends, and `Decompiler` is implemented |
| `machine` | pass | the C does what the machine code does, where no departure is met |
| `lift_lock` | violation | a locked add is not lifted to an atomic operation |
| `lift_ssa` | violation | a load of a register from an address in that register reads the version it defines |
| `backend_compiles` | violation | the unit need not be compilable C |
| `machine_departs` | violation | after a call the stack pointer of the C is off by eight; arithmetic on memory is lost |

Bounds. In `cfg`, four instructions give up to four blocks, so that a middle
block has a predecessor and a successor, jumps go backward, forward, to
themselves, between instructions (11) and out of the function (30), and every
kind of terminator occurs in a first, a middle and the last block. In
`frontend`, three units of two bytes with two symbols (on, between and outside
the instructions) give up to four starts; the other binaries make
`find_text_section` take each of its exits. In `lift`, all pairs from a menu
with every arm and every shape of operand, and all sequences of four from a core
whose operands meet in rax, rbx, rsp and rbp; two-block graphs for the reset of
the versions. For `EffectKept`, besides these, every mnemonic that is followed with
every choice of a register, rsp, immediate or memory operand that it takes (606
instructions, those that depart among them), and 32 pairs of states: a register
below another and above it, and the other way round with sign, memory empty and
not, after each outcome of a comparison, and with rsp lost or not. In `backend`,
two functions, the first with two blocks and so with two calls, under every choice of symbols for both functions and two addresses
that are not emitted: names that differ only in punctuation, that begin with a
digit, that are empty, that are names of the libc. Two calls are the least that
can meet in the sets of names; a third name adds no case, since declarations are
compared in pairs. In `pipeline`, texts of up to two instructions from a menu with every
kind of control flow, and of up to four from the jumps and calls that cross each
other, so that a function in the middle has neighbours and blocks of its own,
under four symbol tables (none, a name and a libc name, a symbol in the middle
of an instruction, two names that become one identifier); unreadable,
unparsable and sectionless files for the exits. In `machine`, words of six bits:
enough for the addresses of the text and of a few stack slots to be different,
and for signed and unsigned order to differ. The inputs are chosen so that rax
and rbx are equal, ordered differently with and without sign, and have a
difference that overflows. All pairs from 36 instructions, every condition after
every comparison as a jump and as a move, loops, calls with and without frames,
two levels deep. Executions are followed for 24 instructions, and the C for four
times as many lines; the longest that ends has 17 instructions. There is no type
invariant of its own in `Machine`: its operators are partial, and TLC stops where
a value is not what they take. `Effect` has no variables, and `LiftEffect` only
those of `Lift`.

Fairness. Each stage is a single thread without blocking calls, so weak fairness
of the whole next-state relation is what the scheduler of the machine gives it.
It is assumed for `Termination` of `Pipeline` only: every path of `main`, the
error paths included, ends with an exit code. The stages alone state no
liveness: each is a chain of `for` loops over vectors that are finished before.
Deadlock is checked everywhere: the end of a stage is the explicit step
`Terminated`.

## Proofs

The theorems hold for every value of the constants, that is for every function,
binary, graph and program that meets the assumption of the module. About
binaries, which come from outside, the assumption (`BinariesAssumption`,
`FilesAssumption`) is what the object crate and the sweep give: the units of a
section lie one behind the other inside it, and names are sequences. What a stage
assumes of the result of the one before it is no assumption of the project but
the theorem `StageInputsCorrect`: addresses of a function ascend and do not lie
before its start (`FuncsAssumption`), a graph is a sequence of blocks that ascend
(`CfgsAssumption`, `CfgsAscend`), the blocks of a program are sequences and no two
of a function start at one address (`ProgramsAssumption`). Of arithmetic it is taken
that powers of two are positive naturals and 2^W is even (`WordAssumption`), and
that a bitwise operator applied to words gives a word (`BitwiseAssumption`); `Pairs`
is any set of states of machine and C (`PairsAssumption`).

- `CfgProofs`. The properties speak of the finished graph; the inductive
  invariant is stated pass by pass. While leaders are numbered, what is numbered
  is ascending and below everything that is not; while instructions are dealt,
  the blocks up to the current one are consecutive stretches that end at the
  instruction before the next one to be dealt, and the current block is the one
  with the greatest leader not beyond it; while blocks are classified, the edges
  and terminators are right for the blocks passed. Type correctness and all six
  safety properties of the run follow.
- `FrontendProofs`. The invariant says where decoded instructions lie and that
  they ascend, that call targets are among the starts, and what the cutting loop
  has covered: every decoded instruction that has a start at or before it and
  lies below all starts still pending. That there is a least later start is by
  well-founded induction on the naturals (`LeastExists`).
- `BackendProofs`. The invariant relates the declaring loops to the sets of
  names they walk over: what a loop has passed has a declaration, libc names are
  declared before the stub loop looks for them, and forward declarations are
  those of the functions. `EmittedBlockKnown` shows that `resolve_call_name`, in
  each of its three cases, answers with one of these. That declarations agree
  rests on `LibcIdentsAreLibcNames`: no name but that of a libc function itself
  becomes its identifier. Assumed: functions, blocks, instructions and names are
  sequences (`ProgramsAssumption`).
  The text is written front to back, and the two properties about the bodies do
  not speak of a text that is not finished. `Holds` says of the lines of a part of
  a body that their labels are those of the blocks emitted so far, each once, in
  address order, with the lines of the block behind it; `BodyInv` says it of the
  body in progress and of every finished one. For `CallsReachFunctions` it is
  needed that a label identifies a block (`LabelUnique`), which is where the
  distinct starts of the blocks come in, and that `resolve_call_name` gives the
  name of the function at an address, if there is one.
- `LiftProofs`. Lemma `ArmShape` reduces the 21 arms to three cases: emit IR
  that defines nothing, define the next version of one register, or `leave`,
  which defines two. `Versioned(irs, vs)` relates the IR of a block to the
  version map: nothing assigned is ahead of the map, assignments of a register
  ascend, none up to the map is missing, and every read was of the latest version
  before it, or of the version that the instruction itself assigns, which only a
  move, load or lea reads (`ReadsLatest`; `LatestBefore` is what the version map
  says of the IR so far).
  `QuietVersioned` and `DefineVersioned` extend it by one instruction, and
  `leave` is two applications.
  `EveryInsnLifted` compares the addresses of the IR of a block with those of its
  instructions. The invariant says it of the part of the block that is lifted:
  what is in the IR ascends (twice the same address only side by side), comes from
  an instruction already passed, and no instruction passed is missing; and there
  is one IR instruction for each, two for a `leave`. Every arm appends one or two
  IR instructions with the address of the instruction at hand, which, as the
  block ascends, is greater than all before.
- `PipelineStageProofs`. First `TypeOK`, which relates how many graphs, lifted
  functions and bodies there are to the stage; no single step shows it. The invariant counts: a
  stage that has not begun has left nothing; a call in progress (`cpc`, `lpc` not
  `idle`, `bpc` in `block`) stands for one result that is still missing, so the
  loop that returns cannot overrun; and the program given to `emit_c` is the
  vector of lifted functions. Of the stages, the proof needs only that discovery
  changes `functions` by appending (`FrontendStep`) and that `emit_c` keeps its
  program and makes one body for each function of it (`BackendStep`); the proof
  holds whatever `build_cfg` and `lift_function` do in between.
  Then `StageInputs`, by assume and guarantee around the
  loops of main: `StagesInv` has the inductive invariants of discovery and of
  `build_cfg` as their own proof modules state and prove them (`FP` and `CP` are
  instances of these with the constants that the stages have here; for
  `build_cfg` the set of arguments is `CfgArguments`, all that it can take), what
  is needed of the lifter (`LiftingInv`), and what has been returned so far. What
  is new are the handovers. `FunctionFits`: what discovery
  delivers is an argument of `build_cfg`, because the positions of a function
  are a stretch of a text that ascends. `GraphFits`: the finished blocks, which
  are consecutive stretches of the function, ascend within and between blocks.
  `LoweredFits`: a lifted block starts where the block of the graph does,
  whichever arms its instructions took (`ArmsAdd`, `LifterStep`). `ProgramFits`:
  so the blocks of a lifted function have distinct starts.
  Last the protocol of `Decompiler` (`NextKept`): every step of main is `Decline`,
  `Discover`, `Fail`, `Create`, `FailToWrite` or a stutter, or it is `Deliver`
  without what the delivered unit says (`Delivered`). That the image is well formed
  when it is found and does not change afterwards needs the invariant of discovery.
- `PipelineLiftProofs`, `PipelinePromiseProofs`. `PromiseKept`: `Spec => D!Spec`, the
  whole refinement, of which what is left is the content of the unit. The
  invariant `PromiseInv` follows a function through the stages, with one part for
  each. `OwnInv` (in `FrontendProofs`): the functions are exactly those starts
  that own instructions, and have the instructions they own. `GraphsInv`: the
  graph of a function cuts its instructions into blocks exactly where `Decompiler`
  puts a label (`Cuts`); this joins the leaders that `build_cfg` finds in one pass
  with the blocks it deals in another (`LeadersOpen`, `GraphCuts`). `IrInv`: the IR
  of a block has, instruction by instruction, what `Means` says of it, one opcode
  or two for a `leave`; there is a lemma for every group of arms, since `Decompiler`
  classifies instructions by what they do and the code by the order of its arms.
  `EmitInv`: the lines of a body tell the instructions of the blocks emitted so
  far in turn (`Told`), and a finished body tells all of them. At the end, `Told`
  gives positions by adding up, `IsBody` by counting the lines above; `Heights`
  shows that they agree (there is no first instruction where they do not), and
  `Ranks` that a start is at the place of its function. `CallsResolve` shows that
  `resolve_call_name`, which looks names up by the lifted functions, names every
  address as the image does.
  `CallsLandCorrect` compares the two ends directly. The direct calls of a function
  are positions among its instructions, the direct calls of a body positions among
  its lines, and `Told` maps the one set onto the other (`ToldCalls`): a direct
  call has the first line behind its label, and a line that calls without
  arguments has an instruction (`LineOwner`), which can only be a direct call
  (`LinesOfCalls`). For the target, a decoded one begins a function
  (`FP!CallTargetsCut`, the invariant of discovery), whose body is told from the
  label of its first instruction (`BodyOpens`) and has the name that
  `resolve_call_name` gives to the call.

- `EffectProofs`. `EffectKept`, for every width of a word, every graph and every
  two states that agree. `Paired` is the relation of the two states, with whether
  rsp is lost. Three facts carry the proof. An operand is read alike on both sides
  (`OperandAgrees`, from `RegisterAgrees` and `AddressAgrees`), unless it reads a lost
  rsp, which is the departure `stack`, or rip, which is `rip`. What is written
  alike on both sides leaves them paired (`PairedReg`, `PairedMem`), and so do flags
  that no comparison has set (`PairedFlags`) and a comparison (`PairedComparison`).
  And the three bits of `cpu.rflags` decide every condition as the flags of the
  machine do (`ComparisonFlags`, `FlagBits`, `Conditions`): less is sign unlike
  overflow because a difference of two signed words is at most one word away
  from the word it becomes (`Difference`, `DifferenceFlags`). Then there is one
  lemma for each group of arms (`MovGood` to `CmovGood`: the opcode has the effect;
  `MovArm` to `LeaveArm`: the arm emits that opcode), and `EveryArm` joins them:
  that no later arm takes a followed instruction is `NoOtherArm`. No inductive
  invariant is new; that the instruction at hand is one of the block's is
  `CoverInvariant` of `LiftProofs`.

Only model-checked:

- `SameEffect`, which compares whole executions. What each instruction contributes
  is the theorem `EffectKeptCorrect`. What is left is control and composition: that
  the line of the C is always in the chunk of the instruction at `m.ip`, through
  calls and returns. For that the machine would have to return where it was
  called from, and nothing in the model keeps a program from overwriting
  its return address; `SameEffect` as it stands says nothing of such programs that
  is true for all of them, and holds of those in the run. It would take a
  twelfth departure;
- `DamageConfined`, which bounds what the departures do;
- `Termination` of `Pipeline`: liveness under fairness is out of the prover's reach;
- the violated properties, which are refuted by one behaviour.

## What the runs found

Seven statements in the code's own comments do not hold of it; each has a run
that exhibits it and an entry under `findings` in `PROJECT.json`: blocks are not
maximal straight-line code around `jrcxz`, the text is not always disassembled
entirely, locked arithmetic is not atomic, the IR is not in SSA form (`mov rax,
[rax+8]` is a load of `rax_1` from `[rax_1+8]`), the C need not compile (gotos
without a label, functions defined or declared twice, calls that do not fit the
prototype), and it does not model the stack across calls nor arithmetic on
memory. That versions start anew in every block, and that a load can read the
version that it defines, has no effect on the C: `backend.rs` drops the versions
(`var_name`), and `SameEffect` holds across blocks. It would have one on an
analysis that relies on the versions.

The repository's own outputs show the missing labels: of the 3662 gotos in
`src/extremely_hard.c` 92 name a label that is not in their function, of 6707 in
`src/examples/test_bin.c` 91, of 7231 in `src/examples/extremely_hard.c` 93.

## Not modelled

- The large C files (`src/extremely_hard.c`, `src/examples/extremely_hard.c`,
  `src/examples/test_bin.c`) are outputs of dEXE that were committed, as their first line
  says, and `src/examples/*.rs` are programs to run it on. They are data, not the
  program; the program is `src/src/*.rs`, and the model covers all of its
  operations.
- In `Effect` and `Machine`: indirect calls and jumps in the C (the address is data of the
  machine, not of a C function), calls that leave the text, registers narrower
  than 64 bits (every access of the C is 64 bits wide), overlapping memory
  accesses, and conditions on overflow and parity.
- Logging, the text of names and of Unknown opcodes, the binary format tag.
- The wrap of addresses and immediates at 64 bits: sums of addresses in the
  frontend wrap only for malformed files.
- The object and capstone crates, beyond what the code relies on.
