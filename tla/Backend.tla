------------------------------ MODULE Backend -------------------------------
(***************************************************************************)
(* backend::emit_c: the C translation unit for a list of lifted functions. *)
(*                                                                         *)
(* The text is modelled as what a C compiler makes of it: the extern       *)
(* declarations, the forward declarations, and for every function its name *)
(* and its lines (labels, gotos, calls, returns, other statements).  The   *)
(* passes over the calls decide what is declared; the passes over the      *)
(* bodies decide what is used.                                             *)
(***************************************************************************)
EXTENDS Names

CONSTANT Programs   \* functions and symbol table to emit

IsExternal(o) == o.op = "Call" /\ o.callee = "External"

IsBlock(block) ==
  /\ block.start_addr \in Nat
  /\ IsSeq(block.instructions)
  /\ \A k \in DOMAIN block.instructions :
       LET o == block.instructions[k].opcode
       IN  IsExternal(o) => IsSeq(o.name)

\* Functions come in address order, each with its blocks, of which no two begin
\* at the same address.
IsProgram(p) ==
  /\ IsSeq(p.functions)
  /\ \A f \in DOMAIN p.functions :
       /\ p.functions[f].addr \in Nat
       /\ IsSeq(p.functions[f].blocks)
       /\ \A b \in DOMAIN p.functions[f].blocks : IsBlock(p.functions[f].blocks[b])
       /\ \A b, c \in DOMAIN p.functions[f].blocks :
            b # c => p.functions[f].blocks[b].start_addr # p.functions[f].blocks[c].start_addr
  /\ \A f, g \in DOMAIN p.functions :
       f < g => p.functions[f].addr < p.functions[g].addr
  /\ \A a \in DOMAIN p.symbols : IsSeq(p.symbols[a])

ASSUME ProgramsAssumption == \A p \in Programs : IsProgram(p)

VARIABLES
  program,          \* the arguments of emit_c
  pc,
  extern_targets,   \* direct call targets that are not emitted
  extern_names,     \* external names that are called
  declared_names,   \* names with a declaration
  todo,             \* what the current loop has not come to
  externs,          \* extern declarations: identifier and type
  forwards,         \* forward declarations
  bodies,           \* the finished functions
  lines             \* the lines of the function being emitted

vars == << program, pc, extern_targets, extern_names, declared_names, todo,
           externs, forwards, bodies, lines >>

functions == program.functions

symbols == program.symbols

fn == functions[Len(bodies) + 1]

-----------------------------------------------------------------------------
(* Declarations.                                                           *)

Prototype(params, variadic, returns) ==
  [params |-> params, variadic |-> variadic, returns |-> returns]

\* uint64_t f(void), for functions and for stubs.
NoArgs == Prototype(0, FALSE, "integer")

KNOWN_LIBC ==
  [ printf  |-> Prototype(1, TRUE,  "integer"), puts    |-> Prototype(1, FALSE, "integer"),
    malloc  |-> Prototype(1, FALSE, "pointer"), free    |-> Prototype(1, FALSE, "void"),
    exit    |-> Prototype(1, FALSE, "void"),    memcpy  |-> Prototype(3, FALSE, "pointer"),
    memset  |-> Prototype(3, FALSE, "pointer"), strlen  |-> Prototype(1, FALSE, "integer"),
    strcmp  |-> Prototype(2, FALSE, "integer"), fprintf |-> Prototype(2, TRUE,  "integer"),
    fopen   |-> Prototype(2, FALSE, "pointer"), fclose  |-> Prototype(1, FALSE, "integer"),
    read    |-> Prototype(3, FALSE, "integer"), write   |-> Prototype(3, FALSE, "integer"),
    open    |-> Prototype(2, TRUE,  "integer"), close   |-> Prototype(1, FALSE, "integer"),
    mmap    |-> Prototype(6, FALSE, "pointer"), munmap  |-> Prototype(2, FALSE, "integer"),
    brk     |-> Prototype(1, FALSE, "integer"), syscall |-> Prototype(1, TRUE,  "integer"),
    calloc  |-> Prototype(2, FALSE, "pointer"), realloc |-> Prototype(2, FALSE, "pointer"),
    atoi    |-> Prototype(1, FALSE, "integer"), atol    |-> Prototype(1, FALSE, "integer"),
    getenv  |-> Prototype(1, FALSE, "pointer"), abort   |-> Prototype(0, FALSE, "void"),
    perror  |-> Prototype(1, FALSE, "void"),    snprintf |-> Prototype(3, TRUE, "integer"),
    sprintf |-> Prototype(2, TRUE,  "integer"), strncmp |-> Prototype(3, FALSE, "integer"),
    strcpy  |-> Prototype(2, FALSE, "pointer"), strncpy |-> Prototype(3, FALSE, "pointer"),
    strcat  |-> Prototype(2, FALSE, "pointer"), strncat |-> Prototype(3, FALSE, "pointer") ]

\* What the header of the unit defines.
Globals == { << "cpu" >>, << "process", "_", "memory" >>, << "init", "_", "state" >> }

IsLibc(name) == Len(name) = 1 /\ name[1] \in DOMAIN KNOWN_LIBC

Declaration(ident, type) == [ident |-> ident, type |-> type]

\* The declaration for a name: its prototype, or a function without arguments.
DeclarationOf(name) ==
  IF IsLibc(name)
    THEN Declaration(name, KNOWN_LIBC[name[1]])
    ELSE Declaration(sanitise_c_ident(name), NoArgs)

-----------------------------------------------------------------------------
(* Calls.                                                                  *)

Opcodes ==
  LET BlockOpcodes(block) == { block.instructions[k].opcode : k \in DOMAIN block.instructions }
  IN  UNION { UNION { BlockOpcodes(functions[f].blocks[b]) : b \in DOMAIN functions[f].blocks } :
                f \in DOMAIN functions }

Calls(callee) == { o \in Opcodes : o.op = "Call" /\ o.callee = callee }

DirectTargets == { o.target : o \in Calls("Direct") }

ExternalNames == { o.name : o \in Calls("External") }

emitted_addrs == { functions[f].addr : f \in DOMAIN functions }

func_names ==
  [ a \in emitted_addrs |->
      sanitise_c_ident(functions[CHOOSE f \in DOMAIN functions : functions[f].addr = a].name) ]

\* Variant for mutation: the names of the emitted functions are not looked up.
SymbolOrStub(addr) ==
  IF addr \in DOMAIN symbols THEN sanitise_c_ident(symbols[addr]) ELSE stub_name(addr)

\* An emitted function, a symbol, or a stub.
resolve_call_name(addr) ==
  IF addr \in emitted_addrs
    THEN func_names[addr]
    ELSE IF addr \in DOMAIN symbols THEN sanitise_c_ident(symbols[addr]) ELSE stub_name(addr)

-----------------------------------------------------------------------------
(* The passes that declare what is called.                                 *)

Init ==
  /\ program \in Programs
  /\ pc = "collect"
  /\ extern_targets = {}
  /\ extern_names = {}
  /\ declared_names = {}
  /\ todo = {}
  /\ externs = << >>
  /\ forwards = << >>
  /\ bodies = << >>
  /\ lines = << >>

\* Variant for mutation: a target with a symbol is taken to be declared.
CollectStubsOnly ==
  /\ pc = "collect"
  /\ extern_targets' = (DirectTargets \ emitted_addrs) \ DOMAIN symbols
  /\ extern_names' = ExternalNames
  /\ todo' = extern_names'
  /\ pc' = "libc"
  /\ UNCHANGED << program, declared_names, externs, forwards, bodies, lines >>

\* Variant for mutation: a call of an emitted function is taken for an external.
CollectEveryTarget ==
  /\ pc = "collect"
  /\ extern_targets' = DirectTargets
  /\ extern_names' = ExternalNames
  /\ todo' = extern_names'
  /\ pc' = "libc"
  /\ UNCHANGED << program, declared_names, externs, forwards, bodies, lines >>

Collect ==
  /\ pc = "collect"
  /\ extern_targets' = DirectTargets \ emitted_addrs
  /\ extern_names' = ExternalNames
  /\ todo' = extern_names'
  /\ pc' = "libc"
  /\ UNCHANGED << program, declared_names, externs, forwards, bodies, lines >>

\* The sets of names are walked in some order; what is declared does not
\* depend on it.
DeclareLibc ==
  /\ pc = "libc"
  /\ \E name \in todo :
       /\ IF IsLibc(name)
            THEN /\ externs' = Append(externs, DeclarationOf(name))
                 /\ declared_names' = declared_names \cup {name}
            ELSE UNCHANGED << externs, declared_names >>
       /\ todo' = todo \ {name}
  /\ UNCHANGED << program, pc, extern_targets, extern_names, forwards, bodies, lines >>

EndLibc ==
  /\ pc = "libc"
  /\ todo = {}
  /\ todo' = extern_names
  /\ pc' = "stubs"
  /\ UNCHANGED << program, extern_targets, extern_names, declared_names, externs,
                  forwards, bodies, lines >>

StubFor(name) == Declaration(sanitise_c_ident(name), NoArgs)

\* Variant for mutation: a stub for every name that is called.
DeclareEveryStub ==
  /\ pc = "stubs"
  /\ \E name \in todo :
       /\ externs' = Append(externs, StubFor(name))
       /\ todo' = todo \ {name}
  /\ UNCHANGED << program, pc, extern_targets, extern_names, declared_names, forwards,
                  bodies, lines >>

\* A stub is not noted as declared.
DeclareStub ==
  /\ pc = "stubs"
  /\ \E name \in todo :
       /\ externs' = IF name \in declared_names THEN externs ELSE Append(externs, StubFor(name))
       /\ todo' = todo \ {name}
  /\ UNCHANGED << program, pc, extern_targets, extern_names, declared_names, forwards,
                  bodies, lines >>

EndStubs ==
  /\ pc = "stubs"
  /\ todo = {}
  /\ todo' = extern_targets
  /\ pc' = "targets"
  /\ UNCHANGED << program, extern_targets, extern_names, declared_names, externs,
                  forwards, bodies, lines >>

DeclareTarget ==
  /\ pc = "targets"
  /\ \E addr \in todo :
       /\ \A a \in todo : addr <= a
       /\ IF addr \in DOMAIN symbols
            THEN IF symbols[addr] \in declared_names
                   THEN UNCHANGED << externs, declared_names >>
                   ELSE /\ externs' = Append(externs, DeclarationOf(symbols[addr]))
                        /\ declared_names' = declared_names \cup { symbols[addr] }
            ELSE /\ externs' = Append(externs, Declaration(stub_name(addr), NoArgs))
                 /\ UNCHANGED declared_names
       /\ todo' = todo \ {addr}
  /\ UNCHANGED << program, pc, extern_targets, extern_names, forwards, bodies, lines >>

EndTargets ==
  /\ pc = "targets"
  /\ todo = {}
  /\ forwards' = [ f \in DOMAIN functions |-> sanitise_c_ident(functions[f].name) ]
  /\ pc' = "function"
  /\ UNCHANGED << program, extern_targets, extern_names, declared_names, todo, externs,
                  bodies, lines >>

-----------------------------------------------------------------------------
(* The bodies.                                                             *)

Label(addr) == [kind |-> "label", addr |-> addr]
Goto(addr) == [kind |-> "goto", addr |-> addr]
IfGoto(condition, addr) == [kind |-> "if", condition |-> condition, addr |-> addr]
ReturnRax == [kind |-> "return"]
CallOf(ident, args, pushed) == [kind |-> "call", callee |-> ident, args |-> args, pushed |-> pushed]
CallThrough(operand, pushed) == [kind |-> "icall", callee |-> operand, pushed |-> pushed]
Statement(opcode) == [kind |-> "statement", opcode |-> opcode]

\* A jump does not look where its block is; the other side of a conditional
\* jump is whatever comes next.
emit_instruction(o) ==
  CASE o.op = "Jmp" -> Goto(o.target)
    [] o.op = "Jcc" -> IfGoto(o.condition, o.target)
    [] o.op = "Ret" -> ReturnRax
    [] o.op = "Call" ->
         CASE o.callee = "Direct"   -> CallOf(resolve_call_name(o.target), 0, o.fallthrough)
           [] o.callee = "External" -> CallOf(sanitise_c_ident(o.name), 6, o.fallthrough)
           [] OTHER                 -> CallThrough(o.srcs[1], o.fallthrough)
    [] OTHER -> Statement(o)

EmittedBlock(block) ==
  << Label(block.start_addr) >>
    \o [ k \in DOMAIN block.instructions |-> emit_instruction(block.instructions[k].opcode) ]

BeginFunction ==
  /\ pc = "function"
  /\ Len(bodies) < Len(functions)
  /\ todo' = DOMAIN fn.blocks
  /\ lines' = << >>
  /\ pc' = "block"
  /\ UNCHANGED << program, extern_targets, extern_names, declared_names, externs,
                  forwards, bodies >>

\* Variant for mutation: the blocks are sorted the other way round.
EmitLastBlock ==
  /\ pc = "block"
  /\ \E b \in todo :
       /\ \A c \in todo : fn.blocks[c].start_addr <= fn.blocks[b].start_addr
       /\ lines' = lines \o EmittedBlock(fn.blocks[b])
       /\ todo' = todo \ {b}
  /\ UNCHANGED << program, pc, extern_targets, extern_names, declared_names, externs,
                  forwards, bodies >>

\* Blocks by their start address, and by their id where that is the same.
EmitBlock ==
  /\ pc = "block"
  /\ \E b \in todo :
       /\ \A c \in todo \ {b} :
            \/ fn.blocks[b].start_addr < fn.blocks[c].start_addr
            \/ fn.blocks[b].start_addr = fn.blocks[c].start_addr /\ b < c
       /\ lines' = lines \o EmittedBlock(fn.blocks[b])
       /\ todo' = todo \ {b}
  /\ UNCHANGED << program, pc, extern_targets, extern_names, declared_names, externs,
                  forwards, bodies >>

\* The default return closes a body.
EndFunction ==
  /\ pc = "block"
  /\ todo = {}
  /\ bodies' = Append(bodies, [ name  |-> sanitise_c_ident(fn.name),
                                lines |-> Append(lines, ReturnRax) ])
  /\ pc' = "function"
  /\ UNCHANGED << program, extern_targets, extern_names, declared_names, todo, externs,
                  forwards, lines >>

Finish ==
  /\ pc = "function"
  /\ Len(bodies) >= Len(functions)
  /\ pc' = "done"
  /\ UNCHANGED << program, extern_targets, extern_names, declared_names, todo, externs,
                  forwards, bodies, lines >>

Terminated == pc = "done" /\ UNCHANGED vars

Next ==
  \/ Collect
  \/ DeclareLibc
  \/ EndLibc
  \/ DeclareStub
  \/ EndStubs
  \/ DeclareTarget
  \/ EndTargets
  \/ BeginFunction
  \/ EmitBlock
  \/ EndFunction
  \/ Finish
  \/ Terminated

Spec == Init /\ [][Next]_vars

-----------------------------------------------------------------------------
(* Properties.                                                             *)

Identifiers(decls) == { decls[k].ident : k \in DOMAIN decls }

InSeq(seq) == { seq[k] : k \in DOMAIN seq }

Lines(f) == bodies[f].lines

\* Where the label of a block is, and the line of an instruction behind it.
LabelAt(f, b) ==
  CHOOSE i \in DOMAIN Lines(f) : Lines(f)[i] = Label(functions[f].blocks[b].start_addr)

LineOf(f, b, k) == Lines(f)[LabelAt(f, b) + k]

Body(f) == functions[f].blocks

\* Functions have their identifiers for themselves.
Distinct ==
  /\ \A f, g \in DOMAIN bodies : bodies[f].name = bodies[g].name => f = g
  /\ \A f \in DOMAIN bodies : bodies[f].name \notin Identifiers(externs)

\* Types of the variables of emit_c, and what its loops have walked over.
TypeOK ==
  /\ pc \in { "collect", "libc", "stubs", "targets", "function", "block", "done" }
  /\ extern_targets \cap emitted_addrs = {}
  /\ pc = "libc" \/ pc = "stubs" => todo \subseteq extern_names
  /\ pc = "targets" => todo \subseteq extern_targets
  /\ pc = "block" => todo \subseteq DOMAIN fn.blocks
  /\ Len(bodies) <= Len(functions)

\* Every function that the C calls by name is declared before the first body:
\* what resolve_call_name answers is what the passes over the calls declared.
CallsDeclared ==
  \A f \in DOMAIN bodies : \A i \in DOMAIN Lines(f) :
    Lines(f)[i].kind = "call" =>
      Lines(f)[i].callee \in Identifiers(externs) \cup InSeq(forwards)

\* An identifier that is declared twice is declared with the same type both
\* times: names meet in two loops, and some before and some after they have
\* become identifiers.
ExternsAgree ==
  \A j, k \in DOMAIN externs : externs[j].ident = externs[k].ident => externs[j] = externs[k]

\* If no two functions share an identifier and no function shares one with an
\* external, a direct call reaches the function at its target, and only that.
CallsReachFunctions ==
  pc = "done" /\ Distinct =>
    \A f \in DOMAIN bodies : \A b \in DOMAIN Body(f) : \A k \in DOMAIN Body(f)[b].instructions :
      LET o == Body(f)[b].instructions[k].opcode
      IN  o.op = "Call" /\ o.callee = "Direct" =>
            \A g \in DOMAIN bodies :
              LineOf(f, b, k).callee = bodies[g].name <=> functions[g].addr = o.target

\* A body has every block of its function once, in address order, so that the
\* line after a conditional jump that is not taken, and after a block without
\* a jump, is in the block that follows in memory; and it ends in a return.  (The
\* blocks of a lifted function ascend already, so the code's sort changes nothing.)
BodiesInAddressOrder ==
  \A f \in DOMAIN bodies :
    LET labels == { i \in DOMAIN Lines(f) : Lines(f)[i].kind = "label" }
    IN  /\ { Lines(f)[i].addr : i \in labels } = { Body(f)[b].start_addr : b \in DOMAIN Body(f) }
        /\ \A i, j \in labels : i < j => Lines(f)[i].addr < Lines(f)[j].addr
        /\ Lines(f)[Len(Lines(f))] = ReturnRax

\* A goto names a label of its function.
GotosHaveLabels ==
  \A f \in DOMAIN bodies : \A i \in DOMAIN Lines(f) :
    Lines(f)[i].kind \in { "goto", "if" } => Label(Lines(f)[i].addr) \in InSeq(Lines(f))

\* A function is defined once, has not the name of a global of the header, and
\* is not declared with another type.
DefinedOnce ==
  /\ \A f \in DOMAIN bodies : bodies[f].name \notin Globals
  /\ \A f, g \in DOMAIN bodies : bodies[f].name = bodies[g].name => f = g
  /\ \A f \in DOMAIN bodies, k \in DOMAIN externs :
       externs[k].ident = bodies[f].name => externs[k].type = NoArgs

\* The arguments of a call and the use of its value are what the declared
\* prototype allows.
CallsMatchPrototypes ==
  \A f \in DOMAIN bodies : \A i \in DOMAIN Lines(f) : \A k \in DOMAIN externs :
    LET line == Lines(f)[i]
        type == externs[k].type
    IN  line.kind = "call" /\ line.callee = externs[k].ident =>
          /\ line.args = type.params \/ (type.variadic /\ line.args > type.params)
          /\ type.returns # "void"

\* The header comment of backend.rs: "a complete, compilable C99 source file".
Compilable == GotosHaveLabels /\ DefinedOnce /\ CallsMatchPrototypes
=============================================================================
