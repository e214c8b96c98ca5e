--------------------------- MODULE BackendProofs ----------------------------
(***************************************************************************)
(* What emit_c declares, what its output calls, and where the lines of a   *)
(* body are, for every program.                                            *)
(***************************************************************************)
EXTENDS Backend, SequenceTheorems, TLAPS

-----------------------------------------------------------------------------
(* Sequences.                                                              *)

LEMMA ElementsOfSeq ==
  ASSUME NEW s, IsSeq(s)
  PROVE  /\ DOMAIN s = 1 .. Len(s)
         /\ Len(s) \in Nat
         /\ s \in Seq({ s[k] : k \in 1 .. Len(s) })
BY DEF IsSeq

LEMMA AppendIsSeq ==
  ASSUME NEW s, IsSeq(s), NEW e
  PROVE  /\ IsSeq(Append(s, e))
         /\ Len(Append(s, e)) = Len(s) + 1
         /\ \A k \in DOMAIN s : k \in DOMAIN Append(s, e) /\ Append(s, e)[k] = s[k]
         /\ \A k \in DOMAIN Append(s, e) : k \in DOMAIN s \/ Append(s, e)[k] = e
         /\ Len(s) + 1 \in DOMAIN Append(s, e)
         /\ Append(s, e)[Len(s) + 1] = e
<1> DEFINE S == { s[k] : k \in 1 .. Len(s) } \cup { e }
           t == Append(s, e)
<1>1. s \in Seq(S) /\ e \in S /\ Len(s) \in Nat /\ DOMAIN s = 1 .. Len(s)
  <2>1. s = [ k \in 1 .. Len(s) |-> s[k] ] /\ Len(s) \in Nat
    BY DEF IsSeq
  <2>2. \A k \in 1 .. Len(s) : s[k] \in S
    OBVIOUS
  <2> HIDE DEF S
  <2>3. [ k \in 1 .. Len(s) |-> s[k] ] \in Seq(S)
    BY <2>1, <2>2
  <2>4. e \in S
    BY DEF S
  <2> QED BY <2>1, <2>3, <2>4
<1> HIDE DEF S
<1>2. t \in Seq(S) /\ Len(t) = Len(s) + 1 /\ DOMAIN t = 1 .. Len(s) + 1
  BY <1>1
<1>3. \A k \in 1 .. Len(s) : t[k] = s[k]
  BY <1>1
<1>4. t[Len(s) + 1] = e
  BY <1>1
<1>5. IsSeq(t)
  <2>1. t \in [ 1 .. Len(t) -> S ] /\ Len(t) \in Nat
    BY <1>2, LenProperties
  <2> HIDE DEF t
  <2> QED BY <2>1 DEF IsSeq
<1> QED BY <1>1, <1>2, <1>3, <1>4, <1>5

\* Concatenation by its name, and where the parts are in it.
IsConcat(u, s, t) == u = s \o t

LEMMA ConcatParts ==
  ASSUME NEW s, IsSeq(s), NEW t, IsSeq(t), NEW u, IsConcat(u, s, t)
  PROVE  /\ IsSeq(u)
         /\ DOMAIN u \subseteq Nat /\ DOMAIN s \subseteq Nat /\ DOMAIN t \subseteq Nat
         /\ Len(s) \in Nat /\ DOMAIN s = 1 .. Len(s)
         /\ \A k \in DOMAIN u :
              \/ k \in DOMAIN s /\ u[k] = s[k]
              \/ k - Len(s) \in DOMAIN t /\ u[k] = t[k - Len(s)]
         /\ \A k \in DOMAIN s : k \in DOMAIN u /\ u[k] = s[k]
         /\ \A k \in DOMAIN t : Len(s) + k \in DOMAIN u /\ u[Len(s) + k] = t[k]
<1> DEFINE S == { s[k] : k \in 1 .. Len(s) } \cup { t[k] : k \in 1 .. Len(t) }
<1>1. /\ Len(s) \in Nat /\ Len(t) \in Nat
      /\ DOMAIN s = 1 .. Len(s) /\ DOMAIN t = 1 .. Len(t)
      /\ s \in Seq(S) /\ t \in Seq(S)
  <2>1. /\ s = [ k \in 1 .. Len(s) |-> s[k] ] /\ Len(s) \in Nat
        /\ t = [ k \in 1 .. Len(t) |-> t[k] ] /\ Len(t) \in Nat
    BY DEF IsSeq
  <2>2. (\A k \in 1 .. Len(s) : s[k] \in S) /\ (\A k \in 1 .. Len(t) : t[k] \in S)
    OBVIOUS
  <2> HIDE DEF S
  <2>3. [ k \in 1 .. Len(s) |-> s[k] ] \in Seq(S)
    BY <2>1, <2>2
  <2>4. [ k \in 1 .. Len(t) |-> t[k] ] \in Seq(S)
    BY <2>1, <2>2
  <2> QED BY <2>1, <2>3, <2>4
<1> HIDE DEF S
<1>2. u \in Seq(S) /\ Len(u) = Len(s) + Len(t) /\ DOMAIN u = 1 .. Len(s) + Len(t)
  <2>1. s \o t \in Seq(S) /\ Len(s \o t) = Len(s) + Len(t) /\ DOMAIN (s \o t) = 1 .. Len(s) + Len(t)
    BY <1>1
  <2> QED BY <2>1, Zenon DEF IsConcat
<1>3. \A k \in 1 .. Len(s) : u[k] = s[k]
  BY <1>1 DEF IsConcat
<1>4. \A k \in 1 .. Len(s) + Len(t) : k > Len(s) => u[k] = t[k - Len(s)]
  BY <1>1 DEF IsConcat
<1>5. IsSeq(u)
  <2>1. u \in [ 1 .. Len(u) -> S ] /\ Len(u) \in Nat
    BY <1>2, LenProperties
  <2> QED BY <2>1 DEF IsSeq
<1>6. ASSUME NEW k \in DOMAIN u
      PROVE  \/ k \in DOMAIN s /\ u[k] = s[k]
             \/ k - Len(s) \in DOMAIN t /\ u[k] = t[k - Len(s)]
  BY <1>1, <1>2, <1>3, <1>4
<1>7. \A k \in DOMAIN s : k \in DOMAIN u /\ u[k] = s[k]
  BY <1>1, <1>2, <1>3
<1>8. \A k \in DOMAIN t : Len(s) + k \in DOMAIN u /\ u[Len(s) + k] = t[k]
  BY <1>1, <1>2, <1>4
<1>9. DOMAIN u \subseteq Nat /\ DOMAIN s \subseteq Nat /\ DOMAIN t \subseteq Nat
  BY <1>1, <1>2
<1> QED BY <1>1, <1>5, <1>6, <1>7, <1>8, <1>9

LEMMA ConcatIsSeq ==
  ASSUME NEW s, IsSeq(s), NEW t, IsSeq(t)
  PROVE  /\ IsSeq(s \o t)
         /\ \A k \in DOMAIN (s \o t) :
              \/ k \in DOMAIN s /\ (s \o t)[k] = s[k]
              \/ k - Len(s) \in DOMAIN t /\ (s \o t)[k] = t[k - Len(s)]
         /\ \A k \in DOMAIN s : k \in DOMAIN (s \o t) /\ (s \o t)[k] = s[k]
         /\ \A k \in DOMAIN t : Len(s) + k \in DOMAIN (s \o t) /\ (s \o t)[Len(s) + k] = t[k]
<1> DEFINE u == s \o t
<1>1. IsConcat(u, s, t)
  BY DEF IsConcat
<1> HIDE DEF u
<1>2. /\ IsSeq(u)
      /\ \A k \in DOMAIN u : \/ k \in DOMAIN s /\ u[k] = s[k]
                             \/ k - Len(s) \in DOMAIN t /\ u[k] = t[k - Len(s)]
      /\ \A k \in DOMAIN s : k \in DOMAIN u /\ u[k] = s[k]
      /\ \A k \in DOMAIN t : Len(s) + k \in DOMAIN u /\ u[Len(s) + k] = t[k]
  BY <1>1, ConcatParts
<1> QED BY <1>2 DEF u

-----------------------------------------------------------------------------
(* Identifiers.                                                            *)

LEMMA LibcNamesAreWords ==
  \A x \in DOMAIN KNOWN_LIBC : x \notin Punctuation /\ x \notin Numerals
BY DEF KNOWN_LIBC, Punctuation, Numerals

LEMMA DeclarationIdent ==
  ASSUME NEW n, IsSeq(n)
  PROVE  DeclarationOf(n).ident = sanitise_c_ident(n)
<1>1. CASE IsLibc(n)
  <2>1. Len(n) = 1 /\ n[1] \in DOMAIN KNOWN_LIBC /\ n = [ k \in 1 .. 1 |-> n[k] ]
    BY <1>1 DEF IsLibc, IsSeq
  <2>2. n[1] \notin Punctuation /\ n[1] \notin Numerals
    BY <2>1, LibcNamesAreWords
  <2>3. n # << >>
    BY <2>1
  <2>4. [ k \in DOMAIN n |-> IF n[k] \in Punctuation THEN "_" ELSE n[k] ] = n
    BY <2>1, <2>2
  <2>5. sanitise_c_ident(n) = n
    BY <2>2, <2>3, <2>4 DEF sanitise_c_ident
  <2> QED BY <1>1, <2>5 DEF DeclarationOf, Declaration
<1>2. CASE ~IsLibc(n)
  BY <1>2 DEF DeclarationOf, Declaration
<1> QED BY <1>1, <1>2

\* No other name becomes the identifier of a libc function.
LEMMA LibcIdentsAreLibcNames ==
  ASSUME NEW n, IsSeq(n), ~IsLibc(n)
  PROVE  ~IsLibc(sanitise_c_ident(n))
<1> DEFINE r == [ k \in DOMAIN n |-> IF n[k] \in Punctuation THEN "_" ELSE n[k] ]
<1> SUFFICES ASSUME IsLibc(sanitise_c_ident(n)) PROVE FALSE
  OBVIOUS
<1>0. Len(n) \in Nat /\ DOMAIN n = 1 .. Len(n)
  BY ElementsOfSeq
<1>1. Len(sanitise_c_ident(n)) = 1
  BY DEF IsLibc
<1>2. n # << >>
  <2> SUFFICES ASSUME n = << >> PROVE FALSE
    OBVIOUS
  <2>1. sanitise_c_ident(n) = << "_", "anon" >>
    BY DEF sanitise_c_ident
  <2>2. Len(<< "_", "anon" >>) = 1
    BY <1>1, <2>1, Zenon
  <2> QED BY <2>2
<1>3. IsSeq(r) /\ Len(r) = Len(n)
  <2>1. r = [ k \in 1 .. Len(n) |-> IF n[k] \in Punctuation THEN "_" ELSE n[k] ]
    BY <1>0
  <2> DEFINE R(N) == [ k \in 1 .. N |-> IF n[k] \in Punctuation THEN "_" ELSE n[k] ]
  <2>2. ASSUME NEW N \in Nat PROVE IsSeq(R(N)) /\ Len(R(N)) = N
    BY <2>2 DEF IsSeq
  <2> QED BY <1>0, <2>1, <2>2
<1>4. n[1] \notin Numerals
  <2> SUFFICES ASSUME n[1] \in Numerals PROVE FALSE
    OBVIOUS
  <2>1. sanitise_c_ident(n) = << "_" >> \o r
    BY <1>2 DEF sanitise_c_ident
  <2>2. r \in Seq({ r[k] : k \in 1 .. Len(r) })
    BY <1>3, ElementsOfSeq
  <2> HIDE DEF r
  <2>3. Len(<< "_" >> \o r) = 1 + Len(r)
    BY <2>2
  <2>4. 1 + Len(n) = 1
    BY <1>1, <1>3, <2>1, <2>3
  <2>5. Len(n) = 0
    BY <1>0, <2>4
  <2>6. n = << >>
    BY <2>5 DEF IsSeq
  <2> QED BY <1>2, <2>6
<1>5. sanitise_c_ident(n) = r
  BY <1>2, <1>4 DEF sanitise_c_ident
<1>6. Len(n) = 1 /\ r[1] \in DOMAIN KNOWN_LIBC
  <2> HIDE DEF r
  <2> QED BY <1>3, <1>5 DEF IsLibc
<1>7. r[1] = IF n[1] \in Punctuation THEN "_" ELSE n[1]
  <2> HIDE DEF r
  <2>1. 1 \in DOMAIN n
    BY <1>0, <1>6
  <2> USE DEF r
  <2> QED BY <2>1
<1>8. "_" \in Punctuation
  BY DEF Punctuation
<1>9. n[1] \in DOMAIN KNOWN_LIBC
  BY <1>6, <1>7, <1>8, LibcNamesAreWords
<1> QED BY <1>6, <1>9 DEF IsLibc

\* What an extern declaration can be.
IsExtern(d) ==
  \/ \E n : IsSeq(n) /\ d = DeclarationOf(n)
  \/ ~IsLibc(d.ident) /\ d = Declaration(d.ident, NoArgs)

LEMMA ExternsByIdent ==
  ASSUME NEW d, NEW e, IsExtern(d), IsExtern(e), d.ident = e.ident
  PROVE  d = e
<1>1. ASSUME NEW c, IsExtern(c)
      PROVE  c = IF IsLibc(c.ident) THEN Declaration(c.ident, KNOWN_LIBC[c.ident[1]])
                                    ELSE Declaration(c.ident, NoArgs)
  <2>1. CASE \E n : IsSeq(n) /\ c = DeclarationOf(n)
    <3>1. PICK n : IsSeq(n) /\ c = DeclarationOf(n)
      BY <2>1
    <3>2. CASE IsLibc(n)
      BY <3>1, <3>2 DEF DeclarationOf, Declaration
    <3>3. CASE ~IsLibc(n)
      BY <3>1, <3>3, LibcIdentsAreLibcNames DEF DeclarationOf, Declaration
    <3> QED BY <3>2, <3>3
  <2>2. CASE ~IsLibc(c.ident) /\ c = Declaration(c.ident, NoArgs)
    BY <2>2
  <2> QED BY <1>1, <2>1, <2>2 DEF IsExtern
<1> QED BY <1>1

LEMMA StubIsExtern ==
  ASSUME NEW n, IsSeq(n), ~IsLibc(n)
  PROVE  IsExtern(StubFor(n))
BY DEF IsExtern, StubFor, DeclarationOf

LEMMA UnnamedStubIsExtern ==
  ASSUME NEW a
  PROVE  IsExtern(Declaration(stub_name(a), NoArgs))
<1>1. Len(stub_name(a)) = 3
  BY DEF stub_name
<1>2. ~IsLibc(stub_name(a))
  BY <1>1 DEF IsLibc
<1> QED BY <1>2 DEF IsExtern, Declaration

-----------------------------------------------------------------------------
(* The inductive invariant.                                                *)

PCs == { "collect", "libc", "stubs", "targets", "function", "block", "done" }

\* Identifiers that are declared, or will be when the loops are through.
Known == Identifiers(externs) \cup InSeq(forwards)

CallsKnown(seq) ==
  \A i \in DOMAIN seq : seq[i].kind = "call" => seq[i].callee \in Known

SeqsOK ==
  /\ program \in Programs
  /\ pc \in PCs
  /\ IsSeq(externs)
  /\ IsSeq(forwards)
  /\ IsSeq(lines)
  /\ IsSeq(bodies)
  /\ \A f \in DOMAIN bodies : IsSeq(bodies[f].lines)

CollectedOK ==
  /\ pc = "collect" => extern_targets = {}
  /\ pc # "collect" =>
       /\ extern_targets = DirectTargets \ emitted_addrs
       /\ extern_names = ExternalNames

\* What the loops have walked over.
TodoOK ==
  /\ pc \in { "libc", "stubs" } => todo \subseteq extern_names
  /\ pc = "targets" => todo \subseteq extern_targets
  /\ pc = "block" => todo \subseteq DOMAIN fn.blocks
  /\ pc \notin { "function", "block", "done" } => lines = << >> /\ bodies = << >>
  /\ Len(bodies) <= Len(functions)
  /\ pc = "block" => Len(bodies) < Len(functions)

\* Every extern is of a name that stands for it, and what has been declared
\* has an extern.
ExternsOK ==
  /\ \A k \in DOMAIN externs : IsExtern(externs[k])
  /\ pc = "collect" => declared_names = {}
  /\ \A n \in declared_names : IsSeq(n) /\ sanitise_c_ident(n) \in Identifiers(externs)

\* The loops have a declaration for all that they have passed.
PassedOK ==
  /\ pc = "libc" => \A n \in extern_names \ todo : IsLibc(n) => n \in declared_names
  /\ pc = "stubs" =>
       /\ \A n \in extern_names : IsLibc(n) => n \in declared_names
       /\ \A n \in extern_names \ todo : sanitise_c_ident(n) \in Identifiers(externs)
  /\ pc \in { "targets", "function", "block", "done" } =>
       \A n \in extern_names : sanitise_c_ident(n) \in Identifiers(externs)
  /\ pc = "targets" =>
       \A a \in extern_targets \ todo : resolve_call_name(a) \in Identifiers(externs)
  /\ pc \in { "function", "block", "done" } =>
       /\ \A a \in extern_targets : resolve_call_name(a) \in Identifiers(externs)
       /\ forwards = [ f \in DOMAIN functions |-> sanitise_c_ident(functions[f].name) ]

LinesOK ==
  /\ CallsKnown(lines)
  /\ \A f \in DOMAIN bodies : CallsKnown(bodies[f].lines)

IInv == SeqsOK /\ CollectedOK /\ TodoOK /\ ExternsOK /\ PassedOK /\ LinesOK

-----------------------------------------------------------------------------
(* Facts about a program.                                                  *)

LEMMA ProgramOK ==
  ASSUME program \in Programs
  PROVE  /\ IsSeq(functions)
         /\ \A f \in DOMAIN functions :
              /\ IsSeq(functions[f].blocks)
              /\ \A b \in DOMAIN functions[f].blocks : IsBlock(functions[f].blocks[b])
              /\ \A b, c \in DOMAIN functions[f].blocks :
                   b # c => functions[f].blocks[b].start_addr # functions[f].blocks[c].start_addr
         /\ \A f, g \in DOMAIN functions : f # g => functions[f].addr # functions[g].addr
         /\ \A a \in DOMAIN symbols : IsSeq(symbols[a])
<1>1. IsProgram(program)
  BY ProgramsAssumption
<1>2. IsSeq(functions) /\ \A f \in DOMAIN functions : f \in Nat /\ functions[f].addr \in Nat
  BY <1>1, ElementsOfSeq DEF functions, IsProgram
<1>3. \A f, g \in DOMAIN functions : f < g => functions[f].addr < functions[g].addr
  BY <1>1 DEF functions, IsProgram
<1>4. \A f, g \in DOMAIN functions : f # g => functions[f].addr # functions[g].addr
  BY <1>2, <1>3
<1> QED BY <1>1, <1>2, <1>4 DEF functions, symbols, IsProgram

LEMMA OpcodeOfBlock ==
  ASSUME NEW f \in DOMAIN functions, NEW b \in DOMAIN functions[f].blocks,
         NEW k \in DOMAIN functions[f].blocks[b].instructions
  PROVE  functions[f].blocks[b].instructions[k].opcode \in Opcodes
<1> DEFINE BlockOpcodes(block) ==
             { block.instructions[i].opcode : i \in DOMAIN block.instructions }
           OfFunction(g) == UNION { BlockOpcodes(functions[g].blocks[c]) : c \in DOMAIN functions[g].blocks }
<1>1. functions[f].blocks[b].instructions[k].opcode \in BlockOpcodes(functions[f].blocks[b])
  OBVIOUS
<1> HIDE DEF BlockOpcodes
<1>2. functions[f].blocks[b].instructions[k].opcode \in OfFunction(f)
  BY <1>1
<1> HIDE DEF OfFunction
<1>3. functions[f].blocks[b].instructions[k].opcode \in UNION { OfFunction(g) : g \in DOMAIN functions }
  BY <1>2
<1> QED BY <1>3 DEF Opcodes, OfFunction, BlockOpcodes

LEMMA ExternalNamesAreSeqs ==
  ASSUME program \in Programs, NEW n \in ExternalNames
  PROVE  IsSeq(n)
<1>1. PICK o \in Opcodes : IsExternal(o) /\ n = o.name
  BY DEF ExternalNames, Calls, IsExternal
<1> DEFINE BlockOpcodes(block) ==
             { block.instructions[i].opcode : i \in DOMAIN block.instructions }
           OfFunction(g) == UNION { BlockOpcodes(functions[g].blocks[c]) : c \in DOMAIN functions[g].blocks }
<1>2. Opcodes = UNION { OfFunction(g) : g \in DOMAIN functions }
  BY DEF Opcodes
<1> HIDE DEF OfFunction
<1>3. PICK f \in DOMAIN functions : o \in OfFunction(f)
  BY <1>1, <1>2
<1> USE DEF OfFunction
<1> HIDE DEF BlockOpcodes
<1>4. PICK b \in DOMAIN functions[f].blocks : o \in BlockOpcodes(functions[f].blocks[b])
  BY <1>3
<1> USE DEF BlockOpcodes
<1>5. IsBlock(functions[f].blocks[b])
  BY ProgramOK
<1> QED BY <1>1, <1>4, <1>5 DEF IsBlock

LEMMA Stable ==
  ASSUME program' = program
  PROVE  /\ functions' = functions
         /\ symbols' = symbols
         /\ emitted_addrs' = emitted_addrs
         /\ DirectTargets' = DirectTargets
         /\ ExternalNames' = ExternalNames
         /\ \A a : resolve_call_name(a)' = resolve_call_name(a)
BY DEF functions, symbols, emitted_addrs, DirectTargets, ExternalNames, Calls, Opcodes,
       resolve_call_name, func_names

LEMMA IdentifiersAppend ==
  ASSUME NEW s, IsSeq(s), NEW d
  PROVE  Identifiers(s) \subseteq Identifiers(Append(s, d)) /\ d.ident \in Identifiers(Append(s, d))
BY AppendIsSeq DEF Identifiers

LEMMA EmptyIsSeq == IsSeq(<< >>) /\ DOMAIN << >> = {}
BY DEF IsSeq

\* Whatever a block calls is known once the declarations are complete.
LEMMA EmittedBlockKnown ==
  ASSUME IInv, pc \in { "function", "block", "done" },
         NEW f \in DOMAIN functions, NEW b \in DOMAIN functions[f].blocks
  PROVE  IsSeq(EmittedBlock(functions[f].blocks[b])) /\ CallsKnown(EmittedBlock(functions[f].blocks[b]))
<1> DEFINE block == functions[f].blocks[b]
           body == [ k \in DOMAIN block.instructions |-> emit_instruction(block.instructions[k].opcode) ]
           label == << Label(block.start_addr) >>
<1>1. IsSeq(block.instructions) /\ DOMAIN block.instructions = 1 .. Len(block.instructions)
      /\ Len(block.instructions) \in Nat
  BY ProgramOK, ElementsOfSeq DEF IInv, SeqsOK, IsBlock
<1>2. ASSUME NEW k \in DOMAIN block.instructions,
             emit_instruction(block.instructions[k].opcode).kind = "call"
      PROVE  emit_instruction(block.instructions[k].opcode).callee \in Known
  <2> DEFINE o == block.instructions[k].opcode
  <2>1. o \in Opcodes
    BY OpcodeOfBlock
  <2> HIDE DEF o
  <2>2. o.op = "Call" /\ o.callee \in { "Direct", "External" }
    BY <1>2 DEF o, emit_instruction, Goto, IfGoto, ReturnRax, CallThrough, Statement
  <2>3. CASE o.callee = "Direct"
    <3>1. o.target \in DirectTargets
      BY <2>1, <2>2, <2>3 DEF DirectTargets, Calls
    <3>2. emit_instruction(o).callee = resolve_call_name(o.target)
      BY <2>2, <2>3 DEF emit_instruction, CallOf
    <3>3. CASE o.target \in emitted_addrs
      <4>1. PICK g \in DOMAIN functions : functions[g].addr = o.target
        BY <3>3 DEF emitted_addrs
      <4> DEFINE h == CHOOSE i \in DOMAIN functions : functions[i].addr = o.target
      <4>2. h \in DOMAIN functions
        BY <4>1
      <4>3. resolve_call_name(o.target) = sanitise_c_ident(functions[h].name)
        BY <3>3 DEF resolve_call_name, func_names
      <4>4. sanitise_c_ident(functions[h].name) \in InSeq(forwards)
        BY <4>2 DEF InSeq, IInv, PassedOK
      <4> QED BY <3>2, <4>3, <4>4 DEF Known, o
    <3>4. CASE o.target \notin emitted_addrs
      <4>1. o.target \in extern_targets
        BY <3>1, <3>4 DEF IInv, CollectedOK
      <4> QED BY <3>2, <4>1 DEF Known, o, IInv, PassedOK
    <3> QED BY <3>3, <3>4
  <2>4. CASE o.callee = "External"
    <3>1. o.name \in ExternalNames
      BY <2>1, <2>2, <2>4 DEF ExternalNames, Calls
    <3>2. emit_instruction(o).callee = sanitise_c_ident(o.name)
      BY <2>2, <2>4 DEF emit_instruction, CallOf
    <3>3. o.name \in extern_names
      BY <3>1 DEF IInv, CollectedOK
    <3> QED BY <3>2, <3>3 DEF Known, o, IInv, PassedOK
  <2> QED BY <2>2, <2>3, <2>4
<1>3. IsSeq(label) /\ CallsKnown(label)
  BY DEF IsSeq, CallsKnown, Label
<1>4. IsSeq(body) /\ CallsKnown(body)
  <2>1. IsSeq(body)
    <3> HIDE DEF block
    <3>1. body = [ k \in 1 .. Len(block.instructions) |-> emit_instruction(block.instructions[k].opcode) ]
      BY <1>1
    <3> HIDE DEF body
    <3> QED BY <1>1, <3>1 DEF IsSeq
  <2>2. CallsKnown(body)
    BY <1>2 DEF CallsKnown
  <2> QED BY <2>1, <2>2
<1>5. EmittedBlock(block) = label \o body
  BY DEF EmittedBlock
<1> HIDE DEF label, body, block
<1>6. IsSeq(label \o body) /\ CallsKnown(label \o body)
  BY <1>3, <1>4, ConcatIsSeq DEF CallsKnown
<1> QED BY <1>5, <1>6 DEF block

-----------------------------------------------------------------------------
LEMMA InitIInv == Init => IInv
BY EmptyIsSeq DEF Init, IInv, SeqsOK, PCs, CollectedOK, TodoOK, ExternsOK, PassedOK, LinesOK,
                  CallsKnown, functions

\* An extern that is added leaves everything declared that was.
LEMMA AddExtern ==
  ASSUME IInv, NEW d, IsExtern(d), externs' = Append(externs, d)
  PROVE  /\ IsSeq(externs')
         /\ \A k \in DOMAIN externs' : IsExtern(externs'[k])
         /\ Identifiers(externs) \subseteq Identifiers(externs')
         /\ d.ident \in Identifiers(externs')
BY AppendIsSeq, IdentifiersAppend DEF IInv, SeqsOK, ExternsOK

LEMMA Inductive == IInv /\ [Next]_vars => IInv'
<1> SUFFICES ASSUME IInv, [Next]_vars PROVE IInv'
  OBVIOUS
<1>0. SeqsOK /\ CollectedOK /\ TodoOK /\ ExternsOK /\ PassedOK /\ LinesOK
  BY DEF IInv
<1>1. /\ IsSeq(functions)
      /\ Len(functions) \in Nat /\ DOMAIN functions = 1 .. Len(functions)
      /\ \A a \in DOMAIN symbols : IsSeq(symbols[a])
  BY <1>0, ProgramOK, ElementsOfSeq DEF SeqsOK
<1>2. CASE Collect
  <2>1. program' = program
    BY <1>2 DEF Collect
  <2>2. SeqsOK'
    BY <1>0, <1>2 DEF Collect, SeqsOK, PCs
  <2>3. CollectedOK'
    BY <1>2, <2>1, Stable DEF Collect, CollectedOK
  <2>4. TodoOK'
    BY <1>0, <1>2, <2>1, Stable DEF Collect, TodoOK
  <2>5. ExternsOK'
    BY <1>0, <1>2 DEF Collect, ExternsOK
  <2>6. PassedOK'
    BY <1>2 DEF Collect, PassedOK
  <2>7. LinesOK'
    BY <1>0, <1>2 DEF Collect, LinesOK, CallsKnown, Known
  <2> QED BY <2>2, <2>3, <2>4, <2>5, <2>6, <2>7 DEF IInv
<1>3. CASE DeclareLibc
  <2>0. PICK name \in todo :
          /\ IF IsLibc(name)
               THEN /\ externs' = Append(externs, DeclarationOf(name))
                    /\ declared_names' = declared_names \cup {name}
               ELSE UNCHANGED << externs, declared_names >>
          /\ todo' = todo \ {name}
    BY <1>3 DEF DeclareLibc
  <2>1. /\ pc = "libc"
        /\ UNCHANGED << program, pc, extern_targets, extern_names, forwards, bodies, lines >>
    BY <1>3 DEF DeclareLibc
  <2>2. IsSeq(name) /\ name \in extern_names
    BY <1>0, <2>1, ExternalNamesAreSeqs DEF TodoOK, CollectedOK, SeqsOK
  <2>3. /\ IsSeq(externs')
        /\ \A k \in DOMAIN externs' : IsExtern(externs'[k])
        /\ Identifiers(externs) \subseteq Identifiers(externs')
        /\ IsLibc(name) => sanitise_c_ident(name) \in Identifiers(externs')
    <3>1. CASE IsLibc(name)
      <4>1. IsExtern(DeclarationOf(name))
        BY <2>2 DEF IsExtern
      <4> QED BY <2>0, <2>2, <3>1, <4>1, AddExtern, DeclarationIdent
    <3>2. CASE ~IsLibc(name)
      BY <1>0, <2>0, <3>2 DEF SeqsOK, ExternsOK
    <3> QED BY <3>1, <3>2
  <2>4. SeqsOK'
    BY <1>0, <2>1, <2>3 DEF SeqsOK
  <2>5. CollectedOK'
    BY <1>0, <2>1, Stable DEF CollectedOK
  <2>6. TodoOK'
    BY <1>0, <2>0, <2>1, Stable DEF TodoOK
  <2>7. ExternsOK'
    <3>1. ASSUME NEW n \in declared_names'
          PROVE  IsSeq(n) /\ sanitise_c_ident(n) \in Identifiers(externs')
      BY <1>0, <2>0, <2>2, <2>3 DEF ExternsOK
    <3> QED BY <2>1, <2>3, <3>1 DEF ExternsOK
  <2>8. PassedOK'
    BY <1>0, <2>0, <2>1 DEF PassedOK
  <2>9. LinesOK'
    BY <1>0, <2>1, EmptyIsSeq DEF LinesOK, TodoOK, CallsKnown
  <2> QED BY <2>4, <2>5, <2>6, <2>7, <2>8, <2>9 DEF IInv
<1>4. CASE EndLibc
  <2>1. program' = program
    BY <1>4 DEF EndLibc
  <2>2. SeqsOK'
    BY <1>0, <1>4 DEF EndLibc, SeqsOK, PCs
  <2>3. CollectedOK'
    BY <1>0, <1>4, <2>1, Stable DEF EndLibc, CollectedOK
  <2>4. TodoOK'
    BY <1>0, <1>4, <2>1, Stable DEF EndLibc, TodoOK
  <2>5. ExternsOK'
    BY <1>0, <1>4 DEF EndLibc, ExternsOK
  <2>6. PassedOK'
    BY <1>0, <1>4 DEF EndLibc, PassedOK
  <2>7. LinesOK'
    BY <1>0, <1>4 DEF EndLibc, LinesOK, CallsKnown, Known
  <2> QED BY <2>2, <2>3, <2>4, <2>5, <2>6, <2>7 DEF IInv
<1>5. CASE DeclareStub
  <2>0. PICK name \in todo :
          /\ externs' = IF name \in declared_names THEN externs ELSE Append(externs, StubFor(name))
          /\ todo' = todo \ {name}
    BY <1>5 DEF DeclareStub
  <2>1. /\ pc = "stubs"
        /\ UNCHANGED << program, pc, extern_targets, extern_names, declared_names, forwards,
                        bodies, lines >>
    BY <1>5 DEF DeclareStub
  <2>2. IsSeq(name) /\ name \in extern_names
    BY <1>0, <2>1, ExternalNamesAreSeqs DEF TodoOK, CollectedOK, SeqsOK
  <2>3. /\ IsSeq(externs')
        /\ \A k \in DOMAIN externs' : IsExtern(externs'[k])
        /\ Identifiers(externs) \subseteq Identifiers(externs')
        /\ sanitise_c_ident(name) \in Identifiers(externs')
    <3>1. CASE name \in declared_names
      BY <1>0, <2>0, <3>1 DEF SeqsOK, ExternsOK
    <3>2. CASE name \notin declared_names
      <4>1. ~IsLibc(name)
        BY <1>0, <2>1, <2>2, <3>2 DEF PassedOK
      <4>2. IsExtern(StubFor(name)) /\ StubFor(name).ident = sanitise_c_ident(name)
        BY <2>2, <4>1, StubIsExtern DEF StubFor, Declaration
      <4>3. externs' = Append(externs, StubFor(name))
        BY <2>0, <3>2
      <4> QED BY <4>2, <4>3, AddExtern
    <3> QED BY <3>1, <3>2
  <2>4. SeqsOK'
    BY <1>0, <2>1, <2>3 DEF SeqsOK
  <2>5. CollectedOK'
    BY <1>0, <2>1, Stable DEF CollectedOK
  <2>6. TodoOK'
    BY <1>0, <2>0, <2>1, Stable DEF TodoOK
  <2>7. ExternsOK'
    BY <1>0, <2>1, <2>3 DEF ExternsOK
  <2>8. PassedOK'
    BY <1>0, <2>0, <2>1, <2>3 DEF PassedOK
  <2>9. LinesOK'
    BY <1>0, <2>1, EmptyIsSeq DEF LinesOK, TodoOK, CallsKnown
  <2> QED BY <2>4, <2>5, <2>6, <2>7, <2>8, <2>9 DEF IInv
<1>6. CASE EndStubs
  <2>1. program' = program
    BY <1>6 DEF EndStubs
  <2>2. SeqsOK'
    BY <1>0, <1>6 DEF EndStubs, SeqsOK, PCs
  <2>3. CollectedOK'
    BY <1>0, <1>6, <2>1, Stable DEF EndStubs, CollectedOK
  <2>4. TodoOK'
    BY <1>0, <1>6, <2>1, Stable DEF EndStubs, TodoOK
  <2>5. ExternsOK'
    BY <1>0, <1>6 DEF EndStubs, ExternsOK
  <2>6. PassedOK'
    BY <1>0, <1>6 DEF EndStubs, PassedOK
  <2>7. LinesOK'
    BY <1>0, <1>6 DEF EndStubs, LinesOK, CallsKnown, Known
  <2> QED BY <2>2, <2>3, <2>4, <2>5, <2>6, <2>7 DEF IInv
<1>7. CASE DeclareTarget
  <2>0. PICK addr \in todo :
          /\ IF addr \in DOMAIN symbols
               THEN IF symbols[addr] \in declared_names
                      THEN UNCHANGED << externs, declared_names >>
                      ELSE /\ externs' = Append(externs, DeclarationOf(symbols[addr]))
                           /\ declared_names' = declared_names \cup { symbols[addr] }
               ELSE /\ externs' = Append(externs, Declaration(stub_name(addr), NoArgs))
                    /\ UNCHANGED declared_names
          /\ todo' = todo \ {addr}
    BY <1>7 DEF DeclareTarget
  <2>1. /\ pc = "targets"
        /\ UNCHANGED << program, pc, extern_targets, extern_names, forwards, bodies, lines >>
    BY <1>7 DEF DeclareTarget
  <2>2. addr \in extern_targets /\ addr \notin emitted_addrs
    BY <1>0, <2>1 DEF TodoOK, CollectedOK
  <2>3. /\ IsSeq(externs')
        /\ \A k \in DOMAIN externs' : IsExtern(externs'[k])
        /\ Identifiers(externs) \subseteq Identifiers(externs')
        /\ resolve_call_name(addr) \in Identifiers(externs')
        /\ \A n \in declared_names' : IsSeq(n) /\ sanitise_c_ident(n) \in Identifiers(externs')
    <3>1. CASE addr \in DOMAIN symbols /\ symbols[addr] \in declared_names
      <4>1. resolve_call_name(addr) = sanitise_c_ident(symbols[addr])
        BY <2>2, <3>1 DEF resolve_call_name
      <4> QED BY <1>0, <2>0, <3>1, <4>1 DEF SeqsOK, ExternsOK
    <3>2. CASE addr \in DOMAIN symbols /\ symbols[addr] \notin declared_names
      <4>1. resolve_call_name(addr) = sanitise_c_ident(symbols[addr])
        BY <2>2, <3>2 DEF resolve_call_name
      <4>2. IsSeq(symbols[addr])
        BY <1>1, <3>2
      <4>3. IsExtern(DeclarationOf(symbols[addr]))
        BY <4>2 DEF IsExtern
      <4>4. /\ externs' = Append(externs, DeclarationOf(symbols[addr]))
            /\ declared_names' = declared_names \cup { symbols[addr] }
        BY <2>0, <3>2
      <4>5. /\ IsSeq(externs')
            /\ \A k \in DOMAIN externs' : IsExtern(externs'[k])
            /\ Identifiers(externs) \subseteq Identifiers(externs')
            /\ sanitise_c_ident(symbols[addr]) \in Identifiers(externs')
        BY <4>2, <4>3, <4>4, AddExtern, DeclarationIdent
      <4> QED BY <1>0, <4>1, <4>2, <4>4, <4>5 DEF ExternsOK
    <3>3. CASE addr \notin DOMAIN symbols
      <4>1. resolve_call_name(addr) = stub_name(addr)
        BY <2>2, <3>3 DEF resolve_call_name
      <4>2. /\ IsExtern(Declaration(stub_name(addr), NoArgs))
            /\ Declaration(stub_name(addr), NoArgs).ident = stub_name(addr)
        BY UnnamedStubIsExtern DEF Declaration
      <4>3. /\ externs' = Append(externs, Declaration(stub_name(addr), NoArgs))
            /\ declared_names' = declared_names
        BY <2>0, <3>3
      <4>4. /\ IsSeq(externs')
            /\ \A k \in DOMAIN externs' : IsExtern(externs'[k])
            /\ Identifiers(externs) \subseteq Identifiers(externs')
            /\ stub_name(addr) \in Identifiers(externs')
        BY <4>2, <4>3, AddExtern
      <4> QED BY <1>0, <4>1, <4>3, <4>4 DEF ExternsOK
    <3> QED BY <3>1, <3>2, <3>3
  <2>4. SeqsOK'
    BY <1>0, <2>1, <2>3 DEF SeqsOK
  <2>5. CollectedOK'
    BY <1>0, <2>1, Stable DEF CollectedOK
  <2>6. TodoOK'
    BY <1>0, <2>0, <2>1, Stable DEF TodoOK
  <2>7. ExternsOK'
    BY <2>1, <2>3 DEF ExternsOK
  <2>8. PassedOK'
    <3>1. \A a \in extern_targets \ todo' : resolve_call_name(a) \in Identifiers(externs')
      BY <1>0, <2>0, <2>1, <2>3 DEF PassedOK
    <3> QED BY <1>0, <2>1, <2>3, <3>1, Stable DEF PassedOK
  <2>9. LinesOK'
    BY <1>0, <2>1, EmptyIsSeq DEF LinesOK, TodoOK, CallsKnown
  <2> QED BY <2>4, <2>5, <2>6, <2>7, <2>8, <2>9 DEF IInv
<1>8. CASE EndTargets
  <2>1. program' = program
    BY <1>8 DEF EndTargets
  <2>2. SeqsOK'
    <3>1. IsSeq(forwards')
      <4>1. forwards' = [ f \in 1 .. Len(functions) |-> sanitise_c_ident(functions[f].name) ]
        BY <1>1, <1>8 DEF EndTargets
      <4> QED BY <1>1, <4>1 DEF IsSeq
    <3> QED BY <1>0, <1>8, <3>1 DEF EndTargets, SeqsOK, PCs
  <2>3. CollectedOK'
    BY <1>0, <1>8, <2>1, Stable DEF EndTargets, CollectedOK
  <2>4. TodoOK'
    BY <1>0, <1>8, <2>1, Stable DEF EndTargets, TodoOK
  <2>5. ExternsOK'
    BY <1>0, <1>8 DEF EndTargets, ExternsOK
  <2>6. PassedOK'
    BY <1>0, <1>8, <2>1, Stable DEF EndTargets, PassedOK
  <2>7. LinesOK'
    BY <1>0, <1>8, EmptyIsSeq DEF EndTargets, LinesOK, TodoOK, CallsKnown
  <2> QED BY <2>2, <2>3, <2>4, <2>5, <2>6, <2>7 DEF IInv
<1>9. CASE BeginFunction
  <2>1. program' = program
    BY <1>9 DEF BeginFunction
  <2>2. SeqsOK'
    BY <1>0, <1>9, EmptyIsSeq DEF BeginFunction, SeqsOK, PCs
  <2>3. CollectedOK'
    BY <1>0, <1>9, <2>1, Stable DEF BeginFunction, CollectedOK
  <2>4. TodoOK'
    BY <1>0, <1>9, <2>1, Stable DEF BeginFunction, TodoOK, fn
  <2>5. ExternsOK'
    BY <1>0, <1>9 DEF BeginFunction, ExternsOK
  <2>6. PassedOK'
    BY <1>0, <1>9, <2>1, Stable DEF BeginFunction, PassedOK
  <2>7. LinesOK'
    BY <1>0, <1>9, EmptyIsSeq DEF BeginFunction, LinesOK, CallsKnown, Known
  <2> QED BY <2>2, <2>3, <2>4, <2>5, <2>6, <2>7 DEF IInv
<1>10. CASE EmitBlock
  <2>0. PICK b \in todo : lines' = lines \o EmittedBlock(fn.blocks[b]) /\ todo' = todo \ {b}
    BY <1>10 DEF EmitBlock
  <2>1. /\ pc = "block"
        /\ UNCHANGED << program, pc, extern_targets, extern_names, declared_names, externs,
                        forwards, bodies >>
    BY <1>10 DEF EmitBlock
  <2>2. IsSeq(EmittedBlock(fn.blocks[b])) /\ CallsKnown(EmittedBlock(fn.blocks[b]))
    <3>1. Len(bodies) \in Nat /\ Len(bodies) < Len(functions)
      BY <1>0, <2>1, ElementsOfSeq DEF SeqsOK, TodoOK
    <3>2. Len(bodies) + 1 \in DOMAIN functions
      BY <1>1, <3>1
    <3>3. b \in DOMAIN fn.blocks
      BY <1>0, <2>1 DEF TodoOK
    <3> QED BY <2>1, <3>2, <3>3, EmittedBlockKnown DEF fn
  <2>3. SeqsOK'
    <3>1. IsSeq(lines')
      BY <1>0, <2>0, <2>2, ConcatIsSeq DEF SeqsOK
    <3> QED BY <1>0, <2>1, <3>1 DEF SeqsOK
  <2>4. CollectedOK'
    BY <1>0, <2>1, Stable DEF CollectedOK
  <2>5. TodoOK'
    BY <1>0, <2>0, <2>1, Stable DEF TodoOK, fn
  <2>6. ExternsOK'
    BY <1>0, <2>1 DEF ExternsOK
  <2>7. PassedOK'
    BY <1>0, <2>1, Stable DEF PassedOK
  <2>8. LinesOK'
    <3>1. Known' = Known
      BY <2>1 DEF Known
    <3>2. CallsKnown(lines \o EmittedBlock(fn.blocks[b]))
      BY <1>0, <2>2, ConcatIsSeq DEF SeqsOK, LinesOK, CallsKnown
    <3> QED BY <1>0, <2>0, <2>1, <3>1, <3>2 DEF LinesOK, CallsKnown
  <2> QED BY <2>3, <2>4, <2>5, <2>6, <2>7, <2>8 DEF IInv
<1>11. CASE EndFunction
  <2> DEFINE body == [ name |-> sanitise_c_ident(fn.name), lines |-> Append(lines, ReturnRax) ]
  <2>1. /\ pc = "block" /\ pc' = "function" /\ bodies' = Append(bodies, body)
        /\ UNCHANGED << program, extern_targets, extern_names, declared_names, todo, externs,
                        forwards, lines >>
    BY <1>11 DEF EndFunction
  <2>2. IsSeq(body.lines) /\ CallsKnown(body.lines)
    <3>1. IsSeq(Append(lines, ReturnRax)) /\ CallsKnown(Append(lines, ReturnRax))
      BY <1>0, AppendIsSeq DEF SeqsOK, LinesOK, CallsKnown, ReturnRax
    <3> QED BY <3>1
  <2> HIDE DEF body
  <2>3. /\ IsSeq(bodies') /\ Len(bodies') = Len(bodies) + 1
        /\ \A f \in DOMAIN bodies' : IsSeq(bodies'[f].lines) /\ CallsKnown(bodies'[f].lines)
    BY <1>0, <2>1, <2>2, AppendIsSeq DEF SeqsOK, LinesOK
  <2>4. SeqsOK'
    BY <1>0, <2>1, <2>3 DEF SeqsOK, PCs
  <2>5. CollectedOK'
    BY <1>0, <2>1, Stable DEF CollectedOK
  <2>6. TodoOK'
    <3>1. Len(bodies) \in Nat /\ Len(bodies) < Len(functions)
      BY <1>0, <2>1, ElementsOfSeq DEF SeqsOK, TodoOK
    <3> QED BY <1>1, <2>1, <2>3, <3>1, Stable DEF TodoOK
  <2>7. ExternsOK'
    BY <1>0, <2>1 DEF ExternsOK
  <2>8. PassedOK'
    BY <1>0, <2>1, Stable DEF PassedOK
  <2>9. LinesOK'
    <3>1. Known' = Known
      BY <2>1 DEF Known
    <3> QED BY <1>0, <2>1, <2>3, <3>1 DEF LinesOK, CallsKnown
  <2> QED BY <2>4, <2>5, <2>6, <2>7, <2>8, <2>9 DEF IInv
<1>12. CASE Finish
  <2>1. program' = program
    BY <1>12 DEF Finish
  <2>2. SeqsOK'
    BY <1>0, <1>12 DEF Finish, SeqsOK, PCs
  <2>3. CollectedOK'
    BY <1>0, <1>12, <2>1, Stable DEF Finish, CollectedOK
  <2>4. TodoOK'
    BY <1>0, <1>12, <2>1, Stable DEF Finish, TodoOK
  <2>5. ExternsOK'
    BY <1>0, <1>12 DEF Finish, ExternsOK
  <2>6. PassedOK'
    BY <1>0, <1>12, <2>1, Stable DEF Finish, PassedOK
  <2>7. LinesOK'
    BY <1>0, <1>12 DEF Finish, LinesOK, CallsKnown, Known
  <2> QED BY <2>2, <2>3, <2>4, <2>5, <2>6, <2>7 DEF IInv
<1>13. CASE UNCHANGED vars
  <2>1. /\ UNCHANGED << program, pc, extern_targets, extern_names, declared_names, todo >>
        /\ UNCHANGED << externs, forwards, bodies, lines >>
    BY <1>13 DEF vars
  <2>2. SeqsOK'
    BY <1>0, <2>1 DEF SeqsOK
  <2>3. CollectedOK'
    BY <1>0, <2>1, Stable DEF CollectedOK
  <2>4. TodoOK'
    BY <1>0, <2>1, Stable DEF TodoOK, fn
  <2>5. ExternsOK'
    BY <1>0, <2>1 DEF ExternsOK
  <2>6. PassedOK'
    BY <1>0, <2>1, Stable DEF PassedOK
  <2>7. LinesOK'
    BY <1>0, <2>1 DEF LinesOK, CallsKnown, Known
  <2> QED BY <2>2, <2>3, <2>4, <2>5, <2>6, <2>7 DEF IInv
<1> QED BY <1>2, <1>3, <1>4, <1>5, <1>6, <1>7, <1>8, <1>9, <1>10, <1>11, <1>12, <1>13
        DEF Next, Terminated

LEMMA Invariance == Spec => []IInv
BY InitIInv, Inductive, PTL DEF Spec

-----------------------------------------------------------------------------
(* The properties.                                                         *)

\* emit_c's variables have their types, and its loops walk over what they should.
THEOREM TypeCorrect == Spec => []TypeOK
<1>1. IInv => TypeOK
  BY DEF IInv, SeqsOK, PCs, CollectedOK, TodoOK, TypeOK
<1> QED BY <1>1, Invariance, PTL

\* For every program each function that the C calls by name is declared before.
THEOREM CallsAreDeclared == Spec => []CallsDeclared
<1>1. IInv => CallsDeclared
  BY DEF IInv, LinesOK, CallsKnown, CallsDeclared, Known, Lines
<1> QED BY <1>1, Invariance, PTL

\* For every program an identifier is declared extern with one type only.
THEOREM ExternsAreConsistent == Spec => []ExternsAgree
<1>1. IInv => ExternsAgree
  BY ExternsByIdent DEF IInv, ExternsOK, ExternsAgree
<1> QED BY <1>1, Invariance, PTL

-----------------------------------------------------------------------------
(* Where the lines of the emitted bodies are: the blocks of a function in
   address order, each behind its label, and the calls with the function at
   their target behind the name.

   The invariant says of the lines so far that they hold exactly the
   blocks that the loop has passed.  The address order of the labels makes
   the label of a block unique in its body, which is what gives the line
   of an instruction a place of its own.                                   *)

LabelsOf(seq) == { i \in DOMAIN seq : seq[i].kind = "label" }

\* From line i on the lines are those of the block.
BlockAt(seq, i, block) ==
  /\ seq[i] = Label(block.start_addr)
  /\ \A k \in DOMAIN block.instructions :
       /\ i + k \in DOMAIN seq
       /\ seq[i + k] = emit_instruction(block.instructions[k].opcode)

\* The lines hold the blocks in D, and no label of another one.
Holds(seq, blocks, D) ==
  /\ \A i \in LabelsOf(seq) : \E b \in D : seq[i].addr = blocks[b].start_addr
  /\ \A i, j \in LabelsOf(seq) : i < j => seq[i].addr < seq[j].addr
  /\ \A b \in D : \E i \in DOMAIN seq : BlockAt(seq, i, blocks[b])

\* The block loop goes through a function in address order.
PassedBlocks == DOMAIN fn.blocks \ todo

BlockLoopInv ==
  pc = "block" =>
    /\ Holds(lines, fn.blocks, PassedBlocks)
    /\ \A b \in PassedBlocks, c \in todo : fn.blocks[b].start_addr < fn.blocks[c].start_addr

Whole(f) ==
  /\ bodies[f].name = sanitise_c_ident(functions[f].name)
  /\ Holds(bodies[f].lines, functions[f].blocks, DOMAIN functions[f].blocks)
  /\ bodies[f].lines[Len(bodies[f].lines)] = ReturnRax

BodyInv ==
  /\ BlockLoopInv
  /\ \A f \in DOMAIN bodies : Whole(f)
  /\ pc = "done" => Len(bodies) = Len(functions)

-----------------------------------------------------------------------------
(* Facts the steps rest on.                                                *)

LEMMA InstructionIsNoLabel ==
  ASSUME NEW o
  PROVE  emit_instruction(o).kind # "label"
BY DEF emit_instruction, Goto, IfGoto, ReturnRax, CallOf, CallThrough, Statement

LEMMA StableLines ==
  ASSUME program' = program
  PROVE  \A o : emit_instruction(o)' = emit_instruction(o)
BY Stable DEF emit_instruction, resolve_call_name, func_names, emitted_addrs, functions, symbols

LEMMA EmittedShape ==
  ASSUME NEW block, IsBlock(block)
  PROVE  /\ IsSeq(EmittedBlock(block))
         /\ EmittedBlock(block)[1] = Label(block.start_addr)
         /\ 1 \in DOMAIN EmittedBlock(block)
         /\ \A k \in DOMAIN block.instructions :
              /\ k + 1 \in DOMAIN EmittedBlock(block)
              /\ EmittedBlock(block)[k + 1] = emit_instruction(block.instructions[k].opcode)
         /\ LabelsOf(EmittedBlock(block)) = {1}
<1> DEFINE label == << Label(block.start_addr) >>
           tail  == [ k \in DOMAIN block.instructions |-> emit_instruction(block.instructions[k].opcode) ]
           e     == EmittedBlock(block)
<1>1. /\ IsSeq(block.instructions) /\ DOMAIN block.instructions = 1 .. Len(block.instructions)
      /\ Len(block.instructions) \in Nat
  BY ElementsOfSeq DEF IsBlock
<1>2. IsSeq(tail) /\ DOMAIN tail = 1 .. Len(block.instructions)
  <2>1. tail = [ k \in 1 .. Len(block.instructions) |-> emit_instruction(block.instructions[k].opcode) ]
    BY <1>1
  <2> HIDE DEF tail
  <2> QED BY <1>1, <2>1 DEF IsSeq
<1>3. IsSeq(label) /\ Len(label) = 1 /\ DOMAIN label = {1} /\ label[1] = Label(block.start_addr)
  BY DEF IsSeq
<1>4. IsConcat(e, label, tail)
  BY DEF EmittedBlock, IsConcat
<1>5. \A k \in DOMAIN block.instructions : tail[k] = emit_instruction(block.instructions[k].opcode)
  OBVIOUS
<1> HIDE DEF label, tail, e
<1>c. /\ IsSeq(e) /\ DOMAIN e \subseteq Nat
      /\ \A k \in DOMAIN label : k \in DOMAIN e /\ e[k] = label[k]
      /\ \A k \in DOMAIN tail : Len(label) + k \in DOMAIN e /\ e[Len(label) + k] = tail[k]
      /\ \A k \in DOMAIN e : \/ k \in DOMAIN label /\ e[k] = label[k]
                             \/ k - Len(label) \in DOMAIN tail /\ e[k] = tail[k - Len(label)]
  BY <1>2, <1>3, <1>4, ConcatParts
<1>6. IsSeq(e) /\ 1 \in DOMAIN e /\ e[1] = Label(block.start_addr)
  BY <1>3, <1>c
<1>7. ASSUME NEW k \in DOMAIN block.instructions
      PROVE  k + 1 \in DOMAIN e /\ e[k + 1] = emit_instruction(block.instructions[k].opcode)
  <2>1. k \in Nat /\ Len(label) + k = k + 1
    BY <1>1, <1>3
  <2> QED BY <1>1, <1>2, <1>c, <1>5, <2>1
<1>8. ASSUME NEW j \in DOMAIN e, j # 1
      PROVE  e[j].kind # "label"
  <2>1. j - 1 \in DOMAIN tail /\ e[j] = tail[j - 1]
    BY <1>3, <1>c, <1>8
  <2> QED BY <1>1, <1>2, <1>5, <2>1, InstructionIsNoLabel
<1>9. e[1].kind = "label"
  BY <1>6 DEF Label
<1> QED BY <1>6, <1>7, <1>8, <1>9 DEF LabelsOf, e

\* A block behind the ones that are there, which begin before it.
LEMMA HoldsNext ==
  ASSUME NEW s, IsSeq(s), NEW blocks, NEW D, NEW b, Holds(s, blocks, D), IsBlock(blocks[b]),
         \A d \in D : blocks[d].start_addr < blocks[b].start_addr
  PROVE  Holds(s \o EmittedBlock(blocks[b]), blocks, D \cup {b})
<1> DEFINE e == EmittedBlock(blocks[b])
           u == s \o e
<1>1. IsSeq(e) /\ e[1] = Label(blocks[b].start_addr) /\ 1 \in DOMAIN e /\ LabelsOf(e) = {1}
  BY EmittedShape
<1>2. \A k \in DOMAIN blocks[b].instructions :
        k + 1 \in DOMAIN e /\ e[k + 1] = emit_instruction(blocks[b].instructions[k].opcode)
  BY EmittedShape
<1>u. IsConcat(u, s, e)
  BY DEF IsConcat
<1> HIDE DEF e, u
<1>3. /\ \A k \in DOMAIN s : k \in DOMAIN u /\ u[k] = s[k]
      /\ \A k \in DOMAIN e : Len(s) + k \in DOMAIN u /\ u[Len(s) + k] = e[k]
      /\ \A k \in DOMAIN u : \/ k \in DOMAIN s /\ u[k] = s[k]
                             \/ k - Len(s) \in DOMAIN e /\ u[k] = e[k - Len(s)]
      /\ DOMAIN u \subseteq Nat
      /\ Len(s) \in Nat /\ DOMAIN s = 1 .. Len(s) /\ DOMAIN e \subseteq Nat
  BY <1>1, <1>u, ConcatParts
<1>4. Len(s) \in Nat /\ DOMAIN s = 1 .. Len(s) /\ DOMAIN e \subseteq Nat
  BY <1>3
<1>5. ASSUME NEW i \in LabelsOf(u)
      PROVE  \/ i \in LabelsOf(s) /\ u[i] = s[i]
             \/ i = Len(s) + 1 /\ u[i].addr = blocks[b].start_addr
  <2>1. CASE i \in DOMAIN s /\ u[i] = s[i]
    BY <2>1 DEF LabelsOf
  <2>2. CASE i - Len(s) \in DOMAIN e /\ u[i] = e[i - Len(s)]
    <3>1. i - Len(s) \in LabelsOf(e)
      BY <2>2 DEF LabelsOf
    <3>2. i - Len(s) = 1 /\ i \in Nat
      BY <1>1, <1>3, <3>1 DEF LabelsOf
    <3>3. i = Len(s) + 1
      BY <1>4, <3>2
    <3> QED BY <1>1, <2>2, <3>2, <3>3 DEF Label
  <2> QED BY <1>3, <2>1, <2>2 DEF LabelsOf
<1>6. ASSUME NEW i \in LabelsOf(u)
      PROVE  \E d \in D \cup {b} : u[i].addr = blocks[d].start_addr
  BY <1>5 DEF Holds
<1>7. ASSUME NEW i \in LabelsOf(u), NEW j \in LabelsOf(u), i < j
      PROVE  u[i].addr < u[j].addr
  <2>1. CASE j \in LabelsOf(s) /\ u[j] = s[j]
    <3>1. j <= Len(s) /\ i <= Len(s) /\ i \in Nat
      BY <1>3, <1>4, <1>7, <2>1 DEF LabelsOf
    <3>2. i \in LabelsOf(s) /\ u[i] = s[i]
      BY <1>4, <1>5, <3>1
    <3> QED BY <1>7, <2>1, <3>2 DEF Holds
  <2>2. CASE j = Len(s) + 1 /\ u[j].addr = blocks[b].start_addr
    <3>0. i \in Nat /\ i # Len(s) + 1
      BY <1>3, <1>7, <2>2 DEF LabelsOf
    <3>1. i \in LabelsOf(s) /\ u[i] = s[i]
      BY <1>5, <3>0
    <3>2. PICK d \in D : s[i].addr = blocks[d].start_addr
      BY <3>1 DEF Holds
    <3> QED BY <2>2, <3>1, <3>2
  <2> QED BY <1>5, <2>1, <2>2
<1>8. ASSUME NEW d \in D
      PROVE  \E i \in DOMAIN u : BlockAt(u, i, blocks[d])
  <2>1. PICK i \in DOMAIN s : BlockAt(s, i, blocks[d])
    BY DEF Holds
  <2> QED BY <1>3, <2>1 DEF BlockAt
<1>9. BlockAt(u, Len(s) + 1, blocks[b]) /\ Len(s) + 1 \in DOMAIN u
  <2>1. Len(s) + 1 \in DOMAIN u /\ u[Len(s) + 1] = Label(blocks[b].start_addr)
    BY <1>1, <1>3
  <2>2. ASSUME NEW k \in DOMAIN blocks[b].instructions
        PROVE  /\ (Len(s) + 1) + k \in DOMAIN u
               /\ u[(Len(s) + 1) + k] = emit_instruction(blocks[b].instructions[k].opcode)
    <3>1. k \in Nat
      <4>1. DOMAIN blocks[b].instructions = 1 .. Len(blocks[b].instructions)
        BY ElementsOfSeq, Zenon DEF IsBlock
      <4> QED BY <4>1
    <3>2. (Len(s) + 1) + k = Len(s) + (k + 1)
      BY <1>4, <3>1
    <3> QED BY <1>2, <1>3, <3>2
  <2> QED BY <2>1, <2>2 DEF BlockAt
<1> QED BY <1>6, <1>7, <1>8, <1>9 DEF Holds, u, e

\* A line that is no label and comes last takes nothing away.
LEMMA HoldsReturn ==
  ASSUME NEW s, IsSeq(s), NEW blocks, NEW D, Holds(s, blocks, D)
  PROVE  Holds(Append(s, ReturnRax), blocks, D)
<1> DEFINE u == Append(s, ReturnRax)
<1>1. /\ \A k \in DOMAIN s : k \in DOMAIN u /\ u[k] = s[k]
      /\ \A k \in DOMAIN u : k \in DOMAIN s \/ u[k] = ReturnRax
  BY AppendIsSeq
<1> HIDE DEF u
<1>2. LabelsOf(u) = LabelsOf(s)
  BY <1>1 DEF LabelsOf, ReturnRax
<1>3. \A i \in LabelsOf(s) : u[i] = s[i]
  BY <1>1 DEF LabelsOf
<1>4. ASSUME NEW d \in D
      PROVE  \E i \in DOMAIN u : BlockAt(u, i, blocks[d])
  <2>1. PICK i \in DOMAIN s : BlockAt(s, i, blocks[d])
    BY DEF Holds
  <2> QED BY <1>1, <2>1 DEF BlockAt
<1> QED BY <1>2, <1>3, <1>4 DEF Holds, u

\* The label of a block is at one place of a body only.
LEMMA LabelUnique ==
  ASSUME NEW s, IsSeq(s), NEW blocks, NEW D, Holds(s, blocks, D),
         \A d \in D : blocks[d].start_addr \in Nat,
         NEW i \in LabelsOf(s), NEW j \in LabelsOf(s), s[i].addr = s[j].addr
  PROVE  i = j
<1>1. i \in Nat /\ j \in Nat
  <2>1. DOMAIN s = 1 .. Len(s)
    BY ElementsOfSeq, Zenon
  <2> QED BY <2>1 DEF LabelsOf
<1>2. s[i].addr \in Nat
  BY DEF Holds
<1>3. ~ (i < j) /\ ~ (j < i)
  BY <1>2 DEF Holds
<1> QED BY <1>1, <1>3

-----------------------------------------------------------------------------
(* The invariant.                                                          *)

LEMMA InitBodyInv == Init => BodyInv
BY DEF Init, BodyInv, BlockLoopInv

\* What is there stays as it is while the program and the bodies do.
LEMMA WholeStays ==
  ASSUME IInv, BodyInv, program' = program, NEW f \in DOMAIN bodies, bodies'[f] = bodies[f]
  PROVE  Whole(f)'
<1>1. \A o : emit_instruction(o)' = emit_instruction(o)
  BY StableLines
<1>2. functions' = functions
  BY Stable
<1>3. Whole(f)
  BY DEF BodyInv
<1> QED BY <1>1, <1>2, <1>3 DEF Whole, Holds, BlockAt, LabelsOf, Label, ReturnRax

LEMMA NextBodyInv ==
  ASSUME IInv, BodyInv, [Next]_vars
  PROVE  BodyInv'
<1>s. /\ IsSeq(bodies) /\ IsSeq(lines) /\ Len(bodies) \in Nat /\ DOMAIN bodies = 1 .. Len(bodies)
      /\ IsSeq(functions) /\ Len(functions) \in Nat /\ DOMAIN functions = 1 .. Len(functions)
      /\ Len(bodies) <= Len(functions)
  BY ProgramOK, ElementsOfSeq DEF IInv, SeqsOK, TodoOK
<1>1. CASE BeginFunction
  <2>1. /\ UNCHANGED << program, bodies >> /\ pc' = "block" /\ lines' = << >>
        /\ todo' = DOMAIN fn.blocks
    BY <1>1 DEF BeginFunction
  <2>2. fn' = fn
    BY <2>1, Stable DEF fn
  <2>3. PassedBlocks' = {}
    BY <2>1, <2>2 DEF PassedBlocks
  <2>4. LabelsOf(lines)' = {}
    BY <2>1, EmptyIsSeq DEF LabelsOf
  <2>5. BlockLoopInv'
    BY <2>1, <2>2, <2>3, <2>4 DEF BlockLoopInv, Holds, LabelsOf
  <2>6. \A f \in DOMAIN bodies' : Whole(f)'
    BY <2>1, WholeStays
  <2> QED BY <2>1, <2>5, <2>6 DEF BodyInv
<1>2. CASE EmitBlock
  <2>1. PICK b \in todo :
          /\ \A c \in todo \ {b} :
               \/ fn.blocks[b].start_addr < fn.blocks[c].start_addr
               \/ fn.blocks[b].start_addr = fn.blocks[c].start_addr /\ b < c
          /\ lines' = lines \o EmittedBlock(fn.blocks[b])
          /\ todo' = todo \ {b}
    BY <1>2 DEF EmitBlock
  <2>2. pc = "block" /\ pc' = "block" /\ UNCHANGED << program, bodies >>
    BY <1>2 DEF EmitBlock
  <2>3. fn' = fn
    BY <2>2, Stable DEF fn
  <2>4. Len(bodies) + 1 \in DOMAIN functions /\ todo \subseteq DOMAIN fn.blocks
    BY <1>s, <2>2 DEF IInv, TodoOK
  <2>5. /\ IsBlock(fn.blocks[b])
        /\ \A c \in todo \ {b} : fn.blocks[b].start_addr # fn.blocks[c].start_addr
    BY <2>4, ProgramOK DEF fn, IInv, SeqsOK
  <2>6. /\ Holds(lines, fn.blocks, PassedBlocks)
        /\ \A c \in PassedBlocks, d \in todo : fn.blocks[c].start_addr < fn.blocks[d].start_addr
    BY <2>2 DEF BodyInv, BlockLoopInv
  <2>7. PassedBlocks' = PassedBlocks \cup {b}
    BY <2>1, <2>3, <2>4 DEF PassedBlocks
  <2>8. Holds(lines \o EmittedBlock(fn.blocks[b]), fn.blocks, PassedBlocks \cup {b})
    BY <1>s, <2>5, <2>6, HoldsNext
  <2>9. Holds(lines, fn.blocks, PassedBlocks)'
    <3>1. \A o : emit_instruction(o)' = emit_instruction(o)
      BY <2>2, StableLines
    <3> QED BY <2>1, <2>3, <2>7, <2>8, <3>1 DEF Holds, BlockAt, LabelsOf, Label
  <2>10. \A c \in PassedBlocks', d \in todo' : fn'.blocks[c].start_addr < fn'.blocks[d].start_addr
    BY <2>1, <2>3, <2>5, <2>6, <2>7
  <2>11. \A f \in DOMAIN bodies' : Whole(f)'
    BY <2>2, WholeStays
  <2> QED BY <2>2, <2>9, <2>10, <2>11 DEF BodyInv, BlockLoopInv
<1>3. CASE EndFunction
  <2> DEFINE body == [ name |-> sanitise_c_ident(fn.name), lines |-> Append(lines, ReturnRax) ]
  <2>1. /\ pc = "block" /\ todo = {} /\ pc' = "function" /\ program' = program
        /\ bodies' = Append(bodies, body)
    BY <1>3 DEF EndFunction
  <2>2. body.name = sanitise_c_ident(fn.name) /\ body.lines = Append(lines, ReturnRax)
    OBVIOUS
  <2> HIDE DEF body
  <2>3. Holds(body.lines, fn.blocks, DOMAIN fn.blocks)
    <3>1. PassedBlocks = DOMAIN fn.blocks
      BY <2>1 DEF PassedBlocks
    <3> QED BY <1>s, <2>1, <2>2, <3>1, HoldsReturn DEF BodyInv, BlockLoopInv
  <2>4. body.lines[Len(body.lines)] = ReturnRax
    BY <1>s, <2>2, AppendIsSeq
  <2>5. /\ \A f \in DOMAIN bodies : bodies'[f] = bodies[f]
        /\ \A f \in DOMAIN bodies' : f \in DOMAIN bodies \/ f = Len(bodies) + 1
        /\ bodies'[Len(bodies) + 1] = body
    <3>1. IsSeq(bodies') /\ Len(bodies') = Len(bodies) + 1
      BY <1>s, <2>1, AppendIsSeq
    <3>2. DOMAIN bodies' = 1 .. Len(bodies) + 1
      BY <3>1, ElementsOfSeq
    <3> QED BY <1>s, <2>1, <3>2, AppendIsSeq
  <2>6. ASSUME NEW f \in DOMAIN bodies'
        PROVE  Whole(f)'
    <3>1. CASE f \in DOMAIN bodies
      BY <2>1, <2>5, <3>1, WholeStays
    <3>2. CASE f = Len(bodies) + 1
      <4>1. \A o : emit_instruction(o)' = emit_instruction(o)
        BY <2>1, StableLines
      <4>2. functions'[f] = fn
        BY <2>1, <3>2, Stable DEF fn
      <4>3. bodies'[f] = body
        BY <2>5, <3>2
      <4> QED BY <2>2, <2>3, <2>4, <4>1, <4>2, <4>3 DEF Whole, Holds, BlockAt, LabelsOf, Label, ReturnRax
    <3> QED BY <2>5, <3>1, <3>2
  <2> QED BY <2>1, <2>6 DEF BodyInv, BlockLoopInv
<1>4. CASE Finish
  <2>1. pc' = "done" /\ UNCHANGED << program, bodies >> /\ Len(bodies) >= Len(functions)
    BY <1>4 DEF Finish
  <2>2. \A f \in DOMAIN bodies' : Whole(f)'
    BY <2>1, WholeStays
  <2>3. Len(bodies') = Len(functions')
    <3>1. Len(bodies) = Len(functions)
      <4>1. Len(bodies) >= Len(functions)
        BY <2>1
      <4>2. Len(bodies) <= Len(functions) /\ Len(bodies) \in Nat /\ Len(functions) \in Nat
        BY <1>s
      <4> QED BY <4>1, <4>2
    <3>2. bodies' = bodies /\ functions' = functions
      BY <2>1, Stable
    <3> QED BY <3>1, <3>2, Zenon
  <2> QED BY <2>1, <2>2, <2>3 DEF BodyInv, BlockLoopInv
<1>5. CASE Collect \/ DeclareLibc \/ EndLibc \/ DeclareStub \/ EndStubs \/ DeclareTarget \/ EndTargets
  <2>1. UNCHANGED << program, bodies >> /\ pc' \notin { "block", "done" }
    BY <1>5 DEF Collect, DeclareLibc, EndLibc, DeclareStub, EndStubs, DeclareTarget, EndTargets
  <2>2. \A f \in DOMAIN bodies' : Whole(f)'
    BY <2>1, WholeStays
  <2> QED BY <2>1, <2>2 DEF BodyInv, BlockLoopInv
<1>6. CASE UNCHANGED vars
  <2>1. UNCHANGED << program, pc, bodies, todo, lines >>
    BY <1>6 DEF vars
  <2>2. fn' = fn /\ functions' = functions /\ \A o : emit_instruction(o)' = emit_instruction(o)
    BY <2>1, Stable, StableLines DEF fn
  <2>3. BlockLoopInv'
    BY <2>1, <2>2 DEF BodyInv, BlockLoopInv, PassedBlocks, Holds, BlockAt, LabelsOf, Label
  <2>4. \A f \in DOMAIN bodies' : Whole(f)'
    BY <2>1, WholeStays
  <2> QED BY <2>1, <2>2, <2>3, <2>4 DEF BodyInv
<1> QED BY <1>1, <1>2, <1>3, <1>4, <1>5, <1>6 DEF Next, Terminated

LEMMA BodyInvariance == Spec => [](IInv /\ BodyInv)
BY InitIInv, InitBodyInv, Inductive, NextBodyInv, PTL DEF Spec

-----------------------------------------------------------------------------
(* The properties.                                                         *)

\* The facts about a body that both properties rest on.
LEMMA BodyFacts ==
  ASSUME IInv, BodyInv, NEW f \in DOMAIN bodies
  PROVE  /\ IsSeq(Lines(f)) /\ Body(f) = functions[f].blocks
         /\ Holds(Lines(f), Body(f), DOMAIN Body(f))
         /\ \A b \in DOMAIN Body(f) : IsBlock(Body(f)[b])
         /\ bodies[f].name = sanitise_c_ident(functions[f].name)
         /\ Lines(f)[Len(Lines(f))] = ReturnRax
         /\ f \in DOMAIN functions
<1>1. f \in DOMAIN functions
  BY ProgramOK, ElementsOfSeq DEF IInv, SeqsOK, TodoOK
<1>2. Whole(f)
  BY DEF BodyInv
<1>3. \A b \in DOMAIN functions[f].blocks : IsBlock(functions[f].blocks[b])
  BY <1>1, ProgramOK DEF IInv, SeqsOK
<1> QED BY <1>1, <1>2, <1>3 DEF Whole, Lines, Body, IInv, SeqsOK

\* For every program a body has every block of its function once, in address
\* order, and ends in a return, so that whatever falls through in memory falls
\* through in the C.
THEOREM BodiesKeepAddressOrder == Spec => []BodiesInAddressOrder
<1>1. ASSUME IInv, BodyInv PROVE BodiesInAddressOrder
  <2> SUFFICES ASSUME NEW f \in DOMAIN bodies
               PROVE  /\ { Lines(f)[i].addr : i \in LabelsOf(Lines(f)) }
                            = { Body(f)[b].start_addr : b \in DOMAIN Body(f) }
                      /\ \A i, j \in LabelsOf(Lines(f)) : i < j => Lines(f)[i].addr < Lines(f)[j].addr
                      /\ Lines(f)[Len(Lines(f))] = ReturnRax
    BY DEF BodiesInAddressOrder, LabelsOf
  <2>1. Holds(Lines(f), Body(f), DOMAIN Body(f)) /\ Lines(f)[Len(Lines(f))] = ReturnRax
    BY <1>1, BodyFacts
  <2>2. ASSUME NEW b \in DOMAIN Body(f)
        PROVE  \E i \in LabelsOf(Lines(f)) : Lines(f)[i].addr = Body(f)[b].start_addr
    BY <2>1 DEF Holds, BlockAt, LabelsOf, Label
  <2>3. \A i \in LabelsOf(Lines(f)) : \E b \in DOMAIN Body(f) : Lines(f)[i].addr = Body(f)[b].start_addr
    BY <2>1 DEF Holds
  <2> QED BY <2>1, <2>2, <2>3 DEF Holds
<1> QED BY <1>1, BodyInvariance, PTL

\* The lines of a block are behind its label, wherever that is.
LEMMA LineOfInstruction ==
  ASSUME IInv, BodyInv, NEW f \in DOMAIN bodies, NEW b \in DOMAIN Body(f),
         NEW k \in DOMAIN Body(f)[b].instructions
  PROVE  LineOf(f, b, k) = emit_instruction(Body(f)[b].instructions[k].opcode)
<1> DEFINE label == Label(Body(f)[b].start_addr)
           P(i)  == Lines(f)[i] = label
<1>1. /\ IsSeq(Lines(f)) /\ Holds(Lines(f), Body(f), DOMAIN Body(f))
      /\ \A c \in DOMAIN Body(f) : Body(f)[c].start_addr \in Nat
      /\ Body(f) = functions[f].blocks
  BY BodyFacts DEF IsBlock
<1>2. PICK i \in DOMAIN Lines(f) : BlockAt(Lines(f), i, Body(f)[b])
  BY <1>1 DEF Holds
<1>3. Lines(f)[i] = label
  BY <1>2 DEF BlockAt
<1>4. LabelAt(f, b) \in DOMAIN Lines(f) /\ Lines(f)[LabelAt(f, b)] = label
  BY <1>1, <1>2, <1>3 DEF LabelAt
<1>5. i \in LabelsOf(Lines(f)) /\ LabelAt(f, b) \in LabelsOf(Lines(f))
  BY <1>2, <1>3, <1>4 DEF LabelsOf, Label
<1>6. i = LabelAt(f, b)
  BY <1>1, <1>3, <1>4, <1>5, LabelUnique
<1> QED BY <1>2, <1>6 DEF LineOf, BlockAt

\* For every program in which identifiers are unambiguous, a direct call names
\* the function at its target, and no call of anything else names a function.
THEOREM CallsReachTheirFunctions == Spec => []CallsReachFunctions
<1>1. ASSUME IInv, BodyInv PROVE CallsReachFunctions
  <2> SUFFICES ASSUME pc = "done", Distinct, NEW f \in DOMAIN bodies, NEW b \in DOMAIN Body(f),
                      NEW k \in DOMAIN Body(f)[b].instructions,
                      Body(f)[b].instructions[k].opcode.op = "Call",
                      Body(f)[b].instructions[k].opcode.callee = "Direct",
                      NEW g \in DOMAIN bodies
               PROVE  LineOf(f, b, k).callee = bodies[g].name
                        <=> functions[g].addr = Body(f)[b].instructions[k].opcode.target
    BY DEF CallsReachFunctions
  <2> DEFINE o == Body(f)[b].instructions[k].opcode
  <2>1. LineOf(f, b, k).callee = resolve_call_name(o.target)
    <3>1. LineOf(f, b, k) = emit_instruction(o)
      BY <1>1, LineOfInstruction
    <3> QED BY <3>1 DEF emit_instruction, CallOf
  <2>2. /\ f \in DOMAIN functions /\ g \in DOMAIN functions
        /\ bodies[g].name = sanitise_c_ident(functions[g].name)
        /\ Body(f) = functions[f].blocks
    BY <1>1, BodyFacts
  <2>3. CASE o.target \in emitted_addrs
    <3> DEFINE h == CHOOSE i \in DOMAIN functions : functions[i].addr = o.target
    <3>1. h \in DOMAIN functions /\ functions[h].addr = o.target
      BY <2>3 DEF emitted_addrs
    <3>2. resolve_call_name(o.target) = sanitise_c_ident(functions[h].name)
      BY <2>3 DEF resolve_call_name, func_names
    <3> HIDE DEF h
    <3>3. h \in DOMAIN bodies
      <4>1. DOMAIN functions = 1 .. Len(functions) /\ DOMAIN bodies = 1 .. Len(bodies)
        BY <1>1, ProgramOK, ElementsOfSeq DEF IInv, SeqsOK
      <4>2. Len(bodies) = Len(functions)
        BY <1>1 DEF BodyInv
      <4> QED BY <3>1, <4>1, <4>2
    <3>4. bodies[h].name = resolve_call_name(o.target)
      BY <1>1, <3>2, <3>3, BodyFacts
    <3>5. functions[g].addr = functions[h].addr => g = h
      BY <1>1, <2>2, <3>1, ProgramOK DEF IInv, SeqsOK
    <3>6. bodies[g].name = bodies[h].name => g = h
      BY <3>3 DEF Distinct
    <3> QED BY <2>1, <3>1, <3>4, <3>5, <3>6
  <2>4. CASE o.target \notin emitted_addrs
    <3>1. o \in Opcodes
      BY <2>2, OpcodeOfBlock
    <3>2. o.target \in DirectTargets
      BY <3>1 DEF DirectTargets, Calls
    <3>3. resolve_call_name(o.target) \in Identifiers(externs)
      BY <1>1, <2>4, <3>2 DEF IInv, CollectedOK, PassedOK
    <3>4. bodies[g].name # resolve_call_name(o.target)
      BY <3>3 DEF Distinct
    <3>5. functions[g].addr # o.target
      BY <2>2, <2>4 DEF emitted_addrs
    <3> QED BY <2>1, <3>4, <3>5
  <2> QED BY <2>3, <2>4
<1> QED BY <1>1, BodyInvariance, PTL
=============================================================================
