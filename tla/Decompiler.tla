----------------------------- MODULE Decompiler -----------------------------
(***************************************************************************)
(* What a run of dEXE promises, without its stages.                        *)
(*                                                                         *)
(* A run finds instructions, function starts and symbols in the binary     *)
(* (its image) and leaves a C file that is a function of the image: one    *)
(* body for each start that has instructions, in address order, and in it  *)
(* every instruction of the function in turn, a label where control can    *)
(* enter from elsewhere, and a return at the end.  Only a run that exits   *)
(* with 0 delivers the file; one that fails leaves what was there, or, if  *)
(* it fails while it writes, a part.  Pipeline, which runs the stages one  *)
(* after the other, implements this specification.                         *)
(***************************************************************************)
EXTENDS Insn, Names, FiniteSets

VARIABLES
  image,            \* what was found in the binary
  progress,
  exit_code,        \* NoCode while the program runs
  file              \* the output file

vars == << image, progress, exit_code, file >>

NoCode == -1

EmptyImage == [code |-> << >>, starts |-> {}, symbols |-> << >>]

OldFile == [content |-> "old", unit |-> << >>]

PartOfFile == [content |-> "partial", unit |-> << >>]

NewFile(unit) == [content |-> "complete", unit |-> unit]

-----------------------------------------------------------------------------
(* The unit for an image.                                                  *)

Line(kind) == [kind |-> kind]

LineTo(kind, addr) == [kind |-> kind, addr |-> addr]

CallLine(ident, args) == [kind |-> "call", callee |-> ident, args |-> args]

\* A call of a name gets the registers of the calling convention.
RegisterArgs == 6

\* The instructions from a start to the next one.
Owned(img, start) ==
  { i \in DOMAIN img.code :
      /\ start <= img.code[i].addr
      /\ \A s \in img.starts : s > start => img.code[i].addr < s }

FunctionStarts(img) == { s \in img.starts : Owned(img, s) # {} }

\* What a call of an address is a call of.
Callee(img, addr) ==
  CASE addr \in DOMAIN img.symbols -> sanitise_c_ident(img.symbols[addr])
    [] addr \in FunctionStarts(img) \ DOMAIN img.symbols -> sanitise_c_ident(func_name(addr))
    [] OTHER -> stub_name(addr)

Returning == RET_MNEMONICS \cup HALT_MNEMONICS \cup { "retf", "int" }

\* Conditional jumps, the ones that build_cfg takes for none included.
Branching == COND_JUMPS \cup { "jcxz", "jecxz", "jrcxz" }

\* An address that is an immediate, or 0.
Immediate(op_str) ==
  IF op_str # << >> /\ op_str[1].kind = "imm" THEN op_str[1].value ELSE 0

\* A register or memory that a jump or a call goes through.
Computed(op) == op.kind = "mem" \/ (op.kind = "reg" /\ IsRegister(op.name))

\* What a call with an operand that is an immediate or a name is a call of.
Called(img, op) ==
  IF op.kind = "imm" THEN Callee(img, op.value) ELSE sanitise_c_ident(<< op.name >>)

\* What it passes: functions of the unit take their arguments from the cpu state.
Passed(op) == IF op.kind = "imm" THEN 0 ELSE RegisterArgs

Lines(img, insn) ==
  LET bare    == insn.op_str = << >>
      op      == insn.op_str[1]
      through == ~ bare /\ Computed(op)
      to      == ~ bare /\ ~ Computed(op)
      target  == Immediate(insn.op_str)
  IN  CASE insn.mnemonic \in Returning                   -> << Line("return") >>
        [] insn.mnemonic \in Branching                   -> << LineTo("if", target) >>
        [] insn.mnemonic \in {"jmp", "call"} /\ through   -> << Line("icall") >>
        [] insn.mnemonic = "jmp" /\ to                   -> << LineTo("goto", target) >>
        [] insn.mnemonic = "call" /\ to                  -> << CallLine(Called(img, op), Passed(op)) >>
        [] insn.mnemonic = "syscall"                     ->
             << CallLine(sanitise_c_ident(<< "syscall" >>), RegisterArgs) >>
        [] insn.mnemonic = "leave"                       -> << Line("statement"), Line("statement") >>
        [] OTHER                                         -> << Line("statement") >>

EndsBlock(insn) == IsJump(insn) \/ IsCall(insn) \/ IsRet(insn) \/ IsHalt(insn)

\* Control can come to instruction i from elsewhere: it is the first of its
\* function, the one before it ends a block, or a jump of the function goes there.
\* Targets of jrcxz and loop, and of jumps through a register or memory, do not
\* count: they get a label only if they are one for another reason.
Enterable(img, P, i) ==
  \/ i - 1 \notin P
  \/ EndsBlock(img.code[i - 1])
  \/ \E j \in P : IsJump(img.code[j]) /\ parse_hex_target(img.code[j].op_str) = img.code[i].addr

\* What instruction i of the instructions P of a function becomes.
Chunk(img, P, i) ==
  (IF Enterable(img, P, i) THEN << LineTo("label", img.code[i].addr) >> ELSE << >>)
    \o Lines(img, img.code[i])

\* How many lines some of these instructions become.
Height(img, P, Q) == Cardinality(UNION { {i} \X DOMAIN Chunk(img, P, i) : i \in Q })

\* A body has what its instructions become, one below the other, and a return.
IsBody(img, start, lines) ==
  LET P        == Owned(img, start)
      above(i) == Height(img, P, { j \in P : j < i })
  IN  /\ DOMAIN lines = 1 .. Height(img, P, P) + 1
      /\ \A i \in P : \A k \in DOMAIN Chunk(img, P, i) : lines[above(i) + k] = Chunk(img, P, i)[k]
      /\ lines[Height(img, P, P) + 1] = Line("return")

\* A unit has a body for each function, in address order.
IsUnit(img, bodies) ==
  LET place(start) == Cardinality({ s \in FunctionStarts(img) : s <= start })
  IN  /\ DOMAIN bodies = 1 .. Cardinality(FunctionStarts(img))
      /\ \A start \in FunctionStarts(img) :
           /\ bodies[place(start)].name = Callee(img, start)
           /\ IsBody(img, start, bodies[place(start)].lines)

-----------------------------------------------------------------------------
(* A run.                                                                  *)

Init ==
  /\ image = EmptyImage
  /\ progress = "loading"
  /\ exit_code = NoCode
  /\ file = OldFile

\* The command line asks for help, or is refused.
Decline ==
  /\ progress = "loading"
  /\ exit_code' \in { 0, 2 }
  /\ progress' = "over"
  /\ UNCHANGED << image, file >>

\* An image: instructions in address order, starts, names of addresses.
IsImage(img) ==
  /\ \A i, j \in DOMAIN img.code : i < j => img.code[i].addr < img.code[j].addr
  /\ img.starts \subseteq Nat
  /\ DOMAIN img.symbols \subseteq Nat

Discover ==
  /\ progress = "loading"
  /\ IsImage(image')
  /\ progress' = "discovered"
  /\ UNCHANGED << exit_code, file >>

Fail ==
  /\ progress \in { "loading", "discovered" }
  /\ exit_code' = 1
  /\ progress' = "over"
  /\ UNCHANGED << image, file >>

\* The file is truncated before it is written.
Create ==
  /\ progress = "discovered"
  /\ file' = PartOfFile
  /\ progress' = "writing"
  /\ UNCHANGED << image, exit_code >>

Deliver ==
  /\ progress = "writing"
  /\ file' = NewFile(file'.unit)
  /\ IsUnit(image, file'.unit)
  /\ exit_code' = 0
  /\ progress' = "over"
  /\ UNCHANGED image

FailToWrite ==
  /\ progress = "writing"
  /\ exit_code' = 1
  /\ progress' = "over"
  /\ UNCHANGED << image, file >>

Next == Decline \/ Discover \/ Fail \/ Create \/ Deliver \/ FailToWrite

Spec == Init /\ [][Next]_vars
=============================================================================
