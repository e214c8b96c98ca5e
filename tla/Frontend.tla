------------------------------ MODULE Frontend ------------------------------
(***************************************************************************)
(* frontend::load_binary and frontend::discover_functions: from a file to  *)
(* the functions that the later stages work on one by one.                 *)
(*                                                                         *)
(* The object and capstone crates are external.  A binary is what the      *)
(* object crate reports of it; the bytes of a section are the instructions *)
(* that are in them, each with its offset, and a run of bytes that is no   *)
(* instruction is a unit with the mnemonic Bad.  Addresses are naturals: a *)
(* section that ends beyond 2^64 is outside the model.                     *)
(***************************************************************************)
EXTENDS Insn, Names

CONSTANTS
  Binaries,         \* the files to run on
  NoName            \* a symbol name that is empty or cannot be read

Bad == "(bad)"

Unit ==
  [off : Nat, size : Nat \ {0}, byte0 : Nat, mnemonic : STRING, op_str : Seq(Operand)]

\* The units of a section lie one behind the other inside its data.
IsBinary(x) ==
  /\ x.entry \in Nat
  /\ \A k \in DOMAIN x.sections :
       LET sec == x.sections[k]
       IN  /\ sec.addr \in Nat /\ sec.size \in Nat /\ sec.len \in Nat
           /\ sec.code \in Seq(Unit)
           /\ \A i, j \in DOMAIN sec.code :
                i < j => sec.code[i].off + sec.code[i].size <= sec.code[j].off
           /\ \A i \in DOMAIN sec.code : sec.code[i].off + sec.code[i].size <= sec.len
  /\ Len(x.symbols) \in Nat /\ DOMAIN x.symbols = 1 .. Len(x.symbols)
  /\ \A k \in DOMAIN x.symbols :
       /\ x.symbols[k].addr \in Nat
       /\ x.symbols[k].name # NoName => IsSeq(x.symbols[k].name)

ASSUME BinariesAssumption == \A x \in Binaries : IsBinary(x)

VARIABLES
  binary,           \* the file
  pc,
  text,             \* index of the section found by find_text_section
  symbols,          \* SymbolTable: address -> name
  idx,              \* symbol being looked at
  all_insns,        \* what capstone decoded
  func_starts,      \* BTreeSet of addresses
  pending,          \* the starts the last loop has not come to
  functions         \* Vec of DisassembledFunction

vars == << binary, pc, text, symbols, idx, all_insns, func_starts, pending, functions >>

EmptyMap == [ x \in {} |-> x ]

sections == binary.sections

text_start == sections[text].addr

text_end == text_start + sections[text].len

InText(a) == a >= text_start /\ a < text_end

Init ==
  /\ binary \in Binaries
  /\ pc = "load"
  /\ text = 0
  /\ symbols = EmptyMap
  /\ idx = 1
  /\ all_insns = << >>
  /\ func_starts = {}
  /\ pending = {}
  /\ functions = << >>

-----------------------------------------------------------------------------
(* load_binary.                                                            *)

\* The file cannot be read, or it is not an object file.
LoadFails ==
  /\ pc = "load"
  /\ ~ (binary.readable /\ binary.parses)
  /\ pc' = "failed"
  /\ UNCHANGED << binary, text, symbols, idx, all_insns, func_starts, pending, functions >>

Named == { k \in DOMAIN sections : sections[k].name = ".text" }

Spanning ==
  { k \in DOMAIN sections :
      /\ binary.entry >= sections[k].addr
      /\ binary.entry < sections[k].addr + sections[k].size }

TextCandidates == IF Named # {} THEN Named ELSE Spanning

\* Variant for mutation: a section whose data cannot be read is passed over in silence.
IgnoreDataError ==
  /\ pc = "load"
  /\ binary.readable /\ binary.parses
  /\ \/ /\ TextCandidates = {}
        /\ pc' = "failed"
        /\ UNCHANGED text
     \/ \E k \in TextCandidates :
          /\ \A j \in TextCandidates : k <= j
          /\ text' = IF sections[k].data_ok THEN k ELSE text
          /\ pc' = "symbols"
  /\ UNCHANGED << binary, symbols, idx, all_insns, func_starts, pending, functions >>

\* The first section named .text or, without one, the first that spans the
\* entry point.  Its data has to be readable; another section is not tried.
find_text_section ==
  /\ pc = "load"
  /\ binary.readable /\ binary.parses
  /\ \/ /\ TextCandidates = {}
        /\ pc' = "failed"
        /\ UNCHANGED text
     \/ \E k \in TextCandidates :
          /\ \A j \in TextCandidates : k <= j
          /\ IF sections[k].data_ok
               THEN text' = k /\ pc' = "symbols"
               ELSE UNCHANGED text /\ pc' = "failed"
  /\ UNCHANGED << binary, symbols, idx, all_insns, func_starts, pending, functions >>

\* Only named text symbols count; a later one replaces an earlier one at the
\* same address.
CollectSymbol ==
  /\ pc = "symbols"
  /\ idx <= Len(binary.symbols)
  /\ LET sym == binary.symbols[idx]
     IN  symbols' = IF sym.kind = "Text" /\ sym.name # NoName
                      THEN [ a \in DOMAIN symbols \cup {sym.addr} |->
                               IF a = sym.addr THEN sym.name ELSE symbols[a] ]
                      ELSE symbols
  /\ idx' = idx + 1
  /\ UNCHANGED << binary, pc, text, all_insns, func_starts, pending, functions >>

LoadEnds ==
  /\ pc = "symbols"
  /\ idx > Len(binary.symbols)
  /\ pc' = "disasm"
  /\ UNCHANGED << binary, text, symbols, idx, all_insns, func_starts, pending, functions >>

-----------------------------------------------------------------------------
(* discover_functions.                                                     *)

\* Capstone cannot be set up or reports an error.
DisasmFails ==
  /\ pc = "disasm"
  /\ pc' = "failed"
  /\ UNCHANGED << binary, text, symbols, idx, all_insns, func_starts, pending, functions >>

\* disasm_all is a linear sweep that ends at the first bytes it cannot decode.
SweepEndsAt(n) ==
  LET code == sections[text].code
  IN  /\ \A k \in 1 .. n : code[k].mnemonic # Bad
      /\ n < Len(code) => code[n + 1].mnemonic = Bad

insn_to_owned(unit) ==
  [ addr |-> text_start + unit.off, size |-> unit.size, byte0 |-> unit.byte0,
    mnemonic |-> unit.mnemonic, op_str |-> unit.op_str ]

Disassemble ==
  /\ pc = "disasm"
  /\ \E n \in 0 .. Len(sections[text].code) :
       /\ SweepEndsAt(n)
       /\ all_insns' = [ k \in 1 .. n |-> insn_to_owned(sections[text].code[k]) ]
  /\ pc' = "seed"
  /\ UNCHANGED << binary, text, symbols, idx, func_starts, pending, functions >>

Decoded(a) == \E i \in DOMAIN all_insns : all_insns[i].addr = a

\* (a) symbols and (b) the entry point: in the text, on an instruction or not.
SymbolStarts == { a \in DOMAIN symbols : InText(a) }

EntryStart == { a \in {binary.entry} : InText(a) }

\* op_str.contains(r) for the name of a 64-bit register.
Mentions(op_str, r) ==
  \E k \in DOMAIN op_str :
    \/ op_str[k].kind = "reg" /\ op_str[k].name = r
    \/ op_str[k].kind = "mem" /\ r \in { op_str[k].base, op_str[k].index }

\* (c) 0x55 is push rbp.
IsPrologue(insn) ==
  insn.byte0 = 85 /\ insn.mnemonic = "push" /\ Mentions(insn.op_str, "rbp")

PrologueStarts == { all_insns[i].addr : i \in { k \in DOMAIN all_insns : IsPrologue(all_insns[k]) } }

\* (d) direct call targets, where an instruction was decoded.
CallTargets ==
  { parse_hex_target(all_insns[i].op_str) : i \in { k \in DOMAIN all_insns : IsCall(all_insns[k]) } }
    \ { NoAddr }

\* Variant for mutation: the first address of the text is left out.
CallStartsAfterFirst == { a \in CallTargets : InText(a) /\ Decoded(a) /\ a > text_start }

CallStarts == { a \in CallTargets : InText(a) /\ Decoded(a) }

SeedStarts ==
  /\ pc = "seed"
  /\ func_starts' = SymbolStarts \cup EntryStart \cup PrologueStarts \cup CallStarts
  /\ pending' = func_starts'
  /\ pc' = "slice"
  /\ UNCHANGED << binary, text, symbols, idx, all_insns, functions >>

\* Variant for mutation: every function reaches to the end of the text.
EndOfText(start) == text_end

\* The end of a function is the next start, or the end of the text.
EndOf(start) ==
  LET later == { s \in pending : s > start }
  IN  IF later = {} THEN text_end ELSE CHOOSE e \in later : \A s \in later : e <= s

\* Variant for mutation: the lower end of the range is forgotten.
UpTo(start, end) == { i \in DOMAIN all_insns : all_insns[i].addr < end }

\* The instructions of a range.  filter keeps their order, so a vector of them
\* is represented by their positions.
InRange(start, end) ==
  { i \in DOMAIN all_insns : all_insns[i].addr >= start /\ all_insns[i].addr < end }

\* A symbol at the start names the function, else its address does.
NameOf(start) == IF start \in DOMAIN symbols THEN symbols[start] ELSE func_name(start)

\* Variant for mutation: a function without instructions is kept.
KeepEmpty ==
  /\ pc = "slice"
  /\ \E start \in pending :
       /\ \A s \in pending : start <= s
       /\ functions' = Append(functions,
                         [ name |-> NameOf(start), start_addr |-> start, end_addr |-> EndOf(start),
                           instructions |-> InRange(start, EndOf(start)) ])
       /\ pending' = pending \ {start}
  /\ UNCHANGED << binary, pc, text, symbols, idx, all_insns, func_starts >>

\* A start whose range holds no instruction gives no function.
BuildFunction ==
  /\ pc = "slice"
  /\ \E start \in pending :
       LET end        == EndOf(start)
           func_insns == InRange(start, end)
       IN  /\ \A s \in pending : start <= s
           /\ functions' = IF func_insns = {}
                             THEN functions
                             ELSE Append(functions,
                                    [ name |-> NameOf(start), start_addr |-> start,
                                      end_addr |-> end, instructions |-> func_insns ])
           /\ pending' = pending \ {start}
  /\ UNCHANGED << binary, pc, text, symbols, idx, all_insns, func_starts >>

Finish ==
  /\ pc = "slice"
  /\ pending = {}
  /\ pc' = "done"
  /\ UNCHANGED << binary, text, symbols, idx, all_insns, func_starts, pending, functions >>

Terminated == pc \in { "done", "failed" } /\ UNCHANGED vars

Next ==
  \/ LoadFails
  \/ find_text_section
  \/ CollectSymbol
  \/ LoadEnds
  \/ DisasmFails
  \/ Disassemble
  \/ SeedStarts
  \/ BuildFunction
  \/ Finish
  \/ Terminated

Spec == Init /\ [][Next]_vars

-----------------------------------------------------------------------------
(* Properties.                                                             *)

Positions(f) == functions[f].instructions

\* Types of the variables.
TypeOK ==
  /\ pc \in { "load", "symbols", "disasm", "seed", "slice", "done", "failed" }
  /\ pc \notin { "load", "failed" } => text \in DOMAIN sections
  /\ idx \in Nat
  /\ DOMAIN symbols \subseteq Nat
  /\ func_starts \subseteq Nat
  /\ pending \subseteq func_starts
  /\ \A f \in DOMAIN functions : Positions(f) \subseteq DOMAIN all_insns

\* The functions of a finished discovery tile the decoded text from the first
\* start on: every decoded instruction that has a start at or before it is in
\* one function and in one only, and the functions come in address order.
FunctionsTile ==
  pc = "done" =>
    /\ \A i \in DOMAIN all_insns :
         (\E s \in func_starts : s <= all_insns[i].addr)
           <=> (\E f \in DOMAIN functions : i \in Positions(f))
    /\ \A f, g \in DOMAIN functions : f < g =>
         /\ functions[f].end_addr <= functions[g].start_addr
         /\ \A i \in Positions(f), j \in Positions(g) : i < j

\* The target of every decoded direct call that is a decoded instruction begins
\* a function, wherever the call and the target are (the pass over the call
\* targets comes before the starts are sorted and cut).
CallTargetsAreFunctions ==
  pc = "done" =>
    \A i \in DOMAIN all_insns, j \in DOMAIN all_insns :
      IsCall(all_insns[i]) /\ parse_hex_target(all_insns[i].op_str) = all_insns[j].addr =>
        \E f \in DOMAIN functions :
          functions[f].start_addr = all_insns[j].addr /\ j \in Positions(f)

\* What build_cfg relies on: a function has instructions, none of them before
\* its start or at or beyond its end, and nothing between them is left out.
FunctionsAreCfgInputs ==
  \A f \in DOMAIN functions :
    /\ Positions(f) # {}
    /\ \A i \in Positions(f) : /\ functions[f].start_addr <= all_insns[i].addr
                               /\ all_insns[i].addr < functions[f].end_addr
    /\ \A i, j \in Positions(f) : i .. j \subseteq Positions(f)

\* discover_functions: "Disassemble the entire text section".  Every instruction
\* that is in the section is among the decoded ones, also behind bytes that are
\* no instruction.
EntireTextDisassembled ==
  pc = "done" =>
    \A k \in DOMAIN sections[text].code :
      sections[text].code[k].mnemonic # Bad =>
        \E i \in DOMAIN all_insns : all_insns[i].addr = text_start + sections[text].code[k].off
=============================================================================
