----------------------------- MODULE MCBackend ------------------------------
(***************************************************************************)
(* Small programs for the code generator.  Two functions, the first with   *)
(* two blocks of up to MaxCode opcodes, under every choice of names and    *)
(* symbols that can meet: names that become one identifier, names of the   *)
(* libc, an alias of a function elsewhere, targets without a symbol.       *)
(***************************************************************************)
EXTENDS Backend

CONSTANTS
  MaxCode,          \* longest block
  FuncNames,        \* names of the two functions
  OtherNames        \* symbols outside the emitted functions

First == 10         \* the functions and their blocks
Second == 20
Other == 40         \* addresses that are not emitted
Another == 50

Direct(target) == [op |-> "Call", callee |-> "Direct", target |-> target, fallthrough |-> 12]

External(name) == [op |-> "Call", callee |-> "External", name |-> name, fallthrough |-> 12]

\* syscall, and what the lifter makes of an operand it cannot parse.
CallOpcodes ==
  { Direct(First), Direct(Second), Direct(Other), Direct(Another),
    External(<< "syscall" >>), External(<< "f", "?", "1" >>),
    [op |-> "Call", callee |-> "Indirect", srcs |-> << "rax" >>, fallthrough |-> 0] }

OtherOpcodes ==
  { [op |-> "Jmp", target |-> 15], [op |-> "Jmp", target |-> Second],
    [op |-> "Jcc", condition |-> "Equal", target |-> First, fallthrough |-> 15],
    [op |-> "Ret"], [op |-> "Nop"] }

Block(addr, opcodes) ==
  [ start_addr   |-> addr,
    instructions |-> [ k \in DOMAIN opcodes |-> [addr |-> addr + k - 1, opcode |-> opcodes[k]] ] ]

Function(name, addr, blocks) == [name |-> name, addr |-> addr, blocks |-> blocks]

Codes(n) == UNION { [ 1 .. k -> CallOpcodes \cup OtherOpcodes ] : k \in 1 .. n }

\* The names of two functions come from their symbols or from their addresses.
NameAt(a, syms) == IF a \in DOMAIN syms THEN syms[a] ELSE func_name(a)

SymbolTables ==
  UNION { [ A -> FuncNames \cup OtherNames ] : A \in SUBSET { First, Second, Other, Another } }

Legal(syms) ==
  /\ \A a \in DOMAIN syms \cap { First, Second } : syms[a] \in FuncNames
  /\ \A a \in DOMAIN syms \cap { Other, Another } : syms[a] \in OtherNames

SmallPrograms ==
  { [ symbols   |-> syms,
      functions |-> << Function(NameAt(First, syms), First, << Block(First, c1), Block(15, << o >>) >>),
                       Function(NameAt(Second, syms), Second, << Block(Second, << [op |-> "Ret"] >>) >>) >> ] :
      syms \in { t \in SymbolTables : Legal(t) }, c1 \in Codes(MaxCode), o \in CallOpcodes }
    \cup { [ symbols |-> [ a \in {Other} |-> << "main" >> ], functions |-> << >> ] }

\* Values for the configurations.
SomeFuncNames == { << "f", ".", "1" >>, << "f", "_", "1" >>, << "syscall" >> }
SomeOtherNames == { << "printf" >>, << "syscall" >>, << "f", "@", "1" >>, << "2", "x" >>, << >> }
OneFuncName == { << "f", ".", "1" >> }
OneOtherName == { << "printf" >> }
=============================================================================
