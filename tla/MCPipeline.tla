----------------------------- MODULE MCPipeline -----------------------------
(***************************************************************************)
(* Small binaries for the whole program: a .text section of up to MaxAny   *)
(* instructions over a menu with every kind of control flow, and of up to  *)
(* MaxCore over the jumps and calls that cross each other, under a few     *)
(* symbol tables.                                                          *)
(***************************************************************************)
EXTENDS Pipeline

CONSTANTS
  MaxAny,           \* longest text over the menu
  MaxCore           \* longest text over the core

Base == 10          \* address of .text; instructions have two bytes

Unit(byte0, mnemonic, op_str) == [byte0 |-> byte0, mnemonic |-> mnemonic, op_str |-> op_str]

\* Jumps back and forth, calls of decoded and other addresses.
Core ==
  { Unit(0, "nop", << >>), Unit(0, "ret", << >>),
    Unit(0, "jmp", << Imm(Base) >>), Unit(0, "je", << Imm(Base + 4) >>),
    Unit(0, "call", << Imm(Base + 2) >>) }

Menu ==
  Core \cup
  { Unit(85, "push", << Reg("rbp") >>),       Unit(0, "leave", << >>),
    Unit(0, "call", << Imm(Base + 40) >>),    Unit(0, "call", << Imm(Base) >>),
    Unit(0, "call", << Reg("rax") >>),        Unit(0, "jmp", << Mem("rax", NoReg, 1, 0) >>),
    Unit(0, "jmp", << Imm(Base + 3) >>),      Unit(0, "jrcxz", << Imm(Base) >>),
    Unit(0, "syscall", << >>),                Unit(0, "hlt", << >>),
    Unit(0, "(bad)", << >>) }

Layout(units) ==
  [ i \in DOMAIN units |->
      [ off |-> 2 * (i - 1), size |-> 2, byte0 |-> units[i].byte0,
        mnemonic |-> units[i].mnemonic, op_str |-> units[i].op_str ] ]

Codes ==
  UNION { { Layout(units) : units \in [ 1 .. n -> Menu ] } : n \in 0 .. MaxAny }
    \cup UNION { { Layout(units) : units \in [ 1 .. n -> Core ] } : n \in 0 .. MaxCore }

Symbol(addr, name) == [addr |-> addr, kind |-> "Text", name |-> name]

\* None; one function by name and one from the libc; a symbol in the middle of
\* an instruction; two names that become one identifier.
SymbolTables ==
  { << >>,
    << Symbol(Base + 2, << "f" >>), Symbol(Base + 40, << "puts" >>) >>,
    << Symbol(Base + 3, << "g" >>) >>,
    << Symbol(Base, << "f", ".", "1" >>), Symbol(Base + 2, << "f", "_", "1" >>) >> }

Text(code) ==
  [ name |-> ".text", addr |-> Base, size |-> 2 * Len(code), len |-> 2 * Len(code),
    code |-> code, data_ok |-> TRUE ]

Binary(readable, parses, secs, syms) ==
  [ readable |-> readable, parses |-> parses, entry |-> Base, sections |-> secs, symbols |-> syms ]

SmallBinaries ==
  { Binary(TRUE, TRUE, << Text(code) >>, syms) : code \in Codes, syms \in SymbolTables }
    \cup { Binary(readable, FALSE, << >>, << >>) : readable \in BOOLEAN }
    \cup { Binary(TRUE, TRUE, << >>, << >>) }
=============================================================================
