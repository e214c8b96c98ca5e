----------------------------- MODULE MCFrontend -----------------------------
(***************************************************************************)
(* Small binaries for the frontend: a .text section of at most MaxUnits    *)
(* instructions of two bytes, under every combination of at most           *)
(* MaxSymbols symbols and an entry point, and the layouts that make        *)
(* load_binary take its other paths.                                       *)
(***************************************************************************)
EXTENDS Frontend

CONSTANTS
  MaxUnits,         \* instructions (or undecodable bytes) in .text
  MaxSymbols,       \* entries of the symbol table
  Targets,          \* operands of calls
  Entries           \* entry points

Base == 10          \* address of .text

Body(byte0, mnemonic, op_str) == [byte0 |-> byte0, mnemonic |-> mnemonic, op_str |-> op_str]

Bodies ==
  { Body(144, "nop", << >>), Body(85, "push", << Reg("rbp") >>),
    Body(65, "push", << Reg("r13") >>), Body(0, Bad, << >>) }
    \cup { Body(232, "call", << Imm(t) >>) : t \in Targets }

Layout(bodies) ==
  [ i \in DOMAIN bodies |->
      [ off |-> 2 * (i - 1), size |-> 2, byte0 |-> bodies[i].byte0,
        mnemonic |-> bodies[i].mnemonic, op_str |-> bodies[i].op_str ] ]

Codes(n) == { Layout(bodies) : bodies \in UNION { [ 1 .. k -> Bodies ] : k \in 0 .. n } }

Section(name, addr, code, data_ok) ==
  [ name |-> name, addr |-> addr, size |-> 2 * Len(code), len |-> 2 * Len(code),
    code |-> code, data_ok |-> data_ok ]

Symbol(addr, kind, name) == [addr |-> addr, kind |-> kind, name |-> name]

\* On, between and outside the instructions; with and without a usable name.
Symbols ==
  { Symbol(Base + 2, "Text", << "f" >>), Symbol(Base + 3, "Text", << "g" >>),
    Symbol(Base + 2, "Data", << "v" >>), Symbol(Base + 4, "Text", NoName),
    Symbol(Base + 30, "Text", << "h" >>) }

Binary(readable, parses, entry, secs, syms) ==
  [ readable |-> readable, parses |-> parses, entry |-> entry,
    sections |-> secs, symbols |-> syms ]

TextBinaries ==
  { Binary(TRUE, TRUE, entry, << Section(".text", Base, code, TRUE) >>, syms) :
      entry \in Entries, code \in Codes(MaxUnits),
      syms \in UNION { [ 1 .. k -> Symbols ] : k \in 0 .. MaxSymbols } }

TwoNops == Layout(<< Body(144, "nop", << >>), Body(144, "nop", << >>) >>)

\* No .text, an unreadable one, one beside the section with the entry point.
OtherSections ==
  { << Section(n1, Base, TwoNops, ok1), Section(n2, a2, TwoNops, ok2) >> :
      n1 \in { ".init", ".text" }, n2 \in { ".init", ".text" },
      a2 \in { Base, Base + 4 }, ok1 \in BOOLEAN, ok2 \in BOOLEAN }

\* A section without data in the file (.bss) that the entry point lies in.
NoBits == [ Section(".bss", Base, << >>, TRUE) EXCEPT !.size = 4 ]

SmallBinaries ==
  TextBinaries
    \cup { Binary(TRUE, TRUE, entry, << NoBits >>, << Symbol(Base, "Text", << "f" >>) >>) : entry \in Entries }
    \cup { Binary(TRUE, TRUE, entry, secs, << >>) :
             entry \in Entries \cup { Base + 5 }, secs \in OtherSections }
    \cup { Binary(readable, FALSE, Base, << >>, << >>) : readable \in BOOLEAN }
=============================================================================
