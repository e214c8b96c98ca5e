------------------------------- MODULE MCCfg --------------------------------
(***************************************************************************)
(* Small functions for build_cfg: every function of at most MaxInsns       *)
(* instructions, two bytes each, over the mnemonics that cfg.rs tells      *)
(* apart, with jump targets on, between and outside its instructions.      *)
(***************************************************************************)
EXTENDS Cfg

CONSTANTS
  MaxInsns,         \* longest function
  Targets           \* immediate operands of jumps

Base == 10          \* address of the first instruction

Body(mnemonic, op_str) == [mnemonic |-> mnemonic, op_str |-> op_str]

Bodies ==
  { Body(m, << >>) : m \in {"nop", "ret", "hlt"} }
    \cup { Body("call", << Imm(40) >>), Body("jmp", << Reg("rax") >>) }
    \cup { Body(m, << Imm(t) >>) : m \in {"jmp", "je"}, t \in Targets }

Layout(bodies) ==
  [ i \in DOMAIN bodies |->
      [ addr |-> Base + 2 * (i - 1), size |-> 2, byte0 |-> 0,
        mnemonic |-> bodies[i].mnemonic, op_str |-> bodies[i].op_str ] ]

\* A symbol inside an instruction makes a function start before its first
\* instruction, so both start addresses occur.
SmallFuncs ==
  { [ start_addr |-> s, instructions |-> Layout(bodies) ] :
      s \in { Base - 1, Base },
      bodies \in UNION { [ 1 .. n -> Bodies ] : n \in 0 .. MaxInsns } }

\* The same with a jump that is in none of the tables of cfg.rs.
JrcxzFuncs ==
  { [ start_addr |-> Base, instructions |-> Layout(bodies) ] :
      bodies \in UNION { [ 1 .. n -> { Body("nop", << >>), Body("jrcxz", << Imm(Base) >>) } ] :
                           n \in 0 .. MaxInsns } }
=============================================================================
