------------------------------- MODULE Names --------------------------------
(***************************************************************************)
(* Symbol names and C identifiers, as frontend.rs makes them up and        *)
(* backend.rs turns them into C.  A name is the sequence of its parts:     *)
(* runs of letters and digits, and single other characters.                *)
(***************************************************************************)
EXTENDS Integers, Sequences, TLC

\* A finite sequence, whatever it holds.  A name is one.
IsSeq(s) == Len(s) \in Nat /\ s = [ k \in 1 .. Len(s) |-> s[k] ]

Punctuation == { "_", ".", "@", "$", "?" }

\* Parts that begin with a digit.
Numerals == { "0", "1", "2", "3" }

\* format!("0x{:x}"): one part for each address.
Hex(addr) == ToString(addr)

\* A function without a symbol, a call target without one.
func_name(addr) == << "func", "_", Hex(addr) >>

stub_name(addr) == << "stub", "_", Hex(addr) >>

\* Every character that C does not allow becomes an underscore; an identifier
\* is not empty and does not begin with a digit.
sanitise_c_ident(name) ==
  LET result == [ k \in DOMAIN name |-> IF name[k] \in Punctuation THEN "_" ELSE name[k] ]
  IN  IF name = << >>
        THEN << "_", "anon" >>
        ELSE IF name[1] \in Numerals THEN << "_" >> \o result ELSE result
=============================================================================
