--------------------------- MODULE FrontendProofs ---------------------------
(***************************************************************************)
(* Function discovery is right for every binary.  The inductive invariant  *)
(* says where the decoded instructions lie, which addresses are starts,    *)
(* and what the cutting loop has covered: everything below the starts that *)
(* it has not come to yet.                                                 *)
(***************************************************************************)
EXTENDS Frontend, TLAPS, SequenceTheorems, WellFoundedInduction

Loaded == pc \in { "symbols", "disasm", "seed", "slice", "done" }

Swept == pc \in { "seed", "slice", "done" }

Seeded == pc \in { "slice", "done" }

\* The starts that the last loop has dealt with.
Cut == func_starts \ pending

LoadInv ==
  /\ binary \in Binaries
  /\ pc \in { "load", "symbols", "disasm", "seed", "slice", "done", "failed" }
  /\ idx \in Nat \ {0}
  /\ DOMAIN symbols \subseteq Nat
  /\ Loaded => text \in DOMAIN sections

SweepInv ==
  /\ ~ Swept => all_insns = << >>
  /\ Swept =>
       /\ \E n \in Nat : DOMAIN all_insns = 1 .. n
       /\ \A i \in DOMAIN all_insns : all_insns[i].addr \in Nat /\ InText(all_insns[i].addr)
       /\ \A i, j \in DOMAIN all_insns : i < j => all_insns[i].addr < all_insns[j].addr

SeedInv ==
  /\ ~ Seeded => func_starts = {} /\ pending = {} /\ functions = << >>
  /\ Seeded => /\ \A a \in func_starts : a \in Nat /\ InText(a)
               /\ CallStarts \subseteq func_starts
  /\ pending \subseteq func_starts
  /\ \A s \in Cut, p \in pending : s < p
  /\ pc = "done" => pending = {}

CutInv ==
  /\ \E n \in Nat : n = Len(functions) /\ DOMAIN functions = 1 .. n
  /\ \A f \in DOMAIN functions :
       /\ functions[f].start_addr \in Cut
       /\ functions[f].end_addr \in Nat
       /\ functions[f].instructions = InRange(functions[f].start_addr, functions[f].end_addr)
       /\ functions[f].instructions # {}
       /\ \A p \in pending : functions[f].end_addr <= p
  /\ \A f, g \in DOMAIN functions : f < g => functions[f].end_addr <= functions[g].start_addr
  /\ \A i \in DOMAIN all_insns :
       (\E s \in Cut : s <= all_insns[i].addr) /\ (\A p \in pending : all_insns[i].addr < p)
         => \E f \in DOMAIN functions : i \in Positions(f)
  /\ \A j \in DOMAIN all_insns :
       all_insns[j].addr \in Cut =>
         \E f \in DOMAIN functions :
           functions[f].start_addr = all_insns[j].addr /\ j \in Positions(f)

IInv == LoadInv /\ SweepInv /\ SeedInv /\ CutInv

-----------------------------------------------------------------------------
(* Facts the steps rest on.                                                *)

\* A nonempty set of addresses has a least one.
LEMMA LeastExists ==
  ASSUME NEW S, S \subseteq Nat, S # {}
  PROVE  \E e \in S : \A s \in S : e <= s
<1> DEFINE R == OpToRel(<, Nat)
<1>1. IsWellFoundedOn(R, Nat)
  BY NatLessThanWellFounded
<1>2. PICK e \in S : \A y \in S : ~ (<< y, e >> \in R)
  BY <1>1, WFMin
<1>3. \A y \in S : ~ (y < e)
  BY <1>2 DEF OpToRel
<1>. QED BY <1>3

\* A unit begins inside the data that it lies in.
LEMMA UnitInside ==
  ASSUME NEW start \in Nat, NEW len \in Nat, NEW off \in Nat, NEW size \in Nat,
         size > 0, off + size <= len
  PROVE  start + off \in Nat /\ start + off >= start /\ start + off < start + len
OBVIOUS

\* What the text section contributes does not change once it is found.
LEMMA TextFrame ==
  ASSUME UNCHANGED << binary, text >>
  PROVE  /\ sections' = sections
         /\ text_start' = text_start /\ text_end' = text_end
         /\ \A a : InText(a)' = InText(a)
BY DEF sections, text_start, text_end, InText

\* Bounds of the text section.
LEMMA TextFacts ==
  ASSUME LoadInv, Loaded
  PROVE  /\ text_start \in Nat /\ text_end \in Nat
         /\ sections[text].code \in Seq(Unit)
         /\ \A i, j \in DOMAIN sections[text].code :
              i < j => sections[text].code[i].off + sections[text].code[i].size
                         <= sections[text].code[j].off
         /\ \A i \in DOMAIN sections[text].code :
              sections[text].code[i].off + sections[text].code[i].size <= sections[text].len
         /\ sections[text].len \in Nat
<1>1. binary \in Binaries /\ text \in DOMAIN binary.sections
  BY DEF LoadInv, sections
<1>2. LET sec == binary.sections[text]
      IN  /\ sec.addr \in Nat /\ sec.len \in Nat
          /\ sec.code \in Seq(Unit)
          /\ \A i, j \in DOMAIN sec.code : i < j => sec.code[i].off + sec.code[i].size <= sec.code[j].off
          /\ \A i \in DOMAIN sec.code : sec.code[i].off + sec.code[i].size <= sec.len
  BY <1>1, BinariesAssumption DEF IsBinary
<1>. QED BY <1>2 DEF sections, text_start, text_end

-----------------------------------------------------------------------------
(* The steps preserve the invariant.                                       *)

\* A file that was not looked at yet.
LEMMA InitIInv == Init => IInv
<1> SUFFICES ASSUME Init PROVE IInv
  OBVIOUS
<1> USE DEF Init
<1>1. LoadInv
  BY DEF LoadInv, Loaded, EmptyMap
<1>2. SweepInv /\ SeedInv
  BY DEF SweepInv, SeedInv, Swept, Seeded, Cut
<1>3. CutInv
  BY DEF CutInv, Cut
<1>. QED BY <1>1, <1>2, <1>3 DEF IInv

\* The steps before the sweep leave the later parts alone.
LEMMA EarlyFrame ==
  ASSUME IInv, ~ Swept, ~ Swept', UNCHANGED << all_insns, func_starts, pending, functions >>
  PROVE  SweepInv' /\ SeedInv' /\ CutInv'
<1>1. ~ Seeded /\ ~ Seeded'
  BY DEF Swept, Seeded
<1>2. all_insns = << >> /\ func_starts = {} /\ pending = {} /\ functions = << >>
  BY <1>1 DEF IInv, SweepInv, SeedInv
<1>3. all_insns' = << >> /\ func_starts' = {} /\ pending' = {} /\ functions' = << >>
  BY <1>2
<1>4. SweepInv'
  BY <1>3 DEF SweepInv
<1>5. SeedInv'
  BY <1>1, <1>3 DEF SeedInv, Cut
<1>6. CutInv'
  BY <1>3 DEF CutInv, Cut
<1>. QED BY <1>4, <1>5, <1>6

\* Loading, with its failures, and the collection of symbols.
LEMMA LoadIInv ==
  IInv /\ (LoadFails \/ find_text_section \/ CollectSymbol \/ LoadEnds \/ DisasmFails) => IInv'
<1> SUFFICES ASSUME IInv, LoadFails \/ find_text_section \/ CollectSymbol \/ LoadEnds \/ DisasmFails
             PROVE  IInv'
  OBVIOUS
<1>1. ~ Swept /\ ~ Swept' /\ UNCHANGED << all_insns, func_starts, pending, functions >>
  BY DEF Swept, LoadFails, find_text_section, CollectSymbol, LoadEnds, DisasmFails
<1>2. LoadInv'
  <2>1. CASE LoadFails \/ DisasmFails
    BY <2>1 DEF IInv, LoadInv, Loaded, LoadFails, DisasmFails
  <2>2. CASE find_text_section
    <3>1. sections' = sections
      BY <2>2 DEF find_text_section, sections
    <3>2. TextCandidates \subseteq DOMAIN sections
      BY DEF TextCandidates, Named, Spanning
    <3>3. pc' = "failed" \/ (pc' = "symbols" /\ text' \in TextCandidates)
      BY <2>2 DEF find_text_section
    <3>. QED BY <2>2, <3>1, <3>2, <3>3 DEF IInv, LoadInv, Loaded, find_text_section
  <2>3. CASE CollectSymbol
    <3> DEFINE sym == binary.symbols[idx]
    <3>1. sections' = sections /\ UNCHANGED << binary, pc, text >> /\ pc = "symbols" /\ idx' = idx + 1
      BY <2>3 DEF CollectSymbol, sections
    <3>2. DOMAIN symbols' \subseteq DOMAIN symbols \cup {sym.addr}
      BY <2>3 DEF CollectSymbol
    <3>3. sym.addr \in Nat
      <4>1. idx \in DOMAIN binary.symbols
        BY <2>3, BinariesAssumption DEF IsBinary, IInv, LoadInv, CollectSymbol
      <4>. QED BY <4>1, BinariesAssumption DEF IsBinary, IInv, LoadInv
    <3>. QED BY <3>1, <3>2, <3>3 DEF IInv, LoadInv, Loaded
  <2>4. CASE LoadEnds
    BY <2>4 DEF IInv, LoadInv, Loaded, LoadEnds, sections
  <2>. QED BY <2>1, <2>2, <2>3, <2>4
<1>. QED BY <1>1, <1>2, EarlyFrame DEF IInv

\* The sweep yields instructions inside the text, at ascending addresses.
LEMMA DisassembleIInv == IInv /\ Disassemble => IInv'
<1> SUFFICES ASSUME IInv, Disassemble PROVE IInv'
  OBVIOUS
<1>f. /\ pc = "disasm" /\ pc' = "seed"
      /\ UNCHANGED << binary, text, symbols, idx, func_starts, pending, functions >>
  BY DEF Disassemble
<1>0. Loaded /\ LoadInv
  BY <1>f DEF Loaded, IInv
<1>1. LoadInv'
  BY <1>f, TextFrame DEF IInv, LoadInv, Loaded
<1>2. SweepInv'
  <2> DEFINE code == sections[text].code
  <2>1. PICK n \in 0 .. Len(code) : all_insns' = [ k \in 1 .. n |-> insn_to_owned(code[k]) ]
    BY DEF Disassemble
  <2>2. /\ Len(code) \in Nat /\ DOMAIN code = 1 .. Len(code)
        /\ \A k \in DOMAIN code : code[k].off \in Nat /\ code[k].size \in Nat /\ code[k].size > 0
    <3>1. code \in Seq(Unit)
      BY <1>0, TextFacts
    <3>2. Len(code) \in Nat /\ DOMAIN code = 1 .. Len(code) /\ \A k \in DOMAIN code : code[k] \in Unit
      BY <3>1, LenProperties, ElementOfSeq
    <3>. QED BY <3>2 DEF Unit
  <2>3. n \in Nat /\ DOMAIN all_insns' = 1 .. n /\ 1 .. n \subseteq DOMAIN code
    BY <2>1, <2>2
  <2>4. \A k \in 1 .. n : all_insns'[k].addr = text_start + code[k].off
    BY <2>1 DEF insn_to_owned
  <2>5. text_start \in Nat /\ sections[text].len \in Nat /\ text_end = text_start + sections[text].len
    BY <1>0, TextFacts DEF text_end
  <2>6. ASSUME NEW k \in 1 .. n
        PROVE  all_insns'[k].addr \in Nat /\ InText(all_insns'[k].addr)
    <3>1. code[k].off + code[k].size <= sections[text].len
      BY <1>0, <2>3, TextFacts
    <3>2. code[k].off \in Nat /\ code[k].size \in Nat /\ code[k].size > 0
      BY <2>2, <2>3
    <3>3. all_insns'[k].addr = text_start + code[k].off
      BY <2>4
    <3> HIDE DEF code
    <3>4. text_start + code[k].off \in Nat /\ InText(text_start + code[k].off)
      <4>1. /\ text_start + code[k].off \in Nat
            /\ text_start + code[k].off >= text_start
            /\ text_start + code[k].off < text_start + sections[text].len
        BY <2>5, <3>1, <3>2, UnitInside
      <4>. QED BY <2>5, <4>1, Zenon DEF InText
    <3>. QED BY <3>3, <3>4
  <2>7. ASSUME NEW i \in 1 .. n, NEW j \in 1 .. n, i < j
        PROVE  all_insns'[i].addr < all_insns'[j].addr
    <3>1. code[i].off + code[i].size <= code[j].off
      BY <1>0, <2>3, <2>7, TextFacts
    <3>2. /\ code[i].off \in Nat /\ code[i].size \in Nat /\ code[i].size > 0
          /\ code[j].off \in Nat
      BY <2>2, <2>3
    <3>3. /\ all_insns'[i].addr = text_start + code[i].off
          /\ all_insns'[j].addr = text_start + code[j].off
      BY <2>4
    <3> HIDE DEF code
    <3>. QED BY <2>5, <3>1, <3>2, <3>3
  <2>8. \A a : InText(a)' = InText(a)
    BY <1>f, TextFrame
  <2>. QED BY <1>f, <2>3, <2>6, <2>7, <2>8 DEF SweepInv, Swept
<1>3. func_starts' = {} /\ pending' = {} /\ functions' = << >>
  BY <1>f DEF IInv, SeedInv, Seeded
<1>4. SeedInv'
  BY <1>f, <1>3 DEF SeedInv, Seeded, Cut
<1>5. CutInv'
  BY <1>3 DEF CutInv, Cut
<1>. QED BY <1>1, <1>2, <1>4, <1>5 DEF IInv

\* Every start lies in the text.
LEMMA SeedStartsIInv == IInv /\ SeedStarts => IInv'
<1> SUFFICES ASSUME IInv, SeedStarts PROVE IInv'
  OBVIOUS
<1>f. /\ pc = "seed" /\ pc' = "slice" /\ pending' = func_starts'
      /\ func_starts' = SymbolStarts \cup EntryStart \cup PrologueStarts \cup CallStarts
      /\ UNCHANGED << binary, text, symbols, idx, all_insns, functions >>
  BY DEF SeedStarts
<1>0. \A a : InText(a)' = InText(a)
  BY <1>f, TextFrame
<1>1. LoadInv'
  BY <1>f, TextFrame DEF IInv, LoadInv, Loaded
<1>2. SweepInv'
  BY <1>f, <1>0 DEF IInv, SweepInv, Swept
<1>3. \A a \in func_starts' : a \in Nat /\ InText(a)
  <2>1. \A i \in DOMAIN all_insns : all_insns[i].addr \in Nat /\ InText(all_insns[i].addr)
    BY <1>f DEF IInv, SweepInv, Swept
  <2>2. \A a \in SymbolStarts : a \in Nat /\ InText(a)
    BY DEF IInv, LoadInv, SymbolStarts
  <2>3. \A a \in EntryStart : a \in Nat /\ InText(a)
    BY BinariesAssumption DEF IsBinary, IInv, LoadInv, EntryStart
  <2>4. \A a \in PrologueStarts : a \in Nat /\ InText(a)
    BY <2>1 DEF PrologueStarts
  <2>5. \A a \in CallStarts : a \in Nat /\ InText(a)
    BY <2>1 DEF CallStarts, Decoded
  <2>. QED BY <1>f, <2>2, <2>3, <2>4, <2>5
<1>4. CallStarts' = CallStarts
  BY <1>f, <1>0 DEF CallStarts, CallTargets, Decoded
<1>5. functions' = << >> /\ Cut' = {}
  BY <1>f DEF IInv, SeedInv, Seeded, Cut
<1>6. SeedInv'
  BY <1>f, <1>0, <1>3, <1>4, <1>5 DEF SeedInv, Seeded
<1>7. CutInv'
  BY <1>5 DEF CutInv
<1>. QED BY <1>1, <1>2, <1>6, <1>7 DEF IInv

\* The end of the function that begins at the least pending start.
LEMMA EndOfFacts ==
  ASSUME IInv, pc = "slice", NEW start \in pending, \A s \in pending : start <= s
  PROVE  /\ start \in Nat
         /\ EndOf(start) \in Nat
         /\ start < EndOf(start)
         /\ \A p \in pending \ {start} : start < p /\ EndOf(start) <= p
         /\ \A i \in DOMAIN all_insns :
              (\A p \in pending \ {start} : all_insns[i].addr < p) => all_insns[i].addr < EndOf(start)
<1> DEFINE later == { s \in pending : s > start }
<1>1. \A a \in pending : a \in Nat /\ InText(a)
  BY DEF IInv, SeedInv, Seeded
<1>2. \A p \in pending \ {start} : start < p /\ p \in later
  BY <1>1
<1>3. text_end \in Nat /\ start < text_end
  BY <1>1, TextFacts DEF IInv, Loaded, InText
<1>4. CASE later = {}
  <2>1. EndOf(start) = text_end
    BY <1>4 DEF EndOf
  <2>2. \A i \in DOMAIN all_insns : all_insns[i].addr < text_end
    BY DEF IInv, SweepInv, Swept, InText
  <2>. QED BY <1>1, <1>2, <1>3, <1>4, <2>1, <2>2
<1>5. CASE later # {}
  <2>1. \E e \in later : \A s \in later : e <= s
    BY <1>1, <1>5, LeastExists
  <2>2. EndOf(start) \in later /\ \A s \in later : EndOf(start) <= s
    BY <1>5, <2>1 DEF EndOf
  <2>3. EndOf(start) \in pending \ {start} /\ start < EndOf(start)
    BY <1>1, <2>2
  <2>. QED BY <1>1, <1>2, <2>2, <2>3
<1>. QED BY <1>4, <1>5

\* Cutting one function extends what is covered up to the next start.
LEMMA BuildFunctionIInv == IInv /\ BuildFunction => IInv'
<1> SUFFICES ASSUME IInv, BuildFunction PROVE IInv'
  OBVIOUS
<1>f. pc = "slice" /\ UNCHANGED << binary, pc, text, symbols, idx, all_insns, func_starts >>
  BY DEF BuildFunction
<1>0. \A a : InText(a)' = InText(a)
  BY <1>f, TextFrame
<1>p. PICK start \in pending :
        /\ \A s \in pending : start <= s
        /\ functions' = IF InRange(start, EndOf(start)) = {}
                          THEN functions
                          ELSE Append(functions,
                                 [ name |-> NameOf(start), start_addr |-> start,
                                   end_addr |-> EndOf(start),
                                   instructions |-> InRange(start, EndOf(start)) ])
        /\ pending' = pending \ {start}
  BY DEF BuildFunction
<1> DEFINE end == EndOf(start)
           new == [ name |-> NameOf(start), start_addr |-> start,
                    end_addr |-> end, instructions |-> InRange(start, end) ]
<1>e. /\ start \in Nat /\ end \in Nat /\ start < end
      /\ \A p \in pending' : start < p /\ end <= p
      /\ \A i \in DOMAIN all_insns :
           (\A p \in pending' : all_insns[i].addr < p) => all_insns[i].addr < end
  BY <1>f, <1>p, EndOfFacts
<1>c. Cut' = Cut \cup {start} /\ start \in func_starts /\ start \notin Cut
  BY <1>f, <1>p DEF IInv, SeedInv, Cut
<1>n. \A a \in func_starts : a \in Nat
  BY <1>f DEF IInv, SeedInv, Seeded
<1>1. LoadInv'
  BY <1>f, TextFrame DEF IInv, LoadInv, Loaded
<1>2. SweepInv'
  BY <1>f, <1>0 DEF IInv, SweepInv, Swept
<1>3. SeedInv'
  <2>1. CallStarts' = CallStarts
    BY <1>f, <1>0 DEF CallStarts, CallTargets, Decoded
  <2>2. \A s \in Cut', p \in pending' : s < p
    BY <1>p, <1>e, <1>c DEF IInv, SeedInv
  <2>. QED BY <1>f, <1>0, <1>p, <2>1, <2>2 DEF IInv, SeedInv, Seeded
<1>4. CutInv'
  <2>0. PICK n \in Nat : n = Len(functions) /\ DOMAIN functions = 1 .. n
    BY DEF IInv, CutInv
  <2>o. \A f \in DOMAIN functions :
          /\ functions[f].start_addr \in Cut
          /\ functions[f].end_addr \in Nat
          /\ functions[f].instructions = InRange(functions[f].start_addr, functions[f].end_addr)
          /\ functions[f].instructions # {}
          /\ \A p \in pending : functions[f].end_addr <= p
    BY DEF IInv, CutInv
  <2>1. /\ DOMAIN functions \subseteq DOMAIN functions'
        /\ \A f \in DOMAIN functions : functions'[f] = functions[f]
        /\ \E m \in Nat : m = Len(functions') /\ DOMAIN functions' = 1 .. m
        /\ \A f \in DOMAIN functions' : f \in DOMAIN functions \/ (f = n + 1 /\ functions'[f] = new)
        /\ InRange(start, end) # {} => n + 1 \in DOMAIN functions' /\ functions'[n + 1] = new
    <3>1. CASE InRange(start, end) = {}
      BY <1>p, <2>0, <3>1
    <3>2. CASE InRange(start, end) # {}
      <4>1. functions' = Append(functions, new)
        BY <1>p, <3>2
      <4>2. /\ Len(functions') = n + 1 /\ DOMAIN functions' = 1 .. n + 1
            /\ \A f \in 1 .. n : functions'[f] = functions[f]
            /\ functions'[n + 1] = new
        BY <2>0, <4>1
      <4>. QED BY <2>0, <4>2
    <3>. QED BY <3>1, <3>2
  <2>2. ASSUME NEW f \in DOMAIN functions'
        PROVE  /\ functions'[f].start_addr \in Cut'
               /\ functions'[f].end_addr \in Nat
               /\ functions'[f].instructions = InRange(functions'[f].start_addr, functions'[f].end_addr)
               /\ functions'[f].instructions # {}
               /\ \A p \in pending' : functions'[f].end_addr <= p
    <3>1. CASE f \in DOMAIN functions
      BY <1>p, <1>c, <2>1, <2>o, <3>1
    <3>2. CASE f = n + 1 /\ f \notin DOMAIN functions
      <4>1. functions'[f] = new /\ InRange(start, end) # {}
        BY <1>p, <2>1, <3>2
      <4>. QED BY <1>c, <1>e, <4>1
    <3>. QED BY <2>1, <3>1, <3>2
  <2>3. ASSUME NEW f \in DOMAIN functions', NEW g \in DOMAIN functions', f < g
        PROVE  functions'[f].end_addr <= functions'[g].start_addr
    <3>1. f \in DOMAIN functions
      BY <2>0, <2>1, <2>3
    <3>2. CASE g \in DOMAIN functions
      BY <2>1, <2>3, <3>1, <3>2 DEF IInv, CutInv
    <3>3. CASE functions'[g] = new
      BY <1>p, <2>1, <2>o, <3>1, <3>3
    <3>. QED BY <2>1, <3>2, <3>3
  <2>4. ASSUME NEW i \in DOMAIN all_insns,
               \E s \in Cut' : s <= all_insns[i].addr,
               \A p \in pending' : all_insns[i].addr < p
        PROVE  \E f \in DOMAIN functions' : i \in functions'[f].instructions
    <3>0. all_insns[i].addr \in Nat
      BY <1>f DEF IInv, SweepInv, Swept
    <3>1. CASE all_insns[i].addr >= start
      <4>1. i \in InRange(start, end)
        BY <1>e, <2>4, <3>1 DEF InRange
      <4>. QED BY <2>1, <4>1
    <3>2. CASE all_insns[i].addr < start
      <4>1. \A p \in pending : all_insns[i].addr < p
        BY <1>p, <1>e, <2>4, <3>2
      <4>2. \E s \in Cut : s <= all_insns[i].addr
        BY <1>c, <1>e, <2>4, <3>0, <3>2
      <4>3. \E f \in DOMAIN functions : i \in functions[f].instructions
        BY <4>1, <4>2 DEF IInv, CutInv, Positions
      <4>. QED BY <2>1, <4>3
    <3>. QED BY <1>e, <3>0, <3>1, <3>2
  <2>5. ASSUME NEW j \in DOMAIN all_insns, all_insns[j].addr \in Cut'
        PROVE  \E f \in DOMAIN functions' :
                 functions'[f].start_addr = all_insns[j].addr /\ j \in functions'[f].instructions
    <3>1. CASE all_insns[j].addr \in Cut
      <4>1. PICK f \in DOMAIN functions :
              functions[f].start_addr = all_insns[j].addr /\ j \in functions[f].instructions
        BY <3>1 DEF IInv, CutInv, Positions
      <4>. QED BY <2>1, <4>1
    <3>2. CASE all_insns[j].addr = start
      <4>1. j \in InRange(start, end)
        BY <1>e, <3>2 DEF InRange
      <4>2. n + 1 \in DOMAIN functions' /\ functions'[n + 1] = new
        BY <2>1, <4>1
      <4>. QED BY <3>2, <4>1, <4>2
    <3>. QED BY <1>c, <2>5, <3>1, <3>2
  <2>6. \A f \in DOMAIN functions' :
          InRange(functions[f].start_addr, functions[f].end_addr)'
            = InRange(functions'[f].start_addr, functions'[f].end_addr)
    BY <1>f DEF InRange
  <2>7. all_insns' = all_insns
    BY <1>f
  <2>. QED BY <2>1, <2>2, <2>3, <2>4, <2>5, <2>6, <2>7 DEF CutInv, Positions
<1>. QED BY <1>1, <1>2, <1>3, <1>4 DEF IInv

\* The end of the loop, and steps that change nothing.
LEMMA FinishIInv == IInv /\ (Finish \/ Terminated \/ UNCHANGED vars) => IInv'
<1> SUFFICES ASSUME IInv, Finish \/ Terminated \/ UNCHANGED vars PROVE IInv'
  OBVIOUS
<1>1. /\ UNCHANGED << binary, text, symbols, idx, all_insns, func_starts, pending, functions >>
      /\ pc' = pc \/ (pc = "slice" /\ pc' = "done" /\ pending = {})
  BY DEF Finish, Terminated, vars
<1>2. /\ \A a : InText(a)' = InText(a)
      /\ sections' = sections /\ Cut' = Cut /\ CallStarts' = CallStarts
      /\ \A s, e : InRange(s, e)' = InRange(s, e)
      /\ \A f : Positions(f)' = Positions(f)
  <2>1. (\A a : InText(a)' = InText(a)) /\ sections' = sections
    BY <1>1, TextFrame
  <2>. QED BY <1>1, <2>1 DEF Cut, CallStarts, CallTargets, Decoded, InRange, Positions
<1>3. LoadInv'
  BY <1>1, <1>2 DEF IInv, LoadInv, Loaded
<1>4. SweepInv'
  BY <1>1, <1>2 DEF IInv, SweepInv, Swept
<1>5. SeedInv'
  BY <1>1, <1>2 DEF IInv, SeedInv, Seeded
<1>6. CutInv'
  BY <1>1, <1>2 DEF IInv, CutInv
<1>. QED BY <1>3, <1>4, <1>5, <1>6 DEF IInv

-----------------------------------------------------------------------------
(* What a function is cut out by: its start and the next one.              *)

\* The instructions from a start to the next one.
OwnedBy(s) ==
  { i \in DOMAIN all_insns :
      /\ s <= all_insns[i].addr
      /\ \A t \in func_starts : t > s => all_insns[i].addr < t }

OwnInv ==
  /\ \A f \in DOMAIN functions :
       /\ functions[f].instructions = OwnedBy(functions[f].start_addr)
       /\ functions[f].name = NameOf(functions[f].start_addr)
  /\ \A s \in Cut :
       OwnedBy(s) # {} => \E f \in DOMAIN functions : functions[f].start_addr = s

\* The end that the loop computes leaves the least pending start what it owns.
LEMMA RangeIsOwned ==
  ASSUME IInv, pc = "slice", NEW start \in pending, \A s \in pending : start <= s
  PROVE  InRange(start, EndOf(start)) = OwnedBy(start)
<1>1. /\ start \in Nat /\ EndOf(start) \in Nat
      /\ \A p \in pending \ {start} : start < p /\ EndOf(start) <= p
      /\ \A i \in DOMAIN all_insns :
           (\A p \in pending \ {start} : all_insns[i].addr < p) => all_insns[i].addr < EndOf(start)
  BY EndOfFacts
<1>2. /\ \A a \in func_starts : a \in Nat
      /\ pending \subseteq func_starts
      /\ \A s \in func_starts \ pending : s < start
      /\ \A i \in DOMAIN all_insns : all_insns[i].addr \in Nat
  BY DEF IInv, SeedInv, SweepInv, Seeded, Swept, Cut
<1>3. \A t \in func_starts : t > start <=> t \in pending \ {start}
  BY <1>1, <1>2
<1>4. ASSUME NEW i \in InRange(start, EndOf(start)) PROVE i \in OwnedBy(start)
  <2>1. i \in DOMAIN all_insns /\ start <= all_insns[i].addr /\ all_insns[i].addr < EndOf(start)
    BY <1>1, <1>2 DEF InRange
  <2>2. \A t \in func_starts : t > start => EndOf(start) <= t
    BY <1>1, <1>3
  <2>3. \A t \in func_starts : t > start => all_insns[i].addr < t
    BY <1>1, <1>2, <2>1, <2>2
  <2>. QED BY <2>1, <2>3 DEF OwnedBy
<1>5. ASSUME NEW i \in OwnedBy(start) PROVE i \in InRange(start, EndOf(start))
  <2>1. /\ i \in DOMAIN all_insns /\ start <= all_insns[i].addr
        /\ \A t \in func_starts : t > start => all_insns[i].addr < t
    BY DEF OwnedBy
  <2>2. \A p \in pending \ {start} : all_insns[i].addr < p
    BY <1>2, <1>3, <2>1
  <2>3. all_insns[i].addr >= start /\ all_insns[i].addr < EndOf(start)
    BY <1>1, <1>2, <2>1, <2>2
  <2>. QED BY <2>1, <2>3 DEF InRange
<1>. QED BY <1>4, <1>5

\* What has no functions yet owes none.
LEMMA OwnNone ==
  ASSUME functions' = << >>, Cut' = {}
  PROVE  OwnInv'
BY DEF OwnInv

LEMMA InitOwn == Init => OwnInv
BY DEF Init, OwnInv, Cut

LEMMA NextOwn == IInv /\ OwnInv /\ [Next]_vars => OwnInv'
<1> SUFFICES ASSUME IInv, OwnInv, [Next]_vars PROVE OwnInv'
  OBVIOUS
<1>1. CASE LoadFails \/ find_text_section \/ CollectSymbol \/ LoadEnds \/ DisasmFails \/ Disassemble
  <2>1. ~ Seeded /\ UNCHANGED << func_starts, pending, functions >>
    BY <1>1 DEF Seeded, LoadFails, find_text_section, CollectSymbol, LoadEnds, DisasmFails, Disassemble
  <2>2. functions' = << >> /\ Cut' = {}
    BY <2>1 DEF IInv, SeedInv, Cut
  <2>. QED BY <2>2, OwnNone
<1>2. CASE SeedStarts
  <2>1. ~ Seeded /\ functions' = functions /\ pending' = func_starts'
    BY <1>2 DEF Seeded, SeedStarts
  <2>2. functions' = << >> /\ Cut' = {}
    BY <2>1 DEF IInv, SeedInv, Cut
  <2>. QED BY <2>2, OwnNone
<1>3. CASE BuildFunction
  <2>1. pc = "slice" /\ UNCHANGED << symbols, all_insns, func_starts >>
    BY <1>3 DEF BuildFunction
  <2>2. PICK start \in pending :
          /\ \A s \in pending : start <= s
          /\ functions' = IF InRange(start, EndOf(start)) = {}
                            THEN functions
                            ELSE Append(functions,
                                   [ name |-> NameOf(start), start_addr |-> start,
                                     end_addr |-> EndOf(start),
                                     instructions |-> InRange(start, EndOf(start)) ])
          /\ pending' = pending \ {start}
    BY <1>3 DEF BuildFunction
  <2> DEFINE new == [ name |-> NameOf(start), start_addr |-> start, end_addr |-> EndOf(start),
                      instructions |-> OwnedBy(start) ]
  <2>3. functions' = IF OwnedBy(start) = {} THEN functions ELSE Append(functions, new)
    BY <2>1, <2>2, RangeIsOwned
  <2>4. new.name = NameOf(start) /\ new.start_addr = start /\ new.instructions = OwnedBy(start)
    OBVIOUS
  <2> HIDE DEF new
  <2>5. PICK n \in Nat : n = Len(functions) /\ DOMAIN functions = 1 .. n
    BY DEF IInv, CutInv
  <2>6. /\ DOMAIN functions \subseteq DOMAIN functions'
        /\ \A f \in DOMAIN functions : functions'[f] = functions[f]
        /\ \A f \in DOMAIN functions' : f \in DOMAIN functions \/ functions'[f] = new
        /\ OwnedBy(start) # {} => \E f \in DOMAIN functions' : functions'[f] = new
    <3>1. CASE OwnedBy(start) = {}
      BY <2>3, <3>1
    <3>2. CASE OwnedBy(start) # {}
      <4>1. functions' = Append(functions, new)
        BY <2>3, <3>2
      <4>2. /\ DOMAIN functions' = 1 .. n + 1
            /\ \A f \in 1 .. n : functions'[f] = functions[f]
            /\ functions'[n + 1] = new
        BY <2>5, <4>1
      <4>. QED BY <2>5, <4>2
    <3>. QED BY <3>1, <3>2
  <2>8. Cut' = Cut \cup {start}
    BY <2>1, <2>2 DEF IInv, SeedInv, Cut
  <2>9. ASSUME NEW f \in DOMAIN functions'
        PROVE  /\ functions'[f].instructions = OwnedBy(functions'[f].start_addr)
               /\ functions'[f].name = NameOf(functions'[f].start_addr)
    BY <2>4, <2>6 DEF OwnInv
  <2>10. ASSUME NEW s \in Cut', OwnedBy(s) # {}
         PROVE  \E f \in DOMAIN functions' : functions'[f].start_addr = s
    BY <2>4, <2>6, <2>8, <2>10 DEF OwnInv
  <2>. QED BY <2>1, <2>9, <2>10 DEF OwnInv, OwnedBy, NameOf
<1>4. CASE Finish \/ Terminated \/ UNCHANGED vars
  <2>1. UNCHANGED << symbols, all_insns, func_starts, pending, functions >>
    BY <1>4 DEF Finish, Terminated, vars
  <2>. QED BY <2>1 DEF OwnInv, OwnedBy, NameOf, Cut
<1>. QED BY <1>1, <1>2, <1>3, <1>4 DEF Next

-----------------------------------------------------------------------------
(* The properties.                                                         *)

\* The stage keeps its inductive invariant, for every binary.
THEOREM StageInvariant == Spec => []IInv
<1>1. Init => IInv
  BY InitIInv
<1>2. IInv /\ [Next]_vars => IInv'
  BY LoadIInv, DisassembleIInv, SeedStartsIInv, BuildFunctionIInv, FinishIInv DEF Next
<1>. QED BY <1>1, <1>2, PTL DEF Spec

\* The variables of the stage keep their types: it never looks at a section it
\* has not found, nor hands on instructions it has not decoded.
THEOREM TypeCorrect == Spec => []TypeOK
<1>1. IInv => TypeOK
  <2> SUFFICES ASSUME IInv PROVE TypeOK
    OBVIOUS
  <2>1. func_starts \subseteq Nat /\ pending \subseteq func_starts
    BY DEF IInv, SeedInv, Seeded
  <2>2. \A f \in DOMAIN functions : Positions(f) \subseteq DOMAIN all_insns
    BY DEF IInv, CutInv, InRange, Positions
  <2>. QED BY <2>1, <2>2 DEF IInv, LoadInv, Loaded, TypeOK
<1>. QED BY <1>1, StageInvariant, PTL

\* For every binary the functions tile the decoded text from the first start on.
THEOREM Tiling == Spec => []FunctionsTile
<1>1. IInv => FunctionsTile
  <2> SUFFICES ASSUME IInv, pc = "done" PROVE FunctionsTile
    BY DEF FunctionsTile
  <2>1. pending = {} /\ Cut = func_starts
    BY DEF IInv, SeedInv, Cut
  <2>o. \A f \in DOMAIN functions :
          /\ functions[f].start_addr \in Cut
          /\ functions[f].end_addr \in Nat
          /\ Positions(f) = InRange(functions[f].start_addr, functions[f].end_addr)
    BY DEF IInv, CutInv, Positions
  <2>a. /\ \E n \in Nat : DOMAIN all_insns = 1 .. n
        /\ \A i \in DOMAIN all_insns : all_insns[i].addr \in Nat
        /\ \A i, j \in DOMAIN all_insns : i < j => all_insns[i].addr < all_insns[j].addr
    BY DEF IInv, SweepInv, Swept
  <2>2. ASSUME NEW i \in DOMAIN all_insns
        PROVE  (\E s \in func_starts : s <= all_insns[i].addr)
                 <=> (\E f \in DOMAIN functions : i \in Positions(f))
    <3>1. ASSUME \E s \in func_starts : s <= all_insns[i].addr
          PROVE  \E f \in DOMAIN functions : i \in Positions(f)
      BY <2>1, <3>1 DEF IInv, CutInv
    <3>2. ASSUME NEW f \in DOMAIN functions, i \in Positions(f)
          PROVE  \E s \in func_starts : s <= all_insns[i].addr
      <4>1. functions[f].start_addr \in func_starts /\ functions[f].start_addr \in Nat
        BY <2>1, <2>o DEF IInv, SeedInv, Seeded
      <4>2. all_insns[i].addr >= functions[f].start_addr
        BY <2>o, <3>2 DEF InRange
      <4>. QED BY <2>a, <4>1, <4>2
    <3>. QED BY <3>1, <3>2
  <2>3. ASSUME NEW f \in DOMAIN functions, NEW g \in DOMAIN functions, f < g
        PROVE  /\ functions[f].end_addr <= functions[g].start_addr
               /\ \A i \in Positions(f), j \in Positions(g) : i < j
    <3>1. functions[f].end_addr <= functions[g].start_addr
      BY <2>3 DEF IInv, CutInv
    <3>2. functions[g].start_addr \in Nat /\ functions[f].end_addr \in Nat
      BY <2>1, <2>o DEF IInv, SeedInv, Seeded
    <3>3. ASSUME NEW i \in Positions(f), NEW j \in Positions(g) PROVE i < j
      <4>1. /\ i \in DOMAIN all_insns /\ j \in DOMAIN all_insns
            /\ all_insns[i].addr < functions[f].end_addr
            /\ functions[g].start_addr <= all_insns[j].addr
        BY <2>o, <3>2, <2>a DEF InRange
      <4>2. all_insns[i].addr < all_insns[j].addr
        BY <2>a, <3>1, <3>2, <4>1
      <4>. QED BY <2>a, <4>1, <4>2
    <3>. QED BY <3>1, <3>3
  <2>. QED BY <2>2, <2>3 DEF FunctionsTile
<1>. QED BY <1>1, StageInvariant, PTL

LEMMA CallTargetsCut == IInv => CallTargetsAreFunctions
<1> SUFFICES ASSUME IInv, pc = "done", NEW i \in DOMAIN all_insns, NEW j \in DOMAIN all_insns,
                    IsCall(all_insns[i]),
                    parse_hex_target(all_insns[i].op_str) = all_insns[j].addr
             PROVE  \E f \in DOMAIN functions :
                      functions[f].start_addr = all_insns[j].addr /\ j \in Positions(f)
  BY DEF CallTargetsAreFunctions
<1>1. all_insns[j].addr \in Nat /\ InText(all_insns[j].addr)
  BY DEF IInv, SweepInv, Swept
<1>2. all_insns[j].addr # NoAddr
  BY <1>1, NoAddrAssumption
<1>3. all_insns[j].addr \in CallStarts
  BY <1>1, <1>2 DEF CallStarts, CallTargets, Decoded
<1>4. all_insns[j].addr \in Cut
  BY <1>3 DEF IInv, SeedInv, Seeded, Cut
<1>. QED BY <1>4 DEF IInv, CutInv

\* For every binary, each decoded target of a decoded direct call begins a function.
THEOREM CallTargetsCorrect == Spec => []CallTargetsAreFunctions
BY CallTargetsCut, StageInvariant, PTL

\* For every binary, what is handed to build_cfg is what build_cfg relies on.
THEOREM CfgInputsCorrect == Spec => []FunctionsAreCfgInputs
<1>1. IInv => FunctionsAreCfgInputs
  <2> SUFFICES ASSUME IInv, NEW f \in DOMAIN functions
               PROVE  /\ Positions(f) # {}
                      /\ \A i \in Positions(f) : /\ functions[f].start_addr <= all_insns[i].addr
                                                 /\ all_insns[i].addr < functions[f].end_addr
                      /\ \A i, j \in Positions(f) : i .. j \subseteq Positions(f)
    BY DEF FunctionsAreCfgInputs
  <2>1. /\ Positions(f) = InRange(functions[f].start_addr, functions[f].end_addr)
        /\ Positions(f) # {}
        /\ functions[f].start_addr \in Cut /\ functions[f].end_addr \in Nat
    BY DEF IInv, CutInv, Positions
  <2>2. Seeded /\ functions[f].start_addr \in Nat
    BY <2>1 DEF IInv, SeedInv, Cut
  <2>a. /\ \E n \in Nat : DOMAIN all_insns = 1 .. n
        /\ \A i \in DOMAIN all_insns : all_insns[i].addr \in Nat
        /\ \A i, j \in DOMAIN all_insns : i < j => all_insns[i].addr < all_insns[j].addr
    BY <2>2 DEF IInv, SweepInv, Swept, Seeded
  <2>3. ASSUME NEW i \in Positions(f), NEW j \in Positions(f), NEW k \in i .. j
        PROVE  k \in Positions(f)
    <3>1. k \in DOMAIN all_insns /\ i \in DOMAIN all_insns /\ j \in DOMAIN all_insns
      BY <2>1, <2>a DEF InRange
    <3>2. all_insns[i].addr <= all_insns[k].addr /\ all_insns[k].addr <= all_insns[j].addr
      BY <2>a, <3>1
    <3>3. all_insns[i].addr >= functions[f].start_addr /\ all_insns[j].addr < functions[f].end_addr
      BY <2>1 DEF InRange
    <3>4. all_insns[k].addr >= functions[f].start_addr /\ all_insns[k].addr < functions[f].end_addr
      BY <2>1, <2>2, <2>a, <3>1, <3>2, <3>3
    <3>. QED BY <2>1, <3>1, <3>4 DEF InRange
  <2>4. \A i \in Positions(f) : /\ functions[f].start_addr <= all_insns[i].addr
                                /\ all_insns[i].addr < functions[f].end_addr
    BY <2>1, <2>2, <2>a DEF InRange
  <2>. QED BY <2>1, <2>3, <2>4
<1>. QED BY <1>1, StageInvariant, PTL
=============================================================================
