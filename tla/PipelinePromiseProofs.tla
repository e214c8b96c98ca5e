------------------------ MODULE PipelinePromiseProofs ------------------------
(***************************************************************************)
(* Pipeline implements Decompiler, for every set of binaries: the file     *)
(* that a run delivers is the one that the image calls for.                *)
(*                                                                         *)
(* Told says of a sequence of lines that it holds the first n instructions *)
(* of a function in turn.  The lines of a body grow by one block at a time *)
(* (ToldBlock, MoreBlocks), so that the whole body tells the function, and *)
(* where the lines of an instruction then begin is as many lines down as   *)
(* the instructions above it become (Heights).                             *)
(***************************************************************************)
EXTENDS PipelineLiftProofs

-----------------------------------------------------------------------------
(* The line of an opcode.                                                  *)

LEMMA SameIdents == \A n : B!sanitise_c_ident(n) = D!sanitise_c_ident(n)
BY DEF B!sanitise_c_ident, D!sanitise_c_ident, B!Punctuation, D!Punctuation, B!Numerals, D!Numerals

LEMMA LinesOfForms ==
  /\ \A o : o.op = "Ret" => LineSeen(B!emit_instruction(o)) = D!Line("return")
  /\ \A o : o.op = "Jcc" => LineSeen(B!emit_instruction(o)) = D!LineTo("if", o.target)
  /\ \A o : o.op = "Jmp" => LineSeen(B!emit_instruction(o)) = D!LineTo("goto", o.target)
  /\ \A o : Plain(o) => LineSeen(B!emit_instruction(o)) = D!Line("statement")
  /\ \A o : Through(o) => LineSeen(B!emit_instruction(o)) = D!Line("icall")
  /\ \A o, n : CallsNamed(o, n) => LineSeen(B!emit_instruction(o)) = D!CallLine(D!sanitise_c_ident(n), D!RegisterArgs)
  /\ \A o, a : CallsAt(o, a) => LineSeen(B!emit_instruction(o)) = D!CallLine(B!resolve_call_name(a), 0)
<1>1. \A o : o.op = "Ret" => LineSeen(B!emit_instruction(o)) = D!Line("return")
  BY DEF B!emit_instruction, LineSeen, B!ReturnRax, D!Line
<1>2. \A o : o.op = "Jcc" => LineSeen(B!emit_instruction(o)) = D!LineTo("if", o.target)
  BY DEF B!emit_instruction, LineSeen, B!IfGoto, D!LineTo
<1>3. \A o : o.op = "Jmp" => LineSeen(B!emit_instruction(o)) = D!LineTo("goto", o.target)
  BY DEF B!emit_instruction, LineSeen, B!Goto, D!LineTo
<1>4. \A o : Plain(o) => LineSeen(B!emit_instruction(o)) = D!Line("statement")
  BY DEF B!emit_instruction, LineSeen, Plain, B!Statement, D!Line
<1>5. \A o : Through(o) => LineSeen(B!emit_instruction(o)) = D!Line("icall")
  BY DEF B!emit_instruction, LineSeen, Through, B!CallThrough, D!Line
<1>6. \A o, n : CallsNamed(o, n) =>
        LineSeen(B!emit_instruction(o)) = D!CallLine(D!sanitise_c_ident(n), D!RegisterArgs)
  BY SameIdents DEF B!emit_instruction, LineSeen, CallsNamed, B!CallOf, D!CallLine, D!RegisterArgs
<1>7. \A o, a : CallsAt(o, a) => LineSeen(B!emit_instruction(o)) = D!CallLine(B!resolve_call_name(a), 0)
  BY DEF B!emit_instruction, LineSeen, CallsAt, B!CallOf, D!CallLine
<1>. QED BY <1>1, <1>2, <1>3, <1>4, <1>5, <1>6, <1>7

\* Calls of addresses are named as the image names them.
Resolves(img) == \A a : B!resolve_call_name(a) = D!Callee(img, a)

\* The opcode of an instruction becomes the lines that Decompiler has for it.
LEMMA LinesMean ==
  ASSUME NEW img, Resolves(img), NEW i, NEW o, Means(o, i)
  PROVE  /\ DOMAIN D!Lines(img, i) = 1 .. Weight(i)
         /\ \A j \in 1 .. Weight(i) : D!Lines(img, i)[j] = LineSeen(B!emit_instruction(o))
<1> DEFINE said == LineSeen(B!emit_instruction(o))
           shown == D!Lines(img, i)
<1> SUFFICES \/ i.mnemonic # "leave" /\ D!Lines(img, i) = << said >>
             \/ i.mnemonic = "leave" /\ D!Lines(img, i) = << said, said >>
  <2>1. \A j \in 1 .. 1 : j = 1
    OBVIOUS
  <2>2. \A j \in 1 .. 2 : j = 1 \/ j = 2
    OBVIOUS
  <2>3. /\ DOMAIN shown = 1 .. Weight(i)
        /\ \A j \in 1 .. Weight(i) : shown[j] = said
    <3>. HIDE DEF said, shown
    <3>1. CASE i.mnemonic # "leave" /\ shown = << said >>
      BY <2>1, <3>1 DEF Weight
    <3>2. CASE i.mnemonic = "leave" /\ shown = << said, said >>
      BY <2>2, <3>2 DEF Weight
    <3>3. (i.mnemonic # "leave" /\ shown = << said >>) \/ (i.mnemonic = "leave" /\ shown = << said, said >>)
      BY DEF said, shown
    <3>. QED BY <3>1, <3>2, <3>3
  <2>. QED BY <2>3
<1>m. \A x \in D!Returning \cup D!Branching : x \notin { "jmp", "call", "syscall", "leave" }
  BY DEF D!Returning, D!Branching, D!RET_MNEMONICS, D!HALT_MNEMONICS, D!COND_JUMPS
<1>n. D!Returning \cap D!Branching = {}
  BY DEF D!Returning, D!Branching, D!RET_MNEMONICS, D!HALT_MNEMONICS, D!COND_JUMPS
<1>1. CASE i.mnemonic \in D!Returning
  <2>1. said = D!Line("return")
    BY <1>1, LinesOfForms DEF Means
  <2>. QED BY <1>1, <1>m, <1>n, <2>1 DEF D!Lines
<1>2. CASE i.mnemonic \in D!Branching
  <2>1. said = D!LineTo("if", D!Immediate(i.op_str))
    BY <1>2, LinesOfForms DEF Means
  <2>. QED BY <1>2, <1>m, <1>n, <2>1 DEF D!Lines
<1>3. CASE i.mnemonic \in { "jmp", "call" } /\ i.op_str = << >>
  <2>1. said = D!Line("statement")
    BY <1>3, LinesOfForms DEF Means
  <2>. QED BY <1>3, <1>m, <2>1 DEF D!Lines
<1>4. CASE i.mnemonic \in { "jmp", "call" } /\ i.op_str # << >> /\ D!Computed(i.op_str[1])
  <2>1. said = D!Line("icall")
    BY <1>4, LinesOfForms DEF Means
  <2>. QED BY <1>4, <1>m, <2>1 DEF D!Lines
<1>5. CASE i.mnemonic = "jmp" /\ i.op_str # << >> /\ ~ D!Computed(i.op_str[1])
  <2>1. said = D!LineTo("goto", D!Immediate(i.op_str))
    BY <1>5, LinesOfForms DEF Means
  <2>. QED BY <1>5, <1>m, <2>1 DEF D!Lines
<1>6. CASE i.mnemonic = "call" /\ i.op_str # << >> /\ ~ D!Computed(i.op_str[1])
  <2>1. said = D!CallLine(D!Called(img, i.op_str[1]), D!Passed(i.op_str[1]))
    <3>1. CASE i.op_str[1].kind = "imm"
      <4>1. CallsAt(o, i.op_str[1].value)
        BY <1>6, <3>1 DEF Means
      <4>. QED BY <3>1, <4>1, LinesOfForms DEF Resolves, D!Called, D!Passed
    <3>2. CASE i.op_str[1].kind # "imm"
      <4>1. CallsNamed(o, << i.op_str[1].name >>)
        BY <1>6, <3>2 DEF Means
      <4>. QED BY <3>2, <4>1, LinesOfForms DEF D!Called, D!Passed
    <3>. QED BY <3>1, <3>2
  <2>. QED BY <1>6, <1>m, <2>1 DEF D!Lines
<1>7. CASE i.mnemonic = "syscall"
  <2>1. said = D!CallLine(D!sanitise_c_ident(<< "syscall" >>), D!RegisterArgs)
    BY <1>7, LinesOfForms DEF Means
  <2>. QED BY <1>7, <1>m, <2>1 DEF D!Lines
<1>8. CASE i.mnemonic = "leave"
  <2>1. said = D!Line("statement")
    BY <1>8, <1>m, LinesOfForms DEF Means
  <2>. QED BY <1>8, <1>m, <2>1 DEF D!Lines
<1>9. CASE i.mnemonic \notin D!Returning \cup D!Branching \cup { "jmp", "call", "syscall", "leave" }
  <2>1. said = D!Line("statement")
    BY <1>9, LinesOfForms DEF Means
  <2>. QED BY <1>9, <2>1 DEF D!Lines
<1>. QED BY <1>1, <1>2, <1>3, <1>4, <1>5, <1>6, <1>7, <1>8, <1>9

-----------------------------------------------------------------------------
(* The lines of a function.                                                *)

\* A label comes before an instruction that opens a block.
Lead(ins, k) == IF Opens(ins, k) THEN 1 ELSE 0

\* What instruction k becomes begins at line pos[k].
ToldAt(img, seq, ins, n, pos) ==
  /\ DOMAIN pos = 1 .. n + 1 /\ pos[1] = 1
  /\ \A k \in 1 .. n + 1 : pos[k] \in Nat
  /\ \A k \in 1 .. n : pos[k + 1] = pos[k] + Lead(ins, k) + Weight(ins[k])
  /\ DOMAIN seq = 1 .. pos[n + 1] - 1
  /\ \A k \in 1 .. n : Opens(ins, k) => LineSeen(seq[pos[k]]) = D!LineTo("label", ins[k].addr)
  /\ \A k \in 1 .. n : \A j \in 1 .. Weight(ins[k]) :
       LineSeen(seq[pos[k] + Lead(ins, k) + j - 1]) = D!Lines(img, ins[k])[j]

\* The lines are those of the first n instructions.
Told(img, seq, ins, n) == \E pos : ToldAt(img, seq, ins, n, pos)

LEMMA LeadRange == \A ins, k : Lead(ins, k) \in { 0, 1 } /\ Lead(ins, k) \in Nat
BY DEF Lead

LEMMA ToldBounds ==
  ASSUME NEW img, NEW seq, NEW ins, NEW n \in Nat, NEW pos, ToldAt(img, seq, ins, n, pos)
  PROVE  /\ \A k \in 1 .. n + 1 : pos[k] \in Nat /\ pos[k] >= 1
         /\ \A i, k \in 1 .. n + 1 : i <= k => pos[i] <= pos[k]
<1>1. /\ pos[1] = 1
      /\ \A k \in 1 .. n + 1 : pos[k] \in Nat
      /\ \A k \in 1 .. n : pos[k + 1] = pos[k] + Lead(ins, k) + Weight(ins[k])
  BY DEF ToldAt
<1>2. ASSUME NEW k \in 1 .. n + 1, k > 1 PROVE pos[k - 1] <= pos[k]
  <2>1. k - 1 \in 1 .. n /\ (k - 1) + 1 = k /\ k - 1 \in 1 .. n + 1
    BY <1>2
  <2>2. pos[k] = pos[k - 1] + Lead(ins, k - 1) + Weight(ins[k - 1]) /\ pos[k - 1] \in Nat
    BY <1>1, <2>1
  <2>. QED BY <2>2, WeightRange, LeadRange
<1>3. \A k \in 1 .. n + 1 : k > 1 => pos[k - 1] <= pos[k]
  BY <1>2
<1>4. n + 1 \in Nat /\ 1 \in 1 .. n + 1
  OBVIOUS
<1>5. \A i, k \in 1 .. n + 1 : i <= k => pos[i] <= pos[k]
  BY <1>1, <1>3, <1>4, Rises
<1>6. \A k \in 1 .. n + 1 : 1 <= k
  OBVIOUS
<1>. QED BY <1>1, <1>4, <1>5, <1>6

LEMMA ToldNone ==
  ASSUME NEW img, NEW ins
  PROVE  Told(img, << >>, ins, 0)
<1>. DEFINE pos == [ k \in 1 .. 1 |-> 1 ]
<1>1. ToldAt(img, << >>, ins, 0, pos)
  BY DEF ToldAt
<1>. QED BY <1>1 DEF Told

\* The lines t are the lines seq and a block.
BlockAfter(seq, t, block) ==
  \E l \in Nat : \E n \in Nat :
    /\ DOMAIN seq = 1 .. l /\ DOMAIN block.instructions = 1 .. n
    /\ DOMAIN t = 1 .. l + 1 + n
    /\ \A k \in 1 .. l : t[k] = seq[k]
    /\ t[l + 1] = B!Label(block.start_addr)
    /\ \A k \in 1 .. n : t[l + 1 + k] = B!emit_instruction(block.instructions[k].opcode)

LEMMA BlockAdded ==
  ASSUME NEW seq, IsVec(seq), NEW block, IsVec(block.instructions),
         NEW t, t = seq \o B!EmittedBlock(block)
  PROVE  IsVec(t) /\ BlockAfter(seq, t, block)
<1>. DEFINE src  == block.instructions
            n    == Len(src)
            l    == Len(seq)
            tail == [ k \in DOMAIN src |-> B!emit_instruction(src[k].opcode) ]
            head == << B!Label(block.start_addr) >>
            e    == B!EmittedBlock(block)
            U    == { seq[k] : k \in 1 .. l } \cup { tail[k] : k \in 1 .. n } \cup { head[1] }
<1>1. n \in Nat /\ DOMAIN src = 1 .. n
  BY LenProperties DEF IsVec
<1>2. l \in Nat /\ DOMAIN seq = 1 .. l
  BY LenProperties DEF IsVec
<1>3. seq \in Seq(U)
  <2>1. PICK S : seq \in Seq(S)
    BY DEF IsVec
  <2>2. seq = [ k \in 1 .. l |-> seq[k] ]
    BY <2>1, LenProperties
  <2>3. \A k \in 1 .. l : seq[k] \in U
    OBVIOUS
  <2>. HIDE DEF U
  <2>4. [ k \in 1 .. l |-> seq[k] ] \in Seq(U)
    BY <1>2, <2>3, IsASeq
  <2>. QED BY <2>2, <2>4
<1>4. tail \in Seq(U) /\ Len(tail) = n /\ \A k \in 1 .. n : tail[k] = B!emit_instruction(src[k].opcode)
  <2>1. tail = [ k \in 1 .. n |-> tail[k] ] /\ \A k \in 1 .. n : tail[k] \in U
    BY <1>1
  <2>2. \A k \in 1 .. n : tail[k] = B!emit_instruction(src[k].opcode)
    BY <1>1
  <2>. HIDE DEF U, tail, n
  <2>3. [ k \in 1 .. n |-> tail[k] ] \in Seq(U)
    BY <1>1, <2>1, IsASeq
  <2>4. tail \in Seq(U) /\ DOMAIN tail = 1 .. n
    BY <2>1, <2>3
  <2>5. Len(tail) = n
    BY <1>1, <2>4, LenProperties, SameEnd
  <2>. QED BY <2>2, <2>4, <2>5
<1>5. head \in Seq(U) /\ Len(head) = 1 /\ head[1] = B!Label(block.start_addr)
  <2>1. head[1] \in U /\ head = << head[1] >>
    OBVIOUS
  <2>. HIDE DEF U
  <2>. QED BY <2>1
<1>6. e = head \o tail
  BY DEF B!EmittedBlock
<1>. HIDE DEF n, l, tail, head, e, U, src
<1>7. /\ e \in Seq(U) /\ Len(e) = n + 1 /\ e[1] = B!Label(block.start_addr)
      /\ \A k \in 1 .. n : e[k + 1] = B!emit_instruction(src[k].opcode)
  <2>a. /\ head \o tail \in Seq(U) /\ Len(head \o tail) = Len(head) + Len(tail)
        /\ \A k \in 1 .. Len(head) + Len(tail) :
             (head \o tail)[k] = IF k <= Len(head) THEN head[k] ELSE tail[k - Len(head)]
    BY <1>4, <1>5, ConcatProperties
  <2>1. e \in Seq(U) /\ Len(e) = n + 1
    BY <1>1, <1>4, <1>5, <1>6, <2>a
  <2>2. \A k \in 1 .. n + 1 : e[k] = IF k <= 1 THEN head[k] ELSE tail[k - 1]
    BY <1>1, <1>4, <1>5, <1>6, <2>a
  <2>3. \A k \in 1 .. n : k + 1 \in 1 .. n + 1 /\ ~(k + 1 <= 1) /\ (k + 1) - 1 = k
    BY <1>1
  <2>4. 1 \in 1 .. n + 1 /\ 1 <= 1
    BY <1>1
  <2>5. e[1] = B!Label(block.start_addr)
    BY ONLY <1>5, <2>2, <2>4
  <2>6. \A k \in 1 .. n : e[k + 1] = tail[k]
    BY ONLY <2>2, <2>3
  <2>7. \A k \in 1 .. n : e[k + 1] = B!emit_instruction(src[k].opcode)
    BY <1>4, <2>6
  <2>. QED BY <2>1, <2>5, <2>7
<1>8. t = seq \o e
  BY DEF e
<1>9. t \in Seq(U) /\ Len(t) = l + (n + 1) /\ DOMAIN t = 1 .. l + 1 + n
  <2>1. t \in Seq(U) /\ Len(t) = l + (n + 1)
    <3>1. seq \o e \in Seq(U) /\ Len(seq \o e) = Len(seq) + Len(e)
      BY <1>3, <1>7, ConcatProperties
    <3>2. Len(seq) = l
      BY DEF l
    <3>. QED BY <1>7, <1>8, <3>1, <3>2
  <2>2. l + (n + 1) = l + 1 + n
    BY <1>1, <1>2
  <2>. QED BY <2>1, <2>2, LenProperties
<1>10. \A k \in 1 .. l + (n + 1) : t[k] = IF k <= l THEN seq[k] ELSE e[k - l]
  BY <1>1, <1>2, <1>3, <1>7, <1>8, ConcatProperties DEF l
<1>11. \A k \in 1 .. l : t[k] = seq[k]
  BY <1>1, <1>2, <1>10
<1>12. t[l + 1] = B!Label(block.start_addr)
  <2>1. l + 1 \in 1 .. l + (n + 1) /\ ~(l + 1 <= l) /\ (l + 1) - l = 1
    BY <1>1, <1>2
  <2>. QED BY <1>7, <1>10, <2>1
<1>13. \A k \in 1 .. n : t[l + 1 + k] = B!emit_instruction(src[k].opcode)
  <2>1. \A k \in 1 .. n : l + 1 + k \in 1 .. l + (n + 1) /\ ~(l + 1 + k <= l) /\ (l + 1 + k) - l = k + 1
    BY <1>1, <1>2
  <2>. QED BY <1>7, <1>10, <2>1
<1>14. IsVec(t)
  BY <1>9 DEF IsVec
<1>15. BlockAfter(seq, t, block)
  BY <1>1, <1>2, <1>9, <1>11, <1>12, <1>13 DEF BlockAfter, src
<1>. QED BY <1>14, <1>15

\* A block that renders the next w instructions.
LEMMA ToldBlock ==
  ASSUME NEW img, Resolves(img), NEW seq, NEW t, NEW ins, NEW n \in Nat, NEW w \in Nat, w >= 1,
         Told(img, seq, ins, n),
         NEW irb, BlockAfter(seq, t, irb), irb.start_addr = ins[n + 1].addr,
         NEW src, \A j \in 1 .. w : src[j] = ins[n + j],
         \A j \in 1 .. w : Opens(ins, n + j) <=> j = 1,
         Rendered(irb.instructions, src, w)
  PROVE  Told(img, t, ins, n + w)
<1>1. PICK pos : ToldAt(img, seq, ins, n, pos)
  BY DEF Told
<1>. DEFINE irs == irb.instructions
            P   == pos[n + 1]
<1>2. PICK at : RenderedAt(irs, src, w, at)
  BY DEF Rendered
<1>3. PICK l \in Nat : \E m \in Nat :
        /\ DOMAIN seq = 1 .. l /\ DOMAIN irs = 1 .. m
        /\ DOMAIN t = 1 .. l + 1 + m
        /\ \A k \in 1 .. l : t[k] = seq[k]
        /\ t[l + 1] = B!Label(irb.start_addr)
        /\ \A k \in 1 .. m : t[l + 1 + k] = B!emit_instruction(irs[k].opcode)
  BY DEF BlockAfter
<1>4. PICK m \in Nat :
        /\ DOMAIN seq = 1 .. l /\ DOMAIN irs = 1 .. m
        /\ DOMAIN t = 1 .. l + 1 + m
        /\ \A k \in 1 .. l : t[k] = seq[k]
        /\ t[l + 1] = B!Label(irb.start_addr)
        /\ \A k \in 1 .. m : t[l + 1 + k] = B!emit_instruction(irs[k].opcode)
  BY <1>3
<1>. HIDE DEF irs
<1>5. /\ DOMAIN pos = 1 .. n + 1 /\ pos[1] = 1
      /\ \A k \in 1 .. n + 1 : pos[k] \in Nat
      /\ \A k \in 1 .. n : pos[k + 1] = pos[k] + Lead(ins, k) + Weight(ins[k])
      /\ DOMAIN seq = 1 .. P - 1
      /\ \A k \in 1 .. n : Opens(ins, k) => LineSeen(seq[pos[k]]) = D!LineTo("label", ins[k].addr)
      /\ \A k \in 1 .. n : \A j \in 1 .. Weight(ins[k]) :
           LineSeen(seq[pos[k] + Lead(ins, k) + j - 1]) = D!Lines(img, ins[k])[j]
  BY <1>1 DEF ToldAt
<1>6. /\ DOMAIN at = 1 .. w + 1 /\ at[1] = 1
      /\ \A k \in 1 .. w + 1 : at[k] \in Nat
      /\ \A k \in 1 .. w : at[k + 1] = at[k] + Weight(src[k])
      /\ DOMAIN irs = 1 .. at[w + 1] - 1
      /\ \A k \in 1 .. w : \A j \in 1 .. Weight(src[k]) : Means(irs[at[k] + j - 1].opcode, src[k])
  BY <1>2 DEF RenderedAt
<1>7. /\ \A k \in 1 .. n + 1 : pos[k] \in Nat /\ pos[k] >= 1
      /\ \A i, k \in 1 .. n + 1 : i <= k => pos[i] <= pos[k]
  BY <1>1, ToldBounds
<1>8. P \in Nat /\ P >= 1 /\ l = P - 1
  <2>1. P \in Nat /\ P >= 1
    <3>1. n + 1 \in 1 .. n + 1
      OBVIOUS
    <3>. QED BY <1>7, <3>1
  <2>2. P - 1 \in Nat
    BY <2>1
  <2>. HIDE DEF P
  <2>3. P - 1 = l
    BY <1>4, <1>5, <2>2, SameEnd
  <2>. QED BY <2>1, <2>3
<1>9. \A k \in 1 .. w : /\ at[k] \in Nat /\ at[k] >= 1
                        /\ \A j \in 1 .. Weight(src[k]) : at[k] + j - 1 \in 1 .. m
  BY <1>2, <1>4, <1>6, RenderedBounds
<1>10. at[w + 1] \in Nat /\ at[w + 1] >= 1 /\ m = at[w + 1] - 1
  <2>1. w \in 1 .. w /\ w + 1 \in 1 .. w + 1
    OBVIOUS
  <2>2. at[w + 1] = at[w] + Weight(src[w]) /\ at[w] >= 1 /\ at[w] \in Nat
    BY <1>6, <1>9, <2>1
  <2>3. at[w + 1] \in Nat /\ at[w + 1] >= 1
    BY <2>2, WeightRange
  <2>4. at[w + 1] - 1 \in Nat
    BY <2>3
  <2>5. at[w + 1] - 1 = m
    BY <1>4, <1>6, <2>4, SameEnd
  <2>. QED BY <2>3, <2>5
<1>. DEFINE pos2 == [ i \in 1 .. n + w + 1 |-> IF i <= n + 1 THEN pos[i] ELSE P + at[i - n] ]
<1>11. DOMAIN pos2 = 1 .. (n + w) + 1
  OBVIOUS
<1>12. \A k \in 1 .. n + 1 : pos2[k] = pos[k]
  OBVIOUS
<1>13. ASSUME NEW j \in 1 .. w PROVE pos2[n + j + 1] = P + at[j + 1]
  <2>1. n + j + 1 \in 1 .. n + w + 1 /\ ~(n + j + 1 <= n + 1) /\ (n + j + 1) - n = j + 1
    OBVIOUS
  <2>. QED BY <2>1
<1>. HIDE DEF pos2, P
<1>14. ASSUME NEW j \in 1 .. w
       PROVE  /\ pos2[n + j] \in Nat
              /\ pos2[n + j] + Lead(ins, n + j) = P + at[j]
  <2>1. CASE j = 1
    <3>1. pos2[n + j] = P
      <4>1. n + j = n + 1 /\ n + 1 \in 1 .. n + 1
        BY <2>1
      <4>. QED BY <1>12, <4>1 DEF P
    <3>2. Lead(ins, n + j) = 1
      BY <2>1 DEF Lead
    <3>. QED BY <1>6, <1>8, <2>1, <3>1, <3>2
  <2>2. CASE j > 1
    <3>1. j - 1 \in 1 .. w /\ n + (j - 1) + 1 = n + j /\ (j - 1) + 1 = j
      BY <2>2
    <3>2. pos2[n + j] = P + at[j]
      BY <1>13, <3>1
    <3>3. Lead(ins, n + j) = 0
      BY <2>2 DEF Lead
    <3>4. at[j] \in Nat
      BY <1>9
    <3>. QED BY <1>8, <3>2, <3>3, <3>4
  <2>. QED BY <2>1, <2>2
<1>15. ASSUME NEW k \in 1 .. n + w
       PROVE  k \in 1 .. n \/ \E j \in 1 .. w : k = n + j
  <2>1. CASE k <= n
    BY <2>1
  <2>2. CASE k > n
    <3>1. k - n \in 1 .. w /\ k = n + (k - n)
      BY <2>2
    <3>. QED BY <3>1
  <2>. QED BY <2>1, <2>2
<1>16. pos2[1] = 1
  BY <1>5, <1>12
<1>17. pos2[(n + w) + 1] = P + at[w + 1]
  <2>1. w \in 1 .. w
    OBVIOUS
  <2>. QED BY <1>13, <2>1
<1>18. \A k \in 1 .. (n + w) + 1 : pos2[k] \in Nat
  <2>1. ASSUME NEW k \in 1 .. n + w PROVE pos2[k] \in Nat
    <3>1. CASE k \in 1 .. n
      <4>1. k \in 1 .. n + 1
        BY <3>1
      <4>. QED BY <1>5, <1>12, <4>1
    <3>2. CASE \E j \in 1 .. w : k = n + j
      BY <1>14, <3>2
    <3>. QED BY <1>15, <3>1, <3>2
  <2>2. \A k \in 1 .. (n + w) + 1 : k \in 1 .. n + w \/ k = (n + w) + 1
    OBVIOUS
  <2>. QED BY <1>8, <1>10, <1>17, <2>1, <2>2
<1>19. ASSUME NEW k \in 1 .. n + w
       PROVE  pos2[k + 1] = pos2[k] + Lead(ins, k) + Weight(ins[k])
  <2>1. CASE k \in 1 .. n
    <3>1. k \in 1 .. n + 1 /\ k + 1 \in 1 .. n + 1
      BY <2>1
    <3>. QED BY <1>5, <1>12, <2>1, <3>1
  <2>2. ASSUME NEW j \in 1 .. w, k = n + j
        PROVE  pos2[k + 1] = pos2[k] + Lead(ins, k) + Weight(ins[k])
    <3>1. pos2[n + j + 1] = P + at[j + 1] /\ at[j + 1] = at[j] + Weight(src[j])
      BY <1>6, <1>13
    <3>2. pos2[n + j] + Lead(ins, n + j) = P + at[j] /\ pos2[n + j] \in Nat /\ at[j] \in Nat
      BY <1>9, <1>14
    <3>3. src[j] = ins[k]
      BY <2>2
    <3>4. Weight(src[j]) \in Nat /\ Lead(ins, n + j) \in Nat
      BY WeightRange, LeadRange
    <3>. QED BY <1>8, <2>2, <3>1, <3>2, <3>3, <3>4
  <2>. QED BY <1>15, <2>1, <2>2
<1>20. DOMAIN t = 1 .. pos2[(n + w) + 1] - 1
  BY <1>4, <1>8, <1>10, <1>17
<1>21. ASSUME NEW k \in 1 .. n + w, Opens(ins, k)
       PROVE  LineSeen(t[pos2[k]]) = D!LineTo("label", ins[k].addr)
  <2>1. CASE k \in 1 .. n
    <3>1. k \in 1 .. n + 1 /\ k + 1 \in 1 .. n + 1 /\ n + 1 \in 1 .. n + 1 /\ k + 1 <= n + 1
      BY <2>1
    <3>2. pos2[k] = pos[k] /\ pos[k] \in Nat /\ pos[k] >= 1
      BY <1>7, <1>12, <3>1
    <3>3. pos[k + 1] = pos[k] + Lead(ins, k) + Weight(ins[k]) /\ pos[k + 1] <= P
      BY <1>5, <1>7, <2>1, <3>1 DEF P
    <3>4. pos[k] \in 1 .. l
      BY <1>8, <3>2, <3>3, WeightRange, LeadRange
    <3>. QED BY <1>4, <1>5, <1>21, <2>1, <3>2, <3>4
  <2>2. ASSUME NEW j \in 1 .. w, k = n + j
        PROVE  LineSeen(t[pos2[k]]) = D!LineTo("label", ins[k].addr)
    <3>1. j = 1 /\ k = n + 1
      BY <1>21, <2>2
    <3>2. pos2[k] = l + 1
      <4>1. n + 1 \in 1 .. n + 1
        OBVIOUS
      <4>. QED BY <1>8, <1>12, <3>1, <4>1 DEF P
    <3>3. t[pos2[k]] = B!Label(ins[k].addr)
      BY <1>4, <3>1, <3>2
    <3>. QED BY <3>3 DEF LineSeen, B!Label, D!LineTo
  <2>. QED BY <1>15, <2>1, <2>2
<1>22. ASSUME NEW k \in 1 .. n + w, NEW q \in 1 .. Weight(ins[k])
       PROVE  LineSeen(t[pos2[k] + Lead(ins, k) + q - 1]) = D!Lines(img, ins[k])[q]
  <2>q. q \in Nat /\ q >= 1 /\ q <= Weight(ins[k]) /\ Weight(ins[k]) \in Nat
    BY WeightRange
  <2>1. CASE k \in 1 .. n
    <3>1. k \in 1 .. n + 1 /\ k + 1 \in 1 .. n + 1 /\ n + 1 \in 1 .. n + 1 /\ k + 1 <= n + 1
      BY <2>1
    <3>2. pos2[k] = pos[k] /\ pos[k] \in Nat /\ pos[k] >= 1
      BY <1>7, <1>12, <3>1
    <3>3. pos[k + 1] = pos[k] + Lead(ins, k) + Weight(ins[k]) /\ pos[k + 1] <= P
      BY <1>5, <1>7, <2>1, <3>1 DEF P
    <3>5. Lead(ins, k) \in Nat
      BY LeadRange
    <3>4. pos[k] + Lead(ins, k) + q - 1 \in 1 .. l
      BY <1>8, <2>q, <3>2, <3>3, <3>5
    <3>6. t[pos[k] + Lead(ins, k) + q - 1] = seq[pos[k] + Lead(ins, k) + q - 1]
      BY <1>4, <3>4
    <3>7. LineSeen(seq[pos[k] + Lead(ins, k) + q - 1]) = D!Lines(img, ins[k])[q]
      BY <1>5, <2>1
    <3>. QED BY <3>2, <3>6, <3>7
  <2>2. ASSUME NEW j \in 1 .. w, k = n + j
        PROVE  LineSeen(t[pos2[k] + Lead(ins, k) + q - 1]) = D!Lines(img, ins[k])[q]
    <3>1. src[j] = ins[k] /\ q \in 1 .. Weight(src[j])
      BY <2>2
    <3>2. at[j] + q - 1 \in 1 .. m /\ at[j] \in Nat
      BY <1>9, <3>1
    <3>3. pos2[k] + Lead(ins, k) = P + at[j] /\ pos2[k] \in Nat /\ Lead(ins, k) \in Nat
      BY <1>14, <2>2, LeadRange
    <3>4. pos2[k] + Lead(ins, k) + q - 1 = l + 1 + (at[j] + q - 1)
      BY <1>8, <2>q, <3>2, <3>3
    <3>5. t[l + 1 + (at[j] + q - 1)] = B!emit_instruction(irs[at[j] + q - 1].opcode)
      BY <1>4, <3>2
    <3>6. Means(irs[at[j] + q - 1].opcode, ins[k])
      BY <1>6, <3>1
    <3>7. D!Lines(img, ins[k])[q] = LineSeen(B!emit_instruction(irs[at[j] + q - 1].opcode))
      BY <3>6, LinesMean
    <3>. QED BY <3>4, <3>5, <3>7
  <2>. QED BY <1>15, <2>1, <2>2
<1>23. n + w \in Nat
  OBVIOUS
<1>24. ToldAt(img, t, ins, n + w, pos2)
  BY <1>11, <1>16, <1>18, <1>19, <1>20, <1>21, <1>22 DEF ToldAt
<1>. QED BY <1>24 DEF Told

-----------------------------------------------------------------------------
(* The loops over the functions and their blocks.                          *)

\* The instructions of a function go up.
LEMMA InsnsAscend ==
  ASSUME FrontInv, NEW f \in DOMAIN functions
  PROVE  /\ Len(InsnsOf(f)) \in Nat /\ DOMAIN InsnsOf(f) = 1 .. Len(InsnsOf(f))
         /\ \A i \in 1 .. Len(InsnsOf(f)) : InsnsOf(f)[i].addr \in Nat
         /\ \A i, j \in 1 .. Len(InsnsOf(f)) : i < j => InsnsOf(f)[i].addr < InsnsOf(f)[j].addr
<1>. DEFINE ins == InsnsOf(f)
<1>1. PICK n \in Nat : \E l \in 1 .. n, h \in 1 .. n :
        /\ DOMAIN all_insns = 1 .. n /\ l <= h
        /\ ins = [ k \in 1 .. h - l + 1 |-> all_insns[l + k - 1] ]
        /\ \A i \in 1 .. n : all_insns[i] \in DisassembledInsn /\ all_insns[i].addr \in Nat
        /\ \A i, j \in 1 .. n : i < j => all_insns[i].addr < all_insns[j].addr
  BY FunctionPositions
<1>2. PICK l \in 1 .. n, h \in 1 .. n :
        /\ DOMAIN all_insns = 1 .. n /\ l <= h
        /\ ins = [ k \in 1 .. h - l + 1 |-> all_insns[l + k - 1] ]
        /\ \A i \in 1 .. n : all_insns[i] \in DisassembledInsn /\ all_insns[i].addr \in Nat
        /\ \A i, j \in 1 .. n : i < j => all_insns[i].addr < all_insns[j].addr
  BY <1>1
<1>. HIDE DEF ins
<1>3. \A k \in 1 .. h - l + 1 : l + k - 1 \in 1 .. n
  OBVIOUS
<1>4. h - l + 1 \in Nat /\ DOMAIN ins = 1 .. h - l + 1
  BY <1>2
<1>5. Len(ins) = h - l + 1
  <2>1. \A k \in 1 .. h - l + 1 : all_insns[l + k - 1] \in DisassembledInsn
    BY <1>2, <1>3
  <2>2. ins \in Seq(DisassembledInsn)
    BY <1>2, <1>4, <2>1, IsASeq
  <2>. QED BY <1>4, <2>2, LenProperties, SameEnd
<1>6. \A i \in 1 .. h - l + 1 : ins[i].addr \in Nat
  BY <1>2, <1>3
<1>7. \A i, j \in 1 .. h - l + 1 : i < j => ins[i].addr < ins[j].addr
  <2>. SUFFICES ASSUME NEW i \in 1 .. h - l + 1, NEW j \in 1 .. h - l + 1, i < j
                PROVE  ins[i].addr < ins[j].addr
    OBVIOUS
  <2>1. l + i - 1 < l + j - 1 /\ l + i - 1 \in 1 .. n /\ l + j - 1 \in 1 .. n
    BY <1>3
  <2>2. ins[i] = all_insns[l + i - 1] /\ ins[j] = all_insns[l + j - 1]
    BY <1>2
  <2>. QED BY <1>2, <2>1, <2>2
<1>. QED BY <1>4, <1>5, <1>6, <1>7 DEF ins

\* Where the blocks of a cut begin.
LEMMA CutPlaces ==
  ASSUME NEW g, Len(g) \in Nat, NEW ins, Len(ins) \in Nat, NEW first, CutAt(g, ins, first)
  PROVE  /\ \A b \in 1 .. Len(g) + 1 : first[b] \in Nat /\ first[b] >= 1
         /\ \A b, c \in 1 .. Len(g) + 1 : b < c => first[b] < first[c]
         /\ \A b \in 1 .. Len(g) : first[b] \in 1 .. Len(ins)
<1>. DEFINE m == Len(g)
<1>1. /\ first \in [ 1 .. m + 1 -> Nat ]
      /\ first[1] = 1 /\ first[m + 1] = Len(ins) + 1
      /\ \A b \in 1 .. m : first[b] < first[b + 1]
  BY DEF CutAt
<1>. HIDE DEF m
<1>2. m \in Nat /\ m + 1 \in Nat /\ \A b \in 1 .. m + 1 : first[b] \in Nat
  BY <1>1 DEF m
<1>3. ASSUME NEW b \in 1 .. m + 1, b > 1 PROVE first[b - 1] <= first[b]
  <2>1. b - 1 \in 1 .. m /\ (b - 1) + 1 = b /\ b - 1 \in 1 .. m + 1
    BY <1>2, <1>3
  <2>. QED BY <1>1, <1>2, <2>1
<1>4. \A b, c \in 1 .. m + 1 : b <= c => first[b] <= first[c]
  BY <1>2, <1>3, Rises
<1>5. ASSUME NEW b \in 1 .. m + 1, NEW c \in 1 .. m + 1, b < c PROVE first[b] < first[c]
  <2>1. b \in 1 .. m /\ b + 1 \in 1 .. m + 1 /\ b + 1 <= c
    BY <1>2, <1>5
  <2>2. first[b] < first[b + 1] /\ first[b + 1] <= first[c]
    BY <1>1, <1>4, <2>1
  <2>. QED BY <1>2, <2>1, <2>2
<1>6. ASSUME NEW b \in 1 .. m + 1 PROVE first[b] >= 1
  <2>1. 1 \in 1 .. m + 1 /\ 1 <= b
    BY <1>2
  <2>. QED BY <1>1, <1>2, <1>4, <2>1
<1>7. ASSUME NEW b \in 1 .. m PROVE first[b] \in 1 .. Len(ins)
  <2>1. b \in 1 .. m + 1 /\ m + 1 \in 1 .. m + 1 /\ b < m + 1
    BY <1>2
  <2>2. first[b] < Len(ins) + 1 /\ first[b] \in Nat /\ first[b] >= 1
    BY <1>1, <1>2, <1>5, <1>6, <2>1
  <2>. QED BY <2>2
<1>. QED BY <1>2, <1>5, <1>6, <1>7 DEF m

\* The blocks of a cut go up.
LEMMA CutAscends ==
  ASSUME NEW g, Len(g) \in Nat, NEW ins, Len(ins) \in Nat,
         \A i, j \in 1 .. Len(ins) : i < j => ins[i].addr < ins[j].addr,
         NEW first, CutAt(g, ins, first), NEW b \in 1 .. Len(g), NEW c \in 1 .. Len(g), b < c
  PROVE  g[b].start_addr < g[c].start_addr
<1>1. g[b].start_addr = ins[first[b]].addr /\ g[c].start_addr = ins[first[c]].addr
  BY DEF CutAt
<1>2. b \in 1 .. Len(g) + 1 /\ c \in 1 .. Len(g) + 1
  OBVIOUS
<1>3. first[b] \in 1 .. Len(ins) /\ first[c] \in 1 .. Len(ins) /\ first[b] < first[c]
  BY <1>2, CutPlaces
<1>. QED BY <1>1, <1>3

\* A finished body.
WholeBody(img, body, ins, name) ==
  /\ body.name = D!sanitise_c_ident(name)
  /\ \E t : IsVec(t) /\ Told(img, t, ins, Len(ins)) /\ body.lines = Append(t, B!ReturnRax)

\* The lines of the first m blocks of a graph.
ToldBlocks(img, seq, ins, g, m) ==
  \E first : CutAt(g, ins, first) /\ Told(img, seq, ins, first[m + 1] - 1)

\* The body in the making has the blocks that the loop has passed.
Underway(img, seq, left, ins, g) ==
  /\ IsVec(seq)
  /\ \E m \in 0 .. Len(g) : left = m + 1 .. Len(g) /\ ToldBlocks(img, seq, ins, g, m)

\* One block more.
LEMMA MoreBlocks ==
  ASSUME NEW img, Resolves(img), NEW ins, Len(ins) \in Nat,
         \A i, j \in 1 .. Len(ins) : i < j => ins[i].addr < ins[j].addr,
         \A i \in 1 .. Len(ins) : ins[i].addr \in Nat,
         NEW g, Len(g) \in Nat, \A b \in 1 .. Len(g) : IsVec(g[b].instructions),
         NEW irbs, RendersGraph(irbs, g), DOMAIN irbs = 1 .. Len(g),
         \A b \in 1 .. Len(g) : IsVec(irbs[b].instructions),
         NEW seq, NEW left, Underway(img, seq, left, ins, g),
         NEW b \in left,
         \A c \in left \ {b} : \/ irbs[b].start_addr < irbs[c].start_addr
                               \/ irbs[b].start_addr = irbs[c].start_addr /\ b < c,
         NEW t, t = seq \o B!EmittedBlock(irbs[b])
  PROVE  Underway(img, t, left \ {b}, ins, g)
<1>1. PICK m \in 0 .. Len(g) : left = m + 1 .. Len(g) /\ ToldBlocks(img, seq, ins, g, m)
  BY DEF Underway
<1>2. PICK first : CutAt(g, ins, first) /\ Told(img, seq, ins, first[m + 1] - 1)
  BY <1>1 DEF ToldBlocks
<1>3. \A c \in 1 .. Len(g) : irbs[c].start_addr = g[c].start_addr
                              /\ Rendered(irbs[c].instructions, g[c].instructions, Len(g[c].instructions))
  BY DEF RendersGraph, RendersBlock
<1>4. b \in 1 .. Len(g) /\ m + 1 \in 1 .. Len(g) /\ m + 1 \in left /\ m + 1 <= b
  BY <1>1
<1>5. /\ \A c \in 1 .. Len(g) + 1 : first[c] \in Nat /\ first[c] >= 1
      /\ \A c, d \in 1 .. Len(g) + 1 : c < d => first[c] < first[d]
      /\ \A c \in 1 .. Len(g) : first[c] \in 1 .. Len(ins)
  BY <1>2, CutPlaces
<1>6. \A c \in 1 .. Len(g) : g[c].start_addr \in Nat
  BY <1>2, <1>5 DEF CutAt
<1>7. b = m + 1
  <2>. SUFFICES ASSUME b # m + 1 PROVE FALSE
    OBVIOUS
  <2>1. m + 1 < b /\ m + 1 \in left \ {b} /\ ~(b < m + 1)
    BY <1>4
  <2>2. g[m + 1].start_addr < g[b].start_addr
    BY <1>2, <1>4, <2>1, CutAscends
  <2>3. irbs[b].start_addr < irbs[m + 1].start_addr
    BY <2>1
  <2>4. g[b].start_addr < g[m + 1].start_addr
    BY <1>3, <1>4, <2>3
  <2>. QED BY <1>4, <1>6, <2>2, <2>4
<1>. DEFINE n == first[m + 1] - 1
            w == first[m + 2] - first[m + 1]
            src == g[m + 1].instructions
<1>8. n \in Nat /\ w \in Nat /\ w >= 1 /\ n + 1 = first[m + 1] /\ n + w = first[m + 2] - 1
  <2>1. m + 1 \in 1 .. Len(g) + 1 /\ m + 2 \in 1 .. Len(g) + 1 /\ m + 1 < m + 2
    BY <1>4
  <2>2. first[m + 1] \in Nat /\ first[m + 1] >= 1 /\ first[m + 2] \in Nat /\ first[m + 1] < first[m + 2]
    BY <1>5, <2>1
  <2>. QED BY <2>2
<1>9. /\ g[m + 1].start_addr = ins[first[m + 1]].addr
      /\ DOMAIN src = 1 .. w
      /\ \A j \in 1 .. w : src[j] = ins[first[m + 1] + j - 1]
      /\ \A j \in 1 .. w : Opens(ins, first[m + 1] + j - 1) <=> j = 1
  <2>1. (m + 1) + 1 = m + 2
    OBVIOUS
  <2>. QED BY <1>2, <1>4, <2>1 DEF CutAt
<1>10. Len(src) = w
  <2>1. IsVec(src)
    BY <1>4
  <2>. HIDE DEF w, src
  <2>2. Len(src) \in Nat /\ DOMAIN src = 1 .. Len(src)
    BY <2>1, LenProperties DEF IsVec
  <2>. QED BY <1>8, <1>9, <2>2, SameEnd
<1>11. \A j \in 1 .. w : first[m + 1] + j - 1 = n + j
  BY <1>8
<1>. HIDE DEF n, w, src
<1>12. BlockAfter(seq, t, irbs[b]) /\ IsVec(t)
  BY <1>4, BlockAdded DEF Underway
<1>13. irbs[b].start_addr = ins[n + 1].addr
  BY <1>3, <1>4, <1>7, <1>8, <1>9
<1>14. Rendered(irbs[b].instructions, src, w)
  BY <1>3, <1>4, <1>7, <1>10 DEF src
<1>15. \A j \in 1 .. w : src[j] = ins[n + j]
  BY <1>9, <1>11
<1>16. \A j \in 1 .. w : Opens(ins, n + j) <=> j = 1
  BY <1>9, <1>11
<1>17. Told(img, seq, ins, n)
  BY <1>2 DEF n
<1>18. Told(img, t, ins, n + w)
  BY <1>8, <1>12, <1>13, <1>14, <1>15, <1>16, <1>17, ToldBlock
<1>19. ToldBlocks(img, t, ins, g, m + 1)
  <2>1. (m + 1) + 1 = m + 2
    OBVIOUS
  <2>. QED BY <1>2, <1>8, <1>18, <2>1 DEF ToldBlocks
<1>20. left \ {b} = (m + 1) + 1 .. Len(g) /\ m + 1 \in 0 .. Len(g)
  BY <1>1, <1>4, <1>7
<1>. QED BY <1>12, <1>19, <1>20 DEF Underway

\* Before the first block.
LEMMA NoBlocks ==
  ASSUME NEW img, NEW ins, NEW g, Len(g) \in Nat, Cuts(g, ins)
  PROVE  Underway(img, << >>, 1 .. Len(g), ins, g)
<1>1. PICK first : CutAt(g, ins, first)
  BY DEF Cuts
<1>2. first[0 + 1] - 1 = 0
  BY <1>1 DEF CutAt
<1>3. ToldBlocks(img, << >>, ins, g, 0)
  BY <1>1, <1>2, ToldNone DEF ToldBlocks
<1>4. 0 \in 0 .. Len(g) /\ 1 .. Len(g) = 0 + 1 .. Len(g)
  OBVIOUS
<1>. QED BY <1>3, <1>4, EmptyVec DEF Underway

\* Behind the last.
LEMMA AllBlocks ==
  ASSUME NEW img, NEW ins, Len(ins) \in Nat, NEW g, Len(g) \in Nat, NEW seq,
         Underway(img, seq, {}, ins, g)
  PROVE  Told(img, seq, ins, Len(ins))
<1>1. PICK m \in 0 .. Len(g) : {} = m + 1 .. Len(g) /\ ToldBlocks(img, seq, ins, g, m)
  BY DEF Underway
<1>2. m = Len(g)
  BY <1>1
<1>3. PICK first : CutAt(g, ins, first) /\ Told(img, seq, ins, first[m + 1] - 1)
  BY <1>1 DEF ToldBlocks
<1>4. first[m + 1] - 1 = Len(ins)
  BY <1>2, <1>3 DEF CutAt
<1>. QED BY <1>3, <1>4

\* The text is made, or there.
Emitting == stage \in { "emit", "output", "write" }

\* The image is known, and the functions are those that it calls for.
LEMMA StartsSeen ==
  ASSUME FrontInv, FP!OwnInv, fpc = "done"
  PROVE  /\ ImageFound.code = all_insns /\ ImageFound.starts = func_starts /\ ImageFound.symbols = symbols
         /\ D!FunctionStarts(ImageFound) = { functions[f].start_addr : f \in DOMAIN functions }
         /\ \A f \in DOMAIN functions :
              /\ D!Owned(ImageFound, functions[f].start_addr) = functions[f].instructions
              /\ functions[f].name = FP!NameOf(functions[f].start_addr)
<1>1. /\ ImageFound.code = all_insns /\ ImageFound.starts = func_starts /\ ImageFound.symbols = symbols
  BY DEF ImageFound, Discovered
<1>2. \A s : D!Owned(ImageFound, s) = FP!OwnedBy(s)
  BY <1>1 DEF D!Owned, FP!OwnedBy
<1>3. FP!Cut = func_starts
  BY DEF FrontInv, FP!IInv, FP!SeedInv, FP!Cut
<1>4. \A f \in DOMAIN functions :
        /\ functions[f].start_addr \in func_starts
        /\ functions[f].instructions # {}
        /\ functions[f].instructions = FP!OwnedBy(functions[f].start_addr)
        /\ functions[f].name = FP!NameOf(functions[f].start_addr)
  BY <1>3 DEF FrontInv, FP!IInv, FP!CutInv, FP!OwnInv
<1>5. ASSUME NEW s \in func_starts, D!Owned(ImageFound, s) # {}
      PROVE  \E f \in DOMAIN functions : functions[f].start_addr = s
  BY <1>2, <1>3, <1>5 DEF FP!OwnInv
<1>6. D!FunctionStarts(ImageFound) = { functions[f].start_addr : f \in DOMAIN functions }
  BY <1>1, <1>2, <1>4, <1>5 DEF D!FunctionStarts
<1>. QED BY <1>1, <1>2, <1>4, <1>6

\* What is emitted are the discovered functions, under their names.
LEMMA EmittedFunctions ==
  ASSUME IInv, LiftInv, IrInv, Emitting
  PROVE  /\ fpc = "done" /\ program.functions = ir_functions
         /\ Len(functions) \in Nat /\ DOMAIN functions = 1 .. Len(functions)
         /\ DOMAIN ir_functions = DOMAIN functions /\ DOMAIN cfgs = DOMAIN functions
         /\ \A f \in DOMAIN functions : /\ ir_functions[f].addr = functions[f].start_addr
                                        /\ ir_functions[f].name = functions[f].name
                                        /\ RendersGraph(ir_functions[f].blocks, cfgs[f])
<1>1. fpc = "done"
  BY DEF IInv, StageInv, Emitting
<1>2. /\ Len(functions) \in Nat /\ DOMAIN functions = 1 .. Len(functions)
      /\ DOMAIN cfgs = 1 .. Len(cfgs) /\ DOMAIN ir_functions = 1 .. Len(ir_functions)
  BY LenProperties DEF IInv, VecInv, IsVec
<1>3. Len(ir_functions) = Len(functions) /\ Len(cfgs) = Len(functions) /\ program.functions = ir_functions
  BY DEF IInv, LiftCount, CfgCount, Emitting
<1>4. \A f \in DOMAIN ir_functions : /\ ir_functions[f].addr = functions[f].start_addr
                                     /\ ir_functions[f].name = functions[f].name
                                     /\ RendersGraph(ir_functions[f].blocks, cfgs[f])
  BY DEF LiftInv, LiftedInv, IrInv, RenderedInv
<1>. QED BY <1>1, <1>2, <1>3, <1>4

\* A call of an address is named as the image names it.
LEMMA CallsResolve ==
  ASSUME FrontInv, FP!OwnInv, IInv, LiftInv, IrInv, Emitting, program.symbols = symbols
  PROVE  /\ Resolves(ImageFound)
         /\ \A f \in DOMAIN functions :
              D!sanitise_c_ident(functions[f].name) = D!Callee(ImageFound, functions[f].start_addr)
<1>1. /\ fpc = "done" /\ program.functions = ir_functions
      /\ DOMAIN ir_functions = DOMAIN functions
      /\ \A f \in DOMAIN functions : /\ ir_functions[f].addr = functions[f].start_addr
                                     /\ ir_functions[f].name = functions[f].name
  BY EmittedFunctions
<1>2. /\ ImageFound.symbols = symbols
      /\ D!FunctionStarts(ImageFound) = { functions[f].start_addr : f \in DOMAIN functions }
      /\ \A f \in DOMAIN functions : functions[f].name = FP!NameOf(functions[f].start_addr)
  BY <1>1, StartsSeen
<1>3. \A a : a \in D!FunctionStarts(ImageFound) =>
        D!sanitise_c_ident(FP!NameOf(a)) = D!Callee(ImageFound, a)
  BY <1>2 DEF FP!NameOf, D!Callee, FP!func_name, D!func_name, FP!Hex, D!Hex
<1>4. \A f \in DOMAIN functions :
        D!sanitise_c_ident(functions[f].name) = D!Callee(ImageFound, functions[f].start_addr)
  BY <1>2, <1>3
<1>5. B!emitted_addrs = D!FunctionStarts(ImageFound)
  BY <1>1, <1>2 DEF B!emitted_addrs, B!functions
<1>6. ASSUME NEW a PROVE B!resolve_call_name(a) = D!Callee(ImageFound, a)
  <2>1. CASE a \in B!emitted_addrs
    <3>. DEFINE f == CHOOSE f \in DOMAIN B!functions : B!functions[f].addr = a
    <3>1. B!functions = ir_functions
      BY <1>1 DEF B!functions
    <3>2. \E k \in DOMAIN B!functions : B!functions[k].addr = a
      BY <2>1 DEF B!emitted_addrs
    <3>3. f \in DOMAIN B!functions /\ B!functions[f].addr = a
      BY <3>2
    <3>4. B!resolve_call_name(a) = B!sanitise_c_ident(B!functions[f].name)
      BY <2>1 DEF B!resolve_call_name, B!func_names
    <3>. HIDE DEF f
    <3>5. f \in DOMAIN functions /\ functions[f].start_addr = a /\ B!functions[f].name = functions[f].name
      BY <1>1, <3>1, <3>3
    <3>. QED BY <1>4, <3>4, <3>5, SameIdents
  <2>2. CASE a \notin B!emitted_addrs /\ a \in DOMAIN symbols
    <3>1. B!symbols = symbols
      BY DEF B!symbols
    <3>2. B!resolve_call_name(a) = B!sanitise_c_ident(symbols[a])
      BY <2>2, <3>1 DEF B!resolve_call_name
    <3>3. D!Callee(ImageFound, a) = D!sanitise_c_ident(symbols[a])
      BY <1>2, <1>5, <2>2 DEF D!Callee
    <3>. QED BY <3>2, <3>3, SameIdents
  <2>3. CASE a \notin B!emitted_addrs /\ a \notin DOMAIN symbols
    <3>1. B!symbols = symbols
      BY DEF B!symbols
    <3>2. B!resolve_call_name(a) = B!stub_name(a)
      BY <2>3, <3>1 DEF B!resolve_call_name
    <3>3. D!Callee(ImageFound, a) = D!stub_name(a)
      BY <1>2, <1>5, <2>3 DEF D!Callee
    <3>. QED BY <3>2, <3>3 DEF B!stub_name, D!stub_name, B!Hex, D!Hex
  <2>. QED BY <2>1, <2>2, <2>3
<1>. QED BY <1>4, <1>6 DEF Resolves

\* What the emission of a function goes by.
LEMMA FunctionParts ==
  ASSUME FrontInv, IInv, BuildInv, LiftInv, GraphsInv, IrInv, Emitting, NEW f \in DOMAIN functions
  PROVE  /\ Len(cfgs[f]) \in Nat
         /\ \A b \in 1 .. Len(cfgs[f]) : IsVec(cfgs[f][b].instructions)
         /\ Cuts(cfgs[f], InsnsOf(f))
         /\ RendersGraph(ir_functions[f].blocks, cfgs[f])
         /\ DOMAIN ir_functions[f].blocks = 1 .. Len(cfgs[f])
         /\ \A b \in 1 .. Len(cfgs[f]) : IsVec(ir_functions[f].blocks[b].instructions)
<1>. DEFINE g    == cfgs[f]
            irbs == ir_functions[f].blocks
<1>1. f \in DOMAIN cfgs /\ f \in DOMAIN ir_functions /\ RendersGraph(irbs, g)
  BY EmittedFunctions
<1>2. IsGraph(g) /\ Cuts(g, InsnsOf(f))
  BY <1>1 DEF BuildInv, GraphsInv
<1>3. Lowered(irbs)
  BY <1>1 DEF LiftInv, LiftedInv
<1>. HIDE DEF g, irbs
<1>4. Len(g) \in Nat /\ DOMAIN g = 1 .. Len(g) /\ \A b \in DOMAIN g : g[b] \in L!BasicBlock
  <2>1. g \in Seq(L!BasicBlock)
    BY <1>2 DEF IsGraph
  <2>. QED BY <2>1, LenProperties, ElementOfSeq
<1>5. \A b \in 1 .. Len(g) : IsVec(g[b].instructions)
  BY <1>4 DEF L!BasicBlock, IsVec
<1>6. IsVec(irbs) /\ \A b \in DOMAIN irbs : IsVec(irbs[b].instructions)
  BY <1>3 DEF Lowered, IrOfGraph, IrOK
<1>7. DOMAIN irbs = 1 .. Len(g)
  <2>1. DOMAIN irbs = 1 .. Len(irbs)
    BY <1>6, LenProperties DEF IsVec
  <2>. QED BY <1>1, <2>1 DEF RendersGraph
<1>. QED BY <1>1, <1>2, <1>4, <1>5, <1>6, <1>7 DEF g, irbs

\* The finished bodies are whole, and one is underway while emit_c walks over
\* the blocks of its function.
EmitInv ==
  Emitting =>
    /\ program.symbols = symbols
    /\ \A f \in DOMAIN bodies :
         f \in DOMAIN functions /\ WholeBody(ImageFound, bodies[f], InsnsOf(f), functions[f].name)
    /\ bpc = "block" =>
         Underway(ImageFound, lines, todo, InsnsOf(Len(bodies) + 1), cfgs[Len(bodies) + 1])

\* What the frontend has found stays as it is.
LEMMA FoundStays ==
  ASSUME UNCHANGED fvars
  PROVE  /\ ImageFound' = ImageFound /\ functions' = functions /\ symbols' = symbols /\ fpc' = fpc
         /\ \A f : InsnsOf(f)' = InsnsOf(f)
BY DEF fvars, ImageFound, Discovered, InsnsOf

LEMMA EmitFrame ==
  ASSUME EmitInv, UNCHANGED << fvars, cfgs, bvars >>, Emitting' => Emitting
  PROVE  EmitInv'
<1>. SUFFICES ASSUME Emitting'
              PROVE  /\ program'.symbols = symbols'
                     /\ \A f \in DOMAIN bodies' :
                          f \in DOMAIN functions'
                            /\ WholeBody(ImageFound, bodies[f], InsnsOf(f), functions[f].name)'
                     /\ bpc' = "block" =>
                          Underway(ImageFound, lines, todo, InsnsOf(Len(bodies) + 1), cfgs[Len(bodies) + 1])'
  BY DEF EmitInv
<1>1. /\ ImageFound' = ImageFound /\ functions' = functions /\ symbols' = symbols
      /\ \A f : InsnsOf(f)' = InsnsOf(f)
  BY FoundStays
<1>2. /\ program' = program /\ bodies' = bodies /\ bpc' = bpc /\ lines' = lines /\ todo' = todo
      /\ cfgs' = cfgs
  BY DEF bvars
<1>3. Len(bodies)' = Len(bodies)
  BY <1>2
<1>4. InsnsOf(Len(bodies) + 1)' = InsnsOf(Len(bodies) + 1)
  BY <1>1, <1>2, FoundStays DEF InsnsOf, fvars
<1>5. ASSUME NEW f \in DOMAIN bodies
      PROVE  f \in DOMAIN functions /\ WholeBody(ImageFound, bodies[f], InsnsOf(f), functions[f].name)'
  <2>1. f \in DOMAIN functions /\ WholeBody(ImageFound, bodies[f], InsnsOf(f), functions[f].name)
    BY DEF EmitInv
  <2>2. InsnsOf(f)' = InsnsOf(f) /\ bodies[f]' = bodies[f] /\ functions[f].name' = functions[f].name
    BY <1>1, <1>2
  <2>. QED BY <1>1, <2>1, <2>2
<1>6. ASSUME bpc = "block"
      PROVE  Underway(ImageFound, lines, todo, InsnsOf(Len(bodies) + 1), cfgs[Len(bodies) + 1])'
  <2>1. Underway(ImageFound, lines, todo, InsnsOf(Len(bodies) + 1), cfgs[Len(bodies) + 1])
    BY <1>6 DEF EmitInv
  <2>2. cfgs[Len(bodies) + 1]' = cfgs[Len(bodies) + 1]
    BY <1>2, <1>3
  <2>. QED BY <1>1, <1>2, <1>4, <2>1, <2>2
<1>. QED BY <1>1, <1>2, <1>5, <1>6 DEF EmitInv

\* emit_c begins.
LEMMA EmitBegins ==
  ASSUME IInv, LiftDone
  PROVE  EmitInv'
<1>1. /\ stage = "lift" /\ program' = [functions |-> ir_functions, symbols |-> symbols]
      /\ bpc' = "collect" /\ bodies' = bodies /\ symbols' = symbols
  BY DEF LiftDone, fvars
<1>2. bodies' = << >>
  BY <1>1 DEF IInv, UntouchedInv
<1>3. program'.symbols = symbols'
  BY <1>1
<1>. QED BY <1>1, <1>2, <1>3 DEF EmitInv

\* One step of emit_c.
LEMMA EmitSteps ==
  ASSUME FrontInv, FP!OwnInv, IInv, BuildInv, LiftInv, GraphsInv, IrInv, EmitInv, RunEmitC
  PROVE  EmitInv'
<1>1. /\ stage = "emit" /\ stage' = stage /\ bpc # "done" /\ B!Next
      /\ UNCHANGED << fvars, cvars, lvars >> /\ cfgs' = cfgs /\ ir_functions' = ir_functions
  BY DEF RunEmitC, mvars
<1>2. program' = program
  BY EmitKeepsProgram
<1>3. /\ ImageFound' = ImageFound /\ functions' = functions /\ symbols' = symbols
      /\ \A f : InsnsOf(f)' = InsnsOf(f)
  BY <1>1, FoundStays
<1>4. Emitting
  BY <1>1 DEF Emitting
<1>5. /\ program.symbols = symbols
      /\ \A f \in DOMAIN bodies :
           f \in DOMAIN functions /\ WholeBody(ImageFound, bodies[f], InsnsOf(f), functions[f].name)
      /\ bpc = "block" =>
           Underway(ImageFound, lines, todo, InsnsOf(Len(bodies) + 1), cfgs[Len(bodies) + 1])
  BY <1>4 DEF EmitInv
<1>6. /\ program.functions = ir_functions /\ Len(functions) \in Nat
      /\ DOMAIN functions = 1 .. Len(functions) /\ Len(ir_functions) = Len(functions)
      /\ Len(bodies) \in Nat /\ Len(bodies) <= Len(functions)
      /\ bpc = "block" => Len(bodies) < Len(functions)
  <2>1. /\ program.functions = ir_functions /\ Len(functions) \in Nat
        /\ DOMAIN functions = 1 .. Len(functions)
    BY <1>4, EmittedFunctions
  <2>2. Len(ir_functions) = Len(functions)
    BY <1>1 DEF IInv, LiftCount
  <2>3. Len(bodies) \in Nat
    BY VecLen DEF IInv, VecInv
  <2>4. BodiesFit
    BY <1>1 DEF IInv, EmitCount
  <2>. QED BY <2>1, <2>2, <2>3, <2>4 DEF BodiesFit
<1>7. Resolves(ImageFound)
        /\ \A f \in DOMAIN functions :
             D!sanitise_c_ident(functions[f].name) = D!Callee(ImageFound, functions[f].start_addr)
  BY <1>4, <1>5, CallsResolve
<1>. DEFINE f == Len(bodies) + 1
<1>p. ASSUME f \in DOMAIN functions
      PROVE  /\ Len(cfgs[f]) \in Nat
             /\ \A b \in 1 .. Len(cfgs[f]) : IsVec(cfgs[f][b].instructions)
             /\ Cuts(cfgs[f], InsnsOf(f))
             /\ RendersGraph(ir_functions[f].blocks, cfgs[f])
             /\ DOMAIN ir_functions[f].blocks = 1 .. Len(cfgs[f])
             /\ \A b \in 1 .. Len(cfgs[f]) : IsVec(ir_functions[f].blocks[b].instructions)
             /\ B!fn = ir_functions[f] /\ ir_functions[f].name = functions[f].name
             /\ Len(InsnsOf(f)) \in Nat
             /\ \A i \in 1 .. Len(InsnsOf(f)) : InsnsOf(f)[i].addr \in Nat
             /\ \A i, j \in 1 .. Len(InsnsOf(f)) : i < j => InsnsOf(f)[i].addr < InsnsOf(f)[j].addr
  <2>1. B!fn = ir_functions[f]
    BY <1>6 DEF B!fn, B!functions
  <2>2. ir_functions[f].name = functions[f].name
    BY <1>4, <1>p, EmittedFunctions
  <2>. HIDE DEF f
  <2>3. /\ Len(InsnsOf(f)) \in Nat
        /\ \A i \in 1 .. Len(InsnsOf(f)) : InsnsOf(f)[i].addr \in Nat
        /\ \A i, j \in 1 .. Len(InsnsOf(f)) : i < j => InsnsOf(f)[i].addr < InsnsOf(f)[j].addr
    BY <1>p, InsnsAscend
  <2>4. /\ Len(cfgs[f]) \in Nat
        /\ \A b \in 1 .. Len(cfgs[f]) : IsVec(cfgs[f][b].instructions)
        /\ Cuts(cfgs[f], InsnsOf(f))
        /\ RendersGraph(ir_functions[f].blocks, cfgs[f])
        /\ DOMAIN ir_functions[f].blocks = 1 .. Len(cfgs[f])
        /\ \A b \in 1 .. Len(cfgs[f]) : IsVec(ir_functions[f].blocks[b].instructions)
    BY <1>4, <1>p, FunctionParts
  <2>. QED BY <2>1, <2>2, <2>3, <2>4
\* The bodies that were there.
<1>8. ASSUME NEW k, k \in DOMAIN bodies, bodies'[k] = bodies[k]
      PROVE  k \in DOMAIN functions' /\ WholeBody(ImageFound, bodies[k], InsnsOf(k), functions[k].name)'
  <2>1. k \in DOMAIN functions /\ WholeBody(ImageFound, bodies[k], InsnsOf(k), functions[k].name)
    BY <1>5, <1>8
  <2>2. InsnsOf(k)' = InsnsOf(k) /\ bodies[k]' = bodies[k] /\ functions[k].name' = functions[k].name
    BY <1>3, <1>8
  <2>. QED BY <1>3, <2>1, <2>2
<1>9. ASSUME bodies' = bodies,
             bpc' = "block" => Underway(ImageFound, lines', todo', InsnsOf(f), cfgs[f])
      PROVE  EmitInv'
  <2>1. f' = f
    BY <1>9
  <2>2. InsnsOf(f)' = InsnsOf(f) /\ cfgs[f]' = cfgs[f]
    BY <1>1, <1>9, <2>1 DEF InsnsOf, fvars
  <2>3. bpc' = "block" => Underway(ImageFound, lines, todo, InsnsOf(f), cfgs[f])'
    BY <1>3, <1>9, <2>2
  <2>4. program'.symbols = symbols'
    BY <1>2, <1>3, <1>5
  <2>5. \A k \in DOMAIN bodies' :
          k \in DOMAIN functions' /\ WholeBody(ImageFound, bodies[k], InsnsOf(k), functions[k].name)'
    BY <1>8, <1>9
  <2>. QED BY <2>3, <2>4, <2>5 DEF EmitInv, f
<1>10. CASE B!Collect \/ B!DeclareLibc \/ B!EndLibc \/ B!DeclareStub \/ B!EndStubs
              \/ B!DeclareTarget \/ B!EndTargets \/ B!Finish \/ B!Terminated
  <2>1. bodies' = bodies /\ bpc' # "block"
    BY <1>1, <1>10 DEF B!Collect, B!DeclareLibc, B!EndLibc, B!DeclareStub, B!EndStubs, B!DeclareTarget,
      B!EndTargets, B!Finish, B!Terminated, B!vars
  <2>. QED BY <1>9, <2>1
<1>11. CASE B!BeginFunction
  <2>1. /\ Len(bodies) < Len(ir_functions) /\ todo' = DOMAIN B!fn.blocks /\ lines' = << >>
        /\ bodies' = bodies
    BY <1>6, <1>11 DEF B!BeginFunction, B!functions
  <2>2. f \in DOMAIN functions
    BY <1>6, <2>1
  <2>3. todo' = 1 .. Len(cfgs[f])
    BY <1>p, <2>1, <2>2
  <2>4. Underway(ImageFound, lines', todo', InsnsOf(f), cfgs[f])
    BY <1>p, <2>1, <2>2, <2>3, NoBlocks
  <2>. QED BY <1>9, <2>1, <2>4
<1>12. CASE B!EmitBlock
  <2>1. bpc = "block" /\ bodies' = bodies
    BY <1>12 DEF B!EmitBlock
  <2>2. f \in DOMAIN functions
    BY <1>6, <2>1
  <2>3. PICK b \in todo :
          /\ \A c \in todo \ {b} :
               \/ B!fn.blocks[b].start_addr < B!fn.blocks[c].start_addr
               \/ B!fn.blocks[b].start_addr = B!fn.blocks[c].start_addr /\ b < c
          /\ lines' = lines \o B!EmittedBlock(B!fn.blocks[b])
          /\ todo' = todo \ {b}
    BY <1>12 DEF B!EmitBlock
  <2>4. B!fn.blocks = ir_functions[f].blocks
    BY <1>p, <2>2
  <2>. HIDE DEF f
  <2>5. Underway(ImageFound, lines, todo, InsnsOf(f), cfgs[f])
    BY <1>5, <2>1 DEF f
  <2>. DEFINE irbs == ir_functions[f].blocks
  <2>. HIDE DEF irbs
  <2>6. /\ RendersGraph(irbs, cfgs[f]) /\ DOMAIN irbs = 1 .. Len(cfgs[f])
        /\ \A c \in 1 .. Len(cfgs[f]) : IsVec(irbs[c].instructions)
    BY <1>p, <2>2 DEF irbs
  <2>7. /\ \A c \in todo \ {b} : \/ irbs[b].start_addr < irbs[c].start_addr
                                 \/ irbs[b].start_addr = irbs[c].start_addr /\ b < c
        /\ lines' = lines \o B!EmittedBlock(irbs[b])
    BY <2>3, <2>4 DEF irbs
  <2>8. Underway(ImageFound, lines', todo \ {b}, InsnsOf(f), cfgs[f])
    BY <1>7, <1>p, <2>2, <2>5, <2>6, <2>7, MoreBlocks
  <2>9. bpc' = "block" => Underway(ImageFound, lines', todo', InsnsOf(f), cfgs[f])
    BY <2>3, <2>8
  <2>. QED BY <1>9, <2>1, <2>9
<1>13. CASE B!EndFunction
  <2>. DEFINE body == [ name |-> B!sanitise_c_ident(B!fn.name), lines |-> Append(lines, B!ReturnRax) ]
  <2>1. bpc = "block" /\ todo = {} /\ bpc' = "function" /\ bodies' = Append(bodies, body)
    BY <1>13 DEF B!EndFunction
  <2>2. f \in DOMAIN functions
    BY <1>6, <2>1
  <2>3. Underway(ImageFound, lines, {}, InsnsOf(f), cfgs[f])
    BY <1>5, <2>1
  <2>4. B!fn.name = functions[f].name
    BY <1>p, <2>2
  <2>5. body.name = D!sanitise_c_ident(functions[f].name) /\ body.lines = Append(lines, B!ReturnRax)
    BY <2>4, SameIdents
  <2>. HIDE DEF body
  <2>6. Len(InsnsOf(f)) \in Nat /\ Len(cfgs[f]) \in Nat
    BY <1>p, <2>2
  <2>7. PICK n \in Nat :
          /\ n = Len(bodies) /\ DOMAIN bodies = 1 .. n
          /\ DOMAIN bodies' = 1 .. n + 1
          /\ \A k \in 1 .. n : bodies'[k] = bodies[k]
          /\ bodies'[n + 1] = body
    BY <2>1, AppendShape DEF IInv, VecInv
  <2>8. bodies'[f] = body
    BY <2>7
  <2>. HIDE DEF f
  <2>9. Told(ImageFound, lines, InsnsOf(f), Len(InsnsOf(f)))
    BY <2>3, <2>6, AllBlocks
  <2>10. WholeBody(ImageFound, body, InsnsOf(f), functions[f].name)
    BY <2>3, <2>5, <2>9 DEF WholeBody, Underway
  <2>11. ASSUME NEW k \in DOMAIN bodies'
         PROVE  k \in DOMAIN functions'
                  /\ WholeBody(ImageFound, bodies[k], InsnsOf(k), functions[k].name)'
    <3>1. k \in 1 .. n \/ k = n + 1
      BY <2>7
    <3>2. CASE k \in 1 .. n
      BY <1>8, <2>7, <3>2
    <3>3. CASE k = n + 1
      <4>1. k = f
        BY <2>7, <3>3 DEF f
      <4>2. InsnsOf(k)' = InsnsOf(k) /\ functions[k].name' = functions[k].name /\ bodies[k]' = body
        BY <1>3, <2>8, <4>1
      <4>3. WholeBody(ImageFound, body, InsnsOf(k), functions[k].name)
        BY <2>10, <4>1
      <4>4. WholeBody(ImageFound, bodies[k], InsnsOf(k), functions[k].name)'
        BY <1>3, <4>2, <4>3
      <4>. QED BY <1>3, <2>2, <4>1, <4>4
    <3>. QED BY <3>1, <3>2, <3>3
  <2>12. program'.symbols = symbols'
    BY <1>2, <1>3, <1>5
  <2>. QED BY <2>1, <2>11, <2>12 DEF EmitInv
<1>. QED BY <1>1, <1>10, <1>11, <1>12, <1>13 DEF B!Next

-----------------------------------------------------------------------------
(* The lines that Decompiler asks for.                                     *)

LEMMA SameCardinality == \A s : D!Cardinality(s) = Cardinality(s)
BY DEF D!Cardinality, Cardinality

LEMMA LinesShape ==
  ASSUME NEW img, NEW i
  PROVE  \E S : D!Lines(img, i) \in Seq(S) /\ Len(D!Lines(img, i)) = Weight(i)
<1>. DEFINE s == D!Lines(img, i)
<1>m. \A x \in D!Returning \cup D!Branching : x \notin { "jmp", "call", "syscall", "leave" }
  BY DEF D!Returning, D!Branching, D!RET_MNEMONICS, D!HALT_MNEMONICS, D!COND_JUMPS
<1>n. D!Returning \cap D!Branching = {}
  BY DEF D!Returning, D!Branching, D!RET_MNEMONICS, D!HALT_MNEMONICS, D!COND_JUMPS
<1>. SUFFICES \/ i.mnemonic # "leave" /\ \E x : s = << x >>
              \/ i.mnemonic = "leave" /\ \E x, y : s = << x, y >>
  <2>. HIDE DEF s
  <2>1. CASE i.mnemonic # "leave" /\ \E x : s = << x >>
    <3>1. PICK x : s = << x >>
      BY <2>1
    <3>2. s \in Seq({ x }) /\ Len(s) = 1
      BY <3>1
    <3>. QED BY <2>1, <3>2 DEF s, Weight
  <2>2. CASE i.mnemonic = "leave" /\ \E x, y : s = << x, y >>
    <3>1. PICK x, y : s = << x, y >>
      BY <2>2
    <3>2. s \in Seq({ x, y }) /\ Len(s) = 2
      BY <3>1
    <3>. QED BY <2>2, <3>2 DEF s, Weight
  <2>3. \/ i.mnemonic # "leave" /\ \E x : s = << x >>
        \/ i.mnemonic = "leave" /\ \E x, y : s = << x, y >>
    BY DEF s
  <2>. QED BY <2>1, <2>2, <2>3
<1>1. CASE i.mnemonic \in D!Returning
  <2>1. s = << D!Line("return") >>
    BY <1>1, <1>m, <1>n DEF D!Lines
  <2>. QED BY <1>1, <1>m, <2>1
<1>2. CASE i.mnemonic \in D!Branching
  <2>1. s = << D!LineTo("if", D!Immediate(i.op_str)) >>
    BY <1>2, <1>m, <1>n DEF D!Lines
  <2>. QED BY <1>2, <1>m, <2>1
<1>3. CASE i.mnemonic \in { "jmp", "call" } /\ i.op_str = << >>
  <2>1. s = << D!Line("statement") >>
    BY <1>3, <1>m, <1>n DEF D!Lines
  <2>. QED BY <1>3, <1>m, <2>1
<1>4. CASE i.mnemonic \in { "jmp", "call" } /\ i.op_str # << >> /\ D!Computed(i.op_str[1])
  <2>1. s = << D!Line("icall") >>
    BY <1>4, <1>m, <1>n DEF D!Lines
  <2>. QED BY <1>4, <1>m, <2>1
<1>5. CASE i.mnemonic = "jmp" /\ i.op_str # << >> /\ ~ D!Computed(i.op_str[1])
  <2>1. s = << D!LineTo("goto", D!Immediate(i.op_str)) >>
    BY <1>5, <1>m, <1>n DEF D!Lines
  <2>. QED BY <1>5, <1>m, <2>1
<1>6. CASE i.mnemonic = "call" /\ i.op_str # << >> /\ ~ D!Computed(i.op_str[1])
  <2>1. s = << D!CallLine(D!Called(img, i.op_str[1]), D!Passed(i.op_str[1])) >>
    BY <1>6, <1>m, <1>n DEF D!Lines
  <2>. QED BY <1>6, <1>m, <2>1
<1>7. CASE i.mnemonic = "syscall"
  <2>1. s = << D!CallLine(D!sanitise_c_ident(<< "syscall" >>), D!RegisterArgs) >>
    BY <1>7, <1>m, <1>n DEF D!Lines
  <2>. QED BY <1>7, <1>m, <2>1
<1>8. CASE i.mnemonic = "leave"
  <2>1. s = << D!Line("statement"), D!Line("statement") >>
    BY <1>8, <1>m, <1>n DEF D!Lines
  <2>. QED BY <1>8, <1>m, <2>1
<1>9. CASE i.mnemonic \notin D!Returning \cup D!Branching \cup { "jmp", "call", "syscall", "leave" }
  <2>1. s = << D!Line("statement") >>
    BY <1>9, <1>m, <1>n DEF D!Lines
  <2>. QED BY <1>9, <1>m, <2>1
<1>. HIDE DEF s
<1>. QED BY <1>1, <1>2, <1>3, <1>4, <1>5, <1>6, <1>7, <1>8, <1>9

\* An element in front.
LEMMA InFront ==
  ASSUME NEW a, NEW S, NEW s \in Seq(S)
  PROVE  /\ DOMAIN (<< a >> \o s) = 1 .. Len(s) + 1
         /\ (<< a >> \o s)[1] = a
         /\ \A j \in 1 .. Len(s) : (<< a >> \o s)[j + 1] = s[j]
<1>. DEFINE U == S \cup { a }
<1>1. << a >> \in Seq(U) /\ Len(<< a >>) = 1 /\ << a >>[1] = a
  OBVIOUS
<1>2. s \in Seq(U) /\ Len(s) \in Nat
  OBVIOUS
<1>. HIDE DEF U
<1>3. /\ << a >> \o s \in Seq(U) /\ Len(<< a >> \o s) = 1 + Len(s)
      /\ \A k \in 1 .. 1 + Len(s) : (<< a >> \o s)[k] = IF k <= 1 THEN << a >>[k] ELSE s[k - 1]
  BY <1>1, <1>2, ConcatProperties
<1>4. 1 + Len(s) = Len(s) + 1 /\ 1 \in 1 .. 1 + Len(s)
  BY <1>2
<1>5. DOMAIN (<< a >> \o s) = 1 .. Len(s) + 1
  BY <1>3, <1>4, LenProperties
<1>6. \A j \in 1 .. Len(s) : j + 1 \in 1 .. 1 + Len(s) /\ ~(j + 1 <= 1) /\ (j + 1) - 1 = j
  BY <1>2
<1>. QED BY <1>1, <1>3, <1>4, <1>5, <1>6

\* Whether a label comes before instruction i of the instructions P.
LeadIn(img, P, i) == IF D!Enterable(img, P, i) THEN 1 ELSE 0

LEMMA ChunkShape ==
  ASSUME NEW img, NEW P, NEW i
  PROVE  /\ DOMAIN D!Chunk(img, P, i) = 1 .. LeadIn(img, P, i) + Weight(img.code[i])
         /\ D!Enterable(img, P, i) => D!Chunk(img, P, i)[1] = D!LineTo("label", img.code[i].addr)
         /\ \A j \in 1 .. Weight(img.code[i]) :
              D!Chunk(img, P, i)[LeadIn(img, P, i) + j] = D!Lines(img, img.code[i])[j]
<1>. DEFINE s == D!Lines(img, img.code[i])
            a == D!LineTo("label", img.code[i].addr)
            w == Weight(img.code[i])
<1>1. PICK S : s \in Seq(S) /\ Len(s) = w
  BY LinesShape
<1>2. w \in Nat
  BY WeightRange
<1>3. D!Chunk(img, P, i) = (IF D!Enterable(img, P, i) THEN << a >> ELSE << >>) \o s
  BY DEF D!Chunk
<1>. HIDE DEF s, a, w
<1>4. CASE D!Enterable(img, P, i)
  <2>1. D!Chunk(img, P, i) = << a >> \o s /\ LeadIn(img, P, i) = 1
    BY <1>3, <1>4 DEF LeadIn
  <2>2. /\ DOMAIN (<< a >> \o s) = 1 .. w + 1 /\ (<< a >> \o s)[1] = a
        /\ \A j \in 1 .. w : (<< a >> \o s)[j + 1] = s[j]
    BY <1>1, InFront
  <2>3. w + 1 = 1 + w /\ \A j \in 1 .. w : j + 1 = 1 + j
    BY <1>2
  <2>4. /\ DOMAIN D!Chunk(img, P, i) = 1 .. 1 + w
        /\ D!Chunk(img, P, i)[1] = a
        /\ \A j \in 1 .. w : D!Chunk(img, P, i)[1 + j] = s[j]
    BY <2>1, <2>2, <2>3
  <2>. QED BY <2>1, <2>4 DEF s, a, w
<1>5. CASE ~ D!Enterable(img, P, i)
  <2>1. D!Chunk(img, P, i) = << >> \o s /\ LeadIn(img, P, i) = 0
    BY <1>3, <1>5 DEF LeadIn
  <2>2. << >> \o s = s
    BY <1>1, ConcatEmptySeq
  <2>3. 0 + w = w /\ \A j \in 1 .. w : 0 + j = j
    BY <1>2
  <2>4. DOMAIN s = 1 .. w
    BY <1>1, LenProperties
  <2>5. /\ DOMAIN D!Chunk(img, P, i) = 1 .. 0 + w
        /\ \A j \in 1 .. w : D!Chunk(img, P, i)[0 + j] = s[j]
    BY <2>1, <2>2, <2>3, <2>4
  <2>. QED BY <1>5, <2>1, <2>5 DEF s, w
<1>. QED BY <1>4, <1>5

\* The image of a function's instructions, which are those from l to h.
Shows(img, l, h, ins) ==
  /\ DOMAIN ins = 1 .. h - l + 1
  /\ \A k \in 1 .. h - l + 1 : ins[k] = img.code[l + k - 1]

\* Decompiler has labels where the cut has blocks.
LEMMA EnterableOpens ==
  ASSUME NEW img, NEW l \in Nat, NEW h \in Nat, l <= h, NEW ins, Shows(img, l, h, ins),
         NEW i \in l .. h, NEW k, k = i - l + 1
  PROVE  /\ D!Enterable(img, l .. h, i) <=> Opens(ins, k)
         /\ LeadIn(img, l .. h, i) = Lead(ins, k)
<1>0. k \in 1 .. h - l + 1 /\ i = l + k - 1
  OBVIOUS
<1>1. i \in l .. h /\ ins[k] = img.code[i]
  BY <1>0 DEF Shows
<1>2. i - 1 \notin l .. h <=> k = 1
  OBVIOUS
<1>3. k # 1 => ins[k - 1] = img.code[i - 1]
  <2>. SUFFICES ASSUME k # 1 PROVE ins[k - 1] = img.code[i - 1]
    OBVIOUS
  <2>1. k - 1 \in 1 .. h - l + 1 /\ l + (k - 1) - 1 = i - 1
    BY <1>0
  <2>. QED BY <2>1 DEF Shows
<1>4. \A j \in l .. h : j - l + 1 \in DOMAIN ins /\ ins[j - l + 1] = img.code[j]
  <2>. SUFFICES ASSUME NEW j \in l .. h
                PROVE  j - l + 1 \in DOMAIN ins /\ ins[j - l + 1] = img.code[j]
    OBVIOUS
  <2>1. j - l + 1 \in 1 .. h - l + 1 /\ l + (j - l + 1) - 1 = j
    OBVIOUS
  <2>. QED BY <2>1 DEF Shows
<1>5. \A j \in DOMAIN ins : l + j - 1 \in l .. h /\ ins[j] = img.code[l + j - 1]
  BY DEF Shows
<1>6. (\E j \in l .. h : D!IsJump(img.code[j]) /\ D!parse_hex_target(img.code[j].op_str) = img.code[i].addr)
        <=> (\E j \in DOMAIN ins : D!IsJump(ins[j]) /\ D!parse_hex_target(ins[j].op_str) = ins[k].addr)
  BY <1>1, <1>4, <1>5
<1>7. D!Enterable(img, l .. h, i) <=> Opens(ins, k)
  BY <1>2, <1>3, <1>6 DEF D!Enterable, Opens
<1>. QED BY <1>7 DEF LeadIn, Lead

-----------------------------------------------------------------------------
(* Heights.                                                                *)

LEMMA AddPairs ==
  ASSUME NEW U, IsFiniteSet(U), NEW i, NEW w \in Nat, U \cap ({i} \X (1 .. w)) = {}
  PROVE  /\ IsFiniteSet(U \cup ({i} \X (1 .. w)))
         /\ Cardinality(U \cup ({i} \X (1 .. w))) = Cardinality(U) + w
<1>. DEFINE V == {i} \X (1 .. w)
<1>1. IsFiniteSet({i}) /\ Cardinality({i}) = 1
  BY FS_Singleton
<1>2. IsFiniteSet(1 .. w) /\ Cardinality(1 .. w) = w
  BY FS_Interval
<1>3. IsFiniteSet(V) /\ Cardinality(V) = w
  <2>1. IsFiniteSet(V) /\ Cardinality(V) = Cardinality({i}) * Cardinality(1 .. w)
    BY <1>1, <1>2, FS_Product
  <2>. HIDE DEF V
  <2>. QED BY <1>1, <1>2, <2>1
<1>. HIDE DEF V
<1>4. /\ IsFiniteSet(U \cup V)
      /\ Cardinality(U \cup V) = Cardinality(U) + Cardinality(V) - Cardinality(U \cap V)
  BY <1>3, FS_Union
<1>5. U \cap V = {} /\ Cardinality({}) = 0
  BY FS_EmptySet DEF V
<1>6. Cardinality(U) \in Nat
  BY FS_CardinalityType
<1>7. Cardinality(U \cup V) = Cardinality(U) + w
  <2>1. \A x, v \in Nat : x + v - 0 = x + v
    OBVIOUS
  <2>2. Cardinality(U \cup V) = Cardinality(U) + w - 0
    BY ONLY <1>3, <1>4, <1>5
  <2>. QED BY ONLY <1>6, <2>1, <2>2, w \in Nat
<1>. QED BY <1>4, <1>7 DEF V

\* The lines, as pairs, of the instructions of a function before one of them.
LinesBefore(img, l, h, i) ==
  UNION { {j} \X DOMAIN D!Chunk(img, l .. h, j) : j \in { q \in l .. h : q < i } }

\* As many as are above it.
CountedTo(img, l, h, i, n) ==
  IsFiniteSet(LinesBefore(img, l, h, i)) /\ Cardinality(LinesBefore(img, l, h, i)) = n

LEMMA CountNone ==
  ASSUME NEW img, NEW l \in Nat, NEW h \in Nat
  PROVE  CountedTo(img, l, h, l, 0)
<1>1. { q \in l .. h : q < l } = {}
  OBVIOUS
<1>2. LinesBefore(img, l, h, l) = {}
  BY <1>1 DEF LinesBefore
<1>. QED BY <1>2, FS_EmptySet DEF CountedTo

LEMMA CountNext ==
  ASSUME NEW img, NEW l \in Nat, NEW h \in Nat, NEW i \in l .. h, NEW n, CountedTo(img, l, h, i, n),
         NEW w \in Nat, DOMAIN D!Chunk(img, l .. h, i) = 1 .. w
  PROVE  CountedTo(img, l, h, i + 1, n + w)
<1>. DEFINE dom(j) == DOMAIN D!Chunk(img, l .. h, j)
            U == LinesBefore(img, l, h, i)
<1>1. { q \in l .. h : q < i + 1 } = { q \in l .. h : q < i } \cup { i }
  OBVIOUS
<1>2. U = UNION { {j} \X dom(j) : j \in { q \in l .. h : q < i } }
  BY DEF LinesBefore
<1>3. LinesBefore(img, l, h, i + 1)
        = UNION { {j} \X dom(j) : j \in { q \in l .. h : q < i } \cup { i } }
  BY <1>1 DEF LinesBefore
<1>4. dom(i) = 1 .. w
  OBVIOUS
<1>5. i \notin { q \in l .. h : q < i }
  OBVIOUS
<1>. DEFINE Q == { q \in l .. h : q < i }
<1>. HIDE DEF dom, U, Q
<1>6. LinesBefore(img, l, h, i + 1) = U \cup ({i} \X (1 .. w))
  BY <1>2, <1>3, <1>4 DEF Q
<1>7. U \cap ({i} \X (1 .. w)) = {}
  BY <1>2, <1>5 DEF Q
<1>8. IsFiniteSet(U) /\ Cardinality(U) = n
  BY DEF CountedTo, U
<1>9. /\ IsFiniteSet(U \cup ({i} \X (1 .. w)))
      /\ Cardinality(U \cup ({i} \X (1 .. w))) = Cardinality(U) + w
  BY <1>7, <1>8, AddPairs
<1>. QED BY <1>6, <1>8, <1>9 DEF CountedTo

\* The place where the lines of an instruction begin is below what is above it.
LEMMA Heights ==
  ASSUME NEW img, NEW l \in Nat, NEW h \in Nat, l <= h, NEW ins, Shows(img, l, h, ins),
         NEW seq, NEW pos, ToldAt(img, seq, ins, h - l + 1, pos),
         NEW k \in 1 .. h - l + 2
  PROVE  CountedTo(img, l, h, l + k - 1, pos[k] - 1)
<1>. DEFINE N == h - l + 1
            Bad == { q \in 1 .. N + 1 : ~ CountedTo(img, l, h, l + q - 1, pos[q] - 1) }
<1>1. N \in Nat /\ 1 .. N + 1 = 1 .. h - l + 2
  OBVIOUS
<1>2. /\ pos[1] = 1
      /\ \A q \in 1 .. N + 1 : pos[q] \in Nat
      /\ \A q \in 1 .. N : pos[q + 1] = pos[q] + Lead(ins, q) + Weight(ins[q])
  BY DEF ToldAt
<1>3. ASSUME Bad # {} PROVE FALSE
  <2>1. Bad \subseteq Nat
    BY <1>1
  <2>2. PICK e \in Bad : \A q \in Bad : e <= q
    BY <1>3, <2>1, FP!LeastExists, NoAddrAssumption, FilesFit
  <2>3. CASE e = 1
    <3>1. l + e - 1 = l /\ pos[e] - 1 = 0
      BY <1>2, <2>3
    <3>. QED BY <2>2, <3>1, CountNone
  <2>4. CASE e # 1
    <3>1. e - 1 \in 1 .. N /\ e - 1 \in 1 .. N + 1 /\ ~(e <= e - 1) /\ (e - 1) + 1 = e
      BY <1>1, <2>2, <2>4
    <3>. DEFINE q == e - 1
                i == l + q - 1
    <3>2. q \notin Bad
      BY <2>2, <3>1
    <3>3. i \in l .. h /\ i + 1 = l + e - 1 /\ q \in 1 .. h - l + 1 /\ q \in Nat
      BY <1>1, <3>1
    <3>. HIDE DEF q, N
    <3>4. CountedTo(img, l, h, i, pos[q] - 1)
      BY <3>1, <3>2 DEF q
    <3>5. DOMAIN D!Chunk(img, l .. h, i) = 1 .. LeadIn(img, l .. h, i) + Weight(img.code[i])
      BY ChunkShape
    <3>6. LeadIn(img, l .. h, i) = Lead(ins, q) /\ img.code[i] = ins[q]
      <4>1. LeadIn(img, l .. h, i) = Lead(ins, q)
        <5>. HIDE DEF Bad
        <5>1. q = i - l + 1
          BY <3>3
        <5>. HIDE DEF i
        <5>. QED BY <3>3, <5>1, EnterableOpens
      <4>2. img.code[l + q - 1] = ins[q]
        BY <3>3 DEF Shows
      <4>. QED BY <4>1, <4>2
    <3>7. Lead(ins, q) + Weight(ins[q]) \in Nat /\ Lead(ins, q) \in Nat /\ Weight(ins[q]) \in Nat
      BY LeadRange, WeightRange
    <3>. DEFINE w == Lead(ins, q) + Weight(ins[q])
    <3>8. DOMAIN D!Chunk(img, l .. h, i) = 1 .. w
      BY <3>5, <3>6
    <3>. HIDE DEF i
    <3>9. CountedTo(img, l, h, i + 1, (pos[q] - 1) + w)
      BY <3>3, <3>4, <3>7, <3>8, CountNext
    <3>10. pos[e] = pos[q] + Lead(ins, q) + Weight(ins[q]) /\ pos[q] \in Nat
      BY <1>2, <3>1 DEF q
    <3>11. (pos[q] - 1) + w = pos[e] - 1
      BY <3>7, <3>10
    <3>. QED BY <2>2, <3>3, <3>9, <3>11
  <2>. QED BY <2>3, <2>4
<1>. QED BY <1>1, <1>3

\* The height of the lines above an instruction.
LEMMA HeightCounts ==
  ASSUME NEW img, NEW l, NEW h, NEW i, NEW n, CountedTo(img, l, h, i, n)
  PROVE  D!Height(img, l .. h, { q \in l .. h : q < i }) = n
<1>1. D!Height(img, l .. h, { q \in l .. h : q < i }) = Cardinality(LinesBefore(img, l, h, i))
  BY SameCardinality DEF D!Height, LinesBefore
<1>. QED BY <1>1 DEF CountedTo

-----------------------------------------------------------------------------
(* The unit.                                                               *)

\* The lines told of a function, and a return, are its body.
LEMMA ToldIsBody ==
  ASSUME NEW img, NEW l \in Nat, NEW h \in Nat, l <= h, NEW ins, Shows(img, l, h, ins),
         NEW start, D!Owned(img, start) = l .. h,
         NEW t, IsVec(t), Told(img, t, ins, h - l + 1),
         NEW lns, lns = Append(t, B!ReturnRax),
         NEW seen, seen = [ i \in DOMAIN lns |-> LineSeen(lns[i]) ]
  PROVE  D!IsBody(img, start, seen)
<1>. DEFINE N    == h - l + 1
            P    == l .. h
            above(i) == D!Height(img, P, { j \in P : j < i })
<1>1. PICK pos : ToldAt(img, t, ins, N, pos)
  BY DEF Told
<1>2. PICK n \in Nat :
        /\ n = Len(t) /\ DOMAIN t = 1 .. n
        /\ DOMAIN lns = 1 .. n + 1
        /\ \A k \in 1 .. n : lns[k] = t[k]
        /\ lns[n + 1] = B!ReturnRax
  BY AppendShape
<1>3. N \in Nat /\ N + 1 \in 1 .. N + 1 /\ N + 1 = h - l + 2
  OBVIOUS
<1>4. /\ \A k \in 1 .. N + 1 : pos[k] \in Nat /\ pos[k] >= 1
      /\ \A i, k \in 1 .. N + 1 : i <= k => pos[i] <= pos[k]
  BY <1>1, <1>3, ToldBounds
<1>5. /\ \A k \in 1 .. N : pos[k + 1] = pos[k] + Lead(ins, k) + Weight(ins[k])
      /\ DOMAIN t = 1 .. pos[N + 1] - 1
      /\ \A k \in 1 .. N : Opens(ins, k) => LineSeen(t[pos[k]]) = D!LineTo("label", ins[k].addr)
      /\ \A k \in 1 .. N : \A j \in 1 .. Weight(ins[k]) :
           LineSeen(t[pos[k] + Lead(ins, k) + j - 1]) = D!Lines(img, ins[k])[j]
  BY <1>1 DEF ToldAt
<1>6. pos[N + 1] = n + 1
  <2>1. pos[N + 1] - 1 \in Nat /\ pos[N + 1] \in Nat
    BY <1>3, <1>4
  <2>. HIDE DEF N
  <2>2. pos[N + 1] - 1 = n
    BY <1>2, <1>5, <2>1, SameEnd
  <2>. QED BY <2>1, <2>2
<1>7. ASSUME NEW k \in 1 .. N + 1, NEW i, i = l + k - 1
      PROVE  above(i) = pos[k] - 1
  <2>1. k \in 1 .. h - l + 2
    BY <1>3
  <2>2. CountedTo(img, l, h, i, pos[k] - 1)
    BY <1>1, <1>7, <2>1, Heights
  <2>. QED BY <2>2, HeightCounts
<1>8. D!Height(img, P, P) = n
  <2>1. { j \in P : j < h + 1 } = P
    OBVIOUS
  <2>2. h + 1 = l + (N + 1) - 1
    OBVIOUS
  <2>3. above(h + 1) = pos[N + 1] - 1
    BY <1>3, <1>7, <2>2
  <2>4. above(h + 1) = D!Height(img, P, P)
    BY <2>1
  <2>. HIDE DEF above, N
  <2>. QED BY <1>2, <1>6, <2>3, <2>4
<1>9. DOMAIN seen = 1 .. n + 1 /\ \A k \in 1 .. n : seen[k] = LineSeen(t[k])
  <2>1. DOMAIN seen = 1 .. n + 1
    BY <1>2
  <2>2. \A k \in 1 .. n : k \in DOMAIN lns /\ lns[k] = t[k]
    BY <1>2
  <2>. QED BY <2>1, <2>2
<1>10. seen[n + 1] = D!Line("return")
  <2>1. n + 1 \in DOMAIN lns /\ lns[n + 1] = B!ReturnRax
    BY <1>2
  <2>2. seen[n + 1] = LineSeen(B!ReturnRax)
    BY <2>1
  <2>. QED BY <2>2 DEF LineSeen, B!ReturnRax, D!Line
<1>. HIDE DEF above
<1>11. ASSUME NEW i \in P, NEW c \in DOMAIN D!Chunk(img, P, i)
       PROVE  seen[above(i) + c] = D!Chunk(img, P, i)[c]
  <2>. DEFINE k == i - l + 1
  <2>1. k \in 1 .. N /\ k \in 1 .. N + 1 /\ k + 1 \in 1 .. N + 1 /\ i = l + k - 1
    BY <1>3
  <2>2. above(i) = pos[k] - 1
    BY <1>7, <2>1
  <2>3. ins[k] = img.code[i]
    BY <2>1 DEF Shows
  <2>4. LeadIn(img, P, i) = Lead(ins, k) /\ (D!Enterable(img, P, i) <=> Opens(ins, k))
    BY EnterableOpens
  <2>. HIDE DEF k
  <2>. DEFINE lead == Lead(ins, k)
              w    == Weight(ins[k])
  <2>5. /\ DOMAIN D!Chunk(img, P, i) = 1 .. lead + w
        /\ Opens(ins, k) => D!Chunk(img, P, i)[1] = D!LineTo("label", ins[k].addr)
        /\ \A j \in 1 .. w : D!Chunk(img, P, i)[lead + j] = D!Lines(img, ins[k])[j]
    BY <2>3, <2>4, ChunkShape
  <2>6. lead \in { 0, 1 } /\ w \in Nat
    BY LeadRange, WeightRange
  <2>7. pos[k] \in Nat /\ pos[k] >= 1 /\ pos[k] + lead + w <= n + 1
    <3>1. pos[k + 1] = pos[k] + lead + w /\ pos[k + 1] <= pos[N + 1]
      <4>1. k + 1 <= N + 1
        BY <1>3, <2>1
      <4>. QED BY <1>3, <1>4, <1>5, <2>1, <4>1
    <3>. QED BY <1>4, <1>6, <2>1, <3>1
  <2>8. Opens(ins, k) <=> lead = 1
    BY DEF Lead
  <2>. DEFINE chunk == D!Chunk(img, P, i)
  <2>9. /\ Opens(ins, k) => LineSeen(t[pos[k]]) = D!LineTo("label", ins[k].addr)
        /\ \A j \in 1 .. w : LineSeen(t[pos[k] + lead + j - 1]) = D!Lines(img, ins[k])[j]
    BY <1>5, <2>1
  <2>10. c \in 1 .. lead + w /\ lead \in Nat
    BY <2>5, <2>6
  <2>. HIDE DEF lead, w, P, N, chunk
  <2>15. c \in Nat /\ c >= 1 /\ c <= lead + w
    BY <2>6, <2>10
  <2>16. pos[k] + c - 1 \in 1 .. n
    <3>1. \A p, x, y, z \in Nat : p >= 1 /\ x >= 1 /\ x <= y /\ p + y <= z + 1 => p + x - 1 \in 1 .. z
      OBVIOUS
    <3>2. lead + w \in Nat /\ pos[k] + (lead + w) <= n + 1
      BY ONLY <2>6, <2>7, <2>10
    <3>. QED BY ONLY <1>2, <2>7, <2>15, <3>1, <3>2
  <2>11. above(i) + c = pos[k] + c - 1 /\ pos[k] + c - 1 \in 1 .. n
    <3>1. \A x, y \in Nat : (x - 1) + y = x + y - 1
      OBVIOUS
    <3>2. above(i) + c = (pos[k] - 1) + c
      BY <2>2
    <3>. QED BY <2>7, <2>15, <2>16, <3>1, <3>2
  <2>12. seen[above(i) + c] = LineSeen(t[pos[k] + c - 1])
    BY <1>9, <2>11
  <2>13. CASE lead = 1 /\ c = 1
    <3>1. pos[k] + c - 1 = pos[k]
      BY <2>7, <2>13
    <3>. QED BY <2>5, <2>8, <2>9, <2>12, <2>13, <3>1 DEF chunk
  <2>14. CASE ~(lead = 1 /\ c = 1)
    <3>. DEFINE j == c - lead
    <3>1. j \in 1 .. w /\ c = lead + j /\ pos[k] + c - 1 = pos[k] + lead + j - 1
      <4>1. lead = 0 \/ (lead = 1 /\ c >= 2)
        BY <2>6, <2>15, <2>14
      <4>2. c - lead \in 1 .. w /\ c = lead + (c - lead)
        BY <2>6, <2>10, <2>15, <4>1
      <4>3. pos[k] + c - 1 = pos[k] + lead + (c - lead) - 1
        BY <2>7, <2>10, <2>15
      <4>. QED BY <4>2, <4>3
    <3>. HIDE DEF j
    <3>2. D!Chunk(img, P, i)[lead + j] = D!Lines(img, ins[k])[j]
      BY <2>5, <3>1
    <3>3. LineSeen(t[pos[k] + lead + j - 1]) = D!Lines(img, ins[k])[j]
      BY <2>9, <3>1
    <3>. QED BY <2>12, <3>1, <3>2, <3>3
  <2>. QED BY <2>13, <2>14
<1>12. P = D!Owned(img, start)
  OBVIOUS
<1>13. \A i : above(i) = D!Height(img, P, { j \in P : j < i })
  BY DEF above
<1>. HIDE DEF P, above
<1>. QED BY <1>8, <1>9, <1>10, <1>11, <1>12, <1>13 DEF D!IsBody

\* As many starts as there are functions up to one.
LEMMA Ranks ==
  ASSUME NEW n \in Nat, NEW s, \A f \in 1 .. n : s[f] \in Nat,
         \A f, g \in 1 .. n : f < g => s[f] < s[g], NEW m \in 0 .. n
  PROVE  Cardinality({ s[f] : f \in 1 .. m }) = m
<1>. DEFINE T == { s[f] : f \in 1 .. m }
            b == [ f \in 1 .. m |-> s[f] ]
<1>1. \A f, g \in 1 .. m : b[f] = b[g] => f = g
  BY DEF b
<1>2. b \in [ 1 .. m -> T ] /\ \A x \in T : \E f \in 1 .. m : b[f] = x
  BY DEF b
<1>. HIDE DEF b, T
<1>3. ExistsBijection(1 .. m, T)
  BY <1>1, <1>2 DEF ExistsBijection, Bijection, Injection, Surjection, IsInjective
<1>4. m \in Int /\ 1 \in Int /\ m \in Nat
  OBVIOUS
<1>5. IsFiniteSet(1 .. m) /\ Cardinality(1 .. m) = m
  BY <1>4, FS_Interval
<1>. QED BY <1>3, <1>5, FS_Bijection DEF T

\* A function's place among the starts is its own.
LEMMA Placed ==
  ASSUME IInv, FrontInv, FP!OwnInv, fpc = "done"
  PROVE  /\ D!Cardinality(D!FunctionStarts(ImageFound)) = Len(functions)
         /\ \A f \in DOMAIN functions :
              D!Cardinality({ s \in D!FunctionStarts(ImageFound) : s <= functions[f].start_addr }) = f
<1>. DEFINE starts == D!FunctionStarts(ImageFound)
            n      == Len(functions)
            s      == [ f \in 1 .. n |-> functions[f].start_addr ]
<1>1. /\ DOMAIN functions = 1 .. n
      /\ \A f \in DOMAIN functions : functions[f].start_addr \in Nat
      /\ \A f, g \in DOMAIN functions : f < g => functions[f].start_addr < functions[g].start_addr
  BY FunctionsAscend
<1>2. n \in Nat
  BY VecLen DEF IInv, VecInv
<1>3. starts = { functions[f].start_addr : f \in DOMAIN functions }
  BY StartsSeen
<1>. HIDE DEF n, starts
<1>4. \A f \in 1 .. n : s[f] = functions[f].start_addr /\ s[f] \in Nat
  BY <1>1
<1>5. starts = { s[f] : f \in 1 .. n }
  BY <1>1, <1>3, <1>4
<1>6. \A f, g \in 1 .. n : f < g => s[f] < s[g]
  BY <1>1, <1>4
<1>. HIDE DEF s
<1>7. ASSUME NEW m \in 0 .. n PROVE D!Cardinality({ s[f] : f \in 1 .. m }) = m
  BY <1>2, <1>4, <1>6, Ranks, SameCardinality
<1>8. D!Cardinality(starts) = n
  BY <1>2, <1>5, <1>7
<1>9. ASSUME NEW f \in 1 .. n PROVE D!Cardinality({ x \in starts : x <= s[f] }) = f
  <2>1. \A g \in 1 .. n : s[g] <= s[f] <=> g \in 1 .. f
    <3>. SUFFICES ASSUME NEW g \in 1 .. n PROVE s[g] <= s[f] <=> g <= f
      BY <1>2
    <3>1. g < f \/ g = f \/ f < g
      BY <1>2
    <3>2. CASE g < f
      BY <1>4, <1>6, <3>2
    <3>3. CASE g = f
      BY <1>4, <3>3
    <3>4. CASE f < g
      <4>1. s[f] < s[g] /\ s[f] \in Nat /\ s[g] \in Nat
        BY <1>4, <1>6, <3>4
      <4>. QED BY <1>2, <3>4, <4>1
    <3>. QED BY <3>1, <3>2, <3>3, <3>4
  <2>2. \A g \in 1 .. f : g \in 1 .. n
    BY <1>2
  <2>3. { x \in starts : x <= s[f] } = { s[g] : g \in 1 .. f }
    BY <1>5, <2>1, <2>2
  <2>4. f \in 0 .. n
    BY <1>2
  <2>. QED BY <1>7, <2>3, <2>4
<1>. QED BY <1>1, <1>4, <1>8, <1>9 DEF starts, n

\* A body that is whole is what the image calls for.
LEMMA BodyIsBody ==
  ASSUME FrontInv, FP!OwnInv, fpc = "done", NEW f \in DOMAIN functions, NEW body, NEW name,
         WholeBody(ImageFound, body, InsnsOf(f), name)
  PROVE  D!IsBody(ImageFound, functions[f].start_addr, BodySeen(body).lines)
<1>. DEFINE ins   == InsnsOf(f)
            start == functions[f].start_addr
            img   == ImageFound
<1>1. PICK n \in Nat : \E l \in 1 .. n, h \in 1 .. n :
        /\ l <= h /\ functions[f].instructions = l .. h
        /\ ins = [ k \in 1 .. h - l + 1 |-> all_insns[l + k - 1] ]
  BY FunctionPositions
<1>2. PICK l \in 1 .. n, h \in 1 .. n :
        /\ l <= h /\ functions[f].instructions = l .. h
        /\ ins = [ k \in 1 .. h - l + 1 |-> all_insns[l + k - 1] ]
  BY <1>1
<1>3. img.code = all_insns /\ D!Owned(img, start) = functions[f].instructions
  BY StartsSeen
<1>4. Len(ins) \in Nat /\ DOMAIN ins = 1 .. Len(ins)
  BY InsnsAscend
<1>5. PICK t : IsVec(t) /\ Told(img, t, ins, Len(ins)) /\ body.lines = Append(t, B!ReturnRax)
  BY DEF WholeBody
<1>. HIDE DEF ins, img, start
<1>6. Shows(img, l, h, ins) /\ D!Owned(img, start) = l .. h
  BY <1>2, <1>3 DEF Shows
<1>7. Len(ins) = h - l + 1
  <2>1. DOMAIN ins = 1 .. h - l + 1 /\ h - l + 1 \in Nat
    BY <1>2
  <2>. QED BY <1>4, <2>1, SameEnd
<1>8. l \in Nat /\ h \in Nat
  OBVIOUS
<1>9. Told(img, t, ins, h - l + 1)
  BY <1>5, <1>7
<1>. DEFINE lns == body.lines
<1>10. lns = Append(t, B!ReturnRax)
  BY <1>5
<1>. HIDE DEF lns
<1>. DEFINE seen == BodySeen(body).lines
<1>11. seen = [ i \in DOMAIN lns |-> LineSeen(lns[i]) ]
  BY DEF BodySeen, lns
<1>. HIDE DEF seen
<1>12. D!IsBody(img, start, seen)
  BY <1>2, <1>5, <1>6, <1>8, <1>9, <1>10, <1>11, ToldIsBody
<1>. QED BY <1>12 DEF img, start, seen

\* The bodies that emit_c leaves are the unit that the image calls for.
LEMMA UnitIsUnit ==
  ASSUME FrontInv, FP!OwnInv, IInv, LiftInv, IrInv, EmitInv, Emitting, Len(bodies) = Len(functions),
         NEW unit, unit = [ f \in DOMAIN bodies |-> BodySeen(bodies[f]) ]
  PROVE  D!IsUnit(ImageFound, unit)
<1>1. /\ fpc = "done" /\ DOMAIN functions = 1 .. Len(functions)
  BY EmittedFunctions
<1>2. DOMAIN bodies = DOMAIN functions
  BY <1>1, LenProperties DEF IInv, VecInv, IsVec
<1>3. \A f \in DOMAIN bodies : WholeBody(ImageFound, bodies[f], InsnsOf(f), functions[f].name)
  BY DEF EmitInv
<1>4. /\ D!Cardinality(D!FunctionStarts(ImageFound)) = Len(functions)
      /\ \A f \in DOMAIN functions :
           D!Cardinality({ s \in D!FunctionStarts(ImageFound) : s <= functions[f].start_addr }) = f
  BY <1>1, Placed
<1>5. \A f \in DOMAIN functions :
        D!sanitise_c_ident(functions[f].name) = D!Callee(ImageFound, functions[f].start_addr)
  BY CallsResolve DEF EmitInv
<1>6. D!FunctionStarts(ImageFound) = { functions[f].start_addr : f \in DOMAIN functions }
  BY <1>1, StartsSeen
<1>7. ASSUME NEW f \in DOMAIN functions
      PROVE  /\ unit[f].name = D!Callee(ImageFound, functions[f].start_addr)
             /\ D!IsBody(ImageFound, functions[f].start_addr, unit[f].lines)
  <2>1. unit[f] = BodySeen(bodies[f]) /\ WholeBody(ImageFound, bodies[f], InsnsOf(f), functions[f].name)
    BY <1>2, <1>3
  <2>2. unit[f].name = bodies[f].name
    BY <2>1 DEF BodySeen
  <2>3. bodies[f].name = D!sanitise_c_ident(functions[f].name)
    BY <2>1 DEF WholeBody
  <2>4. D!IsBody(ImageFound, functions[f].start_addr, unit[f].lines)
    BY <1>1, <2>1, BodyIsBody
  <2>. QED BY <1>5, <2>2, <2>3, <2>4
<1>8. DOMAIN unit = 1 .. D!Cardinality(D!FunctionStarts(ImageFound))
  BY <1>1, <1>2, <1>4
<1>9. ASSUME NEW start \in D!FunctionStarts(ImageFound),
             NEW p, p = D!Cardinality({ s \in D!FunctionStarts(ImageFound) : s <= start })
      PROVE  /\ unit[p].name = D!Callee(ImageFound, start)
             /\ D!IsBody(ImageFound, start, unit[p].lines)
  <2>1. PICK f \in DOMAIN functions : start = functions[f].start_addr
    BY <1>6
  <2>2. p = f
    BY <1>4, <1>9, <2>1
  <2>. QED BY <1>7, <2>1, <2>2
<1>. QED BY <1>8, <1>9 DEF D!IsUnit

-----------------------------------------------------------------------------
(* The invariant of the whole, and the promise.                            *)

PromiseInv == FP!OwnInv /\ GraphsInv /\ IrInv /\ EmitInv

LEMMA OwnFront == FP!IInv /\ FP!OwnInv /\ (FP!Next \/ UNCHANGED fvars) => FP!OwnInv'
<1>1. UNCHANGED fvars => UNCHANGED FP!vars
  BY DEF fvars, FP!vars
<1>2. FP!IInv /\ FP!OwnInv /\ [FP!Next]_(FP!vars) => FP!OwnInv'
  BY NoAddrAssumption, FilesFit, FP!NextOwn
<1>. QED BY <1>1, <1>2

LEMMA InitPromise == Init => PromiseInv
<1>. SUFFICES ASSUME Init PROVE PromiseInv
  OBVIOUS
<1>1. /\ F!Init /\ stage = "args" /\ cfgs = << >> /\ ir_functions = << >>
      /\ cpc = "idle" /\ lpc = "idle"
  BY DEF Init
<1>2. FP!OwnInv
  <2>1. FP!Init
    BY <1>1 DEF F!Init, FP!Init, F!EmptyMap, FP!EmptyMap
  <2>. QED BY <2>1, NoAddrAssumption, FilesFit, FP!InitOwn
<1>3. GraphsInv /\ IrInv
  BY <1>1 DEF GraphsInv, IrInv, RenderedInv
<1>4. EmitInv
  BY <1>1 DEF EmitInv, Emitting
<1>. QED BY <1>2, <1>3, <1>4 DEF PromiseInv

LEMMA NextPromise == IInv /\ StagesInv /\ PromiseInv /\ [Next]_vars => PromiseInv'
<1>. SUFFICES ASSUME IInv, StagesInv, PromiseInv, [Next]_vars PROVE PromiseInv'
  OBVIOUS
<1>. USE DEF PromiseInv
<1>1. FrontInv /\ BuildInv /\ LiftInv /\ FP!IInv
  BY DEF StagesInv, FrontInv
<1>2. ASSUME UNCHANGED fvars
      PROVE  FP!OwnInv' /\ functions' = functions /\ all_insns' = all_insns
  BY <1>1, <1>2, OwnFront DEF fvars
<1>3. CASE ArgsEndRun \/ ParseArgs \/ FrontendFailed \/ FrontendDone \/ CfgsDone \/ EmitCReturns
             \/ CreateFails \/ CreateFile \/ WriteFails \/ WriteFile \/ Exited \/ UNCHANGED vars
  <2>1. UNCHANGED << fvars, cvars, lvars, bvars, cfgs, ir_functions >> /\ (Emitting' => Emitting)
    BY <1>3 DEF ArgsEndRun, ParseArgs, FrontendFailed, FrontendDone, CfgsDone, EmitCReturns,
      CreateFails, CreateFile, WriteFails, WriteFile, Exited, Exit, vars, mvars, Emitting
  <2>. QED BY <1>2, <2>1, GraphsFrame, IrFrame, EmitFrame
<1>4. CASE RunFrontend
  <2>1. F!Next /\ UNCHANGED << mvars, cvars, lvars, bvars >> /\ stage = "frontend"
    BY <1>4 DEF RunFrontend
  <2>2. /\ cfgs' = cfgs /\ ir_functions' = ir_functions /\ ir_functions = << >>
        /\ cfgs = << >> /\ cpc = "idle" /\ lpc = "idle" /\ ~ Emitting'
    BY <2>1 DEF mvars, IInv, UntouchedInv, Emitting
  <2>3. FP!OwnInv'
    BY <1>1, <2>1, FrontendNext, OwnFront
  <2>4. GraphsInv'
    BY <2>1, <2>2, GraphsFrame
  <2>5. IrInv'
    BY <2>1, <2>2, IrFrame
  <2>. QED BY <2>2, <2>3, <2>4, <2>5 DEF EmitInv
<1>5. CASE CallBuildCfg \/ RunBuildCfg \/ BuildCfgReturns
  <2>1. UNCHANGED << fvars, lvars, ir_functions >> /\ stage' = "cfg" /\ stage = "cfg"
    BY <1>5 DEF CallBuildCfg, RunBuildCfg, BuildCfgReturns, mvars
  <2>2. ir_functions = << >> /\ lpc = "idle" /\ ~ Emitting'
    BY <2>1 DEF IInv, UntouchedInv, Emitting
  <2>3. GraphsInv'
    BY <1>1, <1>5, GraphsSteps
  <2>4. IrInv'
    BY <2>1, <2>2, IrFrame
  <2>. QED BY <1>2, <2>1, <2>2, <2>3, <2>4 DEF EmitInv
<1>6. CASE CallLiftFunction \/ RunLiftFunction \/ LiftFunctionReturns
  <2>1. UNCHANGED << fvars, cvars, cfgs >> /\ stage' = "lift"
    BY <1>6 DEF CallLiftFunction, RunLiftFunction, LiftFunctionReturns, mvars
  <2>2. ~ Emitting'
    BY <2>1 DEF Emitting
  <2>3. IrInv'
    BY <1>1, <1>6, IrSteps
  <2>4. GraphsInv'
    BY <1>2, <2>1, GraphsFrame
  <2>. QED BY <1>2, <2>1, <2>2, <2>3, <2>4 DEF EmitInv
<1>7. CASE LiftDone
  <2>1. UNCHANGED << fvars, cvars, lvars, cfgs, ir_functions >>
    BY <1>7 DEF LiftDone
  <2>2. EmitInv'
    BY <1>7, EmitBegins
  <2>. QED BY <1>2, <2>1, <2>2, GraphsFrame, IrFrame
<1>8. CASE RunEmitC
  <2>1. UNCHANGED << fvars, cvars, lvars, cfgs, ir_functions >>
    BY <1>8 DEF RunEmitC, mvars
  <2>2. EmitInv'
    BY <1>1, <1>8, EmitSteps
  <2>. QED BY <1>2, <2>1, <2>2, GraphsFrame, IrFrame
<1>. QED BY <1>3, <1>4, <1>5, <1>6, <1>7, <1>8 DEF Next

\* What is written at the end is the unit.
LEMMA WritesUnit ==
  ASSUME IInv, StagesInv, PromiseInv, WriteFile
  PROVE  D!Deliver
<1>1. /\ stage = "write" /\ stage' = "exited" /\ exit_code' = 0 /\ file' = NewFile(c_source)
      /\ UNCHANGED << fpc, all_insns, func_starts, symbols >>
  BY DEF WriteFile, Exit, fvars
<1>2. Progress = "writing" /\ Progress' = "over" /\ ImageFound' = ImageFound
  BY <1>1 DEF Progress, ImageFound, Discovered
<1>. DEFINE unit == [ f \in DOMAIN bodies |-> BodySeen(bodies[f]) ]
<1>3. FileSeen' = D!NewFile(unit)
  <2>1. file'.content = "complete" /\ file'.unit.bodies = bodies
    BY <1>1 DEF NewFile, c_source
  <2>2. FileSeen' = NewFile([ f \in DOMAIN file'.unit.bodies |-> BodySeen(file'.unit.bodies[f]) ])
    BY <2>1 DEF FileSeen, BodySeen
  <2>. QED BY <2>1, <2>2 DEF NewFile, D!NewFile
<1>4. Len(bodies) = Len(functions)
  <2>1. Len(bodies) = Len(program.functions)
    BY <1>1 DEF IInv, StageInv, EmitCount, BodiesFit
  <2>. QED BY <1>1, <2>1 DEF IInv, LiftCount
<1>5. D!IsUnit(ImageFound, unit)
  <2>1. Emitting
    BY <1>1 DEF Emitting
  <2>. HIDE DEF unit
  <2>. QED BY <1>4, <2>1, UnitIsUnit DEF unit, StagesInv, PromiseInv
<1>. HIDE DEF unit
<1>6. FileSeen'.unit = unit
  BY <1>3 DEF D!NewFile
<1>. QED BY <1>1, <1>2, <1>3, <1>5, <1>6 DEF D!Deliver

LEMMA NextDelivers ==
  IInv /\ StagesInv /\ ArgsInv /\ PromiseInv /\ [Next]_vars => [D!Next]_(D!vars)
<1>. SUFFICES ASSUME IInv, StagesInv, ArgsInv, PromiseInv, [Next]_vars
              PROVE  D!Next \/ UNCHANGED D!vars
  OBVIOUS
<1>1. CASE WriteFile
  BY <1>1, WritesUnit DEF D!Next
<1>2. CASE ~ WriteFile
  <2>1. Kept \/ UNCHANGED D!vars
    BY NextKept
  <2>2. ~ Delivered
    <3>. SUFFICES ASSUME Delivered PROVE FALSE
      OBVIOUS
    <3>1. stage = "write" /\ stage' = "exited" /\ exit_code' = 0
      BY DEF Delivered, Progress
    <3>2. ~ UNCHANGED vars
      BY <3>1 DEF vars, mvars
    <3>. QED BY <1>2, <3>1, <3>2 DEF Next, ArgsEndRun, ParseArgs, RunFrontend, FrontendFailed,
           FrontendDone, CallBuildCfg, RunBuildCfg, BuildCfgReturns, CfgsDone, CallLiftFunction,
           RunLiftFunction, LiftFunctionReturns, LiftDone, RunEmitC, EmitCReturns, CreateFails,
           CreateFile, WriteFails, Exited, Exit
  <2>. QED BY <2>1, <2>2 DEF Kept, D!Next
<1>. QED BY <1>1, <1>2

LEMMA PromiseInvariant == Spec => []PromiseInv
<1>1. IInv /\ StagesInv /\ PromiseInv /\ [Next]_vars => PromiseInv'
  BY NextPromise
<1>. QED BY <1>1, InitPromise, StagesInvariant, PTL DEF Spec

\* For every set of binaries a run keeps the promise of Decompiler, line by
\* line: the file that it delivers has a body for each function start with
\* instructions, in address order, under the name that calls of it have, and
\* in it a label where control can enter, what each instruction of the
\* function becomes, and a return.
THEOREM PromiseKept == Spec => KeepsPromise
<1>1. Init => IInv /\ StagesInv /\ ArgsInv /\ PromiseInv /\ D!Init
  BY InitIInv, InitStages, InitKept, InitPromise
<1>2. ArgsInv /\ [Next]_vars => ArgsInv'
  BY NextArgs
<1>3. IInv /\ StagesInv /\ ArgsInv /\ PromiseInv /\ [Next]_vars => [D!Next]_(D!vars)
  BY NextDelivers
<1>4. Spec => []ArgsInv
  BY <1>1, <1>2, PTL DEF Spec
<1>5. Spec => D!Spec
  BY <1>1, <1>3, <1>4, StagesInvariant, PromiseInvariant, PTL DEF Spec, D!Spec
<1>. QED BY <1>5 DEF KeepsPromise

-----------------------------------------------------------------------------
(* Where the calls land.                                                   *)

\* A call with its target in the instruction.
Direct(i) == IsCall(i) /\ i.op_str # << >> /\ i.op_str[1].kind = "imm"

\* A line that calls without arguments.
CallsBare(line) == line.kind = "call" /\ line.args = 0

\* What is seen of a line tells labels and calls from other lines.
LEMMA SeenLines ==
  ASSUME NEW line
  PROVE  /\ \A a : LineSeen(line) = D!LineTo("label", a) => line.kind = "label" /\ line.addr = a
         /\ \A c, n : LineSeen(line) = D!CallLine(c, n) =>
              line.kind = "call" /\ line.callee = c /\ line.args = n
         /\ CallsBare(line) <=> CallsBare(LineSeen(line))
<1>. DEFINE seen == LineSeen(line)
<1>1. /\ line.kind = "label" => seen = [kind |-> "label", addr |-> line.addr]
      /\ line.kind \in { "label", "goto", "if" } => seen.kind = line.kind
      /\ line.kind = "call" => seen = [kind |-> "call", callee |-> line.callee, args |-> line.args]
      /\ line.kind \notin { "label", "goto", "if", "call" } => seen.kind = line.kind
  BY DEF LineSeen
<1>. HIDE DEF seen
<1>2. seen.kind = line.kind
  BY <1>1
<1>3. ASSUME NEW a, seen = D!LineTo("label", a) PROVE line.kind = "label" /\ line.addr = a
  <2>1. line.kind = "label" /\ seen.addr = a
    BY <1>2, <1>3 DEF D!LineTo
  <2>. QED BY <1>1, <2>1
<1>4. ASSUME NEW c, NEW n, seen = D!CallLine(c, n)
      PROVE  line.kind = "call" /\ line.callee = c /\ line.args = n
  <2>1. line.kind = "call" /\ seen.callee = c /\ seen.args = n
    BY <1>2, <1>4 DEF D!CallLine
  <2>. QED BY <1>1, <2>1
<1>5. CallsBare(line) <=> CallsBare(seen)
  BY <1>1, <1>2 DEF CallsBare
<1>. QED BY <1>3, <1>4, <1>5 DEF seen

\* A direct call becomes one line, and no other instruction becomes such a line.
LEMMA LinesOfCalls ==
  ASSUME NEW img, NEW i
  PROVE  /\ Direct(i) => /\ Weight(i) = 1
                         /\ D!Lines(img, i)[1] = D!CallLine(D!Callee(img, i.op_str[1].value), 0)
         /\ \A j \in 1 .. Weight(i) : CallsBare(D!Lines(img, i)[j]) => Direct(i) /\ j = 1
<1>. DEFINE s == D!Lines(img, i)
<1>m. \A x \in D!Returning \cup D!Branching : x \notin { "jmp", "call", "syscall", "leave" }
  BY DEF D!Returning, D!Branching, D!RET_MNEMONICS, D!HALT_MNEMONICS, D!COND_JUMPS
<1>n. D!Returning \cap D!Branching = {}
  BY DEF D!Returning, D!Branching, D!RET_MNEMONICS, D!HALT_MNEMONICS, D!COND_JUMPS
<1>1. CASE Direct(i)
  <2>1. i.mnemonic = "call" /\ i.op_str # << >> /\ ~ D!Computed(i.op_str[1])
    BY <1>1 DEF Direct, IsCall, D!Computed
  <2>2. s = << D!CallLine(D!Called(img, i.op_str[1]), D!Passed(i.op_str[1])) >>
    BY <1>m, <2>1 DEF D!Lines
  <2>3. D!Called(img, i.op_str[1]) = D!Callee(img, i.op_str[1].value) /\ D!Passed(i.op_str[1]) = 0
    BY <1>1 DEF Direct, D!Called, D!Passed
  <2>4. Weight(i) = 1
    BY <2>1 DEF Weight
  <2>5. \A j \in 1 .. 1 : j = 1
    OBVIOUS
  <2>. HIDE DEF s
  <2>6. s[1] = D!CallLine(D!Callee(img, i.op_str[1].value), 0)
    BY <2>2, <2>3
  <2>. QED BY <1>1, <2>4, <2>5, <2>6 DEF s
<1>2. CASE ~ Direct(i)
  <2>1. \/ i.mnemonic # "leave" /\ \E x : s = << x >> /\ ~ CallsBare(x)
        \/ i.mnemonic = "leave" /\ s = << D!Line("statement"), D!Line("statement") >>
    <3>1. \A k : k # "call" => ~ CallsBare(D!Line(k)) /\ \A a : ~ CallsBare(D!LineTo(k, a))
      BY DEF CallsBare, D!Line, D!LineTo
    <3>2. \A c : ~ CallsBare(D!CallLine(c, D!RegisterArgs))
      BY DEF CallsBare, D!CallLine, D!RegisterArgs
    <3>3. CASE i.mnemonic \in D!Returning
      <4>1. s = << D!Line("return") >>
        BY <1>m, <1>n, <3>3 DEF D!Lines
      <4>. QED BY <1>m, <3>1, <3>3, <4>1
    <3>4. CASE i.mnemonic \in D!Branching
      <4>1. s = << D!LineTo("if", D!Immediate(i.op_str)) >>
        BY <1>m, <1>n, <3>4 DEF D!Lines
      <4>. QED BY <1>m, <3>1, <3>4, <4>1
    <3>5. CASE i.mnemonic \in { "jmp", "call" } /\ i.op_str = << >>
      <4>1. s = << D!Line("statement") >>
        BY <1>m, <3>5 DEF D!Lines
      <4>. QED BY <3>1, <3>5, <4>1
    <3>6. CASE i.mnemonic \in { "jmp", "call" } /\ i.op_str # << >> /\ D!Computed(i.op_str[1])
      <4>1. s = << D!Line("icall") >>
        BY <1>m, <3>6 DEF D!Lines
      <4>. QED BY <3>1, <3>6, <4>1
    <3>7. CASE i.mnemonic = "jmp" /\ i.op_str # << >> /\ ~ D!Computed(i.op_str[1])
      <4>1. s = << D!LineTo("goto", D!Immediate(i.op_str)) >>
        BY <1>m, <3>7 DEF D!Lines
      <4>. QED BY <3>1, <3>7, <4>1
    <3>8. CASE i.mnemonic = "call" /\ i.op_str # << >> /\ ~ D!Computed(i.op_str[1])
      <4>1. D!Passed(i.op_str[1]) = D!RegisterArgs
        BY <1>2, <3>8 DEF Direct, IsCall, D!Passed
      <4>2. s = << D!CallLine(D!Called(img, i.op_str[1]), D!RegisterArgs) >>
        BY <1>m, <3>8, <4>1 DEF D!Lines
      <4>. QED BY <3>2, <3>8, <4>2
    <3>9. CASE i.mnemonic = "syscall"
      <4>1. s = << D!CallLine(D!sanitise_c_ident(<< "syscall" >>), D!RegisterArgs) >>
        BY <1>m, <3>9 DEF D!Lines
      <4>. QED BY <3>2, <3>9, <4>1
    <3>10. CASE i.mnemonic = "leave"
      BY <1>m, <3>10 DEF D!Lines
    <3>11. CASE i.mnemonic \notin D!Returning \cup D!Branching \cup { "jmp", "call", "syscall", "leave" }
      <4>1. s = << D!Line("statement") >>
        BY <3>11 DEF D!Lines
      <4>. QED BY <3>1, <3>11, <4>1
    <3>. QED BY <3>3, <3>4, <3>5, <3>6, <3>7, <3>8, <3>9, <3>10, <3>11
  <2>2. \A j \in 1 .. 1 : j = 1
    OBVIOUS
  <2>3. \A j \in 1 .. 2 : j = 1 \/ j = 2
    OBVIOUS
  <2>4. ~ CallsBare(D!Line("statement"))
    BY DEF CallsBare, D!Line
  <2>. HIDE DEF s
  <2>5. \A j \in 1 .. Weight(i) : ~ CallsBare(s[j])
    <3>1. CASE i.mnemonic # "leave"
      BY <2>1, <2>2, <3>1 DEF Weight
    <3>2. CASE i.mnemonic = "leave"
      BY <2>1, <2>3, <2>4, <3>2 DEF Weight
    <3>. QED BY <3>1, <3>2
  <2>. QED BY <1>2, <2>5 DEF s
<1>. QED BY <1>1, <1>2

\* Every line told is of some instruction.
LEMMA LineOwner ==
  ASSUME NEW img, NEW seq, NEW ins, NEW n \in Nat, NEW pos, ToldAt(img, seq, ins, n, pos),
         NEW i \in DOMAIN seq
  PROVE  \E k \in 1 .. n : pos[k] <= i /\ i < pos[k + 1]
<1>1. /\ pos[1] = 1 /\ DOMAIN seq = 1 .. pos[n + 1] - 1
      /\ \A k \in 1 .. n + 1 : pos[k] \in Nat
  BY DEF ToldAt
<1>. DEFINE Over == { k \in 1 .. n + 1 : i < pos[k] }
<1>2. i \in Nat /\ 1 <= i /\ i < pos[n + 1]
  <2>1. n + 1 \in 1 .. n + 1
    OBVIOUS
  <2>2. pos[n + 1] \in Nat
    BY <1>1, <2>1
  <2>. QED BY <1>1, <2>2
<1>3. n + 1 \in Over /\ Over \subseteq Nat
  BY <1>2
<1>4. PICK e \in Over : \A k \in Over : e <= k
  BY <1>3, FP!LeastExists, NoAddrAssumption, FilesFit
<1>5. e # 1
  BY <1>1, <1>2, <1>4
<1>6. e - 1 \in 1 .. n /\ e - 1 \in 1 .. n + 1 /\ (e - 1) + 1 = e /\ ~(e <= e - 1)
  BY <1>4, <1>5
<1>7. ~(i < pos[e - 1]) /\ pos[e - 1] \in Nat
  BY <1>1, <1>4, <1>6
<1>8. pos[e - 1] <= i
  BY <1>2, <1>7
<1>. QED BY <1>4, <1>6, <1>8

\* The calls among the instructions told are the calls among the lines.
LEMMA ToldCalls ==
  ASSUME NEW img, NEW seq, NEW ins, NEW n \in Nat, NEW pos, ToldAt(img, seq, ins, n, pos)
  PROVE  /\ \A k \in 1 .. n : Direct(ins[k]) =>
              /\ pos[k] + Lead(ins, k) \in DOMAIN seq
              /\ CallsBare(seq[pos[k] + Lead(ins, k)])
              /\ seq[pos[k] + Lead(ins, k)].callee = D!Callee(img, ins[k].op_str[1].value)
         /\ \A i \in DOMAIN seq : CallsBare(seq[i]) =>
              \E k \in 1 .. n : Direct(ins[k]) /\ i = pos[k] + Lead(ins, k)
         /\ \A j, k \in 1 .. n : j < k => pos[j] + Lead(ins, j) < pos[k] + Lead(ins, k)
<1>1. /\ DOMAIN seq = 1 .. pos[n + 1] - 1
      /\ \A k \in 1 .. n : pos[k + 1] = pos[k] + Lead(ins, k) + Weight(ins[k])
      /\ \A k \in 1 .. n : Opens(ins, k) => LineSeen(seq[pos[k]]) = D!LineTo("label", ins[k].addr)
      /\ \A k \in 1 .. n : \A j \in 1 .. Weight(ins[k]) :
           LineSeen(seq[pos[k] + Lead(ins, k) + j - 1]) = D!Lines(img, ins[k])[j]
  BY DEF ToldAt
<1>2. /\ \A k \in 1 .. n + 1 : pos[k] \in Nat /\ pos[k] >= 1
      /\ \A i, k \in 1 .. n + 1 : i <= k => pos[i] <= pos[k]
  BY ToldBounds
<1>3. ASSUME NEW k \in 1 .. n
      PROVE  /\ pos[k] \in Nat /\ pos[k] >= 1 /\ pos[k + 1] \in Nat
             /\ Lead(ins, k) \in Nat /\ Lead(ins, k) \in { 0, 1 }
             /\ Weight(ins[k]) \in Nat /\ Weight(ins[k]) >= 1
             /\ pos[k] + Lead(ins, k) < pos[k + 1]
             /\ pos[k + 1] <= pos[n + 1] /\ pos[n + 1] \in Nat
  <2>1. k \in 1 .. n + 1 /\ k + 1 \in 1 .. n + 1 /\ n + 1 \in 1 .. n + 1 /\ k + 1 <= n + 1
    OBVIOUS
  <2>2. pos[k] \in Nat /\ pos[k] >= 1 /\ pos[k + 1] \in Nat /\ pos[n + 1] \in Nat /\ pos[k + 1] <= pos[n + 1]
    BY <1>2, <2>1
  <2>3. Lead(ins, k) \in Nat /\ Lead(ins, k) \in { 0, 1 } /\ Weight(ins[k]) \in Nat /\ Weight(ins[k]) >= 1
    BY LeadRange, WeightRange
  <2>4. pos[k + 1] = pos[k] + Lead(ins, k) + Weight(ins[k])
    BY <1>1
  <2>. QED BY <2>2, <2>3, <2>4
<1>4. ASSUME NEW k \in 1 .. n, Direct(ins[k])
      PROVE  /\ pos[k] + Lead(ins, k) \in DOMAIN seq
             /\ CallsBare(seq[pos[k] + Lead(ins, k)])
             /\ seq[pos[k] + Lead(ins, k)].callee = D!Callee(img, ins[k].op_str[1].value)
  <2>. DEFINE a == pos[k] + Lead(ins, k)
  <2>1. a \in DOMAIN seq
    <3>1. \A p, l, q, r \in Nat : p >= 1 /\ p + l < q /\ q <= r => p + l \in 1 .. r - 1
      OBVIOUS
    <3>. QED BY <1>1, <1>3, <3>1
  <2>2. a + 1 - 1 = a /\ 1 \in 1 .. Weight(ins[k])
    <3>1. \A p, l \in Nat : p + l + 1 - 1 = p + l
      OBVIOUS
    <3>. QED BY <1>3, <3>1
  <2>3. LineSeen(seq[a + 1 - 1]) = D!Lines(img, ins[k])[1]
    BY <1>1, <2>2
  <2>. HIDE DEF a
  <2>4. LineSeen(seq[a]) = D!CallLine(D!Callee(img, ins[k].op_str[1].value), 0)
    BY <1>4, <2>2, <2>3, LinesOfCalls
  <2>5. CallsBare(seq[a]) /\ seq[a].callee = D!Callee(img, ins[k].op_str[1].value)
    BY <2>4, SeenLines DEF CallsBare
  <2>. QED BY <2>1, <2>5 DEF a
<1>5. ASSUME NEW i \in DOMAIN seq, CallsBare(seq[i])
      PROVE  \E k \in 1 .. n : Direct(ins[k]) /\ i = pos[k] + Lead(ins, k)
  <2>1. PICK k \in 1 .. n : pos[k] <= i /\ i < pos[k + 1]
    BY LineOwner
  <2>2. i \in Nat
    <3>1. n + 1 \in 1 .. n + 1
      OBVIOUS
    <3>2. pos[n + 1] \in Nat
      BY <1>2, <3>1
    <3>. QED BY <1>1, <3>2
  <2>3. CallsBare(LineSeen(seq[i]))
    BY <1>5, SeenLines
  <2>4. CASE i < pos[k] + Lead(ins, k)
    <3>1. i = pos[k] /\ Lead(ins, k) = 1
      BY <1>3, <2>1, <2>2, <2>4
    <3>2. Opens(ins, k)
      BY <3>1 DEF Lead
    <3>3. LineSeen(seq[i]) = D!LineTo("label", ins[k].addr)
      BY <1>1, <3>1, <3>2
    <3>. QED BY <2>3, <3>3 DEF CallsBare, D!LineTo
  <2>5. CASE pos[k] + Lead(ins, k) <= i
    <3>. DEFINE j == i - (pos[k] + Lead(ins, k)) + 1
    <3>1. \A p, l, w, x \in Nat : p + l <= x /\ x < p + l + w =>
            /\ x - (p + l) + 1 \in 1 .. w
            /\ p + l + (x - (p + l) + 1) - 1 = x
            /\ x - (p + l) + 1 = 1 => x = p + l
      OBVIOUS
    <3>2. i < pos[k] + Lead(ins, k) + Weight(ins[k])
      BY <1>1, <2>1
    <3>3. j \in 1 .. Weight(ins[k]) /\ pos[k] + Lead(ins, k) + j - 1 = i /\ (j = 1 => i = pos[k] + Lead(ins, k))
      BY <1>3, <2>2, <2>5, <3>1, <3>2
    <3>. HIDE DEF j
    <3>4. LineSeen(seq[i]) = D!Lines(img, ins[k])[j]
      BY <1>1, <3>3
    <3>5. Direct(ins[k]) /\ j = 1
      BY <2>3, <3>3, <3>4, LinesOfCalls
    <3>. QED BY <3>3, <3>5
  <2>6. i < pos[k] + Lead(ins, k) \/ pos[k] + Lead(ins, k) <= i
    BY <1>3, <2>2
  <2>. QED BY <2>4, <2>5, <2>6
<1>6. ASSUME NEW j \in 1 .. n, NEW k \in 1 .. n, j < k
      PROVE  pos[j] + Lead(ins, j) < pos[k] + Lead(ins, k)
  <2>1. j + 1 \in 1 .. n + 1 /\ k \in 1 .. n + 1 /\ j + 1 <= k
    BY <1>6
  <2>2. pos[j + 1] <= pos[k]
    BY <1>2, <2>1
  <2>3. \A p, l, q, r, m \in Nat : p + l < q /\ q <= r => p + l < r + m
    OBVIOUS
  <2>. QED BY <1>3, <2>2, <2>3
<1>. QED BY <1>4, <1>5, <1>6

\* A body that is whole has the direct calls of its function.
LEMMA BodyCalls ==
  ASSUME FrontInv, NEW f \in DOMAIN functions, NEW img, NEW name,
         WholeBody(img, bodies[f], InsnsOf(f), name)
  PROVE  \E at \in [ DirectCalls(f) -> DirectCallLines(f) ] :
           /\ { at[k] : k \in DirectCalls(f) } = DirectCallLines(f)
           /\ \A j, k \in DirectCalls(f) : j < k => at[j] < at[k]
           /\ \A k \in DirectCalls(f) :
                bodies[f].lines[at[k]].callee = D!Callee(img, InsnsOf(f)[k].op_str[1].value)
<1>. DEFINE ins == InsnsOf(f)
            n   == Len(ins)
            lns == bodies[f].lines
<1>1. n \in Nat /\ DOMAIN ins = 1 .. n
  BY InsnsAscend
<1>2. PICK t : IsVec(t) /\ Told(img, t, ins, n) /\ lns = Append(t, B!ReturnRax)
  BY DEF WholeBody
<1>3. PICK pos : ToldAt(img, t, ins, n, pos)
  BY <1>2 DEF Told
<1>4. DirectCalls(f) = { k \in 1 .. n : Direct(ins[k]) }
  BY <1>1 DEF DirectCalls, Direct
<1>5. DirectCallLines(f) = { i \in DOMAIN lns : CallsBare(lns[i]) }
  BY DEF DirectCallLines, CallsBare
<1>. HIDE DEF ins, n, lns
<1>6. PICK m \in Nat : /\ DOMAIN t = 1 .. m /\ DOMAIN lns = 1 .. m + 1
                       /\ \A i \in 1 .. m : lns[i] = t[i]
                       /\ lns[m + 1] = B!ReturnRax
  <2>1. \E m \in Nat : /\ m = Len(t) /\ DOMAIN t = 1 .. m /\ DOMAIN lns = 1 .. m + 1
                       /\ \A i \in 1 .. m : lns[i] = t[i]
                       /\ lns[m + 1] = B!ReturnRax
    BY <1>2, AppendShape
  <2>. QED BY <2>1
<1>7. \A i \in DOMAIN lns : i \in DOMAIN t \/ lns[i] = B!ReturnRax
  <2>1. \A i \in 1 .. m + 1 : i \in 1 .. m \/ i = m + 1
    OBVIOUS
  <2>. QED BY <1>6, <2>1
<1>8. \A i \in DOMAIN t : i \in DOMAIN lns /\ lns[i] = t[i]
  BY <1>6
<1>9. ~ CallsBare(B!ReturnRax)
  BY DEF CallsBare, B!ReturnRax
<1>10. DirectCallLines(f) = { i \in DOMAIN t : CallsBare(t[i]) }
  BY <1>5, <1>7, <1>8, <1>9
<1>. DEFINE spot(k) == pos[k] + Lead(ins, k)
<1>11. /\ \A k \in 1 .. n : Direct(ins[k]) =>
            /\ spot(k) \in DOMAIN t
            /\ CallsBare(t[spot(k)])
            /\ t[spot(k)].callee = D!Callee(img, ins[k].op_str[1].value)
       /\ \A i \in DOMAIN t : CallsBare(t[i]) => \E k \in 1 .. n : Direct(ins[k]) /\ i = spot(k)
       /\ \A j, k \in 1 .. n : j < k => spot(j) < spot(k)
  BY <1>1, <1>3, ToldCalls
<1>. HIDE DEF spot
<1>. DEFINE at == [ k \in DirectCalls(f) |-> spot(k) ]
<1>12. \A k \in DirectCalls(f) : spot(k) \in DirectCallLines(f)
  BY <1>4, <1>10, <1>11
<1>13. \A i \in DirectCallLines(f) : \E k \in DirectCalls(f) : i = spot(k)
  BY <1>4, <1>10, <1>11
<1>14. at \in [ DirectCalls(f) -> DirectCallLines(f) ]
  BY <1>12
<1>15. { at[k] : k \in DirectCalls(f) } = DirectCallLines(f)
  BY <1>12, <1>13
<1>16. \A j, k \in DirectCalls(f) : j < k => at[j] < at[k]
  BY <1>4, <1>11
<1>17. \A k \in DirectCalls(f) : lns[at[k]].callee = D!Callee(img, ins[k].op_str[1].value)
  BY <1>4, <1>8, <1>11
<1>. QED BY <1>14, <1>15, <1>16, <1>17 DEF ins, lns

\* A decoded target of a direct call is the start of a function.
LEMMA TargetStarts ==
  ASSUME FrontInv, fpc = "done", NEW f \in DOMAIN functions, NEW k \in DirectCalls(f),
         NEW i \in DOMAIN all_insns, parse_hex_target(InsnsOf(f)[k].op_str) = all_insns[i].addr
  PROVE  /\ InsnsOf(f)[k].op_str[1].value = all_insns[i].addr
         /\ \E g \in DOMAIN functions : /\ functions[g].start_addr = all_insns[i].addr
                                        /\ i \in functions[g].instructions
<1>1. PICK n \in Nat : \E l \in 1 .. n, h \in 1 .. n :
        /\ DOMAIN all_insns = 1 .. n /\ l <= h
        /\ InsnsOf(f) = [ q \in 1 .. h - l + 1 |-> all_insns[l + q - 1] ]
        /\ \A q \in 1 .. n : all_insns[q].addr \in Nat
  BY FunctionPositions
<1>2. PICK l \in 1 .. n, h \in 1 .. n :
        /\ DOMAIN all_insns = 1 .. n /\ l <= h
        /\ InsnsOf(f) = [ q \in 1 .. h - l + 1 |-> all_insns[l + q - 1] ]
        /\ \A q \in 1 .. n : all_insns[q].addr \in Nat
  BY <1>1
<1>3. k \in 1 .. h - l + 1 /\ IsCall(InsnsOf(f)[k])
  BY <1>2 DEF DirectCalls
<1>4. l + k - 1 \in DOMAIN all_insns /\ InsnsOf(f)[k] = all_insns[l + k - 1]
  BY <1>2, <1>3
<1>5. all_insns[i].addr # NoAddr
  BY <1>2, NoAddrAssumption
<1>6. InsnsOf(f)[k].op_str[1].value = all_insns[i].addr
  BY <1>5 DEF parse_hex_target
<1>7. FP!CallTargetsAreFunctions
  BY NoAddrAssumption, FilesFit, FP!CallTargetsCut DEF FrontInv
<1>8. IsCall(all_insns[l + k - 1]) /\ parse_hex_target(all_insns[l + k - 1].op_str) = all_insns[i].addr
  BY <1>3, <1>4
<1>9. \A a \in DOMAIN all_insns : FP!IsCall(all_insns[a]) <=> IsCall(all_insns[a])
  BY DEF FP!IsCall, IsCall
<1>10. \A o : FP!parse_hex_target(o) = parse_hex_target(o)
  BY DEF FP!parse_hex_target, parse_hex_target
<1>. QED BY <1>4, <1>6, <1>7, <1>8, <1>9, <1>10 DEF FP!CallTargetsAreFunctions, FP!Positions

\* The body of a function opens with the label of its start, if there is an
\* instruction at its start.
LEMMA BodyOpens ==
  ASSUME FrontInv, NEW g \in DOMAIN functions, NEW img, NEW name,
         WholeBody(img, bodies[g], InsnsOf(g), name),
         NEW i \in functions[g].instructions, functions[g].start_addr = all_insns[i].addr
  PROVE  OpensAt(g, all_insns[i].addr)
<1>. DEFINE ins == InsnsOf(g)
            a   == all_insns[i].addr
<1>1. PICK n \in Nat : \E l \in 1 .. n, h \in 1 .. n :
        /\ DOMAIN all_insns = 1 .. n /\ l <= h
        /\ functions[g].instructions = l .. h
        /\ ins = [ q \in 1 .. h - l + 1 |-> all_insns[l + q - 1] ]
        /\ \A q \in 1 .. n : all_insns[q].addr \in Nat
        /\ \A p, q \in 1 .. n : p < q => all_insns[p].addr < all_insns[q].addr
        /\ \A q \in l .. h : functions[g].start_addr <= all_insns[q].addr
  BY FunctionPositions
<1>2. PICK l \in 1 .. n, h \in 1 .. n :
        /\ DOMAIN all_insns = 1 .. n /\ l <= h
        /\ functions[g].instructions = l .. h
        /\ ins = [ q \in 1 .. h - l + 1 |-> all_insns[l + q - 1] ]
        /\ \A q \in 1 .. n : all_insns[q].addr \in Nat
        /\ \A p, q \in 1 .. n : p < q => all_insns[p].addr < all_insns[q].addr
        /\ \A q \in l .. h : functions[g].start_addr <= all_insns[q].addr
  BY <1>1
<1>3. i \in l .. h /\ i \in 1 .. n /\ l \in l .. h
  BY <1>2
<1>4. i = l
  <2>. SUFFICES ASSUME i # l PROVE FALSE
    OBVIOUS
  <2>1. l < i
    BY <1>3
  <2>2. all_insns[l].addr < a /\ a <= all_insns[l].addr /\ all_insns[l].addr \in Nat /\ a \in Nat
    BY <1>2, <1>3, <2>1
  <2>. HIDE DEF a
  <2>. QED BY <2>2
<1>5. 1 \in 1 .. h - l + 1 /\ l + 1 - 1 = l
  BY <1>2
<1>6. ins[1].addr = a
  BY <1>2, <1>4, <1>5
<1>7. PICK t : IsVec(t) /\ Told(img, t, ins, Len(ins)) /\ bodies[g].lines = Append(t, B!ReturnRax)
  BY DEF WholeBody
<1>8. Len(ins) \in Nat /\ DOMAIN ins = 1 .. Len(ins)
  BY InsnsAscend
<1>9. 1 \in 1 .. Len(ins)
  BY <1>2, <1>5, <1>8
<1>. HIDE DEF ins, a
<1>10. PICK pos : ToldAt(img, t, ins, Len(ins), pos)
  BY <1>7 DEF Told
<1>11. /\ pos[1] = 1 /\ DOMAIN t = 1 .. pos[Len(ins) + 1] - 1
       /\ LineSeen(t[1]) = D!LineTo("label", a)
  <2>1. Opens(ins, 1)
    BY DEF Opens
  <2>2. pos[1] = 1 /\ DOMAIN t = 1 .. pos[Len(ins) + 1] - 1 /\ LineSeen(t[pos[1]]) = D!LineTo("label", ins[1].addr)
    BY <1>9, <1>10, <2>1 DEF ToldAt
  <2>. QED BY <1>6, <2>2
<1>12. 1 \in DOMAIN t
  <2>1. pos[2] = pos[1] + Lead(ins, 1) + Weight(ins[1])
    <3>1. 1 + 1 = 2
      OBVIOUS
    <3>. QED BY <1>9, <1>10, <3>1 DEF ToldAt
  <2>2. 2 \in 1 .. Len(ins) + 1 /\ Len(ins) + 1 \in 1 .. Len(ins) + 1 /\ 2 <= Len(ins) + 1
    BY <1>8, <1>9
  <2>3. pos[2] \in Nat /\ pos[Len(ins) + 1] \in Nat /\ pos[2] <= pos[Len(ins) + 1]
    BY <1>8, <1>10, <2>2, ToldBounds
  <2>4. Lead(ins, 1) \in Nat /\ Weight(ins[1]) \in Nat /\ Weight(ins[1]) >= 1
    BY LeadRange, WeightRange
  <2>5. \A l1, w, p, q \in Nat : w >= 1 /\ p = 1 + l1 + w /\ p <= q => 1 \in 1 .. q - 1
    OBVIOUS
  <2>. QED BY <1>11, <2>1, <2>3, <2>4, <2>5
<1>13. bodies[g].lines[1] = t[1]
  BY <1>7, <1>12, AppendShape
<1>14. t[1].kind = "label" /\ t[1].addr = a
  BY <1>11, SeenLines
<1>. QED BY <1>13, <1>14 DEF OpensAt, a

\* The calls land in the bodies that emit_c has made.
Landed ==
  \A f \in DOMAIN functions : \E at \in [ DirectCalls(f) -> DirectCallLines(f) ] :
    /\ { at[k] : k \in DirectCalls(f) } = DirectCallLines(f)
    /\ \A j, k \in DirectCalls(f) : j < k => at[j] < at[k]
    /\ \A k \in DirectCalls(f), i \in DOMAIN all_insns :
         parse_hex_target(InsnsOf(f)[k].op_str) = all_insns[i].addr =>
           \E g \in DOMAIN bodies :
             /\ bodies[g].name = bodies[f].lines[at[k]].callee
             /\ OpensAt(g, all_insns[i].addr)

LEMMA BodiesLand ==
  ASSUME FrontInv, FP!OwnInv, IInv, LiftInv, IrInv, EmitInv, Emitting, Len(bodies) = Len(functions)
  PROVE  Landed
<1>1. /\ fpc = "done" /\ DOMAIN functions = 1 .. Len(functions)
  BY EmittedFunctions
<1>2. DOMAIN bodies = DOMAIN functions
  BY <1>1, LenProperties DEF IInv, VecInv, IsVec
<1>3. \A f \in DOMAIN functions : WholeBody(ImageFound, bodies[f], InsnsOf(f), functions[f].name)
  BY <1>2 DEF EmitInv
<1>4. \A f \in DOMAIN functions :
        D!sanitise_c_ident(functions[f].name) = D!Callee(ImageFound, functions[f].start_addr)
  BY CallsResolve DEF EmitInv
<1>5. ASSUME NEW f \in DOMAIN functions, NEW callee, NEW k \in DirectCalls(f),
             callee = D!Callee(ImageFound, InsnsOf(f)[k].op_str[1].value),
             NEW i \in DOMAIN all_insns, parse_hex_target(InsnsOf(f)[k].op_str) = all_insns[i].addr
      PROVE  \E g \in DOMAIN bodies : bodies[g].name = callee /\ OpensAt(g, all_insns[i].addr)
  <2>1. InsnsOf(f)[k].op_str[1].value = all_insns[i].addr
    BY <1>1, <1>5, TargetStarts
  <2>2. PICK g \in DOMAIN functions : /\ functions[g].start_addr = all_insns[i].addr
                                      /\ i \in functions[g].instructions
    BY <1>1, <1>5, TargetStarts
  <2>3. bodies[g].name = D!sanitise_c_ident(functions[g].name)
    BY <1>3 DEF WholeBody
  <2>4. bodies[g].name = callee
    BY <1>4, <1>5, <2>1, <2>2, <2>3
  <2>5. OpensAt(g, all_insns[i].addr)
    BY <1>3, <2>2, BodyOpens
  <2>. QED BY <1>2, <2>4, <2>5
<1>6. ASSUME NEW f \in DOMAIN functions
      PROVE  \E at \in [ DirectCalls(f) -> DirectCallLines(f) ] :
               /\ { at[k] : k \in DirectCalls(f) } = DirectCallLines(f)
               /\ \A j, k \in DirectCalls(f) : j < k => at[j] < at[k]
               /\ \A k \in DirectCalls(f), i \in DOMAIN all_insns :
                    parse_hex_target(InsnsOf(f)[k].op_str) = all_insns[i].addr =>
                      \E g \in DOMAIN bodies :
                        /\ bodies[g].name = bodies[f].lines[at[k]].callee
                        /\ OpensAt(g, all_insns[i].addr)
  <2>1. PICK at \in [ DirectCalls(f) -> DirectCallLines(f) ] :
           /\ { at[k] : k \in DirectCalls(f) } = DirectCallLines(f)
           /\ \A j, k \in DirectCalls(f) : j < k => at[j] < at[k]
           /\ \A k \in DirectCalls(f) :
                bodies[f].lines[at[k]].callee = D!Callee(ImageFound, InsnsOf(f)[k].op_str[1].value)
    BY <1>3, BodyCalls
  <2>2. ASSUME NEW k \in DirectCalls(f), NEW i \in DOMAIN all_insns,
               parse_hex_target(InsnsOf(f)[k].op_str) = all_insns[i].addr
        PROVE  \E g \in DOMAIN bodies :
                 /\ bodies[g].name = bodies[f].lines[at[k]].callee
                 /\ OpensAt(g, all_insns[i].addr)
    <3>1. bodies[f].lines[at[k]].callee = D!Callee(ImageFound, InsnsOf(f)[k].op_str[1].value)
      BY <2>1
    <3>. QED BY <1>5, <2>2, <3>1
  <2>. QED BY <2>1, <2>2
<1>. QED BY <1>6 DEF Landed

\* The file is complete once it is written, and then nothing changes.
LandedInv == file.content = "complete" => stage = "exited" /\ Landed

LEMMA LandedStays ==
  ASSUME Landed, functions' = functions, all_insns' = all_insns, bodies' = bodies
  PROVE  Landed'
<1>1. \A f : InsnsOf(f)' = InsnsOf(f)
  BY DEF InsnsOf
<1>2. \A f : DirectCalls(f)' = DirectCalls(f)
  BY <1>1 DEF DirectCalls
<1>3. \A f : DirectCallLines(f)' = DirectCallLines(f)
  BY DEF DirectCallLines
<1>4. \A g, a : OpensAt(g, a)' <=> OpensAt(g, a)
  BY DEF OpensAt
<1>. QED BY <1>1, <1>2, <1>3, <1>4 DEF Landed

LEMMA NextLands == IInv /\ StagesInv /\ PromiseInv /\ LandedInv /\ [Next]_vars => LandedInv'
<1>. SUFFICES ASSUME IInv, StagesInv, PromiseInv, LandedInv, [Next]_vars PROVE LandedInv'
  OBVIOUS
<1>1. CASE WriteFile
  <2>1. stage = "write" /\ Emitting
    BY <1>1 DEF WriteFile, Emitting
  <2>2. Len(bodies) = Len(functions)
    <3>1. Len(bodies) = Len(program.functions)
      BY <2>1 DEF IInv, StageInv, EmitCount, BodiesFit
    <3>. QED BY <2>1, <3>1 DEF IInv, LiftCount
  <2>3. Landed
    BY <2>1, <2>2, BodiesLand DEF StagesInv, PromiseInv
  <2>4. functions' = functions /\ all_insns' = all_insns /\ bodies' = bodies /\ stage' = "exited"
    BY <1>1 DEF WriteFile, Exit, fvars, bvars
  <2>. QED BY <2>3, <2>4, LandedStays DEF LandedInv
<1>2. CASE file.content = "complete"
  <2>1. stage = "exited" /\ Landed
    BY <1>2 DEF LandedInv
  <2>2. UNCHANGED vars
    BY <2>1 DEF Next, ArgsEndRun, ParseArgs, RunFrontend, FrontendFailed,
      FrontendDone, CallBuildCfg, RunBuildCfg, BuildCfgReturns, CfgsDone, CallLiftFunction,
      RunLiftFunction, LiftFunctionReturns, LiftDone, RunEmitC, EmitCReturns, CreateFails,
      CreateFile, WriteFails, WriteFile, Exited
  <2>3. functions' = functions /\ all_insns' = all_insns /\ bodies' = bodies /\ stage' = stage
    BY <2>2 DEF vars, mvars, fvars, bvars
  <2>. QED BY <2>1, <2>3, LandedStays DEF LandedInv
<1>3. CASE ~ WriteFile /\ file.content # "complete"
  <2>1. file' = file \/ file' = PartOfFile
    BY <1>3 DEF Next, vars, mvars, ArgsEndRun, ParseArgs, RunFrontend, FrontendFailed,
      FrontendDone, CallBuildCfg, RunBuildCfg, BuildCfgReturns, CfgsDone, CallLiftFunction,
      RunLiftFunction, LiftFunctionReturns, LiftDone, RunEmitC, EmitCReturns, CreateFails,
      CreateFile, WriteFails, Exited
  <2>2. file'.content # "complete"
    BY <1>3, <2>1 DEF PartOfFile
  <2>. QED BY <2>2 DEF LandedInv
<1>. QED BY <1>1, <1>2, <1>3

\* For every set of binaries, in a file that is delivered the direct calls of
\* a function are those of its instructions, one for one and in their order,
\* and what is called for a target that was decoded opens with its label.
THEOREM CallsLandCorrect == Spec => []CallsLand
<1>1. Init => LandedInv
  BY DEF Init, LandedInv, OldFile
<1>2. IInv /\ StagesInv /\ PromiseInv /\ LandedInv /\ [Next]_vars => LandedInv'
  BY NextLands
<1>3. LandedInv => CallsLand
  BY DEF LandedInv, Landed, CallsLand
<1>. QED BY <1>1, <1>2, <1>3, StagesInvariant, PromiseInvariant, PTL DEF Spec
=============================================================================
