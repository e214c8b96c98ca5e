-------------------------- MODULE PipelineLiftProofs --------------------------
(***************************************************************************)
(* What the graphs and the IR that main collects have to do with the       *)
(* functions, for every set of binaries: a graph cuts the instructions of  *)
(* its function at the places where control can enter, and the IR of a     *)
(* block says of every instruction in turn what Decompiler says of it.     *)
(***************************************************************************)
EXTENDS PipelineStageProofs

-----------------------------------------------------------------------------
(* The cut into blocks.                                                    *)

\* Control can come to instruction i of a function from elsewhere.
Opens(ins, i) ==
  \/ i = 1
  \/ D!EndsBlock(ins[i - 1])
  \/ \E j \in DOMAIN ins : D!IsJump(ins[j]) /\ D!parse_hex_target(ins[j].op_str) = ins[i].addr

\* The blocks are the stretches of the instructions from one that opens a block
\* to the next.
CutAt(g, ins, first) ==
  /\ first \in [ 1 .. Len(g) + 1 -> Nat ]
  /\ first[1] = 1 /\ first[Len(g) + 1] = Len(ins) + 1
  /\ \A b \in 1 .. Len(g) :
       /\ first[b] < first[b + 1]
       /\ g[b].start_addr = ins[first[b]].addr
       /\ DOMAIN g[b].instructions = 1 .. first[b + 1] - first[b]
       /\ \A j \in 1 .. first[b + 1] - first[b] : g[b].instructions[j] = ins[first[b] + j - 1]
       /\ \A j \in 1 .. first[b + 1] - first[b] : Opens(ins, first[b] + j - 1) <=> j = 1

Cuts(g, ins) == \E first : CutAt(g, ins, first)

LEMMA SameEnd ==
  ASSUME NEW m \in Nat, NEW n \in Nat, 1 .. m = 1 .. n
  PROVE  m = n
<1>1. ASSUME m < n PROVE FALSE
  <2>1. n \in 1 .. n /\ n \notin 1 .. m
    BY <1>1
  <2>. QED BY <2>1
<1>2. ASSUME n < m PROVE FALSE
  <2>1. m \in 1 .. m /\ m \notin 1 .. n
    BY <1>2
  <2>. QED BY <2>1
<1>. QED BY <1>1, <1>2

\* Positions that follow each other.
LEMMA Run ==
  ASSUME NEW n \in Nat, NEW s, \A k \in 1 .. n : s[k] \in Nat,
         \A k \in 1 .. n : k > 1 => s[k] = s[k - 1] + 1
  PROVE  \A k \in 1 .. n : s[k] = s[1] + k - 1
<1>. DEFINE Off == { k \in 1 .. n : s[k] # s[1] + k - 1 }
<1>1. ASSUME Off # {} PROVE FALSE
  <2>1. PICK e \in Off : \A k \in Off : e <= k
    <3>1. Off \subseteq Nat
      OBVIOUS
    <3>. HIDE DEF Off
    <3>. QED BY <1>1, <3>1, NoAddrAssumption, FilesFit, FP!LeastExists
  <2>2. e \in 1 .. n /\ s[e] # s[1] + e - 1
    BY <2>1
  <2>3. e # 1
    BY <2>2
  <2>4. e - 1 \in 1 .. n /\ e - 1 \notin Off
    BY <2>1, <2>2, <2>3
  <2>5. s[e - 1] = s[1] + (e - 1) - 1 /\ s[1] \in Nat
    BY <2>4
  <2>6. s[e] = s[e - 1] + 1
    BY <2>2, <2>3
  <2>. QED BY <2>2, <2>5, <2>6
<1>. QED BY <1>1

\* The leaders are the addresses at which control can come in.
LEMMA LeadersOpen ==
  ASSUME CP!IInv, cpc = "done", func.instructions # << >>, NEW i \in DOMAIN func.instructions
  PROVE  func.instructions[i].addr \in leaders <=> Opens(func.instructions, i)
<1>. DEFINE ins == func.instructions
<1>1. ins = CP!insns
  BY DEF CP!insns
<1>2. PICK n \in Nat :
        /\ DOMAIN ins = 1 .. n
        /\ \A j \in DOMAIN ins : ins[j].addr \in Nat
        /\ \A j, k \in DOMAIN ins : j < k => ins[j].addr < ins[k].addr
  BY <1>1, NoAddrAssumption, CfgArgumentsFit, CP!InsnFacts DEF CP!IInv, CP!BoundsInv
<1>3. \A j, k \in DOMAIN ins : ins[j].addr = ins[k].addr => j = k
  BY <1>2
<1>4. /\ ins[1].addr \in leaders
      /\ \A j \in DOMAIN ins : CP!LeaderAfter(j) \subseteq leaders /\ CP!LeaderTarget(j) \subseteq leaders
      /\ \A a \in leaders :
           a = ins[1].addr \/ \E j \in DOMAIN ins : a \in CP!LeaderAfter(j) \cup CP!LeaderTarget(j)
  BY <1>1 DEF CP!IInv, CP!ScanInv, CP!Scanned
<1>5. \A x : D!EndsBlock(x) = CP!EndsBlock(x) /\ D!IsJump(x) = CP!IsJump(x)
  BY DEF D!EndsBlock, CP!EndsBlock, D!IsJump, CP!IsJump, D!IsCondJump, CP!IsCondJump, D!IsCall, CP!IsCall,
    D!IsRet, CP!IsRet, D!IsHalt, CP!IsHalt, D!COND_JUMPS, CP!COND_JUMPS, D!RET_MNEMONICS,
    CP!RET_MNEMONICS, D!HALT_MNEMONICS, CP!HALT_MNEMONICS
<1>6. \A x : D!parse_hex_target(x) = CP!parse_hex_target(x)
  BY DEF D!parse_hex_target, CP!parse_hex_target
<1>7. \A j \in DOMAIN ins : ins[i].addr \in CP!LeaderAfter(j) <=> i = j + 1 /\ D!EndsBlock(ins[j])
  BY <1>1, <1>3, <1>5 DEF CP!LeaderAfter
<1>8. \A j \in DOMAIN ins :
        ins[i].addr \in CP!LeaderTarget(j)
          <=> D!IsJump(ins[j]) /\ D!parse_hex_target(ins[j].op_str) = ins[i].addr
  BY <1>1, <1>5, <1>6 DEF CP!LeaderTarget, CP!valid_addrs
<1>. HIDE DEF ins
<1>9. 1 \in DOMAIN ins
  BY <1>2 DEF ins
<1>10. i = 1 \/ i - 1 \in DOMAIN ins
  BY <1>2 DEF ins
<1>11. ASSUME ins[i].addr \in leaders PROVE Opens(ins, i)
  <2>1. CASE ins[i].addr = ins[1].addr
    BY <1>3, <1>9, <2>1 DEF Opens, ins
  <2>2. ASSUME NEW j \in DOMAIN ins, ins[i].addr \in CP!LeaderAfter(j) PROVE Opens(ins, i)
    <3>1. j = i - 1 /\ D!EndsBlock(ins[j])
      BY <1>2, <1>7, <2>2
    <3>. QED BY <3>1 DEF Opens
  <2>3. ASSUME NEW j \in DOMAIN ins, ins[i].addr \in CP!LeaderTarget(j) PROVE Opens(ins, i)
    BY <1>8, <2>3 DEF Opens
  <2>. QED BY <1>4, <1>11, <2>1, <2>2, <2>3
<1>12. ASSUME Opens(ins, i) PROVE ins[i].addr \in leaders
  <2>1. CASE i = 1
    BY <1>4, <2>1
  <2>2. CASE i # 1 /\ D!EndsBlock(ins[i - 1])
    <3>1. i - 1 \in DOMAIN ins /\ i = (i - 1) + 1
      BY <1>2, <1>10, <2>2 DEF ins
    <3>. QED BY <1>4, <1>7, <2>2, <3>1
  <2>3. CASE \E j \in DOMAIN ins : D!IsJump(ins[j]) /\ D!parse_hex_target(ins[j].op_str) = ins[i].addr
    BY <1>4, <1>8, <2>3
  <2>. QED BY <1>12, <2>1, <2>2, <2>3 DEF Opens
<1>. QED BY <1>11, <1>12 DEF ins

IsRun(ins, N, k, n, dealt) ==
  \E m \in Nat :
    /\ m > 0 /\ DOMAIN dealt = 1 .. m
    /\ \A j \in 1 .. m : dealt[j] \in 1 .. N
    /\ \A j \in 1 .. m : dealt[j] = dealt[1] + j - 1
    /\ \A j \in 1 .. m : Opens(ins, dealt[j]) <=> j = 1
    /\ k < n => block_insns[k][1] = dealt[1] + m
    /\ k = n => N + 1 = dealt[1] + m
    /\ ins[dealt[1]].addr = leader_vec[k]

\* A finished block: instructions that follow each other, only the first of
\* which opens a block.
LEMMA DealtRun ==
  ASSUME CP!IInv, cpc = "done", NEW ins, ins = func.instructions, ins # << >>,
         NEW N \in Nat, DOMAIN ins = 1 .. N, N = Len(ins),
         NEW n \in Nat, CP!BlockIds = 0 .. n - 1, n = Len(leader_vec),
         NEW k \in 1 .. n, NEW dealt, dealt = block_insns[k - 1]
  PROVE  IsRun(ins, N, k, n, dealt)
<1>1. k - 1 \in CP!BlockIds /\ (k - 1) + 1 = k
  OBVIOUS
<1>2. /\ Len(dealt) \in Nat \ {0} /\ DOMAIN dealt = 1 .. Len(dealt)
      /\ \A j \in DOMAIN dealt : dealt[j] \in DOMAIN ins
      /\ ins[dealt[1]].addr = leader_vec[(k - 1) + 1]
      /\ (k - 1) + 1 < n => block_insns[(k - 1) + 1][1] = dealt[Len(dealt)] + 1
      /\ ~ ((k - 1) + 1 < n) => dealt[Len(dealt)] = Len(ins)
  BY <1>1, NoAddrAssumption, CfgArgumentsFit, CP!FinishedBlocks
    DEF CP!insns, CP!FirstInsn, CP!LastInsn, CP!HasNext
<1>. DEFINE m == Len(dealt)
<1>3. /\ m \in Nat /\ m > 0 /\ DOMAIN dealt = 1 .. m /\ 1 \in 1 .. m /\ m \in 1 .. m
      /\ \A j \in 1 .. m : dealt[j] \in 1 .. N /\ dealt[j] \in Nat
      /\ ins[dealt[1]].addr = leader_vec[k]
      /\ k < n => block_insns[k][1] = dealt[m] + 1
      /\ k = n => dealt[m] = N
  <2>1. m \in Nat /\ m > 0 /\ DOMAIN dealt = 1 .. m /\ 1 \in 1 .. m /\ m \in 1 .. m
    BY <1>2
  <2>2. \A j \in 1 .. m : dealt[j] \in 1 .. N
    BY <1>2
  <2>3. k < n => block_insns[k][1] = dealt[m] + 1
    BY <1>1, <1>2
  <2>4. k = n => dealt[m] = N
    BY <1>1, <1>2
  <2>. QED BY <1>1, <1>2, <2>1, <2>2, <2>3, <2>4
<1>4. \A j \in 1 .. m : j > 1 => dealt[j] = dealt[j - 1] + 1 /\ ins[dealt[j]].addr \notin leaders
  BY <1>1, <1>3 DEF CP!IInv, CP!DealInv, CP!insns
<1>. HIDE DEF m
<1>5. \A j \in 1 .. m : dealt[j] = dealt[1] + j - 1
  <2>1. \A j \in 1 .. m : dealt[j] \in Nat
    BY <1>3
  <2>2. \A j \in 1 .. m : j > 1 => dealt[j] = dealt[j - 1] + 1
    BY <1>4
  <2>. QED BY <1>3, <2>1, <2>2, Run
<1>6. leader_vec[k] \in leaders
  BY <1>1, NoAddrAssumption, CfgArgumentsFit, CP!LeaderFacts
<1>7. ASSUME NEW j \in 1 .. m PROVE Opens(ins, dealt[j]) <=> j = 1
  <2>1. dealt[j] \in DOMAIN ins
    BY <1>3
  <2>2. Opens(ins, dealt[j]) <=> ins[dealt[j]].addr \in leaders
    BY <2>1, LeadersOpen
  <2>3. CASE j = 1
    BY <1>3, <1>6, <2>2, <2>3
  <2>4. CASE j > 1
    BY <1>4, <2>2, <2>4
  <2>5. j = 1 \/ j > 1
    BY <1>3
  <2>. QED BY <2>3, <2>4, <2>5
<1>8. dealt[1] \in Nat /\ dealt[m] = dealt[1] + m - 1 /\ dealt[m] + 1 = dealt[1] + m
  <2>1. dealt[1] \in Nat
    BY <1>3
  <2>2. dealt[m] = dealt[1] + m - 1
    BY <1>3, <1>5
  <2>3. m \in Nat
    BY <1>3
  <2>4. \A x, y \in Nat : (x + y - 1) + 1 = x + y
    OBVIOUS
  <2>5. dealt[m] + 1 = dealt[1] + m
    BY ONLY <2>1, <2>2, <2>3, <2>4
  <2>. QED BY <2>1, <2>2, <2>5
<1>9. k < n => block_insns[k][1] = dealt[1] + m
  BY <1>3, <1>8
<1>10. k = n => N + 1 = dealt[1] + m
  BY <1>3, <1>8
<1>. QED BY <1>3, <1>5, <1>7, <1>9, <1>10 DEF IsRun

\* build_cfg cuts a function at the instructions that open a block.
LEMMA GraphCuts ==
  ASSUME CP!IInv, cpc = "done", func.instructions # << >>
  PROVE  Cuts(GraphBuilt, func.instructions)
<1>. DEFINE ins == func.instructions
            N   == Len(ins)
<1>1. PICK n \in Nat :
        /\ DOMAIN blocks = 0 .. n - 1
        /\ DOMAIN GraphBuilt = 1 .. n
        /\ \A k \in 1 .. n :
             GraphBuilt[k] =
               [ start_addr   |-> leader_vec[k],
                 instructions |-> [ j \in DOMAIN block_insns[k - 1] |->
                                      func.instructions[block_insns[k - 1][j]] ] ]
  BY GraphShape
<1>2. CP!BlockIds = 0 .. n - 1 /\ n = Len(leader_vec)
  <2>1. CP!BlockIds = 0 .. n - 1
    BY <1>1, NoAddrAssumption, CfgArgumentsFit, CP!FinishedBlocks
  <2>2. Len(leader_vec) \in Nat
    BY NoAddrAssumption, CfgArgumentsFit, CP!LeaderFacts
  <2>3. 0 .. Len(leader_vec) - 1 = 0 .. n - 1
    BY <2>1 DEF CP!BlockIds
  <2>4. 1 .. Len(leader_vec) = 1 .. n
    <3>1. \A k : k \in 1 .. Len(leader_vec) <=> k \in Int /\ k - 1 \in 0 .. Len(leader_vec) - 1
      BY <2>2
    <3>2. \A k : k \in 1 .. n <=> k \in Int /\ k - 1 \in 0 .. n - 1
      OBVIOUS
    <3>. QED BY <2>3, <3>1, <3>2
  <2>. QED BY <2>1, <2>2, <2>4, SameEnd
<1>3. Len(GraphBuilt) = n
  <2>1. GraphBuilt \in Seq(L!BasicBlock)
    BY GraphFits DEF IsGraph
  <2>. QED BY <1>1, <2>1, LenProperties, SameEnd
<1>4. N \in Nat /\ DOMAIN ins = 1 .. N
  BY NoAddrAssumption, CfgArgumentsFit, CP!InsnFacts DEF CP!insns, CP!IInv, CP!BoundsInv
<1>5. \A k \in 1 .. n : k - 1 \in CP!BlockIds /\ (k - 1) + 1 = k
  BY <1>2
<1>6. n > 0 /\ block_insns[0][1] = 1
  <2>1. 0 \in CP!BlockIds /\ CP!FirstInsn(0) = 1
    BY NoAddrAssumption, CfgArgumentsFit, CP!FinishedBlocks DEF CP!insns
  <2>. QED BY <1>2, <2>1 DEF CP!FirstInsn
<1>. DEFINE first == [ k \in 1 .. n + 1 |-> IF k <= n THEN block_insns[k - 1][1] ELSE N + 1 ]
<1>7. /\ first[1] = 1 /\ first[n + 1] = N + 1
      /\ \A k \in 1 .. n : first[k] = block_insns[k - 1][1]
      /\ \A k \in 1 .. n : k < n => first[k + 1] = block_insns[k][1]
      /\ DOMAIN first = 1 .. n + 1
      /\ first = [ k \in 1 .. n + 1 |-> first[k] ]
  BY <1>6
<1>. HIDE DEF first, ins, N
<1>8. ASSUME NEW b \in 1 .. n
      PROVE  /\ first[b] \in Nat
             /\ first[b] < first[b + 1]
             /\ GraphBuilt[b].start_addr = ins[first[b]].addr
             /\ DOMAIN GraphBuilt[b].instructions = 1 .. first[b + 1] - first[b]
             /\ \A j \in 1 .. first[b + 1] - first[b] :
                  GraphBuilt[b].instructions[j] = ins[first[b] + j - 1]
             /\ \A j \in 1 .. first[b + 1] - first[b] : Opens(ins, first[b] + j - 1) <=> j = 1
  <2>. DEFINE dealt == block_insns[b - 1]
  <2>1. dealt[1] = first[b]
    BY <1>7
  <2>2. PICK m \in Nat :
           /\ m > 0 /\ DOMAIN dealt = 1 .. m
           /\ \A j \in 1 .. m : dealt[j] \in 1 .. N
           /\ \A j \in 1 .. m : dealt[j] = dealt[1] + j - 1
           /\ \A j \in 1 .. m : Opens(ins, dealt[j]) <=> j = 1
           /\ b < n => block_insns[b][1] = dealt[1] + m
           /\ b = n => N + 1 = dealt[1] + m
           /\ ins[dealt[1]].addr = leader_vec[b]
    <3>1. ins = func.instructions /\ ins # << >> /\ N = Len(ins) /\ dealt = block_insns[b - 1]
      BY DEF ins, N
    <3>. HIDE DEF dealt
    <3>2. n = Len(leader_vec) /\ CP!BlockIds = 0 .. n - 1 /\ N \in Nat /\ DOMAIN ins = 1 .. N
      BY <1>2, <1>4
    <3>. HIDE DEF dealt
    <3>3. IsRun(ins, N, b, n, dealt)
      BY <3>1, <3>2, DealtRun
    <3>. QED BY <3>3 DEF IsRun
  <2>. DEFINE taken == [ j \in DOMAIN dealt |-> ins[dealt[j]] ]
  <2>3. DOMAIN taken = 1 .. m /\ \A j \in 1 .. m : taken[j] = ins[dealt[j]]
    BY <2>2
  <2>4. GraphBuilt[b] = [ start_addr |-> leader_vec[b], instructions |-> taken ]
    BY <1>1 DEF ins
  <2>. HIDE DEF taken, dealt
  <2>5. GraphBuilt[b].start_addr = leader_vec[b] /\ GraphBuilt[b].instructions = taken
    BY <2>4
  <2>6. first[b] \in Nat
    <3>1. 1 \in 1 .. m
      BY <2>2
    <3>2. first[b] \in 1 .. N
      BY <2>1, <2>2, <3>1
    <3>. QED BY <1>4, <3>2
  <2>7. first[b + 1] = first[b] + m
    <3>1. CASE b < n
      BY <1>7, <2>1, <2>2, <3>1
    <3>2. CASE b = n
      BY <1>7, <2>1, <2>2, <3>2
    <3>. QED BY <3>1, <3>2
  <2>8. first[b + 1] - first[b] = m
    BY <2>6, <2>7
  <2>9. \A j \in 1 .. m : first[b] + j - 1 = dealt[j]
    BY <2>1, <2>2
  <2>10. \A j \in 1 .. m : taken[j] = ins[first[b] + j - 1]
    BY <2>3, <2>9
  <2>11. \A j \in 1 .. m : Opens(ins, first[b] + j - 1) <=> j = 1
    BY <2>2, <2>9
  <2>12. first[b] < first[b + 1]
    BY <2>2, <2>6, <2>7
  <2>13. GraphBuilt[b].start_addr = ins[first[b]].addr
    BY <2>1, <2>2, <2>5
  <2>. QED BY <2>3, <2>5, <2>6, <2>8, <2>10, <2>11, <2>12, <2>13
<1>9. first \in [ 1 .. n + 1 -> Nat ]
  <2>1. ASSUME NEW k \in 1 .. n + 1 PROVE first[k] \in Nat
    <3>1. CASE k \in 1 .. n
      BY <1>8, <3>1
    <3>2. CASE k = n + 1
      BY <1>4, <1>7, <3>2
    <3>. QED BY <3>1, <3>2
  <2>. QED BY <1>7, <2>1
<1>10. CutAt(GraphBuilt, ins, first)
  BY <1>3, <1>7, <1>8, <1>9 DEF CutAt, N
<1>. QED BY <1>10 DEF Cuts, ins

-----------------------------------------------------------------------------
(* The IR of an instruction.                                               *)

\* An opcode that does not leave the line.
Plain(o) == o.op \notin { "Jmp", "Jcc", "Ret", "Call" }

Through(o) == o.op = "Call" /\ o.callee = "Indirect"

CallsNamed(o, name) == o.op = "Call" /\ o.callee = "External" /\ o.name = name

CallsAt(o, addr) == o.op = "Call" /\ o.callee = "Direct" /\ o.target = addr

\* What Decompiler says of an instruction, of the opcode it is lifted to.
Means(o, i) ==
  LET bare    == i.op_str = << >>
      op      == i.op_str[1]
      through == ~ bare /\ D!Computed(op)
      to      == ~ bare /\ ~ D!Computed(op)
      target  == D!Immediate(i.op_str)
  IN  /\ i.mnemonic \in D!Returning => o.op = "Ret"
      /\ i.mnemonic \in D!Branching => o.op = "Jcc" /\ o.target = target
      /\ i.mnemonic \in { "jmp", "call" } /\ bare => Plain(o)
      /\ i.mnemonic \in { "jmp", "call" } /\ through => Through(o)
      /\ i.mnemonic = "jmp" /\ to => o.op = "Jmp" /\ o.target = target
      /\ i.mnemonic = "call" /\ to /\ op.kind = "imm" => CallsAt(o, op.value)
      /\ i.mnemonic = "call" /\ to /\ op.kind # "imm" => CallsNamed(o, << op.name >>)
      /\ i.mnemonic = "syscall" => CallsNamed(o, << "syscall" >>)
      /\ i.mnemonic \notin D!Returning \cup D!Branching \cup { "jmp", "call", "syscall" } => Plain(o)

\* The mnemonics that Decompiler names.
Transfers == D!Returning \cup D!Branching \cup { "jmp", "call", "syscall", "leave" }

\* A lock prefix belongs to none of them.
LEMMA LocksAreNoTransfers ==
  \A m \in DOMAIN L!Unlocked : m \notin Transfers /\ L!Unlocked[m] \notin Transfers
<1>1. \A m \in DOMAIN L!Unlocked :
        L!Unlocked[m] \in { "add", "sub", "and", "or", "xor", "not", "neg", "inc", "dec", "xadd",
                            "cmpxchg", "xchg", "adc", "sbb", "bts", "btr", "btc" }
  BY DEF L!Unlocked
<1>2. DOMAIN L!Unlocked =
        { "lock add", "lock sub", "lock and", "lock or", "lock xor", "lock not", "lock neg", "lock inc",
          "lock dec", "lock xadd", "lock cmpxchg", "lock xchg", "lock adc", "lock sbb", "lock bts",
          "lock btr", "lock btc" }
  BY DEF L!Unlocked
<1>3. \A m \in Transfers :
        /\ m \notin { "add", "sub", "and", "or", "xor", "not", "neg", "inc", "dec", "xadd", "cmpxchg",
                      "xchg", "adc", "sbb", "bts", "btr", "btc" }
        /\ m \notin { "lock add", "lock sub", "lock and", "lock or", "lock xor", "lock not", "lock neg",
                      "lock inc", "lock dec", "lock xadd", "lock cmpxchg", "lock xchg", "lock adc",
                      "lock sbb", "lock bts", "lock btr", "lock btc" }
  BY DEF Transfers, D!Returning, D!Branching, D!RET_MNEMONICS, D!HALT_MNEMONICS, D!COND_JUMPS
<1>. QED BY <1>1, <1>2, <1>3

LEMMA TransferMnemonic ==
  /\ L!mnemonic \in Transfers \/ L!insn.mnemonic \in Transfers => L!mnemonic = L!insn.mnemonic
  /\ L!is_lock => L!insn.mnemonic \notin Transfers
BY LocksAreNoTransfers DEF L!mnemonic, L!is_lock

LEMMA PlainIfNoTransfer ==
  ASSUME NEW o, NEW i, Plain(o), i.mnemonic \notin Transfers
  PROVE  Means(o, i)
BY DEF Means, Transfers

LEMMA PlainIfBare ==
  ASSUME NEW o, NEW i, Plain(o), i.mnemonic \in { "jmp", "call", "leave" },
         i.mnemonic = "leave" \/ i.op_str = << >>
  PROVE  Means(o, i)
<1>1. i.mnemonic \notin D!Returning \cup D!Branching \cup { "syscall" }
  BY DEF D!Returning, D!Branching, D!RET_MNEMONICS, D!HALT_MNEMONICS, D!COND_JUMPS
<1>. QED BY <1>1 DEF Means

\* A step of the match adds an opcode that means the instruction.
Adds1 == \E o : Means(o, L!insn) /\ ir_instructions' = ir_instructions \o << L!At(o) >>

LEMMA EmitMeans ==
  ASSUME NEW o, L!Emit(o), Means(o, L!insn)
  PROVE  Adds1
BY DEF Adds1, L!Emit, L!Push

LEMMA DefineMeans ==
  ASSUME NEW o, NEW b, L!Define(b, o), Means(o, L!insn)
  PROVE  Adds1
BY DEF Adds1, L!Define, L!Push

LEMMA PlainForms ==
  /\ \A op, dst, srcs : op \notin { "Jmp", "Jcc", "Ret", "Call" } => Plain(L!Opcode(op, dst, srcs))
  /\ \A op, srcs : op \notin { "Jmp", "Jcc", "Ret", "Call" } => Plain(L!Reads(op, srcs))
  /\ \A op, c, dst, srcs : op \notin { "Jmp", "Jcc", "Ret", "Call" } => Plain(L!Conditional(op, c, dst, srcs))
  /\ Plain(L!Unknown)
BY DEF Plain, L!Opcode, L!Reads, L!Conditional, L!Unknown

\* The other arms are for other mnemonics.
LEMMA OtherMnemonics ==
  L!LiftNop \/ L!LiftMov \/ L!LiftLea \/ L!LiftBinaryAlu \/ L!LiftMul \/ L!LiftUnary
    \/ L!LiftCompare \/ L!LiftPush \/ L!LiftPop \/ L!LiftAtomic \/ L!LiftCmov \/ L!LiftSetcc
    \/ L!LiftIncDec \/ L!LiftUnknown => L!insn.mnemonic \notin Transfers
<1>1. L!LiftNop \/ L!LiftMov \/ L!LiftLea \/ L!LiftBinaryAlu \/ L!LiftMul \/ L!LiftUnary
        \/ L!LiftCompare \/ L!LiftPush \/ L!LiftPop => L!mnemonic \notin Transfers
  BY DEF L!LiftNop, L!LiftMov, L!LiftLea, L!LiftBinaryAlu, L!LiftMul, L!LiftUnary, L!LiftCompare,
    L!LiftPush, L!LiftPop, L!Arm, L!NOP_LIKE, L!MOV_FAMILY, L!BINARY_ALU, Transfers, D!Returning,
    D!Branching, D!RET_MNEMONICS, D!HALT_MNEMONICS, D!COND_JUMPS
<1>2. L!LiftCmov \/ L!LiftSetcc \/ L!LiftIncDec => L!mnemonic \notin Transfers
  BY DEF L!LiftCmov, L!LiftSetcc, L!LiftIncDec, L!LateArm, L!Arm, L!CMOVCC, L!SETCC, Transfers,
    D!Returning, D!Branching, D!RET_MNEMONICS, D!HALT_MNEMONICS, D!COND_JUMPS
<1>3. L!LiftUnknown => L!mnemonic \notin Transfers
  <2>1. Transfers \subseteq L!PLAIN_ARMS \cup L!LATE_ARMS \cup L!JCC
    BY DEF Transfers, D!Returning, D!Branching, D!RET_MNEMONICS, D!HALT_MNEMONICS, D!COND_JUMPS,
      L!PLAIN_ARMS, L!LIFTED_AS_RET, L!LATE_ARMS, L!TRAPS, L!JCC, L!COND_JUMPS
  <2>. QED BY <2>1 DEF L!LiftUnknown
<1>4. L!LiftAtomic => L!insn.mnemonic \notin Transfers
  BY TransferMnemonic DEF L!LiftAtomic, L!LockArm
<1>. QED BY <1>1, <1>2, <1>3, <1>4, TransferMnemonic

LEMMA PlainReaders ==
  L!LiftNop \/ L!LiftCompare \/ L!LiftPush \/ L!LiftAtomic \/ L!LiftUnknown => Adds1
<1>. SUFFICES ASSUME L!LiftNop \/ L!LiftCompare \/ L!LiftPush \/ L!LiftAtomic \/ L!LiftUnknown
              PROVE  Adds1
  OBVIOUS
<1>1. \A o : Plain(o) /\ L!Emit(o) => Adds1
  BY OtherMnemonics, PlainIfNoTransfer, EmitMeans
<1>. QED BY <1>1, PlainForms
  DEF L!LiftNop, L!LiftCompare, L!LiftPush, L!LiftAtomic, L!LiftUnknown, L!IfOperands

LEMMA PlainDefiners ==
  L!LiftMov \/ L!LiftLea \/ L!LiftBinaryAlu \/ L!LiftMul \/ L!LiftUnary \/ L!LiftPop
    \/ L!LiftCmov \/ L!LiftSetcc \/ L!LiftIncDec => Adds1
<1>. SUFFICES ASSUME L!LiftMov \/ L!LiftLea \/ L!LiftBinaryAlu \/ L!LiftMul \/ L!LiftUnary \/ L!LiftPop
                       \/ L!LiftCmov \/ L!LiftSetcc \/ L!LiftIncDec
              PROVE  Adds1
  OBVIOUS
<1>1. \A o : Plain(o) /\ L!Emit(o) => Adds1
  BY OtherMnemonics, PlainIfNoTransfer, EmitMeans
<1>2. \A o, b : Plain(o) /\ L!Define(b, o) => Adds1
  BY OtherMnemonics, PlainIfNoTransfer, DefineMeans
<1>3. \A b, op, dst, srcs :
        op \notin { "Jmp", "Jcc", "Ret", "Call" } /\ L!Define(b, L!Opcode(op, dst, srcs)) => Adds1
  BY <1>2, PlainForms
<1>4. \A b, op, c, dst, srcs :
        op \notin { "Jmp", "Jcc", "Ret", "Call" } /\ L!Define(b, L!Conditional(op, c, dst, srcs)) => Adds1
  BY <1>2, PlainForms
<1>5. \A srcs : L!Emit(L!Reads("Store", srcs)) => Adds1
  BY <1>1, PlainForms
<1>6. L!Emit(L!Unknown) => Adds1
  BY <1>1, PlainForms
<1>7. L!LiftMov => Adds1
  BY <1>3, <1>5, <1>6 DEF L!LiftMov, L!lift_mov, L!IfOperands
<1>8. L!LiftLea => Adds1
  BY <1>3, <1>6 DEF L!LiftLea, L!IfOperands
<1>9. \A m : L!lift_binary_alu(m) => Adds1
  <2>1. \A m : L!AluOp(m) \notin { "Jmp", "Jcc", "Ret", "Call" }
    BY DEF L!AluOp
  <2>. QED BY <1>3, <2>1 DEF L!lift_binary_alu
<1>10. L!LiftBinaryAlu \/ L!LiftMul => Adds1
  BY <1>3, <1>6, <1>9 DEF L!LiftBinaryAlu, L!LiftMul, L!IfOperands
<1>11. L!LiftUnary \/ L!LiftIncDec \/ L!LiftPop => Adds1
  BY <1>3, <1>6 DEF L!LiftUnary, L!LiftIncDec, L!LiftPop, L!IfOperands
<1>12. L!LiftCmov \/ L!LiftSetcc => Adds1
  BY <1>4, <1>6 DEF L!LiftCmov, L!LiftSetcc, L!IfOperands
<1>. QED BY <1>7, <1>8, <1>10, <1>11, <1>12

LEMMA RetMeans == L!LiftRet \/ L!LiftTrap => Adds1
<1>. SUFFICES ASSUME L!LiftRet \/ L!LiftTrap PROVE Adds1
  OBVIOUS
<1>1. L!mnemonic \in D!Returning
  BY DEF L!LiftRet, L!LiftTrap, L!LateArm, L!Arm, L!LIFTED_AS_RET, L!TRAPS, D!Returning,
    D!RET_MNEMONICS, D!HALT_MNEMONICS
<1>2. L!insn.mnemonic \in D!Returning
  BY <1>1, TransferMnemonic DEF Transfers
<1>3. L!insn.mnemonic \notin D!Branching \cup { "jmp", "call", "syscall" }
  BY <1>2 DEF D!Returning, D!Branching, D!RET_MNEMONICS, D!HALT_MNEMONICS, D!COND_JUMPS
<1>4. L!Reads("Ret", << >>).op = "Ret"
  BY DEF L!Reads, L!Opcode
<1>5. Means(L!Reads("Ret", << >>), L!insn)
  BY <1>2, <1>3, <1>4 DEF Means
<1>6. L!Emit(L!Reads("Ret", << >>))
  BY DEF L!LiftRet, L!LiftTrap
<1>. QED BY <1>5, <1>6, EmitMeans

LEMMA JccMeans == L!LiftJcc => Adds1
<1>. SUFFICES ASSUME L!LiftJcc PROVE Adds1
  OBVIOUS
<1>1. L!mnemonic \in D!Branching
  BY DEF L!LiftJcc, L!LateArm, L!Arm, L!JCC, D!Branching, L!COND_JUMPS, D!COND_JUMPS
<1>2. L!insn.mnemonic \in D!Branching
  BY <1>1, TransferMnemonic DEF Transfers
<1>3. L!insn.mnemonic \notin D!Returning \cup { "jmp", "call", "syscall" }
  BY <1>2 DEF D!Returning, D!Branching, D!RET_MNEMONICS, D!HALT_MNEMONICS, D!COND_JUMPS
<1>. DEFINE target == D!Immediate(L!insn.op_str)
<1>4. L!Emit(L!Jcc(L!parse_condition_suffix(L!mnemonic), target, L!NextAddr))
  BY DEF L!LiftJcc, D!Immediate, L!operands
<1>. DEFINE o == L!Jcc(L!parse_condition_suffix(L!mnemonic), target, L!NextAddr)
<1>. HIDE DEF target
<1>5. o.op = "Jcc" /\ o.target = target
  BY DEF L!Jcc
<1>. HIDE DEF o
<1>6. Means(o, L!insn)
  BY <1>2, <1>3, <1>5 DEF Means, target
<1>7. L!Emit(o)
  BY <1>4 DEF o
<1>. QED BY <1>6, <1>7, EmitMeans

LEMMA SyscallMeans == L!LiftSyscall => Adds1
<1>. SUFFICES ASSUME L!LiftSyscall PROVE Adds1
  OBVIOUS
<1>1. L!mnemonic = "syscall"
  BY DEF L!LiftSyscall, L!LateArm, L!Arm
<1>2. L!insn.mnemonic = "syscall"
  BY <1>1, TransferMnemonic DEF Transfers
<1>3. L!insn.mnemonic \notin D!Returning \cup D!Branching
  BY <1>2 DEF D!Returning, D!Branching, D!RET_MNEMONICS, D!HALT_MNEMONICS, D!COND_JUMPS
<1>4. CallsNamed(L!External(<< "syscall" >>, L!NextAddr), << "syscall" >>)
  BY DEF CallsNamed, L!External
<1>5. Means(L!External(<< "syscall" >>, L!NextAddr), L!insn)
  BY <1>2, <1>3, <1>4 DEF Means
<1>6. L!Emit(L!External(<< "syscall" >>, L!NextAddr))
  BY DEF L!LiftSyscall
<1>. QED BY <1>5, <1>6, EmitMeans

\* Operands of an instruction.
LEMMA FirstOperand ==
  ASSUME L!insn \in DisassembledInsn
  PROVE  /\ Len(L!operands) >= 1 <=> L!insn.op_str # << >>
         /\ L!insn.op_str # << >> => L!operands[1] \in Operand /\ L!operands[1] = L!insn.op_str[1]
<1>1. L!operands \in Seq(Operand) /\ L!operands = L!insn.op_str
  BY DEF DisassembledInsn, L!operands
<1>2. Len(L!operands) \in Nat /\ (Len(L!operands) = 0 <=> L!operands = << >>)
  BY <1>1
<1>3. L!operands # << >> => L!operands[1] \in Operand
  BY <1>1, <1>2
<1>. QED BY <1>1, <1>2, <1>3

LEMMA SameRegisters == \A x : L!IsRegister(x) = D!IsRegister(x)
BY DEF L!IsRegister, D!IsRegister, L!VarBase, D!VarBase, L!SubRegisters, D!SubRegisters

LEMMA KindsDiffer ==
  \A op \in Operand : op.kind \in { "reg", "imm", "mem" }
BY DEF Operand

LEMMA CallMeans == L!insn \in DisassembledInsn /\ L!LiftCall => Adds1
<1>. SUFFICES ASSUME L!insn \in DisassembledInsn, L!LiftCall PROVE Adds1
  OBVIOUS
<1>1. L!mnemonic = "call"
  BY DEF L!LiftCall, L!Arm
<1>2. L!insn.mnemonic = "call"
  BY <1>1, TransferMnemonic DEF Transfers
<1>3. L!insn.mnemonic \notin D!Returning \cup D!Branching
  BY <1>2 DEF D!Returning, D!Branching, D!RET_MNEMONICS, D!HALT_MNEMONICS, D!COND_JUMPS
<1>4. CASE L!insn.op_str = << >>
  <2>1. L!Emit(L!Unknown)
    BY <1>4, FirstOperand DEF L!LiftCall, L!IfOperands
  <2>2. Means(L!Unknown, L!insn)
    BY <1>2, <1>4, PlainForms, PlainIfBare
  <2>. QED BY <2>1, <2>2, EmitMeans
<1>5. CASE L!insn.op_str # << >>
  <2>. DEFINE op == L!operands[1]
              o  == L!lift_call(op)
  <2>1. L!Emit(o) /\ op \in Operand /\ op = L!insn.op_str[1]
    BY <1>5, FirstOperand DEF L!LiftCall, L!IfOperands
  <2>2. op.kind \in { "reg", "imm", "mem" }
    BY <2>1, KindsDiffer
  <2>3. D!Computed(op) => Through(o)
    BY <2>2, SameRegisters DEF D!Computed, L!lift_call, L!is_memory_operand, Through, L!Indirect
  <2>4. ~ D!Computed(op) /\ op.kind = "imm" => CallsAt(o, op.value)
    BY SameRegisters DEF D!Computed, L!lift_call, L!is_memory_operand, CallsAt, L!Direct
  <2>5. ~ D!Computed(op) /\ op.kind # "imm" => CallsNamed(o, << op.name >>)
    BY <2>2, SameRegisters DEF D!Computed, L!lift_call, L!is_memory_operand, CallsNamed, L!External
  <2>. HIDE DEF o, op
  <2>6. Means(o, L!insn)
    BY <1>2, <1>3, <1>5, <2>1, <2>3, <2>4, <2>5 DEF Means
  <2>. QED BY <2>1, <2>6, EmitMeans
<1>. QED BY <1>4, <1>5

LEMMA JmpMeans == L!insn \in DisassembledInsn /\ L!LiftJmp => Adds1
<1>. SUFFICES ASSUME L!insn \in DisassembledInsn, L!LiftJmp PROVE Adds1
  OBVIOUS
<1>1. L!mnemonic = "jmp"
  BY DEF L!LiftJmp, L!Arm
<1>2. L!insn.mnemonic = "jmp"
  BY <1>1, TransferMnemonic DEF Transfers
<1>3. L!insn.mnemonic \notin D!Returning \cup D!Branching
  BY <1>2 DEF D!Returning, D!Branching, D!RET_MNEMONICS, D!HALT_MNEMONICS, D!COND_JUMPS
<1>4. CASE L!insn.op_str = << >>
  <2>1. L!Emit(L!Unknown)
    BY <1>4, FirstOperand DEF L!LiftJmp, L!IfOperands
  <2>2. Means(L!Unknown, L!insn)
    BY <1>2, <1>4, PlainForms, PlainIfBare
  <2>. QED BY <2>1, <2>2, EmitMeans
<1>5. CASE L!insn.op_str # << >>
  <2>. DEFINE op == L!operands[1]
              o  == L!lift_jmp(op)
              target == D!Immediate(L!insn.op_str)
  <2>1. L!Emit(o) /\ op \in Operand /\ op = L!insn.op_str[1]
    BY <1>5, FirstOperand DEF L!LiftJmp, L!IfOperands
  <2>2. op.kind \in { "reg", "imm", "mem" }
    BY <2>1, KindsDiffer
  <2>3. D!Computed(op) => Through(o)
    BY <2>2, SameRegisters DEF D!Computed, L!lift_jmp, L!is_memory_operand, Through, L!Indirect
  <2>4. target = IF op.kind = "imm" THEN op.value ELSE 0
    BY <1>5, <2>1 DEF D!Immediate
  <2>. HIDE DEF target
  <2>5. ~ D!Computed(op) => o.op = "Jmp" /\ o.target = target
    <3>1. op.kind = "imm" => o = L!Jmp(op.value)
      BY DEF L!lift_jmp, L!is_memory_operand
    <3>2. op.kind = "reg" /\ ~ D!Computed(op) => o = L!Jmp(0)
      BY SameRegisters DEF D!Computed, L!lift_jmp, L!is_memory_operand
    <3>3. op.kind = "mem" => D!Computed(op)
      BY DEF D!Computed
    <3>4. \A t : L!Jmp(t).op = "Jmp" /\ L!Jmp(t).target = t
      BY DEF L!Jmp
    <3>. HIDE DEF o, op
    <3>5. CASE op.kind = "imm"
      BY <2>4, <3>1, <3>4, <3>5
    <3>6. CASE op.kind = "reg"
      BY <2>4, <3>2, <3>4, <3>6
    <3>. QED BY <2>2, <3>3, <3>5, <3>6
  <2>. HIDE DEF o, op
  <2>6. Means(o, L!insn)
    BY <1>2, <1>3, <1>5, <2>1, <2>3, <2>5 DEF Means, target
  <2>. QED BY <2>1, <2>6, EmitMeans
<1>. QED BY <1>4, <1>5

-----------------------------------------------------------------------------
(* The graphs are those of the functions.                                  *)

GraphsInv ==
  /\ cpc # "idle" => /\ Len(cfgs) + 1 \in DOMAIN functions
                     /\ func = FunctionToBuild(Len(cfgs) + 1)
  /\ \A k \in DOMAIN cfgs : k \in DOMAIN functions /\ Cuts(cfgs[k], InsnsOf(k))

LEMMA NotEmpty ==
  ASSUME FrontInv, NEW f \in DOMAIN functions
  PROVE  InsnsOf(f) # << >>
<1>1. PICK n \in Nat : \E l \in 1 .. n, h \in 1 .. n :
        l <= h /\ InsnsOf(f) = [ k \in 1 .. h - l + 1 |-> all_insns[l + k - 1] ]
  BY FunctionPositions
<1>2. PICK l \in 1 .. n, h \in 1 .. n :
        l <= h /\ InsnsOf(f) = [ k \in 1 .. h - l + 1 |-> all_insns[l + k - 1] ]
  BY <1>1
<1>3. 1 \in DOMAIN InsnsOf(f)
  BY <1>2
<1>4. 1 \notin DOMAIN << >>
  OBVIOUS
<1>. QED BY <1>3, <1>4

LEMMA GraphsFrame ==
  ASSUME GraphsInv, UNCHANGED << cvars, cfgs >>,
         UNCHANGED << functions, all_insns >> \/ (cfgs = << >> /\ cpc = "idle")
  PROVE  GraphsInv'
<1>1. cpc' = cpc /\ func' = func /\ cfgs' = cfgs
  BY DEF cvars
<1>2. CASE cfgs = << >> /\ cpc = "idle"
  BY <1>1, <1>2 DEF GraphsInv
<1>3. CASE UNCHANGED << functions, all_insns >>
  <2>1. \A k : InsnsOf(k)' = InsnsOf(k)
    BY <1>3 DEF InsnsOf
  <2>2. \A k : FunctionToBuild(k)' = FunctionToBuild(k)
    BY <1>3, <2>1 DEF FunctionToBuild
  <2>3. FunctionToBuild(Len(cfgs) + 1)' = FunctionToBuild(Len(cfgs) + 1)
    BY <1>1, <1>3 DEF FunctionToBuild, InsnsOf
  <2>4. ASSUME NEW k \in DOMAIN cfgs PROVE k \in DOMAIN functions' /\ Cuts(cfgs[k], InsnsOf(k))'
    <3>1. k \in DOMAIN functions /\ Cuts(cfgs[k], InsnsOf(k))
      BY DEF GraphsInv
    <3>2. InsnsOf(k)' = InsnsOf(k) /\ cfgs[k]' = cfgs[k]
      BY <1>1, <1>3, <2>1
    <3>3. Cuts(cfgs[k], InsnsOf(k))'
      BY <3>1, <3>2
    <3>. QED BY <1>3, <3>1, <3>3
  <2>. QED BY <1>1, <1>3, <2>3, <2>4 DEF GraphsInv
<1>. QED BY <1>2, <1>3

LEMMA BuildKeepsFunction == C!Next => func' = func
BY DEF C!Next, C!EmptyFunction, C!SeedLeaders, C!ScanInsn, C!EndScan, C!NumberLeader, C!EndNumber,
  C!DealInsn, C!EndDeal, C!ClassifyBlock, C!Finish, C!Terminated, C!vars

LEMMA GraphsSteps ==
  ASSUME FrontInv, IInv, BuildInv, GraphsInv, CallBuildCfg \/ RunBuildCfg \/ BuildCfgReturns
  PROVE  GraphsInv'
<1>1. functions' = functions /\ all_insns' = all_insns
  BY DEF CallBuildCfg, RunBuildCfg, BuildCfgReturns, fvars
<1>2. ASSUME NEW k PROVE InsnsOf(k)' = InsnsOf(k) /\ FunctionToBuild(k)' = FunctionToBuild(k)
  BY <1>1 DEF InsnsOf, FunctionToBuild
<1>3. CASE cfgs' = cfgs /\ cpc # "idle" /\ func' = func
  <2>1. \A k \in DOMAIN cfgs : k \in DOMAIN functions' /\ Cuts(cfgs[k], InsnsOf(k))'
    <3>1. ASSUME NEW k \in DOMAIN cfgs PROVE k \in DOMAIN functions' /\ Cuts(cfgs[k], InsnsOf(k))'
      <4>1. k \in DOMAIN functions /\ Cuts(cfgs[k], InsnsOf(k))
        BY DEF GraphsInv
      <4>2. InsnsOf(k)' = InsnsOf(k) /\ cfgs[k]' = cfgs[k]
        BY <1>2, <1>3
      <4>3. Cuts(cfgs[k], InsnsOf(k))'
        BY <4>1, <4>2
      <4>. QED BY <1>1, <4>1, <4>3
    <3>. QED BY <3>1
  <2>2. FunctionToBuild(Len(cfgs) + 1)' = FunctionToBuild(Len(cfgs) + 1)
    BY <1>1, <1>3 DEF FunctionToBuild, InsnsOf
  <2>. QED BY <1>1, <1>3, <2>1, <2>2 DEF GraphsInv
<1>4. CASE RunBuildCfg
  <2>1. cfgs' = cfgs /\ cpc # "idle" /\ func' = func
    BY <1>4, BuildKeepsFunction DEF RunBuildCfg, mvars
  <2>. QED BY <1>3, <2>1
<1>5. CASE CallBuildCfg
  <2>1. cfgs' = cfgs /\ func' = FunctionToBuild(Len(cfgs) + 1) /\ Len(cfgs) < Len(functions)
    BY <1>5 DEF CallBuildCfg, mvars
  <2>2. Len(cfgs) + 1 \in DOMAIN functions
    <3>1. \E n \in Nat : n = Len(functions) /\ DOMAIN functions = 1 .. n
      BY DEF FrontInv, FP!IInv, FP!CutInv
    <3>2. Len(cfgs) \in Nat
      BY VecLen DEF IInv, VecInv
    <3>. QED BY <2>1, <3>1, <3>2
  <2>3. FunctionToBuild(Len(cfgs) + 1)' = FunctionToBuild(Len(cfgs) + 1)
    BY <1>1, <2>1 DEF FunctionToBuild, InsnsOf
  <2>4. ASSUME NEW k \in DOMAIN cfgs PROVE k \in DOMAIN functions' /\ Cuts(cfgs[k], InsnsOf(k))'
    <3>1. k \in DOMAIN functions /\ Cuts(cfgs[k], InsnsOf(k))
      BY DEF GraphsInv
    <3>2. InsnsOf(k)' = InsnsOf(k) /\ cfgs[k]' = cfgs[k]
      BY <1>2, <2>1
    <3>3. Cuts(cfgs[k], InsnsOf(k))'
      BY <3>1, <3>2
    <3>. QED BY <1>1, <3>1, <3>3
  <2>. QED BY <1>1, <2>1, <2>2, <2>3, <2>4 DEF GraphsInv
<1>6. CASE BuildCfgReturns
  <2>1. cfgs' = Append(cfgs, GraphBuilt) /\ cpc' = "idle" /\ cpc = "done"
    BY <1>6 DEF BuildCfgReturns
  <2>. DEFINE g == GraphBuilt
  <2>2. Len(cfgs) + 1 \in DOMAIN functions /\ func.instructions = InsnsOf(Len(cfgs) + 1)
    BY <2>1 DEF GraphsInv, FunctionToBuild
  <2>3. Cuts(g, InsnsOf(Len(cfgs) + 1))
    <3>1. func.instructions # << >>
      BY <2>2, NotEmpty
    <3>. QED BY <2>1, <2>2, <3>1, GraphCuts DEF BuildInv
  <2>. HIDE DEF g
  <2>4. PICK n \in Nat :
          /\ n = Len(cfgs) /\ DOMAIN cfgs = 1 .. n /\ DOMAIN cfgs' = 1 .. n + 1
          /\ \A k \in 1 .. n : cfgs'[k] = cfgs[k]
          /\ cfgs'[n + 1] = g
    BY <2>1, AppendShape DEF IInv, VecInv, g
  <2>5. ASSUME NEW k \in 1 .. n + 1
        PROVE  k \in DOMAIN functions /\ Cuts(cfgs'[k], InsnsOf(k))
    <3>1. k \in 1 .. n \/ k = n + 1
      OBVIOUS
    <3>2. CASE k \in 1 .. n
      BY <2>4, <3>2 DEF GraphsInv
    <3>3. CASE k = n + 1
      BY <2>2, <2>3, <2>4, <3>3
    <3>. QED BY <3>1, <3>2, <3>3
  <2>6. ASSUME NEW k \in 1 .. n + 1
        PROVE  k \in DOMAIN functions' /\ Cuts(cfgs[k], InsnsOf(k))'
    <3>1. InsnsOf(k)' = InsnsOf(k)
      BY <1>2
    <3>2. Cuts(cfgs[k], InsnsOf(k))'
      BY <2>5, <3>1
    <3>. QED BY <1>1, <2>5, <3>2
  <2>. QED BY <2>1, <2>4, <2>6 DEF GraphsInv
<1>. QED BY <1>4, <1>5, <1>6

-----------------------------------------------------------------------------
(* The IR of a function renders its graph.                                 *)

\* How many opcodes an instruction becomes.
Weight(i) == IF i.mnemonic = "leave" THEN 2 ELSE 1

\* The IR of instruction k of a block begins at at[k].
RenderedAt(irs, src, n, at) ==
  /\ DOMAIN at = 1 .. n + 1 /\ at[1] = 1
  /\ \A k \in 1 .. n + 1 : at[k] \in Nat
  /\ \A k \in 1 .. n : at[k + 1] = at[k] + Weight(src[k])
  /\ DOMAIN irs = 1 .. at[n + 1] - 1
  /\ \A k \in 1 .. n : \A j \in 1 .. Weight(src[k]) : Means(irs[at[k] + j - 1].opcode, src[k])

\* The IR of the first n instructions of a block.
Rendered(irs, src, n) == \E at : RenderedAt(irs, src, n, at)

\* The IR of one instruction more.
Renders(irs, irs2, i) ==
  \E l \in Nat :
    /\ DOMAIN irs = 1 .. l /\ DOMAIN irs2 = 1 .. l + Weight(i)
    /\ \A k \in 1 .. l : irs2[k] = irs[k]
    /\ \A j \in 1 .. Weight(i) : Means(irs2[l + j].opcode, i)

\* What goes up step by step goes up.
LEMMA Rises ==
  ASSUME NEW n \in Nat, NEW s, \A k \in 1 .. n : s[k] \in Nat,
         \A k \in 1 .. n : k > 1 => s[k - 1] <= s[k],
         NEW i \in 1 .. n, NEW j \in 1 .. n, i <= j
  PROVE  s[i] <= s[j]
<1>. DEFINE Off == { k \in 1 .. n : i <= k /\ ~ (s[i] <= s[k]) }
<1>1. ASSUME Off # {} PROVE FALSE
  <2>1. PICK e \in Off : \A k \in Off : e <= k
    <3>1. Off \subseteq Nat
      OBVIOUS
    <3>. HIDE DEF Off
    <3>. QED BY <1>1, <3>1, NoAddrAssumption, FilesFit, FP!LeastExists
  <2>2. e \in 1 .. n /\ i <= e /\ ~ (s[i] <= s[e])
    BY <2>1
  <2>3. s[i] \in Nat /\ s[e] \in Nat
    BY <2>2
  <2>4. e # i
    BY <2>2, <2>3
  <2>5. e - 1 \in 1 .. n /\ i <= e - 1 /\ e > 1
    BY <2>2, <2>4
  <2>6. e - 1 \notin Off
    BY <2>1, <2>2, <2>5
  <2>7. s[i] <= s[e - 1] /\ s[e - 1] <= s[e] /\ s[e - 1] \in Nat
    BY <2>2, <2>5, <2>6
  <2>. QED BY <2>2, <2>3, <2>7
<1>. QED BY <1>1

LEMMA WeightRange == \A i : Weight(i) \in { 1, 2 } /\ Weight(i) \in Nat /\ Weight(i) >= 1
BY DEF Weight

LEMMA RenderedBounds ==
  ASSUME NEW irs, NEW src, NEW n \in Nat, NEW at, RenderedAt(irs, src, n, at), NEW k \in 1 .. n
  PROVE  /\ at[k] \in Nat /\ at[k] >= 1
         /\ \A j \in 1 .. Weight(src[k]) : at[k] + j - 1 \in 1 .. at[n + 1] - 1
<1>1. /\ at[1] = 1
      /\ \A i \in 1 .. n + 1 : at[i] \in Nat
      /\ \A i \in 1 .. n : at[i + 1] = at[i] + Weight(src[i])
  BY DEF RenderedAt
<1>2. n + 1 \in Nat
  OBVIOUS
<1>3. ASSUME NEW i \in 1 .. n + 1, i > 1 PROVE at[i - 1] <= at[i]
  <2>1. i - 1 \in 1 .. n /\ (i - 1) + 1 = i /\ i - 1 \in 1 .. n + 1
    BY <1>3
  <2>2. at[i] = at[i - 1] + Weight(src[i - 1]) /\ at[i - 1] \in Nat
    BY <1>1, <2>1
  <2>. QED BY <2>2, WeightRange
<1>4. \A i \in 1 .. n + 1 : i > 1 => at[i - 1] <= at[i]
  BY <1>3
<1>5. 1 \in 1 .. n + 1 /\ k \in 1 .. n + 1 /\ k + 1 \in 1 .. n + 1 /\ n + 1 \in 1 .. n + 1
  OBVIOUS
<1>6. at[1] <= at[k]
  <2>1. 1 <= k
    OBVIOUS
  <2>. QED BY <1>1, <1>2, <1>4, <1>5, <2>1, Rises
<1>7. at[k + 1] <= at[n + 1]
  <2>1. k + 1 <= n + 1
    OBVIOUS
  <2>. QED BY <1>1, <1>2, <1>4, <1>5, <2>1, Rises
<1>8. at[k + 1] = at[k] + Weight(src[k]) /\ at[k] \in Nat /\ at[n + 1] \in Nat
  BY <1>1, <1>5
<1>9. ASSUME NEW j \in 1 .. Weight(src[k]) PROVE at[k] + j - 1 \in 1 .. at[n + 1] - 1
  <2>1. j \in Nat /\ j >= 1 /\ j <= Weight(src[k]) /\ Weight(src[k]) \in Nat
    BY WeightRange
  <2>. HIDE DEF Weight
  <2>. QED BY <1>1, <1>6, <1>7, <1>8, <2>1
<1>. QED BY <1>1, <1>6, <1>8, <1>9

LEMMA RenderedNone ==
  ASSUME NEW src
  PROVE  Rendered(<< >>, src, 0)
<1>. DEFINE at == [ k \in 1 .. 1 |-> 1 ]
<1>1. RenderedAt(<< >>, src, 0, at)
  BY DEF RenderedAt
<1>. QED BY <1>1 DEF Rendered

LEMMA RenderedNext ==
  ASSUME NEW irs, NEW irs2, NEW src, NEW n \in Nat,
         Rendered(irs, src, n), Renders(irs, irs2, src[n + 1])
  PROVE  Rendered(irs2, src, n + 1)
<1>1. PICK at : RenderedAt(irs, src, n, at)
  BY DEF Rendered
<1>. DEFINE w == Weight(src[n + 1])
<1>2. w \in { 1, 2 }
  BY DEF Weight
<1>. HIDE DEF w
<1>3. PICK l \in Nat :
        /\ DOMAIN irs = 1 .. l /\ DOMAIN irs2 = 1 .. l + w
        /\ \A k \in 1 .. l : irs2[k] = irs[k]
        /\ \A j \in 1 .. w : Means(irs2[l + j].opcode, src[n + 1])
  BY DEF Renders, w
<1>4. /\ DOMAIN at = 1 .. n + 1 /\ at[1] = 1
      /\ \A k \in 1 .. n + 1 : at[k] \in Nat
      /\ \A k \in 1 .. n : at[k + 1] = at[k] + Weight(src[k])
      /\ DOMAIN irs = 1 .. at[n + 1] - 1
      /\ \A k \in 1 .. n : \A j \in 1 .. Weight(src[k]) : Means(irs[at[k] + j - 1].opcode, src[k])
  BY <1>1 DEF RenderedAt
<1>5. at[n + 1] > 0
  <2>1. CASE n = 0
    BY <1>4, <2>1
  <2>2. CASE n > 0
    <3>1. n \in 1 .. n /\ n \in 1 .. n + 1
      BY <2>2
    <3>2. at[n + 1] = at[n] + Weight(src[n]) /\ at[n] \in Nat
      BY <1>4, <3>1
    <3>3. Weight(src[n]) \in { 1, 2 }
      BY DEF Weight
    <3>. QED BY <3>2, <3>3
  <2>. QED BY <2>1, <2>2
<1>6. at[n + 1] = l + 1
  <2>1. n + 1 \in 1 .. n + 1
    OBVIOUS
  <2>2. at[n + 1] - 1 \in Nat
    BY <1>4, <1>5, <2>1
  <2>3. at[n + 1] - 1 = l
    BY <1>3, <1>4, <2>2, SameEnd
  <2>. QED BY <1>4, <2>1, <2>3
<1>. DEFINE at2 == [ k \in 1 .. n + 2 |-> IF k <= n + 1 THEN at[k] ELSE l + 1 + w ]
<1>7. /\ DOMAIN at2 = 1 .. (n + 1) + 1
      /\ \A k \in 1 .. n + 1 : at2[k] = at[k]
      /\ at2[n + 2] = l + 1 + w
  OBVIOUS
<1>. HIDE DEF at2
<1>8. at2[1] = 1 /\ (n + 1) + 1 = n + 2 /\ at2[(n + 1) + 1] = l + 1 + w
  BY <1>4, <1>7
<1>9. \A k \in 1 .. (n + 1) + 1 : at2[k] \in Nat
  <2>1. \A k \in 1 .. (n + 1) + 1 : k \in 1 .. n + 1 \/ k = n + 2
    OBVIOUS
  <2>. QED BY <1>2, <1>4, <1>7, <2>1
<1>10. ASSUME NEW k \in 1 .. n + 1
       PROVE  /\ at2[k + 1] = at2[k] + Weight(src[k])
              /\ \A j \in 1 .. Weight(src[k]) : Means(irs2[at2[k] + j - 1].opcode, src[k])
  <2>1. CASE k \in 1 .. n
    <3>1. k + 1 \in 1 .. n + 1
      BY <2>1
    <3>2. at2[k + 1] = at2[k] + Weight(src[k])
      BY <1>4, <1>7, <2>1, <3>1
    <3>3. ASSUME NEW j \in 1 .. Weight(src[k]) PROVE Means(irs2[at2[k] + j - 1].opcode, src[k])
      <4>1. Means(irs[at[k] + j - 1].opcode, src[k]) /\ at2[k] = at[k]
        BY <1>4, <1>7, <2>1
      <4>2. at[k] + j - 1 \in 1 .. at[n + 1] - 1
        BY <1>1, <2>1, RenderedBounds
      <4>3. at[k] + j - 1 \in 1 .. l
        BY <1>6, <4>2
      <4>. QED BY <1>3, <4>1, <4>3
    <3>. QED BY <3>2, <3>3
  <2>2. CASE k = n + 1
    <3>1. at2[k] = l + 1 /\ at2[k + 1] = l + 1 + w
      BY <1>6, <1>7, <1>8, <2>2
    <3>2. \A j \in 1 .. w : l + j = at2[k] + j - 1
      BY <1>2, <3>1
    <3>. QED BY <1>3, <2>2, <3>1, <3>2 DEF w
  <2>. QED BY <2>1, <2>2
<1>11. DOMAIN irs2 = 1 .. at2[(n + 1) + 1] - 1
  BY <1>2, <1>3, <1>8
<1>12. RenderedAt(irs2, src, n + 1, at2)
  BY <1>7, <1>8, <1>9, <1>10, <1>11 DEF RenderedAt
<1>. QED BY <1>12 DEF Rendered

LEMMA OneMore ==
  ASSUME NEW irs, IsVec(irs), NEW a, NEW irs2, irs2 = irs \o << a >>, NEW i, Means(a.opcode, i),
         i.mnemonic # "leave"
  PROVE  Renders(irs, irs2, i)
<1>1. PICK S : irs \in Seq(S)
  BY DEF IsVec
<1>. DEFINE l == Len(irs)
<1>2. l \in Nat /\ DOMAIN irs = 1 .. l
  BY <1>1, LenProperties
<1>3. /\ DOMAIN irs2 = 1 .. l + 1
      /\ \A k \in 1 .. l : irs2[k] = irs[k]
      /\ irs2[l + 1] = a
  BY <1>2
<1>4. Weight(i) = 1
  BY DEF Weight
<1>. HIDE DEF l
<1>5. \A j \in 1 .. 1 : j = 1
  OBVIOUS
<1>6. \A j \in 1 .. 1 : Means(irs2[l + j].opcode, i)
  BY <1>3, <1>5
<1>. QED BY <1>2, <1>3, <1>4, <1>6 DEF Renders

LEMMA TwoMore ==
  ASSUME NEW irs, IsVec(irs), NEW a, NEW b, NEW irs2, irs2 = irs \o << a, b >>, NEW i,
         Means(a.opcode, i), Means(b.opcode, i), i.mnemonic = "leave"
  PROVE  Renders(irs, irs2, i)
<1>1. PICK S : irs \in Seq(S)
  BY DEF IsVec
<1>. DEFINE l == Len(irs)
<1>2. l \in Nat /\ DOMAIN irs = 1 .. l
  BY <1>1, LenProperties
<1>3. /\ DOMAIN irs2 = 1 .. l + 2
      /\ \A k \in 1 .. l : irs2[k] = irs[k]
      /\ irs2[l + 1] = a /\ irs2[l + 2] = b
  BY <1>2
<1>4. Weight(i) = 2
  BY DEF Weight
<1>. HIDE DEF l
<1>5. \A j \in 1 .. 2 : j = 1 \/ j = 2
  OBVIOUS
<1>6. \A j \in 1 .. 2 : Means(irs2[l + j].opcode, i)
  BY <1>3, <1>5
<1>. QED BY <1>2, <1>3, <1>4, <1>6 DEF Renders

\* The IR of an instruction says what the instruction says.
LEMMA InsnRenders ==
  ASSUME L!LiftInsn, L!insn \in DisassembledInsn, IsVec(ir_instructions)
  PROVE  Renders(ir_instructions, ir_instructions', L!insn)
<1>a. \A o : L!At(o).opcode = o
  BY DEF L!At
<1>1. CASE L!LiftLeave
  <2>. DEFINE o1 == L!Opcode("Mov", L!new_version("RSP"), << L!Current("RBP") >>)
              o2 == L!Opcode("Pop", L!new_version("RBP"), << >>)
  <2>1. L!insn.mnemonic = "leave"
    BY <1>1, TransferMnemonic DEF L!LiftLeave, L!LateArm, L!Arm, Transfers
  <2>2. Means(o1, L!insn) /\ Means(o2, L!insn)
    BY <2>1, PlainForms, PlainIfBare
  <2>3. ir_instructions' = ir_instructions \o << L!At(o1), L!At(o2) >>
    BY <1>1 DEF L!LiftLeave, L!Push
  <2>. HIDE DEF o1, o2
  <2>. DEFINE a == L!At(o1)
              b == L!At(o2)
  <2>4. Means(a.opcode, L!insn) /\ Means(b.opcode, L!insn) /\ ir_instructions' = ir_instructions \o << a, b >>
    BY <1>a, <2>2, <2>3
  <2>. HIDE DEF a, b
  <2>. QED BY <2>1, <2>4, TwoMore
<1>2. CASE L!LiftCall \/ L!LiftJmp \/ L!LiftRet \/ L!LiftTrap \/ L!LiftJcc \/ L!LiftSyscall
  <2>1. L!mnemonic \in { "call", "jmp", "syscall" } \cup D!Returning \cup D!Branching
    BY <1>2 DEF L!LiftCall, L!LiftJmp, L!LiftRet, L!LiftTrap, L!LiftJcc, L!LiftSyscall, L!LateArm,
      L!Arm, L!LIFTED_AS_RET, L!TRAPS, L!JCC, L!COND_JUMPS, D!Returning, D!Branching,
      D!RET_MNEMONICS, D!HALT_MNEMONICS, D!COND_JUMPS
  <2>2. L!insn.mnemonic = L!mnemonic
    BY <2>1, TransferMnemonic DEF Transfers
  <2>3. L!insn.mnemonic # "leave"
    BY <2>1, <2>2 DEF D!Returning, D!Branching, D!RET_MNEMONICS, D!HALT_MNEMONICS, D!COND_JUMPS
  <2>4. Adds1
    BY <1>2, CallMeans, JmpMeans, RetMeans, JccMeans, SyscallMeans
  <2>5. PICK o : Means(o, L!insn) /\ ir_instructions' = ir_instructions \o << L!At(o) >>
    BY <2>4 DEF Adds1
  <2>. QED BY <1>a, <2>3, <2>5, OneMore
<1>3. CASE ~ L!LiftLeave
           /\ ~ (L!LiftCall \/ L!LiftJmp \/ L!LiftRet \/ L!LiftTrap \/ L!LiftJcc \/ L!LiftSyscall)
  <2>1. L!insn.mnemonic # "leave"
    BY <1>3, OtherMnemonics DEF L!LiftInsn, Transfers
  <2>2. Adds1
    BY <1>3, PlainReaders, PlainDefiners DEF L!LiftInsn
  <2>3. PICK o : Means(o, L!insn) /\ ir_instructions' = ir_instructions \o << L!At(o) >>
    BY <2>2 DEF Adds1
  <2>. QED BY <1>a, <2>1, <2>3, OneMore
<1>. QED BY <1>1, <1>2, <1>3

\* The IR of a graph, block by block.
RendersBlock(irb, b) ==
  irb.start_addr = b.start_addr /\ Rendered(irb.instructions, b.instructions, Len(b.instructions))

RendersGraph(irbs, g) ==
  Len(irbs) = Len(g) /\ \A b \in DOMAIN irbs : RendersBlock(irbs[b], g[b])

RenderingInv ==
  /\ lpc = "lift" => /\ lidx \in 1 .. Len(cfg[blk].instructions) + 1
                     /\ Rendered(ir_instructions, cfg[blk].instructions, lidx - 1)
  /\ lpc = "done" => Len(ir_blocks) = Len(cfg)
  /\ \A b \in DOMAIN ir_blocks : RendersBlock(ir_blocks[b], cfg[b])

RenderedInv ==
  \A k \in DOMAIN ir_functions :
    ir_functions[k].name = functions[k].name /\ RendersGraph(ir_functions[k].blocks, cfgs[k])

IrInv ==
  /\ lpc # "idle" => /\ Len(ir_functions) + 1 \in DOMAIN cfgs
                     /\ cfg = cfgs[Len(ir_functions) + 1]
                     /\ RenderingInv
  /\ RenderedInv

\* A graph and the blocks in it.
LEMMA BlockOfGraph ==
  ASSUME IsGraph(cfg)
  PROVE  /\ Len(cfg) \in Nat /\ DOMAIN cfg = 1 .. Len(cfg)
         /\ \A b \in DOMAIN cfg :
              /\ Len(cfg[b].instructions) \in Nat
              /\ DOMAIN cfg[b].instructions = 1 .. Len(cfg[b].instructions)
              /\ \A k \in DOMAIN cfg[b].instructions : cfg[b].instructions[k] \in DisassembledInsn
<1>1. Len(cfg) \in Nat /\ DOMAIN cfg = 1 .. Len(cfg) /\ cfg \in Seq(L!BasicBlock)
  BY LenProperties DEF IsGraph
<1>2. \A b \in DOMAIN cfg : cfg[b] \in L!BasicBlock
  BY <1>1, ElementOfSeq
<1>3. L!DisassembledInsn = DisassembledInsn
  BY DEF L!DisassembledInsn, DisassembledInsn, L!Operand, Operand
<1>4. ASSUME NEW b \in DOMAIN cfg
      PROVE  /\ Len(cfg[b].instructions) \in Nat
             /\ DOMAIN cfg[b].instructions = 1 .. Len(cfg[b].instructions)
             /\ \A k \in DOMAIN cfg[b].instructions : cfg[b].instructions[k] \in DisassembledInsn
  <2>. DEFINE s == cfg[b].instructions
  <2>1. s \in Seq(DisassembledInsn)
    BY <1>2, <1>3 DEF L!BasicBlock
  <2>. HIDE DEF s
  <2>2. Len(s) \in Nat /\ DOMAIN s = 1 .. Len(s) /\ \A k \in DOMAIN s : s[k] \in DisassembledInsn
    BY <2>1, LenProperties, ElementOfSeq
  <2>. QED BY <2>2 DEF s
<1>. QED BY <1>1, <1>4

\* One step of lift_function.
LEMMA RenderingStep ==
  ASSUME IsGraph(cfg), LiftingInv, RenderingInv, L!Next, lpc # "done"
  PROVE  RenderingInv'
<1>1. CASE L!BeginBlock
  <2>1. /\ lpc' = "lift" /\ blk <= Len(cfg) /\ ir_instructions' = << >> /\ lidx' = 1
        /\ cfg' = cfg /\ blk' = blk /\ ir_blocks' = ir_blocks
    BY <1>1 DEF L!BeginBlock
  <2>2. blk \in DOMAIN cfg
    <3>1. IsVec(ir_blocks) /\ Len(ir_blocks) = blk - 1 /\ blk \in Nat
      BY DEF LiftingInv, IrOfGraph
    <3>2. Len(ir_blocks) \in Nat
      BY <3>1, VecLen
    <3>. QED BY <2>1, <3>1, <3>2, BlockOfGraph
  <2>3. lidx' \in 1 .. Len(cfg[blk].instructions) + 1 /\ lidx' - 1 = 0
    BY <2>1, <2>2, BlockOfGraph
  <2>4. Rendered(ir_instructions', cfg[blk].instructions, lidx' - 1)
    BY <2>1, <2>3, RenderedNone
  <2>. QED BY <2>1, <2>3, <2>4 DEF RenderingInv
<1>2. CASE L!LiftInsn
  <2>1. cfg' = cfg /\ lpc' = lpc /\ blk' = blk /\ ir_blocks' = ir_blocks /\ lpc = "lift"
    BY <1>2, ArmsPass
  <2>2. lidx <= Len(cfg[blk].instructions) /\ lidx' = lidx + 1
    BY <1>2 DEF L!LiftInsn, L!LiftNop, L!LiftMov, L!LiftLea, L!LiftBinaryAlu, L!LiftMul, L!LiftUnary,
       L!LiftCompare, L!LiftPush, L!LiftPop, L!LiftCall, L!LiftRet, L!LiftJmp, L!LiftAtomic,
       L!LiftCmov, L!LiftSetcc, L!LiftJcc, L!LiftIncDec, L!LiftLeave, L!LiftTrap, L!LiftSyscall,
       L!LiftUnknown, L!lift_mov, L!lift_binary_alu, L!IfOperands, L!LateArm, L!Arm, L!Emit,
       L!Define, L!Push
  <2>3. blk \in DOMAIN cfg
    <3>1. IsVec(ir_blocks) /\ Len(ir_blocks) = blk - 1 /\ blk \in Nat /\ blk <= Len(cfg)
      BY <2>1 DEF LiftingInv, IrOfGraph
    <3>2. Len(ir_blocks) \in Nat
      BY <3>1, VecLen
    <3>. QED BY <3>1, <3>2, BlockOfGraph
  <2>. DEFINE src == cfg[blk].instructions
              n   == lidx - 1
  <2>4. /\ Len(src) \in Nat /\ DOMAIN src = 1 .. Len(src)
        /\ \A k \in DOMAIN src : src[k] \in DisassembledInsn
    BY <2>3, BlockOfGraph
  <2>5. lidx \in 1 .. Len(src) + 1 /\ lidx <= Len(src) /\ Rendered(ir_instructions, src, n)
    BY <2>1, <2>2 DEF RenderingInv
  <2>6. L!insn = src[lidx]
    BY DEF L!insn
  <2>. HIDE DEF src
  <2>7. n \in Nat /\ n + 1 = lidx /\ lidx \in DOMAIN src
    BY <2>4, <2>5
  <2>8. Renders(ir_instructions, ir_instructions', L!insn)
    <3>1. IsVec(ir_instructions)
      BY DEF LiftingInv, IrOK
    <3>2. L!insn \in DisassembledInsn
      BY <2>4, <2>6, <2>7
    <3>. QED BY <1>2, <3>1, <3>2, InsnRenders
  <2>. HIDE DEF n
  <2>9. Rendered(ir_instructions', src, n + 1)
    BY <2>5, <2>6, <2>7, <2>8, RenderedNext
  <2>10. lidx' \in 1 .. Len(src) + 1 /\ lidx' - 1 = n + 1
    BY <2>2, <2>4, <2>5, <2>7
  <2>11. /\ lidx' \in 1 .. Len(cfg[blk].instructions) + 1
         /\ Rendered(ir_instructions', cfg[blk].instructions, lidx' - 1)
    BY <2>9, <2>10 DEF src
  <2>. QED BY <2>1, <2>11 DEF RenderingInv
<1>3. CASE L!EndBlock
  <2>. DEFINE irb == [ start_addr |-> cfg[blk].start_addr, instructions |-> ir_instructions ]
  <2>1. /\ lpc = "lift" /\ lpc' = "block" /\ ir_blocks' = Append(ir_blocks, irb) /\ blk' = blk + 1
        /\ cfg' = cfg /\ lidx > Len(cfg[blk].instructions)
    BY <1>3 DEF L!EndBlock
  <2>2. irb.start_addr = cfg[blk].start_addr /\ irb.instructions = ir_instructions
    OBVIOUS
  <2>. HIDE DEF irb
  <2>3. IsVec(ir_blocks) /\ Len(ir_blocks) = blk - 1 /\ blk \in Nat /\ blk <= Len(cfg)
    BY <2>1 DEF LiftingInv, IrOfGraph
  <2>4. PICK n \in Nat :
          /\ n = Len(ir_blocks) /\ DOMAIN ir_blocks = 1 .. n /\ DOMAIN ir_blocks' = 1 .. n + 1
          /\ \A b \in 1 .. n : ir_blocks'[b] = ir_blocks[b]
          /\ ir_blocks'[n + 1] = irb
    BY <2>1, <2>3, AppendShape
  <2>5. n + 1 = blk /\ blk \in DOMAIN cfg
    BY <2>3, <2>4, BlockOfGraph
  <2>6. Rendered(ir_instructions, cfg[blk].instructions, Len(cfg[blk].instructions))
    <3>1. Len(cfg[blk].instructions) \in Nat
      BY <2>5, BlockOfGraph
    <3>2. /\ lidx \in 1 .. Len(cfg[blk].instructions) + 1
          /\ Rendered(ir_instructions, cfg[blk].instructions, lidx - 1)
      BY <2>1 DEF RenderingInv
    <3>3. lidx - 1 = Len(cfg[blk].instructions)
      BY <2>1, <3>1, <3>2
    <3>. QED BY <3>2, <3>3
  <2>7. RendersBlock(irb, cfg[blk])
    BY <2>2, <2>6 DEF RendersBlock
  <2>8. ASSUME NEW b \in DOMAIN ir_blocks'
        PROVE  RendersBlock(ir_blocks'[b], cfg[b])
    <3>1. b \in 1 .. n \/ b = n + 1
      BY <2>4
    <3>2. CASE b \in 1 .. n
      BY <2>4, <3>2 DEF RenderingInv
    <3>3. CASE b = n + 1
      BY <2>4, <2>5, <2>7, <3>3
    <3>. QED BY <3>1, <3>2, <3>3
  <2>. QED BY <2>1, <2>8 DEF RenderingInv
<1>4. CASE L!Finish
  <2>1. /\ lpc = "block" /\ lpc' = "done" /\ cfg' = cfg /\ ir_blocks' = ir_blocks /\ blk > Len(cfg)
    BY <1>4 DEF L!Finish
  <2>2. Len(ir_blocks) = blk - 1 /\ blk \in Nat /\ blk - 1 <= Len(cfg)
    BY DEF LiftingInv, IrOfGraph
  <2>3. Len(ir_blocks) = Len(cfg)
    BY <2>1, <2>2, BlockOfGraph
  <2>. QED BY <2>1, <2>3 DEF RenderingInv
<1>. QED BY <1>1, <1>2, <1>3, <1>4 DEF L!Next, L!Terminated

LEMMA IrFrame ==
  ASSUME IrInv, UNCHANGED << lvars, ir_functions >>,
         UNCHANGED << functions, cfgs >> \/ (ir_functions = << >> /\ lpc = "idle")
  PROVE  IrInv'
<1>1. /\ cfg' = cfg /\ lpc' = lpc /\ blk' = blk /\ ir_instructions' = ir_instructions /\ lidx' = lidx
      /\ ir_blocks' = ir_blocks /\ ir_functions' = ir_functions
  BY DEF lvars
<1>2. CASE ir_functions = << >> /\ lpc = "idle"
  BY <1>1, <1>2 DEF IrInv, RenderedInv
<1>3. CASE UNCHANGED << functions, cfgs >>
  <2>1. RenderingInv => RenderingInv'
    BY <1>1 DEF RenderingInv
  <2>2. RenderedInv'
    BY <1>1, <1>3 DEF IrInv, RenderedInv
  <2>. QED BY <1>1, <1>3, <2>1, <2>2 DEF IrInv
<1>. QED BY <1>2, <1>3

\* The loop over the graphs.
LEMMA IrSteps ==
  ASSUME IInv, BuildInv, LiftInv, IrInv, CallLiftFunction \/ RunLiftFunction \/ LiftFunctionReturns
  PROVE  IrInv'
<1>1. CASE CallLiftFunction
  <2>1. /\ cfg' = cfgs[Len(ir_functions) + 1] /\ Len(ir_functions) < Len(cfgs)
        /\ lpc' = "block" /\ blk' = 1 /\ ir_instructions' = << >> /\ ir_blocks' = << >>
        /\ ir_functions' = ir_functions /\ functions' = functions /\ cfgs' = cfgs
    BY <1>1 DEF CallLiftFunction, mvars, fvars
  <2>2. Len(ir_functions) + 1 \in DOMAIN cfgs
    <3>1. PICK S : cfgs \in Seq(S)
      BY DEF IInv, VecInv, IsVec
    <3>2. Len(cfgs) \in Nat /\ DOMAIN cfgs = 1 .. Len(cfgs) /\ Len(ir_functions) \in Nat
      BY <3>1, LenProperties, VecLen DEF IInv, VecInv
    <3>. QED BY <2>1, <3>2
  <2>3. RenderingInv'
    BY <2>1 DEF RenderingInv
  <2>. QED BY <2>1, <2>2, <2>3 DEF IrInv, RenderedInv
<1>2. CASE RunLiftFunction
  <2>1. /\ lpc \notin { "idle", "done" } /\ L!Next
        /\ ir_functions' = ir_functions /\ functions' = functions /\ cfgs' = cfgs
    BY <1>2 DEF RunLiftFunction, mvars, fvars
  <2>2. RenderingInv' /\ cfg' = cfg
    BY <2>1, LifterStep, RenderingStep DEF LiftInv, IrInv
  <2>. QED BY <2>1, <2>2 DEF IrInv, RenderedInv
<1>3. CASE LiftFunctionReturns
  <2>. DEFINE new == FunctionLifted(Len(ir_functions) + 1)
  <2>1. /\ lpc = "done" /\ lpc' = "idle" /\ ir_functions' = Append(ir_functions, new)
        /\ functions' = functions /\ cfgs' = cfgs
    BY <1>3 DEF LiftFunctionReturns, fvars
  <2>2. new.name = functions[Len(ir_functions) + 1].name /\ new.blocks = ir_blocks
    BY DEF FunctionLifted
  <2>. HIDE DEF new
  <2>3. RendersGraph(ir_blocks, cfgs[Len(ir_functions) + 1])
    BY <2>1 DEF IrInv, RenderingInv, RendersGraph
  <2>4. PICK n \in Nat :
          /\ n = Len(ir_functions) /\ DOMAIN ir_functions = 1 .. n
          /\ DOMAIN ir_functions' = 1 .. n + 1
          /\ \A k \in 1 .. n : ir_functions'[k] = ir_functions[k]
          /\ ir_functions'[n + 1] = new
    BY <2>1, AppendShape DEF IInv, VecInv
  <2>5. ASSUME NEW k \in DOMAIN ir_functions'
        PROVE  /\ ir_functions'[k].name = functions'[k].name
               /\ RendersGraph(ir_functions'[k].blocks, cfgs'[k])
    <3>1. k \in 1 .. n \/ k = n + 1
      BY <2>4
    <3>2. CASE k \in 1 .. n
      BY <2>1, <2>4, <3>2 DEF IrInv, RenderedInv
    <3>3. CASE k = n + 1
      BY <2>1, <2>2, <2>3, <2>4, <3>3
    <3>. QED BY <3>1, <3>2, <3>3
  <2>. QED BY <2>1, <2>5 DEF IrInv, RenderedInv
<1>. QED BY <1>1, <1>2, <1>3
=============================================================================
