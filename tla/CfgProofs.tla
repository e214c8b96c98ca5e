----------------------------- MODULE CfgProofs ------------------------------
(***************************************************************************)
(* The graph that build_cfg returns is right for every function.  The      *)
(* inductive invariant has one part for each pass of the code: what the    *)
(* scan has found, how the leaders are numbered, how the instructions are  *)
(* dealt out, which blocks are classified.                                 *)
(***************************************************************************)
EXTENDS Cfg, TLAPS, SequenceTheorems

\* The instructions that the current pass, or an earlier one, has scanned.
Scanned(i) == pc = "scan" => i < idx

\* Number of instructions dealt to blocks so far.
Dealt == IF pc = "deal" THEN idx - 1 ELSE Len(insns)

\* Number of blocks classified so far.
Classified == IF pc = "classify" THEN idx ELSE Len(leader_vec)

BoundsInv ==
  /\ func \in Funcs
  /\ pc \in { "start", "scan", "number", "deal", "classify", "done" }
  /\ idx \in Nat
  /\ pc \in { "scan", "deal" } => idx \in 1 .. Len(insns) + 1
  /\ pc \in { "scan", "number", "deal", "classify" } => insns # << >>
  /\ pc = "start" => idx = 1
  /\ pc = "classify" => idx \in 0 .. Len(leader_vec)

ScanInv ==
  /\ leaders \subseteq valid_addrs
  /\ pc = "start" => leaders = {}
  /\ pc # "start" /\ insns # << >> => insns[1].addr \in leaders
  /\ pc # "start" => \A i \in DOMAIN insns :
       Scanned(i) => LeaderAfter(i) \subseteq leaders /\ LeaderTarget(i) \subseteq leaders
  /\ \A a \in leaders :
       a = insns[1].addr \/ \E i \in DOMAIN insns : a \in LeaderAfter(i) \cup LeaderTarget(i)

NumberInv ==
  /\ leader_vec \in Seq(leaders)
  /\ addr_to_block \in [ { leader_vec[k] : k \in DOMAIN leader_vec } -> BlockIds ]
  /\ \A k \in DOMAIN leader_vec : addr_to_block[leader_vec[k]] = k - 1
  /\ \A j, k \in DOMAIN leader_vec : j < k => leader_vec[j] < leader_vec[k]
  /\ pc \in { "start", "scan" } => leader_vec = << >>
  /\ pc = "number" =>
       \A a \in DOMAIN addr_to_block, b \in leaders \ DOMAIN addr_to_block : a < b
  /\ pc \in { "deal", "classify", "done" } => leaders = DOMAIN addr_to_block

DealInv ==
  /\ pc \in { "start", "scan", "number" } => block_insns = EmptyMap
  /\ pc \in { "deal", "classify", "done" } =>
    /\ block_insns \in [ BlockIds -> Seq(DOMAIN insns) ]
    /\ \A b \in BlockIds : \A k \in DOMAIN block_insns[b] : block_insns[b][k] <= Dealt
    /\ \A b \in BlockIds : \A k \in DOMAIN block_insns[b] :
         k > 1 => /\ block_insns[b][k] = block_insns[b][k - 1] + 1
                  /\ insns[block_insns[b][k]].addr \notin leaders
    /\ \A b \in BlockIds :
         block_insns[b] # << >> => insns[FirstInsn(b)].addr = leader_vec[b + 1]
    /\ \A b \in BlockIds : \A j \in DOMAIN insns :
         insns[j].addr = leader_vec[b + 1] /\ j <= Dealt => block_insns[b] # << >>
    /\ \A b \in BlockIds : block_insns[b] # << >> => Dealt > 0 /\ b <= current_block
    /\ Dealt > 0 => /\ current_block \in BlockIds
                    /\ block_insns[current_block] # << >>
                    /\ LastInsn(current_block) = Dealt
                    /\ block_insns[0] # << >>
                    /\ FirstInsn(0) = 1
                    /\ \A b \in BlockIds : b < current_block =>
                         block_insns[b] # << >> /\ FirstInsn(b + 1) = LastInsn(b) + 1

Succs(b) == Classify(insns[LastInsn(b)], b).succs

ClassifyInv ==
  /\ pc \notin { "classify", "done" } => edges = << >> /\ blocks = EmptyMap
  /\ pc \in { "classify", "done" } =>
       /\ blocks = [ b \in 0 .. Classified - 1 |-> BasicBlock(b) ]
       /\ edges \in Seq(BlockIds \X BlockIds)
       /\ \A e : e \in EdgeSet <=>
            \E b \in 0 .. Classified - 1 : \E k \in DOMAIN Succs(b) : e = << b, Succs(b)[k] >>

EntryInv ==
  /\ pc # "done" => entry_block = 0
  /\ pc = "done" => entry_block = IF func.start_addr \in DOMAIN addr_to_block
                                    THEN addr_to_block[func.start_addr] ELSE 0

IInv == BoundsInv /\ ScanInv /\ NumberInv /\ DealInv /\ ClassifyInv /\ EntryInv

-----------------------------------------------------------------------------
(* Facts about the argument of build_cfg and its sequences.                *)

\* The instructions of a function are a sequence with ascending addresses.
LEMMA InsnFacts ==
  ASSUME func \in Funcs
  PROVE  /\ insns \in Seq(DisassembledInsn)
         /\ Len(insns) \in Nat
         /\ DOMAIN insns = 1 .. Len(insns)
         /\ insns = << >> <=> Len(insns) = 0
         /\ \A i \in DOMAIN insns : insns[i].addr \in Nat /\ func.start_addr <= insns[i].addr
         /\ \A i, j \in DOMAIN insns : i < j => insns[i].addr < insns[j].addr
         /\ func.start_addr \in Nat
<1>1. /\ insns \in Seq(DisassembledInsn)
      /\ \A i \in DOMAIN insns : func.start_addr <= insns[i].addr
      /\ \A i, j \in DOMAIN insns : i < j => insns[i].addr < insns[j].addr
      /\ func.start_addr \in Nat
  BY FuncsAssumption DEF insns, DisassembledFunction
<1>2. /\ Len(insns) \in Nat
      /\ DOMAIN insns = 1 .. Len(insns)
      /\ insns = << >> <=> Len(insns) = 0
  BY <1>1, EmptySeq, LenProperties
<1>3. \A i \in DOMAIN insns : insns[i] \in DisassembledInsn
  BY <1>1, <1>2, ElementOfSeq
<1>4. \A i \in DOMAIN insns : insns[i].addr \in Nat
  BY <1>3 DEF DisassembledInsn
<1>. QED BY <1>1, <1>2, <1>4

\* A leader is the address of an instruction, hence a natural number.
LEMMA LeadersAreNat ==
  ASSUME func \in Funcs, leaders \subseteq valid_addrs
  PROVE  leaders \subseteq Nat
BY InsnFacts DEF valid_addrs

\* Steps that leave the argument alone leave what is derived from it alone.
LEMMA FuncFrame ==
  ASSUME func' = func
  PROVE  insns' = insns /\ valid_addrs' = valid_addrs
BY DEF insns, valid_addrs

-----------------------------------------------------------------------------
(* The passes preserve the invariant.                                      *)

\* Before the first pass there are no leaders, blocks or edges.
LEMMA InitIInv == Init => IInv
<1> SUFFICES ASSUME Init PROVE IInv
  OBVIOUS
<1> USE DEF Init
<1>1. BoundsInv
  BY DEF BoundsInv
<1>2. ScanInv
  BY DEF ScanInv
<1>3. NumberInv
  BY DEF NumberInv, EmptyMap, BlockIds
<1>4. DealInv /\ ClassifyInv /\ EntryInv
  BY DEF DealInv, ClassifyInv, EntryInv
<1>. QED BY <1>1, <1>2, <1>3, <1>4 DEF IInv

\* An empty function goes straight to an empty graph.
LEMMA EmptyFunctionIInv == IInv /\ EmptyFunction => IInv'
<1> SUFFICES ASSUME IInv, EmptyFunction PROVE IInv'
  OBVIOUS
<1> USE DEF EmptyFunction
<1>0. insns' = insns /\ valid_addrs' = valid_addrs
  BY FuncFrame
<1>1. BoundsInv'
  BY <1>0 DEF IInv, BoundsInv
<1>d. DOMAIN insns = {}
  BY InsnFacts DEF IInv, BoundsInv
<1>2. ScanInv'
  BY <1>0, <1>d DEF IInv, ScanInv
<1>3. NumberInv'
  BY DEF IInv, NumberInv, ScanInv, BlockIds
<1>4. /\ BlockIds = {} /\ BlockIds' = {} /\ leader_vec' = << >>
      /\ Len(leader_vec') = 0 /\ Len(insns) = 0
  BY InsnFacts DEF IInv, NumberInv, BoundsInv, BlockIds
<1>5. DealInv'
  <2>1. block_insns' \in [ {} -> Seq(DOMAIN insns) ]
    BY DEF IInv, DealInv, EmptyMap
  <2>2. Dealt' = 0
    BY <1>0, <1>4 DEF Dealt
  <2>. QED BY <1>0, <1>4, <2>1, <2>2 DEF DealInv
<1>6. ClassifyInv'
  <2>1. Classified' = 0 /\ edges' = << >> /\ blocks' = EmptyMap
    BY <1>4 DEF IInv, ClassifyInv, Classified
  <2>2. 0 .. Classified' - 1 = {}
    BY <2>1
  <2>3. EdgeSet' = {}
    BY <2>1 DEF EdgeSet
  <2>4. blocks' = [ b \in 0 .. Classified' - 1 |-> BasicBlock(b)' ]
    BY <2>1, <2>2 DEF EmptyMap
  <2>5. edges' \in Seq(BlockIds' \X BlockIds')
    BY <2>1
  <2>. QED BY <2>2, <2>3, <2>4, <2>5 DEF ClassifyInv
<1>7. EntryInv'
  BY DEF IInv, EntryInv, NumberInv
<1>. QED BY <1>1, <1>2, <1>3, <1>5, <1>6, <1>7 DEF IInv

\* The steps before the deal leave the later parts of the invariant alone.
LEMMA EarlyFrame ==
  ASSUME IInv, pc \in { "start", "scan", "number" }, pc' \in { "scan", "number" },
         UNCHANGED << func, block_insns, blocks, edges, entry_block >>
  PROVE  DealInv' /\ ClassifyInv' /\ EntryInv'
BY DEF IInv, DealInv, ClassifyInv, EntryInv

\* The first instruction becomes the first leader.
LEMMA SeedLeadersIInv == IInv /\ SeedLeaders => IInv'
<1> SUFFICES ASSUME IInv, SeedLeaders PROVE IInv'
  OBVIOUS
<1> USE DEF SeedLeaders
<1>0. insns' = insns /\ valid_addrs' = valid_addrs
  BY FuncFrame
<1>a. 1 \in DOMAIN insns /\ \A i \in DOMAIN insns : i >= 1
  BY InsnFacts DEF IInv, BoundsInv
<1>1. BoundsInv'
  BY <1>0, InsnFacts DEF IInv, BoundsInv
<1>2. ScanInv'
  <2>1. \A i \in DOMAIN insns : ~ (i < idx)
    BY <1>a, InsnFacts DEF IInv, BoundsInv
  <2>. QED BY <1>0, <1>a, <2>1 DEF IInv, ScanInv, valid_addrs, Scanned
<1>3. NumberInv'
  BY DEF IInv, NumberInv, BlockIds
<1>4. DealInv' /\ ClassifyInv' /\ EntryInv'
  BY EarlyFrame
<1>. QED BY <1>1, <1>2, <1>3, <1>4 DEF IInv

\* Scanning an instruction adds all the leaders it calls for, all of them addresses
\* of instructions.
LEMMA ScanInsnIInv == IInv /\ ScanInsn => IInv'
<1> SUFFICES ASSUME IInv, ScanInsn PROVE IInv'
  OBVIOUS
<1> USE DEF ScanInsn
<1>0. insns' = insns /\ valid_addrs' = valid_addrs
  BY FuncFrame
<1>a. idx \in DOMAIN insns
  BY InsnFacts DEF IInv, BoundsInv
<1>1. BoundsInv'
  BY <1>0, InsnFacts DEF IInv, BoundsInv
<1>2. ScanInv'
  <2>1. LeaderAfter(idx) \subseteq valid_addrs /\ LeaderTarget(idx) \subseteq valid_addrs
    BY DEF LeaderAfter, LeaderTarget, valid_addrs
  <2>2. leaders' \subseteq valid_addrs'
    BY <1>0, <2>1 DEF IInv, ScanInv
  <2>3. ASSUME NEW i \in DOMAIN insns', Scanned(i)'
        PROVE  LeaderAfter(i)' \subseteq leaders' /\ LeaderTarget(i)' \subseteq leaders'
    <3>1. LeaderAfter(i)' = LeaderAfter(i) /\ LeaderTarget(i)' = LeaderTarget(i)
      BY <1>0 DEF LeaderAfter, LeaderTarget
    <3>2. i \in DOMAIN insns /\ (i = idx \/ i < idx)
      BY <1>0, <2>3, InsnFacts DEF IInv, BoundsInv, Scanned
    <3>3. CASE i = idx
      BY <3>1, <3>3
    <3>4. CASE i < idx
      BY <3>1, <3>2, <3>4 DEF IInv, ScanInv, Scanned
    <3>. QED BY <3>2, <3>3, <3>4
  <2>4. insns' # << >> => insns'[1].addr \in leaders'
    BY <1>0 DEF IInv, ScanInv
  <2>5. \A a \in leaders' : a = insns'[1].addr \/
          \E i \in DOMAIN insns' : a \in LeaderAfter(i)' \cup LeaderTarget(i)'
    <3>1. \A i \in DOMAIN insns : LeaderAfter(i)' = LeaderAfter(i) /\ LeaderTarget(i)' = LeaderTarget(i)
      BY <1>0 DEF LeaderAfter, LeaderTarget
    <3>. QED BY <1>0, <1>a, <3>1 DEF IInv, ScanInv
  <2>. QED BY <2>2, <2>3, <2>4, <2>5 DEF ScanInv
<1>3. NumberInv'
  BY DEF IInv, NumberInv, BlockIds
<1>4. DealInv' /\ ClassifyInv' /\ EntryInv'
  BY EarlyFrame
<1>. QED BY <1>1, <1>2, <1>3, <1>4 DEF IInv

\* After the scan every instruction has contributed its leaders.
LEMMA EndScanIInv == IInv /\ EndScan => IInv'
<1> SUFFICES ASSUME IInv, EndScan PROVE IInv'
  OBVIOUS
<1> USE DEF EndScan
<1>0. insns' = insns /\ valid_addrs' = valid_addrs
  BY FuncFrame
<1>1. BoundsInv'
  BY <1>0 DEF IInv, BoundsInv
<1>2. ScanInv'
  <2>1. \A i \in DOMAIN insns : Scanned(i)
    BY InsnFacts DEF IInv, BoundsInv, Scanned
  <2>2. ASSUME NEW i \in DOMAIN insns'
        PROVE  LeaderAfter(i)' \subseteq leaders' /\ LeaderTarget(i)' \subseteq leaders'
    BY <1>0, <2>1 DEF IInv, ScanInv, LeaderAfter, LeaderTarget
  <2>3. \A a \in leaders' : a = insns'[1].addr \/
          \E i \in DOMAIN insns' : a \in LeaderAfter(i)' \cup LeaderTarget(i)'
    BY <1>0 DEF IInv, ScanInv, LeaderAfter, LeaderTarget
  <2>. QED BY <1>0, <2>2, <2>3 DEF IInv, ScanInv
<1>3. NumberInv'
  <2>1. DOMAIN addr_to_block = {}
    <3>1. leader_vec = << >> /\ DOMAIN addr_to_block = { leader_vec[k] : k \in DOMAIN leader_vec }
      BY DEF IInv, NumberInv
    <3>. QED BY <3>1
  <2>. QED BY <2>1 DEF IInv, NumberInv, BlockIds
<1>4. DealInv' /\ ClassifyInv' /\ EntryInv'
  BY EarlyFrame
<1>. QED BY <1>1, <1>2, <1>3, <1>4 DEF IInv

\* Numbering the least leader left keeps ids in address order.
LEMMA NumberLeaderIInv == IInv /\ NumberLeader => IInv'
<1> SUFFICES ASSUME IInv, NumberLeader PROVE IInv'
  OBVIOUS
<1>f. /\ pc = "number"
      /\ UNCHANGED << func, pc, idx, leaders, current_block, block_insns, blocks,
                      edges, entry_block >>
  BY DEF NumberLeader
<1>0. insns' = insns /\ valid_addrs' = valid_addrs
  BY <1>f, FuncFrame
<1>1. BoundsInv'
  BY <1>f, <1>0 DEF IInv, BoundsInv
<1>2. ScanInv'
  BY <1>f, <1>0 DEF IInv, ScanInv, Scanned, LeaderAfter, LeaderTarget
<1>3. NumberInv'
  <2>1. PICK a \in leaders \ DOMAIN addr_to_block :
          /\ \A b \in leaders \ DOMAIN addr_to_block : a <= b
          /\ leader_vec' = Append(leader_vec, a)
          /\ addr_to_block' = [ x \in DOMAIN addr_to_block \cup {a} |->
                                  IF x = a THEN Len(leader_vec) ELSE addr_to_block[x] ]
    BY DEF NumberLeader
  <2>n. leaders \subseteq Nat
    BY LeadersAreNat DEF IInv, BoundsInv, ScanInv
  <2>s. leader_vec \in Seq(leaders) /\ Len(leader_vec) \in Nat
        /\ DOMAIN leader_vec = 1 .. Len(leader_vec)
    BY DEF IInv, NumberInv
  <2>2. /\ leader_vec' \in Seq(leaders')
        /\ Len(leader_vec') = Len(leader_vec) + 1
        /\ DOMAIN leader_vec' = 1 .. Len(leader_vec) + 1
        /\ \A k \in 1 .. Len(leader_vec) : leader_vec'[k] = leader_vec[k]
        /\ leader_vec'[Len(leader_vec) + 1] = a
    BY <1>f, <2>1, <2>s, AppendProperties
  <2>3. DOMAIN addr_to_block = { leader_vec[k] : k \in DOMAIN leader_vec }
    BY DEF IInv, NumberInv
  <2>4. DOMAIN addr_to_block' = { leader_vec'[k] : k \in DOMAIN leader_vec' }
    BY <2>1, <2>2, <2>3, <2>s
  <2>5. BlockIds' = 0 .. Len(leader_vec) /\ BlockIds = 0 .. Len(leader_vec) - 1
    BY <2>2 DEF BlockIds
  <2>6. addr_to_block' \in [ { leader_vec'[k] : k \in DOMAIN leader_vec' } -> BlockIds' ]
    <3>1. \A x \in DOMAIN addr_to_block : addr_to_block[x] \in 0 .. Len(leader_vec) - 1
      BY <2>5 DEF IInv, NumberInv
    <3>. QED BY <2>1, <2>4, <2>5, <2>s, <3>1
  <2>7. \A k \in DOMAIN leader_vec' : addr_to_block'[leader_vec'[k]] = k - 1
    <3> SUFFICES ASSUME NEW k \in DOMAIN leader_vec'
                 PROVE  addr_to_block'[leader_vec'[k]] = k - 1
      OBVIOUS
    <3>1. CASE k = Len(leader_vec) + 1
      BY <2>1, <2>2, <2>s, <3>1
    <3>2. CASE k \in 1 .. Len(leader_vec)
      <4>1. leader_vec[k] \in DOMAIN addr_to_block /\ leader_vec[k] # a
        BY <2>1, <2>3, <2>s, <3>2
      <4>2. addr_to_block[leader_vec[k]] = k - 1
        BY <2>s, <3>2 DEF IInv, NumberInv
      <4>. QED BY <2>1, <2>2, <3>2, <4>1, <4>2
    <3>. QED BY <2>2, <2>s, <3>1, <3>2
  <2>8. \A x \in DOMAIN addr_to_block : x < a /\ x \in Nat
    <3>1. \A x \in DOMAIN addr_to_block : x < a
      BY <1>f, <2>1 DEF IInv, NumberInv
    <3>2. \A k \in DOMAIN leader_vec : leader_vec[k] \in leaders
      BY <2>s, ElementOfSeq
    <3>. QED BY <2>3, <2>n, <3>1, <3>2
  <2>9. \A j, k \in DOMAIN leader_vec' : j < k => leader_vec'[j] < leader_vec'[k]
    <3> SUFFICES ASSUME NEW j \in DOMAIN leader_vec', NEW k \in DOMAIN leader_vec', j < k
                 PROVE  leader_vec'[j] < leader_vec'[k]
      OBVIOUS
    <3>1. j \in 1 .. Len(leader_vec)
      BY <2>2, <2>s
    <3>2. CASE k = Len(leader_vec) + 1
      BY <2>2, <2>3, <2>8, <2>s, <3>1, <3>2
    <3>3. CASE k \in 1 .. Len(leader_vec)
      BY <2>2, <2>s, <3>1, <3>3 DEF IInv, NumberInv
    <3>. QED BY <2>2, <2>s, <3>2, <3>3
  <2>10. \A x \in DOMAIN addr_to_block', b \in leaders' \ DOMAIN addr_to_block' : x < b
    <3> SUFFICES ASSUME NEW x \in DOMAIN addr_to_block',
                        NEW b \in leaders' \ DOMAIN addr_to_block'
                 PROVE  x < b
      OBVIOUS
    <3>1. /\ DOMAIN addr_to_block' = DOMAIN addr_to_block \cup {a}
          /\ b \in leaders \ DOMAIN addr_to_block /\ b # a /\ b \in Nat /\ a \in Nat
      BY <1>f, <2>1, <2>n
    <3>2. CASE x = a
      BY <2>1, <3>1, <3>2
    <3>3. CASE x \in DOMAIN addr_to_block
      BY <1>f, <3>1, <3>3 DEF IInv, NumberInv
    <3>. QED BY <3>1, <3>2, <3>3
  <2>. QED BY <1>f, <2>2, <2>6, <2>7, <2>9, <2>10 DEF NumberInv
<1>4. DealInv' /\ ClassifyInv' /\ EntryInv'
  BY <1>f, EarlyFrame
<1>. QED BY <1>1, <1>2, <1>3, <1>4 DEF IInv

\* The deal begins with every leader numbered and every block empty.
LEMMA EndNumberIInv == IInv /\ EndNumber => IInv'
<1> SUFFICES ASSUME IInv, EndNumber PROVE IInv'
  OBVIOUS
<1> USE DEF EndNumber
<1>0. insns' = insns /\ valid_addrs' = valid_addrs /\ BlockIds' = BlockIds
  BY FuncFrame DEF BlockIds
<1>1. BoundsInv'
  BY <1>0, InsnFacts DEF IInv, BoundsInv
<1>2. ScanInv'
  BY <1>0 DEF IInv, ScanInv, Scanned, LeaderAfter, LeaderTarget
<1>3. NumberInv'
  <2>1. \A k \in DOMAIN leader_vec : leader_vec[k] \in leaders
    BY DEF IInv, NumberInv
  <2>2. DOMAIN addr_to_block = { leader_vec[k] : k \in DOMAIN leader_vec }
    BY DEF IInv, NumberInv
  <2>3. leaders = DOMAIN addr_to_block
    BY <2>1, <2>2
  <2>. QED BY <1>0, <2>3 DEF IInv, NumberInv
<1>4. DealInv'
  <2>1. Dealt' = 0
    BY DEF Dealt
  <2>2. block_insns' \in [ BlockIds -> Seq(DOMAIN insns) ]
    OBVIOUS
  <2>3. \A b \in BlockIds : block_insns'[b] = << >>
    OBVIOUS
  <2>4. ASSUME NEW b \in BlockIds, NEW j \in DOMAIN insns PROVE ~ (j <= Dealt')
    BY <2>1, InsnFacts DEF IInv, BoundsInv
  <2>. QED BY <1>0, <2>1, <2>2, <2>3, <2>4 DEF DealInv
<1>5. ClassifyInv' /\ EntryInv'
  BY DEF IInv, ClassifyInv, EntryInv
<1>. QED BY <1>1, <1>2, <1>3, <1>4, <1>5 DEF IInv

\* The numbering is the address order, and every leader is an instruction.
LEMMA LeaderFacts ==
  ASSUME IInv, pc \in { "deal", "classify", "done" }
  PROVE  /\ Len(leader_vec) \in Nat
         /\ DOMAIN leader_vec = 1 .. Len(leader_vec)
         /\ \A a \in leaders : /\ a \in DOMAIN addr_to_block
                              /\ addr_to_block[a] \in BlockIds
                              /\ leader_vec[addr_to_block[a] + 1] = a
         /\ \A b \in BlockIds : /\ leader_vec[b + 1] \in leaders
                               /\ leader_vec[b + 1] \in Nat
                               /\ addr_to_block[leader_vec[b + 1]] = b
                               /\ \E j \in DOMAIN insns : insns[j].addr = leader_vec[b + 1]
         /\ \A b, c \in BlockIds : b < c => leader_vec[b + 1] < leader_vec[c + 1]
<1>1. leader_vec \in Seq(leaders) /\ Len(leader_vec) \in Nat
      /\ DOMAIN leader_vec = 1 .. Len(leader_vec)
  BY DEF IInv, NumberInv
<1>2. leaders = { leader_vec[k] : k \in DOMAIN leader_vec } /\ leaders = DOMAIN addr_to_block
  BY DEF IInv, NumberInv
<1>3. \A k \in DOMAIN leader_vec : addr_to_block[leader_vec[k]] = k - 1
  BY DEF IInv, NumberInv
<1>4. \A b \in BlockIds : b \in Nat /\ b + 1 \in DOMAIN leader_vec /\ (b + 1) - 1 = b
  BY <1>1 DEF BlockIds
<1>5. \A k \in DOMAIN leader_vec : k - 1 \in BlockIds /\ (k - 1) + 1 = k
  BY <1>1 DEF BlockIds
<1>6. ASSUME NEW a \in leaders
      PROVE  /\ a \in DOMAIN addr_to_block
             /\ addr_to_block[a] \in BlockIds
             /\ leader_vec[addr_to_block[a] + 1] = a
  <2>1. PICK k \in DOMAIN leader_vec : leader_vec[k] = a
    BY <1>2
  <2>. QED BY <1>2, <1>3, <1>5, <2>1
<1>7. ASSUME NEW b \in BlockIds
      PROVE  /\ leader_vec[b + 1] \in leaders
             /\ leader_vec[b + 1] \in Nat
             /\ addr_to_block[leader_vec[b + 1]] = b
             /\ \E j \in DOMAIN insns : insns[j].addr = leader_vec[b + 1]
  <2>1. leader_vec[b + 1] \in leaders
    BY <1>2, <1>4
  <2>2. leaders \subseteq valid_addrs /\ leaders \subseteq Nat
    BY LeadersAreNat DEF IInv, BoundsInv, ScanInv
  <2>. QED BY <1>3, <1>4, <2>1, <2>2 DEF valid_addrs
<1>8. ASSUME NEW b \in BlockIds, NEW c \in BlockIds, b < c
      PROVE  leader_vec[b + 1] < leader_vec[c + 1]
  BY <1>4, <1>8 DEF IInv, NumberInv
<1>. QED BY <1>1, <1>6, <1>7, <1>8

\* Where the next instruction goes: a leader to a block that is still empty and
\* follows the current one, any other instruction to the current block.
LEMMA DealTarget ==
  ASSUME IInv, pc = "deal", idx <= Len(insns)
  PROVE  /\ idx \in DOMAIN insns /\ idx >= 1
         /\ Dealt = idx - 1
         /\ insns[idx].addr \in leaders =>
              LET n == addr_to_block[insns[idx].addr]
              IN  /\ n \in BlockIds
                  /\ leader_vec[n + 1] = insns[idx].addr
                  /\ block_insns[n] = << >>
                  /\ idx = 1 => n = 0
                  /\ idx > 1 => n = current_block + 1
         /\ insns[idx].addr \notin leaders => idx > 1
<1>1. idx \in DOMAIN insns /\ idx >= 1 /\ idx \in Nat
  BY InsnFacts DEF IInv, BoundsInv
<1>2. Dealt = idx - 1
  BY DEF Dealt
<1>3. insns[idx].addr \notin leaders => idx > 1
  BY <1>1 DEF IInv, ScanInv, BoundsInv
<1>4. ASSUME insns[idx].addr \in leaders
      PROVE  LET n == addr_to_block[insns[idx].addr]
             IN  /\ n \in BlockIds
                 /\ leader_vec[n + 1] = insns[idx].addr
                 /\ block_insns[n] = << >>
                 /\ idx = 1 => n = 0
                 /\ idx > 1 => n = current_block + 1
  <2> DEFINE A == insns[idx].addr
             n == addr_to_block[A]
  <2>1. n \in BlockIds /\ leader_vec[n + 1] = A
    BY <1>4, LeaderFacts
  <2>a. \A j \in DOMAIN insns : /\ j \in Nat /\ insns[j].addr \in Nat
                                /\ j < idx => insns[j].addr < A
                                /\ insns[j].addr < A => j < idx
    BY <1>1, InsnFacts DEF IInv, BoundsInv
  <2>b. BlockIds = 0 .. Len(leader_vec) - 1 /\ Len(leader_vec) \in Nat
    BY LeaderFacts DEF BlockIds
  <2>c. ASSUME NEW b \in BlockIds, block_insns[b] # << >>
        PROVE  FirstInsn(b) \in DOMAIN insns /\ FirstInsn(b) < idx /\ leader_vec[b + 1] < A
    <3>1. 1 \in DOMAIN block_insns[b] /\ FirstInsn(b) \in DOMAIN insns
      <4>1. block_insns[b] \in Seq(DOMAIN insns)
        BY DEF IInv, DealInv
      <4>. QED BY <4>1, <2>c, EmptySeq, LenProperties, ElementOfSeq DEF FirstInsn
    <3>2. FirstInsn(b) <= Dealt
      BY <3>1 DEF IInv, DealInv, FirstInsn
    <3>3. insns[FirstInsn(b)].addr = leader_vec[b + 1]
      BY <2>c DEF IInv, DealInv
    <3>. QED BY <1>1, <1>2, <2>a, <3>1, <3>2, <3>3
  <2>2. block_insns[n] = << >>
    <3> SUFFICES ASSUME block_insns[n] # << >> PROVE FALSE
      OBVIOUS
    <3>1. leader_vec[n + 1] < A
      BY <2>1, <2>c
    <3>. QED BY <1>1, <2>1, <2>a, <3>1
  <2>3. ASSUME idx = 1 PROVE n = 0
    <3> SUFFICES ASSUME n # 0 PROVE FALSE
      OBVIOUS
    <3>1. 0 \in BlockIds /\ 0 < n
      BY <2>1, <2>b
    <3>2. leader_vec[0 + 1] < A
      BY <2>1, <3>1, LeaderFacts
    <3>3. PICK j \in DOMAIN insns : insns[j].addr = leader_vec[0 + 1]
      BY <3>1, LeaderFacts
    <3>4. j < 1 /\ j >= 1
      BY <2>3, <2>a, <3>2, <3>3, InsnFacts DEF IInv, BoundsInv
    <3>. QED BY <2>a, <3>4
  <2>4. ASSUME idx > 1 PROVE n = current_block + 1
    <3>1. current_block \in BlockIds /\ block_insns[current_block] # << >>
      BY <1>1, <1>2, <2>4 DEF IInv, DealInv
    <3>2. leader_vec[current_block + 1] < A /\ leader_vec[current_block + 1] \in Nat /\ A \in Nat
      BY <1>1, <2>a, <2>c, <3>1, LeaderFacts
    <3>3. current_block < n
      <4>1. n # current_block
        BY <2>1, <3>2
      <4>2. ~ (n < current_block)
        <5> SUFFICES ASSUME n < current_block PROVE FALSE
          OBVIOUS
        <5>1. leader_vec[n + 1] < leader_vec[current_block + 1]
          BY <2>1, <3>1, LeaderFacts
        <5>. QED BY <2>1, <3>2, <5>1
      <4>. QED BY <2>1, <2>b, <3>1, <4>1, <4>2
    <3>4. ~ (current_block + 1 < n)
      <4> SUFFICES ASSUME current_block + 1 < n PROVE FALSE
        OBVIOUS
      <4> DEFINE c == current_block + 1
      <4>1. c \in BlockIds /\ c < n
        BY <2>1, <2>b, <3>1
      <4>2. leader_vec[c + 1] < A
        BY <2>1, <4>1, LeaderFacts
      <4>3. PICK j \in DOMAIN insns : insns[j].addr = leader_vec[c + 1]
        BY <4>1, LeaderFacts
      <4>4. j <= Dealt
        BY <1>1, <1>2, <2>a, <4>2, <4>3
      <4>5. block_insns[c] # << >>
        BY <4>1, <4>3, <4>4 DEF IInv, DealInv
      <4>6. c <= current_block
        BY <4>1, <4>5 DEF IInv, DealInv
      <4>. QED BY <2>b, <3>1, <4>6
    <3>. QED BY <2>1, <2>b, <3>1, <3>3, <3>4
  <2>. QED BY <2>1, <2>2, <2>3, <2>4
<1>. QED BY <1>1, <1>2, <1>3, <1>4

\* Dealing one instruction keeps the blocks consecutive and non-overlapping.
LEMMA DealInsnIInv == IInv /\ DealInsn => IInv'
<1> SUFFICES ASSUME IInv, DealInsn PROVE IInv'
  OBVIOUS
<1> DEFINE n == current_block'
<1>f. /\ pc = "deal" /\ idx <= Len(insns) /\ idx' = idx + 1
      /\ UNCHANGED << func, pc, leaders, leader_vec, addr_to_block, blocks, edges, entry_block >>
  BY DEF DealInsn
<1>0. insns' = insns /\ valid_addrs' = valid_addrs /\ BlockIds' = BlockIds
  BY <1>f, FuncFrame DEF BlockIds
<1>1. BoundsInv'
  BY <1>f, <1>0, InsnFacts DEF IInv, BoundsInv
<1>2. ScanInv'
  BY <1>f, <1>0 DEF IInv, ScanInv, Scanned, LeaderAfter, LeaderTarget
<1>3. NumberInv'
  BY <1>f, <1>0 DEF IInv, NumberInv
<1>4. ClassifyInv' /\ EntryInv'
  BY <1>f DEF IInv, ClassifyInv, EntryInv
<1>5. idx \in DOMAIN insns /\ idx \in Nat /\ idx >= 1 /\ Dealt = idx - 1 /\ Dealt' = idx
  BY <1>f, DealTarget DEF Dealt, IInv, BoundsInv
<1>6. /\ n \in BlockIds
      /\ \/ /\ leader_vec[n + 1] = insns[idx].addr /\ block_insns[n] = << >>
            /\ idx = 1 => n = 0
            /\ idx > 1 => n = current_block + 1
         \/ /\ insns[idx].addr \notin leaders /\ idx > 1
            /\ n = current_block /\ block_insns[n] # << >>
            /\ LastInsn(n) = idx - 1
  <2>1. leaders = DOMAIN addr_to_block
    BY <1>f DEF IInv, NumberInv
  <2>2. CASE insns[idx].addr \in leaders
    <3>1. n = addr_to_block[insns[idx].addr]
      BY <2>1, <2>2 DEF DealInsn
    <3>. QED BY <1>f, <2>2, <3>1, DealTarget
  <2>3. CASE insns[idx].addr \notin leaders
    <3>1. n = current_block /\ idx > 1
      BY <1>f, <2>1, <2>3, DealTarget DEF DealInsn
    <3>2. current_block \in BlockIds /\ block_insns[current_block] # << >>
          /\ LastInsn(current_block) = Dealt
      BY <1>f, <1>5, <3>1 DEF IInv, DealInv
    <3>. QED BY <1>5, <2>3, <3>1, <3>2
  <2>. QED BY <2>2, <2>3
<1>7. /\ block_insns \in [ BlockIds -> Seq(DOMAIN insns) ]
      /\ block_insns' = [ block_insns EXCEPT ![n] = Append(@, idx) ]
  BY <1>f DEF IInv, DealInv, DealInsn
<1>8. /\ \A b \in BlockIds : /\ block_insns[b] \in Seq(DOMAIN insns)
                             /\ Len(block_insns[b]) \in Nat
                             /\ DOMAIN block_insns[b] = 1 .. Len(block_insns[b])
                             /\ block_insns[b] = << >> <=> Len(block_insns[b]) = 0
      /\ \A b \in BlockIds \ {n} : block_insns'[b] = block_insns[b]
      /\ block_insns'[n] = Append(block_insns[n], idx)
  BY <1>6, <1>7, EmptySeq, LenProperties
<1>9. /\ block_insns'[n] \in Seq(DOMAIN insns)
      /\ block_insns'[n] # << >>
      /\ Len(block_insns'[n]) = Len(block_insns[n]) + 1
      /\ DOMAIN block_insns'[n] = 1 .. Len(block_insns[n]) + 1
      /\ \A k \in 1 .. Len(block_insns[n]) : block_insns'[n][k] = block_insns[n][k]
      /\ block_insns'[n][Len(block_insns[n]) + 1] = idx
  BY <1>5, <1>6, <1>8, AppendProperties
<1>10. DealInv'
  <2>1. block_insns' \in [ BlockIds -> Seq(DOMAIN insns) ]
    BY <1>6, <1>7, <1>8, <1>9
  <2>2. ASSUME NEW b \in BlockIds, NEW k \in DOMAIN block_insns'[b]
        PROVE  block_insns'[b][k] <= idx
    <3>1. \A c \in BlockIds : \A l \in DOMAIN block_insns[c] :
            block_insns[c][l] <= idx - 1 /\ block_insns[c][l] \in Nat
      <4>1. \A c \in BlockIds : \A l \in DOMAIN block_insns[c] : block_insns[c][l] \in DOMAIN insns
        BY <1>8, ElementOfSeq
      <4>. QED BY <1>f, <1>5, <4>1, InsnFacts DEF IInv, DealInv, BoundsInv
    <3>2. CASE b # n
      BY <1>5, <1>8, <2>2, <3>1, <3>2
    <3>3. CASE b = n
      <4>1. k = Len(block_insns[n]) + 1 \/ k \in 1 .. Len(block_insns[n])
        BY <1>6, <1>8, <1>9, <2>2, <3>3
      <4>2. k \in 1 .. Len(block_insns[n]) => block_insns'[n][k] <= idx - 1 /\ block_insns'[n][k] \in Nat
        BY <1>6, <1>8, <1>9, <3>1
      <4>. QED BY <1>5, <1>9, <3>3, <4>1, <4>2
    <3>. QED BY <3>2, <3>3
  <2>3. ASSUME NEW b \in BlockIds, NEW k \in DOMAIN block_insns'[b], k > 1
        PROVE  /\ block_insns'[b][k] = block_insns'[b][k - 1] + 1
               /\ insns[block_insns'[b][k]].addr \notin leaders
    <3>1. \A c \in BlockIds : \A l \in DOMAIN block_insns[c] :
            l > 1 => /\ block_insns[c][l] = block_insns[c][l - 1] + 1
                     /\ insns[block_insns[c][l]].addr \notin leaders
      BY <1>f DEF IInv, DealInv
    <3>2. CASE b # n
      BY <1>8, <2>3, <3>1, <3>2
    <3>3. CASE b = n /\ k <= Len(block_insns[n])
      <4>1. k \in 1 .. Len(block_insns[n]) /\ k - 1 \in 1 .. Len(block_insns[n])
        BY <1>6, <1>8, <1>9, <2>3, <3>3
      <4>. QED BY <1>6, <1>8, <1>9, <2>3, <3>1, <3>3, <4>1
    <3>4. CASE b = n /\ k = Len(block_insns[n]) + 1
      <4>1. block_insns[n] # << >> /\ insns[idx].addr \notin leaders /\ LastInsn(n) = idx - 1
        BY <1>6, <1>8, <2>3, <3>4
      <4>2. k - 1 = Len(block_insns[n]) /\ k - 1 \in 1 .. Len(block_insns[n])
        BY <1>6, <1>8, <2>3, <3>4
      <4>3. block_insns'[n][k - 1] = idx - 1
        BY <1>9, <4>1, <4>2 DEF LastInsn
      <4>. QED BY <1>5, <1>9, <3>4, <4>1, <4>3
    <3>. QED BY <1>6, <1>8, <1>9, <3>2, <3>3, <3>4
  <2>4. ASSUME NEW b \in BlockIds, block_insns'[b] # << >>
        PROVE  insns[block_insns'[b][1]].addr = leader_vec[b + 1]
    <3>1. \A c \in BlockIds : block_insns[c] # << >> =>
            insns[block_insns[c][1]].addr = leader_vec[c + 1]
      BY <1>f DEF IInv, DealInv, FirstInsn
    <3>2. CASE b # n
      BY <1>8, <2>4, <3>1, <3>2
    <3>3. CASE b = n /\ block_insns[n] = << >>
      BY <1>6, <1>8, <1>9, <3>3
    <3>4. CASE b = n /\ block_insns[n] # << >>
      BY <1>6, <1>8, <1>9, <3>1, <3>4
    <3>. QED BY <3>2, <3>3, <3>4
  <2>5. ASSUME NEW b \in BlockIds, NEW j \in DOMAIN insns,
               insns[j].addr = leader_vec[b + 1], j <= idx
        PROVE  block_insns'[b] # << >>
    <3>1. CASE j = idx
      <4>1. insns[idx].addr \in leaders
        BY <1>f, <2>5, <3>1, LeaderFacts
      <4>2. leader_vec[n + 1] = leader_vec[b + 1]
        BY <1>6, <2>5, <3>1, <4>1
      <4>3. b = n
        BY <1>f, <1>6, <4>2, LeaderFacts
      <4>. QED BY <1>9, <4>3
    <3>2. CASE j <= idx - 1
      <4>1. block_insns[b] # << >>
        BY <1>f, <1>5, <2>5, <3>2 DEF IInv, DealInv
      <4>. QED BY <1>8, <1>9, <4>1
    <3>3. j \in Nat
      BY InsnFacts DEF IInv, BoundsInv
    <3>. QED BY <1>5, <2>5, <3>1, <3>2, <3>3
  <2>6. idx > 1 => /\ current_block \in BlockIds /\ current_block <= n
                   /\ n <= current_block + 1
                   /\ block_insns[current_block] # << >>
                   /\ LastInsn(current_block) = idx - 1
                   /\ block_insns[0] # << >> /\ FirstInsn(0) = 1
                   /\ \A b \in BlockIds : b < current_block =>
                        block_insns[b] # << >> /\ FirstInsn(b + 1) = LastInsn(b) + 1
    <3> SUFFICES ASSUME idx > 1
                 PROVE  /\ current_block \in BlockIds /\ current_block <= n
                        /\ n <= current_block + 1
                        /\ block_insns[current_block] # << >>
                        /\ LastInsn(current_block) = idx - 1
                        /\ block_insns[0] # << >> /\ FirstInsn(0) = 1
                        /\ \A b \in BlockIds : b < current_block =>
                             block_insns[b] # << >> /\ FirstInsn(b + 1) = LastInsn(b) + 1
      OBVIOUS
    <3>1. Dealt > 0
      BY <1>5
    <3>2. /\ current_block \in BlockIds
          /\ block_insns[current_block] # << >>
          /\ LastInsn(current_block) = idx - 1
          /\ block_insns[0] # << >> /\ FirstInsn(0) = 1
          /\ \A b \in BlockIds : b < current_block =>
               block_insns[b] # << >> /\ FirstInsn(b + 1) = LastInsn(b) + 1
      BY <1>f, <1>5, <3>1 DEF IInv, DealInv
    <3>3. n = current_block \/ n = current_block + 1
      BY <1>6
    <3>4. current_block \in Nat
      BY <1>f, <3>2, LeaderFacts DEF BlockIds
    <3>. QED BY <3>2, <3>3, <3>4
  <2>b. Len(leader_vec) \in Nat /\ BlockIds = 0 .. Len(leader_vec) - 1
    BY <1>f, LeaderFacts DEF BlockIds
  <2>7. ASSUME NEW b \in BlockIds, block_insns'[b] # << >>
        PROVE  b <= n
    <3>1. CASE b = n
      BY <1>6, <2>b, <3>1
    <3>2. CASE b # n
      <4>1. block_insns[b] # << >>
        BY <1>8, <2>7, <3>2
      <4>2. Dealt > 0 /\ b <= current_block
        BY <1>f, <4>1 DEF IInv, DealInv
      <4>. QED BY <1>5, <1>6, <2>6, <2>b, <4>2
    <3>. QED BY <3>1, <3>2
  <2>8. block_insns'[n][Len(block_insns'[n])] = idx
    BY <1>9
  <2>9. block_insns'[0] # << >> /\ block_insns'[0][1] = 1
    <3>0. 0 \in BlockIds
      BY <1>6, <2>b
    <3>1. CASE idx = 1
      <4>1. n = 0 /\ block_insns[0] = << >>
        BY <1>6, <3>1
      <4>. QED BY <1>8, <1>9, <3>1, <4>1
    <3>2. CASE idx > 1
      BY <1>8, <1>9, <2>6, <3>0, <3>2 DEF FirstInsn
    <3>. QED BY <1>5, <3>1, <3>2
  <2>10. ASSUME NEW b \in BlockIds, b < n
         PROVE  /\ block_insns'[b] # << >>
                /\ block_insns'[b + 1][1] = block_insns'[b][Len(block_insns'[b])] + 1
    <3>0. idx > 1 /\ b + 1 \in BlockIds /\ block_insns'[b] = block_insns[b]
      BY <1>5, <1>6, <1>8, <2>10, <2>b
    <3>1. CASE b = current_block
      <4>1. n = b + 1 /\ block_insns[n] = << >>
        BY <1>6, <2>b, <2>10, <3>0, <3>1
      <4>2. block_insns'[n][1] = idx
        BY <1>8, <1>9, <4>1
      <4>. QED BY <1>5, <2>6, <3>0, <3>1, <4>1, <4>2 DEF LastInsn
    <3>2. CASE b < current_block
      <4>1. block_insns[b] # << >> /\ block_insns[b + 1][1] = block_insns[b][Len(block_insns[b])] + 1
        BY <2>6, <3>0, <3>2 DEF FirstInsn, LastInsn
      <4>2. block_insns[b + 1] # << >>
        <5>1. b + 1 < current_block \/ b + 1 = current_block
          BY <2>6, <2>b, <3>0, <3>2
        <5>. QED BY <2>6, <3>0, <5>1
      <4>3. block_insns'[b + 1][1] = block_insns[b + 1][1]
        <5>1. CASE b + 1 # n
          <6>1. block_insns'[b + 1] = block_insns[b + 1]
            BY <1>8, <3>0, <5>1
          <6>. QED BY <6>1
        <5>2. CASE b + 1 = n
          <6>1. Len(block_insns[n]) \in Nat /\ Len(block_insns[n]) # 0
            BY <1>8, <3>0, <4>2, <5>2
          <6>2. 1 \in 1 .. Len(block_insns[n])
            BY <6>1
          <6>. QED BY <1>9, <5>2, <6>2
        <5>. QED BY <5>1, <5>2
      <4>. QED BY <3>0, <4>1, <4>3
    <3>3. b \in Nat /\ current_block \in Nat /\ n \in Nat /\ n <= current_block + 1
      BY <1>6, <2>6, <2>b, <3>0
    <3>4. b = current_block \/ b < current_block
      BY <2>10, <3>3
    <3>. QED BY <3>1, <3>2, <3>4
  <2>. QED BY <1>f, <1>0, <1>5, <1>6, <1>9, <2>1, <2>2, <2>3, <2>4, <2>5, <2>7, <2>8, <2>9, <2>10
           DEF DealInv, FirstInsn, LastInsn
<1>. QED BY <1>1, <1>2, <1>3, <1>4, <1>10 DEF IInv

\* Once every instruction is dealt, no block is empty.
LEMMA NoEmptyBlock ==
  ASSUME IInv, pc \in { "deal", "classify", "done" }, Dealt = Len(insns)
  PROVE  \A b \in BlockIds : /\ block_insns[b] # << >>
                             /\ block_insns[b] \in Seq(DOMAIN insns)
                             /\ Len(block_insns[b]) \in Nat \ {0}
                             /\ DOMAIN block_insns[b] = 1 .. Len(block_insns[b])
                             /\ FirstInsn(b) \in DOMAIN insns
                             /\ LastInsn(b) \in DOMAIN insns
<1> SUFFICES ASSUME NEW b \in BlockIds
             PROVE  /\ block_insns[b] # << >>
                    /\ block_insns[b] \in Seq(DOMAIN insns)
                    /\ Len(block_insns[b]) \in Nat \ {0}
                    /\ DOMAIN block_insns[b] = 1 .. Len(block_insns[b])
                    /\ FirstInsn(b) \in DOMAIN insns
                    /\ LastInsn(b) \in DOMAIN insns
  OBVIOUS
<1>1. PICK j \in DOMAIN insns : insns[j].addr = leader_vec[b + 1]
  BY LeaderFacts
<1>2. j <= Dealt
  BY InsnFacts DEF IInv, BoundsInv
<1>3. block_insns[b] # << >> /\ block_insns[b] \in Seq(DOMAIN insns)
  BY <1>1, <1>2 DEF IInv, DealInv
<1>4. Len(block_insns[b]) \in Nat \ {0} /\ DOMAIN block_insns[b] = 1 .. Len(block_insns[b])
  BY <1>3, EmptySeq, LenProperties
<1>. QED BY <1>3, <1>4, ElementOfSeq DEF FirstInsn, LastInsn

\* The deal ends with every instruction dealt and nothing classified.
LEMMA EndDealIInv == IInv /\ EndDeal => IInv'
<1> SUFFICES ASSUME IInv, EndDeal PROVE IInv'
  OBVIOUS
<1> USE DEF EndDeal
<1>0. insns' = insns /\ valid_addrs' = valid_addrs /\ BlockIds' = BlockIds
  BY FuncFrame DEF BlockIds
<1>a. Len(leader_vec) \in Nat
  BY LeaderFacts
<1>1. BoundsInv'
  BY <1>0, <1>a DEF IInv, BoundsInv
<1>2. ScanInv'
  BY <1>0 DEF IInv, ScanInv, Scanned, LeaderAfter, LeaderTarget
<1>3. NumberInv'
  BY <1>0 DEF IInv, NumberInv
<1>4. DealInv'
  <2>1. Dealt' = Dealt
    BY <1>0, InsnFacts DEF IInv, BoundsInv, Dealt
  <2>. QED BY <1>0, <2>1 DEF IInv, DealInv, FirstInsn, LastInsn
<1>5. ClassifyInv'
  <2>1. 0 .. Classified' - 1 = {}
    BY DEF Classified
  <2>2. edges' = << >> /\ blocks' = EmptyMap /\ EdgeSet' = {}
    BY DEF IInv, ClassifyInv, EdgeSet
  <2>3. blocks' = [ b \in 0 .. Classified' - 1 |-> BasicBlock(b)' ]
    BY <2>1, <2>2 DEF EmptyMap
  <2>. QED BY <2>1, <2>2, <2>3 DEF ClassifyInv
<1>6. EntryInv'
  BY DEF IInv, EntryInv
<1>. QED BY <1>1, <1>2, <1>3, <1>4, <1>5, <1>6 DEF IInv

\* What the classification pushes edges to are blocks of the graph.
LEMMA SuccsAreBlocks ==
  ASSUME IInv, pc \in { "deal", "classify", "done" }, NEW last, NEW b \in BlockIds
  PROVE  Classify(last, b).succs \in Seq(BlockIds)
<1>1. Resolves(last) => resolve_jump_target(last) \in BlockIds
  BY DEF IInv, NumberInv, Resolves, resolve_jump_target
<1>2. HasNext(b) => b + 1 \in BlockIds
  BY LeaderFacts DEF HasNext, BlockIds
<1>3. EndsInJmp(last).succs \in Seq(BlockIds)
  BY <1>1 DEF EndsInJmp, Ends
<1>4. EndsInCondJump(last, b).succs \in Seq(BlockIds)
  BY <1>1, <1>2 DEF EndsInCondJump, Ends
<1>5. EndsInCall(last, b).succs \in Seq(BlockIds)
  BY <1>2 DEF EndsInCall, Ends
<1>6. EndsInOther(b).succs \in Seq(BlockIds)
  BY <1>2 DEF EndsInOther, Ends
<1>7. Ends(Return, << >>).succs \in Seq(BlockIds) /\ Ends(Halt, << >>).succs \in Seq(BlockIds)
  BY DEF Ends
<1>. QED BY <1>3, <1>4, <1>5, <1>6, <1>7 DEF Classify

\* Nothing after the numbering changes how a block is classified.
LEMMA ClassifyFrame ==
  ASSUME UNCHANGED << func, leader_vec, addr_to_block, block_insns >>, NEW CONSTANT b
  PROVE  BasicBlock(b)' = BasicBlock(b) /\ Succs(b)' = Succs(b)
<1>0. insns' = insns
  BY FuncFrame
<1> DEFINE last == insns[LastInsn(b)]
<1>1. last' = last /\ FirstInsn(b)' = FirstInsn(b)
  BY <1>0 DEF LastInsn, FirstInsn
<1>2. Classify(insns[LastInsn(b)], b)' = Classify(insns[LastInsn(b)], b)
  BY <1>0 DEF LastInsn, Classify, EndsInJmp, EndsInCondJump, EndsInCall, EndsInOther, Ends,
      Resolves, resolve_jump_target, HasNext, Jump, ConditionalJump, Fallthrough, Call,
      Return, Halt
<1>. QED BY <1>0, <1>1, <1>2 DEF BasicBlock, Succs

\* Classifying a block adds that block and its edges.
LEMMA ClassifyBlockIInv == IInv /\ ClassifyBlock => IInv'
<1> SUFFICES ASSUME IInv, ClassifyBlock PROVE IInv'
  OBVIOUS
<1>f. /\ pc = "classify" /\ idx < Len(leader_vec) /\ idx' = idx + 1
      /\ UNCHANGED << func, pc, leaders, leader_vec, addr_to_block, current_block,
                      block_insns, entry_block >>
  BY DEF ClassifyBlock
<1>0. insns' = insns /\ valid_addrs' = valid_addrs /\ BlockIds' = BlockIds
  BY <1>f, FuncFrame DEF BlockIds
<1>a. Len(leader_vec) \in Nat /\ idx \in Nat /\ idx \in BlockIds
  BY <1>f, LeaderFacts DEF BlockIds, IInv, BoundsInv
<1>1. BoundsInv'
  BY <1>f, <1>0, <1>a DEF IInv, BoundsInv
<1>2. ScanInv'
  BY <1>f, <1>0 DEF IInv, ScanInv, Scanned, LeaderAfter, LeaderTarget
<1>3. NumberInv'
  BY <1>f, <1>0 DEF IInv, NumberInv
<1>4. DealInv'
  <2>1. Dealt' = Dealt
    BY <1>f, <1>0 DEF Dealt
  <2>. QED BY <1>f, <1>0, <2>1 DEF IInv, DealInv, FirstInsn, LastInsn
<1>5. ClassifyInv'
  <2>1. block_insns[idx] # << >>
    BY <1>f, <1>a, NoEmptyBlock DEF Dealt
  <2>2. /\ blocks' = [ b \in DOMAIN blocks \cup {idx} |->
                         IF b = idx THEN BasicBlock(idx) ELSE blocks[b] ]
        /\ edges' = edges \o EdgesFrom(idx)
    BY <2>1 DEF ClassifyBlock
  <2>3. Classified = idx /\ Classified' = idx + 1
    BY <1>f DEF Classified
  <2>4. /\ blocks = [ b \in 0 .. idx - 1 |-> BasicBlock(b) ]
        /\ edges \in Seq(BlockIds \X BlockIds)
        /\ \A e : e \in EdgeSet <=>
             \E b \in 0 .. idx - 1 : \E k \in DOMAIN Succs(b) : e = << b, Succs(b)[k] >>
    BY <1>f, <2>3 DEF IInv, ClassifyInv
  <2>5. \A b \in 0 .. idx : BasicBlock(b)' = BasicBlock(b) /\ Succs(b)' = Succs(b)
    BY <1>f, ClassifyFrame
  <2>6. blocks' = [ b \in 0 .. idx |-> BasicBlock(b) ]
    <3>1. DOMAIN blocks \cup {idx} = 0 .. idx
      BY <1>a, <2>4
    <3>2. \A b \in 0 .. idx : b # idx => b \in 0 .. idx - 1
      BY <1>a
    <3>. QED BY <2>2, <2>4, <3>1, <3>2
  <2>7. Succs(idx) \in Seq(BlockIds) /\ EdgesFrom(idx) = [ k \in DOMAIN Succs(idx) |-> << idx, Succs(idx)[k] >> ]
    BY <1>f, <1>a, SuccsAreBlocks DEF Succs, EdgesFrom
  <2>8. /\ EdgesFrom(idx) \in Seq(BlockIds \X BlockIds)
        /\ Len(EdgesFrom(idx)) = Len(Succs(idx))
    <3>1. DOMAIN Succs(idx) = 1 .. Len(Succs(idx)) /\ Len(Succs(idx)) \in Nat
          /\ \A k \in 1 .. Len(Succs(idx)) : Succs(idx)[k] \in BlockIds
      BY <2>7
    <3>2. \A k \in 1 .. Len(Succs(idx)) : << idx, Succs(idx)[k] >> \in BlockIds \X BlockIds
      BY <1>a, <3>1
    <3>3. EdgesFrom(idx) = [ k \in 1 .. Len(Succs(idx)) |-> << idx, Succs(idx)[k] >> ]
      BY <2>7, <3>1
    <3>. QED BY <3>1, <3>2, <3>3, IsASeq, LenProperties
  <2>9. /\ edges' \in Seq(BlockIds \X BlockIds)
        /\ Len(edges') = Len(edges) + Len(Succs(idx))
        /\ \A k \in 1 .. Len(edges) + Len(Succs(idx)) :
             edges'[k] = IF k <= Len(edges) THEN edges[k] ELSE EdgesFrom(idx)[k - Len(edges)]
    <3> DEFINE E == BlockIds \X BlockIds
               new == EdgesFrom(idx)
    <3> HIDE DEF E, new
    <3>1. edges \in Seq(E) /\ new \in Seq(E) /\ edges' = edges \o new /\ Len(new) = Len(Succs(idx))
      BY <2>2, <2>4, <2>8 DEF E, new
    <3>2. /\ edges' \in Seq(E)
          /\ Len(edges') = Len(edges) + Len(new)
          /\ \A k \in 1 .. Len(edges) + Len(new) :
               edges'[k] = IF k <= Len(edges) THEN edges[k] ELSE new[k - Len(edges)]
      BY <3>1, ConcatProperties
    <3>. QED BY <3>1, <3>2 DEF E, new
  <2>l. Len(edges) \in Nat /\ Len(Succs(idx)) \in Nat /\ DOMAIN edges = 1 .. Len(edges)
        /\ DOMAIN edges' = 1 .. Len(edges) + Len(Succs(idx)) /\ DOMAIN Succs(idx) = 1 .. Len(Succs(idx))
    BY <2>4, <2>7, <2>9, LenProperties
  <2>10. \A e : e \in EdgeSet' <=> e \in EdgeSet \/ \E k \in DOMAIN Succs(idx) : e = << idx, Succs(idx)[k] >>
    <3>1. ASSUME NEW e, e \in EdgeSet'
          PROVE  e \in EdgeSet \/ \E k \in DOMAIN Succs(idx) : e = << idx, Succs(idx)[k] >>
      <4>1. PICK k \in DOMAIN edges' : e = edges'[k]
        BY <3>1 DEF EdgeSet
      <4>2. CASE k <= Len(edges)
        <5>1. k \in DOMAIN edges /\ edges'[k] = edges[k]
          BY <2>9, <2>l, <4>2
        <5>. QED BY <4>1, <5>1 DEF EdgeSet
      <4>3. CASE ~ (k <= Len(edges))
        <5>1. k - Len(edges) \in DOMAIN Succs(idx) /\ edges'[k] = EdgesFrom(idx)[k - Len(edges)]
          BY <2>9, <2>l, <4>3
        <5>. QED BY <2>7, <4>1, <5>1
      <4>. QED BY <4>2, <4>3
    <3>2. ASSUME NEW e, e \in EdgeSet PROVE e \in EdgeSet'
      <4>1. PICK k \in DOMAIN edges : e = edges[k]
        BY <3>2 DEF EdgeSet
      <4>2. k \in DOMAIN edges' /\ edges'[k] = edges[k]
        BY <2>9, <2>l
      <4>. QED BY <4>1, <4>2 DEF EdgeSet
    <3>3. ASSUME NEW k \in DOMAIN Succs(idx) PROVE << idx, Succs(idx)[k] >> \in EdgeSet'
      <4>1. k + Len(edges) \in DOMAIN edges' /\ edges'[k + Len(edges)] = EdgesFrom(idx)[k]
        BY <2>9, <2>l
      <4>. QED BY <2>7, <4>1 DEF EdgeSet
    <3>. QED BY <3>1, <3>2, <3>3
  <2>11. \A e : e \in EdgeSet' <=>
           \E b \in 0 .. idx : \E k \in DOMAIN Succs(b) : e = << b, Succs(b)[k] >>
    <3>1. \A b : b \in 0 .. idx <=> b \in 0 .. idx - 1 \/ b = idx
      BY <1>a
    <3>. QED BY <2>4, <2>10, <3>1
  <2>12. Classified' - 1 = idx
    BY <1>a, <2>3
  <2>13. blocks' = [ b \in 0 .. Classified' - 1 |-> BasicBlock(b)' ]
    BY <2>5, <2>6, <2>12
  <2>14. \A e : e \in EdgeSet' <=>
           \E b \in 0 .. Classified' - 1 : \E k \in DOMAIN Succs(b)' : e = << b, Succs(b)'[k] >>
    BY <2>5, <2>11, <2>12
  <2>. QED BY <1>f, <1>0, <2>9, <2>13, <2>14 DEF ClassifyInv
<1>6. EntryInv'
  BY <1>f DEF IInv, EntryInv
<1>. QED BY <1>1, <1>2, <1>3, <1>4, <1>5, <1>6 DEF IInv

\* The last step looks up the entry block.
LEMMA FinishIInv == IInv /\ Finish => IInv'
<1> SUFFICES ASSUME IInv, Finish PROVE IInv'
  OBVIOUS
<1> USE DEF Finish
<1>0. insns' = insns /\ valid_addrs' = valid_addrs /\ BlockIds' = BlockIds
  BY FuncFrame DEF BlockIds
<1>a. Len(leader_vec) \in Nat /\ idx = Len(leader_vec)
  <2>1. Len(leader_vec) \in Nat
    BY LeaderFacts
  <2>2. idx \in 0 .. Len(leader_vec)
    BY DEF IInv, BoundsInv
  <2>. QED BY <2>1, <2>2
<1>1. BoundsInv'
  BY <1>0 DEF IInv, BoundsInv
<1>2. ScanInv'
  BY <1>0 DEF IInv, ScanInv, Scanned, LeaderAfter, LeaderTarget
<1>3. NumberInv'
  BY <1>0 DEF IInv, NumberInv
<1>4. DealInv'
  <2>1. Dealt' = Dealt
    BY <1>0 DEF Dealt
  <2>. QED BY <1>0, <2>1 DEF IInv, DealInv, FirstInsn, LastInsn
<1>5. ClassifyInv'
  <2>1. Classified' = Classified
    BY <1>a DEF Classified
  <2>2. \A b \in 0 .. Classified - 1 : BasicBlock(b)' = BasicBlock(b) /\ Succs(b)' = Succs(b)
    BY ClassifyFrame
  <2>3. EdgeSet' = EdgeSet
    BY DEF EdgeSet
  <2>4. /\ blocks = [ b \in 0 .. Classified - 1 |-> BasicBlock(b) ]
        /\ edges \in Seq(BlockIds \X BlockIds)
        /\ \A e : e \in EdgeSet <=>
             \E b \in 0 .. Classified - 1 : \E k \in DOMAIN Succs(b) : e = << b, Succs(b)[k] >>
    BY DEF IInv, ClassifyInv
  <2>5. blocks' = [ b \in 0 .. Classified' - 1 |-> BasicBlock(b)' ]
    BY <2>1, <2>2, <2>4
  <2>6. \A e : e \in EdgeSet' <=>
          \E b \in 0 .. Classified' - 1 : \E k \in DOMAIN Succs(b)' : e = << b, Succs(b)'[k] >>
    BY <2>1, <2>2, <2>3, <2>4
  <2>. QED BY <1>0, <2>4, <2>5, <2>6 DEF ClassifyInv
<1>6. EntryInv'
  BY DEF EntryInv
<1>. QED BY <1>1, <1>2, <1>3, <1>4, <1>5, <1>6 DEF IInv

\* A step that changes nothing, and the stuttering of a finished build_cfg.
LEMMA StutterIInv == IInv /\ UNCHANGED vars => IInv'
<1> SUFFICES ASSUME IInv, UNCHANGED vars PROVE IInv'
  OBVIOUS
<1> USE DEF vars
<1>0. insns' = insns /\ valid_addrs' = valid_addrs /\ BlockIds' = BlockIds
      /\ Dealt' = Dealt /\ Classified' = Classified /\ EdgeSet' = EdgeSet
  BY FuncFrame DEF BlockIds, Dealt, Classified, EdgeSet, insns
<1>1. BoundsInv'
  BY <1>0 DEF IInv, BoundsInv
<1>2. ScanInv'
  BY <1>0 DEF IInv, ScanInv, Scanned, LeaderAfter, LeaderTarget
<1>3. NumberInv'
  BY <1>0 DEF IInv, NumberInv
<1>4. DealInv'
  BY <1>0 DEF IInv, DealInv, FirstInsn, LastInsn
<1>5. ClassifyInv'
  <2>1. \A b \in 0 .. Classified - 1 : BasicBlock(b)' = BasicBlock(b) /\ Succs(b)' = Succs(b)
    BY ClassifyFrame
  <2>2. CASE pc \in { "classify", "done" }
    <3>1. /\ blocks = [ b \in 0 .. Classified - 1 |-> BasicBlock(b) ]
          /\ edges \in Seq(BlockIds \X BlockIds)
          /\ \A e : e \in EdgeSet <=>
               \E b \in 0 .. Classified - 1 : \E k \in DOMAIN Succs(b) : e = << b, Succs(b)[k] >>
      BY <2>2 DEF IInv, ClassifyInv
    <3>2. blocks' = [ b \in 0 .. Classified' - 1 |-> BasicBlock(b)' ]
      BY <1>0, <2>1, <3>1
    <3>3. \A e : e \in EdgeSet' <=>
            \E b \in 0 .. Classified' - 1 : \E k \in DOMAIN Succs(b)' : e = << b, Succs(b)'[k] >>
      BY <1>0, <2>1, <3>1
    <3>. QED BY <1>0, <2>2, <3>1, <3>2, <3>3 DEF ClassifyInv
  <2>3. CASE pc \notin { "classify", "done" }
    BY <2>3 DEF IInv, ClassifyInv
  <2>. QED BY <2>2, <2>3
<1>6. EntryInv'
  BY DEF IInv, EntryInv
<1>. QED BY <1>1, <1>2, <1>3, <1>4, <1>5, <1>6 DEF IInv

\* The passes of build_cfg keep the inductive invariant, for every function.
THEOREM PassesInvariant == Spec => []IInv
<1>1. Init => IInv
  BY InitIInv
<1>2. IInv /\ [Next]_vars => IInv'
  <2> SUFFICES ASSUME IInv, [Next]_vars PROVE IInv'
    OBVIOUS
  <2>1. CASE EmptyFunction
    BY <2>1, EmptyFunctionIInv
  <2>2. CASE SeedLeaders
    BY <2>2, SeedLeadersIInv
  <2>3. CASE ScanInsn
    BY <2>3, ScanInsnIInv
  <2>4. CASE EndScan
    BY <2>4, EndScanIInv
  <2>5. CASE NumberLeader
    BY <2>5, NumberLeaderIInv
  <2>6. CASE EndNumber
    BY <2>6, EndNumberIInv
  <2>7. CASE DealInsn
    BY <2>7, DealInsnIInv
  <2>8. CASE EndDeal
    BY <2>8, EndDealIInv
  <2>9. CASE ClassifyBlock
    BY <2>9, ClassifyBlockIInv
  <2>10. CASE Finish
    BY <2>10, FinishIInv
  <2>11. CASE Terminated
    BY <2>11, StutterIInv DEF Terminated
  <2>12. CASE UNCHANGED vars
    BY <2>12, StutterIInv
  <2>. QED BY <2>1, <2>2, <2>3, <2>4, <2>5, <2>6, <2>7, <2>8, <2>9, <2>10, <2>11, <2>12 DEF Next
<1>. QED BY <1>1, <1>2, PTL DEF Spec

-----------------------------------------------------------------------------
(* What the invariant says of the graph that build_cfg returns.            *)

\* The finished blocks: one for every leader, none empty, each ending where the
\* next one begins.
LEMMA FinishedBlocks ==
  ASSUME IInv, pc = "done"
  PROVE  /\ DOMAIN blocks = BlockIds
         /\ \A b \in BlockIds : /\ blocks[b] = BasicBlock(b)
                                /\ block_insns[b] # << >>
                                /\ Len(block_insns[b]) \in Nat \ {0}
                                /\ DOMAIN block_insns[b] = 1 .. Len(block_insns[b])
                                /\ \A k \in DOMAIN block_insns[b] : block_insns[b][k] \in DOMAIN insns
                                /\ FirstInsn(b) \in DOMAIN insns
                                /\ LastInsn(b) \in DOMAIN insns
                                /\ insns[FirstInsn(b)].addr = leader_vec[b + 1]
                                /\ HasNext(b) => b + 1 \in BlockIds /\ FirstInsn(b + 1) = LastInsn(b) + 1
                                /\ ~ HasNext(b) => LastInsn(b) = Len(insns)
         /\ insns # << >> => 0 \in BlockIds /\ FirstInsn(0) = 1
<1>1. Dealt = Len(insns) /\ Classified = Len(leader_vec)
  BY DEF Dealt, Classified
<1>2. DOMAIN blocks = BlockIds /\ \A b \in BlockIds : blocks[b] = BasicBlock(b)
  BY <1>1 DEF IInv, ClassifyInv, BlockIds
<1>3. BlockIds = 0 .. Len(leader_vec) - 1 /\ Len(leader_vec) \in Nat
  BY LeaderFacts DEF BlockIds
<1>4. \A b \in BlockIds : /\ block_insns[b] # << >>
                          /\ block_insns[b] \in Seq(DOMAIN insns)
                          /\ Len(block_insns[b]) \in Nat \ {0}
                          /\ DOMAIN block_insns[b] = 1 .. Len(block_insns[b])
                          /\ FirstInsn(b) \in DOMAIN insns
                          /\ LastInsn(b) \in DOMAIN insns
  BY <1>1, NoEmptyBlock
<1>5. \A b \in BlockIds : insns[FirstInsn(b)].addr = leader_vec[b + 1]
  BY <1>4 DEF IInv, DealInv
<1>6. ASSUME NEW b \in BlockIds
      PROVE  /\ HasNext(b) => b + 1 \in BlockIds /\ FirstInsn(b + 1) = LastInsn(b) + 1
             /\ ~ HasNext(b) => LastInsn(b) = Len(insns)
  <2>1. Dealt > 0 /\ b <= current_block
    BY <1>4 DEF IInv, DealInv
  <2>2. /\ current_block \in BlockIds
        /\ LastInsn(current_block) = Dealt
        /\ \A c \in BlockIds : c < current_block => FirstInsn(c + 1) = LastInsn(c) + 1
    BY <2>1 DEF IInv, DealInv
  <2>3. ASSUME HasNext(b) PROVE b + 1 \in BlockIds /\ FirstInsn(b + 1) = LastInsn(b) + 1
    <3>1. b + 1 \in BlockIds
      BY <1>3, <2>3 DEF HasNext
    <3>2. b + 1 <= current_block
      BY <1>4, <3>1 DEF IInv, DealInv
    <3>3. b < current_block
      BY <1>3, <2>2, <3>2
    <3>. QED BY <2>2, <3>1, <3>3
  <2>4. ASSUME ~ HasNext(b) PROVE LastInsn(b) = Len(insns)
    <3>1. b = current_block
      BY <1>3, <2>1, <2>2, <2>4 DEF HasNext
    <3>. QED BY <1>1, <2>2, <3>1
  <2>. QED BY <2>3, <2>4
<1>7. ASSUME insns # << >> PROVE 0 \in BlockIds /\ FirstInsn(0) = 1
  <2>1. Dealt > 0
    BY <1>1, <1>7, InsnFacts DEF IInv, BoundsInv
  <2>2. current_block \in BlockIds /\ FirstInsn(0) = 1
    BY <2>1 DEF IInv, DealInv
  <2>. QED BY <1>3, <2>2
<1>8. \A b \in BlockIds : \A k \in DOMAIN block_insns[b] : block_insns[b][k] \in DOMAIN insns
  BY <1>4, ElementOfSeq
<1>. QED BY <1>2, <1>4, <1>5, <1>6, <1>7, <1>8

\* The locals of build_cfg keep their types: in particular every block id that
\* is handed out, pushed on the edge list or used as a key is below the number
\* of leaders.
THEOREM TypeCorrect == Spec => []TypeOK
<1>1. IInv => TypeOK
  <2> SUFFICES ASSUME IInv PROVE TypeOK
    OBVIOUS
  <2>1. pc \in { "start", "scan", "number", "deal", "classify", "done" } /\ idx \in Nat
    BY DEF IInv, BoundsInv
  <2>2. leaders \subseteq valid_addrs /\ leaders \subseteq Nat
    BY LeadersAreNat DEF IInv, BoundsInv, ScanInv
  <2>3. leader_vec \in Seq(leaders) /\ Len(leader_vec) \in Nat
    BY DEF IInv, NumberInv
  <2>4. leader_vec \in Seq(Nat)
    <3>1. leader_vec \in [ 1 .. Len(leader_vec) -> leaders ]
      BY <2>3, LenProperties
    <3>2. \A k \in 1 .. Len(leader_vec) : leader_vec[k] \in Nat
      BY <2>2, <3>1
    <3>3. leader_vec = [ k \in 1 .. Len(leader_vec) |-> leader_vec[k] ]
      BY <3>1
    <3>. QED BY <2>3, <3>2, <3>3, IsASeq
  <2>5. addr_to_block \in [ { leader_vec[k] : k \in DOMAIN leader_vec } -> BlockIds ]
    BY DEF IInv, NumberInv
  <2>6. addr_to_block \in [ DOMAIN addr_to_block -> BlockIds ]
    BY <2>5
  <2>7. DOMAIN addr_to_block \subseteq leaders
    <3>1. \A k \in DOMAIN leader_vec : leader_vec[k] \in leaders
      BY <2>3, ElementOfSeq
    <3>. QED BY <2>5, <3>1
  <2>8. pc \in { "deal", "classify" } => block_insns \in [ BlockIds -> Seq(DOMAIN insns) ]
    BY DEF IInv, DealInv
  <2>9. DOMAIN blocks \subseteq BlockIds /\ edges \in Seq(BlockIds \X BlockIds)
    <3>1. CASE pc \in { "classify", "done" }
      <4>1. DOMAIN blocks = 0 .. Classified - 1 /\ edges \in Seq(BlockIds \X BlockIds)
        BY <3>1 DEF IInv, ClassifyInv
      <4>2. Classified \in 0 .. Len(leader_vec)
        BY <2>3 DEF IInv, BoundsInv, Classified
      <4>. QED BY <2>3, <4>1, <4>2 DEF BlockIds
    <3>2. CASE pc \notin { "classify", "done" }
      BY <3>2 DEF IInv, ClassifyInv, EmptyMap
    <3>. QED BY <3>1, <3>2
  <2>10. entry_block \in Nat
    <3>1. \A x \in DOMAIN addr_to_block : addr_to_block[x] \in Nat
      BY <2>3, <2>6 DEF BlockIds
    <3>. QED BY <2>1, <3>1 DEF IInv, EntryInv
  <2>. QED BY <2>1, <2>2, <2>4, <2>6, <2>7, <2>8, <2>9, <2>10 DEF TypeOK
<1>. QED BY <1>1, PassesInvariant, PTL

\* The blocks of a finished graph partition the function into consecutive
\* stretches, whatever the instructions are.
THEOREM Partition == Spec => []BlocksPartition
<1>1. IInv => BlocksPartition
  <2> SUFFICES ASSUME IInv, pc = "done", insns # << >>
               PROVE  /\ DOMAIN blocks = BlockIds
                      /\ \A b \in BlockIds :
                           /\ block_insns[b] # << >>
                           /\ \A k \in 1 .. Len(block_insns[b]) - 1 :
                                block_insns[b][k + 1] = block_insns[b][k] + 1
                           /\ HasNext(b) => FirstInsn(b + 1) = LastInsn(b) + 1
                      /\ FirstInsn(0) = 1
                      /\ LastInsn(Len(leader_vec) - 1) = Len(insns)
    BY DEF BlocksPartition
  <2>1. ASSUME NEW b \in BlockIds, NEW k \in 1 .. Len(block_insns[b]) - 1
        PROVE  block_insns[b][k + 1] = block_insns[b][k] + 1
    <3>1. k + 1 \in DOMAIN block_insns[b] /\ k + 1 > 1 /\ (k + 1) - 1 = k
      BY FinishedBlocks
    <3>. QED BY <3>1 DEF IInv, DealInv
  <2>2. LastInsn(Len(leader_vec) - 1) = Len(insns)
    <3>1. Len(leader_vec) - 1 \in BlockIds /\ ~ HasNext(Len(leader_vec) - 1)
      BY LeaderFacts, FinishedBlocks DEF BlockIds, HasNext
    <3>. QED BY <3>1, FinishedBlocks
  <2>. QED BY <2>1, <2>2, FinishedBlocks
<1>. QED BY <1>1, PassesInvariant, PTL

\* Basic blocks are straight-line code for every function: only a leader can be
\* jumped to, and only the end of a block can jump.
THEOREM BlocksAreStraightLine == Spec => []StraightLine
<1>1. IInv => StraightLine
  <2> SUFFICES ASSUME IInv, pc = "done",
                      NEW b \in BlockIds, NEW k \in 1 .. Len(block_insns[b])
               PROVE  LET i == block_insns[b][k]
                      IN  /\ k < Len(block_insns[b]) => FlowSucc(i) = { i + 1 }
                          /\ k > 1 => \A j \in DOMAIN insns : i \in FlowSucc(j) => j = i - 1
    BY FinishedBlocks DEF StraightLine
  <2> DEFINE i == block_insns[b][k]
  <2>1. i \in DOMAIN insns /\ DOMAIN block_insns[b] = 1 .. Len(block_insns[b])
        /\ Len(block_insns[b]) \in Nat
    BY FinishedBlocks
  <2>2. DOMAIN insns = 1 .. Len(insns) /\ Len(insns) \in Nat /\ insns # << >>
    BY <2>1, InsnFacts DEF IInv, BoundsInv
  <2>3. ASSUME k < Len(block_insns[b]) PROVE FlowSucc(i) = { i + 1 }
    <3>1. k + 1 \in DOMAIN block_insns[b] /\ k + 1 > 1 /\ (k + 1) - 1 = k
      BY <2>1, <2>3
    <3>2. block_insns[b][k + 1] = i + 1 /\ insns[i + 1].addr \notin leaders
      BY <3>1 DEF IInv, DealInv
    <3>3. i + 1 \in DOMAIN insns
      BY <3>1, <3>2, FinishedBlocks
    <3>4. LeaderAfter(i) \subseteq leaders
      BY <2>1, <2>2 DEF IInv, ScanInv, Scanned
    <3>5. ~ EndsBlock(insns[i])
      BY <3>2, <3>3, <3>4 DEF LeaderAfter
    <3>. QED BY <3>3, <3>5 DEF FlowSucc, EndsBlock, IsJump
  <2>4. ASSUME k > 1, NEW j \in DOMAIN insns, i \in FlowSucc(j) PROVE j = i - 1
    <3>1. insns[i].addr \notin leaders
      BY <2>1, <2>4 DEF IInv, DealInv
    <3>2. LeaderTarget(j) \subseteq leaders
      BY <2>2 DEF IInv, ScanInv, Scanned
    <3>3. IsJump(insns[j]) => i \notin At(parse_hex_target(insns[j].op_str))
      BY <2>1, <3>1, <3>2 DEF LeaderTarget, At, valid_addrs
    <3>4. i \in { j + 1 } \cap DOMAIN insns
      BY <2>4, <3>3 DEF FlowSucc, IsJump
    <3>. QED BY <2>2, <3>4
  <2>. QED BY <2>3, <2>4
<1>. QED BY <1>1, PassesInvariant, PTL

\* The mnemonics of the arms of the classification are disjoint.
LEMMA ArmsDisjoint ==
  ASSUME NEW insn
  PROVE  /\ IsRet(insn) => insn.mnemonic # "jmp" /\ ~ IsCondJump(insn) /\ ~ IsCall(insn) /\ ~ IsHalt(insn)
         /\ insn.mnemonic = "jmp" => ~ IsCondJump(insn) /\ ~ IsCall(insn) /\ ~ IsHalt(insn)
         /\ IsCondJump(insn) => ~ IsCall(insn) /\ ~ IsHalt(insn)
         /\ IsCall(insn) => ~ IsHalt(insn)
BY DEF IsRet, IsHalt, IsCall, IsCondJump, RET_MNEMONICS, HALT_MNEMONICS, COND_JUMPS

\* The blocks that the classification of a finished block names are exactly the
\* blocks that machine code can go to from its last instruction.
LEMMA SuccsAreFlow ==
  ASSUME IInv, pc = "done", NEW a \in BlockIds, NEW b \in BlockIds
  PROVE  (\E k \in DOMAIN Succs(a) : Succs(a)[k] = b) <=> FirstInsn(b) \in FlowSucc(LastInsn(a))
<1> DEFINE last == insns[LastInsn(a)]
           t == parse_hex_target(last.op_str)
           next == { LastInsn(a) + 1 } \cap DOMAIN insns
<1>0. /\ Len(leader_vec) \in Nat /\ a \in Nat /\ b \in Nat /\ Len(insns) \in Nat
      /\ DOMAIN insns = 1 .. Len(insns)
  BY LeaderFacts, InsnFacts DEF BlockIds, IInv, BoundsInv
<1>i. ASSUME NEW c \in BlockIds, FirstInsn(b) = FirstInsn(c) PROVE b = c
  <2>1. leader_vec[b + 1] = leader_vec[c + 1]
    <3>1. /\ insns[FirstInsn(b)].addr = leader_vec[b + 1]
          /\ insns[FirstInsn(c)].addr = leader_vec[c + 1]
      BY FinishedBlocks
    <3>. QED BY <1>i, <3>1
  <2>2. addr_to_block[leader_vec[b + 1]] = b /\ addr_to_block[leader_vec[c + 1]] = c
    BY LeaderFacts
  <2>. QED BY <2>1, <2>2
<1>1. FirstInsn(b) \in next <=> HasNext(a) /\ b = a + 1
  <2>1. CASE HasNext(a)
    <3>1. a + 1 \in BlockIds /\ FirstInsn(a + 1) = LastInsn(a) + 1 /\ FirstInsn(a + 1) \in DOMAIN insns
      BY <2>1, FinishedBlocks
    <3>. QED BY <1>i, <2>1, <3>1
  <2>2. CASE ~ HasNext(a)
    <3>1. LastInsn(a) = Len(insns)
      BY <2>2, FinishedBlocks
    <3>2. next = {}
      BY <1>0, <3>1
    <3>. QED BY <2>2, <3>2
  <2>. QED BY <2>1, <2>2
<1>2. FirstInsn(b) \in At(t) <=> Resolves(last) /\ resolve_jump_target(last) = b
  <2>1. FirstInsn(b) \in At(t) <=> leader_vec[b + 1] = t
    BY FinishedBlocks DEF At
  <2>2. leaders = DOMAIN addr_to_block
    BY DEF IInv, NumberInv
  <2>. QED BY <2>1, <2>2, LeaderFacts DEF Resolves, resolve_jump_target
<1>3. CASE IsRet(last)
  BY <1>3, ArmsDisjoint DEF Succs, Classify, Ends, FlowSucc
<1>4. CASE last.mnemonic = "jmp"
  <2>1. ~ IsRet(last) /\ ~ IsHalt(last) /\ ~ IsCondJump(last) /\ ~ IsCall(last)
    BY <1>4, ArmsDisjoint
  <2>2. FlowSucc(LastInsn(a)) = At(t) /\ Succs(a) = EndsInJmp(last).succs
    BY <1>4, <2>1 DEF FlowSucc, Succs, Classify
  <2>3. Succs(a) = IF Resolves(last) THEN << resolve_jump_target(last) >> ELSE << >>
    BY <2>2 DEF EndsInJmp, Ends
  <2>. QED BY <1>2, <2>2, <2>3
<1>5. CASE IsCondJump(last)
  <2>1. ~ IsRet(last) /\ ~ IsHalt(last) /\ last.mnemonic # "jmp" /\ ~ IsCall(last)
    BY <1>5, ArmsDisjoint
  <2>2. FlowSucc(LastInsn(a)) = At(t) \cup next /\ Succs(a) = EndsInCondJump(last, a).succs
    BY <1>5, <2>1 DEF FlowSucc, Succs, Classify
  <2>3. Succs(a) = IF Resolves(last)
                     THEN IF HasNext(a) THEN << resolve_jump_target(last), a + 1 >>
                                        ELSE << resolve_jump_target(last) >>
                     ELSE IF HasNext(a) THEN << a + 1 >> ELSE << >>
    BY <2>2 DEF EndsInCondJump, Ends
  <2>. QED BY <1>1, <1>2, <2>2, <2>3
<1>6. CASE IsCall(last)
  <2>1. ~ IsRet(last) /\ ~ IsHalt(last) /\ last.mnemonic # "jmp" /\ ~ IsCondJump(last)
    BY <1>6, ArmsDisjoint
  <2>2. FlowSucc(LastInsn(a)) = next /\ Succs(a) = EndsInCall(last, a).succs
    BY <1>6, <2>1 DEF FlowSucc, Succs, Classify
  <2>3. Succs(a) = IF HasNext(a) THEN << a + 1 >> ELSE << >>
    BY <2>2 DEF EndsInCall, Ends
  <2>. QED BY <1>1, <2>2, <2>3
<1>7. CASE IsHalt(last)
  <2>1. ~ IsRet(last) /\ ~ IsCall(last) /\ last.mnemonic # "jmp" /\ ~ IsCondJump(last)
    BY <1>7, ArmsDisjoint
  <2>. QED BY <1>7, <2>1 DEF Succs, Classify, Ends, FlowSucc
<1>8. CASE ~ IsRet(last) /\ ~ IsHalt(last) /\ ~ IsCall(last)
           /\ last.mnemonic # "jmp" /\ ~ IsCondJump(last)
  <2>2. FlowSucc(LastInsn(a)) = next /\ Succs(a) = EndsInOther(a).succs
    BY <1>8 DEF FlowSucc, Succs, Classify
  <2>3. Succs(a) = IF HasNext(a) THEN << a + 1 >> ELSE << >>
    BY <2>2 DEF EndsInOther, Ends
  <2>. QED BY <1>1, <2>2, <2>3
<1>. QED BY <1>3, <1>4, <1>5, <1>6, <1>7, <1>8

\* The pairs on the edge list of a finished graph.
LEMMA FinishedEdges ==
  ASSUME IInv, pc = "done"
  PROVE  /\ EdgeSet \subseteq BlockIds \X BlockIds
         /\ \A a, b \in BlockIds :
              << a, b >> \in EdgeSet <=> \E k \in DOMAIN Succs(a) : Succs(a)[k] = b
<1>1. 0 .. Classified - 1 = BlockIds
  BY DEF Classified, BlockIds
<1>2. \A e : e \in EdgeSet <=> \E b \in BlockIds : \E k \in DOMAIN Succs(b) : e = << b, Succs(b)[k] >>
  BY <1>1 DEF IInv, ClassifyInv
<1>3. edges \in Seq(BlockIds \X BlockIds)
  BY DEF IInv, ClassifyInv
<1>4. EdgeSet \subseteq BlockIds \X BlockIds
  <2> DEFINE E == BlockIds \X BlockIds
  <2> HIDE DEF E
  <2>1. edges \in Seq(E)
    BY <1>3 DEF E
  <2>2. \A k \in DOMAIN edges : edges[k] \in E
    BY <2>1, LenProperties, ElementOfSeq
  <2>. QED BY <2>2 DEF E, EdgeSet
<1>. QED BY <1>2, <1>4

\* For every function, the edges build_cfg records are the control flow of the
\* machine code between the blocks, no more and no less.
THEOREM EdgesCorrect == Spec => []EdgesAreFlow
<1>1. IInv => EdgesAreFlow
  <2> SUFFICES ASSUME IInv, pc = "done", NEW a \in BlockIds, NEW b \in BlockIds
               PROVE  << a, b >> \in EdgeSet <=> FirstInsn(b) \in FlowSucc(LastInsn(a))
    BY FinishedBlocks DEF EdgesAreFlow
  <2>1. << a, b >> \in EdgeSet <=> \E k \in DOMAIN Succs(a) : Succs(a)[k] = b
    BY FinishedEdges
  <2>. QED BY <2>1, SuccsAreFlow
<1>. QED BY <1>1, PassesInvariant, PTL

\* For every function, terminators and edges name the same successors.
THEOREM TerminatorsCorrect == Spec => []TerminatorsMatchEdges
<1>1. IInv => TerminatorsMatchEdges
  <2> SUFFICES ASSUME IInv, pc = "done" PROVE TerminatorsMatchEdges
    BY DEF TerminatorsMatchEdges
  <2>1. \A e \in EdgeSet : e[1] \in DOMAIN blocks /\ e[2] \in DOMAIN blocks
    BY FinishedBlocks, FinishedEdges
  <2>2. ASSUME NEW b \in BlockIds
        PROVE  Successors(b) = { e[2] : e \in { x \in EdgeSet : x[1] = b } }
    <3> DEFINE last == insns[LastInsn(b)]
               c == Classify(last, b)
               named == { Succs(b)[k] : k \in DOMAIN Succs(b) }
    <3>0. b \in Nat /\ b + 1 # b
      BY LeaderFacts DEF BlockIds
    <3>1. blocks[b].terminator = c.terminator /\ Succs(b) = c.succs
      BY FinishedBlocks DEF BasicBlock, Succs
    <3>2. { e[2] : e \in { x \in EdgeSet : x[1] = b } } = named
      <4>1. \A d \in named : d \in BlockIds
        BY SuccsAreBlocks DEF Succs
      <4>2. ASSUME NEW d PROVE d \in named <=> d \in BlockIds /\ << b, d >> \in EdgeSet
        BY <4>1, FinishedEdges
      <4>3. ASSUME NEW d
            PROVE  d \in { e[2] : e \in { x \in EdgeSet : x[1] = b } }
                     <=> d \in BlockIds /\ << b, d >> \in EdgeSet
        BY FinishedEdges
      <4>. QED BY <4>2, <4>3
    <3>3. Successors(b) = named
      <4> USE <3>0, <3>1 DEF Successors, Ends, Return, Halt, Jump, Fallthrough, ConditionalJump, Call
      <4>1. CASE c = Ends(Return, << >>) \/ c = Ends(Halt, << >>)
        BY <4>1
      <4>2. CASE c = EndsInJmp(last)
        BY <4>2 DEF EndsInJmp
      <4>3. CASE c = EndsInCondJump(last, b)
        BY <4>3 DEF EndsInCondJump
      <4>4. CASE c = EndsInCall(last, b)
        BY <4>4 DEF EndsInCall
      <4>5. CASE c = EndsInOther(b)
        BY <4>5 DEF EndsInOther
      <4>6. \/ c = Ends(Return, << >>) \/ c = Ends(Halt, << >>)
            \/ c = EndsInJmp(last) \/ c = EndsInCondJump(last, b)
            \/ c = EndsInCall(last, b) \/ c = EndsInOther(b)
        BY DEF Classify
      <4>. QED BY <4>1, <4>2, <4>3, <4>4, <4>5, <4>6
    <3>. QED BY <3>2, <3>3
  <2>. QED BY <2>1, <2>2, FinishedBlocks DEF TerminatorsMatchEdges
<1>. QED BY <1>1, PassesInvariant, PTL

\* For every function the entry block begins with the first instruction.
THEOREM EntryCorrect == Spec => []EntryIsFirst
<1>1. IInv => EntryIsFirst
  <2> SUFFICES ASSUME IInv, pc = "done", insns # << >>
               PROVE  entry_block \in DOMAIN blocks /\ FirstInsn(entry_block) = 1
    BY DEF EntryIsFirst
  <2>1. leaders = DOMAIN addr_to_block /\ leaders \subseteq valid_addrs
    BY DEF IInv, NumberInv, ScanInv
  <2>2. CASE func.start_addr \in DOMAIN addr_to_block
    <3>1. PICK j \in DOMAIN insns : insns[j].addr = func.start_addr
      BY <2>1, <2>2 DEF valid_addrs
    <3>2. 1 \in DOMAIN insns /\ j \in Nat /\ j >= 1
      BY InsnFacts DEF IInv, BoundsInv
    <3>3. insns[1].addr = func.start_addr
      BY <3>1, <3>2, InsnFacts DEF IInv, BoundsInv
    <3>4. entry_block = addr_to_block[func.start_addr]
      BY <2>2 DEF IInv, EntryInv
    <3>5. entry_block \in BlockIds /\ leader_vec[entry_block + 1] = insns[1].addr
      BY <2>1, <2>2, <3>3, <3>4, LeaderFacts
    <3>6. FirstInsn(entry_block) \in DOMAIN insns /\ insns[FirstInsn(entry_block)].addr = insns[1].addr
      BY <3>5, FinishedBlocks
    <3>7. FirstInsn(entry_block) = 1
      BY <3>2, <3>6, InsnFacts DEF IInv, BoundsInv
    <3>. QED BY <3>5, <3>7, FinishedBlocks
  <2>3. CASE func.start_addr \notin DOMAIN addr_to_block
    <3>1. entry_block = 0
      BY <2>3 DEF IInv, EntryInv
    <3>. QED BY <3>1, FinishedBlocks
  <2>. QED BY <2>2, <2>3
<1>. QED BY <1>1, PassesInvariant, PTL

\* For every function, no block is cut without a reason.
THEOREM Maximal == Spec => []BlocksMaximal
<1>1. IInv => BlocksMaximal
  <2> SUFFICES ASSUME IInv, pc = "done", NEW b \in BlockIds \ {0}
               PROVE  \/ EndsBlock(insns[LastInsn(b - 1)])
                      \/ \E j \in DOMAIN insns :
                           IsJump(insns[j]) /\ FirstInsn(b) \in At(parse_hex_target(insns[j].op_str))
    BY FinishedBlocks DEF BlocksMaximal
  <2>1. b - 1 \in BlockIds /\ 0 \in BlockIds /\ 0 < b /\ HasNext(b - 1) /\ (b - 1) + 1 = b
    BY LeaderFacts DEF BlockIds, HasNext
  <2>2. FirstInsn(b) \in DOMAIN insns /\ insns[FirstInsn(b)].addr = leader_vec[b + 1]
        /\ FirstInsn(b) = LastInsn(b - 1) + 1
    BY <2>1, FinishedBlocks
  <2>3. leader_vec[b + 1] \in leaders /\ leader_vec[b + 1] # insns[1].addr
    <3>1. insns # << >>
      BY <2>2, InsnFacts DEF IInv, BoundsInv
    <3>2. insns[1].addr = leader_vec[0 + 1]
      BY <2>1, <3>1, FinishedBlocks
    <3>3. leader_vec[0 + 1] < leader_vec[b + 1] /\ leader_vec[0 + 1] \in Nat /\ leader_vec[b + 1] \in Nat
      BY <2>1, LeaderFacts
    <3>. QED BY <3>2, <3>3, LeaderFacts
  <2>4. PICK i \in DOMAIN insns : leader_vec[b + 1] \in LeaderAfter(i) \cup LeaderTarget(i)
    BY <2>3 DEF IInv, ScanInv
  <2>5. CASE leader_vec[b + 1] \in LeaderAfter(i)
    <3>1. i + 1 \in DOMAIN insns /\ EndsBlock(insns[i]) /\ insns[i + 1].addr = insns[FirstInsn(b)].addr
      BY <2>2, <2>5 DEF LeaderAfter
    <3>2. FirstInsn(b) = i + 1
      BY <2>2, <3>1, InsnFacts DEF IInv, BoundsInv
    <3>3. LastInsn(b - 1) = i
      <4>1. LastInsn(b - 1) \in DOMAIN insns /\ DOMAIN insns = 1 .. Len(insns) /\ Len(insns) \in Nat
        BY <2>1, FinishedBlocks, InsnFacts DEF IInv, BoundsInv
      <4>. QED BY <2>2, <3>2, <4>1
    <3>. QED BY <3>1, <3>3
  <2>6. CASE leader_vec[b + 1] \in LeaderTarget(i)
    BY <2>2, <2>6 DEF LeaderTarget, At
  <2>. QED BY <2>4, <2>5, <2>6
<1>. QED BY <1>1, PassesInvariant, PTL
=============================================================================
