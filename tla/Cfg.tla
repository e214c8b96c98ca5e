-------------------------------- MODULE Cfg ---------------------------------
(***************************************************************************)
(* cfg::build_cfg: the control-flow graph of one disassembled function.    *)
(*                                                                         *)
(* The code makes four passes, and each is a group of actions here: scan   *)
(* the instructions for block leaders, number the leaders in address       *)
(* order, deal the instructions out to the blocks, classify the            *)
(* terminator of every block.  The loops are modelled iteration by         *)
(* iteration, so that what one pass leaves behind for the next (ids that   *)
(* follow the addresses, no empty block, id + 1 as the physical successor) *)
(* is something to establish and not something the model assumes.          *)
(***************************************************************************)
EXTENDS Insn

CONSTANT Funcs      \* the disassembled functions to build graphs for

\* Capstone sweeps the text section linearly: addresses ascend, and a function
\* holds the instructions at or after its start address.
DisassembledFunction(f) ==
  /\ f.start_addr \in Nat
  /\ f.instructions \in Seq(DisassembledInsn)
  /\ \A i, j \in DOMAIN f.instructions :
       i < j => f.instructions[i].addr < f.instructions[j].addr
  /\ \A i \in DOMAIN f.instructions :
       f.start_addr <= f.instructions[i].addr

ASSUME FuncsAssumption == \A f \in Funcs : DisassembledFunction(f)

VARIABLES
  func,             \* the argument of build_cfg
  pc,               \* which pass is running
  idx,              \* instruction (1-based) or block (0-based) of the loop
  leaders,          \* BTreeSet of leader addresses
  leader_vec,       \* the leaders numbered so far, in ascending order
  addr_to_block,    \* leader address -> BlockId
  current_block,    \* block the last dealt instruction went to
  block_insns,      \* BlockId -> the instructions (their positions) in it
  blocks,           \* BlockId -> BasicBlock
  edges,            \* Vec of (BlockId, BlockId)
  entry_block

vars == << func, pc, idx, leaders, leader_vec, addr_to_block, current_block,
           block_insns, blocks, edges, entry_block >>

EmptyMap == [ x \in {} |-> x ]

insns == func.instructions

valid_addrs == { insns[i].addr : i \in DOMAIN insns }

BlockIds == 0 .. Len(leader_vec) - 1

-----------------------------------------------------------------------------
(* Terminators.                                                            *)

Return == [kind |-> "Return"]
Halt == [kind |-> "Halt"]
Jump(b) == [kind |-> "Jump", target |-> b]
Fallthrough(b) == [kind |-> "Fallthrough", fallthrough |-> b]
ConditionalJump(t, f) == [kind |-> "ConditionalJump", taken |-> t, fallthrough |-> f]
Call(addr, f) == [kind |-> "Call", target |-> addr, fallthrough |-> f]

Resolves(insn) == parse_hex_target(insn.op_str) \in DOMAIN addr_to_block

resolve_jump_target(insn) == addr_to_block[parse_hex_target(insn.op_str)]

\* Variant for mutation: the id after the last block counts as a block.
HasNextOffByOne(id) == id + 1 <= Len(leader_vec)

HasNext(id) == id + 1 < Len(leader_vec)

(* Each arm of the classification gives the terminator and the blocks that
   edges are pushed to, in the order they are pushed.                      *)
Ends(terminator, succs) == [terminator |-> terminator, succs |-> succs]

EndsInJmp(last) ==
  IF Resolves(last)
    THEN LET t == resolve_jump_target(last) IN Ends(Jump(t), << t >>)
    ELSE Ends(Halt, << >>)

\* Variant for mutation: a conditional jump that never falls through.
TakenOnly(last, id) == EndsInJmp(last)

EndsInCondJump(last, id) ==
  LET t == resolve_jump_target(last)
      f == id + 1
  IN  IF Resolves(last)
        THEN IF HasNext(id)
               THEN Ends(ConditionalJump(t, f), << t, f >>)
               ELSE Ends(Jump(t), << t >>)
        ELSE IF HasNext(id)
               THEN Ends(Fallthrough(f), << f >>)
               ELSE Ends(Halt, << >>)

\* Variant for mutation: a final call names the block after it.
CallWithoutSentinel(last, id) ==
  Ends(Call(0, id + 1), IF HasNext(id) THEN << id + 1 >> ELSE << >>)

EndsInCall(last, id) ==
  LET target == parse_hex_target(last.op_str)
      addr   == IF target = NoAddr THEN 0 ELSE target
  IN  IF HasNext(id)
        THEN Ends(Call(addr, id + 1), << id + 1 >>)
        ELSE Ends(Call(addr, id), << >>)          \* self-loop as sentinel

EndsInOther(id) ==
  IF HasNext(id)
    THEN Ends(Fallthrough(id + 1), << id + 1 >>)
    ELSE Ends(Return, << >>)

Classify(last, id) ==
  CASE IsRet(last)            -> Ends(Return, << >>)
    [] last.mnemonic = "jmp"  -> EndsInJmp(last)
    [] IsCondJump(last)       -> EndsInCondJump(last, id)
    [] IsCall(last)           -> EndsInCall(last, id)
    [] IsHalt(last)           -> Ends(Halt, << >>)
    [] OTHER                  -> EndsInOther(id)

-----------------------------------------------------------------------------
(* The passes.                                                             *)

Init ==
  /\ func \in Funcs
  /\ pc = "start"
  /\ idx = 1
  /\ leaders = {}
  /\ leader_vec = << >>
  /\ addr_to_block = EmptyMap
  /\ current_block = 0
  /\ block_insns = EmptyMap
  /\ blocks = EmptyMap
  /\ edges = << >>
  /\ entry_block = 0

\* An empty function has an empty graph.
EmptyFunction ==
  /\ pc = "start"
  /\ insns = << >>
  /\ pc' = "done"
  /\ UNCHANGED << func, idx, leaders, leader_vec, addr_to_block, current_block,
                  block_insns, blocks, edges, entry_block >>

\* (a) The function's first instruction is a leader.
SeedLeaders ==
  /\ pc = "start"
  /\ insns # << >>
  /\ leaders' = { insns[1].addr }
  /\ pc' = "scan"
  /\ UNCHANGED << func, idx, leader_vec, addr_to_block, current_block,
                  block_insns, blocks, edges, entry_block >>

EndsBlock(insn) == IsJump(insn) \/ IsCall(insn) \/ IsRet(insn) \/ IsHalt(insn)

\* Variant for mutation: every instruction is followed by a leader.
LeaderAfterAny(i) == { insns[j].addr : j \in { k \in DOMAIN insns : k = i + 1 } }

\* (c) the instruction after a branch, call, ret or halt.
LeaderAfter(i) ==
  { insns[j].addr : j \in { k \in DOMAIN insns : k = i + 1 /\ EndsBlock(insns[i]) } }

\* Variant for mutation: backward jumps are overlooked.
ForwardTarget(i) ==
  { a \in valid_addrs : /\ IsJump(insns[i]) /\ a = parse_hex_target(insns[i].op_str)
                        /\ a > insns[i].addr }

\* (b) the target of a jump that stays in the function.
LeaderTarget(i) ==
  { a \in valid_addrs : IsJump(insns[i]) /\ a = parse_hex_target(insns[i].op_str) }

ScanInsn ==
  /\ pc = "scan"
  /\ idx <= Len(insns)
  /\ leaders' = leaders \cup LeaderAfter(idx) \cup LeaderTarget(idx)
  /\ idx' = idx + 1
  /\ UNCHANGED << func, pc, leader_vec, addr_to_block, current_block,
                  block_insns, blocks, edges, entry_block >>

EndScan ==
  /\ pc = "scan"
  /\ idx > Len(insns)
  /\ pc' = "number"
  /\ UNCHANGED << func, idx, leaders, leader_vec, addr_to_block, current_block,
                  block_insns, blocks, edges, entry_block >>

\* A BTreeSet iterates in ascending order, enumerate() counts from 0.
NumberLeader ==
  /\ pc = "number"
  /\ \E a \in leaders \ DOMAIN addr_to_block :
       /\ \A b \in leaders \ DOMAIN addr_to_block : a <= b
       /\ leader_vec' = Append(leader_vec, a)
       /\ addr_to_block' = [ x \in DOMAIN addr_to_block \cup {a} |->
                               IF x = a THEN Len(leader_vec) ELSE addr_to_block[x] ]
  /\ UNCHANGED << func, pc, idx, leaders, current_block, block_insns, blocks,
                  edges, entry_block >>

EndNumber ==
  /\ pc = "number"
  /\ leaders \subseteq DOMAIN addr_to_block
  /\ block_insns' = [ b \in BlockIds |-> << >> ]
  /\ current_block' = 0
  /\ idx' = 1
  /\ pc' = "deal"
  /\ UNCHANGED << func, leaders, leader_vec, addr_to_block, blocks, edges,
                  entry_block >>

\* Variant for mutation: the instruction is dealt before the block is switched.
DealBeforeSwitch ==
  /\ pc = "deal"
  /\ idx <= Len(insns)
  /\ current_block' = IF insns[idx].addr \in DOMAIN addr_to_block
                        THEN addr_to_block[insns[idx].addr]
                        ELSE current_block
  /\ block_insns' = [ block_insns EXCEPT ![current_block] = Append(@, idx) ]
  /\ idx' = idx + 1
  /\ UNCHANGED << func, pc, leaders, leader_vec, addr_to_block, blocks, edges,
                  entry_block >>

\* A leader opens its block; every other instruction joins the current one.
DealInsn ==
  /\ pc = "deal"
  /\ idx <= Len(insns)
  /\ current_block' = IF insns[idx].addr \in DOMAIN addr_to_block
                        THEN addr_to_block[insns[idx].addr]
                        ELSE current_block
  /\ block_insns' = [ block_insns EXCEPT ![current_block'] = Append(@, idx) ]
  /\ idx' = idx + 1
  /\ UNCHANGED << func, pc, leaders, leader_vec, addr_to_block, blocks, edges,
                  entry_block >>

EndDeal ==
  /\ pc = "deal"
  /\ idx > Len(insns)
  /\ idx' = 0
  /\ pc' = "classify"
  /\ UNCHANGED << func, leaders, leader_vec, addr_to_block, current_block,
                  block_insns, blocks, edges, entry_block >>

FirstInsn(b) == block_insns[b][1]

LastInsn(b) == block_insns[b][Len(block_insns[b])]

BasicBlock(b) ==
  LET last == insns[LastInsn(b)]
  IN  [ id           |-> b,
        start_addr   |-> insns[FirstInsn(b)].addr,
        end_addr     |-> last.addr + last.size,
        instructions |-> block_insns[b],
        terminator   |-> Classify(last, b).terminator ]

EdgesFrom(b) ==
  LET succs == Classify(insns[LastInsn(b)], b).succs
  IN  [ k \in DOMAIN succs |-> << b, succs[k] >> ]

\* A block that was dealt no instruction is passed over.
ClassifyBlock ==
  /\ pc = "classify"
  /\ idx < Len(leader_vec)
  /\ IF block_insns[idx] = << >>
       THEN UNCHANGED << blocks, edges >>
       ELSE /\ blocks' = [ b \in DOMAIN blocks \cup {idx} |->
                             IF b = idx THEN BasicBlock(idx) ELSE blocks[b] ]
            /\ edges' = edges \o EdgesFrom(idx)
  /\ idx' = idx + 1
  /\ UNCHANGED << func, pc, leaders, leader_vec, addr_to_block, current_block,
                  block_insns, entry_block >>

\* Variant for mutation: the last block dealt to is the default entry.
EntryDefaultsToCurrent ==
  /\ pc = "classify"
  /\ idx >= Len(leader_vec)
  /\ entry_block' = IF func.start_addr \in DOMAIN addr_to_block
                      THEN addr_to_block[func.start_addr]
                      ELSE current_block
  /\ pc' = "done"
  /\ UNCHANGED << func, idx, leaders, leader_vec, addr_to_block, current_block,
                  block_insns, blocks, edges >>

\* The entry is the block at the start address, or block 0.
Finish ==
  /\ pc = "classify"
  /\ idx >= Len(leader_vec)
  /\ entry_block' = IF func.start_addr \in DOMAIN addr_to_block
                      THEN addr_to_block[func.start_addr]
                      ELSE 0
  /\ pc' = "done"
  /\ UNCHANGED << func, idx, leaders, leader_vec, addr_to_block, current_block,
                  block_insns, blocks, edges >>

Terminated == pc = "done" /\ UNCHANGED vars

Next ==
  \/ EmptyFunction
  \/ SeedLeaders
  \/ ScanInsn
  \/ EndScan
  \/ NumberLeader
  \/ EndNumber
  \/ DealInsn
  \/ EndDeal
  \/ ClassifyBlock
  \/ Finish
  \/ Terminated

Spec == Init /\ [][Next]_vars

-----------------------------------------------------------------------------
(* What may happen after an instruction, read off the instruction alone: the
   positions in the function control can go to.  Calls are stepped over.
   Jumps are the ones cfg.rs has in its tables; JumpsEndBlocks is about the
   others.                                                                 *)

At(a) == { j \in DOMAIN insns : insns[j].addr = a }

FlowSucc(i) ==
  LET next   == { i + 1 } \cap DOMAIN insns
      target == At(parse_hex_target(insns[i].op_str))
  IN  CASE IsRet(insns[i]) \/ IsHalt(insns[i]) -> {}
        [] insns[i].mnemonic = "jmp"           -> target
        [] IsCondJump(insns[i])                -> target \cup next
        [] OTHER                               -> next

EdgeSet == { edges[k] : k \in DOMAIN edges }

\* The blocks a terminator names; the sentinel of a final call names none.
Successors(b) ==
  LET t == blocks[b].terminator
  IN  CASE t.kind = "Jump"            -> { t.target }
        [] t.kind = "ConditionalJump" -> { t.taken, t.fallthrough }
        [] t.kind = "Fallthrough"     -> { t.fallthrough }
        [] t.kind = "Call"            -> { t.fallthrough } \ { b }
        [] OTHER                      -> {}

-----------------------------------------------------------------------------
(* Properties.                                                             *)

\* Types of the variables, pass by pass (the locals of build_cfg).
TypeOK ==
  /\ pc \in { "start", "scan", "number", "deal", "classify", "done" }
  /\ idx \in Nat
  /\ leaders \subseteq valid_addrs
  /\ leader_vec \in Seq(Nat)
  /\ addr_to_block \in [ DOMAIN addr_to_block -> BlockIds ]
  /\ DOMAIN addr_to_block \subseteq leaders
  /\ pc \in { "deal", "classify" } => block_insns \in [ BlockIds -> Seq(DOMAIN insns) ]
  /\ DOMAIN blocks \subseteq BlockIds
  /\ edges \in Seq(BlockIds \X BlockIds)
  /\ entry_block \in Nat

\* A finished graph loses no instruction, holds none twice and keeps them in
\* address order: the blocks in id order are consecutive stretches of the
\* function (the partition loop of build_cfg).
BlocksPartition ==
  pc = "done" /\ insns # << >> =>
    /\ DOMAIN blocks = BlockIds
    /\ \A b \in BlockIds :
         /\ block_insns[b] # << >>
         /\ \A k \in 1 .. Len(block_insns[b]) - 1 :
              block_insns[b][k + 1] = block_insns[b][k] + 1
         /\ HasNext(b) => FirstInsn(b + 1) = LastInsn(b) + 1
    /\ FirstInsn(0) = 1
    /\ LastInsn(Len(leader_vec) - 1) = Len(insns)

\* A finished block is straight-line code: control leaves an instruction that
\* is not the last one only to the next one of the block, and enters the block
\* from elsewhere only at its first instruction.
StraightLine ==
  pc = "done" =>
    \A b \in DOMAIN blocks : \A k \in 1 .. Len(block_insns[b]) :
      LET i == block_insns[b][k]
      IN  /\ k < Len(block_insns[b]) => FlowSucc(i) = { i + 1 }
          /\ k > 1 => \A j \in DOMAIN insns : i \in FlowSucc(j) => j = i - 1

\* A block is as long as it can be: one begins only at the start, after an
\* instruction that ends a block, or where some jump goes.
BlocksMaximal ==
  pc = "done" =>
    \A b \in DOMAIN blocks \ {0} :
      \/ EndsBlock(insns[LastInsn(b - 1)])
      \/ \E j \in DOMAIN insns :
           IsJump(insns[j]) /\ FirstInsn(b) \in At(parse_hex_target(insns[j].op_str))

\* The edges of a finished graph are the control flow of the machine code
\* between its blocks, no more and no less: id + 1 in the code really is the
\* block that follows in memory, and a resolved target really is the block
\* that begins at the target.
EdgesAreFlow ==
  pc = "done" =>
    \A a, b \in DOMAIN blocks :
      << a, b >> \in EdgeSet <=> FirstInsn(b) \in FlowSucc(LastInsn(a))

\* The two records of control flow that build_cfg leaves, the edge list and the
\* terminators, agree, and neither names a block that does not exist.
TerminatorsMatchEdges ==
  pc = "done" =>
    /\ \A b \in DOMAIN blocks :
         Successors(b) = { e[2] : e \in { x \in EdgeSet : x[1] = b } }
    /\ \A e \in EdgeSet : e[1] \in DOMAIN blocks /\ e[2] \in DOMAIN blocks

\* The entry block holds the function's first instruction, also when the start
\* address of the function is not the address of an instruction.
EntryIsFirst ==
  pc = "done" /\ insns # << >> =>
    entry_block \in DOMAIN blocks /\ FirstInsn(entry_block) = 1

\* BasicBlock, "A maximal straight-line sequence of instructions": a jump, of
\* whatever kind, is the last instruction of its block.
JumpsEndBlocks ==
  pc = "done" =>
    \A b \in DOMAIN blocks : \A k \in 1 .. Len(block_insns[b]) - 1 :
      insns[block_insns[b][k]].mnemonic \notin
        COND_JUMPS \cup { "jmp", "jcxz", "jecxz", "jrcxz", "loop", "loope", "loopne" }
=============================================================================
