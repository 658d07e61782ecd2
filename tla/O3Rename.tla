------------------------------ MODULE O3Rename ------------------------------
(***************************************************************************)
(* Register renaming and recovery in the O3 CPU (src/cpu/o3): the rename   *)
(* stage (rename.cc) with its map, history buffer and delayed freeing, the *)
(* free list the threads share, and the commit stage (commit.cc) with the  *)
(* reorder buffer (rob.cc).                                                *)
(*                                                                         *)
(* CPU::tick runs rename before commit and then advances the time buffers, *)
(* so what commit tells rename, and what rename sends to commit, is read   *)
(* one cycle later.  A cycle is, thread by thread, RenameSignals followed  *)
(* by up to RenameWidth times RenameInst; then, thread by thread,          *)
(* RetireHistory; and then, thread by thread, CommitTick.  The threads     *)
(* meet only in the free list.                                             *)
(*                                                                         *)
(* The history buffer, the ROB and the renamed instructions on their way   *)
(* to it are kept as sets ordered by sequence number.  Which register of   *)
(* the free list is taken, when an instruction has executed and which      *)
(* instruction mispredicts, violates the memory order or faults is chosen  *)
(* freely.  Pinned registers are not modelled.                             *)
(***************************************************************************)
EXTENDS Integers, FiniteSets

CONSTANTS NumThreads,
          Arch, Phys,         \* architectural and physical registers
          Fixed,              \* registers that are not renamed (misc registers)
          Dests,              \* the sets of registers an instruction can write
          RenameWidth, SquashWidth,
          MaxSeq,             \* bound: instructions renamed
          MaxTC               \* bound: squashes asked for through a thread context

ASSUME RegsAssumption == /\ Fixed \subseteq Arch /\ Dests \subseteq SUBSET Arch /\ Phys \cap Arch = {}
                         /\ IsFiniteSet(Arch) /\ IsFiniteSet(Phys)
ASSUME WidthAssumption == SquashWidth \in Nat \ {0} /\ RenameWidth \in Nat \ {0}

Thread == 1 .. NumThreads

VARIABLES
  stage,         \* stage[t]: the part of the cycle the thread is in
  renameMap,     \* Rename::renameMap
  historyBuffer, \* Rename::historyBuffer
  freeing,       \* Rename::freeingInProgress
  freeList,      \* UnifiedFreeList, shared by the threads
  toIEW,         \* instructions renamed in this cycle
  fromRename,    \* instructions renamed in the previous cycle
  nextSeq,       \* CPU::globalSeqNum
  commitInfo,    \* what commit broadcast in the previous cycle
  rob,           \* ROB::instList
  squashIt,      \* ROB::squashIt, as a sequence number; 0: doneSquashing
  squashedSeqNum,\* ROB::squashedSeqNum
  commitStatus, commitMap, youngestSeqNum, lastCommited, tcSquashes

rename == <<renameMap, historyBuffer, freeing, toIEW, nextSeq>>
commit == <<commitInfo, rob, squashIt, squashedSeqNum, commitStatus, commitMap,
            youngestSeqNum, lastCommited, tcSquashes>>
vars == <<stage, rename, freeList, fromRename, commit>>

(***************************************************************************)
(* An instruction: its sequence number, the registers it writes, the       *)
(* mappings before and after it was renamed, its Squashed flag.            *)
(***************************************************************************)
PhysReg == Phys \cup Fixed
Inst == [seq : Nat \ {0}, writes : Dests, src : [Arch -> PhysReg], dest : [Arch -> PhysReg],
         squashed : BOOLEAN]
RenameHistory == [seq : Nat \ {0}, arch : Arch, new : PhysReg, prev : PhysReg]
CommitInfo == [squash : BOOLEAN, robSquashing : BOOLEAN, done : Nat]

Seqs(S) == {i.seq : i \in S}
Newest(S) == CHOOSE i \in S : \A j \in S : j.seq <= i.seq
Oldest(S) == CHOOSE i \in S : \A j \in S : j.seq >= i.seq

(* CPU::CPU: every renamed register of every thread starts with a physical register of its own. *)
InitialMap == {m \in [Thread -> [Arch -> PhysReg]] :
                 /\ \A t \in Thread, a \in Fixed : m[t][a] = a
                 /\ \A t, u \in Thread, a, b \in Arch \ Fixed :
                      m[t][a] \in Phys /\ (m[t][a] = m[u][b] => (t = u /\ a = b))}

Init ==
  /\ stage = [t \in Thread |-> "signals"]
  /\ renameMap \in InitialMap
  /\ commitMap = renameMap
  /\ freeList = Phys \ {renameMap[t][a] : t \in Thread, a \in Arch}
  /\ historyBuffer = [t \in Thread |-> {}]
  /\ freeing = [t \in Thread |-> {}]
  /\ toIEW = [t \in Thread |-> {}]
  /\ fromRename = [t \in Thread |-> {}]
  /\ nextSeq = 1
  /\ commitInfo = [t \in Thread |-> [squash |-> FALSE, robSquashing |-> FALSE, done |-> 0]]
  /\ rob = [t \in Thread |-> {}]
  /\ squashIt = [t \in Thread |-> 0]
  /\ squashedSeqNum = [t \in Thread |-> 0]
  /\ commitStatus = [t \in Thread |-> "Running"]
  /\ youngestSeqNum = [t \in Thread |-> 0]
  /\ lastCommited = [t \in Thread |-> 0]
  /\ tcSquashes = 0

-----------------------------------------------------------------------------
(* The rename stage. *)

Younger(t, s) == {h \in historyBuffer[t] : h.seq > s}
Older(t, s) == {h \in historyBuffer[t] : h.seq <= s}

(* Misc registers are recognised by the new mapping being the old one. *)
Renamed(H) == {h \in H : h.new # h.prev}

(* Slip: the walk starts at the oldest entry, so the newest one undone decides. *)
UndoForwards(m, H) == [a \in Arch |-> LET W == {h \in Renamed(H) : h.arch = a}
                                      IN  IF W = {} THEN m[a] ELSE Newest(W).prev]

(* doSquash walks from the newest entry back, so the oldest entry undone for a register decides. *)
Undo(m, H) == [a \in Arch |-> LET W == {h \in Renamed(H) : h.arch = a}
                              IN  IF W = {} THEN m[a] ELSE Oldest(W).prev]

(* Slip: the registers of this squash replace those of one still in progress. *)
SquashOverwrites(t) ==
  LET H == Younger(t, commitInfo[t].done) IN
  /\ commitInfo[t].squash
  /\ renameMap' = [renameMap EXCEPT ![t] = Undo(@, H)]
  /\ freeing' = [freeing EXCEPT ![t] = {h.new : h \in Renamed(H)}]
  /\ historyBuffer' = [historyBuffer EXCEPT ![t] = @ \ H]
  /\ fromRename' = [fromRename EXCEPT ![t] = {[i EXCEPT !.squashed = TRUE] : i \in @}]
  /\ UNCHANGED <<freeList, toIEW, nextSeq, commit>>

(***************************************************************************)
(* Rename::checkSignalsAndUpdate.  On a squash the mappings made after     *)
(* doneSeqNum are undone and their registers set aside; fetch has marked   *)
(* every instruction not yet in the ROB as squashed in the same cycle.     *)
(* The registers set aside are freed once the ROB has stopped squashing.   *)
(***************************************************************************)
Squash(t) ==
  LET H == Younger(t, commitInfo[t].done) IN
  /\ commitInfo[t].squash
  /\ renameMap' = [renameMap EXCEPT ![t] = Undo(@, H)]
  /\ freeing' = [freeing EXCEPT ![t] = @ \cup {h.new : h \in Renamed(H)}]
  /\ historyBuffer' = [historyBuffer EXCEPT ![t] = @ \ H]
  /\ fromRename' = [fromRename EXCEPT ![t] = {[i EXCEPT !.squashed = TRUE] : i \in @}]
  /\ UNCHANGED <<freeList, toIEW, nextSeq, commit>>

(* Slip: the registers set aside are freed without waiting for the ROB. *)
FreeAtOnce(t) ==
  /\ ~commitInfo[t].squash
  /\ freeList' = freeList \cup freeing[t]
  /\ freeing' = [freeing EXCEPT ![t] = {}]
  /\ UNCHANGED <<renameMap, historyBuffer, toIEW, nextSeq, fromRename, commit>>

FreeSquashed(t) ==
  /\ ~commitInfo[t].squash
  /\ IF commitInfo[t].robSquashing
       THEN UNCHANGED <<freeList, freeing>>
       ELSE /\ freeList' = freeList \cup freeing[t]
            /\ freeing' = [freeing EXCEPT ![t] = {}]
  /\ UNCHANGED <<renameMap, historyBuffer, toIEW, nextSeq, fromRename, commit>>

(* The loops over the threads: t takes its step from one stage to the next after the threads before it. *)
Advance(t, from, to) ==
  /\ stage[t] = from
  /\ \A u \in Thread : (u < t => stage[u] = to) /\ (u > t => stage[u] = from)
  /\ stage' = [stage EXCEPT ![t] = to]

RenameSignals(t) ==
  /\ Advance(t, "signals", "rename")
  /\ Squash(t) \/ FreeSquashed(t)

(* What renaming the registers in D can give: distinct free registers, misc registers themselves. *)
Assignments(t, D) ==
  {new \in [D -> freeList \cup Fixed] :
     /\ \A a \in D \cap Fixed : new[a] = renameMap[t][a]
     /\ \A a \in D \ Fixed : new[a] \in freeList
     /\ \A a, b \in D \ Fixed : new[a] = new[b] => a = b}

RenamedMap(t, D, new) == [a \in Arch |-> IF a \in D THEN new[a] ELSE renameMap[t][a]]

renameDestRegs(t, D, new) ==
  /\ freeList' = freeList \ {new[a] : a \in D}
  /\ renameMap' = [renameMap EXCEPT ![t] = RenamedMap(t, D, new)]
  /\ historyBuffer' = [historyBuffer EXCEPT ![t] = @ \cup
                         {[seq |-> nextSeq, arch |-> a, new |-> new[a],
                           prev |-> renameMap[t][a]] : a \in D}]

(***************************************************************************)
(* One instruction of renameInsts, writing the registers in D.  Rename is  *)
(* stalled while the ROB squashes (IEW::checkStall blocks it, and before   *)
(* the block arrives decode has nothing to give it).  Too few free         *)
(* registers block it (canRename).                                         *)
(***************************************************************************)
RenameInst(t, D) ==
  /\ stage[t] = "rename"
  /\ \A u \in Thread : (u < t => stage[u] = "rename") /\ (u > t => stage[u] = "signals")
  /\ ~commitInfo[t].robSquashing
  /\ Cardinality(toIEW[t]) < RenameWidth
  /\ nextSeq <= MaxSeq
  /\ Cardinality(D \ Fixed) <= Cardinality(freeList)
  /\ \E new \in Assignments(t, D) :
       /\ renameDestRegs(t, D, new)
       /\ toIEW' = [toIEW EXCEPT ![t] = @ \cup
                      {[seq |-> nextSeq, writes |-> D, src |-> renameMap[t],
                        dest |-> RenamedMap(t, D, new), squashed |-> FALSE]}]
  /\ nextSeq' = nextSeq + 1
  /\ UNCHANGED <<stage, freeing, fromRename, commit>>

(* The end of Rename::tick: removeFromHistory for what commit retired in the previous cycle. *)
RetireHistory(t) ==
  LET H == IF commitInfo[t].squash THEN {} ELSE Older(t, commitInfo[t].done) IN
  /\ Advance(t, "rename", "commit")
  /\ historyBuffer' = [historyBuffer EXCEPT ![t] = @ \ H]
  /\ freeList' = freeList \cup {h.prev : h \in Renamed(H)}
  /\ UNCHANGED <<renameMap, freeing, toIEW, nextSeq, fromRename, commit>>

-----------------------------------------------------------------------------
(* The commit stage. *)

(* ROB::doSquash: the SquashWidth newest instructions from the iterator down to s. *)
Walk(R, it, s) == {i \in R : s < i.seq /\ i.seq <= it}
Marked(R, it, s) ==
  {i \in Walk(R, it, s) : Cardinality({j \in Walk(R, it, s) : j.seq > i.seq}) < SquashWidth}
AfterSquash(R, it, s) ==
  (R \ Marked(R, it, s)) \cup {[i EXCEPT !.squashed = TRUE] : i \in Marked(R, it, s)}
NextIt(R, it, s) ==
  LET left == Walk(R, it, s) \ Marked(R, it, s) IN IF left = {} THEN 0 ELSE Newest(left).seq

doSquash(t, R, it, s) ==
  /\ rob' = [rob EXCEPT ![t] = AfterSquash(R, it, s)]
  /\ squashIt' = [squashIt EXCEPT ![t] = NextIt(R, it, s)]
  /\ squashedSeqNum' = [squashedSeqNum EXCEPT ![t] = s]

(* The start of Commit::tick lets the ROB go on with a squash before new ones are looked at. *)
IsSquashing(t) == commitStatus[t] = "ROBSquashing" /\ squashIt[t] # 0
TickedROB(t) == IF IsSquashing(t) THEN AfterSquash(rob[t], squashIt[t], squashedSeqNum[t])
                                  ELSE rob[t]

(* ROB::squash(s): starts again at the tail; an empty ROB has nothing to squash. *)
robSquash(t, s) ==
  IF rob[t] = {} THEN UNCHANGED <<rob, squashIt, squashedSeqNum>>
                 ELSE doSquash(t, TickedROB(t), Newest(rob[t]).seq, s)

SquashTo(t, s, youngest) ==
  /\ robSquash(t, s)
  /\ commitStatus' = [commitStatus EXCEPT ![t] = "ROBSquashing"]
  /\ youngestSeqNum' = [youngestSeqNum EXCEPT ![t] = youngest]
  /\ commitInfo' = [commitInfo EXCEPT ![t] = [squash |-> TRUE, robSquashing |-> TRUE, done |-> s]]
  /\ UNCHANGED <<commitMap, lastCommited>>

(* squashAll, for a trap, for squashAfter and for a write through a thread context. *)
SquashAll(t) ==
  /\ \/ commitStatus[t] \in {"TrapPending", "SquashAfterPending"} /\ UNCHANGED tcSquashes
     \/ /\ commitStatus[t] \in {"Running", "ROBSquashing"}
        /\ tcSquashes < MaxTC
        /\ tcSquashes' = tcSquashes + 1
  /\ SquashTo(t, IF rob[t] = {} THEN lastCommited[t] ELSE Oldest(rob[t]).seq - 1,
              lastCommited[t])

(* Slip: a squash from a younger instruction overrides the one in progress. *)
IEWSquashAny(t) ==
  \E i \in rob[t], include \in BOOLEAN :
    /\ ~i.squashed
    /\ commitStatus[t] \in {"Running", "ROBSquashing"}
    /\ LET s == IF include THEN i.seq - 1 ELSE i.seq IN SquashTo(t, s, s)
    /\ UNCHANGED tcSquashes

(* A mispredicted branch or a memory order violation reported by IEW at i; the latter squashes i too. *)
IEWSquash(t) ==
  \E i \in rob[t], include \in BOOLEAN :
    /\ ~i.squashed
    /\ commitStatus[t] \in {"Running", "ROBSquashing"}
    /\ i.seq <= youngestSeqNum[t]
    /\ LET s == IF include THEN i.seq - 1 ELSE i.seq IN SquashTo(t, s, s)
    /\ UNCHANGED tcSquashes

(* No new squash while the ROB is still squashing the last one. *)
StillSquashing(t) ==
  /\ IsSquashing(t)
  /\ doSquash(t, rob[t], squashIt[t], squashedSeqNum[t])
  /\ commitInfo' = [commitInfo EXCEPT ![t] = [squash |-> FALSE, robSquashing |-> TRUE, done |-> 0]]
  /\ UNCHANGED <<commitStatus, commitMap, youngestSeqNum, lastCommited, tcSquashes>>

(***************************************************************************)
(* getInsts and commitInsts of a thread that is not squashing.  The heads  *)
(* up to sequence number k leave the ROB: the squashed ones retire, the    *)
(* others commit and update the commit rename map.                         *)
(***************************************************************************)
Inserted(t) == IF commitStatus[t] = "TrapPending" THEN {}
               ELSE {i \in fromRename[t] : ~i.squashed}

Writers(C, a) == {i \in C : a \in i.writes}

CommitInsts(t) ==
  LET R == rob[t] \cup Inserted(t) IN
  /\ ~IsSquashing(t) /\ commitStatus[t] # "SquashAfterPending"
  /\ youngestSeqNum' = [youngestSeqNum EXCEPT ![t] =
                          IF Inserted(t) = {} THEN @ ELSE Newest(Inserted(t)).seq]
  /\ \E k \in {0} \cup (IF commitStatus[t] = "TrapPending" THEN {} ELSE Seqs(R)) :
       LET out == {i \in R : i.seq <= k}
           C == {i \in out : ~i.squashed} IN
       /\ rob' = [rob EXCEPT ![t] = R \ out]
       /\ commitMap' = [commitMap EXCEPT ![t] = [a \in Arch |->
                          IF Writers(C, a) = {} THEN @[a] ELSE Newest(Writers(C, a)).dest[a]]]
       /\ lastCommited' = [lastCommited EXCEPT ![t] = IF C = {} THEN @ ELSE Newest(C).seq]
       /\ commitInfo' = [commitInfo EXCEPT ![t] =
                           [squash |-> FALSE, robSquashing |-> FALSE,
                            done |-> IF C = {} THEN 0 ELSE Newest(C).seq]]
       /\ \/ commitStatus' = [commitStatus EXCEPT ![t] =
                                IF @ = "TrapPending" THEN @ ELSE "Running"]
          \/ /\ commitStatus[t] # "TrapPending"
             /\ R \ out # {} /\ ~Oldest(R \ out).squashed
             /\ commitStatus' = [commitStatus EXCEPT ![t] = "TrapPending"]
          \/ /\ C # {} /\ Newest(out) \in C
             /\ commitStatus' = [commitStatus EXCEPT ![t] = "SquashAfterPending"]
  /\ UNCHANGED <<squashIt, squashedSeqNum, tcSquashes>>

(* Commit::tick, after which the time buffers advance. *)
CommitTick(t) ==
  /\ Advance(t, "commit", "signals")
  /\ SquashAll(t) \/ IEWSquash(t) \/ StillSquashing(t) \/ CommitInsts(t)
  /\ fromRename' = [fromRename EXCEPT ![t] = toIEW[t]]
  /\ toIEW' = [toIEW EXCEPT ![t] = {}]
  /\ UNCHANGED <<renameMap, historyBuffer, freeing, freeList, nextSeq>>

Next == \E t \in Thread :
          \/ RenameSignals(t) \/ RetireHistory(t) \/ CommitTick(t)
          \/ \E D \in Dests : RenameInst(t, D)

Spec == Init /\ [][Next]_vars

-----------------------------------------------------------------------------
(* The types; only physical registers that can be renamed are ever free. *)
TypeOK ==
  /\ stage \in [Thread -> {"signals", "rename", "commit"}]
  /\ renameMap \in [Thread -> [Arch -> PhysReg]]
  /\ commitMap \in [Thread -> [Arch -> PhysReg]]
  /\ freeList \in SUBSET Phys
  /\ freeing \in [Thread -> SUBSET Phys]
  /\ historyBuffer \in [Thread -> SUBSET RenameHistory]
  /\ \A f \in {toIEW, fromRename, rob} : f \in [Thread -> SUBSET Inst]
  /\ commitInfo \in [Thread -> CommitInfo]
  /\ commitStatus \in [Thread -> {"Running", "ROBSquashing", "TrapPending", "SquashAfterPending"}]
  /\ \A f \in {squashIt, squashedSeqNum, youngestSeqNum, lastCommited} : f \in [Thread -> Nat]
  /\ nextSeq \in Nat \ {0}

(***************************************************************************)
(* Where a physical register can be: mapped, kept as the previous mapping  *)
(* of a renamed register, set aside by a squash, or free.                  *)
(***************************************************************************)
Maps(r) == {p \in Thread \X (Arch \ Fixed) : renameMap[p[1]][p[2]] = r}
Kept(r, t) == {h \in Renamed(historyBuffer[t]) : h.prev = r}
Aside(r) == {t \in Thread : r \in freeing[t]}

(* No physical register is in two of those places, or twice in one: none is freed twice or given to two owners. *)
NoDoubleFree ==
  \A r \in Phys :
    /\ \A p, q \in Maps(r) : p = q
    /\ \A t, u \in Thread : \A g \in Kept(r, t), h \in Kept(r, u) : t = u /\ g = h
    /\ \A t, u \in Aside(r) : t = u
    /\ Maps(r) # {} => r \notin freeList /\ Aside(r) = {} /\ \A t \in Thread : Kept(r, t) = {}
    /\ Aside(r) # {} => r \notin freeList /\ \A t \in Thread : Kept(r, t) = {}
    /\ r \in freeList => \A t \in Thread : Kept(r, t) = {}

(* Every physical register is in one of those places: no squash or retirement leaks one. *)
NoRegisterLost ==
  \A r \in Phys : \/ r \in freeList \/ Maps(r) # {} \/ Aside(r) # {}
                 \/ \E t \in Thread : Kept(r, t) # {}

(* The mappings of a that no committed instruction has confirmed. *)
Uncommitted(t, a) == {h \in Renamed(Younger(t, lastCommited[t])) : h.arch = a}

(***************************************************************************)
(* Undoing every mapping that has not been committed gives the mapping the *)
(* committed instructions made (the commit rename map), whatever squashes  *)
(* are in progress: recovery to the last committed instruction is exact.   *)
(***************************************************************************)
PreciseState ==
  \A t \in Thread, a \in Arch :
    \/ Uncommitted(t, a) = {} /\ commitMap[t][a] = renameMap[t][a]
    \/ \E h \in Uncommitted(t, a) : /\ \A g \in Uncommitted(t, a) : h.seq <= g.seq
                                  /\ commitMap[t][a] = h.prev

InFlight(t) == {i \in rob[t] \cup fromRename[t] \cup toIEW[t] : ~i.squashed}

(***************************************************************************)
(* A register that an instruction in flight reads or writes is not on the  *)
(* free list until that instruction has been marked as squashed or has     *)
(* committed (the ownership hazard in the comment of Rename::doSquash).    *)
(***************************************************************************)
NotOwned ==
  \A t \in Thread : \A i \in InFlight(t) :
    /\ \A a \in i.writes : i.dest[a] \notin freeList
    /\ \A a \in Arch : i.src[a] \notin freeList
=============================================================================
