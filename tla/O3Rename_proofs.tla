--------------------------- MODULE O3Rename_proofs ---------------------------
(***************************************************************************)
(* The steps of the commit stage keep the inductive invariant of           *)
(* O3Rename_registers, and the theorems about O3Rename.                    *)
(***************************************************************************)
EXTENDS O3Rename_registers

-----------------------------------------------------------------------------
(* The commit stage. *)

(* What a step of ROB::doSquash leaves: marked copies, and the iterator at the newest one still to be marked. *)
Squashed(R, R2, it, s, it2) ==
  /\ \A j \in R2 : \E i \in R : /\ j.seq = i.seq /\ j.writes = i.writes /\ j.src = i.src /\ j.dest = i.dest
                                /\ j = i \/ (j.squashed /\ s < i.seq /\ i.seq <= it)
  /\ \A i \in R : \E j \in R2 : j.seq = i.seq /\ (j = i \/ (j.squashed /\ s < i.seq /\ i.seq <= it))
  /\ \A i, j \in R2 : i.seq = j.seq => i = j
  /\ \A i \in R2 : ~i.squashed /\ s < i.seq /\ i.seq <= it => it2 # 0 /\ i.seq <= it2
  /\ it2 # 0 => it2 <= it /\ \E i \in R2 : i.seq = it2
  /\ it2 \in Nat

(* A step of ROB::doSquash does that. *)
LEMMA DoSquash ==
  ASSUME NEW R \in SUBSET Inst, NEW it \in Nat, NEW s \in Nat,
         \A i, j \in R : i.seq = j.seq => i = j
  PROVE  Squashed(R, AfterSquash(R, it, s), it, s, NextIt(R, it, s))
<1> DEFINE M == Marked(R, it, s)
           R2 == AfterSquash(R, it, s)
           left == Walk(R, it, s) \ M
           it2 == NextIt(R, it, s)
<1>1. M \in SUBSET R /\ \A i \in M : s < i.seq /\ i.seq <= it
  BY Zenon DEF Marked, Walk
<1>2. \A i \in R : i.seq \in Nat /\ i.seq # 0
  BY Zenon DEF Inst
<1>3. R2 = (R \ M) \cup {[i EXCEPT !.squashed = TRUE] : i \in M}
  BY Zenon DEF AfterSquash
<1>4. it2 = IF left = {} THEN 0 ELSE Newest(left).seq
  BY Zenon DEF NextIt
<1>5. left = {i \in R : s < i.seq /\ i.seq <= it /\ i \notin M}
  BY Zenon DEF Walk
<1> HIDE DEF M, R2, left, it2
<1>6. left # {} => Newest(left) \in left /\ \A i \in left : i.seq <= Newest(left).seq
  BY Zenon, <1>2, <1>5, NewestIs
<1>7. ASSUME NEW j \in R2
      PROVE  \E i \in R : /\ j.seq = i.seq /\ j.writes = i.writes /\ j.src = i.src /\ j.dest = i.dest
                          /\ (j = i /\ i \notin M) \/ (j.squashed /\ i \in M /\ j = [i EXCEPT !.squashed = TRUE])
  <2>1. CASE j \in R \ M
    BY Zenon, <2>1
  <2>2. CASE \E i \in M : j = [i EXCEPT !.squashed = TRUE]
    <3>1. PICK i \in M : j = [i EXCEPT !.squashed = TRUE]
      BY Zenon, <2>2
    <3> QED BY Zenon, <1>1, <3>1, Marking
  <2> QED BY Zenon, <1>3, <2>1, <2>2
<1>8. ASSUME NEW i \in R
      PROVE  \E j \in R2 : /\ j.seq = i.seq
                           /\ (j = i /\ i \notin M) \/ (j.squashed /\ i \in M)
  BY Zenon, <1>3, Marking
<1>9. ASSUME NEW i \in R2, NEW j \in R2, i.seq = j.seq PROVE i = j
  <2>1. PICK p \in R : /\ i.seq = p.seq
                       /\ (i = p /\ p \notin M) \/ (i.squashed /\ p \in M /\ i = [p EXCEPT !.squashed = TRUE])
    BY Zenon, <1>7
  <2>2. PICK q \in R : /\ j.seq = q.seq
                       /\ (j = q /\ q \notin M) \/ (j.squashed /\ q \in M /\ j = [q EXCEPT !.squashed = TRUE])
    BY Zenon, <1>7
  <2> QED BY Zenon, <1>9, <2>1, <2>2
<1>10. it2 \in Nat
  BY Zenon, <1>2, <1>4, <1>5, <1>6
<1>11. ASSUME NEW i \in R2, ~i.squashed, s < i.seq, i.seq <= it PROVE it2 # 0 /\ i.seq <= it2
  BY <1>2, <1>4, <1>5, <1>6, <1>7, <1>10, <1>11
<1>12. ASSUME it2 # 0 PROVE it2 <= it /\ \E i \in R2 : i.seq = it2
  BY Zenon, <1>3, <1>4, <1>5, <1>6, <1>12
<1>13. \A j \in R2 : \E i \in R : /\ j.seq = i.seq /\ j.writes = i.writes /\ j.src = i.src /\ j.dest = i.dest
                                  /\ j = i \/ (j.squashed /\ s < i.seq /\ i.seq <= it)
  BY Zenon, <1>1, <1>7
<1>14. \A i \in R : \E j \in R2 : j.seq = i.seq /\ (j = i \/ (j.squashed /\ s < i.seq /\ i.seq <= it))
  BY Zenon, <1>1, <1>8
<1> QED
  BY Zenon, <1>9, <1>10, <1>11, <1>12, <1>13, <1>14 DEF Squashed, R2, it2

(* ROB::squash(s), with the step of the squash before it that Commit::tick has already taken. *)
LEMMA RobSquashed ==
  ASSUME IInv, NEW t \in Thread, NEW s \in Nat, robSquash(t, s),
         \A i \in rob[t] : i.seq <= s => ~Doomed(t, i)
  PROVE  /\ \A j \in rob'[t] : \E i \in rob[t] :
              /\ j.seq = i.seq /\ j.writes = i.writes /\ j.src = i.src /\ j.dest = i.dest
              /\ j = i \/ j.squashed
         /\ \A i \in rob[t] : ~i.squashed /\ i.seq <= s => i \in rob'[t]
         /\ \A i, j \in rob'[t] : i.seq = j.seq => i = j
         /\ \A j \in rob'[t] : j.squashed \/ j.seq <= s \/ (squashIt'[t] # 0 /\ j.seq <= squashIt'[t])
         /\ squashIt'[t] # 0 => squashedSeqNum'[t] = s /\ \E i \in rob'[t] : i.seq = squashIt'[t]
<1>0. /\ rob \in [Thread -> SUBSET Inst] /\ rob[t] \in SUBSET Inst
      /\ squashIt \in [Thread -> Nat] /\ squashIt[t] \in Nat
      /\ squashedSeqNum \in [Thread -> Nat] /\ squashedSeqNum[t] \in Nat
  BY Zenon, TypeParts DEF IInv
<1>2. CASE rob[t] = {}
  BY Zenon, <1>2 DEF robSquash, Signals, IInv, CommitInv, ThreadInv
<1>3. CASE rob[t] # {}
  <2> DEFINE R == rob[t]
             T == TickedROB(t)
             it == Newest(rob[t]).seq
             R2 == AfterSquash(T, it, s)
             it2 == NextIt(T, it, s)
  <2>1. /\ rob'[t] = R2 /\ squashIt'[t] = it2 /\ squashedSeqNum'[t] = s
    BY Zenon, <1>0, <1>3 DEF robSquash, doSquash
  <2>2. it \in Nat /\ \A i \in R : i.seq <= it
    BY Zenon, <1>3, RobEnds
  <2>4. T \in SUBSET Inst
    BY Zenon, <1>0, SquashTypes DEF TickedROB
  <2>5. /\ \A j \in T : \E i \in R : /\ j.seq = i.seq /\ j.writes = i.writes /\ j.src = i.src /\ j.dest = i.dest
                                     /\ j = i \/ j.squashed
        /\ \A i \in R : ~i.squashed /\ i.seq <= s => i \in T
        /\ \A i, j \in T : i.seq = j.seq => i = j
    <3>1. CASE IsSquashing(t)
      <4> DEFINE k == NextIt(R, squashIt[t], squashedSeqNum[t])
      <4>2. Squashed(R, T, squashIt[t], squashedSeqNum[t], k)
        BY Zenon, <1>0, <3>1, DoSquash DEF TickedROB, Order, IInv, CommitInv, ThreadInv
      <4>3. \A i \in R : i.seq <= s => ~(squashedSeqNum[t] < i.seq /\ i.seq <= squashIt[t])
        BY Zenon, <3>1 DEF Doomed
      <4> HIDE DEF R, T, k
      <4> QED BY <4>2, <4>3 DEF Squashed
    <3>2. CASE ~IsSquashing(t)
      BY Zenon, <3>2 DEF TickedROB, Order, IInv, CommitInv, ThreadInv
    <3> QED BY Zenon, <3>1, <3>2
  <2>6. Squashed(T, R2, it, s, it2)
    <3> HIDE DEF T, it
    <3> QED BY Zenon, <2>2, <2>4, <2>5, DoSquash
  <2>7. \A i \in T : i.seq \in Nat /\ i.seq <= it
    <3> HIDE DEF T, R, it
    <3> QED BY Zenon, <2>2, <2>4, <2>5 DEF Inst
  <2> HIDE DEF R, T, it, R2, it2
  <2>8. ASSUME NEW j \in R2
        PROVE  \E i \in R : /\ j.seq = i.seq /\ j.writes = i.writes /\ j.src = i.src /\ j.dest = i.dest
                            /\ j = i \/ j.squashed
    BY <2>5, <2>6 DEF Squashed
  <2>9. ASSUME NEW i \in R, ~i.squashed, i.seq <= s PROVE i \in R2
    BY <2>5, <2>6, <2>7, <2>9 DEF Squashed
  <2>10. ASSUME NEW j \in R2, ~j.squashed, ~(j.seq <= s) PROVE it2 # 0 /\ j.seq <= it2
    BY <2>6, <2>7, <2>10 DEF Squashed
  <2> QED BY Zenon, <2>1, <2>6, <2>8, <2>9, <2>10 DEF R, Squashed
<1> QED
  BY Zenon, <1>2, <1>3

(* What every Commit::tick does to the rest of the thread. *)
Ticked(t) ==
  /\ stage[t] = "commit" /\ stage'[t] = "signals"
  /\ fromRename'[t] = toIEW[t] /\ toIEW'[t] = {}
  /\ renameMap'[t] = renameMap[t] /\ historyBuffer'[t] = historyBuffer[t] /\ freeing'[t] = freeing[t]
  /\ nextSeq' = nextSeq

(* After a tick the queues are in order when what is left in the ROB is. *)
LEMMA TickedOrder ==
  ASSUME NEW t \in Thread, Ticked(t), Order(t),
         lastCommited'[t] < nextSeq, youngestSeqNum'[t] < nextSeq,
         \A i \in rob'[t] : /\ lastCommited'[t] < i.seq /\ i.seq < nextSeq
                            /\ \A j \in toIEW[t] : i.seq < j.seq,
         \A i, j \in rob'[t] : i.seq = j.seq => i = j,
         \A j \in toIEW[t] : lastCommited'[t] < j.seq
  PROVE  Order(t)'
<1>1. fromRename'[t] = toIEW[t] /\ toIEW'[t] = {} /\ nextSeq' = nextSeq
  BY Zenon DEF Ticked
<1>2. \A i, j \in toIEW[t] : i.seq = j.seq => i = j
  BY Zenon DEF Order
<1>3. \A j \in toIEW[t] : j.seq < nextSeq
  BY Zenon DEF Order
<1> QED BY Zenon, <1>1, <1>2, <1>3 DEF Order

(***************************************************************************)
(* A squash from commit keeps the invariant of its thread when it goes     *)
(* back no further than the last committed instruction, and no older       *)
(* squash in progress reaches behind it.                                   *)
(***************************************************************************)
LEMMA ThreadSquashTo ==
  ASSUME IInv, NEW t \in Thread, Ticked(t), NEW s \in Nat, NEW y \in Nat, SquashTo(t, s, y),
         lastCommited[t] <= s, y <= s, y < nextSeq,
         \A i \in fromRename[t] \cup toIEW[t] : s < i.seq,
         commitStatus[t] = "TrapPending" => \A i \in rob[t] : s < i.seq,
         \A i \in rob[t] : i.seq <= s => ~Doomed(t, i)
  PROVE  ThreadInv(t)'
<1> DEFINE R == rob[t]
           R2 == rob'[t]
           it2 == squashIt'[t]
           c == lastCommited[t]
<1>0. /\ R \in SUBSET Inst /\ toIEW[t] \in SUBSET Inst /\ fromRename[t] \in SUBSET Inst
      /\ commitStatus \in [Thread -> {"Running", "ROBSquashing", "TrapPending", "SquashAfterPending"}]
      /\ commitInfo \in [Thread -> CommitInfo] /\ youngestSeqNum \in [Thread -> Nat]
      /\ historyBuffer[t] \in SUBSET RenameHistory /\ c \in Nat
  BY Zenon, TypeParts DEF IInv
<1>1. Order(t) /\ Signals(t) /\ Values(t) /\ Owned(t) /\ StillHeld(t)
  BY Zenon DEF IInv, CommitInv, ThreadInv
<1>2. /\ commitStatus'[t] = "ROBSquashing" /\ youngestSeqNum'[t] = y
      /\ commitInfo'[t] = [squash |-> TRUE, robSquashing |-> TRUE, done |-> s]
      /\ UNCHANGED <<commitMap, lastCommited>>
  BY Zenon, <1>0 DEF SquashTo
<1>3. /\ \A j \in R2 : \E i \in R :
           /\ j.seq = i.seq /\ j.writes = i.writes /\ j.src = i.src /\ j.dest = i.dest
           /\ j = i \/ j.squashed
      /\ \A i \in R : ~i.squashed /\ i.seq <= s => i \in R2
      /\ \A i, j \in R2 : i.seq = j.seq => i = j
      /\ \A j \in R2 : j.squashed \/ j.seq <= s \/ (it2 # 0 /\ j.seq <= it2)
      /\ it2 # 0 => squashedSeqNum'[t] = s /\ \E i \in R2 : i.seq = it2
  BY Zenon, RobSquashed DEF SquashTo
<1> HIDE DEF R2, it2
<1>4. ~Pending(t) /\ Pending(t)' /\ (IsSquashing(t)' <=> it2 # 0)
  BY <1>2 DEF Ticked, Pending, IsSquashing, it2
<1>5. \A j \in R2 : j.seq \in Nat /\ (Doomed(t, j)' <=> it2 # 0 /\ s < j.seq /\ j.seq <= it2)
  BY Zenon, <1>0, <1>3, <1>4, InstParts DEF Doomed, it2
<1>6. Order(t)'
  <2>1. ASSUME NEW j \in R2
        PROVE  c < j.seq /\ j.seq < nextSeq /\ \A i \in toIEW[t] : j.seq < i.seq
    <3>1. PICK i \in R : j.seq = i.seq
      BY Zenon, <1>3
    <3> QED BY Zenon, <1>1, <3>1 DEF Order
  <2>2. c < nextSeq /\ \A j \in toIEW[t] : c < j.seq
    BY Zenon, <1>1 DEF Order
  <2>3. lastCommited'[t] = c /\ youngestSeqNum'[t] < nextSeq
    BY Zenon, <1>2
  <2> QED BY Zenon, <1>1, <1>3, <2>1, <2>2, <2>3, TickedOrder DEF R2
<1>12. commitInfo'[t].squash = TRUE /\ commitInfo'[t].robSquashing = TRUE /\ commitInfo'[t].done = s
  <2>1. commitInfo'[t] = [squash |-> TRUE, robSquashing |-> TRUE, done |-> s]
    BY Zenon, <1>2
  <2> QED BY <2>1
<1>7. Signals(t)'
  <2>1. ASSUME NEW i \in R2 PROVE i.squashed \/ Doomed(t, i)' \/ i.seq <= s
    <3>1. i.seq \in Nat
      BY Zenon, <1>5
    <3>2. s < i.seq \/ i.seq <= s
      BY <3>1
    <3> QED BY Zenon, <1>3, <1>5, <3>2
  <2>2. s >= c
    BY <1>0
  <2>3. lastCommited'[t] = c
    BY Zenon, <1>2
  <2>4. commitInfo'[t].robSquashing <=> commitStatus'[t] = "ROBSquashing"
    BY Zenon, <1>2, <1>12
  <2>5. commitInfo'[t].done >= lastCommited'[t]
    BY Zenon, <1>12, <2>2, <2>3
  <2>6. toIEW'[t] = {}
    BY Zenon DEF Ticked
  <2>7. squashIt'[t] # 0 => youngestSeqNum'[t] <= squashedSeqNum'[t] /\ \E i \in rob'[t] : i.seq = squashIt'[t]
    BY Zenon, <1>2, <1>3 DEF R2, it2
  <2>8. \A i \in rob'[t] : i.squashed \/ Doomed(t, i)' \/ i.seq <= commitInfo'[t].done
    BY Zenon, <1>12, <2>1 DEF R2
  <2> QED BY Zenon, <1>2, <1>4, <1>12, <2>4, <2>5, <2>6, <2>7, <2>8 DEF Signals
<1>8. ASSUME NEW i \in Good(t)' PROVE i \in Good(t) /\ i \in R /\ i.seq <= s
  BY <1>3, <1>4, <1>5 DEF Good, R2
<1>10. Owned(t)'
  <2> SUFFICES ASSUME NEW h \in historyBuffer[t], h.seq > c, h.seq <= s
               PROVE  \E i \in Good(t)' : i.seq = h.seq /\ h.arch \in i.writes
    <3>1. historyBuffer'[t] = historyBuffer[t] /\ lastCommited'[t] = c
      BY Zenon, <1>2 DEF Ticked
    <3> QED BY Zenon, <1>4, <1>12, <3>1 DEF Owned
  <2>1. h.seq \in Nat
    BY Zenon, <1>0 DEF RenameHistory
  <2>2. ~(s < h.seq)
    BY <2>1
  <2>3. ASSUME NEW i \in Good(t), i.seq = h.seq PROVE i \in Good(t)'
    <3>1. i \in R /\ ~i.squashed
      BY Zenon, <2>2, <2>3 DEF Good
    <3>2. i \in R2
      BY Zenon, <1>3, <2>3, <3>1
    <3>3. ~Doomed(t, i)'
      BY Zenon, <1>5, <2>2, <2>3, <3>2
    <3> QED BY Zenon, <3>1, <3>2, <3>3 DEF Good, R2
  <2>4. ASSUME commitStatus[t] = "TrapPending", NEW j \in R, j.seq <= h.seq PROVE FALSE
    <3>1. s < j.seq /\ j.seq \in Nat
      BY Zenon, <1>0, <2>4, InstParts
    <3> QED BY <2>1, <2>4, <3>1
  <2> QED BY Zenon, <1>1, <1>4, <2>3, <2>4 DEF Owned
<1>11. StillHeld(t)'
  <2>1. ASSUME NEW i \in InFlight(t)' PROVE i \in InFlight(t)
    <3>1. ~i.squashed /\ (i \in R2 \/ i \in toIEW[t])
      <4>1. ~i.squashed /\ (i \in rob'[t] \/ i \in fromRename'[t] \/ i \in toIEW'[t])
        BY Zenon DEF InFlight
      <4>2. fromRename'[t] = toIEW[t] /\ toIEW'[t] = {}
        BY Zenon DEF Ticked
      <4> QED BY Zenon, <4>1, <4>2 DEF R2
    <3>2. \A j \in R2 : j \in R \/ j.squashed
      BY <1>3
    <3> QED BY Zenon, <3>1, <3>2 DEF InFlight
  <2>2. \A r : Held(t, r)' <=> Held(t, r)
    BY Zenon, <1>2 DEF Held, Ticked
  <2> QED BY Zenon, <1>1, <2>1, <2>2 DEF StillHeld
<1> QED BY Zenon, <1>1, <1>2, <1>6, <1>7, <1>8, <1>10, <1>11 DEF ThreadInv, TrapHead, Values, Ticked

(* The squashes commit asks for are of that kind: a trap's reach all of the ROB, IEW's are older than those in progress. *)
LEMMA ThreadCommitSquash ==
  ASSUME IInv, NEW t \in Thread, Ticked(t), SquashAll(t) \/ IEWSquash(t)
  PROVE  ThreadInv(t)'
<1> DEFINE R == rob[t]
           c == lastCommited[t]
           All == rob[t] \cup fromRename[t] \cup toIEW[t]
<1>0. /\ R \in SUBSET Inst /\ toIEW[t] \in SUBSET Inst /\ fromRename[t] \in SUBSET Inst
      /\ c \in Nat /\ youngestSeqNum[t] \in Nat /\ squashedSeqNum[t] \in Nat /\ nextSeq \in Nat
  BY Zenon, TypeParts DEF IInv
<1>1. Order(t) /\ Signals(t)
  BY Zenon DEF IInv, CommitInv, ThreadInv
<1>2. \A i \in All : i.seq \in Nat /\ i.seq # 0
  BY Zenon, <1>0 DEF Inst
<1>3. CASE SquashAll(t)
  <2> DEFINE s == IF R = {} THEN c ELSE Oldest(R).seq - 1
  <2>1. SquashTo(t, s, c)
    BY Zenon, <1>3 DEF SquashAll
  <2>2. R # {} => Oldest(R) \in R /\ \A i \in R : Oldest(R).seq <= i.seq
    BY Zenon, RobEnds
  <2>3. s \in Nat /\ c <= s /\ c < nextSeq
    BY <1>0, <1>1, <1>2, <2>2 DEF Order
  <2>4. \A i \in R : s < i.seq
    BY <1>0, <1>2, <2>2
  <2>5. \A i \in fromRename[t] \cup toIEW[t] : s < i.seq
    BY <1>1, <1>2, <2>2 DEF Order
  <2>6. \A i \in R : ~(i.seq <= s)
    BY <1>2, <2>3, <2>4
  <2> HIDE DEF s
  <2> QED BY Zenon, <1>0, <2>1, <2>3, <2>4, <2>5, <2>6, ThreadSquashTo
<1>4. CASE IEWSquash(t)
  <2>1. PICK k \in R, include \in BOOLEAN :
          /\ commitStatus[t] \in {"Running", "ROBSquashing"}
          /\ k.seq <= youngestSeqNum[t]
          /\ LET s == IF include THEN k.seq - 1 ELSE k.seq IN SquashTo(t, s, s)
    BY Zenon, <1>4 DEF IEWSquash
  <2> DEFINE s == IF include THEN k.seq - 1 ELSE k.seq
  <2>2. SquashTo(t, s, s)
    BY Zenon, <2>1
  <2>3. k.seq \in Nat /\ k.seq # 0 /\ c < k.seq /\ k.seq < nextSeq
    BY Zenon, <1>1, <1>2 DEF Order
  <2>4. s \in Nat /\ c <= s /\ s < nextSeq /\ s <= k.seq
    BY <1>0, <2>3
  <2>5. \A i \in fromRename[t] \cup toIEW[t] : s < i.seq
    <3> HIDE DEF s
    <3> QED BY <1>1, <1>2, <2>3, <2>4 DEF Order
  <2>6. ASSUME NEW i \in R, i.seq <= s PROVE ~Doomed(t, i)
    <3>1. IsSquashing(t) => youngestSeqNum[t] <= squashedSeqNum[t]
      BY Zenon, <1>1 DEF IsSquashing, Signals
    <3> HIDE DEF s
    <3> QED BY <1>0, <1>2, <2>1, <2>3, <2>4, <2>6, <3>1 DEF Doomed
  <2>7. commitStatus[t] # "TrapPending" /\ s <= s
    BY <2>1, <2>4
  <2> HIDE DEF s
  <2> QED BY Zenon, <2>2, <2>4, <2>5, <2>6, <2>7, ThreadSquashTo
<1> QED
  BY Zenon, <1>3, <1>4

(* A further step of the squash in the ROB keeps the invariant: what survives stays the same. *)
LEMMA ThreadStillSquashing ==
  ASSUME IInv, NEW t \in Thread, Ticked(t), StillSquashing(t)
  PROVE  ThreadInv(t)'
<1> DEFINE R == rob[t]
           R2 == rob'[t]
           it == squashIt[t]
           it2 == squashIt'[t]
           s == squashedSeqNum[t]
           c == lastCommited[t]
<1>0. /\ R \in SUBSET Inst /\ it \in Nat /\ s \in Nat /\ c \in Nat
      /\ rob \in [Thread -> SUBSET Inst] /\ squashIt \in [Thread -> Nat] /\ squashedSeqNum \in [Thread -> Nat]
      /\ commitInfo \in [Thread -> CommitInfo]
  BY Zenon, TypeParts DEF IInv
<1>1. Order(t) /\ Signals(t) /\ Values(t) /\ Owned(t) /\ StillHeld(t)
  BY Zenon DEF IInv, CommitInv, ThreadInv
<1>2. /\ IsSquashing(t) /\ it # 0 /\ commitStatus[t] = "ROBSquashing"
      /\ R2 = AfterSquash(R, it, s) /\ it2 = NextIt(R, it, s) /\ squashedSeqNum'[t] = s
      /\ commitInfo'[t] = [squash |-> FALSE, robSquashing |-> TRUE, done |-> 0]
      /\ UNCHANGED <<commitStatus, commitMap, youngestSeqNum, lastCommited>>
  BY Zenon, <1>0 DEF StillSquashing, doSquash, IsSquashing
<1>3. Squashed(R, R2, it, s, it2)
  <2>1. \A i, j \in R : i.seq = j.seq => i = j
    BY Zenon, <1>1 DEF Order
  <2> HIDE DEF R, it, s
  <2> QED BY Zenon, <1>0, <1>2, <2>1, DoSquash
<1>4. /\ ~Pending(t) /\ ~Pending(t)' /\ (IsSquashing(t)' <=> it2 # 0)
      /\ commitInfo[t].robSquashing /\ toIEW[t] = {} /\ \A i \in fromRename[t] : i.squashed
  BY <1>1, <1>2 DEF Ticked, Pending, IsSquashing, Signals
<1> HIDE DEF R2, it2
<1>5. /\ \A j \in R2 : \E i \in R :
           /\ j.seq = i.seq /\ j.writes = i.writes /\ j.src = i.src /\ j.dest = i.dest
           /\ j = i \/ j.squashed
      /\ \A i, j \in R2 : i.seq = j.seq => i = j
      /\ it2 # 0 => it2 <= it /\ \E i \in R2 : i.seq = it2
      /\ it2 \in Nat
  BY <1>3 DEF Squashed
<1>7. Good(t)' = Good(t)
  <2>1. Good(t) = {i \in R : ~i.squashed /\ ~(s < i.seq /\ i.seq <= it)}
    BY Zenon, <1>2, <1>4 DEF Good, Doomed
  <2>3. ASSUME NEW i \in R, ~i.squashed, ~(s < i.seq /\ i.seq <= it)
        PROVE  i \in R2 /\ ~(it2 # 0 /\ s < i.seq /\ i.seq <= it2)
    <3>1. i \in R2
      BY Zenon, <1>3, <2>3 DEF Squashed
    <3>2. i.seq \in Nat
      BY Zenon, <1>0, InstParts
    <3>3. it2 # 0 => it2 <= it /\ it2 \in Nat
      BY Zenon, <1>5
    <3> HIDE DEF it, s
    <3>4. it2 # 0 /\ i.seq <= it2 => i.seq <= it
      BY <1>0, <3>2, <3>3
    <3> QED BY Zenon, <2>3, <3>1, <3>4
  <2>4. ASSUME NEW i \in R2, ~i.squashed, ~(it2 # 0 /\ s < i.seq /\ i.seq <= it2)
        PROVE  i \in R /\ ~(s < i.seq /\ i.seq <= it)
    BY <1>3, <1>5, <2>4 DEF Squashed
  <2> HIDE DEF R, s, it
  <2> QED BY Zenon, <1>2, <1>4, <2>1, <2>3, <2>4 DEF Good, Doomed, Ticked, R2, it2
<1>8. Order(t)'
  <2>1. ASSUME NEW j \in R2
        PROVE  c < j.seq /\ j.seq < nextSeq /\ \A i \in toIEW[t] : j.seq < i.seq
    <3>1. PICK i \in R : j.seq = i.seq
      BY Zenon, <1>5
    <3> QED BY Zenon, <1>1, <3>1 DEF Order
  <2>2. c < nextSeq /\ youngestSeqNum[t] < nextSeq /\ \A j \in toIEW[t] : c < j.seq
    BY Zenon, <1>1 DEF Order
  <2>3. lastCommited'[t] = c /\ youngestSeqNum'[t] = youngestSeqNum[t]
    BY Zenon, <1>2
  <2> QED BY Zenon, <1>1, <1>5, <2>1, <2>2, <2>3, TickedOrder DEF R2
<1>9. Signals(t)'
  <2>1. 0 <= c
    BY <1>0
  <2>2. lastCommited'[t] = c /\ youngestSeqNum'[t] = youngestSeqNum[t] /\ commitStatus'[t] = "ROBSquashing"
    BY Zenon, <1>2
  <2>4. commitInfo'[t].squash = FALSE /\ commitInfo'[t].robSquashing = TRUE /\ commitInfo'[t].done = 0
    <3>1. commitInfo'[t] = [squash |-> FALSE, robSquashing |-> TRUE, done |-> 0]
      BY Zenon, <1>2
    <3> QED BY <3>1
  <2>3. youngestSeqNum[t] <= s
    BY Zenon, <1>1, <1>2 DEF Signals
  <2>5. commitInfo'[t].done <= lastCommited'[t]
    BY Zenon, <2>1, <2>2, <2>4
  <2>6. toIEW'[t] = {} /\ fromRename'[t] = {}
    BY Zenon, <1>4 DEF Ticked
  <2>7. squashIt'[t] # 0 => youngestSeqNum'[t] <= squashedSeqNum'[t] /\ \E i \in rob'[t] : i.seq = squashIt'[t]
    BY Zenon, <1>2, <1>5, <2>2, <2>3 DEF R2, it2
  <2> QED BY Zenon, <1>4, <2>2, <2>4, <2>5, <2>6, <2>7 DEF Signals
<1>12. StillHeld(t)'
  BY Zenon, <1>1, <1>2, <1>4, <1>5 DEF InFlight, Ticked, R2, StillHeld, Held
<1> QED BY Zenon, <1>1, <1>2, <1>4, <1>7, <1>8, <1>9, <1>12 DEF ThreadInv, TrapHead, Values, Ticked, Owned

(***************************************************************************)
(* getInsts and commitInsts keep the invariant: every mapping made between *)
(* the last committed instruction and the new one is by an instruction     *)
(* that commits now, so the commit map moves exactly as far.               *)
(***************************************************************************)
LEMMA ThreadCommitInsts ==
  ASSUME IInv, NEW t \in Thread, Ticked(t), CommitInsts(t), TypeOK'
  PROVE  ThreadInv(t)'
<1> DEFINE m == renameMap[t]
           H == historyBuffer[t]
           c == lastCommited[t]
           trap == commitStatus[t] = "TrapPending"
           R == rob[t] \cup Inserted(t)
           out(k) == {i \in R : i.seq <= k}
           com(k) == {i \in out(k) : ~i.squashed}
           All == rob[t] \cup fromRename[t] \cup toIEW[t]
<1>0. /\ rob \in [Thread -> SUBSET Inst] /\ rob[t] \in SUBSET Inst /\ fromRename[t] \in SUBSET Inst
      /\ toIEW[t] \in SUBSET Inst /\ H \in SUBSET RenameHistory /\ c \in Nat /\ nextSeq \in Nat
      /\ commitMap \in [Thread -> [Arch -> PhysReg]] /\ lastCommited \in [Thread -> Nat]
      /\ commitInfo \in [Thread -> CommitInfo] /\ youngestSeqNum \in [Thread -> Nat]
      /\ commitStatus \in [Thread -> {"Running", "ROBSquashing", "TrapPending", "SquashAfterPending"}]
  BY Zenon, TypeParts DEF IInv
<1>1. /\ Order(t) /\ Signals(t) /\ Values(t) /\ Owned(t) /\ StillHeld(t) /\ TrapHead(t) /\ Chained(m, H)
  BY Zenon DEF IInv, CommitInv, ThreadInv, RenameInv
<1>2. PICK k \in {0} \cup (IF trap THEN {} ELSE Seqs(R)) :
        /\ rob' = [rob EXCEPT ![t] = R \ out(k)]
        /\ commitMap' = [commitMap EXCEPT ![t] = [a \in Arch |->
               IF Writers(com(k), a) = {} THEN @[a] ELSE Newest(Writers(com(k), a)).dest[a]]]
        /\ lastCommited' = [lastCommited EXCEPT ![t] = IF com(k) = {} THEN @ ELSE Newest(com(k)).seq]
        /\ commitInfo' = [commitInfo EXCEPT ![t] =
               [squash |-> FALSE, robSquashing |-> FALSE,
                done |-> IF com(k) = {} THEN 0 ELSE Newest(com(k)).seq]]
        /\ \/ commitStatus' = [commitStatus EXCEPT ![t] = IF @ = "TrapPending" THEN @ ELSE "Running"]
           \/ /\ ~trap
              /\ R \ out(k) # {} /\ ~Oldest(R \ out(k)).squashed
              /\ commitStatus' = [commitStatus EXCEPT ![t] = "TrapPending"]
           \/ /\ com(k) # {}
              /\ commitStatus' = [commitStatus EXCEPT ![t] = "SquashAfterPending"]
  BY Zenon DEF CommitInsts
<1> DEFINE C == com(k)
           c2 == lastCommited'[t]
<1>3. /\ Inserted(t) \in SUBSET fromRename[t] /\ (trap => Inserted(t) = {})
      /\ R \in SUBSET All /\ C \in SUBSET R /\ \A i \in Inserted(t) : ~i.squashed
      /\ \A i \in fromRename[t] : ~trap /\ ~i.squashed => i \in R
  BY Zenon DEF Inserted
<1>4. \A i \in All : i.seq \in Nat /\ i.seq # 0 /\ i.writes \in SUBSET Arch
  BY Zenon, <1>0, InstParts
<1>5. k \in Nat
  <2>1. CASE k = 0
    BY <2>1
  <2>2. CASE k \in Seqs(R)
    <3>1. PICK i \in R : k = i.seq
      BY Zenon, <2>2 DEF Seqs
    <3> QED BY Zenon, <1>3, <1>4, <3>1
  <2> QED BY Zenon, <2>1, <2>2
<1>6. \A i : i \in C <=> i \in R /\ i.seq <= k /\ ~i.squashed
  OBVIOUS
<1>7. rob'[t] = {i \in R : ~(i.seq <= k)}
  BY Zenon, <1>0, <1>2
<1>8. trap => C = {} /\ rob'[t] = rob[t] /\ k = 0
  <2>1. ASSUME NEW i \in R PROVE ~(i.seq <= 0)
    <3>1. i.seq \in Nat /\ i.seq # 0
      BY Zenon, <1>3, <1>4
    <3> QED BY <3>1
  <2>2. trap => \A i \in R : ~(i.seq <= k)
    <3>1. trap => k = 0
      BY Zenon
    <3> QED BY Zenon, <2>1, <3>1
  <2>3. trap => R = rob[t]
    BY Zenon, <1>3
  <2> HIDE DEF R
  <2> QED BY Zenon, <1>2, <1>7, <2>2, <2>3
<1>9. /\ c2 = IF C = {} THEN c ELSE Newest(C).seq
      /\ commitInfo'[t].squash = FALSE /\ commitInfo'[t].robSquashing = FALSE
      /\ commitInfo'[t].done = IF C = {} THEN 0 ELSE Newest(C).seq
      /\ \A a \in Arch : commitMap'[t][a] =
           IF Writers(C, a) = {} THEN commitMap[t][a] ELSE Newest(Writers(C, a)).dest[a]
  <2> HIDE DEF com
  <2> QED BY Zenon, <1>0, <1>2
<1>11. ~Pending(t) /\ ~Pending(t)'
  BY Zenon, <1>9 DEF Ticked, Pending
<1>13. /\ commitStatus'[t] \in {"Running", "TrapPending", "SquashAfterPending"}
       /\ trap => commitStatus'[t] = "TrapPending"
       /\ ~trap /\ commitStatus'[t] = "TrapPending" =>
            R \ out(k) # {} /\ ~Oldest(R \ out(k)).squashed
  <2> HIDE DEF com, out, R
  <2> QED BY Zenon, <1>0, <1>2, <1>8
<1>14. \A a : Writers(C, a) = {i \in C : a \in i.writes}
  BY Zenon DEF Writers
<1> HIDE DEF out, com, C, c2, R, trap
<1>16. /\ c2 \in Nat /\ c <= c2 /\ c2 < nextSeq /\ \A i \in C : i.seq <= c2
       /\ C = {} => c2 = c
       /\ C # {} => c2 <= k /\ ~trap /\ \E i \in C : i.seq = c2
  <2>1. C # {} => Newest(C).seq \in Nat /\ c < Newest(C).seq /\ Newest(C).seq < nextSeq /\ Newest(C).seq <= k
    BY Zenon, <1>1, <1>3, <1>4, <1>6, RobEnds DEF Order
  <2>2. c < nextSeq
    BY Zenon, <1>1 DEF Order
  <2>3. CASE C = {}
    <3>1. c2 = c
      BY Zenon, <1>9, <2>3
    <3>2. c <= c
      BY <1>0
    <3> QED BY Zenon, <1>0, <2>2, <2>3, <3>1, <3>2
  <2>4. CASE C # {}
    <3>1. c2 = Newest(C).seq
      BY Zenon, <1>9, <2>4
    <3>2. Newest(C) \in C /\ \A i \in C : i.seq <= Newest(C).seq
      BY Zenon, <1>3, <2>4, RobEnds
    <3>3. c2 \in Nat /\ c < c2 /\ c2 < nextSeq /\ c2 <= k
      BY Zenon, <2>1, <2>4, <3>1
    <3> HIDE DEF c
    <3>4. c <= c2
      BY <1>0, <3>3
    <3> QED BY Zenon, <1>8, <2>4, <3>1, <3>2, <3>3, <3>4
  <2> QED BY Zenon, <2>3, <2>4
<1>17. c2 \in Nat /\ c <= c2
  BY Zenon, <1>16
<1>15. \A i \in R : i \in rob[t] \/ i \in fromRename[t]
  BY Zenon, <1>3 DEF R
<1>18. \A j \in toIEW[t] : c2 < j.seq
  <2>1. CASE C = {}
    BY Zenon, <1>1, <1>16, <2>1 DEF Order
  <2>2. CASE C # {}
    <3>1. PICK i \in C : i.seq = c2
      BY Zenon, <1>16, <2>2
    <3>2. i \in rob[t] \/ i \in fromRename[t]
      BY Zenon, <1>3, <1>15
    <3> QED BY Zenon, <1>1, <3>1, <3>2 DEF Order
  <2> QED BY Zenon, <2>1, <2>2
<1>19. Order(t)'
  <2>2. ASSUME NEW i \in R, NEW j \in R, i.seq = j.seq PROVE i = j
    <3>1. i.seq \in Nat
      BY Zenon, <1>3, <1>4
    <3>2. ~(i.seq < j.seq) /\ ~(j.seq < i.seq)
      BY <2>2, <3>1
    <3> QED BY Zenon, <1>1, <1>15, <2>2, <3>2 DEF Order
  <2>3. ASSUME NEW i \in R, ~(i.seq <= k)
        PROVE  c2 < i.seq /\ i.seq < nextSeq /\ \A j \in toIEW[t] : i.seq < j.seq
    <3>1. i.seq \in Nat /\ c < i.seq /\ i.seq < nextSeq /\ \A j \in toIEW[t] : i.seq < j.seq
      BY Zenon, <1>1, <1>3, <1>4, <1>15 DEF Order
    <3>2. c2 = c \/ c2 <= k
      BY Zenon, <1>16
    <3>3. c2 < i.seq
      <4> HIDE DEF c
      <4> QED BY <1>0, <1>5, <1>17, <2>3, <3>1, <3>2
    <3> QED BY Zenon, <3>1, <3>3
  <2>4. youngestSeqNum'[t] < nextSeq
    <3>1. Inserted(t) # {} => Newest(Inserted(t)) \in fromRename[t]
      BY Zenon, <1>3, RobEnds
    <3> QED BY Zenon, <1>0, <1>1, <3>1 DEF Order, CommitInsts
  <2>5. lastCommited'[t] = c2 /\ c2 < nextSeq
    BY Zenon, <1>16 DEF c2
  <2>6. \A i \in rob'[t] : i \in R /\ ~(i.seq <= k)
    BY Zenon, <1>7
  <2> QED BY Zenon, <1>1, <1>18, <2>2, <2>3, <2>4, <2>5, <2>6, TickedOrder
<1>20. Signals(t)'
  <2>1. 0 <= c2 /\ c2 <= c2
    BY <1>17
  <2>2. lastCommited'[t] = c2
    BY Zenon DEF c2
  <2>3. commitInfo'[t].done <= lastCommited'[t]
    BY Zenon, <1>9, <2>1, <2>2
  <2>4. squashIt'[t] = 0 /\ toIEW'[t] = {}
    BY Zenon, <1>1 DEF Signals, Ticked, CommitInsts, IsSquashing
  <2>5. commitStatus'[t] # "ROBSquashing"
    BY Zenon, <1>13
  <2> QED BY Zenon, <1>9, <1>11, <2>3, <2>4, <2>5 DEF Signals
<1>21. /\ \A i : i \in Good(t) <=> i \in All /\ ~i.squashed
       /\ \A i : i \in Good(t)' <=> (i \in rob'[t] \/ i \in toIEW[t]) /\ ~i.squashed
  BY Zenon, <1>1, <1>11 DEF Good, Ticked, Doomed, CommitInsts, Signals, IsSquashing
<1>22. \A i \in Good(t)' : i \in Good(t)
  BY Zenon, <1>3, <1>7, <1>21
<1>23. ASSUME NEW h \in H, h.seq > c, h.seq <= c2
       PROVE  \E i \in Writers(C, h.arch) : i.seq = h.seq
  <2>1. h.seq \in Nat
    BY Zenon, <1>0 DEF RenameHistory
  <2>2. C # {} /\ ~trap /\ c2 <= k
    <3>1. c2 # c
      <4> HIDE DEF c
      <4> QED BY <1>0, <1>23, <2>1
    <3> QED BY Zenon, <1>16, <3>1
  <2>3. PICK i \in Good(t) : i.seq = h.seq /\ h.arch \in i.writes
    BY Zenon, <1>1, <1>11, <1>23, <2>2 DEF Owned, trap
  <2>4. i \in All /\ ~i.squashed /\ i.seq <= k
    <3>1. i \in All /\ ~i.squashed
      BY Zenon, <1>21
    <3>2. h.seq <= k
      BY <1>5, <1>17, <1>23, <2>1, <2>2
    <3> QED BY Zenon, <2>3, <3>1, <3>2
  <2>5. i \notin toIEW[t]
    <3>1. ~(c2 < h.seq)
      BY <1>17, <1>23, <2>1
    <3> QED BY Zenon, <1>18, <2>3, <3>1
  <2>6. i \in R
    BY Zenon, <1>3, <2>2, <2>4, <2>5 DEF R
  <2> QED BY Zenon, <1>6, <1>14, <2>3, <2>4, <2>6
<1>24. ASSUME NEW a \in Arch PROVE Before(m, H, c2 + 1, a, commitMap'[t][a])
  <2>1. \A h \in H : h.seq \in Nat
    BY Zenon, <1>0 DEF RenameHistory
  <2>2. CASE Writers(C, a) = {}
    <3>2. \A h \in H : h.arch = a => h.seq < c + 1 \/ h.seq >= c2 + 1
      <4> SUFFICES ASSUME NEW h \in H, h.arch = a PROVE h.seq < c + 1 \/ h.seq >= c2 + 1
        BY Zenon
      <4>1. h.seq \in Nat /\ ~(h.seq > c /\ h.seq <= c2)
        BY Zenon, <1>23, <2>1, <2>2
      <4> HIDE DEF c
      <4> QED BY <1>0, <1>17, <4>1
    <3> DEFINE r == commitMap[t][a]
               s == c + 1
               s2 == c2 + 1
    <3>4. Before(m, H, s2, a, r)
      <4>1. /\ s \in Nat /\ s2 \in Nat /\ s <= s2 /\ Before(m, H, s, a, r)
            /\ \A h \in H : h.arch = a => h.seq < s \/ h.seq >= s2
        <5>1. s \in Nat /\ s2 \in Nat /\ s <= s2
          <6> HIDE DEF c
          <6> QED BY <1>0, <1>17
        <5> QED BY Zenon, <1>1, <3>2, <5>1 DEF Values
      <4> HIDE DEF m, H, r, s, s2
      <4> QED BY Zenon, <1>0, <4>1, BeforeRaise
    <3> QED BY Zenon, <1>0, <1>9, <1>16, <2>2, <3>4
  <2>3. CASE Writers(C, a) # {}
    <3> DEFINE w == Newest(Writers(C, a))
    <3>2. w \in Writers(C, a) /\ \A i \in Writers(C, a) : i.seq <= w.seq
      BY Zenon, <1>3, <1>14, <2>3, RobEnds
    <3> HIDE DEF w
    <3>3. w \in C /\ a \in w.writes /\ w \in All /\ ~w.squashed /\ w.seq \in Nat /\ w.seq <= c2
      BY Zenon, <1>3, <1>4, <1>6, <1>14, <1>16, <3>2
    <3>5. \A h \in H : h.arch = a => h.seq < w.seq + 1 \/ h.seq >= c2 + 1
      <4> SUFFICES ASSUME NEW h \in H, h.arch = a PROVE h.seq < w.seq + 1 \/ h.seq >= c2 + 1
        BY Zenon
      <4>1. h.seq \in Nat /\ w.seq \in Nat /\ c < w.seq
        BY Zenon, <1>1, <2>1, <3>3 DEF Order
      <4>2. ASSUME h.seq > w.seq, h.seq <= c2 PROVE FALSE
        <5>1. h.seq > c
          <6> HIDE DEF c
          <6> QED BY <1>0, <4>1, <4>2
        <5>2. PICK i \in Writers(C, a) : i.seq = h.seq
          BY Zenon, <1>23, <4>2, <5>1
        <5>3. h.seq <= w.seq
          BY Zenon, <3>2, <5>2
        <5> QED BY <4>1, <4>2, <5>3
      <4> QED BY <1>17, <4>1, <4>2
    <3>6. w.seq + 1 \in Nat /\ c2 + 1 \in Nat /\ w.seq + 1 <= c2 + 1 /\ commitMap'[t][a] = w.dest[a]
      <4>1. w.seq + 1 \in Nat /\ c2 + 1 \in Nat /\ w.seq + 1 <= c2 + 1
        <5>1. w.seq \in Nat /\ w.seq <= c2
          BY Zenon, <3>3
        <5> QED BY <1>17, <5>1
      <4> QED BY Zenon, <1>9, <2>3, <4>1 DEF w
    <3> DEFINE r == w.dest[a]
               s == w.seq + 1
               s2 == c2 + 1
    <3>7. Before(m, H, s2, a, r)
      <4>1. /\ s \in Nat /\ s2 \in Nat /\ s <= s2 /\ Before(m, H, s, a, r)
            /\ \A h \in H : h.arch = a => h.seq < s \/ h.seq >= s2
        BY Zenon, <1>1, <1>21, <3>3, <3>5, <3>6 DEF Values
      <4> HIDE DEF m, H, r, s, s2
      <4> QED BY Zenon, <1>0, <4>1, BeforeRaise
    <3> QED BY Zenon, <3>6, <3>7
  <2> QED BY Zenon, <2>2, <2>3
<1>25. Values(t)'
  BY Zenon, <1>1, <1>22, <1>24 DEF Values, Ticked, c2
<1>26. Owned(t)'
  <2> SUFFICES ASSUME NEW h \in H, h.seq > c2
               PROVE  \/ \E i \in Good(t)' : i.seq = h.seq /\ h.arch \in i.writes
                      \/ commitStatus'[t] = "TrapPending" /\ \E j \in rob'[t] : ~j.squashed /\ j.seq <= h.seq
    BY Zenon, <1>11 DEF Owned, Ticked, c2
  <2>1. h.seq \in Nat /\ h.seq > c
    <3>1. h.seq \in Nat
      BY Zenon, <1>0 DEF RenameHistory
    <3> HIDE DEF c
    <3> QED BY <1>0, <1>17, <3>1
  <2>3. CASE trap /\ \E j \in rob[t] : ~j.squashed /\ j.seq <= h.seq
    BY Zenon, <1>8, <1>13, <2>3
  <2>4. ASSUME NEW i \in Good(t), i.seq = h.seq, h.arch \in i.writes, ~trap
        PROVE  i \in Good(t)'
    <3>1. i \in All /\ ~i.squashed /\ i.seq \in Nat
      BY Zenon, <1>4, <1>21
    <3>2. CASE i \in toIEW[t]
      BY Zenon, <1>21, <3>1, <3>2
    <3>3. CASE i \notin toIEW[t]
      <4>1. i \in R
        BY Zenon, <1>3, <2>4, <3>1, <3>3 DEF R
      <4>2. ~(i.seq <= k)
        <5>1. i.seq <= k => i.seq <= c2
          BY Zenon, <1>6, <1>16, <3>1, <4>1
        <5>2. ~(i.seq <= c2)
          BY <1>17, <2>1, <2>4
        <5> QED BY Zenon, <5>1, <5>2
      <4> QED BY Zenon, <1>7, <1>21, <3>1, <4>1, <4>2
    <3> QED BY Zenon, <3>2, <3>3
  <2>5. ASSUME NEW i \in Good(t), i.seq = h.seq, h.arch \in i.writes, trap
        PROVE  \/ i \in Good(t)'
               \/ commitStatus'[t] = "TrapPending" /\ \E j \in rob'[t] : ~j.squashed /\ j.seq <= h.seq
    <3>2. CASE i \in toIEW[t] \/ i \in rob[t]
      BY Zenon, <1>4, <1>8, <1>21, <2>5, <3>2
    <3>3. CASE i \in fromRename[t]
      <4>1. PICK j \in rob[t] : ~j.squashed
        BY Zenon, <1>1, <2>5 DEF TrapHead, trap
      <4>3. j.seq <= h.seq
        <5>1. j.seq < i.seq /\ j.seq \in Nat
          BY Zenon, <1>1, <1>4, <3>3 DEF Order
        <5> QED BY <2>1, <2>5, <5>1
      <4> QED BY Zenon, <1>8, <1>13, <2>5, <4>1, <4>3
    <3> QED BY Zenon, <1>4, <1>21, <3>2, <3>3
  <2> QED BY Zenon, <1>1, <1>11, <2>1, <2>3, <2>4, <2>5 DEF Owned, trap
<1>27. StillHeld(t)'
  <2>2. ASSUME NEW i \in Good(t)'
        PROVE  /\ \A a \in i.writes : InUse(m, H, c2, i.dest[a])
               /\ \A a \in Arch : InUse(m, H, c2, i.src[a])
    <3>2. i \in All /\ c2 < i.seq
      BY Zenon, <1>18, <1>19, <1>21, <1>22 DEF Order, c2
    <3>3. /\ i.seq \in Nat /\ i.seq + 1 \in Nat /\ c2 < i.seq + 1 /\ i.writes \in SUBSET Arch
      <4>1. i.seq \in Nat /\ c2 < i.seq /\ i.writes \in SUBSET Arch
        BY Zenon, <1>4, <3>2
      <4> QED BY <1>17, <4>1
    <3>4. ASSUME NEW s \in Nat, NEW a \in Arch, NEW r, c2 < s, Before(m, H, s, a, r) PROVE InUse(m, H, c2, r)
      <4> HIDE DEF m, H
      <4> QED BY Zenon, <1>0, <1>1, <1>16, <3>4, BeforeInUse
    <3> QED BY Zenon, <1>1, <1>22, <3>2, <3>3, <3>4 DEF Values
  <2> QED BY Zenon, <1>21, <2>2 DEF StillHeld, Held, Ticked, c2, InFlight
<1>28. TrapHead(t)'
  <2>1. CASE trap
    BY Zenon, <1>1, <1>8, <2>1 DEF TrapHead, trap
  <2>2. CASE ~trap
    <3> SUFFICES ASSUME commitStatus'[t] = "TrapPending"
                 PROVE  \E j \in rob'[t] : ~j.squashed /\ \A i \in rob'[t] : j.seq <= i.seq
      BY Zenon DEF TrapHead
    <3> DEFINE S == R \ out(k)
    <3>1. S # {} /\ ~Oldest(S).squashed
      BY Zenon, <1>13, <2>2
    <3>2. S = rob'[t]
      BY Zenon, <1>7 DEF out
    <3>3. S \in SUBSET All
      BY Zenon, <1>3
    <3> HIDE DEF S
    <3> QED BY Zenon, <3>1, <3>2, <3>3, RobEnds
  <2> QED BY Zenon, <2>1, <2>2
<1> QED
  BY Zenon, <1>19, <1>20, <1>25, <1>26, <1>27, <1>28 DEF ThreadInv

-----------------------------------------------------------------------------
(* The theorems. *)

(* Every step keeps the invariant. *)
LEMMA InvStep == IInv /\ [Next]_vars => IInv'
<1> SUFFICES ASSUME IInv, [Next]_vars PROVE IInv'
  OBVIOUS
<1>1. TypeOK' /\ RenameInv'
  BY Zenon, TypeStep, RenameInvStep
<1>0. /\ stage \in [Thread -> {"signals", "rename", "commit"}]
      /\ renameMap \in [Thread -> [Arch -> PhysReg]] /\ commitMap \in [Thread -> [Arch -> PhysReg]]
      /\ freeing \in [Thread -> SUBSET Phys] /\ historyBuffer \in [Thread -> SUBSET RenameHistory]
      /\ toIEW \in [Thread -> SUBSET Inst] /\ fromRename \in [Thread -> SUBSET Inst]
      /\ rob \in [Thread -> SUBSET Inst] /\ commitInfo \in [Thread -> CommitInfo]
      /\ commitStatus \in [Thread -> {"Running", "ROBSquashing", "TrapPending", "SquashAfterPending"}]
      /\ squashIt \in [Thread -> Nat] /\ squashedSeqNum \in [Thread -> Nat]
      /\ youngestSeqNum \in [Thread -> Nat] /\ lastCommited \in [Thread -> Nat] /\ nextSeq \in Nat
  BY Zenon, TypeParts DEF IInv
<1> DEFINE Same(v) == /\ stage'[v] = stage[v] /\ renameMap'[v] = renameMap[v]
                      /\ historyBuffer'[v] = historyBuffer[v] /\ freeing'[v] = freeing[v]
                      /\ toIEW'[v] = toIEW[v] /\ fromRename'[v] = fromRename[v]
                      /\ commitInfo'[v] = commitInfo[v] /\ rob'[v] = rob[v]
                      /\ squashIt'[v] = squashIt[v] /\ squashedSeqNum'[v] = squashedSeqNum[v]
                      /\ commitStatus'[v] = commitStatus[v] /\ commitMap'[v] = commitMap[v]
                      /\ youngestSeqNum'[v] = youngestSeqNum[v] /\ lastCommited'[v] = lastCommited[v]
<1>3. ASSUME NEW v \in Thread, Same(v), nextSeq' >= nextSeq PROVE ThreadInv(v)'
  BY Zenon, <1>1, <1>3, ThreadStable DEF IInv, CommitInv
<1>4. CASE UNCHANGED vars
  <2>1. nextSeq' >= nextSeq /\ \A v \in Thread : Same(v)
    BY <1>0, <1>4 DEF vars, rename, commit
  <2> HIDE DEF Same
  <2> QED BY Zenon, <1>1, <1>3, <2>1 DEF IInv, CommitInv
<1>5. ASSUME NEW t \in Thread, RenameSignals(t) PROVE CommitInv'
  <2>1. ThreadInv(t)'
    BY Zenon, <1>1, <1>5, ThreadSquash, ThreadFree DEF RenameSignals
  <2>2. ASSUME NEW v \in Thread, v # t PROVE Same(v)
    BY Zenon, <1>0, <1>5, <2>2 DEF RenameSignals, Advance, Squash, commit, FreeSquashed
  <2>3. nextSeq' >= nextSeq
    <3>1. nextSeq' = nextSeq
      BY Zenon, <1>5 DEF RenameSignals, Squash, FreeSquashed
    <3> QED BY <1>0, <3>1
  <2> HIDE DEF Same
  <2> QED BY Zenon, <1>3, <2>1, <2>2, <2>3 DEF CommitInv
<1>6. ASSUME NEW t \in Thread, RetireHistory(t) PROVE CommitInv'
  <2>2. ASSUME NEW v \in Thread, v # t PROVE Same(v)
    BY Zenon, <1>0, <1>6, <2>2 DEF RetireHistory, commit, Advance
  <2>3. nextSeq' >= nextSeq
    <3>1. nextSeq' = nextSeq
      BY Zenon, <1>6 DEF RetireHistory
    <3> QED BY <1>0, <3>1
  <2> HIDE DEF Same
  <2> QED BY Zenon, <1>3, <1>6, <2>2, <2>3, ThreadRetire DEF CommitInv
<1>7. ASSUME NEW t \in Thread, NEW D \in Dests, RenameInst(t, D) PROVE CommitInv'
  <2>2. ASSUME NEW v \in Thread, v # t PROVE Same(v)
    BY Zenon, <1>0, <1>7, <2>2 DEF RenameInst, commit, renameDestRegs
  <2>3. nextSeq' >= nextSeq
    <3>1. nextSeq' = nextSeq + 1
      BY Zenon, <1>7 DEF RenameInst
    <3> QED BY <1>0, <3>1
  <2> HIDE DEF Same
  <2> QED BY Zenon, <1>1, <1>3, <1>7, <2>2, <2>3, ThreadRename DEF CommitInv
<1>8. ASSUME NEW t \in Thread, CommitTick(t) PROVE CommitInv'
  <2>2. ThreadInv(t)'
    BY Zenon, <1>0, <1>1, <1>8, ThreadCommitInsts, ThreadCommitSquash, ThreadStillSquashing DEF
       CommitTick, Advance, Ticked
  <2>3. ASSUME NEW v \in Thread, v # t PROVE Same(v)
    <3>1. /\ stage'[v] = stage[v] /\ fromRename'[v] = fromRename[v] /\ toIEW'[v] = toIEW[v]
          /\ UNCHANGED <<renameMap, historyBuffer, freeing>>
      BY Zenon, <1>0, <1>8, <2>3 DEF CommitTick, Advance
    <3> DEFINE Rest == /\ commitInfo'[v] = commitInfo[v] /\ rob'[v] = rob[v] /\ squashIt'[v] = squashIt[v]
                       /\ squashedSeqNum'[v] = squashedSeqNum[v] /\ commitStatus'[v] = commitStatus[v]
                       /\ commitMap'[v] = commitMap[v] /\ youngestSeqNum'[v] = youngestSeqNum[v]
                       /\ lastCommited'[v] = lastCommited[v]
    <3>2. ASSUME NEW s, NEW y, SquashTo(t, s, y) PROVE Rest
      BY <1>0, <2>3, <3>2 DEF SquashTo, robSquash, doSquash
    <3>3. CASE SquashAll(t) \/ IEWSquash(t)
      <4> HIDE DEF Rest
      <4> QED BY Zenon, <3>1, <3>2, <3>3 DEF Rest, SquashAll, IEWSquash
    <3>4. CASE StillSquashing(t)
      BY Zenon, <1>0, <2>3, <3>1, <3>4 DEF StillSquashing, doSquash
    <3>5. CASE CommitInsts(t)
      <4>1. /\ \E x : rob' = [rob EXCEPT ![t] = x]
            /\ \E x : commitMap' = [commitMap EXCEPT ![t] = x]
            /\ \E x : lastCommited' = [lastCommited EXCEPT ![t] = x]
            /\ \E x : commitInfo' = [commitInfo EXCEPT ![t] = x]
            /\ \E x : commitStatus' = [commitStatus EXCEPT ![t] = x]
        BY Zenon, <3>5 DEF CommitInsts
      <4>3. /\ rob'[v] = rob[v] /\ commitMap'[v] = commitMap[v] /\ lastCommited'[v] = lastCommited[v]
            /\ commitInfo'[v] = commitInfo[v] /\ commitStatus'[v] = commitStatus[v]
        BY Zenon, <1>0, <2>3, <4>1
      <4>2. /\ squashIt'[v] = squashIt[v] /\ squashedSeqNum'[v] = squashedSeqNum[v]
            /\ youngestSeqNum'[v] = youngestSeqNum[v]
        BY Zenon, <1>0, <2>3, <3>5 DEF CommitInsts
      <4> QED BY Zenon, <3>1, <4>2, <4>3
    <3> QED BY Zenon, <1>8, <3>3, <3>4, <3>5 DEF CommitTick
  <2> HIDE DEF Same
  <2>4. nextSeq' >= nextSeq
    <3>1. nextSeq' = nextSeq
      BY Zenon, <1>8 DEF CommitTick
    <3> QED BY <1>0, <3>1
  <2> QED BY Zenon, <1>3, <2>2, <2>3, <2>4 DEF CommitInv
<1> HIDE DEF Same
<1>9. CASE Next
  BY Zenon, <1>1, <1>5, <1>6, <1>7, <1>8, <1>9 DEF Next, IInv
<1> QED
  BY Zenon, <1>4, <1>9

(* The invariant holds in every reachable state. *)
THEOREM Invariance == Spec => []IInv
  BY InitInv, InvStep, PTL DEF Spec

(* The variables keep their types, and only physical registers that can be renamed are ever free. *)
THEOREM TypesCorrect == Spec => []TypeOK
  BY Invariance, PTL DEF IInv

(* No register is freed twice or given to two owners, for any number of threads and registers. *)
THEOREM NoRegisterFreedTwice == Spec => []NoDoubleFree
  BY Invariance, PTL, RegistersPartitioned DEF IInv

(* No squash and no retirement leaks a register. *)
THEOREM NoRegisterLeaked == Spec => []NoRegisterLost
  BY Invariance, PTL, RegistersPartitioned DEF IInv

(* Undoing what is not committed always gives the commit rename map, whatever squashes are in progress. *)
THEOREM RecoveryExact == Spec => []PreciseState
<1>1. ASSUME IInv PROVE PreciseState
  <2> SUFFICES ASSUME NEW t \in Thread, NEW a \in Arch
               PROVE  \/ Uncommitted(t, a) = {} /\ commitMap[t][a] = renameMap[t][a]
                      \/ \E h \in Uncommitted(t, a) : /\ \A g \in Uncommitted(t, a) : h.seq <= g.seq
                                                      /\ commitMap[t][a] = h.prev
    BY Zenon DEF PreciseState
  <2> DEFINE m == renameMap[t]
             H == historyBuffer[t]
             c == lastCommited[t]
             r == commitMap[t][a]
  <2>1. Before(m, H, c + 1, a, r) /\ Chained(m, H)
    BY Zenon, <1>1 DEF IInv, CommitInv, ThreadInv, Values, RenameInv
  <2>4. \A h : h \in Uncommitted(t, a) <=> h \in H /\ h.arch = a /\ h.seq >= c + 1 /\ a \notin Fixed
    BY <1>1, <2>1, TypeParts DEF Uncommitted, Renamed, Younger, Chained, RenameHistory, IInv
  <2>5. CASE a \in Fixed
    BY Zenon, <2>1, <2>4, <2>5 DEF Before, Chained
  <2>6. CASE a \notin Fixed
    BY <1>1, <2>1, <2>4, <2>6, TypeParts DEF Before, Chained, RenameHistory, IInv
  <2> QED BY Zenon, <2>5, <2>6
<1> QED
  BY <1>1, Invariance, PTL

(* No register that an instruction in flight reads or writes is on the free list. *)
THEOREM InFlightNotFree == Spec => []NotOwned
<1>1. ASSUME IInv PROVE NotOwned
  <2>1. ASSUME NEW t \in Thread, NEW r, Held(t, r) PROVE r \notin freeList
    BY Zenon, <1>1, <2>1, RegsAssumption, TypeParts DEF IInv, Held, InUse, Holds, Holding, Keeping,
       RenameInv, Partition
  <2> QED BY Zenon, <1>1, <2>1 DEF NotOwned, StillHeld, IInv, CommitInv, ThreadInv
<1> QED
  BY <1>1, Invariance, PTL

=============================================================================
