------------------------- MODULE O3Rename_registers -------------------------
(***************************************************************************)
(* The inductive invariant of O3Rename, the facts about the map and the    *)
(* history it rests on, what it says about the registers, and that the     *)
(* rename stage keeps it, for any number of threads and registers.         *)
(***************************************************************************)
EXTENDS O3Rename, TLAPS, WellFoundedInduction

(***************************************************************************)
(* r is the register that a was mapped to before the instruction with      *)
(* sequence number s: what the first entry from s on replaced, or the      *)
(* present mapping when there is no such entry.                            *)
(***************************************************************************)
Before(m, H, s, a, r) ==
  \/ \E h \in H : /\ h.arch = a /\ h.seq >= s /\ h.prev = r
                  /\ \A k \in H : k.arch = a /\ k.seq >= s => k.seq >= h.seq
  \/ m[a] = r /\ \A k \in H : k.arch = a => k.seq < s

(* The map and the history of a thread: each entry is what the next one replaced. *)
Chained(m, H) ==
  /\ \A a \in Arch : IF a \in Fixed THEN m[a] = a ELSE m[a] \in Phys
  /\ \A h \in H : IF h.arch \in Fixed THEN h.new = h.arch /\ h.prev = h.arch
                                      ELSE h.new \in Phys /\ h.prev \in Phys /\ h.new # h.prev
  /\ \A g, h \in H : g.seq = h.seq /\ g.arch = h.arch => g = h
  /\ \A h \in H : Before(m, H, h.seq + 1, h.arch, h.new)

(* The registers a thread with map m and history H holds, F of them set aside, and each once. *)
Mapping(m, r) == \E a \in Arch \ Fixed : m[a] = r
Keeping(H, r) == \E h \in H : h.arch \notin Fixed /\ h.prev = r
Holding(m, H, F, r) == Mapping(m, r) \/ Keeping(H, r) \/ r \in F

OneEach(m, H, F) ==
  /\ \A a, b \in Arch \ Fixed : m[a] = m[b] => a = b
  /\ \A g, h \in H : g.arch \notin Fixed /\ h.arch \notin Fixed /\ g.prev = h.prev => g = h
  /\ \A r \in Phys : ~(Mapping(m, r) /\ Keeping(H, r))
  /\ \A r \in F : ~Mapping(m, r) /\ ~Keeping(H, r)

Holds(t, r) == Holding(renameMap[t], historyBuffer[t], freeing[t], r)

Partition ==
  /\ \A t \in Thread : OneEach(renameMap[t], historyBuffer[t], freeing[t])
  /\ \A t, u \in Thread, r \in Phys : Holds(t, r) /\ Holds(u, r) => t = u
  /\ \A r \in Phys : r \in freeList <=> \A t \in Thread : ~Holds(t, r)

RenameInv ==
  /\ \A t \in Thread : /\ Chained(renameMap[t], historyBuffer[t])
                       /\ \A h \in historyBuffer[t] : h.seq < nextSeq
  /\ Partition

-----------------------------------------------------------------------------
(* What the commit side adds. *)

(* A squash commit has sent and rename has not seen yet. *)
Pending(t) == stage[t] = "signals" /\ commitInfo[t].squash

(* In the ROB, to be marked by the squash that is walking it. *)
Doomed(t, i) == IsSquashing(t) /\ squashedSeqNum[t] < i.seq /\ i.seq <= squashIt[t]

Good(t) == {i \in rob[t] : ~i.squashed /\ ~Doomed(t, i)}
             \cup {i \in fromRename[t] \cup toIEW[t] : ~i.squashed /\ ~Pending(t)}

Order(t) ==
  /\ \A i \in rob[t] : lastCommited[t] < i.seq
  /\ \A i \in rob[t], j \in fromRename[t] \cup toIEW[t] : i.seq < j.seq
  /\ \A i \in fromRename[t], j \in toIEW[t] : i.seq < j.seq
  /\ \A i, j \in rob[t] : i.seq = j.seq => i = j
  /\ \A i, j \in fromRename[t] : i.seq = j.seq => i = j
  /\ \A i, j \in toIEW[t] : i.seq = j.seq => i = j
  /\ \A i \in rob[t] \cup fromRename[t] \cup toIEW[t] : i.seq < nextSeq
  /\ \A i \in fromRename[t] \cup toIEW[t] : lastCommited[t] < i.seq
  /\ lastCommited[t] < nextSeq
  /\ youngestSeqNum[t] < nextSeq

Signals(t) ==
  /\ commitInfo[t].robSquashing <=> commitStatus[t] = "ROBSquashing"
  /\ commitInfo[t].squash => commitInfo[t].robSquashing /\ commitInfo[t].done >= lastCommited[t]
  /\ ~commitInfo[t].squash => commitInfo[t].done <= lastCommited[t]
  /\ stage[t] = "signals" \/ commitInfo[t].robSquashing => toIEW[t] = {}
  /\ commitInfo[t].robSquashing /\ ~Pending(t) => \A i \in fromRename[t] : i.squashed
  /\ squashIt[t] # 0 => /\ commitStatus[t] = "ROBSquashing" /\ youngestSeqNum[t] <= squashedSeqNum[t]
                        /\ \E i \in rob[t] : i.seq = squashIt[t]
  /\ Pending(t) => \A i \in rob[t] : i.squashed \/ Doomed(t, i) \/ i.seq <= commitInfo[t].done

(* Each instruction that survives still has its sources and destinations, and the commit map its registers. *)
Values(t) ==
  /\ \A a \in Arch : Before(renameMap[t], historyBuffer[t], lastCommited[t] + 1, a, commitMap[t][a])
  /\ \A i \in Good(t) :
       /\ \A a \in Arch : Before(renameMap[t], historyBuffer[t], i.seq, a, i.src[a])
       /\ \A a \in i.writes : Before(renameMap[t], historyBuffer[t], i.seq + 1, a, i.dest[a])

(* Each mapping that survives and is not committed belongs to an instruction that survives. *)
Owned(t) ==
  \A h \in historyBuffer[t] :
    h.seq > lastCommited[t] /\ (Pending(t) => h.seq <= commitInfo[t].done) =>
      \/ \E i \in Good(t) : i.seq = h.seq /\ h.arch \in i.writes
      \/ commitStatus[t] = "TrapPending" /\ \E j \in rob[t] : ~j.squashed /\ j.seq <= h.seq

(* An instruction about to be squashed still holds its registers. *)
InUse(m, H, s, r) == \/ r \in Fixed \/ Mapping(m, r)
                     \/ \E h \in H : h.arch \notin Fixed /\ h.prev = r /\ h.seq > s
Held(t, r) == r \in freeing[t] \/ InUse(renameMap[t], historyBuffer[t], lastCommited[t], r)
StillHeld(t) ==
  \A i \in InFlight(t) :
    /\ \A a \in i.writes : Held(t, i.dest[a])
    /\ \A a \in Arch : Held(t, i.src[a])

(* A faulting instruction stays at the head until its squash. *)
TrapHead(t) == commitStatus[t] = "TrapPending" =>
                 \E j \in rob[t] : ~j.squashed /\ \A i \in rob[t] : j.seq <= i.seq

ThreadInv(t) == Order(t) /\ Signals(t) /\ Values(t) /\ Owned(t) /\ StillHeld(t) /\ TrapHead(t)
CommitInv == \A t \in Thread : ThreadInv(t)

IInv == TypeOK /\ RenameInv /\ CommitInv

-----------------------------------------------------------------------------
(* Facts about the operators. *)

(* A nonempty set of natural numbers has a least element. *)
LEMMA NatMin ==
  ASSUME NEW S \in SUBSET Nat, S # {}
  PROVE  \E x \in S : \A y \in S : x <= y
<1> DEFINE R == OpToRel(<, Nat)
<1>1. IsWellFoundedOn(R, Nat)
  BY Zenon, NatLessThanWellFounded
<1>2. \A x, y \in Nat : x < y => <<x, y>> \in R
  BY Zenon DEF OpToRel
<1> HIDE DEF R
<1>3. PICK x \in S : \A y \in S : ~(<<y, x>> \in R)
  BY Zenon, <1>1, WFMin
<1>4. ASSUME NEW y \in S PROVE x <= y
  <2>1. ~(y < x)
    BY Zenon, <1>2, <1>3
  <2> QED BY <2>1
<1> QED
  BY Zenon, <1>4

(* A bounded nonempty set of natural numbers has a greatest element. *)
LEMMA NatMax ==
  ASSUME NEW S \in SUBSET Nat, S # {}, NEW b \in Nat, \A x \in S : x <= b
  PROVE  \E x \in S : \A y \in S : y <= x
<1> DEFINE T == {n \in Nat : \E x \in S : n = b - x}
<1>1. T # {}
  <2>1. PICK x \in S : TRUE
    BY Zenon
  <2>2. b - x \in Nat
    BY <2>1
  <2> QED BY Zenon, <2>1, <2>2
<1>2. T \in SUBSET Nat
  OBVIOUS
<1>3. PICK z \in T : \A y \in T : z <= y
  <2> HIDE DEF T
  <2> QED BY Zenon, <1>1, <1>2, NatMin
<1>4. PICK x \in S : z = b - x
  BY Zenon, <1>3
<1> QED BY <1>3, <1>4

(* Oldest chooses the first entry, or the head of the ROB. *)
LEMMA OldestIs ==
  ASSUME NEW S, S # {}, \A i \in S : i.seq \in Nat
  PROVE  Oldest(S) \in S /\ \A j \in S : j.seq >= Oldest(S).seq
<1> DEFINE N == {i.seq : i \in S}
<1>1. PICK x \in N : \A y \in N : x <= y
  <2>1. N \in SUBSET Nat /\ N # {}
    OBVIOUS
  <2> HIDE DEF N
  <2> QED BY Zenon, <2>1, NatMin
<1>2. PICK i \in S : \A j \in S : j.seq >= i.seq
  BY Zenon, <1>1
<1> QED
  BY Zenon, <1>2 DEF Oldest

(* Newest chooses the last entry, or the tail of the ROB. *)
LEMMA NewestIs ==
  ASSUME NEW S, S # {}, NEW b \in Nat, \A i \in S : i.seq \in Nat /\ i.seq <= b
  PROVE  Newest(S) \in S /\ \A j \in S : j.seq <= Newest(S).seq
<1> DEFINE N == {i.seq : i \in S}
<1>1. PICK x \in N : \A y \in N : y <= x
  <2>1. N \in SUBSET Nat /\ N # {} /\ \A y \in N : y <= b
    OBVIOUS
  <2> HIDE DEF N
  <2> QED BY Zenon, <2>1, NatMax
<1>2. PICK i \in S : \A j \in S : j.seq <= i.seq
  BY Zenon, <1>1
<1> QED
  BY Zenon, <1>2 DEF Newest

(* What was mapped before s was also mapped before a later s2 if nothing renamed a in between. *)
LEMMA BeforeRaise ==
  ASSUME NEW m, NEW H \in SUBSET RenameHistory, NEW a \in Arch, NEW r,
         NEW s \in Nat, NEW s2 \in Nat, s <= s2,
         Before(m, H, s, a, r),
         \A h \in H : h.arch = a => h.seq < s \/ h.seq >= s2
  PROVE  Before(m, H, s2, a, r)
  BY DEF RenameHistory, Before

(* Retiring the entries up to d changes no mapping after d. *)
LEMMA BeforeRetire ==
  ASSUME NEW m, NEW H \in SUBSET RenameHistory, NEW a \in Arch, NEW r,
         NEW s \in Nat, NEW d \in Nat, d < s,
         Before(m, H, s, a, r)
  PROVE  Before(m, {h \in H : ~(h.seq <= d)}, s, a, r)
  BY DEF RenameHistory, Before

(* The entries that Undo looks at, and what it restores. *)
LEMMA UndoIs ==
  ASSUME NEW m, NEW H \in SUBSET RenameHistory, Chained(m, H), NEW d \in Nat, NEW a \in Arch
  PROVE  LET Y == {h \in H : h.seq > d}
             W == {h \in Y : h.arch = a}
         IN  /\ a \in Fixed => Undo(m, Y)[a] = m[a]
             /\ W = {} => Undo(m, Y)[a] = m[a]
             /\ a \notin Fixed /\ W # {} =>
                  \E o \in W : Undo(m, Y)[a] = o.prev /\ \A g \in W : g.seq >= o.seq
<1> DEFINE Y == {h \in H : h.seq > d}
           W == {h \in Y : h.arch = a}
           V == {h \in Renamed(Y) : h.arch = a}
<1>2. a \in Fixed => V = {}
  BY Zenon DEF Chained, Renamed
<1>3. a \notin Fixed => V = W
  BY Zenon DEF Chained, Renamed
<1>4. Undo(m, Y)[a] = IF V = {} THEN m[a] ELSE Oldest(V).prev
  BY Zenon DEF Undo
<1>5. V # {} => Oldest(V) \in V /\ \A g \in V : g.seq >= Oldest(V).seq
  <2>1. \A i \in V : i.seq \in Nat
    BY Zenon DEF Renamed, RenameHistory
  <2> HIDE DEF V
  <2> QED BY Zenon, <2>1, OldestIs
<1>6. V \subseteq W
  BY Zenon DEF Renamed
<1> HIDE DEF W, V, Y
<1>9. ASSUME a \notin Fixed, W # {}
      PROVE  \E o \in W : Undo(m, Y)[a] = o.prev /\ \A g \in W : g.seq >= o.seq
  BY Zenon, <1>3, <1>4, <1>5, <1>9
<1> QED BY Zenon, <1>2, <1>4, <1>6, <1>9 DEF W, Y

(* A squash to d restores what was mapped before any instruction up to d + 1. *)
LEMMA BeforeSquash ==
  ASSUME NEW m, NEW H \in SUBSET RenameHistory, Chained(m, H),
         NEW a \in Arch, NEW r, NEW s \in Nat, NEW d \in Nat, s <= d + 1,
         Before(m, H, s, a, r)
  PROVE  Before(Undo(m, {h \in H : h.seq > d}), H \ {h \in H : h.seq > d}, s, a, r)
<1> DEFINE Y == {h \in H : h.seq > d}
           W == {h \in Y : h.arch = a}
           u == Undo(m, Y)
<1>2. /\ a \in Fixed => u[a] = m[a]
      /\ W = {} => u[a] = m[a]
      /\ a \notin Fixed /\ W # {} => \E o \in W : u[a] = o.prev /\ \A g \in W : g.seq >= o.seq
  BY UndoIs
<1> SUFFICES Before(u, H \ Y, s, a, r)
  OBVIOUS
<1> HIDE DEF u
<1>3. CASE m[a] = r /\ \A k \in H : k.arch = a => k.seq < s
  BY <1>2, <1>3 DEF Before, RenameHistory
<1>4. CASE \E h \in H : /\ h.arch = a /\ h.seq >= s /\ h.prev = r
                        /\ \A k \in H : k.arch = a /\ k.seq >= s => k.seq >= h.seq
  BY <1>2, <1>4 DEF Before, Chained, RenameHistory
<1> QED
  BY Zenon, <1>3, <1>4 DEF Before

(* The map and the history after instruction n has renamed the registers in D. *)
Extended(m, H, n, D, new, m2, H2) ==
  /\ \A a \in Arch : m2[a] = IF a \in D THEN new[a] ELSE m[a]
  /\ H \subseteq H2
  /\ \A h \in H2 : h \notin H => (h.seq = n /\ h.arch \in D /\ h.new = new[h.arch] /\ h.prev = m[h.arch])
  /\ \A a \in D : \E h \in H2 : /\ h.seq = n /\ h.arch = a /\ h.prev = m[a]
                               /\ \A g \in H2 : g.seq = n /\ g.arch = a => g = h

(* renameDestRegs extends them. *)
LEMMA RenameExtends ==
  ASSUME NEW m, NEW H \in SUBSET RenameHistory, NEW n \in Nat, \A h \in H : h.seq < n,
         NEW D \in SUBSET Arch, NEW new
  PROVE  Extended(m, H, n, D, new, [a \in Arch |-> IF a \in D THEN new[a] ELSE m[a]],
           H \cup {[seq |-> n, arch |-> a, new |-> new[a], prev |-> m[a]] : a \in D})
<1> DEFINE H2 == H \cup {[seq |-> n, arch |-> a, new |-> new[a], prev |-> m[a]] : a \in D}
           m2 == [a \in Arch |-> IF a \in D THEN new[a] ELSE m[a]]
<1>2. ASSUME NEW b \in D
      PROVE  \E h \in H2 : /\ h.seq = n /\ h.arch = b /\ h.prev = m[b]
                           /\ \A g \in H2 : g.seq = n /\ g.arch = b => g = h
  <2> DEFINE e == [seq |-> n, arch |-> b, new |-> new[b], prev |-> m[b]]
  <2>1. e \in H2
    OBVIOUS
  <2>2. e.seq = n /\ e.arch = b /\ e.prev = m[b]
    OBVIOUS
  <2>3. ASSUME NEW g \in H2, g.seq = n, g.arch = b PROVE g = e
    BY <2>3 DEF RenameHistory
  <2> HIDE DEF e
  <2> QED BY Zenon, <2>1, <2>2, <2>3
<1>3. ASSUME NEW h \in H2
      PROVE  h \notin H => (h.seq = n /\ h.arch \in D /\ h.new = new[h.arch] /\ h.prev = m[h.arch])
  OBVIOUS
<1> HIDE DEF H2, m2
<1> QED BY Zenon, <1>2, <1>3 DEF H2, m2, Extended

(* Renaming D changes no mapping before the new instruction n, and n maps what it says. *)
LEMMA BeforeRename ==
  ASSUME NEW m, NEW H \in SUBSET RenameHistory, NEW n \in Nat, \A h \in H : h.seq < n,
         NEW D \in SUBSET Arch, NEW new, NEW m2, NEW H2,
         Extended(m, H, n, D, new, m2, H2),
         NEW b \in Arch, NEW r, NEW s \in Nat
  PROVE  /\ s <= n /\ Before(m, H, s, b, r) => Before(m2, H2, s, b, r)
         /\ s > n => Before(m2, H2, s, b, m2[b])
  BY DEF RenameHistory, Extended, Before

(* The new mappings keep the chain. *)
LEMMA ChainedRename ==
  ASSUME NEW m, NEW H \in SUBSET RenameHistory, Chained(m, H),
         NEW n \in Nat, \A h \in H : h.seq < n,
         NEW D \in SUBSET Arch, NEW new, NEW m2, NEW H2,
         Extended(m, H, n, D, new, m2, H2),
         \A a \in D \cap Fixed : new[a] = m[a],
         \A a \in D \ Fixed : new[a] \in Phys /\ new[a] # m[a]
  PROVE  Chained(m2, H2)
<1>2. ASSUME NEW b \in Arch, NEW r, NEW s \in Nat
      PROVE  /\ s <= n /\ Before(m, H, s, b, r) => Before(m2, H2, s, b, r)
             /\ s > n => Before(m2, H2, s, b, m2[b])
  BY BeforeRename, Zenon
<1>5. ASSUME NEW g \in H2, NEW h \in H2, g.seq = h.seq, g.arch = h.arch PROVE g = h
  BY <1>5 DEF Extended, Chained, RenameHistory
<1>6. ASSUME NEW h \in H2 PROVE Before(m2, H2, h.seq + 1, h.arch, h.new)
  BY <1>2 DEF Chained, Extended, RenameHistory
<1> QED BY <1>5, <1>6 DEF Chained, Extended

(* Retiring the entries up to d keeps the chain. *)
LEMMA ChainedRetire ==
  ASSUME NEW m, NEW H \in SUBSET RenameHistory, Chained(m, H), NEW d \in Nat
  PROVE  Chained(m, {h \in H : ~(h.seq <= d)})
<1> DEFINE H2 == {h \in H : ~(h.seq <= d)}
<1>2. ASSUME NEW h \in H2 PROVE Before(m, H2, h.seq + 1, h.arch, h.new)
  BY BeforeRetire DEF Chained, RenameHistory
<1> QED
  BY Zenon, <1>2 DEF Chained

(* Undoing the entries after d keeps the chain. *)
LEMMA ChainedSquash ==
  ASSUME NEW m, NEW H \in SUBSET RenameHistory, Chained(m, H), NEW d \in Nat
  PROVE  Chained(Undo(m, {h \in H : h.seq > d}), H \ {h \in H : h.seq > d})
<1> DEFINE Y == {h \in H : h.seq > d}
           u == Undo(m, Y)
<1>2. ASSUME NEW h \in H \ Y PROVE Before(u, H \ Y, h.seq + 1, h.arch, h.new)
  BY BeforeSquash DEF Chained, RenameHistory
<1>3. ASSUME NEW a \in Arch PROVE IF a \in Fixed THEN u[a] = a ELSE u[a] \in Phys
  <2> DEFINE W == {h \in Y : h.arch = a}
  <2>1. /\ a \in Fixed => u[a] = m[a]
        /\ W = {} => u[a] = m[a]
        /\ a \notin Fixed /\ W # {} => \E o \in W : u[a] = o.prev
    BY UndoIs
  <2> HIDE DEF u
  <2> QED BY Zenon, <2>1 DEF Chained
<1> HIDE DEF u
<1> QED BY Zenon, <1>2, <1>3 DEF u, Chained

(***************************************************************************)
(* Where the registers of the undone entries Y are when u is restored: the *)
(* register an entry gave is the present mapping or what a later one       *)
(* replaced, and what it replaced is the restored mapping or the register  *)
(* an earlier one gave.                                                    *)
(***************************************************************************)
Homes(m, Y, u) ==
  /\ \A a \in Arch \ Fixed :
       \/ u[a] = m[a] /\ \A g \in Y : g.arch # a
       \/ \E o \in Y : o.arch = a /\ u[a] = o.prev /\ \A g \in Y : g.arch = a => g.seq >= o.seq
  /\ \A h \in Y : h.arch \notin Fixed =>
       h.new = m[h.arch] \/ \E g \in Y : g.arch = h.arch /\ g.seq > h.seq /\ g.prev = h.new
  /\ \A g \in Y : g.arch \notin Fixed =>
       g.prev = u[g.arch] \/ \E h \in Y : h.arch = g.arch /\ h.new = g.prev
  /\ \A g \in Y : g.arch \notin Fixed => \E h \in Y : h.arch = g.arch /\ h.new = m[g.arch]

(* What doSquash restores finds the registers of the undone entries there. *)
LEMMA SquashHomes ==
  ASSUME NEW m, NEW H \in SUBSET RenameHistory, Chained(m, H), NEW d \in Nat,
         NEW n \in Nat, \A h \in H : h.seq < n, NEW Y, Y = {h \in H : h.seq > d}
  PROVE  Homes(m, Y, Undo(m, Y))
<1> DEFINE u == Undo(m, Y)
<1>1. \A h \in H : h.seq \in Nat /\ h.arch \in Arch
  BY Zenon DEF RenameHistory
<1>2. \A h \in Y : h \in H /\ h.seq > d
  OBVIOUS
<1>3. \A g, h \in H : g.seq = h.seq /\ g.arch = h.arch => g = h
  BY Zenon DEF Chained
<1>4. ASSUME NEW a \in Arch \ Fixed
      PROVE  \/ u[a] = m[a] /\ \A g \in Y : g.arch # a
             \/ \E o \in Y : o.arch = a /\ u[a] = o.prev /\ \A g \in Y : g.arch = a => g.seq >= o.seq
  <2> DEFINE W == {h \in Y : h.arch = a}
  <2>1. /\ W = {} => u[a] = m[a]
        /\ a \notin Fixed /\ W # {} => \E o \in W : u[a] = o.prev /\ \A g \in W : g.seq >= o.seq
    BY UndoIs
  <2> HIDE DEF u
  <2> QED BY Zenon, <2>1
<1> HIDE DEF u
<1>5. ASSUME NEW h \in H
      PROVE  \/ h.new = m[h.arch] /\ \A k \in H : k.arch = h.arch => k.seq <= h.seq
             \/ \E g \in H : /\ g.arch = h.arch /\ g.seq > h.seq /\ g.prev = h.new
                             /\ \A k \in H : k.arch = h.arch /\ k.seq > h.seq => k.seq >= g.seq
  BY <1>1 DEF Chained, Before
<1>6. ASSUME NEW h \in Y, h.arch \notin Fixed
      PROVE  h.new = m[h.arch] \/ \E g \in Y : g.arch = h.arch /\ g.seq > h.seq /\ g.prev = h.new
  BY <1>1, <1>2, <1>5
<1>7. ASSUME NEW g \in Y, g.arch \notin Fixed, g.prev # u[g.arch]
      PROVE  \E h \in Y : h.arch = g.arch /\ h.new = g.prev
  <2> DEFINE E == {h.seq : h \in {k \in Y : k.arch = g.arch /\ k.seq < g.seq}}
  <2>1. E # {}
    BY <1>1, <1>2, <1>3, <1>4, <1>7
  <2>2. E \in SUBSET Nat /\ \A x \in E : x <= n
    BY <1>1, <1>2
  <2>3. PICK x \in E : \A y \in E : y <= x
    <3> HIDE DEF E
    <3> QED BY Zenon, <2>1, <2>2, NatMax
  <2>4. PICK p \in Y : p.seq = x /\ p.arch = g.arch /\ p.seq < g.seq
    BY Zenon, <2>3
  <2>6. PICK q \in H : /\ q.arch = p.arch /\ q.seq > p.seq /\ q.prev = p.new
                       /\ \A k \in H : k.arch = p.arch /\ k.seq > p.seq => k.seq >= q.seq
    BY <1>1, <1>2, <1>5, <2>4
  <2>8. q = g
    BY <1>1, <1>2, <1>3, <2>3, <2>4, <2>6
  <2> QED BY Zenon, <2>4, <2>6, <2>8
<1>8. ASSUME NEW g \in Y, g.arch \notin Fixed
      PROVE  \E h \in Y : h.arch = g.arch /\ h.new = m[g.arch]
  <2> DEFINE E == {h.seq : h \in {k \in Y : k.arch = g.arch}}
  <2>1. E \in SUBSET Nat /\ E # {} /\ \A x \in E : x <= n
    BY <1>1, <1>2
  <2>2. PICK x \in E : \A y \in E : y <= x
    <3> HIDE DEF E
    <3> QED BY Zenon, <2>1, NatMax
  <2>3. PICK p \in Y : p.arch = g.arch /\ p.seq = x
    BY Zenon, <2>2
  <2> QED BY <1>1, <1>2, <1>5, <2>2, <2>3
<1> QED BY Zenon, <1>4, <1>6, <1>7, <1>8 DEF u, Homes

(* The registers the renamed entries in Y gave, and those they replaced. *)
News(Y, N) == \A r : r \in N <=> \E h \in Renamed(Y) : h.new = r
Prevs(Y, P) == \A r : r \in P <=> \E h \in Renamed(Y) : h.prev = r

(* A squash only moves a thread's registers: what it undoes is set aside. *)
LEMMA SquashMoves ==
  ASSUME NEW m, NEW H \in SUBSET RenameHistory, Chained(m, H), NEW F \in SUBSET Phys,
         OneEach(m, H, F), NEW Y \in SUBSET H, NEW u, Homes(m, Y, u),
         NEW N, News(Y, N), NEW F2, F2 = F \cup N
  PROVE  /\ OneEach(u, H \ Y, F2)
         /\ \A r \in Phys : Holding(u, H \ Y, F2, r) <=> Holding(m, H, F, r)
<1>1. \A h \in H : h.arch \in Arch /\ h.seq \in Nat
  BY Zenon DEF RenameHistory
<1>2. \A a \in Arch \ Fixed : m[a] \in Phys /\ Mapping(m, m[a])
  BY Zenon DEF Chained, Mapping
<1>3. \A h \in H : h.arch \notin Fixed => h.new \in Phys /\ h.prev \in Phys /\ Keeping(H, h.prev)
  BY Zenon DEF Chained, Keeping
<1>4. \A g, h \in H : g.arch \notin Fixed /\ h.arch \notin Fixed /\ g.prev = h.prev => g = h
  BY Zenon DEF OneEach
<1>5. \A r \in Phys : ~(Mapping(m, r) /\ Keeping(H, r))
  BY Zenon DEF OneEach
<1>6. \A r : r \in F2 <=> r \in F \/ \E h \in Y : h.arch \notin Fixed /\ h.new = r
  BY Zenon DEF Chained, Renamed, News
<1>7. \A a \in Arch \ Fixed :
        \/ u[a] = m[a] /\ \A g \in Y : g.arch # a
        \/ \E o \in Y : o.arch = a /\ u[a] = o.prev /\ \A g \in Y : g.arch = a => g.seq >= o.seq
  BY Zenon DEF Homes
<1>8. \A r \in Phys : Keeping(H \ Y, r) => Keeping(H, r)
  BY Zenon DEF Keeping
<1>9. ASSUME NEW r \in Phys, Mapping(u, r) PROVE Mapping(m, r) \/ Keeping(H, r)
  BY <1>2, <1>3, <1>7, <1>9 DEF Mapping
<1>10. ASSUME NEW h \in Y, h.arch \notin Fixed
       PROVE  Mapping(m, h.new) \/ Keeping(H, h.new)
  BY Zenon, <1>1, <1>2, <1>3, <1>10 DEF Homes
<1>11. ASSUME NEW a \in Arch \ Fixed, NEW b \in Arch \ Fixed, u[a] = u[b] PROVE a = b
  BY <1>2, <1>3, <1>4, <1>5, <1>7, <1>11 DEF OneEach
<1>12. ASSUME NEW r \in Phys, Mapping(u, r), Keeping(H \ Y, r) PROVE FALSE
  BY <1>2, <1>4, <1>5, <1>7, <1>8, <1>12 DEF Keeping, Mapping
<1>13. ASSUME NEW r \in F2 PROVE ~Mapping(u, r) /\ ~Keeping(H \ Y, r)
  <2>1. CASE r \in F
    BY Zenon, <1>8, <1>9, <2>1 DEF OneEach
  <2>2. CASE \E h \in Y : h.arch \notin Fixed /\ h.new = r
    <3>1. PICK h \in Y : h.arch \notin Fixed /\ h.new = r
      BY Zenon, <2>2
    <3>2. r \in Phys
      BY Zenon, <1>3, <3>1
    <3>3. CASE r = m[h.arch]
      BY <1>1, <1>2, <1>3, <1>5, <1>7, <1>8, <3>1, <3>2, <3>3 DEF OneEach, Mapping
    <3>4. CASE \E g \in Y : g.arch = h.arch /\ g.seq > h.seq /\ g.prev = r
      BY <1>1, <1>2, <1>3, <1>4, <1>5, <1>7, <3>1, <3>2, <3>4 DEF Keeping, Mapping
    <3> QED BY Zenon, <3>1, <3>3, <3>4 DEF Homes
  <2> QED BY Zenon, <1>6, <2>1, <2>2
<1>15. ASSUME NEW r \in Phys, Holding(u, H \ Y, F2, r) PROVE Holding(m, H, F, r)
  BY Zenon, <1>6, <1>8, <1>9, <1>10, <1>15 DEF Holding
<1>16. ASSUME NEW r \in Phys, Holding(m, H, F, r) PROVE Holding(u, H \ Y, F2, r)
  BY <1>1, <1>6, <1>7, <1>16 DEF Mapping, Holding, Homes, Keeping
<1> QED BY Zenon, <1>4, <1>11, <1>12, <1>13, <1>15, <1>16 DEF OneEach

(* Retiring entries frees exactly what they kept. *)
LEMMA RetireFrees ==
  ASSUME NEW m, NEW H \in SUBSET RenameHistory, Chained(m, H), NEW F \in SUBSET Phys,
         OneEach(m, H, F), NEW Y \in SUBSET H, NEW P, Prevs(Y, P)
  PROVE  /\ OneEach(m, H \ Y, F)
         /\ \A r \in Phys : /\ Holding(m, H, F, r) <=> Holding(m, H \ Y, F, r) \/ r \in P
                            /\ r \in P => ~Holding(m, H \ Y, F, r)
         /\ P \in SUBSET Phys
  BY DEF Chained, Renamed, Prevs, Keeping, OneEach, Holding

(* The registers new gives the renamed registers in D are distinct, and the thread holds none of them. *)
Fresh(m, H, F, D, new) ==
  /\ \A a \in D \ Fixed : new[a] \in Phys /\ ~Holding(m, H, F, new[a])
  /\ \A a, b \in D \ Fixed : new[a] = new[b] => a = b

Given(D, new, r) == \E a \in D \ Fixed : r = new[a]

(* Renaming takes free registers into the map; what they replace is kept. *)
LEMMA RenameTakes ==
  ASSUME NEW m, NEW H \in SUBSET RenameHistory, Chained(m, H), NEW F \in SUBSET Phys,
         OneEach(m, H, F),
         NEW n \in Nat, \A h \in H : h.seq < n,
         NEW D \in SUBSET Arch, NEW new, NEW m2, NEW H2,
         Extended(m, H, n, D, new, m2, H2),
         Fresh(m, H, F, D, new)
  PROVE  /\ OneEach(m2, H2, F)
         /\ \A r \in Phys : Holding(m2, H2, F, r) <=> Holding(m, H, F, r) \/ Given(D, new, r)
  BY DEF Extended, Keeping, Chained, Mapping, Fresh, Holding, OneEach, Given

-----------------------------------------------------------------------------
(* The types. *)

(* The fields of an instruction: it writes architectural registers only, and names physical ones. *)
LEMMA InstParts ==
  ASSUME NEW i \in Inst
  PROVE  /\ i.seq \in Nat /\ i.seq # 0 /\ i.writes \in SUBSET Arch
         /\ \A a \in Arch : i.src[a] \in PhysReg /\ i.dest[a] \in PhysReg
BY RegsAssumption DEF Inst

(* Marking an instruction changes its flag only. *)
LEMMA Marking ==
  ASSUME NEW i \in Inst
  PROVE  LET j == [i EXCEPT !.squashed = TRUE] IN
         /\ j \in Inst /\ j.squashed = TRUE
         /\ j.seq = i.seq /\ j.writes = i.writes /\ j.src = i.src /\ j.dest = i.dest
BY Zenon DEF Inst

(* Marking the instructions in S gives instructions. *)
LEMMA MarkingAll ==
  ASSUME NEW S \in SUBSET Inst
  PROVE  {[i EXCEPT !.squashed = TRUE] : i \in S} \in SUBSET Inst
BY Zenon, Marking

(* A step of ROB::doSquash keeps the types. *)
LEMMA SquashTypes ==
  ASSUME NEW R \in SUBSET Inst, NEW it \in Nat, NEW s \in Nat
  PROVE  AfterSquash(R, it, s) \in SUBSET Inst /\ NextIt(R, it, s) \in Nat
<1>3. ASSUME NEW S \in SUBSET Walk(R, it, s), S # {} PROVE Newest(S).seq \in Nat
  BY <1>3, NewestIs DEF Walk, Inst
<1>4. NextIt(R, it, s) \in Nat
  <2> DEFINE left == Walk(R, it, s) \ Marked(R, it, s)
  <2> HIDE DEF left
  <2> QED BY Zenon, <1>3 DEF NextIt, left
<1> QED BY Zenon, <1>4, MarkingAll DEF AfterSquash, Marked, Walk

(* The conjuncts of TypeOK that quantify over variables, spelled out. *)
LEMMA TypeParts ==
  TypeOK <=>
    /\ stage \in [Thread -> {"signals", "rename", "commit"}]
    /\ renameMap \in [Thread -> [Arch -> PhysReg]] /\ commitMap \in [Thread -> [Arch -> PhysReg]]
    /\ freeList \in SUBSET Phys /\ freeing \in [Thread -> SUBSET Phys]
    /\ historyBuffer \in [Thread -> SUBSET RenameHistory]
    /\ toIEW \in [Thread -> SUBSET Inst] /\ fromRename \in [Thread -> SUBSET Inst]
    /\ rob \in [Thread -> SUBSET Inst]
    /\ commitInfo \in [Thread -> CommitInfo]
    /\ commitStatus \in [Thread -> {"Running", "ROBSquashing", "TrapPending", "SquashAfterPending"}]
    /\ squashIt \in [Thread -> Nat] /\ squashedSeqNum \in [Thread -> Nat]
    /\ youngestSeqNum \in [Thread -> Nat] /\ lastCommited \in [Thread -> Nat]
    /\ nextSeq \in Nat \ {0}
BY Zenon DEF TypeOK

(* The ROB of a thread in order: its head and tail. *)
LEMMA RobEnds ==
  ASSUME IInv, NEW t \in Thread, NEW S \in SUBSET (rob[t] \cup fromRename[t] \cup toIEW[t]), S # {}
  PROVE  /\ Newest(S) \in S /\ \A i \in S : i.seq <= Newest(S).seq
         /\ Oldest(S) \in S /\ \A i \in S : Oldest(S).seq <= i.seq
         /\ Newest(S).seq \in Nat /\ Oldest(S).seq \in Nat \ {0} /\ Oldest(S).seq - 1 \in Nat
<1>1. rob[t] \in SUBSET Inst /\ fromRename[t] \in SUBSET Inst /\ toIEW[t] \in SUBSET Inst /\ nextSeq \in Nat
  BY Zenon, TypeParts DEF IInv
<1> QED BY <1>1, NewestIs, OldestIs DEF IInv, CommitInv, ThreadInv, Order, Inst

(* The signals and the renaming of an instruction keep the types. *)
LEMMA TypeRename ==
  ASSUME IInv, NEW t \in Thread,
         RenameSignals(t) \/ RetireHistory(t) \/ \E D \in Dests : RenameInst(t, D)
  PROVE  TypeOK'
<1>0. /\ stage \in [Thread -> {"signals", "rename", "commit"}]
      /\ renameMap \in [Thread -> [Arch -> PhysReg]] /\ commitMap \in [Thread -> [Arch -> PhysReg]]
      /\ freeList \in SUBSET Phys /\ freeing \in [Thread -> SUBSET Phys]
      /\ historyBuffer \in [Thread -> SUBSET RenameHistory]
      /\ toIEW \in [Thread -> SUBSET Inst] /\ fromRename \in [Thread -> SUBSET Inst]
      /\ nextSeq \in Nat \ {0} /\ commitInfo \in [Thread -> CommitInfo]
  BY Zenon, TypeParts DEF IInv
<1>1. /\ renameMap[t] \in [Arch -> PhysReg] /\ freeing[t] \in SUBSET Phys
      /\ historyBuffer[t] \in SUBSET RenameHistory /\ fromRename[t] \in SUBSET Inst
      /\ toIEW[t] \in SUBSET Inst /\ commitInfo[t] \in CommitInfo
  BY Zenon, <1>0
<1>2. Chained(renameMap[t], historyBuffer[t]) /\ \A h \in historyBuffer[t] : h.seq < nextSeq
  BY Zenon DEF IInv, RenameInv
<1>3. OneEach(renameMap[t], historyBuffer[t], freeing[t])
  BY Zenon DEF IInv, RenameInv, Partition
<1>4. CASE RenameSignals(t) /\ Squash(t)
  <2> DEFINE d == commitInfo[t].done
             Y == {h \in historyBuffer[t] : h.seq > d}
             u == Undo(renameMap[t], Y)
             F == {h.new : h \in Renamed(Y)}
             S == {[i EXCEPT !.squashed = TRUE] : i \in fromRename[t]}
  <2>2. Chained(u, historyBuffer[t] \ Y)
    BY <1>1, <1>2, ChainedSquash DEF CommitInfo
  <2>3. u \in [Arch -> PhysReg]
    <3>2. u = [a \in Arch |-> u[a]]
      BY Zenon DEF Undo
    <3> HIDE DEF u
    <3> QED BY Zenon, <2>2, <3>2 DEF Chained, PhysReg
  <2>4. F \in SUBSET Phys
    BY Zenon, <1>2 DEF Chained, Renamed
  <2>5. S \in SUBSET Inst
    BY Zenon, <1>1, MarkingAll
  <2>6. /\ renameMap' = [renameMap EXCEPT ![t] = u]
        /\ freeing' = [freeing EXCEPT ![t] = @ \cup F]
        /\ historyBuffer' = [historyBuffer EXCEPT ![t] = @ \ Y]
        /\ fromRename' = [fromRename EXCEPT ![t] = S]
    BY Zenon, <1>4 DEF Squash, Younger
  <2> HIDE DEF d, Y, u, F, S
  <2>9. /\ renameMap' \in [Thread -> [Arch -> PhysReg]]
        /\ freeing' \in [Thread -> SUBSET Phys]
        /\ historyBuffer' \in [Thread -> SUBSET RenameHistory]
        /\ fromRename' \in [Thread -> SUBSET Inst]
    BY ZenonT(40), <1>0, <1>1, <2>3, <2>4, <2>5, <2>6
  <2> QED BY <1>0, <1>4, <2>9 DEF IInv, TypeOK, RenameSignals, Advance, Squash, commit
<1>5. CASE RenameSignals(t) /\ FreeSquashed(t)
  BY <1>0, <1>1, <1>5 DEF FreeSquashed, RenameSignals, Advance, commit, IInv, TypeOK
<1>6. CASE RetireHistory(t)
  <2> DEFINE Y == IF commitInfo[t].squash THEN {} ELSE Older(t, commitInfo[t].done)
             P == {h.prev : h \in Renamed(Y)}
  <2>1. Y \in SUBSET historyBuffer[t]
    BY Zenon DEF Older
  <2>4. /\ historyBuffer' = [historyBuffer EXCEPT ![t] = @ \ Y]
        /\ freeList' = freeList \cup P
    BY Zenon, <1>6 DEF RetireHistory
  <2>7. Prevs(Y, P)
    BY Zenon DEF Prevs
  <2> HIDE DEF Y, P
  <2>2. P \in SUBSET Phys
    BY <1>2, <2>1, <2>7 DEF Chained, Prevs, Renamed
  <2>5. /\ historyBuffer' \in [Thread -> SUBSET RenameHistory] /\ freeList' \in SUBSET Phys
    BY Zenon, <1>0, <1>1, <2>2, <2>4
  <2>6. /\ stage' \in [Thread -> {"signals", "rename", "commit"}]
        /\ UNCHANGED <<renameMap, freeing, toIEW, nextSeq, fromRename, commit>>
    BY ZenonT(40), <1>0, <1>6 DEF RetireHistory, Advance
  <2> QED BY Zenon, <2>5, <2>6 DEF IInv, TypeOK, commit
<1>7. CASE \E D \in Dests : RenameInst(t, D)
  <2>1. PICK D \in Dests : RenameInst(t, D)
    BY Zenon, <1>7
  <2>2. PICK new \in Assignments(t, D) :
          /\ renameDestRegs(t, D, new)
          /\ toIEW' = [toIEW EXCEPT ![t] = @ \cup
                         {[seq |-> nextSeq, writes |-> D, src |-> renameMap[t],
                           dest |-> RenamedMap(t, D, new), squashed |-> FALSE]}]
    BY Zenon, <2>1 DEF RenameInst
  <2> DEFINE m2 == RenamedMap(t, D, new)
             E == {[seq |-> nextSeq, arch |-> a, new |-> new[a], prev |-> renameMap[t][a]] : a \in D}
             i == [seq |-> nextSeq, writes |-> D, src |-> renameMap[t], dest |-> m2, squashed |-> FALSE]
  <2>5. m2 \in [Arch -> PhysReg]
    BY Zenon, <1>0, <1>1, <2>2 DEF RenamedMap, Assignments, PhysReg
  <2>6. E \in SUBSET RenameHistory
    <3>1. ASSUME NEW a \in D
          PROVE  a \in Arch /\ new[a] \in PhysReg /\ renameMap[t][a] \in PhysReg
      <4>1. a \in Arch /\ new[a] \in freeList \cup Fixed
        BY Zenon, <2>2, RegsAssumption DEF Assignments
      <4>2. new[a] \in PhysReg
        BY Zenon, <1>0, <4>1 DEF PhysReg
      <4> QED BY Zenon, <1>1, <4>1, <4>2
    <3>2. ASSUME NEW n \in Nat \ {0}, NEW a \in Arch, NEW p \in PhysReg, NEW q \in PhysReg
          PROVE  [seq |-> n, arch |-> a, new |-> p, prev |-> q] \in RenameHistory
      BY Zenon DEF RenameHistory
    <3>3. ASSUME NEW a \in D
          PROVE  [seq |-> nextSeq, arch |-> a, new |-> new[a], prev |-> renameMap[t][a]] \in RenameHistory
      BY Zenon, <1>0, <3>1, <3>2
    <3> QED BY Zenon, <3>3
  <2>7. i \in Inst
    <3> HIDE DEF m2
    <3> QED BY Zenon, <1>0, <1>1, <2>1, <2>5 DEF Inst
  <2>8. /\ renameMap' = [renameMap EXCEPT ![t] = m2]
        /\ historyBuffer' = [historyBuffer EXCEPT ![t] = @ \cup E]
        /\ toIEW' = [toIEW EXCEPT ![t] = @ \cup {i}]
        /\ freeList' \in SUBSET Phys
    BY Zenon, <1>0, <2>2 DEF renameDestRegs
  <2> HIDE DEF m2, E, i
  <2> QED BY <1>0, <1>1, <2>1, <2>5, <2>6, <2>7, <2>8 DEF IInv, TypeOK, RenameInst, commit
<1> QED
  BY Zenon, <1>4, <1>5, <1>6, <1>7 DEF RenameSignals

(* Commit::tick keeps the types. *)
LEMMA TypeCommit ==
  ASSUME IInv, NEW t \in Thread, CommitTick(t)
  PROVE  TypeOK'
<1> DEFINE NatFun == [Thread -> Nat]
           Statuses == {"Running", "ROBSquashing", "TrapPending", "SquashAfterPending"}
<1>0. /\ stage \in [Thread -> {"signals", "rename", "commit"}]
      /\ commitMap \in [Thread -> [Arch -> PhysReg]]
      /\ toIEW \in [Thread -> SUBSET Inst] /\ fromRename \in [Thread -> SUBSET Inst]
      /\ rob \in [Thread -> SUBSET Inst]
      /\ squashIt \in NatFun /\ squashedSeqNum \in NatFun /\ youngestSeqNum \in NatFun
      /\ lastCommited \in NatFun
      /\ commitStatus \in [Thread -> Statuses]
      /\ commitInfo \in [Thread -> CommitInfo]
  BY Zenon, TypeParts DEF IInv
<1>1. /\ rob[t] \in SUBSET Inst /\ fromRename[t] \in SUBSET Inst /\ toIEW[t] \in SUBSET Inst
      /\ squashIt[t] \in Nat /\ squashedSeqNum[t] \in Nat /\ lastCommited[t] \in Nat
      /\ commitMap[t] \in [Arch -> PhysReg]
  BY Zenon, <1>0
<1> DEFINE Goal == /\ rob' \in [Thread -> SUBSET Inst] /\ squashIt' \in NatFun /\ squashedSeqNum' \in NatFun
                   /\ commitMap' \in [Thread -> [Arch -> PhysReg]] /\ commitInfo' \in [Thread -> CommitInfo]
                   /\ commitStatus' \in [Thread -> Statuses]
                   /\ youngestSeqNum' \in NatFun /\ lastCommited' \in NatFun
<1>3. ASSUME NEW s \in Nat, NEW y \in Nat, SquashTo(t, s, y) PROVE Goal
  <2>2. rob' \in [Thread -> SUBSET Inst] /\ squashIt' \in NatFun /\ squashedSeqNum' \in NatFun
    <3>1. CASE rob[t] = {}
      BY Zenon, <1>0, <1>3, <3>1 DEF SquashTo, robSquash
    <3>2. CASE rob[t] # {}
      <4> DEFINE it == Newest(rob[t]).seq
      <4>1. it \in Nat
        BY Zenon, <3>2, RobEnds
      <4>2. doSquash(t, TickedROB(t), it, s)
        BY Zenon, <1>3, <3>2 DEF SquashTo, robSquash
      <4> HIDE DEF it
      <4> QED BY Zenon, <1>0, <1>1, <1>3, <4>1, <4>2, SquashTypes DEF doSquash, TickedROB
    <3> QED BY Zenon, <3>1, <3>2
  <2> QED BY Zenon, <1>0, <1>3, <2>2 DEF SquashTo, CommitInfo
<1>4. ASSUME SquashAll(t) PROVE Goal
  <2> DEFINE s == IF rob[t] = {} THEN lastCommited[t] ELSE Oldest(rob[t]).seq - 1
  <2>1. s \in Nat
    BY Zenon, <1>1, RobEnds
  <2>2. SquashTo(t, s, lastCommited[t])
    BY Zenon, <1>4 DEF SquashAll
  <2> HIDE DEF s, Goal
  <2> QED BY Zenon, <1>1, <1>3, <2>1, <2>2
<1>5. ASSUME IEWSquash(t) PROVE Goal
  <2>1. PICK i \in rob[t], include \in BOOLEAN :
          LET s == IF include THEN i.seq - 1 ELSE i.seq IN SquashTo(t, s, s)
    BY Zenon, <1>5 DEF IEWSquash
  <2> DEFINE s == IF include THEN i.seq - 1 ELSE i.seq
  <2>2. s \in Nat
    BY <1>1 DEF Inst
  <2>3. SquashTo(t, s, s)
    BY Zenon, <2>1
  <2> HIDE DEF s, Goal
  <2> QED BY Zenon, <1>3, <2>2, <2>3
<1>6. ASSUME StillSquashing(t) PROVE Goal
  BY Zenon, <1>0, <1>1, <1>6, SquashTypes DEF StillSquashing, doSquash, CommitInfo
<1>7. ASSUME CommitInsts(t) PROVE Goal
  <2> DEFINE R == rob[t] \cup Inserted(t)
             All == rob[t] \cup fromRename[t] \cup toIEW[t]
             out(k) == {i \in R : i.seq <= k}
             C(k) == {i \in out(k) : ~i.squashed}
  <2>2. R \in SUBSET Inst
    BY Zenon, <1>1 DEF Inserted
  <2>6. PICK k \in {0} \cup (IF commitStatus[t] = "TrapPending" THEN {} ELSE Seqs(R)) :
          /\ rob' = [rob EXCEPT ![t] = R \ out(k)]
          /\ commitMap' = [commitMap EXCEPT ![t] = [a \in Arch |->
                 IF Writers(C(k), a) = {} THEN @[a] ELSE Newest(Writers(C(k), a)).dest[a]]]
          /\ lastCommited' = [lastCommited EXCEPT ![t] = IF C(k) = {} THEN @ ELSE Newest(C(k)).seq]
          /\ commitInfo' = [commitInfo EXCEPT ![t] =
                 [squash |-> FALSE, robSquashing |-> FALSE,
                  done |-> IF C(k) = {} THEN 0 ELSE Newest(C(k)).seq]]
          /\ \/ commitStatus' = [commitStatus EXCEPT ![t] = IF @ = "TrapPending" THEN @ ELSE "Running"]
             \/ commitStatus' = [commitStatus EXCEPT ![t] = "TrapPending"]
             \/ commitStatus' = [commitStatus EXCEPT ![t] = "SquashAfterPending"]
    BY Zenon, <1>7 DEF CommitInsts
  <2> DEFINE c == C(k)
  <2>7. c \in SUBSET All
    BY Zenon DEF Inserted
  <2> HIDE DEF c, C, R, All
  <2>12. commitStatus' \in [Thread -> Statuses]
    BY Zenon, <1>0, <2>6
  <2>13. commitMap' \in [Thread -> [Arch -> PhysReg]]
    <3>1. ASSUME NEW a \in Arch, Writers(c, a) # {} PROVE Newest(Writers(c, a)).dest[a] \in PhysReg
      BY <1>1, <2>7, <3>1, RobEnds DEF Writers, All, Inst
    <3> DEFINE m2 == [a \in Arch |-> IF Writers(c, a) = {} THEN commitMap[t][a]
                                      ELSE Newest(Writers(c, a)).dest[a]]
    <3>2. m2 \in [Arch -> PhysReg]
      BY Zenon, <1>1, <3>1
    <3>3. commitMap' = [commitMap EXCEPT ![t] = m2]
      BY Zenon, <1>0, <2>6 DEF c
    <3> HIDE DEF m2
    <3> QED BY Zenon, <1>0, <3>2, <3>3
  <2> QED
    BY Zenon, <1>0, <1>7, <2>2, <2>6, <2>7, <2>12, <2>13, RobEnds DEF CommitInsts, c, All, Inserted,
       CommitInfo
<1> QED BY Zenon, <1>0, <1>1, <1>4, <1>5, <1>6, <1>7 DEF IInv, TypeOK, CommitTick, Advance

-----------------------------------------------------------------------------
(* The rename stage. *)

(* The partition is kept when the registers of one thread change and each stays, is freed or is taken. *)
LEMMA PartitionMoves ==
  ASSUME Partition, NEW t \in Thread, NEW m2, NEW H2, NEW F2, NEW L2,
         \A u \in Thread : u # t => /\ renameMap'[u] = renameMap[u]
                                    /\ historyBuffer'[u] = historyBuffer[u]
                                    /\ freeing'[u] = freeing[u],
         renameMap'[t] = m2, historyBuffer'[t] = H2, freeing'[t] = F2, freeList' = L2,
         OneEach(m2, H2, F2),
         \A r \in Phys :
           \/ (Holding(m2, H2, F2, r) <=> Holds(t, r)) /\ (r \in L2 <=> r \in freeList)
           \/ Holds(t, r) /\ ~Holding(m2, H2, F2, r) /\ r \in L2
           \/ r \in freeList /\ Holding(m2, H2, F2, r) /\ r \notin L2
  PROVE  Partition'
  BY Zenon DEF Holds, Partition

(* Rename::doSquash keeps the register invariant. *)
LEMMA RenameInvSquash ==
  ASSUME IInv, NEW t \in Thread, Squash(t)
  PROVE  RenameInv'
<1>0. /\ renameMap \in [Thread -> [Arch -> PhysReg]] /\ freeing \in [Thread -> SUBSET Phys]
      /\ historyBuffer \in [Thread -> SUBSET RenameHistory]
      /\ nextSeq \in Nat /\ commitInfo \in [Thread -> CommitInfo]
  BY Zenon, TypeParts DEF IInv
<1> DEFINE m == renameMap[t]
           H == historyBuffer[t]
           F == freeing[t]
           d == commitInfo[t].done
           Y == {h \in H : h.seq > d}
           u == Undo(m, Y)
           N == {h.new : h \in Renamed(Y)}
           F2 == F \cup N
<1>1. /\ Chained(m, H) /\ OneEach(m, H, F) /\ \A h \in H : h.seq < nextSeq
  BY Zenon DEF IInv, RenameInv, Partition
<1>2. H \in SUBSET RenameHistory /\ F \in SUBSET Phys /\ d \in Nat
  BY Zenon, <1>0 DEF CommitInfo
<1>3. /\ renameMap' = [renameMap EXCEPT ![t] = u] /\ freeing' = [freeing EXCEPT ![t] = F2]
      /\ historyBuffer' = [historyBuffer EXCEPT ![t] = H \ Y]
      /\ freeList' = freeList /\ nextSeq' = nextSeq
  BY Zenon, <1>0 DEF Squash, Younger
<1>4. /\ \A v \in Thread : v # t => /\ renameMap'[v] = renameMap[v]
                                    /\ historyBuffer'[v] = historyBuffer[v]
                                    /\ freeing'[v] = freeing[v]
      /\ renameMap'[t] = u /\ historyBuffer'[t] = H \ Y /\ freeing'[t] = F2
  <2> HIDE DEF u, H, Y, F2
  <2> QED BY Zenon, <1>0, <1>3
<1>5. Chained(u, H \ Y)
  <2> HIDE DEF m, H, d
  <2> QED BY Zenon, <1>1, <1>2, ChainedSquash
<1>6. Homes(m, Y, u)
  <2>1. Y = {h \in H : h.seq > d}
    OBVIOUS
  <2> HIDE DEF m, H, d, Y
  <2> QED BY Zenon, <1>0, <1>1, <1>2, <2>1, SquashHomes
<1>7. News(Y, N)
  BY Zenon DEF News
<1>8. Y \in SUBSET H /\ F2 = F \cup N
  OBVIOUS
<1>9. \A r : Holding(m, H, F, r) <=> Holds(t, r)
  BY Zenon DEF Holds
<1> HIDE DEF m, H, F, d, Y, u, N, F2
<1>10. /\ OneEach(u, H \ Y, F2)
       /\ \A r \in Phys : Holding(u, H \ Y, F2, r) <=> Holding(m, H, F, r)
  BY Zenon, <1>1, <1>2, <1>6, <1>7, <1>8, SquashMoves
<1>11. Partition'
  <2>1. Partition
    BY Zenon DEF IInv, RenameInv
  <2>2. \A r \in Phys : Holding(u, H \ Y, F2, r) <=> Holds(t, r)
    BY Zenon, <1>9, <1>10
  <2> DEFINE H2 == H \ Y
  <2> HIDE DEF H2
  <2>3. /\ historyBuffer'[t] = H2 /\ OneEach(u, H2, F2)
        /\ \A r \in Phys : Holding(u, H2, F2, r) <=> Holds(t, r)
    BY Zenon, <1>4, <1>10, <2>2 DEF H2
  <2> QED BY Zenon, <1>3, <1>4, <2>1, <2>3, PartitionMoves
<1>12. ASSUME NEW v \in Thread
       PROVE  Chained(renameMap'[v], historyBuffer'[v]) /\ \A h \in historyBuffer'[v] : h.seq < nextSeq'
  BY Zenon, <1>1, <1>3, <1>4, <1>5 DEF IInv, RenameInv
<1> QED
  BY Zenon, <1>11, <1>12 DEF RenameInv

(* Freeing the registers set aside keeps the register invariant. *)
LEMMA RenameInvFree ==
  ASSUME IInv, NEW t \in Thread, FreeSquashed(t)
  PROVE  RenameInv'
<1>4. CASE UNCHANGED <<freeList, freeing>>
  BY Zenon, <1>4 DEF RenameInv, Partition, Holds, IInv, FreeSquashed
<1>5. CASE freeList' = freeList \cup freeing[t] /\ freeing' = [freeing EXCEPT ![t] = {}]
  <2> DEFINE m == renameMap[t]
             H == historyBuffer[t]
             F == freeing[t]
             L == freeList \cup F
  <2>1. /\ freeing \in [Thread -> SUBSET Phys] /\ F \in SUBSET Phys
        /\ Partition /\ OneEach(m, H, F) /\ renameMap' = renameMap /\ historyBuffer' = historyBuffer
        /\ nextSeq' = nextSeq
        /\ \A u \in Thread : /\ Chained(renameMap[u], historyBuffer[u])
                            /\ \A h \in historyBuffer[u] : h.seq < nextSeq
    BY Zenon, TypeParts DEF IInv, RenameInv, Partition, FreeSquashed
  <2>2. /\ freeing'[t] = {} /\ freeList' = L
        /\ \A u \in Thread : u # t => freeing'[u] = freeing[u]
    BY Zenon, <1>5, <2>1
  <2>3. OneEach(m, H, {})
    BY Zenon, <2>1 DEF OneEach
  <2>4. ASSUME NEW r \in Phys
        PROVE  \/ (Holding(m, H, {}, r) <=> Holds(t, r)) /\ (r \in L <=> r \in freeList)
               \/ Holds(t, r) /\ ~Holding(m, H, {}, r) /\ r \in L
    <3>1. CASE r \in F
      BY Zenon, <2>1, <3>1 DEF OneEach, Holds, Holding
    <3>2. CASE r \notin F
      BY Zenon, <3>2 DEF Holds, Holding
    <3> QED BY Zenon, <3>1, <3>2
  <2>5. Partition'
    BY Zenon, <2>1, <2>2, <2>3, <2>4, PartitionMoves
  <2> QED BY Zenon, <2>1, <2>5 DEF RenameInv
<1> QED
  BY Zenon, <1>4, <1>5 DEF FreeSquashed

(* removeFromHistory keeps the register invariant. *)
LEMMA RenameInvRetire ==
  ASSUME IInv, NEW t \in Thread, RetireHistory(t)
  PROVE  RenameInv'
<1> DEFINE m == renameMap[t]
           H == historyBuffer[t]
           F == freeing[t]
           d == IF commitInfo[t].squash THEN 0 ELSE commitInfo[t].done
           Y == {h \in H : h.seq <= d}
           P == {h.prev : h \in Renamed(Y)}
           L == freeList \cup P
<1>1. Chained(m, H) /\ OneEach(m, H, F) /\ \A h \in H : h.seq < nextSeq
  BY Zenon DEF IInv, RenameInv, Partition
<1>2. H \in SUBSET RenameHistory /\ F \in SUBSET Phys /\ d \in Nat
  BY Zenon, TypeParts DEF CommitInfo, IInv
<1>3. Y = IF commitInfo[t].squash THEN {} ELSE Older(t, commitInfo[t].done)
  BY <1>2 DEF Older, RenameHistory
<1>4. /\ UNCHANGED <<renameMap, freeing, nextSeq>>
      /\ historyBuffer' = [historyBuffer EXCEPT ![t] = H \ Y] /\ freeList' = L
  <2> HIDE DEF Y
  <2> QED BY Zenon, <1>3 DEF RetireHistory
<1>5. /\ \A v \in Thread : v # t => /\ renameMap'[v] = renameMap[v]
                                    /\ historyBuffer'[v] = historyBuffer[v]
                                    /\ freeing'[v] = freeing[v]
      /\ renameMap'[t] = m /\ historyBuffer'[t] = H \ Y /\ freeing'[t] = F
  <2> HIDE DEF H, Y
  <2> QED BY Zenon, <1>4, TypeParts DEF IInv
<1>6. H \ Y = {h \in H : ~(h.seq <= d)} /\ Y \in SUBSET H
  OBVIOUS
<1>7. Prevs(Y, P)
  BY Zenon DEF Prevs
<1>8. \A r : Holding(m, H, F, r) <=> Holds(t, r)
  BY DEF Holds
<1>9. \A r : r \in L <=> r \in freeList \/ r \in P
  OBVIOUS
<1> HIDE DEF m, H, F, d, Y, P, L
<1>11. /\ OneEach(m, H \ Y, F)
       /\ \A r \in Phys : /\ Holding(m, H, F, r) <=> Holding(m, H \ Y, F, r) \/ r \in P
                          /\ r \in P => ~Holding(m, H \ Y, F, r)
  BY Zenon, <1>1, <1>2, <1>6, <1>7, RetireFrees
<1>12. Partition'
  <2> DEFINE H2 == H \ Y
  <2> HIDE DEF H2
  <2> QED BY Zenon, <1>4, <1>5, <1>8, <1>9, <1>11, PartitionMoves DEF IInv, RenameInv
<1>13. ASSUME NEW v \in Thread
       PROVE  Chained(renameMap'[v], historyBuffer'[v]) /\ \A h \in historyBuffer'[v] : h.seq < nextSeq'
  <2>1. Chained(m, H \ Y) /\ \A h \in H \ Y : h.seq < nextSeq
    <3>1. Chained(m, {h \in H : ~(h.seq <= d)})
      BY Zenon, <1>1, <1>2, ChainedRetire
    <3> QED BY <1>1, <1>6, <3>1
  <2>2. CASE v = t
    BY Zenon, <1>4, <1>5, <2>1, <2>2
  <2>3. CASE v # t
    BY ZenonT(40), <1>4, <1>5, <2>3 DEF IInv, RenameInv
  <2> QED BY Zenon, <2>2, <2>3
<1> QED
  BY <1>12, <1>13 DEF RenameInv

(* Renaming the destinations of an instruction keeps the register invariant. *)
LEMMA RenameInvInst ==
  ASSUME IInv, NEW t \in Thread, NEW D \in Dests, NEW new \in Assignments(t, D),
         renameDestRegs(t, D, new), nextSeq' = nextSeq + 1, freeing' = freeing
  PROVE  /\ RenameInv'
         /\ Extended(renameMap[t], historyBuffer[t], nextSeq, D, new, renameMap'[t], historyBuffer'[t])
         /\ \A u \in Thread : u # t => renameMap'[u] = renameMap[u] /\ historyBuffer'[u] = historyBuffer[u]
         /\ renameMap'[t] = RenamedMap(t, D, new)
         /\ freeList' \subseteq freeList
<1>0. /\ renameMap \in [Thread -> [Arch -> PhysReg]] /\ freeing \in [Thread -> SUBSET Phys]
      /\ historyBuffer \in [Thread -> SUBSET RenameHistory]
      /\ nextSeq \in Nat /\ freeList \in SUBSET Phys
  BY Zenon, TypeParts DEF IInv
<1> DEFINE m == renameMap[t]
           H == historyBuffer[t]
           F == freeing[t]
           m2 == RenamedMap(t, D, new)
           H2 == H \cup {[seq |-> nextSeq, arch |-> a, new |-> new[a], prev |-> m[a]] : a \in D}
           L == freeList \ {new[a] : a \in D}
<1>1. Chained(m, H) /\ OneEach(m, H, F) /\ \A h \in H : h.seq < nextSeq
  BY Zenon DEF IInv, RenameInv, Partition
<1>2. H \in SUBSET RenameHistory /\ F \in SUBSET Phys /\ D \in SUBSET Arch
  BY ZenonT(40), <1>0, RegsAssumption
<1>4. Extended(m, H, nextSeq, D, new, m2, H2)
  <2> HIDE DEF H, m
  <2> QED BY <1>0, <1>1, <1>2, RenameExtends DEF RenamedMap, m
<1>5. /\ renameMap' = [renameMap EXCEPT ![t] = m2] /\ historyBuffer' = [historyBuffer EXCEPT ![t] = H2]
      /\ freeList' = L
  BY Zenon, <1>0 DEF renameDestRegs
<1>6. /\ \A v \in Thread : v # t => /\ renameMap'[v] = renameMap[v]
                                    /\ historyBuffer'[v] = historyBuffer[v]
                                    /\ freeing'[v] = freeing[v]
      /\ renameMap'[t] = m2 /\ historyBuffer'[t] = H2 /\ freeing'[t] = F
  <2> HIDE DEF m2, H2
  <2> QED BY ZenonT(40), <1>0, <1>5
<1>7. /\ \A a \in D \cap Fixed : new[a] = m[a] /\ new[a] \notin Phys
      /\ \A a \in D \ Fixed : new[a] \in freeList
      /\ \A a, b \in D \ Fixed : new[a] = new[b] => a = b
  BY <1>1, RegsAssumption DEF Assignments, Chained
<1>8. \A r : Holding(m, H, F, r) <=> Holds(t, r)
  BY Zenon DEF Holds
<1>11. \A r \in Phys : r \in L <=> r \in freeList /\ ~Given(D, new, r)
  BY Zenon, <1>7 DEF Given
<1>12. L \subseteq freeList
  OBVIOUS
<1> HIDE DEF m, H, F, m2, H2, L
<1>13. Chained(m2, H2)
  BY <1>0, <1>1, <1>2, <1>4, <1>7, <1>8, ChainedRename DEF Holding, Mapping, Partition, IInv,
     RenameInv
<1>14. /\ OneEach(m2, H2, F)
       /\ \A r \in Phys : Holding(m2, H2, F, r) <=> Holding(m, H, F, r) \/ Given(D, new, r)
  BY ZenonT(40), <1>0, <1>1, <1>2, <1>4, <1>7, <1>8, RenameTakes DEF Fresh, Partition, IInv, RenameInv
<1>17. ASSUME NEW v \in Thread
       PROVE  Chained(renameMap'[v], historyBuffer'[v]) /\ \A h \in historyBuffer'[v] : h.seq < nextSeq'
  BY <1>0, <1>1, <1>2, <1>4, <1>6, <1>13 DEF Extended, RenameHistory, IInv, RenameInv
<1> QED
  BY <1>4, <1>5, <1>6, <1>7, <1>8, <1>11, <1>12, <1>14, <1>17, PartitionMoves DEF m, H, m2,
     RenameInv, IInv, Given

(* Every step keeps the register invariant. *)
LEMMA RenameInvStep ==
  ASSUME IInv, [Next]_vars
  PROVE  RenameInv'
<1>1. CASE UNCHANGED vars
  BY Zenon, <1>1 DEF IInv, RenameInv, Partition, Holds, vars, rename
<1>2. ASSUME NEW t \in Thread, RenameSignals(t) PROVE RenameInv'
  BY Zenon, <1>2, RenameInvSquash, RenameInvFree DEF RenameSignals
<1>3. ASSUME NEW t \in Thread, RetireHistory(t) PROVE RenameInv'
  BY Zenon, <1>3, RenameInvRetire
<1>4. ASSUME NEW t \in Thread, CommitTick(t) PROVE RenameInv'
  BY Zenon, <1>4 DEF IInv, RenameInv, Partition, Holds, CommitTick
<1>5. ASSUME NEW t \in Thread, NEW D \in Dests, RenameInst(t, D) PROVE RenameInv'
  BY Zenon, <1>5, RenameInvInst DEF RenameInst
<1> QED
  BY Zenon, <1>1, <1>2, <1>3, <1>4, <1>5 DEF Next

(* Every step keeps the types. *)
LEMMA TypeStep ==
  ASSUME IInv, [Next]_vars
  PROVE  TypeOK'
  BY Zenon, TypeCommit, TypeRename DEF IInv, TypeOK, vars, rename, commit, Next

-----------------------------------------------------------------------------
(* What the invariant gives, and its initial states. *)

(* The register invariant says where every physical register is. *)
LEMMA RegistersPartitioned ==
  ASSUME TypeOK, RenameInv
  PROVE  NoDoubleFree /\ NoRegisterLost
<1>1. ASSUME NEW t \in Thread, NEW r \in Phys
      PROVE  /\ Keeping(historyBuffer[t], r) <=> Kept(r, t) # {}
             /\ \A g, h \in Kept(r, t) : g = h
             /\ Mapping(renameMap[t], r) <=> \E p \in Maps(r) : p[1] = t
             /\ \A p, q \in Maps(r) : p[1] = t /\ q[1] = t => p = q
  <2>4. \A p : p \in Maps(r) <=> p \in Thread \X (Arch \ Fixed) /\ renameMap[p[1]][p[2]] = r
    BY Zenon DEF Maps
  <2>7. Mapping(renameMap[t], r) <=> \E p \in Maps(r) : p[1] = t
    <3>1. ASSUME NEW a \in Arch \ Fixed, renameMap[t][a] = r PROVE \E p \in Maps(r) : p[1] = t
      <4>1. <<t, a>> \in Maps(r)
        BY Zenon, <2>4, <3>1
      <4> QED BY Zenon, <4>1
    <3>2. ASSUME NEW p \in Maps(r), p[1] = t PROVE Mapping(renameMap[t], r)
      BY Zenon, <2>4, <3>2 DEF Mapping
    <3> QED BY Zenon, <3>1, <3>2 DEF Mapping
  <2> QED BY <2>4, <2>7 DEF Keeping, Kept, Renamed, RenameInv, Chained, OneEach, Partition
<1>4. ASSUME NEW r \in Phys
      PROVE  /\ \A t, u \in Thread : Holds(t, r) /\ Holds(u, r) => t = u
             /\ r \in freeList <=> \A t \in Thread : ~Holds(t, r)
             /\ \A t \in Thread : ~(Mapping(renameMap[t], r) /\ Keeping(historyBuffer[t], r))
             /\ \A t \in Thread : r \in freeing[t] =>
                  ~Mapping(renameMap[t], r) /\ ~Keeping(historyBuffer[t], r)
  BY Zenon DEF RenameInv, Partition, OneEach
<1>6. ASSUME NEW r \in Phys
      PROVE  /\ \A p, q \in Maps(r) : p = q
             /\ \A t, u \in Thread : \A g \in Kept(r, t), h \in Kept(r, u) : t = u /\ g = h
             /\ \A t, u \in Aside(r) : t = u
             /\ Maps(r) # {} => r \notin freeList /\ Aside(r) = {} /\ \A t \in Thread : Kept(r, t) = {}
             /\ Aside(r) # {} => r \notin freeList /\ \A t \in Thread : Kept(r, t) = {}
             /\ r \in freeList => \A t \in Thread : Kept(r, t) = {}
  BY <1>1, <1>4 DEF Aside, Maps, Holds, Holding
<1> QED BY ZenonT(40), <1>1, <1>4, <1>6 DEF NoDoubleFree, NoRegisterLost, Holds, Holding, Aside

(* The initial states satisfy the invariant. *)
LEMMA InitInv == Init => IInv
<1> SUFFICES ASSUME Init PROVE IInv
  OBVIOUS
<1> USE DEF Init
<1>1. /\ renameMap \in [Thread -> [Arch -> PhysReg]]
      /\ \A t \in Thread, a \in Fixed : renameMap[t][a] = a
      /\ \A t, u \in Thread, a, b \in Arch \ Fixed :
           renameMap[t][a] \in Phys /\ (renameMap[t][a] = renameMap[u][b] => (t = u /\ a = b))
  BY Zenon DEF InitialMap
<1>3. ASSUME NEW t \in Thread
      PROVE  Chained(renameMap[t], historyBuffer[t]) /\ \A h \in historyBuffer[t] : h.seq < nextSeq
  BY Zenon, <1>1, RegsAssumption DEF Chained
<1>5. ASSUME NEW t \in Thread PROVE OneEach(renameMap[t], historyBuffer[t], freeing[t])
  BY <1>1 DEF OneEach, Keeping
<1>6. ASSUME NEW t \in Thread, NEW u \in Thread, NEW r \in Phys, Holds(t, r), Holds(u, r) PROVE t = u
  BY <1>1, <1>6 DEF Mapping, Holds, Holding, Keeping
<1>7. ASSUME NEW r \in Phys PROVE r \in freeList <=> \A t \in Thread : ~Holds(t, r)
  <2>2. r \in freeList <=> ~\E t \in Thread : \E a \in Arch : renameMap[t][a] = r
    <3> HIDE DEF Init
    <3> QED BY DEF Init
  <2>3. \A t \in Thread : Holds(t, r) <=> \E a \in Arch : renameMap[t][a] = r
    BY Zenon, <1>1, RegsAssumption DEF Mapping, Holds, Holding, Keeping
  <2> QED
    <3> HIDE DEF Init
    <3> QED BY Zenon, <2>2, <2>3
<1>9. ASSUME NEW t \in Thread
      PROVE  ThreadInv(t)
  <2>1. /\ rob[t] = {} /\ fromRename[t] = {} /\ toIEW[t] = {} /\ historyBuffer[t] = {} /\ squashIt[t] = 0
        /\ commitStatus[t] = "Running" /\ commitMap = renameMap
        /\ nextSeq = 1 /\ youngestSeqNum[t] = 0 /\ lastCommited[t] = 0
    BY Zenon
  <2>2. commitInfo[t].squash = FALSE /\ commitInfo[t].robSquashing = FALSE /\ commitInfo[t].done = 0
    BY Zenon
  <2> HIDE DEF Init
  <2>3. lastCommited[t] < nextSeq /\ youngestSeqNum[t] < nextSeq /\ commitInfo[t].done <= lastCommited[t]
    BY <2>1, <2>2
  <2>4. Order(t) /\ Signals(t) /\ TrapHead(t)
    BY Zenon, <2>1, <2>2, <2>3 DEF Order, Signals, TrapHead, Pending
  <2>5. Good(t) = {} /\ InFlight(t) = {}
    BY Zenon, <2>1 DEF Good, InFlight
  <2>6. Values(t) /\ Owned(t) /\ StillHeld(t)
    BY Zenon, <2>1, <2>5 DEF Values, Owned, StillHeld, Before
  <2> QED BY Zenon, <2>4, <2>6 DEF ThreadInv
<1> QED
  BY <1>1, <1>3, <1>5, <1>6, <1>7, <1>9 DEF IInv, CommitInv, TypeOK, CommitInfo, RenameInv,
     Partition

-----------------------------------------------------------------------------
(* The steps of the rename stage, seen from the commit side. *)

(* The invariant of a thread is kept by the steps of the others. *)
LEMMA ThreadStable ==
  ASSUME IInv, TypeOK', NEW v \in Thread, ThreadInv(v), nextSeq' >= nextSeq,
         /\ stage'[v] = stage[v] /\ renameMap'[v] = renameMap[v]
         /\ historyBuffer'[v] = historyBuffer[v] /\ freeing'[v] = freeing[v]
         /\ toIEW'[v] = toIEW[v] /\ fromRename'[v] = fromRename[v] /\ commitInfo'[v] = commitInfo[v]
         /\ rob'[v] = rob[v] /\ squashIt'[v] = squashIt[v] /\ squashedSeqNum'[v] = squashedSeqNum[v]
         /\ commitStatus'[v] = commitStatus[v] /\ commitMap'[v] = commitMap[v]
         /\ youngestSeqNum'[v] = youngestSeqNum[v] /\ lastCommited'[v] = lastCommited[v]
  PROVE  ThreadInv(v)'
<1>1. /\ rob[v] \in SUBSET Inst /\ fromRename[v] \in SUBSET Inst /\ toIEW[v] \in SUBSET Inst
      /\ nextSeq \in Nat /\ lastCommited[v] \in Nat /\ youngestSeqNum[v] \in Nat
  BY Zenon, TypeParts DEF IInv
<1>2. nextSeq' \in Nat
  BY Zenon DEF TypeOK
<1>3. ASSUME NEW n \in Nat, n < nextSeq PROVE n < nextSeq'
  BY <1>1, <1>2, <1>3
<1>4. /\ Order(v) /\ Signals(v) /\ Values(v) /\ Owned(v) /\ StillHeld(v) /\ TrapHead(v)
  BY Zenon DEF ThreadInv
<1>5. Order(v)'
  <2>1. /\ \A i \in rob[v] : i.seq < nextSeq'
        /\ \A i \in fromRename[v] : i.seq < nextSeq'
        /\ \A i \in toIEW[v] : i.seq < nextSeq'
    BY Zenon, <1>1, <1>3, <1>4, InstParts DEF Order
  <2>2. lastCommited[v] < nextSeq' /\ youngestSeqNum[v] < nextSeq'
    BY Zenon, <1>1, <1>3, <1>4 DEF Order
  <2> QED BY Zenon, <1>4, <2>1, <2>2 DEF Order
<1>6. /\ Pending(v)' <=> Pending(v)
      /\ \A i : Doomed(v, i)' <=> Doomed(v, i)
      /\ \A r : Held(v, r)' <=> Held(v, r)
      /\ InFlight(v)' = InFlight(v)
  BY Zenon DEF Pending, Doomed, IsSquashing, Held, InFlight
<1>7. Good(v)' = Good(v)
  BY Zenon, <1>6 DEF Good
<1>8. Signals(v)' /\ TrapHead(v)'
  BY Zenon, <1>4, <1>6 DEF Signals, TrapHead
<1>9. Values(v)'
  BY Zenon, <1>4, <1>7 DEF Values
<1>10. Owned(v)' /\ StillHeld(v)'
  BY Zenon, <1>4, <1>6, <1>7 DEF Owned, StillHeld
<1> QED BY Zenon, <1>5, <1>8, <1>9, <1>10 DEF ThreadInv

(* What was mapped before an instruction that has not committed is in use. *)
LEMMA BeforeInUse ==
  ASSUME NEW m, NEW H \in SUBSET RenameHistory, Chained(m, H), NEW a \in Arch, NEW r,
         NEW s \in Nat, NEW c \in Nat, c < s, Before(m, H, s, a, r)
  PROVE  InUse(m, H, c, r)
  BY DEF Before, Chained, InUse, Mapping, RenameHistory

(* The registers of the instructions that survive are in use. *)
LEMMA GoodInUse ==
  ASSUME TypeOK, NEW t \in Thread, Chained(renameMap[t], historyBuffer[t]), Order(t), Values(t),
         NEW i \in Good(t)
  PROVE  /\ \A a \in i.writes : InUse(renameMap[t], historyBuffer[t], lastCommited[t], i.dest[a])
         /\ \A a \in Arch : InUse(renameMap[t], historyBuffer[t], lastCommited[t], i.src[a])
<1>1. /\ historyBuffer[t] \in SUBSET RenameHistory /\ lastCommited[t] \in Nat
      /\ rob[t] \in SUBSET Inst /\ fromRename[t] \in SUBSET Inst /\ toIEW[t] \in SUBSET Inst
  BY Zenon, TypeParts
<1>2. i \in rob[t] \cup fromRename[t] \cup toIEW[t]
  BY Zenon DEF Good
<1>3. lastCommited[t] < i.seq
  BY Zenon, <1>2 DEF Order
<1>4. i.seq \in Nat /\ i.writes \subseteq Arch
  <2>1. i \in Inst
    BY Zenon, <1>1, <1>2
  <2>2. i.seq \in Nat /\ i.writes \in Dests
    BY <2>1 DEF Inst
  <2> QED BY Zenon, <2>2, RegsAssumption
<1>5. ASSUME NEW a \in i.writes PROVE InUse(renameMap[t], historyBuffer[t], lastCommited[t], i.dest[a])
  <2> DEFINE H == historyBuffer[t]
             c == lastCommited[t]
             q == i.seq
             s == i.seq + 1
             r == i.dest[a]
  <2>1. s \in Nat /\ c < s
    <3>1. c \in Nat /\ q \in Nat /\ c < q
      BY Zenon, <1>1, <1>3, <1>4
    <3>2. s = q + 1
      OBVIOUS
    <3> HIDE DEF c, q, s
    <3> QED BY <3>1, <3>2
  <2>2. Before(renameMap[t], H, s, a, r) /\ a \in Arch /\ c \in Nat /\ H \in SUBSET RenameHistory
    BY Zenon, <1>1, <1>4 DEF Values
  <2> HIDE DEF s, r
  <2> QED BY Zenon, <2>1, <2>2, BeforeInUse DEF r
<1>6. ASSUME NEW a \in Arch PROVE InUse(renameMap[t], historyBuffer[t], lastCommited[t], i.src[a])
  <2>1. Before(renameMap[t], historyBuffer[t], i.seq, a, i.src[a])
    BY Zenon DEF Values
  <2> QED BY Zenon, <1>1, <1>3, <1>4, <2>1, BeforeInUse
<1> QED
  BY Zenon, <1>5, <1>6

(* A squash in rename keeps the invariant of its thread: what survives is not younger than doneSeqNum. *)
LEMMA ThreadSquash ==
  ASSUME IInv, NEW t \in Thread, Advance(t, "signals", "rename"), Squash(t), RenameInv', TypeOK'
  PROVE  ThreadInv(t)'
<1> DEFINE m == renameMap[t]
           H == historyBuffer[t]
           F == freeing[t]
           c == lastCommited[t]
           d == commitInfo[t].done
           Y == {h \in H : h.seq > d}
           u == Undo(m, Y)
           N == {h.new : h \in Renamed(Y)}
           F2 == F \cup N
<1>0. /\ renameMap \in [Thread -> [Arch -> PhysReg]] /\ freeing \in [Thread -> SUBSET Phys]
      /\ historyBuffer \in [Thread -> SUBSET RenameHistory] /\ H \in SUBSET RenameHistory
      /\ F \in SUBSET Phys /\ nextSeq \in Nat /\ commitInfo[t] \in CommitInfo
      /\ stage \in [Thread -> {"signals", "rename", "commit"}]
      /\ fromRename \in [Thread -> SUBSET Inst] /\ fromRename[t] \in SUBSET Inst
      /\ rob[t] \in SUBSET Inst /\ c \in Nat
  BY Zenon, TypeParts DEF IInv
<1>1. /\ ThreadInv(t) /\ Order(t) /\ Signals(t) /\ Values(t) /\ Owned(t) /\ StillHeld(t)
      /\ Chained(m, H) /\ OneEach(m, H, F) /\ \A h \in H : h.seq < nextSeq
  BY Zenon DEF IInv, CommitInv, ThreadInv, RenameInv, Partition
<1>2. /\ stage[t] = "signals" /\ stage'[t] = "rename" /\ commitInfo[t].squash
      /\ UNCHANGED <<freeList, toIEW, nextSeq, commitInfo, rob, squashIt, squashedSeqNum, commitStatus,
                     commitMap, youngestSeqNum, lastCommited>>
  BY Zenon, <1>0 DEF Advance, Squash, commit
<1>3. /\ renameMap'[t] = u /\ historyBuffer'[t] = H \ Y /\ freeing'[t] = F2
  BY Zenon, <1>0 DEF Squash, Younger
<1>4. /\ Pending(t) /\ ~Pending(t)' /\ (IsSquashing(t)' <=> IsSquashing(t)) /\ toIEW[t] = {}
      /\ commitInfo[t].robSquashing /\ commitStatus[t] = "ROBSquashing" /\ d \in Nat /\ d >= c
  BY Zenon, <1>0, <1>1, <1>2 DEF Pending, IsSquashing, Signals, CommitInfo
<1>5. /\ \A j \in fromRename'[t] : j.squashed /\ \E i \in fromRename[t] : i.seq = j.seq
      /\ \A i, j \in fromRename'[t] : i.seq = j.seq => i = j
  <2>2. ASSUME NEW j \in fromRename'[t]
        PROVE  j.squashed /\ \E i \in fromRename[t] : i.seq = j.seq /\ j = [i EXCEPT !.squashed = TRUE]
    <3>1. PICK i \in fromRename[t] : j = [i EXCEPT !.squashed = TRUE]
      BY Zenon, <1>0 DEF Squash
    <3> QED BY Zenon, <1>0, <3>1, Marking
  <2>4. ASSUME NEW i \in fromRename'[t], NEW j \in fromRename'[t], i.seq = j.seq PROVE i = j
    <3>1. PICK p \in fromRename[t] : p.seq = i.seq /\ i = [p EXCEPT !.squashed = TRUE]
      BY Zenon, <2>2
    <3>2. PICK q \in fromRename[t] : q.seq = j.seq /\ j = [q EXCEPT !.squashed = TRUE]
      BY Zenon, <2>2
    <3> QED BY Zenon, <1>1, <2>4, <3>1, <3>2 DEF Order
  <2> QED BY Zenon, <2>2, <2>4
<1>8. Good(t)' = Good(t) /\ \A i \in Good(t) : i \in rob[t] /\ i.seq <= d
  BY ZenonT(40), <1>1, <1>2, <1>4, <1>5 DEF Doomed, Good, Signals
<1>9. ASSUME NEW s \in Nat, NEW a \in Arch, NEW r, s <= d + 1, Before(m, H, s, a, r)
      PROVE  Before(u, H \ Y, s, a, r)
  <2>1. H \in SUBSET RenameHistory /\ Chained(m, H) /\ d \in Nat
    BY Zenon, <1>0, <1>1, <1>4
  <2> HIDE DEF m, H, d
  <2> QED BY <1>9, <2>1, BeforeSquash
<1>10. Values(t)'
  <2>2. ASSUME NEW i \in Good(t)
        PROVE  /\ i.seq \in Nat /\ i.seq + 1 \in Nat /\ i.seq <= d + 1 /\ i.seq + 1 <= d + 1
               /\ i.writes \in SUBSET Arch
    <3>1. i.seq \in Nat /\ i.writes \in SUBSET Arch /\ i.seq <= d /\ d \in Nat
      BY Zenon, <1>0, <1>4, <1>8, InstParts
    <3> HIDE DEF d
    <3> QED BY <3>1
  <2>3. \A a \in Arch : Before(u, H \ Y, c + 1, a, commitMap[t][a])
    <3>1. c + 1 \in Nat /\ c + 1 <= d + 1
      BY <1>0, <1>4
    <3> QED BY ZenonT(40), <1>1, <1>9, <3>1 DEF Values
  <2>4. \A i \in Good(t) : /\ \A a \in Arch : Before(u, H \ Y, i.seq, a, i.src[a])
                           /\ \A a \in i.writes : Before(u, H \ Y, i.seq + 1, a, i.dest[a])
    BY Zenon, <1>1, <1>9, <2>2 DEF Values
  <2>5. lastCommited'[t] = c /\ commitMap'[t] = commitMap[t]
    BY Zenon, <1>2
  <2> HIDE DEF u, H, Y, c
  <2>7. \A i \in Good(t)' :
          /\ \A a \in Arch : Before(renameMap'[t], historyBuffer'[t], i.seq, a, i.src[a])
          /\ \A a \in i.writes : Before(renameMap'[t], historyBuffer'[t], i.seq + 1, a, i.dest[a])
    <3>1. renameMap'[t] = u /\ historyBuffer'[t] = H \ Y /\ Good(t)' = Good(t)
      BY Zenon, <1>3, <1>8
    <3> QED BY Zenon, <2>4, <3>1
  <2> QED BY Zenon, <1>3, <2>3, <2>5, <2>7 DEF Values
<1>11. Owned(t)'
  <2>1. \A h \in H \ Y : h.seq <= d
    BY <1>0, <1>4 DEF RenameHistory
  <2>2. \A h \in H : h.seq > c /\ h.seq <= d => \E i \in Good(t) : i.seq = h.seq /\ h.arch \in i.writes
    BY Zenon, <1>1, <1>4 DEF Owned
  <2> HIDE DEF H, Y
  <2> QED BY ZenonT(40), <1>2, <1>3, <1>8, <2>1, <2>2 DEF Owned
<1>12. ASSUME NEW r \in PhysReg, Held(t, r) PROVE Held(t, r)'
  <2>1. Homes(m, Y, u)
    <3>1. Y = {h \in H : h.seq > d}
      OBVIOUS
    <3> HIDE DEF m, H, d, Y
    <3> QED BY Zenon, <1>0, <1>1, <1>4, <3>1, SquashHomes
  <2>2. News(Y, N)
    BY Zenon DEF News
  <2>3. Y \in SUBSET H /\ F2 = F \cup N
    OBVIOUS
  <2>4. r \in F \/ InUse(m, H, c, r)
    BY Zenon, <1>12 DEF Held
  <2>5. SUFFICES r \in F2 \/ InUse(u, H \ Y, c, r)
    <3> HIDE DEF u, H, Y, F2
    <3> QED BY Zenon, <1>2, <1>3 DEF Held
  <2> HIDE DEF m, H, F, Y, u, N, F2, c, d
  <2>6. /\ OneEach(u, H \ Y, F2)
        /\ \A p \in Phys : Holding(u, H \ Y, F2, p) <=> Holding(m, H, F, p)
    BY Zenon, <1>0, <1>1, <2>1, <2>2, <2>3, SquashMoves
  <2>7. CASE r \in F \/ r \in Fixed
    BY Zenon, <2>3, <2>7 DEF InUse
  <2>8. CASE r \in Phys /\ Mapping(m, r)
    BY Zenon, <1>1, <2>6, <2>8 DEF Holding, OneEach, Keeping, InUse
  <2>9. ASSUME NEW h \in H, r \in Phys, h.arch \notin Fixed, h.prev = r, h.seq > c
        PROVE  r \in F2 \/ InUse(u, H \ Y, c, r)
    BY Zenon, <1>1, <2>6, <2>9 DEF Holding, Keeping, OneEach, InUse
  <2> QED BY Zenon, <2>4, <2>7, <2>8, <2>9 DEF InUse, PhysReg
<1>13. StillHeld(t)'
  <2> SUFFICES ASSUME NEW i \in InFlight(t)'
               PROVE  (\A a \in i.writes : Held(t, i.dest[a])') /\ \A a \in Arch : Held(t, i.src[a])'
    BY Zenon DEF StillHeld
  <2>1. i \in InFlight(t) /\ i \in rob[t]
    <3>1. ~i.squashed /\ (i \in rob'[t] \/ i \in fromRename'[t] \/ i \in toIEW'[t])
      BY Zenon DEF InFlight
    <3>2. i \notin fromRename'[t] /\ i \notin toIEW'[t]
      BY Zenon, <1>2, <1>4, <1>5, <3>1
    <3> QED BY Zenon, <1>2, <3>1, <3>2 DEF InFlight
  <2>2. i.writes \in SUBSET Arch /\ \A a \in Arch : i.dest[a] \in PhysReg /\ i.src[a] \in PhysReg
    BY Zenon, <1>0, <2>1, InstParts
  <2> QED BY Zenon, <1>1, <1>12, <2>1, <2>2 DEF StillHeld
<1>14. Order(t)'
  <2>1. ASSUME NEW j \in fromRename'[t]
        PROVE  /\ \A i \in rob[t] : i.seq < j.seq
               /\ \A i \in toIEW[t] : j.seq < i.seq
               /\ j.seq < nextSeq /\ lastCommited[t] < j.seq
    <3>1. PICK i \in fromRename[t] : i.seq = j.seq
      BY Zenon, <1>5
    <3> QED BY Zenon, <1>1, <3>1 DEF Order
  <2>2. /\ rob'[t] = rob[t] /\ toIEW'[t] = toIEW[t] /\ lastCommited'[t] = lastCommited[t]
        /\ nextSeq' = nextSeq /\ youngestSeqNum'[t] = youngestSeqNum[t]
    BY Zenon, <1>2
  <2>3. /\ \A i, j \in rob[t] : i.seq = j.seq => i = j
        /\ \A i, j \in toIEW[t] : i.seq = j.seq => i = j
        /\ \A i, j \in fromRename'[t] : i.seq = j.seq => i = j
    BY Zenon, <1>1, <1>5 DEF Order
  <2>4. /\ \A i \in rob[t] : i.seq < nextSeq /\ lastCommited[t] < i.seq
        /\ \A i \in toIEW[t] : i.seq < nextSeq /\ lastCommited[t] < i.seq
        /\ \A i \in rob[t], j \in toIEW[t] : i.seq < j.seq
        /\ lastCommited[t] < nextSeq /\ youngestSeqNum[t] < nextSeq
    BY Zenon, <1>1 DEF Order
  <2> QED BY Zenon, <2>1, <2>2, <2>3, <2>4 DEF Order
<1>15. Signals(t)' /\ TrapHead(t)'
  <2>1. commitInfo'[t] = commitInfo[t] /\ commitStatus'[t] = commitStatus[t] /\ lastCommited'[t] = lastCommited[t]
        /\ toIEW'[t] = toIEW[t] /\ rob'[t] = rob[t] /\ squashIt'[t] = squashIt[t]
        /\ youngestSeqNum'[t] = youngestSeqNum[t] /\ squashedSeqNum'[t] = squashedSeqNum[t]
    BY Zenon, <1>2
  <2>2. \A i \in fromRename'[t] : i.squashed
    BY Zenon, <1>5
  <2>3. TrapHead(t)
    BY Zenon, <1>1 DEF ThreadInv
  <2> QED BY Zenon, <1>1, <1>4, <2>1, <2>2, <2>3 DEF Signals, TrapHead
<1> QED
  BY Zenon, <1>10, <1>11, <1>13, <1>14, <1>15 DEF ThreadInv

(* Freeing what was set aside keeps it: no squash is in progress, so what is in flight survives. *)
LEMMA ThreadFree ==
  ASSUME IInv, NEW t \in Thread, Advance(t, "signals", "rename"), FreeSquashed(t)
  PROVE  ThreadInv(t)'
<1>1. /\ ~commitInfo[t].squash /\ stage[t] = "signals"
      /\ UNCHANGED <<renameMap, historyBuffer, toIEW, nextSeq, fromRename, commitInfo, rob, squashIt,
                     squashedSeqNum, commitStatus, commitMap, youngestSeqNum, lastCommited>>
      /\ commitInfo[t].robSquashing => freeing' = freeing
  BY Zenon DEF FreeSquashed, Advance, commit
<1>2. /\ Order(t) /\ Signals(t) /\ Values(t) /\ Owned(t) /\ StillHeld(t) /\ TrapHead(t)
      /\ Chained(renameMap[t], historyBuffer[t]) /\ TypeOK
  BY Zenon DEF IInv, CommitInv, ThreadInv, RenameInv
<1>3. ~Pending(t) /\ ~Pending(t)'
  BY Zenon, <1>1 DEF Pending
<1>4. /\ \A i : Doomed(t, i)' <=> Doomed(t, i)
      /\ InFlight(t)' = InFlight(t)
  BY Zenon, <1>1 DEF Doomed, IsSquashing, InFlight
<1>5. Good(t)' = Good(t)
  BY Zenon, <1>1, <1>3, <1>4 DEF Good
<1>6. Order(t)' /\ TrapHead(t)'
  BY Zenon, <1>1, <1>2 DEF Order, TrapHead
<1>7. Signals(t)'
  BY Zenon, <1>1, <1>2, <1>3 DEF Signals
<1>8. Values(t)'
  BY Zenon, <1>1, <1>2, <1>5 DEF Values
<1>9. Owned(t)'
  BY Zenon, <1>1, <1>2, <1>3, <1>5 DEF Owned
<1>10. StillHeld(t)'
  <2>1. CASE commitInfo[t].robSquashing
    BY Zenon, <1>1, <1>2, <1>4, <2>1 DEF StillHeld, Held
  <2>2. CASE ~commitInfo[t].robSquashing
    <3>1. ASSUME NEW i \in InFlight(t) PROVE i \in Good(t)
      BY Zenon, <1>2, <1>3, <2>2 DEF InFlight, Good, Doomed, IsSquashing, Signals
    <3> QED BY Zenon, <1>1, <1>2, <1>4, <3>1, GoodInUse DEF StillHeld, Held
  <2> QED BY Zenon, <2>1, <2>2
<1> QED BY Zenon, <1>6, <1>7, <1>8, <1>9, <1>10 DEF ThreadInv

(* removeFromHistory keeps it: only entries of committed instructions leave. *)
LEMMA ThreadRetire ==
  ASSUME IInv, NEW t \in Thread, RetireHistory(t)
  PROVE  ThreadInv(t)'
<1> DEFINE m == renameMap[t]
           H == historyBuffer[t]
           c == lastCommited[t]
           d == IF commitInfo[t].squash THEN 0 ELSE commitInfo[t].done
           H2 == {h \in H : ~(h.seq <= d)}
<1>0. /\ historyBuffer \in [Thread -> SUBSET RenameHistory] /\ H \in SUBSET RenameHistory
      /\ stage \in [Thread -> {"signals", "rename", "commit"}]
      /\ commitInfo[t] \in CommitInfo /\ c \in Nat
      /\ rob[t] \in SUBSET Inst /\ fromRename[t] \in SUBSET Inst /\ toIEW[t] \in SUBSET Inst
  BY Zenon, TypeParts DEF IInv
<1>1. Order(t) /\ Signals(t) /\ Values(t) /\ Owned(t) /\ StillHeld(t) /\ TrapHead(t)
  BY Zenon DEF IInv, CommitInv, ThreadInv
<1>2. /\ stage[t] = "rename" /\ stage'[t] = "commit"
      /\ UNCHANGED <<renameMap, freeing, toIEW, fromRename, nextSeq, commitInfo, rob, squashIt,
                     squashedSeqNum, commitStatus, commitMap, youngestSeqNum, lastCommited>>
  BY Zenon, <1>0 DEF Advance, RetireHistory, commit
<1>3. historyBuffer'[t] = H2
  <2>1. H2 = H \ (IF commitInfo[t].squash THEN {} ELSE Older(t, commitInfo[t].done))
    BY <1>0 DEF Older, RenameHistory
  <2> HIDE DEF H2
  <2> QED BY Zenon, <1>0, <2>1 DEF RetireHistory
<1>4. d \in Nat /\ d <= c
  <2>1. CASE commitInfo[t].squash
    BY <1>0, <2>1
  <2>2. CASE ~commitInfo[t].squash
    BY Zenon, <1>0, <1>1, <2>2 DEF Signals, CommitInfo
  <2> QED BY Zenon, <2>1, <2>2
<1>11. Values(t)'
  <2>1. ASSUME NEW s \in Nat, NEW a \in Arch, NEW r, d < s, Before(m, H, s, a, r)
        PROVE  Before(m, H2, s, a, r)
    <3> HIDE DEF m, H, d
    <3> QED BY <1>0, <1>4, <2>1, BeforeRetire
  <2>5. \A a \in Arch : Before(m, H2, c + 1, a, commitMap[t][a])
    <3>1. c + 1 \in Nat /\ d < c + 1
      <4> HIDE DEF c, d
      <4> QED BY <1>0, <1>4
    <3> QED BY Zenon, <1>1, <2>1, <3>1 DEF Values
  <2>6. ASSUME NEW i \in Good(t)
        PROVE  /\ \A a \in Arch : Before(m, H2, i.seq, a, i.src[a])
               /\ \A a \in i.writes : Before(m, H2, i.seq + 1, a, i.dest[a])
    <3>1. i.seq \in Nat /\ c < i.seq /\ i.writes \in SUBSET Arch
      BY Zenon, <1>0, <1>1, InstParts DEF Good, Order
    <3>2. i.seq + 1 \in Nat /\ d < i.seq /\ d < i.seq + 1
      <4> HIDE DEF c, d
      <4> QED BY <1>0, <1>4, <3>1
    <3> QED BY Zenon, <1>1, <2>1, <3>1, <3>2 DEF Values
  <2>7. lastCommited'[t] = c /\ commitMap'[t] = commitMap[t] /\ renameMap'[t] = m
    BY Zenon, <1>2
  <2> HIDE DEF m, H2, c
  <2> QED BY Zenon, <1>2, <1>3, <2>5, <2>6, <2>7 DEF Values, Good, Doomed, Pending, IsSquashing
<1>12. StillHeld(t)'
  <2>1. \A h \in H : h.seq > c => h \in H2
    BY <1>0, <1>4 DEF RenameHistory
  <2>2. \A r : Held(t, r) => Held(t, r)'
    <3> HIDE DEF H2
    <3> QED BY Zenon, <1>2, <1>3, <2>1 DEF Held, InUse
  <2> QED BY Zenon, <1>1, <1>2, <2>2 DEF StillHeld, InFlight
<1> QED
  BY Zenon, <1>1, <1>2, <1>3, <1>11, <1>12 DEF ThreadInv, Signals, Order, TrapHead, Owned, Good, Doomed,
     Pending, IsSquashing

(* Renaming an instruction keeps it: the new entries are its own, and what they replace is kept. *)
LEMMA ThreadRename ==
  ASSUME IInv, NEW t \in Thread, NEW D \in Dests, RenameInst(t, D), RenameInv', TypeOK'
  PROVE  ThreadInv(t)'
<1>1. PICK new \in Assignments(t, D) :
        /\ renameDestRegs(t, D, new)
        /\ toIEW' = [toIEW EXCEPT ![t] = @ \cup
                       {[seq |-> nextSeq, writes |-> D, src |-> renameMap[t],
                         dest |-> RenamedMap(t, D, new), squashed |-> FALSE]}]
  BY Zenon DEF RenameInst
<1> DEFINE m == renameMap[t]
           H == historyBuffer[t]
           c == lastCommited[t]
           n == nextSeq
           m2 == renameMap'[t]
           H2 == historyBuffer'[t]
           x == [seq |-> nextSeq, writes |-> D, src |-> m, dest |-> m2, squashed |-> FALSE]
<1>0. /\ H \in SUBSET RenameHistory /\ toIEW \in [Thread -> SUBSET Inst]
      /\ n \in Nat /\ c \in Nat /\ youngestSeqNum[t] \in Nat
      /\ rob[t] \in SUBSET Inst /\ fromRename[t] \in SUBSET Inst /\ toIEW[t] \in SUBSET Inst
  BY Zenon, TypeParts DEF IInv
<1>2. /\ Order(t) /\ Signals(t) /\ Values(t) /\ Owned(t) /\ StillHeld(t) /\ TrapHead(t)
      /\ Chained(m, H) /\ \A h \in H : h.seq < n
  BY Zenon DEF IInv, CommitInv, ThreadInv, RenameInv
<1>3. /\ stage[t] = "rename" /\ ~commitInfo[t].robSquashing /\ nextSeq' = n + 1
      /\ UNCHANGED <<stage, freeing, fromRename, commitInfo, rob, squashIt, squashedSeqNum, commitStatus,
                     commitMap, youngestSeqNum, lastCommited>>
  BY Zenon DEF RenameInst, commit
<1>4. Extended(m, H, n, D, new, m2, H2) /\ m2 = RenamedMap(t, D, new)
  BY Zenon, <1>1, <1>3, RenameInvInst
<1>5. toIEW'[t] = toIEW[t] \cup {x}
  BY Zenon, <1>0, <1>1, <1>4
<1>6. x.seq = n /\ x.writes = D /\ x.src = m /\ x.dest = m2 /\ x.squashed = FALSE
  OBVIOUS
<1>7. D \in SUBSET Arch /\ Chained(m2, H2)
  BY Zenon, RegsAssumption DEF RenameInv
<1> HIDE DEF x
<1>8. ~Pending(t) /\ ~Pending(t)' /\ (IsSquashing(t)' <=> IsSquashing(t))
  BY Zenon, <1>3 DEF Pending, IsSquashing
<1>10. Good(t)' = Good(t) \cup {x} /\ InFlight(t)' = InFlight(t) \cup {x}
  BY Zenon, <1>3, <1>5, <1>6, <1>8 DEF Good, InFlight, Doomed
<1>12. c < n /\ youngestSeqNum[t] < n
  BY Zenon, <1>2 DEF Order
<1>13. Order(t)'
  <2>1. ASSUME NEW k \in Nat, k < n PROVE k < n + 1 /\ k # n
    BY <1>0, <2>1
  <2>2. n < n + 1
    BY <1>0
  <2>3. /\ \A i \in rob[t] : i.seq < n /\ i.seq < n + 1
        /\ \A i \in fromRename[t] : i.seq < n /\ i.seq < n + 1
        /\ \A i \in toIEW[t] : i.seq < n /\ i.seq < n + 1 /\ i.seq # n
    BY Zenon, <1>0, <1>2, <2>1, InstParts DEF Order
  <2>4. \A i \in toIEW'[t] : i = x \/ i \in toIEW[t]
    BY Zenon, <1>5
  <2>5. /\ \A i \in rob[t], j \in toIEW'[t] : i.seq < j.seq
        /\ \A i \in fromRename[t], j \in toIEW'[t] : i.seq < j.seq
        /\ \A i \in toIEW'[t] : i.seq < n + 1 /\ c < i.seq
    BY Zenon, <1>2, <1>6, <1>12, <2>2, <2>3, <2>4 DEF Order
  <2>6. \A i, j \in toIEW'[t] : i.seq = j.seq => i = j
    BY Zenon, <1>2, <1>6, <2>3, <2>4 DEF Order
  <2>7. /\ rob'[t] = rob[t] /\ fromRename'[t] = fromRename[t] /\ lastCommited'[t] = c
        /\ youngestSeqNum'[t] = youngestSeqNum[t] /\ nextSeq' = n + 1
    BY Zenon, <1>3
  <2>8. c < n + 1 /\ youngestSeqNum[t] < n + 1
    BY Zenon, <1>0, <1>12, <2>1
  <2> QED BY Zenon, <1>2, <2>3, <2>5, <2>6, <2>7, <2>8 DEF Order
<1>14. Signals(t)' /\ TrapHead(t)'
  BY Zenon, <1>2, <1>3, <1>8 DEF Signals, TrapHead
<1>15. ASSUME NEW s \in Nat, NEW a \in Arch, NEW r
       PROVE  /\ s <= n /\ Before(m, H, s, a, r) => Before(m2, H2, s, a, r)
              /\ s > n => Before(m2, H2, s, a, m2[a])
  <2> HIDE DEF m, H, n, m2, H2
  <2> QED BY Zenon, <1>0, <1>2, <1>4, <1>7, BeforeRename
<1>16. Values(t)'
  <2>1. \A a \in Arch : Before(m2, H2, c + 1, a, commitMap[t][a])
    <3>1. c + 1 \in Nat /\ c + 1 <= n
      <4> HIDE DEF c, n
      <4> QED BY <1>0, <1>12
    <3> QED BY Zenon, <1>2, <1>15, <3>1 DEF Values
  <2>2. ASSUME NEW i \in Good(t)
        PROVE  /\ \A a \in Arch : Before(m2, H2, i.seq, a, i.src[a])
               /\ \A a \in i.writes : Before(m2, H2, i.seq + 1, a, i.dest[a])
    <3>1. i.seq \in Nat /\ i.seq < n /\ i.writes \in SUBSET Arch
      BY Zenon, <1>0, <1>2, InstParts DEF Good, Order
    <3>2. i.seq + 1 \in Nat /\ i.seq <= n /\ i.seq + 1 <= n
      <4> HIDE DEF n
      <4> QED BY <1>0, <3>1
    <3> QED BY Zenon, <1>2, <1>15, <3>1, <3>2 DEF Values
  <2>3. \A a \in Arch : Before(m2, H2, n, a, m[a])
    <3>1. \A a \in Arch : Before(m, H, n, a, m[a])
      BY Zenon, <1>2 DEF Before
    <3>2. n <= n
      BY <1>0
    <3> QED BY Zenon, <1>0, <1>15, <3>1, <3>2
  <2>5. lastCommited'[t] = c /\ commitMap'[t] = commitMap[t]
    BY Zenon, <1>3
  <2> HIDE DEF m, n, m2, H2, c
  <2>6. \A i \in Good(t)' : /\ \A a \in Arch : Before(m2, H2, i.seq, a, i.src[a])
                            /\ \A a \in i.writes : Before(m2, H2, i.seq + 1, a, i.dest[a])
    <3>1. n + 1 \in Nat /\ n + 1 > n
      BY <1>0
    <3>2. \A a \in Arch : Before(m2, H2, n + 1, a, m2[a])
      BY Zenon, <1>15, <3>1
    <3> QED BY Zenon, <1>6, <1>7, <1>10, <2>2, <2>3, <3>2
  <2> QED BY Zenon, <2>1, <2>5, <2>6 DEF Values, m2, H2
<1>17. Owned(t)'
  <2>2. ASSUME NEW h \in H, h.seq > c
        PROVE  \/ \E i \in Good(t) : i.seq = h.seq /\ h.arch \in i.writes
               \/ commitStatus[t] = "TrapPending" /\ \E j \in rob[t] : ~j.squashed /\ j.seq <= h.seq
    BY Zenon, <1>2, <1>8, <2>2 DEF Owned
  <2> HIDE DEF H, n, H2
  <2> QED BY Zenon, <1>3, <1>4, <1>6, <1>8, <1>10, <2>2 DEF Owned, H2, Extended
<1>18. StillHeld(t)'
  <2>1. ASSUME NEW r, Held(t, r) PROVE Held(t, r)'
    <3>1. r \in freeing[t] \/ InUse(m, H, c, r)
      BY Zenon, <2>1 DEF Held
    <3>2. SUFFICES r \in freeing[t] \/ InUse(m2, H2, c, r)
      <4> HIDE DEF m, H
      <4> QED BY Zenon, <1>3 DEF Held
    <3> HIDE DEF m, H, c, n, m2, H2
    <3>3. CASE Mapping(m, r)
      BY <1>0, <1>4, <1>12, <3>3 DEF Mapping, Extended, InUse
    <3> QED BY Zenon, <1>4, <3>1, <3>3 DEF InUse, Extended
  <2> DEFINE After(r) == r \in freeing'[t] \/ InUse(m2, H2, lastCommited'[t], r)
  <2>2. ASSUME NEW r, Held(t, r) PROVE After(r)
    BY Zenon, <2>1, <2>2 DEF Held
  <2>3. \A a \in Arch : Held(t, m[a])
    BY Zenon, <1>2 DEF Chained, Held, InUse, Mapping
  <2>4. \A a \in Arch : After(m2[a])
    <3> HIDE DEF m2, H2
    <3> QED BY Zenon, <1>7 DEF Chained, InUse, Mapping
  <2>5. \A a \in x.writes : After(x.dest[a])
    <3> HIDE DEF m2, After
    <3> QED BY Zenon, <1>6, <1>7, <2>4
  <2>6. \A a \in Arch : After(x.src[a])
    <3> HIDE DEF m, After
    <3> QED BY Zenon, <1>6, <2>2, <2>3
  <2>7. ASSUME NEW i \in InFlight(t)
        PROVE  (\A a \in i.writes : After(i.dest[a])) /\ \A a \in Arch : After(i.src[a])
    <3> HIDE DEF After
    <3> QED BY Zenon, <1>2, <2>2 DEF StillHeld
  <2>8. ASSUME NEW i \in InFlight(t)'
        PROVE  (\A a \in i.writes : After(i.dest[a])) /\ \A a \in Arch : After(i.src[a])
    <3> HIDE DEF After
    <3> QED BY Zenon, <1>10, <2>5, <2>6, <2>7
  <2> QED BY Zenon, <2>8 DEF StillHeld, Held
<1> QED
  BY Zenon, <1>13, <1>14, <1>16, <1>17, <1>18 DEF ThreadInv
=============================================================================
