------------------------- MODULE MIExample_proofs --------------------------
(***************************************************************************)
(* Coherence of the MI_example protocol, for any number of caches, DMA     *)
(* controllers, lines and values, and for a forward network that delivers  *)
(* in any order.                                                           *)
(*                                                                         *)
(* The inductive invariant speaks of one line at a time.  A line has one   *)
(* token: it is with the cache that Holds it, in the one DATA response on  *)
(* its way, or below, in the memory and the directory's memory queue       *)
(* (TokenOK); the token carries the latest value (ValueOK).  That it is    *)
(* never there twice depends on which messages can be on their way in      *)
(* which states (CacheOK, MissOK, DirOK): a forwarded GETX, an answered    *)
(* PUTX and a pending PUTX exclude each other in the ways written there.   *)
(* A step is about one line, and the others follow by UntouchedLine.       *)
(***************************************************************************)
EXTENDS MIExample, TLAPS

(* The directory's TBE; a request to the memory or its answer; a message to a cache. *)
TBE == [who : Dma \cup {NoOne}, data : Value]
MemMsg == [type : {"None", "READ", "Data", "WB", "DMA_WB", "Ack"},
           who : Cache \cup Dma \cup {NoOne}, data : Value]
Message == {m \in [type : {"GETX", "INV", "WB_ACK", "WB_NACK"}, addr : Addr, who : Cache \cup {NoOne}] :
               m.type = "GETX" => m.who \in Cache}

(* The types of the controllers' state. *)
Types ==
  /\ cstate \in [Cache -> [Addr -> CacheState]]
  /\ cdata \in [Cache -> [Addr -> Value]]
  /\ dstate \in [Addr -> DirState]
  /\ owner \in [Addr -> Cache \cup {NoOne}]
  /\ tbe \in [Addr -> TBE]
  /\ memq \in [Addr -> MemMsg]
  /\ mem \in [Addr -> Value]
  /\ dma \in [Dma -> [Addr -> {"READY", "BUSY_RD", "BUSY_WR"}]]
  /\ latest \in [Addr -> Value]
  /\ seen \in [Dma -> [Addr -> SUBSET Value]]

(* The messages of a queue; and two messages of which a queue holds only one. *)
In(s) == {s[i] : i \in 1 .. Len(s)}
Rival(m, n) == /\ m.addr = n.addr
               /\ \/ m.type = "GETX" /\ n.type = "GETX"
                  \/ m.type \in {"WB_ACK", "WB_NACK"} /\ n.type \in {"WB_ACK", "WB_NACK"}
Distinct(s) == \A i, j \in 1 .. Len(s) : Rival(s[i], s[j]) => i = j

(* Messages are what they should be, and no two of a kind are for one line. *)
RequestsOK ==
  /\ \A m \in requests : /\ m.type \in {"GETX", "PUTX"} /\ m.addr \in Addr
                         /\ m.who \in Cache /\ m.data \in Value
  /\ \A m, n \in requests : m.addr = n.addr /\ m.who = n.who => m = n
ForwardOK ==
  /\ forward \in [Cache -> Seq(Message)]
  /\ \A c \in Cache : Distinct(forward[c])
ResponsesOK ==
  /\ \A m \in responses : m.dest \in Cache /\ m.addr \in Addr /\ m.data \in Value
  /\ \A m, n \in responses : m.addr = n.addr => m = n
DmaReqsOK ==
  /\ \A m \in dmaReqs : /\ m.type \in {"READ", "WRITE"} /\ m.addr \in Addr
                        /\ m.who \in Dma /\ m.data \in Value
  /\ \A m, n \in dmaReqs : m.addr = n.addr /\ m.who = n.who => m = n
DmaRespsOK ==
  /\ \A m \in dmaResps : /\ m.type \in {"DATA", "ACK"} /\ m.addr \in Addr
                         /\ m.dest \in Dma /\ m.data \in Value
  /\ \A m, n \in dmaResps : m.addr = n.addr /\ m.dest = n.dest => m = n
Networks == RequestsOK /\ ForwardOK /\ ResponsesOK /\ DmaReqsOK /\ DmaRespsOK

(* What is on its way for line a. *)
Req(type, c, a) == \E m \in requests : m.type = type /\ m.who = c /\ m.addr = a
Fwd(type, c, a) == \E m \in In(forward[c]) : m.type = type /\ m.addr = a
FwdFor(c, a, w) == \E m \in In(forward[c]) : m.type = "GETX" /\ m.addr = a /\ m.who = w
Resp(w, a) == \E m \in responses : m.dest = w /\ m.addr = a
DmaReq(type, d, a) == \E m \in dmaReqs : m.type = type /\ m.who = d /\ m.addr = a
DmaResp(type, d, a) == \E m \in dmaResps : m.type = type /\ m.dest = d /\ m.addr = a
Accepted(c, a) == dstate[a] \in {"MI", "M_DRDI", "M_DWRI"} /\ memq[a].who = c

(* The directory's own consistency. *)
DirOK(a) ==
  /\ dstate[a] \in {"I", "M", "M_DRD", "M_DWR"} => memq[a].type = "None"
  /\ dstate[a] \in {"IM", "ID"} => memq[a].type \in {"READ", "Data"}
  /\ dstate[a] \in {"MI", "M_DRDI"} => memq[a].type \in {"WB", "Ack"}
  /\ dstate[a] \in {"M_DWRI", "ID_W"} => memq[a].type \in {"DMA_WB", "Ack"}
  /\ owner[a] # NoOne <=> dstate[a] \in {"IM", "M", "M_DRD", "M_DWR"}
  /\ dstate[a] = "IM" => memq[a].who = owner[a]
  /\ dstate[a] \in {"MI", "M_DRDI", "M_DWRI"} => memq[a].who \in Cache
  /\ dstate[a] \in {"M_DRD", "M_DWR", "M_DWRI", "ID", "ID_W"} => tbe[a].who \in Dma

(* What a cache's state says of the messages about the line. *)
CacheOK(c, a) ==
  /\ owner[a] = c => cstate[c][a] \in {"IS", "IM", "M", "MI"}
  /\ Accepted(c, a) => cstate[c][a] = "MI"
  /\ Req("GETX", c, a) => /\ cstate[c][a] \in {"IS", "IM"} /\ owner[a] # c
                          /\ ~Fwd("GETX", c, a)
  /\ Req("PUTX", c, a) => /\ cstate[c][a] \in {"MI", "II"} /\ ~Accepted(c, a)
                          /\ ~Fwd("WB_ACK", c, a) /\ ~Fwd("WB_NACK", c, a)
  /\ Fwd("GETX", c, a) => /\ cstate[c][a] \in {"IS", "IM", "M", "MI", "MII"}
                          /\ owner[a] # c /\ ~Accepted(c, a) /\ ~Fwd("WB_ACK", c, a)
  /\ Fwd("WB_ACK", c, a) => cstate[c][a] = "MI" /\ owner[a] # c /\ ~Accepted(c, a)
  /\ Fwd("WB_NACK", c, a) => cstate[c][a] \in {"MI", "II"} /\ owner[a] # c /\ ~Accepted(c, a)

(* A miss is in one place. *)
MissOK(w, a) ==
  /\ Resp(w, a) => /\ cstate[w][a] \in {"IS", "IM"} /\ ~Req("GETX", w, a)
                   /\ \A c \in Cache : ~FwdFor(c, a, w)
  /\ \A c \in Cache : FwdFor(c, a, w) =>
       /\ cstate[w][a] \in {"IS", "IM"} /\ ~Req("GETX", w, a)
       /\ ~(dstate[a] = "IM" /\ memq[a].who = w)
       /\ \A e \in Cache : FwdFor(e, a, w) => e = c
  /\ dstate[a] = "IM" /\ memq[a].who = w => cstate[w][a] \in {"IS", "IM"} /\ ~Req("GETX", w, a)

(* Who has the block. *)
Holds(c, a) ==
  \/ cstate[c][a] = "M"
  \/ cstate[c][a] = "MI" /\ owner[a] = c
  \/ cstate[c][a] \in {"MI", "MII"} /\ Fwd("GETX", c, a)
Below(a) == dstate[a] \notin {"M", "M_DRD", "M_DWR"}

TokenOK(c, a) ==
  /\ Holds(c, a) => ~Below(a) /\ \A e \in Cache : ~Resp(e, a) /\ (Holds(e, a) => e = c)
  /\ Resp(c, a) => ~Below(a)

(* A block on its way to the directory is the block of the cache it left. *)
PutOK(a) ==
  \A m \in requests : m.addr = a /\ m.type = "PUTX" /\ cstate[m.who][a] = "MI" => m.data = cdata[m.who][a]

(* The block is the value last written. *)
ValueOK(a) ==
  /\ \A c \in Cache : Holds(c, a) => cdata[c][a] = latest[a]
  /\ \A m \in responses : m.addr = a => m.data = latest[a]
  /\ PutOK(a)
  /\ dstate[a] = "I" \/ memq[a].type \in {"READ", "Ack", "Data"} => mem[a] = latest[a]
  /\ memq[a].type \in {"Data", "WB"} => memq[a].data = latest[a]

(* DMA. *)
ReadingFor(d, a) == tbe[a].who = d /\ dstate[a] \in {"M_DRD", "ID"}
WritingFor(d, a) == tbe[a].who = d /\ dstate[a] \in {"M_DWR", "M_DWRI", "ID_W"}
DmaOK(d, a) ==
  /\ DmaReq("READ", d, a) \/ ReadingFor(d, a) \/ DmaResp("DATA", d, a) => dma[d][a] = "BUSY_RD"
  /\ DmaReq("WRITE", d, a) \/ WritingFor(d, a) \/ DmaResp("ACK", d, a) => dma[d][a] = "BUSY_WR"
  /\ ~(DmaReq("READ", d, a) /\ ReadingFor(d, a)) /\ ~(DmaReq("WRITE", d, a) /\ WritingFor(d, a))
  /\ ~(DmaReq("READ", d, a) /\ DmaResp("DATA", d, a)) /\ ~(DmaReq("WRITE", d, a) /\ DmaResp("ACK", d, a))
  /\ ~(ReadingFor(d, a) /\ DmaResp("DATA", d, a)) /\ ~(WritingFor(d, a) /\ DmaResp("ACK", d, a))
SeenOK(d, a) ==
  /\ dma[d][a] = "BUSY_RD" => latest[a] \in seen[d][a]
  /\ \A m \in dmaResps : m.type = "DATA" /\ m.dest = d /\ m.addr = a => m.data \in seen[d][a]

LineOK(a) ==
  /\ DirOK(a) /\ ValueOK(a)
  /\ \A c \in Cache : CacheOK(c, a) /\ MissOK(c, a) /\ TokenOK(c, a)
  /\ \A d \in Dma : DmaOK(d, a) /\ SeenOK(d, a)

IInv == Types /\ Networks /\ \A a \in Addr : LineOK(a)

(* A step that does not concern line b; one that concerns line a alone. *)
SameLine(b) ==
    /\ \A c \in Cache : cstate'[c][b] = cstate[c][b] /\ cdata'[c][b] = cdata[c][b]
    /\ dstate'[b] = dstate[b] /\ owner'[b] = owner[b] /\ tbe'[b] = tbe[b]
    /\ memq'[b] = memq[b] /\ mem'[b] = mem[b] /\ latest'[b] = latest[b]
    /\ \A d \in Dma : dma'[d][b] = dma[d][b] /\ seen'[d][b] = seen[d][b]
    /\ \A m : m.addr = b => /\ m \in requests' <=> m \in requests
                            /\ m \in responses' <=> m \in responses
                            /\ m \in dmaReqs' <=> m \in dmaReqs
                            /\ m \in dmaResps' <=> m \in dmaResps
    /\ \A c \in Cache : \A t : t # "INV" => (Fwd(t, c, b)' <=> Fwd(t, c, b))
    /\ \A c \in Cache : \A w : FwdFor(c, b, w)' <=> FwdFor(c, b, w)
OnlyLine(a) == \A b \in Addr \ {a} : SameLine(b)
(* A step about line a that keeps the invariant. *)
Kept(a) == Types' /\ Networks' /\ LineOK(a)' /\ OnlyLine(a)
(* What the handlers of a cache, and those of the directory's requests, leave alone. *)
CacheOnly == UNCHANGED <<dirVars, mem, dmaVars, panicked, history>>
DirOnly == UNCHANGED <<cacheVars, responses, mem, dma, dmaReqs, panicked, history>>

-----------------------------------------------------------------------------
(* The operators of the model, and what a step leaves alone. *)

(* The value blocks start with is a value. *)
LEMMA InitValueType == InitValue \in Value
  BY Zenon, MIAssumption DEF InitValue

(***************************************************************************)
(* A message put into a queue at any place, overtaking or not, is there    *)
(* with all the others, and only one of a kind.                            *)
(***************************************************************************)
LEMMA InsertedProperties ==
  ASSUME NEW S, NEW s \in Seq(S), NEW m \in S, NEW i \in 1 .. Len(s) + 1,
         \A n \in In(s) : ~Rival(m, n) /\ ~Rival(n, m), Distinct(s)
  PROVE  /\ Inserted(s, i, m) \in Seq(S)
         /\ In(Inserted(s, i, m)) = In(s) \cup {m}
         /\ Distinct(Inserted(s, i, m))
<1> DEFINE t == Inserted(s, i, m)
<1>1. Len(s) \in Nat /\ DOMAIN s = 1 .. Len(s) /\ \A j \in 1 .. Len(s) : s[j] \in S
  OBVIOUS
<1>2. t \in Seq(S) /\ Len(t) = Len(s) + 1
  BY <1>1 DEF Inserted
<1>3. \A j \in 1 .. Len(s) + 1 : t[j] = IF j < i THEN s[j] ELSE IF j = i THEN m ELSE s[j - 1]
  BY Zenon, <1>1 DEF Inserted
<1> HIDE DEF t
<1>4. In(t) = In(s) \cup {m}
  <2>1. ASSUME NEW x \in In(t) PROVE x \in In(s) \cup {m}
    <3>1. PICK j \in 1 .. Len(s) + 1 : x = t[j]
      BY Zenon, <1>2 DEF In
    <3>2. CASE j = i
      BY <1>3, <3>1, <3>2
    <3>3. CASE j # i
      <4>1. PICK k \in 1 .. Len(s) : x = s[k]
        BY <1>1, <1>3, <3>1, <3>3
      <4> QED BY Zenon, <4>1 DEF In
    <3> QED BY Zenon, <3>2, <3>3
  <2>2. m \in In(t)
    BY <1>1, <1>2, <1>3 DEF In
  <2>3. ASSUME NEW x \in In(s) PROVE x \in In(t)
    <3>1. PICK j \in 1 .. Len(s) : x = s[j]
      BY Zenon DEF In
    <3>2. CASE j < i
      BY <1>1, <1>2, <1>3, <3>1, <3>2 DEF In
    <3>3. CASE j >= i
      <4>1. j + 1 \in 1 .. Len(t) /\ t[j + 1] = s[j]
        BY <1>1, <1>2, <1>3, <3>3
      <4> QED BY Zenon, <3>1, <4>1 DEF In
    <3> QED BY <1>1, <3>2, <3>3
  <2> QED BY Zenon, <2>1, <2>2, <2>3
<1>5. Distinct(t)
  <2> SUFFICES ASSUME NEW j \in 1 .. Len(t), NEW k \in 1 .. Len(t), Rival(t[j], t[k])
               PROVE  j = k
    BY Zenon DEF Distinct
  <2>1. \A l \in 1 .. Len(s) : ~Rival(m, s[l]) /\ ~Rival(s[l], m)
    BY Zenon DEF In
  <2>2. CASE j = i \/ k = i
    BY <1>1, <1>2, <1>3, <2>1, <2>2
  <2>3. CASE j # i /\ k # i
    <3> DEFINE p(x) == IF x < i THEN x ELSE x - 1
    <3>1. /\ p(j) \in 1 .. Len(s) /\ t[j] = s[p(j)]
          /\ p(k) \in 1 .. Len(s) /\ t[k] = s[p(k)]
      BY <1>1, <1>2, <1>3, <2>3
    <3>2. p(j) = p(k)
      BY Zenon, <3>1 DEF Distinct
    <3> QED BY <1>1, <1>2, <2>3, <3>2
  <2> QED BY Zenon, <2>2, <2>3
<1> QED BY Zenon, <1>2, <1>4, <1>5 DEF t

(* A queue without its head holds the other messages, and none of the head's kind for its line. *)
LEMMA TailProperties ==
  ASSUME NEW S, NEW s \in Seq(S), s # <<>>, Distinct(s)
  PROVE  /\ Tail(s) \in Seq(S)
         /\ Head(s) \in In(s) /\ In(s) = In(Tail(s)) \cup {Head(s)}
         /\ Distinct(Tail(s))
         /\ \A n \in In(Tail(s)) : ~Rival(Head(s), n)
<1>1. /\ Len(s) \in Nat \ {0} /\ Tail(s) \in Seq(S) /\ Len(Tail(s)) = Len(s) - 1
      /\ Head(s) = s[1] /\ \A j \in 1 .. Len(s) - 1 : Tail(s)[j] = s[j + 1]
  OBVIOUS
<1>2. Head(s) \in In(s)
  BY <1>1 DEF In
<1>3. ASSUME NEW n \in In(Tail(s)) PROVE n \in In(s) /\ ~Rival(Head(s), n)
  <2>1. PICK j \in 1 .. Len(s) - 1 : n = s[j + 1]
    BY Zenon, <1>1 DEF In
  <2>2. j + 1 \in 1 .. Len(s) /\ 1 \in 1 .. Len(s) /\ j + 1 # 1
    BY <1>1
  <2> QED BY Zenon, <1>1, <2>1, <2>2 DEF In, Distinct
<1>4. ASSUME NEW n \in In(s), n # Head(s) PROVE n \in In(Tail(s))
  <2>1. PICK j \in 1 .. Len(s) : n = s[j]
    BY Zenon DEF In
  <2>2. j - 1 \in 1 .. Len(s) - 1 /\ Tail(s)[j - 1] = s[j]
    BY <1>1, <1>4, <2>1
  <2> QED BY Zenon, <1>1, <2>1, <2>2 DEF In
<1>5. Distinct(Tail(s))
  BY <1>1 DEF Distinct
<1> QED BY Zenon, <1>1, <1>2, <1>3, <1>4, <1>5

(***************************************************************************)
(* Every message on a set-like network is seen through its view, with the  *)
(* type and the node it should have.                                       *)
(***************************************************************************)
LEMMA MessageViews ==
  ASSUME Networks
  PROVE  /\ \A m \in requests : m.type \in {"GETX", "PUTX"} /\ m.who \in Cache /\ Req(m.type, m.who, m.addr)
         /\ \A m \in responses : m.dest \in Cache /\ Resp(m.dest, m.addr)
         /\ \A m \in dmaReqs : m.type \in {"READ", "WRITE"} /\ m.who \in Dma /\ DmaReq(m.type, m.who, m.addr)
         /\ \A m \in dmaResps : m.type \in {"DATA", "ACK"} /\ m.dest \in Dma /\ DmaResp(m.type, m.dest, m.addr)
  BY Zenon DEF Networks, RequestsOK, ResponsesOK, DmaReqsOK, DmaRespsOK, Req, Resp, DmaReq, DmaResp

(***************************************************************************)
(* MessageBuffer::enqueue() to the forward network adds one message to     *)
(* what is on its way, wherever it is put in the queue.                    *)
(***************************************************************************)
LEMMA Sent ==
  ASSUME Networks, NEW c \in Cache, NEW type \in {"GETX", "INV", "WB_ACK", "WB_NACK"}, NEW a \in Addr,
         NEW who \in Cache \cup {NoOne}, SendForward(c, type, a, who),
         type = "GETX" => who \in Cache,
         type = "GETX" => ~Fwd("GETX", c, a),
         type \in {"WB_ACK", "WB_NACK"} => ~Fwd("WB_ACK", c, a) /\ ~Fwd("WB_NACK", c, a)
  PROVE  /\ ForwardOK'
         /\ \A t, b : \A e \in Cache : Fwd(t, e, b)' <=> Fwd(t, e, b) \/ (e = c /\ t = type /\ b = a)
         /\ \A b, w : \A e \in Cache :
              FwdFor(e, b, w)' <=> FwdFor(e, b, w) \/ (e = c /\ type = "GETX" /\ b = a /\ w = who)
<1>0. ForwardOK
  BY Zenon DEF Networks
<1> USE <1>0
<1> DEFINE m == [type |-> type, addr |-> a, who |-> who]
<1>1. m \in Message /\ m.type = type /\ m.addr = a /\ m.who = who
  BY Zenon DEF Message
<1>2. PICK i \in 1 .. Len(forward[c]) + 1 : forward' = [forward EXCEPT ![c] = Inserted(@, i, m)]
  BY Zenon DEF SendForward
<1> HIDE DEF m
<1>3. forward[c] \in Seq(Message) /\ Distinct(forward[c])
  BY Zenon DEF ForwardOK
<1>4. \A n \in In(forward[c]) : ~Rival(m, n) /\ ~Rival(n, m)
  BY Zenon, <1>1 DEF Rival, Fwd
<1>5. /\ Inserted(forward[c], i, m) \in Seq(Message)
      /\ In(Inserted(forward[c], i, m)) = In(forward[c]) \cup {m}
      /\ Distinct(Inserted(forward[c], i, m))
  BY Zenon, <1>1, <1>3, <1>4, InsertedProperties
<1>6. \A e \in Cache : forward'[e] = IF e = c THEN Inserted(forward[c], i, m) ELSE forward[e]
  BY Zenon, <1>2 DEF ForwardOK
<1>7. forward' \in [Cache -> Seq(Message)]
  BY Zenon, <1>2, <1>5 DEF ForwardOK
<1>8. \A e \in Cache : Distinct(forward'[e])
  BY Zenon, <1>5, <1>6 DEF ForwardOK
<1>9. \A e \in Cache : In(forward'[e]) = IF e = c THEN In(forward[e]) \cup {m} ELSE In(forward[e])
  BY Zenon, <1>5, <1>6
<1>10. \A t, b : \A e \in Cache : Fwd(t, e, b)' <=> Fwd(t, e, b) \/ (e = c /\ t = type /\ b = a)
  BY Zenon, <1>1, <1>9 DEF Fwd
<1>11. \A b, w : \A e \in Cache :
         FwdFor(e, b, w)' <=> FwdFor(e, b, w) \/ (e = c /\ type = "GETX" /\ b = a /\ w = who)
  <2>1. \A e \in Cache : \A n : n \in In(forward'[e]) <=> n \in In(forward[e]) \/ (e = c /\ n = m)
    BY Zenon, <1>9
  <2> QED BY Zenon, <1>1, <2>1 DEF FwdFor
<1> QED BY Zenon, <1>7, <1>8, <1>10, <1>11 DEF ForwardOK

(* The directory's forwarded GETX (f_forwardRequest). *)
LEMMA SentGetx ==
  ASSUME Networks, NEW c \in Cache, NEW a \in Addr, NEW who \in Cache,
         SendForward(c, "GETX", a, who), ~Fwd("GETX", c, a)
  PROVE  /\ ForwardOK'
         /\ \A t, b : \A e \in Cache : Fwd(t, e, b)' <=> Fwd(t, e, b) \/ (e = c /\ t = "GETX" /\ b = a)
         /\ \A b, w : \A e \in Cache :
              FwdFor(e, b, w)' <=> FwdFor(e, b, w) \/ (e = c /\ b = a /\ w = who)
  BY Sent

(* The invalidation for a DMA (inv_sendCacheInvalidate): nothing but an INV is added. *)
LEMMA SentInv ==
  ASSUME Networks, NEW c \in Cache, NEW a \in Addr, SendForward(c, "INV", a, NoOne)
  PROVE  /\ ForwardOK'
         /\ \A t, b : \A e \in Cache : t # "INV" => (Fwd(t, e, b)' <=> Fwd(t, e, b))
         /\ \A b, w : \A e \in Cache : FwdFor(e, b, w)' <=> FwdFor(e, b, w)
  BY Zenon, Sent

(* The directory's WB_ACK (l_sendWriteBackAck). *)
LEMMA SentAck ==
  ASSUME Networks, NEW c \in Cache, NEW a \in Addr,
         SendForward(c, "WB_ACK", a, c), ~Fwd("WB_ACK", c, a), ~Fwd("WB_NACK", c, a)
  PROVE  /\ ForwardOK'
         /\ \A t, b : \A e \in Cache : Fwd(t, e, b)' <=> Fwd(t, e, b) \/ (e = c /\ t = "WB_ACK" /\ b = a)
         /\ \A b, w : \A e \in Cache : FwdFor(e, b, w)' <=> FwdFor(e, b, w)
  BY Sent

(* The directory's WB_NACK (b_sendWriteBackNack). *)
LEMMA SentNack ==
  ASSUME Networks, NEW c \in Cache, NEW a \in Addr,
         SendForward(c, "WB_NACK", a, c), ~Fwd("WB_ACK", c, a), ~Fwd("WB_NACK", c, a)
  PROVE  /\ ForwardOK'
         /\ \A t, b : \A e \in Cache : Fwd(t, e, b)' <=> Fwd(t, e, b) \/ (e = c /\ t = "WB_NACK" /\ b = a)
         /\ \A b, w : \A e \in Cache : FwdFor(e, b, w)' <=> FwdFor(e, b, w)
  BY Sent

(***************************************************************************)
(* forwardRequestNetwork_in.dequeue() takes the head, which was of its     *)
(* kind the only message for the line, and nothing else.                   *)
(***************************************************************************)
LEMMA Popped ==
  ASSUME Networks, NEW c \in Cache, forward[c] # <<>>, PopForward(c)
  PROVE  LET h == Head(forward[c]) IN
         /\ h.type \in {"GETX", "INV", "WB_ACK", "WB_NACK"} /\ h.addr \in Addr
         /\ h.who \in Cache \cup {NoOne}
         /\ Fwd(h.type, c, h.addr)
         /\ h.type = "GETX" => FwdFor(c, h.addr, h.who) /\ h.who \in Cache
         /\ ForwardOK'
         /\ \A t, b : \A e \in Cache : t # "INV" =>
              (Fwd(t, e, b)' <=> Fwd(t, e, b) /\ ~(e = c /\ t = h.type /\ b = h.addr))
         /\ \A b, w : \A e \in Cache :
              FwdFor(e, b, w)' <=> FwdFor(e, b, w) /\ ~(e = c /\ h.type = "GETX" /\ b = h.addr)
         /\ \A b : h.type \in {"WB_ACK", "WB_NACK"} /\ b = h.addr =>
              ~Fwd("WB_ACK", c, b)' /\ ~Fwd("WB_NACK", c, b)'
<1>0. ForwardOK
  BY Zenon DEF Networks
<1> USE <1>0
<1> DEFINE h == Head(forward[c])
<1>1. forward[c] \in Seq(Message) /\ Distinct(forward[c])
  BY Zenon DEF ForwardOK
<1>2. /\ Tail(forward[c]) \in Seq(Message)
      /\ h \in In(forward[c]) /\ In(forward[c]) = In(Tail(forward[c])) \cup {h}
      /\ Distinct(Tail(forward[c]))
      /\ \A n \in In(Tail(forward[c])) : ~Rival(h, n)
  BY Zenon, <1>1, TailProperties
<1>3. h \in Message
  BY <1>1
<1>4. \A e \in Cache : forward'[e] = IF e = c THEN Tail(forward[c]) ELSE forward[e]
  BY Zenon DEF PopForward, ForwardOK
<1>5. forward' \in [Cache -> Seq(Message)]
  BY Zenon, <1>2 DEF PopForward, ForwardOK
<1> HIDE DEF h
<1>6. /\ h.type \in {"GETX", "INV", "WB_ACK", "WB_NACK"} /\ h.addr \in Addr
      /\ h.who \in Cache \cup {NoOne}
      /\ Fwd(h.type, c, h.addr)
      /\ h.type = "GETX" => FwdFor(c, h.addr, h.who) /\ h.who \in Cache
  BY Zenon, <1>2, <1>3 DEF Message, Fwd, FwdFor
<1>7. \A e \in Cache : Distinct(forward'[e])
  BY Zenon, <1>2, <1>4 DEF ForwardOK
<1>8. \A n : n \in In(forward[c]) <=> n \in In(forward'[c]) \/ n = h
  BY Zenon, <1>2, <1>4
<1>9. \A n \in In(forward'[c]) : ~Rival(h, n)
  BY Zenon, <1>2, <1>4
<1>10. \A e \in Cache : e # c => forward'[e] = forward[e]
  BY Zenon, <1>4
<1>11. ASSUME NEW t, NEW b, NEW e \in Cache, t # "INV"
       PROVE  Fwd(t, e, b)' <=> Fwd(t, e, b) /\ ~(e = c /\ t = h.type /\ b = h.addr)
  <2>1. CASE e # c
    BY Zenon, <2>1, <1>10 DEF Fwd
  <2>2. CASE e = c
    BY Zenon, <2>2, <1>6, <1>8, <1>9, <1>11 DEF Fwd, Rival
  <2> QED BY Zenon, <2>1, <2>2
<1>12. ASSUME NEW b, NEW w, NEW e \in Cache
       PROVE  FwdFor(e, b, w)' <=> FwdFor(e, b, w) /\ ~(e = c /\ h.type = "GETX" /\ b = h.addr)
  <2>1. CASE e # c
    BY Zenon, <2>1, <1>10 DEF FwdFor
  <2>2. CASE e = c
    BY Zenon, <2>2, <1>6, <1>8, <1>9 DEF FwdFor, Rival
  <2> QED BY Zenon, <2>1, <2>2
<1>13. ASSUME NEW b, h.type \in {"WB_ACK", "WB_NACK"}, b = h.addr
       PROVE  ~Fwd("WB_ACK", c, b)' /\ ~Fwd("WB_NACK", c, b)'
  <2>1. \A n \in In(forward'[c]) : n.addr = b => n.type \notin {"WB_ACK", "WB_NACK"}
    BY Zenon, <1>9, <1>13 DEF Rival
  <2> QED BY Zenon, <2>1 DEF Fwd
<1> QED BY <1>5, <1>6, <1>7, <1>11, <1>12, <1>13 DEF ForwardOK, h

(* A request of a cache that has none for the line (a_issueRequest, b_issuePUT). *)
LEMMA RequestAdded ==
  ASSUME Networks, NEW type \in {"GETX", "PUTX"}, NEW c \in Cache, NEW a \in Addr, NEW r,
         requests' = requests \cup {r},
         r.type = type, r.who = c, r.addr = a, r.data \in Value,
         \A m \in requests : ~(m.who = c /\ m.addr = a)
  PROVE  /\ RequestsOK'
         /\ \A t, e : Req(t, e, a)' <=> Req(t, e, a) \/ (t = type /\ e = c)
  BY Zenon DEF Networks, RequestsOK, Req

(* requestQueue_in.dequeue() takes the only request of its sender for the line. *)
LEMMA RequestRemoved ==
  ASSUME Networks, NEW m \in requests, requests' = requests \ {m}
  PROVE  /\ RequestsOK' /\ Req(m.type, m.who, m.addr)
         /\ \A t, e, b : Req(t, e, b)' <=> Req(t, e, b) /\ ~(e = m.who /\ b = m.addr)
         /\ \A n : n \in requests' <=> n \in requests /\ n # m
  BY Zenon DEF Networks, RequestsOK, Req

(* A block sent to a cache when no other is on its way (e_sendData, d_sendData). *)
LEMMA ResponseAdded ==
  ASSUME Networks, NEW w \in Cache, NEW a \in Addr, NEW r, responses' = responses \cup {r},
         r.dest = w, r.addr = a, r.data \in Value, \A m \in responses : m.addr # a
  PROVE  /\ ResponsesOK'
         /\ \A e : Resp(e, a)' <=> Resp(e, a) \/ e = w
  BY Zenon DEF Networks, ResponsesOK, Resp

(* responseNetwork_in.dequeue() takes the only block of the line on its way. *)
LEMMA ResponseRemoved ==
  ASSUME Networks, NEW m \in responses, responses' = responses \ {m}
  PROVE  /\ ResponsesOK' /\ Resp(m.dest, m.addr)
         /\ \A e, b : Resp(e, b)' <=> Resp(e, b) /\ ~(b = m.addr)
         /\ \A n : n \in responses' <=> n \in responses /\ n # m
  BY Zenon DEF Networks, ResponsesOK, Resp

(***************************************************************************)
(* A request of a DMA controller that has none for the line                *)
(* (s_sendReadRequest, s_sendWriteRequest).                                *)
(***************************************************************************)
LEMMA DmaReqAdded ==
  ASSUME Networks, NEW type \in {"READ", "WRITE"}, NEW d \in Dma, NEW a \in Addr, NEW r,
         dmaReqs' = dmaReqs \cup {r},
         r.type = type, r.who = d, r.addr = a, r.data \in Value,
         \A m \in dmaReqs : ~(m.who = d /\ m.addr = a)
  PROVE  /\ DmaReqsOK'
         /\ \A t, z : DmaReq(t, z, a)' <=> DmaReq(t, z, a) \/ (t = type /\ z = d)
  BY Zenon DEF Networks, DmaReqsOK, DmaReq

(* dmaRequestQueue_in.dequeue() takes the only request of its DMA controller for the line. *)
LEMMA DmaReqRemoved ==
  ASSUME Networks, NEW m \in dmaReqs, dmaReqs' = dmaReqs \ {m}
  PROVE  /\ DmaReqsOK' /\ DmaReq(m.type, m.who, m.addr)
         /\ \A t, e, b : DmaReq(t, e, b)' <=> DmaReq(t, e, b) /\ ~(e = m.who /\ b = m.addr)
         /\ \A n : n \in dmaReqs' <=> n \in dmaReqs /\ n # m
  BY Zenon DEF Networks, DmaReqsOK, DmaReq

(***************************************************************************)
(* An answer to a DMA controller that has none for the line on its way     *)
(* (dr_sendDMAData, da_sendDMAAck).                                        *)
(***************************************************************************)
LEMMA DmaRespAdded ==
  ASSUME Networks, NEW type \in {"DATA", "ACK"}, NEW w \in Dma, NEW a \in Addr, NEW r,
         dmaResps' = dmaResps \cup {r},
         r.type = type, r.dest = w, r.addr = a, r.data \in Value,
         \A m \in dmaResps : ~(m.dest = w /\ m.addr = a)
  PROVE  /\ DmaRespsOK'
         /\ \A t, z : DmaResp(t, z, a)' <=> DmaResp(t, z, a) \/ (t = type /\ z = w)
  BY Zenon DEF Networks, DmaRespsOK, DmaResp

(* dmaResponseQueue_in.dequeue() takes the only answer of the line to its DMA controller. *)
LEMMA DmaRespRemoved ==
  ASSUME Networks, NEW m \in dmaResps, dmaResps' = dmaResps \ {m}
  PROVE  /\ DmaRespsOK' /\ DmaResp(m.type, m.dest, m.addr)
         /\ \A t, e, b : DmaResp(t, e, b)' <=> DmaResp(t, e, b) /\ ~(e = m.dest /\ b = m.addr)
         /\ \A n : n \in dmaResps' <=> n \in dmaResps /\ n # m
  BY Zenon DEF Networks, DmaRespsOK, DmaResp

(* A write makes v the line's latest value, and one that every DMA read in progress may return. *)
LEMMA WrittenHistory ==
  ASSUME Types, NEW a \in Addr, LineOK(a), NEW v \in Value, Written(a, v)
  PROVE  /\ latest' \in [Addr -> Value] /\ seen' \in [Dma -> [Addr -> SUBSET Value]]
         /\ \A b \in Addr : latest'[b] = IF b = a THEN v ELSE latest[b]
         /\ \A z \in Dma, b \in Addr : seen[z][b] \subseteq seen'[z][b] /\ (b # a => seen'[z][b] = seen[z][b])
         /\ \A z \in Dma : dma[z][a] = "BUSY_RD" => latest'[a] \in seen'[z][a]
<1>1. latest' \in [Addr -> Value] /\ \A b \in Addr : latest'[b] = IF b = a THEN v ELSE latest[b]
  BY Zenon DEF Written, Types
<1>2. \A z \in Dma : seen[z] \in [Addr -> SUBSET Value]
  BY Zenon DEF Types
<1>3. \A z \in Dma, b \in Addr : seen'[z][b] =
        IF b = a /\ dma[z][a] = "BUSY_RD" THEN seen[z][b] \cup {v} ELSE seen[z][b]
  BY Zenon, <1>2 DEF Written
<1>4. seen' \in [Dma -> [Addr -> SUBSET Value]]
  BY Zenon, <1>2 DEF Written
<1>5. \A z \in Dma : dma[z][a] = "BUSY_RD" => latest[a] \in seen[z][a]
  BY Zenon DEF LineOK, SeenOK
<1> QED BY Zenon, <1>1, <1>3, <1>4, <1>5

(* A step that writes nothing leaves the histories as they are. *)
LEMMA SameHistory ==
  ASSUME Types, NEW a \in Addr, LineOK(a), NEW v, v = latest[a], UNCHANGED history
  PROVE  /\ latest' \in [Addr -> Value] /\ seen' \in [Dma -> [Addr -> SUBSET Value]]
         /\ \A b \in Addr : latest'[b] = IF b = a THEN v ELSE latest[b]
         /\ \A z \in Dma, b \in Addr : seen[z][b] \subseteq seen'[z][b] /\ (b # a => seen'[z][b] = seen[z][b])
         /\ \A z \in Dma : dma[z][a] = "BUSY_RD" => latest'[a] \in seen'[z][a]
<1>1. latest' = latest /\ seen' = seen
  BY Zenon DEF history
<1>2. latest \in [Addr -> Value] /\ seen \in [Dma -> [Addr -> SUBSET Value]]
  BY Zenon DEF Types
<1>3. \A z \in Dma : dma[z][a] = "BUSY_RD" => latest[a] \in seen[z][a]
  BY Zenon DEF LineOK, SeenOK
<1> QED BY Zenon, <1>1, <1>2, <1>3

(* A step that leaves everything about line b alone leaves what the invariant says of b true. *)
LEMMA UntouchedLine ==
  ASSUME IInv, NEW b \in Addr, SameLine(b)
  PROVE  LineOK(b)'
<1>1. /\ \A e \in Cache : cstate'[e][b] = cstate[e][b] /\ cdata'[e][b] = cdata[e][b]
      /\ dstate'[b] = dstate[b] /\ owner'[b] = owner[b] /\ tbe'[b] = tbe[b]
      /\ memq'[b] = memq[b] /\ mem'[b] = mem[b] /\ latest'[b] = latest[b]
      /\ \A d \in Dma : dma'[d][b] = dma[d][b] /\ seen'[d][b] = seen[d][b]
  BY Zenon DEF SameLine
<1>2. /\ \A m : m.addr = b => /\ m \in requests' <=> m \in requests
                              /\ m \in responses' <=> m \in responses
                              /\ m \in dmaReqs' <=> m \in dmaReqs
                              /\ m \in dmaResps' <=> m \in dmaResps
  BY Zenon DEF SameLine
<1>3. /\ \A e \in Cache : \A t : t # "INV" => (Fwd(t, e, b)' <=> Fwd(t, e, b))
      /\ \A e \in Cache : \A w : FwdFor(e, b, w)' <=> FwdFor(e, b, w)
  BY Zenon DEF SameLine
<1>4. /\ \A t, e : Req(t, e, b)' <=> Req(t, e, b)
      /\ \A e : Resp(e, b)' <=> Resp(e, b)
      /\ \A t, e : DmaReq(t, e, b)' <=> DmaReq(t, e, b)
      /\ \A t, e : DmaResp(t, e, b)' <=> DmaResp(t, e, b)
  BY Zenon, <1>2 DEF Req, Resp, DmaReq, DmaResp
<1>5. \A m \in requests : m.who \in Cache
  BY Zenon DEF IInv, Networks, RequestsOK
<1>6. LineOK(b)
  BY Zenon DEF IInv
<1>7. DirOK(b)'
  BY Zenon, <1>1, <1>6 DEF LineOK, DirOK
<1>8. \A e \in Cache : Holds(e, b)' <=> Holds(e, b)
  BY Zenon, <1>1, <1>3 DEF Holds
<1>9. ValueOK(b)'
  BY Zenon, <1>1, <1>2, <1>5, <1>6, <1>8 DEF LineOK, ValueOK, PutOK
<1>10. ASSUME NEW e \in Cache PROVE CacheOK(e, b)'
  <2>1. CacheOK(e, b)
    BY Zenon, <1>6 DEF LineOK
  <2> QED BY Zenon, <1>1, <1>3, <1>4, <2>1 DEF CacheOK, Accepted
<1>11. ASSUME NEW e \in Cache PROVE MissOK(e, b)'
  <2>1. MissOK(e, b)
    BY Zenon, <1>6 DEF LineOK
  <2> QED BY Zenon, <1>1, <1>3, <1>4, <2>1 DEF MissOK
<1>12. ASSUME NEW e \in Cache PROVE TokenOK(e, b)'
  BY Zenon, <1>1, <1>4, <1>6, <1>8 DEF LineOK, TokenOK, Below
<1>13. ASSUME NEW d \in Dma PROVE DmaOK(d, b)'
  BY ZenonT(40), <1>1, <1>4, <1>6 DEF LineOK, DmaOK, ReadingFor, WritingFor
<1>14. ASSUME NEW d \in Dma PROVE SeenOK(d, b)'
  BY Zenon, <1>1, <1>2, <1>6 DEF LineOK, SeenOK
<1> QED BY Zenon, <1>7, <1>9, <1>10, <1>11, <1>12, <1>13, <1>14 DEF LineOK

(* A network that a step leaves alone is still in order, and carries the same messages. *)
LEMMA SameNetworks ==
  ASSUME Networks
  PROVE  /\ requests' = requests => /\ RequestsOK'
                                    /\ \A t, e, b : Req(t, e, b)' <=> Req(t, e, b)
         /\ forward' = forward => /\ ForwardOK'
                                  /\ \A t, e, b : Fwd(t, e, b)' <=> Fwd(t, e, b)
                                  /\ \A e, b, w : FwdFor(e, b, w)' <=> FwdFor(e, b, w)
         /\ responses' = responses => /\ ResponsesOK'
                                      /\ \A e, b : Resp(e, b)' <=> Resp(e, b)
         /\ dmaReqs' = dmaReqs => /\ DmaReqsOK'
                                  /\ \A t, z, b : DmaReq(t, z, b)' <=> DmaReq(t, z, b)
         /\ dmaResps' = dmaResps => /\ DmaRespsOK'
                                    /\ \A t, z, b : DmaResp(t, z, b)' <=> DmaResp(t, z, b)
<1>1. requests' = requests => RequestsOK' /\ \A t, e, b : Req(t, e, b)' <=> Req(t, e, b)
  BY Zenon DEF Networks, RequestsOK, Req
<1>2. forward' = forward => /\ ForwardOK'
                            /\ \A t, e, b : Fwd(t, e, b)' <=> Fwd(t, e, b)
                            /\ \A e, b, w : FwdFor(e, b, w)' <=> FwdFor(e, b, w)
  BY Zenon DEF Networks, ForwardOK, Fwd, FwdFor
<1>3. responses' = responses => ResponsesOK' /\ \A e, b : Resp(e, b)' <=> Resp(e, b)
  BY Zenon DEF Networks, ResponsesOK, Resp
<1>4. dmaReqs' = dmaReqs => DmaReqsOK' /\ \A t, z, b : DmaReq(t, z, b)' <=> DmaReq(t, z, b)
  BY Zenon DEF Networks, DmaReqsOK, DmaReq
<1>5. dmaResps' = dmaResps => DmaRespsOK' /\ \A t, z, b : DmaResp(t, z, b)' <=> DmaResp(t, z, b)
  BY Zenon DEF Networks, DmaRespsOK, DmaResp
<1> QED BY Zenon, <1>1, <1>2, <1>3, <1>4, <1>5

(***************************************************************************)
(* What a step leaves alone of the directory's and the DMA controllers'    *)
(* view of a line stays true.                                              *)
(***************************************************************************)
LEMMA SameParts ==
  ASSUME NEW a \in Addr, LineOK(a)
  PROVE  /\ dstate' = dstate /\ owner' = owner /\ memq' = memq /\ tbe' = tbe => DirOK(a)'
         /\ /\ \A z \in Dma : ReadingFor(z, a)' = ReadingFor(z, a) /\ WritingFor(z, a)' = WritingFor(z, a)
            /\ dma' = dma /\ dmaReqs' = dmaReqs /\ dmaResps' = dmaResps
            => \A z \in Dma : DmaOK(z, a)'
         /\ dma' = dma /\ dmaResps' = dmaResps /\ latest' = latest /\ seen' = seen => \A z \in Dma : SeenOK(z, a)'
<1>1. dstate' = dstate /\ owner' = owner /\ memq' = memq /\ tbe' = tbe => DirOK(a)'
  BY Zenon DEF LineOK, DirOK
<1>2. /\ \A z \in Dma : ReadingFor(z, a)' = ReadingFor(z, a) /\ WritingFor(z, a)' = WritingFor(z, a)
      /\ dma' = dma /\ dmaReqs' = dmaReqs /\ dmaResps' = dmaResps
      => \A z \in Dma : DmaOK(z, a)'
  BY Zenon DEF LineOK, DmaOK, DmaReq, DmaResp
<1>3. dma' = dma /\ dmaResps' = dmaResps /\ latest' = latest /\ seen' = seen => \A z \in Dma : SeenOK(z, a)'
  BY Zenon DEF LineOK, SeenOK
<1> QED BY Zenon, <1>1, <1>2, <1>3

(* A step that only the DMA controllers see keeps what concerns the caches and the directory. *)
LEMMA CacheSame ==
  ASSUME NEW a \in Addr, LineOK(a), Networks, cstate' = cstate, cdata' = cdata, requests' = requests,
         forward' = forward,
         responses' = responses, dstate' = dstate, owner' = owner, tbe' = tbe, memq' = memq, mem' = mem,
         latest' = latest
  PROVE  /\ DirOK(a)' /\ ValueOK(a)'
         /\ \A e \in Cache : CacheOK(e, a)' /\ MissOK(e, a)' /\ TokenOK(e, a)'
<1>2. /\ \A t, e : Req(t, e, a)' <=> Req(t, e, a)
      /\ \A t, e : Fwd(t, e, a)' <=> Fwd(t, e, a)
      /\ \A e, w : FwdFor(e, a, w)' <=> FwdFor(e, a, w)
      /\ \A e : Resp(e, a)' <=> Resp(e, a)
  BY Zenon DEF Req, Fwd, FwdFor, Resp
<1>3. \A e \in Cache : Holds(e, a)' <=> Holds(e, a)
  BY Zenon, <1>2 DEF Holds
<1>4. DirOK(a)' /\ ValueOK(a)'
  BY Zenon, <1>3 DEF LineOK, DirOK, ValueOK, PutOK
<1>5. ASSUME NEW e \in Cache PROVE CacheOK(e, a)'
  BY Zenon, <1>2 DEF LineOK, CacheOK, Accepted
<1>6. ASSUME NEW e \in Cache PROVE MissOK(e, a)'
  BY Zenon, <1>2 DEF LineOK, MissOK
<1>7. ASSUME NEW e \in Cache PROVE TokenOK(e, a)'
  BY Zenon, <1>2, <1>3 DEF LineOK, TokenOK, Below
<1> QED BY Zenon, <1>4, <1>5, <1>6, <1>7

(* A step that is about one line, and keeps the invariant there, keeps it everywhere. *)
LEMMA OtherLines ==
  ASSUME IInv, NEW a \in Addr, Kept(a)
  PROVE  IInv'
  BY Zenon, UntouchedLine DEF IInv, Kept, OnlyLine

-----------------------------------------------------------------------------
(* The cache controllers. *)

(***************************************************************************)
(* A load or store miss (I Load, I Store) asks for the line: no earlier    *)
(* request, forward or response of this cache for the line is left.        *)
(***************************************************************************)
LEMMA MissStep ==
  ASSUME NEW a \in Addr, Types, Networks, LineOK(a), NEW c \in Cache, NEW s \in {"IS", "IM"},
         Miss(c, a, s)
  PROVE  Kept(a)
<1>1. CacheOK(c, a) /\ MissOK(c, a)
  BY Zenon DEF LineOK
<1>2. /\ cdata' = cdata /\ forward' = forward /\ responses' = responses /\ dstate' = dstate
      /\ owner' = owner /\ tbe' = tbe /\ memq' = memq /\ mem' = mem /\ dma' = dma
      /\ dmaReqs' = dmaReqs /\ dmaResps' = dmaResps /\ latest' = latest /\ seen' = seen
  BY Zenon DEF Miss, dirVars, dmaVars, history
<1>T. cstate' \in [Cache -> [Addr -> CacheState]]
  BY Zenon, <1>2 DEF Miss, Types, CacheState, dirVars, dmaVars, history
<1>3. /\ cstate[c][a] = "I"
      /\ \A e \in Cache : cstate'[e][a] = IF e = c THEN s ELSE cstate[e][a]
      /\ dstate'[a] = dstate[a] /\ owner'[a] = owner[a] /\ memq'[a] = memq[a]
      /\ cdata' = cdata /\ responses' = responses /\ latest' = latest /\ mem' = mem
  BY Zenon, <1>2 DEF Miss, Types, CacheState, dirVars, dmaVars, history
<1>4. /\ \A n \in requests : n.type \in {"GETX", "PUTX"} /\ n.who \in Cache /\ Req(n.type, n.who, n.addr)
      /\ \A n \in responses : n.dest \in Cache /\ Resp(n.dest, n.addr)
  BY Zenon, MessageViews
<1>5. \A m \in requests : ~(m.who = c /\ m.addr = a)
  BY Zenon, <1>4, <1>1, <1>3 DEF CacheOK
<1> DEFINE r == [type |-> "GETX", addr |-> a, who |-> c, data |-> InitValue]
<1>6. /\ requests' = requests \cup {r} /\ r.type = "GETX" /\ r.who = c /\ r.addr = a
      /\ r.data = InitValue /\ r.data \in Value
  BY Zenon, InitValueType DEF Types, Miss
<1> HIDE DEF r
<1>7. \A m : m \in requests' <=> m \in requests \/ m = r
  BY Zenon, <1>6
<1>8. /\ RequestsOK'
      /\ \A t, e : Req(t, e, a)' <=> Req(t, e, a) \/ (t = "GETX" /\ e = c)
  BY <1>6, <1>5, RequestAdded
<1>9. /\ ForwardOK'
      /\ \A t, e, b : Fwd(t, e, b)' <=> Fwd(t, e, b)
      /\ \A e, b, w : FwdFor(e, b, w)' <=> FwdFor(e, b, w)
      /\ ResponsesOK'
      /\ \A e, b : Resp(e, b)' <=> Resp(e, b)
      /\ DmaReqsOK' /\ DmaRespsOK'
      /\ \A t, z, b : DmaReq(t, z, b)' <=> DmaReq(t, z, b)
      /\ \A t, z, b : DmaResp(t, z, b)' <=> DmaResp(t, z, b)
  BY Zenon, <1>2, SameNetworks
<1>10. \A e \in Cache : Holds(e, a)' => Holds(e, a)
  BY Zenon, <1>3, <1>9 DEF Holds
<1>11. OnlyLine(a)
  BY Zenon, <1>2, <1>6, <1>7, <1>8, <1>9 DEF OnlyLine, SameLine, Types, Miss
<1>12. Types'
  BY Zenon, <1>2, <1>T DEF Types
<1>13. /\ DirOK(a)'
       /\ \A z \in Dma : DmaOK(z, a)'
       /\ \A z \in Dma : SeenOK(z, a)'
  BY Zenon, <1>2, <1>3, SameParts DEF ReadingFor, WritingFor
<1>14. ValueOK(a)'
  <2>1. PutOK(a)'
    <3> SUFFICES ASSUME NEW n \in requests', n.addr = a, n.type = "PUTX", cstate'[n.who][a] = "MI"
                 PROVE  n.data = cdata'[n.who][a]
      BY Zenon DEF PutOK
    <3>1. n \in requests /\ n.who \in Cache /\ n.who # c
      BY Zenon, <1>4, <1>5, <1>6, <1>7
    <3>2. cstate[n.who][a] = "MI" /\ cdata'[n.who][a] = cdata[n.who][a]
      BY Zenon, <3>1, <1>3
    <3> QED BY Zenon, <3>1, <3>2 DEF LineOK, ValueOK, PutOK
  <2> QED BY Zenon, <2>1, <1>3, <1>10 DEF LineOK, ValueOK
<1>15. ASSUME NEW e \in Cache PROVE CacheOK(e, a)' /\ MissOK(e, a)' /\ TokenOK(e, a)'
  <2>1. CacheOK(e, a) /\ MissOK(e, a) /\ TokenOK(e, a)
    BY Zenon DEF LineOK
  <2> USE <2>1, <1>3, <1>8, <1>9
  <2>2. CacheOK(e, a)'
    BY Zenon, <1>1 DEF CacheOK, Accepted, MissOK
  <2>3. MissOK(e, a)'
    BY Zenon DEF MissOK
  <2>4. TokenOK(e, a)'
    BY Zenon, <1>10 DEF TokenOK, Below
  <2> QED BY Zenon, <2>2, <2>3, <2>4
<1> QED BY Zenon, <1>12, <1>11, <1>13, <1>14, <1>15, <1>8, <1>9 DEF Kept, LineOK, Networks

(***************************************************************************)
(* A store hit (M Store) writes the block; the cache is the only holder,   *)
(* so no stale copy of the line can be served.                             *)
(***************************************************************************)
LEMMA StoreHitStep ==
  ASSUME NEW a \in Addr, Types, Networks, LineOK(a), NEW c \in Cache, NEW v \in Value, StoreHit(c, a, v)
  PROVE  Kept(a)
<1>1. TokenOK(c, a)
  BY Zenon DEF LineOK
<1>2. /\ cstate' = cstate /\ requests' = requests /\ forward' = forward /\ responses' = responses
      /\ dstate' = dstate /\ owner' = owner /\ tbe' = tbe /\ memq' = memq /\ mem' = mem
      /\ dma' = dma /\ dmaReqs' = dmaReqs /\ dmaResps' = dmaResps
  BY Zenon DEF StoreHit, dirVars, dmaVars, netVars
<1>T. cdata' \in [Cache -> [Addr -> Value]]
  BY Zenon, <1>2 DEF StoreHit, Types, dirVars, dmaVars, netVars
<1>3. /\ cstate[c][a] = "M" /\ cstate' = cstate
      /\ dstate'[a] = dstate[a] /\ owner'[a] = owner[a] /\ memq'[a] = memq[a]
      /\ \A e \in Cache : cdata'[e][a] = IF e = c THEN v ELSE cdata[e][a]
      /\ responses' = responses /\ requests' = requests /\ mem' = mem /\ dma' = dma
      /\ dmaResps' = dmaResps
  BY Zenon, <1>2 DEF StoreHit, Types, dirVars, dmaVars, netVars
<1>4. /\ latest' \in [Addr -> Value] /\ seen' \in [Dma -> [Addr -> SUBSET Value]]
      /\ \A b \in Addr : latest'[b] = IF b = a THEN v ELSE latest[b]
      /\ \A z \in Dma, b \in Addr : seen[z][b] \subseteq seen'[z][b] /\ (b # a => seen'[z][b] = seen[z][b])
      /\ \A z \in Dma : dma[z][a] = "BUSY_RD" => latest'[a] \in seen'[z][a]
  BY Zenon, WrittenHistory DEF StoreHit
<1>5. /\ \A n \in requests : n.type \in {"GETX", "PUTX"} /\ n.who \in Cache /\ Req(n.type, n.who, n.addr)
      /\ \A n \in responses : n.dest \in Cache /\ Resp(n.dest, n.addr)
  BY Zenon, MessageViews
<1>6. \A m \in responses : m.addr # a
  BY Zenon, <1>5, <1>1, <1>3 DEF TokenOK, Holds
<1>7. /\ RequestsOK'
      /\ \A t, e, b : Req(t, e, b)' <=> Req(t, e, b)
      /\ ForwardOK'
      /\ \A t, e, b : Fwd(t, e, b)' <=> Fwd(t, e, b)
      /\ \A e, b, w : FwdFor(e, b, w)' <=> FwdFor(e, b, w)
      /\ ResponsesOK'
      /\ \A e, b : Resp(e, b)' <=> Resp(e, b)
      /\ DmaReqsOK' /\ DmaRespsOK'
      /\ \A t, z, b : DmaReq(t, z, b)' <=> DmaReq(t, z, b)
      /\ \A t, z, b : DmaResp(t, z, b)' <=> DmaResp(t, z, b)
  BY Zenon, <1>2, SameNetworks
<1>8. \A e \in Cache : Holds(e, a)' => Holds(e, a)
  BY Zenon, <1>3, <1>7 DEF Holds
<1>9. Holds(c, a) /\ \A e \in Cache : Holds(e, a) => e = c
  BY Zenon, <1>3, <1>1 DEF Holds, TokenOK
<1>10. OnlyLine(a)
  BY ZenonT(40), <1>2, <1>4, <1>7 DEF OnlyLine, SameLine, Types, StoreHit
<1>11. Types'
  BY Zenon, <1>2, <1>4, <1>T DEF Types
<1>12. /\ DirOK(a)'
       /\ \A z \in Dma : DmaOK(z, a)'
  BY Zenon, <1>2, <1>7, SameParts DEF ReadingFor, WritingFor
<1>13. ValueOK(a)'
  <2>1. PutOK(a)'
    <3> SUFFICES ASSUME NEW n \in requests', n.addr = a, n.type = "PUTX", cstate'[n.who][a] = "MI"
                 PROVE  n.data = cdata'[n.who][a]
      BY Zenon DEF PutOK
    <3>1. n \in requests /\ n.who \in Cache /\ n.who # c
      BY Zenon, <1>3, <1>5
    <3>2. cstate[n.who][a] = "MI" /\ cdata'[n.who][a] = cdata[n.who][a]
      BY Zenon, <3>1, <1>3
    <3> QED BY Zenon, <3>1, <3>2 DEF LineOK, ValueOK, PutOK
  <2>2. latest'[a] = v /\ dstate[a] # "I" /\ memq[a].type = "None"
    BY Zenon, <1>1, <1>4, <1>9 DEF LineOK, TokenOK, Below, DirOK
  <2> QED BY Zenon, <2>1, <2>2, <1>3, <1>6, <1>8, <1>9 DEF ValueOK
<1>14. ASSUME NEW e \in Cache PROVE CacheOK(e, a)' /\ MissOK(e, a)' /\ TokenOK(e, a)'
  <2>1. CacheOK(e, a) /\ MissOK(e, a) /\ TokenOK(e, a)
    BY Zenon DEF LineOK
  <2> USE <2>1, <1>3, <1>7
  <2>2. CacheOK(e, a)'
    BY Zenon DEF CacheOK, Accepted
  <2>3. MissOK(e, a)'
    BY Zenon DEF MissOK
  <2>4. TokenOK(e, a)'
    BY Zenon, <1>8 DEF TokenOK, Below
  <2> QED BY Zenon, <2>2, <2>3, <2>4
<1>15. ASSUME NEW z \in Dma PROVE SeenOK(z, a)'
  BY Zenon, <1>3, <1>4, <1>7 DEF LineOK, SeenOK
<1> QED BY Zenon, <1>11, <1>10, <1>12, <1>13, <1>14, <1>15, <1>7 DEF Kept, LineOK, Networks

(***************************************************************************)
(* A replacement or an invalidation of an M line (M Replacement, M Inv)    *)
(* sends the block and keeps it in MI until it is answered.                *)
(***************************************************************************)
LEMMA EvictStep ==
  ASSUME NEW a \in Addr, Types, Networks, LineOK(a), NEW c \in Cache, Evict(c, a), CacheOnly
  PROVE  Kept(a)
<1>1. CacheOK(c, a)
  BY Zenon DEF LineOK
<1>2. /\ cdata' = cdata /\ forward' = forward /\ responses' = responses /\ dstate' = dstate
      /\ owner' = owner /\ tbe' = tbe /\ memq' = memq /\ mem' = mem /\ dma' = dma
      /\ dmaReqs' = dmaReqs /\ dmaResps' = dmaResps /\ latest' = latest /\ seen' = seen
  BY Zenon DEF Evict, dirVars, dmaVars, history, CacheOnly
<1>T. cstate' \in [Cache -> [Addr -> CacheState]]
  BY Zenon, <1>2 DEF Evict, Types, CacheState, dirVars, dmaVars, history
<1>3. /\ cstate[c][a] = "M"
      /\ \A e \in Cache : cstate'[e][a] = IF e = c THEN "MI" ELSE cstate[e][a]
      /\ dstate'[a] = dstate[a] /\ owner'[a] = owner[a] /\ memq'[a] = memq[a]
      /\ cdata' = cdata /\ responses' = responses /\ latest' = latest /\ mem' = mem
  BY Zenon, <1>2 DEF Evict, Types, CacheState, dirVars, dmaVars, history
<1>4. /\ \A n \in requests : n.type \in {"GETX", "PUTX"} /\ n.who \in Cache /\ Req(n.type, n.who, n.addr)
      /\ \A n \in responses : n.dest \in Cache /\ Resp(n.dest, n.addr)
  BY Zenon, MessageViews
<1>5. \A m \in requests : ~(m.who = c /\ m.addr = a)
  BY Zenon, <1>4, <1>1, <1>3 DEF CacheOK
<1> DEFINE r == [type |-> "PUTX", addr |-> a, who |-> c, data |-> cdata[c][a]]
<1>6. /\ requests' = requests \cup {r} /\ r.type = "PUTX" /\ r.who = c /\ r.addr = a
      /\ r.data = cdata[c][a] /\ r.data \in Value
  BY Zenon, InitValueType DEF Types, Evict
<1> HIDE DEF r
<1>7. \A m : m \in requests' <=> m \in requests \/ m = r
  BY Zenon, <1>6
<1>8. /\ RequestsOK'
      /\ \A t, e : Req(t, e, a)' <=> Req(t, e, a) \/ (t = "PUTX" /\ e = c)
  BY <1>6, <1>5, RequestAdded
<1>9. /\ ForwardOK'
      /\ \A t, e, b : Fwd(t, e, b)' <=> Fwd(t, e, b)
      /\ \A e, b, w : FwdFor(e, b, w)' <=> FwdFor(e, b, w)
      /\ ResponsesOK'
      /\ \A e, b : Resp(e, b)' <=> Resp(e, b)
      /\ DmaReqsOK' /\ DmaRespsOK'
      /\ \A t, z, b : DmaReq(t, z, b)' <=> DmaReq(t, z, b)
      /\ \A t, z, b : DmaResp(t, z, b)' <=> DmaResp(t, z, b)
  BY Zenon, <1>2, SameNetworks
<1>10. \A e \in Cache : Holds(e, a)' => Holds(e, a)
  BY Zenon, <1>3, <1>9 DEF Holds
<1>11. OnlyLine(a)
  BY Zenon, <1>2, <1>6, <1>7, <1>8, <1>9 DEF OnlyLine, SameLine, Types, Evict
<1>12. Types'
  BY Zenon, <1>2, <1>T DEF Types
<1>13. /\ DirOK(a)'
       /\ \A z \in Dma : DmaOK(z, a)'
       /\ \A z \in Dma : SeenOK(z, a)'
  BY Zenon, <1>2, <1>3, SameParts DEF ReadingFor, WritingFor
<1>14. ValueOK(a)'
  <2>1. PutOK(a)'
    <3> SUFFICES ASSUME NEW n \in requests, n.addr = a, n.type = "PUTX", cstate'[n.who][a] = "MI"
                 PROVE  n.data = cdata[n.who][a]
      BY Zenon, <1>3, <1>6, <1>7 DEF PutOK
    <3>1. n.who \in Cache /\ n.who # c
      BY Zenon, <1>4, <1>5
    <3>2. cstate[n.who][a] = "MI"
      BY Zenon, <3>1, <1>3
    <3> QED BY Zenon, <3>1, <3>2 DEF LineOK, ValueOK, PutOK
  <2> QED BY Zenon, <2>1, <1>3, <1>10 DEF LineOK, ValueOK
<1>15. ASSUME NEW e \in Cache PROVE CacheOK(e, a)' /\ MissOK(e, a)' /\ TokenOK(e, a)'
  <2>1. CacheOK(e, a) /\ MissOK(e, a) /\ TokenOK(e, a)
    BY Zenon DEF LineOK
  <2> USE <2>1, <1>3, <1>8, <1>9
  <2>2. CacheOK(e, a)'
    BY DEF CacheOK, Accepted
  <2>3. MissOK(e, a)'
    BY Zenon DEF MissOK
  <2>4. TokenOK(e, a)'
    BY Zenon, <1>10 DEF TokenOK, Below
  <2> QED BY Zenon, <2>2, <2>3, <2>4
<1> QED BY Zenon, <1>12, <1>11, <1>13, <1>14, <1>15, <1>8, <1>9 DEF Kept, LineOK, Networks

(***************************************************************************)
(* The block arrives for a miss (IS Data, IM Data): it is the latest one   *)
(* and nobody else holds the line.                                         *)
(***************************************************************************)
LEMMA DataStep ==
  ASSUME NEW a \in Addr, Types, Networks, LineOK(a), NEW c \in Cache, NEW m \in responses,
         m.dest = c, m.addr = a, TakeData(c, m)
  PROVE  Kept(a)
<1>1. CacheOK(c, a) /\ MissOK(c, a) /\ TokenOK(c, a)
  BY Zenon DEF LineOK
<1>2. PICK v \in Value :
        /\ cstate[c][a] \in {"IS", "IM"} /\ cstate' = [cstate EXCEPT ![c][a] = "M"]
        /\ cdata' = [cdata EXCEPT ![c][a] = v]
        /\ (v = m.data /\ UNCHANGED history) \/ Written(a, v)
        /\ responses' = responses \ {m}
        /\ requests' = requests /\ forward' = forward /\ dstate' = dstate /\ owner' = owner
        /\ tbe' = tbe /\ memq' = memq /\ mem' = mem /\ dma' = dma /\ dmaReqs' = dmaReqs
        /\ dmaResps' = dmaResps
  BY Zenon DEF Networks, TakeData, ResponsesOK, dirVars, dmaVars
<1>T. /\ cstate' \in [Cache -> [Addr -> CacheState]] /\ cdata' \in [Cache -> [Addr -> Value]]
  BY Zenon, <1>2 DEF Types, CacheState
<1>3. /\ cstate[c][a] \in {"IS", "IM"}
      /\ \A e \in Cache : cstate'[e][a] = IF e = c THEN "M" ELSE cstate[e][a]
      /\ dstate'[a] = dstate[a] /\ owner'[a] = owner[a] /\ memq'[a] = memq[a]
      /\ \A e \in Cache : cdata'[e][a] = IF e = c THEN v ELSE cdata[e][a]
      /\ requests' = requests /\ mem' = mem /\ dma' = dma /\ dmaResps' = dmaResps
  BY Zenon, <1>2 DEF Types, CacheState
<1>4. /\ latest' \in [Addr -> Value] /\ seen' \in [Dma -> [Addr -> SUBSET Value]]
      /\ \A b \in Addr : latest'[b] = IF b = a THEN v ELSE latest[b]
      /\ \A z \in Dma, b \in Addr : seen[z][b] \subseteq seen'[z][b] /\ (b # a => seen'[z][b] = seen[z][b])
      /\ \A z \in Dma : dma[z][a] = "BUSY_RD" => latest'[a] \in seen'[z][a]
  BY <1>2, WrittenHistory, SameHistory DEF LineOK, ValueOK, PutOK
<1>5. /\ ResponsesOK' /\ Resp(c, a)
      /\ \A e, b : Resp(e, b)' <=> Resp(e, b) /\ b # a
  BY Zenon, <1>2, ResponseRemoved
<1>6. /\ \A n : n \in responses' <=> n \in responses /\ n # m
      /\ \A n \in responses' : n.addr # a
  BY Zenon, <1>2 DEF Networks, ResponsesOK
<1>7. (\A e \in Cache : ~Holds(e, a)) /\ dstate[a] # "I" /\ memq[a].type = "None"
  BY Zenon, <1>5 DEF LineOK, TokenOK, Below, DirOK
<1>8. /\ RequestsOK'
      /\ \A t, e, b : Req(t, e, b)' <=> Req(t, e, b)
      /\ ForwardOK'
      /\ \A t, e, b : Fwd(t, e, b)' <=> Fwd(t, e, b)
      /\ \A e, b, w : FwdFor(e, b, w)' <=> FwdFor(e, b, w)
      /\ DmaReqsOK' /\ DmaRespsOK'
      /\ \A t, z, b : DmaReq(t, z, b)' <=> DmaReq(t, z, b)
      /\ \A t, z, b : DmaResp(t, z, b)' <=> DmaResp(t, z, b)
  BY Zenon, <1>2, SameNetworks
<1>9. ASSUME NEW e \in Cache PROVE Holds(e, a)' <=> e = c
  <2>1. ~Holds(e, a) /\ (Fwd("GETX", e, a)' <=> Fwd("GETX", e, a))
    BY Zenon, <1>7, <1>8
  <2>2. owner'[a] = owner[a] /\ cstate'[e][a] = IF e = c THEN "M" ELSE cstate[e][a]
    BY Zenon, <1>3
  <2>3. CASE e = c
    BY Zenon, <2>2, <2>3 DEF Holds
  <2>4. CASE e # c
    BY Zenon, <2>1, <2>2, <2>4 DEF Holds
  <2> QED BY Zenon, <2>3, <2>4
<1>10. latest'[a] = v /\ \A n \in requests : n.who \in Cache
  BY Zenon, <1>4 DEF Networks, RequestsOK
<1>11. OnlyLine(a)
  BY <1>2, <1>4, <1>5, <1>6, <1>8 DEF OnlyLine, SameLine, Types
<1>12. Types'
  BY Zenon, <1>2, <1>4, <1>T DEF Types
<1>13. /\ DirOK(a)'
       /\ \A z \in Dma : DmaOK(z, a)'
  BY Zenon, <1>2, <1>8, SameParts DEF ReadingFor, WritingFor
<1>14. ValueOK(a)'
  <2>1. PutOK(a)'
    <3> SUFFICES ASSUME NEW n \in requests', n.addr = a, n.type = "PUTX", cstate'[n.who][a] = "MI"
                 PROVE  n.data = cdata'[n.who][a]
      BY Zenon DEF PutOK
    <3>1. n \in requests /\ n.who \in Cache /\ n.who # c
      BY Zenon, <1>3, <1>10
    <3>2. cstate[n.who][a] = "MI" /\ cdata'[n.who][a] = cdata[n.who][a]
      BY Zenon, <3>1, <1>3
    <3> QED BY Zenon, <3>1, <3>2 DEF LineOK, ValueOK, PutOK
  <2> QED BY ZenonT(40), <2>1, <1>3, <1>6, <1>7, <1>9, <1>10 DEF ValueOK
<1>15. ASSUME NEW e \in Cache PROVE CacheOK(e, a)' /\ MissOK(e, a)' /\ TokenOK(e, a)'
  <2>1. CacheOK(e, a) /\ MissOK(e, a) /\ TokenOK(e, a)
    BY Zenon DEF LineOK
  <2> USE <2>1, <1>3, <1>5, <1>8, <1>1
  <2>2. CacheOK(e, a)'
    BY Zenon DEF CacheOK, Accepted, MissOK
  <2>3. MissOK(e, a)'
    BY Zenon DEF MissOK, TokenOK, Below
  <2>4. TokenOK(e, a)'
    BY Zenon, <1>7, <1>9 DEF TokenOK, Below
  <2> QED BY Zenon, <2>2, <2>3, <2>4
<1>16. ASSUME NEW z \in Dma PROVE SeenOK(z, a)'
  BY Zenon, <1>3, <1>4, <1>8 DEF LineOK, SeenOK
<1> QED BY Zenon, <1>12, <1>11, <1>13, <1>14, <1>15, <1>16, <1>5, <1>8 DEF Kept, LineOK, Networks

(***************************************************************************)
(* A forwarded GETX is served from M, MI or MII: the block leaves this     *)
(* cache and is the only one on its way.                                   *)
(***************************************************************************)
LEMMA FwdStep ==
  ASSUME NEW a \in Addr, Types, Networks, LineOK(a), NEW c \in Cache, NEW w, forward[c] # <<>>,
         Head(forward[c]).type = "GETX",
         Head(forward[c]).addr = a, Head(forward[c]).who = w, Fwd_GETX(c, a, w), CacheOnly
  PROVE  Kept(a)
<1>1. CacheOK(c, a) /\ TokenOK(c, a)
  BY Zenon DEF LineOK
<1>2. /\ requests' = requests /\ dstate' = dstate /\ owner' = owner /\ tbe' = tbe /\ memq' = memq
      /\ mem' = mem /\ dma' = dma /\ dmaReqs' = dmaReqs /\ dmaResps' = dmaResps
      /\ latest' = latest /\ seen' = seen
  BY Zenon DEF Fwd_GETX, dirVars, dmaVars, history, CacheOnly
<1>T. /\ cstate' \in [Cache -> [Addr -> CacheState]] /\ cdata' \in [Cache -> [Addr -> Value]]
  BY Zenon, InitValueType, <1>2 DEF Fwd_GETX, AfterForward, Types, CacheState
<1>3. /\ cstate[c][a] \in {"M", "MI", "MII"}
      /\ \A e \in Cache : cstate'[e][a] = IF e = c THEN IF cstate[c][a] = "MI" THEN "II" ELSE "I" ELSE cstate[e][a]
      /\ dstate'[a] = dstate[a] /\ owner'[a] = owner[a] /\ memq'[a] = memq[a]
      /\ \A e \in Cache : cdata'[e][a] = IF e = c THEN InitValue ELSE cdata[e][a]
      /\ requests' = requests /\ mem' = mem /\ latest' = latest
  BY Zenon, InitValueType, <1>2 DEF Fwd_GETX, AfterForward, Types, CacheState
<1>4. /\ ForwardOK'
      /\ \A t, b : \A e \in Cache : t # "INV" => (Fwd(t, e, b)' <=> Fwd(t, e, b) /\ ~(e = c /\ t = "GETX" /\ b = a))
      /\ \A b, x : \A e \in Cache : FwdFor(e, b, x)' <=> FwdFor(e, b, x) /\ ~(e = c /\ b = a)
      /\ Fwd("GETX", c, a) /\ FwdFor(c, a, w) /\ w \in Cache
  BY Popped DEF Fwd_GETX
<1>5. /\ \A n \in requests : n.type \in {"GETX", "PUTX"} /\ n.who \in Cache /\ Req(n.type, n.who, n.addr)
      /\ \A n \in responses : n.dest \in Cache /\ Resp(n.dest, n.addr)
  BY Zenon, MessageViews
<1>6. Holds(c, a) /\ \A m \in responses : m.addr # a
  BY Zenon, <1>3, <1>4, <1>5, <1>1 DEF TokenOK, Holds
<1>7. MissOK(w, a)
  BY Zenon, <1>4 DEF LineOK
<1>8. \A e \in Cache : ~Holds(e, a)'
  <2>1. \A e \in Cache : Holds(e, a) => e = c
    BY Zenon, <1>6, <1>1 DEF TokenOK
  <2>2. \A e \in Cache : Fwd("GETX", e, a)' => Fwd("GETX", e, a)
    BY Zenon, <1>4
  <2>3. ASSUME NEW e \in Cache, e # c PROVE Holds(e, a)' => Holds(e, a)
    BY Zenon, <2>2, <2>3, <1>3 DEF Holds
  <2>4. ~Holds(c, a)'
    BY Zenon, <1>3 DEF Holds
  <2> QED BY Zenon, <2>1, <2>3, <2>4
<1>9. w # c
  BY Zenon, <1>3, <1>4, <1>7 DEF Networks, MissOK
<1> DEFINE r == [dest |-> w, addr |-> a, data |-> cdata[c][a]]
<1>10. /\ responses' = responses \cup {r} /\ r.dest = w /\ r.addr = a /\ r.data = cdata[c][a]
       /\ r.data \in Value
  BY Zenon DEF Types, Fwd_GETX
<1> HIDE DEF r
<1>11. \A m : m \in responses' <=> m \in responses \/ m = r
  BY Zenon, <1>10
<1>12. /\ ResponsesOK'
       /\ \A e : Resp(e, a)' <=> Resp(e, a) \/ e = w
  BY Zenon, <1>10, <1>4, <1>6, ResponseAdded
<1>13. /\ RequestsOK'
       /\ \A t, e, b : Req(t, e, b)' <=> Req(t, e, b)
       /\ DmaReqsOK' /\ DmaRespsOK'
       /\ \A t, z, b : DmaReq(t, z, b)' <=> DmaReq(t, z, b)
       /\ \A t, z, b : DmaResp(t, z, b)' <=> DmaResp(t, z, b)
  BY Zenon, <1>2, SameNetworks
<1>14. OnlyLine(a)
  BY Zenon, <1>2, <1>4, <1>10, <1>11, <1>12, <1>13 DEF OnlyLine, SameLine, Types, Fwd_GETX
<1>15. Types'
  BY Zenon, <1>2, <1>T DEF Types
<1>16. /\ DirOK(a)'
       /\ \A z \in Dma : DmaOK(z, a)'
       /\ \A z \in Dma : SeenOK(z, a)'
  BY Zenon, <1>2, <1>3, SameParts DEF ReadingFor, WritingFor
<1>17. ValueOK(a)'
  <2>1. PutOK(a)'
    <3>1. PutOK(a)
      BY Zenon DEF LineOK, ValueOK
    <3>2. ASSUME NEW m \in requests', m.addr = a, m.type = "PUTX", cstate'[m.who][a] = "MI"
          PROVE  m.data = cdata'[m.who][a]
      <4>1. m \in requests /\ m.who \in Cache
        BY Zenon, <1>3, <1>5
      <4>2. m.who # c /\ cstate[m.who][a] = "MI" /\ cdata'[m.who][a] = cdata[m.who][a]
        BY Zenon, <3>2, <4>1, <1>3
      <4> QED BY Zenon, <3>1, <3>2, <4>1, <4>2 DEF PutOK
    <3> QED BY Zenon, <3>2 DEF PutOK
  <2> QED BY Zenon, <2>1, <1>3, <1>6, <1>8, <1>10, <1>11 DEF LineOK, ValueOK
<1>18. ASSUME NEW e \in Cache PROVE CacheOK(e, a)' /\ MissOK(e, a)' /\ TokenOK(e, a)'
  <2>1. CacheOK(e, a) /\ MissOK(e, a) /\ TokenOK(e, a)
    BY Zenon DEF LineOK
  <2> USE <2>1, <1>3, <1>4, <1>13, <1>1, <1>6, <1>12
  <2>2. CacheOK(e, a)'
    BY ZenonT(40) DEF CacheOK, Accepted
  <2>3. MissOK(e, a)'
    BY ZenonT(40), <1>9, <1>7 DEF MissOK, TokenOK, Below
  <2>4. TokenOK(e, a)'
    BY Zenon, <1>8 DEF TokenOK, Below
  <2> QED BY Zenon, <2>2, <2>3, <2>4
<1> QED BY Zenon, <1>15, <1>14, <1>16, <1>17, <1>18, <1>4, <1>12, <1>13 DEF Kept, LineOK, Networks

(***************************************************************************)
(* The acknowledged writeback (MI Writeback_Ack): the cache is no longer   *)
(* the holder, memory has the block.                                       *)
(***************************************************************************)
LEMMA WbAckStep ==
  ASSUME NEW a \in Addr, Types, Networks, LineOK(a), NEW c \in Cache, forward[c] # <<>>,
         Head(forward[c]).type = "WB_ACK",
         Head(forward[c]).addr = a, Writeback_Ack(c, a), CacheOnly
  PROVE  Kept(a)
<1>1. CacheOK(c, a)
  BY Zenon DEF LineOK
<1>2. /\ requests' = requests /\ responses' = responses /\ dstate' = dstate /\ owner' = owner
      /\ tbe' = tbe /\ memq' = memq /\ mem' = mem /\ dma' = dma /\ dmaReqs' = dmaReqs
      /\ dmaResps' = dmaResps /\ latest' = latest /\ seen' = seen
  BY Zenon DEF Writeback_Ack, dirVars, dmaVars, history, CacheOnly
<1>T. /\ cstate' \in [Cache -> [Addr -> CacheState]] /\ cdata' \in [Cache -> [Addr -> Value]]
  BY Zenon, InitValueType, <1>2 DEF Writeback_Ack, Types, CacheState
<1>3. /\ cstate[c][a] \in {"MI"}
      /\ \A e \in Cache : cstate'[e][a] = IF e = c THEN "I" ELSE cstate[e][a]
      /\ dstate'[a] = dstate[a] /\ owner'[a] = owner[a] /\ memq'[a] = memq[a]
      /\ \A e \in Cache : cdata'[e][a] = IF e = c THEN InitValue ELSE cdata[e][a]
      /\ requests' = requests /\ responses' = responses /\ mem' = mem /\ latest' = latest
  BY Zenon, InitValueType, <1>2 DEF Writeback_Ack, Types, CacheState
<1>4. /\ ForwardOK'
      /\ \A t, b : \A e \in Cache : t # "INV" => (Fwd(t, e, b)' <=> Fwd(t, e, b) /\ ~(e = c /\ t = "WB_ACK" /\ b = a))
      /\ \A b, x : \A e \in Cache : FwdFor(e, b, x)' <=> FwdFor(e, b, x)
      /\ Fwd("WB_ACK", c, a) /\ ~Fwd("WB_ACK", c, a)' /\ ~Fwd("WB_NACK", c, a)'
  BY Popped DEF Writeback_Ack
<1>5. \A e \in Cache : Holds(e, a)' <=> Holds(e, a)
  <2>1. \A e \in Cache : Fwd("GETX", e, a)' <=> Fwd("GETX", e, a)
    BY Zenon, <1>4
  <2>2. ASSUME NEW e \in Cache, e # c PROVE Holds(e, a)' <=> Holds(e, a)
    BY Zenon, <2>1, <2>2, <1>3 DEF Holds
  <2>3. ~Holds(c, a)'
    BY Zenon, <1>3 DEF Holds
  <2>4. ~Holds(c, a)
    BY Zenon, <1>3, <1>4, <1>1 DEF CacheOK, Holds, Accepted
  <2> QED BY Zenon, <2>2, <2>3, <2>4
<1>6. ~Holds(c, a)
  BY Zenon, <1>3, <1>4, <1>1 DEF CacheOK, Holds, Accepted
<1>7. /\ \A n \in requests : n.type \in {"GETX", "PUTX"} /\ n.who \in Cache /\ Req(n.type, n.who, n.addr)
      /\ \A n \in responses : n.dest \in Cache /\ Resp(n.dest, n.addr)
  BY Zenon, MessageViews
<1>8. /\ RequestsOK'
      /\ \A t, e, b : Req(t, e, b)' <=> Req(t, e, b)
      /\ ResponsesOK'
      /\ \A e, b : Resp(e, b)' <=> Resp(e, b)
      /\ DmaReqsOK' /\ DmaRespsOK'
      /\ \A t, z, b : DmaReq(t, z, b)' <=> DmaReq(t, z, b)
      /\ \A t, z, b : DmaResp(t, z, b)' <=> DmaResp(t, z, b)
  BY Zenon, <1>2, SameNetworks
<1>9. OnlyLine(a)
  BY Zenon, <1>2, <1>4, <1>8 DEF OnlyLine, SameLine, Types, Writeback_Ack
<1>10. Types'
  BY Zenon, <1>2, <1>T DEF Types
<1>11. /\ DirOK(a)'
       /\ \A z \in Dma : DmaOK(z, a)'
       /\ \A z \in Dma : SeenOK(z, a)'
  BY Zenon, <1>2, <1>3, SameParts DEF ReadingFor, WritingFor
<1>12. ValueOK(a)'
  <2>1. PutOK(a)'
    <3> SUFFICES ASSUME NEW n \in requests', n.addr = a, n.type = "PUTX", cstate'[n.who][a] = "MI"
                 PROVE  n.data = cdata'[n.who][a]
      BY Zenon DEF PutOK
    <3>1. n \in requests /\ n.who \in Cache /\ n.who # c
      BY Zenon, <1>3, <1>7
    <3>2. cstate[n.who][a] = "MI" /\ cdata'[n.who][a] = cdata[n.who][a]
      BY Zenon, <3>1, <1>3
    <3> QED BY Zenon, <3>1, <3>2 DEF LineOK, ValueOK, PutOK
  <2> QED BY ZenonT(40), <2>1, <1>3, <1>5, <1>6 DEF LineOK, ValueOK
<1>13. ASSUME NEW e \in Cache PROVE CacheOK(e, a)' /\ MissOK(e, a)' /\ TokenOK(e, a)'
  <2>1. CacheOK(e, a) /\ MissOK(e, a) /\ TokenOK(e, a)
    BY Zenon DEF LineOK
  <2> USE <2>1, <1>3, <1>4, <1>8
  <2>2. CacheOK(e, a)'
    BY Zenon, <1>1 DEF CacheOK, Accepted
  <2>3. MissOK(e, a)'
    BY Zenon DEF MissOK
  <2>4. TokenOK(e, a)'
    BY Zenon, <1>5 DEF TokenOK, Below
  <2> QED BY Zenon, <2>2, <2>3, <2>4
<1> QED BY Zenon, <1>10, <1>9, <1>11, <1>12, <1>13, <1>4, <1>8 DEF Kept, LineOK, Networks

(***************************************************************************)
(* The refused writeback (MI or II Writeback_Nack): in MI the forwarded    *)
(* GETX that beat the PUTX is still to come, in II it has been served.     *)
(***************************************************************************)
LEMMA WbNackStep ==
  ASSUME NEW a \in Addr, Types, Networks, LineOK(a), NEW c \in Cache, forward[c] # <<>>,
         Head(forward[c]).type = "WB_NACK",
         Head(forward[c]).addr = a, Writeback_Nack(c, a), CacheOnly
  PROVE  Kept(a)
<1>1. CacheOK(c, a)
  BY Zenon DEF LineOK
<1>2. /\ cdata' = cdata /\ requests' = requests /\ responses' = responses /\ dstate' = dstate
      /\ owner' = owner /\ tbe' = tbe /\ memq' = memq /\ mem' = mem /\ dma' = dma
      /\ dmaReqs' = dmaReqs /\ dmaResps' = dmaResps /\ latest' = latest /\ seen' = seen
  BY Zenon DEF Writeback_Nack, dirVars, dmaVars, history, CacheOnly
<1>T. cstate' \in [Cache -> [Addr -> CacheState]]
  BY Zenon, InitValueType, <1>2 DEF Writeback_Nack, Types, CacheState
<1>3. /\ cstate[c][a] \in {"MI", "II"}
      /\ \A e \in Cache : cstate'[e][a] = IF e = c THEN IF cstate[c][a] = "MI" THEN "MII" ELSE "I" ELSE cstate[e][a]
      /\ dstate'[a] = dstate[a] /\ owner'[a] = owner[a] /\ memq'[a] = memq[a]
      /\ cdata' = cdata
      /\ requests' = requests /\ responses' = responses /\ mem' = mem /\ latest' = latest
  BY Zenon, InitValueType, <1>2 DEF Writeback_Nack, Types, CacheState
<1>4. /\ ForwardOK'
      /\ \A t, b : \A e \in Cache : t # "INV" => (Fwd(t, e, b)' <=> Fwd(t, e, b) /\ ~(e = c /\ t = "WB_NACK" /\ b = a))
      /\ \A b, x : \A e \in Cache : FwdFor(e, b, x)' <=> FwdFor(e, b, x)
      /\ Fwd("WB_NACK", c, a) /\ ~Fwd("WB_ACK", c, a)' /\ ~Fwd("WB_NACK", c, a)'
  BY Popped DEF Writeback_Nack
<1>5. \A e \in Cache : Holds(e, a)' <=> Holds(e, a)
  BY Zenon, <1>3, <1>4, <1>1 DEF CacheOK, Holds, Accepted
<1>6. Req("PUTX", c, a) => FALSE
  BY Zenon, <1>3, <1>4, <1>1 DEF CacheOK, Holds, Accepted
<1>7. /\ \A n \in requests : n.type \in {"GETX", "PUTX"} /\ n.who \in Cache /\ Req(n.type, n.who, n.addr)
      /\ \A n \in responses : n.dest \in Cache /\ Resp(n.dest, n.addr)
  BY Zenon, MessageViews
<1>8. /\ RequestsOK'
      /\ \A t, e, b : Req(t, e, b)' <=> Req(t, e, b)
      /\ ResponsesOK'
      /\ \A e, b : Resp(e, b)' <=> Resp(e, b)
      /\ DmaReqsOK' /\ DmaRespsOK'
      /\ \A t, z, b : DmaReq(t, z, b)' <=> DmaReq(t, z, b)
      /\ \A t, z, b : DmaResp(t, z, b)' <=> DmaResp(t, z, b)
  BY Zenon, <1>2, SameNetworks
<1>9. OnlyLine(a)
  BY Zenon, <1>2, <1>4, <1>8 DEF OnlyLine, SameLine, Types, Writeback_Nack
<1>10. Types'
  BY Zenon, <1>2, <1>T DEF Types
<1>11. /\ DirOK(a)'
       /\ \A z \in Dma : DmaOK(z, a)'
       /\ \A z \in Dma : SeenOK(z, a)'
  BY Zenon, <1>2, <1>3, SameParts DEF ReadingFor, WritingFor
<1>12. ValueOK(a)'
  <2>1. PutOK(a)'
    <3> SUFFICES ASSUME NEW n \in requests', n.addr = a, n.type = "PUTX", cstate'[n.who][a] = "MI"
                 PROVE  n.data = cdata'[n.who][a]
      BY Zenon DEF PutOK
    <3>1. n \in requests /\ n.who \in Cache /\ n.who # c
      BY Zenon, <1>3, <1>7
    <3>2. cstate[n.who][a] = "MI" /\ cdata'[n.who][a] = cdata[n.who][a]
      BY Zenon, <3>1, <1>3
    <3> QED BY Zenon, <3>1, <3>2 DEF LineOK, ValueOK, PutOK
  <2> QED BY Zenon, <2>1, <1>3, <1>5, <1>6 DEF LineOK, ValueOK
<1>13. ASSUME NEW e \in Cache PROVE CacheOK(e, a)' /\ MissOK(e, a)' /\ TokenOK(e, a)'
  <2>1. CacheOK(e, a) /\ MissOK(e, a) /\ TokenOK(e, a)
    BY Zenon DEF LineOK
  <2> USE <2>1, <1>3, <1>4, <1>8
  <2>2. CacheOK(e, a)'
    BY Zenon, <1>1 DEF CacheOK, Accepted
  <2>3. MissOK(e, a)'
    BY Zenon DEF MissOK
  <2>4. TokenOK(e, a)'
    BY Zenon, <1>5 DEF TokenOK, Below
  <2> QED BY Zenon, <2>2, <2>3, <2>4
<1> QED BY Zenon, <1>10, <1>9, <1>11, <1>12, <1>13, <1>4, <1>8 DEF Kept, LineOK, Networks

-----------------------------------------------------------------------------
(* The directory. *)

(***************************************************************************)
(* GETX at an idle directory (I GETX): the requestor becomes the owner and *)
(* memory is read for it.                                                  *)
(***************************************************************************)
LEMMA GetxIdleStep ==
  ASSUME NEW a \in Addr, Types, Networks, LineOK(a), NEW c \in Cache, NEW m \in requests, m.who = c,
         m.addr = a, DirGETX(m), dstate[a] = "I", DirOnly
  PROVE  Kept(a)
<1>1. CacheOK(c, a) /\ MissOK(c, a)
  BY Zenon DEF LineOK
<1>2. /\ m.type = "GETX" /\ requests' = requests \ {m} /\ forward' = forward
      /\ dstate' = [dstate EXCEPT ![a] = "IM"]
      /\ owner' = [owner EXCEPT ![a] = c]
      /\ memq' = [memq EXCEPT ![a] = [type |-> "READ", who |-> c, data |-> InitValue]]
      /\ cstate' = cstate /\ cdata' = cdata /\ forward' = forward /\ responses' = responses
      /\ tbe' = tbe /\ mem' = mem /\ dma' = dma /\ dmaReqs' = dmaReqs /\ dmaResps' = dmaResps
      /\ latest' = latest /\ seen' = seen
  BY Zenon DEF DirGETX, SetDir, SetOwner, ToMemory, cacheVars, history, DirOnly
<1>T. /\ dstate' \in [Addr -> DirState] /\ owner' \in [Addr -> Cache \cup {NoOne}]
      /\ memq' \in [Addr -> MemMsg]
  BY Zenon, <1>2, InitValueType DEF MemMsg, TBE, DirState, Types
<1>3. /\ cstate' = cstate
      /\ dstate[a] = "I" /\ dstate'[a] = "IM"
      /\ owner'[a] = c /\ tbe'[a] = tbe[a]
      /\ memq'[a].type = "READ" /\ memq'[a].who = c
      /\ cdata' = cdata /\ responses' = responses /\ latest' = latest /\ mem' = mem
  BY Zenon, <1>2, InitValueType DEF MemMsg, TBE, DirState, Types
<1>4. \A n : n \in requests' <=> n \in requests /\ n # m
  BY Zenon, <1>2
<1>5. /\ RequestsOK' /\ Req(m.type, c, a) /\ c \in Cache
      /\ \A t, e : Req(t, e, a)' <=> Req(t, e, a) /\ e # c
  BY Zenon, <1>2, RequestRemoved DEF Networks, RequestsOK
<1>6. /\ ForwardOK'
      /\ \A t, e, b : Fwd(t, e, b)' <=> Fwd(t, e, b)
      /\ \A e, b, w : FwdFor(e, b, w)' <=> FwdFor(e, b, w)
      /\ ResponsesOK'
      /\ \A e, b : Resp(e, b)' <=> Resp(e, b)
      /\ DmaReqsOK' /\ DmaRespsOK'
      /\ \A t, z, b : DmaReq(t, z, b)' <=> DmaReq(t, z, b)
      /\ \A t, z, b : DmaResp(t, z, b)' <=> DmaResp(t, z, b)
  BY Zenon, <1>2, SameNetworks
<1>7. cstate[c][a] \in {"IS", "IM"} /\ owner[a] # c /\ ~Fwd("GETX", c, a)
  BY Zenon, <1>2, <1>5, <1>1 DEF CacheOK
<1>8. \A e \in Cache : Holds(e, a)' => Holds(e, a)
  BY Zenon, <1>3, <1>6, <1>7 DEF Holds
<1>9. c # NoOne
  BY Zenon, MIAssumption
<1>10. /\ \A n \in requests : n.type \in {"GETX", "PUTX"} /\ n.who \in Cache /\ Req(n.type, n.who, n.addr)
       /\ \A n \in responses : n.dest \in Cache /\ Resp(n.dest, n.addr)
  BY Zenon, MessageViews
<1>11. OnlyLine(a)
  BY Zenon, <1>2, <1>4, <1>5, <1>6 DEF OnlyLine, SameLine, Types
<1>12. Types'
  BY Zenon, <1>2, <1>T DEF Types
<1>13. /\ \A z \in Dma : DmaOK(z, a)'
       /\ \A z \in Dma : SeenOK(z, a)'
  BY Zenon, <1>2, <1>3, SameParts DEF ReadingFor, WritingFor
<1>14. DirOK(a)'
  BY Zenon, <1>3, <1>9 DEF LineOK, DirOK
<1>15. ValueOK(a)'
  BY Zenon, <1>3, <1>4, <1>5, <1>8, <1>10 DEF LineOK, ValueOK, PutOK
<1>16. ASSUME NEW e \in Cache PROVE CacheOK(e, a)' /\ MissOK(e, a)' /\ TokenOK(e, a)'
  <2>1. CacheOK(e, a) /\ MissOK(e, a) /\ TokenOK(e, a)
    BY Zenon DEF LineOK
  <2> USE <2>1, <1>3, <1>5, <1>6, <1>7
  <2>2. CacheOK(e, a)'
    <3>1. ~Accepted(e, a)'
      BY Zenon DEF Accepted
    <3>2. CASE e = c
      BY Zenon, <3>1, <3>2 DEF CacheOK
    <3>3. CASE e # c
      BY Zenon, <3>1, <3>3 DEF CacheOK
    <3> QED BY Zenon, <3>2, <3>3
  <2>3. MissOK(e, a)'
    BY Zenon, <1>2, <1>1 DEF MissOK
  <2>4. TokenOK(e, a)'
    BY Zenon, <1>8 DEF TokenOK, Below
  <2> QED BY Zenon, <2>2, <2>3, <2>4
<1> QED BY Zenon, <1>12, <1>11, <1>13, <1>14, <1>15, <1>16, <1>5, <1>6 DEF Kept, LineOK, Networks

(***************************************************************************)
(* GETX for an owned line (M GETX): the directory forwards it to the old   *)
(* owner and takes the requestor for the new one.                          *)
(***************************************************************************)
LEMMA GetxOwnedStep ==
  ASSUME NEW a \in Addr, Types, Networks, LineOK(a), NEW c \in Cache, NEW m \in requests, m.who = c,
         m.addr = a, DirGETX(m), dstate[a] = "M", DirOnly
  PROVE  Kept(a)
<1>1. CacheOK(c, a) /\ MissOK(c, a)
  BY Zenon DEF LineOK
<1>2. /\ m.type = "GETX" /\ requests' = requests \ {m} /\ dstate' = dstate /\ memq' = memq
      /\ owner' = [owner EXCEPT ![a] = c]
      /\ SendForward(owner[a], "GETX", a, c) /\ owner[a] # NoOne
      /\ cstate' = cstate /\ cdata' = cdata /\ responses' = responses /\ dstate' = dstate
      /\ tbe' = tbe /\ memq' = memq /\ mem' = mem /\ dma' = dma /\ dmaReqs' = dmaReqs
      /\ dmaResps' = dmaResps /\ latest' = latest /\ seen' = seen
  BY Zenon, <1>1 DEF LineOK, DirGETX, SetDir, SetOwner, DirOK, cacheVars, history, DirOnly
<1>3. owner[a] \in Cache
  BY Zenon, <1>2 DEF Types
<1>4. CacheOK(owner[a], a)
  BY Zenon, <1>3 DEF LineOK
<1>T. owner' \in [Addr -> Cache \cup {NoOne}]
  BY Zenon, <1>2 DEF MemMsg, TBE, DirState, Types
<1>5. /\ cstate' = cstate
      /\ dstate[a] = "M" /\ dstate'[a] = "M"
      /\ owner'[a] = c /\ tbe'[a] = tbe[a]
      /\ memq'[a] = memq[a]
      /\ cdata' = cdata /\ responses' = responses /\ latest' = latest /\ mem' = mem
  BY Zenon, <1>2 DEF MemMsg, TBE, DirState, Types
<1>6. \A n : n \in requests' <=> n \in requests /\ n # m
  BY Zenon, <1>2
<1>7. /\ RequestsOK' /\ Req(m.type, c, a) /\ c \in Cache
      /\ \A t, e : Req(t, e, a)' <=> Req(t, e, a) /\ e # c
  BY Zenon, <1>2, RequestRemoved DEF Networks, RequestsOK
<1>8. cstate[c][a] \in {"IS", "IM"} /\ owner[a] # c /\ ~Fwd("GETX", c, a)
  BY Zenon, <1>2, <1>7, <1>1 DEF CacheOK
<1>9. ~Fwd("GETX", owner[a], a)
  BY Zenon, <1>4 DEF CacheOK
<1>10. /\ ForwardOK'
       /\ \A t, b : \A e \in Cache : Fwd(t, e, b)' <=> Fwd(t, e, b) \/ (e = owner[a] /\ t = "GETX" /\ b = a)
       /\ \A b, x : \A e \in Cache : FwdFor(e, b, x)' <=> FwdFor(e, b, x) \/ (e = owner[a] /\ b = a /\ x = c)
  BY <1>2, <1>3, <1>7, <1>9, SentGetx
<1>11. \A e \in Cache : Holds(e, a)' => Holds(e, a)
  BY Zenon, <1>5, <1>10, <1>8, <1>4 DEF Holds, CacheOK
<1>12. c # NoOne
  BY Zenon, MIAssumption
<1>13. /\ ResponsesOK'
       /\ \A e, b : Resp(e, b)' <=> Resp(e, b)
       /\ DmaReqsOK' /\ DmaRespsOK'
       /\ \A t, z, b : DmaReq(t, z, b)' <=> DmaReq(t, z, b)
       /\ \A t, z, b : DmaResp(t, z, b)' <=> DmaResp(t, z, b)
  BY Zenon, <1>2, SameNetworks
<1>14. /\ \A n \in requests : n.type \in {"GETX", "PUTX"} /\ n.who \in Cache /\ Req(n.type, n.who, n.addr)
       /\ \A n \in responses : n.dest \in Cache /\ Resp(n.dest, n.addr)
  BY Zenon, MessageViews
<1>15. OnlyLine(a)
  BY Zenon, <1>2, <1>6, <1>7, <1>10, <1>13 DEF OnlyLine, SameLine, Types
<1>16. Types'
  BY Zenon, <1>2, <1>T DEF Types
<1>17. /\ \A z \in Dma : DmaOK(z, a)'
       /\ \A z \in Dma : SeenOK(z, a)'
  BY Zenon, <1>2, <1>5, SameParts DEF ReadingFor, WritingFor
<1>18. DirOK(a)'
  BY Zenon, <1>5, <1>12 DEF LineOK, DirOK
<1>19. ValueOK(a)'
  BY Zenon, <1>5, <1>6, <1>7, <1>11, <1>14 DEF LineOK, ValueOK, PutOK
<1>20. ASSUME NEW e \in Cache PROVE CacheOK(e, a)' /\ MissOK(e, a)' /\ TokenOK(e, a)'
  <2>1. CacheOK(e, a) /\ MissOK(e, a) /\ TokenOK(e, a)
    BY Zenon DEF LineOK
  <2> USE <2>1, <1>5, <1>7, <1>8, <1>10, <1>13
  <2>2. CacheOK(e, a)'
    BY ZenonT(40), <1>3, <1>4 DEF CacheOK, Accepted
  <2>3. MissOK(e, a)'
    BY Zenon, <1>2, <1>1 DEF MissOK
  <2>4. TokenOK(e, a)'
    BY Zenon, <1>11 DEF TokenOK, Below
  <2> QED BY Zenon, <2>2, <2>3, <2>4
<1> QED BY Zenon, <1>16, <1>15, <1>17, <1>18, <1>19, <1>20, <1>7, <1>10, <1>13
     DEF Kept, LineOK, Networks

(* PUTX of the owner (M PUTX): the block goes to memory. *)
LEMMA PutxStep ==
  ASSUME NEW a \in Addr, Types, Networks, LineOK(a), NEW c \in Cache, NEW m \in requests, m.who = c,
         m.addr = a, DirPUTX(m), dstate[a] = "M", DirOnly
  PROVE  Kept(a)
<1>1. CacheOK(c, a) /\ TokenOK(c, a)
  BY Zenon DEF LineOK
<1>2. /\ m.type = "PUTX" /\ owner[a] = c /\ requests' = requests \ {m} /\ forward' = forward
      /\ dstate' = [dstate EXCEPT ![a] = "MI"]
      /\ owner' = [owner EXCEPT ![a] = NoOne]
      /\ memq' = [memq EXCEPT ![a] = [type |-> "WB", who |-> c, data |-> m.data]]
      /\ cstate' = cstate /\ cdata' = cdata /\ forward' = forward /\ responses' = responses
      /\ tbe' = tbe /\ mem' = mem /\ dma' = dma /\ dmaReqs' = dmaReqs /\ dmaResps' = dmaResps
      /\ latest' = latest /\ seen' = seen
  BY Zenon DEF DirPUTX, SetDir, SetOwner, ToMemory, WrittenBlock, cacheVars, history, DirOnly
<1>3. m.data \in Value
  BY Zenon DEF Networks, RequestsOK, Types, TBE
<1>T. /\ dstate' \in [Addr -> DirState] /\ owner' \in [Addr -> Cache \cup {NoOne}]
      /\ memq' \in [Addr -> MemMsg]
  BY Zenon, <1>2, <1>3 DEF MemMsg, TBE, DirState, Types
<1>4. /\ cstate' = cstate
      /\ dstate[a] = "M" /\ dstate'[a] = "MI"
      /\ owner[a] = c /\ owner'[a] = NoOne /\ tbe'[a] = tbe[a]
      /\ memq'[a].type = "WB" /\ memq'[a].who = c /\ memq'[a].data = m.data
      /\ cdata' = cdata /\ responses' = responses /\ latest' = latest /\ mem' = mem
  BY Zenon, <1>2, <1>3 DEF MemMsg, TBE, DirState, Types
<1>5. \A n : n \in requests' <=> n \in requests /\ n # m
  BY Zenon, <1>2
<1>6. /\ RequestsOK' /\ Req(m.type, c, a) /\ c \in Cache
      /\ \A t, e : Req(t, e, a)' <=> Req(t, e, a) /\ e # c
  BY <1>2, RequestRemoved DEF Networks, RequestsOK
<1>7. /\ ForwardOK'
      /\ \A t, e, b : Fwd(t, e, b)' <=> Fwd(t, e, b)
      /\ \A e, b, w : FwdFor(e, b, w)' <=> FwdFor(e, b, w)
      /\ ResponsesOK'
      /\ \A e, b : Resp(e, b)' <=> Resp(e, b)
      /\ DmaReqsOK' /\ DmaRespsOK'
      /\ \A t, z, b : DmaReq(t, z, b)' <=> DmaReq(t, z, b)
      /\ \A t, z, b : DmaResp(t, z, b)' <=> DmaResp(t, z, b)
  BY Zenon, <1>2, SameNetworks
<1>8. \A e \in Cache : e # NoOne
  BY Zenon, MIAssumption
<1>9. cstate[c][a] = "MI" /\ ~Fwd("GETX", c, a) /\ ~Fwd("WB_ACK", c, a) /\ ~Fwd("WB_NACK", c, a)
  BY Zenon, <1>2, <1>6, <1>1 DEF CacheOK
<1>10. Holds(c, a) /\ \A e \in Cache : ~Resp(e, a) /\ (Holds(e, a) => e = c)
  BY Zenon, <1>4, <1>9, <1>1 DEF TokenOK, Holds
<1>11. \A e \in Cache : ~Holds(e, a)'
  BY Zenon, <1>4, <1>7, <1>9, <1>8, <1>10 DEF Holds
<1>12. /\ \A n \in requests : n.type \in {"GETX", "PUTX"} /\ n.who \in Cache /\ Req(n.type, n.who, n.addr)
       /\ \A n \in responses : n.dest \in Cache /\ Resp(n.dest, n.addr)
  BY Zenon, MessageViews
<1>13. m.data = latest[a]
  BY Zenon, <1>2, <1>9, <1>10 DEF LineOK, ValueOK, PutOK
<1>14. OnlyLine(a)
  BY Zenon, <1>2, <1>5, <1>6, <1>7 DEF OnlyLine, SameLine, Types
<1>15. Types'
  BY Zenon, <1>2, <1>T DEF Types
<1>16. /\ \A z \in Dma : DmaOK(z, a)'
       /\ \A z \in Dma : SeenOK(z, a)'
  BY Zenon, <1>2, <1>4, SameParts DEF ReadingFor, WritingFor
<1>17. DirOK(a)'
  BY Zenon, <1>4, <1>8 DEF LineOK, DirOK
<1>18. ValueOK(a)'
  BY Zenon, <1>4, <1>5, <1>6, <1>11, <1>12, <1>13 DEF LineOK, ValueOK, PutOK
<1>19. ASSUME NEW e \in Cache PROVE CacheOK(e, a)' /\ MissOK(e, a)' /\ TokenOK(e, a)'
  <2>1. CacheOK(e, a) /\ MissOK(e, a) /\ TokenOK(e, a)
    BY Zenon DEF LineOK
  <2> USE <2>1, <1>4, <1>6, <1>7
  <2>2. CacheOK(e, a)'
    BY Zenon, <1>8, <1>9 DEF CacheOK, Accepted
  <2>3. MissOK(e, a)'
    BY Zenon DEF MissOK
  <2>4. TokenOK(e, a)'
    BY Zenon, <1>10, <1>11 DEF TokenOK, Below
  <2> QED BY Zenon, <2>2, <2>3, <2>4
<1> QED BY Zenon, <1>15, <1>14, <1>16, <1>17, <1>18, <1>19, <1>6, <1>7 DEF Kept, LineOK, Networks

(***************************************************************************)
(* PUTX that an invalidation for a DMA write brought (M_DWR PUTX): the     *)
(* block of the DMA goes to memory.                                        *)
(***************************************************************************)
LEMMA PutxWriteStep ==
  ASSUME NEW a \in Addr, Types, Networks, LineOK(a), NEW c \in Cache, NEW m \in requests, m.who = c,
         m.addr = a, DirPUTX(m), dstate[a] = "M_DWR", DirOnly
  PROVE  Kept(a)
<1>1. CacheOK(c, a) /\ TokenOK(c, a)
  BY Zenon DEF LineOK
<1>2. /\ m.type = "PUTX" /\ owner[a] = c /\ requests' = requests \ {m} /\ forward' = forward
      /\ dstate' = [dstate EXCEPT ![a] = "M_DWRI"]
      /\ owner' = [owner EXCEPT ![a] = NoOne]
      /\ memq' = [memq EXCEPT ![a] = [type |-> "DMA_WB", who |-> c, data |-> tbe[a].data]]
      /\ cstate' = cstate /\ cdata' = cdata /\ forward' = forward /\ responses' = responses
      /\ tbe' = tbe /\ mem' = mem /\ dma' = dma /\ dmaReqs' = dmaReqs /\ dmaResps' = dmaResps
      /\ latest' = latest /\ seen' = seen
  BY Zenon DEF DirPUTX, SetDir, SetOwner, ToMemory, WrittenBlock, cacheVars, history, DirOnly
<1>3. tbe[a].data \in Value
  BY Zenon DEF Networks, RequestsOK, Types, TBE
<1>T. /\ dstate' \in [Addr -> DirState] /\ owner' \in [Addr -> Cache \cup {NoOne}]
      /\ memq' \in [Addr -> MemMsg]
  BY Zenon, <1>2, <1>3 DEF MemMsg, TBE, DirState, Types
<1>4. /\ cstate' = cstate
      /\ dstate[a] = "M_DWR" /\ dstate'[a] = "M_DWRI"
      /\ owner[a] = c /\ owner'[a] = NoOne /\ tbe'[a] = tbe[a]
      /\ memq'[a].type = "DMA_WB" /\ memq'[a].who = c
      /\ cdata' = cdata /\ responses' = responses /\ latest' = latest /\ mem' = mem
  BY Zenon, <1>2, <1>3 DEF MemMsg, TBE, DirState, Types
<1>5. \A n : n \in requests' <=> n \in requests /\ n # m
  BY Zenon, <1>2
<1>6. /\ RequestsOK' /\ Req(m.type, c, a) /\ c \in Cache
      /\ \A t, e : Req(t, e, a)' <=> Req(t, e, a) /\ e # c
  BY <1>2, RequestRemoved DEF Networks, RequestsOK
<1>7. /\ ForwardOK'
      /\ \A t, e, b : Fwd(t, e, b)' <=> Fwd(t, e, b)
      /\ \A e, b, w : FwdFor(e, b, w)' <=> FwdFor(e, b, w)
      /\ ResponsesOK'
      /\ \A e, b : Resp(e, b)' <=> Resp(e, b)
      /\ DmaReqsOK' /\ DmaRespsOK'
      /\ \A t, z, b : DmaReq(t, z, b)' <=> DmaReq(t, z, b)
      /\ \A t, z, b : DmaResp(t, z, b)' <=> DmaResp(t, z, b)
  BY Zenon, <1>2, SameNetworks
<1>8. \A e \in Cache : e # NoOne
  BY Zenon, MIAssumption
<1>9. cstate[c][a] = "MI" /\ ~Fwd("GETX", c, a) /\ ~Fwd("WB_ACK", c, a) /\ ~Fwd("WB_NACK", c, a)
  BY Zenon, <1>2, <1>6, <1>1 DEF CacheOK
<1>10. Holds(c, a) /\ \A e \in Cache : ~Resp(e, a) /\ (Holds(e, a) => e = c)
  BY Zenon, <1>4, <1>9, <1>1 DEF TokenOK, Holds
<1>11. \A e \in Cache : ~Holds(e, a)'
  BY Zenon, <1>4, <1>7, <1>9, <1>8, <1>10 DEF Holds
<1>12. /\ \A n \in requests : n.type \in {"GETX", "PUTX"} /\ n.who \in Cache /\ Req(n.type, n.who, n.addr)
       /\ \A n \in responses : n.dest \in Cache /\ Resp(n.dest, n.addr)
  BY Zenon, MessageViews
<1>13. OnlyLine(a)
  BY Zenon, <1>2, <1>5, <1>6, <1>7 DEF OnlyLine, SameLine, Types
<1>14. Types'
  BY Zenon, <1>2, <1>T DEF Types
<1>15. /\ \A z \in Dma : DmaOK(z, a)'
       /\ \A z \in Dma : SeenOK(z, a)'
  BY Zenon, <1>2, <1>4, SameParts DEF ReadingFor, WritingFor
<1>16. DirOK(a)'
  BY Zenon, <1>4, <1>8 DEF LineOK, DirOK
<1>17. ValueOK(a)'
  BY Zenon, <1>4, <1>5, <1>6, <1>11, <1>12 DEF LineOK, ValueOK, PutOK
<1>18. ASSUME NEW e \in Cache PROVE CacheOK(e, a)' /\ MissOK(e, a)' /\ TokenOK(e, a)'
  <2>1. CacheOK(e, a) /\ MissOK(e, a) /\ TokenOK(e, a)
    BY Zenon DEF LineOK
  <2> USE <2>1, <1>4, <1>6, <1>7
  <2>2. CacheOK(e, a)'
    BY Zenon, <1>8, <1>9 DEF CacheOK, Accepted
  <2>3. MissOK(e, a)'
    BY Zenon DEF MissOK
  <2>4. TokenOK(e, a)'
    BY Zenon, <1>10, <1>11 DEF TokenOK, Below
  <2> QED BY Zenon, <2>2, <2>3, <2>4
<1> QED BY Zenon, <1>14, <1>13, <1>15, <1>16, <1>17, <1>18, <1>6, <1>7 DEF Kept, LineOK, Networks

(***************************************************************************)
(* PUTX that an invalidation for a DMA read brought (M_DRD PUTX): its      *)
(* block answers the DMA and goes to memory.                               *)
(***************************************************************************)
LEMMA PutxReadStep ==
  ASSUME NEW a \in Addr, Types, Networks, LineOK(a), NEW c \in Cache, NEW m \in requests, m.who = c,
         m.addr = a, DirPUTX(m), dstate[a] = "M_DRD", DirOnly
  PROVE  Kept(a)
<1>1. CacheOK(c, a) /\ TokenOK(c, a)
  BY Zenon DEF LineOK
<1>2. /\ m.type = "PUTX" /\ owner[a] = c /\ requests' = requests \ {m} /\ forward' = forward
      /\ dstate' = [dstate EXCEPT ![a] = "M_DRDI"]
      /\ owner' = [owner EXCEPT ![a] = NoOne]
      /\ memq' = [memq EXCEPT ![a] = [type |-> "WB", who |-> c, data |-> m.data]]
      /\ cstate' = cstate /\ cdata' = cdata /\ forward' = forward /\ responses' = responses
      /\ tbe' = tbe /\ mem' = mem /\ dma' = dma /\ dmaReqs' = dmaReqs /\ latest' = latest
      /\ seen' = seen
  BY Zenon DEF DirPUTX, SetDir, SetOwner, ToMemory, WrittenBlock, cacheVars, history, DirOnly
<1>3. m.data \in Value
  BY Zenon DEF Networks, RequestsOK, Types, TBE
<1>T. /\ dstate' \in [Addr -> DirState] /\ owner' \in [Addr -> Cache \cup {NoOne}]
      /\ memq' \in [Addr -> MemMsg]
  BY Zenon, <1>2, <1>3 DEF MemMsg, TBE, DirState, Types
<1>4. /\ cstate' = cstate
      /\ dstate[a] = "M_DRD" /\ dstate'[a] = "M_DRDI"
      /\ owner[a] = c /\ owner'[a] = NoOne /\ tbe'[a] = tbe[a]
      /\ memq'[a].type = "WB" /\ memq'[a].who = c /\ memq'[a].data = m.data
      /\ cdata' = cdata /\ responses' = responses /\ latest' = latest /\ mem' = mem
  BY Zenon, <1>2, <1>3 DEF MemMsg, TBE, DirState, Types
<1>5. \A n : n \in requests' <=> n \in requests /\ n # m
  BY Zenon, <1>2
<1>6. /\ RequestsOK' /\ Req(m.type, c, a) /\ c \in Cache
      /\ \A t, e : Req(t, e, a)' <=> Req(t, e, a) /\ e # c
  BY <1>2, RequestRemoved DEF Networks, RequestsOK
<1>7. /\ ForwardOK'
      /\ \A t, e, b : Fwd(t, e, b)' <=> Fwd(t, e, b)
      /\ \A e, b, w : FwdFor(e, b, w)' <=> FwdFor(e, b, w)
      /\ ResponsesOK'
      /\ \A e, b : Resp(e, b)' <=> Resp(e, b)
  BY Zenon, <1>2, SameNetworks
<1>8. \A e \in Cache : e # NoOne
  BY Zenon, MIAssumption
<1>9. cstate[c][a] = "MI" /\ ~Fwd("GETX", c, a) /\ ~Fwd("WB_ACK", c, a) /\ ~Fwd("WB_NACK", c, a)
  BY Zenon, <1>2, <1>6, <1>1 DEF CacheOK
<1>10. Holds(c, a) /\ \A e \in Cache : ~Resp(e, a) /\ (Holds(e, a) => e = c)
  BY Zenon, <1>4, <1>9, <1>1 DEF TokenOK, Holds
<1>11. \A e \in Cache : ~Holds(e, a)'
  BY Zenon, <1>4, <1>7, <1>9, <1>8, <1>10 DEF Holds
<1>12. /\ \A n \in requests : n.type \in {"GETX", "PUTX"} /\ n.who \in Cache /\ Req(n.type, n.who, n.addr)
       /\ \A n \in responses : n.dest \in Cache /\ Resp(n.dest, n.addr)
  BY Zenon, MessageViews
<1>13. m.data = latest[a]
  BY Zenon, <1>2, <1>9, <1>10 DEF LineOK, ValueOK, PutOK
<1>14. tbe[a].who \in Dma
  BY Zenon, <1>4 DEF LineOK, DirOK
<1>15. DmaOK(tbe[a].who, a) /\ SeenOK(tbe[a].who, a)
  BY Zenon, <1>14 DEF LineOK
<1>16. \A n \in dmaResps : ~(n.dest = tbe[a].who /\ n.addr = a)
  BY Zenon, <1>4, <1>14, MessageViews, <1>15 DEF DmaOK, ReadingFor
<1> DEFINE r == [type |-> "DATA", dest |-> tbe[a].who, addr |-> a, data |-> m.data]
<1>17. /\ dmaResps' = dmaResps \cup {r} /\ r.type = "DATA" /\ r.dest = tbe[a].who /\ r.addr = a
       /\ r.data = m.data /\ r.data \in Value
  BY Zenon, <1>3 DEF Types, TBE, MemMsg, DirPUTX, AnsweredBlock
<1> HIDE DEF r
<1>18. \A n : n \in dmaResps' <=> n \in dmaResps \/ n = r
  BY Zenon, <1>17
<1>19. /\ DmaReqsOK'
       /\ \A t, z, b : DmaReq(t, z, b)' <=> DmaReq(t, z, b)
  BY Zenon, <1>2, SameNetworks
<1>20. /\ DmaRespsOK'
       /\ \A t, z : DmaResp(t, z, a)' <=> DmaResp(t, z, a) \/ (t = "DATA" /\ z = tbe[a].who)
  BY Zenon, <1>17, <1>14, <1>16, DmaRespAdded
<1>21. OnlyLine(a)
  BY Zenon, <1>2, <1>5, <1>6, <1>7, <1>17, <1>18, <1>19, <1>20 DEF OnlyLine, SameLine, Types
<1>22. Types'
  BY Zenon, <1>2, <1>T DEF Types
<1>23. DirOK(a)'
  BY Zenon, <1>4, <1>8 DEF LineOK, DirOK
<1>24. ValueOK(a)'
  BY Zenon, <1>4, <1>5, <1>6, <1>11, <1>12, <1>13 DEF LineOK, ValueOK, PutOK
<1>25. ASSUME NEW e \in Cache PROVE CacheOK(e, a)' /\ MissOK(e, a)' /\ TokenOK(e, a)'
  <2>1. CacheOK(e, a) /\ MissOK(e, a) /\ TokenOK(e, a)
    BY Zenon DEF LineOK
  <2> USE <2>1, <1>4, <1>6, <1>7
  <2>2. CacheOK(e, a)'
    BY Zenon, <1>8, <1>9 DEF CacheOK, Accepted
  <2>3. MissOK(e, a)'
    BY Zenon DEF MissOK
  <2>4. TokenOK(e, a)'
    BY Zenon, <1>10, <1>11 DEF TokenOK, Below
  <2> QED BY Zenon, <2>2, <2>3, <2>4
<1>26. ASSUME NEW z \in Dma PROVE DmaOK(z, a)' /\ SeenOK(z, a)'
  <2>1. DmaOK(z, a) /\ SeenOK(z, a)
    BY Zenon DEF LineOK
  <2> USE <2>1, <1>2, <1>4, <1>14, <1>19, <1>20, <1>15
  <2>2. DmaOK(z, a)'
    BY Zenon DEF DmaOK, ReadingFor, WritingFor
  <2>3. SeenOK(z, a)'
    BY Zenon, <1>13, <1>17, <1>18 DEF SeenOK, DmaOK, ReadingFor, WritingFor
  <2> QED BY Zenon, <2>2, <2>3
<1> QED BY Zenon, <1>22, <1>21, <1>23, <1>24, <1>25, <1>26, <1>6, <1>7, <1>19, <1>20
     DEF Kept, LineOK, Networks

(* PUTX of a cache that is no longer the owner (PUTX_NotOwner) is refused. *)
LEMMA NackStep ==
  ASSUME NEW a \in Addr, Types, Networks, LineOK(a), NEW c \in Cache, NEW m \in requests, m.who = c,
         m.addr = a, DirPUTX_NotOwner(m), DirOnly
  PROVE  Kept(a)
<1>1. CacheOK(c, a)
  BY Zenon DEF LineOK
<1>2. /\ m.type = "PUTX" /\ owner[a] # c /\ requests' = requests \ {m} /\ dstate[a] \in {"M", "I"}
      /\ SendForward(c, "WB_NACK", a, c)
      /\ cstate' = cstate /\ cdata' = cdata /\ responses' = responses /\ dstate' = dstate
      /\ owner' = owner /\ tbe' = tbe /\ memq' = memq /\ mem' = mem /\ dma' = dma
      /\ dmaReqs' = dmaReqs /\ dmaResps' = dmaResps /\ latest' = latest /\ seen' = seen
  BY Zenon DEF DirPUTX_NotOwner, dirVars, cacheVars, history, DirOnly
<1>3. /\ cstate' = cstate
      /\ owner[a] # c /\ dstate[a] \in {"M", "I"}
      /\ dstate'[a] = dstate[a] /\ owner'[a] = owner[a] /\ memq'[a] = memq[a]
      /\ cdata' = cdata /\ responses' = responses /\ latest' = latest /\ mem' = mem
  BY Zenon, <1>2
<1>4. \A n : n \in requests' <=> n \in requests /\ n # m
  BY Zenon, <1>2
<1>5. /\ RequestsOK' /\ Req(m.type, c, a) /\ c \in Cache
      /\ \A t, e : Req(t, e, a)' <=> Req(t, e, a) /\ e # c
  BY Zenon, <1>2, RequestRemoved DEF Networks, RequestsOK
<1>6. cstate[c][a] \in {"MI", "II"} /\ ~Fwd("WB_ACK", c, a) /\ ~Fwd("WB_NACK", c, a)
  BY Zenon, <1>2, <1>5, <1>1 DEF CacheOK
<1>7. /\ ForwardOK'
      /\ \A t, b : \A e \in Cache : Fwd(t, e, b)' <=> Fwd(t, e, b) \/ (e = c /\ t = "WB_NACK" /\ b = a)
      /\ \A b, x : \A e \in Cache : FwdFor(e, b, x)' <=> FwdFor(e, b, x)
  <2>1. SendForward(c, "WB_NACK", a, c) /\ c \in Cache
    BY Zenon, <1>2, <1>5
  <2> QED BY <2>1, <1>6, SentNack
<1>8. \A e \in Cache : Holds(e, a)' => Holds(e, a)
  <2>1. \A e \in Cache : Fwd("GETX", e, a)' <=> Fwd("GETX", e, a)
    BY <1>7
  <2> QED BY Zenon, <1>3, <2>1 DEF Holds
<1>9. /\ ResponsesOK'
      /\ \A e, b : Resp(e, b)' <=> Resp(e, b)
      /\ DmaReqsOK' /\ DmaRespsOK'
      /\ \A t, z, b : DmaReq(t, z, b)' <=> DmaReq(t, z, b)
      /\ \A t, z, b : DmaResp(t, z, b)' <=> DmaResp(t, z, b)
  BY Zenon, <1>2, SameNetworks
<1>10. /\ \A n \in requests : n.type \in {"GETX", "PUTX"} /\ n.who \in Cache /\ Req(n.type, n.who, n.addr)
       /\ \A n \in responses : n.dest \in Cache /\ Resp(n.dest, n.addr)
  BY Zenon, MessageViews
<1>11. OnlyLine(a)
  BY Zenon, <1>2, <1>4, <1>5, <1>7, <1>9 DEF OnlyLine, SameLine, Types
<1>12. Types'
  BY Zenon, <1>2, <1>3, InitValueType DEF Types
<1>13. /\ DirOK(a)'
       /\ \A z \in Dma : DmaOK(z, a)'
       /\ \A z \in Dma : SeenOK(z, a)'
  BY Zenon, <1>2, <1>3, SameParts DEF ReadingFor, WritingFor
<1>14. ValueOK(a)'
  BY Zenon, <1>3, <1>4, <1>5, <1>8, <1>10 DEF LineOK, ValueOK, PutOK
<1>15. ASSUME NEW e \in Cache PROVE CacheOK(e, a)' /\ MissOK(e, a)' /\ TokenOK(e, a)'
  <2>1. CacheOK(e, a) /\ MissOK(e, a) /\ TokenOK(e, a)
    BY Zenon DEF LineOK
  <2> USE <2>1, <1>3, <1>5, <1>7, <1>9
  <2>2. CacheOK(e, a)'
    BY Zenon, <1>6 DEF CacheOK, Accepted
  <2>3. MissOK(e, a)'
    BY Zenon DEF MissOK
  <2>4. TokenOK(e, a)'
    BY Zenon, <1>8 DEF TokenOK, Below
  <2> QED BY Zenon, <2>2, <2>3, <2>4
<1> QED BY Zenon, <1>12, <1>11, <1>13, <1>14, <1>15, <1>5, <1>7, <1>9 DEF Kept, LineOK, Networks

(* A DMA request at an idle directory (I DMA_READ, I DMA_WRITE) goes to memory. *)
LEMMA DmaIdleStep ==
  ASSUME NEW a \in Addr, Types, Networks, LineOK(a), NEW d \in Dma, NEW m \in dmaReqs, m.who = d,
         m.addr = a, TakeDmaRequest(m), dstate[a] = "I"
  PROVE  Kept(a)
<1>1. DmaOK(d, a)
  BY Zenon DEF LineOK
<1>2. /\ dstate' = [dstate EXCEPT ![a] = IF m.type = "READ" THEN "ID" ELSE "ID_W"]
      /\ memq' = [memq EXCEPT ![a] = [type |-> IF m.type = "READ" THEN "READ" ELSE "DMA_WB", who |-> d,
                                      data |-> m.data]]
      /\ tbe' = [tbe EXCEPT ![a] = [who |-> d, data |-> m.data]] /\ dmaReqs' = dmaReqs \ {m}
      /\ forward' = forward
      /\ cstate' = cstate /\ cdata' = cdata /\ requests' = requests /\ forward' = forward
      /\ responses' = responses /\ owner' = owner /\ mem' = mem /\ dma' = dma
      /\ dmaResps' = dmaResps /\ latest' = latest /\ seen' = seen
  BY Zenon DEF TakeDmaRequest, SetDir, ToMemory, cacheVars, history
<1>3. m.type \in {"READ", "WRITE"} /\ m.data \in Value
  BY Zenon DEF Networks, DmaReqsOK
<1>T. /\ dstate' \in [Addr -> DirState] /\ memq' \in [Addr -> MemMsg] /\ tbe' \in [Addr -> TBE]
  BY Zenon, <1>2, <1>3 DEF MemMsg, TBE, DirState, Types
<1>4. /\ cstate' = cstate
      /\ dstate[a] = "I" /\ dstate'[a] = IF m.type = "READ" THEN "ID" ELSE "ID_W"
      /\ owner'[a] = owner[a] /\ tbe'[a].who = d
      /\ memq'[a].type = IF m.type = "READ" THEN "READ" ELSE "DMA_WB"
      /\ cdata' = cdata /\ requests' = requests /\ responses' = responses /\ latest' = latest
      /\ mem' = mem
  BY Zenon, <1>2, <1>3 DEF MemMsg, TBE, DirState, Types
<1>5. \A n : n \in dmaReqs' <=> n \in dmaReqs /\ n # m
  BY Zenon, <1>2
<1>6. /\ DmaReqsOK' /\ DmaReq(m.type, d, a)
      /\ \A t, z : DmaReq(t, z, a)' <=> DmaReq(t, z, a) /\ z # d
  BY Zenon, <1>2, DmaReqRemoved
<1>7. /\ DmaRespsOK'
      /\ \A t, z, b : DmaResp(t, z, b)' <=> DmaResp(t, z, b)
  BY Zenon, <1>2, SameNetworks
<1>8. /\ RequestsOK'
      /\ \A t, e, b : Req(t, e, b)' <=> Req(t, e, b)
      /\ ForwardOK'
      /\ \A t, e, b : Fwd(t, e, b)' <=> Fwd(t, e, b)
      /\ \A e, b, w : FwdFor(e, b, w)' <=> FwdFor(e, b, w)
      /\ ResponsesOK'
      /\ \A e, b : Resp(e, b)' <=> Resp(e, b)
  BY Zenon, <1>2, SameNetworks
<1>9. \A e \in Cache : Holds(e, a)' => Holds(e, a)
  BY Zenon, <1>4, <1>8 DEF Holds
<1>10. /\ \A n \in requests : n.type \in {"GETX", "PUTX"} /\ n.who \in Cache /\ Req(n.type, n.who, n.addr)
       /\ \A n \in responses : n.dest \in Cache /\ Resp(n.dest, n.addr)
  BY Zenon, MessageViews
<1>11. OnlyLine(a)
  BY Zenon, <1>2, <1>5, <1>6, <1>7, <1>8 DEF OnlyLine, SameLine, Types
<1>12. Types'
  BY Zenon, <1>2, <1>T DEF Types
<1>13. /\ \A z \in Dma : SeenOK(z, a)'
  BY Zenon, <1>2, <1>4, <1>6 DEF LineOK, SeenOK
<1>14. DirOK(a)'
  BY Zenon, <1>3, <1>4 DEF LineOK, DirOK
<1>15. ValueOK(a)'
  BY Zenon, <1>4, <1>8, <1>9, <1>10 DEF LineOK, ValueOK, PutOK
<1>16. ASSUME NEW e \in Cache PROVE CacheOK(e, a)' /\ MissOK(e, a)' /\ TokenOK(e, a)'
  <2>1. CacheOK(e, a) /\ MissOK(e, a) /\ TokenOK(e, a)
    BY Zenon DEF LineOK
  <2> USE <2>1, <1>4, <1>8
  <2>2. CacheOK(e, a)'
    BY Zenon DEF CacheOK, Accepted
  <2>3. MissOK(e, a)'
    BY Zenon DEF MissOK
  <2>4. TokenOK(e, a)'
    BY Zenon, <1>9 DEF TokenOK, Below
  <2> QED BY Zenon, <2>2, <2>3, <2>4
<1>17. ASSUME NEW z \in Dma PROVE DmaOK(z, a)'
  <2>1. DmaOK(z, a) /\ dma' = dma
    BY Zenon, <1>2 DEF LineOK
  <2>2. CASE z # d
    <3>1. ~ReadingFor(z, a)' /\ ~WritingFor(z, a)'
      BY Zenon, <2>2, <1>4 DEF ReadingFor, WritingFor
    <3> QED BY Zenon, <2>1, <2>2, <3>1, <1>6, <1>7 DEF DmaOK
  <2>3. CASE z = d
    <3>1. \A t : ~DmaReq(t, z, a)'
      BY Zenon, <2>3, <1>6
    <3>2. CASE m.type = "READ"
      <4>1. ~WritingFor(z, a)'
        BY Zenon, <3>2, <1>4 DEF WritingFor
      <4>2. DmaReq("READ", z, a)
        BY Zenon, <2>3, <3>2, <1>6
      <4> QED BY Zenon, <2>1, <3>1, <4>1, <4>2, <1>7 DEF DmaOK
    <3>3. CASE m.type = "WRITE"
      <4>1. ~ReadingFor(z, a)'
        BY Zenon, <3>3, <1>4 DEF ReadingFor
      <4>2. DmaReq("WRITE", z, a)
        BY Zenon, <2>3, <3>3, <1>6
      <4> QED BY Zenon, <2>1, <3>1, <4>1, <4>2, <1>7 DEF DmaOK
    <3> QED BY Zenon, <3>2, <3>3, <1>3
  <2> QED BY Zenon, <2>2, <2>3
<1> QED BY Zenon, <1>12, <1>11, <1>13, <1>14, <1>15, <1>16, <1>17, <1>6, <1>7, <1>8
     DEF Kept, LineOK, Networks

(* A DMA request for an owned line (M DMA_READ, M DMA_WRITE) invalidates the owner. *)
LEMMA DmaOwnedStep ==
  ASSUME NEW a \in Addr, Types, Networks, LineOK(a), NEW d \in Dma, NEW m \in dmaReqs, m.who = d,
         m.addr = a, TakeDmaRequest(m), dstate[a] = "M"
  PROVE  Kept(a)
<1>1. DmaOK(d, a)
  BY Zenon DEF LineOK
<1>2. /\ dstate' = [dstate EXCEPT ![a] = IF m.type = "READ" THEN "M_DRD" ELSE "M_DWR"]
      /\ tbe' = [tbe EXCEPT ![a] = [who |-> d, data |-> m.data]] /\ dmaReqs' = dmaReqs \ {m}
      /\ SendForward(owner[a], "INV", a, NoOne) /\ memq' = memq
      /\ cstate' = cstate /\ cdata' = cdata /\ requests' = requests /\ responses' = responses
      /\ owner' = owner /\ memq' = memq /\ mem' = mem /\ dma' = dma /\ dmaResps' = dmaResps
      /\ latest' = latest /\ seen' = seen
  BY Zenon DEF TakeDmaRequest, SetDir, cacheVars, history
<1>3. m.type \in {"READ", "WRITE"} /\ m.data \in Value
  BY Zenon DEF Networks, DmaReqsOK
<1>T. /\ dstate' \in [Addr -> DirState] /\ tbe' \in [Addr -> TBE]
  BY Zenon, <1>2, <1>3 DEF MemMsg, TBE, DirState, Types
<1>4. /\ cstate' = cstate
      /\ dstate[a] = "M" /\ dstate'[a] = IF m.type = "READ" THEN "M_DRD" ELSE "M_DWR"
      /\ owner'[a] = owner[a] /\ tbe'[a].who = d
      /\ memq'[a] = memq[a]
      /\ cdata' = cdata /\ requests' = requests /\ responses' = responses /\ latest' = latest
      /\ mem' = mem
  BY Zenon, <1>2, <1>3 DEF MemMsg, TBE, DirState, Types
<1>5. \A n : n \in dmaReqs' <=> n \in dmaReqs /\ n # m
  BY Zenon, <1>2
<1>6. /\ DmaReqsOK' /\ DmaReq(m.type, d, a)
      /\ \A t, z : DmaReq(t, z, a)' <=> DmaReq(t, z, a) /\ z # d
  BY Zenon, <1>2, DmaReqRemoved
<1>7. /\ DmaRespsOK'
      /\ \A t, z, b : DmaResp(t, z, b)' <=> DmaResp(t, z, b)
  BY Zenon, <1>2, SameNetworks
<1>8. /\ RequestsOK'
      /\ \A t, e, b : Req(t, e, b)' <=> Req(t, e, b)
      /\ ResponsesOK'
      /\ \A e, b : Resp(e, b)' <=> Resp(e, b)
  BY Zenon, <1>2, SameNetworks
<1>9. owner[a] \in Cache
  BY Zenon, <1>1 DEF LineOK, Types, DirOK
<1>10. /\ ForwardOK'
       /\ \A t, b : \A e \in Cache : t # "INV" => (Fwd(t, e, b)' <=> Fwd(t, e, b))
       /\ \A b, x : \A e \in Cache : FwdFor(e, b, x)' <=> FwdFor(e, b, x)
  BY Zenon, <1>2, <1>9, SentInv
<1>11. \A e \in Cache : Holds(e, a)' => Holds(e, a)
  BY Zenon, <1>4, <1>10 DEF Holds
<1>12. /\ \A n \in requests : n.type \in {"GETX", "PUTX"} /\ n.who \in Cache /\ Req(n.type, n.who, n.addr)
       /\ \A n \in responses : n.dest \in Cache /\ Resp(n.dest, n.addr)
  BY Zenon, MessageViews
<1>13. OnlyLine(a)
  BY Zenon, <1>2, <1>5, <1>6, <1>7, <1>8, <1>10 DEF OnlyLine, SameLine, Types
<1>14. Types'
  BY Zenon, <1>2, <1>T DEF Types
<1>15. /\ \A z \in Dma : SeenOK(z, a)'
  BY Zenon, <1>2, <1>4, <1>6 DEF LineOK, SeenOK
<1>16. DirOK(a)'
  BY Zenon, <1>3, <1>4 DEF LineOK, DirOK
<1>17. ValueOK(a)'
  BY Zenon, <1>4, <1>8, <1>11, <1>12 DEF LineOK, ValueOK, PutOK
<1>18. ASSUME NEW e \in Cache PROVE CacheOK(e, a)' /\ MissOK(e, a)' /\ TokenOK(e, a)'
  <2>1. CacheOK(e, a) /\ MissOK(e, a) /\ TokenOK(e, a)
    BY Zenon DEF LineOK
  <2> USE <2>1, <1>4, <1>8, <1>10
  <2>2. CacheOK(e, a)'
    BY Zenon DEF CacheOK, Accepted
  <2>3. MissOK(e, a)'
    BY Zenon DEF MissOK
  <2>4. TokenOK(e, a)'
    BY Zenon, <1>11 DEF TokenOK, Below
  <2> QED BY Zenon, <2>2, <2>3, <2>4
<1>19. ASSUME NEW z \in Dma PROVE DmaOK(z, a)'
  <2>1. DmaOK(z, a) /\ dma' = dma
    BY Zenon, <1>2 DEF LineOK
  <2>2. CASE z # d
    <3>1. ~ReadingFor(z, a)' /\ ~WritingFor(z, a)'
      BY Zenon, <2>2, <1>4 DEF ReadingFor, WritingFor
    <3> QED BY Zenon, <2>1, <2>2, <3>1, <1>6, <1>7 DEF DmaOK
  <2>3. CASE z = d
    <3>1. \A t : ~DmaReq(t, z, a)'
      BY Zenon, <2>3, <1>6
    <3>2. CASE m.type = "READ"
      <4>1. ~WritingFor(z, a)'
        BY Zenon, <3>2, <1>4 DEF WritingFor
      <4>2. DmaReq("READ", z, a)
        BY Zenon, <2>3, <3>2, <1>6
      <4> QED BY Zenon, <2>1, <3>1, <4>1, <4>2, <1>7 DEF DmaOK
    <3>3. CASE m.type = "WRITE"
      <4>1. ~ReadingFor(z, a)'
        BY Zenon, <3>3, <1>4 DEF ReadingFor
      <4>2. DmaReq("WRITE", z, a)
        BY Zenon, <2>3, <3>3, <1>6
      <4> QED BY Zenon, <2>1, <3>1, <4>1, <4>2, <1>7 DEF DmaOK
    <3> QED BY Zenon, <3>2, <3>3, <1>3
  <2> QED BY Zenon, <2>2, <2>3
<1> QED BY Zenon, <1>14, <1>13, <1>15, <1>16, <1>17, <1>18, <1>19, <1>6, <1>7, <1>8, <1>10
     DEF Kept, LineOK, Networks

(* The memory answers a read with the block it has, which is the latest. *)
LEMMA MemoryReadStep ==
  ASSUME NEW a \in Addr, Types, Networks, LineOK(a), Memory(a), memq[a].type = "READ"
  PROVE  Kept(a)
<1>1. /\ memq[a].type = "READ" /\ memq' = [memq EXCEPT ![a].type = "Data", ![a].data = mem[a]]
      /\ cstate' = cstate /\ cdata' = cdata /\ requests' = requests /\ forward' = forward
      /\ responses' = responses /\ dstate' = dstate /\ owner' = owner /\ tbe' = tbe /\ mem' = mem
      /\ dma' = dma /\ dmaReqs' = dmaReqs /\ dmaResps' = dmaResps /\ latest' = latest
      /\ seen' = seen
  BY Zenon DEF Memory, cacheVars, netVars, dmaVars, history
<1>2. [memq[a] EXCEPT !.type = "Data", !.data = mem[a]] \in MemMsg
  BY Zenon DEF Types, MemMsg
<1>T. memq' \in [Addr -> MemMsg]
  BY Zenon, <1>1, <1>2 DEF Types, MemMsg, TBE, DirState
<1>3. /\ cstate' = cstate
      /\ dstate'[a] = dstate[a] /\ owner'[a] = owner[a] /\ tbe'[a] = tbe[a]
      /\ memq[a].type = "READ" /\ memq'[a].type = "Data" /\ memq'[a].who = memq[a].who
      /\ memq'[a].data = mem[a]
      /\ cdata' = cdata /\ requests' = requests /\ responses' = responses /\ latest' = latest
      /\ mem' = mem
  BY Zenon, <1>1, <1>2 DEF Types, MemMsg, TBE, DirState
<1>4. /\ RequestsOK'
      /\ \A t, e, b : Req(t, e, b)' <=> Req(t, e, b)
      /\ ForwardOK'
      /\ \A t, e, b : Fwd(t, e, b)' <=> Fwd(t, e, b)
      /\ \A e, b, w : FwdFor(e, b, w)' <=> FwdFor(e, b, w)
      /\ ResponsesOK'
      /\ \A e, b : Resp(e, b)' <=> Resp(e, b)
      /\ DmaReqsOK' /\ DmaRespsOK'
      /\ \A t, z, b : DmaReq(t, z, b)' <=> DmaReq(t, z, b)
      /\ \A t, z, b : DmaResp(t, z, b)' <=> DmaResp(t, z, b)
  BY Zenon, <1>1, SameNetworks
<1>5. \A e \in Cache : Holds(e, a)' => Holds(e, a)
  BY Zenon, <1>3, <1>4 DEF Holds
<1>6. /\ \A n \in requests : n.type \in {"GETX", "PUTX"} /\ n.who \in Cache /\ Req(n.type, n.who, n.addr)
      /\ \A n \in responses : n.dest \in Cache /\ Resp(n.dest, n.addr)
  BY Zenon, MessageViews
<1>7. OnlyLine(a)
  BY Zenon, <1>1, <1>4 DEF OnlyLine, SameLine, Types
<1>8. Types'
  BY Zenon, <1>1, <1>T DEF Types
<1>9. /\ \A z \in Dma : DmaOK(z, a)'
      /\ \A z \in Dma : SeenOK(z, a)'
  BY Zenon, <1>1, <1>3, SameParts DEF ReadingFor, WritingFor
<1>10. DirOK(a)'
  BY Zenon, <1>3 DEF LineOK, DirOK
<1>11. ValueOK(a)'
  BY Zenon, <1>3, <1>4, <1>5, <1>6 DEF LineOK, ValueOK, PutOK
<1>12. ASSUME NEW e \in Cache PROVE CacheOK(e, a)' /\ MissOK(e, a)' /\ TokenOK(e, a)'
  <2>1. CacheOK(e, a) /\ MissOK(e, a) /\ TokenOK(e, a)
    BY Zenon DEF LineOK
  <2> USE <2>1, <1>3, <1>4
  <2>2. CacheOK(e, a)'
    BY Zenon DEF CacheOK, Accepted
  <2>3. MissOK(e, a)'
    BY Zenon DEF MissOK
  <2>4. TokenOK(e, a)'
    BY Zenon, <1>5 DEF TokenOK, Below
  <2> QED BY Zenon, <2>2, <2>3, <2>4
<1> QED BY Zenon, <1>8, <1>7, <1>9, <1>10, <1>11, <1>12, <1>4 DEF Kept, LineOK, Networks

(* The memory performs a write; a DMA write is the latest value from here on. *)
LEMMA MemoryWriteStep ==
  ASSUME NEW a \in Addr, Types, Networks, LineOK(a), Memory(a), memq[a].type \in {"WB", "DMA_WB"}
  PROVE  Kept(a)
<1>1. /\ mem' = [mem EXCEPT ![a] = memq[a].data] /\ memq' = [memq EXCEPT ![a].type = "Ack"]
      /\ IF memq[a].type = "DMA_WB" THEN Written(a, memq[a].data) ELSE UNCHANGED history
      /\ cstate' = cstate /\ cdata' = cdata /\ requests' = requests /\ forward' = forward
      /\ responses' = responses /\ dstate' = dstate /\ owner' = owner /\ tbe' = tbe /\ dma' = dma
      /\ dmaReqs' = dmaReqs /\ dmaResps' = dmaResps
  BY Zenon DEF Memory, cacheVars, netVars, dmaVars, history
<1>2. memq[a].data \in Value
  BY Zenon DEF Types, MemMsg
<1>T. /\ memq' \in [Addr -> MemMsg] /\ mem' \in [Addr -> Value]
  BY ZenonT(40), <1>1 DEF MemMsg, TBE, DirState, Types
<1>3. /\ cstate' = cstate
      /\ dstate'[a] = dstate[a] /\ owner'[a] = owner[a] /\ tbe'[a] = tbe[a]
      /\ memq[a].type \in {"WB", "DMA_WB"} /\ memq'[a].type = "Ack" /\ memq'[a].who = memq[a].who
      /\ cdata' = cdata /\ requests' = requests /\ responses' = responses /\ mem'[a] = memq[a].data
      /\ dma' = dma /\ dmaResps' = dmaResps
  BY Zenon, <1>1 DEF MemMsg, TBE, DirState, Types
<1>4. /\ latest' \in [Addr -> Value] /\ seen' \in [Dma -> [Addr -> SUBSET Value]]
      /\ \A b \in Addr : latest'[b] = IF b = a THEN memq[a].data ELSE latest[b]
      /\ \A z \in Dma, b \in Addr : seen[z][b] \subseteq seen'[z][b] /\ (b # a => seen'[z][b] = seen[z][b])
      /\ \A z \in Dma : dma[z][a] = "BUSY_RD" => latest'[a] \in seen'[z][a]
  BY <1>1, <1>2, WrittenHistory, SameHistory DEF LineOK, ValueOK, PutOK
<1>5. Below(a)
  BY Zenon, <1>3 DEF LineOK, DirOK, Below, Types, DirState
<1>6. \A e \in Cache : ~Holds(e, a) /\ ~Resp(e, a)
  BY Zenon, <1>5 DEF LineOK, TokenOK
<1>7. /\ RequestsOK'
      /\ \A t, e, b : Req(t, e, b)' <=> Req(t, e, b)
      /\ ForwardOK'
      /\ \A t, e, b : Fwd(t, e, b)' <=> Fwd(t, e, b)
      /\ \A e, b, w : FwdFor(e, b, w)' <=> FwdFor(e, b, w)
      /\ ResponsesOK'
      /\ \A e, b : Resp(e, b)' <=> Resp(e, b)
      /\ DmaReqsOK' /\ DmaRespsOK'
      /\ \A t, z, b : DmaReq(t, z, b)' <=> DmaReq(t, z, b)
      /\ \A t, z, b : DmaResp(t, z, b)' <=> DmaResp(t, z, b)
  BY Zenon, <1>1, SameNetworks
<1>8. \A e \in Cache : Holds(e, a)' <=> Holds(e, a)
  BY Zenon, <1>3, <1>7 DEF Holds
<1>9. /\ \A n \in requests : n.type \in {"GETX", "PUTX"} /\ n.who \in Cache /\ Req(n.type, n.who, n.addr)
      /\ \A n \in responses : n.dest \in Cache /\ Resp(n.dest, n.addr)
  BY Zenon, MessageViews
<1>10. OnlyLine(a)
  BY Zenon, <1>1, <1>4, <1>7 DEF OnlyLine, SameLine, Types
<1>11. Types'
  BY Zenon, <1>1, <1>4, <1>T DEF Types
<1>12. /\ \A z \in Dma : DmaOK(z, a)'
  BY Zenon, <1>1, <1>3, SameParts DEF ReadingFor, WritingFor
<1>13. DirOK(a)'
  BY Zenon, <1>3 DEF LineOK, DirOK
<1>14. ValueOK(a)'
  BY ZenonT(40), <1>3, <1>4, <1>6, <1>7, <1>8, <1>9 DEF LineOK, ValueOK, PutOK, DirOK
<1>15. ASSUME NEW e \in Cache PROVE CacheOK(e, a)' /\ MissOK(e, a)' /\ TokenOK(e, a)'
  <2>1. CacheOK(e, a) /\ MissOK(e, a) /\ TokenOK(e, a)
    BY Zenon DEF LineOK
  <2> USE <2>1, <1>3, <1>7
  <2>2. CacheOK(e, a)'
    BY Zenon DEF CacheOK, Accepted
  <2>3. MissOK(e, a)'
    BY Zenon DEF MissOK
  <2>4. TokenOK(e, a)'
    BY Zenon, <1>8 DEF TokenOK, Below
  <2> QED BY Zenon, <2>2, <2>3, <2>4
<1>16. ASSUME NEW z \in Dma PROVE SeenOK(z, a)'
  BY Zenon, <1>3, <1>4, <1>7 DEF LineOK, SeenOK
<1> QED BY Zenon, <1>11, <1>10, <1>12, <1>13, <1>14, <1>15, <1>16, <1>7 DEF Kept, LineOK, Networks

(* The block read for a cache goes to it (IM Memory_Data): no other copy exists. *)
LEMMA MemoryDataStep ==
  ASSUME NEW a \in Addr, Types, Networks, LineOK(a), DirMemory(a), memq[a].type = "Data",
         dstate[a] = "IM"
  PROVE  Kept(a)
<1>1. /\ dstate' = [dstate EXCEPT ![a] = "M"]
      /\ memq' = [memq EXCEPT ![a] = NoMem]
      /\ cstate' = cstate /\ cdata' = cdata /\ requests' = requests /\ forward' = forward
      /\ owner' = owner /\ tbe' = tbe /\ mem' = mem /\ dma' = dma /\ dmaReqs' = dmaReqs
      /\ dmaResps' = dmaResps /\ latest' = latest /\ seen' = seen
  BY Zenon DEF DirMemory, Memory_Data, Memory_Ack, SetDir, cacheVars, history
<1>2. owner[a] \in Cache /\ memq[a].who = owner[a] /\ memq[a].who \in Cache
  BY Zenon, <1>1 DEF LineOK, Types, DirOK
<1>T. /\ dstate' \in [Addr -> DirState] /\ memq' \in [Addr -> MemMsg]
  BY Zenon, <1>1, InitValueType DEF NoMem, MemMsg, DirState, Types
<1>3. /\ cstate' = cstate
      /\ dstate[a] = "IM" /\ dstate'[a] = "M"
      /\ owner'[a] = owner[a] /\ tbe'[a] = tbe[a]
      /\ memq[a].type = "Data" /\ memq'[a].type = "None"
      /\ cdata' = cdata /\ requests' = requests /\ latest' = latest /\ mem' = mem
  BY Zenon, <1>1, InitValueType DEF NoMem, MemMsg, DirState, Types
<1>4. \A e \in Cache : ~Holds(e, a) /\ ~Resp(e, a)
  BY Zenon, <1>3 DEF LineOK, TokenOK, Below
<1>5. /\ \A n \in requests : n.type \in {"GETX", "PUTX"} /\ n.who \in Cache /\ Req(n.type, n.who, n.addr)
      /\ \A n \in responses : n.dest \in Cache /\ Resp(n.dest, n.addr)
  BY Zenon, MessageViews
<1>6. \A n \in responses : n.addr # a
  BY Zenon, <1>4, <1>5
<1> DEFINE r == [dest |-> memq[a].who, addr |-> a, data |-> memq[a].data]
<1>7. /\ responses' = responses \cup {r} /\ r.dest = memq[a].who /\ r.addr = a
      /\ r.data = memq[a].data /\ r.data \in Value
  BY Zenon DEF Types, MemMsg, DirMemory, Memory_Data, Memory_Ack
<1> HIDE DEF r
<1>8. \A m : m \in responses' <=> m \in responses \/ m = r
  BY Zenon, <1>7
<1>9. /\ ResponsesOK'
      /\ \A e : Resp(e, a)' <=> Resp(e, a) \/ e = memq[a].who
  BY Zenon, <1>7, <1>2, <1>6, ResponseAdded
<1>10. /\ RequestsOK'
       /\ \A t, e, b : Req(t, e, b)' <=> Req(t, e, b)
       /\ ForwardOK'
       /\ \A t, e, b : Fwd(t, e, b)' <=> Fwd(t, e, b)
       /\ \A e, b, w : FwdFor(e, b, w)' <=> FwdFor(e, b, w)
       /\ DmaReqsOK' /\ DmaRespsOK'
       /\ \A t, z, b : DmaReq(t, z, b)' <=> DmaReq(t, z, b)
       /\ \A t, z, b : DmaResp(t, z, b)' <=> DmaResp(t, z, b)
  BY Zenon, <1>1, SameNetworks
<1>11. \A e \in Cache : ~Holds(e, a)'
  BY Zenon, <1>3, <1>10, <1>4 DEF Holds
<1>12. OnlyLine(a)
  BY Zenon, <1>1, <1>7, <1>8, <1>9, <1>10 DEF OnlyLine, SameLine, Types
<1>13. Types'
  BY Zenon, <1>1, <1>T DEF Types
<1>14. /\ \A z \in Dma : DmaOK(z, a)'
       /\ \A z \in Dma : SeenOK(z, a)'
  BY Zenon, <1>1, <1>3, SameParts DEF ReadingFor, WritingFor
<1>15. DirOK(a)'
  BY Zenon, <1>3 DEF LineOK, DirOK
<1>16. ValueOK(a)'
  BY Zenon, <1>3, <1>5, <1>7, <1>8, <1>10, <1>11 DEF LineOK, ValueOK, PutOK
<1>17. ASSUME NEW e \in Cache PROVE CacheOK(e, a)' /\ MissOK(e, a)' /\ TokenOK(e, a)'
  <2>1. CacheOK(e, a) /\ MissOK(e, a) /\ TokenOK(e, a)
    BY Zenon DEF LineOK
  <2> USE <2>1, <1>3, <1>10, <1>4, <1>9
  <2>2. CacheOK(e, a)'
    BY Zenon DEF CacheOK, Accepted
  <2>3. MissOK(e, a)'
    BY Zenon, <1>2 DEF MissOK
  <2>4. TokenOK(e, a)'
    BY Zenon, <1>11 DEF TokenOK, Below
  <2> QED BY Zenon, <2>2, <2>3, <2>4
<1> QED BY Zenon, <1>13, <1>12, <1>14, <1>15, <1>16, <1>17, <1>9, <1>10 DEF Kept, LineOK, Networks

(***************************************************************************)
(* The block read for a DMA controller goes to it (ID Memory_Data): a      *)
(* value the line has had since the DMA read was issued.                   *)
(***************************************************************************)
LEMMA MemoryDmaStep ==
  ASSUME NEW a \in Addr, Types, Networks, LineOK(a), DirMemory(a), memq[a].type = "Data",
         dstate[a] = "ID"
  PROVE  Kept(a)
<1>1. /\ dstate' = [dstate EXCEPT ![a] = "I"]
      /\ memq' = [memq EXCEPT ![a] = NoMem]
      /\ tbe' = [tbe EXCEPT ![a] = NoTBE]
      /\ cstate' = cstate /\ cdata' = cdata /\ requests' = requests /\ forward' = forward
      /\ responses' = responses /\ owner' = owner /\ mem' = mem /\ dma' = dma
      /\ dmaReqs' = dmaReqs /\ latest' = latest /\ seen' = seen
  BY Zenon DEF DirMemory, Memory_Data, Memory_Ack, SetDir, cacheVars, history
<1>2. tbe[a].who \in Dma
  BY Zenon DEF LineOK, DirOK
<1>T. /\ dstate' \in [Addr -> DirState] /\ memq' \in [Addr -> MemMsg] /\ tbe' \in [Addr -> TBE]
  BY Zenon, <1>1, InitValueType DEF NoMem, NoTBE, TBE, MemMsg, DirState, Types
<1>3. /\ cstate' = cstate
      /\ dstate[a] = "ID" /\ dstate'[a] = "I"
      /\ owner'[a] = owner[a]
      /\ memq[a].type = "Data" /\ memq'[a].type = "None"
      /\ cdata' = cdata /\ requests' = requests /\ responses' = responses /\ latest' = latest
      /\ mem' = mem
  BY Zenon, <1>1, InitValueType DEF NoMem, NoTBE, TBE, MemMsg, DirState, Types
<1>4. DmaOK(tbe[a].who, a) /\ SeenOK(tbe[a].who, a)
  BY Zenon, <1>2 DEF LineOK
<1>5. \A n \in dmaResps : ~(n.dest = tbe[a].who /\ n.addr = a)
  BY Zenon, <1>3, <1>2, MessageViews, <1>4 DEF DmaOK, ReadingFor
<1> DEFINE r == [type |-> "DATA", dest |-> tbe[a].who, addr |-> a, data |-> memq[a].data]
<1>6. /\ dmaResps' = dmaResps \cup {r} /\ r.type = "DATA" /\ r.dest = tbe[a].who /\ r.addr = a
      /\ r.data = memq[a].data /\ r.data \in Value
  BY Zenon DEF Types, TBE, MemMsg, DirMemory, Memory_Data, Memory_Ack
<1> HIDE DEF r
<1>7. \A n : n \in dmaResps' <=> n \in dmaResps \/ n = r
  BY Zenon, <1>6
<1>8. memq[a].data = latest[a] /\ dma[tbe[a].who][a] = "BUSY_RD"
  BY Zenon, <1>3, <1>2, <1>4 DEF LineOK, ValueOK, PutOK, DmaOK, ReadingFor
<1>9. /\ DmaReqsOK'
      /\ \A t, z, b : DmaReq(t, z, b)' <=> DmaReq(t, z, b)
  BY Zenon, <1>1, SameNetworks
<1>10. /\ DmaRespsOK'
       /\ \A t, z : DmaResp(t, z, a)' <=> DmaResp(t, z, a) \/ (t = "DATA" /\ z = tbe[a].who)
  BY Zenon, <1>6, <1>2, <1>5, DmaRespAdded
<1>11. /\ RequestsOK'
       /\ \A t, e, b : Req(t, e, b)' <=> Req(t, e, b)
       /\ ForwardOK'
       /\ \A t, e, b : Fwd(t, e, b)' <=> Fwd(t, e, b)
       /\ \A e, b, w : FwdFor(e, b, w)' <=> FwdFor(e, b, w)
       /\ ResponsesOK'
       /\ \A e, b : Resp(e, b)' <=> Resp(e, b)
  BY Zenon, <1>1, SameNetworks
<1>12. \A e \in Cache : Holds(e, a)' => Holds(e, a)
  BY Zenon, <1>3, <1>11 DEF Holds
<1>13. /\ \A n \in requests : n.type \in {"GETX", "PUTX"} /\ n.who \in Cache /\ Req(n.type, n.who, n.addr)
       /\ \A n \in responses : n.dest \in Cache /\ Resp(n.dest, n.addr)
  BY Zenon, MessageViews
<1>14. OnlyLine(a)
  BY Zenon, <1>1, <1>6, <1>7, <1>9, <1>10, <1>11 DEF OnlyLine, SameLine, Types
<1>15. Types'
  BY Zenon, <1>1, <1>T DEF Types
<1>16. DirOK(a)'
  BY Zenon, <1>3 DEF LineOK, DirOK
<1>17. ValueOK(a)'
  BY Zenon, <1>3, <1>11, <1>12, <1>13 DEF LineOK, ValueOK, PutOK
<1>18. ASSUME NEW e \in Cache PROVE CacheOK(e, a)' /\ MissOK(e, a)' /\ TokenOK(e, a)'
  <2>1. CacheOK(e, a) /\ MissOK(e, a) /\ TokenOK(e, a)
    BY Zenon DEF LineOK
  <2> USE <2>1, <1>3, <1>11
  <2>2. CacheOK(e, a)'
    BY Zenon DEF CacheOK, Accepted
  <2>3. MissOK(e, a)'
    BY Zenon DEF MissOK
  <2>4. TokenOK(e, a)'
    BY Zenon, <1>12 DEF TokenOK, Below
  <2> QED BY Zenon, <2>2, <2>3, <2>4
<1>19. ASSUME NEW z \in Dma PROVE DmaOK(z, a)' /\ SeenOK(z, a)'
  <2>1. DmaOK(z, a) /\ SeenOK(z, a)
    BY Zenon DEF LineOK
  <2> USE <2>1, <1>1, <1>2, <1>3, <1>9, <1>10, <1>4
  <2>2. DmaOK(z, a)'
    BY Zenon DEF DmaOK, ReadingFor, WritingFor
  <2>3. SeenOK(z, a)'
    BY ZenonT(40), <1>6, <1>7, <1>8 DEF SeenOK, DmaOK, ReadingFor, WritingFor
  <2> QED BY Zenon, <2>2, <2>3
<1> QED BY Zenon, <1>15, <1>14, <1>16, <1>17, <1>18, <1>19, <1>9, <1>10, <1>11
     DEF Kept, LineOK, Networks

(* A writeback is acknowledged to the cache that sent it (MI and M_DRDI Memory_Ack). *)
LEMMA AckStep ==
  ASSUME NEW a \in Addr, Types, Networks, LineOK(a), DirMemory(a), memq[a].type = "Ack",
         dstate[a] \in {"MI", "M_DRDI"}
  PROVE  Kept(a)
<1>1. /\ memq[a].type = "Ack"
      /\ dstate' = [dstate EXCEPT ![a] = "I"]
      /\ tbe' = [tbe EXCEPT ![a] = NoTBE]
      /\ memq' = [memq EXCEPT ![a] = NoMem] /\ responses' = responses
      /\ SendForward(memq[a].who, "WB_ACK", a, memq[a].who) /\ dmaResps' = dmaResps
      /\ cstate' = cstate /\ cdata' = cdata /\ requests' = requests /\ responses' = responses
      /\ owner' = owner /\ mem' = mem /\ dma' = dma /\ dmaReqs' = dmaReqs /\ dmaResps' = dmaResps
      /\ latest' = latest /\ seen' = seen
  BY Zenon DEF DirMemory, Memory_Data, Memory_Ack, SetDir, cacheVars, history
<1>T. /\ dstate' \in [Addr -> DirState] /\ memq' \in [Addr -> MemMsg] /\ tbe' \in [Addr -> TBE]
  BY Zenon, <1>1, InitValueType DEF NoMem, NoTBE, TBE, MemMsg, DirState, Types
<1>2. /\ cstate' = cstate
      /\ dstate[a] \in {"MI", "M_DRDI"} /\ dstate'[a] = "I"
      /\ owner'[a] = owner[a]
      /\ memq[a].type = "Ack" /\ memq'[a].type = "None"
      /\ cdata' = cdata /\ requests' = requests /\ responses' = responses /\ latest' = latest
      /\ mem' = mem
  BY Zenon, <1>1, InitValueType DEF NoMem, NoTBE, TBE, MemMsg, DirState, Types
<1>3. owner[a] \notin Cache
  BY Zenon, <1>2, MIAssumption DEF LineOK, DirOK
<1>4. memq[a].who \in Cache
  BY Zenon, <1>2 DEF LineOK, DirOK
<1>5. CacheOK(memq[a].who, a)
  BY Zenon, <1>4 DEF LineOK
<1>6. /\ cstate[memq[a].who][a] = "MI" /\ ~Fwd("GETX", memq[a].who, a)
      /\ ~Req("PUTX", memq[a].who, a) /\ ~Fwd("WB_ACK", memq[a].who, a)
      /\ ~Fwd("WB_NACK", memq[a].who, a)
  BY Zenon, <1>2, <1>5 DEF CacheOK, Accepted
<1>7. /\ ForwardOK'
      /\ \A t, b : \A e \in Cache : Fwd(t, e, b)' <=> Fwd(t, e, b) \/ (e = memq[a].who /\ t = "WB_ACK" /\ b = a)
      /\ \A b, x : \A e \in Cache : FwdFor(e, b, x)' <=> FwdFor(e, b, x)
  BY Zenon, <1>1, <1>4, <1>6, SentAck
<1>8. /\ RequestsOK'
      /\ \A t, e, b : Req(t, e, b)' <=> Req(t, e, b)
      /\ ResponsesOK'
      /\ \A e, b : Resp(e, b)' <=> Resp(e, b)
      /\ DmaReqsOK' /\ DmaRespsOK'
      /\ \A t, z, b : DmaReq(t, z, b)' <=> DmaReq(t, z, b)
      /\ \A t, z, b : DmaResp(t, z, b)' <=> DmaResp(t, z, b)
  BY Zenon, <1>1, SameNetworks
<1>9. \A e \in Cache : Holds(e, a)' => Holds(e, a)
  <2>1. \A e \in Cache : Fwd("GETX", e, a)' <=> Fwd("GETX", e, a)
    BY <1>7
  <2> QED BY Zenon, <1>2, <2>1 DEF Holds
<1>10. /\ \A n \in requests : n.type \in {"GETX", "PUTX"} /\ n.who \in Cache /\ Req(n.type, n.who, n.addr)
       /\ \A n \in responses : n.dest \in Cache /\ Resp(n.dest, n.addr)
  BY Zenon, MessageViews
<1>11. OnlyLine(a)
  BY Zenon, <1>1, <1>7, <1>8 DEF OnlyLine, SameLine, Types
<1>12. Types'
  BY Zenon, <1>1, <1>T DEF Types
<1>13. /\ \A z \in Dma : DmaOK(z, a)'
       /\ \A z \in Dma : SeenOK(z, a)'
  BY Zenon, <1>1, <1>2, SameParts DEF ReadingFor, WritingFor
<1>14. DirOK(a)'
  BY Zenon, <1>2 DEF LineOK, DirOK
<1>15. ValueOK(a)'
  BY Zenon, <1>2, <1>8, <1>9, <1>10 DEF LineOK, ValueOK, PutOK
<1>16. ASSUME NEW e \in Cache PROVE CacheOK(e, a)' /\ MissOK(e, a)' /\ TokenOK(e, a)'
  <2>1. CacheOK(e, a) /\ MissOK(e, a) /\ TokenOK(e, a)
    BY Zenon DEF LineOK
  <2> USE <2>1, <1>2, <1>7, <1>8
  <2>2. CacheOK(e, a)'
    BY Zenon, <1>3, <1>4, <1>6 DEF CacheOK, Accepted
  <2>3. MissOK(e, a)'
    BY Zenon DEF MissOK
  <2>4. TokenOK(e, a)'
    BY Zenon, <1>9 DEF TokenOK, Below
  <2> QED BY Zenon, <2>2, <2>3, <2>4
<1> QED BY Zenon, <1>12, <1>11, <1>13, <1>14, <1>15, <1>16, <1>7, <1>8 DEF Kept, LineOK, Networks

(***************************************************************************)
(* A DMA write is acknowledged, and so is the writeback it brought (M_DWRI *)
(* and ID_W Memory_Ack).                                                   *)
(***************************************************************************)
LEMMA AckDmaStep ==
  ASSUME NEW a \in Addr, Types, Networks, LineOK(a), DirMemory(a), memq[a].type = "Ack",
         dstate[a] \in {"M_DWRI", "ID_W"}
  PROVE  Kept(a)
<1>1. /\ memq[a].type = "Ack"
      /\ dstate' = [dstate EXCEPT ![a] = "I"]
      /\ tbe' = [tbe EXCEPT ![a] = NoTBE]
      /\ memq' = [memq EXCEPT ![a] = NoMem] /\ responses' = responses
      /\ dstate[a] = "ID_W" => forward' = forward
      /\ dstate[a] # "ID_W" => SendForward(memq[a].who, "WB_ACK", a, memq[a].who)
      /\ cstate' = cstate /\ cdata' = cdata /\ requests' = requests /\ responses' = responses
      /\ owner' = owner /\ mem' = mem /\ dma' = dma /\ dmaReqs' = dmaReqs /\ latest' = latest
      /\ seen' = seen
  BY Zenon DEF DirMemory, Memory_Data, Memory_Ack, SetDir, cacheVars, history
<1>T. /\ dstate' \in [Addr -> DirState] /\ memq' \in [Addr -> MemMsg] /\ tbe' \in [Addr -> TBE]
  BY Zenon, <1>1, InitValueType DEF NoMem, NoTBE, TBE, MemMsg, DirState, Types
<1>2. /\ cstate' = cstate
      /\ dstate[a] \in {"M_DWRI", "ID_W"} /\ dstate'[a] = "I"
      /\ owner'[a] = owner[a]
      /\ memq[a].type = "Ack" /\ memq'[a].type = "None"
      /\ cdata' = cdata /\ requests' = requests /\ responses' = responses /\ latest' = latest
      /\ mem' = mem
  BY Zenon, <1>1, InitValueType DEF NoMem, NoTBE, TBE, MemMsg, DirState, Types
<1>3. owner[a] \notin Cache
  BY Zenon, <1>2, MIAssumption DEF LineOK, DirOK
<1>4. tbe[a].who \in Dma /\ (dstate[a] # "ID_W" => memq[a].who \in Cache)
  BY Zenon, <1>2 DEF LineOK, DirOK
<1>5. dstate[a] # "ID_W" => CacheOK(memq[a].who, a)
  BY Zenon, <1>4 DEF LineOK
<1>6. dstate[a] # "ID_W" =>
        /\ cstate[memq[a].who][a] = "MI" /\ ~Fwd("GETX", memq[a].who, a) /\ ~Req("PUTX", memq[a].who, a)
        /\ ~Fwd("WB_ACK", memq[a].who, a) /\ ~Fwd("WB_NACK", memq[a].who, a)
  BY Zenon, <1>2, <1>5 DEF CacheOK, Accepted
<1>7. /\ ForwardOK'
      /\ \A t, b : \A e \in Cache : Fwd(t, e, b)' <=>
           Fwd(t, e, b) \/ (dstate[a] # "ID_W" /\ e = memq[a].who /\ t = "WB_ACK" /\ b = a)
      /\ \A b, x : \A e \in Cache : FwdFor(e, b, x)' <=> FwdFor(e, b, x)
  <2>1. CASE dstate[a] = "ID_W"
    BY Zenon, <2>1, <1>1 DEF Networks, ForwardOK, Fwd, FwdFor
  <2>2. CASE dstate[a] # "ID_W"
    <3>1. SendForward(memq[a].who, "WB_ACK", a, memq[a].who) /\ memq[a].who \in Cache
      BY Zenon, <2>2, <1>1, <1>4
    <3>2. ~Fwd("WB_ACK", memq[a].who, a) /\ ~Fwd("WB_NACK", memq[a].who, a)
      BY Zenon, <2>2, <1>6
    <3>3. /\ ForwardOK'
          /\ \A t, b : \A e \in Cache : Fwd(t, e, b)' <=> Fwd(t, e, b) \/ (e = memq[a].who /\ t = "WB_ACK" /\ b = a)
          /\ \A b, x : \A e \in Cache : FwdFor(e, b, x)' <=> FwdFor(e, b, x)
      BY Zenon, <3>1, <3>2, SentAck
    <3> QED BY Zenon, <2>2, <3>3
  <2> QED BY Zenon, <2>1, <2>2
<1>8. DmaOK(tbe[a].who, a) /\ SeenOK(tbe[a].who, a)
  BY Zenon, <1>4 DEF LineOK
<1>9. \A n \in dmaResps : ~(n.dest = tbe[a].who /\ n.addr = a)
  BY Zenon, <1>2, <1>4, MessageViews, <1>8 DEF DmaOK, WritingFor
<1> DEFINE r == [type |-> "ACK", dest |-> tbe[a].who, addr |-> a, data |-> InitValue]
<1>10. /\ dmaResps' = dmaResps \cup {r} /\ r.type = "ACK" /\ r.dest = tbe[a].who /\ r.addr = a
       /\ r.data = InitValue /\ r.data \in Value
  BY Zenon, InitValueType DEF Types, TBE, MemMsg, DirMemory, Memory_Data, Memory_Ack
<1> HIDE DEF r
<1>11. \A n : n \in dmaResps' <=> n \in dmaResps \/ n = r
  BY Zenon, <1>10
<1>12. /\ DmaReqsOK'
       /\ \A t, z, b : DmaReq(t, z, b)' <=> DmaReq(t, z, b)
  BY Zenon, <1>1, SameNetworks
<1>13. /\ DmaRespsOK'
       /\ \A t, z : DmaResp(t, z, a)' <=> DmaResp(t, z, a) \/ (t = "ACK" /\ z = tbe[a].who)
  BY Zenon, <1>10, <1>4, <1>9, DmaRespAdded
<1>14. /\ RequestsOK'
       /\ \A t, e, b : Req(t, e, b)' <=> Req(t, e, b)
       /\ ResponsesOK'
       /\ \A e, b : Resp(e, b)' <=> Resp(e, b)
  BY Zenon, <1>1, SameNetworks
<1>15. \A e \in Cache : Holds(e, a)' => Holds(e, a)
  <2>1. \A e \in Cache : Fwd("GETX", e, a)' <=> Fwd("GETX", e, a)
    BY <1>7
  <2> QED BY Zenon, <1>2, <2>1 DEF Holds
<1>16. /\ \A n \in requests : n.type \in {"GETX", "PUTX"} /\ n.who \in Cache /\ Req(n.type, n.who, n.addr)
       /\ \A n \in responses : n.dest \in Cache /\ Resp(n.dest, n.addr)
  BY Zenon, MessageViews
<1>17. OnlyLine(a)
  BY Zenon, <1>1, <1>7, <1>10, <1>11, <1>12, <1>13, <1>14 DEF OnlyLine, SameLine, Types
<1>18. Types'
  BY Zenon, <1>1, <1>T DEF Types
<1>19. DirOK(a)'
  BY Zenon, <1>2 DEF LineOK, DirOK
<1>20. ValueOK(a)'
  BY Zenon, <1>2, <1>14, <1>15, <1>16 DEF LineOK, ValueOK, PutOK
<1>21. ASSUME NEW e \in Cache PROVE CacheOK(e, a)' /\ MissOK(e, a)' /\ TokenOK(e, a)'
  <2>1. CacheOK(e, a) /\ MissOK(e, a) /\ TokenOK(e, a)
    BY Zenon DEF LineOK
  <2> USE <2>1, <1>2, <1>7, <1>14
  <2>2. CacheOK(e, a)'
    BY Zenon, <1>3, <1>4, <1>6 DEF CacheOK, Accepted
  <2>3. MissOK(e, a)'
    BY Zenon DEF MissOK
  <2>4. TokenOK(e, a)'
    BY Zenon, <1>15 DEF TokenOK, Below
  <2> QED BY Zenon, <2>2, <2>3, <2>4
<1>22. ASSUME NEW z \in Dma PROVE DmaOK(z, a)' /\ SeenOK(z, a)'
  <2>1. DmaOK(z, a) /\ SeenOK(z, a)
    BY Zenon DEF LineOK
  <2> USE <2>1, <1>1, <1>2, <1>12, <1>13
  <2>2. DmaOK(z, a)'
    BY Zenon, <1>4, <1>8 DEF DmaOK, ReadingFor, WritingFor
  <2>3. SeenOK(z, a)'
    BY Zenon, <1>10, <1>11 DEF SeenOK
  <2> QED BY Zenon, <2>2, <2>3
<1> QED BY Zenon, <1>18, <1>17, <1>19, <1>20, <1>21, <1>22, <1>7, <1>12, <1>13, <1>14
     DEF Kept, LineOK, Networks

-----------------------------------------------------------------------------
(* The DMA controllers. *)

(* A DMA controller issues a read or a write (READY ReadRequest, READY WriteRequest). *)
LEMMA DmaRequestStep ==
  ASSUME NEW a \in Addr, Types, Networks, LineOK(a), NEW d \in Dma, NEW type \in {"READ", "WRITE"},
         NEW v \in Value, DmaRequest(d, a, type, v)
  PROVE  Kept(a)
<1>1. DmaOK(d, a)
  BY Zenon DEF LineOK
<1>2. /\ cstate' = cstate /\ cdata' = cdata /\ requests' = requests /\ forward' = forward
      /\ responses' = responses /\ dstate' = dstate /\ owner' = owner /\ tbe' = tbe
      /\ memq' = memq /\ mem' = mem /\ dmaResps' = dmaResps /\ latest' = latest
  BY Zenon DEF DmaRequest, cacheVars, netVars, dirVars
<1>T. /\ dma' \in [Dma -> [Addr -> {"READY", "BUSY_RD", "BUSY_WR"}]]
      /\ seen' \in [Dma -> [Addr -> SUBSET Value]]
  BY <1>2 DEF DmaRequest, Types
<1>3. /\ dma[d][a] = "READY"
      /\ \A z \in Dma : dma'[z][a] = IF z = d THEN IF type = "READ" THEN "BUSY_RD" ELSE "BUSY_WR" ELSE dma[z][a]
      /\ latest' = latest /\ dmaResps' = dmaResps
      /\ \A z \in Dma : seen'[z][a] = IF z = d THEN IF type = "READ" THEN {latest[a]} ELSE {} ELSE seen[z][a]
  BY Zenon, <1>2 DEF DmaRequest, Types
<1>4. \A n \in dmaReqs : ~(n.who = d /\ n.addr = a)
  BY Zenon, <1>3, MessageViews, <1>1 DEF DmaOK
<1>5. \A n \in dmaResps : ~(n.dest = d /\ n.addr = a)
  BY Zenon, <1>3, MessageViews, <1>1 DEF DmaOK
<1> DEFINE r == [type |-> type, addr |-> a, who |-> d, data |-> v]
<1>6. dmaReqs' = dmaReqs \cup {r} /\ r.type = type /\ r.who = d /\ r.addr = a /\ r.data = v
  BY Zenon DEF DmaRequest
<1> HIDE DEF r
<1>7. \A n : n \in dmaReqs' <=> n \in dmaReqs \/ n = r
  BY Zenon, <1>6
<1>8. /\ DmaReqsOK'
      /\ \A t, z : DmaReq(t, z, a)' <=> DmaReq(t, z, a) \/ (t = type /\ z = d)
  BY <1>6, <1>4, DmaReqAdded
<1>9. /\ DmaRespsOK'
      /\ \A t, z, b : DmaResp(t, z, b)' <=> DmaResp(t, z, b)
  BY Zenon, <1>2, SameNetworks
<1>10. /\ RequestsOK'
       /\ \A t, e, b : Req(t, e, b)' <=> Req(t, e, b)
       /\ ForwardOK'
       /\ \A t, e, b : Fwd(t, e, b)' <=> Fwd(t, e, b)
       /\ \A e, b, w : FwdFor(e, b, w)' <=> FwdFor(e, b, w)
       /\ ResponsesOK'
       /\ \A e, b : Resp(e, b)' <=> Resp(e, b)
  BY Zenon, <1>2, SameNetworks
<1>11. \A z \in Dma : (ReadingFor(z, a)' <=> ReadingFor(z, a)) /\ (WritingFor(z, a)' <=> WritingFor(z, a))
  BY Zenon, <1>2 DEF ReadingFor, WritingFor
<1>12. OnlyLine(a)
  BY Zenon, <1>2, <1>6, <1>7, <1>8, <1>9, <1>10 DEF OnlyLine, SameLine, Types, DmaRequest
<1>13. Types'
  BY Zenon, <1>2, <1>11, <1>T DEF Types
<1>14. /\ DirOK(a)'
       /\ ValueOK(a)'
       /\ \A e \in Cache : CacheOK(e, a)'
       /\ \A e \in Cache : MissOK(e, a)'
       /\ \A e \in Cache : TokenOK(e, a)'
  BY Zenon, <1>2, CacheSame
<1>15. ASSUME NEW z \in Dma PROVE DmaOK(z, a)' /\ SeenOK(z, a)'
  <2>1. DmaOK(z, a) /\ SeenOK(z, a)
    BY Zenon DEF LineOK
  <2> USE <2>1, <1>3, <1>8, <1>9
  <2>2. DmaOK(z, a)'
    BY Zenon, <1>11, <1>1 DEF DmaOK, ReadingFor, WritingFor
  <2>3. SeenOK(z, a)'
    BY Zenon, <1>5, <1>7 DEF SeenOK
  <2> QED BY Zenon, <2>2, <2>3
<1> QED BY Zenon, <1>13, <1>12, <1>14, <1>15, <1>8, <1>9, <1>10 DEF Kept, LineOK, Networks

(* A DMA controller takes its answer (BUSY_RD Data, BUSY_WR Ack). *)
LEMMA DmaResponseStep ==
  ASSUME NEW a \in Addr, Types, Networks, LineOK(a), NEW d \in Dma, NEW m \in dmaResps, m.dest = d,
         m.addr = a, TakeDmaResponse(d, m)
  PROVE  Kept(a)
<1>1. DmaOK(d, a)
  BY Zenon DEF LineOK
<1>2. /\ dma[d][a] = Awaited(m.type) /\ dma' = [dma EXCEPT ![d][a] = "READY"]
      /\ dmaResps' = dmaResps \ {m} /\ seen' = [seen EXCEPT ![d][a] = {}]
      /\ cstate' = cstate /\ cdata' = cdata /\ requests' = requests /\ forward' = forward
      /\ responses' = responses /\ dstate' = dstate /\ owner' = owner /\ tbe' = tbe
      /\ memq' = memq /\ mem' = mem /\ dmaReqs' = dmaReqs /\ latest' = latest
  BY Zenon DEF TakeDmaResponse, cacheVars, netVars, dirVars
<1>T. /\ dma' \in [Dma -> [Addr -> {"READY", "BUSY_RD", "BUSY_WR"}]]
      /\ seen' \in [Dma -> [Addr -> SUBSET Value]]
  BY Zenon, <1>2 DEF Types
<1>3. /\ dma[d][a] = Awaited(m.type)
      /\ \A z \in Dma : dma'[z][a] = IF z = d THEN "READY" ELSE dma[z][a]
      /\ latest' = latest
      /\ \A z \in Dma : seen'[z][a] = IF z = d THEN {} ELSE seen[z][a]
  BY Zenon, <1>2 DEF Types
<1>4. \A n : n \in dmaResps' <=> n \in dmaResps /\ n # m
  BY Zenon, <1>2
<1>5. /\ DmaReqsOK'
      /\ \A t, z, b : DmaReq(t, z, b)' <=> DmaReq(t, z, b)
  BY Zenon, <1>2, SameNetworks
<1>6. /\ DmaRespsOK' /\ DmaResp(m.type, d, a) /\ m.type \in {"DATA", "ACK"}
      /\ \A t, z : DmaResp(t, z, a)' <=> DmaResp(t, z, a) /\ z # d
      /\ \A n \in dmaResps' : ~(n.dest = d /\ n.addr = a)
  BY Zenon, <1>2, DmaRespRemoved DEF Networks, DmaRespsOK
<1>7. /\ RequestsOK'
      /\ \A t, e, b : Req(t, e, b)' <=> Req(t, e, b)
      /\ ForwardOK'
      /\ \A t, e, b : Fwd(t, e, b)' <=> Fwd(t, e, b)
      /\ \A e, b, w : FwdFor(e, b, w)' <=> FwdFor(e, b, w)
      /\ ResponsesOK'
      /\ \A e, b : Resp(e, b)' <=> Resp(e, b)
  BY Zenon, <1>2, SameNetworks
<1>8. \A z \in Dma : (ReadingFor(z, a)' <=> ReadingFor(z, a)) /\ (WritingFor(z, a)' <=> WritingFor(z, a))
  BY Zenon, <1>2 DEF ReadingFor, WritingFor
<1>9. OnlyLine(a)
  BY Zenon, <1>2, <1>4, <1>5, <1>6, <1>7 DEF OnlyLine, SameLine, Types
<1>10. Types'
  BY Zenon, <1>2, <1>8, <1>T DEF Types
<1>11. /\ DirOK(a)'
       /\ ValueOK(a)'
       /\ \A e \in Cache : CacheOK(e, a)'
       /\ \A e \in Cache : MissOK(e, a)'
       /\ \A e \in Cache : TokenOK(e, a)'
  BY Zenon, <1>2, CacheSame
<1>12. ASSUME NEW z \in Dma PROVE DmaOK(z, a)' /\ SeenOK(z, a)'
  <2>1. DmaOK(z, a) /\ SeenOK(z, a)
    BY Zenon DEF LineOK
  <2> USE <2>1, <1>3, <1>5, <1>6
  <2>2. DmaOK(z, a)'
    BY ZenonT(40), <1>8, <1>1 DEF DmaOK, ReadingFor, WritingFor, Awaited
  <2>3. SeenOK(z, a)'
    BY Zenon, <1>4 DEF SeenOK
  <2> QED BY Zenon, <2>2, <2>3
<1> QED BY Zenon, <1>10, <1>9, <1>11, <1>12, <1>5, <1>6, <1>7 DEF Kept, LineOK, Networks

-----------------------------------------------------------------------------
(* Every step keeps the invariant. *)

(* A step that leaves every line alone keeps the invariant. *)
LEMMA SameState ==
  ASSUME IInv, \A b \in Addr : SameLine(b), Types', Networks'
  PROVE  IInv'
  BY Zenon, UntouchedLine DEF IInv

(***************************************************************************)
(* An INV for a line the cache has lost already (I Inv, MI Inv) is         *)
(* dropped: no line is affected.                                           *)
(***************************************************************************)
LEMMA DropStep ==
  ASSUME IInv, NEW c \in Cache, forward[c] # <<>>, Head(forward[c]).type = "INV", PopForward(c),
         UNCHANGED <<cacheVars, requests, responses, dirVars, mem, dmaVars, history>>
  PROVE  IInv'
<1>1. Types /\ Networks
  BY Zenon DEF IInv
<1>2. /\ cstate' = cstate /\ cdata' = cdata /\ requests' = requests /\ responses' = responses
      /\ dstate' = dstate /\ owner' = owner /\ tbe' = tbe /\ memq' = memq /\ mem' = mem
      /\ dma' = dma /\ dmaReqs' = dmaReqs /\ dmaResps' = dmaResps /\ latest' = latest /\ seen' = seen
  BY Zenon DEF cacheVars, dirVars, dmaVars, history
<1>3. /\ ForwardOK'
      /\ \A t, b : \A e \in Cache : t # "INV" => (Fwd(t, e, b)' <=> Fwd(t, e, b))
      /\ \A b, w : \A e \in Cache : FwdFor(e, b, w)' <=> FwdFor(e, b, w)
  BY Zenon, <1>1, Popped
<1>4. Types'
  BY Zenon, <1>1, <1>2 DEF Types
<1>5. Networks'
  BY Zenon, <1>1, <1>2, <1>3, SameNetworks DEF Networks
<1>6. \A b \in Addr : SameLine(b)
  BY Zenon, <1>2, <1>3 DEF SameLine
<1> QED BY Zenon, <1>4, <1>5, <1>6, SameState

(* A step that changes no controller, memory or network keeps the invariant. *)
LEMMA StutterStep ==
  ASSUME IInv, UNCHANGED <<cacheVars, netVars, dirVars, mem, dmaVars, history>>
  PROVE  IInv'
<1>1. Types /\ Networks
  BY Zenon DEF IInv
<1>2. /\ cstate' = cstate /\ cdata' = cdata /\ requests' = requests /\ responses' = responses
      /\ forward' = forward
      /\ dstate' = dstate /\ owner' = owner /\ tbe' = tbe /\ memq' = memq /\ mem' = mem
      /\ dma' = dma /\ dmaReqs' = dmaReqs /\ dmaResps' = dmaResps /\ latest' = latest /\ seen' = seen
  BY Zenon DEF cacheVars, netVars, dirVars, dmaVars, history
<1>3. Types'
  BY Zenon, <1>1, <1>2 DEF Types
<1>4. Networks' /\ \A t, e, b : (Fwd(t, e, b)' <=> Fwd(t, e, b))
  BY Zenon, <1>1, <1>2, SameNetworks DEF Networks
<1>5. \A e, b, w : FwdFor(e, b, w)' <=> FwdFor(e, b, w)
  BY Zenon, <1>1, <1>2, SameNetworks
<1>6. \A b \in Addr : SameLine(b)
  BY Zenon, <1>2, <1>4, <1>5 DEF SameLine
<1> QED BY Zenon, <1>3, <1>4, <1>6, SameState

(* The invariant holds at the start: idle controllers, empty networks. *)
LEMMA InitHolds ==
  ASSUME Init
  PROVE  IInv
<1>1. Types
  BY Zenon, InitValueType DEF Init, Types, TBE, MemMsg, NoTBE, NoMem, CacheState, DirState
<1>2. Networks
  <2>1. forward \in [Cache -> Seq(Message)] /\ \A c \in Cache : Len(forward[c]) = 0
    BY DEF Init
  <2>2. ForwardOK
    BY <2>1 DEF ForwardOK, Distinct
  <2> QED BY Zenon, <2>2 DEF Init, Networks, RequestsOK, ResponsesOK, DmaReqsOK, DmaRespsOK
<1>3. ASSUME NEW a \in Addr PROVE LineOK(a)
  <2>1. /\ dstate[a] = "I" /\ owner[a] = NoOne /\ memq[a].type = "None" /\ memq[a].who = NoOne
        /\ tbe[a].who = NoOne /\ mem[a] = latest[a]
        /\ \A c \in Cache : cstate[c][a] = "I"
        /\ \A d \in Dma : dma[d][a] = "READY"
        /\ requests = {} /\ responses = {} /\ dmaReqs = {} /\ dmaResps = {}
    BY Zenon DEF Init, NoMem, NoTBE
  <2>2. \A c \in Cache : In(forward[c]) = {}
    BY DEF Init, In
  <2>3. \A c \in Cache : ~Holds(c, a) /\ \A t : ~Fwd(t, c, a) /\ ~FwdFor(c, a, t)
    BY Zenon, <2>1, <2>2 DEF Holds, Fwd, FwdFor
  <2>4. DirOK(a) /\ ValueOK(a)
    BY Zenon, <2>1, <2>3 DEF DirOK, ValueOK, PutOK
  <2>5. ASSUME NEW c \in Cache PROVE CacheOK(c, a) /\ MissOK(c, a) /\ TokenOK(c, a)
    <3>1. owner[a] # c
      BY Zenon, <2>1, MIAssumption
    <3>2. CacheOK(c, a)
      BY Zenon, <2>1, <2>3, <3>1 DEF CacheOK, Accepted, Req
    <3>3. MissOK(c, a)
      BY Zenon, <2>1, <2>3 DEF MissOK, Resp
    <3>4. TokenOK(c, a)
      BY Zenon, <2>1, <2>3 DEF TokenOK, Resp
    <3> QED BY Zenon, <3>2, <3>3, <3>4
  <2>6. ASSUME NEW d \in Dma PROVE DmaOK(d, a) /\ SeenOK(d, a)
    <3>1. DmaOK(d, a)
      BY Zenon, <2>1 DEF DmaOK, DmaReq, DmaResp, ReadingFor, WritingFor
    <3>2. SeenOK(d, a)
      BY Zenon, <2>1 DEF SeenOK
    <3> QED BY Zenon, <3>1, <3>2
  <2> QED BY Zenon, <2>4, <2>5, <2>6 DEF LineOK
<1> QED BY Zenon, <1>1, <1>2, <1>3 DEF IInv

(* Every transition of a cache controller keeps the invariant. *)
LEMMA CacheSteps ==
  ASSUME IInv, NEW c \in Cache,
         \/ Data(c) \/ Forwarded(c)
         \/ \E a \in Addr : \/ \E s \in {"IS", "IM"} : Miss(c, a, s)
                            \/ \E v \in Value : StoreHit(c, a, v)
                            \/ Replacement(c, a)
  PROVE  IInv'
<1>1. Types /\ Networks /\ \A a \in Addr : LineOK(a)
  BY Zenon DEF IInv
<1>2. \A m \in responses : m.addr \in Addr
  BY Zenon, <1>1 DEF Networks, ResponsesOK
<1>3. CASE Data(c)
  <2>1. PICK m \in responses : m.dest = c /\ TakeData(c, m)
    BY Zenon, <1>3 DEF Data
  <2>2. Kept(m.addr)
    BY Zenon, <2>1, <1>1, <1>2, DataStep
  <2> QED BY Zenon, <2>2, <1>2, OtherLines
<1>4. CASE Forwarded(c)
  <2> DEFINE h == Head(forward[c])
  <2>1. /\ forward[c] # <<>> /\ CacheOnly
        /\ \/ h.type = "GETX" /\ Fwd_GETX(c, h.addr, h.who)
           \/ h.type = "INV" /\ Inv(c, h.addr)
           \/ h.type = "WB_ACK" /\ Writeback_Ack(c, h.addr)
           \/ h.type = "WB_NACK" /\ Writeback_Nack(c, h.addr)
    BY Zenon, <1>4 DEF Forwarded, CacheOnly
  <2>2. h.addr \in Addr
    <3>1. forward[c] \in Seq(Message)
      BY Zenon, <1>1 DEF Networks, ForwardOK
    <3>2. h \in Message
      BY <2>1, <3>1
    <3> QED BY Zenon, <3>2 DEF Message
  <2>3. CASE h.type = "GETX" /\ Fwd_GETX(c, h.addr, h.who)
    <3>1. Kept(h.addr)
      BY Zenon, <2>1, <2>2, <2>3, <1>1, FwdStep
    <3> QED BY Zenon, <3>1, <2>2, OtherLines
  <2>4. CASE h.type = "INV" /\ Inv(c, h.addr)
    <3>1. CASE Evict(c, h.addr)
      <4>1. Kept(h.addr)
        BY Zenon, <3>1, <2>1, <2>2, <1>1, EvictStep
      <4> QED BY Zenon, <4>1, <2>2, OtherLines
    <3>2. CASE PopForward(c) /\ UNCHANGED <<cstate, cdata, requests, responses>>
      <4>1. UNCHANGED <<cacheVars, requests, responses, dirVars, mem, dmaVars, history>>
        BY Zenon, <2>1, <3>2 DEF CacheOnly, cacheVars
      <4> QED BY Zenon, <2>1, <2>4, <3>2, <4>1, DropStep
    <3> QED BY Zenon, <2>4, <3>1, <3>2 DEF Inv
  <2>5. CASE h.type = "WB_ACK" /\ Writeback_Ack(c, h.addr)
    <3>1. Kept(h.addr)
      BY Zenon, <2>1, <2>2, <2>5, <1>1, WbAckStep
    <3> QED BY Zenon, <3>1, <2>2, OtherLines
  <2>6. CASE h.type = "WB_NACK" /\ Writeback_Nack(c, h.addr)
    <3>1. Kept(h.addr)
      BY Zenon, <2>1, <2>2, <2>6, <1>1, WbNackStep
    <3> QED BY Zenon, <3>1, <2>2, OtherLines
  <2> QED BY Zenon, <2>1, <2>3, <2>4, <2>5, <2>6
<1>5. ASSUME NEW a \in Addr, NEW s \in {"IS", "IM"}, Miss(c, a, s) PROVE IInv'
  BY Zenon, <1>5, <1>1, MissStep, OtherLines
<1>6. ASSUME NEW a \in Addr, NEW v \in Value, StoreHit(c, a, v) PROVE IInv'
  BY Zenon, <1>6, <1>1, StoreHitStep, OtherLines
<1>7. ASSUME NEW a \in Addr, Replacement(c, a) PROVE IInv'
  <2>1. Evict(c, a) /\ CacheOnly
    BY Zenon, <1>7 DEF Replacement, CacheOnly
  <2> QED BY Zenon, <2>1, <1>1, EvictStep, OtherLines
<1> QED BY Zenon, <1>3, <1>4, <1>5, <1>6, <1>7

(* Every transition of the directory, and every access of the memory, keeps the invariant. *)
LEMMA DirectorySteps ==
  ASSUME IInv, \/ \E c \in Cache : DirRequest(c)
               \/ \E d \in Dma : DirDma(d)
               \/ \E a \in Addr : Memory(a) \/ DirMemory(a)
  PROVE  IInv'
<1>1. Types /\ Networks /\ \A a \in Addr : LineOK(a)
  BY Zenon DEF IInv
<1>2. ASSUME NEW c \in Cache, DirRequest(c) PROVE IInv'
  <2>1. PICK m \in requests : m.who = c /\ (DirGETX(m) \/ DirPUTX(m) \/ DirPUTX_NotOwner(m))
    BY Zenon, <1>2 DEF DirRequest
  <2>2. DirOnly /\ m.addr \in Addr
    BY Zenon, <1>2, <1>1 DEF DirRequest, DirOnly, Networks, RequestsOK
  <2>3. Kept(m.addr)
    <3>1. CASE DirGETX(m)
      <4>1. dstate[m.addr] = "I" \/ dstate[m.addr] = "M"
        BY Zenon, <3>1 DEF DirGETX
      <4> QED BY Zenon, <4>1, <3>1, <2>1, <2>2, <1>1, GetxIdleStep, GetxOwnedStep
    <3>2. CASE DirPUTX(m)
      <4>1. dstate[m.addr] = "M" \/ dstate[m.addr] = "M_DRD" \/ dstate[m.addr] = "M_DWR"
        BY Zenon, <3>2 DEF DirPUTX
      <4> QED BY Zenon, <4>1, <3>2, <2>1, <2>2, <1>1, PutxStep, PutxReadStep, PutxWriteStep
    <3>3. CASE DirPUTX_NotOwner(m)
      BY Zenon, <3>3, <2>1, <2>2, <1>1, NackStep
    <3> QED BY Zenon, <2>1, <3>1, <3>2, <3>3
  <2> QED BY Zenon, <2>2, <2>3, OtherLines
<1>3. ASSUME NEW d \in Dma, DirDma(d) PROVE IInv'
  <2>1. PICK m \in dmaReqs : m.who = d /\ TakeDmaRequest(m)
    BY Zenon, <1>3 DEF DirDma
  <2>2. m.addr \in Addr
    BY Zenon, <1>1 DEF Networks, DmaReqsOK
  <2>3. dstate[m.addr] = "I" \/ dstate[m.addr] = "M"
    BY Zenon, <2>1 DEF TakeDmaRequest
  <2>4. Kept(m.addr)
    BY Zenon, <2>1, <2>2, <2>3, <1>1, DmaIdleStep, DmaOwnedStep
  <2> QED BY Zenon, <2>2, <2>4, OtherLines
<1>4. ASSUME NEW a \in Addr, Memory(a) PROVE IInv'
  <2>1. memq[a].type = "READ" \/ memq[a].type \in {"WB", "DMA_WB"}
    BY Zenon, <1>4 DEF Memory
  <2> QED BY Zenon, <2>1, <1>4, <1>1, MemoryReadStep, MemoryWriteStep, OtherLines
<1>5. ASSUME NEW a \in Addr, DirMemory(a) PROVE IInv'
  <2>1. Memory_Data(a) \/ Memory_Ack(a)
    BY Zenon, <1>5 DEF DirMemory
  <2>2. CASE Memory_Data(a)
    <3>1. memq[a].type = "Data" /\ (dstate[a] = "IM" \/ dstate[a] = "ID")
      BY Zenon, <2>2 DEF Memory_Data
    <3> QED BY Zenon, <3>1, <1>5, <1>1, MemoryDataStep, MemoryDmaStep, OtherLines
  <2>3. CASE Memory_Ack(a)
    <3>1. memq[a].type = "Ack" /\ (dstate[a] \in {"MI", "M_DRDI"} \/ dstate[a] \in {"M_DWRI", "ID_W"})
      BY Zenon, <2>3 DEF Memory_Ack
    <3> QED BY Zenon, <3>1, <1>5, <1>1, AckStep, AckDmaStep, OtherLines
  <2> QED BY Zenon, <2>1, <2>2, <2>3
<1> QED BY Zenon, <1>2, <1>3, <1>4, <1>5

(* Every transition of a DMA controller keeps the invariant. *)
LEMMA DmaSteps ==
  ASSUME IInv, NEW d \in Dma,
         \/ \E a \in Addr : DmaRequest(d, a, "READ", InitValue)
         \/ \E a \in Addr, v \in Value : DmaRequest(d, a, "WRITE", v)
         \/ DmaResponse(d)
  PROVE  IInv'
<1>1. Types /\ Networks /\ \A a \in Addr : LineOK(a)
  BY Zenon DEF IInv
<1>2. ASSUME NEW a \in Addr, NEW type \in {"READ", "WRITE"}, NEW v \in Value, DmaRequest(d, a, type, v) PROVE IInv'
  BY Zenon, <1>2, <1>1, DmaRequestStep, OtherLines
<1>3. CASE DmaResponse(d)
  <2>1. PICK m \in dmaResps : m.dest = d /\ TakeDmaResponse(d, m)
    BY Zenon, <1>3 DEF DmaResponse
  <2>2. m.addr \in Addr
    BY Zenon, <1>1 DEF Networks, DmaRespsOK
  <2>3. Kept(m.addr)
    BY Zenon, <2>1, <2>2, <1>1, DmaResponseStep
  <2> QED BY Zenon, <2>2, <2>3, OtherLines
<1> QED BY Zenon, <1>2, <1>3, InitValueType

(***************************************************************************)
(* Every step keeps the invariant: whatever forwards overtake each other,  *)
(* and whatever PUTX, GETX and DMA race.                                   *)
(***************************************************************************)
LEMMA NextKeeps == IInv /\ [Next]_vars => IInv'
<1> SUFFICES ASSUME IInv, [Next]_vars PROVE IInv'
  OBVIOUS
<1>1. CASE UNCHANGED vars
  BY Zenon, <1>1, StutterStep DEF vars
<1>2. CASE Panic
  BY Zenon, <1>2, StutterStep DEF Panic
<1> QED BY Zenon, <1>1, <1>2, CacheSteps, DirectorySteps, DmaSteps DEF Next

(***************************************************************************)
(* The invariant always holds, for any number of caches, DMA controllers,  *)
(* lines and values, and for any order of the forward network.             *)
(***************************************************************************)
LEMMA Invariance == Spec => []IInv
  BY InitHolds, NextKeeps, PTL DEF Spec

(***************************************************************************)
(* The controllers' states and the messages are always the ones the        *)
(* protocol files declare, for any number of controllers, lines and        *)
(* values.                                                                 *)
(***************************************************************************)
THEOREM TypeCorrect == Spec => []TypeOK
<1>1. IInv => TypeOK
  <2> SUFFICES ASSUME IInv PROVE TypeOK
    OBVIOUS
  <2>1. \A c \in Cache : forward[c] \in Seq(Message)
    BY Zenon DEF IInv, Networks, ForwardOK
  <2>2. \A c \in Cache : \A i \in 1 .. Len(forward[c]) :
          forward[c][i].type \in {"GETX", "INV", "WB_ACK", "WB_NACK"}
    <3>1. \A c \in Cache : \A i \in 1 .. Len(forward[c]) : forward[c][i] \in Message
      BY <2>1
    <3> QED BY Zenon, <3>1 DEF Message
  <2> QED BY Zenon, <2>2 DEF IInv, Types, Networks, RequestsOK, ResponsesOK, TypeOK
<1> QED BY Invariance, <1>1, PTL

(***************************************************************************)
(* Two caches never hold a line in M, whatever the races of GETX, PUTX,    *)
(* forwarded requests, invalidations and DMA, in an ordered or unordered   *)
(* forward network.                                                        *)
(***************************************************************************)
THEOREM OneOwner == Spec => []SingleOwner
<1>1. IInv => SingleOwner
  BY Zenon DEF IInv, LineOK, TokenOK, Holds, SingleOwner
<1> QED BY Invariance, <1>1, PTL

(***************************************************************************)
(* No write is ever lost: the block of an M line, a block on its way to a  *)
(* cache and the memory's block when the directory serves it are what was  *)
(* written last, by whichever cache or DMA controller.                     *)
(***************************************************************************)
THEOREM CurrentValues == Spec => []ValueCurrent
<1>1. IInv => ValueCurrent
  <2> SUFFICES ASSUME IInv, NEW a \in Addr
               PROVE  /\ \A c \in Cache : cstate[c][a] = "M" => cdata[c][a] = latest[a]
                      /\ \A m \in responses : m.addr = a => m.data = latest[a]
                      /\ dstate[a] \in {"I", "IM", "ID"} => mem[a] = latest[a]
    BY Zenon DEF ValueCurrent
  <2>1. DirOK(a) /\ ValueOK(a)
    BY Zenon DEF IInv, LineOK
  <2> QED BY Zenon, <2>1 DEF DirOK, ValueOK, Holds
<1> QED BY Invariance, <1>1, PTL

(***************************************************************************)
(* A DMA read returns a value the line had between its request and its     *)
(* response, from memory or from the block the invalidation brought.       *)
(***************************************************************************)
THEOREM CurrentDmaReads == Spec => []DmaReadCurrent
<1>1. IInv => DmaReadCurrent
  BY Zenon DEF IInv, Networks, DmaRespsOK, LineOK, SeenOK, DmaReadCurrent
<1> QED BY Invariance, <1>1, PTL

(***************************************************************************)
(* The generated doTransition() can only meet an invalid transition while  *)
(* a DMA to an owned line is in progress at the directory or an INV is on  *)
(* its way: the protocol of the caches alone is complete.                  *)
(***************************************************************************)
THEOREM OnlyDmaInvalid == Spec => []InvalidOnlyByDma
<1>1. IInv => InvalidOnlyByDma
  <2> SUFFICES ASSUME IInv, InvalidEvent, \A a \in Addr : dstate[a] \notin DirDmaStates,
                      \A c \in Cache : \A i \in 1 .. Len(forward[c]) : forward[c][i].type # "INV"
               PROVE  FALSE
    BY Zenon DEF InvalidOnlyByDma
  <2>1. Networks /\ \A a \in Addr : LineOK(a)
    BY Zenon DEF IInv
  <2>2. ASSUME NEW c \in Cache, forward[c] # <<>>
        PROVE  cstate[c][Head(forward[c]).addr] \in CacheHandles(Head(forward[c]).type)
    <3> DEFINE h == Head(forward[c])
    <3>1. forward[c] \in Seq(Message)
      BY Zenon, <2>1 DEF Networks, ForwardOK
    <3>2. Len(forward[c]) \in Nat \ {0} /\ h = forward[c][1] /\ 1 \in 1 .. Len(forward[c])
      BY <2>2, <3>1
    <3>3. h \in Message /\ h.type # "INV" /\ h \in In(forward[c])
      BY <3>1, <3>2 DEF In
    <3> HIDE DEF h
    <3>4. h.addr \in Addr /\ h.type \in {"GETX", "WB_ACK", "WB_NACK"} /\ Fwd(h.type, c, h.addr)
      BY Zenon, <3>3 DEF Message, Fwd
    <3>5. CacheOK(c, h.addr)
      BY Zenon, <2>1, <3>4 DEF LineOK
    <3>6. cstate[c][h.addr] \in CacheHandles(h.type)
      BY Zenon, <3>4, <3>5 DEF CacheOK, CacheHandles
    <3> QED BY Zenon, <3>6 DEF h
  <2>3. \A m \in responses : cstate[m.dest][m.addr] \in {"IS", "IM"}
    BY Zenon, <2>1 DEF Networks, ResponsesOK, LineOK, MissOK, Resp
  <2>4. \A m \in requests : dstate[m.addr] \notin DirDmaStates
    BY Zenon, <2>1 DEF Networks, RequestsOK
  <2>5. \A m \in dmaReqs : dstate[m.addr] \notin DirDmaStates
    BY Zenon, <2>1 DEF Networks, DmaReqsOK
  <2>6. ASSUME NEW m \in dmaResps PROVE dma[m.dest][m.addr] = Awaited(m.type)
    <3>1. m.dest \in Dma /\ m.addr \in Addr /\ m.type \in {"DATA", "ACK"}
      BY Zenon, <2>1 DEF Networks, DmaRespsOK
    <3>2. DmaOK(m.dest, m.addr) /\ DmaResp(m.type, m.dest, m.addr)
      BY Zenon, <2>1, <3>1 DEF LineOK, DmaResp
    <3> QED BY Zenon, <3>1, <3>2 DEF DmaOK, Awaited
  <2> QED BY Zenon, <2>2, <2>3, <2>4, <2>5, <2>6 DEF InvalidEvent
<1> QED BY Invariance, <1>1, PTL
=============================================================================
