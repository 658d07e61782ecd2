----------------------------- MODULE MIExample -----------------------------
(***************************************************************************)
(* The MI_example coherence protocol of Ruby: the cache controllers of     *)
(* mem/ruby/protocol/MI_example-cache.sm, the directory of -dir.sm, the    *)
(* DMA controllers of -dma.sm, the memory behind the directory             *)
(* (AbstractController's memory queues) and the networks between them as   *)
(* configs/ruby/MI_example.py builds them.                                 *)
(*                                                                         *)
(* A block is one value of Value; a store, or a DMA write, replaces the    *)
(* whole block. The networks requestToDir, responseToCache and the DMA     *)
(* networks never hold two messages of one sender for one line, so each is *)
(* a set and recycle() (the message goes to the back of its buffer) leaves *)
(* it as it is. forwardToCache is a queue whose head may stall.            *)
(*                                                                         *)
(* An event for which a state has no transition ends the simulation: the   *)
(* generated doTransition() panics (mem/slicc/symbols/StateMachine.py).    *)
(***************************************************************************)
EXTENDS Naturals, Sequences, FiniteSets

CONSTANTS
    Cache,         \* the L1Cache controllers
    Dma,           \* the DMA controllers
    Addr,          \* the cache lines
    Value,         \* the contents of a block
    Ordered,       \* TRUE: forwardFromDir delivers in the order of enqueueing
    MaxForward     \* bound: the messages on their way to one cache

NoOne == "NoOne"
CacheState == {"I", "II", "M", "MI", "MII", "IS", "IM"}
DirState == {"I", "M", "M_DRD", "M_DWR", "M_DWRI", "M_DRDI", "IM", "MI", "ID", "ID_W"}
InitValue == CHOOSE v \in Value : TRUE

ASSUME MIAssumption ==
    /\ MaxForward \in Nat /\ Ordered \in BOOLEAN
    /\ Value # {} /\ Cache \cap Dma = {}
    /\ NoOne \notin Cache \cup Dma

VARIABLES
    cstate,    \* the state of a line in a cache: its TBE's or its entry's
    cdata,     \* the block of its TBE or its entry, while the state makes it valid
    requests,  \* requestToDir: GETX and PUTX
    forward,   \* forwardToCache of every cache: GETX, INV, WB_ACK, WB_NACK
    responses, \* responseToCache: DATA
    dstate,    \* the directory's state of a line: its TBE's or its entry's
    owner,     \* Owner of the directory entry
    tbe,       \* DmaRequestor and DataBlk of the directory's TBE
    memq,      \* requestToMemory and responseFromMemory of a line
    mem,       \* the memory
    dma,       \* the state of a line in a DMA controller
    dmaReqs,   \* dmaRequestToDir: READ, WRITE
    dmaResps,  \* dmaResponseFromDir: DATA, ACK
    panicked,  \* some controller has met an invalid transition
    latest,    \* history: the value last written to a line, by whomever
    seen       \* history: the values of a line since a DMA read was issued

cacheVars == <<cstate, cdata>>
dirVars == <<dstate, owner, tbe, memq>>
dmaVars == <<dma, dmaReqs, dmaResps>>
netVars == <<requests, forward, responses>>
history == <<latest, seen>>
vars == <<cacheVars, dirVars, mem, dmaVars, netVars, panicked, history>>

NoMem == [type |-> "None", who |-> NoOne, data |-> InitValue]
NoTBE == [who |-> NoOne, data |-> InitValue]

Init ==
    /\ cstate = [c \in Cache |-> [a \in Addr |-> "I"]]
    /\ cdata = [c \in Cache |-> [a \in Addr |-> InitValue]]
    /\ requests = {} /\ responses = {} /\ dmaReqs = {} /\ dmaResps = {}
    /\ forward = [c \in Cache |-> <<>>]
    /\ dstate = [a \in Addr |-> "I"]
    /\ owner = [a \in Addr |-> NoOne]
    /\ tbe = [a \in Addr |-> NoTBE]
    /\ memq = [a \in Addr |-> NoMem]
    /\ mem = [a \in Addr |-> InitValue]
    /\ dma = [d \in Dma |-> [a \in Addr |-> "READY"]]
    /\ panicked = FALSE
    /\ latest = [a \in Addr |-> InitValue]
    /\ seen = [d \in Dma |-> [a \in Addr |-> {}]]

(***************************************************************************)
(* Line a now holds v.                                                     *)
(***************************************************************************)
Written(a, v) ==
    /\ latest' = [latest EXCEPT ![a] = v]
    /\ seen' = [d \in Dma |-> [seen[d] EXCEPT ![a] =
                    IF dma[d][a] = "BUSY_RD" THEN @ \cup {v} ELSE @]]

-----------------------------------------------------------------------------
(* The forward network. *)

\* The queue s with m at place i, behind i - 1 messages.
Inserted(s, i, m) ==
    [j \in 1 .. Len(s) + 1 |-> IF j < i THEN s[j] ELSE IF j = i THEN m ELSE s[j - 1]]

\* MessageBuffer::enqueue() to the forward network of c. forwardFromDir is not an
\* ordered buffer: with randomization (or the latency 1 of l_sendWriteBackAck
\* against directory_latency) a message may overtake those not yet delivered.
SendForward(c, type, a, who) ==
    /\ Len(forward[c]) < MaxForward
    /\ \E i \in 1 .. Len(forward[c]) + 1 :
        /\ Ordered => i = Len(forward[c]) + 1
        /\ forward' = [forward EXCEPT ![c] =
                           Inserted(@, i, [type |-> type, addr |-> a, who |-> who])]

PopForward(c) == forward' = [forward EXCEPT ![c] = Tail(@)]

-----------------------------------------------------------------------------
(* The cache controllers. *)

\* I Load -> IS, I Store -> IM: allocate the TBE and, if there is none, the entry;
\* send GETX. In the states of a miss or a writeback the mandatory queue stalls.
Miss(c, a, s) ==
    /\ ~panicked
    /\ cstate[c][a] = "I"
    /\ cstate' = [cstate EXCEPT ![c][a] = s]
    /\ requests' = requests \cup
           {[type |-> "GETX", addr |-> a, who |-> c, data |-> InitValue]}
    /\ UNCHANGED <<cdata, forward, responses, dirVars, mem, dmaVars, panicked, history>>

\* M Store: Sequencer::writeCallback() writes the block. (M Load changes nothing.)
StoreHit(c, a, v) ==
    /\ ~panicked
    /\ cstate[c][a] = "M"
    /\ cdata' = [cdata EXCEPT ![c][a] = v]
    /\ Written(a, v)
    /\ UNCHANGED <<cstate, netVars, dirVars, mem, dmaVars, panicked>>

\* M {Replacement, Inv} -> MI
Evict(c, a) ==
    /\ cstate[c][a] = "M"
    /\ cstate' = [cstate EXCEPT ![c][a] = "MI"]
    /\ requests' = requests \cup
           {[type |-> "PUTX", addr |-> a, who |-> c, data |-> cdata[c][a]]}
    /\ UNCHANGED <<cdata, forward, responses>>

\* The mandatory queue wants another line of a full set and cacheProbe() chooses this
\* one. (I Replacement only frees the entry.)
Replacement(c, a) ==
    /\ ~panicked
    /\ Evict(c, a)
    /\ UNCHANGED <<dirVars, mem, dmaVars, panicked, history>>

\* IS Data -> M and IM Data -> M, the latter with the store's value.
TakeData(c, m) ==
    /\ \/ /\ cstate[c][m.addr] = "IS"
          /\ cdata' = [cdata EXCEPT ![c][m.addr] = m.data]
          /\ UNCHANGED history
       \/ /\ cstate[c][m.addr] = "IM"
          /\ \E v \in Value : /\ cdata' = [cdata EXCEPT ![c][m.addr] = v]
                              /\ Written(m.addr, v)
    /\ cstate' = [cstate EXCEPT ![c][m.addr] = "M"]
    /\ responses' = responses \ {m}
    /\ UNCHANGED <<requests, forward, dirVars, mem, dmaVars, panicked>>

\* responseNetwork_in
Data(c) == ~panicked /\ \E m \in responses : m.dest = c /\ TakeData(c, m)

\* Slip: MI Fwd_GETX ends in I, as if no answer to the PUTX were to come.
ForgetPUTX(s) == "I"

\* MI Fwd_GETX -> II, where the answer to the PUTX is awaited; M and MII -> I.
AfterForward(s) == IF s = "MI" THEN "II" ELSE "I"

\* Slip: M Fwd_GETX sends the block and keeps it.
KeepOnForward(c, a, who) ==
    /\ cstate[c][a] \in {"M", "MI", "MII"}
    /\ responses' = responses \cup {[dest |-> who, addr |-> a, data |-> cdata[c][a]]}
    /\ cstate' = [cstate EXCEPT ![c][a] = IF @ = "MI" THEN "II" ELSE @]
    /\ PopForward(c)
    /\ UNCHANGED <<cdata, requests>>

\* M, MI or MII Fwd_GETX: the block goes to the requestor.
Fwd_GETX(c, a, who) ==
    /\ cstate[c][a] \in {"M", "MI", "MII"}
    /\ responses' = responses \cup {[dest |-> who, addr |-> a, data |-> cdata[c][a]]}
    /\ cstate' = [cstate EXCEPT ![c][a] = AfterForward(@)]
    /\ cdata' = [cdata EXCEPT ![c][a] = InitValue]
    /\ PopForward(c)
    /\ UNCHANGED requests

\* Slip: M drops an invalidation, as I and MI do.
DropInv(c, a) ==
    /\ cstate[c][a] \in {"I", "MI", "M"}
    /\ PopForward(c)
    /\ UNCHANGED <<cstate, cdata, requests, responses>>

\* An invalidation evicts an M line and is then dropped, in MI as in I.
Inv(c, a) ==
    \/ Evict(c, a)
    \/ /\ cstate[c][a] \in {"I", "MI"}
       /\ PopForward(c)
       /\ UNCHANGED <<cstate, cdata, requests, responses>>

\* MI Writeback_Ack -> I
Writeback_Ack(c, a) ==
    /\ cstate[c][a] = "MI"
    /\ cstate' = [cstate EXCEPT ![c][a] = "I"]
    /\ cdata' = [cdata EXCEPT ![c][a] = InitValue]
    /\ PopForward(c)
    /\ UNCHANGED <<requests, responses>>

\* MI Writeback_Nack -> MII, II Writeback_Nack -> I
Writeback_Nack(c, a) ==
    /\ cstate[c][a] \in {"MI", "II"}
    /\ cstate' = [cstate EXCEPT ![c][a] = IF @ = "MI" THEN "MII" ELSE "I"]
    /\ PopForward(c)
    /\ UNCHANGED <<cdata, requests, responses>>

\* forwardRequestNetwork_in; in IS and IM a GETX or an INV stalls at the head.
Forwarded(c) ==
    /\ ~panicked
    /\ forward[c] # <<>>
    /\ LET m == Head(forward[c])
       IN \/ m.type = "GETX" /\ Fwd_GETX(c, m.addr, m.who)
          \/ m.type = "INV" /\ Inv(c, m.addr)
          \/ m.type = "WB_ACK" /\ Writeback_Ack(c, m.addr)
          \/ m.type = "WB_NACK" /\ Writeback_Nack(c, m.addr)
    /\ UNCHANGED <<dirVars, mem, dmaVars, panicked, history>>

-----------------------------------------------------------------------------
(* The directory. *)

SetDir(a, s) == dstate' = [dstate EXCEPT ![a] = s]
SetOwner(a, c) == owner' = [owner EXCEPT ![a] = c]
ToMemory(a, type, who, v) ==
    memq' = [memq EXCEPT ![a] = [type |-> type, who |-> who, data |-> v]]

\* GETX: I -> IM fetches the block, M forwards to the owner; any other state recycles.
DirGETX(m) ==
    /\ m.type = "GETX"
    /\ \/ /\ dstate[m.addr] = "I"
          /\ SetDir(m.addr, "IM")
          /\ ToMemory(m.addr, "READ", m.who, InitValue)
          /\ UNCHANGED forward
       \/ /\ dstate[m.addr] = "M"
          /\ SendForward(owner[m.addr], "GETX", m.addr, m.who)
          /\ UNCHANGED <<dstate, memq>>
    /\ SetOwner(m.addr, m.who)
    /\ requests' = requests \ {m}
    /\ UNCHANGED <<tbe, dmaResps>>

\* Slip: M -> MI writes the block of the TBE, as M_DWR does.
WriteTBEBlock(m) == tbe[m.addr].data

\* The block that goes to memory: the evicted one, for M_DWR that of the DMA write.
WrittenBlock(m) == IF dstate[m.addr] = "M_DWR" THEN tbe[m.addr].data ELSE m.data

\* Slip: M_DRD answers the DMA read with the block of the TBE.
AnswerFromTBE(m) == tbe[m.addr].data

\* The block that answers a DMA read: the evicted one.
AnsweredBlock(m) == m.data

\* PUTX of the owner: M -> MI, M_DRD -> M_DRDI, which answers the DMA read, and
\* M_DWR -> M_DWRI, each with a write to memory.
DirPUTX(m) ==
    /\ m.type = "PUTX" /\ owner[m.addr] = m.who
    /\ \/ /\ dstate[m.addr] = "M"
          /\ SetDir(m.addr, "MI")
          /\ ToMemory(m.addr, "WB", m.who, WrittenBlock(m))
          /\ UNCHANGED dmaResps
       \/ /\ dstate[m.addr] = "M_DRD"
          /\ SetDir(m.addr, "M_DRDI")
          /\ ToMemory(m.addr, "WB", m.who, WrittenBlock(m))
          /\ dmaResps' = dmaResps \cup {[type |-> "DATA", dest |-> tbe[m.addr].who,
                                         addr |-> m.addr, data |-> AnsweredBlock(m)]}
       \/ /\ dstate[m.addr] = "M_DWR"
          /\ SetDir(m.addr, "M_DWRI")
          /\ ToMemory(m.addr, "DMA_WB", m.who, WrittenBlock(m))
          /\ UNCHANGED dmaResps
    /\ SetOwner(m.addr, NoOne)
    /\ requests' = requests \ {m}
    /\ UNCHANGED <<tbe, forward>>

\* PUTX of a cache that lost the line: refused.
DirPUTX_NotOwner(m) ==
    /\ m.type = "PUTX" /\ owner[m.addr] # m.who
    /\ dstate[m.addr] \in {"M", "I"}
    /\ SendForward(m.who, "WB_NACK", m.addr, m.who)
    /\ requests' = requests \ {m}
    /\ UNCHANGED <<dirVars, dmaResps>>

\* requestQueue_in; IM, MI, ID and ID_W recycle.
DirRequest(c) ==
    /\ ~panicked
    /\ \E m \in requests : m.who = c /\ (DirGETX(m) \/ DirPUTX(m) \/ DirPUTX_NotOwner(m))
    /\ UNCHANGED <<cacheVars, responses, mem, dma, dmaReqs, panicked, history>>

\* {READ, WRITE} of a DMA controller: I reads or writes memory, M invalidates the owner.
TakeDmaRequest(m) ==
    /\ \/ /\ dstate[m.addr] = "I"
          /\ SetDir(m.addr, IF m.type = "READ" THEN "ID" ELSE "ID_W")
          /\ ToMemory(m.addr, IF m.type = "READ" THEN "READ" ELSE "DMA_WB", m.who, m.data)
          /\ UNCHANGED forward
       \/ /\ dstate[m.addr] = "M"
          /\ SetDir(m.addr, IF m.type = "READ" THEN "M_DRD" ELSE "M_DWR")
          /\ SendForward(owner[m.addr], "INV", m.addr, NoOne)
          /\ UNCHANGED memq
    /\ tbe' = [tbe EXCEPT ![m.addr] = [who |-> m.who, data |-> m.data]]
    /\ dmaReqs' = dmaReqs \ {m}
    /\ UNCHANGED <<cacheVars, owner, requests, responses, mem, dma, dmaResps, panicked, history>>

\* dmaRequestQueue_in; IM, MI, ID and ID_W recycle.
DirDma(d) == ~panicked /\ \E m \in dmaReqs : m.who = d /\ TakeDmaRequest(m)

\* The memory controller performs the request and answers it; the block of a DMA
\* write becomes the line's value here.
Memory(a) ==
    /\ ~panicked
    /\ \/ /\ memq[a].type = "READ"
          /\ memq' = [memq EXCEPT ![a].type = "Data", ![a].data = mem[a]]
          /\ UNCHANGED <<mem, history>>
       \/ /\ memq[a].type \in {"WB", "DMA_WB"}
          /\ mem' = [mem EXCEPT ![a] = memq[a].data]
          /\ memq' = [memq EXCEPT ![a].type = "Ack"]
          /\ IF memq[a].type = "DMA_WB" THEN Written(a, memq[a].data) ELSE UNCHANGED history
    /\ UNCHANGED <<cacheVars, netVars, dstate, owner, tbe, dmaVars, panicked>>

\* Memory_Data: IM -> M sends the block to the cache, ID -> I to the DMA controller.
Memory_Data(a) ==
    /\ memq[a].type = "Data"
    /\ \/ /\ dstate[a] = "IM"
          /\ SetDir(a, "M")
          /\ responses' = responses \cup
                 {[dest |-> memq[a].who, addr |-> a, data |-> memq[a].data]}
          /\ UNCHANGED <<tbe, dmaResps>>
       \/ /\ dstate[a] = "ID"
          /\ SetDir(a, "I")
          /\ dmaResps' = dmaResps \cup {[type |-> "DATA", dest |-> tbe[a].who,
                                         addr |-> a, data |-> memq[a].data]}
          /\ tbe' = [tbe EXCEPT ![a] = NoTBE]
          /\ UNCHANGED responses
    /\ UNCHANGED forward

\* Memory_Ack: MI, M_DRDI and M_DWRI acknowledge the writeback, M_DWRI and ID_W the
\* DMA write, and go to I.
Memory_Ack(a) ==
    /\ memq[a].type = "Ack"
    /\ dstate[a] \in {"MI", "M_DRDI", "M_DWRI", "ID_W"}
    /\ IF dstate[a] = "ID_W" THEN UNCHANGED forward
                              ELSE SendForward(memq[a].who, "WB_ACK", a, memq[a].who)
    /\ IF dstate[a] \in {"M_DWRI", "ID_W"}
       THEN dmaResps' = dmaResps \cup {[type |-> "ACK", dest |-> tbe[a].who,
                                        addr |-> a, data |-> InitValue]}
       ELSE UNCHANGED dmaResps
    /\ SetDir(a, "I")
    /\ tbe' = [tbe EXCEPT ![a] = NoTBE]
    /\ UNCHANGED responses

\* memQueue_in
DirMemory(a) ==
    /\ ~panicked
    /\ Memory_Data(a) \/ Memory_Ack(a)
    /\ memq' = [memq EXCEPT ![a] = NoMem]
    /\ UNCHANGED <<cacheVars, owner, requests, mem, dma, dmaReqs, panicked, history>>

-----------------------------------------------------------------------------
(* The DMA controllers. *)

\* DMASequencer::makeRequest() and READY {Read,Write}Request: at most one request
\* per line, for the line as a whole.
DmaRequest(d, a, type, v) ==
    /\ ~panicked
    /\ dma[d][a] = "READY"
    /\ dma' = [dma EXCEPT ![d][a] = IF type = "READ" THEN "BUSY_RD" ELSE "BUSY_WR"]
    /\ dmaReqs' = dmaReqs \cup {[type |-> type, addr |-> a, who |-> d, data |-> v]}
    /\ seen' = [seen EXCEPT ![d][a] = IF type = "READ" THEN {latest[a]} ELSE {}]
    /\ UNCHANGED <<cacheVars, netVars, dirVars, mem, dmaResps, panicked, latest>>

\* BUSY_RD Data -> READY, BUSY_WR Ack -> READY.
Awaited(type) == IF type = "DATA" THEN "BUSY_RD" ELSE "BUSY_WR"
TakeDmaResponse(d, m) ==
    /\ dma[d][m.addr] = Awaited(m.type)
    /\ dma' = [dma EXCEPT ![d][m.addr] = "READY"]
    /\ dmaResps' = dmaResps \ {m}
    /\ seen' = [seen EXCEPT ![d][m.addr] = {}]
    /\ UNCHANGED <<cacheVars, netVars, dirVars, mem, dmaReqs, panicked, latest>>

\* dmaResponseQueue_in
DmaResponse(d) == ~panicked /\ \E m \in dmaResps : m.dest = d /\ TakeDmaResponse(d, m)

-----------------------------------------------------------------------------
(* Invalid transitions. *)

\* The states in which a cache has a transition for a message of the forward network.
CacheHandles(type) ==
    CASE type = "GETX" -> {"IS", "IM", "M", "MI", "MII"}
      [] type = "INV" -> {"IS", "IM", "M", "MI", "I"}
      [] type = "WB_ACK" -> {"MI"}
      [] type = "WB_NACK" -> {"MI", "II"}

DirDmaStates == {"M_DRD", "M_DWR", "M_DRDI", "M_DWRI"}

\* The message a controller takes next is one its state has no transition for.
InvalidEvent ==
    \/ \E c \in Cache : /\ forward[c] # <<>>
                        /\ cstate[c][Head(forward[c]).addr] \notin CacheHandles(Head(forward[c]).type)
    \/ \E m \in responses : cstate[m.dest][m.addr] \notin {"IS", "IM"}
    \/ \E m \in requests : /\ m.type = "PUTX" /\ dstate[m.addr] \in DirDmaStates
                           /\ owner[m.addr] # m.who
    \/ \E m \in dmaReqs : dstate[m.addr] \in DirDmaStates
    \/ \E m \in dmaResps : dma[m.dest][m.addr] # Awaited(m.type)

\* doTransition() panics; the process is gone.
Panic == InvalidEvent /\ panicked' = TRUE
         /\ UNCHANGED <<cacheVars, netVars, dirVars, mem, dmaVars, history>>

Next ==
    \/ \E c \in Cache : Data(c) \/ Forwarded(c) \/ DirRequest(c)
    \/ \E c \in Cache, a \in Addr : \/ \E s \in {"IS", "IM"} : Miss(c, a, s)
                                   \/ \E v \in Value : StoreHit(c, a, v)
                                   \/ Replacement(c, a)
    \/ \E d \in Dma : \/ \E a \in Addr : DmaRequest(d, a, "READ", InitValue)
                      \/ \E a \in Addr, v \in Value : DmaRequest(d, a, "WRITE", v)
                      \/ DirDma(d) \/ DmaResponse(d)
    \/ \E a \in Addr : Memory(a) \/ DirMemory(a)
    \/ Panic

Fairness ==
    /\ \A c \in Cache : /\ WF_vars(Data(c)) /\ WF_vars(Forwarded(c))
                        /\ WF_vars(DirRequest(c))
    /\ \A d \in Dma : WF_vars(DirDma(d)) /\ WF_vars(DmaResponse(d))
    /\ \A a \in Addr : WF_vars(Memory(a)) /\ WF_vars(DirMemory(a))
    /\ WF_vars(Panic)

Spec == Init /\ [][Next]_vars /\ Fairness

-----------------------------------------------------------------------------
(* Properties. *)

\* The variables keep their types; in particular the forward network carries only the
\* four kinds of message forwardRequestNetwork_in has an event for.
TypeOK ==
    /\ cstate \in [Cache -> [Addr -> CacheState]]
    /\ cdata \in [Cache -> [Addr -> Value]]
    /\ dstate \in [Addr -> DirState]
    /\ owner \in [Addr -> Cache \cup {NoOne}]
    /\ mem \in [Addr -> Value] /\ latest \in [Addr -> Value]
    /\ \A m \in requests : /\ m.type \in {"GETX", "PUTX"}
                            /\ m.addr \in Addr /\ m.who \in Cache /\ m.data \in Value
    /\ \A m \in responses : m.dest \in Cache /\ m.addr \in Addr /\ m.data \in Value
    /\ \A c \in Cache : \A i \in 1 .. Len(forward[c]) :
           forward[c][i].type \in {"GETX", "INV", "WB_ACK", "WB_NACK"}

\* Two caches never hold a line in M, the state in which loads and stores hit, whatever
\* the races of requests, writebacks and forwarded requests.
SingleOwner ==
    \A a \in Addr : \A c, e \in Cache : cstate[c][a] = "M" /\ cstate[e][a] = "M" => c = e

\* The block a cache may read or write, a block on its way to a cache, and the memory's
\* block when the directory would serve it, is what was written last: no race of a PUTX
\* with a forwarded GETX or with a DMA loses a write.
ValueCurrent ==
    \A a \in Addr :
       /\ \A c \in Cache : cstate[c][a] = "M" => cdata[c][a] = latest[a]
       /\ \A m \in responses : m.addr = a => m.data = latest[a]
       /\ dstate[a] \in {"I", "IM", "ID"} => mem[a] = latest[a]

\* A DMA read returns a value the line had between the request and the response, be it
\* from memory or from the block of the PUTX that the invalidation brought.
DmaReadCurrent ==
    \A m \in dmaResps : m.type = "DATA" => m.data \in seen[m.dest][m.addr]

\* No controller meets an event its state has no transition for: the generated
\* doTransition() panics on "Invalid transition".
NoInvalidTransition == ~panicked

\* Invalid transitions come from DMA alone: when no DMA to an owned line is in progress
\* at the directory and no INV is on its way, every controller has a transition for the
\* message it is to take, even when forwards overtake each other.
InvalidOnlyByDma ==
    InvalidEvent => \/ \E a \in Addr : dstate[a] \in DirDmaStates
                    \/ \E c \in Cache : \E i \in 1 .. Len(forward[c]) : forward[c][i].type = "INV"

\* Something waits for the protocol: a miss, a writeback or a DMA request.
Outstanding ==
    \/ \E c \in Cache, a \in Addr : cstate[c][a] \notin {"I", "M"}
    \/ \E d \in Dma, a \in Addr : dma[d][a] # "READY"
Completion ==
    \/ \E c \in Cache, a \in Addr : cstate[c][a] \notin {"I", "M"} /\ cstate'[c][a] \in {"I", "M"}
    \/ \E d \in Dma, a \in Addr : dma[d][a] # "READY" /\ dma'[d][a] = "READY"
\* The protocol never locks up: while a miss, a writeback or a DMA is outstanding, one
\* of them completes after a while (or the simulation has panicked). Which one is not
\* promised: recycling may put a request behind others again and again.
Progress == []<>(~Outstanding \/ panicked) \/ []<><<Completion>>_vars
=============================================================================
